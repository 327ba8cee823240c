---------------------------- MODULE TargetLedger ----------------------------
(***************************************************************************)
(* What the migration record promises, whatever controllers, caches and    *)
(* faults are behind it: a ledger with one entry.  Migrations complete in  *)
(* the datastores, one at a time; an entry is made only for what has been  *)
(* completed, it is never erased, and it never leaves a datastore that it  *)
(* names for another.                                                      *)
(***************************************************************************)
EXTENDS MigrationIdentity

VARIABLES
    record,   \* the identity on record, or NoIdentity
    done      \* the identities that were migrated

\* Nothing was migrated, or what an earlier operator left on record.
Init == done = {record} \ {NoIdentity}

\* A migration completes.
Complete ==
    /\ \E id \in done' : done' = done \cup {id}
    /\ UNCHANGED record

\* The new entry carries every component of the old one and agrees with it.
Extends(old, new) ==
    \A c \in DOMAIN old.parts :
        c \in DOMAIN new.parts /\ RefsAgree(old.parts[c], new.parts[c])

\* A completed migration is entered.
Record ==
    /\ \E id \in done : MigrationUpToDate(id, record')
    /\ Extends(record, record')
    /\ UNCHANGED done

Next == Complete \/ Record

Spec == Init /\ [][Next]_<<record, done>>
=============================================================================
