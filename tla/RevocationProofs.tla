------------------------- MODULE RevocationProofs -------------------------
(***************************************************************************)
(* While no call fails, a deletion of a project whose organization stays   *)
(* leaves no more API keys of it behind than there were passes that began  *)
(* before the cache knew the project's Secret: proved of Tenancy for every *)
(* number of organizations, projects and keys, every order of the          *)
(* controllers' passes and every age of the copies that they act on.       *)
(*                                                                         *)
(* The clean-up revokes nothing but the key that the cached Secret holds,  *)
(* so the invariant counts the other ones, those that nobody holds.        *)
(***************************************************************************)
EXTENDS TenancyProofs, FiniteSetTheorems

-----------------------------------------------------------------------------
(* Copies are earlier versions                                             *)

\* What CopiesAreEarlier says of one object.
EarlierOK(k, o, s, h, at) ==
    /\ o \notin Absent => (o.deleting => o.finalizer)
    /\ s \notin Absent => Follows(k, o, s)
    /\ h # None =>
          /\ h.finalizer
          /\ Follows(k, o, h)
          /\ h.deleting => Follows(k, s, h)
          /\ at \in DeletionPlaces => h.deleting
          /\ at \notin DeletionPlaces \cup {"orgkey"} => ~h.deleting

LEMMA EarlierByKind ==
    CopiesAreEarlier <=> \A k \in Kinds : EarlierOK(k, obj[k], seen[k], held[k], place[k])
  BY DEF CopiesAreEarlier, EarlierOK

LEMMA EarlierByKindNext ==
    CopiesAreEarlier' <=>
       \A k \in Kinds : EarlierOK(k, obj'[k], seen'[k], held'[k], place'[k])
  BY DEF CopiesAreEarlier, EarlierOK

\* Only one object, its copies and its pass move.
Moves(k) ==
    \A j \in Kinds \ {k} : /\ obj'[j] = obj[j] /\ seen'[j] = seen[j]
                           /\ held'[j] = held[j] /\ place'[j] = place[j]

LEMMA EarlierMoves ==
    ASSUME CopiesAreEarlier, NEW k \in Kinds, Moves(k),
           EarlierOK(k, obj'[k], seen'[k], held'[k], place'[k])
    PROVE  CopiesAreEarlier'
  BY EarlierByKind, EarlierByKindNext DEF Moves

\* What is known of one object and its copies before a step.
LEMMA KindFacts ==
    ASSUME IInv, CopiesAreEarlier, NEW k \in Kinds
    PROVE  /\ ObjectsOK
           /\ KindOK(k, obj[k], seen[k], held[k], current[k], place[k])
           /\ EarlierOK(k, obj[k], seen[k], held[k], place[k])
  BY PartsOfIInv, EarlierByKind DEF ObjectsOK, AllKindsOK

\* A status write, or none, at the end of a pass.
LEMMA EarlierReport ==
    ASSUME IInv, CopiesAreEarlier, NEW k \in Kinds, place[k] # "idle", NEW b \in BOOLEAN,
           k = "project" => ~held[k].deleting,
           Report(k, [held[k] EXCEPT !.ready = b])
    PROVE  CopiesAreEarlier' /\ Moves(k)
  <1> DEFINE new == [held[k] EXCEPT !.ready = b]
  <1>0. /\ ObjectsOK /\ KindOK(k, obj[k], seen[k], held[k], current[k], place[k])
        /\ EarlierOK(k, obj[k], seen[k], held[k], place[k])
    BY KindFacts
  <1>1. held[k] \in Objects
    BY <1>0 DEF KindOK
  <1>2. /\ new \in Objects /\ new.id = held[k].id /\ new.deleting = held[k].deleting
        /\ new.finalizer = held[k].finalizer
    BY <1>1 DEF Objects
  <1> HIDE DEF new
  <1>3. /\ place' = [place EXCEPT ![k] = "idle"] /\ held' = [held EXCEPT ![k] = None]
        /\ seen' = seen
    BY DEF Report, Return
  <1>4. CASE Landed(k)
    <2>1. obj' = [obj EXCEPT ![k] = new]
      BY <1>4 DEF Report, Store, new
    <2>2. obj[k] \notin Absent /\ held[k] = [obj[k] EXCEPT !.id = held[k].id]
      BY <1>0, <1>4 DEF KindOK, Landed
    <2>3. /\ obj[k] \in Objects /\ held[k].deleting = obj[k].deleting
          /\ held[k].finalizer = obj[k].finalizer
      BY <1>0, <1>1, <2>2 DEF KindOK, Objects
    <2>4. obj'[k] = new /\ seen'[k] = seen[k] /\ held'[k] = None
      BY <1>0, <1>3, <2>1 DEF ObjectsOK, IsMap
    <2>5. new \notin Absent
      BY <1>2, ObjectsExist
    <2>6. EarlierOK(k, obj'[k], seen'[k], held'[k], place'[k])
      BY <1>0, <1>2, <2>2, <2>3, <2>4, <2>5 DEF EarlierOK, Follows, Absent
    <2>7. Moves(k)
      BY <1>0, <1>3, <2>1 DEF Moves, ObjectsOK, IsMap
    <2> QED
      BY <2>6, <2>7, EarlierMoves
  <1>5. CASE ~Landed(k)
    <2>1. obj' = obj
      BY <1>5 DEF Report, Drop
    <2>2. obj'[k] = obj[k] /\ seen'[k] = seen[k] /\ held'[k] = None
      BY <1>0, <1>3, <2>1 DEF ObjectsOK, IsMap
    <2>3. EarlierOK(k, obj'[k], seen'[k], held'[k], place'[k])
      BY <1>0, <2>2 DEF EarlierOK
    <2>4. Moves(k)
      BY <1>0, <1>3, <2>1 DEF Moves, ObjectsOK, IsMap
    <2> QED
      BY <2>3, <2>4, EarlierMoves
  <1> QED
    BY <1>4, <1>5

\* A pass that ends without a write.
LEMMA EarlierGiveUp ==
    ASSUME IInv, CopiesAreEarlier, NEW k \in Kinds, Drop(k), Return(k), seen' = seen
    PROVE  CopiesAreEarlier' /\ Moves(k)
  <1>0. ObjectsOK /\ EarlierOK(k, obj[k], seen[k], held[k], place[k])
    BY KindFacts
  <1>1. /\ place' = [place EXCEPT ![k] = "idle"] /\ held' = [held EXCEPT ![k] = None]
        /\ obj' = obj
    BY DEF Drop, Return
  <1>2. obj'[k] = obj[k] /\ seen'[k] = seen[k] /\ held'[k] = None
    BY <1>0, <1>1 DEF ObjectsOK, IsMap
  <1>3. EarlierOK(k, obj'[k], seen'[k], held'[k], place'[k])
    BY <1>0, <1>2 DEF EarlierOK
  <1>4. Moves(k)
    BY <1>0, <1>1 DEF Moves, ObjectsOK, IsMap
  <1> QED
    BY <1>3, <1>4, EarlierMoves

\* A pass goes on, with its copy as it is or with the identifier it has found.
LEMMA EarlierGo ==
    ASSUME IInv, CopiesAreEarlier, NEW k \in Kinds, place[k] # "idle",
           NEW where \in Places \ {"idle"}, Go(k, where), UNCHANGED <<obj, seen>>,
           \/ held' = held
           \/ /\ ~held[k].deleting
              /\ \E id \in IdsOf(k) : held' = [held EXCEPT ![k].id = id],
           where \in DeletionPlaces => held[k].deleting,
           where \notin DeletionPlaces \cup {"orgkey"} => ~held[k].deleting
    PROVE  CopiesAreEarlier' /\ Moves(k)
  <1>0. /\ ObjectsOK /\ KindOK(k, obj[k], seen[k], held[k], current[k], place[k])
        /\ EarlierOK(k, obj[k], seen[k], held[k], place[k])
    BY KindFacts
  <1>1. held[k] \in Objects /\ place' = [place EXCEPT ![k] = where]
    BY <1>0 DEF KindOK, Go
  <1>2. /\ held'[k] \in Objects
        /\ held'[k].deleting = held[k].deleting /\ held'[k].finalizer = held[k].finalizer
        /\ held[k].deleting => held'[k].id = held[k].id
        /\ \A j \in Kinds \ {k} : held'[j] = held[j]
    <2>1. CASE held' = held
      BY <1>1, <2>1
    <2>2. CASE /\ ~held[k].deleting
               /\ \E id \in IdsOf(k) : held' = [held EXCEPT ![k].id = id]
      <3>1. PICK id \in IdsOf(k) : held' = [held EXCEPT ![k].id = id]
        BY <2>2
      <3> DEFINE new == [held[k] EXCEPT !.id = id]
      <3>2. /\ new \in Objects /\ new.deleting = held[k].deleting
            /\ new.finalizer = held[k].finalizer
        BY <1>1 DEF Objects, IdsOf
      <3>3. held' = [held EXCEPT ![k] = new]
        BY <3>1
      <3> HIDE DEF new
      <3> QED
        BY <1>0, <2>2, <3>2, <3>3 DEF ObjectsOK, IsMap
    <2> QED
      BY <2>1, <2>2
  <1>3. place'[k] = where /\ obj' = obj /\ seen' = seen
    BY <1>0, <1>1 DEF ObjectsOK, IsMap
  <1>4. held[k] # None
    BY <1>1, ValuesAssumption
  <1>5. EarlierOK(k, obj'[k], seen'[k], held'[k], place'[k])
    BY <1>0, <1>2, <1>3, <1>4 DEF EarlierOK, Follows, Absent
  <1>6. Moves(k)
    BY <1>0, <1>1, <1>2, <1>3 DEF Moves, ObjectsOK, IsMap
  <1> QED
    BY <1>5, <1>6, EarlierMoves

\* A pass begins with what the cache shows.
LEMMA EarlierGet ==
    ASSUME IInv, CopiesAreEarlier, NEW k \in Kinds, Get(k)
    PROVE  CopiesAreEarlier' /\ Moves(k)
  <1>0. /\ ObjectsOK /\ KindOK(k, obj[k], seen[k], held[k], current[k], place[k])
        /\ EarlierOK(k, obj[k], seen[k], held[k], place[k])
    BY KindFacts
  <1> DEFINE where == IF seen[k].deleting THEN "delete" ELSE "resolve"
  <1>1. /\ seen[k] \notin Absent /\ seen[k].finalizer
        /\ held' = [held EXCEPT ![k] = seen[k]]
        /\ place' = [place EXCEPT ![k] = where]
        /\ obj' = obj /\ seen' = seen
    BY DEF Get, Go
  <1>2. /\ seen[k] \in Objects
        /\ where \in DeletionPlaces => seen[k].deleting
        /\ where \notin DeletionPlaces => ~seen[k].deleting
    BY <1>0, <1>1 DEF KindOK, DeletionPlaces
  <1> HIDE DEF where
  <1>3. held'[k] = seen[k] /\ place'[k] = where
    BY <1>0, <1>1 DEF ObjectsOK, IsMap
  <1>4. EarlierOK(k, obj'[k], seen'[k], held'[k], place'[k])
    BY <1>0, <1>1, <1>2, <1>3 DEF EarlierOK, Follows, Absent
  <1>5. Moves(k)
    BY <1>0, <1>1 DEF Moves, ObjectsOK, IsMap
  <1> QED
    BY <1>4, <1>5, EarlierMoves

LEMMA EarlierAddFinalizer ==
    ASSUME IInv, CopiesAreEarlier, NEW k \in Kinds, AddFinalizer(k)
    PROVE  /\ CopiesAreEarlier' /\ Moves(k)
           /\ obj[k] \notin Absent /\ ~obj[k].finalizer /\ ~obj[k].deleting
           /\ seen' = seen /\ seen[k] = obj[k] /\ held'[k] = obj'[k] /\ obj'[k] \notin Absent
           /\ obj'[k] = [obj[k] EXCEPT !.finalizer = TRUE] /\ obj[k] \in Objects
  <1>0. /\ ObjectsOK /\ KindOK(k, obj[k], seen[k], held[k], current[k], place[k])
        /\ EarlierOK(k, obj[k], seen[k], held[k], place[k])
    BY KindFacts
  <1> DEFINE new == [seen[k] EXCEPT !.finalizer = TRUE]
  <1>1. /\ seen[k] \notin Absent /\ ~seen[k].finalizer /\ "seen" \in current[k]
        /\ held' = [held EXCEPT ![k] = new]
        /\ obj' = [obj EXCEPT ![k] = new]
        /\ place' = [place EXCEPT ![k] = "resolve"]
        /\ seen' = seen
    BY DEF AddFinalizer, Go, Store
  <1>2. seen[k] \in Objects /\ seen[k] = obj[k]
    BY <1>0, <1>1 DEF KindOK
  <1>3. /\ new \in Objects /\ new.finalizer = TRUE /\ new.deleting = seen[k].deleting
        /\ new.id = seen[k].id
    BY <1>2 DEF Objects
  <1>4. ~seen[k].deleting /\ new \notin Absent
    BY <1>0, <1>1, <1>2, <1>3, ObjectsExist DEF EarlierOK
  <1>5. new = [obj[k] EXCEPT !.finalizer = TRUE]
    BY <1>2
  <1> HIDE DEF new
  <1>6. held'[k] = new /\ obj'[k] = new /\ place'[k] = "resolve"
    BY <1>0, <1>1 DEF ObjectsOK, IsMap
  <1>7. EarlierOK(k, obj'[k], seen'[k], held'[k], place'[k])
    BY <1>1, <1>3, <1>4, <1>6 DEF EarlierOK, Follows, Absent, DeletionPlaces
  <1>8. Moves(k)
    BY <1>0, <1>1 DEF Moves, ObjectsOK, IsMap
  <1> QED
    BY <1>1, <1>2, <1>4, <1>5, <1>6, <1>7, <1>8, EarlierMoves

LEMMA EarlierRemoveFinalizer ==
    ASSUME IInv, CopiesAreEarlier, NEW k \in Kinds, RemoveFinalizer(k)
    PROVE  /\ CopiesAreEarlier' /\ Moves(k) /\ held'[k] = None /\ seen' = seen
           /\ obj'[k] = obj[k] \/ (obj'[k] = Gone /\ held[k].deleting /\ obj[k].deleting)
  <1>0. /\ ObjectsOK /\ KindOK(k, obj[k], seen[k], held[k], current[k], place[k])
        /\ EarlierOK(k, obj[k], seen[k], held[k], place[k])
    BY KindFacts
  <1>1. /\ place' = [place EXCEPT ![k] = "idle"] /\ held' = [held EXCEPT ![k] = None]
        /\ seen' = seen /\ place[k] = "release"
    BY DEF RemoveFinalizer, Return
  <1>2. held'[k] = None
    BY <1>0, <1>1 DEF ObjectsOK, IsMap
  <1>3. CASE Landed(k) /\ Store(k, Gone, {})
    <2>1. obj' = [obj EXCEPT ![k] = Gone]
      BY <1>3 DEF Store
    <2>2. obj'[k] = Gone /\ Moves(k)
      BY <1>0, <1>1, <2>1 DEF Moves, ObjectsOK, IsMap
    <2>3. held[k] # None /\ held[k].deleting /\ obj[k] \notin Absent
      BY <1>0, <1>1, <1>3 DEF KindOK, Landed, EarlierOK, DeletionPlaces
    <2>4. seen[k] \notin Absent => seen[k].deleting
      BY <1>0, <2>3 DEF EarlierOK, Follows, Absent
    <2>5. EarlierOK(k, obj'[k], seen'[k], held'[k], place'[k])
      BY <1>1, <1>2, <2>2, <2>4 DEF EarlierOK, Follows, Absent
    <2>6. obj[k].deleting
      BY <1>0, <2>3 DEF EarlierOK, Follows, Absent
    <2> QED
      BY <1>1, <1>2, <2>2, <2>3, <2>5, <2>6, EarlierMoves
  <1>4. CASE Drop(k)
    <2>1. obj' = obj /\ Return(k)
      BY <1>4 DEF Drop, RemoveFinalizer
    <2> QED
      BY <1>1, <1>2, <1>4, <2>1, EarlierGiveUp
  <1> QED
    BY <1>3, <1>4 DEF RemoveFinalizer

LEMMA EarlierSynced ==
    ASSUME IInv, CopiesAreEarlier, NEW k \in Kinds, Synced(k)
    PROVE  CopiesAreEarlier' /\ Moves(k)
  <1>0. /\ place[k] = "status"
        /\ KindOK(k, obj[k], seen[k], held[k], current[k], place[k])
        /\ EarlierOK(k, obj[k], seen[k], held[k], place[k])
    BY KindFacts DEF Synced
  <1>1. ~held[k].deleting
    BY <1>0 DEF EarlierOK, KindOK, DeletionPlaces
  <1>2. CASE Report(k, [held[k] EXCEPT !.ready = TRUE])
    BY <1>0, <1>1, <1>2, EarlierReport
  <1>3. CASE Drop(k) /\ Return(k) /\ seen' = seen
    BY <1>3, EarlierGiveUp
  <1> QED
    BY <1>2, <1>3 DEF Synced

LEMMA EarlierWatch ==
    ASSUME IInv, CopiesAreEarlier, NEW k \in Kinds, Watch(k)
    PROVE  CopiesAreEarlier' /\ Moves(k) /\ seen'[k] = obj[k]
  <1>0. /\ ObjectsOK /\ KindOK(k, obj[k], seen[k], held[k], current[k], place[k])
        /\ EarlierOK(k, obj[k], seen[k], held[k], place[k])
    BY KindFacts
  <1>1. /\ seen' = [seen EXCEPT ![k] = obj[k]]
        /\ obj' = obj /\ held' = held /\ place' = place
    BY DEF Watch
  <1>2. seen'[k] = obj[k] /\ Moves(k)
    BY <1>0, <1>1 DEF Moves, ObjectsOK, IsMap
  <1>3. EarlierOK(k, obj'[k], seen'[k], held'[k], place'[k])
    BY <1>0, <1>1, <1>2 DEF EarlierOK, Follows, Absent
  <1> QED
    BY <1>2, <1>3, EarlierMoves

\* What the user writes.
LEMMA EarlierUser ==
    ASSUME IInv, CopiesAreEarlier, NEW k \in Kinds, obj[k] \notin Absent,
           NEW new \in Objects \cup {Gone}, Store(k, new, {}), UNCHANGED <<seen, held, place>>,
           new = Gone => ~obj[k].finalizer,
           new \notin Absent =>
              /\ new.id = obj[k].id /\ new.finalizer = obj[k].finalizer
              /\ obj[k].deleting => new.deleting
              /\ new.deleting => new.finalizer
    PROVE  CopiesAreEarlier' /\ Moves(k) /\ obj'[k] = new
  <1>0. /\ ObjectsOK /\ EarlierOK(k, obj[k], seen[k], held[k], place[k])
    BY KindFacts
  <1>1. obj' = [obj EXCEPT ![k] = new]
    BY DEF Store
  <1>2. obj'[k] = new /\ Moves(k)
    BY <1>0, <1>1 DEF Moves, ObjectsOK, IsMap
  <1>3. EarlierOK(k, obj'[k], seen'[k], held'[k], place'[k])
    BY <1>0, <1>2, ObjectsExist DEF EarlierOK, Follows, Absent
  <1> QED
    BY <1>2, <1>3, EarlierMoves

LEMMA EarlierDelete ==
    ASSUME IInv, CopiesAreEarlier, NEW k \in Kinds, Delete(k)
    PROVE  /\ CopiesAreEarlier' /\ Moves(k) /\ Wants(k)
           /\ \/ obj'[k] = Gone /\ ~obj[k].finalizer
              \/ /\ obj'[k] \notin Absent /\ obj'[k].deleting /\ obj'[k].id = obj[k].id
                 /\ obj'[k].finalizer /\ obj[k].finalizer
  <1>0. obj[k] \in Objects /\ obj[k] \notin Absent /\ ~obj[k].deleting
        /\ UNCHANGED <<seen, held, place>>
    BY KindFacts DEF Delete, Wants, KindOK
  <1>1. CASE ~obj[k].finalizer /\ Store(k, Gone, {})
    BY <1>0, <1>1, ObjectsExist, EarlierUser DEF Wants
  <1>2. CASE /\ obj[k].finalizer
             /\ \E purge \in BOOLEAN :
                   Store(k, [obj[k] EXCEPT !.deleting = TRUE, !.purge = purge], {})
    <2>1. PICK purge \in BOOLEAN :
             Store(k, [obj[k] EXCEPT !.deleting = TRUE, !.purge = purge], {})
      BY <1>2
    <2> DEFINE new == [obj[k] EXCEPT !.deleting = TRUE, !.purge = purge]
    <2>2. /\ new \in Objects /\ new.id = obj[k].id /\ new.deleting
          /\ new.finalizer = obj[k].finalizer /\ new \notin Absent
      BY <1>0, ObjectsExist DEF Objects
    <2> HIDE DEF new
    <2>3. Store(k, new, {})
      BY <2>1 DEF new
    <2> QED
      BY <1>0, <1>2, <2>2, <2>3, ObjectsExist, EarlierUser DEF Wants
  <1> QED
    BY <1>1, <1>2 DEF Delete

\* No copy of the project's object is older than the object.
LEMMA EarlierCreate ==
    ASSUME IInv, CopiesAreEarlier, Create
    PROVE  /\ CopiesAreEarlier' /\ Moves("project") /\ UNCHANGED <<seen, held, place>>
           /\ obj["project"] = Unused /\ obj'["project"] = NewObject
           /\ seen["project"] \in Absent /\ held["project"] = None
  <1> DEFINE k == "project"
  <1>0. /\ k \in Kinds /\ ObjectsOK /\ EarlierOK(k, obj[k], seen[k], held[k], place[k])
        /\ KindOK(k, obj[k], seen[k], held[k], current[k], place[k])
    BY KindFacts DEF Kinds
  <1>1. /\ UNCHANGED <<seen, held, place>> /\ obj[k] = Unused /\ obj'[k] = NewObject
        /\ obj'["organization"] = obj["organization"]
    BY <1>0, CreateStep
  <1>2. seen[k] \in Absent /\ held[k] = None
    BY <1>0, <1>1, ValuesAssumption DEF EarlierOK, Follows
  <1>3. EarlierOK(k, obj'[k], seen'[k], held'[k], place'[k])
    BY <1>1, <1>2, NewObjectFacts DEF EarlierOK
  <1>4. Moves(k)
    BY <1>1 DEF Moves, Kinds
  <1> QED
    BY <1>0, <1>1, <1>2, <1>3, <1>4, EarlierMoves

LEMMA EarlierRename ==
    ASSUME IInv, CopiesAreEarlier, Rename
    PROVE  CopiesAreEarlier'
  <1> DEFINE k == "organization"
  <1>0. /\ k \in Kinds /\ obj[k] \in Objects /\ obj[k] \notin Absent
        /\ UNCHANGED <<seen, held, place>> /\ (obj[k].deleting => obj[k].finalizer)
    BY KindFacts DEF Rename, KindOK, EarlierOK, Kinds
  <1>1. PICK name \in Names \ {obj[k].name} : Store(k, [obj[k] EXCEPT !.name = name], {})
    BY DEF Rename
  <1> DEFINE new == [obj[k] EXCEPT !.name = name]
  <1>2. /\ new \in Objects /\ new.id = obj[k].id /\ new.deleting = obj[k].deleting
        /\ new.finalizer = obj[k].finalizer /\ new \notin Absent
    BY <1>0, ObjectsExist DEF Objects
  <1>3. Store(k, new, {})
    BY <1>1
  <1> HIDE DEF new, k
  <1> QED
    BY <1>0, <1>2, <1>3, ObjectsExist, EarlierUser

LEMMA EarlierRestart ==
    ASSUME IInv, CopiesAreEarlier, Restart
    PROVE  CopiesAreEarlier'
  <1>1. ASSUME NEW k \in Kinds
        PROVE  EarlierOK(k, obj'[k], seen'[k], held'[k], place'[k])
    <2>1. EarlierOK(k, obj[k], seen[k], held[k], place[k])
      BY KindFacts
    <2>2. obj'[k] = obj[k] /\ seen'[k] = obj[k] /\ held'[k] = None
      BY DEF Restart
    <2> QED
      BY <2>1, <2>2 DEF EarlierOK, Follows, Absent
  <1> QED
    BY <1>1, EarlierByKindNext

LEMMA OrganizationKeepsEarlier ==
    ASSUME IInv, CopiesAreEarlier, OrganizationController
    PROVE  CopiesAreEarlier' /\ Moves("organization")
  <1> DEFINE k == "organization"
  <1>0. /\ k \in Kinds /\ EarlierOK(k, obj[k], seen[k], held[k], place[k])
        /\ KindOK(k, obj[k], seen[k], held[k], current[k], place[k])
    BY KindFacts DEF Kinds
  <1>1. CASE place[k] # "idle" /\ OrgFails
    BY <1>0, <1>1, EarlierReport DEF OrgFails, NotReady
  <1>2. CASE Get(k) \/ AddFinalizer(k) \/ Synced(k) \/ RemoveFinalizer(k)
    BY <1>0, <1>2, EarlierGet, EarlierAddFinalizer, EarlierSynced, EarlierRemoveFinalizer
  <1>3. ASSUME place[k] \in {"resolve", "create", "members"},
               NEW where \in {"create", "members", "status"}, Go(k, where),
               UNCHANGED <<obj, seen>>,
               held' = held \/ \E id \in OrgIds : held' = [held EXCEPT ![k].id = id]
        PROVE  CopiesAreEarlier' /\ Moves(k)
    <2>1. held[k] # None /\ ~held[k].deleting
      BY <1>0, <1>3 DEF EarlierOK, KindOK, DeletionPlaces
    <2>2. where \in Places \ {"idle"} /\ where \notin DeletionPlaces /\ IdsOf(k) = OrgIds
      BY <1>3 DEF Places, DeletionPlaces, IdsOf
    <2> QED
      BY <1>0, <1>3, <2>1, <2>2, EarlierGo
  <1>4. ASSUME place[k] \in {"delete", "cleanup"}, NEW where \in {"cleanup", "release"},
               Go(k, where), UNCHANGED <<obj, seen, held>>
        PROVE  CopiesAreEarlier' /\ Moves(k)
    <2>1. held[k] # None /\ held[k].deleting
      BY <1>0, <1>4 DEF EarlierOK, KindOK, DeletionPlaces
    <2>2. where \in Places \ {"idle"} /\ where \in DeletionPlaces
      BY <1>4 DEF Places, DeletionPlaces
    <2> QED
      BY <1>0, <1>4, <2>1, <2>2, EarlierGo
  <1>5. CASE ResolveFails
    BY <1>1, <1>5 DEF ResolveFails, AtOrg
  <1>6. CASE SyncOrganization
    <2>0. place[k] = "resolve" /\ Org.id \in OrgIds \cup {None}
      BY <1>6, OrgFacts DEF SyncOrganization, AtOrg
    <2>1. \/ OrgFails
          \/ /\ UNCHANGED <<obj, seen>>
             /\ \/ /\ GetOrganization(Org.id)
                   /\ Found(k, Org.id, "members")
                \/ \E o \in SearchOrganization(Org.name) : Found(k, o, "members")
                \/ UNCHANGED held /\ Go(k, "create")
      BY <1>6 DEF SyncOrganization, Onward
    <2>2. GetOrganization(Org.id) => Org.id \in OrgIds
      BY <2>0 DEF GetOrganization
    <2>3. SearchOrganization(Org.name) \subseteq OrgIds
      BY DEF SearchOrganization, ListOrganizations
    <2>4. \/ OrgFails
          \/ /\ UNCHANGED <<obj, seen>>
             /\ \/ \E o \in OrgIds : Found(k, o, "members")
                \/ UNCHANGED held /\ Go(k, "create")
      BY <2>1, <2>2, <2>3
    <2> QED
      BY <1>1, <1>3, <2>0, <2>4 DEF Found
  <1>7. CASE MakeOrganization \/ SyncMembers
    <2>1. \/ place[k] # "idle" /\ OrgFails
          \/ /\ place[k] \in {"create", "members"} /\ UNCHANGED <<obj, seen>>
             /\ \/ /\ \E id \in OrgIds : held' = [held EXCEPT ![k].id = id]
                   /\ Go(k, "members")
                \/ UNCHANGED held /\ Go(k, "status")
      BY <1>7 DEF MakeOrganization, SyncMembers, AtOrg, Onward, Found
    <2> QED
      BY <1>1, <1>3, <2>1
  <1>8. CASE CountDependents \/ CleanUpOrganization
    <2>1. \/ place[k] # "idle" /\ OrgFails
          \/ /\ place[k] \in {"delete", "cleanup"} /\ UNCHANGED <<obj, seen, held>>
             /\ Go(k, "cleanup") \/ Go(k, "release")
      BY <1>8 DEF CountDependents, CleanUpOrganization, AtOrg, Onward
    <2> QED
      BY <1>1, <1>4, <2>1
  <1> QED
    BY <1>2, <1>5, <1>6, <1>7, <1>8 DEF OrganizationController

\* Where the steps of a project pass begin, and whether it is a deletion.
LEMMA ProjectCopyFacts ==
    ASSUME IInv, CopiesAreEarlier, place["project"] # "idle"
    PROVE  /\ Project \in Objects /\ Project # None /\ Project.finalizer
           /\ place["project"] \in DeletionPlaces => Project.deleting
           /\ place["project"] \notin DeletionPlaces \cup {"orgkey"} => ~Project.deleting
           /\ ~Project.deleting => obj["project"] \notin Absent /\ obj["project"].finalizer
           /\ obj["project"] # Unused /\ (Project.deleting => seen["project"] # Unused)
           /\ Project.deleting /\ obj["project"] \notin Absent =>
                 obj["project"].deleting /\ obj["project"].id = Project.id
           /\ Project.deleting /\ seen["project"] \notin Absent =>
                 seen["project"].deleting /\ seen["project"].id = Project.id
  <1> DEFINE k == "project"
  <1>1. /\ k \in Kinds /\ EarlierOK(k, obj[k], seen[k], held[k], place[k])
        /\ KindOK(k, obj[k], seen[k], held[k], current[k], place[k])
    BY KindFacts DEF Kinds
  <1> QED
    BY <1>1, ValuesAssumption DEF EarlierOK, KindOK, Follows, Absent, Project

LEMMA ProjectKeepsEarlier ==
    ASSUME IInv, CopiesAreEarlier, ProjectController
    PROVE  CopiesAreEarlier' /\ Moves("project")
  <1> DEFINE k == "project"
  <1>0. k \in Kinds
    BY DEF Kinds
  <1>1. CASE place[k] \notin {"idle", "orgkey"} \cup DeletionPlaces /\ ProjectFails
    <2>1. ~held[k].deleting
      BY <1>1, ProjectCopyFacts DEF Project
    <2> QED
      BY <1>0, <1>1, <2>1, EarlierReport DEF ProjectFails, NotReady
  <1>2. CASE Get(k) \/ AddFinalizer(k) \/ Synced(k) \/ RemoveFinalizer(k)
    BY <1>0, <1>2, EarlierGet, EarlierAddFinalizer, EarlierSynced, EarlierRemoveFinalizer
  <1>3. ASSUME place[k] # "idle", NEW where \in Places \ {"idle"}, Continue(where),
               held' = held,
               where \in DeletionPlaces => Project.deleting,
               where \notin DeletionPlaces \cup {"orgkey"} => ~Project.deleting
        PROVE  CopiesAreEarlier' /\ Moves(k)
    BY <1>0, <1>3, EarlierGo DEF Continue, Project
  <1>4. CASE place[k] # "idle" /\ GiveUp
    <2>1. CASE Project.deleting
      BY <1>3, <1>4, <2>1 DEF GiveUp, Places, DeletionPlaces
    <2>2. CASE ~Project.deleting
      BY <1>0, <1>4, <2>2, EarlierReport DEF GiveUp, ProjectFails, NotReady, Project
    <2> QED
      BY <2>1, <2>2
  <1>5. CASE ResolveProjectFails
    BY <1>4, <1>5 DEF ResolveProjectFails, AtProject
  <1>6. CASE EnsureClient \/ CacheOrgKey
    <2>1. /\ place[k] # "idle"
          /\ \/ GiveUp
             \/ held' = held /\ (Continue(Authorized) \/ Continue("orgkey"))
      BY <1>6 DEF EnsureClient, CacheOrgKey, Client, AtProject
    <2>2. Authorized \in Places \ {"idle"} /\ "orgkey" \in Places \ {"idle"}
      BY DEF Authorized, Places
    <2>3. /\ Authorized \in DeletionPlaces => Project.deleting
          /\ Authorized \notin DeletionPlaces => ~Project.deleting
      BY DEF Authorized, DeletionPlaces
    <2>4. "orgkey" \notin DeletionPlaces
      BY DEF DeletionPlaces
    <2> QED
      BY <1>3, <1>4, <2>1, <2>2, <2>3, <2>4
  <1>7. CASE SyncProject \/ MakeProject \/ CheckKey \/ MintKey \/ StoreKey
    <2>1. /\ place[k] \in {"project", "create", "keys", "mint", "store"}
          /\ \/ ProjectFails
             \/ /\ Continue("keys")
                /\ \E id \in ProjectIds : held' = [held EXCEPT ![k].id = id]
             \/ /\ held' = held
                /\ \E where \in {"keys", "create", "status", "mint", "store"} : Continue(where)
      BY <1>7 DEF SyncProject, MakeProject, CheckKey, MintKey, StoreKey, AtProject, ListProjects
    <2>2. place[k] \notin {"idle", "orgkey"} \cup DeletionPlaces /\ ~Project.deleting
      BY <2>1, ProjectCopyFacts DEF DeletionPlaces
    <2>3. {"keys", "create", "status", "mint", "store"} \subseteq Places \ DeletionPlaces
      BY DEF Places, DeletionPlaces
    <2>4. CASE ProjectFails
      BY <1>1, <2>2, <2>4
    <2>5. CASE /\ Continue("keys")
               /\ \E id \in ProjectIds : held' = [held EXCEPT ![k].id = id]
      BY <1>0, <2>2, <2>3, <2>5, EarlierGo DEF Continue, IdsOf, Project, Places
    <2>6. CASE /\ held' = held
               /\ \E where \in {"keys", "create", "status", "mint", "store"} : Continue(where)
      BY <1>3, <2>2, <2>3, <2>6
    <2> QED
      BY <2>1, <2>4, <2>5, <2>6
  <1>8. CASE RevokeKey \/ PurgeProject \/ DeleteSecret
    <2>1. /\ place[k] \in {"revoke", "purge", "secret"} /\ held' = held
          /\ \E where \in {"purge", "secret", "release"} : Continue(where)
      BY <1>8 DEF RevokeKey, PurgeProject, DeleteSecret, AtProject
    <2>2. place[k] # "idle" /\ Project.deleting
      BY <2>1, ProjectCopyFacts DEF DeletionPlaces
    <2>3. {"purge", "secret", "release"} \subseteq (Places \ {"idle"}) \cap DeletionPlaces
      BY DEF Places, DeletionPlaces
    <2> QED
      BY <1>3, <2>1, <2>2, <2>3
  <1> QED
    BY <1>2, <1>5, <1>6, <1>7, <1>8 DEF ProjectController

LEMMA EarlierIsKept == IInv /\ CopiesAreEarlier /\ [Next]_vars => CopiesAreEarlier'
  <1> SUFFICES ASSUME IInv, CopiesAreEarlier, [Next]_vars PROVE CopiesAreEarlier'
    OBVIOUS
  <1>1. CASE UNCHANGED objectVars
    BY <1>1 DEF objectVars, CopiesAreEarlier
  <1>2. CASE \E k \in Kinds : Watch(k) \/ Delete(k)
    BY <1>2, EarlierWatch, EarlierDelete
  <1> QED
    BY <1>1, <1>2, OrganizationKeepsEarlier, ProjectKeepsEarlier, EarlierCreate, EarlierRename,
       EarlierRestart
       DEF Next, WatchSecrets, CollectGarbage, Outside, FlipInstance, vars

-----------------------------------------------------------------------------
(* Undisturbed steps                                                       *)

LEMMA FaultsGrow ==
    ASSUME IInv, [Next]_vars, faults' = 0
    PROVE  faults = 0 /\ ~Fault
  <1>0. faults \in Nat
    BY PartsOfIInv DEF BoundsOK
  <1>1. OrganizationController => Fault \/ UNCHANGED faults
    BY DEF OrganizationController, Get, AddFinalizer, ResolveFails, SyncOrganization,
           MakeOrganization, SyncMembers, Synced, CountDependents, CleanUpOrganization,
           RemoveFinalizer, Fails
  <1>2. (Get("project") \/ AddFinalizer("project") \/ Synced("project")
          \/ RemoveFinalizer("project")) => Fault \/ UNCHANGED faults
    BY DEF Get, AddFinalizer, Synced, RemoveFinalizer, Fails
  <1>3. (ResolveProjectFails \/ EnsureClient \/ CacheOrgKey \/ SyncProject \/ MakeProject)
           => Fault \/ UNCHANGED faults
    BY DEF ResolveProjectFails, EnsureClient, CacheOrgKey, SyncProject, MakeProject, Fails,
           SetSecret
  <1>4. (CheckKey \/ MintKey \/ StoreKey \/ RevokeKey \/ PurgeProject \/ DeleteSecret)
           => Fault \/ UNCHANGED faults
    BY DEF CheckKey, MintKey, StoreKey, RevokeKey, PurgeProject, DeleteSecret, Fails, SetSecret
  <1>5. Fault \/ UNCHANGED faults
    BY <1>1, <1>2, <1>3, <1>4
       DEF Next, ProjectController, Watch, Delete, WatchSecrets, CollectGarbage, Create, Rename,
           Outside, FlipInstance, Restart, vars
  <1> QED
    BY <1>0, <1>5 DEF Fault

\* A status write of the organization controller keeps the request to delete the object.
LEMMA OrgReports ==
    ASSUME IInv, place["organization"] # "idle", NEW b \in BOOLEAN, b => Org.id # None,
           Report("organization", [held["organization"] EXCEPT !.ready = b])
    PROVE  \/ obj'["organization"] = obj["organization"]
           \/ /\ Landed("organization")
              /\ obj["organization"] \notin Absent /\ obj'["organization"] \notin Absent
              /\ obj'["organization"].ready = b /\ obj'["organization"].id = Org.id
              /\ obj'["organization"].name = Org.name
              /\ obj'["organization"].deleting = obj["organization"].deleting
              /\ obj'["organization"].deleting = Org.deleting
  <1> DEFINE k == "organization"
             new == [held[k] EXCEPT !.ready = b]
  <1>0. k \in Kinds /\ ObjectsOK /\ KindOK(k, obj[k], seen[k], held[k], current[k], place[k])
    BY PartsOfIInv DEF ObjectsOK, AllKindsOK, Kinds
  <1>1. obj'[k] = obj[k] \/ ("held" \in current[k] /\ obj'[k] = new)
    BY <1>0, ReportStep DEF Org
  <1>2. held[k] \in Objects
    BY <1>0 DEF KindOK
  <1>3. /\ new.id = held[k].id /\ new.deleting = held[k].deleting /\ new.name = held[k].name
        /\ new.ready = b /\ new \in Objects
    BY <1>2 DEF Objects
  <1> HIDE DEF new
  <1>4. CASE "held" \in current[k] /\ obj'[k] = new
    <2>1. obj[k] \in Objects /\ obj[k] \notin Absent /\ held[k] = [obj[k] EXCEPT !.id = held[k].id]
      BY <1>0, <1>4 DEF KindOK
    <2>2. held[k].deleting = obj[k].deleting
      BY <1>2, <2>1 DEF Objects
    <2>3. new \notin Absent
      BY <1>3, ObjectsExist
    <2> QED
      BY <1>3, <1>4, <2>1, <2>2, <2>3 DEF Org, Landed
  <1> QED
    BY <1>1, <1>4

\* The organization's object, after a step, is wanted only if it was before.
LEMMA WantsBefore ==
    ASSUME IInv, CopiesAreEarlier, [Next]_vars, Wants("organization")'
    PROVE  Wants("organization")
  <1> DEFINE k == "organization"
  <1>0. /\ k \in Kinds /\ obj'[k] \notin Absent /\ ~obj'[k].deleting
    BY DEF Wants, Kinds
  <1>1. CASE obj'[k] = obj[k]
    BY <1>0, <1>1 DEF Wants
  <1>2. CASE place[k] # "idle" /\ OrgFails
    BY <1>0, <1>1, <1>2, OrgReports DEF OrgFails, NotReady, Wants
  <1>3. CASE Synced(k)
    <2>1. Report(k, [held[k] EXCEPT !.ready = TRUE]) \/ obj' = obj
      BY <1>3 DEF Synced, Drop
    <2>2. place[k] # "idle" /\ Org.id # None
      BY <1>0, <1>3, IdentifierNoted DEF Synced, Org
    <2> QED
      BY <1>0, <1>1, <2>1, <2>2, OrgReports DEF Wants
  <1>4. CASE AddFinalizer(k) \/ RemoveFinalizer(k)
    BY <1>0, <1>1, <1>4, EarlierAddFinalizer, EarlierRemoveFinalizer, ObjectsExist DEF Wants
  <1>5. CASE Get(k) \/ ResolveFails \/ SyncOrganization
    <2>1. obj' = obj \/ (OrgFails /\ place[k] # "idle")
      BY <1>5 DEF Get, ResolveFails, SyncOrganization, Onward, AtOrg
    <2> QED
      BY <1>1, <1>2, <2>1
  <1>6. CASE MakeOrganization \/ SyncMembers \/ CountDependents \/ CleanUpOrganization
    <2>1. obj' = obj \/ (OrgFails /\ place[k] # "idle")
      BY <1>6 DEF MakeOrganization, SyncMembers, CountDependents, CleanUpOrganization, Onward,
                  AtOrg
    <2> QED
      BY <1>1, <1>2, <2>1
  <1>7. CASE ProjectController
    BY <1>0, <1>1, <1>7, ProjectKeepsEarlier DEF Moves
  <1>8. CASE (\E j \in Kinds : Watch(j)) \/ UNCHANGED objectVars \/ Restart
    BY <1>1, <1>8 DEF Watch, objectVars, Restart
  <1>11. CASE Create
    BY <1>0, <1>1, <1>11, EarlierCreate DEF Moves
  <1>9. CASE \E j \in Kinds : Delete(j)
    <2>1. PICK j \in Kinds : Delete(j)
      BY <1>9
    <2> QED
      BY <1>0, <1>1, <2>1, ObjectsExist, EarlierDelete DEF Moves, Wants
  <1>10. CASE Rename
    <2>1. obj[k] \notin Absent /\ \E name \in Names : obj' = [obj EXCEPT ![k] = [obj[k] EXCEPT !.name = name]]
      BY <1>10 DEF Rename, Store
    <2>2. obj[k] \in Objects /\ ObjectsOK
      BY <1>0, <2>1, KindFacts DEF KindOK
    <2>3. obj'[k].deleting = obj[k].deleting
      BY <1>0, <2>1, <2>2 DEF Objects, ObjectsOK, IsMap
    <2> QED
      BY <1>0, <2>1, <2>3 DEF Wants
  <1> QED
    BY <1>3, <1>4, <1>5, <1>6, <1>7, <1>8, <1>9, <1>10, <1>11
       DEF Next, OrganizationController, WatchSecrets, CollectGarbage, Outside, FlipInstance, vars

\* A state that nothing has disturbed comes from one.
LEMMA UndisturbedBefore ==
    ASSUME IInv, CopiesAreEarlier, [Next]_vars, Undisturbed'
    PROVE  Undisturbed /\ ~Fault /\ faults' = 0
  BY FaultsGrow, WantsBefore DEF Undisturbed

-----------------------------------------------------------------------------
(* The organization of an object that stays                                *)

\* The organizations at Langfuse are those that were, under their names.
SameOrganizations ==
    \A o \in OrgIds :
        /\ orgs'[o] \notin Absent <=> orgs[o] \notin Absent
        /\ orgs[o] \notin Absent => orgs'[o].name = orgs[o].name

LEMMA OrgTypes ==
    ASSUME IInv, Wants("organization"), OrganizationStands
    PROVE  /\ "organization" \in Kinds /\ seen["organization"] \notin Absent
           /\ obj["organization"] \in Objects /\ seen["organization"] \in Objects
           /\ obj["organization"].id \in OrgIds \cup {None}
           /\ seen["organization"].id \in OrgIds \cup {None}
           /\ held["organization"] # None =>
                 Org \in Objects /\ Org.id \in OrgIds \cup {None}
           /\ ServerTypeOK /\ OrgSearchStands
           /\ None \notin OrgIds
  <1> DEFINE k == "organization"
  <1>1. /\ k \in Kinds /\ KindOK(k, obj[k], seen[k], held[k], current[k], place[k])
        /\ IdsOf(k) = OrgIds /\ ServerTypeOK /\ OrgSearchStands
    BY PartsOfIInv DEF ObjectsOK, AllKindsOK, Kinds, IdsOf
  <1> QED
    BY <1>1, ValuesAssumption DEF KindOK, Wants, Org, OrganizationStands

\* A step that leaves the organization, its object and the copies as they are, or gives up
\* the copy of a pass or takes the one in the cache.
LEMMA OrgStandsRests ==
    ASSUME IInv, Wants("organization"), OrganizationStands, SameOrganizations, up' = up,
           obj'["organization"] = obj["organization"],
           seen'["organization"] = seen["organization"],
           held'["organization"] \in {held["organization"], None, seen["organization"]}
    PROVE  OrganizationStands'
  <1>0. /\ obj["organization"].id \in OrgIds \cup {None}
        /\ seen["organization"].id \in OrgIds \cup {None}
        /\ held["organization"] # None => Org.id \in OrgIds \cup {None}
    BY OrgTypes
  <1>1. /\ \A o \in OrgIds : GetOrganization(o)' <=> GetOrganization(o)
        /\ \A o \in OrgIds : GetOrganization(o) => orgs'[o].name = orgs[o].name
    BY DEF SameOrganizations, GetOrganization
  <1>2. \A o, q \in OrgIds : GetOrganization(o)' /\ GetOrganization(q)' => o = q
    BY <1>1 DEF OrganizationStands
  <1>3. \A o \in OrgIds : GetOrganization(o)' => orgs'[o].name = obj'["organization"].name
    BY <1>1 DEF OrganizationStands
  <1>4. /\ OrgCopyStands(obj["organization"])' /\ OrgCopyStands(seen["organization"])'
        /\ held'["organization"] # None => OrgCopyStands(Org)'
    BY <1>0, <1>1 DEF OrganizationStands, OrgCopyStands, Org
  <1> QED
    BY <1>2, <1>3, <1>4 DEF OrganizationStands

\* A pass finds or makes its organization.
LEMMA OrgStandsFound ==
    ASSUME IInv, Wants("organization"), OrganizationStands, place["organization"] # "idle",
           up' = up, UNCHANGED <<obj, seen>>,
           NEW id \in OrgIds, Found("organization", id, "members"),
           orgs'[id] \notin Absent, orgs'[id].name = Org.name,
           \/ SameOrganizations
           \/ /\ \A o \in OrgIds : orgs[o] \in Absent
              /\ \A o \in OrgIds \ {id} : orgs'[o] = orgs[o]
    PROVE  OrganizationStands'
  <1>0. /\ obj["organization"].id \in OrgIds \cup {None}
        /\ seen["organization"].id \in OrgIds \cup {None}
        /\ held["organization"] # None => Org.id \in OrgIds \cup {None}
        /\ None \notin OrgIds
    BY OrgTypes
  <1>1. held["organization"] \in Objects /\ held["organization"] # None
        /\ ObjectsOK /\ "organization" \in Kinds
    BY OrgFacts, ValuesAssumption DEF Org
  <1>2. Org'.id = id /\ Org'.name = Org.name
    <2>2. held' = [held EXCEPT !["organization"].id = id]
      BY DEF Found
    <2>3. held' = [held EXCEPT !["organization"] = [held["organization"] EXCEPT !.id = id]]
      BY <2>2
    <2>4. Org' = [held["organization"] EXCEPT !.id = id]
      BY <1>1, <2>3 DEF Org, ObjectsOK, IsMap
    <2> QED
      BY <1>1, <2>4 DEF Org, Objects
  <1>3. Org.name = obj["organization"].name
    BY <1>1 DEF OrganizationStands, OrgCopyStands, Org
  <1>4. /\ \A o, q \in OrgIds : GetOrganization(o)' /\ GetOrganization(q)' => o = q
        /\ \A o \in OrgIds : GetOrganization(o)' => orgs'[o].name = Org.name
        /\ \A o \in OrgIds : GetOrganization(o) => GetOrganization(o)'
        /\ GetOrganization(id)'
    <2>1. CASE SameOrganizations
      BY <1>0, <1>3, <2>1 DEF SameOrganizations, GetOrganization, OrganizationStands
    <2>2. CASE /\ \A o \in OrgIds : orgs[o] \in Absent
               /\ \A o \in OrgIds \ {id} : orgs'[o] = orgs[o]
      BY <1>0, <2>2 DEF GetOrganization
    <2> QED
      BY <2>1, <2>2
  <1>5. OrgCopyStands(Org)'
    BY <1>2, <1>3, <1>4 DEF OrgCopyStands
  <1>6. OrgCopyStands(obj["organization"])' /\ OrgCopyStands(seen["organization"])'
    BY <1>0, <1>4 DEF OrganizationStands, OrgCopyStands
  <1> QED
    BY <1>3, <1>4, <1>5, <1>6 DEF OrganizationStands

LEMMA ServerKept ==
    ASSUME UNCHANGED serverVars
    PROVE  SameOrganizations /\ orgs' = orgs
  BY DEF serverVars, SameOrganizations

LEMMA OrganizationControllerStands ==
    ASSUME IInv, CopiesAreEarlier, OrganizationController, Undisturbed, ~Fault,
           Wants("organization")', OrganizationStands
    PROVE  OrganizationStands'
  <1> DEFINE k == "organization"
  <1>0. /\ k \in Kinds /\ ObjectsOK /\ ServerTypeOK /\ OrgSearchStands /\ Wants(k) /\ up
        /\ EarlierOK(k, obj[k], seen[k], held[k], place[k])
        /\ KindOK(k, obj[k], seen[k], held[k], current[k], place[k])
    BY KindFacts, OrgTypes DEF Undisturbed, OrganizationStands, Kinds
  <1>a. obj[k] \notin Absent /\ ~obj[k].deleting /\ obj'[k] \notin Absent /\ ~obj'[k].deleting
    BY <1>0 DEF Wants
  <1>b. ASSUME place[k] # "idle"
        PROVE  /\ held[k] # None /\ Org \in Objects /\ OrgCopyStands(Org)
               /\ Org.id \in OrgIds \cup {None} /\ ~Org.deleting
               /\ place[k] \notin DeletionPlaces
    BY <1>0, <1>a, <1>b, OrgTypes
       DEF KindOK, EarlierOK, Follows, Absent, OrganizationStands, Org, DeletionPlaces
  <1>1. CASE Get(k)
    <2>1. UNCHANGED serverVars /\ up' = up /\ obj' = obj /\ seen' = seen /\ held'[k] = seen[k]
      BY <1>0, <1>1 DEF Get, ObjectsOK, IsMap
    <2> QED
      BY <1>0, <2>1, ServerKept, OrgStandsRests
  <1>2. CASE AddFinalizer(k)
    <2>1. UNCHANGED serverVars /\ up' = up
      BY <1>2 DEF AddFinalizer
    <2>2. /\ seen' = seen /\ seen[k] = obj[k] /\ held'[k] = obj'[k] /\ obj'[k] \notin Absent
          /\ obj'[k] = [obj[k] EXCEPT !.finalizer = TRUE] /\ obj[k] \in Objects
      BY <1>0, <1>2, EarlierAddFinalizer
    <2>3. /\ obj'[k].id = obj[k].id /\ obj'[k].name = obj[k].name
          /\ obj'[k].ready = obj[k].ready
      BY <2>2 DEF Objects
    <2>4. /\ \A o \in OrgIds : GetOrganization(o)' <=> GetOrganization(o)
          /\ orgs' = orgs
      BY <2>1 DEF GetOrganization, serverVars
    <2>5. obj[k].id \in OrgIds \cup {None}
      BY <1>0, OrgTypes
    <2> QED
      BY <2>1, <2>2, <2>3, <2>4, <2>5 DEF OrganizationStands, OrgCopyStands, Org
  <1>3. CASE ResolveFails
    BY <1>0, <1>3 DEF ResolveFails, AdminClient
  <1>4. CASE SyncOrganization
    <2>0. place[k] = "resolve" /\ UNCHANGED faults
      BY <1>4 DEF SyncOrganization, AtOrg, Fails
    <2>1. CASE /\ GetOrganization(Org.id)
               /\ IF orgs[Org.id].name = Org.name
                  THEN UNCHANGED serverVars
                  ELSE UpdateOrganization(Org.id, Org.name)
               /\ Found(k, Org.id, "members")
               /\ Onward
      <3>1. Org.id \in OrgIds /\ orgs[Org.id].name = Org.name /\ orgs[Org.id] \notin Absent
        BY <1>b, <2>0, <2>1 DEF OrganizationStands, OrgCopyStands, GetOrganization
      <3>2. UNCHANGED serverVars /\ up' = up /\ UNCHANGED <<obj, seen>>
        BY <2>1, <3>1 DEF Onward
      <3> QED
        BY <1>0, <2>0, <2>1, <3>1, <3>2, ServerKept, OrgStandsFound
    <2>2. CASE /\ \E o \in SearchOrganization(Org.name) : Found(k, o, "members")
               /\ Onward
               /\ UNCHANGED serverVars
      <3>1. PICK o \in SearchOrganization(Org.name) : Found(k, o, "members")
        BY <2>2
      <3>2. o \in OrgIds /\ orgs[o].name = Org.name /\ orgs[o] \notin Absent
        BY DEF SearchOrganization, ListOrganizations
      <3>3. up' = up /\ UNCHANGED <<obj, seen>>
        BY <2>2 DEF Onward
      <3> QED
        BY <1>0, <2>0, <2>2, <3>1, <3>2, <3>3, ServerKept, OrgStandsFound
    <2>3. CASE UNCHANGED held /\ Onward /\ UNCHANGED serverVars
      BY <1>0, <2>3, ServerKept, OrgStandsRests DEF Onward
    <2> QED
      BY <1>4, <2>1, <2>2, <2>3 DEF SyncOrganization, Fails
  <1>5. CASE MakeOrganization
    <2>1. PICK o \in OrgIds : CreateOrganization(o, Org.name) /\ Found(k, o, "members") /\ Onward
      BY <1>5 DEF MakeOrganization
    <2>2. place[k] = "create"
      BY <1>5 DEF MakeOrganization, AtOrg
    <2>3. ListOrganizations(Org.name) = {} /\ Org.name = obj[k].name /\ Org.name \in Names
      BY <1>0, <1>b, <2>2 DEF OrgSearchStands, OrgCopyStands, Objects
    <2>4. \A q \in OrgIds : orgs[q] \in Absent
      <3>1. ASSUME NEW q \in OrgIds, orgs[q] \notin Absent
            PROVE  FALSE
        <4>1. GetOrganization(q)
          BY <3>1, ValuesAssumption DEF GetOrganization
        <4>2. orgs[q].name = Org.name
          BY <2>3, <4>1 DEF OrganizationStands
        <4> QED
          BY <2>3, <3>1, <4>2 DEF ListOrganizations
      <3> QED
        BY <3>1
    <2>5. /\ orgs'[o].name = Org.name /\ orgs'[o] \in Organizations
          /\ \A p \in OrgIds \ {o} : orgs'[p] = orgs[p]
      BY <1>0, <2>1, <2>3, CreateOrganizationStep
    <2>6. orgs'[o] \notin Absent
      BY <2>5, ValuesAssumption DEF Absent
    <2>7. up' = up /\ UNCHANGED <<obj, seen>>
      BY <2>1 DEF Onward
    <2> QED
      BY <1>0, <2>1, <2>2, <2>4, <2>5, <2>6, <2>7, OrgStandsFound
  <1>6. CASE SyncMembers
    <2>1. place[k] = "members"
      BY <1>6 DEF SyncMembers, AtOrg
    <2>2. Org.id \in OrgIds /\ GetOrganization(Org.id)
      BY <1>0, <1>b, <2>1, OrgTypes DEF OrgSearchStands, OrgCopyStands
    <2>3. /\ SetOrgMembers(Org.id, SyncedMembers(ListOrgMembers(Org.id)))
          /\ UNCHANGED held /\ Onward
      BY <1>6, <2>2 DEF SyncMembers
    <2>4. orgs[Org.id] \in Organizations /\ orgs[Org.id] \notin Absent
      BY <1>0, <2>2 DEF ServerTypeOK, GetOrganization
    <2> DEFINE members == SyncedMembers(ListOrgMembers(Org.id))
               new == [orgs[Org.id] EXCEPT !.members = members]
    <2>5. orgs' = [orgs EXCEPT ![Org.id] = new]
      BY <2>3 DEF SetOrgMembers
    <2>6. members \in Memberships
      BY <2>4, SyncsAreMemberships DEF ListOrgMembers, Organizations
    <2> HIDE DEF members
    <2>7. new \in Organizations /\ new.name = orgs[Org.id].name
      BY <2>4, <2>6 DEF Organizations
    <2> HIDE DEF new
    <2>8. SameOrganizations
      BY <1>0, <2>2, <2>4, <2>5, <2>7, ValuesAssumption DEF SameOrganizations, ServerTypeOK, Absent
    <2> QED
      BY <1>0, <2>3, <2>8, OrgStandsRests DEF Onward
  <1>7. CASE Synced(k)
    <2>1. /\ place[k] = "status" /\ Report(k, [held[k] EXCEPT !.ready = TRUE])
          /\ UNCHANGED serverVars /\ Org.id # None
      BY <1>0, <1>7, IdentifierNoted DEF Synced, Org
    <2>2. /\ held' = [held EXCEPT ![k] = None] /\ seen' = seen /\ up' = up
      BY <2>1 DEF Report, Return
    <2>3. held'[k] = None
      BY <1>0, <2>2 DEF ObjectsOK, IsMap
    <2>4. CASE obj'[k] = obj[k]
      BY <1>0, <2>1, <2>2, <2>3, <2>4, ServerKept, OrgStandsRests
    <2>5. CASE obj'[k].ready = TRUE /\ obj'[k].id = Org.id /\ obj'[k].name = Org.name
      <3>1. Org.id \in OrgIds /\ Org.name = obj[k].name /\ GetOrganization(Org.id)
            /\ None \notin OrgIds
        BY <1>0, <1>b, <2>1, OrgTypes DEF OrgSearchStands, OrgCopyStands
      <3>2. orgs' = orgs /\ \A o \in OrgIds : GetOrganization(o)' <=> GetOrganization(o)
        BY <2>1 DEF GetOrganization, serverVars
      <3>3. seen[k].id \in OrgIds \cup {None}
        BY <1>0, OrgTypes
      <3>4. OrgCopyStands(obj[k])' /\ OrgCopyStands(seen[k])'
        BY <2>2, <2>5, <3>1, <3>2, <3>3 DEF OrgCopyStands, OrganizationStands
      <3> QED
        BY <2>2, <2>3, <2>5, <3>1, <3>2, <3>4 DEF OrganizationStands
    <2> QED
      BY <2>1, <2>4, <2>5, OrgReports
  <1>8. CASE CountDependents \/ CleanUpOrganization \/ RemoveFinalizer(k)
    <2>1. place[k] \in {"delete", "cleanup", "release"}
      BY <1>8 DEF CountDependents, CleanUpOrganization, RemoveFinalizer, AtOrg
    <2> QED
      BY <1>b, <2>1 DEF DeletionPlaces
  <1> QED
    BY <1>1, <1>2, <1>3, <1>4, <1>5, <1>6, <1>7, <1>8 DEF OrganizationController

-----------------------------------------------------------------------------
(* Calm steps                                                              *)

\* A state that nothing has disturbed, with all that is known of it.
Calm == IInv /\ CopiesAreEarlier /\ Undisturbed /\ Standing

LEMMA CalmParts ==
    ASSUME Calm
    PROVE  /\ IInv /\ CopiesAreEarlier /\ Undisturbed /\ Wants("organization")
           /\ OrganizationStands /\ BelongingsStand /\ CredentialsStand /\ PassHasKey
           /\ NoSecretBefore /\ ProjectStands /\ OrphansAreCounted /\ BoundsOK
           /\ ServerTypeOK /\ ObjectsOK /\ SecretsOK /\ ProjectSearchStands
  BY PartsOfIInv DEF Calm, Standing, Undisturbed

\* What is known of a step of the environment that counts as no disturbance.
LEMMA CalmEnvironment ==
    ASSUME Calm, ~Fault, Wants("organization")', [Next]_vars,
           ~OrganizationController, ~ProjectController
    PROVE  /\ UNCHANGED serverVars /\ up' = up
           /\ UNCHANGED <<held, place, client, lags>>
           /\ \/ UNCHANGED <<obj, seen, secrets, secretsSeen>>
              \/ UNCHANGED <<secrets, secretsSeen>> /\ \E k \in Kinds : Watch(k)
              \/ UNCHANGED <<secrets, secretsSeen>> /\ (Delete("project") \/ Create)
              \/ UNCHANGED <<obj, seen, secrets>> /\ secretsSeen' = secrets
              \/ /\ UNCHANGED <<obj, seen, secretsSeen>> /\ obj["project"] = Gone
                 /\ secrets' = [secrets EXCEPT !["apikey"] = None]
  <1>0. /\ IInv /\ CopiesAreEarlier /\ up /\ Wants("organization") /\ "organization" \in Kinds
        /\ obj["organization"] # Gone
    BY CalmParts DEF OrganizationStands, Kinds, Wants, Absent
  <1>1. CASE \E k \in Kinds : Watch(k)
    BY <1>1 DEF Watch, secretVars
  <1>2. CASE \E k \in Kinds : Delete(k)
    <2>1. ~Delete("organization")
      BY <1>0, ObjectsExist, EarlierDelete DEF Wants
    <2>2. Delete("project")
      BY <1>2, <2>1 DEF Kinds
    <2> QED
      BY <2>2 DEF Delete, secretVars
  <1>3. CASE WatchSecrets \/ CollectGarbage
    BY <1>0, <1>3 DEF WatchSecrets, CollectGarbage, objectVars
  <1>6. CASE Create
    BY <1>6 DEF Create, secretVars
  <1>4. CASE UNCHANGED vars
    BY <1>4 DEF vars, objectVars, secretVars
  <1>5. ~(Rename \/ Outside \/ FlipInstance \/ Restart)
    BY <1>0 DEF Rename, Outside, FlipInstance, Restart
  <1> QED
    BY <1>1, <1>2, <1>3, <1>4, <1>5, <1>6 DEF Next

\* The project controller does not touch the organization, its object or the copies of it.
LEMMA ProjectLeavesOrganization ==
    ASSUME IInv, CopiesAreEarlier, ProjectController
    PROVE  /\ orgs' = orgs /\ up' = up /\ seen'["organization"] = seen["organization"]
           /\ obj'["organization"] = obj["organization"]
           /\ held'["organization"] = held["organization"]
           /\ place'["organization"] = place["organization"]
  <1>1. Moves("project") /\ "organization" \in Kinds \ {"project"}
    BY ProjectKeepsEarlier DEF Kinds
  <1>2. (Get("project") \/ AddFinalizer("project") \/ Synced("project")
          \/ RemoveFinalizer("project")) => orgs' = orgs /\ up' = up
    BY DEF Get, AddFinalizer, Synced, RemoveFinalizer, serverVars, Report
  <1>3. (ResolveProjectFails \/ EnsureClient \/ CacheOrgKey) => orgs' = orgs /\ up' = up
    BY DEF ResolveProjectFails, EnsureClient, CacheOrgKey, serverVars, GiveUp, ProjectFails,
           NotReady, Report, Continue, Client, CreateOrganizationAPIKey, CreateKey
  <1>4. (SyncProject \/ MakeProject) => orgs' = orgs /\ up' = up
    BY DEF SyncProject, MakeProject, serverVars, ProjectFails, NotReady, Report, Continue,
           CreateProject
  <1>5. (CheckKey \/ MintKey \/ StoreKey) => orgs' = orgs /\ up' = up
    BY DEF CheckKey, MintKey, StoreKey, serverVars, ProjectFails, NotReady, Report, Continue,
           CreateAPIKey, CreateKey
  <1>6. (RevokeKey \/ PurgeProject \/ DeleteSecret) => orgs' = orgs /\ up' = up
    BY DEF RevokeKey, PurgeProject, DeleteSecret, serverVars, Continue, DeleteAPIKey, DeleteProject
  <1> QED
    BY <1>1, <1>2, <1>3, <1>4, <1>5, <1>6 DEF ProjectController, Moves

\* The organization of an object that stays is kept, and a cache that shows it ready keeps
\* showing that.
LEMMA OrganizationIsStanding ==
    ASSUME Calm, ~Fault, Wants("organization")', [Next]_vars
    PROVE  /\ OrganizationStands'
           /\ seen["organization"].ready => seen'["organization"].ready
  <1> DEFINE k == "organization"
  <1>0. /\ IInv /\ CopiesAreEarlier /\ Undisturbed /\ Wants(k) /\ OrganizationStands
        /\ k \in Kinds /\ seen[k] \notin Absent
    BY CalmParts, OrgTypes DEF Kinds
  <1>1. CASE OrganizationController
    <2>1. seen' = seen
      BY <1>1 DEF OrganizationController, Get, AddFinalizer, ResolveFails, SyncOrganization,
                  MakeOrganization, SyncMembers, Synced, CountDependents, CleanUpOrganization,
                  RemoveFinalizer, Onward, OrgFails, NotReady, Report
    <2> QED
      BY <1>0, <1>1, <2>1, OrganizationControllerStands
  <1>2. CASE ProjectController
    <2>1. SameOrganizations
      BY <1>0, <1>2, ProjectLeavesOrganization DEF SameOrganizations
    <2> QED
      BY <1>0, <1>2, <2>1, ProjectLeavesOrganization, OrgStandsRests
  <1>3. CASE ~OrganizationController /\ ~ProjectController
    <2>1. UNCHANGED serverVars /\ up' = up /\ held' = held /\ SameOrganizations /\ orgs' = orgs
      BY <1>3, CalmEnvironment, ServerKept
    <2>2. CASE Watch(k)
      <3>1. obj' = obj /\ seen'[k] = obj[k]
        BY <1>0, <2>2, EarlierWatch DEF Watch
      <3>2. \A o \in OrgIds : GetOrganization(o)' <=> GetOrganization(o)
        BY <2>1 DEF GetOrganization
      <3>3. obj[k].id \in OrgIds \cup {None} /\ (held[k] # None => Org.id \in OrgIds \cup {None})
        BY <1>0, OrgTypes
      <3> QED
        BY <1>0, <2>1, <3>1, <3>2, <3>3 DEF OrganizationStands, OrgCopyStands, Org, Wants
    <2>3. CASE Watch("project") \/ Delete("project") \/ Create
      <3>1. "project" \in Kinds /\ k \in Kinds \ {"project"}
        BY DEF Kinds
      <3>2. obj'[k] = obj[k] /\ seen'[k] = seen[k]
        BY <1>0, <2>3, <3>1, EarlierWatch, EarlierDelete, EarlierCreate DEF Moves
      <3> QED
        BY <1>0, <2>1, <3>2, OrgStandsRests
    <2>4. CASE obj' = obj /\ seen' = seen
      BY <1>0, <2>1, <2>4, OrgStandsRests
    <2> QED
      BY <1>3, <2>2, <2>3, <2>4, CalmEnvironment DEF Kinds
  <1> QED
    BY <1>1, <1>2, <1>3

-----------------------------------------------------------------------------
(* What belongs to the organization and to the project                     *)

\* The key of a pass is one of the organization that there is, so that it shows the project.
LEMMA CalmKey ==
    ASSUME Calm, client.auth # None
    PROVE  /\ client.auth \in KeyIds /\ Accepted(client.auth)
           /\ ScopeOf(client.auth) \in OrgIds /\ GetOrganization(ScopeOf(client.auth))
           /\ seen["organization"].ready
           /\ \A p \in ProjectIds : GetProject(client.auth, p) <=> projects[p] \notin Absent
  <1> DEFINE auth == client.auth
  <1>0. /\ CredentialsStand /\ SecretsOK /\ ServerTypeOK /\ BelongingsStand /\ OrganizationStands
    BY CalmParts
  <1>1. Accepted(auth) /\ seen["organization"].ready
    BY <1>0 DEF CredentialsStand
  <1>2. auth \in KeyIds /\ keys[auth] \in {"organization"} \X OrgIds
    BY <1>0, <1>1 DEF SecretsOK, CredentialsMatch, OrgCredential, Accepted, Absent, KeyRefs
  <1>3. PICK o \in OrgIds : keys[auth] = <<"organization", o>>
    BY <1>2
  <1>4. ScopeOf(auth) = o
    BY <1>3 DEF ScopeOf
  <1>5. GetOrganization(o)
    BY <1>0, <1>2, <1>3 DEF BelongingsStand
  <1>6. ASSUME NEW p \in ProjectIds
        PROVE  GetProject(auth, p) <=> projects[p] \notin Absent
    <2>1. p # None /\ o \notin Absent
      BY ValuesAssumption DEF Absent
    <2>2. ASSUME projects[p] \notin Absent
          PROVE  projects[p] = o
      <3>1. projects[p] \in OrgIds /\ GetOrganization(projects[p])
        BY <1>0, <2>2 DEF ServerTypeOK, BelongingsStand
      <3> QED
        BY <1>0, <1>5, <3>1 DEF OrganizationStands
    <2> QED
      BY <1>1, <1>4, <2>1, <2>2 DEF GetProject
  <1> QED
    BY <1>1, <1>2, <1>4, <1>5, <1>6

OrgsStay == \A o \in OrgIds : GetOrganization(o) => GetOrganization(o)'

\* A key is made for something that there is.
KeyIsMade(key, scope) ==
    /\ keys[key] = Unused /\ keys' = [keys EXCEPT ![key] = scope] /\ projects' = projects
    /\ \/ \E o \in OrgIds : GetOrganization(o) /\ scope = <<"organization", o>>
       \/ \E p \in ProjectIds : projects[p] \notin Absent /\ scope = <<"project", p>>

\* The project is made, the first one.
ProjectIsMade(p) ==
    /\ \A q \in ProjectIds : projects[q] = Unused
    /\ \E o \in OrgIds : GetOrganization(o) /\ projects' = [projects EXCEPT ![p] = o]
    /\ keys' = keys

\* A key of a project goes, or a project does with its keys.
KeyGoes(key) ==
    /\ keys[key] \in {"project"} \X ProjectIds
    /\ keys' = [keys EXCEPT ![key] = Gone] /\ projects' = projects

ProjectGoes(p) == projects[p] \notin Absent /\ DeleteProject(p)

\* All that calm steps do at Langfuse.
CalmEffect ==
    /\ OrgsStay
    /\ \/ UNCHANGED <<projects, keys>>
       \/ \E key \in KeyIds, scope \in Scopes : KeyIsMade(key, scope)
       \/ \E p \in ProjectIds : ProjectIsMade(p)
       \/ \E key \in KeyIds : KeyGoes(key)
       \/ \E p \in ProjectIds : ProjectGoes(p)

\* The keys of organizations stay, and so do the projects, except that they may go.
OrgKeysStay ==
    \A key \in KeyIds : keys[key] \in {"organization"} \X OrgIds => keys'[key] = keys[key]
ProjectsStay == \A p \in ProjectIds : projects[p] # Unused => projects'[p] # Unused

LEMMA KeyIsMadeStands ==
    ASSUME Calm, OrgsStay, NEW key \in KeyIds, NEW scope \in Scopes, KeyIsMade(key, scope)
    PROVE  BelongingsStand' /\ OrgKeysStay /\ ProjectsStay
  <1>0. ServerTypeOK /\ BelongingsStand
    BY CalmParts
  <1>1. projects' = projects /\ keys'[key] = scope /\ \A k \in KeyIds \ {key} : keys'[k] = keys[k]
    BY <1>0 DEF KeyIsMade, ServerTypeOK
  <1>2. \A p \in ProjectIds : projects[p] \notin Absent =>
           projects[p] \in OrgIds /\ GetOrganization(projects[p])'
    BY <1>0, <1>1 DEF ServerTypeOK, BelongingsStand, OrgsStay
  <1>3. ASSUME NEW k \in KeyIds, NEW p \in ProjectIds, keys'[k] = <<"project", p>>
        PROVE  projects'[p] \notin Absent
    <2>1. CASE k = key
      <3>1. scope = <<"project", p>>
        BY <1>1, <1>3, <2>1
      <3> QED
        BY <1>1, <3>1 DEF KeyIsMade
    <2>2. CASE k # key
      BY <1>0, <1>1, <1>3, <2>2 DEF BelongingsStand
    <2> QED
      BY <2>1, <2>2
  <1>4. ASSUME NEW k \in KeyIds, NEW o \in OrgIds, keys'[k] = <<"organization", o>>
        PROVE  GetOrganization(o)'
    <2>1. CASE k = key
      <3>1. scope = <<"organization", o>>
        BY <1>1, <1>4, <2>1
      <3> QED
        BY <1>1, <3>1 DEF KeyIsMade, OrgsStay
    <2>2. CASE k # key
      BY <1>0, <1>1, <1>4, <2>2 DEF BelongingsStand, OrgsStay
    <2> QED
      BY <2>1, <2>2
  <1>5. BelongingsStand'
    BY <1>0, <1>1, <1>2, <1>3, <1>4 DEF BelongingsStand
  <1>6. keys[key] \notin {"organization"} \X OrgIds
    BY ValuesAssumption DEF KeyIsMade, Scopes
  <1> QED
    BY <1>1, <1>5, <1>6 DEF OrgKeysStay, ProjectsStay

LEMMA ProjectIsMadeStands ==
    ASSUME Calm, OrgsStay, NEW p \in ProjectIds, ProjectIsMade(p)
    PROVE  BelongingsStand' /\ OrgKeysStay /\ ProjectsStay /\ projects'[p] \in OrgIds
  <1>0. ServerTypeOK /\ BelongingsStand
    BY CalmParts
  <1>1. PICK o \in OrgIds : GetOrganization(o) /\ projects' = [projects EXCEPT ![p] = o]
    BY DEF ProjectIsMade
  <1>2. /\ keys' = keys /\ projects'[p] = o
        /\ \A q \in ProjectIds \ {p} : projects'[q] = Unused
    BY <1>0, <1>1 DEF ProjectIsMade, ServerTypeOK
  <1>3. \A key \in KeyIds, q \in ProjectIds : keys[key] # <<"project", q>>
    BY <1>0 DEF ProjectIsMade, BelongingsStand, Absent
  <1>4. GetOrganization(o)'
    BY <1>1 DEF OrgsStay
  <1>5. \A key \in KeyIds, q \in OrgIds : keys'[key] = <<"organization", q>> => GetOrganization(q)'
    BY <1>0, <1>2 DEF BelongingsStand, OrgsStay
  <1>6. BelongingsStand'
    BY <1>2, <1>3, <1>4, <1>5 DEF BelongingsStand, Absent
  <1> QED
    BY <1>2, <1>6 DEF OrgKeysStay, ProjectsStay, ProjectIsMade

LEMMA KeyGoesStands ==
    ASSUME Calm, OrgsStay, NEW key \in KeyIds, KeyGoes(key)
    PROVE  BelongingsStand' /\ OrgKeysStay /\ ProjectsStay
  <1>0. ServerTypeOK /\ BelongingsStand
    BY CalmParts
  <1>1. projects' = projects /\ keys'[key] = Gone /\ \A k \in KeyIds \ {key} : keys'[k] = keys[k]
    BY <1>0 DEF KeyGoes, ServerTypeOK
  <1>2. \A p \in ProjectIds : projects[p] \notin Absent =>
           projects[p] \in OrgIds /\ GetOrganization(projects[p])'
    BY <1>0, <1>1 DEF ServerTypeOK, BelongingsStand, OrgsStay
  <1>3. ASSUME NEW k \in KeyIds, NEW scope \in Scopes, keys'[k] = scope
        PROVE  keys[k] = scope
    BY <1>1, <1>3, ValuesAssumption
  <1>4. \A p \in ProjectIds : <<"project", p>> \in Scopes
    BY DEF Scopes
  <1>5. \A o \in OrgIds : <<"organization", o>> \in Scopes
    BY DEF Scopes
  <1>6. \A k \in KeyIds, p \in ProjectIds : keys'[k] = <<"project", p>> => projects'[p] \notin Absent
    BY <1>0, <1>1, <1>3, <1>4 DEF BelongingsStand
  <1>7. \A k \in KeyIds, o \in OrgIds : keys'[k] = <<"organization", o>> => GetOrganization(o)'
    BY <1>0, <1>3, <1>5 DEF BelongingsStand, OrgsStay
  <1>8. BelongingsStand'
    BY <1>0, <1>1, <1>2, <1>6, <1>7 DEF BelongingsStand
  <1>9. keys[key] \notin {"organization"} \X OrgIds
    BY DEF KeyGoes
  <1> QED
    BY <1>1, <1>8, <1>9 DEF OrgKeysStay, ProjectsStay

LEMMA ProjectGoesStands ==
    ASSUME Calm, OrgsStay, NEW p \in ProjectIds, ProjectGoes(p)
    PROVE  /\ BelongingsStand' /\ OrgKeysStay /\ ProjectsStay
           /\ \A key \in KeyIds, q \in ProjectIds :
                 keys'[key] = <<"project", q>> => keys[key] = <<"project", q>>
  <1>0. ServerTypeOK /\ BelongingsStand
    BY CalmParts
  <1>1. /\ projects'[p] = Gone /\ \A q \in ProjectIds \ {p} : projects'[q] = projects[q]
        /\ keys' = KeysWithout({}, {p})
    BY <1>0 DEF ProjectGoes, DeleteProject, ServerTypeOK
  <1>2. ASSUME NEW key \in KeyIds, NEW q \in ProjectIds
        PROVE  keys'[key] = <<"project", q>> => keys[key] = <<"project", q>> /\ q # p
    <2>1. CASE keys[key] = <<"project", p>>
      <3>1. <<"project", p>> \in Scopes /\ <<"project", p>>[1] = "project" /\ <<"project", p>>[2] = p
        BY DEF Scopes
      <3>2. <<"project", p>> \notin Absent
        BY <3>1, ValuesAssumption DEF Absent
      <3>3. keys'[key] = Gone
        BY <1>1, <2>1, <3>1, <3>2 DEF KeysWithout
      <3>4. <<"project", q>> \in Scopes
        BY DEF Scopes
      <3> QED
        BY <3>3, <3>4, ValuesAssumption
    <2>2. CASE keys[key] # <<"project", p>>
      <3>1. keys'[key] \in {keys[key], Gone}
        BY <1>1 DEF KeysWithout
      <3>2. <<"project", q>> \in Scopes
        BY DEF Scopes
      <3> QED
        BY <2>2, <3>1, <3>2, ValuesAssumption
    <2> QED
      BY <2>1, <2>2
  <1>3. ASSUME NEW key \in KeyIds, NEW o \in OrgIds
        PROVE  keys[key] = <<"organization", o>> <=> keys'[key] = <<"organization", o>>
    <2>1. <<"organization", o>> \in Scopes /\ <<"organization", o>>[1] = "organization"
      BY DEF Scopes
    <2>2. keys[key] = <<"organization", o>> => keys'[key] = keys[key]
      BY <1>1, <2>1 DEF KeysWithout
    <2>3. keys'[key] \in {keys[key], Gone}
      BY <1>1 DEF KeysWithout
    <2> QED
      BY <2>1, <2>2, <2>3, ValuesAssumption
  <1>4. \A q \in ProjectIds : projects'[q] \notin Absent => GetOrganization(projects[q])'
    <2>1. ASSUME NEW q \in ProjectIds, projects'[q] \notin Absent
          PROVE  GetOrganization(projects[q])'
      <3>1. projects'[q] = projects[q] /\ projects[q] \in OrgIds
        BY <1>0, <1>1, <2>1 DEF ServerTypeOK, Absent
      <3>2. GetOrganization(projects[q])
        BY <1>0, <2>1, <3>1 DEF BelongingsStand
      <3>3. \A o \in OrgIds : GetOrganization(o) => o # None /\ orgs'[o] \notin Absent
        BY DEF OrgsStay, GetOrganization
      <3> QED
        BY <3>1, <3>2, <3>3 DEF GetOrganization
    <2> QED
      BY <2>1
  <1>5. \A q, r \in ProjectIds : projects'[q] # Unused /\ projects'[r] # Unused => q = r
    BY <1>0, <1>1 DEF BelongingsStand, ProjectGoes, Absent
  <1>6. \A key \in KeyIds, q \in ProjectIds : keys'[key] = <<"project", q>> => projects'[q] \notin Absent
    BY <1>0, <1>1, <1>2 DEF BelongingsStand
  <1>7. \A key \in KeyIds, o \in OrgIds : keys'[key] = <<"organization", o>> => GetOrganization(o)'
    BY <1>0, <1>3 DEF BelongingsStand, OrgsStay
  <1>8. BelongingsStand'
    BY <1>4, <1>5, <1>6, <1>7 DEF BelongingsStand
  <1>9. OrgKeysStay
    BY <1>3 DEF OrgKeysStay
  <1>10. ProjectsStay
    BY <1>1, ValuesAssumption DEF ProjectsStay
  <1> QED
    BY <1>2, <1>8, <1>9, <1>10

LEMMA EffectStands ==
    ASSUME Calm, CalmEffect
    PROVE  BelongingsStand' /\ OrgKeysStay /\ ProjectsStay
  <1>0. ServerTypeOK /\ BelongingsStand /\ OrgsStay
    BY CalmParts DEF CalmEffect
  <1>1. CASE UNCHANGED <<projects, keys>>
    <2>1. \A p \in ProjectIds : projects[p] \notin Absent =>
             projects[p] \in OrgIds /\ GetOrganization(projects[p])'
      BY <1>0, <1>1 DEF ServerTypeOK, BelongingsStand, OrgsStay
    <2> QED
      BY <1>0, <1>1, <2>1 DEF BelongingsStand, OrgsStay, OrgKeysStay, ProjectsStay
  <1> QED
    BY <1>0, <1>1, KeyIsMadeStands, ProjectIsMadeStands, KeyGoesStands, ProjectGoesStands
       DEF CalmEffect

-----------------------------------------------------------------------------
(* What a calm step has to show                                            *)

\* The copy of a project pass.
LEMMA CalmPass ==
    ASSUME Calm, place["project"] # "idle"
    PROVE  /\ "project" \in Kinds /\ held["project"] # None /\ Project \in Objects
           /\ Project.id \in ProjectIds \cup {None} /\ None \notin ProjectIds
           /\ Project.finalizer /\ ProjectCopyStands(Project)
           /\ place["project"] \in DeletionPlaces => Project.deleting
           /\ place["project"] \notin DeletionPlaces \cup {"orgkey"} => ~Project.deleting
           /\ ~Project.deleting => obj["project"] \notin Absent /\ obj["project"].finalizer
           /\ obj["project"] # Unused
           /\ obj["project"] \notin Absent => obj["project"].finalizer
           /\ Project.deleting /\ seen["project"] \notin Absent => seen["project"].deleting
           /\ Project.deleting => seen["project"] # Unused
           /\ Project.deleting /\ Project.id = None => Forgotten
           /\ Forgotten => Project.deleting /\ Project.id = None
  <1>0. IInv /\ CopiesAreEarlier /\ ProjectStands
    BY CalmParts
  <1>1. /\ Project \in Objects /\ Project # None /\ Project.finalizer
        /\ place["project"] \in DeletionPlaces => Project.deleting
        /\ place["project"] \notin DeletionPlaces \cup {"orgkey"} => ~Project.deleting
        /\ ~Project.deleting => obj["project"] \notin Absent /\ obj["project"].finalizer
        /\ obj["project"] # Unused /\ (Project.deleting => seen["project"] # Unused)
        /\ Project.deleting /\ obj["project"] \notin Absent =>
              obj["project"].deleting /\ obj["project"].id = Project.id
        /\ Project.deleting /\ seen["project"] \notin Absent =>
              seen["project"].deleting /\ seen["project"].id = Project.id
    BY <1>0, ProjectCopyFacts
  <1>2. "project" \in Kinds /\ Project.id \in ProjectIds \cup {None}
    BY <1>0, ProjectFacts DEF Kinds
  <1>3. obj["project"] \notin Absent => obj["project"].finalizer
    BY <1>0, <1>1, <1>2 DEF CopiesAreEarlier, Follows, Absent, Project
  <1>4. Project.deleting /\ Project.id = None => Forgotten
    BY <1>1 DEF Forgotten, Nameless, Absent
  <1>5. Forgotten => Project.deleting /\ Project.id = None
    BY <1>1 DEF Forgotten, Nameless, Project
  <1> QED
    BY <1>0, <1>1, <1>2, <1>3, <1>4, <1>5, ValuesAssumption DEF ProjectStands, Project

ReadyStays == seen["organization"].ready => seen'["organization"].ready

\* The credentials after a step are those before it, or a new key that is accepted, in a pass
\* that has found the organization ready.
LEMMA CredentialsFollow ==
    ASSUME Calm, OrgKeysStay, ReadyStays,
           \A key \in {client'.auth, secrets'["orgkey"], secretsSeen'["orgkey"]} :
              \/ key \in {None, client.auth, secrets["orgkey"], secretsSeen["orgkey"]}
              \/ key \in KeyIds /\ keys'[key] \notin Absent,
           client'.auth \in {None, client.auth} \/ seen["organization"].ready
    PROVE  CredentialsStand'
  <1>0. CredentialsStand /\ SecretsOK
    BY CalmParts
  <1>1. ASSUME NEW key \in {client.auth, secrets["orgkey"], secretsSeen["orgkey"]}, key # None
        PROVE  keys'[key] \notin Absent
    <2>1. keys[key] \notin Absent
      BY <1>0, <1>1 DEF CredentialsStand, Accepted
    <2>2. key \in KeyIds /\ keys[key] \in {"organization"} \X OrgIds
      BY <1>0, <1>1, <2>1 DEF SecretsOK, CredentialsMatch, OrgCredential, Absent, KeyRefs
    <2> QED
      BY <2>1, <2>2 DEF OrgKeysStay
  <1>2. \A key \in {client'.auth, secrets'["orgkey"], secretsSeen'["orgkey"]} :
           key # None => keys'[key] \notin Absent
    BY <1>1
  <1>3. client'.auth # None => seen'["organization"].ready
    BY <1>0 DEF CredentialsStand, ReadyStays
  <1> QED
    BY <1>2, <1>3 DEF CredentialsStand, Accepted

\* The identifiers on record are those of before.
LEMMA ProjectStandsRests ==
    ASSUME Calm, ProjectsStay, ReadyStays,
           \A p \in ProjectIds : projects'[p] = Gone => projects[p] = Gone,
           seen'["project"] = seen["project"],
           \/ held'["project"] \in {held["project"], None}
           \/ seen["project"] \notin Absent /\ held'["project"] = seen["project"],
           obj'["project"] \notin Absent =>
              \/ obj["project"] \notin Absent /\ obj'["project"].id = obj["project"].id
              \/ held["project"] # None /\ obj'["project"].id = Project.id
    PROVE  ProjectStands'
  <1> DEFINE k == "project"
  <1>0. ProjectStands /\ IInv /\ CopiesAreEarlier /\ k \in Kinds
    BY CalmParts DEF Kinds
  <1>1. /\ obj[k] \notin Absent => obj[k].id \in ProjectIds \cup {None}
        /\ seen[k] \notin Absent => seen[k].id \in ProjectIds \cup {None}
        /\ held[k] # None => Project.id \in ProjectIds \cup {None}
    BY <1>0, KindFacts DEF KindOK, IdsOf, Project
  <1>2. /\ obj[k] \notin Absent /\ obj[k].id # None =>
              projects'[obj[k].id] # Unused /\ seen'["organization"].ready
        /\ held[k] # None /\ Project.id # None =>
              projects'[Project.id] # Unused /\ seen'["organization"].ready
    BY <1>0, <1>1 DEF ProjectStands, ProjectCopyStands, ProjectsStay, ReadyStays
  <1>3. obj'[k] \notin Absent /\ obj'[k].id # None =>
           projects'[obj'[k].id] # Unused /\ seen'["organization"].ready
    BY <1>2
  <1>4. seen[k] \notin Absent =>
           /\ seen[k].id # None => projects'[seen[k].id] # Unused /\ seen'["organization"].ready
           /\ ~seen[k].deleting => \A p \in ProjectIds : projects'[p] # Gone
    BY <1>0, <1>1 DEF ProjectStands, ProjectCopyStands, ProjectsStay, ReadyStays
  <1>5. held[k] # None =>
           /\ held[k].id # None => projects'[held[k].id] # Unused /\ seen'["organization"].ready
           /\ ~held[k].deleting => \A p \in ProjectIds : projects'[p] # Gone
    BY <1>0, <1>1 DEF ProjectStands, ProjectCopyStands, ProjectsStay, ReadyStays, Project
  <1>6. seen'[k] \notin Absent => ProjectCopyStands(seen[k])'
    BY <1>4 DEF ProjectCopyStands
  <1>7. held'[k] # None => ProjectCopyStands(Project)'
    BY <1>4, <1>5 DEF ProjectCopyStands, Project
  <1>8. seen'[k] = Unused => \A p \in ProjectIds : projects'[p] # Gone
    BY <1>0 DEF ProjectStands
  <1> QED
    BY <1>3, <1>6, <1>7, <1>8 DEF ProjectStands

-----------------------------------------------------------------------------
(* The keys that nobody holds                                              *)

LEMMA KeptKeysCases ==
    /\ obj["project"] = Gone \/ place["project"] \in {"purge", "secret", "release"}
          => KeptKeys = {}
    /\ obj["project"] # Gone /\ place["project"] = "store" /\ secrets["apikey"] = None
          => KeptKeys = {client.minted}
    /\ obj["project"] # Gone /\ place["project"] \notin {"purge", "secret", "release"}
       /\ (place["project"] = "store" => secrets["apikey"] # None)
          => KeptKeys = {secrets["apikey"]}
  BY DEF KeptKeys

LEMMA KeptKeysNext ==
    /\ obj'["project"] = Gone \/ place'["project"] \in {"purge", "secret", "release"}
          => KeptKeys' = {}
    /\ obj'["project"] # Gone /\ place'["project"] = "store" /\ secrets'["apikey"] = None
          => KeptKeys' = {client'.minted}
    /\ obj'["project"] # Gone /\ place'["project"] \notin {"purge", "secret", "release"}
       /\ (place'["project"] = "store" => secrets'["apikey"] # None)
          => KeptKeys' = {secrets'["apikey"]}
  BY DEF KeptKeys

\* Sets of keys are counted.
LEMMA KeyCounts ==
    ASSUME NEW S \in SUBSET KeyIds, NEW T \in SUBSET KeyIds
    PROVE  /\ Cardinality(S) \in Nat /\ Cardinality(T) \in Nat
           /\ S \subseteq T => Cardinality(S) <= Cardinality(T)
           /\ \A key : S \subseteq T \cup {key} => Cardinality(S) <= Cardinality(T) + 1
  <1>1. IsFiniteSet(KeyIds)
    BY TenancyBoundAssumption, FS_Interval DEF KeyIds
  <1>2. IsFiniteSet(S) /\ IsFiniteSet(T)
    BY <1>1, FS_Subset
  <1>3. Cardinality(S) \in Nat /\ Cardinality(T) \in Nat
    BY <1>2, FS_CardinalityType
  <1>4. S \subseteq T => Cardinality(S) <= Cardinality(T)
    BY <1>2, FS_Subset
  <1>5. ASSUME NEW key, S \subseteq T \cup {key}
        PROVE  Cardinality(S) <= Cardinality(T) + 1
    <2>1. IsFiniteSet(T \cup {key}) /\ Cardinality(T \cup {key}) \in {Cardinality(T), Cardinality(T) + 1}
      BY <1>2, FS_AddElement
    <2>2. Cardinality(S) <= Cardinality(T \cup {key})
      BY <1>5, <2>1, FS_Subset
    <2> QED
      BY <1>3, <2>1, <2>2
  <1> QED
    BY <1>3, <1>4, <1>5

\* What a step does to the keys that nobody holds: it leaves them, it is a pass that was
\* misled that adds one, or it begins a pass that may be.
CountKept ==
    \/ Orphans' \subseteq Orphans /\ lags' = lags /\ (Misled' => Misled)
    \/ Misled /\ ~Misled' /\ lags' = lags /\ \E key : Orphans' \subseteq Orphans \cup {key}
    \/ Orphans' \subseteq Orphans /\ lags' = lags + 1

LEMMA CountIsKept ==
    ASSUME Calm, Forgotten => Forgotten', ~Forgotten => CountKept
    PROVE  OrphansAreCounted'
  <1>0. OrphansAreCounted /\ lags \in Nat
    BY CalmParts DEF BoundsOK
  <1> DEFINE S == Orphans'
             T == Orphans
             before == IF Misled THEN 1 ELSE 0
             after == IF Misled' THEN 1 ELSE 0
  <1>1. S \in SUBSET KeyIds /\ T \in SUBSET KeyIds
    BY DEF Orphans, ProjectKeys
  <1>2. /\ OrphansAreCounted <=> Forgotten \/ Cardinality(T) + before <= lags
        /\ OrphansAreCounted' <=> Forgotten' \/ Cardinality(S) + after <= lags'
    BY DEF OrphansAreCounted
  <1>3. CASE Forgotten
    BY <1>2, <1>3
  <1>4. CASE ~Forgotten
    <2>1. /\ Cardinality(T) + before <= lags
          /\ \/ S \subseteq T /\ lags' = lags /\ (Misled' => Misled)
             \/ Misled /\ ~Misled' /\ lags' = lags /\ \E key : S \subseteq T \cup {key}
             \/ S \subseteq T /\ lags' = lags + 1
      BY <1>0, <1>2, <1>4 DEF CountKept
    <2> HIDE DEF S, T
    <2>2. /\ Cardinality(S) \in Nat /\ Cardinality(T) \in Nat
          /\ S \subseteq T => Cardinality(S) <= Cardinality(T)
          /\ (\E key : S \subseteq T \cup {key}) => Cardinality(S) <= Cardinality(T) + 1
      BY <1>1, KeyCounts
    <2>3. Cardinality(S) + after <= lags'
      BY <1>0, <2>1, <2>2
    <2> QED
      BY <1>2, <2>3
  <1> QED
    BY <1>3, <1>4

\* The key that is held stays so, and no pass is misled that was not.
LEMMA KeptStay ==
    ASSUME ProjectKeys' \subseteq ProjectKeys, KeptKeys \subseteq KeptKeys', lags' = lags,
           Misled' => Misled
    PROVE  CountKept
  BY DEF CountKept, Orphans

\* The project keys that are not looked for stay so.
LEMMA ForgottenRests ==
    ASSUME Forgotten, obj'["project"] \in {obj["project"], Gone},
           seen'["project"] \in {seen["project"], obj["project"]},
           \/ held'["project"] \in {held["project"], None}
           \/ seen["project"] \notin Absent /\ held'["project"] = seen["project"]
    PROVE  Forgotten'
  <1>1. /\ obj'["project"] # Gone => obj'["project"] # Unused /\ Nameless(obj'["project"])
        /\ seen'["project"] # Gone => seen'["project"] # Unused /\ Nameless(seen'["project"])
        /\ held'["project"] # None => Nameless(held'["project"])
    BY DEF Forgotten, Project, Absent
  <1> QED
    BY <1>1 DEF Forgotten, Nameless, Project

-----------------------------------------------------------------------------
(* Calm passes over the project                                            *)

\* What is left to show of a step once the organization stands.
Rest == /\ BelongingsStand /\ CredentialsStand /\ PassHasKey /\ NoSecretBefore
        /\ ProjectStands /\ OrphansAreCounted

LEMMA ServerStays ==
    ASSUME Calm, UNCHANGED serverVars
    PROVE  /\ CalmEffect /\ ProjectKeys' = ProjectKeys
           /\ BelongingsStand' /\ OrgKeysStay /\ ProjectsStay
           /\ \A p \in ProjectIds : projects'[p] = Gone => projects[p] = Gone
  <1>1. orgs' = orgs /\ projects' = projects /\ keys' = keys
    BY DEF serverVars
  <1>2. CalmEffect
    BY <1>1 DEF CalmEffect, OrgsStay, GetOrganization
  <1> QED
    BY <1>1, <1>2, EffectStands DEF ProjectKeys

\* A status write that ends the pass.
LEMMA CalmReport ==
    ASSUME Calm, ReadyStays, place["project"] \notin {"idle", "store"}, ~Project.deleting,
           NEW b \in BOOLEAN, b => Project.id # None,
           Report("project", [held["project"] EXCEPT !.ready = b]),
           UNCHANGED serverVars
    PROVE  Rest'
  <1> DEFINE k == "project"
             new == [held[k] EXCEPT !.ready = b]
  <1>0. IInv /\ SecretsOK /\ PassHasKey /\ ProjectStands /\ ObjectsOK
    BY CalmParts
  <1>1. /\ k \in Kinds /\ held[k] # None /\ Project \in Objects /\ Project.finalizer
        /\ obj[k] \notin Absent /\ obj[k].finalizer /\ ~Forgotten
        /\ place[k] \notin DeletionPlaces
    BY CalmPass
  <1>2. /\ place'[k] = "idle" /\ client' = NoClient /\ secrets' = secrets
        /\ secretsSeen' = secretsSeen /\ lags' = lags
        /\ obj'[k] = obj[k] \/ obj'[k] = new
    BY <1>0, <1>1, ReportStep DEF secretVars, Project
  <1>3. new.id = Project.id /\ new.finalizer /\ new \in Objects /\ new \notin Absent
    BY <1>1, ObjectsExist DEF Objects, Project
  <1> HIDE DEF new
  <1>4. seen' = seen /\ held' = [held EXCEPT ![k] = None]
    BY DEF Report, Return
  <1>5. held'[k] = None
    BY <1>0, <1>1, <1>4 DEF ObjectsOK, IsMap
  <1>6. obj'[k] \notin Absent /\ obj'[k].finalizer
    BY <1>1, <1>2, <1>3
  <1>7. client'.auth = None
    BY <1>2 DEF NoClient
  <1>8. CredentialsStand'
    BY <1>2, <1>7, CredentialsFollow, ServerStays
  <1>9. PassHasKey'
    BY <1>2 DEF PassHasKey
  <1>10. NoSecretBefore'
    BY <1>6 DEF NoSecretBefore, Unclaimed, Absent
  <1>11. ProjectStands'
    BY <1>1, <1>2, <1>3, <1>4, <1>5, ProjectStandsRests, ServerStays
  <1>12. KeptKeys = {secrets["apikey"]} /\ KeptKeys' = {secrets["apikey"]}
    BY <1>1, <1>2, <1>6, KeptKeysCases, KeptKeysNext DEF Absent, DeletionPlaces
  <1>13. ~Misled'
    BY <1>2 DEF Misled
  <1>14. OrphansAreCounted'
    BY <1>1, <1>2, <1>12, <1>13, ServerStays, KeptStay, CountIsKept
  <1> QED
    BY <1>8, <1>9, <1>10, <1>11, <1>14, ServerStays DEF Rest

\* A pass that goes on with the copy it has.
LEMMA CalmContinue ==
    ASSUME Calm, ReadyStays, place["project"] # "idle",
           NEW where \in Places \ {"idle"}, Continue(where), held' = held,
           CalmEffect, \A p \in ProjectIds : projects'[p] = Gone => projects[p] = Gone,
           secretsSeen' = secretsSeen,
           \A key \in {client'.auth, secrets'["orgkey"]} :
              \/ key \in {None, client.auth, secrets["orgkey"], secretsSeen["orgkey"]}
              \/ key \in KeyIds /\ keys'[key] \notin Absent,
           client'.auth \in {None, client.auth} \/ seen["organization"].ready,
           where \in {"orgkey", "project", "create", "keys", "mint", "store", "revoke", "purge"}
              => client'.auth # None,
           ~Forgotten => CountKept
    PROVE  Rest'
  <1> DEFINE k == "project"
  <1>0. /\ k \in Kinds /\ held[k] # None /\ ObjectsOK
        /\ obj[k] # Unused /\ (obj[k] \notin Absent => obj[k].finalizer)
    BY CalmPass, CalmParts
  <1>1. obj' = obj /\ seen' = seen /\ place' = [place EXCEPT ![k] = where]
    BY DEF Continue, Go
  <1>2. place'[k] = where
    BY <1>0, <1>1 DEF ObjectsOK, IsMap
  <1>3. BelongingsStand' /\ OrgKeysStay /\ ProjectsStay
    BY EffectStands
  <1>4. CredentialsStand'
    BY <1>3, CredentialsFollow
  <1>5. PassHasKey'
    BY <1>2 DEF PassHasKey
  <1>6. NoSecretBefore'
    BY <1>0, <1>1 DEF NoSecretBefore, Unclaimed, Absent
  <1>7. ProjectStands'
    BY <1>1, <1>3, ProjectStandsRests
  <1>8. Forgotten => Forgotten'
    BY <1>1, ForgottenRests
  <1>9. OrphansAreCounted'
    BY <1>8, CountIsKept
  <1> QED
    BY <1>3, <1>4, <1>5, <1>6, <1>7, <1>9 DEF Rest

\* A pass that goes on and changes nothing but its place.
LEMMA CalmMove ==
    ASSUME Calm, ReadyStays, place["project"] # "idle",
           NEW where \in Places \ {"idle"}, Continue(where),
           held' = held, client' = client, secrets' = secrets, secretsSeen' = secretsSeen,
           UNCHANGED serverVars,
           where \in {"orgkey", "project", "create", "keys", "mint", "store", "revoke", "purge"}
              => client.auth # None,
           ~Forgotten => CountKept
    PROVE  Rest'
  <1>1. /\ CalmEffect
        /\ \A p \in ProjectIds : projects'[p] = Gone => projects[p] = Gone
    BY ServerStays
  <1> QED
    BY <1>1, CalmContinue

\* A pass begins: if the cache does not know the Secrets, it is counted.
LEMMA CalmGet ==
    ASSUME Calm, ReadyStays, ~Fault, Get("project")
    PROVE  Rest'
  <1> DEFINE k == "project"
             where == IF seen[k].deleting THEN "delete" ELSE "resolve"
  <1>0. IInv /\ CopiesAreEarlier /\ ObjectsOK /\ NoSecretBefore /\ k \in Kinds
    BY CalmParts DEF Kinds
  <1>1. /\ place[k] = "idle" /\ seen[k] \notin Absent /\ seen[k].finalizer
        /\ held' = [held EXCEPT ![k] = seen[k]]
        /\ place' = [place EXCEPT ![k] = where]
        /\ \/ secretsSeen = secrets /\ lags' = lags
           \/ lags' = lags + 1
        /\ UNCHANGED <<serverVars, obj, seen, secrets, secretsSeen, client>>
    BY DEF Get, Go, Lagging
  <1>2. /\ held'[k] = seen[k] /\ place'[k] = where /\ place'[k] \in {"delete", "resolve"}
    BY <1>0, <1>1 DEF ObjectsOK, IsMap
  <1>3. CredentialsStand'
    BY <1>1, CredentialsFollow, ServerStays
  <1>4. PassHasKey' /\ NoSecretBefore'
    BY <1>0, <1>1, <1>2 DEF PassHasKey, NoSecretBefore
  <1>5. ProjectStands'
    BY <1>1, <1>2, ProjectStandsRests, ServerStays
  <1>6. Forgotten => Forgotten'
    BY <1>1, <1>2, ForgottenRests
  <1>7. KeptKeys' = KeptKeys /\ ProjectKeys' = ProjectKeys
    BY <1>1, <1>2, KeptKeysCases, KeptKeysNext, ServerStays
  <1>8. Orphans' = Orphans
    BY <1>7 DEF Orphans
  <1>9. secretsSeen = secrets => ~Misled'
    BY <1>1, <1>2 DEF Misled
  <1>10. CountKept
    BY <1>1, <1>8, <1>9 DEF CountKept
  <1>11. OrphansAreCounted'
    BY <1>6, <1>10, CountIsKept
  <1> QED
    BY <1>1, <1>3, <1>4, <1>5, <1>11, ServerStays DEF Rest

LEMMA CalmAddFinalizer ==
    ASSUME Calm, ReadyStays, AddFinalizer("project")
    PROVE  Rest'
  <1> DEFINE k == "project"
  <1>0. /\ IInv /\ CopiesAreEarlier /\ ObjectsOK /\ NoSecretBefore /\ k \in Kinds
        /\ ProjectStands
    BY CalmParts DEF Kinds
  <1>1. /\ place[k] = "idle" /\ place' = [place EXCEPT ![k] = "resolve"]
        /\ UNCHANGED <<serverVars, secrets, secretsSeen, lags, client>>
    BY DEF AddFinalizer, Go, secretVars
  <1>2. /\ obj[k] \notin Absent /\ ~obj[k].finalizer /\ ~obj[k].deleting
        /\ seen' = seen /\ seen[k] = obj[k] /\ held'[k] = obj'[k] /\ obj'[k] \notin Absent
        /\ obj'[k] = [obj[k] EXCEPT !.finalizer = TRUE] /\ obj[k] \in Objects
    BY <1>0, EarlierAddFinalizer
  <1>3. obj'[k].finalizer /\ obj'[k].id = obj[k].id /\ obj'[k].deleting = obj[k].deleting
    BY <1>2 DEF Objects
  <1>4. place'[k] = "resolve"
    BY <1>0, <1>1 DEF ObjectsOK, IsMap
  <1>5. CredentialsStand'
    BY <1>1, CredentialsFollow, ServerStays
  <1>6. /\ secrets["apikey"] = None /\ secretsSeen["apikey"] = None
        /\ PassHasKey' /\ NoSecretBefore'
    BY <1>0, <1>2, <1>3, <1>4 DEF PassHasKey, NoSecretBefore, Unclaimed, Absent
  <1>7. ProjectStands'
    <2>1. projects' = projects
      BY <1>1 DEF serverVars
    <2>2. /\ obj[k].id # None => projects[obj[k].id] # Unused /\ seen["organization"].ready
          /\ \A p \in ProjectIds : projects[p] # Gone
      BY <1>0, <1>2 DEF ProjectStands, ProjectCopyStands
    <2> QED
      BY <1>2, <1>3, <2>1, <2>2 DEF ProjectStands, ProjectCopyStands, Project, ReadyStays
  <1>8. ~Forgotten
    BY <1>2 DEF Forgotten, Nameless, Absent
  <1>9. KeptKeys' = KeptKeys /\ ~Misled'
    BY <1>1, <1>2, <1>4, <1>6, KeptKeysCases, KeptKeysNext DEF Absent, Misled
  <1>10. OrphansAreCounted'
    BY <1>1, <1>8, <1>9, ServerStays, KeptStay, CountIsKept
  <1> QED
    BY <1>1, <1>5, <1>6, <1>7, <1>10, ServerStays DEF Rest

\* Undisturbed, only a deletion that has no identifier goes past the cleanup.
LEMMA CalmResolveFails ==
    ASSUME Calm, ReadyStays, ResolveProjectFails
    PROVE  Rest'
  <1>0. place["project"] \in {"resolve", "delete"} /\ UNCHANGED serverVars /\ GiveUp /\ ~NeedsClient
    BY DEF ResolveProjectFails, AtProject
  <1>1. CASE Project.deleting
    <2>1. /\ OrganizationStands /\ ProjectStands /\ seen["organization"] \notin Absent
      BY CalmParts, OrgTypes
    <2>2. Project.id # None => Resolved
      BY <1>0, <2>1, CalmPass DEF Resolved, AdminClient, OrganizationStands, ProjectCopyStands
    <2>3. Project.id = None
      BY <1>0, <2>2 DEF NeedsClient
    <2>4. Forgotten
      BY <1>0, <1>1, <2>3, CalmPass
    <2>5. /\ Continue("secret") /\ held' = held /\ client' = client /\ secrets' = secrets
          /\ secretsSeen' = secretsSeen /\ "secret" \in Places \ {"idle"}
      BY <1>0, <1>1 DEF GiveUp, secretVars, Places
    <2> QED
      BY <1>0, <2>4, <2>5, CalmMove
  <1>2. CASE ~Project.deleting
    BY <1>0, <1>2, CalmReport DEF GiveUp, ProjectFails, NotReady
  <1> QED
    BY <1>1, <1>2

LEMMA CalmEnsureClient ==
    ASSUME Calm, ReadyStays, ~Fault, EnsureClient
    PROVE  Rest'
  <1> DEFINE org == seen["organization"].id
  <1>0. /\ place["project"] \in {"resolve", "delete"} /\ NeedsClient
        /\ Authorized \in {"project", "revoke"}
        /\ {"project", "revoke", "orgkey"} \subseteq Places \ {"idle"}
    BY DEF EnsureClient, AtProject, Authorized, Places
  <1>a. /\ SecretsOK /\ ServerTypeOK /\ CredentialsStand
        /\ OrganizationStands /\ ObjectsOK /\ "project" \in Kinds
    BY <1>0, CalmParts, CalmPass
  <1>b. /\ seen["organization"].ready /\ org # None /\ org \in OrgIds /\ GetOrganization(org)
    BY <1>0, CalmParts, OrgTypes DEF NeedsClient, Resolved, OrganizationStands, OrgCopyStands
  <1>1. CASE /\ secretsSeen["orgkey"] # None
             /\ Client(secretsSeen["orgkey"], Authorized)
             /\ UNCHANGED serverVars
    <2>1. /\ client' = [client EXCEPT !.auth = secretsSeen["orgkey"]] /\ Continue(Authorized)
          /\ held' = held /\ secrets' = secrets /\ secretsSeen' = secretsSeen /\ lags' = lags
      BY <1>1 DEF Client, secretVars
    <2>2. client'.auth = secretsSeen["orgkey"]
      BY <1>a, <2>1 DEF SecretsOK
    <2>3. place'["project"] = Authorized
      BY <1>a, <2>1 DEF Continue, Go, ObjectsOK, IsMap
    <2>4. /\ CalmEffect /\ ProjectKeys' = ProjectKeys
          /\ \A p \in ProjectIds : projects'[p] = Gone => projects[p] = Gone
      BY <1>1, ServerStays
    <2>5. KeptKeys' = KeptKeys /\ (Misled' => Misled)
      BY <1>0, <2>1, <2>3, KeptKeysCases, KeptKeysNext DEF Continue, Misled
    <2>6. CountKept
      BY <2>1, <2>4, <2>5, KeptStay
    <2> DEFINE where == Authorized
    <2>8. where \in {"project", "revoke"} /\ where \in Places \ {"idle"} /\ Continue(where)
      BY <1>0, <2>1
    <2> HIDE DEF where
    <2> QED
      BY <1>0, <1>1, <1>b, <2>1, <2>2, <2>4, <2>6, <2>8, CalmContinue
  <1>2. CASE \E key \in KeyIds : CreateOrganizationAPIKey(key, org) /\ Client(key, "orgkey")
    <2>1. PICK key \in KeyIds : CreateOrganizationAPIKey(key, org) /\ Client(key, "orgkey")
      BY <1>2
    <2> DEFINE scope == <<"organization", org>>
    <2>2. /\ client' = [client EXCEPT !.auth = key] /\ Continue("orgkey")
          /\ held' = held /\ secrets' = secrets /\ secretsSeen' = secretsSeen /\ lags' = lags
      BY <2>1 DEF Client, secretVars
    <2>3. client'.auth = key /\ key # None
      BY <1>a, <2>2, ValuesAssumption DEF SecretsOK
    <2>4. place'["project"] = "orgkey"
      BY <1>a, <2>2 DEF Continue, Go, ObjectsOK, IsMap
    <2>5. /\ scope \in Scopes /\ scope \notin Absent
      BY <1>b, ValuesAssumption DEF Scopes, Absent
    <2>6. /\ keys[key] = Unused /\ keys' = [keys EXCEPT ![key] = scope] /\ projects' = projects
          /\ orgs' = orgs
      BY <2>1 DEF CreateOrganizationAPIKey, CreateKey, Fresh
    <2>7. KeyIsMade(key, scope) /\ OrgsStay
      BY <1>b, <2>6 DEF KeyIsMade, OrgsStay, GetOrganization
    <2>8. CalmEffect
      BY <2>5, <2>7 DEF CalmEffect
    <2>9. keys'[key] \notin Absent /\ ProjectKeys' \subseteq ProjectKeys
      <3>1. keys'[key] = scope /\ \A k \in KeyIds \ {key} : keys'[k] = keys[k]
        BY <1>a, <2>6 DEF ServerTypeOK
      <3>2. \A p \in ProjectIds : scope # <<"project", p>>
        OBVIOUS
      <3> QED
        BY <2>5, <3>1, <3>2 DEF ProjectKeys
    <2>10. KeptKeys' = KeptKeys /\ (Misled' => Misled)
      BY <1>0, <2>2, <2>4, KeptKeysCases, KeptKeysNext DEF Continue, Misled
    <2>11. CountKept
      BY <2>2, <2>9, <2>10, KeptStay
    <2> HIDE DEF scope
    <2> QED
      BY <1>0, <1>b, <2>2, <2>3, <2>6, <2>8, <2>9, <2>11, CalmContinue
  <1> QED
    BY <1>b, <1>1, <1>2 DEF EnsureClient, Fails

\* The minted key is the one in the Secret from then on, unless there is one already.
LEMMA CalmCacheOrgKey ==
    ASSUME Calm, ReadyStays, ~Fault, CacheOrgKey
    PROVE  Rest'
  <1> DEFINE where == Authorized
  <1>0. /\ place["project"] = "orgkey" /\ where \in {"project", "revoke"}
        /\ where \in Places \ {"idle"} /\ Continue(where) /\ UNCHANGED serverVars
        /\ held' = held /\ client' = client /\ secretsSeen' = secretsSeen /\ lags' = lags
        /\ secrets' = secrets \/ secrets' = [secrets EXCEPT !["orgkey"] = client.auth]
    BY DEF CacheOrgKey, AtProject, Authorized, Places, SetSecret, secretVars
  <1> HIDE DEF where
  <1>1. SecretsOK /\ PassHasKey /\ ObjectsOK /\ "project" \in Kinds
    BY <1>0, CalmParts, CalmPass
  <1>2. /\ secrets'["apikey"] = secrets["apikey"]
        /\ secrets'["orgkey"] \in {secrets["orgkey"], client.auth}
    BY <1>0, <1>1 DEF SecretsOK
  <1>3. place'["project"] = where
    BY <1>0, <1>1 DEF Continue, Go, ObjectsOK, IsMap
  <1>4. /\ CalmEffect /\ ProjectKeys' = ProjectKeys
        /\ \A p \in ProjectIds : projects'[p] = Gone => projects[p] = Gone
    BY <1>0, ServerStays
  <1>5. KeptKeys' = KeptKeys /\ (Misled' => Misled)
    BY <1>0, <1>2, <1>3, KeptKeysCases, KeptKeysNext DEF Continue, Misled
  <1>6. CountKept
    BY <1>0, <1>4, <1>5, KeptStay
  <1>7. client.auth # None
    BY <1>0, <1>1 DEF PassHasKey
  <1> QED
    BY <1>0, <1>2, <1>4, <1>6, <1>7, CalmContinue

\* A pass that finds or makes its project.
LEMMA CalmFound ==
    ASSUME Calm, ReadyStays, place["project"] \in {"project", "create"}, NEW id \in ProjectIds,
           held' = [held EXCEPT !["project"].id = id], Continue("keys"),
           UNCHANGED <<client, secretVars>>, CalmEffect, keys' = keys,
           projects'[id] # Unused,
           \A p \in ProjectIds : projects'[p] = Gone => projects[p] = Gone
    PROVE  Rest'
  <1> DEFINE k == "project"
             new == [held[k] EXCEPT !.id = id]
  <1>0. /\ SecretsOK /\ PassHasKey /\ ObjectsOK /\ ProjectStands
        /\ IInv /\ CopiesAreEarlier
    BY CalmParts
  <1>1. /\ k \in Kinds /\ held[k] # None /\ held[k] \in Objects /\ ~held[k].deleting
        /\ obj[k] \notin Absent /\ obj[k].finalizer /\ ~Forgotten /\ ProjectCopyStands(held[k])
    BY CalmPass DEF Project, DeletionPlaces
  <1>2. new.id = id /\ new.deleting = held[k].deleting
    BY <1>1 DEF Objects
  <1>3. held' = [held EXCEPT ![k] = new]
    OBVIOUS
  <1> HIDE DEF new
  <1>4. /\ held'[k] = new /\ place'[k] = "keys" /\ obj' = obj /\ seen' = seen
        /\ secrets' = secrets /\ secretsSeen' = secretsSeen /\ lags' = lags
    BY <1>0, <1>1, <1>3 DEF Continue, Go, ObjectsOK, IsMap, secretVars
  <1>5. BelongingsStand' /\ OrgKeysStay /\ ProjectsStay
    BY EffectStands
  <1>6. CredentialsStand'
    BY <1>4, <1>5, CredentialsFollow
  <1>7. client.auth # None /\ seen["organization"].ready
    BY <1>0, CalmKey DEF PassHasKey
  <1>8. PassHasKey' /\ NoSecretBefore'
    BY <1>1, <1>4, <1>7 DEF PassHasKey, NoSecretBefore, Unclaimed, Absent
  <1>9. ProjectStands'
    <2>1. /\ obj[k].id \in ProjectIds \cup {None}
          /\ seen[k] \notin Absent => seen[k].id \in ProjectIds \cup {None}
      BY <1>0, <1>1, KindFacts DEF KindOK, IdsOf
    <2>2. obj[k].id # None => projects'[obj[k].id] # Unused
      BY <1>0, <1>1, <1>5, <2>1 DEF ProjectStands, ProjectsStay
    <2>3. seen[k] \notin Absent =>
             /\ seen[k].id # None => projects'[seen[k].id] # Unused
             /\ ~seen[k].deleting => \A p \in ProjectIds : projects'[p] # Gone
      BY <1>0, <1>5, <2>1 DEF ProjectStands, ProjectCopyStands, ProjectsStay
    <2>4. \A p \in ProjectIds : projects'[p] # Gone
      BY <1>1 DEF ProjectCopyStands
    <2>5. seen'["organization"].ready
      BY <1>7 DEF ReadyStays
    <2>6. seen'[k] \notin Absent => ProjectCopyStands(seen[k])'
      BY <1>4, <2>3, <2>5 DEF ProjectCopyStands
    <2>7. ProjectCopyStands(Project)'
      BY <1>2, <1>4, <2>4, <2>5 DEF ProjectCopyStands, Project
    <2> QED
      BY <1>4, <2>2, <2>4, <2>5, <2>6, <2>7 DEF ProjectStands
  <1>10. KeptKeys' = KeptKeys /\ ProjectKeys' = ProjectKeys /\ (Misled' => Misled)
    BY <1>4, KeptKeysCases, KeptKeysNext DEF ProjectKeys, Misled
  <1>11. OrphansAreCounted'
    BY <1>1, <1>4, <1>10, KeptStay, CountIsKept
  <1> QED
    BY <1>5, <1>6, <1>8, <1>9, <1>11 DEF Rest

LEMMA CalmSyncProject ==
    ASSUME Calm, ReadyStays, ~Fault, SyncProject
    PROVE  Rest'
  <1>0. place["project"] = "project" /\ UNCHANGED serverVars /\ projects' = projects /\ keys' = keys
    BY DEF SyncProject, AtProject, serverVars
  <1>1. /\ PassHasKey /\ {"keys", "create"} \subseteq Places \ {"idle"}
        /\ ObjectsOK /\ "project" \in Kinds
    BY CalmParts DEF Places, Kinds
  <1>2. client.auth # None /\ Accepted(client.auth)
    BY <1>0, <1>1, CalmKey DEF PassHasKey
  <1>4. ASSUME NEW where \in {"keys", "create"}, Continue(where),
               UNCHANGED <<held, client, secretVars>>
        PROVE  Rest'
    <2>1. place'["project"] = where /\ obj' = obj
      BY <1>1, <1>4 DEF Continue, Go, ObjectsOK, IsMap
    <2>2. secrets' = secrets /\ secretsSeen' = secretsSeen /\ lags' = lags
      BY <1>4 DEF secretVars
    <2>3. KeptKeys' = KeptKeys /\ (Misled' => Misled)
      BY <1>0, <2>1, <2>2, KeptKeysCases, KeptKeysNext DEF Misled
    <2>4. CountKept
      BY <1>0, <2>2, <2>3, ServerStays, KeptStay
    <2> QED
      BY <1>0, <1>1, <1>2, <1>4, <2>2, <2>4, CalmMove
  <1>5. CASE /\ \E p \in ListProjects(client.auth) : held' = [held EXCEPT !["project"].id = p]
             /\ Continue("keys") /\ UNCHANGED <<client, secretVars>>
    <2>1. PICK p \in ListProjects(client.auth) : held' = [held EXCEPT !["project"].id = p]
      BY <1>5
    <2>2. p \in ProjectIds /\ projects[p] = ScopeOf(client.auth) /\ ScopeOf(client.auth) \in OrgIds
      BY <1>2, <2>1, CalmKey DEF ListProjects
    <2>3. projects'[p] # Unused
      BY <1>0, <2>2, ValuesAssumption
    <2> QED
      BY <1>0, <1>5, <2>1, <2>2, <2>3, ServerStays, CalmFound
  <1> QED
    BY <1>2, <1>4, <1>5 DEF SyncProject, Fails

\* No project is there, and none has gone: the one that is made is the first.
LEMMA CalmMakeProject ==
    ASSUME Calm, ReadyStays, ~Fault, MakeProject
    PROVE  Rest'
  <1>0. place["project"] = "create"
    BY DEF MakeProject, AtProject
  <1>1. PassHasKey /\ ProjectSearchStands /\ ServerTypeOK
    BY CalmParts
  <1>2. /\ client.auth # None /\ Accepted(client.auth) /\ ScopeOf(client.auth) \in OrgIds
        /\ GetOrganization(ScopeOf(client.auth))
        /\ \A p \in ProjectIds : GetProject(client.auth, p) <=> projects[p] \notin Absent
    BY <1>0, <1>1, CalmKey DEF PassHasKey
  <1>3. PICK p \in ProjectIds :
           /\ CreateProject(client.auth, p)
           /\ held' = [held EXCEPT !["project"].id = p]
           /\ Continue("keys")
           /\ UNCHANGED <<client, secretVars>>
    BY <1>2 DEF MakeProject, Fails
  <1>4. \A q \in ProjectIds : projects[q] = Unused
    <2>1. ListProjects(client.auth) = {}
      BY <1>0, <1>1, <1>2 DEF ProjectSearchStands
    <2>2. \A q \in ProjectIds : projects[q] # Gone
      BY <1>0, CalmPass DEF ProjectCopyStands, DeletionPlaces
    <2> QED
      BY <1>2, <2>1, <2>2 DEF ListProjects, GetProject, Absent
  <1>5. /\ orgs' = orgs /\ keys' = keys
        /\ projects' = [projects EXCEPT ![p] = ScopeOf(client.auth)]
    BY <1>3 DEF CreateProject
  <1>6. ProjectIsMade(p) /\ OrgsStay
    BY <1>2, <1>4, <1>5 DEF ProjectIsMade, OrgsStay, GetOrganization
  <1>7. CalmEffect
    BY <1>6 DEF CalmEffect
  <1>8. /\ projects'[p] # Unused
        /\ \A q \in ProjectIds : projects'[q] = Gone => projects[q] = Gone
    BY <1>1, <1>2, <1>5, ValuesAssumption DEF ServerTypeOK
  <1> QED
    BY <1>0, <1>3, <1>5, <1>7, <1>8, CalmFound

\* A key of a project is one of the project that the pass has on record.
LEMMA KeyIsListed ==
    ASSUME Calm, place["project"] # "idle", client.auth # None, Project.id # None,
           NEW key \in ProjectKeys
    PROVE  /\ key \in KeyIds /\ GetProject(client.auth, Project.id)
           /\ key \in ListAPIKeys(Project.id)
  <1>1. PICK p \in ProjectIds : keys[key] = <<"project", p>>
    BY DEF ProjectKeys
  <1>2. key \in KeyIds /\ Project.id \in ProjectIds /\ projects[Project.id] # Unused
    BY CalmPass DEF ProjectKeys, ProjectCopyStands
  <1>3. projects[p] \notin Absent
    BY <1>1, <1>2, CalmParts DEF BelongingsStand
  <1>4. p = Project.id
    BY <1>2, <1>3, CalmParts DEF BelongingsStand, Absent
  <1> QED
    BY <1>1, <1>2, <1>3, <1>4, CalmKey DEF ListAPIKeys

\* A key in the Secret that is not one of the project's: the Secret goes, and with it a key
\* that the cache did not know of.
LEMMA CalmCheckKey ==
    ASSUME Calm, ReadyStays, ~Fault, CheckKey
    PROVE  Rest'
  <1>0. place["project"] = "keys" /\ UNCHANGED serverVars
    BY DEF CheckKey, AtProject
  <1>1. /\ PassHasKey /\ SecretsOK /\ ObjectsOK
        /\ {"status", "mint"} \subseteq Places \ {"idle"} /\ "project" \in Kinds
    BY <1>0, CalmParts, CalmPass DEF Places
  <1>2. client.auth # None
    BY <1>0, <1>1 DEF PassHasKey
  <1>3. obj["project"] # Gone /\ ~Project.deleting /\ ~Forgotten
    BY <1>0, CalmPass DEF DeletionPlaces, Absent
  <1>4. KeptKeys = {secrets["apikey"]} /\ ProjectKeys' = ProjectKeys
    BY <1>0, <1>3, KeptKeysCases, ServerStays
  <1>5. CASE Continue("status") /\ UNCHANGED <<held, client, secretVars>>
    <2>1. place'["project"] = "status" /\ obj' = obj
      BY <1>1, <1>5 DEF Continue, Go, ObjectsOK, IsMap
    <2>2. secrets' = secrets /\ secretsSeen' = secretsSeen /\ lags' = lags
      BY <1>5 DEF secretVars
    <2>3. KeptKeys' = KeptKeys /\ ~Misled'
      BY <1>3, <1>4, <2>1, <2>2, KeptKeysNext DEF Misled
    <2>4. CountKept
      BY <1>4, <2>2, <2>3, KeptStay
    <2> QED
      BY <1>0, <1>1, <1>5, <2>2, <2>4, CalmMove
  <1>6. CASE /\ GetProject(client.auth, Project.id)
             /\ ~Valid(secretsSeen["apikey"])
             /\ IF secretsSeen["apikey"] = None
                THEN UNCHANGED <<secretVars, faults>>
                ELSE SetSecret("apikey", None)
             /\ Continue("mint")
             /\ UNCHANGED <<held, client>>
    <2>1. /\ secretsSeen' = secretsSeen /\ lags' = lags
          /\ secretsSeen["apikey"] = None => secrets' = secrets
          /\ secretsSeen["apikey"] # None => secrets' = [secrets EXCEPT !["apikey"] = None]
      BY <1>6 DEF SetSecret, secretVars
    <2>2. secrets'["orgkey"] = secrets["orgkey"]
      BY <1>1, <2>1 DEF SecretsOK
    <2>3. place'["project"] = "mint" /\ obj' = obj
      BY <1>1, <1>6 DEF Continue, Go, ObjectsOK, IsMap
    <2>4. KeptKeys' = {secrets'["apikey"]}
      BY <1>3, <2>3, KeptKeysNext
    <2>5. CountKept
      <3>1. CASE secretsSeen["apikey"] = None
        <4>1. secrets' = secrets
          BY <2>1, <3>1
        <4>2. Misled' => Misled
          BY <1>0, <2>3, <3>1, <4>1 DEF Misled
        <4> QED
          BY <1>4, <2>1, <2>4, <4>1, <4>2, KeptStay
      <3>2. CASE secretsSeen["apikey"] # None
        <4>1. secrets'["apikey"] = None
          BY <1>1, <2>1, <3>2 DEF SecretsOK
        <4>2. ~Misled'
          BY <2>3, <4>1 DEF Misled
        <4>3. CASE secretsSeen["apikey"] = secrets["apikey"]
          <5>1. Project.id # None
            BY <1>6 DEF GetProject
          <5>2. secrets["apikey"] \notin ProjectKeys
            BY <1>0, <1>2, <1>6, <3>2, <4>3, <5>1, KeyIsListed DEF Valid
          <5>3. Orphans' \subseteq Orphans
            BY <1>4, <5>2 DEF Orphans
          <5> QED
            BY <2>1, <4>2, <5>3 DEF CountKept
        <4>4. CASE secretsSeen["apikey"] # secrets["apikey"]
          <5>1. Misled
            BY <1>0, <1>3, <4>4 DEF Misled
          <5>2. Orphans' \subseteq Orphans \cup {secrets["apikey"]}
            BY <1>4 DEF Orphans
          <5> QED
            BY <2>1, <4>2, <5>1, <5>2 DEF CountKept
        <4> QED
          BY <4>3, <4>4
      <3> QED
        BY <3>1, <3>2
    <2>6. /\ CalmEffect
          /\ \A p \in ProjectIds : projects'[p] = Gone => projects[p] = Gone
      BY <1>0, ServerStays
    <2> QED
      BY <1>0, <1>1, <1>2, <1>6, <2>1, <2>2, <2>5, <2>6, CalmContinue
  <1>7. CASE ProjectFails
    BY <1>0, <1>3, <1>7, CalmReport DEF ProjectFails, NotReady
  <1> QED
    BY <1>5, <1>6, <1>7 DEF CheckKey

\* The new key is on its way to the Secret, unless the pass does not know that there is one.
LEMMA CalmMintKey ==
    ASSUME Calm, ReadyStays, ~Fault, MintKey
    PROVE  Rest'
  <1>0. place["project"] = "mint"
    BY DEF MintKey, AtProject
  <1>1. /\ PassHasKey /\ SecretsOK /\ ObjectsOK /\ ServerTypeOK
        /\ "store" \in Places \ {"idle"} /\ "project" \in Kinds
        /\ Project.id \in ProjectIds \cup {None}
    BY <1>0, CalmParts, CalmPass DEF Places
  <1>2. client.auth # None
    BY <1>0, <1>1 DEF PassHasKey
  <1>3. obj["project"] # Gone /\ ~Project.deleting /\ ~Forgotten
    BY <1>0, CalmPass DEF DeletionPlaces, Absent
  <1>4. KeptKeys = {secrets["apikey"]}
    BY <1>0, <1>3, KeptKeysCases
  <1>5. CASE \E key \in KeyIds :
                /\ GetProject(client.auth, Project.id)
                /\ CreateAPIKey(key, Project.id)
                /\ client' = [client EXCEPT !.minted = key]
                /\ Continue("store")
                /\ UNCHANGED <<held, secretVars>>
    <2>1. PICK key \in KeyIds :
             /\ GetProject(client.auth, Project.id)
             /\ CreateAPIKey(key, Project.id)
             /\ client' = [client EXCEPT !.minted = key]
             /\ Continue("store")
             /\ UNCHANGED <<held, secretVars>>
      BY <1>5
    <2> DEFINE scope == <<"project", Project.id>>
    <2>2. Project.id \in ProjectIds /\ projects[Project.id] \notin Absent
      BY <1>1, <1>2, <2>1, CalmKey DEF GetProject
    <2>3. scope \in Scopes
      BY <2>2 DEF Scopes
    <2>4. /\ keys[key] = Unused /\ keys' = [keys EXCEPT ![key] = scope] /\ projects' = projects
          /\ orgs' = orgs
      BY <2>1 DEF CreateAPIKey, CreateKey, Fresh
    <2>5. KeyIsMade(key, scope) /\ OrgsStay
      BY <2>2, <2>4 DEF KeyIsMade, OrgsStay, GetOrganization
    <2>6. CalmEffect
      BY <2>3, <2>5 DEF CalmEffect
    <2>7. ProjectKeys' \subseteq ProjectKeys \cup {key}
      <3>1. \A k \in KeyIds \ {key} : keys'[k] = keys[k]
        BY <1>1, <2>4 DEF ServerTypeOK
      <3> QED
        BY <3>1 DEF ProjectKeys
    <2>8. client'.minted = key /\ client'.auth = client.auth
      BY <1>1, <2>1 DEF SecretsOK
    <2>9. place'["project"] = "store" /\ obj' = obj
      BY <1>1, <2>1 DEF Continue, Go, ObjectsOK, IsMap
    <2>10. /\ secrets' = secrets /\ secretsSeen' = secretsSeen /\ held' = held /\ lags' = lags
      BY <2>1 DEF secretVars
    <2> HIDE DEF scope
    <2>11. ~Misled'
      BY <2>9 DEF Misled
    <2>12. CountKept
      <3>1. CASE secrets["apikey"] = None
        <4>1. KeptKeys' = {key}
          BY <1>3, <2>8, <2>9, <2>10, <3>1, KeptKeysNext
        <4>2. Orphans' \subseteq ProjectKeys
          BY <2>7, <4>1 DEF Orphans
        <4>3. ProjectKeys \subseteq Orphans
          BY <1>4, <3>1, ValuesAssumption DEF Orphans, ProjectKeys
        <4> QED
          BY <2>10, <2>11, <4>2, <4>3 DEF CountKept
      <3>2. CASE secrets["apikey"] # None
        <4>1. KeptKeys' = {secrets["apikey"]} /\ Misled
          BY <1>0, <1>3, <2>9, <2>10, <3>2, KeptKeysNext DEF Misled
        <4>2. Orphans' \subseteq Orphans \cup {key}
          BY <1>4, <2>7, <4>1 DEF Orphans
        <4> QED
          BY <2>10, <2>11, <4>1, <4>2 DEF CountKept
      <3> QED
        BY <3>1, <3>2
    <2> QED
      BY <1>0, <1>1, <1>2, <2>1, <2>4, <2>6, <2>8, <2>10, <2>12, CalmContinue
  <1>6. CASE ProjectFails /\ UNCHANGED serverVars
    BY <1>0, <1>3, <1>6, CalmReport DEF ProjectFails, NotReady
  <1> QED
    BY <1>5, <1>6 DEF MintKey

LEMMA CalmStoreKey ==
    ASSUME Calm, ReadyStays, ~Fault, StoreKey
    PROVE  Rest'
  <1>0. /\ place["project"] = "store" /\ UNCHANGED serverVars
        /\ Continue("status") /\ held' = held /\ client' = client
        /\ secretsSeen' = secretsSeen /\ lags' = lags
        /\ secrets["apikey"] = None => secrets' = [secrets EXCEPT !["apikey"] = client.minted]
        /\ secrets["apikey"] # None => secrets' = secrets
    BY DEF StoreKey, AtProject, SetSecret, secretVars
  <1>1. /\ SecretsOK /\ ObjectsOK /\ "status" \in Places \ {"idle"} /\ "project" \in Kinds
    BY <1>0, CalmParts, CalmPass DEF Places
  <1>2. /\ secrets'["orgkey"] = secrets["orgkey"]
        /\ secrets["apikey"] = None => secrets'["apikey"] = client.minted
        /\ secrets["apikey"] # None => secrets'["apikey"] = secrets["apikey"]
    BY <1>0, <1>1 DEF SecretsOK
  <1>3. place'["project"] = "status" /\ obj' = obj /\ obj["project"] # Gone
    BY <1>0, <1>1, CalmPass DEF Continue, Go, ObjectsOK, IsMap, DeletionPlaces, Absent
  <1>4. /\ CalmEffect /\ ProjectKeys' = ProjectKeys
        /\ \A p \in ProjectIds : projects'[p] = Gone => projects[p] = Gone
    BY <1>0, ServerStays
  <1>5. KeptKeys' = KeptKeys /\ ~Misled'
    BY <1>0, <1>2, <1>3, KeptKeysCases, KeptKeysNext DEF Misled
  <1>6. CountKept
    BY <1>0, <1>4, <1>5, KeptStay
  <1> QED
    BY <1>0, <1>1, <1>2, <1>4, <1>6, CalmContinue

LEMMA CalmSynced ==
    ASSUME Calm, ReadyStays, ~Fault, Synced("project")
    PROVE  Rest'
  <1>1. /\ place["project"] = "status" /\ UNCHANGED serverVars
        /\ Report("project", [held["project"] EXCEPT !.ready = TRUE])
    BY DEF Synced
  <1>2. ~Project.deleting /\ Project.id # None
    BY <1>1, CalmPass, CalmParts, IdentifierNoted DEF DeletionPlaces, Project
  <1> QED
    BY <1>1, <1>2, CalmReport

-----------------------------------------------------------------------------
(* Calm deletions of the project                                           *)

\* revokeAPIKeys: the key in the Secret goes, if the cache knows it.
LEMMA CalmRevokeKey ==
    ASSUME Calm, ReadyStays, ~Fault, RevokeKey
    PROVE  Rest'
  <1> DEFINE where == IF Project.purge THEN "purge" ELSE "secret"
             key == secretsSeen["apikey"]
  <1>0. /\ place["project"] = "revoke" /\ Continue(where) /\ where \in {"purge", "secret"}
        /\ where \in Places \ {"idle"}
        /\ held' = held /\ client' = client /\ secrets' = secrets /\ secretsSeen' = secretsSeen
        /\ lags' = lags
    BY DEF RevokeKey, AtProject, secretVars, Places
  <1> HIDE DEF where
  <1>1. /\ PassHasKey /\ SecretsOK /\ ObjectsOK /\ ServerTypeOK /\ "project" \in Kinds
    BY <1>0, CalmParts, CalmPass
  <1>2. client.auth # None
    BY <1>0, <1>1 DEF PassHasKey
  <1>3. place'["project"] = where
    BY <1>0, <1>1 DEF Continue, Go, ObjectsOK, IsMap
  <1>4. KeptKeys' = {} /\ ~Misled'
    BY <1>0, <1>3, KeptKeysNext DEF Misled
  <1>5. ASSUME ProjectKeys' \subseteq ProjectKeys \ {key}
        PROVE  CountKept
    <2>1. CASE obj["project"] = Gone
      <3>1. Orphans' \subseteq Orphans
        BY <1>5, <2>1, KeptKeysCases DEF Orphans
      <3> QED
        BY <1>0, <1>4, <3>1 DEF CountKept
    <2>2. CASE obj["project"] # Gone
      <3>1. KeptKeys = {secrets["apikey"]}
        BY <1>0, <2>2, KeptKeysCases
      <3>2. CASE secrets["apikey"] = key
        <4>1. Orphans' \subseteq Orphans
          BY <1>5, <3>1, <3>2 DEF Orphans
        <4> QED
          BY <1>0, <1>4, <4>1 DEF CountKept
      <3>3. CASE secrets["apikey"] # key
        <4>1. Misled
          BY <1>0, <2>2, <3>3 DEF Misled
        <4>2. Orphans' \subseteq Orphans \cup {secrets["apikey"]}
          BY <1>5, <3>1 DEF Orphans
        <4> QED
          BY <1>0, <1>4, <4>1, <4>2 DEF CountKept
      <3> QED
        BY <3>2, <3>3
    <2> QED
      BY <2>1, <2>2
  <1>6. CASE /\ GetProject(client.auth, Project.id) /\ Valid(key)
             /\ DeleteAPIKey(key)
    <2>1. /\ key \in KeyIds /\ keys[key] = <<"project", Project.id>>
      BY <1>6 DEF Valid, ListAPIKeys
    <2>2. Project.id \in ProjectIds
      BY <1>0, <1>6, CalmPass DEF GetProject
    <2>3. /\ keys' = [keys EXCEPT ![key] = Gone] /\ orgs' = orgs /\ projects' = projects
      BY <1>6 DEF DeleteAPIKey
    <2>4. KeyGoes(key) /\ OrgsStay
      BY <2>1, <2>2, <2>3 DEF KeyGoes, OrgsStay, GetOrganization
    <2>5. CalmEffect
      BY <2>1, <2>4 DEF CalmEffect
    <2>6. /\ keys'[key] = Gone /\ \A k \in KeyIds \ {key} : keys'[k] = keys[k]
      BY <1>1, <2>1, <2>3 DEF ServerTypeOK
    <2>7. \A p \in ProjectIds : Gone # <<"project", p>>
      BY ValuesAssumption DEF Scopes
    <2>8. ProjectKeys' \subseteq ProjectKeys \ {key}
      BY <2>6, <2>7 DEF ProjectKeys
    <2> QED
      BY <1>0, <1>2, <1>5, <2>3, <2>5, <2>8, CalmContinue
  <1>7. CASE /\ ~(GetProject(client.auth, Project.id) /\ Valid(key))
             /\ UNCHANGED serverVars
    <2>1. ASSUME ~Forgotten
          PROVE  ProjectKeys' \subseteq ProjectKeys \ {key}
      <3>1. Project.id # None
        BY <1>0, <2>1, CalmPass DEF DeletionPlaces
      <3>2. ASSUME key \in ProjectKeys
            PROVE  FALSE
        <4>1. key \in KeyIds /\ GetProject(client.auth, Project.id) /\ key \in ListAPIKeys(Project.id)
          BY <1>0, <1>2, <3>1, <3>2, KeyIsListed
        <4> QED
          BY <1>7, <4>1, ValuesAssumption DEF Valid
      <3>3. ProjectKeys' = ProjectKeys
        BY <1>7, ServerStays
      <3> QED
        BY <3>2, <3>3
    <2> QED
      BY <1>0, <1>2, <1>5, <1>7, <2>1, CalmMove
  <1> QED
    BY <1>6, <1>7 DEF RevokeKey

\* The project goes, and only copies that are being deleted know of it.
LEMMA CalmPurgeProject ==
    ASSUME Calm, ReadyStays, ~Fault, PurgeProject
    PROVE  Rest'
  <1> DEFINE k == "project"
  <1>0. /\ place[k] = "purge" /\ Continue("secret")
        /\ held' = held /\ client' = client /\ secrets' = secrets /\ secretsSeen' = secretsSeen
        /\ "secret" \in Places \ {"idle"} /\ lags' = lags
    BY DEF PurgeProject, AtProject, secretVars, Places
  <1>1. /\ PassHasKey /\ ObjectsOK /\ ServerTypeOK /\ k \in Kinds
        /\ ProjectStands /\ IInv /\ CopiesAreEarlier
    BY <1>0, CalmParts, CalmPass
  <1>2. ASSUME ProjectKeys' \subseteq ProjectKeys
        PROVE  CountKept
    <2>1. place'[k] = "secret"
      BY <1>0, <1>1 DEF Continue, Go, ObjectsOK, IsMap
    <2>2. KeptKeys = {} /\ ~Misled'
      BY <1>0, <2>1, KeptKeysCases DEF Misled
    <2> QED
      BY <1>0, <1>2, <2>2, KeptStay
  <1>3. CASE UNCHANGED serverVars
    BY <1>0, <1>2, <1>3, ServerStays, CalmMove
  <1>4. CASE GetProject(client.auth, Project.id) /\ DeleteProject(Project.id)
    <2>1. client.auth # None
      BY <1>0, <1>1 DEF PassHasKey
    <2>2. Project.id \in ProjectIds /\ projects[Project.id] \notin Absent
      BY <1>0, <1>4, <2>1, CalmPass, CalmKey DEF GetProject
    <2>3. OrgsStay
      BY <1>4 DEF OrgsStay, GetOrganization, DeleteProject
    <2>4. ProjectGoes(Project.id)
      BY <1>4, <2>2 DEF ProjectGoes
    <2>5. /\ BelongingsStand' /\ OrgKeysStay /\ ProjectsStay
          /\ \A key \in KeyIds, q \in ProjectIds :
                keys'[key] = <<"project", q>> => keys[key] = <<"project", q>>
      BY <2>2, <2>3, <2>4, ProjectGoesStands
    <2>6. /\ place'[k] = "secret" /\ obj' = obj /\ seen' = seen
      BY <1>0, <1>1 DEF Continue, Go, ObjectsOK, IsMap
    <2>7. CredentialsStand'
      BY <1>0, <2>5, CredentialsFollow
    <2>8. PassHasKey' /\ NoSecretBefore'
      BY <1>0, <2>6, CalmPass DEF PassHasKey, NoSecretBefore, Unclaimed, Absent
    <2>9. ProjectStands'
      <3>1. /\ held[k] # None /\ held[k].deleting /\ held[k].id \in ProjectIds \cup {None}
            /\ seen[k] \notin Absent => seen[k].deleting
            /\ seen[k] # Unused
        BY <1>0, CalmPass DEF DeletionPlaces, Project
      <3>2. /\ obj[k] \notin Absent => obj[k].id \in ProjectIds \cup {None}
            /\ seen[k] \notin Absent => seen[k].id \in ProjectIds \cup {None}
        BY <1>1, KindFacts DEF KindOK, IdsOf
      <3>3. /\ obj[k] \notin Absent /\ obj[k].id # None =>
                  projects'[obj[k].id] # Unused /\ seen'["organization"].ready
            /\ seen[k] \notin Absent /\ seen[k].id # None =>
                  projects'[seen[k].id] # Unused /\ seen'["organization"].ready
            /\ held[k].id # None =>
                  projects'[held[k].id] # Unused /\ seen'["organization"].ready
        BY <1>1, <2>5, <3>1, <3>2
           DEF ProjectStands, ProjectCopyStands, ProjectsStay, ReadyStays, Project
      <3> QED
        BY <1>0, <2>6, <3>1, <3>3 DEF ProjectStands, ProjectCopyStands, Project
    <2>10. Forgotten => Forgotten'
      BY <1>0, <2>6, ForgottenRests
    <2>11. ProjectKeys' \subseteq ProjectKeys
      BY <2>5 DEF ProjectKeys
    <2>12. OrphansAreCounted'
      BY <1>2, <2>10, <2>11, CountIsKept
    <2> QED
      BY <2>5, <2>7, <2>8, <2>9, <2>12 DEF Rest
  <1> QED
    BY <1>3, <1>4 DEF PurgeProject

LEMMA CalmDeleteSecret ==
    ASSUME Calm, ReadyStays, ~Fault, DeleteSecret
    PROVE  Rest'
  <1>0. /\ place["project"] = "secret" /\ Continue("release") /\ UNCHANGED serverVars
        /\ held' = held /\ client' = client /\ secretsSeen' = secretsSeen
        /\ secrets' = secrets \/ secrets' = [secrets EXCEPT !["apikey"] = None]
        /\ "release" \in Places \ {"idle"} /\ lags' = lags
    BY DEF DeleteSecret, AtProject, secretVars, Places, SetSecret
  <1>1. SecretsOK /\ ObjectsOK /\ "project" \in Kinds
    BY CalmParts DEF Kinds
  <1>2. place'["project"] = "release"
    BY <1>0, <1>1 DEF Continue, Go, ObjectsOK, IsMap
  <1>3. secrets'["orgkey"] = secrets["orgkey"]
    BY <1>0, <1>1 DEF SecretsOK
  <1>4. /\ CalmEffect /\ ProjectKeys' = ProjectKeys
        /\ \A p \in ProjectIds : projects'[p] = Gone => projects[p] = Gone
    BY <1>0, ServerStays
  <1>5. KeptKeys = {} /\ ~Misled'
    BY <1>0, <1>2, KeptKeysCases DEF Misled
  <1>6. CountKept
    BY <1>0, <1>4, <1>5, KeptStay
  <1> QED
    BY <1>0, <1>3, <1>4, <1>6, CalmContinue

LEMMA CalmRemoveFinalizer ==
    ASSUME Calm, ReadyStays, RemoveFinalizer("project")
    PROVE  Rest'
  <1> DEFINE k == "project"
  <1>0. /\ place[k] = "release" /\ UNCHANGED serverVars /\ client' = NoClient
        /\ secrets' = secrets /\ secretsSeen' = secretsSeen /\ lags' = lags
        /\ place' = [place EXCEPT ![k] = "idle"]
    BY DEF RemoveFinalizer, Return, secretVars
  <1>1. /\ ObjectsOK /\ k \in Kinds /\ IInv /\ CopiesAreEarlier
        /\ obj[k] # Unused /\ (obj[k] \notin Absent => obj[k].finalizer)
    BY <1>0, CalmParts, CalmPass
  <1>2. /\ held'[k] = None /\ seen' = seen /\ obj'[k] \in {obj[k], Gone} /\ place'[k] = "idle"
    BY <1>0, <1>1, EarlierRemoveFinalizer DEF ObjectsOK, IsMap
  <1>3. client'.auth = None
    BY <1>0 DEF NoClient
  <1>4. CredentialsStand'
    BY <1>0, <1>3, CredentialsFollow, ServerStays
  <1>5. PassHasKey' /\ NoSecretBefore'
    BY <1>1, <1>2, ValuesAssumption DEF PassHasKey, NoSecretBefore, Unclaimed, Absent
  <1>6. ProjectStands'
    BY <1>0, <1>2, ObjectsExist, ProjectStandsRests, ServerStays
  <1>7. Forgotten => Forgotten'
    BY <1>2, ForgottenRests
  <1>8. KeptKeys = {} /\ ~Misled'
    BY <1>0, <1>2, KeptKeysCases DEF Misled
  <1>9. OrphansAreCounted'
    BY <1>0, <1>7, <1>8, ServerStays, KeptStay, CountIsKept
  <1> QED
    BY <1>0, <1>4, <1>5, <1>6, <1>9, ServerStays DEF Rest

LEMMA CalmProjectController ==
    ASSUME Calm, ReadyStays, ~Fault, ProjectController
    PROVE  Rest'
  BY CalmGet, CalmAddFinalizer, CalmResolveFails, CalmEnsureClient, CalmCacheOrgKey,
     CalmSyncProject, CalmMakeProject, CalmCheckKey, CalmMintKey, CalmStoreKey, CalmSynced,
     CalmRevokeKey, CalmPurgeProject, CalmDeleteSecret, CalmRemoveFinalizer
     DEF ProjectController

-----------------------------------------------------------------------------
(* The other calm steps                                                    *)

\* A step that leaves the project, its object, its copies and its pass alone.
LEMMA CalmAside ==
    ASSUME Calm, ReadyStays, OrgsStay, UNCHANGED <<projects, keys>>,
           obj'["project"] = obj["project"], seen'["project"] = seen["project"],
           held'["project"] = held["project"], place'["project"] = place["project"],
           client' = client, secrets' = secrets, secretsSeen' \in {secretsSeen, secrets},
           lags' = lags
    PROVE  Rest'
  <1>0. PassHasKey /\ NoSecretBefore
    BY CalmParts
  <1>1. CalmEffect /\ \A p \in ProjectIds : projects'[p] = Gone => projects[p] = Gone
    BY DEF CalmEffect
  <1>2. BelongingsStand' /\ OrgKeysStay /\ ProjectsStay
    BY <1>1, EffectStands
  <1>3. CredentialsStand'
    BY <1>2, CredentialsFollow
  <1>4. PassHasKey'
    BY <1>0 DEF PassHasKey
  <1>5. NoSecretBefore'
    BY <1>0 DEF NoSecretBefore, Unclaimed
  <1>6. ProjectStands'
    BY <1>1, <1>2, ProjectStandsRests
  <1>7. Forgotten => Forgotten'
    BY ForgottenRests
  <1>8. KeptKeys' = KeptKeys /\ ProjectKeys' = ProjectKeys /\ (Misled' => Misled)
    BY KeptKeysCases, KeptKeysNext DEF ProjectKeys, Misled
  <1>9. OrphansAreCounted'
    BY <1>7, <1>8, KeptStay, CountIsKept
  <1> QED
    BY <1>2, <1>3, <1>4, <1>5, <1>6, <1>9 DEF Rest

\* The organization controller makes or updates organizations and reports on them.
LEMMA CalmOrganizationController ==
    ASSUME Calm, ReadyStays, ~Fault, OrganizationStands', Wants("organization")',
           OrganizationController
    PROVE  Rest'
  <1> DEFINE k == "organization"
  <1>0. /\ IInv /\ CopiesAreEarlier /\ OrganizationStands /\ Wants(k) /\ ServerTypeOK
        /\ k \in Kinds /\ "project" \in Kinds \ {k}
    BY CalmParts DEF Kinds
  <1>1. place[k] # "idle" => place[k] \notin DeletionPlaces
    <2>1. /\ EarlierOK(k, obj[k], seen[k], held[k], place[k])
          /\ KindOK(k, obj[k], seen[k], held[k], current[k], place[k])
      BY <1>0, KindFacts
    <2> QED
      BY <1>0, <2>1 DEF EarlierOK, KindOK, Follows, Absent, Wants
  <1>2. ~(CountDependents \/ CleanUpOrganization \/ RemoveFinalizer(k))
    BY <1>1 DEF CountDependents, CleanUpOrganization, RemoveFinalizer, AtOrg, DeletionPlaces
  <1>3. UNCHANGED <<projects, keys, client, secrets, secretsSeen, lags>>
    <2>1. CASE Get(k) \/ AddFinalizer(k)
      BY <2>1 DEF Get, Lagging, AddFinalizer, serverVars, secretVars
    <2>2. CASE ResolveFails \/ Synced(k)
      BY <2>2 DEF ResolveFails, Synced, OrgFails, NotReady, Report, Return, serverVars, secretVars
    <2>3. CASE SyncOrganization
      BY <2>3 DEF SyncOrganization, OrgFails, NotReady, Report, Return, Onward, UpdateOrganization,
                  serverVars, secretVars
    <2>4. CASE MakeOrganization \/ SyncMembers
      BY <2>4 DEF MakeOrganization, SyncMembers, OrgFails, NotReady, Report, Return, Onward,
                  CreateOrganization, SetOrgMembers, serverVars, secretVars
    <2> QED
      BY <1>2, <2>1, <2>2, <2>3, <2>4 DEF OrganizationController
  <1>4. OrgsStay
    <2>1. ASSUME orgs' = orgs
          PROVE  OrgsStay
      BY <2>1 DEF OrgsStay, GetOrganization
    <2>2. CASE SyncOrganization
      <3>1. orgs' = orgs \/ (GetOrganization(Org.id) /\ UpdateOrganization(Org.id, Org.name))
        BY <2>2 DEF SyncOrganization, serverVars
      <3>2. CASE GetOrganization(Org.id) /\ UpdateOrganization(Org.id, Org.name)
        <4>1. place[k] # "idle"
          BY <2>2 DEF SyncOrganization, AtOrg
        <4>2. Org.id \in OrgIds /\ Org.name \in Names /\ orgs[Org.id] \notin Absent
          BY <1>0, <3>2, <4>1, OrgFacts DEF GetOrganization
        <4>3. orgs'[Org.id] \in Organizations /\ \A o \in OrgIds \ {Org.id} : orgs'[o] = orgs[o]
          BY <1>0, <3>2, <4>2, UpdateOrganizationStep
        <4> QED
          BY <4>3, ValuesAssumption DEF OrgsStay, GetOrganization, Absent
      <3> QED
        BY <2>1, <3>1, <3>2
    <2>3. CASE MakeOrganization
      <3>1. PICK o \in OrgIds : CreateOrganization(o, Org.name)
        BY <2>3 DEF MakeOrganization
      <3>2. orgs[o] = Unused /\ \A q \in OrgIds \ {o} : orgs'[q] = orgs[q]
        BY <1>0, <3>1 DEF CreateOrganization, Fresh, ServerTypeOK
      <3> QED
        BY <3>2 DEF OrgsStay, GetOrganization, Absent
    <2>4. CASE SyncMembers
      <3>1. place[k] = "members"
        BY <2>4 DEF SyncMembers, AtOrg
      <3>2. Org.id \in OrgIds /\ OrgSearchStands /\ Org.id \in OrgIds \cup {None}
        BY <1>0, <3>1, OrgFacts DEF OrgSearchStands
      <3>3. orgs' = orgs \/ (GetOrganization(Org.id) /\ SetOrgMembers(Org.id, SyncedMembers(ListOrgMembers(Org.id))))
        BY <2>4 DEF SyncMembers, serverVars
      <3>4. CASE /\ GetOrganization(Org.id)
                 /\ SetOrgMembers(Org.id, SyncedMembers(ListOrgMembers(Org.id)))
        <4>1. orgs[Org.id] \in Organizations /\ orgs[Org.id] \notin Absent
          BY <1>0, <3>2, <3>4 DEF GetOrganization, ServerTypeOK
        <4> DEFINE members == SyncedMembers(ListOrgMembers(Org.id))
        <4>2. members \in Memberships
          BY <4>1, SyncsAreMemberships DEF ListOrgMembers, Organizations
        <4> HIDE DEF members
        <4> DEFINE new == [orgs[Org.id] EXCEPT !.members = members]
        <4>3. orgs' = [orgs EXCEPT ![Org.id] = new]
          BY <3>4 DEF SetOrgMembers, members
        <4>4. new \in Organizations
          BY <4>1, <4>2 DEF Organizations
        <4> HIDE DEF new
        <4> QED
          BY <1>0, <3>2, <4>1, <4>3, <4>4, ValuesAssumption
             DEF OrgsStay, GetOrganization, ServerTypeOK, Absent
      <3> QED
        BY <2>1, <3>3, <3>4
    <2>5. CASE Get(k) \/ AddFinalizer(k) \/ ResolveFails \/ Synced(k)
      BY <2>1, <2>5 DEF Get, AddFinalizer, ResolveFails, Synced, serverVars
    <2> QED
      BY <1>2, <2>2, <2>3, <2>4, <2>5 DEF OrganizationController
  <1>5. /\ obj'["project"] = obj["project"] /\ seen'["project"] = seen["project"]
        /\ held'["project"] = held["project"] /\ place'["project"] = place["project"]
    BY <1>0, OrganizationKeepsEarlier DEF Moves
  <1> QED
    BY <1>3, <1>4, <1>5, CalmAside

\* The cache learns of a later version of the project's object.
LEMMA CalmWatch ==
    ASSUME Calm, ReadyStays, Watch("project"), UNCHANGED serverVars,
           UNCHANGED <<held, place, client, secrets, secretsSeen, lags>>
    PROVE  Rest'
  <1> DEFINE k == "project"
  <1>0. /\ IInv /\ CopiesAreEarlier /\ k \in Kinds /\ PassHasKey /\ NoSecretBefore
        /\ ProjectStands
    BY CalmParts DEF Kinds
  <1>1. obj' = obj /\ seen'[k] = obj[k]
    BY <1>0, EarlierWatch DEF Watch
  <1>2. CredentialsStand'
    BY CredentialsFollow, ServerStays
  <1>3. PassHasKey' /\ NoSecretBefore'
    BY <1>0, <1>1 DEF PassHasKey, NoSecretBefore, Unclaimed
  <1>4. projects' = projects
    BY DEF serverVars
  <1>5. seen[k] \notin Absent /\ seen[k].deleting /\ obj[k] \notin Absent => obj[k].deleting
    <2>1. EarlierOK(k, obj[k], seen[k], held[k], place[k])
      BY <1>0, KindFacts
    <2> QED
      BY <2>1 DEF EarlierOK, Follows, Absent
  <1>6. obj[k] \notin Absent => ProjectCopyStands(obj[k])
    <2>1. SUFFICES ASSUME obj[k] \notin Absent, ~obj[k].deleting
                   PROVE  \A p \in ProjectIds : projects[p] # Gone
      BY <1>0 DEF ProjectStands, ProjectCopyStands
    <2>2. CASE seen[k] \notin Absent
      BY <1>0, <1>5, <2>1, <2>2 DEF ProjectStands, ProjectCopyStands
    <2>3. CASE seen[k] = Unused
      BY <1>0, <2>3 DEF ProjectStands
    <2>4. seen[k] # Gone
      BY <1>0, <2>1, KindFacts, ObjectsExist DEF KindOK
    <2> QED
      BY <2>2, <2>3, <2>4 DEF Absent
  <1>7. ProjectStands'
    <2>1. obj'[k] \notin Absent /\ obj'[k].id # None =>
             projects'[obj'[k].id] # Unused /\ seen'["organization"].ready
      BY <1>0, <1>1, <1>4 DEF ProjectStands, ReadyStays
    <2>2. seen'[k] \notin Absent => ProjectCopyStands(seen[k])'
      BY <1>1, <1>4, <1>6 DEF ProjectCopyStands, ReadyStays
    <2>3. held'[k] # None => ProjectCopyStands(Project)'
      BY <1>0, <1>4 DEF ProjectStands, ProjectCopyStands, ReadyStays, Project
    <2>4. seen'[k] = Unused => \A p \in ProjectIds : projects'[p] # Gone
      <3>1. obj[k] = Unused => seen[k] = Unused
        BY <1>0, KindFacts, ValuesAssumption DEF KindOK, EarlierOK, Follows, Absent
      <3> QED
        BY <1>0, <1>1, <1>4, <3>1 DEF ProjectStands
    <2> QED
      BY <2>1, <2>2, <2>3, <2>4 DEF ProjectStands
  <1>8. Forgotten => Forgotten'
    BY <1>1, ForgottenRests
  <1>9. KeptKeys' = KeptKeys /\ ProjectKeys' = ProjectKeys /\ (Misled' => Misled)
    BY <1>1, KeptKeysCases, KeptKeysNext, ServerStays DEF Misled
  <1>10. OrphansAreCounted'
    BY <1>8, <1>9, KeptStay, CountIsKept
  <1> QED
    BY <1>2, <1>3, <1>7, <1>10, ServerStays DEF Rest

\* The user asks for the deletion of the project; without a finalizer it goes at once, and
\* there is no Secret of it.
LEMMA CalmDelete ==
    ASSUME Calm, ReadyStays, Delete("project"), UNCHANGED serverVars,
           UNCHANGED <<seen, held, place, client, secrets, secretsSeen, lags>>
    PROVE  Rest'
  <1> DEFINE k == "project"
  <1>0. /\ IInv /\ CopiesAreEarlier /\ k \in Kinds /\ PassHasKey /\ NoSecretBefore
        /\ ProjectStands
    BY CalmParts DEF Kinds
  <1>1. /\ obj[k] \notin Absent /\ ~obj[k].deleting
        /\ \/ obj'[k] = Gone /\ ~obj[k].finalizer
           \/ /\ obj'[k] \notin Absent /\ obj'[k].deleting /\ obj'[k].id = obj[k].id
              /\ obj'[k].finalizer /\ obj[k].finalizer
    BY <1>0, EarlierDelete DEF Wants
  <1>2. CredentialsStand'
    BY CredentialsFollow, ServerStays
  <1>3. PassHasKey' /\ NoSecretBefore'
    BY <1>0, <1>1, ValuesAssumption DEF PassHasKey, NoSecretBefore, Unclaimed, Absent
  <1>4. ProjectStands'
    BY <1>1, ObjectsExist, ProjectStandsRests, ServerStays
  <1>5. ~Forgotten
    BY <1>1 DEF Forgotten, Nameless, Absent
  <1>6. CASE obj'[k] = Gone /\ ~obj[k].finalizer
    <2>1. place[k] = "idle" /\ obj[k] # Gone
      BY <1>1, <1>6, CalmPass DEF Absent
    <2>2. secrets["apikey"] = None
      BY <1>0, <1>1, <1>6 DEF NoSecretBefore, Unclaimed, Absent
    <2>3. KeptKeys = {None}
      BY <2>1, <2>2, KeptKeysCases
    <2>4. ProjectKeys \subseteq Orphans
      BY <2>3, ValuesAssumption DEF Orphans, ProjectKeys
    <2>5. Orphans' \subseteq ProjectKeys /\ ~Misled'
      BY <1>6, ServerStays DEF Orphans, Misled
    <2>6. CountKept
      BY <2>4, <2>5 DEF CountKept
    <2> QED
      BY <1>2, <1>3, <1>4, <1>5, <2>6, ServerStays, CountIsKept DEF Rest
  <1>7. CASE obj'[k] \notin Absent
    <2>1. KeptKeys' = KeptKeys /\ ProjectKeys' = ProjectKeys /\ (Misled' => Misled)
      BY <1>1, <1>7, KeptKeysCases, KeptKeysNext, ServerStays DEF Misled, Absent
    <2>2. CountKept
      BY <2>1, KeptStay
    <2> QED
      BY <1>2, <1>3, <1>4, <1>5, <2>2, ServerStays, CountIsKept DEF Rest
  <1> QED
    BY <1>1, <1>6, <1>7

\* The user creates the project's object: nothing was made for it yet.
LEMMA CalmCreate ==
    ASSUME Calm, ReadyStays, Create, UNCHANGED serverVars,
           UNCHANGED <<seen, held, place, client, secrets, secretsSeen, lags>>
    PROVE  Rest'
  <1> DEFINE k == "project"
  <1>0. /\ IInv /\ CopiesAreEarlier /\ k \in Kinds /\ PassHasKey /\ NoSecretBefore
        /\ ProjectStands
    BY CalmParts DEF Kinds
  <1>1. /\ obj[k] = Unused /\ obj'[k] = NewObject /\ seen[k] \in Absent /\ held[k] = None
        /\ obj'[k] \notin Absent /\ obj'[k].id = None
    BY <1>0, EarlierCreate, NewObjectFacts, ObjectsExist
  <1>2. CredentialsStand'
    BY CredentialsFollow, ServerStays
  <1>3. PassHasKey' /\ NoSecretBefore'
    BY <1>0, <1>1 DEF PassHasKey, NoSecretBefore, Unclaimed
  <1>4. ProjectStands'
    BY <1>0, <1>1 DEF ProjectStands, serverVars
  <1>5. ~Forgotten
    BY <1>1, ValuesAssumption DEF Forgotten
  <1>6. KeptKeys' = KeptKeys /\ ProjectKeys' = ProjectKeys /\ (Misled' => Misled)
    BY <1>1, ValuesAssumption, KeptKeysCases, KeptKeysNext, ServerStays DEF Misled, Absent
  <1>7. CountKept
    BY <1>6, KeptStay
  <1> QED
    BY <1>2, <1>3, <1>4, <1>5, <1>7, ServerStays, CountIsKept DEF Rest

\* The Secret of a project whose object is gone is collected.
LEMMA CalmCollect ==
    ASSUME Calm, ReadyStays, UNCHANGED serverVars, obj["project"] = Gone,
           UNCHANGED <<obj, seen, held, place, client, secretsSeen, lags>>,
           secrets' = [secrets EXCEPT !["apikey"] = None]
    PROVE  Rest'
  <1>0. PassHasKey /\ SecretsOK
    BY CalmParts
  <1>1. secrets'["orgkey"] = secrets["orgkey"] /\ secrets'["apikey"] = None
    BY <1>0 DEF SecretsOK
  <1>2. CredentialsStand'
    BY <1>1, CredentialsFollow, ServerStays
  <1>3. PassHasKey' /\ NoSecretBefore'
    BY <1>0, ValuesAssumption DEF PassHasKey, NoSecretBefore, Unclaimed
  <1>4. ProjectStands'
    BY ObjectsExist, ProjectStandsRests, ServerStays
  <1>5. Forgotten => Forgotten'
    BY ForgottenRests
  <1>6. KeptKeys = {} /\ ~Misled'
    BY KeptKeysCases DEF Misled
  <1>7. OrphansAreCounted'
    BY <1>5, <1>6, ServerStays, KeptStay, CountIsKept
  <1> QED
    BY <1>2, <1>3, <1>4, <1>7, ServerStays DEF Rest

LEMMA CalmOthers ==
    ASSUME Calm, ReadyStays, ~Fault, Wants("organization")', [Next]_vars,
           ~OrganizationController, ~ProjectController
    PROVE  Rest'
  <1>0. /\ UNCHANGED serverVars /\ UNCHANGED <<held, place, client, lags>>
        /\ \/ UNCHANGED <<obj, seen, secrets, secretsSeen>>
           \/ UNCHANGED <<secrets, secretsSeen>> /\ \E k \in Kinds : Watch(k)
           \/ UNCHANGED <<secrets, secretsSeen>> /\ (Delete("project") \/ Create)
           \/ UNCHANGED <<obj, seen, secrets>> /\ secretsSeen' = secrets
           \/ /\ UNCHANGED <<obj, seen, secretsSeen>> /\ obj["project"] = Gone
              /\ secrets' = [secrets EXCEPT !["apikey"] = None]
    BY CalmEnvironment
  <1>1. OrgsStay /\ UNCHANGED <<projects, keys>>
    BY <1>0, ServerStays DEF CalmEffect, serverVars
  <1>2. CASE UNCHANGED <<obj, seen, secrets>> /\ secretsSeen' \in {secretsSeen, secrets}
    BY <1>0, <1>1, <1>2, CalmAside
  <1>3. CASE UNCHANGED <<secrets, secretsSeen>> /\ Watch("project")
    BY <1>0, <1>3, CalmWatch
  <1>4. CASE UNCHANGED <<secrets, secretsSeen>> /\ Watch("organization")
    <2>1. /\ IInv /\ CopiesAreEarlier /\ "organization" \in Kinds
          /\ "project" \in Kinds \ {"organization"}
      BY CalmParts DEF Kinds
    <2>2. obj'["project"] = obj["project"] /\ seen'["project"] = seen["project"]
      BY <1>4, <2>1, EarlierWatch DEF Moves
    <2> QED
      BY <1>0, <1>1, <1>4, <2>2, CalmAside
  <1>5. CASE UNCHANGED <<secrets, secretsSeen>> /\ Delete("project")
    <2>1. seen' = seen
      BY <1>5 DEF Delete
    <2> QED
      BY <1>0, <1>5, <2>1, CalmDelete
  <1>7. CASE UNCHANGED <<secrets, secretsSeen>> /\ Create
    <2>1. seen' = seen
      BY <1>7 DEF Create
    <2> QED
      BY <1>0, <1>7, <2>1, CalmCreate
  <1>6. CASE /\ UNCHANGED <<obj, seen, secretsSeen>> /\ obj["project"] = Gone
             /\ secrets' = [secrets EXCEPT !["apikey"] = None]
    BY <1>0, <1>6, CalmCollect
  <1> QED
    BY <1>0, <1>2, <1>3, <1>4, <1>5, <1>6, <1>7 DEF Kinds

LEMMA InitStands == Init => RevocationInv
  <1> SUFFICES ASSUME Init PROVE RevocationInv
    OBVIOUS
  <1> DEFINE new == NewObject
  <1>1. /\ new.id = None /\ ~new.deleting /\ ~new.finalizer /\ ~new.ready /\ new \notin Absent
    BY NewObjectFacts, ObjectsExist
  <1> HIDE DEF new
  <1>2. /\ obj["organization"] = new /\ seen["organization"] = new
        /\ obj["project"] = Unused /\ seen["project"] = Unused
        /\ \A k \in Kinds : held[k] = None /\ place[k] = "idle"
        /\ client.auth = None /\ lags = 0
        /\ \A name \in {"orgkey", "apikey"} : secrets[name] = None /\ secretsSeen[name] = None
        /\ up
    <2>1. /\ obj = [k \in Kinds |-> IF k = "organization" THEN new ELSE Unused] /\ seen = obj
          /\ held = [k \in Kinds |-> None] /\ place = [k \in Kinds |-> "idle"]
          /\ secrets = [name \in {"orgkey", "apikey"} |-> None] /\ secretsSeen = secrets
          /\ client = [auth |-> None, minted |-> None] /\ up /\ lags = 0
      BY DEF Init, NoClient, new
    <2> QED
      BY <2>1 DEF Kinds
  <1>3. /\ \A o \in OrgIds : orgs[o] = Unused
        /\ \A p \in ProjectIds : projects[p] = Unused
        /\ \A key \in KeyIds : keys[key] = Unused
    BY DEF Init, ServerInit
  <1>4. "organization" \in Kinds /\ "project" \in Kinds
    BY DEF Kinds
  <1>6. CopiesAreEarlier
    BY <1>1, <1>2 DEF CopiesAreEarlier, Follows, Kinds, Absent
  <1>7. OrganizationStands
    BY <1>1, <1>2, <1>3, <1>4 DEF OrganizationStands, OrgCopyStands, GetOrganization, Absent
  <1>8. \A scope \in Scopes : scope # Unused
    BY ValuesAssumption
  <1>9. /\ \A key \in KeyIds, p \in ProjectIds : keys[key] # <<"project", p>>
        /\ \A key \in KeyIds, o \in OrgIds : keys[key] # <<"organization", o>>
    BY <1>3, <1>8 DEF Scopes
  <1>10. BelongingsStand
    BY <1>3, <1>9 DEF BelongingsStand, Absent
  <1>11. CredentialsStand
    BY <1>2 DEF CredentialsStand
  <1>12. PassHasKey /\ NoSecretBefore
    BY <1>2, <1>4 DEF PassHasKey, NoSecretBefore
  <1>13. ProjectStands
    BY <1>2, <1>3, <1>4, ValuesAssumption DEF ProjectStands, Absent
  <1>14. OrphansAreCounted
    <2>1. Orphans = {} /\ ~Misled
      BY <1>2, <1>4, <1>9 DEF Orphans, ProjectKeys, Misled
    <2>2. Cardinality(Orphans) = 0
      BY <2>1, FS_EmptySet
    <2> QED
      BY <1>2, <2>1, <2>2 DEF OrphansAreCounted
  <1> QED
    BY <1>6, <1>7, <1>10, <1>11, <1>12, <1>13, <1>14 DEF RevocationInv, Standing

LEMMA NextKeepsRevocationInv == IInv /\ RevocationInv /\ [Next]_vars => RevocationInv'
  <1> SUFFICES ASSUME IInv, RevocationInv, [Next]_vars PROVE RevocationInv'
    OBVIOUS
  <1>0. CopiesAreEarlier
    BY DEF RevocationInv
  <1>1. CopiesAreEarlier'
    BY <1>0, EarlierIsKept
  <1>2. ASSUME Undisturbed'
        PROVE  Standing'
    <2>1. Undisturbed /\ ~Fault
      BY <1>0, <1>2, UndisturbedBefore
    <2>2. Calm
      BY <1>0, <2>1 DEF RevocationInv, Calm
    <2>3. Wants("organization")'
      BY <1>2 DEF Undisturbed
    <2>4. OrganizationStands' /\ ReadyStays
      BY <2>1, <2>2, <2>3, OrganizationIsStanding DEF ReadyStays
    <2>5. Rest'
      BY <2>1, <2>2, <2>3, <2>4, CalmOrganizationController, CalmProjectController, CalmOthers
    <2> QED
      BY <2>4, <2>5 DEF Rest, Standing
  <1> QED
    BY <1>1, <1>2 DEF RevocationInv

\* revokeAPIKeys, under every interleaving of the two controllers, the watches and the users,
\* and for every number of projects and keys: while no call fails, a deletion of a project
\* whose organization stays leaves at most one key for each pass that began before the cache
\* knew the project's Secret, and none if there was no such pass.  The deletion revokes
\* nothing but the key that the cached Secret holds, so this rests on a count of the others.
THEOREM DeletionRevokesTheKey == Spec => []CleanUpRevokesKeys
  <1>1. ASSUME IInv, RevocationInv
        PROVE  CleanUpRevokesKeys
    <2> DEFINE S == ListAPIKeys(Project.id)
    <2>1. SUFFICES ASSUME Undisturbed, place["project"] \in {"secret", "release"},
                          Project.id # None
                   PROVE  Cardinality(S) <= lags
      BY DEF CleanUpRevokesKeys
    <2>2. Calm
      BY <1>1, <2>1 DEF Calm, RevocationInv
    <2>3. ~Forgotten /\ Project.id \in ProjectIds
      BY <2>1, <2>2, CalmPass
    <2>4. KeptKeys = {} /\ ~Misled
      BY <2>1, KeptKeysCases DEF Misled
    <2>5. Cardinality(Orphans) <= lags /\ Cardinality(Orphans) \in Nat /\ lags \in Nat
      <3>1. OrphansAreCounted /\ lags \in Nat
        BY <2>2, CalmParts DEF BoundsOK
      <3>2. Cardinality(Orphans) \in Nat
        BY KeyCounts DEF Orphans, ProjectKeys
      <3> QED
        BY <2>3, <2>4, <3>1, <3>2 DEF OrphansAreCounted
    <2>6. S \subseteq Orphans /\ S \in SUBSET KeyIds /\ Orphans \in SUBSET KeyIds
      BY <2>3, <2>4 DEF ListAPIKeys, Orphans, ProjectKeys
    <2> HIDE DEF S
    <2>7. Cardinality(S) <= Cardinality(Orphans) /\ Cardinality(S) \in Nat
      BY <2>6, KeyCounts
    <2> QED
      BY <2>5, <2>7
  <1> QED
    BY <1>1, InitStands, InvariantHolds, NextKeepsRevocationInv, PTL DEF Spec
=============================================================================
