---------------------------- MODULE IdentityText ----------------------------
(***************************************************************************)
(* The migration identity as the string that the operator stores in        *)
(* status.migration.appliedIdentity and on the Job, written by             *)
(* buildMigrationIdentity and taken apart again by identityComponent,      *)
(* identityDatabase and splitRef.  It shows that the two-part records of   *)
(* MigrationIdentity are what the strings carry.                           *)
(*                                                                         *)
(* A text is a sequence of symbols.  A separator or a component's key      *)
(* ("postgres-ref=") is one symbol; everything else is a letter.           *)
(***************************************************************************)
EXTENDS MigrationIdentity, Sequences, FiniteSets, FiniteSetsExt

CONSTANTS
    Alphabet,     \* the letters that names, versions and keys are spelled with
    Specs         \* the part of a spec that an identity covers

VARIABLES
    was,          \* the spec that was migrated
    format,       \* what the release that recorded its identity kept track of
    spec          \* the spec now

vars == <<was, format, spec>>

-----------------------------------------------------------------------------
(* strings.Cut, strings.Split and strings.Index on texts                   *)

\* The positions of a symbol, and the end of the part that begins at a position.
Positions(text, symbol) == {i \in 1..Len(text) : text[i] = symbol}
PartEnd(text, symbol, from) ==
    Min({i \in Positions(text, symbol) : i >= from} \cup {Len(text) + 1}) - 1
PartStarts(text, symbol) == {1} \cup {i + 1 : i \in Positions(text, symbol)}
Part(text, symbol, from) == SubSeq(text, from, PartEnd(text, symbol, from))

Before(text, symbol) == Part(text, symbol, 1)
After(text, symbol) == SubSeq(text, PartEnd(text, symbol, 1) + 2, Len(text))

-----------------------------------------------------------------------------
(* Writing                                                                 *)

Bar == "|"
Comma == ","
Key(c) ==
    CASE c = "postgres-ref"       -> "postgres-ref="
      [] c = "clickhouse-ref"     -> "clickhouse-ref="
      [] c = "clickhouse-cluster" -> "clickhouse-cluster="
      [] c = "clickhouse-db"      -> "clickhouse-db="

\* An empty key selects the default one.
URLKey(ref, default) == IF ref.url = <<>> THEN default ELSE ref.url

\* postgresRefName and clickHouseRefName; the kind is which of the alternatives of
\* spec.database or spec.clickhouse is set.
RefName(ref, default, second) ==
    CASE ref.kind = "none"     -> <<>>
      [] ref.kind = "managed"  -> <<"managed">>
      [] ref.kind = "cluster"  -> <<"cnpg/">> \o ref.name
      [] ref.kind = "external" ->
            <<"secret/">> \o ref.name \o <<"#", "url", "=">> \o URLKey(ref, default)
               \o <<Comma, second, "=">> \o ref.second

PostgresRefName(s) == RefName(s.postgres, <<"database_url">>, "directUrl")
ClickHouseRefName(s) == RefName(s.clickhouse, <<"url">>, "migrationUrl")

Letters(version) == IF version.v THEN <<"v">> \o version.text ELSE version.text
TrimPrefix(text) == IF text # <<>> /\ text[1] = "v" THEN Tail(text) ELSE text

\* Mutation: the database does not come last.
DatabaseFirst(s) ==
    TrimPrefix(Letters(s.version))
        \o <<Bar, Key("clickhouse-db")>> \o s.database
        \o <<Bar, Key("postgres-ref")>> \o PostgresRefName(s)
        \o <<Bar, Key("clickhouse-ref")>> \o ClickHouseRefName(s)
        \o <<Bar, Key("clickhouse-cluster"), s.clustered>>

BuildMigrationIdentity(s) ==
    TrimPrefix(Letters(s.version))
        \o <<Bar, Key("postgres-ref")>> \o PostgresRefName(s)
        \o <<Bar, Key("clickhouse-ref")>> \o ClickHouseRefName(s)
        \o <<Bar, Key("clickhouse-cluster"), s.clustered>>
        \o <<Bar, Key("clickhouse-db")>> \o s.database

-----------------------------------------------------------------------------
(* Reading                                                                 *)

IdentityVersion(text) == Before(text, Bar)

\* The values of a component's part: the first one counts, and none is a record
\* from before the component existed.
PartsWith(text, key) ==
    {i \in PartStarts(text, Bar) : i <= Len(text) /\ text[i] = key}

IdentityComponent(text, key) ==
    Part(text, Bar, Min(PartsWith(text, key)) + 1)

\* The database runs to the end of the text.
IdentityDatabase(text) ==
    SubSeq(text, Min(PartsWith(text, Key("clickhouse-db"))) + 1, Len(text))

SplitRef(ref) ==
    IF Positions(ref, "#") = {}
    THEN [name |-> ref, keys |-> NoKeys]
    ELSE LET mappings == After(ref, "#")
             Starts == PartStarts(mappings, Comma)
             Mapping(i) == Part(mappings, Comma, i)
             Named(k) == {i \in Starts : Before(Mapping(i), "=") = k}
         IN  [name |-> Before(ref, "#"),
              keys |-> [k \in {Before(Mapping(i), "=") : i \in Starts} |->
                           After(Mapping(Max(Named(k))), "=")]]

\* What retargetedComponents and migrationUpToDate compare.
Parsed(text) ==
    [version |-> IdentityVersion(text),
     parts   |-> [c \in {c \in Components : PartsWith(text, Key(c)) # {}} |->
                     CASE c \in RefComponents ->
                            SplitRef(IdentityComponent(text, Key(c)))
                       [] c = "clickhouse-cluster" ->
                            Plain(IdentityComponent(text, Key(c)))
                       [] c = "clickhouse-db" -> Plain(IdentityDatabase(text))]]

-----------------------------------------------------------------------------
(* What a spec may spell                                                   *)

\* The name of an object, the key of a Secret and an image tag have no separator and no
\* component's key in them; the database may have any, which is why it "goes last".
Separators == {Bar, "#", Comma, "="} \cup {Key(c) : c \in Components}
Words ==
    {"managed", "cnpg/", "secret/", "url", "database_url", "directUrl", "migrationUrl", "v"}
Symbols == Separators \cup Words \cup Alphabet

Word(text) == text \in Seq(Symbols \ Separators)

Reference(ref) ==
    /\ ref.kind \in {"none", "managed", "cluster", "external"}
    /\ Word(ref.name) /\ Word(ref.url) /\ Word(ref.second)

\* The text of a version is what follows the "v", if there is one.
Version(version) ==
    /\ Word(version.text) /\ version.v \in BOOLEAN
    /\ version.text # <<>> /\ ~version.v => version.text[1] # "v"

ASSUME SpecsAssumption ==
    \A s \in Specs :
        /\ Version(s.version) /\ Reference(s.postgres) /\ Reference(s.clickhouse)
        /\ s.clustered \in Symbols \ Separators /\ s.database \in Seq(Symbols)

-----------------------------------------------------------------------------
(* Records of earlier releases                                             *)

Formats == {"current", "url", "names", "noRefs", "database"}

\* The components and endpoint keys that a release kept track of.
Tracked ==
    CASE format = "noRefs"   -> LegacyComponents
      [] format = "database" -> {"clickhouse-db"}
      [] OTHER               -> Components

TrackedKeys(second) ==
    CASE format = "current" -> {<<"url">>, <<second>>}
      [] format = "url"     -> {<<"url">>}
      [] OTHER              -> {}

\* The text that the release wrote for was: the current one without the rest.
Cut(ref) ==
    CASE Positions(ref, "#") = {} \/ format = "current" -> ref
      [] Positions(ref, "#") # {} /\ format = "url" ->
            Before(ref, "#") \o <<"#">> \o Before(After(ref, "#"), Comma)
      [] OTHER -> Before(ref, "#")

Recorded ==
    IdentityVersion(BuildMigrationIdentity(was))
        \o (IF "postgres-ref" \in Tracked
            THEN <<Bar, Key("postgres-ref")>> \o Cut(PostgresRefName(was))
              \o <<Bar, Key("clickhouse-ref")>> \o Cut(ClickHouseRefName(was))
            ELSE <<>>)
        \o (IF "clickhouse-cluster" \in Tracked
            THEN <<Bar, Key("clickhouse-cluster"), was.clustered>> ELSE <<>>)
        \o <<Bar, Key("clickhouse-db")>> \o was.database

Desired == BuildMigrationIdentity(spec)

\* No database of an earlier release spells a component that it did not track.
Init ==
    /\ was \in Specs
    /\ format \in Formats
    /\ \A c \in Components \ Tracked : Positions(was.database, Key(c)) = {}
    /\ spec = was

Edit ==
    /\ spec = was
    /\ spec' \in Specs \ {spec}
    /\ UNCHANGED <<was, format>>

Next == Edit

Spec == Init /\ [][Next]_vars

-----------------------------------------------------------------------------

\* What a reference denotes: an object and the endpoint keys inside it.
Endpoint(ref, default, second) ==
    CASE ref.kind = "none"     -> Plain(<<>>)
      [] ref.kind = "managed"  -> Plain(<<"managed">>)
      [] ref.kind = "cluster"  -> Plain(<<"cnpg/">> \o ref.name)
      [] ref.kind = "external" ->
            [name |-> <<"secret/">> \o ref.name,
             keys |-> [k \in {<<"url">>, <<second>>} |->
                          IF k = <<"url">> THEN URLKey(ref, default) ELSE ref.second]]

Target(s) ==
    [c \in Components |->
        CASE c = "postgres-ref"   -> Endpoint(s.postgres, <<"database_url">>, "directUrl")
          [] c = "clickhouse-ref" -> Endpoint(s.clickhouse, <<"url">>, "migrationUrl")
          [] c = "clickhouse-cluster" -> Plain(<<s.clustered>>)
          [] c = "clickhouse-db"  -> Plain(s.database)]

\* The string on record parses back into the target it was written for, a database
\* name with separators, or with the spelling of a key, included ("The database goes
\* last because a ClickHouse database name may contain the separator").
RoundTrips ==
    Parsed(Desired) = [version |-> spec.version.text, parts |-> Target(spec)]

\* A component reads as changed exactly when it was on record and the spec now
\* names another object or endpoint key: a release that tracked less, a default key
\* spelled out and a "v" in front of the version never look like a move, and no move
\* of what was tracked goes unseen (migrationUpToDate, retargetedComponents).
RetargetIsAMove ==
    LET Moved(c) ==
            LET old == Target(was)[c]
                new == Target(spec)[c]
            IN  \/ old.name # new.name
                \/ \E k \in DOMAIN old.keys \cap DOMAIN new.keys :
                      old.keys[k] # new.keys[k]
                        /\ k \in TrackedKeys("directUrl") \cup TrackedKeys("migrationUrl")
        moved == {c \in Tracked : Moved(c)}
    IN  /\ RetargetedComponents(Parsed(Recorded), Parsed(Desired)) = moved
        /\ MigrationUpToDate(Parsed(Recorded), Parsed(Desired)) <=>
              moved = {} /\ was.version.text = spec.version.text
=============================================================================
