------------------------- MODULE MigrationIdentity -------------------------
(***************************************************************************)
(* What a migration ran against, and when that covers what the spec now    *)
(* asks for (internal/controller/migration_controller.go).                 *)
(*                                                                         *)
(* The code renders an identity as one string; here it is the version and  *)
(* the components the string carries.  A recorded identity may predate a   *)
(* component, so its parts are a partial function.  A component's value is *)
(* an object name with the endpoint keys selected inside that object; the  *)
(* clustering mode and the database name are values without keys.          *)
(***************************************************************************)
EXTENDS Naturals

RefComponents == {"postgres-ref", "clickhouse-ref"}
LegacyComponents == {"clickhouse-cluster", "clickhouse-db"}
Components == RefComponents \cup LegacyComponents

NoKeys == [k \in {} |-> ""]
Plain(value) == [name |-> value, keys |-> NoKeys]

\* The empty string of the code: never migrated, or nothing recorded.
NoVersion == ""
NoIdentity == [version |-> NoVersion, parts |-> [c \in {} |-> Plain("")]]

\* A tag is the version with or without the "v" in front of it.
NormalizeVersion(tag) == tag.version

\* The identity of a spec carries every component.
MigrationIdentityOf(spec) ==
    [version |-> NormalizeVersion(spec.tag), parts |-> spec.target]

\* Mutation: a key that is not on record counts as changed.
RefsEqual(was, want) == was = want

RefsAgree(was, want) ==
    /\ was.name = want.name
    /\ \A k \in DOMAIN was.keys :
          k \in DOMAIN want.keys /\ was.keys[k] = want.keys[k]

\* The components that the recording carries and the desired target contradicts.
Disagreements(applied, desired) ==
    {c \in DOMAIN applied.parts : ~RefsAgree(applied.parts[c], desired.parts[c])}

MigrationUpToDate(applied, desired) ==
    /\ applied # NoIdentity
    /\ applied.version = desired.version
    /\ Disagreements(applied, desired) = {}

\* Mutation: the datastore references are not compared.
RetargetedWithoutRefs(applied, desired) ==
    IF applied = NoIdentity THEN {} ELSE Disagreements(applied, desired) \ RefComponents

RetargetedComponents(applied, desired) ==
    IF applied = NoIdentity THEN {} ELSE Disagreements(applied, desired)

\* What an operator from before appliedIdentity is known to have migrated: the
\* version, unclustered, in the default database.
LegacyIdentity(version) ==
    [version |-> version,
     parts   |-> [c \in LegacyComponents |->
                     IF c = "clickhouse-cluster" THEN Plain("false") ELSE Plain("default")]]

AppliedMigrationIdentity(status) ==
    CASE status.applied # NoIdentity -> status.applied
      [] status.applied = NoIdentity /\ status.migrationVersion # NoVersion ->
            LegacyIdentity(status.migrationVersion)
      [] OTHER -> NoIdentity

\* Mutation: the baseline is recorded whatever the spec has come to ask for.
BaselineUnchecked(status, desired) ==
    status.applied = NoIdentity /\ status.migrationVersion # NoVersion

\* Mutation: the baseline waits until migrations are enabled.
BaselineIfEnabled(status, desired) ==
    /\ status.spec.runOnDeploy
    /\ status.applied = NoIdentity
    /\ status.migrationVersion # NoVersion
    /\ MigrationUpToDate(LegacyIdentity(status.migrationVersion), desired)

\* Whether the desired identity is to be recorded, once, for an instance that
\* has only a version on record.
HasLegacyBaseline(status, desired) ==
    /\ status.applied = NoIdentity
    /\ status.migrationVersion # NoVersion
    /\ MigrationUpToDate(LegacyIdentity(status.migrationVersion), desired)
=============================================================================
