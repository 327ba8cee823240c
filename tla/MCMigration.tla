---------------------------- MODULE MCMigration ----------------------------
(* Small instances of Migration for TLC.                                   *)
EXTENDS Migration

Tag(version) == [v |-> FALSE, version |-> version]

Secret(secret, key) == [name |-> secret, keys |-> [url |-> key]]

TargetOn(postgres, database) ==
    [c \in Components |->
        CASE c = "postgres-ref"       -> postgres
          [] c = "clickhouse-ref"     -> Plain("managed")
          [] c = "clickhouse-cluster" -> Plain("false")
          [] c = "clickhouse-db"      -> Plain(database)]

Home == TargetOn(Secret("secret/pg", "url"), "default")
Away == TargetOn(Secret("secret/pg", "other"), "default")

Sound(tag, target) ==
    [tag |-> tag, target |-> target, runOnDeploy |-> TRUE, missingKeys |-> FALSE,
     valid |-> TRUE]

Base     == Sound(Tag("1"), Home)
Upgrade  == Sound(Tag("2"), Home)
Respell  == Sound([v |-> TRUE, version |-> "1"], Home)
Move     == Sound(Tag("1"), Away)
OtherDb  == Sound(Tag("1"), TargetOn(Secret("secret/pg", "url"), "analytics"))
Off      == [Base EXCEPT !.runOnDeploy = FALSE]
KeysGone == [Upgrade EXCEPT !.missingKeys = TRUE]
Broken   == [Upgrade EXCEPT !.valid = FALSE]

New(spec) ==
    [gen |-> 0, spec |-> spec, deleting |-> FALSE, applied |-> NoIdentity,
     migrationVersion |-> NoVersion, migrationsComplete |-> "", targetChanged |-> FALSE,
     phase |-> "", version |-> NoWorkload.tag]

\* Migrated by an operator that recorded the version only.
Legacy(spec) ==
    [New(spec) EXCEPT !.migrationVersion = "1", !.migrationsComplete = "MigrationSucceeded"]

\* Migrated by an operator that did not record endpoint keys yet.
Keyless(spec) ==
    [Legacy(spec) EXCEPT !.applied =
        [version |-> "1", parts |-> [Home EXCEPT !["postgres-ref"] = Plain("secret/pg")]]]

\* Migrated and rolled out by this operator.
Settled(spec) ==
    [Legacy(spec) EXCEPT !.applied = MigrationIdentityOf(spec), !.phase = "Other",
                         !.version = spec.tag]

NewObjects == {New(Base)}
OldObjects == {Legacy(Base), Legacy(Off), Keyless(Base)}
SettledObjects == {Settled(Base)}

TwoVersions == {Base, Upgrade}
Edits       == {Base, Upgrade, Move}
LegacySpecs == {Base, Upgrade, Off, Move, OtherDb, Respell, KeysGone, Broken}
=============================================================================
