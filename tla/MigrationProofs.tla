-------------------------- MODULE MigrationProofs --------------------------
(***************************************************************************)
(* Proofs about Migration, for every set of specs, every object that the   *)
(* operator may find and every bound: what the record says was migrated    *)
(* and stays, one migration pod at a time, no roll onto a target that came *)
(* after a migration, no version published that was not rolled out.        *)
(***************************************************************************)
EXTENDS Migration, FiniteSetTheorems, TLAPS

-----------------------------------------------------------------------------
(* Identities                                                              *)

\* A recorded identity covers itself: re-reading one's own record never looks
\* like a change (migrationUpToDate, refsAgree).
LEMMA UpToDateReflexive ==
    ASSUME NEW x, x # NoIdentity
    PROVE  MigrationUpToDate(x, x)
  BY DEF MigrationUpToDate, Disagreements, RefsAgree

\* An identity that covers the spec is no retarget: the two checks that
\* Reconcile makes one after the other never contradict each other.
LEMMA UpToDateIsNotRetargeted ==
    ASSUME NEW applied, NEW desired, MigrationUpToDate(applied, desired)
    PROVE  RetargetedComponents(applied, desired) = {}
  BY DEF MigrationUpToDate, RetargetedComponents

\* The identity of a spec is never the empty one.
LEMMA DesiredIsIdentity ==
    ASSUME NEW spec \in Specs
    PROVE  /\ MigrationIdentityOf(spec) \in Recordable
           /\ MigrationIdentityOf(spec) # NoIdentity
           /\ DOMAIN MigrationIdentityOf(spec).parts = Components
  <1>1. DOMAIN spec.target = Components
    BY SpecsAssumption
  <1>2. DOMAIN NoIdentity.parts = {}
    BY DEF NoIdentity
  <1>3. "postgres-ref" \in Components
    BY DEF Components, RefComponents
  <1>4. MigrationIdentityOf(spec).parts = spec.target
    BY DEF MigrationIdentityOf
  <1> QED
    BY <1>1, <1>2, <1>3, <1>4 DEF Recordable

LEMMA LegacyIsIdentity ==
    ASSUME NEW version
    PROVE  LegacyIdentity(version) # NoIdentity
  <1>1. DOMAIN LegacyIdentity(version).parts = LegacyComponents
    BY DEF LegacyIdentity
  <1>2. DOMAIN NoIdentity.parts = {}
    BY DEF NoIdentity
  <1> QED
    BY <1>1, <1>2 DEF LegacyComponents

-----------------------------------------------------------------------------
(* Objects and status writes                                               *)

\* The status that each path of the two controllers computes is an object again.
LEMMA ComputedObjects ==
    ASSUME NEW i \in Objects
    PROVE  /\ i.spec \in Specs
           /\ i.applied \in Recorded
           /\ [i EXCEPT !.applied = Desired(i)] \in Objects
           /\ \A m \in {"MigrationStarted", "MigrationFailed", i.migrationsComplete} :
                 [i EXCEPT !.migrationsComplete = m] \in Objects
           /\ [i EXCEPT !.migrationsComplete = "MigrationSucceeded",
                        !.migrationVersion = NormalizeVersion(i.spec.tag),
                        !.applied = Desired(i)] \in Objects
           /\ \A b \in BOOLEAN, w \in BOOLEAN :
                 Observed([i EXCEPT !.targetChanged = b], w) \in Objects
           /\ [i EXCEPT !.targetChanged = FALSE,
                        !.phase = IF i.phase = "" THEN "Other" ELSE i.phase] \in Objects
  <1>1. i.spec \in Specs /\ i.spec.tag \in Tags
    BY DEF Objects, Tags
  <1>2. Desired(i) \in Recorded
    BY <1>1, DesiredIsIdentity DEF Desired, Recorded
  <1>3. NormalizeVersion(i.spec.tag) \in Versions
    BY <1>1 DEF Versions
  <1>4. \A b \in BOOLEAN : DerivePhase([i EXCEPT !.targetChanged = b])
                              \in {"", "Other", "Migrating", "Error"}
    BY DEF DerivePhase
  <1>5. ASSUME NEW b \in BOOLEAN, NEW w \in BOOLEAN
        PROVE  Observed([i EXCEPT !.targetChanged = b], w) \in Objects
    <2> DEFINE j == [i EXCEPT !.targetChanged = b]
    <2>1. j \in Objects /\ j.spec = i.spec /\ j.version = i.version
      BY DEF Objects
    <2>2. DerivePhase(j) \in {"", "Other", "Migrating", "Error"}
      BY <1>4
    <2>3. (IF w THEN j.spec.tag ELSE j.version) \in Tags \cup {NoWorkload.tag}
      BY <1>1, <2>1 DEF Objects
    <2> HIDE DEF j
    <2>4. Observed(j, w) \in Objects
      BY <2>1, <2>2, <2>3 DEF Observed, Objects
    <2> QED
      BY <2>4 DEF j
  <1>6. [i EXCEPT !.applied = Desired(i)] \in Objects
    BY <1>2 DEF Objects
  <1>7. ASSUME NEW m \in {"MigrationStarted", "MigrationFailed", i.migrationsComplete}
        PROVE  [i EXCEPT !.migrationsComplete = m] \in Objects
    BY DEF Objects
  <1>8. [i EXCEPT !.migrationsComplete = "MigrationSucceeded",
                  !.migrationVersion = NormalizeVersion(i.spec.tag),
                  !.applied = Desired(i)] \in Objects
    BY <1>2, <1>3 DEF Objects
  <1>9. [i EXCEPT !.targetChanged = FALSE,
                  !.phase = IF i.phase = "" THEN "Other" ELSE i.phase] \in Objects
    BY DEF Objects
  <1>10. i.applied \in Recorded
    BY DEF Objects
  <1> QED
    BY <1>1, <1>5, <1>6, <1>7, <1>8, <1>9, <1>10

\* What a status write leaves behind: either it landed, and then the copy it was
\* computed from was the object itself, or the object is as before.  In both cases
\* no controller is left with a copy that counts as current by mistake.
LEMMA StatusWrite ==
    ASSUME TypeOK, StoreIsCoherent,
           NEW h \in Holders, NEW new \in Objects, NEW outcome,
           UpdateInstanceStatus(h, new, outcome)
    PROVE  /\ cr' \in Objects
           /\ faults' \in 0..MaxFaults
           /\ fresh' \subseteq fresh
           /\ h # "cache" => h \notin fresh'
           /\ \/ cr' = new /\ copy[h] = cr /\ fresh' = {}
              \/ cr' = cr
  BY MaxFaultsAssumption
     DEF UpdateInstanceStatus, NoWrite, Fault, TypeOK, StoreTypeOK, StoreIsCoherent,
         FreshMeansEqual

Places == {"idle", "read", "create", "worker", "status"}

\* What IInv says of the object, apart from its type.
Credited(i) ==
    /\ i.applied # NoIdentity => \E m \in migrated : MigrationUpToDate(m, i.applied)
    /\ (i.applied = NoIdentity /\ i.migrationVersion # NoVersion) =>
          LegacyIdentity(i.migrationVersion) \in migrated
    /\ ~i.deleting => i.gen <= MaxEdits

\* A status write that is credited keeps the invariant, when the step treats the
\* other copies as every step does.
LEMMA StatusStep ==
    ASSUME IInv,
           NEW h \in {"cache", "instance"}, NEW new \in Objects, NEW outcome,
           UpdateInstanceStatus(h, new, outcome),
           copy[h] = cr => Credited(new),
           queue' \subseteq Controllers,
           pc' \in [Controllers -> Places],
           copy' \in [Holders -> Objects \cup {NoCopy}],
           copy'["cache"] = copy["cache"],
           \A k \in fresh' : copy'[k] = copy[k],
           \A c \in Controllers : (pc'[c] = "idle") <=> (copy'[c] = NoCopy),
           UNCHANGED <<jobVars, workVars>>
    PROVE  IInv'
  <1>1. h \in Holders
    BY ControllersAre DEF Holders
  <1>2. /\ cr' \in Objects
        /\ faults' \in 0..MaxFaults
        /\ fresh' \subseteq fresh
        /\ \/ cr' = new /\ copy[h] = cr /\ fresh' = {}
           \/ cr' = cr
    BY <1>1, StatusWrite DEF IInv
  <1>3. UNCHANGED <<job, jobCache, orphans, podFailures, migrated, workload>>
    BY DEF jobVars, workVars
  <1>4. TypeOK'
    BY <1>2, <1>3 DEF IInv, TypeOK, StoreTypeOK, Places
  <1>5. Credited(cr) /\ (cr' # cr => Credited(new))
    BY <1>2 DEF IInv, RecordedWasMigrated, SuccessWasMigrated, StoreIsCoherent, Credited
  <1>6. Credited(cr')
    BY <1>2, <1>5
  <1>7. Credited(cr)'
    BY <1>3, <1>6 DEF Credited
  <1>8. StoreIsCoherent'
    BY <1>2, <1>7 DEF IInv, StoreIsCoherent, FreshMeansEqual, Credited
  <1>9. JobIsCoherent'
    BY <1>3 DEF IInv, JobIsCoherent
  <1>10. SuccessWasMigrated' /\ RecordedWasMigrated'
    BY <1>3, <1>7 DEF IInv, SuccessWasMigrated, RecordedWasMigrated, Credited
  <1> QED
    BY <1>4, <1>8, <1>9, <1>10 DEF IInv

\* The premises of StatusStep for the ways in which a pass goes on or returns.
LEMMA FinishPremises ==
    ASSUME IInv, NEW requeue, Finish("migration", requeue)
    PROVE  /\ queue' \subseteq Controllers
           /\ pc' \in [Controllers -> Places]
           /\ copy' \in [Holders -> Objects \cup {NoCopy}]
           /\ copy' = copy
           /\ \A c \in Controllers : (pc'[c] = "idle") <=> (copy'[c] = NoCopy)
  BY DEF Finish, IInv, TypeOK, StoreTypeOK, StoreIsCoherent, FreshMeansEqual, Places

LEMMA ReturnPremises ==
    ASSUME IInv, NEW c \in Controllers, NEW requeue, Return(c, requeue)
    PROVE  /\ queue' \subseteq Controllers
           /\ pc' \in [Controllers -> Places]
           /\ copy' \in [Holders -> Objects \cup {NoCopy}]
           /\ copy'["cache"] = copy["cache"]
           /\ \A k \in Holders \ {c} : copy'[k] = copy[k]
           /\ \A d \in Controllers : (pc'[d] = "idle") <=> (copy'[d] = NoCopy)
  BY ControllersAssumption
     DEF Return, IInv, TypeOK, StoreTypeOK, StoreIsCoherent, FreshMeansEqual, Places, Holders

LEMMA StartPremises ==
    ASSUME IInv, NEW c \in Controllers, NEW place \in Places \ {"idle"}, Start(c, place)
    PROVE  /\ queue' \subseteq Controllers
           /\ pc' \in [Controllers -> Places]
           /\ copy' \in [Holders -> Objects \cup {NoCopy}]
           /\ copy'["cache"] = copy["cache"]
           /\ copy'[c] = copy["cache"]
           /\ \A k \in Holders \ {c} : copy'[k] = copy[k]
           /\ \A d \in Controllers : (pc'[d] = "idle") <=> (copy'[d] = NoCopy)
  BY ControllersAssumption
     DEF Start, IInv, TypeOK, StoreTypeOK, StoreIsCoherent, FreshMeansEqual, Places, Holders

\* The copies that the controllers work on are objects.
LEMMA CopiesAreObjects ==
    ASSUME IInv
    PROVE  /\ copy["cache"] \in Objects
           /\ \A c \in Controllers : pc[c] # "idle" => copy[c] \in Objects
  BY DEF IInv, TypeOK, StoreTypeOK, StoreIsCoherent, FreshMeansEqual, Holders

-----------------------------------------------------------------------------
(* IInv is inductive                                                       *)

\* The operator may start on any object that the assumption allows, among them
\* the ones that an operator from before appliedIdentity migrated.
LEMMA InitIInv == Init => IInv
  <1> SUFFICES ASSUME Init PROVE IInv
    OBVIOUS
  <1>1. cr \in FirstObjects /\ cr \in Objects /\ cr.gen = 0
    BY FirstObjectsAssumption DEF Init, StoreInit, StoreStarts
  <1>2. Config(cr.spec) \in Configs
    BY <1>1 DEF Config, Configs, Tags, Targets, Objects
  <1>3. workload \in [Deployments -> Configs]
    BY <1>2 DEF Init, Configs
  <1>4. job \in Jobs /\ jobCache \in Jobs
    BY BoundsAssumption DEF Init, NoJob, Jobs
  <1>5. StoreTypeOK(Objects, Places)
    BY <1>1, MaxFaultsAssumption DEF Init, StoreInit, StoreStarts, StoreTypeOK, Places, Holders
  <1>6. TypeOK
    BY <1>3, <1>4, <1>5, BoundsAssumption DEF Init, TypeOK, Places
  <1>7. StoreIsCoherent
    BY <1>1, ControllersAssumption, ControllersAre, NoCopyAssumption, BoundsAssumption
       DEF Init, StoreInit, StoreStarts, StoreIsCoherent, FreshMeansEqual, Holders
  <1>8. JobIsCoherent
    BY BoundsAssumption DEF Init, JobIsCoherent, NoJob
  <1>9. cr.applied # NoIdentity => cr.applied \in migrated
    BY DEF Init, Applied, AppliedMigrationIdentity
  <1>10. RecordedWasMigrated
    BY <1>9, UpToDateReflexive DEF RecordedWasMigrated
  <1>11. (cr.applied = NoIdentity /\ cr.migrationVersion # NoVersion) =>
            LegacyIdentity(cr.migrationVersion) \in migrated
    BY LegacyIsIdentity DEF Init, Applied, AppliedMigrationIdentity
  <1>12. SuccessWasMigrated
    BY <1>11 DEF Init, SuccessWasMigrated, NoJob
  <1> QED
    BY <1>6, <1>7, <1>8, <1>10, <1>12 DEF IInv

\* A status that leaves the record, the spec and the deletion alone is credited
\* when the object it was computed from is.
LEMMA CreditedAgain ==
    ASSUME IInv, NEW i, i = cr, NEW new,
           new.applied = i.applied, new.migrationVersion = i.migrationVersion,
           new.deleting = i.deleting, new.gen = i.gen
    PROVE  Credited(new)
  BY DEF IInv, Credited, RecordedWasMigrated, SuccessWasMigrated, StoreIsCoherent

\* The migration controller's writes of the record: each is backed by a migration.
LEMMA RecordBaselineKeepsIInv == IInv /\ RecordBaseline => IInv'
  <1> SUFFICES ASSUME IInv, RecordBaseline PROVE IInv'
    OBVIOUS
  <1> DEFINE new == [Mine EXCEPT !.applied = Desired(Mine)]
  <1>1. Mine \in Objects /\ new \in Objects
    BY CopiesAreObjects, ComputedObjects DEF Mine
  <1>2. Desired(Mine) # NoIdentity
    BY <1>1, ComputedObjects, DesiredIsIdentity DEF Desired
  <1>3. HasLegacyBaseline(Mine, Desired(Mine))
    BY DEF RecordBaseline, PassesGate, Gate
  <1>4. ASSUME Mine = cr PROVE Credited(new)
    <2>1. LegacyIdentity(cr.migrationVersion) \in migrated
      BY <1>3, <1>4 DEF HasLegacyBaseline, IInv, SuccessWasMigrated
    <2>2. MigrationUpToDate(LegacyIdentity(cr.migrationVersion), Desired(Mine))
      BY <1>3, <1>4 DEF HasLegacyBaseline
    <2>3. new.applied = Desired(Mine) /\ new.deleting = cr.deleting /\ new.gen = cr.gen
      BY <1>1, <1>4 DEF Objects
    <2> QED
      BY <1>2, <2>1, <2>2, <2>3 DEF Credited, IInv, StoreIsCoherent
  <1>5. PICK outcome : /\ UpdateInstanceStatus("cache", new, outcome)
                       /\ Finish("migration", outcome # "ok")
    BY DEF RecordBaseline
  <1>6. UNCHANGED <<jobVars, workVars>>
    BY DEF RecordBaseline
  <1> HIDE DEF new
  <1> QED
    BY <1>1, <1>4, <1>5, <1>6, FinishPremises, StatusStep DEF Mine

LEMMA RecordSuccessKeepsIInv == IInv /\ RecordSuccess => IInv'
  <1> SUFFICES ASSUME IInv, RecordSuccess PROVE IInv'
    OBVIOUS
  <1> DEFINE new == [Mine EXCEPT !.migrationsComplete = "MigrationSucceeded",
                                 !.migrationVersion = NormalizeVersion(Mine.spec.tag),
                                 !.applied = Desired(Mine)]
  <1>1. Mine \in Objects /\ new \in Objects
    BY CopiesAreObjects, ComputedObjects DEF Mine
  <1>2. Desired(Mine) # NoIdentity
    BY <1>1, ComputedObjects, DesiredIsIdentity DEF Desired
  <1>3. Desired(Mine) \in migrated
    BY DEF RecordSuccess, SeesOwnJob, IInv, SuccessWasMigrated
  <1>4. ASSUME Mine = cr PROVE Credited(new)
    <2>1. new.applied = Desired(Mine) /\ new.deleting = cr.deleting /\ new.gen = cr.gen
      BY <1>1, <1>4 DEF Objects
    <2>2. MigrationUpToDate(Desired(Mine), Desired(Mine))
      BY <1>2, UpToDateReflexive
    <2> QED
      BY <1>2, <1>3, <2>1, <2>2 DEF Credited, IInv, StoreIsCoherent
  <1>5. PICK outcome : /\ UpdateInstanceStatus("cache", new, outcome)
                       /\ Finish("migration", RequeueIf(outcome))
    BY DEF RecordSuccess
  <1>6. UNCHANGED <<jobVars, workVars>>
    BY DEF RecordSuccess
  <1> HIDE DEF new
  <1> QED
    BY <1>1, <1>4, <1>5, <1>6, FinishPremises, StatusStep DEF Mine

\* The other writes of the two controllers report, and record nothing.
LEMMA ReportKeepsIInv ==
    ASSUME IInv,
           NEW c \in {"MigrationStarted", "MigrationFailed", Mine.migrationsComplete},
           NEW outcome,
           UpdateInstanceStatus("cache", [Mine EXCEPT !.migrationsComplete = c], outcome),
           queue' \subseteq Controllers,
           pc' \in [Controllers -> Places],
           copy' \in [Holders -> Objects \cup {NoCopy}],
           \A k \in Holders \ {"migration"} : copy'[k] = copy[k],
           \A d \in Controllers : (pc'[d] = "idle") <=> (copy'[d] = NoCopy),
           UNCHANGED <<jobVars, workVars>>
    PROVE  IInv'
  <1> DEFINE new == [Mine EXCEPT !.migrationsComplete = c]
  <1>1. Mine \in Objects /\ new \in Objects
    BY CopiesAreObjects, ComputedObjects DEF Mine
  <1>2. ASSUME Mine = cr PROVE Credited(new)
    <2>1. /\ new.applied = Mine.applied /\ new.migrationVersion = Mine.migrationVersion
          /\ new.deleting = Mine.deleting /\ new.gen = Mine.gen
      BY <1>1 DEF Objects
    <2> QED
      BY <1>2, <2>1, CreditedAgain
  <1>3. UpdateInstanceStatus("cache", new, outcome)
    OBVIOUS
  <1> HIDE DEF new
  <1>4. "cache" \in Holders /\ fresh' \subseteq fresh
    BY <1>1, <1>3, StatusWrite DEF Holders, IInv
  <1>5. "cache" # "migration" /\ \A k \in fresh' : copy'[k] = copy[k]
    BY <1>4 DEF IInv, TypeOK, StoreTypeOK, StoreIsCoherent
  <1>6. copy'["cache"] = copy["cache"]
    BY <1>4, <1>5
  <1> QED
    BY <1>1, <1>2, <1>3, <1>5, <1>6, StatusStep DEF Mine

LEMMA MigrationReportsKeepIInv ==
    IInv /\ (RefuseMigration \/ ReportFailure \/ PollJob \/ AnnounceMigration) => IInv'
  <1> SUFFICES ASSUME IInv, RefuseMigration \/ ReportFailure \/ PollJob \/ AnnounceMigration
               PROVE  IInv'
    OBVIOUS
  <1>1. CASE RefuseMigration
    <2>1. PICK outcome :
             /\ UpdateInstanceStatus("cache",
                   [Mine EXCEPT !.migrationsComplete = "MigrationFailed"], outcome)
             /\ Finish("migration", RequeueIf(outcome))
      BY <1>1 DEF RefuseMigration
    <2>2. UNCHANGED <<jobVars, workVars>>
      BY <1>1 DEF RefuseMigration
    <2> QED
      BY <2>1, <2>2, FinishPremises, ReportKeepsIInv
  <1>2. CASE ReportFailure
    <2>1. PICK outcome :
             /\ UpdateInstanceStatus("cache",
                   [Mine EXCEPT !.migrationsComplete = "MigrationFailed"], outcome)
             /\ Finish("migration", RequeueIf(outcome))
      BY <1>2 DEF ReportFailure
    <2>2. UNCHANGED <<jobVars, workVars>>
      BY <1>2 DEF ReportFailure
    <2> QED
      BY <2>1, <2>2, FinishPremises, ReportKeepsIInv
  <1>3. CASE PollJob
    <2>1. PICK c \in {Mine.migrationsComplete, "MigrationStarted"} : \E outcome :
             UpdateInstanceStatus("cache", [Mine EXCEPT !.migrationsComplete = c], outcome)
      BY <1>3 DEF PollJob
    <2>2. Finish("migration", TRUE) /\ UNCHANGED <<jobVars, workVars>>
      BY <1>3 DEF PollJob
    <2> QED
      BY <2>1, <2>2, FinishPremises, ReportKeepsIInv
  <1>4. CASE AnnounceMigration
    <2>1. PICK outcome :
             UpdateInstanceStatus("cache",
                   [Mine EXCEPT !.migrationsComplete = "MigrationStarted"], outcome)
      BY <1>4 DEF AnnounceMigration
    <2>2. Start("migration", "create") /\ UNCHANGED <<jobVars, workVars>>
      BY <1>4 DEF AnnounceMigration
    <2>3. "migration" \in Controllers /\ "create" \in Places \ {"idle"}
      BY ControllersAre DEF Places
    <2> QED
      BY <2>1, <2>2, <2>3, StartPremises, ReportKeepsIInv
  <1> QED
    BY <1>1, <1>2, <1>3, <1>4

\* updateStatus keeps its hands off what the migration controller records.
LEMMA ObservedKeepsRecord ==
    ASSUME NEW i \in Objects, NEW b \in BOOLEAN, NEW w \in BOOLEAN,
           NEW new, new = Observed([i EXCEPT !.targetChanged = b], w)
    PROVE  /\ new.applied = i.applied /\ new.migrationVersion = i.migrationVersion
           /\ new.deleting = i.deleting /\ new.gen = i.gen
  <1> DEFINE j == [i EXCEPT !.targetChanged = b]
  <1>1. /\ j \in Objects
        /\ j.applied = i.applied /\ j.migrationVersion = i.migrationVersion
        /\ j.deleting = i.deleting /\ j.gen = i.gen
    BY DEF Objects
  <1>2. new = Observed(j, w)
    OBVIOUS
  <1> HIDE DEF j
  <1> QED
    BY <1>1, <1>2 DEF Observed, Objects

LEMMA InstanceReportsKeepIInv ==
    IInv /\ (Freeze \/ InstanceConfigError \/ UpdateStatus) => IInv'
  <1> SUFFICES ASSUME IInv, Freeze \/ InstanceConfigError \/ UpdateStatus
               PROVE  IInv'
    OBVIOUS
  <1> DEFINE frozen == Observed([Ours EXCEPT !.targetChanged = TRUE], FALSE)
             misfit == [Ours EXCEPT !.targetChanged = FALSE,
                                    !.phase = IF Ours.phase = "" THEN "Other" ELSE Ours.phase]
             rolled == Observed([Ours EXCEPT !.targetChanged = FALSE], TRUE)
  <1>1. "instance" \in Controllers /\ "instance" \in Holders
    BY ControllersAre DEF Holders
  <1>2. Ours \in Objects
    BY <1>1, CopiesAreObjects
       DEF Freeze, InstanceConfigError, UpdateStatus, Unfrozen, InstanceAt, Ours
  <1>3. PICK new \in {frozen, misfit, rolled} : \E outcome, requeue :
           /\ UpdateInstanceStatus("instance", new, outcome)
           /\ Return("instance", requeue)
    BY DEF Freeze, InstanceConfigError, UpdateStatus
  <1>4. PICK outcome, requeue :
           /\ UpdateInstanceStatus("instance", new, outcome)
           /\ Return("instance", requeue)
    BY <1>3
  <1>5. UNCHANGED <<jobVars, workVars>>
    BY DEF Freeze, InstanceConfigError, UpdateStatus
  <1>6. /\ new \in Objects
        /\ new.applied = Ours.applied /\ new.migrationVersion = Ours.migrationVersion
        /\ new.deleting = Ours.deleting /\ new.gen = Ours.gen
    <2>1. frozen \in Objects /\ misfit \in Objects /\ rolled \in Objects
      BY <1>2, ComputedObjects
    <2>2. CASE new = frozen
      BY <1>2, <2>1, <2>2, ObservedKeepsRecord
    <2>3. CASE new = misfit
      BY <1>2, <2>1, <2>3 DEF Objects
    <2>4. CASE new = rolled
      BY <1>2, <2>1, <2>4, ObservedKeepsRecord
    <2> QED
      BY <2>2, <2>3, <2>4
  <1> HIDE DEF frozen, misfit, rolled
  <1>7. Ours = cr => Credited(new)
    BY <1>6, CreditedAgain
  <1>8. fresh' \subseteq Holders \ {"instance"}
    BY <1>1, <1>4, <1>6, StatusWrite, ControllersAssumption
       DEF IInv, TypeOK, StoreTypeOK
  <1> QED
    BY <1>1, <1>4, <1>5, <1>6, <1>7, <1>8, ReturnPremises, StatusStep DEF Ours

\* A step that writes no status keeps the invariant when it keeps the Job
\* coherent and forgets no migration.
LEMMA QuietStep ==
    ASSUME IInv, cr' = cr,
           fresh' \subseteq Holders \ {"migration"},
           \A h \in fresh' : copy'[h] = cr,
           queue' \subseteq Controllers,
           pc' \in [Controllers -> Places],
           copy' \in [Holders -> Objects \cup {NoCopy}],
           copy'["cache"] # NoCopy,
           \A c \in Controllers : (pc'[c] = "idle") <=> (copy'[c] = NoCopy),
           faults' \in 0..MaxFaults,
           job' \in Jobs, jobCache' \in {jobCache, job},
           orphans' \subseteq Recordable,
           workload' \in [Deployments -> Configs],
           podFailures' \in 0..MaxPodFailures,
           migrated \subseteq migrated',
           JobIsCoherent',
           job'.status = "succeeded" => job'.id \in migrated'
    PROVE  IInv'
  <1>1. TypeOK'
    BY DEF IInv, TypeOK, StoreTypeOK, Places
  <1>2. StoreIsCoherent'
    BY DEF IInv, StoreIsCoherent, FreshMeansEqual
  <1>3. SuccessWasMigrated'
    BY DEF IInv, SuccessWasMigrated
  <1>4. RecordedWasMigrated'
    BY DEF IInv, RecordedWasMigrated
  <1> QED
    BY <1>1, <1>2, <1>3, <1>4 DEF IInv

\* What QuietStep needs of the store when a step leaves it alone.
LEMMA QuietStore ==
    ASSUME IInv
    PROVE  /\ fresh \subseteq Holders \ {"migration"}
           /\ \A h \in fresh : copy[h] = cr
           /\ queue \subseteq Controllers
           /\ pc \in [Controllers -> Places]
           /\ copy \in [Holders -> Objects \cup {NoCopy}]
           /\ copy["cache"] # NoCopy
           /\ \A c \in Controllers : (pc[c] = "idle") <=> (copy[c] = NoCopy)
           /\ faults \in 0..MaxFaults
  BY DEF IInv, TypeOK, StoreTypeOK, StoreIsCoherent, FreshMeansEqual, Places

\* The same for the Jobs and Deployments.
LEMMA QuietCluster ==
    ASSUME IInv
    PROVE  /\ job \in Jobs /\ jobCache \in Jobs
           /\ orphans \subseteq Recordable
           /\ workload \in [Deployments -> Configs]
           /\ podFailures \in 0..MaxPodFailures
           /\ JobIsCoherent
           /\ job.status = "succeeded" => job.id \in migrated
  BY DEF IInv, TypeOK, SuccessWasMigrated

LEMMA NoJobIsCoherent ==
    ASSUME job' = NoJob
    PROVE  job' \in Jobs /\ JobIsCoherent' /\ job'.status # "succeeded"
  BY BoundsAssumption DEF NoJob, Jobs, JobIsCoherent

LEMMA FaultIsBounded ==
    ASSUME IInv, Fault
    PROVE  faults' \in 0..MaxFaults
  BY MaxFaultsAssumption DEF Fault, IInv, TypeOK, StoreTypeOK

\* The paths of the migration controller that write no status.
LEMMA MigrationCallsKeepIInv ==
    IInv /\ (SkipMigration \/ MigrationConfigError \/ CleanupCompletedJobs
               \/ CreateJob \/ ReplaceJob) => IInv'
  <1> SUFFICES ASSUME IInv, SkipMigration \/ MigrationConfigError \/ CleanupCompletedJobs
                              \/ CreateJob \/ ReplaceJob
               PROVE  IInv'
    OBVIOUS
  <1> USE QuietStore, QuietCluster
  <1>0. "migration" \in Controllers /\ "migration" # "cache"
    BY ControllersAre
  <1>1. CASE SkipMigration \/ MigrationConfigError
    <2>1. /\ NoWrite("cache") /\ UNCHANGED <<jobVars, workVars>>
          /\ \E requeue \in BOOLEAN : Finish("migration", requeue)
      BY <1>1 DEF SkipMigration, MigrationConfigError
    <2>2. UNCHANGED <<cr, fresh, faults, job, jobCache, orphans, podFailures, migrated, workload>>
      BY <2>1 DEF NoWrite, jobVars, workVars
    <2>3. JobIsCoherent'
      BY <2>2 DEF JobIsCoherent
    <2> QED
      BY <2>1, <2>2, <2>3, FinishPremises, QuietStep
  <1>2. CASE CleanupCompletedJobs
    <2>1. /\ UNCHANGED <<cr, fresh, jobCache, podFailures, migrated, workload>>
          /\ \E requeue \in BOOLEAN : Finish("migration", requeue)
          /\ faults' \in 0..MaxFaults
      BY <1>2, FaultIsBounded DEF CleanupCompletedJobs, workVars
    <2>2. \/ UNCHANGED <<job, orphans>>
          \/ DeleteBackground
      BY <1>2 DEF CleanupCompletedJobs
    <2>3. /\ job' \in Jobs /\ JobIsCoherent'
          /\ job'.status = "succeeded" => job'.id \in migrated'
          /\ orphans' \subseteq Recordable
      <3>1. CASE UNCHANGED <<job, orphans>>
        BY <2>1, <3>1 DEF JobIsCoherent
      <3>2. CASE DeleteBackground
        BY <3>2, NoJobIsCoherent DEF DeleteBackground, JobIsCoherent
      <3> QED
        BY <2>2, <3>1, <3>2
    <2> QED
      BY <2>1, <2>3, FinishPremises, QuietStep
  <1>3. CASE CreateJob
    <2>1. /\ UNCHANGED <<cr, fresh, jobCache, orphans, podFailures, migrated, workload>>
          /\ Return("migration", TRUE)
          /\ faults' \in 0..MaxFaults
      BY <1>3, FaultIsBounded DEF CreateJob, workVars
    <2>2. job' \in {job, NoJob, NewJob(Desired(copy["migration"]))}
      BY <1>3 DEF CreateJob
    <2>3. Desired(copy["migration"]) \in Recordable
      BY <1>0, <1>3, CopiesAreObjects, ComputedObjects, DesiredIsIdentity
         DEF CreateJob, Desired
    <2>4. /\ job' \in Jobs /\ JobIsCoherent'
          /\ job'.status = "succeeded" => job'.id \in migrated'
      <3>1. CASE job' = job
        BY <2>1, <3>1 DEF JobIsCoherent
      <3>2. CASE job' = NoJob
        BY <3>2, NoJobIsCoherent
      <3>3. CASE job' = NewJob(Desired(copy["migration"]))
        BY <2>3, <3>3, BoundsAssumption DEF NewJob, Jobs, JobIsCoherent
      <3> QED
        BY <2>2, <3>1, <3>2, <3>3
    <2> QED
      BY <1>0, <2>1, <2>4, ReturnPremises, QuietStep
  <1>4. CASE ReplaceJob
    <2>1. /\ UNCHANGED <<cr, fresh, jobCache, podFailures, migrated, workload, orphans>>
          /\ Finish("migration", TRUE)
          /\ faults' \in 0..MaxFaults
      BY <1>4, FaultIsBounded DEF ReplaceJob, DeleteForeground, workVars
    <2>2. job' \in {job, NoJob, [job EXCEPT !.terminating = TRUE]}
      BY <1>4 DEF ReplaceJob, DeleteForeground
    <2>3. /\ job' \in Jobs /\ JobIsCoherent'
          /\ job'.status = "succeeded" => job'.id \in migrated'
      <3>1. CASE job' = NoJob
        BY <3>1, NoJobIsCoherent
      <3>2. CASE job' # NoJob
        BY <2>1, <2>2, <3>2 DEF JobIsCoherent, Jobs
      <3> QED
        BY <3>1, <3>2
    <2> QED
      BY <2>1, <2>3, FinishPremises, QuietStep
  <1> QED
    BY <1>1, <1>2, <1>3, <1>4

\* The Jobs and Deployments are left alone, or only the Deployments change.
LEMMA QuietJobs ==
    ASSUME IInv, UNCHANGED jobVars
    PROVE  /\ job' \in Jobs /\ jobCache' = jobCache
           /\ orphans' \subseteq Recordable
           /\ podFailures' \in 0..MaxPodFailures
           /\ migrated' = migrated
           /\ JobIsCoherent'
           /\ job'.status = "succeeded" => job'.id \in migrated'
  BY QuietCluster DEF jobVars, JobIsCoherent

\* Server-side apply writes configurations that some spec has.
LEMMA ApplyKeepsIInv ==
    ASSUME IInv, NEW d \in Deployments, NEW next \in Places \ {"idle"},
           pc["instance"] # "idle", Apply(d, next), UNCHANGED jobVars
    PROVE  IInv'
  <1> DEFINE applied == [workload EXCEPT ![d] = Config(Ours.spec)]
  <1>1. "instance" \in Controllers /\ "instance" # "cache"
    BY ControllersAre
  <1>2. Ours \in Objects
    BY <1>1, CopiesAreObjects DEF Ours
  <1>3. Config(Ours.spec) \in Configs
    BY <1>2, ComputedObjects DEF Config, Configs, Tags, Targets
  <1>4. applied \in [Deployments -> Configs]
    BY <1>3, QuietCluster
  <1>5. workload' \in {workload, applied} /\ cr' = cr
    BY DEF Apply
  <1>6. workload' \in [Deployments -> Configs]
    BY <1>4, <1>5, QuietCluster
  <1>7. CASE UNCHANGED <<cr, copy, fresh, faults>> /\ pc' = [pc EXCEPT !["instance"] = next]
             /\ queue' \subseteq queue \cup {"instance"}
    <2>1. /\ queue' \subseteq Controllers
          /\ pc' \in [Controllers -> Places]
          /\ \A c \in Controllers : (pc'[c] = "idle") <=> (copy'[c] = NoCopy)
      BY <1>1, <1>7, QuietStore
    <2> QED
      BY <1>6, <1>7, <2>1, QuietStore, QuietJobs, QuietStep
  <1>8. CASE Fault /\ fresh' = fresh \ {"instance"} /\ Return("instance", TRUE)
    <2>1. faults' \in 0..MaxFaults
      BY <1>8, FaultIsBounded
    <2> QED
      BY <1>1, <1>5, <1>6, <1>8, <2>1, ReturnPremises, QuietStore, QuietJobs, QuietStep
  <1> QED
    BY <1>7, <1>8 DEF Apply

LEMMA InstanceCallsKeepIInv ==
    IInv /\ (GetInstance \/ SkipInstance \/ ApplyWeb \/ ApplyWorker) => IInv'
  <1> SUFFICES ASSUME IInv, GetInstance \/ SkipInstance \/ ApplyWeb \/ ApplyWorker
               PROVE  IInv'
    OBVIOUS
  <1>0. "instance" \in Controllers /\ "instance" # "cache" /\ "instance" # "migration"
    BY ControllersAre
  <1>1. CASE GetInstance
    <2>1. /\ Start("instance", "read") /\ UNCHANGED <<cr, faults, jobVars, workload>>
          /\ fresh' \subseteq fresh \cup {"instance"}
          /\ "instance" \in fresh' => "instance" \in fresh \/ "cache" \in fresh
      BY <1>1 DEF GetInstance, Get, workVars
    <2>2. pc["instance"] = "idle"
      BY <1>1 DEF GetInstance, Get, Ready
    <2>3. "read" \in Places \ {"idle"}
      BY DEF Places
    <2>4. "instance" \notin fresh
      BY <1>0, <2>2, QuietStore, NoCopyAssumption DEF IInv, TypeOK, StoreTypeOK
    <2>5. \A h \in fresh' : copy'[h] = cr
      BY <1>0, <2>1, <2>3, <2>4, StartPremises, QuietStore
    <2> QED
      BY <1>0, <2>1, <2>3, <2>5, StartPremises, QuietStore, QuietJobs, QuietCluster, QuietStep
         DEF Holders
  <1>2. CASE SkipInstance
    <2>1. /\ Return("instance", FALSE) /\ fresh' = fresh \ {"instance"}
          /\ UNCHANGED <<cr, faults, jobVars, workload>>
      BY <1>0, <1>2 DEF SkipInstance, NoWrite, workVars
    <2> QED
      BY <1>0, <2>1, ReturnPremises, QuietStore, QuietJobs, QuietCluster, QuietStep
  <1>3. CASE ApplyWeb
    BY <1>3, ApplyKeepsIInv DEF ApplyWeb, Unfrozen, InstanceAt, Deployments, Places
  <1>4. CASE ApplyWorker
    BY <1>4, ApplyKeepsIInv DEF ApplyWorker, InstanceAt, Deployments, Places
  <1> QED
    BY <1>1, <1>2, <1>3, <1>4

\* The watches, and a restart of the operator.
LEMMA WatchesKeepIInv ==
    IInv /\ (WatchInstance \/ WatchJob \/ RestartOperator) => IInv'
  <1> SUFFICES ASSUME IInv, WatchInstance \/ WatchJob \/ RestartOperator
               PROVE  IInv'
    OBVIOUS
  <1>0. /\ "cache" \in Holders /\ "cache" \notin Controllers
        /\ cr \in Objects /\ cr # NoCopy /\ {"migration", "instance"} = Controllers
    BY ControllersAssumption, ControllersAre, NoCopyAssumption
       DEF Holders, IInv, TypeOK, StoreTypeOK
  <1>1. CASE WatchInstance
    <2>1. /\ UNCHANGED <<cr, pc, faults, jobVars, workload>>
          /\ copy' = [copy EXCEPT !["cache"] = cr]
          /\ fresh' = fresh \cup {"cache"}
          /\ queue' \subseteq queue \cup {"migration", "instance"}
      BY <1>1 DEF WatchInstance, SyncCache, workVars
    <2>2. /\ copy' \in [Holders -> Objects \cup {NoCopy}]
          /\ copy'["cache"] = cr
          /\ \A c \in Controllers : copy'[c] = copy[c]
          /\ \A h \in fresh' : copy'[h] = cr
      BY <1>0, <2>1, QuietStore DEF Holders
    <2> QED
      BY <1>0, <2>1, <2>2, QuietStore, QuietJobs, QuietCluster, QuietStep
  <1>2. CASE WatchJob
    <2>1. /\ UNCHANGED <<cr, copy, fresh, pc, faults, job, orphans, podFailures, migrated, workload>>
          /\ jobCache' = job
          /\ queue' = queue \cup {"migration"}
      BY <1>2 DEF WatchJob, workVars
    <2>2. JobIsCoherent'
      BY <2>1, QuietCluster DEF JobIsCoherent
    <2> QED
      BY <1>0, <2>1, <2>2, QuietStore, QuietCluster, QuietStep
  <1>3. CASE RestartOperator
    <2>1. /\ UNCHANGED <<cr, job, orphans, podFailures, migrated, workload>>
          /\ jobCache' = job /\ Fault
          /\ pc' = [c \in Controllers |-> "idle"]
          /\ copy' = [h \in Holders |-> IF h = "cache" THEN cr ELSE NoCopy]
          /\ fresh' = {"cache"}
          /\ queue' = Controllers
      BY <1>3 DEF RestartOperator, Restart, workVars
    <2>2. JobIsCoherent'
      BY <2>1, QuietCluster DEF JobIsCoherent
    <2>3. /\ copy' \in [Holders -> Objects \cup {NoCopy}]
          /\ copy'["cache"] = cr
          /\ \A c \in Controllers : copy'[c] = NoCopy
          /\ pc' \in [Controllers -> Places]
      BY <1>0, <2>1 DEF Holders, Places
    <2>4. faults' \in 0..MaxFaults
      BY <2>1, FaultIsBounded
    <2> QED
      BY <1>0, <2>1, <2>2, <2>3, <2>4, QuietCluster, QuietStep
  <1> QED
    BY <1>1, <1>2, <1>3

\* The user and the sibling controllers write the object, and every copy becomes
\* an old one.
LEMMA ExternalWriteKeepsIInv ==
    ASSUME IInv, NEW new \in Objects, ExternalWrite(new),
           new.applied = cr.applied, new.migrationVersion = cr.migrationVersion,
           ~new.deleting => new.gen <= MaxEdits,
           faults' \in 0..MaxFaults, UNCHANGED <<jobVars, workload>>
    PROVE  IInv'
  <1>1. /\ cr' = new /\ fresh' = {}
        /\ UNCHANGED <<copy, queue, pc, job, jobCache, orphans, podFailures, migrated, workload>>
    BY DEF ExternalWrite, jobVars
  <1>2. TypeOK'
    BY <1>1 DEF IInv, TypeOK, StoreTypeOK
  <1>3. StoreIsCoherent'
    BY <1>1 DEF IInv, StoreIsCoherent, FreshMeansEqual
  <1>4. JobIsCoherent'
    BY <1>1 DEF IInv, JobIsCoherent
  <1>5. SuccessWasMigrated'
    BY <1>1 DEF IInv, SuccessWasMigrated
  <1>6. RecordedWasMigrated'
    BY <1>1 DEF IInv, RecordedWasMigrated
  <1> QED
    BY <1>2, <1>3, <1>4, <1>5, <1>6 DEF IInv

LEMMA UserKeepsIInv == IInv /\ (Edit \/ Delete \/ SiblingWrite) => IInv'
  <1> SUFFICES ASSUME IInv, Edit \/ Delete \/ SiblingWrite PROVE IInv'
    OBVIOUS
  <1>0. /\ cr \in Objects /\ cr.gen \in 0..(MaxEdits + 1)
        /\ ~cr.deleting => cr.gen <= MaxEdits
        /\ faults \in 0..MaxFaults
    BY DEF IInv, TypeOK, StoreTypeOK, StoreIsCoherent, Objects
  <1>1. CASE Edit
    <2>1. PICK spec \in Specs : ExternalWrite([cr EXCEPT !.spec = spec, !.gen = @ + 1])
      BY <1>1 DEF Edit
    <2>2. cr.gen < MaxEdits /\ UNCHANGED <<faults, jobVars, workload>>
      BY <1>1 DEF Edit
    <2> DEFINE new == [cr EXCEPT !.spec = spec, !.gen = @ + 1]
    <2>3. cr.gen + 1 \in 0..(MaxEdits + 1) /\ cr.gen + 1 <= MaxEdits
      BY <1>0, <2>2, BoundsAssumption
    <2>4. /\ new \in Objects
          /\ new.applied = cr.applied /\ new.migrationVersion = cr.migrationVersion
          /\ new.gen = cr.gen + 1
      BY <1>0, <2>3 DEF Objects
    <2> QED
      BY <1>0, <2>1, <2>2, <2>3, <2>4, ExternalWriteKeepsIInv
  <1>2. CASE Delete
    <2> DEFINE new == [cr EXCEPT !.deleting = TRUE, !.gen = @ + 1]
    <2>1. ExternalWrite(new) /\ ~cr.deleting /\ UNCHANGED <<faults, jobVars, workload>>
      BY <1>2 DEF Delete, workVars
    <2>2. cr.gen + 1 \in 0..(MaxEdits + 1)
      BY <1>0, <2>1, BoundsAssumption
    <2>3. /\ new \in Objects
          /\ new.applied = cr.applied /\ new.migrationVersion = cr.migrationVersion
          /\ new.deleting
      BY <1>0, <2>2 DEF Objects
    <2> QED
      BY <1>0, <2>1, <2>3, ExternalWriteKeepsIInv
  <1>3. CASE SiblingWrite
    <2>1. ExternalWrite(cr) /\ Fault /\ UNCHANGED <<jobVars, workload>>
      BY <1>3 DEF SiblingWrite, workVars
    <2> QED
      BY <1>0, <2>1, FaultIsBounded, ExternalWriteKeepsIInv
  <1> QED
    BY <1>1, <1>2, <1>3

\* Kubernetes.
LEMMA ClusterKeepsIInv == IInv /\ Cluster => IInv'
  <1> SUFFICES ASSUME IInv, Cluster PROVE IInv'
    OBVIOUS
  <1> USE QuietStore, QuietCluster
  <1>0. /\ job.failed \in 0..(BackoffLimit + 1)
        /\ job.pod => job.failed <= BackoffLimit
    BY DEF Jobs, JobIsCoherent
  <1>1. CASE StartPod
    <2>1. UNCHANGED <<cr, copy, fresh, queue, pc, jobCache, faults, orphans, podFailures,
                      migrated, workload>>
      BY <1>1 DEF StartPod, UnchangedByCluster, workVars
    <2>2. job.status = "running" /\ job' = [job EXCEPT !.pod = TRUE]
      BY <1>1 DEF StartPod
    <2>3. job' \in Jobs /\ job'.status = "running"
          /\ job'.failed = job.failed /\ job'.id = job.id
      BY <2>2 DEF Jobs
    <2>4. job.id \in Recordable
      BY <2>2 DEF JobIsCoherent
    <2>5. JobIsCoherent'
      BY <2>2, <2>3, <2>4 DEF JobIsCoherent
    <2> QED
      BY <2>1, <2>3, <2>5, QuietStep
  <1>2. CASE PodSucceeds
    <2>1. /\ UNCHANGED <<cr, copy, fresh, queue, pc, jobCache, faults, orphans, podFailures,
                         workload>>
          /\ migrated' = migrated \cup {job.id}
      BY <1>2 DEF PodSucceeds, UnchangedByCluster, workVars
    <2>2. job' = [job EXCEPT !.pod = FALSE, !.status = "succeeded"]
      BY <1>2 DEF PodSucceeds
    <2>3. job' \in Jobs /\ job'.status = "succeeded" /\ ~job'.pod /\ job'.id = job.id
      BY <2>2 DEF Jobs
    <2>4. JobIsCoherent'
      BY <2>3 DEF JobIsCoherent
    <2> QED
      BY <2>1, <2>3, <2>4, QuietStep
  <1>3. CASE PodFails
    <2>1. /\ UNCHANGED <<cr, copy, fresh, queue, pc, jobCache, faults, orphans, migrated,
                         workload>>
          /\ podFailures' \in 0..MaxPodFailures
      BY <1>3, BoundsAssumption DEF PodFails, UnchangedByCluster, workVars
    <2>2. /\ job.pod
          /\ job' = [job EXCEPT !.pod = FALSE, !.failed = @ + 1,
                        !.status = IF job.failed >= BackoffLimit THEN "failed" ELSE @]
      BY <1>3 DEF PodFails
    <2>3. job.failed + 1 \in 0..(BackoffLimit + 1)
      BY <1>0, <2>2, BoundsAssumption
    <2>4. job.status = "running" /\ job.id \in Recordable
      BY <2>2 DEF JobIsCoherent
    <2>5. /\ job' \in Jobs /\ ~job'.pod /\ job'.id = job.id /\ job'.failed = job.failed + 1
          /\ job'.status = IF job.failed >= BackoffLimit THEN "failed" ELSE "running"
      BY <2>2, <2>3, <2>4 DEF Jobs
    <2>6. job'.status = "running" => job'.failed <= BackoffLimit
      BY <1>0, <2>5, BoundsAssumption
    <2>7. JobIsCoherent' /\ job'.status # "succeeded"
      BY <2>4, <2>5, <2>6 DEF JobIsCoherent
    <2> QED
      BY <2>1, <2>5, <2>7, QuietStep
  <1>4. CASE FinishDeletion
    <2>1. UNCHANGED <<cr, copy, fresh, queue, pc, jobCache, faults, orphans, podFailures,
                      migrated, workload>>
      BY <1>4 DEF FinishDeletion, UnchangedByCluster, workVars
    <2>2. job' \in Jobs /\ JobIsCoherent'
          /\ (job'.status = "succeeded" => job'.id \in migrated')
      <3>1. CASE job' = NoJob
        BY <3>1, NoJobIsCoherent
      <3>2. CASE job' = [job EXCEPT !.pod = FALSE]
        BY <2>1, <3>2 DEF JobIsCoherent, Jobs
      <3> QED
        BY <1>4, <3>1, <3>2 DEF FinishDeletion
    <2> QED
      BY <2>1, <2>2, QuietStep
  <1>5. CASE OrphanEnds
    <2>1. /\ UNCHANGED <<cr, copy, fresh, queue, pc, jobCache, faults, job, podFailures, workload>>
          /\ orphans' \subseteq orphans /\ migrated \subseteq migrated'
      BY <1>5 DEF OrphanEnds, UnchangedByCluster, workVars
    <2>2. JobIsCoherent'
      BY <2>1 DEF JobIsCoherent
    <2> QED
      BY <2>1, <2>2, QuietStep
  <1>6. CASE ExpireJob
    <2>1. /\ UNCHANGED <<cr, copy, fresh, queue, pc, jobCache, orphans, podFailures, migrated,
                         workload>>
          /\ job' = NoJob /\ faults' \in 0..MaxFaults
      BY <1>6, FaultIsBounded DEF ExpireJob, UnchangedByCluster, workVars
    <2> QED
      BY <2>1, NoJobIsCoherent, QuietStep
  <1>7. CASE CollectJob
    <2>1. /\ UNCHANGED <<cr, copy, fresh, queue, pc, jobCache, faults, podFailures, migrated,
                         workload>>
          /\ DeleteBackground
      BY <1>7 DEF CollectJob, UnchangedByCluster, workVars
    <2>2. job' = NoJob /\ orphans' \subseteq Recordable
      BY <2>1 DEF DeleteBackground, JobIsCoherent
    <2> QED
      BY <2>1, <2>2, NoJobIsCoherent, QuietStep
  <1>8. CASE CollectWorkload
    <2>1. /\ UNCHANGED <<cr, copy, fresh, pc, faults, jobVars>>
          /\ queue' = queue \cup {"instance"}
          /\ workload' \in [Deployments -> Configs]
      BY <1>8 DEF CollectWorkload, Configs
    <2>2. queue' \subseteq Controllers
      BY <2>1, ControllersAre
    <2> QED
      BY <2>1, <2>2, QuietJobs, QuietStep
  <1> QED
    BY <1>1, <1>2, <1>3, <1>4, <1>5, <1>6, <1>7, <1>8 DEF Cluster

LEMMA NextKeepsIInv == IInv /\ [Next]_vars => IInv'
  <1> SUFFICES ASSUME IInv, [Next]_vars PROVE IInv'
    OBVIOUS
  <1>1. CASE MigrationController
    BY <1>1, RecordBaselineKeepsIInv, RecordSuccessKeepsIInv, MigrationReportsKeepIInv,
       MigrationCallsKeepIInv DEF MigrationController
  <1>2. CASE InstanceController
    BY <1>2, InstanceReportsKeepIInv, InstanceCallsKeepIInv DEF InstanceController
  <1>3. CASE Environment
    BY <1>3, WatchesKeepIInv, UserKeepsIInv, ClusterKeepsIInv DEF Environment
  <1>4. CASE UNCHANGED vars
    <2>1. UNCHANGED <<cr, copy, fresh, queue, pc, faults, jobVars, workload>>
      BY <1>4 DEF vars, storeVars, workVars
    <2> QED
      BY <2>1, QuietStore, QuietCluster, QuietJobs, QuietStep
  <1> QED
    BY <1>1, <1>2, <1>3, <1>4 DEF Next

\* IInv holds in every state that the system reaches.
THEOREM Invariance == Spec => []IInv
  BY InitIInv, NextKeepsIInv, PTL DEF Spec

\* Every variable keeps its type: whatever the specs and the objects found at the
\* start, the two controllers write nothing but well-formed objects and Jobs.
THEOREM TypeCorrectness == Spec => []TypeOK
  <1>1. IInv => TypeOK
    BY DEF IInv
  <1> QED
    BY <1>1, Invariance, PTL

\* Whatever stands in status.appliedIdentity was migrated: neither a stale read nor
\* a Job of an earlier spec, a lost write, a conflict or a restart makes the migration
\* controller credit a target with a migration that no Job completed against it.
THEOREM RecordIsTrue == Spec => []RecordedWasMigrated
  <1>1. IInv => RecordedWasMigrated
    BY DEF IInv
  <1> QED
    BY <1>1, Invariance, PTL

-----------------------------------------------------------------------------
(* A recorded target stays                                                 *)

\* What TargetIsPinned says of one step.
Pinned ==
    \A c \in DOMAIN Applied(cr).parts :
        /\ c \in DOMAIN Applied(cr').parts
        /\ RefsAgree(Applied(cr).parts[c], Applied(cr').parts[c])

SameRecord == cr'.applied = cr.applied /\ cr'.migrationVersion = cr.migrationVersion

LEMMA SameRecordIsPinned == SameRecord => Pinned
  BY DEF SameRecord, Pinned, Applied, AppliedMigrationIdentity, RefsAgree

\* No record has components that a spec lacks.
LEMMA AppliedComponents ==
    ASSUME IInv
    PROVE  DOMAIN Applied(cr).parts \subseteq Components
  <1>1. cr.applied \in Recorded
    BY DEF IInv, TypeOK, StoreTypeOK, Objects
  <1>2. DOMAIN cr.applied.parts \subseteq Components
    BY <1>1, DesiredIsIdentity, FirstObjectsAssumption DEF Recorded, Recordable
  <1>3. DOMAIN LegacyIdentity(cr.migrationVersion).parts \subseteq Components
    BY DEF LegacyIdentity, Components
  <1>4. DOMAIN NoIdentity.parts = {}
    BY DEF NoIdentity
  <1> QED
    BY <1>2, <1>3, <1>4 DEF Applied, AppliedMigrationIdentity

\* Recording what the spec asks for keeps every component, if the spec was not
\* retargeted in the very object that the write replaces.
LEMMA RecordingPins ==
    ASSUME IInv, ~Retargeted(cr), cr'.applied = Desired(cr)
    PROVE  Pinned
  <1>1. cr.spec \in Specs
    BY DEF IInv, TypeOK, StoreTypeOK, Objects
  <1>2. Desired(cr) # NoIdentity /\ DOMAIN Desired(cr).parts = Components
    BY <1>1, DesiredIsIdentity DEF Desired
  <1>3. Applied(cr') = Desired(cr)
    BY <1>2 DEF Applied, AppliedMigrationIdentity
  <1>4. CASE Applied(cr) = NoIdentity
    <2>1. DOMAIN Applied(cr).parts = {}
      BY <1>4 DEF NoIdentity
    <2> QED
      BY <2>1 DEF Pinned
  <1>5. CASE Applied(cr) # NoIdentity
    <2>1. Disagreements(Applied(cr), Desired(cr)) = {}
      BY <1>5 DEF Retargeted, RetargetedComponents
    <2> QED
      BY <1>2, <1>3, <2>1, AppliedComponents DEF Disagreements, Pinned
  <1> QED
    BY <1>4, <1>5

\* The status writes of the migration controller: the record stays, or the object that
\* the write replaces asks for what is recorded.
Recording == cr'.applied = Desired(cr) /\ ~Retargeted(cr)

LEMMA MigrationWrites == IInv /\ MigrationController => SameRecord \/ Recording
  <1> SUFFICES ASSUME IInv, MigrationController PROVE SameRecord \/ Recording
    OBVIOUS
  <1>0. "cache" \in Holders /\ Mine \in Objects
    BY CopiesAreObjects DEF Holders, Mine
  <1>1. CASE UNCHANGED cr
    BY <1>1 DEF SameRecord
  <1>2. CASE RecordBaseline
    <2> DEFINE new == [Mine EXCEPT !.applied = Desired(Mine)]
    <2>1. PICK outcome : UpdateInstanceStatus("cache", new, outcome)
      BY <1>2 DEF RecordBaseline
    <2>2. new \in Objects /\ new.applied = Desired(Mine)
      <3>1. Desired(Mine) \in Recorded
        BY <1>0, ComputedObjects, DesiredIsIdentity DEF Desired, Recorded
      <3> QED
        BY <1>0, <3>1 DEF Objects
    <2> HIDE DEF new
    <2>3. cr' = cr \/ (cr' = new /\ Mine = cr)
      BY <1>0, <2>1, <2>2, StatusWrite DEF IInv, Mine
    <2>4. ASSUME Mine = cr PROVE ~Retargeted(cr)
      <3>1. HasLegacyBaseline(cr, Desired(cr))
        BY <1>2, <2>4 DEF RecordBaseline, PassesGate, Gate
      <3>2. MigrationUpToDate(Applied(cr), Desired(cr))
        BY <3>1 DEF HasLegacyBaseline, Applied, AppliedMigrationIdentity
      <3> QED
        BY <3>2, UpToDateIsNotRetargeted DEF Retargeted
    <2> QED
      BY <1>1, <2>2, <2>3, <2>4 DEF Recording
  <1>3. CASE RecordSuccess
    <2> DEFINE new == [Mine EXCEPT !.migrationsComplete = "MigrationSucceeded",
                                   !.migrationVersion = NormalizeVersion(Mine.spec.tag),
                                   !.applied = Desired(Mine)]
    <2>1. PICK outcome : UpdateInstanceStatus("cache", new, outcome)
      BY <1>3 DEF RecordSuccess
    <2>2. new \in Objects /\ new.applied = Desired(Mine)
      <3>1. new \in Objects
        BY <1>0, ComputedObjects
      <3> QED
        BY <1>0, <3>1 DEF Objects
    <2> HIDE DEF new
    <2>3. cr' = cr \/ (cr' = new /\ Mine = cr)
      BY <1>0, <2>1, <2>2, StatusWrite DEF IInv, Mine
    <2>4. ASSUME Mine = cr PROVE ~Retargeted(cr)
      BY <1>3, <2>4 DEF RecordSuccess, SeesOwnJob, SeesJob, PassesGate, Gate
    <2> QED
      BY <1>1, <2>2, <2>3, <2>4 DEF Recording
  <1>4. CASE RefuseMigration \/ ReportFailure \/ PollJob \/ AnnounceMigration
    <2>1. PICK c \in {"MigrationStarted", "MigrationFailed", Mine.migrationsComplete} :
             \E outcome :
                UpdateInstanceStatus("cache", [Mine EXCEPT !.migrationsComplete = c], outcome)
      BY <1>4 DEF RefuseMigration, ReportFailure, PollJob, AnnounceMigration
    <2> DEFINE new == [Mine EXCEPT !.migrationsComplete = c]
    <2>2. /\ new \in Objects
          /\ new.applied = Mine.applied /\ new.migrationVersion = Mine.migrationVersion
      <3>1. new \in Objects
        BY <1>0, ComputedObjects
      <3> QED
        BY <1>0, <3>1 DEF Objects
    <2> HIDE DEF new
    <2>3. cr' = cr \/ (cr' = new /\ Mine = cr)
      <3>1. PICK outcome : UpdateInstanceStatus("cache", new, outcome)
        BY <2>1 DEF new
      <3> QED
        BY <1>0, <2>2, <3>1, StatusWrite DEF IInv, Mine
    <2> QED
      BY <2>2, <2>3 DEF SameRecord
  <1>5. CASE SkipMigration \/ MigrationConfigError \/ CleanupCompletedJobs \/ CreateJob
               \/ ReplaceJob
    BY <1>1, <1>5 DEF SkipMigration, MigrationConfigError, NoWrite, CleanupCompletedJobs,
                      CreateJob, ReplaceJob
  <1> QED
    BY <1>2, <1>3, <1>4, <1>5 DEF MigrationController

LEMMA MigrationWritesPin == IInv /\ MigrationController => Pinned
  BY MigrationWrites, SameRecordIsPinned, RecordingPins DEF Recording

\* The instance controller, the user and Kubernetes leave the record alone.
LEMMA OthersKeepRecord == IInv /\ (InstanceController \/ Environment) => SameRecord
  <1> SUFFICES ASSUME IInv, InstanceController \/ Environment PROVE SameRecord
    OBVIOUS
  <1>1. CASE Freeze \/ InstanceConfigError \/ UpdateStatus
    <2> DEFINE frozen == Observed([Ours EXCEPT !.targetChanged = TRUE], FALSE)
               misfit == [Ours EXCEPT !.targetChanged = FALSE,
                                      !.phase = IF Ours.phase = "" THEN "Other" ELSE Ours.phase]
               rolled == Observed([Ours EXCEPT !.targetChanged = FALSE], TRUE)
    <2>1. "instance" \in Controllers /\ "instance" \in Holders
      BY ControllersAre DEF Holders
    <2>2. Ours \in Objects
      BY <1>1, <2>1, CopiesAreObjects
         DEF Freeze, InstanceConfigError, UpdateStatus, Unfrozen, InstanceAt, Ours
    <2>3. PICK new \in {frozen, misfit, rolled} :
             \E outcome : UpdateInstanceStatus("instance", new, outcome)
      BY <1>1 DEF Freeze, InstanceConfigError, UpdateStatus
    <2>4. PICK outcome : UpdateInstanceStatus("instance", new, outcome)
      BY <2>3
    <2>5. frozen \in Objects /\ misfit \in Objects /\ rolled \in Objects
      BY <2>2, ComputedObjects
    <2>6. new.applied = Ours.applied /\ new.migrationVersion = Ours.migrationVersion
      <3>1. CASE new = frozen \/ new = rolled
        BY <2>2, <3>1, ObservedKeepsRecord
      <3>2. CASE new = misfit
        BY <2>2, <3>2 DEF Objects
      <3> QED
        BY <2>4, <3>1, <3>2
    <2> HIDE DEF frozen, misfit, rolled
    <2>7. cr' = cr \/ (cr' = new /\ Ours = cr)
      BY <2>1, <2>4, <2>5, StatusWrite DEF IInv, Ours
    <2> QED
      BY <2>6, <2>7 DEF SameRecord
  <1>2. CASE Edit \/ Delete \/ SiblingWrite
    <2>1. cr \in Objects
      BY DEF IInv, TypeOK, StoreTypeOK
    <2>2. \/ \E spec \in Specs : cr' = [cr EXCEPT !.spec = spec, !.gen = @ + 1]
          \/ cr' = [cr EXCEPT !.deleting = TRUE, !.gen = @ + 1]
          \/ cr' = cr
      BY <1>2 DEF Edit, Delete, SiblingWrite, ExternalWrite
    <2> QED
      BY <2>1, <2>2 DEF SameRecord, Objects
  <1>3. CASE UNCHANGED cr
    BY <1>3 DEF SameRecord
  <1>4. CASE GetInstance \/ SkipInstance \/ ApplyWeb \/ ApplyWorker
    BY <1>3, <1>4 DEF GetInstance, Get, SkipInstance, NoWrite, ApplyWeb, ApplyWorker, Apply
  <1>5. CASE WatchInstance \/ WatchJob \/ RestartOperator
    BY <1>3, <1>5 DEF WatchInstance, SyncCache, WatchJob, RestartOperator, Restart
  <1>6. CASE Cluster
    BY <1>3, <1>6 DEF Cluster, StartPod, PodSucceeds, PodFails, FinishDeletion, OrphanEnds,
                      ExpireJob, CollectJob, CollectWorkload, UnchangedByCluster
  <1> QED
    BY <1>1, <1>2, <1>4, <1>5, <1>6 DEF InstanceController, Environment

\* Once a target is on record it is never exchanged: whatever the user asks for and
\* whichever reads the controllers act on, every later record agrees with it in every
\* component that it has.
THEOREM TargetStaysPinned == Spec => TargetIsPinned
  <1>1. IInv /\ [Next]_vars => [Pinned]_vars
    BY MigrationWritesPin, OthersKeepRecord, SameRecordIsPinned DEF Next
  <1>2. Spec => [][Pinned]_vars
    BY <1>1, Invariance, PTL DEF Spec
  <1> QED
    BY <1>2 DEF TargetIsPinned, Pinned

-----------------------------------------------------------------------------
(* The record is a ledger                                                  *)

\* What is on record in an object of the reachable states was migrated, also when it is
\* the version alone that an earlier operator left.
Covered ==
    Applied(cr) # NoIdentity => \E id \in migrated : MigrationUpToDate(id, Applied(cr))

LEMMA RecordIsCovered == IInv => Covered
  <1> SUFFICES ASSUME IInv, Applied(cr) # NoIdentity
               PROVE  \E id \in migrated : MigrationUpToDate(id, Applied(cr))
    BY DEF Covered
  <1>1. CASE cr.applied # NoIdentity
    BY <1>1 DEF IInv, RecordedWasMigrated, Applied, AppliedMigrationIdentity
  <1>2. CASE cr.applied = NoIdentity
    <2>1. /\ cr.migrationVersion # NoVersion
          /\ Applied(cr) = LegacyIdentity(cr.migrationVersion)
      BY <1>2 DEF Applied, AppliedMigrationIdentity
    <2>2. Applied(cr) \in migrated
      BY <1>2, <2>1 DEF IInv, SuccessWasMigrated
    <2> QED
      BY <2>2, UpToDateReflexive
  <1> QED
    BY <1>1, <1>2

\* The migration controller never takes the record away.
LEMMA RecordRemains ==
    ASSUME IInv, MigrationController, Applied(cr') = NoIdentity
    PROVE  Applied(cr) = NoIdentity
  <1>1. cr.spec \in Specs
    BY DEF IInv, TypeOK, StoreTypeOK, Objects
  <1>2. Desired(cr) # NoIdentity
    BY <1>1, DesiredIsIdentity DEF Desired
  <1> QED
    BY <1>2, MigrationWrites DEF SameRecord, Recording, Applied, AppliedMigrationIdentity

\* Pods complete migrations; nothing else does, and at most one at a time.
LEMMA MigrationsComplete ==
    ASSUME Environment
    PROVE  UNCHANGED migrated \/ \E id \in migrated' : migrated' = migrated \cup {id}
  <1>1. CASE PodSucceeds
    BY <1>1 DEF PodSucceeds
  <1>2. CASE OrphanEnds
    BY <1>2 DEF OrphanEnds
  <1>3. CASE WatchInstance \/ WatchJob \/ Edit \/ Delete \/ SiblingWrite \/ RestartOperator
    BY <1>3 DEF WatchInstance, WatchJob, Edit, Delete, SiblingWrite, RestartOperator, jobVars
  <1>4. CASE StartPod \/ PodFails \/ FinishDeletion \/ ExpireJob \/ CollectJob \/ CollectWorkload
    BY <1>4 DEF StartPod, PodFails, FinishDeletion, ExpireJob, CollectJob, CollectWorkload, jobVars
  <1> QED
    BY <1>1, <1>2, <1>3, <1>4 DEF Environment, Cluster

\* The controllers themselves migrate nothing.
LEMMA ControllersMigrateNothing ==
    ASSUME MigrationController \/ InstanceController
    PROVE  UNCHANGED migrated
  <1>1. CASE MigrationController
    BY <1>1 DEF MigrationController, SkipMigration, MigrationConfigError, RecordBaseline,
                RefuseMigration, CleanupCompletedJobs, AnnounceMigration, CreateJob, ReplaceJob,
                RecordSuccess, ReportFailure, PollJob, jobVars
  <1>2. CASE InstanceController
    BY <1>2 DEF InstanceController, GetInstance, SkipInstance, Freeze, InstanceConfigError,
                ApplyWeb, ApplyWorker, UpdateStatus, jobVars
  <1> QED
    BY <1>1, <1>2

\* The detailed specification implements TargetLedger: stale reads, conflicts, lost writes,
\* restarts and replaced Jobs never show in what is on record.
THEOREM RecordIsALedger == Spec => ImplementsLedger
  <1>0. Ledger!NoIdentity = NoIdentity
    BY DEF NoIdentity, NoVersion, Plain, NoKeys,
           Ledger!NoIdentity, Ledger!NoVersion, Ledger!Plain, Ledger!NoKeys
  <1>1. Init => Ledger!Init
    BY <1>0 DEF Init, Ledger!Init
  <1>2. IInv /\ IInv' /\ [Next]_vars => [Ledger!Next]_<<Applied(cr), migrated>>
    <2> SUFFICES ASSUME IInv, IInv', [Next]_vars
                 PROVE  Ledger!Next \/ UNCHANGED <<Applied(cr), migrated>>
      OBVIOUS
    <2>1. CASE MigrationController
      <3>1. migrated' = migrated
        BY <2>1, ControllersMigrateNothing
      <3>2. CASE Applied(cr') = Applied(cr)
        BY <3>1, <3>2
      <3>3. CASE Applied(cr') # Applied(cr)
        <4>1. Applied(cr') # NoIdentity
          BY <2>1, <3>3, RecordRemains
        <4>2. \E id \in migrated' : MigrationUpToDate(id, Applied(cr'))
          <5>1. Covered'
            BY RecordIsCovered, PTL
          <5> QED
            BY <4>1, <5>1 DEF Covered
        <4>3. Pinned
          BY <2>1, MigrationWritesPin
        <4>4. PICK id \in migrated' : MigrationUpToDate(id, Applied(cr'))
          BY <4>2
        <4>5. Ledger!MigrationUpToDate(id, Applied(cr'))
          BY <1>0, <4>4 DEF MigrationUpToDate, Disagreements, RefsAgree,
                Ledger!MigrationUpToDate, Ledger!Disagreements, Ledger!RefsAgree
        <4>6. Ledger!Extends(Applied(cr), Applied(cr'))
          BY <4>3 DEF Pinned, RefsAgree, Ledger!Extends, Ledger!RefsAgree
        <4> QED
          BY <3>1, <4>4, <4>5, <4>6 DEF Ledger!Next, Ledger!Record
      <3> QED
        BY <3>2, <3>3
    <2>2. CASE InstanceController \/ Environment
      <3>1. Applied(cr') = Applied(cr)
        BY <2>2, OthersKeepRecord DEF SameRecord, Applied, AppliedMigrationIdentity
      <3>2. UNCHANGED migrated \/ \E id \in migrated' : migrated' = migrated \cup {id}
        BY <2>2, ControllersMigrateNothing, MigrationsComplete
      <3> QED
        BY <3>1, <3>2 DEF Ledger!Next, Ledger!Complete
    <2>3. CASE UNCHANGED vars
      BY <2>3 DEF vars, storeVars, jobVars, Applied
    <2> QED
      BY <2>1, <2>2, <2>3 DEF Next
  <1> QED
    BY <1>1, <1>2, Invariance, PTL DEF Spec, ImplementsLedger, Ledger!Spec

-----------------------------------------------------------------------------
(* What a step may do to the object                                        *)

\* The status writes leave the spec and the deletion alone.
SameRequest == cr'.spec = cr.spec /\ cr'.deleting = cr.deleting

\* A write that lands was computed from the object itself.
LEMMA LandedWrite ==
    ASSUME IInv, NEW h \in Holders, NEW new \in Objects, NEW outcome,
           UpdateInstanceStatus(h, new, outcome)
    PROVE  cr' = cr \/ (cr' = new /\ copy[h] = cr)
  BY StatusWrite DEF IInv

LEMMA MigrationKeepsRequest ==
    ASSUME IInv, MigrationController
    PROVE  SameRequest /\ cr'.version = cr.version
  <1>0. "cache" \in Holders /\ Mine \in Objects
    BY CopiesAreObjects DEF Holders, Mine
  <1>1. CASE RecordBaseline
    <2> DEFINE new == [Mine EXCEPT !.applied = Desired(Mine)]
    <2>1. PICK outcome : UpdateInstanceStatus("cache", new, outcome)
      BY <1>1 DEF RecordBaseline
    <2>2. new \in Objects
      BY <1>0, ComputedObjects
    <2>3. new.spec = Mine.spec /\ new.deleting = Mine.deleting /\ new.version = Mine.version
      BY <1>0 DEF Objects
    <2> HIDE DEF new
    <2> QED
      BY <1>0, <2>1, <2>2, <2>3, LandedWrite DEF SameRequest, Mine
  <1>2. CASE RecordSuccess
    <2> DEFINE new == [Mine EXCEPT !.migrationsComplete = "MigrationSucceeded",
                                   !.migrationVersion = NormalizeVersion(Mine.spec.tag),
                                   !.applied = Desired(Mine)]
    <2>1. PICK outcome : UpdateInstanceStatus("cache", new, outcome)
      BY <1>2 DEF RecordSuccess
    <2>2. new \in Objects
      BY <1>0, ComputedObjects
    <2>3. new.spec = Mine.spec /\ new.deleting = Mine.deleting /\ new.version = Mine.version
      BY <1>0 DEF Objects
    <2> HIDE DEF new
    <2> QED
      BY <1>0, <2>1, <2>2, <2>3, LandedWrite DEF SameRequest, Mine
  <1>3. CASE RefuseMigration \/ ReportFailure \/ PollJob \/ AnnounceMigration
    <2>1. PICK c \in {"MigrationStarted", "MigrationFailed", Mine.migrationsComplete} :
             \E outcome :
                UpdateInstanceStatus("cache", [Mine EXCEPT !.migrationsComplete = c], outcome)
      BY <1>3 DEF RefuseMigration, ReportFailure, PollJob, AnnounceMigration
    <2> DEFINE new == [Mine EXCEPT !.migrationsComplete = c]
    <2>2. PICK outcome : UpdateInstanceStatus("cache", new, outcome)
      BY <2>1
    <2>3. new \in Objects
      BY <1>0, ComputedObjects
    <2>4. new.spec = Mine.spec /\ new.deleting = Mine.deleting /\ new.version = Mine.version
      BY <1>0 DEF Objects
    <2> HIDE DEF new
    <2> QED
      BY <1>0, <2>2, <2>3, <2>4, LandedWrite DEF SameRequest, Mine
  <1>4. CASE SkipMigration \/ MigrationConfigError \/ CleanupCompletedJobs \/ CreateJob
               \/ ReplaceJob
    <2>1. UNCHANGED cr
      BY <1>4 DEF SkipMigration, MigrationConfigError, NoWrite, CleanupCompletedJobs,
                  CreateJob, ReplaceJob
    <2> QED
      BY <2>1 DEF SameRequest
  <1> QED
    BY <1>1, <1>2, <1>3, <1>4 DEF MigrationController

\* The writes of the instance controller: only the one that ends a complete roll
\* publishes a version, and it is that of the copy the roll was made from.
LEMMA InstanceKeepsRequest ==
    ASSUME IInv, InstanceController
    PROVE  /\ SameRequest
           /\ cr'.version # cr.version =>
                 UpdateStatus /\ Ours = cr /\ cr'.version = Ours.spec.tag
  <1>0. "instance" \in Controllers /\ "instance" \in Holders
    BY ControllersAre DEF Holders
  <1>1. ASSUME NEW i \in Objects, NEW b \in BOOLEAN, NEW w \in BOOLEAN,
               NEW new, new = Observed([i EXCEPT !.targetChanged = b], w)
        PROVE  /\ new \in Objects
               /\ new.spec = i.spec /\ new.deleting = i.deleting
               /\ new.version = IF w THEN i.spec.tag ELSE i.version
    <2> DEFINE j == [i EXCEPT !.targetChanged = b]
    <2>1. /\ j \in Objects
          /\ j.spec = i.spec /\ j.deleting = i.deleting /\ j.version = i.version
      BY DEF Objects
    <2>2. new = Observed(j, w)
      BY <1>1
    <2>3. new \in Objects
      BY <1>1, ComputedObjects
    <2> HIDE DEF j
    <2> QED
      BY <2>1, <2>2, <2>3 DEF Observed, Objects
  <1>2. CASE Freeze
    <2> DEFINE new == Observed([Ours EXCEPT !.targetChanged = TRUE], FALSE)
    <2>1. PICK outcome : UpdateInstanceStatus("instance", new, outcome)
      BY <1>2 DEF Freeze
    <2>2. Ours \in Objects
      BY <1>0, <1>2, CopiesAreObjects DEF Freeze, InstanceAt, Ours
    <2>3. /\ new \in Objects
          /\ new.spec = Ours.spec /\ new.deleting = Ours.deleting /\ new.version = Ours.version
      BY <1>1, <2>2
    <2> HIDE DEF new
    <2> QED
      BY <1>0, <2>1, <2>3, LandedWrite DEF SameRequest, Ours
  <1>3. CASE InstanceConfigError
    <2> DEFINE new == [Ours EXCEPT !.targetChanged = FALSE,
                                   !.phase = IF Ours.phase = "" THEN "Other" ELSE Ours.phase]
    <2>1. PICK outcome : UpdateInstanceStatus("instance", new, outcome)
      BY <1>3 DEF InstanceConfigError
    <2>2. Ours \in Objects
      BY <1>0, <1>3, CopiesAreObjects DEF InstanceConfigError, Unfrozen, InstanceAt, Ours
    <2>3. new \in Objects
      BY <2>2, ComputedObjects
    <2>4. new.spec = Ours.spec /\ new.deleting = Ours.deleting /\ new.version = Ours.version
      BY <2>2 DEF Objects
    <2> HIDE DEF new
    <2> QED
      BY <1>0, <2>1, <2>3, <2>4, LandedWrite DEF SameRequest, Ours
  <1>4. CASE UpdateStatus
    <2> DEFINE new == Observed([Ours EXCEPT !.targetChanged = FALSE], TRUE)
    <2>1. PICK outcome : UpdateInstanceStatus("instance", new, outcome)
      BY <1>4 DEF UpdateStatus
    <2>2. Ours \in Objects
      BY <1>0, <1>4, CopiesAreObjects DEF UpdateStatus, InstanceAt, Ours
    <2>3. /\ new \in Objects
          /\ new.spec = Ours.spec /\ new.deleting = Ours.deleting /\ new.version = Ours.spec.tag
      BY <1>1, <2>2
    <2> HIDE DEF new
    <2> QED
      BY <1>0, <1>4, <2>1, <2>3, LandedWrite DEF SameRequest, Ours
  <1>5. CASE GetInstance \/ SkipInstance \/ ApplyWeb \/ ApplyWorker
    <2>1. UNCHANGED cr
      BY <1>5 DEF GetInstance, Get, SkipInstance, NoWrite, ApplyWeb, ApplyWorker, Apply
    <2> QED
      BY <2>1 DEF SameRequest
  <1> QED
    BY <1>2, <1>3, <1>4, <1>5 DEF InstanceController

\* The user and Kubernetes publish no version; the user alone changes the request, and
\* never takes a deletion back.
LEMMA EnvironmentKeepsStatus ==
    ASSUME IInv, Environment
    PROVE  /\ cr'.version = cr.version
           /\ cr.deleting => cr'.deleting
           /\ ~(Edit \/ Delete) => SameRequest
           /\ Edit => cr'.spec \in Specs /\ cr'.deleting = cr.deleting
           /\ Delete => cr'.spec = cr.spec
  <1>0. cr \in Objects
    BY DEF IInv, TypeOK, StoreTypeOK
  <1>1. CASE Edit
    <2>1. ~cr.deleting /\ \E spec \in Specs : cr' = [cr EXCEPT !.spec = spec, !.gen = @ + 1]
      BY <1>1 DEF Edit, ExternalWrite
    <2> QED
      BY <1>0, <1>1, <2>1 DEF Objects, Edit, Delete, SameRequest, ExternalWrite
  <1>2. CASE Delete
    <2>1. ~cr.deleting /\ cr' = [cr EXCEPT !.deleting = TRUE, !.gen = @ + 1]
      BY <1>2 DEF Delete, ExternalWrite
    <2>2. ~Edit
      <3>1. ASSUME Edit PROVE FALSE
        <4>1. \E spec \in Specs : cr' = [cr EXCEPT !.spec = spec, !.gen = @ + 1]
          BY <3>1 DEF Edit, ExternalWrite
        <4> QED
          BY <1>0, <2>1, <4>1 DEF Objects
      <3> QED
        BY <3>1
    <2> QED
      BY <1>0, <1>2, <2>1, <2>2 DEF Objects
  <1>3. CASE ~(Edit \/ Delete)
    <2>1. UNCHANGED cr
      BY <1>3 DEF Environment, WatchInstance, SyncCache, WatchJob, SiblingWrite, ExternalWrite,
                  RestartOperator, Restart, Cluster, StartPod, PodSucceeds, PodFails,
                  FinishDeletion, OrphanEnds, ExpireJob, CollectJob, CollectWorkload,
                  UnchangedByCluster
    <2> QED
      BY <1>3, <2>1 DEF SameRequest
  <1> QED
    BY <1>1, <1>2, <1>3

LEMMA DeletionIsForever == IInv /\ [Next]_vars => (cr.deleting => cr'.deleting)
  <1> SUFFICES ASSUME IInv, [Next]_vars PROVE cr.deleting => cr'.deleting
    OBVIOUS
  <1>1. CASE UNCHANGED vars
    BY <1>1 DEF vars, storeVars
  <1> QED
    BY <1>1, MigrationKeepsRequest, InstanceKeepsRequest, EnvironmentKeepsStatus
       DEF Next, SameRequest

-----------------------------------------------------------------------------
(* One migration pod at a time                                             *)

\* A step that leaves the Jobs alone, and does not take the migration controller to its
\* Create, keeps JobsAreSerial: before the instance is deleted, and when it is.
LEMMA QuietKeepsSerial ==
    ASSUME JobsAreSerial, cr.deleting => cr'.deleting,
           job' = job, jobCache' = jobCache, orphans' = orphans,
           pc'["migration"] = "create" => pc["migration"] = "create"
    PROVE  JobsAreSerial'
  BY DEF JobsAreSerial

\* What the migration controller does to its Job.
LEMMA MigrationKeepsSerial == IInv /\ JobsAreSerial /\ MigrationController => JobsAreSerial'
  <1> SUFFICES ASSUME IInv, JobsAreSerial, MigrationController PROVE JobsAreSerial'
    OBVIOUS
  <1>0. /\ "migration" \in DOMAIN pc /\ cr'.deleting = cr.deleting
        /\ job \in Jobs /\ jobCache \in Jobs
        /\ job.pod => job.status = "running"
    BY MigrationKeepsRequest, ControllersAre
       DEF IInv, TypeOK, StoreTypeOK, JobIsCoherent, SameRequest
  <1>1. CASE SkipMigration \/ MigrationConfigError \/ RecordBaseline \/ RefuseMigration
               \/ RecordSuccess \/ ReportFailure \/ PollJob
    <2>1. UNCHANGED <<pc, job, jobCache, orphans>>
      BY <1>1 DEF SkipMigration, MigrationConfigError, RecordBaseline, RefuseMigration,
                  RecordSuccess, ReportFailure, PollJob, Finish, jobVars
    <2> QED
      BY <1>0, <2>1, QuietKeepsSerial
  <1>2. CASE CleanupCompletedJobs
    <2>1. pc["migration"] = "idle" /\ pc' = pc /\ jobCache' = jobCache
      BY <1>2 DEF CleanupCompletedJobs, PassesGate, Ready, Finish
    <2>2. CASE UNCHANGED <<job, orphans>>
      BY <1>0, <2>1, <2>2, QuietKeepsSerial
    <2>3. CASE jobCache.status = "succeeded" /\ DeleteBackground
      <3>1. job' = NoJob
        BY <2>3 DEF DeleteBackground
      <3>2. ~cr.deleting => orphans' = {}
        BY <1>0, <2>3 DEF DeleteBackground, JobsAreSerial
      <3> QED
        BY <1>0, <2>1, <3>1, <3>2 DEF JobsAreSerial, NoJob
    <2> QED
      BY <1>2, <2>2, <2>3 DEF CleanupCompletedJobs
  <1>3. CASE AnnounceMigration
    <2>1. jobCache = NoJob /\ UNCHANGED <<job, jobCache, orphans>>
      BY <1>3 DEF AnnounceMigration, jobVars
    <2> QED
      BY <1>0, <2>1 DEF JobsAreSerial
  <1>4. CASE CreateJob
    <2>1. /\ pc["migration"] = "create" /\ pc'["migration"] = "idle"
          /\ UNCHANGED <<jobCache, orphans>>
      BY <1>0, <1>4 DEF CreateJob, Return
    <2>2. CASE job' = job
      BY <1>0, <2>1, <2>2, QuietKeepsSerial
    <2>3. CASE job = NoJob /\ job' = NewJob(Desired(copy["migration"]))
      BY <1>0, <2>1, <2>3 DEF JobsAreSerial, NoJob, NewJob
    <2> QED
      BY <1>4, <2>2, <2>3 DEF CreateJob
  <1>5. CASE ReplaceJob
    <2>1. /\ pc["migration"] = "idle" /\ pc' = pc
          /\ jobCache # NoJob /\ UNCHANGED <<jobCache, orphans>>
      BY <1>5 DEF ReplaceJob, SeesJob, PassesGate, Ready, Finish, DeleteForeground
    <2>2. job'.status = job.status
      BY <1>0, <1>5 DEF ReplaceJob, DeleteForeground, Jobs
    <2> QED
      BY <1>0, <2>1, <2>2 DEF JobsAreSerial
  <1> QED
    BY <1>1, <1>2, <1>3, <1>4, <1>5 DEF MigrationController

\* The instance controller has no hand in Jobs.
LEMMA InstanceLeavesJobs ==
    ASSUME IInv, InstanceController
    PROVE  UNCHANGED jobVars /\ pc'["migration"] = pc["migration"]
  <1>0. "migration" \in DOMAIN pc /\ "instance" \in DOMAIN pc
    BY ControllersAre DEF IInv, TypeOK, StoreTypeOK
  <1>1. CASE GetInstance \/ ApplyWeb \/ ApplyWorker
    BY <1>0, <1>1 DEF GetInstance, Get, Start, ApplyWeb, ApplyWorker, Apply, Return
  <1>2. CASE SkipInstance \/ Freeze \/ InstanceConfigError \/ UpdateStatus
    BY <1>0, <1>2 DEF SkipInstance, Freeze, InstanceConfigError, UpdateStatus, Return
  <1> QED
    BY <1>1, <1>2 DEF InstanceController

LEMMA ClusterKeepsSerial == IInv /\ JobsAreSerial /\ Cluster => JobsAreSerial'
  <1> SUFFICES ASSUME IInv, JobsAreSerial, Cluster PROVE JobsAreSerial'
    OBVIOUS
  <1>0. /\ job \in Jobs /\ jobCache \in Jobs
        /\ job.pod => job.status = "running"
    BY DEF IInv, TypeOK, JobIsCoherent
  <1>1. UNCHANGED <<cr, pc, jobCache>>
    BY DEF Cluster, StartPod, PodSucceeds, PodFails, FinishDeletion, OrphanEnds, ExpireJob,
           CollectJob, CollectWorkload, UnchangedByCluster, jobVars
  <1>2. CASE StartPod \/ PodSucceeds \/ PodFails
    <2>1. /\ job.status = "running"
          /\ job'.terminating = job.terminating /\ job'.status # "none"
          /\ PodSucceeds => job'.status = "succeeded"
          /\ orphans' = orphans
      BY <1>0, <1>2 DEF StartPod, PodSucceeds, PodFails, Jobs
    <2>2. job # NoJob /\ job' # NoJob
      BY <2>1 DEF NoJob
    <2> QED
      BY <1>1, <2>1, <2>2 DEF JobsAreSerial
  <1>3. CASE FinishDeletion
    <2>1. /\ pc["migration"] # "create" /\ jobCache # NoJob /\ orphans' = orphans
          /\ job'.status \in {job.status, "none"}
      BY <1>0, <1>3 DEF FinishDeletion, JobsAreSerial, Jobs, NoJob
    <2> QED
      BY <1>1, <2>1 DEF JobsAreSerial
  <1>4. CASE OrphanEnds
    <2>1. job' = job /\ (orphans = {} => orphans' = {})
      BY <1>4 DEF OrphanEnds
    <2> QED
      BY <1>1, <2>1 DEF JobsAreSerial
  <1>5. CASE ExpireJob
    <2>1. pc["migration"] = "idle" /\ job' = NoJob /\ orphans' = orphans
      BY <1>5 DEF ExpireJob
    <2> QED
      BY <1>1, <2>1 DEF JobsAreSerial, NoJob
  <1>6. CASE CollectJob
    <2>1. cr.deleting /\ job' = NoJob
      BY <1>6 DEF CollectJob, DeleteBackground
    <2> QED
      BY <1>1, <2>1 DEF JobsAreSerial, NoJob
  <1>7. CASE CollectWorkload
    <2>1. UNCHANGED <<job, orphans>>
      BY <1>7 DEF CollectWorkload, jobVars
    <2> QED
      BY <1>1, <2>1, QuietKeepsSerial
  <1> QED
    BY <1>2, <1>3, <1>4, <1>5, <1>6, <1>7 DEF Cluster

LEMMA NextKeepsSerial == IInv /\ JobsAreSerial /\ [Next]_vars => JobsAreSerial'
  <1> SUFFICES ASSUME IInv, JobsAreSerial, [Next]_vars PROVE JobsAreSerial'
    OBVIOUS
  <1>0. cr.deleting => cr'.deleting
    BY DeletionIsForever
  <1>1. CASE UNCHANGED vars
    BY <1>0, <1>1, QuietKeepsSerial DEF vars, storeVars, jobVars
  <1>2. CASE InstanceController
    BY <1>0, <1>2, InstanceLeavesJobs, QuietKeepsSerial DEF jobVars
  <1>3. CASE WatchInstance \/ Edit \/ Delete \/ SiblingWrite
    <2>1. UNCHANGED <<pc, job, jobCache, orphans>>
      BY <1>3 DEF WatchInstance, SyncCache, Edit, Delete, SiblingWrite, ExternalWrite, jobVars
    <2> QED
      BY <1>0, <2>1, QuietKeepsSerial
  <1>4. CASE WatchJob
    <2>1. jobCache' = job /\ UNCHANGED <<cr, pc, job, orphans>>
      BY <1>4 DEF WatchJob
    <2> QED
      BY <2>1 DEF JobsAreSerial, NoJob
  <1>5. CASE RestartOperator
    <2>1. pc'["migration"] = "idle" /\ jobCache' = job /\ UNCHANGED <<cr, job, orphans>>
      BY <1>5, ControllersAre DEF RestartOperator, Restart
    <2> QED
      BY <2>1 DEF JobsAreSerial, NoJob
  <1> QED
    BY <1>1, <1>2, <1>3, <1>4, <1>5, MigrationKeepsSerial, ClusterKeepsSerial
       DEF Next, Environment

\* Jobs are serial: whatever the user and the faults do, no migration pod outlives its Job
\* before the instance is deleted, so at most one runs.  The migration controller gets
\* this from the cache alone, without ever reading the Job from the API server.
THEOREM JobsStaySerial == Spec => []OneMigrationPod
  <1>1. Init => JobsAreSerial
    BY DEF Init, JobsAreSerial, NoJob
  <1>2. JobsAreSerial => OneMigrationPod
    BY FS_EmptySet DEF JobsAreSerial, OneMigrationPod
  <1>3. Spec => []JobsAreSerial
    BY <1>1, Invariance, NextKeepsSerial, PTL DEF Spec
  <1> QED
    BY <1>2, <1>3, PTL

-----------------------------------------------------------------------------
(* The workload stays on its target                                        *)

LEMMA RefsAgreeReflexive == \A v : RefsAgree(v, v)
  BY DEF RefsAgree

LEMMA RefsAgreeTransitive ==
    ASSUME NEW u, NEW v, NEW w, RefsAgree(u, v), RefsAgree(v, w)
    PROVE  RefsAgree(u, w)
  BY DEF RefsAgree

\* More loose values anchor whatever fewer did.
LEMMA AnchoredByMore ==
    ASSUME NEW l, NEW m, NEW i, Anchored(l, i), \A c \in Components : l[c] \subseteq m[c]
    PROVE  Anchored(m, i)
  BY DEF Anchored

\* Only the target and the record matter.
LEMMA AnchoredAlike ==
    ASSUME NEW l, NEW i, NEW j, Anchored(l, i),
           j.spec = i.spec, Applied(j) = Applied(i)
    PROVE  Anchored(l, j)
  BY DEF Anchored

\* What the freeze is for: the target of an anchored copy that it lets through agrees
\* with a value that was loose, in every component.
LEMMA UnretargetedIsLoose ==
    ASSUME NEW l, NEW i \in Objects, Anchored(l, i), ~Retargeted(i)
    PROVE  \A c \in Components : \E v \in l[c] : RefsAgree(v, i.spec.target[c])
  <1> SUFFICES ASSUME NEW c \in Components
               PROVE  \E v \in l[c] : RefsAgree(v, i.spec.target[c])
    OBVIOUS
  <1>1. CASE c \in DOMAIN Applied(i).parts
    <2>1. Applied(i) # NoIdentity
      <3>1. DOMAIN NoIdentity.parts = {}
        BY DEF NoIdentity
      <3> QED
        BY <1>1, <3>1
    <2>2. c \notin Disagreements(Applied(i), Desired(i))
      BY <2>1 DEF Retargeted, RetargetedComponents
    <2>3. RefsAgree(Applied(i).parts[c], i.spec.target[c])
      BY <1>1, <2>2 DEF Disagreements, Desired, MigrationIdentityOf
    <2> QED
      BY <1>1, <2>3, RefsAgreeTransitive DEF Anchored
  <1>2. CASE c \notin DOMAIN Applied(i).parts
    BY <1>2, RefsAgreeReflexive DEF Anchored
  <1> QED
    BY <1>1, <1>2

\* The history only grows, and only with the user's edits.
LEMMA LooseGrows ==
    ASSUME IInv, DOMAIN loose = Components, [Next]_vars
    PROVE  /\ DOMAIN loose' = Components
           /\ \A c \in Components : loose[c] \subseteq loose'[c]
           /\ ~Edit => loose' = loose
  <1>1. CASE Edit
    BY <1>1 DEF Edit, Loosened
  <1>2. CASE MigrationController
    <2>1. loose' = loose
      BY <1>2 DEF MigrationController, SkipMigration, MigrationConfigError, RecordBaseline,
                  RefuseMigration, CleanupCompletedJobs, AnnounceMigration, CreateJob,
                  ReplaceJob, RecordSuccess, ReportFailure, PollJob, workVars
    <2> QED
      BY <2>1
  <1>3. CASE InstanceController
    <2>1. loose' = loose
      BY <1>3 DEF InstanceController, GetInstance, SkipInstance, Freeze, InstanceConfigError,
                  ApplyWeb, ApplyWorker, UpdateStatus, workVars
    <2> QED
      BY <2>1
  <1>4. CASE Environment /\ ~Edit
    <2>1. loose' = loose
      BY <1>4 DEF Environment, WatchInstance, WatchJob, Delete, SiblingWrite, RestartOperator,
                  Cluster, StartPod, PodSucceeds, PodFails, FinishDeletion, OrphanEnds,
                  ExpireJob, CollectJob, CollectWorkload, workVars
    <2> QED
      BY <2>1
  <1>5. CASE UNCHANGED vars
    BY <1>5 DEF vars, workVars
  <1> QED
    BY <1>1, <1>2, <1>3, <1>4, <1>5 DEF Next

\* The object is anchored again after every step: an edit loosens what no record holds,
\* and a record is made of what the object asks for.
LEMMA ObjectStaysAnchored ==
    ASSUME IInv, DOMAIN loose = Components, Anchored(loose, cr), [Next]_vars
    PROVE  Anchored(loose', cr')
  <1>0. SameRecord => Applied(cr') = Applied(cr)
    BY DEF SameRecord, Applied, AppliedMigrationIdentity
  <1>1. CASE Edit
    <2>1. Environment
      BY <1>1 DEF Environment
    <2>2. Applied(cr') = Applied(cr)
      BY <1>0, <2>1, OthersKeepRecord
    <2>3. loose' = Loosened(loose, cr')
      BY <1>1 DEF Edit
    <2> QED
      BY <2>2, <2>3 DEF Anchored, Loosened
  <1>2. CASE cr'.spec = cr.spec /\ SameRecord /\ ~Edit
    BY <1>0, <1>2, LooseGrows, AnchoredAlike
  <1>3. CASE MigrationController /\ Recording /\ ~Edit
    <2>1. cr'.spec = cr.spec /\ loose' = loose
      BY <1>3, MigrationKeepsRequest, LooseGrows DEF SameRequest
    <2>2. cr.spec \in Specs
      BY DEF IInv, TypeOK, StoreTypeOK, Objects
    <2>3. /\ Applied(cr') = Desired(cr)
          /\ DOMAIN Desired(cr).parts = Components
          /\ Desired(cr).parts = cr.spec.target
      BY <1>3, <2>2, DesiredIsIdentity
         DEF Recording, Applied, AppliedMigrationIdentity, Desired, MigrationIdentityOf
    <2>4. \A c \in Components : \E v \in loose[c] : RefsAgree(v, cr.spec.target[c])
      BY <1>3, UnretargetedIsLoose DEF Recording, IInv, TypeOK, StoreTypeOK
    <2> QED
      BY <2>1, <2>3, <2>4 DEF Anchored
  <1>4. CASE UNCHANGED vars /\ ~Edit
    BY <1>4, <1>2 DEF vars, storeVars, SameRecord
  <1>5. CASE InstanceController /\ ~Edit
    BY <1>5, <1>2, InstanceKeepsRequest, OthersKeepRecord DEF SameRequest
  <1>6. CASE Environment /\ ~Edit
    BY <1>6, <1>2, EnvironmentKeepsStatus, OthersKeepRecord DEF SameRequest
  <1>7. CASE MigrationController /\ ~Edit
    BY <1>7, <1>2, <1>3, MigrationWrites, MigrationKeepsRequest DEF SameRequest
  <1> QED
    BY <1>1, <1>4, <1>5, <1>6, <1>7 DEF Next

\* Copies come from the cache, and the cache from the object.
LEMMA CopiesMove ==
    ASSUME IInv, [Next]_vars
    PROVE  \A h \in Holders : copy'[h] \in {copy[h], NoCopy, copy["cache"], cr}
  <1>0. copy \in [Holders -> Objects \cup {NoCopy}]
    BY DEF IInv, TypeOK, StoreTypeOK
  <1>1. CASE UNCHANGED copy
    BY <1>1
  <1>2. CASE AnnounceMigration \/ GetInstance
    BY <1>0, <1>2 DEF AnnounceMigration, GetInstance, Get, Start
  <1>3. CASE \E c \in Controllers : \E requeue : Return(c, requeue)
    BY <1>0, <1>3 DEF Return
  <1>4. CASE WatchInstance \/ RestartOperator
    BY <1>0, <1>4 DEF WatchInstance, SyncCache, RestartOperator, Restart
  <1>5. CASE MigrationController
    <2>1. \/ UNCHANGED copy \/ AnnounceMigration
          \/ \E c \in Controllers : \E requeue : Return(c, requeue)
      BY <1>5, ControllersAre
         DEF MigrationController, SkipMigration, MigrationConfigError, RecordBaseline,
             RefuseMigration, CleanupCompletedJobs, CreateJob, ReplaceJob,
             RecordSuccess, ReportFailure, PollJob, Finish
    <2> QED
      BY <1>1, <1>2, <1>3, <2>1
  <1>6. CASE InstanceController
    <2>1. \/ UNCHANGED copy \/ GetInstance
          \/ \E c \in Controllers : \E requeue : Return(c, requeue)
      BY <1>6, ControllersAre
         DEF InstanceController, SkipInstance, Freeze, InstanceConfigError,
             ApplyWeb, ApplyWorker, UpdateStatus, Apply
    <2> QED
      BY <1>1, <1>2, <1>3, <2>1
  <1>7. CASE Environment
    <2>1. UNCHANGED copy \/ WatchInstance \/ RestartOperator
      BY <1>7 DEF Environment, WatchJob, Edit, Delete, SiblingWrite, ExternalWrite,
                  Cluster, StartPod, PodSucceeds, PodFails, FinishDeletion, OrphanEnds,
                  ExpireJob, CollectJob, CollectWorkload, UnchangedByCluster
    <2> QED
      BY <1>1, <1>4, <2>1
  <1>8. CASE UNCHANGED vars
    BY <1>1, <1>8 DEF vars, storeVars
  <1> QED
    BY <1>5, <1>6, <1>7, <1>8 DEF Next

\* A pass of the instance controller that has begun to roll goes on, or ends, with the
\* copy it began with; and nothing else rolls.
Rolling == pc["instance"] \in {"worker", "status"}

Idling ==
    /\ workload' = workload
    /\ Rolling' => /\ pc'["instance"] = pc["instance"]
                   /\ copy'["instance"] = copy["instance"]

LEMMA RollsByApply ==
    ASSUME IInv, [Next]_vars
    PROVE  Idling \/ ApplyWeb \/ ApplyWorker \/ CollectWorkload
  <1>0. /\ {"migration", "instance"} = DOMAIN pc
        /\ {"migration", "instance", "cache"} = DOMAIN copy
    BY ControllersAre DEF IInv, TypeOK, StoreTypeOK, Holders
  <1>1. CASE UNCHANGED <<workload, pc, copy>>
    BY <1>1 DEF Idling, Rolling
  <1>2. CASE MigrationController
    <2>1. workload' = workload
      BY <1>2 DEF MigrationController, SkipMigration, MigrationConfigError, RecordBaseline,
                  RefuseMigration, CleanupCompletedJobs, AnnounceMigration, CreateJob,
                  ReplaceJob, RecordSuccess, ReportFailure, PollJob, workVars
    <2>2. \/ UNCHANGED <<pc, copy>>
          \/ \E place : Start("migration", place)
          \/ \E requeue : Return("migration", requeue)
      BY <1>2 DEF MigrationController, SkipMigration, MigrationConfigError, RecordBaseline,
                  RefuseMigration, CleanupCompletedJobs, AnnounceMigration, CreateJob,
                  ReplaceJob, RecordSuccess, ReportFailure, PollJob, Finish
    <2> QED
      BY <1>0, <1>1, <2>1, <2>2 DEF Start, Return, Idling, Rolling
  <1>3. CASE InstanceController /\ ~ApplyWeb /\ ~ApplyWorker
    <2>1. workload' = workload
      BY <1>3 DEF InstanceController, GetInstance, SkipInstance, Freeze, InstanceConfigError,
                  UpdateStatus, workVars
    <2>2. pc'["instance"] \in {"read", "idle"}
      BY <1>0, <1>3 DEF InstanceController, GetInstance, Get, Start, SkipInstance, Freeze,
                        InstanceConfigError, UpdateStatus, Return
    <2> QED
      BY <2>1, <2>2 DEF Idling, Rolling
  <1>4. CASE WatchInstance
    BY <1>0, <1>4 DEF WatchInstance, SyncCache, workVars, Idling, Rolling
  <1>5. CASE RestartOperator
    BY <1>5, ControllersAre DEF RestartOperator, Restart, workVars, Idling, Rolling
  <1>6. CASE Environment /\ ~WatchInstance /\ ~RestartOperator /\ ~CollectWorkload
    <2>1. UNCHANGED <<workload, pc, copy>>
      BY <1>6 DEF Environment, WatchJob, Edit, Delete, SiblingWrite, ExternalWrite,
                  Cluster, StartPod, PodSucceeds, PodFails, FinishDeletion, OrphanEnds,
                  ExpireJob, CollectJob, UnchangedByCluster, workVars
    <2> QED
      BY <1>1, <2>1
  <1>7. CASE UNCHANGED vars
    BY <1>1, <1>7 DEF vars, storeVars, workVars
  <1> QED
    BY <1>2, <1>3, <1>4, <1>5, <1>6, <1>7 DEF Next

\* What one Apply does: the Deployment may get the configuration of the copy, and the
\* pass goes on from there only if it did.
LEMMA ApplyStep ==
    ASSUME IInv, NEW d \in Deployments, NEW next, Apply(d, next)
    PROVE  /\ workload'[d] \in {workload[d], Config(Ours.spec)}
           /\ \A e \in Deployments \ {d} : workload'[e] = workload[e]
           /\ Rolling' => /\ pc'["instance"] = next
                          /\ workload'[d] = Config(Ours.spec)
                          /\ copy' = copy
  <1>1. "instance" \in DOMAIN pc /\ workload \in [Deployments -> Configs]
    BY ControllersAre DEF IInv, TypeOK, StoreTypeOK
  <1> QED
    BY <1>1 DEF Apply, Return, Rolling

\* A roll is based on a copy that passed the freeze and was not being deleted.
LEMMA RollsPassTheFreeze ==
    ASSUME IInv, RollsAreAnchored, ApplyWeb \/ ApplyWorker
    PROVE  /\ Ours \in Objects /\ Anchored(loose, Ours)
           /\ ~Retargeted(Ours) /\ ~Ours.deleting
  <1>1. pc["instance"] \in {"read", "worker"}
    BY DEF ApplyWeb, ApplyWorker, Unfrozen, InstanceAt
  <1>2. Ours \in Objects /\ "instance" \in Holders /\ Ours # NoCopy
    BY <1>1, CopiesAreObjects, ControllersAre, NoCopyAssumption DEF Ours, Holders
  <1> QED
    BY <1>2 DEF RollsAreAnchored, ApplyWeb, ApplyWorker, Unfrozen, InstanceAt, Ours

LEMMA NextKeepsAnchored == IInv /\ RollsAreAnchored /\ [Next]_vars => RollsAreAnchored'
  <1> SUFFICES ASSUME IInv, RollsAreAnchored, [Next]_vars PROVE RollsAreAnchored'
    OBVIOUS
  <1>0. /\ DOMAIN loose' = Components
        /\ \A c \in Components : loose[c] \subseteq loose'[c]
    BY LooseGrows DEF RollsAreAnchored
  <1>1. Anchored(loose', cr')
    BY ObjectStaysAnchored DEF RollsAreAnchored
  <1>2. \A h \in Holders : copy'[h] # NoCopy => Anchored(loose', copy'[h])
    <2> SUFFICES ASSUME NEW h \in Holders, copy'[h] # NoCopy PROVE Anchored(loose', copy'[h])
      OBVIOUS
    <2>1. Anchored(loose, copy'[h])
      BY CopiesMove DEF RollsAreAnchored, Holders
    <2> QED
      BY <1>0, <2>1, AnchoredByMore
  <1>3. Rolling' => ~Retargeted(copy'["instance"]) /\ ~copy'["instance"].deleting
    <2> SUFFICES ASSUME Rolling'
                 PROVE  ~Retargeted(copy'["instance"]) /\ ~copy'["instance"].deleting
      OBVIOUS
    <2>1. CASE Idling
      BY <2>1 DEF Idling, Rolling, RollsAreAnchored, Ours
    <2>2. CASE ApplyWeb \/ ApplyWorker
      <3>1. copy' = copy
        BY <2>2, ApplyStep DEF ApplyWeb, ApplyWorker, Deployments
      <3> QED
        BY <2>2, <3>1, RollsPassTheFreeze DEF Ours
    <2>3. CASE CollectWorkload
      BY <2>3 DEF CollectWorkload, Rolling, RollsAreAnchored, Ours
    <2> QED
      BY <2>1, <2>2, <2>3, RollsByApply
  <1>4. ASSUME NEW d \in Deployments, workload'[d] # NoWorkload
        PROVE  \A c \in Components : \E v \in loose'[c] : RefsAgree(v, workload'[d].target[c])
    <2>1. CASE workload'[d] = workload[d]
      BY <1>0, <1>4, <2>1 DEF RollsAreAnchored, WorkloadStaysOnTarget
    <2>2. CASE (ApplyWeb \/ ApplyWorker) /\ workload'[d] = Config(Ours.spec)
      <3>1. \A c \in Components : \E v \in loose[c] : RefsAgree(v, Ours.spec.target[c])
        BY <2>2, RollsPassTheFreeze, UnretargetedIsLoose
      <3>2. workload'[d].target = Ours.spec.target
        BY <2>2 DEF Config
      <3> QED
        BY <1>0, <3>1, <3>2
    <2>3. CASE Idling
      BY <2>1, <2>3 DEF Idling
    <2>4. CASE ApplyWeb \/ ApplyWorker
      BY <2>1, <2>2, <2>4, ApplyStep DEF ApplyWeb, ApplyWorker, Deployments
    <2>5. CASE CollectWorkload
      BY <1>4, <2>1, <2>5 DEF CollectWorkload, IInv, TypeOK
    <2> QED
      BY <2>3, <2>4, <2>5, RollsByApply
  <1> QED
    BY <1>0, <1>1, <1>2, <1>3, <1>4
       DEF RollsAreAnchored, WorkloadStaysOnTarget, Rolling, Ours

\* What the operator finds is anchored: earlier operators rolled onto the target that they
\* had migrated, or onto none.
LEMMA InitAnchored == Init => RollsAreAnchored
  <1> SUFFICES ASSUME Init PROVE RollsAreAnchored
    OBVIOUS
  <1>1. cr \in Objects
    BY FirstObjectsAssumption DEF Init, StoreInit, StoreStarts
  <1>2. DOMAIN loose = Components /\ Anchored(loose, cr)
    <2>1. loose = Loosened([c \in Components |->
                    IF c \in DOMAIN Applied(cr).parts THEN {Applied(cr).parts[c]} ELSE {}], cr)
      BY DEF Init
    <2> QED
      BY <2>1, RefsAgreeReflexive DEF Loosened, Anchored
  <1>3. \A h \in Holders : copy[h] # NoCopy => Anchored(loose, copy[h])
    BY <1>2 DEF Init, StoreInit, StoreStarts
  <1>4. pc["instance"] = "idle"
    BY ControllersAre DEF Init, StoreInit, StoreStarts
  <1>5. WorkloadStaysOnTarget
    <2>1. CASE \A d \in Deployments : workload[d] = NoWorkload
      BY <2>1 DEF WorkloadStaysOnTarget
    <2>2. CASE ~Retargeted(cr) /\ \A d \in Deployments : workload[d] = Config(cr.spec)
      <3>1. Config(cr.spec).target = cr.spec.target
        BY DEF Config
      <3> QED
        BY <1>1, <1>2, <2>2, <3>1, UnretargetedIsLoose DEF WorkloadStaysOnTarget
    <2> QED
      BY <2>1, <2>2 DEF Init
  <1> QED
    BY <1>2, <1>3, <1>4, <1>5 DEF RollsAreAnchored

LEMMA Anchoring == Spec => []RollsAreAnchored
  BY InitAnchored, Invariance, NextKeepsAnchored, PTL DEF Spec

\* The freeze holds for every interleaving of edits, migrations and stale reads: no
\* Deployment carries a target that the user first asked for after a migration had put
\* another one on record.
THEOREM FreezeHolds == Spec => []WorkloadStaysOnTarget
  <1>1. RollsAreAnchored => WorkloadStaysOnTarget
    BY DEF RollsAreAnchored
  <1> QED
    BY <1>1, Anchoring, PTL

-----------------------------------------------------------------------------
(* A published version was rolled out                                      *)

LEMMA NextKeepsComplete ==
    IInv /\ RollIsComplete /\ [Next]_vars => RollIsComplete'
  <1> SUFFICES ASSUME IInv, RollIsComplete, [Next]_vars, ~cr'.deleting
               PROVE  /\ Rolling' => workload'["web"] = Config(copy'["instance"].spec)
                      /\ pc'["instance"] = "status" =>
                            workload'["worker"] = Config(copy'["instance"].spec)
    BY DEF RollIsComplete, Rolling, Ours
  <1>0. ~cr.deleting
    BY DeletionIsForever
  <1>1. CASE Idling
    BY <1>0, <1>1 DEF Idling, RollIsComplete, Rolling, Ours
  <1>2. CASE ApplyWeb
    BY <1>2, ApplyStep DEF ApplyWeb, Deployments, Rolling, Ours
  <1>3. CASE ApplyWorker
    BY <1>0, <1>3, ApplyStep
       DEF ApplyWorker, InstanceAt, Deployments, RollIsComplete, Rolling, Ours
  <1>4. CASE CollectWorkload
    BY <1>0, <1>4 DEF CollectWorkload
  <1> QED
    BY <1>1, <1>2, <1>3, <1>4, RollsByApply

\* What VersionIsRolledOut says of one step.
Published ==
    cr'.version # cr.version => \A d \in Deployments : workload[d].tag = cr'.version

\* status.version never runs ahead of the Deployments: the write that publishes it lands
\* only on the very object that the pass rolled, so neither an edit, a deletion nor a
\* sibling's write in between can make it a claim about another spec.
THEOREM VersionsAreRolledOut == Spec => VersionIsRolledOut
  <1>1. Init => RollIsComplete
    BY ControllersAre DEF Init, StoreInit, StoreStarts, RollIsComplete
  <1>2. Spec => []RollIsComplete
    BY <1>1, Invariance, NextKeepsComplete, PTL DEF Spec
  <1>3. ASSUME IInv, RollsAreAnchored, RollIsComplete, [Next]_vars, cr'.version # cr.version
        PROVE  \A d \in Deployments : workload[d].tag = cr'.version
    <2>1. ~MigrationController /\ ~Environment /\ ~UNCHANGED vars
      BY <1>3, MigrationKeepsRequest, EnvironmentKeepsStatus DEF vars, storeVars
    <2>2. UpdateStatus /\ Ours = cr /\ cr'.version = Ours.spec.tag
      BY <1>3, <2>1, InstanceKeepsRequest DEF Next
    <2>3. pc["instance"] = "status" /\ ~cr.deleting
      BY <1>3, <2>2 DEF UpdateStatus, InstanceAt, RollsAreAnchored
    <2> QED
      BY <1>3, <2>2, <2>3 DEF RollIsComplete, Config, Deployments
  <1>4. IInv /\ RollsAreAnchored /\ RollIsComplete /\ [Next]_vars => [Published]_vars
    BY <1>3 DEF Published
  <1>5. Spec => [][Published]_vars
    BY <1>2, <1>4, Invariance, Anchoring, PTL DEF Spec
  <1> QED
    BY <1>5 DEF VersionIsRolledOut, Published
=============================================================================
