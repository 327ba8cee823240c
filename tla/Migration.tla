----------------------------- MODULE Migration -----------------------------
(***************************************************************************)
(* Schema migrations and the workload they gate: the migration controller  *)
(* with its Job, and the part of the instance controller that rolls the    *)
(* Web and Worker Deployments, freezes them when the datastore target      *)
(* moves, and derives the phase.  Both reconcile the LangfuseInstance of   *)
(* InstanceStore from their own, possibly stale, reads.                    *)
(*                                                                         *)
(* One step is one call to the API server together with the local code in  *)
(* front of it.  The Job controller, the TTL controller and the garbage    *)
(* collector belong to Kubernetes; the user edits the spec at any time.    *)
(***************************************************************************)
EXTENDS InstanceStore, MigrationIdentity, FiniteSets

CONSTANTS
    Specs,            \* the specs the user may set
    FirstObjects,     \* the objects the operator may find when it starts
    BackoffLimit,     \* backoffLimit of the migration Job
    MaxEdits,         \* bound on edits of the spec, deletion included
    MayDelete,        \* whether the user may delete the instance
    MaxPodFailures    \* bound on failing migration pods

VARIABLES
    job,          \* the migration Job at the API server
    jobCache,     \* the Job as the informer cache shows it
    orphans,      \* migration pods still running although their Job is gone
    workload,     \* the configuration of each Deployment
    podFailures,  \* migration pods that failed so far
    migrated,     \* history: the identities some Job brought to completion
    loose         \* history: per component, the values requested while none was recorded

jobVars == <<job, jobCache, orphans, podFailures, migrated>>
workVars == <<workload, loose>>
vars == <<storeVars, jobVars, workVars>>

Deployments == {"web", "worker"}
NoWorkload == [tag |-> [v |-> FALSE, version |-> NoVersion], target |-> NoIdentity.parts]
NoJob == [id |-> NoIdentity, status |-> "none", failed |-> 0, pod |-> FALSE,
          terminating |-> FALSE]

\* A Job as Create leaves it, stamped with the identity it migrates.
NewJob(identity) ==
    [id |-> identity, status |-> "running", failed |-> 0, pod |-> FALSE,
     terminating |-> FALSE]

\* What BuildConfig and the Deployment builders take from the spec.
Config(spec) == [tag |-> spec.tag, target |-> spec.target]

Desired(i) == MigrationIdentityOf(i.spec)
Applied(i) == AppliedMigrationIdentity(i)
UpToDate(i) == MigrationUpToDate(Applied(i), Desired(i))
Retargeted(i) == RetargetedComponents(Applied(i), Desired(i)) # {}

-----------------------------------------------------------------------------
(* The migration controller                                                *)

\* Apart from creating the Job after it announced it, a pass makes one call.
Mine == copy["cache"]

\* The early returns of Reconcile, in the code's order.
Gate(i) ==
    IF i.deleting                            THEN "deleting"
    ELSE IF HasLegacyBaseline(i, Desired(i)) THEN "baseline"
    ELSE IF ~i.spec.runOnDeploy              THEN "disabled"
    ELSE IF UpToDate(i)                      THEN "upToDate"
    ELSE IF Retargeted(i)                    THEN "retargeted"
    ELSE IF i.spec.missingKeys               THEN "missingKeys"
    ELSE IF ~i.spec.valid                    THEN "configError"
    ELSE "job"

PassesGate(gate) == Ready("migration") /\ Gate(Mine) = gate

\* The instance is being deleted or runs no migrations.
SkipMigration ==
    /\ PassesGate("deleting") \/ PassesGate("disabled")
    /\ NoWrite("cache")
    /\ Finish("migration", FALSE)
    /\ UNCHANGED <<jobVars, workVars>>

\* BuildConfig fails: the error is returned and retried.
MigrationConfigError ==
    /\ PassesGate("configError")
    /\ NoWrite("cache")
    /\ Finish("migration", TRUE)
    /\ UNCHANGED <<jobVars, workVars>>

\* The legacy baseline is recorded; every failure of the write is retried.
RecordBaseline ==
    /\ PassesGate("baseline")
    /\ \E outcome \in {"ok", "conflict", "error"} :
          /\ UpdateInstanceStatus("cache",
                [Mine EXCEPT !.applied = Desired(Mine)], outcome)
          /\ Finish("migration", outcome # "ok")
    /\ UNCHANGED <<jobVars, workVars>>

\* A retarget or a missing Secret key is refused and reported as a failed
\* migration.
RefuseMigration ==
    /\ PassesGate("retargeted") \/ PassesGate("missingKeys")
    /\ \E outcome \in {"ok", "conflict", "error"} :
          /\ UpdateInstanceStatus("cache",
                [Mine EXCEPT !.migrationsComplete = "MigrationFailed"], outcome)
          /\ Finish("migration", RequeueIf(outcome))
    /\ UNCHANGED <<jobVars, workVars>>

\* Deletion in the background removes the Job at once and leaves its pod
\* running for a while.
DeleteBackground ==
    /\ job' = NoJob
    /\ orphans' = IF job.pod THEN orphans \cup {job.id} ELSE orphans

\* Mutation: the Job is deleted in the background.
DeleteAtOnce == DeleteBackground

\* Deletion in the foreground keeps the Job until its pod is gone.
DeleteForeground ==
    /\ job' = IF job = NoJob THEN NoJob ELSE [job EXCEPT !.terminating = TRUE]
    /\ UNCHANGED orphans

\* cleanupCompletedJobs: nothing to migrate; a succeeded Job that is old enough
\* is deleted.
CleanupCompletedJobs ==
    /\ PassesGate("upToDate")
    /\ \/ /\ Finish("migration", FALSE)
          /\ UNCHANGED <<job, orphans, faults>>
       \/ /\ jobCache.status = "succeeded"
          /\ DeleteBackground
          /\ Finish("migration", FALSE)
          /\ UNCHANGED faults
       \/ /\ jobCache.status = "succeeded"
          /\ Fault
          /\ Finish("migration", TRUE)
          /\ UNCHANGED <<job, orphans>>
    /\ UNCHANGED <<cr, fresh, jobCache, podFailures, migrated, workVars>>

\* No Job is seen: the start is announced on a best-effort basis ...
AnnounceMigration ==
    /\ PassesGate("job")
    /\ jobCache = NoJob
    /\ \E outcome \in {"ok", "conflict", "error"} :
          UpdateInstanceStatus("cache",
                [Mine EXCEPT !.migrationsComplete = "MigrationStarted"], outcome)
    /\ Start("migration", "create")
    /\ UNCHANGED <<jobVars, workVars>>

\* ... and the Job is created.  Create fails when a Job is there after all; it
\* may also fail otherwise, with or without effect.  Every outcome requeues.
CreateJob ==
    LET new == NewJob(Desired(copy["migration"])) IN
    /\ pc["migration"] = "create"
    /\ \/ job = NoJob /\ job' = new /\ UNCHANGED faults
       \/ job # NoJob /\ UNCHANGED <<job, faults>>
       \/ Fault /\ job = NoJob /\ job' \in {NoJob, new}
    /\ Return("migration", TRUE)
    /\ UNCHANGED <<cr, fresh, jobCache, orphans, podFailures, migrated, workVars>>

SeesJob == PassesGate("job") /\ jobCache # NoJob
\* Mutation: the identity on the Job is not compared.
SeesAnyJob == SeesJob

SeesOwnJob == SeesJob /\ jobCache.id = Desired(Mine)

\* The Job is for another target: it is deleted, unless that is under way.
ReplaceJob ==
    /\ SeesJob
    /\ jobCache.id # Desired(Mine)
    /\ \/ jobCache.terminating /\ UNCHANGED <<job, orphans, faults>>
       \/ ~jobCache.terminating /\ DeleteForeground /\ UNCHANGED faults
       \/ ~jobCache.terminating /\ Fault /\ UNCHANGED <<job, orphans>>
    /\ Finish("migration", TRUE)
    /\ UNCHANGED <<cr, fresh, jobCache, podFailures, migrated, workVars>>

\* The Job succeeded: its identity is recorded as applied.
RecordSuccess ==
    /\ SeesOwnJob
    /\ jobCache.status = "succeeded"
    /\ \E outcome \in {"ok", "conflict", "error"} :
          /\ UpdateInstanceStatus("cache",
                [Mine EXCEPT !.migrationsComplete = "MigrationSucceeded",
                             !.migrationVersion = NormalizeVersion(Mine.spec.tag),
                             !.applied = Desired(Mine)], outcome)
          /\ Finish("migration", RequeueIf(outcome))
    /\ UNCHANGED <<jobVars, workVars>>

ReachedBackoffLimit == jobCache.failed > 0 /\ jobCache.failed >= BackoffLimit

\* The Job used up its attempts, by this controller's count.
ReportFailure ==
    /\ SeesOwnJob
    /\ jobCache.status # "succeeded"
    /\ ReachedBackoffLimit
    /\ \E outcome \in {"ok", "conflict", "error"} :
          /\ UpdateInstanceStatus("cache",
                [Mine EXCEPT !.migrationsComplete = "MigrationFailed"], outcome)
          /\ Finish("migration", RequeueIf(outcome))
    /\ UNCHANGED <<jobVars, workVars>>

\* The Job runs; the condition changes only when its pods show a problem, to a
\* reason (MigrationInProgress) that nothing tells from MigrationStarted.
PollJob ==
    /\ SeesOwnJob
    /\ jobCache.status # "succeeded"
    /\ ~ReachedBackoffLimit
    /\ \E outcome \in {"ok", "conflict", "error"} :
       \E condition \in {Mine.migrationsComplete, "MigrationStarted"} :
          UpdateInstanceStatus("cache",
                [Mine EXCEPT !.migrationsComplete = condition], outcome)
    /\ Finish("migration", TRUE)
    /\ UNCHANGED <<jobVars, workVars>>

MigrationController ==
    \/ SkipMigration
    \/ MigrationConfigError
    \/ RecordBaseline
    \/ RefuseMigration
    \/ CleanupCompletedJobs
    \/ AnnounceMigration
    \/ CreateJob
    \/ ReplaceJob
    \/ RecordSuccess
    \/ ReportFailure
    \/ PollJob

-----------------------------------------------------------------------------
(* The instance controller                                                 *)

InstanceAt(place) == pc["instance"] = place
Ours == copy["instance"]

\* Mutation: the reason of the condition is published as the phase.
DeriveReason(i) == IF i.targetChanged THEN "Error" ELSE i.migrationsComplete

\* derivePhase of an instance whose pods have no fatal issue.  "Other" stands for
\* Pending, Degraded and Running, which the readiness of the pods and the health of
\* the datastores decide.
DerivePhase(i) ==
    IF i.targetChanged \/ i.migrationsComplete = "MigrationFailed" THEN "Error"
    ELSE IF i.migrationsComplete = "MigrationStarted" THEN "Migrating"
    ELSE "Other"

\* Mutation: a frozen pass publishes the version of the spec, too.
ObservedAlways(i, workloadApplied) ==
    [i EXCEPT !.phase = DerivePhase(i), !.version = i.spec.tag]

\* updateStatus: the version is advanced only by a pass that rolled the
\* Deployments.
Observed(i, workloadApplied) ==
    [i EXCEPT !.phase = DerivePhase(i),
              !.version = IF workloadApplied THEN i.spec.tag ELSE i.version]

SkipInstance ==
    /\ InstanceAt("read")
    /\ Ours.deleting
    /\ NoWrite("instance")
    /\ Return("instance", FALSE)
    /\ UNCHANGED <<jobVars, workVars>>

\* The datastore target moved after a migration: no child resource is touched.
Freeze ==
    /\ InstanceAt("read")
    /\ ~Ours.deleting
    /\ Retargeted(Ours)
    /\ \E outcome \in {"ok", "conflict", "error"} :
          /\ UpdateInstanceStatus("instance",
                Observed([Ours EXCEPT !.targetChanged = TRUE], FALSE), outcome)
          /\ Return("instance", RequeueIf(outcome))
    /\ UNCHANGED <<jobVars, workVars>>

\* Mutations: the freeze is left out; the freeze is never lifted; the deletion of
\* the instance is not noticed.
UnfrozenUnchecked == InstanceAt("read") /\ ~Ours.deleting
UnfrozenLatched == UnfrozenUnchecked /\ ~Retargeted(Ours) /\ ~Ours.targetChanged
UnfrozenDeleting == InstanceAt("read") /\ ~Retargeted(Ours)

Unfrozen == InstanceAt("read") /\ ~Ours.deleting /\ ~Retargeted(Ours)

\* BuildConfig fails: reported on a best-effort basis, and retried.
InstanceConfigError ==
    /\ Unfrozen
    /\ ~Ours.spec.valid
    /\ \E outcome \in {"ok", "conflict", "error"} :
          UpdateInstanceStatus("instance",
                [Ours EXCEPT !.targetChanged = FALSE,
                             !.phase = IF Ours.phase = "" THEN "Other" ELSE Ours.phase],
                outcome)
    /\ Return("instance", TRUE)
    /\ UNCHANGED <<jobVars, workVars>>

\* Mutation: a failed apply is not retried.
ApplyOnce(d, next) ==
    LET applied == [workload EXCEPT ![d] = Config(Ours.spec)] IN
    \/ /\ workload' = applied
       /\ pc' = [pc EXCEPT !["instance"] = next]
       /\ UNCHANGED <<cr, copy, fresh, faults, queue>>
    \/ /\ Fault
       /\ UNCHANGED <<cr, workload>>
       /\ fresh' = fresh \ {"instance"}
       /\ Return("instance", FALSE)

\* Server-side apply of one Deployment; a change wakes this controller again,
\* which owns it.  A failed call, be it of a child resource between or after the
\* two, may have had its effect, and the pass is repeated from the start.
Apply(d, next) ==
    LET applied == [workload EXCEPT ![d] = Config(Ours.spec)] IN
    \/ /\ workload' = applied
       /\ pc' = [pc EXCEPT !["instance"] = next]
       /\ queue' = IF applied = workload THEN queue ELSE queue \cup {"instance"}
       /\ UNCHANGED <<cr, copy, fresh, faults>>
    \/ /\ Fault
       /\ workload' \in {workload, applied}
       /\ fresh' = fresh \ {"instance"}
       /\ Return("instance", TRUE)
       /\ UNCHANGED cr

ApplyWeb ==
    /\ Unfrozen
    /\ Ours.spec.valid
    /\ Apply("web", "worker")
    /\ UNCHANGED <<jobVars, loose>>

ApplyWorker ==
    /\ InstanceAt("worker")
    /\ Apply("worker", "status")
    /\ UNCHANGED <<jobVars, loose>>

\* The pass ends with the status; a lost write is returned as an error.
UpdateStatus ==
    /\ InstanceAt("status")
    /\ \E outcome \in {"ok", "conflict", "error"} :
          /\ UpdateInstanceStatus("instance",
                Observed([Ours EXCEPT !.targetChanged = FALSE], TRUE), outcome)
          /\ Return("instance", outcome # "ok")
    /\ UNCHANGED <<jobVars, workVars>>

GetInstance == Get("instance") /\ UNCHANGED <<jobVars, workVars>>

InstanceController ==
    \/ GetInstance
    \/ SkipInstance
    \/ Freeze
    \/ InstanceConfigError
    \/ ApplyWeb
    \/ ApplyWorker
    \/ UpdateStatus

-----------------------------------------------------------------------------
(* The API server's watches, the user and the sibling controllers          *)

\* Mutation: the generation predicate keeps every change from the migration
\* controller.
WatchInstanceDeaf == SyncCache({"instance"}) /\ UNCHANGED <<jobVars, workVars>>

\* The migration controller hears of spec changes only (its generation
\* predicate), the instance controller of every change.
WatchInstance ==
    /\ SyncCache({"instance"} \cup
          (IF copy["cache"].gen # cr.gen THEN {"migration"} ELSE {}))
    /\ UNCHANGED <<jobVars, workVars>>

\* Mutation: the Job is not watched.
WatchJobSilently ==
    /\ jobCache # job
    /\ jobCache' = job
    /\ UNCHANGED <<storeVars, job, orphans, podFailures, migrated, workVars>>

\* Every event of the owned Job wakes the migration controller.
WatchJob ==
    /\ jobCache # job
    /\ jobCache' = job
    /\ queue' = queue \cup {"migration"}
    /\ UNCHANGED <<cr, copy, fresh, pc, faults, job, orphans, podFailures, migrated, workVars>>

\* A component is loose while no migration has recorded a value for it.
Loosened(old, i) ==
    [c \in Components |->
        IF c \in DOMAIN Applied(i).parts THEN old[c] ELSE old[c] \cup {i.spec.target[c]}]

Edit ==
    /\ cr.gen < MaxEdits
    /\ ~cr.deleting
    /\ \E spec \in Specs \ {cr.spec} :
          ExternalWrite([cr EXCEPT !.spec = spec, !.gen = @ + 1])
    /\ loose' = Loosened(loose, cr')
    /\ UNCHANGED <<faults, jobVars, workload>>

Delete ==
    /\ MayDelete
    /\ cr.gen < MaxEdits
    /\ ~cr.deleting
    /\ ExternalWrite([cr EXCEPT !.deleting = TRUE, !.gen = @ + 1])
    /\ UNCHANGED <<faults, jobVars, workVars>>

\* A part of the status that the model leaves out is written: by a sibling
\* controller, or by one of these two (pod issues, ready counts).
SiblingWrite ==
    /\ Fault
    /\ ExternalWrite(cr)
    /\ UNCHANGED <<jobVars, workVars>>

RestartOperator ==
    /\ Restart
    /\ jobCache' = job
    /\ UNCHANGED <<job, orphans, podFailures, migrated, workVars>>

-----------------------------------------------------------------------------
(* Kubernetes: the Job controller, TTL controller and garbage collector    *)

UnchangedByCluster == UNCHANGED <<cr, copy, fresh, queue, pc, jobCache>>

StartPod ==
    /\ job.status = "running"
    /\ ~job.pod
    /\ ~job.terminating
    /\ job' = [job EXCEPT !.pod = TRUE]
    /\ UNCHANGED <<faults, orphans, podFailures, migrated, workVars>>
    /\ UnchangedByCluster

PodSucceeds ==
    /\ job.pod
    /\ job' = [job EXCEPT !.pod = FALSE, !.status = "succeeded"]
    /\ migrated' = migrated \cup {job.id}
    /\ UNCHANGED <<faults, orphans, podFailures, workVars>>
    /\ UnchangedByCluster

\* The Job gives up on the attempt after backoffLimit.
PodFails ==
    /\ job.pod
    /\ podFailures < MaxPodFailures
    /\ podFailures' = podFailures + 1
    /\ job' = [job EXCEPT !.pod = FALSE, !.failed = @ + 1,
                          !.status = IF job.failed >= BackoffLimit THEN "failed" ELSE @]
    /\ UNCHANGED <<faults, orphans, migrated, workVars>>
    /\ UnchangedByCluster

\* The pod of a terminating Job is killed, and the Job goes when it has none.
FinishDeletion ==
    /\ job.terminating
    /\ job' = IF job.pod THEN [job EXCEPT !.pod = FALSE] ELSE NoJob
    /\ UNCHANGED <<faults, orphans, podFailures, migrated, workVars>>
    /\ UnchangedByCluster

\* A pod without a Job is killed, or completes before that.
OrphanEnds ==
    /\ \E id \in orphans :
          /\ orphans' = orphans \ {id}
          /\ migrated' \in {migrated, migrated \cup {id}}
    /\ UNCHANGED <<faults, job, podFailures, workVars>>
    /\ UnchangedByCluster

\* ttlSecondsAfterFinished is one hour: no reconcile takes that long, and the
\* operator has seen the Job by then unless it is held up all the while.
ExpireJob ==
    /\ job.status \in {"succeeded", "failed"}
    /\ pc["migration"] = "idle"
    /\ \/ jobCache = job /\ "migration" \notin queue /\ UNCHANGED faults
       \/ Fault
    /\ job' = NoJob
    /\ UNCHANGED <<orphans, podFailures, migrated, workVars>>
    /\ UnchangedByCluster

\* Children of a deleted instance are collected.
CollectJob ==
    /\ cr.deleting
    /\ job # NoJob
    /\ DeleteBackground
    /\ UNCHANGED <<faults, podFailures, migrated, workVars>>
    /\ UnchangedByCluster

CollectWorkload ==
    /\ cr.deleting
    /\ \E d \in Deployments :
          /\ workload[d] # NoWorkload
          /\ workload' = [workload EXCEPT ![d] = NoWorkload]
    /\ queue' = queue \cup {"instance"}
    /\ UNCHANGED <<cr, copy, fresh, pc, faults, jobVars, loose>>

Cluster ==
    \/ StartPod
    \/ PodSucceeds
    \/ PodFails
    \/ FinishDeletion
    \/ OrphanEnds
    \/ ExpireJob
    \/ CollectJob
    \/ CollectWorkload

Environment ==
    \/ WatchInstance
    \/ WatchJob
    \/ Edit
    \/ Delete
    \/ SiblingWrite
    \/ RestartOperator
    \/ Cluster

-----------------------------------------------------------------------------

\* What the operator finds: a new object, or one that earlier operators
\* migrated and may have rolled out.
Init ==
    /\ StoreInit(FirstObjects)
    /\ job = NoJob
    /\ jobCache = NoJob
    /\ orphans = {}
    /\ podFailures = 0
    /\ \E w \in {NoWorkload} \cup
              (IF Applied(cr) = NoIdentity \/ Retargeted(cr) THEN {} ELSE {Config(cr.spec)}) :
          workload = [d \in Deployments |-> w]
    /\ migrated = {Applied(cr)} \ {NoIdentity}
    /\ loose = Loosened([c \in Components |->
                   IF c \in DOMAIN Applied(cr).parts THEN {Applied(cr).parts[c]} ELSE {}], cr)

Next == MigrationController \/ InstanceController \/ Environment

Spec == Init /\ [][Next]_vars

\* The work queues and watches keep serving, and Kubernetes keeps its own
\* controllers running.  Nothing is assumed of the user or of faults.
Fairness ==
    /\ WF_vars(MigrationController)
    /\ WF_vars(InstanceController)
    /\ WF_vars(WatchInstance)
    /\ WF_vars(WatchJob)
    /\ WF_vars(StartPod)
    /\ WF_vars(PodSucceeds \/ PodFails)
    /\ WF_vars(FinishDeletion)
    /\ WF_vars(OrphanEnds)
    /\ WF_vars(ExpireJob)
    /\ WF_vars(CollectJob)
    /\ WF_vars(CollectWorkload)

FairSpec == Spec /\ Fairness

-----------------------------------------------------------------------------
(* Types                                                                   *)

Tags == {spec.tag : spec \in Specs}
Targets == {spec.target : spec \in Specs}
Recordable == {MigrationIdentityOf(spec) : spec \in Specs}
Recorded == {o.applied : o \in FirstObjects} \cup Recordable
Versions == {NormalizeVersion(t) : t \in Tags} \cup {o.migrationVersion : o \in FirstObjects}

Objects ==
    [gen : 0..(MaxEdits + 1), spec : Specs, deleting : BOOLEAN,
     applied : Recorded, migrationVersion : Versions,
     migrationsComplete : {"", "MigrationStarted", "MigrationFailed", "MigrationSucceeded"},
     targetChanged : BOOLEAN,
     phase : {"", "Other", "Migrating", "Error"},
     version : Tags \cup {NoWorkload.tag}]

Jobs ==
    [id : Recordable \cup {NoIdentity},
     status : {"none", "running", "succeeded", "failed"},
     failed : 0..(BackoffLimit + 1), pod : BOOLEAN, terminating : BOOLEAN]

Configs == [tag : Tags, target : Targets] \cup {NoWorkload}

\* Every variable has its type.
TypeOK ==
    /\ StoreTypeOK(Objects, {"idle", "read", "create", "worker", "status"})
    /\ job \in Jobs
    /\ jobCache \in Jobs
    /\ orphans \subseteq Recordable
    /\ workload \in [Deployments -> Configs]
    /\ podFailures \in 0..MaxPodFailures

-----------------------------------------------------------------------------
(* Assumptions on the constants                                            *)

ASSUME ControllersAre == Controllers = {"migration", "instance"}
ASSUME BoundsAssumption ==
    BackoffLimit \in Nat /\ MaxEdits \in Nat /\ MaxPodFailures \in Nat
ASSUME SpecsAssumption == \A spec \in Specs : DOMAIN spec.target = Components
ASSUME FirstObjectsAssumption ==
    /\ FirstObjects \subseteq Objects
    /\ \A o \in FirstObjects :
          o.gen = 0 /\ ~o.deleting /\ DOMAIN o.applied.parts \subseteq Components
ASSUME NoCopyAssumption == NoCopy \notin Objects

-----------------------------------------------------------------------------
(* Safety                                                                  *)

\* The identity on record was really migrated: some Job, or an operator from
\* before the record existed, completed a migration of that version against
\* that target (migrationIdentityAnnotation: "its success is only ever credited
\* to that target").
RecordedWasMigrated ==
    cr.applied # NoIdentity => \E m \in migrated : MigrationUpToDate(m, cr.applied)

\* What makes the types and RecordedWasMigrated inductive: copies are honest, a
\* Job runs pods within its attempts, and whatever shows a success, or stands for
\* one from before identities were recorded, was migrated.
StoreIsCoherent ==
    /\ FreshMeansEqual
    /\ "migration" \notin fresh
    /\ ~cr.deleting => cr.gen <= MaxEdits

JobIsCoherent ==
    /\ job.status = "running" => job.failed <= BackoffLimit /\ job.id \in Recordable
    /\ job.pod => job.status = "running"

SuccessWasMigrated ==
    /\ job.status = "succeeded" => job.id \in migrated
    /\ jobCache.status = "succeeded" => jobCache.id \in migrated
    /\ (cr.applied = NoIdentity /\ cr.migrationVersion # NoVersion) =>
          LegacyIdentity(cr.migrationVersion) \in migrated

IInv ==
    /\ TypeOK
    /\ StoreIsCoherent
    /\ JobIsCoherent
    /\ SuccessWasMigrated
    /\ RecordedWasMigrated

\* Two migration pods never run at the same time, or they would contend for the
\* Prisma advisory lock (why ReplaceJob deletes in the foreground).
OneMigrationPod ==
    ~cr.deleting => Cardinality(orphans) + (IF job.pod THEN 1 ELSE 0) <= 1

\* What makes OneMigrationPod inductive: no migration pod outlives its Job before the
\* instance is deleted, because a Job is created only after the cache has seen the one
\* before it go.  A success that the cache shows is therefore that of the Job itself, and
\* cleanupCompletedJobs, which deletes by name, never hits a Job that runs.
JobsAreSerial ==
    /\ pc["migration"] = "create" \/ jobCache = NoJob => ~job.terminating
    /\ ~cr.deleting =>
          /\ orphans = {}
          /\ jobCache.status = "succeeded" => job.status \in {"none", "succeeded"}
          /\ pc["migration"] = "create" /\ job = NoJob => jobCache = NoJob

\* No Deployment is rolled onto a target that the user first asked for after a
\* migration had fixed another one, however stale the read the roll is based on
\* (the freeze at the top of the instance controller's Reconcile).
WorkloadStaysOnTarget ==
    \A d \in Deployments : workload[d] # NoWorkload =>
        \A c \in Components : \E v \in loose[c] : RefsAgree(v, workload[d].target[c])

\* What makes WorkloadStaysOnTarget inductive: every copy that a controller may act on is
\* anchored, that is, each component of its target is on record in agreement with a value
\* that was loose, or is itself loose.
Anchored(values, i) ==
    \A c \in Components :
        IF c \in DOMAIN Applied(i).parts
        THEN \E v \in values[c] : RefsAgree(v, Applied(i).parts[c])
        ELSE i.spec.target[c] \in values[c]

RollsAreAnchored ==
    /\ DOMAIN loose = Components
    /\ Anchored(loose, cr)
    /\ \A h \in Holders : copy[h] # NoCopy => Anchored(loose, copy[h])
    /\ pc["instance"] \in {"worker", "status"} => ~Retargeted(Ours) /\ ~Ours.deleting
    /\ WorkloadStaysOnTarget

\* What VersionIsRolledOut needs: a pass that has applied a Deployment, and has not been
\* overtaken by the deletion of the instance, finds it as it left it.
RollIsComplete ==
    ~cr.deleting =>
        /\ pc["instance"] \in {"worker", "status"} => workload["web"] = Config(Ours.spec)
        /\ pc["instance"] = "status" => workload["worker"] = Config(Ours.spec)

\* A recorded target is never exchanged for another: later records, whichever
\* read they come from, agree with every component that is on record.
TargetIsPinned ==
    [][\A c \in DOMAIN Applied(cr).parts :
          /\ c \in DOMAIN Applied(cr').parts
          /\ RefsAgree(Applied(cr).parts[c], Applied(cr').parts[c])]_vars

\* The record is a TargetLedger: its entry is what appliedMigrationIdentity reads from
\* the status, and a migration is done when a pod of some Job has succeeded.
Ledger == INSTANCE TargetLedger WITH record <- Applied(cr), done <- migrated

\* Both controllers, from stale reads and through lost writes, implement the ledger: what
\* the status has on record was migrated, stays on record, and never changes its target.
ImplementsLedger == Ledger!Spec

\* A new value of status.version is published only while both Deployments carry
\* that image (updateStatus: publishing it otherwise "would claim a rollout that
\* never happened").
VersionIsRolledOut ==
    [][cr'.version # cr.version =>
          \A d \in Deployments : workload[d].tag = cr'.version]_vars

\* Migrations finish: once the user and the faults are done, the target on
\* record covers the spec, or the operator refuses the spec for good.
MigrationConverges ==
    <>[](Gate(cr) \in {"deleting", "disabled", "upToDate", "retargeted",
                       "missingKeys", "configError"})

\* Both Deployments end up with the configuration of the spec, unless they are
\* frozen or the spec yields no configuration.
WorkloadConverges ==
    <>[](\/ cr.deleting
         \/ Retargeted(cr)
         \/ ~cr.spec.valid
         \/ \A d \in Deployments : workload[d] = Config(cr.spec))

\* Deletion is final: neither controller keeps re-creating what the garbage
\* collector removes (the checks of DeletionTimestamp).
DeletionIsFinal ==
    <>[](cr.deleting => (job = NoJob /\ \A d \in Deployments : workload[d] = NoWorkload))

\* An instance that was migrated before identities were recorded gets its
\* baseline, migrations disabled or not ("an instance with migrations disabled
\* still needs the workload freeze to work").
BaselineIsRecorded ==
    <>[](cr.deleting \/ (UpToDate(cr) => cr.applied # NoIdentity))

\* "Migrating: The migration Job is running" (docs/guide/troubleshooting.md): once
\* nothing disturbs the operator, that is what the phase comes to mean.
MigratingMeansJobRuns ==
    <>[](cr.phase = "Migrating" => job.status = "running")
=============================================================================
