----------------------------- MODULE Observers -----------------------------
(***************************************************************************)
(* The controllers that report, over one LangfuseInstance: the instance    *)
(* controller, the health monitor and the migration controller of Health,  *)
(* and the retention and schema drift controllers of Retention.  Each      *)
(* writes its part of one status subresource, from its own reading of one  *)
(* lagging cache, while pods, datastores, tables and the spec change.      *)
(***************************************************************************)
EXTENDS Health, Retention

CONSTANTS
    Scenarios, \* what the operator finds, and what may happen to it
    Troubles   \* what may become of a migration pod

VARIABLE scenario  \* the scenario that is being played; it never changes

\* A scenario is the state of the instance at first, the parts of its spec that these
\* controllers read, what the user may make of them, which disturbances there are, and how
\* much of the number that is allowed is spent at the outset.  A rollout, for one, is a
\* disturbance in itself.
Specs == UNION {s.specs : s \in Scenarios}

\* A pod list is finite, and a TTL is a number of days.
ASSUME ObserversAssumption ==
    /\ \A c \in DOMAIN Pods : IsFiniteSet(Pods[c])
    /\ \A s \in Scenarios :
          /\ s.start \in {"new", "running", "upgraded"}
          /\ s.first \in s.specs
          /\ s.strikes \subseteq {"workload", "datastores", "clickhouse"}
          /\ s.spent \in 0..MaxFaults
    /\ \A spec \in Specs : \A t \in Timed : spec.ttl[t] \in Nat
    /\ FirstDisk \in Disks
    /\ Troubles \subseteq PodStates

moving == <<storeVars, worldVars, clickHouseVars, retentionVars>>
vars == <<moving, scenario>>

Reachable == "clickhouse" \in up

-----------------------------------------------------------------------------
(* The object                                                              *)

\* The object that the operator finds.
FirstInstance(start, spec) ==
    LET status == FirstStatus(start)
        report == FirstReport(start, spec, Reachable)
    IN  [gen |-> 1, deleting |-> FALSE, spec |-> spec,
         phase |-> status.phase, ready |-> status.ready, readyCond |-> status.readyCond,
         status |-> status.status, cond |-> status.cond,
         mig |-> status.mig, migIssues |-> status.migIssues, migrated |-> status.migrated,
         retention |-> report.retention, retentionApplied |-> report.retentionApplied,
         pressure |-> report.pressure, drift |-> report.drift, schemaDrift |-> report.schemaDrift]

Edit(spec) ==
    /\ ~cr.deleting
    /\ spec # cr.spec
    /\ Fault
    /\ ExternalWrite([cr EXCEPT !.spec = spec, !.gen = @ + 1])
    /\ UNCHANGED <<worldVars, clickHouseVars, retentionVars>>

Delete ==
    /\ ~cr.deleting
    /\ Fault
    /\ ExternalWrite([cr EXCEPT !.deleting = TRUE, !.gen = @ + 1])
    /\ UNCHANGED <<worldVars, clickHouseVars, retentionVars>>

\* Mutation: the instance controller, too, hears of spec changes only.
WokenByGeneration(old, new) == IF old.gen # new.gen THEN Controllers ELSE {}

\* SetupWithManager of each controller: a generation predicate keeps status changes from
\* all but the instance controller.
WokenByInstance(old, new) ==
    IF old.gen # new.gen THEN Controllers ELSE {"instance"} \cap Controllers

WatchInstance ==
    /\ SyncCache(WokenByInstance(copy["cache"], cr))
    /\ UNCHANGED <<worldVars, clickHouseVars, retentionVars>>

\* Every controller lets a deleted instance be.
SkipDeleted(c) ==
    /\ Ready(c)
    /\ copy["cache"].deleting
    /\ Finish(c, FALSE)
    /\ NoWrite("cache")
    /\ UNCHANGED <<worldVars, clickHouseVars, retentionVars>>

RestartOperator ==
    /\ Restart
    /\ pass' = NoPass /\ remade' = {}
    /\ UNCHANGED <<worldVars, clickHouseVars>>

-----------------------------------------------------------------------------
(* The specification                                                       *)

InstanceController ==
    /\ \/ InstancePass
       \/ DatastoresFail
       \/ NetworkingFails
       \/ RejectSpec
    /\ UNCHANGED <<clickHouseVars, retentionVars>>

HealthMonitor == HealthPass /\ UNCHANGED <<clickHouseVars, retentionVars>>

MigrationController ==
    /\ \/ StartMigration
       \/ PollMigration
       \/ ReportFailure
       \/ RecordMigration
       \/ MigrationRefusesSpec
       \/ MigrationUpToDate
    /\ UNCHANGED <<clickHouseVars, retentionVars>>

RetentionController == RetentionSteps(Reachable) /\ UNCHANGED worldVars

SchemaDriftController == DriftPass(Reachable) /\ UNCHANGED worldVars

Reconcile ==
    \/ InstanceController
    \/ HealthMonitor
    \/ MigrationController
    \/ RetentionController
    \/ SchemaDriftController
    \/ \E c \in Controllers : SkipDeleted(c)

\* The cluster's own controllers and kubelets do their work.
Cluster ==
    \/ /\ \/ \E c \in DOMAIN Pods : PodsStart(c)
          \/ \E c \in Components : DeploymentStatus(c)
          \/ JobExpires
       /\ UNCHANGED <<clickHouseVars, retentionVars>>
    \/ JobEnds("done") /\ CreateTables

\* What may happen to the world, bounded by MaxFaults.
Disturbance ==
    \/ /\ "workload" \in scenario.strikes
       /\ \/ \E c \in Components : \E p \in Pods[c] :
                \E s \in PodStates \ {"absent"} : PodChanges(c, p, s)
          \/ \E p \in Pods["migration"] : \E s \in Troubles : PodChanges("migration", p, s)
          \/ JobEnds("failed")
       /\ UNCHANGED <<clickHouseVars, retentionVars>>
    \/ /\ "datastores" \in scenario.strikes
       /\ \E d \in Dependencies : DatastoreFlips(d) \/ DatastoreHangs(d)
       /\ UNCHANGED <<clickHouseVars, retentionVars>>
    \/ /\ "clickhouse" \in scenario.strikes
       /\ \/ \E t \in Expected : TableFlips(t)
          \/ \E t \in Timed : TableRefuses(t)
          \/ \E n \in Nodes, d \in Disks : DiskFills(n, d)
       /\ UNCHANGED worldVars

Init ==
    /\ scenario \in Scenarios
    /\ WorldInit(scenario.start)
    /\ ClickHouseInit(scenario.start, scenario.first)
    /\ StoreStarts({FirstInstance(scenario.start, scenario.first)}, scenario.spent)

Next ==
    /\ \/ Reconcile
       \/ WatchInstance
       \/ Cluster
       \/ Disturbance
       \/ \E spec \in scenario.specs : Edit(spec)
       \/ Delete
       \/ RestartOperator
    /\ UNCHANGED scenario

Spec == Init /\ [][Next]_vars

\* controller-runtime gives every controller a queue and a worker of its own and serves
\* every RequeueAfter, informers deliver, and the cluster goes about its work.
Fairness ==
    /\ WF_moving(InstanceController)
    /\ WF_moving(HealthMonitor)
    /\ WF_moving(MigrationController)
    /\ WF_moving(RetentionController)
    /\ WF_moving(SchemaDriftController)
    /\ WF_moving(\E c \in Controllers : SkipDeleted(c))
    /\ WF_moving(WatchInstance)
    /\ WF_moving(Cluster)

FairSpec == Spec /\ Fairness

-----------------------------------------------------------------------------
(* What the runs check                                                     *)

Issue == [pod : UNION {Pods[c] : c \in DOMAIN Pods}, fatal : BOOLEAN]

Phases == {"Unset", "Pending", "Migrating", "Running", "Degraded", "Error"}
ComponentReports == [Components -> [ready : BOOLEAN, issues : SUBSET Issue] \cup {Unset}]
ConditionReports == [Conditions -> [status : {"Unset", "True", "False"}, text : Texts]]
RetentionReports == [reason : RetentionReasons, gen : Nat]
DriftReports == {"Unset", "Disabled", "CheckFailed", "NoDriftDetected", "TablesMissing"}
Flags == {"nil", "true", "false"}

Instances ==
    [gen : Nat, deleting : BOOLEAN, spec : Specs,
     phase : Phases, ready : BOOLEAN, readyCond : BOOLEAN,
     status : ComponentReports, cond : ConditionReports,
     mig : {"none", "running", "failed", "done"}, migIssues : SUBSET Issue, migrated : BOOLEAN,
     retention : RetentionReports, retentionApplied : Flags,
     pressure : PressureReports, drift : DriftReports, schemaDrift : Flags]

ASSUME NoCopyAssumption == NoCopy \notin Instances

\* A reported list of issues never exceeds maxReportedPodIssues ("status is not a log"), and
\* the retention condition is about a generation that there was.
WithinLimits(i) ==
    /\ \A c \in Components : i.status[c] # Unset =>
          Cardinality(i.status[c].issues) <= MaxReportedPodIssues
    /\ Cardinality(i.migIssues) <= MaxReportedPodIssues
    /\ i.retention.gen <= i.gen

\* The type of every variable; in particular no list of pod issues that the status holds
\* is longer than collectPodIssues may make it, and a cache that counts as current shows
\* the object itself.
TypeOK ==
    /\ StoreTypeOK(Instances, {"idle", "alter", "query", "write"})
    /\ FreshMeansEqual
    /\ WithinLimits(cr)
    /\ \A h \in Holders : copy[h] # NoCopy => WithinLimits(copy[h])
    /\ WorldTypeOK
    /\ ClickHouseTypeOK
    /\ scenario \in Scenarios

\* The phase that is due to the instance, whatever its status says, crash loops aside.
ActualPhase ==
    IF job = "failed" \/ \E c \in Components : \E p \in Pods[c] : pods[c][p] = "stuck"
    THEN "Error"
    ELSE IF ~cr.migrated THEN "Migrating"
    ELSE IF \E c \in Components : \A p \in Pods[c] : pods[c][p] # "ready" THEN "Pending"
    ELSE IF up # Dependencies THEN "Degraded"
    ELSE "Running"

CrashLoop == \E c \in Components : \E p \in Pods[c] : pods[c][p] = "crashing"

\* The disturbances are bounded, so the world comes to hold still; but for a datastore that
\* takes connections and breaks them off.  The error of every probe of it names another
\* port, updateInstanceStatus compares messages too, and every probe is written: the status
\* never rests, and the writes of the others may lose to these for ever.
Still == <>[](hung = {})

\* Once the world holds still, the phase comes to say what is the case and stays so, and
\* status.ready with it (derivePhase over what three controllers report).  Two cases in
\* which the docs say something else than the code does are left open: with a crash loop,
\* which docs/guide/troubleshooting.md calls Degraded and derivePhase does not look at,
\* either phase will do; and of a spec that BuildConfig refuses nothing is said but that
\* the Ready condition is False, which status.ready, documented to agree with it, may not be.
PhaseSettles ==
    Still => <>[](\/ cr.deleting
                  \/ ~cr.spec.valid /\ ~cr.readyCond
                  \/ /\ cr.spec.valid
                     /\ cr.phase = ActualPhase \/ (CrashLoop /\ cr.phase = "Degraded")
                     /\ cr.ready = (cr.phase = "Running"))

\* Once the world holds still, the controllers stop writing: no two of them undo each
\* other's work and no report flaps (docs/guide/architecture.md, the Pending-Degraded
\* write loop).
WritesCease == Still => <>[][UNCHANGED cr]_vars

\* A table has the TTL that the spec asks for.  A TTL of 0, documented as infinite, makes no
\* statement and takes no TTL away (buildRetentionStatementsFor); nothing is said of it.
InPlace(t) == cr.spec.retention /\ cr.spec.ttl[t] > 0 => ttl[t] = cr.spec.ttl[t]

Claimed == cr.retention = [reason |-> "PoliciesApplied", gen |-> cr.gen]

\* The status comes to claim that the policies of this generation are applied only when
\* ClickHouse has every positive TTL of the spec, on every table that was not dropped or
\* made anew behind the back of the pass that makes the claim ("RetentionApplied reflects
\* what ClickHouse actually accepted"): a pass that stopped half way, a stale copy or a
\* lost write never leads to it.
ClaimsOnlyWhatIsInPlace ==
    [][Claimed' /\ ~Claimed => \A t \in Timed \ remade : InPlace(t)']_vars

ActualRetention ==
    IF ~cr.spec.retention THEN "NotConfigured"
    ELSE IF Statements(cr.spec) = {} THEN "NoTTLConfigured"
    ELSE IF Refused(Statements(cr.spec), Reachable) = {} THEN "PoliciesApplied"
    ELSE "ApplyFailed"

ActualDrift ==
    IF ~cr.spec.drift THEN "Disabled"
    ELSE IF ~Reachable THEN "CheckFailed"
    ELSE IF Expected \subseteq present THEN "NoDriftDetected"
    ELSE "TablesMissing"

\* The fullest node decides: it is the one on which writes fail first.
ActualPressure ==
    LET full(threshold) == threshold > 0 /\ \E n \in Nodes :
                              disk[n].total > 0 /\ disk[n].used * 100 >= threshold * disk[n].total
    IN  IF ~Reachable THEN "QueryFailed"
        ELSE IF \A n \in Nodes : disk[n].total = 0 THEN "NoCapacityReported"
        ELSE IF full(cr.spec.critical) THEN "CriticalThresholdExceeded"
        ELSE IF full(cr.spec.warn) THEN "WarningThresholdExceeded"
        ELSE "WithinThresholds"

\* Once the world holds still, the status comes to say of ClickHouse what is the case:
\* which policies stand, for which generation, with the positive TTLs to show for it, what is
\* missing, and how full the fullest node is.
ClickHouseIsReported ==
    Still => <>[](\/ cr.deleting
                  \/ /\ cr.retention = [reason |-> ActualRetention, gen |-> cr.gen]
                     /\ cr.retention.reason = "PoliciesApplied" => \A t \in Timed : InPlace(t)
                     /\ cr.drift = ActualDrift
                     /\ cr.spec.retention /\ cr.spec.pressure => cr.pressure = ActualPressure)

\* "Running: all components ready and dependencies reachable"
\* (docs/guide/troubleshooting.md): an instance that is and stays so comes to be Running.
HealthyIsRunning ==
    <>[](cr.deleting \/ ~cr.spec.valid \/ ActualPhase # "Running" \/ cr.phase = "Running")
=============================================================================
