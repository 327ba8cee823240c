------------------------------- MODULE Health -------------------------------
(***************************************************************************)
(* How the operator finds out what state an instance is in, and says so:   *)
(* the health monitor probes the datastores and diagnoses the pods         *)
(* (health_monitor.go, health_probes.go, pod_issues.go), the migration     *)
(* controller reports on its Job's pods, and the instance controller       *)
(* derives the phase from what the others wrote (phase.go, updateStatus in *)
(* langfuseinstance_controller.go).                                        *)
(*                                                                         *)
(* Every pass is one step on the cached copy: its calls only read, or      *)
(* start what is not yet there, until the single status write at its end.  *)
(* The module Migration has the migration controller in full; here it is   *)
(* reduced to what it tells the others, for one version and one target.    *)
(***************************************************************************)
EXTENDS InstanceStore, FiniteSets

CONSTANTS
    Pods,                  \* the pods of each component, and of the migration Job
    Rank,                  \* the place of each pod's name in the order of strings
    Dependencies,          \* the datastores that are probed
    MaxReportedPodIssues,  \* maxReportedPodIssues
    Unset                  \* a status field that is nil

ASSUME MaxReportedAssumption == MaxReportedPodIssues \in Nat \ {0}
ASSUME PodsAssumption == {"web", "worker", "migration"} \subseteq DOMAIN Pods

VARIABLES
    pods,       \* the state of every pod as the informer cache shows it
    deploy,     \* the status of each Deployment as the informer cache shows it
    job,        \* the migration Job
    up,         \* the datastores that answer a probe
    hung        \* those that take a connection and break it off

worldVars == <<pods, deploy, job, up, hung>>

Components == {"web", "worker"}
PodStates == {"absent", "starting", "ready", "crashing", "stuck", "terminating"}

\* The conditions that the health monitor publishes.
Conditions == Dependencies \cup Components

Cached == copy["cache"]

-----------------------------------------------------------------------------
(* Pod issues                                                              *)

\* podIssues and containerIssue: a pod that starts, runs, is done or terminates is no
\* issue.  Fatal is what needs a human: an image or a Secret key that is not there; a
\* crash loop and a pod that cannot be scheduled may pass.
PodIssues(states) ==
    {[pod |-> p, fatal |-> states[p] = "stuck"] :
        p \in {q \in DOMAIN states : states[q] \in {"crashing", "stuck"}}}

HasFatalIssue(issues) == \E i \in issues : i.fatal

\* Mutation: the issues stay in the order in which the pods were listed, which is any.
FatalFirst(i, o) == o.fatal => i.fatal

\* The order of the sort: fatal issues first, then by the pod's name.
Precedes(i, o) == IF i.fatal # o.fatal THEN i.fatal ELSE Rank[i.pod] < Rank[o.pod]

\* As many of the issues as are reported, none of which comes after one that is not.
Leading(issues, reported) ==
    /\ Cardinality(reported) <= MaxReportedPodIssues
    /\ reported # issues => Cardinality(reported) = MaxReportedPodIssues
    /\ \A i \in reported, o \in issues \ reported : Precedes(i, o)

\* Mutation: nothing is cut off.
CollectedInFull(states) == {PodIssues(states)}

\* collectPodIssues, from pods that are listed in no particular order: what may be left
\* of the sorted issues after the cut.
CollectPodIssues(states) ==
    {reported \in SUBSET PodIssues(states) : Leading(PodIssues(states), reported)}

\* A Deployment with ready replicas and none that is not.
FullyReady(d) == d.ready > 0 /\ d.ready >= d.replicas

\* podIssuesFor and checkComponentDeployment: the pods are asked only when the
\* Deployment exists and is not fully ready.
IssuesFor(c) ==
    IF deploy[c] = Unset \/ FullyReady(deploy[c])
    THEN {{}}
    ELSE CollectPodIssues(pods[c])

-----------------------------------------------------------------------------
(* The phase                                                               *)

\* dependencyHealth
AnyUnhealthy(i) == \E d \in Dependencies : i.cond[d].status = "False"
AllHealthy(i) == \A d \in Dependencies : i.cond[d].status = "True"

ComponentsReady(i) == \A c \in Components : i.status[c] # Unset /\ i.status[c].ready

InstanceHasFatalPodIssue(i) ==
    \/ \E c \in Components : i.status[c] # Unset /\ HasFatalIssue(i.status[c].issues)
    \/ HasFatalIssue(i.migIssues)

\* derivePhase, in the order of its cases.  The first one, a datastore target that moved,
\* is in Migration.
DerivePhase(i) ==
    CASE i.mig = "failed" \/ InstanceHasFatalPodIssue(i) -> "Error"
      [] i.mig = "running" /\ ~InstanceHasFatalPodIssue(i) -> "Migrating"
      [] OTHER -> IF ~ComponentsReady(i) THEN "Pending"
                  ELSE IF AnyUnhealthy(i) THEN "Degraded"
                  ELSE IF AllHealthy(i) THEN "Running"
                  ELSE "Pending"

-----------------------------------------------------------------------------
(* The instance controller                                                 *)

\* updateStatus: what the Deployments say now; one that the cache does not show leaves
\* the status as it was.
Observed(i, issues) ==
    LET seen == [i EXCEPT !.status = [c \in Components |->
                    IF deploy[c] = Unset THEN i.status[c]
                    ELSE [ready |-> deploy[c].ready > 0, issues |-> issues[c]]]]
        phase == DerivePhase(seen)
    IN  [seen EXCEPT !.phase = phase, !.ready = (phase = "Running"),
                     !.readyCond = (phase = "Running")]

\* apply: the Deployments exist from now on, and get their pods.
ApplyWorkload ==
    pods' = [c \in DOMAIN pods |->
                IF c \in Components
                THEN [p \in Pods[c] |-> IF pods[c][p] = "absent" THEN "starting" ELSE pods[c][p]]
                ELSE pods[c]]

\* Reconcile.  An error, a lost status write among them, repeats the pass.
InstancePass ==
    /\ Ready("instance")
    /\ ~Cached.deleting
    /\ Cached.spec.valid
    /\ ApplyWorkload
    /\ \E web \in IssuesFor("web"), worker \in IssuesFor("worker"),
          outcome \in {"ok", "conflict", "error"} :
          /\ UpdateInstanceStatus("cache",
                Observed(Cached, [c \in Components |-> IF c = "web" THEN web ELSE worker]),
                outcome)
          /\ Finish("instance", outcome # "ok")
    /\ UNCHANGED <<deploy, job, up, hung>>

\* A call of the pass fails: the status is not looked at, and the error repeats the pass.
InstancePassFails ==
    /\ Ready("instance")
    /\ ~Cached.deleting
    /\ Cached.spec.valid
    /\ Fault
    /\ Finish("instance", TRUE)
    /\ UNCHANGED <<cr, fresh, deploy, job, up, hung>>

\* reconcileClickHouse and reconcileRedis come before the Deployments, which they leave
\* as they are when they fail; so does an apply that fails without effect.
DatastoresFail == InstancePassFails /\ UNCHANGED pods

\* reconcileNetworking and reconcilePlatform come after the Deployments.
NetworkingFails == InstancePassFails /\ ApplyWorkload

\* BuildConfig refuses the spec: the Ready condition says so, the phase and status.ready
\* stay, and the error repeats the pass.
RejectSpec ==
    /\ Ready("instance")
    /\ ~Cached.deleting
    /\ ~Cached.spec.valid
    /\ \E outcome \in {"ok", "conflict", "error"} :
          UpdateInstanceStatus("cache",
             [Cached EXCEPT !.readyCond = FALSE, !.phase = IF @ = "Unset" THEN "Pending" ELSE @],
             outcome)
    /\ Finish("instance", TRUE)
    /\ UNCHANGED worldVars

-----------------------------------------------------------------------------
(* The health monitor                                                      *)

\* probeDatabase, probeClickHouse, probeRedis, probeBlobStorage: the endpoint that the spec
\* and its Secrets name can be worked out, and answers within the probe's timeout.
Probe(d) == d \in up

\* A condition: its status, and what its message adds to it.  A text of 0 is the same
\* whenever the same thing is reported.
NamedPorts == 1..2
Texts == {0} \cup NamedPorts
ConditionOf(status, text) == [status |-> status, text |-> text]

\* The message of a probe.  The error of a connection that was taken and broken off names
\* the local port, another one every time; all other results read the same every time.
TextsOf(d) == IF d \in hung THEN NamedPorts ELSE {0}

\* checkDatabase and the like: a failed probe of any kind makes the condition False.  A
\* blob storage that is not configured counts as one that answers.
ConditionFromProbe(d, text) == ConditionOf(IF Probe(d) THEN "True" ELSE "False", text)

\* checkComponentDeployment: the condition of a component.
ComponentCondition(c) ==
    ConditionOf(IF deploy[c] # Unset /\ FullyReady(deploy[c]) THEN "True" ELSE "False", 0)

\* checkWebDeployment and checkWorkerDeployment: the issues of each component; the replica
\* counts are left to the instance controller.
WithIssues(i, issues) ==
    [c \in Components |->
        [ready |-> i.status[c] # Unset /\ i.status[c].ready, issues |-> issues[c]]]

\* The conditions that a pass publishes.
Published(texts) ==
    [d \in Conditions |->
        IF d \in Dependencies THEN ConditionFromProbe(d, texts[d]) ELSE ComponentCondition(d)]

\* What the probes and the Deployments say.
Diagnosed(i, issues, texts) ==
    [i EXCEPT !.cond = Published(texts), !.status = WithIssues(i, issues)]

\* Reconcile.  Every end of it comes back: after the interval, after a conflict, or by
\* the error.
HealthPass ==
    /\ Ready("health")
    /\ ~Cached.deleting
    /\ Cached.mig # "running"
    /\ \E web \in IssuesFor("web"), worker \in IssuesFor("worker"),
          texts \in [Dependencies -> Texts], outcome \in {"ok", "conflict", "error"} :
          /\ \A d \in Dependencies : texts[d] \in TextsOf(d)
          /\ UpdateInstanceStatus("cache",
                Diagnosed(Cached, [c \in Components |-> IF c = "web" THEN web ELSE worker], texts),
                outcome)
    /\ Finish("health", TRUE)
    /\ UNCHANGED worldVars

-----------------------------------------------------------------------------
(* The migration controller                                                *)

\* Reconcile gets to the Job: the migration is not recorded and the spec makes sense.
Migrates ==
    /\ Ready("migration")
    /\ ~Cached.deleting
    /\ ~Cached.migrated
    /\ Cached.spec.valid

\* The Job is not there: announce it, whether or not the status write
\* lands, and create the Job.
StartMigration ==
    /\ Migrates
    /\ job = "none"
    /\ \E outcome \in {"ok", "conflict", "error"} :
          UpdateInstanceStatus("cache", [Cached EXCEPT !.mig = "running"], outcome)
    /\ job' = "running"
    /\ pods' = [pods EXCEPT !["migration"] = [p \in Pods["migration"] |-> "starting"]]
    /\ Finish("migration", TRUE)
    /\ UNCHANGED <<deploy, up, hung>>

\* The Job runs: its pods' issues are reported and the condition follows them.
PollMigration ==
    /\ Migrates
    /\ job = "running"
    /\ \E issues \in CollectPodIssues(pods["migration"]),
          outcome \in {"ok", "conflict", "error"} :
          UpdateInstanceStatus("cache",
             [Cached EXCEPT !.migIssues = issues,
                            !.mig = IF issues = {} THEN @ ELSE "running"],
             outcome)
    /\ Finish("migration", TRUE)
    /\ UNCHANGED worldVars

\* The Job has used up its attempts.
ReportFailure ==
    /\ Migrates
    /\ job = "failed"
    /\ \E issues \in CollectPodIssues(pods["migration"]),
          outcome \in {"ok", "conflict", "error"} :
          /\ UpdateInstanceStatus("cache",
                [Cached EXCEPT !.migIssues = issues, !.mig = "failed"], outcome)
          /\ Finish("migration", RequeueIf(outcome))
    /\ UNCHANGED worldVars

\* The Job has succeeded.  The issues of its pods are left as they were last reported.
Succeeded(i) == [i EXCEPT !.mig = "done", !.migrated = TRUE]

RecordMigration ==
    /\ Migrates
    /\ job = "done"
    /\ \E outcome \in {"ok", "conflict", "error"} :
          /\ UpdateInstanceStatus("cache", Succeeded(Cached), outcome)
          /\ Finish("migration", RequeueIf(outcome))
    /\ UNCHANGED worldVars

\* BuildConfig refuses the spec; the error repeats the pass.
MigrationRefusesSpec ==
    /\ Ready("migration")
    /\ ~Cached.deleting
    /\ ~Cached.migrated
    /\ ~Cached.spec.valid
    /\ Finish("migration", TRUE)
    /\ NoWrite("cache")
    /\ UNCHANGED worldVars

\* The migration is recorded, or not to be run by the operator.
MigrationUpToDate ==
    /\ Ready("migration")
    /\ ~Cached.deleting
    /\ Cached.migrated
    /\ Finish("migration", FALSE)
    /\ NoWrite("cache")
    /\ UNCHANGED worldVars

-----------------------------------------------------------------------------
(* The cluster                                                             *)

\* The pods of a component get through their start.
PodsStart(c) ==
    /\ \E p \in Pods[c] : pods[c][p] = "starting"
    /\ pods' = [pods EXCEPT ![c] = [p \in Pods[c] |-> IF @[p] = "starting" THEN "ready" ELSE @[p]]]
    /\ UNCHANGED <<storeVars, deploy, job, up, hung>>

\* Something happens to a pod: it crashes, is replaced, gets stuck or comes round.  Pods
\* are not watched, so the event reaches no controller.
PodChanges(c, p, s) ==
    /\ pods[c][p] \notin {"absent", s}
    /\ c = "migration" => job = "running"
    /\ Fault
    /\ pods' = [pods EXCEPT ![c][p] = s]
    /\ UNCHANGED <<cr, copy, fresh, queue, pc, deploy, job, up, hung>>

\* Deployments are owned by the instance, and their status changes are events too.
WokenByDeployment == {"instance"}

Counted(c) ==
    [ready |-> Cardinality({p \in Pods[c] : pods[c][p] = "ready"}),
     replicas |-> Cardinality({p \in Pods[c] : pods[c][p] # "terminating"})]

DeploymentStatus(c) ==
    /\ \A p \in Pods[c] : pods[c][p] # "absent"
    /\ deploy[c] # Counted(c)
    /\ deploy' = [deploy EXCEPT ![c] = Counted(c)]
    /\ queue' = queue \cup (WokenByDeployment \cap Controllers)
    /\ UNCHANGED <<cr, copy, fresh, pc, faults, pods, job, up, hung>>

\* The Job's pods come to their end; an event wakes the migration controller.
JobEnds(result) ==
    /\ job = "running"
    /\ \/ /\ result = "done"
          /\ \A p \in Pods["migration"] : pods["migration"][p] = "ready"
          /\ UNCHANGED faults
       \/ /\ result = "failed"
          /\ \E p \in Pods["migration"] : pods["migration"][p] = "crashing"
          /\ Fault
    /\ job' = result
    /\ queue' = queue \cup ({"migration"} \cap Controllers)
    /\ pods' = [pods EXCEPT !["migration"] = [p \in Pods["migration"] |->
                   IF result = "done" THEN "absent" ELSE "crashing"]]
    /\ UNCHANGED <<cr, copy, fresh, pc, deploy, up, hung>>

\* ttlSecondsAfterFinished, an hour, removes the Job and its pods: long after any pass
\* that was due when the Job ended.
JobExpires ==
    /\ job \in {"done", "failed"}
    /\ "migration" \notin queue
    /\ job' = "none"
    /\ queue' = queue \cup ({"migration"} \cap Controllers)
    /\ pods' = [pods EXCEPT !["migration"] = [p \in Pods["migration"] |-> "absent"]]
    /\ UNCHANGED <<cr, copy, fresh, pc, faults, deploy, up, hung>>

\* A datastore stops or starts to answer.
DatastoreFlips(d) ==
    /\ Fault
    /\ up' = IF d \in up THEN up \ {d} ELSE up \cup {d}
    /\ hung' = hung \ {d}
    /\ UNCHANGED <<cr, copy, fresh, queue, pc, pods, deploy, job>>

\* A datastore goes on taking connections and breaks them off, which the probes of
\* PostgreSQL and of the blob storage, that only dial, do not notice.
DialOnly == {"database", "blob"}

DatastoreHangs(d) ==
    /\ d \notin DialOnly \cup hung
    /\ Fault
    /\ up' = up \ {d}
    /\ hung' = hung \cup {d}
    /\ UNCHANGED <<cr, copy, fresh, queue, pc, pods, deploy, job>>

-----------------------------------------------------------------------------

\* A new instance has reported nothing; here its migrations are not the operator's to run
\* (runOnDeploy is off).  One that has been running for a while has all its components
\* ready; unless it is being upgraded, its migration is recorded.
FirstStatus(start) ==
    IF start = "new"
    THEN [phase |-> "Unset", ready |-> FALSE, readyCond |-> FALSE,
          status |-> [c \in Components |-> Unset],
          cond |-> [d \in Conditions |-> ConditionOf("Unset", 0)],
          mig |-> "none", migIssues |-> {}, migrated |-> TRUE]
    ELSE [phase |-> "Running", ready |-> TRUE, readyCond |-> TRUE,
          status |-> [c \in Components |-> [ready |-> TRUE, issues |-> {}]],
          cond |-> [d \in Conditions |-> ConditionOf("True", 0)],
          mig |-> "done", migIssues |-> {}, migrated |-> start = "running"]

\* The cluster that such an instance finds.
WorldInit(start) ==
    /\ pods = [c \in DOMAIN Pods |-> [p \in Pods[c] |->
                 IF start # "new" /\ c \in Components THEN "ready" ELSE "absent"]]
    /\ deploy = [c \in Components |-> IF start = "new" THEN Unset ELSE Counted(c)]
    /\ job = "none"
    /\ up = Dependencies
    /\ hung = {}

WorldTypeOK ==
    /\ DOMAIN pods = DOMAIN Pods
    /\ \A c \in DOMAIN Pods : pods[c] \in [Pods[c] -> PodStates]
    /\ deploy \in [Components -> [ready : Nat, replicas : Nat] \cup {Unset}]
    /\ job \in {"none", "running", "done", "failed"}
    /\ up \subseteq Dependencies
    /\ hung \subseteq Dependencies \ up
=============================================================================
