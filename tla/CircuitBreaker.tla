--------------------------- MODULE CircuitBreaker ---------------------------
(***************************************************************************)
(* The circuit breaker (internal/controller/circuit_breaker.go) and the    *)
(* instance controller, which both decide the worker Deployment's replica  *)
(* count: the breaker by merge patches against a cached Deployment, the    *)
(* instance controller by server-side apply, declaring a count only while  *)
(* the status it read does not say that the breaker holds the worker.      *)
(*                                                                         *)
(* The breaker's counters and restore points live in the process; the flag *)
(* that tells the instance controller to stand back lives in the status.   *)
(* Failure counts matter only up to the threshold and are capped there.    *)
(***************************************************************************)
EXTENDS InstanceStore, Sequences

CONSTANTS
    Components,    \* the dependencies, in the order in which they are probed
    Threshold,     \* failureThreshold
    Restoring,     \* the dependencies with recoveryAction restoreScale
    Specs,         \* [enabled, replicas]: what the user may set
    Absent,        \* no worker Deployment, or no restore point
    MaxReplicas,   \* the largest count that is set
    MaxEdits,      \* bound on edits of the spec
    MaxFlips       \* bound on dependencies failing or recovering

\* Reconcile probes each dependency once, and takes a threshold that is not positive for
\* the default one.
ASSUME BreakerAssumption ==
    /\ Len(Components) \in Nat
    /\ \A j, k \in 1..Len(Components) : Components[j] = Components[k] => j = k
    /\ Threshold \in Nat \ {0}
    /\ MaxReplicas \in Nat \ {0} /\ MaxEdits \in Nat /\ MaxFlips \in Nat
    /\ \A spec \in Specs : spec.replicas \in 0..MaxReplicas
    /\ {"breaker", "instance"} \subseteq Controllers

VARIABLES
    active,       \* circuitBreakerActive in the running reconcile's copy
    todo,         \* the next dependency to probe
    failures,     \* failureCounts
    saved,        \* savedReplicas
    replicas,     \* spec.replicas of the worker Deployment
    owners,       \* the field managers of spec.replicas
    workerCache,  \* spec.replicas as the informer cache shows it
    up,           \* whether each dependency answers its probe
    flips         \* changes of up so far

memoryVars == <<active, todo, failures, saved>>
workerVars == <<replicas, owners, workerCache>>
vars == <<storeVars, memoryVars, workerVars, up, flips>>

Dependencies == {Components[k] : k \in 1..Len(Components)}

-----------------------------------------------------------------------------
(* The breaker                                                             *)

\* Mutation: the flag of the pass before is taken along.
KeepsTheFlag ==
    /\ Get("breaker")
    /\ todo' = 1
    /\ UNCHANGED <<active, failures, saved, workerVars, up, flips>>

GetBreaker ==
    /\ Get("breaker")
    /\ active' = copy["cache"].active
    /\ todo' = 1
    /\ UNCHANGED <<failures, saved, workerVars, up, flips>>

SkipBreaker ==
    /\ pc["breaker"] = "read"
    /\ ~copy["breaker"].spec.enabled
    /\ NoWrite("breaker")
    /\ Return("breaker", FALSE)
    /\ UNCHANGED <<memoryVars, workerVars, up, flips>>

Probing(c) ==
    /\ pc["breaker"] = "read"
    /\ copy["breaker"].spec.enabled
    /\ todo <= Len(Components)
    /\ c = Components[todo]
    /\ todo' = todo + 1

\* A merge patch carries only what differs from the cached Deployment, and makes
\* the breaker the manager of what it changes.
PatchReplicas(n) ==
    IF workerCache = n
    THEN UNCHANGED <<replicas, owners>>
    ELSE /\ replicas' = n
         /\ owners' = IF replicas = n THEN owners \cup {"breaker"} ELSE {"breaker"}

\* A call to patch the Deployment that returns an error, with or without effect.
FailedPatch(n) ==
    /\ Fault
    /\ PatchReplicas(n) \/ UNCHANGED <<replicas, owners>>

\* Mutation: the worker comes back with one replica more than it had.
RestoreOneMore(c) == IF saved[c] \in {Absent, 0} THEN 1 ELSE saved[c] + 1

RestorePoint(c) == IF saved[c] \in {Absent, 0} THEN 1 ELSE saved[c]

\* recoverCircuitBreaker: the worker is scaled back, the flag cleared and the
\* restore point dropped; an error of the patch is only logged.
Recover(c) ==
    \/ /\ c \notin Restoring \/ workerCache = Absent
       /\ UNCHANGED <<active, saved, replicas, owners, faults>>
    \/ /\ c \in Restoring
       /\ workerCache # Absent
       /\ \/ /\ PatchReplicas(RestorePoint(c))
             /\ active' = FALSE
             /\ saved' = [saved EXCEPT ![c] = Absent]
             /\ UNCHANGED faults
          \/ /\ FailedPatch(RestorePoint(c))
             /\ UNCHANGED <<active, saved>>

\* The dependency answers: the count is reset, and the circuit closed if the count
\* had opened it.
ProbeSucceeds(c) ==
    /\ Probing(c)
    /\ up[c]
    /\ failures' = [failures EXCEPT ![c] = 0]
    /\ IF failures[c] >= Threshold
       THEN Recover(c)
       ELSE UNCHANGED <<active, saved, replicas, owners, faults>>
    /\ UNCHANGED <<cr, copy, fresh, queue, pc, workerCache, up, flips>>

Counted(c) == IF failures[c] < Threshold THEN failures[c] + 1 ELSE Threshold

\* Mutation: a tripped breaker does not look at the scale of the worker.
TrustsTheFlag == active

\* The breaker is open and the worker is where it should be.
AlreadyOpen == active /\ workerCache = 0

\* openCircuitBreaker: the worker is scaled to zero unless it is known to be there;
\* the restore point is taken when the breaker does not know itself to be open.
Open(c) ==
    \/ /\ workerCache = Absent \/ AlreadyOpen
       /\ UNCHANGED <<active, saved, replicas, owners, faults>>
    \/ /\ workerCache # Absent
       /\ ~AlreadyOpen
       /\ saved' = IF active THEN saved ELSE [saved EXCEPT ![c] = workerCache]
       /\ \/ PatchReplicas(0) /\ active' = TRUE /\ UNCHANGED faults
          \/ FailedPatch(0) /\ UNCHANGED active

\* The dependency does not answer: from the threshold on, every probe opens the
\* circuit.
ProbeFails(c) ==
    /\ Probing(c)
    /\ ~up[c]
    /\ failures' = [failures EXCEPT ![c] = Counted(c)]
    /\ IF Counted(c) >= Threshold
       THEN Open(c)
       ELSE UNCHANGED <<active, saved, replicas, owners, faults>>
    /\ UNCHANGED <<cr, copy, fresh, queue, pc, workerCache, up, flips>>

\* The pass ends with the status write; whatever comes of it, the breaker probes
\* again.
WriteBreaker ==
    /\ pc["breaker"] = "read"
    /\ copy["breaker"].spec.enabled
    /\ todo > Len(Components)
    /\ \E outcome \in {"ok", "conflict", "error"} :
          UpdateInstanceStatus("breaker", [copy["breaker"] EXCEPT !.active = active], outcome)
    /\ Return("breaker", TRUE)
    /\ UNCHANGED <<memoryVars, workerVars, up, flips>>

Breaker ==
    \/ GetBreaker
    \/ SkipBreaker
    \/ \E c \in Dependencies : ProbeSucceeds(c) \/ ProbeFails(c)
    \/ WriteBreaker

-----------------------------------------------------------------------------
(* The instance controller, as far as it concerns the worker               *)

GetInstance ==
    /\ Get("instance")
    /\ UNCHANGED <<memoryVars, workerVars, up, flips>>

\* Mutation: the count is never declared once the Deployment exists.
OwnedByOthers(i) ==
    /\ replicas' = IF replicas = Absent THEN i.spec.replicas ELSE replicas
    /\ owners' = owners \ {"instance"}

\* ownedReplicas: no count is declared while the breaker holds the worker.  A
\* count that no other manager has set goes when it is no longer declared, and
\* the API server's default takes its place.
OwnedReplicas(i) ==
    IF i.active
    THEN /\ replicas' = IF replicas = Absent \/ owners = {"instance"} THEN 1 ELSE replicas
         /\ owners' = owners \ {"instance"}
    ELSE /\ replicas' = i.spec.replicas
         /\ owners' = (IF replicas = i.spec.replicas THEN owners ELSE {}) \cup {"instance"}

\* Server-side apply of the worker Deployment; a failed call repeats the pass.
ApplyWorker ==
    /\ pc["instance"] = "read"
    /\ \/ /\ OwnedReplicas(copy["instance"])
          /\ pc' = [pc EXCEPT !["instance"] = "status"]
          /\ UNCHANGED <<cr, copy, fresh, queue, faults>>
       \/ /\ Fault
          /\ OwnedReplicas(copy["instance"]) \/ UNCHANGED <<replicas, owners>>
          /\ Return("instance", TRUE)
          /\ fresh' = fresh \ {"instance"}
          /\ UNCHANGED cr
    /\ UNCHANGED <<memoryVars, workerCache, up, flips>>

\* updateStatus publishes the count that the cached Deployment shows.
UpdateStatus ==
    /\ pc["instance"] = "status"
    /\ \E outcome \in {"ok", "conflict", "error"} :
          /\ UpdateInstanceStatus("instance",
                [copy["instance"] EXCEPT
                    !.replicas = IF workerCache = Absent THEN @ ELSE workerCache], outcome)
          /\ Return("instance", outcome # "ok")
    /\ UNCHANGED <<memoryVars, workerVars, up, flips>>

InstanceController == GetInstance \/ ApplyWorker \/ UpdateStatus

-----------------------------------------------------------------------------
(* Watches, the user, the dependencies and the process                     *)

\* The breaker hears of spec changes only.
WatchInstance ==
    /\ SyncCache({"instance"} \cup
          (IF copy["cache"].gen # cr.gen THEN {"breaker"} ELSE {}))
    /\ UNCHANGED <<memoryVars, workerVars, up, flips>>

WatchWorker ==
    /\ workerCache # replicas
    /\ workerCache' = replicas
    /\ queue' = queue \cup {"instance"}
    /\ UNCHANGED <<cr, copy, fresh, pc, faults, memoryVars, replicas, owners, up, flips>>

Edit ==
    /\ cr.gen < MaxEdits
    /\ \E spec \in Specs \ {cr.spec} :
          ExternalWrite([cr EXCEPT !.spec = spec, !.gen = @ + 1])
    /\ UNCHANGED <<faults, memoryVars, workerVars, up, flips>>

Flip ==
    /\ flips < MaxFlips
    /\ flips' = flips + 1
    /\ \E c \in Dependencies : up' = [up EXCEPT ![c] = ~@]
    /\ UNCHANGED <<storeVars, memoryVars, workerVars>>

NoCounts == [c \in Dependencies |-> 0]
NoneSaved == [c \in Dependencies |-> Absent]

\* The counters and restore points go with the process.
RestartOperator ==
    /\ Restart
    /\ active' = FALSE
    /\ todo' = 1
    /\ failures' = NoCounts
    /\ saved' = NoneSaved
    /\ workerCache' = replicas
    /\ UNCHANGED <<replicas, owners, up, flips>>

Init ==
    /\ StoreInit({[gen |-> 0, spec |-> spec, active |-> FALSE, replicas |-> 0] : spec \in Specs})
    /\ active = FALSE
    /\ todo = 1
    /\ failures = NoCounts
    /\ saved = NoneSaved
    /\ replicas = Absent
    /\ owners = {}
    /\ workerCache = Absent
    /\ up = [c \in Dependencies |-> TRUE]
    /\ flips = 0

Next ==
    \/ Breaker
    \/ InstanceController
    \/ WatchInstance
    \/ WatchWorker
    \/ Edit
    \/ Flip
    \/ RestartOperator

Spec == Init /\ [][Next]_vars

\* The work queues and the watches keep serving; the breaker's requests come back
\* after its probe interval.
FairSpec ==
    /\ Spec
    /\ WF_vars(Breaker)
    /\ WF_vars(InstanceController)
    /\ WF_vars(WatchInstance)
    /\ WF_vars(WatchWorker)

-----------------------------------------------------------------------------

Counts == 0..MaxReplicas
Objects == [gen : 0..MaxEdits, spec : Specs, active : BOOLEAN, replicas : Counts]

ASSUME NoCopyAssumption == NoCopy \notin Objects

\* Every variable has its type.
TypeOK ==
    /\ StoreTypeOK(Objects, {"idle", "read", "status"})
    /\ active \in BOOLEAN
    /\ todo \in 1..(Len(Components) + 1)
    /\ failures \in [Dependencies -> 0..Threshold]
    /\ saved \in [Dependencies -> Counts \cup {Absent}]
    /\ replicas \in Counts \cup {Absent}
    /\ owners \subseteq {"instance", "breaker"}
    /\ workerCache \in Counts \cup {Absent}
    /\ up \in [Dependencies -> BOOLEAN]
    /\ flips \in 0..MaxFlips

\* What a running pass has found out: it raises the flag on account of a dependency that
\* it has probed already.
RaisedByCount ==
    pc["breaker"] = "read" /\ active /\ ~copy["breaker"].active =>
        \E k \in 1..(todo - 1) : failures[Components[k]] >= Threshold

\* The inductive invariant: types, whose copy is current, and why a flag is raised.
IInv == TypeOK /\ FreshMeansEqual /\ RaisedByCount

\* The status comes to say that the breaker holds the worker only while some dependency has
\* failed its last failureThreshold probes: not from a pass before, nor a count that the
\* same pass has reset, nor an instance controller's write of an old copy.
FlagNeedsOutage ==
    [][cr'.active /\ ~cr.active => \E c \in Dependencies : failures[c] >= Threshold]_vars

SomeDown == \E c \in Dependencies : ~up[c]
AllUp == \A c \in Dependencies : up[c]

\* A pass of the breaker that had something to report and met a conflict.
LosesWrite ==
    WriteBreaker /\ "breaker" \notin fresh /\ active # copy["breaker"].active

\* A lasting outage ends with the worker at zero, whatever the instance controller
\* did from reads without the flag ("Re-asserting zero makes a lost race self-heal
\* on the next probe"), provided the breaker does not lose that race for ever: a
\* lost write is retried after its sibling has finished (statusConflictRetryDelay).
OutageHoldsWorkerAtZero ==
    <>[](cr.spec.enabled /\ SomeDown) /\ <>[][~LosesWrite]_vars => <>[](replicas = 0)

\* Once the breaker is closed for good the worker has the count of the spec,
\* whatever restore point the breaker used (openCircuitBreaker never fights the
\* apply of a closed breaker).
ClosedBreakerFollowsSpec ==
    <>[](AllUp /\ ~cr.active) => <>[](replicas = cr.spec.replicas)

\* "scales worker to zero when failure thresholds are breached; auto-restores on
\* recovery" (CHANGELOG.md): the worker runs again once every dependency does.
WorkerIsRestored ==
    <>[](cr.spec.enabled /\ AllUp) => <>[](replicas \notin {Absent, 0})
=============================================================================
