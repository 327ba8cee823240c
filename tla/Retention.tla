----------------------------- MODULE Retention -----------------------------
(***************************************************************************)
(* The two controllers that look after the ClickHouse schema:              *)
(* the retention controller (retention_controller.go) sets the TTLs of     *)
(* Langfuse's tables and watches the disks, the schema drift controller    *)
(* (schema_drift_controller.go) looks for tables that are missing.  Both   *)
(* go through clickhouse_client.go and report in the status.               *)
(*                                                                         *)
(* A retention pass works on its copy of the object: each statement, the   *)
(* question about the disks and the status write are steps of their own,   *)
(* with tables and disks changing in between.  A schema drift pass asks    *)
(* once and is one step on the cached copy.  ClickHouse is whether it can  *)
(* be reached, its tables with their TTLs in days, and its nodes' disks.   *)
(***************************************************************************)
EXTENDS InstanceStore, Sequences, SequencesExt

CONSTANTS
    Tables,      \* the tables that have a TTL, in the order of langfuseClickHouseTables
    OtherTables, \* the other tables that are expected
    Nodes,       \* the nodes of the ClickHouse cluster
    Disks,       \* what the disks of a node may hold: [used, total]
    FirstDisk    \* what they hold at first

VARIABLES
    present,     \* the tables that exist
    stubborn,    \* those that refuse to be altered
    ttl,         \* the TTL of each table, 0 when it has none
    disk,        \* the disks of each node
    pass,        \* the retention pass: what it has yet to do and has found out
    remade       \* history: the tables that were dropped or made anew during that pass

clickHouseVars == <<present, stubborn, ttl, disk>>
retentionVars == <<pass, remade>>

Timed == Range(Tables)
Expected == Timed \cup OtherTables

\* What the informer cache shows of the object.
CachedInstance == copy["cache"]

-----------------------------------------------------------------------------
(* Retention                                                               *)

\* buildRetentionStatementsFor: one statement for every table with a positive TTL, by its
\* place in langfuseClickHouseTables.
Statements(spec) == {k \in DOMAIN Tables : spec.ttl[Tables[k]] > 0}

Accepts(t, reachable) == reachable /\ t \in present \ stubborn

\* The statements that ClickHouse would not carry out.
Refused(statements, reachable) == {k \in statements : ~Accepts(Tables[k], reachable)}

\* What a pass has found out: the reason of the RetentionConfigured condition and that of
\* the StoragePressure condition, Unset for one that it leaves alone.
NoPass == [todo |-> {}, verdict |-> "Unset", pressure |-> "Unset"]
Verdict(reason) == [NoPass EXCEPT !.verdict = reason]

\* The copy that the pass works on.
Retained == copy["retention"]

Running == "retention" \in Controllers /\ pc["retention"] # "idle"
At(place) == Running /\ pc["retention"] = place

\* The RetentionConfigured condition, with the generation that it is about.
Condition(reason, i) == [reason |-> reason, gen |-> i.gen]

\* Mutation: the statements after a refused one are tried too, and the last one's
\* result is the result.
TriesTheRest(todo, done) ==
    IF todo # {Min(todo)} THEN [NoPass EXCEPT !.todo = todo \ {Min(todo)}]
    ELSE Verdict(IF done THEN "PoliciesApplied" ELSE "ApplyFailed")

\* applyRetention stops at the first failure.
AfterStatement(todo, done) ==
    IF ~done THEN Verdict("ApplyFailed")
    ELSE IF todo # {Min(todo)} THEN [NoPass EXCEPT !.todo = todo \ {Min(todo)}]
    ELSE Verdict("PoliciesApplied")

\* ALTER TABLE ... MODIFY TTL.
Alter(t, spec) == ttl' = [ttl EXCEPT ![t] = spec.ttl[t]]

\* The next statement.  One that fails may have been carried out all the same.
NextStatement(spec, todo, reachable) ==
    LET t == Tables[Min(todo)]
    IN  \/ /\ Accepts(t, reachable)
           /\ Alter(t, spec)
           /\ pass' = AfterStatement(todo, TRUE)
        \/ /\ ~Accepts(t, reachable)
           /\ UNCHANGED ttl \/ (t \in present /\ Alter(t, spec))
           /\ pass' = AfterStatement(todo, FALSE)

Onward == IF pass'.todo = {} THEN "query" ELSE "alter"

\* Reconcile begins with the cached copy, and goes on with it.  Up to its first statement
\* it changes nothing, so the two are one step.
BeginRetention(reachable) ==
    /\ Ready("retention")
    /\ ~CachedInstance.deleting
    /\ CachedInstance.spec.retention
    /\ LET spec == CachedInstance.spec
       IN  \/ /\ Statements(spec) = {}
              /\ pass' = Verdict("NoTTLConfigured")
              /\ UNCHANGED ttl
           \/ /\ Statements(spec) # {}
              /\ NextStatement(spec, Statements(spec), reachable)
    /\ Start("retention", Onward)
    /\ fresh' = IF "cache" \in fresh THEN fresh \cup {"retention"} ELSE fresh
    /\ UNCHANGED <<cr, faults, present, stubborn, disk, remade>>

\* There is no retention policy: that is all there is to say.
NoRetention ==
    /\ Ready("retention")
    /\ ~CachedInstance.deleting
    /\ ~CachedInstance.spec.retention
    /\ \E outcome \in {"ok", "conflict", "error"} :
          UpdateInstanceStatus("cache",
             [CachedInstance EXCEPT !.retention = Condition("NotConfigured", CachedInstance)],
             outcome)
    /\ Finish("retention", TRUE)
    /\ UNCHANGED <<clickHouseVars, retentionVars>>

AlterTable(reachable) ==
    /\ At("alter")
    /\ NextStatement(Retained.spec, pass.todo, reachable)
    /\ pc' = [pc EXCEPT !["retention"] = Onward]
    /\ UNCHANGED <<cr, copy, fresh, queue, faults, present, stubborn, disk, remade>>

-----------------------------------------------------------------------------
(* Storage pressure                                                        *)

\* The utilisation of a node in percent, as integer division has it.
Percent(d) == (d.used * 100) \div d.total

\* Mutation: the thresholds are held against the cluster's average.
AveragePercent(disks) ==
    LET total == FoldFunction(LAMBDA d, sum : d.total + sum, 0, disks)
        used == FoldFunction(LAMBDA d, sum : d.used + sum, 0, disks)
    IN  (used * 100) \div total

\* summarizeDiskUsage: the fullest node that has any capacity counts.
FullestPercent(disks) == Max({Percent(disks[n]) : n \in {m \in Nodes : disks[m].total > 0}})

\* evaluateStoragePressure
Pressure(spec, reachable) ==
    CASE ~reachable -> "QueryFailed"
      [] reachable /\ \A n \in Nodes : disk[n].total = 0 -> "NoCapacityReported"
      [] OTHER ->
            LET percent == FullestPercent(disk)
            IN  IF spec.critical > 0 /\ percent >= spec.critical THEN "CriticalThresholdExceeded"
                ELSE IF spec.warn > 0 /\ percent >= spec.warn THEN "WarningThresholdExceeded"
                ELSE "WithinThresholds"

\* evaluateStoragePressure is called when storage pressure is configured.
QueryDisks(reachable) ==
    /\ At("query")
    /\ pass' = IF Retained.spec.pressure
               THEN [pass EXCEPT !.pressure = Pressure(Retained.spec, reachable)]
               ELSE pass
    /\ pc' = [pc EXCEPT !["retention"] = "write"]
    /\ UNCHANGED <<cr, copy, fresh, queue, faults, clickHouseVars, remade>>

\* The status that the pass writes.
Reported(i) ==
    [i EXCEPT !.retention = Condition(pass.verdict, i),
              !.retentionApplied = CASE pass.verdict = "PoliciesApplied" -> "true"
                                     [] pass.verdict = "ApplyFailed" -> "false"
                                     [] OTHER -> @,
              !.pressure = IF pass.pressure = "Unset" THEN @ ELSE pass.pressure]

\* The write ends the pass.  Every end of it comes back: after the interval, after a
\* conflict, or by the error.
WriteRetention ==
    /\ At("write")
    /\ \E outcome \in {"ok", "conflict", "error"} :
          UpdateInstanceStatus("retention", Reported(Retained), outcome)
    /\ Return("retention", TRUE)
    /\ pass' = NoPass
    /\ remade' = {}
    /\ UNCHANGED clickHouseVars

RetentionSteps(reachable) ==
    \/ BeginRetention(reachable)
    \/ NoRetention
    \/ AlterTable(reachable)
    \/ QueryDisks(reachable)
    \/ WriteRetention

-----------------------------------------------------------------------------
(* Schema drift                                                            *)

\* findMissingTables and what Reconcile makes of it.  A check that fails says nothing
\* about drift, and leaves the flag as it was.
Checked(i, reachable) ==
    CASE ~i.spec.drift -> [i EXCEPT !.drift = "Disabled"]
      [] i.spec.drift /\ ~reachable -> [i EXCEPT !.drift = "CheckFailed"]
      [] OTHER -> IF Expected \subseteq present
                  THEN [i EXCEPT !.drift = "NoDriftDetected", !.schemaDrift = "false"]
                  ELSE [i EXCEPT !.drift = "TablesMissing", !.schemaDrift = "true"]

DriftPass(reachable) ==
    /\ Ready("drift")
    /\ ~CachedInstance.deleting
    /\ \E outcome \in {"ok", "conflict", "error"} :
          UpdateInstanceStatus("cache", Checked(CachedInstance, reachable), outcome)
    /\ Finish("drift", TRUE)
    /\ UNCHANGED <<clickHouseVars, retentionVars>>

-----------------------------------------------------------------------------
(* ClickHouse                                                              *)

\* The migration creates the tables that are missing.
CreateTables ==
    /\ present' = Expected
    /\ UNCHANGED <<stubborn, ttl, disk, retentionVars>>

\* A table is dropped, or created anew without a TTL.
TableFlips(t) ==
    /\ Fault
    /\ present' = IF t \in present THEN present \ {t} ELSE present \cup {t}
    /\ ttl' = [x \in Timed |-> IF x = t THEN 0 ELSE ttl[x]]
    /\ remade' = IF Running THEN remade \cup ({t} \cap Timed) ELSE remade
    /\ UNCHANGED <<cr, copy, fresh, queue, pc, stubborn, disk, pass>>

\* A table begins or ceases to refuse an ALTER: a replica that is read-only, say.
TableRefuses(t) ==
    /\ Fault
    /\ stubborn' = IF t \in stubborn THEN stubborn \ {t} ELSE stubborn \cup {t}
    /\ UNCHANGED <<cr, copy, fresh, queue, pc, present, ttl, disk, retentionVars>>

DiskFills(n, d) ==
    /\ disk[n] # d
    /\ Fault
    /\ disk' = [disk EXCEPT ![n] = d]
    /\ UNCHANGED <<cr, copy, fresh, queue, pc, present, stubborn, ttl, retentionVars>>

-----------------------------------------------------------------------------

\* What the status of an instance says at first: nothing, or what was true of it.
FirstReport(start, spec, reachable) ==
    IF start = "new"
    THEN [retention |-> [reason |-> "Unset", gen |-> 0], retentionApplied |-> "nil",
          pressure |-> "Unset", drift |-> "Unset", schemaDrift |-> "nil"]
    ELSE LET all == spec.retention /\ Statements(spec) # {}
         IN  [retention |->
                [reason |-> IF ~spec.retention THEN "NotConfigured"
                            ELSE IF all THEN "PoliciesApplied" ELSE "NoTTLConfigured",
                 gen |-> 1],
              retentionApplied |-> IF all THEN "true" ELSE "nil",
              pressure |-> IF spec.retention /\ spec.pressure
                           THEN Pressure(spec, reachable) ELSE "Unset",
              drift |-> IF spec.drift THEN "NoDriftDetected" ELSE "Disabled",
              schemaDrift |-> IF spec.drift THEN "false" ELSE "nil"]

ClickHouseInit(start, spec) ==
    /\ present = IF start = "new" THEN {} ELSE Expected
    /\ stubborn = {}
    /\ ttl = [t \in Timed |->
               IF start # "new" /\ spec.retention THEN spec.ttl[t] ELSE 0]
    /\ pass = NoPass /\ remade = {}
    /\ disk = [n \in Nodes |-> FirstDisk]

RetentionReasons == {"Unset", "NotConfigured", "NoTTLConfigured", "PoliciesApplied", "ApplyFailed"}
PressureReports ==
    {"Unset", "QueryFailed", "NoCapacityReported", "CriticalThresholdExceeded",
     "WarningThresholdExceeded", "WithinThresholds"}

ClickHouseTypeOK ==
    /\ present \subseteq Expected
    /\ stubborn \subseteq Timed
    /\ ttl \in [Timed -> Nat]
    /\ disk \in [Nodes -> Disks]
    /\ pass \in [todo : SUBSET DOMAIN Tables, verdict : RetentionReasons,
                 pressure : PressureReports]
    /\ remade \subseteq Timed
=============================================================================
