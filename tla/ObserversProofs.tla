-------------------------- MODULE ObserversProofs --------------------------
(***************************************************************************)
(* What the five controllers that report keep true of the status that they *)
(* share, proved for any pods, datastores, tables, nodes and specs and any *)
(* number of disturbances.                                                 *)
(***************************************************************************)
EXTENDS Observers, StoreProofs, FiniteSetTheorems

Legal(i) == i \in Instances /\ WithinLimits(i)

\* Where a controller may be: all but the retention controller are idle between steps.
Places == {"idle", "alter", "query", "write"}

\* What TypeOK says of the store and of the versions of the object that there are.
ObjectOK ==
    /\ StoreOK(Instances, Places)
    /\ WithinLimits(cr)
    /\ \A h \in Holders : copy[h] # NoCopy => WithinLimits(copy[h])

LEMMA PartsOfTypeOK ==
    TypeOK <=> ObjectOK /\ WorldTypeOK /\ ClickHouseTypeOK /\ scenario \in Scenarios
  BY DEF TypeOK, ObjectOK, StoreOK, Places

LEMMA PartsMakeTypeOK ==
    ObjectOK' /\ WorldTypeOK' /\ ClickHouseTypeOK' /\ (scenario \in Scenarios)' => TypeOK'
  BY PartsOfTypeOK, PTL

LEMMA Facts ==
    ASSUME ObjectOK
    PROVE  /\ "cache" \in Holders /\ "cache" \notin Controllers
           /\ StoreOK(Instances, Places)
           /\ Legal(cr) /\ Legal(copy["cache"])
           /\ queue \subseteq Controllers
           /\ \A c \in Controllers : pc[c] # "idle" => Legal(copy[c])
  BY NoCopyAssumption, ControllersAssumption
     DEF ObjectOK, StoreOK, StoreTypeOK, FreshMeansEqual, Holders, Legal

-----------------------------------------------------------------------------
(* The object                                                              *)

\* A pass that ends with a status write computed from the cached copy.
LEMMA WrittenPass ==
    ASSUME ObjectOK, NEW new, Legal(new), NEW outcome, NEW c, NEW requeue,
           UpdateInstanceStatus("cache", new, outcome), Finish(c, requeue)
    PROVE  /\ ObjectOK'
           /\ cr' = cr \/ (cr' = new /\ copy["cache"] = cr)
  <1>1. /\ AtMostOneFault /\ fresh' \subseteq fresh
        /\ \/ cr' = new /\ copy["cache"] = cr /\ fresh' = {}
           \/ cr' = cr
    BY Facts, StatusWritten DEF Legal
  <1>2. Legal(cr')
    BY <1>1, Facts
  <1>3. StoreOK(Instances, Places)'
    BY <1>1, <1>2, Facts, FinishStep DEF Legal
  <1>4. copy' = copy
    BY DEF Finish
  <1> QED
    BY <1>1, <1>2, <1>3, <1>4 DEF ObjectOK, Legal, WithinLimits

\* A pass that ends without one.
LEMMA UnwrittenPass ==
    ASSUME ObjectOK, NEW c, NEW requeue, Finish(c, requeue),
           cr' = cr, fresh' = fresh, AtMostOneFault
    PROVE  ObjectOK'
  <1>1. StoreOK(Instances, Places)'
    <2>1. cr' \in Instances
      BY Facts DEF Legal
    <2> QED
      BY <2>1, Facts, FinishStep
  <1>2. copy' = copy
    BY DEF Finish
  <1> QED
    BY <1>1, <1>2 DEF ObjectOK, WithinLimits

\* A step of the world: it may wake controllers.
LEMMA WorldStep ==
    ASSUME ObjectOK, queue' \subseteq Controllers, UNCHANGED <<cr, copy, fresh, pc>>,
           AtMostOneFault
    PROVE  ObjectOK'
  <1>1. StoreOK(Instances, Places)'
    BY Facts, QuietStep
  <1> QED
    BY <1>1 DEF ObjectOK, WithinLimits

LEMMA UserStep ==
    ASSUME ObjectOK, NEW new, Legal(new), ExternalWrite(new), AtMostOneFault
    PROVE  ObjectOK'
  <1>1. StoreOK(Instances, Places)'
    BY Facts, ExternalWriteStep DEF Legal
  <1> QED
    BY <1>1 DEF ObjectOK, WithinLimits, Legal, ExternalWrite

-----------------------------------------------------------------------------
(* What a pass makes of the object                                         *)

\* What RetentionConfigured says of which generation, and what it is about: all but the
\* retention controller leave it alone.
SameClaim(new, old) ==
    /\ new.retention = old.retention
    /\ new.gen = old.gen
    /\ new.spec = old.spec

FewIssues(issues) == issues \in SUBSET Issue /\ Cardinality(issues) <= MaxReportedPodIssues

LEMMA ObservedIsLegal ==
    ASSUME NEW i, Legal(i), NEW issues, \A c \in Components : FewIssues(issues[c])
    PROVE  Legal(Observed(i, issues)) /\ SameClaim(Observed(i, issues), i)
  <1> DEFINE status == [c \in Components |->
                           IF deploy[c] = Unset THEN i.status[c]
                           ELSE [ready |-> deploy[c].ready > 0, issues |-> issues[c]]]
             phase == DerivePhase([i EXCEPT !.status = status])
             running == (phase = "Running")
  <1>1. /\ status \in ComponentReports
        /\ \A c \in Components : status[c] # Unset =>
              Cardinality(status[c].issues) <= MaxReportedPodIssues
    BY DEF Legal, Instances, ComponentReports, WithinLimits, FewIssues
  <1>2. phase \in Phases /\ running \in BOOLEAN
    BY DEF DerivePhase, Phases
  <1>3. Observed(i, issues) = [[i EXCEPT !.status = status] EXCEPT
                                 !.phase = phase, !.ready = running, !.readyCond = running]
    BY DEF Observed
  <1> HIDE DEF status, phase, running
  <1>4. Observed(i, issues) = [i EXCEPT !.status = status, !.phase = phase,
                                        !.ready = running, !.readyCond = running]
    BY <1>3 DEF Legal, Instances
  <1>5. Observed(i, issues) \in Instances /\ Observed(i, issues).status = status
    BY <1>1, <1>2, <1>4 DEF Legal, Instances
  <1>6. /\ Observed(i, issues).migIssues = i.migIssues
        /\ SameClaim(Observed(i, issues), i)
    BY <1>4 DEF Legal, Instances, SameClaim
  <1> QED
    BY <1>1, <1>5, <1>6 DEF Legal, WithinLimits, SameClaim

LEMMA DiagnosedIsLegal ==
    ASSUME NEW i, Legal(i), NEW issues, \A c \in Components : FewIssues(issues[c]),
           NEW texts \in [Dependencies -> Texts]
    PROVE  Legal(Diagnosed(i, issues, texts)) /\ SameClaim(Diagnosed(i, issues, texts), i)
  <1> DEFINE status == WithIssues(i, issues)
             cond == Published(texts)
  <1>1. status \in ComponentReports /\ \A c \in Components : status[c].issues = issues[c]
    <2>1. \A c \in Components : (i.status[c] # Unset /\ i.status[c].ready) \in BOOLEAN
      OBVIOUS
    <2> QED
      BY <2>1 DEF WithIssues, FewIssues, ComponentReports
  <1>2. cond \in ConditionReports
    BY DEF Published, ConditionFromProbe, ComponentCondition, ConditionOf, ConditionReports, Texts
  <1>3. Diagnosed(i, issues, texts) = [i EXCEPT !.cond = cond, !.status = status]
    BY DEF Diagnosed
  <1> HIDE DEF status, cond
  <1>4. Diagnosed(i, issues, texts) \in Instances /\ Diagnosed(i, issues, texts).status = status
    BY <1>1, <1>2, <1>3 DEF Legal, Instances
  <1>5. /\ Diagnosed(i, issues, texts).migIssues = i.migIssues
        /\ SameClaim(Diagnosed(i, issues, texts), i)
    BY <1>3 DEF Legal, Instances, SameClaim
  <1> QED
    BY <1>1, <1>4, <1>5 DEF Legal, WithinLimits, SameClaim, FewIssues

LEMMA RejectedIsLegal ==
    ASSUME NEW i, Legal(i)
    PROVE  LET new == [i EXCEPT !.readyCond = FALSE,
                                !.phase = IF @ = "Unset" THEN "Pending" ELSE @]
           IN  Legal(new) /\ SameClaim(new, i)
  BY DEF Legal, Instances, Phases, WithinLimits, SameClaim

LEMMA MigratingIsLegal ==
    ASSUME NEW i, Legal(i), NEW issues, FewIssues(issues),
           NEW mig \in {"none", "running", "failed", "done"}
    PROVE  LET new == [i EXCEPT !.migIssues = issues, !.mig = mig]
           IN  Legal(new) /\ SameClaim(new, i)
  BY DEF Legal, Instances, WithinLimits, SameClaim, FewIssues

LEMMA StartedIsLegal ==
    ASSUME NEW i, Legal(i)
    PROVE  LET new == [i EXCEPT !.mig = "running"]
           IN  Legal(new) /\ SameClaim(new, i)
  BY DEF Legal, Instances, WithinLimits, SameClaim

LEMMA SucceededIsLegal ==
    ASSUME NEW i, Legal(i)
    PROVE  Legal(Succeeded(i)) /\ SameClaim(Succeeded(i), i)
  BY DEF Legal, Instances, WithinLimits, SameClaim, Succeeded

LEMMA CheckedIsLegal ==
    ASSUME NEW i, Legal(i), NEW reachable
    PROVE  Legal(Checked(i, reachable)) /\ SameClaim(Checked(i, reachable), i)
  <1> DEFINE new == Checked(i, reachable)
  <1>1. \/ new = [i EXCEPT !.drift = "Disabled"]
        \/ new = [i EXCEPT !.drift = "CheckFailed"]
        \/ new = [i EXCEPT !.drift = "NoDriftDetected", !.schemaDrift = "false"]
        \/ new = [i EXCEPT !.drift = "TablesMissing", !.schemaDrift = "true"]
    BY DEF Checked
  <1> HIDE DEF new
  <1>2. Legal(new) /\ SameClaim(new, i)
    BY <1>1 DEF Legal, Instances, DriftReports, Flags, WithinLimits, SameClaim
  <1> QED
    BY <1>2 DEF new

LEMMA PressureIsTyped ==
    ASSUME NEW spec, NEW reachable
    PROVE  Pressure(spec, reachable) \in PressureReports
  BY DEF Pressure, PressureReports

-----------------------------------------------------------------------------
(* Retention                                                               *)

\* Every statement but those still to be made was carried out, and its table has the TTL
\* since, unless the table was dropped or made anew.
AppliedIn(spec, todo, days, gone) ==
    \A k \in Statements(spec) \ todo :
        Tables[k] \in gone \/ days[Tables[k]] = spec.ttl[Tables[k]]

Applied(spec, todo) == AppliedIn(spec, todo, ttl, remade)

\* What a retention pass knows of ClickHouse: inductive together with TypeOK.
PassStands ==
    Running =>
        /\ pc["retention"] = "alter" => pass.todo # {} /\ Applied(Retained.spec, pass.todo)
        /\ pc["retention"] # "alter" /\ pass.verdict = "PoliciesApplied" =>
              Applied(Retained.spec, {})

\* A step that has nothing to do with the pass.
PassUntouched ==
    /\ UNCHANGED <<ttl, pass, remade>>
    /\ "retention" \in Controllers =>
          pc'["retention"] = pc["retention"] /\ copy'["retention"] = copy["retention"]

LEMMA UntouchedPassStands ==
    ASSUME PassStands, PassUntouched
    PROVE  PassStands'
  BY DEF PassStands, PassUntouched, Running, Retained, Applied, AppliedIn, Statements

\* A statement is carried out as the last thing that the pass knows of, or the pass knows
\* that one was not.
LEMMA StatementMade ==
    ASSUME ClickHouseTypeOK, NEW spec \in Specs, NEW reachable,
           NEW todo \in SUBSET DOMAIN Tables, todo # {}, Applied(spec, todo),
           NextStatement(spec, todo, reachable), UNCHANGED <<present, stubborn, disk, remade>>
    PROVE  /\ ClickHouseTypeOK'
           /\ pass'.todo # {} => AppliedIn(spec, pass'.todo, ttl', remade')
           /\ pass'.verdict = "PoliciesApplied" => AppliedIn(spec, {}, ttl', remade')
           /\ pass'.verdict # "Unset" => pass'.todo = {}
  <1> DEFINE k == Min(todo)
             t == Tables[k]
  <1> HIDE DEF k
  <1>1. ttl' = ttl \/ Alter(t, spec)
    BY DEF NextStatement, k
  <1>2. ttl' \in [Timed -> Nat]
    <2>1. t \in Timed => spec.ttl[t] \in Nat
      BY ObserversAssumption DEF Specs
    <2> QED
      BY <1>1, <2>1 DEF Alter, ClickHouseTypeOK
  <1>3. \A x \in Timed : ttl'[x] = ttl[x] \/ ttl'[x] = spec.ttl[x]
    BY <1>1 DEF Alter, ClickHouseTypeOK
  <1>4. AppliedIn(spec, todo, ttl', remade')
    <2>1. \A j \in DOMAIN Tables : Tables[j] \in Timed
      BY DEF Timed, Range
    <2> QED
      BY <1>3, <2>1 DEF Applied, AppliedIn, Statements
  <1>5. CASE pass' = Verdict("ApplyFailed")
    <2>2. /\ pass'.todo = {} /\ pass'.verdict = "ApplyFailed" /\ pass'.pressure = "Unset"
          /\ pass' = [todo |-> {}, verdict |-> "ApplyFailed", pressure |-> "Unset"]
      BY <1>5 DEF Verdict, NoPass
    <2>3. ClickHouseTypeOK'
      BY <1>2, <2>2 DEF ClickHouseTypeOK, RetentionReasons, PressureReports
    <2> QED
      BY <2>2, <2>3
  <1>6. CASE pass' = AfterStatement(todo, TRUE) /\ Alter(t, spec)
    <2>1. \A j \in DOMAIN Tables : j = k => ttl'[Tables[j]] = spec.ttl[Tables[j]]
      BY <1>6 DEF Alter, ClickHouseTypeOK, Timed, Range
    <2>2. AppliedIn(spec, todo \ {k}, ttl', remade')
      BY <1>4, <2>1 DEF Applied, AppliedIn, Statements
    <2>3. CASE todo # {k}
      <3>1. pass' = [todo |-> todo \ {k}, verdict |-> "Unset", pressure |-> "Unset"]
        BY <1>6, <2>3 DEF AfterStatement, NoPass, k
      <3>2. ClickHouseTypeOK'
        BY <1>2, <3>1 DEF ClickHouseTypeOK, RetentionReasons, PressureReports
      <3> QED
        BY <2>2, <3>1, <3>2
    <2>4. CASE todo = {k}
      <3>1. pass' = [todo |-> {}, verdict |-> "PoliciesApplied", pressure |-> "Unset"]
        BY <1>6, <2>4 DEF AfterStatement, Verdict, NoPass, k
      <3>2. ClickHouseTypeOK'
        BY <1>2, <3>1 DEF ClickHouseTypeOK, RetentionReasons, PressureReports
      <3>3. todo \ {k} = {}
        BY <2>4
      <3> QED
        BY <2>2, <3>1, <3>2, <3>3
    <2> QED
      BY <2>3, <2>4
  <1> QED
    BY <1>5, <1>6 DEF NextStatement, AfterStatement, k

LEMMA ReportedIsLegal ==
    ASSUME ClickHouseTypeOK, NEW i, Legal(i)
    PROVE  /\ Legal(Reported(i))
           /\ Reported(i).gen = i.gen /\ Reported(i).spec = i.spec
           /\ Reported(i).retention.reason = pass.verdict
  <1> DEFINE claim == Condition(pass.verdict, i)
             flag == CASE pass.verdict = "PoliciesApplied" -> "true"
                       [] pass.verdict = "ApplyFailed" -> "false"
                       [] OTHER -> i.retentionApplied
             pressure == IF pass.pressure = "Unset" THEN i.pressure ELSE pass.pressure
             new == Reported(i)
  <1>1. /\ claim \in RetentionReports /\ claim.gen = i.gen /\ claim.reason = pass.verdict
        /\ i.gen \in Nat
    BY DEF ClickHouseTypeOK, Condition, RetentionReports, Legal, Instances
  <1>2. flag \in Flags
    BY DEF Flags, Legal, Instances
  <1>3. pressure \in PressureReports
    BY DEF ClickHouseTypeOK, Legal, Instances
  <1>4. new = [i EXCEPT !.retention = claim, !.retentionApplied = flag, !.pressure = pressure]
    BY DEF Reported, Legal, Instances
  <1> HIDE DEF claim, flag, pressure, new
  <1>5. new \in Instances /\ new.retention = claim
    BY <1>1, <1>2, <1>3, <1>4 DEF Legal, Instances
  <1>6. /\ new.gen = i.gen /\ new.spec = i.spec
        /\ new.status = i.status /\ new.migIssues = i.migIssues
    BY <1>4 DEF Legal, Instances
  <1>7. WithinLimits(new)
    BY <1>1, <1>5, <1>6 DEF Legal, WithinLimits
  <1> QED
    BY <1>1, <1>5, <1>6, <1>7 DEF Legal, new

-----------------------------------------------------------------------------
(* Pod issues                                                              *)

LEMMA CollectedAreFew ==
    ASSUME WorldTypeOK, NEW c \in DOMAIN Pods, NEW issues \in CollectPodIssues(pods[c])
    PROVE  FewIssues(issues)
  <1> DEFINE Q == {q \in Pods[c] : pods[c][q] \in {"crashing", "stuck"}}
             all == PodIssues(pods[c])
  <1>1. DOMAIN pods[c] = Pods[c] /\ IsFiniteSet(Q)
    BY ObserversAssumption, FS_Subset DEF WorldTypeOK
  <1>2. all = {[pod |-> p, fatal |-> pods[c][p] = "stuck"] : p \in Q}
    BY <1>1 DEF PodIssues
  <1>5. all \in SUBSET Issue
    <2> SUFFICES ASSUME NEW p \in Q PROVE [pod |-> p, fatal |-> pods[c][p] = "stuck"] \in Issue
      BY <1>2
    <2>1. p \in UNION {Pods[d] : d \in DOMAIN Pods}
      OBVIOUS
    <2>2. (pods[c][p] = "stuck") \in BOOLEAN
      OBVIOUS
    <2> QED
      BY <2>1, <2>2 DEF Issue
  <1> HIDE DEF all
  <1>6. issues \in SUBSET all /\ Leading(all, issues)
    BY DEF CollectPodIssues, all
  <1> QED
    BY <1>5, <1>6 DEF FewIssues, Leading

LEMMA IssuesAreFew ==
    ASSUME WorldTypeOK, NEW c \in Components, NEW issues \in IssuesFor(c)
    PROVE  FewIssues(issues)
  <1>1. c \in DOMAIN Pods
    BY PodsAssumption DEF Components
  <1>2. FewIssues({})
    BY FS_EmptySet, MaxReportedAssumption DEF FewIssues
  <1>3. issues \in {{}} \/ issues \in CollectPodIssues(pods[c])
    BY DEF IssuesFor
  <1> QED
    BY <1>1, <1>2, <1>3, CollectedAreFew

-----------------------------------------------------------------------------
(* The instance controller, the health monitor, the migration controller   *)

\* A step after which RetentionConfigured says what it said, of the same spec.
ClaimKept == SameClaim(cr', cr)

LEMMA WorkloadApplied ==
    ASSUME WorldTypeOK, ApplyWorkload, UNCHANGED <<deploy, job, up, hung>>
    PROVE  WorldTypeOK'
  BY DEF WorldTypeOK, ApplyWorkload, PodStates

LEMMA ComponentIssuesAreFew ==
    ASSUME WorldTypeOK, NEW web \in IssuesFor("web"), NEW worker \in IssuesFor("worker")
    PROVE  LET issues == [c \in Components |-> IF c = "web" THEN web ELSE worker]
           IN  \A c \in Components : FewIssues(issues[c])
  <1>1. FewIssues(web) /\ FewIssues(worker)
    BY IssuesAreFew DEF Components
  <1> QED
    BY <1>1

\* A pass that leaves the claim of the copy it works from.
LEMMA ClaimKeepingPass ==
    ASSUME ObjectOK, NEW new, Legal(new), SameClaim(new, copy["cache"]), NEW outcome,
           NEW c, NEW requeue,
           UpdateInstanceStatus("cache", new, outcome), Finish(c, requeue)
    PROVE  ObjectOK' /\ ClaimKept
  BY WrittenPass DEF SameClaim, ClaimKept

LEMMA InstanceControllerStep ==
    ASSUME ObjectOK, WorldTypeOK, InstanceController
    PROVE  ObjectOK' /\ WorldTypeOK' /\ ClaimKept
  <1>0. Legal(Cached)
    BY Facts DEF Cached
  <1>1. CASE InstancePass
    <2>1. PICK web \in IssuesFor("web"), worker \in IssuesFor("worker"),
               outcome \in {"ok", "conflict", "error"} :
            /\ UpdateInstanceStatus("cache",
                  Observed(Cached, [c \in Components |-> IF c = "web" THEN web ELSE worker]),
                  outcome)
            /\ Finish("instance", outcome # "ok")
      BY <1>1 DEF InstancePass
    <2> DEFINE issues == [c \in Components |-> IF c = "web" THEN web ELSE worker]
    <2>2. \A c \in Components : FewIssues(issues[c])
      BY ComponentIssuesAreFew
    <2> HIDE DEF issues
    <2>3. Legal(Observed(Cached, issues)) /\ SameClaim(Observed(Cached, issues), Cached)
      BY <1>0, <2>2, ObservedIsLegal
    <2>4. UpdateInstanceStatus("cache", Observed(Cached, issues), outcome)
      BY <2>1 DEF issues
    <2>5. ObjectOK' /\ ClaimKept
      BY <2>1, <2>3, <2>4, ClaimKeepingPass DEF Cached
    <2>6. WorldTypeOK'
      BY <1>1, WorkloadApplied DEF InstancePass
    <2> QED
      BY <2>5, <2>6
  <1>2. CASE DatastoresFail \/ NetworkingFails
    <2>1. /\ Finish("instance", TRUE) /\ Fault /\ UNCHANGED <<cr, fresh, deploy, job, up, hung>>
          /\ pods' = pods \/ ApplyWorkload
      BY <1>2 DEF DatastoresFail, NetworkingFails, InstancePassFails
    <2>2. ObjectOK'
      BY <2>1, UnwrittenPass DEF AtMostOneFault
    <2>3. WorldTypeOK'
      BY <2>1, WorkloadApplied DEF WorldTypeOK
    <2> QED
      BY <2>1, <2>2, <2>3 DEF ClaimKept, SameClaim
  <1>3. CASE RejectSpec
    <2> DEFINE new == [Cached EXCEPT !.readyCond = FALSE,
                                     !.phase = IF @ = "Unset" THEN "Pending" ELSE @]
    <2>1. Legal(new) /\ SameClaim(new, Cached)
      BY <1>0, RejectedIsLegal
    <2>2. PICK outcome : UpdateInstanceStatus("cache", new, outcome)
      BY <1>3 DEF RejectSpec
    <2> HIDE DEF new
    <2>3. Finish("instance", TRUE) /\ UNCHANGED worldVars
      BY <1>3 DEF RejectSpec
    <2>4. ObjectOK' /\ ClaimKept
      BY <2>1, <2>2, <2>3, ClaimKeepingPass DEF Cached
    <2> QED
      BY <2>3, <2>4 DEF worldVars, WorldTypeOK
  <1> QED
    BY <1>1, <1>2, <1>3 DEF InstanceController

LEMMA HealthMonitorStep ==
    ASSUME ObjectOK, WorldTypeOK, HealthMonitor
    PROVE  ObjectOK' /\ WorldTypeOK' /\ ClaimKept
  <1>0. Legal(Cached)
    BY Facts DEF Cached
  <1>1. PICK web \in IssuesFor("web"), worker \in IssuesFor("worker"),
             texts \in [Dependencies -> Texts], outcome \in {"ok", "conflict", "error"} :
            UpdateInstanceStatus("cache",
               Diagnosed(Cached, [c \in Components |-> IF c = "web" THEN web ELSE worker], texts),
               outcome)
    BY DEF HealthMonitor, HealthPass
  <1> DEFINE issues == [c \in Components |-> IF c = "web" THEN web ELSE worker]
  <1>2. \A c \in Components : FewIssues(issues[c])
    BY ComponentIssuesAreFew
  <1> HIDE DEF issues
  <1>3. Legal(Diagnosed(Cached, issues, texts)) /\ SameClaim(Diagnosed(Cached, issues, texts), Cached)
    BY <1>0, <1>2, DiagnosedIsLegal
  <1>4. UpdateInstanceStatus("cache", Diagnosed(Cached, issues, texts), outcome)
    BY <1>1 DEF issues
  <1>5. Finish("health", TRUE) /\ UNCHANGED worldVars
    BY DEF HealthMonitor, HealthPass
  <1>6. ObjectOK' /\ ClaimKept
    BY <1>3, <1>4, <1>5, ClaimKeepingPass DEF Cached
  <1> QED
    BY <1>5, <1>6 DEF worldVars, WorldTypeOK

LEMMA MigrationControllerStep ==
    ASSUME ObjectOK, WorldTypeOK, MigrationController
    PROVE  ObjectOK' /\ WorldTypeOK' /\ ClaimKept
  <1>0. Legal(Cached) /\ "migration" \in DOMAIN Pods
    BY Facts, PodsAssumption DEF Cached
  <1>1. CASE StartMigration
    <2> DEFINE new == [Cached EXCEPT !.mig = "running"]
    <2>1. Legal(new) /\ SameClaim(new, Cached)
      BY <1>0, StartedIsLegal
    <2>2. PICK outcome : UpdateInstanceStatus("cache", new, outcome)
      BY <1>1 DEF StartMigration
    <2> HIDE DEF new
    <2>3. Finish("migration", TRUE)
      BY <1>1 DEF StartMigration
    <2>4. ObjectOK' /\ ClaimKept
      BY <2>1, <2>2, <2>3, ClaimKeepingPass DEF Cached
    <2>5. WorldTypeOK'
      BY <1>0, <1>1 DEF StartMigration, WorldTypeOK, PodStates
    <2> QED
      BY <2>4, <2>5
  <1>2. CASE PollMigration
    <2>1. PICK issues \in CollectPodIssues(pods["migration"]),
               outcome \in {"ok", "conflict", "error"} :
            UpdateInstanceStatus("cache",
               [Cached EXCEPT !.migIssues = issues,
                              !.mig = IF issues = {} THEN @ ELSE "running"],
               outcome)
      BY <1>2 DEF PollMigration
    <2> DEFINE mig == IF issues = {} THEN Cached.mig ELSE "running"
               new == [Cached EXCEPT !.migIssues = issues, !.mig = mig]
    <2>2. FewIssues(issues) /\ mig \in {"none", "running", "failed", "done"}
      BY <1>0, CollectedAreFew DEF Legal, Instances
    <2> HIDE DEF mig
    <2>3. Legal(new) /\ SameClaim(new, Cached)
      BY <1>0, <2>2, MigratingIsLegal
    <2>4. UpdateInstanceStatus("cache", new, outcome)
      BY <1>0, <2>1 DEF mig, Legal, Instances
    <2> HIDE DEF new
    <2>5. PICK requeue : Finish("migration", requeue)
      BY <1>2, <2>1 DEF PollMigration
    <2>6. ObjectOK' /\ ClaimKept
      BY <2>3, <2>4, <2>5, ClaimKeepingPass DEF Cached
    <2>7. UNCHANGED worldVars
      BY <1>2 DEF PollMigration
    <2> QED
      BY <2>6, <2>7 DEF worldVars, WorldTypeOK
  <1>3. CASE ReportFailure
    <2>1. PICK issues \in CollectPodIssues(pods["migration"]),
               outcome \in {"ok", "conflict", "error"} :
            /\ UpdateInstanceStatus("cache",
                  [Cached EXCEPT !.migIssues = issues, !.mig = "failed"], outcome)
            /\ Finish("migration", RequeueIf(outcome))
      BY <1>3 DEF ReportFailure
    <2> DEFINE mig == "failed"
               new == [Cached EXCEPT !.migIssues = issues, !.mig = mig]
    <2>2. FewIssues(issues) /\ mig \in {"none", "running", "failed", "done"}
      BY <1>0, CollectedAreFew DEF Legal, Instances
    <2> HIDE DEF mig
    <2>3. Legal(new) /\ SameClaim(new, Cached)
      BY <1>0, <2>2, MigratingIsLegal
    <2>4. UpdateInstanceStatus("cache", new, outcome)
      BY <1>0, <2>1 DEF mig, Legal, Instances
    <2> HIDE DEF new
    <2>5. PICK requeue : Finish("migration", requeue)
      BY <1>3, <2>1 DEF ReportFailure
    <2>6. ObjectOK' /\ ClaimKept
      BY <2>3, <2>4, <2>5, ClaimKeepingPass DEF Cached
    <2>7. UNCHANGED worldVars
      BY <1>3 DEF ReportFailure
    <2> QED
      BY <2>6, <2>7 DEF worldVars, WorldTypeOK
  <1>4. CASE RecordMigration
    <2>1. PICK outcome : /\ UpdateInstanceStatus("cache", Succeeded(Cached), outcome)
                         /\ Finish("migration", RequeueIf(outcome))
      BY <1>4 DEF RecordMigration
    <2>2. Legal(Succeeded(Cached)) /\ SameClaim(Succeeded(Cached), Cached)
      BY <1>0, SucceededIsLegal
    <2>3. ObjectOK' /\ ClaimKept
      BY <2>1, <2>2, ClaimKeepingPass DEF Cached
    <2>4. UNCHANGED worldVars
      BY <1>4 DEF RecordMigration
    <2> QED
      BY <2>3, <2>4 DEF worldVars, WorldTypeOK
  <1>5. CASE MigrationRefusesSpec \/ MigrationUpToDate
    <2>1. PICK requeue : Finish("migration", requeue)
      BY <1>5 DEF MigrationRefusesSpec, MigrationUpToDate
    <2>2. NoWrite("cache") /\ UNCHANGED worldVars
      BY <1>5 DEF MigrationRefusesSpec, MigrationUpToDate
    <2>3. ObjectOK'
      BY <2>1, <2>2, UnwrittenPass DEF NoWrite, AtMostOneFault
    <2> QED
      BY <2>2, <2>3 DEF worldVars, WorldTypeOK, NoWrite, ClaimKept, SameClaim
  <1> QED
    BY <1>1, <1>2, <1>3, <1>4, <1>5 DEF MigrationController

-----------------------------------------------------------------------------
(* The retention and the schema drift controllers                          *)

\* What the property demands of a step that makes the claim.
ClaimIsEarned == Claimed' => \A t \in Timed \ remade : InPlace(t)'

LEMMA PassGoesOn ==
    ASSUME ObjectOK, "retention" \in Controllers, pc["retention"] # "idle",
           NEW place \in {"alter", "query", "write"}, pc' = [pc EXCEPT !["retention"] = place],
           UNCHANGED <<cr, copy, fresh, queue, faults>>
    PROVE  ObjectOK' /\ ClaimKept /\ pc'["retention"] = place
  <1>1. StoreOK(Instances, Places)'
    BY Facts, MoveStep DEF Places, AtMostOneFault
  <1>2. pc'["retention"] = place
    BY DEF ObjectOK, StoreOK, StoreTypeOK
  <1> QED
    BY <1>1, <1>2 DEF ObjectOK, WithinLimits, ClaimKept, SameClaim

\* The pass begins, with a first statement if there is any to make.
LEMMA PassBegins ==
    ASSUME ObjectOK, ClickHouseTypeOK, BeginRetention(Reachable)
    PROVE  ObjectOK' /\ ClickHouseTypeOK' /\ PassStands' /\ ClaimKept
  <1> DEFINE spec == CachedInstance.spec
  <1>0. /\ Legal(CachedInstance) /\ spec \in Specs
        /\ "retention" \in Controllers /\ "retention" \in Holders /\ Onward \in {"alter", "query"}
    BY Facts DEF CachedInstance, Legal, Instances, BeginRetention, Ready, Onward, Holders
  <1>1. StoreOK(Instances, Places)'
    <2>1. /\ Ready("retention") /\ Start("retention", Onward) /\ cr' = cr /\ AtMostOneFault
          /\ fresh' = (IF "cache" \in fresh THEN fresh \cup {"retention"} ELSE fresh)
      BY DEF BeginRetention, AtMostOneFault
    <2>2. Onward \in Places \ {"idle"}
      BY <1>0 DEF Places
    <2> QED
      BY <1>0, <2>1, <2>2, NoCopyAssumption, Facts, StartStep
  <1>2. /\ copy' = [copy EXCEPT !["retention"] = CachedInstance]
        /\ pc' = [pc EXCEPT !["retention"] = Onward]
        /\ cr' = cr /\ UNCHANGED <<present, stubborn, disk, remade>>
    BY DEF BeginRetention, Start, CachedInstance
  <1>3. /\ copy'["retention"] = CachedInstance /\ pc'["retention"] = Onward
        /\ \A h \in Holders : copy'[h] # NoCopy => WithinLimits(copy'[h])
    BY <1>0, <1>2 DEF ObjectOK, StoreOK, StoreTypeOK, Legal
  <1>4. ObjectOK' /\ ClaimKept
    BY <1>1, <1>2, <1>3 DEF ObjectOK, ClaimKept, SameClaim
  <1>5. /\ ClickHouseTypeOK'
        /\ pass'.todo # {} => AppliedIn(spec, pass'.todo, ttl', remade')
        /\ pass'.verdict = "PoliciesApplied" => AppliedIn(spec, {}, ttl', remade')
    <2>1. CASE pass' = Verdict("NoTTLConfigured") /\ UNCHANGED ttl
      <3>1. pass' = [todo |-> {}, verdict |-> "NoTTLConfigured", pressure |-> "Unset"]
        BY <2>1 DEF Verdict, NoPass
      <3> QED
        BY <1>2, <2>1, <3>1 DEF ClickHouseTypeOK, RetentionReasons, PressureReports
    <2>2. CASE Statements(spec) # {} /\ NextStatement(spec, Statements(spec), Reachable)
      <3>1. Applied(spec, Statements(spec)) /\ Statements(spec) \in SUBSET DOMAIN Tables
        BY DEF Applied, AppliedIn, Statements
      <3> QED
        BY <1>0, <1>2, <2>2, <3>1, StatementMade
    <2> QED
      BY <2>1, <2>2 DEF BeginRetention
  <1>6. PassStands'
    BY <1>3, <1>5 DEF PassStands, Running, Retained, Onward, Applied
  <1> QED
    BY <1>4, <1>5, <1>6

LEMMA StatementStep ==
    ASSUME ObjectOK, ClickHouseTypeOK, PassStands, AlterTable(Reachable)
    PROVE  ObjectOK' /\ ClickHouseTypeOK' /\ PassStands' /\ ClaimKept
  <1> DEFINE spec == Retained.spec
  <1>0. /\ "retention" \in Controllers /\ pc["retention"] = "alter"
        /\ pass.todo # {} /\ Applied(spec, pass.todo)
        /\ pass.todo \in SUBSET DOMAIN Tables
        /\ Onward \in {"alter", "query", "write"}
    BY DEF AlterTable, At, Running, PassStands, ClickHouseTypeOK, Onward
  <1>1. spec \in Specs
    BY <1>0, Facts DEF Legal, Instances, Retained
  <1>2. /\ NextStatement(spec, pass.todo, Reachable)
        /\ pc' = [pc EXCEPT !["retention"] = Onward]
        /\ UNCHANGED <<cr, copy, fresh, queue, faults>>
        /\ UNCHANGED <<present, stubborn, disk, remade>>
    BY DEF AlterTable
  <1>3. ObjectOK' /\ ClaimKept /\ pc'["retention"] = Onward
    BY <1>0, <1>2, PassGoesOn
  <1>4. /\ ClickHouseTypeOK'
        /\ pass'.todo # {} => AppliedIn(spec, pass'.todo, ttl', remade')
        /\ pass'.verdict = "PoliciesApplied" => AppliedIn(spec, {}, ttl', remade')
    BY <1>0, <1>1, <1>2, StatementMade
  <1>5. PassStands'
    BY <1>2, <1>3, <1>4 DEF PassStands, Running, Retained, Onward, Applied
  <1> QED
    BY <1>3, <1>4, <1>5

LEMMA QueryStep ==
    ASSUME ObjectOK, ClickHouseTypeOK, PassStands, QueryDisks(Reachable)
    PROVE  ObjectOK' /\ ClickHouseTypeOK' /\ PassStands' /\ ClaimKept
  <1>1. /\ "retention" \in Controllers /\ pc["retention"] = "query"
        /\ pc' = [pc EXCEPT !["retention"] = "write"]
        /\ UNCHANGED <<cr, copy, fresh, queue, faults>> /\ UNCHANGED <<clickHouseVars, remade>>
    BY DEF QueryDisks, At, Running
  <1>2. ObjectOK' /\ ClaimKept /\ pc'["retention"] = "write"
    BY <1>1, PassGoesOn
  <1>3. /\ pass'.verdict = pass.verdict
        /\ pass' \in [todo : SUBSET DOMAIN Tables, verdict : RetentionReasons,
                      pressure : PressureReports]
    BY PressureIsTyped DEF QueryDisks, ClickHouseTypeOK
  <1>4. ClickHouseTypeOK'
    BY <1>1, <1>3 DEF ClickHouseTypeOK, clickHouseVars
  <1>5. PassStands'
    BY <1>1, <1>2, <1>3
       DEF PassStands, Running, Retained, Applied, AppliedIn, clickHouseVars, Statements
  <1> QED
    BY <1>2, <1>4, <1>5

\* A written claim is about the spec that the pass went by: the copy was still current.
LEMMA WriteStep ==
    ASSUME ObjectOK, ClickHouseTypeOK, PassStands, WriteRetention
    PROVE  /\ ObjectOK' /\ ClickHouseTypeOK' /\ PassStands'
           /\ ClaimKept \/ ClaimIsEarned
  <1>0. /\ "retention" \in Controllers /\ "retention" \in Holders /\ "retention" # "cache"
        /\ pc["retention"] = "write" /\ Legal(Retained)
    BY Facts, ControllersAssumption DEF WriteRetention, At, Running, Retained, Holders
  <1> DEFINE new == Reported(Retained)
  <1>1. /\ Legal(new) /\ new.spec = Retained.spec
        /\ new.retention.reason = pass.verdict
    BY <1>0, ReportedIsLegal
  <1> HIDE DEF new
  <1>2. PICK outcome : UpdateInstanceStatus("retention", new, outcome)
    BY DEF WriteRetention, new
  <1>3. /\ AtMostOneFault /\ fresh' \subseteq fresh /\ "retention" \notin fresh'
        /\ \/ cr' = new /\ Retained = cr /\ fresh' = {}
           \/ cr' = cr
    BY <1>0, <1>1, <1>2, Facts, StatusWritten DEF Legal, Retained
  <1>4. Return("retention", TRUE) /\ pass' = NoPass /\ remade' = {} /\ UNCHANGED clickHouseVars
    BY DEF WriteRetention
  <1>5. Legal(cr')
    BY <1>1, <1>3, Facts
  <1>6. StoreOK(Instances, Places)'
    <2>1. "idle" \in Places /\ cr' \in Instances /\ (cr' = cr \/ fresh' = {})
      BY <1>3, <1>5 DEF Places, Legal
    <2> QED
      BY <1>0, <1>3, <1>4, <2>1, Facts, ReturnStep
  <1>7. /\ pc'["retention"] = "idle"
        /\ \A h \in Holders : copy'[h] # NoCopy => WithinLimits(copy'[h])
    BY <1>0, <1>4 DEF Return, ObjectOK, StoreOK, StoreTypeOK
  <1>8. ObjectOK'
    BY <1>5, <1>6, <1>7 DEF ObjectOK, Legal
  <1>9. ClickHouseTypeOK'
    BY <1>4 DEF ClickHouseTypeOK, clickHouseVars, NoPass, RetentionReasons, PressureReports
  <1>10. PassStands'
    BY <1>7 DEF PassStands, Running
  <1>11. CASE cr' = cr
    BY <1>8, <1>9, <1>10, <1>11 DEF ClaimKept, SameClaim
  <1>12. CASE cr' = new
    <2> SUFFICES ASSUME Claimed', NEW t \in Timed \ remade PROVE InPlace(t)'
      BY <1>8, <1>9, <1>10 DEF ClaimIsEarned
    <2>1. pass.verdict = "PoliciesApplied"
      BY <1>1, <1>12 DEF Claimed
    <2>2. Applied(Retained.spec, {})
      BY <1>0, <2>1 DEF PassStands, Running
    <2>3. PICK k \in DOMAIN Tables : Tables[k] = t
      BY DEF Timed, Range
    <2>4. Retained.spec.ttl[t] > 0 => ttl[t] = Retained.spec.ttl[t]
      BY <2>2, <2>3 DEF Applied, AppliedIn, Statements
    <2> QED
      BY <1>1, <1>4, <1>12, <2>4 DEF InPlace, clickHouseVars
  <1> QED
    BY <1>3, <1>11, <1>12

LEMMA NoRetentionStep ==
    ASSUME ObjectOK, ClickHouseTypeOK, NoRetention
    PROVE  /\ ObjectOK' /\ ClickHouseTypeOK'
           /\ ClaimKept \/ ClaimIsEarned
  <1> DEFINE i == CachedInstance
             new == [i EXCEPT !.retention = Condition("NotConfigured", i)]
  <1>0. Legal(i)
    BY Facts DEF CachedInstance
  <1>1. PICK outcome : UpdateInstanceStatus("cache", new, outcome)
    BY DEF NoRetention
  <1>2. Legal(new) /\ new.retention.reason = "NotConfigured"
    BY <1>0 DEF Legal, Instances, RetentionReports, RetentionReasons, WithinLimits, Condition
  <1> HIDE DEF new
  <1>3. Finish("retention", TRUE) /\ UNCHANGED <<clickHouseVars, retentionVars>>
    BY DEF NoRetention
  <1>4. ObjectOK' /\ (cr' = cr \/ cr' = new)
    BY <1>1, <1>2, <1>3, WrittenPass
  <1>5. ClickHouseTypeOK'
    BY <1>3 DEF ClickHouseTypeOK, clickHouseVars, retentionVars
  <1> QED
    BY <1>2, <1>4, <1>5 DEF ClaimKept, SameClaim, ClaimIsEarned, Claimed

LEMMA DriftControllerStep ==
    ASSUME ObjectOK, ClickHouseTypeOK, SchemaDriftController
    PROVE  ObjectOK' /\ ClickHouseTypeOK' /\ ClaimKept
  <1>0. Legal(CachedInstance)
    BY Facts DEF CachedInstance
  <1>1. PICK outcome : UpdateInstanceStatus("cache", Checked(CachedInstance, Reachable), outcome)
    BY DEF SchemaDriftController, DriftPass
  <1> DEFINE new == Checked(CachedInstance, Reachable)
  <1>2. Legal(new) /\ SameClaim(new, CachedInstance)
    BY <1>0, CheckedIsLegal
  <1> HIDE DEF new
  <1>3. Finish("drift", TRUE) /\ UNCHANGED <<clickHouseVars, retentionVars>>
    BY DEF SchemaDriftController, DriftPass
  <1>4. ObjectOK' /\ ClaimKept
    BY <1>1, <1>2, <1>3, ClaimKeepingPass DEF CachedInstance, new
  <1> QED
    BY <1>3, <1>4 DEF clickHouseVars, retentionVars, ClickHouseTypeOK

\* All but the retention controller are done in one step, and leave its pass alone.
LEMMA OthersStandBack ==
    ASSUME \/ InstanceController \/ HealthMonitor \/ MigrationController
           \/ SchemaDriftController \/ NoRetention \/ \E c \in Controllers : SkipDeleted(c)
    PROVE  PassUntouched
  <1>1. UNCHANGED <<clickHouseVars, retentionVars>>
    BY DEF InstanceController, HealthMonitor, MigrationController, SchemaDriftController,
           DriftPass, NoRetention, SkipDeleted
  <1>2. \E c, requeue : Finish(c, requeue)
    <2>1. CASE InstanceController
      BY <2>1 DEF InstanceController, InstancePass, DatastoresFail, NetworkingFails,
                  InstancePassFails, RejectSpec
    <2>2. CASE MigrationController
      BY <2>2 DEF MigrationController, StartMigration, PollMigration, ReportFailure,
                  RecordMigration, MigrationRefusesSpec, MigrationUpToDate
    <2>3. CASE HealthMonitor \/ SchemaDriftController \/ NoRetention
      BY <2>3 DEF HealthMonitor, HealthPass, SchemaDriftController, DriftPass, NoRetention
    <2>4. CASE \E c \in Controllers : SkipDeleted(c)
      BY <2>4 DEF SkipDeleted
    <2> QED
      BY <2>1, <2>2, <2>3, <2>4
  <1>3. UNCHANGED <<pc, copy>>
    BY <1>2 DEF Finish
  <1> QED
    BY <1>1, <1>3 DEF PassUntouched, clickHouseVars, retentionVars

-----------------------------------------------------------------------------
(* The cluster and what befalls it                                         *)

LEMMA CountedIsTyped ==
    ASSUME NEW c \in Components
    PROVE  Counted(c) \in [ready : Nat, replicas : Nat]
  <1>1. c \in DOMAIN Pods /\ IsFiniteSet(Pods[c])
    BY PodsAssumption, ObserversAssumption DEF Components
  <1>2. /\ IsFiniteSet({p \in Pods[c] : pods[c][p] = "ready"})
        /\ IsFiniteSet({p \in Pods[c] : pods[c][p] # "terminating"})
    BY <1>1, FS_Subset
  <1> QED
    BY <1>2, FS_CardinalityType DEF Counted

LEMMA ClusterStep ==
    ASSUME ObjectOK, WorldTypeOK, ClickHouseTypeOK, Cluster
    PROVE  ObjectOK' /\ WorldTypeOK' /\ ClickHouseTypeOK' /\ PassUntouched /\ ClaimKept
  <1>0. "migration" \in DOMAIN Pods /\ queue \subseteq Controllers
    BY PodsAssumption, Facts
  <1>1. /\ UNCHANGED <<cr, copy, fresh, pc, faults>> /\ queue' \subseteq Controllers
        /\ UNCHANGED <<clickHouseVars, retentionVars>> \/ CreateTables
    <2>0. UNCHANGED <<clickHouseVars, retentionVars>> \/ CreateTables
      BY DEF Cluster
    <2>1. ASSUME NEW c \in DOMAIN Pods, PodsStart(c)
          PROVE  UNCHANGED <<cr, copy, fresh, pc, faults>> /\ queue' \subseteq Controllers
      BY <1>0, <2>1 DEF PodsStart, storeVars
    <2>2. ASSUME NEW c \in Components, DeploymentStatus(c)
          PROVE  UNCHANGED <<cr, copy, fresh, pc, faults>> /\ queue' \subseteq Controllers
      BY <1>0, <2>2 DEF DeploymentStatus
    <2>3. ASSUME JobExpires \/ JobEnds("done")
          PROVE  UNCHANGED <<cr, copy, fresh, pc, faults>> /\ queue' \subseteq Controllers
      BY <1>0, <2>3 DEF JobExpires, JobEnds
    <2> QED
      BY <2>0, <2>1, <2>2, <2>3 DEF Cluster
  <1>2. ObjectOK'
    BY <1>1, WorldStep DEF AtMostOneFault
  <1>3. ClickHouseTypeOK'
    BY <1>1 DEF ClickHouseTypeOK, clickHouseVars, retentionVars, CreateTables
  <1>4. WorldTypeOK'
    <2>1. ASSUME NEW c \in DOMAIN Pods, PodsStart(c) PROVE WorldTypeOK'
      BY <2>1 DEF PodsStart, WorldTypeOK, PodStates
    <2>2. ASSUME NEW c \in Components, DeploymentStatus(c) PROVE WorldTypeOK'
      BY <2>2, CountedIsTyped DEF DeploymentStatus, WorldTypeOK
    <2>3. CASE JobExpires
      BY <1>0, <2>3 DEF JobExpires, WorldTypeOK, PodStates
    <2>4. CASE JobEnds("done")
      BY <1>0, <2>4 DEF JobEnds, WorldTypeOK, PodStates
    <2> QED
      BY <2>1, <2>2, <2>3, <2>4 DEF Cluster
  <1>5. PassUntouched
    BY <1>1 DEF PassUntouched, clickHouseVars, retentionVars, CreateTables
  <1> QED
    BY <1>1, <1>2, <1>3, <1>4, <1>5 DEF ClaimKept, SameClaim

LEMMA DisturbanceStep ==
    ASSUME ObjectOK, WorldTypeOK, ClickHouseTypeOK, PassStands, Disturbance
    PROVE  ObjectOK' /\ WorldTypeOK' /\ ClickHouseTypeOK' /\ PassStands' /\ ClaimKept
  <1>0. /\ {"migration"} \cup Components \subseteq DOMAIN Pods
        /\ queue \subseteq Controllers
    BY PodsAssumption, Facts DEF Components
  <1>1. ASSUME UNCHANGED <<clickHouseVars, retentionVars>>, UNCHANGED <<copy, pc>>
        PROVE  ClickHouseTypeOK' /\ PassStands'
    <2>1. PassUntouched
      BY <1>1 DEF PassUntouched, clickHouseVars, retentionVars
    <2> QED
      BY <1>1, <2>1, UntouchedPassStands DEF clickHouseVars, retentionVars, ClickHouseTypeOK
  <1>2. CASE /\ \E c \in DOMAIN Pods : \E p \in Pods[c], s \in PodStates : PodChanges(c, p, s)
             /\ UNCHANGED <<clickHouseVars, retentionVars>>
    <2>1. PICK c \in DOMAIN Pods : \E p \in Pods[c], s \in PodStates : PodChanges(c, p, s)
      BY <1>2
    <2>2. PICK p \in Pods[c], s \in PodStates : PodChanges(c, p, s)
      BY <2>1
    <2>3. Fault /\ UNCHANGED <<cr, copy, fresh, queue, pc, deploy, job, up, hung>>
      BY <2>2 DEF PodChanges
    <2>4. WorldTypeOK'
      BY <2>2 DEF PodChanges, WorldTypeOK
    <2> QED
      BY <1>0, <1>2, <1>1, <2>3, <2>4, WorldStep DEF AtMostOneFault, ClaimKept, SameClaim
  <1>3. CASE JobEnds("failed") /\ UNCHANGED <<clickHouseVars, retentionVars>>
    <2>1. Fault /\ queue' \subseteq Controllers /\ UNCHANGED <<cr, copy, fresh, pc>>
      BY <1>0, <1>3 DEF JobEnds
    <2>2. WorldTypeOK'
      BY <1>0, <1>3 DEF JobEnds, WorldTypeOK, PodStates
    <2> QED
      BY <1>3, <1>1, <2>1, <2>2, WorldStep DEF AtMostOneFault, ClaimKept, SameClaim
  <1>4. CASE /\ \E d \in Dependencies : DatastoreFlips(d) \/ DatastoreHangs(d)
             /\ UNCHANGED <<clickHouseVars, retentionVars>>
    <2>1. Fault /\ UNCHANGED <<cr, copy, fresh, queue, pc>>
      BY <1>4 DEF DatastoreFlips, DatastoreHangs
    <2>2. WorldTypeOK'
      BY <1>4 DEF DatastoreFlips, DatastoreHangs, WorldTypeOK
    <2> QED
      BY <1>0, <1>4, <1>1, <2>1, <2>2, WorldStep DEF AtMostOneFault, ClaimKept, SameClaim
  <1>5. CASE /\ \/ \E t \in Expected : TableFlips(t)
                \/ \E t \in Timed : TableRefuses(t)
                \/ \E n \in Nodes, d \in Disks : DiskFills(n, d)
             /\ UNCHANGED worldVars
    <2>1. Fault /\ UNCHANGED <<cr, copy, fresh, queue, pc>>
      BY <1>5 DEF TableFlips, TableRefuses, DiskFills
    <2>2. ClickHouseTypeOK'
      BY <1>5 DEF TableFlips, TableRefuses, DiskFills, ClickHouseTypeOK, Expected, retentionVars
    <2>3. WorldTypeOK'
      BY <1>5 DEF worldVars, WorldTypeOK
    <2>4. PassStands'
      <3>1. CASE \E t \in Expected : TableFlips(t)
        <4>1. PICK t \in Expected : TableFlips(t)
          BY <3>1
        <4>2. CASE Running
          <5>1. \A x \in Timed : x \in remade' \/ ttl'[x] = ttl[x]
            BY <4>1, <4>2 DEF TableFlips, ClickHouseTypeOK
          <5>2. remade \subseteq remade' /\ pass' = pass
            BY <4>1, <4>2 DEF TableFlips
          <5>3. \A k \in DOMAIN Tables : Tables[k] \in Timed
            BY DEF Timed, Range
          <5> QED
            BY <4>2, <2>1, <5>1, <5>2, <5>3
               DEF PassStands, Running, Retained, Applied, AppliedIn, Statements
        <4>3. CASE ~Running
          BY <2>1, <4>3 DEF PassStands, Running
        <4> QED
          BY <4>2, <4>3
      <3>2. CASE UNCHANGED <<ttl, retentionVars>>
        <4>1. PassUntouched
          BY <2>1, <3>2 DEF PassUntouched, retentionVars
        <4> QED
          BY <4>1, UntouchedPassStands
      <3> QED
        BY <1>5, <3>1, <3>2 DEF TableRefuses, DiskFills
    <2> QED
      BY <1>0, <2>1, <2>2, <2>3, <2>4, WorldStep DEF AtMostOneFault, ClaimKept, SameClaim
  <1> QED
    BY <1>0, <1>2, <1>3, <1>4, <1>5, ObserversAssumption DEF Disturbance, PodStates

-----------------------------------------------------------------------------
(* The initial state                                                       *)

LEMMA FirstInstanceIsLegal ==
    ASSUME NEW start, NEW spec \in Specs, WorldInit(start)
    PROVE  Legal(FirstInstance(start, spec))
  <1> DEFINE first == FirstInstance(start, spec)
             status == FirstStatus(start)
             report == FirstReport(start, spec, Reachable)
  <1>1. /\ status.phase \in Phases /\ status.ready \in BOOLEAN /\ status.readyCond \in BOOLEAN
        /\ status.mig \in {"none", "running", "failed", "done"}
        /\ status.migIssues = {} /\ status.migrated \in BOOLEAN
    BY DEF FirstStatus, Phases
  <1>2. /\ status.status \in ComponentReports /\ status.cond \in ConditionReports
        /\ \A c \in Components : status.status[c] = Unset \/ status.status[c].issues = {}
    <2>1. CASE start = "new"
      BY <2>1 DEF FirstStatus, ComponentReports, ConditionReports, ConditionOf, Texts
    <2>2. CASE start # "new"
      BY <2>2 DEF FirstStatus, ComponentReports, ConditionReports, ConditionOf, Texts
    <2> QED
      BY <2>1, <2>2
  <1>3. /\ report.retention \in RetentionReports /\ report.retention.gen \in {0, 1}
        /\ report.retentionApplied \in Flags /\ report.schemaDrift \in Flags
        /\ report.pressure \in PressureReports /\ report.drift \in DriftReports
    <2>1. Pressure(spec, Reachable) \in PressureReports
      BY DEF Pressure, PressureReports
    <2>2. CASE start = "new"
      BY <2>2 DEF FirstReport, RetentionReports, RetentionReasons, Flags, PressureReports, DriftReports
    <2>3. CASE start # "new"
      <3>1. report.pressure \in PressureReports
        BY <2>1, <2>3 DEF FirstReport, PressureReports
      <3>2. report.retention \in RetentionReports /\ report.retention.gen = 1
        BY <2>3 DEF FirstReport, RetentionReports, RetentionReasons
      <3>3. /\ report.retentionApplied \in Flags /\ report.schemaDrift \in Flags
            /\ report.drift \in DriftReports
        BY <2>3 DEF FirstReport, Flags, DriftReports
      <3> QED
        BY <3>1, <3>2, <3>3
    <2> QED
      BY <2>2, <2>3
  <1> HIDE DEF status, report
  <1>5. first = [gen |-> 1, deleting |-> FALSE, spec |-> spec,
                 phase |-> status.phase, ready |-> status.ready, readyCond |-> status.readyCond,
                 status |-> status.status, cond |-> status.cond,
                 mig |-> status.mig, migIssues |-> status.migIssues,
                 migrated |-> status.migrated,
                 retention |-> report.retention, retentionApplied |-> report.retentionApplied,
                 pressure |-> report.pressure, drift |-> report.drift,
                 schemaDrift |-> report.schemaDrift]
    BY DEF FirstInstance, status, report
  <1> HIDE DEF first
  <1>6. first \in Instances
    BY <1>1, <1>2, <1>3, <1>5 DEF Instances
  <1>7. /\ \A c \in Components : first.status[c] # Unset => first.status[c].issues = {}
        /\ first.migIssues = {} /\ first.retention.gen <= first.gen
    BY <1>1, <1>2, <1>3, <1>5
  <1>8. Cardinality({}) = 0 /\ MaxReportedPodIssues \in Nat
    BY FS_EmptySet, MaxReportedAssumption
  <1>9. WithinLimits(first)
    <2>1. ASSUME NEW c \in Components, first.status[c] # Unset
          PROVE  Cardinality(first.status[c].issues) <= MaxReportedPodIssues
      <3>1. first.status[c].issues = {}
        BY <1>7, <2>1
      <3> QED
        BY <3>1, <1>8
    <2>2. Cardinality(first.migIssues) <= MaxReportedPodIssues
      BY <1>7, <1>8
    <2> QED
      BY <2>1, <2>2, <1>7 DEF WithinLimits
  <1>10. Legal(first)
    BY <1>6, <1>9 DEF Legal
  <1> QED
    BY <1>10 DEF first

LEMMA InitHolds == Init => TypeOK /\ PassStands
  <1> SUFFICES ASSUME Init PROVE TypeOK /\ PassStands
    OBVIOUS
  <1> DEFINE start == scenario.start
             spec == scenario.first
             first == FirstInstance(start, spec)
  <1>1. /\ scenario \in Scenarios /\ WorldInit(start) /\ ClickHouseInit(start, spec)
        /\ StoreStarts({first}, scenario.spent)
    BY DEF Init
  <1>2. spec \in Specs /\ scenario.spent \in 0..MaxFaults
    BY <1>1, ObserversAssumption DEF Specs
  <1>3. Legal(first)
    BY <1>1, <1>2, FirstInstanceIsLegal
  <1> HIDE DEF first
  <1>4. StoreOK(Instances, Places)
    <2>1. {first} \subseteq Instances /\ "idle" \in Places
      BY <1>3 DEF Legal, Places
    <2> QED
      BY <1>1, <1>2, <2>1, NoCopyAssumption, StoreBegins
  <1>5. cr = first /\ \A h \in Holders : copy[h] # NoCopy => copy[h] = cr
    BY <1>1 DEF StoreStarts
  <1>6. ObjectOK
    BY <1>3, <1>4, <1>5 DEF ObjectOK, Legal
  <1>7. WorldTypeOK
    <2>1. \A c \in Components : Counted(c) \in [ready : Nat, replicas : Nat]
      BY CountedIsTyped
    <2> QED
      BY <1>1, <2>1 DEF WorldInit, WorldTypeOK, PodStates
  <1>8. ClickHouseTypeOK
    <2>1. ttl \in [Timed -> Nat] /\ FirstDisk \in Disks
      BY <1>1, <1>2, ObserversAssumption DEF ClickHouseInit
    <2> QED
      BY <1>1, <2>1 DEF ClickHouseInit, ClickHouseTypeOK, NoPass, RetentionReasons,
                        PressureReports
  <1>9. PassStands
    BY <1>1 DEF StoreStarts, PassStands, Running
  <1> QED
    BY <1>1, <1>6, <1>7, <1>8, <1>9, PartsOfTypeOK

-----------------------------------------------------------------------------
(* The user and the operator's process                                     *)

\* An edit begins a generation of which nothing is claimed yet.
LEMMA UserSteps ==
    ASSUME ObjectOK, Delete \/ \E spec \in Specs : Edit(spec)
    PROVE  ObjectOK' /\ PassUntouched /\ ~Claimed'
  <1>1. PICK new : /\ ExternalWrite(new) /\ Fault
                   /\ \/ new = [cr EXCEPT !.deleting = TRUE, !.gen = @ + 1]
                      \/ \E spec \in Specs : new = [cr EXCEPT !.spec = spec, !.gen = @ + 1]
    BY DEF Delete, Edit
  <1>2. Legal(cr)
    BY Facts
  <1>3. new \in Instances /\ new.gen = cr.gen + 1 /\ new.retention = cr.retention
        /\ new.status = cr.status /\ new.migIssues = cr.migIssues
    <2> DEFINE gen == cr.gen + 1
    <2>1. gen \in Nat
      BY <1>2 DEF Legal, Instances
    <2>2. \/ new = [cr EXCEPT !.deleting = TRUE, !.gen = gen]
          \/ \E spec \in Specs : new = [cr EXCEPT !.spec = spec, !.gen = gen]
      BY <1>1, <1>2 DEF Legal, Instances
    <2> HIDE DEF gen
    <2>3. CASE new = [cr EXCEPT !.deleting = TRUE, !.gen = gen]
      BY <1>2, <2>1, <2>3 DEF Legal, Instances, gen
    <2>4. ASSUME NEW spec \in Specs, new = [cr EXCEPT !.spec = spec, !.gen = gen]
          PROVE  new \in Instances /\ new.gen = gen /\ new.retention = cr.retention
                 /\ new.status = cr.status /\ new.migIssues = cr.migIssues
      BY <1>2, <2>1, <2>4 DEF Legal, Instances
    <2> QED
      BY <2>2, <2>3, <2>4 DEF gen
  <1>4. cr.gen \in Nat /\ cr.retention.gen \in Nat /\ cr.retention.gen <= cr.gen
    BY <1>2 DEF Legal, Instances, RetentionReports, WithinLimits
  <1>5. Legal(new)
    BY <1>2, <1>3, <1>4 DEF Legal, WithinLimits
  <1>6. ObjectOK'
    BY <1>1, <1>5, UserStep DEF AtMostOneFault
  <1>7. cr' = new /\ UNCHANGED <<copy, pc>>
    BY <1>1 DEF ExternalWrite
  <1>8. PassUntouched
    BY <1>7 DEF PassUntouched, Delete, Edit, clickHouseVars, retentionVars
  <1> QED
    BY <1>3, <1>4, <1>6, <1>7, <1>8 DEF Claimed

LEMMA CacheSteps ==
    ASSUME ObjectOK, PassStands, ClickHouseTypeOK, WatchInstance \/ RestartOperator
    PROVE  ObjectOK' /\ ClickHouseTypeOK' /\ PassStands' /\ ClaimKept
  <1>0. "cache" \in Holders /\ "cache" \notin Controllers /\ WithinLimits(cr)
    BY Facts DEF ObjectOK
  <1>1. CASE WatchInstance
    <2>1. PICK woken : woken \subseteq Controllers /\ SyncCache(woken)
      BY <1>1 DEF WatchInstance, WokenByInstance
    <2>2. StoreOK(Instances, Places)'
      BY <2>1, Facts, NoCopyAssumption, SyncCacheStep
    <2>3. /\ cr' = cr /\ pc' = pc
          /\ copy' = [copy EXCEPT !["cache"] = cr] /\ copy \in [Holders -> Instances \cup {NoCopy}]
      BY <2>1, Facts DEF SyncCache, StoreOK, StoreTypeOK
    <2>4. \A h \in Holders : copy'[h] # NoCopy => WithinLimits(copy'[h])
      BY <1>0, <2>3 DEF ObjectOK
    <2>5. UNCHANGED <<clickHouseVars, retentionVars>>
      BY <1>1 DEF WatchInstance
    <2>6. PassUntouched
      BY <1>0, <2>3, <2>5 DEF PassUntouched, clickHouseVars, retentionVars, Holders
    <2>7. ClickHouseTypeOK'
      BY <2>5 DEF ClickHouseTypeOK, clickHouseVars, retentionVars
    <2> QED
      BY <1>0, <2>2, <2>3, <2>4, <2>6, <2>7, UntouchedPassStands
         DEF ObjectOK, WithinLimits, ClaimKept, SameClaim
  <1>2. CASE RestartOperator
    <2>1. StoreOK(Instances, Places)'
      BY <1>2, Facts, NoCopyAssumption, RestartStep DEF RestartOperator, Places
    <2>2. /\ cr' = cr /\ \A c \in Controllers : pc'[c] = "idle"
          /\ \A h \in Holders : copy'[h] # NoCopy => copy'[h] = cr
      BY <1>2 DEF RestartOperator, Restart
    <2>3. ClickHouseTypeOK'
      BY <1>2 DEF RestartOperator, ClickHouseTypeOK, clickHouseVars, NoPass, RetentionReasons,
                  PressureReports
    <2>4. PassStands'
      BY <2>2 DEF PassStands, Running
    <2> QED
      BY <1>0, <2>1, <2>2, <2>3, <2>4 DEF ObjectOK, WithinLimits, ClaimKept, SameClaim
  <1> QED
    BY <1>1, <1>2

\* Every step keeps the types and what the pass knows, and the claim of the status about
\* the retention policies stands as it was, is withdrawn, or is about TTLs that are in place.
LEMMA NextStep ==
    ASSUME TypeOK, PassStands, [Next]_vars
    PROVE  TypeOK' /\ PassStands' /\ (ClaimKept \/ ClaimIsEarned)
  <1>0. ObjectOK /\ WorldTypeOK /\ ClickHouseTypeOK /\ scenario \in Scenarios
    BY PartsOfTypeOK
  <1>1. scenario' = scenario
    BY DEF Next, vars
  <1>a. ASSUME ObjectOK', WorldTypeOK', ClickHouseTypeOK' PROVE TypeOK'
    <2>1. scenario' \in Scenarios
      BY <1>0, <1>1
    <2> QED
      BY <1>a, <2>1, PartsMakeTypeOK
  <1>b. ASSUME UNCHANGED worldVars PROVE WorldTypeOK'
    BY <1>0, <1>b DEF worldVars, WorldTypeOK
  <1>c. ASSUME UNCHANGED <<clickHouseVars, retentionVars>> PROVE ClickHouseTypeOK'
    BY <1>0, <1>c DEF clickHouseVars, retentionVars, ClickHouseTypeOK
  <1>2. CASE InstanceController \/ HealthMonitor \/ MigrationController
    <2>1. PassStands'
      BY <1>2, OthersStandBack, UntouchedPassStands
    <2>2. ObjectOK' /\ WorldTypeOK' /\ ClaimKept
      BY <1>0, <1>2, InstanceControllerStep, HealthMonitorStep, MigrationControllerStep
    <2>3. ClickHouseTypeOK'
      BY <1>2, <1>c DEF InstanceController, HealthMonitor, MigrationController
    <2> QED
      BY <1>a, <2>1, <2>2, <2>3
  <1>3. CASE RetentionController
    <2>1. RetentionSteps(Reachable) /\ WorldTypeOK'
      BY <1>3, <1>b DEF RetentionController
    <2>2. CASE NoRetention
      <3>1. PassStands'
        BY <2>2, OthersStandBack, UntouchedPassStands
      <3> QED
        BY <1>0, <1>a, <2>1, <2>2, <3>1, NoRetentionStep
    <2> QED
      BY <1>0, <1>a, <2>1, <2>2, PassBegins, StatementStep, QueryStep, WriteStep
         DEF RetentionSteps
  <1>4. CASE SchemaDriftController
    <2>1. PassStands'
      BY <1>4, OthersStandBack, UntouchedPassStands
    <2> QED
      BY <1>0, <1>4, <1>a, <1>b, <2>1, DriftControllerStep DEF SchemaDriftController
  <1>5. CASE \E c \in Controllers : SkipDeleted(c)
    <2>1. PICK c : /\ Finish(c, FALSE) /\ NoWrite("cache")
                   /\ UNCHANGED <<worldVars, clickHouseVars, retentionVars>>
      BY <1>5 DEF SkipDeleted
    <2>2. ObjectOK' /\ cr' = cr
      BY <1>0, <2>1, UnwrittenPass DEF NoWrite, AtMostOneFault
    <2>3. PassStands'
      BY <1>5, OthersStandBack, UntouchedPassStands
    <2> QED
      BY <2>1, <2>2, <2>3, <1>a, <1>b, <1>c DEF ClaimKept, SameClaim
  <1>6. CASE WatchInstance \/ RestartOperator
    <2>1. UNCHANGED worldVars
      BY <1>6 DEF WatchInstance, RestartOperator
    <2> QED
      BY <1>0, <1>6, <1>a, <1>b, <2>1, CacheSteps
  <1>7. CASE Cluster
    BY <1>0, <1>7, <1>a, ClusterStep, UntouchedPassStands
  <1>8. CASE Disturbance
    BY <1>0, <1>8, <1>a, DisturbanceStep
  <1>9. CASE Delete \/ \E spec \in scenario.specs : Edit(spec)
    <2>1. UNCHANGED worldVars /\ UNCHANGED <<clickHouseVars, retentionVars>>
      BY <1>9 DEF Delete, Edit
    <2>2. Delete \/ \E spec \in Specs : Edit(spec)
      BY <1>0, <1>9 DEF Specs
    <2>3. ObjectOK' /\ PassUntouched /\ ~Claimed'
      BY <1>0, <2>2, UserSteps
    <2> QED
      BY <1>a, <1>b, <1>c, <2>1, <2>3, UntouchedPassStands DEF ClaimIsEarned
  <1>10. CASE UNCHANGED vars
    <2>1. /\ UNCHANGED <<worldVars, clickHouseVars, retentionVars>>
          /\ UNCHANGED <<cr, copy, fresh, queue, pc, faults>>
      BY <1>10 DEF vars, moving, storeVars
    <2>2. ObjectOK'
      BY <1>0, <2>1, Facts, WorldStep DEF AtMostOneFault
    <2>3. PassUntouched
      BY <2>1 DEF PassUntouched, clickHouseVars, retentionVars
    <2> QED
      BY <1>a, <1>b, <1>c, <2>1, <2>2, <2>3, UntouchedPassStands DEF ClaimKept, SameClaim
  <1> QED
    BY <1>2, <1>3, <1>4, <1>5, <1>6, <1>7, <1>8, <1>9, <1>10 DEF Next, Reconcile

\* The types and what the pass knows, together.
LEMMA PassesStand == Spec => [](TypeOK /\ PassStands)
  <1>1. Init => TypeOK /\ PassStands
    BY InitHolds
  <1>2. TypeOK /\ PassStands /\ [Next]_vars => (TypeOK /\ PassStands)'
    BY NextStep
  <1> QED
    BY <1>1, <1>2, PTL DEF Spec

\* The status of an instance keeps its type whatever the controllers, the cluster and the
\* user do, in whatever order: collectPodIssues keeps to maxReportedPodIssues, the
\* retention condition is never about a generation to come, and a copy that counts as
\* current, the one that a retention pass carries through its statements among them, is
\* the object itself.
THEOREM TypesHold == Spec => []TypeOK
  BY PassesStand, PTL

\* The retention controller's claim that the policies of the current generation are
\* applied is made only when every table that was not dropped or made anew since the pass
\* began has the positive TTL that the spec asks for, however the statements of the pass,
\* its question about the disks and its write lie between the steps of all others:
\* applyRetention stopped nowhere, and the write replaced the very object that the pass
\* had read.
THEOREM ClaimsAreTrue == Spec => ClaimsOnlyWhatIsInPlace
  <1>1. TypeOK /\ PassStands /\ [Next]_vars =>
           [Claimed' /\ ~Claimed => \A t \in Timed \ remade : InPlace(t)']_vars
    <2> SUFFICES ASSUME TypeOK, PassStands, [Next]_vars, Claimed', ~Claimed
                 PROVE  \A t \in Timed \ remade : InPlace(t)'
      OBVIOUS
    <2>1. ~ClaimKept
      BY DEF ClaimKept, SameClaim, Claimed
    <2> QED
      BY <2>1, NextStep DEF ClaimIsEarned
  <1> QED
    BY <1>1, PassesStand, PTL DEF Spec, ClaimsOnlyWhatIsInPlace
=============================================================================
