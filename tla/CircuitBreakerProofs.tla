------------------------ MODULE CircuitBreakerProofs ------------------------
(***************************************************************************)
(* Why the circuit breaker raises its flag, proved for any dependencies,   *)
(* thresholds and specs and any number of disturbances, edits and outages. *)
(***************************************************************************)
EXTENDS CircuitBreaker, StoreProofs

Places == {"idle", "read", "status"}

MemoryOK ==
    /\ active \in BOOLEAN
    /\ todo \in 1..(Len(Components) + 1)
    /\ failures \in [Dependencies -> 0..Threshold]
    /\ saved \in [Dependencies -> Counts \cup {Absent}]

WorkerOK ==
    /\ replicas \in Counts \cup {Absent}
    /\ owners \subseteq {"instance", "breaker"}
    /\ workerCache \in Counts \cup {Absent}

WorldOK ==
    /\ up \in [Dependencies -> BOOLEAN]
    /\ flips \in 0..MaxFlips

Parts == StoreOK(Objects, Places) /\ MemoryOK /\ WorkerOK /\ WorldOK /\ RaisedByCount

LEMMA PartsOfIInv == IInv <=> Parts
  BY DEF IInv, TypeOK, Parts, Places, StoreOK, MemoryOK, WorkerOK, WorldOK

LEMMA PartsMakeIInv == Parts' => IInv'
  BY PartsOfIInv, PTL

LEMMA Facts ==
    ASSUME Parts
    PROVE  /\ "breaker" \in Controllers /\ "instance" \in Controllers /\ "cache" \in Holders
           /\ "breaker" \in Holders /\ "instance" \in Holders
           /\ "breaker" # "cache" /\ "instance" # "cache"
           /\ StoreOK(Objects, Places) /\ MemoryOK /\ WorkerOK /\ WorldOK /\ RaisedByCount
           /\ cr \in Objects /\ copy["cache"] \in Objects
           /\ \A c \in Controllers : pc[c] # "idle" => copy[c] \in Objects
           /\ queue \subseteq Controllers
           /\ copy = [h \in Holders |-> copy[h]] /\ pc = [c \in Controllers |-> pc[c]]
           /\ "idle" \in Places
  BY BreakerAssumption, ControllersAssumption
     DEF Parts, Holders, StoreOK, StoreTypeOK, FreshMeansEqual, Places

LEMMA Constants ==
    /\ 0 \in Counts /\ 1 \in Counts
    /\ Threshold \in Nat /\ 0 \in 0..Threshold
    /\ Len(Components) \in Nat
    /\ \A k \in 1..Len(Components) : Components[k] \in Dependencies
    /\ \A spec \in Specs : spec.replicas \in Counts
  BY BreakerAssumption DEF Counts, Dependencies

\* What a process starts with.
LEMMA NothingCounted ==
    /\ NoCounts \in [Dependencies -> 0..Threshold]
    /\ NoneSaved \in [Dependencies -> Counts \cup {Absent}]
    /\ 1 \in 1..(Len(Components) + 1)
  <1>1. NoCounts \in [Dependencies -> 0..Threshold]
    BY Constants DEF NoCounts
  <1>2. NoneSaved \in [Dependencies -> Counts \cup {Absent}]
    BY DEF NoneSaved
  <1>3. 1 \in 1..(Len(Components) + 1)
    BY Constants
  <1> QED
    BY <1>1, <1>2, <1>3

\* A step that leaves the running pass of the breaker alone.
LEMMA RaisedRests ==
    ASSUME RaisedByCount, pc'["breaker"] = pc["breaker"], copy'["breaker"] = copy["breaker"],
           UNCHANGED <<active, todo, failures>>
    PROVE  RaisedByCount'
  BY DEF RaisedByCount

\* A step after which no pass of the breaker runs.
LEMMA NoneRaised ==
    ASSUME pc'["breaker"] # "read"
    PROVE  RaisedByCount'
  BY DEF RaisedByCount

LEMMA MemoryRests == MemoryOK /\ UNCHANGED memoryVars => MemoryOK'
  BY DEF MemoryOK, memoryVars

LEMMA WorkerRests == WorkerOK /\ UNCHANGED workerVars => WorkerOK'
  BY DEF WorkerOK, workerVars

LEMMA WorldRests == WorldOK /\ UNCHANGED <<up, flips>> => WorldOK'
  BY DEF WorldOK

-----------------------------------------------------------------------------
(* The breaker                                                             *)

\* The status flag goes up.
Raised == cr'.active /\ ~cr.active

LEMMA GetBreakerStep ==
    ASSUME Parts, GetBreaker
    PROVE  Parts' /\ ~Raised
  <1>1. /\ Ready("breaker") /\ Start("breaker", "read")
        /\ fresh' = (IF "cache" \in fresh THEN fresh \cup {"breaker"} ELSE fresh)
        /\ UNCHANGED <<cr, faults>>
    BY DEF GetBreaker, Get
  <1>2. StoreOK(Objects, Places)'
    BY <1>1, Facts, NoCopyAssumption, StartStep DEF AtMostOneFault, Places
  <1>3. copy'["breaker"] = copy["cache"]
    BY <1>1, Facts DEF Start
  <1>4. /\ active' = copy["cache"].active /\ todo' = 1
        /\ UNCHANGED <<failures, saved, workerVars, up, flips>>
    BY DEF GetBreaker
  <1>5. MemoryOK'
    BY <1>4, Facts, Constants DEF MemoryOK, Objects
  <1>6. RaisedByCount'
    BY <1>3, <1>4 DEF RaisedByCount
  <1>7. WorkerOK' /\ WorldOK'
    BY <1>4, Facts, WorkerRests, WorldRests
  <1> QED
    BY <1>1, <1>2, <1>5, <1>6, <1>7 DEF Parts, Raised

LEMMA SkipBreakerStep ==
    ASSUME Parts, SkipBreaker
    PROVE  Parts' /\ ~Raised
  <1>1. /\ NoWrite("breaker") /\ Return("breaker", FALSE)
        /\ UNCHANGED <<memoryVars, workerVars, up, flips>>
    BY DEF SkipBreaker
  <1>2. AtMostOneFault /\ fresh' \subseteq fresh /\ "breaker" \notin fresh' /\ cr' = cr
    BY <1>1, NothingWritten
  <1>3. StoreOK(Objects, Places)'
    BY <1>1, <1>2, Facts, ReturnStep
  <1>4. pc'["breaker"] = "idle"
    BY <1>1, Facts DEF Return
  <1> QED
    BY <1>1, <1>2, <1>3, <1>4, Facts, NoneRaised, MemoryRests, WorkerRests, WorldRests
       DEF Parts, Raised

\* The breaker's write raises the flag only as its pass has found it.
LEMMA WriteBreakerStep ==
    ASSUME Parts, WriteBreaker
    PROVE  Parts' /\ (Raised => \E c \in Dependencies : failures[c] >= Threshold)
  <1> DEFINE new == [copy["breaker"] EXCEPT !.active = active]
  <1>1. pc["breaker"] = "read" /\ copy["breaker"] \in Objects
    BY Facts DEF WriteBreaker
  <1>2. new \in Objects /\ new.active = active
    BY <1>1, Facts DEF Objects, MemoryOK
  <1>3. PICK outcome : UpdateInstanceStatus("breaker", new, outcome)
    BY DEF WriteBreaker
  <1> HIDE DEF new
  <1>4. /\ AtMostOneFault /\ fresh' \subseteq fresh /\ "breaker" \notin fresh'
        /\ \/ cr' = new /\ copy["breaker"] = cr /\ fresh' = {}
           \/ cr' = cr
    BY <1>2, <1>3, Facts, StatusWritten
  <1>5. Return("breaker", TRUE) /\ UNCHANGED <<memoryVars, workerVars, up, flips>>
    BY DEF WriteBreaker
  <1>6. StoreOK(Objects, Places)'
    <2>1. cr' \in Objects
      BY <1>2, <1>4, Facts
    <2> QED
      BY <1>4, <1>5, <2>1, Facts, ReturnStep
  <1>7. pc'["breaker"] = "idle"
    BY <1>5, Facts DEF Return
  <1>8. Parts'
    BY <1>5, <1>6, <1>7, Facts, NoneRaised, MemoryRests, WorkerRests, WorldRests DEF Parts
  <1>9. ASSUME Raised PROVE \E c \in Dependencies : failures[c] >= Threshold
    <2>1. active /\ ~copy["breaker"].active
      BY <1>2, <1>4, <1>9 DEF Raised
    <2>2. PICK k \in 1..(todo - 1) : failures[Components[k]] >= Threshold
      BY <1>1, <2>1, Facts DEF RaisedByCount
    <2>3. k \in 1..Len(Components)
      BY <2>2, Facts, Constants DEF MemoryOK
    <2> QED
      BY <2>2, <2>3, Constants
  <1> QED
    BY <1>8, <1>9

LEMMA PatchIsTyped ==
    ASSUME WorkerOK, NEW n \in Counts, PatchReplicas(n), workerCache' = workerCache
    PROVE  WorkerOK'
  BY DEF WorkerOK, PatchReplicas

\* A probe changes counts of its own dependency only.
LEMMA ProbeStep ==
    ASSUME Parts, NEW c \in Dependencies, ProbeSucceeds(c) \/ ProbeFails(c)
    PROVE  Parts' /\ ~Raised
  <1>0. /\ Probing(c) /\ UNCHANGED <<cr, copy, fresh, queue, pc, workerCache, up, flips>>
        /\ pc["breaker"] = "read" /\ todo \in 1..Len(Components) /\ c = Components[todo]
        /\ todo' = todo + 1
    BY Facts, Constants DEF ProbeSucceeds, ProbeFails, Probing, MemoryOK
  <1>1. Counted(c) \in 0..Threshold
    BY Facts, Constants DEF Counted, MemoryOK
  <1>2. RestorePoint(c) \in Counts
    BY Facts, Constants DEF RestorePoint, MemoryOK
  <1>3. PICK n \in 0..Threshold :
            /\ failures' = [failures EXCEPT ![c] = n]
            /\ active' = active \/ active' = FALSE \/ (active' = TRUE /\ n >= Threshold)
            /\ saved' = saved \/ \E s \in Counts \cup {Absent} : saved' = [saved EXCEPT ![c] = s]
            /\ AtMostOneFault
            /\ WorkerOK'
    <2>1. ASSUME UNCHANGED <<active, saved, replicas, owners, faults>>
          PROVE  /\ active' = active /\ saved' = saved /\ AtMostOneFault /\ WorkerOK'
      BY <1>0, <2>1, Facts DEF AtMostOneFault, WorkerOK
    <2>2. CASE ProbeSucceeds(c)
      <3>1. failures' = [failures EXCEPT ![c] = 0]
        BY <2>2 DEF ProbeSucceeds
      <3>2. UNCHANGED <<active, saved, replicas, owners, faults>> \/ Recover(c)
        BY <2>2 DEF ProbeSucceeds
      <3>3. CASE Recover(c)
        <4>1. CASE UNCHANGED <<active, saved, replicas, owners, faults>>
          BY <3>1, <4>1, <2>1, Constants
        <4>2. CASE /\ PatchReplicas(RestorePoint(c)) /\ active' = FALSE
                   /\ saved' = [saved EXCEPT ![c] = Absent] /\ UNCHANGED faults
          BY <1>0, <1>2, <3>1, <4>2, Facts, Constants, PatchIsTyped DEF AtMostOneFault
        <4>3. CASE FailedPatch(RestorePoint(c)) /\ UNCHANGED <<active, saved>>
          <5>1. WorkerOK' /\ AtMostOneFault
            BY <1>0, <1>2, <4>3, Facts, PatchIsTyped
               DEF FailedPatch, AtMostOneFault, WorkerOK
          <5> QED
            BY <3>1, <4>3, <5>1, Constants
        <4> QED
          BY <3>3, <4>1, <4>2, <4>3 DEF Recover
      <3> QED
        BY <3>1, <3>2, <3>3, <2>1, Constants
    <2>3. CASE ProbeFails(c)
      <3>1. failures' = [failures EXCEPT ![c] = Counted(c)]
        BY <2>3 DEF ProbeFails
      <3>2. \/ UNCHANGED <<active, saved, replicas, owners, faults>>
            \/ Open(c) /\ Counted(c) >= Threshold
        BY <2>3 DEF ProbeFails
      <3>3. CASE Open(c) /\ Counted(c) >= Threshold
        <4>1. CASE UNCHANGED <<active, saved, replicas, owners, faults>>
          BY <1>1, <3>1, <4>1, <2>1
        <4>2. CASE /\ workerCache # Absent
                   /\ saved' = IF active THEN saved ELSE [saved EXCEPT ![c] = workerCache]
                   /\ \/ PatchReplicas(0) /\ active' = TRUE /\ UNCHANGED faults
                      \/ FailedPatch(0) /\ UNCHANGED active
          <5>1. saved' = saved \/ \E s \in Counts \cup {Absent} : saved' = [saved EXCEPT ![c] = s]
            BY <4>2, Facts DEF WorkerOK
          <5>2. WorkerOK' /\ AtMostOneFault
            BY <1>0, <4>2, Facts, Constants, PatchIsTyped
               DEF FailedPatch, AtMostOneFault, WorkerOK
          <5> QED
            BY <1>1, <3>1, <3>3, <4>2, <5>1, <5>2
        <4> QED
          BY <3>3, <4>1, <4>2 DEF Open
      <3> QED
        BY <1>1, <3>1, <3>2, <3>3, <2>1
    <2> QED
      BY <2>2, <2>3
  <1>4. MemoryOK'
    <2>1. active' \in BOOLEAN
      BY <1>3, Facts DEF MemoryOK
    <2>2. todo' \in 1..(Len(Components) + 1)
      BY <1>0, Constants
    <2>3. failures' \in [Dependencies -> 0..Threshold]
      BY <1>3, Facts DEF MemoryOK
    <2>4. saved' \in [Dependencies -> Counts \cup {Absent}]
      BY <1>3, Facts DEF MemoryOK
    <2> QED
      BY <2>1, <2>2, <2>3, <2>4 DEF MemoryOK
  <1>5. StoreOK(Objects, Places)'
    BY <1>0, <1>3, Facts, QuietStep
  <1>6. RaisedByCount'
    <2> SUFFICES ASSUME active', ~copy["breaker"].active
                 PROVE  \E k \in 1..todo : failures'[Components[k]] >= Threshold
      BY <1>0, Facts, Constants DEF RaisedByCount
    <2>1. failures \in [Dependencies -> 0..Threshold] /\ todo \in Nat
      BY Facts, Constants DEF MemoryOK
    <2>2. CASE n >= Threshold
      <3>1. failures'[Components[todo]] = n
        BY <1>0, <1>3, <2>1
      <3> QED
        BY <1>0, <2>1, <2>2, <3>1
    <2>3. CASE active' = active /\ ~(n >= Threshold)
      <3>1. PICK k \in 1..(todo - 1) : failures[Components[k]] >= Threshold
        BY <1>0, <2>3, Facts DEF RaisedByCount
      <3>2. k \in 1..Len(Components) /\ k # todo /\ k \in 1..todo
        BY <1>0, <2>1, <3>1, Constants
      <3>3. Components[k] # c /\ Components[k] \in Dependencies
        BY <1>0, <3>2, BreakerAssumption, Constants
      <3>4. failures'[Components[k]] = failures[Components[k]]
        BY <1>3, <2>1, <3>3
      <3> QED
        BY <3>1, <3>2, <3>4
    <2> QED
      BY <1>3, <2>2, <2>3
  <1> QED
    BY <1>0, <1>3, <1>4, <1>5, <1>6, Facts, WorldRests DEF Parts, Raised

-----------------------------------------------------------------------------
(* The instance controller                                                 *)

LEMMA GetInstanceStep ==
    ASSUME Parts, GetInstance
    PROVE  Parts' /\ ~Raised
  <1>1. /\ Ready("instance") /\ Start("instance", "read")
        /\ fresh' = (IF "cache" \in fresh THEN fresh \cup {"instance"} ELSE fresh)
        /\ UNCHANGED <<cr, faults>> /\ UNCHANGED <<memoryVars, workerVars, up, flips>>
    BY DEF GetInstance, Get
  <1>2. StoreOK(Objects, Places)'
    BY <1>1, Facts, NoCopyAssumption, StartStep DEF AtMostOneFault, Places
  <1>3. pc'["breaker"] = pc["breaker"] /\ copy'["breaker"] = copy["breaker"]
    BY <1>1, Facts DEF Start
  <1>4. RaisedByCount'
    BY <1>1, <1>3, Facts, RaisedRests DEF memoryVars
  <1> QED
    BY <1>1, <1>2, <1>4, Facts, MemoryRests, WorkerRests, WorldRests DEF Parts, Raised

LEMMA OwnedIsTyped ==
    ASSUME WorkerOK, NEW i \in Objects, OwnedReplicas(i), workerCache' = workerCache
    PROVE  WorkerOK'
  <1>1. i.spec.replicas \in Counts
    BY Constants DEF Objects
  <1> QED
    BY <1>1, Constants DEF WorkerOK, OwnedReplicas

LEMMA ApplyWorkerStep ==
    ASSUME Parts, ApplyWorker
    PROVE  Parts' /\ ~Raised
  <1>1. /\ pc["instance"] = "read" /\ copy["instance"] \in Objects
        /\ UNCHANGED <<memoryVars, workerCache, up, flips>> /\ cr' = cr
    BY Facts DEF ApplyWorker
  <1>2. WorkerOK'
    <2>1. OwnedReplicas(copy["instance"]) \/ UNCHANGED <<replicas, owners>>
      BY DEF ApplyWorker
    <2> QED
      BY <1>1, <2>1, Facts, OwnedIsTyped DEF WorkerOK
  <1>3. /\ StoreOK(Objects, Places)'
        /\ pc'["breaker"] = pc["breaker"] /\ copy'["breaker"] = copy["breaker"]
    <2>1. CASE /\ pc' = [pc EXCEPT !["instance"] = "status"]
               /\ UNCHANGED <<cr, copy, fresh, queue, faults>>
      <3>1. StoreOK(Objects, Places)'
        BY <1>1, <2>1, Facts, MoveStep DEF AtMostOneFault, Places
      <3> QED
        BY <2>1, <3>1, Facts
    <2>2. CASE Fault /\ Return("instance", TRUE) /\ fresh' = fresh \ {"instance"}
      <3>1. StoreOK(Objects, Places)'
        BY <1>1, <2>2, Facts, ReturnStep DEF AtMostOneFault
      <3> QED
        BY <2>2, <3>1, Facts DEF Return
    <2> QED
      BY <2>1, <2>2 DEF ApplyWorker
  <1>4. RaisedByCount'
    BY <1>1, <1>3, Facts, RaisedRests DEF memoryVars
  <1> QED
    BY <1>1, <1>2, <1>3, <1>4, Facts, MemoryRests, WorldRests DEF Parts, Raised

\* updateStatus sends the whole status, and lands only over the object that it was read
\* from: the flag of that object.
LEMMA UpdateStatusStep ==
    ASSUME Parts, UpdateStatus
    PROVE  Parts' /\ ~Raised
  <1> DEFINE count == IF workerCache = Absent THEN copy["instance"].replicas ELSE workerCache
             new == [copy["instance"] EXCEPT !.replicas = count]
  <1>1. copy["instance"] \in Objects /\ UNCHANGED <<memoryVars, workerVars, up, flips>>
    BY Facts DEF UpdateStatus
  <1>2. count \in Counts
    BY <1>1, Facts DEF Objects, WorkerOK
  <1>3. PICK outcome : /\ UpdateInstanceStatus("instance", new, outcome)
                       /\ Return("instance", outcome # "ok")
    BY DEF UpdateStatus
  <1> HIDE DEF count
  <1>4. new \in Objects /\ new.active = copy["instance"].active
    BY <1>1, <1>2 DEF Objects
  <1> HIDE DEF new
  <1>5. /\ AtMostOneFault /\ fresh' \subseteq fresh /\ "instance" \notin fresh'
        /\ \/ cr' = new /\ copy["instance"] = cr /\ fresh' = {}
           \/ cr' = cr
    BY <1>3, <1>4, Facts, StatusWritten
  <1>6. StoreOK(Objects, Places)'
    <2>1. cr' \in Objects
      BY <1>4, <1>5, Facts
    <2> QED
      BY <1>3, <1>5, <2>1, Facts, ReturnStep
  <1>7. pc'["breaker"] = pc["breaker"] /\ copy'["breaker"] = copy["breaker"]
    BY <1>3, Facts DEF Return
  <1>8. RaisedByCount'
    BY <1>1, <1>7, Facts, RaisedRests DEF memoryVars
  <1> QED
    BY <1>1, <1>4, <1>5, <1>6, <1>8, Facts, MemoryRests, WorkerRests, WorldRests
       DEF Parts, Raised

-----------------------------------------------------------------------------
(* Everybody else                                                          *)

LEMMA WatchInstanceStep ==
    ASSUME Parts, WatchInstance
    PROVE  Parts' /\ ~Raised
  <1>1. PICK woken : woken \subseteq Controllers /\ SyncCache(woken)
    BY Facts DEF WatchInstance
  <1>2. UNCHANGED <<memoryVars, workerVars, up, flips>> /\ cr' = cr
    BY DEF WatchInstance, SyncCache
  <1>3. StoreOK(Objects, Places)'
    BY <1>1, Facts, NoCopyAssumption, SyncCacheStep
  <1>4. pc'["breaker"] = pc["breaker"] /\ copy'["breaker"] = copy["breaker"]
    BY <1>1, Facts DEF SyncCache
  <1>5. RaisedByCount'
    BY <1>2, <1>4, Facts, RaisedRests DEF memoryVars
  <1> QED
    BY <1>2, <1>3, <1>5, Facts, MemoryRests, WorkerRests, WorldRests DEF Parts, Raised

\* The user's edit and whatever leaves the object alone.
LEMMA OtherSteps ==
    ASSUME Parts, WatchWorker \/ Edit \/ Flip \/ UNCHANGED vars
    PROVE  Parts' /\ ~Raised
  <1>1. UNCHANGED <<copy, pc, memoryVars>>
    BY DEF WatchWorker, Edit, Flip, ExternalWrite, storeVars, vars
  <1>2. MemoryOK' /\ RaisedByCount'
    BY <1>1, Facts, RaisedRests, MemoryRests DEF memoryVars
  <1>3. StoreOK(Objects, Places)' /\ cr'.active = cr.active
    <2>1. CASE Edit
      <3>1. PICK spec \in Specs : ExternalWrite([cr EXCEPT !.spec = spec, !.gen = @ + 1])
        BY <2>1 DEF Edit
      <3> DEFINE new == [cr EXCEPT !.spec = spec, !.gen = cr.gen + 1]
      <3>2. cr.gen + 1 \in 0..MaxEdits
        <4>1. cr.gen \in 0..MaxEdits
          BY Facts DEF Objects
        <4>2. cr.gen < MaxEdits /\ MaxEdits \in Nat
          BY <2>1, BreakerAssumption DEF Edit
        <4> QED
          BY <4>1, <4>2
      <3>3. new \in Objects /\ new.active = cr.active
        BY <3>2, Facts DEF Objects
      <3>4. ExternalWrite(new)
        BY <3>1, Facts DEF Objects
      <3> HIDE DEF new
      <3>5. AtMostOneFault
        BY <2>1 DEF Edit, AtMostOneFault
      <3>6. StoreOK(Objects, Places)'
        BY <3>3, <3>4, <3>5, Facts, ExternalWriteStep
      <3> QED
        BY <3>3, <3>4, <3>6 DEF ExternalWrite
    <2>2. CASE WatchWorker \/ Flip \/ UNCHANGED vars
      <3>1. UNCHANGED <<cr, copy, fresh, pc, faults>> /\ queue' \subseteq Controllers
        BY <2>2, Facts DEF WatchWorker, Flip, storeVars, vars
      <3>2. StoreOK(Objects, Places)'
        BY <3>1, Facts, QuietStep DEF AtMostOneFault
      <3> QED
        BY <3>1, <3>2
    <2> QED
      BY <2>1, <2>2
  <1>4. WorkerOK'
    BY Facts DEF WatchWorker, Edit, Flip, vars, workerVars, WorkerOK
  <1>5. WorldOK'
    <2>1. CASE Flip
      BY <2>1, Facts, BreakerAssumption DEF Flip, WorldOK
    <2>2. CASE UNCHANGED <<up, flips>>
      BY <2>2, Facts, WorldRests
    <2> QED
      BY <2>1, <2>2 DEF WatchWorker, Edit, vars
  <1> QED
    BY <1>2, <1>3, <1>4, <1>5 DEF Parts, Raised

LEMMA RestartStepHere ==
    ASSUME Parts, RestartOperator
    PROVE  Parts' /\ ~Raised
  <1>1. /\ Restart /\ active' = FALSE /\ todo' = 1 /\ failures' = NoCounts /\ saved' = NoneSaved
        /\ workerCache' = replicas /\ UNCHANGED <<replicas, owners, up, flips>>
    BY DEF RestartOperator
  <1>2. StoreOK(Objects, Places)'
    BY <1>1, Facts, NoCopyAssumption, RestartStep
  <1>3. MemoryOK' /\ WorkerOK'
    BY <1>1, Facts, NothingCounted DEF MemoryOK, WorkerOK
  <1>4. RaisedByCount' /\ cr' = cr
    BY <1>1 DEF RaisedByCount, Restart
  <1> QED
    BY <1>1, <1>2, <1>3, <1>4, Facts, WorldRests DEF Parts, Raised

LEMMA NextStep ==
    ASSUME IInv, [Next]_vars
    PROVE  IInv' /\ (Raised => \E c \in Dependencies : failures[c] >= Threshold)
  <1>1. Parts
    BY PartsOfIInv
  <1>2. Parts' /\ (Raised => \E c \in Dependencies : failures[c] >= Threshold)
    <2>1. CASE Breaker
      BY <1>1, <2>1, GetBreakerStep, SkipBreakerStep, ProbeStep, WriteBreakerStep DEF Breaker
    <2>2. CASE InstanceController
      BY <1>1, <2>2, GetInstanceStep, ApplyWorkerStep, UpdateStatusStep DEF InstanceController
    <2>3. CASE WatchInstance \/ RestartOperator
      BY <1>1, <2>3, WatchInstanceStep, RestartStepHere
    <2>4. CASE WatchWorker \/ Edit \/ Flip \/ UNCHANGED vars
      BY <1>1, <2>4, OtherSteps
    <2> QED
      BY <2>1, <2>2, <2>3, <2>4 DEF Next
  <1> QED
    BY <1>2, PartsMakeIInv

\* The invariant that the breaker's passes rest on, from the first list of the caches on:
\* nobody takes an old copy for the object, and a pass that is about to raise the flag has
\* counted failureThreshold failures of a dependency that it has probed.
THEOREM InvariantHolds == Spec => []IInv
  <1>1. Init => IInv
    <2> SUFFICES ASSUME Init PROVE Parts
      BY PartsOfIInv
    <2> DEFINE objects == {[gen |-> 0, spec |-> spec, active |-> FALSE, replicas |-> 0] :
                              spec \in Specs}
    <2>1. objects \subseteq Objects
      <3>1. 0 \in 0..MaxEdits /\ 0 \in Counts
        BY Constants, BreakerAssumption
      <3>2. \A spec \in Specs :
               [gen |-> 0, spec |-> spec, active |-> FALSE, replicas |-> 0] \in Objects
        BY <3>1 DEF Objects
      <3> QED
        BY <3>2
    <2>2. StoreStarts(objects, 0)
      BY DEF Init, StoreInit
    <2> HIDE DEF objects
    <2>3. StoreOK(Objects, Places)
      BY <2>1, <2>2, NoCopyAssumption, MaxFaultsAssumption, StoreBegins DEF Places
    <2>4. MemoryOK /\ WorkerOK /\ WorldOK
      <3>1. 0 \in 0..MaxFlips
        BY BreakerAssumption
      <3> QED
        BY <3>1, NothingCounted DEF Init, MemoryOK, WorkerOK, WorldOK
    <2>5. RaisedByCount
      BY DEF Init, RaisedByCount
    <2> QED
      BY <2>3, <2>4, <2>5 DEF Parts
  <1>2. IInv /\ [Next]_vars => IInv'
    BY NextStep
  <1> QED
    BY <1>1, <1>2, PTL DEF Spec

\* Counters never pass the threshold, restore points and replica counts stay within what
\* the specs name, and no dependency is probed twice in a pass.
THEOREM TypesHold == Spec => []TypeOK
  <1>1. IInv => TypeOK
    BY DEF IInv
  <1> QED
    BY <1>1, InvariantHolds, PTL

\* openCircuitBreaker and the status write at the end of the pass: circuitBreakerActive is
\* raised only while a dependency has failed its last failureThreshold probes, for any
\* threshold, any restarts, and whatever else is written to the status in between.
THEOREM FlagIsEarned == Spec => FlagNeedsOutage
  <1>1. IInv /\ [Next]_vars =>
          [cr'.active /\ ~cr.active => \E c \in Dependencies : failures[c] >= Threshold]_vars
    BY NextStep DEF Raised
  <1> QED
    BY <1>1, InvariantHolds, PTL DEF Spec, FlagNeedsOutage
=============================================================================
