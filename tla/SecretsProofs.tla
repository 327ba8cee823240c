--------------------------- MODULE SecretsProofs ---------------------------
(***************************************************************************)
(* What the secret controller keeps true of the Secret that it generates,  *)
(* proved for every set of keys and Deployments and every number of        *)
(* disturbances.                                                           *)
(***************************************************************************)
EXTENDS Secrets, StoreProofs

Places == {"idle", "hash", "patch"}

SecretDataOK ==
    /\ IsContents(data, Referenced) /\ IsContents(dataSeen, Referenced)
    /\ made \in 0..(MaxFaults + 2)

PassOK ==
    /\ todo \subseteq Deployments
    /\ rotated \in BOOLEAN
    /\ IsHash(hash)
    /\ todo # {} => hash # NoHash

WorkloadOK ==
    /\ stamp = [d \in Deployments |-> stamp[d]] /\ pods = [d \in Deployments |-> pods[d]]
    /\ \A d \in Deployments :
          /\ stamp[d] = Absent \/ IsHash(stamp[d])
          /\ stampSeen[d] = Absent \/ IsHash(stampSeen[d])
          /\ pods[d] = Absent \/ IsContents(pods[d], Referenced)

Parts ==
    StoreOK(Instances, Places) /\ SecretDataOK /\ PassOK /\ WorkloadOK /\ ChangesAreCounted

LEMMA PartsOfIInv == IInv <=> Parts
  BY DEF IInv, TypeOK, Parts, Places, StoreOK, SecretDataOK, PassOK, WorkloadOK

LEMMA PartsMakeIInv == Parts' => IInv'
  BY PartsOfIInv, PTL

LEMMA FaultsCount ==
    ASSUME StoreOK(Instances, Places), AtMostOneFault
    PROVE  /\ faults \in 0..MaxFaults /\ faults' \in 0..MaxFaults /\ faults <= faults'
           /\ Fault => faults' = faults + 1
           /\ MaxFaults \in Nat
  BY FaultsAreBounded, MaxFaultsAssumption
     DEF StoreOK, StoreTypeOK, AtMostOneFault, Fault

\* What the controllers and everybody else rely on.
LEMMA Facts ==
    ASSUME IInv
    PROVE  /\ "secret" \in Controllers /\ "secret" \in Holders /\ "cache" \in Holders
           /\ "secret" # "cache" /\ NoCopy \notin Instances
           /\ StoreOK(Instances, Places) /\ SecretDataOK /\ PassOK /\ WorkloadOK
           /\ ChangesAreCounted
           /\ cr \in Instances /\ copy["cache"] \in Instances
           /\ pc["secret"] # "idle" => copy["secret"] \in Instances
  <1>1. Parts
    BY PartsOfIInv
  <1>2. "secret" \in Controllers /\ "secret" \in Holders /\ "cache" \in Holders
    BY SecretsAssumption DEF Holders
  <1> QED
    BY <1>1, <1>2, SecretsAssumption DEF Parts, StoreOK, StoreTypeOK, FreshMeansEqual

-----------------------------------------------------------------------------
(* The Secrets                                                             *)

\* The counts of a step that generates nothing and edits nothing.
LEMMA CountsRest ==
    ASSUME IInv, UNCHANGED <<data, made>>, AtMostOneFault, cr'.gen = cr.gen
    PROVE  ChangesAreCounted'
  <1>1. /\ faults \in Nat /\ faults' \in Nat /\ faults <= faults'
        /\ made \in Nat /\ (\A n \in Referenced \ {"generated"} : data[n] \in Nat)
        /\ cr.gen \in Nat
    BY Facts, FaultsCount, MaxFaultsAssumption DEF SecretDataOK, IsContents, Instances
  <1>2. ChangesAreCounted
    BY Facts
  <1>3. Incomplete(data["generated"]) \in {0, 1}
    BY DEF Incomplete
  <1> QED
    BY <1>1, <1>2, <1>3 DEF ChangesAreCounted

\* ensureGeneratedSecret: what it writes is complete, and a write that is accepted
\* completes a Secret that was not.
LEMMA GeneratedStep ==
    ASSUME IInv, Lacking(dataSeen["generated"]), Accepted, WriteGenerated(Wanted)
    PROVE  /\ SecretDataOK'
           /\ made' + Incomplete(data'["generated"]) <= faults + 2
           /\ (\A n \in Referenced \ {"generated"} : data'[n] = data[n])
           /\ made' = made + 1
           /\ \A k \in Keys : data["generated"] # Absent /\ data["generated"][k] # Absent
                                 => data'["generated"][k] = data["generated"][k]
  <1> DEFINE old == dataSeen["generated"]
             new == Wanted
  <1>0. /\ SecretDataOK /\ ChangesAreCounted
        /\ faults \in 0..MaxFaults /\ MaxFaults \in Nat /\ made \in Nat
    BY Facts, MaxFaultsAssumption DEF StoreOK, StoreTypeOK, SecretDataOK
  <1>1. data["generated"] = old /\ ~Complete(data["generated"])
    BY DEF Accepted, CanCreate, Lacking
  <1>2. made + 1 <= faults + 2
    BY <1>0, <1>1 DEF ChangesAreCounted, Incomplete
  <1>3. made + 1 \in 1..(MaxFaults + 2)
    BY <1>0, <1>2
  <1>4. old = Absent \/ old \in Generated
    BY <1>0 DEF SecretDataOK, IsContents
  <1>5. new \in Generated /\ \A k \in Keys : new[k] # Absent
    <2>1. CASE old = Absent
      BY <1>3, <2>1, SecretsAssumption DEF Wanted, NewValues, Generated
    <2>2. CASE old # Absent
      <3>1. old \in Generated
        BY <1>4, <2>2
      <3> QED
        BY <1>3, <2>2, <3>1, SecretsAssumption DEF Wanted, Backfilled, Generated
    <2> QED
      BY <2>1, <2>2
  <1>6. Incomplete(new) = 0
    BY <1>5, SecretsAssumption DEF Complete, Incomplete
  <1>7. old # Absent => \A k \in Keys : old[k] # Absent => new[k] = old[k]
    BY DEF Wanted, Backfilled
  <1> HIDE DEF new
  <1>8. data' = [data EXCEPT !["generated"] = new] /\ made' = made + 1 /\ dataSeen' = dataSeen
    BY DEF WriteGenerated, new
  <1>9. /\ data = [n \in Referenced |-> data[n]] /\ "generated" \in Referenced
        /\ \A n \in Referenced \ {"generated"} : data[n] \in 0..MaxFaults
    BY <1>0 DEF SecretDataOK, IsContents, Referenced
  <1>10. data'["generated"] = new /\ (\A n \in Referenced \ {"generated"} : data'[n] = data[n]) /\ IsContents(data', Referenced)
    BY <1>5, <1>8, <1>9 DEF IsContents
  <1>11. SecretDataOK'
    BY <1>0, <1>3, <1>8, <1>10 DEF SecretDataOK, IsContents
  <1> QED
    BY <1>0, <1>1, <1>2, <1>6, <1>7, <1>8, <1>10, <1>11

-----------------------------------------------------------------------------
(* The secret controller                                                   *)

LEMMA PassRests ==
    ASSUME PassOK, UNCHANGED passVars
    PROVE  PassOK'
  BY DEF PassOK, passVars

LEMMA WorkloadRests ==
    ASSUME WorkloadOK, UNCHANGED workloadVars
    PROVE  WorkloadOK'
  BY DEF WorkloadOK, workloadVars

LEMMA DataRests ==
    ASSUME SecretDataOK, UNCHANGED <<data, made>>, dataSeen' \in {dataSeen, data}
    PROVE  SecretDataOK'
  BY DEF SecretDataOK, IsContents

LEMMA PassLeft ==
    ASSUME hash' = NoHash, todo' = {}, rotated' = FALSE
    PROVE  PassOK'
  BY DEF PassOK, IsHash

LEMMA BeginStep ==
    ASSUME IInv, Begin("hash"), UNCHANGED faults
    PROVE  StoreOK(Instances, Places)' /\ PassOK' /\ cr' = cr
  <1>1. "hash" \in Places \ {"idle"} /\ AtMostOneFault
    BY DEF Places, AtMostOneFault
  <1> QED
    BY <1>1, Facts, StartStep, PassRests DEF Begin

LEMMA EnsureGeneratedSecretKeepsIInv == IInv /\ EnsureGeneratedSecret => IInv'
  <1> SUFFICES ASSUME IInv, EnsureGeneratedSecret PROVE IInv'
    OBVIOUS
  <1>a. WorkloadOK'
    BY Facts, WorkloadRests DEF EnsureGeneratedSecret
  <1>1. CASE Begin("hash") /\ UNCHANGED <<faults, secretVars>>
    <2>1. SecretDataOK' /\ ChangesAreCounted'
      BY <1>1, Facts, BeginStep, DataRests, CountsRest DEF secretVars, AtMostOneFault
    <2> QED
      BY <1>a, <1>1, <2>1, BeginStep, PartsMakeIInv DEF Parts
  <1>2. CASE /\ Lacking(dataSeen["generated"]) /\ Accepted
             /\ Begin("hash") /\ WriteGenerated(Wanted) /\ UNCHANGED faults
    <2>1. SecretDataOK' /\ ChangesAreCounted'
      BY <1>2, Facts, BeginStep, GeneratedStep DEF ChangesAreCounted
    <2> QED
      BY <1>a, <1>2, <2>1, BeginStep, PartsMakeIInv DEF Parts
  <1>3. CASE /\ Lacking(dataSeen["generated"])
             /\ Finish("secret", TRUE)
             /\ \/ ~Accepted /\ UNCHANGED <<faults, secretVars>>
                \/ Fault /\ UNCHANGED secretVars
                \/ Accepted /\ Fault /\ WriteGenerated(Wanted)
             /\ UNCHANGED <<cr, fresh, passVars>>
    <2>1. AtMostOneFault
      BY <1>3 DEF AtMostOneFault
    <2>2. StoreOK(Instances, Places)'
      BY <1>3, <2>1, Facts, FinishStep
    <2>3. PassOK'
      BY <1>3, Facts, PassRests
    <2>4. CASE UNCHANGED secretVars
      BY <1>a, <1>3, <2>1, <2>2, <2>3, <2>4, Facts, DataRests, CountsRest, PartsMakeIInv
         DEF Parts, secretVars
    <2>5. CASE Accepted /\ Fault /\ WriteGenerated(Wanted)
      <3>1. /\ SecretDataOK' /\ made' = made + 1
            /\ made' + Incomplete(data'["generated"]) <= faults + 2
            /\ (\A n \in Referenced \ {"generated"} : data'[n] = data[n])
        BY <1>3, <2>5, GeneratedStep
      <3>2. /\ Incomplete(data'["generated"]) \in {0, 1} /\ faults' = faults + 1
            /\ faults \in Nat /\ made \in Nat /\ cr.gen \in Nat
            /\ (\A n \in Referenced \ {"generated"} : data[n] \in Nat)
            /\ ChangesAreCounted /\ cr' = cr
        BY <1>3, <2>1, <2>5, Facts, FaultsCount, MaxFaultsAssumption
           DEF Incomplete, SecretDataOK, IsContents, Instances
      <3>3. ChangesAreCounted'
        BY <3>1, <3>2 DEF ChangesAreCounted
      <3> QED
        BY <1>a, <2>2, <2>3, <3>1, <3>3, PartsMakeIInv DEF Parts
    <2> QED
      BY <1>3, <2>4, <2>5
  <1> QED
    BY <1>1, <1>2, <1>3 DEF EnsureGeneratedSecret

LEMMA HashStep == IInv /\ ComputeSecretHashes => IInv'
  <1> SUFFICES ASSUME IInv, ComputeSecretHashes PROVE IInv'
    OBVIOUS
  <1>1. AtMostOneFault
    BY DEF ComputeSecretHashes, AtMostOneFault
  <1>2. StoreOK(Instances, Places)'
    <2>1. /\ pc["secret"] # "idle" /\ "patch" \in Places \ {"idle"}
          /\ pc' = [pc EXCEPT !["secret"] = "patch"] /\ UNCHANGED <<cr, copy, fresh>>
      BY DEF ComputeSecretHashes, Places
    <2>2. queue' \subseteq Controllers
      BY Facts DEF ComputeSecretHashes, StoreOK, StoreTypeOK
    <2> QED
      BY <1>1, <2>1, <2>2, Facts, MoveStep
  <1>3. SecretDataOK' /\ ChangesAreCounted' /\ WorkloadOK'
    BY <1>1, Facts, DataRests, CountsRest, WorkloadRests DEF ComputeSecretHashes, secretVars
  <1>4. PassOK'
    <2>1. PassOK /\ IsContents(dataSeen, Referenced)
      BY Facts DEF SecretDataOK
    <2>2. CASE /\ hash' \in SecretHashes([n \in Collected |-> dataSeen[n]])
               /\ todo' = ToPatch(TRUE) /\ rotated' = rotated
      <3> DEFINE contents == [n \in Collected |-> dataSeen[n]]
      <3>1. hash' = <<contents>>
        BY <2>2 DEF SecretHashes
      <3>2. IsContents(contents, Collected)
        BY <2>1 DEF IsContents, Collected, Referenced
      <3> HIDE DEF contents
      <3>3. hash' # NoHash /\ IsContents(hash'[1], Collected)
        BY <3>1, <3>2 DEF NoHash
      <3> QED
        BY <2>1, <2>2, <3>3 DEF PassOK, IsHash, ToPatch, IsContents
    <2>3. CASE todo' = ToPatch(FALSE) /\ hash' = hash /\ rotated' = rotated
      BY <2>1, <2>3 DEF PassOK, ToPatch
    <2> QED
      BY <2>2, <2>3 DEF ComputeSecretHashes
  <1> QED
    BY <1>2, <1>3, <1>4, PartsMakeIInv DEF Parts

LEMMA PatchKeepsIInv ==
    ASSUME IInv, NEW d \in Deployments, PatchDeploymentSecretHash(d)
    PROVE  IInv'
  <1>1. AtMostOneFault
    BY DEF PatchDeploymentSecretHash, AtMostOneFault
  <1>2. StoreOK(Instances, Places)'
    <2>1. queue' \subseteq Controllers /\ UNCHANGED <<cr, copy, fresh, pc>>
      BY Facts DEF PatchDeploymentSecretHash, StoreOK, StoreTypeOK
    <2> QED
      BY <1>1, <2>1, Facts, QuietStep
  <1>3. SecretDataOK' /\ ChangesAreCounted'
    BY <1>1, Facts, DataRests, CountsRest DEF PatchDeploymentSecretHash, secretVars
  <1>4. PassOK /\ WorkloadOK
    BY Facts
  <1>5. PassOK'
    BY <1>4 DEF PatchDeploymentSecretHash, PassOK, IsHash
  <1>6. WorkloadOK'
    <2>1. CASE UNCHANGED <<stamp, pods, stampSeen>>
      BY <1>4, <2>1, WorkloadRests DEF workloadVars
    <2>2. CASE Stamp(d) /\ stampSeen' = stampSeen
      <3>1. /\ stamp' = [stamp EXCEPT ![d] = hash] /\ IsHash(hash)
            /\ pods' = [pods EXCEPT ![d] = Absent] \/ pods' = pods
            /\ stamp = [e \in Deployments |-> stamp[e]] /\ pods = [e \in Deployments |-> pods[e]]
        BY <1>4, <2>2 DEF Stamp, Template, PassOK, WorkloadOK
      <3>2. /\ stamp' = [e \in Deployments |-> stamp'[e]]
            /\ pods' = [e \in Deployments |-> pods'[e]]
        BY <3>1
      <3>3. ASSUME NEW e \in Deployments
            PROVE  /\ stamp'[e] = Absent \/ IsHash(stamp'[e])
                   /\ stampSeen'[e] = Absent \/ IsHash(stampSeen'[e])
                   /\ pods'[e] = Absent \/ IsContents(pods'[e], Referenced)
        BY <1>4, <2>2, <3>1 DEF WorkloadOK
      <3> QED
        BY <3>2, <3>3 DEF WorkloadOK, IsHash, IsContents
    <2> QED
      BY <2>1, <2>2 DEF PatchDeploymentSecretHash
  <1> QED
    BY <1>2, <1>3, <1>5, <1>6, PartsMakeIInv DEF Parts

LEMMA WriteStatusKeepsIInv == IInv /\ WriteStatus => IInv'
  <1> SUFFICES ASSUME IInv, WriteStatus PROVE IInv'
    OBVIOUS
  <1> DEFINE new == [Instance EXCEPT !.managed = @ \/ Instance.auto,
                                     !.checked = IF rotated THEN ~@ ELSE @]
  <1>1. PICK outcome : UpdateInstanceStatus("secret", new, outcome) /\ Leave(outcome # "ok")
    BY DEF WriteStatus
  <1>2. Instance \in Instances
    BY Facts DEF WriteStatus, Instance
  <1>3. new \in Instances /\ new.gen = Instance.gen
    BY <1>2 DEF Instances
  <1> HIDE DEF new
  <1>4. /\ AtMostOneFault /\ fresh' \subseteq fresh /\ "secret" \notin fresh'
        /\ \/ cr' = new /\ copy["secret"] = cr /\ fresh' = {}
           \/ cr' = cr
    BY <1>1, <1>3, Facts, StatusWritten
  <1>5. cr' \in Instances /\ cr'.gen = cr.gen
    BY <1>3, <1>4, Facts DEF Instance
  <1>6. StoreOK(Instances, Places)'
    BY <1>1, <1>4, <1>5, Facts, ReturnStep DEF Leave, Places
  <1>7. SecretDataOK' /\ ChangesAreCounted' /\ WorkloadOK'
    BY <1>4, <1>5, Facts, DataRests, CountsRest, WorkloadRests DEF WriteStatus, secretVars
  <1>8. PassOK'
    BY <1>1, PassLeft DEF Leave
  <1> QED
    BY <1>6, <1>7, <1>8, PartsMakeIInv DEF Parts

LEMMA SkipKeepsIInv == IInv /\ SkipDeleted => IInv'
  <1> SUFFICES ASSUME IInv, SkipDeleted PROVE IInv'
    OBVIOUS
  <1>1. AtMostOneFault /\ fresh' \subseteq fresh /\ cr' = cr
    BY NothingWritten DEF SkipDeleted
  <1>2. StoreOK(Instances, Places)'
    BY <1>1, Facts, FinishStep DEF SkipDeleted
  <1>3. SecretDataOK' /\ ChangesAreCounted' /\ WorkloadOK' /\ PassOK'
    BY <1>1, Facts, DataRests, CountsRest, WorkloadRests, PassRests DEF SkipDeleted, secretVars
  <1> QED
    BY <1>2, <1>3, PartsMakeIInv DEF Parts

LEMMA ControllerKeepsIInv == IInv /\ SecretController => IInv'
  BY SkipKeepsIInv, EnsureGeneratedSecretKeepsIInv, HashStep, PatchKeepsIInv,
     WriteStatusKeepsIInv DEF SecretController

-----------------------------------------------------------------------------
(* Watches, the instance controller, kubelets, the user and the process    *)

LEMMA WatchesKeepIInv ==
    IInv /\ (WatchInstance \/ WatchSecrets \/ Resync \/ WatchDeployments \/ UNCHANGED vars) => IInv'
  <1> SUFFICES ASSUME IInv, WatchInstance \/ WatchSecrets \/ Resync \/ WatchDeployments
                               \/ UNCHANGED vars
               PROVE  IInv'
    OBVIOUS
  <1>1. CASE WatchInstance
    <2>1. PICK woken : woken \subseteq Controllers /\ SyncCache(woken)
      BY <1>1, Facts DEF WatchInstance
    <2>2. StoreOK(Instances, Places)'
      BY <2>1, Facts, SyncCacheStep
    <2>3. cr' = cr /\ AtMostOneFault
      BY <2>1 DEF SyncCache, AtMostOneFault
    <2>4. SecretDataOK' /\ ChangesAreCounted' /\ WorkloadOK' /\ PassOK'
      BY <1>1, <2>3, Facts, DataRests, CountsRest, WorkloadRests, PassRests
         DEF WatchInstance, secretVars
    <2> QED
      BY <2>2, <2>4, PartsMakeIInv DEF Parts
  <1>2. CASE WatchSecrets \/ Resync \/ WatchDeployments \/ UNCHANGED vars
    <2>1. /\ queue' \in {queue, queue \cup {"secret"}} /\ UNCHANGED <<cr, copy, fresh, pc>>
          /\ AtMostOneFault /\ UNCHANGED <<data, made>> /\ dataSeen' \in {dataSeen, data}
          /\ UNCHANGED passVars /\ UNCHANGED <<stamp, pods>> /\ stampSeen' \in {stampSeen, stamp}
      BY <1>2 DEF WatchSecrets, Resync, WatchDeployments, vars, storeVars, secretVars,
                  workloadVars, AtMostOneFault
    <2>2. StoreOK(Instances, Places)'
      <3>1. queue' \subseteq Controllers
        BY <2>1, Facts DEF StoreOK, StoreTypeOK
      <3> QED
        BY <2>1, <3>1, Facts, QuietStep
    <2>3. SecretDataOK' /\ ChangesAreCounted' /\ PassOK'
      BY <2>1, Facts, DataRests, CountsRest, PassRests
    <2>4. WorkloadOK'
      BY <2>1, Facts DEF WorkloadOK
    <2> QED
      BY <2>2, <2>3, <2>4, PartsMakeIInv DEF Parts
  <1> QED
    BY <1>1, <1>2

\* One Deployment or its pods change.
LEMMA WorkloadStep ==
    ASSUME WorkloadOK, NEW d \in Deployments, NEW s, s \in {Absent, NoHash, stamp[d]},
           NEW c, c = Absent \/ c = pods[d] \/ IsContents(c, Referenced),
           stamp' = [stamp EXCEPT ![d] = s] \/ stamp' = stamp,
           pods' = [pods EXCEPT ![d] = c] \/ pods' = pods, stampSeen' = stampSeen
    PROVE  WorkloadOK'
  <1>0. stamp = [e \in Deployments |-> stamp[e]] /\ pods = [e \in Deployments |-> pods[e]]
    BY DEF WorkloadOK
  <1>1. /\ stamp' = [e \in Deployments |-> stamp'[e]]
        /\ pods' = [e \in Deployments |-> pods'[e]]
    BY <1>0
  <1>2. s = Absent \/ IsHash(s)
    BY DEF WorkloadOK, IsHash
  <1>3. c = Absent \/ IsContents(c, Referenced)
    BY DEF WorkloadOK
  <1>4. ASSUME NEW e \in Deployments
        PROVE  /\ stamp'[e] = Absent \/ IsHash(stamp'[e])
               /\ stampSeen'[e] = Absent \/ IsHash(stampSeen'[e])
               /\ pods'[e] = Absent \/ IsContents(pods'[e], Referenced)
    BY <1>0, <1>2, <1>3 DEF WorkloadOK
  <1> QED
    BY <1>1, <1>4 DEF WorkloadOK, IsHash, IsContents

LEMMA WorkloadsKeepIInv == IInv /\ (ApplyDeployment \/ StartPods) => IInv'
  <1> SUFFICES ASSUME IInv, ApplyDeployment \/ StartPods PROVE IInv'
    OBVIOUS
  <1>1. /\ queue' = queue /\ UNCHANGED <<cr, copy, fresh, pc>> /\ AtMostOneFault
        /\ UNCHANGED secretVars /\ UNCHANGED passVars
    BY DEF ApplyDeployment, StartPods, storeVars, AtMostOneFault
  <1>2. StoreOK(Instances, Places)'
    <2>1. queue' \subseteq Controllers
      BY <1>1, Facts DEF StoreOK, StoreTypeOK
    <2> QED
      BY <1>1, <2>1, Facts, QuietStep
  <1>3. SecretDataOK' /\ ChangesAreCounted' /\ PassOK'
    BY <1>1, Facts, DataRests, CountsRest, PassRests DEF secretVars
  <1>4. WorkloadOK'
    <2>1. WorkloadOK /\ IsContents(data, Referenced)
      BY Facts DEF SecretDataOK
    <2> QED
      BY <2>1, WorkloadStep DEF ApplyDeployment, Template, Reapplied, StartPods
  <1> QED
    BY <1>2, <1>3, <1>4, PartsMakeIInv DEF Parts

LEMMA EditKeepsIInv == IInv /\ (Edit \/ SiblingWrite) => IInv'
  <1> SUFFICES ASSUME IInv, Edit \/ SiblingWrite PROVE IInv'
    OBVIOUS
  <1>1. Fault /\ AtMostOneFault /\ UNCHANGED passVars
    BY DEF Edit, SiblingWrite, AtMostOneFault
  <1>2. PassOK'
    BY <1>1, Facts, PassRests
  <1>3. /\ faults \in Nat /\ faults' = faults + 1 /\ faults' <= MaxFaults /\ MaxFaults \in Nat
        /\ made \in Nat /\ cr.gen \in Nat
        /\ (\A n \in Referenced \ {"generated"} : data[n] \in Nat)
        /\ Incomplete(data["generated"]) \in {0, 1} /\ Incomplete(data'["generated"]) \in {0, 1}
        /\ ChangesAreCounted /\ cr \in Instances
    BY <1>1, Facts, FaultsCount DEF SecretDataOK, IsContents, Instances, Incomplete
  <1>4. CASE SiblingWrite
    <2>1. StoreOK(Instances, Places)' /\ cr' = cr
      BY <1>1, <1>3, <1>4, Facts, ExternalWriteStep DEF SiblingWrite, ExternalWrite
    <2>2. SecretDataOK' /\ ChangesAreCounted' /\ WorkloadOK'
      BY <1>1, <1>4, <2>1, Facts, DataRests, CountsRest, WorkloadRests
         DEF SiblingWrite, secretVars
    <2> QED
      BY <1>2, <2>1, <2>2, PartsMakeIInv DEF Parts
  <1>5. CASE /\ \E i \in {[cr EXCEPT !.auto = ~@], [cr EXCEPT !.held = ~@],
                           [cr EXCEPT !.deleting = TRUE]} :
                   ExternalWrite([i EXCEPT !.gen = @ + 1])
             /\ UNCHANGED <<secretVars, workloadVars>>
    <2>1. PICK i \in {[cr EXCEPT !.auto = ~@], [cr EXCEPT !.held = ~@],
                     [cr EXCEPT !.deleting = TRUE]} :
                   ExternalWrite([i EXCEPT !.gen = @ + 1])
      BY <1>5
    <2>2. i \in Instances /\ i.gen = cr.gen
      BY <1>3 DEF Instances
    <2> DEFINE new == [i EXCEPT !.gen = @ + 1]
    <2>3. cr.gen + 1 \in 0..MaxFaults /\ cr.gen + 1 <= faults'
      BY <1>3 DEF ChangesAreCounted
    <2>4. new \in Instances /\ new.gen = cr.gen + 1
      BY <2>2, <2>3 DEF Instances
    <2>5. ExternalWrite(new)
      BY <2>1
    <2> HIDE DEF new
    <2>6. StoreOK(Instances, Places)' /\ cr' = new
      BY <1>1, <2>4, <2>5, Facts, ExternalWriteStep DEF ExternalWrite
    <2>7. SecretDataOK' /\ WorkloadOK'
      BY <1>5, Facts, DataRests, WorkloadRests DEF secretVars
    <2>8. ChangesAreCounted'
      BY <1>3, <1>5, <2>3, <2>4, <2>6 DEF ChangesAreCounted, secretVars
    <2> QED
      BY <1>2, <2>6, <2>7, <2>8, PartsMakeIInv DEF Parts
  <1>6. CASE /\ \/ \E n \in Referenced \ {"generated"} : data' = [data EXCEPT ![n] = @ + 1]
                \/ \E k \in Keys : /\ Complete(data["generated"])
                                   /\ data' = [data EXCEPT !["generated"][k] = Absent]
                \/ data' = [data EXCEPT !["generated"] = Absent]
             /\ UNCHANGED <<cr, copy, fresh, queue, pc, dataSeen, made, workloadVars>>
    <2>1. StoreOK(Instances, Places)'
      <3>1. queue' \subseteq Controllers
        BY <1>6, Facts DEF StoreOK, StoreTypeOK
      <3> QED
        BY <1>1, <1>6, <3>1, Facts, QuietStep
    <2>2. WorkloadOK'
      BY <1>6, Facts, WorkloadRests
    <2>3. /\ data = [n \in Referenced |-> data[n]]
          /\ \A n \in Referenced \ {"generated"} : data[n] \in 0..MaxFaults
          /\ data["generated"] \in Generated \cup {Absent}
          /\ "generated" \in Referenced
      BY Facts DEF SecretDataOK, IsContents, Referenced
    <2>4. \A n \in Referenced \ {"generated"} :
             data[n] + 1 \in 0..MaxFaults /\ data[n] + 1 <= faults' /\ data[n] <= faults'
      BY <1>3 DEF ChangesAreCounted
    <2>5. \A k \in Keys : Complete(data["generated"]) =>
             [data["generated"] EXCEPT ![k] = Absent] \in Generated
      BY <2>3 DEF Complete, Generated
    <2>6. IsContents(data', Referenced) /\ \A n \in Referenced \ {"generated"} : data'[n] <= faults'
      BY <1>6, <2>3, <2>4, <2>5 DEF IsContents
    <2>7. SecretDataOK'
      BY <1>6, <2>6, Facts DEF SecretDataOK, IsContents
    <2>8. ChangesAreCounted'
      BY <1>3, <1>6, <2>6 DEF ChangesAreCounted
    <2> QED
      BY <1>2, <2>1, <2>2, <2>7, <2>8, PartsMakeIInv DEF Parts
  <1>7. CASE /\ \E d \in Deployments : /\ stamp' = [stamp EXCEPT ![d] = Absent]
                                       /\ pods' = [pods EXCEPT ![d] = Absent]
             /\ UNCHANGED <<cr, copy, fresh, queue, pc, secretVars, stampSeen>>
    <2>1. StoreOK(Instances, Places)'
      <3>1. queue' \subseteq Controllers
        BY <1>7, Facts DEF StoreOK, StoreTypeOK
      <3> QED
        BY <1>1, <1>7, <3>1, Facts, QuietStep
    <2>2. SecretDataOK' /\ ChangesAreCounted'
      BY <1>1, <1>7, Facts, DataRests, CountsRest DEF secretVars
    <2>3. WorkloadOK'
      BY <1>7, Facts, WorkloadStep
    <2> QED
      BY <1>2, <2>1, <2>2, <2>3, PartsMakeIInv DEF Parts
  <1> QED
    BY <1>4, <1>5, <1>6, <1>7 DEF Edit

LEMMA RestartKeepsIInv == IInv /\ RestartOperator => IInv'
  <1> SUFFICES ASSUME IInv, RestartOperator PROVE IInv'
    OBVIOUS
  <1>1. AtMostOneFault /\ cr' = cr
    BY DEF RestartOperator, Restart, AtMostOneFault
  <1>2. StoreOK(Instances, Places)'
    BY Facts, RestartStep DEF RestartOperator, Places
  <1>3. SecretDataOK' /\ ChangesAreCounted' /\ PassOK'
    BY <1>1, Facts, DataRests, CountsRest, PassLeft DEF RestartOperator
  <1>4. WorkloadOK'
    BY Facts DEF RestartOperator, WorkloadOK
  <1> QED
    BY <1>2, <1>3, <1>4, PartsMakeIInv DEF Parts

-----------------------------------------------------------------------------
(* The theorems                                                            *)

LEMMA InitEstablishesIInv == Init => IInv
  <1> SUFFICES ASSUME Init PROVE IInv
    OBVIOUS
  <1> DEFINE first == [gen |-> 0, auto |-> TRUE, held |-> FALSE, deleting |-> FALSE,
                       managed |-> FALSE, checked |-> FALSE]
  <1>1. first \in Instances /\ 0 \in 0..MaxFaults
    BY MaxFaultsAssumption DEF Instances
  <1>2. StoreOK(Instances, Places) /\ cr = first /\ faults = 0
    <2>1. StoreStarts({first}, 0)
      BY DEF Init, StoreInit
    <2> QED
      BY <1>1, <2>1, SecretsAssumption, StoreBegins DEF StoreStarts, Places
  <1>3. PICK generated \in {Absent, [k \in Keys |-> IF k \in Later THEN Absent ELSE 1]} :
           data = [n \in Referenced |-> IF n = "generated" THEN generated ELSE 0]
    BY DEF Init
  <1>4. generated \in Generated \cup {Absent}
    BY MaxFaultsAssumption DEF Generated
  <1>5. IsContents(data, Referenced) /\ \A n \in Referenced \ {"generated"} : data[n] = 0
    BY <1>1, <1>3, <1>4 DEF IsContents, Referenced
  <1>6. made \in {0, 1} /\ dataSeen = data
    BY DEF Init
  <1>7. SecretDataOK
    BY <1>5, <1>6, MaxFaultsAssumption DEF SecretDataOK
  <1>8. ChangesAreCounted
    BY <1>2, <1>5, <1>6 DEF ChangesAreCounted, Incomplete
  <1>9. PassOK /\ WorkloadOK
    BY DEF Init, PassOK, WorkloadOK, IsHash
  <1> QED
    BY <1>2, <1>7, <1>8, <1>9, PartsOfIInv DEF Parts

LEMMA NextKeepsIInv == IInv /\ [Next]_vars => IInv'
  BY ControllerKeepsIInv, WatchesKeepIInv, WorkloadsKeepIInv, EditKeepsIInv, RestartKeepsIInv
     DEF Next

\* The invariant that the other theorems rest on: the values that ensureGeneratedSecret
\* has generated are no more than the disturbances account for, so that its passes stay
\* within their bounds however often they repeat.
THEOREM InvariantHolds == Spec => []IInv
  BY InitEstablishesIInv, NextKeepsIInv, PTL DEF Spec

\* ensureGeneratedSecret and computeSecretHashes: every variable keeps its type.  In
\* particular values are generated at most two times more than something was disturbed, so
\* the controller never loops over the Secret; and no Deployment is patched with a hash
\* that could not be computed.
THEOREM TypesHold == Spec => []TypeOK
  <1>1. IInv => TypeOK
    BY DEF IInv
  <1> QED
    BY <1>1, InvariantHolds, PTL

\* ensureGeneratedSecret: a salt or a password that was generated is never generated anew,
\* however old the cache is that the controller reads the Secret from.
THEOREM ValuesAreKept == Spec => GeneratedValuesAreKept
  <1> DEFINE Step ==
         made' # made => \A k \in Keys :
            (data["generated"] # Absent /\ data["generated"][k] # Absent)
               => data'["generated"][k] = data["generated"][k]
  <1>1. ASSUME IInv, [Next]_vars
        PROVE  Step
    <2>1. CASE made' = made
      BY <2>1
    <2>2. CASE Lacking(dataSeen["generated"]) /\ Accepted /\ WriteGenerated(Wanted)
      BY <1>1, <2>2, GeneratedStep
    <2>3. CASE EnsureGeneratedSecret
      BY <2>1, <2>2, <2>3 DEF EnsureGeneratedSecret, secretVars
    <2>4. CASE ~EnsureGeneratedSecret
      <3>1. made' = made
        BY <1>1, <2>4
           DEF Next, SecretController, SkipDeleted, ComputeSecretHashes,
               PatchDeploymentSecretHash, WriteStatus, WatchInstance, WatchSecrets,
               WatchDeployments, Resync, ApplyDeployment, StartPods, Edit, SiblingWrite,
               RestartOperator, vars, secretVars
      <3> QED
        BY <3>1
    <2> QED
      BY <2>3, <2>4
  <1> HIDE DEF Step
  <1>2. Spec => [][Step]_vars
    BY <1>1, InvariantHolds, PTL DEF Spec
  <1> QED
    BY <1>2 DEF GeneratedValuesAreKept, Step
=============================================================================
