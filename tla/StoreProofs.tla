---------------------------- MODULE StoreProofs ----------------------------
(***************************************************************************)
(* What every controller's steps do to the shared LangfuseInstance, stated *)
(* once for objects of any type and controllers with any places: a holder  *)
(* whose copy counts as current holds the object itself.                   *)
(***************************************************************************)
EXTENDS InstanceStore, TLAPS

StoreOK(Obj, Places) == StoreTypeOK(Obj, Places) /\ FreshMeansEqual

AtMostOneFault == UNCHANGED faults \/ Fault

LEMMA FaultsAreBounded ==
    ASSUME faults \in 0..MaxFaults, AtMostOneFault
    PROVE  faults' \in 0..MaxFaults
  BY MaxFaultsAssumption DEF AtMostOneFault, Fault

\* updateInstanceStatus: either the write landed, and then the copy it was computed from
\* was the object itself, or the object is as before.  Either way no controller is left
\* with a copy that counts as current by mistake.
LEMMA StatusWritten ==
    ASSUME NEW Obj, NEW Places, StoreOK(Obj, Places), NEW h \in Holders, NEW new \in Obj,
           NEW outcome, UpdateInstanceStatus(h, new, outcome)
    PROVE  /\ AtMostOneFault
           /\ fresh' \subseteq fresh
           /\ h # "cache" => h \notin fresh'
           /\ \/ cr' = new /\ copy[h] = cr /\ fresh' = {}
              \/ cr' = cr
  BY DEF UpdateInstanceStatus, NoWrite, StoreOK, FreshMeansEqual, AtMostOneFault

LEMMA NothingWritten ==
    ASSUME NEW h, NoWrite(h)
    PROVE  /\ AtMostOneFault
           /\ fresh' \subseteq fresh
           /\ h # "cache" => h \notin fresh'
           /\ cr' = cr
  BY DEF NoWrite, AtMostOneFault

\* A pass that is one step on the cached copy.
LEMMA FinishStep ==
    ASSUME NEW Obj, NEW Places, StoreOK(Obj, Places), NEW c, NEW requeue,
           Finish(c, requeue), cr' \in Obj, AtMostOneFault,
           fresh' \subseteq fresh, cr' = cr \/ fresh' = {}
    PROVE  StoreOK(Obj, Places)'
  <1>1. faults' \in 0..MaxFaults
    BY FaultsAreBounded DEF StoreOK, StoreTypeOK
  <1>2. queue' \subseteq Controllers /\ pc' = pc /\ copy' = copy
    BY DEF Finish, StoreOK, StoreTypeOK
  <1> QED
    BY <1>1, <1>2 DEF StoreOK, StoreTypeOK, FreshMeansEqual

\* Reconcile returns.
LEMMA ReturnStep ==
    ASSUME NEW Obj, NEW Places, StoreOK(Obj, Places), "idle" \in Places,
           NEW c \in Controllers, NEW requeue, Return(c, requeue), cr' \in Obj, AtMostOneFault,
           fresh' \subseteq fresh, c \notin fresh', cr' = cr \/ fresh' = {}
    PROVE  StoreOK(Obj, Places)'
  <1>1. faults' \in 0..MaxFaults
    BY FaultsAreBounded DEF StoreOK, StoreTypeOK
  <1>2. /\ queue' \subseteq Controllers
        /\ pc' = [pc EXCEPT ![c] = "idle"] /\ copy' = [copy EXCEPT ![c] = NoCopy]
        /\ c # "cache" /\ c \in Holders
    BY ControllersAssumption DEF Return, StoreOK, StoreTypeOK, Holders
  <1>3. /\ pc' \in [Controllers -> Places] /\ copy' \in [Holders -> Obj \cup {NoCopy}]
        /\ \A d \in Controllers : (pc'[d] = "idle") <=> (copy'[d] = NoCopy)
        /\ copy'["cache"] = copy["cache"]
    BY <1>2 DEF StoreOK, StoreTypeOK, FreshMeansEqual, Holders
  <1>4. \A h \in fresh' : copy'[h] = cr'
    BY <1>2 DEF StoreOK, StoreTypeOK, FreshMeansEqual
  <1> QED
    BY <1>1, <1>2, <1>3, <1>4 DEF StoreOK, StoreTypeOK, FreshMeansEqual

\* Reconcile reads the object from the cache and goes on.
LEMMA StartStep ==
    ASSUME NEW Obj, NEW Places, StoreOK(Obj, Places), NoCopy \notin Obj,
           NEW c \in Controllers, NEW place \in Places \ {"idle"}, Ready(c), Start(c, place),
           fresh' = (IF "cache" \in fresh THEN fresh \cup {c} ELSE fresh),
           cr' = cr, AtMostOneFault
    PROVE  StoreOK(Obj, Places)'
  <1>1. faults' \in 0..MaxFaults
    BY FaultsAreBounded DEF StoreOK, StoreTypeOK
  <1>2. /\ queue' \subseteq Controllers
        /\ pc' = [pc EXCEPT ![c] = place] /\ copy' = [copy EXCEPT ![c] = copy["cache"]]
        /\ c # "cache" /\ c \in Holders /\ "cache" \in Holders
    BY ControllersAssumption DEF Start, StoreOK, StoreTypeOK, Holders
  <1>3. c \notin fresh
    BY <1>2 DEF Ready, StoreOK, StoreTypeOK, FreshMeansEqual
  <1>4. /\ pc' \in [Controllers -> Places] /\ copy' \in [Holders -> Obj \cup {NoCopy}]
        /\ \A d \in Controllers : (pc'[d] = "idle") <=> (copy'[d] = NoCopy)
        /\ copy'["cache"] = copy["cache"] /\ copy'[c] = copy["cache"]
    BY <1>2 DEF StoreOK, StoreTypeOK, FreshMeansEqual, Holders
  <1>5. \A h \in fresh' : copy'[h] = cr'
    BY <1>2, <1>3, <1>4 DEF StoreOK, StoreTypeOK, FreshMeansEqual
  <1>6. fresh' \subseteq Holders
    BY <1>2 DEF StoreOK, StoreTypeOK
  <1> QED
    BY <1>1, <1>2, <1>4, <1>5, <1>6 DEF StoreOK, StoreTypeOK, FreshMeansEqual

\* A running reconcile goes on to another place.
LEMMA MoveStep ==
    ASSUME NEW Obj, NEW Places, StoreOK(Obj, Places), NEW c \in Controllers,
           NEW place \in Places \ {"idle"}, pc[c] # "idle",
           pc' = [pc EXCEPT ![c] = place] \/ pc' = pc,
           queue' \subseteq Controllers, UNCHANGED <<cr, copy, fresh>>, AtMostOneFault
    PROVE  StoreOK(Obj, Places)'
  <1>1. faults' \in 0..MaxFaults
    BY FaultsAreBounded DEF StoreOK, StoreTypeOK
  <1> QED
    BY <1>1 DEF StoreOK, StoreTypeOK, FreshMeansEqual

\* A step beside the object; it may wake controllers.
LEMMA QuietStep ==
    ASSUME NEW Obj, NEW Places, StoreOK(Obj, Places),
           queue' \subseteq Controllers, UNCHANGED <<cr, copy, fresh, pc>>, AtMostOneFault
    PROVE  StoreOK(Obj, Places)'
  <1>1. faults' \in 0..MaxFaults
    BY FaultsAreBounded DEF StoreOK, StoreTypeOK
  <1> QED
    BY <1>1 DEF StoreOK, StoreTypeOK, FreshMeansEqual

LEMMA ExternalWriteStep ==
    ASSUME NEW Obj, NEW Places, StoreOK(Obj, Places), NEW new \in Obj, ExternalWrite(new),
           AtMostOneFault
    PROVE  StoreOK(Obj, Places)'
  <1>1. faults' \in 0..MaxFaults
    BY FaultsAreBounded DEF StoreOK, StoreTypeOK
  <1> QED
    BY <1>1 DEF StoreOK, StoreTypeOK, FreshMeansEqual, ExternalWrite

LEMMA SyncCacheStep ==
    ASSUME NEW Obj, NEW Places, StoreOK(Obj, Places), NoCopy \notin Obj,
           NEW woken, woken \subseteq Controllers, SyncCache(woken)
    PROVE  StoreOK(Obj, Places)'
  <1>1. /\ copy' = [copy EXCEPT !["cache"] = cr] /\ fresh' = fresh \cup {"cache"}
        /\ queue' \subseteq Controllers /\ UNCHANGED <<cr, pc, faults>>
        /\ "cache" \in Holders /\ "cache" \notin Controllers
    BY ControllersAssumption DEF SyncCache, StoreOK, StoreTypeOK, Holders
  <1>2. copy' \in [Holders -> Obj \cup {NoCopy}] /\ fresh' \subseteq Holders
    BY <1>1 DEF StoreOK, StoreTypeOK
  <1>3. \A h \in fresh' : copy'[h] = cr'
    BY <1>1 DEF StoreOK, StoreTypeOK, FreshMeansEqual
  <1>4. copy'["cache"] # NoCopy
    BY <1>1 DEF StoreOK, StoreTypeOK
  <1>5. \A c \in Controllers : copy'[c] = copy[c]
    BY <1>1 DEF StoreOK, StoreTypeOK, Holders
  <1> QED
    BY <1>1, <1>2, <1>3, <1>4, <1>5 DEF StoreOK, StoreTypeOK, FreshMeansEqual

LEMMA RestartStep ==
    ASSUME NEW Obj, NEW Places, StoreOK(Obj, Places), NoCopy \notin Obj, "idle" \in Places,
           Restart
    PROVE  StoreOK(Obj, Places)'
  <1>1. faults' \in 0..MaxFaults
    BY FaultsAreBounded DEF StoreOK, StoreTypeOK, Restart, AtMostOneFault
  <1>2. "cache" \in Holders
    BY DEF Holders
  <1> QED
    BY <1>1, <1>2, ControllersAssumption
       DEF StoreOK, StoreTypeOK, FreshMeansEqual, Restart, Holders

LEMMA StoreBegins ==
    ASSUME NEW Obj, NEW Places, NoCopy \notin Obj, "idle" \in Places,
           NEW objects, objects \subseteq Obj, NEW spent \in 0..MaxFaults,
           StoreStarts(objects, spent)
    PROVE  StoreOK(Obj, Places)
  <1>1. "cache" \in Holders /\ "cache" \notin Controllers
    BY ControllersAssumption DEF Holders
  <1> QED
    BY <1>1 DEF StoreStarts, StoreOK, StoreTypeOK, FreshMeansEqual, Holders
=============================================================================
