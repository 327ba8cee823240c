--------------------------- MODULE InstanceStore ---------------------------
(***************************************************************************)
(* The LangfuseInstance object as the operator's controllers share it:     *)
(* one object at the API server, an informer cache that lags behind it,    *)
(* and one private copy per running reconcile.  Every controller writes    *)
(* the same status subresource from its own copy, under optimistic         *)
(* concurrency (internal/controller/status.go).                            *)
(*                                                                         *)
(* Resource versions are not numbered.  All that the API server does with  *)
(* one is to compare it with the current one, so the model keeps the set   *)
(* of holders whose copy is current; every write empties that set.         *)
(***************************************************************************)
EXTENDS Naturals

CONSTANTS
    Controllers,    \* the controllers that reconcile the object
    NoCopy,         \* what an idle controller holds
    MaxFaults       \* bound on API errors and other disturbances

ASSUME ControllersAssumption == "cache" \notin Controllers
ASSUME MaxFaultsAssumption == MaxFaults \in Nat

VARIABLES
    cr,       \* the object at the API server
    copy,     \* what the informer cache and each running reconcile hold
    fresh,    \* the holders whose copy has the current resource version
    queue,    \* the controllers with a pending reconcile request
    pc,       \* where each controller is in its Reconcile
    faults    \* disturbances so far

storeVars == <<cr, copy, fresh, queue, pc, faults>>

Holders == Controllers \cup {"cache"}

\* A disturbance that the code has to survive; their number is bounded.
Fault == faults < MaxFaults /\ faults' = faults + 1

\* The workqueue has a request for an idle controller.
Ready(c) == c \in queue /\ pc[c] = "idle"

\* Reconcile has read the object from the informer cache and will go on with
\* that copy, from a given place, after this step.
Start(c, place) ==
    /\ queue' = queue \ {c}
    /\ pc' = [pc EXCEPT ![c] = place]
    /\ copy' = [copy EXCEPT ![c] = copy["cache"]]

Get(c) ==
    /\ Ready(c)
    /\ Start(c, "read")
    /\ fresh' = IF "cache" \in fresh THEN fresh \cup {c} ELSE fresh
    /\ UNCHANGED <<cr, faults>>

\* Reconcile returns; requeue is a RequeueAfter or an error.
Return(c, requeue) ==
    /\ pc' = [pc EXCEPT ![c] = "idle"]
    /\ copy' = [copy EXCEPT ![c] = NoCopy]
    /\ queue' = IF requeue THEN queue \cup {c} ELSE queue

\* A Reconcile that makes a single call is one step on the cached copy: that the
\* copy may be old by the time of the call is what the cache's lag stands for.
Finish(c, requeue) ==
    /\ queue' = IF requeue THEN queue ELSE queue \ {c}
    /\ UNCHANGED <<pc, copy>>

\* A path of Reconcile that ends without a status write.
NoWrite(h) ==
    /\ fresh' = IF h = "cache" THEN fresh ELSE fresh \ {h}
    /\ UNCHANGED <<cr, faults>>

\* Mutation: the write is not conditional on the resource version.
UpdateUnconditionally(h, new, outcome) ==
    /\ outcome = "ok"
    /\ cr' = new
    /\ fresh' = {}
    /\ UNCHANGED faults

\* updateInstanceStatus from the copy that h holds: nothing is sent when the
\* status is the one that was read; otherwise the write lands exactly when the
\* copy is still current.  A write that fails for another reason may have
\* reached the object all the same.
UpdateInstanceStatus(h, new, outcome) ==
    \/ /\ new = copy[h]
       /\ outcome = "ok"
       /\ NoWrite(h)
    \/ /\ new # copy[h]
       /\ h \in fresh
       /\ outcome = "ok"
       /\ cr' = new
       /\ fresh' = {}
       /\ UNCHANGED faults
    \/ /\ new # copy[h]
       /\ h \notin fresh
       /\ outcome = "conflict"
       /\ NoWrite(h)
    \/ /\ new # copy[h]
       /\ outcome = "error"
       /\ Fault
       /\ \/ fresh' = (IF h = "cache" THEN fresh ELSE fresh \ {h}) /\ UNCHANGED cr
          \/ h \in fresh /\ cr' = new /\ fresh' = {}

\* noteStatusWriteFailure with requeueIf: only a conflict is retried.
RequeueIf(outcome) == outcome = "conflict"

\* Any other write to the object: the user edits or deletes it, or a sibling
\* controller changes a part of the status that the model leaves out.
ExternalWrite(new) ==
    /\ cr' = new
    /\ fresh' = {}
    /\ UNCHANGED <<copy, queue, pc>>

\* The watch delivers the latest object; the event reaches the controllers
\* in woken.
SyncCache(woken) ==
    /\ "cache" \notin fresh
    /\ copy' = [copy EXCEPT !["cache"] = cr]
    /\ fresh' = fresh \cup {"cache"}
    /\ queue' = queue \cup woken
    /\ UNCHANGED <<cr, pc, faults>>

\* The operator process dies and another one takes over: running reconciles
\* are lost, the caches are listed anew and every controller gets a request.
Restart ==
    /\ Fault
    /\ pc' = [c \in Controllers |-> "idle"]
    /\ copy' = [h \in Holders |-> IF h = "cache" THEN cr ELSE NoCopy]
    /\ fresh' = {"cache"}
    /\ queue' = Controllers
    /\ UNCHANGED cr

\* The object is created, or the operator starts; a number of the disturbances may be
\* spent already.
StoreStarts(objects, spent) ==
    /\ cr \in objects
    /\ copy = [h \in Holders |-> IF h = "cache" THEN cr ELSE NoCopy]
    /\ fresh = {"cache"}
    /\ queue = Controllers
    /\ pc = [c \in Controllers |-> "idle"]
    /\ faults = spent

StoreInit(objects) == StoreStarts(objects, 0)

-----------------------------------------------------------------------------

\* What the store's variables range over, for objects of a given type and the
\* program counters of the controllers.
StoreTypeOK(Objects, Places) ==
    /\ cr \in Objects
    /\ copy \in [Holders -> Objects \cup {NoCopy}]
    /\ fresh \subseteq Holders
    /\ queue \subseteq Controllers
    /\ pc \in [Controllers -> Places]
    /\ faults \in 0..MaxFaults

\* A holder counts as current only while its copy is the object itself, and a
\* running reconcile and the cache always hold some version of it: what makes
\* the whole-status Update of updateInstanceStatus safe against lost updates.
FreshMeansEqual ==
    /\ \A h \in fresh : copy[h] = cr
    /\ copy["cache"] # NoCopy
    /\ \A c \in Controllers : (pc[c] = "idle") <=> (copy[c] = NoCopy)
=============================================================================
