------------------------------ MODULE Secrets ------------------------------
(***************************************************************************)
(* The secret controller (internal/controller/secret_controller.go): it    *)
(* generates the instance's own Secret, and stamps a hash of Secrets that  *)
(* the spec refers to onto the pod templates of the Web and Worker         *)
(* Deployments, so that a rotation restarts the pods.  The instance        *)
(* controller applies the Deployments, without the hash; kubelets read the *)
(* Secrets when pods start.                                                *)
(*                                                                         *)
(* A Secret is its contents.  A Secret of the user is the number of times  *)
(* it was rotated, so contents never recur: a rotation that is reverted    *)
(* while pods start can leave them with the reverted contents, which the   *)
(* hash cannot tell.  The hash is taken to be free of collisions,          *)
(* so it stands for the contents that went into it.                        *)
(***************************************************************************)
EXTENDS InstanceStore

CONSTANTS
    Deployments, \* the Web and the Worker Deployment
    Keys,        \* the keys of the generated Secret
    Later,       \* those that a later release added
    Absent       \* no such Secret, key, Deployment or hash

ASSUME LaterAssumption == Later \subseteq Keys

VARIABLES
    data,       \* the Secrets at the API server
    dataSeen,   \* the Secrets as the informer cache shows them
    made,       \* how often values were generated
    hash,       \* what the running pass has computed
    todo,       \* the Deployments it has yet to look at
    rotated,    \* whether it has patched one
    stamp,      \* the hash annotation of each Deployment's pod template
    stampSeen,  \* the annotations as the informer cache shows them
    pods        \* the contents that each Deployment's pods have read

secretVars == <<data, dataSeen, made>>
passVars == <<hash, todo, rotated>>
workloadVars == <<stamp, stampSeen, pods>>
vars == <<storeVars, secretVars, passVars, workloadVars>>

NoHash == <<>>

\* The Secrets whose values the pods read: the generated one, and the user's.  The user's
\* are of two kinds, for collectReferencedSecretNames leaves out those of auth.adminApiKey,
\* of the enterprise licence key and of the TLS certificates.
Referenced == {"generated", "user", "licence"}

\* collectReferencedSecretNames
Collected == {"generated", "user"}

\* The contents of a generated Secret: a value for each key that it has.
Generated == [Keys -> 1..(MaxFaults + 2) \cup {Absent}]
NewValues == [k \in Keys |-> made + 1]
Complete(secret) == secret # Absent /\ \A k \in Keys : secret[k] # Absent

\* Keys that an earlier release did not generate, or that were removed, get values.
Backfilled(secret) ==
    [k \in Keys |-> IF secret[k] = Absent THEN made + 1 ELSE secret[k]]

-----------------------------------------------------------------------------
(* The secret controller                                                   *)

\* The copy that Reconcile reads, and the one it goes on with.
Instance == copy["secret"]
Cached == copy["cache"]

\* Reconcile starts: the instance and the generated Secret are both read from the cache,
\* and what follows, up to the first write, is one step.
Begin(place) ==
    /\ Ready("secret")
    /\ ~Cached.deleting
    /\ Start("secret", place)
    /\ fresh' = IF "cache" \in fresh THEN fresh \cup {"secret"} ELSE fresh
    /\ UNCHANGED <<cr, passVars>>

\* Reconcile returns early, or with an error that repeats it.
Leave(requeue) ==
    /\ Return("secret", requeue)
    /\ hash' = NoHash
    /\ todo' = {}
    /\ rotated' = FALSE

SkipDeleted ==
    /\ Ready("secret")
    /\ Cached.deleting
    /\ Finish("secret", FALSE)
    /\ NoWrite("cache")
    /\ UNCHANGED <<secretVars, passVars, workloadVars>>

\* Mutation: a Secret that the cache does not show is written over.
CreatesOrReplaces == TRUE

\* A Create succeeds when there is no such Secret.
CanCreate == data["generated"] = Absent

WriteGenerated(new) ==
    /\ data' = [data EXCEPT !["generated"] = new]
    /\ made' = made + 1
    /\ UNCHANGED dataSeen

\* Mutation: keys that a later release added are not looked for.
IsMissing(secret) == secret = Absent

\* Keys are to be generated.
Lacking(secret) == ~Complete(secret)

\* The write that ensureGeneratedSecret makes, from what the cache shows, and whether
\* the API server accepts it.
Wanted == LET old == dataSeen["generated"] IN IF old = Absent THEN NewValues ELSE Backfilled(old)
Accepted == IF dataSeen["generated"] = Absent
            THEN CanCreate
            ELSE dataSeen["generated"] = data["generated"]

\* ensureGeneratedSecret: the Secret is created, or completed, or left as it is.  An
\* error, or a write that is refused, repeats the pass; a write may land all the same.
EnsureGeneratedSecret ==
    /\ \/ /\ ~Cached.auto \/ ~Lacking(dataSeen["generated"])
          /\ Begin("hash")
          /\ UNCHANGED <<faults, secretVars>>
       \/ /\ Cached.auto
          /\ Lacking(dataSeen["generated"])
          /\ Accepted
          /\ Begin("hash")
          /\ WriteGenerated(Wanted)
          /\ UNCHANGED faults
       \/ /\ Cached.auto
          /\ ~Cached.deleting
          /\ Lacking(dataSeen["generated"])
          /\ Ready("secret")
          /\ Finish("secret", TRUE)
          /\ \/ ~Accepted /\ UNCHANGED <<faults, secretVars>>
             \/ Fault /\ UNCHANGED secretVars
             \/ Accepted /\ Fault /\ WriteGenerated(Wanted)
          /\ UNCHANGED <<cr, fresh, passVars>>
    /\ UNCHANGED <<workloadVars>>

\* Mutation: the order of a map's keys goes into the hash.
UnsortedHashes(contents) == {<<contents, 1>>, <<contents, 2>>}

\* computeSecretHashes over the Secrets that exist: what may come out.
SecretHashes(contents) == {<<contents>>}

\* Mutation: an error leaves the hash empty, and the empty hash is stamped.
PatchAnyway(computed) == Deployments

\* The Deployments to look at, once the hash was computed or was not.
ToPatch(computed) == IF computed THEN Deployments ELSE {}

\* The composite hash, the same for both Deployments; an error skips the patches.
ComputeSecretHashes ==
    /\ pc["secret"] = "hash"
    /\ \/ /\ hash' \in SecretHashes([n \in Collected |-> dataSeen[n]])
          /\ todo' = ToPatch(TRUE)
          /\ UNCHANGED faults
       \/ /\ Fault
          /\ todo' = ToPatch(FALSE)
          /\ UNCHANGED hash
    /\ pc' = [pc EXCEPT !["secret"] = "patch"]
    /\ UNCHANGED <<cr, copy, fresh, queue, secretVars, rotated, workloadVars>>

\* When its pod template changes, a Deployment restarts its pods.
Template(d, annotation) ==
    /\ stamp' = [stamp EXCEPT ![d] = annotation]
    /\ pods' = [pods EXCEPT ![d] = IF stamp[d] = annotation THEN @ ELSE Absent]

Stamp(d) == Template(d, hash)

\* Mutation: a template that has a hash is not stamped again.
StampedOnce(d) == stampSeen[d] # NoHash

\* Nothing to do for a Deployment that is not there or has the hash already.
UpToDate(d) == stampSeen[d] \in {Absent, hash}

\* patchDeploymentSecretHash: errors are logged, and nothing repeats the pass.
PatchDeploymentSecretHash(d) ==
    /\ pc["secret"] = "patch"
    /\ d \in todo
    /\ todo' = todo \ {d}
    /\ \/ /\ UpToDate(d) \/ stamp[d] = Absent
          /\ UNCHANGED <<stamp, pods, rotated, faults>>
       \/ /\ ~UpToDate(d)
          /\ stamp[d] # Absent
          /\ \/ Stamp(d) /\ rotated' = TRUE /\ UNCHANGED faults
             \/ Fault /\ (Stamp(d) \/ UNCHANGED <<stamp, pods>>) /\ UNCHANGED rotated
    /\ UNCHANGED <<cr, copy, fresh, queue, pc, secretVars, hash, stampSeen>>

\* The status says what is managed and, after a rotation, when: a time that differs from
\* the one before.  A write that fails repeats the pass.
WriteStatus ==
    /\ pc["secret"] = "patch"
    /\ todo = {}
    /\ \E outcome \in {"ok", "conflict", "error"} :
          /\ UpdateInstanceStatus("secret",
                [Instance EXCEPT !.managed = @ \/ Instance.auto,
                                 !.checked = IF rotated THEN ~@ ELSE @], outcome)
          /\ Leave(outcome # "ok")
    /\ UNCHANGED <<secretVars, workloadVars>>

SecretController ==
    \/ SkipDeleted
    \/ EnsureGeneratedSecret
    \/ ComputeSecretHashes
    \/ \E d \in Deployments : PatchDeploymentSecretHash(d)
    \/ WriteStatus

-----------------------------------------------------------------------------
(* Watches, the instance controller, kubelets, the user and the process    *)

\* Only spec changes of the instance reach the controller.
WatchInstance ==
    /\ SyncCache(IF copy["cache"].gen # cr.gen THEN {"secret"} ELSE {})
    /\ UNCHANGED <<secretVars, passVars, workloadVars>>

\* A change of a Secret that is collected reaches it through findInstancesForSecret, which
\* drops the event when it cannot list the instances.
WatchSecrets ==
    /\ dataSeen # data
    /\ dataSeen' = data
    /\ LET changed == {n \in Collected : dataSeen[n] # data[n]}
       IN  \/ changed = {} /\ UNCHANGED <<queue, faults>>
           \/ changed # {} /\ queue' = queue \cup {"secret"} /\ UNCHANGED faults
           \/ changed # {} /\ Fault /\ UNCHANGED queue
    /\ UNCHANGED <<cr, copy, fresh, pc, data, made, passVars, workloadVars>>

\* The informers' periodic resync delivers the Secrets once more.
Resync ==
    /\ queue' = queue \cup {"secret"}
    /\ UNCHANGED <<cr, copy, fresh, pc, faults, secretVars, passVars, workloadVars>>

WatchDeployments ==
    /\ stampSeen # stamp
    /\ stampSeen' = stamp
    /\ UNCHANGED <<storeVars, secretVars, passVars, stamp, pods>>

\* Mutation: the annotation is the instance controller's own, which it no longer declares.
PrunesStamp(d) == NoHash

\* The annotation after a server-side apply that does not declare it: fieldOwnerSecrets owns
\* it, so it stays; a Deployment that was not there has none.
Reapplied(d) == IF stamp[d] = Absent THEN NoHash ELSE stamp[d]

\* The instance controller applies a Deployment, new or again, at any time: its events are
\* many.  It goes by the cached copy, and lets the Deployments be when the instance is
\* deleted, when its datastore target moved or when BuildConfig refuses the spec (held).
ApplyDeployment ==
    /\ ~Cached.deleting
    /\ ~Cached.held
    /\ \E d \in Deployments : Template(d, Reapplied(d))
    /\ UNCHANGED <<storeVars, secretVars, passVars, stampSeen>>

\* Pods start and read the Secrets as they are then; they wait for a key that is not there.
StartPods ==
    /\ cr.auto => Complete(data["generated"])
    /\ \E d \in Deployments :
          /\ stamp[d] # Absent
          /\ pods[d] = Absent
          /\ pods' = [pods EXCEPT ![d] = data]
    /\ UNCHANGED <<storeVars, secretVars, passVars, stamp, stampSeen>>

\* Somebody edits: the spec is changed or the instance deleted; a Secret is rotated,
\* loses a key or is deleted; a Deployment is deleted.
Edit ==
    /\ Fault
    /\ \/ /\ ~cr.deleting
          /\ \E new \in {[cr EXCEPT !.auto = ~@], [cr EXCEPT !.held = ~@],
                        [cr EXCEPT !.deleting = TRUE]} :
                ExternalWrite([new EXCEPT !.gen = @ + 1])
          /\ UNCHANGED <<secretVars, workloadVars>>
       \/ /\ \/ \E n \in Referenced \ {"generated"} : data' = [data EXCEPT ![n] = @ + 1]
             \/ \E k \in Keys :
                   /\ Complete(data["generated"])
                   /\ data' = [data EXCEPT !["generated"][k] = Absent]
             \/ data["generated"] # Absent /\ data' = [data EXCEPT !["generated"] = Absent]
          /\ UNCHANGED <<cr, copy, fresh, queue, pc, dataSeen, made, workloadVars>>
       \/ /\ \E d \in Deployments :
                /\ stamp[d] # Absent
                /\ stamp' = [stamp EXCEPT ![d] = Absent]
                /\ pods' = [pods EXCEPT ![d] = Absent]
          /\ UNCHANGED <<cr, copy, fresh, queue, pc, secretVars, stampSeen>>
    /\ UNCHANGED passVars

\* A sibling controller writes its part of the status.
SiblingWrite ==
    /\ Fault
    /\ ExternalWrite(cr)
    /\ UNCHANGED <<secretVars, passVars, workloadVars>>

RestartOperator ==
    /\ Restart
    /\ hash' = NoHash /\ todo' = {} /\ rotated' = FALSE
    /\ dataSeen' = data
    /\ stampSeen' = stamp
    /\ UNCHANGED <<data, made, stamp, pods>>

\* A new instance, or one whose Secret an earlier release has generated.
Init ==
    /\ StoreInit({[gen |-> 0, auto |-> TRUE, held |-> FALSE, deleting |-> FALSE,
                   managed |-> FALSE, checked |-> FALSE]})
    /\ \E generated \in {Absent, [k \in Keys |-> IF k \in Later THEN Absent ELSE 1]} :
          data = [n \in Referenced |-> IF n = "generated" THEN generated ELSE 0]
    /\ made = (IF data["generated"] = Absent THEN 0 ELSE 1)
    /\ dataSeen = data
    /\ hash = NoHash /\ todo = {} /\ rotated = FALSE
    /\ stamp = [d \in Deployments |-> Absent]
    /\ stampSeen = stamp
    /\ pods = [d \in Deployments |-> Absent]

Next ==
    \/ SecretController
    \/ WatchInstance
    \/ WatchSecrets
    \/ WatchDeployments
    \/ Resync
    \/ ApplyDeployment
    \/ StartPods
    \/ Edit
    \/ SiblingWrite
    \/ RestartOperator

Spec == Init /\ [][Next]_vars

\* The manager serves the queue, watches deliver, the informers resync, the instance
\* controller and the kubelets do their work.
FairSpec ==
    /\ Spec
    /\ WF_vars(SecretController)
    /\ WF_vars(WatchInstance)
    /\ WF_vars(WatchSecrets)
    /\ WF_vars(WatchDeployments)
    /\ WF_vars(Resync)
    /\ WF_vars(ApplyDeployment)
    /\ WF_vars(StartPods)

-----------------------------------------------------------------------------
(* Properties                                                              *)

IsContents(c, names) ==
    /\ c = [n \in names |-> c[n]]
    /\ c["generated"] \in Generated \cup {Absent}
    /\ \A n \in names \ {"generated"} : c[n] \in 0..MaxFaults

IsHash(h) == h = NoHash \/ IsContents(h[1], Collected)

Instances ==
    [gen : 0..MaxFaults, auto : BOOLEAN, held : BOOLEAN, deleting : BOOLEAN,
     managed : BOOLEAN, checked : BOOLEAN]

\* Type correctness of the model's state: the shared store, and the Secrets and
\* Deployments that ensureGeneratedSecret and patchDeploymentSecretHash write.  A pass
\* that could not compute the hash has nothing to patch.
TypeOK ==
    /\ StoreTypeOK(Instances, {"idle", "hash", "patch"})
    /\ FreshMeansEqual
    /\ IsContents(data, Referenced) /\ IsContents(dataSeen, Referenced)
    /\ made \in 0..(MaxFaults + 2)
    /\ todo \subseteq Deployments
    /\ rotated \in BOOLEAN
    /\ IsHash(hash)
    /\ todo # {} => hash # NoHash
    /\ stamp = [d \in Deployments |-> stamp[d]] /\ pods = [d \in Deployments |-> pods[d]]
    /\ \A d \in Deployments :
          /\ stamp[d] = Absent \/ IsHash(stamp[d])
          /\ stampSeen[d] = Absent \/ IsHash(stampSeen[d])
          /\ pods[d] = Absent \/ IsContents(pods[d], Referenced)

\* What the proofs assume of the constants.
ASSUME SecretsAssumption ==
    /\ "secret" \in Controllers
    /\ NoCopy \notin Instances
    /\ Absent \notin 1..(MaxFaults + 2) /\ Absent \notin Generated

Incomplete(secret) == IF Complete(secret) THEN 0 ELSE 1

\* Values are generated only for a Secret that lacks some, and it comes to lack them by a
\* disturbance, a new instance and the release that added a key aside.
ChangesAreCounted ==
    /\ made + Incomplete(data["generated"]) <= faults + 2
    /\ \A n \in Referenced \ {"generated"} : data[n] <= faults
    /\ cr.gen <= faults

\* What makes TypeOK inductive.
IInv == TypeOK /\ ChangesAreCounted

\* Once a value has been generated the operator never replaces it: the salt and the
\* passwords in a Secret that the lagging cache does not show, or shows without its newest
\* keys, survive every pass of ensureGeneratedSecret.
GeneratedValuesAreKept ==
    [][made' # made => \A k \in Keys :
          (data["generated"] # Absent /\ data["generated"][k] # Absent)
             => data'["generated"][k] = data["generated"][k]]_vars

\* A Secret that an earlier release generated without a key, or that was damaged or
\* deleted, is complete again in the end: the pods' references to it resolve.
GeneratedSecretCompletes ==
    <>[](cr.deleting \/ ~cr.auto \/ Complete(data["generated"]))

\* After the last change the pods of each Deployment run with the contents that the
\* collected Secrets have, unless the generated Secret was damaged and is no longer kept, or
\* the Deployment is gone and the instance controller is held: a rotation is not lost to a
\* Deployment that is applied or seen late, to an event that is dropped, to a patch that
\* fails or to a pass that the operator did not finish.  Of the Secrets that are referred to
\* and not collected nothing is said: their rotation reaches no pod that runs, although
\* docs/guide/secrets.md and the comment on collectReferencedSecretNames promise it of every
\* Secret that the spec refers to.
RotationReachesPods ==
    <>[](\/ cr.deleting
         \/ made > 0 /\ ~Complete(data["generated"])
         \/ \A d \in Deployments :
               \/ cr.held /\ stamp[d] = Absent
               \/ pods[d] # Absent /\ \A n \in Collected : pods[d][n] = data[n])

\* Pods are not restarted for ever: when nothing changes any more the hash annotation
\* stays as it is, though the resync keeps running the controller and the instance
\* controller applies the Deployment again and again.
RestartsCease == <>[][stamp' = stamp]_vars
=============================================================================
