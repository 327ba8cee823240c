------------------------------ MODULE Tenancy ------------------------------
(***************************************************************************)
(* The organization and project controllers                                *)
(* (internal/controller/langfuseorganization_controller.go and             *)
(* langfuseproject_controller.go) with a LangfuseOrganization, a           *)
(* LangfuseProject that refers to it and has one API key, the Secrets they *)
(* write and the Langfuse server.                                          *)
(*                                                                         *)
(* Both objects live at the API server under optimistic concurrency; a     *)
(* reconcile works on a copy of what the informer cache shows.  Every pass *)
(* over an object that stays is repeated after at most five minutes, so a  *)
(* controller may start a pass at any time.  A call to Langfuse that       *)
(* returns an error may have taken effect; it does so at once or never.    *)
(***************************************************************************)
EXTENDS LangfuseServer, FiniteSets

CONSTANTS
    Desired,     \* spec.members.users: a role for each person, or None
    Exclusive,   \* spec.members.managedExclusively
    MaxFaults    \* bound on failed calls, restarts and what others do, and on passes that
                 \* begin before the cache knows the Secrets

ASSUME DesiredAssumption == Desired \in Memberships /\ Exclusive \in BOOLEAN
ASSUME TenancyBoundAssumption == MaxFaults \in Nat /\ MaxKeys \in Nat

VARIABLES
    obj,          \* the two objects at the API server
    seen,         \* the objects as the informer cache shows them
    held,         \* the copy that each running reconcile works on
    current,      \* which of "seen" and "held" have the current resource version
    place,        \* where each controller is in its Reconcile
    client,       \* the project pass: its credential and the key it has made
    secrets,      \* the key in the Secret <org>-orgkey and in that of the project
    secretsSeen,  \* the Secrets as the informer cache shows them
    lags,         \* project passes so far that began while the two differed
    up,           \* the LangfuseInstance is ready and its admin key readable
    faults        \* disturbances so far

objectVars == <<obj, seen, held, current, place>>
secretVars == <<secrets, secretsSeen, lags>>
vars == <<serverVars, objectVars, secretVars, client, up, faults>>

Kinds == {"organization", "project"}
NoClient == [auth |-> None, minted |-> None]

\* A disturbance that the code has to survive; their number is bounded.
Fault == faults + lags < MaxFaults /\ faults' = faults + 1

\* A call fails for a reason, or is made to fail by a disturbance.
Fails(reason) == (reason /\ UNCHANGED faults) \/ Fault

-----------------------------------------------------------------------------
(* Objects, copies and writes                                              *)

Go(k, where) == place' = [place EXCEPT ![k] = where]

\* Reconcile returns; the copy and the client go with it.
Return(k) ==
    /\ place' = [place EXCEPT ![k] = "idle"]
    /\ held' = [held EXCEPT ![k] = None]
    /\ client' = IF k = "project" THEN NoClient ELSE client

\* The API server stores a new version; those in keep know it.
Store(k, new, keep) ==
    /\ obj' = [obj EXCEPT ![k] = new]
    /\ current' = [current EXCEPT ![k] = (IF new = obj[k] THEN @ \ {"held"} ELSE {}) \cup keep]

\* No version is stored, and the copy is given up.
Drop(k) ==
    /\ current' = [current EXCEPT ![k] = @ \ {"held"}]
    /\ UNCHANGED obj

Landed(k) == "held" \in current[k]

\* A status write that ends the pass: it lands when the copy is current, and its
\* error is logged or returned, which repeats the pass like its success does.
Report(k, new) ==
    /\ IF Landed(k) THEN Store(k, new, {}) ELSE Drop(k)
    /\ Return(k)
    /\ UNCHANGED <<seen, secretVars, up>>

\* Mutation: a failure resets the status.
ForgetsIdentifier(k) == Report(k, [held[k] EXCEPT !.ready = FALSE, !.id = None])

\* Mutation: a failure leaves Ready as it was.
StaysReady(k) == Report(k, held[k])

\* A failure on the way: Ready becomes false; an identifier that was found before
\* the failure is written too.
NotReady(k) == Report(k, [held[k] EXCEPT !.ready = FALSE])

\* The cache has yet to learn of a Secret that an earlier pass has made or deleted: the
\* pass may have been woken by the status write that followed.
Lagging(k) == k = "project" /\ secretsSeen # secrets

\* With old caches a project pass may mint a key each time: near the bound on keys it waits
\* for the watches.
Spare == {key \in KeyIds : keys[key] = Unused}
MayBegin(k) ==
    \/ k = "organization"
    \/ Cardinality(Spare) > 1
    \/ "seen" \in current["organization"] /\ secretsSeen = secrets

\* Reconcile reads the object from the cache.
Get(k) ==
    /\ place[k] = "idle"
    /\ MayBegin(k)
    /\ seen[k] \notin Absent
    /\ seen[k].finalizer
    /\ held' = [held EXCEPT ![k] = seen[k]]
    /\ current' = [current EXCEPT ![k] = IF "seen" \in @ THEN @ \cup {"held"} ELSE @]
    /\ Go(k, IF seen[k].deleting THEN "delete" ELSE "resolve")
    /\ IF Lagging(k) THEN faults + lags < MaxFaults /\ lags' = lags + 1 ELSE UNCHANGED lags
    /\ UNCHANGED <<serverVars, obj, seen, secrets, secretsSeen, client, up, faults>>

\* The first pass over an object begins with a write that adds the finalizer; a pass
\* that it fails in has changed nothing.
AddFinalizer(k) ==
    /\ place[k] = "idle"
    /\ seen[k] \notin Absent
    /\ ~seen[k].finalizer
    /\ "seen" \in current[k]
    /\ held' = [held EXCEPT ![k] = [seen[k] EXCEPT !.finalizer = TRUE]]
    /\ Store(k, [seen[k] EXCEPT !.finalizer = TRUE], {"held"})
    /\ Go(k, "resolve")
    /\ UNCHANGED <<serverVars, seen, secretVars, client, up, faults>>

\* The last step of a deletion: without its finalizer the object goes.
RemoveFinalizer(k) ==
    /\ place[k] = "release"
    /\ \/ /\ Landed(k)
          /\ Store(k, Gone, {})
          /\ UNCHANGED faults
       \/ /\ Fails(~Landed(k))
          /\ Drop(k)
    /\ Return(k)
    /\ UNCHANGED <<serverVars, seen, secretVars, up>>

\* Mutation: the object is read again before its status is written, and what the pass has
\* found is lost.
SyncedAnew(k) ==
    /\ place[k] = "status"
    /\ Report(k, [seen[k] EXCEPT !.ready = TRUE])
    /\ UNCHANGED <<serverVars, faults>>

\* The final status write of a pass that got through.
Synced(k) ==
    /\ place[k] = "status"
    /\ \/ Report(k, [held[k] EXCEPT !.ready = TRUE]) /\ UNCHANGED faults
       \/ /\ Fault
          /\ Drop(k)
          /\ Return(k)
          /\ UNCHANGED <<seen, secretVars, up>>
    /\ UNCHANGED serverVars

\* An identifier is noted in the copy's status.
Found(k, id, where) ==
    /\ held' = [held EXCEPT ![k].id = id]
    /\ Go(k, where)

\* What the steps that talk to Langfuse and go on leave alone.
Onward == UNCHANGED <<obj, seen, current, secretVars, client, up>>

\* The object exists and nobody has asked for its deletion.
Wants(k) == obj[k] \notin Absent /\ ~obj[k].deleting

Deleting(k) == obj[k] \notin Absent /\ obj[k].deleting

-----------------------------------------------------------------------------
(* The organization controller                                             *)

Org == held["organization"]
AtOrg(where) == place["organization"] = where
OrgFails == NotReady("organization")

\* resolveInstance and buildLangfuseClient: the instance is ready and its admin key can be
\* read.
AdminClient == up

ResolveFails ==
    /\ AtOrg("resolve")
    /\ ~AdminClient
    /\ OrgFails
    /\ UNCHANGED <<serverVars, faults>>

\* Mutation: the search finds nothing, as when the answer is not looked through.
SearchesInVain(name) == {}

\* The search by name of syncOrganization.
SearchOrganization(name) == ListOrganizations(name)

\* syncOrganization: the organization on record is verified, and renamed where the
\* object has another name.  Any error of the read, not only a missing organization,
\* leads to the search by name.
SyncOrganization ==
    /\ AtOrg("resolve")
    /\ AdminClient
    /\ \/ /\ GetOrganization(Org.id)
          /\ \/ /\ IF orgs[Org.id].name = Org.name
                   THEN UNCHANGED serverVars
                   ELSE UpdateOrganization(Org.id, Org.name)
                /\ Found("organization", Org.id, "members")
                /\ UNCHANGED faults
                /\ Onward
             \/ /\ orgs[Org.id].name # Org.name
                /\ Fault
                /\ UpdateOrganization(Org.id, Org.name) \/ UNCHANGED serverVars
                /\ OrgFails
       \/ /\ Fails(~GetOrganization(Org.id))
          /\ \/ \E o \in SearchOrganization(Org.name) : Found("organization", o, "members")
             \/ /\ SearchOrganization(Org.name) = {}
                /\ Go("organization", "create")
                /\ UNCHANGED held
          /\ Onward
          /\ UNCHANGED serverVars
       \/ /\ ~GetOrganization(Org.id)
          /\ Fault
          /\ OrgFails
          /\ UNCHANGED serverVars

MakeOrganization ==
    /\ AtOrg("create")
    /\ \E o \in OrgIds :
          \/ /\ CreateOrganization(o, Org.name)
             /\ Found("organization", o, "members")
             /\ UNCHANGED faults
             /\ Onward
          \/ /\ Fault
             /\ CreateOrganization(o, Org.name) \/ UNCHANGED serverVars
             /\ OrgFails

\* The listed people get their roles; the others go, if the operator manages the
\* membership exclusively.
Wanted(e, listed) == IF Desired[e] # None THEN Desired[e]
                     ELSE IF Exclusive THEN None ELSE listed[e]

\* Mutation: nobody is removed.
AddsOnly(listed) == [e \in Emails |-> IF Desired[e] # None THEN Desired[e] ELSE listed[e]]
SyncedMembers(listed) == [e \in Emails |-> Wanted(e, listed)]

\* What a sync leaves behind that fails on the way: the listed people come first.
PartlySynced(listed) ==
    {members \in Memberships :
        /\ \A e \in Emails : members[e] \in {listed[e], Wanted(e, listed)}
        /\ \/ \A e \in Emails : Desired[e] = None => members[e] = listed[e]
           \/ \A e \in Emails : Desired[e] # None => members[e] = Desired[e]}

SyncMembers ==
    /\ AtOrg("members")
    /\ \/ /\ GetOrganization(Org.id)
          /\ SetOrgMembers(Org.id, SyncedMembers(ListOrgMembers(Org.id)))
          /\ Go("organization", "status")
          /\ UNCHANGED <<held, faults>>
          /\ Onward
       \/ /\ GetOrganization(Org.id)
          /\ Fault
          /\ \E members \in PartlySynced(ListOrgMembers(Org.id)) :
                SetOrgMembers(Org.id, members)
          /\ OrgFails
       \/ /\ ~GetOrganization(Org.id)
          /\ OrgFails
          /\ UNCHANGED <<serverVars, faults>>

\* countDependentProjects: the project that refers to the organization, if the cache has it.
DependentProjects == {k \in {"project"} : seen[k] \notin Absent}

\* handleDeletion: a LangfuseProject in the cache blocks the deletion.  Nothing looks for one
\* that is created, or that the cache learns of, from here on.
CountDependents ==
    /\ AtOrg("delete")
    /\ \/ /\ DependentProjects # {}
          /\ OrgFails
       \/ /\ DependentProjects = {}
          /\ Go("organization", "cleanup")
          /\ UNCHANGED held
          /\ Onward
    /\ UNCHANGED <<serverVars, faults>>

\* The organization is deleted in Langfuse, best effort; the server may refuse while
\* it has projects.
CleanUpOrganization ==
    /\ AtOrg("cleanup")
    /\ \/ /\ AdminClient
          /\ GetOrganization(Org.id)
          /\ DeleteOrganization(Org.id)
          /\ UNCHANGED faults
       \/ /\ \/ ~AdminClient
             \/ ~GetOrganization(Org.id)
             \/ \E p \in ProjectIds : projects[p] = Org.id
          /\ UNCHANGED <<serverVars, faults>>
       \/ /\ AdminClient /\ GetOrganization(Org.id)
          /\ Fault
          /\ UNCHANGED serverVars
    /\ Go("organization", "release")
    /\ UNCHANGED held
    /\ Onward

OrganizationController ==
    \/ Get("organization")
    \/ AddFinalizer("organization")
    \/ ResolveFails
    \/ SyncOrganization
    \/ MakeOrganization
    \/ SyncMembers
    \/ Synced("organization")
    \/ CountDependents
    \/ CleanUpOrganization
    \/ RemoveFinalizer("organization")

-----------------------------------------------------------------------------
(* The project controller                                                  *)

Project == held["project"]
AtProject(where) == place["project"] = where
ProjectFails == NotReady("project")

\* The Secret of a name is created or deleted; the cache follows later.
SetSecret(name, key) ==
    /\ secrets' = [secrets EXCEPT ![name] = key]
    /\ UNCHANGED <<secretsSeen, lags, faults>>

\* What the steps of the project pass that go on leave alone, Secrets aside.
Continue(where) ==
    /\ Go("project", where)
    /\ UNCHANGED <<obj, seen, current, up>>

\* resolveOrganization: ready and with an identifier, as the cache has it.
Resolved ==
    /\ AdminClient
    /\ seen["organization"] \notin Absent
    /\ seen["organization"].ready
    /\ seen["organization"].id # None

\* Mutation: a deletion waits until Langfuse can be reached.
WaitsForLangfuse == ProjectFails

\* A pass that cannot get at Langfuse: a deletion skips its cleanup.
GiveUp ==
    IF Project.deleting
    THEN Continue("secret") /\ UNCHANGED <<held, client, secretVars>>
    ELSE ProjectFails

Client(auth, where) ==
    /\ client' = [client EXCEPT !.auth = auth]
    /\ Continue(where)
    /\ UNCHANGED <<held, secretVars>>

NeedsClient == Resolved /\ ~(Project.deleting /\ Project.id = None)
Authorized == IF Project.deleting THEN "revoke" ELSE "project"

ResolveProjectFails ==
    /\ AtProject("resolve") \/ AtProject("delete")
    /\ ~NeedsClient
    /\ GiveUp
    /\ UNCHANGED <<serverVars, faults>>

\* ensureProjectClient: the cached organization key is used as it is found, without
\* asking Langfuse; without one a key is minted.
EnsureClient ==
    /\ AtProject("resolve") \/ AtProject("delete")
    /\ NeedsClient
    /\ LET org == seen["organization"].id IN
       \/ /\ secretsSeen["orgkey"] # None
          /\ Client(secretsSeen["orgkey"], Authorized)
          /\ UNCHANGED <<serverVars, faults>>
       \/ /\ secretsSeen["orgkey"] = None
          /\ GetOrganization(org)
          /\ \E key \in KeyIds :
                /\ CreateOrganizationAPIKey(key, org)
                /\ \/ Client(key, "orgkey") /\ UNCHANGED faults
                   \/ Fault /\ GiveUp
       \/ /\ secretsSeen["orgkey"] = None
          /\ Fails(~GetOrganization(org))
          /\ GiveUp
          /\ UNCHANGED serverVars

\* The minted key is cached in a Secret; one that exists already stays.
CacheOrgKey ==
    /\ AtProject("orgkey")
    /\ \/ /\ IF secrets["orgkey"] = None
             THEN SetSecret("orgkey", client.auth)
             ELSE UNCHANGED <<secretVars, faults>>
          /\ Continue(Authorized)
          /\ UNCHANGED <<held, client>>
       \/ Fault /\ GiveUp
    /\ UNCHANGED serverVars

\* syncProject: any error of the read leads to the search by name, which fails when
\* the key is not accepted.
SyncProject ==
    /\ AtProject("project")
    /\ \/ /\ GetProject(client.auth, Project.id)
          /\ Continue("keys")
          /\ UNCHANGED <<held, client, secretVars, faults>>
       \/ /\ Fails(~GetProject(client.auth, Project.id))
          /\ Accepted(client.auth)
          /\ \/ /\ \E p \in ListProjects(client.auth) :
                      held' = [held EXCEPT !["project"].id = p]
                /\ Continue("keys")
             \/ /\ ListProjects(client.auth) = {}
                /\ Continue("create")
                /\ UNCHANGED held
          /\ UNCHANGED <<client, secretVars>>
       \/ /\ ~GetProject(client.auth, Project.id)
          /\ Fails(~Accepted(client.auth))
          /\ ProjectFails
    /\ UNCHANGED serverVars

MakeProject ==
    /\ AtProject("create")
    /\ \/ \E p \in ProjectIds :
             /\ Accepted(client.auth)
             /\ CreateProject(client.auth, p)
             /\ \/ /\ held' = [held EXCEPT !["project"].id = p]
                   /\ Continue("keys")
                   /\ UNCHANGED <<client, secretVars, faults>>
                \/ Fault /\ ProjectFails
       \/ /\ Fails(~Accepted(client.auth))
          /\ ProjectFails
          /\ UNCHANGED serverVars

\* Mutation: a Secret that exists is taken to hold a valid key.
TrustsSecret(key) == key # None

\* The key that a Secret holds is one of the project's.
Valid(key) == key # None /\ key \in ListAPIKeys(Project.id)

\* syncAPIKeys: a Secret whose key is still valid is left alone; any other is deleted
\* before a key is made for it.
CheckKey ==
    /\ AtProject("keys")
    /\ \/ /\ GetProject(client.auth, Project.id)
          /\ Valid(secretsSeen["apikey"])
          /\ Continue("status")
          /\ UNCHANGED <<held, client, secretVars, faults>>
       \/ /\ GetProject(client.auth, Project.id)
          /\ ~Valid(secretsSeen["apikey"])
          /\ IF secretsSeen["apikey"] = None
             THEN UNCHANGED <<secretVars, faults>>
             ELSE SetSecret("apikey", None)
          /\ Continue("mint")
          /\ UNCHANGED <<held, client>>
       \/ /\ Fails(~GetProject(client.auth, Project.id))
          /\ ProjectFails
    /\ UNCHANGED serverVars

MintKey ==
    /\ AtProject("mint")
    /\ \/ \E key \in KeyIds :
             /\ GetProject(client.auth, Project.id)
             /\ CreateAPIKey(key, Project.id)
             /\ \/ /\ client' = [client EXCEPT !.minted = key]
                   /\ Continue("store")
                   /\ UNCHANGED <<held, secretVars, faults>>
                \/ Fault /\ ProjectFails
       \/ /\ Fails(~GetProject(client.auth, Project.id))
          /\ ProjectFails
          /\ UNCHANGED serverVars

\* The Secret is created with the new key; one that exists already stays, and the
\* key that was made for it is held by nobody.
StoreKey ==
    /\ AtProject("store")
    /\ \/ /\ IF secrets["apikey"] = None
             THEN SetSecret("apikey", client.minted)
             ELSE UNCHANGED <<secretVars, faults>>
          /\ Continue("status")
          /\ UNCHANGED <<held, client>>
       \/ Fault /\ ProjectFails
    /\ UNCHANGED serverVars

\* Mutation: the Secret goes before its key is revoked.
SecretFirst ==
    /\ AtProject("revoke")
    /\ SetSecret("apikey", None)
    /\ Continue("secret")
    /\ UNCHANGED <<serverVars, held, client>>

\* revokeAPIKeys: of the keys that Langfuse lists, the one in the Secret is revoked;
\* errors are logged.
RevokeKey ==
    /\ AtProject("revoke")
    /\ \/ /\ GetProject(client.auth, Project.id)
          /\ Valid(secretsSeen["apikey"])
          /\ DeleteAPIKey(secretsSeen["apikey"])
          /\ UNCHANGED faults
       \/ /\ ~(GetProject(client.auth, Project.id) /\ Valid(secretsSeen["apikey"]))
          /\ UNCHANGED <<serverVars, faults>>
       \/ Fault /\ UNCHANGED serverVars
    /\ Continue(IF Project.purge THEN "purge" ELSE "secret")
    /\ UNCHANGED <<held, client, secretVars>>

\* The annotation delete-on-remove: the project goes too, best effort.
PurgeProject ==
    /\ AtProject("purge")
    /\ \/ /\ GetProject(client.auth, Project.id)
          /\ DeleteProject(Project.id)
          /\ UNCHANGED faults
       \/ /\ Fails(~GetProject(client.auth, Project.id))
          /\ UNCHANGED serverVars
    /\ Continue("secret")
    /\ UNCHANGED <<held, client, secretVars>>

\* The project's Secret is deleted, best effort.
DeleteSecret ==
    /\ AtProject("secret")
    /\ \/ /\ IF secretsSeen["apikey"] = None
             THEN UNCHANGED <<secretVars, faults>>
             ELSE SetSecret("apikey", None)
       \/ /\ secretsSeen["apikey"] # None
          /\ Fault
          /\ UNCHANGED secretVars
    /\ Continue("release")
    /\ UNCHANGED <<serverVars, held, client>>

ProjectController ==
    \/ Get("project")
    \/ AddFinalizer("project")
    \/ ResolveProjectFails
    \/ EnsureClient
    \/ CacheOrgKey
    \/ SyncProject
    \/ MakeProject
    \/ CheckKey
    \/ MintKey
    \/ StoreKey
    \/ Synced("project")
    \/ RevokeKey
    \/ PurgeProject
    \/ DeleteSecret
    \/ RemoveFinalizer("project")

-----------------------------------------------------------------------------
(* Watches, the garbage collector, the users and the process               *)

Watch(k) ==
    /\ "seen" \notin current[k]
    /\ seen' = [seen EXCEPT ![k] = obj[k]]
    /\ current' = [current EXCEPT ![k] = @ \cup {"seen"}]
    /\ UNCHANGED <<serverVars, obj, held, place, secretVars, client, up, faults>>

WatchSecrets ==
    /\ secretsSeen # secrets
    /\ secretsSeen' = secrets
    /\ UNCHANGED <<serverVars, objectVars, secrets, lags, client, up, faults>>

\* A Secret goes with the object that owns it.
CollectGarbage ==
    /\ \E name \in {"orgkey", "apikey"} :
          /\ secrets[name] # None
          /\ obj[IF name = "orgkey" THEN "organization" ELSE "project"] = Gone
          /\ secrets' = [secrets EXCEPT ![name] = None]
    /\ UNCHANGED <<serverVars, objectVars, secretsSeen, lags, client, up, faults>>

\* The objects as the user creates them.
NewObject ==
    [name |-> CHOOSE name \in Names : TRUE, purge |-> FALSE, deleting |-> FALSE,
     finalizer |-> FALSE, ready |-> FALSE, id |-> None]

\* The user creates the project, whatever has become of the organization.
Create ==
    /\ obj["project"] = Unused
    /\ Store("project", NewObject, {})
    /\ UNCHANGED <<serverVars, seen, held, place, secretVars, client, up, faults>>

\* The user deletes an object, with or without the annotation delete-on-remove: it
\* goes at once unless a finalizer holds it.
Delete(k) ==
    /\ Wants(k)
    /\ IF obj[k].finalizer
       THEN \E purge \in {FALSE, k = "project"} :
               Store(k, [obj[k] EXCEPT !.deleting = TRUE, !.purge = purge], {})
       ELSE Store(k, Gone, {})
    /\ UNCHANGED <<serverVars, seen, held, place, secretVars, client, up, faults>>

\* The user gives the organization another name.
Rename ==
    /\ obj["organization"] \notin Absent
    /\ Fault
    /\ \E name \in Names \ {obj["organization"].name} :
          Store("organization", [obj["organization"] EXCEPT !.name = name], {})
    /\ UNCHANGED <<serverVars, seen, held, place, secretVars, client, up>>

\* Somebody works in Langfuse: deletes an organization or a project, revokes a key,
\* changes a membership.
Outside ==
    /\ Fault
    /\ \/ \E o \in OrgIds : GetOrganization(o) /\ DeleteOrganization(o)
       \/ \E p \in ProjectIds : projects[p] \notin Absent /\ DeleteProject(p)
       \/ \E k \in KeyIds : keys[k] \notin Absent /\ DeleteAPIKey(k)
       \/ \E o \in OrgIds, e \in Emails, role \in Roles \cup {None} :
             /\ GetOrganization(o)
             /\ orgs[o].members[e] # role
             /\ SetOrgMembers(o, [orgs[o].members EXCEPT ![e] = role])
    /\ UNCHANGED <<objectVars, secretVars, client, up>>

\* The LangfuseInstance stops being ready, and becomes ready again.
FlipInstance ==
    /\ up' = ~up
    /\ IF up THEN Fault ELSE UNCHANGED faults
    /\ UNCHANGED <<serverVars, objectVars, secretVars, client>>

\* The operator dies and another process takes over with new caches.
Restart ==
    /\ Fault
    /\ place' = [k \in Kinds |-> "idle"]
    /\ held' = [k \in Kinds |-> None]
    /\ client' = NoClient
    /\ seen' = obj
    /\ current' = [k \in Kinds |-> {"seen"}]
    /\ secretsSeen' = secrets
    /\ UNCHANGED <<serverVars, obj, secrets, lags, up>>

\* The organization has been created; the project has not.
Init ==
    /\ ServerInit
    /\ obj = [k \in Kinds |-> IF k = "organization" THEN NewObject ELSE Unused]
    /\ seen = obj
    /\ held = [k \in Kinds |-> None]
    /\ current = [k \in Kinds |-> {"seen"}]
    /\ place = [k \in Kinds |-> "idle"]
    /\ client = NoClient
    /\ secrets = [name \in {"orgkey", "apikey"} |-> None]
    /\ secretsSeen = secrets
    /\ lags = 0
    /\ up = TRUE
    /\ faults = 0

Next ==
    \/ OrganizationController
    \/ ProjectController
    \/ \E k \in Kinds : Watch(k) \/ Delete(k)
    \/ WatchSecrets
    \/ CollectGarbage
    \/ Create
    \/ Rename
    \/ Outside
    \/ FlipInstance
    \/ Restart

Spec == Init /\ [][Next]_vars

\* The work queues serve, the watches deliver and the garbage is collected.
FairSpec ==
    /\ Spec
    /\ WF_vars(OrganizationController)
    /\ WF_vars(ProjectController)
    /\ \A k \in Kinds : WF_vars(Watch(k))
    /\ WF_vars(WatchSecrets)
    /\ WF_vars(CollectGarbage)

-----------------------------------------------------------------------------

Objects == [name : Names, purge : BOOLEAN, deleting : BOOLEAN, finalizer : BOOLEAN,
            ready : BOOLEAN, id : OrgIds \cup ProjectIds \cup {None}]
Places == {"idle", "resolve", "create", "members", "status",
           "delete", "cleanup", "release", "orgkey", "project", "keys", "mint",
           "store", "revoke", "purge", "secret"}
KeyRefs == KeyIds \cup {None}
Identified(o) == o \notin Absent \cup {None} /\ o.ready => o.id # None

\* Every variable has its type, only a running pass holds a copy, and a cache that
\* counts as current shows the object itself.  What Reconcile reports ready has the
\* identifier that syncOrganization or syncProject found.
TypeOK ==
    /\ ServerTypeOK
    /\ obj \in [Kinds -> Objects \cup Absent]
    /\ seen \in [Kinds -> Objects \cup Absent]
    /\ held \in [Kinds -> Objects \cup {None}]
    /\ current \in [Kinds -> SUBSET {"seen", "held"}]
    /\ place \in [Kinds -> Places]
    /\ \A k \in Kinds : (place[k] = "idle") <=> (held[k] = None)
    /\ \A k \in Kinds : "seen" \in current[k] => seen[k] = obj[k]
    /\ \A k \in Kinds : Identified(obj[k]) /\ Identified(seen[k]) /\ Identified(held[k])
    /\ client \in [auth : KeyRefs, minted : KeyRefs]
    /\ secrets \in [{"orgkey", "apikey"} -> KeyRefs]
    /\ secretsSeen \in [{"orgkey", "apikey"} -> KeyRefs]
    /\ up \in BOOLEAN
    /\ faults \in Nat /\ lags \in Nat /\ faults + lags <= MaxFaults

-----------------------------------------------------------------------------
(* What the proofs assume of the constants, and carry along                *)

ASSUME ValuesAssumption ==
    /\ Names # {}
    /\ None \notin OrgIds \cup ProjectIds \cup KeyIds
    /\ None \notin Objects /\ Gone \notin Objects /\ Unused \notin Objects
    /\ Unused # Gone
    /\ Unused \notin OrgIds \cup Scopes \cup Organizations
    /\ Gone \notin OrgIds \cup Scopes \cup Organizations

\* The identifiers that Langfuse hands out for an object of a kind.
IdsOf(k) == IF k = "organization" THEN OrgIds ELSE ProjectIds

IdsMatch ==
    \A k \in Kinds :
        /\ obj[k] \notin Absent => obj[k].id \in IdsOf(k) \cup {None}
        /\ seen[k] \notin Absent => seen[k].id \in IdsOf(k) \cup {None}
        /\ held[k] # None => held[k].id \in IdsOf(k) \cup {None}

\* The project controller acts with keys of an organization, as long as they are valid.
OrgCredential(key) ==
    key # None => keys[key] = Gone \/ keys[key] \in {"organization"} \X OrgIds

CredentialsMatch ==
    /\ OrgCredential(client.auth)
    /\ OrgCredential(secrets["orgkey"])
    /\ OrgCredential(secretsSeen["orgkey"])

\* A copy that counts as current differs from the object in the identifier that the pass
\* has found, if in anything; and an object that the cache has seen go is gone.
CopiesAreHonest ==
    \A k \in Kinds :
        /\ seen[k] = Gone => obj[k] = Gone
        /\ "held" \in current[k] =>
              /\ obj[k] \notin Absent /\ held[k] # None
              /\ held[k] = [obj[k] EXCEPT !.id = held[k].id]
              /\ k = "organization" /\ place[k] \notin {"members", "status"} =>
                    held[k].id = obj[k].id

\* What the search of a pass has found stays true until the pass acts on it, because
\* nobody else creates or renames an organization or a project.
OrgSearchStands ==
    /\ place["organization"] = "create" => ListOrganizations(Org.name) = {}
    /\ place["organization"] \in {"members", "status"} =>
          /\ Org.id \in OrgIds /\ orgs[Org.id] # Unused
          /\ orgs[Org.id] # Gone => orgs[Org.id].name = Org.name

ProjectSearchStands ==
    /\ place["project"] = "create" /\ Accepted(client.auth) => ListProjects(client.auth) = {}
    /\ place["project"] \in {"keys", "mint", "store", "status"} => Project.id # None

-----------------------------------------------------------------------------
(* Properties                                                              *)

\* "Search for the organization by name ... Organization not found. Create it."
\* (syncOrganization, syncProject): whatever answers were lost and passes repeated,
\* nothing is created next to one that has its name.
CreatesNoTwin ==
    [][/\ \A o \in OrgIds : orgs[o] = Unused /\ orgs'[o] # Unused
                               => ListOrganizations(orgs'[o].name) = {}
       /\ \A p \in ProjectIds : projects[p] = Unused /\ projects'[p] # Unused
                               => \A q \in ProjectIds : projects[q] # projects'[p]]_vars

\* The organization on record is given up only for another one that was found or made,
\* never for none; and, as long as it is the only one with the object's name, only if that
\* other one had the name and was deleted since.  Whatever calls fail, "search by name"
\* leads back to it.
KeepsItsOrganization ==
    [][\A o \in OrgIds :
          ( /\ Wants("organization")
            /\ obj["organization"].id = o
            /\ obj'["organization"] \notin Absent
            /\ obj'["organization"].id # o )
          => /\ obj'["organization"].id \in OrgIds
             /\ \/ orgs[obj'["organization"].id] = Gone
                \/ ListOrganizations(obj'["organization"].name) # {o}]_vars

\* What makes TypeOK inductive, and the two action properties follow from.
IInv ==
    /\ TypeOK
    /\ IdsMatch
    /\ CredentialsMatch
    /\ CopiesAreHonest
    /\ OrgSearchStands
    /\ ProjectSearchStands

\* No call has failed and nobody has asked for the deletion of the organization.
Undisturbed == faults = 0 /\ Wants("organization")

\* "Revoke API keys (best effort)": a deletion of a project whose organization stays leaves
\* no key of it behind, a pass that begins before the cache knows the project's Secret aside.
\* Such a pass (syncAPIKeys, revokeAPIKeys) makes a key next to the one in the Secret, or
\* does not find the key that it is to revoke: each leaves one key at most.
CleanUpRevokesKeys ==
    ( /\ Undisturbed
      /\ place["project"] \in {"secret", "release"}
      /\ Project.id # None )
    => Cardinality(ListAPIKeys(Project.id)) <= lags

-----------------------------------------------------------------------------
(* What CleanUpRevokesKeys rests on                                        *)

\* A later version of an object keeps the finalizer and the request to delete it, and a
\* project that is being deleted keeps its identifier; it goes when it may.
Follows(k, new, old) ==
    IF new = Gone
    THEN old.deleting \/ ~old.finalizer
    ELSE /\ new # Unused
         /\ old.finalizer => new.finalizer
         /\ old.deleting => new.deleting /\ (k = "project" => new.id = old.id)

\* No pass has begun over the object.
Unclaimed(o) == o = Unused \/ (o # Gone /\ ~o.finalizer)

DeletionPlaces == {"delete", "cleanup", "revoke", "purge", "secret", "release"}

\* Copies are earlier versions, and a pass that deletes holds a copy that says so.
CopiesAreEarlier ==
    \A k \in Kinds :
        /\ obj[k] \notin Absent => (obj[k].deleting => obj[k].finalizer)
        /\ seen[k] \notin Absent => Follows(k, obj[k], seen[k])
        /\ held[k] # None =>
              /\ held[k].finalizer
              /\ Follows(k, obj[k], held[k])
              /\ held[k].deleting => Follows(k, seen[k], held[k])
              /\ place[k] \in DeletionPlaces => held[k].deleting
              /\ place[k] \notin DeletionPlaces \cup {"orgkey"} => ~held[k].deleting

PassHasKey ==
    place["project"] \in {"orgkey", "project", "create", "keys", "mint", "store", "revoke",
                          "purge"}
       => client.auth # None

\* The project's Secret is made by passes over a project that has the finalizer.
NoSecretBefore ==
    Unclaimed(obj["project"]) => secrets["apikey"] = None /\ secretsSeen["apikey"] = None

\* An organization whose object stays: there is one of it, every copy that has an identifier
\* has that one, and once it is reported ready it stays so.
OrgCopyStands(c) ==
    /\ c.name = obj["organization"].name
    /\ c.id # None => GetOrganization(c.id)

OrganizationStands ==
    /\ up /\ seen["organization"] \notin Absent
    /\ \A o, q \in OrgIds : GetOrganization(o) /\ GetOrganization(q) => o = q
    /\ \A o \in OrgIds : GetOrganization(o) => orgs[o].name = obj["organization"].name
    /\ OrgCopyStands(obj["organization"]) /\ OrgCopyStands(seen["organization"])
    /\ held["organization"] # None => OrgCopyStands(Org)
    /\ obj["organization"].ready => obj["organization"].id # None
    /\ seen["organization"].ready => seen["organization"].id # None /\ obj["organization"].ready

\* Only one project is ever made, and what belongs to it and to the organization goes no
\* later than they do.
BelongingsStand ==
    /\ \A p \in ProjectIds : projects[p] \notin Absent => GetOrganization(projects[p])
    /\ \A p, q \in ProjectIds : projects[p] # Unused /\ projects[q] # Unused => p = q
    /\ \A key \in KeyIds, p \in ProjectIds :
          keys[key] = <<"project", p>> => projects[p] \notin Absent
    /\ \A key \in KeyIds, o \in OrgIds :
          keys[key] = <<"organization", o>> => GetOrganization(o)

CredentialsStand ==
    /\ \A key \in {client.auth, secrets["orgkey"], secretsSeen["orgkey"]} :
          key # None => Accepted(key)
    /\ client.auth # None => seen["organization"].ready

\* A project on record was made, and its organization is ready for whoever asks; the project
\* goes in the course of a deletion only.
ProjectCopyStands(c) ==
    /\ c.id # None => projects[c.id] # Unused /\ seen["organization"].ready
    /\ ~c.deleting => \A p \in ProjectIds : projects[p] # Gone

ProjectStands ==
    /\ obj["project"] \notin Absent /\ obj["project"].id # None =>
          projects[obj["project"].id] # Unused /\ seen["organization"].ready
    /\ seen["project"] = Unused => \A p \in ProjectIds : projects[p] # Gone
    /\ seen["project"] \notin Absent => ProjectCopyStands(seen["project"])
    /\ held["project"] # None => ProjectCopyStands(Project)

\* A deletion that nobody recorded a project for before it was asked for: what was made for
\* the object is never looked for again.
Nameless(c) == c.deleting /\ c.id = None
Forgotten ==
    /\ obj["project"] # Gone => obj["project"] # Unused /\ Nameless(obj["project"])
    /\ seen["project"] # Gone => seen["project"] # Unused /\ Nameless(seen["project"])
    /\ held["project"] # None => Nameless(Project)

ProjectKeys == {key \in KeyIds : \E p \in ProjectIds : keys[key] = <<"project", p>>}

\* The key that is in the Secret or on the way there; none once it is revoked.
KeptKeys ==
    IF obj["project"] = Gone \/ place["project"] \in {"purge", "secret", "release"}
    THEN {}
    ELSE IF place["project"] = "store" /\ secrets["apikey"] = None
         THEN {client.minted}
         ELSE {secrets["apikey"]}

Orphans == ProjectKeys \ KeptKeys

\* A pass is about to leave a key behind: it does not know the Secret as it is, or makes a
\* key for one that exists.
Misled ==
    /\ obj["project"] # Gone
    /\ \/ /\ place["project"] \in {"resolve", "project", "create", "keys", "delete",
                                   "orgkey", "revoke"}
          /\ secretsSeen["apikey"] # secrets["apikey"]
       \/ place["project"] = "mint" /\ secrets["apikey"] # None

\* Each key that nobody holds is the work of a pass that began with a lagging cache.
OrphansAreCounted ==
    \/ Forgotten
    \/ Cardinality(Orphans) + (IF Misled THEN 1 ELSE 0) <= lags

\* What an undisturbed run keeps.
Standing ==
    /\ OrganizationStands /\ BelongingsStand /\ CredentialsStand /\ PassHasKey
    /\ NoSecretBefore /\ ProjectStands /\ OrphansAreCounted

RevocationInv == CopiesAreEarlier /\ (Undisturbed => Standing)

-----------------------------------------------------------------------------

\* The organization comes to be what its object says: it exists under the name of the
\* spec, with the members of the spec, and is reported ready.
OrganizationSettles ==
    <>[](up /\ Wants("organization"))
        => <>[](/\ Wants("organization") /\ obj["organization"].ready
                /\ GetOrganization(obj["organization"].id)
                /\ orgs[obj["organization"].id].name = obj["organization"].name
                /\ \A e \in Emails :
                      Desired[e] # None \/ Exclusive
                        => orgs[obj["organization"].id].members[e] = Desired[e])

\* The cached organization key, if there is one, is a key of the organization.
OrgKeyUsable ==
    \/ secrets["orgkey"] = None
    \/ keys[secrets["orgkey"]] = <<"organization", obj["organization"].id>>

\* The project comes to exist in its organization, with a Secret that holds a valid
\* key of it ("API key in Secret is no longer valid in Langfuse, recreating"), as long
\* as the cached organization key is usable: ensureProjectClient never replaces it.
ProjectSettles ==
    <>[](up /\ Wants("organization") /\ Wants("project") /\ OrgKeyUsable)
        => <>[](/\ Wants("organization")
                /\ Wants("project") /\ obj["project"].ready /\ obj["project"].id # None
                /\ projects[obj["project"].id] = obj["organization"].id
                /\ secrets["apikey"] \in ListAPIKeys(obj["project"].id))

\* A deletion is carried out whatever fails, since an object that is being deleted can only
\* go: the project's is not pending for ever, and the organization's is not for ever pending
\* without a project, which may be one that was created since, to block it.
DeletionCompletes ==
    /\ []<>~Deleting("project")
    /\ []<>~(Deleting("organization") /\ obj["project"] \in Absent)

\* handleDeletion counts the dependents once: a project that is created, or that the cache
\* learns of, between the count and the end of the organization loses it.  Such a project is
\* not reported ready for ever: resolveOrganization fails in the end, and the report lands.
OrphanedProjectIsReported ==
    <>[](obj["organization"] = Gone) => <>[](Wants("project") => ~obj["project"].ready)

\* "On deletion: 1. Revokes all API keys via the Admin API"
\* (docs/reference/langfuseproject.md): a project that is on record leaves no key.
DeletionRevokesKeys ==
    [][( /\ obj["project"] \notin Absent
         /\ obj'["project"] = Gone
         /\ obj["project"].id # None )
       => {k \in KeyIds : keys'[k] = <<"project", obj["project"].id>>} = {}]_vars
=============================================================================
