--------------------------- MODULE LangfuseServer ---------------------------
(***************************************************************************)
(* What the operator's Langfuse client (internal/langfuse/client.go) can   *)
(* observe of the server: organizations with their members, projects and   *)
(* API keys.  One operator per call.  An identifier is never handed out    *)
(* twice, and what belongs to a deleted thing goes with it.                *)
(*                                                                         *)
(* An organization-scoped key is the credential of the public API: a call  *)
(* made with it sees the projects of its organization only, and fails once *)
(* the key is gone.                                                        *)
(***************************************************************************)
EXTENDS Naturals

CONSTANTS
    Names,      \* the names an organization may have
    Emails,     \* the people who may be members
    Roles,      \* the roles they may have
    MaxOrgs, MaxProjects, MaxKeys,  \* bounds on the identifiers handed out
    None,       \* no identifier, no role
    Unused,     \* an identifier that was never handed out
    Gone        \* a deleted thing

VARIABLES
    orgs,       \* the organizations: name and members
    projects,   \* the projects: the organization of each
    keys        \* the API keys: what each is scoped to

serverVars == <<orgs, projects, keys>>

OrgIds == 1..MaxOrgs
ProjectIds == 1..MaxProjects
KeyIds == 1..MaxKeys

Memberships == [Emails -> Roles \cup {None}]
Organizations == [name : Names, members : Memberships]
Scopes == ({"organization"} \X OrgIds) \cup ({"project"} \X ProjectIds)

Absent == {Unused, Gone}

\* The identifier that the next creation hands out, unless the bound is reached.
Fresh(things) ==
    {i \in DOMAIN things : things[i] = Unused /\ \A j \in 1..(i - 1) : things[j] # Unused}

-----------------------------------------------------------------------------
(* The admin API                                                           *)

GetOrganization(id) == id # None /\ orgs[id] \notin Absent

\* ListOrganizations, searched by name.
ListOrganizations(name) == {o \in OrgIds : orgs[o] \notin Absent /\ orgs[o].name = name}

CreateOrganization(id, name) ==
    /\ id \in Fresh(orgs)
    /\ orgs' = [orgs EXCEPT ![id] = [name |-> name, members |-> [e \in Emails |-> None]]]
    /\ UNCHANGED <<projects, keys>>

UpdateOrganization(id, name) ==
    /\ orgs' = [orgs EXCEPT ![id].name = name]
    /\ UNCHANGED <<projects, keys>>

\* The keys that are left once some organizations and projects are deleted.
KeysWithout(orgIds, projectIds) ==
    [k \in KeyIds |->
        IF keys[k] \notin Absent /\ ( \/ keys[k][1] = "organization" /\ keys[k][2] \in orgIds
                                      \/ keys[k][1] = "project" /\ keys[k][2] \in projectIds )
        THEN Gone ELSE keys[k]]

DeleteOrganization(id) ==
    /\ orgs' = [orgs EXCEPT ![id] = Gone]
    /\ projects' = [p \in ProjectIds |-> IF projects[p] = id THEN Gone ELSE projects[p]]
    /\ keys' = KeysWithout({id}, {p \in ProjectIds : projects[p] = id})

\* ListOrgMembers; AddOrgMember, UpdateOrgMemberRole and RemoveOrgMember.
ListOrgMembers(id) == orgs[id].members
SetOrgMembers(id, members) ==
    /\ orgs' = [orgs EXCEPT ![id].members = members]
    /\ UNCHANGED <<projects, keys>>

\* A new key of the given scope; its secret half is in the answer only.
CreateKey(key, scope) ==
    /\ key \in Fresh(keys)
    /\ keys' = [keys EXCEPT ![key] = scope]
    /\ UNCHANGED <<orgs, projects>>

CreateOrganizationAPIKey(key, id) == CreateKey(key, <<"organization", id>>)

-----------------------------------------------------------------------------
(* The public API, called with the organization-scoped key auth            *)

Accepted(auth) == auth # None /\ keys[auth] \notin Absent
ScopeOf(auth) == keys[auth][2]

GetProject(auth, id) == Accepted(auth) /\ id # None /\ projects[id] = ScopeOf(auth)

\* ListProjects, searched by name: the model has one name of a project.
ListProjects(auth) == {p \in ProjectIds : projects[p] = ScopeOf(auth)}

CreateProject(auth, id) ==
    /\ id \in Fresh(projects)
    /\ projects' = [projects EXCEPT ![id] = ScopeOf(auth)]
    /\ UNCHANGED <<orgs, keys>>

DeleteProject(id) ==
    /\ projects' = [projects EXCEPT ![id] = Gone]
    /\ keys' = KeysWithout({}, {id})
    /\ UNCHANGED orgs

ListAPIKeys(id) == {k \in KeyIds : keys[k] = <<"project", id>>}
CreateAPIKey(key, id) == CreateKey(key, <<"project", id>>)
DeleteAPIKey(key) ==
    /\ keys' = [keys EXCEPT ![key] = Gone]
    /\ UNCHANGED <<orgs, projects>>

-----------------------------------------------------------------------------

ServerInit ==
    /\ orgs = [o \in OrgIds |-> Unused]
    /\ projects = [p \in ProjectIds |-> Unused]
    /\ keys = [k \in KeyIds |-> Unused]

ServerTypeOK ==
    /\ orgs \in [OrgIds -> Organizations \cup Absent]
    /\ projects \in [ProjectIds -> OrgIds \cup Absent]
    /\ keys \in [KeyIds -> Scopes \cup Absent]
=============================================================================
