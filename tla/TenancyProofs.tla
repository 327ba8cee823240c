--------------------------- MODULE TenancyProofs ---------------------------
(***************************************************************************)
(* What the organization and project controllers keep true of their        *)
(* objects and of Langfuse, proved for every number of organizations,      *)
(* projects, keys and disturbances: what is reported ready has an          *)
(* identifier, nothing is created twice, and the organization on record is *)
(* not exchanged.                                                          *)
(***************************************************************************)
EXTENDS Tenancy, TLAPS

-----------------------------------------------------------------------------
(* What may happen at Langfuse                                             *)

\* A key, once made, stays what it is until it goes.
KeysAge == \A k \in KeyIds : keys[k] # Unused => keys'[k] \in {keys[k], Gone}

\* Projects go, and do not come.
ProjectsGo == \A p \in ProjectIds : projects'[p] = projects[p] \/
                                    (projects[p] # Unused /\ projects'[p] = Gone)

\* Organizations go or get other members, and neither come nor change their names.
OrgsGo ==
    \A o \in OrgIds :
        \/ orgs'[o] = orgs[o]
        \/ /\ orgs[o] \notin Absent
           /\ orgs'[o] = Gone \/ (orgs'[o] \in Organizations /\ orgs'[o].name = orgs[o].name)

LEMMA ServerRests ==
    ASSUME ServerTypeOK, UNCHANGED serverVars
    PROVE  ServerTypeOK' /\ KeysAge /\ ProjectsGo /\ OrgsGo
  BY DEF ServerTypeOK, serverVars, KeysAge, ProjectsGo, OrgsGo

LEMMA CreateOrganizationStep ==
    ASSUME ServerTypeOK, NEW o \in OrgIds, NEW name \in Names, CreateOrganization(o, name)
    PROVE  /\ ServerTypeOK' /\ KeysAge /\ ProjectsGo
           /\ orgs'[o].name = name /\ orgs'[o] \in Organizations
           /\ \A p \in OrgIds \ {o} : orgs'[p] = orgs[p]
  BY DEF ServerTypeOK, CreateOrganization, Organizations, Memberships, KeysAge, ProjectsGo

LEMMA UpdateOrganizationStep ==
    ASSUME ServerTypeOK, NEW o \in OrgIds, NEW name \in Names, orgs[o] \notin Absent,
           UpdateOrganization(o, name)
    PROVE  /\ ServerTypeOK' /\ KeysAge /\ ProjectsGo
           /\ orgs'[o].name = name /\ orgs'[o] \in Organizations
           /\ \A p \in OrgIds \ {o} : orgs'[p] = orgs[p]
  <1>1. orgs[o] \in Organizations
    BY DEF ServerTypeOK
  <1>2. orgs' = [orgs EXCEPT ![o] = [orgs[o] EXCEPT !.name = name]]
    BY DEF UpdateOrganization
  <1>3. /\ [orgs[o] EXCEPT !.name = name] \in Organizations
        /\ [orgs[o] EXCEPT !.name = name].name = name
    BY <1>1 DEF Organizations
  <1> QED
    BY <1>2, <1>3 DEF ServerTypeOK, UpdateOrganization, KeysAge, ProjectsGo

LEMMA SetOrgMembersStep ==
    ASSUME ServerTypeOK, NEW o \in OrgIds, NEW members \in Memberships, orgs[o] \notin Absent,
           SetOrgMembers(o, members)
    PROVE  ServerTypeOK' /\ KeysAge /\ ProjectsGo /\ OrgsGo
  <1>1. orgs[o] \in Organizations
    BY DEF ServerTypeOK
  <1>2. orgs' = [orgs EXCEPT ![o] = [orgs[o] EXCEPT !.members = members]]
    BY DEF SetOrgMembers
  <1>3. /\ [orgs[o] EXCEPT !.members = members] \in Organizations
        /\ [orgs[o] EXCEPT !.members = members].name = orgs[o].name
    BY <1>1 DEF Organizations
  <1> QED
    BY <1>1, <1>2, <1>3 DEF ServerTypeOK, SetOrgMembers, KeysAge, ProjectsGo, OrgsGo

LEMMA DeleteOrganizationStep ==
    ASSUME ServerTypeOK, NEW o \in OrgIds, orgs[o] \notin Absent, DeleteOrganization(o)
    PROVE  ServerTypeOK' /\ KeysAge /\ ProjectsGo /\ OrgsGo
  BY ValuesAssumption DEF ServerTypeOK, DeleteOrganization, KeysWithout, Absent, KeysAge,
                          ProjectsGo, OrgsGo

LEMMA DeleteProjectStep ==
    ASSUME ServerTypeOK, NEW p \in ProjectIds, projects[p] # Unused, DeleteProject(p)
    PROVE  ServerTypeOK' /\ KeysAge /\ ProjectsGo /\ OrgsGo
  BY DEF ServerTypeOK, DeleteProject, KeysWithout, Absent, KeysAge, ProjectsGo, OrgsGo

LEMMA CreateProjectStep ==
    ASSUME ServerTypeOK, NEW p \in ProjectIds, NEW auth, ScopeOf(auth) \in OrgIds,
           CreateProject(auth, p)
    PROVE  /\ ServerTypeOK' /\ KeysAge /\ OrgsGo
           /\ projects'[p] = ScopeOf(auth)
           /\ \A q \in ProjectIds \ {p} : projects'[q] = projects[q]
  BY DEF ServerTypeOK, CreateProject, KeysAge, OrgsGo

LEMMA CreateKeyStep ==
    ASSUME ServerTypeOK, NEW key \in KeyIds, NEW scope \in Scopes, CreateKey(key, scope)
    PROVE  ServerTypeOK' /\ KeysAge /\ ProjectsGo /\ OrgsGo /\ keys'[key] = scope
  BY DEF ServerTypeOK, CreateKey, Fresh, KeysAge, ProjectsGo, OrgsGo

LEMMA DeleteKeyStep ==
    ASSUME ServerTypeOK, NEW key \in KeyIds, DeleteAPIKey(key)
    PROVE  ServerTypeOK' /\ KeysAge /\ ProjectsGo /\ OrgsGo
  BY DEF ServerTypeOK, DeleteAPIKey, Absent, KeysAge, ProjectsGo, OrgsGo

-----------------------------------------------------------------------------
(* Objects and copies                                                      *)

\* What TypeOK, IdsMatch and CopiesAreHonest say of one object: o at the API server, s in
\* the cache, h held by a pass that is at a place, c the copies that are current.
KindOK(k, o, s, h, c, at) ==
    /\ o \in Objects \cup Absent /\ s \in Objects \cup Absent /\ h \in Objects \cup {None}
    /\ Identified(o) /\ Identified(s) /\ Identified(h)
    /\ c \in SUBSET {"seen", "held"} /\ at \in Places
    /\ (at = "idle") <=> (h = None)
    /\ "seen" \in c => s = o
    /\ o \notin Absent => o.id \in IdsOf(k) \cup {None}
    /\ s \notin Absent => s.id \in IdsOf(k) \cup {None}
    /\ h # None => h.id \in IdsOf(k) \cup {None}
    /\ s = Gone => o = Gone
    /\ "held" \in c =>
          /\ o \notin Absent /\ h # None
          /\ h = [o EXCEPT !.id = h.id]
          /\ k = "organization" /\ at \notin {"members", "status"} => h.id = o.id

LEMMA ObjectsExist ==
    /\ \A o \in Objects : o \notin Absent /\ o # None
    /\ Gone \in Absent /\ Unused \in Absent /\ Identified(None)
    /\ \A o \in Absent : Identified(o)
  BY ValuesAssumption DEF Absent, Identified

IsMap(f) == f = [k \in Kinds |-> f[k]]

AllKindsOK ==
    \A k \in Kinds : KindOK(k, obj[k], seen[k], held[k], current[k], place[k])

ObjectsOK ==
    /\ IsMap(obj) /\ IsMap(seen) /\ IsMap(held)
    /\ IsMap(current) /\ IsMap(place)
    /\ AllKindsOK

\* The other kind's pass is not touched.
OthersWait(k) == \A j \in Kinds \ {k} : held'[j] = held[j] /\ place'[j] = place[j]

LEMMA OneKindMoves ==
    ASSUME ObjectsOK, NEW k \in Kinds,
           IsMap(obj'), IsMap(seen'), IsMap(held'),
           IsMap(current'), IsMap(place'),
           \A j \in Kinds \ {k} :
              /\ obj'[j] = obj[j] /\ seen'[j] = seen[j] /\ held'[j] = held[j]
              /\ current'[j] = current[j] /\ place'[j] = place[j],
           KindOK(k, obj'[k], seen'[k], held'[k], current'[k], place'[k])
    PROVE  ObjectsOK'
  <1>1. ASSUME NEW j \in Kinds
        PROVE  KindOK(j, obj'[j], seen'[j], held'[j], current'[j], place'[j])
    BY DEF ObjectsOK, IsMap, AllKindsOK
  <1> QED
    BY <1>1 DEF ObjectsOK, IsMap, AllKindsOK

\* A status write that ends a pass.
LEMMA ReportStep ==
    ASSUME ObjectsOK, NEW k \in Kinds, place[k] # "idle", NEW b \in BOOLEAN,
           b => held[k].id # None,
           Report(k, [held[k] EXCEPT !.ready = b])
    PROVE  /\ ObjectsOK' /\ OthersWait(k)
           /\ place'[k] = "idle"
           /\ client' = (IF k = "project" THEN NoClient ELSE client)
           /\ UNCHANGED <<secretVars, up>>
           /\ \A j \in Kinds : \/ obj'[j] = obj[j]
                               \/ j = k /\ "held" \in current[k]
                                  /\ obj'[k] = [held[k] EXCEPT !.ready = b]
  <1> DEFINE new == [held[k] EXCEPT !.ready = b]
  <1>0. KindOK(k, obj[k], seen[k], held[k], current[k], place[k])
    BY DEF ObjectsOK, IsMap, AllKindsOK
  <1>1. held[k] \in Objects
    BY <1>0 DEF KindOK
  <1>2. new \in Objects /\ new.id = held[k].id /\ Identified(new)
    BY <1>1 DEF Objects, Identified
  <1> HIDE DEF new
  <1>3. /\ place' = [place EXCEPT ![k] = "idle"] /\ held' = [held EXCEPT ![k] = None]
        /\ seen' = seen /\ UNCHANGED <<secretVars, up>>
        /\ client' = (IF k = "project" THEN NoClient ELSE client)
    BY DEF Report, Return
  <1>4. CASE Landed(k)
    <2>1. /\ obj' = [obj EXCEPT ![k] = new]
          /\ current' = [current EXCEPT ![k] = IF new = obj[k] THEN @ \ {"held"} ELSE {}]
      BY <1>4 DEF Report, Store, new
    <2>2. KindOK(k, obj'[k], seen'[k], held'[k], current'[k], place'[k])
      BY <1>0, <1>2, <1>3, <1>4, <2>1, ObjectsExist DEF ObjectsOK, IsMap, KindOK, Landed, Places
    <2>3. /\ IsMap(obj') /\ IsMap(seen') /\ IsMap(held')
          /\ IsMap(current') /\ IsMap(place')
      BY <1>3, <2>1 DEF ObjectsOK, IsMap
    <2>4. \A j \in Kinds \ {k} :
             /\ obj'[j] = obj[j] /\ seen'[j] = seen[j] /\ held'[j] = held[j]
             /\ current'[j] = current[j] /\ place'[j] = place[j]
      BY <1>3, <2>1 DEF ObjectsOK, IsMap
    <2>5. ObjectsOK'
      BY <2>2, <2>3, <2>4, OneKindMoves
    <2>6. place'[k] = "idle" /\ obj'[k] = new
      BY <1>3, <2>1 DEF ObjectsOK, IsMap
    <2>7. "held" \in current[k]
      BY <1>4 DEF Landed
    <2>8. OthersWait(k)
      BY <2>4 DEF OthersWait
    <2>9. \A j \in Kinds : \/ obj'[j] = obj[j]
                           \/ j = k /\ "held" \in current[k] /\ obj'[k] = new
      BY <2>4, <2>6, <2>7
    <2> QED
      BY <1>3, <2>5, <2>6, <2>8, <2>9 DEF new
  <1>5. CASE ~Landed(k)
    <2>1. obj' = obj /\ current' = [current EXCEPT ![k] = @ \ {"held"}]
      BY <1>5 DEF Report, Drop
    <2>2. KindOK(k, obj'[k], seen'[k], held'[k], current'[k], place'[k])
      BY <1>0, <1>3, <2>1, ObjectsExist DEF ObjectsOK, IsMap, KindOK, Places
    <2> QED
      BY <1>3, <2>1, <2>2, OneKindMoves DEF ObjectsOK, IsMap, OthersWait
  <1> QED
    BY <1>4, <1>5

\* A pass that ends without a write.
LEMMA GiveUpStep ==
    ASSUME ObjectsOK, NEW k \in Kinds, place[k] # "idle",
           Drop(k), Return(k), seen' = seen
    PROVE  /\ ObjectsOK' /\ OthersWait(k)
           /\ place'[k] = "idle" /\ obj' = obj
           /\ client' = (IF k = "project" THEN NoClient ELSE client)
  <1>0. KindOK(k, obj[k], seen[k], held[k], current[k], place[k])
    BY DEF ObjectsOK, IsMap, AllKindsOK
  <1>1. /\ place' = [place EXCEPT ![k] = "idle"] /\ held' = [held EXCEPT ![k] = None]
        /\ client' = (IF k = "project" THEN NoClient ELSE client)
        /\ obj' = obj /\ current' = [current EXCEPT ![k] = @ \ {"held"}]
    BY DEF Return, Drop
  <1>2. KindOK(k, obj'[k], seen'[k], held'[k], current'[k], place'[k])
    BY <1>0, <1>1, ObjectsExist DEF ObjectsOK, IsMap, KindOK, Places
  <1> QED
    BY <1>1, <1>2, OneKindMoves DEF ObjectsOK, IsMap, OthersWait

\* A pass that goes on with its copy as it is.
LEMMA GoStep ==
    ASSUME ObjectsOK, NEW k \in Kinds, place[k] # "idle", NEW where \in Places \ {"idle"},
           (k = "organization" /\ place[k] \in {"members", "status"})
              => where \in {"members", "status"},
           Go(k, where), UNCHANGED <<obj, seen, held, current>>
    PROVE  ObjectsOK' /\ OthersWait(k) /\ place'[k] = where
  <1>0. KindOK(k, obj[k], seen[k], held[k], current[k], place[k])
    BY DEF ObjectsOK, IsMap, AllKindsOK
  <1>1. place' = [place EXCEPT ![k] = where]
    BY DEF Go
  <1>2. KindOK(k, obj'[k], seen'[k], held'[k], current'[k], place'[k])
    BY <1>0, <1>1 DEF ObjectsOK, IsMap, KindOK
  <1> QED
    BY <1>1, <1>2, OneKindMoves DEF ObjectsOK, IsMap, OthersWait

\* A pass that has found an identifier.
LEMMA FoundStep ==
    ASSUME ObjectsOK, NEW k \in Kinds, place[k] # "idle", NEW where \in Places \ {"idle"},
           k = "organization" => where = "members",
           NEW id \in IdsOf(k), Found(k, id, where), UNCHANGED <<obj, seen, current>>
    PROVE  /\ ObjectsOK' /\ OthersWait(k) /\ place'[k] = where
           /\ held'[k].id = id /\ held'[k].name = held[k].name
  <1>0. KindOK(k, obj[k], seen[k], held[k], current[k], place[k])
    BY DEF ObjectsOK, IsMap, AllKindsOK
  <1> DEFINE new == [held[k] EXCEPT !.id = id]
  <1>1. place' = [place EXCEPT ![k] = where] /\ held' = [held EXCEPT ![k] = new]
    BY DEF Found, Go
  <1>2. id \in OrgIds \cup ProjectIds /\ held[k] \in Objects
    BY <1>0 DEF IdsOf, KindOK
  <1>3. new \in Objects /\ new.id = id /\ new.name = held[k].name
    BY <1>2 DEF Objects
  <1>4. obj[k] \in Objects /\ held[k] = [obj[k] EXCEPT !.id = held[k].id]
           => new = [obj[k] EXCEPT !.id = new.id]
    BY <1>2 DEF Objects
  <1>5. new # None /\ Identified(new)
    BY <1>2, <1>3, ValuesAssumption DEF Identified
  <1> HIDE DEF new
  <1>6. KindOK(k, obj'[k], seen'[k], held'[k], current'[k], place'[k])
    BY <1>0, <1>1, <1>3, <1>4, <1>5 DEF ObjectsOK, IsMap, KindOK
  <1> QED
    BY <1>1, <1>3, <1>6, OneKindMoves DEF ObjectsOK, IsMap, OthersWait

\* A pass begins with what the cache shows.
LEMMA GetStep ==
    ASSUME ObjectsOK, NEW k \in Kinds, Get(k)
    PROVE  /\ ObjectsOK' /\ OthersWait(k)
           /\ place[k] = "idle" /\ place'[k] \in {"delete", "resolve"} /\ obj' = obj
  <1>0. KindOK(k, obj[k], seen[k], held[k], current[k], place[k])
    BY DEF ObjectsOK, IsMap, AllKindsOK
  <1> DEFINE where == IF seen[k].deleting THEN "delete" ELSE "resolve"
  <1>1. /\ place[k] = "idle" /\ seen[k] \notin Absent
        /\ held' = [held EXCEPT ![k] = seen[k]]
        /\ current' = [current EXCEPT ![k] = IF "seen" \in @ THEN @ \cup {"held"} ELSE @]
        /\ place' = [place EXCEPT ![k] = where]
        /\ UNCHANGED <<obj, seen>>
    BY DEF Get, Go
  <1>2. seen[k] \in Objects /\ seen[k] # None /\ where \in {"delete", "resolve"}
    BY <1>0, <1>1, ObjectsExist DEF KindOK
  <1>3. seen[k] = [seen[k] EXCEPT !.id = seen[k].id]
    BY <1>2 DEF Objects
  <1> HIDE DEF where
  <1>4. KindOK(k, obj'[k], seen'[k], held'[k], current'[k], place'[k])
    BY <1>0, <1>1, <1>2, <1>3 DEF ObjectsOK, IsMap, KindOK, Places
  <1> QED
    BY <1>1, <1>2, <1>4, OneKindMoves DEF ObjectsOK, IsMap, OthersWait

LEMMA AddFinalizerStep ==
    ASSUME ObjectsOK, NEW k \in Kinds, AddFinalizer(k)
    PROVE  /\ ObjectsOK' /\ OthersWait(k)
           /\ place[k] = "idle" /\ place'[k] = "resolve"
           /\ \A j \in Kinds \ {k} : obj'[j] = obj[j]
           /\ obj[k] \notin Absent /\ obj'[k].id = obj[k].id
  <1>0. KindOK(k, obj[k], seen[k], held[k], current[k], place[k])
    BY DEF ObjectsOK, IsMap, AllKindsOK
  <1> DEFINE new == [seen[k] EXCEPT !.finalizer = TRUE]
  <1>1. /\ place[k] = "idle" /\ seen[k] \notin Absent /\ "seen" \in current[k]
        /\ ~seen[k].finalizer
        /\ held' = [held EXCEPT ![k] = new]
        /\ obj' = [obj EXCEPT ![k] = new]
        /\ current' = [current EXCEPT ![k] =
                          (IF new = obj[k] THEN @ \ {"held"} ELSE {}) \cup {"held"}]
        /\ place' = [place EXCEPT ![k] = "resolve"]
        /\ seen' = seen
    BY DEF AddFinalizer, Go, Store
  <1>2. seen[k] \in Objects /\ seen[k] = obj[k] /\ Identified(seen[k])
    BY <1>0, <1>1 DEF KindOK
  <1>3. /\ new \in Objects /\ new.id = seen[k].id /\ new.finalizer = TRUE
        /\ Identified(new)
    BY <1>1, <1>2, ObjectsExist DEF Objects, Identified
  <1>4. new = [new EXCEPT !.id = new.id] /\ new # None /\ new # obj[k]
    BY <1>1, <1>2, <1>3, ValuesAssumption DEF Objects
  <1> HIDE DEF new
  <1>5. KindOK(k, obj'[k], seen'[k], held'[k], current'[k], place'[k])
    BY <1>0, <1>1, <1>2, <1>3, <1>4, ObjectsExist DEF ObjectsOK, IsMap, KindOK, Places
  <1> QED
    BY <1>1, <1>2, <1>3, <1>5, OneKindMoves DEF ObjectsOK, IsMap, OthersWait

LEMMA RemoveFinalizerStep ==
    ASSUME ObjectsOK, NEW k \in Kinds, RemoveFinalizer(k)
    PROVE  /\ ObjectsOK' /\ OthersWait(k)
           /\ place[k] = "release" /\ place'[k] = "idle"
           /\ \A j \in Kinds : obj'[j] \in {obj[j], Gone}
           /\ client' = (IF k = "project" THEN NoClient ELSE client)
  <1>0. KindOK(k, obj[k], seen[k], held[k], current[k], place[k])
    BY DEF ObjectsOK, IsMap, AllKindsOK
  <1>1. CASE Landed(k) /\ Store(k, Gone, {}) /\ Return(k) /\ seen' = seen
    <2>1. /\ obj' = [obj EXCEPT ![k] = Gone]
          /\ current' = [current EXCEPT ![k] = IF Gone = obj[k] THEN @ \ {"held"} ELSE {}]
          /\ place' = [place EXCEPT ![k] = "idle"] /\ held' = [held EXCEPT ![k] = None]
          /\ client' = (IF k = "project" THEN NoClient ELSE client)
      BY <1>1 DEF Store, Return
    <2>2. KindOK(k, obj'[k], seen'[k], held'[k], current'[k], place'[k])
      BY <1>0, <1>1, <2>1, ObjectsExist DEF ObjectsOK, IsMap, KindOK, Places, Landed
    <2> QED
      BY <1>1, <2>1, <2>2, OneKindMoves DEF ObjectsOK, IsMap, OthersWait, RemoveFinalizer
  <1>2. CASE Drop(k) /\ Return(k) /\ seen' = seen
    BY <1>2, GiveUpStep DEF RemoveFinalizer
  <1> QED
    BY <1>1, <1>2 DEF RemoveFinalizer

LEMMA SyncedStep ==
    ASSUME ObjectsOK, NEW k \in Kinds, held[k].id # None, Synced(k)
    PROVE  /\ ObjectsOK' /\ OthersWait(k)
           /\ place[k] = "status" /\ place'[k] = "idle"
           /\ client' = (IF k = "project" THEN NoClient ELSE client)
           /\ UNCHANGED <<secretVars, up>>
           /\ \A j \in Kinds : \/ obj'[j] = obj[j]
                               \/ j = k /\ "held" \in current[k]
                                  /\ obj'[k] = [held[k] EXCEPT !.ready = TRUE]
  <1>1. CASE Report(k, [held[k] EXCEPT !.ready = TRUE])
    BY <1>1, ReportStep DEF Synced
  <1>2. CASE Drop(k) /\ Return(k) /\ UNCHANGED <<seen, secretVars, up>>
    BY <1>2, GiveUpStep DEF Synced
  <1> QED
    BY <1>1, <1>2 DEF Synced

LEMMA WatchStep ==
    ASSUME ObjectsOK, NEW k \in Kinds, Watch(k)
    PROVE  /\ ObjectsOK' /\ UNCHANGED <<obj, held, place>>
  <1>0. KindOK(k, obj[k], seen[k], held[k], current[k], place[k])
    BY DEF ObjectsOK, IsMap, AllKindsOK
  <1>1. /\ seen' = [seen EXCEPT ![k] = obj[k]]
        /\ current' = [current EXCEPT ![k] = @ \cup {"seen"}]
        /\ UNCHANGED <<obj, held, place>>
    BY DEF Watch
  <1>2. KindOK(k, obj'[k], seen'[k], held'[k], current'[k], place'[k])
    BY <1>0, <1>1 DEF ObjectsOK, IsMap, KindOK
  <1> QED
    BY <1>1, <1>2, OneKindMoves DEF ObjectsOK, IsMap

\* The user's writes: the copies of the object are old from then on.
LEMMA UserStep ==
    ASSUME ObjectsOK, NEW k \in Kinds, obj[k] # Gone, NEW new \in Objects \cup {Gone},
           new # Gone => /\ obj[k] \in Objects
                         /\ new.id = obj[k].id /\ new.ready = obj[k].ready,
           new # obj[k],
           Store(k, new, {}), UNCHANGED <<seen, held, place>>
    PROVE  /\ ObjectsOK'
           /\ \A j \in Kinds : obj'[j] = obj[j] \/ (j = k /\ obj'[k] = new)
  <1>0. KindOK(k, obj[k], seen[k], held[k], current[k], place[k])
    BY DEF ObjectsOK, IsMap, AllKindsOK
  <1>1. obj' = [obj EXCEPT ![k] = new] /\ current' = [current EXCEPT ![k] = {}]
    BY DEF Store
  <1>2. seen[k] # Gone /\ Identified(obj[k])
    BY <1>0 DEF KindOK
  <1>3. Identified(new)
    BY <1>2, ObjectsExist DEF Identified
  <1>4. KindOK(k, obj'[k], seen'[k], held'[k], current'[k], place'[k])
    BY <1>0, <1>1, <1>2, <1>3, ObjectsExist DEF ObjectsOK, IsMap, KindOK
  <1> QED
    BY <1>1, <1>4, OneKindMoves DEF ObjectsOK, IsMap

LEMMA DeleteStep ==
    ASSUME ObjectsOK, NEW k \in Kinds, Delete(k)
    PROVE  /\ ObjectsOK' /\ UNCHANGED <<held, place>>
           /\ \A j \in Kinds : obj'[j] \in {obj[j], Gone} \/ obj'[j].id = obj[j].id
  <1>0. obj[k] \in Objects /\ obj[k] # Gone /\ ~obj[k].deleting
        /\ UNCHANGED <<seen, held, place>>
    BY ObjectsExist DEF Delete, Wants, ObjectsOK, IsMap, AllKindsOK, KindOK
  <1>1. CASE Store(k, Gone, {})
    BY <1>0, <1>1, UserStep
  <1>2. CASE \E purge \in BOOLEAN :
                Store(k, [obj[k] EXCEPT !.deleting = TRUE, !.purge = purge], {})
    <2>1. PICK purge \in BOOLEAN :
             Store(k, [obj[k] EXCEPT !.deleting = TRUE, !.purge = purge], {})
      BY <1>2
    <2> DEFINE new == [obj[k] EXCEPT !.deleting = TRUE, !.purge = purge]
    <2>2. /\ new \in Objects /\ new.id = obj[k].id /\ new.ready = obj[k].ready
          /\ new # obj[k]
      BY <1>0 DEF Objects
    <2> HIDE DEF new
    <2>3. Store(k, new, {})
      BY <2>1 DEF new
    <2> QED
      BY <1>0, <2>2, <2>3, UserStep
  <1> QED
    BY <1>1, <1>2 DEF Delete

LEMMA RenameStep ==
    ASSUME ObjectsOK, Rename
    PROVE  /\ ObjectsOK' /\ UNCHANGED <<held, place>>
           /\ \A j \in Kinds : obj'[j] = obj[j] \/ obj'[j].id = obj[j].id
  <1> DEFINE k == "organization"
  <1>0. /\ k \in Kinds /\ obj[k] \in Objects /\ obj[k] # Gone
        /\ UNCHANGED <<seen, held, place>>
    BY ObjectsExist DEF Rename, ObjectsOK, IsMap, AllKindsOK, KindOK, Kinds
  <1>1. PICK name \in Names \ {obj[k].name} : Store(k, [obj[k] EXCEPT !.name = name], {})
    BY DEF Rename
  <1> DEFINE new == [obj[k] EXCEPT !.name = name]
  <1>2. /\ new \in Objects /\ new.id = obj[k].id /\ new.ready = obj[k].ready
        /\ new # obj[k]
    BY <1>0 DEF Objects
  <1>3. Store(k, new, {})
    BY <1>1
  <1> HIDE DEF new, k
  <1> QED
    BY <1>0, <1>2, <1>3, UserStep

LEMMA NewObjectFacts ==
    /\ NewObject \in Objects /\ NewObject.id = None /\ Identified(NewObject)
    /\ ~NewObject.finalizer /\ ~NewObject.deleting /\ ~NewObject.ready
  BY ValuesAssumption DEF NewObject, Objects, Identified

LEMMA CreateStep ==
    ASSUME ObjectsOK, Create
    PROVE  /\ ObjectsOK' /\ UNCHANGED <<seen, held, place>>
           /\ obj'["organization"] = obj["organization"]
           /\ obj["project"] = Unused /\ obj'["project"] = NewObject
  <1> DEFINE new == NewObject
  <1>0. KindOK("project", obj["project"], seen["project"], held["project"], current["project"],
               place["project"]) /\ "project" \in Kinds
    BY DEF ObjectsOK, IsMap, AllKindsOK, Kinds
  <1>1. /\ new \in Objects /\ new.id = None /\ Identified(new) /\ new \notin Absent
        /\ Unused # Gone
    BY NewObjectFacts, ObjectsExist, ValuesAssumption
  <1>2. /\ obj["project"] = Unused /\ obj' = [obj EXCEPT !["project"] = new]
        /\ current' = [current EXCEPT !["project"] = {}]
        /\ UNCHANGED <<seen, held, place>>
    BY <1>1, ObjectsExist DEF Create, Store
  <1> HIDE DEF new
  <1>3. KindOK("project", obj'["project"], seen'["project"], held'["project"],
               current'["project"], place'["project"])
    BY <1>0, <1>1, <1>2, ObjectsExist DEF ObjectsOK, IsMap, KindOK
  <1>4. obj'["organization"] = obj["organization"] /\ obj'["project"] = new
    BY <1>0, <1>2 DEF ObjectsOK, IsMap, Kinds
  <1> QED
    BY <1>0, <1>2, <1>3, <1>4, OneKindMoves DEF ObjectsOK, IsMap, new

LEMMA RestartStep ==
    ASSUME ObjectsOK, Restart
    PROVE  /\ ObjectsOK' /\ obj' = obj
           /\ \A k \in Kinds : place'[k] = "idle"
  <1>1. /\ place' = [k \in Kinds |-> "idle"] /\ held' = [k \in Kinds |-> None]
        /\ seen' = obj /\ current' = [k \in Kinds |-> {"seen"}] /\ obj' = obj
    BY DEF Restart
  <1>2. ASSUME NEW k \in Kinds
        PROVE  KindOK(k, obj'[k], seen'[k], held'[k], current'[k], place'[k])
    <2>1. KindOK(k, obj[k], seen[k], held[k], current[k], place[k])
      BY DEF ObjectsOK, IsMap, AllKindsOK
    <2> QED
      BY <1>1, <2>1, ObjectsExist DEF KindOK, Places
  <1> QED
    BY <1>1, <1>2 DEF ObjectsOK, IsMap, AllKindsOK

-----------------------------------------------------------------------------
(* The parts of the invariant                                              *)

SecretsOK ==
    /\ client \in [auth : KeyRefs, minted : KeyRefs]
    /\ secrets \in [{"orgkey", "apikey"} -> KeyRefs]
    /\ secretsSeen \in [{"orgkey", "apikey"} -> KeyRefs]
    /\ CredentialsMatch

BoundsOK == faults \in Nat /\ lags \in Nat /\ faults + lags <= MaxFaults

Parts ==
    /\ ServerTypeOK /\ ObjectsOK /\ SecretsOK
    /\ up \in BOOLEAN /\ BoundsOK
    /\ OrgSearchStands /\ ProjectSearchStands

LEMMA PartsOfIInv ==
    IInv <=> /\ ServerTypeOK /\ ObjectsOK /\ SecretsOK
             /\ up \in BOOLEAN /\ BoundsOK
             /\ OrgSearchStands /\ ProjectSearchStands
  <1>1. TypeOK /\ IdsMatch /\ CopiesAreHonest => ObjectsOK
    BY DEF TypeOK, IdsMatch, CopiesAreHonest, ObjectsOK, IsMap, AllKindsOK, KindOK
  <1>2. ObjectsOK => /\ obj \in [Kinds -> Objects \cup Absent]
                     /\ seen \in [Kinds -> Objects \cup Absent]
                     /\ held \in [Kinds -> Objects \cup {None}]
                     /\ current \in [Kinds -> SUBSET {"seen", "held"}]
                     /\ place \in [Kinds -> Places]
                     /\ IdsMatch /\ CopiesAreHonest
    BY DEF IdsMatch, CopiesAreHonest, ObjectsOK, IsMap, AllKindsOK, KindOK
  <1>3. ObjectsOK => /\ \A k \in Kinds : (place[k] = "idle") <=> (held[k] = None)
                     /\ \A k \in Kinds : "seen" \in current[k] => seen[k] = obj[k]
                     /\ \A k \in Kinds :
                           Identified(obj[k]) /\ Identified(seen[k]) /\ Identified(held[k])
    BY DEF ObjectsOK, IsMap, AllKindsOK, KindOK
  <1>4. IInv => /\ ServerTypeOK /\ ObjectsOK /\ SecretsOK
                /\ up \in BOOLEAN /\ BoundsOK
                /\ OrgSearchStands /\ ProjectSearchStands
    BY <1>1 DEF IInv, TypeOK, SecretsOK, BoundsOK
  <1>5. ASSUME ServerTypeOK, ObjectsOK, SecretsOK, up \in BOOLEAN, BoundsOK
        PROVE  TypeOK /\ IdsMatch /\ CredentialsMatch /\ CopiesAreHonest
    BY <1>2, <1>3, <1>5 DEF TypeOK, SecretsOK, BoundsOK
  <1> QED
    BY <1>4, <1>5 DEF IInv

LEMMA PartsMakeIInv == Parts' => IInv'
  <1>1. Parts => IInv
    BY PartsOfIInv DEF Parts
  <1> QED
    BY <1>1, PTL

\* A key that was made for an organization stays one of an organization until it goes.
LEMMA CredentialAges ==
    ASSUME ServerTypeOK, KeysAge, NEW key \in KeyRefs, OrgCredential(key)
    PROVE  key # None => keys'[key] = Gone \/ keys'[key] \in {"organization"} \X OrgIds
  BY ValuesAssumption DEF ServerTypeOK, KeysAge, KeyRefs, OrgCredential, Scopes

LEMMA SecretsMove ==
    ASSUME ServerTypeOK, KeysAge, SecretsOK,
           client' \in [auth : KeyRefs, minted : KeyRefs],
           secrets' \in [{"orgkey", "apikey"} -> KeyRefs],
           secretsSeen' \in [{"orgkey", "apikey"} -> KeyRefs],
           \A key \in {client'.auth, secrets'["orgkey"], secretsSeen'["orgkey"]} :
              \/ key \in {None, client.auth, secrets["orgkey"], secretsSeen["orgkey"]}
              \/ keys'[key] \in {"organization"} \X OrgIds
    PROVE  SecretsOK'
  <1>0. /\ client.auth \in KeyRefs /\ secrets["orgkey"] \in KeyRefs
        /\ secretsSeen["orgkey"] \in KeyRefs
    BY DEF SecretsOK
  <1>1. \A key \in {client.auth, secrets["orgkey"], secretsSeen["orgkey"]} :
           key # None => keys'[key] = Gone \/ keys'[key] \in {"organization"} \X OrgIds
    BY <1>0, CredentialAges DEF SecretsOK, CredentialsMatch
  <1>2. \A key \in {client'.auth, secrets'["orgkey"], secretsSeen'["orgkey"]} :
           key # None => keys'[key] = Gone \/ keys'[key] \in {"organization"} \X OrgIds
    BY <1>1
  <1>3. CredentialsMatch'
    BY <1>2 DEF CredentialsMatch, OrgCredential
  <1> QED
    BY <1>3 DEF SecretsOK

\* What an organization pass has found stands while others are at work.
LEMMA OrgSearchRests ==
    ASSUME ServerTypeOK, OrgsGo, OrgSearchStands,
           \/ place'["organization"] \notin {"create", "members", "status"}
           \/ /\ held'["organization"] = held["organization"]
              /\ \/ place'["organization"] = place["organization"]
                 \/ {place["organization"], place'["organization"]} \subseteq {"members", "status"}
    PROVE  OrgSearchStands'
  <1>1. ASSUME held'["organization"] = held["organization"],
               place["organization"] = "create"
        PROVE  ListOrganizations(Org.name)' = {}
    <2>1. ListOrganizations(Org.name) = {}
      BY <1>1 DEF OrgSearchStands
    <2> QED
      BY <1>1, <2>1 DEF ServerTypeOK, OrgsGo, ListOrganizations, Absent, Org
  <1>2. ASSUME held'["organization"] = held["organization"],
               place["organization"] \in {"members", "status"}
        PROVE  /\ Org'.id \in OrgIds /\ orgs'[Org'.id] # Unused
               /\ orgs'[Org'.id] # Gone => orgs'[Org'.id].name = Org'.name
    <2>1. /\ Org.id \in OrgIds /\ orgs[Org.id] # Unused
          /\ orgs[Org.id] # Gone => orgs[Org.id].name = Org.name
      BY <1>2 DEF OrgSearchStands
    <2>2. Org' = Org
      BY <1>2 DEF Org
    <2>3. CASE orgs'[Org.id] = orgs[Org.id]
      BY <2>1, <2>2, <2>3
    <2>4. CASE orgs[Org.id] \notin Absent /\ orgs'[Org.id] = Gone
      BY <2>1, <2>2, <2>4, ValuesAssumption
    <2>5. CASE /\ orgs[Org.id] \notin Absent
               /\ orgs'[Org.id] \in Organizations /\ orgs'[Org.id].name = orgs[Org.id].name
      BY <2>1, <2>2, <2>5, ValuesAssumption DEF Absent
    <2> QED
      BY <2>1, <2>3, <2>4, <2>5 DEF OrgsGo
  <1> QED
    BY <1>1, <1>2 DEF OrgSearchStands, Org

LEMMA ProjectSearchRests ==
    ASSUME ServerTypeOK, KeysAge, ProjectsGo, SecretsOK, ProjectSearchStands,
           \/ place'["project"] \notin {"create", "keys", "mint", "store", "status"}
           \/ /\ place'["project"] = place["project"] /\ client' = client
              /\ held'["project"] = held["project"]
    PROVE  ProjectSearchStands'
  <1>a. place'["project"] \in {"keys", "mint", "store", "status"} => Project'.id # None
    BY DEF ProjectSearchStands, Project
  <1> SUFFICES ASSUME place["project"] = "create", client' = client, Accepted(client.auth)',
                      NEW p \in ProjectIds
               PROVE  projects'[p] # ScopeOf(client.auth)'
    BY <1>a DEF ProjectSearchStands, ListProjects
  <1>1. /\ client.auth \in KeyIds /\ keys'[client.auth] \notin Absent
        /\ keys[client.auth] = Gone \/ keys[client.auth] \in {"organization"} \X OrgIds
    BY DEF Accepted, SecretsOK, CredentialsMatch, OrgCredential, KeyRefs
  <1>2. keys[client.auth] # Unused
    BY <1>1, ValuesAssumption DEF Scopes
  <1>3. keys'[client.auth] = keys[client.auth] /\ keys[client.auth] \in {"organization"} \X OrgIds
    BY <1>1, <1>2 DEF KeysAge, Absent
  <1>4. Accepted(client.auth) /\ ScopeOf(client.auth) \in OrgIds
    BY <1>1, <1>3 DEF Accepted, ScopeOf
  <1>5. projects[p] # ScopeOf(client.auth)
    BY <1>4 DEF ProjectSearchStands, ListProjects
  <1>6. ScopeOf(client.auth)' = ScopeOf(client.auth)
    BY <1>3 DEF ScopeOf
  <1> QED
    BY <1>4, <1>5, <1>6, ValuesAssumption DEF ProjectsGo

\* The effect of a step of the organization pass, put together.
LEMMA OrgPass ==
    ASSUME IInv, ServerTypeOK', KeysAge, ProjectsGo,
           ObjectsOK', OthersWait("organization"),
           UNCHANGED <<client, secretVars, up>>, BoundsOK',
           OrgSearchStands'
    PROVE  IInv'
  <1>0. ServerTypeOK /\ ObjectsOK /\ SecretsOK /\ up \in BOOLEAN /\ ProjectSearchStands
       
    BY PartsOfIInv
  <1>1. SecretsOK'
    BY <1>0, SecretsMove DEF SecretsOK, secretVars
  <1>2. ProjectSearchStands'
    BY <1>0, ProjectSearchRests DEF OthersWait, Kinds
  <1> QED
    BY <1>0, <1>1, <1>2, PartsMakeIInv DEF Parts

\* The effect of a step of the project pass.
LEMMA ProjectPass ==
    ASSUME IInv, ServerTypeOK', KeysAge, OrgsGo,
           ObjectsOK', OthersWait("project"),
           SecretsOK', up' = up, BoundsOK',
           ProjectSearchStands'
    PROVE  IInv'
  <1>0. ServerTypeOK /\ OrgSearchStands /\ up \in BOOLEAN
    BY PartsOfIInv
  <1>1. OrgSearchStands'
    BY <1>0, OrgSearchRests DEF OthersWait, Kinds
  <1> QED
    BY <1>0, <1>1, PartsMakeIInv DEF Parts

LEMMA FaultCounts ==
    ASSUME IInv, Fault \/ UNCHANGED faults, UNCHANGED lags
    PROVE  BoundsOK'
  BY PartsOfIInv, TenancyBoundAssumption DEF Fault, BoundsOK

\* A pass begins: with old caches it counts as one.
LEMMA LagCounts ==
    ASSUME IInv, NEW k \in Kinds, Get(k)
    PROVE  BoundsOK'
  BY PartsOfIInv, TenancyBoundAssumption DEF Get, BoundsOK

\* A pass that gets to its final status write has found an identifier.
LEMMA IdentifierNoted ==
    ASSUME IInv, NEW k \in Kinds, place[k] = "status"
    PROVE  held[k].id # None
  BY PartsOfIInv, ValuesAssumption DEF OrgSearchStands, ProjectSearchStands, Kinds, Org, Project

\* What every step of the organization pass may rely on.
LEMMA OrgFacts ==
    ASSUME IInv, place["organization"] # "idle"
    PROVE  /\ "organization" \in Kinds /\ Org \in Objects /\ Org.name \in Names
           /\ Org.id \in OrgIds \cup {None}
           /\ ServerTypeOK /\ ObjectsOK /\ OrgSearchStands
  BY PartsOfIInv DEF ObjectsOK, AllKindsOK, KindOK, Kinds, IdsOf, Org, Objects

-----------------------------------------------------------------------------
(* The organization controller                                             *)

\* A pass that fails, whatever it has done at Langfuse.
LEMMA OrgFailsKeepsIInv ==
    ASSUME IInv, place["organization"] # "idle", OrgFails,
           ServerTypeOK', KeysAge, ProjectsGo, Fault \/ UNCHANGED faults
    PROVE  IInv'
  <1>1. Report("organization", [held["organization"] EXCEPT !.ready = FALSE])
    BY DEF OrgFails, NotReady
  <1>2. /\ ObjectsOK' /\ OthersWait("organization")
        /\ place'["organization"] = "idle" /\ UNCHANGED <<client, secretVars, up>>
    BY <1>1, OrgFacts, ReportStep
  <1>3. OrgSearchStands'
    BY <1>2 DEF OrgSearchStands
  <1> QED
    BY <1>2, <1>3, FaultCounts, OrgPass DEF secretVars

LEMMA SyncOrganizationKeepsIInv == IInv /\ SyncOrganization => IInv'
  <1> SUFFICES ASSUME IInv, SyncOrganization PROVE IInv'
    OBVIOUS
  <1>0. place["organization"] = "resolve"
    BY DEF SyncOrganization, AtOrg
  <1>a. /\ "organization" \in Kinds /\ Org \in Objects /\ Org.name \in Names
        /\ Org.id \in OrgIds \cup {None} /\ ServerTypeOK /\ ObjectsOK /\ OrgSearchStands
        /\ IdsOf("organization") = OrgIds /\ "members" \in Places /\ "create" \in Places
    BY <1>0, OrgFacts DEF IdsOf, Places
  <1>1. CASE /\ GetOrganization(Org.id)
             /\ IF orgs[Org.id].name = Org.name
                THEN UNCHANGED serverVars
                ELSE UpdateOrganization(Org.id, Org.name)
             /\ Found("organization", Org.id, "members")
             /\ UNCHANGED faults
             /\ Onward
    <2>1. Org.id \in OrgIds /\ orgs[Org.id] \notin Absent
      BY <1>a, <1>1 DEF GetOrganization
    <2>2. /\ ServerTypeOK' /\ KeysAge /\ ProjectsGo
          /\ orgs'[Org.id] \in Organizations /\ orgs'[Org.id].name = Org.name
      BY <1>a, <1>1, <2>1, ServerRests, UpdateOrganizationStep DEF ServerTypeOK, serverVars
    <2>3. /\ ObjectsOK' /\ OthersWait("organization")
          /\ place'["organization"] = "members"
          /\ Org'.id = Org.id /\ Org'.name = Org.name
      BY <1>0, <1>a, <1>1, <2>1, FoundStep DEF Onward, Org
    <2>4. OrgSearchStands'
      BY <2>1, <2>2, <2>3, ValuesAssumption DEF OrgSearchStands
    <2> QED
      BY <1>1, <2>2, <2>3, <2>4, FaultCounts, OrgPass DEF Onward, secretVars
  <1>2. CASE /\ GetOrganization(Org.id)
             /\ Fault
             /\ UpdateOrganization(Org.id, Org.name) \/ UNCHANGED serverVars
             /\ OrgFails
    <2>1. Org.id \in OrgIds /\ orgs[Org.id] \notin Absent
      BY <1>a, <1>2 DEF GetOrganization
    <2>2. ServerTypeOK' /\ KeysAge /\ ProjectsGo
      BY <1>a, <1>2, <2>1, ServerRests, UpdateOrganizationStep
    <2> QED
      BY <1>0, <1>2, <2>2, OrgFailsKeepsIInv
  <1>3. CASE /\ Fails(~GetOrganization(Org.id))
             /\ \E o \in SearchOrganization(Org.name) : Found("organization", o, "members")
             /\ Onward
             /\ UNCHANGED serverVars
    <2>1. PICK o \in SearchOrganization(Org.name) : Found("organization", o, "members")
      BY <1>3
    <2>2. o \in OrgIds /\ orgs[o] \notin Absent /\ orgs[o].name = Org.name
      BY DEF SearchOrganization, ListOrganizations
    <2>3. ServerTypeOK' /\ KeysAge /\ ProjectsGo /\ orgs' = orgs
      BY <1>a, <1>3, ServerRests DEF serverVars
    <2>4. /\ ObjectsOK' /\ OthersWait("organization")
          /\ place'["organization"] = "members" /\ Org'.id = o /\ Org'.name = Org.name
      BY <1>0, <1>a, <1>3, <2>1, <2>2, FoundStep DEF Onward, Org
    <2>5. OrgSearchStands'
      BY <2>2, <2>3, <2>4 DEF OrgSearchStands, Absent
    <2> QED
      BY <1>3, <2>3, <2>4, <2>5, FaultCounts, OrgPass DEF Onward, secretVars, Fails
  <1>4. CASE /\ Fails(~GetOrganization(Org.id))
             /\ SearchOrganization(Org.name) = {}
             /\ Go("organization", "create")
             /\ UNCHANGED held
             /\ Onward
             /\ UNCHANGED serverVars
    <2>1. ServerTypeOK' /\ KeysAge /\ ProjectsGo /\ orgs' = orgs
      BY <1>a, <1>4, ServerRests DEF serverVars
    <2>2. /\ ObjectsOK' /\ OthersWait("organization")
          /\ place'["organization"] = "create"
      BY <1>0, <1>a, <1>4, GoStep DEF Onward
    <2>3. OrgSearchStands'
      BY <1>4, <2>1, <2>2 DEF OrgSearchStands, SearchOrganization, ListOrganizations, Org
    <2> QED
      BY <1>4, <2>1, <2>2, <2>3, FaultCounts, OrgPass DEF Onward, secretVars, Fails
  <1>5. CASE Fault /\ OrgFails /\ UNCHANGED serverVars
    BY <1>0, <1>a, <1>5, ServerRests, OrgFailsKeepsIInv
  <1> QED
    BY <1>1, <1>2, <1>3, <1>4, <1>5 DEF SyncOrganization

LEMMA MakeOrganizationKeepsIInv == IInv /\ MakeOrganization => IInv'
  <1> SUFFICES ASSUME IInv, MakeOrganization PROVE IInv'
    OBVIOUS
  <1>0. place["organization"] = "create"
    BY DEF MakeOrganization, AtOrg
  <1>a. /\ "organization" \in Kinds /\ Org \in Objects /\ Org.name \in Names
        /\ ServerTypeOK /\ ObjectsOK
        /\ IdsOf("organization") = OrgIds /\ "members" \in Places
    BY <1>0, OrgFacts DEF IdsOf, Places
  <1>1. CASE \E o \in OrgIds :
                /\ CreateOrganization(o, Org.name)
                /\ Found("organization", o, "members")
                /\ UNCHANGED faults
                /\ Onward
    <2>1. PICK o \in OrgIds : /\ CreateOrganization(o, Org.name)
                              /\ Found("organization", o, "members")
                              /\ UNCHANGED faults
                              /\ Onward
      BY <1>1
    <2>2. /\ ServerTypeOK' /\ KeysAge /\ ProjectsGo
          /\ orgs'[o] \in Organizations /\ orgs'[o].name = Org.name
      BY <1>a, <2>1, CreateOrganizationStep
    <2>3. /\ ObjectsOK' /\ OthersWait("organization")
          /\ place'["organization"] = "members" /\ Org'.id = o /\ Org'.name = Org.name
      BY <1>0, <1>a, <2>1, FoundStep DEF Onward, Org
    <2>4. OrgSearchStands'
      BY <2>2, <2>3, ValuesAssumption DEF OrgSearchStands
    <2> QED
      BY <2>1, <2>2, <2>3, <2>4, FaultCounts, OrgPass DEF Onward, secretVars
  <1>2. CASE \E o \in OrgIds :
                /\ Fault
                /\ CreateOrganization(o, Org.name) \/ UNCHANGED serverVars
                /\ OrgFails
    <2>1. ServerTypeOK' /\ KeysAge /\ ProjectsGo
      BY <1>a, <1>2, ServerRests, CreateOrganizationStep
    <2> QED
      BY <1>0, <1>2, <2>1, OrgFailsKeepsIInv
  <1> QED
    BY <1>1, <1>2 DEF MakeOrganization

\* Whatever a sync of the members does, completed or not, it leaves a membership.
LEMMA SyncsAreMemberships ==
    ASSUME NEW listed \in Memberships
    PROVE  SyncedMembers(listed) \in Memberships
  BY DesiredAssumption DEF SyncedMembers, Wanted, Memberships

LEMMA SyncMembersKeepsIInv == IInv /\ SyncMembers => IInv'
  <1> SUFFICES ASSUME IInv, SyncMembers PROVE IInv'
    OBVIOUS
  <1>0. place["organization"] = "members"
    BY DEF SyncMembers, AtOrg
  <1>a. /\ "organization" \in Kinds /\ Org.id \in OrgIds \cup {None}
        /\ ServerTypeOK /\ ObjectsOK /\ OrgSearchStands /\ "status" \in Places
    BY <1>0, OrgFacts DEF Places
  <1>1. ASSUME GetOrganization(Org.id)
        PROVE  Org.id \in OrgIds /\ orgs[Org.id] \notin Absent
               /\ ListOrgMembers(Org.id) \in Memberships
    BY <1>a, <1>1 DEF GetOrganization, ServerTypeOK, ListOrgMembers, Organizations
  <1>2. CASE /\ GetOrganization(Org.id)
             /\ SetOrgMembers(Org.id, SyncedMembers(ListOrgMembers(Org.id)))
             /\ Go("organization", "status")
             /\ UNCHANGED <<held, faults>>
             /\ Onward
    <2>1. ServerTypeOK' /\ KeysAge /\ ProjectsGo /\ OrgsGo
      BY <1>a, <1>1, <1>2, SyncsAreMemberships, SetOrgMembersStep
    <2>2. /\ ObjectsOK' /\ OthersWait("organization")
          /\ place'["organization"] = "status"
      BY <1>0, <1>a, <1>2, GoStep DEF Onward
    <2>3. OrgSearchStands'
      BY <1>0, <1>a, <1>2, <2>1, <2>2, OrgSearchRests
    <2> QED
      BY <1>2, <2>1, <2>2, <2>3, FaultCounts, OrgPass DEF Onward, secretVars
  <1>3. CASE /\ GetOrganization(Org.id)
             /\ Fault
             /\ \E members \in PartlySynced(ListOrgMembers(Org.id)) :
                   SetOrgMembers(Org.id, members)
             /\ OrgFails
    <2>1. ServerTypeOK' /\ KeysAge /\ ProjectsGo
      BY <1>a, <1>1, <1>3, SetOrgMembersStep DEF PartlySynced
    <2> QED
      BY <1>0, <1>3, <2>1, OrgFailsKeepsIInv
  <1>4. CASE OrgFails /\ UNCHANGED <<serverVars, faults>>
    BY <1>0, <1>a, <1>4, ServerRests, OrgFailsKeepsIInv
  <1> QED
    BY <1>2, <1>3, <1>4 DEF SyncMembers

\* The deletion of an organization.
LEMMA OrgDeletionKeepsIInv == IInv /\ (CountDependents \/ CleanUpOrganization) => IInv'
  <1> SUFFICES ASSUME IInv, CountDependents \/ CleanUpOrganization PROVE IInv'
    OBVIOUS
  <1>0. place["organization"] \in {"delete", "cleanup"}
    BY DEF CountDependents, CleanUpOrganization, AtOrg
  <1>a. /\ "organization" \in Kinds /\ Org.id \in OrgIds \cup {None}
        /\ ServerTypeOK /\ ObjectsOK /\ OrgSearchStands
        /\ "cleanup" \in Places /\ "release" \in Places
    BY <1>0, OrgFacts DEF Places
  <1>1. CASE CountDependents /\ OrgFails
    BY <1>0, <1>a, <1>1, ServerRests, OrgFailsKeepsIInv DEF CountDependents
  <1>2. CASE /\ DependentProjects = {}
             /\ Go("organization", "cleanup")
             /\ UNCHANGED <<held, serverVars, faults>>
             /\ Onward
    <2>3. ServerTypeOK' /\ KeysAge /\ ProjectsGo
      BY <1>a, <1>2, ServerRests
    <2>4. /\ ObjectsOK' /\ OthersWait("organization")
          /\ place'["organization"] = "cleanup"
      BY <1>0, <1>a, <1>2, GoStep DEF Onward
    <2>5. OrgSearchStands'
      BY <2>4 DEF OrgSearchStands
    <2> QED
      BY <1>2, <2>3, <2>4, <2>5, FaultCounts, OrgPass DEF Onward, secretVars
  <1>3. CASE CleanUpOrganization
    <2>0. place["organization"] = "cleanup"
      BY <1>3 DEF CleanUpOrganization, AtOrg
    <2>1. ServerTypeOK' /\ KeysAge /\ ProjectsGo
      BY <1>a, <1>3, ServerRests, DeleteOrganizationStep
         DEF CleanUpOrganization, GetOrganization
    <2>2. /\ ObjectsOK' /\ OthersWait("organization")
          /\ place'["organization"] = "release"
      BY <1>a, <1>3, <2>0, GoStep DEF Onward, CleanUpOrganization
    <2>3. OrgSearchStands'
      BY <2>2 DEF OrgSearchStands
    <2>4. Fault \/ UNCHANGED faults
      BY <1>3 DEF CleanUpOrganization
    <2> QED
      BY <1>3, <2>0, <2>1, <2>2, <2>3, <2>4, FaultCounts, OrgPass
         DEF Onward, secretVars, CleanUpOrganization
  <1> QED
    BY <1>1, <1>2, <1>3 DEF CountDependents

\* The beginning and the end of an organization pass.
LEMMA OrgEndsKeepIInv ==
    IInv /\ ( \/ Get("organization") \/ AddFinalizer("organization") \/ ResolveFails
              \/ Synced("organization") \/ RemoveFinalizer("organization") ) => IInv'
  <1> SUFFICES ASSUME IInv, \/ Get("organization") \/ AddFinalizer("organization")
                            \/ ResolveFails \/ Synced("organization")
                            \/ RemoveFinalizer("organization")
               PROVE  IInv'
    OBVIOUS
  <1>a. ServerTypeOK /\ ObjectsOK /\ "organization" \in Kinds
    BY PartsOfIInv DEF Kinds
  <1>1. CASE ResolveFails
    BY <1>a, <1>1, ServerRests, OrgFailsKeepsIInv DEF ResolveFails, AtOrg
  <1>2. CASE Get("organization") \/ AddFinalizer("organization") \/ Synced("organization")
               \/ RemoveFinalizer("organization")
    <2>1. UNCHANGED serverVars /\ UNCHANGED <<secretVars, up>>
      BY <1>2 DEF Get, AddFinalizer, Synced, Report, RemoveFinalizer, secretVars, Lagging
    <2>2. BoundsOK'
      BY <1>a, <1>2, <2>1, FaultCounts
         DEF Get, AddFinalizer, Synced, RemoveFinalizer, Fails, secretVars
    <2>3. ServerTypeOK' /\ KeysAge /\ ProjectsGo
      BY <1>a, <2>1, ServerRests
    <2>a. Synced("organization") => held["organization"].id # None
      BY <1>a, IdentifierNoted DEF Synced
    <2>4. /\ ObjectsOK' /\ OthersWait("organization")
          /\ place'["organization"] \in {"delete", "resolve", "idle"}
          /\ client' = client
      BY <1>a, <1>2, <2>a, GetStep, AddFinalizerStep, SyncedStep, RemoveFinalizerStep
         DEF Get, AddFinalizer
    <2>5. OrgSearchStands'
      BY <2>4 DEF OrgSearchStands
    <2> QED
      BY <2>1, <2>2, <2>3, <2>4, <2>5, OrgPass DEF secretVars
  <1> QED
    BY <1>1, <1>2

LEMMA OrganizationKeepsIInv == IInv /\ OrganizationController => IInv'
  BY SyncOrganizationKeepsIInv, MakeOrganizationKeepsIInv, SyncMembersKeepsIInv,
     OrgDeletionKeepsIInv, OrgEndsKeepIInv DEF OrganizationController

-----------------------------------------------------------------------------
(* The project controller                                                  *)

\* What every step of the project pass may rely on.
LEMMA ProjectFacts ==
    ASSUME IInv, place["project"] # "idle"
    PROVE  /\ "project" \in Kinds /\ Project \in Objects
           /\ Project.id \in ProjectIds \cup {None} /\ IdsOf("project") = ProjectIds
           /\ ServerTypeOK /\ ObjectsOK /\ SecretsOK
           /\ Accepted(client.auth) => /\ client.auth \in KeyIds
                                       /\ ScopeOf(client.auth) \in OrgIds
  <1>1. ServerTypeOK /\ ObjectsOK /\ SecretsOK
    BY PartsOfIInv
  <1>2. /\ "project" \in Kinds /\ Project \in Objects /\ IdsOf("project") = ProjectIds
        /\ Project.id \in ProjectIds \cup {None}
    BY <1>1 DEF ObjectsOK, AllKindsOK, KindOK, Kinds, IdsOf, Project
  <1>3. ASSUME Accepted(client.auth)
        PROVE  client.auth \in KeyIds /\ ScopeOf(client.auth) \in OrgIds
    <2>1. /\ client.auth \in KeyIds
          /\ keys[client.auth] \in {"organization"} \X OrgIds
      BY <1>1, <1>3 DEF SecretsOK, CredentialsMatch, OrgCredential, Accepted, Absent, KeyRefs
    <2> QED
      BY <2>1 DEF ScopeOf
  <1> QED
    BY <1>1, <1>2, <1>3

\* The credentials after a step are those before it, or were made for an organization.
CredentialsKnown ==
    \A key \in {client'.auth, secrets'["orgkey"], secretsSeen'["orgkey"]} :
       \/ key \in {None, client.auth, secrets["orgkey"], secretsSeen["orgkey"]}
       \/ keys'[key] \in {"organization"} \X OrgIds

SecretsTyped ==
    /\ client' \in [auth : KeyRefs, minted : KeyRefs]
    /\ secrets' \in [{"orgkey", "apikey"} -> KeyRefs]
    /\ secretsSeen' \in [{"orgkey", "apikey"} -> KeyRefs]
    /\ lags' = lags

\* A pass that fails, whatever it has done at Langfuse.
LEMMA ProjectFailsKeepsIInv ==
    ASSUME IInv, place["project"] # "idle", ProjectFails,
           ServerTypeOK', KeysAge, OrgsGo, Fault \/ UNCHANGED faults
    PROVE  IInv'
  <1>a. "project" \in Kinds /\ ServerTypeOK /\ ObjectsOK /\ SecretsOK
    BY ProjectFacts
  <1>1. Report("project", [held["project"] EXCEPT !.ready = FALSE])
    BY DEF ProjectFails, NotReady
  <1>2. /\ ObjectsOK' /\ OthersWait("project")
        /\ place'["project"] = "idle" /\ client' = NoClient
        /\ UNCHANGED <<secretVars, up>>
    BY <1>a, <1>1, ReportStep
  <1>3. ProjectSearchStands'
    BY <1>2 DEF ProjectSearchStands
  <1>4. SecretsOK'
    BY <1>a, <1>2, SecretsMove DEF SecretsOK, NoClient, KeyRefs, secretVars
  <1> QED
    BY <1>2, <1>3, <1>4, FaultCounts, ProjectPass DEF secretVars

\* A pass that goes on with its copy as it is.
LEMMA ContinueKeepsIInv ==
    ASSUME IInv, place["project"] # "idle", NEW where \in Places \ {"idle"},
           Continue(where), UNCHANGED held,
           ServerTypeOK', KeysAge, OrgsGo, Fault \/ UNCHANGED faults,
           SecretsTyped, CredentialsKnown,
           where = "create" => ProjectSearchStands',
           where \in {"keys", "mint", "store", "status"} => Project.id # None
    PROVE  IInv'
  <1>a. "project" \in Kinds /\ ServerTypeOK /\ ObjectsOK /\ SecretsOK
    BY ProjectFacts
  <1>1. ObjectsOK' /\ OthersWait("project") /\ place'["project"] = where
    BY <1>a, GoStep DEF Continue
  <1>2. ProjectSearchStands'
    BY <1>1 DEF ProjectSearchStands, Project
  <1>3. SecretsOK'
    BY <1>a, SecretsMove DEF SecretsTyped, CredentialsKnown
  <1> QED
    BY <1>1, <1>2, <1>3, FaultCounts, ProjectPass DEF Continue, SecretsTyped

\* A pass that has found the project.
LEMMA FoundProjectKeepsIInv ==
    ASSUME IInv, place["project"] # "idle", NEW p \in ProjectIds,
           held' = [held EXCEPT !["project"].id = p], Continue("keys"),
           UNCHANGED <<client, secretVars>>,
           ServerTypeOK', KeysAge, OrgsGo, Fault \/ UNCHANGED faults
    PROVE  IInv'
  <1>a. /\ "project" \in Kinds /\ ServerTypeOK /\ ObjectsOK /\ SecretsOK
        /\ p \in IdsOf("project")
    BY ProjectFacts
  <1>1. Found("project", p, "keys")
    BY DEF Found, Continue
  <1>2. "keys" \in Places \ {"idle"} /\ UNCHANGED <<obj, seen, current>>
    BY DEF Places, Continue
  <1>3. /\ ObjectsOK' /\ OthersWait("project") /\ place'["project"] = "keys"
        /\ held'["project"].id = p
    BY <1>a, <1>1, <1>2, FoundStep
  <1>4. ProjectSearchStands'
    BY <1>3, ValuesAssumption DEF ProjectSearchStands, Project
  <1>5. SecretsOK'
    BY <1>a, SecretsMove DEF SecretsOK, secretVars
  <1> QED
    BY <1>3, <1>4, <1>5, FaultCounts, ProjectPass DEF Continue, secretVars

LEMMA CredentialsRest ==
    ASSUME SecretsOK, UNCHANGED <<client, secretVars>>
    PROVE  SecretsTyped /\ CredentialsKnown
  BY DEF SecretsOK, SecretsTyped, CredentialsKnown, secretVars

\* A pass that cannot get at Langfuse.
LEMMA GiveUpKeepsIInv ==
    ASSUME IInv, place["project"] # "idle", GiveUp,
           ServerTypeOK', KeysAge, OrgsGo, Fault \/ UNCHANGED faults
    PROVE  IInv'
  <1>1. CASE Continue("secret") /\ UNCHANGED <<held, client, secretVars>>
    <2>1. "secret" \in Places \ {"idle"} /\ SecretsTyped /\ CredentialsKnown
      BY <1>1, ProjectFacts, CredentialsRest DEF Places
    <2> QED
      BY <1>1, <2>1, ContinueKeepsIInv
  <1>2. CASE ProjectFails
    BY <1>2, ProjectFailsKeepsIInv
  <1> QED
    BY <1>1, <1>2 DEF GiveUp

LEMMA EnsureClientKeepsIInv == IInv /\ EnsureClient => IInv'
  <1> SUFFICES ASSUME IInv, EnsureClient PROVE IInv'
    OBVIOUS
  <1> DEFINE org == seen["organization"].id
  <1>0. place["project"] # "idle" /\ Authorized \in Places \ {"idle"}
        /\ Authorized \notin {"create", "keys", "mint", "store", "status"}
        /\ "orgkey" \in Places \ {"idle"}
    BY DEF EnsureClient, AtProject, Authorized, Places
  <1>a. ServerTypeOK /\ SecretsOK /\ client \in [auth : KeyRefs, minted : KeyRefs]
    BY <1>0, ProjectFacts DEF SecretsOK
  <1>b. org \in OrgIds
    BY PartsOfIInv DEF EnsureClient, NeedsClient, Resolved, ObjectsOK, AllKindsOK, KindOK,
                       Kinds, IdsOf
  <1> HIDE DEF org
  <1>1. CASE /\ Client(secretsSeen["orgkey"], Authorized)
             /\ UNCHANGED <<serverVars, faults>>
    <2>1. ServerTypeOK' /\ KeysAge /\ OrgsGo
      BY <1>a, <1>1, ServerRests
    <2>2. SecretsTyped /\ CredentialsKnown
      BY <1>a, <1>1 DEF Client, secretVars, SecretsOK, SecretsTyped, CredentialsKnown
    <2> QED
      BY <1>0, <1>1, <2>1, <2>2, ContinueKeepsIInv DEF Client
  <1>2. CASE \E key \in KeyIds : /\ CreateOrganizationAPIKey(key, org)
                                 /\ Client(key, "orgkey") /\ UNCHANGED faults
    <2>1. PICK key \in KeyIds : /\ CreateOrganizationAPIKey(key, org)
                                /\ Client(key, "orgkey") /\ UNCHANGED faults
      BY <1>2
    <2>2. <<"organization", org>> \in {"organization"} \X OrgIds
      BY <1>b
    <2>3. ServerTypeOK' /\ KeysAge /\ OrgsGo /\ keys'[key] = <<"organization", org>>
      BY <1>a, <2>1, <2>2, CreateKeyStep DEF CreateOrganizationAPIKey, Scopes
    <2>4. SecretsTyped /\ CredentialsKnown
      BY <1>a, <2>1, <2>2, <2>3
         DEF Client, secretVars, SecretsOK, SecretsTyped, CredentialsKnown, KeyRefs
    <2> QED
      BY <1>0, <2>1, <2>3, <2>4, ContinueKeepsIInv DEF Client
  <1>3. CASE \E key \in KeyIds : CreateOrganizationAPIKey(key, org) /\ Fault /\ GiveUp
    <2>1. PICK key \in KeyIds : CreateOrganizationAPIKey(key, org) /\ Fault /\ GiveUp
      BY <1>3
    <2>2. <<"organization", org>> \in Scopes
      BY <1>b DEF Scopes
    <2>3. ServerTypeOK' /\ KeysAge /\ OrgsGo
      BY <1>a, <2>1, <2>2, CreateKeyStep DEF CreateOrganizationAPIKey
    <2> QED
      BY <1>0, <2>1, <2>3, GiveUpKeepsIInv
  <1>4. CASE Fails(~GetOrganization(org)) /\ GiveUp /\ UNCHANGED serverVars
    BY <1>0, <1>a, <1>4, ServerRests, GiveUpKeepsIInv DEF Fails
  <1> QED
    BY <1>1, <1>2, <1>3, <1>4 DEF EnsureClient, org

LEMMA CacheOrgKeyKeepsIInv == IInv /\ CacheOrgKey => IInv'
  <1> SUFFICES ASSUME IInv, CacheOrgKey PROVE IInv'
    OBVIOUS
  <1>0. place["project"] # "idle" /\ Authorized \in Places \ {"idle"}
        /\ Authorized \notin {"create", "keys", "mint", "store", "status"}
    BY DEF CacheOrgKey, AtProject, Authorized, Places
  <1>a. ServerTypeOK' /\ KeysAge /\ OrgsGo /\ SecretsOK
    BY <1>0, ProjectFacts, ServerRests DEF CacheOrgKey
  <1>1. CASE /\ SetSecret("orgkey", client.auth) \/ UNCHANGED <<secretVars, faults>>
             /\ Continue(Authorized)
             /\ UNCHANGED <<held, client>>
    <2>1. SecretsTyped /\ CredentialsKnown
      BY <1>a, <1>1 DEF SetSecret, secretVars, SecretsOK, SecretsTyped, CredentialsKnown
    <2>2. UNCHANGED faults
      BY <1>1 DEF SetSecret
    <2> QED
      BY <1>0, <1>a, <1>1, <2>1, <2>2, ContinueKeepsIInv
  <1>2. CASE Fault /\ GiveUp
    BY <1>0, <1>a, <1>2, GiveUpKeepsIInv
  <1> QED
    BY <1>1, <1>2 DEF CacheOrgKey

LEMMA SyncProjectKeepsIInv == IInv /\ SyncProject => IInv'
  <1> SUFFICES ASSUME IInv, SyncProject PROVE IInv'
    OBVIOUS
  <1>0. place["project"] # "idle" /\ "keys" \in Places \ {"idle"} /\ "create" \in Places \ {"idle"}
    BY DEF SyncProject, AtProject, Places
  <1>a. ServerTypeOK' /\ KeysAge /\ OrgsGo /\ SecretsOK
    BY <1>0, ProjectFacts, ServerRests DEF SyncProject
  <1>1. CASE /\ GetProject(client.auth, Project.id)
             /\ Continue("keys") /\ UNCHANGED <<held, client, secretVars, faults>>
    <2>1. Project.id # None
      BY <1>1 DEF GetProject
    <2> QED
      BY <1>0, <1>a, <1>1, <2>1, CredentialsRest, ContinueKeepsIInv
  <1>2. CASE /\ Fails(~GetProject(client.auth, Project.id))
             /\ \E p \in ListProjects(client.auth) : held' = [held EXCEPT !["project"].id = p]
             /\ Continue("keys")
             /\ UNCHANGED <<client, secretVars>>
    BY <1>0, <1>a, <1>2, FoundProjectKeepsIInv DEF ListProjects, Fails
  <1>3. CASE /\ Fails(~GetProject(client.auth, Project.id))
             /\ ListProjects(client.auth) = {}
             /\ Continue("create")
             /\ UNCHANGED <<held, client, secretVars>>
    <2>a. place'["project"] = "create"
      BY PartsOfIInv, <1>3 DEF Continue, Go, ObjectsOK, IsMap, Kinds
    <2>1. ProjectSearchStands'
      BY <1>3, <2>a DEF SyncProject, serverVars, ProjectSearchStands, ListProjects, ScopeOf
    <2> QED
      BY <1>0, <1>a, <1>3, <2>1, CredentialsRest, ContinueKeepsIInv DEF Fails
  <1>4. CASE Fails(~Accepted(client.auth)) /\ ProjectFails
    BY <1>0, <1>a, <1>4, ProjectFailsKeepsIInv DEF Fails
  <1> QED
    BY <1>1, <1>2, <1>3, <1>4 DEF SyncProject

LEMMA MakeProjectKeepsIInv == IInv /\ MakeProject => IInv'
  <1> SUFFICES ASSUME IInv, MakeProject PROVE IInv'
    OBVIOUS
  <1>0. place["project"] # "idle"
    BY DEF MakeProject, AtProject
  <1>a. ServerTypeOK /\ (Accepted(client.auth) => ScopeOf(client.auth) \in OrgIds)
    BY <1>0, ProjectFacts
  <1>1. CASE \E p \in ProjectIds :
                /\ Accepted(client.auth)
                /\ CreateProject(client.auth, p)
                /\ \/ /\ held' = [held EXCEPT !["project"].id = p]
                      /\ Continue("keys")
                      /\ UNCHANGED <<client, secretVars, faults>>
                   \/ Fault /\ ProjectFails
    <2>1. PICK p \in ProjectIds :
                /\ Accepted(client.auth)
                /\ CreateProject(client.auth, p)
                /\ \/ /\ held' = [held EXCEPT !["project"].id = p]
                      /\ Continue("keys")
                      /\ UNCHANGED <<client, secretVars, faults>>
                   \/ Fault /\ ProjectFails
      BY <1>1
    <2>2. ServerTypeOK' /\ KeysAge /\ OrgsGo
      BY <1>a, <2>1, CreateProjectStep
    <2> QED
      BY <1>0, <2>1, <2>2, FoundProjectKeepsIInv, ProjectFailsKeepsIInv
  <1>2. CASE Fails(~Accepted(client.auth)) /\ ProjectFails /\ UNCHANGED serverVars
    BY <1>0, <1>a, <1>2, ServerRests, ProjectFailsKeepsIInv DEF Fails
  <1> QED
    BY <1>1, <1>2 DEF MakeProject

\* The project's own key: checked, made, stored.
LEMMA KeysKeepIInv == IInv /\ (CheckKey \/ MintKey \/ StoreKey) => IInv'
  <1> SUFFICES ASSUME IInv, CheckKey \/ MintKey \/ StoreKey PROVE IInv'
    OBVIOUS
  <1>0. /\ place["project"] # "idle"
        /\ {"status", "mint", "store"} \subseteq Places \ {"idle"}
    BY DEF CheckKey, MintKey, StoreKey, AtProject, Places
  <1>a. /\ ServerTypeOK /\ SecretsOK /\ Project.id \in ProjectIds \cup {None}
        /\ client \in [auth : KeyRefs, minted : KeyRefs]
        /\ secrets \in [{"orgkey", "apikey"} -> KeyRefs] /\ Project.id # None
    BY <1>0, ProjectFacts, PartsOfIInv
       DEF SecretsOK, ProjectSearchStands, CheckKey, MintKey, StoreKey, AtProject
  <1>1. CASE CheckKey
    <2>1. ServerTypeOK' /\ KeysAge /\ OrgsGo
      BY <1>a, <1>1, ServerRests DEF CheckKey
    <2>2. CASE Continue("status") /\ UNCHANGED <<held, client, secretVars, faults>>
      BY <1>0, <1>a, <2>1, <2>2, CredentialsRest, ContinueKeepsIInv
    <2>3. CASE /\ SetSecret("apikey", None) \/ UNCHANGED <<secretVars, faults>>
               /\ Continue("mint")
               /\ UNCHANGED <<held, client>>
      <3>1. SecretsTyped /\ CredentialsKnown /\ UNCHANGED faults
        BY <1>a, <2>3 DEF SetSecret, secretVars, SecretsOK, SecretsTyped, CredentialsKnown, KeyRefs
      <3> QED
        BY <1>0, <1>a, <2>1, <2>3, <3>1, ContinueKeepsIInv
    <2>4. CASE Fails(~GetProject(client.auth, Project.id)) /\ ProjectFails
      BY <1>0, <2>1, <2>4, ProjectFailsKeepsIInv DEF Fails
    <2> QED
      BY <1>1, <2>2, <2>3, <2>4 DEF CheckKey
  <1>2. CASE MintKey
    <2>1. CASE \E key \in KeyIds :
                  /\ GetProject(client.auth, Project.id)
                  /\ CreateAPIKey(key, Project.id)
                  /\ \/ /\ client' = [client EXCEPT !.minted = key]
                        /\ Continue("store")
                        /\ UNCHANGED <<held, secretVars, faults>>
                     \/ Fault /\ ProjectFails
      <3>1. PICK key \in KeyIds :
                  /\ GetProject(client.auth, Project.id)
                  /\ CreateAPIKey(key, Project.id)
                  /\ \/ /\ client' = [client EXCEPT !.minted = key]
                        /\ Continue("store")
                        /\ UNCHANGED <<held, secretVars, faults>>
                     \/ Fault /\ ProjectFails
        BY <2>1
      <3>2. <<"project", Project.id>> \in Scopes
        BY <1>a, <3>1 DEF GetProject, Scopes
      <3>3. ServerTypeOK' /\ KeysAge /\ OrgsGo
        BY <1>a, <3>1, <3>2, CreateKeyStep DEF CreateAPIKey
      <3>4. CASE /\ client' = [client EXCEPT !.minted = key]
                 /\ Continue("store")
                 /\ UNCHANGED <<held, secretVars, faults>>
        <4>1. SecretsTyped /\ CredentialsKnown
          BY <1>a, <3>4 DEF secretVars, SecretsOK, SecretsTyped, CredentialsKnown, KeyRefs
        <4> QED
          BY <1>0, <1>a, <3>3, <3>4, <4>1, ContinueKeepsIInv
      <3>5. CASE Fault /\ ProjectFails
        BY <1>0, <3>3, <3>5, ProjectFailsKeepsIInv
      <3> QED
        BY <3>1, <3>4, <3>5
    <2>2. CASE /\ Fails(~GetProject(client.auth, Project.id))
               /\ ProjectFails
               /\ UNCHANGED serverVars
      BY <1>0, <1>a, <2>2, ServerRests, ProjectFailsKeepsIInv DEF Fails
    <2> QED
      BY <1>2, <2>1, <2>2 DEF MintKey
  <1>3. CASE StoreKey
    <2>1. ServerTypeOK' /\ KeysAge /\ OrgsGo
      BY <1>a, <1>3, ServerRests DEF StoreKey
    <2>2. CASE /\ SetSecret("apikey", client.minted) \/ UNCHANGED <<secretVars, faults>>
               /\ Continue("status")
               /\ UNCHANGED <<held, client>>
      <3>1. SecretsTyped /\ CredentialsKnown /\ UNCHANGED faults
        BY <1>a, <2>2 DEF SetSecret, secretVars, SecretsOK, SecretsTyped, CredentialsKnown
      <3> QED
        BY <1>0, <1>a, <2>1, <2>2, <3>1, ContinueKeepsIInv
    <2>3. CASE Fault /\ ProjectFails
      BY <1>0, <2>1, <2>3, ProjectFailsKeepsIInv
    <2> QED
      BY <1>3, <2>2, <2>3 DEF StoreKey
  <1> QED
    BY <1>1, <1>2, <1>3

\* The deletion of a project: each step is best effort and goes on.
LEMMA ProjectDeletionKeepsIInv == IInv /\ (RevokeKey \/ PurgeProject \/ DeleteSecret) => IInv'
  <1> SUFFICES ASSUME IInv, RevokeKey \/ PurgeProject \/ DeleteSecret PROVE IInv'
    OBVIOUS
  <1>0. /\ place["project"] # "idle"
        /\ {"purge", "secret", "release"} \subseteq Places \ {"idle"}
    BY DEF RevokeKey, PurgeProject, DeleteSecret, AtProject, Places
  <1>a. /\ ServerTypeOK /\ SecretsOK /\ Project.id \in ProjectIds \cup {None}
        /\ secrets \in [{"orgkey", "apikey"} -> KeyRefs]
        /\ Accepted(client.auth) => ScopeOf(client.auth) \in OrgIds
    BY <1>0, ProjectFacts DEF SecretsOK
  <1>1. CASE RevokeKey
    <2>1. ServerTypeOK' /\ KeysAge /\ OrgsGo
      BY <1>a, <1>1, ServerRests, DeleteKeyStep DEF RevokeKey, Valid, ListAPIKeys
    <2>2. /\ Continue(IF Project.purge THEN "purge" ELSE "secret")
          /\ UNCHANGED <<held, client, secretVars>> /\ (Fault \/ UNCHANGED faults)
      BY <1>1 DEF RevokeKey
    <2> QED
      BY <1>0, <1>a, <2>1, <2>2, CredentialsRest, ContinueKeepsIInv
  <1>2. CASE PurgeProject
    <2>1. GetProject(client.auth, Project.id) =>
             Project.id \in ProjectIds /\ projects[Project.id] # Unused
      BY <1>a, ValuesAssumption DEF GetProject
    <2>3. ServerTypeOK' /\ KeysAge /\ OrgsGo
      BY <1>a, <1>2, <2>1, ServerRests, DeleteProjectStep DEF PurgeProject
    <2>4. /\ Continue("secret")
          /\ UNCHANGED <<held, client, secretVars>> /\ (Fault \/ UNCHANGED faults)
      BY <1>2 DEF PurgeProject, Fails
    <2> QED
      BY <1>0, <1>a, <2>3, <2>4, CredentialsRest, ContinueKeepsIInv
  <1>3. CASE DeleteSecret
    <2>1. ServerTypeOK' /\ KeysAge /\ OrgsGo
      BY <1>a, <1>3, ServerRests DEF DeleteSecret
    <2>2. /\ Continue("release") /\ UNCHANGED <<held, client>>
          /\ SetSecret("apikey", None) \/ UNCHANGED secretVars
          /\ Fault \/ UNCHANGED faults
      BY <1>3 DEF DeleteSecret, SetSecret
    <2>3. SecretsTyped /\ CredentialsKnown
      BY <1>a, <2>2 DEF SetSecret, secretVars, SecretsOK, SecretsTyped, CredentialsKnown, KeyRefs
    <2> QED
      BY <1>0, <2>1, <2>2, <2>3, ContinueKeepsIInv
  <1> QED
    BY <1>1, <1>2, <1>3

\* The beginning and the end of a project pass.
LEMMA ProjectEndsKeepIInv ==
    IInv /\ ( \/ Get("project") \/ AddFinalizer("project") \/ ResolveProjectFails
              \/ Synced("project") \/ RemoveFinalizer("project") ) => IInv'
  <1> SUFFICES ASSUME IInv, \/ Get("project") \/ AddFinalizer("project")
                            \/ ResolveProjectFails \/ Synced("project")
                            \/ RemoveFinalizer("project")
               PROVE  IInv'
    OBVIOUS
  <1>a. ServerTypeOK /\ ObjectsOK /\ SecretsOK /\ "project" \in Kinds
    BY PartsOfIInv DEF Kinds
  <1>1. CASE ResolveProjectFails
    BY <1>a, <1>1, ServerRests, GiveUpKeepsIInv DEF ResolveProjectFails, AtProject
  <1>2. CASE Get("project") \/ AddFinalizer("project") \/ Synced("project")
               \/ RemoveFinalizer("project")
    <2>1. UNCHANGED serverVars /\ UNCHANGED <<secrets, secretsSeen, up>>
      BY <1>2 DEF Get, AddFinalizer, Synced, Report, RemoveFinalizer, secretVars
    <2>2. BoundsOK'
      BY <1>a, <1>2, FaultCounts, LagCounts
         DEF AddFinalizer, Synced, Report, RemoveFinalizer, Fails, secretVars
    <2>a. Synced("project") => held["project"].id # None
      BY <1>a, IdentifierNoted DEF Synced
    <2>3. ServerTypeOK' /\ KeysAge /\ OrgsGo
      BY <1>a, <2>1, ServerRests
    <2>4. /\ ObjectsOK' /\ OthersWait("project")
          /\ place'["project"] \in {"delete", "resolve", "idle"}
          /\ client' = client \/ client' = NoClient
      BY <1>a, <1>2, <2>a, GetStep, AddFinalizerStep, SyncedStep, RemoveFinalizerStep
         DEF Get, AddFinalizer
    <2>5. ProjectSearchStands'
      BY <2>4 DEF ProjectSearchStands
    <2>6. SecretsOK'
      BY <1>a, <2>1, <2>3, <2>4, SecretsMove DEF SecretsOK, NoClient, KeyRefs
    <2> QED
      BY <2>1, <2>2, <2>3, <2>4, <2>5, <2>6, ProjectPass
  <1> QED
    BY <1>1, <1>2

LEMMA ProjectKeepsIInv == IInv /\ ProjectController => IInv'
  BY EnsureClientKeepsIInv, CacheOrgKeyKeepsIInv, SyncProjectKeepsIInv, MakeProjectKeepsIInv,
     KeysKeepIInv, ProjectDeletionKeepsIInv, ProjectEndsKeepIInv DEF ProjectController

-----------------------------------------------------------------------------
(* Watches, the garbage collector, the users and the process               *)

\* A step that leaves every pass where it is, or ends it.
LEMMA OthersKeepIInv ==
    ASSUME IInv, ServerTypeOK', KeysAge, ProjectsGo, OrgsGo, ObjectsOK',
           \/ UNCHANGED <<held, place, client>>
           \/ (\A k \in Kinds : place'[k] = "idle") /\ client' = NoClient,
           SecretsTyped, CredentialsKnown, up' \in BOOLEAN, Fault \/ UNCHANGED faults
    PROVE  IInv'
  <1>0. ServerTypeOK /\ SecretsOK /\ OrgSearchStands /\ ProjectSearchStands
       
    BY PartsOfIInv
  <1>1. SecretsOK'
    BY <1>0, SecretsMove DEF SecretsTyped, CredentialsKnown
  <1>2. OrgSearchStands'
    BY <1>0, OrgSearchRests DEF Kinds
  <1>3. ProjectSearchStands'
    BY <1>0, ProjectSearchRests DEF Kinds
  <1> QED
    BY <1>1, <1>2, <1>3, FaultCounts, PartsMakeIInv DEF Parts, SecretsTyped

\* Langfuse and the Secrets as others leave them.
LEMMA OutsideStep ==
    ASSUME ServerTypeOK, Outside
    PROVE  ServerTypeOK' /\ KeysAge /\ ProjectsGo /\ OrgsGo
  <1>1. ASSUME NEW o \in OrgIds, NEW e \in Emails, NEW role \in Roles \cup {None},
               GetOrganization(o), SetOrgMembers(o, [orgs[o].members EXCEPT ![e] = role])
        PROVE  ServerTypeOK' /\ KeysAge /\ ProjectsGo /\ OrgsGo
    <2>1. orgs[o] \notin Absent /\ orgs[o].members \in Memberships
      BY <1>1 DEF GetOrganization, ServerTypeOK, Organizations
    <2>2. [orgs[o].members EXCEPT ![e] = role] \in Memberships
      BY <2>1 DEF Memberships
    <2> QED
      BY <1>1, <2>1, <2>2, SetOrgMembersStep
  <1>2. ASSUME NEW p \in ProjectIds, projects[p] \notin Absent, DeleteProject(p)
        PROVE  ServerTypeOK' /\ KeysAge /\ ProjectsGo /\ OrgsGo
    BY <1>2, DeleteProjectStep DEF Absent
  <1> QED
    BY <1>1, <1>2, DeleteOrganizationStep, DeleteKeyStep DEF Outside, GetOrganization

LEMMA EnvironmentKeepsIInv ==
    IInv /\ ( \/ \E k \in Kinds : Watch(k) \/ Delete(k)
              \/ WatchSecrets \/ CollectGarbage \/ Create \/ Rename \/ Outside \/ FlipInstance
              \/ Restart \/ UNCHANGED vars ) => IInv'
  <1> SUFFICES ASSUME IInv, \/ \E k \in Kinds : Watch(k) \/ Delete(k)
                            \/ WatchSecrets \/ CollectGarbage \/ Create \/ Rename \/ Outside
                            \/ FlipInstance \/ Restart \/ UNCHANGED vars
               PROVE  IInv'
    OBVIOUS
  <1>a. ServerTypeOK /\ ObjectsOK /\ SecretsOK /\ up \in BOOLEAN
        /\ client \in [auth : KeyRefs, minted : KeyRefs]
        /\ secrets \in [{"orgkey", "apikey"} -> KeyRefs]
        /\ secretsSeen \in [{"orgkey", "apikey"} -> KeyRefs]
    BY PartsOfIInv DEF SecretsOK
  <1>1. CASE (\E k \in Kinds : Watch(k) \/ Delete(k)) \/ Create \/ Rename
    <2>1. UNCHANGED serverVars /\ UNCHANGED <<client, secretVars>> /\ up' = up
          /\ (Fault \/ UNCHANGED faults)
      BY <1>1 DEF Watch, Delete, Create, Rename
    <2>2. ObjectsOK' /\ UNCHANGED <<held, place>>
      BY <1>a, <1>1, WatchStep, DeleteStep, CreateStep, RenameStep
    <2> QED
      BY <1>a, <2>1, <2>2, ServerRests, CredentialsRest, OthersKeepIInv
  <1>2. CASE WatchSecrets \/ CollectGarbage
    <2>1. /\ UNCHANGED serverVars /\ UNCHANGED objectVars /\ client' = client /\ up' = up
          /\ UNCHANGED faults
      BY <1>2 DEF WatchSecrets, CollectGarbage
    <2>2. SecretsTyped /\ CredentialsKnown
      BY <1>a, <1>2, <2>1 DEF WatchSecrets, CollectGarbage, SecretsTyped, CredentialsKnown, KeyRefs
    <2>3. ObjectsOK' /\ UNCHANGED <<held, place>>
      BY <1>a, <2>1 DEF objectVars, ObjectsOK, IsMap, AllKindsOK
    <2> QED
      BY <1>a, <2>1, <2>2, <2>3, ServerRests, OthersKeepIInv
  <1>3. CASE Outside \/ FlipInstance \/ UNCHANGED vars
    <2>1. /\ UNCHANGED objectVars /\ UNCHANGED <<client, secretVars>> /\ up' \in BOOLEAN
          /\ Fault \/ UNCHANGED faults
      BY <1>a, <1>3 DEF Outside, FlipInstance, vars
    <2>2. ServerTypeOK' /\ KeysAge /\ ProjectsGo /\ OrgsGo
      BY <1>a, <1>3, OutsideStep, ServerRests DEF FlipInstance, vars
    <2>3. ObjectsOK' /\ UNCHANGED <<held, place>>
      BY <1>a, <2>1 DEF objectVars, ObjectsOK, IsMap, AllKindsOK
    <2> QED
      BY <1>a, <2>1, <2>2, <2>3, CredentialsRest, OthersKeepIInv
  <1>4. CASE Restart
    <2>1. /\ UNCHANGED serverVars /\ client' = NoClient /\ UNCHANGED <<secrets, lags, up>>
          /\ secretsSeen' = secrets /\ Fault
      BY <1>4 DEF Restart
    <2>2. SecretsTyped /\ CredentialsKnown
      BY <1>a, <2>1 DEF SecretsTyped, CredentialsKnown, NoClient, KeyRefs
    <2>3. ObjectsOK' /\ \A k \in Kinds : place'[k] = "idle"
      BY <1>a, <1>4, RestartStep
    <2> QED
      BY <1>a, <2>1, <2>2, <2>3, ServerRests, OthersKeepIInv
  <1> QED
    BY <1>1, <1>2, <1>3, <1>4

-----------------------------------------------------------------------------
(* The theorems                                                            *)

LEMMA InitEstablishesIInv == Init => IInv
  <1> SUFFICES ASSUME Init PROVE IInv
    OBVIOUS
  <1> DEFINE new == NewObject
  <1>1. new \in Objects /\ new.id = None /\ Identified(new)
    BY NewObjectFacts
  <1> HIDE DEF new
  <1>2. /\ obj = [k \in Kinds |-> IF k = "organization" THEN new ELSE Unused]
        /\ seen = obj /\ held = [k \in Kinds |-> None]
        /\ current = [k \in Kinds |-> {"seen"}] /\ place = [k \in Kinds |-> "idle"]
    BY DEF Init, new
  <1>3. ASSUME NEW k \in Kinds
        PROVE  KindOK(k, obj[k], seen[k], held[k], current[k], place[k])
    <2>1. /\ obj[k] = new \/ obj[k] = Unused
          /\ seen[k] = obj[k] /\ held[k] = None /\ current[k] = {"seen"} /\ place[k] = "idle"
      BY <1>2, <1>3
    <2> QED
      BY <1>1, <2>1, ObjectsExist, ValuesAssumption DEF KindOK, Places
  <1>4. ObjectsOK
    BY <1>2, <1>3 DEF ObjectsOK, IsMap, AllKindsOK
  <1>5. ServerTypeOK
    BY DEF Init, ServerInit, ServerTypeOK, Absent
  <1>6. SecretsOK
    BY DEF Init, SecretsOK, NoClient, KeyRefs, CredentialsMatch, OrgCredential
  <1>7. OrgSearchStands /\ ProjectSearchStands
    BY <1>2 DEF OrgSearchStands, ProjectSearchStands, Kinds
  <1>8. up \in BOOLEAN /\ BoundsOK
    BY TenancyBoundAssumption DEF Init, BoundsOK
  <1> QED
    BY <1>4, <1>5, <1>6, <1>7, <1>8, PartsOfIInv

LEMMA NextKeepsIInv == IInv /\ [Next]_vars => IInv'
  BY OrganizationKeepsIInv, ProjectKeepsIInv, EnvironmentKeepsIInv DEF Next

\* The invariant that the other theorems rest on, for every number of organizations,
\* projects, keys and disturbances.
THEOREM InvariantHolds == Spec => []IInv
  BY InitEstablishesIInv, NextKeepsIInv, PTL DEF Spec

\* Every variable keeps its type, only a running pass holds a copy, and what Reconcile
\* reports ready has an identifier, in the object, in the cache and in a pass.
THEOREM TypesHold == Spec => []TypeOK
  <1>1. IInv => TypeOK
    BY DEF IInv
  <1> QED
    BY <1>1, InvariantHolds, PTL

-----------------------------------------------------------------------------
(* What a step may create                                                  *)

NoNewOrgs == \A o \in OrgIds : orgs[o] = Unused => orgs'[o] = Unused
NoNewProjects == \A p \in ProjectIds : projects[p] = Unused => projects'[p] = Unused

LEMMA GoingIsNotComing == (OrgsGo => NoNewOrgs) /\ (ProjectsGo => NoNewProjects)
  BY DEF OrgsGo, ProjectsGo, NoNewOrgs, NoNewProjects, Absent

\* The organization controller creates nothing but an organization that it has searched for.
LEMMA OrganizationCreates ==
    ASSUME IInv, OrganizationController
    PROVE  /\ NoNewProjects
           /\ \/ NoNewOrgs
              \/ /\ place["organization"] = "create"
                 /\ \E o \in OrgIds : CreateOrganization(o, Org.name)
  <1>0. ServerTypeOK
    BY PartsOfIInv
  <1>1. ASSUME UNCHANGED serverVars
        PROVE  NoNewProjects /\ NoNewOrgs
    BY <1>1 DEF serverVars, NoNewProjects, NoNewOrgs
  <1>2. CASE MakeOrganization
    <2>1. place["organization"] = "create"
          /\ \E o \in OrgIds : CreateOrganization(o, Org.name) \/ UNCHANGED serverVars
      BY <1>2 DEF MakeOrganization, AtOrg
    <2> QED
      BY <1>1, <2>1 DEF CreateOrganization, NoNewProjects
  <1>3. CASE SyncOrganization
    <2>1. /\ place["organization"] = "resolve"
          /\ \/ UNCHANGED serverVars
             \/ GetOrganization(Org.id) /\ UpdateOrganization(Org.id, Org.name)
      BY <1>3 DEF SyncOrganization, AtOrg
    <2>2. ASSUME GetOrganization(Org.id), UpdateOrganization(Org.id, Org.name)
          PROVE  NoNewProjects /\ NoNewOrgs
      <3>1. Org.id \in OrgIds /\ orgs[Org.id] \notin Absent /\ Org.name \in Names
        BY <2>1, <2>2, OrgFacts DEF GetOrganization
      <3>2. /\ projects' = projects
            /\ \A p \in OrgIds \ {Org.id} : orgs'[p] = orgs[p]
        BY <1>0, <2>2, <3>1, UpdateOrganizationStep DEF UpdateOrganization
      <3> QED
        BY <3>1, <3>2 DEF NoNewProjects, NoNewOrgs, Absent
    <2> QED
      BY <1>1, <2>1, <2>2
  <1>4. CASE SyncMembers
    <2>1. /\ place["organization"] = "members"
          /\ \/ UNCHANGED serverVars
             \/ GetOrganization(Org.id) /\ \E m : SetOrgMembers(Org.id, m)
      BY <1>4 DEF SyncMembers, AtOrg
    <2>2. ASSUME GetOrganization(Org.id), NEW m, SetOrgMembers(Org.id, m)
          PROVE  NoNewProjects /\ NoNewOrgs
      <3>1. Org.id \in OrgIds /\ orgs[Org.id] \notin Absent
        BY <2>1, <2>2, OrgFacts DEF GetOrganization
      <3>2. /\ projects' = projects
            /\ \A p \in OrgIds \ {Org.id} : orgs'[p] = orgs[p]
        BY <1>0, <2>2, <3>1 DEF SetOrgMembers, ServerTypeOK
      <3> QED
        BY <3>1, <3>2 DEF NoNewProjects, NoNewOrgs, Absent
    <2> QED
      BY <1>1, <2>1, <2>2
  <1>5. CASE CleanUpOrganization
    <2>1. /\ place["organization"] = "cleanup"
          /\ \/ UNCHANGED serverVars
             \/ GetOrganization(Org.id) /\ DeleteOrganization(Org.id)
      BY <1>5 DEF CleanUpOrganization, AtOrg
    <2>2. ASSUME GetOrganization(Org.id), DeleteOrganization(Org.id)
          PROVE  NoNewProjects /\ NoNewOrgs
      <3>1. Org.id \in OrgIds /\ orgs[Org.id] \notin Absent
        BY <2>1, <2>2, OrgFacts DEF GetOrganization
      <3> QED
        BY <1>0, <2>2, <3>1, DeleteOrganizationStep, GoingIsNotComing
    <2> QED
      BY <1>1, <2>1, <2>2
  <1>6. CASE UNCHANGED serverVars
    BY <1>1, <1>6
  <1> QED
    BY <1>2, <1>3, <1>4, <1>5, <1>6
       DEF OrganizationController, Get, AddFinalizer, ResolveFails, Synced, CountDependents,
           RemoveFinalizer

\* The project controller creates nothing but keys and a project that it has searched for.
LEMMA ProjectCreates ==
    ASSUME IInv, ProjectController
    PROVE  /\ NoNewOrgs
           /\ \/ NoNewProjects
              \/ /\ place["project"] = "create" /\ Accepted(client.auth)
                 /\ \E p \in ProjectIds : CreateProject(client.auth, p)
  <1>0. ServerTypeOK
    BY PartsOfIInv
  <1>1. ASSUME UNCHANGED <<orgs, projects>>
        PROVE  NoNewProjects /\ NoNewOrgs
    BY <1>1 DEF NoNewProjects, NoNewOrgs
  <1>2. CASE MakeProject
    <2>1. /\ place["project"] = "create"
          /\ \/ UNCHANGED <<orgs, projects>>
             \/ /\ Accepted(client.auth)
                /\ \E p \in ProjectIds : CreateProject(client.auth, p)
      BY <1>2 DEF MakeProject, AtProject, serverVars
    <2> QED
      BY <1>1, <2>1 DEF CreateProject, NoNewOrgs
  <1>3. CASE PurgeProject
    <2>1. /\ place["project"] = "purge"
          /\ \/ UNCHANGED <<orgs, projects>>
             \/ GetProject(client.auth, Project.id) /\ DeleteProject(Project.id)
      BY <1>3 DEF PurgeProject, AtProject, serverVars
    <2>2. GetProject(client.auth, Project.id) =>
             Project.id \in ProjectIds /\ projects[Project.id] # Unused
      BY <2>1, ProjectFacts, ValuesAssumption DEF GetProject
    <2> QED
      BY <1>0, <1>1, <2>1, <2>2, DeleteProjectStep, GoingIsNotComing
  <1>4. CASE EnsureClient \/ MintKey
    <2>1. UNCHANGED <<orgs, projects>>
      BY <1>4 DEF EnsureClient, MintKey, CreateOrganizationAPIKey, CreateAPIKey, CreateKey,
                  serverVars
    <2> QED
      BY <1>1, <2>1
  <1>5. CASE RevokeKey
    BY <1>1, <1>5 DEF RevokeKey, DeleteAPIKey, serverVars
  <1>6. CASE UNCHANGED serverVars
    BY <1>1, <1>6 DEF serverVars
  <1> QED
    BY <1>2, <1>3, <1>4, <1>5, <1>6
       DEF ProjectController, Get, AddFinalizer, ResolveProjectFails, CacheOrgKey, SyncProject,
           CheckKey, StoreKey, Synced, DeleteSecret, RemoveFinalizer

\* Nobody else creates anything.
LEMMA OthersCreateNothing ==
    ASSUME IInv,
           \/ \E k \in Kinds : Watch(k) \/ Delete(k)
           \/ WatchSecrets \/ CollectGarbage \/ Create \/ Rename \/ Outside \/ FlipInstance
           \/ Restart \/ UNCHANGED vars
    PROVE  NoNewOrgs /\ NoNewProjects
  <1>1. CASE Outside
    BY <1>1, PartsOfIInv, OutsideStep, GoingIsNotComing
  <1>2. CASE UNCHANGED serverVars
    BY <1>2 DEF serverVars, NoNewOrgs, NoNewProjects
  <1> QED
    BY <1>1, <1>2 DEF Watch, Delete, WatchSecrets, CollectGarbage, Create, Rename, FlipInstance,
                      Restart, vars

\* syncOrganization and syncProject: whatever answers are lost, passes repeated and
\* processes restarted, an organization or a project is created only when none has its name.
THEOREM NothingIsMadeTwice == Spec => CreatesNoTwin
  <1> DEFINE Step ==
         /\ \A o \in OrgIds : orgs[o] = Unused /\ orgs'[o] # Unused
                                 => ListOrganizations(orgs'[o].name) = {}
         /\ \A p \in ProjectIds : projects[p] = Unused /\ projects'[p] # Unused
                                 => \A q \in ProjectIds : projects[q] # projects'[p]
  <1>1. ASSUME IInv, [Next]_vars
        PROVE  Step
    <2>0. ServerTypeOK /\ OrgSearchStands /\ ProjectSearchStands
      BY <1>1, PartsOfIInv
    <2>1. CASE NoNewOrgs /\ NoNewProjects
      BY <2>1 DEF NoNewOrgs, NoNewProjects
    <2>2. CASE /\ NoNewProjects
               /\ place["organization"] = "create"
               /\ \E o \in OrgIds : CreateOrganization(o, Org.name)
      <3>1. PICK o \in OrgIds : CreateOrganization(o, Org.name)
        BY <2>2
      <3>2. Org.name \in Names /\ ListOrganizations(Org.name) = {}
        BY <1>1, <2>0, <2>2, OrgFacts DEF OrgSearchStands
      <3>3. orgs'[o].name = Org.name /\ \A p \in OrgIds \ {o} : orgs'[p] = orgs[p]
        BY <2>0, <3>1, <3>2, CreateOrganizationStep
      <3> QED
        BY <2>2, <3>2, <3>3 DEF NoNewProjects
    <2>3. CASE /\ NoNewOrgs
               /\ place["project"] = "create" /\ Accepted(client.auth)
               /\ \E p \in ProjectIds : CreateProject(client.auth, p)
      <3>1. PICK p \in ProjectIds : CreateProject(client.auth, p)
        BY <2>3
      <3>2. ScopeOf(client.auth) \in OrgIds /\ ListProjects(client.auth) = {}
        BY <1>1, <2>0, <2>3, ProjectFacts DEF ProjectSearchStands
      <3>3. /\ projects'[p] = ScopeOf(client.auth)
            /\ \A q \in ProjectIds \ {p} : projects'[q] = projects[q]
        BY <2>0, <3>1, <3>2, CreateProjectStep
      <3> QED
        BY <2>3, <3>2, <3>3 DEF NoNewOrgs, ListProjects
    <2> QED
      BY <1>1, <2>1, <2>2, <2>3, OrganizationCreates, ProjectCreates, OthersCreateNothing DEF Next
  <1> HIDE DEF Step
  <1>2. Spec => [][Step]_vars
    BY <1>1, InvariantHolds, PTL DEF Spec
  <1> QED
    BY <1>2 DEF CreatesNoTwin, Step

-----------------------------------------------------------------------------
(* Who writes the identifier of the organization                           *)

\* The step leaves the identifier of the organization as it is, or there is none after it.
SameIdentifier ==
    \/ obj["organization"] \in Absent
    \/ obj'["organization"] \in Absent
    \/ obj'["organization"].id = obj["organization"].id

\* The identifier is that of an organization that was found or made for the object's name.
FoundIdentifier ==
    LET new == obj'["organization"] IN
    /\ new.id \in OrgIds
    /\ orgs[new.id] = Gone \/ new.id \in ListOrganizations(new.name)

\* A status write at the end of an organization pass.
LEMMA ReportedIdentifier ==
    ASSUME IInv, place["organization"] # "idle", NEW b \in BOOLEAN,
           b => held["organization"].id # None,
           Report("organization", [held["organization"] EXCEPT !.ready = b])
    PROVE  SameIdentifier \/ FoundIdentifier
  <1> DEFINE k == "organization"
             new == [held[k] EXCEPT !.ready = b]
  <1>0. /\ k \in Kinds /\ Org \in Objects /\ ObjectsOK /\ ServerTypeOK /\ OrgSearchStands
    BY OrgFacts
  <1>1. \/ obj'[k] = obj[k]
        \/ "held" \in current[k] /\ obj'[k] = new
    BY <1>0, ReportStep
  <1>2. new.id = Org.id /\ new.name = Org.name
    BY <1>0 DEF Org, Objects
  <1>3. CASE obj'[k] = obj[k]
    BY <1>3 DEF SameIdentifier
  <1>4. CASE "held" \in current[k] /\ obj'[k] = new
    <2>1. CASE place[k] \notin {"members", "status"}
      <3>1. Org.id = obj[k].id
        BY <1>0, <1>4, <2>1 DEF ObjectsOK, AllKindsOK, KindOK, Org
      <3> QED
        BY <1>2, <1>4, <3>1 DEF SameIdentifier
    <2>2. CASE place[k] \in {"members", "status"}
      <3>1. /\ Org.id \in OrgIds /\ orgs[Org.id] # Unused
            /\ orgs[Org.id] # Gone => orgs[Org.id].name = Org.name
        BY <1>0, <2>2 DEF OrgSearchStands
      <3> QED
        BY <1>2, <1>4, <3>1 DEF FoundIdentifier, ListOrganizations, Absent
    <2> QED
      BY <2>1, <2>2
  <1> QED
    BY <1>1, <1>3, <1>4

LEMMA OrganizationIdentifies ==
    ASSUME IInv, OrganizationController
    PROVE  SameIdentifier \/ FoundIdentifier
  <1>0. "organization" \in Kinds /\ ObjectsOK
    BY PartsOfIInv DEF Kinds
  <1>1. CASE OrgFails /\ place["organization"] # "idle"
    BY <1>1, ReportedIdentifier DEF OrgFails, NotReady
  <1>2. CASE obj' = obj
    BY <1>2 DEF SameIdentifier
  <1>3. CASE AddFinalizer("organization") \/ RemoveFinalizer("organization")
    BY <1>0, <1>3, AddFinalizerStep, RemoveFinalizerStep, ObjectsExist DEF SameIdentifier
  <1>4. CASE Synced("organization")
    <2>1. \/ Report("organization", [held["organization"] EXCEPT !.ready = TRUE])
          \/ obj' = obj
      BY <1>4 DEF Synced, Drop
    <2>2. place["organization"] # "idle" /\ held["organization"].id # None
      BY <1>0, <1>4, IdentifierNoted DEF Synced
    <2> QED
      BY <1>2, <2>1, <2>2, ReportedIdentifier
  <1>5. CASE Get("organization") \/ ResolveFails \/ SyncOrganization
    <2>1. obj' = obj \/ (OrgFails /\ place["organization"] # "idle")
      BY <1>5 DEF Get, ResolveFails, SyncOrganization, Onward, AtOrg
    <2> QED
      BY <1>1, <1>2, <2>1
  <1>6. CASE MakeOrganization \/ SyncMembers \/ CountDependents \/ CleanUpOrganization
    <2>1. obj' = obj \/ (OrgFails /\ place["organization"] # "idle")
      BY <1>6 DEF MakeOrganization, SyncMembers, CountDependents, CleanUpOrganization, Onward,
                  AtOrg
    <2> QED
      BY <1>1, <1>2, <2>1
  <1> QED
    BY <1>3, <1>4, <1>5, <1>6 DEF OrganizationController

LEMMA ProjectIdentifiesNot ==
    ASSUME IInv, ProjectController
    PROVE  SameIdentifier
  <1>0. "organization" \in Kinds /\ "project" \in Kinds /\ ObjectsOK
    BY PartsOfIInv DEF Kinds
  <1>1. ASSUME ProjectFails, place["project"] # "idle"
        PROVE  obj'["organization"] = obj["organization"]
    <2>1. Report("project", [held["project"] EXCEPT !.ready = FALSE])
      BY <1>1 DEF ProjectFails, NotReady
    <2> QED
      BY <1>0, <1>1, <2>1, ReportStep
  <1>2. CASE obj' = obj \/ obj'["organization"] = obj["organization"]
    BY <1>2 DEF SameIdentifier
  <1>3. CASE AddFinalizer("project") \/ RemoveFinalizer("project") \/ Synced("project")
    <2>1. Synced("project") => held["project"].id # None
      BY <1>0, IdentifierNoted DEF Synced
    <2>2. \/ obj'["organization"] = obj["organization"]
          \/ obj'["organization"] = Gone
      <3>1. CASE AddFinalizer("project")
        BY <1>0, <3>1, AddFinalizerStep
      <3>2. CASE RemoveFinalizer("project")
        BY <1>0, <3>2, RemoveFinalizerStep
      <3>3. CASE Synced("project")
        BY <1>0, <2>1, <3>3, SyncedStep
      <3> QED
        BY <1>3, <3>1, <3>2, <3>3
    <2> QED
      BY <2>2, ObjectsExist DEF SameIdentifier
  <1>4. CASE Get("project") \/ ResolveProjectFails \/ EnsureClient \/ CacheOrgKey
    <2>1. obj' = obj \/ (ProjectFails /\ place["project"] # "idle")
      BY <1>4 DEF Get, ResolveProjectFails, EnsureClient, CacheOrgKey, Client, GiveUp, Continue,
                  AtProject
    <2> QED
      BY <1>1, <1>2, <2>1
  <1>5. CASE SyncProject \/ MakeProject \/ CheckKey \/ MintKey \/ StoreKey
    <2>1. obj' = obj \/ (ProjectFails /\ place["project"] # "idle")
      BY <1>5 DEF SyncProject, MakeProject, CheckKey, MintKey, StoreKey, Continue, AtProject
    <2> QED
      BY <1>1, <1>2, <2>1
  <1>6. CASE RevokeKey \/ PurgeProject \/ DeleteSecret
    BY <1>2, <1>6 DEF RevokeKey, PurgeProject, DeleteSecret, Continue
  <1> QED
    BY <1>3, <1>4, <1>5, <1>6 DEF ProjectController

LEMMA OthersIdentifyNot ==
    ASSUME IInv,
           \/ \E k \in Kinds : Watch(k) \/ Delete(k)
           \/ WatchSecrets \/ CollectGarbage \/ Create \/ Rename \/ Outside \/ FlipInstance
           \/ Restart \/ UNCHANGED vars
    PROVE  SameIdentifier
  <1>0. "organization" \in Kinds /\ ObjectsOK
    BY PartsOfIInv DEF Kinds
  <1>1. CASE (\E k \in Kinds : Delete(k)) \/ Create \/ Rename
    BY <1>0, <1>1, DeleteStep, CreateStep, RenameStep, ObjectsExist DEF SameIdentifier
  <1>2. CASE obj' = obj
    BY <1>2 DEF SameIdentifier
  <1> QED
    BY <1>1, <1>2 DEF Watch, WatchSecrets, CollectGarbage, Outside, FlipInstance, Restart, vars,
                      objectVars

\* syncOrganization: an organization that is on record is given up only for another one that
\* was found or made under the object's name, whatever calls fail; while it is the only one
\* with that name, only for one that was deleted before the pass could report it.
THEOREM OrganizationIsKept == Spec => KeepsItsOrganization
  <1> DEFINE Step ==
         \A o \in OrgIds :
            ( /\ Wants("organization")
              /\ obj["organization"].id = o
              /\ obj'["organization"] \notin Absent
              /\ obj'["organization"].id # o )
            => /\ obj'["organization"].id \in OrgIds
               /\ \/ orgs[obj'["organization"].id] = Gone
                  \/ ListOrganizations(obj'["organization"].name) # {o}
  <1>1. ASSUME IInv, [Next]_vars
        PROVE  Step
    <2>1. SameIdentifier \/ FoundIdentifier
      BY <1>1, OrganizationIdentifies, ProjectIdentifiesNot, OthersIdentifyNot DEF Next
    <2> QED
      BY <2>1 DEF SameIdentifier, FoundIdentifier, Wants
  <1> HIDE DEF Step
  <1>2. Spec => [][Step]_vars
    BY <1>1, InvariantHolds, PTL DEF Spec
  <1> QED
    BY <1>2 DEF KeepsItsOrganization, Step
=============================================================================
