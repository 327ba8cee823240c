# Langfuse operator: TLA+ models and proofs

The operator reconciles three custom resources (`LangfuseInstance`,
`LangfuseOrganization`, `LangfuseProject`) with a dozen small controllers. What makes
it hard is that most of them reconcile *the same* `LangfuseInstance`: each reads it from
an informer cache that lags, acts on Kubernetes objects that other controllers also
write, and ends with a write of the whole status, which the API server refuses when
anybody wrote in between. The other two resources mirror things that live in an external
Langfuse server, which knows nothing of resource versions and may answer late or never.

The project models both kinds of sharing and the protocols that depend on them: schema
migrations with the workload they gate, the circuit breaker that shares the worker's
replica count with the instance controller, the Secrets that pods are restarted for, the
reports that the phase is made of, retention in ClickHouse, and organizations, projects and
API keys in Langfuse.

Paths below are relative to the repository (`internal/...`); `PROJECT.json` maps every
definition to its lines.

## 1. Inventory

| Component | State it keeps | Operations | Interacts with |
|---|---|---|---|
| Shared status (`status.go`) | the status subresource | `updateInstanceStatus`, `requeueIf`, `noteStatusWriteFailure` | every controller of the instance |
| Migration controller (`migration_controller.go`, `resources/migration_job.go`) | `status.migration`, condition `MigrationsComplete`, one Job with a fixed name | baseline, refuse, announce, create, replace, record success, report failure, clean up | Job, TTL and garbage-collection controllers of Kubernetes; its record freezes the instance controller |
| Instance controller (`langfuseinstance_controller.go`, `phase.go`) | Deployments, Services, networking, HPA, PDB, managed stores; `status.version`, `phase`, `DatastoreTargetUnchanged` | freeze, config error, server-side applies, `updateStatus` | reads what the other controllers published |
| Circuit breaker (`circuit_breaker.go`) | in-memory failure counts and restore points; `status.worker.circuitBreakerActive` | probe, open, re-assert, recover | patches the worker Deployment that the instance controller applies |
| Health monitor, probes, pod issues (`health_monitor.go`, `health_probes.go`, `pod_issues.go`) | health conditions, issues of each component | probe, diagnose, publish | feeds `derivePhase`; stands still during a migration |
| Secret controller (`secret_controller.go`) | generated Secret, rotation hash | generate, backfill, hash, patch pod templates | the Deployments of the instance controller |
| Organization and project controllers (`langfuseorganization_controller.go`, `langfuseproject_controller.go`, `langfuse/client.go`) | finalizers, ids in the status, key Secrets | search or create, members, keys, delete | each other; an external Langfuse server |
| Retention, schema drift (`retention_controller.go`, `schema_drift_controller.go`, `clickhouse_client.go`) | conditions, ClickHouse TTLs | execute TTL statements, read disks, compare tables | ClickHouse |
| Builders, environment (`resources/`, `langfuse/config.go`) | none | construct objects | called by the controllers |

### What is hard

* **Stale reads.** A decision (freeze? credit this Job? declare a count? make a key?) is
  taken on a cached copy and carried out later, on objects others have changed since.
* **Lost status writes.** A conflict discards everything a pass computed. That is
  harmless only for contributions that the next pass recomputes; the breaker's is not one,
  and neither is the identifier of an organization that was just created.
* **One name, several Jobs.** The migration Job's name does not contain the target. A Job
  of an earlier spec may still run, may have succeeded an hour ago, may be terminating.
* **Formats that grew.** Identities recorded by earlier releases track fewer components,
  Secrets generated by them lack keys.
* **Two field managers.** The breaker patches `spec.replicas`, the secret controller an
  annotation, on Deployments that the instance controller owns by server-side apply.
* **Crashes, restarts, ambiguous errors.** A call may fail after it took effect; a process
  may end between any two calls; in-memory state goes with it. A key is made in Langfuse
  before there is a Secret to hold it.
* **Reports about reports.** The phase is derived from what two other controllers wrote,
  one of which writes the same fields; each write wakes the next.
* **Quiet paths.** Most controllers hear of spec changes only; a path that returns without
  a requeue has to be right for good.

### What correctness means

* Migrations: what is on record really was migrated (`RecordedWasMigrated`); a recorded
  target is never exchanged (`TargetIsPinned`), which together make the record a ledger
  (`ImplementsLedger`); there is one migration pod at a time (`OneMigrationPod`); migrations
  finish or are refused (`MigrationConverges`); earlier instances get a baseline
  (`BaselineIsRecorded`); an identity survives its round trip through a string, and reads
  as a retarget exactly when the target moved (`RoundTrips`, `RetargetIsAMove`).
* Workload: no Deployment is rolled onto a target that was asked for after another had been
  fixed (`WorkloadStaysOnTarget`); a published version is a rolled-out version
  (`VersionIsRolledOut`); the Deployments follow the spec (`WorkloadConverges`); what
  deletion removes stays removed (`DeletionIsFinal`).
* Breaker: the flag is raised only for a dependency that has failed its last
  `failureThreshold` probes (`FlagNeedsOutage`); a lasting outage holds the worker at zero (`OutageHoldsWorkerAtZero`); a closed
  breaker leaves the count to the spec (`ClosedBreakerFollowsSpec`); the worker comes back
  after a recovery (`WorkerIsRestored`, refuted).
* Secrets: a generated value is never replaced (`GeneratedValuesAreKept`), the generated
  Secret becomes complete (`GeneratedSecretCompletes`), every rotation of a
  collected Secret reaches the pods (`RotationReachesPods`), and the restarts end
  (`RestartsCease`).
* Tenancy: nothing is created next to its namesake (`CreatesNoTwin`); the organization on
  record is never given up for none, and, while it alone has the name, only for one that had
  the name and was deleted since (`KeepsItsOrganization`); both objects come to be what they say
  (`OrganizationSettles`, `ProjectSettles`); deletions finish (`DeletionCompletes`); a project
  that loses its organization, because it came after the dependents were counted, is reported
  (`OrphanedProjectIsReported`); while no call fails, a deletion leaves at most one key for every
  pass that did not know the project's Secret (`CleanUpRevokesKeys`), and it leaves none at all
  (`DeletionRevokesKeys`, refuted).
* Reports: the phase comes to say what is the case (`PhaseSettles`), the controllers stop
  writing when nothing changes (`WritesCease`), a retention claim is true of every table that was
  there while it was worked out
  (`ClaimsOnlyWhatIsInPlace`), ClickHouse's conditions come to be right
  (`ClickHouseIsReported`); healthy means `Running` (`HealthyIsRunning`, refuted).

## 2. Modules

| Module | Models | Extends |
|---|---|---|
| `InstanceStore` | the object, the cache, private copies, optimistic status writes, restarts | |
| `MigrationIdentity` | identities as records: equality, retargets, legacy baselines | |
| `TargetLedger` | abstract: what the migration record promises | `MigrationIdentity` |
| `Migration` | migration controller, Job, and the instance controller's roll, freeze, phase | `InstanceStore`, `MigrationIdentity` |
| `IdentityText` | identities as text, written and parsed, in the formats of several releases | `MigrationIdentity` |
| `CircuitBreaker` | breaker and the instance controller's worker | `InstanceStore` |
| `Secrets` | secret controller, Deployments it stamps, pods that read the Secrets | `InstanceStore` |
| `LangfuseServer` | external: the Langfuse server, one operator per call of the client | |
| `Tenancy` | organization and project controllers | `LangfuseServer` |
| `Health` | health monitor, pod issues, phase, readiness, the migration controller's report | `InstanceStore` |
| `Retention` | retention, storage pressure and schema drift, and ClickHouse | `InstanceStore` |
| `Observers` | the five reporting controllers of one instance | `Health`, `Retention` |
| `MCMigration`, `MCIdentityText`, `MCCircuitBreaker`, `MCSecrets`, `MCTenancy`, `MCObservers` | the small instances that TLC checks | |
| `StoreProofs` | what a step of any controller does to the shared object: lemmas for every proof below | `InstanceStore`, `TLAPS` |
| `MigrationProofs` | the migration record: types, truth, pinning, refinement; Jobs and Deployments: one pod, the freeze, published versions | `Migration`, `TLAPS` |
| `IdentityTextProofs` | that an identity reads as it was written, and that a retarget is a move | `IdentityText`, `TLAPS` |
| `CircuitBreakerProofs` | types, and why the flag is raised | `CircuitBreaker`, `StoreProofs` |
| `SecretsProofs` | types, and that generated values are kept | `Secrets`, `StoreProofs` |
| `TenancyProofs` | types, no twins, the organization on record | `Tenancy`, `TLAPS` |
| `RevocationProofs` | how many API keys a deletion may leave | `TenancyProofs` |
| `ObserversProofs` | types with the limit on pod issues, and the retention claim | `Observers`, `StoreProofs` |

### InstanceStore

`cr` is the object at the API server, `copy["cache"]` the informer's, `copy[c]` what a
running reconcile of `c` holds. Resource versions are not numbered: the API server only
compares them for equality, so `fresh`, the set of holders whose copy is current, says the
same, and every write empties it. `UpdateInstanceStatus` has the four outcomes of
`updateInstanceStatus`: nothing to send, landed, conflict, and an error after which the
write may or may not have landed. `Fault` counts everything that goes wrong by chance;
`Restart` ends running reconciles, lists the cache anew and enqueues everyone.

A Reconcile that makes a single API call is one step on the cached copy (`Finish`): the
delay between read and call is what the cache's lag already stands for. One that makes
several keeps a private copy and a program counter (`Get`, `Start`, `Return`).

### Migration and TargetLedger

One action per path of the migration controller's `Reconcile`; `Gate` is the sequence of
its early returns. `AnnounceMigration` and `CreateJob` are two steps because the code makes
two calls. The instance controller is `GetInstance`, then `Freeze`, `SkipInstance`,
`InstanceConfigError` or `ApplyWeb`, `ApplyWorker`, `UpdateStatus`; each apply may fail,
with or without effect, which repeats the pass. All calls before the two Deployments stand
for one possible failure. `DerivePhase` covers the migration-related branches of
`derivePhase` and calls every other outcome `"Other"`; `Health` has the rest.

External actions: `StartPod`, `PodSucceeds`, `PodFails` (Job controller, which allows one
attempt more than `backoffLimit`), `ExpireJob` (an hour after a Job has finished; while the
operator still has to look at the Job, which takes it seconds, this counts as a fault),
`FinishDeletion`, `OrphanEnds`, `CollectJob`, `CollectWorkload` (garbage collector),
`SiblingWrite` (a status write of a controller that the module leaves out), `Edit`, `Delete`
(user).

Two history variables serve the properties and are read by no guard: `migrated`, the
identities some Job completed, and `loose`, per component the values that were requested
while none was on record.

`TargetLedger` is what all of this promises: a ledger of one entry, entered only for what
some migration completed, never erased, never moved away from a datastore that it names.
`Migration` instantiates it with `status.migration.appliedIdentity` as the record and
`migrated` as what was done; `ImplementsLedger` is its specification, a property of
`migration_safety` and a theorem.

### MigrationIdentity and IdentityText

`Migration` uses identities as records: a version and a function from tracked components to
values, where an endpoint value has a name and, if known, its Secret keys. `IdentityText`
justifies that. It writes an identity as the text of `buildMigrationIdentity`, takes it apart
with the code's `Cut`, `Split` and `Index`, and compares with the records, for the
current format and for the formats of earlier releases. Texts are sequences of symbols;
separators and component keys are one symbol each, and so is every word that the operator
writes itself (`Words`); names, keys and versions are spelled with `Alphabet`. Initial states leave out one case: a
database of an earlier format whose *name* spells a component which that format did not
track. Nothing in such a string tells the name from the component.

### CircuitBreaker

The counters and restore points are process memory: `RestartOperator` resets them. Each
dependency is one step of the pass (`ProbeSucceeds`, `ProbeFails`), because the watch and
the instance controller run in between; the pass ends with `WriteBreaker`. Failure counts
are capped at the threshold, above which the code does not tell them apart. `owners` is the
set of field managers of `spec.replicas`: a merge patch that changes the field makes the
breaker its manager, and an apply that no longer declares a field nobody else owns resets
it to the API server's default of 1.

### Secrets

A pass reads the generated Secret from a cache (`EnsureGeneratedSecret`), creates it or adds
the keys it lacks, computes one hash of the collected Secrets (`ComputeSecretHashes`), and
patches the Deployments one by one (`PatchDeploymentSecretHash`); a failed hash or patch is
only logged. Random values are numbered by `made`. A Secret of the user is the number of its
rotations, so contents do not recur, and a hash stands for what went into it. There are two
such Secrets: `"user"`, which `collectReferencedSecretNames` finds (`Collected`), and
`"licence"`, which stands for those that the pods read and the function leaves out
(`Referenced`). The instance controller applies the Deployments from its cached copy, at any
time and as often as it likes (`ApplyDeployment`), unless the instance is deleted or `held` (its
spec refused, its target moved). An apply does not declare the annotation and so leaves it to
`fieldOwnerSecrets` (`Reapplied`). Whatever changes the template restarts the pods (`Template`),
which read the Secrets as they start.

### LangfuseServer and Tenancy

`LangfuseServer` is the server as `client.go` uses it: organizations with members, projects,
and keys, whose identifiers are never used again. An organization or project that is deleted
takes along what belongs to it. `Tenancy` has one organization object, one project object in
it, which the user creates at some time (`Create`), and one API key. Each controller is a sequence of places, one for each call that changes
something; `obj`, `seen` and `held` are the object, its cached copy and the one that a pass
holds, and `current` says which of the latter two may still be written. Every call may fail,
with or without its effect (`Fails`); an effect comes at once or not at all. `Outside` is
somebody who works in Langfuse directly, `FlipInstance` the instance, which stops being ready.
Members (`SyncedMembers`) may be left half-way (`PartlySynced`).

Three things lag: the copies of the two objects, and the Secrets (`secretsSeen`). The lag of
Secrets needs no failure: a pass is woken by the status write of the pass before, whose Secret
its cache may not show yet. Such a pass is counted in `lags` (`Get`), apart from `faults`, since
the properties tell the two apart. `CountDependents` goes by the cache and is not repeated: what
is created or seen afterwards no longer stops the deletion of the organization.

### Health, Retention, Observers

A pass of the instance controller, the health monitor or the drift controller is one step on the
cached copy, because its calls only read or start what is not there yet until the status write at
its end. A pod is absent, starting, ready, crashing, stuck (its issue is fatal) or terminating.
`CollectPodIssues` is the set of what may be left of the issues after the sort by `Precedes` and
the cut at `MaxReportedPodIssues`, from pods that are listed in any order: that it has one member
is a consequence of the order. A probe (`Probe`) is whether the endpoint can be worked out and
answers. Of a condition's message only that is kept which may differ between two reports of the
same thing (`TextsOf`): the error of a datastore that takes a connection and breaks it off (`hung`)
names the local port, a new one every time. `DerivePhase` has every branch of `derivePhase`. The
migration controller is reduced to what it tells the others, for one version and one target.

`Retention` numbers the TTL statements by the place of their table in
`langfuseClickHouseTables` (`Statements`). A retention pass is a sequence of steps on its own
copy: a step for each statement (`AlterTable`, the first one in `BeginRetention`), one for the
question about the disks (`QueryDisks`) and one for the status write (`WriteRetention`). It stops at
the first statement that fails (`AfterStatement`), which may have been carried out. In between,
tables are dropped and made anew, begin to refuse, disks fill and the spec changes; `remade` is
a history variable, the tables that were dropped or made anew during the pass. Percentages are the
code's integer division.

`Observers` composes the instance controller, health monitor, migration, retention and drift
controllers on one object, with the Deployment and Job controllers, kubelets, datastores and
ClickHouse around them. A `scenario`, chosen at the start and never changed, fixes the start (a
new instance with `runOnDeploy` off, a running one, or one that is being upgraded), the specs that
the user may choose from, which parts of the world are disturbed, and how many of the disturbances
are already spent.

## 3. Runs

| Run | Question | Bounds |
|---|---|---|
| `migration_safety` | does everything recorded, run, rolled and published stay true, and is the record a ledger? | first migration, 3 specs, 1 edit, 1 fault, 1 failing pod |
| `migration_legacy` | are instances of earlier operators adopted soundly, and do they converge? | 8 specs, 3 first objects, 1 edit, 1 fault |
| `migration_live` | do migrations and rollouts converge after edits, their reversal and deletion? | settled instance, 3 specs, 2 edits, deletion |
| `migration_rollback` | finding | 2 versions, 2 edits, no fault |
| `identity_text` | do strings carry what records carry, across releases? | all pairs of specs that differ from a common one in at most two parts |
| `breaker_outage` | is the flag raised for a reason, and who wins the replica count during and after an outage? | 2 dependencies, 2 flips, 1 fault, 1 edit that disables or enables |
| `breaker_restore` | finding | 1 dependency, 2 flips, 1 fault |
| `tenancy` | is everything created once, brought in line, and removed? | 2 names, 2 people, 2 roles, 2 organizations, 2 projects, 4 keys, 1 fault or lagging pass |
| `tenancy_revocation` | finding | as `tenancy`, no fault and no lagging pass |
| `secrets` | are values kept, completed, carried to the pods, and is there an end? | 1 Deployment, 2 keys of which a later release added one, 2 disturbances |
| `observers` | does the status come to say what is the case, and then rest? | 6 scenarios, 2 web pods for 1 reported issue, 2 tables with a TTL, 2 nodes with 5 fillings, 5 specs, 2 disturbances |
| `phase_stuck` | finding | 1 datastore, 3 disturbances, an upgrade in progress |

Why these bounds are enough to be interesting. *Edits*: two are needed to move and come back,
and to put a third spec between a read and the write based on it. *Faults*: one lost or
ambiguous write, restart, failed call or early expiry at any point; nothing in the code
counts faults, each repeats a pass from a fresh read. *`BackoffLimit` = 1* has both cases of
the comparison (`failed >= backoffLimit` in the operator, `failed > backoffLimit` in
Kubernetes) reachable with one failing pod. *`Threshold` = 2* separates counting from
opening. *Two dependencies*: one may recover while the other is down. *Two names, two
organizations*: a rename and a namesake. *Four keys*: an organization key, a key, its orphan
and a replacement; with old caches a pass may mint without end, so that near the bound on keys
a project pass waits for the watches (`MayBegin`). *`MaxFaults`* of `Tenancy` bounds faults and
lagging passes together; the inductive invariants were checked with two. *Secrets*: both Deployments were also checked, with one disturbance; they
are treated alike and independently, the second only makes a pass longer. *Observers*: one
reported issue for two pods makes the limit bite; a disturbance is anything of `Disturbance`,
an edit, a deletion, a fault or a restart. Two of them separate the calls of a retention
pass from what happens between them, and each scenario aims them at one part of the world or at two that
meet. The disks are nearly empty, at the warning level, a fraction of a percent below the critical
level, at it, and without capacity. The new instance starts undisturbed and the upgrading ones get
one disturbance; the edits and faults of a first migration are those of `migration_safety`.

`CHECK_DEADLOCK FALSE` is set where a settled operator does stop: without edits and faults
there is nothing left to do (and in `IdentityText` an edit may have no alternative). `secrets`
checks for deadlock: the informers' resync always has something to do.

## 4. Fairness

A fair specification assumes weak fairness of what keeps running by itself: each
controller's work queue, the watches, the Job and Deployment controllers, kubelets and the
garbage collector, and that a migration pod ends. It assumes nothing of the user, of faults
or of siblings. A conflict is retried after `statusConflictRetryDelay` and an error by the
queue's backoff: both are a request put back on the queue.

* `Migration`, `CircuitBreaker`: weak fairness of a controller as a whole does not prevent
  a sibling from winning every race for the status. `OutageHoldsWorkerAtZero` needs that not
  to happen for ever and says so in its hypothesis (`<>[][~LosesWrite]_vars`); the migration
  controller needs none, since the instance controller stops writing once it has nothing
  new to say.
* `Secrets`: one condition per controller and watch. `Resync` is the informers' periodic
  resync (`SyncPeriod` of controller-runtime, ten hours): it is what a dropped event, a
  failed patch and a Deployment that was created late are left to.
* `Tenancy`: one per controller and watch; every pass over an object that stays is
  repeated after at most five minutes (`orgResyncPeriod`, `projectResyncPeriod`).
  `ProjectSettles` assumes that the cached organization key is usable (`OrgKeyUsable`): the
  code never replaces one that Langfuse has revoked, and the project is then stuck.
* `Observers`: one for each controller, for the watch and for the cluster's own work: every
  controller has a queue and a worker of its own. The liveness properties assume that in the end
  no datastore is left that takes connections and breaks them off (`Still`): while there is one,
  every probe of it is written, and these writes can win every race.

## 5. Findings

* **`migration_rollback`.** An upgrade is announced, then the tag is set back. The
  recorded identity covers the spec again and `Reconcile` returns before anything revisits
  `MigrationsComplete`: the phase stays `Migrating` without a Job, where
  `docs/guide/troubleshooting.md` says "The migration Job is running". A refused retarget
  that is reverted leaves the phase `Error` the same way.
* **`breaker_restore`.** `CHANGELOG.md` promises "auto-restores on recovery". A restart of
  the operator during the outage, or one failed recovery patch, leaves the worker at zero
  after every dependency has recovered.
* **`tenancy_revocation`.** `docs/reference/langfuseproject.md` says that deletion revokes
  all API keys. A project that is deleted together with its organization finds it not ready
  (its own controller makes it so while it waits for the project), skips the cleanup, and its
  keys stay valid in Langfuse.
* **`phase_stuck`.** A migration pod gets stuck and is reported; the cause is repaired and
  the Job succeeds before the next poll. The issue stays in `status.migration.issues` and the
  phase stays `Error` although everything is healthy.

Remarks without a run. A recovery of the breaker whose status write loses its race is never
reported, because the count that made the pass a recovering one is reset before the write;
`status.go` says that "each recomputes its whole contribution from scratch on the next pass".
An opening pass whose status write was lost runs again and saves 0 as the restore point,
against the comment at `circuit_breaker.go:237`; the effect is small, because recovery then
restores 1 and the instance controller applies the spec's count as soon as the flag is gone
(`ClosedBreakerFollowsSpec`). A breaker that is disabled while open leaves the worker at zero.

Disagreements with the documents that the models contain and no run shows. The properties are
worded so that they claim neither side; each was seen to fail when worded as the document has it.

* *Rotation.* `docs/guide/secrets.md:29,38` and the comment at `secret_controller.go:243` speak of
  every Secret referenced in the spec. `collectReferencedSecretNames` leaves out those of
  `auth.adminApiKey`, `eeLicenseKey` and the TLS certificates, which the pods read
  (`config.go:174-189`, 265, 357, 522, 536): their rotation reaches no running pod.
  `RotationReachesPods` is about collected Secrets.
* *Crash loops.* `docs/guide/troubleshooting.md:20` counts a "crash loop while a dependency comes up"
  as `Degraded`; `derivePhase` looks at readiness first, and a component whose pods all crash is
  `Pending`. `PhaseSettles` accepts either.
* *`Ready`.* `docs/reference/langfuseinstance.md:57` says that the condition mirrors `status.ready`. A
  spec that `BuildConfig` refuses makes it False and leaves phase and `status.ready` as they were
  (`langfuseinstance_controller.go:157`). `PhaseSettles` asks only that the condition be False then.
* *Infinite retention.* `docs/guide/clickhouse.md:90` says `0 = infinite`; no statement is built for a 0
  (`retention_controller.go:180`), so a TTL that was set before stays. The retention properties speak
  of positive TTLs.
* *A retention claim* is untrue, until the next pass, of a table that was dropped or made anew between its
  statement and the status write (`retention_controller.go:144-147`).
* *Writes at rest.* `status.go:41` compares messages, and `health_probes.go:235` puts the error of the
  read, with its local port, into one: with a Redis that takes connections and does not answer,
  every probe is a status write, against the comment at `pod_issues.go:85` that writes are stable.
* *Revocation.* Without a failure, a pass that does not see the Secret yet mints a second key
  (`langfuseproject_controller.go:484-512`), and the deletion revokes only the one in the Secret, although
  `docs/reference/langfuseproject.md:55` says all. `CleanUpRevokesKeys` counts these passes.
* *Dependents.* `handleDeletion` refuses to delete an organization with dependent projects, but a project that is
  created or seen after the count (`langfuseorganization_controller.go:203`) does not stop it.

## 6. Theorems

Every invariant and every action property of the passing runs, and the refinement, is proved
for all values of the constants. TLC checked each inductive invariant on the bounds of the run
before it was proved (`IdentityText`, whose specs are chosen once and for all, has none to
speak of: `IdentityInv` only repeats what `Init` chose).

| Module | Theorem | States |
|---|---|---|
| `MigrationProofs` | `TypeCorrectness` | `Spec => []TypeOK` |
| | `RecordIsTrue` | `Spec => []RecordedWasMigrated` |
| | `TargetStaysPinned` | `Spec => TargetIsPinned` |
| | `RecordIsALedger` | `Spec => ImplementsLedger`, the refinement |
| | `JobsStaySerial` | `Spec => []OneMigrationPod` |
| | `FreezeHolds` | `Spec => []WorkloadStaysOnTarget` |
| | `VersionsAreRolledOut` | `Spec => VersionIsRolledOut` |
| `IdentityTextProofs` | `IdentityRoundTrips`, `RetargetsAreMoves` | `Spec => []RoundTrips`, `Spec => []RetargetIsAMove` |
| `CircuitBreakerProofs` | `TypesHold`, `FlagIsEarned` | `Spec => []TypeOK`, `Spec => FlagNeedsOutage` |
| `SecretsProofs` | `TypesHold`, `ValuesAreKept` | `Spec => []TypeOK`, `Spec => GeneratedValuesAreKept` |
| `TenancyProofs` | `TypesHold` | `Spec => []TypeOK` |
| | `NothingIsMadeTwice`, `OrganizationIsKept` | `Spec => CreatesNoTwin`, `Spec => KeepsItsOrganization` |
| `RevocationProofs` | `DeletionRevokesTheKey` | `Spec => []CleanUpRevokesKeys` |
| `ObserversProofs` | `TypesHold`, `ClaimsAreTrue` | `Spec => []TypeOK`, `Spec => ClaimsOnlyWhatIsInPlace` |

### Assumptions

All are named, stand in the module that declares the constants, and are evaluated by TLC on
every run.

* `InstanceStore`: no controller is called `"cache"`, `MaxFaults` is a natural number.
* `Migration`: the bounds are natural numbers; the controllers are the two modelled ones; a
  spec determines all four components (`SpecsAssumption`); first objects have no edit and no
  deletion behind them and a record of known components (`FirstObjectsAssumption`).
* `IdentityText` (`SpecsAssumption`): names of objects, keys of Secrets, the clustering mode and
  image tags have neither a separator nor a component's key in them, which Kubernetes' and the
  registry's grammars see to (none of them admits `|`, `#`, `,` or `=`); the text of a version
  is what follows its `v`. The database name is any text at all.
* `CircuitBreaker`: the dependencies are listed once each, as in `Reconcile`; the threshold is
  positive (the code takes a default otherwise); the replica counts of the specs are within
  `MaxReplicas` (`BreakerAssumption`).
* `Secrets`, `Tenancy`: the marks for "absent", "gone", "unused" and "none" are none of the
  values they stand beside (`SecretsAssumption`, `ValuesAssumption`: Go's empty strings and nil
  pointers are no identifier, object or owner); there is a name. The bounds on faults and on keys
  are natural numbers (`TenancyBoundAssumption`): the keys that a deletion leaves are counted.
* `Health`, `Observers`: a component has finitely many pods, at least one issue may be
  reported, a TTL is a natural number, the first filling of the disks is one of them, and a scenario
  starts with one of its specs and spends no more than there is (`ObserversAssumption`).
* `NoCopy` is no object.

### What the proofs rest on

**The store** (`StoreProofs`). `StoreOK` says that a holder which counts as current holds the
object itself. Its lemmas, one per kind of step and generic in the type of object, give two
facts to everything else: a status write that *lands* was computed from the object that it
replaces (`StatusWritten`), so it leaves alone what its controller leaves alone; and no step
makes an old copy count as current. `MigrationProofs` has its own, earlier form of these.

**The record.** `RecordedWasMigrated` alone is not inductive: a pass records the identity of
the Job that its *cache* shows as succeeded, and writes a whole status computed from a copy.
`IInv` of `Migration` adds `StoreIsCoherent` (as above), `JobIsCoherent` (a running Job is
within its attempts and stamped with an identity that can be recorded, and only a running Job
has a pod) and `SuccessWasMigrated` (a Job that shows success, at the API server or in the
cache, was migrated, and so was the version that stands for the record of an earlier release).
Each status-writing action is shown to write a status that is *credited* (`Credited`);
`StatusStep` turns that into `IInv'` once for all of them. `TargetStaysPinned` follows from the
same invariant: only `RecordBaseline` and `RecordSuccess` change the record, both behind a gate
that found no disagreement on the cached object, which is the current one when the write lands.
`RecordIsALedger` puts the two together: a step that changes the record is
`TargetLedger!Record`, one that completes a Job is `Complete`, and no step does both.

**One pod at a time** needs `JobsAreSerial`: until the deletion of the instance no pod outlives
its Job, because a Job is created only after the cache has seen the one before it go. The
delicate case is `cleanupCompletedJobs`, which deletes by name on what the cache shows.

**The freeze** needs `RollsAreAnchored`: in *every* copy that a controller may act on, each
component of the target is on record in agreement with a value that was requested while none
was on record, or is such a value itself. It survives edits because `loose` grows exactly
while nothing is on record, and recording because a landed write is current. `VersionIsRolledOut`
needs `RollIsComplete`: a pass that has applied a Deployment finds it as it left it.

**Identities as text.** The parts that the code cuts out by position are found by *where they
stand*: `At(text, n, part)` says that a part begins after `n` symbols, and three facts do most
of the work. A part that lacks a symbol, and is followed by it or by the end, is what `Cut` and
`Split` return (`PartIs`). A text that goes on behind a field still has the field where it was
(`ContinuesFront`). And the first field with a key is found whatever comes later
(`FirstPart`), which is where "the database goes last" is needed: nothing in front of it has a
key that it does not own, and behind it nothing is looked for. `ParsedFull`, `ParsedNoRefs` and
`ParsedDatabase` read the three layouts; `ReadRefName` and `ReadCutRef` do the same one level
down, inside a reference. `RetargetsAreMoves` then compares records only. Its one argument is
that two endpoints with the same name select the same keys, because `secret/`, `cnpg/` and
`managed` keep the kinds of objects apart (`NameOfExternal`): without it a reference could keep
its name and lose its keys unnoticed. Nothing here is an induction: the operators of
`IdentityText` are defined by positions, not by recursion.

**The breaker's flag** needs `RaisedByCount`: a pass that is about to raise the flag has a
dependency *behind it in the list* whose count stands at the threshold. That each dependency is
probed once per pass is what keeps the count from being reset before the write; that the flag
is read anew at the start of each pass keeps an earlier, lost one from being written.

**Generated values** need no more than what each call is given: a Create fails when the Secret
exists, an Update when the cached one is old, so the merged value is that of the Secret itself.
`TypeOK` there needs `ChangesAreCounted`, which bounds the values made by the disturbances that
made them necessary.

**Tenancy.** `IInv` carries what a pass found out until it acts on it: `OrgSearchStands` and
`ProjectSearchStands` (a search that found nothing still would, because nobody else creates or
renames), `CopiesAreHonest` (a copy that counts as current differs from the object at most in
the identifier just found), `IdsMatch` and `CredentialsMatch`. `KeepsItsOrganization` holds for
any number of disturbances only in its present form: an earlier one, which did not allow a
namesake that came, was adopted and went, is false from five disturbances on, more than the run
has.

**Revocation.** Of the keys that Langfuse lists, a deletion revokes the one that the *cached*
Secret holds, so the invariant counts the others. `KeptKeys` is the key in the Secret or on its
way there, `Orphans` are the project's remaining keys, and `OrphansAreCounted` says that there are no
more of them than passes that began with an old view of the Secrets (`lags`), a running one that is
about to leave a key (`Misled`) being one of these. A step either leaves the orphans alone, or is one of
a misled pass, which adds one and is misled no more, or begins such a pass, which is counted
(`CountIsKept`). That no other step makes an orphan rests on `BelongingsStand`: keys go with their
project, a project with its organization, and neither goes while its object stays, so a key in the
Secret is valid and no second one is minted for it. That in turn needs one organization
under the name (`OrganizationStands`), credentials that are accepted (`CredentialsStand`,
`PassHasKey`), a project on record that was really made (`ProjectStands`) and no Secret before the
finalizer (`NoSecretBefore`), since the project may be created at any time and go at once. All of it
holds while no call has failed and the organization is wanted (`Undisturbed`). `CopiesAreEarlier`
holds always; it carries each of these facts from the object to the older copies that a pass
acts on, since a finalizer, a deletion and the identifier of a project under deletion never go
away again. One state is set apart (`Forgotten`): a project whose deletion was asked for before
its identifier was recorded is never looked for, and the property, like the code, asks nothing
of it.

**Reports.** `TypeOK` of `Observers` is inductive as it stands; what takes an argument there is that
`retention.gen <= gen`, by which every edit withdraws the claim. `ClaimsOnlyWhatIsInPlace` needs
`PassStands`, an invariant over the steps of a pass: the statements that the pass has behind it are in
place, by the spec of *its copy*, on every table that is not in `remade`, and a verdict of
`PoliciesApplied` means all of them (`StatementMade`). What happens between the steps either
leaves the TTLs alone or adds to `remade` (`DisturbanceStep`). The write lands only from a current
copy (`StatusWritten`), so the spec of the copy is the spec of the claim (`WriteStep`); the other four
controllers leave condition, generation and spec as they were (`ClaimKeepingPass`).

### Only model-checked

* Liveness (`MigrationConverges`, `WorkloadConverges`, `BaselineIsRecorded`, `DeletionIsFinal`,
  `OutageHoldsWorkerAtZero`, `ClosedBreakerFollowsSpec`, `GeneratedSecretCompletes`,
  `RotationReachesPods`, `RestartsCease`, `OrganizationSettles`, `ProjectSettles`,
  `DeletionCompletes`, `OrphanedProjectIsReported`, `PhaseSettles`, `WritesCease`, `ClickHouseIsReported`): fairness is
  beyond the prover.
* The four findings are counterexamples of TLC's; there is nothing to prove.

## 7. Not modelled

* HPAs, which take over the worker's count when autoscaling is on; the breaker's
  `emitCriticalEvent` and the clearing of its maps when an instance is deleted.
* Services, networking, PDBs, managed ClickHouse and Redis: calls of the instance
  controller's pass that may fail, nothing more. The retired ServiceMonitor and the
  deprecation condition.
* A pod list that fails (the component is then reported without issues).
* A timed-out creation that reaches Langfuse after a later search: it makes a twin, and only
  an idempotency key of the server's could prevent it.
* Several projects or keys; a project whose organization never existed.
* The boundary between `failed >= backoffLimit` in the operator and `failed > backoffLimit` in
  Kubernetes in the runs about convergence: a failing pod is in `migration_safety` only.
* The flag of a breaker whose recovery was never written: `WorkerIsRestored` looks at the replicas.
* Rotations that are reverted while pods start; hash collisions.
* `ON CLUSTER`, the text of statements, events, metrics and logs; of messages all but whether they
  repeat.
* Builders, the environment configuration (but for the Secrets it reads), `cmd/main.go` and generated code have no behaviour
  over time. Of the API types, the fields that matter are fields of the modelled objects.

## 8. Plan

1. `Observers`: that a phase is written only as `derivePhase` of the status beside it.
2. Several projects in an organization, each with its key.
