# TLA+ specifications of kopia-operator

The operator has three controllers that share nothing but the Kubernetes API:
each reads its objects from caches that lag, writes with or without a
resourceVersion, and is interrupted at any point by other clients, by the
garbage collector, by its own restart and, in one case, by commands it left
running in a server pod. What it leaves behind are CronJobs, whose Jobs run long
after the reconcile that built them, in a cluster that has moved on. That is
where unit tests, which run one reconcile against a fake client that is always
up to date, do not reach; it is what these modules are about.

## The system's parts

| Part | Source | State it changes | Module |
|---|---|---|---|
| KopiaBackup reconciler | `internal/controller/kopiabackup/reconciler.go` | finalizer, `spec.userCredentialsSecret`, status; CronJob, ConfigMap | `BackupCredentials`, `BackupPlacement` |
| User manager | `internal/kopia/user/manager.go` | credentials Secret, users on the Kopia server (by exec) | `BackupCredentials` |
| CronJob, ConfigMap, backup script | `internal/controller/kopiabackup/builder.go` | none itself; what the Jobs do | `BackupJob`, `BackupPlacement` |
| PVC watcher | `internal/controller/pvcwatcher/reconciler.go` | creates, updates and deletes KopiaBackups | `PVCWatcher` |
| KopiaRepository reconciler | `internal/controller/kopiarepository/reconciler.go` | status of the repository | `RepositoryServer` |
| Server manager | `internal/kopia/server/manager.go` | TLS Secret, Deployment, Service | `RepositoryServer` |
| Webhooks | `api/backup/v1alpha1/*_webhook.go` | none | admission in `BackupJob`, a refused schedule in `PVCWatcher` |
| Names | `internal/naming/names.go` | none | users and Secrets as functions of PVC and hostname; the length of a CronJob's name in `BackupJob` |
| Metrics, `cmd/main.go`, generated code | | none that is read back | not modelled |

How they interact: the PVC watcher creates KopiaBackups that the KopiaBackup
reconciler provisions; that one execs into the pod the server manager's
Deployment runs; the status of the repository tells backups the server's URL
and certificate fingerprint, which end up in the CronJob; its Jobs run next to
the workload that uses the PVC.

Two controllers write the same KopiaBackups. `BackupLifecycle` says what each may
rely on; both `BackupCredentials` and `PVCWatcher` are shown to implement it,
each with the other controller's part played by its environment, and
`BackupPlacement`, which starts with backups already there, to take only its steps.

## How the API is modelled (`WatchStream`)

An object is a *watch stream*: the sequence of its versions from the one the
informer has delivered (`Cached`, what `client.Get` returns) to the one the API
server holds (`Current`). A write appends a version unless it changes nothing
(`Put`), the informer drops the head (`Deliver`), and a controller that watches
the object is enqueued then. `Nil` stands for no object.

- `Update` and `Status().Update` are refused when the copy in hand is not the
  current version. Instead of comparing resourceVersions, the reconcile in
  progress has a flag `fresh`: set when the copy read is the current one,
  cleared by any write of another client.
- `Delete` and merge patches go by name and hit whatever has the name by then.
- One reconcile of a controller runs at a time (`MaxConcurrentReconciles` is
  left at its default and leader election allows one instance); `job` is that
  reconcile and `job.pc` the next call that leaves the operator. Each such call
  is a step of its own. Reads that lie next to each other with no write between
  them share a step with the decision they lead to.
- A returned error and a requeue both put the key back in the queue; delays are
  not modelled.
- A restart loses the reconcile in progress and enqueues everything listed.
- Faults and changes by other clients draw on budgets (`MaxFaults`, `MaxEdits`);
  `Faults` and `Edits` say which kinds a run allows. `PVCWatcher` and
  `RepositoryServer` have a set `Scenario` of such choices instead, one of which is
  made at the start and kept in `allowed`: one run then covers several mixes, and a property can say of
  which it holds.
- Random passwords and certificates are the values nobody holds any more, so
  that small sets suffice.

`BackupJob` is not about caches and uses no streams: what a reconcile does there
is one step.

## Modules

**`BackupLifecycle`**: the abstract specification. A KopiaBackup is absent, bare,
held by the finalizer or terminating; only a held one is attended to, a held one
goes only through deletion and release, and one that comes back starts anew. No
caches, conflicts or retries.

**`BackupCredentials`** (`MCBackupCredentials`; `BackupTypeProofs`,
`BackupSyncedProofs`, `BackupLifecycleProofs`).
`handleFinalizer` is `FirstPhase`, `AddFinalizer`, `LookupForCleanup`,
`RemoveFinalizer`; `validateDependencies` and the reads of `EnsureUser` are
`ValidateDependencies`; the rest of `EnsureUser` is `CreateSecret`,
`CreateUserOnServer`, `RollbackSecret`, `MarkUserSynced`;
`reconcileServerCredentials` ends in `PersistCredentialsSecret`;
`DeleteUser` is `DeleteUserFromServer`, `DeleteSecret`. An exec can fail,
time out with the command still running (`late`, `Land`) or, for a deletion,
report success although kopia failed (`|| echo "User may not exist"`).
The user-synced annotation holds the credentials themselves, the fingerprint
being injective for all purposes here. `applied` is a history variable. Of
`reconcileBackupResources` only the outcome matters here. Refinement mapping:
`life` is read off the API server's copy, `attended` are the backups whose
`userCredentialsSecret` is persisted.

**`BackupPlacement`** (`MCBackupPlacement`, `BackupPlacementProofs`). The same reconcile after the
finalizer, with the user's part reduced to success or failure:
`ValidateDependencies`, `ReconcileConfigMap`, `ReconcileCronJob` (with
`findPodUsingPVC` as a choice among the pods listed, since a cached list has the
order of a map) and the deferred `UpdateStatus`. The watches are
actions of the surroundings that enqueue what the code's map functions and
predicates let through: `Passes` is `podRunningPredicate`, `BackupsForPVC` and
`EnqueuedForRepo` are `findBackupsForField` (which looks in the namespace of the
changed object only). A CronJob is what it was built from: the backup's plan
(schedule, limits, suspend), the repository's setting and the pod's place.
The API server fills in defaults, so the comparison in `reconcileCronJob` never
finds the spec equal and an Update is always sent; most change nothing.
Refinement mapping: as in `BackupCredentials`, with a status written also counting
as attended.

**`BackupJob`** (`MCBackupJob`, `BackupJobProofs`). `ValidateKopiaRepository` and
`ValidateKopiaBackup` admit a repository and a backup; `BuildCronJob` and its
parts build the CronJob, field by field as far as a Job depends on it; then
Jobs run: scheduled by affinity and tolerations, started when volume and
references are there, and through the script's `Connect`, `CreateSnapshot` and
`ListSnapshots`, with `restartPolicy: OnFailure`, `backoffLimit`,
`activeDeadlineSeconds` and `Forbid`. How restarts and lost pods count against the
backoff limit is Kubernetes' doing and external: a Job fails with the restart that
reaches the limit, or with one lost pod more than the limit. `tls` is the certificate
in the Secret, whose fingerprint is published, and `cert` the one the server presents
since it last started. Time is counted in delays of the connect
loop, and only waiting takes time: a snapshot that runs into the deadline is not
modelled. `lost` is a history variable.

**`PVCWatcher`** (`MCPVCWatcher`, `PVCWatcherProofs`). One phase per write of
`Reconcile`, `syncSchedule` and `createBackupForPVC`. Repositories are looked up
by name in the PVC's namespace, then everywhere. The KopiaBackup controller
appears as a client that adds and removes its finalizer and writes the status.
`OtherChange` is a change of a label or annotation that passes the event filter.
Refinement mapping: `attended` are the backups whose status that controller has
written.

**`RepositoryServer`** (`MCRepositoryServer`, `RepositoryServerProofs`).
`reconcile` with `EnsureTLSSecret` (its look at the Secret is part of
`StartReconcile`, since only reads come before it; the deletion of an expiring
certificate and the creation of a new one are steps), `EnsureServerDeployment`,
`EnsureServerService`, `IsServerReady` and the deferred status update. All
settings that shape Deployment and Service are one opaque value. As in the code,
`serverReady` keeps its value on the paths that fail. The comparison
with the constructed Deployment never succeeds, as above. The branches for a
missing `passwordSecretName` (refused by the CRD) and a missing `ServerManager`
(`main` always sets it) are left out, as is a generated Secret without `tls.crt`
(refused by the API server for its type).

**`WatchStream`, `WatchStreamProofs`**: the streams and the lemmas on them.

## Runs

Passing runs. Each mutant in `PROJECT.json` is a plausible slip in the code
that makes the property named fail under the same configuration.

| Run | Properties | Question |
|---|---|---|
| `credentials_faults` | `TypeOK`, `ProvisionHoldsFinalizer`, `SyncedWasApplied`, `RestIsDone` | Under all faults, is anything provisioned without the finalizer, or skipped on the word of an annotation no server backs, and is a backup ever left with work to do and nothing to wake the controller up? |
| `credentials_live` | `SyncedUsable`, `ImplementsLifecycle`, `ReleaseIsClean`, `Converges`, `DeletionCompletes` | Without lingering or swallowed commands: does the annotation mean that the server accepts the credentials, does the finalizer wait for the user's deletion, and after faults and changes cease, is every backup connected and every deleted one gone? |
| `watcher` | `TypeOK`, `AutoCreatedIsOwned`, `RestIsFollowed`, `ManualNotRewritten`, `ImplementsLifecycle`, `LabelRemovedDeletes`, `BackupFollowsPVC`, `LabelledGetsBackup` | Does the watcher keep its hands off KopiaBackups made by hand and off the life of those it shares, does a labelled PVC get a backup, does the backup follow label and schedule, and is a PVC ever left with work to do and nothing to wake the watcher up? |
| `server_live` | `TypeOK`, `ReadyWasDeployed`, `RestIsServed`, `ChildrenSettle`, `StatusSettles` | Can Ready run ahead of the Deployment, can a wake-up be lost, does one change with one fault always settle, and does a repository created again get its children back? |
| `placement_live` | `TypeOK`, `ReadyIsCurrent`, `RestIsPlaced`, `KeepsLifecycle`, `CronJobSettles`, `CronJobFollowsPod`, `ConfigMapSettles`, `ReadySettles` | With one pod and a repository in the same namespace, do the watches alone bring CronJob, ConfigMap and status up to date, is a backup ever left with work to do and nothing pending, can the status run ahead of the CronJob, and does a write from an old copy ever take a backup off its life cycle? |
| `placement_shared` | `CronJobFollowsPod`, `ConfigMapSettles`, `ReadySettles` | Two backups share a ConfigMap, two pods overlap, the repository is elsewhere: does a look from time to time put everything right? |
| `job_runs` | `TypeOK`, `LosesAtMostOne`, `JobEnds`, `JobWearsOut`, `SnapshotsResume` | Whatever happens around the Jobs: does every step of a Job use up pods, restarts, time or script for good, does every Job end, is at most one lost to an outdated template, and are snapshots taken again? |

Runs that end in a violation: the code does not do what a document, comment or
test says. The lines are quoted in `PROJECT.json` under `findings`.

| Run | Property | What happens |
|---|---|---|
| `deleted_before_persist` | `UserDeletedBeforeRelease` | Deleted between the creation of the user and the persisting of `userCredentialsSecret`, a backup goes without its user being deleted. |
| `repository_switched` | `EnsureUserEnsures` | The annotation says nothing of the server: after a switch the new server never gets the user. |
| `label_removed_early` | `LabelRemovedAlwaysDeletes` | A label removed before the cache shows the backup just created: the watcher finds nothing to delete and does not look again. |
| `certificate_rotated` | `FingerprintIsServed` | The server goes on presenting the old certificate. |
| `snapshot_error` | `CompleteMeansSnapshot` | A failed snapshot does not fail the script: the Job's retries do not cover it. |

### What the passing runs leave out, and what happens there

Changing constants of a passing run shows more places where the code falls
short of a comment or document; they have no run of their own.

- `watcher`: `LabelRemovedDeletes` and `BackupFollowsPVC`, and the parts of
  `RestIsFollowed` that match them, hold where the watcher is told of what changes
  (`Told`). A repository created after the PVC was
  labelled does not bring the PVC back (the comment at
  `pvcwatcher/reconciler.go:125` says it will); what a stale read does to a removed
  label is `label_removed_early`.
  `LabelledGetsBackup` holds where labels stay and only the watcher makes and
  deletes backups (`Kept`): a label that comes back while the old backup is
  terminating brings no new one, since KopiaBackups are not watched.
- `placement_shared` under `WatchSpec`, without resync: with overlapping pods the
  affinity may stay with the pod that goes (the comment at
  `kopiabackup/reconciler.go:624` speaks of an immediate update), a repository in
  another namespace wakes no backup (`kopiabackup/reconciler.go:208` says that the
  watches do), and a shared ConfigMap stays away after the backup that
  controlled it is deleted.
- `credentials_live` with `MaxLag = 4`: `SyncedUsable` fails. With the server down,
  `EnsureUser` creates a Secret and rolls it back; the next reconcile, whose cache
  shows neither, creates another, sets its password and marks it; then the cache
  shows the first one and a reconcile sets the first password over the second. If
  the operator dies or the patch fails there, the annotation keeps anyone from
  noticing. The comment at `user/manager.go:186` has it that "the worst case is one
  redundant `user set`". The property holds with `MaxLag` 2 or 3, where no two
  incarnations of a Secret are on their way to the cache at once.
- `job_runs`: `LosesAtMostOne` and `SnapshotsResume` speak of a server that presents
  the certificate published, which after a rotation it does only once it has
  restarted (`certificate_rotated`).
- Two backups of one PVC share a user and a Secret, and the deletion of one takes
  the user from the other.

These follow from reading the code beside its documents:

- `Supported` of `BackupJob` leaves out three setups that the webhooks admit. A PVC
  name of more than 42 characters gives a CronJob name of 53, which the API server
  refuses (the limit is 52). A filesystem repository without NFS server has, in
  direct mode, a volume without server. SFTP in direct mode has an empty
  configuration and no connect step, so that its snapshots fail (the
  operator's `README.md:13` lists it).
- Twelve attempts to connect have eleven delays between them, a little less than
  the "6 min" of `builder.go:55`. A `backoffLimit` not given is 3 by the CRD's
  default, so the builder's fallback of 5 hardly ever applies.
- `ARCHITECTURE.md:593` has a missing PVC delete the CronJob and requeue; the code
  does neither.

### Bounds, and why they are enough

Up to two faults and up to three changes: in `BackupCredentials` any fault can hit
any step of a reconcile together with a creation, a deletion and one more change.
`PVCWatcher` starts with a PVC there, with or without its label, and has two
changes, or fewer with one fault; its scenarios are stale reads with repositories
and backups made by hand, all that the watcher is told of, and growth only.
`RepositoryServer` starts with its repository and has one change with one fault, or
the repository deleted and created again.
`placement_live` has two changes with one fault; `placement_shared` starts where
two pods overlap and the repository is elsewhere and has one change (its fault
kinds are named but `MaxFaults` is 0). `job_runs` has two changes and one fault,
over two nodes, one of them tainted, two certificates and seven setups; two connect
attempts, a deadline of three delays and a backoff limit of two are enough for each of these
limits to be the one that ends a Job. Reconciles, retries, deliveries, requeues and
Jobs are not bounded. `MaxLag` is 2 or 3: the cache may miss a deletion and the
creation after it. There are six or four passwords and certificates in
`BackupCredentials` and `RepositoryServer`, more than can be held at once under the
budgets of the run. Two repositories occur where a backup or a label may be
switched. There is one backup in the runs of `BackupCredentials` and one PVC in that
of `PVCWatcher`; what holds of several is what the theorems say. No symmetry is
used. Deadlock is not checked: with the budgets used up and the queue empty the
system really is at rest, and a setup whose CronJob is refused has no Jobs.

### Fairness

Weak fairness of the worker (a reconcile goes on, and a non-empty queue is
served), of the informers, of the garbage collector, and of the Deployment
controller (a server that is down starts). `BackupPlacement` has several backups in
one queue, which is first in, first out: each one that keeps being enqueued is
started (strong fairness of `StartReconcile(b)`); pods get a node and start.
`PVCWatcher` has fairness for the KopiaBackup controller's finalizer;
`RepositoryServer` also for the informers' periodic resync, on which a change of the
unwatched TLS Secret depends (ten hours by default), and only asks that the operator
as a whole and its surroundings as a whole go on. `placement_live` does without the
resync (`WatchSpec`), `placement_shared` needs it (`FairSpec`); there it also stands
for changes of a CronJob's status, which come with every Job. In `BackupJob` the
operator reconciles, the schedule comes round, pods that can go on do so, time
passes, deadlines are enforced and a server or storage that is down comes back.
Nothing is assumed of other clients, of faults or of commands left running.

`SyncedUsable`, `Converges` and `DeletionCompletes` are checked without
lingering commands: a `user delete` or `user set` that takes effect after its
retry undoes it, and the annotation then keeps the operator from noticing.

## Proofs

All for any sets of objects and values, any kinds and numbers of faults and
changes and any lag, unless a hypothesis is named, from the named assumptions on constants in each module and
the lemmas of `WatchStreamProofs`.

Of `BackupCredentials`:

- `TypeCorrect` (`BackupTypeProofs`): `Spec => []TypeOK`.
- `ProvisionIsHeld` (`BackupLifecycleProofs`): `Spec => []ProvisionHoldsFinalizer`.
  Inductive invariant `FinalizerInv`. The property alone is not inductive: it needs
  that a reconcile deleting a backup on a current copy knows of no other version in
  the backup's stream, and that as long as a live version with the finalizer is still
  to be delivered, the API server's copy has the finalizer too.
- `SyncedIsApplied` (`BackupTypeProofs`): `Spec => []SyncedWasApplied`. Inductive
  invariant `SyncedInv`: whatever credentials an annotation names, whether or not they
  match the Secret's data, and those of a reconcile about to write it, are among
  `applied`; a password minted anew is held nowhere, so forgetting its history is
  harmless.
- `SyncedIsUsable` (`BackupSyncedProofs`): `Spec /\ [][Apart]_vars => []SyncedUsable`,
  for configurations in which no PVC has two backups (`OnePerPVC`), no exec outlives
  its timeout (no `timeout`) and no backup is moved to another repository (no
  `switch`); each of the three does break the property. `Apart` says that a Secret is
  created only once the cache has seen the former one go; behaviours outside it are
  the failure with `MaxLag = 4` described above. Any lag, crashes, failing calls and
  execs, swallowed deletions, hand-made changes of annotation and password and
  deleted Secrets are included. The inductive invariant has four parts next to
  `FinalizerInv` and `FreshInv`. `BackInv`: a reconcile past the finalizer works for
  the repository the backup has, so that the user it sets is on the right server;
  `OwnInv`: a Secret not left to the collector has a backup with the finalizer, so
  that no cleanup takes the user away beside it; `SecretInv`: once the annotation
  matches, no version on its way to the cache has other credentials (`Steady` is what
  makes that inductive: credentials once replaced do not come back); `CredsInv`: what
  is about to be marked is what the server has, and if the Secret claims to be synced
  the credentials in hand are its own. Before the proof the invariant was model-checked
  with `credentials_live`'s constants and `MaxLag = 4` under `Apart` (20 million states).
- `ReleaseIsCleaned` (`BackupLifecycleProofs`): `Spec => ReleaseIsClean`, under the
  hypothesis `Reliable` (no `timeout`, no `swallow`, no change of a repository's
  mode). Inductive invariant `CleanupInv`, together with `FinalizerInv`: a reconcile
  past `deleteUserFromServer` finds the user gone, since no other reconcile runs and
  no command lingers; a backup with credentials has the finalizer.
- `LifecycleImplemented` (`BackupLifecycleProofs`): `Spec => ImplementsLifecycle`, that
  is, the initial states are initial states of `BackupLifecycle` and every step is
  one of its steps or leaves `life` and `attended` alone. It uses `FinalizerInv` and
  `FreshInv`: a copy that is fresh agrees with the API server's object on deletion,
  finalizer and credentials, and the phase says where in its life the copy is. Unlike
  the run, the theorem includes lingering and swallowed commands, switches and changes
  of mode.

Of `PVCWatcher` (`PVCWatcherProofs`), from one inductive invariant `WatcherInv`: every
version still in a stream, not just the current one, that carries `autoCreated` has a
controller; the copy a phase writes from has one too; and a fresh copy is the
current object.

- `WatcherTypeCorrect`, `AutoCreatedOwned`, `ManualSafe`: `TypeOK`,
  `AutoCreatedIsOwned` and `ManualNotRewritten`.
- `WatcherImplementsLifecycle`: `Spec => ImplementsLifecycle`.

Of `RepositoryServer` (`RepositoryServerProofs`):

- `ServerTypeCorrect`: `Spec => []TypeOK`.
- `ReadyDeployed`: `Spec => []ReadyWasDeployed`. Inductive invariant `ServerInv`. A
  status may be written from an old copy as long as it carries the old generation
  (`SeenInv`: no status is ahead of its object); a fresh copy means a cache that has
  caught up (`CopyInv`); past `EnsureServerDeployment` the Deployment matches the copy
  in hand (`DeployedInv`); and once the current generation is Ready, every version a
  later reconcile can read has its settings, so that none puts an older Deployment
  back (`SettledInv`).

Of `BackupPlacement` (`BackupPlacementProofs`):

- `PlacementTypeCorrect`: `Spec => []TypeOK`.
- `ReadyStaysCurrent`: `Spec => []ReadyIsCurrent`. The property does not survive a step
  on its own: a reconcile that started from an older copy would put an older plan
  back. The inductive invariant is `PlacedInv`: no status is ahead of its object's
  generation (`SeenInv`); once the status tells of the CronJob, every version on its
  way to the cache, the copy in hand and the CronJob have the current plan
  (`SettledInv`); and a copy that is fresh knows of no version with another plan
  (`FreshInv`), which is what lets `UpdateStatus` tell of it. It is claimed for a
  backup that is `Alone` on its PVC: two backups of one PVC write one CronJob.
- `PlacementKeepsLifecycle`: `Spec => KeepsLifecycle`, by `LifeInv`: the phase says where
  in its life the copy in hand is, and a fresh copy agrees with the API server's.

Of `BackupJob` (`BackupJobProofs`), for any setups, nodes, taints and workloads with
which a running pod tolerates its node's taints:

- `JobTypeCorrect`: `Spec => []TypeOK`.
- `JobsWearOut`: `Spec => JobWearsOut`. With `LimitInv` (every Job has a deadline, and is
  within it and its backoff limit) each step of a Job increases pods lost, restarts,
  age or stage, in that order, all of which are bounded. This is the variant on which
  `JobEnds` rests; that the next step is taken at all is fairness, and left to TLC.
- `AtMostOneLost`: `Spec => []LosesAtMostOne`. Inductive invariant `LossInv`: the Job that
  runs after one was lost is `Good`, that is, built from the CronJob now wanted, has
  not waited, and is next to the workload; such a Job fits a node, starts, connects
  and completes (`GoodStays`).

No wake-up is lost. A controller that works from events is wrong if it can come to
rest with work left: nothing running, nothing queued, no event on its way. That is
the part of the liveness properties that is safety, and it is proved for the four
reconciles, each from an inductive invariant `RestInv` of the same shape: while
nothing is pending for an object, either no reconcile of it runs and the work on it
is done, or one runs and what it has found and ensured so far holds (`OnTrack`, phase
by phase), in three of the four only as long as its copy is fresh. It is kept because a step after which
nothing is pending has changed nothing the object depends on, unless it started its
reconcile or the operator (`StillStep`, `QuietStep`, `SurroundingsStep`): each change
either is still in a stream or has put the key in the queue.

- `RestServed` (`RepositoryServerProofs`): `Spec => []RestIsServed`, with `ServerInv`.
- `RestDone` (`BackupLifecycleProofs`): `Spec => []RestIsDone`, with `FinalizerInv` and
  `FreshInv`. It needs `DyingHeld` (every version being deleted has the finalizer, so
  that the object does not go unnoticed) and `SecretsOwned`: an event of a Secret wakes
  its owner, so a Secret must have an owner of its own PVC and no version of it may
  follow an equal one, which would tell nobody.
- `RestPlaced` (`BackupPlacementProofs`): `Spec => []RestIsPlaced`, with `LifeInv`,
  `DyingHeld` and `CronsOwned`, the same of CronJobs.
- `RestFollowed` (`PVCWatcherProofs`): `Spec => []RestIsFollowed`, with `WatcherInv`; label
  and schedule are claimed under `Told`, the existence of a backup under `Kept`. The
  watcher hears of PVCs alone, and only of changes its event filter lets through
  (`Passing`: every version in a stream passes after the one before it). Others write
  the KopiaBackup at any time without waking it, so its part of the invariant is about
  what those writes leave alone (`ByOthers`). That a PVC still has its backup needs
  `KeptInv`: where nothing is taken away, every copy of a PVC is of one object, a label
  once seen is in all later versions (`Lasting`), and a PVC with a backup has the label,
  so that no reconcile, however old its copy, deletes.

`RestDone` and `RestPlaced` are about a backup that is `Alone` on its PVC, since an event of a shared
Secret or CronJob reaches its owner only; `RestIsPlaced` also asks that there is one
namespace, since a changed repository wakes the backups next to it only. Both
restrictions are those under which the watches do reach the backup; what happens
without them is described above. `RestIsDone` does not speak of the annotation or of
the server's users: a command left running changes them without any event. Nor does
`RestIsServed` speak of the TLS Secret, which is not watched, or `RestIsPlaced` of the
ConfigMap and of which pod a CronJob is next to.

Only model-checked: all liveness properties (fairness and `ENABLED` are beyond the
prover), among them `JobEnds`, that a controller does come to rest, and what the
ConfigMap and the affinity end up as (`ConfigMapSettles`, `CronJobFollowsPod`); and
`SyncedUsable` without the hypothesis `Apart`, in `credentials_live` with caches one
version behind.

## Not modelled

- The start script of the server pod (connect to the repository or create it, set up
  the admin user): `StartPod` stands for a pod that got through it. Several replicas
  that start on an empty storage are the case worth a module of its own.
- The text of names: whether two PVC names give one CronJob name or one user, and the
  substring match of `buildCreateUserCommand`.
- One behaviour for a backup from its label down to its Job: the modules meet in
  `BackupLifecycle`, in the CronJob `BackupPlacement` writes and `BackupJob` builds, and
  in the fingerprint `RepositoryServer` publishes, but no run composes their state.
- Of the CronJob, what no Job's course depends on: history limits, time to live,
  labels and security contexts.
- A credentials Secret with a key missing, which only another client can make, and a
  `kopia server refresh` that fails, which the script passes over: the user is in the
  repository then and the server finds it later.
- Durations: requeue delays, probe periods, and snapshots that run into the deadline.
- Metrics, events and logs, registration and wiring, and the generated deep copies.
