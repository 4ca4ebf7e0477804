-------------------------- MODULE BackupPlacement --------------------------
(***************************************************************************)
(* What the KopiaBackup reconciler makes of a backup once it is held by    *)
(* its finalizer: the CronJob, pinned to the node of the pod that uses the *)
(* PVC, the ConfigMap that all direct-mode backups of a filesystem         *)
(* repository share, and the status; and the watches that bring a backup   *)
(* back when one of its surroundings changes.                              *)
(*                                                                         *)
(* All backups, PVCs and pods live in one namespace, Home; repositories in *)
(* several.  The user of a server-mode backup is the business of           *)
(* BackupCredentials: here EnsureUser succeeds or fails.                   *)
(***************************************************************************)
EXTENDS WatchStream

CONSTANTS
    Backup,        \* names of KopiaBackups
    PVC,           \* names of PersistentVolumeClaims
    PvcOf,         \* spec.pvcName of each backup
    Repo,          \* names of KopiaRepositories
    RepoOf,        \* spec.repository of each backup
    Namespace,     \* namespaces that may hold KopiaRepositories
    Home,          \* the namespace of the backups
    Setting,       \* what a KopiaRepository may say: its spec and fingerprint
    ModeOf,        \* of a setting: server mode, or the storage type
    ReposThere,    \* the repositories there at the start
    Plan,          \* schedule, limits and suspend of a backup
    Suspended,     \* the plans that suspend
    Pod,           \* names of pods
    SnapshotPod,   \* those that start with CronJobPrefix
    Mounts,        \* the PVC each pod mounts
    Place,         \* what a pod tells: node, app label, tolerations
    PodsThere,     \* the pods that may be there at the start
    Nil,           \* no object, no place
    Faults,        \* the kinds of faults that may happen
    Edits,         \* the kinds of changes other clients may make
    MaxFaults,     \* bound: how many faults happen
    MaxEdits,      \* bound: how many changes other clients make
    MaxLag         \* bound: versions between the API server and a cache

FaultKind == {"api", "user", "crash"}

EditKind == {"create", "delete", "plan", "pvc", "repo", "pod", "cronJob", "configMap"}

Mode == {"server", "filesystem", "sftp"}

\* Reasons of the Ready condition.
Reason == {"None", "PVCNotFound", "RepositoryNotFound", "NoPodFound", "Suspended", "Reconciled"}

\* The Ready condition with its observedGeneration; CronJobCreated, nodeName
\* and the other fields only repeat what the reconcile has done.
Status == [ready : Reason, seen : Nat]

NoStatus == [ready |-> "None", seen |-> 0]

\* A KopiaBackup: its generation, plan, finalizer, deletionTimestamp, whether
\* spec.userCredentialsSecret is set, and its status.
BackupObj == [gen : Nat, plan : Plan, fin : BOOLEAN, deleting : BOOLEAN, cred : BOOLEAN,
              st : Status]

\* A CronJob: what its spec was built from, and its controller.
CronJobObj == [plan : Plan, set : Setting, place : Place \cup {Nil}, owner : Backup]

ConfigMapObj == [set : Setting, owner : Backup]

PodPhase == {"Pending", "Running", "Ended"}

\* A pod: a pending one may have its place already.
PodObj == [place : Place \cup {Nil}, phase : PodPhase]

Phase == {"addFin", "dropFin", "validate", "ensureUser", "configMap", "cronJob", "status"}

\* The reconcile in progress: the backup and the copy of it in hand with its
\* status as set so far, whether that copy is current, the repository found,
\* and whether it will ask for a requeue or return an error.
Job == [pc : Phase, b : Backup, obj : BackupObj, fresh : BOOLEAN,
        set : Setting \cup {Nil}, retry : BOOLEAN]

IdleJob == [pc |-> "idle", b |-> Nil, obj |-> Nil, fresh |-> FALSE, set |-> Nil, retry |-> FALSE]

\* What a KopiaBackup controls: the CronJob of a PVC, the ConfigMap of a
\* repository.
Child == ({"cronJob"} \X PVC) \cup ({"configMap"} \X Repo)

ASSUME ConstantsAssumption ==
    /\ PvcOf \in [Backup -> PVC] /\ RepoOf \in [Backup -> Repo]
    /\ Home \in Namespace
    /\ ModeOf \in [Setting -> Mode]
    /\ ReposThere \in [Namespace \X Repo -> Setting \cup {Nil}]
    /\ Suspended \subseteq Plan
    /\ SnapshotPod \subseteq Pod /\ Mounts \in [Pod -> PVC]
    /\ PodsThere \subseteq [Pod -> PodObj \cup {Nil}]
    /\ Faults \subseteq FaultKind
    /\ Edits \subseteq EditKind
    /\ MaxFaults \in Nat /\ MaxEdits \in Nat
    /\ MaxLag \in Nat \ {0, 1}

ASSUME NilAssumption ==
    Nil \notin Backup \cup Setting \cup Place \cup BackupObj \cup CronJobObj \cup ConfigMapObj
                   \cup PodObj

VARIABLES
    backup,   \* the stream of each KopiaBackup
    cron,     \* the stream of the CronJob of each PVC
    config,   \* the stream of the ConfigMap of each repository name
    orphans,  \* children whose controller is gone, awaiting collection
    repos,    \* the KopiaRepositories there are, as cached
    pvcs,     \* the PVCs there are, as cached
    pods,     \* the pods there are, as cached
    queue,    \* the controller's work queue
    job,      \* the reconcile in progress
    faults,   \* faults that may still happen
    edits     \* changes other clients may still make

children == <<cron, config, orphans>>
envVars == <<repos, pvcs, pods>>
budgets == <<faults, edits>>
vars == <<backup, children, envVars, queue, job, budgets>>

Cur(b) == Current(backup[b])
CurCron(p) == Current(cron[p])
CurConfig(r) == Current(config[r])
MyPvc == PvcOf[job.b]
MyRepo == RepoOf[job.b]

NewBackup(plan) == [gen |-> 1, plan |-> plan, fin |-> FALSE, deleting |-> FALSE, cred |-> FALSE,
                    st |-> NoStatus]

\* The operator starts: backups, and pods that run or will be created.
Init ==
    /\ \E plan \in Plan \ Suspended : backup = [b \in Backup |-> <<NewBackup(plan)>>]
    /\ cron = [p \in PVC |-> <<Nil>>]
    /\ config = [r \in Repo |-> <<Nil>>]
    /\ orphans = {}
    /\ repos = ReposThere
    /\ pvcs = PVC
    /\ pods \in PodsThere
    /\ queue = Backup
    /\ job = IdleJob
    /\ faults = MaxFaults
    /\ edits = MaxEdits
-----------------------------------------------------------------------------
(***************************************************************************)
(* Building blocks                                                         *)
(***************************************************************************)
Fault(kind) == kind \in Faults /\ faults > 0 /\ faults' = faults - 1

Edit(kind) == kind \in Edits /\ edits > 0 /\ edits' = edits - 1

WriteBackup(b, v) ==
    /\ Len(backup[b]) < MaxLag
    /\ backup' = [backup EXCEPT ![b] = Put(@, v)]

WriteCron(p, v) ==
    /\ Len(cron[p]) < MaxLag
    /\ cron' = [cron EXCEPT ![p] = Put(@, v)]
    /\ orphans' = IF v = Nil THEN orphans \ {<<"cronJob", p>>} ELSE orphans
    /\ UNCHANGED config

WriteConfig(r, v) ==
    /\ Len(config[r]) < MaxLag
    /\ config' = [config EXCEPT ![r] = Put(@, v)]
    /\ orphans' = IF v = Nil THEN orphans \ {<<"configMap", r>>} ELSE orphans
    /\ UNCHANGED cron

\* A write by another client: a copy the operator holds becomes outdated.
Invalidate(b) == job' = IF job.b = b THEN [job EXCEPT !.fresh = FALSE] ELSE job

\* The last version of b goes: what it controls is left to the collector.
Orphan(b) ==
    orphans' = orphans
        \cup {<<"cronJob", p>> : p \in {p \in PVC : CurCron(p) # Nil /\ CurCron(p).owner = b}}
        \cup {<<"configMap", r>> : r \in {r \in Repo : CurConfig(r) # Nil /\ CurConfig(r).owner = b}}

\* The reconcile ends before the deferred status update is set up.
End(retry) == job' = IdleJob /\ queue' = IF retry THEN queue \cup {job.b} ELSE queue

Goto(phase) == job' = [job EXCEPT !.pc = phase] /\ UNCHANGED queue

\* The reconcile returns: its deferred status update is left.
Return(st, retry) ==
    job' = [job EXCEPT !.pc = "status", !.obj.st = st, !.retry = retry] /\ UNCHANGED queue

\* getKopiaRepository: the local one, else the only one of that name.
GetKopiaRepository(r) ==
    LET matches == {ns \in Namespace : repos[<<ns, r>>] # Nil}
        Only(ns) == matches = {ns}
    IN IF Home \in matches THEN repos[<<Home, r>>]
       ELSE IF \E ns \in Namespace : Only(ns) THEN repos[<<CHOOSE ns \in Namespace : Only(ns), r>>]
       ELSE Nil

\* The pods findPodUsingPVC may come upon first: the order of the list is
\* that of a map.
Candidates(p) ==
    {q \in Pod \ SnapshotPod : Mounts[q] = p /\ pods[q] # Nil /\ pods[q].phase = "Running"}

Placements(p) == IF Candidates(p) = {} THEN {Nil} ELSE {pods[q].place : q \in Candidates(p)}

SetReady(o, reason) == [ready |-> reason, seen |-> o.gen]
-----------------------------------------------------------------------------
(***************************************************************************)
(* The reconcile                                                           *)
(***************************************************************************)
\* Mutant: a backup that has its finalizer is not validated again.
FirstPhaseTrusting(o) ==
    CASE o.deleting /\ o.fin -> "dropFin"
      [] o.deleting /\ ~o.fin -> "idle"
      [] ~o.deleting /\ o.fin -> "configMap"
      [] ~o.deleting /\ ~o.fin -> "addFin"

FirstPhase(o) ==
    CASE o.deleting /\ o.fin -> "dropFin"
      [] o.deleting /\ ~o.fin -> "idle"
      [] ~o.deleting /\ o.fin -> "validate"
      [] ~o.deleting /\ ~o.fin -> "addFin"

StartReconcile(b) ==
    /\ job = IdleJob /\ b \in queue
    /\ queue' = queue \ {b}
    /\ LET o == Cached(backup[b])
       IN job' = IF o = Nil \/ FirstPhase(o) = "idle" THEN IdleJob
                 ELSE [IdleJob EXCEPT !.pc = FirstPhase(o), !.b = b, !.obj = o,
                                      !.fresh = CaughtUp(backup[b])]
    /\ UNCHANGED <<backup, children, envVars, budgets>>

\* An Update that is refused or fails while nothing else has been done.
FinalizerNotWritten ==
    /\ \/ ~job.fresh /\ UNCHANGED budgets
       \/ Fault("api") /\ UNCHANGED edits
    /\ End(TRUE)
    /\ UNCHANGED <<backup, orphans>>

AddFinalizer ==
    /\ job.pc = "addFin"
    /\ \/ /\ job.fresh
          /\ LET o == [job.obj EXCEPT !.fin = TRUE]
             IN WriteBackup(job.b, o) /\ job' = [job EXCEPT !.pc = "validate", !.obj = o]
          /\ UNCHANGED <<orphans, queue, budgets>>
       \/ FinalizerNotWritten
    /\ UNCHANGED <<cron, config, envVars>>

\* The cleanup of the user has been done.
RemoveFinalizer ==
    /\ job.pc = "dropFin"
    /\ \/ /\ job.fresh /\ WriteBackup(job.b, Nil) /\ Orphan(job.b) /\ End(FALSE)
          /\ UNCHANGED budgets
       \/ FinalizerNotWritten
    /\ UNCHANGED <<cron, config, envVars>>

\* Mutant: with a CronJob there, the ConfigMap is taken to be there too.
PhaseForTrusting(s) ==
    CASE ModeOf[s] = "server" -> "ensureUser"
      [] ModeOf[s] = "filesystem" /\ Cached(cron[MyPvc]) = Nil -> "configMap"
      [] OTHER -> "cronJob"

PhaseFor(s) ==
    CASE ModeOf[s] = "server" -> "ensureUser"
      [] ModeOf[s] = "filesystem" -> "configMap"
      [] ModeOf[s] = "sftp" -> "cronJob"

\* Mutant: a missing repository is not reported.
ValidateDependenciesSilent ==
    /\ job.pc = "validate"
    /\ LET s == GetKopiaRepository(MyRepo)
       IN \/ MyPvc \notin pvcs /\ Return(SetReady(job.obj, "PVCNotFound"), FALSE)
          \/ MyPvc \in pvcs /\ s = Nil /\ Return(job.obj.st, FALSE)
          \/ /\ MyPvc \in pvcs /\ s # Nil
             /\ job' = [job EXCEPT !.pc = PhaseFor(s), !.set = s]
             /\ UNCHANGED queue
    /\ UNCHANGED <<backup, children, envVars, budgets>>

\* validateDependencies: no requeue, the watches bring the backup back.
ValidateDependencies ==
    /\ job.pc = "validate"
    /\ LET s == GetKopiaRepository(MyRepo)
       IN \/ MyPvc \notin pvcs /\ Return(SetReady(job.obj, "PVCNotFound"), FALSE)
          \/ MyPvc \in pvcs /\ s = Nil /\ Return(SetReady(job.obj, "RepositoryNotFound"), FALSE)
          \/ /\ MyPvc \in pvcs /\ s # Nil
             /\ job' = [job EXCEPT !.pc = PhaseFor(s), !.set = s]
             /\ UNCHANGED queue
    /\ UNCHANGED <<backup, children, envVars, budgets>>

\* reconcileServerCredentials: EnsureUser, then the name of the Secret is
\* persisted unless it has been.
ReconcileServerCredentials ==
    /\ job.pc = "ensureUser"
    /\ LET o == [job.obj EXCEPT !.cred = TRUE, !.gen = @ + 1]
       IN \/ job.obj.cred /\ Goto("cronJob") /\ UNCHANGED <<backup, budgets>>
          \/ /\ ~job.obj.cred /\ job.fresh /\ WriteBackup(job.b, o)
             /\ job' = [job EXCEPT !.pc = "cronJob", !.obj = o]
             /\ UNCHANGED <<queue, budgets>>
          \/ /\ ~job.obj.cred /\ ~job.fresh /\ Return(job.obj.st, TRUE)
             /\ UNCHANGED <<backup, budgets>>
          \/ /\ Fault("user") /\ Return(job.obj.st, TRUE)
             /\ UNCHANGED <<backup, edits>>
    /\ UNCHANGED <<children, envVars>>

\* Mutant: a ConfigMap that is there is left as it is.
DesiredConfigMapOnce(c) == IF c = Nil THEN [set |-> job.set, owner |-> job.b] ELSE c

\* A ConfigMap that is there keeps its controller, whichever backup that is.
DesiredConfigMap(c) ==
    IF c = Nil THEN [set |-> job.set, owner |-> job.b] ELSE [c EXCEPT !.set = job.set]

ReconcileConfigMap ==
    /\ job.pc = "configMap"
    /\ LET c == Cached(config[MyRepo])
           possible == IF c = Nil THEN CurConfig(MyRepo) = Nil ELSE CaughtUp(config[MyRepo])
           desired == DesiredConfigMap(c)
       IN \/ c = desired /\ Goto("cronJob") /\ UNCHANGED <<children, budgets>>
          \/ /\ c # desired /\ possible
             /\ WriteConfig(MyRepo, desired) /\ Goto("cronJob") /\ UNCHANGED budgets
          \/ c # desired /\ ~possible /\ Return(job.obj.st, TRUE) /\ UNCHANGED <<children, budgets>>
          \/ c # desired /\ Fault("api") /\ Return(job.obj.st, TRUE) /\ UNCHANGED <<children, edits>>
    /\ UNCHANGED <<backup, envVars>>

\* The status of a reconcile whose CronJob is up to date.
Placed(o, place) ==
    LET reason == CASE place = Nil -> "NoPodFound"
                    [] place # Nil /\ o.plan \in Suspended -> "Suspended"
                    [] OTHER -> "Reconciled"
    IN SetReady(o, reason)

NewCronJob(place) ==
    [plan |-> job.obj.plan, set |-> job.set, place |-> place, owner |-> job.b]

\* Mutant: the schedule of a CronJob that is there is left as it is.
DesiredCronJobPlanKept(c, place) ==
    IF c = Nil THEN NewCronJob(place)
    ELSE [NewCronJob(place) EXCEPT !.owner = c.owner, !.plan = c.plan]

\* Mutant: the node affinity of a CronJob that is there is left as it is.
DesiredCronJobPlaceKept(c, place) ==
    IF c = Nil THEN NewCronJob(place)
    ELSE [NewCronJob(place) EXCEPT !.owner = c.owner, !.place = c.place]

\* A CronJob that is there keeps its controller and gets a new spec.
DesiredCronJob(c, place) ==
    IF c = Nil THEN NewCronJob(place) ELSE [NewCronJob(place) EXCEPT !.owner = c.owner]

\* The CronJob is written for a pod come upon.  The API server fills in
\* defaults, so an Update is sent every time; it often changes nothing.
ReconcileCronJob ==
    /\ job.pc = "cronJob"
    /\ \E place \in Placements(MyPvc) :
          LET c == Cached(cron[MyPvc])
              possible == IF c = Nil THEN CurCron(MyPvc) = Nil ELSE CaughtUp(cron[MyPvc])
          IN \/ /\ possible /\ WriteCron(MyPvc, DesiredCronJob(c, place))
                /\ Return(Placed(job.obj, place), place = Nil)
                /\ UNCHANGED budgets
             \/ ~possible /\ Return(job.obj.st, TRUE) /\ UNCHANGED <<children, budgets>>
             \/ Fault("api") /\ Return(job.obj.st, TRUE) /\ UNCHANGED <<children, edits>>
    /\ UNCHANGED <<backup, envVars>>

\* Mutant: the copy in hand is written over whatever is there.
UpdateStatusUnchecked ==
    /\ job.pc = "status"
    /\ \/ WriteBackup(job.b, job.obj) /\ End(job.retry) /\ UNCHANGED budgets
       \/ Fault("api") /\ End(TRUE) /\ UNCHANGED <<backup, edits>>
    /\ UNCHANGED <<children, envVars>>

\* The deferred Status().Update; its error is returned.
UpdateStatus ==
    /\ job.pc = "status"
    /\ \/ job.fresh /\ WriteBackup(job.b, job.obj) /\ End(job.retry) /\ UNCHANGED budgets
       \/ ~job.fresh /\ End(TRUE) /\ UNCHANGED <<backup, budgets>>
       \/ Fault("api") /\ End(TRUE) /\ UNCHANGED <<backup, edits>>
    /\ UNCHANGED <<children, envVars>>

Reconcile ==
    \/ \E b \in Backup : StartReconcile(b)
    \/ AddFinalizer \/ RemoveFinalizer \/ ValidateDependencies \/ ReconcileServerCredentials
    \/ ReconcileConfigMap \/ ReconcileCronJob \/ UpdateStatus
-----------------------------------------------------------------------------
(***************************************************************************)
(* Informers and watches                                                   *)
(***************************************************************************)
\* Mutant: the index of pvcName finds nothing.
BackupsForPVCNone(p) == {}

\* findBackupsForField, asked for an object of the namespace Home.
BackupsForPVC(p) == {b \in Backup : Cached(backup[b]) # Nil /\ PvcOf[b] = p}

BackupsForRepo(r) == {b \in Backup : Cached(backup[b]) # Nil /\ RepoOf[b] = r}

\* For(KopiaBackup)
DeliverBackup(b) ==
    /\ ~CaughtUp(backup[b])
    /\ backup' = [backup EXCEPT ![b] = Deliver(@)]
    /\ queue' = queue \cup {b}
    /\ UNCHANGED <<children, envVars, job, budgets>>

Owners(w) == {v.owner : v \in {w[1], w[2]} \ {Nil}}

\* Owns(CronJob)
DeliverCronJob(p) ==
    /\ ~CaughtUp(cron[p])
    /\ cron' = [cron EXCEPT ![p] = Deliver(@)]
    /\ queue' = queue \cup Owners(cron[p])
    /\ UNCHANGED <<backup, config, orphans, envVars, job, budgets>>

\* Owns(ConfigMap): the other backups that use it are not enqueued.
DeliverConfigMap(r) ==
    /\ ~CaughtUp(config[r])
    /\ config' = [config EXCEPT ![r] = Deliver(@)]
    /\ queue' = queue \cup Owners(config[r])
    /\ UNCHANGED <<backup, cron, orphans, envVars, job, budgets>>

\* The informers' periodic resync, and changes of the CronJob's status.
Resync(b) ==
    /\ Cached(backup[b]) # Nil
    /\ queue' = queue \cup {b}
    /\ UNCHANGED <<backup, children, envVars, job, budgets>>

Restart ==
    /\ Fault("crash")
    /\ job' = IdleJob
    /\ queue' = {b \in Backup : Cached(backup[b]) # Nil}
    /\ UNCHANGED <<backup, children, envVars, edits>>

CollectGarbage(child) ==
    /\ child \in orphans
    /\ \/ child[1] = "cronJob" /\ WriteCron(child[2], Nil)
       \/ child[1] = "configMap" /\ WriteConfig(child[2], Nil)
    /\ UNCHANGED <<backup, envVars, queue, job, budgets>>

\* Mutant: only pods that are running when they appear are looked at.
PassesCreated(old, new) == new # Nil /\ new.phase = "Running" /\ old = Nil

\* podRunningPredicate
Passes(old, new) ==
    /\ new # Nil
    /\ \/ new.phase = "Running" /\ (old = Nil \/ old.phase # "Running")
       \/ old # Nil /\ old.place = Nil /\ new.place # Nil

\* findBackupsForPod
ChangePod(q, v) ==
    /\ pods' = [pods EXCEPT ![q] = v]
    /\ queue' = IF Passes(pods[q], v) /\ q \notin SnapshotPod
                THEN queue \cup BackupsForPVC(Mounts[q]) ELSE queue
    /\ UNCHANGED <<backup, children, repos, pvcs, job, faults>>

\* Scheduler and kubelet.
SchedulePod(q, place) ==
    /\ pods[q] # Nil /\ pods[q].place = Nil
    /\ ChangePod(q, [pods[q] EXCEPT !.place = place])
    /\ UNCHANGED edits

RunPod(q) ==
    /\ pods[q] # Nil /\ pods[q].place # Nil /\ pods[q].phase = "Pending"
    /\ ChangePod(q, [pods[q] EXCEPT !.phase = "Running"])
    /\ UNCHANGED edits
-----------------------------------------------------------------------------
(***************************************************************************)
(* Other clients                                                           *)
(***************************************************************************)
CreatePod(q) == pods[q] = Nil /\ Edit("pod") /\ ChangePod(q, [place |-> Nil, phase |-> "Pending"])

EndPod(q) ==
    /\ pods[q] # Nil /\ pods[q].phase = "Running" /\ Edit("pod")
    /\ ChangePod(q, [pods[q] EXCEPT !.phase = "Ended"])

DeletePod(q) == pods[q] # Nil /\ Edit("pod") /\ ChangePod(q, Nil)

OtherWrite(b, v) ==
    /\ WriteBackup(b, v) /\ Invalidate(b)
    /\ UNCHANGED <<cron, config, envVars, queue, faults>>

CreateBackup(b, plan) ==
    /\ Cur(b) = Nil /\ Edit("create") /\ OtherWrite(b, NewBackup(plan))
    /\ UNCHANGED orphans

DeleteBackup(b) ==
    /\ Cur(b) # Nil /\ ~Cur(b).deleting /\ Edit("delete")
    /\ \/ Cur(b).fin /\ OtherWrite(b, [Cur(b) EXCEPT !.deleting = TRUE]) /\ UNCHANGED orphans
       \/ ~Cur(b).fin /\ OtherWrite(b, Nil) /\ Orphan(b)

SetPlan(b, plan) ==
    /\ Cur(b) # Nil /\ Cur(b).plan # plan /\ Edit("plan")
    /\ OtherWrite(b, [Cur(b) EXCEPT !.plan = plan, !.gen = @ + 1])
    /\ UNCHANGED orphans

DeleteCronJob(p) ==
    /\ CurCron(p) # Nil /\ Edit("cronJob") /\ WriteCron(p, Nil)
    /\ UNCHANGED <<backup, envVars, queue, job, faults>>

DeleteConfigMap(r) ==
    /\ CurConfig(r) # Nil /\ Edit("configMap") /\ WriteConfig(r, Nil)
    /\ UNCHANGED <<backup, envVars, queue, job, faults>>

ChangePVC(p) ==
    /\ Edit("pvc")
    /\ pvcs' = IF p \in pvcs THEN pvcs \ {p} ELSE pvcs \cup {p}
    /\ queue' = queue \cup BackupsForPVC(p)
    /\ UNCHANGED <<backup, children, repos, pods, job, faults>>

\* Mutant: the KopiaRepository watch is forgotten.
EnqueuedForRepoNone(ns, r) == {}

EnqueuedForRepo(ns, r) == IF ns = Home THEN BackupsForRepo(r) ELSE {}

\* A repository is created, changed (its status included) or deleted.
ChangeRepository(ns, r, s) ==
    /\ repos[<<ns, r>>] # s /\ Edit("repo")
    /\ repos' = [repos EXCEPT ![<<ns, r>>] = s]
    /\ queue' = queue \cup EnqueuedForRepo(ns, r)
    /\ UNCHANGED <<backup, children, pvcs, pods, job, faults>>

Environment ==
    \/ \E b \in Backup : DeliverBackup(b) \/ Resync(b) \/ DeleteBackup(b)
    \/ \E b \in Backup, plan \in Plan : CreateBackup(b, plan) \/ SetPlan(b, plan)
    \/ \E p \in PVC : DeliverCronJob(p) \/ DeleteCronJob(p) \/ ChangePVC(p)
    \/ \E r \in Repo : DeliverConfigMap(r) \/ DeleteConfigMap(r)
    \/ \E ns \in Namespace, r \in Repo, s \in Setting \cup {Nil} : ChangeRepository(ns, r, s)
    \/ \E q \in Pod : RunPod(q) \/ CreatePod(q) \/ EndPod(q) \/ DeletePod(q)
    \/ \E q \in Pod, place \in Place : SchedulePod(q, place)
    \/ \E child \in Child : CollectGarbage(child)
    \/ Restart

Next == Reconcile \/ Environment

Spec == Init /\ [][Next]_vars
-----------------------------------------------------------------------------
(***************************************************************************)
(* Properties                                                              *)
(***************************************************************************)
\* The variables keep their types; a reconcile that writes a CronJob or a
\* ConfigMap has a repository in hand.
TypeOK ==
    /\ backup \in [Backup -> Streams(BackupObj \cup {Nil})]
    /\ cron \in [PVC -> Streams(CronJobObj \cup {Nil})]
    /\ config \in [Repo -> Streams(ConfigMapObj \cup {Nil})]
    /\ orphans \subseteq Child
    /\ repos \in [Namespace \X Repo -> Setting \cup {Nil}]
    /\ pvcs \subseteq PVC
    /\ pods \in [Pod -> PodObj \cup {Nil}]
    /\ queue \subseteq Backup
    /\ job \in Job \cup {IdleJob}
    /\ job.pc \in {"ensureUser", "configMap", "cronJob"} => job.set \in Setting
    /\ faults \in 0 .. MaxFaults
    /\ edits \in 0 .. MaxEdits

\* A status that tells of a CronJob for the generation the backup has.
Told(o) == o.st.seen = o.gen /\ o.st.ready \in {"NoPodFound", "Suspended", "Reconciled"}

\* No other backup uses its PVC, and with it the CronJob.
Alone(b) == \A c \in Backup : PvcOf[c] = PvcOf[b] => c = b

\* When the Ready condition of the current generation says that the CronJob
\* has been dealt with, a CronJob that is there has the plan of the backup:
\* its schedule, its limits and whether it is suspended.  Neither a stale
\* copy of the backup, a stale CronJob, a lost race for either nor a restart
\* lets the status run ahead.
ReadyIsCurrent ==
    \A b \in Backup :
        /\ Alone(b) /\ Cur(b) # Nil /\ Told(Cur(b)) /\ CurCron(PvcOf[b]) # Nil
        => CurCron(PvcOf[b]).plan = Cur(b).plan

\* Where the object of a version is in its life.
LifeOf(o) ==
    IF o = Nil THEN "absent"
    ELSE IF o.deleting THEN "terminating"
    ELSE IF o.fin THEN "held" ELSE "bare"

life == [b \in Backup |-> LifeOf(Cur(b))]

\* The reconcile has written its name of the Secret or its status.
attended == {b \in Backup : Cur(b) # Nil /\ (Cur(b).cred \/ Cur(b).st # NoStatus)}

Lifecycle == INSTANCE BackupLifecycle

\* From the backups there are when the operator starts, every KopiaBackup
\* goes through the life the other modules rely on: the deferred status
\* update, made from a copy read several writes earlier, never brings an
\* object back, undoes its deletion, drops its finalizer or reports on one
\* that is not held.
KeepsLifecycle == [][Lifecycle!Next]_<<life, attended>>

\* Nothing will bring b back to the worker before something changes.
AtRest(b) == b \notin queue /\ job.b # b /\ CaughtUp(backup[b]) /\ CaughtUp(cron[PvcOf[b]])

\* The status of o is what a reconcile of b has to report, and the CronJob it
\* reports on is there, on a node.
Accounted(b, o) ==
    LET s == GetKopiaRepository(RepoOf[b])
        c == CurCron(PvcOf[b])
        valid == PvcOf[b] \in pvcs /\ s # Nil
    IN /\ o.st.seen = o.gen
       /\ PvcOf[b] \notin pvcs => o.st.ready = "PVCNotFound"
       /\ PvcOf[b] \in pvcs /\ s = Nil => o.st.ready = "RepositoryNotFound"
       /\ valid => /\ o.st.ready = IF o.plan \in Suspended THEN "Suspended" ELSE "Reconciled"
                   /\ c # Nil /\ c.plan = o.plan /\ c.set = s /\ c.place # Nil

\* No wake-up is lost: a backup the controller has no reason to look at again
\* needs no look.  Whatever was stale, failed or changed on the way, its
\* status tells of the current generation which dependency is missing, or its
\* CronJob has its plan, the settings its repository has now, and a node.
\* For a backup alone on its PVC and with its repository next to it: the
\* watches reach no backup in another namespace.
RestIsPlaced ==
    \A b \in Backup : Alone(b) /\ Namespace = {Home} /\ AtRest(b) /\ Cur(b) # Nil
                      => Cur(b).fin /\ ~Cur(b).deleting /\ Accounted(b, Cur(b))
-----------------------------------------------------------------------------
(***************************************************************************)
(* Liveness                                                                *)
(***************************************************************************)
\* The worker never stops and its queue is first in, first out, informers
\* catch up, the collector runs and pods get their node and start.
WatchFairness ==
    /\ WF_vars(Reconcile)
    /\ \A b \in Backup : SF_vars(StartReconcile(b))
    /\ \A b \in Backup : WF_vars(DeliverBackup(b))
    /\ \A p \in PVC : WF_vars(DeliverCronJob(p))
    /\ \A r \in Repo : WF_vars(DeliverConfigMap(r))
    /\ \A child \in Child : WF_vars(CollectGarbage(child))
    /\ \A q \in Pod : WF_vars(RunPod(q) \/ \E place \in Place : SchedulePod(q, place))

\* Nothing but changes brings a backup back.
WatchSpec == Spec /\ WatchFairness

\* Every backup is also looked at from time to time.
FairSpec == WatchSpec /\ \A b \in Backup : WF_vars(Resync(b))

\* The backup is not being deleted and its dependencies are there.
Valid(b) ==
    /\ Cur(b) # Nil /\ ~Cur(b).deleting
    /\ PvcOf[b] \in pvcs /\ GetKopiaRepository(RepoOf[b]) # Nil

\* The CronJob of b is there for good, as backup and repository have it.
CronJobBuilt(b) ==
    LET c == CurCron(PvcOf[b])
    IN /\ c # Nil /\ <<"cronJob", PvcOf[b]>> \notin orphans
       /\ c.plan = Cur(b).plan /\ c.set = GetKopiaRepository(RepoOf[b])

\* Once changes have ceased, every backup with its PVC and its repository has
\* a CronJob with its plan and the settings of the repository: a CronJob
\* collected with the backup it was made for, deleted by hand or read from a
\* stale cache is made anew or brought up to date.
CronJobSettles == \A b \in Backup : <>[](Valid(b) => CronJobBuilt(b))

\* "Watch Pods so the CronJob node affinity is updated immediately when the
\* pod using a PVC moves to a different node": once changes have ceased, the
\* CronJob is pinned to the node of a pod that uses the PVC, if one runs.
CronJobFollowsPod ==
    \A b \in Backup : <>[](Valid(b) /\ Candidates(PvcOf[b]) # {} /\ CurCron(PvcOf[b]) # Nil
                              => CurCron(PvcOf[b]).place \in Placements(PvcOf[b]))

\* Once changes have ceased, the ConfigMap a filesystem repository's backups
\* mount is there, with the settings of the repository, also when the backup
\* that controlled it has gone.
ConfigMapSettles ==
    \A b \in Backup :
        LET s == GetKopiaRepository(RepoOf[b])
            c == CurConfig(RepoOf[b])
        IN <>[](Valid(b) /\ ModeOf[s] = "filesystem"
                   => c # Nil /\ <<"configMap", RepoOf[b]>> \notin orphans /\ c.set = s)

\* What the Ready condition of b should say.
Truth(b) ==
    CASE PvcOf[b] \notin pvcs -> {"PVCNotFound"}
      [] PvcOf[b] \in pvcs /\ GetKopiaRepository(RepoOf[b]) = Nil -> {"RepositoryNotFound"}
      [] Valid(b) /\ Candidates(PvcOf[b]) # {} ->
             {IF Cur(b).plan \in Suspended THEN "Suspended" ELSE "Reconciled"}
      [] OTHER -> Reason

\* "watches on PVCs and KopiaRepositories will trigger re-reconciliation when
\* the missing dependency appears": once changes have ceased, the Ready
\* condition tells of the current generation which dependency is missing, and
\* of none when all are there.
ReadySettles ==
    \A b \in Backup : <>[](Cur(b) # Nil /\ ~Cur(b).deleting
                              => Cur(b).st.seen = Cur(b).gen /\ Cur(b).st.ready \in Truth(b))
=============================================================================
