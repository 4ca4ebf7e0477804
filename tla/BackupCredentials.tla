------------------------- MODULE BackupCredentials -------------------------
(***************************************************************************)
(* The life of a server-mode KopiaBackup: the KopiaBackup reconciler, the  *)
(* user manager it calls, the credentials Secret, the users of the Kopia   *)
(* servers and the API server between them.  Every call that leaves the    *)
(* operator (an API write, an exec in the server pod) is a step of its     *)
(* own, so other clients, the garbage collector, the informers, a restart  *)
(* and commands the operator gave up waiting for interleave with it.       *)
(*                                                                         *)
(* All backups live in one namespace.  The controller has one worker, so   *)
(* one reconcile runs at a time.                                           *)
(***************************************************************************)
EXTENDS WatchStream, FiniteSets

CONSTANTS
    Backup,        \* names of KopiaBackups
    PVC,           \* names of PersistentVolumeClaims
    Repo,          \* names of KopiaRepositories, each with its Kopia server
    Host,          \* values of KopiaRepository spec.hostname
    PvcOf,         \* spec.pvcName of each backup
    HostOf,        \* spec.hostname of each repository
    Nil,           \* no object, no annotation, no user, no repository
    Faults,        \* the kinds of faults that may happen
    Edits,         \* the kinds of changes other clients may make
    MaxFaults,     \* bound: how many faults happen
    MaxEdits,      \* bound: how many changes other clients make
    Password,      \* passwords; one nobody holds any more serves as a new one
    MaxLag         \* bound: versions between the API server and a cache

FaultKind == {"api", "exec", "timeout", "swallow", "crash"}

EditKind == {"create", "delete", "switch", "repo", "pvc", "server", "annotation", "password"}

Mode == {"absent", "direct", "server"}

\* naming.Username: the namespace is fixed, the PVC and the hostname vary.
User == PVC \X Host

Username(b, r) == <<PvcOf[b], HostOf[r]>>

Creds == [user : User, pw : Password]

\* Reasons of the Ready condition: none yet, PVCNotFound or
\* RepositoryNotFound, and those set once the CronJob is up to date.
Reason == {"None", "NotFound", "UpToDate"}

\* A KopiaBackup: deletionTimestamp, finalizer, whether
\* spec.userCredentialsSecret is set, spec.repository, status.connected and
\* the reason of the Ready condition.
BackupObj == [deleting : BOOLEAN, fin : BOOLEAN, cred : BOOLEAN, repo : Repo,
              connected : BOOLEAN, ready : Reason]

\* A credentials Secret: its data, the user-synced annotation (a fingerprint
\* is injective, so the credentials stand for it) and its controller.
SecretObj == [creds : Creds, synced : Creds \cup {Nil}, owner : Backup]

\* A command in the server pod: user set (or add) and user delete.
Command == [op : {"set"}, repo : Repo, user : User, pw : Password]
               \cup [op : {"delete"}, repo : Repo, user : User, pw : {Nil}]

Provisioning == {"validate", "createSecret", "setUser", "rollback", "mark", "persist",
                 "resources", "invalid"}

Finalizing == {"finalize", "delUser", "delSecret", "dropFin"}

WithCreds == {"setUser", "rollback", "mark", "persist"}

WithRepo == WithCreds \cup {"createSecret", "delUser", "delSecret"}

Phase == {"addFin"} \cup Provisioning \cup Finalizing

\* The reconcile in progress: its phase, the backup and the copy of it read
\* from the cache, whether that copy still has the current resourceVersion,
\* the repository looked up, the credentials in hand, and whether this
\* EnsureUser created the Secret itself.
Job == [pc : Phase, b : Backup, obj : BackupObj, fresh : BOOLEAN,
        repo : Repo \cup {Nil}, creds : Creds \cup {Nil}, minted : BOOLEAN]

IdleJob == [pc |-> "idle", b |-> Nil, obj |-> Nil, fresh |-> FALSE,
            repo |-> Nil, creds |-> Nil, minted |-> FALSE]

ASSUME ConstantsAssumption ==
    /\ PvcOf \in [Backup -> PVC]
    /\ HostOf \in [Repo -> Host]
    /\ Faults \subseteq FaultKind
    /\ Edits \subseteq EditKind
    /\ MaxFaults \in Nat /\ MaxEdits \in Nat
    /\ MaxLag \in Nat \ {0, 1}

ASSUME NilAssumption ==
    Nil \notin Backup \cup Repo \cup Password \cup Creds \cup BackupObj \cup SecretObj

VARIABLES
    backup,   \* the stream of each KopiaBackup
    secret,   \* the stream of the credentials Secret of each PVC
    orphans,  \* PVCs whose Secret awaits garbage collection
    repos,    \* each KopiaRepository as cached: absent, direct or server mode
    pvcs,     \* the PVCs that exist, as cached
    up,       \* the servers with a running pod whose container is ready
    users,    \* the users of each server's repository and their passwords
    late,     \* commands that outlived the exec call that started them
    queue,    \* the controller's work queue
    job,      \* the reconcile in progress
    faults,   \* faults that may still happen
    edits,    \* changes other clients may still make
    applied   \* history: credentials some server has ever been given

apiVars == <<backup, secret, orphans>>
envVars == <<repos, pvcs, up>>
serverVars == <<users, late, applied>>
opVars == <<queue, job>>
budgets == <<faults, edits>>
vars == <<apiVars, envVars, serverVars, opVars, budgets>>

Cur(b) == Current(backup[b])
CurSecret(p) == Current(secret[p])
MyPvc == PvcOf[job.b]

Init ==
    /\ backup = [b \in Backup |-> <<Nil>>]
    /\ secret = [p \in PVC |-> <<Nil>>]
    /\ orphans = {}
    /\ repos = [r \in Repo |-> "server"]
    /\ pvcs = PVC
    /\ up = {}
    /\ users = [r \in Repo |-> [u \in User |-> Nil]]
    /\ late = {}
    /\ queue = {}
    /\ job = IdleJob
    /\ faults = MaxFaults
    /\ edits = MaxEdits
    /\ applied = {}
-----------------------------------------------------------------------------
(***************************************************************************)
(* Building blocks                                                         *)
(***************************************************************************)
Fault(kind) == kind \in Faults /\ faults > 0 /\ faults' = faults - 1

Edit(kind) == kind \in Edits /\ edits > 0 /\ edits' = edits - 1

\* A write by another client: a copy the operator holds becomes outdated.
Invalidate(b) == job' = IF job.b = b THEN [job EXCEPT !.fresh = FALSE] ELSE job

WriteBackup(b, v) ==
    /\ Len(backup[b]) < MaxLag
    /\ backup' = [backup EXCEPT ![b] = Put(@, v)]

WriteSecret(p, v) ==
    /\ Len(secret[p]) < MaxLag
    /\ secret' = [secret EXCEPT ![p] = Put(@, v)]
    /\ orphans' = IF v = Nil THEN orphans \ {p} ELSE orphans

\* The last version of b goes: what it controls is left to the collector.
Orphan(b) == orphans' = orphans \cup {p \in PVC : CurSecret(p) # Nil /\ CurSecret(p).owner = b}

\* The reconcile returns without an error and asks for no requeue.
Done == job' = IdleJob /\ UNCHANGED queue

\* The reconcile returns an error or asks for a requeue.  Its deferred status
\* update changes nothing: the status is still the one it read.
Retry == job' = IdleJob /\ queue' = queue \cup {job.b}

Goto(phase) == job' = [job EXCEPT !.pc = phase] /\ UNCHANGED queue

\* Update and Status().Update are refused when the copy is outdated.
Conflict == ~job.fresh /\ UNCHANGED <<apiVars, budgets>> /\ Retry

\* An API write fails for a reason of its own.
ApiFault == Fault("api") /\ UNCHANGED <<apiVars, edits>>

Apply(c) == [users EXCEPT ![c.repo][c.user] = c.pw]

Record(c) == applied' = IF c.op = "set" THEN applied \cup {[user |-> c.user, pw |-> c.pw]} ELSE applied

CredsOf(v) == {v.creds, v.synced} \ {Nil}

\* The passwords some object, server, command or reconcile still holds.
HeldCreds == UNION {UNION {CredsOf(v) : v \in Versions(secret[p]) \ {Nil}} : p \in PVC}

InUse ==
    {c.pw : c \in HeldCreds \cup ({job.creds} \ {Nil})}
        \cup {c.pw : c \in late}
        \cup {users[r][u] : r \in Repo, u \in User}

\* A random password: one nobody holds.
NewPassword == CHOOSE pw \in Password : pw \notin InUse

\* What the history says of an earlier use of the value is forgotten.
Mint ==
    /\ Password \ InUse # {}
    /\ applied' = {c \in applied : c.pw # NewPassword}
-----------------------------------------------------------------------------
(***************************************************************************)
(* The reconcile: finalizer and validation                                 *)
(***************************************************************************)
\* Mutant: the finalizer is not added first.
FirstPhaseNoFinalizer(o) == IF o.deleting THEN "finalize" ELSE "validate"

FirstPhase(o) ==
    CASE o.deleting -> "finalize"
      [] ~o.deleting /\ ~o.fin -> "addFin"
      [] OTHER -> "validate"

\* The worker takes b from the queue and reads it from the cache.
StartReconcile(b) ==
    /\ job = IdleJob /\ b \in queue
    /\ queue' = queue \ {b}
    /\ LET o == Cached(backup[b])
       IN job' = IF o = Nil \/ (o.deleting /\ ~o.fin)
                 THEN IdleJob
                 ELSE [IdleJob EXCEPT !.pc = FirstPhase(o), !.b = b, !.obj = o,
                                      !.fresh = CaughtUp(backup[b])]
    /\ UNCHANGED <<apiVars, envVars, serverVars, budgets>>

\* Mutant: the finalizer is written over whatever version is there by now.
AddFinalizerUnchecked ==
    /\ job.pc = "addFin"
    /\ LET o == [job.obj EXCEPT !.fin = TRUE]
       IN /\ WriteBackup(job.b, o)
          /\ job' = [job EXCEPT !.pc = "validate", !.obj = o]
    /\ UNCHANGED <<secret, orphans, queue, budgets, envVars, serverVars>>

AddFinalizer ==
    /\ job.pc = "addFin"
    /\ \/ /\ job.fresh
          /\ LET o == [job.obj EXCEPT !.fin = TRUE]
             IN /\ WriteBackup(job.b, o)
                /\ job' = [job EXCEPT !.pc = "validate", !.obj = o]
          /\ UNCHANGED <<secret, orphans, queue, budgets>>
       \/ Conflict
       \/ ApiFault /\ Retry
    /\ UNCHANGED <<envVars, serverVars>>

\* validateDependencies, then the reads of EnsureUser up to its first write.
\* In direct mode the ConfigMap may fail to be written.
ValidateDependencies ==
    /\ job.pc = "validate"
    /\ LET r == job.obj.repo
           s == Cached(secret[MyPvc])
           Enter(phase, c) == job' = [job EXCEPT !.pc = phase, !.repo = r, !.creds = c] /\ UNCHANGED queue
       IN \/ /\ MyPvc \notin pvcs \/ repos[r] = "absent"
             /\ job' = [job EXCEPT !.pc = "invalid", !.obj.ready = "NotFound"]
             /\ UNCHANGED queue
          \/ /\ MyPvc \in pvcs /\ repos[r] = "direct"
             /\ Goto("resources") \/ Retry
          \/ /\ MyPvc \in pvcs /\ repos[r] = "server"
             /\ \/ s = Nil /\ Enter("createSecret", Nil)
                \/ s # Nil /\ s.synced = s.creds /\ Enter("persist", s.creds)
                \/ s # Nil /\ s.synced # s.creds /\ Enter("setUser", s.creds)
    /\ UNCHANGED <<apiVars, envVars, serverVars, budgets>>
-----------------------------------------------------------------------------
(***************************************************************************)
(* EnsureUser and what reconcileServerCredentials does with its result     *)
(***************************************************************************)
CreateSecret ==
    /\ job.pc = "createSecret"
    /\ LET c == [user |-> Username(job.b, job.repo), pw |-> NewPassword]
       IN \/ /\ CurSecret(MyPvc) = Nil /\ Mint
             /\ WriteSecret(MyPvc, [creds |-> c, synced |-> Nil, owner |-> job.b])
             /\ job' = [job EXCEPT !.pc = "setUser", !.creds = c, !.minted = TRUE]
             /\ UNCHANGED <<backup, queue, budgets>>
          \/ CurSecret(MyPvc) # Nil /\ Retry /\ UNCHANGED <<applied, apiVars, budgets>>
          \/ ApiFault /\ Retry /\ UNCHANGED applied
    /\ UNCHANGED <<envVars, users, late>>

\* Mutant: a failed exec on an existing Secret asks for no requeue.
SetUserFailedNoRequeue == IF job.minted THEN Goto("rollback") ELSE Done

\* A Secret created by this very EnsureUser is rolled back on failure.
SetUserFailed == IF job.minted THEN Goto("rollback") ELSE Retry

\* Mutant: a user that exists keeps its password.
CreateUserOnServerAddOnly ==
    /\ job.pc = "setUser"
    /\ LET c == [op |-> "set", repo |-> job.repo, user |-> job.creds.user, pw |-> job.creds.pw]
       IN \/ /\ job.repo \in up
             /\ users' = IF users[c.repo][c.user] = Nil THEN Apply(c) ELSE users
             /\ Record(c) /\ Goto("mark")
             /\ UNCHANGED <<late, budgets>>
          \/ job.repo \notin up /\ SetUserFailed /\ UNCHANGED <<serverVars, budgets>>
    /\ UNCHANGED <<apiVars, envVars>>

CreateUserOnServer ==
    /\ job.pc = "setUser"
    /\ LET c == [op |-> "set", repo |-> job.repo, user |-> job.creds.user, pw |-> job.creds.pw]
       IN \/ /\ job.repo \in up
             /\ users' = Apply(c) /\ Record(c)
             /\ Goto("mark")
             /\ UNCHANGED <<late, budgets>>
          \/ job.repo \notin up /\ SetUserFailed /\ UNCHANGED <<serverVars, budgets>>
          \/ /\ job.repo \in up /\ Fault("exec") /\ SetUserFailed
             /\ UNCHANGED <<serverVars, edits>>
          \/ /\ job.repo \in up /\ Fault("timeout") /\ SetUserFailed
             /\ late' = late \cup {c}
             /\ UNCHANGED <<users, applied, edits>>
    /\ UNCHANGED <<apiVars, envVars>>

\* Delete by name, whatever Secret has the name by now; errors are logged.
RollbackSecret ==
    /\ job.pc = "rollback"
    /\ \/ WriteSecret(MyPvc, Nil) /\ UNCHANGED <<backup, budgets>>
       \/ ApiFault
    /\ Retry
    /\ UNCHANGED <<envVars, serverVars>>

\* Mutant: the fingerprint is taken of what the Secret holds by now.
MarkUserSyncedAsStored ==
    /\ job.pc = "mark"
    /\ \/ /\ CurSecret(MyPvc) # Nil
          /\ WriteSecret(MyPvc, [CurSecret(MyPvc) EXCEPT !.synced = CurSecret(MyPvc).creds])
          /\ UNCHANGED <<backup, budgets>>
       \/ CurSecret(MyPvc) = Nil /\ UNCHANGED <<apiVars, budgets>>
    /\ Goto("persist")
    /\ UNCHANGED <<envVars, serverVars>>

\* A merge patch by name, without resourceVersion; errors are logged.
MarkUserSynced ==
    /\ job.pc = "mark"
    /\ \/ /\ CurSecret(MyPvc) # Nil
          /\ WriteSecret(MyPvc, [CurSecret(MyPvc) EXCEPT !.synced = job.creds])
          /\ UNCHANGED <<backup, budgets>>
       \/ CurSecret(MyPvc) = Nil /\ UNCHANGED <<apiVars, budgets>>
       \/ ApiFault
    /\ Goto("persist")
    /\ UNCHANGED <<envVars, serverVars>>

PersistCredentialsSecret ==
    /\ job.pc = "persist"
    /\ LET o == [job.obj EXCEPT !.cred = TRUE]
           Connected == job' = [job EXCEPT !.pc = "resources", !.obj = [o EXCEPT !.connected = TRUE]]
       IN \/ job.obj.cred /\ Connected /\ UNCHANGED <<queue, apiVars, budgets>>
          \/ /\ ~job.obj.cred /\ job.fresh
             /\ WriteBackup(job.b, o) /\ Connected
             /\ UNCHANGED <<queue, secret, orphans, budgets>>
          \/ ~job.obj.cred /\ Conflict
          \/ ~job.obj.cred /\ ApiFault /\ Retry
    /\ UNCHANGED <<envVars, serverVars>>

\* The deferred Status().Update of a reconcile that changed the status.
UpdateStatus(o) ==
    /\ job.fresh /\ WriteBackup(job.b, o)
    /\ UNCHANGED <<secret, orphans, budgets>>

UpdateStatusFailed == Conflict \/ (ApiFault /\ Retry)

\* No requeue: the watches bring the backup back.
ReportInvalid ==
    /\ job.pc = "invalid"
    /\ \/ UpdateStatus(job.obj) /\ Done
       \/ UpdateStatusFailed
    /\ UNCHANGED <<envVars, serverVars>>

\* The CronJob is up to date, with a requeue when no pod uses the PVC, or
\* could not be written.
ReconcileBackupResources ==
    /\ job.pc = "resources"
    /\ \/ UpdateStatus([job.obj EXCEPT !.ready = "UpToDate"]) /\ (Done \/ Retry)
       \/ UpdateStatus(job.obj) /\ Retry
       \/ UpdateStatusFailed
    /\ UNCHANGED <<envVars, serverVars>>
-----------------------------------------------------------------------------
(***************************************************************************)
(* The reconcile: finalizer cleanup and DeleteUser                         *)
(***************************************************************************)
\* Mutant: the repository found is not handed on.
LookupForCleanupForgets ==
    /\ job.pc = "finalize"
    /\ job' = [job EXCEPT !.pc = IF job.obj.cred /\ repos[job.obj.repo] = "server"
                                 THEN "delUser" ELSE "dropFin"]
    /\ UNCHANGED <<queue, apiVars, envVars, serverVars, budgets>>

\* Cleanup is skipped when no credentials were persisted, the repository is
\* gone or it is no longer in server mode.
LookupForCleanup ==
    /\ job.pc = "finalize"
    /\ job' = IF job.obj.cred /\ repos[job.obj.repo] = "server"
              THEN [job EXCEPT !.pc = "delUser", !.repo = job.obj.repo]
              ELSE [job EXCEPT !.pc = "dropFin"]
    /\ UNCHANGED <<queue, apiVars, envVars, serverVars, budgets>>

\* Mutant: a server that is not ready counts as cleaned up.
DeleteUserFromServerSkips ==
    /\ job.pc = "delUser"
    /\ LET c == [op |-> "delete", repo |-> job.repo, user |-> Username(job.b, job.repo), pw |-> Nil]
       IN \/ job.repo \in up /\ users' = Apply(c)
          \/ job.repo \notin up /\ UNCHANGED users
    /\ Goto("delSecret")
    /\ UNCHANGED <<late, applied, apiVars, envVars, budgets>>

\* The command reports success even when kopia fails to delete the user.
DeleteUserFromServer ==
    /\ job.pc = "delUser"
    /\ LET c == [op |-> "delete", repo |-> job.repo, user |-> Username(job.b, job.repo), pw |-> Nil]
       IN \/ /\ job.repo \in up
             /\ users' = Apply(c)
             /\ Goto("delSecret") /\ UNCHANGED <<late, applied, budgets>>
          \/ job.repo \notin up /\ Retry /\ UNCHANGED <<serverVars, budgets>>
          \/ /\ job.repo \in up /\ Fault("exec") /\ Retry
             /\ UNCHANGED <<serverVars, edits>>
          \/ /\ job.repo \in up /\ Fault("timeout") /\ Retry
             /\ late' = late \cup {c}
             /\ UNCHANGED <<users, applied, edits>>
          \/ /\ job.repo \in up /\ Fault("swallow") /\ Goto("delSecret")
             /\ UNCHANGED <<serverVars, edits>>
    /\ UNCHANGED <<apiVars, envVars>>

\* Mutant: a Secret that is gone already is an error.
DeleteSecretNotFound ==
    /\ job.pc = "delSecret"
    /\ \/ Cached(secret[MyPvc]) = Nil /\ Retry /\ UNCHANGED <<apiVars, budgets>>
       \/ /\ Cached(secret[MyPvc]) # Nil
          /\ WriteSecret(MyPvc, Nil) /\ Goto("dropFin")
          /\ UNCHANGED <<backup, budgets>>
    /\ UNCHANGED <<envVars, serverVars>>

\* The Secret is looked up in the cache and deleted by name.
DeleteSecret ==
    /\ job.pc = "delSecret"
    /\ \/ Cached(secret[MyPvc]) = Nil /\ Goto("dropFin") /\ UNCHANGED <<apiVars, budgets>>
       \/ /\ Cached(secret[MyPvc]) # Nil /\ CurSecret(MyPvc) # Nil
          /\ WriteSecret(MyPvc, Nil) /\ Goto("dropFin")
          /\ UNCHANGED <<backup, budgets>>
       \/ /\ Cached(secret[MyPvc]) # Nil /\ CurSecret(MyPvc) = Nil
          /\ Retry /\ UNCHANGED <<apiVars, budgets>>
       \/ Cached(secret[MyPvc]) # Nil /\ ApiFault /\ Retry
    /\ UNCHANGED <<envVars, serverVars>>

\* The object goes with its last finalizer.
RemoveFinalizer ==
    /\ job.pc = "dropFin"
    /\ \/ /\ job.fresh /\ WriteBackup(job.b, Nil) /\ Orphan(job.b) /\ Done
          /\ UNCHANGED <<secret, budgets>>
       \/ Conflict
       \/ ApiFault /\ Retry
    /\ UNCHANGED <<envVars, serverVars>>

Reconcile ==
    \/ \E b \in Backup : StartReconcile(b)
    \/ AddFinalizer \/ ValidateDependencies
    \/ CreateSecret \/ CreateUserOnServer \/ RollbackSecret \/ MarkUserSynced
    \/ PersistCredentialsSecret \/ ReconcileBackupResources \/ ReportInvalid
    \/ LookupForCleanup \/ DeleteUserFromServer \/ DeleteSecret \/ RemoveFinalizer
-----------------------------------------------------------------------------
(***************************************************************************)
(* Informers, restart, garbage collection, commands still running          *)
(***************************************************************************)
\* For(KopiaBackup): every event of a backup enqueues it.
DeliverBackup(b) ==
    /\ ~CaughtUp(backup[b])
    /\ backup' = [backup EXCEPT ![b] = Deliver(@)]
    /\ queue' = queue \cup {b}
    /\ UNCHANGED <<secret, orphans, envVars, serverVars, job, budgets>>

\* Owns(Secret): an event enqueues the controller of the old and new version.
DeliverSecret(p) ==
    /\ ~CaughtUp(secret[p])
    /\ secret' = [secret EXCEPT ![p] = Deliver(@)]
    /\ queue' = queue \cup {v.owner : v \in {secret[p][1], secret[p][2]} \ {Nil}}
    /\ UNCHANGED <<backup, orphans, envVars, serverVars, job, budgets>>

\* The informer's periodic resync, and events of the CronJob.
Resync(b) ==
    /\ Cached(backup[b]) # Nil
    /\ queue' = queue \cup {b}
    /\ UNCHANGED <<apiVars, envVars, serverVars, job, budgets>>

\* The operator dies and starts again: every backup listed is enqueued.
Restart ==
    /\ Fault("crash")
    /\ job' = IdleJob
    /\ queue' = {b \in Backup : Cached(backup[b]) # Nil}
    /\ UNCHANGED <<apiVars, envVars, serverVars, edits>>

CollectGarbage(p) ==
    /\ p \in orphans
    /\ WriteSecret(p, Nil)
    /\ UNCHANGED <<backup, envVars, serverVars, opVars, budgets>>

\* A command whose exec call timed out takes effect, or dies without one.
Land(c) ==
    /\ late' = late \ {c}
    /\ \/ users' = Apply(c) /\ Record(c)
       \/ UNCHANGED <<users, applied>>
    /\ UNCHANGED <<apiVars, envVars, opVars, budgets>>
-----------------------------------------------------------------------------
(***************************************************************************)
(* Other clients                                                           *)
(***************************************************************************)
NewBackup(r) == [deleting |-> FALSE, fin |-> FALSE, cred |-> FALSE, repo |-> r,
                 connected |-> FALSE, ready |-> "None"]

CreateBackup(b, r) ==
    /\ Cur(b) = Nil /\ Edit("create")
    /\ WriteBackup(b, NewBackup(r))
    /\ Invalidate(b)
    /\ UNCHANGED <<secret, orphans, envVars, serverVars, queue, faults>>

DeleteBackup(b) ==
    /\ Cur(b) # Nil /\ ~Cur(b).deleting /\ Edit("delete")
    /\ \/ /\ Cur(b).fin
          /\ WriteBackup(b, [Cur(b) EXCEPT !.deleting = TRUE])
          /\ UNCHANGED orphans
       \/ ~Cur(b).fin /\ WriteBackup(b, Nil) /\ Orphan(b)
    /\ Invalidate(b)
    /\ UNCHANGED <<secret, envVars, serverVars, queue, faults>>

SwitchRepository(b, r) ==
    /\ Cur(b) # Nil /\ Cur(b).repo # r /\ Edit("switch")
    /\ WriteBackup(b, [Cur(b) EXCEPT !.repo = r])
    /\ Invalidate(b)
    /\ UNCHANGED <<secret, orphans, envVars, serverVars, queue, faults>>

\* findBackupsForField: the cached backups that name the object.
BackupsForRepo(r) == {b \in Backup : Cached(backup[b]) # Nil /\ Cached(backup[b]).repo = r}

BackupsForPVC(p) == {b \in Backup : Cached(backup[b]) # Nil /\ PvcOf[b] = p}

ChangeRepository(r, mode) ==
    /\ repos[r] # mode /\ Edit("repo")
    /\ repos' = [repos EXCEPT ![r] = mode]
    /\ queue' = queue \cup BackupsForRepo(r)
    /\ UNCHANGED <<apiVars, pvcs, up, serverVars, job, faults>>

ChangePVC(p) ==
    /\ Edit("pvc")
    /\ pvcs' = IF p \in pvcs THEN pvcs \ {p} ELSE pvcs \cup {p}
    /\ queue' = queue \cup BackupsForPVC(p)
    /\ UNCHANGED <<apiVars, repos, up, serverVars, job, faults>>

ServerStarts(r) ==
    /\ r \notin up
    /\ up' = up \cup {r}
    /\ UNCHANGED <<apiVars, repos, pvcs, serverVars, opVars, budgets>>

ServerStops(r) ==
    /\ r \in up /\ Edit("server")
    /\ up' = up \ {r}
    /\ UNCHANGED <<apiVars, repos, pvcs, serverVars, opVars, faults>>

\* The documented way to force a re-sync.
RemoveAnnotation(p) ==
    /\ CurSecret(p) # Nil /\ CurSecret(p).synced # Nil /\ Edit("annotation")
    /\ WriteSecret(p, [CurSecret(p) EXCEPT !.synced = Nil])
    /\ UNCHANGED <<backup, envVars, serverVars, opVars, faults>>

ChangePassword(p) ==
    /\ CurSecret(p) # Nil /\ Edit("password") /\ Mint
    /\ WriteSecret(p, [CurSecret(p) EXCEPT !.creds.pw = NewPassword])
    /\ UNCHANGED <<backup, envVars, users, late, opVars, faults>>

Environment ==
    \/ \E b \in Backup : DeliverBackup(b) \/ Resync(b) \/ DeleteBackup(b)
    \/ \E b \in Backup, r \in Repo : CreateBackup(b, r) \/ SwitchRepository(b, r)
    \/ \E p \in PVC : \/ DeliverSecret(p) \/ CollectGarbage(p) \/ ChangePVC(p)
                      \/ RemoveAnnotation(p) \/ ChangePassword(p)
    \/ \E r \in Repo : ServerStarts(r) \/ ServerStops(r)
    \/ \E r \in Repo, mode \in Mode : ChangeRepository(r, mode)
    \/ \E c \in late : Land(c)
    \/ Restart

Next == Reconcile \/ Environment

Spec == Init /\ [][Next]_vars
-----------------------------------------------------------------------------
(***************************************************************************)
(* Properties                                                              *)
(***************************************************************************)
\* The variables keep their types; a reconcile has a repository and
\* credentials in hand in the phases that use them.
TypeOK ==
    /\ backup \in [Backup -> Streams(BackupObj \cup {Nil})]
    /\ secret \in [PVC -> Streams(SecretObj \cup {Nil})]
    /\ orphans \subseteq PVC
    /\ repos \in [Repo -> Mode]
    /\ pvcs \subseteq PVC
    /\ up \subseteq Repo
    /\ users \in [Repo -> [User -> Password \cup {Nil}]]
    /\ late \subseteq Command
    /\ queue \subseteq Backup
    /\ job \in Job \cup {IdleJob}
    /\ job.pc \in WithRepo => job.repo \in Repo
    /\ job.pc \in WithCreds => job.creds \in Creds
    /\ faults \in 0 .. MaxFaults
    /\ edits \in 0 .. MaxEdits
    /\ applied \subseteq Creds

Held(o) == o # Nil /\ o.fin

\* Where the object of a version is in its life.
LifeOf(o) ==
    IF o = Nil THEN "absent"
    ELSE IF o.deleting THEN "terminating"
    ELSE IF o.fin THEN "held" ELSE "bare"

life == [b \in Backup |-> LifeOf(Cur(b))]

attended == {b \in Backup : Cur(b) # Nil /\ Cur(b).cred}

Lifecycle == INSTANCE BackupLifecycle

\* The reconciler implements the life of KopiaBackups: however old the copy
\* it works on, handleFinalizer and the persisting of the credentials never
\* bring an object back, undo its deletion, attend to one that is not held
\* or let one go that is not being deleted.
ImplementsLifecycle == Lifecycle!Spec

\* From the moment handleFinalizer lets a reconcile go on until it returns,
\* the API server's copy of the backup carries the cleanup finalizer, however
\* old the copy the reconcile works on: no Secret is created and no user is
\* set for a backup that could vanish without handleFinalizer's cleanup.
ProvisionHoldsFinalizer == job.pc \in Provisioning => Held(Cur(job.b))

\* A Secret whose user-synced annotation matches its data holds credentials
\* that were applied to a server, whatever patches, passwords chosen by hand,
\* late commands, restarts and stale reads came in between: EnsureUser never
\* skips the exec for credentials no server has seen.
SyncedWasApplied ==
    \A p \in PVC : CurSecret(p) # Nil /\ CurSecret(p).synced = CurSecret(p).creds
                      => CurSecret(p).creds \in applied

\* While a backup is not being deleted, a Secret it controls whose annotation
\* matches its data holds what the server of its repository accepts: skipping
\* the exec is right.  (As long as no exec outlives its timeout, the backup
\* keeps its repository and the cache does not hold back two incarnations of
\* one Secret: a reconcile that still sees the first applies its password
\* over that of the second.)
SyncedUsable ==
    \A b \in Backup :
        LET o == Cur(b)
            s == CurSecret(PvcOf[b])
        IN /\ o # Nil /\ ~o.deleting
           /\ s # Nil /\ PvcOf[b] \notin orphans /\ s.synced = s.creds
           => users[o.repo][s.creds.user] = s.creds.pw

\* The only backup of its PVC.
Alone(b) == \A c \in Backup : PvcOf[c] = PvcOf[b] => c = b

\* Nothing is left to wake the reconciler up for b: it is neither queued nor
\* reconciled, and the caches of b and of the Secret it owns are up to date.
AtRest(b) == b \notin queue /\ job.b # b /\ CaughtUp(backup[b]) /\ CaughtUp(secret[PvcOf[b]])

\* The backup carries the finalizer, its status tells whether the PVC and the
\* repository are there, and in server mode its credentials are in place.
Settled(b) ==
    LET o == Cur(b)
        missing == PvcOf[b] \notin pvcs \/ repos[o.repo] = "absent"
    IN /\ o.fin /\ ~o.deleting
       /\ o.ready = IF missing THEN "NotFound" ELSE "UpToDate"
       /\ ~missing /\ repos[o.repo] = "server" => o.cred /\ o.connected /\ CurSecret(PvcOf[b]) # Nil

\* No wake-up is lost: whatever failed, was refused, deleted, edited or
\* interrupted, the reconciler comes to rest only when its work on the backup
\* is done, and a backup being deleted never rests.  (Where two backups share
\* a PVC, the events of the Secret reach the one that owns it only.)
RestIsDone == \A b \in Backup : Alone(b) /\ AtRest(b) /\ Cur(b) # Nil => Settled(b)

Released(b) == Cur(b) # Nil /\ Cur(b)' = Nil

\* When a backup with persisted credentials goes, its user is off the server
\* of its repository: neither a stale copy, a switch of repository, a lost
\* race for the object, a retry nor a restart lets the finalizer go with the
\* user still there.  (As long as no exec outlives its timeout, no failure of
\* kopia is swallowed and no repository changes its mode during the cleanup.)
ReleaseIsClean ==
    [][\A b \in Backup : Released(b) /\ Cur(b).cred /\ repos[Cur(b).repo] = "server"
            => users[Cur(b).repo][Username(b, Cur(b).repo)] = Nil]_vars

\* The deletion flow of docs/ARCHITECTURE_DIAGRAMS.md: the finalizer is
\* removed after the backup's user is deleted from the server.
UserDeletedBeforeRelease ==
    [][\A b \in Backup : Released(b)
            => users[Cur(b).repo][Username(b, Cur(b).repo)] = Nil]_vars

\* UserManager.EnsureUser "ensures a user exists for the backup on the Kopia
\* Server": when it has returned, the server of the repository it was called
\* for knows the user.
EnsureUserEnsures ==
    job.pc = "persist" => users[job.repo][job.creds.user] # Nil
-----------------------------------------------------------------------------
(***************************************************************************)
(* Liveness                                                                *)
(***************************************************************************)
\* The worker never stops, informers catch up, the collector runs and a
\* server that is down is started by its Deployment.
Fairness ==
    /\ WF_vars(Reconcile)
    /\ \A b \in Backup : WF_vars(DeliverBackup(b))
    /\ \A p \in PVC : WF_vars(DeliverSecret(p)) /\ WF_vars(CollectGarbage(p))
    /\ \A r \in Repo : WF_vars(ServerStarts(r))

FairSpec == Spec /\ Fairness

\* The backup's Secret is there for good and its server accepts it.
Connected(b) ==
    LET o == Cur(b)
        p == PvcOf[b]
        s == CurSecret(p)
    IN /\ o.cred /\ o.connected
       /\ s # Nil /\ p \notin orphans
       /\ users[o.repo][s.creds.user] = s.creds.pw

\* Once faults and changes have ceased, a backup whose PVC and server-mode
\* repository exist is connected and stays so: a Secret rolled back, left
\* behind or read from a stale cache, a lost annotation, a lost update and a
\* restart are all made good without anyone touching the backup.
Converges ==
    \A b \in Backup :
        <>[](/\ Cur(b) # Nil
             => \/ Cur(b).deleting \/ PvcOf[b] \notin pvcs \/ repos[Cur(b).repo] # "server"
                \/ Connected(b))

\* A deleted backup goes: its cleanup is retried until the server takes it.
DeletionCompletes ==
    \A b \in Backup : (Cur(b) # Nil /\ Cur(b).deleting) ~> (Cur(b) = Nil)
=============================================================================
