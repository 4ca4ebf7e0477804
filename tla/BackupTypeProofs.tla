------------------------- MODULE BackupTypeProofs --------------------------
(***************************************************************************)
(* TypeOK, for any number of backups, PVCs, repositories, passwords,       *)
(* faults and edits, the lemmas on writes that the other proofs use, and   *)
(* SyncedWasApplied, which needs no more than these.                       *)
(***************************************************************************)
EXTENDS BackupCredentials, WatchStreamProofs

BackupVersion == BackupObj \cup {Nil}

SecretVersion == SecretObj \cup {Nil}

\* A write to a backup's stream is the only change, and becomes current.
LEMMA WriteBackupStep ==
    ASSUME TypeOK, NEW b \in Backup, NEW v \in BackupVersion, WriteBackup(b, v)
    PROVE  /\ backup' \in [Backup -> Streams(BackupVersion)]
           /\ \A x \in Backup \ {b} : backup'[x] = backup[x]
           /\ Current(backup'[b]) = v
           /\ Versions(backup'[b]) \subseteq Versions(backup[b]) \cup {v}
  <1>1. backup[b] \in Streams(BackupVersion)
    BY ZenonT(60) DEF TypeOK, BackupVersion
  <1>2. backup' = [backup EXCEPT ![b] = Put(backup[b], v)]
    BY DEF WriteBackup
  <1>3. /\ Put(backup[b], v) \in Streams(BackupVersion)
        /\ Current(Put(backup[b], v)) = v
        /\ Versions(Put(backup[b], v)) \subseteq Versions(backup[b]) \cup {v}
    BY <1>1, StreamPut
  <1>. QED
    BY <1>2, <1>3, ZenonT(60) DEF TypeOK, BackupVersion

\* The same for a Secret.
LEMMA WriteSecretStep ==
    ASSUME TypeOK, NEW p \in PVC, NEW v \in SecretVersion, WriteSecret(p, v)
    PROVE  /\ secret' \in [PVC -> Streams(SecretVersion)]
           /\ orphans' \subseteq PVC
           /\ \A x \in PVC \ {p} : secret'[x] = secret[x]
           /\ Current(secret'[p]) = v
           /\ Versions(secret'[p]) \subseteq Versions(secret[p]) \cup {v}
  <1>1. secret[p] \in Streams(SecretVersion)
    BY ZenonT(60) DEF TypeOK, SecretVersion
  <1>2. secret' = [secret EXCEPT ![p] = Put(secret[p], v)]
    BY DEF WriteSecret
  <1>3. /\ Put(secret[p], v) \in Streams(SecretVersion)
        /\ Current(Put(secret[p], v)) = v
        /\ Versions(Put(secret[p], v)) \subseteq Versions(secret[p]) \cup {v}
    BY <1>1, StreamPut
  <1>4. orphans' \subseteq PVC
    BY DEF WriteSecret, TypeOK
  <1>. QED
    BY <1>2, <1>3, <1>4, ZenonT(60) DEF TypeOK, SecretVersion

\* Delivery changes neither what the API server holds nor adds a version.
LEMMA DeliverBackupStep ==
    ASSUME TypeOK, NEW b \in Backup, DeliverBackup(b)
    PROVE  /\ backup' \in [Backup -> Streams(BackupVersion)]
           /\ \A x \in Backup : /\ Current(backup'[x]) = Current(backup[x])
                                /\ Versions(backup'[x]) \subseteq Versions(backup[x])
           /\ \A x \in Backup \ {b} : backup'[x] = backup[x]
  <1>1. backup[b] \in Streams(BackupVersion) /\ ~CaughtUp(backup[b])
    BY ZenonT(60) DEF TypeOK, BackupVersion, DeliverBackup
  <1>2. backup' = [backup EXCEPT ![b] = Deliver(backup[b])]
    BY DEF DeliverBackup
  <1>3. /\ Deliver(backup[b]) \in Streams(BackupVersion)
        /\ Current(Deliver(backup[b])) = Current(backup[b])
        /\ Versions(Deliver(backup[b])) \subseteq Versions(backup[b])
    BY <1>1, StreamDeliver
  <1>. QED
    BY <1>2, <1>3, ZenonT(60) DEF TypeOK, BackupVersion

\* The same for a Secret.
LEMMA DeliverSecretStep ==
    ASSUME TypeOK, NEW p \in PVC, DeliverSecret(p)
    PROVE  /\ secret' \in [PVC -> Streams(SecretVersion)]
           /\ \A x \in PVC : /\ Current(secret'[x]) = Current(secret[x])
                             /\ Versions(secret'[x]) \subseteq Versions(secret[x])
  <1>1. secret[p] \in Streams(SecretVersion) /\ ~CaughtUp(secret[p])
    BY ZenonT(60) DEF TypeOK, SecretVersion, DeliverSecret
  <1>2. secret' = [secret EXCEPT ![p] = Deliver(secret[p])]
    BY DEF DeliverSecret
  <1>3. /\ Deliver(secret[p]) \in Streams(SecretVersion)
        /\ Current(Deliver(secret[p])) = Current(secret[p])
        /\ Versions(Deliver(secret[p])) \subseteq Versions(secret[p])
    BY <1>1, StreamDeliver
  <1>. QED
    BY <1>2, <1>3, ZenonT(60) DEF TypeOK, SecretVersion

\* What the operator reads has the type of what was written.
LEMMA ReadTypes ==
    ASSUME TypeOK
    PROVE  /\ \A b \in Backup : Cur(b) \in BackupVersion /\ Cached(backup[b]) \in BackupVersion
           /\ \A p \in PVC : CurSecret(p) \in SecretVersion /\ Cached(secret[p]) \in SecretVersion
  BY StreamEnds DEF TypeOK, BackupVersion, SecretVersion, Cur, CurSecret

\* The fields of a reconcile in progress.
LEMMA JobTypes ==
    ASSUME TypeOK, job # IdleJob
    PROVE  /\ job \in Job /\ job.b \in Backup /\ job.obj \in BackupObj /\ MyPvc \in PVC
           /\ job.obj.repo \in Repo
  BY ConstantsAssumption, ZenonT(60) DEF TypeOK, Job, MyPvc, BackupObj

\* The part of TypeOK about the reconcile in progress.
JobOK ==
    /\ job \in Job \cup {IdleJob}
    /\ job.pc \in WithRepo => job.repo \in Repo
    /\ job.pc \in WithCreds => job.creds \in Creds
-----------------------------------------------------------------------------
(***************************************************************************)
(* Type correctness                                                        *)
(***************************************************************************)
\* The initial state is well-typed.
LEMMA InitType == Init => TypeOK
  <1> SUFFICES ASSUME Init PROVE TypeOK
    OBVIOUS
  <1>1. <<Nil>> \in Streams(BackupObj \cup {Nil}) /\ <<Nil>> \in Streams(SecretObj \cup {Nil})
    BY DEF Streams
  <1>. QED
    BY <1>1, ConstantsAssumption DEF Init, TypeOK, Mode, IdleJob, WithRepo, WithCreds

\* Taking a backup from the queue and reading it.
LEMMA StartReconcileType == ASSUME TypeOK, NEW b \in Backup, StartReconcile(b) PROVE TypeOK'
  <1> DEFINE o == Cached(backup[b])
  <1>1. o \in BackupVersion
    BY ReadTypes
  <1>2. CASE o = Nil \/ (o.deleting /\ ~o.fin)
    BY <1>2, ZenonT(60) DEF StartReconcile, TypeOK, IdleJob, WithRepo, WithCreds, apiVars, envVars, serverVars, budgets
  <1>3. CASE ~(o = Nil \/ (o.deleting /\ ~o.fin))
    <2>1. o \in BackupObj
      BY <1>1, <1>3 DEF BackupVersion
    <2>2. FirstPhase(o) \in Phase
      BY DEF FirstPhase, Phase, Provisioning, Finalizing
    <2>3. CaughtUp(backup[b]) \in BOOLEAN
      BY DEF CaughtUp
    <2>4. job' = [pc |-> FirstPhase(o), b |-> b, obj |-> o, fresh |-> CaughtUp(backup[b]),
                  repo |-> Nil, creds |-> Nil, minted |-> FALSE]
      BY <1>3, ZenonT(60) DEF StartReconcile, IdleJob
    <2>5. JobOK'
      BY <2>1, <2>2, <2>3, <2>4 DEF JobOK, Job, FirstPhase, WithRepo, WithCreds
    <2>. QED
      BY <2>5, ZenonT(60) DEF StartReconcile, TypeOK, JobOK, apiVars, envVars, serverVars, budgets
  <1>. QED
    BY <1>2, <1>3

\* Ending a reconcile keeps the types of the queue and the job.
LEMMA RetryType ==
    ASSUME TypeOK, job # IdleJob, Retry
    PROVE  JobOK' /\ queue' \subseteq Backup
  BY JobTypes, ZenonT(60) DEF Retry, TypeOK, JobOK, IdleJob, WithRepo, WithCreds

\* Returning without a requeue.
LEMMA DoneType ==
    ASSUME TypeOK, Done
    PROVE  JobOK' /\ queue' \subseteq Backup
  BY DEF Done, TypeOK, JobOK, IdleJob, WithRepo, WithCreds

\* Moving to a phase that needs no more than the reconcile has in hand.
LEMMA GotoType ==
    ASSUME TypeOK, job # IdleJob, NEW phase \in Phase, Goto(phase),
           phase \in WithRepo => job.repo \in Repo,
           phase \in WithCreds => job.creds \in Creds
    PROVE  JobOK' /\ queue' \subseteq Backup
  BY JobTypes DEF Goto, TypeOK, JobOK, Job

\* The bounds count down.
LEMMA BudgetType ==
    ASSUME TypeOK, NEW kind
    PROVE  /\ Fault(kind) => faults' \in 0 .. MaxFaults
           /\ Edit(kind) => edits' \in 0 .. MaxEdits
  BY ConstantsAssumption DEF TypeOK, Fault, Edit

\* The writes of AddFinalizer, and its failures, keep the types.
LEMMA AddFinalizerType == ASSUME TypeOK, AddFinalizer PROVE TypeOK'
  <1>1. job # IdleJob
    BY DEF AddFinalizer, IdleJob
  <1>2. CASE Conflict
    BY <1>1, <1>2, RetryType, ZenonT(60) DEF AddFinalizer, Conflict, TypeOK, JobOK, apiVars, envVars, serverVars, budgets
  <1>3. CASE ApiFault /\ Retry
    BY <1>1, <1>3, RetryType, BudgetType, ZenonT(60)
    DEF AddFinalizer, ApiFault, TypeOK, JobOK, apiVars, envVars, serverVars, budgets
  <1>4. CASE WriteBackup(job.b, [job.obj EXCEPT !.fin = TRUE])
             /\ job' = [job EXCEPT !.pc = "validate", !.obj = [job.obj EXCEPT !.fin = TRUE]]
             /\ UNCHANGED <<secret, orphans, queue, budgets>>
    <2> DEFINE o == [job.obj EXCEPT !.fin = TRUE]
    <2>1. o \in BackupObj
      BY <1>1, JobTypes, ZenonT(60) DEF BackupObj
    <2>2. backup' \in [Backup -> Streams(BackupVersion)]
      BY <1>1, <1>4, <2>1, JobTypes, WriteBackupStep, ZenonT(60) DEF BackupVersion
    <2>3. JobOK'
      BY <1>1, <1>4, <2>1, JobTypes, ZenonT(60) DEF JobOK, Job, Phase, Provisioning, WithRepo, WithCreds
    <2>. QED
      BY <1>4, <2>2, <2>3, ZenonT(60) DEF AddFinalizer, TypeOK, JobOK, BackupVersion, envVars, serverVars, budgets
  <1>. QED
    BY <1>2, <1>3, <1>4 DEF AddFinalizer

\* The writes of ValidateDependencies, and its failures, keep the types.
LEMMA ValidateDependenciesType == ASSUME TypeOK, ValidateDependencies PROVE TypeOK'
  <1>1. job # IdleJob
    BY DEF ValidateDependencies, IdleJob
  <1> DEFINE s == Cached(secret[MyPvc])
  <1>2. s \in SecretVersion
    BY <1>1, JobTypes, ReadTypes
  <1>3. s # Nil => s.creds \in Creds
    BY <1>2 DEF SecretVersion, SecretObj
  <1>4. ASSUME job' = [job EXCEPT !.pc = "invalid", !.obj.ready = "NotFound"]
        PROVE  JobOK'
    <2>1. [job.obj EXCEPT !.ready = "NotFound"] \in BackupObj
      BY <1>1, JobTypes DEF BackupObj, Reason
    <2>2. job' = [job EXCEPT !.pc = "invalid", !.obj = [job.obj EXCEPT !.ready = "NotFound"]]
      BY <1>1, <1>4, JobTypes DEF Job
    <2>. QED
      BY <1>1, <2>1, <2>2, JobTypes, ZenonT(60) DEF JobOK, Job, Phase, Provisioning, WithRepo, WithCreds
  <1>5. ASSUME NEW phase \in {"createSecret", "persist", "setUser"}, NEW c \in Creds \cup {Nil},
               phase = "createSecret" \/ c \in Creds,
               job' = [job EXCEPT !.pc = phase, !.repo = job.obj.repo, !.creds = c]
        PROVE  JobOK'
    BY <1>1, <1>5, JobTypes, ZenonT(60) DEF JobOK, Job, Phase, Provisioning, WithRepo, WithCreds
  <1>6. Goto("resources") \/ Retry => JobOK' /\ queue' \subseteq Backup
    BY <1>1, RetryType, GotoType DEF WithRepo, WithCreds, Phase, Provisioning
  <1>7. JobOK' /\ queue' \subseteq Backup
    BY <1>3, <1>4, <1>5, <1>6, ZenonT(60) DEF ValidateDependencies, TypeOK
  <1>. QED
    BY <1>7, ZenonT(60) DEF ValidateDependencies, TypeOK, JobOK, apiVars, envVars, serverVars, budgets

\* A new password is a password nobody holds.
LEMMA NewPasswordFact == ASSUME Mint PROVE NewPassword \in Password /\ NewPassword \notin InUse
  <1>1. \E pw \in Password : pw \notin InUse
    BY DEF Mint
  <1>. QED
    BY <1>1 DEF NewPassword

\* The writes of CreateSecret, and its failures, keep the types.
LEMMA CreateSecretType == ASSUME TypeOK, CreateSecret PROVE TypeOK'
  <1>1. job # IdleJob
    BY SMTT(60) DEF CreateSecret, IdleJob
  <1> DEFINE c == [user |-> Username(job.b, job.repo), pw |-> NewPassword]
             v == [creds |-> c, synced |-> Nil, owner |-> job.b]
  <1>2. CASE CurSecret(MyPvc) # Nil /\ Retry /\ UNCHANGED <<applied, apiVars, budgets>>
    BY <1>1, <1>2, RetryType, ZenonT(60) DEF CreateSecret, TypeOK, JobOK, apiVars, envVars, budgets
  <1>3. CASE ApiFault /\ Retry /\ UNCHANGED applied
    BY <1>1, <1>3, RetryType, BudgetType, ZenonT(60) DEF CreateSecret, ApiFault, TypeOK, JobOK, apiVars, envVars
  <1>4. CASE /\ CurSecret(MyPvc) = Nil /\ Mint /\ WriteSecret(MyPvc, v)
             /\ job' = [job EXCEPT !.pc = "setUser", !.creds = c, !.minted = TRUE]
             /\ UNCHANGED <<backup, queue, budgets>>
    <2>1. c \in Creds
      <3>1. job.repo \in Repo
        BY DEF CreateSecret, TypeOK, WithRepo
      <3>2. Username(job.b, job.repo) \in User
        BY <1>1, <3>1, JobTypes, ConstantsAssumption DEF Username, User
      <3>. QED
        BY <1>4, <3>2, NewPasswordFact DEF Creds
    <2>2. v \in SecretVersion
      BY <1>1, <2>1, JobTypes DEF SecretVersion, SecretObj
    <2>3. secret' \in [PVC -> Streams(SecretVersion)] /\ orphans' \subseteq PVC
      BY <1>1, <1>4, <2>2, JobTypes, WriteSecretStep
    <2>4. JobOK'
      <3>1. job.repo \in Repo
        BY DEF CreateSecret, TypeOK, WithRepo
      <3>. QED
        BY <1>1, <1>4, <2>1, <3>1, JobTypes, ZenonT(60) DEF JobOK, Job, Phase, Provisioning, WithRepo, WithCreds
    <2>5. applied' \subseteq Creds
      BY <1>4 DEF Mint, TypeOK
    <2>. QED
      BY <1>4, <2>3, <2>4, <2>5, ZenonT(60) DEF CreateSecret, TypeOK, JobOK, SecretVersion, envVars, budgets
  <1>. QED
    BY <1>2, <1>3, <1>4 DEF CreateSecret

\* Running a command keeps the users' type, and the history's.
LEMMA ApplyType ==
    ASSUME TypeOK, NEW c \in Command
    PROVE  /\ Apply(c) \in [Repo -> [User -> Password \cup {Nil}]]
           /\ Record(c) => applied' \subseteq Creds
  <1>1. c.repo \in Repo /\ c.user \in User /\ c.pw \in Password \cup {Nil}
    BY DEF Command
  <1>2. c.op = "set" => c.pw \in Password
    BY DEF Command
  <1>3. c.op = "set" => [user |-> c.user, pw |-> c.pw] \in Creds
    BY <1>1, <1>2 DEF Creds
  <1>. QED
    BY <1>1, <1>3 DEF TypeOK, Apply, Record

\* The writes of CreateUserOnServer, and its failures, keep the types.
LEMMA CreateUserOnServerType == ASSUME TypeOK, CreateUserOnServer PROVE TypeOK'
  <1>1. job # IdleJob /\ job.repo \in Repo /\ job.creds \in Creds
    BY SMTT(60) DEF CreateUserOnServer, TypeOK, IdleJob, WithRepo, WithCreds
  <1> DEFINE c == [op |-> "set", repo |-> job.repo, user |-> job.creds.user, pw |-> job.creds.pw]
  <1>2. c \in Command
    BY <1>1, ZenonT(60) DEF Command, Creds
  <1>3. SetUserFailed => JobOK' /\ queue' \subseteq Backup
    <2>1. Goto("rollback") => JobOK' /\ queue' \subseteq Backup
      BY <1>1, GotoType, ZenonT(60) DEF Phase, Provisioning
    <2>. QED
      BY <1>1, <2>1, RetryType, ZenonT(60) DEF SetUserFailed
  <1>4. CASE users' = Apply(c) /\ Record(c) /\ Goto("mark") /\ UNCHANGED <<late, budgets>>
    <2>1. JobOK' /\ queue' \subseteq Backup
      BY <1>1, <1>4, GotoType DEF Phase, Provisioning
    <2>. QED
      BY <1>2, <1>4, <2>1, ApplyType, ZenonT(60) DEF CreateUserOnServer, TypeOK, JobOK, apiVars, envVars, budgets
  <1>5. CASE SetUserFailed /\ UNCHANGED <<serverVars, budgets>>
    BY <1>3, <1>5, ZenonT(60) DEF CreateUserOnServer, TypeOK, JobOK, apiVars, envVars, serverVars, budgets
  <1>6. CASE Fault("exec") /\ SetUserFailed /\ UNCHANGED <<serverVars, edits>>
    BY <1>3, <1>6, BudgetType, ZenonT(60) DEF CreateUserOnServer, TypeOK, JobOK, apiVars, envVars, serverVars
  <1>7. CASE /\ Fault("timeout") /\ SetUserFailed /\ late' = late \cup {c}
             /\ UNCHANGED <<users, applied, edits>>
    BY <1>2, <1>3, <1>7, BudgetType, ZenonT(60) DEF CreateUserOnServer, TypeOK, JobOK, apiVars, envVars
  <1>. QED
    BY <1>4, <1>5, <1>6, <1>7 DEF CreateUserOnServer

\* The writes of RollbackSecret, and its failures, keep the types.
LEMMA RollbackSecretType == ASSUME TypeOK, RollbackSecret PROVE TypeOK'
  <1>1. job # IdleJob
    BY DEF RollbackSecret, IdleJob
  <1>2. JobOK' /\ queue' \subseteq Backup
    BY <1>1, RetryType DEF RollbackSecret
  <1>3. WriteSecret(MyPvc, Nil) => secret' \in [PVC -> Streams(SecretVersion)] /\ orphans' \subseteq PVC
    BY <1>1, JobTypes, WriteSecretStep DEF SecretVersion
  <1>. QED
    BY <1>2, <1>3, BudgetType, ZenonT(60)
    DEF RollbackSecret, ApiFault, TypeOK, JobOK, SecretVersion, apiVars, envVars, serverVars, budgets

\* The writes of MarkUserSynced, and its failures, keep the types.
LEMMA MarkUserSyncedType == ASSUME TypeOK, MarkUserSynced PROVE TypeOK'
  <1>1. job # IdleJob /\ job.repo \in Repo /\ job.creds \in Creds
    BY DEF MarkUserSynced, TypeOK, IdleJob, WithRepo, WithCreds
  <1>2. JobOK' /\ queue' \subseteq Backup
    BY <1>1, GotoType DEF MarkUserSynced, Phase, Provisioning
  <1> DEFINE v == [CurSecret(MyPvc) EXCEPT !.synced = job.creds]
  <1>3. CurSecret(MyPvc) # Nil => v \in SecretVersion
    <2>1. CurSecret(MyPvc) \in SecretVersion
      BY <1>1, JobTypes, ReadTypes
    <2>. QED
      BY <1>1, <2>1 DEF SecretVersion, SecretObj
  <1>4. CurSecret(MyPvc) # Nil /\ WriteSecret(MyPvc, v)
          => secret' \in [PVC -> Streams(SecretVersion)] /\ orphans' \subseteq PVC
    BY <1>1, <1>3, JobTypes, WriteSecretStep
  <1>. QED
    BY <1>2, <1>4, BudgetType, ZenonT(60)
    DEF MarkUserSynced, ApiFault, TypeOK, JobOK, SecretVersion, apiVars, envVars, serverVars, budgets

\* The writes of PersistCredentialsSecret, and its failures, keep the types.
LEMMA PersistCredentialsSecretType == ASSUME TypeOK, PersistCredentialsSecret PROVE TypeOK'
  <1>1. job # IdleJob
    BY DEF PersistCredentialsSecret, IdleJob
  <1> DEFINE o == [job.obj EXCEPT !.cred = TRUE]
             d == [o EXCEPT !.connected = TRUE]
             C == job' = [job EXCEPT !.pc = "resources", !.obj = d]
  <1>2. o \in BackupObj /\ d \in BackupObj
    BY <1>1, JobTypes, ZenonT(60) DEF BackupObj, Reason
  <1>3. C => JobOK'
    BY <1>1, <1>2, JobTypes, ZenonT(60) DEF JobOK, Job, Phase, Provisioning, WithRepo, WithCreds
  <1>4. CASE C /\ UNCHANGED <<queue, apiVars, budgets>>
    BY <1>3, <1>4, ZenonT(60) DEF PersistCredentialsSecret, TypeOK, JobOK, apiVars, envVars, serverVars, budgets
  <1>5. CASE WriteBackup(job.b, o) /\ C /\ UNCHANGED <<queue, secret, orphans, budgets>>
    <2>1. backup' \in [Backup -> Streams(BackupVersion)]
      BY <1>1, <1>2, <1>5, JobTypes, WriteBackupStep, ZenonT(60) DEF BackupVersion
    <2>. QED
      BY <1>3, <1>5, <2>1, ZenonT(60)
      DEF PersistCredentialsSecret, TypeOK, JobOK, BackupVersion, envVars, serverVars, budgets
  <1>6. CASE Conflict
    BY <1>1, <1>6, RetryType, ZenonT(60)
    DEF PersistCredentialsSecret, Conflict, TypeOK, JobOK, apiVars, envVars, serverVars, budgets
  <1>7. CASE ApiFault /\ Retry
    BY <1>1, <1>7, RetryType, BudgetType, ZenonT(60)
    DEF PersistCredentialsSecret, ApiFault, TypeOK, JobOK, apiVars, envVars, serverVars
  <1>. QED
    BY <1>4, <1>5, <1>6, <1>7 DEF PersistCredentialsSecret

\* A status update, done or refused, ends the reconcile.
LEMMA UpdateStatusType ==
    ASSUME TypeOK, job # IdleJob, NEW o \in BackupObj,
           (UpdateStatus(o) /\ (Done \/ Retry)) \/ UpdateStatusFailed,
           UNCHANGED <<envVars, serverVars>>
    PROVE  TypeOK'
  <1>2. CASE UpdateStatus(o) /\ (Done \/ Retry)
    <2>1. backup' \in [Backup -> Streams(BackupVersion)]
      BY <1>2, JobTypes, WriteBackupStep, ZenonT(60) DEF UpdateStatus, BackupVersion
    <2>2. JobOK' /\ queue' \subseteq Backup
      BY <1>2, RetryType, DoneType
    <2>. QED
      BY <1>2, <2>1, <2>2, ZenonT(60) DEF UpdateStatus, TypeOK, JobOK, BackupVersion, envVars, serverVars, budgets
  <1>3. CASE Conflict
    BY <1>3, RetryType, ZenonT(60) DEF Conflict, TypeOK, JobOK, apiVars, envVars, serverVars, budgets
  <1>4. CASE ApiFault /\ Retry
    BY <1>4, RetryType, BudgetType, ZenonT(60) DEF ApiFault, TypeOK, JobOK, apiVars, envVars, serverVars
  <1>. QED
    BY <1>2, <1>3, <1>4 DEF UpdateStatusFailed

\* The writes of ReportInvalid, and its failures, keep the types.
LEMMA ReportInvalidType == ASSUME TypeOK, ReportInvalid PROVE TypeOK'
  <1>1. job # IdleJob
    BY DEF ReportInvalid, IdleJob
  <1>2. job.obj \in BackupObj
    BY <1>1, JobTypes
  <1>. QED
    BY <1>1, <1>2, UpdateStatusType DEF ReportInvalid

\* The writes of ReconcileBackupResources, and its failures, keep the types.
LEMMA ReconcileBackupResourcesType == ASSUME TypeOK, ReconcileBackupResources PROVE TypeOK'
  <1>1. job # IdleJob
    BY DEF ReconcileBackupResources, IdleJob
  <1>2. job.obj \in BackupObj /\ [job.obj EXCEPT !.ready = "UpToDate"] \in BackupObj
    BY <1>1, JobTypes DEF BackupObj, Reason
  <1>. QED
    BY <1>1, <1>2, UpdateStatusType DEF ReconcileBackupResources

\* The writes of LookupForCleanup, and its failures, keep the types.
LEMMA LookupForCleanupType == ASSUME TypeOK, LookupForCleanup PROVE TypeOK'
  <1>1. job # IdleJob
    BY DEF LookupForCleanup, IdleJob
  <1>2. JobOK'
    BY <1>1, JobTypes, ZenonT(60) DEF LookupForCleanup, JobOK, Job, Phase, Finalizing, WithRepo, WithCreds
  <1>. QED
    BY <1>2, ZenonT(60) DEF LookupForCleanup, TypeOK, JobOK, apiVars, envVars, serverVars, budgets

\* The writes of DeleteUserFromServer, and its failures, keep the types.
LEMMA DeleteUserFromServerType == ASSUME TypeOK, DeleteUserFromServer PROVE TypeOK'
  <1>1. job # IdleJob /\ job.repo \in Repo
    <2>1. job.pc = "delUser"
      BY ZenonT(60) DEF DeleteUserFromServer
    <2>. QED
      BY <2>1, SMTT(60) DEF TypeOK, IdleJob, WithRepo
  <1> DEFINE c == [op |-> "delete", repo |-> job.repo, user |-> Username(job.b, job.repo), pw |-> Nil]
  <1>2. c \in Command
    BY <1>1, JobTypes, ConstantsAssumption DEF Command, Username, User
  <1>3. Goto("delSecret") => JobOK' /\ queue' \subseteq Backup
    BY <1>1, GotoType DEF Phase, Finalizing, WithRepo, WithCreds
  <1>4. Retry => JobOK' /\ queue' \subseteq Backup
    BY <1>1, RetryType, ZenonT(60)
  <1>5. CASE users' = Apply(c) /\ Goto("delSecret") /\ UNCHANGED <<late, applied, budgets>>
    BY <1>2, <1>3, <1>5, ApplyType, ZenonT(60) DEF DeleteUserFromServer, TypeOK, JobOK, apiVars, envVars, budgets
  <1>6. CASE Retry /\ UNCHANGED <<serverVars, budgets>>
    BY <1>4, <1>6, ZenonT(60) DEF DeleteUserFromServer, TypeOK, JobOK, apiVars, envVars, serverVars, budgets
  <1>7. CASE Fault("exec") /\ Retry /\ UNCHANGED <<serverVars, edits>>
    BY <1>4, <1>7, BudgetType, ZenonT(60) DEF DeleteUserFromServer, TypeOK, JobOK, apiVars, envVars, serverVars
  <1>8. CASE Fault("timeout") /\ Retry /\ late' = late \cup {c} /\ UNCHANGED <<users, applied, edits>>
    BY <1>2, <1>4, <1>8, BudgetType, ZenonT(60) DEF DeleteUserFromServer, TypeOK, JobOK, apiVars, envVars
  <1>9. CASE Fault("swallow") /\ Goto("delSecret") /\ UNCHANGED <<serverVars, edits>>
    BY <1>3, <1>9, BudgetType, ZenonT(60) DEF DeleteUserFromServer, TypeOK, JobOK, apiVars, envVars, serverVars
  <1>. QED
    BY <1>5, <1>6, <1>7, <1>8, <1>9, ZenonT(60) DEF DeleteUserFromServer

\* The writes of DeleteSecret, and its failures, keep the types.
LEMMA DeleteSecretType == ASSUME TypeOK, DeleteSecret PROVE TypeOK'
  <1>1. job # IdleJob
    BY DEF DeleteSecret, IdleJob
  <1>2. Goto("dropFin") => JobOK' /\ queue' \subseteq Backup
    BY <1>1, GotoType DEF Phase, Finalizing, WithRepo, WithCreds
  <1>3. Retry => JobOK' /\ queue' \subseteq Backup
    BY <1>1, RetryType
  <1>4. WriteSecret(MyPvc, Nil) => secret' \in [PVC -> Streams(SecretVersion)] /\ orphans' \subseteq PVC
    BY <1>1, JobTypes, WriteSecretStep DEF SecretVersion
  <1>5. CASE Goto("dropFin") /\ UNCHANGED <<apiVars, budgets>>
    BY <1>2, <1>5, ZenonT(60) DEF DeleteSecret, TypeOK, JobOK, apiVars, envVars, serverVars, budgets
  <1>6. CASE WriteSecret(MyPvc, Nil) /\ Goto("dropFin") /\ UNCHANGED <<backup, budgets>>
    BY <1>2, <1>4, <1>6, ZenonT(60) DEF DeleteSecret, TypeOK, JobOK, SecretVersion, envVars, serverVars, budgets
  <1>7. CASE Retry /\ UNCHANGED <<apiVars, budgets>>
    BY <1>3, <1>7, ZenonT(60) DEF DeleteSecret, TypeOK, JobOK, apiVars, envVars, serverVars, budgets
  <1>8. CASE ApiFault /\ Retry
    BY <1>3, <1>8, BudgetType, ZenonT(60) DEF DeleteSecret, ApiFault, TypeOK, JobOK, apiVars, envVars, serverVars
  <1>. QED
    BY <1>5, <1>6, <1>7, <1>8 DEF DeleteSecret

\* The writes of RemoveFinalizer, and its failures, keep the types.
LEMMA RemoveFinalizerType == ASSUME TypeOK, RemoveFinalizer PROVE TypeOK'
  <1>1. job # IdleJob
    BY DEF RemoveFinalizer, IdleJob
  <1>2. CASE WriteBackup(job.b, Nil) /\ Orphan(job.b) /\ Done /\ UNCHANGED <<secret, budgets>>
    <2>1. backup' \in [Backup -> Streams(BackupVersion)]
      BY <1>1, <1>2, JobTypes, WriteBackupStep, ZenonT(60) DEF BackupVersion
    <2>2. JobOK' /\ queue' \subseteq Backup
      BY <1>2, DoneType
    <2>. QED
      BY <1>2, <2>1, <2>2, ZenonT(60) DEF RemoveFinalizer, Orphan, TypeOK, JobOK, BackupVersion, envVars, serverVars, budgets
  <1>3. CASE Conflict
    BY <1>1, <1>3, RetryType, ZenonT(60)
    DEF RemoveFinalizer, Conflict, TypeOK, JobOK, apiVars, envVars, serverVars, budgets
  <1>4. CASE ApiFault /\ Retry
    BY <1>1, <1>4, RetryType, BudgetType, ZenonT(60)
    DEF RemoveFinalizer, ApiFault, TypeOK, JobOK, apiVars, envVars, serverVars
  <1>. QED
    BY <1>2, <1>3, <1>4 DEF RemoveFinalizer

\* An outdated copy is still a copy.
LEMMA InvalidateType == ASSUME TypeOK, NEW b \in Backup, Invalidate(b) PROVE JobOK'
  <1>1. CASE job = IdleJob
    BY <1>1, NilAssumption DEF Invalidate, TypeOK, JobOK, IdleJob, WithRepo, WithCreds
  <1>2. CASE job # IdleJob
    BY <1>2, JobTypes, ZenonT(60) DEF Invalidate, TypeOK, JobOK, Job
  <1>. QED
    BY <1>1, <1>2

\* Events, resync, restart, the collector and late commands.
LEMMA MachineryType ==
    ASSUME TypeOK,
           \/ \E b \in Backup : DeliverBackup(b) \/ Resync(b)
           \/ \E p \in PVC : DeliverSecret(p) \/ CollectGarbage(p)
           \/ \E c \in late : Land(c)
           \/ Restart
    PROVE  TypeOK'
  <1> USE DEF apiVars, envVars, serverVars, opVars, budgets
  <1>1. ASSUME NEW b \in Backup, DeliverBackup(b) PROVE TypeOK'
    BY <1>1, DeliverBackupStep, ZenonT(60) DEF DeliverBackup, TypeOK, BackupVersion
  <1>2. ASSUME NEW b \in Backup, Resync(b) PROVE TypeOK'
    BY <1>2, ZenonT(60) DEF Resync, TypeOK
  <1>3. ASSUME NEW p \in PVC, DeliverSecret(p) PROVE TypeOK'
    <2>1. secret[p] \in Streams(SecretVersion)
      BY ZenonT(60) DEF TypeOK, SecretVersion
    <2>2. secret[p][1] \in SecretVersion /\ secret[p][2] \in SecretVersion
      <3>1. secret[p] \in Seq(SecretVersion) /\ Len(secret[p]) > 0 /\ Len(secret[p]) # 1
        BY <1>3, <2>1, ZenonT(60) DEF DeliverSecret, CaughtUp, Streams
      <3>2. Len(secret[p]) \in Nat
        BY <3>1
      <3> DEFINE n == Len(secret[p])
      <3>3. n \in Nat /\ n > 0 /\ n # 1
        BY <3>1, <3>2, ZenonT(60)
      <3>4. 1 \in 1 .. n /\ 2 \in 1 .. n
        <4> HIDE DEF n
        <4>. QED
          BY <3>3, SMTT(60)
      <3>. QED
        BY <3>1, <3>4
    <2>3. \A v \in {secret[p][1], secret[p][2]} \ {Nil} : v.owner \in Backup
      BY <2>2, ZenonT(60) DEF SecretVersion, SecretObj
    <2>4. queue' \subseteq Backup
      BY <1>3, <2>3, ZenonT(60) DEF DeliverSecret, TypeOK
    <2>. QED
      BY <1>3, <2>4, DeliverSecretStep, ZenonT(60) DEF DeliverSecret, TypeOK, SecretVersion
  <1>4. ASSUME NEW p \in PVC, CollectGarbage(p) PROVE TypeOK'
    <2>1. secret' \in [PVC -> Streams(SecretVersion)] /\ orphans' \subseteq PVC
      BY <1>4, WriteSecretStep, ZenonT(60) DEF CollectGarbage, SecretVersion
    <2>. QED
      BY <1>4, <2>1, ZenonT(60) DEF CollectGarbage, TypeOK, SecretVersion
  <1>5. ASSUME NEW c \in late, Land(c) PROVE TypeOK'
    <2>1. c \in Command
      BY DEF TypeOK
    <2>. QED
      BY <1>5, <2>1, ApplyType, ZenonT(60) DEF Land, TypeOK
  <1>6. CASE Restart
    BY <1>6, BudgetType, ZenonT(60) DEF Restart, TypeOK, IdleJob, WithRepo, WithCreds
  <1>. QED
    BY <1>1, <1>2, <1>3, <1>4, <1>5, <1>6

\* Other clients.
LEMMA ClientsType ==
    ASSUME TypeOK,
           \/ \E b \in Backup : DeleteBackup(b)
           \/ \E b \in Backup, r \in Repo : CreateBackup(b, r) \/ SwitchRepository(b, r)
           \/ \E p \in PVC : ChangePVC(p) \/ RemoveAnnotation(p) \/ ChangePassword(p)
           \/ \E r \in Repo : ServerStarts(r) \/ ServerStops(r)
           \/ \E r \in Repo, mode \in Mode : ChangeRepository(r, mode)
    PROVE  TypeOK'
  <1> USE DEF apiVars, envVars, serverVars, opVars, budgets
  <1>1. ASSUME NEW b \in Backup, DeleteBackup(b) PROVE TypeOK'
    <2>1. Cur(b) \in BackupObj
      BY <1>1, ReadTypes DEF DeleteBackup, BackupVersion
    <2>2. [Cur(b) EXCEPT !.deleting = TRUE] \in BackupVersion /\ Nil \in BackupVersion
      BY <2>1, ZenonT(60) DEF BackupVersion, BackupObj
    <2>3. backup' \in [Backup -> Streams(BackupVersion)]
      BY <1>1, <2>2, WriteBackupStep DEF DeleteBackup
    <2>4. orphans' \subseteq PVC
      BY <1>1 DEF DeleteBackup, Orphan, TypeOK
    <2>. QED
      BY <1>1, <2>3, <2>4, InvalidateType, BudgetType, ZenonT(60) DEF DeleteBackup, TypeOK, JobOK, BackupVersion
  <1>2. ASSUME NEW b \in Backup, NEW r \in Repo, CreateBackup(b, r) PROVE TypeOK'
    <2>1. NewBackup(r) \in BackupVersion
      BY DEF NewBackup, BackupVersion, BackupObj, Reason
    <2>2. backup' \in [Backup -> Streams(BackupVersion)]
      BY <1>2, <2>1, WriteBackupStep DEF CreateBackup
    <2>. QED
      BY <1>2, <2>2, InvalidateType, BudgetType, ZenonT(60) DEF CreateBackup, TypeOK, JobOK, BackupVersion
  <1>3. ASSUME NEW b \in Backup, NEW r \in Repo, SwitchRepository(b, r) PROVE TypeOK'
    <2>1. Cur(b) \in BackupObj
      BY <1>3, ReadTypes DEF SwitchRepository, BackupVersion
    <2>2. [Cur(b) EXCEPT !.repo = r] \in BackupVersion
      BY <2>1 DEF BackupVersion, BackupObj
    <2>3. backup' \in [Backup -> Streams(BackupVersion)]
      BY <1>3, <2>2, WriteBackupStep DEF SwitchRepository
    <2>. QED
      BY <1>3, <2>3, InvalidateType, BudgetType, ZenonT(60) DEF SwitchRepository, TypeOK, JobOK, BackupVersion
  <1>4. ASSUME NEW p \in PVC, ChangePVC(p) PROVE TypeOK'
    BY <1>4, BudgetType, ZenonT(60) DEF ChangePVC, TypeOK, BackupsForPVC
  <1>5. ASSUME NEW p \in PVC, RemoveAnnotation(p) PROVE TypeOK'
    <2>1. CurSecret(p) \in SecretObj
      BY <1>5, ReadTypes DEF RemoveAnnotation, SecretVersion
    <2>2. [CurSecret(p) EXCEPT !.synced = Nil] \in SecretVersion
      BY <2>1 DEF SecretVersion, SecretObj
    <2>3. secret' \in [PVC -> Streams(SecretVersion)] /\ orphans' \subseteq PVC
      BY <1>5, <2>2, WriteSecretStep DEF RemoveAnnotation
    <2>. QED
      BY <1>5, <2>3, BudgetType, ZenonT(60) DEF RemoveAnnotation, TypeOK, SecretVersion
  <1>6. ASSUME NEW p \in PVC, ChangePassword(p) PROVE TypeOK'
    <2>1. CurSecret(p) \in SecretObj /\ NewPassword \in Password
      BY <1>6, ReadTypes, NewPasswordFact DEF ChangePassword, SecretVersion
    <2>2. [CurSecret(p) EXCEPT !.creds.pw = NewPassword] \in SecretVersion
      BY <2>1 DEF SecretVersion, SecretObj, Creds
    <2>3. secret' \in [PVC -> Streams(SecretVersion)] /\ orphans' \subseteq PVC
      BY <1>6, <2>2, WriteSecretStep DEF ChangePassword
    <2>. QED
      BY <1>6, <2>3, BudgetType, ZenonT(60) DEF ChangePassword, Mint, TypeOK, SecretVersion
  <1>7. ASSUME NEW r \in Repo, ServerStarts(r) \/ ServerStops(r) PROVE TypeOK'
    BY <1>7, BudgetType, ZenonT(60) DEF ServerStarts, ServerStops, TypeOK
  <1>8. ASSUME NEW r \in Repo, NEW mode \in Mode, ChangeRepository(r, mode) PROVE TypeOK'
    BY <1>8, BudgetType, ZenonT(60) DEF ChangeRepository, TypeOK, BackupsForRepo
  <1>. QED
    BY <1>1, <1>2, <1>3, <1>4, <1>5, <1>6, <1>7, <1>8

\* TypeOK is inductive: every step of the operator and of its environment keeps it.
LEMMA NextType == TypeOK /\ [Next]_vars => TypeOK'
  <1> SUFFICES ASSUME TypeOK, [Next]_vars PROVE TypeOK'
    OBVIOUS
  <1>1. CASE Reconcile
    BY <1>1, StartReconcileType, AddFinalizerType, ValidateDependenciesType, CreateSecretType,
       CreateUserOnServerType, RollbackSecretType, MarkUserSyncedType, PersistCredentialsSecretType,
       ReconcileBackupResourcesType, ReportInvalidType, LookupForCleanupType, DeleteUserFromServerType, DeleteSecretType,
       RemoveFinalizerType, SMTT(60)
    DEF Reconcile
  <1>2. CASE Environment
    BY <1>2, MachineryType, ClientsType, ZenonT(60) DEF Environment
  <1>3. CASE UNCHANGED vars
    BY <1>3, ZenonT(60) DEF vars, apiVars, envVars, serverVars, opVars, budgets, TypeOK
  <1>. QED
    BY <1>1, <1>2, <1>3, ZenonT(60) DEF Next

\* TypeOK holds in every reachable state: every write of the reconciler, the
\* user manager and the other clients keeps the objects well-formed, and the
\* reconciler reaches no phase without the repository and credentials it uses.
THEOREM TypeCorrect == Spec => []TypeOK
  BY InitType, NextType, PTL DEF Spec
-----------------------------------------------------------------------------
(***************************************************************************)
(* SyncedWasApplied                                                        *)
(*                                                                         *)
(* Stronger: an annotation names credentials that were applied even when   *)
(* it does not match the data, and so does the patch about to be sent.     *)
(***************************************************************************)
SyncedInv ==
    /\ \A p \in PVC : CurSecret(p) # Nil /\ CurSecret(p).synced # Nil => CurSecret(p).synced \in applied
    /\ job.pc = "mark" => job.creds \in applied

\* A new password forgets nothing of a password some Secret or the reconcile holds.
LEMMA MintKeeps ==
    ASSUME TypeOK, Mint
    PROVE  /\ \A p \in PVC : CurSecret(p) # Nil /\ CurSecret(p).synced \in applied
                                => CurSecret(p).synced \in applied'
           /\ job.creds # Nil /\ job.creds \in applied => job.creds \in applied'
  <1>1. \A c \in applied : c.pw \in InUse => c \in applied'
    BY NewPasswordFact DEF Mint
  <1>2. ASSUME NEW p \in PVC, CurSecret(p) # Nil, CurSecret(p).synced \in applied
        PROVE  CurSecret(p).synced.pw \in InUse
    <2>1. CurSecret(p) \in Versions(secret[p]) \ {Nil}
      BY <1>2, StreamEnds, ZenonT(60) DEF TypeOK, CurSecret
    <2>2. CurSecret(p).synced # Nil
      BY <1>2, NilAssumption, ZenonT(60) DEF TypeOK
    <2>3. CurSecret(p).synced \in HeldCreds
      BY <2>1, <2>2 DEF HeldCreds, CredsOf
    <2>. QED
      BY <2>3 DEF InUse
  <1>3. job.creds # Nil => job.creds.pw \in InUse
    BY DEF InUse
  <1>. QED
    BY <1>1, <1>2, <1>3

\* A write to a Secret whose annotation, if any, names applied credentials.
LEMMA SyncedWrite ==
    ASSUME TypeOK, NEW p \in PVC, NEW v \in SecretVersion, WriteSecret(p, v),
           v # Nil /\ v.synced # Nil => v.synced \in applied',
           \A x \in PVC : CurSecret(x) # Nil /\ CurSecret(x).synced # Nil => CurSecret(x).synced \in applied'
    PROVE  (\A x \in PVC : CurSecret(x) # Nil /\ CurSecret(x).synced # Nil => CurSecret(x).synced \in applied)'
  BY WriteSecretStep DEF CurSecret

\* Which phases lead where: only a successful exec leads to the patch.
LEMMA OnlyExecLeadsToMark ==
    ASSUME TypeOK,
           \/ AddFinalizer \/ ValidateDependencies \/ PersistCredentialsSecret
           \/ ReconcileBackupResources \/ ReportInvalid
           \/ LookupForCleanup \/ DeleteUserFromServer \/ DeleteSecret \/ RemoveFinalizer
    PROVE  job'.pc # "mark"
  <1>1. job \in Job
    <2>1. CASE AddFinalizer \/ ValidateDependencies \/ PersistCredentialsSecret
      BY <2>1, JobTypes, SMTT(60) DEF AddFinalizer, ValidateDependencies, PersistCredentialsSecret, IdleJob
    <2>2. CASE ReconcileBackupResources \/ ReportInvalid
      BY <2>2, JobTypes, SMTT(60) DEF ReconcileBackupResources, ReportInvalid, IdleJob
    <2>3. CASE LookupForCleanup \/ DeleteUserFromServer
      BY <2>3, JobTypes, SMTT(60) DEF LookupForCleanup, DeleteUserFromServer, IdleJob
    <2>4. CASE DeleteSecret \/ RemoveFinalizer
      BY <2>4, JobTypes, SMTT(60) DEF DeleteSecret, RemoveFinalizer, IdleJob
    <2>. QED
      BY <2>1, <2>2, <2>3, <2>4, ZenonT(60)
  <1>2. Retry \/ Done => job'.pc # "mark"
    BY DEF Retry, Done, IdleJob
  <1>3. \A phase : Goto(phase) => job'.pc = phase
    BY <1>1 DEF Goto, Job
  <1>4. CASE AddFinalizer
    BY <1>1, <1>2, <1>4, ZenonT(60) DEF AddFinalizer, Conflict, Job
  <1>5. CASE ValidateDependencies
    <2>1. ASSUME NEW phase \in {"createSecret", "persist", "setUser"}, NEW c,
                 job' = [job EXCEPT !.pc = phase, !.repo = job.obj.repo, !.creds = c]
          PROVE  job'.pc # "mark"
      BY <1>1, <2>1 DEF Job
    <2>2. job' = [job EXCEPT !.pc = "invalid", !.obj.ready = "NotFound"] => job'.pc = "invalid"
      BY <1>1 DEF Job
    <2>3. Goto("resources") \/ Retry => job'.pc # "mark"
      BY <1>2, <1>3, ZenonT(60)
    <2>. QED
      BY <1>5, <2>1, <2>2, <2>3, ZenonT(60) DEF ValidateDependencies
  <1>6. CASE PersistCredentialsSecret
    BY <1>1, <1>2, <1>6, ZenonT(60) DEF PersistCredentialsSecret, Conflict, Job
  <1>7. CASE ReconcileBackupResources \/ ReportInvalid
    BY <1>2, <1>7 DEF ReconcileBackupResources, ReportInvalid, UpdateStatusFailed, Conflict
  <1>8. CASE LookupForCleanup
    BY <1>1, <1>8, ZenonT(60) DEF LookupForCleanup, Job
  <1>9. CASE DeleteUserFromServer
    BY <1>2, <1>3, <1>9, ZenonT(60) DEF DeleteUserFromServer
  <1>10. CASE DeleteSecret \/ RemoveFinalizer
    BY <1>2, <1>3, <1>10, ZenonT(60) DEF DeleteSecret, RemoveFinalizer, Conflict
  <1>. QED
    BY <1>4, <1>5, <1>6, <1>7, <1>8, <1>9, <1>10, ZenonT(60)

\* SyncedInv is inductive.
LEMMA SyncedStep == TypeOK /\ SyncedInv /\ [Next]_vars => SyncedInv'
  <1> SUFFICES ASSUME TypeOK, SyncedInv, [Next]_vars PROVE SyncedInv'
    OBVIOUS
  <1> USE DEF apiVars, envVars, serverVars, opVars
  <1> DEFINE Named == \A x \in PVC : CurSecret(x) # Nil /\ CurSecret(x).synced # Nil
                                         => CurSecret(x).synced \in applied'
  <1>1. ASSUME applied \subseteq applied', UNCHANGED secret, job'.pc # "mark" \/ job' = job
        PROVE  SyncedInv'
    BY <1>1 DEF SyncedInv, CurSecret
  <1>2. ASSUME NEW b \in Backup, StartReconcile(b) PROVE SyncedInv'
    BY <1>1, <1>2 DEF StartReconcile, FirstPhase, IdleJob
  <1>3. CASE AddFinalizer \/ PersistCredentialsSecret \/ ReconcileBackupResources \/ ReportInvalid
    <2>1. UNCHANGED <<secret, applied>>
      BY <1>3 DEF AddFinalizer, PersistCredentialsSecret, ReconcileBackupResources, ReportInvalid,
                  UpdateStatus, UpdateStatusFailed, Conflict, ApiFault
    <2>. QED
      BY <1>1, <1>3, <2>1, OnlyExecLeadsToMark, ZenonT(60)
  <1>4. CASE ValidateDependencies
    <2>1. UNCHANGED <<secret, applied>>
      BY <1>4 DEF ValidateDependencies
    <2>. QED
      BY <1>1, <1>4, <2>1, OnlyExecLeadsToMark, ZenonT(60)
  <1>5. CASE CreateSecret
    <2> DEFINE c == [user |-> Username(job.b, job.repo), pw |-> NewPassword]
               v == [creds |-> c, synced |-> Nil, owner |-> job.b]
    <2>1. job \in Job /\ MyPvc \in PVC /\ job.b \in Backup /\ job.repo \in Repo
      <3>1. job.pc = "createSecret" /\ job # IdleJob
        BY <1>5, SMTT(60) DEF CreateSecret, IdleJob
      <3>2. job.repo \in Repo
        BY <3>1 DEF TypeOK, WithRepo
      <3>. QED
        BY <3>1, <3>2, JobTypes, ZenonT(60)
    <2>2. CASE /\ Mint /\ WriteSecret(MyPvc, v)
               /\ job' = [job EXCEPT !.pc = "setUser", !.creds = c, !.minted = TRUE]
      <3>1. v \in SecretVersion
        BY <2>1, <2>2, NewPasswordFact, ConstantsAssumption, ZenonT(60)
        DEF SecretVersion, SecretObj, Creds, Username, User
      <3>2. Named
        BY <2>2, MintKeeps, ZenonT(60) DEF SyncedInv
      <3>3. (\A x \in PVC : CurSecret(x) # Nil /\ CurSecret(x).synced # Nil => CurSecret(x).synced \in applied)'
        BY <2>1, <2>2, <3>1, <3>2, SyncedWrite, ZenonT(60)
      <3>4. job'.pc # "mark"
        BY <2>1, <2>2, ZenonT(60) DEF Job
      <3>. QED
        BY <3>3, <3>4, ZenonT(60) DEF SyncedInv
    <2>3. CASE Retry /\ UNCHANGED <<applied, apiVars>>
      BY <1>1, <2>3, ZenonT(60) DEF Retry, IdleJob
    <2>. QED
      BY <1>5, <2>2, <2>3, ZenonT(60) DEF CreateSecret, ApiFault
  <1>6. CASE CreateUserOnServer
    <2>1. job \in Job /\ job.creds \in Creds
      <3>1. job.pc = "setUser"
        BY <1>6, ZenonT(60) DEF CreateUserOnServer
      <3>2. job # IdleJob
        BY <3>1, SMTT(60) DEF IdleJob
      <3>3. job.creds \in Creds
        BY <3>1, ZenonT(60) DEF TypeOK, WithCreds
      <3>. QED
        BY <3>2, <3>3, JobTypes, ZenonT(60)
    <2>2. UNCHANGED secret
      BY <1>6 DEF CreateUserOnServer
    <2>3. CASE UNCHANGED applied /\ SetUserFailed
      BY <1>1, <2>1, <2>2, <2>3, SMTT(60) DEF SetUserFailed, Goto, Retry, IdleJob, Job
    <2>4. CASE applied' = applied \cup {[user |-> job.creds.user, pw |-> job.creds.pw]} /\ Goto("mark")
      <3>1. [user |-> job.creds.user, pw |-> job.creds.pw] = job.creds
        BY <2>1 DEF Creds
      <3>2. job'.creds = job.creds
        BY <2>1, <2>4, ZenonT(60) DEF Goto, Job
      <3>. QED
        BY <2>2, <2>4, <3>1, <3>2, ZenonT(60) DEF SyncedInv, CurSecret
    <2>. QED
      BY <1>6, <2>3, <2>4, ZenonT(60) DEF CreateUserOnServer, Record
  <1>7. CASE RollbackSecret
    <2>1. MyPvc \in PVC
      BY <1>7, JobTypes, SMTT(60) DEF RollbackSecret, IdleJob
    <2>2. CASE WriteSecret(MyPvc, Nil)
      <3>1. (\A x \in PVC : CurSecret(x) # Nil /\ CurSecret(x).synced # Nil => CurSecret(x).synced \in applied)'
        BY <1>7, <2>1, <2>2, SyncedWrite, ZenonT(60) DEF SyncedInv, SecretVersion, RollbackSecret
      <3>. QED
        BY <1>7, <3>1, ZenonT(60) DEF RollbackSecret, Retry, IdleJob, SyncedInv
    <2>. QED
      BY <1>1, <1>7, <2>2, ZenonT(60) DEF RollbackSecret, ApiFault, Retry, IdleJob
  <1>8. CASE MarkUserSynced
    <2> DEFINE v == [CurSecret(MyPvc) EXCEPT !.synced = job.creds]
    <2>1. job \in Job /\ MyPvc \in PVC /\ job.creds \in Creds
      <3>1. job.pc = "mark" /\ job # IdleJob
        BY <1>8, SMTT(60) DEF MarkUserSynced, IdleJob
      <3>2. job.creds \in Creds
        BY <3>1, ZenonT(60) DEF TypeOK, WithCreds
      <3>. QED
        BY <3>1, <3>2, JobTypes, ZenonT(60)
    <2>2. job'.pc = "persist" /\ applied' = applied /\ job.creds \in applied
      BY <1>8, <2>1 DEF MarkUserSynced, Goto, Job, SyncedInv
    <2>3. CASE CurSecret(MyPvc) # Nil /\ WriteSecret(MyPvc, v)
      <3>1. CurSecret(MyPvc) \in SecretObj
        BY <2>1, <2>3, ReadTypes DEF SecretVersion
      <3>2. v \in SecretVersion /\ v.synced = job.creds
        BY <2>1, <3>1, ZenonT(60) DEF SecretVersion, SecretObj
      <3>3. (\A x \in PVC : CurSecret(x) # Nil /\ CurSecret(x).synced # Nil => CurSecret(x).synced \in applied)'
        <4>1. Named
          BY <2>2, ZenonT(60) DEF SyncedInv
        <4> HIDE DEF v
        <4>. QED
          BY <2>1, <2>2, <2>3, <3>2, <4>1, SyncedWrite, ZenonT(60)
      <3>. QED
        BY <2>2, <3>3 DEF SyncedInv
    <2>. QED
      BY <1>1, <1>8, <2>2, <2>3, ZenonT(60) DEF MarkUserSynced, ApiFault
  <1>9. CASE DeleteSecret
    <2>1. job \in Job /\ MyPvc \in PVC
      BY <1>9, JobTypes, SMTT(60) DEF DeleteSecret, IdleJob
    <2>2. job'.pc # "mark" /\ applied' = applied
      BY <1>9, <2>1, SMTT(60) DEF DeleteSecret, Goto, Retry, IdleJob, Job
    <2>3. CASE WriteSecret(MyPvc, Nil)
      <3>1. (\A x \in PVC : CurSecret(x) # Nil /\ CurSecret(x).synced # Nil => CurSecret(x).synced \in applied)'
        BY <2>1, <2>2, <2>3, SyncedWrite, ZenonT(60) DEF SyncedInv, SecretVersion
      <3>. QED
        BY <2>2, <3>1, ZenonT(60) DEF SyncedInv
    <2>. QED
      BY <1>1, <1>9, <2>2, <2>3, ZenonT(60) DEF DeleteSecret, ApiFault
  <1>10. CASE LookupForCleanup \/ DeleteUserFromServer \/ RemoveFinalizer
    <2>1. UNCHANGED <<secret, applied>>
      BY <1>10, ZenonT(60) DEF LookupForCleanup, DeleteUserFromServer, RemoveFinalizer, Conflict, ApiFault
    <2>. QED
      BY <1>1, <1>10, <2>1, OnlyExecLeadsToMark, ZenonT(60)
  <1>11. ASSUME NEW p \in PVC, DeliverSecret(p) PROVE SyncedInv'
    BY <1>11, DeliverSecretStep, ZenonT(60) DEF DeliverSecret, SyncedInv, CurSecret
  <1>12. ASSUME NEW p \in PVC, CollectGarbage(p) PROVE SyncedInv'
    <2>1. (\A x \in PVC : CurSecret(x) # Nil /\ CurSecret(x).synced # Nil => CurSecret(x).synced \in applied)'
      BY <1>12, SyncedWrite DEF CollectGarbage, SyncedInv, SecretVersion
    <2>. QED
      BY <1>12, <2>1, ZenonT(60) DEF CollectGarbage, SyncedInv
  <1>13. ASSUME NEW p \in PVC, RemoveAnnotation(p) PROVE SyncedInv'
    <2> DEFINE v == [CurSecret(p) EXCEPT !.synced = Nil]
    <2>1. CurSecret(p) \in SecretObj
      BY <1>13, ReadTypes DEF RemoveAnnotation, SecretVersion
    <2>2. v \in SecretVersion /\ v.synced = Nil
      BY <2>1 DEF SecretVersion, SecretObj
    <2>3. (\A x \in PVC : CurSecret(x) # Nil /\ CurSecret(x).synced # Nil => CurSecret(x).synced \in applied)'
      BY <1>13, <2>2, SyncedWrite, ZenonT(60) DEF RemoveAnnotation, SyncedInv
    <2>. QED
      BY <1>13, <2>3 DEF RemoveAnnotation, SyncedInv
  <1>14. ASSUME NEW p \in PVC, ChangePassword(p) PROVE SyncedInv'
    <2> DEFINE v == [CurSecret(p) EXCEPT !.creds.pw = NewPassword]
    <2>1. CurSecret(p) \in SecretObj /\ NewPassword \in Password
      BY <1>14, ReadTypes, NewPasswordFact DEF ChangePassword, SecretVersion
    <2>2. v \in SecretVersion /\ v.synced = CurSecret(p).synced
      BY <2>1 DEF SecretVersion, SecretObj, Creds
    <2>3. Named
      BY <1>14, MintKeeps DEF SyncedInv, ChangePassword
    <2>4. (\A x \in PVC : CurSecret(x) # Nil /\ CurSecret(x).synced # Nil => CurSecret(x).synced \in applied)'
      BY <1>14, <2>2, <2>3, SyncedWrite, ZenonT(60) DEF ChangePassword
    <2>5. job' = job /\ (job.pc = "mark" => job.creds # Nil)
      BY <1>14, NilAssumption, ZenonT(60) DEF ChangePassword, TypeOK, WithCreds
    <2>. QED
      BY <1>14, <2>4, <2>5, MintKeeps, ZenonT(60) DEF ChangePassword, SyncedInv
  <1>15. ASSUME NEW c \in late, Land(c) PROVE SyncedInv'
    BY <1>1, <1>15, ZenonT(60) DEF Land, Record
  <1>16. ASSUME NEW b \in Backup,
                DeleteBackup(b) \/ \E r \in Repo : CreateBackup(b, r) \/ SwitchRepository(b, r)
         PROVE  SyncedInv'
    <2>1. job'.pc = job.pc /\ job'.creds = job.creds
      BY <1>16, ZenonT(60) DEF DeleteBackup, CreateBackup, SwitchRepository, Invalidate, TypeOK, Job, IdleJob
    <2>2. UNCHANGED <<secret, applied>>
      BY <1>16, ZenonT(60) DEF DeleteBackup, CreateBackup, SwitchRepository
    <2>. QED
      BY <2>1, <2>2, ZenonT(60) DEF SyncedInv, CurSecret
  <1>17. CASE Reconcile
    BY <1>2, <1>3, <1>4, <1>5, <1>6, <1>7, <1>8, <1>9, <1>10, <1>17, ZenonT(60) DEF Reconcile
  <1>18. ASSUME NEW b \in Backup, DeliverBackup(b) \/ Resync(b) PROVE SyncedInv'
    BY <1>1, <1>18, ZenonT(60) DEF DeliverBackup, Resync
  <1>19. ASSUME NEW p \in PVC, ChangePVC(p) PROVE SyncedInv'
    BY <1>1, <1>19, ZenonT(60) DEF ChangePVC
  <1>20. ASSUME NEW r \in Repo, ServerStarts(r) \/ ServerStops(r) \/ \E mode \in Mode : ChangeRepository(r, mode)
         PROVE  SyncedInv'
    BY <1>1, <1>20, ZenonT(60) DEF ServerStarts, ServerStops, ChangeRepository
  <1>21. CASE Restart
    BY <1>1, <1>21, ZenonT(60) DEF Restart, IdleJob
  <1>22. CASE Environment
    BY <1>11, <1>12, <1>13, <1>14, <1>15, <1>16, <1>18, <1>19, <1>20, <1>21, <1>22, ZenonT(60) DEF Environment
  <1>23. CASE UNCHANGED vars
    BY <1>1, <1>23, ZenonT(60) DEF vars
  <1>. QED
    BY <1>17, <1>22, <1>23, ZenonT(60) DEF Next

\* SyncedWasApplied holds in every reachable state: EnsureUser skips the exec
\* only for credentials that some server was given, whatever restarts, late
\* commands, stale reads and hand-made changes came before.
THEOREM SyncedIsApplied == Spec => []SyncedWasApplied
  <1>1. Init => SyncedInv
    BY SMTT(60) DEF Init, SyncedInv, CurSecret, Current, IdleJob
  <1>2. TypeOK /\ SyncedInv => SyncedWasApplied
    <2> SUFFICES ASSUME TypeOK, SyncedInv, NEW p \in PVC,
                        CurSecret(p) # Nil, CurSecret(p).synced = CurSecret(p).creds
                 PROVE  CurSecret(p).creds \in applied
      BY DEF SyncedWasApplied
    <2>1. CurSecret(p).creds # Nil
      BY ReadTypes, NilAssumption DEF SecretVersion, SecretObj
    <2>. QED
      BY <2>1, ZenonT(60) DEF SyncedInv
  <1>. QED
    BY <1>1, <1>2, TypeCorrect, SyncedStep, PTL DEF Spec
=============================================================================
