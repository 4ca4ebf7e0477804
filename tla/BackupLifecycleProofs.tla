----------------------- MODULE BackupLifecycleProofs -----------------------
(***************************************************************************)
(* The finalizer in BackupCredentials: it is there while external state is *)
(* created, it goes only after the cleanup, every backup keeps to the life *)
(* BackupLifecycle describes, and one that is left alone is settled.       *)
(***************************************************************************)
EXTENDS BackupTypeProofs
-----------------------------------------------------------------------------
(***************************************************************************)
(* ProvisionHoldsFinalizer                                                 *)
(*                                                                         *)
(* The copy a reconcile starts from may be old.  What makes it safe is     *)
(* that an object whose cache still shows it live with its finalizer has   *)
(* the finalizer at the API server: only the finalizing reconcile removes  *)
(* it, after the cache showed the deletion.                                *)
(***************************************************************************)
LiveHeld(v) == v # Nil /\ v.fin /\ ~v.deleting

StreamsHeld == \A b \in Backup : (\E v \in Versions(backup[b]) : LiveHeld(v)) => Held(Cur(b))

FinalizerInv ==
    /\ StreamsHeld
    /\ job.pc \in Provisioning => job.obj.fin /\ Held(Cur(job.b))
    /\ job.pc \in Finalizing =>
           job.obj.deleting /\ (job.fresh => Versions(backup[job.b]) \subseteq {job.obj})

\* Before anything exists nothing needs a finalizer.
LEMMA FinalizerInit == Init => FinalizerInv
  BY DEF Init, FinalizerInv, StreamsHeld, LiveHeld, Versions, IdleJob, Provisioning, Finalizing

\* A write of an object with the finalizer, or of anything once no live
\* version with it is left to be delivered.
LEMMA HeldWrite ==
    ASSUME TypeOK, StreamsHeld, NEW b \in Backup, NEW v \in BackupVersion, WriteBackup(b, v),
           \/ Held(v)
           \/ ~LiveHeld(v) /\ \A x \in Versions(backup[b]) : ~LiveHeld(x)
    PROVE  /\ StreamsHeld'
           /\ Current(backup'[b]) = v
           /\ \A x \in Backup \ {b} : Current(backup'[x]) = Cur(x)
  <1>1. /\ \A x \in Backup \ {b} : backup'[x] = backup[x]
        /\ Current(backup'[b]) = v
        /\ Versions(backup'[b]) \subseteq Versions(backup[b]) \cup {v}
    BY WriteBackupStep
  <1>2. \A x \in Backup \ {b} : Current(backup'[x]) = Cur(x)
    BY <1>1 DEF Cur
  <1>3. ASSUME NEW x \in Backup, NEW y \in Versions(backup'[x]), LiveHeld(y)
        PROVE  Held(Current(backup'[x]))
    <2>1. CASE x = b
      BY <1>1, <1>3, <2>1 DEF StreamsHeld
    <2>2. CASE x # b
      BY <1>1, <1>2, <1>3, <2>2 DEF StreamsHeld
    <2>. QED
      BY <2>1, <2>2
  <1>4. StreamsHeld'
    BY <1>3 DEF StreamsHeld, Cur
  <1>. QED
    BY <1>1, <1>2, <1>4

\* Steps that write no backup and end the reconcile, or go on with the same
\* copy in the same half of the reconcile.
LEMMA QuietStep ==
    ASSUME FinalizerInv, UNCHANGED backup,
           \/ job' = IdleJob
           \/ /\ job'.b = job.b /\ job'.fresh = job.fresh
              /\ \/ /\ job.pc \in Provisioning /\ job'.pc \in Provisioning
                    /\ job.obj.fin => job'.obj.fin
                 \/ /\ job.pc \in Finalizing /\ job'.pc \in Finalizing
                    /\ job'.obj = job.obj
    PROVE  FinalizerInv'
  <1>1. StreamsHeld'
    BY DEF FinalizerInv, StreamsHeld, Cur
  <1>2. CASE job' = IdleJob
    BY <1>1, <1>2 DEF FinalizerInv, IdleJob, Provisioning, Finalizing
  <1>3. Provisioning \cap Finalizing = {}
    BY DEF Provisioning, Finalizing
  <1>. QED
    BY <1>1, <1>2, <1>3 DEF FinalizerInv, Cur

\* The reconcile writes an object with the finalizer and goes on or ends.
LEMMA HeldStep ==
    ASSUME TypeOK, FinalizerInv, job # IdleJob, NEW o \in BackupObj, o.fin, WriteBackup(job.b, o),
           \/ job' = IdleJob
           \/ job'.b = job.b /\ job'.pc \in Provisioning /\ job'.obj.fin
    PROVE  FinalizerInv'
  <1>1. job.b \in Backup /\ o \in BackupVersion /\ Held(o)
    BY JobTypes, NilAssumption, ZenonT(60) DEF BackupVersion, Held
  <1>2. StreamsHeld' /\ Current(backup'[job.b]) = o
    BY <1>1, HeldWrite DEF FinalizerInv
  <1>3. Provisioning \cap Finalizing = {}
    BY DEF Provisioning, Finalizing
  <1>4. CASE job' = IdleJob
    BY <1>2, <1>4, ZenonT(60) DEF FinalizerInv, IdleJob, Provisioning, Finalizing
  <1>. QED
    BY <1>1, <1>2, <1>3, <1>4 DEF FinalizerInv, Cur

\* A write by another client outdates the copy the reconcile works on.
LEMMA ClientStep ==
    ASSUME TypeOK, FinalizerInv, NEW b \in Backup, NEW v \in BackupVersion,
           WriteBackup(b, v), Invalidate(b),
           Held(Cur(b)) <=> Held(v), LiveHeld(v) => Held(v)
    PROVE  FinalizerInv'
  <1>1. ~Held(v) => \A x \in Versions(backup[b]) : ~LiveHeld(x)
    BY ZenonT(60) DEF FinalizerInv, StreamsHeld
  <1>2. /\ StreamsHeld'
        /\ Current(backup'[b]) = v
        /\ \A x \in Backup \ {b} : Current(backup'[x]) = Cur(x)
    BY <1>1, HeldWrite, ZenonT(60) DEF FinalizerInv
  <1>3. /\ job'.pc = job.pc /\ job'.b = job.b /\ job'.obj = job.obj
        /\ job.b = b => ~job'.fresh
        /\ job.b # b => job' = job
    BY DEF Invalidate, TypeOK, Job, IdleJob
  <1>4. \A x \in Backup : x # b => backup'[x] = backup[x]
    BY WriteBackupStep
  <1>5. job.pc \in Provisioning \cup Finalizing => job.b \in Backup
    BY JobTypes, SMTT(60) DEF IdleJob, Provisioning, Finalizing
  <1>6. job.pc \in Provisioning => job'.obj.fin /\ Held(Current(backup'[job'.b]))
    BY <1>2, <1>3, <1>5, ZenonT(60) DEF FinalizerInv
  <1>7. job.pc \in Finalizing =>
            job'.obj.deleting /\ (job'.fresh => Versions(backup'[job'.b]) \subseteq {job'.obj})
    BY <1>3, <1>4, <1>5, ZenonT(60) DEF FinalizerInv
  <1>. QED
    BY <1>2, <1>3, <1>6, <1>7, ZenonT(60) DEF FinalizerInv, Cur

\* FinalizerInv is inductive.
LEMMA FinalizerStep == TypeOK /\ FinalizerInv /\ [Next]_vars => FinalizerInv'
  <1> SUFFICES ASSUME TypeOK, FinalizerInv, [Next]_vars PROVE FinalizerInv'
    OBVIOUS
  <1> USE DEF Done, Retry, Goto, Conflict, ApiFault, apiVars, envVars, opVars
  <1>1. ASSUME NEW b \in Backup, StartReconcile(b) PROVE FinalizerInv'
    <2> DEFINE o == Cached(backup[b])
    <2>1. backup[b] \in Streams(BackupVersion) /\ o \in BackupVersion /\ o \in Versions(backup[b])
      BY StreamEnds, ZenonT(60) DEF TypeOK, BackupVersion
    <2>2. StreamsHeld' /\ backup' = backup
      BY <1>1 DEF StartReconcile, FinalizerInv, StreamsHeld, Cur
    <2>3. CASE job' = IdleJob
      BY <2>2, <2>3 DEF FinalizerInv, IdleJob, Provisioning, Finalizing
    <2>4. CASE /\ o # Nil /\ (o.deleting => o.fin)
               /\ job' = [IdleJob EXCEPT !.pc = FirstPhase(o), !.b = b, !.obj = o,
                                         !.fresh = CaughtUp(backup[b])]
      <3>1. /\ job'.pc = FirstPhase(o) /\ job'.b = b /\ job'.obj = o
            /\ job'.fresh = CaughtUp(backup[b])
        BY <2>4 DEF IdleJob
      <3>2. CASE o.deleting
        <4>1. FirstPhase(o) = "finalize"
          BY <3>2 DEF FirstPhase
        <4>2. CaughtUp(backup[b]) => Versions(backup[b]) \subseteq {o}
          BY <2>1, StreamCaughtUp, ZenonT(60)
        <4>. QED
          BY <2>2, <3>1, <3>2, <4>1, <4>2 DEF FinalizerInv, Provisioning
      <3>3. CASE ~o.deleting /\ ~o.fin
        <4>1. FirstPhase(o) = "addFin"
          BY <3>3, ZenonT(60) DEF FirstPhase
        <4>. QED
          BY <2>2, <3>1, <4>1 DEF FinalizerInv, Provisioning, Finalizing
      <3>4. CASE ~o.deleting /\ o.fin
        <4>1. FirstPhase(o) = "validate"
          BY <3>4 DEF FirstPhase
        <4>2. Held(Cur(b))
          BY <2>1, <2>4, <3>4, ZenonT(60) DEF FinalizerInv, StreamsHeld, LiveHeld
        <4>. QED
          BY <2>2, <3>1, <3>4, <4>1, <4>2, ZenonT(60) DEF FinalizerInv, Finalizing, Cur
      <3>. QED
        BY <2>1, <2>4, <3>2, <3>3, <3>4 DEF BackupVersion, BackupObj
    <2>. QED
      BY <1>1, <2>3, <2>4, ZenonT(60) DEF StartReconcile
  <1>2. CASE AddFinalizer
    <2>1. job # IdleJob
      BY <1>2 DEF AddFinalizer, IdleJob
    <2> DEFINE o == [job.obj EXCEPT !.fin = TRUE]
    <2>2. CASE WriteBackup(job.b, o) /\ job' = [job EXCEPT !.pc = "validate", !.obj = o]
      <3>1. o \in BackupObj /\ o.fin /\ job'.b = job.b /\ job'.pc = "validate" /\ job'.obj.fin
        BY <2>1, <2>2, JobTypes, ZenonT(60) DEF BackupObj, Job
      <3>. QED
        BY <2>1, <2>2, <3>1, HeldStep, ZenonT(60) DEF Provisioning
    <2>. QED
      BY <1>2, <2>2, QuietStep, ZenonT(60) DEF AddFinalizer
  <1>3. CASE PersistCredentialsSecret
    <2>1. job # IdleJob /\ job.pc \in Provisioning /\ job.obj \in BackupObj /\ job \in Job
      BY <1>3, JobTypes DEF PersistCredentialsSecret, IdleJob, Provisioning
    <2> DEFINE o == [job.obj EXCEPT !.cred = TRUE]
               d == [o EXCEPT !.connected = TRUE]
               C == job' = [job EXCEPT !.pc = "resources", !.obj = d]
    <2>2. o \in BackupObj /\ o.fin /\ d.fin
      BY <2>1, ZenonT(60) DEF BackupObj, FinalizerInv
    <2>3. C => /\ job'.b = job.b /\ job'.fresh = job.fresh /\ job'.pc \in Provisioning
               /\ job'.obj = d
      <3> HIDE DEF d
      <3>. QED
        BY <2>1 DEF Job, Provisioning
    <2>4. CASE WriteBackup(job.b, o) /\ C
      BY <2>1, <2>2, <2>3, <2>4, HeldStep, ZenonT(60)
    <2>5. CASE backup' = backup /\ (C \/ job' = IdleJob)
      BY <2>1, <2>2, <2>3, <2>5, QuietStep, ZenonT(60)
    <2>. QED
      BY <1>3, <2>4, <2>5 DEF PersistCredentialsSecret
  <1>4. CASE ReconcileBackupResources \/ ReportInvalid
    <2>1. job # IdleJob /\ job.pc \in Provisioning /\ job.obj \in BackupObj
      BY <1>4, JobTypes DEF ReconcileBackupResources, ReportInvalid, IdleJob, Provisioning
    <2>2. /\ job.obj.fin
          /\ [job.obj EXCEPT !.ready = "UpToDate"] \in BackupObj
          /\ [job.obj EXCEPT !.ready = "UpToDate"].fin
      BY <2>1 DEF BackupObj, Reason, FinalizerInv
    <2>3. ASSUME NEW o \in BackupObj, o.fin, UpdateStatus(o), job' = IdleJob PROVE FinalizerInv'
      BY <2>1, <2>3, HeldStep DEF UpdateStatus
    <2>4. CASE UpdateStatusFailed
      BY <2>4, QuietStep, ZenonT(60) DEF UpdateStatusFailed
    <2>. QED
      BY <1>4, <2>1, <2>2, <2>3, <2>4, ZenonT(60) DEF ReconcileBackupResources, ReportInvalid
  <1>5. CASE RemoveFinalizer
    <2>1. job # IdleJob /\ job.pc \in Finalizing /\ job.b \in Backup
      BY <1>5, JobTypes, SMTT(60) DEF RemoveFinalizer, IdleJob, Finalizing
    <2>2. CASE job.fresh /\ WriteBackup(job.b, Nil) /\ Done
      <3>1. \A x \in Versions(backup[job.b]) : ~LiveHeld(x)
        BY <2>1, <2>2, ZenonT(60) DEF FinalizerInv, LiveHeld
      <3>2. StreamsHeld'
        BY <2>1, <2>2, <3>1, HeldWrite, ZenonT(60) DEF FinalizerInv, BackupVersion, LiveHeld
      <3>. QED
        BY <2>2, <3>2, ZenonT(60) DEF FinalizerInv, IdleJob, Provisioning, Finalizing
    <2>. QED
      BY <1>5, <2>2, QuietStep, ZenonT(60) DEF RemoveFinalizer
  <1>6. CASE ValidateDependencies
    <2>1. job \in Job /\ job.obj \in BackupObj /\ job.pc \in Provisioning /\ backup' = backup
      BY <1>6, JobTypes, SMTT(60) DEF ValidateDependencies, IdleJob, Provisioning
    <2>2. \/ job' = IdleJob
          \/ /\ job'.b = job.b /\ job'.fresh = job.fresh /\ job'.pc \in Provisioning
             /\ job.obj.fin => job'.obj.fin
      <3>1. CASE job' = [job EXCEPT !.pc = "invalid", !.obj.ready = "NotFound"]
        BY <2>1, <3>1, ZenonT(60) DEF Job, BackupObj, Provisioning
      <3>2. CASE Goto("resources") \/ Retry
        BY <2>1, <3>2, ZenonT(60) DEF Job, Provisioning
      <3>3. ASSUME NEW phase \in {"createSecret", "persist", "setUser"}, NEW c,
                   job' = [job EXCEPT !.pc = phase, !.repo = job.obj.repo, !.creds = c]
            PROVE  /\ job'.b = job.b /\ job'.fresh = job.fresh /\ job'.pc \in Provisioning
                   /\ job'.obj = job.obj
        BY <2>1, <3>3, ZenonT(60) DEF Job, Provisioning
      <3>. QED
        BY <1>6, <3>1, <3>2, <3>3, ZenonT(60) DEF ValidateDependencies
    <2>. QED
      BY <2>1, <2>2, QuietStep, ZenonT(60)
  <1>7. CASE CreateSecret \/ CreateUserOnServer \/ RollbackSecret \/ MarkUserSynced
    <2>1. job \in Job /\ job.pc \in Provisioning /\ backup' = backup
      <3>1. job.pc \in {"createSecret", "setUser", "rollback", "mark"}
        BY <1>7, ZenonT(60) DEF CreateSecret, CreateUserOnServer, RollbackSecret, MarkUserSynced
      <3>2. backup' = backup
        BY <1>7, ZenonT(60)
        DEF CreateSecret, CreateUserOnServer, RollbackSecret, MarkUserSynced, ApiFault, apiVars
      <3>. QED
        BY <3>1, <3>2, JobTypes, SMTT(60) DEF IdleJob, Provisioning
    <2>2. \/ job' = IdleJob
          \/ /\ job'.b = job.b /\ job'.fresh = job.fresh /\ job'.pc \in Provisioning
             /\ job'.obj = job.obj
      BY <1>7, <2>1, ZenonT(60)
      DEF CreateSecret, CreateUserOnServer, RollbackSecret, MarkUserSynced, SetUserFailed, Job, Provisioning
    <2>. QED
      BY <2>1, <2>2, QuietStep, ZenonT(60)
  <1>8. CASE LookupForCleanup \/ DeleteUserFromServer \/ DeleteSecret
    <2>1. job \in Job /\ job.pc \in Finalizing /\ backup' = backup
      BY <1>8, JobTypes DEF LookupForCleanup, DeleteUserFromServer, DeleteSecret, IdleJob, Finalizing
    <2>2. \/ job' = IdleJob
          \/ /\ job'.b = job.b /\ job'.fresh = job.fresh /\ job'.pc \in Finalizing
             /\ job'.obj = job.obj
      BY <1>8, <2>1, ZenonT(60) DEF LookupForCleanup, DeleteUserFromServer, DeleteSecret, Job, Finalizing
    <2>. QED
      BY <2>1, <2>2, QuietStep
  <1>9. ASSUME NEW b \in Backup, DeliverBackup(b) PROVE FinalizerInv'
    <2>1. /\ job' = job
          /\ \A x \in Backup : /\ Current(backup'[x]) = Current(backup[x])
                               /\ Versions(backup'[x]) \subseteq Versions(backup[x])
      BY <1>9, DeliverBackupStep, ZenonT(60) DEF DeliverBackup
    <2>2. StreamsHeld'
      BY <2>1 DEF FinalizerInv, StreamsHeld, Cur
    <2>3. job.pc \in Provisioning \cup Finalizing => job.b \in Backup
      BY JobTypes DEF IdleJob, Provisioning, Finalizing
    <2>. QED
      BY <2>1, <2>2, <2>3 DEF FinalizerInv, Cur
  <1>10. ASSUME NEW b \in Backup, NEW r \in Repo, CreateBackup(b, r) PROVE FinalizerInv'
    <2>1. NewBackup(r) \in BackupVersion /\ ~Held(NewBackup(r)) /\ ~LiveHeld(NewBackup(r)) /\ ~Held(Cur(b))
      BY <1>10 DEF NewBackup, CreateBackup, Held, LiveHeld, BackupVersion, BackupObj, Reason
    <2>. QED
      BY <1>10, <2>1, ClientStep DEF CreateBackup
  <1>11. ASSUME NEW b \in Backup, DeleteBackup(b) PROVE FinalizerInv'
    <2> DEFINE v == [Cur(b) EXCEPT !.deleting = TRUE]
    <2>1. Cur(b) \in BackupObj
      BY <1>11, ReadTypes, ZenonT(60) DEF DeleteBackup, BackupVersion
    <2>2. v \in BackupObj /\ v.fin = Cur(b).fin /\ v # Nil
      BY <2>1, NilAssumption, ZenonT(60) DEF BackupObj
    <2>3. CASE Cur(b).fin /\ WriteBackup(b, v)
      BY <1>11, <2>1, <2>2, <2>3, ClientStep, ZenonT(60) DEF DeleteBackup, Held, LiveHeld, BackupVersion
    <2>4. CASE ~Cur(b).fin /\ WriteBackup(b, Nil)
      BY <1>11, <2>4, ClientStep DEF DeleteBackup, Held, LiveHeld, BackupVersion
    <2>. QED
      BY <1>11, <2>3, <2>4, ZenonT(60) DEF DeleteBackup
  <1>12. ASSUME NEW b \in Backup, NEW r \in Repo, SwitchRepository(b, r) PROVE FinalizerInv'
    <2> DEFINE v == [Cur(b) EXCEPT !.repo = r]
    <2>1. Cur(b) \in BackupObj
      BY <1>12, ReadTypes DEF SwitchRepository, BackupVersion
    <2>2. v \in BackupObj /\ v.fin = Cur(b).fin /\ v # Nil /\ Cur(b) # Nil
      BY <2>1, NilAssumption DEF BackupObj
    <2>. QED
      BY <1>12, <2>2, ClientStep, ZenonT(60) DEF SwitchRepository, Held, LiveHeld, BackupVersion
  <1>13. ASSUME UNCHANGED backup, UNCHANGED job PROVE FinalizerInv'
    BY <1>13 DEF FinalizerInv, StreamsHeld, Cur
  <1>14. CASE Restart
    BY <1>14, QuietStep DEF Restart
  <1>15. CASE Reconcile
    BY <1>1, <1>2, <1>3, <1>4, <1>5, <1>6, <1>7, <1>8, <1>15, ZenonT(60) DEF Reconcile
  <1>16. CASE Environment
    BY <1>9, <1>10, <1>11, <1>12, <1>13, <1>14, <1>16, ZenonT(60)
    DEF Environment, Resync, DeliverSecret, CollectGarbage, ChangePVC, RemoveAnnotation, ChangePassword,
        ServerStarts, ServerStops, ChangeRepository, Land
  <1>17. CASE UNCHANGED vars
    BY <1>13, <1>17 DEF vars
  <1>. QED
    BY <1>15, <1>16, <1>17, ZenonT(60) DEF Next

\* ProvisionHoldsFinalizer holds in every reachable state: whatever the
\* informers lag and whoever else writes, handleFinalizer lets nothing be
\* provisioned for a backup whose deletion would not wait for DeleteUser.
THEOREM ProvisionIsHeld == Spec => []ProvisionHoldsFinalizer
  <1>1. FinalizerInv => ProvisionHoldsFinalizer
    BY DEF FinalizerInv, ProvisionHoldsFinalizer
  <1>. QED
    BY <1>1, FinalizerInit, TypeCorrect, FinalizerStep, PTL DEF Spec
-----------------------------------------------------------------------------
(***************************************************************************)
(* ReleaseIsClean                                                          *)
(*                                                                         *)
(* The cleanup works on the copy it read; the finalizer goes only if that  *)
(* copy is still current, and persisted credentials imply the finalizer,   *)
(* so no other way out is open to such a backup.                           *)
(***************************************************************************)
\* The circumstances under which the cleanup can be relied on.
Reliable == "repo" \notin Edits /\ "timeout" \notin Faults /\ "swallow" \notin Faults

CredHeld(v) == v # Nil /\ v.cred => v.fin

CleanupInv ==
    /\ late = {}
    /\ repos = [r \in Repo |-> "server"]
    /\ \A b \in Backup : CredHeld(Cur(b))
    /\ job.pc = "delUser" => job.repo = job.obj.repo
    /\ job.pc \in {"delSecret", "dropFin"} /\ job.obj.cred
           => users[job.obj.repo][Username(job.b, job.obj.repo)] = Nil

\* What the reconcile and other clients write keeps the finalizer of a backup
\* with credentials; only RemoveFinalizer and deletion without one remove it.
LEMMA CredWrites ==
    ASSUME TypeOK, FinalizerInv, \A b \in Backup : CredHeld(Cur(b)), [Next]_vars, NEW b \in Backup
    PROVE  /\ CredHeld(Current(backup'[b]))
           /\ Cur(b) # Nil /\ Current(backup'[b]) = Nil /\ Cur(b).cred
                  => RemoveFinalizer /\ job.b = b /\ job.fresh
  <1> DEFINE Fine == /\ CredHeld(Current(backup'[b]))
                     /\ Cur(b) # Nil /\ Current(backup'[b]) = Nil /\ Cur(b).cred
                            => RemoveFinalizer /\ job.b = b /\ job.fresh
  <1> USE DEF Conflict, ApiFault, apiVars
  <1>1. CASE UNCHANGED backup
    BY <1>1, ZenonT(60) DEF Cur
  <1>2. ASSUME NEW x \in Backup, NEW v \in BackupObj, WriteBackup(x, v), v.cred => v.fin PROVE Fine
    BY <1>2, WriteBackupStep, NilAssumption, SMTT(60) DEF BackupVersion, CredHeld, Cur
  <1>3. CASE AddFinalizer
    <2>1. job # IdleJob
      BY <1>3 DEF AddFinalizer, IdleJob
    <2>2. job.b \in Backup /\ [job.obj EXCEPT !.fin = TRUE] \in BackupObj /\ [job.obj EXCEPT !.fin = TRUE].fin
      BY <2>1, JobTypes, ZenonT(60) DEF BackupObj
    <2>. QED
      BY <1>1, <1>2, <1>3, <2>2, ZenonT(60) DEF AddFinalizer
  <1>4. CASE PersistCredentialsSecret
    <2>1. job # IdleJob /\ job.obj.fin
      BY <1>4 DEF PersistCredentialsSecret, IdleJob, FinalizerInv, Provisioning
    <2>2. job.b \in Backup /\ [job.obj EXCEPT !.cred = TRUE] \in BackupObj /\ [job.obj EXCEPT !.cred = TRUE].fin
      BY <2>1, JobTypes, ZenonT(60) DEF BackupObj
    <2>. QED
      BY <1>1, <1>2, <1>4, <2>2, ZenonT(60) DEF PersistCredentialsSecret
  <1>5. CASE ReconcileBackupResources \/ ReportInvalid
    <2>1. job # IdleJob /\ job.obj.fin
      BY <1>5 DEF ReconcileBackupResources, ReportInvalid, IdleJob, FinalizerInv, Provisioning
    <2>2. /\ job.b \in Backup /\ job.obj \in BackupObj
          /\ [job.obj EXCEPT !.ready = "UpToDate"] \in BackupObj
          /\ [job.obj EXCEPT !.ready = "UpToDate"].fin
      BY <2>1, JobTypes DEF BackupObj, Reason
    <2>3. ASSUME NEW o \in BackupObj, o.fin, UpdateStatus(o) PROVE Fine
      BY <1>2, <2>2, <2>3, ZenonT(60) DEF UpdateStatus
    <2>. QED
      BY <1>1, <1>5, <2>1, <2>2, <2>3, ZenonT(60) DEF ReconcileBackupResources, ReportInvalid, UpdateStatusFailed
  <1>6. CASE RemoveFinalizer
    <2>1. job.b \in Backup
      BY <1>6, JobTypes, SMTT(60) DEF RemoveFinalizer, IdleJob
    <2>2. CASE job.fresh /\ WriteBackup(job.b, Nil)
      <3>1. /\ \A x \in Backup \ {job.b} : backup'[x] = backup[x]
            /\ Current(backup'[job.b]) = Nil
        BY <2>1, <2>2, WriteBackupStep, ZenonT(60) DEF BackupVersion
      <3>. QED
        BY <1>6, <2>2, <3>1 DEF CredHeld, Cur
    <2>. QED
      BY <1>1, <1>6, <2>2, ZenonT(60) DEF RemoveFinalizer
  <1>7. ASSUME NEW x \in Backup, DeliverBackup(x) PROVE Fine
    BY <1>7, DeliverBackupStep, ZenonT(60) DEF Cur
  <1>8. ASSUME NEW x \in Backup, NEW r \in Repo, CreateBackup(x, r) PROVE Fine
    <2>1. NewBackup(r) \in BackupObj /\ ~NewBackup(r).cred
      BY DEF NewBackup, BackupObj, Reason
    <2>. QED
      BY <1>2, <1>8, <2>1, ZenonT(60) DEF CreateBackup
  <1>9. ASSUME NEW x \in Backup, DeleteBackup(x) PROVE Fine
    <2>1. Cur(x) \in BackupObj /\ (Cur(x).cred => Cur(x).fin)
      BY <1>9, ReadTypes DEF DeleteBackup, BackupVersion, CredHeld
    <2> DEFINE v == [Cur(x) EXCEPT !.deleting = TRUE]
    <2>2. v \in BackupObj /\ (v.cred => v.fin)
      BY <2>1, ZenonT(60) DEF BackupObj
    <2>3. CASE WriteBackup(x, v)
      BY <1>2, <2>2, <2>3, ZenonT(60)
    <2>4. CASE ~Cur(x).fin /\ WriteBackup(x, Nil)
      <3>1. /\ \A y \in Backup \ {x} : backup'[y] = backup[y]
            /\ Current(backup'[x]) = Nil
        BY <2>4, WriteBackupStep, ZenonT(60) DEF BackupVersion
      <3>. QED
        BY <2>1, <2>4, <3>1, ZenonT(60) DEF CredHeld, Cur
    <2>. QED
      BY <1>9, <2>3, <2>4 DEF DeleteBackup
  <1>10. ASSUME NEW x \in Backup, NEW r \in Repo, SwitchRepository(x, r) PROVE Fine
    <2>1. Cur(x) \in BackupObj /\ (Cur(x).cred => Cur(x).fin)
      BY <1>10, ReadTypes DEF SwitchRepository, BackupVersion, CredHeld
    <2> DEFINE v == [Cur(x) EXCEPT !.repo = r]
    <2>2. v \in BackupObj /\ (v.cred => v.fin)
      BY <2>1 DEF BackupObj
    <2>. QED
      BY <1>2, <1>10, <2>2, ZenonT(60) DEF SwitchRepository
  <1>11. CASE Reconcile
    BY <1>1, <1>3, <1>4, <1>5, <1>6, <1>11, ZenonT(60)
    DEF Reconcile, StartReconcile, ValidateDependencies, CreateSecret, CreateUserOnServer, RollbackSecret,
        MarkUserSynced, LookupForCleanup, DeleteUserFromServer, DeleteSecret
  <1>12. CASE Environment
    BY <1>1, <1>7, <1>8, <1>9, <1>10, <1>12, ZenonT(60)
    DEF Environment, Resync, DeliverSecret, CollectGarbage, ChangePVC, RemoveAnnotation, ChangePassword,
        ServerStarts, ServerStops, ChangeRepository, Land, Restart
  <1>13. CASE UNCHANGED vars
    BY <1>1, <1>13 DEF vars
  <1>. QED
    BY <1>11, <1>12, <1>13 DEF Next

\* Where the cleanup stands after a step of the reconcile, and that nobody
\* but a reconcile that is provisioning, or a late command, sets a user.
LEMMA CleanupJob ==
    ASSUME TypeOK, CleanupInv, Reliable, [Next]_vars
    PROVE  /\ late' = {} /\ repos' = repos
           /\ job'.pc = "delUser" => job'.repo = job'.obj.repo
           /\ job'.pc \in {"delSecret", "dropFin"} /\ job'.obj.cred
                  => users'[job'.obj.repo][Username(job'.b, job'.obj.repo)] = Nil
  <1> DEFINE Fine == /\ late' = {} /\ repos' = repos
                     /\ job'.pc = "delUser" => job'.repo = job'.obj.repo
                     /\ job'.pc \in {"delSecret", "dropFin"} /\ job'.obj.cred
                            => users'[job'.obj.repo][Username(job'.b, job'.obj.repo)] = Nil
             Cleaning == {"delUser", "delSecret", "dropFin"}
  <1> USE DEF apiVars, envVars, serverVars, opVars
  <1>1. ASSUME late' = late, repos' = repos, job'.pc \notin Cleaning PROVE Fine
    BY <1>1, ZenonT(60) DEF CleanupInv
  <1>2. ASSUME UNCHANGED <<late, repos, users>>,
               \/ job'.pc = job.pc
               \/ job.pc = "delSecret" /\ job'.pc = "dropFin",
               job'.b = job.b, job'.obj = job.obj, job'.repo = job.repo
        PROVE  Fine
    BY <1>2 DEF CleanupInv
  <1> SUFFICES Fine
    OBVIOUS
  <1> HIDE DEF Fine
  <1>3. Retry \/ Done => job'.pc \notin Cleaning
    BY DEF Retry, Done, IdleJob
  <1>4. job # IdleJob => \A phase : Goto(phase) =>
            job'.pc = phase /\ job'.b = job.b /\ job'.obj = job.obj /\ job'.repo = job.repo
    BY JobTypes, ZenonT(60) DEF Goto, Job
  <1>5. ASSUME NEW b \in Backup, StartReconcile(b) PROVE Fine
    BY <1>1, <1>5, ZenonT(60) DEF StartReconcile, FirstPhase, IdleJob
  <1>6. CASE AddFinalizer \/ PersistCredentialsSecret
    <2>1. job \in Job
      BY <1>6, JobTypes, SMTT(60) DEF AddFinalizer, PersistCredentialsSecret, IdleJob
    <2>2. job'.pc \notin Cleaning
      <3>1. CASE AddFinalizer
        BY <1>3, <2>1, <3>1, ZenonT(60) DEF AddFinalizer, Conflict, Job
      <3>2. CASE PersistCredentialsSecret
        BY <1>3, <2>1, <3>2, ZenonT(60) DEF PersistCredentialsSecret, Conflict, Job
      <3>. QED
        BY <1>6, <3>1, <3>2, ZenonT(60)
    <2>. QED
      BY <1>1, <1>6, <2>2, ZenonT(60) DEF AddFinalizer, PersistCredentialsSecret
  <1>7. CASE ReconcileBackupResources \/ ReportInvalid \/ RemoveFinalizer \/ RollbackSecret
    <2>1. job'.pc \notin Cleaning
      BY <1>3, <1>7, ZenonT(60)
      DEF ReconcileBackupResources, ReportInvalid, RemoveFinalizer, RollbackSecret, UpdateStatusFailed, Conflict
    <2>. QED
      BY <1>1, <1>7, <2>1 DEF ReconcileBackupResources, ReportInvalid, RemoveFinalizer, RollbackSecret
  <1>8. CASE ValidateDependencies
    <2>1. job \in Job /\ job # IdleJob
      BY <1>8, JobTypes, SMTT(60) DEF ValidateDependencies, IdleJob
    <2>2. ASSUME NEW phase \in {"createSecret", "persist", "setUser"}, NEW c,
                 job' = [job EXCEPT !.pc = phase, !.repo = job.obj.repo, !.creds = c]
          PROVE  job'.pc \notin Cleaning
      BY <2>1, <2>2, ZenonT(60) DEF Job
    <2>3. job' = [job EXCEPT !.pc = "invalid", !.obj.ready = "NotFound"] => job'.pc \notin Cleaning
      BY <2>1, ZenonT(60) DEF Job
    <2>4. Goto("resources") \/ Retry => job'.pc \notin Cleaning
      BY <1>3, <1>4, <2>1, SMTT(60)
    <2>5. job'.pc \notin Cleaning
      BY <1>8, <2>2, <2>3, <2>4, ZenonT(60) DEF ValidateDependencies
    <2>. QED
      BY <1>1, <1>8, <2>5, ZenonT(60) DEF ValidateDependencies
  <1>9. CASE CreateSecret \/ MarkUserSynced
    <2>1. job \in Job /\ job # IdleJob
      BY <1>9, JobTypes, SMTT(60) DEF CreateSecret, MarkUserSynced, IdleJob
    <2>2. job'.pc \notin Cleaning
      <3>1. CASE CreateSecret
        BY <1>3, <2>1, <3>1, ZenonT(60) DEF CreateSecret, Job
      <3>2. CASE MarkUserSynced
        BY <1>4, <2>1, <3>2 DEF MarkUserSynced
      <3>. QED
        BY <1>9, <3>1, <3>2
    <2>. QED
      BY <1>1, <1>9, <2>2, ZenonT(60) DEF CreateSecret, MarkUserSynced
  <1>10. CASE CreateUserOnServer
    <2>1. job # IdleJob
      BY <1>10, SMTT(60) DEF CreateUserOnServer, IdleJob
    <2>2. job'.pc \notin Cleaning
      BY <1>3, <1>4, <1>10, <2>1, SMTT(60) DEF CreateUserOnServer, SetUserFailed
    <2>3. late' = late
      BY <1>10, ZenonT(60) DEF CreateUserOnServer, Reliable, Fault
    <2>. QED
      BY <1>1, <1>10, <2>2, <2>3, ZenonT(60) DEF CreateUserOnServer
  <1>11. CASE LookupForCleanup
    <2>1. job \in Job /\ job.obj.repo \in Repo
      BY <1>11, JobTypes, SMTT(60) DEF LookupForCleanup, IdleJob
    <2>2. repos[job.obj.repo] = "server"
      BY <2>1, ZenonT(60) DEF CleanupInv
    <2>3. CASE job.obj.cred /\ job' = [job EXCEPT !.pc = "delUser", !.repo = job.obj.repo]
      BY <1>11, <2>1, <2>3, ZenonT(60) DEF LookupForCleanup, Job, CleanupInv, Fine
    <2>4. CASE ~job.obj.cred /\ job' = [job EXCEPT !.pc = "dropFin"]
      BY <1>11, <2>1, <2>4, ZenonT(60) DEF LookupForCleanup, Job, CleanupInv, Fine
    <2>. QED
      BY <1>11, <2>2, <2>3, <2>4, ZenonT(60) DEF LookupForCleanup
  <1>12. CASE DeleteUserFromServer
    <2> DEFINE u == Username(job.b, job.repo)
               c == [op |-> "delete", repo |-> job.repo, user |-> u, pw |-> Nil]
    <2>1. job # IdleJob /\ job.pc = "delUser"
      BY <1>12, SMTT(60) DEF DeleteUserFromServer, IdleJob
    <2>2. job.b \in Backup /\ job.repo \in Repo /\ job.repo = job.obj.repo
      BY <2>1, JobTypes, ZenonT(60) DEF TypeOK, WithRepo, CleanupInv
    <2>3. u \in User
      BY <2>2, ConstantsAssumption, ZenonT(60) DEF Username, User
    <2>4. CASE users' = Apply(c) /\ Goto("delSecret") /\ UNCHANGED late
      <3>1. users' = [users EXCEPT ![job.repo][u] = Nil]
        BY <2>4, ZenonT(60) DEF Apply
      <3>2. Goto("delSecret") /\ late' = late
        BY <2>4, ZenonT(60)
      <3>3. repos' = repos
        BY <1>12, ZenonT(60) DEF DeleteUserFromServer
      <3> HIDE DEF u, c
      <3>4. users'[job.repo][u] = Nil
        BY <2>2, <2>3, <3>1, ZenonT(60) DEF TypeOK
      <3>5. job'.pc = "delSecret" /\ job'.b = job.b /\ job'.obj = job.obj
        BY <1>4, <2>1, <3>2, ZenonT(60)
      <3>. QED
        BY <2>2, <3>2, <3>3, <3>4, <3>5, ZenonT(60) DEF CleanupInv, Fine, u
    <2>5. CASE Retry /\ UNCHANGED late
      <3>1. repos' = repos
        BY <1>12, ZenonT(60) DEF DeleteUserFromServer
      <3>. QED
        BY <1>1, <1>3, <2>5, <3>1, ZenonT(60)
    <2>6. (users' = Apply(c) /\ Goto("delSecret") /\ UNCHANGED late) \/ (Retry /\ UNCHANGED late)
      BY <1>12, ZenonT(60) DEF DeleteUserFromServer, Reliable, Fault
    <2>. QED
      BY <2>4, <2>5, <2>6, ZenonT(60)
  <1>13. CASE DeleteSecret
    <2>1. job.pc = "delSecret" /\ UNCHANGED <<late, repos, users>> /\ (Goto("dropFin") \/ Retry)
      BY <1>13, ZenonT(60) DEF DeleteSecret
    <2>2. job # IdleJob
      BY <2>1, SMTT(60) DEF IdleJob
    <2>3. CASE Goto("dropFin")
      BY <1>2, <1>4, <2>1, <2>2, <2>3, ZenonT(60)
    <2>4. CASE Retry
      BY <1>1, <1>3, <2>1, <2>4, ZenonT(60)
    <2>. QED
      BY <2>1, <2>3, <2>4, ZenonT(60)
  <1>14. ASSUME NEW b \in Backup,
                DeleteBackup(b) \/ \E r \in Repo : CreateBackup(b, r) \/ SwitchRepository(b, r)
         PROVE  Fine
    <2>1. job'.pc = job.pc /\ job'.b = job.b /\ job'.obj = job.obj /\ job'.repo = job.repo
      BY <1>14, ZenonT(60) DEF DeleteBackup, CreateBackup, SwitchRepository, Invalidate, TypeOK, Job, IdleJob
    <2>. QED
      BY <1>2, <1>14, <2>1, ZenonT(60) DEF DeleteBackup, CreateBackup, SwitchRepository
  <1>15. ASSUME NEW p \in PVC, ChangePassword(p) PROVE Fine
    BY <1>2, <1>15 DEF ChangePassword
  <1>16. CASE Restart
    BY <1>1, <1>16, ZenonT(60) DEF Restart, IdleJob
  <1>17. CASE Reconcile
    BY <1>5, <1>6, <1>7, <1>8, <1>9, <1>10, <1>11, <1>12, <1>13, <1>17, ZenonT(60) DEF Reconcile
  <1>18. ASSUME NEW b \in Backup, DeliverBackup(b) \/ Resync(b) PROVE Fine
    BY <1>2, <1>18, ZenonT(60) DEF DeliverBackup, Resync
  <1>19. ASSUME NEW p \in PVC, DeliverSecret(p) \/ CollectGarbage(p) \/ ChangePVC(p) \/ RemoveAnnotation(p)
         PROVE  Fine
    BY <1>2, <1>19, ZenonT(60) DEF DeliverSecret, CollectGarbage, ChangePVC, RemoveAnnotation
  <1>20. ASSUME NEW r \in Repo, ServerStarts(r) \/ ServerStops(r) PROVE Fine
    BY <1>2, <1>20, ZenonT(60) DEF ServerStarts, ServerStops
  <1>21. ASSUME NEW r \in Repo, NEW mode \in Mode PROVE ~ChangeRepository(r, mode)
    BY ZenonT(60) DEF ChangeRepository, Reliable, Edit
  <1>22. late = {}
    BY ZenonT(60) DEF CleanupInv
  <1>23. CASE Environment
    BY <1>14, <1>15, <1>16, <1>18, <1>19, <1>20, <1>21, <1>22, <1>23, ZenonT(60) DEF Environment
  <1>24. CASE UNCHANGED vars
    BY <1>2, <1>24, ZenonT(60) DEF vars
  <1>. QED
    BY <1>17, <1>23, <1>24, ZenonT(60) DEF Next

\* ReleaseIsClean holds of every behaviour without exec timeouts, swallowed
\* failures and changes of a repository's mode: handleFinalizer lets a backup
\* with persisted credentials go only after DeleteUser took its user off.
THEOREM ReleaseIsCleaned ==
    ASSUME Reliable
    PROVE  Spec => ReleaseIsClean
  <1>1. Init => CleanupInv
    BY SMTT(60) DEF Init, CleanupInv, CredHeld, Cur, Current, IdleJob
  <1>2. TypeOK /\ FinalizerInv /\ CleanupInv /\ [Next]_vars => CleanupInv'
    <2> SUFFICES ASSUME TypeOK, FinalizerInv, CleanupInv, [Next]_vars PROVE CleanupInv'
      OBVIOUS
    <2>1. \A b \in Backup : CredHeld(Current(backup'[b]))
      BY CredWrites DEF CleanupInv
    <2>. QED
      BY <2>1, CleanupJob DEF CleanupInv, Cur
  <1>3. TypeOK /\ FinalizerInv /\ CleanupInv /\ [Next]_vars
            => [\A b \in Backup : Released(b) /\ Cur(b).cred /\ repos[Cur(b).repo] = "server"
                    => users[Cur(b).repo][Username(b, Cur(b).repo)] = Nil]_vars
    <2> SUFFICES ASSUME TypeOK, FinalizerInv, CleanupInv, [Next]_vars,
                        NEW b \in Backup, Cur(b) # Nil, Current(backup'[b]) = Nil, Cur(b).cred
                 PROVE  users[Cur(b).repo][Username(b, Cur(b).repo)] = Nil
      BY ZenonT(60) DEF Released, Cur
    <2>1. RemoveFinalizer /\ job.b = b /\ job.fresh
      BY CredWrites, ZenonT(60) DEF CleanupInv
    <2>2. job.pc = "dropFin"
      BY <2>1, ZenonT(60) DEF RemoveFinalizer
    <2>3. Cur(b) = job.obj
      <3>1. job.b \in Backup /\ job.pc \in Finalizing
        BY <2>1, <2>2, ZenonT(60) DEF Finalizing
      <3>2. backup[b] \in Streams(BackupVersion)
        BY ZenonT(60) DEF TypeOK, BackupVersion
      <3>. QED
        BY <2>1, <3>1, <3>2, StreamEnds, ZenonT(60) DEF FinalizerInv, Cur
    <2>. QED
      BY <2>1, <2>2, <2>3, ZenonT(60) DEF CleanupInv
  <1>. QED
    BY <1>1, <1>2, <1>3, FinalizerInit, TypeCorrect, FinalizerStep, PTL DEF Spec, ReleaseIsClean
-----------------------------------------------------------------------------
(***************************************************************************)
(* ImplementsLifecycle                                                     *)
(*                                                                         *)
(* Every write of the reconcile replaces the whole object by one made from *)
(* the copy it works on.  It maps to a step of BackupLifecycle because a   *)
(* copy that is still fresh agrees with the API server's object on all the *)
(* life of a backup depends on, and because the phase says where in its    *)
(* life the copy is.                                                       *)
(***************************************************************************)
\* Two versions at the same point of the life of a backup.
Agree(o, c) == o.deleting = c.deleting /\ o.fin = c.fin /\ o.cred = c.cred

FreshInv ==
    /\ job.pc = "addFin" => ~job.obj.deleting /\ ~job.obj.fin
    /\ job.pc \in Provisioning => ~job.obj.deleting
    /\ job.pc # "idle" /\ job.fresh => Cur(job.b) # Nil /\ Agree(Cur(job.b), job.obj)

\* No reconcile is in progress at first.
LEMMA FreshInit == Init => FreshInv
  BY DEF Init, FreshInv, IdleJob, Provisioning

\* A write to a backup moves that backup only, to where the version written is.
LEMMA LifeWrite ==
    ASSUME TypeOK, NEW b \in Backup, NEW v \in BackupVersion, WriteBackup(b, v)
    PROVE  /\ life' = [life EXCEPT ![b] = LifeOf(v)]
           /\ attended' = IF v # Nil /\ v.cred THEN attended \cup {b} ELSE attended \ {b}
           /\ Cur(b)' = v
           /\ \A x \in Backup \ {b} : Cur(x)' = Cur(x)
  <1>1. Cur(b)' = v /\ \A x \in Backup \ {b} : Cur(x)' = Cur(x)
    BY WriteBackupStep, ZenonT(60) DEF Cur
  <1>2. life' = [x \in Backup |-> LifeOf(Cur(x)')]
    BY DEF life, LifeOf
  <1>3. life' = [life EXCEPT ![b] = LifeOf(v)]
    BY <1>1, <1>2, ZenonT(60) DEF life
  <1>4. attended' = {x \in Backup : Cur(x)' # Nil /\ Cur(x)'.cred}
    BY DEF attended
  <1>5. attended' = IF v # Nil /\ v.cred THEN attended \cup {b} ELSE attended \ {b}
    <2>1. CASE v # Nil /\ v.cred
      BY <1>1, <1>4, <2>1, SMTT(60) DEF attended
    <2>2. CASE ~(v # Nil /\ v.cred)
      BY <1>1, <1>4, <2>2, SMTT(60) DEF attended
    <2>. QED
      BY <2>1, <2>2, ZenonT(60)
  <1>. QED
    BY <1>1, <1>3, <1>5

\* Nothing moves while the API server's objects stay as they are.
LEMMA LifeQuiet ==
    ASSUME \A x \in Backup : Cur(x)' = Cur(x)
    PROVE  UNCHANGED <<life, attended>>
  <1>1. life' = [x \in Backup |-> LifeOf(Cur(x)')] /\ attended' = {x \in Backup : Cur(x)' # Nil /\ Cur(x)'.cred}
    BY DEF life, LifeOf, attended
  <1>2. life' = life
    BY <1>1, ZenonT(60) DEF life
  <1>3. attended' = attended
    BY <1>1 DEF attended
  <1>. QED
    BY <1>2, <1>3

\* The step is one of BackupLifecycle, or none of its business.
Moves == Lifecycle!Next \/ UNCHANGED <<life, attended>>

\* Steps that write no backup and end the reconcile, or go on in the same
\* half of it with a copy at the same point of its life.
LEMMA QuietMove ==
    ASSUME FreshInv, UNCHANGED backup,
           \/ job' = IdleJob \/ job' = job
           \/ /\ job.pc # "idle"
              /\ job'.b = job.b /\ job'.fresh = job.fresh /\ Agree(job'.obj, job.obj)
              /\ job'.pc # "addFin" /\ (job'.pc \in Provisioning => job.pc \in Provisioning)
    PROVE  FreshInv' /\ Moves
  <1>1. \A x \in Backup : Cur(x)' = Cur(x)
    BY ZenonT(60) DEF Cur
  <1>2. job' = IdleJob => FreshInv'
    BY SMTT(60) DEF FreshInv, IdleJob, Provisioning
  <1>3. job' = job => FreshInv'
    BY ZenonT(60) DEF FreshInv, Cur
  <1>4. job' # IdleJob /\ job' # job => FreshInv'
    BY DEF FreshInv, Cur, Agree
  <1>. QED
    BY <1>1, <1>2, <1>3, <1>4, LifeQuiet DEF Moves

\* The status written ends the reconcile and moves nothing.
LEMMA StatusMove ==
    ASSUME TypeOK, FinalizerInv, FreshInv, job.pc \in Provisioning, job.fresh,
           NEW o \in BackupObj, Agree(o, job.obj), WriteBackup(job.b, o), job' = IdleJob
    PROVE  FreshInv' /\ Moves
  <1>1. job # IdleJob /\ job.pc # "idle" /\ job.b \in Backup /\ o \in BackupVersion /\ o # Nil
    BY JobTypes, NilAssumption, SMTT(60) DEF IdleJob, Provisioning, BackupVersion
  <1>2. Cur(job.b) # Nil /\ Agree(o, Cur(job.b))
    BY <1>1, ZenonT(60) DEF FreshInv, Agree
  <1>3. LifeOf(o) = LifeOf(Cur(job.b))
    BY <1>1, <1>2, ZenonT(60) DEF LifeOf, Agree
  <1>4. life' = [life EXCEPT ![job.b] = LifeOf(o)]
        /\ attended' = IF o # Nil /\ o.cred THEN attended \cup {job.b} ELSE attended \ {job.b}
    BY <1>1, LifeWrite, ZenonT(60)
  <1>5. life' = life
    BY <1>1, <1>3, <1>4, ZenonT(60) DEF life
  <1>6. attended' = attended
    BY <1>1, <1>2, <1>4, ZenonT(60) DEF attended, Agree
  <1>7. FreshInv'
    BY ZenonT(60) DEF FreshInv, IdleJob, Provisioning
  <1>. QED
    BY <1>5, <1>6, <1>7, ZenonT(60) DEF Moves

\* A write by another client outdates the copy the reconcile works on.
LEMMA ClientFresh ==
    ASSUME TypeOK, FreshInv, NEW b \in Backup, NEW v \in BackupVersion,
           WriteBackup(b, v), Invalidate(b)
    PROVE  FreshInv'
  <1>1. \A x \in Backup \ {b} : Cur(x)' = Cur(x)
    BY LifeWrite
  <1>2. /\ job'.pc = job.pc /\ job'.b = job.b /\ job'.obj = job.obj
        /\ job.b = b => ~job'.fresh
        /\ job.b # b => job' = job
    BY DEF Invalidate, TypeOK, Job, IdleJob
  <1>3. job.pc # "idle" => job.b \in Backup
    BY JobTypes DEF IdleJob
  <1>4. job'.pc # "idle" /\ job'.fresh => job'.b \in Backup \ {b} /\ job' = job
    BY <1>2, <1>3
  <1>. QED
    BY <1>1, <1>2, <1>4, ZenonT(60) DEF FreshInv, Cur

\* FreshInv is inductive, and every step moves the lives as it may.
LEMMA LifecycleStep == TypeOK /\ FinalizerInv /\ FreshInv /\ [Next]_vars => FreshInv' /\ Moves
  <1> SUFFICES ASSUME TypeOK, FinalizerInv, FreshInv, [Next]_vars PROVE FreshInv' /\ Moves
    OBVIOUS
  <1> USE DEF Done, Retry, Goto, Conflict, ApiFault, apiVars, envVars, opVars
  <1>0. \A x : Agree(x, x)
    BY DEF Agree
  <1>1. ASSUME NEW b \in Backup, StartReconcile(b) PROVE FreshInv' /\ Moves
    <2> DEFINE o == Cached(backup[b])
    <2>1. backup[b] \in Streams(BackupVersion) /\ o \in BackupVersion /\ backup' = backup
      BY <1>1, StreamEnds, ZenonT(60) DEF TypeOK, BackupVersion, StartReconcile
    <2>2. UNCHANGED <<life, attended>>
      BY <2>1, LifeQuiet DEF Cur
    <2>3. CASE job' = IdleJob
      BY <2>3, <2>1, QuietMove
    <2>4. CASE /\ o # Nil /\ (o.deleting => o.fin)
               /\ job' = [IdleJob EXCEPT !.pc = FirstPhase(o), !.b = b, !.obj = o,
                                         !.fresh = CaughtUp(backup[b])]
      <3>1. /\ job'.pc = FirstPhase(o) /\ job'.b = b /\ job'.obj = o
            /\ job'.fresh = CaughtUp(backup[b])
        BY <2>4 DEF IdleJob
      <3>2. /\ FirstPhase(o) = "addFin" => ~o.deleting /\ ~o.fin
            /\ FirstPhase(o) \in Provisioning => ~o.deleting
        BY <2>1, <2>4, ZenonT(60) DEF FirstPhase, Provisioning, BackupVersion, BackupObj
      <3>3. CaughtUp(backup[b]) => Cur(b)' = o
        BY <2>1, StreamCaughtUp, ZenonT(60) DEF Cur
      <3>4. FreshInv'
        <4> HIDE DEF o
        <4>. QED
          BY <1>0, <2>4, <3>1, <3>2, <3>3, ZenonT(60) DEF FreshInv, Cur
      <3>. QED
        BY <2>2, <3>4 DEF Moves
    <2>. QED
      BY <1>1, <2>3, <2>4, ZenonT(60) DEF StartReconcile
  <1>2. CASE AddFinalizer
    <2>1. job # IdleJob /\ job.pc = "addFin" /\ job.b \in Backup /\ job.obj \in BackupObj /\ job \in Job
      BY <1>2, JobTypes, SMTT(60) DEF AddFinalizer, IdleJob
    <2> DEFINE o == [job.obj EXCEPT !.fin = TRUE]
    <2>2. CASE job.fresh /\ WriteBackup(job.b, o) /\ job' = [job EXCEPT !.pc = "validate", !.obj = o]
      <3>1. /\ o \in BackupVersion /\ o # Nil /\ o.fin /\ ~o.deleting /\ o.cred = job.obj.cred
            /\ job'.b = job.b /\ job'.pc = "validate" /\ job'.obj = o
        <4>1. ~job.obj.deleting
          BY <2>1 DEF FreshInv
        <4>2. o \in BackupObj /\ o.fin /\ ~o.deleting /\ o.cred = job.obj.cred
          BY <2>1, <4>1, ZenonT(60) DEF BackupObj
        <4>3. o \in BackupVersion /\ o # Nil
          BY <4>2, NilAssumption, ZenonT(60) DEF BackupVersion
        <4>4. job'.b = job.b /\ job'.pc = "validate" /\ job'.obj = o
          BY <2>1, <2>2, ZenonT(60) DEF Job
        <4>. QED
          BY <4>2, <4>3, <4>4
      <3>2. Cur(job.b) # Nil /\ ~Cur(job.b).deleting /\ ~Cur(job.b).fin /\ Cur(job.b).cred = o.cred
        BY <2>1, <2>2, <3>1, ZenonT(60) DEF FreshInv, Agree
      <3>3. LifeOf(o) = "held" /\ LifeOf(Cur(job.b)) = "bare"
        BY <3>1, <3>2, ZenonT(60) DEF LifeOf
      <3> HIDE DEF o
      <3>4. /\ life' = [life EXCEPT ![job.b] = "held"]
            /\ attended' = IF o # Nil /\ o.cred THEN attended \cup {job.b} ELSE attended \ {job.b}
            /\ Cur(job.b)' = o
        BY <2>1, <2>2, <3>1, <3>3, LifeWrite, ZenonT(60)
      <3>5. attended' = attended
        BY <2>1, <3>1, <3>2, <3>4, ZenonT(60) DEF attended
      <3>6. life[job.b] = "bare"
        BY <2>1, <3>3 DEF life
      <3>7. Moves
        BY <2>1, <3>4, <3>5, <3>6, ZenonT(60) DEF Moves, Lifecycle!Next, Lifecycle!Hold, Lifecycle!Becomes
      <3>8. FreshInv'
        BY <1>0, <3>1, <3>4, ZenonT(60) DEF FreshInv, Cur
      <3>. QED
        BY <3>7, <3>8
    <2>3. CASE UNCHANGED backup /\ job' = IdleJob
      BY <2>3, QuietMove
    <2>. QED
      BY <1>2, <2>2, <2>3, ZenonT(60) DEF AddFinalizer
  <1>3. CASE PersistCredentialsSecret
    <2>1. /\ job # IdleJob /\ job.pc \in Provisioning /\ job.pc # "idle" /\ job.b \in Backup
          /\ job.obj \in BackupObj /\ job \in Job
      BY <1>3, JobTypes DEF PersistCredentialsSecret, IdleJob, Provisioning
    <2> DEFINE o == [job.obj EXCEPT !.cred = TRUE]
               d == [o EXCEPT !.connected = TRUE]
               C == job' = [job EXCEPT !.pc = "resources", !.obj = d]
    <2>2. /\ o \in BackupObj /\ o # Nil /\ o.fin /\ ~o.deleting /\ o.cred
          /\ Agree(d, o)
          /\ job.obj.cred => Agree(d, job.obj)
      BY <2>1, NilAssumption, ZenonT(60) DEF BackupObj, FinalizerInv, FreshInv, Agree
    <2>3. C => /\ job'.b = job.b /\ job'.fresh = job.fresh /\ job'.pc = "resources"
               /\ job'.obj = d
      <3> HIDE DEF d
      <3>. QED
        BY <2>1 DEF Job
    <2> HIDE DEF o, d, C
    <2>4. CASE job.fresh /\ WriteBackup(job.b, o) /\ C
      <3>1. Cur(job.b) # Nil /\ ~Cur(job.b).deleting /\ Cur(job.b).fin
        BY <2>1, <2>4, ZenonT(60) DEF FreshInv, FinalizerInv, Agree
      <3>2. LifeOf(o) = "held" /\ LifeOf(Cur(job.b)) = "held" /\ o \in BackupVersion
        BY <2>2, <3>1, ZenonT(60) DEF LifeOf, BackupVersion
      <3>3. /\ life' = [life EXCEPT ![job.b] = "held"]
            /\ attended' = IF o # Nil /\ o.cred THEN attended \cup {job.b} ELSE attended \ {job.b}
            /\ Cur(job.b)' = o
        BY <2>1, <2>3, <2>4, <3>2, LifeWrite, ZenonT(60)
      <3>4. life[job.b] = "held" /\ life' = life
        BY <2>1, <3>2, <3>3, ZenonT(60) DEF life
      <3>5. Moves
        BY <2>1, <2>2, <3>3, <3>4 DEF Moves, Lifecycle!Next, Lifecycle!Attend
      <3>6. FreshInv'
        <4>1. job'.pc = "resources" /\ ~job'.obj.deleting /\ Cur(job.b)' # Nil /\ Agree(Cur(job.b)', job'.obj)
          BY <2>2, <2>3, <2>4, <3>3, ZenonT(60) DEF Agree
        <4>. QED
          BY <4>1, ZenonT(60) DEF FreshInv, Cur
      <3>. QED
        BY <3>5, <3>6
    <2>5. CASE backup' = backup /\ ((job.obj.cred /\ C) \/ job' = IdleJob)
      BY <2>1, <2>2, <2>3, <2>5, QuietMove, ZenonT(60)
    <2> USE DEF o, d, C
    <2>. QED
      BY <1>3, <2>4, <2>5, ZenonT(60) DEF PersistCredentialsSecret
  <1>4. CASE ReconcileBackupResources \/ ReportInvalid
    <2>1. job.pc \in Provisioning /\ job.obj \in BackupObj
      BY <1>4, JobTypes DEF ReconcileBackupResources, ReportInvalid, IdleJob, Provisioning
    <2>2. /\ [job.obj EXCEPT !.ready = "UpToDate"] \in BackupObj
          /\ Agree([job.obj EXCEPT !.ready = "UpToDate"], job.obj)
      BY <2>1 DEF BackupObj, Reason, Agree
    <2>3. ASSUME NEW o \in BackupObj, Agree(o, job.obj), UpdateStatus(o), job' = IdleJob
          PROVE  FreshInv' /\ Moves
      BY <2>1, <2>3, StatusMove DEF UpdateStatus
    <2>4. CASE UpdateStatusFailed
      BY <2>4, QuietMove, ZenonT(60) DEF UpdateStatusFailed
    <2>. QED
      BY <1>0, <1>4, <2>1, <2>2, <2>3, <2>4, ZenonT(60) DEF ReconcileBackupResources, ReportInvalid
  <1>5. CASE RemoveFinalizer
    <2>1. job.pc \in Finalizing /\ job.pc # "idle" /\ job.b \in Backup
      BY <1>5, JobTypes, SMTT(60) DEF RemoveFinalizer, IdleJob, Finalizing
    <2>2. CASE job.fresh /\ WriteBackup(job.b, Nil) /\ Done
      <3>1. LifeOf(Cur(job.b)) = "terminating" /\ LifeOf(Nil) = "absent" /\ Nil \in BackupVersion
        BY <2>1, <2>2, ZenonT(60) DEF FreshInv, FinalizerInv, Agree, LifeOf, BackupVersion
      <3>2. life' = [life EXCEPT ![job.b] = "absent"] /\ attended' = attended \ {job.b}
        BY <2>1, <2>2, <3>1, LifeWrite, ZenonT(60)
      <3>3. life[job.b] = "terminating"
        BY <2>1, <3>1 DEF life
      <3>4. Moves
        BY <2>1, <3>2, <3>3, ZenonT(60) DEF Moves, Lifecycle!Next, Lifecycle!Release, Lifecycle!Becomes
      <3>. QED
        BY <2>2, <3>4, ZenonT(60) DEF FreshInv, IdleJob, Provisioning
    <2>. QED
      BY <1>5, <2>2, QuietMove, ZenonT(60) DEF RemoveFinalizer
  <1>6. CASE ValidateDependencies
    <2>1. job \in Job /\ job.obj \in BackupObj /\ job.pc \in Provisioning /\ job.pc # "idle" /\ backup' = backup
      BY <1>6, JobTypes, SMTT(60) DEF ValidateDependencies, IdleJob, Provisioning
    <2>2. \/ job' = IdleJob
          \/ /\ job'.b = job.b /\ job'.fresh = job.fresh /\ job'.pc # "addFin"
             /\ Agree(job'.obj, job.obj)
      <3>1. CASE job' = [job EXCEPT !.pc = "invalid", !.obj.ready = "NotFound"]
        BY <2>1, <3>1, ZenonT(60) DEF Job, BackupObj, Agree
      <3>2. CASE Goto("resources") \/ Retry
        BY <1>0, <2>1, <3>2, ZenonT(60) DEF Job
      <3>3. ASSUME NEW phase \in {"createSecret", "persist", "setUser"}, NEW c,
                   job' = [job EXCEPT !.pc = phase, !.repo = job.obj.repo, !.creds = c]
            PROVE  /\ job'.b = job.b /\ job'.fresh = job.fresh /\ job'.pc # "addFin"
                   /\ Agree(job'.obj, job.obj)
        BY <1>0, <2>1, <3>3, ZenonT(60) DEF Job
      <3>. QED
        BY <1>6, <3>1, <3>2, <3>3, ZenonT(60) DEF ValidateDependencies
    <2>. QED
      BY <2>1, <2>2, QuietMove, ZenonT(60)
  <1>7. CASE CreateSecret \/ CreateUserOnServer \/ RollbackSecret \/ MarkUserSynced
    <2>1. job \in Job /\ job.pc \in Provisioning /\ job.pc # "idle" /\ backup' = backup
      <3>1. job.pc \in {"createSecret", "setUser", "rollback", "mark"}
        BY <1>7, ZenonT(60) DEF CreateSecret, CreateUserOnServer, RollbackSecret, MarkUserSynced
      <3>2. backup' = backup
        BY <1>7, ZenonT(60)
        DEF CreateSecret, CreateUserOnServer, RollbackSecret, MarkUserSynced, ApiFault, apiVars
      <3>. QED
        BY <3>1, <3>2, JobTypes, SMTT(60) DEF IdleJob, Provisioning
    <2>2. \/ job' = IdleJob
          \/ /\ job'.b = job.b /\ job'.fresh = job.fresh /\ job'.obj = job.obj
             /\ job'.pc \in {"setUser", "rollback", "mark", "persist"}
      BY <1>7, <2>1, ZenonT(60)
      DEF CreateSecret, CreateUserOnServer, RollbackSecret, MarkUserSynced, SetUserFailed, Job
    <2>. QED
      BY <1>0, <2>1, <2>2, QuietMove, ZenonT(60)
  <1>8. CASE LookupForCleanup \/ DeleteUserFromServer \/ DeleteSecret
    <2>1. job \in Job /\ job.pc \in Finalizing /\ job.pc # "idle" /\ backup' = backup
      BY <1>8, JobTypes DEF LookupForCleanup, DeleteUserFromServer, DeleteSecret, IdleJob, Finalizing
    <2>2. \/ job' = IdleJob
          \/ /\ job'.b = job.b /\ job'.fresh = job.fresh /\ job'.pc \in {"delUser", "delSecret", "dropFin"}
             /\ job'.obj = job.obj
      BY <1>8, <2>1, ZenonT(60) DEF LookupForCleanup, DeleteUserFromServer, DeleteSecret, Job
    <2>. QED
      BY <1>0, <2>1, <2>2, QuietMove, ZenonT(60) DEF Provisioning
  <1>9. ASSUME NEW b \in Backup, DeliverBackup(b) PROVE FreshInv' /\ Moves
    <2>1. job' = job /\ \A x \in Backup : Cur(x)' = Cur(x)
      BY <1>9, DeliverBackupStep, ZenonT(60) DEF DeliverBackup, Cur
    <2>2. job.pc # "idle" => job.b \in Backup
      BY JobTypes, SMTT(60) DEF IdleJob
    <2>3. FreshInv'
      BY <2>1, <2>2, ZenonT(60) DEF FreshInv, Cur
    <2>. QED
      BY <2>1, <2>3, LifeQuiet DEF Moves
  <1>10. ASSUME NEW b \in Backup, NEW r \in Repo, CreateBackup(b, r) PROVE FreshInv' /\ Moves
    <2>0. NewBackup(r) \in BackupObj
      BY DEF NewBackup, BackupObj, Reason
    <2>1. NewBackup(r) \in BackupVersion /\ NewBackup(r) # Nil
      BY <2>0, NilAssumption, ZenonT(60) DEF BackupVersion
    <2>2. LifeOf(NewBackup(r)) = "bare" /\ ~NewBackup(r).cred /\ life[b] = "absent" /\ b \notin attended
      BY <1>10, <2>1, ZenonT(60) DEF CreateBackup, NewBackup, LifeOf, life, attended
    <2>3. /\ life' = [life EXCEPT ![b] = "bare"]
          /\ attended' = attended \ {b}
      BY <1>10, <2>1, <2>2, LifeWrite, ZenonT(60) DEF CreateBackup
    <2>4. attended' = attended
      BY <2>2, <2>3
    <2>5. Moves
      BY <2>2, <2>3, <2>4, ZenonT(60) DEF Moves, Lifecycle!Next, Lifecycle!Create, Lifecycle!Becomes
    <2>. QED
      BY <1>10, <2>1, <2>5, ClientFresh, ZenonT(60) DEF CreateBackup
  <1>11. ASSUME NEW b \in Backup, DeleteBackup(b) PROVE FreshInv' /\ Moves
    <2> DEFINE v == [Cur(b) EXCEPT !.deleting = TRUE]
    <2>1. Cur(b) \in BackupObj /\ Cur(b) # Nil /\ ~Cur(b).deleting
      BY <1>11, ReadTypes, ZenonT(60) DEF DeleteBackup, BackupVersion
    <2>2. v \in BackupVersion /\ v # Nil /\ v.deleting /\ v.cred = Cur(b).cred
      BY <2>1, NilAssumption, ZenonT(60) DEF BackupObj, BackupVersion
    <2>3. CASE Cur(b).fin /\ WriteBackup(b, v)
      <3>1. LifeOf(v) = "terminating" /\ life[b] = "held"
        BY <2>1, <2>2, <2>3, ZenonT(60) DEF LifeOf, life
      <3> HIDE DEF v
      <3>2. life' = [life EXCEPT ![b] = "terminating"]
            /\ attended' = IF v # Nil /\ v.cred THEN attended \cup {b} ELSE attended \ {b}
        BY <2>2, <2>3, <3>1, LifeWrite, ZenonT(60)
      <3>3. attended' = attended
        BY <2>1, <2>2, <3>2, ZenonT(60) DEF attended
      <3>4. Moves
        BY <3>1, <3>2, <3>3, ZenonT(60) DEF Moves, Lifecycle!Next, Lifecycle!Delete, Lifecycle!Becomes
      <3>. QED
        BY <1>11, <2>2, <2>3, <3>4, ClientFresh, ZenonT(60) DEF DeleteBackup
    <2>4. CASE ~Cur(b).fin /\ WriteBackup(b, Nil)
      <3>1. LifeOf(Nil) = "absent" /\ life[b] = "bare" /\ Nil \in BackupVersion
        BY <2>1, <2>4 DEF LifeOf, life, BackupVersion
      <3>2. life' = [life EXCEPT ![b] = "absent"] /\ attended' = attended \ {b}
        BY <2>4, <3>1, LifeWrite, ZenonT(60)
      <3>. QED
        BY <1>11, <2>4, <3>1, <3>2, ClientFresh, ZenonT(60) DEF DeleteBackup, Moves, Lifecycle!Next, Lifecycle!Delete, Lifecycle!Becomes
    <2>. QED
      BY <1>11, <2>3, <2>4, ZenonT(60) DEF DeleteBackup
  <1>12. ASSUME NEW b \in Backup, NEW r \in Repo, SwitchRepository(b, r) PROVE FreshInv' /\ Moves
    <2> DEFINE v == [Cur(b) EXCEPT !.repo = r]
    <2>1. Cur(b) \in BackupObj /\ Cur(b) # Nil
      BY <1>12, ReadTypes DEF SwitchRepository, BackupVersion
    <2>2. v \in BackupVersion /\ v # Nil /\ Agree(v, Cur(b))
      BY <2>1, NilAssumption DEF BackupObj, BackupVersion, Agree
    <2> HIDE DEF v
    <2>3. WriteBackup(b, v) /\ Invalidate(b)
      BY <1>12, ZenonT(60) DEF SwitchRepository, v
    <2>4. LifeOf(v) = LifeOf(Cur(b))
      BY <2>1, <2>2 DEF LifeOf, Agree
    <2>5. life' = [life EXCEPT ![b] = LifeOf(v)]
          /\ attended' = IF v # Nil /\ v.cred THEN attended \cup {b} ELSE attended \ {b}
      BY <2>2, <2>3, LifeWrite, ZenonT(60)
    <2>6. life' = life
      BY <2>4, <2>5, ZenonT(60) DEF life
    <2>7. attended' = attended
      BY <2>1, <2>2, <2>5, ZenonT(60) DEF attended, Agree
    <2>. QED
      BY <2>2, <2>3, <2>6, <2>7, ClientFresh DEF Moves
  <1>13. ASSUME UNCHANGED backup, UNCHANGED job PROVE FreshInv' /\ Moves
    BY <1>13, QuietMove
  <1>14. CASE Restart
    BY <1>14, QuietMove DEF Restart
  <1>15. CASE Reconcile
    BY <1>1, <1>2, <1>3, <1>4, <1>5, <1>6, <1>7, <1>8, <1>15, ZenonT(60) DEF Reconcile
  <1>16. CASE Environment
    BY <1>9, <1>10, <1>11, <1>12, <1>13, <1>14, <1>16, ZenonT(60)
    DEF Environment, Resync, DeliverSecret, CollectGarbage, ChangePVC, RemoveAnnotation, ChangePassword,
        ServerStarts, ServerStops, ChangeRepository, Land
  <1>17. CASE UNCHANGED vars
    BY <1>13, <1>17 DEF vars
  <1>. QED
    BY <1>15, <1>16, <1>17, ZenonT(60) DEF Next

\* ImplementsLifecycle, for every number of backups, faults and edits:
\* whatever the reconciler reads and whenever it writes, to everyone else
\* every KopiaBackup goes through the life BackupLifecycle describes.
THEOREM LifecycleImplemented == Spec => ImplementsLifecycle
  <1>1. Init => Lifecycle!Init
    <2> SUFFICES ASSUME Init PROVE Lifecycle!Init
      OBVIOUS
    <2>1. \A b \in Backup : Cur(b) = Nil
      BY DEF Init, Cur, Current
    <2>. QED
      BY <2>1 DEF Lifecycle!Init, life, attended, LifeOf
  <1>2. Spec => [](TypeOK /\ FinalizerInv /\ FreshInv)
    BY FinalizerInit, FreshInit, TypeCorrect, FinalizerStep, LifecycleStep, PTL DEF Spec
  <1>3. TypeOK /\ FinalizerInv /\ FreshInv /\ [Next]_vars => [Lifecycle!Next]_(Lifecycle!vars)
    BY LifecycleStep, ZenonT(60) DEF Moves, Lifecycle!vars
  <1>. QED
    BY <1>1, <1>2, <1>3, PTL DEF Spec, ImplementsLifecycle, Lifecycle!Spec
-----------------------------------------------------------------------------
(***************************************************************************)
(* What the finalizer protects, for the proofs about the Secrets.          *)
(*                                                                         *)
(*   BackInv    a provisioning reconcile works for the repository the      *)
(*              backup has, and a finalizing one on a backup that goes;    *)
(*   OwnInv     a Secret that is not left to the collector has a backup    *)
(*              with the finalizer.                                        *)
(***************************************************************************)
\* What the stream of a backup says of the object at the API server: a
\* deletion on its way has not been undone, and a live version with the
\* finalizer names the repository the backup still has.
StreamsLive ==
    \A b \in Backup : \A v \in Versions(backup[b]) :
        /\ v # Nil /\ v.deleting => ~LiveHeld(Cur(b))
        /\ LiveHeld(v) => v.repo = Cur(b).repo

\* With what the reconcile knows: a fresh copy is the only version there is, a
\* finalizing reconcile works on a backup that is not live, and a provisioning
\* one for the repository the backup has.
BackInv ==
    /\ StreamsLive
    /\ job.pc = "addFin" /\ job.fresh => Versions(backup[job.b]) \subseteq {job.obj}
    /\ job.pc \in Finalizing => ~LiveHeld(Cur(job.b))
    /\ job.pc \in Provisioning => job.obj.repo = Cur(job.b).repo

\* Nothing is there at first.
LEMMA BackInit == Init => BackInv
  BY SMTT(60) DEF Init, BackInv, StreamsLive, LiveHeld, Versions, IdleJob, Provisioning, Finalizing

\* A write of a version that undoes no deletion and changes no repository.
LEMMA LiveWrite ==
    ASSUME TypeOK, StreamsLive, NEW b \in Backup, NEW v \in BackupVersion, WriteBackup(b, v),
           LiveHeld(v) => \A x \in Versions(backup[b]) : ~(x # Nil /\ x.deleting),
           \A x \in Versions(backup[b]) : LiveHeld(x) => x.repo = v.repo
    PROVE  /\ StreamsLive'
           /\ Current(backup'[b]) = v
           /\ \A x \in Backup \ {b} : backup'[x] = backup[x] /\ Current(backup'[x]) = Cur(x)
  <1>1. /\ \A x \in Backup \ {b} : backup'[x] = backup[x]
        /\ Current(backup'[b]) = v
        /\ Versions(backup'[b]) \subseteq Versions(backup[b]) \cup {v}
    BY WriteBackupStep, ZenonT(60)
  <1>2. \A x \in Backup \ {b} : Current(backup'[x]) = Cur(x)
    BY <1>1 DEF Cur
  <1>3. ASSUME NEW x \in Backup, NEW y \in Versions(backup'[x])
        PROVE  /\ y # Nil /\ y.deleting => ~LiveHeld(Current(backup'[x]))
               /\ LiveHeld(y) => y.repo = Current(backup'[x]).repo
    <2>1. CASE x # b
      BY <1>1, <1>2, <1>3, <2>1, ZenonT(60) DEF StreamsLive
    <2>2. CASE x = b /\ y = v
      BY <1>1, <2>2, ZenonT(60) DEF LiveHeld
    <2>3. CASE x = b /\ y \in Versions(backup[b])
      BY <1>1, <2>3, ZenonT(60)
    <2>. QED
      BY <1>1, <1>3, <2>1, <2>2, <2>3, ZenonT(60)
  <1>4. StreamsLive'
    BY <1>3, ZenonT(60) DEF StreamsLive, Cur
  <1>. QED
    BY <1>1, <1>2, <1>4, ZenonT(60)

\* A step that leaves the backups alone and ends the reconcile, or goes on
\* in the same half of it for the same repository.
SameHalf ==
    /\ job'.b = job.b /\ job'.fresh = job.fresh /\ job'.obj.repo = job.obj.repo
    /\ \/ job.pc \in Provisioning /\ job'.pc \in Provisioning
       \/ job.pc \in Finalizing /\ job'.pc \in Finalizing

\* Such a step keeps BackInv.
LEMMA BackQuiet ==
    ASSUME TypeOK, BackInv, UNCHANGED backup, job' = IdleJob \/ SameHalf
    PROVE  BackInv'
  <1>1. StreamsLive'
    BY ZenonT(60) DEF BackInv, StreamsLive, Cur
  <1>2. CASE job' = IdleJob
    <2>1. job'.pc = "idle"
      BY <1>2, ZenonT(60) DEF IdleJob
    <2>2. "idle" \notin Provisioning \cup Finalizing \cup {"addFin"}
      BY ZenonT(60) DEF Provisioning, Finalizing
    <2>. QED
      BY <1>1, <2>1, <2>2, ZenonT(60) DEF BackInv
  <1>3. CASE SameHalf
    <2>1. Provisioning \cap Finalizing = {} /\ "addFin" \notin Provisioning \cup Finalizing
      BY DEF Provisioning, Finalizing
    <2>. QED
      BY <1>1, <1>3, <2>1, ZenonT(60) DEF BackInv, Cur, SameHalf
  <1>. QED
    BY <1>2, <1>3

\* The steps of the reconcile that write no backup.
LEMMA QuietShape ==
    ASSUME TypeOK,
           \/ ValidateDependencies \/ CreateSecret \/ CreateUserOnServer \/ RollbackSecret
           \/ MarkUserSynced \/ LookupForCleanup \/ DeleteUserFromServer \/ DeleteSecret
    PROVE  backup' = backup /\ (job' = IdleJob \/ SameHalf)
  <1> USE DEF Done, Retry, Goto, ApiFault, apiVars
  <1>1. CASE ValidateDependencies
    <2>1. job \in Job /\ job.obj \in BackupObj /\ job.pc \in Provisioning /\ backup' = backup
      BY <1>1, JobTypes, SMTT(60) DEF ValidateDependencies, IdleJob, Provisioning
    <2>2. CASE job' = [job EXCEPT !.pc = "invalid", !.obj.ready = "NotFound"]
      BY <2>1, <2>2, ZenonT(60) DEF Job, BackupObj, Provisioning, SameHalf
    <2>3. CASE Goto("resources") \/ Retry
      BY <2>1, <2>3, ZenonT(60) DEF Job, Provisioning, SameHalf
    <2>4. ASSUME NEW phase \in {"createSecret", "persist", "setUser"}, NEW c,
                 job' = [job EXCEPT !.pc = phase, !.repo = job.obj.repo, !.creds = c]
          PROVE  SameHalf
      BY <2>1, <2>4, ZenonT(60) DEF Job, Provisioning, SameHalf
    <2>. QED
      BY <1>1, <2>1, <2>2, <2>3, <2>4, ZenonT(60) DEF ValidateDependencies
  <1>2. CASE CreateSecret \/ CreateUserOnServer \/ RollbackSecret \/ MarkUserSynced
    <2>1. job.pc \in {"createSecret", "setUser", "rollback", "mark"}
      BY <1>2, ZenonT(60) DEF CreateSecret, CreateUserOnServer, RollbackSecret, MarkUserSynced
    <2>2. backup' = backup
      BY <1>2, ZenonT(60) DEF CreateSecret, CreateUserOnServer, RollbackSecret, MarkUserSynced
    <2>3. job \in Job /\ job.pc \in Provisioning
      BY <2>1, JobTypes, SMTT(60) DEF IdleJob, Provisioning
    <2>4. \/ job' = IdleJob
          \/ /\ job'.b = job.b /\ job'.fresh = job.fresh /\ job'.pc \in Provisioning
             /\ job'.obj = job.obj
      BY <1>2, <2>3, ZenonT(60)
      DEF CreateSecret, CreateUserOnServer, RollbackSecret, MarkUserSynced, SetUserFailed, Job, Provisioning
    <2>. QED
      BY <2>2, <2>3, <2>4, ZenonT(60) DEF SameHalf
  <1>3. CASE LookupForCleanup \/ DeleteUserFromServer \/ DeleteSecret
    <2>1. job.pc \in {"finalize", "delUser", "delSecret"}
      BY <1>3, ZenonT(60) DEF LookupForCleanup, DeleteUserFromServer, DeleteSecret
    <2>2. backup' = backup
      BY <1>3, ZenonT(60) DEF LookupForCleanup, DeleteUserFromServer, DeleteSecret
    <2>3. job \in Job /\ job.pc \in Finalizing
      BY <2>1, JobTypes, SMTT(60) DEF IdleJob, Finalizing
    <2>4. \/ job' = IdleJob
          \/ /\ job'.b = job.b /\ job'.fresh = job.fresh /\ job'.pc \in Finalizing
             /\ job'.obj = job.obj
      BY <1>3, <2>3, ZenonT(60) DEF LookupForCleanup, DeleteUserFromServer, DeleteSecret, Job, Finalizing
    <2>. QED
      BY <2>2, <2>3, <2>4, ZenonT(60) DEF SameHalf
  <1>. QED
    BY <1>1, <1>2, <1>3, ZenonT(60)

\* A backup that was held and is live after a step was live before it, with
\* the same repository.
RepoKept ==
    \A b \in Backup :
        /\ Held(Cur(b)) /\ Current(backup'[b]) # Nil /\ ~Current(backup'[b]).deleting
        => ~Cur(b).deleting /\ Current(backup'[b]).repo = Cur(b).repo

\* The reconcile writes a live object with the finalizer over the one its copy
\* was made from, and goes on or ends.
LEMMA LiveStep ==
    ASSUME TypeOK, FinalizerInv, FreshInv, BackInv, job.pc \in Provisioning, job.fresh,
           NEW o \in BackupObj, o.fin, ~o.deleting, o.repo = job.obj.repo, WriteBackup(job.b, o),
           \/ job' = IdleJob
           \/ job'.b = job.b /\ job'.pc \in Provisioning /\ job'.obj.repo = o.repo
    PROVE  BackInv' /\ RepoKept
  <1>1. job # IdleJob /\ job.pc # "idle"
    BY SMTT(60) DEF IdleJob, Provisioning
  <1>2. job.b \in Backup /\ o \in BackupVersion /\ o # Nil
    BY <1>1, JobTypes, NilAssumption, ZenonT(60) DEF BackupVersion
  <1>3. LiveHeld(Cur(job.b)) /\ o.repo = Cur(job.b).repo
    BY <1>1, ZenonT(60) DEF FinalizerInv, FreshInv, Agree, BackInv, LiveHeld, Held
  <1>4. \A x \in Versions(backup[job.b]) : ~(x # Nil /\ x.deleting) /\ (LiveHeld(x) => x.repo = o.repo)
    BY <1>2, <1>3, ZenonT(60) DEF BackInv, StreamsLive
  <1>5. /\ StreamsLive'
        /\ Current(backup'[job.b]) = o
        /\ \A x \in Backup \ {job.b} : Current(backup'[x]) = Cur(x)
    BY <1>2, <1>4, LiveWrite, ZenonT(60) DEF BackInv
  <1>6. CASE job' = IdleJob
    <2>1. BackInv'
      <3>1. job'.pc = "idle"
        BY <1>6, ZenonT(60) DEF IdleJob
      <3>2. "idle" \notin Provisioning \cup Finalizing \cup {"addFin"}
        BY ZenonT(60) DEF Provisioning, Finalizing
      <3>. QED
        BY <1>5, <3>1, <3>2, ZenonT(60) DEF BackInv
    <2>. QED
      BY <1>3, <1>5, <2>1, ZenonT(60) DEF RepoKept, LiveHeld
  <1>7. CASE job'.b = job.b /\ job'.pc \in Provisioning /\ job'.obj.repo = o.repo
    <2>1. job'.pc \notin Finalizing /\ job'.pc # "addFin"
      BY <1>7 DEF Provisioning, Finalizing
    <2>2. BackInv'
      BY <1>5, <1>7, <2>1, ZenonT(60) DEF BackInv, Cur
    <2>. QED
      BY <1>3, <1>5, <2>2, ZenonT(60) DEF RepoKept, LiveHeld
  <1>. QED
    BY <1>6, <1>7, ZenonT(60)

\* Another client creates a backup, or has it deleted.
LEMMA ClientBack ==
    ASSUME TypeOK, FinalizerInv, BackInv, NEW b \in Backup, NEW v \in BackupVersion,
           WriteBackup(b, v), Invalidate(b), ~LiveHeld(v),
           Held(Cur(b)) => v # Nil /\ v.deleting /\ v.repo = Cur(b).repo
    PROVE  BackInv' /\ RepoKept
  <1>1. \A x \in Versions(backup[b]) : LiveHeld(x) => x.repo = v.repo
    BY ZenonT(60) DEF FinalizerInv, StreamsHeld, BackInv, StreamsLive
  <1>2. /\ StreamsLive'
        /\ Current(backup'[b]) = v
        /\ \A x \in Backup \ {b} : backup'[x] = backup[x] /\ Current(backup'[x]) = Cur(x)
    BY <1>1, LiveWrite, ZenonT(60) DEF BackInv
  <1>3. /\ job'.pc = job.pc /\ job'.b = job.b /\ job'.obj = job.obj
        /\ job.b = b => ~job'.fresh
        /\ job.b # b => job' = job
    BY ZenonT(60) DEF Invalidate, TypeOK, Job, IdleJob
  <1>4. job.pc \in {"addFin"} \cup Provisioning \cup Finalizing => job.b \in Backup
    BY JobTypes, SMTT(60) DEF IdleJob, Provisioning, Finalizing
  <1>5. job'.pc = "addFin" /\ job'.fresh => Versions(backup'[job'.b]) \subseteq {job'.obj}
    BY <1>2, <1>3, <1>4, ZenonT(60) DEF BackInv
  <1>6. job'.pc \in Finalizing => ~LiveHeld(Current(backup'[job'.b]))
    BY <1>2, <1>3, <1>4, ZenonT(60) DEF BackInv
  <1>7. job'.pc \in Provisioning => job'.obj.repo = Current(backup'[job'.b]).repo
    BY <1>2, <1>3, <1>4, ZenonT(60) DEF BackInv, FinalizerInv
  <1>8. RepoKept
    BY <1>2, ZenonT(60) DEF RepoKept
  <1>. QED
    BY <1>2, <1>5, <1>6, <1>7, <1>8, ZenonT(60) DEF BackInv, Cur

\* BackInv is inductive as long as no backup changes its repository.
LEMMA BackStep ==
    ASSUME "switch" \notin Edits, TypeOK, FinalizerInv, FreshInv, BackInv, [Next]_vars
    PROVE  BackInv' /\ RepoKept
  <1> USE DEF Done, Retry, Goto, Conflict, ApiFault, apiVars, envVars, opVars
  <1>1. ASSUME UNCHANGED backup PROVE RepoKept
    BY <1>1, ZenonT(60) DEF RepoKept, Cur
  <1>2. ASSUME UNCHANGED backup, job' = IdleJob \/ SameHalf PROVE BackInv' /\ RepoKept
    BY <1>1, <1>2, BackQuiet, ZenonT(60)
  <1>3. ASSUME UNCHANGED backup, UNCHANGED job PROVE BackInv' /\ RepoKept
    BY <1>1, <1>3, ZenonT(60) DEF BackInv, StreamsLive, Cur
  <1>4. ASSUME NEW b \in Backup, StartReconcile(b) PROVE BackInv' /\ RepoKept
    <2> DEFINE o == Cached(backup[b])
    <2>1. backup[b] \in Streams(BackupVersion) /\ o \in BackupVersion /\ o \in Versions(backup[b])
      BY StreamEnds, ZenonT(60) DEF TypeOK, BackupVersion
    <2>2. StreamsLive' /\ backup' = backup
      BY <1>4, ZenonT(60) DEF StartReconcile, BackInv, StreamsLive, Cur
    <2>3. CASE job' = IdleJob
      BY <1>2, <2>2, <2>3, ZenonT(60)
    <2>4. CASE /\ o # Nil
               /\ job' = [IdleJob EXCEPT !.pc = FirstPhase(o), !.b = b, !.obj = o,
                                         !.fresh = CaughtUp(backup[b])]
      <3>1. /\ job'.pc = FirstPhase(o) /\ job'.b = b /\ job'.obj = o
            /\ job'.fresh = CaughtUp(backup[b])
        BY <2>4 DEF IdleJob
      <3>2. CASE o.deleting
        <4>1. FirstPhase(o) = "finalize"
          BY <3>2 DEF FirstPhase
        <4>2. ~LiveHeld(Cur(b))
          BY <2>1, <2>4, <3>2, ZenonT(60) DEF BackInv, StreamsLive
        <4>3. "finalize" \notin Provisioning
          BY DEF Provisioning
        <4>. QED
          BY <1>1, <2>2, <3>1, <4>1, <4>2, <4>3, ZenonT(60) DEF BackInv, Cur
      <3>3. CASE ~o.deleting /\ ~o.fin
        <4>1. FirstPhase(o) = "addFin"
          BY <3>3, ZenonT(60) DEF FirstPhase
        <4>2. CaughtUp(backup[b]) => Versions(backup[b]) \subseteq {o}
          BY <2>1, StreamCaughtUp, ZenonT(60)
        <4>3. "addFin" \notin Provisioning \cup Finalizing
          BY DEF Provisioning, Finalizing
        <4>. QED
          BY <1>1, <2>2, <3>1, <4>1, <4>2, <4>3, ZenonT(60) DEF BackInv
      <3>4. CASE ~o.deleting /\ o.fin
        <4>1. FirstPhase(o) = "validate"
          BY <3>4 DEF FirstPhase
        <4>2. o.repo = Cur(b).repo
          BY <2>1, <2>4, <3>4, ZenonT(60) DEF BackInv, StreamsLive, LiveHeld
        <4>3. "validate" \notin Finalizing
          BY DEF Finalizing
        <4>. QED
          BY <1>1, <2>2, <3>1, <4>1, <4>2, <4>3, ZenonT(60) DEF BackInv, Cur
      <3>. QED
        BY <3>2, <3>3, <3>4, ZenonT(60)
    <2>. QED
      BY <1>4, <2>3, <2>4, ZenonT(60) DEF StartReconcile
  <1>5. CASE AddFinalizer
    <2>1. job # IdleJob /\ job.pc = "addFin"
      BY <1>5 DEF AddFinalizer, IdleJob
    <2> DEFINE o == [job.obj EXCEPT !.fin = TRUE]
    <2>2. CASE job.fresh /\ WriteBackup(job.b, o) /\ job' = [job EXCEPT !.pc = "validate", !.obj = o]
      <3>1. job \in Job /\ job.b \in Backup /\ job.obj \in BackupObj
        BY <2>1, JobTypes, ZenonT(60)
      <3>2. /\ o \in BackupObj /\ o.repo = job.obj.repo
            /\ job'.b = job.b /\ job'.pc = "validate" /\ job'.obj = o
        BY <2>2, <3>1, ZenonT(60) DEF BackupObj, Job
      <3>3. ~job.obj.deleting /\ ~job.obj.fin /\ Versions(backup[job.b]) \subseteq {job.obj}
        BY <2>1, <2>2, ZenonT(60) DEF FreshInv, BackInv
      <3>4. \A x \in Versions(backup[job.b]) : ~x.deleting /\ ~LiveHeld(x)
        BY <3>3, ZenonT(60) DEF LiveHeld
      <3>5. o \in BackupVersion
        BY <3>2, ZenonT(60) DEF BackupVersion
      <3> HIDE DEF o
      <3>6. /\ StreamsLive'
            /\ Current(backup'[job.b]) = o
            /\ \A x \in Backup \ {job.b} : Current(backup'[x]) = Cur(x)
        BY <2>2, <3>1, <3>4, <3>5, LiveWrite, ZenonT(60) DEF BackInv
      <3>7. "validate" \notin Finalizing
        BY DEF Finalizing
      <3>8. ~Held(Cur(job.b))
        BY <2>1, <2>2, <3>3, ZenonT(60) DEF FreshInv, Agree, Held
      <3>9. RepoKept
        BY <3>6, <3>8, ZenonT(60) DEF RepoKept, Held
      <3>. QED
        BY <3>2, <3>6, <3>7, <3>9, ZenonT(60) DEF BackInv, Cur
    <2>. QED
      BY <1>2, <1>5, <2>2, ZenonT(60) DEF AddFinalizer
  <1>6. CASE PersistCredentialsSecret
    <2>1. job.pc \in Provisioning /\ job # IdleJob
      BY <1>6, SMTT(60) DEF PersistCredentialsSecret, IdleJob, Provisioning
    <2>2. job.obj \in BackupObj /\ job \in Job /\ job.obj.fin /\ ~job.obj.deleting
      BY <2>1, JobTypes, ZenonT(60) DEF FinalizerInv, FreshInv
    <2> DEFINE o == [job.obj EXCEPT !.cred = TRUE]
               d == [o EXCEPT !.connected = TRUE]
               C == job' = [job EXCEPT !.pc = "resources", !.obj = d]
    <2>3. o \in BackupObj /\ o.fin /\ ~o.deleting /\ o.repo = job.obj.repo /\ d.repo = o.repo
      BY <2>2, ZenonT(60) DEF BackupObj
    <2>4. C => /\ job'.b = job.b /\ job'.fresh = job.fresh /\ job'.pc \in Provisioning
               /\ job'.obj = d
      <3> HIDE DEF d
      <3>. QED
        BY <2>2, ZenonT(60) DEF Job, Provisioning
    <2>5. CASE job.fresh /\ WriteBackup(job.b, o) /\ C
      <3> HIDE DEF o, C, d
      <3>. QED
        BY <2>1, <2>3, <2>4, <2>5, LiveStep, ZenonT(60)
    <2>6. CASE backup' = backup /\ (C \/ job' = IdleJob)
      <3> HIDE DEF o, C, d
      <3>. QED
        BY <1>2, <2>1, <2>3, <2>4, <2>6, ZenonT(60) DEF SameHalf
    <2>. QED
      BY <1>6, <2>5, <2>6, ZenonT(60) DEF PersistCredentialsSecret
  <1>7. CASE ReconcileBackupResources \/ ReportInvalid
    <2>1. job.pc \in Provisioning /\ job # IdleJob
      BY <1>7 DEF ReconcileBackupResources, ReportInvalid, IdleJob, Provisioning
    <2>2. job.obj \in BackupObj /\ job.obj.fin /\ ~job.obj.deleting
      BY <2>1, JobTypes, ZenonT(60) DEF FinalizerInv, FreshInv
    <2> DEFINE u == [job.obj EXCEPT !.ready = "UpToDate"]
    <2>3. u \in BackupObj /\ u.fin /\ ~u.deleting /\ u.repo = job.obj.repo
      BY <2>2, ZenonT(60) DEF BackupObj, Reason
    <2>4. ASSUME NEW o \in BackupObj, o.fin, ~o.deleting, o.repo = job.obj.repo, UpdateStatus(o), job' = IdleJob
          PROVE  BackInv' /\ RepoKept
      BY <2>1, <2>4, LiveStep, ZenonT(60) DEF UpdateStatus
    <2>5. CASE UpdateStatusFailed
      BY <1>2, <2>5, ZenonT(60) DEF UpdateStatusFailed
    <2>. QED
      BY <1>7, <2>2, <2>3, <2>4, <2>5, ZenonT(60) DEF ReconcileBackupResources, ReportInvalid
  <1>8. CASE RemoveFinalizer
    <2>1. job # IdleJob /\ job.pc \in Finalizing
      BY <1>8, SMTT(60) DEF RemoveFinalizer, IdleJob, Finalizing
    <2>2. CASE job.fresh /\ WriteBackup(job.b, Nil) /\ Done
      <3>1. job.b \in Backup /\ Nil \in BackupVersion /\ ~LiveHeld(Nil)
        BY <2>1, JobTypes, ZenonT(60) DEF BackupVersion, LiveHeld
      <3>2. \A x \in Versions(backup[job.b]) : ~LiveHeld(x)
        BY <2>1, <2>2, ZenonT(60) DEF FinalizerInv, LiveHeld
      <3>3. /\ StreamsLive'
            /\ Current(backup'[job.b]) = Nil
            /\ \A x \in Backup \ {job.b} : Current(backup'[x]) = Cur(x)
        BY <2>2, <3>1, <3>2, LiveWrite, ZenonT(60) DEF BackInv
      <3>4. RepoKept
        BY <3>3, ZenonT(60) DEF RepoKept
      <3>5. job'.pc = "idle"
        BY <2>2, ZenonT(60) DEF IdleJob
      <3>6. "idle" \notin {"addFin"} \cup Provisioning \cup Finalizing
        BY DEF Provisioning, Finalizing
      <3>. QED
        BY <3>3, <3>4, <3>5, <3>6, ZenonT(60) DEF BackInv
    <2>. QED
      BY <1>2, <1>8, <2>2, ZenonT(60) DEF RemoveFinalizer
  <1>9. ASSUME NEW b \in Backup, DeliverBackup(b) PROVE BackInv' /\ RepoKept
    <2>1. /\ job' = job
          /\ \A x \in Backup : /\ Current(backup'[x]) = Current(backup[x])
                               /\ Versions(backup'[x]) \subseteq Versions(backup[x])
      BY <1>9, DeliverBackupStep, ZenonT(60) DEF DeliverBackup
    <2>2. StreamsLive' /\ RepoKept
      BY <2>1, ZenonT(60) DEF BackInv, StreamsLive, Cur, RepoKept
    <2>3. job.pc \in {"addFin"} \cup Provisioning \cup Finalizing => job.b \in Backup
      BY JobTypes, SMTT(60) DEF IdleJob, Provisioning, Finalizing
    <2>. QED
      BY <2>1, <2>2, <2>3, ZenonT(60) DEF BackInv, Cur
  <1>10. ASSUME NEW b \in Backup, NEW r \in Repo, CreateBackup(b, r) PROVE BackInv' /\ RepoKept
    <2>1. NewBackup(r) \in BackupVersion /\ ~LiveHeld(NewBackup(r))
      BY DEF NewBackup, LiveHeld, BackupVersion, BackupObj, Reason
    <2>2. ~Held(Cur(b)) /\ WriteBackup(b, NewBackup(r)) /\ Invalidate(b)
      BY <1>10, ZenonT(60) DEF CreateBackup, Held
    <2>. QED
      BY <2>1, <2>2, ClientBack, ZenonT(60)
  <1>11. ASSUME NEW b \in Backup, DeleteBackup(b) PROVE BackInv' /\ RepoKept
    <2> DEFINE v == [Cur(b) EXCEPT !.deleting = TRUE]
    <2>1. Cur(b) \in BackupObj /\ Invalidate(b)
      BY <1>11, ReadTypes, ZenonT(60) DEF DeleteBackup, BackupVersion
    <2>2. v \in BackupObj /\ v.deleting /\ v.repo = Cur(b).repo /\ v # Nil
      BY <2>1, NilAssumption, ZenonT(60) DEF BackupObj
    <2>3. CASE WriteBackup(b, v)
      <3>1. v \in BackupVersion /\ ~LiveHeld(v)
        BY <2>2, ZenonT(60) DEF BackupVersion, LiveHeld
      <3> HIDE DEF v
      <3>. QED
        BY <2>1, <2>2, <2>3, <3>1, ClientBack, ZenonT(60)
    <2>4. CASE ~Cur(b).fin /\ WriteBackup(b, Nil)
      BY <2>1, <2>4, ClientBack, ZenonT(60) DEF Held, LiveHeld, BackupVersion
    <2>. QED
      BY <1>11, <2>3, <2>4, ZenonT(60) DEF DeleteBackup
  <1>12. ASSUME NEW b \in Backup, NEW r \in Repo PROVE ~SwitchRepository(b, r)
    BY ZenonT(60) DEF SwitchRepository, Edit
  <1>13. CASE Restart
    BY <1>2, <1>13, ZenonT(60) DEF Restart
  <1>14. CASE Reconcile
    BY <1>2, <1>4, <1>5, <1>6, <1>7, <1>8, <1>14, QuietShape, ZenonT(60) DEF Reconcile
  <1>15. CASE Environment
    BY <1>3, <1>9, <1>10, <1>11, <1>12, <1>13, <1>15, ZenonT(60)
    DEF Environment, Resync, DeliverSecret, CollectGarbage, ChangePVC, RemoveAnnotation, ChangePassword,
        ServerStarts, ServerStops, ChangeRepository, Land
  <1>16. CASE UNCHANGED vars
    BY <1>3, <1>16, ZenonT(60) DEF vars
  <1>. QED
    BY <1>14, <1>15, <1>16, ZenonT(60) DEF Next
-----------------------------------------------------------------------------
\* No two backups are of the same PVC.
OnePerPVC == \A a, b \in Backup : PvcOf[a] = PvcOf[b] => a = b

\* The backup's Secret is there and not left to the collector.
Owned(b) == CurSecret(PvcOf[b]) # Nil /\ PvcOf[b] \notin orphans

\* A Secret that is not left to the collector belongs to a backup with the
\* finalizer, and every Secret is that of its owner's PVC.
OwnInv ==
    /\ \A b \in Backup : Owned(b) => Held(Cur(b))
    /\ \A p \in PVC : CurSecret(p) # Nil => PvcOf[CurSecret(p).owner] = p

\* There is no Secret at first.
LEMMA OwnInit == Init => OwnInv
  BY ConstantsAssumption, SMTT(60) DEF Init, OwnInv, Owned, CurSecret, Current

\* No Secret is written, and a backup loses its finalizer only as its Secret
\* is left to the collector.
LEMMA OwnQuiet ==
    ASSUME OwnInv, \A p \in PVC : Current(secret'[p]) = CurSecret(p), orphans \subseteq orphans',
           \A b \in Backup : Held(Cur(b)) /\ Owned(b) => Held(Current(backup'[b])) \/ PvcOf[b] \in orphans'
    PROVE  OwnInv'
  <1>1. ASSUME NEW b \in Backup, Current(secret'[PvcOf[b]]) # Nil, PvcOf[b] \notin orphans'
        PROVE  Held(Current(backup'[b]))
    <2>1. Owned(b)
      BY <1>1, ConstantsAssumption, ZenonT(60) DEF Owned
    <2>. QED
      BY <1>1, <2>1, ZenonT(60) DEF OwnInv
  <1>2. ASSUME NEW p \in PVC, Current(secret'[p]) # Nil PROVE PvcOf[Current(secret'[p]).owner] = p
    BY <1>2, ZenonT(60) DEF OwnInv
  <1>. QED
    BY <1>1, <1>2, ZenonT(60) DEF OwnInv, Owned, Cur, CurSecret

\* A Secret is written for a backup that is held, or removed.
LEMMA OwnWrite ==
    ASSUME TypeOK, OwnInv, UNCHANGED backup, NEW p \in PVC, NEW v \in SecretVersion, WriteSecret(p, v),
           v # Nil => /\ PvcOf[v.owner] = p
                      /\ \A b \in Backup : PvcOf[b] = p /\ p \notin orphans => Held(Cur(b))
    PROVE  OwnInv'
  <1>1. /\ \A x \in PVC \ {p} : secret'[x] = secret[x]
        /\ Current(secret'[p]) = v
    BY WriteSecretStep, ZenonT(60)
  <1>2. v # Nil => orphans' = orphans
    BY ZenonT(60) DEF WriteSecret
  <1>3. \A x \in PVC \ {p} : x \in orphans' <=> x \in orphans
    BY ZenonT(60) DEF WriteSecret
  <1>4. ASSUME NEW b \in Backup, Current(secret'[PvcOf[b]]) # Nil, PvcOf[b] \notin orphans'
        PROVE  Held(Cur(b))
    <2>1. CASE PvcOf[b] = p
      BY <1>1, <1>2, <1>4, <2>1, ZenonT(60)
    <2>2. CASE PvcOf[b] # p
      <3>1. PvcOf[b] \in PVC \ {p}
        BY <2>2, ConstantsAssumption, ZenonT(60)
      <3>2. Owned(b)
        BY <1>1, <1>3, <1>4, <3>1, ZenonT(60) DEF Owned, CurSecret
      <3>. QED
        BY <3>2, ZenonT(60) DEF OwnInv
    <2>. QED
      BY <2>1, <2>2, ZenonT(60)
  <1>5. ASSUME NEW x \in PVC, Current(secret'[x]) # Nil PROVE PvcOf[Current(secret'[x]).owner] = x
    <2>1. CASE x = p
      BY <1>1, <1>5, <2>1, ZenonT(60)
    <2>2. CASE x # p
      BY <1>1, <1>5, <2>2, ZenonT(60) DEF OwnInv, CurSecret
    <2>. QED
      BY <2>1, <2>2, ZenonT(60)
  <1>. QED
    BY <1>4, <1>5, ZenonT(60) DEF OwnInv, Owned, Cur, CurSecret

\* A Secret that is there already is changed, with the same controller.
LEMMA OwnChange ==
    ASSUME TypeOK, OwnInv, UNCHANGED backup, NEW p \in PVC, NEW v \in SecretVersion, WriteSecret(p, v),
           v # Nil, CurSecret(p) # Nil, v.owner = CurSecret(p).owner
    PROVE  OwnInv'
  <1>1. \A b \in Backup : PvcOf[b] = p /\ p \notin orphans => Held(Cur(b))
    BY ZenonT(60) DEF OwnInv, Owned
  <1>2. PvcOf[v.owner] = p
    BY ZenonT(60) DEF OwnInv
  <1>. QED
    BY <1>1, <1>2, OwnWrite, ZenonT(60)

\* A backup loses its finalizer only in RemoveFinalizer.
LEMMA HeldGone ==
    ASSUME TypeOK, FinalizerInv, [Next]_vars, NEW b \in Backup, Held(Cur(b))
    PROVE  \/ Held(Current(backup'[b]))
           \/ RemoveFinalizer /\ job.b = b /\ Orphan(b) /\ UNCHANGED secret
  <1> USE DEF Conflict, ApiFault, apiVars
  <1>1. CASE UNCHANGED backup
    BY <1>1, ZenonT(60) DEF Cur
  <1>2. ASSUME NEW x \in Backup, NEW v \in BackupObj, WriteBackup(x, v), v.fin PROVE Held(Current(backup'[b]))
    <2>1. v \in BackupVersion /\ v # Nil
      BY NilAssumption, ZenonT(60) DEF BackupVersion
    <2>2. Current(backup'[x]) = v /\ \A y \in Backup \ {x} : backup'[y] = backup[y]
      BY <1>2, <2>1, WriteBackupStep, ZenonT(60)
    <2>. QED
      BY <1>2, <2>1, <2>2, ZenonT(60) DEF Held, Cur
  <1>3. CASE AddFinalizer
    <2>1. job # IdleJob
      BY <1>3, SMTT(60) DEF AddFinalizer, IdleJob
    <2>2. job.b \in Backup /\ [job.obj EXCEPT !.fin = TRUE] \in BackupObj /\ [job.obj EXCEPT !.fin = TRUE].fin
      BY <2>1, JobTypes, ZenonT(60) DEF BackupObj
    <2>. QED
      BY <1>1, <1>2, <1>3, <2>2, ZenonT(60) DEF AddFinalizer
  <1>4. CASE PersistCredentialsSecret
    <2>1. job # IdleJob /\ job.obj.fin
      BY <1>4, SMTT(60) DEF PersistCredentialsSecret, IdleJob, FinalizerInv, Provisioning
    <2>2. job.b \in Backup /\ [job.obj EXCEPT !.cred = TRUE] \in BackupObj /\ [job.obj EXCEPT !.cred = TRUE].fin
      BY <2>1, JobTypes, ZenonT(60) DEF BackupObj
    <2>. QED
      BY <1>1, <1>2, <1>4, <2>2, ZenonT(60) DEF PersistCredentialsSecret
  <1>5. CASE ReconcileBackupResources \/ ReportInvalid
    <2>1. job # IdleJob /\ job.obj.fin
      BY <1>5, SMTT(60) DEF ReconcileBackupResources, ReportInvalid, IdleJob, FinalizerInv, Provisioning
    <2>2. /\ job.b \in Backup /\ job.obj \in BackupObj
          /\ [job.obj EXCEPT !.ready = "UpToDate"] \in BackupObj
          /\ [job.obj EXCEPT !.ready = "UpToDate"].fin
      BY <2>1, JobTypes, ZenonT(60) DEF BackupObj, Reason
    <2>3. ASSUME NEW o \in BackupObj, o.fin, UpdateStatus(o) PROVE Held(Current(backup'[b]))
      BY <1>2, <2>2, <2>3, ZenonT(60) DEF UpdateStatus
    <2>. QED
      BY <1>1, <1>5, <2>1, <2>2, <2>3, ZenonT(60) DEF ReconcileBackupResources, ReportInvalid, UpdateStatusFailed
  <1>6. CASE RemoveFinalizer
    <2>1. job.b \in Backup
      BY <1>6, JobTypes, SMTT(60) DEF RemoveFinalizer, IdleJob
    <2>2. CASE WriteBackup(job.b, Nil) /\ Orphan(job.b) /\ UNCHANGED secret
      <3>1. \A x \in Backup \ {job.b} : backup'[x] = backup[x]
        BY <2>1, <2>2, WriteBackupStep, ZenonT(60) DEF BackupVersion
      <3>. QED
        BY <1>6, <2>2, <3>1, ZenonT(60) DEF Cur
    <2>. QED
      BY <1>1, <1>6, <2>2, ZenonT(60) DEF RemoveFinalizer
  <1>7. ASSUME NEW x \in Backup, DeliverBackup(x) PROVE Held(Current(backup'[b]))
    BY <1>7, DeliverBackupStep, ZenonT(60) DEF Cur
  <1>8. ASSUME NEW x \in Backup, NEW v \in BackupVersion, WriteBackup(x, v), ~Held(Cur(x))
        PROVE  Held(Current(backup'[b]))
    BY <1>8, WriteBackupStep, ZenonT(60) DEF Cur
  <1>9. ASSUME NEW x \in Backup, NEW r \in Repo, CreateBackup(x, r) PROVE Held(Current(backup'[b]))
    <2>1. NewBackup(r) \in BackupVersion
      BY DEF NewBackup, BackupVersion, BackupObj, Reason
    <2>. QED
      BY <1>8, <1>9, <2>1, ZenonT(60) DEF CreateBackup, Held
  <1>10. ASSUME NEW x \in Backup, DeleteBackup(x) PROVE Held(Current(backup'[b]))
    <2>1. Cur(x) \in BackupObj
      BY <1>10, ReadTypes, ZenonT(60) DEF DeleteBackup, BackupVersion
    <2> DEFINE v == [Cur(x) EXCEPT !.deleting = TRUE]
    <2>2. v \in BackupObj /\ v.fin = Cur(x).fin
      BY <2>1, ZenonT(60) DEF BackupObj
    <2>3. CASE Cur(x).fin /\ WriteBackup(x, v)
      <3> HIDE DEF v
      <3>. QED
        BY <1>2, <2>2, <2>3, ZenonT(60)
    <2>4. CASE ~Cur(x).fin /\ WriteBackup(x, Nil)
      BY <1>8, <2>4, ZenonT(60) DEF Held, BackupVersion
    <2>. QED
      BY <1>10, <2>3, <2>4, ZenonT(60) DEF DeleteBackup
  <1>11. ASSUME NEW x \in Backup, NEW r \in Repo, SwitchRepository(x, r) PROVE Held(Current(backup'[b]))
    <2> DEFINE v == [Cur(x) EXCEPT !.repo = r]
    <2>1. Cur(x) \in BackupObj /\ WriteBackup(x, v)
      BY <1>11, ReadTypes, ZenonT(60) DEF SwitchRepository, BackupVersion
    <2>2. v \in BackupObj /\ v.fin = Cur(x).fin
      BY <2>1, ZenonT(60) DEF BackupObj
    <2>3. CASE Held(Cur(x))
      <3>1. v.fin
        BY <2>2, <2>3, ZenonT(60) DEF Held
      <3> HIDE DEF v
      <3>. QED
        BY <1>2, <2>1, <2>2, <3>1, ZenonT(60)
    <2>4. CASE ~Held(Cur(x))
      <3> HIDE DEF v
      <3>. QED
        BY <1>8, <2>1, <2>2, <2>4, ZenonT(60) DEF BackupVersion
    <2>. QED
      BY <2>3, <2>4, ZenonT(60)
  <1>12. CASE Reconcile
    BY <1>1, <1>3, <1>4, <1>5, <1>6, <1>12, QuietShape, ZenonT(60) DEF Reconcile, StartReconcile
  <1>13. CASE Environment
    BY <1>1, <1>7, <1>9, <1>10, <1>11, <1>13, ZenonT(60)
    DEF Environment, Resync, DeliverSecret, CollectGarbage, ChangePVC, RemoveAnnotation, ChangePassword,
        ServerStarts, ServerStops, ChangeRepository, Land, Restart
  <1>14. CASE UNCHANGED vars
    BY <1>1, <1>14, ZenonT(60) DEF vars
  <1>. QED
    BY <1>12, <1>13, <1>14, ZenonT(60) DEF Next

\* The Secret the reconcile creates, and the ways a Secret is changed.
NewSecret == [creds |-> [user |-> Username(job.b, job.repo), pw |-> NewPassword], synced |-> Nil, owner |-> job.b]

\* createSecret's Create, EnsureUser's patch, and a Secret that goes.
SecretMade ==
    /\ CreateSecret /\ CurSecret(MyPvc) = Nil /\ Mint /\ WriteSecret(MyPvc, NewSecret)
    /\ job' = [job EXCEPT !.pc = "setUser", !.creds = NewSecret.creds, !.minted = TRUE]

SecretMarked ==
    /\ MarkUserSynced /\ CurSecret(MyPvc) # Nil
    /\ WriteSecret(MyPvc, [CurSecret(MyPvc) EXCEPT !.synced = job.creds])

SecretRemoved(p) == WriteSecret(p, Nil) /\ UNCHANGED <<backup, users, late>>

\* Every step leaves the Secrets and the orphans there are alone, delivers a
\* version of a Secret, or writes one Secret.
LEMMA SecretSteps ==
    ASSUME TypeOK, [Next]_vars
    PROVE  \/ UNCHANGED secret /\ orphans \subseteq orphans'
           \/ \E p \in PVC : DeliverSecret(p)
           \/ SecretMade \/ SecretMarked
           \/ \E p \in PVC : RemoveAnnotation(p) \/ ChangePassword(p)
           \/ (RollbackSecret \/ DeleteSecret) /\ MyPvc \in PVC /\ SecretRemoved(MyPvc)
           \/ \E p \in PVC : CollectGarbage(p) /\ SecretRemoved(p)
  <1> DEFINE Quiet == UNCHANGED secret /\ orphans \subseteq orphans'
  <1> USE DEF Conflict, ApiFault, apiVars, serverVars
  <1>1. CASE \/ AddFinalizer \/ PersistCredentialsSecret \/ ReconcileBackupResources \/ ReportInvalid
             \/ \E b \in Backup : StartReconcile(b)
    <2>1. UNCHANGED <<secret, orphans>>
      BY <1>1, ZenonT(60)
      DEF AddFinalizer, PersistCredentialsSecret, ReconcileBackupResources, ReportInvalid, UpdateStatus,
          UpdateStatusFailed, StartReconcile
    <2>. QED
      BY <2>1, ZenonT(60)
  <1>2. CASE ValidateDependencies \/ CreateUserOnServer \/ LookupForCleanup \/ DeleteUserFromServer
    <2>1. UNCHANGED <<secret, orphans>>
      BY <1>2, ZenonT(60) DEF ValidateDependencies, CreateUserOnServer, LookupForCleanup, DeleteUserFromServer
    <2>. QED
      BY <2>1, ZenonT(60)
  <1>3. CASE RemoveFinalizer
    BY <1>3, ZenonT(60) DEF RemoveFinalizer, Orphan
  <1>4. CASE CreateSecret
    BY <1>4, ZenonT(60) DEF CreateSecret, SecretMade, NewSecret
  <1>5. CASE MarkUserSynced
    BY <1>5, ZenonT(60) DEF MarkUserSynced, SecretMarked
  <1>6. CASE RollbackSecret \/ DeleteSecret
    <2>1. MyPvc \in PVC
      BY <1>6, JobTypes, SMTT(60) DEF RollbackSecret, DeleteSecret, IdleJob
    <2>2. Quiet \/ SecretRemoved(MyPvc)
      BY <1>6, ZenonT(60) DEF RollbackSecret, DeleteSecret, SecretRemoved
    <2>. QED
      BY <1>6, <2>1, <2>2, ZenonT(60)
  <1>7. CASE Reconcile
    BY <1>1, <1>2, <1>3, <1>4, <1>5, <1>6, <1>7, ZenonT(60) DEF Reconcile
  <1>8. CASE \E b \in Backup : DeliverBackup(b) \/ Resync(b) \/ DeleteBackup(b)
    BY <1>8, ZenonT(60) DEF DeliverBackup, Resync, DeleteBackup, Orphan
  <1>9. CASE \E b \in Backup, r \in Repo : CreateBackup(b, r) \/ SwitchRepository(b, r)
    BY <1>9, ZenonT(60) DEF CreateBackup, SwitchRepository
  <1>10. CASE \E p \in PVC : CollectGarbage(p) \/ ChangePVC(p)
    BY <1>10, ZenonT(60) DEF CollectGarbage, ChangePVC, SecretRemoved
  <1>11. CASE \E r \in Repo : ServerStarts(r) \/ ServerStops(r) \/ \E mode \in Mode : ChangeRepository(r, mode)
    BY <1>11, ZenonT(60) DEF ServerStarts, ServerStops, ChangeRepository
  <1>12. CASE Restart \/ \E c \in late : Land(c)
    BY <1>12, ZenonT(60) DEF Restart, Land
  <1>13. CASE Environment
    BY <1>8, <1>9, <1>10, <1>11, <1>12, <1>13, ZenonT(60) DEF Environment
  <1>14. CASE UNCHANGED vars
    BY <1>14, ZenonT(60) DEF vars
  <1>. QED
    BY <1>7, <1>13, <1>14, ZenonT(60) DEF Next

\* The Secrets written are well-formed.
LEMMA SecretWritten ==
    ASSUME TypeOK
    PROVE  /\ SecretMade => NewSecret \in SecretObj /\ job.b \in Backup /\ MyPvc \in PVC /\ job \in Job
           /\ SecretMarked => /\ CurSecret(MyPvc) \in SecretObj /\ job.creds \in Creds
                              /\ MyPvc \in PVC /\ job.b \in Backup /\ job \in Job
           /\ \A p \in PVC : RemoveAnnotation(p) \/ ChangePassword(p) => CurSecret(p) \in SecretObj
  <1>1. ASSUME SecretMade PROVE NewSecret \in SecretObj /\ job.b \in Backup /\ MyPvc \in PVC /\ job \in Job
    <2>1. job.pc = "createSecret" /\ Mint
      BY <1>1, ZenonT(60) DEF SecretMade, CreateSecret
    <2>2. job # IdleJob
      BY <2>1, SMTT(60) DEF IdleJob
    <2>3. job.repo \in Repo
      BY <2>1, ZenonT(60) DEF TypeOK, WithRepo
    <2>4. job.b \in Backup /\ MyPvc \in PVC /\ job \in Job
      BY <2>2, JobTypes, ZenonT(60)
    <2>5. Username(job.b, job.repo) \in User
      BY <2>3, <2>4, ConstantsAssumption, ZenonT(60) DEF Username, User
    <2>6. NewPassword \in Password
      BY <2>1, NewPasswordFact, ZenonT(60)
    <2>7. NewSecret \in SecretObj
      BY <2>4, <2>5, <2>6, ZenonT(60) DEF NewSecret, SecretObj, Creds
    <2>. QED
      BY <2>4, <2>7, ZenonT(60)
  <1>2. ASSUME SecretMarked
        PROVE  /\ CurSecret(MyPvc) \in SecretObj /\ job.creds \in Creds
               /\ MyPvc \in PVC /\ job.b \in Backup /\ job \in Job
    <2>1. job.pc = "mark"
      BY <1>2, ZenonT(60) DEF SecretMarked, MarkUserSynced
    <2>2. job # IdleJob
      BY <2>1, SMTT(60) DEF IdleJob
    <2>3. job.b \in Backup /\ MyPvc \in PVC /\ job \in Job /\ job.creds \in Creds
      BY <2>1, <2>2, JobTypes, ZenonT(60) DEF TypeOK, WithCreds
    <2>. QED
      BY <1>2, <2>3, ReadTypes, ZenonT(60) DEF SecretMarked, SecretVersion
  <1>3. ASSUME NEW p \in PVC, RemoveAnnotation(p) \/ ChangePassword(p) PROVE CurSecret(p) \in SecretObj
    BY <1>3, ReadTypes, ZenonT(60) DEF RemoveAnnotation, ChangePassword, SecretVersion
  <1>. QED
    BY <1>1, <1>2, <1>3, ZenonT(60)

\* OwnInv is inductive as long as no PVC has two backups.
LEMMA OwnStep ==
    ASSUME OnePerPVC, TypeOK, FinalizerInv, OwnInv, [Next]_vars
    PROVE  OwnInv'
  <1> USE DEF apiVars
  <1>1. CASE UNCHANGED secret /\ orphans \subseteq orphans'
    <2>1. \A p \in PVC : Current(secret'[p]) = CurSecret(p)
      BY <1>1, ZenonT(60) DEF CurSecret
    <2>2. ASSUME NEW b \in Backup, Held(Cur(b)), Owned(b), ~Held(Current(backup'[b]))
          PROVE  PvcOf[b] \in orphans'
      <3>1. Orphan(b)
        BY <2>2, HeldGone, ZenonT(60)
      <3>2. PvcOf[b] \in PVC /\ CurSecret(PvcOf[b]) # Nil
        BY <2>2, ConstantsAssumption, ZenonT(60) DEF Owned
      <3>3. CurSecret(PvcOf[b]).owner \in Backup
        BY <3>2, ReadTypes, ZenonT(60) DEF SecretVersion, SecretObj
      <3>4. CurSecret(PvcOf[b]).owner = b
        BY <3>2, <3>3, ZenonT(60) DEF OnePerPVC, OwnInv
      <3>. QED
        BY <3>1, <3>2, <3>4, ZenonT(60) DEF Orphan
    <2>. QED
      BY <1>1, <2>1, <2>2, OwnQuiet, ZenonT(60)
  <1>2. ASSUME NEW p \in PVC, DeliverSecret(p) PROVE OwnInv'
    <2>1. \A x \in PVC : Current(secret'[x]) = CurSecret(x)
      BY <1>2, DeliverSecretStep, ZenonT(60) DEF CurSecret
    <2>2. UNCHANGED <<backup, orphans>>
      BY <1>2, ZenonT(60) DEF DeliverSecret
    <2>. QED
      BY <2>1, <2>2, OwnQuiet, ZenonT(60) DEF Cur
  <1>3. CASE SecretMade
    <2>1. NewSecret \in SecretObj /\ job.b \in Backup /\ MyPvc \in PVC /\ WriteSecret(MyPvc, NewSecret)
      BY <1>3, SecretWritten, ZenonT(60) DEF SecretMade
    <2>2. backup' = backup
      BY <1>3, ZenonT(60) DEF SecretMade, CreateSecret, ApiFault
    <2>3. NewSecret.owner = job.b
      BY ZenonT(60) DEF NewSecret
    <2>4. job.pc = "createSecret"
      BY <1>3, ZenonT(60) DEF SecretMade, CreateSecret
    <2>5. Held(Cur(job.b))
      BY <2>4, ZenonT(60) DEF FinalizerInv, Provisioning
    <2>6. \A b \in Backup : PvcOf[b] = MyPvc => Held(Cur(b))
      BY <2>1, <2>5, ZenonT(60) DEF OnePerPVC, MyPvc
    <2>7. NewSecret \in SecretVersion /\ PvcOf[NewSecret.owner] = MyPvc
      BY <2>1, <2>3, ZenonT(60) DEF SecretVersion, MyPvc
    <2>. QED
      BY <2>1, <2>2, <2>6, <2>7, OwnWrite, ZenonT(60)
  <1>4. ASSUME NEW p \in PVC, NEW v \in SecretObj, CurSecret(p) \in SecretObj, v.owner = CurSecret(p).owner,
               WriteSecret(p, v), UNCHANGED backup
        PROVE  OwnInv'
    <2>1. v \in SecretVersion /\ v # Nil /\ CurSecret(p) # Nil
      BY <1>4, NilAssumption, ZenonT(60) DEF SecretVersion
    <2>. QED
      BY <1>4, <2>1, OwnChange, ZenonT(60)
  <1>5. CASE SecretMarked
    <2>1. CurSecret(MyPvc) \in SecretObj /\ job.creds \in Creds /\ MyPvc \in PVC
      BY <1>5, SecretWritten, ZenonT(60)
    <2> DEFINE v == [CurSecret(MyPvc) EXCEPT !.synced = job.creds]
    <2>2. v \in SecretObj /\ v.owner = CurSecret(MyPvc).owner
      BY <2>1, ZenonT(60) DEF SecretObj
    <2>3. WriteSecret(MyPvc, v) /\ backup' = backup
      BY <1>5, ZenonT(60) DEF SecretMarked, MarkUserSynced, ApiFault
    <2> HIDE DEF v
    <2>. QED
      BY <1>4, <2>1, <2>2, <2>3, ZenonT(60)
  <1>6. ASSUME NEW p \in PVC, RemoveAnnotation(p) PROVE OwnInv'
    <2> DEFINE v == [CurSecret(p) EXCEPT !.synced = Nil]
    <2>1. CurSecret(p) \in SecretObj
      BY <1>6, SecretWritten, ZenonT(60)
    <2>2. v \in SecretObj /\ v.owner = CurSecret(p).owner
      BY <2>1, ZenonT(60) DEF SecretObj
    <2>3. WriteSecret(p, v) /\ backup' = backup
      BY <1>6, ZenonT(60) DEF RemoveAnnotation
    <2> HIDE DEF v
    <2>. QED
      BY <1>4, <2>1, <2>2, <2>3, ZenonT(60)
  <1>7. ASSUME NEW p \in PVC, ChangePassword(p) PROVE OwnInv'
    <2> DEFINE v == [CurSecret(p) EXCEPT !.creds.pw = NewPassword]
    <2>1. CurSecret(p) \in SecretObj /\ NewPassword \in Password
      BY <1>7, SecretWritten, NewPasswordFact, ZenonT(60) DEF ChangePassword
    <2>2. v \in SecretObj /\ v.owner = CurSecret(p).owner
      BY <2>1, ZenonT(60) DEF SecretObj, Creds
    <2>3. WriteSecret(p, v) /\ backup' = backup
      BY <1>7, ZenonT(60) DEF ChangePassword
    <2> HIDE DEF v
    <2>. QED
      BY <1>4, <2>1, <2>2, <2>3, ZenonT(60)
  <1>8. ASSUME NEW p \in PVC, SecretRemoved(p) PROVE OwnInv'
    BY <1>8, OwnWrite, ZenonT(60) DEF SecretRemoved, SecretVersion
  <1>. QED
    BY <1>1, <1>2, <1>3, <1>5, <1>6, <1>7, <1>8, SecretSteps, ZenonT(60)
-----------------------------------------------------------------------------
(***************************************************************************)
(* RestIsDone                                                              *)
(*                                                                         *)
(* Every event of a backup and of its Secret enqueues the backup, so a     *)
(* step after which nothing is pending for it has changed neither, unless  *)
(* it started the reconcile or the operator.  What a reconcile has found   *)
(* or ensured since it started therefore still holds when it reports.      *)
(*                                                                         *)
(*   DyingHeld     a version being deleted has the finalizer;              *)
(*   SecretsOwned  a Secret is owned by a backup of its PVC and no version *)
(*                 follows itself, so its event has an owner to tell;      *)
(*   OnTrack       what holds at each phase of the reconcile.              *)
(***************************************************************************)
\* Something will bring b back to the worker.
Pending(b) == b \in queue \/ ~CaughtUp(backup[b]) \/ ~CaughtUp(secret[PvcOf[b]])

DyingHeld == \A b \in Backup : \A v \in Versions(backup[b]) : v # Nil /\ v.deleting => v.fin

SecretsOwned ==
    \A p \in PVC : /\ NoRepeat(secret[p])
                   /\ \A v \in Versions(secret[p]) : v # Nil => PvcOf[v.owner] = p

Unsettled == {"createSecret", "setUser", "mark", "persist"}

OnTrack ==
    LET r == job.obj.repo
        missing == MyPvc \notin pvcs \/ repos[r] = "absent"
    IN /\ r = Cur(job.b).repo
       /\ job.pc = "invalid" => missing /\ job.obj.ready = "NotFound"
       /\ job.pc \in Unsettled => ~missing /\ repos[r] = "server"
       /\ job.pc \in Unsettled \ {"createSecret"} => CurSecret(MyPvc) # Nil
       /\ job.pc = "resources" =>
              /\ ~missing
              /\ repos[r] = "server" => job.obj.cred /\ job.obj.connected /\ CurSecret(MyPvc) # Nil

\* With nothing pending for b, the work is done or under way.
Rest(b) ==
    Alone(b) /\ ~Pending(b) =>
        IF job.b = b THEN job.fresh => OnTrack ELSE Cur(b) # Nil => Settled(b)

RestInv == DyingHeld /\ SecretsOwned /\ \A b \in Backup : Rest(b)

\* Every step leaves the backups alone, delivers a version of one, or writes
\* one, with the finalizer if it is being deleted.
LEMMA BackupSteps ==
    ASSUME TypeOK, FinalizerInv, DyingHeld, [Next]_vars
    PROVE  \/ UNCHANGED backup
           \/ \E b \in Backup : DeliverBackup(b)
           \/ \E b \in Backup, v \in BackupVersion :
                  WriteBackup(b, v) /\ (v # Nil /\ v.deleting => v.fin)
  <1> DEFINE Writes == \E b \in Backup, v \in BackupVersion :
                           WriteBackup(b, v) /\ (v # Nil /\ v.deleting => v.fin)
             Quiet == UNCHANGED backup
  <1> USE DEF Conflict, ApiFault, apiVars
  <1>1. ASSUME NEW v \in BackupObj, v.fin, job # IdleJob, WriteBackup(job.b, v) PROVE Writes
    BY <1>1, JobTypes, ZenonT(60) DEF BackupVersion
  <1>2. CASE AddFinalizer
    <2>1. job # IdleJob
      BY <1>2, SMTT(60) DEF AddFinalizer, IdleJob
    <2> DEFINE v == [job.obj EXCEPT !.fin = TRUE]
    <2>2. v \in BackupObj /\ v.fin
      BY <2>1, JobTypes, ZenonT(60) DEF BackupObj
    <2>3. Quiet \/ WriteBackup(job.b, v)
      BY <1>2, ZenonT(60) DEF AddFinalizer
    <2> HIDE DEF v, Writes
    <2>. QED
      BY <1>1, <2>1, <2>2, <2>3, ZenonT(60) DEF Writes
  <1>3. CASE PersistCredentialsSecret
    <2>1. job # IdleJob /\ job.pc \in Provisioning
      BY <1>3, SMTT(60) DEF PersistCredentialsSecret, IdleJob, Provisioning
    <2> DEFINE v == [job.obj EXCEPT !.cred = TRUE]
    <2>2. v \in BackupObj /\ v.fin
      BY <2>1, JobTypes, ZenonT(60) DEF BackupObj, FinalizerInv
    <2>3. Quiet \/ WriteBackup(job.b, v)
      BY <1>3, ZenonT(60) DEF PersistCredentialsSecret
    <2> HIDE DEF v, Writes
    <2>. QED
      BY <1>1, <2>1, <2>2, <2>3, ZenonT(60) DEF Writes
  <1>4. CASE ReconcileBackupResources \/ ReportInvalid
    <2>1. job # IdleJob /\ job.pc \in Provisioning
      BY <1>4, SMTT(60) DEF ReconcileBackupResources, ReportInvalid, IdleJob, Provisioning
    <2> DEFINE v == [job.obj EXCEPT !.ready = "UpToDate"]
    <2>2. job.obj \in BackupObj /\ job.obj.fin
      BY <2>1, JobTypes, ZenonT(60) DEF FinalizerInv
    <2>3. v \in BackupObj /\ v.fin
      BY <2>2, ZenonT(60) DEF BackupObj, Reason
    <2>4. Quiet \/ WriteBackup(job.b, v) \/ WriteBackup(job.b, job.obj)
      BY <1>4, ZenonT(60) DEF ReconcileBackupResources, ReportInvalid, UpdateStatus, UpdateStatusFailed
    <2> HIDE DEF v, Writes
    <2>. QED
      BY <1>1, <2>1, <2>2, <2>3, <2>4, ZenonT(60) DEF Writes
  <1>5. CASE RemoveFinalizer
    <2>1. job # IdleJob
      BY <1>5, SMTT(60) DEF RemoveFinalizer, IdleJob
    <2>2. job.b \in Backup /\ Nil \in BackupVersion
      BY <2>1, JobTypes, ZenonT(60) DEF BackupVersion
    <2>. QED
      BY <1>5, <2>2, ZenonT(60) DEF RemoveFinalizer
  <1>6. CASE Reconcile
    <2>1. CASE \E b \in Backup : StartReconcile(b)
      BY <2>1, ZenonT(60) DEF StartReconcile
    <2>. QED
      BY <1>2, <1>3, <1>4, <1>5, <1>6, <2>1, QuietShape, ZenonT(60) DEF Reconcile
  <1>7. ASSUME NEW b \in Backup, DeleteBackup(b) PROVE Writes
    <2> DEFINE v == [Cur(b) EXCEPT !.deleting = TRUE]
    <2>1. Cur(b) \in BackupObj
      BY <1>7, ReadTypes, ZenonT(60) DEF DeleteBackup, BackupVersion
    <2>2. v \in BackupObj /\ v.fin = Cur(b).fin /\ Nil \in BackupVersion
      BY <2>1, ZenonT(60) DEF BackupObj, BackupVersion
    <2>3. (Cur(b).fin /\ WriteBackup(b, v)) \/ WriteBackup(b, Nil)
      BY <1>7, ZenonT(60) DEF DeleteBackup
    <2>4. v \in BackupVersion
      BY <2>2, ZenonT(60) DEF BackupVersion
    <2> HIDE DEF v
    <2>. QED
      BY <2>2, <2>3, <2>4, ZenonT(60)
  <1>8. ASSUME NEW b \in Backup, NEW r \in Repo, CreateBackup(b, r) PROVE Writes
    <2>1. NewBackup(r) \in BackupVersion /\ ~NewBackup(r).deleting
      BY DEF NewBackup, BackupVersion, BackupObj, Reason
    <2>. QED
      BY <1>8, <2>1, ZenonT(60) DEF CreateBackup
  <1>9. ASSUME NEW b \in Backup, NEW r \in Repo, SwitchRepository(b, r) PROVE Writes
    <2> DEFINE v == [Cur(b) EXCEPT !.repo = r]
    <2>1. Cur(b) \in BackupObj /\ WriteBackup(b, v)
      BY <1>9, ReadTypes, ZenonT(60) DEF SwitchRepository, BackupVersion
    <2>2. v \in BackupObj /\ v.fin = Cur(b).fin /\ v.deleting = Cur(b).deleting
      BY <2>1, ZenonT(60) DEF BackupObj
    <2>3. Cur(b) \in Versions(backup[b]) /\ Cur(b) # Nil
      BY <1>9, StreamEnds, ZenonT(60) DEF TypeOK, Cur, SwitchRepository
    <2>4. v \in BackupVersion /\ (v.deleting => v.fin)
      BY <2>2, <2>3, ZenonT(60) DEF BackupVersion, DyingHeld
    <2> HIDE DEF v
    <2>. QED
      BY <2>1, <2>4, ZenonT(60)
  <1>10. CASE Environment
    BY <1>7, <1>8, <1>9, <1>10, ZenonT(60)
    DEF Environment, Resync, DeliverSecret, CollectGarbage, ChangePVC, RemoveAnnotation, ChangePassword,
        ServerStarts, ServerStops, ChangeRepository, Land, Restart, opVars
  <1>11. CASE UNCHANGED vars
    BY <1>11, ZenonT(60) DEF vars
  <1>. QED
    BY <1>6, <1>10, <1>11, ZenonT(60) DEF Next

\* A backup being deleted keeps the finalizer until it goes.
LEMMA DyingStep ==
    ASSUME TypeOK, FinalizerInv, DyingHeld, [Next]_vars
    PROVE  DyingHeld'
  <1>1. CASE UNCHANGED backup
    BY <1>1, ZenonT(60) DEF DyingHeld
  <1>2. ASSUME NEW b \in Backup, DeliverBackup(b) PROVE DyingHeld'
    <2>1. \A x \in Backup : Versions(backup'[x]) \subseteq Versions(backup[x])
      BY <1>2, DeliverBackupStep, ZenonT(60)
    <2>. QED
      BY <2>1, ZenonT(60) DEF DyingHeld
  <1>3. ASSUME NEW b \in Backup, NEW v \in BackupVersion, WriteBackup(b, v), v # Nil /\ v.deleting => v.fin
        PROVE  DyingHeld'
    <2>1. /\ \A x \in Backup \ {b} : backup'[x] = backup[x]
          /\ Versions(backup'[b]) \subseteq Versions(backup[b]) \cup {v}
      BY <1>3, WriteBackupStep, ZenonT(60)
    <2>2. ASSUME NEW x \in Backup, NEW y \in Versions(backup'[x]), y # Nil, y.deleting PROVE y.fin
      BY <1>3, <2>1, <2>2, ZenonT(60) DEF DyingHeld
    <2>. QED
      BY <2>2, ZenonT(60) DEF DyingHeld
  <1>. QED
    BY <1>1, <1>2, <1>3, BackupSteps, ZenonT(60)

\* Every step leaves the Secrets alone, delivers a version of one, or writes
\* one that is owned by a backup of its PVC.
LEMMA SecretWrites ==
    ASSUME TypeOK, SecretsOwned, [Next]_vars
    PROVE  \/ UNCHANGED secret
           \/ \E p \in PVC : DeliverSecret(p)
           \/ \E p \in PVC, v \in SecretVersion : WriteSecret(p, v) /\ (v # Nil => PvcOf[v.owner] = p)
  <1> DEFINE Writes == \E p \in PVC, v \in SecretVersion : WriteSecret(p, v) /\ (v # Nil => PvcOf[v.owner] = p)
  <1>1. Nil \in SecretVersion
    BY DEF SecretVersion
  <1>2. ASSUME NEW p \in PVC, CurSecret(p) \in SecretObj, NEW v \in SecretObj, v.owner = CurSecret(p).owner,
               WriteSecret(p, v)
        PROVE  Writes
    <2>1. secret[p] \in Streams(SecretVersion)
      BY <1>2, ZenonT(60) DEF TypeOK, SecretVersion
    <2>2. CurSecret(p) \in Versions(secret[p]) /\ CurSecret(p) # Nil
      BY <1>2, <2>1, StreamEnds, NilAssumption, ZenonT(60) DEF CurSecret
    <2>3. PvcOf[v.owner] = p /\ v \in SecretVersion
      BY <1>2, <2>2, ZenonT(60) DEF SecretsOwned, SecretVersion
    <2>. QED
      BY <1>2, <2>3, ZenonT(60)
  <1>3. CASE SecretMade
    <2>1. NewSecret \in SecretObj /\ job.b \in Backup /\ MyPvc \in PVC /\ WriteSecret(MyPvc, NewSecret)
      BY <1>3, SecretWritten, ZenonT(60) DEF SecretMade
    <2>2. NewSecret.owner = job.b
      BY ZenonT(60) DEF NewSecret
    <2>3. NewSecret \in SecretVersion /\ PvcOf[NewSecret.owner] = MyPvc
      BY <2>1, <2>2, ZenonT(60) DEF SecretVersion, MyPvc
    <2>. QED
      BY <2>1, <2>3, ZenonT(60)
  <1>4. CASE SecretMarked
    <2> DEFINE v == [CurSecret(MyPvc) EXCEPT !.synced = job.creds]
    <2>1. CurSecret(MyPvc) \in SecretObj /\ job.creds \in Creds /\ MyPvc \in PVC /\ WriteSecret(MyPvc, v)
      BY <1>4, SecretWritten, ZenonT(60) DEF SecretMarked
    <2>2. v \in SecretObj /\ v.owner = CurSecret(MyPvc).owner
      BY <2>1, ZenonT(60) DEF SecretObj
    <2> HIDE DEF v, Writes
    <2>. QED
      BY <1>2, <2>1, <2>2, ZenonT(60) DEF Writes
  <1>5. ASSUME NEW p \in PVC, RemoveAnnotation(p) PROVE Writes
    <2> DEFINE v == [CurSecret(p) EXCEPT !.synced = Nil]
    <2>1. CurSecret(p) \in SecretObj /\ WriteSecret(p, v)
      BY <1>5, SecretWritten, ZenonT(60) DEF RemoveAnnotation
    <2>2. v \in SecretObj /\ v.owner = CurSecret(p).owner
      BY <2>1, ZenonT(60) DEF SecretObj
    <2> HIDE DEF v, Writes
    <2>. QED
      BY <1>2, <2>1, <2>2, ZenonT(60) DEF Writes
  <1>6. ASSUME NEW p \in PVC, ChangePassword(p) PROVE Writes
    <2> DEFINE v == [CurSecret(p) EXCEPT !.creds.pw = NewPassword]
    <2>1. CurSecret(p) \in SecretObj /\ NewPassword \in Password /\ WriteSecret(p, v)
      BY <1>6, SecretWritten, NewPasswordFact, ZenonT(60) DEF ChangePassword
    <2>2. v \in SecretObj /\ v.owner = CurSecret(p).owner
      BY <2>1, ZenonT(60) DEF SecretObj, Creds
    <2> HIDE DEF v, Writes
    <2>. QED
      BY <1>2, <2>1, <2>2, ZenonT(60) DEF Writes
  <1>7. ASSUME NEW p \in PVC, SecretRemoved(p) PROVE Writes
    BY <1>1, <1>7, ZenonT(60) DEF SecretRemoved
  <1>. QED
    BY <1>3, <1>4, <1>5, <1>6, <1>7, SecretSteps, ZenonT(60)

\* The Secrets stay owned and their versions distinct.
LEMMA OwnedStep ==
    ASSUME TypeOK, SecretsOwned, [Next]_vars
    PROVE  SecretsOwned'
  <1>0. \A p \in PVC : secret[p] \in Streams(SecretVersion)
    BY ZenonT(60) DEF TypeOK, SecretVersion
  <1>1. CASE UNCHANGED secret
    BY <1>1, ZenonT(60) DEF SecretsOwned
  <1>2. ASSUME NEW p \in PVC, DeliverSecret(p) PROVE SecretsOwned'
    <2>1. \A x \in PVC : Versions(secret'[x]) \subseteq Versions(secret[x])
      BY <1>2, DeliverSecretStep, ZenonT(60)
    <2>2. secret' = [secret EXCEPT ![p] = Deliver(secret[p])] /\ ~CaughtUp(secret[p])
      BY <1>2, ZenonT(60) DEF DeliverSecret
    <2>3. NoRepeat(Deliver(secret[p]))
      BY <1>0, <2>2, NoRepeatDeliver, ZenonT(60) DEF SecretsOwned
    <2>4. \A x \in PVC : NoRepeat(secret'[x])
      BY <2>2, <2>3, ZenonT(60) DEF SecretsOwned, TypeOK
    <2>. QED
      BY <2>1, <2>4, ZenonT(60) DEF SecretsOwned
  <1>3. ASSUME NEW p \in PVC, NEW v \in SecretVersion, WriteSecret(p, v), v # Nil => PvcOf[v.owner] = p
        PROVE  SecretsOwned'
    <2>1. /\ \A x \in PVC \ {p} : secret'[x] = secret[x]
          /\ Versions(secret'[p]) \subseteq Versions(secret[p]) \cup {v}
      BY <1>3, WriteSecretStep, ZenonT(60)
    <2>2. secret' = [secret EXCEPT ![p] = Put(secret[p], v)]
      BY <1>3, ZenonT(60) DEF WriteSecret
    <2>3. NoRepeat(Put(secret[p], v))
      BY <1>0, NoRepeatPut, ZenonT(60) DEF SecretsOwned
    <2>4. \A x \in PVC : NoRepeat(secret'[x])
      BY <2>2, <2>3, ZenonT(60) DEF SecretsOwned, TypeOK
    <2>5. ASSUME NEW x \in PVC, NEW y \in Versions(secret'[x]), y # Nil PROVE PvcOf[y.owner] = x
      BY <1>3, <2>1, <2>5, ZenonT(60) DEF SecretsOwned
    <2>. QED
      BY <2>4, <2>5, ZenonT(60) DEF SecretsOwned
  <1>. QED
    BY <1>1, <1>2, <1>3, SecretWrites, ZenonT(60)

\* Nothing b depends on has changed, and nothing was pending for it.
Still(b) ==
    /\ ~Pending(b)
    /\ backup'[b] = backup[b] /\ secret'[PvcOf[b]] = secret[PvcOf[b]]
    /\ Cur(b) # Nil => /\ repos'[Cur(b).repo] = repos[Cur(b).repo]
                       /\ PvcOf[b] \in pvcs' <=> PvcOf[b] \in pvcs

\* The queue loses b only to a worker or a restart.
LEMMA QueueStep ==
    ASSUME NEW b \in Backup, b \in queue, [Next]_vars
    PROVE  StartReconcile(b) \/ Restart \/ b \in queue'
  <1> USE DEF Done, Retry, Goto, Conflict, ApiFault, opVars
  <1>1. CASE \E x \in Backup : StartReconcile(x)
    BY <1>1, ZenonT(60) DEF StartReconcile
  <1>2. CASE Reconcile
    BY <1>1, <1>2, ZenonT(60) DEF Reconcile, AddFinalizer, ValidateDependencies, CreateSecret, CreateUserOnServer,
       SetUserFailed, RollbackSecret, MarkUserSynced, PersistCredentialsSecret, ReconcileBackupResources, ReportInvalid,
       UpdateStatus, UpdateStatusFailed, LookupForCleanup, DeleteUserFromServer, DeleteSecret, RemoveFinalizer
  <1>3. CASE Environment
    BY <1>3, ZenonT(60) DEF Environment, DeliverBackup, DeliverSecret, Resync, DeleteBackup, CreateBackup,
       SwitchRepository, CollectGarbage, ChangePVC, RemoveAnnotation, ChangePassword, ServerStarts, ServerStops,
       ChangeRepository, Land
  <1>. QED
    BY <1>2, <1>3, ZenonT(60) DEF Next, vars

\* A change of the PVC or of the repository of a backup the cache knows
\* enqueues the backup.
LEMMA SurroundingsStep ==
    ASSUME TypeOK, NEW b \in Backup, CaughtUp(backup[b]), Cur(b) # Nil, b \notin queue', [Next]_vars
    PROVE  /\ repos'[Cur(b).repo] = repos[Cur(b).repo]
           /\ PvcOf[b] \in pvcs' <=> PvcOf[b] \in pvcs
  <1>1. backup[b] \in Streams(BackupVersion)
    BY ZenonT(60) DEF TypeOK, BackupVersion
  <1>2. Cached(backup[b]) = Cur(b)
    BY <1>1, StreamCaughtUp, ZenonT(60) DEF Cur
  <1>3. CASE UNCHANGED <<repos, pvcs>>
    BY <1>3, ZenonT(60)
  <1>4. ASSUME NEW r \in Repo, NEW mode \in Mode, ChangeRepository(r, mode)
        PROVE  repos'[Cur(b).repo] = repos[Cur(b).repo] /\ pvcs' = pvcs
    <2>1. b \notin BackupsForRepo(r)
      BY <1>4, ZenonT(60) DEF ChangeRepository
    <2>2. Cur(b).repo # r
      BY <1>2, <2>1, ZenonT(60) DEF BackupsForRepo
    <2>3. repos' = [repos EXCEPT ![r] = mode] /\ pvcs' = pvcs
      BY <1>4, ZenonT(60) DEF ChangeRepository
    <2>4. Cur(b).repo \in Repo
      BY ReadTypes, ZenonT(60) DEF BackupVersion, BackupObj
    <2>. QED
      BY <2>2, <2>3, <2>4, ZenonT(60) DEF TypeOK
  <1>5. ASSUME NEW p \in PVC, ChangePVC(p) PROVE repos' = repos /\ (PvcOf[b] \in pvcs' <=> PvcOf[b] \in pvcs)
    <2>1. b \notin BackupsForPVC(p)
      BY <1>5, ZenonT(60) DEF ChangePVC
    <2>2. PvcOf[b] # p
      BY <1>2, <2>1, ZenonT(60) DEF BackupsForPVC
    <2>. QED
      BY <1>5, <2>2, ZenonT(60) DEF ChangePVC
  <1>6. CASE Reconcile
    BY <1>3, <1>6, ZenonT(60) DEF envVars, Reconcile, StartReconcile, AddFinalizer, ValidateDependencies, CreateSecret,
       CreateUserOnServer, RollbackSecret, MarkUserSynced, PersistCredentialsSecret, ReconcileBackupResources,
       ReportInvalid, LookupForCleanup, DeleteUserFromServer, DeleteSecret, RemoveFinalizer
  <1>7. CASE Environment
    BY <1>3, <1>4, <1>5, <1>7, ZenonT(60) DEF envVars, Environment, DeliverBackup, DeliverSecret, Resync, DeleteBackup,
       CreateBackup, SwitchRepository, CollectGarbage, RemoveAnnotation, ChangePassword, ServerStarts, ServerStops,
       Land, Restart
  <1>. QED
    BY <1>3, <1>6, <1>7, ZenonT(60) DEF Next, vars, envVars

\* A step after which nothing is pending for b has left b alone, or started
\* its reconcile or the operator.
LEMMA StillStep ==
    ASSUME TypeOK, FinalizerInv, DyingHeld, SecretsOwned, NEW b \in Backup, Alone(b), [Next]_vars, ~Pending(b)'
    PROVE  StartReconcile(b) \/ Restart \/ Still(b)
  <1> DEFINE p == PvcOf[b]
  <1>1. /\ backup[b] \in Streams(BackupVersion) /\ p \in PVC /\ secret[p] \in Streams(SecretVersion)
    BY ConstantsAssumption, ZenonT(60) DEF TypeOK, BackupVersion, SecretVersion
  <1>2. b \notin queue' /\ CaughtUp(backup'[b]) /\ CaughtUp(secret'[p])
    BY ZenonT(60) DEF Pending, CaughtUp
  <1> HIDE DEF p
  <1>3. backup'[b] = backup[b]
    <2>1. ASSUME NEW x \in Backup, DeliverBackup(x) PROVE backup'[b] = backup[b]
      <3>1. x # b
        BY <1>2, <2>1, ZenonT(60) DEF DeliverBackup
      <3>. QED
        BY <2>1, <3>1, DeliverBackupStep, ZenonT(60)
    <2>2. ASSUME NEW x \in Backup, NEW v \in BackupVersion, WriteBackup(x, v) PROVE backup'[b] = backup[b]
      <3>1. CASE x # b
        BY <2>2, <3>1, WriteBackupStep, ZenonT(60)
      <3>2. CASE x = b
        <4>1. backup'[b] = Put(backup[b], v)
          BY <2>2, <3>2, ZenonT(60) DEF WriteBackup, TypeOK
        <4>. QED
          BY <1>1, <1>2, <4>1, StreamQuiet, ZenonT(60)
      <3>. QED
        BY <3>1, <3>2, ZenonT(60)
    <2>. QED
      BY <2>1, <2>2, BackupSteps, ZenonT(60)
  <1>4. secret'[p] = secret[p]
    <2>1. ASSUME NEW x \in PVC, DeliverSecret(x) PROVE secret'[p] = secret[p]
      <3>1. CASE x # p
        BY <1>1, <2>1, <3>1, ZenonT(60) DEF DeliverSecret, TypeOK
      <3>2. CASE x = p
        <4>1. /\ ~CaughtUp(secret[p])
              /\ queue' = queue \cup {v.owner : v \in {secret[p][1], secret[p][2]} \ {Nil}}
          BY <2>1, <3>2, ZenonT(60) DEF DeliverSecret
        <4>2. /\ secret[p][1] # secret[p][2]
              /\ secret[p][1] \in Versions(secret[p]) /\ secret[p][2] \in Versions(secret[p])
          BY <1>1, <4>1, NoRepeatDeliver, ZenonT(60) DEF SecretsOwned
        <4>3. PICK v \in {secret[p][1], secret[p][2]} : v # Nil
          BY <4>2, ZenonT(60)
        <4>4. v \in Versions(secret[p]) /\ v \in SecretObj
          <5>1. Versions(secret[p]) \subseteq SecretVersion
            BY <1>1, StreamEnds, ZenonT(60)
          <5>. QED
            BY <4>2, <4>3, <5>1, ZenonT(60) DEF SecretVersion
        <4>5. v.owner \in Backup /\ PvcOf[v.owner] = p
          BY <1>1, <4>3, <4>4, ZenonT(60) DEF SecretObj, SecretsOwned
        <4>6. v.owner = b
          BY <4>5, ZenonT(60) DEF Alone, p
        <4>. QED
          BY <1>2, <4>1, <4>3, <4>6, ZenonT(60)
      <3>. QED
        BY <3>1, <3>2, ZenonT(60)
    <2>2. ASSUME NEW x \in PVC, NEW v \in SecretVersion, WriteSecret(x, v) PROVE secret'[p] = secret[p]
      <3>1. CASE x # p
        BY <1>1, <2>2, <3>1, WriteSecretStep, ZenonT(60)
      <3>2. CASE x = p
        <4>1. secret'[p] = Put(secret[p], v)
          BY <1>1, <2>2, <3>2, ZenonT(60) DEF WriteSecret, TypeOK
        <4>. QED
          BY <1>1, <1>2, <4>1, StreamQuiet, ZenonT(60)
      <3>. QED
        BY <3>1, <3>2, ZenonT(60)
    <2>. QED
      BY <1>1, <2>1, <2>2, SecretWrites, ZenonT(60)
  <1>5. CaughtUp(backup[b]) /\ CaughtUp(secret[p])
    BY <1>2, <1>3, <1>4, ZenonT(60)
  <1>6. CASE b \notin queue
    <2>1. ~Pending(b)
      BY <1>5, <1>6, ZenonT(60) DEF Pending, p
    <2>2. Cur(b) # Nil => /\ repos'[Cur(b).repo] = repos[Cur(b).repo]
                          /\ PvcOf[b] \in pvcs' <=> PvcOf[b] \in pvcs
      BY <1>2, <1>5, SurroundingsStep, ZenonT(60)
    <2>. QED
      BY <1>3, <1>4, <2>1, <2>2, ZenonT(60) DEF Still, p
  <1>7. CASE b \in queue
    BY <1>2, <1>7, QueueStep, ZenonT(60)
  <1>. QED
    BY <1>6, <1>7, ZenonT(60)

\* Such a step keeps Rest(b) unless the reconcile of b goes on.
LEMMA RestKept ==
    ASSUME TypeOK, FreshInv, NEW b \in Backup, Rest(b), Still(b),
           \/ UNCHANGED job
           \/ job.b # b /\ job'.b # b
           \/ job.b = b /\ job'.b = b /\ ~job'.fresh
    PROVE  Rest(b)'
  <1>1. Cur(b)' = Cur(b) /\ CurSecret(PvcOf[b])' = CurSecret(PvcOf[b])
    BY ZenonT(60) DEF Still, Cur, CurSecret
  <1>2. CASE job.b # b /\ job'.b # b
    BY <1>1, <1>2, ZenonT(60) DEF Rest, Still, Alone, Settled
  <1>3. CASE job'.b = b /\ ~job'.fresh
    BY <1>3, ZenonT(60) DEF Rest
  <1>4. CASE UNCHANGED job /\ job.b = b /\ job.fresh
    <2>1. Cur(b) # Nil
      <3>1. job # IdleJob
        BY <1>4, SMTT(60) DEF IdleJob
      <3>2. job \in Job /\ job.pc # "idle"
        BY <3>1, JobTypes, ZenonT(60) DEF Job, Phase, Provisioning, Finalizing
      <3>. QED
        BY <1>4, <3>2, ZenonT(60) DEF FreshInv
    <2>2. ASSUME Alone(b) PROVE OnTrack
      BY <1>4, <2>2, ZenonT(60) DEF Rest, Still
    <2>3. ASSUME OnTrack PROVE OnTrack'
      BY <1>1, <1>4, <2>1, <2>3, ZenonT(60) DEF OnTrack, Still, MyPvc
    <2>. QED
      BY <1>4, <2>2, <2>3, ZenonT(60) DEF Rest, Alone
  <1>. QED
    BY <1>2, <1>3, <1>4, ZenonT(60)

\* OnTrack for the next phase, in what Still leaves as it is.
NextTrack ==
    LET r == job.obj.repo
        missing == MyPvc \notin pvcs \/ repos[r] = "absent"
    IN /\ job'.pc = "invalid" => missing /\ job'.obj.ready = "NotFound"
       /\ job'.pc \in Unsettled => ~missing /\ repos[r] = "server"
       /\ job'.pc \in Unsettled \ {"createSecret"} => CurSecret(MyPvc) # Nil
       /\ job'.pc = "resources" =>
              /\ ~missing
              /\ repos[r] = "server" => job'.obj.cred /\ job'.obj.connected /\ CurSecret(MyPvc) # Nil

\* The reconcile of b goes on to its next phase.
LEMMA TrackGoes ==
    ASSUME TypeOK, FreshInv, NEW b \in Backup, Alone(b), Rest(b), Still(b), job.pc # "idle",
           job.b = b, job'.b = b, job'.fresh = job.fresh, job'.obj.repo = job.obj.repo,
           job.fresh /\ OnTrack => NextTrack
    PROVE  Rest(b)'
  <1>1. CASE ~job.fresh
    BY <1>1, ZenonT(60) DEF Rest
  <1>2. CASE job.fresh
    <2>1. Cur(b)' = Cur(b) /\ CurSecret(PvcOf[b])' = CurSecret(PvcOf[b])
      BY ZenonT(60) DEF Still, Cur, CurSecret
    <2>2. Cur(b) # Nil
      BY <1>2, ZenonT(60) DEF FreshInv
    <2>3. OnTrack
      BY <1>2, ZenonT(60) DEF Rest, Still
    <2>4. NextTrack /\ job.obj.repo = Cur(b).repo
      BY <1>2, <2>3, ZenonT(60) DEF OnTrack
    <2>5. /\ repos'[job.obj.repo] = repos[job.obj.repo]
          /\ PvcOf[b] \in pvcs' <=> PvcOf[b] \in pvcs
      BY <2>2, <2>4, ZenonT(60) DEF Still
    <2>6. OnTrack'
      BY <2>1, <2>4, <2>5, ZenonT(60) DEF NextTrack, OnTrack, MyPvc
    <2>. QED
      BY <2>6, ZenonT(60) DEF Rest
  <1>. QED
    BY <1>1, <1>2, ZenonT(60)

\* A phase about which OnTrack says nothing.
LEMMA TrackFree ==
    ASSUME job'.pc \in {"validate", "rollback", "delUser", "delSecret", "dropFin"}
    PROVE  NextTrack
  <1>1. job'.pc \notin Unsettled /\ job'.pc # "invalid" /\ job'.pc # "resources"
    BY DEF Unsettled
  <1>. QED
    BY <1>1, ZenonT(60) DEF NextTrack

\* The reconcile of b reads and writes with nothing pending.
LEMMA RestGoes ==
    ASSUME TypeOK, FreshInv, NEW b \in Backup, Alone(b), Rest(b), Still(b), ~Pending(b)', job.b = b,
           \/ AddFinalizer \/ ValidateDependencies \/ CreateSecret \/ CreateUserOnServer \/ RollbackSecret
           \/ MarkUserSynced \/ PersistCredentialsSecret
           \/ LookupForCleanup \/ DeleteUserFromServer \/ DeleteSecret
    PROVE  Rest(b)'
  <1>1. job # IdleJob
    BY NilAssumption, SMTT(60) DEF IdleJob
  <1>2. job \in Job /\ job.pc # "idle" /\ MyPvc \in PVC /\ job.obj \in BackupObj
    BY <1>1, JobTypes, ZenonT(60) DEF Job, Phase, Provisioning, Finalizing
  <1>3. ~Retry
    BY ZenonT(60) DEF Retry, Pending
  <1>4. ASSUME NEW ph, Goto(ph) PROVE job' = [job EXCEPT !.pc = ph] /\ job'.pc = ph /\ job'.obj = job.obj
    BY <1>2, <1>4, ZenonT(60) DEF Goto, Job
  <1>5. ASSUME NEW ph, Goto(ph), job.fresh /\ OnTrack => NextTrack PROVE Rest(b)'
    <2>1. job'.b = job.b /\ job'.fresh = job.fresh /\ job'.obj = job.obj
      BY <1>2, <1>5, ZenonT(60) DEF Goto, Job
    <2>. QED
      BY <1>2, <1>5, <2>1, TrackGoes, ZenonT(60)
  <1>6. ASSUME NEW ph \in {"rollback", "delUser", "delSecret", "dropFin"}, Goto(ph) PROVE Rest(b)'
    <2>1. job'.pc \in {"validate", "rollback", "delUser", "delSecret", "dropFin"}
      BY <1>4, <1>6, ZenonT(60)
    <2>. QED
      BY <1>5, <1>6, <2>1, TrackFree, ZenonT(60)
  <1>7. CASE AddFinalizer
    <2> DEFINE o == [job.obj EXCEPT !.fin = TRUE]
    <2>1. job' = [job EXCEPT !.pc = "validate", !.obj = o]
      BY <1>3, <1>7, ZenonT(60) DEF AddFinalizer, Conflict
    <2>2. o.repo = job.obj.repo
      BY <1>2, ZenonT(60) DEF BackupObj
    <2> HIDE DEF o
    <2>3. job'.pc = "validate" /\ job'.b = job.b /\ job'.fresh = job.fresh /\ job'.obj = o
      BY <1>2, <2>1, ZenonT(60) DEF Job
    <2>4. NextTrack
      BY <2>3, TrackFree, ZenonT(60)
    <2>. QED
      BY <1>2, <2>2, <2>3, <2>4, TrackGoes, ZenonT(60)
  <1>8. CASE ValidateDependencies
    <2> DEFINE r == job.obj.repo
               c == Cached(secret[MyPvc])
    <2>1. c = CurSecret(MyPvc)
      <3>1. secret[MyPvc] \in Streams(SecretVersion) /\ CaughtUp(secret[MyPvc])
        BY <1>2, ZenonT(60) DEF TypeOK, SecretVersion, Still, Pending, MyPvc
      <3>. QED
        BY <3>1, StreamCaughtUp, ZenonT(60) DEF CurSecret
    <2>2. CASE /\ MyPvc \notin pvcs \/ repos[r] = "absent"
               /\ job' = [job EXCEPT !.pc = "invalid", !.obj.ready = "NotFound"]
      <3>1. /\ job'.pc = "invalid" /\ job'.b = job.b /\ job'.fresh = job.fresh
            /\ job'.obj.ready = "NotFound" /\ job'.obj.repo = job.obj.repo
        BY <1>2, <2>2, ZenonT(60) DEF Job, BackupObj
      <3>2. "invalid" \notin Unsettled
        BY DEF Unsettled
      <3>3. NextTrack
        BY <2>2, <3>1, <3>2, ZenonT(60) DEF NextTrack
      <3>. QED
        BY <1>2, <3>1, <3>3, TrackGoes, ZenonT(60)
    <2>3. CASE MyPvc \in pvcs /\ repos[r] = "direct" /\ Goto("resources")
      <3>1. job'.pc = "resources" /\ repos[r] # "absent" /\ repos[r] # "server"
        BY <1>4, <2>3, ZenonT(60)
      <3>2. "resources" \notin Unsettled
        BY DEF Unsettled
      <3>3. NextTrack
        BY <2>3, <3>1, <3>2, ZenonT(60) DEF NextTrack
      <3>. QED
        BY <1>5, <2>3, <3>3, ZenonT(60)
    <2>4. ASSUME MyPvc \in pvcs, repos[r] = "server", NEW ph \in Unsettled, NEW x,
                 ph # "createSecret" => c # Nil,
                 job' = [job EXCEPT !.pc = ph, !.repo = r, !.creds = x]
          PROVE  Rest(b)'
      <3>1. job'.pc = ph /\ job'.b = job.b /\ job'.fresh = job.fresh /\ job'.obj = job.obj
        BY <1>2, <2>4, ZenonT(60) DEF Job
      <3>2. ph # "invalid" /\ ph # "resources" /\ repos[r] # "absent"
        BY <2>4 DEF Unsettled
      <3>3. NextTrack
        BY <2>1, <2>4, <3>1, <3>2, ZenonT(60) DEF NextTrack
      <3>. QED
        BY <1>2, <3>1, <3>3, TrackGoes, ZenonT(60)
    <2>5. {"createSecret", "persist", "setUser"} \subseteq Unsettled
      BY DEF Unsettled
    <2>. QED
      BY <1>3, <1>8, <2>2, <2>3, <2>4, <2>5, ZenonT(60) DEF ValidateDependencies
  <1>9. ~CreateSecret
    <2>1. CASE CreateSecret
      <3>1. CurSecret(MyPvc) = Nil /\ Mint /\ WriteSecret(MyPvc, NewSecret)
        BY <1>3, <2>1, ZenonT(60) DEF CreateSecret, NewSecret
      <3>2. SecretMade
        BY <1>3, <2>1, <3>1, ZenonT(60) DEF SecretMade, CreateSecret, NewSecret
      <3>3. NewSecret \in SecretVersion /\ NewSecret # Nil
        BY <3>2, SecretWritten, NilAssumption, ZenonT(60) DEF SecretVersion
      <3>4. Current(secret'[MyPvc]) = NewSecret
        BY <1>2, <3>1, <3>3, WriteSecretStep, ZenonT(60)
      <3>5. secret'[MyPvc] = secret[MyPvc]
        BY ZenonT(60) DEF Still, MyPvc
      <3>. QED
        BY <3>1, <3>3, <3>4, <3>5, ZenonT(60) DEF CurSecret
    <2>. QED
      BY <2>1
  <1>10. CASE CreateUserOnServer \/ MarkUserSynced
    <2>1. \/ job.pc = "setUser" /\ Goto("mark")
          \/ job.pc = "mark" /\ Goto("persist")
          \/ Goto("rollback")
      BY <1>3, <1>10, ZenonT(60) DEF CreateUserOnServer, SetUserFailed, MarkUserSynced
    <2>2. CASE Goto("rollback")
      BY <1>6, <2>2, ZenonT(60)
    <2>3. ASSUME NEW ph \in {"mark", "persist"}, job.pc \in {"setUser", "mark"}, Goto(ph) PROVE Rest(b)'
      <3>1. /\ job.pc \in Unsettled /\ job.pc \in Unsettled \ {"createSecret"}
            /\ ph # "invalid" /\ ph # "resources"
        BY <2>3 DEF Unsettled
      <3>2. job'.pc = ph
        BY <1>4, <2>3, ZenonT(60)
      <3>3. OnTrack => NextTrack
        BY <3>1, <3>2, ZenonT(60) DEF NextTrack, OnTrack
      <3>. QED
        BY <1>5, <2>3, <3>3, ZenonT(60)
    <2>. QED
      BY <2>1, <2>2, <2>3, ZenonT(60)
  <1>11. CASE PersistCredentialsSecret
    <2> DEFINE o == [[job.obj EXCEPT !.cred = TRUE] EXCEPT !.connected = TRUE]
    <2>1. job.pc = "persist" /\ job' = [job EXCEPT !.pc = "resources", !.obj = o]
      BY <1>3, <1>11, ZenonT(60) DEF PersistCredentialsSecret, Conflict
    <2>2. o.repo = job.obj.repo /\ o.cred /\ o.connected
      BY <1>2, ZenonT(60) DEF BackupObj
    <2> HIDE DEF o
    <2>3. job'.pc = "resources" /\ job'.b = job.b /\ job'.fresh = job.fresh /\ job'.obj = o
      BY <1>2, <2>1, ZenonT(60) DEF Job
    <2>4. "resources" \notin Unsettled /\ "persist" \in Unsettled \ {"createSecret"}
      BY DEF Unsettled
    <2>5. OnTrack => NextTrack
      BY <2>1, <2>2, <2>3, <2>4, ZenonT(60) DEF OnTrack, NextTrack
    <2>. QED
      BY <1>2, <2>2, <2>3, <2>5, TrackGoes, ZenonT(60)
  <1>12. CASE LookupForCleanup
    <2>1. job'.pc \in {"delUser", "dropFin"} /\ job'.b = job.b /\ job'.fresh = job.fresh /\ job'.obj = job.obj
      BY <1>2, <1>12, ZenonT(60) DEF LookupForCleanup, Job
    <2>2. job'.pc \in {"validate", "rollback", "delUser", "delSecret", "dropFin"}
      BY <2>1
    <2>3. NextTrack
      BY <2>2, TrackFree, ZenonT(60)
    <2>. QED
      BY <1>2, <2>1, <2>3, TrackGoes, ZenonT(60)
  <1>13. CASE DeleteUserFromServer \/ DeleteSecret
    <2>1. Goto("delSecret") \/ Goto("dropFin")
      BY <1>3, <1>13, ZenonT(60) DEF DeleteUserFromServer, DeleteSecret
    <2>. QED
      BY <1>6, <2>1, ZenonT(60)
  <1>14. ~RollbackSecret
    BY <1>3, ZenonT(60) DEF RollbackSecret
  <1>. QED
    BY <1>7, <1>8, <1>9, <1>10, <1>11, <1>12, <1>13, <1>14, ZenonT(60)

\* The reconcile of b ends with nothing pending: it has written what it found.
LEMMA RestEnds ==
    ASSUME TypeOK, FinalizerInv, FreshInv, NEW b \in Backup, Alone(b), Rest(b), Still(b), ~Pending(b)', job.b = b,
           ReconcileBackupResources \/ ReportInvalid \/ RemoveFinalizer
    PROVE  Rest(b)'
  <1>1. job # IdleJob
    BY NilAssumption, SMTT(60) DEF IdleJob
  <1>2. job.obj \in BackupObj
    BY <1>1, JobTypes, ZenonT(60)
  <1>3. ~Retry
    BY ZenonT(60) DEF Retry, Pending
  <1>4. Done => job'.b # b
    <2>1. IdleJob.b = Nil
      BY DEF IdleJob
    <2>. QED
      BY <2>1, NilAssumption, ZenonT(60) DEF Done
  <1>5. CASE RemoveFinalizer
    <2>1. WriteBackup(b, Nil) /\ Done
      BY <1>3, <1>5, ZenonT(60) DEF RemoveFinalizer, Conflict
    <2>2. Current(backup'[b]) = Nil
      BY <2>1, WriteBackupStep, ZenonT(60) DEF BackupVersion
    <2>. QED
      BY <1>4, <2>1, <2>2, ZenonT(60) DEF Rest, Cur
  <1>6. ASSUME NEW o \in BackupObj, WriteBackup(b, o), Done, job.fresh, job.pc \in {"invalid", "resources"},
               o.fin = job.obj.fin, o.deleting = job.obj.deleting, o.repo = job.obj.repo,
               o.cred = job.obj.cred, o.connected = job.obj.connected,
               job.pc = "invalid" => o.ready = job.obj.ready,
               job.pc = "resources" => o.ready = "UpToDate"
        PROVE  Rest(b)'
    <2>1. Cur(b)' = o /\ Cur(b)' = Cur(b) /\ CurSecret(PvcOf[b])' = CurSecret(PvcOf[b])
      <3>1. Current(backup'[b]) = o
        BY <1>6, WriteBackupStep, ZenonT(60) DEF BackupVersion
      <3>. QED
        BY <3>1, ZenonT(60) DEF Still, Cur, CurSecret
    <2>2. job.pc \in Provisioning /\ job.pc # "idle"
      BY <1>6 DEF Provisioning
    <2>3. o.fin /\ ~o.deleting /\ Cur(b) # Nil
      BY <1>6, <2>2, ZenonT(60) DEF FinalizerInv, FreshInv
    <2>4. OnTrack
      BY <1>6, ZenonT(60) DEF Rest, Still
    <2>5. /\ repos'[o.repo] = repos[o.repo]
          /\ PvcOf[b] \in pvcs' <=> PvcOf[b] \in pvcs
      BY <1>6, <2>3, <2>4, ZenonT(60) DEF Still, OnTrack
    <2> DEFINE missing == PvcOf[b] \notin pvcs \/ repos[o.repo] = "absent"
    <2>6. /\ missing => o.ready = "NotFound"
          /\ ~missing => o.ready = "UpToDate"
          /\ ~missing /\ repos[o.repo] = "server" => o.cred /\ o.connected /\ CurSecret(PvcOf[b]) # Nil
      <3>1. CASE job.pc = "invalid"
        BY <1>6, <2>4, <3>1, ZenonT(60) DEF OnTrack, MyPvc
      <3>2. CASE job.pc = "resources"
        BY <1>6, <2>4, <3>2, ZenonT(60) DEF OnTrack, MyPvc
      <3>. QED
        BY <1>6, <3>1, <3>2, ZenonT(60)
    <2>7. Settled(b)'
      BY <2>1, <2>3, <2>5, <2>6, ZenonT(60) DEF Settled
    <2>. QED
      BY <1>4, <1>6, <2>7, ZenonT(60) DEF Rest
  <1>7. CASE ReportInvalid
    <2>1. job.pc = "invalid" /\ job.fresh /\ WriteBackup(b, job.obj) /\ Done
      BY <1>3, <1>7, ZenonT(60) DEF ReportInvalid, UpdateStatus, UpdateStatusFailed, Conflict
    <2>2. job.pc # "resources" /\ job.pc \in {"invalid", "resources"}
      BY <2>1
    <2>. QED
      BY <1>2, <1>6, <2>1, <2>2, ZenonT(60)
  <1>8. CASE ReconcileBackupResources
    <2> DEFINE o == [job.obj EXCEPT !.ready = "UpToDate"]
    <2>1. job.pc = "resources" /\ job.fresh /\ WriteBackup(b, o) /\ Done
      BY <1>3, <1>8, ZenonT(60) DEF ReconcileBackupResources, UpdateStatus, UpdateStatusFailed, Conflict
    <2>2. job.pc # "invalid" /\ job.pc \in {"invalid", "resources"}
      BY <2>1
    <2>3. /\ o \in BackupObj /\ o.fin = job.obj.fin /\ o.deleting = job.obj.deleting /\ o.repo = job.obj.repo
          /\ o.cred = job.obj.cred /\ o.connected = job.obj.connected /\ o.ready = "UpToDate"
      BY <1>2, ZenonT(60) DEF BackupObj, Reason
    <2> HIDE DEF o
    <2>. QED
      BY <1>6, <2>1, <2>2, <2>3, ZenonT(60)
  <1>. QED
    BY <1>5, <1>7, <1>8, ZenonT(60)

\* The reconcile of b, or the operator, starts with nothing left pending.
LEMMA RestStart ==
    ASSUME TypeOK, DyingHeld, NEW b \in Backup, StartReconcile(b) \/ Restart, ~Pending(b)'
    PROVE  Rest(b)'
  <1> DEFINE o == Cached(backup[b])
  <1>1. backup' = backup /\ backup[b] \in Streams(BackupVersion) /\ CaughtUp(backup[b])
    BY ZenonT(60) DEF StartReconcile, Restart, apiVars, Pending, TypeOK, BackupVersion
  <1>2. o = Cur(b) /\ Cur(b)' = Cur(b) /\ o \in Versions(backup[b])
    BY <1>1, StreamCaughtUp, StreamEnds, ZenonT(60) DEF Cur
  <1>3. CASE o = Nil
    <2>1. job' = IdleJob
      BY <1>3, ZenonT(60) DEF StartReconcile, Restart
    <2>2. job'.b # b
      BY <2>1, NilAssumption, ZenonT(60) DEF IdleJob
    <2>. QED
      BY <1>2, <1>3, <2>2, ZenonT(60) DEF Rest
  <1>4. CASE o # Nil
    <2>1. StartReconcile(b)
      BY <1>4, ZenonT(60) DEF Restart, Pending
    <2>2. ~(o.deleting /\ ~o.fin)
      BY <1>2, <1>4, ZenonT(60) DEF DyingHeld
    <2>3. job' = [IdleJob EXCEPT !.pc = FirstPhase(o), !.b = b, !.obj = o, !.fresh = CaughtUp(backup[b])]
      BY <1>4, <2>1, <2>2, ZenonT(60) DEF StartReconcile
    <2> HIDE DEF o
    <2>4. job'.pc = FirstPhase(o) /\ job'.b = b /\ job'.obj = o
      BY <2>3, ZenonT(60) DEF IdleJob
    <2>5. FirstPhase(o) \in {"finalize", "addFin", "validate"}
      BY DEF FirstPhase
    <2>6. job'.pc \notin Unsettled /\ job'.pc # "invalid" /\ job'.pc # "resources"
      BY <2>4, <2>5, ZenonT(60) DEF Unsettled
    <2>7. OnTrack'
      BY <1>2, <2>4, <2>6, ZenonT(60) DEF OnTrack
    <2>. QED
      BY <2>4, <2>7, ZenonT(60) DEF Rest
  <1>. QED
    BY <1>3, <1>4, ZenonT(60)

\* Once started, the worker stays on its backup until it is idle again.
LEMMA OwnJob ==
    ASSUME TypeOK, Reconcile, ~(\E x \in Backup : StartReconcile(x))
    PROVE  job'.b \in {job.b, Nil}
  <1> USE DEF Done, Retry, Goto, Conflict, ApiFault
  <1>1. job # IdleJob
    <2> DEFINE pcs == {"addFin", "validate", "createSecret", "setUser", "rollback", "mark", "persist",
                       "resources", "invalid", "finalize", "delUser", "delSecret", "dropFin"}
    <2>1. job.pc \in pcs
      BY ZenonT(60) DEF Reconcile, AddFinalizer, ValidateDependencies, CreateSecret, CreateUserOnServer,
         RollbackSecret, MarkUserSynced, PersistCredentialsSecret, ReconcileBackupResources, ReportInvalid,
         LookupForCleanup, DeleteUserFromServer, DeleteSecret, RemoveFinalizer
    <2>2. job.pc # "idle" /\ IdleJob.pc = "idle"
      BY <2>1, ZenonT(60) DEF IdleJob
    <2>. QED
      BY <2>2, ZenonT(60)
  <1>2. job \in Job /\ IdleJob.b = Nil
    BY <1>1, JobTypes, ZenonT(60) DEF IdleJob
  <1>. QED
    BY <1>2, ZenonT(60) DEF Reconcile, AddFinalizer, ValidateDependencies, CreateSecret, CreateUserOnServer,
       SetUserFailed, RollbackSecret, MarkUserSynced, PersistCredentialsSecret, ReconcileBackupResources, ReportInvalid,
       UpdateStatus, UpdateStatusFailed, LookupForCleanup, DeleteUserFromServer, DeleteSecret, RemoveFinalizer, Job

\* RestInv is inductive.
LEMMA RestStep == TypeOK /\ FinalizerInv /\ FreshInv /\ RestInv /\ [Next]_vars => RestInv'
  <1> SUFFICES ASSUME TypeOK, FinalizerInv, FreshInv, RestInv, [Next]_vars PROVE RestInv'
    OBVIOUS
  <1>1. DyingHeld /\ SecretsOwned /\ \A b \in Backup : Rest(b)
    BY ZenonT(60) DEF RestInv
  <1>2. DyingHeld' /\ SecretsOwned'
    BY <1>1, DyingStep, OwnedStep, ZenonT(60)
  <1>3. ASSUME NEW b \in Backup PROVE Rest(b)'
    <2> SUFFICES ASSUME Alone(b), ~Pending(b)' PROVE Rest(b)'
      BY ZenonT(60) DEF Rest, Alone
    <2>0. Rest(b)
      BY <1>1
    <2>1. CASE StartReconcile(b) \/ Restart
      BY <1>1, <2>1, RestStart, ZenonT(60)
    <2>2. CASE ~StartReconcile(b) /\ ~Restart
      <3>1. Still(b)
        BY <1>1, <2>2, StillStep, ZenonT(60)
      <3>2. ASSUME UNCHANGED job PROVE Rest(b)'
        BY <2>0, <3>1, <3>2, RestKept, ZenonT(60)
      <3>3. ASSUME NEW x \in Backup, StartReconcile(x) PROVE Rest(b)'
        <4>1. x # b /\ job = IdleJob
          BY <2>2, <3>3, ZenonT(60) DEF StartReconcile
        <4>2. job'.b \in {Nil, x}
          BY <3>3, ZenonT(60) DEF StartReconcile, IdleJob
        <4>3. job.b # b /\ job'.b # b
          BY <4>1, <4>2, NilAssumption, ZenonT(60) DEF IdleJob
        <4>. QED
          BY <2>0, <3>1, <4>3, RestKept, ZenonT(60)
      <3>4. ASSUME NEW x \in Backup, Invalidate(x) PROVE Rest(b)'
        <4>1. CASE job.b = x
          <5>1. job' = [job EXCEPT !.fresh = FALSE]
            BY <3>4, <4>1, ZenonT(60) DEF Invalidate
          <5>2. job # IdleJob
            BY <4>1, NilAssumption, SMTT(60) DEF IdleJob
          <5>3. job'.b = job.b /\ ~job'.fresh
            BY <5>1, <5>2, JobTypes, ZenonT(60) DEF Job
          <5>. QED
            BY <2>0, <3>1, <5>3, RestKept, ZenonT(60)
        <4>2. CASE job.b # x
          BY <3>2, <3>4, <4>2, ZenonT(60) DEF Invalidate
        <4>. QED
          BY <4>1, <4>2
      <3>5. CASE Environment
        BY <2>2, <3>2, <3>4, <3>5, ZenonT(60) DEF Environment, DeliverBackup, DeliverSecret, Resync, DeleteBackup,
           CreateBackup, SwitchRepository, CollectGarbage, ChangePVC, RemoveAnnotation, ChangePassword, ServerStarts,
           ServerStops, ChangeRepository, Land, opVars
      <3>6. ASSUME job.b # b, ~(\E x \in Backup : StartReconcile(x)), Reconcile PROVE Rest(b)'
        <4>1. job'.b \in {job.b, Nil}
          BY <3>6, OwnJob, ZenonT(60)
        <4>. QED
          BY <2>0, <3>1, <3>6, <4>1, NilAssumption, RestKept, ZenonT(60)
      <3>7. CASE Reconcile
        BY <2>0, <3>1, <3>3, <3>6, <3>7, RestGoes, RestEnds, ZenonT(60) DEF Reconcile
      <3>8. CASE UNCHANGED vars
        BY <3>2, <3>8, ZenonT(60) DEF vars, opVars
      <3>. QED
        BY <3>5, <3>7, <3>8, ZenonT(60) DEF Next
    <2>. QED
      BY <2>1, <2>2, ZenonT(60)
  <1>. QED
    BY <1>2, <1>3, ZenonT(60) DEF RestInv

\* RestIsDone: for every number of backups, repositories and PVCs, every lag
\* of the caches and every fault of the API server, the exec commands and the
\* operator, a backup that is alone on its PVC and that nothing will reconcile
\* again is settled: no wake-up the controller relies on is lost.
THEOREM RestDone == Spec => []RestIsDone
  <1>1. Init => RestInv
    <2> SUFFICES ASSUME Init PROVE RestInv
      OBVIOUS
    <2>1. ASSUME NEW b \in Backup PROVE Cur(b) = Nil /\ Versions(backup[b]) = {Nil} /\ job.b # b
      BY NilAssumption, SMTT(60) DEF Init, Cur, Current, Versions, IdleJob
    <2>2. ASSUME NEW p \in PVC PROVE NoRepeat(secret[p]) /\ Versions(secret[p]) = {Nil}
      BY SMTT(60) DEF Init, NoRepeat, Versions
    <2>3. DyingHeld /\ SecretsOwned
      BY <2>1, <2>2, SMTT(60) DEF DyingHeld, SecretsOwned
    <2>4. ASSUME NEW b \in Backup PROVE Rest(b)
      BY <2>1, ZenonT(60) DEF Rest
    <2>. QED
      BY <2>3, <2>4, ZenonT(60) DEF RestInv
  <1>2. Spec => [](TypeOK /\ FinalizerInv /\ FreshInv)
    BY FinalizerInit, FreshInit, TypeCorrect, FinalizerStep, LifecycleStep, PTL DEF Spec
  <1>3. RestInv => RestIsDone
    BY ZenonT(60) DEF RestInv, RestIsDone, Rest, AtRest, Pending
  <1>. QED
    BY <1>1, <1>2, <1>3, RestStep, PTL DEF Spec
=============================================================================
