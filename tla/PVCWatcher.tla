----------------------------- MODULE PVCWatcher -----------------------------
(***************************************************************************)
(* The pvc-watcher controller: it creates a KopiaBackup for a PVC that     *)
(* carries the repository label, keeps its schedule in step with the PVC   *)
(* and deletes it when the label goes.  The KopiaBackup has the name of    *)
(* the PVC.  The controller watches PVCs only, so nothing but an event of  *)
(* the PVC, an error or a restart brings a PVC back to its work queue.     *)
(*                                                                         *)
(* All PVCs live in one namespace, Home.  The KopiaBackup controller       *)
(* appears as a client that adds and removes its finalizer and writes the  *)
(* status.                                                                 *)
(***************************************************************************)
EXTENDS WatchStream

CONSTANTS
    PVC,           \* names of PVCs, and of the KopiaBackups made for them
    Namespace,     \* namespaces that may hold KopiaRepositories
    Home,          \* the namespace of the PVCs
    Repo,          \* names of KopiaRepositories
    Schedule,      \* cron expressions
    BadSchedule,   \* those validateCronSchedule refuses
    DefaultOf,     \* defaultSchedule of the repositories there at the start
    Nil,           \* no object, no label, no annotation, no owner
    Scenario,      \* what may happen in a behaviour, and how often
    MaxUid,        \* bound: how many PVC objects are ever created
    MaxLag         \* bound: versions between the API server and a cache

FaultKind == {"api", "crash"}

EditKind == {"label", "unlabel", "schedule", "pvc", "delete", "manual",
             "createRepo", "changeRepo"}

\* "lag": the reconcile may read a KopiaBackup cache that is behind.
Kind == FaultKind \cup EditKind \cup {"lag"}

Uid == 1 .. MaxUid

\* A PVC: its UID, the repository label and the schedule annotation.
PvcObj == [uid : Uid, label : Repo \cup {Nil}, sched : Schedule \cup {Nil}]

\* A KopiaBackup: the UID of the PVC that controls it (Nil when a person made
\* it), status.autoCreated, the schedule, the finalizer, deletionTimestamp,
\* and whether the KopiaBackup controller has written the status.
BackupObj == [owner : Uid \cup {Nil}, auto : BOOLEAN, sched : Schedule,
              fin : BOOLEAN, deleting : BOOLEAN, reported : BOOLEAN]

Phase == {"get", "delete", "markAuto", "sync", "create", "markNew"}

\* The reconcile in progress: its phase, the PVC and the copy of it in hand,
\* the copy of the KopiaBackup and whether its resourceVersion is current.
Job == [pc : Phase, p : PVC, pvc : PvcObj, obj : BackupObj \cup {Nil}, fresh : BOOLEAN]

IdleJob == [pc |-> "idle", p |-> Nil, pvc |-> Nil, obj |-> Nil, fresh |-> FALSE]

ASSUME ConstantsAssumption ==
    /\ Home \in Namespace
    /\ BadSchedule \subseteq Schedule
    /\ DefaultOf \in [Namespace \X Repo -> Schedule \cup {Nil}]
    /\ Scenario \subseteq [kinds : SUBSET Kind, faults : Nat, edits : Nat]
    /\ MaxUid \in Nat \ {0}
    /\ MaxLag \in Nat \ {0, 1}

ASSUME NilAssumption ==
    Nil \notin PVC \cup Repo \cup Schedule \cup Uid \cup PvcObj \cup BackupObj

VARIABLES
    pvc,      \* the stream of each PVC
    backup,   \* the stream of the KopiaBackup of each name
    repos,    \* defaultSchedule of each KopiaRepository there is, as cached
    uids,     \* UIDs given to PVCs so far
    queue,    \* the controller's work queue
    job,      \* the reconcile in progress
    allowed,  \* the kinds of things that happen in this behaviour
    faults,   \* faults that may still happen
    edits     \* changes other clients may still make

budgets == <<allowed, faults, edits>>
vars == <<pvc, backup, repos, uids, queue, job, budgets>>

CurPvc(p) == Current(pvc[p])
Cur(p) == Current(backup[p])

NewPvc(uid) == [uid |-> uid, label |-> Nil, sched |-> Nil]

\* The operator starts; PVCs may have the label already.
Init ==
    /\ \E r \in Repo \cup {Nil} : pvc = [p \in PVC |-> <<[NewPvc(1) EXCEPT !.label = r]>>]
    /\ backup = [p \in PVC |-> <<Nil>>]
    /\ repos = DefaultOf
    /\ uids = 1
    /\ queue = PVC
    /\ job = IdleJob
    /\ \E sc \in Scenario : allowed = sc.kinds /\ faults = sc.faults /\ edits = sc.edits
-----------------------------------------------------------------------------
(***************************************************************************)
(* Building blocks                                                         *)
(***************************************************************************)
Fault(kind) == kind \in allowed /\ faults > 0 /\ faults' = faults - 1 /\ UNCHANGED <<allowed, edits>>

Edit(kind) == kind \in allowed /\ edits > 0 /\ edits' = edits - 1 /\ UNCHANGED <<allowed, faults>>

WritePvc(p, v) ==
    /\ Len(pvc[p]) < MaxLag
    /\ pvc' = [pvc EXCEPT ![p] = Put(@, v)]

WriteBackup(p, v) ==
    /\ Len(backup[p]) < MaxLag
    /\ backup' = [backup EXCEPT ![p] = Put(@, v)]

\* A write by another client: a copy the watcher holds becomes outdated.
Invalidate(p) == job' = IF job.p = p THEN [job EXCEPT !.fresh = FALSE] ELSE job

\* What a Delete call leaves of an object.
Deleted(o) == IF o.fin THEN [o EXCEPT !.deleting = TRUE] ELSE Nil

Done == job' = IdleJob /\ UNCHANGED queue

\* The reconcile returns an error.
Retry == job' = IdleJob /\ queue' = queue \cup {job.p}

\* A write is refused or fails: the copy is outdated or its object gone, the
\* webhook rejects the schedule, or the API server fails.
Refused(o) == (~job.fresh \/ o.sched \in BadSchedule) /\ UNCHANGED <<backup, budgets>> /\ Retry

ApiFault == Fault("api") /\ UNCHANGED backup /\ Retry

\* getKopiaRepository: the local one, else the only one of that name.  The
\* result is the default schedule, Nil when there is none or several.
GetKopiaRepository(name) ==
    LET matches == {ns \in Namespace : repos[<<ns, name>>] # Nil}
    IN CASE Home \in matches -> repos[<<Home, name>>]
         [] Home \notin matches /\ (\E ns \in Namespace : matches = {ns}) ->
                repos[<<CHOOSE ns \in matches : TRUE, name>>]
         [] OTHER -> Nil

\* getScheduleFromPVC
GetScheduleFromPVC(o) == IF o.sched # Nil THEN o.sched ELSE GetKopiaRepository(o.label)

\* Mutant: only the status tells.
IsAutoCreatedByStatus(b, o) == b.auto

\* status.autoCreated, or metav1.IsControlledBy.
IsAutoCreated(b, o) == b.auto \/ b.owner = o.uid
-----------------------------------------------------------------------------
(***************************************************************************)
(* The reconcile                                                           *)
(***************************************************************************)
StartReconcile(p) ==
    /\ job = IdleJob /\ p \in queue
    /\ queue' = queue \ {p}
    /\ LET o == Cached(pvc[p])
       IN job' = IF o = Nil THEN IdleJob
                 ELSE [IdleJob EXCEPT !.pc = "get", !.p = p, !.pvc = o]
    /\ UNCHANGED <<pvc, backup, repos, uids, budgets>>

\* Mutant: a KopiaBackup that is not there is taken for one that is.
NextPhaseAlwaysSync(o, b) == IF o.label = Nil THEN "idle" ELSE "sync"

\* What the KopiaBackup of the cache calls for.
NextPhase(o, b) ==
    CASE b = Nil /\ o.label = Nil -> "idle"
      [] b = Nil /\ o.label # Nil -> "create"
      [] b # Nil /\ ~IsAutoCreated(b, o) -> "idle"
      [] b # Nil /\ IsAutoCreated(b, o) /\ o.label = Nil -> "delete"
      [] OTHER -> IF b.auto THEN "sync" ELSE "markAuto"

GetBackup ==
    /\ job.pc = "get"
    /\ "lag" \in allowed \/ CaughtUp(backup[job.p])
    /\ LET b == Cached(backup[job.p])
           phase == NextPhase(job.pvc, b)
       IN job' = IF phase = "idle" THEN IdleJob
                 ELSE [job EXCEPT !.pc = phase, !.obj = b, !.fresh = CaughtUp(backup[job.p])]
    /\ UNCHANGED <<pvc, backup, repos, uids, queue, budgets>>

\* Delete by name, whatever KopiaBackup has the name by now.
DeleteBackup ==
    /\ job.pc = "delete"
    /\ \/ Cur(job.p) = Nil /\ Done /\ UNCHANGED <<backup, budgets>>
       \/ /\ Cur(job.p) # Nil
          /\ WriteBackup(job.p, Deleted(Cur(job.p))) /\ Done
          /\ UNCHANGED budgets
       \/ ApiFault
    /\ UNCHANGED <<pvc, repos, uids>>

\* Mutant: the copy read is written back without its resourceVersion.
MarkAutoCreatedUnchecked ==
    /\ job.pc = "markAuto"
    /\ LET o == [job.obj EXCEPT !.auto = TRUE]
       IN WriteBackup(job.p, o) /\ job' = [job EXCEPT !.pc = "sync", !.obj = o]
    /\ UNCHANGED <<pvc, repos, uids, queue, budgets>>

\* Mutant: the schedule is left to another reconcile.
MarkAutoCreatedOnly ==
    /\ job.pc = "markAuto"
    /\ \/ /\ job.fresh
          /\ WriteBackup(job.p, [job.obj EXCEPT !.auto = TRUE]) /\ Done
          /\ UNCHANGED budgets
       \/ ~job.fresh /\ Retry /\ UNCHANGED <<backup, budgets>>
       \/ ApiFault
    /\ UNCHANGED <<pvc, repos, uids>>

\* The status update of a backup found without autoCreated.
MarkAutoCreated ==
    /\ job.pc = "markAuto"
    /\ \/ /\ job.fresh
          /\ LET o == [job.obj EXCEPT !.auto = TRUE]
             IN /\ WriteBackup(job.p, o)
                /\ job' = [job EXCEPT !.pc = "sync", !.obj = o]
          /\ UNCHANGED <<queue, budgets>>
       \/ ~job.fresh /\ Retry /\ UNCHANGED <<backup, budgets>>
       \/ ApiFault
    /\ UNCHANGED <<pvc, repos, uids>>

\* Mutant: the schedule is patched by name, without a resourceVersion.
SyncScheduleByName ==
    /\ job.pc = "sync" /\ Cur(job.p) # Nil
    /\ GetKopiaRepository(job.pvc.label) # Nil
    /\ WriteBackup(job.p, [Cur(job.p) EXCEPT !.sched = GetScheduleFromPVC(job.pvc)])
    /\ Done
    /\ UNCHANGED <<pvc, repos, uids, budgets>>

\* An unresolved repository ends the reconcile without an error.
SyncSchedule ==
    /\ job.pc = "sync"
    /\ LET o == [job.obj EXCEPT !.sched = GetScheduleFromPVC(job.pvc)]
       IN \/ /\ GetKopiaRepository(job.pvc.label) = Nil \/ o = job.obj
             /\ Done /\ UNCHANGED <<backup, budgets>>
          \/ /\ GetKopiaRepository(job.pvc.label) # Nil /\ o # job.obj
             /\ \/ /\ job.fresh /\ o.sched \notin BadSchedule
                   /\ WriteBackup(job.p, o) /\ Done
                   /\ UNCHANGED budgets
                \/ Refused(o)
                \/ ApiFault
    /\ UNCHANGED <<pvc, repos, uids>>

\* Mutant: a failed Create is taken for a name that is taken.
CreateBackupForPVCIgnoresErrors ==
    /\ job.pc = "create"
    /\ LET o == [owner |-> job.pvc.uid, auto |-> FALSE, sched |-> GetScheduleFromPVC(job.pvc),
                 fin |-> FALSE, deleting |-> FALSE, reported |-> FALSE]
           possible == /\ GetKopiaRepository(job.pvc.label) # Nil
                       /\ o.sched \notin BadSchedule /\ Cur(job.p) = Nil
       IN \/ ~possible /\ Done /\ UNCHANGED <<backup, budgets>>
          \/ /\ possible /\ WriteBackup(job.p, o)
             /\ job' = [job EXCEPT !.pc = "markNew", !.obj = o, !.fresh = TRUE]
             /\ UNCHANGED <<queue, budgets>>
          \/ possible /\ Fault("api") /\ Done /\ UNCHANGED backup
    /\ UNCHANGED <<pvc, repos, uids>>

\* An unresolved repository and a name that is taken both end the reconcile
\* without an error.
CreateBackupForPVC ==
    /\ job.pc = "create"
    /\ LET o == [owner |-> job.pvc.uid, auto |-> FALSE, sched |-> GetScheduleFromPVC(job.pvc),
                 fin |-> FALSE, deleting |-> FALSE, reported |-> FALSE]
       IN \/ /\ GetKopiaRepository(job.pvc.label) = Nil
             /\ Done /\ UNCHANGED <<backup, budgets>>
          \/ /\ GetKopiaRepository(job.pvc.label) # Nil
             /\ \/ /\ o.sched \in BadSchedule
                   /\ Retry /\ UNCHANGED <<backup, budgets>>
                \/ /\ o.sched \notin BadSchedule /\ Cur(job.p) # Nil
                   /\ Done /\ UNCHANGED <<backup, budgets>>
                \/ /\ o.sched \notin BadSchedule /\ Cur(job.p) = Nil
                   /\ WriteBackup(job.p, o)
                   /\ job' = [job EXCEPT !.pc = "markNew", !.obj = o, !.fresh = TRUE]
                   /\ UNCHANGED <<queue, budgets>>
                \/ ApiFault
    /\ UNCHANGED <<pvc, repos, uids>>

\* Mutant: the status is patched by name, without a resourceVersion.
MarkNewBackupByName ==
    /\ job.pc = "markNew" /\ Cur(job.p) # Nil
    /\ WriteBackup(job.p, [Cur(job.p) EXCEPT !.auto = TRUE]) /\ Done
    /\ UNCHANGED <<pvc, repos, uids, budgets>>

\* The status update of the backup just created.
MarkNewBackup ==
    /\ job.pc = "markNew"
    /\ \/ /\ job.fresh
          /\ WriteBackup(job.p, [job.obj EXCEPT !.auto = TRUE]) /\ Done
          /\ UNCHANGED budgets
       \/ ~job.fresh /\ Retry /\ UNCHANGED <<backup, budgets>>
       \/ ApiFault
    /\ UNCHANGED <<pvc, repos, uids>>

Reconcile ==
    \/ \E p \in PVC : StartReconcile(p)
    \/ GetBackup \/ DeleteBackup \/ MarkAutoCreated \/ SyncSchedule
    \/ CreateBackupForPVC \/ MarkNewBackup
-----------------------------------------------------------------------------
(***************************************************************************)
(* Informers, restart, the KopiaBackup controller, garbage collection      *)
(***************************************************************************)
\* Mutant: a changed annotation does not pass.
PassesLabelsOnly(old, new) == old = Nil \/ new = Nil \/ old.label # new.label

\* The event filter: creations and deletions pass, updates only when labels
\* or annotations differ.
Passes(old, new) ==
    old = Nil \/ new = Nil \/ old.label # new.label \/ old.sched # new.sched

DeliverPvc(p) ==
    /\ ~CaughtUp(pvc[p])
    /\ pvc' = [pvc EXCEPT ![p] = Deliver(@)]
    /\ queue' = IF Passes(pvc[p][1], pvc[p][2]) THEN queue \cup {p} ELSE queue
    /\ UNCHANGED <<backup, repos, uids, job, budgets>>

\* Another label or annotation of the PVC changes.
OtherChange(p) ==
    /\ Cached(pvc[p]) # Nil
    /\ queue' = queue \cup {p}
    /\ UNCHANGED <<pvc, backup, repos, uids, job, budgets>>

\* No watch on KopiaBackups: nothing is enqueued.
DeliverBackup(p) ==
    /\ ~CaughtUp(backup[p])
    /\ backup' = [backup EXCEPT ![p] = Deliver(@)]
    /\ UNCHANGED <<pvc, repos, uids, queue, job, budgets>>

Restart ==
    /\ Fault("crash")
    /\ job' = IdleJob
    /\ queue' = {p \in PVC : Cached(pvc[p]) # Nil}
    /\ UNCHANGED <<pvc, backup, repos, uids>>

\* A write to a KopiaBackup by someone else.
OtherWrite(p, v) ==
    /\ WriteBackup(p, v) /\ Invalidate(p)
    /\ UNCHANGED <<pvc, repos, uids, queue>>

\* The KopiaBackup controller holds an object before it reports on it, and
\* lets a deleted one go when it has cleaned up.
AddFinalizer(p) ==
    /\ Cur(p) # Nil /\ ~Cur(p).fin
    /\ OtherWrite(p, [Cur(p) EXCEPT !.fin = TRUE])
    /\ UNCHANGED budgets

ReportStatus(p) ==
    /\ Cur(p) # Nil /\ Cur(p).fin /\ ~Cur(p).deleting /\ ~Cur(p).reported
    /\ OtherWrite(p, [Cur(p) EXCEPT !.reported = TRUE])
    /\ UNCHANGED budgets

RemoveFinalizer(p) ==
    /\ Cur(p) # Nil /\ Cur(p).deleting
    /\ OtherWrite(p, Nil)
    /\ UNCHANGED budgets

Controls(p) == CurPvc(p) # Nil /\ CurPvc(p).uid = Cur(p).owner

\* The PVC object that controls the backup is gone.
CollectGarbage(p) ==
    /\ Cur(p) # Nil /\ ~Cur(p).deleting /\ Cur(p).owner # Nil
    /\ ~Controls(p)
    /\ OtherWrite(p, Deleted(Cur(p)))
    /\ UNCHANGED budgets
-----------------------------------------------------------------------------
(***************************************************************************)
(* Other clients                                                           *)
(***************************************************************************)
EditPvc(p, v) ==
    /\ CurPvc(p) # Nil /\ v # CurPvc(p) /\ WritePvc(p, v)
    /\ UNCHANGED <<backup, repos, uids, queue, job>>

SetLabel(p, r) == Edit("label") /\ EditPvc(p, [CurPvc(p) EXCEPT !.label = r])

RemoveLabel(p) == Edit("unlabel") /\ EditPvc(p, [CurPvc(p) EXCEPT !.label = Nil])

SetSchedule(p, s) == Edit("schedule") /\ EditPvc(p, [CurPvc(p) EXCEPT !.sched = s])

DeletePvc(p) == Edit("pvc") /\ EditPvc(p, Nil)

CreatePvc(p) ==
    /\ CurPvc(p) = Nil /\ uids < MaxUid /\ Edit("pvc")
    /\ WritePvc(p, NewPvc(uids + 1)) /\ uids' = uids + 1
    /\ UNCHANGED <<backup, repos, queue, job>>

UserDeletesBackup(p) ==
    /\ Cur(p) # Nil /\ ~Cur(p).deleting /\ Edit("delete")
    /\ OtherWrite(p, Deleted(Cur(p)))

UserCreatesBackup(p, s) ==
    /\ Cur(p) = Nil /\ s \notin BadSchedule /\ Edit("manual")
    /\ OtherWrite(p, [owner |-> Nil, auto |-> FALSE, sched |-> s, fin |-> FALSE,
                      deleting |-> FALSE, reported |-> FALSE])

SetRepository(id, s) ==
    /\ repos[id] # s
    /\ repos' = [repos EXCEPT ![id] = s]
    /\ UNCHANGED <<pvc, backup, uids, queue, job>>

CreateRepository(id, s) == repos[id] = Nil /\ Edit("createRepo") /\ SetRepository(id, s)

\* A new default schedule, or the repository is deleted.
ChangeRepository(id, s) == repos[id] # Nil /\ Edit("changeRepo") /\ SetRepository(id, s)

Environment ==
    \/ Restart
    \/ \E p \in PVC :
          \/ DeliverPvc(p) \/ OtherChange(p) \/ DeliverBackup(p)
          \/ AddFinalizer(p) \/ ReportStatus(p) \/ RemoveFinalizer(p) \/ CollectGarbage(p)
          \/ RemoveLabel(p) \/ DeletePvc(p) \/ CreatePvc(p) \/ UserDeletesBackup(p)
    \/ \E p \in PVC, r \in Repo : SetLabel(p, r)
    \/ \E p \in PVC, s \in Schedule \cup {Nil} : SetSchedule(p, s)
    \/ \E p \in PVC, s \in Schedule : UserCreatesBackup(p, s)
    \/ \E id \in Namespace \X Repo, s \in Schedule : CreateRepository(id, s)
    \/ \E id \in Namespace \X Repo, s \in Schedule \cup {Nil} : ChangeRepository(id, s)

Next == Reconcile \/ Environment

Spec == Init /\ [][Next]_vars
-----------------------------------------------------------------------------
(***************************************************************************)
(* Properties                                                              *)
(***************************************************************************)
\* The variables keep their types; a reconcile that writes a KopiaBackup has
\* a copy of it in hand.
TypeOK ==
    /\ pvc \in [PVC -> Streams(PvcObj \cup {Nil})]
    /\ backup \in [PVC -> Streams(BackupObj \cup {Nil})]
    /\ repos \in [Namespace \X Repo -> Schedule \cup {Nil}]
    /\ uids \in Uid
    /\ queue \subseteq PVC
    /\ job \in Job \cup {IdleJob}
    /\ job.pc \in {"delete", "markAuto", "sync", "markNew"} => job.obj \in BackupObj
    /\ allowed \subseteq Kind
    /\ faults \in Nat /\ edits \in Nat

\* status.autoCreated is only ever set on a KopiaBackup the watcher made, also
\* when the one it made was deleted and replaced by hand between its Create
\* and its status update: what carries it may be deleted with the label.
AutoCreatedIsOwned ==
    \A p \in PVC : Cur(p) # Nil /\ Cur(p).auto => Cur(p).owner # Nil

\* Steps of the reconcile: nothing else moves it to another phase without
\* leaving the KopiaBackups alone.
ByWatcher(p) == job.p = p /\ job'.pc # job.pc

Manual(p) == Cur(p) # Nil /\ Cur(p).owner = Nil

\* The watcher never overwrites a KopiaBackup made by hand, however stale the
\* copy it works from: neither its schedule nor its status.
ManualNotRewritten ==
    [][\A p \in PVC : Manual(p) /\ ByWatcher(p) /\ Cur(p)' # Nil /\ ~Cur(p)'.deleting
            => Cur(p)' = Cur(p)]_vars

\* Where the object of a version is in its life.
LifeOf(o) ==
    IF o = Nil THEN "absent"
    ELSE IF o.deleting THEN "terminating"
    ELSE IF o.fin THEN "held" ELSE "bare"

life == [p \in PVC |-> LifeOf(Cur(p))]

attended == {p \in PVC : Cur(p) # Nil /\ Cur(p).reported}

Lifecycle == INSTANCE BackupLifecycle WITH Backup <- PVC

\* The watcher implements the life of KopiaBackups: its updates from stale
\* copies and its deletions by name never bring an object back, undo its
\* deletion, drop the finalizer or wipe what the KopiaBackup controller wrote.
ImplementsLifecycle == Lifecycle!Spec

\* The KopiaBackup the PVC controls, not being deleted.
HasOwn(p) == Cur(p) # Nil /\ ~Cur(p).deleting /\ Controls(p)

Resolved(p) ==
    /\ CurPvc(p) # Nil /\ CurPvc(p).label # Nil
    /\ GetKopiaRepository(CurPvc(p).label) # Nil
    /\ GetScheduleFromPVC(CurPvc(p)) \notin BadSchedule

\* Repositories stay as they are, and reads of KopiaBackups are up to date:
\* the watcher is told of changes to neither.
Told == {"lag", "createRepo", "changeRepo"} \cap allowed = {}

\* Labels stay, and so do KopiaBackups and repositories.
Kept == {"unlabel", "pvc", "delete", "manual", "createRepo", "changeRepo"} \cap allowed = {}

\* Nothing is left to wake the watcher up for p: the PVC is neither queued nor
\* reconciled, and its cache is up to date.
AtRest(p) == p \notin queue /\ job.p # p /\ CaughtUp(pvc[p])

\* The KopiaBackup follows its PVC.  Without the label the PVC controls none;
\* with it, the one it controls is marked and has its schedule, and there is
\* one if none was taken away.
Follows(p) ==
    /\ Told /\ CurPvc(p).label = Nil => ~HasOwn(p)
    /\ Told /\ Resolved(p) /\ HasOwn(p)
           => Cur(p).auto /\ Cur(p).sched = GetScheduleFromPVC(CurPvc(p))
    /\ Kept /\ Resolved(p) => Cur(p) # Nil /\ ~Cur(p).deleting

\* No wake-up is lost: whatever was refused, failed, interrupted or changed on
\* the way, the watcher leaves a PVC alone only when its KopiaBackup follows it.
\* Label and schedule are claimed where it is Told of all it reads; that there
\* is a KopiaBackup at all, with caches behind too, where what there is is Kept.
RestIsFollowed == \A p \in PVC : AtRest(p) /\ CurPvc(p) # Nil => Follows(p)
-----------------------------------------------------------------------------
(***************************************************************************)
(* Liveness                                                                *)
(***************************************************************************)
\* The worker never stops, informers catch up, the collector runs and the
\* KopiaBackup controller does its part.
Fairness ==
    /\ WF_vars(Reconcile)
    /\ \A p \in PVC :
          /\ WF_vars(DeliverPvc(p)) /\ WF_vars(DeliverBackup(p))
          /\ WF_vars(AddFinalizer(p)) /\ WF_vars(RemoveFinalizer(p))
          /\ WF_vars(CollectGarbage(p))

FairSpec == Spec /\ Fairness

\* "Removes the label -> Automatically deletes KopiaBackup": once changes have
\* ceased, a PVC without the label controls no KopiaBackup, whatever conflict,
\* error or restart came between the creation and the status that marks it.
LabelRemovedDeletes ==
    \A p \in PVC : Told => <>[](CurPvc(p) # Nil /\ CurPvc(p).label = Nil => ~HasOwn(p))

\* The same of a watcher whose cache of KopiaBackups may be behind when it
\* reads it, as ARCHITECTURE.md says of every watcher: "Removes the label ->
\* Automatically deletes KopiaBackup".
LabelRemovedAlwaysDeletes ==
    \A p \in PVC : <>[](CurPvc(p) # Nil /\ CurPvc(p).label = Nil => ~HasOwn(p))

\* Once changes have ceased, the KopiaBackup of a labelled PVC is marked as
\* auto-created and has the PVC's schedule: a lost update, an error and a
\* restart at any point of the reconcile are made good.
BackupFollowsPVC ==
    \A p \in PVC : Told => <>[](Resolved(p) /\ HasOwn(p)
                           => Cur(p).auto /\ Cur(p).sched = GetScheduleFromPVC(CurPvc(p)))

\* README: "Add a label to your PVC to automatically create backups".  Once
\* changes have ceased, a labelled PVC whose repository resolves has a
\* KopiaBackup that is there to stay, if none was taken away.
LabelledGetsBackup ==
    \A p \in PVC : Kept => <>[](Resolved(p) => Cur(p) # Nil /\ ~Cur(p).deleting)
=============================================================================
