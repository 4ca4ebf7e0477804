-------------------------- MODULE PVCWatcherProofs --------------------------
(***************************************************************************)
(* TypeOK, AutoCreatedIsOwned, ManualNotRewritten, ImplementsLifecycle and *)
(* RestIsFollowed, for any number of PVCs, repositories and schedules and  *)
(* any scenario.                                                           *)
(*                                                                         *)
(* The watcher may read an old copy of a KopiaBackup.  What makes its      *)
(* updates safe is that they are refused unless the copy is the current    *)
(* object, and that a copy the watcher goes on with once had a controller: *)
(* it carries autoCreated, which only objects with a controller do, or the *)
(* UID of the PVC.                                                         *)
(***************************************************************************)
EXTENDS PVCWatcher, WatchStreamProofs

BackupVersion == BackupObj \cup {Nil}

PvcVersion == PvcObj \cup {Nil}

Labelled == {"create", "markAuto", "sync", "markNew"}

Writing == {"markAuto", "sync", "markNew"}

OwnedIfAuto(v) == v # Nil /\ v.auto => v.owner # Nil

StreamInv == \A p \in PVC : \A v \in Versions(backup[p]) : OwnedIfAuto(v)

JobInv ==
    /\ job.pc \in Labelled => job.pvc.label \in Repo
    /\ job.pc \in Writing => job.obj.owner # Nil
    /\ job.pc # "idle" /\ job.fresh => Cur(job.p) = job.obj

WatcherInv == TypeOK /\ StreamInv /\ JobInv

\* A write to a KopiaBackup's stream is the only change, and becomes current.
LEMMA WriteBackupStep ==
    ASSUME TypeOK, NEW p \in PVC, NEW v \in BackupVersion, WriteBackup(p, v)
    PROVE  /\ backup' \in [PVC -> Streams(BackupVersion)]
           /\ \A x \in PVC \ {p} : backup'[x] = backup[x]
           /\ Current(backup'[p]) = v
           /\ Versions(backup'[p]) \subseteq Versions(backup[p]) \cup {v}
  <1>1. backup[p] \in Streams(BackupVersion)
    BY ZenonT(60) DEF TypeOK, BackupVersion
  <1>2. backup' = [backup EXCEPT ![p] = Put(backup[p], v)]
    BY DEF WriteBackup
  <1>3. /\ Put(backup[p], v) \in Streams(BackupVersion)
        /\ Current(Put(backup[p], v)) = v
        /\ Versions(Put(backup[p], v)) \subseteq Versions(backup[p]) \cup {v}
    BY <1>1, StreamPut
  <1>. QED
    BY <1>2, <1>3, ZenonT(60) DEF TypeOK, BackupVersion

\* A write to a PVC keeps the type.
LEMMA WritePvcStep ==
    ASSUME TypeOK, NEW p \in PVC, NEW v \in PvcVersion, WritePvc(p, v)
    PROVE  pvc' \in [PVC -> Streams(PvcVersion)]
  <1>1. pvc[p] \in Streams(PvcVersion)
    BY ZenonT(60) DEF TypeOK, PvcVersion
  <1>2. Put(pvc[p], v) \in Streams(PvcVersion)
    BY <1>1, StreamPut
  <1>. QED
    BY <1>2, ZenonT(60) DEF TypeOK, PvcVersion, WritePvc

\* Reads return versions.
LEMMA ReadTypes ==
    ASSUME TypeOK, NEW p \in PVC
    PROVE  /\ Cur(p) \in BackupVersion /\ Cur(p) \in Versions(backup[p])
           /\ Cached(backup[p]) \in BackupVersion /\ Cached(backup[p]) \in Versions(backup[p])
           /\ CurPvc(p) \in PvcVersion /\ Cached(pvc[p]) \in PvcVersion
  <1>1. backup[p] \in Streams(BackupVersion) /\ pvc[p] \in Streams(PvcVersion)
    BY ZenonT(60) DEF TypeOK, BackupVersion, PvcVersion
  <1>. QED
    BY <1>1, StreamEnds DEF Cur, CurPvc

\* A reconcile in progress is a record of its type.
LEMMA JobTypes ==
    ASSUME TypeOK, job.pc # "idle"
    PROVE  job \in Job /\ job.p \in PVC /\ job.pvc \in PvcObj /\ job.obj \in BackupVersion
  <1>1. job \in Job
    BY DEF TypeOK, IdleJob
  <1>. QED
    BY <1>1 DEF Job, BackupVersion

\* Where the repository resolves, the schedule is one.
LEMMA ScheduleTypes ==
    ASSUME TypeOK, NEW o \in PvcObj, o.label \in Repo
    PROVE  /\ GetKopiaRepository(o.label) \in Schedule \cup {Nil}
           /\ GetKopiaRepository(o.label) # Nil => GetScheduleFromPVC(o) \in Schedule
  <1> DEFINE matches == {ns \in Namespace : repos[<<ns, o.label>>] # Nil}
  <1>1. \A ns \in Namespace : repos[<<ns, o.label>>] \in Schedule \cup {Nil}
    BY DEF TypeOK
  <1>2. \A ns \in Namespace : matches = {ns} => (CHOOSE x \in matches : TRUE) \in Namespace
    BY DEF matches
  <1> HIDE DEF matches
  <1>3. GetKopiaRepository(o.label) \in Schedule \cup {Nil}
    <2>1. CASE Home \in matches
      BY <1>1, <2>1, ConstantsAssumption DEF GetKopiaRepository, matches
    <2>2. CASE Home \notin matches /\ (\E ns \in Namespace : matches = {ns})
      <3>1. GetKopiaRepository(o.label) = repos[<<CHOOSE ns \in matches : TRUE, o.label>>]
        BY <2>2 DEF GetKopiaRepository, matches
      <3>. QED
        BY <1>1, <1>2, <2>2, <3>1
    <2>3. CASE Home \notin matches /\ ~(\E ns \in Namespace : matches = {ns})
      BY <2>3 DEF GetKopiaRepository, matches
    <2>. QED
      BY <2>1, <2>2, <2>3
  <1>4. o.sched \in Schedule \cup {Nil}
    BY DEF PvcObj
  <1>. QED
    BY <1>3, <1>4 DEF GetScheduleFromPVC

\* The budgets keep their types.
LEMMA BudgetTypes ==
    ASSUME TypeOK, NEW k, UNCHANGED budgets \/ Fault(k) \/ Edit(k)
    PROVE  allowed' \subseteq Kind /\ faults' \in Nat /\ edits' \in Nat
  BY DEF TypeOK, budgets, Fault, Edit

\* Deleting an object, by name or otherwise, leaves a version.
LEMMA DeletedTypes ==
    ASSUME NEW o \in BackupObj
    PROVE  /\ Deleted(o) \in BackupVersion
           /\ OwnedIfAuto(o) => OwnedIfAuto(Deleted(o))
           /\ Deleted(o) # Nil => /\ Deleted(o) = [o EXCEPT !.deleting = TRUE] /\ Deleted(o).deleting
                                  /\ o.fin /\ Deleted(o).reported = o.reported
           /\ Deleted(o) = Nil => ~o.fin
  <1>1. [o EXCEPT !.deleting = TRUE] \in BackupObj
    BY ZenonT(60) DEF BackupObj
  <1>2. [o EXCEPT !.deleting = TRUE] # Nil /\ o # Nil
    BY <1>1, NilAssumption, ZenonT(60)
  <1>3. /\ [o EXCEPT !.deleting = TRUE].auto = o.auto
        /\ [o EXCEPT !.deleting = TRUE].owner = o.owner
        /\ [o EXCEPT !.deleting = TRUE].reported = o.reported
        /\ [o EXCEPT !.deleting = TRUE].deleting
    BY DEF BackupObj
  <1>. QED
    BY <1>1, <1>2, <1>3, ZenonT(60) DEF Deleted, BackupVersion, OwnedIfAuto
-----------------------------------------------------------------------------
(***************************************************************************)
(* Steps                                                                   *)
(***************************************************************************)
Reported(o) == o # Nil /\ o.reported

\* What a write may do to the life of a KopiaBackup.
LegalMove(c, v) ==
    \/ LifeOf(v) = LifeOf(c) /\ (Reported(v) <=> Reported(c))
    \/ LifeOf(c) = "absent" /\ LifeOf(v) = "bare" /\ ~Reported(v)
    \/ LifeOf(c) = "bare" /\ LifeOf(v) = "held" /\ (Reported(v) <=> Reported(c))
    \/ LifeOf(c) = "held" /\ LifeOf(v) = "held" /\ Reported(v)
    \/ LifeOf(c) = "held" /\ LifeOf(v) = "terminating" /\ (Reported(v) <=> Reported(c))
    \/ LifeOf(c) \in {"bare", "terminating"} /\ LifeOf(v) = "absent"

\* The step is one of BackupLifecycle, or none of its business.
Moves == Lifecycle!Next \/ UNCHANGED <<life, attended>>

\* A step leaves the KopiaBackups made by hand alone.
Spares ==
    \A p \in PVC : Manual(p) /\ ByWatcher(p) /\ Cur(p)' # Nil /\ ~Cur(p)'.deleting
        => Cur(p)' = Cur(p)

\* Nothing moves while the API server's objects stay as they are.
LEMMA Quiet ==
    ASSUME \A x \in PVC : Cur(x)' = Cur(x)
    PROVE  Moves /\ Spares
  <1>1. life' = [x \in PVC |-> LifeOf(Cur(x)')] /\ attended' = {x \in PVC : Cur(x)' # Nil /\ Cur(x)'.reported}
    BY DEF life, LifeOf, attended
  <1>2. life' = life
    BY <1>1, ZenonT(60) DEF life
  <1>3. attended' = attended
    BY <1>1 DEF attended
  <1>. QED
    BY <1>2, <1>3 DEF Moves, Spares

\* A write that is a legal move of an object keeps the facts about versions
\* and is a step of BackupLifecycle.
LEMMA Written ==
    ASSUME TypeOK, StreamInv, NEW p \in PVC, NEW v \in BackupVersion, WriteBackup(p, v),
           OwnedIfAuto(v), LegalMove(Cur(p), v)
    PROVE  /\ backup' \in [PVC -> Streams(BackupObj \cup {Nil})]
           /\ StreamInv'
           /\ Moves
           /\ Cur(p)' = v
           /\ \A x \in PVC \ {p} : Cur(x)' = Cur(x)
  <1>1. /\ backup' \in [PVC -> Streams(BackupVersion)]
        /\ \A x \in PVC \ {p} : backup'[x] = backup[x]
        /\ Current(backup'[p]) = v
        /\ Versions(backup'[p]) \subseteq Versions(backup[p]) \cup {v}
    BY WriteBackupStep, ZenonT(60)
  <1>2. Cur(p)' = v /\ \A x \in PVC \ {p} : Cur(x)' = Cur(x)
    BY <1>1, ZenonT(60) DEF Cur
  <1>3. StreamInv'
    <2> SUFFICES ASSUME NEW x \in PVC, NEW w \in Versions(backup'[x]) PROVE OwnedIfAuto(w)
      BY DEF StreamInv, OwnedIfAuto
    <2>1. CASE x = p
      BY <1>1, <2>1 DEF StreamInv
    <2>2. CASE x # p
      BY <1>1, <2>2 DEF StreamInv
    <2>. QED
      BY <2>1, <2>2
  <1>4. life' = [life EXCEPT ![p] = LifeOf(v)]
    <2>1. life' = [x \in PVC |-> LifeOf(Cur(x)')]
      BY DEF life, LifeOf
    <2>. QED
      BY <1>2, <2>1, ZenonT(60) DEF life
  <1>5. attended' = IF Reported(v) THEN attended \cup {p} ELSE attended \ {p}
    <2>1. attended' = {x \in PVC : Cur(x)' # Nil /\ Cur(x)'.reported}
      BY DEF attended
    <2>2. CASE Reported(v)
      BY <1>2, <2>1, <2>2, SMTT(60) DEF attended, Reported
    <2>3. CASE ~Reported(v)
      BY <1>2, <2>1, <2>3, SMTT(60) DEF attended, Reported
    <2>. QED
      BY <2>2, <2>3
  <1>6. life[p] = LifeOf(Cur(p)) /\ (p \in attended <=> Reported(Cur(p))) /\ life = [life EXCEPT ![p] = life[p]]
    BY DEF life, attended, Reported
  <1>7. (Reported(v) <=> Reported(Cur(p))) => attended' = attended
    BY <1>5, <1>6
  <1>8. LifeOf(v) = LifeOf(Cur(p)) => life' = life
    BY <1>4, <1>6
  <1>9. LifeOf(v) = "absent" => ~Reported(v)
    BY DEF LifeOf, Reported
  <1>10. LifeOf(Cur(p)) = "absent" => ~Reported(Cur(p))
    BY DEF LifeOf, Reported
  <1>11. Moves
    <2>1. CASE LifeOf(v) = LifeOf(Cur(p)) /\ (Reported(v) <=> Reported(Cur(p)))
      BY <1>7, <1>8, <2>1 DEF Moves
    <2>2. CASE LifeOf(Cur(p)) = "absent" /\ LifeOf(v) = "bare" /\ ~Reported(v)
      <3>1. Lifecycle!Create(p)
        BY <1>4, <1>6, <1>7, <1>10, <2>2 DEF Lifecycle!Create, Lifecycle!Becomes
      <3>. QED
        BY <3>1 DEF Moves, Lifecycle!Next
    <2>3. CASE LifeOf(Cur(p)) = "bare" /\ LifeOf(v) = "held" /\ (Reported(v) <=> Reported(Cur(p)))
      <3>1. Lifecycle!Hold(p)
        BY <1>4, <1>6, <1>7, <2>3 DEF Lifecycle!Hold, Lifecycle!Becomes
      <3>. QED
        BY <3>1 DEF Moves, Lifecycle!Next
    <2>4. CASE LifeOf(Cur(p)) = "held" /\ LifeOf(v) = "held" /\ Reported(v)
      <3>1. Lifecycle!Attend(p)
        BY <1>5, <1>6, <1>8, <2>4 DEF Lifecycle!Attend
      <3>. QED
        BY <3>1 DEF Moves, Lifecycle!Next
    <2>5. CASE LifeOf(Cur(p)) = "held" /\ LifeOf(v) = "terminating" /\ (Reported(v) <=> Reported(Cur(p)))
      <3>1. Lifecycle!Delete(p)
        BY <1>4, <1>6, <1>7, <2>5 DEF Lifecycle!Delete, Lifecycle!Becomes
      <3>. QED
        BY <3>1 DEF Moves, Lifecycle!Next
    <2>6. CASE LifeOf(Cur(p)) = "bare" /\ LifeOf(v) = "absent"
      <3>1. Lifecycle!Delete(p)
        BY <1>4, <1>5, <1>6, <1>9, <2>6 DEF Lifecycle!Delete, Lifecycle!Becomes
      <3>. QED
        BY <3>1 DEF Moves, Lifecycle!Next
    <2>7. CASE LifeOf(Cur(p)) = "terminating" /\ LifeOf(v) = "absent"
      <3>1. Lifecycle!Release(p)
        BY <1>4, <1>5, <1>6, <1>9, <2>7 DEF Lifecycle!Release, Lifecycle!Becomes
      <3>. QED
        BY <3>1 DEF Moves, Lifecycle!Next
    <2>. QED
      BY <2>1, <2>2, <2>3, <2>4, <2>5, <2>6, <2>7 DEF LegalMove
  <1>. QED
    BY <1>1, <1>2, <1>3, <1>11 DEF BackupVersion

\* Deleting an object is a legal move.
LEMMA DeletedMove ==
    ASSUME NEW o \in BackupObj
    PROVE  LegalMove(o, Deleted(o))
  <1>1. o # Nil
    BY NilAssumption, ZenonT(60)
  <1>. QED
    BY <1>1, DeletedTypes DEF LegalMove, LifeOf, Reported

\* The part of TypeOK that is not about the KopiaBackups or the reconcile.
RestOK ==
    /\ pvc \in [PVC -> Streams(PvcObj \cup {Nil})]
    /\ repos \in [Namespace \X Repo -> Schedule \cup {Nil}]
    /\ uids \in Uid
    /\ queue \subseteq PVC
    /\ allowed \subseteq Kind /\ faults \in Nat /\ edits \in Nat

JobOK ==
    /\ job \in Job \cup {IdleJob}
    /\ job.pc \in {"delete", "markAuto", "sync", "markNew"} => job.obj \in BackupObj

Good == WatcherInv' /\ Moves /\ Spares

\* TypeOK in its parts.
LEMMA TypeParts ==
    TypeOK <=> RestOK /\ JobOK /\ backup \in [PVC -> Streams(BackupObj \cup {Nil})]
  BY ZenonT(60) DEF TypeOK, RestOK, JobOK

\* Steps that change the queue and the budgets at most.
LEMMA RestKept ==
    ASSUME TypeOK, UNCHANGED <<pvc, repos, uids>>, queue' \subseteq PVC,
           NEW k, UNCHANGED budgets \/ Fault(k) \/ Edit(k)
    PROVE  RestOK'
  BY BudgetTypes, ZenonT(60) DEF TypeOK, RestOK

\* The idle job satisfies all that is asked of one.
LEMMA IdleGood == ASSUME job' = IdleJob PROVE JobOK' /\ JobInv'
  <1>1. job'.pc = "idle"
    BY DEF IdleJob
  <1>. QED
    BY <1>1 DEF JobOK, JobInv, Labelled, Writing

\* Steps that write no KopiaBackup and keep or end the reconcile.
LEMMA QuietGood ==
    ASSUME WatcherInv, UNCHANGED backup, job' = IdleJob \/ UNCHANGED job, RestOK'
    PROVE  Good
  <1>1. \A x \in PVC : Cur(x)' = Cur(x)
    BY DEF Cur
  <1>2. StreamInv'
    BY DEF WatcherInv, StreamInv, OwnedIfAuto
  <1>3. JobOK' /\ JobInv'
    <2>1. CASE UNCHANGED job
      BY <2>1, TypeParts DEF WatcherInv, JobOK, JobInv, Cur
    <2>. QED
      BY <2>1, IdleGood
  <1>4. TypeOK'
    <2>1. backup' \in [PVC -> Streams(BackupObj \cup {Nil})]
      BY ZenonT(60) DEF WatcherInv, TypeOK
    <2>. QED
      BY <1>3, <2>1, ZenonT(60) DEF TypeOK, RestOK, JobOK
  <1>. QED
    BY <1>1, <1>2, <1>3, <1>4, Quiet DEF Good, WatcherInv

\* Writes by other clients outdate the copy of the reconcile.
LEMMA OtherGood ==
    ASSUME WatcherInv, NEW p \in PVC, NEW v \in BackupVersion, OtherWrite(p, v),
           OwnedIfAuto(v), LegalMove(Cur(p), v),
           NEW k, UNCHANGED budgets \/ Fault(k) \/ Edit(k)
    PROVE  Good
  <1>1. TypeOK /\ StreamInv /\ JobInv /\ WriteBackup(p, v)
    BY DEF WatcherInv, OtherWrite
  <1>2. /\ backup' \in [PVC -> Streams(BackupObj \cup {Nil})] /\ StreamInv' /\ Moves
        /\ \A x \in PVC \ {p} : Cur(x)' = Cur(x)
    BY <1>1, Written, ZenonT(60)
  <1>3. RestOK'
    <2>1. UNCHANGED <<pvc, repos, uids, queue>> /\ queue' \subseteq PVC
      BY <1>1 DEF OtherWrite, TypeOK
    <2>. QED
      BY <1>1, <2>1, RestKept
  <1>4. job' = IF job.p = p THEN [job EXCEPT !.fresh = FALSE] ELSE job
    BY DEF OtherWrite, Invalidate
  <1>5. job \in Job \cup {IdleJob}
    BY <1>1 DEF TypeOK
  <1>6. /\ job'.pc = job.pc /\ job'.p = job.p /\ job'.pvc = job.pvc /\ job'.obj = job.obj
        /\ job.p = p => ~job'.fresh
        /\ job.p # p => job' = job
    BY <1>4, <1>5 DEF Job, IdleJob
  <1>7. job' \in Job \cup {IdleJob}
    <2>1. CASE job \in Job
      BY <1>4, <2>1, ZenonT(60) DEF Job
    <2>2. CASE job = IdleJob
      <3>1. job.p # p
        BY <2>2, NilAssumption DEF IdleJob
      <3>. QED
        BY <1>4, <2>2, <3>1
    <2>. QED
      BY <1>5, <2>1, <2>2
  <1>8. JobOK'
    BY <1>1, <1>6, <1>7 DEF JobOK, TypeOK
  <1>9. JobInv'
    <2>1. job'.pc \in Labelled => job'.pvc.label \in Repo
      BY <1>1, <1>6 DEF JobInv
    <2>2. job'.pc \in Writing => job'.obj.owner # Nil
      BY <1>1, <1>6 DEF JobInv
    <2>3. job'.pc # "idle" /\ job'.fresh => Cur(job.p)' = job'.obj
      <3> SUFFICES ASSUME job'.pc # "idle", job'.fresh PROVE Cur(job.p)' = job'.obj
        OBVIOUS
      <3>1. job.p # p /\ job.pc # "idle" /\ job.fresh /\ job.p \in PVC /\ job'.p = job.p
        BY <1>1, <1>6, JobTypes
      <3>. QED
        BY <1>1, <1>2, <1>6, <3>1 DEF JobInv
    <2>. QED
      BY <2>1, <2>2, <2>3 DEF JobInv
  <1>10. Spares
    BY <1>6 DEF Spares, ByWatcher
  <1>. QED
    BY <1>1, <1>2, <1>3, <1>8, <1>9, <1>10, ZenonT(60) DEF Good, WatcherInv, TypeOK, RestOK, JobOK

\* Writes of the reconcile.
LEMMA WatcherGood ==
    ASSUME WatcherInv, job.pc # "idle", NEW v \in BackupVersion, WriteBackup(job.p, v),
           OwnedIfAuto(v), LegalMove(Cur(job.p), v),
           RestOK', JobOK',
           JobInv' \/ (/\ job'.pc \in Labelled => job'.pvc.label \in Repo
                       /\ job'.pc \in Writing => job'.obj.owner # Nil
                       /\ job'.p = job.p /\ job'.obj = v),
           Manual(job.p) => v = Nil \/ v.deleting
    PROVE  Good
  <1>1. TypeOK /\ StreamInv /\ job.p \in PVC
    BY JobTypes, SMTT(60) DEF WatcherInv
  <1>2. /\ backup' \in [PVC -> Streams(BackupObj \cup {Nil})] /\ StreamInv' /\ Moves
        /\ Current(backup'[job.p]) = v
        /\ \A x \in PVC \ {job.p} : Cur(x)' = Cur(x)
    <2> DEFINE q == job.p
    <2>1. q \in PVC /\ WriteBackup(q, v) /\ LegalMove(Cur(q), v)
      BY <1>1
    <2>2. /\ backup' \in [PVC -> Streams(BackupObj \cup {Nil})] /\ StreamInv' /\ Moves
          /\ \A x \in PVC \ {q} : Cur(x)' = Cur(x)
      BY <1>1, <2>1, Written, ZenonT(60)
    <2>3. Current(backup'[q]) = v
      BY <1>1, <2>1, WriteBackupStep, ZenonT(60)
    <2>. QED
      BY <2>2, <2>3
  <1>3. JobInv'
    <2>1. CASE job'.p = job.p /\ job'.obj = v
      BY <1>2, <2>1 DEF JobInv, Cur
    <2>. QED
      BY <2>1, SMTT(60)
  <1>4. Spares
    <2> SUFFICES ASSUME NEW x \in PVC, Manual(x), ByWatcher(x), Cur(x)' # Nil, ~Cur(x)'.deleting
                 PROVE  FALSE
      BY DEF Spares
    <2>1. job.p = x
      BY SMTT(60) DEF ByWatcher
    <2>2. Cur(x)' = v
      BY <1>2, <2>1 DEF Cur
    <2>. QED
      BY <2>1, <2>2
  <1>. QED
    BY <1>2, <1>3, <1>4, ZenonT(60) DEF Good, WatcherInv, TypeOK, RestOK, JobOK

\* A reconcile that ends, with an error or without, and writes nothing.
LEMMA EndGood ==
    ASSUME WatcherInv, job.pc # "idle", UNCHANGED <<pvc, repos, uids>>, UNCHANGED backup, Done \/ Retry,
           UNCHANGED budgets \/ Fault("api")
    PROVE  Good
  <1>1. TypeOK /\ job.p \in PVC /\ queue \subseteq PVC
    BY JobTypes, ZenonT(60) DEF WatcherInv, TypeOK
  <1>2. queue' \subseteq PVC /\ job' = IdleJob
    BY <1>1 DEF Done, Retry
  <1>3. RestOK'
    BY <1>1, <1>2, RestKept
  <1>. QED
    BY <1>2, <1>3, QuietGood

\* A reconcile whose last step is a write.
LEMMA LastWriteGood ==
    ASSUME WatcherInv, job.pc # "idle", NEW v \in BackupVersion, WriteBackup(job.p, v),
           OwnedIfAuto(v), LegalMove(Cur(job.p), v),
           UNCHANGED <<pvc, repos, uids>>, Done, UNCHANGED budgets,
           Manual(job.p) => v = Nil \/ v.deleting
    PROVE  Good
  <1>1. TypeOK /\ job' = IdleJob /\ queue' \subseteq PVC
    BY ZenonT(60) DEF WatcherInv, TypeOK, Done
  <1>2. RestOK'
    BY <1>1, RestKept
  <1>3. JobOK' /\ JobInv'
    BY <1>1, IdleGood
  <1>. QED
    BY <1>2, <1>3, WatcherGood, ZenonT(60)

\* A copy with a controller that is still current may be written back with
\* another status or schedule.
LEMMA CopyMove ==
    ASSUME WatcherInv, job.pc \in Writing, job.fresh, NEW v \in BackupObj,
           v.owner = job.obj.owner, v.fin = job.obj.fin, v.deleting = job.obj.deleting,
           v.reported = job.obj.reported
    PROVE  /\ job.p \in PVC /\ v \in BackupVersion /\ v # Nil /\ v.owner # Nil
           /\ OwnedIfAuto(v) /\ LegalMove(Cur(job.p), v) /\ ~Manual(job.p)
  <1>1. job.pc # "idle" /\ TypeOK /\ JobInv
    BY DEF WatcherInv, Writing
  <1>2. job.p \in PVC /\ v # Nil /\ v.owner # Nil
    <2>1. v # Nil
      BY NilAssumption, ZenonT(60)
    <2>. QED
      BY <1>1, <2>1, JobTypes DEF JobInv
  <1>3. Cur(job.p) = job.obj /\ job.obj.owner # Nil
    BY <1>1 DEF JobInv
  <1>4. job.obj \in BackupObj
    BY <1>1 DEF TypeOK, Writing
  <1>5. job.obj # Nil
    BY <1>4, NilAssumption, ZenonT(60)
  <1>6. LegalMove(job.obj, v)
    BY <1>2, <1>5 DEF LegalMove, LifeOf, Reported
  <1>. QED
    BY <1>2, <1>3, <1>5, <1>6 DEF BackupVersion, OwnedIfAuto, Manual

\* A reconcile starts from the cached PVC.
LEMMA StartGood ==
    ASSUME WatcherInv, NEW p \in PVC, StartReconcile(p)
    PROVE  Good
  <1> DEFINE o == Cached(pvc[p])
  <1>1. TypeOK /\ o \in PvcVersion
    BY ReadTypes DEF WatcherInv
  <1>2. /\ RestOK' /\ backup' = backup
        /\ job' = IF o = Nil THEN IdleJob ELSE [IdleJob EXCEPT !.pc = "get", !.p = p, !.pvc = o]
    <2>1. UNCHANGED <<pvc, repos, uids>> /\ queue' \subseteq PVC /\ UNCHANGED budgets
      BY <1>1 DEF StartReconcile, TypeOK
    <2>2. RestOK'
      BY <1>1, <2>1, RestKept
    <2>. QED
      BY <2>2, ZenonT(60) DEF StartReconcile
  <1> HIDE DEF o
  <1>3. CASE o = Nil
    BY <1>2, <1>3, QuietGood
  <1>4. CASE o # Nil
    <2>1. o \in PvcObj
      BY <1>1, <1>4 DEF PvcVersion
    <2>2. job' = [pc |-> "get", p |-> p, pvc |-> o, obj |-> Nil, fresh |-> FALSE]
      BY <1>2, <1>4, ZenonT(60) DEF IdleJob
    <2>3. JobOK' /\ JobInv'
      BY <2>1, <2>2 DEF JobOK, JobInv, Job, Phase, Labelled, Writing
    <2>4. \A x \in PVC : Cur(x)' = Cur(x)
      BY <1>2 DEF Cur
    <2>5. StreamInv'
      BY <1>2 DEF WatcherInv, StreamInv, OwnedIfAuto
    <2>6. backup' \in [PVC -> Streams(BackupObj \cup {Nil})]
      BY <1>1, <1>2, ZenonT(60) DEF TypeOK
    <2>7. TypeOK'
      BY <1>2, <2>3, <2>6, ZenonT(60) DEF TypeOK, RestOK, JobOK
    <2>. QED
      BY <2>3, <2>4, <2>5, <2>7, Quiet DEF Good, WatcherInv
  <1>. QED
    BY <1>3, <1>4

\* A phase that writes has a copy with a controller; a phase that needs the
\* repository has a label.
LEMMA GetGood ==
    ASSUME WatcherInv, GetBackup
    PROVE  Good
  <1> DEFINE b == Cached(backup[job.p])
             phase == NextPhase(job.pvc, b)
  <1>1. /\ TypeOK /\ StreamInv /\ job.pc = "get" /\ job \in Job
        /\ job.p \in PVC /\ job.pvc \in PvcObj
    BY JobTypes DEF WatcherInv, GetBackup
  <1>2. b \in BackupVersion /\ b \in Versions(backup[job.p])
    BY <1>1, ReadTypes
  <1>3. /\ RestOK' /\ backup' = backup
        /\ job' = IF phase = "idle" THEN IdleJob
                  ELSE [job EXCEPT !.pc = phase, !.obj = b, !.fresh = CaughtUp(backup[job.p])]
    <2>1. UNCHANGED <<pvc, repos, uids>> /\ queue' \subseteq PVC /\ UNCHANGED budgets
      BY <1>1 DEF GetBackup, TypeOK
    <2>2. RestOK'
      BY <1>1, <2>1, RestKept
    <2>. QED
      BY <2>2, ZenonT(60) DEF GetBackup
  <1>4. CaughtUp(backup[job.p]) => b = Cur(job.p)
    <2>1. backup[job.p] \in Streams(BackupVersion)
      BY <1>1, ZenonT(60) DEF TypeOK, BackupVersion
    <2>. QED
      BY <2>1, StreamCaughtUp DEF Cur
  <1>5. OwnedIfAuto(b)
    BY <1>1, <1>2 DEF StreamInv
  <1>6. CaughtUp(backup[job.p]) \in BOOLEAN
    BY DEF CaughtUp
  <1>7. /\ phase \in {"idle", "delete", "create", "sync", "markAuto"}
        /\ phase \in {"create", "sync", "markAuto"} => job.pvc.label # Nil
        /\ phase \in {"delete", "sync", "markAuto"} => b # Nil /\ IsAutoCreated(b, job.pvc)
    <2> HIDE DEF b
    <2>1. CASE b = Nil
      BY <2>1, ZenonT(60) DEF NextPhase
    <2>2. CASE b # Nil /\ ~IsAutoCreated(b, job.pvc)
      BY <2>2, ZenonT(60) DEF NextPhase
    <2>3. CASE b # Nil /\ IsAutoCreated(b, job.pvc)
      BY <2>3, ZenonT(60) DEF NextPhase
    <2>. QED
      BY <2>1, <2>2, <2>3
  <1> HIDE DEF b, phase
  <1>8. CASE phase = "idle"
    BY <1>3, <1>8, QuietGood
  <1>9. CASE phase # "idle"
    <2>1. job' = [pc |-> phase, p |-> job.p, pvc |-> job.pvc, obj |-> b, fresh |-> CaughtUp(backup[job.p])]
      BY <1>1, <1>3, <1>9, ZenonT(60) DEF Job
    <2>2. /\ job'.pc = phase /\ job'.p = job.p /\ job'.pvc = job.pvc /\ job'.obj = b
          /\ job'.fresh = CaughtUp(backup[job.p])
      BY <2>1, SMTT(60)
    <2>3. job' \in Job
      BY <1>1, <1>2, <1>6, <1>7, <1>9, <2>1, SMTT(60) DEF Job, Phase, BackupVersion
    <2>4. JobOK'
      BY <1>2, <1>7, <1>9, <2>2, <2>3, SMTT(60) DEF JobOK, BackupVersion
    <2>5. job.pvc.label \in Repo \cup {Nil} /\ job.pvc.uid \in Uid /\ job.pvc.uid # Nil
      BY <1>1, NilAssumption DEF PvcObj
    <2>6. JobInv'
      <3>1. job'.pc \in Labelled => job'.pvc.label \in Repo
        BY <1>7, <2>2, <2>5 DEF Labelled
      <3>2. job'.pc \in Writing => job'.obj.owner # Nil
        BY <1>5, <1>7, <2>2, <2>5 DEF Writing, OwnedIfAuto, IsAutoCreated
      <3>3. job'.fresh => Current(backup'[job'.p]) = job'.obj
        BY <1>3, <1>4, <2>2 DEF Cur
      <3>. QED
        BY <3>1, <3>2, <3>3 DEF JobInv, Cur
    <2>7. \A x \in PVC : Cur(x)' = Cur(x)
      BY <1>3 DEF Cur
    <2>8. StreamInv'
      BY <1>1, <1>3 DEF StreamInv, OwnedIfAuto
    <2>9. backup' \in [PVC -> Streams(BackupObj \cup {Nil})]
      BY <1>1, <1>3, ZenonT(60) DEF TypeOK
    <2>10. TypeOK'
      BY <1>3, <2>4, <2>9, ZenonT(60) DEF TypeOK, RestOK, JobOK
    <2>. QED
      BY <2>6, <2>7, <2>8, <2>10, Quiet DEF Good, WatcherInv
  <1>. QED
    BY <1>8, <1>9

\* A deletion by name, whatever object has the name by now.
LEMMA DeleteGood ==
    ASSUME WatcherInv, DeleteBackup
    PROVE  Good
  <1>1. TypeOK /\ StreamInv /\ job.pc # "idle" /\ job.p \in PVC /\ UNCHANGED <<pvc, repos, uids>>
    BY JobTypes DEF WatcherInv, DeleteBackup
  <1>2. CASE Done /\ UNCHANGED <<backup, budgets>>
    BY <1>1, <1>2, EndGood
  <1>3. CASE ApiFault
    BY <1>1, <1>3, EndGood DEF ApiFault
  <1>4. CASE /\ Cur(job.p) # Nil /\ WriteBackup(job.p, Deleted(Cur(job.p))) /\ Done
             /\ UNCHANGED budgets
    <2> DEFINE c == Cur(job.p)
               v == Deleted(c)
    <2>1. c \in BackupObj /\ c \in Versions(backup[job.p])
      BY <1>1, <1>4, ReadTypes DEF BackupVersion
    <2>2. OwnedIfAuto(c)
      BY <1>1, <2>1 DEF StreamInv
    <2> HIDE DEF c
    <2>3. v \in BackupVersion /\ OwnedIfAuto(v) /\ LegalMove(c, v) /\ (v = Nil \/ v.deleting)
      BY <2>1, <2>2, DeletedTypes, DeletedMove, ZenonT(60)
    <2> HIDE DEF v
    <2>4. WriteBackup(job.p, v) /\ LegalMove(Cur(job.p), v)
      BY <1>4, <2>3 DEF c, v
    <2>. QED
      BY <1>1, <1>4, <2>3, <2>4, LastWriteGood, ZenonT(60)
  <1>. QED
    BY <1>2, <1>3, <1>4, ZenonT(60) DEF DeleteBackup

\* The copy just written is what the reconcile goes on with.
LEMMA MarkGood ==
    ASSUME WatcherInv, MarkAutoCreated
    PROVE  Good
  <1>1. /\ TypeOK /\ JobInv /\ job.pc = "markAuto" /\ job.pc # "idle" /\ job \in Job
        /\ job.obj \in BackupObj /\ UNCHANGED <<pvc, repos, uids>>
    BY JobTypes, ZenonT(60) DEF WatcherInv, TypeOK, MarkAutoCreated
  <1>2. CASE ~job.fresh /\ Retry /\ UNCHANGED <<backup, budgets>>
    BY <1>1, <1>2, EndGood
  <1>3. CASE ApiFault
    BY <1>1, <1>3, EndGood DEF ApiFault
  <1> DEFINE o == [job.obj EXCEPT !.auto = TRUE]
  <1>4. CASE /\ job.fresh /\ WriteBackup(job.p, o) /\ job' = [job EXCEPT !.pc = "sync", !.obj = o]
             /\ UNCHANGED <<queue, budgets>>
    <2>1. /\ o \in BackupObj /\ o.owner = job.obj.owner /\ o.fin = job.obj.fin
          /\ o.deleting = job.obj.deleting /\ o.reported = job.obj.reported
      BY <1>1, ZenonT(60) DEF BackupObj
    <2> HIDE DEF o
    <2>2. /\ o \in BackupVersion /\ o.owner # Nil /\ OwnedIfAuto(o)
          /\ LegalMove(Cur(job.p), o) /\ ~Manual(job.p)
      BY <1>1, <1>4, <2>1, CopyMove, ZenonT(60) DEF Writing
    <2>3. /\ job'.pc = "sync" /\ job'.p = job.p /\ job'.obj = o /\ job'.pvc = job.pvc
          /\ job' \in Job
      BY <1>1, <1>4, <2>1, ZenonT(60) DEF Job, Phase
    <2>4. JobOK'
      BY <2>1, <2>3 DEF JobOK
    <2>5. job.pvc.label \in Repo
      BY <1>1 DEF JobInv, Labelled
    <2>6. queue' \subseteq PVC
      BY <1>1, <1>4 DEF TypeOK
    <2>7. RestOK'
      BY <1>1, <1>4, <2>6, RestKept, SMTT(60)
    <2>8. /\ job'.pc \in Labelled => job'.pvc.label \in Repo
          /\ job'.pc \in Writing => job'.obj.owner # Nil
      BY <2>2, <2>3, <2>5
    <2>. QED
      BY <1>1, <1>4, <2>2, <2>3, <2>4, <2>7, <2>8, WatcherGood, ZenonT(60)
  <1>. QED
    BY <1>2, <1>3, <1>4, ZenonT(60) DEF MarkAutoCreated

\* Only a copy with a controller that is current is written back.
LEMMA SyncGood ==
    ASSUME WatcherInv, SyncSchedule
    PROVE  Good
  <1>1. /\ TypeOK /\ JobInv /\ job.pc = "sync" /\ job.pc # "idle" /\ job \in Job
        /\ job.obj \in BackupObj /\ job.pvc \in PvcObj /\ UNCHANGED <<pvc, repos, uids>>
    BY JobTypes, ZenonT(60) DEF WatcherInv, TypeOK, SyncSchedule
  <1>2. job.pvc.label \in Repo
    BY <1>1 DEF JobInv, Labelled
  <1> DEFINE o == [job.obj EXCEPT !.sched = GetScheduleFromPVC(job.pvc)]
  <1>3. CASE Done /\ UNCHANGED <<backup, budgets>>
    BY <1>1, <1>3, EndGood
  <1>4. CASE Refused(o)
    BY <1>1, <1>4, EndGood DEF Refused
  <1>5. CASE ApiFault
    BY <1>1, <1>5, EndGood DEF ApiFault
  <1>6. CASE /\ GetKopiaRepository(job.pvc.label) # Nil
             /\ job.fresh /\ WriteBackup(job.p, o) /\ Done /\ UNCHANGED budgets
    <2>1. GetScheduleFromPVC(job.pvc) \in Schedule
      BY <1>1, <1>2, <1>6, ScheduleTypes
    <2>2. /\ o \in BackupObj /\ o.owner = job.obj.owner /\ o.fin = job.obj.fin
          /\ o.deleting = job.obj.deleting /\ o.reported = job.obj.reported
      BY <1>1, <2>1 DEF BackupObj
    <2> HIDE DEF o
    <2>3. /\ o \in BackupVersion /\ OwnedIfAuto(o)
          /\ LegalMove(Cur(job.p), o) /\ ~Manual(job.p)
      BY <1>1, <1>6, <2>2, CopyMove, ZenonT(60) DEF Writing
    <2>. QED
      BY <1>1, <1>6, <2>3, LastWriteGood, ZenonT(60)
  <1> HIDE DEF o
  <1>. QED
    BY <1>3, <1>4, <1>5, <1>6, ZenonT(60) DEF SyncSchedule, o

\* What the watcher creates has a controller.
LEMMA CreateGood ==
    ASSUME WatcherInv, CreateBackupForPVC
    PROVE  Good
  <1>1. /\ TypeOK /\ JobInv /\ job.pc = "create" /\ job.pc # "idle" /\ job \in Job
        /\ job.pvc \in PvcObj /\ UNCHANGED <<pvc, repos, uids>>
    BY JobTypes, ZenonT(60) DEF WatcherInv, TypeOK, CreateBackupForPVC
  <1>2. job.pvc.label \in Repo /\ job.pvc.uid \in Uid /\ job.pvc.uid # Nil
    BY <1>1, NilAssumption DEF JobInv, Labelled, PvcObj
  <1> DEFINE o == [owner |-> job.pvc.uid, auto |-> FALSE, sched |-> GetScheduleFromPVC(job.pvc),
                   fin |-> FALSE, deleting |-> FALSE, reported |-> FALSE]
  <1>3. CASE (Done \/ Retry) /\ UNCHANGED <<backup, budgets>>
    BY <1>1, <1>3, EndGood
  <1>4. CASE ApiFault
    BY <1>1, <1>4, EndGood DEF ApiFault
  <1>5. CASE /\ GetKopiaRepository(job.pvc.label) # Nil /\ Cur(job.p) = Nil
             /\ WriteBackup(job.p, o)
             /\ job' = [job EXCEPT !.pc = "markNew", !.obj = o, !.fresh = TRUE]
             /\ UNCHANGED <<queue, budgets>>
    <2>1. GetScheduleFromPVC(job.pvc) \in Schedule
      BY <1>1, <1>2, <1>5, ScheduleTypes, SMTT(60)
    <2>2. /\ o \in BackupObj /\ o.owner # Nil /\ ~o.fin /\ ~o.deleting /\ ~o.reported
      BY <1>2, <2>1 DEF BackupObj
    <2> HIDE DEF o
    <2>3. o # Nil
      BY <2>2, NilAssumption, ZenonT(60)
    <2>4. o \in BackupVersion /\ OwnedIfAuto(o) /\ LegalMove(Cur(job.p), o)
      BY <1>5, <2>2, <2>3 DEF BackupVersion, OwnedIfAuto, LegalMove, LifeOf, Reported
    <2>5. ~Manual(job.p)
      BY <1>5 DEF Manual
    <2>6. /\ job'.pc = "markNew" /\ job'.p = job.p /\ job'.obj = o /\ job'.pvc = job.pvc
          /\ job' \in Job
      BY <1>1, <1>5, <2>2, ZenonT(60) DEF Job, Phase
    <2>7. JobOK'
      BY <2>2, <2>6 DEF JobOK
    <2>8. queue' \subseteq PVC
      BY <1>1, <1>5 DEF TypeOK
    <2>9. RestOK'
      BY <1>1, <1>5, <2>8, RestKept, SMTT(60)
    <2>10. /\ job'.pc \in Labelled => job'.pvc.label \in Repo
           /\ job'.pc \in Writing => job'.obj.owner # Nil
      BY <1>2, <2>2, <2>6
    <2>. QED
      BY <1>1, <1>5, <2>4, <2>5, <2>6, <2>7, <2>9, <2>10, WatcherGood, ZenonT(60)
  <1> HIDE DEF o
  <1>. QED
    BY <1>3, <1>4, <1>5, ZenonT(60) DEF CreateBackupForPVC, o

\* The status of the new backup, if no one has written it since.
LEMMA MarkNewGood ==
    ASSUME WatcherInv, MarkNewBackup
    PROVE  Good
  <1>1. /\ TypeOK /\ JobInv /\ job.pc = "markNew" /\ job.pc # "idle" /\ job \in Job
        /\ job.obj \in BackupObj /\ UNCHANGED <<pvc, repos, uids>>
    BY JobTypes, ZenonT(60) DEF WatcherInv, TypeOK, MarkNewBackup
  <1>2. CASE ~job.fresh /\ Retry /\ UNCHANGED <<backup, budgets>>
    BY <1>1, <1>2, EndGood
  <1>3. CASE ApiFault
    BY <1>1, <1>3, EndGood DEF ApiFault
  <1> DEFINE o == [job.obj EXCEPT !.auto = TRUE]
  <1>4. CASE job.fresh /\ WriteBackup(job.p, o) /\ Done /\ UNCHANGED budgets
    <2>1. /\ o \in BackupObj /\ o.owner = job.obj.owner /\ o.fin = job.obj.fin
          /\ o.deleting = job.obj.deleting /\ o.reported = job.obj.reported
      BY <1>1, ZenonT(60) DEF BackupObj
    <2> HIDE DEF o
    <2>2. /\ o \in BackupVersion /\ OwnedIfAuto(o)
          /\ LegalMove(Cur(job.p), o) /\ ~Manual(job.p)
      BY <1>1, <1>4, <2>1, CopyMove, ZenonT(60) DEF Writing
    <2>. QED
      BY <1>1, <1>4, <2>2, LastWriteGood, ZenonT(60)
  <1>. QED
    BY <1>2, <1>3, <1>4, ZenonT(60) DEF MarkNewBackup

\* The KopiaBackup controller, the garbage collector and people.
LEMMA ClientGood ==
    ASSUME WatcherInv, NEW p \in PVC,
           \/ AddFinalizer(p) \/ ReportStatus(p) \/ RemoveFinalizer(p) \/ CollectGarbage(p)
           \/ UserDeletesBackup(p) \/ \E s \in Schedule : UserCreatesBackup(p, s)
    PROVE  Good
  <1> DEFINE c == Cur(p)
  <1>1. TypeOK /\ StreamInv /\ c \in BackupVersion /\ c \in Versions(backup[p])
    BY ReadTypes DEF WatcherInv
  <1>2. OwnedIfAuto(c)
    BY <1>1 DEF StreamInv
  <1>3. c # Nil => c \in BackupObj
    BY <1>1 DEF BackupVersion
  <1>4. OwnedIfAuto(Nil) /\ Nil \in BackupVersion
    BY DEF OwnedIfAuto, BackupVersion
  <1> HIDE DEF c
  <1>5. CASE AddFinalizer(p)
    <2> DEFINE v == [c EXCEPT !.fin = TRUE]
    <2>1. c # Nil /\ ~c.fin /\ OtherWrite(p, v) /\ UNCHANGED budgets
      BY <1>5, ZenonT(60) DEF AddFinalizer, c
    <2>2. /\ v \in BackupObj /\ v.fin /\ v.auto = c.auto /\ v.owner = c.owner
          /\ v.deleting = c.deleting /\ v.reported = c.reported
      BY <1>3, <2>1, ZenonT(60) DEF BackupObj
    <2> HIDE DEF v
    <2>3. v # Nil /\ v \in BackupVersion
      BY <2>2, NilAssumption, ZenonT(60) DEF BackupVersion
    <2>4. OwnedIfAuto(v) /\ LegalMove(c, v)
      BY <1>2, <2>1, <2>2, <2>3 DEF OwnedIfAuto, LegalMove, LifeOf, Reported
    <2>. QED
      BY <2>1, <2>3, <2>4, OtherGood, ZenonT(60) DEF c
  <1>6. CASE ReportStatus(p)
    <2> DEFINE v == [c EXCEPT !.reported = TRUE]
    <2>1. c # Nil /\ c.fin /\ ~c.deleting /\ OtherWrite(p, v) /\ UNCHANGED budgets
      BY <1>6, ZenonT(60) DEF ReportStatus, c
    <2>2. /\ v \in BackupObj /\ v.fin = c.fin /\ v.auto = c.auto /\ v.owner = c.owner
          /\ v.deleting = c.deleting /\ v.reported
      BY <1>3, <2>1, ZenonT(60) DEF BackupObj
    <2> HIDE DEF v
    <2>3. v # Nil /\ v \in BackupVersion
      BY <2>2, NilAssumption, ZenonT(60) DEF BackupVersion
    <2>4. OwnedIfAuto(v) /\ LegalMove(c, v)
      BY <1>2, <2>1, <2>2, <2>3 DEF OwnedIfAuto, LegalMove, LifeOf, Reported
    <2>. QED
      BY <2>1, <2>3, <2>4, OtherGood, ZenonT(60) DEF c
  <1>7. CASE RemoveFinalizer(p)
    <2>1. c # Nil /\ c.deleting /\ OtherWrite(p, Nil) /\ UNCHANGED budgets
      BY <1>7, ZenonT(60) DEF RemoveFinalizer, c
    <2>2. LegalMove(c, Nil)
      BY <2>1 DEF LegalMove, LifeOf
    <2>. QED
      BY <1>4, <2>1, <2>2, OtherGood, ZenonT(60) DEF c
  <1>8. ASSUME c # Nil, OtherWrite(p, Deleted(c)), UNCHANGED budgets \/ Edit("delete")
        PROVE  Good
    <2>1. Deleted(c) \in BackupVersion /\ OwnedIfAuto(Deleted(c)) /\ LegalMove(c, Deleted(c))
      BY <1>2, <1>3, <1>8, DeletedTypes, DeletedMove, ZenonT(60)
    <2>. QED
      BY <1>8, <2>1, OtherGood, ZenonT(60) DEF c
  <1>9. CASE CollectGarbage(p)
    BY <1>8, <1>9, ZenonT(60) DEF CollectGarbage, c
  <1>10. CASE UserDeletesBackup(p)
    BY <1>8, <1>10, ZenonT(60) DEF UserDeletesBackup, c
  <1>11. ASSUME NEW s \in Schedule, UserCreatesBackup(p, s) PROVE Good
    <2> DEFINE v == [owner |-> Nil, auto |-> FALSE, sched |-> s, fin |-> FALSE,
                     deleting |-> FALSE, reported |-> FALSE]
    <2>1. c = Nil /\ OtherWrite(p, v) /\ Edit("manual")
      BY <1>11, ZenonT(60) DEF UserCreatesBackup, c
    <2>2. v \in BackupObj /\ ~v.auto /\ ~v.fin /\ ~v.deleting /\ ~v.reported
      BY DEF BackupObj
    <2> HIDE DEF v
    <2>3. v # Nil /\ v \in BackupVersion
      BY <2>2, NilAssumption, ZenonT(60) DEF BackupVersion
    <2>4. OwnedIfAuto(v) /\ LegalMove(c, v)
      BY <2>1, <2>2, <2>3 DEF OwnedIfAuto, LegalMove, LifeOf, Reported
    <2>. QED
      BY <2>1, <2>3, <2>4, OtherGood, ZenonT(60) DEF c
  <1>. QED
    BY <1>5, <1>6, <1>7, <1>9, <1>10, <1>11, ZenonT(60)

\* A cache catches up.
LEMMA DeliverGood ==
    ASSUME WatcherInv, NEW p \in PVC, DeliverPvc(p) \/ DeliverBackup(p)
    PROVE  Good
  <1>1. TypeOK /\ StreamInv /\ JobInv
    BY DEF WatcherInv
  <1>2. CASE DeliverPvc(p)
    <2>1. /\ pvc[p] \in Streams(PvcObj \cup {Nil}) /\ ~CaughtUp(pvc[p])
          /\ pvc' = [pvc EXCEPT ![p] = Deliver(pvc[p])]
      BY <1>1, <1>2, ZenonT(60) DEF TypeOK, DeliverPvc
    <2>2. Deliver(pvc[p]) \in Streams(PvcObj \cup {Nil})
      BY <2>1, StreamDeliver
    <2>3. pvc' \in [PVC -> Streams(PvcObj \cup {Nil})]
      BY <1>1, <2>1, <2>2, ZenonT(60) DEF TypeOK
    <2>4. queue' \subseteq PVC /\ UNCHANGED <<backup, repos, uids, job, budgets>>
      <3>1. queue \subseteq PVC
        BY <1>1, ZenonT(60) DEF TypeOK
      <3>2. queue' \subseteq queue \cup {p} /\ UNCHANGED <<backup, repos, uids, job, budgets>>
        BY <1>2, ZenonT(60) DEF DeliverPvc
      <3>. QED
        BY <3>1, <3>2, ZenonT(60)
    <2>5. RestOK'
      BY <1>1, <2>3, <2>4, BudgetTypes, ZenonT(60) DEF RestOK, TypeOK
    <2>. QED
      BY <2>4, <2>5, QuietGood
  <1>3. CASE DeliverBackup(p)
    <2>1. /\ backup[p] \in Streams(BackupObj \cup {Nil}) /\ ~CaughtUp(backup[p])
          /\ backup' = [backup EXCEPT ![p] = Deliver(backup[p])]
          /\ UNCHANGED <<pvc, repos, uids, queue, job, budgets>>
      BY <1>1, <1>3, ZenonT(60) DEF TypeOK, DeliverBackup
    <2>2. /\ Deliver(backup[p]) \in Streams(BackupObj \cup {Nil})
          /\ Current(Deliver(backup[p])) = Current(backup[p])
          /\ Versions(Deliver(backup[p])) \subseteq Versions(backup[p])
      BY <2>1, StreamDeliver
    <2> DEFINE w == Deliver(backup[p])
    <2>3. backup = [x \in PVC |-> backup[x]]
      BY <1>1, ZenonT(60) DEF TypeOK
    <2> HIDE DEF w
    <2>4. backup'[p] = w /\ \A x \in PVC \ {p} : backup'[x] = backup[x]
      BY <1>1, <2>1, ZenonT(60) DEF w, TypeOK
    <2>5. backup' \in [PVC -> Streams(BackupObj \cup {Nil})]
      BY <1>1, <2>1, <2>2, ZenonT(60) DEF TypeOK
    <2>6. \A x \in PVC : Current(backup'[x]) = Current(backup[x])
      BY <2>2, <2>4, SMTT(60) DEF w
    <2>7. StreamInv'
      <3> SUFFICES ASSUME NEW x \in PVC, NEW v \in Versions(backup'[x]) PROVE OwnedIfAuto(v)
        BY SMTT(60) DEF StreamInv, OwnedIfAuto
      <3>1. v \in Versions(backup[x])
        BY <2>2, <2>4, SMTT(60) DEF w
      <3>. QED
        BY <1>1, <3>1 DEF StreamInv
    <2>8. JobInv'
      <3>1. job.pc # "idle" => job.p \in PVC
        BY <1>1, JobTypes
      <3>. QED
        BY <1>1, <2>1, <2>6, <3>1 DEF JobInv, Cur
    <2>9. JobOK' /\ RestOK'
      <3>1. UNCHANGED <<pvc, repos, uids>> /\ UNCHANGED budgets /\ UNCHANGED job /\ queue' \subseteq PVC
        BY <1>1, <2>1 DEF TypeOK
      <3>2. RestOK'
        BY <1>1, <3>1, RestKept
      <3>3. JobOK'
        BY <1>1, <3>1, TypeParts DEF JobOK
      <3>. QED
        BY <3>2, <3>3, SMTT(60)
    <2>10. TypeOK'
      BY <2>5, <2>9, ZenonT(60) DEF TypeOK, RestOK, JobOK
    <2>11. Moves /\ Spares
      <3>1. \A x \in PVC : Cur(x)' = Cur(x)
        BY <2>6 DEF Cur
      <3>. QED
        BY <3>1, Quiet, SMTT(60)
    <2>. QED
      BY <2>7, <2>8, <2>10, <2>11 DEF Good, WatcherInv
  <1>. QED
    BY <1>2, <1>3

\* Steps that touch neither a KopiaBackup nor the reconcile in progress.
LEMMA ElsewhereGood ==
    ASSUME WatcherInv,
           \/ Restart
           \/ \E p \in PVC : OtherChange(p) \/ RemoveLabel(p) \/ DeletePvc(p) \/ CreatePvc(p)
           \/ \E p \in PVC, r \in Repo : SetLabel(p, r)
           \/ \E p \in PVC, s \in Schedule \cup {Nil} : SetSchedule(p, s)
           \/ \E id \in Namespace \X Repo, s \in Schedule : CreateRepository(id, s)
           \/ \E id \in Namespace \X Repo, s \in Schedule \cup {Nil} : ChangeRepository(id, s)
           \/ UNCHANGED vars
    PROVE  Good
  <1>1. TypeOK
    BY DEF WatcherInv
  <1>2. CASE Restart
    <2>1. UNCHANGED <<pvc, repos, uids>> /\ backup' = backup /\ job' = IdleJob /\ Fault("crash") /\ queue' \subseteq PVC
      BY <1>2 DEF Restart
    <2>. QED
      BY <1>1, <2>1, RestKept, QuietGood, SMTT(60)
  <1>3. ASSUME NEW p \in PVC, OtherChange(p) PROVE Good
    <2>1. UNCHANGED <<pvc, repos, uids>> /\ UNCHANGED backup /\ UNCHANGED job /\ UNCHANGED budgets /\ queue' \subseteq PVC
      BY <1>1, <1>3 DEF OtherChange, TypeOK
    <2>. QED
      BY <1>1, <2>1, RestKept, QuietGood, SMTT(60)
  <1>4. ASSUME NEW p \in PVC, NEW v \in PvcVersion, EditPvc(p, v), NEW k, Edit(k) PROVE Good
    <2>1. pvc' \in [PVC -> Streams(PvcObj \cup {Nil})]
      BY <1>1, <1>4, WritePvcStep, ZenonT(60) DEF EditPvc, PvcVersion
    <2>2. UNCHANGED <<repos, uids, queue>> /\ UNCHANGED backup /\ UNCHANGED job
      BY <1>4 DEF EditPvc
    <2>3. RestOK'
      BY <1>1, <1>4, <2>1, <2>2, BudgetTypes, ZenonT(60) DEF RestOK, TypeOK
    <2>. QED
      BY <2>2, <2>3, QuietGood
  <1>5. ASSUME NEW p \in PVC, CurPvc(p) # Nil, NEW r \in Repo \cup {Nil}, NEW s \in Schedule \cup {Nil}
        PROVE  /\ [CurPvc(p) EXCEPT !.label = r] \in PvcVersion
               /\ [CurPvc(p) EXCEPT !.sched = s] \in PvcVersion
    <2>1. CurPvc(p) \in PvcObj
      BY <1>1, <1>5, ReadTypes DEF PvcVersion
    <2>. QED
      BY <2>1, SMTT(60) DEF PvcObj, PvcVersion
  <1>6. ASSUME NEW p \in PVC, RemoveLabel(p) \/ DeletePvc(p) PROVE Good
    <2>1. CurPvc(p) # Nil
      BY <1>6 DEF RemoveLabel, DeletePvc, EditPvc
    <2>2. [CurPvc(p) EXCEPT !.label = Nil] \in PvcVersion /\ Nil \in PvcVersion
      BY <1>5, <2>1, ZenonT(60) DEF PvcVersion
    <2>. QED
      BY <1>4, <1>6, <2>2, ZenonT(60) DEF RemoveLabel, DeletePvc
  <1>7. ASSUME NEW p \in PVC, NEW r \in Repo, SetLabel(p, r) PROVE Good
    <2>1. CurPvc(p) # Nil
      BY <1>7 DEF SetLabel, EditPvc
    <2>2. [CurPvc(p) EXCEPT !.label = r] \in PvcVersion
      BY <1>5, <2>1, ZenonT(60)
    <2>. QED
      BY <1>4, <1>7, <2>2, ZenonT(60) DEF SetLabel
  <1>8. ASSUME NEW p \in PVC, NEW s \in Schedule \cup {Nil}, SetSchedule(p, s) PROVE Good
    <2>1. CurPvc(p) # Nil
      BY <1>8 DEF SetSchedule, EditPvc
    <2>2. [CurPvc(p) EXCEPT !.sched = s] \in PvcVersion
      BY <1>5, <2>1, ZenonT(60)
    <2>. QED
      BY <1>4, <1>8, <2>2, ZenonT(60) DEF SetSchedule
  <1>9. ASSUME NEW p \in PVC, CreatePvc(p) PROVE Good
    <2>1. uids + 1 \in Uid
      <3>1. uids \in Uid /\ MaxUid \in Nat
        BY <1>1, ConstantsAssumption, ZenonT(60) DEF TypeOK
      <3>2. uids < MaxUid
        BY <1>9, ZenonT(60) DEF CreatePvc
      <3>. QED
        BY <3>1, <3>2, SMTT(60) DEF Uid
    <2>2. NewPvc(uids + 1) \in PvcVersion
      BY <2>1 DEF NewPvc, PvcObj, PvcVersion
    <2>3. WritePvc(p, NewPvc(uids + 1))
      BY <1>9 DEF CreatePvc
    <2>4. pvc' \in [PVC -> Streams(PvcObj \cup {Nil})]
      BY <1>1, <2>2, <2>3, WritePvcStep, ZenonT(60) DEF PvcVersion
    <2>5. uids' \in Uid /\ UNCHANGED <<backup, repos, queue, job>> /\ Edit("pvc")
      BY <1>9, <2>1 DEF CreatePvc
    <2>6. RestOK'
      BY <1>1, <2>4, <2>5, BudgetTypes, ZenonT(60) DEF RestOK, TypeOK
    <2>. QED
      BY <2>5, <2>6, QuietGood
  <1>10. ASSUME NEW id \in Namespace \X Repo, NEW s \in Schedule \cup {Nil}, NEW k, Edit(k), SetRepository(id, s)
         PROVE  Good
    <2>1. repos' \in [Namespace \X Repo -> Schedule \cup {Nil}]
      <3>1. repos' = [repos EXCEPT ![id] = s] /\ repos \in [Namespace \X Repo -> Schedule \cup {Nil}]
        BY <1>1, <1>10, ZenonT(60) DEF SetRepository, TypeOK
      <3>. QED
        BY <1>10, <3>1, ZenonT(60)
    <2>2. UNCHANGED <<pvc, backup, uids, queue, job>>
      BY <1>10 DEF SetRepository
    <2>3. RestOK'
      BY <1>1, <1>10, <2>1, <2>2, BudgetTypes, ZenonT(60) DEF RestOK, TypeOK
    <2>. QED
      BY <2>2, <2>3, QuietGood
  <1>11. CASE UNCHANGED vars
    <2>1. UNCHANGED <<pvc, repos, uids>> /\ UNCHANGED backup /\ UNCHANGED job /\ UNCHANGED budgets /\ queue' \subseteq PVC
      BY <1>1, <1>11 DEF vars, TypeOK
    <2>. QED
      BY <1>1, <2>1, RestKept, QuietGood, SMTT(60)
  <1>12. ASSUME NEW id \in Namespace \X Repo, NEW s \in Schedule \cup {Nil}, CreateRepository(id, s) \/ ChangeRepository(id, s)
         PROVE  Good
    BY <1>10, <1>12, ZenonT(60) DEF CreateRepository, ChangeRepository
  <1>13. \A s \in Schedule : s \in Schedule \cup {Nil}
    OBVIOUS
  <1>. QED
    BY <1>2, <1>3, <1>6, <1>7, <1>8, <1>9, <1>11, <1>12, <1>13, ZenonT(60)

\* All steps.
LEMMA WatcherStep == WatcherInv /\ [Next]_vars => Good
  <1> SUFFICES ASSUME WatcherInv, [Next]_vars PROVE Good
    OBVIOUS
  <1>1. CASE Reconcile
    BY <1>1, StartGood, GetGood, DeleteGood, MarkGood, SyncGood, CreateGood, MarkNewGood, ZenonT(60) DEF Reconcile
  <1>2. CASE Environment
    BY <1>2, DeliverGood, ClientGood, ElsewhereGood, ZenonT(60) DEF Environment
  <1>3. CASE UNCHANGED vars
    BY <1>3, ElsewhereGood
  <1>. QED
    BY <1>1, <1>2, <1>3 DEF Next

\* The first state.
LEMMA WatcherInit == Init => WatcherInv /\ Lifecycle!Init
  <1> SUFFICES ASSUME Init PROVE WatcherInv /\ Lifecycle!Init
    OBVIOUS
  <1>1. backup = [p \in PVC |-> <<Nil>>] /\ job = IdleJob
    BY DEF Init
  <1>2. \A p \in PVC : Cur(p) = Nil /\ Versions(backup[p]) = {Nil}
    BY <1>1 DEF Cur, Current, Versions
  <1>3. StreamInv /\ JobInv
    BY <1>1, <1>2 DEF StreamInv, OwnedIfAuto, JobInv, IdleJob, Labelled, Writing
  <1>4. backup \in [PVC -> Streams(BackupObj \cup {Nil})]
    BY <1>1 DEF Streams
  <1>5. pvc \in [PVC -> Streams(PvcObj \cup {Nil})]
    <2>1. PICK r \in Repo \cup {Nil} : pvc = [p \in PVC |-> <<[NewPvc(1) EXCEPT !.label = r]>>]
      BY SMTT(60) DEF Init
    <2>2. 1 \in Uid
      BY ConstantsAssumption DEF Uid
    <2> DEFINE o == [NewPvc(1) EXCEPT !.label = r]
    <2>3. o \in PvcObj
      BY <2>2 DEF NewPvc, PvcObj
    <2> HIDE DEF o
    <2>4. <<o>> \in Streams(PvcObj \cup {Nil})
      BY <2>3 DEF Streams
    <2>. QED
      BY <2>1, <2>4 DEF o
  <1>6. RestOK
    <2>1. repos \in [Namespace \X Repo -> Schedule \cup {Nil}] /\ uids \in Uid /\ queue \subseteq PVC
      BY ConstantsAssumption DEF Init, Uid
    <2>2. allowed \subseteq Kind /\ faults \in Nat /\ edits \in Nat
      BY ConstantsAssumption DEF Init
    <2>. QED
      BY <1>5, <2>1, <2>2, ZenonT(60) DEF RestOK
  <1>7. JobOK
    BY <1>1 DEF JobOK, IdleJob
  <1>8. TypeOK
    BY <1>4, <1>6, <1>7, TypeParts
  <1>9. Lifecycle!Init
    BY <1>2 DEF Lifecycle!Init, life, attended, LifeOf
  <1>. QED
    BY <1>3, <1>8, <1>9 DEF WatcherInv

\* The strengthened invariant.
LEMMA WatcherInvariant == Spec => []WatcherInv
  <1>1. WatcherInv /\ [Next]_vars => WatcherInv'
    BY WatcherStep DEF Good
  <1>. QED
    BY WatcherInit, <1>1, PTL DEF Spec

\* TypeOK of the watcher, for any number of PVCs and any scenario.
THEOREM WatcherTypeCorrect == Spec => []TypeOK
  <1>1. WatcherInv => TypeOK
    BY DEF WatcherInv
  <1>. QED
    BY <1>1, WatcherInvariant, PTL

\* AutoCreatedIsOwned: reconcilePVC and createBackupForPVC mark only
\* KopiaBackups that a PVC controls.
THEOREM AutoCreatedOwned == Spec => []AutoCreatedIsOwned
  <1>1. WatcherInv => AutoCreatedIsOwned
    BY ReadTypes DEF WatcherInv, StreamInv, OwnedIfAuto, AutoCreatedIsOwned
  <1>. QED
    BY <1>1, WatcherInvariant, PTL

\* ManualNotRewritten: whatever copy reconcilePVC works from, its updates
\* leave the KopiaBackups made by hand as they are.
THEOREM ManualSafe == Spec => ManualNotRewritten
  <1>1. WatcherInv /\ [Next]_vars => Spares
    BY WatcherStep DEF Good
  <1>. QED
    BY <1>1, WatcherInvariant, PTL DEF Spec, ManualNotRewritten, Spares

\* ImplementsLifecycle: to the KopiaBackup controller and to everyone else,
\* the watcher's writes are steps of the life BackupLifecycle describes.
THEOREM WatcherImplementsLifecycle == Spec => ImplementsLifecycle
  <1>1. WatcherInv /\ [Next]_vars => [Lifecycle!Next]_(Lifecycle!vars)
    BY WatcherStep DEF Good, Moves, Lifecycle!vars
  <1>. QED
    BY <1>1, WatcherInit, WatcherInvariant, PTL DEF Spec, ImplementsLifecycle, Lifecycle!Spec
-----------------------------------------------------------------------------
(***************************************************************************)
(* RestIsFollowed                                                          *)
(*                                                                         *)
(* A step after which nothing is pending for a PVC has not changed the     *)
(* PVC, unless it started its reconcile or the operator.  So a reconcile   *)
(* that nothing follows works for the PVC as it is, and what it leaves     *)
(* behind follows it.                                                      *)
(*                                                                         *)
(*   Passing   every version of a PVC passes the event filter after the    *)
(*             one before it;                                              *)
(*   Lasting   a label once set stays;                                     *)
(*   KeptInv   where nothing is taken away, all copies of a PVC are of the *)
(*             same object, and one that has a KopiaBackup has the label;  *)
(*   OnTrack   what holds at each phase of the reconcile.                  *)
(***************************************************************************)
Passing(w) == \A i \in DOMAIN w : i + 1 \in DOMAIN w => Passes(w[i], w[i + 1])

Lasting(w) == \A i, j \in DOMAIN w : i <= j /\ w[i].label # Nil => w[j].label # Nil

AllLabelled(w) == \A v \in Versions(w) : v.label # Nil

\* A version that passes after the current one keeps all passing.
LEMMA PassingPut ==
    ASSUME NEW V, NEW w \in Streams(V), NEW v \in V, Passing(w), Passes(Current(w), v)
    PROVE  Passing(Put(w, v))
  <1>1. CASE v = Current(w)
    BY <1>1, ZenonT(60) DEF Put
  <1>2. CASE v # Current(w)
    <2> DEFINE a == Append(w, v)
    <2>1. w \in Seq(V) /\ Len(w) \in Nat /\ Len(w) > 0 /\ DOMAIN w = 1 .. Len(w)
      BY DEF Streams
    <2>2. /\ DOMAIN a = 1 .. Len(w) + 1
          /\ a[Len(w) + 1] = v
          /\ \A i \in 1 .. Len(w) : a[i] = w[i]
      BY <2>1
    <2> HIDE DEF a
    <2>3. ASSUME NEW i \in DOMAIN a, i + 1 \in DOMAIN a PROVE Passes(a[i], a[i + 1])
      <3>1. i \in 1 .. Len(w)
        BY <2>1, <2>2, <2>3
      <3>2. CASE i = Len(w)
        <4>1. a[i] = Current(w) /\ a[i + 1] = v
          BY <2>2, <3>1, <3>2 DEF Current
        <4>. QED
          BY <4>1, ZenonT(60)
      <3>3. CASE i # Len(w)
        <4>1. i + 1 \in 1 .. Len(w)
          BY <2>1, <3>1, <3>3, SMTT(60)
        <4>2. a[i] = w[i] /\ a[i + 1] = w[i + 1]
          BY <2>2, <3>1, <4>1
        <4>. QED
          BY <2>1, <3>1, <4>1, <4>2, ZenonT(60) DEF Passing
      <3>. QED
        BY <3>2, <3>3, ZenonT(60)
    <2>. QED
      BY <1>2, <2>3, ZenonT(60) DEF Passing, Put, a
  <1>. QED
    BY <1>1, <1>2, ZenonT(60)

\* What is delivered passes.
LEMMA PassingDeliver ==
    ASSUME NEW V, NEW w \in Streams(V), ~CaughtUp(w), Passing(w)
    PROVE  Passing(Deliver(w)) /\ Passes(w[1], w[2])
  <1> DEFINE t == Tail(w)
  <1>1. w \in Seq(V) /\ Len(w) \in Nat /\ Len(w) > 1 /\ DOMAIN w = 1 .. Len(w)
    <2>1. w \in Seq(V) /\ Len(w) \in Nat /\ DOMAIN w = 1 .. Len(w)
      BY DEF Streams
    <2>2. Len(w) > 1
      BY <2>1 DEF Streams, CaughtUp
    <2>. QED
      BY <2>1, <2>2
  <1>2. /\ DOMAIN t = 1 .. Len(w) - 1
        /\ \A i \in 1 .. Len(w) - 1 : t[i] = w[i + 1]
    BY <1>1
  <1> HIDE DEF t
  <1>3. ASSUME NEW i \in DOMAIN t, i + 1 \in DOMAIN t PROVE Passes(t[i], t[i + 1])
    <2>1. i + 1 \in DOMAIN w /\ (i + 1) + 1 \in DOMAIN w
      BY <1>1, <1>2, <1>3
    <2>2. t[i] = w[i + 1] /\ t[i + 1] = w[(i + 1) + 1]
      BY <1>2, <1>3
    <2>. QED
      BY <2>1, <2>2, ZenonT(60) DEF Passing
  <1>4. 1 \in DOMAIN w /\ 1 + 1 \in DOMAIN w /\ 1 + 1 = 2
    BY <1>1
  <1>5. Passes(w[1], w[2])
    BY <1>4, ZenonT(60) DEF Passing
  <1>. QED
    BY <1>3, <1>5, ZenonT(60) DEF Passing, Deliver, t

\* A label that stays in a write stays in the stream.
LEMMA LastingPut ==
    ASSUME NEW V, NEW w \in Streams(V), NEW v \in V, Lasting(w), Current(w).label # Nil => v.label # Nil
    PROVE  Lasting(Put(w, v))
  <1>1. CASE v = Current(w)
    BY <1>1, ZenonT(60) DEF Put
  <1>2. CASE v # Current(w)
    <2> DEFINE a == Append(w, v)
    <2>1. w \in Seq(V) /\ Len(w) \in Nat /\ Len(w) > 0 /\ DOMAIN w = 1 .. Len(w) /\ Len(w) \in DOMAIN w
      BY DEF Streams
    <2>2. /\ DOMAIN a = 1 .. Len(w) + 1
          /\ a[Len(w) + 1] = v
          /\ \A i \in 1 .. Len(w) : a[i] = w[i]
      BY <2>1
    <2> HIDE DEF a
    <2>3. ASSUME NEW i \in DOMAIN a, NEW j \in DOMAIN a, i <= j, a[i].label # Nil PROVE a[j].label # Nil
      <3>1. CASE j \in 1 .. Len(w)
        <4>1. i \in DOMAIN w /\ j \in DOMAIN w
          BY <2>1, <2>2, <2>3, <3>1, SMTT(60)
        <4>2. a[i] = w[i] /\ a[j] = w[j]
          BY <2>1, <2>2, <4>1
        <4>. QED
          BY <2>3, <4>1, <4>2, ZenonT(60) DEF Lasting
      <3>2. CASE j \notin 1 .. Len(w)
        <4>1. j = Len(w) + 1
          BY <2>1, <2>2, <3>2
        <4>2. CASE i \in DOMAIN w
          <5>1. a[i] = w[i] /\ i <= Len(w)
            BY <2>1, <2>2, <4>2
          <5>2. Current(w).label # Nil
            BY <2>1, <2>3, <4>2, <5>1, ZenonT(60) DEF Lasting, Current
          <5>. QED
            BY <2>2, <4>1, <5>2, ZenonT(60)
        <4>3. CASE i \notin DOMAIN w
          <5>1. i = j
            BY <2>1, <2>2, <4>1, <4>3
          <5>. QED
            BY <2>3, <5>1, ZenonT(60)
        <4>. QED
          BY <4>2, <4>3, ZenonT(60)
      <3>. QED
        BY <3>1, <3>2, ZenonT(60)
    <2>. QED
      BY <1>2, <2>3, ZenonT(60) DEF Lasting, Put, a
  <1>. QED
    BY <1>1, <1>2, ZenonT(60)

\* It stays when the cache catches up.
LEMMA LastingDeliver ==
    ASSUME NEW V, NEW w \in Streams(V), ~CaughtUp(w), Lasting(w)
    PROVE  Lasting(Deliver(w))
  <1> DEFINE t == Tail(w)
  <1>1. w \in Seq(V) /\ Len(w) \in Nat /\ DOMAIN w = 1 .. Len(w) /\ Len(w) > 0
    BY DEF Streams
  <1>2. /\ DOMAIN t = 1 .. Len(w) - 1
        /\ \A i \in 1 .. Len(w) - 1 : t[i] = w[i + 1]
    BY <1>1
  <1> HIDE DEF t
  <1>3. ASSUME NEW i \in DOMAIN t, NEW j \in DOMAIN t, i <= j, t[i].label # Nil PROVE t[j].label # Nil
    <2>1. i + 1 \in DOMAIN w /\ j + 1 \in DOMAIN w /\ i + 1 <= j + 1
      BY <1>1, <1>2, <1>3
    <2>2. t[i] = w[i + 1] /\ t[j] = w[j + 1]
      BY <1>2, <1>3
    <2>. QED
      BY <1>3, <2>1, <2>2, ZenonT(60) DEF Lasting
  <1>. QED
    BY <1>3, ZenonT(60) DEF Lasting, Deliver, t

\* If the cache shows the label, all versions after it have one.
LEMMA LastingRead ==
    ASSUME NEW V, NEW w \in Streams(V), Lasting(w), Cached(w).label # Nil
    PROVE  AllLabelled(w)
  <1>1. w \in Seq(V) /\ Len(w) \in Nat /\ Len(w) > 0 /\ DOMAIN w = 1 .. Len(w)
    BY DEF Streams
  <1>2. 1 \in DOMAIN w /\ Cached(w) = w[1] /\ \A i \in DOMAIN w : 1 <= i
    BY <1>1 DEF Cached
  <1>. QED
    BY <1>2, ZenonT(60) DEF Lasting, AllLabelled, Versions

\* Something will bring p back to the worker.
Pending(p) == p \in queue \/ ~CaughtUp(pvc[p])

KeptAt(p) ==
    /\ \A v \in Versions(pvc[p]) : v # Nil /\ v.uid = 1
    /\ Lasting(pvc[p])
    /\ \A v \in Versions(backup[p]) : v # Nil => v.owner = 1 /\ ~v.deleting /\ Cur(p) # Nil
    /\ Cur(p) # Nil => AllLabelled(pvc[p])
    /\ job.p = p =>
           /\ job.pvc.uid = 1 /\ job.pc # "delete"
           /\ job.pvc.label # Nil => AllLabelled(pvc[p])
           /\ Cur(p) # Nil => job.pvc.label # Nil
           /\ job.pc \in Writing => Cur(p) # Nil

KeptInv == Kept => \A p \in PVC : KeptAt(p)

OnTrack(p) ==
    /\ job.pvc = CurPvc(p)
    /\ Told =>
           /\ job.pc = "sync" =>
                  job.obj.auto /\ (HasOwn(p) => Cur(p).auto /\ Cur(p).sched = job.obj.sched)
           /\ job.pc = "create" => ~HasOwn(p)
           /\ job.pc = "markNew" => job.obj.sched = GetScheduleFromPVC(CurPvc(p))

\* With nothing pending for p, the work is done or under way.
AtPeace(p) == ~Pending(p) => IF job.p = p THEN OnTrack(p) ELSE CurPvc(p) # Nil => Follows(p)

RestInv == (\A p \in PVC : Passing(pvc[p])) /\ KeptInv /\ \A p \in PVC : AtPeace(p)

\* What may happen is settled at the start; repositories change only where
\* the behaviour allows it.
LEMMA AllowedStep ==
    ASSUME [Next]_vars
    PROVE  /\ allowed' = allowed
           /\ Told \/ Kept => repos' = repos
  <1> USE DEF budgets, Fault, Edit, Refused, ApiFault
  <1>1. ASSUME Reconcile PROVE allowed' = allowed /\ repos' = repos
    BY <1>1, ZenonT(60) DEF Reconcile, StartReconcile, GetBackup, DeleteBackup, MarkAutoCreated, SyncSchedule,
       CreateBackupForPVC, MarkNewBackup
  <1>2. allowed' = allowed /\ (repos' = repos \/ "createRepo" \in allowed \/ "changeRepo" \in allowed)
    <2>1. CASE Environment
      BY <2>1, ZenonT(60) DEF Environment, Restart, DeliverPvc, OtherChange, DeliverBackup, AddFinalizer, ReportStatus,
         RemoveFinalizer, CollectGarbage, RemoveLabel, DeletePvc, CreatePvc, UserDeletesBackup, SetLabel, SetSchedule,
         UserCreatesBackup, CreateRepository, ChangeRepository, OtherWrite, EditPvc, SetRepository
    <2>. QED
      BY <1>1, <2>1, ZenonT(60) DEF Next, vars
  <1>. QED
    BY <1>2, ZenonT(60) DEF Told, Kept

\* A label or an annotation is an edit that passes the event filter.
LEMMA EditPasses ==
    ASSUME TypeOK, NEW p \in PVC, CurPvc(p) # Nil, NEW r \in Repo \cup {Nil}, NEW s \in Schedule \cup {Nil}, NEW v,
           v \in {[CurPvc(p) EXCEPT !.label = r], [CurPvc(p) EXCEPT !.sched = s]}, v # CurPvc(p)
    PROVE  /\ v \in PvcObj /\ v # Nil /\ v.uid = CurPvc(p).uid /\ v.label \in {r, CurPvc(p).label}
           /\ Passes(CurPvc(p), v)
           /\ v = [CurPvc(p) EXCEPT !.sched = s] => v.label = CurPvc(p).label
  <1> DEFINE c == CurPvc(p)
  <1>1. c \in PvcObj
    BY ReadTypes, ZenonT(60) DEF PvcVersion
  <1> HIDE DEF c
  <1>2. c = [uid |-> c.uid, label |-> c.label, sched |-> c.sched]
    BY <1>1, SMTT(60) DEF PvcObj
  <1>3. CASE v = [c EXCEPT !.label = r]
    <2>1. v = [uid |-> c.uid, label |-> r, sched |-> c.sched] /\ v \in PvcObj /\ v.uid = c.uid /\ v.label = r
      BY <1>1, <1>3, SMTT(60) DEF PvcObj
    <2>2. r # c.label
      BY <1>2, <2>1, ZenonT(60) DEF c
    <2>3. v = [c EXCEPT !.sched = s] => v.label = c.label
      BY <1>1, SMTT(60) DEF PvcObj
    <2>. QED
      BY <2>1, <2>2, <2>3, NilAssumption, ZenonT(60) DEF Passes, c
  <1>4. CASE v = [c EXCEPT !.sched = s]
    <2>1. v = [uid |-> c.uid, label |-> c.label, sched |-> s] /\ v \in PvcObj /\ v.uid = c.uid /\ v.label = c.label
          /\ v.sched = s
      BY <1>1, <1>4, SMTT(60) DEF PvcObj
    <2>2. s # c.sched
      BY <1>2, <2>1, ZenonT(60) DEF c
    <2>. QED
      BY <2>1, <2>2, NilAssumption, ZenonT(60) DEF Passes, c
  <1>. QED
    BY <1>3, <1>4, ZenonT(60) DEF c

\* What a write to a PVC may be.
PvcWrite(p, v) ==
    /\ WritePvc(p, v) /\ Passes(CurPvc(p), v) /\ UNCHANGED <<backup, job>>
    /\ Kept => /\ CurPvc(p) # Nil /\ v # Nil /\ v.uid = CurPvc(p).uid
               /\ CurPvc(p).label # Nil => v.label # Nil

\* Every step leaves the PVCs alone, delivers a version of one, or writes one
\* that passes the filter.
LEMMA PvcSteps ==
    ASSUME TypeOK, [Next]_vars
    PROVE  \/ UNCHANGED pvc
           \/ \E p \in PVC : DeliverPvc(p)
           \/ \E p \in PVC, v \in PvcVersion : PvcWrite(p, v)
  <1> DEFINE Writes == \E p \in PVC, v \in PvcVersion : PvcWrite(p, v)
  <1>1. CASE Reconcile
    BY <1>1, ZenonT(60) DEF Reconcile, StartReconcile, GetBackup, DeleteBackup, MarkAutoCreated, SyncSchedule,
       CreateBackupForPVC, MarkNewBackup
  <1>2. ASSUME NEW p \in PVC, NEW r \in Repo, SetLabel(p, r) PROVE Writes
    <2> DEFINE v == [CurPvc(p) EXCEPT !.label = r]
    <2>1. CurPvc(p) # Nil /\ v # CurPvc(p) /\ WritePvc(p, v) /\ UNCHANGED <<backup, job>>
      BY <1>2, ZenonT(60) DEF SetLabel, EditPvc
    <2>2. r # Nil /\ r \in Repo \cup {Nil} /\ Nil \in Schedule \cup {Nil}
      BY NilAssumption, ZenonT(60)
    <2>3. /\ v \in PvcObj /\ v # Nil /\ v.uid = CurPvc(p).uid /\ v.label \in {r, CurPvc(p).label}
          /\ Passes(CurPvc(p), v)
      BY <2>1, <2>2, EditPasses, ZenonT(60)
    <2> HIDE DEF v
    <2>4. PvcWrite(p, v) /\ v \in PvcVersion
      BY <2>1, <2>2, <2>3, ZenonT(60) DEF PvcWrite, PvcVersion
    <2>. QED
      BY <2>4, ZenonT(60)
  <1>3. ASSUME NEW p \in PVC, NEW s \in Schedule \cup {Nil}, SetSchedule(p, s) PROVE Writes
    <2> DEFINE v == [CurPvc(p) EXCEPT !.sched = s]
    <2>1. CurPvc(p) # Nil /\ v # CurPvc(p) /\ WritePvc(p, v) /\ UNCHANGED <<backup, job>>
      BY <1>3, ZenonT(60) DEF SetSchedule, EditPvc
    <2>2. Nil \in Repo \cup {Nil}
      OBVIOUS
    <2>3. /\ v \in PvcObj /\ v # Nil /\ v.uid = CurPvc(p).uid /\ v.label = CurPvc(p).label
          /\ Passes(CurPvc(p), v)
      BY <2>1, <2>2, EditPasses, ZenonT(60)
    <2> HIDE DEF v
    <2>4. PvcWrite(p, v) /\ v \in PvcVersion
      BY <2>1, <2>3, ZenonT(60) DEF PvcWrite, PvcVersion
    <2>. QED
      BY <2>4, ZenonT(60)
  <1>4. ASSUME NEW p \in PVC, RemoveLabel(p) PROVE Writes
    <2> DEFINE v == [CurPvc(p) EXCEPT !.label = Nil]
    <2>1. CurPvc(p) # Nil /\ v # CurPvc(p) /\ WritePvc(p, v) /\ UNCHANGED <<backup, job>> /\ ~Kept
      BY <1>4, ZenonT(60) DEF RemoveLabel, EditPvc, Edit, Kept
    <2>2. Nil \in Repo \cup {Nil} /\ Nil \in Schedule \cup {Nil}
      OBVIOUS
    <2>3. v \in PvcObj /\ Passes(CurPvc(p), v)
      BY <2>1, <2>2, EditPasses, ZenonT(60)
    <2> HIDE DEF v
    <2>4. PvcWrite(p, v) /\ v \in PvcVersion
      BY <2>1, <2>3, ZenonT(60) DEF PvcWrite, PvcVersion
    <2>. QED
      BY <2>4, ZenonT(60)
  <1>5. ASSUME NEW p \in PVC, DeletePvc(p) PROVE Writes
    <2>1. WritePvc(p, Nil) /\ UNCHANGED <<backup, job>> /\ ~Kept
      BY <1>5, ZenonT(60) DEF DeletePvc, EditPvc, Edit, Kept
    <2>2. PvcWrite(p, Nil) /\ Nil \in PvcVersion
      BY <2>1, ZenonT(60) DEF PvcWrite, PvcVersion, Passes
    <2>. QED
      BY <2>2, ZenonT(60)
  <1>6. ASSUME NEW p \in PVC, CreatePvc(p) PROVE Writes
    <2>1. uids + 1 \in Uid
      <3>1. uids \in Uid /\ MaxUid \in Nat
        BY ConstantsAssumption, ZenonT(60) DEF TypeOK
      <3>2. uids < MaxUid
        BY <1>6, ZenonT(60) DEF CreatePvc
      <3>. QED
        BY <3>1, <3>2, SMTT(60) DEF Uid
    <2>2. NewPvc(uids + 1) \in PvcVersion
      BY <2>1, SMTT(60) DEF NewPvc, PvcObj, PvcVersion
    <2>3. CurPvc(p) = Nil /\ WritePvc(p, NewPvc(uids + 1)) /\ UNCHANGED <<backup, job>> /\ ~Kept
      BY <1>6, ZenonT(60) DEF CreatePvc, Edit, Kept
    <2>4. PvcWrite(p, NewPvc(uids + 1))
      BY <2>3, ZenonT(60) DEF PvcWrite, Passes
    <2>. QED
      BY <2>2, <2>4, ZenonT(60)
  <1> HIDE DEF Writes
  <1>7. CASE Environment
    BY <1>2, <1>3, <1>4, <1>5, <1>6, <1>7, ZenonT(60) DEF Environment, Restart, OtherChange, DeliverBackup, AddFinalizer,
       ReportStatus, RemoveFinalizer, CollectGarbage, UserDeletesBackup, UserCreatesBackup, CreateRepository,
       ChangeRepository, OtherWrite, SetRepository, Writes
  <1>. QED
    BY <1>1, <1>7, ZenonT(60) DEF Next, vars

\* A KopiaBackup in which only what the watcher does not care for changed.
Same(c, v) ==
    /\ c # Nil /\ v # Nil
    /\ v.owner = c.owner /\ v.deleting = c.deleting /\ v.auto = c.auto /\ v.sched = c.sched

\* No KopiaBackup, one that goes, or one made by hand.
NotOwn(v) == v = Nil \/ v.deleting \/ v.owner = Nil

\* What the KopiaBackup controller, the collector and people may write.
ByOthers(p, v) ==
    /\ OtherWrite(p, v)
    /\ \/ Same(Cur(p), v)
       \/ NotOwn(v) /\ (Kept => Cur(p) # Nil /\ (Cur(p).deleting \/ ~Controls(p)))

\* Every step of someone else leaves the KopiaBackups alone, delivers a
\* version of one, or is such a write.
LEMMA OtherSteps ==
    ASSUME TypeOK, [Next]_vars, ~Reconcile
    PROVE  \/ UNCHANGED backup
           \/ \E p \in PVC : DeliverBackup(p)
           \/ \E p \in PVC, v \in BackupVersion : ByOthers(p, v)
  <1> DEFINE Writes == \E p \in PVC, v \in BackupVersion : ByOthers(p, v)
  <1>1. ASSUME NEW p \in PVC, Cur(p) # Nil
        PROVE  /\ Cur(p) \in BackupObj
               /\ [Cur(p) EXCEPT !.fin = TRUE] \in BackupObj /\ Same(Cur(p), [Cur(p) EXCEPT !.fin = TRUE])
               /\ [Cur(p) EXCEPT !.reported = TRUE] \in BackupObj /\ Same(Cur(p), [Cur(p) EXCEPT !.reported = TRUE])
               /\ Deleted(Cur(p)) \in BackupVersion /\ NotOwn(Deleted(Cur(p)))
    <2> DEFINE c == Cur(p)
    <2>1. c \in BackupObj
      BY <1>1, ReadTypes, ZenonT(60) DEF BackupVersion
    <2> HIDE DEF c
    <2>2. /\ [c EXCEPT !.fin = TRUE] \in BackupObj /\ [c EXCEPT !.reported = TRUE] \in BackupObj
          /\ Deleted(c) \in BackupVersion
      BY <2>1, DeletedTypes, ZenonT(60) DEF BackupObj
    <2>3. NotOwn(Deleted(c))
      BY <2>1, DeletedTypes, ZenonT(60) DEF NotOwn
    <2>4. /\ [c EXCEPT !.fin = TRUE] # Nil /\ [c EXCEPT !.reported = TRUE] # Nil /\ c # Nil
      BY <2>1, <2>2, NilAssumption, ZenonT(60)
    <2>5. Same(c, [c EXCEPT !.fin = TRUE]) /\ Same(c, [c EXCEPT !.reported = TRUE])
      BY <2>1, <2>4, ZenonT(60) DEF Same, BackupObj
    <2>. QED
      BY <2>1, <2>2, <2>3, <2>5, ZenonT(60) DEF c
  <1>2. ASSUME NEW p \in PVC, AddFinalizer(p) \/ ReportStatus(p) PROVE Writes
    <2>1. Cur(p) # Nil /\ (\/ OtherWrite(p, [Cur(p) EXCEPT !.fin = TRUE])
                           \/ OtherWrite(p, [Cur(p) EXCEPT !.reported = TRUE]))
      BY <1>2, ZenonT(60) DEF AddFinalizer, ReportStatus
    <2>. QED
      BY <1>1, <2>1, ZenonT(60) DEF ByOthers, BackupVersion
  <1>3. ASSUME NEW p \in PVC, RemoveFinalizer(p) PROVE Writes
    <2>1. Cur(p) # Nil /\ Cur(p).deleting /\ OtherWrite(p, Nil)
      BY <1>3, ZenonT(60) DEF RemoveFinalizer
    <2>. QED
      BY <2>1, ZenonT(60) DEF ByOthers, NotOwn, BackupVersion
  <1>4. ASSUME NEW p \in PVC, CollectGarbage(p) PROVE Writes
    <2>1. Cur(p) # Nil /\ ~Controls(p) /\ OtherWrite(p, Deleted(Cur(p)))
      BY <1>4, ZenonT(60) DEF CollectGarbage
    <2>. QED
      BY <1>1, <2>1, ZenonT(60) DEF ByOthers
  <1>5. ASSUME NEW p \in PVC, UserDeletesBackup(p) PROVE Writes
    <2>1. Cur(p) # Nil /\ ~Kept /\ OtherWrite(p, Deleted(Cur(p)))
      BY <1>5, ZenonT(60) DEF UserDeletesBackup, Edit, Kept
    <2>. QED
      BY <1>1, <2>1, ZenonT(60) DEF ByOthers
  <1>6. ASSUME NEW p \in PVC, NEW s \in Schedule, UserCreatesBackup(p, s) PROVE Writes
    <2> DEFINE v == [owner |-> Nil, auto |-> FALSE, sched |-> s, fin |-> FALSE,
                     deleting |-> FALSE, reported |-> FALSE]
    <2>1. ~Kept /\ OtherWrite(p, v)
      BY <1>6, ZenonT(60) DEF UserCreatesBackup, Edit, Kept
    <2>2. v \in BackupObj /\ v.owner = Nil
      BY SMTT(60) DEF BackupObj
    <2> HIDE DEF v
    <2>. QED
      BY <2>1, <2>2, ZenonT(60) DEF ByOthers, NotOwn, BackupVersion
  <1> HIDE DEF Writes
  <1>7. CASE Environment
    BY <1>2, <1>3, <1>4, <1>5, <1>6, <1>7, ZenonT(60) DEF Environment, Restart, DeliverPvc, OtherChange,
       RemoveLabel, DeletePvc, CreatePvc, SetLabel, SetSchedule, CreateRepository, ChangeRepository, EditPvc,
       SetRepository, Writes
  <1>. QED
    BY <1>7, ZenonT(60) DEF Next, vars

\* The reconcile writes no KopiaBackup but that of its PVC, and stays with the
\* PVC until it ends.
LEMMA OwnSteps ==
    ASSUME Reconcile, ~(\E x \in PVC : StartReconcile(x))
    PROVE  /\ UNCHANGED backup \/ \E v : backup' = [backup EXCEPT ![job.p] = Put(@, v)]
           /\ job' = IdleJob \/ (job \in Job => job'.p = job.p)
           /\ UNCHANGED <<pvc, repos>> /\ queue \subseteq queue'
           /\ job.pc # "idle"
  <1> USE DEF Done, Retry, Refused, ApiFault, WriteBackup
  <1>1. UNCHANGED backup \/ \E v : backup' = [backup EXCEPT ![job.p] = Put(@, v)]
    BY ZenonT(60) DEF Reconcile, GetBackup, DeleteBackup, MarkAutoCreated, SyncSchedule, CreateBackupForPVC,
       MarkNewBackup
  <1>2. job' = IdleJob \/ (job \in Job => job'.p = job.p)
    BY ZenonT(60) DEF Reconcile, GetBackup, DeleteBackup, MarkAutoCreated, SyncSchedule, CreateBackupForPVC,
       MarkNewBackup, Job
  <1>3. UNCHANGED <<pvc, repos>> /\ queue \subseteq queue'
    BY ZenonT(60) DEF Reconcile, GetBackup, DeleteBackup, MarkAutoCreated, SyncSchedule, CreateBackupForPVC,
       MarkNewBackup
  <1>4. job.pc \in {"get", "delete", "markAuto", "sync", "create", "markNew"}
    BY ZenonT(60) DEF Reconcile, GetBackup, DeleteBackup, MarkAutoCreated, SyncSchedule, CreateBackupForPVC,
       MarkNewBackup
  <1>5. job.pc # "idle"
    BY <1>4
  <1>. QED
    BY <1>1, <1>2, <1>3, <1>5, ZenonT(60)

\* Steps other than the work on p itself: its reconcile stays where it is or
\* is lost in a restart, and its KopiaBackup changes as others change it.
LEMMA OutsideStep ==
    ASSUME TypeOK, NEW p \in PVC, [Next]_vars, ~StartReconcile(p), ~(job.p = p /\ Reconcile)
    PROVE  /\ job'.p = p => job.p = p /\ job'.pc = job.pc /\ job'.pvc = job.pvc /\ job'.obj = job.obj
           /\ Restart \/ ((job.p = p => job'.p = p) /\ (p \in queue => p \in queue'))
           /\ \/ Versions(backup'[p]) \subseteq Versions(backup[p]) /\ Cur(p)' = Cur(p)
              \/ \E v \in BackupVersion : ByOthers(p, v)
  <1>1. backup \in [PVC -> Streams(BackupVersion)] /\ job \in Job \cup {IdleJob} /\ IdleJob.p = Nil
    BY ZenonT(60) DEF TypeOK, BackupVersion, IdleJob
  <1>2. Nil # p
    BY NilAssumption, ZenonT(60)
  <1> DEFINE Quiet1 == Versions(backup'[p]) \subseteq Versions(backup[p]) /\ Cur(p)' = Cur(p)
             Stays == /\ job'.p = p => job.p = p /\ job'.pc = job.pc /\ job'.pvc = job.pvc /\ job'.obj = job.obj
                      /\ Restart \/ ((job.p = p => job'.p = p) /\ (p \in queue => p \in queue'))
  <1>3. backup'[p] = backup[p] => Quiet1
    BY ZenonT(60) DEF Cur
  <1>4. ASSUME NEW x \in PVC, StartReconcile(x) PROVE Stays /\ Quiet1
    <2>1. x # p /\ backup' = backup /\ job = IdleJob /\ queue' = queue \ {x}
      BY <1>4, ZenonT(60) DEF StartReconcile
    <2>2. job' = IdleJob \/ job'.p = x
      BY <1>4, ZenonT(60) DEF StartReconcile, IdleJob
    <2>. QED
      BY <1>1, <1>2, <1>3, <2>1, <2>2, ZenonT(60)
  <1>5. ASSUME Reconcile, ~(\E x \in PVC : StartReconcile(x)) PROVE Stays /\ Quiet1
    <2>1. job.p # p /\ job \in Job /\ job.p \in PVC
      BY <1>5, OwnSteps, JobTypes, ZenonT(60)
    <2>2. backup'[p] = backup[p]
      BY <1>1, <1>5, <2>1, OwnSteps, ZenonT(60)
    <2>3. job'.p # p /\ queue \subseteq queue'
      BY <1>1, <1>2, <1>5, <2>1, OwnSteps, ZenonT(60)
    <2>. QED
      BY <1>3, <2>1, <2>2, <2>3, ZenonT(60)
  <1>6. ASSUME ~Reconcile PROVE Stays
    <2>1. CASE Restart
      BY <1>1, <1>2, <2>1, ZenonT(60) DEF Restart
    <2>2. CASE ~Restart
      <3>1. UNCHANGED job \/ \E x \in PVC : Invalidate(x)
        BY <1>6, <2>2, ZenonT(60) DEF Next, vars, Environment, DeliverPvc, OtherChange, DeliverBackup, AddFinalizer,
           ReportStatus, RemoveFinalizer, CollectGarbage, RemoveLabel, DeletePvc, CreatePvc, UserDeletesBackup, SetLabel,
           SetSchedule, UserCreatesBackup, CreateRepository, ChangeRepository, OtherWrite, EditPvc, SetRepository
      <3>2. queue \subseteq queue'
        BY <1>6, <2>2, ZenonT(60) DEF Next, vars, Environment, DeliverPvc, OtherChange, DeliverBackup, AddFinalizer,
           ReportStatus, RemoveFinalizer, CollectGarbage, RemoveLabel, DeletePvc, CreatePvc, UserDeletesBackup, SetLabel,
           SetSchedule, UserCreatesBackup, CreateRepository, ChangeRepository, OtherWrite, EditPvc, SetRepository
      <3>3. job'.p = job.p /\ job'.pc = job.pc /\ job'.pvc = job.pvc /\ job'.obj = job.obj
        <4>1. ASSUME NEW x \in PVC, Invalidate(x)
              PROVE  job'.p = job.p /\ job'.pc = job.pc /\ job'.pvc = job.pvc /\ job'.obj = job.obj
          <5>1. CASE job \in Job
            BY <4>1, <5>1, ZenonT(60) DEF Invalidate, Job
          <5>2. CASE job = IdleJob
            BY <4>1, <5>2, ZenonT(60) DEF Invalidate, IdleJob
          <5>. QED
            BY <1>1, <5>1, <5>2, ZenonT(60)
        <4>. QED
          BY <3>1, <4>1, ZenonT(60)
      <3>. QED
        BY <3>2, <3>3, ZenonT(60)
    <2>. QED
      BY <2>1, <2>2, ZenonT(60)
  <1>7. ASSUME ~Reconcile PROVE Quiet1 \/ \E v \in BackupVersion : ByOthers(p, v)
    <2>1. ASSUME NEW x \in PVC, DeliverBackup(x) PROVE Quiet1
      <3>1. CASE x # p
        <4>1. backup'[p] = backup[p]
          BY <1>1, <2>1, <3>1, ZenonT(60) DEF DeliverBackup
        <4>. QED
          BY <1>3, <4>1, ZenonT(60)
      <3>2. CASE x = p
        <4>1. backup'[p] = Deliver(backup[p]) /\ ~CaughtUp(backup[p]) /\ backup[p] \in Streams(BackupVersion)
          BY <1>1, <2>1, <3>2, ZenonT(60) DEF DeliverBackup
        <4>. QED
          BY <4>1, StreamDeliver, ZenonT(60) DEF Cur
      <3>. QED
        BY <3>1, <3>2, ZenonT(60)
    <2>2. ASSUME NEW x \in PVC, NEW v \in BackupVersion, ByOthers(x, v), x # p PROVE Quiet1
      <3>1. backup'[p] = backup[p]
        BY <1>1, <2>2, ZenonT(60) DEF ByOthers, OtherWrite, WriteBackup
      <3>. QED
        BY <1>3, <3>1, ZenonT(60)
    <2> HIDE DEF Quiet1
    <2>. QED
      BY <1>3, <1>7, <2>1, <2>2, OtherSteps, ZenonT(60)
  <1> HIDE DEF Quiet1, Stays
  <1>8. Stays /\ (Quiet1 \/ \E v \in BackupVersion : ByOthers(p, v))
    BY <1>4, <1>5, <1>6, <1>7, ZenonT(60)
  <1>. QED
    BY <1>8, ZenonT(60) DEF Quiet1, Stays

-----------------------------------------------------------------------------
\* What others do keeps KeptAt.
LEMMA KeptOutside ==
    ASSUME TypeOK, Kept, NEW p \in PVC, KeptAt(p), [Next]_vars, pvc'[p] = pvc[p],
           ~StartReconcile(p), ~(job.p = p /\ Reconcile)
    PROVE  KeptAt(p)'
  <1>1. Cur(p) \in Versions(backup[p]) /\ CurPvc(p) \in Versions(pvc[p])
    <2>1. pvc[p] \in Streams(PvcVersion)
      BY ZenonT(60) DEF TypeOK, PvcVersion
    <2>. QED
      BY <2>1, ReadTypes, StreamEnds, ZenonT(60) DEF CurPvc
  <1>2. /\ \A v \in Versions(backup'[p]) : v # Nil => v.owner = 1 /\ ~v.deleting /\ Cur(p)' # Nil
        /\ Cur(p) # Nil <=> Cur(p)' # Nil
    <2>1. CASE Versions(backup'[p]) \subseteq Versions(backup[p]) /\ Cur(p)' = Cur(p)
      BY <2>1, ZenonT(60) DEF KeptAt
    <2>2. ASSUME NEW v \in BackupVersion, ByOthers(p, v)
          PROVE  /\ \A w \in Versions(backup'[p]) : w # Nil => w.owner = 1 /\ ~w.deleting /\ Cur(p)' # Nil
                 /\ Cur(p) # Nil <=> Cur(p)' # Nil
      <3>1. Cur(p)' = v /\ Versions(backup'[p]) \subseteq Versions(backup[p]) \cup {v}
        BY <2>2, WriteBackupStep, ZenonT(60) DEF ByOthers, OtherWrite, Cur
      <3>2. Cur(p) # Nil => ~Cur(p).deleting /\ Controls(p)
        BY <1>1, ZenonT(60) DEF KeptAt, Controls
      <3>3. Same(Cur(p), v)
        BY <2>2, <3>2, ZenonT(60) DEF ByOthers
      <3>. QED
        BY <1>1, <3>1, <3>3, ZenonT(60) DEF KeptAt, Same
    <2>. QED
      BY <2>1, <2>2, OutsideStep, ZenonT(60)
  <1>3. job'.p = p => job.p = p /\ job'.pc = job.pc /\ job'.pvc = job.pvc /\ job'.obj = job.obj
    BY OutsideStep, ZenonT(60)
  <1>4. Lasting(pvc'[p]) /\ Versions(pvc'[p]) = Versions(pvc[p]) /\ (AllLabelled(pvc'[p]) <=> AllLabelled(pvc[p]))
    BY ZenonT(60) DEF KeptAt
  <1>. QED
    BY <1>2, <1>3, <1>4, ZenonT(60) DEF KeptAt

\* So do the changes of PVCs that are left, and their delivery.
LEMMA KeptPvc ==
    ASSUME TypeOK, Kept, NEW p \in PVC, KeptAt(p), UNCHANGED <<backup, job>>,
           DeliverPvc(p) \/ \E v \in PvcVersion : PvcWrite(p, v)
    PROVE  KeptAt(p)'
  <1>1. pvc \in [PVC -> Streams(PvcVersion)] /\ pvc[p] \in Streams(PvcVersion)
    BY ZenonT(60) DEF TypeOK, PvcVersion
  <1>2. CurPvc(p) \in Versions(pvc[p])
    BY <1>1, StreamEnds, ZenonT(60) DEF CurPvc
  <1>3. /\ \A v \in Versions(pvc'[p]) : v # Nil /\ v.uid = 1
        /\ Lasting(pvc'[p])
        /\ AllLabelled(pvc[p]) => AllLabelled(pvc'[p])
    <2>1. CASE DeliverPvc(p)
      <3>1. pvc'[p] = Deliver(pvc[p]) /\ ~CaughtUp(pvc[p])
        BY <1>1, <2>1, ZenonT(60) DEF DeliverPvc
      <3>2. Versions(pvc'[p]) \subseteq Versions(pvc[p])
        BY <1>1, <3>1, StreamDeliver, ZenonT(60)
      <3>3. Lasting(pvc'[p])
        BY <1>1, <3>1, LastingDeliver, ZenonT(60) DEF KeptAt
      <3>. QED
        BY <3>2, <3>3, ZenonT(60) DEF KeptAt, AllLabelled
    <2>2. ASSUME NEW v \in PvcVersion, PvcWrite(p, v)
          PROVE  /\ \A w \in Versions(pvc'[p]) : w # Nil /\ w.uid = 1
                 /\ Lasting(pvc'[p])
                 /\ AllLabelled(pvc[p]) => AllLabelled(pvc'[p])
      <3>1. pvc'[p] = Put(pvc[p], v)
        BY <1>1, <2>2, ZenonT(60) DEF PvcWrite, WritePvc
      <3>2. Versions(pvc'[p]) \subseteq Versions(pvc[p]) \cup {v}
        BY <1>1, <3>1, StreamPut, ZenonT(60)
      <3>3. v # Nil /\ v.uid = 1 /\ (CurPvc(p).label # Nil => v.label # Nil)
        BY <1>2, <2>2, ZenonT(60) DEF PvcWrite, KeptAt
      <3>4. Lasting(pvc'[p])
        BY <1>1, <3>1, <3>3, LastingPut, ZenonT(60) DEF KeptAt, CurPvc
      <3>. QED
        BY <1>2, <3>2, <3>3, <3>4, ZenonT(60) DEF KeptAt, AllLabelled
    <2>. QED
      BY <2>1, <2>2, ZenonT(60)
  <1>4. Cur(p)' = Cur(p)
    BY ZenonT(60) DEF Cur
  <1>. QED
    BY <1>3, <1>4, ZenonT(60) DEF KeptAt

\* A reconcile starts from a version of the PVC.
LEMMA KeptStart ==
    ASSUME TypeOK, Kept, NEW p \in PVC, KeptAt(p), StartReconcile(p)
    PROVE  KeptAt(p)'
  <1> DEFINE o == Cached(pvc[p])
  <1>1. pvc[p] \in Streams(PvcVersion) /\ o \in Versions(pvc[p])
    <2>1. pvc[p] \in Streams(PvcVersion)
      BY ZenonT(60) DEF TypeOK, PvcVersion
    <2>. QED
      BY <2>1, StreamEnds, ZenonT(60)
  <1>2. o # Nil /\ o.uid = 1 /\ (o.label # Nil => AllLabelled(pvc[p]))
    BY <1>1, LastingRead, ZenonT(60) DEF KeptAt
  <1>3. UNCHANGED <<pvc, backup>> /\ job' = [IdleJob EXCEPT !.pc = "get", !.p = p, !.pvc = o]
    BY <1>2, ZenonT(60) DEF StartReconcile
  <1>4. Cur(p) # Nil => o.label # Nil
    BY <1>1, ZenonT(60) DEF KeptAt, AllLabelled
  <1> HIDE DEF o
  <1>5. job'.pc = "get" /\ job'.p = p /\ job'.pvc = o
    BY <1>3, ZenonT(60) DEF IdleJob
  <1>6. job'.pc # "delete" /\ job'.pc \notin Writing
    BY <1>5 DEF Writing
  <1>7. Cur(p)' = Cur(p)
    BY <1>3, ZenonT(60) DEF Cur
  <1>. QED
    BY <1>2, <1>3, <1>4, <1>5, <1>6, <1>7, ZenonT(60) DEF KeptAt

\* The reconcile ends, or goes on with a KopiaBackup that is there.
LEMMA KeptGoesOn ==
    ASSUME TypeOK, Kept, NEW p \in PVC, KeptAt(p), job.p = p, UNCHANGED pvc,
           \/ UNCHANGED backup
           \/ \E v \in BackupObj : /\ WriteBackup(p, v) /\ v.owner = 1 /\ ~v.deleting
                                   /\ job.pvc.label # Nil,
           \/ job' = IdleJob
           \/ /\ job'.p = p /\ job'.pvc = job.pvc /\ job'.pc # "delete"
              /\ job'.pc \in Writing => Cur(p)' # Nil
    PROVE  KeptAt(p)'
  <1>1. Cur(p) # Nil => job.pvc.label # Nil
    BY ZenonT(60) DEF KeptAt
  <1>2. /\ \A v \in Versions(backup'[p]) : v # Nil => v.owner = 1 /\ ~v.deleting /\ Cur(p)' # Nil
        /\ Cur(p)' # Nil => job.pvc.label # Nil
    <2>1. CASE UNCHANGED backup
      BY <1>1, <2>1, ZenonT(60) DEF KeptAt, Cur
    <2>2. ASSUME NEW v \in BackupObj, WriteBackup(p, v), v.owner = 1, ~v.deleting, job.pvc.label # Nil
          PROVE  /\ \A w \in Versions(backup'[p]) : w # Nil => w.owner = 1 /\ ~w.deleting /\ Cur(p)' # Nil
                 /\ Cur(p)' # Nil => job.pvc.label # Nil
      <3>1. v \in BackupVersion /\ v # Nil
        BY NilAssumption, ZenonT(60) DEF BackupVersion
      <3>2. Cur(p)' = v /\ Versions(backup'[p]) \subseteq Versions(backup[p]) \cup {v}
        BY <2>2, <3>1, WriteBackupStep, ZenonT(60) DEF Cur
      <3>. QED
        BY <2>2, <3>1, <3>2, ZenonT(60) DEF KeptAt
    <2>. QED
      BY <2>1, <2>2, ZenonT(60)
  <1>3. job.pvc.uid = 1 /\ (job.pvc.label # Nil => AllLabelled(pvc[p]))
    BY ZenonT(60) DEF KeptAt
  <1>4. job' = IdleJob => job'.p # p
    <2>1. IdleJob.p = Nil /\ Nil # p
      BY NilAssumption, ZenonT(60) DEF IdleJob
    <2>. QED
      BY <2>1, ZenonT(60)
  <1>5. Lasting(pvc'[p]) /\ (\A v \in Versions(pvc'[p]) : v # Nil /\ v.uid = 1)
    BY ZenonT(60) DEF KeptAt
  <1>. QED
    BY <1>2, <1>3, <1>4, <1>5, ZenonT(60) DEF KeptAt

\* The reconcile of p keeps KeptAt: it never deletes, and what it writes is of
\* the PVC's own.
LEMMA KeptOwn ==
    ASSUME WatcherInv, Kept, NEW p \in PVC, KeptAt(p), job.p = p, Reconcile,
           ~(\E x \in PVC : StartReconcile(x))
    PROVE  KeptAt(p)'
  <1> USE DEF Done, Retry
  <1>1. TypeOK /\ job.pc # "idle" /\ job \in Job /\ UNCHANGED pvc /\ job.pvc \in PvcObj
    BY OwnSteps, JobTypes, ZenonT(60) DEF WatcherInv
  <1>2. ASSUME UNCHANGED backup, job' = IdleJob PROVE KeptAt(p)'
    BY <1>1, <1>2, KeptGoesOn, ZenonT(60)
  <1>3. ApiFault => UNCHANGED backup /\ job' = IdleJob
    BY ZenonT(60) DEF ApiFault
  <1>4. Cur(p) \in Versions(backup[p]) /\ (Cur(p) # Nil => Cur(p).owner = 1 /\ ~Cur(p).deleting)
    BY <1>1, ReadTypes, ZenonT(60) DEF KeptAt
  <1>5. job.pc \in Writing => /\ Cur(p) # Nil /\ job.pvc.label # Nil /\ job.obj \in BackupObj
                              /\ job.fresh => job.obj.owner = 1 /\ ~job.obj.deleting
    <2> SUFFICES ASSUME job.pc \in Writing
                 PROVE  /\ Cur(p) # Nil /\ job.pvc.label # Nil /\ job.obj \in BackupObj
                        /\ job.fresh => job.obj.owner = 1 /\ ~job.obj.deleting
      BY ZenonT(60)
    <2>1. job.obj \in BackupObj
      BY <1>1, SMTT(60) DEF TypeOK, Writing
    <2>2. job.fresh => Cur(p) = job.obj
      BY <1>1, ZenonT(60) DEF WatcherInv, JobInv
    <2>. QED
      BY <1>4, <2>1, <2>2, ZenonT(60) DEF KeptAt
  <1>6. ASSUME NEW v \in BackupObj, WriteBackup(p, v), v.owner = 1, ~v.deleting, job.pvc.label # Nil,
               job' = IdleJob \/ (job'.p = p /\ job'.pvc = job.pvc /\ job'.pc # "delete")
        PROVE  KeptAt(p)'
    <2>1. v \in BackupVersion /\ v # Nil
      BY NilAssumption, ZenonT(60) DEF BackupVersion
    <2>2. Cur(p)' # Nil
      BY <1>1, <1>6, <2>1, WriteBackupStep, ZenonT(60) DEF Cur
    <2>. QED
      BY <1>1, <1>6, <2>2, KeptGoesOn, ZenonT(60)
  <1>7. CASE GetBackup
    <2> DEFINE b == Cached(backup[p])
               phase == NextPhase(job.pvc, b)
    <2>1. b \in Versions(backup[p]) /\ UNCHANGED backup
      BY <1>1, <1>7, ReadTypes, ZenonT(60) DEF GetBackup
    <2>2. b # Nil => Cur(p) # Nil /\ job.pvc.label # Nil
      BY <2>1, ZenonT(60) DEF KeptAt
    <2>3. job' = IF phase = "idle" THEN IdleJob
                 ELSE [job EXCEPT !.pc = phase, !.obj = b, !.fresh = CaughtUp(backup[p])]
      BY <1>7, ZenonT(60) DEF GetBackup
    <2> HIDE DEF b
    <2>4. phase \in {"idle", "create", "sync", "markAuto"} /\ (b = Nil => phase \in {"idle", "create"})
      BY <2>2, ZenonT(60) DEF NextPhase
    <2>5. phase # "delete" /\ (phase \in Writing => b # Nil)
      BY <2>4 DEF Writing
    <2> HIDE DEF phase
    <2>6. phase # "idle" => job'.p = p /\ job'.pvc = job.pvc /\ job'.pc = phase
      BY <1>1, <2>3, ZenonT(60) DEF Job
    <2>7. Cur(p)' = Cur(p)
      BY <2>1, ZenonT(60) DEF Cur
    <2>. QED
      BY <1>1, <2>1, <2>2, <2>3, <2>5, <2>6, <2>7, KeptGoesOn, ZenonT(60)
  <1>8. CASE DeleteBackup
    BY <1>8, ZenonT(60) DEF DeleteBackup, KeptAt
  <1>9. CASE MarkAutoCreated
    <2> DEFINE o == [job.obj EXCEPT !.auto = TRUE]
    <2>1. \/ UNCHANGED backup /\ job' = IdleJob
          \/ job.fresh /\ WriteBackup(p, o) /\ job' = [job EXCEPT !.pc = "sync", !.obj = o]
      BY <1>3, <1>9, ZenonT(60) DEF MarkAutoCreated
    <2>2. job.pc \in Writing
      BY <1>9, SMTT(60) DEF MarkAutoCreated, Writing
    <2>3. o \in BackupObj /\ o.owner = job.obj.owner /\ o.deleting = job.obj.deleting
      BY <1>5, <2>2, ZenonT(60) DEF BackupObj
    <2> HIDE DEF o
    <2>4. ASSUME job' = [job EXCEPT !.pc = "sync", !.obj = o]
          PROVE  job'.p = p /\ job'.pvc = job.pvc /\ job'.pc # "delete"
      <3>1. job'.p = p /\ job'.pvc = job.pvc /\ job'.pc = "sync"
        BY <1>1, <2>4, ZenonT(60) DEF Job
      <3>. QED
        BY <3>1
    <2>. QED
      BY <1>2, <1>5, <1>6, <2>1, <2>2, <2>3, <2>4, ZenonT(60)
  <1>10. CASE SyncSchedule
    <2> DEFINE o == [job.obj EXCEPT !.sched = GetScheduleFromPVC(job.pvc)]
    <2>1. \/ UNCHANGED backup /\ job' = IdleJob
          \/ job.fresh /\ WriteBackup(p, o) /\ job' = IdleJob /\ GetKopiaRepository(job.pvc.label) # Nil
      BY <1>3, <1>10, ZenonT(60) DEF SyncSchedule, Refused
    <2>2. job.pc \in Writing /\ job.pc \in Labelled
      BY <1>10, SMTT(60) DEF SyncSchedule, Writing, Labelled
    <2>3. GetKopiaRepository(job.pvc.label) # Nil => GetScheduleFromPVC(job.pvc) \in Schedule
      BY <1>1, <2>2, ScheduleTypes, ZenonT(60) DEF WatcherInv, JobInv
    <2>4. GetKopiaRepository(job.pvc.label) # Nil =>
              o \in BackupObj /\ o.owner = job.obj.owner /\ o.deleting = job.obj.deleting
      BY <1>5, <2>2, <2>3, ZenonT(60) DEF BackupObj
    <2> HIDE DEF o
    <2>. QED
      BY <1>2, <1>5, <1>6, <2>1, <2>2, <2>4, ZenonT(60)
  <1>11. CASE CreateBackupForPVC
    <2> DEFINE o == [owner |-> job.pvc.uid, auto |-> FALSE, sched |-> GetScheduleFromPVC(job.pvc),
                     fin |-> FALSE, deleting |-> FALSE, reported |-> FALSE]
    <2>1. \/ UNCHANGED backup /\ job' = IdleJob
          \/ /\ WriteBackup(p, o) /\ job' = [job EXCEPT !.pc = "markNew", !.obj = o, !.fresh = TRUE]
             /\ GetKopiaRepository(job.pvc.label) # Nil
      BY <1>3, <1>11, ZenonT(60) DEF CreateBackupForPVC
    <2>2. job.pc \in Labelled
      BY <1>11, SMTT(60) DEF CreateBackupForPVC, Labelled
    <2>3. job.pvc.label \in Repo /\ job.pvc.label # Nil /\ job.pvc.uid = 1 /\ job.pvc.uid \in Uid
      BY <1>1, <2>2, NilAssumption, ZenonT(60) DEF WatcherInv, JobInv, KeptAt, PvcObj
    <2>4. GetKopiaRepository(job.pvc.label) # Nil => GetScheduleFromPVC(job.pvc) \in Schedule
      BY <1>1, <2>3, ScheduleTypes, ZenonT(60)
    <2>5. GetKopiaRepository(job.pvc.label) # Nil => o \in BackupObj /\ o.owner = 1 /\ ~o.deleting
      BY <2>3, <2>4, ZenonT(60) DEF BackupObj
    <2> HIDE DEF o
    <2>6. ASSUME job' = [job EXCEPT !.pc = "markNew", !.obj = o, !.fresh = TRUE]
          PROVE  job'.p = p /\ job'.pvc = job.pvc /\ job'.pc # "delete"
      <3>1. job'.p = p /\ job'.pvc = job.pvc /\ job'.pc = "markNew"
        BY <1>1, <2>6, ZenonT(60) DEF Job
      <3>. QED
        BY <3>1
    <2>. QED
      BY <1>2, <1>6, <2>1, <2>3, <2>5, <2>6, ZenonT(60)
  <1>12. CASE MarkNewBackup
    <2> DEFINE o == [job.obj EXCEPT !.auto = TRUE]
    <2>1. \/ UNCHANGED backup /\ job' = IdleJob
          \/ job.fresh /\ WriteBackup(p, o) /\ job' = IdleJob
      BY <1>3, <1>12, ZenonT(60) DEF MarkNewBackup
    <2>2. job.pc \in Writing
      BY <1>12, SMTT(60) DEF MarkNewBackup, Writing
    <2>3. o \in BackupObj /\ o.owner = job.obj.owner /\ o.deleting = job.obj.deleting
      BY <1>5, <2>2, ZenonT(60) DEF BackupObj
    <2> HIDE DEF o
    <2>. QED
      BY <1>2, <1>5, <1>6, <2>1, <2>2, <2>3, ZenonT(60)
  <1>. QED
    BY <1>7, <1>8, <1>9, <1>10, <1>11, <1>12, ZenonT(60) DEF Reconcile

\* KeptInv is inductive.
LEMMA KeptStep ==
    ASSUME WatcherInv, KeptInv, [Next]_vars
    PROVE  KeptInv'
  <1>1. TypeOK /\ (Kept <=> Kept')
    BY AllowedStep, ZenonT(60) DEF WatcherInv, Kept
  <1>2. SUFFICES ASSUME Kept, NEW p \in PVC PROVE KeptAt(p)'
    BY <1>1, ZenonT(60) DEF KeptInv
  <1>3. KeptAt(p) /\ pvc \in [PVC -> Streams(PvcVersion)]
    BY <1>1, <1>2, ZenonT(60) DEF KeptInv, TypeOK, PvcVersion
  <1>4. CASE StartReconcile(p)
    BY <1>1, <1>2, <1>3, <1>4, KeptStart, ZenonT(60)
  <1>5. CASE job.p = p /\ Reconcile /\ ~StartReconcile(p)
    <2>1. ~(\E x \in PVC : StartReconcile(x))
      <3>1. job # IdleJob
        BY <1>2, <1>5, NilAssumption, SMTT(60) DEF IdleJob
      <3>. QED
        BY <3>1, ZenonT(60) DEF StartReconcile
    <2>. QED
      BY <1>2, <1>3, <1>5, <2>1, KeptOwn, ZenonT(60)
  <1>6. CASE ~StartReconcile(p) /\ ~(job.p = p /\ Reconcile)
    <2>1. CASE pvc'[p] = pvc[p]
      BY <1>1, <1>2, <1>3, <1>6, <2>1, KeptOutside, ZenonT(60)
    <2>2. CASE pvc'[p] # pvc[p]
      <3>1. ASSUME NEW x \in PVC, DeliverPvc(x) PROVE x = p /\ UNCHANGED <<backup, job>>
        BY <1>3, <2>2, <3>1, ZenonT(60) DEF DeliverPvc
      <3>2. ASSUME NEW x \in PVC, NEW v \in PvcVersion, PvcWrite(x, v) PROVE x = p /\ UNCHANGED <<backup, job>>
        BY <1>3, <2>2, <3>2, ZenonT(60) DEF PvcWrite, WritePvc
      <3>3. /\ UNCHANGED <<backup, job>>
            /\ DeliverPvc(p) \/ \E v \in PvcVersion : PvcWrite(p, v)
        BY <1>1, <2>2, <3>1, <3>2, PvcSteps, ZenonT(60)
      <3>. QED
        BY <1>1, <1>2, <1>3, <3>3, KeptPvc, ZenonT(60)
    <2>. QED
      BY <2>1, <2>2, ZenonT(60)
  <1>. QED
    BY <1>4, <1>5, <1>6, ZenonT(60)

-----------------------------------------------------------------------------
\* The versions of p keep passing; with nothing pending for p, they are the
\* ones of before.
LEMMA PassingStep ==
    ASSUME TypeOK, NEW p \in PVC, Passing(pvc[p]), [Next]_vars
    PROVE  /\ Passing(pvc'[p])
           /\ ~Pending(p)' => pvc'[p] = pvc[p]
  <1>1. pvc \in [PVC -> Streams(PvcVersion)] /\ pvc[p] \in Streams(PvcVersion)
    BY ZenonT(60) DEF TypeOK, PvcVersion
  <1>2. CASE pvc'[p] = pvc[p]
    BY <1>2, ZenonT(60)
  <1>3. CASE pvc'[p] # pvc[p]
    <2>1. CASE DeliverPvc(p)
      <3>1. /\ pvc'[p] = Deliver(pvc[p]) /\ ~CaughtUp(pvc[p])
            /\ Passes(pvc[p][1], pvc[p][2]) => p \in queue'
        BY <1>1, <2>1, ZenonT(60) DEF DeliverPvc
      <3>2. Passing(Deliver(pvc[p])) /\ Passes(pvc[p][1], pvc[p][2])
        BY <1>1, <3>1, PassingDeliver, ZenonT(60)
      <3>. QED
        BY <3>1, <3>2, ZenonT(60) DEF Pending
    <2>2. ASSUME NEW v \in PvcVersion, PvcWrite(p, v)
          PROVE  Passing(pvc'[p]) /\ (~Pending(p)' => pvc'[p] = pvc[p])
      <3>1. pvc'[p] = Put(pvc[p], v) /\ Passes(Current(pvc[p]), v)
        BY <1>1, <2>2, ZenonT(60) DEF PvcWrite, WritePvc, CurPvc
      <3>2. Passing(pvc'[p])
        BY <1>1, <3>1, PassingPut, ZenonT(60)
      <3>3. CaughtUp(pvc'[p]) => pvc'[p] = pvc[p]
        BY <1>1, <3>1, StreamQuiet, ZenonT(60)
      <3>. QED
        BY <3>2, <3>3, ZenonT(60) DEF Pending
    <2>3. ASSUME NEW x \in PVC, x # p, DeliverPvc(x) \/ \E v \in PvcVersion : PvcWrite(x, v) PROVE FALSE
      BY <1>1, <1>3, <2>3, ZenonT(60) DEF DeliverPvc, PvcWrite, WritePvc
    <2>. QED
      BY <1>3, <2>1, <2>2, <2>3, PvcSteps, ZenonT(60)
  <1>. QED
    BY <1>2, <1>3, ZenonT(60)

\* The reconcile of p is in progress, so no other starts.
LEMMA OneJob ==
    ASSUME NEW p \in PVC, job.p = p
    PROVE  ~(\E x \in PVC : StartReconcile(x))
  <1>1. IdleJob.p = Nil /\ Nil # p
    BY NilAssumption, ZenonT(60) DEF IdleJob
  <1>. QED
    BY <1>1, ZenonT(60) DEF StartReconcile

\* Nothing is pending for p that was not pending before, but where a reconcile
\* of p or the operator starts; and p is the same.
LEMMA QuietStep ==
    ASSUME TypeOK, NEW p \in PVC, Passing(pvc[p]), [Next]_vars, ~StartReconcile(p), ~Restart, ~Pending(p)'
    PROVE  ~Pending(p) /\ pvc'[p] = pvc[p]
  <1>1. pvc'[p] = pvc[p]
    BY PassingStep, ZenonT(60)
  <1>2. p \in queue => p \in queue'
    <2>1. CASE job.p = p /\ Reconcile
      BY <2>1, OneJob, OwnSteps, ZenonT(60)
    <2>2. CASE ~(job.p = p /\ Reconcile)
      BY <2>2, OutsideStep, ZenonT(60)
    <2>. QED
      BY <2>1, <2>2, ZenonT(60)
  <1>. QED
    BY <1>1, <1>2, ZenonT(60) DEF Pending

\* What the watcher makes of a PVC that does not change stays the same.
LEMMA SameView ==
    ASSUME NEW p \in PVC, [Next]_vars, pvc'[p] = pvc[p]
    PROVE  /\ CurPvc(p)' = CurPvc(p) /\ (Told' <=> Told) /\ (Kept' <=> Kept)
           /\ Told \/ Kept => /\ GetScheduleFromPVC(CurPvc(p))' = GetScheduleFromPVC(CurPvc(p))
                              /\ Resolved(p)' <=> Resolved(p)
  <1>1. CurPvc(p)' = CurPvc(p) /\ (Told' <=> Told) /\ (Kept' <=> Kept)
    BY AllowedStep, ZenonT(60) DEF CurPvc, Told, Kept
  <1>2. ASSUME Told \/ Kept
        PROVE  GetKopiaRepository(CurPvc(p).label)' = GetKopiaRepository(CurPvc(p).label)
    BY <1>1, <1>2, AllowedStep, ZenonT(60) DEF GetKopiaRepository
  <1>3. ASSUME Told \/ Kept PROVE GetScheduleFromPVC(CurPvc(p))' = GetScheduleFromPVC(CurPvc(p))
    BY <1>1, <1>2, <1>3, ZenonT(60) DEF GetScheduleFromPVC
  <1>4. ASSUME Told \/ Kept PROVE Resolved(p)' <=> Resolved(p)
    BY <1>1, <1>2, <1>3, <1>4, ZenonT(60) DEF Resolved
  <1>. QED
    BY <1>1, <1>2, <1>3, <1>4, ZenonT(60)

\* Others change nothing the watcher answers for.
LEMMA PeaceOutside ==
    ASSUME TypeOK, KeptInv, NEW p \in PVC, Passing(pvc[p]), AtPeace(p), [Next]_vars,
           ~StartReconcile(p), ~Restart, ~(job.p = p /\ Reconcile)
    PROVE  AtPeace(p)'
  <1> SUFFICES ASSUME ~Pending(p)'
               PROVE  IF job'.p = p THEN OnTrack(p)' ELSE CurPvc(p)' # Nil => Follows(p)'
    BY ZenonT(60) DEF AtPeace
  <1>1. ~Pending(p) /\ pvc'[p] = pvc[p] /\ CurPvc(p)' = CurPvc(p)
    BY QuietStep, SameView, ZenonT(60)
  <1>2. /\ job'.p = p <=> job.p = p
        /\ job'.p = p => job'.pc = job.pc /\ job'.pvc = job.pvc /\ job'.obj = job.obj
    BY OutsideStep, ZenonT(60)
  <1>3. CurPvc(p) # Nil => CurPvc(p).uid # Nil
    BY ReadTypes, NilAssumption, ZenonT(60) DEF PvcVersion, PvcObj
  <1> DEFINE Less == HasOwn(p)' => HasOwn(p) /\ Cur(p)'.auto = Cur(p).auto /\ Cur(p)'.sched = Cur(p).sched
             Stays == Kept => (Cur(p) # Nil /\ ~Cur(p).deleting => Cur(p)' # Nil /\ ~Cur(p)'.deleting)
  <1>4. Less /\ Stays
    <2>1. CASE Cur(p)' = Cur(p)
      BY <1>1, <2>1, ZenonT(60) DEF HasOwn, Controls
    <2>2. ASSUME NEW v \in BackupVersion, ByOthers(p, v) PROVE Less /\ Stays
      <3>1. Cur(p)' = v
        BY <2>2, WriteBackupStep, ZenonT(60) DEF ByOthers, OtherWrite, Cur
      <3>2. CASE Same(Cur(p), v)
        BY <1>1, <3>1, <3>2, ZenonT(60) DEF Same, HasOwn, Controls
      <3>3. CASE NotOwn(v) /\ (Kept => Cur(p) # Nil /\ (Cur(p).deleting \/ ~Controls(p)))
        <4>1. ~HasOwn(p)'
          BY <1>1, <1>3, <3>1, <3>3, ZenonT(60) DEF NotOwn, HasOwn, Controls
        <4>2. ~Kept
          <5>1. SUFFICES ASSUME Kept PROVE FALSE
            BY ZenonT(60)
          <5>2. KeptAt(p) /\ CurPvc(p) \in Versions(pvc[p]) /\ Cur(p) \in Versions(backup[p])
            <6>1. pvc[p] \in Streams(PvcVersion)
              BY ZenonT(60) DEF TypeOK, PvcVersion
            <6>. QED
              BY <5>1, <6>1, ReadTypes, StreamEnds, ZenonT(60) DEF CurPvc, KeptInv
          <5>. QED
            BY <3>3, <5>1, <5>2, ZenonT(60) DEF KeptAt, Controls
        <4>. QED
          BY <4>1, <4>2, ZenonT(60)
      <3>. QED
        BY <2>2, <3>2, <3>3, ZenonT(60) DEF ByOthers
    <2> HIDE DEF Less, Stays
    <2>. QED
      BY <2>1, <2>2, OutsideStep, ZenonT(60)
  <1>5. CASE job.p = p
    <2>1. OnTrack(p)
      BY <1>1, <1>5, ZenonT(60) DEF AtPeace
    <2>. QED
      BY <1>1, <1>2, <1>4, <1>5, <2>1, SameView, ZenonT(60) DEF OnTrack
  <1>6. CASE job.p # p
    <2>1. CurPvc(p) # Nil => Follows(p)
      BY <1>1, <1>6, ZenonT(60) DEF AtPeace
    <2>. QED
      BY <1>1, <1>2, <1>4, <1>6, <2>1, SameView, ZenonT(60) DEF Follows
  <1>. QED
    BY <1>5, <1>6, ZenonT(60)

\* A reconcile starts from the PVC as it is, and a start of the operator
\* brings every PVC back.
LEMMA PeaceStart ==
    ASSUME TypeOK, NEW p \in PVC, StartReconcile(p) \/ Restart
    PROVE  AtPeace(p)'
  <1> SUFFICES ASSUME ~Pending(p)'
               PROVE  IF job'.p = p THEN OnTrack(p)' ELSE CurPvc(p)' # Nil => Follows(p)'
    BY ZenonT(60) DEF AtPeace
  <1>1. pvc' = pvc /\ CurPvc(p)' = CurPvc(p)
    BY ZenonT(60) DEF StartReconcile, Restart, CurPvc
  <1>2. Cached(pvc[p]) = CurPvc(p)
    <2>1. pvc[p] \in Streams(PvcVersion) /\ CaughtUp(pvc[p])
      BY <1>1, ZenonT(60) DEF TypeOK, PvcVersion, Pending
    <2>. QED
      BY <2>1, StreamCaughtUp, ZenonT(60) DEF CurPvc
  <1>3. IdleJob.p # p
    <2>1. IdleJob.p = Nil /\ Nil # p
      BY NilAssumption, ZenonT(60) DEF IdleJob
    <2>. QED
      BY <2>1, ZenonT(60)
  <1>4. CASE Restart
    BY <1>1, <1>2, <1>3, <1>4, ZenonT(60) DEF Restart, Pending
  <1>5. CASE StartReconcile(p)
    <2>1. CASE CurPvc(p) = Nil
      BY <1>1, <1>2, <1>3, <1>5, <2>1, ZenonT(60) DEF StartReconcile
    <2>2. CASE CurPvc(p) # Nil
      <3>1. job' = [IdleJob EXCEPT !.pc = "get", !.p = p, !.pvc = CurPvc(p)]
        BY <1>2, <1>5, <2>2, ZenonT(60) DEF StartReconcile
      <3>2. job'.pc = "get" /\ job'.p = p /\ job'.pvc = CurPvc(p)
        BY <3>1, ZenonT(60) DEF IdleJob
      <3>3. job'.pc \notin {"sync", "create", "markNew"}
        BY <3>2
      <3>4. job'.pc # "sync" /\ job'.pc # "create" /\ job'.pc # "markNew"
        BY <3>3
      <3>. QED
        BY <1>1, <3>2, <3>4, ZenonT(60) DEF OnTrack
    <2>. QED
      BY <2>1, <2>2, ZenonT(60)
  <1>. QED
    BY <1>4, <1>5, ZenonT(60)

\* The reconcile of p works for the PVC as it is, and leaves a KopiaBackup
\* that follows it.
LEMMA PeaceOwn ==
    ASSUME WatcherInv, WatcherInv', KeptInv, KeptInv', NEW p \in PVC, Passing(pvc[p]), AtPeace(p),
           [Next]_vars, Reconcile, job.p = p, ~Restart
    PROVE  AtPeace(p)'
  <1> USE DEF Done, Retry
  <1> SUFFICES ASSUME ~Pending(p)'
               PROVE  IF job'.p = p THEN OnTrack(p)' ELSE CurPvc(p)' # Nil => Follows(p)'
    BY ZenonT(60) DEF AtPeace
  <1>1. TypeOK /\ TypeOK' /\ ~(\E x \in PVC : StartReconcile(x)) /\ ~StartReconcile(p)
    BY OneJob, ZenonT(60) DEF WatcherInv
  <1>2. job.pc # "idle" /\ job \in Job /\ job.pvc \in PvcObj /\ UNCHANGED <<pvc, repos>>
    BY <1>1, OwnSteps, JobTypes, ZenonT(60)
  <1>3. ~Pending(p) /\ OnTrack(p) /\ job.pvc = CurPvc(p)
    <2>1. ~Pending(p)
      BY <1>1, QuietStep, ZenonT(60)
    <2>. QED
      BY <2>1, ZenonT(60) DEF AtPeace, OnTrack
  <1>4. p \notin queue' /\ (ApiFault => FALSE) /\ \A o : Refused(o) => FALSE
    BY ZenonT(60) DEF Pending, ApiFault, Refused
  <1>5. /\ CurPvc(p)' = CurPvc(p) /\ (Told' <=> Told) /\ (Kept' <=> Kept)
        /\ Told \/ Kept => /\ GetScheduleFromPVC(CurPvc(p))' = GetScheduleFromPVC(CurPvc(p))
                           /\ Resolved(p)' <=> Resolved(p)
    BY <1>2, SameView, ZenonT(60)
  <1>6. Kept => KeptAt(p) /\ (Cur(p)' # Nil => ~Cur(p)'.deleting)
    <2>1. Kept => KeptAt(p) /\ KeptAt(p)'
      BY <1>5, ZenonT(60) DEF KeptInv
    <2>2. Cur(p)' \in Versions(backup[p])'
      <3>1. backup'[p] \in Streams(BackupVersion)
        BY <1>1, ZenonT(60) DEF TypeOK, BackupVersion
      <3>. QED
        BY <3>1, StreamEnds, ZenonT(60) DEF Cur
    <2>. QED
      BY <2>1, <2>2, ZenonT(60) DEF KeptAt
  <1>7. job.pc \in Labelled => job.pvc.label # Nil
    BY NilAssumption, ZenonT(60) DEF WatcherInv, JobInv
  <1>8. job' = IdleJob => job'.p # p
    <2>1. IdleJob.p = Nil /\ Nil # p
      BY NilAssumption, ZenonT(60) DEF IdleJob
    <2>. QED
      BY <2>1, ZenonT(60)
  \* How a reconcile ends well.
  <1>9. ASSUME job' = IdleJob,
               Told /\ job.pvc.label = Nil => ~HasOwn(p)',
               Told /\ Resolved(p) /\ HasOwn(p)'
                   => Cur(p)'.auto /\ Cur(p)'.sched = GetScheduleFromPVC(CurPvc(p)),
               Kept /\ Resolved(p) => Cur(p)' # Nil
        PROVE  IF job'.p = p THEN OnTrack(p)' ELSE CurPvc(p)' # Nil => Follows(p)'
    BY <1>3, <1>5, <1>6, <1>8, <1>9, ZenonT(60) DEF Follows
  <1>10. HasOwn(p)' => Cur(p)' # Nil /\ ~Cur(p)'.deleting /\ Cur(p)'.owner = job.pvc.uid
    BY <1>3, <1>5, ZenonT(60) DEF HasOwn, Controls
  <1>11. HasOwn(p) => Cur(p) # Nil
    BY ZenonT(60) DEF HasOwn
  <1>12. backup' = backup => Cur(p)' = Cur(p) /\ (HasOwn(p)' <=> HasOwn(p))
    BY <1>5, ZenonT(60) DEF Cur, HasOwn, Controls
  <1>13. ASSUME NEW v \in BackupVersion, WriteBackup(p, v) PROVE Cur(p)' = v
    BY <1>1, <1>13, WriteBackupStep, ZenonT(60) DEF Cur
  <1>14. BackupObj \subseteq BackupVersion /\ Nil \in BackupVersion /\ \A v \in BackupObj : v # Nil
    BY NilAssumption, ZenonT(60) DEF BackupVersion
  <1>15. CASE GetBackup
    <2> DEFINE b == Cached(backup[p])
               phase == NextPhase(job.pvc, b)
    <2>1. /\ b \in Versions(backup[p]) /\ UNCHANGED backup
          /\ "lag" \in allowed \/ CaughtUp(backup[p])
          /\ job' = IF phase = "idle" THEN IdleJob
                    ELSE [job EXCEPT !.pc = phase, !.obj = b, !.fresh = CaughtUp(backup[p])]
      BY <1>1, <1>15, ReadTypes, ZenonT(60) DEF GetBackup
    <2>2. Told => b = Cur(p)
      <3>1. backup[p] \in Streams(BackupVersion)
        BY <1>1, ZenonT(60) DEF TypeOK, BackupVersion
      <3>. QED
        BY <2>1, <3>1, StreamCaughtUp, ZenonT(60) DEF Told, Cur
    <2> HIDE DEF b
    <2>3. /\ phase = "idle" => \/ b = Nil /\ job.pvc.label = Nil
                               \/ b # Nil /\ b.owner # job.pvc.uid
          /\ phase = "sync" => b.auto
          /\ phase = "create" => b = Nil
          /\ phase # "markNew"
      <3>1. CASE b = Nil /\ job.pvc.label = Nil
        <4>1. phase = "idle"
          BY <3>1, ZenonT(60) DEF NextPhase
        <4>. QED
          BY <3>1, <4>1
      <3>2. CASE b = Nil /\ job.pvc.label # Nil
        <4>1. phase = "create"
          BY <3>2, ZenonT(60) DEF NextPhase
        <4>. QED
          BY <3>2, <4>1
      <3>3. CASE b # Nil /\ ~IsAutoCreated(b, job.pvc)
        <4>1. phase = "idle" /\ b.owner # job.pvc.uid
          BY <3>3, ZenonT(60) DEF NextPhase, IsAutoCreated
        <4>. QED
          BY <3>3, <4>1
      <3>4. CASE b # Nil /\ IsAutoCreated(b, job.pvc) /\ job.pvc.label = Nil
        <4>1. phase = "delete"
          BY <3>4, ZenonT(60) DEF NextPhase
        <4>. QED
          BY <4>1
      <3>5. CASE b # Nil /\ IsAutoCreated(b, job.pvc) /\ job.pvc.label # Nil
        <4>1. phase = IF b.auto THEN "sync" ELSE "markAuto"
          BY <3>5, ZenonT(60) DEF NextPhase
        <4> HIDE DEF phase
        <4>. QED
          BY <4>1
      <3>. QED
        BY <3>1, <3>2, <3>3, <3>4, <3>5, ZenonT(60)
    <2> HIDE DEF phase
    <2>4. CASE phase = "idle"
      <3>1. job' = IdleJob
        BY <2>1, <2>4, ZenonT(60)
      <3>2. Told => ~HasOwn(p)'
        BY <1>10, <1>12, <2>1, <2>2, <2>3, <2>4, ZenonT(60)
      <3>3. Kept /\ Resolved(p) => Cur(p)' # Nil
        BY <1>3, <1>6, <2>1, <2>3, <2>4, ZenonT(60) DEF KeptAt, Resolved
      <3>. QED
        BY <1>9, <3>1, <3>2, <3>3, ZenonT(60)
    <2>5. CASE phase # "idle"
      <3>1. job'.p = p /\ job'.pvc = job.pvc /\ job'.pc = phase /\ job'.obj = b
        BY <1>2, <2>1, <2>5, ZenonT(60) DEF Job
      <3>2. Told => Cur(p)' = b /\ (b = Nil => ~HasOwn(p)')
        BY <1>10, <1>12, <2>1, <2>2, ZenonT(60)
      <3>. QED
        BY <1>3, <1>5, <2>3, <3>1, <3>2, ZenonT(60) DEF OnTrack
    <2>. QED
      BY <2>4, <2>5, ZenonT(60)

  <1>16. CASE DeleteBackup
    <2>1. /\ job.pc = "delete" /\ job' = IdleJob
          /\ \/ Cur(p) = Nil /\ UNCHANGED backup
             \/ Cur(p) # Nil /\ WriteBackup(p, Deleted(Cur(p)))
      BY <1>4, <1>16, ZenonT(60) DEF DeleteBackup
    <2>2. Cur(p) # Nil => Deleted(Cur(p)) \in BackupVersion /\ (Deleted(Cur(p)) = Nil \/ Deleted(Cur(p)).deleting)
      <3>1. Cur(p) # Nil => Cur(p) \in BackupObj
        BY <1>1, ReadTypes, ZenonT(60) DEF BackupVersion
      <3>. QED
        BY <3>1, DeletedTypes, ZenonT(60)
    <2>3. ~HasOwn(p)'
      BY <1>10, <1>11, <1>12, <1>13, <2>1, <2>2, ZenonT(60)
    <2>4. ~Kept
      BY <1>6, <2>1, ZenonT(60) DEF KeptAt
    <2>. QED
      BY <1>9, <2>1, <2>3, <2>4, ZenonT(60)
  <1>17. CASE MarkAutoCreated
    <2> DEFINE o == [job.obj EXCEPT !.auto = TRUE]
    <2>1. WriteBackup(p, o) /\ job' = [job EXCEPT !.pc = "sync", !.obj = o]
      BY <1>4, <1>17, ZenonT(60) DEF MarkAutoCreated
    <2>2. job.obj \in BackupObj
      BY <1>1, <1>17, SMTT(60) DEF MarkAutoCreated, TypeOK
    <2>3. o \in BackupObj /\ o.auto
      BY <2>2, ZenonT(60) DEF BackupObj
    <2> HIDE DEF o
    <2>4. Cur(p)' = o
      BY <1>13, <1>14, <2>1, <2>3, ZenonT(60)
    <2>5. job'.p = p /\ job'.pvc = job.pvc /\ job'.pc = "sync" /\ job'.obj = o
      BY <1>2, <2>1, ZenonT(60) DEF Job
    <2>6. job'.pc # "create" /\ job'.pc # "markNew"
      BY <2>5
    <2>. QED
      BY <1>3, <1>5, <2>3, <2>4, <2>5, <2>6, ZenonT(60) DEF OnTrack
  <1>18. CASE SyncSchedule
    <2> DEFINE o == [job.obj EXCEPT !.sched = GetScheduleFromPVC(job.pvc)]
    <2>1. /\ job.pc = "sync" /\ job' = IdleJob
          /\ \/ (GetKopiaRepository(job.pvc.label) = Nil \/ o = job.obj) /\ UNCHANGED backup
             \/ GetKopiaRepository(job.pvc.label) # Nil /\ WriteBackup(p, o)
      BY <1>4, <1>18, ZenonT(60) DEF SyncSchedule
    <2>2. job.obj \in BackupObj /\ job.pc \in Labelled /\ job.pc \in Writing
      BY <1>1, <2>1, SMTT(60) DEF TypeOK, Labelled, Writing
    <2>3. o.sched = GetScheduleFromPVC(job.pvc) /\ o.auto = job.obj.auto
      BY <2>2, ZenonT(60) DEF BackupObj
    <2>4. GetKopiaRepository(job.pvc.label) # Nil => o \in BackupObj
      <3>1. GetKopiaRepository(job.pvc.label) # Nil => GetScheduleFromPVC(job.pvc) \in Schedule
        BY <1>1, <1>2, <2>2, ScheduleTypes, ZenonT(60) DEF WatcherInv, JobInv
      <3>. QED
        BY <2>2, <3>1, ZenonT(60) DEF BackupObj
    <2> HIDE DEF o
    <2>5. Told => job.obj.auto /\ (HasOwn(p) => Cur(p).auto /\ Cur(p).sched = job.obj.sched)
      BY <1>3, <2>1, ZenonT(60) DEF OnTrack
    <2>6. Resolved(p) => GetKopiaRepository(job.pvc.label) # Nil
      BY <1>3, ZenonT(60) DEF Resolved
    <2>7. CASE UNCHANGED backup /\ (GetKopiaRepository(job.pvc.label) = Nil \/ o = job.obj)
      <3>1. Told /\ Resolved(p) /\ HasOwn(p)' => Cur(p)'.auto /\ Cur(p)'.sched = GetScheduleFromPVC(CurPvc(p))
        BY <1>3, <1>12, <2>3, <2>5, <2>6, <2>7, ZenonT(60)
      <3>2. Kept => Cur(p)' # Nil
        BY <1>6, <1>12, <2>2, <2>7, ZenonT(60) DEF KeptAt
      <3>. QED
        BY <1>7, <1>9, <2>1, <2>2, <3>1, <3>2, ZenonT(60)
    <2>8. CASE GetKopiaRepository(job.pvc.label) # Nil /\ WriteBackup(p, o)
      <3>1. Cur(p)' = o /\ o # Nil
        BY <1>13, <1>14, <2>4, <2>8, ZenonT(60)
      <3>2. Told => Cur(p)'.auto /\ Cur(p)'.sched = GetScheduleFromPVC(CurPvc(p))
        BY <1>3, <2>3, <2>5, <3>1, ZenonT(60)
      <3>. QED
        BY <1>7, <1>9, <2>1, <2>2, <3>1, <3>2, ZenonT(60)
    <2>. QED
      BY <2>1, <2>7, <2>8, ZenonT(60)
  <1>19. CASE CreateBackupForPVC
    <2> DEFINE o == [owner |-> job.pvc.uid, auto |-> FALSE, sched |-> GetScheduleFromPVC(job.pvc),
                     fin |-> FALSE, deleting |-> FALSE, reported |-> FALSE]
    <2>1. /\ job.pc = "create"
          /\ \/ GetKopiaRepository(job.pvc.label) = Nil /\ job' = IdleJob /\ UNCHANGED backup
             \/ Cur(p) # Nil /\ job' = IdleJob /\ UNCHANGED backup
             \/ job' = [job EXCEPT !.pc = "markNew", !.obj = o, !.fresh = TRUE]
      BY <1>4, <1>19, ZenonT(60) DEF CreateBackupForPVC
    <2>2. job.pc \in Labelled
      BY <2>1, SMTT(60) DEF Labelled
    <2>3. o.sched = GetScheduleFromPVC(CurPvc(p))
      BY <1>3, ZenonT(60)
    <2> HIDE DEF o
    <2>4. Told => ~HasOwn(p)
      BY <1>3, <2>1, ZenonT(60) DEF OnTrack
    <2>5. CASE (GetKopiaRepository(job.pvc.label) = Nil \/ Cur(p) # Nil) /\ job' = IdleJob /\ UNCHANGED backup
      <3>1. (Told => ~HasOwn(p)') /\ (Resolved(p) => Cur(p)' # Nil)
        BY <1>3, <1>12, <2>4, <2>5, ZenonT(60) DEF Resolved
      <3>. QED
        BY <1>7, <1>9, <2>2, <2>5, <3>1, ZenonT(60)
    <2>6. CASE job' = [job EXCEPT !.pc = "markNew", !.obj = o, !.fresh = TRUE]
      <3>1. job'.p = p /\ job'.pvc = job.pvc /\ job'.pc = "markNew" /\ job'.obj = o
        BY <1>2, <2>6, ZenonT(60) DEF Job
      <3>2. job'.pc # "create" /\ job'.pc # "sync"
        BY <3>1
      <3>. QED
        BY <1>3, <1>5, <2>3, <3>1, <3>2, ZenonT(60) DEF OnTrack
    <2>. QED
      BY <2>1, <2>5, <2>6, ZenonT(60)
  <1>20. CASE MarkNewBackup
    <2> DEFINE o == [job.obj EXCEPT !.auto = TRUE]
    <2>1. job.pc = "markNew" /\ WriteBackup(p, o) /\ job' = IdleJob
      BY <1>4, <1>20, ZenonT(60) DEF MarkNewBackup
    <2>2. job.obj \in BackupObj /\ job.pc \in Labelled
      BY <1>1, <2>1, SMTT(60) DEF TypeOK, Labelled
    <2>3. o \in BackupObj /\ o.auto /\ o.sched = job.obj.sched
      BY <2>2, ZenonT(60) DEF BackupObj
    <2> HIDE DEF o
    <2>4. Cur(p)' = o /\ o # Nil
      BY <1>13, <1>14, <2>1, <2>3, ZenonT(60)
    <2>5. Told => Cur(p)'.auto /\ Cur(p)'.sched = GetScheduleFromPVC(CurPvc(p))
      BY <1>3, <2>1, <2>3, <2>4, ZenonT(60) DEF OnTrack
    <2>. QED
      BY <1>7, <1>9, <2>1, <2>2, <2>4, <2>5, ZenonT(60)
  <1>. QED
    BY <1>1, <1>15, <1>16, <1>17, <1>18, <1>19, <1>20, ZenonT(60) DEF Reconcile

\* RestInv is inductive, given WatcherInv.
LEMMA RestStep ==
    ASSUME WatcherInv, RestInv, [Next]_vars
    PROVE  RestInv'
  <1>1. TypeOK /\ WatcherInv' /\ KeptInv /\ KeptInv'
    BY WatcherStep, KeptStep, ZenonT(60) DEF WatcherInv, Good, RestInv
  <1>2. ASSUME NEW p \in PVC PROVE Passing(pvc'[p])
    BY <1>1, PassingStep, ZenonT(60) DEF RestInv
  <1>3. ASSUME NEW p \in PVC PROVE AtPeace(p)'
    <2>1. Passing(pvc[p]) /\ AtPeace(p)
      BY ZenonT(60) DEF RestInv
    <2>2. CASE StartReconcile(p) \/ Restart
      BY <1>1, <2>2, PeaceStart, ZenonT(60)
    <2>3. CASE ~(StartReconcile(p) \/ Restart) /\ job.p = p /\ Reconcile
      BY <1>1, <2>1, <2>3, PeaceOwn, ZenonT(60)
    <2>4. CASE ~(StartReconcile(p) \/ Restart) /\ ~(job.p = p /\ Reconcile)
      BY <1>1, <2>1, <2>4, PeaceOutside, ZenonT(60)
    <2>. QED
      BY <2>2, <2>3, <2>4, ZenonT(60)
  <1>. QED
    BY <1>1, <1>2, <1>3, ZenonT(60) DEF RestInv

\* At the start every PVC is queued, and none has a KopiaBackup.
LEMMA RestInit == Init => RestInv
  <1> SUFFICES ASSUME Init PROVE RestInv
    OBVIOUS
  <1>1. PICK r \in Repo \cup {Nil} : pvc = [p \in PVC |-> <<[NewPvc(1) EXCEPT !.label = r]>>]
    BY ZenonT(60) DEF Init
  <1>2. backup = [p \in PVC |-> <<Nil>>] /\ queue = PVC /\ job = IdleJob
    BY ZenonT(60) DEF Init
  <1> DEFINE o == [NewPvc(1) EXCEPT !.label = r]
  <1>3. o \in PvcObj /\ o.uid = 1
    <2>1. 1 \in Uid
      BY ConstantsAssumption DEF Uid
    <2>. QED
      BY <2>1, SMTT(60) DEF NewPvc, PvcObj
  <1>4. o # Nil
    BY <1>3, NilAssumption, ZenonT(60)
  <1> HIDE DEF o
  <1>5. ASSUME NEW p \in PVC
        PROVE  Passing(pvc[p]) /\ Lasting(pvc[p]) /\ Versions(pvc[p]) = {o} /\ Cur(p) = Nil /\ Versions(backup[p]) = {Nil}
    <2>1. pvc[p] = <<o>> /\ backup[p] = <<Nil>>
      BY <1>1, <1>2, ZenonT(60) DEF o
    <2>2. DOMAIN <<o>> = {1}
      OBVIOUS
    <2>3. Versions(pvc[p]) = {o} /\ Cur(p) = Nil /\ Versions(backup[p]) = {Nil}
      BY <2>1 DEF Versions, Cur, Current
    <2>4. DOMAIN pvc[p] = {1}
      BY <2>1, <2>2, ZenonT(60)
    <2>5. Passing(pvc[p])
      BY <2>4 DEF Passing
    <2>6. Lasting(pvc[p])
      BY <2>4, ZenonT(60) DEF Lasting
    <2>. QED
      BY <2>3, <2>5, <2>6, ZenonT(60)
  <1>6. ASSUME NEW p \in PVC PROVE job.p # p
    <2>1. job.p = Nil /\ Nil # p
      BY <1>2, NilAssumption, ZenonT(60) DEF IdleJob
    <2>. QED
      BY <2>1, ZenonT(60)
  <1>7. ASSUME NEW p \in PVC PROVE KeptAt(p) /\ AtPeace(p)
    <2>1. KeptAt(p)
      BY <1>3, <1>4, <1>5, <1>6, ZenonT(60) DEF KeptAt
    <2>. QED
      BY <1>2, <2>1, ZenonT(60) DEF AtPeace, Pending
  <1>. QED
    BY <1>5, <1>7, ZenonT(60) DEF RestInv, KeptInv

\* RestIsFollowed: reconcilePVC reports every refused write as an error, so
\* the PVC comes back; what it reports as done follows the PVC, and the event
\* filter hides no change of it.
THEOREM RestFollowed == Spec => []RestIsFollowed
  <1> DEFINE Inv == WatcherInv /\ RestInv
  <1>1. Init => Inv
    BY WatcherInit, RestInit, ZenonT(60)
  <1>2. Inv /\ [Next]_vars => Inv'
    BY WatcherStep, RestStep, ZenonT(60) DEF Good
  <1>3. Inv => RestIsFollowed
    BY ZenonT(60) DEF RestInv, AtPeace, Pending, RestIsFollowed, AtRest
  <1> HIDE DEF Inv
  <1>. QED
    BY <1>1, <1>2, <1>3, PTL DEF Spec
=============================================================================
