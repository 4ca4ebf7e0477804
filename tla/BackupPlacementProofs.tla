----------------------- MODULE BackupPlacementProofs -----------------------
(***************************************************************************)
(* Proofs about BackupPlacement: the variables keep their types, a Ready   *)
(* condition of the current generation never runs ahead of the CronJob,    *)
(* every backup keeps to the life the other modules rely on, and one that  *)
(* is left alone needs nothing.                                            *)
(***************************************************************************)
EXTENDS BackupPlacement, WatchStreamProofs

\* No status, written or in hand, is of a generation that is yet to come.
SeenInv ==
    /\ \A b \in Backup : \A v \in Versions(backup[b]) : v # Nil => v.st.seen <= v.gen
    /\ job # IdleJob => job.obj.st.seen <= job.obj.gen

\* Once the status tells of the CronJob, no earlier plan is in the cache, in
\* the hands of a reconcile or in the CronJob.
SettledInv ==
    \A b \in Backup :
        Alone(b) /\ Cur(b) # Nil /\ Told(Cur(b))
        => /\ \A v \in Versions(backup[b]) : v # Nil /\ v.plan = Cur(b).plan
           /\ job # IdleJob /\ job.b = b => job.obj.plan = Cur(b).plan
           /\ CurCron(PvcOf[b]) # Nil => CurCron(PvcOf[b]).plan = Cur(b).plan

\* A current copy has the plan of every version the cache has yet to pass,
\* and what its status tells of the CronJob is true.
FreshInv ==
    job # IdleJob /\ job.fresh
    => /\ \A v \in Versions(backup[job.b]) : v # Nil /\ v.plan = job.obj.plan
       /\ Alone(job.b) /\ Told(job.obj) /\ CurCron(MyPvc) # Nil
          => CurCron(MyPvc).plan = job.obj.plan
-----------------------------------------------------------------------------
(***************************************************************************)
(* Building blocks                                                         *)
(***************************************************************************)
\* What the API server and the caches hold of each object.
LEMMA HeldTypes ==
    ASSUME TypeOK
    PROVE  /\ \A b \in Backup : /\ Cur(b) \in BackupObj \cup {Nil} /\ Cur(b) \in Versions(backup[b])
                                /\ Cached(backup[b]) \in BackupObj \cup {Nil}
                                /\ Cached(backup[b]) \in Versions(backup[b])
                                /\ Versions(backup[b]) \subseteq BackupObj \cup {Nil}
           /\ \A p \in PVC : /\ CurCron(p) \in CronJobObj \cup {Nil}
                             /\ Cached(cron[p]) \in CronJobObj \cup {Nil}
           /\ \A r \in Repo : /\ CurConfig(r) \in ConfigMapObj \cup {Nil}
                              /\ Cached(config[r]) \in ConfigMapObj \cup {Nil}
<1>1. /\ backup \in [Backup -> Streams(BackupObj \cup {Nil})]
      /\ cron \in [PVC -> Streams(CronJobObj \cup {Nil})]
      /\ config \in [Repo -> Streams(ConfigMapObj \cup {Nil})]
  BY Zenon DEF TypeOK
<1>2. /\ \A b \in Backup : backup[b] \in Streams(BackupObj \cup {Nil})
      /\ \A p \in PVC : cron[p] \in Streams(CronJobObj \cup {Nil})
      /\ \A r \in Repo : config[r] \in Streams(ConfigMapObj \cup {Nil})
  BY <1>1, Zenon
<1> QED
  BY <1>2, StreamEnds, Zenon DEF Cur, CurCron, CurConfig

\* What the streams are made of.
BackupVersion == BackupObj \cup {Nil}
CronJobVersion == CronJobObj \cup {Nil}
ConfigMapVersion == ConfigMapObj \cup {Nil}

LEMMA BackupWritten ==
    ASSUME TypeOK, NEW b \in Backup, NEW v \in BackupVersion, WriteBackup(b, v)
    PROVE  /\ backup' \in [Backup -> Streams(BackupVersion)]
           /\ Cur(b)' = v /\ Versions(backup'[b]) \subseteq Versions(backup[b]) \cup {v}
           /\ \A c \in Backup : c # b => backup'[c] = backup[c] /\ Cur(c)' = Cur(c)
<1>1. backup \in [Backup -> Streams(BackupVersion)]
  BY Zenon DEF TypeOK, BackupVersion
<1>2. backup' = [backup EXCEPT ![b] = Put(@, v)]
  BY Zenon DEF WriteBackup
<1>3. backup[b] \in Streams(BackupVersion)
  BY <1>1, Zenon
<1>4. /\ Put(backup[b], v) \in Streams(BackupVersion) /\ Current(Put(backup[b], v)) = v
      /\ Versions(Put(backup[b], v)) \subseteq Versions(backup[b]) \cup {v}
  BY <1>3, StreamPut, ZenonT(60)
<1>5. backup'[b] = Put(backup[b], v) /\ \A c \in Backup : c # b => backup'[c] = backup[c]
  BY <1>1, <1>2, Zenon
<1>6. backup' \in [Backup -> Streams(BackupVersion)]
  BY <1>1, <1>2, <1>4, Zenon
<1> QED
  BY <1>4, <1>5, <1>6, Zenon DEF Cur

LEMMA CronWritten ==
    ASSUME TypeOK, NEW p \in PVC, NEW v \in CronJobVersion, WriteCron(p, v)
    PROVE  /\ cron' \in [PVC -> Streams(CronJobVersion)] /\ config' = config
           /\ orphans' \subseteq Child
           /\ CurCron(p)' = v /\ \A q \in PVC : q # p => CurCron(q)' = CurCron(q)
<1>1. cron \in [PVC -> Streams(CronJobVersion)] /\ orphans \subseteq Child
  BY Zenon DEF TypeOK, CronJobVersion
<1>2. cron' = [cron EXCEPT ![p] = Put(@, v)] /\ config' = config
  BY Zenon DEF WriteCron
<1>3. cron[p] \in Streams(CronJobVersion)
  BY <1>1, Zenon
<1>4. /\ Put(cron[p], v) \in Streams(CronJobVersion) /\ Current(Put(cron[p], v)) = v
      /\ Versions(Put(cron[p], v)) \subseteq Versions(cron[p]) \cup {v}
  BY <1>3, StreamPut, ZenonT(60)
<1>5. cron'[p] = Put(cron[p], v) /\ \A c \in PVC : c # p => cron'[c] = cron[c]
  BY <1>1, <1>2, Zenon
<1>6. cron' \in [PVC -> Streams(CronJobVersion)]
  BY <1>1, <1>2, <1>4, Zenon
<1>7. orphans' \subseteq Child
  BY <1>1 DEF WriteCron
<1> QED
  BY <1>2, <1>4, <1>5, <1>6, <1>7, Zenon DEF CurCron

LEMMA ConfigWritten ==
    ASSUME TypeOK, NEW r \in Repo, NEW v \in ConfigMapVersion, WriteConfig(r, v)
    PROVE  /\ config' \in [Repo -> Streams(ConfigMapVersion)] /\ cron' = cron
           /\ orphans' \subseteq Child
<1>1. config \in [Repo -> Streams(ConfigMapVersion)] /\ orphans \subseteq Child
  BY Zenon DEF TypeOK, ConfigMapVersion
<1>2. config' = [config EXCEPT ![r] = Put(@, v)] /\ cron' = cron
  BY Zenon DEF WriteConfig
<1>3. config[r] \in Streams(ConfigMapVersion)
  BY <1>1, Zenon
<1>4. /\ Put(config[r], v) \in Streams(ConfigMapVersion) /\ Current(Put(config[r], v)) = v
      /\ Versions(Put(config[r], v)) \subseteq Versions(config[r]) \cup {v}
  BY <1>3, StreamPut, ZenonT(60)
<1>5. config'[r] = Put(config[r], v) /\ \A c \in Repo : c # r => config'[c] = config[c]
  BY <1>1, <1>2, Zenon
<1>6. config' \in [Repo -> Streams(ConfigMapVersion)]
  BY <1>1, <1>2, <1>4, Zenon
<1>7. orphans' \subseteq Child
  BY <1>1 DEF WriteConfig
<1> QED
  BY <1>2, <1>6, <1>7, Zenon

\* The children of a backup that goes are children.
LEMMA OrphanType ==
    ASSUME TypeOK, NEW b \in Backup, Orphan(b)
    PROVE  orphans' \subseteq Child
<1>1. orphans \subseteq Child
  BY Zenon DEF TypeOK
<1>2. {<<"cronJob", p>> : p \in {p \in PVC : CurCron(p) # Nil /\ CurCron(p).owner = b}} \subseteq Child
  BY SMTT(60) DEF Child
<1>3. {<<"configMap", r>> : r \in {r \in Repo : CurConfig(r) # Nil /\ CurConfig(r).owner = b}}
         \subseteq Child
  BY SMTT(60) DEF Child
<1> QED
  BY <1>1, <1>2, <1>3, Zenon DEF Orphan

\* The phases after handleFinalizer.
Working == {"validate", "ensureUser", "configMap", "cronJob", "status"}

\* The reconcile in progress.
LEMMA JobFacts ==
    ASSUME TypeOK, job.pc # "idle"
    PROVE  /\ job \in Job /\ job # IdleJob /\ job.b \in Backup /\ job.obj \in BackupObj
           /\ job.obj.st \in Status /\ job.obj.plan \in Plan /\ job.obj.gen \in Nat
           /\ job.pc \in Phase /\ job.fresh \in BOOLEAN /\ job.retry \in BOOLEAN
           /\ job.set \in Setting \cup {Nil} /\ MyPvc \in PVC /\ MyRepo \in Repo
<1>1. job \in Job /\ job # IdleJob
  <2>1. job # IdleJob
    BY DEF IdleJob
  <2> QED
    BY <2>1, Zenon DEF TypeOK
<1>2. /\ job.b \in Backup /\ job.obj \in BackupObj /\ job.fresh \in BOOLEAN /\ job.retry \in BOOLEAN
      /\ job.set \in Setting \cup {Nil} /\ job.pc \in Phase
  BY <1>1, Zenon DEF Job
<1>3. job.obj.st \in Status /\ job.obj.plan \in Plan /\ job.obj.gen \in Nat
  BY <1>2, Zenon DEF BackupObj
<1>4. MyPvc \in PVC /\ MyRepo \in Repo
  BY <1>2, ConstantsAssumption, Zenon DEF MyPvc, MyRepo
<1> QED
  BY <1>1, <1>2, <1>3, <1>4, Zenon

\* A reconcile that returns keeps its copy but for the status.
LEMMA Returned ==
    ASSUME TypeOK, job.pc # "idle", NEW st \in Status, NEW retry \in BOOLEAN, Return(st, retry)
    PROVE  /\ job' \in Job /\ job'.pc = "status" /\ job' # IdleJob /\ job'.b = job.b
           /\ job'.fresh = job.fresh /\ queue' = queue
           /\ job'.obj.st = st /\ job'.obj.plan = job.obj.plan /\ job'.obj.gen = job.obj.gen
           /\ job'.obj.fin = job.obj.fin /\ job'.obj.deleting = job.obj.deleting
           /\ job'.obj.cred = job.obj.cred
<1>1. job \in Job /\ job.obj \in BackupObj
  BY JobFacts, Zenon
<1>2. job' = [job EXCEPT !.pc = "status", !.obj.st = st, !.retry = retry] /\ queue' = queue
  BY Zenon DEF Return
<1>3. [job.obj EXCEPT !.st = st] \in BackupObj
  BY <1>1, Zenon DEF BackupObj
<1>4. job'.obj = [job.obj EXCEPT !.st = st] /\ job'.pc = "status" /\ job'.b = job.b
      /\ job'.fresh = job.fresh
  BY <1>1, <1>2, Zenon DEF Job
<1>5. job' \in Job
  BY <1>1, <1>2, <1>3, ZenonT(60) DEF Job, Phase
<1>6. /\ job'.obj.st = st /\ job'.obj.plan = job.obj.plan /\ job'.obj.gen = job.obj.gen
      /\ job'.obj.fin = job.obj.fin /\ job'.obj.deleting = job.obj.deleting
      /\ job'.obj.cred = job.obj.cred
  BY <1>1, <1>4, Zenon DEF BackupObj
<1>7. job' # IdleJob
  BY <1>4 DEF IdleJob
<1> QED
  BY <1>2, <1>4, <1>5, <1>6, <1>7, Zenon

\* The Ready condition that is set is of the generation in hand.
LEMMA ReadyType ==
    ASSUME NEW o \in BackupObj, NEW reason \in Reason
    PROVE  /\ SetReady(o, reason) \in Status
           /\ SetReady(o, reason).seen = o.gen /\ SetReady(o, reason).ready = reason
  BY Zenon DEF SetReady, Status, BackupObj

LEMMA PlacedType ==
    ASSUME NEW o \in BackupObj, NEW place
    PROVE  /\ Placed(o, place) \in Status /\ Placed(o, place).seen = o.gen
           /\ Placed(o, place).ready # "None"
<1> DEFINE reason == CASE place = Nil -> "NoPodFound"
                       [] place # Nil /\ o.plan \in Suspended -> "Suspended"
                       [] OTHER -> "Reconciled"
<1>1. reason \in Reason /\ reason # "None"
  BY Zenon DEF Reason
<1>2. Placed(o, place) = SetReady(o, reason)
  BY Zenon DEF Placed
<1> HIDE DEF reason
<1>3. /\ SetReady(o, reason) \in Status
      /\ SetReady(o, reason).seen = o.gen /\ SetReady(o, reason).ready = reason
  BY <1>1, ReadyType, Zenon
<1> QED
  BY <1>1, <1>2, <1>3

LEMMA BackupDelivered ==
    ASSUME TypeOK, NEW b \in Backup, DeliverBackup(b)
    PROVE  /\ backup' \in [Backup -> Streams(BackupVersion)] /\ queue' \subseteq Backup
           /\ \A c \in Backup : Cur(c)' = Cur(c) /\ Versions(backup'[c]) \subseteq Versions(backup[c])
<1>1. backup \in [Backup -> Streams(BackupVersion)]
  BY Zenon DEF TypeOK, BackupVersion
<1>q. queue \subseteq Backup
  BY Zenon DEF TypeOK
<1>2. backup' = [backup EXCEPT ![b] = Deliver(@)]
  BY Zenon DEF DeliverBackup
<1>3. backup[b] \in Streams(BackupVersion) /\ ~CaughtUp(backup[b])
  BY <1>1, Zenon DEF DeliverBackup
<1>4. /\ Deliver(backup[b]) \in Streams(BackupVersion) /\ Current(Deliver(backup[b])) = Current(backup[b])
      /\ Versions(Deliver(backup[b])) \subseteq Versions(backup[b])
  BY <1>3, StreamDeliver, Zenon
<1>5. backup'[b] = Deliver(backup[b]) /\ \A c \in Backup : c # b => backup'[c] = backup[c]
  BY <1>1, <1>2, Zenon
<1>6. backup' \in [Backup -> Streams(BackupVersion)]
  BY <1>1, <1>2, <1>4, Zenon
<1>7. queue' \subseteq Backup
  BY <1>q, Zenon DEF DeliverBackup
<1> QED
  BY <1>4, <1>5, <1>6, <1>7, Zenon DEF Cur

LEMMA CronDelivered ==
    ASSUME TypeOK, NEW p \in PVC, DeliverCronJob(p)
    PROVE  /\ cron' \in [PVC -> Streams(CronJobVersion)] /\ queue' \subseteq Backup
           /\ \A c \in PVC : CurCron(c)' = CurCron(c) /\ Versions(cron'[c]) \subseteq Versions(cron[c])
<1>1. cron \in [PVC -> Streams(CronJobVersion)]
  BY Zenon DEF TypeOK, CronJobVersion
<1>q. queue \subseteq Backup
  BY Zenon DEF TypeOK
<1>2. cron' = [cron EXCEPT ![p] = Deliver(@)]
  BY Zenon DEF DeliverCronJob
<1>3. cron[p] \in Streams(CronJobVersion) /\ ~CaughtUp(cron[p])
  BY <1>1, Zenon DEF DeliverCronJob
<1>4. /\ Deliver(cron[p]) \in Streams(CronJobVersion) /\ Current(Deliver(cron[p])) = Current(cron[p])
      /\ Versions(Deliver(cron[p])) \subseteq Versions(cron[p])
  BY <1>3, StreamDeliver, Zenon
<1>5. cron'[p] = Deliver(cron[p]) /\ \A c \in PVC : c # p => cron'[c] = cron[c]
  BY <1>1, <1>2, Zenon
<1>6. cron' \in [PVC -> Streams(CronJobVersion)]
  BY <1>1, <1>2, <1>4, Zenon
<1>7. queue' \subseteq Backup
  <2>1. cron[p][1] \in CronJobVersion /\ cron[p][2] \in CronJobVersion
    BY <1>3, StreamNext, Zenon
  <2>2. \A v \in {cron[p][1], cron[p][2]} \ {Nil} : v.owner \in Backup
    BY <2>1, Zenon DEF CronJobVersion, CronJobObj
  <2>3. Owners(cron[p]) \subseteq Backup
    BY <2>2, Zenon DEF Owners
  <2> QED
    BY <1>q, <2>3, Zenon DEF DeliverCronJob
<1> QED
  BY <1>4, <1>5, <1>6, <1>7, Zenon DEF CurCron

LEMMA ConfigDelivered ==
    ASSUME TypeOK, NEW r \in Repo, DeliverConfigMap(r)
    PROVE  /\ config' \in [Repo -> Streams(ConfigMapVersion)] /\ queue' \subseteq Backup
           /\ \A c \in Repo : CurConfig(c)' = CurConfig(c) /\ Versions(config'[c]) \subseteq Versions(config[c])
<1>1. config \in [Repo -> Streams(ConfigMapVersion)]
  BY Zenon DEF TypeOK, ConfigMapVersion
<1>q. queue \subseteq Backup
  BY ZenonT(60) DEF TypeOK
<1>2. config' = [config EXCEPT ![r] = Deliver(@)]
  BY Zenon DEF DeliverConfigMap
<1>3. config[r] \in Streams(ConfigMapVersion) /\ ~CaughtUp(config[r])
  BY <1>1, Zenon DEF DeliverConfigMap
<1>4. /\ Deliver(config[r]) \in Streams(ConfigMapVersion) /\ Current(Deliver(config[r])) = Current(config[r])
      /\ Versions(Deliver(config[r])) \subseteq Versions(config[r])
  BY <1>3, StreamDeliver, Zenon
<1>5. config'[r] = Deliver(config[r]) /\ \A c \in Repo : c # r => config'[c] = config[c]
  BY <1>1, <1>2, Zenon
<1>6. config' \in [Repo -> Streams(ConfigMapVersion)]
  BY <1>1, <1>2, <1>4, Zenon
<1>7. queue' \subseteq Backup
  <2>1. config[r][1] \in ConfigMapVersion /\ config[r][2] \in ConfigMapVersion
    BY <1>3, StreamNext, Zenon
  <2>2. \A v \in {config[r][1], config[r][2]} \ {Nil} : v.owner \in Backup
    BY <2>1, Zenon DEF ConfigMapVersion, ConfigMapObj
  <2>3. Owners(config[r]) \subseteq Backup
    BY <2>2, Zenon DEF Owners
  <2> QED
    BY <1>q, <2>3, Zenon DEF DeliverConfigMap
<1> QED
  BY <1>4, <1>5, <1>6, <1>7, Zenon DEF CurConfig

\* The repository found is one that is there.
LEMMA RepositoryType ==
    ASSUME TypeOK, NEW r \in Repo
    PROVE  GetKopiaRepository(r) \in Setting \cup {Nil}
<1> DEFINE matches == {ns \in Namespace : repos[<<ns, r>>] # Nil}
           Only(ns) == matches = {ns}
<1>1. \A ns \in Namespace : repos[<<ns, r>>] \in Setting \cup {Nil}
  BY Zenon DEF TypeOK
<1>2. GetKopiaRepository(r) =
        IF Home \in matches THEN repos[<<Home, r>>]
        ELSE IF \E ns \in Namespace : Only(ns) THEN repos[<<CHOOSE ns \in Namespace : Only(ns), r>>]
        ELSE Nil
  BY Zenon DEF GetKopiaRepository
<1>3. Home \in Namespace
  BY ConstantsAssumption, Zenon
<1>4. (\E ns \in Namespace : Only(ns)) => (CHOOSE ns \in Namespace : Only(ns)) \in Namespace
  <2> HIDE DEF Only
  <2> QED
    BY Zenon
<1> HIDE DEF matches, Only
<1> QED
  BY <1>1, <1>2, <1>3, <1>4, Zenon

\* Where a pod runs is a place, or none runs.
LEMMA PlacementsType ==
    ASSUME TypeOK, NEW p \in PVC
    PROVE  Placements(p) \subseteq Place \cup {Nil}
<1>1. \A q \in Candidates(p) : pods[q].place \in Place \cup {Nil}
  <2> SUFFICES ASSUME NEW q \in Candidates(p) PROVE pods[q].place \in Place \cup {Nil}
    OBVIOUS
  <2>1. q \in Pod /\ pods[q] # Nil
    BY Zenon DEF Candidates
  <2>2. pods[q] \in PodObj
    BY <2>1, Zenon DEF TypeOK
  <2> QED
    BY <2>2, Zenon DEF PodObj
<1> QED
  BY <1>1, Zenon DEF Placements

\* What is written is an object of its kind, with the plan in hand.
LEMMA DesiredTypes ==
    ASSUME TypeOK, job.pc # "idle", job.set \in Setting
    PROVE  /\ \A c \in CronJobVersion, place \in Place \cup {Nil} :
                  DesiredCronJob(c, place) \in CronJobObj /\ DesiredCronJob(c, place).plan = job.obj.plan
           /\ \A c \in ConfigMapVersion : DesiredConfigMap(c) \in ConfigMapObj
<1>1. job.b \in Backup /\ job.obj.plan \in Plan
  BY JobFacts, Zenon
<1>2. ASSUME NEW c \in CronJobVersion, NEW place \in Place \cup {Nil}
      PROVE  DesiredCronJob(c, place) \in CronJobObj /\ DesiredCronJob(c, place).plan = job.obj.plan
  <2>1. NewCronJob(place) \in CronJobObj /\ NewCronJob(place).plan = job.obj.plan
    BY <1>1, Zenon DEF NewCronJob, CronJobObj
  <2>2. CASE c = Nil
    BY <2>1, <2>2, Zenon DEF DesiredCronJob
  <2>3. CASE c # Nil
    <3>1. c.owner \in Backup
      BY <2>3, Zenon DEF CronJobVersion, CronJobObj
    <3>2. DesiredCronJob(c, place) = [NewCronJob(place) EXCEPT !.owner = c.owner]
      BY <2>3, Zenon DEF DesiredCronJob
    <3>3. [NewCronJob(place) EXCEPT !.owner = c.owner] \in CronJobObj
          /\ [NewCronJob(place) EXCEPT !.owner = c.owner].plan = NewCronJob(place).plan
      BY <2>1, <3>1, Zenon DEF CronJobObj
    <3> QED
      BY <2>1, <3>2, <3>3, Zenon
  <2> QED
    BY <2>2, <2>3
<1>3. ASSUME NEW c \in ConfigMapVersion PROVE DesiredConfigMap(c) \in ConfigMapObj
  <2>1. CASE c = Nil
    BY <1>1, <2>1, Zenon DEF DesiredConfigMap, ConfigMapObj
  <2>2. CASE c # Nil
    BY <2>2, Zenon DEF DesiredConfigMap, ConfigMapObj, ConfigMapVersion
  <2> QED
    BY <2>1, <2>2
<1> QED
  BY <1>2, <1>3, Zenon
-----------------------------------------------------------------------------
(***************************************************************************)
(* Type correctness                                                        *)
(***************************************************************************)
\* The part of TypeOK about the reconcile in progress, and the rest.
JobOK ==
    /\ job \in Job \cup {IdleJob}
    /\ job.pc \in {"ensureUser", "configMap", "cronJob"} => job.set \in Setting

StreamsOK ==
    /\ backup \in [Backup -> Streams(BackupVersion)]
    /\ cron \in [PVC -> Streams(CronJobVersion)]
    /\ config \in [Repo -> Streams(ConfigMapVersion)]
    /\ orphans \subseteq Child

RestOK ==
    /\ repos \in [Namespace \X Repo -> Setting \cup {Nil}]
    /\ pvcs \subseteq PVC
    /\ pods \in [Pod -> PodObj \cup {Nil}]
    /\ faults \in 0 .. MaxFaults
    /\ edits \in 0 .. MaxEdits

LEMMA TypeParts == TypeOK <=> JobOK /\ StreamsOK /\ RestOK /\ queue \subseteq Backup
  BY Zenon DEF TypeOK, JobOK, StreamsOK, RestOK, BackupVersion, CronJobVersion, ConfigMapVersion

LEMMA TypeParts1 == TypeOK' <=> JobOK' /\ StreamsOK' /\ RestOK' /\ queue' \subseteq Backup
  BY Zenon DEF TypeOK, JobOK, StreamsOK, RestOK, BackupVersion, CronJobVersion, ConfigMapVersion

\* A fault or a change takes one from its budget.
LEMMA Spent ==
    ASSUME TypeOK, UNCHANGED envVars,
           \/ UNCHANGED budgets
           \/ \E kind \in FaultKind : Fault(kind) /\ UNCHANGED edits
           \/ \E kind \in EditKind : Edit(kind) /\ UNCHANGED faults
    PROVE  RestOK'
<1>1. RestOK
  BY TypeParts, Zenon
<1>2. repos' = repos /\ pvcs' = pvcs /\ pods' = pods
  BY Zenon DEF envVars
<1>3. faults' \in 0 .. MaxFaults /\ edits' \in 0 .. MaxEdits
  <2>1. faults \in 0 .. MaxFaults /\ edits \in 0 .. MaxEdits /\ MaxFaults \in Nat /\ MaxEdits \in Nat
    BY <1>1, ConstantsAssumption, Zenon DEF RestOK
  <2> QED
    BY <2>1 DEF Fault, Edit, budgets
<1> QED
  BY <1>1, <1>2, <1>3, Zenon DEF RestOK

\* A reconcile that has ended.
LEMMA EndType ==
    ASSUME TypeOK, job.pc # "idle", NEW retry, End(retry)
    PROVE  JobOK' /\ job' = IdleJob /\ queue' \subseteq Backup
<1>1. job' = IdleJob
  BY Zenon DEF End
<1>2. job.b \in Backup /\ queue \subseteq Backup
  BY JobFacts, Zenon DEF TypeOK
<1>3. queue' \subseteq Backup
  BY <1>2, Zenon DEF End
<1>4. IdleJob.pc = "idle"
  BY DEF IdleJob
<1>5. JobOK'
  BY <1>1, <1>4 DEF JobOK
<1> QED
  BY <1>1, <1>3, <1>5

\* A reconcile that is about to update the status.
LEMMA ReturnType ==
    ASSUME TypeOK, job.pc # "idle", NEW st \in Status, NEW retry \in BOOLEAN, Return(st, retry)
    PROVE  JobOK' /\ queue' \subseteq Backup
<1>1. job' \in Job /\ job'.pc = "status" /\ queue' = queue
  BY Returned, Zenon
<1> QED
  BY <1>1 DEF JobOK, TypeOK

\* A reconcile that goes on.
LEMMA GoneOn ==
    ASSUME TypeOK, job.pc # "idle", NEW phase \in Phase, NEW o \in BackupObj,
           job' = [job EXCEPT !.pc = phase, !.obj = o]
    PROVE  /\ job' \in Job /\ job'.pc = phase /\ job'.obj = o /\ job' # IdleJob
           /\ job'.b = job.b /\ job'.fresh = job.fresh /\ job'.set = job.set
<1>1. job \in Job
  BY JobFacts, Zenon
<1>2. job' \in Job /\ job'.pc = phase /\ job'.obj = o
      /\ job'.b = job.b /\ job'.fresh = job.fresh /\ job'.set = job.set
  BY <1>1, ZenonT(60) DEF Job
<1>3. job' # IdleJob
  BY <1>2, ZenonT(60) DEF IdleJob, Phase
<1> QED
  BY <1>2, <1>3, Zenon

LEMMA GotoFacts ==
    ASSUME TypeOK, job.pc # "idle", NEW phase \in Phase, Goto(phase)
    PROVE  /\ job' \in Job /\ job'.pc = phase /\ job'.obj = job.obj /\ job' # IdleJob
           /\ job'.b = job.b /\ job'.fresh = job.fresh /\ job'.set = job.set /\ queue' = queue
<1>1. job \in Job
  BY JobFacts, Zenon
<1>2. job' = [job EXCEPT !.pc = phase] /\ queue' = queue
  BY Zenon DEF Goto
<1>3. job' \in Job /\ job'.pc = phase /\ job'.obj = job.obj
      /\ job'.b = job.b /\ job'.fresh = job.fresh /\ job'.set = job.set
  BY <1>1, <1>2, ZenonT(60) DEF Job
<1>4. job' # IdleJob
  BY <1>3 DEF IdleJob, Phase
<1> QED
  BY <1>2, <1>3, <1>4, Zenon

LEMMA PlacementInitType == Init => TypeOK
<1> SUFFICES ASSUME Init PROVE TypeOK
  OBVIOUS
<1>1. PICK plan \in Plan \ Suspended : backup = [b \in Backup |-> <<NewBackup(plan)>>]
  BY Zenon DEF Init
<1>2. NewBackup(plan) \in BackupObj
  BY DEF NewBackup, BackupObj, NoStatus, Status, Reason
<1>3. <<NewBackup(plan)>> \in Streams(BackupVersion)
  BY <1>2 DEF Streams, BackupVersion
<1>4. <<Nil>> \in Streams(CronJobVersion) /\ <<Nil>> \in Streams(ConfigMapVersion)
  BY DEF Streams, CronJobVersion, ConfigMapVersion
<1>5. StreamsOK
  BY <1>1, <1>3, <1>4, Zenon DEF Init, StreamsOK
<1>6. RestOK
  BY ConstantsAssumption DEF Init, RestOK
<1>7. JobOK /\ queue \subseteq Backup
  BY DEF Init, JobOK, IdleJob
<1> QED
  BY <1>5, <1>6, <1>7, TypeParts, Zenon

LEMMA FirstPhaseType ==
    ASSUME NEW o \in BackupObj, FirstPhase(o) # "idle"
    PROVE  FirstPhase(o) \in {"dropFin", "validate", "addFin"}
<1>1. o.deleting \in BOOLEAN /\ o.fin \in BOOLEAN
  BY Zenon DEF BackupObj
<1>2. CASE o.deleting /\ o.fin
  BY <1>2, Zenon DEF FirstPhase
<1>3. CASE o.deleting /\ ~o.fin
  BY <1>3, Zenon DEF FirstPhase
<1>4. CASE ~o.deleting /\ o.fin
  BY <1>4, Zenon DEF FirstPhase
<1>5. CASE ~o.deleting /\ ~o.fin
  BY <1>5, Zenon DEF FirstPhase
<1> QED
  BY <1>1, <1>2, <1>3, <1>4, <1>5, Zenon

LEMMA PhaseForType ==
    ASSUME NEW s \in Setting
    PROVE  PhaseFor(s) \in {"ensureUser", "configMap", "cronJob"}
<1>1. ModeOf[s] \in {"server", "filesystem", "sftp"}
  BY ConstantsAssumption, Zenon DEF Mode
<1> QED
  BY <1>1, Zenon DEF PhaseFor

\* A reconcile starts with the cached copy, current if the cache has caught up.
LEMMA Started ==
    ASSUME TypeOK, NEW b \in Backup, StartReconcile(b)
    PROVE  /\ queue' \subseteq Backup /\ UNCHANGED <<backup, children, envVars, budgets>>
           /\ \/ job' = IdleJob
              \/ LET o == Cached(backup[b])
                 IN /\ o \in BackupObj /\ job' \in Job /\ job' # IdleJob /\ job'.b = b /\ job'.obj = o
                    /\ job'.fresh <=> CaughtUp(backup[b])
                    /\ job'.pc = FirstPhase(o) /\ job'.pc \in {"dropFin", "validate", "addFin"}
<1> DEFINE o == Cached(backup[b])
<1>1. /\ queue' = queue \ {b} /\ UNCHANGED <<backup, children, envVars, budgets>>
      /\ job' = IF o = Nil \/ FirstPhase(o) = "idle" THEN IdleJob
                ELSE [IdleJob EXCEPT !.pc = FirstPhase(o), !.b = b, !.obj = o,
                                     !.fresh = CaughtUp(backup[b])]
  BY Zenon DEF StartReconcile
<1>2. o \in BackupObj \cup {Nil} /\ queue \subseteq Backup
  BY HeldTypes, Zenon DEF TypeOK
<1>c. CaughtUp(backup[b]) \in BOOLEAN
  BY Zenon DEF CaughtUp
<1> HIDE DEF o
<1>3. CASE o = Nil \/ FirstPhase(o) = "idle"
  BY <1>1, <1>2, <1>3, Zenon
<1>4. CASE ~(o = Nil \/ FirstPhase(o) = "idle")
  <2>1. o \in BackupObj /\ FirstPhase(o) \in {"dropFin", "validate", "addFin"}
    BY <1>2, <1>4, FirstPhaseType, Zenon
  <2>2. job' = [pc |-> FirstPhase(o), b |-> b, obj |-> o, fresh |-> CaughtUp(backup[b]), set |-> Nil,
                retry |-> FALSE]
    BY <1>1, <1>4, ZenonT(60) DEF IdleJob
  <2>3. job' \in Job
    BY <2>1, <2>2, <1>c, ZenonT(60) DEF Job, Phase
  <2>4. job'.b = b /\ job'.obj = o /\ (job'.fresh <=> CaughtUp(backup[b])) /\ job'.pc = FirstPhase(o)
    BY <2>2, Zenon
  <2>5. job' # IdleJob
    BY <2>1, <2>4 DEF IdleJob
  <2>6. queue' \subseteq Backup
    BY <1>1, <1>2, Zenon
  <2> QED
    BY <1>1, <2>1, <2>3, <2>4, <2>5, <2>6, Zenon DEF o
<1> QED
  BY <1>3, <1>4, Zenon

\* The copy of another client's write is outdated, otherwise unchanged.
LEMMA Invalidated ==
    ASSUME TypeOK, NEW b \in Backup, Invalidate(b)
    PROVE  /\ JobOK' /\ job'.pc = job.pc /\ job'.b = job.b /\ job'.obj = job.obj
           /\ job' = IdleJob <=> job = IdleJob
           /\ job # IdleJob /\ job.b = b => ~job'.fresh
           /\ ~(job # IdleJob /\ job.b = b) => job' = job
<1>1. JobOK
  BY TypeParts, Zenon
<1>2. CASE job = IdleJob
  <2>1. job.b # b
    BY <1>2, NilAssumption DEF IdleJob
  <2>2. job' = job
    BY <2>1, Zenon DEF Invalidate
  <2> QED
    BY <1>1, <1>2, <2>2 DEF JobOK
<1>3. CASE job # IdleJob /\ job.b # b
  <2>2. job' = job
    BY <1>3, Zenon DEF Invalidate
  <2> QED
    BY <1>1, <1>3, <2>2 DEF JobOK
<1>4. CASE job # IdleJob /\ job.b = b
  <2>1. job \in Job /\ job' = [job EXCEPT !.fresh = FALSE]
    BY <1>1, <1>4, Zenon DEF Invalidate, JobOK
  <2>2. /\ job' \in Job /\ job'.pc = job.pc /\ job'.b = job.b /\ job'.obj = job.obj /\ ~job'.fresh
        /\ job'.set = job.set /\ job.pc \in Phase
    BY <2>1, ZenonT(60) DEF Job
  <2>3. job' # IdleJob
    BY <2>2 DEF IdleJob, Phase
  <2>4. JobOK'
    BY <1>1, <2>2 DEF JobOK
  <2> QED
    BY <1>4, <2>2, <2>3, <2>4, Zenon
<1> QED
  BY <1>2, <1>3, <1>4, Zenon

\* The copy in hand with its finalizer, or with the name of its Secret.
LEMMA CopyTypes ==
    ASSUME TypeOK, job.pc # "idle"
    PROVE  /\ [job.obj EXCEPT !.fin = TRUE] \in BackupObj
           /\ [job.obj EXCEPT !.cred = TRUE, !.gen = @ + 1] \in BackupObj
<1>1. job.obj \in BackupObj /\ job.obj.gen \in Nat
  BY JobFacts, Zenon
<1>2. job.obj.gen + 1 \in Nat
  BY <1>1
<1> QED
  BY <1>1, <1>2, ZenonT(60) DEF BackupObj

LEMMA FinalizerTypes ==
    ASSUME TypeOK, AddFinalizer \/ RemoveFinalizer
    PROVE  TypeOK'
<1>1. job.pc \in {"addFin", "dropFin"} /\ UNCHANGED <<cron, config, envVars>>
  BY Zenon DEF AddFinalizer, RemoveFinalizer
<1>2. job.pc # "idle" /\ job.b \in Backup
  BY <1>1, JobFacts, Zenon
<1>3. JobOK /\ StreamsOK /\ queue \subseteq Backup
  BY TypeParts, Zenon
<1>4. CASE FinalizerNotWritten
  <2>1. /\ End(TRUE) /\ UNCHANGED <<backup, orphans>>
        /\ UNCHANGED budgets \/ (Fault("api") /\ UNCHANGED edits)
    BY <1>4, Zenon DEF FinalizerNotWritten
  <2>2. JobOK' /\ queue' \subseteq Backup
    BY <1>2, <2>1, EndType, Zenon
  <2>3. RestOK'
    BY <1>1, <2>1, Spent, Zenon DEF FaultKind
  <2>4. StreamsOK'
    BY <1>1, <1>3, <2>1, Zenon DEF StreamsOK
  <2> QED
    BY <2>2, <2>3, <2>4, TypeParts1, Zenon
<1>5. CASE AddFinalizer /\ ~FinalizerNotWritten
  <2> DEFINE o == [job.obj EXCEPT !.fin = TRUE]
  <2>1. WriteBackup(job.b, o) /\ job' = [job EXCEPT !.pc = "validate", !.obj = o]
        /\ UNCHANGED <<orphans, queue, budgets>>
    BY <1>5, Zenon DEF AddFinalizer
  <2>2. o \in BackupObj /\ o \in BackupVersion
    BY <1>2, CopyTypes, Zenon DEF BackupVersion
  <2> HIDE DEF o
  <2>3. "validate" \in Phase
    BY DEF Phase
  <2>4. job' \in Job /\ job'.pc = "validate"
    BY <1>2, <2>1, <2>2, <2>3, GoneOn, Zenon
  <2>5. JobOK'
    BY <2>4 DEF JobOK
  <2>6. StreamsOK'
    BY <1>1, <1>2, <1>3, <2>1, <2>2, BackupWritten, Zenon DEF StreamsOK
  <2>7. RestOK'
    BY <1>1, <2>1, Spent, Zenon
  <2> QED
    BY <1>3, <2>1, <2>5, <2>6, <2>7, TypeParts1, Zenon
<1>6. CASE RemoveFinalizer /\ ~FinalizerNotWritten
  <2>1. WriteBackup(job.b, Nil) /\ Orphan(job.b) /\ End(FALSE) /\ UNCHANGED budgets
    BY <1>6, Zenon DEF RemoveFinalizer
  <2>2. Nil \in BackupVersion
    BY Zenon DEF BackupVersion
  <2>3. JobOK' /\ queue' \subseteq Backup
    BY <1>2, <2>1, EndType, Zenon
  <2>4. orphans' \subseteq Child
    BY <1>2, <2>1, OrphanType, Zenon
  <2>5. StreamsOK'
    BY <1>1, <1>2, <1>3, <2>1, <2>2, <2>4, BackupWritten, Zenon DEF StreamsOK
  <2>6. RestOK'
    BY <1>1, <2>1, Spent, Zenon
  <2> QED
    BY <2>3, <2>5, <2>6, TypeParts1, Zenon
<1> QED
  BY <1>4, <1>5, <1>6, Zenon

\* Validation stops with a status or goes on with a repository in hand.
LEMMA Validated ==
    ASSUME TypeOK, ValidateDependencies
    PROVE  /\ UNCHANGED <<backup, children, envVars, budgets, queue>> /\ JobOK'
           /\ job' \in Job /\ job' # IdleJob /\ job'.b = job.b /\ job'.fresh = job.fresh
           /\ job'.pc \in Working
           /\ \/ job'.obj = job.obj
              \/ /\ job'.obj.st.ready \in {"PVCNotFound", "RepositoryNotFound"}
                 /\ job'.obj.st.seen = job.obj.gen
           /\ job'.obj.plan = job.obj.plan /\ job'.obj.gen = job.obj.gen
           /\ job'.obj.fin = job.obj.fin /\ job'.obj.deleting = job.obj.deleting
           /\ job'.obj.cred = job.obj.cred
<1> DEFINE s == GetKopiaRepository(MyRepo)
<1>1. /\ job.pc = "validate" /\ UNCHANGED <<backup, children, envVars, budgets>>
      /\ \/ Return(SetReady(job.obj, "PVCNotFound"), FALSE)
         \/ Return(SetReady(job.obj, "RepositoryNotFound"), FALSE)
         \/ s # Nil /\ job' = [job EXCEPT !.pc = PhaseFor(s), !.set = s] /\ UNCHANGED queue
  BY Zenon DEF ValidateDependencies
<1>2. job.pc # "idle"
  BY <1>1
<1>3. /\ job \in Job /\ job.obj \in BackupObj /\ MyRepo \in Repo
  BY <1>2, JobFacts, Zenon
<1>4. s \in Setting \cup {Nil}
  BY <1>3, RepositoryType, Zenon
<1> HIDE DEF s
<1>5. ASSUME NEW reason \in {"PVCNotFound", "RepositoryNotFound"}, Return(SetReady(job.obj, reason), FALSE)
      PROVE  /\ queue' = queue /\ JobOK' /\ job' \in Job /\ job' # IdleJob /\ job'.b = job.b
             /\ job'.pc \in Working
             /\ job'.fresh = job.fresh /\ job'.obj.st.ready = reason /\ job'.obj.st.seen = job.obj.gen
             /\ job'.obj.plan = job.obj.plan /\ job'.obj.gen = job.obj.gen
             /\ job'.obj.fin = job.obj.fin /\ job'.obj.deleting = job.obj.deleting
             /\ job'.obj.cred = job.obj.cred
  <2>1. reason \in Reason /\ FALSE \in BOOLEAN
    BY <1>5, Zenon DEF Reason
  <2>2. /\ SetReady(job.obj, reason) \in Status /\ SetReady(job.obj, reason).ready = reason
        /\ SetReady(job.obj, reason).seen = job.obj.gen
    BY <1>3, <2>1, ReadyType, Zenon
  <2>3. JobOK'
    BY <1>2, <1>5, <2>1, <2>2, ReturnType, Zenon
  <2> QED
    BY <1>2, <1>5, <2>1, <2>2, <2>3, Returned, Zenon DEF Working
<1>6. CASE s # Nil /\ job' = [job EXCEPT !.pc = PhaseFor(s), !.set = s] /\ UNCHANGED queue
  <2>1. s \in Setting /\ PhaseFor(s) \in {"ensureUser", "configMap", "cronJob"}
    BY <1>4, <1>6, PhaseForType, Zenon
  <2>2. /\ job' \in Job /\ job'.pc = PhaseFor(s) /\ job'.set = s /\ job'.b = job.b
        /\ job'.fresh = job.fresh /\ job'.obj = job.obj
    BY <1>3, <1>6, <2>1, ZenonT(60) DEF Job, Phase
  <2>3. job' # IdleJob
    BY <2>1, <2>2 DEF IdleJob
  <2>4. JobOK'
    BY <2>1, <2>2, Zenon DEF JobOK
  <2> QED
    BY <1>1, <1>6, <2>1, <2>2, <2>3, <2>4, Zenon DEF Working
<1> QED
  BY <1>1, <1>5, <1>6, Zenon

\* The user is there: the reconcile goes on, after persisting the name of the
\* Secret in a new generation, or it returns with the status it had.
LEMMA CredentialsReconciled ==
    ASSUME TypeOK, ReconcileServerCredentials
    PROVE  /\ UNCHANGED <<children, envVars, queue>> /\ JobOK' /\ RestOK' /\ job.pc = "ensureUser"
           /\ job' \in Job /\ job' # IdleJob /\ job'.b = job.b /\ job'.fresh = job.fresh
           /\ job'.pc \in Working
           /\ \/ /\ UNCHANGED backup /\ job'.obj.st = job.obj.st
                 /\ job'.obj.plan = job.obj.plan /\ job'.obj.gen = job.obj.gen
                 /\ job'.obj.fin = job.obj.fin /\ job'.obj.deleting = job.obj.deleting
                 /\ job'.obj.cred = job.obj.cred
              \/ /\ job.fresh /\ ~job.obj.cred /\ WriteBackup(job.b, job'.obj)
                 /\ job'.obj = [job.obj EXCEPT !.cred = TRUE, !.gen = @ + 1]
<1> DEFINE o == [job.obj EXCEPT !.cred = TRUE, !.gen = @ + 1]
<1>1. /\ job.pc = "ensureUser" /\ UNCHANGED <<children, envVars>>
      /\ \/ Goto("cronJob") /\ UNCHANGED <<backup, budgets>>
         \/ /\ ~job.obj.cred /\ job.fresh /\ WriteBackup(job.b, o)
            /\ job' = [job EXCEPT !.pc = "cronJob", !.obj = o] /\ UNCHANGED <<queue, budgets>>
         \/ /\ Return(job.obj.st, TRUE) /\ UNCHANGED backup
            /\ UNCHANGED budgets \/ (Fault("user") /\ UNCHANGED edits)
  BY Zenon DEF ReconcileServerCredentials
<1>2. job.pc # "idle" /\ "cronJob" \in Phase
  BY <1>1 DEF Phase
<1>3. job.set \in Setting
  BY <1>1 DEF TypeOK
<1>4. job.obj.st \in Status /\ o \in BackupObj
  BY <1>2, JobFacts, CopyTypes, Zenon
<1>5. RestOK'
  BY <1>1, Spent, Zenon DEF FaultKind
<1>6. CASE Goto("cronJob") /\ UNCHANGED backup
  <2>1. /\ job' \in Job /\ job'.pc = "cronJob" /\ job'.obj = job.obj /\ job' # IdleJob
        /\ job'.b = job.b /\ job'.fresh = job.fresh /\ job'.set = job.set /\ queue' = queue
    BY <1>2, <1>6, GotoFacts, Zenon
  <2>2. JobOK'
    BY <1>3, <2>1, Zenon DEF JobOK
  <2> QED
    BY <1>1, <1>5, <1>6, <2>1, <2>2, Zenon DEF Working
<1>7. CASE /\ ~job.obj.cred /\ job.fresh /\ WriteBackup(job.b, o)
           /\ job' = [job EXCEPT !.pc = "cronJob", !.obj = o] /\ UNCHANGED <<queue, budgets>>
  <2> HIDE DEF o
  <2>1. /\ job' \in Job /\ job'.pc = "cronJob" /\ job'.obj = o /\ job' # IdleJob
        /\ job'.b = job.b /\ job'.fresh = job.fresh /\ job'.set = job.set
    BY <1>2, <1>4, <1>7, GoneOn, Zenon
  <2>2. JobOK'
    BY <1>3, <2>1, Zenon DEF JobOK
  <2> QED
    BY <1>1, <1>5, <1>7, <2>1, <2>2, Zenon DEF o, Working
<1>8. CASE Return(job.obj.st, TRUE) /\ UNCHANGED backup
  <2>1. JobOK'
    BY <1>2, <1>4, <1>8, ReturnType, Zenon
  <2> QED
    BY <1>1, <1>2, <1>4, <1>5, <1>8, <2>1, Returned, ZenonT(60) DEF Working
<1> QED
  BY <1>1, <1>6, <1>7, <1>8, Zenon

\* The ConfigMap is up to date, or the reconcile returns with its status.
LEMMA ConfigMapReconciled ==
    ASSUME TypeOK, ReconcileConfigMap
    PROVE  /\ UNCHANGED <<backup, cron, envVars, queue>> /\ JobOK' /\ RestOK'
           /\ config' \in [Repo -> Streams(ConfigMapVersion)] /\ orphans' \subseteq Child
           /\ job' \in Job /\ job' # IdleJob /\ job'.b = job.b /\ job'.fresh = job.fresh
           /\ job'.pc \in Working
           /\ job'.obj.st = job.obj.st
           /\ job'.obj.plan = job.obj.plan /\ job'.obj.gen = job.obj.gen
           /\ job'.obj.fin = job.obj.fin /\ job'.obj.deleting = job.obj.deleting
           /\ job'.obj.cred = job.obj.cred
<1> DEFINE c == Cached(config[MyRepo])
<1>1. /\ job.pc = "configMap" /\ UNCHANGED <<backup, envVars>>
      /\ UNCHANGED budgets \/ (Fault("api") /\ UNCHANGED edits)
      /\ UNCHANGED children \/ WriteConfig(MyRepo, DesiredConfigMap(c))
      /\ Goto("cronJob") \/ Return(job.obj.st, TRUE)
  BY Zenon DEF ReconcileConfigMap
<1>2. job.pc # "idle" /\ "cronJob" \in Phase
  BY <1>1 DEF Phase
<1>3. job.set \in Setting
  BY <1>1 DEF TypeOK
<1>4. job.obj.st \in Status /\ MyRepo \in Repo
  BY <1>2, JobFacts, Zenon
<1>5. c \in ConfigMapVersion
  BY <1>4, HeldTypes, Zenon DEF ConfigMapVersion
<1>6. RestOK'
  BY <1>1, Spent, Zenon DEF FaultKind
<1> HIDE DEF c
<1>7. DesiredConfigMap(c) \in ConfigMapVersion
  BY <1>2, <1>3, <1>5, DesiredTypes, Zenon DEF ConfigMapVersion
<1>8. /\ config' \in [Repo -> Streams(ConfigMapVersion)] /\ orphans' \subseteq Child /\ cron' = cron
  <2>1. CASE WriteConfig(MyRepo, DesiredConfigMap(c))
    BY <1>4, <1>7, <2>1, ConfigWritten, Zenon
  <2>2. CASE UNCHANGED children
    <3>1. StreamsOK
      BY TypeParts, Zenon
    <3> QED
      BY <2>2, <3>1, Zenon DEF children, StreamsOK
  <2> QED
    BY <1>1, <2>1, <2>2, Zenon
<1>9. CASE Goto("cronJob")
  <2>1. /\ job' \in Job /\ job'.pc = "cronJob" /\ job'.obj = job.obj /\ job' # IdleJob
        /\ job'.b = job.b /\ job'.fresh = job.fresh /\ job'.set = job.set /\ queue' = queue
    BY <1>2, <1>9, GotoFacts, Zenon
  <2>2. JobOK'
    BY <1>3, <2>1, Zenon DEF JobOK
  <2> QED
    BY <1>1, <1>6, <1>8, <2>1, <2>2, Zenon DEF Working
<1>10. CASE Return(job.obj.st, TRUE)
  <2>1. JobOK'
    BY <1>2, <1>4, <1>10, ReturnType, Zenon
  <2> QED
    BY <1>1, <1>2, <1>4, <1>6, <1>8, <1>10, <2>1, Returned, ZenonT(60) DEF Working
<1> QED
  BY <1>1, <1>9, <1>10, Zenon

\* The CronJob is written with the plan in hand and the status tells so, or
\* the reconcile returns with the status it had.
LEMMA CronJobReconciled ==
    ASSUME TypeOK, ReconcileCronJob
    PROVE  /\ UNCHANGED <<backup, config, envVars, queue>> /\ JobOK' /\ RestOK' /\ job.pc = "cronJob"
           /\ cron' \in [PVC -> Streams(CronJobVersion)] /\ orphans' \subseteq Child
           /\ job' \in Job /\ job' # IdleJob /\ job'.b = job.b /\ job'.fresh = job.fresh
           /\ job'.pc \in Working
           /\ \/ /\ job'.obj.st.seen = job.obj.gen /\ job'.obj.st.ready # "None"
                 /\ Current(cron'[MyPvc]) # Nil /\ Current(cron'[MyPvc]).plan = job.obj.plan
                 /\ \A p \in PVC : p # MyPvc => CurCron(p)' = CurCron(p)
              \/ job'.obj.st = job.obj.st /\ UNCHANGED cron
           /\ job'.obj.plan = job.obj.plan /\ job'.obj.gen = job.obj.gen
           /\ job'.obj.fin = job.obj.fin /\ job'.obj.deleting = job.obj.deleting
           /\ job'.obj.cred = job.obj.cred
<1> DEFINE c == Cached(cron[MyPvc])
<1>1. /\ job.pc = "cronJob" /\ UNCHANGED <<backup, envVars>>
      /\ UNCHANGED budgets \/ (Fault("api") /\ UNCHANGED edits)
      /\ \/ \E place \in Placements(MyPvc) : /\ WriteCron(MyPvc, DesiredCronJob(c, place))
                                             /\ Return(Placed(job.obj, place), place = Nil)
         \/ UNCHANGED children /\ Return(job.obj.st, TRUE)
  BY Zenon DEF ReconcileCronJob
<1>2. job.pc # "idle"
  BY <1>1
<1>3. job.set \in Setting
  BY <1>1 DEF TypeOK
<1>4. job.obj \in BackupObj /\ job.obj.st \in Status /\ MyPvc \in PVC
  BY <1>2, JobFacts, Zenon
<1>5. c \in CronJobVersion
  BY <1>4, HeldTypes, Zenon DEF CronJobVersion
<1>6. RestOK'
  BY <1>1, Spent, Zenon DEF FaultKind
<1> HIDE DEF c
<1>7. ASSUME NEW place \in Placements(MyPvc), WriteCron(MyPvc, DesiredCronJob(c, place)),
             Return(Placed(job.obj, place), place = Nil)
      PROVE  /\ UNCHANGED <<config, queue>> /\ JobOK'
             /\ cron' \in [PVC -> Streams(CronJobVersion)] /\ orphans' \subseteq Child
             /\ job' \in Job /\ job' # IdleJob /\ job'.b = job.b /\ job'.fresh = job.fresh
             /\ job'.pc \in Working /\ job'.obj.st.seen = job.obj.gen /\ job'.obj.st.ready # "None"
             /\ Current(cron'[MyPvc]) # Nil /\ Current(cron'[MyPvc]).plan = job.obj.plan
             /\ \A p \in PVC : p # MyPvc => CurCron(p)' = CurCron(p)
             /\ job'.obj.plan = job.obj.plan /\ job'.obj.gen = job.obj.gen
             /\ job'.obj.fin = job.obj.fin /\ job'.obj.deleting = job.obj.deleting
             /\ job'.obj.cred = job.obj.cred
  <2>1. place \in Place \cup {Nil}
    BY <1>4, PlacementsType, Zenon
  <2>2. /\ DesiredCronJob(c, place) \in CronJobObj
        /\ DesiredCronJob(c, place).plan = job.obj.plan
    BY <1>2, <1>3, <1>5, <2>1, DesiredTypes, Zenon
  <2>3. DesiredCronJob(c, place) \in CronJobVersion /\ DesiredCronJob(c, place) # Nil
    BY <2>2, NilAssumption, Zenon DEF CronJobVersion
  <2>4. /\ cron' \in [PVC -> Streams(CronJobVersion)] /\ config' = config
        /\ orphans' \subseteq Child
        /\ Current(cron'[MyPvc]) = DesiredCronJob(c, place)
        /\ \A q \in PVC : q # MyPvc => CurCron(q)' = CurCron(q)
    <3>1. ASSUME NEW p \in PVC, p = MyPvc
          PROVE /\ cron' \in [PVC -> Streams(CronJobVersion)] /\ config' = config
                /\ orphans' \subseteq Child
                /\ Current(cron'[p]) = DesiredCronJob(c, place)
                /\ \A q \in PVC : q # p => CurCron(q)' = CurCron(q)
      <4>1. WriteCron(p, DesiredCronJob(c, place))
        BY <1>7, <3>1, Zenon
      <4> DEFINE v == DesiredCronJob(c, place)
      <4>3. v \in CronJobVersion /\ WriteCron(p, v)
        BY <2>3, <4>1
      <4> HIDE DEF v
      <4>4. /\ cron' \in [PVC -> Streams(CronJobVersion)] /\ config' = config
            /\ orphans' \subseteq Child
            /\ Current(cron'[p]) = v
            /\ \A q \in PVC : q # p => CurCron(q)' = CurCron(q)
        BY <4>3, CronWritten, Zenon DEF CurCron
      <4> QED
        BY <4>4, Zenon DEF v
    <3> QED
      BY <1>4, <3>1
  <2>5. /\ Placed(job.obj, place) \in Status /\ Placed(job.obj, place).seen = job.obj.gen
        /\ Placed(job.obj, place).ready # "None" /\ (place = Nil) \in BOOLEAN
    BY <1>4, PlacedType, Zenon
  <2>6. JobOK'
    BY <1>2, <1>7, <2>5, ReturnType, Zenon
  <2>7. /\ job' \in Job /\ job' # IdleJob /\ job'.b = job.b /\ job'.fresh = job.fresh /\ queue' = queue
        /\ job'.pc = "status" /\ job'.obj.st = Placed(job.obj, place)
        /\ job'.obj.plan = job.obj.plan /\ job'.obj.gen = job.obj.gen
        /\ job'.obj.fin = job.obj.fin /\ job'.obj.deleting = job.obj.deleting
        /\ job'.obj.cred = job.obj.cred
    BY <1>2, <1>7, <2>5, Returned, Zenon
  <2> QED
    BY <2>2, <2>3, <2>4, <2>5, <2>6, <2>7, ZenonT(60) DEF Working
<1>8. CASE UNCHANGED children /\ Return(job.obj.st, TRUE)
  <2>1. JobOK'
    BY <1>2, <1>4, <1>8, ReturnType, Zenon
  <2>2. StreamsOK
    BY TypeParts, Zenon
  <2>3. /\ job' \in Job /\ job' # IdleJob /\ job'.b = job.b /\ job'.fresh = job.fresh /\ queue' = queue
        /\ job'.pc = "status" /\ job'.obj.st = job.obj.st
        /\ job'.obj.plan = job.obj.plan /\ job'.obj.gen = job.obj.gen
        /\ job'.obj.fin = job.obj.fin /\ job'.obj.deleting = job.obj.deleting
        /\ job'.obj.cred = job.obj.cred
    BY <1>2, <1>4, <1>8, Returned, Zenon
  <2> QED
    BY <1>1, <1>6, <1>8, <2>1, <2>2, <2>3, Zenon DEF children, StreamsOK, Working
<1> QED
  BY <1>1, <1>6, <1>7, <1>8, Zenon

\* The deferred update writes the copy in hand, or the reconcile is retried.
LEMMA StatusUpdated ==
    ASSUME TypeOK, UpdateStatus
    PROVE  /\ UNCHANGED <<children, envVars>> /\ job.pc = "status" /\ job' = IdleJob
           /\ JobOK' /\ RestOK' /\ queue' \subseteq Backup
           /\ UNCHANGED backup \/ (job.fresh /\ WriteBackup(job.b, job.obj))
<1>1. /\ job.pc = "status" /\ UNCHANGED <<children, envVars>>
      /\ UNCHANGED backup \/ (job.fresh /\ WriteBackup(job.b, job.obj))
      /\ UNCHANGED budgets \/ (Fault("api") /\ UNCHANGED edits)
      /\ End(job.retry) \/ End(TRUE)
  BY Zenon DEF UpdateStatus
<1>2. job.pc # "idle"
  BY <1>1
<1>3. JobOK' /\ job' = IdleJob /\ queue' \subseteq Backup
  BY <1>1, <1>2, EndType, Zenon
<1>4. RestOK'
  BY <1>1, Spent, Zenon DEF FaultKind
<1> QED
  BY <1>1, <1>3, <1>4, Zenon

\* A reconcile leaves the types as they are.
LEMMA ReconcileTypes == ASSUME TypeOK, Reconcile PROVE TypeOK'
<1>t. JobOK /\ StreamsOK /\ RestOK /\ queue \subseteq Backup
  BY TypeParts, Zenon
<1>1. ASSUME NEW b \in Backup, StartReconcile(b) PROVE TypeOK'
  <2>1. /\ queue' \subseteq Backup /\ UNCHANGED <<backup, children, envVars, budgets>>
        /\ job' = IdleJob \/ (job' \in Job /\ job'.pc \in {"dropFin", "validate", "addFin"})
    BY <1>1, Started, Zenon
  <2>2. JobOK'
    BY <2>1 DEF JobOK, IdleJob
  <2>3. StreamsOK'
    BY <1>t, <2>1, Zenon DEF StreamsOK, children
  <2>4. RestOK'
    BY <2>1, Spent, Zenon
  <2> QED
    BY <2>1, <2>2, <2>3, <2>4, TypeParts1, Zenon
<1>2. CASE ValidateDependencies
  <2>1. UNCHANGED <<backup, children, envVars, budgets, queue>> /\ JobOK'
    BY <1>2, Validated, Zenon
  <2>2. RestOK'
    BY <2>1, Spent, Zenon
  <2>3. StreamsOK'
    BY <1>t, <2>1, Zenon DEF StreamsOK, children
  <2> QED
    BY <1>t, <2>1, <2>2, <2>3, TypeParts1, Zenon
<1>3. CASE ReconcileServerCredentials
  <2>1. /\ UNCHANGED <<children, queue>> /\ JobOK' /\ RestOK' /\ job.pc = "ensureUser" /\ job' \in Job
        /\ UNCHANGED backup \/ WriteBackup(job.b, job'.obj)
    BY <1>3, CredentialsReconciled, Zenon
  <2>2. job.b \in Backup
    <3>1. job.pc # "idle"
      BY <2>1
    <3> QED
      BY <3>1, JobFacts, Zenon
  <2>3. job'.obj \in BackupVersion
    BY <2>1, Zenon DEF Job, BackupVersion
  <2>4. StreamsOK'
    BY <1>t, <2>1, <2>2, <2>3, BackupWritten, Zenon DEF StreamsOK, children
  <2> QED
    BY <1>t, <2>1, <2>4, TypeParts1, Zenon
<1>4. CASE ReconcileConfigMap
  <2>1. /\ UNCHANGED <<backup, cron, queue>> /\ JobOK' /\ RestOK'
        /\ config' \in [Repo -> Streams(ConfigMapVersion)] /\ orphans' \subseteq Child
    BY <1>4, ConfigMapReconciled, Zenon
  <2>2. StreamsOK'
    BY <1>t, <2>1, ZenonT(60) DEF StreamsOK
  <2> QED
    BY <1>t, <2>1, <2>2, TypeParts1, Zenon
<1>5. CASE ReconcileCronJob
  <2>1. /\ UNCHANGED <<backup, config, queue>> /\ JobOK' /\ RestOK'
        /\ cron' \in [PVC -> Streams(CronJobVersion)] /\ orphans' \subseteq Child
    BY <1>5, CronJobReconciled, Zenon
  <2>2. StreamsOK'
    BY <1>t, <2>1, Zenon DEF StreamsOK
  <2> QED
    BY <1>t, <2>1, <2>2, TypeParts1, Zenon
<1>6. CASE UpdateStatus
  <2>1. /\ UNCHANGED <<children, envVars>> /\ job.pc = "status"
        /\ JobOK' /\ RestOK' /\ queue' \subseteq Backup
        /\ UNCHANGED backup \/ WriteBackup(job.b, job.obj)
    BY <1>6, StatusUpdated, Zenon
  <2>2. job.b \in Backup /\ job.obj \in BackupVersion
    <3>1. job.pc # "idle"
      BY <2>1
    <3> QED
      BY <3>1, JobFacts, Zenon DEF BackupVersion
  <2>3. StreamsOK'
    BY <1>t, <2>1, <2>2, BackupWritten, Zenon DEF StreamsOK, children
  <2> QED
    BY <2>1, <2>3, TypeParts1, Zenon
<1> QED
  BY <1>1, <1>2, <1>3, <1>4, <1>5, <1>6, FinalizerTypes, Zenon DEF Reconcile

\* Pods, PVCs and repositories change; backups that use them are enqueued.
LEMMA SurroundingsTypes ==
    ASSUME TypeOK,
           \/ \E p \in PVC : ChangePVC(p)
           \/ \E ns \in Namespace, r \in Repo, s \in Setting \cup {Nil} : ChangeRepository(ns, r, s)
           \/ \E q \in Pod : RunPod(q) \/ CreatePod(q) \/ EndPod(q) \/ DeletePod(q)
           \/ \E q \in Pod, place \in Place : SchedulePod(q, place)
    PROVE  TypeOK' /\ UNCHANGED <<backup, children, job>>
<1>t. JobOK /\ StreamsOK /\ RestOK /\ queue \subseteq Backup
  BY TypeParts, Zenon
<1>r. /\ repos \in [Namespace \X Repo -> Setting \cup {Nil}] /\ pvcs \subseteq PVC
      /\ pods \in [Pod -> PodObj \cup {Nil}] /\ faults \in 0 .. MaxFaults /\ edits \in 0 .. MaxEdits
  BY <1>t, Zenon DEF RestOK
<1>e. ASSUME NEW kind, Edit(kind) PROVE edits' \in 0 .. MaxEdits
  BY <1>e, <1>r, ConstantsAssumption DEF Edit
<1>q. /\ \A p \in PVC : BackupsForPVC(p) \subseteq Backup
      /\ \A ns \in Namespace, r \in Repo : EnqueuedForRepo(ns, r) \subseteq Backup
  BY Zenon DEF BackupsForPVC, EnqueuedForRepo, BackupsForRepo
<1> SUFFICES UNCHANGED <<backup, children, job>> /\ RestOK' /\ queue' \subseteq Backup
  <2>1. ASSUME UNCHANGED <<backup, children, job>> PROVE JobOK' /\ StreamsOK'
    BY <1>t, <2>1, Zenon DEF JobOK, StreamsOK, children
  <2> QED
    BY <2>1, TypeParts1, Zenon
<1>1. ASSUME NEW p \in PVC, ChangePVC(p)
      PROVE  UNCHANGED <<backup, children, job>> /\ RestOK' /\ queue' \subseteq Backup
  <2>1. /\ Edit("pvc") /\ UNCHANGED <<backup, children, repos, pods, job, faults>>
        /\ pvcs' = pvcs \ {p} \/ pvcs' = pvcs \cup {p}
        /\ queue' = queue \cup BackupsForPVC(p)
    BY <1>1, Zenon DEF ChangePVC
  <2>2. pvcs' \subseteq PVC /\ edits' \in 0 .. MaxEdits /\ queue' \subseteq Backup
    BY <1>r, <1>t, <1>e, <1>q, <2>1, Zenon
  <2> QED
    BY <1>r, <2>1, <2>2, Zenon DEF RestOK
<1>2. ASSUME NEW ns \in Namespace, NEW r \in Repo, NEW s \in Setting \cup {Nil}, ChangeRepository(ns, r, s)
      PROVE  UNCHANGED <<backup, children, job>> /\ RestOK' /\ queue' \subseteq Backup
  <2>1. /\ Edit("repo") /\ UNCHANGED <<backup, children, pvcs, pods, job, faults>>
        /\ repos' = [repos EXCEPT ![<<ns, r>>] = s] /\ queue' = queue \cup EnqueuedForRepo(ns, r)
    BY <1>2, Zenon DEF ChangeRepository
  <2>2. edits' \in 0 .. MaxEdits /\ queue' \subseteq Backup
    BY <1>t, <1>e, <1>q, <2>1, Zenon
  <2>3. repos' \in [Namespace \X Repo -> Setting \cup {Nil}]
    BY <1>r, <2>1, Zenon
  <2> QED
    BY <1>r, <2>1, <2>2, <2>3, Zenon DEF RestOK
<1>3. ASSUME NEW q \in Pod, NEW v \in PodObj \cup {Nil}, ChangePod(q, v), edits' \in 0 .. MaxEdits
      PROVE  UNCHANGED <<backup, children, job>> /\ RestOK' /\ queue' \subseteq Backup
  <2>1. /\ pods' = [pods EXCEPT ![q] = v] /\ UNCHANGED <<backup, children, repos, pvcs, job, faults>>
        /\ queue' = queue \cup BackupsForPVC(Mounts[q]) \/ queue' = queue
    BY <1>3, Zenon DEF ChangePod
  <2>2. Mounts[q] \in PVC
    BY ConstantsAssumption, Zenon
  <2>3. queue' \subseteq Backup
    BY <1>t, <1>q, <2>1, <2>2, Zenon
  <2>4. pods' \in [Pod -> PodObj \cup {Nil}]
    BY <1>r, <2>1, Zenon
  <2> QED
    BY <1>3, <1>r, <2>1, <2>3, <2>4, ZenonT(60) DEF RestOK
<1>4. ASSUME NEW q \in Pod, RunPod(q) \/ CreatePod(q) \/ EndPod(q) \/ DeletePod(q)
      PROVE  UNCHANGED <<backup, children, job>> /\ RestOK' /\ queue' \subseteq Backup
  <2>1. CASE RunPod(q)
    <3>1. pods[q] \in PodObj /\ ChangePod(q, [pods[q] EXCEPT !.phase = "Running"]) /\ edits' = edits
      BY <1>r, <2>1, Zenon DEF RunPod
    <3>2. [pods[q] EXCEPT !.phase = "Running"] \in PodObj \cup {Nil}
      BY <3>1, Zenon DEF PodObj, PodPhase
    <3> QED
      BY <1>3, <1>r, <3>1, <3>2, Zenon
  <2>2. CASE CreatePod(q)
    <3>1. ChangePod(q, [place |-> Nil, phase |-> "Pending"]) /\ Edit("pod")
      BY <2>2, Zenon DEF CreatePod
    <3>2. [place |-> Nil, phase |-> "Pending"] \in PodObj \cup {Nil}
      BY Zenon DEF PodObj, PodPhase
    <3> QED
      BY <1>3, <1>e, <3>1, <3>2, Zenon
  <2>3. CASE EndPod(q)
    <3>1. pods[q] \in PodObj /\ ChangePod(q, [pods[q] EXCEPT !.phase = "Ended"]) /\ Edit("pod")
      BY <1>r, <2>3, Zenon DEF EndPod
    <3>2. [pods[q] EXCEPT !.phase = "Ended"] \in PodObj \cup {Nil}
      BY <3>1, Zenon DEF PodObj, PodPhase
    <3> QED
      BY <1>3, <1>e, <3>1, <3>2, Zenon
  <2>4. CASE DeletePod(q)
    <3>1. ChangePod(q, Nil) /\ Edit("pod")
      BY <2>4, Zenon DEF DeletePod
    <3> QED
      BY <1>3, <1>e, <3>1, Zenon
  <2> QED
    BY <1>4, <2>1, <2>2, <2>3, <2>4
<1>5. ASSUME NEW q \in Pod, NEW place \in Place, SchedulePod(q, place)
      PROVE  UNCHANGED <<backup, children, job>> /\ RestOK' /\ queue' \subseteq Backup
  <2>1. pods[q] \in PodObj /\ ChangePod(q, [pods[q] EXCEPT !.place = place]) /\ edits' = edits
    BY <1>5, <1>r, Zenon DEF SchedulePod
  <2>2. [pods[q] EXCEPT !.place = place] \in PodObj \cup {Nil}
    BY <2>1, Zenon DEF PodObj
  <2> QED
    BY <1>3, <1>r, <2>1, <2>2, Zenon
<1> QED
  BY <1>1, <1>2, <1>4, <1>5, Zenon

\* What another client makes of a backup: a new one, one with a new plan in a
\* new generation, the same one being deleted, or none.
Written(b, v) ==
    \/ Cur(b) # Nil /\ ~Cur(b).deleting /\ ~Cur(b).fin /\ v = Nil
    \/ Cur(b) = Nil /\ \E plan \in Plan : v = NewBackup(plan)
    \/ Cur(b) # Nil /\ \E plan \in Plan : v = [Cur(b) EXCEPT !.plan = plan, !.gen = @ + 1]
    \/ Cur(b) # Nil /\ ~Cur(b).deleting /\ Cur(b).fin /\ v = [Cur(b) EXCEPT !.deleting = TRUE]

LEMMA WrittenType ==
    ASSUME TypeOK, NEW b \in Backup, NEW v, Written(b, v)
    PROVE  v \in BackupVersion
<1>1. CASE v = Nil
  BY <1>1, Zenon DEF BackupVersion
<1>2. ASSUME NEW plan \in Plan, v = NewBackup(plan) PROVE v \in BackupVersion
  BY <1>2 DEF BackupVersion, NewBackup, BackupObj, NoStatus, Status, Reason
<1>3. ASSUME Cur(b) # Nil, NEW plan \in Plan, v = [Cur(b) EXCEPT !.plan = plan, !.gen = @ + 1]
      PROVE  v \in BackupVersion
  <2>1. Cur(b) \in BackupObj
    BY <1>3, HeldTypes, Zenon
  <2>2. Cur(b).gen \in Nat
    BY <2>1, Zenon DEF BackupObj
  <2>3. Cur(b).gen + 1 \in Nat
    BY <2>2
  <2> QED
    BY <1>3, <2>1, <2>3, ZenonT(60) DEF BackupObj, BackupVersion
<1>4. CASE Cur(b) # Nil /\ v = [Cur(b) EXCEPT !.deleting = TRUE]
  <2>1. Cur(b) \in BackupObj
    BY <1>4, HeldTypes, Zenon
  <2> QED
    BY <1>4, <2>1, ZenonT(60) DEF BackupObj, BackupVersion
<1> QED
  BY <1>1, <1>2, <1>3, <1>4, Zenon DEF Written

LEMMA OthersWrite ==
    ASSUME TypeOK, NEW b \in Backup,
           DeleteBackup(b) \/ \E plan \in Plan : CreateBackup(b, plan) \/ SetPlan(b, plan)
    PROVE  TypeOK' /\ \E v : Written(b, v) /\ OtherWrite(b, v)
<1> DEFINE Claim == \E v : /\ Written(b, v) /\ OtherWrite(b, v) /\ (UNCHANGED orphans \/ Orphan(b))
                          /\ \E kind \in {"create", "plan", "delete"} : Edit(kind)
<1>1. Claim
  <2>1. CASE DeleteBackup(b)
    BY <2>1, Zenon DEF DeleteBackup, Written
  <2>2. ASSUME NEW plan \in Plan, CreateBackup(b, plan) PROVE Claim
    BY <2>2, Zenon DEF CreateBackup, Written
  <2>3. ASSUME NEW plan \in Plan, SetPlan(b, plan) PROVE Claim
    BY <2>3, Zenon DEF SetPlan, Written
  <2> QED
    BY <2>1, <2>2, <2>3, Zenon
<1>2. PICK v : /\ Written(b, v) /\ OtherWrite(b, v) /\ (UNCHANGED orphans \/ Orphan(b))
               /\ \E kind \in {"create", "plan", "delete"} : Edit(kind)
  BY <1>1, Zenon
<1>3. v \in BackupVersion
  BY <1>2, WrittenType, Zenon
<1>4. WriteBackup(b, v) /\ Invalidate(b) /\ UNCHANGED <<cron, config, envVars, queue, faults>>
  BY <1>2, Zenon DEF OtherWrite
<1>5. backup' \in [Backup -> Streams(BackupVersion)]
  BY <1>3, <1>4, BackupWritten, Zenon
<1>6. JobOK'
  BY <1>4, Invalidated, Zenon
<1>7. RestOK'
  BY <1>2, <1>4, Spent, Zenon DEF EditKind
<1>t. JobOK /\ StreamsOK /\ RestOK /\ queue \subseteq Backup
  BY TypeParts, Zenon
<1>8. orphans' \subseteq Child
  BY <1>2, <1>t, OrphanType, Zenon DEF StreamsOK
<1>9. StreamsOK'
  BY <1>t, <1>4, <1>5, <1>8, Zenon DEF StreamsOK
<1>10. TypeOK'
  BY <1>t, <1>4, <1>6, <1>7, <1>9, TypeParts1, ZenonT(60)
<1> QED
  BY <1>2, <1>10, Zenon

\* The informers, the collector, the worker's queue and a restart; a CronJob
\* stays as it is or goes.
LEMMA MachineryTypes ==
    ASSUME TypeOK,
           \/ \E b \in Backup : DeliverBackup(b) \/ Resync(b)
           \/ \E p \in PVC : DeliverCronJob(p) \/ DeleteCronJob(p)
           \/ \E r \in Repo : DeliverConfigMap(r) \/ DeleteConfigMap(r)
           \/ \E child \in Child : CollectGarbage(child)
           \/ Restart
    PROVE  /\ TypeOK'
           /\ job' = job \/ job' = IdleJob
           /\ \A b \in Backup : Cur(b)' = Cur(b) /\ Versions(backup'[b]) \subseteq Versions(backup[b])
           /\ \A p \in PVC : CurCron(p)' = CurCron(p) \/ CurCron(p)' = Nil
<1>t. JobOK /\ StreamsOK /\ RestOK /\ queue \subseteq Backup
  BY TypeParts, Zenon
<1>n. Nil \in CronJobVersion /\ Nil \in ConfigMapVersion
  BY Zenon DEF CronJobVersion, ConfigMapVersion
<1>b. ASSUME UNCHANGED backup
      PROVE  \A b \in Backup : Cur(b)' = Cur(b) /\ Versions(backup'[b]) \subseteq Versions(backup[b])
  BY <1>b, Zenon DEF Cur
<1>c. ASSUME UNCHANGED cron PROVE \A p \in PVC : CurCron(p)' = CurCron(p)
  BY <1>c, Zenon DEF CurCron
<1>j. ASSUME UNCHANGED job PROVE JobOK'
  BY <1>j, <1>t, Zenon DEF JobOK
<1>s. ASSUME UNCHANGED <<envVars, budgets>> PROVE RestOK'
  BY <1>s, Spent, Zenon
<1> DEFINE Goal == /\ TypeOK'
                   /\ job' = job \/ job' = IdleJob
                   /\ \A b \in Backup : /\ Cur(b)' = Cur(b)
                                        /\ Versions(backup'[b]) \subseteq Versions(backup[b])
                   /\ \A p \in PVC : CurCron(p)' = CurCron(p) \/ CurCron(p)' = Nil
<1>1. ASSUME NEW b \in Backup, DeliverBackup(b) PROVE Goal
  <2>1. UNCHANGED <<children, envVars, job, budgets>>
    BY <1>1, Zenon DEF DeliverBackup
  <2>2. /\ backup' \in [Backup -> Streams(BackupVersion)] /\ queue' \subseteq Backup
        /\ \A c \in Backup : Cur(c)' = Cur(c) /\ Versions(backup'[c]) \subseteq Versions(backup[c])
    BY <1>1, BackupDelivered, Zenon
  <2>3. StreamsOK'
    BY <1>t, <2>1, <2>2, Zenon DEF StreamsOK, children
  <2> QED
    BY <1>c, <1>j, <1>s, <2>1, <2>2, <2>3, TypeParts1, ZenonT(60) DEF children
<1>2. ASSUME NEW b \in Backup, Resync(b) PROVE Goal
  <2>1. UNCHANGED <<backup, children, envVars, job, budgets>> /\ queue' \subseteq Backup
    BY <1>2, <1>t, Zenon DEF Resync
  <2>2. StreamsOK'
    BY <1>t, <2>1, Zenon DEF StreamsOK, children
  <2> QED
    BY <1>b, <1>c, <1>j, <1>s, <2>1, <2>2, TypeParts1, ZenonT(60) DEF children
<1>3. ASSUME NEW p \in PVC, DeliverCronJob(p) PROVE Goal
  <2>1. UNCHANGED <<backup, config, orphans, envVars, job, budgets>>
    BY <1>3, Zenon DEF DeliverCronJob
  <2>2. /\ cron' \in [PVC -> Streams(CronJobVersion)] /\ queue' \subseteq Backup
        /\ \A c \in PVC : CurCron(c)' = CurCron(c)
    BY <1>3, CronDelivered, Zenon
  <2>3. StreamsOK'
    BY <1>t, <2>1, <2>2, Zenon DEF StreamsOK
  <2> QED
    BY <1>b, <1>j, <1>s, <2>1, <2>2, <2>3, TypeParts1, ZenonT(60)
<1>4. ASSUME NEW r \in Repo, DeliverConfigMap(r) PROVE Goal
  <2>1. UNCHANGED <<backup, cron, orphans, envVars, job, budgets>>
    BY <1>4, Zenon DEF DeliverConfigMap
  <2>2. config' \in [Repo -> Streams(ConfigMapVersion)] /\ queue' \subseteq Backup
    BY <1>4, ConfigDelivered, Zenon
  <2>3. StreamsOK'
    BY <1>t, <2>1, <2>2, Zenon DEF StreamsOK
  <2> QED
    BY <1>b, <1>c, <1>j, <1>s, <2>1, <2>2, <2>3, TypeParts1, ZenonT(60)
<1>5. ASSUME NEW p \in PVC, WriteCron(p, Nil), UNCHANGED <<backup, queue, job>>, RestOK' PROVE Goal
  <2>1. /\ cron' \in [PVC -> Streams(CronJobVersion)] /\ config' = config /\ orphans' \subseteq Child
        /\ CurCron(p)' = Nil /\ \A q \in PVC : q # p => CurCron(q)' = CurCron(q)
    BY <1>5, <1>n, CronWritten, Zenon
  <2>2. StreamsOK'
    BY <1>t, <1>5, <2>1, Zenon DEF StreamsOK
  <2> QED
    BY <1>5, <1>t, <1>b, <1>j, <2>1, <2>2, TypeParts1, ZenonT(60)
<1>6. ASSUME NEW r \in Repo, WriteConfig(r, Nil), UNCHANGED <<backup, queue, job>>, RestOK' PROVE Goal
  <2>1. config' \in [Repo -> Streams(ConfigMapVersion)] /\ cron' = cron /\ orphans' \subseteq Child
    BY <1>6, <1>n, ConfigWritten, Zenon
  <2>2. StreamsOK'
    BY <1>t, <1>6, <2>1, Zenon DEF StreamsOK
  <2> QED
    BY <1>6, <1>t, <1>b, <1>c, <1>j, <2>1, <2>2, TypeParts1, ZenonT(60)
<1>7. ASSUME NEW p \in PVC, DeleteCronJob(p) PROVE Goal
  <2>1. Edit("cronJob") /\ WriteCron(p, Nil) /\ UNCHANGED <<backup, envVars, queue, job, faults>>
    BY <1>7, Zenon DEF DeleteCronJob
  <2>2. RestOK'
    BY <2>1, Spent, Zenon DEF EditKind
  <2> QED
    BY <1>5, <2>1, <2>2, Zenon
<1>8. ASSUME NEW r \in Repo, DeleteConfigMap(r) PROVE Goal
  <2>1. Edit("configMap") /\ WriteConfig(r, Nil) /\ UNCHANGED <<backup, envVars, queue, job, faults>>
    BY <1>8, Zenon DEF DeleteConfigMap
  <2>2. RestOK'
    BY <2>1, Spent, Zenon DEF EditKind
  <2> QED
    BY <1>6, <2>1, <2>2, Zenon
<1>9. ASSUME NEW child \in Child, CollectGarbage(child) PROVE Goal
  <2>1. /\ UNCHANGED <<backup, envVars, queue, job, budgets>>
        /\ \/ child[1] = "cronJob" /\ WriteCron(child[2], Nil)
           \/ child[1] = "configMap" /\ WriteConfig(child[2], Nil)
    BY <1>9, Zenon DEF CollectGarbage
  <2>2. /\ child[1] = "cronJob" => child[2] \in PVC
        /\ child[1] = "configMap" => child[2] \in Repo
    BY DEF Child
  <2> QED
    BY <1>5, <1>6, <1>s, <2>1, <2>2, ZenonT(60)
<1>10. CASE Restart
  <2>1. /\ Fault("crash") /\ job' = IdleJob /\ queue' \subseteq Backup
        /\ UNCHANGED <<backup, children, envVars, edits>>
    BY <1>10, Zenon DEF Restart
  <2>2. RestOK'
    BY <2>1, Spent, ZenonT(60) DEF FaultKind
  <2>3. JobOK'
    BY <2>1 DEF JobOK, IdleJob
  <2>4. StreamsOK'
    BY <1>t, <2>1, Zenon DEF StreamsOK, children
  <2> QED
    BY <1>b, <1>c, <2>1, <2>2, <2>3, <2>4, TypeParts1, ZenonT(60) DEF children
<1> QED
  BY <1>1, <1>2, <1>3, <1>4, <1>7, <1>8, <1>9, <1>10, ZenonT(60)

LEMMA PlacementTypeStep == TypeOK /\ [Next]_vars => TypeOK'
<1> SUFFICES ASSUME TypeOK, [Next]_vars PROVE TypeOK'
  OBVIOUS
<1>1. CASE Reconcile
  BY <1>1, ReconcileTypes, Zenon
<1>2. CASE Environment
  BY <1>2, SurroundingsTypes, MachineryTypes, OthersWrite, ZenonT(60) DEF Environment
<1>3. CASE UNCHANGED vars
  BY <1>3, Zenon DEF vars, children, envVars, budgets, TypeOK
<1> QED
  BY <1>1, <1>2, <1>3, Zenon DEF Next

\* In every state the variables have their types: what the operator writes is
\* a well-formed object of its kind, whatever copies it was made from, and a
\* reconcile that writes has a repository in hand.
THEOREM PlacementTypeCorrect == Spec => []TypeOK
  BY PlacementInitType, PlacementTypeStep, PTL DEF Spec
-----------------------------------------------------------------------------
(***************************************************************************)
(* The Ready condition does not run ahead of the CronJob                   *)
(***************************************************************************)
PlacedInv == SeenInv /\ SettledInv /\ FreshInv

LEMMA PlacedHolds == PlacedInv => ReadyIsCurrent
  BY Zenon DEF PlacedInv, SettledInv, ReadyIsCurrent

LEMMA PlacedInit == Init => PlacedInv
<1> SUFFICES ASSUME Init PROVE PlacedInv
  OBVIOUS
<1>1. PICK plan \in Plan \ Suspended : backup = [b \in Backup |-> <<NewBackup(plan)>>]
  BY Zenon DEF Init
<1>2. NewBackup(plan).st = NoStatus /\ NewBackup(plan).gen = 1 /\ NoStatus.ready = "None"
      /\ NoStatus.seen = 0
  BY DEF NewBackup, NoStatus
<1>3. \A b \in Backup : /\ Cur(b) = NewBackup(plan)
                        /\ \A v \in Versions(backup[b]) : v = NewBackup(plan)
  BY <1>1 DEF Cur, Current, Versions
<1>4. job = IdleJob
  BY Zenon DEF Init
<1>5. ~Told(NewBackup(plan))
  BY <1>2 DEF Told
<1>6. SeenInv
  BY <1>2, <1>3, <1>4 DEF SeenInv
<1>7. SettledInv /\ FreshInv
  BY <1>3, <1>4, <1>5, Zenon DEF SettledInv, FreshInv
<1> QED
  BY <1>6, <1>7, Zenon DEF PlacedInv

\* Nothing is written to a backup: the caches catch up, a CronJob goes, the
\* reconcile in progress is lost.
LEMMA QuietKeeps ==
    ASSUME PlacedInv, job' = job \/ job' = IdleJob,
           \A b \in Backup : Cur(b)' = Cur(b) /\ Versions(backup'[b]) \subseteq Versions(backup[b]),
           \A p \in PVC : CurCron(p)' = CurCron(p) \/ CurCron(p)' = Nil,
           job # IdleJob => job.b \in Backup
    PROVE  PlacedInv'
<1>p. PvcOf \in [Backup -> PVC]
  BY ConstantsAssumption, Zenon
<1>1. SeenInv'
  BY Zenon DEF PlacedInv, SeenInv
<1>2. SettledInv'
  <2> SUFFICES ASSUME NEW b \in Backup, Alone(b), Cur(b)' # Nil, Told(Cur(b)')
               PROVE  /\ \A v \in Versions(backup'[b]) : v # Nil /\ v.plan = Cur(b)'.plan
                      /\ job' # IdleJob /\ job'.b = b => job'.obj.plan = Cur(b)'.plan
                      /\ CurCron(PvcOf[b])' # Nil => CurCron(PvcOf[b])'.plan = Cur(b)'.plan
    BY Zenon DEF SettledInv, Alone, Told
  <2>1. /\ SettledInv /\ Cur(b)' = Cur(b) /\ Cur(b) # Nil /\ Told(Cur(b)) /\ PvcOf[b] \in PVC
        /\ Versions(backup'[b]) \subseteq Versions(backup[b])
    BY <1>p, Zenon DEF PlacedInv
  <2>2. /\ \A v \in Versions(backup[b]) : v # Nil /\ v.plan = Cur(b).plan
        /\ job # IdleJob /\ job.b = b => job.obj.plan = Cur(b).plan
        /\ CurCron(PvcOf[b]) # Nil => CurCron(PvcOf[b]).plan = Cur(b).plan
    BY <2>1, Zenon DEF SettledInv
  <2>3. CurCron(PvcOf[b])' = CurCron(PvcOf[b]) \/ CurCron(PvcOf[b])' = Nil
    BY <2>1, Zenon
  <2> QED
    BY <2>1, <2>2, <2>3, Zenon
<1>3. FreshInv'
  <2>1. CASE job' = job
    BY <1>p, <2>1, ZenonT(60) DEF PlacedInv, FreshInv, MyPvc, Alone
  <2>2. CASE job' = IdleJob
    BY <2>2, Zenon DEF FreshInv
  <2> QED
    BY <2>1, <2>2
<1> QED
  BY <1>1, <1>2, <1>3, Zenon DEF PlacedInv

\* The reconcile goes on with its copy of the backup, with the status it had,
\* one that says what is missing, or one that tells of the CronJob written.
LEMMA CopyKeeps ==
    ASSUME TypeOK, PlacedInv, job.pc # "idle", job' # IdleJob, UNCHANGED backup,
           job'.b = job.b, job'.fresh = job.fresh,
           job'.obj.plan = job.obj.plan, job'.obj.gen = job.obj.gen,
           \/ UNCHANGED cron /\ job'.obj.st = job.obj.st
           \/ /\ UNCHANGED cron /\ job'.obj.st.seen = job.obj.gen
              /\ job'.obj.st.ready \in {"PVCNotFound", "RepositoryNotFound"}
           \/ /\ job'.obj.st.seen = job.obj.gen
              /\ Current(cron'[MyPvc]) # Nil /\ Current(cron'[MyPvc]).plan = job.obj.plan
              /\ \A p \in PVC : p # MyPvc => CurCron(p)' = CurCron(p)
    PROVE  PlacedInv'
<1>1. job # IdleJob /\ job.b \in Backup /\ MyPvc \in PVC /\ job.obj.gen \in Nat
  BY JobFacts, Zenon
<1>p. PvcOf \in [Backup -> PVC]
  BY ConstantsAssumption, Zenon
<1>2. SeenInv'
  <2>1. job'.obj.st = job.obj.st \/ job'.obj.st.seen = job.obj.gen
    OBVIOUS
  <2>2. job.obj.st.seen <= job.obj.gen /\ job.obj.gen <= job.obj.gen
    BY <1>1 DEF PlacedInv, SeenInv
  <2>3. job'.obj.st.seen <= job'.obj.gen
    BY <2>1, <2>2, Zenon
  <2> QED
    BY <2>3, ZenonT(60) DEF PlacedInv, SeenInv
<1>3. CASE UNCHANGED cron /\ job'.obj.st = job.obj.st
  <2>1. Told(job.obj)' <=> Told(job.obj)
    BY <1>3, Zenon DEF Told
  <2>2. FreshInv'
    BY <1>1, <1>3, <2>1, ZenonT(60) DEF PlacedInv, FreshInv, MyPvc, CurCron
  <2>3. SettledInv'
    BY <1>1, <1>3, ZenonT(60) DEF PlacedInv, SettledInv, CurCron, Cur
  <2> QED
    BY <1>2, <2>2, <2>3, Zenon DEF PlacedInv
<1>4. CASE UNCHANGED cron /\ job'.obj.st.ready \in {"PVCNotFound", "RepositoryNotFound"}
  <2>1. ~Told(job.obj)'
    BY <1>4 DEF Told
  <2>2. FreshInv'
    BY <1>1, <1>4, <2>1, ZenonT(60) DEF PlacedInv, FreshInv
  <2>3. SettledInv'
    BY <1>1, <1>4, ZenonT(60) DEF PlacedInv, SettledInv, CurCron, Cur
  <2> QED
    BY <1>2, <2>2, <2>3, Zenon DEF PlacedInv
<1>5. CASE /\ Current(cron'[MyPvc]) # Nil /\ Current(cron'[MyPvc]).plan = job.obj.plan
           /\ \A p \in PVC : p # MyPvc => CurCron(p)' = CurCron(p)
  <2>1. MyPvc' = MyPvc /\ CurCron(MyPvc)'.plan = job.obj.plan
    BY <1>5, Zenon DEF MyPvc, CurCron
  <2>2. FreshInv'
    BY <1>1, <2>1, ZenonT(60) DEF PlacedInv, FreshInv
  <2>3. SettledInv'
    <3> SUFFICES ASSUME NEW b \in Backup, Alone(b), Cur(b)' # Nil, Told(Cur(b))'
                 PROVE  /\ \A v \in Versions(backup'[b]) : v # Nil /\ v.plan = Cur(b).plan
                        /\ job'.b = b => job'.obj.plan = Cur(b).plan
                        /\ CurCron(PvcOf[b])' # Nil => CurCron(PvcOf[b])'.plan = Cur(b).plan
      BY Zenon DEF SettledInv, Alone, Cur
    <3>1. Cur(b) # Nil /\ Told(Cur(b))
      BY Zenon DEF Cur, Told
    <3>2. /\ \A v \in Versions(backup[b]) : v # Nil /\ v.plan = Cur(b).plan
          /\ job.b = b => job.obj.plan = Cur(b).plan
          /\ CurCron(PvcOf[b]) # Nil => CurCron(PvcOf[b]).plan = Cur(b).plan
      BY <1>1, <3>1, Zenon DEF PlacedInv, SettledInv
    <3>3. CASE PvcOf[b] = MyPvc
      <4>1. job.b = b
        BY <1>1, <3>3, Zenon DEF Alone, MyPvc
      <4> QED
        BY <1>5, <3>2, <3>3, <4>1, ZenonT(60) DEF CurCron
    <3>4. CASE PvcOf[b] # MyPvc
      BY <1>5, <1>p, <3>2, <3>4, Zenon
    <3> QED
      BY <3>3, <3>4
  <2> QED
    BY <1>2, <2>2, <2>3, Zenon DEF PlacedInv
<1> QED
  BY <1>3, <1>4, <1>5, Zenon

\* A reconcile starts; a copy of a cache that has caught up is current.
LEMMA StartKeeps ==
    ASSUME TypeOK, PlacedInv, NEW b \in Backup, StartReconcile(b)
    PROVE  PlacedInv'
<1>1. UNCHANGED <<backup, children>>
  BY Started, Zenon
<1>2. CASE job' = IdleJob
  BY <1>1, <1>2, Zenon DEF PlacedInv, SeenInv, SettledInv, FreshInv, Cur, CurCron, children
<1> DEFINE o == Cached(backup[b])
<1>3. CASE job' # IdleJob
  <2>1. o \in BackupObj /\ job'.b = b /\ job'.obj = o /\ (job'.fresh <=> CaughtUp(backup[b]))
    BY <1>3, Started, Zenon
  <2>2. o \in Versions(backup[b]) /\ o # Nil
    BY <2>1, HeldTypes, NilAssumption, Zenon
  <2>3. CaughtUp(backup[b]) => o = Cur(b) /\ Versions(backup[b]) = {Cur(b)}
    <3>1. backup[b] \in Streams(BackupVersion)
      BY Zenon DEF TypeOK, BackupVersion
    <3> QED
      BY <3>1, StreamCaughtUp, Zenon DEF Cur
  <2> HIDE DEF o
  <2>4. SeenInv'
    BY <1>1, <2>1, <2>2, Zenon DEF PlacedInv, SeenInv
  <2>5. SettledInv'
    BY <1>1, <2>1, <2>2, ZenonT(60) DEF PlacedInv, SettledInv, Cur, CurCron, children
  <2>6. FreshInv'
    <3> SUFFICES ASSUME CaughtUp(backup[b])
                 PROVE  /\ \A v \in Versions(backup[b]) : v # Nil /\ v.plan = o.plan
                        /\ Alone(b) /\ Told(o) /\ CurCron(PvcOf[b]) # Nil
                           => CurCron(PvcOf[b]).plan = o.plan
      BY <1>1, <2>1, ZenonT(60) DEF FreshInv, MyPvc, CurCron, children
    <3>1. o = Cur(b) /\ Versions(backup[b]) = {Cur(b)}
      BY <2>3
    <3> QED
      BY <2>2, <3>1, Zenon DEF PlacedInv, SettledInv
  <2> QED
    BY <2>4, <2>5, <2>6, Zenon DEF PlacedInv
<1> QED
  BY <1>2, <1>3

\* The operator writes its current copy of a backup, with the status and the
\* plan in hand; a later generation is not one the status tells of.
LEMMA OwnWriteKeeps ==
    ASSUME TypeOK, PlacedInv, job.pc # "idle", job.fresh, NEW v \in BackupObj,
           WriteBackup(job.b, v), UNCHANGED cron,
           v.plan = job.obj.plan, v.st = job.obj.st,
           v.gen = job.obj.gen \/ v.gen = job.obj.gen + 1,
           \/ job' = IdleJob
           \/ job' # IdleJob /\ job'.b = job.b /\ job'.obj = v
    PROVE  PlacedInv'
<1>1. /\ job # IdleJob /\ job.b \in Backup /\ job.obj.gen \in Nat /\ job.obj.st \in Status
  BY JobFacts, ZenonT(60)
<1>2. job.obj.st.seen \in Nat /\ job.obj.st.seen <= job.obj.gen
  BY <1>1 DEF PlacedInv, SeenInv, Status
<1>3. v.st.seen <= v.gen
  BY <1>1, <1>2
<1>4. Told(v) => Told(job.obj)
  <2>1. v.gen = job.obj.gen + 1 => v.st.seen # v.gen
    BY <1>1, <1>2
  <2> QED
    BY <2>1, ZenonT(60) DEF Told
<1>5. ASSUME NEW b \in Backup, b = job.b
      PROVE  /\ Cur(b)' = v /\ Versions(backup'[b]) \subseteq Versions(backup[b]) \cup {v}
             /\ \A c \in Backup : c # b => backup'[c] = backup[c] /\ Cur(c)' = Cur(c)
  <2>1. WriteBackup(b, v) /\ v \in BackupVersion
    BY <1>5, Zenon DEF BackupVersion
  <2> QED
    BY <2>1, BackupWritten, Zenon
<1>6. /\ \A u \in Versions(backup[job.b]) : u # Nil /\ u.plan = v.plan
      /\ Alone(job.b) /\ Told(v) /\ CurCron(PvcOf[job.b]) # Nil => CurCron(PvcOf[job.b]).plan = v.plan
  BY <1>1, <1>4, Zenon DEF PlacedInv, FreshInv, MyPvc
<1>n. v # Nil
  BY NilAssumption, Zenon
<1>7. SeenInv'
  BY <1>1, <1>3, <1>5, ZenonT(60) DEF PlacedInv, SeenInv
<1>8. SettledInv'
  <2> SUFFICES ASSUME NEW b \in Backup, Alone(b), Cur(b)' # Nil, Told(Cur(b)')
               PROVE  /\ \A u \in Versions(backup'[b]) : u # Nil /\ u.plan = Cur(b)'.plan
                      /\ job' # IdleJob /\ job'.b = b => job'.obj.plan = Cur(b)'.plan
                      /\ CurCron(PvcOf[b]) # Nil => CurCron(PvcOf[b]).plan = Cur(b)'.plan
    BY Zenon DEF SettledInv, Alone, Told, CurCron
  <2>1. CASE b = job.b
    BY <1>5, <1>6, <1>n, <2>1, ZenonT(60)
  <2>2. CASE b # job.b
    <3>1. backup'[b] = backup[b] /\ Cur(b)' = Cur(b)
      BY <1>1, <1>5, <2>2, ZenonT(60)
    <3>2. SettledInv /\ Cur(b) # Nil /\ Told(Cur(b))
      BY <3>1, Zenon DEF PlacedInv
    <3>3. /\ \A u \in Versions(backup[b]) : u # Nil /\ u.plan = Cur(b).plan
          /\ CurCron(PvcOf[b]) # Nil => CurCron(PvcOf[b]).plan = Cur(b).plan
      BY <3>2, Zenon DEF SettledInv
    <3>4. ~(job' # IdleJob /\ job'.b = b)
      BY <2>2, Zenon
    <3> QED
      BY <3>1, <3>3, <3>4
  <2> QED
    BY <2>1, <2>2
<1>9. FreshInv'
  BY <1>1, <1>5, <1>6, <1>n, ZenonT(60) DEF FreshInv, MyPvc, CurCron
<1> QED
  BY <1>7, <1>8, <1>9, Zenon DEF PlacedInv

\* The operator removes a backup's finalizer and with it the backup.
LEMMA RemovalKeeps ==
    ASSUME TypeOK, PlacedInv, job.pc # "idle", WriteBackup(job.b, Nil), UNCHANGED cron,
           job' = IdleJob
    PROVE  PlacedInv'
<1>1. job.b \in Backup /\ Nil \in BackupVersion
  BY JobFacts, Zenon DEF BackupVersion
<1>2. ASSUME NEW b \in Backup, b = job.b
      PROVE  /\ Cur(b)' = Nil /\ Versions(backup'[b]) \subseteq Versions(backup[b]) \cup {Nil}
             /\ \A c \in Backup : c # b => backup'[c] = backup[c] /\ Cur(c)' = Cur(c)
  <2>1. WriteBackup(b, Nil)
    BY <1>2, Zenon
  <2> QED
    BY <1>1, <2>1, BackupWritten, Zenon
<1>3. SeenInv'
  BY <1>1, <1>2, ZenonT(60) DEF PlacedInv, SeenInv
<1>4. SettledInv'
  <2> SUFFICES ASSUME NEW c \in Backup, Alone(c), Cur(c)' # Nil, Told(Cur(c)')
               PROVE  /\ \A u \in Versions(backup'[c]) : u # Nil /\ u.plan = Cur(c)'.plan
                      /\ CurCron(PvcOf[c]) # Nil => CurCron(PvcOf[c]).plan = Cur(c)'.plan
    BY Zenon DEF SettledInv, Alone, Told, CurCron
  <2>1. c # job.b
    BY <1>1, <1>2, Zenon
  <2>2. backup'[c] = backup[c] /\ Cur(c)' = Cur(c)
    BY <1>1, <1>2, <2>1, Zenon
  <2>3. SettledInv /\ Cur(c) # Nil /\ Told(Cur(c))
    BY <2>2, Zenon DEF PlacedInv
  <2>4. /\ \A u \in Versions(backup[c]) : u # Nil /\ u.plan = Cur(c).plan
        /\ CurCron(PvcOf[c]) # Nil => CurCron(PvcOf[c]).plan = Cur(c).plan
    BY <2>3, Zenon DEF SettledInv
  <2> QED
    BY <2>2, <2>4
<1>5. FreshInv'
  BY Zenon DEF FreshInv
<1> QED
  BY <1>3, <1>4, <1>5, Zenon DEF PlacedInv

\* Another client writes a backup: the operator's copy of it is outdated, and
\* a new plan is one the status does not tell of.
LEMMA OthersKeep ==
    ASSUME TypeOK, PlacedInv, NEW b \in Backup, NEW v, Written(b, v), OtherWrite(b, v)
    PROVE  PlacedInv'
<1>1. WriteBackup(b, v) /\ Invalidate(b) /\ UNCHANGED cron
  BY Zenon DEF OtherWrite
<1>2. v \in BackupVersion
  BY WrittenType, Zenon
<1>3. /\ Cur(b)' = v /\ Versions(backup'[b]) \subseteq Versions(backup[b]) \cup {v}
      /\ \A c \in Backup : c # b => backup'[c] = backup[c] /\ Cur(c)' = Cur(c)
  BY <1>1, <1>2, BackupWritten, Zenon
<1>4. /\ job'.b = job.b /\ job'.obj = job.obj /\ (job' = IdleJob <=> job = IdleJob)
      /\ job # IdleJob /\ job.b = b => ~job'.fresh
      /\ ~(job # IdleJob /\ job.b = b) => job' = job
  BY <1>1, Invalidated, Zenon
<1>5. \/ v = Nil
      \/ v.st.seen <= v.gen /\ ~Told(v)
      \/ /\ Cur(b) # Nil /\ v.st.seen <= v.gen /\ v.plan = Cur(b).plan
         /\ Told(v) => Told(Cur(b))
  <2>1. ASSUME NEW plan \in Plan, v = NewBackup(plan) PROVE v.st.seen <= v.gen /\ ~Told(v)
    BY <2>1, SMTT(60) DEF NewBackup, NoStatus, Told
  <2>2. ASSUME Cur(b) # Nil
        PROVE  /\ Cur(b) \in BackupObj /\ Cur(b).gen \in Nat /\ Cur(b).st.seen \in Nat
               /\ Cur(b).st.seen <= Cur(b).gen
    <3>1. Cur(b) \in BackupObj /\ Cur(b) \in Versions(backup[b])
      BY <2>2, HeldTypes, Zenon
    <3>2. Cur(b).st.seen <= Cur(b).gen
      BY <2>2, <3>1, Zenon DEF PlacedInv, SeenInv
    <3>3. Cur(b).st \in Status /\ Cur(b).gen \in Nat
      BY <3>1, Zenon DEF BackupObj
    <3>4. Cur(b).st.seen \in Nat
      BY <3>3, Zenon DEF Status
    <3> QED
      BY <3>1, <3>2, <3>3, <3>4
  <2>3. ASSUME Cur(b) # Nil, NEW plan \in Plan, v = [Cur(b) EXCEPT !.plan = plan, !.gen = @ + 1]
        PROVE  v.st.seen <= v.gen /\ ~Told(v)
    <3>1. v.st = Cur(b).st /\ v.gen = Cur(b).gen + 1
      BY <2>2, <2>3, Zenon DEF BackupObj
    <3>2. v.st.seen <= v.gen /\ v.st.seen # v.gen
      BY <2>2, <2>3, <3>1
    <3> QED
      BY <3>2, Zenon DEF Told
  <2>4. ASSUME Cur(b) # Nil, v = [Cur(b) EXCEPT !.deleting = TRUE]
        PROVE  v.st.seen <= v.gen /\ v.plan = Cur(b).plan /\ (Told(v) => Told(Cur(b)))
    <3>1. v.st = Cur(b).st /\ v.gen = Cur(b).gen /\ v.plan = Cur(b).plan
      BY <2>2, <2>4, Zenon DEF BackupObj
    <3> QED
      BY <2>2, <2>4, <3>1, ZenonT(60) DEF Told
  <2> QED
    BY <2>1, <2>3, <2>4, ZenonT(60) DEF Written
<1>6. SeenInv'
  BY <1>3, <1>4, <1>5, ZenonT(60) DEF PlacedInv, SeenInv
<1>7. SettledInv'
  <2> SUFFICES ASSUME NEW c \in Backup, Alone(c), Cur(c)' # Nil, Told(Cur(c)')
               PROVE  /\ \A u \in Versions(backup'[c]) : u # Nil /\ u.plan = Cur(c)'.plan
                      /\ job # IdleJob /\ job.b = c => job.obj.plan = Cur(c)'.plan
                      /\ CurCron(PvcOf[c]) # Nil => CurCron(PvcOf[c]).plan = Cur(c)'.plan
    BY <1>1, <1>4, ZenonT(60) DEF SettledInv, Alone, Told, CurCron
  <2>1. CASE c = b
    <3>1. v # Nil /\ Cur(b) # Nil /\ v.plan = Cur(b).plan /\ Told(Cur(b))
      BY <1>3, <1>5, <2>1, ZenonT(60)
    <3> QED
      BY <1>3, <2>1, <3>1, ZenonT(60) DEF PlacedInv, SettledInv
  <2>2. CASE c # b
    BY <1>3, <2>2, ZenonT(60) DEF PlacedInv, SettledInv
  <2> QED
    BY <2>1, <2>2
<1>8. FreshInv'
  <2>1. CASE job # IdleJob /\ job.b = b
    BY <1>4, <2>1, Zenon DEF FreshInv
  <2>2. CASE job = IdleJob
    BY <1>4, <2>2, Zenon DEF FreshInv
  <2>3. CASE job # IdleJob /\ job.b # b
    <3>1. job' = job /\ job.b \in Backup
      BY <1>4, <2>3, ZenonT(60) DEF TypeOK, Job
    <3> QED
      BY <1>1, <1>3, <2>3, <3>1, ZenonT(60) DEF PlacedInv, FreshInv, MyPvc, CurCron
  <2> QED
    BY <2>1, <2>2, <2>3
<1> QED
  BY <1>6, <1>7, <1>8, Zenon DEF PlacedInv

LEMMA ReconcileKeeps == ASSUME TypeOK, PlacedInv, Reconcile PROVE PlacedInv'
<1>1. ASSUME NEW b \in Backup, StartReconcile(b) PROVE PlacedInv'
  BY <1>1, StartKeeps, Zenon
<1>q. ASSUME job.pc # "idle", job' = IdleJob, UNCHANGED <<backup, cron>> PROVE PlacedInv'
  <2>1. job.b \in Backup
    BY <1>q, JobFacts, Zenon
  <2>2. /\ \A b \in Backup : Cur(b)' = Cur(b) /\ Versions(backup'[b]) \subseteq Versions(backup[b])
        /\ \A p \in PVC : CurCron(p)' = CurCron(p)
    BY <1>q, Zenon DEF Cur, CurCron
  <2> QED
    BY <1>q, <2>1, <2>2, QuietKeeps, ZenonT(60)
<1>2. CASE AddFinalizer
  <2> DEFINE o == [job.obj EXCEPT !.fin = TRUE]
  <2>1. /\ job.pc = "addFin" /\ UNCHANGED cron
        /\ \/ job.fresh /\ WriteBackup(job.b, o) /\ job' = [job EXCEPT !.pc = "validate", !.obj = o]
           \/ job' = IdleJob /\ UNCHANGED backup
    BY <1>2, Zenon DEF AddFinalizer, FinalizerNotWritten, End
  <2>2. job.pc # "idle" /\ "validate" \in Phase
    BY <2>1 DEF Phase
  <2>3. job.obj \in BackupObj /\ o \in BackupObj
    BY <2>2, JobFacts, CopyTypes, Zenon
  <2>4. o.plan = job.obj.plan /\ o.st = job.obj.st /\ o.gen = job.obj.gen
    BY <2>3, Zenon DEF BackupObj
  <2> HIDE DEF o
  <2>5. CASE job.fresh /\ WriteBackup(job.b, o) /\ job' = [job EXCEPT !.pc = "validate", !.obj = o]
    <3>1. job' # IdleJob /\ job'.b = job.b /\ job'.obj = o
      BY <2>2, <2>3, <2>5, GoneOn, ZenonT(60)
    <3> QED
      BY <2>1, <2>2, <2>3, <2>4, <2>5, <3>1, OwnWriteKeeps, ZenonT(60)
  <2>6. CASE job' = IdleJob /\ UNCHANGED backup
    BY <1>q, <2>1, <2>2, <2>6, ZenonT(60)
  <2> QED
    BY <2>1, <2>5, <2>6, Zenon
<1>3. CASE RemoveFinalizer
  <2>1. /\ job.pc = "dropFin" /\ UNCHANGED cron /\ job' = IdleJob
        /\ WriteBackup(job.b, Nil) \/ UNCHANGED backup
    BY <1>3, Zenon DEF RemoveFinalizer, FinalizerNotWritten, End
  <2>2. job.pc # "idle"
    BY <2>1
  <2> QED
    BY <1>q, <2>1, <2>2, RemovalKeeps, ZenonT(60)
<1>4. CASE ValidateDependencies
  <2>1. job.pc = "validate"
    BY <1>4, Zenon DEF ValidateDependencies
  <2>2. job.pc # "idle"
    BY <2>1
  <2> QED
    BY <1>4, <2>2, Validated, CopyKeeps, ZenonT(60) DEF children
<1>5. CASE ReconcileServerCredentials
  <2>1. /\ UNCHANGED cron /\ job.pc = "ensureUser" /\ job' \in Job
        /\ job' # IdleJob /\ job'.b = job.b /\ job'.fresh = job.fresh
        /\ \/ /\ UNCHANGED backup /\ job'.obj.st = job.obj.st
              /\ job'.obj.plan = job.obj.plan /\ job'.obj.gen = job.obj.gen
           \/ /\ job.fresh /\ WriteBackup(job.b, job'.obj)
              /\ job'.obj = [job.obj EXCEPT !.cred = TRUE, !.gen = @ + 1]
    BY <1>5, CredentialsReconciled, Zenon DEF children
  <2>2. job.pc # "idle"
    BY <2>1
  <2>3. job.obj \in BackupObj
    BY <2>2, JobFacts, Zenon
  <2>4. CASE UNCHANGED backup /\ job'.obj.st = job.obj.st
             /\ job'.obj.plan = job.obj.plan /\ job'.obj.gen = job.obj.gen
    BY <2>1, <2>2, <2>4, CopyKeeps, ZenonT(60)
  <2>5. CASE job.fresh /\ WriteBackup(job.b, job'.obj)
             /\ job'.obj = [job.obj EXCEPT !.cred = TRUE, !.gen = @ + 1]
    <3> DEFINE v == [job.obj EXCEPT !.cred = TRUE, !.gen = @ + 1]
    <3>1. v.plan = job.obj.plan /\ v.st = job.obj.st /\ v.gen = job.obj.gen + 1
      BY <2>3, Zenon DEF BackupObj
    <3>2. v \in BackupObj /\ job'.obj = v /\ WriteBackup(job.b, v)
      <4>1. v \in BackupObj
        BY <2>2, CopyTypes, Zenon
      <4> QED
        BY <2>5, <4>1, Zenon
    <3> HIDE DEF v
    <3> QED
      BY <2>1, <2>2, <2>5, <3>1, <3>2, OwnWriteKeeps, ZenonT(60)
  <2> QED
    BY <2>1, <2>4, <2>5, Zenon
<1>6. CASE ReconcileConfigMap
  <2>1. job.pc = "configMap"
    BY <1>6, Zenon DEF ReconcileConfigMap
  <2>2. job.pc # "idle"
    BY <2>1
  <2> QED
    BY <1>6, <2>2, ConfigMapReconciled, CopyKeeps, ZenonT(60)
<1>7. CASE ReconcileCronJob
  <2>1. job.pc = "cronJob"
    BY <1>7, Zenon DEF ReconcileCronJob
  <2>2. job.pc # "idle"
    BY <2>1
  <2> QED
    BY <1>7, <2>2, CronJobReconciled, CopyKeeps, ZenonT(60)
<1>8. CASE UpdateStatus
  <2>1. /\ UNCHANGED cron /\ job.pc = "status" /\ job' = IdleJob
        /\ UNCHANGED backup \/ (job.fresh /\ WriteBackup(job.b, job.obj))
    BY <1>8, StatusUpdated, Zenon DEF children
  <2>2. job.pc # "idle"
    BY <2>1
  <2>3. job.obj \in BackupObj
    BY <2>2, JobFacts, Zenon
  <2> QED
    BY <1>q, <2>1, <2>2, <2>3, OwnWriteKeeps, ZenonT(60)
<1> QED
  BY <1>1, <1>2, <1>3, <1>4, <1>5, <1>6, <1>7, <1>8, ZenonT(60) DEF Reconcile

LEMMA PlacedStep == TypeOK /\ PlacedInv /\ [Next]_vars => PlacedInv'
<1> SUFFICES ASSUME TypeOK, PlacedInv, [Next]_vars PROVE PlacedInv'
  OBVIOUS
<1>j. job # IdleJob => job.b \in Backup
  BY Zenon DEF TypeOK, Job
<1>1. CASE Reconcile
  BY <1>1, ReconcileKeeps, Zenon
<1>s. ASSUME UNCHANGED <<backup, children, job>> PROVE PlacedInv'
  <2>1. /\ \A b \in Backup : Cur(b)' = Cur(b) /\ Versions(backup'[b]) \subseteq Versions(backup[b])
        /\ \A p \in PVC : CurCron(p)' = CurCron(p)
    BY <1>s, Zenon DEF Cur, CurCron, children
  <2> QED
    BY <1>j, <1>s, <2>1, QuietKeeps, ZenonT(60)
<1>2. CASE Environment
  <2>1. ASSUME NEW b \in Backup,
               DeleteBackup(b) \/ \E plan \in Plan : CreateBackup(b, plan) \/ SetPlan(b, plan)
        PROVE  PlacedInv'
    <3>1. PICK v : Written(b, v) /\ OtherWrite(b, v)
      BY <2>1, OthersWrite, Zenon
    <3> QED
      BY <3>1, OthersKeep, Zenon
  <2>2. ASSUME \/ \E b \in Backup : DeliverBackup(b) \/ Resync(b)
               \/ \E p \in PVC : DeliverCronJob(p) \/ DeleteCronJob(p)
               \/ \E r \in Repo : DeliverConfigMap(r) \/ DeleteConfigMap(r)
               \/ \E child \in Child : CollectGarbage(child)
               \/ Restart
        PROVE  PlacedInv'
    <3>1. /\ job' = job \/ job' = IdleJob
          /\ \A b \in Backup : Cur(b)' = Cur(b) /\ Versions(backup'[b]) \subseteq Versions(backup[b])
          /\ \A p \in PVC : CurCron(p)' = CurCron(p) \/ CurCron(p)' = Nil
      BY <2>2, MachineryTypes, Zenon
    <3> QED
      BY <1>j, <3>1, QuietKeeps, Zenon
  <2>3. ASSUME \/ \E p \in PVC : ChangePVC(p)
               \/ \E ns \in Namespace, r \in Repo, s \in Setting \cup {Nil} : ChangeRepository(ns, r, s)
               \/ \E q \in Pod : RunPod(q) \/ CreatePod(q) \/ EndPod(q) \/ DeletePod(q)
               \/ \E q \in Pod, place \in Place : SchedulePod(q, place)
        PROVE  PlacedInv'
    BY <1>s, <2>3, SurroundingsTypes, Zenon
  <2> QED
    BY <1>2, <2>1, <2>2, <2>3, ZenonT(60) DEF Environment
<1>3. CASE UNCHANGED vars
  BY <1>s, <1>3, Zenon DEF vars
<1> QED
  BY <1>1, <1>2, <1>3, Zenon DEF Next

\* However many backups, PVCs and pods there are, however far the caches lag
\* and whatever fails, a Ready condition of the current generation that tells
\* of the CronJob of a backup's own PVC is never ahead of it: the CronJob, if
\* there is one, has the schedule, limits and suspension of the backup.
THEOREM ReadyStaysCurrent == Spec => []ReadyIsCurrent
<1>1. Init => TypeOK /\ PlacedInv
  BY PlacementInitType, PlacedInit
<1>2. TypeOK /\ PlacedInv /\ [Next]_vars => TypeOK' /\ PlacedInv'
  BY PlacementTypeStep, PlacedStep, ZenonT(60)
<1> QED
  BY <1>1, <1>2, PlacedHolds, PTL DEF Spec
-----------------------------------------------------------------------------
(***************************************************************************)
(* The life of the backups                                                 *)
(***************************************************************************)
Attended(o) == o.cred \/ o.st # NoStatus

\* The phase says where in its life the copy in hand is, and a copy that is
\* current agrees with the API server's; of the status only that it has been
\* written matters.
LifeInv ==
    /\ job.pc = "addFin" => ~job.obj.deleting /\ ~job.obj.fin /\ (job.fresh => Cur(job.b) = job.obj)
    /\ job.pc = "dropFin" => job.obj.deleting
    /\ job.pc \in Working => ~job.obj.deleting /\ job.obj.fin
    /\ job.pc # "idle" /\ job.fresh
       => /\ Cur(job.b) # Nil /\ (Cur(job.b).deleting <=> job.obj.deleting)
          /\ (Cur(job.b).fin <=> job.obj.fin) /\ (Attended(Cur(job.b)) => Attended(job.obj))

Moves == Lifecycle!Next \/ UNCHANGED <<life, attended>>

LEMMA LifeInit == Init => LifeInv
  BY DEF Init, LifeInv, IdleJob, Working

\* A write to a backup moves that backup only, to where the version written is.
LEMMA LifeWritten ==
    ASSUME TypeOK, NEW b \in Backup, NEW v \in BackupVersion, WriteBackup(b, v)
    PROVE  /\ life' = [life EXCEPT ![b] = LifeOf(v)] /\ life[b] = LifeOf(Cur(b))
           /\ attended' = IF v # Nil /\ Attended(v) THEN attended \cup {b} ELSE attended \ {b}
           /\ b \in attended <=> Cur(b) # Nil /\ Attended(Cur(b))
<1>1. Cur(b)' = v /\ \A c \in Backup : c # b => Cur(c)' = Cur(c)
  BY BackupWritten, Zenon
<1>2. life' = [c \in Backup |-> LifeOf(Cur(c)')] /\ life = [c \in Backup |-> LifeOf(Cur(c))]
  BY Zenon DEF life, LifeOf
<1>3. /\ attended' = {c \in Backup : Cur(c)' # Nil /\ Attended(Cur(c)')}
      /\ attended = {c \in Backup : Cur(c) # Nil /\ Attended(Cur(c))}
  BY Zenon DEF attended, Attended
<1>4. life' = [life EXCEPT ![b] = LifeOf(v)] /\ life[b] = LifeOf(Cur(b))
  BY <1>1, <1>2, Zenon
<1>5. CASE v # Nil /\ Attended(v)
  BY <1>1, <1>3, <1>4, <1>5, ZenonT(60)
<1>6. CASE ~(v # Nil /\ Attended(v))
  BY <1>1, <1>3, <1>4, <1>6, Zenon
<1> QED
  BY <1>5, <1>6

\* No backup is written: none moves.
LEMMA LifeStays ==
    ASSUME \A b \in Backup : Cur(b)' = Cur(b)
    PROVE  UNCHANGED <<life, attended>>
<1>1. life' = [c \in Backup |-> LifeOf(Cur(c)')] /\ life = [c \in Backup |-> LifeOf(Cur(c))]
  BY Zenon DEF life, LifeOf
<1>2. /\ attended' = {c \in Backup : Cur(c)' # Nil /\ Attended(Cur(c)')}
      /\ attended = {c \in Backup : Cur(c) # Nil /\ Attended(Cur(c))}
  BY Zenon DEF attended, Attended
<1> QED
  BY <1>1, <1>2, Zenon

\* The reconcile goes on without a write to its backup.
LEMMA CopyLives ==
    ASSUME LifeInv, job.pc \in Working, UNCHANGED backup, job'.pc \in Working,
           job'.b = job.b, job'.fresh = job.fresh, job'.obj.fin = job.obj.fin,
           job'.obj.deleting = job.obj.deleting, job'.obj.cred = job.obj.cred,
           job'.obj.st = job.obj.st \/ job'.obj.st.ready # "None"
    PROVE  LifeInv' /\ Moves
<1>1. job.pc # "idle" /\ job'.pc \notin {"idle", "addFin", "dropFin"}
  BY DEF Working
<1>2. Attended(job.obj) => Attended(job'.obj)
  <2>1. job'.obj.st.ready # "None" => job'.obj.st # NoStatus
    BY DEF NoStatus
  <2> QED
    BY <2>1, ZenonT(60) DEF Attended
<1>3. Cur(job.b)' = Cur(job.b)
  BY Zenon DEF Cur
<1>4. LifeInv'
  BY <1>1, <1>2, <1>3, ZenonT(60) DEF LifeInv, Attended
<1>5. UNCHANGED <<life, attended>>
  BY LifeStays, Zenon DEF Cur
<1> QED
  BY <1>4, <1>5, Zenon DEF Moves

\* A reconcile that has ended, or none.
LEMMA IdleLives ==
    ASSUME job' = IdleJob
    PROVE  LifeInv'
<1>1. job'.pc = "idle"
  BY DEF IdleJob
<1> QED
  BY <1>1 DEF LifeInv, Working

\* A reconcile starts in the phase its copy calls for.
LEMMA StartLives ==
    ASSUME TypeOK, NEW b \in Backup, StartReconcile(b)
    PROVE  LifeInv' /\ Moves
<1> DEFINE o == Cached(backup[b])
<1>1. /\ UNCHANGED backup
      /\ \/ job' = IdleJob
         \/ /\ o \in BackupObj /\ job'.b = b /\ job'.obj = o
            /\ job'.fresh <=> CaughtUp(backup[b])
            /\ job'.pc = FirstPhase(o) /\ job'.pc \in {"dropFin", "validate", "addFin"}
  BY Started, Zenon
<1>2. CaughtUp(backup[b]) => o = Cur(b)
  <2>1. backup[b] \in Streams(BackupVersion)
    BY Zenon DEF TypeOK, BackupVersion
  <2> QED
    BY <2>1, StreamCaughtUp, ZenonT(60) DEF Cur
<1>3. Moves
  BY <1>1, LifeStays, Zenon DEF Moves, Cur
<1>4. CASE job' = IdleJob
  BY <1>3, <1>4, IdleLives, ZenonT(60)
<1> HIDE DEF o
<1>5. CASE job' # IdleJob
  <2>1. /\ o \in BackupObj /\ job'.b = b /\ job'.obj = o /\ (job'.fresh => Cur(b)' = o)
        /\ job'.pc = FirstPhase(o) /\ o # Nil
    BY <1>1, <1>2, <1>5, NilAssumption, ZenonT(60) DEF Cur
  <2>2. /\ FirstPhase(o) = "addFin" => ~o.deleting /\ ~o.fin
        /\ FirstPhase(o) = "dropFin" => o.deleting
        /\ FirstPhase(o) \in Working => ~o.deleting /\ o.fin
    <3>1. o.deleting \in BOOLEAN /\ o.fin \in BOOLEAN
      BY <2>1, Zenon DEF BackupObj
    <3>2. CASE o.deleting /\ o.fin
      BY <3>2, Zenon DEF FirstPhase, Working
    <3>3. CASE o.deleting /\ ~o.fin
      BY <3>3, Zenon DEF FirstPhase, Working
    <3>4. CASE ~o.deleting /\ o.fin
      BY <3>4, Zenon DEF FirstPhase, Working
    <3>5. CASE ~o.deleting /\ ~o.fin
      BY <3>5, Zenon DEF FirstPhase, Working
    <3> QED
      BY <3>1, <3>2, <3>3, <3>4, <3>5, ZenonT(60)
  <2>3. LifeInv'
    BY <2>1, <2>2, ZenonT(60) DEF LifeInv, Attended, Cur
  <2> QED
    BY <1>3, <2>3
<1> QED
  BY <1>4, <1>5

\* The finalizer is added to a bare backup and taken from one being deleted.
LEMMA FinalizerLives ==
    ASSUME TypeOK, LifeInv, AddFinalizer \/ RemoveFinalizer
    PROVE  LifeInv' /\ Moves
<1>1. job.pc \in {"addFin", "dropFin"}
  BY Zenon DEF AddFinalizer, RemoveFinalizer
<1>2. job.pc # "idle" /\ job.b \in Backup /\ job.obj \in BackupObj
  BY <1>1, JobFacts, Zenon
<1>3. CASE job' = IdleJob /\ UNCHANGED backup
  <2>1. UNCHANGED <<life, attended>>
    BY <1>3, LifeStays, Zenon DEF Cur
  <2> QED
    BY <1>3, <2>1, IdleLives, ZenonT(60) DEF Moves
<1>4. CASE AddFinalizer /\ ~(job' = IdleJob /\ UNCHANGED backup)
  <2> DEFINE o == [job.obj EXCEPT !.fin = TRUE]
  <2>1. /\ job.pc = "addFin" /\ job.fresh /\ WriteBackup(job.b, o)
        /\ job' = [job EXCEPT !.pc = "validate", !.obj = o]
    BY <1>4, Zenon DEF AddFinalizer, FinalizerNotWritten, End
  <2>2. /\ o \in BackupObj /\ o.fin /\ o.deleting = job.obj.deleting /\ o.cred = job.obj.cred
        /\ o.st = job.obj.st
    <3>1. o \in BackupObj
      BY <1>2, CopyTypes, Zenon
    <3> QED
      BY <1>2, <3>1, Zenon DEF BackupObj
  <2> HIDE DEF o
  <2>3. "validate" \in Phase /\ "validate" \in Working
    BY DEF Phase, Working
  <2>4. job'.pc = "validate" /\ job'.b = job.b /\ job'.obj = o /\ job'.fresh = job.fresh
    BY <1>2, <2>1, <2>2, <2>3, GoneOn, ZenonT(60)
  <2>5. ~job.obj.deleting /\ ~job.obj.fin /\ Cur(job.b) = job.obj
    BY <2>1, Zenon DEF LifeInv
  <2>6. o \in BackupVersion /\ o # Nil /\ job.obj # Nil
    BY <1>2, <2>2, NilAssumption, ZenonT(60) DEF BackupVersion
  <2>7. ASSUME NEW b \in Backup, b = job.b PROVE Cur(b)' = o /\ Moves
    <3>1. WriteBackup(b, o) /\ Cur(b) = job.obj
      BY <2>1, <2>5, <2>7, ZenonT(60)
    <3>2. Cur(b)' = o
      BY <2>6, <3>1, BackupWritten, Zenon
    <3>3. /\ life' = [life EXCEPT ![b] = LifeOf(o)] /\ life[b] = LifeOf(job.obj)
          /\ attended' = IF o # Nil /\ Attended(o) THEN attended \cup {b} ELSE attended \ {b}
          /\ b \in attended <=> job.obj # Nil /\ Attended(job.obj)
      BY <2>6, <3>1, LifeWritten, ZenonT(60)
    <3>4. LifeOf(o) = "held" /\ LifeOf(job.obj) = "bare"
      BY <2>2, <2>5, <2>6, ZenonT(60) DEF LifeOf
    <3>5. Attended(o) <=> Attended(job.obj)
      BY <2>2, Zenon DEF Attended
    <3>6. attended' = attended
      BY <2>6, <3>3, <3>5, ZenonT(60)
    <3>7. Lifecycle!Hold(b)
      BY <3>3, <3>4, <3>6, ZenonT(60) DEF Lifecycle!Hold, Lifecycle!Becomes
    <3> QED
      BY <3>2, <3>7, Zenon DEF Moves, Lifecycle!Next
  <2>8. Cur(job.b)' = o /\ Moves
    BY <1>2, <2>4, <2>7, ZenonT(60) DEF Cur
  <2>9. LifeInv'
    BY <2>2, <2>3, <2>4, <2>5, <2>6, <2>8, ZenonT(60) DEF LifeInv, Cur
  <2> QED
    BY <2>8, <2>9
<1>5. CASE RemoveFinalizer /\ ~(job' = IdleJob /\ UNCHANGED backup)
  <2>1. job.pc = "dropFin" /\ job.fresh /\ WriteBackup(job.b, Nil) /\ job' = IdleJob
    BY <1>5, Zenon DEF RemoveFinalizer, FinalizerNotWritten, End
  <2>2. Cur(job.b) # Nil /\ Cur(job.b).deleting
    BY <1>2, <2>1, Zenon DEF LifeInv
  <2>3. ASSUME NEW b \in Backup, b = job.b PROVE Moves
    <3>1. WriteBackup(b, Nil) /\ Cur(b) # Nil /\ Cur(b).deleting /\ Nil \in BackupVersion
      BY <2>1, <2>2, <2>3, ZenonT(60) DEF BackupVersion
    <3>2. /\ life' = [life EXCEPT ![b] = LifeOf(Nil)] /\ life[b] = LifeOf(Cur(b))
          /\ attended' = attended \ {b}
      BY <3>1, LifeWritten, Zenon
    <3>3. LifeOf(Nil) = "absent" /\ LifeOf(Cur(b)) = "terminating"
      BY <3>1, Zenon DEF LifeOf
    <3>4. Lifecycle!Release(b)
      BY <3>2, <3>3, Zenon DEF Lifecycle!Release, Lifecycle!Becomes
    <3> QED
      BY <3>4, Zenon DEF Moves, Lifecycle!Next
  <2> QED
    BY <1>2, <2>1, <2>3, IdleLives, ZenonT(60)
<1> QED
  BY <1>3, <1>4, <1>5, ZenonT(60)

\* What the reconcile writes of a held backup is held, and attended if it was.
LEMMA WriteAttends ==
    ASSUME TypeOK, LifeInv, job.pc \in Working, job.fresh, NEW v \in BackupObj, WriteBackup(job.b, v),
           v.fin, ~v.deleting, Attended(job.obj) => Attended(v)
    PROVE  Moves /\ \A b \in Backup : b = job.b => Cur(b)' = v
<1>1. job.pc # "idle"
  BY DEF Working
<1>2. job.b \in Backup /\ v \in BackupVersion /\ v # Nil
  BY <1>1, JobFacts, NilAssumption, Zenon DEF BackupVersion
<1>3. /\ Cur(job.b) # Nil /\ ~Cur(job.b).deleting /\ Cur(job.b).fin
      /\ Attended(Cur(job.b)) => Attended(job.obj)
  BY <1>1, Zenon DEF LifeInv
<1>4. ASSUME NEW b \in Backup, b = job.b PROVE Cur(b)' = v /\ Moves
  <2>1. /\ WriteBackup(b, v) /\ Cur(b) # Nil /\ ~Cur(b).deleting /\ Cur(b).fin
        /\ Attended(Cur(b)) => Attended(v)
    BY <1>3, <1>4, Zenon
  <2>2. Cur(b)' = v
    BY <1>2, <2>1, BackupWritten, Zenon
  <2>3. /\ life' = [life EXCEPT ![b] = LifeOf(v)] /\ life[b] = LifeOf(Cur(b))
        /\ attended' = IF v # Nil /\ Attended(v) THEN attended \cup {b} ELSE attended \ {b}
        /\ b \in attended <=> Cur(b) # Nil /\ Attended(Cur(b))
    BY <1>2, <2>1, LifeWritten, Zenon
  <2>4. LifeOf(v) = "held" /\ LifeOf(Cur(b)) = "held"
    BY <1>2, <2>1, Zenon DEF LifeOf
  <2>5. life' = life
    BY <2>3, <2>4, Zenon DEF life
  <2>6. CASE Attended(v)
    <3>1. Lifecycle!Attend(b)
      BY <1>2, <2>3, <2>4, <2>5, <2>6, ZenonT(60) DEF Lifecycle!Attend
    <3> QED
      BY <2>2, <3>1, Zenon DEF Moves, Lifecycle!Next
  <2>7. CASE ~Attended(v)
    <3>1. attended' = attended
      BY <2>1, <2>3, <2>7, ZenonT(60)
    <3> QED
      BY <2>2, <2>5, <3>1, Zenon DEF Moves
  <2> QED
    BY <2>6, <2>7
<1> QED
  BY <1>2, <1>4, Zenon

\* Other clients create, edit and delete backups as the life cycle has it.
LEMMA OthersLive ==
    ASSUME TypeOK, LifeInv, NEW b \in Backup, NEW v, Written(b, v), OtherWrite(b, v)
    PROVE  LifeInv' /\ Moves
<1>1. WriteBackup(b, v) /\ Invalidate(b)
  BY Zenon DEF OtherWrite
<1>2. v \in BackupVersion
  BY WrittenType, Zenon
<1>3. Cur(b)' = v /\ \A c \in Backup : c # b => Cur(c)' = Cur(c)
  BY <1>1, <1>2, BackupWritten, Zenon
<1>4. /\ job'.pc = job.pc /\ job'.b = job.b /\ job'.obj = job.obj
      /\ job # IdleJob /\ job.b = b => ~job'.fresh
      /\ ~(job # IdleJob /\ job.b = b) => job' = job
  BY <1>1, Invalidated, Zenon
<1>5. LifeInv'
  <2>1. CASE job.pc = "idle"
    BY <1>4, <2>1 DEF LifeInv, Working
  <2>2. CASE job.pc # "idle" /\ job.b = b
    <3>1. ~job'.fresh
      BY <1>4, <2>2, JobFacts, ZenonT(60)
    <3> QED
      BY <1>4, <3>1, Zenon DEF LifeInv
  <2>3. CASE job.pc # "idle" /\ job.b # b
    <3>1. job' = job /\ job.b \in Backup
      BY <1>4, <2>3, JobFacts, ZenonT(60)
    <3>2. Cur(job.b)' = Cur(job.b)
      BY <1>3, <2>3, <3>1, ZenonT(60) DEF Cur
    <3> QED
      BY <3>1, <3>2, Zenon DEF LifeInv, Attended
  <2> QED
    BY <2>1, <2>2, <2>3, ZenonT(60)
<1>6. /\ life' = [life EXCEPT ![b] = LifeOf(v)] /\ life[b] = LifeOf(Cur(b))
      /\ attended' = IF v # Nil /\ Attended(v) THEN attended \cup {b} ELSE attended \ {b}
      /\ b \in attended <=> Cur(b) # Nil /\ Attended(Cur(b))
  BY <1>1, <1>2, LifeWritten, ZenonT(60)
<1>o. Cur(b) # Nil => Cur(b) \in BackupObj
  BY HeldTypes, Zenon
<1>7. ASSUME Cur(b) # Nil, ~Cur(b).deleting, ~Cur(b).fin, v = Nil PROVE Moves
  <2>1. LifeOf(v) = "absent" /\ LifeOf(Cur(b)) = "bare" /\ attended' = attended \ {b}
    BY <1>6, <1>7, Zenon DEF LifeOf
  <2>2. Lifecycle!Delete(b)
    BY <1>6, <2>1, Zenon DEF Lifecycle!Delete, Lifecycle!Becomes
  <2> QED
    BY <2>2, Zenon DEF Moves, Lifecycle!Next
<1>8. ASSUME Cur(b) = Nil, NEW plan \in Plan, v = NewBackup(plan) PROVE Moves
  <2>1. /\ ~v.deleting /\ ~v.fin /\ ~v.cred /\ v.st = NoStatus
    BY <1>8 DEF NewBackup
  <2>n. v # Nil
    <3>1. v \in BackupObj
      BY <1>8 DEF NewBackup, BackupObj, NoStatus, Status, Reason
    <3> QED
      BY <3>1, NilAssumption, ZenonT(60)
  <2>2. LifeOf(v) = "bare" /\ LifeOf(Cur(b)) = "absent" /\ ~Attended(v)
    BY <1>8, <2>1, <2>n, ZenonT(60) DEF LifeOf, Attended
  <2>3. attended' = attended
    BY <1>6, <1>8, <2>2, ZenonT(60)
  <2>4. Lifecycle!Create(b)
    BY <1>6, <2>2, <2>3, ZenonT(60) DEF Lifecycle!Create, Lifecycle!Becomes
  <2> QED
    BY <2>4, ZenonT(60) DEF Moves, Lifecycle!Next
<1>9. ASSUME Cur(b) # Nil, NEW plan \in Plan, v = [Cur(b) EXCEPT !.plan = plan, !.gen = @ + 1] PROVE Moves
  <2>1. /\ v.deleting = Cur(b).deleting /\ v.fin = Cur(b).fin /\ v.cred = Cur(b).cred
        /\ v.st = Cur(b).st /\ v # Nil
    <3>1. v.deleting = Cur(b).deleting /\ v.fin = Cur(b).fin /\ v.cred = Cur(b).cred /\ v.st = Cur(b).st
      BY <1>9, <1>o, ZenonT(60) DEF BackupObj
    <3>2. Cur(b).gen + 1 \in Nat
      <4>1. Cur(b).gen \in Nat
        BY <1>9, <1>o, Zenon DEF BackupObj
      <4> QED
        BY <4>1
    <3>3. v \in BackupObj
      BY <1>9, <1>o, <3>2, ZenonT(60) DEF BackupObj
    <3> QED
      BY <3>1, <3>3, NilAssumption, ZenonT(60)
  <2>2. LifeOf(v) = LifeOf(Cur(b)) /\ (Attended(v) <=> Attended(Cur(b)))
    BY <1>9, <2>1, Zenon DEF LifeOf, Attended
  <2>3. life' = life /\ attended' = attended
    BY <1>6, <1>9, <2>1, <2>2, ZenonT(60) DEF life
  <2> QED
    BY <2>3, Zenon DEF Moves
<1>10. ASSUME Cur(b) # Nil, ~Cur(b).deleting, Cur(b).fin, v = [Cur(b) EXCEPT !.deleting = TRUE] PROVE Moves
  <2>1. v.deleting /\ v.cred = Cur(b).cred /\ v.st = Cur(b).st /\ v # Nil
    <3>1. v.deleting /\ v.cred = Cur(b).cred /\ v.st = Cur(b).st
      BY <1>10, <1>o, Zenon DEF BackupObj
    <3>2. v \in BackupObj
      BY <1>10, <1>o, ZenonT(60) DEF BackupObj
    <3> QED
      BY <3>1, <3>2, NilAssumption, Zenon
  <2>2. LifeOf(v) = "terminating" /\ LifeOf(Cur(b)) = "held" /\ (Attended(v) <=> Attended(Cur(b)))
    BY <1>10, <2>1, Zenon DEF LifeOf, Attended
  <2>3. attended' = attended
    BY <1>6, <1>10, <2>1, <2>2, ZenonT(60)
  <2>4. Lifecycle!Delete(b)
    BY <1>6, <2>2, <2>3, ZenonT(60) DEF Lifecycle!Delete, Lifecycle!Becomes
  <2> QED
    BY <2>4, Zenon DEF Moves, Lifecycle!Next
<1> QED
  BY <1>5, <1>7, <1>8, <1>9, <1>10, ZenonT(60) DEF Written

\* Nothing is written to a backup: none moves.
LEMMA QuietLives ==
    ASSUME TypeOK, LifeInv, job' = job \/ job' = IdleJob, \A b \in Backup : Cur(b)' = Cur(b)
    PROVE  LifeInv' /\ Moves
<1>1. Moves
  BY LifeStays, Zenon DEF Moves
<1>2. CASE job' = job
  <2>1. CASE job.pc = "idle"
    BY <1>1, <1>2, <2>1 DEF LifeInv, Working
  <2>2. CASE job.pc # "idle"
    <3>1. Cur(job.b)' = Cur(job.b)
      <4>1. job.b \in Backup
        BY <2>2, JobFacts, Zenon
      <4> QED
        BY <1>2, <4>1, Zenon DEF Cur
    <3> QED
      BY <1>1, <1>2, <3>1, ZenonT(60) DEF LifeInv, Attended
  <2> QED
    BY <2>1, <2>2, ZenonT(60)
<1> QED
  BY <1>1, <1>2, IdleLives, ZenonT(60)

\* A reconcile moves its backup as the life cycle has it, if at all.
LEMMA ReconcileLives ==
    ASSUME TypeOK, LifeInv, Reconcile
    PROVE  LifeInv' /\ Moves
<1>1. ASSUME NEW b \in Backup, StartReconcile(b) PROVE LifeInv' /\ Moves
  BY <1>1, StartLives, Zenon
<1>2. CASE AddFinalizer \/ RemoveFinalizer
  BY <1>2, FinalizerLives, Zenon
<1>3. CASE ValidateDependencies
  <2>1. job.pc \in Working
    BY <1>3, Zenon DEF ValidateDependencies, Working
  <2>2. \A st : st.ready \in {"PVCNotFound", "RepositoryNotFound"} => st.ready # "None"
    OBVIOUS
  <2>3. /\ UNCHANGED backup /\ job'.pc \in Working /\ job'.b = job.b /\ job'.fresh = job.fresh
        /\ job'.obj.st = job.obj.st \/ job'.obj.st.ready # "None"
        /\ job'.obj.fin = job.obj.fin /\ job'.obj.deleting = job.obj.deleting
        /\ job'.obj.cred = job.obj.cred
    BY <1>3, <2>2, Validated, ZenonT(60)
  <2> QED
    BY <2>1, <2>3, CopyLives, ZenonT(60)
<1>4. CASE ReconcileServerCredentials
  <2>1. /\ job.pc = "ensureUser" /\ job'.pc \in Working /\ job'.b = job.b /\ job'.fresh = job.fresh
        /\ \/ /\ UNCHANGED backup /\ job'.obj.st = job.obj.st
              /\ job'.obj.fin = job.obj.fin /\ job'.obj.deleting = job.obj.deleting
              /\ job'.obj.cred = job.obj.cred
           \/ /\ job.fresh /\ WriteBackup(job.b, job'.obj)
              /\ job'.obj = [job.obj EXCEPT !.cred = TRUE, !.gen = @ + 1]
    BY <1>4, CredentialsReconciled, Zenon
  <2>2. job.pc \in Working /\ job.pc # "idle"
    BY <2>1 DEF Working
  <2>3. job.b \in Backup /\ job.obj \in BackupObj
    BY <2>2, JobFacts, Zenon
  <2>4. CASE UNCHANGED backup /\ job'.obj.st = job.obj.st
             /\ job'.obj.fin = job.obj.fin /\ job'.obj.deleting = job.obj.deleting
             /\ job'.obj.cred = job.obj.cred
    BY <2>1, <2>2, <2>4, CopyLives, ZenonT(60)
  <2>5. CASE job.fresh /\ WriteBackup(job.b, job'.obj)
             /\ job'.obj = [job.obj EXCEPT !.cred = TRUE, !.gen = @ + 1]
    <3> DEFINE v == [job.obj EXCEPT !.cred = TRUE, !.gen = @ + 1]
    <3>1. v.cred /\ v.fin = job.obj.fin /\ v.deleting = job.obj.deleting
      BY <2>3, ZenonT(60) DEF BackupObj
    <3>2. v \in BackupObj /\ job'.obj = v /\ WriteBackup(job.b, v)
      <4>1. v \in BackupObj
        BY <2>2, CopyTypes, ZenonT(60)
      <4> QED
        BY <2>5, <4>1, Zenon
    <3>n. v # Nil
      BY <3>2, NilAssumption, ZenonT(60)
    <3> HIDE DEF v
    <3>3. v.fin /\ ~v.deleting /\ Attended(v)
      BY <2>2, <3>1, ZenonT(60) DEF LifeInv, Attended
    <3>4. Moves /\ \A b \in Backup : b = job.b => Cur(b)' = v
      BY <2>2, <2>5, <3>2, <3>3, WriteAttends, ZenonT(60)
    <3>5. Cur(job.b)' = v
      BY <2>1, <2>3, <3>4, ZenonT(60) DEF Cur
    <3>6. job'.pc \notin {"idle", "addFin", "dropFin"}
      BY <2>1 DEF Working
    <3>7. LifeInv'
      BY <2>1, <3>2, <3>3, <3>5, <3>6, <3>n, ZenonT(60) DEF LifeInv, Attended
    <3> QED
      BY <3>4, <3>7
  <2> QED
    BY <2>1, <2>4, <2>5, ZenonT(60)
<1>5. CASE ReconcileConfigMap
  <2>1. job.pc \in Working
    BY <1>5, Zenon DEF ReconcileConfigMap, Working
  <2> QED
    BY <1>5, <2>1, ConfigMapReconciled, CopyLives, ZenonT(60)
<1>6. CASE ReconcileCronJob
  <2>1. job.pc \in Working
    BY <1>6, Zenon DEF ReconcileCronJob, Working
  <2> QED
    BY <1>6, <2>1, CronJobReconciled, CopyLives, ZenonT(60)
<1>7. CASE UpdateStatus
  <2>1. /\ job.pc = "status" /\ job' = IdleJob
        /\ UNCHANGED backup \/ (job.fresh /\ WriteBackup(job.b, job.obj))
    BY <1>7, StatusUpdated, ZenonT(60)
  <2>2. job.pc \in Working /\ job.pc # "idle"
    BY <2>1 DEF Working
  <2>3. job.obj \in BackupObj /\ job.obj.fin /\ ~job.obj.deleting
    BY <2>2, JobFacts, Zenon DEF LifeInv
  <2>4. CASE UNCHANGED backup
    BY <2>1, <2>4, QuietLives, ZenonT(60) DEF Cur
  <2>5. CASE job.fresh /\ WriteBackup(job.b, job.obj)
    BY <2>1, <2>2, <2>3, <2>5, WriteAttends, IdleLives, ZenonT(60)
  <2> QED
    BY <2>1, <2>4, <2>5, ZenonT(60)
<1> QED
  BY <1>1, <1>2, <1>3, <1>4, <1>5, <1>6, <1>7, ZenonT(60) DEF Reconcile

LEMMA LifeStep == TypeOK /\ LifeInv /\ [Next]_vars => LifeInv' /\ Moves
<1> SUFFICES ASSUME TypeOK, LifeInv, [Next]_vars PROVE LifeInv' /\ Moves
  OBVIOUS
<1>1. CASE Reconcile
  BY <1>1, ReconcileLives, Zenon
<1>s. ASSUME UNCHANGED <<backup, children, job>> PROVE LifeInv' /\ Moves
  BY <1>s, QuietLives, Zenon DEF Cur
<1>2. CASE Environment
  <2>1. ASSUME NEW b \in Backup,
               DeleteBackup(b) \/ \E plan \in Plan : CreateBackup(b, plan) \/ SetPlan(b, plan)
        PROVE  LifeInv' /\ Moves
    <3>1. PICK v : Written(b, v) /\ OtherWrite(b, v)
      BY <2>1, OthersWrite, Zenon
    <3> QED
      BY <3>1, OthersLive, ZenonT(60)
  <2>2. ASSUME \/ \E b \in Backup : DeliverBackup(b) \/ Resync(b)
               \/ \E p \in PVC : DeliverCronJob(p) \/ DeleteCronJob(p)
               \/ \E r \in Repo : DeliverConfigMap(r) \/ DeleteConfigMap(r)
               \/ \E child \in Child : CollectGarbage(child)
               \/ Restart
        PROVE  LifeInv' /\ Moves
    <3>1. (job' = job \/ job' = IdleJob) /\ \A b \in Backup : Cur(b)' = Cur(b)
      BY <2>2, MachineryTypes, Zenon
    <3> QED
      BY <3>1, QuietLives, Zenon
  <2>3. ASSUME \/ \E p \in PVC : ChangePVC(p)
               \/ \E ns \in Namespace, r \in Repo, s \in Setting \cup {Nil} : ChangeRepository(ns, r, s)
               \/ \E q \in Pod : RunPod(q) \/ CreatePod(q) \/ EndPod(q) \/ DeletePod(q)
               \/ \E q \in Pod, place \in Place : SchedulePod(q, place)
        PROVE  LifeInv' /\ Moves
    BY <1>s, <2>3, SurroundingsTypes, ZenonT(60)
  <2> QED
    BY <1>2, <2>1, <2>2, <2>3, ZenonT(60) DEF Environment
<1>3. CASE UNCHANGED vars
  BY <1>s, <1>3, Zenon DEF vars
<1> QED
  BY <1>1, <1>2, <1>3, ZenonT(60) DEF Next

\* However stale the copy the deferred status update is made from, every step
\* of the reconcile and of its environment is, to a backup, a step of the life
\* it shares with the modules of the user and of the PVC watcher.
THEOREM PlacementKeepsLifecycle == Spec => KeepsLifecycle
<1>1. Init => TypeOK /\ LifeInv
  BY PlacementInitType, LifeInit
<1>2. TypeOK /\ LifeInv /\ [Next]_vars => TypeOK' /\ LifeInv' /\ Moves
  BY PlacementTypeStep, LifeStep
<1>3. Moves => [Lifecycle!Next]_<<life, attended>>
  BY DEF Moves
<1> QED
  BY <1>1, <1>2, <1>3, PTL DEF Spec, KeepsLifecycle
-----------------------------------------------------------------------------
(***************************************************************************)
(* No wake-up is lost                                                      *)
(*                                                                         *)
(* Every event of a backup and of its CronJob enqueues the backup, and so  *)
(* does every change of its PVC and of its repository.  A step after which *)
(* nothing is pending for a backup has therefore changed none of them,     *)
(* unless it started the reconcile or the operator.                        *)
(*                                                                         *)
(*   DyingHeld   a version being deleted has the finalizer;                *)
(*   CronsOwned  a CronJob is owned by a backup of its PVC and no version  *)
(*               follows itself, so its event has an owner to tell;        *)
(*   OnTrack     what the reconcile in progress has found or built.        *)
(***************************************************************************)
\* Something will bring b back to the worker.
Pending(b) == b \in queue \/ ~CaughtUp(backup[b]) \/ ~CaughtUp(cron[PvcOf[b]])

DyingHeld == \A b \in Backup : \A v \in Versions(backup[b]) : v # Nil /\ v.deleting => v.fin

CronsOwned ==
    \A p \in PVC : /\ NoRepeat(cron[p])
                   /\ \A v \in Versions(cron[p]) : v # Nil => PvcOf[v.owner] = p

Building == {"ensureUser", "configMap", "cronJob"}

OnTrack ==
    /\ job.pc \in Building => /\ MyPvc \in pvcs /\ GetKopiaRepository(MyRepo) # Nil
                              /\ job.set = GetKopiaRepository(MyRepo)
    /\ job.pc = "status" /\ ~job.retry => Accounted(job.b, job.obj)

\* With nothing pending for b, the work is done or under way.
Rest(b) ==
    Alone(b) /\ Namespace = {Home} /\ ~Pending(b) =>
        IF job.b = b THEN job.fresh => OnTrack
        ELSE Cur(b) # Nil => Cur(b).fin /\ ~Cur(b).deleting /\ Accounted(b, Cur(b))

RestInv == DyingHeld /\ CronsOwned /\ \A b \in Backup : Rest(b)

\* Every step leaves the backups alone, delivers a version of one, or writes
\* one, with the finalizer if it is being deleted.
LEMMA BackupSteps ==
    ASSUME TypeOK, LifeInv, DyingHeld, [Next]_vars
    PROVE  \/ UNCHANGED backup
           \/ \E b \in Backup : DeliverBackup(b)
           \/ \E b \in Backup, v \in BackupVersion :
                  WriteBackup(b, v) /\ (v # Nil /\ v.deleting => v.fin)
<1> DEFINE Writes == \E b \in Backup, v \in BackupVersion :
                         WriteBackup(b, v) /\ (v # Nil /\ v.deleting => v.fin)
           Quiet == UNCHANGED backup
<1>1. ASSUME job.pc # "idle", NEW v \in BackupObj, v.fin, WriteBackup(job.b, v) PROVE Writes
  BY <1>1, JobFacts, ZenonT(60) DEF BackupVersion
<1>2. CASE AddFinalizer
  <2> DEFINE v == [job.obj EXCEPT !.fin = TRUE]
  <2>1. job.pc = "addFin" /\ (Quiet \/ WriteBackup(job.b, v))
    BY <1>2, ZenonT(60) DEF AddFinalizer, FinalizerNotWritten
  <2>2. job.pc # "idle"
    BY <2>1
  <2>3. v \in BackupObj /\ v.fin
    BY <2>2, JobFacts, ZenonT(60) DEF BackupObj
  <2> HIDE DEF v, Writes
  <2> QED
    BY <1>1, <2>1, <2>2, <2>3, ZenonT(60) DEF Writes
<1>3. CASE RemoveFinalizer
  <2>1. job.pc = "dropFin" /\ (Quiet \/ WriteBackup(job.b, Nil))
    BY <1>3, ZenonT(60) DEF RemoveFinalizer, FinalizerNotWritten
  <2>2. job.pc # "idle"
    BY <2>1
  <2> QED
    BY <2>1, <2>2, JobFacts, ZenonT(60) DEF BackupVersion
<1>4. CASE ReconcileServerCredentials
  <2> DEFINE v == [job.obj EXCEPT !.cred = TRUE, !.gen = @ + 1]
  <2>1. job.pc = "ensureUser" /\ (Quiet \/ WriteBackup(job.b, v))
    BY <1>4, ZenonT(60) DEF ReconcileServerCredentials
  <2>2. job.pc # "idle" /\ job.pc \in Working
    BY <2>1 DEF Working
  <2>3. v \in BackupObj
    BY <2>2, CopyTypes, ZenonT(60)
  <2>4. v.fin
    BY <2>2, JobFacts, ZenonT(60) DEF LifeInv, BackupObj
  <2> HIDE DEF v, Writes
  <2> QED
    BY <1>1, <2>1, <2>2, <2>3, <2>4, ZenonT(60) DEF Writes
<1>5. CASE UpdateStatus
  <2>1. job.pc = "status" /\ (Quiet \/ WriteBackup(job.b, job.obj))
    BY <1>5, ZenonT(60) DEF UpdateStatus
  <2>2. job.pc # "idle" /\ job.pc \in Working
    BY <2>1 DEF Working
  <2>3. job.obj \in BackupObj /\ job.obj.fin
    BY <2>2, JobFacts, ZenonT(60) DEF LifeInv
  <2> HIDE DEF Writes
  <2> QED
    BY <1>1, <2>1, <2>2, <2>3, ZenonT(60) DEF Writes
<1>6. CASE Reconcile
  BY <1>2, <1>3, <1>4, <1>5, <1>6, ZenonT(60)
  DEF Reconcile, StartReconcile, ValidateDependencies, ReconcileConfigMap, ReconcileCronJob
<1>7. ASSUME NEW b \in Backup,
             DeleteBackup(b) \/ \E plan \in Plan : CreateBackup(b, plan) \/ SetPlan(b, plan)
      PROVE  Writes
  <2>1. PICK v : Written(b, v) /\ OtherWrite(b, v)
    BY <1>7, OthersWrite, ZenonT(60)
  <2>2. v \in BackupVersion /\ WriteBackup(b, v)
    BY <2>1, WrittenType, ZenonT(60) DEF OtherWrite
  <2>3. ASSUME v # Nil, v.deleting PROVE v.fin
    <3>1. Cur(b) \in BackupObj \cup {Nil} /\ Cur(b) \in Versions(backup[b])
      BY HeldTypes, ZenonT(60)
    <3>2. CASE Cur(b) = Nil
      <4>1. \A plan : ~NewBackup(plan).deleting
        BY ZenonT(60) DEF NewBackup
      <4> QED
        BY <2>1, <2>3, <3>2, <4>1, ZenonT(60) DEF Written
    <3>3. CASE Cur(b) \in BackupObj
      <4>1. (Cur(b).deleting => Cur(b).fin) /\ Cur(b) # Nil
        BY <3>1, <3>3, NilAssumption, ZenonT(60) DEF DyingHeld
      <4>2. ASSUME NEW plan \in Plan, v = [Cur(b) EXCEPT !.plan = plan, !.gen = @ + 1]
            PROVE  v.fin = Cur(b).fin /\ v.deleting = Cur(b).deleting
        BY <3>3, <4>2, ZenonT(60) DEF BackupObj
      <4>3. ASSUME v = [Cur(b) EXCEPT !.deleting = TRUE] PROVE v.fin = Cur(b).fin
        BY <3>3, <4>3, ZenonT(60) DEF BackupObj
      <4> QED
        BY <2>1, <2>3, <4>1, <4>2, <4>3, ZenonT(60) DEF Written
    <3> QED
      BY <3>1, <3>2, <3>3, ZenonT(60)
  <2> QED
    BY <2>2, <2>3, ZenonT(60)
<1>8. CASE Environment
  BY <1>7, <1>8, ZenonT(60)
  DEF Environment, Resync, DeliverCronJob, DeleteCronJob, ChangePVC, DeliverConfigMap, DeleteConfigMap,
      ChangeRepository, RunPod, CreatePod, EndPod, DeletePod, SchedulePod, ChangePod, CollectGarbage, Restart
<1>9. CASE UNCHANGED vars
  BY <1>9, ZenonT(60) DEF vars
<1> QED
  BY <1>6, <1>8, <1>9, ZenonT(60) DEF Next

\* A backup being deleted keeps the finalizer until it goes.
LEMMA DyingStep ==
    ASSUME TypeOK, LifeInv, DyingHeld, [Next]_vars
    PROVE  DyingHeld'
<1>1. CASE UNCHANGED backup
  BY <1>1, ZenonT(60) DEF DyingHeld
<1>2. ASSUME NEW b \in Backup, DeliverBackup(b) PROVE DyingHeld'
  <2>1. \A x \in Backup : Versions(backup'[x]) \subseteq Versions(backup[x])
    BY <1>2, BackupDelivered, ZenonT(60)
  <2> QED
    BY <2>1, ZenonT(60) DEF DyingHeld
<1>3. ASSUME NEW b \in Backup, NEW v \in BackupVersion, WriteBackup(b, v), v # Nil /\ v.deleting => v.fin
      PROVE  DyingHeld'
  <2>1. /\ \A x \in Backup : x # b => backup'[x] = backup[x]
        /\ Versions(backup'[b]) \subseteq Versions(backup[b]) \cup {v}
    BY <1>3, BackupWritten, ZenonT(60)
  <2>2. ASSUME NEW x \in Backup, NEW y \in Versions(backup'[x]), y # Nil, y.deleting PROVE y.fin
    BY <1>3, <2>1, <2>2, ZenonT(60) DEF DyingHeld
  <2> QED
    BY <2>2, ZenonT(60) DEF DyingHeld
<1> QED
  BY <1>1, <1>2, <1>3, BackupSteps, ZenonT(60)

\* Every step leaves the CronJobs alone, delivers a version of one, or writes
\* one that is owned by a backup of its PVC.
LEMMA CronSteps ==
    ASSUME TypeOK, CronsOwned, [Next]_vars
    PROVE  \/ UNCHANGED cron
           \/ \E p \in PVC : DeliverCronJob(p)
           \/ \E p \in PVC, v \in CronJobVersion : WriteCron(p, v) /\ (v # Nil => PvcOf[v.owner] = p)
<1> DEFINE Writes == \E p \in PVC, v \in CronJobVersion : WriteCron(p, v) /\ (v # Nil => PvcOf[v.owner] = p)
           Quiet == UNCHANGED cron
<1>1. ASSUME NEW p \in PVC, WriteCron(p, Nil) PROVE Writes
  BY <1>1, ZenonT(60) DEF CronJobVersion
<1>2. CASE ReconcileCronJob
  <2> DEFINE c == Cached(cron[MyPvc])
  <2>1. job.pc = "cronJob"
    BY <1>2, ZenonT(60) DEF ReconcileCronJob
  <2>2. job.pc # "idle" /\ job.pc \in {"ensureUser", "configMap", "cronJob"}
    BY <2>1
  <2>3. job.b \in Backup /\ MyPvc \in PVC /\ job.set \in Setting
    BY <2>2, JobFacts, ZenonT(60) DEF TypeOK
  <2>4. cron[MyPvc] \in Streams(CronJobVersion)
    BY <2>3, ZenonT(60) DEF TypeOK, CronJobVersion
  <2>5. c \in CronJobVersion /\ c \in Versions(cron[MyPvc])
    BY <2>4, StreamEnds, ZenonT(60)
  <2> HIDE DEF c
  <2>6. ASSUME NEW place \in Placements(MyPvc), WriteCron(MyPvc, DesiredCronJob(c, place)) PROVE Writes
    <3> DEFINE v == DesiredCronJob(c, place)
    <3>1. v \in CronJobObj
      BY <2>2, <2>3, <2>5, DesiredTypes, PlacementsType, ZenonT(60)
    <3>2. PvcOf[v.owner] = MyPvc
      <4>1. CASE c = Nil
        BY <4>1, ZenonT(60) DEF DesiredCronJob, NewCronJob, MyPvc
      <4>2. CASE c # Nil
        <5>1. v.owner = c.owner
          BY <4>2, ZenonT(60) DEF DesiredCronJob, NewCronJob
        <5> QED
          BY <2>3, <2>5, <4>2, <5>1, ZenonT(60) DEF CronsOwned
      <4> QED
        BY <4>1, <4>2
    <3> HIDE DEF v
    <3> QED
      BY <2>3, <2>6, <3>1, <3>2, ZenonT(60) DEF CronJobVersion, v
  <2> HIDE DEF Writes
  <2> QED
    BY <1>2, <2>6, ZenonT(60) DEF ReconcileCronJob, children, c, Writes
<1>3. CASE Reconcile
  BY <1>2, <1>3, ZenonT(60)
  DEF Reconcile, StartReconcile, AddFinalizer, RemoveFinalizer, ValidateDependencies,
      ReconcileServerCredentials, ReconcileConfigMap, WriteConfig, UpdateStatus, children
<1>4. ASSUME NEW child \in Child, CollectGarbage(child) PROVE Quiet \/ Writes
  <2>1. \/ child[1] = "cronJob" /\ WriteCron(child[2], Nil)
        \/ WriteConfig(child[2], Nil)
    BY <1>4, ZenonT(60) DEF CollectGarbage
  <2>2. child[1] = "cronJob" => child[2] \in PVC
    BY DEF Child
  <2> QED
    BY <1>1, <2>1, <2>2, ZenonT(60) DEF WriteConfig
<1>5. CASE Environment
  BY <1>1, <1>4, <1>5, ZenonT(60)
  DEF Environment, DeliverBackup, Resync, DeleteBackup, CreateBackup, SetPlan, OtherWrite, DeleteCronJob, ChangePVC,
      DeliverConfigMap, DeleteConfigMap, WriteConfig, ChangeRepository, RunPod, CreatePod, EndPod, DeletePod,
      SchedulePod, ChangePod, Restart, children
<1>6. CASE UNCHANGED vars
  BY <1>6, ZenonT(60) DEF vars, children
<1> QED
  BY <1>3, <1>5, <1>6, ZenonT(60) DEF Next

\* The CronJobs stay owned and their versions distinct.
LEMMA OwnedStep ==
    ASSUME TypeOK, CronsOwned, [Next]_vars
    PROVE  CronsOwned'
<1>0. \A p \in PVC : cron[p] \in Streams(CronJobVersion)
  BY ZenonT(60) DEF TypeOK, CronJobVersion
<1>1. CASE UNCHANGED cron
  BY <1>1, ZenonT(60) DEF CronsOwned
<1>2. ASSUME NEW p \in PVC, DeliverCronJob(p) PROVE CronsOwned'
  <2>1. \A x \in PVC : Versions(cron'[x]) \subseteq Versions(cron[x])
    BY <1>2, CronDelivered, ZenonT(60)
  <2>2. cron' = [cron EXCEPT ![p] = Deliver(cron[p])] /\ ~CaughtUp(cron[p])
    BY <1>2, ZenonT(60) DEF DeliverCronJob
  <2>3. NoRepeat(Deliver(cron[p]))
    BY <1>0, <2>2, NoRepeatDeliver, ZenonT(60) DEF CronsOwned
  <2>4. \A x \in PVC : NoRepeat(cron'[x])
    BY <2>2, <2>3, ZenonT(60) DEF CronsOwned, TypeOK
  <2> QED
    BY <2>1, <2>4, ZenonT(60) DEF CronsOwned
<1>3. ASSUME NEW p \in PVC, NEW v \in CronJobVersion, WriteCron(p, v), v # Nil => PvcOf[v.owner] = p
      PROVE  CronsOwned'
  <2>1. cron' = [cron EXCEPT ![p] = Put(cron[p], v)]
    BY <1>3, ZenonT(60) DEF WriteCron
  <2>2. NoRepeat(Put(cron[p], v)) /\ Versions(Put(cron[p], v)) \subseteq Versions(cron[p]) \cup {v}
    BY <1>0, NoRepeatPut, StreamPut, ZenonT(60) DEF CronsOwned
  <2>3. \A x \in PVC : cron'[x] = IF x = p THEN Put(cron[p], v) ELSE cron[x]
    BY <2>1, ZenonT(60) DEF TypeOK
  <2>4. \A x \in PVC : NoRepeat(cron'[x])
    BY <2>2, <2>3, ZenonT(60) DEF CronsOwned
  <2>5. ASSUME NEW x \in PVC, NEW y \in Versions(cron'[x]), y # Nil PROVE PvcOf[y.owner] = x
    <3>1. y \in Versions(cron[x]) \/ (x = p /\ y = v)
      BY <2>2, <2>3, <2>5, ZenonT(60)
    <3> QED
      BY <1>3, <2>5, <3>1, ZenonT(60) DEF CronsOwned
  <2> QED
    BY <2>4, <2>5, ZenonT(60) DEF CronsOwned
<1> QED
  BY <1>1, <1>2, <1>3, CronSteps, ZenonT(60)

\* Nothing b depends on has changed, and nothing was pending for it.
Still(b) ==
    /\ ~Pending(b)
    /\ backup'[b] = backup[b] /\ cron'[PvcOf[b]] = cron[PvcOf[b]]
    /\ Cur(b) # Nil => /\ GetKopiaRepository(RepoOf[b])' = GetKopiaRepository(RepoOf[b])
                       /\ PvcOf[b] \in pvcs' <=> PvcOf[b] \in pvcs

\* The queue loses b only to a worker or a restart.
LEMMA QueueStep ==
    ASSUME NEW b \in Backup, b \in queue, [Next]_vars
    PROVE  StartReconcile(b) \/ Restart \/ b \in queue'
<1> USE DEF End, Return, Goto
<1>1. CASE \E x \in Backup : StartReconcile(x)
  BY <1>1, ZenonT(60) DEF StartReconcile
<1>2. CASE Reconcile
  BY <1>1, <1>2, ZenonT(60)
  DEF Reconcile, AddFinalizer, RemoveFinalizer, FinalizerNotWritten, ValidateDependencies,
      ReconcileServerCredentials, ReconcileConfigMap, ReconcileCronJob, UpdateStatus
<1>3. CASE Environment
  BY <1>3, ZenonT(60)
  DEF Environment, DeliverBackup, Resync, DeleteBackup, CreateBackup, SetPlan, OtherWrite, DeliverCronJob, DeleteCronJob,
      ChangePVC, DeliverConfigMap, DeleteConfigMap, ChangeRepository, RunPod, CreatePod, EndPod, DeletePod,
      SchedulePod, ChangePod, CollectGarbage
<1> QED
  BY <1>2, <1>3, ZenonT(60) DEF Next, vars

\* With one namespace the repository found is the local one.
LEMMA FoundAtHome ==
    ASSUME Namespace = {Home}, NEW r
    PROVE  /\ GetKopiaRepository(r) = repos[<<Home, r>>]
           /\ GetKopiaRepository(r)' = repos'[<<Home, r>>]
<1>1. GetKopiaRepository(r) = repos[<<Home, r>>]
  <2> DEFINE matches == {ns \in Namespace : repos[<<ns, r>>] # Nil}
             Only(ns) == matches = {ns}
             other == repos[<<CHOOSE ns \in Namespace : Only(ns), r>>]
  <2>1. GetKopiaRepository(r) = IF Home \in matches THEN repos[<<Home, r>>]
                                ELSE IF \E ns \in Namespace : Only(ns) THEN other ELSE Nil
    BY ZenonT(60) DEF GetKopiaRepository
  <2>2. /\ Home \in matches <=> repos[<<Home, r>>] # Nil
        /\ Home \notin matches => ~\E ns \in Namespace : Only(ns)
    BY ZenonT(60)
  <2> HIDE DEF matches, Only, other
  <2> QED
    BY <2>1, <2>2, ZenonT(60)
<1>2. GetKopiaRepository(r)' = repos'[<<Home, r>>]
  <2> DEFINE matches == {ns \in Namespace : repos'[<<ns, r>>] # Nil}
             Only(ns) == matches = {ns}
             other == repos'[<<CHOOSE ns \in Namespace : Only(ns), r>>]
  <2>1. GetKopiaRepository(r)' = IF Home \in matches THEN repos'[<<Home, r>>]
                                 ELSE IF \E ns \in Namespace : Only(ns) THEN other ELSE Nil
    BY ZenonT(60) DEF GetKopiaRepository
  <2>2. /\ Home \in matches <=> repos'[<<Home, r>>] # Nil
        /\ Home \notin matches => ~\E ns \in Namespace : Only(ns)
    BY ZenonT(60)
  <2> HIDE DEF matches, Only, other
  <2> QED
    BY <2>1, <2>2, ZenonT(60)
<1> QED
  BY <1>1, <1>2

\* A change of the PVC or of the repository of a backup the cache knows
\* enqueues the backup.
LEMMA SurroundingsStep ==
    ASSUME TypeOK, Namespace = {Home}, NEW b \in Backup, CaughtUp(backup[b]), Cur(b) # Nil, b \notin queue',
           [Next]_vars
    PROVE  /\ GetKopiaRepository(RepoOf[b])' = GetKopiaRepository(RepoOf[b])
           /\ PvcOf[b] \in pvcs' <=> PvcOf[b] \in pvcs
<1>1. backup[b] \in Streams(BackupVersion)
  BY ZenonT(60) DEF TypeOK, BackupVersion
<1>2. Cached(backup[b]) = Cur(b)
  BY <1>1, StreamCaughtUp, ZenonT(60) DEF Cur
<1> DEFINE Same == repos'[<<Home, RepoOf[b]>>] = repos[<<Home, RepoOf[b]>>]
           Kept == PvcOf[b] \in pvcs' <=> PvcOf[b] \in pvcs
<1>3. ASSUME UNCHANGED <<repos, pvcs>> PROVE Same /\ Kept
  BY <1>3, ZenonT(60)
<1>4. ASSUME NEW ns \in Namespace, NEW r \in Repo, NEW s \in Setting \cup {Nil}, ChangeRepository(ns, r, s)
      PROVE  Same /\ Kept
  <2>1. ns = Home /\ b \notin BackupsForRepo(r) /\ pvcs' = pvcs /\ repos' = [repos EXCEPT ![<<ns, r>>] = s]
    BY <1>4, ZenonT(60) DEF ChangeRepository, EnqueuedForRepo
  <2>2. RepoOf[b] # r
    BY <1>2, <2>1, ZenonT(60) DEF BackupsForRepo
  <2>3. RepoOf[b] \in Repo
    BY ConstantsAssumption, ZenonT(60)
  <2>4. <<Home, RepoOf[b]>> # <<ns, r>> /\ <<Home, RepoOf[b]>> \in Namespace \X Repo
    BY <2>1, <2>2, <2>3, ZenonT(60)
  <2>5. repos \in [Namespace \X Repo -> Setting \cup {Nil}]
    BY ZenonT(60) DEF TypeOK
  <2> QED
    BY <2>1, <2>4, <2>5, ZenonT(60)
<1>5. ASSUME NEW p \in PVC, ChangePVC(p) PROVE Same /\ Kept
  <2>1. b \notin BackupsForPVC(p)
    BY <1>5, ZenonT(60) DEF ChangePVC
  <2>2. PvcOf[b] # p
    BY <1>2, <2>1, ZenonT(60) DEF BackupsForPVC
  <2> QED
    BY <1>5, <2>2, ZenonT(60) DEF ChangePVC
<1> HIDE DEF Same, Kept
<1>6. ASSUME Reconcile PROVE Same /\ Kept
  BY <1>3, <1>6, ZenonT(60)
  DEF envVars, Reconcile, StartReconcile, AddFinalizer, RemoveFinalizer, ValidateDependencies,
      ReconcileServerCredentials, ReconcileConfigMap, ReconcileCronJob, UpdateStatus
<1>7. ASSUME Environment PROVE Same /\ Kept
  BY <1>3, <1>4, <1>5, <1>7, ZenonT(60)
  DEF envVars, Environment, DeliverBackup, Resync, DeleteBackup, CreateBackup, SetPlan, OtherWrite, DeliverCronJob,
      DeleteCronJob, DeliverConfigMap, DeleteConfigMap, RunPod, CreatePod, EndPod, DeletePod, SchedulePod,
      ChangePod, CollectGarbage, Restart
<1>8. Same /\ Kept
  BY <1>3, <1>6, <1>7, ZenonT(60) DEF Next, vars, envVars
<1> QED
  BY <1>8, FoundAtHome, ZenonT(60) DEF Same, Kept

\* A step after which nothing is pending for b has left b alone, or started
\* its reconcile or the operator.
LEMMA StillStep ==
    ASSUME TypeOK, LifeInv, DyingHeld, CronsOwned, Namespace = {Home}, NEW b \in Backup, Alone(b), [Next]_vars,
           ~Pending(b)'
    PROVE  StartReconcile(b) \/ Restart \/ Still(b)
<1> DEFINE p == PvcOf[b]
<1>1. backup[b] \in Streams(BackupVersion) /\ p \in PVC /\ cron[p] \in Streams(CronJobVersion)
  BY ConstantsAssumption, ZenonT(60) DEF TypeOK, BackupVersion, CronJobVersion
<1>2. b \notin queue' /\ CaughtUp(backup'[b]) /\ CaughtUp(cron'[p])
  BY ZenonT(60) DEF Pending, CaughtUp
<1> HIDE DEF p
<1>3. backup'[b] = backup[b]
  <2>1. ASSUME NEW x \in Backup, DeliverBackup(x) PROVE backup'[b] = backup[b]
    <3>1. x # b
      BY <1>2, <2>1, ZenonT(60) DEF DeliverBackup
    <3> QED
      BY <2>1, <3>1, ZenonT(60) DEF DeliverBackup, TypeOK
  <2>2. ASSUME NEW x \in Backup, NEW v \in BackupVersion, WriteBackup(x, v) PROVE backup'[b] = backup[b]
    <3>1. CASE x # b
      BY <2>2, <3>1, BackupWritten, ZenonT(60)
    <3>2. CASE x = b
      <4>1. backup'[b] = Put(backup[b], v)
        BY <2>2, <3>2, ZenonT(60) DEF WriteBackup, TypeOK
      <4> QED
        BY <1>1, <1>2, <4>1, StreamQuiet, ZenonT(60)
    <3> QED
      BY <3>1, <3>2
  <2> QED
    BY <2>1, <2>2, BackupSteps, ZenonT(60)
<1>4. cron'[p] = cron[p]
  <2>1. ASSUME NEW x \in PVC, DeliverCronJob(x) PROVE cron'[p] = cron[p]
    <3>1. CASE x # p
      BY <1>1, <2>1, <3>1, ZenonT(60) DEF DeliverCronJob, TypeOK
    <3>2. CASE x = p
      <4>1. /\ ~CaughtUp(cron[p])
            /\ queue' = queue \cup {v.owner : v \in {cron[p][1], cron[p][2]} \ {Nil}}
        BY <2>1, <3>2, ZenonT(60) DEF DeliverCronJob, Owners
      <4>2. /\ cron[p][1] # cron[p][2]
            /\ cron[p][1] \in Versions(cron[p]) /\ cron[p][2] \in Versions(cron[p])
        BY <1>1, <4>1, NoRepeatDeliver, ZenonT(60) DEF CronsOwned
      <4>3. PICK v \in {cron[p][1], cron[p][2]} : v # Nil
        BY <4>2, ZenonT(60)
      <4>4. v \in Versions(cron[p]) /\ v \in CronJobObj
        <5>1. Versions(cron[p]) \subseteq CronJobVersion
          BY <1>1, StreamEnds, ZenonT(60)
        <5> QED
          BY <4>2, <4>3, <5>1, ZenonT(60) DEF CronJobVersion
      <4>5. v.owner \in Backup /\ PvcOf[v.owner] = p
        BY <1>1, <4>3, <4>4, ZenonT(60) DEF CronJobObj, CronsOwned
      <4>6. v.owner = b
        BY <4>5, ZenonT(60) DEF Alone, p
      <4> QED
        BY <1>2, <4>1, <4>3, <4>6, ZenonT(60)
    <3> QED
      BY <3>1, <3>2, ZenonT(60)
  <2>2. ASSUME NEW x \in PVC, NEW v \in CronJobVersion, WriteCron(x, v) PROVE cron'[p] = cron[p]
    <3>1. CASE x # p
      BY <1>1, <2>2, <3>1, ZenonT(60) DEF WriteCron, TypeOK
    <3>2. CASE x = p
      <4>1. cron'[p] = Put(cron[p], v)
        BY <1>1, <2>2, <3>2, ZenonT(60) DEF WriteCron, TypeOK
      <4> QED
        BY <1>1, <1>2, <4>1, StreamQuiet, ZenonT(60)
    <3> QED
      BY <3>1, <3>2, ZenonT(60)
  <2> QED
    BY <1>1, <2>1, <2>2, CronSteps, ZenonT(60)
<1>5. CaughtUp(backup[b]) /\ CaughtUp(cron[p])
  BY <1>2, <1>3, <1>4, ZenonT(60)
<1>6. CASE b \notin queue
  <2>1. ~Pending(b)
    BY <1>5, <1>6, ZenonT(60) DEF Pending, p
  <2>2. Cur(b) # Nil => /\ GetKopiaRepository(RepoOf[b])' = GetKopiaRepository(RepoOf[b])
                        /\ PvcOf[b] \in pvcs' <=> PvcOf[b] \in pvcs
    BY <1>2, <1>5, SurroundingsStep, ZenonT(60)
  <2> QED
    BY <1>3, <1>4, <2>1, <2>2, ZenonT(60) DEF Still, p
<1>7. CASE b \in queue
  BY <1>2, <1>7, QueueStep, ZenonT(60)
<1> QED
  BY <1>6, <1>7, ZenonT(60)

\* Such a step keeps Rest(b) unless the reconcile of b goes on.
LEMMA RestKept ==
    ASSUME TypeOK, LifeInv, NEW b \in Backup, Rest(b), Still(b),
           \/ UNCHANGED job
           \/ job.b # b /\ job'.b # b
           \/ job.b = b /\ job'.b = b /\ ~job'.fresh
    PROVE  Rest(b)'
<1>1. Cur(b)' = Cur(b) /\ CurCron(PvcOf[b])' = CurCron(PvcOf[b])
  BY ZenonT(60) DEF Still, Cur, CurCron
<1>2. CASE job.b # b /\ job'.b # b
  BY <1>1, <1>2, ZenonT(60) DEF Rest, Still, Alone, Accounted
<1>3. CASE job'.b = b /\ ~job'.fresh
  BY <1>3, ZenonT(60) DEF Rest
<1>4. CASE UNCHANGED job /\ job.b = b /\ job.fresh
  <2>1. Cur(b) # Nil
    <3>1. job.pc # "idle"
      <4>1. job # IdleJob
        BY <1>4, SMTT(60) DEF IdleJob
      <4>2. job \in Job
        BY <4>1, ZenonT(60) DEF TypeOK
      <4> QED
        BY <4>2, ZenonT(60) DEF Job, Phase
    <3> QED
      BY <1>4, <3>1, ZenonT(60) DEF LifeInv
  <2>2. ASSUME Alone(b), Namespace = {Home} PROVE OnTrack
    BY <1>4, <2>2, ZenonT(60) DEF Rest, Still
  <2>3. ASSUME OnTrack PROVE OnTrack'
    BY <1>1, <1>4, <2>1, <2>3, ZenonT(60) DEF OnTrack, Still, MyPvc, MyRepo, Accounted
  <2> QED
    BY <1>4, <2>2, <2>3, ZenonT(60) DEF Rest, Alone
<1> QED
  BY <1>2, <1>3, <1>4, ZenonT(60)

\* OnTrack for the next phase, in what Still leaves as it is.
NextTrack ==
    /\ job'.pc \in Building => /\ MyPvc \in pvcs /\ GetKopiaRepository(MyRepo) # Nil
                               /\ job'.set = GetKopiaRepository(MyRepo)
    /\ job'.pc = "status" /\ ~job'.retry => Accounted(job.b, job'.obj)

\* The reconcile of b goes on to its next phase.
LEMMA TrackGoes ==
    ASSUME TypeOK, LifeInv, NEW b \in Backup, Alone(b), Namespace = {Home}, Rest(b), Still(b),
           job.pc # "idle", job.b = b, job'.b = b, job'.fresh = job.fresh,
           job.fresh /\ OnTrack => NextTrack
    PROVE  Rest(b)'
<1>1. CASE ~job.fresh
  BY <1>1, ZenonT(60) DEF Rest
<1>2. CASE job.fresh
  <2>1. CurCron(PvcOf[b])' = CurCron(PvcOf[b])
    BY ZenonT(60) DEF Still, CurCron
  <2>2. Cur(b) # Nil
    BY <1>2, ZenonT(60) DEF LifeInv
  <2>3. OnTrack
    BY <1>2, ZenonT(60) DEF Rest, Still
  <2>4. NextTrack
    BY <1>2, <2>3
  <2>5. /\ GetKopiaRepository(RepoOf[b])' = GetKopiaRepository(RepoOf[b])
        /\ PvcOf[b] \in pvcs' <=> PvcOf[b] \in pvcs
    BY <2>2, ZenonT(60) DEF Still
  <2>6. OnTrack'
    BY <2>1, <2>4, <2>5, ZenonT(60) DEF NextTrack, OnTrack, MyPvc, MyRepo, Accounted
  <2> QED
    BY <2>6, ZenonT(60) DEF Rest
<1> QED
  BY <1>1, <1>2

\* What a status set by the reconcile says.
LEMMA PlacedSays ==
    ASSUME NEW o \in BackupObj, NEW place, place # Nil
    PROVE  Placed(o, place).ready = IF o.plan \in Suspended THEN "Suspended" ELSE "Reconciled"
<1>1. CASE o.plan \in Suspended
  BY <1>1, ZenonT(60) DEF Placed, SetReady
<1>2. CASE o.plan \notin Suspended
  BY <1>2, ZenonT(60) DEF Placed, SetReady
<1> QED
  BY <1>1, <1>2

\* The reconcile of b reads and writes with nothing pending.
LEMMA RestGoes ==
    ASSUME TypeOK, LifeInv, NEW b \in Backup, Alone(b), Namespace = {Home}, Rest(b), Still(b), ~Pending(b)',
           job.b = b,
           \/ AddFinalizer \/ ValidateDependencies \/ ReconcileServerCredentials
           \/ ReconcileConfigMap \/ ReconcileCronJob
    PROVE  Rest(b)'
<1>1. job.pc # "idle"
  <2>1. job.pc \in Phase
    BY ZenonT(60) DEF AddFinalizer, ValidateDependencies, ReconcileServerCredentials, ReconcileConfigMap,
                      ReconcileCronJob, Phase
  <2> QED
    BY <2>1 DEF Phase
<1>2. job \in Job /\ job.obj \in BackupObj /\ MyPvc \in PVC /\ MyRepo \in Repo
  BY <1>1, JobFacts, ZenonT(60)
<1>3. ~End(TRUE)
  BY ZenonT(60) DEF End, Pending
<1>4. ASSUME NEW st, NEW retry, Return(st, retry), job.fresh /\ OnTrack /\ ~retry => Accounted(b, job'.obj)
      PROVE  Rest(b)'
  <2>1. job'.b = job.b /\ job'.fresh = job.fresh /\ job'.pc = "status" /\ job'.retry = retry
    BY <1>2, <1>4, ZenonT(60) DEF Return, Job
  <2>2. "status" \notin Building
    BY DEF Building
  <2>3. job.fresh /\ OnTrack => NextTrack
    BY <1>4, <2>1, <2>2, ZenonT(60) DEF NextTrack
  <2> QED
    BY <1>1, <2>1, <2>3, TrackGoes, ZenonT(60)
<1>5. ASSUME NEW ph \in Building, job'.pc = ph, job'.b = job.b, job'.fresh = job.fresh, job'.set = job.set,
             job.pc \in Building
      PROVE  Rest(b)'
  <2>1. ph # "status"
    BY DEF Building
  <2>2. OnTrack => NextTrack
    BY <1>5, <2>1, ZenonT(60) DEF OnTrack, NextTrack
  <2> QED
    BY <1>1, <1>5, <2>2, TrackGoes, ZenonT(60)
<1>6. ASSUME NEW ph \in Building, Goto(ph), job.pc \in Building PROVE Rest(b)'
  <2>1. job'.pc = ph /\ job'.b = job.b /\ job'.fresh = job.fresh /\ job'.set = job.set
    BY <1>2, <1>6, ZenonT(60) DEF Goto, Job
  <2> QED
    BY <1>5, <1>6, <2>1, ZenonT(60)
<1>7. "ensureUser" \in Building /\ "configMap" \in Building /\ "cronJob" \in Building
  BY DEF Building
<1>8. CASE AddFinalizer
  <2> DEFINE o == [job.obj EXCEPT !.fin = TRUE]
  <2>1. job' = [job EXCEPT !.pc = "validate", !.obj = o]
    BY <1>3, <1>8, ZenonT(60) DEF AddFinalizer, FinalizerNotWritten
  <2> HIDE DEF o
  <2>2. job'.pc = "validate" /\ job'.b = job.b /\ job'.fresh = job.fresh
    BY <1>2, <2>1, ZenonT(60) DEF Job
  <2>3. job'.pc \notin Building /\ job'.pc # "status"
    BY <2>2 DEF Building
  <2>4. NextTrack
    BY <2>3, ZenonT(60) DEF NextTrack
  <2> QED
    BY <1>1, <2>2, <2>4, TrackGoes, ZenonT(60)
<1>9. CASE ValidateDependencies
  <2> DEFINE s == GetKopiaRepository(MyRepo)
  <2>1. ASSUME NEW reason \in {"PVCNotFound", "RepositoryNotFound"}, Return(SetReady(job.obj, reason), FALSE)
        PROVE  job'.obj.st.seen = job'.obj.gen /\ job'.obj.st.ready = reason
    <3>1. reason \in Reason
      BY <2>1 DEF Reason
    <3>2. /\ SetReady(job.obj, reason) \in Status
          /\ SetReady(job.obj, reason).seen = job.obj.gen /\ SetReady(job.obj, reason).ready = reason
      BY <1>2, <3>1, ReadyType, ZenonT(60)
    <3>3. job'.obj.st = SetReady(job.obj, reason) /\ job'.obj.gen = job.obj.gen
      BY <1>1, <2>1, <3>2, Returned, ZenonT(60)
    <3> QED
      BY <3>2, <3>3, ZenonT(60)
  <2>2. CASE MyPvc \notin pvcs /\ Return(SetReady(job.obj, "PVCNotFound"), FALSE)
    <3>1. job'.obj.st.seen = job'.obj.gen /\ job'.obj.st.ready = "PVCNotFound"
      BY <2>1, <2>2, ZenonT(60)
    <3>2. Accounted(b, job'.obj)
      BY <2>2, <3>1, ZenonT(60) DEF Accounted, MyPvc
    <3> QED
      BY <1>4, <2>2, <3>2, ZenonT(60)
  <2>3. CASE MyPvc \in pvcs /\ s = Nil /\ Return(SetReady(job.obj, "RepositoryNotFound"), FALSE)
    <3>1. job'.obj.st.seen = job'.obj.gen /\ job'.obj.st.ready = "RepositoryNotFound"
      BY <2>1, <2>3, ZenonT(60)
    <3>2. Accounted(b, job'.obj)
      BY <2>3, <3>1, ZenonT(60) DEF Accounted, MyPvc, MyRepo
    <3> QED
      BY <1>4, <2>3, <3>2, ZenonT(60)
  <2>4. CASE MyPvc \in pvcs /\ s # Nil /\ job' = [job EXCEPT !.pc = PhaseFor(s), !.set = s]
    <3>1. s \in Setting
      BY <1>2, <2>4, RepositoryType, ZenonT(60)
    <3>2. PhaseFor(s) \in {"ensureUser", "configMap", "cronJob"}
      BY <3>1, PhaseForType, ZenonT(60)
    <3>3. PhaseFor(s) # "status"
      BY <3>2
    <3>4. job'.pc = PhaseFor(s) /\ job'.b = job.b /\ job'.fresh = job.fresh /\ job'.set = s
      BY <1>2, <2>4, ZenonT(60) DEF Job
    <3>5. NextTrack
      BY <2>4, <3>3, <3>4, ZenonT(60) DEF NextTrack
    <3> QED
      BY <1>1, <3>4, <3>5, TrackGoes, ZenonT(60)
  <2> QED
    BY <1>9, <2>2, <2>3, <2>4, ZenonT(60) DEF ValidateDependencies
<1>10. CASE ReconcileServerCredentials
  <2> DEFINE o == [job.obj EXCEPT !.cred = TRUE, !.gen = @ + 1]
  <2>1. /\ job.pc = "ensureUser"
        /\ \/ Goto("cronJob")
           \/ job' = [job EXCEPT !.pc = "cronJob", !.obj = o]
           \/ Return(job.obj.st, TRUE)
    BY <1>10, ZenonT(60) DEF ReconcileServerCredentials
  <2> HIDE DEF o
  <2>2. ASSUME job' = [job EXCEPT !.pc = "cronJob", !.obj = o] PROVE Rest(b)'
    <3>1. job'.pc = "cronJob" /\ job'.b = job.b /\ job'.fresh = job.fresh /\ job'.set = job.set
      BY <1>2, <2>2, ZenonT(60) DEF Job
    <3> QED
      BY <1>5, <1>7, <2>1, <3>1, ZenonT(60)
  <2> QED
    BY <1>4, <1>6, <1>7, <2>1, <2>2, ZenonT(60)
<1>11. CASE ReconcileConfigMap
  <2>1. job.pc = "configMap" /\ (Goto("cronJob") \/ Return(job.obj.st, TRUE))
    BY <1>11, ZenonT(60) DEF ReconcileConfigMap
  <2> QED
    BY <1>4, <1>6, <1>7, <2>1, ZenonT(60)
<1>12. CASE ReconcileCronJob
  <2> DEFINE c == Cached(cron[MyPvc])
  <2>0. job.pc = "cronJob"
    BY <1>12, ZenonT(60) DEF ReconcileCronJob
  <2>1. job.set \in Setting /\ job.pc \in Building /\ c \in CronJobVersion
    <3>1. job.pc \in {"ensureUser", "configMap", "cronJob"} /\ job.pc \in Building
      BY <2>0 DEF Building
    <3> QED
      BY <1>2, <3>1, HeldTypes, ZenonT(60) DEF TypeOK, CronJobVersion
  <2> HIDE DEF c
  <2>2. ASSUME NEW place \in Placements(MyPvc), WriteCron(MyPvc, DesiredCronJob(c, place)),
               Return(Placed(job.obj, place), place = Nil)
        PROVE  Rest(b)'
    <3> DEFINE v == DesiredCronJob(c, place)
               st == Placed(job.obj, place)
    <3>1. place \in Place \cup {Nil}
      BY <1>2, PlacementsType, ZenonT(60)
    <3>2. v \in CronJobObj /\ v.plan = job.obj.plan
      BY <1>1, <2>1, <3>1, DesiredTypes, ZenonT(60)
    <3>3. v.set = job.set /\ v.place = place
      <4>1. NewCronJob(place).set = job.set /\ NewCronJob(place).place = place
        BY ZenonT(60) DEF NewCronJob
      <4>2. \A x : /\ [NewCronJob(place) EXCEPT !.owner = x].set = NewCronJob(place).set
                   /\ [NewCronJob(place) EXCEPT !.owner = x].place = NewCronJob(place).place
        BY ZenonT(60) DEF NewCronJob
      <4> QED
        BY <4>1, <4>2, ZenonT(60) DEF DesiredCronJob
    <3>4. st \in Status /\ st.seen = job.obj.gen
      BY <1>2, PlacedType, ZenonT(60)
    <3>5. place # Nil => st.ready = IF job.obj.plan \in Suspended THEN "Suspended" ELSE "Reconciled"
      BY <1>2, PlacedSays, ZenonT(60)
    <3> HIDE DEF v, st
    <3>6. CurCron(MyPvc) = v /\ v # Nil
      <4>1. PvcOf[b] \in PVC /\ WriteCron(PvcOf[b], v) /\ v \in CronJobVersion
        BY <1>2, <2>2, <3>2, ZenonT(60) DEF CronJobVersion, MyPvc, v
      <4>2. CurCron(PvcOf[b])' = v
        BY <4>1, CronWritten, ZenonT(60)
      <4>3. CurCron(PvcOf[b])' = CurCron(PvcOf[b])
        BY ZenonT(60) DEF Still, CurCron
      <4> QED
        BY <3>2, <4>2, <4>3, NilAssumption, ZenonT(60) DEF MyPvc
    <3>7. job'.obj.st = st /\ job'.obj.gen = job.obj.gen /\ job'.obj.plan = job.obj.plan
      <4>1. Return(st, place = Nil) /\ (place = Nil) \in BOOLEAN
        BY <2>2, ZenonT(60) DEF st
      <4> QED
        BY <1>1, <3>4, <4>1, Returned, ZenonT(60)
    <3>8. OnTrack /\ place # Nil => Accounted(b, job'.obj)
      <4> SUFFICES ASSUME OnTrack, place # Nil PROVE Accounted(b, job'.obj)
        OBVIOUS
      <4>1. PvcOf[b] \in pvcs /\ GetKopiaRepository(RepoOf[b]) # Nil /\ v.set = GetKopiaRepository(RepoOf[b])
        BY <2>1, <3>3, ZenonT(60) DEF OnTrack, MyPvc, MyRepo
      <4>2. CurCron(PvcOf[b]) = v
        BY <3>6, ZenonT(60) DEF MyPvc
      <4> QED
        BY <3>2, <3>3, <3>4, <3>5, <3>6, <3>7, <4>1, <4>2, ZenonT(60) DEF Accounted
    <3> QED
      BY <1>4, <2>2, <3>8, ZenonT(60)
  <2> QED
    BY <1>4, <1>12, <2>2, ZenonT(60) DEF ReconcileCronJob, c
<1> QED
  BY <1>8, <1>9, <1>10, <1>11, <1>12, ZenonT(60)

\* The reconcile of b ends with nothing pending: its status is what it found.
LEMMA RestEnds ==
    ASSUME TypeOK, LifeInv, NEW b \in Backup, Alone(b), Namespace = {Home}, Rest(b), Still(b), ~Pending(b)',
           job.b = b, RemoveFinalizer \/ UpdateStatus
    PROVE  Rest(b)'
<1>1. job.pc \in {"dropFin", "status"}
  BY ZenonT(60) DEF RemoveFinalizer, UpdateStatus
<1>2. job.pc # "idle" /\ job.obj \in BackupObj
  BY <1>1, JobFacts, ZenonT(60)
<1>3. \A retry : End(retry) => ~retry /\ job'.b # b
  <2>1. IdleJob.b # b
    BY NilAssumption DEF IdleJob
  <2> QED
    BY <2>1, ZenonT(60) DEF End, Pending
<1>4. CASE RemoveFinalizer
  <2>1. WriteBackup(b, Nil) /\ End(FALSE)
    BY <1>3, <1>4, ZenonT(60) DEF RemoveFinalizer, FinalizerNotWritten
  <2>2. Cur(b)' = Nil
    BY <2>1, BackupWritten, ZenonT(60) DEF BackupVersion
  <2> QED
    BY <1>3, <2>1, <2>2, ZenonT(60) DEF Rest
<1>5. CASE UpdateStatus
  <2>1. job.pc = "status" /\ job.fresh /\ WriteBackup(b, job.obj) /\ End(job.retry)
    BY <1>3, <1>5, ZenonT(60) DEF UpdateStatus
  <2>2. ~job.retry /\ job'.b # b
    BY <1>3, <2>1, ZenonT(60)
  <2>3. Cur(b)' = job.obj /\ CurCron(PvcOf[b])' = CurCron(PvcOf[b])
    BY <1>2, <2>1, BackupWritten, ZenonT(60) DEF BackupVersion, Still, CurCron
  <2>4. job.pc \in Working
    BY <2>1 DEF Working
  <2>5. job.obj.fin /\ ~job.obj.deleting /\ Cur(b) # Nil
    BY <1>2, <2>1, <2>4, ZenonT(60) DEF LifeInv
  <2>6. /\ GetKopiaRepository(RepoOf[b])' = GetKopiaRepository(RepoOf[b])
        /\ PvcOf[b] \in pvcs' <=> PvcOf[b] \in pvcs
    BY <2>5, ZenonT(60) DEF Still
  <2>7. Accounted(b, job.obj)
    BY <2>1, <2>2, ZenonT(60) DEF Rest, Still, OnTrack
  <2>8. Accounted(b, Cur(b))'
    BY <2>3, <2>6, <2>7, ZenonT(60) DEF Accounted
  <2> QED
    BY <2>2, <2>3, <2>5, <2>8, ZenonT(60) DEF Rest
<1> QED
  BY <1>4, <1>5

\* The reconcile of b, or the operator, starts with nothing left pending.
LEMMA RestStart ==
    ASSUME TypeOK, DyingHeld, NEW b \in Backup, StartReconcile(b) \/ Restart, ~Pending(b)'
    PROVE  Rest(b)'
<1> DEFINE o == Cached(backup[b])
<1>1. backup' = backup /\ backup[b] \in Streams(BackupVersion) /\ CaughtUp(backup[b])
  BY ZenonT(60) DEF StartReconcile, Restart, Pending, TypeOK, BackupVersion
<1>2. o = Cur(b) /\ Cur(b)' = Cur(b) /\ o \in Versions(backup[b]) /\ o \in BackupVersion
  BY <1>1, StreamCaughtUp, StreamEnds, ZenonT(60) DEF Cur
<1>3. CASE o = Nil
  <2>1. job' = IdleJob
    BY <1>3, ZenonT(60) DEF StartReconcile, Restart
  <2>2. IdleJob.b # b
    BY NilAssumption DEF IdleJob
  <2> QED
    BY <1>2, <1>3, <2>1, <2>2, ZenonT(60) DEF Rest
<1>4. CASE o # Nil
  <2>1. StartReconcile(b)
    BY <1>4, ZenonT(60) DEF Restart, Pending
  <2>2. o \in BackupObj /\ (o.deleting => o.fin)
    BY <1>2, <1>4, ZenonT(60) DEF DyingHeld, BackupVersion
  <2> HIDE DEF o
  <2>3. FirstPhase(o) # "idle"
    <3>1. o.deleting \in BOOLEAN /\ o.fin \in BOOLEAN
      BY <2>2, ZenonT(60) DEF BackupObj
    <3> QED
      BY <2>2, <3>1, ZenonT(60) DEF FirstPhase
  <2>4. FirstPhase(o) \in {"dropFin", "validate", "addFin"}
    BY <2>2, <2>3, FirstPhaseType, ZenonT(60)
  <2>5. job' = [IdleJob EXCEPT !.pc = FirstPhase(o), !.b = b, !.obj = o, !.fresh = CaughtUp(backup[b])]
    BY <1>4, <2>1, <2>3, ZenonT(60) DEF StartReconcile, o
  <2>6. job'.pc = FirstPhase(o) /\ job'.b = b
    BY <2>5, ZenonT(60) DEF IdleJob
  <2>7. job'.pc \notin Building /\ job'.pc # "status"
    BY <2>4, <2>6 DEF Building
  <2>8. OnTrack'
    BY <2>7, ZenonT(60) DEF OnTrack
  <2> QED
    BY <2>6, <2>8, ZenonT(60) DEF Rest
<1> QED
  BY <1>3, <1>4, ZenonT(60)

\* Once started, the worker stays on its backup until it is idle again.
LEMMA OwnJob ==
    ASSUME TypeOK, Reconcile, ~(\E x \in Backup : StartReconcile(x))
    PROVE  job'.b \in {job.b, Nil}
<1>1. job.pc \in Phase
  BY ZenonT(60)
  DEF Reconcile, AddFinalizer, RemoveFinalizer, ValidateDependencies, ReconcileServerCredentials,
      ReconcileConfigMap, ReconcileCronJob, UpdateStatus, Phase
<1>2. job.pc # "idle"
  BY <1>1 DEF Phase
<1>3. job \in Job
  BY <1>2, JobFacts, ZenonT(60)
<1>4. IdleJob.b = Nil
  BY DEF IdleJob
<1>5. /\ \A retry : End(retry) => job'.b = Nil
      /\ \A st, retry : Return(st, retry) => job'.b = job.b
      /\ \A ph : Goto(ph) => job'.b = job.b
  BY <1>3, <1>4, ZenonT(60) DEF End, Return, Goto, Job
<1> QED
  BY <1>3, <1>5, ZenonT(60)
  DEF Reconcile, AddFinalizer, RemoveFinalizer, FinalizerNotWritten, ValidateDependencies,
      ReconcileServerCredentials, ReconcileConfigMap, ReconcileCronJob, UpdateStatus, Job

\* RestInv is inductive.
LEMMA RestStep == TypeOK /\ LifeInv /\ RestInv /\ [Next]_vars => RestInv'
<1> SUFFICES ASSUME TypeOK, LifeInv, RestInv, [Next]_vars PROVE RestInv'
  OBVIOUS
<1>1. DyingHeld /\ CronsOwned /\ \A b \in Backup : Rest(b)
  BY ZenonT(60) DEF RestInv
<1>2. DyingHeld' /\ CronsOwned'
  BY <1>1, DyingStep, OwnedStep, ZenonT(60)
<1>3. ASSUME NEW b \in Backup PROVE Rest(b)'
  <2> SUFFICES ASSUME Alone(b), Namespace = {Home}, ~Pending(b)' PROVE Rest(b)'
    BY ZenonT(60) DEF Rest, Alone
  <2>0. Rest(b)
    BY <1>1
  <2>1. CASE StartReconcile(b) \/ Restart
    BY <1>1, <2>1, RestStart, ZenonT(60)
  <2>2. CASE ~StartReconcile(b) /\ ~Restart
    <3>1. Still(b)
      BY <1>1, <2>2, StillStep, ZenonT(60)
    <3>2. ASSUME UNCHANGED job PROVE Rest(b)'
      BY <2>0, <3>1, <3>2, RestKept, ZenonT(60)
    <3>3. ASSUME NEW x \in Backup, StartReconcile(x) PROVE Rest(b)'
      <4>1. x # b /\ job = IdleJob
        BY <2>2, <3>3, ZenonT(60) DEF StartReconcile
      <4>2. job'.b \in {Nil, x}
        BY <3>3, ZenonT(60) DEF StartReconcile, IdleJob
      <4>3. job.b # b /\ job'.b # b
        BY <4>1, <4>2, NilAssumption, ZenonT(60) DEF IdleJob
      <4> QED
        BY <2>0, <3>1, <4>3, RestKept, ZenonT(60)
    <3>4. ASSUME NEW x \in Backup, Invalidate(x) PROVE Rest(b)'
      <4>1. CASE job # IdleJob /\ job.b = x
        <5>1. job'.b = job.b /\ ~job'.fresh
          BY <3>4, <4>1, Invalidated, ZenonT(60)
        <5> QED
          BY <2>0, <3>1, <5>1, RestKept, ZenonT(60)
      <4>2. CASE ~(job # IdleJob /\ job.b = x)
        BY <3>2, <3>4, <4>2, Invalidated, ZenonT(60)
      <4> QED
        BY <4>1, <4>2, ZenonT(60)
    <3>5. CASE Environment
      BY <2>2, <3>2, <3>4, <3>5, ZenonT(60)
      DEF Environment, DeliverBackup, Resync, DeleteBackup, CreateBackup, SetPlan, OtherWrite, DeliverCronJob,
          DeleteCronJob, ChangePVC, DeliverConfigMap, DeleteConfigMap, ChangeRepository, RunPod, CreatePod, EndPod,
          DeletePod, SchedulePod, ChangePod, CollectGarbage
    <3>6. ASSUME job.b # b, ~(\E x \in Backup : StartReconcile(x)), Reconcile PROVE Rest(b)'
      <4>1. job'.b \in {job.b, Nil}
        BY <3>6, OwnJob, ZenonT(60)
      <4>2. job'.b # b
        BY <3>6, <4>1, NilAssumption, ZenonT(60)
      <4> QED
        BY <2>0, <3>1, <3>6, <4>2, RestKept, ZenonT(60)
    <3>7. CASE Reconcile
      BY <2>0, <3>1, <3>3, <3>6, <3>7, RestGoes, RestEnds, ZenonT(60) DEF Reconcile
    <3>8. CASE UNCHANGED vars
      BY <3>2, <3>8, ZenonT(60) DEF vars
    <3> QED
      BY <3>5, <3>7, <3>8, ZenonT(60) DEF Next
  <2> QED
    BY <2>1, <2>2, ZenonT(60)
<1> QED
  BY <1>2, <1>3, ZenonT(60) DEF RestInv

\* RestIsPlaced: for every number of backups, repositories, PVCs and pods,
\* every lag of the caches and every fault, a backup that is alone on its PVC
\* and that nothing will reconcile again has its CronJob, or the status that
\* says what is missing.
THEOREM RestPlaced == Spec => []RestIsPlaced
<1>1. Init => RestInv
  <2> SUFFICES ASSUME Init PROVE RestInv
    OBVIOUS
  <2>1. PICK plan \in Plan \ Suspended : backup = [b \in Backup |-> <<NewBackup(plan)>>]
    BY ZenonT(60) DEF Init
  <2>2. ~NewBackup(plan).deleting
    BY ZenonT(60) DEF NewBackup
  <2>3. \A b \in Backup : Versions(backup[b]) = {NewBackup(plan)} /\ Pending(b)
    BY <2>1, SMTT(60) DEF Init, Versions, Pending
  <2>4. \A p \in PVC : NoRepeat(cron[p]) /\ Versions(cron[p]) = {Nil}
    BY SMTT(60) DEF Init, NoRepeat, Versions
  <2>5. DyingHeld /\ CronsOwned
    BY <2>2, <2>3, <2>4, ZenonT(60) DEF DyingHeld, CronsOwned
  <2> QED
    BY <2>3, <2>5, ZenonT(60) DEF RestInv, Rest
<1>2. RestInv => RestIsPlaced
  BY ZenonT(60) DEF RestInv, RestIsPlaced, Rest, AtRest, Pending
<1>3. Init => TypeOK /\ LifeInv /\ RestInv
  BY <1>1, PlacementInitType, LifeInit
<1>4. TypeOK /\ LifeInv /\ RestInv /\ [Next]_vars => TypeOK' /\ LifeInv' /\ RestInv'
  BY PlacementTypeStep, LifeStep, RestStep, ZenonT(60)
<1> QED
  BY <1>2, <1>3, <1>4, PTL DEF Spec
=============================================================================
