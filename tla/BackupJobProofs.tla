-------------------------- MODULE BackupJobProofs --------------------------
(***************************************************************************)
(* Proofs about BackupJob: the variables keep their types, an up-to-date   *)
(* CronJob in sound surroundings loses at most one Job, and no Job can run *)
(* for ever.                                                               *)
(***************************************************************************)
EXTENDS BackupJob, TLAPS

\* A CronJob and its Jobs have a deadline, and a Job stays within its limits.
LimitInv ==
    /\ cron # Nil => cron.deadline # Nil
    /\ job # Nil => /\ job.spec.deadline # Nil
                    /\ job.age <= job.spec.deadline
                    /\ job.pods <= job.spec.backoff /\ job.retries <= job.spec.backoff

\* A Job started from the CronJob that is wanted now, which has not waited
\* and whose pod, once it has a node, is next to the workload.
Good ==
    /\ job.spec = Desired /\ job.age = 0
    /\ job.phase # "pending" /\ consumer # Nil => job.node = consumer.node

\* A Job that is active after one was lost can only succeed: nothing can
\* make it wait or fail before something else changes.
LossInv ==
    Sound /\ cron = Desired /\ lost > 0 => lost = 1 /\ (Active => Good)
-----------------------------------------------------------------------------
(***************************************************************************)
(* The CronJob that is built                                               *)
(***************************************************************************)
\* The tolerations are some, whether the workload has any or not.
LEMMA TolerationsType ==
    ASSUME NEW p \in Consumer \cup {Nil}
    PROVE  Tolerations(p) \in SUBSET TaintKey
<1>1. CASE p = Nil \/ p.tolerations = {}
  <2>1. Tolerations(p) = DefaultTolerations
    BY <1>1, Zenon DEF Tolerations
  <2> QED
    BY <2>1, SetupAssumption DEF DefaultTolerations
<1>2. CASE ~(p = Nil \/ p.tolerations = {})
  <2>1. p \in Workload
    BY <1>2, SetupAssumption
  <2> QED
    BY <1>2, <2>1 DEF Tolerations, Workload
<1> QED
  BY <1>1, <1>2

\* The parts of the CronJob that depend on the mode have their types.
LEMMA ServerConfigType ==
    ASSUME NEW f \in Cert \cup {Nil}
    PROVE  LET c == ServerModeConfig(f)
           IN /\ c.mounts \in SUBSET Volume /\ c.volumes \in SUBSET Volume /\ c.refs \in SUBSET Reference
              /\ c.blank = {} /\ c.fingerprint = f /\ c.config = "connect"
  BY DEF ServerModeConfig, Volume, Reference

LEMMA DirectConfigType ==
    ASSUME NEW s \in SetupOf(Nat)
    PROVE  LET c == DirectModeConfig(s)
           IN /\ c.mounts \in SUBSET Volume /\ c.volumes \in SUBSET Volume /\ c.refs \in SUBSET Reference
              /\ c.blank \in SUBSET Field /\ c.fingerprint = Nil
              /\ c.config = (IF s.storage = "filesystem" THEN "file" ELSE "empty")
<1>1. s.storage \in {"filesystem", "sftp", "other"}
  BY DEF SetupOf
<1>2. CASE s.storage = "filesystem"
  BY <1>2, ZenonT(60) DEF DirectModeConfig, Volume, Reference, Field
<1>3. CASE s.storage = "sftp"
  BY <1>3, ZenonT(60) DEF DirectModeConfig, Volume, Reference, Field
<1>4. CASE s.storage = "other"
  BY <1>4, ZenonT(60) DEF DirectModeConfig, Volume, Reference, Field
<1> QED
  BY <1>1, <1>2, <1>3, <1>4

\* What a Job has to live with, field by field.
LEMMA BuiltFields ==
    ASSUME NEW s \in Setup, NEW p \in Consumer \cup {Nil}, NEW f \in Cert \cup {Nil}
    PROVE  LET c == BuildCronJob(s, p, f)
           IN /\ c.node = (IF p = Nil THEN Nil ELSE p.node) /\ c.tolerations = Tolerations(p)
              /\ c.deadline \in Nat \ {0} /\ c.deadline # Nil
              /\ s.server => c.config = "connect" /\ c.fingerprint = f
              /\ ~s.server => c.config = (IF s.storage = "filesystem" THEN "file" ELSE "empty")
<1>1. s \in SetupOf(Nat) /\ s.deadline # 0
  BY SetupAssumption
<1>2. ActiveDeadline(s) \in Nat \ {0} /\ ActiveDeadline(s) # Nil
  BY <1>1, SetupAssumption, NilAssumption, ZenonT(60) DEF ActiveDeadline, SetupOf
<1>3. CASE s.server
  BY <1>2, <1>3, ServerConfigType, ZenonT(60) DEF BuildCronJob, BuildNodeAffinity
<1>4. CASE ~s.server
  BY <1>1, <1>2, <1>4, DirectConfigType, ZenonT(60) DEF BuildCronJob, BuildNodeAffinity
<1> QED
  BY <1>3, <1>4

LEMMA BuiltType ==
    ASSUME NEW s \in Setup, NEW p \in Consumer \cup {Nil}, NEW f \in Cert \cup {Nil}
    PROVE  BuildCronJob(s, p, f) \in CronJobObj
<1>1. s \in SetupOf(Nat)
  BY SetupAssumption
<1>2. CronJobName(s.pvcName) \in Nat
  BY <1>1 DEF CronJobName, SetupOf
<1>3. BuildNodeAffinity(p) \in Node \cup {Nil} /\ MountPath(p) \in STRING \cup {Nil}
  BY SetupAssumption DEF BuildNodeAffinity, MountPath, Workload
<1>4. ActiveDeadline(s) \in Nat \cup {Nil} /\ BackoffLimit(s) \in Nat
  BY <1>1, SetupAssumption DEF ActiveDeadline, BackoffLimit, SetupOf
<1>5. Tolerations(p) \in SUBSET TaintKey
  BY TolerationsType
<1> DEFINE c == IF s.server THEN ServerModeConfig(f) ELSE DirectModeConfig(s)
<1>6. /\ c.mounts \in SUBSET Volume /\ c.volumes \in SUBSET Volume /\ c.refs \in SUBSET Reference
      /\ c.blank \in SUBSET Field /\ c.fingerprint \in Cert \cup {Nil}
      /\ c.config \in {"connect", "file", "empty"}
  BY <1>1, ServerConfigType, DirectConfigType, SMTT(60)
<1>7. BuildCronJob(s, p, f) =
       [name |-> CronJobName(s.pvcName), node |-> BuildNodeAffinity(p), app |-> MountPath(p),
        tolerations |-> Tolerations(p), deadline |-> ActiveDeadline(s), backoff |-> BackoffLimit(s),
        mounts |-> {"data"} \cup c.mounts, volumes |-> {"data"} \cup c.volumes,
        refs |-> {"pvc"} \cup c.refs, blank |-> c.blank,
        fingerprint |-> c.fingerprint, config |-> c.config]
  BY DEF BuildCronJob
<1> HIDE DEF c
<1>8. {"data"} \cup c.mounts \in SUBSET Volume /\ {"data"} \cup c.volumes \in SUBSET Volume
      /\ {"pvc"} \cup c.refs \in SUBSET Reference
  BY <1>6 DEF Volume, Reference
<1> QED
  BY <1>2, <1>3, <1>4, <1>5, <1>6, <1>7, <1>8, SMTT(60) DEF CronJobObj
-----------------------------------------------------------------------------
(***************************************************************************)
(* Types                                                                   *)
(***************************************************************************)
LEMMA DesiredFacts ==
    ASSUME TypeOK
    PROVE  /\ setup \in Setup /\ Desired \in CronJobObj
           /\ Desired.node = (IF consumer = Nil THEN Nil ELSE consumer.node)
           /\ Desired.tolerations = Tolerations(consumer)
           /\ Desired.deadline \in Nat \ {0} /\ Desired.deadline # Nil
           /\ setup.server => Desired.config = "connect" /\ Desired.fingerprint = status
           /\ ~setup.server => Desired.config = (IF setup.storage = "filesystem" THEN "file" ELSE "empty")
<1>1. setup \in Setup /\ consumer \in Consumer \cup {Nil} /\ status \in Cert \cup {Nil}
  BY DEF TypeOK
<1>2. Desired = BuildCronJob(setup, consumer, status)
  BY DEF Desired
<1> QED
  BY <1>1, <1>2, BuiltType, BuiltFields

\* What an active Job is made of.
LEMMA ActiveFacts ==
    ASSUME TypeOK, Active
    PROVE  /\ job \in JobObj /\ job # Nil
           /\ job.phase \in Waiting \cup Running /\ job.spec \in CronJobObj
           /\ job.pods \in Nat /\ job.retries \in Nat /\ job.age \in Nat /\ job.spec.backoff \in Nat
           /\ job.attempt \in 0 .. ConnectAttempts /\ job.node \in Node \cup {Nil}
           /\ job.spec.deadline \in Nat \cup {Nil}
<1>1. job \in JobObj /\ job # Nil /\ job.phase \in Waiting \cup Running
  BY DEF TypeOK, Active
<1>2. job.spec \in CronJobObj /\ job.pods \in Nat /\ job.retries \in Nat /\ job.age \in Nat
      /\ job.attempt \in 0 .. ConnectAttempts /\ job.node \in Node \cup {Nil}
  BY <1>1 DEF JobObj
<1>3. job.spec.backoff \in Nat /\ job.spec.deadline \in Nat \cup {Nil}
  BY <1>2 DEF CronJobObj
<1> QED
  BY <1>1, <1>2, <1>3

\* A container that fails is a retry or ends the Job.
LEMMA FailMoves ==
    ASSUME TypeOK, LimitInv, Active, ContainerFails, job.phase \in Running
    PROVE  /\ job' \in JobObj /\ job'.spec = job.spec /\ job'.age = job.age
           /\ job'.pods <= job.spec.backoff /\ job'.retries <= job.spec.backoff
           /\ Later(job, job')
           /\ lost' \in 0 .. 2
<1>1. /\ job \in JobObj
      /\ job.pods \in Nat /\ job.retries \in Nat /\ job.age \in Nat /\ job.spec.backoff \in Nat
      /\ job.pods <= job.spec.backoff /\ job.retries <= job.spec.backoff /\ lost \in 0 .. 2
  BY ActiveFacts DEF LimitInv, TypeOK
<1>2. CASE /\ job.retries + 1 < job.spec.backoff
           /\ job' = [job EXCEPT !.phase = "creating", !.retries = @ + 1]
           /\ UNCHANGED lost
  <2>1. job.retries + 1 \in Nat
    BY <1>1
  <2>2. job' \in JobObj /\ job'.spec = job.spec /\ job'.age = job.age
        /\ job'.pods = job.pods /\ job'.retries = job.retries + 1
    BY <1>1, <1>2, <2>1, ZenonT(60) DEF JobObj, Waiting, Running
  <2> QED
    BY <1>1, <1>2, <2>2 DEF Later
<1>3. CASE Fail
  <2>1. job' = [job EXCEPT !.phase = "failed"] /\ lost' \in 0 .. 2
    BY <1>1, <1>3 DEF Fail
  <2>2. job' \in JobObj /\ job'.spec = job.spec /\ job'.age = job.age
        /\ job'.pods = job.pods /\ job'.retries = job.retries /\ job'.phase = "failed"
    BY <1>1, <2>1 DEF JobObj
  <2>3. Stage(job.phase) < Stage(job'.phase)
    BY <2>2 DEF Stage, Running
  <2> QED
    BY <1>1, <2>1, <2>2, <2>3 DEF Later
<1> QED
  BY <1>2, <1>3, ZenonT(60) DEF ContainerFails

\* What every step of a Job's pod, of the scheduler and of the Job controller
\* leaves of the Job.
Moved ==
    /\ job' \in JobObj /\ job'.spec = job.spec
    /\ job'.pods <= job.spec.backoff /\ job'.retries <= job.spec.backoff
    /\ job'.age <= job.spec.deadline /\ Later(job, job')
    /\ lost' \in 0 .. 2 /\ faults' \in 0 .. MaxFaults /\ edits' = edits
    /\ UNCHANGED <<setup, world, cron>>

LEMMA JobMoves ==
    ASSUME TypeOK, LimitInv, Pod \/ EvictPod \/ Wait \/ ExpireJob
    PROVE  Active /\ Moved
<1>a. Active
  BY Zenon DEF Pod, SchedulePod, StartContainer, Connect, CreateSnapshot, ListSnapshots,
               EvictPod, Wait, ExpireJob
<1> SUFFICES Moved
  BY <1>a
<1>f. /\ job \in JobObj /\ job.phase \in Waiting \cup Running
      /\ job.pods \in Nat /\ job.retries \in Nat /\ job.age \in Nat /\ job.spec.backoff \in Nat
      /\ job.pods + 1 \in Nat /\ job.age + 1 \in Nat
      /\ job.attempt \in 0 .. ConnectAttempts
      /\ job.spec.deadline \in Nat /\ job.spec.deadline # Nil
      /\ job.age <= job.spec.deadline
      /\ job.pods <= job.spec.backoff /\ job.retries <= job.spec.backoff
  BY <1>a, ActiveFacts DEF LimitInv
<1>v. lost \in 0 .. 2 /\ faults \in 0 .. MaxFaults /\ MaxFaults \in Nat /\ 0 \in Nat
      /\ ConnectAttempts \in Nat \ {0} /\ 1 \in 0 .. ConnectAttempts
  BY SetupAssumption DEF TypeOK
<1>1. ASSUME NEW n \in Node, SchedulePod(n) PROVE Moved
  <2>1. job.phase = "pending" /\ job' = [job EXCEPT !.phase = "creating", !.node = n]
        /\ UNCHANGED <<setup, world, cron, lost, budgets>>
    BY <1>1, Zenon DEF SchedulePod
  <2>2. job' \in JobObj /\ job'.spec = job.spec
        /\ job'.pods = job.pods /\ job'.retries = job.retries /\ job'.age = job.age
        /\ job'.phase = "creating"
    BY <1>f, <2>1, ZenonT(60) DEF JobObj, Waiting, Running
  <2>3. Later(job, job')
    BY <1>f, <2>1, <2>2 DEF Later, Stage
  <2> QED
    BY <1>f, <1>v, <2>1, <2>2, <2>3 DEF Moved, budgets
<1>2. CASE StartContainer
  <2>1. job.phase = "creating" /\ job' = [job EXCEPT !.phase = FirstStep, !.attempt = 1]
        /\ UNCHANGED <<setup, world, cron, lost, budgets>>
    BY <1>2, Zenon DEF StartContainer
  <2>2. FirstStep \in {"connect", "snapshot"}
    BY DEF FirstStep
  <2>3. job' \in JobObj /\ job'.spec = job.spec
        /\ job'.pods = job.pods /\ job'.retries = job.retries /\ job'.age = job.age
        /\ job'.phase = FirstStep
    BY <1>f, <1>v, <2>1, <2>2, ZenonT(60) DEF JobObj, Waiting, Running
  <2>4. Later(job, job')
    BY <1>f, <2>1, <2>2, <2>3 DEF Later, Stage
  <2> QED
    BY <1>f, <1>v, <2>1, <2>3, <2>4 DEF Moved, budgets
<1>3. CASE Connect
  <2>1. job.phase = "connect" /\ UNCHANGED <<setup, world, cron, budgets>>
    BY <1>3, Zenon DEF Connect
  <2>2. CASE job' = [job EXCEPT !.phase = "snapshot"] /\ UNCHANGED lost
    <3>1. job' \in JobObj /\ job'.spec = job.spec
          /\ job'.pods = job.pods /\ job'.retries = job.retries /\ job'.age = job.age
          /\ job'.phase = "snapshot"
      BY <1>f, <2>2, ZenonT(60) DEF JobObj, Waiting, Running
    <3>2. Later(job, job')
      BY <1>f, <2>1, <3>1 DEF Later, Stage
    <3> QED
      BY <1>f, <1>v, <2>1, <2>2, <3>1, <3>2 DEF Moved, budgets
  <2>3. CASE /\ job.attempt < ConnectAttempts /\ InTime
             /\ job' = [job EXCEPT !.attempt = @ + 1, !.age = Older]
             /\ UNCHANGED lost
    <3>1. Older = job.age + 1 /\ job.age < job.spec.deadline /\ job.attempt + 1 \in 0 .. ConnectAttempts
      BY <1>f, <1>v, <2>3 DEF Older, InTime
    <3>2. job' \in JobObj /\ job'.spec = job.spec
          /\ job'.pods = job.pods /\ job'.retries = job.retries /\ job'.age = job.age + 1
      BY <1>f, <1>v, <2>3, <3>1, ZenonT(60) DEF JobObj
    <3>3. Later(job, job')
      BY <1>f, <3>2 DEF Later
    <3> QED
      BY <1>f, <1>v, <2>1, <2>3, <3>1, <3>2, <3>3 DEF Moved, budgets
  <2>4. CASE ContainerFails
    <3>1. job.phase \in Running
      BY <2>1 DEF Running
    <3> QED
      BY <1>a, <1>f, <1>v, <2>1, <2>4, <3>1, FailMoves DEF Moved, budgets
  <2> QED
    BY <1>3, <2>2, <2>3, <2>4, Zenon DEF Connect
<1>4. CASE CreateSnapshot
  <2>1. job.phase = "snapshot" /\ UNCHANGED <<setup, world, cron>>
        /\ (job' = [job EXCEPT !.phase = "list", !.snap = TRUE] \/ job' = [job EXCEPT !.phase = "list"])
        /\ (UNCHANGED <<lost, budgets>> \/ Fault("kopia"))
    BY <1>4, Zenon DEF CreateSnapshot
  <2>2. job' \in JobObj /\ job'.spec = job.spec
        /\ job'.pods = job.pods /\ job'.retries = job.retries /\ job'.age = job.age
        /\ job'.phase = "list"
    BY <1>f, <2>1, ZenonT(60) DEF JobObj, Waiting, Running
  <2>3. Later(job, job')
    BY <1>f, <2>1, <2>2 DEF Later, Stage
  <2>4. lost' \in 0 .. 2 /\ faults' \in 0 .. MaxFaults /\ edits' = edits
    BY <1>v, <2>1 DEF Fault, budgets
  <2> QED
    BY <1>f, <2>1, <2>2, <2>3, <2>4 DEF Moved
<1>5. CASE ListSnapshots
  <2>1. job.phase = "list" /\ UNCHANGED <<setup, world, cron, budgets>>
    BY <1>5, Zenon DEF ListSnapshots
  <2>2. CASE job' = [job EXCEPT !.phase = "complete"] /\ UNCHANGED lost
    <3>1. job' \in JobObj /\ job'.spec = job.spec
          /\ job'.pods = job.pods /\ job'.retries = job.retries /\ job'.age = job.age
          /\ job'.phase = "complete"
      BY <1>f, <2>2, ZenonT(60) DEF JobObj
    <3>2. Later(job, job')
      BY <1>f, <2>1, <3>1 DEF Later, Stage
    <3> QED
      BY <1>f, <1>v, <2>1, <2>2, <3>1, <3>2 DEF Moved, budgets
  <2>3. CASE ContainerFails
    <3>1. job.phase \in Running
      BY <2>1 DEF Running
    <3> QED
      BY <1>a, <1>f, <1>v, <2>1, <2>3, <3>1, FailMoves DEF Moved, budgets
  <2> QED
    BY <1>5, <2>2, <2>3, Zenon DEF ListSnapshots
<1>6. CASE EvictPod
  <2>1. job.phase # "pending" /\ Fault("evict") /\ UNCHANGED <<setup, world, cron>>
    BY <1>6, Zenon DEF EvictPod
  <2>2. lost' \in 0 .. 2 /\ faults' \in 0 .. MaxFaults /\ edits' = edits
    BY <1>v, <2>1 DEF Fault
  <2>3. CASE job.pods < job.spec.backoff
             /\ job' = [job EXCEPT !.phase = "pending", !.node = Nil, !.pods = @ + 1, !.retries = 0]
    <3>1. job' \in JobObj /\ job'.spec = job.spec
          /\ job'.pods = job.pods + 1 /\ job'.retries = 0 /\ job'.age = job.age
      BY <1>f, <1>v, <2>3, ZenonT(60) DEF JobObj, Waiting, Running
    <3> QED
      BY <1>f, <2>1, <2>2, <2>3, <3>1 DEF Moved, Later
  <2>4. CASE job' = [job EXCEPT !.phase = "failed"]
    <3>1. job' \in JobObj /\ job'.spec = job.spec
          /\ job'.pods = job.pods /\ job'.retries = job.retries /\ job'.age = job.age
          /\ job'.phase = "failed"
      BY <1>f, <2>4, ZenonT(60) DEF JobObj
    <3>2. Later(job, job')
      BY <1>f, <3>1 DEF Later, Stage, Waiting, Running
    <3> QED
      BY <1>f, <2>1, <2>2, <3>1, <3>2 DEF Moved
  <2> QED
    BY <1>6, <2>3, <2>4, Zenon DEF EvictPod
<1>7. CASE Wait
  <2>1. InTime /\ job' = [job EXCEPT !.age = Older] /\ UNCHANGED <<setup, world, cron, lost, budgets>>
    BY <1>7, Zenon DEF Wait
  <2>2. Older = job.age + 1 /\ job.age < job.spec.deadline
    BY <1>f, <2>1 DEF Older, InTime
  <2>3. job' \in JobObj /\ job'.spec = job.spec
        /\ job'.pods = job.pods /\ job'.retries = job.retries /\ job'.age = job.age + 1
    BY <1>f, <2>1, <2>2, ZenonT(60) DEF JobObj
  <2>4. Later(job, job')
    BY <1>f, <2>3 DEF Later
  <2> QED
    BY <1>f, <1>v, <2>1, <2>2, <2>3, <2>4 DEF Moved, budgets
<1>8. CASE ExpireJob
  <2>1. Fail /\ UNCHANGED <<setup, world, cron, budgets>>
    BY <1>8, Zenon DEF ExpireJob
  <2>2. job' = [job EXCEPT !.phase = "failed"] /\ lost' \in 0 .. 2
    BY <1>v, <2>1 DEF Fail
  <2>3. job' \in JobObj /\ job'.spec = job.spec
        /\ job'.pods = job.pods /\ job'.retries = job.retries /\ job'.age = job.age
        /\ job'.phase = "failed"
    BY <1>f, <2>2, ZenonT(60) DEF JobObj
  <2>4. Later(job, job')
    BY <1>f, <2>3 DEF Later, Stage, Waiting, Running
  <2> QED
    BY <1>f, <1>v, <2>1, <2>2, <2>3, <2>4 DEF Moved, budgets
<1> QED
  BY <1>1, <1>2, <1>3, <1>4, <1>5, <1>6, <1>7, <1>8, Zenon DEF Pod

LEMMA InitInv == Init => TypeOK /\ LimitInv /\ LossInv
<1> SUFFICES ASSUME Init PROVE TypeOK /\ LimitInv /\ LossInv
  OBVIOUS
<1>1. setup \in Setup /\ consumer \in Consumer \cup {Nil} /\ up \in BOOLEAN /\ status \in Cert \cup {Nil}
  BY DEF Init
<1>2. there \subseteq Reference
  BY DEF Init, Made, Reference
<1>3. tls \in Cert /\ cert \in Cert
  BY SetupAssumption, Zenon DEF Init
<1>4. cron = Nil /\ job = Nil /\ lost = 0 /\ faults \in 0 .. MaxFaults /\ edits \in 0 .. MaxEdits
  BY SetupAssumption, SMTT(60) DEF Init
<1> QED
  BY <1>1, <1>2, <1>3, <1>4 DEF TypeOK, LimitInv, LossInv

\* What changes around the Jobs keeps its type and starts the count again.
LEMMA OtherMoves ==
    ASSUME TypeOK,
           \/ Operator \/ Stop \/ Recover
           \/ \E c \in Cert : RotateCertificate(c)
           \/ \E p \in Consumer \cup {Nil} : MoveConsumer(p)
           \/ \E x \in Desired.refs : ChangeReference(x)
    PROVE  TypeOK' /\ lost' = 0 /\ UNCHANGED job /\ cron' \in {cron, Desired}
<1>t. /\ setup \in Setup /\ consumer \in Consumer \cup {Nil} /\ there \subseteq Reference
      /\ up \in BOOLEAN /\ tls \in Cert /\ cert \in Cert /\ status \in Cert \cup {Nil}
      /\ cron \in CronJobObj \cup {Nil} /\ job \in JobObj \cup {Nil}
      /\ faults \in 0 .. MaxFaults /\ edits \in 0 .. MaxEdits
  BY Zenon DEF TypeOK
<1>d. Desired \in CronJobObj /\ Desired.refs \subseteq Reference
  BY DesiredFacts, Zenon DEF CronJobObj
<1>m. Made(setup) \subseteq Reference
  BY DEF Made, Reference
<1>e. ASSUME NEW k, Edit(k) PROVE lost' = 0 /\ faults' \in 0 .. MaxFaults /\ edits' \in 0 .. MaxEdits
  BY <1>e, <1>t, SetupAssumption, SMTT(60) DEF Edit
<1>1. CASE ReconcileCronJob
  <2>1. cron' = Desired /\ lost' = 0 /\ UNCHANGED <<setup, world, job, budgets>>
    BY <1>1, ZenonT(60) DEF ReconcileCronJob
  <2> QED
    BY <1>t, <1>d, <2>1 DEF TypeOK, world, budgets
<1>2. CASE PublishFingerprint
  <2>1. status' = tls /\ lost' = 0
        /\ UNCHANGED <<setup, consumer, there, up, tls, cert, cron, job, budgets>>
    BY <1>2, ZenonT(60) DEF PublishFingerprint
  <2> QED
    BY <2>1, <1>t DEF TypeOK, budgets
<1>3. CASE RestoreReferences
  <2>1. there' = there \cup Made(setup) /\ lost' = 0
        /\ UNCHANGED <<setup, consumer, up, tls, cert, status, cron, job, budgets>>
    BY <1>3, ZenonT(60) DEF RestoreReferences
  <2> QED
    BY <2>1, <1>t, <1>m DEF TypeOK, budgets
<1>4. CASE Stop
  <2>1. up' \in BOOLEAN /\ Edit("server") /\ UNCHANGED <<setup, consumer, there, tls, cert, status, cron, job>>
    BY <1>4, ZenonT(60) DEF Stop
  <2> QED
    BY <2>1, <1>t, <1>e DEF TypeOK
<1>5. CASE Recover
  <2>1. up' \in BOOLEAN /\ cert' = tls /\ lost' = 0
        /\ UNCHANGED <<setup, consumer, there, tls, status, cron, job, budgets>>
    BY <1>5, ZenonT(60) DEF Recover
  <2> QED
    BY <2>1, <1>t DEF TypeOK, budgets
<1>6. ASSUME NEW c \in Cert, RotateCertificate(c) PROVE TypeOK' /\ lost' = 0 /\ UNCHANGED <<job, cron>>
  <2>1. tls' = c /\ Edit("certificate") /\ UNCHANGED <<setup, consumer, there, up, cert, status, cron, job>>
    BY <1>6, ZenonT(60) DEF RotateCertificate
  <2> QED
    BY <2>1, <1>t, <1>e DEF TypeOK
<1>7. ASSUME NEW p \in Consumer \cup {Nil}, MoveConsumer(p)
      PROVE  TypeOK' /\ lost' = 0 /\ UNCHANGED <<job, cron>>
  <2>1. consumer' = p /\ Edit("consumer") /\ UNCHANGED <<setup, there, up, tls, cert, status, cron, job>>
    BY <1>7, ZenonT(60) DEF MoveConsumer
  <2> QED
    BY <2>1, <1>t, <1>e DEF TypeOK
<1>8. ASSUME NEW x \in Desired.refs, ChangeReference(x)
      PROVE  TypeOK' /\ lost' = 0 /\ UNCHANGED <<job, cron>>
  <2>1. there' \in {there \ {x}, there \cup {x}} /\ Edit("reference")
        /\ UNCHANGED <<setup, consumer, up, tls, cert, status, cron, job>>
    BY <1>8, ZenonT(60) DEF ChangeReference
  <2>2. there' \subseteq Reference
    BY <1>t, <1>d, <2>1, SMTT(60)
  <2> QED
    BY <2>1, <2>2, <1>t, <1>e DEF TypeOK
<1> QED
  BY <1>1, <1>2, <1>3, <1>4, <1>5, <1>6, <1>7, <1>8 DEF Operator

\* A Job starts with the CronJob as it is, with nothing used up.
LEMMA StartMoves ==
    ASSUME TypeOK, LimitInv, StartJob
    PROVE  /\ job' \in JobObj /\ job'.spec = cron /\ job'.age = 0
           /\ job'.pods = 0 /\ job'.retries = 0 /\ job'.phase = "pending"
           /\ ~Active /\ cron \in CronJobObj /\ cron # Nil
           /\ UNCHANGED <<setup, world, cron, lost, budgets>>
<1>1. cron \in CronJobObj /\ cron # Nil
  BY DEF StartJob, TypeOK
<1>2. 0 \in Nat /\ 0 \in 0 .. ConnectAttempts
  BY SetupAssumption
<1>3. job' = [spec |-> cron, phase |-> "pending", node |-> Nil, attempt |-> 0, pods |-> 0,
              retries |-> 0, age |-> 0, snap |-> FALSE]
      /\ ~Active /\ UNCHANGED <<setup, world, cron, lost, budgets>>
  BY Zenon DEF StartJob
<1>4. job' \in JobObj
  BY <1>1, <1>2, <1>3, ZenonT(60) DEF JobObj, Waiting
<1> QED
  BY <1>1, <1>3, <1>4, SMTT(60)

LEMMA LimitStep == TypeOK /\ LimitInv /\ [Next]_vars => TypeOK' /\ LimitInv'
<1> SUFFICES ASSUME TypeOK, LimitInv, [Next]_vars PROVE TypeOK' /\ LimitInv'
  OBVIOUS
<1>t. /\ setup \in Setup /\ consumer \in Consumer \cup {Nil} /\ there \subseteq Reference
      /\ up \in BOOLEAN /\ tls \in Cert /\ cert \in Cert /\ status \in Cert \cup {Nil}
      /\ cron \in CronJobObj \cup {Nil} /\ job \in JobObj \cup {Nil}
      /\ lost \in 0 .. 2 /\ faults \in 0 .. MaxFaults /\ edits \in 0 .. MaxEdits
  BY Zenon DEF TypeOK
<1>1. CASE \/ Operator \/ Stop \/ Recover
           \/ \E c \in Cert : RotateCertificate(c)
           \/ \E p \in Consumer \cup {Nil} : MoveConsumer(p)
           \/ \E x \in Desired.refs : ChangeReference(x)
  <2>1. TypeOK' /\ UNCHANGED job /\ cron' \in {cron, Desired}
    BY <1>1, OtherMoves, Zenon
  <2>2. Desired.deadline # Nil
    BY DesiredFacts, SMTT(60)
  <2> QED
    BY <2>1, <2>2 DEF LimitInv
<1>2. CASE Pod \/ EvictPod \/ Wait \/ ExpireJob
  <2>1. Active /\ Moved
    BY <1>2, JobMoves, ZenonT(60)
  <2>2. TypeOK'
    BY <1>t, <2>1 DEF Moved, TypeOK, world
  <2>3. job.spec.deadline # Nil
    BY <2>1, SMTT(60) DEF LimitInv, Active
  <2> QED
    BY <2>1, <2>2, <2>3 DEF Moved, LimitInv
<1>3. CASE StartJob
  <2>1. /\ job' \in JobObj /\ job'.spec = cron /\ job'.age = 0 /\ job'.pods = 0 /\ job'.retries = 0
        /\ cron \in CronJobObj /\ cron # Nil /\ UNCHANGED <<setup, world, cron, lost, budgets>>
    BY <1>3, StartMoves, Zenon
  <2>2. TypeOK'
    BY <1>t, <2>1, ZenonT(60) DEF TypeOK, world, budgets
  <2>3. cron.deadline \in Nat /\ cron.deadline # Nil /\ cron.backoff \in Nat
    BY <2>1, SMTT(60) DEF LimitInv, CronJobObj
  <2> QED
    BY <2>1, <2>2, <2>3 DEF LimitInv
<1>4. CASE UNCHANGED vars
  BY <1>4, <1>t DEF vars, world, budgets, TypeOK, LimitInv
<1> QED
  BY <1>1, <1>2, <1>3, <1>4, Zenon DEF Next

\* The variables of the model keep their types for every set of nodes,
\* workloads, limits and faults: what builder.go builds is a CronJob, and the
\* connect loop of the script stays within connectRetryAttempts.
THEOREM JobTypeCorrect == Spec => []TypeOK
<1>1. TypeOK /\ LimitInv /\ [Next]_vars => TypeOK' /\ LimitInv'
  BY LimitStep
<1>2. Init => TypeOK /\ LimitInv
  BY InitInv
<1> QED
  BY <1>1, <1>2, PTL DEF Spec

LEMMA LimitCorrect == Spec => []LimitInv
<1>1. TypeOK /\ LimitInv /\ [Next]_vars => TypeOK' /\ LimitInv'
  BY LimitStep
<1>2. Init => TypeOK /\ LimitInv
  BY InitInv
<1> QED
  BY <1>1, <1>2, PTL DEF Spec

\* "It bounds a stuck pod so it cannot block future runs": because the
\* builder always sets a deadline and a backoff limit, each step of a Job
\* uses up some of a bounded supply, so no sequence of evictions, failed
\* connections, missing references and unschedulable pods goes on for ever.
THEOREM JobsWearOut == Spec => JobWearsOut
<1>1. ASSUME TypeOK, LimitInv, Next
      PROVE  Active /\ job' # job
                => /\ job'.spec = job.spec /\ Later(job, job')
                   /\ job'.pods <= job.spec.backoff /\ job'.retries <= job.spec.backoff
                   /\ job.spec.deadline # Nil /\ job'.age <= job.spec.deadline
  <2>1. CASE Pod \/ EvictPod \/ Wait \/ ExpireJob
    BY <1>1, <2>1, JobMoves, Zenon DEF Moved, LimitInv, Active
  <2>2. CASE StartJob
    BY <2>2, Zenon DEF StartJob
  <2>3. CASE \/ Operator \/ Stop \/ Recover
             \/ \E c \in Cert : RotateCertificate(c)
             \/ \E p \in Consumer \cup {Nil} : MoveConsumer(p)
             \/ \E x \in Desired.refs : ChangeReference(x)
    BY <1>1, <2>3, OtherMoves, Zenon
  <2> QED
    BY <1>1, <2>1, <2>2, <2>3, Zenon DEF Next
<1>2. TypeOK /\ LimitInv /\ [Next]_vars
        => [Active /\ job' # job
              => /\ job'.spec = job.spec /\ Later(job, job')
                 /\ job'.pods <= job.spec.backoff /\ job'.retries <= job.spec.backoff
                 /\ job.spec.deadline # Nil /\ job'.age <= job.spec.deadline]_vars
  BY <1>1, Zenon
<1> QED
  BY <1>2, JobTypeCorrect, LimitCorrect, PTL DEF Spec, JobWearsOut
-----------------------------------------------------------------------------
(***************************************************************************)
(* Lost Jobs                                                               *)
(***************************************************************************)
\* A workload's own node takes a pod with the tolerations copied from it.
LEMMA NodeOfWorkload ==
    ASSUME NEW c \in Consumer
    PROVE  c.node \in Node /\ Taints[c.node] \subseteq Tolerations(c)
<1>1. c.node \in Node /\ Taints[c.node] \subseteq c.tolerations
  BY SetupAssumption DEF Workload
<1>2. CASE c.tolerations = {}
  BY <1>1, <1>2
<1>3. CASE c.tolerations # {}
  BY <1>1, <1>3, NilAssumption DEF Tolerations
<1> QED
  BY <1>2, <1>3

\* Nothing stands in the way of a good Job while the surroundings are sound.
LEMMA GoodRuns ==
    ASSUME TypeOK, LimitInv, Sound, Active, Good
    PROVE  /\ Reachable /\ job.age < job.spec.deadline
           /\ job.phase = "pending" => \E n \in Node : Fits(n)
           /\ job.phase = "creating" => Startable
<1>1. /\ job.spec = Desired /\ job.age = 0 /\ Supported(setup) /\ up
      /\ setup.server => status = cert
      /\ Desired.refs \subseteq there
  BY DEF Good, Sound
<1>2. /\ Desired.node = (IF consumer = Nil THEN Nil ELSE consumer.node)
      /\ Desired.tolerations = Tolerations(consumer)
      /\ Desired.deadline \in Nat \ {0}
      /\ setup.server => Desired.config = "connect" /\ Desired.fingerprint = status
      /\ ~setup.server => Desired.config = (IF setup.storage = "filesystem" THEN "file" ELSE "empty")
  BY DesiredFacts
<1>3. Reachable
  BY <1>1, <1>2 DEF Reachable, Supported
<1>4. job.age < job.spec.deadline
  BY <1>1, <1>2
<1>5. job.phase = "pending" => \E n \in Node : Fits(n)
  <2>1. CASE consumer = Nil
    <3>1. PICK n \in Node : Taints[n] \subseteq DefaultTolerations
      BY <2>1 DEF Sound
    <3>2. Fits(n)
      BY <1>1, <1>2, <2>1, <3>1 DEF Fits, Tolerations
    <3> QED
      BY <3>2
  <2>2. CASE consumer # Nil
    <3>1. consumer \in Consumer
      BY <2>2 DEF TypeOK
    <3>2. consumer.node \in Node /\ Fits(consumer.node)
      BY <1>1, <1>2, <2>2, <3>1, NodeOfWorkload DEF Fits
    <3> QED
      BY <3>2
  <2> QED
    BY <2>1, <2>2
<1>6. job.phase = "creating" => Startable
  BY <1>1 DEF Startable, Good
<1> QED
  BY <1>3, <1>4, <1>5, <1>6

\* A good Job stays good with every step it takes, and none of them fails.
LEMMA GoodStays ==
    ASSUME TypeOK, LimitInv, Sound, Active, Good, Pod \/ Wait \/ ExpireJob, lost' # 0
    PROVE  lost' = lost /\ (job'.phase \in Waiting \cup Running => job'.spec = job.spec /\ job'.age = 0
                              /\ (job'.phase # "pending" /\ consumer # Nil => job'.node = consumer.node))
<1>1. /\ Reachable /\ job.age < job.spec.deadline
      /\ job.phase = "pending" => \E n \in Node : Fits(n)
      /\ job.phase = "creating" => Startable
  BY GoodRuns
<1>2. /\ job \in JobObj /\ job.age = 0 /\ job.spec = Desired
      /\ job.age \in Nat /\ job.spec.deadline \in Nat \cup {Nil} /\ job.spec.deadline # Nil
      /\ job.phase # "pending" /\ consumer # Nil => job.node = consumer.node
  BY ActiveFacts DEF Good, LimitInv, Active
<1>3. ASSUME NEW n \in Node, SchedulePod(n)
      PROVE  lost' = lost /\ job'.spec = job.spec /\ job'.age = 0
             /\ (consumer # Nil => job'.node = consumer.node)
  <2>1. Fits(n) /\ job' = [job EXCEPT !.phase = "creating", !.node = n] /\ lost' = lost
    BY <1>3, Zenon DEF SchedulePod
  <2>2. job'.spec = job.spec /\ job'.age = job.age /\ job'.node = n
    BY <1>2, <2>1, ZenonT(60) DEF JobObj
  <2>3. consumer # Nil => n = consumer.node
    <3>1. Desired.node = (IF consumer = Nil THEN Nil ELSE consumer.node)
      BY DesiredFacts
    <3>2. consumer # Nil => consumer.node \in Node
      BY NodeOfWorkload DEF TypeOK
    <3> QED
      BY <1>2, <2>1, <3>1, <3>2, NilAssumption, SMTT(60) DEF Fits
  <2> QED
    BY <1>2, <2>1, <2>2, <2>3
<1>4. CASE StartContainer \/ Connect \/ CreateSnapshot \/ ListSnapshots
  <2>1. /\ lost' = lost /\ job.phase # "pending"
        /\ \/ job' = [job EXCEPT !.phase = FirstStep, !.attempt = 1]
           \/ job' = [job EXCEPT !.phase = "snapshot"]
           \/ job' = [job EXCEPT !.phase = "list", !.snap = TRUE]
           \/ job' = [job EXCEPT !.phase = "complete"]
    <3>1. CASE StartContainer
      BY <3>1 DEF StartContainer
    <3>2. CASE Connect
      BY <1>1, <3>2 DEF Connect
    <3>3. CASE CreateSnapshot
      BY <1>1, <3>3 DEF CreateSnapshot, Fault
    <3>4. CASE ListSnapshots
      BY <1>1, <3>4 DEF ListSnapshots
    <3> QED
      BY <1>4, <3>1, <3>2, <3>3, <3>4
  <2>2. job'.spec = job.spec /\ job'.age = job.age /\ job'.node = job.node
    BY <1>2, <2>1, ZenonT(60) DEF JobObj
  <2> QED
    BY <1>2, <2>1, <2>2
<1>5. ~Wait
  BY <1>1 DEF Wait
<1>6. ~ExpireJob
  BY <1>1, <1>2 DEF ExpireJob
<1> QED
  BY <1>3, <1>4, <1>5, <1>6 DEF Pod

\* When the count goes up, the Job it counts is over.
LEMMA LostEnds ==
    ASSUME TypeOK, Pod \/ Wait \/ ExpireJob, lost' # lost, lost' # 0
    PROVE  lost' = (IF lost < 2 THEN lost + 1 ELSE lost) /\ job'.phase = "failed"
<1>1. Fail
  <2>1. CASE Connect
    BY <2>1 DEF Connect, ContainerFails
  <2>2. CASE ListSnapshots
    BY <2>2 DEF ListSnapshots, ContainerFails
  <2>3. CASE CreateSnapshot
    BY <2>3 DEF CreateSnapshot, Fault
  <2>4. CASE StartContainer \/ Wait
    BY <2>4 DEF StartContainer, Wait
  <2>5. CASE ExpireJob
    BY <2>5 DEF ExpireJob
  <2>6. ASSUME NEW n \in Node, SchedulePod(n) PROVE FALSE
    BY <2>6 DEF SchedulePod
  <2> QED
    BY <2>1, <2>2, <2>3, <2>4, <2>5, <2>6 DEF Pod
<1>2. job \in JobObj
  <2>1. Active
    BY Zenon DEF Pod, SchedulePod, StartContainer, Connect, CreateSnapshot, ListSnapshots, Wait, ExpireJob
  <2> QED
    BY <2>1, ActiveFacts
<1> QED
  BY <1>1, <1>2, ZenonT(60) DEF Fail, JobObj

LEMMA LossStep == TypeOK /\ LimitInv /\ LossInv /\ [Next]_vars => LossInv'
<1> SUFFICES ASSUME TypeOK, LimitInv, LossInv, [Next]_vars, Sound', cron' = Desired', lost' > 0
             PROVE  lost' = 1 /\ (Active' => Good')
  BY SMTT(60) DEF LossInv
<1>t. TypeOK' /\ lost \in 0 .. 2 /\ lost' \in 0 .. 2
  BY LimitStep DEF TypeOK
<1>s. ASSUME UNCHANGED <<setup, world, cron>>
      PROVE  Sound /\ cron = Desired /\ Desired' = Desired /\ UNCHANGED consumer
  <2>1. UNCHANGED <<setup, consumer, there, up, tls, cert, status, cron>>
    BY <1>s DEF world
  <2>2. Desired' = Desired
    BY <2>1 DEF Desired
  <2>3. Sound' <=> Sound
    BY <2>1, <2>2, ZenonT(60) DEF Sound
  <2> QED
    BY <2>1, <2>2, <2>3, ZenonT(60)
<1>1. CASE \/ Operator \/ Stop \/ Recover
           \/ \E c \in Cert : RotateCertificate(c)
           \/ \E p \in Consumer \cup {Nil} : MoveConsumer(p)
           \/ \E x \in Desired.refs : ChangeReference(x)
  BY <1>1, OtherMoves
<1>2. CASE EvictPod
  BY <1>2 DEF EvictPod, Fault
<1>3. CASE StartJob
  <2>1. /\ job'.spec = cron /\ job'.age = 0 /\ job'.phase = "pending"
        /\ UNCHANGED <<setup, world, cron, lost>>
    BY <1>3, StartMoves
  <2>2. Sound /\ cron = Desired /\ Desired' = Desired
    BY <2>1, <1>s
  <2> QED
    BY <2>1, <2>2 DEF Good, LossInv
<1>4. CASE Pod \/ Wait \/ ExpireJob
  <2>1. Active /\ UNCHANGED <<setup, world, cron>>
    BY <1>4, JobMoves DEF Moved
  <2>2. Sound /\ cron = Desired /\ Desired' = Desired /\ UNCHANGED consumer
    BY <2>1, <1>s
  <2>3. CASE lost = 0
    <3>1. lost' # lost
      BY <2>3
    <3>2. lost' = (IF lost < 2 THEN lost + 1 ELSE lost) /\ job'.phase = "failed"
      BY <1>4, <3>1, LostEnds, SMTT(60)
    <3> QED
      BY <2>3, <3>2 DEF Active, Waiting, Running
  <2>4. CASE lost > 0
    <3>1. lost = 1 /\ Good
      BY <2>1, <2>2, <2>4, SMTT(60) DEF LossInv
    <3>2. lost' = lost /\ (job'.phase \in Waiting \cup Running => job'.spec = job.spec /\ job'.age = 0
                              /\ (job'.phase # "pending" /\ consumer # Nil => job'.node = consumer.node))
      BY <1>4, <2>1, <2>2, <3>1, GoodStays
    <3> QED
      BY <2>2, <3>1, <3>2 DEF Good, Active
  <2> QED
    BY <1>t, <2>3, <2>4
<1>5. CASE UNCHANGED vars
  <2>1. UNCHANGED <<setup, world, cron, job, lost>>
    BY <1>5 DEF vars
  <2>2. Sound /\ cron = Desired /\ Desired' = Desired /\ UNCHANGED consumer
    BY <2>1, <1>s
  <2> QED
    BY <2>1, <2>2 DEF LossInv, Good, Active
<1> QED
  BY <1>1, <1>2, <1>3, <1>4, <1>5, Zenon DEF Next

\* While nothing changes around an up-to-date CronJob, at most the Job that
\* was started before is lost, whatever nodes, taints, workloads and limits
\* there are: with the affinity, the tolerations and the fingerprint of
\* buildCronJob the next Job can be scheduled, start, connect and finish.
THEOREM AtMostOneLost == Spec => []LosesAtMostOne
<1>1. TypeOK /\ LimitInv /\ LossInv /\ [Next]_vars => LossInv'
  BY LossStep
<1>2. Init => LossInv
  BY InitInv
<1>3. TypeOK /\ LossInv => LosesAtMostOne
  BY DEF LossInv, LosesAtMostOne, TypeOK
<1> QED
  BY <1>1, <1>2, <1>3, JobTypeCorrect, LimitCorrect, PTL DEF Spec
=============================================================================
