----------------------------- MODULE BackupJob -----------------------------
(***************************************************************************)
(* What becomes of the CronJob the KopiaBackup reconciler writes: the      *)
(* admission of the repository and the backup, the CronJob built from      *)
(* them, and the Jobs it starts, down to the commands of the script in the *)
(* pod, while the workload, the Kopia server, its certificate and the      *)
(* objects the pod refers to come and go.                                  *)
(*                                                                         *)
(* One backup with its repository.  How the reconciler brings the CronJob  *)
(* up to date is the matter of BackupPlacement, how the Secret and the     *)
(* certificate are kept is that of BackupCredentials and RepositoryServer: *)
(* here each is one step.  The CronJob and Job controllers, the scheduler, *)
(* the kubelet and kopia are not part of the repository.                   *)
(*                                                                         *)
(* Time is counted in delays between two attempts to connect.  Only        *)
(* waiting takes time: a snapshot is short against the deadline.           *)
(***************************************************************************)
EXTENDS Naturals

CONSTANTS
    Setup,            \* the repositories and backups submitted
    TaintKey,         \* the keys of taints
    Node, Taints,     \* the nodes and the taints of each
    Consumer,         \* the pods that may use the PVC
    Cert,             \* certificates of the server
    Nil,              \* nothing there, nothing set
    ConnectAttempts,  \* connectRetryAttempts
    DefaultDeadline,  \* defaultActiveDeadlineSeconds, in delays
    DefaultBackoff,   \* defaultBackoffLimit
    Faults, Edits,    \* the kinds of faults and changes that may happen
    MaxFaults,        \* bound: how many faults happen
    MaxEdits          \* bound: how many changes happen

FaultKind == {"kopia", "evict"}

EditKind == {"server", "certificate", "consumer", "reference"}

\* What a pod may need in the namespace of the backup.
Reference == {"pvc", "userSecret", "configMap", "passwordSecret", "sftpSecret"}

Volume == {"data", "kopia-cache", "config", "repo", "sftp-credentials"}

Field == {"path", "nfs", "host", "credentialsSecret"}

\* spec.server.enabled, spec.storageType and the fields given of the options
\* of the storage; the length of spec.pvcName, the number of fields of
\* spec.schedule, spec.activeDeadlineSeconds (in delays) and spec.backoffLimit.
SetupOf(L) == [server : BOOLEAN, storage : {"filesystem", "sftp", "other"}, given : SUBSET Field,
               pvcName : L, schedule : L, deadline : L \cup {Nil}, backoff : L \cup {Nil}]

\* A running pod with its node, the application it belongs to and what it
\* tolerates.
Workload == [node : Node, app : STRING, tolerations : SUBSET TaintKey]

\* A deadline is positive, by the validation of the field.  A pod runs only
\* where it tolerates the taints.
ASSUME SetupAssumption ==
    /\ Setup \subseteq SetupOf(Nat) /\ \A s \in Setup : s.deadline # 0
    /\ "dedicated" \in TaintKey /\ Taints \in [Node -> SUBSET TaintKey]
    /\ Consumer \subseteq Workload /\ \A c \in Consumer : Taints[c.node] \subseteq c.tolerations
    /\ Cert # {}
    /\ ConnectAttempts \in Nat \ {0} /\ DefaultDeadline \in Nat \ {0} /\ DefaultBackoff \in Nat
    /\ Faults \subseteq FaultKind /\ Edits \subseteq EditKind
    /\ MaxFaults \in Nat /\ MaxEdits \in Nat

ASSUME NilAssumption == Nil \notin Nat /\ Nil \notin Node /\ Nil \notin Consumer

VARIABLES
    setup,     \* the repository and the backup
    consumer,  \* the running pod that uses the PVC
    there,     \* the references that exist
    up,        \* whether the server, or the storage in direct mode, answers
    tls,       \* the certificate in the server's TLS Secret
    cert,      \* the certificate the server presents
    status,    \* status.tlsCertFingerprint of the repository
    cron,      \* the CronJob
    job,       \* the CronJob's last Job
    lost,      \* history: Jobs failed since anything else changed
    faults,    \* faults that may still happen
    edits      \* changes that may still happen

world == <<consumer, there, up, tls, cert, status>>
budgets == <<faults, edits>>
vars == <<setup, world, cron, job, lost, budgets>>
-----------------------------------------------------------------------------
(***************************************************************************)
(* Admission                                                               *)
(***************************************************************************)
ValidateKopiaRepository(s) ==
    \/ s.storage = "filesystem" /\ "path" \in s.given
    \/ s.storage = "sftp" /\ {"path", "host", "credentialsSecret"} \subseteq s.given

\* The schedule has five fields and spec.pvcName is a DNS-1123 subdomain,
\* of which the length matters here.
ValidateKopiaBackup(s) == s.schedule = 5 /\ s.pvcName \in 1 .. 253

Admitted(s) == ValidateKopiaRepository(s) /\ ValidateKopiaBackup(s)
-----------------------------------------------------------------------------
(***************************************************************************)
(* The CronJob                                                             *)
(***************************************************************************)
\* The length of "snapshot-", followed by the name or by its first 42
\* characters, a dash and its last one.
CronJobName(length) ==
    9 + (IF length = 0 THEN 7 ELSE IF length > 42 THEN 42 + 2 ELSE length)

DefaultTolerations == {"dedicated"}

\* Mutant: the tolerations of the workload are not copied.
TolerationsFixed(p) == DefaultTolerations

Tolerations(p) == IF p = Nil \/ p.tolerations = {} THEN DefaultTolerations ELSE p.tolerations

BuildNodeAffinity(p) == IF p = Nil THEN Nil ELSE p.node

\* The source of the snapshots: whether the application is part of the path.
MountPath(p) == IF p = Nil THEN Nil ELSE p.app

\* Mutant: a deadline that is not given stays so.
ActiveDeadlineAsGiven(s) == s.deadline

ActiveDeadline(s) == IF s.deadline = Nil THEN DefaultDeadline ELSE s.deadline

BackoffLimit(s) == IF s.backoff = Nil THEN DefaultBackoff ELSE s.backoff

\* Mutant: the fingerprint is left to the image.
ServerModeConfigBare(fingerprint) ==
    [mounts |-> {"kopia-cache"}, volumes |-> {"kopia-cache"}, refs |-> {"userSecret"},
     blank |-> {}, fingerprint |-> Nil, config |-> "connect"]

\* The cache, which also takes the configuration connect writes, the user's
\* Secret and the fingerprint, left out while the status has none.
ServerModeConfig(fingerprint) ==
    [mounts |-> {"kopia-cache"}, volumes |-> {"kopia-cache"}, refs |-> {"userSecret"},
     blank |-> {}, fingerprint |-> fingerprint, config |-> "connect"]

\* The configuration comes from the ConfigMap; for SFTP, which has none, the
\* volume is empty.  blank: what is required of volumes and mounts and unset.
DirectModeConfig(s) ==
    LET vols == (IF s.storage = "filesystem" THEN {"config", "repo"} ELSE {})
                  \cup (IF s.storage = "sftp" THEN {"config", "sftp-credentials", "kopia-cache"} ELSE {})
    IN [mounts |-> {"config"} \cup vols, volumes |-> vols,
        refs |-> {"passwordSecret"} \cup (IF s.storage = "filesystem" THEN {"configMap"} ELSE {})
                                   \cup (IF s.storage = "sftp" THEN {"sftpSecret"} ELSE {}),
        blank |-> (IF s.storage = "filesystem" THEN {"path", "nfs"} ELSE {"credentialsSecret"}) \ s.given,
        fingerprint |-> Nil,
        config |-> IF s.storage = "filesystem" THEN "file" ELSE "empty"]

BuildCronJob(s, p, fingerprint) ==
    LET c == IF s.server THEN ServerModeConfig(fingerprint) ELSE DirectModeConfig(s)
    IN [name |-> CronJobName(s.pvcName), node |-> BuildNodeAffinity(p), app |-> MountPath(p),
        tolerations |-> Tolerations(p), deadline |-> ActiveDeadline(s), backoff |-> BackoffLimit(s),
        mounts |-> {"data"} \cup c.mounts, volumes |-> {"data"} \cup c.volumes,
        refs |-> {"pvc"} \cup c.refs, blank |-> c.blank,
        fingerprint |-> c.fingerprint, config |-> c.config]

Desired == BuildCronJob(setup, consumer, status)

\* The API server's validation: the name leaves room for the suffix of the
\* Jobs, mounts name volumes and nothing required is missing.
Accepted(c) == c.name <= 52 /\ c.mounts \subseteq c.volumes /\ c.blank = {}

\* The references the operator makes itself.
Made(s) == IF s.server THEN {"userSecret"} ELSE IF s.storage = "filesystem" THEN {"configMap"} ELSE {}

Init ==
    /\ setup \in {s \in Setup : Admitted(s)}
    /\ consumer \in Consumer \cup {Nil}
    /\ there \in {Made(setup) \cup t : t \in {{"pvc"}, {"pvc", "passwordSecret", "sftpSecret"}}}
    /\ up = TRUE
    /\ tls = (CHOOSE c \in Cert : TRUE) /\ cert = tls /\ status = Nil
    /\ cron = Nil /\ job = Nil
    /\ lost = 0
    /\ faults = MaxFaults /\ edits = MaxEdits

\* The reconcile ends before the CronJob when the PVC is gone or its own
\* references are not made; a CronJob refused is an error and tried again.
ReconcileCronJob ==
    /\ {"pvc"} \cup Made(setup) \subseteq there
    /\ cron # Desired /\ Accepted(Desired)
    /\ cron' = Desired
    /\ lost' = 0
    /\ UNCHANGED <<setup, world, job, budgets>>
-----------------------------------------------------------------------------
(***************************************************************************)
(* The Jobs                                                                *)
(***************************************************************************)
Fault(kind) == kind \in Faults /\ faults > 0 /\ faults' = faults - 1 /\ lost' = 0 /\ UNCHANGED edits

Waiting == {"pending", "creating"}

Running == {"connect", "snapshot", "list"}

Active == job # Nil /\ job.phase \in Waiting \cup Running

\* Forbid: no Job is started while one is active.
StartJob ==
    /\ cron # Nil /\ ~Active
    /\ job' = [spec |-> cron, phase |-> "pending", node |-> Nil, attempt |-> 0, pods |-> 0,
               retries |-> 0, age |-> 0, snap |-> FALSE]
    /\ UNCHANGED <<setup, world, cron, lost, budgets>>

Fits(n) == job.spec.node \in {Nil, n} /\ Taints[n] \subseteq job.spec.tolerations

SchedulePod(n) ==
    /\ Active /\ job.phase = "pending" /\ Fits(n)
    /\ job' = [job EXCEPT !.phase = "creating", !.node = n]
    /\ UNCHANGED <<setup, world, cron, lost, budgets>>

\* The volume, attached to one node at a time, and every reference are there.
Startable == job.spec.refs \subseteq there /\ (consumer # Nil => consumer.node = job.node)

FirstStep == IF job.spec.config = "connect" THEN "connect" ELSE "snapshot"

\* The init container's random wait is part of it.
StartContainer ==
    /\ Active /\ job.phase = "creating" /\ Startable
    /\ job' = [job EXCEPT !.phase = FirstStep, !.attempt = 1]
    /\ UNCHANGED <<setup, world, cron, lost, budgets>>

\* There is time left; without a deadline nobody counts.
InTime == job.spec.deadline # Nil => job.age < job.spec.deadline

Older == IF job.spec.deadline = Nil THEN job.age ELSE job.age + 1

Fail == job' = [job EXCEPT !.phase = "failed"] /\ lost' = IF lost < 2 THEN lost + 1 ELSE lost

\* restartPolicy OnFailure: the container is started again in the same pod,
\* with what the Secrets hold by then.  The Job controller gives up on the
\* restart that reaches the backoff limit, with a limit of 0 on the first.
ContainerFails ==
    \/ /\ job.retries + 1 < job.spec.backoff
       /\ job' = [job EXCEPT !.phase = "creating", !.retries = @ + 1]
       /\ UNCHANGED lost
    \/ job.retries + 1 >= job.spec.backoff /\ Fail

\* A kopia command finds the repository: connected to a server that answers
\* with the certificate pinned, or configured for a storage that answers.
Reachable ==
    /\ up
    /\ \/ job.spec.config = "connect" /\ job.spec.fingerprint = cert
       \/ job.spec.config = "file"

\* Mutant: the loop counts one attempt too many.
ConnectLate ==
    /\ Active /\ job.phase = "connect"
    /\ \/ Reachable /\ job' = [job EXCEPT !.phase = "snapshot"] /\ UNCHANGED lost
       \/ /\ ~Reachable /\ job.attempt <= ConnectAttempts /\ InTime
          /\ job' = [job EXCEPT !.attempt = @ + 1, !.age = Older]
          /\ UNCHANGED lost
       \/ ~Reachable /\ job.attempt > ConnectAttempts /\ ContainerFails
    /\ UNCHANGED <<setup, world, cron, budgets>>

Connect ==
    /\ Active /\ job.phase = "connect"
    /\ \/ Reachable /\ job' = [job EXCEPT !.phase = "snapshot"] /\ UNCHANGED lost
       \/ /\ ~Reachable /\ job.attempt < ConnectAttempts /\ InTime
          /\ job' = [job EXCEPT !.attempt = @ + 1, !.age = Older]
          /\ UNCHANGED lost
       \/ ~Reachable /\ job.attempt >= ConnectAttempts /\ ContainerFails
    /\ UNCHANGED <<setup, world, cron, budgets>>

\* Whatever the outcome, the script goes on.
CreateSnapshot ==
    /\ Active /\ job.phase = "snapshot"
    /\ \/ Reachable /\ job' = [job EXCEPT !.phase = "list", !.snap = TRUE] /\ UNCHANGED <<lost, budgets>>
       \/ ~Reachable /\ job' = [job EXCEPT !.phase = "list"] /\ UNCHANGED <<lost, budgets>>
       \/ Fault("kopia") /\ job' = [job EXCEPT !.phase = "list"]
    /\ UNCHANGED <<setup, world, cron>>

\* The listing and, in direct mode, the statistics end the script on failure;
\* disconnecting does not.
ListSnapshots ==
    /\ Active /\ job.phase = "list"
    /\ \/ Reachable /\ job' = [job EXCEPT !.phase = "complete"] /\ UNCHANGED lost
       \/ ~Reachable /\ ContainerFails
    /\ UNCHANGED <<setup, world, cron, budgets>>

\* The pod is lost with its node and replaced, unless as many were lost before
\* as the backoff limit allows.  The restarts of a pod are forgotten with it.
EvictPod ==
    /\ Active /\ job.phase # "pending" /\ Fault("evict")
    /\ job' = IF job.pods < job.spec.backoff
              THEN [job EXCEPT !.phase = "pending", !.node = Nil, !.pods = @ + 1, !.retries = 0]
              ELSE [job EXCEPT !.phase = "failed"]
    /\ UNCHANGED <<setup, world, cron>>

\* Time passes over a pod that cannot start.
Wait ==
    /\ Active /\ InTime
    /\ \/ job.phase = "pending" /\ \A n \in Node : ~Fits(n)
       \/ job.phase = "creating" /\ ~Startable
    /\ job' = [job EXCEPT !.age = Older]
    /\ UNCHANGED <<setup, world, cron, lost, budgets>>

\* The Job controller ends a Job at its deadline.
ExpireJob ==
    /\ Active /\ job.spec.deadline # Nil /\ job.age >= job.spec.deadline
    /\ Fail
    /\ UNCHANGED <<setup, world, cron, budgets>>
-----------------------------------------------------------------------------
(***************************************************************************)
(* What else happens                                                       *)
(***************************************************************************)
Edit(kind) == kind \in Edits /\ edits > 0 /\ edits' = edits - 1 /\ lost' = 0 /\ UNCHANGED faults

Stop ==
    /\ up /\ Edit("server")
    /\ up' = FALSE
    /\ UNCHANGED <<setup, consumer, there, tls, cert, status, cron, job>>

\* A server reads its certificate when it starts.
Recover ==
    /\ ~up
    /\ up' = TRUE /\ cert' = tls /\ lost' = 0
    /\ UNCHANGED <<setup, consumer, there, tls, status, cron, job, budgets>>

\* The Secret is replaced; the server goes on with the certificate it has.
RotateCertificate(c) ==
    /\ setup.server /\ c # tls /\ Edit("certificate")
    /\ tls' = c
    /\ UNCHANGED <<setup, consumer, there, up, cert, status, cron, job>>

\* The repository controller publishes the fingerprint of what the Secret
\* holds, whatever the server presents.
PublishFingerprint ==
    /\ setup.server /\ status # tls
    /\ status' = tls /\ lost' = 0
    /\ UNCHANGED <<setup, consumer, there, up, tls, cert, cron, job, budgets>>

\* The workload cannot run elsewhere while the Job has the volume.
MoveConsumer(p) ==
    /\ p # consumer /\ Edit("consumer")
    /\ Active /\ job.phase \in Running /\ p # Nil => p.node = job.node
    /\ consumer' = p
    /\ UNCHANGED <<setup, there, up, tls, cert, status, cron, job>>

ChangeReference(x) ==
    /\ Edit("reference")
    /\ there' = IF x \in there THEN there \ {x} ELSE there \cup {x}
    /\ UNCHANGED <<setup, consumer, up, tls, cert, status, cron, job>>

\* The reconcile makes its own references again, if the PVC is there and, for
\* the user's Secret, the server answers.
RestoreReferences ==
    /\ "pvc" \in there /\ ~(Made(setup) \subseteq there) /\ (setup.server => up)
    /\ there' = there \cup Made(setup) /\ lost' = 0
    /\ UNCHANGED <<setup, consumer, up, tls, cert, status, cron, job, budgets>>

Operator == ReconcileCronJob \/ PublishFingerprint \/ RestoreReferences

Pod ==
    \/ \E n \in Node : SchedulePod(n)
    \/ StartContainer \/ Connect \/ CreateSnapshot \/ ListSnapshots

Next ==
    \/ Operator \/ Pod \/ StartJob \/ Wait \/ ExpireJob \/ EvictPod \/ Stop \/ Recover
    \/ \E c \in Cert : RotateCertificate(c)
    \/ \E p \in Consumer \cup {Nil} : MoveConsumer(p)
    \/ \E x \in Desired.refs : ChangeReference(x)

\* The operator reconciles, the schedule comes round, pods make progress,
\* time passes, deadlines are enforced and servers come back.
Fairness ==
    /\ WF_vars(ReconcileCronJob) /\ WF_vars(PublishFingerprint) /\ WF_vars(RestoreReferences)
    /\ WF_vars(StartJob) /\ WF_vars(Pod) /\ WF_vars(Wait) /\ WF_vars(ExpireJob) /\ WF_vars(Recover)

Spec == Init /\ [][Next]_vars

FairSpec == Spec /\ Fairness
-----------------------------------------------------------------------------
(***************************************************************************)
(* Properties                                                              *)
(***************************************************************************)
CronJobObj ==
    [name : Nat, node : Node \cup {Nil}, app : STRING \cup {Nil},
     tolerations : SUBSET TaintKey, deadline : Nat \cup {Nil}, backoff : Nat,
     mounts : SUBSET Volume, volumes : SUBSET Volume, refs : SUBSET Reference,
     blank : SUBSET Field, fingerprint : Cert \cup {Nil}, config : {"connect", "file", "empty"}]

JobObj ==
    [spec : CronJobObj, phase : Waiting \cup Running \cup {"complete", "failed"}, node : Node \cup {Nil},
     attempt : 0 .. ConnectAttempts, pods : Nat, retries : Nat, age : Nat, snap : BOOLEAN]

\* The variables keep their types; the connect loop stays within its attempts.
TypeOK ==
    /\ setup \in Setup /\ consumer \in Consumer \cup {Nil} /\ there \subseteq Reference
    /\ up \in BOOLEAN /\ tls \in Cert /\ cert \in Cert /\ status \in Cert \cup {Nil}
    /\ cron \in CronJobObj \cup {Nil} /\ job \in JobObj \cup {Nil}
    /\ lost \in 0 .. 2 /\ faults \in 0 .. MaxFaults /\ edits \in 0 .. MaxEdits

\* The CronJob is accepted and its Jobs find a configuration: not so for a
\* long PVC name, a filesystem without NFS server and SFTP in direct mode.
Supported(s) ==
    /\ s.pvcName <= 42
    /\ s.server \/ (s.storage = "filesystem" /\ "nfs" \in s.given)

\* The repository answers, a server with the certificate whose fingerprint is
\* published, all that the Jobs refer to exists and, while no workload uses the
\* PVC, some node takes a pod with the default tolerations.
Sound ==
    /\ Supported(setup)
    /\ up /\ (setup.server => status = cert)
    /\ Desired.refs \subseteq there
    /\ consumer = Nil => \E n \in Node : Taints[n] \subseteq DefaultTolerations

\* While nothing changes around an up-to-date CronJob, at most the Job that
\* was started before is lost, to its old node, tolerations or fingerprint:
\* the next one can start, connect and finish, wherever the workload runs.
LosesAtMostOne == Sound /\ cron = Desired => lost <= 1

\* "It bounds a stuck pod so it cannot block future runs": whatever its pod
\* waits for, whether or not a deadline is given, every Job ends.
JobEnds == Active ~> ~Active

Stage(phase) ==
    IF phase = "pending" THEN 0 ELSE IF phase = "creating" THEN 1
    ELSE IF phase = "connect" THEN 2 ELSE IF phase = "snapshot" THEN 3
    ELSE IF phase = "list" THEN 4 ELSE 5

\* More pods, more restarts, more time or more of the script is used up, in
\* that order.
Later(j, k) ==
    \/ j.pods < k.pods
    \/ j.pods = k.pods /\ j.retries < k.retries
    \/ j.pods = k.pods /\ j.retries = k.retries /\ j.age < k.age
    \/ /\ j.pods = k.pods /\ j.retries = k.retries /\ j.age = k.age
       /\ Stage(j.phase) < Stage(k.phase)

\* Why no Job can block future runs: whatever happens around it, each step of
\* a Job uses up pods, restarts, time or commands for good, within the backoff
\* limit and the deadline buildCronJob has given it, one also where the backup
\* names none, so only so many steps are left.
JobWearsOut ==
    [][Active /\ job' # job
          => /\ job'.spec = job.spec /\ Later(job, job')
             /\ job'.pods <= job.spec.backoff /\ job'.retries <= job.spec.backoff
             /\ job.spec.deadline # Nil /\ job'.age <= job.spec.deadline]_vars

\* After moves of the workload, rotations, outages, evictions and lost
\* references, Jobs stuck in any of them included, snapshots are taken again
\* and again, once the surroundings stay sound.
SnapshotsResume == <>[]Sound => []<>(Active /\ job.phase = "list" /\ job.snap)

\* "The connect step retries internally, so these retries cover the snapshot
\* itself": a Job is not done before one of its runs has made the snapshot.
CompleteMeansSnapshot == job # Nil /\ job.phase = "complete" => job.snap
=============================================================================
