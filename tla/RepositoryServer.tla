-------------------------- MODULE RepositoryServer --------------------------
(***************************************************************************)
(* One KopiaRepository and its Kopia server: the KopiaRepository           *)
(* reconciler, the server manager it calls, the TLS Secret, the Deployment *)
(* and the Service it maintains, the server pod, and the status the        *)
(* clients of the server rely on.  The reconciler watches the repository,  *)
(* the Deployment and the Service, but not the Secret.                     *)
(***************************************************************************)
EXTENDS WatchStream, FiniteSets

CONSTANTS
    Settings,      \* the server settings a KopiaRepository may have
    Cert,          \* certificates; one nobody holds any more serves as a new one
    UserCert,      \* what the user's own Secret holds at the start, or Nil
    Nil,           \* no object, no certificate, no pod
    Scenario,      \* what may happen in a behaviour, and how often
    MaxLag         \* bound: versions between the API server and a cache

FaultKind == {"api", "crash"}

EditKind == {"spec", "mode", "tls", "delete", "deployment", "service", "secret", "userSecret",
             "expire", "pod"}

Kind == FaultKind \cup EditKind

\* The generated TLS Secret and the one named by spec.server.tls.secretName.
TlsKind == {"auto", "user"}

Condition == {"None", "True", "False"}

\* The Ready condition with its observedGeneration, the ServerReady condition,
\* serverReady and tlsCertFingerprint.  A fingerprint stands for its
\* certificate.  What else the status holds are fixed names.
Status == [ready : Condition, seen : Nat, srv : Condition, serverReady : BOOLEAN,
           fp : Cert \cup {Nil}]

NoStatus == [ready |-> "None", seen |-> 0, srv |-> "None", serverReady |-> FALSE, fp |-> Nil]

\* A KopiaRepository: its UID, its generation, spec.server.enabled, where the
\* certificate comes from and the other server settings.
RepoObj == [uid : Nat, gen : Nat, server : BOOLEAN, tls : TlsKind, spec : Settings, st : Status]

\* A Deployment: what its pod template was built from and whether its status
\* has all replicas ready.
DeploymentObj == [spec : Settings, tls : TlsKind, ready : BOOLEAN]

\* The server pod: its template and the certificate it loaded.
Pod == [spec : Settings, tls : TlsKind, cert : Cert]

Phase == {"rotate", "generate", "deployment", "service", "report", "failed"}

\* The reconcile in progress: the copy of the repository with its status as
\* set so far, and whether its resourceVersion is still current.
Job == [pc : Phase, obj : RepoObj, fresh : BOOLEAN]

IdleJob == [pc |-> "idle", obj |-> Nil, fresh |-> FALSE]

ASSUME ConstantsAssumption ==
    /\ Settings # {}
    /\ UserCert \in Cert \cup {Nil}
    /\ Scenario \subseteq [kinds : SUBSET Kind, faults : Nat, edits : Nat]
    /\ MaxLag \in Nat \ {0, 1}

ASSUME NilAssumption == Nil \notin Cert \cup Settings \cup RepoObj \cup DeploymentObj \cup Pod

VARIABLES
    repo,     \* the stream of the KopiaRepository
    tls,      \* the streams of the two TLS Secrets: their certificates
    dep,      \* the stream of the Deployment
    svc,      \* the stream of the Service: the settings it was built from
    orphans,  \* children whose owner is gone, awaiting garbage collection
    aged,     \* certificates that expire within 30 days
    pod,      \* the server pod
    uids,     \* UIDs given to the repository so far
    queued,   \* the repository is in the work queue
    job,      \* the reconcile in progress
    allowed,  \* the kinds of things that happen in this behaviour
    faults,   \* faults that may still happen
    edits     \* changes other clients may still make

children == <<tls, dep, svc, orphans>>
budgets == <<allowed, faults, edits>>
world == <<aged, pod, uids>>
vars == <<repo, children, world, queued, job, budgets>>

Cur == Current(repo)
CurTls(k) == Current(tls[k])
CurDep == Current(dep)
CurSvc == Current(svc)

NewRepo(uid, s) == [uid |-> uid, gen |-> 1, server |-> TRUE, tls |-> "auto", spec |-> s,
                    st |-> NoStatus]

\* Those of the repository at the start, and of one created again unless
\* settings change in the scenario.
FirstSettings == CHOOSE s \in Settings : TRUE

Init ==
    /\ repo = <<NewRepo(1, FirstSettings)>>
    /\ tls = [k \in TlsKind |-> IF k = "user" THEN <<UserCert>> ELSE <<Nil>>]
    /\ dep = <<Nil>>
    /\ svc = <<Nil>>
    /\ orphans = {}
    /\ aged = {}
    /\ pod = Nil
    /\ uids = 1
    /\ queued = TRUE
    /\ job = IdleJob
    /\ \E sc \in Scenario : allowed = sc.kinds /\ faults = sc.faults /\ edits = sc.edits
-----------------------------------------------------------------------------
(***************************************************************************)
(* Building blocks                                                         *)
(***************************************************************************)
Fault(kind) == kind \in allowed /\ faults > 0 /\ faults' = faults - 1 /\ UNCHANGED <<allowed, edits>>

Edit(kind) == kind \in allowed /\ edits > 0 /\ edits' = edits - 1 /\ UNCHANGED <<allowed, faults>>

\* A child is written: a new one belongs to the repository it was built for.
Adopt(child, old, new) ==
    orphans' = CASE new = Nil -> orphans \ {child}
                 [] old = Nil /\ (Cur = Nil \/ Cur.uid # job.obj.uid) -> orphans \cup {child}
                 [] OTHER -> orphans

WriteRepo(v) == Len(repo) < MaxLag /\ repo' = Put(repo, v)

WriteTls(k, v) ==
    /\ Len(tls[k]) < MaxLag
    /\ tls' = [tls EXCEPT ![k] = Put(@, v)]
    /\ UNCHANGED <<dep, svc>>

WriteDep(v) == Len(dep) < MaxLag /\ dep' = Put(dep, v) /\ UNCHANGED <<tls, svc>>

WriteSvc(v) == Len(svc) < MaxLag /\ svc' = Put(svc, v) /\ UNCHANGED <<tls, dep>>

Goto(phase) == job' = [job EXCEPT !.pc = phase] /\ UNCHANGED queued

\* An error of the server manager: the ServerReady condition turns False,
\* serverReady and Ready stay.
Fail == job' = [job EXCEPT !.pc = "failed", !.obj.st.srv = "False"] /\ UNCHANGED queued

ApiFault == Fault("api") /\ UNCHANGED children /\ Fail

\* A write that finds another version than the one it was built from.
Refused == UNCHANGED <<children, budgets>> /\ Fail

InUse ==
    UNION {Versions(tls[k]) : k \in TlsKind}
        \cup {v.st.fp : v \in Versions(repo) \ {Nil}}
        \cup (IF job.obj = Nil THEN {} ELSE {job.obj.st.fp})
        \cup (IF pod = Nil THEN {} ELSE {pod.cert})

\* generateSelfSignedCert: one nobody holds, valid for a year.
NewCert == CHOOSE c \in Cert : c \notin InUse

Mint == Cert \ InUse # {} /\ aged' = aged \ {NewCert}
-----------------------------------------------------------------------------
(***************************************************************************)
(* The reconcile                                                           *)
(***************************************************************************)
\* Mutant: a fingerprint that has been published is not looked up again.
EnsureTLSSecretRemembers(o) ==
    LET fp == IF o.st.fp = Nil THEN Cached(tls[o.tls]) ELSE o.st.fp
    IN CASE fp # Nil -> [pc |-> "deployment", obj |-> [o EXCEPT !.st.fp = fp]]
         [] fp = Nil /\ o.tls = "auto" -> [pc |-> "generate", obj |-> o]
         [] OTHER -> [pc |-> "failed", obj |-> [o EXCEPT !.st.srv = "False"]]

\* EnsureTLSSecret up to its first write: the phase it leads to and the
\* repository with the fingerprint or the failure noted in its status.
EnsureTLSSecret(o) ==
    LET c == Cached(tls[o.tls])
    IN CASE c # Nil /\ (o.tls = "user" \/ c \notin aged) ->
                [pc |-> "deployment", obj |-> [o EXCEPT !.st.fp = c]]
         [] c # Nil /\ o.tls = "auto" /\ c \in aged -> [pc |-> "rotate", obj |-> o]
         [] c = Nil /\ o.tls = "auto" -> [pc |-> "generate", obj |-> o]
         [] c = Nil /\ o.tls = "user" -> [pc |-> "failed", obj |-> [o EXCEPT !.st.srv = "False"]]

\* The worker reads the repository and, in server mode, its TLS Secret.
StartReconcile ==
    /\ job = IdleJob /\ queued
    /\ queued' = FALSE
    /\ LET o == Cached(repo)
           next == IF o.server THEN EnsureTLSSecret(o) ELSE [pc |-> "report", obj |-> o]
       IN job' = IF o = Nil THEN IdleJob
                 ELSE [pc |-> next.pc, obj |-> next.obj, fresh |-> CaughtUp(repo)]
    /\ UNCHANGED <<repo, children, world, budgets>>

\* Mutant: a certificate that was deleted is not generated anew.
RotateTLSSecretOnly ==
    /\ job.pc = "rotate" /\ CurTls("auto") # Nil
    /\ WriteTls("auto", Nil) /\ Adopt("tls", CurTls("auto"), Nil)
    /\ Goto("deployment")
    /\ UNCHANGED <<repo, world, budgets>>

\* Delete by name, whatever the Secret holds by now.
RotateTLSSecret ==
    /\ job.pc = "rotate"
    /\ \/ /\ CurTls("auto") # Nil
          /\ WriteTls("auto", Nil) /\ Adopt("tls", CurTls("auto"), Nil)
          /\ Goto("generate") /\ UNCHANGED budgets
       \/ CurTls("auto") = Nil /\ Refused
       \/ ApiFault
    /\ UNCHANGED <<repo, world>>

CreateTLSSecret ==
    /\ job.pc = "generate"
    /\ \/ /\ CurTls("auto") = Nil /\ Mint
          /\ WriteTls("auto", NewCert) /\ Adopt("tls", Nil, NewCert)
          /\ job' = [job EXCEPT !.pc = "deployment", !.obj.st.fp = NewCert]
          /\ UNCHANGED <<queued, budgets>>
       \/ CurTls("auto") # Nil /\ Refused /\ UNCHANGED aged
       \/ ApiFault /\ UNCHANGED aged
    /\ UNCHANGED <<repo, pod, uids>>

\* constructServerDeployment: the status is not the manager's.
Desired(o, d) == [spec |-> o.spec, tls |-> o.tls, ready |-> d # Nil /\ d.ready]

\* Mutant: a Deployment that exists is left as it is.
EnsureServerDeploymentCreateOnly ==
    /\ job.pc = "deployment"
    /\ \/ /\ CurDep = Nil
          /\ WriteDep(Desired(job.obj, Nil)) /\ Adopt("dep", Nil, Desired(job.obj, Nil))
       \/ CurDep # Nil /\ UNCHANGED children
    /\ Goto("service")
    /\ UNCHANGED <<repo, world, budgets>>

\* The API server fills in defaults, so the Deployment never equals the one
\* constructed and an Update is sent every time; it often changes nothing.
EnsureServerDeployment ==
    /\ job.pc = "deployment"
    /\ LET d == Cached(dep)
       IN \/ /\ IF d = Nil THEN CurDep = Nil ELSE CaughtUp(dep)
             /\ WriteDep(Desired(job.obj, d)) /\ Adopt("dep", CurDep, Desired(job.obj, d))
             /\ Goto("service") /\ UNCHANGED budgets
          \/ ~(IF d = Nil THEN CurDep = Nil ELSE CaughtUp(dep)) /\ Refused
          \/ ApiFault
    /\ UNCHANGED <<repo, world>>

\* Mutant: a Service that exists is left as it is.
EnsureServerServiceCreateOnly ==
    /\ job.pc = "service"
    /\ \/ CurSvc = Nil /\ WriteSvc(job.obj.spec) /\ Adopt("svc", Nil, job.obj.spec)
       \/ CurSvc # Nil /\ UNCHANGED children
    /\ Goto("report")
    /\ UNCHANGED <<repo, world, budgets>>

EnsureServerService ==
    /\ job.pc = "service"
    /\ LET s == Cached(svc)
       IN \/ /\ IF s = Nil THEN CurSvc = Nil ELSE CaughtUp(svc)
             /\ WriteSvc(job.obj.spec) /\ Adopt("svc", CurSvc, job.obj.spec)
             /\ Goto("report") /\ UNCHANGED budgets
          \/ ~(IF s = Nil THEN CurSvc = Nil ELSE CaughtUp(svc)) /\ Refused
          \/ ApiFault
    /\ UNCHANGED <<repo, world>>

\* IsServerReady looks at the cached Deployment's replica counts only.
IsServerReady == Cached(dep) # Nil /\ Cached(dep).ready

\* The status of a reconcile that got to its end.
Reported(o) ==
    LET ok == o.server => IsServerReady
        cond == IF ok THEN "True" ELSE "False"
        st == [o.st EXCEPT !.ready = cond, !.seen = o.gen]
    IN IF o.server THEN [st EXCEPT !.srv = cond, !.serverReady = ok] ELSE st

Finish(retry) == job' = IdleJob /\ queued' = (queued \/ retry)

\* The deferred Status().Update.  Its error is returned when the reconcile
\* has none of its own; a server that is not ready is looked at again.
UpdateStatus(st, retry) ==
    /\ \/ /\ job.fresh /\ WriteRepo([job.obj EXCEPT !.st = st])
          /\ Finish(retry) /\ UNCHANGED budgets
       \/ ~job.fresh /\ Finish(TRUE) /\ UNCHANGED <<repo, budgets>>
       \/ Fault("api") /\ Finish(TRUE) /\ UNCHANGED repo
    /\ UNCHANGED <<children, world>>

\* Mutant: a server that is not ready is not looked at again.
ReportOnce ==
    /\ job.pc = "report"
    /\ UpdateStatus(Reported(job.obj), FALSE)

Report ==
    /\ job.pc = "report"
    /\ UpdateStatus(Reported(job.obj), Reported(job.obj).ready = "False")

ReportFailure ==
    /\ job.pc = "failed"
    /\ UpdateStatus(job.obj.st, TRUE)

Reconcile ==
    \/ StartReconcile \/ RotateTLSSecret \/ CreateTLSSecret
    \/ EnsureServerDeployment \/ EnsureServerService \/ Report \/ ReportFailure
-----------------------------------------------------------------------------
(***************************************************************************)
(* Informers, restart, garbage collection                                  *)
(***************************************************************************)
\* For(KopiaRepository)
DeliverRepo ==
    /\ ~CaughtUp(repo) /\ repo' = Deliver(repo) /\ queued' = TRUE
    /\ UNCHANGED <<children, world, job, budgets>>

\* Owns(Deployment)
DeliverDep ==
    /\ ~CaughtUp(dep) /\ dep' = Deliver(dep) /\ queued' = TRUE
    /\ UNCHANGED <<repo, tls, svc, orphans, world, job, budgets>>

\* Owns(Service)
DeliverSvc ==
    /\ ~CaughtUp(svc) /\ svc' = Deliver(svc) /\ queued' = TRUE
    /\ UNCHANGED <<repo, tls, dep, orphans, world, job, budgets>>

\* Secrets are read but not watched for: nothing is enqueued.
DeliverTls(k) ==
    /\ ~CaughtUp(tls[k]) /\ tls' = [tls EXCEPT ![k] = Deliver(@)]
    /\ UNCHANGED <<repo, dep, svc, orphans, world, queued, job, budgets>>

\* The informers' periodic resync.  During a reconcile it might as well come
\* right after it: only StartReconcile looks at the queue.
Resync ==
    /\ job = IdleJob /\ Cached(repo) # Nil /\ ~queued /\ queued' = TRUE
    /\ UNCHANGED <<repo, children, world, job, budgets>>

Restart ==
    /\ Fault("crash")
    /\ job' = IdleJob /\ queued' = (Cached(repo) # Nil)
    /\ UNCHANGED <<repo, children, world>>

CollectGarbage(child) ==
    /\ child \in orphans /\ orphans' = orphans \ {child}
    /\ CASE child = "tls" -> WriteTls("auto", Nil)
         [] child = "dep" -> WriteDep(Nil)
         [] child = "svc" -> WriteSvc(Nil)
    /\ UNCHANGED <<repo, world, queued, job, budgets>>
-----------------------------------------------------------------------------
(***************************************************************************)
(* The Deployment controller and the server pod                            *)
(***************************************************************************)
PodCurrent == pod # Nil /\ pod.spec = CurDep.spec /\ pod.tls = CurDep.tls

\* A pod of the current template: kopia reads its certificate when it starts.
StartPod ==
    /\ CurDep # Nil /\ CurTls(CurDep.tls) # Nil /\ ~PodCurrent
    /\ pod' = [spec |-> CurDep.spec, tls |-> CurDep.tls, cert |-> CurTls(CurDep.tls)]
    /\ UNCHANGED <<repo, children, aged, uids, queued, job, budgets>>

StopPod ==
    /\ CurDep = Nil /\ pod # Nil /\ pod' = Nil
    /\ UNCHANGED <<repo, children, aged, uids, queued, job, budgets>>

\* During a rollout not all replicas are ready.
ReportPods ==
    /\ CurDep # Nil /\ CurDep.ready # PodCurrent
    /\ WriteDep([CurDep EXCEPT !.ready = PodCurrent])
    /\ UNCHANGED <<repo, orphans, world, queued, job, budgets>>

LosePod ==
    /\ pod # Nil /\ Edit("pod") /\ pod' = Nil
    /\ UNCHANGED <<repo, children, aged, uids, queued, job>>
-----------------------------------------------------------------------------
(***************************************************************************)
(* Other clients, and the passing of time                                  *)
(***************************************************************************)
Invalidate == job' = [job EXCEPT !.fresh = FALSE]

EditRepo(kind, v) ==
    /\ Cur # Nil /\ Edit(kind) /\ v # Cur
    /\ WriteRepo([v EXCEPT !.gen = @ + 1]) /\ Invalidate
    /\ UNCHANGED <<children, world, queued>>

SetSpec(s) == EditRepo("spec", [Cur EXCEPT !.spec = s])

ToggleServer == EditRepo("mode", [Cur EXCEPT !.server = ~@])

SetTls(k) == EditRepo("tls", [Cur EXCEPT !.tls = k])

\* No finalizer: the repository goes at once, what it controls is left to
\* the collector.
DeleteRepo ==
    /\ Cur # Nil /\ Edit("delete") /\ WriteRepo(Nil) /\ Invalidate
    /\ orphans' = orphans \cup (IF CurTls("auto") = Nil THEN {} ELSE {"tls"})
                          \cup (IF CurDep = Nil THEN {} ELSE {"dep"})
                          \cup (IF CurSvc = Nil THEN {} ELSE {"svc"})
    /\ UNCHANGED <<tls, dep, svc, world, queued>>

CreateRepo(s) ==
    /\ Cur = Nil /\ (s # FirstSettings => "spec" \in allowed)
    /\ WriteRepo(NewRepo(uids + 1, s)) /\ Invalidate
    /\ uids' = uids + 1
    /\ UNCHANGED <<children, aged, pod, queued, budgets>>

EditChild == UNCHANGED <<repo, world, queued, job>>

DeleteDeployment ==
    CurDep # Nil /\ Edit("deployment") /\ WriteDep(Nil) /\ orphans' = orphans \ {"dep"} /\ EditChild

DeleteService ==
    CurSvc # Nil /\ Edit("service") /\ WriteSvc(Nil) /\ orphans' = orphans \ {"svc"} /\ EditChild

DeleteTLSSecret ==
    /\ CurTls("auto") # Nil /\ Edit("secret")
    /\ WriteTls("auto", Nil) /\ orphans' = orphans \ {"tls"} /\ EditChild

\* The user creates or replaces the certificate of their own Secret.
WriteUserSecret ==
    /\ Edit("userSecret") /\ Mint /\ WriteTls("user", NewCert)
    /\ UNCHANGED <<repo, orphans, pod, uids, queued, job>>

Expire(c) ==
    /\ c \notin aged /\ Edit("expire") /\ aged' = aged \cup {c}
    /\ UNCHANGED <<repo, children, pod, uids, queued, job>>

Environment ==
    \/ DeliverRepo \/ DeliverDep \/ DeliverSvc \/ Resync \/ Restart
    \/ \E k \in TlsKind : DeliverTls(k) \/ SetTls(k)
    \/ \E child \in {"tls", "dep", "svc"} : CollectGarbage(child)
    \/ StartPod \/ StopPod \/ ReportPods \/ LosePod
    \/ \E s \in Settings : SetSpec(s) \/ CreateRepo(s)
    \/ ToggleServer \/ DeleteRepo \/ DeleteDeployment \/ DeleteService \/ DeleteTLSSecret \/ WriteUserSecret
    \/ \E c \in {CurTls("auto")} \ {Nil} : Expire(c)

Next == Reconcile \/ Environment

Spec == Init /\ [][Next]_vars
-----------------------------------------------------------------------------
(***************************************************************************)
(* Properties                                                              *)
(***************************************************************************)
\* The variables keep their types; a reconcile that has passed
\* EnsureTLSSecret has a fingerprint to publish.
TypeOK ==
    /\ repo \in Streams(RepoObj \cup {Nil})
    /\ tls \in [TlsKind -> Streams(Cert \cup {Nil})]
    /\ dep \in Streams(DeploymentObj \cup {Nil})
    /\ svc \in Streams(Settings \cup {Nil})
    /\ orphans \subseteq {"tls", "dep", "svc"}
    /\ aged \subseteq Cert
    /\ pod \in Pod \cup {Nil}
    /\ uids \in Nat
    /\ queued \in BOOLEAN
    /\ job \in Job \cup {IdleJob}
    /\ job.pc \in {"deployment", "service"} => job.obj.st.fp \in Cert
    /\ allowed \subseteq Kind
    /\ faults \in Nat /\ edits \in Nat

Matches(d, o) == d.spec = o.spec /\ d.tls = o.tls

\* Ready, and for the current generation.
ReadyNow == Cur # Nil /\ Cur.server /\ Cur.st.ready = "True" /\ Cur.st.seen = Cur.gen

\* A repository that is Ready for its current generation has a Deployment
\* built from that very generation, unless someone has deleted it: no stale
\* copy of the repository or of the Deployment, lost update, retry or restart
\* lets the status run ahead of what was deployed.
ReadyWasDeployed == ReadyNow /\ CurDep # Nil => Matches(CurDep, Cur)

\* Nothing is left to wake the reconciler up: no reconcile runs or is queued,
\* and the caches it is notified of are up to date.
AtRest == ~queued /\ job = IdleJob /\ CaughtUp(repo) /\ CaughtUp(dep) /\ CaughtUp(svc)

\* The generation of the repository is reported ready and, in server mode, its
\* Deployment and Service are those of its settings and the Deployment is ready.
Settled(o) ==
    /\ o.st.ready = "True" /\ o.st.seen = o.gen
    /\ o.server => /\ o.st.srv = "True" /\ CurSvc = o.spec
                   /\ CurDep # Nil /\ Matches(CurDep, o) /\ CurDep.ready

\* No wake-up is lost: whatever was edited, deleted, refused or interrupted,
\* the reconciler comes to rest only when its work on the repository is done.
RestIsServed == AtRest /\ Cur # Nil => Settled(Cur)
-----------------------------------------------------------------------------
(***************************************************************************)
(* Liveness                                                                *)
(***************************************************************************)
Informers == DeliverRepo \/ DeliverDep \/ DeliverSvc \/ \E k \in TlsKind : DeliverTls(k)

Cluster ==
    \/ StartPod \/ StopPod \/ ReportPods
    \/ \E child \in {"tls", "dep", "svc"} : CollectGarbage(child)

\* The operator goes on as long as there is something to reconcile or to
\* resync, and its surroundings as long as one of them has something to do:
\* less than that each worker, informer and controller is fair.
Fairness == WF_vars(Reconcile \/ Resync) /\ WF_vars(Informers \/ Cluster)

FairSpec == Spec /\ Fairness

\* In server mode, with a certificate to be had.
Served == Cur # Nil /\ Cur.server /\ (Cur.tls = "auto" \/ CurTls("user") # Nil)

\* Once changes have ceased, the certificate, the Deployment and the Service
\* of a server-mode repository are there and built from its spec, also when
\* they were deleted, left over from a deleted repository of the same name or
\* collected after they had been adopted.
ChildrenSettle ==
    <>[](Served => /\ orphans = {} /\ CurTls(Cur.tls) # Nil
                   /\ CurDep # Nil /\ Matches(CurDep, Cur)
                   /\ CurSvc = Cur.spec)

\* Once changes have ceased, the status of a server-mode repository says that
\* this generation is ready and publishes the fingerprint of the certificate
\* in the Secret, whatever became of the status updates on the way, and a
\* certificate about to expire has been replaced.
StatusSettles ==
    <>[](Served => /\ Cur.st.ready = "True" /\ Cur.st.seen = Cur.gen
                   /\ Cur.st.srv = "True" /\ Cur.st.serverReady
                   /\ Cur.st.fp = CurTls(Cur.tls)
                   /\ Cur.tls = "auto" => Cur.st.fp \notin aged)

\* KopiaRepositoryStatus: "SHA256 fingerprint of the server's TLS certificate.
\* Used by clients to verify the server's certificate."  Once changes have
\* ceased, the fingerprint published is that of the certificate the server
\* presents.
FingerprintIsServed ==
    <>[](Served /\ pod # Nil => Cur.st.fp = pod.cert)
=============================================================================
