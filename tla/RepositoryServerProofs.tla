----------------------- MODULE RepositoryServerProofs -----------------------
(***************************************************************************)
(* TypeOK, ReadyWasDeployed and RestIsServed, for any settings and         *)
(* certificates and any number of faults and edits.                        *)
(*                                                                         *)
(* The reconciler reports Ready with the generation it read, and nothing   *)
(* ties that report to the Deployment it wrote three calls earlier.  The   *)
(* argument is that the deferred status update succeeds only on the object *)
(* the reconcile read, that one worker is the only writer of Deployments,  *)
(* and that once a generation is reported, no older one is left in the     *)
(* cache for a later reconcile to deploy.                                  *)
(***************************************************************************)
EXTENDS RepositoryServer, WatchStreamProofs

RepoVersion == RepoObj \cup {Nil}

DepVersion == DeploymentObj \cup {Nil}

SameSpec(v, o) == v.server = o.server /\ v.tls = o.tls /\ v.spec = o.spec

SameStatus(v, o) == v.gen = o.gen /\ v.st.ready = o.st.ready /\ v.st.seen = o.st.seen

Keeps(v, o) == SameSpec(v, o) /\ SameStatus(v, o)

\* observedGeneration is never ahead of the generation.
SeenInv ==
    /\ \A v \in Versions(repo) : v # Nil => v.st.seen <= v.gen
    /\ job.pc # "idle" => job.obj.st.seen <= job.obj.gen

\* A copy that is still current is the only version there is.
CopyInv ==
    job.pc # "idle" /\ job.fresh => CaughtUp(repo) /\ Cur # Nil /\ Keeps(job.obj, Cur)

\* Once a generation is reported ready, all copies of the spec agree.
SettledInv ==
    ReadyNow => /\ \A v \in Versions(repo) : v # Nil /\ SameSpec(v, Cur)
                /\ job.pc # "idle" => SameSpec(job.obj, Cur)

\* Past EnsureServerDeployment, the Deployment is the one of the copy.
DeployedInv ==
    job.pc \in {"service", "report"} /\ job.obj.server /\ CurDep # Nil => Matches(CurDep, job.obj)

ServerInv == SeenInv /\ CopyInv /\ SettledInv /\ DeployedInv /\ ReadyWasDeployed
-----------------------------------------------------------------------------
(***************************************************************************)
(* Types                                                                   *)
(***************************************************************************)
\* Reads return versions.
LEMMA ReadTypes ==
    ASSUME TypeOK
    PROVE  /\ Cur \in RepoVersion /\ Cur \in Versions(repo)
           /\ Cached(repo) \in RepoVersion /\ Cached(repo) \in Versions(repo)
           /\ CurDep \in DepVersion /\ Cached(dep) \in DepVersion
           /\ CurSvc \in Settings \cup {Nil}
           /\ \A k \in TlsKind : CurTls(k) \in Cert \cup {Nil} /\ Cached(tls[k]) \in Cert \cup {Nil}
  <1>1. repo \in Streams(RepoVersion) /\ dep \in Streams(DepVersion) /\ svc \in Streams(Settings \cup {Nil})
    BY DEF TypeOK, RepoVersion, DepVersion
  <1>2. \A k \in TlsKind : tls[k] \in Streams(Cert \cup {Nil})
    BY ZenonT(60) DEF TypeOK
  <1>3. ASSUME NEW k \in TlsKind
        PROVE  CurTls(k) \in Cert \cup {Nil} /\ Cached(tls[k]) \in Cert \cup {Nil}
    BY <1>2, StreamEnds DEF CurTls
  <1>. QED
    BY <1>1, <1>3, StreamEnds DEF Cur, CurDep, CurSvc

\* A reconcile in progress is a record of its type.
LEMMA JobTypes ==
    ASSUME TypeOK, job.pc # "idle"
    PROVE  job \in Job /\ job.obj \in RepoObj /\ job.obj.st \in Status /\ job.fresh \in BOOLEAN
  <1>1. job \in Job
    BY DEF TypeOK, IdleJob
  <1>. QED
    BY <1>1 DEF Job, RepoObj

\* Writes and deliveries keep the types of the streams.
LEMMA WriteTypes ==
    ASSUME TypeOK
    PROVE  /\ \A v \in RepoVersion : WriteRepo(v) => repo' \in Streams(RepoObj \cup {Nil})
           /\ \A v \in DepVersion : WriteDep(v) => dep' \in Streams(DeploymentObj \cup {Nil})
           /\ \A v \in Settings \cup {Nil} : WriteSvc(v) => svc' \in Streams(Settings \cup {Nil})
           /\ \A k \in TlsKind : \A v \in Cert \cup {Nil} :
                  WriteTls(k, v) => tls' \in [TlsKind -> Streams(Cert \cup {Nil})]
  <1>1. ASSUME NEW v \in RepoVersion, WriteRepo(v) PROVE repo' \in Streams(RepoObj \cup {Nil})
    BY <1>1, StreamPut DEF TypeOK, RepoVersion, WriteRepo
  <1>2. ASSUME NEW v \in DepVersion, WriteDep(v) PROVE dep' \in Streams(DeploymentObj \cup {Nil})
    BY <1>2, StreamPut DEF TypeOK, DepVersion, WriteDep
  <1>3. ASSUME NEW v \in Settings \cup {Nil}, WriteSvc(v) PROVE svc' \in Streams(Settings \cup {Nil})
    BY <1>3, StreamPut DEF TypeOK, WriteSvc
  <1>4. ASSUME NEW k \in TlsKind, NEW v \in Cert \cup {Nil}, WriteTls(k, v)
        PROVE  tls' \in [TlsKind -> Streams(Cert \cup {Nil})]
    <2>1. tls[k] \in Streams(Cert \cup {Nil}) /\ tls' = [tls EXCEPT ![k] = Put(tls[k], v)]
      BY <1>4, ZenonT(60) DEF TypeOK, WriteTls
    <2>2. Put(tls[k], v) \in Streams(Cert \cup {Nil})
      BY <1>4, <2>1, StreamPut
    <2>. QED
      BY <2>1, <2>2, ZenonT(60) DEF TypeOK
  <1>. QED
    BY <1>1, <1>2, <1>3, <1>4, ZenonT(60)

\* A new certificate is one.
LEMMA MintType == ASSUME Mint PROVE NewCert \in Cert
  BY DEF Mint, NewCert

\* The job of a failed reconcile, and of one with a new certificate.
LEMMA JobUpdates ==
    ASSUME TypeOK, job.pc # "idle"
    PROVE  /\ \A j : j = [job EXCEPT !.pc = "failed", !.obj.st.srv = "False"] =>
                  j \in Job /\ j.pc = "failed" /\ j.fresh = job.fresh /\ Keeps(j.obj, job.obj)
           /\ \A c \in Cert : \A j : j = [job EXCEPT !.pc = "deployment", !.obj.st.fp = c] =>
                  /\ j \in Job /\ j.pc = "deployment" /\ j.fresh = job.fresh
                  /\ Keeps(j.obj, job.obj) /\ j.obj.st.fp = c
           /\ \A ph \in Phase : \A j : j = [job EXCEPT !.pc = ph] =>
                  j \in Job /\ j.pc = ph /\ j.fresh = job.fresh /\ j.obj = job.obj
  <1>1. job \in Job /\ job.obj \in RepoObj /\ job.obj.st \in Status
    BY JobTypes
  <1>2. ASSUME NEW j, j = [job EXCEPT !.pc = "failed", !.obj.st.srv = "False"]
        PROVE  j \in Job /\ j.pc = "failed" /\ j.fresh = job.fresh /\ Keeps(j.obj, job.obj)
    BY <1>1, <1>2, ZenonT(60) DEF Job, RepoObj, Status, Phase, Condition, Keeps, SameSpec, SameStatus
  <1>3. ASSUME NEW c \in Cert, NEW j, j = [job EXCEPT !.pc = "deployment", !.obj.st.fp = c]
        PROVE  /\ j \in Job /\ j.pc = "deployment" /\ j.fresh = job.fresh
               /\ Keeps(j.obj, job.obj) /\ j.obj.st.fp = c
    BY <1>1, <1>3, ZenonT(60) DEF Job, RepoObj, Status, Phase, Condition, Keeps, SameSpec, SameStatus
  <1>4. ASSUME NEW ph \in Phase, NEW j, j = [job EXCEPT !.pc = ph]
        PROVE  j \in Job /\ j.pc = ph /\ j.fresh = job.fresh /\ j.obj = job.obj
    BY <1>1, <1>4 DEF Job
  <1>. QED
    BY <1>2, <1>3, <1>4, ZenonT(60)

\* What EnsureTLSSecret hands on.
LEMMA EnsuredTypes ==
    ASSUME TypeOK, NEW o \in RepoObj, NEW n, n = EnsureTLSSecret(o)
    PROVE  /\ n.pc \in {"rotate", "generate", "deployment", "failed"} /\ n.obj \in RepoObj
           /\ Keeps(n.obj, o) /\ (n.pc = "deployment" => n.obj.st.fp \in Cert)
  <1> DEFINE c == Cached(tls[o.tls])
  <1>1. o.tls \in TlsKind /\ o.st \in Status
    BY DEF RepoObj
  <1>2. c \in Cert \cup {Nil}
    BY <1>1, ReadTypes
  <1>3. Keeps(o, o)
    BY DEF Keeps, SameSpec, SameStatus
  <1> DEFINE f == [o EXCEPT !.st.srv = "False"]
             d == [o EXCEPT !.st.fp = c]
  <1>4. f \in RepoObj /\ Keeps(f, o)
    BY <1>1 DEF RepoObj, Status, Condition, Keeps, SameSpec, SameStatus
  <1>5. d \in RepoObj /\ Keeps(d, o) /\ d.st.fp = c
    BY <1>1, <1>2 DEF RepoObj, Status, Condition, Keeps, SameSpec, SameStatus
  <1> HIDE DEF c, f, d
  <1>6. n = CASE c # Nil /\ (o.tls = "user" \/ c \notin aged) -> [pc |-> "deployment", obj |-> d]
              [] c # Nil /\ o.tls = "auto" /\ c \in aged -> [pc |-> "rotate", obj |-> o]
              [] c = Nil /\ o.tls = "auto" -> [pc |-> "generate", obj |-> o]
              [] c = Nil /\ o.tls = "user" -> [pc |-> "failed", obj |-> f]
    BY DEF EnsureTLSSecret, c, d, f
  <1>7. CASE c # Nil /\ (o.tls = "user" \/ c \notin aged)
    <2>1. n = [pc |-> "deployment", obj |-> d]
      BY <1>6, <1>7
    <2>. QED
      BY <1>2, <1>5, <1>7, <2>1
  <1>8. CASE c # Nil /\ o.tls = "auto" /\ c \in aged
    <2>1. n = [pc |-> "rotate", obj |-> o]
      BY <1>6, <1>8
    <2>. QED
      BY <1>3, <2>1
  <1>9. CASE c = Nil /\ o.tls = "auto"
    <2>1. n = [pc |-> "generate", obj |-> o]
      BY <1>6, <1>9
    <2>. QED
      BY <1>3, <2>1
  <1>10. CASE c = Nil /\ o.tls = "user"
    <2>1. n = [pc |-> "failed", obj |-> f]
      BY <1>6, <1>10
    <2>. QED
      BY <1>4, <2>1
  <1>. QED
    BY <1>1, <1>7, <1>8, <1>9, <1>10 DEF TlsKind
-----------------------------------------------------------------------------
(***************************************************************************)
(* Steps                                                                   *)
(***************************************************************************)
RestOK ==
    /\ orphans \subseteq {"tls", "dep", "svc"}
    /\ aged \subseteq Cert
    /\ pod \in Pod \cup {Nil}
    /\ uids \in Nat
    /\ queued \in BOOLEAN
    /\ allowed \subseteq Kind /\ faults \in Nat /\ edits \in Nat

ChildrenOK ==
    /\ tls \in [TlsKind -> Streams(Cert \cup {Nil})]
    /\ dep \in Streams(DeploymentObj \cup {Nil})
    /\ svc \in Streams(Settings \cup {Nil})

RepoOK == repo \in Streams(RepoObj \cup {Nil})

JobOK ==
    /\ job \in Job \cup {IdleJob}
    /\ job.pc \in {"deployment", "service"} => job.obj.st.fp \in Cert

\* TypeOK in its parts.
LEMMA TypeParts == TypeOK <=> RepoOK /\ ChildrenOK /\ JobOK /\ RestOK
  BY ZenonT(60) DEF TypeOK, RepoOK, ChildrenOK, JobOK, RestOK

Good == TypeOK' /\ ServerInv'

\* The reconcile ends, stays or goes on with the same copy.
Continues ==
    \/ job' = IdleJob
    \/ job' = job
    \/ job.pc # "idle" /\ job' \in Job /\ job'.fresh = job.fresh /\ Keeps(job'.obj, job.obj)

\* The Deployment goes, keeps its template or becomes that of the copy.
DeploymentStep ==
    \/ CurDep' = Nil
    \/ CurDep # Nil /\ CurDep'.spec = CurDep.spec /\ CurDep'.tls = CurDep.tls
    \/ job.pc # "idle" /\ Matches(CurDep', job.obj)

\* Steps that leave the KopiaRepository alone.
LEMMA ChildStep ==
    ASSUME ServerInv, UNCHANGED repo, Continues, DeploymentStep,
           job'.pc \in {"service", "report"} =>
               job'= job \/ job.pc \in {"service", "report"} \/ CurDep' = Nil \/ Matches(CurDep', job.obj)
    PROVE  ServerInv'
  <1>1. Cur' = Cur /\ Versions(repo)' = Versions(repo) /\ (ReadyNow' <=> ReadyNow)
    BY DEF Cur, ReadyNow
  <1>2. job'.pc # "idle" => job.pc # "idle" /\ job'.fresh = job.fresh /\ Keeps(job'.obj, job.obj)
    BY DEF Continues, IdleJob, Keeps, SameSpec, SameStatus
  <1>3. SeenInv'
    BY <1>1, <1>2, ZenonT(60) DEF ServerInv, SeenInv, Keeps, SameStatus
  <1>4. CopyInv'
    <2> SUFFICES ASSUME job'.pc # "idle", job'.fresh PROVE CaughtUp(repo)' /\ Cur' # Nil /\ Keeps(job'.obj, Cur)
      BY <1>1 DEF CopyInv, Keeps, SameSpec, SameStatus
    <2>1. CaughtUp(repo) /\ Cur # Nil /\ Keeps(job.obj, Cur)
      BY <1>2, ZenonT(60) DEF ServerInv, CopyInv
    <2>. QED
      BY <1>1, <1>2, <2>1 DEF CaughtUp, Keeps, SameSpec, SameStatus
  <1>5. SettledInv'
    <2> SUFFICES ASSUME ReadyNow'
                 PROVE  /\ \A v \in Versions(repo) : v # Nil /\ SameSpec(v, Cur)
                        /\ job'.pc # "idle" => SameSpec(job'.obj, Cur)
      BY <1>1 DEF SettledInv, SameSpec
    <2>. QED
      BY <1>1, <1>2 DEF ServerInv, SettledInv, Keeps, SameSpec
  <1>6. DeployedInv'
    <2> SUFFICES ASSUME job'.pc \in {"service", "report"}, job'.obj.server, CurDep' # Nil
                 PROVE  CurDep'.spec = job'.obj.spec /\ CurDep'.tls = job'.obj.tls
      BY DEF DeployedInv, Matches
    <2>1. job.pc # "idle" /\ Keeps(job'.obj, job.obj)
      BY <1>2
    <2>2. CASE Matches(CurDep', job.obj)
      BY <2>1, <2>2 DEF Matches, Keeps, SameSpec
    <2>3. CASE job.pc \in {"service", "report"} /\ ~Matches(CurDep', job.obj)
      <3>1. CurDep # Nil /\ CurDep'.spec = CurDep.spec /\ CurDep'.tls = CurDep.tls
        BY <2>3 DEF DeploymentStep
      <3>. QED
        BY <2>1, <2>3, <3>1 DEF ServerInv, DeployedInv, Matches, Keeps, SameSpec
    <2>. QED
      BY <2>2, <2>3
  <1>7. ReadyWasDeployed'
    <2> SUFFICES ASSUME ReadyNow, CurDep' # Nil
                 PROVE  CurDep'.spec = Cur.spec /\ CurDep'.tls = Cur.tls
      BY <1>1 DEF ReadyWasDeployed, Matches
    <2>1. CASE CurDep # Nil /\ CurDep'.spec = CurDep.spec /\ CurDep'.tls = CurDep.tls
      BY <2>1 DEF ServerInv, ReadyWasDeployed, Matches
    <2>2. CASE job.pc # "idle" /\ Matches(CurDep', job.obj)
      BY <2>2 DEF ServerInv, SettledInv, Matches, SameSpec
    <2>. QED
      BY <2>1, <2>2 DEF DeploymentStep
  <1>. QED
    BY <1>3, <1>4, <1>5, <1>6, <1>7 DEF ServerInv

\* Steps that leave the KopiaRepository alone, with their types.
LEMMA ChildGood ==
    ASSUME TypeOK, ServerInv, UNCHANGED repo, Continues, DeploymentStep,
           job'.pc \in {"service", "report"} =>
               job' = job \/ job.pc \in {"service", "report"} \/ CurDep' = Nil \/ Matches(CurDep', job.obj),
           ChildrenOK', JobOK', RestOK'
    PROVE  Good
  <1>1. ServerInv'
    BY ChildStep
  <1>2. RepoOK'
    BY DEF TypeOK, RepoOK
  <1>3. TypeOK'
    BY <1>2, ZenonT(60) DEF TypeOK, RepoOK, ChildrenOK, JobOK, RestOK
  <1>. QED
    BY <1>1, <1>3 DEF Good

\* Budgets stay numbers.
LEMMA BudgetTypes ==
    ASSUME TypeOK, (\E k : Fault(k) \/ Edit(k)) \/ UNCHANGED budgets
    PROVE  allowed' \subseteq Kind /\ faults' \in Nat /\ edits' \in Nat
  BY SMTT(60) DEF TypeOK, Fault, Edit, budgets

\* Orphans are children.
LEMMA AdoptTypes ==
    ASSUME TypeOK, NEW child \in {"tls", "dep", "svc"}, NEW old, NEW new, Adopt(child, old, new)
    PROVE  orphans' \subseteq {"tls", "dep", "svc"}
  <1>1. orphans' \in {orphans \ {child}, orphans \cup {child}, orphans}
    BY DEF Adopt
  <1>. QED
    BY <1>1 DEF TypeOK

\* A write that fails ends the reconcile's work.
LEMMA FailGood ==
    ASSUME TypeOK, ServerInv, job.pc # "idle", UNCHANGED <<repo, world>>, Refused \/ ApiFault
    PROVE  Good
  <1>1. /\ job' \in Job /\ job'.pc = "failed" /\ job'.fresh = job.fresh /\ Keeps(job'.obj, job.obj)
        /\ UNCHANGED <<queued, children>>
    BY JobUpdates, ZenonT(60) DEF Refused, ApiFault, Fail
  <1>2. Continues /\ JobOK'
    BY <1>1 DEF Continues, JobOK
  <1>3. DeploymentStep
    BY <1>1 DEF DeploymentStep, CurDep, children
  <1>4. allowed' \subseteq Kind /\ faults' \in Nat /\ edits' \in Nat
    BY BudgetTypes, ZenonT(60) DEF Refused, ApiFault
  <1>5. RestOK' /\ ChildrenOK'
    BY <1>1, <1>4, ZenonT(60) DEF TypeOK, RestOK, ChildrenOK, children, world
  <1>. QED
    BY <1>1, <1>2, <1>3, <1>5, ChildGood, ZenonT(60)

\* The expiring certificate is deleted.
LEMMA RotateGood ==
    ASSUME TypeOK, ServerInv, RotateTLSSecret
    PROVE  Good
  <1>1. job.pc = "rotate" /\ job.pc # "idle" /\ UNCHANGED <<repo, world>>
    BY DEF RotateTLSSecret
  <1>2. CASE Refused \/ ApiFault
    BY <1>1, <1>2, FailGood
  <1>3. CASE /\ WriteTls("auto", Nil) /\ Adopt("tls", CurTls("auto"), Nil)
             /\ Goto("generate") /\ UNCHANGED budgets
    <2>1. job' \in Job /\ job'.pc = "generate" /\ job'.fresh = job.fresh /\ job'.obj = job.obj
      BY <1>1, <1>3, JobUpdates, ZenonT(60) DEF Goto, Phase
    <2>2. Continues /\ JobOK'
      BY <1>1, <2>1 DEF Continues, JobOK, Keeps, SameSpec, SameStatus
    <2>3. ChildrenOK' /\ dep' = dep
      <3>1. tls' \in [TlsKind -> Streams(Cert \cup {Nil})]
        BY <1>3, WriteTypes, ZenonT(60) DEF TlsKind
      <3>2. UNCHANGED <<dep, svc>>
        BY <1>3 DEF WriteTls
      <3>. QED
        BY <3>1, <3>2, ZenonT(60) DEF ChildrenOK, TypeOK
    <2>4. DeploymentStep
      BY <2>3 DEF DeploymentStep, CurDep
    <2>5. orphans' \subseteq {"tls", "dep", "svc"}
      BY <1>3, AdoptTypes
    <2>6. RestOK'
      BY <1>1, <1>3, <2>5, ZenonT(60) DEF RestOK, TypeOK, Goto, world, budgets
    <2>. QED
      BY <1>1, <2>1, <2>2, <2>3, <2>4, <2>6, ChildGood, ZenonT(60)
  <1>. QED
    BY <1>2, <1>3, ZenonT(60) DEF RotateTLSSecret

\* A certificate is generated.
LEMMA GenerateGood ==
    ASSUME TypeOK, ServerInv, CreateTLSSecret
    PROVE  Good
  <1>1. job.pc = "generate" /\ job.pc # "idle" /\ UNCHANGED <<repo, pod, uids>>
    BY DEF CreateTLSSecret
  <1>2. CASE (Refused \/ ApiFault) /\ UNCHANGED aged
    BY <1>1, <1>2, FailGood DEF world
  <1>3. CASE /\ Mint /\ WriteTls("auto", NewCert) /\ Adopt("tls", Nil, NewCert)
             /\ job' = [job EXCEPT !.pc = "deployment", !.obj.st.fp = NewCert]
             /\ UNCHANGED <<queued, budgets>>
    <2>0. NewCert \in Cert
      BY <1>3, MintType
    <2>1. /\ job' \in Job /\ job'.pc = "deployment" /\ job'.fresh = job.fresh
          /\ Keeps(job'.obj, job.obj) /\ job'.obj.st.fp \in Cert
      <3>1. PICK c \in Cert : c = NewCert
        BY <2>0
      <3>2. job' = [job EXCEPT !.pc = "deployment", !.obj.st.fp = c]
        BY <1>3, <3>1, ZenonT(60)
      <3>3. \A x \in Cert : \A j : j = [job EXCEPT !.pc = "deployment", !.obj.st.fp = x] =>
                /\ j \in Job /\ j.pc = "deployment" /\ j.fresh = job.fresh
                /\ Keeps(j.obj, job.obj) /\ j.obj.st.fp = x
        BY <1>1, JobUpdates, ZenonT(60)
      <3>4. /\ job' \in Job /\ job'.pc = "deployment" /\ job'.fresh = job.fresh
            /\ Keeps(job'.obj, job.obj) /\ job'.obj.st.fp = c
        BY <3>2, <3>3, ZenonT(60)
      <3>. QED
        BY <3>4
    <2>2. Continues /\ JobOK'
      BY <1>1, <2>1 DEF Continues, JobOK
    <2>3. ChildrenOK' /\ dep' = dep
      <3>1. tls' \in [TlsKind -> Streams(Cert \cup {Nil})]
        BY <1>3, <2>0, WriteTypes, ZenonT(60) DEF TlsKind
      <3>2. UNCHANGED <<dep, svc>>
        BY <1>3 DEF WriteTls
      <3>. QED
        BY <3>1, <3>2, ZenonT(60) DEF ChildrenOK, TypeOK
    <2>4. DeploymentStep
      BY <2>3 DEF DeploymentStep, CurDep
    <2>5. orphans' \subseteq {"tls", "dep", "svc"} /\ aged' \subseteq Cert
      BY <1>3, AdoptTypes, ZenonT(60) DEF Mint, TypeOK
    <2>6. RestOK'
      BY <1>1, <1>3, <2>5, ZenonT(60) DEF RestOK, TypeOK, budgets
    <2>. QED
      BY <1>1, <2>1, <2>2, <2>3, <2>4, <2>6, ChildGood
  <1>. QED
    BY <1>2, <1>3, ZenonT(60) DEF CreateTLSSecret

\* The Deployment is written from the copy of the repository.
LEMMA DeployGood ==
    ASSUME TypeOK, ServerInv, EnsureServerDeployment
    PROVE  Good
  <1>1. /\ job.pc = "deployment" /\ job.pc # "idle" /\ UNCHANGED <<repo, world>>
        /\ job.obj \in RepoObj /\ job.obj.st.fp \in Cert
    BY JobTypes, ZenonT(60) DEF EnsureServerDeployment, TypeOK
  <1>2. CASE Refused \/ ApiFault
    BY <1>1, <1>2, FailGood
  <1> DEFINE v == Desired(job.obj, Cached(dep))
  <1>3. CASE WriteDep(v) /\ Adopt("dep", CurDep, v) /\ Goto("service") /\ UNCHANGED budgets
    <2>0. v \in DepVersion /\ Matches(v, job.obj)
      BY <1>1 DEF Desired, DepVersion, DeploymentObj, RepoObj, Matches
    <2> HIDE DEF v
    <2>1. job' \in Job /\ job'.pc = "service" /\ job'.fresh = job.fresh /\ job'.obj = job.obj
      BY <1>1, <1>3, JobUpdates, ZenonT(60) DEF Goto, Phase
    <2>2. Continues /\ JobOK'
      BY <1>1, <2>1 DEF Continues, JobOK, Keeps, SameSpec, SameStatus
    <2>3. ChildrenOK'
      <3>1. dep' \in Streams(DeploymentObj \cup {Nil})
        BY <1>3, <2>0, WriteTypes, ZenonT(60)
      <3>2. UNCHANGED <<tls, svc>>
        BY <1>3 DEF WriteDep
      <3>. QED
        BY <3>1, <3>2, ZenonT(60) DEF ChildrenOK, TypeOK
    <2>4. Matches(CurDep', job.obj)
      <3>1. dep \in Streams(DepVersion) /\ dep' = Put(dep, v)
        BY <1>3 DEF TypeOK, DepVersion, WriteDep
      <3>2. CurDep' = v
        BY <2>0, <3>1, StreamPut DEF CurDep
      <3>. QED
        BY <2>0, <3>2
    <2>5. DeploymentStep
      BY <1>1, <2>4 DEF DeploymentStep
    <2>6. orphans' \subseteq {"tls", "dep", "svc"}
      BY <1>3, AdoptTypes
    <2>7. RestOK'
      BY <1>1, <1>3, <2>6, ZenonT(60) DEF RestOK, TypeOK, Goto, world, budgets
    <2>. QED
      BY <1>1, <2>1, <2>2, <2>3, <2>4, <2>5, <2>7, ChildGood, SMTT(60)
  <1> HIDE DEF v
  <1>. QED
    BY <1>2, <1>3, ZenonT(60) DEF EnsureServerDeployment, v

\* The Service.
LEMMA ServiceGood ==
    ASSUME TypeOK, ServerInv, EnsureServerService
    PROVE  Good
  <1>1. /\ job.pc = "service" /\ job.pc # "idle" /\ UNCHANGED <<repo, world>>
        /\ job.obj \in RepoObj /\ job.obj.spec \in Settings
    BY JobTypes DEF EnsureServerService, RepoObj
  <1>2. CASE Refused \/ ApiFault
    BY <1>1, <1>2, FailGood
  <1>3. CASE WriteSvc(job.obj.spec) /\ Adopt("svc", CurSvc, job.obj.spec) /\ Goto("report") /\ UNCHANGED budgets
    <2>1. job' \in Job /\ job'.pc = "report" /\ job'.fresh = job.fresh /\ job'.obj = job.obj
      BY <1>1, <1>3, JobUpdates, ZenonT(60) DEF Goto, Phase
    <2>2. Continues /\ JobOK'
      BY <1>1, <2>1 DEF Continues, JobOK, Keeps, SameSpec, SameStatus
    <2>3. ChildrenOK' /\ dep' = dep
      <3>1. svc' \in Streams(Settings \cup {Nil})
        BY <1>1, <1>3, WriteTypes, ZenonT(60)
      <3>2. UNCHANGED <<tls, dep>>
        BY <1>3 DEF WriteSvc
      <3>. QED
        BY <3>1, <3>2, ZenonT(60) DEF ChildrenOK, TypeOK
    <2>4. DeploymentStep
      BY <2>3 DEF DeploymentStep, CurDep
    <2>6. orphans' \subseteq {"tls", "dep", "svc"}
      BY <1>3, AdoptTypes
    <2>7. RestOK'
      BY <1>1, <1>3, <2>6, ZenonT(60) DEF RestOK, TypeOK, Goto, world, budgets
    <2>. QED
      BY <1>1, <2>1, <2>2, <2>3, <2>4, <2>7, ChildGood, ZenonT(60)
  <1>. QED
    BY <1>2, <1>3, ZenonT(60) DEF EnsureServerService

\* A reconcile starts from a version in the cache.
LEMMA StartGood ==
    ASSUME TypeOK, ServerInv, StartReconcile
    PROVE  Good
  <1> DEFINE o == Cached(repo)
             n == IF o.server THEN EnsureTLSSecret(o) ELSE [pc |-> "report", obj |-> o]
  <1>1. o \in RepoVersion /\ o \in Versions(repo)
    BY ReadTypes
  <1>2. /\ job = IdleJob /\ UNCHANGED <<repo, children, world, budgets>> /\ queued' = FALSE
        /\ job' = IF o = Nil THEN IdleJob
                  ELSE [pc |-> n.pc, obj |-> n.obj, fresh |-> CaughtUp(repo)]
    BY ZenonT(60) DEF StartReconcile
  <1>3. RepoOK' /\ ChildrenOK' /\ RestOK'
    BY <1>2, ZenonT(60) DEF TypeOK, RepoOK, ChildrenOK, RestOK, children, world, budgets
  <1>4. Cur' = Cur /\ CurDep' = CurDep /\ Versions(repo)' = Versions(repo) /\ (ReadyNow' <=> ReadyNow)
    BY <1>2, SMTT(60) DEF Cur, CurDep, ReadyNow, children
  <1>5. CASE o = Nil
    <2>1. job' = IdleJob
      BY <1>2, <1>5
    <2>2. JobOK' /\ Continues /\ DeploymentStep /\ job'.pc = "idle"
      BY <1>4, <2>1 DEF JobOK, Continues, DeploymentStep, IdleJob
    <2>. QED
      BY <1>2, <1>3, <2>2, ChildGood, SMTT(60)
  <1>6. CASE o # Nil
    <2>1. o \in RepoObj
      BY <1>1, <1>6, ZenonT(60) DEF RepoVersion
    <2>2. /\ n.pc \in {"rotate", "generate", "deployment", "failed", "report"} /\ n.obj \in RepoObj
          /\ Keeps(n.obj, o) /\ (n.pc = "deployment" => n.obj.st.fp \in Cert)
          /\ n.pc = "report" => ~n.obj.server
      <3> HIDE DEF o
      <3>1. CASE o.server
        <4>1. n = EnsureTLSSecret(o)
          BY <3>1, SMTT(60)
        <4>. QED
          BY <2>1, <4>1, EnsuredTypes
      <3>2. CASE ~o.server
        <4>1. n = [pc |-> "report", obj |-> o]
          BY <3>2, ZenonT(60)
        <4>. QED
          BY <2>1, <3>2, <4>1 DEF Keeps, SameSpec, SameStatus
      <3>. QED
        BY <3>1, <3>2, ZenonT(60)
    <2> HIDE DEF n
    <2>3. job'.pc = n.pc /\ job'.obj = n.obj /\ job'.fresh = CaughtUp(repo) /\ job' \in Job
      <3>1. CaughtUp(repo) \in BOOLEAN
        BY SMTT(60) DEF CaughtUp
      <3>. QED
        BY <1>2, <1>6, <2>2, <3>1 DEF Job, Phase
    <2>4. JobOK'
      BY <2>2, <2>3, SMTT(60) DEF JobOK
    <2>5. SeenInv'
      <3>1. o.st.seen <= o.gen
        BY <1>1, <1>6, SMTT(60) DEF ServerInv, SeenInv
      <3>2. n.obj.st.seen <= n.obj.gen
        BY <2>2, <3>1 DEF Keeps, SameStatus
      <3>. QED
        BY <1>4, <2>3, <3>2, SMTT(60) DEF ServerInv, SeenInv
    <2>6. CopyInv'
      <3> SUFFICES ASSUME CaughtUp(repo) PROVE CaughtUp(repo)' /\ Cur' # Nil /\ Keeps(job'.obj, Cur)
        BY <1>4, <2>3 DEF CopyInv, Keeps, SameSpec, SameStatus
      <3>1. o = Cur
        BY StreamCaughtUp, ZenonT(60) DEF TypeOK, Cur
      <3>. QED
        BY <1>2, <1>4, <1>6, <2>2, <2>3, <3>1, ZenonT(60) DEF CaughtUp
    <2>7. SettledInv'
      <3> SUFFICES ASSUME ReadyNow
                   PROVE  /\ \A v \in Versions(repo) : v # Nil /\ SameSpec(v, Cur)
                          /\ SameSpec(job'.obj, Cur)
        BY <1>4 DEF SettledInv, SameSpec
      <3>1. \A v \in Versions(repo) : v # Nil /\ SameSpec(v, Cur)
        BY DEF ServerInv, SettledInv
      <3>. QED
        BY <1>1, <2>2, <2>3, <3>1, ZenonT(60) DEF Keeps, SameSpec
    <2>8. DeployedInv'
      BY <2>2, <2>3, SMTT(60) DEF DeployedInv
    <2>9. ReadyWasDeployed'
      BY <1>4 DEF ServerInv, ReadyWasDeployed, Matches
    <2>10. TypeOK'
      BY <1>3, <2>4, ZenonT(60) DEF TypeOK, RepoOK, ChildrenOK, JobOK, RestOK
    <2>. QED
      BY <2>5, <2>6, <2>7, <2>8, <2>9, <2>10 DEF Good, ServerInv
  <1>. QED
    BY <1>5, <1>6

\* The deferred status update: a status that claims the current generation
\* ready did so before, or comes at the end of a reconcile.
LEMMA StatusGood ==
    ASSUME TypeOK, ServerInv, job.pc # "idle", NEW st \in Status, NEW retry \in BOOLEAN,
           UpdateStatus(st, retry),
           st.seen <= job.obj.gen,
           job.obj.server /\ st.ready = "True" /\ st.seen = job.obj.gen =>
               job.pc = "report" \/ (job.obj.st.ready = "True" /\ job.obj.st.seen = job.obj.gen)
    PROVE  Good
  <1>1. job.obj \in RepoObj /\ UNCHANGED <<children, world>> /\ job' = IdleJob /\ job'.pc = "idle"
    BY JobTypes DEF UpdateStatus, Finish, IdleJob
  <1>2. queued' \in BOOLEAN
    BY ZenonT(60) DEF UpdateStatus, Finish, TypeOK
  <1>3. allowed' \subseteq Kind /\ faults' \in Nat /\ edits' \in Nat
    BY BudgetTypes, ZenonT(60) DEF UpdateStatus
  <1>4. RestOK' /\ ChildrenOK'
    BY <1>1, <1>2, <1>3, ZenonT(60) DEF TypeOK, RestOK, ChildrenOK, children, world
  <1>5. JobOK' /\ Continues /\ DeploymentStep
    BY <1>1 DEF JobOK, Continues, DeploymentStep, CurDep, children
  <1>6. CASE UNCHANGED repo
    BY <1>1, <1>4, <1>5, <1>6, ChildGood, ZenonT(60)
  <1> DEFINE v == [job.obj EXCEPT !.st = st]
  <1>7. CASE job.fresh /\ WriteRepo(v)
    <2>1. v \in RepoObj /\ SameSpec(v, job.obj) /\ v.gen = job.obj.gen /\ v.st = st
      BY <1>1 DEF RepoObj, SameSpec
    <2> HIDE DEF v
    <2>2. v \in RepoVersion /\ v # Nil
      BY <2>1, NilAssumption, ZenonT(60) DEF RepoVersion
    <2>3. CaughtUp(repo) /\ Cur # Nil /\ Keeps(job.obj, Cur)
      BY <1>7, ZenonT(60) DEF ServerInv, CopyInv
    <2>4. repo \in Streams(RepoVersion) /\ repo' = Put(repo, v)
      BY <1>7, ZenonT(60) DEF TypeOK, RepoVersion, WriteRepo
    <2>5. Versions(repo) = {Cur}
      BY <2>3, <2>4, StreamCaughtUp DEF Cur
    <2>6. Cur' = v /\ Versions(repo)' \subseteq {Cur, v}
      <3>1. Current(Put(repo, v)) = v /\ Versions(Put(repo, v)) \subseteq Versions(repo) \cup {v}
        BY <2>2, <2>4, StreamPut, SMTT(60)
      <3>. QED
        BY <2>4, <2>5, <3>1, ZenonT(60) DEF Cur
    <2>7. SeenInv'
      <3>1. v.st.seen <= v.gen
        BY <2>1, SMTT(60)
      <3>2. Cur.st.seen <= Cur.gen
        BY <2>3, <2>5, SMTT(60) DEF ServerInv, SeenInv
      <3>. QED
        BY <1>1, <2>6, <3>1, <3>2, SMTT(60) DEF SeenInv
    <2>8. CopyInv' /\ DeployedInv'
      BY <1>1 DEF CopyInv, DeployedInv
    <2>9. SettledInv'
      <3>1. SameSpec(Cur, v) /\ SameSpec(v, v)
        BY <2>1, <2>3, ZenonT(60) DEF Keeps, SameSpec
      <3>2. \A w \in Versions(repo)' : w # Nil /\ SameSpec(w, v)
        BY <2>2, <2>3, <2>6, <3>1, ZenonT(60)
      <3>. QED
        BY <1>1, <2>6, <3>2, ZenonT(60) DEF SettledInv, SameSpec
    <2>10. ReadyWasDeployed'
      <3> SUFFICES ASSUME ReadyNow', CurDep # Nil PROVE Matches(CurDep, v)
        BY <1>1, <2>6, SMTT(60) DEF ReadyWasDeployed, CurDep, children, Matches
      <3>1. v.server /\ v.st.ready = "True" /\ v.st.seen = v.gen
        BY <2>6, SMTT(60) DEF ReadyNow
      <3>2. job.obj.server /\ st.ready = "True" /\ st.seen = job.obj.gen
        BY <2>1, <3>1 DEF SameSpec
      <3>3. CASE job.pc = "report"
        <4>1. Matches(CurDep, job.obj)
          BY <3>2, <3>3, ZenonT(60) DEF ServerInv, DeployedInv
        <4>. QED
          BY <2>1, <4>1, ZenonT(60) DEF Matches, SameSpec
      <3>4. CASE job.obj.st.ready = "True" /\ job.obj.st.seen = job.obj.gen
        <4>1. ReadyNow
          BY <2>3, <3>2, <3>4 DEF ReadyNow, Keeps, SameSpec, SameStatus
        <4>2. Matches(CurDep, Cur)
          BY <4>1, ZenonT(60) DEF ServerInv, ReadyWasDeployed
        <4>. QED
          BY <2>1, <2>3, <4>2, ZenonT(60) DEF Matches, Keeps, SameSpec
      <3>. QED
        BY <3>2, <3>3, <3>4, ZenonT(60)
    <2>11. RepoOK'
      BY <1>7, <2>2, WriteTypes, ZenonT(60) DEF RepoOK
    <2>12. TypeOK'
      BY <1>4, <1>5, <2>11, ZenonT(60) DEF TypeOK, RepoOK, ChildrenOK, JobOK, RestOK
    <2>. QED
      BY <2>7, <2>8, <2>9, <2>10, <2>12 DEF Good, ServerInv
  <1> HIDE DEF v
  <1>. QED
    BY <1>6, <1>7, ZenonT(60) DEF UpdateStatus, v

\* The status of a reconcile that got to its end has the generation it read.
LEMMA ReportedTypes ==
    ASSUME TypeOK, NEW o \in RepoObj
    PROVE  Reported(o) \in Status /\ Reported(o).seen = o.gen
  <1> DEFINE ok == o.server => IsServerReady
             cond == IF ok THEN "True" ELSE "False"
             a == [o.st EXCEPT !.ready = cond, !.seen = o.gen]
  <1>1. cond \in Condition /\ o.st \in Status /\ o.gen \in Nat
    BY DEF Condition, RepoObj
  <1>b. ok \in BOOLEAN
    BY ZenonT(60)
  <1>2. Reported(o) = IF o.server THEN [a EXCEPT !.srv = cond, !.serverReady = ok] ELSE a
    BY ZenonT(60) DEF Reported
  <1> HIDE DEF cond, ok
  <1>3. a \in Status /\ a.seen = o.gen
    BY <1>1, ZenonT(60) DEF Status
  <1> HIDE DEF a
  <1>4. /\ [a EXCEPT !.srv = cond, !.serverReady = ok] \in Status
        /\ [a EXCEPT !.srv = cond, !.serverReady = ok].seen = o.gen
    BY <1>1, <1>b, <1>3, ZenonT(60) DEF Status
  <1>. QED
    BY <1>2, <1>3, <1>4

\* Both ends of a reconcile.
LEMMA ReportGood ==
    ASSUME TypeOK, ServerInv, Report \/ ReportFailure
    PROVE  Good
  <1>1. CASE Report
    <2>1. job.pc = "report" /\ UpdateStatus(Reported(job.obj), Reported(job.obj).ready = "False")
      BY <1>1 DEF Report
    <2>2. job.pc # "idle" /\ job.obj \in RepoObj /\ job.obj.gen \in Nat
      BY <2>1, JobTypes DEF RepoObj
    <2>3. Reported(job.obj) \in Status /\ Reported(job.obj).seen = job.obj.gen
      BY <2>2, ReportedTypes
    <2>4. PICK st \in Status : st = Reported(job.obj)
      BY <2>3
    <2>5. PICK retry \in BOOLEAN : retry = (Reported(job.obj).ready = "False")
      BY ZenonT(60)
    <2>6. UpdateStatus(st, retry)
      BY <2>1, <2>4, <2>5, ZenonT(60)
    <2>7. st.seen <= job.obj.gen
      BY <2>2, <2>3, <2>4
    <2>. QED
      BY <2>1, <2>2, <2>6, <2>7, StatusGood, ZenonT(60)
  <1>2. CASE ReportFailure
    <2>1. job.pc = "failed" /\ job.pc # "idle" /\ UpdateStatus(job.obj.st, TRUE)
      BY <1>2, ZenonT(60) DEF ReportFailure
    <2>2. job.obj.st \in Status /\ job.obj.st.seen <= job.obj.gen
      BY <2>1, JobTypes DEF ServerInv, SeenInv
    <2>. QED
      BY <2>1, <2>2, StatusGood, ZenonT(60)
  <1>. QED
    BY <1>1, <1>2

\* The cache of the repository catches up; a reconcile whose copy is current
\* has nothing to catch up with.
LEMMA DeliverRepoGood ==
    ASSUME TypeOK, ServerInv, DeliverRepo
    PROVE  Good
  <1>1. /\ repo \in Streams(RepoObj \cup {Nil}) /\ ~CaughtUp(repo) /\ repo' = Deliver(repo)
        /\ queued' = TRUE /\ UNCHANGED <<children, world, job, budgets>>
    BY DEF TypeOK, DeliverRepo
  <1>2. RepoOK' /\ Cur' = Cur /\ Versions(repo)' \subseteq Versions(repo)
    BY <1>1, StreamDeliver, ZenonT(60) DEF RepoOK, Cur
  <1>3. CurDep' = CurDep /\ job' = job /\ (ReadyNow' <=> ReadyNow)
    BY <1>1, <1>2 DEF CurDep, children, ReadyNow
  <1>4. ChildrenOK' /\ RestOK'
    BY <1>1, ZenonT(60) DEF TypeOK, ChildrenOK, RestOK, children, world, budgets
  <1>5. JobOK'
    BY <1>3 DEF TypeOK, JobOK
  <1>6. TypeOK'
    BY <1>2, <1>4, <1>5, ZenonT(60) DEF TypeOK, RepoOK, ChildrenOK, JobOK, RestOK
  <1>7. SeenInv'
    BY <1>2, <1>3 DEF ServerInv, SeenInv
  <1>8. CopyInv'
    BY <1>1, <1>3, ZenonT(60) DEF ServerInv, CopyInv
  <1>9. SettledInv'
    BY <1>2, <1>3, ZenonT(60) DEF ServerInv, SettledInv, SameSpec
  <1>10. DeployedInv' /\ ReadyWasDeployed'
    BY <1>2, <1>3, ZenonT(60) DEF ServerInv, DeployedInv, ReadyWasDeployed, Matches
  <1>. QED
    BY <1>6, <1>7, <1>8, <1>9, <1>10, SMTT(60) DEF Good, ServerInv

\* Other clients' writes of the repository: the new version is not reported
\* on yet, and the copy of the reconcile is outdated.
LEMMA ClientGood ==
    ASSUME TypeOK, ServerInv, NEW v \in RepoVersion, WriteRepo(v), Invalidate,
           v # Nil => v.st.seen <= v.gen /\ ~(v.st.ready = "True" /\ v.st.seen = v.gen),
           UNCHANGED <<tls, dep, svc>>, RestOK'
    PROVE  Good
  <1>1. /\ job' \in Job \cup {IdleJob} /\ job'.pc = job.pc /\ job'.obj = job.obj /\ ~job'.fresh
    <2>1. job' = [job EXCEPT !.fresh = FALSE]
      BY DEF Invalidate
    <2>2. CASE job \in Job
      BY <2>1, <2>2, ZenonT(60) DEF Job
    <2>3. CASE job = IdleJob
      BY <2>1, <2>3, ZenonT(60) DEF IdleJob
    <2>. QED
      BY <2>2, <2>3 DEF TypeOK
  <1>2. JobOK'
    BY <1>1, SMTT(60) DEF TypeOK, JobOK
  <1>3. repo \in Streams(RepoVersion) /\ repo' = Put(repo, v)
    BY DEF TypeOK, RepoVersion, WriteRepo
  <1>4. Cur' = v /\ Versions(repo)' \subseteq Versions(repo) \cup {v} /\ RepoOK'
    <2>1. /\ Put(repo, v) \in Streams(RepoVersion) /\ Current(Put(repo, v)) = v
          /\ Versions(Put(repo, v)) \subseteq Versions(repo) \cup {v}
      BY <1>3, StreamPut, ZenonT(60)
    <2>. QED
      BY <1>3, <2>1, ZenonT(60) DEF Cur, RepoOK, RepoVersion
  <1>5. CurDep' = CurDep /\ ~ReadyNow'
    BY <1>4 DEF CurDep, ReadyNow
  <1>6. ChildrenOK'
    BY ZenonT(60) DEF TypeOK, ChildrenOK
  <1>7. TypeOK'
    BY <1>2, <1>4, <1>6, ZenonT(60) DEF TypeOK, RepoOK, ChildrenOK, JobOK, RestOK
  <1>8. SeenInv'
    BY <1>1, <1>4, ZenonT(60) DEF ServerInv, SeenInv
  <1>9. CopyInv' /\ SettledInv' /\ ReadyWasDeployed'
    BY <1>1, <1>5, ZenonT(60) DEF CopyInv, SettledInv, ReadyWasDeployed
  <1>10. DeployedInv'
    BY <1>1, <1>5 DEF ServerInv, DeployedInv, Matches
  <1>. QED
    BY <1>7, <1>8, <1>9, <1>10, ZenonT(60) DEF Good, ServerInv

\* A repository starts with its first generation and no status.
LEMMA NewRepoType ==
    ASSUME NEW uid \in Nat, NEW s \in Settings
    PROVE  /\ NewRepo(uid, s) \in RepoObj
           /\ NewRepo(uid, s).st.seen = 0 /\ NewRepo(uid, s).gen = 1
  <1>1. 0 \in Nat /\ 1 \in Nat
    BY ZenonT(60)
  <1>2. NoStatus \in Status /\ NoStatus.seen = 0
    BY <1>1, ZenonT(60) DEF NoStatus, Status, Condition
  <1>. QED
    BY <1>1, <1>2, ZenonT(60) DEF NewRepo, RepoObj, TlsKind

\* The edits of the repository.
LEMMA EditGood ==
    ASSUME TypeOK, ServerInv,
           \/ \E s \in Settings : SetSpec(s) \/ CreateRepo(s)
           \/ \E k \in TlsKind : SetTls(k)
           \/ ToggleServer \/ DeleteRepo
    PROVE  Good
  <1>1. ASSUME NEW kind, NEW w \in RepoObj, w.gen = Cur.gen, w.st = Cur.st, EditRepo(kind, w)
        PROVE  Good
    <2> DEFINE v == [w EXCEPT !.gen = @ + 1]
    <2>1. v \in RepoObj /\ v.gen = Cur.gen + 1 /\ v.st = Cur.st /\ Cur.gen \in Nat /\ Cur.st.seen \in Nat
      BY <1>1 DEF RepoObj, Status
    <2>2. Cur # Nil /\ WriteRepo(v) /\ Invalidate /\ Edit(kind) /\ UNCHANGED <<children, world, queued>>
      BY <1>1, ZenonT(60) DEF EditRepo
    <2> HIDE DEF v
    <2>3. Cur.st.seen <= Cur.gen
      BY <2>2, ReadTypes, SMTT(60) DEF ServerInv, SeenInv
    <2>4. v \in RepoVersion /\ v.st.seen <= v.gen /\ v.st.seen # v.gen
      <3>1. v \in RepoVersion
        BY <2>1, ZenonT(60) DEF RepoVersion
      <3>. QED
        BY <2>1, <2>3, <3>1, SMTT(60)
    <2>5. RestOK' /\ UNCHANGED <<tls, dep, svc>>
      <3>1. allowed' \subseteq Kind /\ faults' \in Nat /\ edits' \in Nat
        BY <2>2, BudgetTypes, ZenonT(60)
      <3>. QED
        BY <2>2, <3>1, ZenonT(60) DEF TypeOK, RestOK, children, world
    <2>. QED
      BY <2>2, <2>4, <2>5, ClientGood, ZenonT(60)
  <1>2. Cur # Nil => Cur \in RepoObj
    BY ReadTypes DEF RepoVersion
  <1>3. ASSUME NEW s \in Settings, SetSpec(s) PROVE Good
    <2>1. Cur # Nil
      BY <1>3, ZenonT(60) DEF SetSpec, EditRepo
    <2>2. /\ [Cur EXCEPT !.spec = s] \in RepoObj /\ [Cur EXCEPT !.spec = s].gen = Cur.gen
          /\ [Cur EXCEPT !.spec = s].st = Cur.st
      BY <1>2, <2>1 DEF RepoObj
    <2>. QED
      BY <1>1, <1>3, <2>2, ZenonT(60) DEF SetSpec
  <1>4. ASSUME NEW k \in TlsKind, SetTls(k) PROVE Good
    <2>1. Cur # Nil
      BY <1>4, ZenonT(60) DEF SetTls, EditRepo
    <2>2. /\ [Cur EXCEPT !.tls = k] \in RepoObj /\ [Cur EXCEPT !.tls = k].gen = Cur.gen
          /\ [Cur EXCEPT !.tls = k].st = Cur.st
      BY <1>2, <2>1 DEF RepoObj
    <2>. QED
      BY <1>1, <1>4, <2>2, ZenonT(60) DEF SetTls
  <1>5. CASE ToggleServer
    <2> DEFINE w == [Cur EXCEPT !.server = ~@]
    <2>1. Cur # Nil /\ EditRepo("mode", w)
      BY <1>5, ZenonT(60) DEF ToggleServer, EditRepo
    <2>2. w \in RepoObj /\ w.gen = Cur.gen /\ w.st = Cur.st
      BY <1>2, <2>1, ZenonT(60) DEF RepoObj
    <2> HIDE DEF w
    <2>. QED
      BY <1>1, <2>1, <2>2, ZenonT(60)
  <1>6. CASE DeleteRepo
    <2>1. WriteRepo(Nil) /\ Invalidate /\ Edit("delete") /\ UNCHANGED <<tls, dep, svc, world, queued>>
      BY <1>6 DEF DeleteRepo
    <2>2. orphans' \subseteq {"tls", "dep", "svc"}
      <3>1. orphans \subseteq {"tls", "dep", "svc"}
        BY ZenonT(60) DEF TypeOK
      <3>2. orphans' \subseteq orphans \cup {"tls", "dep", "svc"}
        BY <1>6, ZenonT(60) DEF DeleteRepo
      <3>. QED
        BY <3>1, <3>2, ZenonT(60)
    <2>3. allowed' \subseteq Kind /\ faults' \in Nat /\ edits' \in Nat
      BY <2>1, BudgetTypes, ZenonT(60)
    <2>4. RestOK'
      BY <2>1, <2>2, <2>3, ZenonT(60) DEF TypeOK, RestOK, world
    <2>5. Nil \in RepoVersion /\ UNCHANGED <<tls, dep, svc>>
      BY <2>1 DEF RepoVersion
    <2>. QED
      BY <2>1, <2>4, <2>5, ClientGood, ZenonT(60)
  <1>7. ASSUME NEW s \in Settings, CreateRepo(s) PROVE Good
    <2> DEFINE v == NewRepo(uids + 1, s)
    <2>1. WriteRepo(v) /\ Invalidate /\ uids' = uids + 1 /\ UNCHANGED <<children, aged, pod, queued, budgets>>
      BY <1>7, ZenonT(60) DEF CreateRepo
    <2>2. v \in RepoObj /\ v.st.seen = 0 /\ v.gen = 1
      <3>1. uids + 1 \in Nat
        BY SMTT(60) DEF TypeOK
      <3>. QED
        BY <3>1, NewRepoType, ZenonT(60)
    <2> HIDE DEF v
    <2>3. v \in RepoVersion /\ v.st.seen <= v.gen /\ v.st.seen # v.gen
      BY <2>2, SMTT(60) DEF RepoVersion
    <2>4. uids' \in Nat
      BY <2>1 DEF TypeOK
    <2>5. RestOK' /\ UNCHANGED <<tls, dep, svc>>
      BY <2>1, <2>4, ZenonT(60) DEF TypeOK, RestOK, children, budgets
    <2>. QED
      BY <2>1, <2>3, <2>5, ClientGood, ZenonT(60)
  <1>. QED
    BY <1>3, <1>4, <1>5, <1>6, <1>7, ZenonT(60)

\* Steps of the rest of the cluster that leave the reconcile alone too.
LEMMA ClusterGood ==
    ASSUME TypeOK, ServerInv, UNCHANGED repo, job' = job, DeploymentStep, ChildrenOK', RestOK'
    PROVE  Good
  <1>1. Continues /\ JobOK'
    BY DEF Continues, TypeOK, JobOK
  <1>. QED
    BY <1>1, ChildGood, ZenonT(60)

\* Deployments are deleted, or their status is written.
LEMMA DepGood ==
    ASSUME TypeOK, ServerInv, NEW v \in DepVersion, WriteDep(v), UNCHANGED <<repo, job>>, RestOK',
           v = Nil \/ (CurDep # Nil /\ v.spec = CurDep.spec /\ v.tls = CurDep.tls)
    PROVE  Good
  <1>1. dep \in Streams(DepVersion) /\ dep' = Put(dep, v) /\ UNCHANGED <<tls, svc>>
    BY SMTT(60) DEF TypeOK, DepVersion, WriteDep
  <1>2. CurDep' = v
    BY <1>1, StreamPut, SMTT(60) DEF CurDep
  <1>3. DeploymentStep
    BY <1>2 DEF DeploymentStep
  <1>4. dep' \in Streams(DeploymentObj \cup {Nil})
    BY WriteTypes, ZenonT(60)
  <1>5. ChildrenOK'
    BY <1>1, <1>4, ZenonT(60) DEF TypeOK, ChildrenOK
  <1>. QED
    BY <1>3, <1>5, ClusterGood, ZenonT(60)

\* The other children are written or deleted, the cache catches up.
LEMMA OtherChildGood ==
    ASSUME TypeOK, ServerInv, UNCHANGED <<repo, job>>, CurDep' = CurDep,
           dep' \in Streams(DeploymentObj \cup {Nil}),
           tls' \in [TlsKind -> Streams(Cert \cup {Nil})],
           svc' \in Streams(Settings \cup {Nil}), RestOK'
    PROVE  Good
  <1>1. DeploymentStep /\ ChildrenOK'
    BY DEF DeploymentStep, ChildrenOK
  <1>. QED
    BY <1>1, ClusterGood, SMTT(60)

\* The caches of the children.
LEMMA DeliverGood ==
    ASSUME TypeOK, ServerInv, DeliverDep \/ DeliverSvc \/ \E k \in TlsKind : DeliverTls(k)
    PROVE  Good
  <1>1. CASE DeliverDep
    <2>1. /\ dep \in Streams(DeploymentObj \cup {Nil}) /\ ~CaughtUp(dep) /\ dep' = Deliver(dep)
          /\ queued' = TRUE /\ UNCHANGED <<repo, tls, svc, orphans, world, job, budgets>>
      BY <1>1, ZenonT(60) DEF TypeOK, DeliverDep
    <2>2. dep' \in Streams(DeploymentObj \cup {Nil}) /\ CurDep' = CurDep
      BY <2>1, StreamDeliver DEF CurDep
    <2>3. RestOK' /\ tls' \in [TlsKind -> Streams(Cert \cup {Nil})] /\ svc' \in Streams(Settings \cup {Nil})
      BY <2>1, ZenonT(60) DEF TypeOK, RestOK, world, budgets
    <2>. QED
      BY <2>1, <2>2, <2>3, OtherChildGood, ZenonT(60)
  <1>2. CASE DeliverSvc
    <2>1. /\ svc \in Streams(Settings \cup {Nil}) /\ ~CaughtUp(svc) /\ svc' = Deliver(svc)
          /\ queued' = TRUE /\ UNCHANGED <<repo, tls, dep, orphans, world, job, budgets>>
      BY <1>2, SMTT(60) DEF TypeOK, DeliverSvc
    <2>2. svc' \in Streams(Settings \cup {Nil}) /\ CurDep' = CurDep
      BY <2>1, StreamDeliver DEF CurDep
    <2>3. /\ RestOK' /\ tls' \in [TlsKind -> Streams(Cert \cup {Nil})]
          /\ dep' \in Streams(DeploymentObj \cup {Nil})
      BY <2>1, ZenonT(60) DEF TypeOK, RestOK, world, budgets
    <2>. QED
      BY <2>1, <2>2, <2>3, OtherChildGood, ZenonT(60)
  <1>3. ASSUME NEW k \in TlsKind, DeliverTls(k) PROVE Good
    <2>1. /\ tls[k] \in Streams(Cert \cup {Nil}) /\ ~CaughtUp(tls[k])
          /\ tls' = [tls EXCEPT ![k] = Deliver(tls[k])]
          /\ UNCHANGED <<repo, dep, svc, orphans, world, queued, job, budgets>>
      BY <1>3, ZenonT(60) DEF TypeOK, DeliverTls
    <2>2. Deliver(tls[k]) \in Streams(Cert \cup {Nil})
      BY <2>1, StreamDeliver
    <2>3. tls' \in [TlsKind -> Streams(Cert \cup {Nil})]
      BY <2>1, <2>2, ZenonT(60) DEF TypeOK
    <2>4. /\ RestOK' /\ svc' \in Streams(Settings \cup {Nil})
          /\ dep' \in Streams(DeploymentObj \cup {Nil})
      BY <2>1, ZenonT(60) DEF TypeOK, RestOK, world, budgets
    <2>5. CurDep' = CurDep
      BY <2>1 DEF CurDep
    <2>. QED
      BY <2>1, <2>3, <2>4, <2>5, OtherChildGood, ZenonT(60)
  <1>. QED
    BY <1>1, <1>2, <1>3

\* Children are collected or deleted by hand, the user's Secret is written.
LEMMA ChildEditGood ==
    ASSUME TypeOK, ServerInv,
           \/ \E child \in {"tls", "dep", "svc"} : CollectGarbage(child)
           \/ DeleteDeployment \/ DeleteService \/ DeleteTLSSecret \/ WriteUserSecret
    PROVE  Good
  <1>1. ASSUME WriteDep(Nil), UNCHANGED <<repo, job>>, RestOK' PROVE Good
    <2>1. Nil \in DepVersion
      BY ZenonT(60) DEF DepVersion
    <2>. QED
      BY <1>1, <2>1, DepGood, ZenonT(60)
  <1>2. ASSUME NEW k \in TlsKind, NEW c \in Cert \cup {Nil}, WriteTls(k, c), UNCHANGED <<repo, job>>, RestOK'
        PROVE  Good
    <2>1. tls' \in [TlsKind -> Streams(Cert \cup {Nil})]
      BY <1>2, WriteTypes, ZenonT(60)
    <2>2. UNCHANGED <<dep, svc>> /\ CurDep' = CurDep
      BY <1>2, ZenonT(60) DEF WriteTls, CurDep
    <2>3. dep' \in Streams(DeploymentObj \cup {Nil}) /\ svc' \in Streams(Settings \cup {Nil})
      BY <2>2, ZenonT(60) DEF TypeOK
    <2>. QED
      BY <1>2, <2>1, <2>2, <2>3, OtherChildGood
  <1>3. ASSUME WriteSvc(Nil), UNCHANGED <<repo, job>>, RestOK' PROVE Good
    <2>1. svc' \in Streams(Settings \cup {Nil})
      BY <1>3, WriteTypes, ZenonT(60)
    <2>2. UNCHANGED <<tls, dep>> /\ CurDep' = CurDep
      BY <1>3, ZenonT(60) DEF WriteSvc, CurDep
    <2>3. /\ dep' \in Streams(DeploymentObj \cup {Nil})
          /\ tls' \in [TlsKind -> Streams(Cert \cup {Nil})]
      BY <2>2, ZenonT(60) DEF TypeOK
    <2>. QED
      BY <1>3, <2>1, <2>2, <2>3, OtherChildGood
  <1>4. "auto" \in TlsKind /\ "user" \in TlsKind /\ Nil \in Cert \cup {Nil}
    BY DEF TlsKind
  <1>5. ASSUME NEW child \in {"tls", "dep", "svc"}, CollectGarbage(child) PROVE Good
    <2>1. /\ orphans' = orphans \ {child}
          /\ CASE child = "tls" -> WriteTls("auto", Nil)
               [] child = "dep" -> WriteDep(Nil)
               [] child = "svc" -> WriteSvc(Nil)
          /\ UNCHANGED <<repo, world, queued, job, budgets>>
      BY <1>5, ZenonT(60) DEF CollectGarbage
    <2>2. orphans' \subseteq {"tls", "dep", "svc"}
      BY <2>1 DEF TypeOK
    <2>3. RestOK'
      BY <2>1, <2>2, ZenonT(60) DEF TypeOK, RestOK, world, budgets
    <2>4. CASE child = "tls"
      <3>1. WriteTls("auto", Nil)
        BY <2>1, <2>4
      <3>. QED
        BY <1>2, <1>4, <2>1, <2>3, <3>1
    <2>5. CASE child = "dep"
      <3>1. WriteDep(Nil)
        BY <2>1, <2>5
      <3>. QED
        BY <1>1, <2>1, <2>3, <3>1
    <2>6. CASE child = "svc"
      <3>1. WriteSvc(Nil)
        BY <2>1, <2>6
      <3>. QED
        BY <1>3, <2>1, <2>3, <3>1
    <2>. QED
      BY <2>4, <2>5, <2>6
  <1>6. ASSUME NEW k, Edit(k), UNCHANGED <<world, queued>>, NEW c, orphans' = orphans \ {c}
        PROVE  RestOK'
    <2>1. allowed' \subseteq Kind /\ faults' \in Nat /\ edits' \in Nat /\ orphans' \subseteq {"tls", "dep", "svc"}
      BY <1>6, BudgetTypes, ZenonT(60) DEF TypeOK
    <2>. QED
      BY <1>6, <2>1, ZenonT(60) DEF TypeOK, RestOK, world
  <1>7. CASE DeleteDeployment
    <2>1. RestOK' /\ WriteDep(Nil) /\ UNCHANGED <<repo, job>>
      BY <1>6, <1>7, ZenonT(60) DEF DeleteDeployment, EditChild
    <2>. QED
      BY <1>1, <2>1
  <1>8. CASE DeleteService
    <2>1. RestOK' /\ WriteSvc(Nil) /\ UNCHANGED <<repo, job>>
      BY <1>6, <1>8, ZenonT(60) DEF DeleteService, EditChild
    <2>. QED
      BY <1>3, <2>1
  <1>9. CASE DeleteTLSSecret
    <2>1. RestOK' /\ WriteTls("auto", Nil) /\ UNCHANGED <<repo, job>>
      BY <1>6, <1>9, ZenonT(60) DEF DeleteTLSSecret, EditChild
    <2>. QED
      BY <1>2, <1>4, <2>1
  <1>10. CASE WriteUserSecret
    <2>1. /\ Edit("userSecret") /\ Mint /\ WriteTls("user", NewCert)
          /\ UNCHANGED <<repo, orphans, pod, uids, queued, job>>
      BY <1>10 DEF WriteUserSecret
    <2>2. NewCert \in Cert /\ aged' \subseteq Cert /\ allowed' \subseteq Kind /\ faults' \in Nat /\ edits' \in Nat
      BY <2>1, MintType, BudgetTypes, ZenonT(60) DEF Mint, TypeOK
    <2>3. RestOK'
      BY <2>1, <2>2, ZenonT(60) DEF TypeOK, RestOK
    <2>4. NewCert \in Cert \cup {Nil}
      BY <2>2
    <2>. QED
      BY <1>2, <1>4, <2>1, <2>3, <2>4, SMTT(60)
  <1>. QED
    BY <1>5, <1>7, <1>8, <1>9, <1>10, SMTT(60)

\* The pod, the passing of time, restarts and resyncs.
LEMMA ElsewhereGood ==
    ASSUME TypeOK, ServerInv,
           \/ Resync \/ Restart \/ StartPod \/ StopPod \/ ReportPods \/ LosePod
           \/ \E c \in {CurTls("auto")} \ {Nil} : Expire(c)
           \/ UNCHANGED vars
    PROVE  Good
  <1>1. ASSUME UNCHANGED <<repo, children, job>>, RestOK' PROVE Good
    <2>1. CurDep' = CurDep /\ UNCHANGED <<tls, dep, svc>>
      BY <1>1 DEF CurDep, children
    <2>2. /\ dep' \in Streams(DeploymentObj \cup {Nil}) /\ svc' \in Streams(Settings \cup {Nil})
          /\ tls' \in [TlsKind -> Streams(Cert \cup {Nil})]
      BY <2>1, ZenonT(60) DEF TypeOK
    <2>. QED
      BY <1>1, <2>1, <2>2, OtherChildGood, SMTT(60)
  <1>2. CASE Resync
    <2>1. queued' = TRUE /\ UNCHANGED <<repo, children, world, job, budgets>>
      BY <1>2, SMTT(60) DEF Resync
    <2>2. RestOK'
      BY <2>1, ZenonT(60) DEF TypeOK, RestOK, children, world, budgets
    <2>. QED
      BY <1>1, <2>1, <2>2, SMTT(60)
  <1>3. CASE Restart
    <2>1. Fault("crash") /\ job' = IdleJob /\ queued' \in BOOLEAN /\ UNCHANGED <<repo, children, world>>
      BY <1>3 DEF Restart
    <2>2. allowed' \subseteq Kind /\ faults' \in Nat /\ edits' \in Nat
      BY <2>1, BudgetTypes, ZenonT(60)
    <2>3. RestOK' /\ ChildrenOK'
      BY <2>1, <2>2, ZenonT(60) DEF TypeOK, RestOK, ChildrenOK, children, world
    <2>4. JobOK' /\ Continues /\ DeploymentStep /\ job'.pc = "idle"
      BY <2>1, ZenonT(60) DEF JobOK, Continues, DeploymentStep, CurDep, children, IdleJob
    <2>. QED
      BY <2>1, <2>3, <2>4, ChildGood, SMTT(60)
  <1>4. CASE StartPod
    <2>1. /\ CurDep # Nil /\ CurTls(CurDep.tls) # Nil
          /\ pod' = [spec |-> CurDep.spec, tls |-> CurDep.tls, cert |-> CurTls(CurDep.tls)]
          /\ UNCHANGED <<repo, children, aged, uids, queued, job, budgets>>
      BY <1>4, ZenonT(60) DEF StartPod
    <2>2. CurDep \in DeploymentObj
      BY <2>1, ReadTypes DEF DepVersion
    <2>3. CurDep.tls \in TlsKind /\ CurDep.spec \in Settings
      BY <2>2, ZenonT(60) DEF DeploymentObj
    <2>4. CurTls(CurDep.tls) \in Cert
      BY <2>1, <2>3, ReadTypes, ZenonT(60)
    <2>5. pod' \in Pod \cup {Nil}
      BY <2>1, <2>3, <2>4 DEF Pod
    <2>6. RestOK'
      BY <2>1, <2>5, ZenonT(60) DEF TypeOK, RestOK, children, budgets
    <2>. QED
      BY <1>1, <2>1, <2>6, ZenonT(60)
  <1>5. CASE StopPod \/ LosePod
    <2>1. pod' = Nil /\ UNCHANGED <<repo, children, aged, uids, queued, job>>
      BY <1>5, ZenonT(60) DEF StopPod, LosePod, budgets
    <2>2. allowed' \subseteq Kind /\ faults' \in Nat /\ edits' \in Nat /\ pod' \in Pod \cup {Nil}
      BY <1>5, <2>1, BudgetTypes, ZenonT(60) DEF StopPod, LosePod
    <2>3. RestOK'
      BY <2>1, <2>2, ZenonT(60) DEF TypeOK, RestOK, children
    <2>. QED
      BY <1>1, <2>1, <2>3
  <1>6. CASE ReportPods
    <2> DEFINE v == [CurDep EXCEPT !.ready = PodCurrent]
    <2>1. CurDep # Nil /\ WriteDep(v) /\ UNCHANGED <<repo, orphans, world, queued, job, budgets>>
      BY <1>6, ZenonT(60) DEF ReportPods
    <2>2. PodCurrent \in BOOLEAN
      BY DEF PodCurrent
    <2>3. v \in DepVersion /\ v.spec = CurDep.spec /\ v.tls = CurDep.tls
      BY <2>1, <2>2, ReadTypes DEF DepVersion, DeploymentObj
    <2> HIDE DEF v
    <2>4. RestOK'
      BY <2>1, ZenonT(60) DEF TypeOK, RestOK, world, budgets
    <2>5. UNCHANGED <<repo, job>>
      BY <2>1, SMTT(60)
    <2>. QED
      BY <2>1, <2>3, <2>4, <2>5, DepGood, ZenonT(60)
  <1>7. ASSUME NEW c \in {CurTls("auto")} \ {Nil}, Expire(c) PROVE Good
    <2>1. aged' = aged \cup {c} /\ Edit("expire") /\ UNCHANGED <<repo, children, pod, uids, queued, job>>
      BY <1>7, ZenonT(60) DEF Expire
    <2>2. c \in Cert /\ allowed' \subseteq Kind /\ faults' \in Nat /\ edits' \in Nat
      BY <1>7, <2>1, ReadTypes, BudgetTypes, ZenonT(60) DEF TlsKind
    <2>3. aged' \subseteq Cert
      BY <2>1, <2>2 DEF TypeOK
    <2>4. RestOK'
      BY <2>1, <2>2, <2>3, ZenonT(60) DEF TypeOK, RestOK, children
    <2>. QED
      BY <1>1, <2>1, <2>4
  <1>8. CASE UNCHANGED vars
    <2>1. UNCHANGED <<repo, children, world, queued, job, budgets>>
      BY <1>8 DEF vars
    <2>2. RestOK'
      BY <2>1, ZenonT(60) DEF TypeOK, RestOK, children, world, budgets
    <2>. QED
      BY <1>1, <2>1, <2>2
  <1>. QED
    BY <1>2, <1>3, <1>4, <1>5, <1>6, <1>7, <1>8, SMTT(60)

\* All steps.
LEMMA ServerStep == TypeOK /\ ServerInv /\ [Next]_vars => TypeOK' /\ ServerInv'
  <1> SUFFICES ASSUME TypeOK, ServerInv, [Next]_vars PROVE Good
    BY DEF Good
  <1>1. CASE Reconcile
    BY <1>1, StartGood, RotateGood, GenerateGood, DeployGood, ServiceGood, ReportGood, ZenonT(60) DEF Reconcile
  <1>2. CASE Environment
    BY <1>2, DeliverRepoGood, DeliverGood, EditGood, ChildEditGood, ElsewhereGood, ZenonT(60) DEF Environment
  <1>3. CASE UNCHANGED vars
    BY <1>3, ElsewhereGood, ZenonT(60)
  <1>. QED
    BY <1>1, <1>2, <1>3 DEF Next

\* The first state.
LEMMA ServerInit == Init => TypeOK /\ ServerInv
  <1> SUFFICES ASSUME Init PROVE TypeOK /\ ServerInv
    OBVIOUS
  <1>1. FirstSettings \in Settings
    BY ConstantsAssumption, ZenonT(60) DEF FirstSettings
  <1> DEFINE o == NewRepo(1, FirstSettings)
  <1>2. o \in RepoObj /\ o.st.seen = 0 /\ o.gen = 1
    BY <1>1, NewRepoType, ZenonT(60)
  <1> HIDE DEF o
  <1>3. repo = <<o>> /\ job = IdleJob /\ dep = <<Nil>>
    BY ZenonT(60) DEF Init, o
  <1>4. Cur = o /\ Versions(repo) = {o} /\ CurDep = Nil /\ job.pc = "idle"
    BY <1>3 DEF Cur, Current, Versions, CurDep, IdleJob
  <1>5. ServerInv
    <2>1. SeenInv
      BY <1>2, <1>4, SMTT(60) DEF SeenInv
    <2>2. ~ReadyNow
      BY <1>2, <1>4, SMTT(60) DEF ReadyNow
    <2>3. CopyInv /\ DeployedInv
      BY <1>4, ZenonT(60) DEF CopyInv, DeployedInv
    <2>4. SettledInv /\ ReadyWasDeployed
      BY <2>2, ZenonT(60) DEF SettledInv, ReadyWasDeployed
    <2>. QED
      BY <2>1, <2>3, <2>4, ZenonT(60) DEF ServerInv
  <1>6. RepoOK
    BY <1>2, <1>3, SMTT(60) DEF RepoOK, Streams
  <1>7. tls \in [TlsKind -> Streams(Cert \cup {Nil})]
    <2>1. <<UserCert>> \in Streams(Cert \cup {Nil}) /\ <<Nil>> \in Streams(Cert \cup {Nil})
      BY ConstantsAssumption, SMTT(60) DEF Streams
    <2>. QED
      BY <2>1 DEF Init
  <1>8. dep \in Streams(DeploymentObj \cup {Nil}) /\ svc \in Streams(Settings \cup {Nil})
    BY DEF Init, Streams
  <1>9. JobOK
    BY <1>3, <1>4, ZenonT(60) DEF JobOK
  <1>10. RestOK
    <2>1. PICK sc \in Scenario : allowed = sc.kinds /\ faults = sc.faults /\ edits = sc.edits
      BY ZenonT(60) DEF Init
    <2>2. sc \in [kinds : SUBSET Kind, faults : Nat, edits : Nat]
      BY ConstantsAssumption, ZenonT(60)
    <2>3. allowed \subseteq Kind /\ faults \in Nat /\ edits \in Nat
      BY <2>1, <2>2, ZenonT(60)
    <2>4. 1 \in Nat
      OBVIOUS
    <2>. QED
      BY <2>3, <2>4, ZenonT(60) DEF Init, RestOK
  <1>. QED
    BY <1>5, <1>6, <1>7, <1>8, <1>9, <1>10, TypeParts, ZenonT(60) DEF ChildrenOK

-----------------------------------------------------------------------------
(***************************************************************************)
(* RestIsServed                                                            *)
(*                                                                         *)
(* A step after which nothing is pending has changed none of the watched   *)
(* objects, unless it started a reconcile or the operator.  So what a      *)
(* reconcile has ensured since it started is still there when it reports.  *)
(***************************************************************************)
\* Something will bring the repository back to the worker.
Pending == queued \/ ~CaughtUp(repo) \/ ~CaughtUp(dep) \/ ~CaughtUp(svc)

\* What the reconcile has ensured so far is there.
OnTrack ==
    job.obj.server =>
        /\ job.pc \in {"service", "report"} => CurDep # Nil
        /\ job.pc = "report" => CurSvc = job.obj.spec

\* With nothing pending, the work is done or under way.
RestInv ==
    ~Pending => IF job.pc = "idle" THEN Cur # Nil => Settled(Cur) ELSE job.fresh => OnTrack

\* Writes that leave nothing pending change nothing.
LEMMA StillStep ==
    ASSUME TypeOK, [Next]_vars, ~Pending'
    PROVE  StartReconcile \/ Restart \/ (~Pending /\ UNCHANGED <<repo, dep, svc>>)
  <1> USE DEF Fail, Goto, Finish, Refused, ApiFault, children, world, budgets
  <1>1. StartReconcile \/ Restart \/ (queued => queued')
    <2>1. CASE Reconcile
      BY <2>1, ZenonT(60) DEF Reconcile, RotateTLSSecret, CreateTLSSecret, EnsureServerDeployment,
         EnsureServerService, Report, ReportFailure, UpdateStatus
    <2>2. CASE Environment
      BY <2>2, ZenonT(60) DEF Environment, DeliverRepo, DeliverDep, DeliverSvc, Resync, DeliverTls, SetTls,
         EditRepo, CollectGarbage, StartPod, StopPod, ReportPods, LosePod, SetSpec, CreateRepo, ToggleServer,
         DeleteRepo, DeleteDeployment, DeleteService, DeleteTLSSecret, EditChild, WriteUserSecret, Expire
    <2>. QED
      BY <2>1, <2>2, ZenonT(60) DEF Next, vars
  <1>2. ASSUME ~queued' PROVE repo' = repo \/ \E v : repo' = Put(repo, v)
    <2>1. CASE Reconcile
      BY <2>1, ZenonT(60) DEF Reconcile, StartReconcile, RotateTLSSecret, CreateTLSSecret, EnsureServerDeployment,
         EnsureServerService, Report, ReportFailure, UpdateStatus, WriteRepo
    <2>2. CASE Environment
      BY <1>2, <2>2, ZenonT(60) DEF Environment, DeliverRepo, DeliverDep, DeliverSvc, Resync, DeliverTls, SetTls,
         EditRepo, CollectGarbage, StartPod, StopPod, ReportPods, LosePod, SetSpec, CreateRepo, ToggleServer,
         DeleteRepo, DeleteDeployment, DeleteService, DeleteTLSSecret, EditChild, WriteUserSecret, Expire,
         WriteRepo, Restart
    <2>. QED
      BY <2>1, <2>2, ZenonT(60) DEF Next, vars
  <1>3. ASSUME ~queued' PROVE dep' = dep \/ \E v : dep' = Put(dep, v)
    <2>1. CASE Reconcile
      BY <2>1, ZenonT(60) DEF Reconcile, StartReconcile, RotateTLSSecret, CreateTLSSecret, EnsureServerDeployment,
         EnsureServerService, Report, ReportFailure, UpdateStatus, WriteDep, WriteTls, WriteSvc
    <2>2. CASE Environment
      BY <1>3, <2>2, ZenonT(60) DEF Environment, DeliverRepo, DeliverDep, DeliverSvc, Resync, DeliverTls, SetTls,
         EditRepo, CollectGarbage, StartPod, StopPod, ReportPods, LosePod, SetSpec, CreateRepo, ToggleServer,
         DeleteRepo, DeleteDeployment, DeleteService, DeleteTLSSecret, EditChild, WriteUserSecret, Expire,
         WriteDep, WriteTls, WriteSvc, Restart
    <2>. QED
      BY <2>1, <2>2, ZenonT(60) DEF Next, vars
  <1>4. ASSUME ~queued' PROVE svc' = svc \/ \E v : svc' = Put(svc, v)
    <2>1. CASE Reconcile
      BY <2>1, ZenonT(60) DEF Reconcile, StartReconcile, RotateTLSSecret, CreateTLSSecret, EnsureServerDeployment,
         EnsureServerService, Report, ReportFailure, UpdateStatus, WriteDep, WriteTls, WriteSvc
    <2>2. CASE Environment
      BY <1>4, <2>2, ZenonT(60) DEF Environment, DeliverRepo, DeliverDep, DeliverSvc, Resync, DeliverTls, SetTls,
         EditRepo, CollectGarbage, StartPod, StopPod, ReportPods, LosePod, SetSpec, CreateRepo, ToggleServer,
         DeleteRepo, DeleteDeployment, DeleteService, DeleteTLSSecret, EditChild, WriteUserSecret, Expire,
         WriteDep, WriteTls, WriteSvc, Restart
    <2>. QED
      BY <2>1, <2>2, ZenonT(60) DEF Next, vars
  <1>5. ~queued' /\ CaughtUp(repo') /\ CaughtUp(dep') /\ CaughtUp(svc')
    BY ZenonT(60) DEF Pending, CaughtUp
  <1>6. repo \in Streams(RepoVersion) /\ dep \in Streams(DepVersion) /\ svc \in Streams(Settings \cup {Nil})
    BY ZenonT(60) DEF TypeOK, RepoVersion, DepVersion
  <1>7. repo' = repo
    BY <1>2, <1>5, <1>6, StreamQuiet, ZenonT(60)
  <1>8. dep' = dep
    BY <1>3, <1>5, <1>6, StreamQuiet, ZenonT(60)
  <1>9. svc' = svc
    BY <1>4, <1>5, <1>6, StreamQuiet, ZenonT(60)
  <1>. QED
    BY <1>1, <1>5, <1>7, <1>8, <1>9, ZenonT(60) DEF Pending

\* What is written is current.
LEMMA PutCurrent ==
    ASSUME TypeOK
    PROVE  /\ \A v \in RepoVersion : Current(Put(repo, v)) = v
           /\ \A v \in DepVersion : Current(Put(dep, v)) = v
           /\ \A v \in Settings \cup {Nil} : Current(Put(svc, v)) = v
  <1>1. repo \in Streams(RepoVersion) /\ dep \in Streams(DepVersion) /\ svc \in Streams(Settings \cup {Nil})
    BY ZenonT(60) DEF TypeOK, RepoVersion, DepVersion
  <1>. QED
    BY <1>1, StreamPut

\* A reconcile starts, or the operator does.
LEMMA RestStart ==
    ASSUME TypeOK, StartReconcile \/ Restart, ~Pending'
    PROVE  RestInv'
  <1>1. repo' = repo /\ repo \in Streams(RepoVersion) /\ CaughtUp(repo)
    BY ZenonT(60) DEF StartReconcile, Restart, Pending, TypeOK, RepoVersion
  <1>2. Cached(repo) = Cur
    BY <1>1, StreamCaughtUp, ZenonT(60) DEF Cur
  <1>3. CASE Cached(repo) = Nil
    <2>1. job' = IdleJob
      BY <1>3, ZenonT(60) DEF StartReconcile, Restart
    <2>2. job'.pc = "idle" /\ Cur' = Nil
      BY <1>1, <1>2, <1>3, <2>1, ZenonT(60) DEF IdleJob, Cur
    <2>. QED
      BY <2>2, ZenonT(60) DEF RestInv
  <1>4. CASE Cached(repo) # Nil
    <2> DEFINE o == Cached(repo)
               n == IF o.server THEN EnsureTLSSecret(o) ELSE [pc |-> "report", obj |-> o]
    <2>1. o \in RepoObj /\ StartReconcile
      BY <1>4, ReadTypes, ZenonT(60) DEF RepoVersion, Restart, Pending
    <2>2. job' = [pc |-> n.pc, obj |-> n.obj, fresh |-> CaughtUp(repo)]
      BY <1>4, <2>1, ZenonT(60) DEF StartReconcile
    <2>3. /\ o.server => n = EnsureTLSSecret(o)
          /\ ~o.server => n = [pc |-> "report", obj |-> o]
      OBVIOUS
    <2> HIDE DEF n
    <2>4. job'.pc = n.pc /\ job'.obj = n.obj
      BY <2>2
    <2>5. CASE o.server
      <3>1. n.pc \in {"rotate", "generate", "deployment", "failed"}
        BY <2>1, <2>3, <2>5, EnsuredTypes, ZenonT(60)
      <3>2. job'.pc \notin {"service", "report"} /\ job'.pc # "report" /\ job'.pc # "idle"
        BY <2>4, <3>1
      <3>. QED
        BY <3>2, ZenonT(60) DEF RestInv, OnTrack
    <2>6. CASE ~o.server
      <3>1. n.pc = "report" /\ n.obj = o
        BY <2>3, <2>6, SMTT(60)
      <3>2. job'.pc # "idle" /\ ~job'.obj.server
        BY <2>4, <2>6, <3>1, ZenonT(60)
      <3>. QED
        BY <3>2, ZenonT(60) DEF RestInv, OnTrack
    <2>. QED
      BY <2>5, <2>6
  <1>. QED
    BY <1>3, <1>4

\* The reconcile goes on with nothing pending.
LEMMA RestGoes ==
    ASSUME TypeOK, RestInv, ~Pending, UNCHANGED <<repo, dep, svc>>,
           RotateTLSSecret \/ CreateTLSSecret \/ EnsureServerDeployment \/ EnsureServerService
    PROVE  RestInv'
  <1>1. job.pc \in {"rotate", "generate", "deployment", "service"}
    BY ZenonT(60) DEF RotateTLSSecret, CreateTLSSecret, EnsureServerDeployment, EnsureServerService
  <1>2. job.pc # "idle" /\ job \in Job /\ job.obj \in RepoObj
    BY <1>1, JobTypes
  <1>3. Fail => job'.pc = "failed"
    BY <1>2, ZenonT(60) DEF Fail, Job
  <1>4. \A ph : Goto(ph) => job'.pc = ph /\ job'.obj = job.obj /\ job'.fresh = job.fresh
    BY <1>2, ZenonT(60) DEF Goto, Job
  <1>5. CASE job'.pc \in {"generate", "deployment", "failed"}
    <2>1. job'.pc \notin {"service", "report"} /\ job'.pc # "report" /\ job'.pc # "idle"
      BY <1>5
    <2>. QED
      BY <2>1, ZenonT(60) DEF RestInv, OnTrack
  <1>6. CASE RotateTLSSecret \/ CreateTLSSecret
    <2>1. job'.pc \in {"generate", "deployment", "failed"}
      BY <1>2, <1>3, <1>4, <1>6, ZenonT(60) DEF RotateTLSSecret, CreateTLSSecret, Refused, ApiFault, Job
    <2>. QED
      BY <1>5, <2>1
  <1>7. CASE EnsureServerDeployment /\ job'.pc # "failed"
    <2> DEFINE v == Desired(job.obj, Cached(dep))
    <2>1. WriteDep(v) /\ Goto("service")
      BY <1>3, <1>7, ZenonT(60) DEF EnsureServerDeployment, Refused, ApiFault
    <2>2. v \in DeploymentObj
      BY <1>2 DEF Desired, DeploymentObj, RepoObj
    <2> HIDE DEF v
    <2>3. dep \in Streams(DepVersion) /\ v \in DepVersion /\ v # Nil
      BY <2>2, NilAssumption, ZenonT(60) DEF TypeOK, DepVersion
    <2>4. dep' = Put(dep, v) /\ Current(Put(dep, v)) = v
      BY <2>1, <2>3, PutCurrent, ZenonT(60) DEF WriteDep
    <2>5. CurDep' # Nil
      BY <2>3, <2>4, ZenonT(60) DEF CurDep
    <2>6. job'.pc = "service" /\ job'.pc # "idle" /\ job'.pc # "report"
      BY <1>4, <2>1, SMTT(60)
    <2>. QED
      BY <2>5, <2>6, ZenonT(60) DEF RestInv, OnTrack
  <1>8. CASE EnsureServerService /\ job'.pc # "failed"
    <2>1. job.pc = "service" /\ WriteSvc(job.obj.spec) /\ Goto("report")
      BY <1>3, <1>8, ZenonT(60) DEF EnsureServerService, Refused, ApiFault
    <2>2. svc \in Streams(Settings \cup {Nil}) /\ job.obj.spec \in Settings \cup {Nil}
      BY <1>2, ZenonT(60) DEF TypeOK, RepoObj
    <2>3. svc' = Put(svc, job.obj.spec) /\ Current(Put(svc, job.obj.spec)) = job.obj.spec
      BY <2>1, <2>2, PutCurrent, ZenonT(60) DEF WriteSvc
    <2>4. CurSvc' = job.obj.spec /\ CurDep' = CurDep
      BY <2>3, ZenonT(60) DEF CurSvc, CurDep
    <2>5. job'.pc = "report" /\ job'.pc # "idle" /\ job'.obj = job.obj /\ job'.fresh = job.fresh
      BY <1>4, <2>1
    <2>6. job.fresh /\ job.obj.server => CurDep # Nil
      BY <1>2, <2>1, ZenonT(60) DEF RestInv, OnTrack
    <2>. QED
      BY <2>4, <2>5, <2>6, ZenonT(60) DEF RestInv, OnTrack
  <1>. QED
    BY <1>5, <1>6, <1>7, <1>8, SMTT(60)

\* A reconcile that ends with nothing pending has written what it found.
LEMMA RestEnds ==
    ASSUME TypeOK, ServerInv, RestInv, ~Pending, ~Pending', UNCHANGED <<repo, dep, svc>>, Report \/ ReportFailure
    PROVE  RestInv'
  <1>1. Report
    BY ZenonT(60) DEF ReportFailure, UpdateStatus, Finish, Pending
  <1> DEFINE st == Reported(job.obj)
             v == [job.obj EXCEPT !.st = st]
  <1>2. /\ job.pc = "report" /\ job.fresh /\ WriteRepo(v) /\ st.ready # "False" /\ job' = IdleJob
    BY <1>1, ZenonT(60) DEF Report, UpdateStatus, Finish, Pending
  <1>3. job.obj \in RepoObj /\ job.obj.st \in Status
    BY <1>2, JobTypes
  <1>4. st \in Status /\ st.seen = job.obj.gen
    BY <1>3, ReportedTypes, ZenonT(60)
  <1>5. /\ job.obj.server => IsServerReady /\ st.srv = "True"
        /\ st.ready = "True"
    <2> DEFINE ok == job.obj.server => IsServerReady
               cond == IF ok THEN "True" ELSE "False"
               a == [job.obj.st EXCEPT !.ready = cond, !.seen = job.obj.gen]
    <2>1. st = IF job.obj.server THEN [a EXCEPT !.srv = cond, !.serverReady = ok] ELSE a
      BY ZenonT(60) DEF Reported
    <2> HIDE DEF st, cond, ok
    <2>2. st.ready = cond /\ (job.obj.server => st.srv = cond)
      BY <1>3, <2>1, ZenonT(60) DEF Status
    <2>3. cond = "True" /\ (job.obj.server => IsServerReady)
      BY <1>2, <2>2, ZenonT(60) DEF cond, ok
    <2>. QED
      BY <2>2, <2>3
  <1> HIDE DEF st
  <1>6. /\ v \in RepoObj /\ v.st = st /\ v.gen = job.obj.gen /\ v.server = job.obj.server
        /\ v.spec = job.obj.spec /\ v.tls = job.obj.tls
    BY <1>3, <1>4, ZenonT(60) DEF RepoObj
  <1> HIDE DEF v
  <1>7. Cur' = v
    <2>1. repo' = Put(repo, v)
      BY <1>2, ZenonT(60) DEF WriteRepo
    <2>2. Current(Put(repo, v)) = v
      BY <1>6, PutCurrent, ZenonT(60) DEF RepoVersion
    <2>. QED
      BY <2>1, <2>2, ZenonT(60) DEF Cur
  <1>8. dep \in Streams(DepVersion) /\ CaughtUp(dep)
    BY ZenonT(60) DEF TypeOK, DepVersion, Pending
  <1>9. Cached(dep) = CurDep /\ CurDep' = CurDep /\ CurSvc' = CurSvc
    BY <1>8, StreamCaughtUp, ZenonT(60) DEF CurDep, CurSvc
  <1>10. ASSUME job.obj.server
         PROVE  CurDep # Nil /\ CurDep.ready /\ CurSvc = job.obj.spec /\ Matches(CurDep, job.obj)
    <2>1. CurDep # Nil /\ CurSvc = job.obj.spec
      BY <1>2, <1>10, ZenonT(60) DEF RestInv, OnTrack
    <2>2. CurDep.ready
      BY <1>5, <1>9, <1>10, ZenonT(60) DEF IsServerReady
    <2>3. Matches(CurDep, job.obj)
      BY <1>2, <1>10, <2>1, ZenonT(60) DEF ServerInv, DeployedInv
    <2>. QED
      BY <2>1, <2>2, <2>3, SMTT(60)
  <1>11. Settled(Cur)'
    BY <1>4, <1>5, <1>6, <1>7, <1>9, <1>10, ZenonT(60) DEF Settled, Matches
  <1>. QED
    BY <1>2, <1>11, ZenonT(60) DEF RestInv, IdleJob

\* RestInv is inductive.
LEMMA RestStep == TypeOK /\ ServerInv /\ RestInv /\ [Next]_vars => RestInv'
  <1> SUFFICES ASSUME TypeOK, ServerInv, RestInv, [Next]_vars, ~Pending' PROVE RestInv'
    BY ZenonT(60) DEF RestInv
  <1>1. CASE StartReconcile \/ Restart
    BY <1>1, RestStart, SMTT(60)
  <1>2. CASE ~StartReconcile /\ ~Restart
    <2>1. ~Pending /\ UNCHANGED <<repo, dep, svc>>
      BY <1>2, StillStep, ZenonT(60)
    <2>2. CASE Reconcile
      BY <1>2, <2>1, <2>2, RestGoes, RestEnds, ZenonT(60) DEF Reconcile
    <2>3. ASSUME UNCHANGED job PROVE RestInv'
      BY <2>1, <2>3, ZenonT(60) DEF RestInv, OnTrack, Settled, Cur, CurDep, CurSvc, Matches
    <2>4. ASSUME Invalidate PROVE RestInv'
      <3>1. job'.pc = job.pc /\ ~job'.fresh
        BY <2>4, ZenonT(60) DEF Invalidate, TypeOK, Job, IdleJob
      <3>. QED
        BY <2>1, <3>1, ZenonT(60) DEF RestInv, OnTrack, Settled, Cur, CurDep, CurSvc, Matches
    <2>5. CASE Environment
      BY <1>2, <2>3, <2>4, <2>5, ZenonT(60) DEF Environment, DeliverRepo, DeliverDep, DeliverSvc, Resync, DeliverTls,
         SetTls, EditRepo, CollectGarbage, StartPod, StopPod, ReportPods, LosePod, SetSpec, CreateRepo, ToggleServer,
         DeleteRepo, DeleteDeployment, DeleteService, DeleteTLSSecret, EditChild, WriteUserSecret, Expire
    <2>6. CASE UNCHANGED vars
      BY <2>3, <2>6 DEF vars
    <2>. QED
      BY <2>2, <2>5, <2>6 DEF Next
  <1>. QED
    BY <1>1, <1>2

\* TypeOK: a reconcile past EnsureTLSSecret always has a fingerprint.
THEOREM ServerTypeCorrect == Spec => []TypeOK
  BY ServerInit, ServerStep, PTL DEF Spec

\* ReadyWasDeployed: Ready with the current observedGeneration means that the
\* Deployment there is was built from this generation, for every order of
\* stale reads, refused writes, restarts and edits.
THEOREM ReadyDeployed == Spec => []ReadyWasDeployed
  <1>1. ServerInv => ReadyWasDeployed
    BY DEF ServerInv
  <1>. QED
    BY <1>1, ServerInit, ServerStep, PTL DEF Spec

\* RestIsServed: no wake-up is lost.  The reconciler comes to rest only when
\* the repository's generation is reported ready and, in server mode, its
\* Deployment and Service are those of its settings, for every order of edits,
\* deletions, stale reads, refused writes, API errors and restarts.
THEOREM RestServed == Spec => []RestIsServed
  <1>1. Init => RestInv
    BY ZenonT(60) DEF Init, RestInv, Pending
  <1>2. RestInv => RestIsServed
    <2>1. job = IdleJob => job.pc = "idle"
      BY DEF IdleJob
    <2>. QED
      BY <2>1, ZenonT(60) DEF RestInv, RestIsServed, AtRest, Pending
  <1>. QED
    BY <1>1, <1>2, ServerInit, ServerStep, RestStep, PTL DEF Spec
=============================================================================
