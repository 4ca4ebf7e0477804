------------------------ MODULE BackupSyncedProofs -------------------------
(***************************************************************************)
(* What the synced annotation of a credentials Secret means in             *)
(* BackupCredentials: without the faults that undo it, the server accepts  *)
(* the Secret's credentials.                                               *)
(***************************************************************************)
EXTENDS BackupLifecycleProofs
-----------------------------------------------------------------------------
(***************************************************************************)
(* SyncedUsable                                                            *)
(*                                                                         *)
(* The annotation is written several calls after the credentials were      *)
(* read from a cache, and the exec may have set older ones.  With BackInv  *)
(* and OwnInv (the repository is the backup's, and no cleanup can run      *)
(* beside a Secret that counts) two facts make it true:                    *)
(*   SecretInv  credentials the Secret once had do not come back through   *)
(*              the cache;                                                 *)
(*   CredsInv   what is about to be marked is what the server has.         *)
(***************************************************************************)
\* All objects of the stream hold the credentials c.
OneCreds(w, c) == \A v \in Versions(w) : v # Nil => v.creds = c

\* Credentials the API server's Secret holds were never others in between.
Steady(w) ==
    \A i \in DOMAIN w : w[i] # Nil /\ Current(w) # Nil /\ w[i].creds = Current(w).creds
        => \A j \in i .. Len(w) : w[j] # Nil => w[j].creds = Current(w).creds

\* A write keeps a stream steady if it leaves the credentials alone, or
\* brings credentials no earlier version has.
LEMMA SteadyPut ==
    ASSUME NEW w \in Streams(SecretVersion), NEW v \in SecretVersion, Steady(w),
           \/ v = Nil
           \/ v # Nil /\ Current(w) # Nil /\ v.creds = Current(w).creds
           \/ v # Nil /\ \A x \in Versions(w) : x # Nil => x.creds # v.creds
    PROVE  Steady(Put(w, v))
  <1>1. CASE v = Current(w)
    BY <1>1 DEF Put
  <1>2. CASE v # Current(w)
    <2> DEFINE n == Len(w)
               u == Append(w, v)
    <2>1. w \in Seq(SecretVersion) /\ n \in Nat /\ n > 0 /\ DOMAIN w = 1 .. n
      BY DEF Streams
    <2>2. /\ Len(u) = n + 1 /\ DOMAIN u = 1 .. (n + 1) /\ u[n + 1] = v
          /\ \A i \in 1 .. n : u[i] = w[i]
      BY <2>1
    <2>3. Current(u) = v /\ Put(w, v) = u
      BY <1>2, <2>2, ZenonT(60) DEF Current, Put
    <2> HIDE DEF u, n
    <2>4. SUFFICES ASSUME NEW i \in 1 .. (n + 1), u[i] # Nil, v # Nil, u[i].creds = v.creds,
                          NEW j \in i .. (n + 1), u[j] # Nil
                   PROVE  u[j].creds = v.creds
      BY <2>2, <2>3, ZenonT(60) DEF Steady
    <2>5. CASE j = n + 1
      BY <2>2, <2>5, ZenonT(60)
    <2>6. CASE j # n + 1
      <3>1. i \in 1 .. n /\ j \in 1 .. n /\ j \in i .. n
        BY <2>1, <2>4, <2>6
      <3>2. u[i] = w[i] /\ u[j] = w[j] /\ w[i] \in Versions(w)
        BY <2>1, <2>2, <3>1, ZenonT(60) DEF Versions
      <3>3. Current(w) # Nil /\ v.creds = Current(w).creds
        BY <2>4, <3>2, ZenonT(60)
      <3>. QED
        BY <2>1, <2>4, <3>1, <3>2, <3>3, ZenonT(60) DEF Steady, n
    <2>. QED
      BY <2>5, <2>6, ZenonT(60)
  <1>. QED
    BY <1>1, <1>2, ZenonT(60)

\* What is left after a delivery is steady too.
LEMMA SteadyDeliver ==
    ASSUME NEW w \in Streams(SecretVersion), Steady(w), ~CaughtUp(w)
    PROVE  Steady(Deliver(w))
  <1> DEFINE n == Len(w)
             u == Tail(w)
  <1>1. w \in Seq(SecretVersion) /\ n \in Nat /\ n > 1 /\ DOMAIN w = 1 .. n
    <2>1. w \in Seq(SecretVersion) /\ Len(w) > 0 /\ Len(w) # 1
      BY DEF Streams, CaughtUp
    <2>2. Len(w) \in Nat /\ DOMAIN w = 1 .. Len(w)
      BY <2>1
    <2>3. Len(w) > 1
      BY <2>1, <2>2
    <2>. QED
      BY <2>1, <2>2, <2>3, ZenonT(60)
  <1>2. /\ Len(u) = n - 1 /\ DOMAIN u = 1 .. (n - 1) /\ \A i \in 1 .. (n - 1) : u[i] = w[i + 1]
    BY <1>1
  <1>3. Current(u) = Current(w) /\ Deliver(w) = u
    BY StreamDeliver, ZenonT(60) DEF Deliver
  <1> HIDE DEF u, n
  <1>4. SUFFICES ASSUME NEW i \in 1 .. (n - 1), u[i] # Nil, Current(w) # Nil, u[i].creds = Current(w).creds,
                        NEW j \in i .. (n - 1), u[j] # Nil
                 PROVE  u[j].creds = Current(w).creds
    BY <1>2, <1>3, ZenonT(60) DEF Steady
  <1>5. /\ i + 1 \in 1 .. n /\ j + 1 \in (i + 1) .. n /\ j \in 1 .. (n - 1)
    BY <1>1, <1>4
  <1>6. u[i] = w[i + 1] /\ u[j] = w[j + 1]
    BY <1>2, <1>5, ZenonT(60)
  <1>. QED
    BY <1>1, <1>4, <1>5, <1>6, ZenonT(60) DEF Steady, n

\* If the cache already holds the credentials the API server holds, no
\* version in between holds others.
LEMMA SteadyHead ==
    ASSUME NEW w \in Streams(SecretVersion), Steady(w), Cached(w) # Nil, Current(w) # Nil,
           Cached(w).creds = Current(w).creds
    PROVE  OneCreds(w, Current(w).creds)
  <1>1. w \in Seq(SecretVersion) /\ Len(w) \in Nat /\ Len(w) > 0 /\ DOMAIN w = 1 .. Len(w) /\ 1 \in DOMAIN w
    BY DEF Streams
  <1>2. Cached(w) = w[1]
    BY <1>1 DEF Cached
  <1>3. \A j \in 1 .. Len(w) : w[j] # Nil => w[j].creds = Current(w).creds
    BY <1>1, <1>2, ZenonT(60) DEF Steady
  <1>. QED
    BY <1>1, <1>3, ZenonT(60) DEF OneCreds, Versions
-----------------------------------------------------------------------------
\* The annotation claims the data (secretUserSynced).
Matches(s) == s # Nil /\ s.synced = s.creds

\* Every version of a Secret is of its PVC's user; while the annotation claims
\* the data no version on its way has other credentials, and credentials that
\* were replaced do not come back.
SecretInv ==
    \A p \in PVC :
        /\ \A v \in Versions(secret[p]) : v # Nil => v.creds.user[1] = p
        /\ Matches(CurSecret(p)) => OneCreds(secret[p], CurSecret(p).creds)
        /\ Steady(secret[p])

\* The phases of EnsureUser and what follows it with the same repository.
Handling == {"createSecret", "setUser", "rollback", "mark", "persist"}

\* The credentials in hand before the exec and before the patch: if the Secret
\* still has them the cache knows of no others, and if the Secret claims to be
\* synced they are its own.
HandInv ==
    job.pc \in {"setUser", "mark"} =>
        /\ job.creds.user[1] = MyPvc
        /\ CurSecret(MyPvc) # Nil /\ CurSecret(MyPvc).creds = job.creds => OneCreds(secret[MyPvc], job.creds)
        /\ Matches(CurSecret(MyPvc)) => job.creds = CurSecret(MyPvc).creds

\* No exec lingers, the reconcile works for the repository of its copy, and the
\* credentials about to be marked are those the server has.
CredsInv ==
    /\ late = {}
    /\ job.pc \in Handling => job.repo = job.obj.repo
    /\ HandInv
    /\ job.pc = "mark" => users[job.repo][job.creds.user] = job.creds.pw

\* A new password is in no version of a Secret and not in the operator's hands.
LEMMA PasswordNew ==
    ASSUME TypeOK, Mint
    PROVE  /\ \A p \in PVC : \A v \in Versions(secret[p]) : v # Nil =>
                  v.creds.pw # NewPassword /\ (v.synced # Nil => v.synced.pw # NewPassword)
           /\ job.creds # Nil => job.creds.pw # NewPassword
  <1>1. NewPassword \notin InUse
    BY NewPasswordFact, ZenonT(60)
  <1>2. ASSUME NEW p \in PVC, NEW v \in Versions(secret[p]), v # Nil, NEW c \in {v.creds, v.synced}, c # Nil
        PROVE  c.pw \in InUse
    <2>1. c \in CredsOf(v)
      BY <1>2, ZenonT(60) DEF CredsOf
    <2>2. c \in HeldCreds
      BY <1>2, <2>1, SMTT(60) DEF HeldCreds
    <2>. QED
      BY <2>2, SMTT(60) DEF InUse
  <1>3. ASSUME NEW p \in PVC, NEW v \in Versions(secret[p]), v # Nil PROVE v.creds # Nil
    <2>1. secret[p] \in Streams(SecretVersion)
      BY ZenonT(60) DEF TypeOK, SecretVersion
    <2>2. v \in SecretObj
      <3>1. Versions(secret[p]) \subseteq SecretVersion
        BY <2>1, StreamEnds, ZenonT(60)
      <3>. QED
        BY <1>3, <3>1, ZenonT(60) DEF SecretVersion
    <2>3. v.creds \in Creds
      BY <2>2, ZenonT(60) DEF SecretObj
    <2>. QED
      BY <2>3, NilAssumption, ZenonT(60)
  <1>4. job.creds # Nil => job.creds.pw \in InUse
    BY DEF InUse
  <1>. QED
    BY <1>1, <1>2, <1>3, <1>4, ZenonT(60)

\* A write of one Secret: the same credentials, new ones, or none.
LEMMA SecretPut ==
    ASSUME TypeOK, SecretInv, NEW p \in PVC, NEW v \in SecretVersion, WriteSecret(p, v),
           v # Nil => v.creds.user[1] = p,
           \/ v = Nil
           \/ v # Nil /\ CurSecret(p) # Nil /\ v.creds = CurSecret(p).creds
           \/ v # Nil /\ \A x \in Versions(secret[p]) : x # Nil => x.creds # v.creds,
           Matches(v) => OneCreds(secret[p], v.creds)
    PROVE  SecretInv'
  <1>1. secret[p] \in Streams(SecretVersion) /\ secret' = [secret EXCEPT ![p] = Put(secret[p], v)]
    BY ZenonT(60) DEF TypeOK, SecretVersion, WriteSecret
  <1>2. /\ \A x \in PVC \ {p} : secret'[x] = secret[x]
        /\ Current(secret'[p]) = v
        /\ Versions(secret'[p]) \subseteq Versions(secret[p]) \cup {v}
    BY WriteSecretStep, ZenonT(60)
  <1>3. secret'[p] = Put(secret[p], v)
    BY <1>1, ZenonT(60) DEF TypeOK
  <1>4. Steady(secret'[p])
    BY <1>1, <1>3, SteadyPut, ZenonT(60) DEF SecretInv, CurSecret
  <1>5. ASSUME NEW x \in PVC
        PROVE  /\ \A y \in Versions(secret'[x]) : y # Nil => y.creds.user[1] = x
               /\ Matches(Current(secret'[x])) => OneCreds(secret'[x], Current(secret'[x]).creds)
               /\ Steady(secret'[x])
    <2>1. CASE x # p
      BY <1>2, <2>1, ZenonT(60) DEF SecretInv, CurSecret
    <2>2. CASE x = p
      <3>1. \A y \in Versions(secret'[p]) : y # Nil => y.creds.user[1] = p
        BY <1>2, ZenonT(60) DEF SecretInv
      <3>2. Matches(v) => OneCreds(secret'[p], v.creds)
        BY <1>2, ZenonT(60) DEF OneCreds
      <3>. QED
        BY <1>2, <1>4, <2>2, <3>1, <3>2, ZenonT(60)
    <2>. QED
      BY <2>1, <2>2, ZenonT(60)
  <1>. QED
    BY <1>5, ZenonT(60) DEF SecretInv, CurSecret

\* A version delivered.
LEMMA SecretDelivered ==
    ASSUME TypeOK, SecretInv, NEW p \in PVC, DeliverSecret(p)
    PROVE  SecretInv'
  <1>1. secret[p] \in Streams(SecretVersion) /\ ~CaughtUp(secret[p])
    BY ZenonT(60) DEF TypeOK, SecretVersion, DeliverSecret
  <1>2. secret' = [secret EXCEPT ![p] = Deliver(secret[p])]
    BY ZenonT(60) DEF DeliverSecret
  <1>3. \A x \in PVC \ {p} : secret'[x] = secret[x]
    BY <1>2, ZenonT(60) DEF TypeOK
  <1>4. secret'[p] = Deliver(secret[p])
    BY <1>2, ZenonT(60) DEF TypeOK
  <1>5. Steady(secret'[p])
    BY <1>1, <1>4, SteadyDeliver, ZenonT(60) DEF SecretInv
  <1>6. \A x \in PVC : /\ Current(secret'[x]) = Current(secret[x])
                       /\ Versions(secret'[x]) \subseteq Versions(secret[x])
    BY DeliverSecretStep, ZenonT(60)
  <1>7. ASSUME NEW x \in PVC PROVE Steady(secret'[x])
    BY <1>3, <1>5, ZenonT(60) DEF SecretInv
  <1>. QED
    BY <1>6, <1>7, ZenonT(60) DEF SecretInv, CurSecret, OneCreds

\* The fields of the Secrets written.
LEMMA WrittenFields ==
    ASSUME TypeOK
    PROVE  /\ SecretMade => /\ NewSecret.creds.user[1] = MyPvc /\ ~Matches(NewSecret)
                            /\ NewSecret.creds.pw = NewPassword
           /\ SecretMarked => LET v == [CurSecret(MyPvc) EXCEPT !.synced = job.creds]
                              IN  v \in SecretObj /\ v.creds = CurSecret(MyPvc).creds /\ v.synced = job.creds
           /\ \A p \in PVC : RemoveAnnotation(p) =>
                  LET v == [CurSecret(p) EXCEPT !.synced = Nil]
                  IN  v \in SecretObj /\ v.creds = CurSecret(p).creds /\ ~Matches(v)
           /\ \A p \in PVC : ChangePassword(p) =>
                  LET v == [CurSecret(p) EXCEPT !.creds.pw = NewPassword]
                  IN  /\ v \in SecretObj /\ v.creds.user = CurSecret(p).creds.user
                      /\ v.creds.pw = NewPassword /\ ~Matches(v)
  <1>1. \A s \in SecretObj : s.creds # Nil
    BY NilAssumption, ZenonT(60) DEF SecretObj
  <1>2. ASSUME SecretMade
        PROVE  /\ NewSecret.creds.user[1] = MyPvc /\ ~Matches(NewSecret)
               /\ NewSecret.creds.pw = NewPassword
    <2>1. NewSecret.creds.user = Username(job.b, job.repo) /\ NewSecret.synced = Nil /\ NewSecret.creds.pw = NewPassword
      BY ZenonT(60) DEF NewSecret
    <2>2. Username(job.b, job.repo)[1] = MyPvc
      BY ZenonT(60) DEF Username, MyPvc
    <2>3. NewSecret.creds # Nil
      BY <1>1, <1>2, SecretWritten, ZenonT(60)
    <2>. QED
      BY <2>1, <2>2, <2>3, ZenonT(60) DEF Matches
  <1>3. ASSUME SecretMarked
        PROVE  LET v == [CurSecret(MyPvc) EXCEPT !.synced = job.creds]
               IN  v \in SecretObj /\ v.creds = CurSecret(MyPvc).creds /\ v.synced = job.creds
    <2>1. CurSecret(MyPvc) \in SecretObj /\ job.creds \in Creds
      BY <1>3, SecretWritten, ZenonT(60)
    <2>. QED
      BY <2>1, ZenonT(60) DEF SecretObj
  <1>4. ASSUME NEW p \in PVC, RemoveAnnotation(p)
        PROVE  LET v == [CurSecret(p) EXCEPT !.synced = Nil]
               IN  v \in SecretObj /\ v.creds = CurSecret(p).creds /\ ~Matches(v)
    <2> DEFINE v == [CurSecret(p) EXCEPT !.synced = Nil]
    <2>1. CurSecret(p) \in SecretObj
      BY <1>4, SecretWritten, ZenonT(60)
    <2>2. v \in SecretObj /\ v.creds = CurSecret(p).creds /\ v.synced = Nil
      BY <2>1, ZenonT(60) DEF SecretObj
    <2> HIDE DEF v
    <2>3. ~Matches(v)
      BY <1>1, <2>2, ZenonT(60) DEF Matches
    <2>. QED
      BY <2>2, <2>3, ZenonT(60) DEF v
  <1>5. ASSUME NEW p \in PVC, ChangePassword(p)
        PROVE  LET v == [CurSecret(p) EXCEPT !.creds.pw = NewPassword]
               IN  /\ v \in SecretObj /\ v.creds.user = CurSecret(p).creds.user
                   /\ v.creds.pw = NewPassword /\ ~Matches(v)
    <2> DEFINE v == [CurSecret(p) EXCEPT !.creds.pw = NewPassword]
    <2>1. CurSecret(p) \in SecretObj /\ Mint /\ CurSecret(p) # Nil
      BY <1>5, SecretWritten, ZenonT(60) DEF ChangePassword
    <2>2. NewPassword \in Password
      BY <2>1, NewPasswordFact, ZenonT(60)
    <2>3. /\ v \in SecretObj /\ v.creds.user = CurSecret(p).creds.user
          /\ v.creds.pw = NewPassword /\ v.synced = CurSecret(p).synced
      BY <2>1, <2>2, ZenonT(60) DEF SecretObj, Creds
    <2> HIDE DEF v
    <2>4. CurSecret(p) \in Versions(secret[p])
      BY StreamEnds, ZenonT(60) DEF TypeOK, CurSecret
    <2>5. v.synced # Nil => v.synced.pw # NewPassword
      BY <2>1, <2>3, <2>4, PasswordNew, ZenonT(60)
    <2>6. ~Matches(v)
      BY <1>1, <2>3, <2>5, ZenonT(60) DEF Matches
    <2>. QED
      BY <2>3, <2>6, ZenonT(60) DEF v
  <1>. QED
    BY <1>2, <1>3, <1>4, <1>5, ZenonT(60)

\* A Secret is made only once the cache has seen the former one go.
Apart == \A p \in PVC : CurSecret(p) = Nil /\ CurSecret(p)' # Nil => Versions(secret[p]) \subseteq {Nil}

\* SecretInv is kept, given what CredsInv says of the credentials in hand.
LEMMA SecretStep ==
    ASSUME TypeOK, SecretInv, CredsInv, [Next]_vars, [Apart]_vars
    PROVE  SecretInv'
  <1>1. CASE UNCHANGED secret
    BY <1>1, ZenonT(60) DEF SecretInv, CurSecret
  <1>2. ASSUME NEW p \in PVC, DeliverSecret(p) PROVE SecretInv'
    BY <1>2, SecretDelivered, ZenonT(60)
  <1>3. CASE SecretMade
    <2>1. NewSecret \in SecretObj /\ MyPvc \in PVC /\ WriteSecret(MyPvc, NewSecret) /\ CurSecret(MyPvc) = Nil
      BY <1>3, SecretWritten, ZenonT(60) DEF SecretMade
    <2>2. NewSecret \in SecretVersion /\ NewSecret # Nil
      BY <2>1, NilAssumption, ZenonT(60) DEF SecretVersion
    <2>4. Current(secret'[MyPvc]) = NewSecret
      BY <2>1, <2>2, WriteSecretStep, ZenonT(60)
    <2>5. Versions(secret[MyPvc]) \subseteq {Nil}
      <3>1. secret' # secret
        BY <2>1, <2>2, <2>4, ZenonT(60) DEF CurSecret
      <3>2. vars' # vars
        BY <3>1, ZenonT(60) DEF vars, apiVars
      <3>3. \A p \in PVC : CurSecret(p) = Nil /\ Current(secret'[p]) # Nil => Versions(secret[p]) \subseteq {Nil}
        BY <3>2, ZenonT(60) DEF Apart, CurSecret
      <3>. QED
        BY <2>1, <2>2, <2>4, <3>3, ZenonT(60)
    <2>6. NewSecret.creds.user[1] = MyPvc /\ ~Matches(NewSecret)
      BY <1>3, WrittenFields, ZenonT(60)
    <2>. QED
      BY <2>1, <2>2, <2>5, <2>6, SecretPut, ZenonT(60)
  <1>4. ASSUME NEW p \in PVC, NEW v \in SecretObj, WriteSecret(p, v), CurSecret(p) \in SecretObj,
               v.creds = CurSecret(p).creds, Matches(v) => OneCreds(secret[p], v.creds)
        PROVE  SecretInv'
    <2>1. v \in SecretVersion /\ v # Nil /\ CurSecret(p) # Nil
      BY <1>4, NilAssumption, ZenonT(60) DEF SecretVersion
    <2>2. CurSecret(p) \in Versions(secret[p])
      BY StreamEnds, ZenonT(60) DEF TypeOK, CurSecret
    <2>3. v.creds.user[1] = p
      BY <1>4, <2>1, <2>2, ZenonT(60) DEF SecretInv
    <2>. QED
      BY <1>4, <2>1, <2>3, SecretPut, ZenonT(60)
  <1>5. CASE SecretMarked
    <2> DEFINE v == [CurSecret(MyPvc) EXCEPT !.synced = job.creds]
    <2>1. CurSecret(MyPvc) \in SecretObj /\ MyPvc \in PVC
      BY <1>5, SecretWritten, ZenonT(60)
    <2>2. v \in SecretObj /\ v.creds = CurSecret(MyPvc).creds /\ v.synced = job.creds
      BY <1>5, WrittenFields, ZenonT(60)
    <2>3. WriteSecret(MyPvc, v) /\ job.pc = "mark" /\ CurSecret(MyPvc) # Nil
      BY <1>5, ZenonT(60) DEF SecretMarked, MarkUserSynced
    <2> HIDE DEF v
    <2>4. Matches(v) => OneCreds(secret[MyPvc], v.creds)
      BY <2>2, <2>3, ZenonT(60) DEF Matches, CredsInv, HandInv
    <2>. QED
      BY <1>4, <2>1, <2>2, <2>3, <2>4, ZenonT(60)
  <1>6. ASSUME NEW p \in PVC, RemoveAnnotation(p) PROVE SecretInv'
    <2> DEFINE v == [CurSecret(p) EXCEPT !.synced = Nil]
    <2>1. CurSecret(p) \in SecretObj
      BY <1>6, SecretWritten, ZenonT(60)
    <2>2. v \in SecretObj /\ v.creds = CurSecret(p).creds /\ ~Matches(v)
      BY <1>6, WrittenFields, ZenonT(60)
    <2>3. WriteSecret(p, v)
      BY <1>6, ZenonT(60) DEF RemoveAnnotation
    <2> HIDE DEF v
    <2>. QED
      BY <1>4, <2>1, <2>2, <2>3, ZenonT(60)
  <1>7. ASSUME NEW p \in PVC, ChangePassword(p) PROVE SecretInv'
    <2> DEFINE v == [CurSecret(p) EXCEPT !.creds.pw = NewPassword]
    <2>1. CurSecret(p) \in SecretObj /\ CurSecret(p) \in Versions(secret[p])
      BY <1>7, SecretWritten, StreamEnds, ZenonT(60) DEF TypeOK, CurSecret
    <2>2. /\ v \in SecretObj /\ v.creds.user = CurSecret(p).creds.user
          /\ v.creds.pw = NewPassword /\ ~Matches(v)
      BY <1>7, WrittenFields, ZenonT(60)
    <2>3. WriteSecret(p, v) /\ Mint
      BY <1>7, ZenonT(60) DEF ChangePassword
    <2> HIDE DEF v
    <2>4. v \in SecretVersion /\ v # Nil /\ CurSecret(p) # Nil
      BY <2>1, <2>2, NilAssumption, ZenonT(60) DEF SecretVersion
    <2>5. v.creds.user[1] = p
      BY <2>1, <2>2, <2>4, ZenonT(60) DEF SecretInv
    <2>6. \A x \in Versions(secret[p]) : x # Nil => x.creds # v.creds
      BY <2>2, <2>3, PasswordNew, ZenonT(60)
    <2>. QED
      BY <2>2, <2>3, <2>4, <2>5, <2>6, SecretPut, ZenonT(60)
  <1>8. ASSUME NEW p \in PVC, SecretRemoved(p) PROVE SecretInv'
    BY <1>8, SecretPut, ZenonT(60) DEF SecretRemoved, SecretVersion, Matches
  <1>. QED
    BY <1>1, <1>2, <1>3, <1>5, <1>6, <1>7, <1>8, SecretSteps, ZenonT(60)

\* The reconcile keeps what it has in hand while the Secret of its PVC is
\* delivered, removed, or changed so that it does not claim to be synced.
LEMMA CredsKept ==
    ASSUME CredsInv, UNCHANGED <<users, late>>,
           job'.pc = job.pc, job'.b = job.b, job'.obj = job.obj, job'.repo = job.repo, job'.creds = job.creds,
           job.pc \in {"setUser", "mark"} =>
               LET w == secret'[MyPvc]
               IN  \/ Current(w) = CurSecret(MyPvc) /\ Versions(w) \subseteq Versions(secret[MyPvc])
                   \/ Current(w) = Nil
                   \/ ~Matches(Current(w)) /\ Current(w).creds # job.creds
                   \/ /\ ~Matches(Current(w)) /\ CurSecret(MyPvc) # Nil
                      /\ Current(w).creds = CurSecret(MyPvc).creds
                      /\ Versions(w) \subseteq Versions(secret[MyPvc]) \cup {Current(w)}
    PROVE  CredsInv'
  <1> DEFINE w == secret'[MyPvc]
  <1>1. job.pc \in {"setUser", "mark"} =>
            /\ Current(w) # Nil /\ Current(w).creds = job.creds => OneCreds(w, job.creds)
            /\ Matches(Current(w)) => job.creds = Current(w).creds
    <2> SUFFICES ASSUME job.pc \in {"setUser", "mark"}
                 PROVE  /\ Current(w) # Nil /\ Current(w).creds = job.creds => OneCreds(w, job.creds)
                        /\ Matches(Current(w)) => job.creds = Current(w).creds
      OBVIOUS
    <2>1. /\ CurSecret(MyPvc) # Nil /\ CurSecret(MyPvc).creds = job.creds => OneCreds(secret[MyPvc], job.creds)
          /\ Matches(CurSecret(MyPvc)) => job.creds = CurSecret(MyPvc).creds
      BY ZenonT(60) DEF CredsInv, HandInv
    <2>. QED
      BY <2>1, ZenonT(60) DEF OneCreds, Matches
  <1>2. MyPvc' = MyPvc
    BY ZenonT(60) DEF MyPvc
  <1>3. HandInv'
    BY <1>1, <1>2, ZenonT(60) DEF CredsInv, HandInv, CurSecret
  <1>. QED
    BY <1>3, ZenonT(60) DEF CredsInv

\* No phase of EnsureUser follows, so nothing is in hand.
LEMMA CredsDropped ==
    ASSUME late' = {}, job'.pc \notin Handling
    PROVE  CredsInv'
  <1>1. job'.pc \notin {"setUser", "mark"}
    BY DEF Handling
  <1>. QED
    BY <1>1, ZenonT(60) DEF CredsInv, HandInv

\* CredsInv is kept as long as no exec outlives its timeout.
LEMMA CredsStep ==
    ASSUME "timeout" \notin Faults, TypeOK, SecretInv, CredsInv, [Next]_vars, [Apart]_vars
    PROVE  CredsInv'
  <1> USE DEF Conflict, ApiFault, apiVars, serverVars, opVars
  <1>1. late = {}
    BY ZenonT(60) DEF CredsInv
  <1>2. ASSUME job' = IdleJob, late' = late PROVE CredsInv'
    <2>1. job'.pc \notin Handling
      BY <1>2, ZenonT(60) DEF IdleJob, Handling
    <2>. QED
      BY <1>1, <1>2, <2>1, CredsDropped, ZenonT(60)
  <1>3. job # IdleJob => \A phase : Goto(phase) =>
            /\ job'.pc = phase /\ job'.b = job.b /\ job'.obj = job.obj
            /\ job'.repo = job.repo /\ job'.creds = job.creds
    BY JobTypes, ZenonT(60) DEF Goto, Job
  <1>4. Retry \/ Done => job' = IdleJob
    BY ZenonT(60) DEF Retry, Done
  <1>5. CASE \E b \in Backup : StartReconcile(b)
    <2>1. job'.pc \notin Handling
      <3>1. PICK b \in Backup : StartReconcile(b)
        BY <1>5, ZenonT(60)
      <3> DEFINE o == Cached(backup[b])
      <3>2. job' = IdleJob \/ job'.pc = FirstPhase(o)
        BY <3>1, ZenonT(60) DEF StartReconcile, IdleJob
      <3> HIDE DEF o
      <3>3. FirstPhase(o) \in {"finalize", "addFin", "validate"}
        BY ZenonT(60) DEF FirstPhase
      <3>4. job'.pc \in {"idle", "finalize", "addFin", "validate"}
        BY <3>2, <3>3, SMTT(60) DEF IdleJob
      <3>. QED
        BY <3>4, ZenonT(60) DEF Handling
    <2>2. late' = late
      BY <1>5, ZenonT(60) DEF StartReconcile
    <2>. QED
      BY <1>1, <2>1, <2>2, CredsDropped, ZenonT(60)
  <1>6. CASE AddFinalizer \/ PersistCredentialsSecret
    <2>1. job \in Job
      BY <1>6, JobTypes, SMTT(60) DEF AddFinalizer, PersistCredentialsSecret, IdleJob
    <2>2. job' = IdleJob \/ job'.pc \in {"validate", "resources"}
      <3>1. CASE AddFinalizer
        BY <1>4, <2>1, <3>1, ZenonT(60) DEF AddFinalizer, Job
      <3>2. CASE PersistCredentialsSecret
        BY <1>4, <2>1, <3>2, ZenonT(60) DEF PersistCredentialsSecret, Job
      <3>. QED
        BY <1>6, <3>1, <3>2, ZenonT(60)
    <2>3. late' = late
      BY <1>6, ZenonT(60) DEF AddFinalizer, PersistCredentialsSecret
    <2>4. job'.pc \in {"validate", "resources"} => job'.pc \notin Handling
      BY DEF Handling
    <2>. QED
      BY <1>1, <1>2, <2>2, <2>3, <2>4, CredsDropped, ZenonT(60)
  <1>7. CASE ReconcileBackupResources \/ ReportInvalid \/ RemoveFinalizer \/ RollbackSecret
    <2>1. job' = IdleJob
      BY <1>4, <1>7, ZenonT(60)
      DEF ReconcileBackupResources, ReportInvalid, RemoveFinalizer, RollbackSecret, UpdateStatusFailed
    <2>2. late' = late
      BY <1>7, ZenonT(60) DEF ReconcileBackupResources, ReportInvalid, RemoveFinalizer, RollbackSecret
    <2>. QED
      BY <1>2, <2>1, <2>2, ZenonT(60)
  <1>8. CASE LookupForCleanup \/ DeleteUserFromServer \/ DeleteSecret
    <2>1. job.pc \in {"finalize", "delUser", "delSecret"}
      BY <1>8, ZenonT(60) DEF LookupForCleanup, DeleteUserFromServer, DeleteSecret
    <2>2. job # IdleJob /\ job \in Job
      BY <2>1, JobTypes, SMTT(60) DEF IdleJob
    <2>3. job' = IdleJob \/ job'.pc \in {"delUser", "delSecret", "dropFin"}
      <3>1. CASE LookupForCleanup
        BY <2>2, <3>1, ZenonT(60) DEF LookupForCleanup, Job
      <3>2. CASE DeleteUserFromServer \/ DeleteSecret
        BY <1>3, <1>4, <2>2, <3>2, ZenonT(60) DEF DeleteUserFromServer, DeleteSecret
      <3>. QED
        BY <1>8, <3>1, <3>2, ZenonT(60)
    <2>4. late' = late
      BY <1>8, ZenonT(60) DEF LookupForCleanup, DeleteUserFromServer, DeleteSecret, Fault
    <2>5. job'.pc \in {"delUser", "delSecret", "dropFin"} => job'.pc \notin Handling
      BY DEF Handling
    <2>. QED
      BY <1>1, <1>2, <2>3, <2>4, <2>5, CredsDropped, ZenonT(60)
  <1>9. CASE ValidateDependencies
    <2>1. job # IdleJob
      BY <1>9, SMTT(60) DEF ValidateDependencies, IdleJob
    <2>2. job \in Job /\ MyPvc \in PVC
      BY <2>1, JobTypes, ZenonT(60)
    <2>3. UNCHANGED <<secret, users, late>>
      BY <1>9, ZenonT(60) DEF ValidateDependencies
    <2> DEFINE s == Cached(secret[MyPvc])
    <2>4. CASE job' = [job EXCEPT !.pc = "invalid", !.obj.ready = "NotFound"]
      <3>1. job'.pc = "invalid"
        BY <2>2, <2>4, ZenonT(60) DEF Job
      <3>2. "invalid" \notin Handling
        BY DEF Handling
      <3>. QED
        BY <1>1, <2>3, <3>1, <3>2, CredsDropped, ZenonT(60)
    <2>5. CASE Goto("resources") \/ Retry
      <3>1. "resources" \notin Handling
        BY DEF Handling
      <3>. QED
        BY <1>1, <1>2, <1>3, <1>4, <2>1, <2>3, <2>5, <3>1, CredsDropped, ZenonT(60)
    <2>6. ASSUME NEW phase \in {"createSecret", "persist"}, NEW c,
                 job' = [job EXCEPT !.pc = phase, !.repo = job.obj.repo, !.creds = c]
          PROVE  CredsInv'
      <3>1. job'.pc = phase /\ job'.repo = job.obj.repo /\ job'.obj = job.obj
        BY <2>2, <2>6, ZenonT(60) DEF Job
      <3>2. phase # "setUser" /\ phase # "mark"
        OBVIOUS
      <3>. QED
        BY <1>1, <2>3, <3>1, <3>2, ZenonT(60) DEF CredsInv, HandInv
    <2>7. CASE s # Nil /\ job' = [job EXCEPT !.pc = "setUser", !.repo = job.obj.repo, !.creds = s.creds]
      <3>1. /\ job'.pc = "setUser" /\ job'.repo = job.obj.repo /\ job'.obj = job.obj
            /\ job'.b = job.b /\ job'.creds = s.creds
        BY <2>2, <2>7, ZenonT(60) DEF Job
      <3>2. secret[MyPvc] \in Streams(SecretVersion) /\ s \in Versions(secret[MyPvc]) /\ Steady(secret[MyPvc])
        BY <2>2, StreamEnds, ZenonT(60) DEF TypeOK, SecretVersion, SecretInv
      <3>3. s.creds.user[1] = MyPvc
        BY <2>2, <2>7, <3>2, ZenonT(60) DEF SecretInv
      <3>4. CurSecret(MyPvc) # Nil /\ CurSecret(MyPvc).creds = s.creds => OneCreds(secret[MyPvc], s.creds)
        BY <2>7, <3>2, SteadyHead, ZenonT(60) DEF CurSecret
      <3>5. Matches(CurSecret(MyPvc)) => s.creds = CurSecret(MyPvc).creds
        BY <2>2, <2>7, <3>2, ZenonT(60) DEF SecretInv, OneCreds
      <3>6. MyPvc' = MyPvc
        BY <3>1, ZenonT(60) DEF MyPvc
      <3> HIDE DEF s
      <3>7. HandInv'
        BY <2>3, <3>1, <3>3, <3>4, <3>5, <3>6, ZenonT(60) DEF HandInv, CurSecret
      <3>8. job'.pc # "mark"
        BY <3>1, ZenonT(60)
      <3>. QED
        BY <1>1, <2>3, <3>1, <3>7, <3>8, ZenonT(60) DEF CredsInv
    <2>. QED
      BY <1>9, <2>4, <2>5, <2>6, <2>7, ZenonT(60) DEF ValidateDependencies
  <1>10. CASE CreateSecret
    <2>1. late' = late
      BY <1>10, ZenonT(60) DEF CreateSecret
    <2>2. SecretMade \/ Retry
      BY <1>10, ZenonT(60) DEF CreateSecret, SecretMade, NewSecret
    <2>3. CASE SecretMade
      <3>1. NewSecret \in SecretObj /\ MyPvc \in PVC /\ job \in Job
        BY <2>3, SecretWritten, ZenonT(60)
      <3>2. NewSecret \in SecretVersion /\ NewSecret # Nil
        BY <3>1, NilAssumption, ZenonT(60) DEF SecretVersion
      <3>3. /\ WriteSecret(MyPvc, NewSecret) /\ CurSecret(MyPvc) = Nil /\ job.pc = "createSecret"
            /\ job' = [job EXCEPT !.pc = "setUser", !.creds = NewSecret.creds, !.minted = TRUE]
        BY <2>3, ZenonT(60) DEF SecretMade, CreateSecret
      <3>4. /\ Current(secret'[MyPvc]) = NewSecret
            /\ Versions(secret'[MyPvc]) \subseteq Versions(secret[MyPvc]) \cup {NewSecret}
        BY <3>1, <3>2, <3>3, WriteSecretStep, ZenonT(60)
      <3>5. Versions(secret[MyPvc]) \subseteq {Nil}
        <4>1. secret' # secret
          BY <3>2, <3>3, <3>4, ZenonT(60) DEF CurSecret
        <4>2. vars' # vars
          BY <4>1, ZenonT(60) DEF vars, apiVars
        <4>3. \A p \in PVC : CurSecret(p) = Nil /\ Current(secret'[p]) # Nil => Versions(secret[p]) \subseteq {Nil}
          BY <4>2, ZenonT(60) DEF Apart, CurSecret
        <4>. QED
          BY <3>1, <3>2, <3>3, <3>4, <4>3, ZenonT(60)
      <3>6. NewSecret.creds.user[1] = MyPvc /\ ~Matches(NewSecret)
        BY <2>3, WrittenFields, ZenonT(60)
      <3>7. OneCreds(secret'[MyPvc], NewSecret.creds)
        BY <3>4, <3>5, ZenonT(60) DEF OneCreds
      <3>8. /\ job'.pc = "setUser" /\ job'.b = job.b /\ job'.obj = job.obj /\ job'.repo = job.repo
            /\ job'.creds = NewSecret.creds
        BY <3>1, <3>3, ZenonT(60) DEF Job
      <3>9. MyPvc' = MyPvc
        BY <3>8, ZenonT(60) DEF MyPvc
      <3>10. HandInv'
        BY <3>4, <3>6, <3>7, <3>8, <3>9, ZenonT(60) DEF HandInv, CurSecret
      <3>11. job'.pc # "mark"
        BY <3>8, ZenonT(60)
      <3>12. job.repo = job.obj.repo
        BY <3>3, ZenonT(60) DEF CredsInv, Handling
      <3>. QED
        BY <1>1, <2>1, <3>8, <3>10, <3>11, <3>12, ZenonT(60) DEF CredsInv
    <2>. QED
      BY <1>2, <1>4, <2>1, <2>2, <2>3, ZenonT(60)
  <1>11. ASSUME job.pc \in Handling, UNCHANGED late, Goto("rollback") \/ Goto("persist") PROVE CredsInv'
    <2>1. job # IdleJob
      BY <1>11, SMTT(60) DEF IdleJob, Handling
    <2>2. job'.pc \in {"rollback", "persist"} /\ job'.obj = job.obj /\ job'.repo = job.repo
      BY <1>3, <1>11, <2>1, ZenonT(60)
    <2>3. job'.pc \notin {"setUser", "mark"}
      BY <2>2, ZenonT(60)
    <2>. QED
      BY <1>1, <1>11, <2>2, <2>3, ZenonT(60) DEF CredsInv, HandInv
  <1>12. CASE CreateUserOnServer
    <2>1. job.pc = "setUser" /\ late' = late /\ secret' = secret
      BY <1>12, ZenonT(60) DEF CreateUserOnServer, Fault
    <2>2. job # IdleJob /\ job.pc \in Handling
      BY <2>1, SMTT(60) DEF IdleJob, Handling
    <2> DEFINE c == [op |-> "set", repo |-> job.repo, user |-> job.creds.user, pw |-> job.creds.pw]
    <2>3. CASE SetUserFailed
      BY <1>2, <1>4, <1>11, <2>1, <2>2, <2>3, ZenonT(60) DEF SetUserFailed
    <2>4. CASE users' = Apply(c) /\ Goto("mark")
      <3>1. job.repo \in Repo /\ job.creds \in Creds
        BY <2>1, ZenonT(60) DEF TypeOK, WithRepo, WithCreds
      <3>2. job.creds.user \in User
        BY <3>1, ZenonT(60) DEF Creds
      <3>3. users' = [users EXCEPT ![job.repo][job.creds.user] = job.creds.pw]
        BY <2>4, ZenonT(60) DEF Apply
      <3>4. users'[job.repo][job.creds.user] = job.creds.pw
        BY <3>1, <3>2, <3>3, ZenonT(60) DEF TypeOK
      <3>5. /\ job'.pc = "mark" /\ job'.b = job.b /\ job'.obj = job.obj
            /\ job'.repo = job.repo /\ job'.creds = job.creds
        BY <1>3, <2>2, <2>4, ZenonT(60)
      <3>6. MyPvc' = MyPvc
        BY <3>5, ZenonT(60) DEF MyPvc
      <3>7. HandInv'
        BY <2>1, <3>5, <3>6, ZenonT(60) DEF CredsInv, HandInv, CurSecret
      <3>. QED
        BY <1>1, <2>1, <2>2, <3>4, <3>5, <3>7, ZenonT(60) DEF CredsInv
    <2>. QED
      BY <1>12, <2>3, <2>4, ZenonT(60) DEF CreateUserOnServer
  <1>13. CASE MarkUserSynced
    <2>1. job.pc = "mark" /\ late' = late /\ Goto("persist")
      BY <1>13, ZenonT(60) DEF MarkUserSynced
    <2>2. job.pc \in Handling
      BY <2>1 DEF Handling
    <2>. QED
      BY <1>11, <2>1, <2>2, ZenonT(60)
  <1>14. CASE Reconcile
    BY <1>5, <1>6, <1>7, <1>8, <1>9, <1>10, <1>12, <1>13, <1>14, ZenonT(60) DEF Reconcile
  <1>15. job.pc \in {"setUser", "mark"} => MyPvc \in PVC /\ job.creds # Nil
    <2>1. job.pc \in {"setUser", "mark"} => job # IdleJob
      BY SMTT(60) DEF IdleJob
    <2>2. job.pc \in {"setUser", "mark"} => job.creds \in Creds
      BY ZenonT(60) DEF TypeOK, WithCreds
    <2>. QED
      BY <2>1, <2>2, JobTypes, NilAssumption, ZenonT(60)
  <1>16. ASSUME UNCHANGED <<secret, users, late>>,
                job'.pc = job.pc, job'.b = job.b, job'.obj = job.obj, job'.repo = job.repo, job'.creds = job.creds
         PROVE  CredsInv'
    BY <1>16, CredsKept, ZenonT(60) DEF CurSecret
  <1>17. CASE \E b \in Backup : DeleteBackup(b) \/ \E r \in Repo : CreateBackup(b, r) \/ SwitchRepository(b, r)
    <2>1. /\ job'.pc = job.pc /\ job'.b = job.b /\ job'.obj = job.obj
          /\ job'.repo = job.repo /\ job'.creds = job.creds
      BY <1>17, ZenonT(60) DEF DeleteBackup, CreateBackup, SwitchRepository, Invalidate, TypeOK, Job, IdleJob
    <2>2. UNCHANGED <<secret, users, late>>
      BY <1>17, ZenonT(60) DEF DeleteBackup, CreateBackup, SwitchRepository
    <2>. QED
      BY <1>16, <2>1, <2>2, ZenonT(60)
  <1>18. CASE \/ \E b \in Backup : DeliverBackup(b) \/ Resync(b)
              \/ \E p \in PVC : ChangePVC(p)
              \/ \E r \in Repo : ServerStarts(r) \/ ServerStops(r)
              \/ \E r \in Repo, mode \in Mode : ChangeRepository(r, mode)
    <2>1. UNCHANGED <<secret, users, late, job>>
      BY <1>18, ZenonT(60) DEF DeliverBackup, Resync, ChangePVC, ServerStarts, ServerStops, ChangeRepository
    <2>. QED
      BY <1>16, <2>1, ZenonT(60)
  <1>19. ASSUME NEW p \in PVC, DeliverSecret(p) PROVE CredsInv'
    <2>1. UNCHANGED <<users, late, job>>
      BY <1>19, ZenonT(60) DEF DeliverSecret
    <2>2. \A x \in PVC : Current(secret'[x]) = CurSecret(x) /\ Versions(secret'[x]) \subseteq Versions(secret[x])
      BY <1>19, DeliverSecretStep, ZenonT(60) DEF CurSecret
    <2>. QED
      BY <1>15, <2>1, <2>2, CredsKept, ZenonT(60)
  <1>20. ASSUME NEW p \in PVC, NEW v \in SecretVersion, WriteSecret(p, v), UNCHANGED <<users, late, job>>,
                job.pc \in {"setUser", "mark"} /\ MyPvc = p =>
                    \/ v = Nil
                    \/ ~Matches(v) /\ v.creds # job.creds
                    \/ ~Matches(v) /\ CurSecret(p) # Nil /\ v.creds = CurSecret(p).creds
         PROVE  CredsInv'
    <2>1. /\ \A x \in PVC \ {p} : secret'[x] = secret[x]
          /\ Current(secret'[p]) = v
          /\ Versions(secret'[p]) \subseteq Versions(secret[p]) \cup {v}
      BY <1>20, WriteSecretStep, ZenonT(60)
    <2>2. CASE MyPvc = p
      BY <1>20, <2>1, <2>2, CredsKept, ZenonT(60)
    <2>3. CASE MyPvc # p
      <3>1. job.pc \in {"setUser", "mark"} => secret'[MyPvc] = secret[MyPvc]
        BY <1>15, <2>1, <2>3, ZenonT(60)
      <3>. QED
        BY <1>20, <3>1, CredsKept, ZenonT(60) DEF CurSecret
    <2>. QED
      BY <2>2, <2>3, ZenonT(60)
  <1>21. ASSUME NEW p \in PVC, CollectGarbage(p) PROVE CredsInv'
    <2>1. UNCHANGED <<users, late, job>> /\ WriteSecret(p, Nil) /\ Nil \in SecretVersion
      BY <1>21, ZenonT(60) DEF CollectGarbage, SecretVersion
    <2>. QED
      BY <1>20, <2>1, ZenonT(60)
  <1>22. ASSUME NEW p \in PVC, RemoveAnnotation(p) PROVE CredsInv'
    <2> DEFINE v == [CurSecret(p) EXCEPT !.synced = Nil]
    <2>1. UNCHANGED <<users, late, job>> /\ WriteSecret(p, v) /\ CurSecret(p) # Nil
      BY <1>22, ZenonT(60) DEF RemoveAnnotation
    <2>2. v \in SecretObj /\ v.creds = CurSecret(p).creds /\ ~Matches(v)
      BY <1>22, WrittenFields, ZenonT(60)
    <2> HIDE DEF v
    <2>. QED
      BY <1>20, <2>1, <2>2, ZenonT(60) DEF SecretVersion
  <1>23. ASSUME NEW p \in PVC, ChangePassword(p) PROVE CredsInv'
    <2> DEFINE v == [CurSecret(p) EXCEPT !.creds.pw = NewPassword]
    <2>1. UNCHANGED <<users, late, job>> /\ WriteSecret(p, v) /\ Mint
      BY <1>23, ZenonT(60) DEF ChangePassword
    <2>2. v \in SecretObj /\ v.creds.pw = NewPassword /\ ~Matches(v)
      BY <1>23, WrittenFields, ZenonT(60)
    <2> HIDE DEF v
    <2>3. job.pc \in {"setUser", "mark"} => v.creds # job.creds
      BY <1>15, <2>1, <2>2, PasswordNew, ZenonT(60)
    <2>. QED
      BY <1>20, <2>1, <2>2, <2>3, ZenonT(60) DEF SecretVersion
  <1>24. CASE Restart
    BY <1>2, <1>24, ZenonT(60) DEF Restart
  <1>25. CASE Environment
    BY <1>1, <1>17, <1>18, <1>19, <1>21, <1>22, <1>23, <1>24, <1>25, ZenonT(60) DEF Environment
  <1>26. CASE UNCHANGED vars
    BY <1>16, <1>26, ZenonT(60) DEF vars
  <1>. QED
    BY <1>14, <1>25, <1>26, ZenonT(60) DEF Next

\* SyncedUsable for one backup.
Usable(b) ==
    /\ Cur(b) # Nil /\ ~Cur(b).deleting
    /\ Matches(CurSecret(PvcOf[b])) /\ PvcOf[b] \notin orphans
    => users[Cur(b).repo][CurSecret(PvcOf[b]).creds.user] = CurSecret(PvcOf[b]).creds.pw

\* Nothing is written to a Secret or to a server.
LEMMA UsableQuiet ==
    ASSUME OwnInv, RepoKept, UNCHANGED users, \A p \in PVC : Current(secret'[p]) = CurSecret(p),
           orphans \subseteq orphans', NEW b \in Backup, Usable(b)
    PROVE  Usable(b)'
  <1> SUFFICES ASSUME Current(backup'[b]) # Nil, ~Current(backup'[b]).deleting,
                      Matches(Current(secret'[PvcOf[b]])), PvcOf[b] \notin orphans'
               PROVE  users'[Current(backup'[b]).repo][Current(secret'[PvcOf[b]]).creds.user]
                        = Current(secret'[PvcOf[b]]).creds.pw
    BY ZenonT(60) DEF Usable, Cur, CurSecret
  <1>1. Current(secret'[PvcOf[b]]) = CurSecret(PvcOf[b]) /\ PvcOf[b] \notin orphans
    BY ConstantsAssumption, ZenonT(60)
  <1>2. Held(Cur(b))
    BY <1>1, ZenonT(60) DEF OwnInv, Owned, Matches
  <1>3. Cur(b) # Nil /\ ~Cur(b).deleting /\ Current(backup'[b]).repo = Cur(b).repo
    BY <1>2, ZenonT(60) DEF RepoKept, Held
  <1>. QED
    BY <1>1, <1>3, ZenonT(60) DEF Usable

\* A Secret is removed, or written so that it does not claim to be synced.
LEMMA UsableWrite ==
    ASSUME TypeOK, UNCHANGED <<backup, users>>, NEW p \in PVC, NEW v \in SecretVersion, WriteSecret(p, v),
           ~Matches(v), NEW b \in Backup, Usable(b)
    PROVE  Usable(b)'
  <1>1. /\ \A x \in PVC \ {p} : secret'[x] = secret[x]
        /\ Current(secret'[p]) = v
    BY WriteSecretStep, ZenonT(60)
  <1>2. \A x \in PVC \ {p} : x \in orphans' <=> x \in orphans
    BY ZenonT(60) DEF WriteSecret
  <1>3. CASE PvcOf[b] = p
    BY <1>1, <1>3, ZenonT(60) DEF Usable, CurSecret
  <1>4. CASE PvcOf[b] # p
    <2>1. PvcOf[b] \in PVC \ {p}
      BY <1>4, ConstantsAssumption, ZenonT(60)
    <2>. QED
      BY <1>1, <1>2, <2>1, ZenonT(60) DEF Usable, Cur, CurSecret
  <1>. QED
    BY <1>3, <1>4, ZenonT(60)

\* A user is set or deleted on a server.
LEMMA UsableExec ==
    ASSUME TypeOK, UNCHANGED apiVars, NEW r \in Repo, NEW u \in User, NEW pw,
           users' = [users EXCEPT ![r][u] = pw], NEW b \in Backup, Usable(b),
           /\ Cur(b) # Nil /\ ~Cur(b).deleting
           /\ Matches(CurSecret(PvcOf[b])) /\ PvcOf[b] \notin orphans
           /\ Cur(b).repo = r /\ CurSecret(PvcOf[b]).creds.user = u
           => CurSecret(PvcOf[b]).creds.pw = pw
    PROVE  Usable(b)'
  <1> DEFINE o == Cur(b)
             s == CurSecret(PvcOf[b])
  <1>1. backup' = backup /\ secret' = secret /\ orphans' = orphans
    BY ZenonT(60) DEF apiVars
  <1> SUFFICES ASSUME o # Nil, ~o.deleting, Matches(s), PvcOf[b] \notin orphans
               PROVE  users'[o.repo][s.creds.user] = s.creds.pw
    BY <1>1, ZenonT(60) DEF Usable, Cur, CurSecret
  <1>2. o.repo \in Repo
    BY ReadTypes, ZenonT(60) DEF BackupVersion, BackupObj
  <1>3. s.creds.user \in User
    <2>1. s \in SecretObj
      BY ReadTypes, ConstantsAssumption, ZenonT(60) DEF SecretVersion, Matches
    <2> HIDE DEF s
    <2>. QED
      BY <2>1, ZenonT(60) DEF SecretObj, Creds
  <1>4. users[o.repo][s.creds.user] = s.creds.pw
    BY ZenonT(60) DEF Usable
  <1>5. o.repo = r /\ s.creds.user = u => s.creds.pw = pw
    OBVIOUS
  <1>6. users \in [Repo -> [User -> Password \cup {Nil}]]
    BY ZenonT(60) DEF TypeOK
  <1> HIDE DEF o, s
  <1>7. CASE o.repo = r /\ s.creds.user = u
    BY <1>2, <1>3, <1>5, <1>6, <1>7, ZenonT(60)
  <1>8. CASE ~(o.repo = r /\ s.creds.user = u)
    BY <1>2, <1>3, <1>4, <1>6, <1>8, ZenonT(60)
  <1>. QED
    BY <1>7, <1>8, ZenonT(60)

\* What the steps that run a command on a server do to its users.
LEMMA UsersSteps ==
    ASSUME "timeout" \notin Faults, TypeOK, late = {}, [Next]_vars
    PROVE  \/ UNCHANGED users
           \/ /\ job.pc = "setUser" /\ UNCHANGED apiVars
              /\ users' = [users EXCEPT ![job.repo][job.creds.user] = job.creds.pw]
           \/ /\ job.pc = "delUser" /\ UNCHANGED apiVars
              /\ users' = [users EXCEPT ![job.repo][Username(job.b, job.repo)] = Nil]
  <1> USE DEF serverVars
  <1>1. CASE CreateUserOnServer
    BY <1>1, ZenonT(60) DEF CreateUserOnServer, Apply
  <1>2. CASE DeleteUserFromServer
    BY <1>2, ZenonT(60) DEF DeleteUserFromServer, Apply
  <1>3. CASE \/ \E b \in Backup : StartReconcile(b)
             \/ AddFinalizer \/ ValidateDependencies \/ CreateSecret \/ RollbackSecret \/ MarkUserSynced
    BY <1>3, ZenonT(60)
    DEF StartReconcile, AddFinalizer, ValidateDependencies, CreateSecret, RollbackSecret, MarkUserSynced
  <1>4. CASE \/ PersistCredentialsSecret \/ ReconcileBackupResources \/ ReportInvalid
             \/ LookupForCleanup \/ DeleteSecret \/ RemoveFinalizer
    BY <1>4, ZenonT(60)
    DEF PersistCredentialsSecret, ReconcileBackupResources, ReportInvalid, LookupForCleanup, DeleteSecret,
        RemoveFinalizer
  <1>5. CASE Reconcile
    BY <1>1, <1>2, <1>3, <1>4, <1>5, ZenonT(60) DEF Reconcile
  <1>6. CASE \E b \in Backup : DeliverBackup(b) \/ Resync(b) \/ DeleteBackup(b)
                                 \/ \E r \in Repo : CreateBackup(b, r) \/ SwitchRepository(b, r)
    BY <1>6, ZenonT(60) DEF DeliverBackup, Resync, DeleteBackup, CreateBackup, SwitchRepository
  <1>7. CASE \E p \in PVC : \/ DeliverSecret(p) \/ CollectGarbage(p) \/ ChangePVC(p)
                            \/ RemoveAnnotation(p) \/ ChangePassword(p)
    BY <1>7, ZenonT(60) DEF DeliverSecret, CollectGarbage, ChangePVC, RemoveAnnotation, ChangePassword
  <1>8. CASE \E r \in Repo : ServerStarts(r) \/ ServerStops(r) \/ \E mode \in Mode : ChangeRepository(r, mode)
    BY <1>8, ZenonT(60) DEF ServerStarts, ServerStops, ChangeRepository
  <1>9. CASE Restart
    BY <1>9, ZenonT(60) DEF Restart
  <1>10. CASE Environment
    BY <1>6, <1>7, <1>8, <1>9, <1>10, ZenonT(60) DEF Environment
  <1>11. CASE UNCHANGED vars
    BY <1>11, ZenonT(60) DEF vars
  <1>. QED
    BY <1>5, <1>10, <1>11, ZenonT(60) DEF Next

\* SyncedUsable is kept.
LEMMA UsableStep ==
    ASSUME OnePerPVC, "timeout" \notin Faults, "switch" \notin Edits,
           TypeOK, FinalizerInv, FreshInv, BackInv, OwnInv, SecretInv, CredsInv, [Next]_vars,
           NEW b \in Backup, Usable(b)
    PROVE  Usable(b)'
  <1> USE DEF apiVars
  <1>1. RepoKept
    BY BackStep, ZenonT(60)
  <1>2. late = {} /\ PvcOf[b] \in PVC
    BY ConstantsAssumption, ZenonT(60) DEF CredsInv
  <1>3. Matches(CurSecret(PvcOf[b])) => CurSecret(PvcOf[b]).creds.user[1] = PvcOf[b]
    <2>1. CurSecret(PvcOf[b]) \in Versions(secret[PvcOf[b]])
      BY <1>2, StreamEnds, ZenonT(60) DEF TypeOK, CurSecret
    <2>. QED
      BY <1>2, <2>1, ZenonT(60) DEF SecretInv, Matches
  <1>4. CASE /\ job.pc = "setUser" /\ UNCHANGED apiVars
             /\ users' = [users EXCEPT ![job.repo][job.creds.user] = job.creds.pw]
    <2>1. job.repo \in Repo /\ job.creds \in Creds
      BY <1>4, ZenonT(60) DEF TypeOK, WithRepo, WithCreds
    <2>2. job.creds.user \in User
      BY <2>1, ZenonT(60) DEF Creds
    <2>3. job.creds.user[1] = MyPvc /\ (Matches(CurSecret(MyPvc)) => job.creds = CurSecret(MyPvc).creds)
      BY <1>4, ZenonT(60) DEF CredsInv, HandInv
    <2>4. Matches(CurSecret(PvcOf[b])) /\ CurSecret(PvcOf[b]).creds.user = job.creds.user
            => CurSecret(PvcOf[b]).creds.pw = job.creds.pw
      BY <1>3, <2>3, ZenonT(60)
    <2>. QED
      BY <1>4, <2>1, <2>2, <2>4, UsableExec, ZenonT(60)
  <1>5. CASE /\ job.pc = "delUser" /\ UNCHANGED apiVars
             /\ users' = [users EXCEPT ![job.repo][Username(job.b, job.repo)] = Nil]
    <2>1. job # IdleJob
      BY <1>5, SMTT(60) DEF IdleJob
    <2>2. job.repo \in Repo /\ job.b \in Backup
      BY <1>5, <2>1, JobTypes, ZenonT(60) DEF TypeOK, WithRepo
    <2>3. Username(job.b, job.repo) \in User
      BY <2>2, ConstantsAssumption, ZenonT(60) DEF Username, User
    <2>4. Username(job.b, job.repo)[1] = PvcOf[job.b]
      BY DEF Username
    <2>5. ~LiveHeld(Cur(job.b))
      BY <1>5, ZenonT(60) DEF BackInv, Finalizing
    <2>6. ASSUME Cur(b) # Nil, ~Cur(b).deleting, Matches(CurSecret(PvcOf[b])), PvcOf[b] \notin orphans,
                 CurSecret(PvcOf[b]).creds.user = Username(job.b, job.repo)
          PROVE  FALSE
      <3>1. b = job.b
        BY <1>3, <2>2, <2>4, <2>6, ZenonT(60) DEF OnePerPVC
      <3>2. Held(Cur(b))
        BY <2>6, ZenonT(60) DEF OwnInv, Owned, Matches
      <3>. QED
        BY <2>5, <2>6, <3>1, <3>2, ZenonT(60) DEF LiveHeld, Held
    <2>. QED
      BY <1>5, <2>2, <2>3, <2>6, UsableExec, ZenonT(60)
  <1>6. CASE UNCHANGED users
    <2>1. CASE UNCHANGED secret /\ orphans \subseteq orphans'
      BY <1>1, <1>6, <2>1, UsableQuiet, ZenonT(60) DEF CurSecret
    <2>2. ASSUME NEW p \in PVC, DeliverSecret(p) PROVE Usable(b)'
      <3>1. \A x \in PVC : Current(secret'[x]) = CurSecret(x)
        BY <2>2, DeliverSecretStep, ZenonT(60) DEF CurSecret
      <3>2. orphans' = orphans
        BY <2>2, ZenonT(60) DEF DeliverSecret
      <3>. QED
        BY <1>1, <1>6, <3>1, <3>2, UsableQuiet, ZenonT(60)
    <2>3. CASE SecretMade
      <3>1. NewSecret \in SecretVersion /\ MyPvc \in PVC
        BY <2>3, SecretWritten, ZenonT(60) DEF SecretVersion
      <3>2. WriteSecret(MyPvc, NewSecret) /\ ~Matches(NewSecret)
        BY <2>3, WrittenFields, ZenonT(60) DEF SecretMade
      <3>3. backup' = backup
        BY <2>3, ZenonT(60) DEF SecretMade, CreateSecret, ApiFault
      <3>. QED
        BY <1>6, <3>1, <3>2, <3>3, UsableWrite, ZenonT(60)
    <2>4. CASE SecretMarked
      <3> DEFINE v == [CurSecret(MyPvc) EXCEPT !.synced = job.creds]
      <3>1. MyPvc \in PVC /\ job.b \in Backup
        BY <2>4, SecretWritten, ZenonT(60)
      <3>2. v \in SecretObj /\ v.creds = CurSecret(MyPvc).creds /\ v.synced = job.creds
        BY <2>4, WrittenFields, ZenonT(60)
      <3>3. WriteSecret(MyPvc, v) /\ job.pc = "mark" /\ backup' = backup
        BY <2>4, ZenonT(60) DEF SecretMarked, MarkUserSynced, ApiFault
      <3> HIDE DEF v
      <3>4. v \in SecretVersion
        BY <3>2, ZenonT(60) DEF SecretVersion
      <3>5. CASE ~Matches(v)
        BY <1>6, <3>1, <3>3, <3>4, <3>5, UsableWrite, ZenonT(60)
      <3>6. CASE Matches(v)
        <4>1. /\ \A x \in PVC \ {MyPvc} : secret'[x] = secret[x]
              /\ Current(secret'[MyPvc]) = v
          BY <3>1, <3>3, <3>4, WriteSecretStep, ZenonT(60)
        <4>2. orphans' = orphans
          BY <3>3, <3>6, ZenonT(60) DEF WriteSecret, Matches
        <4>3. CASE PvcOf[b] # MyPvc
          BY <1>2, <1>6, <3>3, <4>1, <4>2, <4>3, ZenonT(60) DEF Usable, Cur, CurSecret
        <4>4. CASE PvcOf[b] = MyPvc
          <5>1. b = job.b
            BY <3>1, <4>4, ZenonT(60) DEF OnePerPVC, MyPvc
          <5>2. v.creds = job.creds
            BY <3>2, <3>6, ZenonT(60) DEF Matches
          <5>3. job.repo = Cur(b).repo
            <6>1. job.repo = job.obj.repo
              BY <3>3, ZenonT(60) DEF CredsInv, Handling
            <6>2. job.obj.repo = Cur(job.b).repo
              BY <3>3, ZenonT(60) DEF BackInv, Provisioning
            <6>. QED
              BY <5>1, <6>1, <6>2, ZenonT(60)
          <5>4. users[job.repo][job.creds.user] = job.creds.pw
            BY <3>3, ZenonT(60) DEF CredsInv
          <5>. QED
            BY <1>6, <3>3, <4>1, <4>4, <5>2, <5>3, <5>4, ZenonT(60) DEF Usable, Cur, CurSecret
        <4>. QED
          BY <4>3, <4>4, ZenonT(60)
      <3>. QED
        BY <3>5, <3>6, ZenonT(60)
    <2>5. ASSUME NEW p \in PVC, RemoveAnnotation(p) PROVE Usable(b)'
      <3> DEFINE v == [CurSecret(p) EXCEPT !.synced = Nil]
      <3>1. v \in SecretObj /\ ~Matches(v)
        BY <2>5, WrittenFields, ZenonT(60)
      <3>2. WriteSecret(p, v) /\ backup' = backup
        BY <2>5, ZenonT(60) DEF RemoveAnnotation
      <3> HIDE DEF v
      <3>. QED
        BY <1>6, <3>1, <3>2, UsableWrite, ZenonT(60) DEF SecretVersion
    <2>6. ASSUME NEW p \in PVC, ChangePassword(p) PROVE Usable(b)'
      <3> DEFINE v == [CurSecret(p) EXCEPT !.creds.pw = NewPassword]
      <3>1. v \in SecretObj /\ ~Matches(v)
        BY <2>6, WrittenFields, ZenonT(60)
      <3>2. WriteSecret(p, v) /\ backup' = backup
        BY <2>6, ZenonT(60) DEF ChangePassword
      <3> HIDE DEF v
      <3>. QED
        BY <1>6, <3>1, <3>2, UsableWrite, ZenonT(60) DEF SecretVersion
    <2>7. ASSUME NEW p \in PVC, SecretRemoved(p) PROVE Usable(b)'
      BY <1>6, <2>7, UsableWrite, ZenonT(60) DEF SecretRemoved, SecretVersion, Matches
    <2>. QED
      BY <2>1, <2>2, <2>3, <2>4, <2>5, <2>6, <2>7, SecretSteps, ZenonT(60)
  <1>. QED
    BY <1>2, <1>4, <1>5, <1>6, UsersSteps, ZenonT(60)

\* SyncedUsable holds of every behaviour in which no exec outlives its timeout,
\* no backup changes its repository, no PVC has two backups and a Secret is
\* made again only once the cache has seen the former one go: EnsureUser skips
\* the exec only if the server accepts the credentials.
THEOREM SyncedIsUsable ==
    ASSUME OnePerPVC, "timeout" \notin Faults, "switch" \notin Edits
    PROVE  Spec /\ [][Apart]_vars => []SyncedUsable
  <1> DEFINE Inv == BackInv /\ OwnInv /\ SecretInv /\ CredsInv /\ \A b \in Backup : Usable(b)
  <1>1. Init => Inv
    <2> SUFFICES ASSUME Init PROVE SecretInv /\ CredsInv /\ \A b \in Backup : Usable(b)
      BY BackInit, OwnInit, ZenonT(60)
    <2>1. \A p \in PVC : secret[p] = <<Nil>>
      BY ZenonT(60) DEF Init
    <2>2. \A p \in PVC : (\A v \in Versions(secret[p]) : v = Nil) /\ CurSecret(p) = Nil
      BY <2>1, SMTT(60) DEF Versions, CurSecret, Current
    <2>3. \A p \in PVC : Steady(secret[p])
      BY <2>2, ZenonT(60) DEF Steady, CurSecret
    <2>4. SecretInv
      BY <2>2, <2>3, ZenonT(60) DEF SecretInv, Matches
    <2>5. CredsInv
      BY ZenonT(60) DEF Init, CredsInv, HandInv, Handling, IdleJob
    <2>6. \A b \in Backup : Usable(b)
      BY <2>2, ConstantsAssumption, ZenonT(60) DEF Usable, Matches
    <2>. QED
      BY <2>4, <2>5, <2>6, ZenonT(60)
  <1>2. TypeOK /\ FinalizerInv /\ FreshInv /\ Inv /\ [Next]_vars /\ [Apart]_vars => Inv'
    <2> SUFFICES ASSUME TypeOK, FinalizerInv, FreshInv, Inv, [Next]_vars, [Apart]_vars PROVE Inv'
      OBVIOUS
    <2>1. BackInv'
      BY BackStep, ZenonT(60)
    <2>2. OwnInv'
      BY OwnStep, ZenonT(60)
    <2>3. SecretInv' /\ CredsInv'
      BY SecretStep, CredsStep, ZenonT(60)
    <2>4. \A b \in Backup : Usable(b)'
      BY UsableStep, ZenonT(60)
    <2>. QED
      BY <2>1, <2>2, <2>3, <2>4, ZenonT(60)
  <1>3. Inv => SyncedUsable
    BY ZenonT(60) DEF Usable, SyncedUsable, Matches
  <1> HIDE DEF Inv
  <1> DEFINE IInv == FinalizerInv /\ FreshInv /\ Inv
  <1>4. Init => IInv
    BY <1>1, FinalizerInit, FreshInit, ZenonT(60)
  <1>5. TypeOK /\ IInv /\ [Next]_vars /\ [Apart]_vars => IInv'
    BY <1>2, FinalizerStep, LifecycleStep, ZenonT(60)
  <1>6. IInv => SyncedUsable
    BY <1>3, ZenonT(60)
  <1> HIDE DEF IInv
  <1>. QED
    BY <1>4, <1>5, <1>6, TypeCorrect, PTL DEF Spec
=============================================================================
