------------------------- MODULE WatchStreamProofs -------------------------
(***************************************************************************)
(* What reading, writing and delivering do to a watch stream.              *)
(***************************************************************************)
EXTENDS WatchStream, TLAPS

\* The cache and the API server hold versions of the stream.
LEMMA StreamEnds ==
    ASSUME NEW V, NEW w \in Streams(V)
    PROVE  /\ Cached(w) \in Versions(w) /\ Cached(w) \in V
           /\ Current(w) \in Versions(w) /\ Current(w) \in V
           /\ Versions(w) \subseteq V
  BY DEF Streams, Cached, Current, Versions

\* A write makes its value the current one and adds no other version.
LEMMA StreamPut ==
    ASSUME NEW V, NEW w \in Streams(V), NEW v \in V
    PROVE  /\ Put(w, v) \in Streams(V)
           /\ Current(Put(w, v)) = v
           /\ Versions(Put(w, v)) \subseteq Versions(w) \cup {v}
  <1>1. CASE v = Current(w)
    BY <1>1 DEF Put
  <1>2. CASE v # Current(w)
    <2>1. Put(w, v) = Append(w, v)
      BY <1>2 DEF Put
    <2>2. /\ w \in Seq(V) /\ Len(w) \in Nat
          /\ Append(w, v) \in Seq(V)
          /\ Len(Append(w, v)) = Len(w) + 1
          /\ DOMAIN Append(w, v) = 1 .. Len(w) + 1
          /\ Append(w, v)[Len(w) + 1] = v
          /\ \A i \in 1 .. Len(w) : Append(w, v)[i] = w[i]
      BY DEF Streams
    <2>3. \A i \in 1 .. Len(w) + 1 : i \in 1 .. Len(w) \/ i = Len(w) + 1
      BY <2>2
    <2>4. DOMAIN w = 1 .. Len(w)
      BY DEF Streams
    <2>5. Len(Append(w, v)) > 0
      BY <2>2
    <2>. QED
      BY <2>1, <2>2, <2>3, <2>4, <2>5 DEF Streams, Current, Versions
  <1>. QED
    BY <1>1, <1>2

\* Delivery drops the oldest version only.
LEMMA StreamDeliver ==
    ASSUME NEW V, NEW w \in Streams(V), ~CaughtUp(w)
    PROVE  /\ Deliver(w) \in Streams(V)
           /\ Current(Deliver(w)) = Current(w)
           /\ Versions(Deliver(w)) \subseteq Versions(w)
  <1>1. w \in Seq(V) /\ Len(w) \in Nat /\ Len(w) > 1 /\ DOMAIN w = 1 .. Len(w)
    <2>1. w \in Seq(V) /\ Len(w) > 0 /\ Len(w) # 1
      BY DEF Streams, CaughtUp
    <2>2. Len(w) \in Nat /\ DOMAIN w = 1 .. Len(w)
      BY <2>1
    <2>. QED
      BY <2>1, <2>2
  <1>2. /\ Tail(w) \in Seq(V) /\ Len(Tail(w)) = Len(w) - 1
        /\ DOMAIN Tail(w) = 1 .. Len(w) - 1
        /\ \A i \in 1 .. Len(w) - 1 : Tail(w)[i] = w[i + 1] /\ i + 1 \in 1 .. Len(w)
    BY <1>1
  <1>3. Len(Tail(w)) > 0 /\ Len(w) - 1 \in 1 .. Len(w) - 1 /\ (Len(w) - 1) + 1 = Len(w)
    BY <1>1, <1>2
  <1>. QED
    BY <1>1, <1>2, <1>3 DEF Streams, Deliver, Current, Versions

\* A stream the cache has caught up with is its current version.
LEMMA StreamCaughtUp ==
    ASSUME NEW V, NEW w \in Streams(V), CaughtUp(w)
    PROVE  w = <<Current(w)>> /\ Cached(w) = Current(w) /\ Versions(w) = {Current(w)}
  BY DEF Streams, CaughtUp, Cached, Current, Versions

\* A write after which the cache is still up to date has changed nothing.
LEMMA StreamQuiet ==
    ASSUME NEW V, NEW w \in Streams(V), NEW v, CaughtUp(Put(w, v))
    PROVE  Put(w, v) = w /\ CaughtUp(w) /\ Current(w) = v
  <1>1. CASE v = Current(w)
    BY <1>1 DEF Put
  <1>2. CASE v # Current(w)
    <2>1. w \in Seq(V) /\ Len(w) \in Nat /\ Len(w) > 0
      BY DEF Streams
    <2>2. Len(Append(w, v)) = Len(w) + 1
      BY <2>1
    <2>. QED
      BY <1>2, <2>1, <2>2 DEF Put, CaughtUp
  <1>. QED
    BY <1>1, <1>2

\* There is a version to deliver, and the one before it.
LEMMA StreamNext ==
    ASSUME NEW V, NEW w \in Streams(V), ~CaughtUp(w)
    PROVE  w[1] \in V /\ w[2] \in V
  <1>1. w \in Seq(V) /\ Len(w) \in Nat /\ Len(w) > 1 /\ DOMAIN w = 1 .. Len(w)
    <2>1. w \in Seq(V) /\ Len(w) > 0 /\ Len(w) # 1
      BY DEF Streams, CaughtUp
    <2>2. Len(w) \in Nat /\ DOMAIN w = 1 .. Len(w)
      BY <2>1
    <2>. QED
      BY <2>1, <2>2
  <1>2. 1 \in DOMAIN w /\ 2 \in DOMAIN w
    BY <1>1
  <1>. QED
    BY <1>1, <1>2
-----------------------------------------------------------------------------
\* No version is followed by itself.
NoRepeat(w) == \A i \in DOMAIN w : i + 1 \in DOMAIN w => w[i] # w[i + 1]

\* Writes that change nothing make no version, so none is repeated.
LEMMA NoRepeatPut ==
    ASSUME NEW V, NEW w \in Streams(V), NEW v \in V, NoRepeat(w)
    PROVE  NoRepeat(Put(w, v))
  <1>1. CASE v = Current(w)
    BY <1>1, ZenonT(60) DEF Put
  <1>2. CASE v # Current(w)
    <2> DEFINE a == Append(w, v)
    <2>1. w \in Seq(V) /\ Len(w) \in Nat /\ Len(w) > 0 /\ DOMAIN w = 1 .. Len(w)
      BY DEF Streams
    <2>2. /\ DOMAIN a = 1 .. Len(w) + 1
          /\ a[Len(w) + 1] = v
          /\ \A i \in 1 .. Len(w) : a[i] = w[i]
      BY <2>1
    <2> HIDE DEF a
    <2>3. ASSUME NEW i \in DOMAIN a, i + 1 \in DOMAIN a PROVE a[i] # a[i + 1]
      <3>1. i \in 1 .. Len(w)
        BY <2>1, <2>2, <2>3
      <3>2. CASE i = Len(w)
        BY <1>2, <2>1, <2>2, <3>1, <3>2 DEF Current
      <3>3. CASE i # Len(w)
        <4>1. i + 1 \in 1 .. Len(w)
          BY <2>1, <3>1, <3>3
        <4>. QED
          BY <2>1, <2>2, <3>1, <4>1 DEF NoRepeat
      <3>. QED
        BY <3>2, <3>3
    <2>. QED
      BY <1>2, <2>3, ZenonT(60) DEF NoRepeat, Put, a
  <1>. QED
    BY <1>1, <1>2

\* Delivery repeats none either, and is of a version that differs.
LEMMA NoRepeatDeliver ==
    ASSUME NEW V, NEW w \in Streams(V), ~CaughtUp(w), NoRepeat(w)
    PROVE  /\ NoRepeat(Deliver(w))
           /\ w[1] \in Versions(w) /\ w[2] \in Versions(w) /\ w[1] # w[2]
  <1> DEFINE t == Tail(w)
  <1>1. w \in Seq(V) /\ Len(w) \in Nat /\ Len(w) > 1 /\ DOMAIN w = 1 .. Len(w)
    <2>1. w \in Seq(V) /\ Len(w) \in Nat /\ DOMAIN w = 1 .. Len(w)
      BY DEF Streams
    <2>2. Len(w) > 1
      BY <2>1 DEF Streams, CaughtUp
    <2>. QED
      BY <2>1, <2>2
  <1>2. /\ DOMAIN t = 1 .. Len(w) - 1
        /\ \A i \in 1 .. Len(w) - 1 : t[i] = w[i + 1]
    BY <1>1
  <1> HIDE DEF t
  <1>3. ASSUME NEW i \in DOMAIN t, i + 1 \in DOMAIN t PROVE t[i] # t[i + 1]
    <2>1. i + 1 \in DOMAIN w /\ (i + 1) + 1 \in DOMAIN w
      BY <1>1, <1>2, <1>3
    <2>2. t[i] = w[i + 1] /\ t[i + 1] = w[(i + 1) + 1]
      BY <1>2, <1>3
    <2>. QED
      BY <2>1, <2>2, ZenonT(60) DEF NoRepeat
  <1>4. 1 \in DOMAIN w /\ 1 + 1 \in DOMAIN w /\ 1 + 1 = 2
    BY <1>1
  <1>5. w[1] # w[2] /\ w[1] \in Versions(w) /\ w[2] \in Versions(w)
    BY <1>4, ZenonT(60) DEF NoRepeat, Versions
  <1>. QED
    BY <1>3, <1>5, ZenonT(60) DEF NoRepeat, Deliver, t
=============================================================================
