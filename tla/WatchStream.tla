---------------------------- MODULE WatchStream ----------------------------
(***************************************************************************)
(* One Kubernetes object as the operator sees it.  The manager's client    *)
(* reads from an informer cache and writes to the API server.  A stream is *)
(* the sequence of versions from the one the cache holds (its first) to    *)
(* the one the API server holds (its last); a version is an object or the  *)
(* Nil of the module that uses the stream.  The cache lags, skips nothing  *)
(* and never goes back.  Neither the API server nor controller-runtime is  *)
(* part of the repository: these definitions are modelled from its use.    *)
(***************************************************************************)
EXTENDS Naturals, Sequences

Streams(Version) == {w \in Seq(Version) : Len(w) > 0}

\* client.Get and client.List: what the informer has delivered so far.
Cached(w) == Head(w)

\* What the API server holds.
Current(w) == w[Len(w)]

Versions(w) == {w[i] : i \in DOMAIN w}

CaughtUp(w) == Len(w) = 1

\* A write that changes nothing creates no version and no event.
Put(w, v) == IF v = Current(w) THEN w ELSE Append(w, v)

\* The informer applies the next version; the event is the caller's business.
Deliver(w) == Tail(w)
=============================================================================
