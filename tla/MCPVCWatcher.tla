---------------------------- MODULE MCPVCWatcher ----------------------------
(***************************************************************************)
(* Small instances of PVCWatcher for TLC.                                  *)
(***************************************************************************)
EXTENDS PVCWatcher

CONSTANTS p1, r1, r2, home, other, s1, s2, bad

\* r1 is next to the PVC, r2 in another namespace.
BothThere ==
    [id \in Namespace \X Repo |->
        IF id = <<home, r1>> THEN s1 ELSE IF id = <<other, r2>> THEN s2 ELSE Nil]

\* Stale reads, repositories that come and go, KopiaBackups made by hand.
Stale == [kinds |-> Kind \ {"pvc", "schedule"}, faults |-> 0, edits |-> 2]

\* All that the watcher is told of, twice, or once with a failure.
Followed ==
    {[kinds |-> Kind \ {"lag", "createRepo", "changeRepo"}, faults |-> f, edits |-> 2 - f] : f \in 0 .. 1}

\* Nothing is taken away.
Growing == [kinds |-> {"api", "crash", "lag", "label", "schedule"}, faults |-> 1, edits |-> 2]

\* A label is removed while the cache of KopiaBackups may be behind.
Unlabelled == {[kinds |-> {"lag", "unlabel"}, faults |-> 0, edits |-> 1]}

Scenarios == {Stale, Growing} \cup Followed
=============================================================================
