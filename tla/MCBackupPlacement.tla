------------------------- MODULE MCBackupPlacement -------------------------
(***************************************************************************)
(* Small instances of BackupPlacement for TLC.                             *)
(***************************************************************************)
EXTENDS BackupPlacement

CONSTANTS b1, b2, p1, p2, r1, home, other, fs1, fs2, srv, q1, q2, q3

\* Each backup has its PVC, all use one repository.
OwnPvc == [b \in Backup |-> IF b = b1 THEN p1 ELSE p2]

OneRepo == [b \in Backup |-> r1]

Modes == [s \in Setting |-> IF s = srv THEN "server" ELSE "filesystem"]

\* The repository is next to the backups, or in another namespace.
LocalRepo == [id \in Namespace \X Repo |-> IF id[1] = home THEN fs1 ELSE Nil]

RemoteRepo == [id \in Namespace \X Repo |-> IF id[1] = other THEN fs1 ELSE Nil]

\* All pods use the PVC of the first backup.
FirstPvc == [q \in Pod |-> p1]

\* No pod is there, or one runs.
OnePod == [Pod -> {Nil, [place |-> "n1", phase |-> "Running"]}]

\* Two run on different nodes: one is being replaced by the other.
\* A third, on the node of the first, takes a snapshot.
Overlap == {[q \in Pod |-> [place |-> IF q = q2 THEN "n2" ELSE "n1", phase |-> "Running"]]}
=============================================================================
