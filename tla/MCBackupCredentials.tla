------------------------ MODULE MCBackupCredentials ------------------------
(***************************************************************************)
(* Small instances of BackupCredentials for TLC.                           *)
(***************************************************************************)
EXTENDS BackupCredentials

CONSTANTS b1, p1, r1, r2, h1, h2

OwnPvc == [b \in Backup |-> p1]

\* Each repository has its own hostname.
OwnHost == [r \in Repo |-> IF r = r1 THEN h1 ELSE h2]
=============================================================================
