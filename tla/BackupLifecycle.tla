-------------------------- MODULE BackupLifecycle --------------------------
(***************************************************************************)
(* The life of KopiaBackup objects as their users and the two controllers  *)
(* that write them may rely on it, without caches, conflicts or retries:   *)
(* an object is held by the finalizer before it is attended to, a held one *)
(* goes only through deletion and release, and one that comes back under   *)
(* the same name starts anew.                                              *)
(*                                                                         *)
(* BackupCredentials and PVCWatcher implement this module, each with the   *)
(* other controller's part played by its environment: what one of them     *)
(* assumes of the other is what the other one does.  BackupPlacement,      *)
(* which starts with backups that are already there, takes its steps only. *)
(***************************************************************************)
CONSTANT Backup

VARIABLES
    life,     \* where each object is in its life
    attended  \* objects the KopiaBackup controller has done more than hold

vars == <<life, attended>>

Life == {"absent", "bare", "held", "terminating"}

Init ==
    /\ life = [b \in Backup |-> "absent"]
    /\ attended = {}

Becomes(b, from, to) == life[b] = from /\ life' = [life EXCEPT ![b] = to]

Create(b) == Becomes(b, "absent", "bare") /\ UNCHANGED attended

Hold(b) == Becomes(b, "bare", "held") /\ UNCHANGED attended

Attend(b) == life[b] = "held" /\ attended' = attended \cup {b} /\ UNCHANGED life

\* Without the finalizer an object goes at once.
Delete(b) ==
    \/ Becomes(b, "bare", "absent") /\ attended' = attended \ {b}
    \/ Becomes(b, "held", "terminating") /\ UNCHANGED attended

Release(b) == Becomes(b, "terminating", "absent") /\ attended' = attended \ {b}

Next == \E b \in Backup : Create(b) \/ Hold(b) \/ Attend(b) \/ Delete(b) \/ Release(b)

Spec == Init /\ [][Next]_vars
=============================================================================
