---------------------------- MODULE MCBackupJob ----------------------------
(***************************************************************************)
(* Instances of BackupJob: a node anyone may use and one with a taint that *)
(* its workload tolerates.                                                 *)
(***************************************************************************)
EXTENDS BackupJob, TLC

CONSTANTS n1, n2

NodeTaints == n1 :> {} @@ n2 :> {"monitoring"}

Workloads == {[node |-> n1, app |-> "app", tolerations |-> {}],
              [node |-> n2, app |-> "app", tolerations |-> {"monitoring"}]}

NoLimits == [server |-> TRUE, storage |-> "filesystem", given |-> {"path"}, pvcName |-> 42,
             schedule |-> 5, deadline |-> Nil, backoff |-> Nil]

\* A server, a server for a backup that gives its own limits, NFS without
\* server; not admitted, a filesystem without its path; admitted, but no
\* CronJob is accepted or none of its Jobs succeeds, a filesystem without NFS
\* server, a PVC name beyond 42 characters, and SFTP without server.
Setups ==
    {NoLimits,
     [NoLimits EXCEPT !.deadline = 1, !.backoff = 0],
     [NoLimits EXCEPT !.server = FALSE, !.given = {"path", "nfs"}],
     [NoLimits EXCEPT !.server = FALSE, !.given = {"nfs"}],
     [NoLimits EXCEPT !.server = FALSE],
     [NoLimits EXCEPT !.pvcName = 43],
     [NoLimits EXCEPT !.server = FALSE, !.storage = "sftp", !.given = {"path", "host", "credentialsSecret"}]}

\* A server alone.
OneServer == {NoLimits}
=============================================================================
