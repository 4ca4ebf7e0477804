CONSTANTS
    n1 = n1  n2 = n2
    Nil = Nil
    Setup <- Setups
    TaintKey = {"dedicated", "monitoring"}
    Node = {n1, n2}
    Taints <- NodeTaints
    Consumer <- Workloads
    Cert = {1, 2}
    ConnectAttempts = 2
    DefaultDeadline = 3
    DefaultBackoff = 2
    Faults = {"kopia", "evict"}
    Edits = {"server", "certificate", "consumer", "reference"}
    MaxFaults = 1
    MaxEdits = 2
SPECIFICATION FairSpec
INVARIANTS
    TypeOK
    LosesAtMostOne
PROPERTIES
    JobEnds
    JobWearsOut
    SnapshotsResume
CHECK_DEADLOCK FALSE
