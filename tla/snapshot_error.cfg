CONSTANTS
    n1 = n1  n2 = n2
    Nil = Nil
    Setup <- OneServer
    TaintKey = {"dedicated", "monitoring"}
    Node = {n1, n2}
    Taints <- NodeTaints
    Consumer <- Workloads
    Cert = {1, 2}
    ConnectAttempts = 2
    DefaultDeadline = 3
    DefaultBackoff = 2
    Faults = {}
    Edits = {"server"}
    MaxFaults = 1
    MaxEdits = 1
SPECIFICATION FairSpec
INVARIANT CompleteMeansSnapshot
CHECK_DEADLOCK FALSE
