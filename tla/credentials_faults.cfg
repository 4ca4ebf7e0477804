CONSTANTS
    b1 = b1  p1 = p1  r1 = r1  r2 = r2  h1 = h1  h2 = h2
    Nil = Nil
    Backup = {b1}
    PVC = {p1}
    Repo = {r1, r2}
    Host = {h1, h2}
    PvcOf <- OwnPvc
    HostOf <- OwnHost
    Faults = {"api", "exec", "timeout", "swallow", "crash"}
    Edits = {"create", "delete", "switch", "repo", "annotation", "password"}
    MaxFaults = 1
    MaxEdits = 3
    Password = {1, 2, 3, 4, 5, 6}
    MaxLag = 2
SPECIFICATION Spec
INVARIANTS
    TypeOK
    ProvisionHoldsFinalizer
    SyncedWasApplied
    RestIsDone
CHECK_DEADLOCK FALSE
