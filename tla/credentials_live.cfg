CONSTANTS
    b1 = b1  p1 = p1  r1 = r1  r2 = r2  h1 = h1  h2 = h2
    Nil = Nil
    Backup = {b1}
    PVC = {p1}
    Repo = {r1}
    Host = {h1}
    PvcOf <- OwnPvc
    HostOf <- OwnHost
    Faults = {"api", "exec", "crash"}
    Edits = {"create", "delete", "pvc", "server", "annotation", "password"}
    MaxFaults = 2
    MaxEdits = 3
    Password = {1, 2, 3, 4, 5, 6}
    MaxLag = 2
SPECIFICATION FairSpec
INVARIANT SyncedUsable
PROPERTIES
    ImplementsLifecycle
    ReleaseIsClean
    Converges
    DeletionCompletes
CHECK_DEADLOCK FALSE
