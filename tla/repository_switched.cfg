CONSTANTS
    b1 = b1  p1 = p1  r1 = r1  r2 = r2  h1 = h1  h2 = h2
    Nil = Nil
    Backup = {b1}
    PVC = {p1}
    Repo = {r1, r2}
    Host = {h1, h2}
    PvcOf <- OwnPvc
    HostOf <- OwnHost
    Faults = {}
    Edits = {"create", "switch"}
    MaxFaults = 1
    MaxEdits = 3
    Password = {1, 2, 3, 4, 5, 6}
    MaxLag = 3
SPECIFICATION Spec
INVARIANT EnsureUserEnsures
CHECK_DEADLOCK FALSE
