SPECIFICATION FairSpec
CONSTANTS
    b1 = b1
    b2 = b2
    p1 = p1
    p2 = p2
    r1 = r1
    home = home
    other = other
    fs1 = fs1
    fs2 = fs2
    srv = srv
    q1 = q1
    q2 = q2
    q3 = q3
    Backup = {b1, b2}
    PVC = {p1, p2}
    PvcOf <- OwnPvc
    Repo = {r1}
    RepoOf <- OneRepo
    Namespace = {home, other}
    Home = home
    Setting = {fs1}
    ModeOf <- Modes
    ReposThere <- RemoteRepo
    Plan = {"daily", "suspended"}
    Suspended = {"suspended"}
    Pod = {q1, q2, q3}
    SnapshotPod = {q3}
    Mounts <- FirstPvc
    Place = {"n1", "n2"}
    PodsThere <- Overlap
    Nil = Nil
    Faults = {"api", "crash"}
    Edits = {"delete", "repo", "pod"}
    MaxFaults = 0
    MaxEdits = 1
    MaxLag = 3
PROPERTIES CronJobFollowsPod ConfigMapSettles ReadySettles
CHECK_DEADLOCK FALSE
