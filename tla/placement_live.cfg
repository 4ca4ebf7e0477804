SPECIFICATION WatchSpec
CONSTANTS
    b1 = b1
    b2 = b2
    p1 = p1
    p2 = p2
    r1 = r1
    home = home
    other = other
    fs1 = fs1
    fs2 = fs2
    srv = srv
    q1 = q1
    q2 = q2
    q3 = q3
    Backup = {b1}
    PVC = {p1}
    PvcOf <- OwnPvc
    Repo = {r1}
    RepoOf <- OneRepo
    Namespace = {home}
    Home = home
    Setting = {fs1, fs2, srv}
    ModeOf <- Modes
    ReposThere <- LocalRepo
    Plan = {"daily", "suspended"}
    Suspended = {"suspended"}
    Pod = {q1}
    SnapshotPod = {}
    Mounts <- FirstPvc
    Place = {"n1", "n2"}
    PodsThere <- OnePod
    Nil = Nil
    Faults = {"api", "user", "crash"}
    Edits = {"create", "delete", "plan", "pvc", "repo", "pod", "cronJob", "configMap"}
    MaxFaults = 1
    MaxEdits = 2
    MaxLag = 3
INVARIANTS TypeOK ReadyIsCurrent RestIsPlaced
PROPERTIES KeepsLifecycle CronJobSettles CronJobFollowsPod ConfigMapSettles ReadySettles
CHECK_DEADLOCK FALSE
