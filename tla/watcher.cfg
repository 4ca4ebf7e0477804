CONSTANTS
    p1 = p1  r1 = r1  r2 = r2  home = home  other = other  s1 = s1  s2 = s2  bad = bad
    Nil = Nil
    PVC = {p1}
    Namespace = {home, other}
    Home = home
    Repo = {r1, r2}
    Schedule = {s1, s2, bad}
    BadSchedule = {bad}
    DefaultOf <- BothThere
    Scenario <- Scenarios
    MaxUid = 2
    MaxLag = 3
SPECIFICATION FairSpec
INVARIANTS
    TypeOK
    AutoCreatedIsOwned
    RestIsFollowed
PROPERTIES
    ManualNotRewritten
    ImplementsLifecycle
    LabelRemovedDeletes
    BackupFollowsPVC
    LabelledGetsBackup
CHECK_DEADLOCK FALSE
