CONSTANTS
    s1 = s1  s2 = s2
    Nil = Nil
    Settings = {s1, s2}
    Cert = {1, 2, 3, 4, 5, 6}
    UserCert = 1
    Scenario <- Scenarios
    MaxLag = 2
SPECIFICATION FairSpec
INVARIANTS
    TypeOK
    ReadyWasDeployed
    RestIsServed
PROPERTIES
    ChildrenSettle
    StatusSettles
CHECK_DEADLOCK FALSE
