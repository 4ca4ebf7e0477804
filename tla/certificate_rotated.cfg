CONSTANTS
    Settings = {s1, s2}
    Cert = {1, 2, 3, 4}
    UserCert = Nil
    s1 = s1  s2 = s2
    Nil = Nil
    Scenario <- Aging
    MaxLag = 2
SPECIFICATION FairSpec
PROPERTY
    FingerprintIsServed
CHECK_DEADLOCK FALSE
