CONSTANTS
    Calls = {c1, c2, c3}
    FailureThreshold = 2
    ResetTimeout = 2
    MayCancel = TRUE
SPECIFICATION FairSpec
PROPERTY HalfOpenResolves
