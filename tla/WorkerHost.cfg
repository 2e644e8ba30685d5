CONSTANTS
    Names = {"http", "sqs", "mesh"}
    Kind <- MixedKinds
    HasTimeout = TRUE
SPECIFICATION FairSpec
INVARIANT EndsCleanly
PROPERTY WindsDown
CHECK_DEADLOCK FALSE
