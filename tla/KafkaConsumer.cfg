CONSTANTS
    Consumers = {"c1", "c2"}
    Partitions = {"p1"}
    LogEnd = 3
    Content <- GoodLog
    AtMostOnce = FALSE
    IgnoreUnmatched = FALSE
    FlakyPipeline = TRUE
    MaxTrouble = 3
SPECIFICATION FairSpec
INVARIANT CommitsSafely
PROPERTIES AtLeastOnceSpec EveryRecordHandled
CHECK_DEADLOCK FALSE
