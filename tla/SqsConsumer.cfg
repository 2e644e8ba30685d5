CONSTANTS
    Consumers = {"c1", "c2"}
    Messages <- MCMessages
    Content <- MCContent
    AtMostOnce = FALSE
    IgnoreUnmatched = FALSE
    FlakyPipeline = TRUE
    MaxBatch = 2
    MaxReceives = 3
    MaxTrouble = 2
SPECIFICATION FairSpec
INVARIANT RedeliveredWithCause
PROPERTIES AtLeastOnceSpec EverySettled
CHECK_DEADLOCK FALSE
