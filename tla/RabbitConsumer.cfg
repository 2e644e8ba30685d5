SPECIFICATION FairSpec
CONSTANTS
    Consumers = {c1, c2}
    Messages <- MCMessages
    Content <- MCContent
    AtMostOnce = FALSE
    IgnoreUnmatched = FALSE
    FlakyPipeline = TRUE
    MaxTrouble = 2
INVARIANT RedeliveredWithCause
PROPERTIES AtLeastOnceSpec SettledOrBehindRetries
CHECK_DEADLOCK FALSE
