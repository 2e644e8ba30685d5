CONSTANTS
    Instances = {"i1", "i2"}
    Messages <- MCMessages
    Content <- MCContent
    AtMostOnce = FALSE
    IgnoreUnmatched = FALSE
    FlakyPipeline = TRUE
    BatchSize = 2
    MaxTries = 2
    MaxCrashes = 1
    HeaderNames = {"trace", "Trace", "topic", "Topic", "type", "data", "eventbridge-detail-type", "Eventbridge-Detail-Type", "X-Correlation-Id"}
    Lower <- MCLower
    MaxHeaders = 2
    Attempts = 2
SPECIFICATION MCSpec
INVARIANTS RerunWithCause ArrivesAsSent 
PROPERTIES HostAtLeastOnce EveryMessageSettled
CHECK_DEADLOCK FALSE
