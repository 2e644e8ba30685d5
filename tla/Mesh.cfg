CONSTANTS
    MaxExemplars = 2
    MaxWindowTraces = 2
    MaxErrors = 2
    MaxPending = 3
    Feeds <- MCFeeds
    FeedOf <- MCFeedOf
    Fleets <- MCFleets
    MaxDeliveries = 4
    MaxHostTrouble = 1
    ServiceSources = {"web", "pay"}
    Releases = {1, 2}
    MaxPollTrouble = 1
    ChannelKey <- MCChannelKey
    Writers = {w1, w2}
    Keys = {1, 2, 3}
    MaxEvents = 3
    QueueSize = 1
    PageSize = 2
    MaxInboxTrouble = 1
    Artifacts <- MCArtifacts
SPECIFICATION MCSpec
INVARIANTS CatalogSurvives CatalogTellsTruly TracesCountedOnce AuditAgrees
PROPERTIES UndeclaredCallFiled PollShowsReleases MeshCatchesUp
CHECK_DEADLOCK FALSE
