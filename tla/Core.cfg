CONSTANTS
    SagaSteps = 4
    CacheReaders = {r1, r2}
    Nones = {1}
    Ttls <- MCTtls
    MaxLoad = 1
    MaxVersion = 2
    MaxClock = 5
    ServiceKeys = {"A", "B", "C"}
    Needs <- MCNeeds
    Scopes = {"s1", "s2"}
    MaxRegistrations = 3
    MaxResolutions = 3
    MaxFrames = 3
    Schemas = {1, 2, 3, 4}
    Definitions <- MCDefinitions
    Apps <- MCApps
    Inbound <- MCInbound
    HealthCheckNames = {"db", "queue"}
    CheckOutcomes = {"ok", "true", "warning", "failed", "false", "raises"}
    Words <- MCWords
    Results <- MCResults
    MaxHops = 3
    TypeOrder <- MCTypeOrder
    Worlds <- MCWorlds
    TopicsOf <- MCTopicsOf
    Routes <- MCRoutes
    MaxRoutes = 3
    Requests <- MCRequests
SPECIFICATION MCSpec
INVARIANTS SagaAccountsForEffects ServesFreshEnough ServicesAsRegistered ChainIsShortest AnsweredByTheRightOne ResultSurvives ContractFaithful RequestsReachTheirRoute
CHECK_DEADLOCK FALSE
