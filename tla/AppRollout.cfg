SPECIFICATION AppSpec
CONSTANTS
    a = a
    b = b
    Replica = {a, b}
    Router = router
    First = a
    None = None
    MaxFailovers = 1
    MaxTeardowns = 1
    MaxRequests = 2
    MaxChecks = 1
    MaxAttempts = 2
INVARIANTS LiveRouterHasReplicas PrimaryIsDeployed DestroyedIsGone RolloutEndsForReason
PROPERTIES HealthyAppStays TeardownStartsQuiet
CHECK_DEADLOCK FALSE
