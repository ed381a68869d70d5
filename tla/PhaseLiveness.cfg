SPECIFICATION FairPSpec
CONSTANTS
    Resource = {r1}
    Op = {o1, o2}
    v1 = v1
    v2 = v2
    r1 = r1
    Version = {v1}
    Cost <- MCCostOne
    Limit = 2
    Intent = {"deploy", "drift_check"}
    RefSets <- NoRefs
    MaxInFlight = 1
    CarefulOperator = FALSE
    ApiCrashes = TRUE
    None = None
PROPERTIES DispatchedPhaseLeaves
CHECK_DEADLOCK FALSE
