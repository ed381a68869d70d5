SPECIFICATION PSpec
CONSTANTS
    Resource = {r1}
    Op = {o1, o2, o3}
    v1 = v1
    v2 = v2
    r1 = r1
    Version = {v1}
    Cost <- MCCostOne
    Limit = 2
    Intent = {"deploy", "destroy", "drift_check"}
    RefSets <- NoRefs
    MaxInFlight = 1
    CarefulOperator = TRUE
    ApiCrashes = TRUE
    None = None
SYMMETRY MCSymmetry
INVARIANTS PhaseTypeOK SoleWorker AppliedIsReviewed FailedChangedNothing
    InfraMatchesRow
CHECK_DEADLOCK FALSE
