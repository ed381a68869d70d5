SPECIFICATION Spec
CONSTANTS
    Resource = {r1, r2}
    Op = {o1, o2, o3}
    v1 = v1
    v2 = v2
    r1 = r1
    r2 = r2
    Version = {v1, v2}
    Cost <- MCCost
    Limit = 3
    Intent = {"deploy", "destroy", "drift_check"}
    RefSets <- NoRefs
    MaxInFlight = 1
    None = None
SYMMETRY MCSymmetryR
INVARIANTS BudgetHeld ReplayExplainsRow
PROPERTIES ImplementsLifecycle
CHECK_DEADLOCK FALSE
