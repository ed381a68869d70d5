SPECIFICATION Spec
CONSTANTS
    Resource = {r1}
    Op = {o1, o2, o3}
    v1 = v1
    v2 = v2
    r1 = r1
    r2 = r2
    Version = {v1, v2}
    Cost <- MCCost
    Limit = 2
    Intent = {"deploy", "destroy"}
    RefSets <- NoRefs
    MaxInFlight = 1
    None = None
SYMMETRY MCSymmetry
INVARIANTS UncertainIsReconcilable
CHECK_DEADLOCK FALSE
