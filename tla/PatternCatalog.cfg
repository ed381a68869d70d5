SPECIFICATION CatalogSpec
CONSTANTS
    c1 = c1
    c2 = c2
    c3 = c3
    p1 = p1
    p2 = p2
    Version = {1, 2}
    Commit = {c1, c2, c3}
    Process = {p1, p2}
    CacheMax = 1
    MaxMoves = 2
    MaxRequests = 3
    None = None
SYMMETRY MCSymmetry
INVARIANTS PromotesWhatRan ReadsWhole DefaultFindingsOfDefault
CHECK_DEADLOCK FALSE
