SPECIFICATION DeploymentsSpec
CONSTANTS
    d1 = d1
    d2 = d2
    small = small
    large = large
    w1 = w1
    w2 = w2
    q1 = q1
    q2 = q2
    api = api
    None = None
    Deployment = {d1}
    Spec = {small, large}
    Cost <- McCost
    Limit = 2
    Worker = {w1, w2}
    Request = {q1, q2}
    Server <- McServer
    MaxJobs = 2
    MaxRequests = 2
    MaxFaults = 1
PROPERTIES HeldLockIsDead
CHECK_DEADLOCK FALSE
