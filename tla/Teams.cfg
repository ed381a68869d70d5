SPECIFICATION TeamsSpec
CONSTANTS
    finance = finance
    platform = platform
    o1 = o1
    o2 = o2
    r1 = r1
    members = members
    staff = staff
    storage = storage
    plain = plain
    azure = azure
    t1 = t1
    t2 = t2
    sub = sub
    Team = {finance, platform}
    Operator = {o1, o2}
    Resource = {r1}
    Group = {members, staff}
    Caller = {members}
    Pattern = {storage, plain}
    Cloud <- MCCloud
    Price <- MCPrice
    Docs <- MCDocs
    Acknowledge <- MCAcknowledge
    MaxRevision <- MCRevisions
    MaxAccepted = 2
    MaxDrafts = 1
    None = None
INVARIANTS ResourcesStayPlaced PlansOutliveArchives
PROPERTIES NoLostUpdate OverrunAcknowledged OverlapAcknowledged
CHECK_DEADLOCK FALSE
