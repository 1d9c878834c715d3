\* Fair behaviours of one job: two executions, two faults, deletion and expiry.
SPECIFICATION FairSpec
CONSTANTS
    j1 = j1  j2 = j2  o1 = o1  c1 = c1  c2 = c2
    w1 = w1  w2 = w2  m1 = m1  m2 = m2
    None = None
    Jobs <- OneJob
    Owners <- OneSession
    OwnerOf <- AllMine
    Callers <- OneCaller
    Workers <- TwoWorkers
    Messages <- TwoMessages
    MaxActive = 1
    PerSession = 1
    DailyLimit = 2
    MaxAttempts = 2
    MaxFaults = 2
    Stalls = FALSE
CONSTRAINTS
    FollowedInSight
INVARIANTS
    DeletedIsPurged ConversionSerialized
PROPERTIES
    AcceptedSettles
