\* Two jobs of one session, two calls and two executions at once, against every limit.
SPECIFICATION Spec
CONSTANTS
    j1 = j1  j2 = j2  o1 = o1  c1 = c1  c2 = c2
    w1 = w1  w2 = w2  m1 = m1  m2 = m2
    None = None
    Jobs <- TwoJobs
    Owners <- OneSession
    OwnerOf <- AllMine
    Callers <- TwoCallers
    Workers <- TwoWorkers
    Messages <- OneMessage
    MaxActive = 1
    PerSession = 2
    DailyLimit = 2
    MaxAttempts = 2
    MaxFaults = 1
    Stalls = FALSE
SYMMETRY Symmetry
CONSTRAINTS
    OneInSight
INVARIANTS
    ExecutionsAccounted DeliveryKept
PROPERTIES
    SettledForClients Promise
