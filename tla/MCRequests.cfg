\* Two browsers of two names over three moments; a lesson built twice and two tabs; two refreshes.
SPECIFICATION Spec
CONSTANTS
    c1 = c1  c2 = c2  n1 = n1  n2 = n2  p1 = p1  p2 = p2
    t1 = t1  t2 = t2  x = x  y = y  z = z  o1 = o1  o2 = o2
    None = None  Absent = Absent  Unknown = Unknown
    Callers <- TwoCallers
    Names <- TwoNames
    Passwords <- TwoPasswords
    Admin = n1
    AdminPassword = p1
    Day = 2
    Lifetime = 1
    Allowance = 1
    Histories <- Conversations
    MaxHistory = 2
    MaxTime = 2
    MaxRequests = 4
    MaxRestarts = 1
    Tabs <- TwoTabs
    Lessons = {1}
    Wordings = {x, y, z}
    Replies <- SomeReplies
    MaxBuilds = 2
    MaxSubmits = 2
    Polls <- TwoPolls
    Fresh = 2
    Retry = 1
    MaxMoment = 2
    MaxStarts = 1
    MaxAnswers = 3
SYMMETRY Symmetry
CHECK_DEADLOCK FALSE
INVARIANTS
    AccountsHold DailyAllowance OpensOnUserTurn FairGrade BestIsKept
PROPERTIES
    LastGoodNumbers
