\* Two administrators, the suggested plan, another and one that is refused, one restart.
SPECIFICATION FairSpec
CONSTANTS
    a1 = a1  a2 = a2
    None = None  Empty = Empty  Garbled = Garbled
    Admins <- TwoAdmins
    Books <- AllBooks
    Explored <- OneBook
    Candidates <- TwoPlans
    MaxRequests = 4
    MaxCrashes = 1
CHECK_DEADLOCK FALSE
INVARIANTS
    BuiltMatchesPlan CourseFollowsBook SuggestionSaves
PROPERTIES
    DoneMeansBuilt BuildEnds
