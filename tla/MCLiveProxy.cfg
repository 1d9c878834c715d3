\* A talk over up to three connections: what is said and turned at any moment.
SPECIFICATION FairSpec
CONSTANTS
    p1 = p1  p2 = p2
    None = None
    Providers <- BothProviders
    Pages <- TwoPages
    MaxPending = 3
    MaxFailures = 2
    MaxInputs = 4
    MaxConnections = 3
INVARIANTS
    TutorFollows
PROPERTIES
    TalkGoesOnOrEnds
