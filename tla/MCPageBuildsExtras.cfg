\* A book of two pages, one attempt that ends early, and a batch before the next.
SPECIFICATION BuildSpec
CONSTANTS
    r1 = r1  r2 = r2
    PageCount = 2
    None = None  Torn = Torn
    MaxRelease = 1
    MaxStops = 1
    Readers <- TwoReaders
    Batch = Batch  Nobody = Nobody
    Whole = Whole  Empty = Empty  Garbled = Garbled
    MaxRequests = 3
    MaxCrashes = 0
CHECK_DEADLOCK FALSE
INVARIANTS
    OnlyTheBook
