\* A book of two pages, two releases, interrupted attempts; a batch, two readers, a restart.
SPECIFICATION FairBuildSpec
CONSTANTS
    r1 = r1  r2 = r2
    PageCount = 2
    None = None  Torn = Torn
    MaxRelease = 2
    MaxStops = 2
    Readers <- TwoReaders
    Batch = Batch  Nobody = Nobody
    Whole = Whole  Empty = Empty  Garbled = Garbled
    MaxRequests = 3
    MaxCrashes = 1
CHECK_DEADLOCK FALSE
INVARIANTS
    BookAsFromNothing PagesWhole WrittenIsThere
PROPERTIES
    FinishedPagesKept ClientsNeverPay BuildsEnd
