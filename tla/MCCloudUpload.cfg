\* Three requests of an upload in one or two chunks, a lease that may run out at any moment.
SPECIFICATION FairUploadSpec
CONSTANTS
    w1 = w1  w2 = w2  w3 = w3
    None = None
    Writers <- ThreeWriters
    MaxTries = 1
    MaxChunks = 2
    Contents = {"a", "b"}
CHECK_DEADLOCK FALSE
INVARIANTS
    AcknowledgedChunksStay SourceIsWhatWasSent
PROPERTIES
    TransactionsAreAtomic EveryoneEnds
