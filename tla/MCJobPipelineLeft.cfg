\* A course is deleted while its upload has inserted the row and not yet made the folder.
SPECIFICATION DeletingSpec
CONSTANTS
    j1 = j1  j2 = j2  a1 = a1  a2 = a2  r1 = r1  r2 = r2
    Nobody = Nobody
    Jobs <- OneJob
    Admins <- OneAdmin
    Operations <- Everything
    Runners <- OneSlot
    Stamps <- OneStamp
    MaxActive = 1
    MaxAttempts = 2
    OrphansSurvive = FALSE
    MaxWorkerStops = 0
    MaxApiStops = 0
INVARIANTS
    DeletionIsPhysical
