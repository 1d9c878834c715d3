\* Safety: one course under two racing requests and restarts, or two for one place and one worker.
SPECIFICATION LifeSpec
CONSTANTS
    j1 = j1  j2 = j2  a1 = a1  a2 = a2  r1 = r1  r2 = r2
    Nobody = Nobody
    Jobs <- TwoJobs
    Admins <- TwoAdmins
    Operations <- Everything
    Runners <- TwoSlots
    Stamps <- OneStamp
    MaxActive = 1
    MaxAttempts = 2
    OrphansSurvive = FALSE
    MaxWorkerStops = 2
    MaxApiStops = 1
SYMMETRY Symmetry
INVARIANTS
    OneRunner FilesMatchRow AcceptedKept
PROPERTIES
    CompletedStays ImplementsCatalog
