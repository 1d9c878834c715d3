\* deploy/start.sh restarts the worker in the runner's container: the runner survives.
SPECIFICATION Spec
CONSTANTS
    j1 = j1  j2 = j2  a1 = a1  a2 = a2  r1 = r1  r2 = r2
    Nobody = Nobody
    Jobs <- OneJob
    Admins <- OneAdmin
    Operations <- OnlyRetry
    Runners <- TwoSlots
    Stamps <- OneStamp
    MaxActive = 1
    MaxAttempts = 3
    OrphansSurvive = TRUE
    MaxWorkerStops = 1
    MaxApiStops = 0
PROPERTIES
    CompletedStays
