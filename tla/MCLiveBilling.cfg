\* Two tabs of one student, a correction, an invoice with two pollers, and a fault.
SPECIFICATION FairSpec
CONSTANTS
    u1 = u1  s1 = s1  s2 = s2  i1 = i1  bg = bg  get = get
    Everyone = Everyone  None = None
    Background = bg
    Students <- OneStudent
    Sessions <- TwoSessions
    Invoices <- OneInvoice
    Pollers <- TwoPollers
    Block = 2
    FreeSeconds = 3
    PackageSeconds = 2
    Corrections <- UpAndDown
    MaxTalk = 2
    MaxFaults = 1
    MaxCorrections = 1
INVARIANTS
    Conservation LossBounded
PROPERTIES
    PaidIsCredited
