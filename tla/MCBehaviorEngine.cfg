SPECIFICATION Spec
CONSTANTS
    Observations <- MCObservations
    ActiveRules <- MCRules
    SmoothFrames = 2
    Cadence = 2
    HoldRelease = 2
    MinHold = 1
    Interval = 4
    MaxBanks = 1
    LoiterSeconds = 2
    SequenceWindow = 3
    StaleTrack = 1
    VisitsThreshold = 2
    EventCap = 3
    GreenMax = 1
    HighMax = 2
    MaxScore = 3
    MaxTime = 6
INVARIANTS
    ConcealmentAlerts
    AlertHasEvidence
    ExitNeedsConcealment
    RestingHandTopsOut
    ShelfBanksOnce
CHECK_DEADLOCK FALSE
