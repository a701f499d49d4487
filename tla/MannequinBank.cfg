SPECIFICATION Spec
CONSTANTS
    Tracks = {t1, t2}
    Places = 4
    CellSize = 2
    MoveFrac = 1
    StillAfter = 4
    CreditMax = 2
    TrackTTL = 3
    SpotTTL = 5
    MaxTime = 6
INVARIANTS
    LatchedAfterStillness
