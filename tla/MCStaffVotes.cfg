SPECIFICATION Spec
CONSTANTS
    Tracks = {t1, t2, t3}
    Colors = {blue, red}
    Off = off
    EveryN = 2
    MaxPerFrame = 1
    MinHits = 1
    ColorOnlyHits = 2
    MaxAttempts = 2
    QueueSize = 1
    MaxFrame = 4
SYMMETRY Symmetry
INVARIANTS
    StaffJustified
    NobodyOvertaken
PROPERTIES
    DecisionFinal
