SPECIFICATION DetectionSpec
CONSTANTS
    Cameras = {c1, c2}
    Confs = {low, high}
    Default = low
    None = none
    MaxBatch = 2
    QuietAfter = 2
    IdleStride = 3
    MaxEdits = 2
    MaxRestarts = 1
INVARIANTS
    OwnAnswer
    NeverBlind
PROPERTIES
    EveryCameraAnswered
    EditReachesDetector
