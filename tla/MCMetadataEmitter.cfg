SPECIFICATION EmitterSpec
CONSTANTS
    Cameras = {c1, c2}
    Cap = 2
    BatchSize = 2
    MaxFrames = 3
INVARIANTS
    InOrder
    Accounted
PROPERTIES
    EveryFrameLeaves
CHECK_DEADLOCK FALSE
