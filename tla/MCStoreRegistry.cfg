SPECIFICATION RegistrySpec
CONSTANTS
    t1 = t1
    t2 = t2
    front = front
    back = back
    Tracks = {t1, t2}
    Cameras = {front, back}
    Cam <- MCCam
    Window = 1
    MaxId = 2
    MaxRaw = 1
    MaxRisen = 1
    MaxScore = 2
SYMMETRY Symmetry
INVARIANTS
    FadesByHalfLife
    RiseBankedOnce
PROPERTIES
    NowhereTwice
    RememberedWhileSeen
