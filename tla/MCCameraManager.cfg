SPECIFICATION Spec
CONSTANTS
    Cameras = {c1, c2}
    Sources = {"a", "b"}
    Stores = {"s"}
    AutoStart = {c1}
    AutoSource = "a"
    AutoStore = "s"
    MaxWorkers = 3
    MaxRestarts = 1
    MaxDiskErrors = 1
INVARIANTS
    IntentHeld
    DiskErrorsHarmless
    NoStrayCallbacks
PROPERTIES
    StopsEventually
    BootCompletes
