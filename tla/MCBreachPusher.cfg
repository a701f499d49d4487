SPECIFICATION Spec
CONSTANTS
    Cameras = {c1, c2}
    MaxJobs = 2
    MaxCrashes = 1
    BootstrapMode = "node_push"
INVARIANTS
    OneBreachInFlight
    ClipOwned
    AlertXorCleared
PROPERTIES
    OffAdmitsNoMore
    ImplementsSingleFlight
