SPECIFICATION Spec
CONSTANTS
    Uploads = {u1, u2, u3, u4, u5}
    MaxConcurrency = 2
    MaxQueue = 2
INVARIANTS
    NoLostWakeup
    FilesCleanedUp
PROPERTIES
    ImplementsPool
CHECK_DEADLOCK FALSE
