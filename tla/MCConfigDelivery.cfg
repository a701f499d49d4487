SPECIFICATION Spec
CONSTANTS
    Workers = {w1, w2}
    NParts = 1
    MaxVersion = 2
INVARIANTS
    UnracedOnLast
PROPERTIES
    NeverBackwards
    EditReachesRunning
CHECK_DEADLOCK FALSE
