SPECIFICATION Spec
CONSTANTS
    Now = 6
    PrePad = 1
    PostRolls = {1, 3, 10}
    Slack = 1
    Default = 2
    MinSec = 3
    MaxSec = 5
    SegmentMax = 9
    MaxGap = 5
    RetryOnParse = 2
INVARIANTS
    WindowReachesBack
    ClipShowsWindow
    BudgetsApart
    ClipGone
