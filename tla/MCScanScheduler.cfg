SPECIFICATION ScanSpec
CONSTANTS
    Persons = {p1, p2}
    MaxRisk = 2
    Interval = 2
    Cooldowns = {4, 8}
    StaleAfter = 5
    CleanupEvery = 2
    MaxTime = 10
PROPERTIES
    CooldownKept
