SPECIFICATION Spec
CONSTANTS
    Handlers = {h1, h2}
    Goal = 3
    LastDay = 4
    SpinDays = {3}
    MaxFaults = 1
SYMMETRY Symmetric
INVARIANTS TypeOK OneReward ProgressIsEarned
CHECK_DEADLOCK FALSE
