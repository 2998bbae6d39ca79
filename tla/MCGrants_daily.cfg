SPECIFICATION FairSpec
CONSTANTS
    Stars = {}
    Promos = {}
    Dailies = {d1}
    BotHandlers = {b1}
    WebHandlers = {w1, w2}
    NoCharge = none
    MaxAttempts = 2
    Outcomes = {"ok", "error", "late_error", "lost", "unreachable"}
    Events = {}
    MaxStarts = 3
    MaxCrashes = 1
INVARIANTS NoUnaccountedGrant
PROPERTIES SettledIsFinal QueueDrains
CHECK_DEADLOCK FALSE
