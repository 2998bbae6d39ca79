SPECIFICATION Spec
CONSTANTS
    Stars = {s1}
    Promos = {}
    Dailies = {}
    BotHandlers = {b1}
    WebHandlers = {w1}
    NoCharge = none
    MaxAttempts = 2
    Outcomes = {"ok", "error"}
    Events = {"duplicate"}
    MaxStarts = 2
    MaxCrashes = 0
SYMMETRY Symmetric
INVARIANTS GrantedOnce
CHECK_DEADLOCK FALSE
