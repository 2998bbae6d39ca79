SPECIFICATION FairSpec
CONSTANTS
    Stars = {s1}
    Promos = {p1}
    Dailies = {}
    BotHandlers = {b1, b2}
    WebHandlers = {}
    NoCharge = none
    MaxAttempts = 2
    Outcomes = {"ok", "error"}
    Events = {"duplicate", "invalid"}
    MaxStarts = 3
    MaxCrashes = 0
INVARIANTS NothingAbandoned
PROPERTIES ChargedIsAnswered
CHECK_DEADLOCK FALSE
