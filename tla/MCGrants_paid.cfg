SPECIFICATION Spec
CONSTANTS
    Stars = {s1}
    Promos = {}
    Dailies = {}
    BotHandlers = {b1, b2}
    WebHandlers = {w1}
    NoCharge = none
    MaxAttempts = 2
    Outcomes = {"ok", "error", "late_error", "lost", "unreachable"}
    Events = {"duplicate", "invalid", "refund", "bot_refund"}
    MaxStarts = 3
    MaxCrashes = 1
SYMMETRY Symmetric
INVARIANTS TypeOK BooksMatchPanel
PROPERTIES KeepsPromise
CHECK_DEADLOCK FALSE
