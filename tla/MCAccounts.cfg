SPECIFICATION Spec
CONSTANTS
    Callers = {c1, c2}
    Legacy = tg
    RandomNames = {r1, r2, r3}
    NoName = none
    Plans <- MCPlans
    Faults = {"db_error", "probe_error", "refused", "lost", "death"}
    MaxCalls = 3
    MaxFaults = 1
    MaxNow = 1
INVARIANT TypeOK NothingIsFree RowIsTrue
PROPERTY NeverWorse ServedInTurn
CHECK_DEADLOCK FALSE
