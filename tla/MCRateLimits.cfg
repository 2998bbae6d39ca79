SPECIFICATION FairSpec
CONSTANTS
    Workers = {w1, w2}
    Limit = 2
    Window = 2
    MaxCrashes = 1
INVARIANT QuotaHolds
PROPERTIES AskersGetThrough
