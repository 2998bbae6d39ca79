SPECIFICATION Spec
CONSTANTS
    Users = {u1}
    Admins = {a1}
    Tickets = {t1, t2}
    BotTasks = {b1, b2}
    WebTasks = {w1}
    Nobody = nobody
    MaxInputs = 3
    MaxCrashes = 1
SYMMETRY Symmetric
INVARIANTS TypeOK AcknowledgedIsStored ReplyAsAimed StatusFollowsThread BroadcastOnce
CHECK_DEADLOCK FALSE
