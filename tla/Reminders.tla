----------------------------- MODULE Reminders -----------------------------
(***************************************************************************)
(* reminder_loop of bot/main.py with due_reminders, due_expired and        *)
(* mark_reminder_sent of bot/db/repo.py, as one subscription lives through *)
(* it: the reminders before its end and the notice that it has ended.      *)
(*                                                                         *)
(* The other subscriptions are seen by the time their turn takes, by the   *)
(* pass they can make fail, and by nothing else. Time passes in ticks; a   *)
(* reminder is known by the distance from the end it is due at, the notice *)
(* of the end by 0. Every renewal begins a new expiry, and reminder_logs   *)
(* is keyed by the expiry.                                                 *)
(***************************************************************************)
EXTENDS Integers, FiniteSetsExt

CONSTANTS
    Hours,       \* REMINDER_HOURS, in ticks
    Half,        \* a reminder is due within Half ticks of its hour
    Notice,      \* EXPIRED_NOTICE_WINDOW_MIN, in ticks
    Sleep,       \* ticks between two passes
    Start,       \* ticks the first expiry is away
    Period,      \* ticks a renewal adds
    PassBudget,  \* bound: ticks a pass, or a restart, takes
    MaxExpiries, \* bound: the first expiry and the renewals
    MaxFaults    \* bound: failing sends and commits, deaths of the bot

Kinds    == Hours \cup {0}
Expiries == 1..MaxExpiries

ASSUME ConstantsAssumption ==
    /\ Hours \subseteq Nat \ {0} /\ Hours # {} /\ IsFiniteSet(Hours)
    /\ {Half, Notice, PassBudget, MaxFaults} \subseteq Nat
    /\ {Sleep, Period, Start, MaxExpiries} \subseteq Nat \ {0}
    /\ \A k \in Hours: k + Half < Start

VARIABLES
    left,     \* ticks until expire_at; negative: since
    expiry,   \* the expiry of the row, by its number
    log,      \* reminder_logs of the subscription: kind and expiry
    pc,       \* the loop: "asleep", "down", or its place in a pass
    timer,    \* ticks it still sleeps
    spent,    \* ticks the pass has taken
    todo,     \* kinds this pass has not asked for
    row,      \* what the pass has in hand: kind and expiry when it asked
    armed,    \* history: kinds whose window the expiry has still ahead of it,
              \* or had when it was set
    sent,     \* history: how often a message of a kind was sent for an expiry
    faults

loop == <<pc, timer, spent, todo, row>>
vars == <<left, expiry, log, loop, armed, sent, faults>>

\* The row that due_reminders or due_expired returns, as far as it counts.
NoRow == [kind |-> -1, expiry |-> 0]

Window(k) == IF k = 0 THEN -Notice..0 ELSE (k - Half)..(k + Half)

Passing == {"list", "send", "mark", "rest"}

TypeOK ==
    /\ left \in Int /\ expiry \in Expiries
    /\ log \subseteq Kinds \X Expiries
    /\ pc \in {"asleep", "down"} \cup Passing
    /\ timer \in 0..Sleep /\ spent \in 0..PassBudget
    /\ todo \subseteq Kinds /\ armed \subseteq Kinds
    /\ row \in {NoRow} \cup [kind: Kinds, expiry: Expiries]
    /\ (row # NoRow) <=> (pc \in {"send", "mark"})
    /\ sent \in [Kinds \X Expiries -> 0..(MaxFaults + 1)]
    /\ faults \in 0..MaxFaults

Ahead(distance) == {k \in Kinds: \A t \in Window(k): t < distance}

Init ==
    /\ left = Start /\ expiry = 1 /\ log = {} /\ armed = Ahead(Start)
    /\ pc = "asleep" /\ timer \in 0..Sleep /\ spent = 0
    /\ todo = {} /\ row = NoRow
    /\ sent = [m \in Kinds \X Expiries |-> 0] /\ faults = 0

\* No query tells one subscription that ended before its window from another.
Later(t) == IF t < -Notice THEN t ELSE t - 1

\* A tick of the clock. The loop wakes when its time has come and a pass takes
\* PassBudget ticks at most.
Tick ==
    /\ left' = Later(left)
    /\ \/ pc = "asleep" /\ timer > 0
          /\ timer' = timer - 1 /\ UNCHANGED spent
       \/ pc # "asleep" /\ spent < PassBudget
          /\ spent' = spent + 1 /\ UNCHANGED timer
    /\ UNCHANGED <<expiry, log, pc, todo, row, armed, sent, faults>>

\* A purchase, a bonus day or a gift: create_or_renew adds to what is left and
\* finalize_grant stores the new expire_at, at any moment of a pass.
Renew ==
    /\ expiry < MaxExpiries
    /\ expiry' = expiry + 1
    /\ left' = (IF left > 0 THEN left ELSE 0) + Period
    /\ armed' = Ahead(left')
    /\ UNCHANGED <<log, loop, sent, faults>>

\* The loop wakes up and opens a session.
Wake ==
    /\ pc = "asleep" /\ timer = 0
    /\ pc' = "list" /\ todo' = Kinds /\ spent' = 0
    /\ UNCHANGED <<left, expiry, log, timer, row, armed, sent, faults>>

\* Mutants: a log keyed by the kind alone; a query that does not look at it.
DueOnceEver(k) == left \in Window(k) /\ \A e \in Expiries: <<k, e>> \notin log
DueUnlogged(k) == left \in Window(k)

\* The rows due for kind k that have no log entry for their expiry.
Due(k) == left \in Window(k) /\ <<k, expiry>> \notin log

\* The kinds are asked for one after the other, the notice of the end last.
Ask ==
    /\ pc = "list" /\ todo # {}
    /\ LET k == Max(todo) IN
         /\ todo' = todo \ {k}
         /\ IF Due(k)
            THEN pc' = "send" /\ row' = [kind |-> k, expiry |-> expiry]
            ELSE UNCHANGED <<pc, row>>
    /\ UNCHANGED <<left, expiry, log, timer, spent, armed, sent, faults>>

\* The message goes out, with the expiry the row had when it was read.
Send ==
    /\ pc = "send"
    /\ pc' = "mark"
    /\ sent' = [sent EXCEPT ![<<row.kind, row.expiry>>] = @ + 1]
    /\ UNCHANGED <<left, expiry, log, timer, spent, todo, row, armed, faults>>

\* The entry is keyed by the expiry of the row that was read.
MarkReminderSent ==
    /\ pc = "mark"
    /\ pc' = "list" /\ row' = NoRow
    /\ log' = log \cup {<<row.kind, row.expiry>>}
    /\ UNCHANGED <<left, expiry, timer, spent, todo, armed, sent, faults>>

\* The traffic of all subscriptions and the offers come after the kinds.
Rest ==
    /\ pc = "list" /\ todo = {}
    /\ pc' = "rest"
    /\ UNCHANGED <<left, expiry, log, timer, spent, todo, row, armed, sent, faults>>

\* Mutant: a longer pause.
PauseLonger == Sleep + 1

\* The pause after a pass, whether it ended well or by an exception.
Pause == Sleep

EndPass ==
    /\ pc = "rest"
    /\ pc' = "asleep" /\ timer' = Pause
    /\ UNCHANGED <<left, expiry, log, spent, todo, row, armed, sent, faults>>

Fault == faults < MaxFaults /\ faults' = faults + 1

\* Telegram refuses the message: it is logged and the pass goes on.
SendFails ==
    /\ pc = "send" /\ Fault
    /\ pc' = "list" /\ row' = NoRow
    /\ UNCHANGED <<left, expiry, log, timer, spent, todo, armed, sent>>

\* A commit fails, of this subscription's entry or of another's. The rollback
\* expires what the session had loaded, so that the handler of the exception
\* raises again when it names the subscription, and the pass is over.
PassFails ==
    /\ pc \in Passing /\ Fault
    /\ pc' = "asleep" /\ timer' = Pause
    /\ todo' = {} /\ row' = NoRow
    /\ UNCHANGED <<left, expiry, log, spent, armed, sent>>

\* The bot dies; docker starts it again and the loop begins with a pass.
Crash ==
    /\ pc # "down" /\ Fault
    /\ pc' = "down" /\ timer' = 0 /\ spent' = 0 /\ todo' = {} /\ row' = NoRow
    /\ UNCHANGED <<left, expiry, log, armed, sent>>

Restart ==
    /\ pc = "down"
    /\ pc' = "asleep"
    /\ UNCHANGED <<left, expiry, log, timer, spent, todo, row, armed, sent, faults>>

Next ==
    \/ Tick \/ Renew \/ Wake \/ Ask \/ Send \/ MarkReminderSent \/ Rest \/ EndPass
    \/ SendFails \/ PassFails \/ Crash \/ Restart

Spec == Init /\ [][Next]_vars

-----------------------------------------------------------------------------
(* Properties *)

\* The sendings of a kind for an expiry, by their number, that another followed.
Again ==
    {m \in (Kinds \X Expiries) \X (1..(MaxFaults + 1)): m[2] < sent[m[1]]}

\* Every message beyond the first of its kind and expiry has a fault of its
\* own to blame: the entry in reminder_logs is made after the message is sent,
\* and only a death or a failing commit between the two repeats it.
RemindedOnce == Cardinality(Again) <= faults

\* The longest a loop that is not in a pass may stay so.
Idle == IF Sleep < PassBudget THEN PassBudget ELSE Sleep

\* Between n + 1 questions for a kind there are at most n pauses, or restarts,
\* and, before and after them, a pass each. As long as that fits into the
\* window, n of the questions may come to nothing.
Fits(n, k) == n * (Idle + PassBudget) + PassBudget <= Cardinality(Window(k))

\* No reminder and no notice of the end is missed: when the window of a kind
\* has passed for an expiry that had it ahead, the message was sent, unless
\* more questions failed than the window has room for.
NoReminderSkipped ==
    \A k \in armed:
        (\A t \in Window(k): left < t) =>
            \/ sent[<<k, expiry>>] > 0
            \/ ~Fits(faults + 1, k)
=============================================================================
