------------------------------ MODULE Accounts ------------------------------
(***************************************************************************)
(* One user's account on the Marzban panel and the local subscriptions row *)
(* that maps the user to it (bot/services/marzban.py, and the handlers     *)
(* that call it).                                                          *)
(*                                                                         *)
(* create_or_renew is a read-modify-write over HTTP without a lock: find   *)
(* the user's panel name, read the account, compute the renewed one, write *)
(* it, and only then the caller stores what it computed in the row.  Every *)
(* step awaits, so calls of the bot, the miniapp and the queue worker      *)
(* interleave with each other and with the admin's operations.             *)
(***************************************************************************)
EXTENDS Naturals, FiniteSets

CONSTANTS
    Callers,      \* concurrent calls for this user, of both processes
    Legacy,       \* _legacy_username: tg_<id>
    RandomNames,  \* what _random_username may draw
    NoName,       \* no stored mapping
    Plans,        \* the plans the callers grant
    Faults,       \* what may go wrong, see FaultNames
    MaxCalls,     \* bound: calls
    MaxFaults,    \* bound: faults
    MaxNow        \* bound: days that pass

Names == RandomNames \cup {Legacy}
Plan  == [days: Nat, traffic: Nat, devices: Nat, unlimited: BOOLEAN, traffic_only: BOOLEAN]

(***************************************************************************)
(* db_error     _stored_username swallows it and answers None              *)
(* probe_error  the probe for a legacy account fails and is swallowed      *)
(* refused      the panel call fails without effect; the call raises       *)
(* lost         the panel call took effect, its answer is lost             *)
(* death        the call ends between two steps: process death, a failing  *)
(*              commit                                                     *)
(***************************************************************************)
FaultNames == {"db_error", "probe_error", "refused", "lost", "death"}
Ops        == {"grant", "disable", "enable", "revoke", "delete"}

ASSUME ConstantsAssumption ==
    /\ Legacy \notin RandomNames /\ NoName \notin Names
    /\ IsFiniteSet(Callers) /\ IsFiniteSet(RandomNames)
    /\ Plans \subseteq Plan
    /\ Faults \subseteq FaultNames
    /\ MaxCalls \in Nat /\ MaxFaults \in Nat /\ MaxNow \in Nat

VARIABLES
    account,  \* the panel: an account per name; limit 0 is unlimited traffic
    sub,      \* the local row: marzban_username, expire_at, traffic_limit, url
    now,      \* the day
    drawn,    \* the random names drawn so far: 24 hex digits never repeat
    pc, op, plan,  \* per call: what it does next, its operation, its plan
    name,     \* the panel name it resolved
    began,    \* int(time.time()) taken when create_or_renew began
    snap,     \* the account it read
    reply,    \* what it will store in the row
    calls, faults,  \* what the bounds count
    credit,   \* history: days and traffic of all grants the panel applied
    source,   \* history: what ever made an account unlimited
    alone,    \* history: calls during which no other call was in flight
    calm      \* history: no two calls ever overlapped and nothing failed

panelvars == <<account, credit, source>>
callvars  == <<op, plan, began, name, snap, reply>>
cvars     == <<calls, faults, alone, calm>>
vars      == <<panelvars, sub, now, drawn, pc, callvars, cvars>>

Absent == [expire |-> 0, limit |-> 0, devices |-> 0, status |-> "absent", link |-> 0]
NoSub  == [name |-> NoName, expire |-> 0, limit |-> 0, link |-> 0]
NoPlan == [days |-> 0, traffic |-> 0, devices |-> 0, unlimited |-> FALSE, traffic_only |-> FALSE]

Account == [expire: Nat, limit: Nat, devices: Nat,
            status: {"absent", "active", "disabled"}, link: Nat]
Row     == [name: Names \cup {NoName}, expire: Nat, limit: Nat, link: Nat]

Present(a)   == a.status # "absent"
Unlimited(a) == Present(a) /\ a.limit = 0
RowOf(n, a)  == [name |-> n, expire |-> a.expire, limit |-> a.limit, link |-> a.link]

CallPC == {"idle", "lookup", "probe", "read", "write", "operate", "record"}

\* A user of before the random names: one day and one unit of traffic left.
LegacyAccount ==
    [expire |-> 1, limit |-> 1, devices |-> 1, status |-> "active", link |-> 0]

\* A new user, a legacy user, or a legacy account without a row.
Init ==
    /\ \/ account = [n \in Names |-> Absent] /\ sub = NoSub
       \/ /\ account = [n \in Names |-> IF n = Legacy THEN LegacyAccount ELSE Absent]
          /\ sub \in {NoSub, RowOf(Legacy, LegacyAccount)}
    /\ now = 0 /\ drawn = {}
    /\ pc = [c \in Callers |-> "idle"]
    /\ op = [c \in Callers |-> "grant"]
    /\ plan = [c \in Callers |-> NoPlan]
    /\ name = [c \in Callers |-> NoName]
    /\ began = [c \in Callers |-> 0]
    /\ snap = [c \in Callers |-> Absent]
    /\ reply = [c \in Callers |-> NoSub]
    /\ calls = 0 /\ faults = 0
    /\ credit = [days |-> 1, traffic |-> 1]
    /\ source = {}
    /\ alone = {} /\ calm = TRUE

-----------------------------------------------------------------------------
Idle(c) == pc[c] = "idle"

GoTo(c, next) == pc' = [pc EXCEPT ![c] = next]

\* A finished call leaves nothing behind in memory.
Return(c) ==
    /\ GoTo(c, "idle")
    /\ op' = [op EXCEPT ![c] = "grant"]
    /\ plan' = [plan EXCEPT ![c] = NoPlan]
    /\ began' = [began EXCEPT ![c] = 0]
    /\ name' = [name EXCEPT ![c] = NoName]
    /\ snap' = [snap EXCEPT ![c] = Absent]
    /\ reply' = [reply EXCEPT ![c] = NoSub]

\* A fault that hides something from the code ends the calm.
Fault(f) ==
    /\ f \in Faults
    /\ faults < MaxFaults
    /\ faults' = faults + 1
    /\ calm' = FALSE

\* An answered failure that changed nothing.
Refusal ==
    /\ "refused" \in Faults
    /\ faults < MaxFaults
    /\ faults' = faults + 1
    /\ UNCHANGED calm

Fine == UNCHANGED <<faults, calm>>

\* Mutant: the clock is rounded up.
StartRounded == now + 1

Start == now

\* A call for the user begins.  device_reset and security_reset_do look for
\* a row first, the other operations do not.
Begin(c, o, p) ==
    /\ Idle(c)
    /\ calls < MaxCalls
    /\ o = "revoke" => sub.name # NoName
    /\ calls' = calls + 1
    /\ GoTo(c, "lookup")
    /\ op' = [op EXCEPT ![c] = o]
    /\ plan' = [plan EXCEPT ![c] = p]
    /\ began' = [began EXCEPT ![c] = Start]
    /\ LET quiet == \A d \in Callers : Idle(d) IN
       /\ alone' = IF quiet THEN {c} ELSE {}
       /\ calm' = (calm /\ quiet)
    /\ UNCHANGED <<panelvars, sub, now, drawn, name, snap, reply, faults>>

\* _stored_username: a grant without a mapping goes on looking for a name,
\* any other operation falls back to the legacy one.
Lookup(c) ==
    /\ pc[c] = "lookup"
    /\ \E stored \in {sub.name, NoName} :
          /\ IF stored = sub.name THEN Fine ELSE Fault("db_error")
          /\ IF op[c] = "grant" /\ stored = NoName
             THEN GoTo(c, "probe") /\ UNCHANGED name
             ELSE /\ name' = [name EXCEPT ![c] =
                                 IF stored = NoName THEN Legacy ELSE stored]
                  /\ GoTo(c, IF op[c] = "grant" THEN "read" ELSE "operate")
    /\ UNCHANGED <<panelvars, sub, now, drawn, op, plan, began, snap, reply, calls, alone>>

\* _username_for_create_or_renew: the legacy account if it answers, else a
\* random name.
Probe(c) ==
    /\ pc[c] = "probe"
    /\ \/ /\ Present(account[Legacy])
          /\ name' = [name EXCEPT ![c] = Legacy]
          /\ Fine
          /\ UNCHANGED drawn
       \/ /\ IF Present(account[Legacy]) THEN Fault("probe_error") ELSE Fine
          /\ \E n \in RandomNames \ drawn :
                /\ name' = [name EXCEPT ![c] = n]
                /\ drawn' = drawn \cup {n}
    /\ GoTo(c, "read")
    /\ UNCHANGED <<panelvars, sub, now, op, plan, began, snap, reply, calls, alone>>

\* A traffic package needs an account.
Served(c) == plan[c].traffic_only => Present(account[name[c]])

\* get_user, and the refusal of what cannot be served.
Read(c) ==
    /\ pc[c] = "read"
    /\ \/ /\ Served(c)
          /\ snap' = [snap EXCEPT ![c] = account[name[c]]]
          /\ GoTo(c, "write")
          /\ Fine
          /\ UNCHANGED <<op, plan, began, name, reply>>
       \/ /\ IF Served(c) THEN Refusal ELSE Fine
          /\ Return(c)
    /\ UNCHANGED <<panelvars, sub, now, drawn, calls, alone>>

-----------------------------------------------------------------------------
(* What create_or_renew computes.                                          *)

Later(a, b) == IF a >= b THEN a ELSE b

\* Mutant: an added period is rounded up to the end of the day.
RenewedExpireRounded(old, p, start) ==
    IF p.days = 0 THEN old.expire ELSE Later(start, old.expire) + p.days + 1

\* Mutant: the period counts from now only.
RenewedExpireFromNow(old, p, start) ==
    IF p.days = 0 THEN old.expire ELSE start + p.days

RenewedExpire(old, p, start) ==
    IF p.days = 0 THEN old.expire ELSE Later(start, old.expire) + p.days

\* Mutant: a plan with a limit ends unlimited traffic.
RenewedLimitAnew(old, p) == IF p.unlimited THEN 0 ELSE old.limit + p.traffic

\* 0 is unlimited: bought or kept, it is never taken away.
RenewedLimit(old, p) ==
    IF old.limit = 0 \/ p.unlimited THEN 0 ELSE old.limit + p.traffic

\* The PUT: the computed fields over whatever the account holds by now.  A
\* traffic package leaves the note with the device limit alone.
Renewed(c, a) ==
    [expire  |-> RenewedExpire(snap[c], plan[c], began[c]),
     limit   |-> RenewedLimit(snap[c], plan[c]),
     devices |-> IF plan[c].traffic_only THEN a.devices
                 ELSE Later(plan[c].devices, snap[c].devices),
     status  |-> "active",
     link    |-> a.link]

\* The POST: whatever a plan without traffic means elsewhere, data_limit 0
\* makes the new account unlimited.
Created(c) ==
    [expire  |-> began[c] + plan[c].days,
     limit   |-> plan[c].traffic,
     devices |-> plan[c].devices,
     status  |-> "active",
     link    |-> 0]

Written(c) ==
    IF Present(snap[c]) THEN Renewed(c, account[name[c]]) ELSE Created(c)

\* The panel answers 404 to a PUT, 409 to a POST, when the account was
\* deleted or created since it was read.
Accepted(c) == Present(account[name[c]]) = Present(snap[c])

\* The call has its answer and goes on to store row.
Keep(c, row) ==
    /\ reply' = [reply EXCEPT ![c] = row]
    /\ GoTo(c, "record")
    /\ UNCHANGED <<op, plan, began, name, snap>>

\* create_or_renew's result: what was computed, and the link of the answer.
Reply(c) == RowOf(name[c], Written(c))

SourceOf(c) ==
    IF Present(snap[c])
    THEN IF plan[c].unlimited THEN {"plan"} ELSE {}
    ELSE IF plan[c].traffic > 0 THEN {}
         ELSE IF plan[c].unlimited THEN {"plan"} ELSE {"bare"}

Write(c) ==
    /\ pc[c] = "write"
    /\ \/ /\ Accepted(c)
          /\ account' = [account EXCEPT ![name[c]] = Written(c)]
          /\ credit' = [days    |-> credit.days + plan[c].days,
                        traffic |-> credit.traffic + plan[c].traffic]
          /\ source' = source \cup SourceOf(c)
          /\ \/ Keep(c, Reply(c)) /\ Fine
             \/ Return(c) /\ Fault("lost")
       \/ /\ IF Accepted(c) THEN Refusal ELSE Fine
          /\ Return(c)
          /\ UNCHANGED panelvars
    /\ UNCHANGED <<sub, now, drawn, calls, alone>>

-----------------------------------------------------------------------------
(* set_status, revoke_sub and delete_user: one panel call, and for the two *)
(* latter a change of the row.                                             *)

Operated(o, a) ==
    CASE o = "disable" -> [a EXCEPT !.status = "disabled"]
      [] o = "enable"  -> [a EXCEPT !.status = "active"]
      [] o = "revoke"  -> [a EXCEPT !.link = @ + 1]
      [] o = "delete"  -> Absent

\* An account that is gone answers 404: an error, but delete counts it done.
Operate(c) ==
    /\ pc[c] = "operate"
    /\ LET a     == account[name[c]]
           after == IF Present(a) THEN Operated(op[c], a) ELSE a IN
       \/ /\ account' = [account EXCEPT ![name[c]] = after]
          /\ \/ /\ IF op[c] = "delete" \/ (op[c] = "revoke" /\ Present(a))
                   THEN Keep(c, RowOf(name[c], after)) ELSE Return(c)
                /\ Fine
             \/ Return(c) /\ Fault("lost")
       \/ Return(c) /\ Refusal /\ UNCHANGED account
    /\ UNCHANGED <<credit, source, sub, now, drawn, calls, alone>>

\* Mutant: the row of a deleted account is left behind.
StoredKept(o, row, r) ==
    CASE o = "grant"  -> r
      [] o = "revoke" -> IF row.name = NoName THEN row ELSE [row EXCEPT !.link = r.link]
      [] o = "delete" -> row

\* finalize_grant / upsert_subscription, the resets' update of the link, and
\* user_delete's removal of the row.
Stored(o, row, r) ==
    CASE o = "grant"  -> r
      [] o = "revoke" -> IF row.name = NoName THEN row ELSE [row EXCEPT !.link = r.link]
      [] o = "delete" -> NoSub

Record(c) ==
    /\ pc[c] = "record"
    /\ sub' = Stored(op[c], sub, reply[c])
    /\ Return(c)
    /\ Fine
    /\ UNCHANGED <<panelvars, now, drawn, calls, alone>>

Die(c) ==
    /\ ~Idle(c)
    /\ Fault("death")
    /\ Return(c)
    /\ UNCHANGED <<panelvars, sub, now, drawn, calls, alone>>

Tick ==
    /\ now < MaxNow
    /\ now' = now + 1
    /\ UNCHANGED <<panelvars, sub, drawn, pc, callvars, cvars>>

Next ==
    \/ \E c \in Callers :
          \/ \E p \in Plans : Begin(c, "grant", p)
          \/ \E o \in Ops \ {"grant"} : Begin(c, o, NoPlan)
          \/ Lookup(c) \/ Probe(c) \/ Read(c) \/ Write(c)
          \/ Operate(c) \/ Record(c) \/ Die(c)
    \/ Tick

Spec == Init /\ [][Next]_vars

-----------------------------------------------------------------------------
\* Every variable holds an account, a row, a plan or a program position.
TypeOK ==
    /\ account \in [Names -> Account]
    /\ sub \in Row
    /\ now \in 0..MaxNow
    /\ drawn \subseteq RandomNames
    /\ pc \in [Callers -> CallPC]
    /\ op \in [Callers -> Ops]
    /\ plan \in [Callers -> Plans \cup {NoPlan}]
    /\ name \in [Callers -> Names \cup {NoName}]
    /\ began \in [Callers -> 0..MaxNow]
    /\ snap \in [Callers -> Account]
    /\ reply \in [Callers -> Row]
    /\ calls \in 0..MaxCalls /\ faults \in 0..MaxFaults
    /\ credit \in [days: Nat, traffic: Nat]
    /\ source \subseteq {"plan", "bare"}
    /\ alone \subseteq Callers
    /\ calm \in BOOLEAN

\* No interleaving, stale snapshot or lost answer gives anything away: whatever
\* was read and written when, an account runs at most as long as all applied
\* grants together paid for, its limit is at most what they granted in all, and
\* it is unlimited only since an unlimited plan, or a grant of days alone that
\* had to create the account.
NothingIsFree ==
    \A n \in Names :
        /\ account[n].expire <= now + credit.days
        /\ account[n].limit <= credit.traffic
        /\ Unlimited(account[n]) => source # {}

\* While calls come one after the other and nothing fails, a user has one
\* account and the row names it and knows its expiry, limit and link. And
\* whatever went wrong before, what a call that ran alone is about to store is
\* what the panel holds: the next undisturbed call repairs the row.
RowIsTrue ==
    /\ calm /\ (\A c \in Callers : Idle(c)) =>
          /\ Cardinality({n \in Names : Present(account[n])}) <= 1
          /\ sub.name # NoName =>
                Present(account[sub.name]) /\ sub = RowOf(sub.name, account[sub.name])
    /\ \A c \in alone :
          pc[c] = "record" /\ op[c] \in {"grant", "revoke"} =>
              reply[c] = RowOf(name[c], account[name[c]])

AtLeast(new, old) ==
    /\ new.expire >= old.expire
    /\ new.limit = 0 \/ (old.limit # 0 /\ new.limit >= old.limit)
    /\ new.devices >= old.devices

\* The comment in create_or_renew that a purchase must not worsen what the
\* user has: no call that ran alone shortens an account, lowers its limits or
\* takes unlimited traffic away, also not after calls that overlapped.
NeverWorse ==
    [][\A n \in Names :
          Present(account[n]) /\ Present(account'[n])
                              /\ (\E c \in alone : pc[c] # pc'[c])
              => AtLeast(account'[n], account[n])]_vars

-----------------------------------------------------------------------------
(* What it amounts to.                                                     *)

\* The account of the user, while there is one at most.
Held ==
    IF \E n \in Names : Present(account[n])
    THEN account[CHOOSE n \in Names : Present(account[n])]
    ELSE Absent

\* The operation under way, while there is one at most.
InHand ==
    IF \A c \in Callers : Idle(c)
    THEN [op |-> "none", plan |-> NoPlan, day |-> 0]
    ELSE LET c == CHOOSE c \in Callers : ~Idle(c) IN
         [op |-> op[c], plan |-> plan[c], day |-> began[c]]

Service == INSTANCE Subscription
    WITH held <- Held, call <- InHand,
         row  <- [expire |-> sub.expire, limit |-> sub.limit, link |-> sub.link],
         done <- \E c \in Callers : pc[c] = "record"

\* Called one after the other, and as long as nothing hides what it has done,
\* the client is the service that Subscription describes: whatever its names,
\* snapshots and requests, every operation has its effect at once, on the one
\* account there is, and the row follows before the next is asked for.
ServedInTurn == Service!Spec
=============================================================================
