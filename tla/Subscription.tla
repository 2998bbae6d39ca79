---------------------------- MODULE Subscription ----------------------------
(***************************************************************************)
(* What a user is promised of an account, as if there were no HTTP, no     *)
(* names and no two processes: an operation is asked for, takes effect at  *)
(* once and as a whole, or is refused and changes nothing; then the local  *)
(* row follows. A plan counts from the day it was asked for, and comes on  *)
(* top of what the account has.                                            *)
(*                                                                         *)
(* It is promised as long as operations come one after the other and none  *)
(* fails in a way that hides its effect. After that nothing is said here.  *)
(***************************************************************************)
EXTENDS Naturals

CONSTANTS Plans, NoPlan

VARIABLES
    held,  \* the account
    row,   \* what is known of it locally
    call,  \* the operation asked for
    done,  \* it has taken effect, and the row is still to follow
    now,
    calm   \* it has been like that so far

Nothing == [expire |-> 0, limit |-> 0, devices |-> 0, status |-> "absent", link |-> 0]
NoCall  == [op |-> "none", plan |-> NoPlan, day |-> 0]

Known(a) == [expire |-> a.expire, limit |-> a.limit, link |-> a.link]
There    == held.status # "absent"

Init ==
    /\ row \in {Known(Nothing), Known(held)}
    /\ call = NoCall /\ done = FALSE /\ now = 0 /\ calm = TRUE

Ask ==
    /\ call = NoCall
    /\ \/ \E p \in Plans : call' = [op |-> "grant", plan |-> p, day |-> now]
       \/ \E o \in {"disable", "enable", "revoke", "delete"} :
             call' = [op |-> o, plan |-> NoPlan, day |-> now]
    /\ UNCHANGED <<held, row, done, now>>

\* Takes effect: the account becomes after, and the row will follow.
Becomes(after) ==
    /\ ~done /\ done' = TRUE
    /\ held' = after
    /\ UNCHANGED <<row, call, now>>

Greater(a, b) == IF a >= b THEN a ELSE b

\* An account with a plan more. Unlimited traffic stays.
Extended(p, day) ==
    [expire  |-> IF p.days = 0 THEN held.expire ELSE Greater(day, held.expire) + p.days,
     limit   |-> IF held.limit = 0 \/ p.unlimited THEN 0 ELSE held.limit + p.traffic,
     devices |-> IF p.traffic_only THEN held.devices ELSE Greater(p.devices, held.devices),
     status  |-> "active",
     link    |-> held.link]

First(p, day) ==
    [expire |-> day + p.days, limit |-> p.traffic, devices |-> p.devices,
     status |-> "active", link |-> 0]

\* A traffic package is for those who have an account.
Grant ==
    /\ call.op = "grant"
    /\ \/ There /\ Becomes(Extended(call.plan, call.day))
       \/ ~There /\ ~call.plan.traffic_only /\ Becomes(First(call.plan, call.day))

Revoke == call.op = "revoke" /\ There /\ Becomes([held EXCEPT !.link = @ + 1])

Delete == call.op = "delete" /\ Becomes(Nothing)

\* Disabled or enabled: the row does not tell.
Switch ==
    /\ call.op \in {"disable", "enable"} /\ There
    /\ held' = [held EXCEPT !.status = IF call.op = "enable" THEN "active" ELSE "disabled"]
    /\ call' = NoCall
    /\ UNCHANGED <<row, done, now>>

Refuse ==
    /\ call # NoCall /\ ~done
    /\ call' = NoCall
    /\ UNCHANGED <<held, row, done, now>>

Record ==
    /\ done /\ done' = FALSE
    /\ row' = Known(held)
    /\ call' = NoCall
    /\ UNCHANGED <<held, now>>

Tick == now' = now + 1 /\ UNCHANGED <<held, row, call, done>>

Operation == Ask \/ Grant \/ Revoke \/ Delete \/ Switch \/ Refuse \/ Record \/ Tick

\* Operations overlap, or something fails.
Trouble == calm' = FALSE

Next == Trouble \/ (calm /\ calm' = TRUE /\ Operation)

Spec == Init /\ [][Next]_<<held, row, call, done, now, calm>>
=============================================================================
