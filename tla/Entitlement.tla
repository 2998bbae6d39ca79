----------------------------- MODULE Entitlement -----------------------------
(***************************************************************************)
(* What the grant pipeline promises of each charge, whatever machinery     *)
(* stands behind it: an open charge may be granted within its allowance; a *)
(* closed one is granted or refunded, stays closed, and a granted one can  *)
(* only still be refunded.                                                 *)
(*                                                                         *)
(* Charges are independent, and one event of the system (a process dying)  *)
(* may move several: a step lets every charge move, or stay.               *)
(***************************************************************************)
EXTENDS Naturals

CONSTANT Charges

VARIABLES
    grants,     \* how often the charge's plan was applied
    allowance,  \* how often a further application was let loose
    status      \* what the charge's story has come to

Status == {"open", "granted", "refunded"}

Init ==
    /\ grants = [c \in Charges |-> 0]
    /\ allowance = [c \in Charges |-> 0]
    /\ status = [c \in Charges |-> "open"]

\* A charge still in the works: at most one application at a time, never
\* beyond the allowance, and it closes as granted only if it was granted.
Serve(c) ==
    /\ status[c] = "open"
    /\ grants'[c] \in {grants[c], grants[c] + 1}
    /\ allowance'[c] \in {allowance[c], allowance[c] + 1}
    /\ grants'[c] <= 1 + allowance'[c]
    /\ status'[c] = "granted" => grants'[c] >= 1

Refund(c) ==
    /\ status[c] = "granted"
    /\ status'[c] = "refunded"
    /\ grants'[c] = grants[c] /\ allowance'[c] = allowance[c]

Stay(c) ==
    /\ status'[c] = status[c]
    /\ grants'[c] = grants[c] /\ allowance'[c] = allowance[c]

Next ==
    /\ status' \in [Charges -> Status]
    /\ \A c \in Charges : Serve(c) \/ Refund(c) \/ Stay(c)

Spec == Init /\ [][Next]_<<grants, allowance, status>>
=============================================================================
