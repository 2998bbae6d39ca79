---------------------------- MODULE MCPurchases -----------------------------
(* A small instance of Purchases: a plan that earns a referral bonus when   *)
(* it is bought at its full price, and the trial; a discount for one        *)
(* purchase, and a free code for one user.                                  *)
EXTENDS Purchases, TLC

CONSTANTS lite, trial, SALE, GIFT

MCTariff ==
    [p \in {lite, trial} |-> [stars |-> IF p = trial THEN 1 ELSE 50,
                             is_trial |-> p = trial, traffic_only |-> FALSE]]

Code(percent, plan, limit) ==
    [percent |-> percent, free_plan |-> plan, value |-> 0,
     kind |-> IF percent > 0 THEN "discount" ELSE "days", once_per_user |-> TRUE,
     global_limit |-> limit, new_only |-> FALSE, old_only |-> FALSE]

MCPromo ==
    [c \in {SALE, GIFT} |-> IF c = SALE THEN Code(30, NoPlan, 0) ELSE Code(0, trial, 1)]

Symmetric == Permutations(Users) \cup Permutations(Purchases)
=============================================================================
