----------------------------- MODULE MCAccounts -----------------------------
EXTENDS Accounts

PlanOf(d, t, n, u, o) ==
    [days |-> d, traffic |-> t, devices |-> n, unlimited |-> u, traffic_only |-> o]

\* Standard, unlimited, a traffic package, and days only (referral, admin).
MCPlans == {PlanOf(2, 2, 2, FALSE, FALSE), PlanOf(1, 0, 3, TRUE, FALSE),
            PlanOf(0, 1, 1, FALSE, TRUE), PlanOf(1, 0, 1, FALSE, FALSE)}
=============================================================================
