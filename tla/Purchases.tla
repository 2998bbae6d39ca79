----------------------------- MODULE Purchases ------------------------------
(***************************************************************************)
(* Who may have what at which price: discount codes, free codes, trials    *)
(* and referral bonuses, from the code or invoice to the reward            *)
(* (bot/handlers/payments.py, start.py, bot/services/promos.py, payments.py*)
(* and POST /api/promo, /api/invoice-link of bot/web/main.py).             *)
(*                                                                         *)
(* Each of these rights is checked in one place and used up in another: an *)
(* invoice is validated when it is made, again when Telegram asks before   *)
(* taking the Stars, again when they are taken, and its code is marked     *)
(* used only after the panel granted the plan.  Handlers of all users run  *)
(* between those steps, and an admin edits tariffs and codes.              *)
(*                                                                         *)
(* A charge has one handler here, at the bot, the miniapp or the grant     *)
(* queue; what several handlers of one charge do to each other, and how    *)
(* often the panel applies its plan, is the subject of Grants.             *)
(***************************************************************************)
EXTENDS Naturals, FiniteSets

CONSTANTS
    Users, Referrers,  \* customers, and the telegram ids of invitation links
    Purchases,         \* Stars payments
    Plans, Tariff,     \* the tariffs and what never changes of them
    Codes, Promo,      \* the promo codes and their definitions
    WheelCode,         \* GAMI_WHEEL_PROMO_CODE
    NoUser, NoPlan, NoCode,
    Prices,            \* the prices an admin may set
    MinPaymentStars,   \* REFERRAL_MIN_PAYMENT_STARS
    MaxPerDay,         \* REFERRAL_MAX_PER_DAY
    Doors,             \* where free codes are entered, see DoorNames
    MaxCharges,        \* bound: charges
    MaxEvents,         \* bound: edits, wheel prizes, expiries, days
    MaxFaults          \* bound: refused panel calls and dead handlers

\* A code that is redeemed at once; the others discount the next invoice.
IsFree(c) == Promo[c].free_plan # NoPlan \/ Promo[c].kind # "discount"

FreeCodes == {c \in Codes : IsFree(c)}
Gifts     == Users \X FreeCodes   \* charges PROMO-<code>-<user>
Charges   == Purchases \cup Gifts
DoorNames == {"bot", "web"}

PromoCode == [percent: 0..99, free_plan: Plans \cup {NoPlan}, value: Nat,
              kind: {"discount", "days", "traffic", "trial"},
              once_per_user: BOOLEAN, global_limit: Nat,
              new_only: BOOLEAN, old_only: BOOLEAN]

ASSUME ConstantsAssumption ==
    /\ IsFiniteSet(Users) /\ IsFiniteSet(Codes) /\ IsFiniteSet(Purchases)
    /\ Purchases \cap Gifts = {}
    /\ NoUser \notin Users \cup Referrers /\ NoPlan \notin Plans /\ NoCode \notin Codes
    /\ Tariff \in [Plans -> [stars: Nat, is_trial: BOOLEAN, traffic_only: BOOLEAN]]
    /\ Promo \in [Codes -> PromoCode]
    /\ WheelCode \in Codes \ FreeCodes
    /\ Prices \subseteq Nat
    /\ MinPaymentStars \in Nat /\ MaxPerDay \in Nat
    /\ Doors \subseteq DoorNames
    /\ MaxCharges \in Nat /\ MaxEvents \in Nat /\ MaxFaults \in Nat

VARIABLES
    price, visible,   \* tariff_settings: stars, visible
    enabled,          \* promo codes that are not disabled
    uses,             \* promo_uses: <<user, code>>
    active,           \* users.active_promo_code
    trialUsed,        \* users.trial_used
    subscribed,       \* users whose subscriptions row has not expired
    referredBy,       \* users.referred_by
    rewarded,         \* users.referral_rewarded
    fresh,            \* users created within a day
    bill,             \* per charge: user, plan, code and Stars of its invoice
    payment,          \* payments.status, "none" before the insert
    pc,               \* what happens next with the charge
    door,             \* where the charge comes from: the bot or the miniapp
    retried,          \* charges the queue worker has taken over
    verdict,          \* purchases whose reward was read to be below the cap
    bonused,          \* history: purchases that let a referral bonus go
    sharedCode,       \* history: purchases accepted while another with their
                      \* user and code was accepted and not marked
    sharedTrial,      \* history: charges accepted while another trial of the
                      \* user was accepted and not finalized
    sharedReward,     \* history: purchases whose reward was read while
                      \* another for the same referrer was not marked
    dead,             \* history: accepted charges whose handler died
    events, faults    \* what the bounds count

shop    == <<price, visible, enabled>>
people  == <<subscribed, referredBy, rewarded, fresh>>
rights  == <<uses, active, trialUsed>>
charges == <<bill, payment, pc, door, retried>>
rewards == <<verdict, bonused, sharedReward>>
shared  == <<sharedCode, sharedTrial>>
vars    == <<shop, people, rights, charges, rewards, shared, dead, events, faults>>

NoBill == [user |-> NoUser, plan |-> NoPlan, code |-> NoCode, amount |-> 0]
Bill   == [user: Users \cup {NoUser}, plan: Plans \cup {NoPlan},
           code: Codes \cup {NoCode}, amount: Nat]

PaymentStatus == {"none", "pending", "success", "marzban_error", "validation_error"}
ChargePC == {"none", "invoice", "approved", "paid", "reserve", "accept", "call",
             "finalize", "mark", "queued", "reward", "reward_mark", "bonus", "end"}

Init ==
    /\ price = [p \in Plans |-> Tariff[p].stars] /\ visible = Plans /\ enabled = Codes
    /\ uses = {} /\ trialUsed = {}
    /\ active = [u \in Users |-> NoCode]
    /\ subscribed = {} /\ rewarded = {}
    /\ referredBy = [u \in Users |-> NoUser]
    /\ fresh = Users
    /\ bill = [ch \in Charges |-> NoBill]
    /\ payment = [ch \in Charges |-> "none"]
    /\ pc = [ch \in Charges |-> "none"]
    /\ door = [ch \in Charges |-> "bot"] /\ retried = {}
    /\ verdict = {} /\ bonused = {}
    /\ sharedCode = {} /\ sharedTrial = {} /\ sharedReward = {}
    /\ dead = {}
    /\ events = 0 /\ faults = 0

-----------------------------------------------------------------------------
(* Codes, plans and prices.                                                *)

Discounts(c) == c # NoCode /\ Promo[c].percent > 0

\* promo_to_plan: a code without a plan or a value grants nothing.
HasPlan(c) == Promo[c].free_plan # NoPlan \/ Promo[c].value > 0

GiftIsTrial(c) ==
    IF Promo[c].free_plan # NoPlan THEN Tariff[Promo[c].free_plan].is_trial
    ELSE Promo[c].kind = "trial"

GiftIsTraffic(c) ==
    IF Promo[c].free_plan # NoPlan THEN Tariff[Promo[c].free_plan].traffic_only
    ELSE Promo[c].kind = "traffic"

IsTrial(ch) ==
    IF ch \in Gifts THEN GiftIsTrial(bill[ch].code)
    ELSE bill[ch].plan # NoPlan /\ Tariff[bill[ch].plan].is_trial

IsTraffic(ch) ==
    IF ch \in Gifts THEN GiftIsTraffic(bill[ch].code)
    ELSE bill[ch].plan # NoPlan /\ Tariff[bill[ch].plan].traffic_only

\* round() of a half goes to the even neighbour.
Round(n, d) ==
    LET q == n \div d
        r == 2 * (n % d)
    IN  IF r > d \/ (r = d /\ q % 2 = 1) THEN q + 1 ELSE q

Discounted(stars, percent) ==
    LET reduced == Round(stars * (100 - percent), 100)
    IN  IF reduced < 1 THEN 1 ELSE reduced

\* Mutant: the percentage is taken for Stars.
QuoteInStars(p, c) ==
    IF Discounts(c) THEN price[p] - Promo[c].percent ELSE price[p]

\* price_with_promo
Quote(p, c) ==
    IF Discounts(c) THEN Discounted(price[p], Promo[c].percent) ELSE price[p]

UsersOf(c) == {u \in Users : <<u, c>> \in uses}

HasPaid(u) == \E ch \in Charges : payment[ch] = "success" /\ bill[ch].user = u

\* Mutant: a code that was used before is not refused.
ValidReused(u, c) ==
    /\ c \in enabled
    /\ Promo[c].global_limit > 0 => Cardinality(UsersOf(c)) < Promo[c].global_limit
    /\ Promo[c].new_only => ~HasPaid(u)
    /\ Promo[c].old_only => HasPaid(u)
    /\ Promo[c].kind = "trial" => u \notin trialUsed
    /\ Promo[c].kind = "traffic" => u \in subscribed

\* get_promo and validate_promo_for_user
Valid(u, c) ==
    /\ c \in enabled
    /\ Promo[c].once_per_user => <<u, c>> \notin uses
    /\ Promo[c].global_limit > 0 => Cardinality(UsersOf(c)) < Promo[c].global_limit
    /\ Promo[c].new_only => ~HasPaid(u)
    /\ Promo[c].old_only => HasPaid(u)
    /\ Promo[c].kind = "trial" => u \notin trialUsed
    /\ Promo[c].kind = "traffic" => u \in subscribed

\* _validate_plan_for_user without its code
PlanAllowed(u, trial, traffic) ==
    /\ trial => u \notin trialUsed
    /\ traffic => u \in subscribed

\* _validate_plan_for_user
PurchaseAllowed(b) ==
    /\ PlanAllowed(b.user, Tariff[b.plan].is_trial, Tariff[b.plan].traffic_only)
    /\ b.code # NoCode => (Discounts(b.code) \/ IsFree(b.code)) /\ Valid(b.user, b.code)

-----------------------------------------------------------------------------
Move(ch, next) == pc' = [pc EXCEPT ![ch] = next]

\* A charge comes into being.
New(ch) ==
    /\ pc[ch] = "none"
    /\ Cardinality({d \in Charges : pc[d] # "none"}) < MaxCharges

Event == events < MaxEvents /\ events' = events + 1 /\ UNCHANGED faults

Fault == faults < MaxFaults /\ faults' = faults + 1 /\ UNCHANGED events

Quiet == UNCHANGED <<events, faults>>

\* Accepted charges that have not used up their code, or trial: a handler is
\* at work on them, or died over them.
CodeOpen(ch)  == pc[ch] \in {"call", "finalize", "mark", "queued"} \/ ch \in dead
TrialOpen(ch) == pc[ch] \in {"call", "finalize", "queued"} \/ ch \in dead

SameCode(b, d) == b.code # NoCode /\ bill[d].user = b.user /\ bill[d].code = b.code

\* add_payment of an accepted charge.
Accept(ch, b) ==
    /\ payment' = [payment EXCEPT ![ch] = "pending"]
    /\ Move(ch, "call")
    /\ sharedCode' = IF \E d \in Purchases \ {ch} : CodeOpen(d) /\ SameCode(b, d)
                     THEN sharedCode \cup {ch} ELSE sharedCode
    /\ sharedTrial' = IF \E d \in Charges \ {ch} :
                            TrialOpen(d) /\ bill[d].user = b.user /\ IsTrial(d)
                      THEN sharedTrial \cup {ch} ELSE sharedTrial

Refuse(ch, status) ==
    /\ payment' = [payment EXCEPT ![ch] = status]
    /\ Move(ch, "end")
    /\ UNCHANGED shared

-----------------------------------------------------------------------------
(* What happens around the charges.                                        *)

\* PUT /api/admin/tariffs, /promo_disable, /promo_create of a known code.
EditPrice(p, stars) ==
    /\ Event
    /\ price' = [price EXCEPT ![p] = stars]
    /\ UNCHANGED <<visible, enabled, people, rights, charges, rewards, shared, dead>>

EditVisible(p) ==
    /\ Event
    /\ visible' = IF p \in visible THEN visible \ {p} ELSE visible \cup {p}
    /\ UNCHANGED <<price, enabled, people, rights, charges, rewards, shared, dead>>

EditCode(c) ==
    /\ Event
    /\ enabled' = IF c \in enabled THEN enabled \ {c} ELSE enabled \cup {c}
    /\ UNCHANGED <<price, visible, people, rights, charges, rewards, shared, dead>>

\* spin_wheel: the prize replaces whatever discount was active.
WinDiscount(u) ==
    /\ Event
    /\ active' = [active EXCEPT ![u] = WheelCode]
    /\ UNCHANGED <<shop, people, uses, trialUsed, charges, rewards, shared, dead>>

Expire(u) ==
    /\ u \in subscribed
    /\ Event
    /\ subscribed' = subscribed \ {u}
    /\ UNCHANGED <<shop, referredBy, rewarded, fresh, rights, charges, rewards, shared, dead>>

\* Nobody's created_at is within the last day any more.
DayPasses ==
    /\ fresh # {}
    /\ Event
    /\ fresh' = {}
    /\ UNCHANGED <<shop, subscribed, referredBy, rewarded, rights, charges, rewards, shared, dead>>

\* cmd_start_ref, ensure_user: the first foreign link counts, for good.
StartByLink(u, r) ==
    /\ r # u
    /\ referredBy[u] = NoUser
    /\ referredBy' = [referredBy EXCEPT ![u] = r]
    /\ Quiet
    /\ UNCHANGED <<shop, subscribed, rewarded, fresh, rights, charges, rewards, shared, dead>>

-----------------------------------------------------------------------------
(* Discount codes and invoices.                                            *)

\* _apply_promo and POST /api/promo of a code that is not free.
ApplyDiscount(u, c) ==
    /\ Valid(u, c)
    /\ active' = [active EXCEPT ![u] = c]
    /\ Quiet
    /\ UNCHANGED <<shop, people, uses, trialUsed, charges, rewards, shared, dead>>

\* The code an invoice carries: the active one if it is valid and a discount.
CodeFor(u) ==
    IF active[u] # NoCode /\ Valid(u, active[u]) /\ Discounts(active[u])
    THEN active[u] ELSE NoCode

\* send_invoice and create_invoice_link: an active code that became invalid,
\* but is not disabled, is dropped.
Invoice(ch, u, p) ==
    /\ New(ch)
    /\ p \in visible
    /\ PlanAllowed(u, Tariff[p].is_trial, Tariff[p].traffic_only)
    /\ bill' = [bill EXCEPT ![ch] = [user |-> u, plan |-> p, code |-> CodeFor(u),
                                     amount |-> Quote(p, CodeFor(u))]]
    /\ active' = IF active[u] \in enabled /\ ~Valid(u, active[u])
                 THEN [active EXCEPT ![u] = NoCode] ELSE active
    /\ Move(ch, "invoice")
    /\ Quiet
    /\ UNCHANGED <<shop, people, uses, trialUsed, payment, door, retried, rewards, shared, dead>>

\* What pre_checkout checks before Telegram takes the Stars.
Approved(b) ==
    /\ b.plan \in visible
    /\ PurchaseAllowed(b)
    /\ b.amount = Quote(b.plan, b.code)

PreCheckout(ch) ==
    /\ pc[ch] = "invoice"
    /\ Approved(bill[ch])
    /\ Move(ch, "approved")
    /\ Quiet
    /\ UNCHANGED <<shop, people, rights, bill, payment, door, retried, rewards, shared, dead>>

\* Telegram takes the Stars, or the user leaves it at that.
TakeStars(ch) ==
    /\ pc[ch] = "approved"
    /\ Move(ch, "paid")
    /\ Quiet
    /\ UNCHANGED <<shop, people, rights, bill, payment, door, retried, rewards, shared, dead>>

\* on_successful_payment and _grant_subscription up to the panel call: the
\* plan and the code are validated once more, the price is not.
OnSuccessfulPayment(ch) ==
    /\ pc[ch] = "paid"
    /\ IF PurchaseAllowed(bill[ch]) THEN Accept(ch, bill[ch])
       ELSE Refuse(ch, "validation_error")
    /\ Quiet
    /\ UNCHANGED <<shop, people, rights, bill, door, retried, rewards, dead>>

-----------------------------------------------------------------------------
(* Free codes.                                                             *)

GiftBill(u, c) == [user |-> u, plan |-> NoPlan, code |-> c, amount |-> 0]

\* _apply_promo: validation, in a session of its own.
BotPromo(u, c) ==
    /\ "bot" \in Doors
    /\ New(<<u, c>>)
    /\ HasPlan(c)
    /\ Valid(u, c)
    /\ bill' = [bill EXCEPT ![<<u, c>>] = GiftBill(u, c)]
    /\ door' = [door EXCEPT ![<<u, c>>] = "bot"]
    /\ Move(<<u, c>>, "reserve")
    /\ Quiet
    /\ UNCHANGED <<shop, people, rights, payment, retried, rewards, shared, dead>>

\* Mutant: the reservation relies on the validation before it.
ReservableUnchecked(u, c) == <<u, c>> \notin uses

\* reserve_promo_for_user validates again under the code's advisory lock; the
\* insert fails if the pair has a row.
Reservable(u, c) == Valid(u, c) /\ <<u, c>> \notin uses

ReservePromo(u, c) ==
    /\ pc[<<u, c>>] = "reserve"
    /\ IF Reservable(u, c)
       THEN /\ uses' = uses \cup {<<u, c>>}
            /\ Move(<<u, c>>, "accept")
       ELSE /\ Move(<<u, c>>, "none")
            /\ UNCHANGED uses
    /\ Quiet
    /\ UNCHANGED <<shop, people, active, trialUsed, bill, payment, door, retried,
                   rewards, shared, dead>>

\* _grant_subscription of a reserved code: a plan that is refused now has
\* used up the code and leaves no payment.
GrantReserved(u, c) ==
    /\ pc[<<u, c>>] = "accept"
    /\ IF PlanAllowed(u, GiftIsTrial(c), GiftIsTraffic(c))
       THEN Accept(<<u, c>>, bill[<<u, c>>])
       ELSE Refuse(<<u, c>>, "none")
    /\ Quiet
    /\ UNCHANGED <<shop, people, rights, bill, door, retried, rewards, dead>>

\* POST /api/promo: validated only, and marked after the grant.
WebPromo(u, c) ==
    /\ "web" \in Doors
    /\ New(<<u, c>>)
    /\ HasPlan(c)
    /\ Valid(u, c)
    /\ bill' = [bill EXCEPT ![<<u, c>>] = GiftBill(u, c)]
    /\ door' = [door EXCEPT ![<<u, c>>] = "web"]
    /\ Accept(<<u, c>>, GiftBill(u, c))
    /\ Quiet
    /\ UNCHANGED <<shop, people, rights, retried, rewards, dead>>

-----------------------------------------------------------------------------
(* From the panel call to the reward.                                      *)

\* create_or_renew succeeds, or a MarzbanError queues the grant.
CallMarzban(ch) ==
    /\ pc[ch] = "call"
    /\ \/ /\ Move(ch, "finalize")
          /\ Quiet
          /\ UNCHANGED payment
       \/ /\ payment' = [payment EXCEPT ![ch] = "marzban_error"]
          /\ Move(ch, "queued")
          /\ Fault
    /\ UNCHANGED <<shop, people, rights, bill, door, retried, rewards, shared, dead>>

\* The worker handles one row at a time.
QueueTakes(ch) ==
    /\ pc[ch] = "queued"
    /\ \A d \in retried : pc[d] \notin {"call", "finalize", "mark"}
    /\ retried' = retried \cup {ch}
    /\ Move(ch, "call")
    /\ Quiet
    /\ UNCHANGED <<shop, people, rights, bill, payment, door, rewards, shared, dead>>

\* Whose grant clears the active code: one that carried a code, and every
\* free code of the miniapp; it need not be the code that is cleared.
Clears(ch) == door[ch] = "web" \/ bill[ch].code # NoCode

\* A code reserved by the bot is not marked again, except by the worker.
Marks(ch) ==
    /\ bill[ch].code # NoCode
    /\ ch \in Gifts => door[ch] # "bot" \/ ch \in retried

\* Only a purchase of the bot's own handler is looked at for a reward.
Rewards(ch) ==
    ch \in Purchases \ retried /\ bill[ch].amount >= MinPaymentStars

AfterGrant(ch) == IF Rewards(ch) THEN "reward" ELSE "end"

TrialUsedBy(ch) == IF IsTrial(ch) THEN {bill[ch].user} ELSE {}

\* Mutant: the payment's status is not part of the commit.
GrantedStatusKept(ch) == payment[ch]

GrantedStatus(ch) == "success"

\* finalize_grant: one commit.  A traffic package does not prolong anything.
Finalize(ch) ==
    /\ pc[ch] = "finalize"
    /\ LET u == bill[ch].user IN
       /\ payment' = [payment EXCEPT ![ch] = GrantedStatus(ch)]
       /\ subscribed' = IF IsTraffic(ch) THEN subscribed ELSE subscribed \cup {u}
       /\ trialUsed' = trialUsed \cup TrialUsedBy(ch)
       /\ active' = IF Clears(ch) THEN [active EXCEPT ![u] = NoCode] ELSE active
    /\ Move(ch, IF Marks(ch) THEN "mark" ELSE AfterGrant(ch))
    /\ Quiet
    /\ UNCHANGED <<shop, referredBy, rewarded, fresh, uses, bill, door, retried,
                   rewards, shared, dead>>

UseOf(ch) == {<<bill[ch].user, bill[ch].code>>}

\* mark_promo_used: a row that is there already is left alone.
MarkPromoUsed(ch) ==
    /\ pc[ch] = "mark"
    /\ uses' = uses \cup UseOf(ch)
    /\ Move(ch, AfterGrant(ch))
    /\ Quiet
    /\ UNCHANGED <<shop, people, active, trialUsed, bill, payment, door, retried,
                   rewards, shared, dead>>

\* reward_referral_once counts the friends that joined within a day and are
\* marked, whenever they were marked.
RecentlyRewarded(r) ==
    {f \in Users : referredBy[f] = r /\ f \in rewarded /\ f \in fresh}

\* Mutant: one bonus too many.
BelowCapOff(r) == Cardinality(RecentlyRewarded(r)) <= MaxPerDay

BelowCap(r) == Cardinality(RecentlyRewarded(r)) < MaxPerDay

ReferrerOf(ch) == referredBy[bill[ch].user]

\* Mutant: referral_rewarded is not looked at.
RewardDueAgain(ch) == ReferrerOf(ch) # NoUser

RewardDue(ch) == ReferrerOf(ch) # NoUser /\ bill[ch].user \notin rewarded

\* What reward_referral_once reads ...
ReadReward(ch) ==
    /\ pc[ch] = "reward"
    /\ IF RewardDue(ch)
       THEN /\ verdict' = IF BelowCap(ReferrerOf(ch)) THEN verdict \cup {ch} ELSE verdict
            /\ sharedReward' =
                  IF \E d \in Purchases :
                        pc[d] = "reward_mark" /\ ReferrerOf(d) = ReferrerOf(ch)
                  THEN sharedReward \cup {ch} ELSE sharedReward
            /\ Move(ch, "reward_mark")
       ELSE /\ Move(ch, "end")
            /\ UNCHANGED <<verdict, sharedReward>>
    /\ Quiet
    /\ UNCHANGED <<shop, people, rights, bill, payment, door, retried, bonused, shared, dead>>

\* ... and what it commits before anything is granted.
MarkReward(ch) ==
    /\ pc[ch] = "reward_mark"
    /\ rewarded' = rewarded \cup {bill[ch].user}
    /\ IF ch \in verdict
       THEN bonused' = bonused \cup {ch} /\ Move(ch, "bonus")
       ELSE Move(ch, "end") /\ UNCHANGED bonused
    /\ Quiet
    /\ UNCHANGED <<shop, subscribed, referredBy, fresh, rights, bill, payment, door, retried,
                   verdict, sharedReward, shared, dead>>

\* The bonus is granted and stored, or lost with an exception of any kind.
GrantBonus(ch) ==
    /\ pc[ch] = "bonus"
    /\ \/ /\ subscribed' = subscribed \cup ({ReferrerOf(ch)} \cap Users)
          /\ Quiet
       \/ /\ Fault
          /\ UNCHANGED subscribed
    /\ Move(ch, "end")
    /\ UNCHANGED <<shop, referredBy, rewarded, fresh, rights, bill, payment, door, retried,
                   rewards, shared, dead>>

\* The process dies, or an exception that is not caught: a row the worker was
\* at work on is taken again, a code not yet reserved may be entered again,
\* anything else is left as it is.
AfterDeath(ch) ==
    IF ch \in retried THEN "queued"
    ELSE IF pc[ch] = "reserve" THEN "none" ELSE "end"

Die(ch) ==
    /\ pc[ch] \notin {"none", "invoice", "approved", "queued", "end"}
    /\ Fault
    /\ Move(ch, AfterDeath(ch))
    /\ dead' = IF ch \notin retried /\ pc[ch] \in {"call", "finalize", "mark"}
               THEN dead \cup {ch} ELSE dead
    /\ UNCHANGED <<shop, people, rights, bill, payment, door, retried, rewards, shared>>

-----------------------------------------------------------------------------
Surroundings ==
    \/ \E p \in Plans : EditVisible(p) \/ \E stars \in Prices : EditPrice(p, stars)
    \/ \E c \in Codes : EditCode(c)
    \/ \E u \in Users : WinDiscount(u) \/ Expire(u) \/ \E r \in Referrers : StartByLink(u, r)
    \/ DayPasses

Purchase(ch) ==
    \/ \E u \in Users, p \in Plans : Invoice(ch, u, p)
    \/ PreCheckout(ch) \/ TakeStars(ch) \/ OnSuccessfulPayment(ch)
    \/ ReadReward(ch) \/ MarkReward(ch) \/ GrantBonus(ch)

Redeem(u, c) ==
    \/ BotPromo(u, c) \/ ReservePromo(u, c) \/ GrantReserved(u, c)
    \/ WebPromo(u, c)

Grant(ch) ==
    \/ CallMarzban(ch) \/ QueueTakes(ch) \/ Finalize(ch) \/ MarkPromoUsed(ch)
    \/ Die(ch)

Next ==
    \/ Surroundings
    \/ \E ch \in Purchases : Purchase(ch)
    \/ \E u \in Users : \/ \E c \in Codes \ FreeCodes : ApplyDiscount(u, c)
                       \/ \E c \in FreeCodes : Redeem(u, c)
    \/ \E ch \in Charges : Grant(ch)

Spec == Init /\ [][Next]_vars

-----------------------------------------------------------------------------
\* Every variable holds a status, a right or a program position of the code.
TypeOK ==
    /\ price \in [Plans -> Nat] /\ visible \subseteq Plans /\ enabled \subseteq Codes
    /\ uses \subseteq Users \X Codes /\ trialUsed \subseteq Users
    /\ active \in [Users -> Codes \cup {NoCode}]
    /\ subscribed \subseteq Users /\ rewarded \subseteq Users /\ fresh \subseteq Users
    /\ referredBy \in [Users -> Referrers \cup {NoUser}]
    /\ bill \in [Charges -> Bill]
    /\ payment \in [Charges -> PaymentStatus]
    /\ pc \in [Charges -> ChargePC]
    /\ door \in [Charges -> DoorNames] /\ retried \subseteq Charges
    /\ verdict \subseteq Purchases /\ bonused \subseteq Purchases
    /\ sharedReward \subseteq Purchases
    /\ sharedCode \subseteq Charges /\ sharedTrial \subseteq Charges
    /\ dead \subseteq Charges
    /\ events \in 0..MaxEvents /\ faults \in 0..MaxFaults

Bought(ch, u) == ch \in Purchases /\ payment[ch] = "success" /\ bill[ch].user = u

\* reserve_promo_for_user keeps a code's global limit: however the requests
\* of all users interleave, no more of them than the limit hold a
\* reservation of the bot.
ReservationsWithinLimit ==
    \A c \in FreeCodes :
        Promo[c].global_limit > 0 =>
            Cardinality({u \in Users : <<u, c>> \in uses /\ door[<<u, c>>] = "bot"})
                <= Promo[c].global_limit

\* A once-per-user discount is had once, however many invoices were opened,
\* approved or paid with it: a second purchase gets it only if it was
\* accepted while the first was under way, or after its handler died.
DiscountHadOnce ==
    \A u \in Users, c \in Codes :
        Promo[c].once_per_user =>
            Cardinality({ch \in Purchases \ sharedCode :
                            Bought(ch, u) /\ bill[ch].code = c}) <= 1

\* The trial likewise.
TrialHadOnce ==
    \A u \in Users :
        Cardinality({ch \in Purchases \ sharedTrial : Bought(ch, u) /\ IsTrial(ch)}) <= 1

\* What may be had once is had once, discounts and trials alike.
HadOnce == DiscountHadOnce /\ TrialHadOnce

\* A code is not burned: a use that the bot did not reserve belongs to a
\* granted charge of that user and code.
UseMeansGrant ==
    \A u \in Users, c \in Codes :
        <<u, c>> \in uses /\ (c \in FreeCodes => door[<<u, c>>] # "bot") =>
            \E ch \in Charges : /\ payment[ch] = "success"
                                /\ bill[ch].user = u /\ bill[ch].code = c

\* A referral bonus is earned by a granted purchase of MinPaymentStars of a
\* friend that somebody else invited, and by one purchase of that friend,
\* unless two of them were rewarded at the same time.
BonusIsEarned ==
    /\ \A ch \in bonused : /\ payment[ch] = "success"
                           /\ bill[ch].amount >= MinPaymentStars
                           /\ ReferrerOf(ch) \notin {NoUser, bill[ch].user}
    /\ \A f \in Users :
          Cardinality({ch \in bonused \ sharedReward : bill[ch].user = f}) <= 1

\* The cap on a referrer's bonuses: it holds for friends that joined within
\* the last day, and rewards that did not overlap.
NewFriendsCapped ==
    \A r \in Referrers :
        Cardinality({ch \in bonused \ sharedReward :
                        ReferrerOf(ch) = r /\ bill[ch].user \in fresh}) <= MaxPerDay

=============================================================================
