-------------------------- MODULE PurchasesProofs ---------------------------
(* Theorems about Purchases, for every set of users, purchases, tariffs and *)
(* codes and whatever the admins edit meanwhile.                            *)
EXTENDS Purchases, FiniteSetTheorems, TLAPS

LEMMA GiftFacts ==
    /\ \A u \in Users, c \in FreeCodes :
          <<u, c>> \in Gifts /\ <<u, c>> \in Charges /\ <<u, c>> \in Users \X Codes
    /\ \A u \in Users, c \in Codes : <<u, c>> \in Users \X Codes
    /\ Purchases \subseteq Charges /\ Gifts \subseteq Charges
    /\ FreeCodes \subseteq Codes
BY DEF Gifts, FreeCodes, Charges

LEMMA GiftBillType == \A u \in Users, c \in FreeCodes : GiftBill(u, c) \in Bill
BY DEF GiftBill, Bill, FreeCodes

\* A quote is a number of Stars.
LEMMA RoundType == \A n \in Nat : Round(n, 100) \in Nat
BY DEF Round

LEMMA QuoteType ==
    ASSUME price \in [Plans -> Nat], NEW p \in Plans, NEW c \in Codes \cup {NoCode}
    PROVE  Quote(p, c) \in Nat
<1>1. CASE Discounts(c)
  <2>1. c \in Codes /\ Promo[c].percent \in 0..99
    BY <1>1, ConstantsAssumption DEF Discounts, PromoCode
  <2> DEFINE rest == 100 - Promo[c].percent
  <2>2. rest \in Nat /\ price[p] \in Nat
    BY <2>1
  <2>3. price[p] * rest \in Nat
    BY <2>2, SMTT(20)
  <2>4. Discounted(price[p], Promo[c].percent) \in Nat
    BY <2>3, RoundType DEF Discounted
  <2>5. QED
    BY <1>1, <2>4 DEF Quote
<1>2. CASE ~Discounts(c)
  BY <1>2 DEF Quote
<1>3. QED
  BY <1>1, <1>2

-----------------------------------------------------------------------------
\* A charge that is under way knows its user, and its plan or its code; the
\* charge of a free code stands for the user and code it is billed to, and
\* takes none of the steps of a purchase.
Billed ==
    \A ch \in Charges : pc[ch] # "none" =>
        /\ bill[ch].user \in Users
        /\ ch \in Purchases => bill[ch].plan \in Plans /\ pc[ch] \notin {"reserve", "accept"}
        /\ ch \in Gifts => /\ ch = <<bill[ch].user, bill[ch].code>>
                           /\ pc[ch] \in {"reserve", "accept", "call", "finalize",
                                          "mark", "queued", "end"}
        /\ pc[ch] = "mark" => bill[ch].code \in Codes

TypeInv == TypeOK /\ Billed

\* A charge that moves on with the bill it has.
LEMMA BilledMove ==
    ASSUME TypeInv, NEW ch \in Charges, NEW next, pc[ch] # "none",
           pc' = [pc EXCEPT ![ch] = next], bill' = bill,
           next = "mark" => bill[ch].code \in Codes,
           ch \in Purchases => next \notin {"reserve", "accept"},
           ch \in Gifts => next \in {"none", "reserve", "accept", "call", "finalize",
                                     "mark", "queued", "end"}
    PROVE  Billed'
BY DEF TypeInv, TypeOK, Billed

\* A free code that is entered.
LEMMA BilledGift ==
    ASSUME TypeInv, NEW u \in Users, NEW c \in FreeCodes, NEW next \in {"reserve", "call"},
           pc' = [pc EXCEPT ![<<u, c>>] = next],
           bill' = [bill EXCEPT ![<<u, c>>] = GiftBill(u, c)]
    PROVE  Billed'
<1> DEFINE g == <<u, c>>
<1>1. g \in Charges /\ g \in Gifts /\ g \notin Purchases
  BY GiftFacts, ConstantsAssumption
<1>2. bill'[g] = GiftBill(u, c) /\ pc'[g] = next
  BY <1>1 DEF TypeInv, TypeOK
<1>3. ASSUME NEW ch \in Charges, ch # g PROVE bill'[ch] = bill[ch] /\ pc'[ch] = pc[ch]
  BY <1>1, <1>3 DEF TypeInv, TypeOK
<1>4. GiftBill(u, c).user = u /\ GiftBill(u, c).code = c
  BY DEF GiftBill
<1> HIDE DEF g
<1>5. ASSUME NEW ch \in Charges, pc'[ch] # "none", ch # g
      PROVE  /\ bill'[ch].user \in Users
             /\ ch \in Purchases => bill'[ch].plan \in Plans /\ pc'[ch] \notin {"reserve", "accept"}
             /\ ch \in Gifts => /\ ch = <<bill'[ch].user, bill'[ch].code>>
                                /\ pc'[ch] \in {"reserve", "accept", "call", "finalize",
                                                "mark", "queued", "end"}
             /\ pc'[ch] = "mark" => bill'[ch].code \in Codes
  BY <1>3, <1>5 DEF TypeInv, Billed
<1>6. g = <<u, c>>
  BY DEF g
<1>7. QED
  BY <1>1, <1>2, <1>4, <1>5, <1>6 DEF Billed

LEMMA GiftCode == TypeInv => \A ch \in Gifts : pc[ch] # "none" => bill[ch].code \in FreeCodes
BY GiftFacts DEF TypeInv, Billed, Gifts

LEMMA AfterGrantMoves == \A ch \in Charges : AfterGrant(ch) \in {"reward", "end"} /\
                             (ch \in Gifts => AfterGrant(ch) = "end")
BY ConstantsAssumption DEF AfterGrant, Rewards

-----------------------------------------------------------------------------
LEMMA TypeInit == Init => TypeInv
BY ConstantsAssumption, GiftFacts
DEF Init, TypeInv, Billed, TypeOK, Bill, NoBill, PaymentStatus, ChargePC, DoorNames

LEMMA AcceptType ==
    ASSUME TypeOK, NEW ch \in Charges, NEW b, Accept(ch, b)
    PROVE  /\ payment' \in [Charges -> PaymentStatus]
           /\ pc' \in [Charges -> ChargePC]
           /\ sharedCode' \subseteq Charges /\ sharedTrial' \subseteq Charges
BY DEF TypeOK, Accept, Move, PaymentStatus, ChargePC

LEMMA ReserveType ==
    ASSUME TypeOK, NEW u \in Users, NEW c \in FreeCodes, ReservePromo(u, c)
    PROVE  pc' \in [Charges -> ChargePC] /\ uses' \subseteq Users \X Codes
<1> DEFINE g == <<u, c>>
<1>1. g \in Users \X Codes
  BY GiftFacts
<1>2. pc \in [Charges -> ChargePC] /\ uses \subseteq Users \X Codes
  BY DEF TypeOK
<1>3. \/ pc' = [pc EXCEPT ![g] = "accept"] /\ uses' = uses \cup {g}
      \/ pc' = [pc EXCEPT ![g] = "none"] /\ uses' = uses
  BY DEF ReservePromo, Move
<1> HIDE DEF g
<1>4. pc' \in [Charges -> ChargePC]
  BY <1>2, <1>3 DEF ChargePC
<1>5. QED
  BY <1>1, <1>2, <1>3, <1>4

LEMMA TypeNext == TypeInv /\ [Next]_vars => TypeOK'
<1> SUFFICES ASSUME TypeInv, [Next]_vars PROVE TypeOK'
  OBVIOUS
<1> USE ConstantsAssumption, GiftFacts
    DEF TypeInv, TypeOK, shop, people, rights, charges, rewards, shared, Quiet, Event, Fault, Move
<1>1. ASSUME NEW p \in Plans, EditVisible(p) PROVE TypeOK'
  BY <1>1 DEF EditVisible
<1>2. ASSUME NEW p \in Plans, NEW stars \in Prices, EditPrice(p, stars) PROVE TypeOK'
  BY <1>2 DEF EditPrice
<1>3. ASSUME NEW c \in Codes, EditCode(c) PROVE TypeOK'
  BY <1>3 DEF EditCode
<1>4. ASSUME NEW u \in Users, WinDiscount(u) PROVE TypeOK'
  BY <1>4 DEF WinDiscount
<1>5. ASSUME NEW u \in Users, Expire(u) PROVE TypeOK'
  BY <1>5 DEF Expire
<1>6. ASSUME DayPasses PROVE TypeOK'
  BY <1>6 DEF DayPasses
<1>7. ASSUME NEW u \in Users, NEW r \in Referrers, StartByLink(u, r) PROVE TypeOK'
  BY <1>7 DEF StartByLink
<1>8. ASSUME NEW ch \in Purchases, NEW u \in Users, NEW p \in Plans, Invoice(ch, u, p)
      PROVE  TypeOK'
  <2>1. CodeFor(u) \in Codes \cup {NoCode}
    BY DEF CodeFor
  <2>2. [user |-> u, plan |-> p, code |-> CodeFor(u), amount |-> Quote(p, CodeFor(u))] \in Bill
    BY <2>1, QuoteType DEF Bill
  <2>3. bill' \in [Charges -> Bill]
    BY <1>8, <2>2 DEF Invoice
  <2>4. pc' \in [Charges -> ChargePC] /\ active' \in [Users -> Codes \cup {NoCode}]
    BY <1>8 DEF Invoice, ChargePC
  <2>5. QED
    BY <1>8, <2>3, <2>4 DEF Invoice
<1>9. ASSUME NEW ch \in Purchases, PreCheckout(ch) PROVE TypeOK'
  BY <1>9 DEF PreCheckout, ChargePC
<1>10. ASSUME NEW ch \in Purchases, TakeStars(ch) PROVE TypeOK'
  BY <1>10 DEF TakeStars, ChargePC
<1>11. ASSUME NEW ch \in Purchases, OnSuccessfulPayment(ch) PROVE TypeOK'
  <2>1. CASE PurchaseAllowed(bill[ch])
    <3>1. ch \in Charges /\ Accept(ch, bill[ch])
      BY <1>11, <2>1 DEF OnSuccessfulPayment
    <3>2. QED
      BY <1>11, <3>1, AcceptType DEF OnSuccessfulPayment
  <2>2. CASE ~PurchaseAllowed(bill[ch])
    BY <1>11, <2>2 DEF OnSuccessfulPayment, Refuse, PaymentStatus, ChargePC
  <2>3. QED
    BY <2>1, <2>2
<1>12. ASSUME NEW ch \in Purchases, ReadReward(ch) PROVE TypeOK'
  <2>1. pc' \in [Charges -> ChargePC]
    BY <1>12 DEF ReadReward, ChargePC
  <2>2. verdict' \subseteq Purchases /\ sharedReward' \subseteq Purchases
    BY <1>12 DEF ReadReward
  <2>3. QED
    BY <1>12, <2>1, <2>2 DEF ReadReward
<1>13. ASSUME NEW ch \in Purchases, MarkReward(ch) PROVE TypeOK'
  <2>1. ch \in Charges /\ bill[ch].user \in Users
    BY <1>13 DEF MarkReward, Billed
  <2>2. QED
    BY <1>13, <2>1 DEF MarkReward, ChargePC, Bill
<1>14. ASSUME NEW ch \in Purchases, GrantBonus(ch) PROVE TypeOK'
  BY <1>14 DEF GrantBonus, ChargePC
<1>15. ASSUME NEW u \in Users, NEW c \in Codes, ApplyDiscount(u, c) PROVE TypeOK'
  BY <1>15 DEF ApplyDiscount
<1>16. ASSUME NEW u \in Users, NEW c \in FreeCodes, BotPromo(u, c) PROVE TypeOK'
  <2>1. pc' \in [Charges -> ChargePC]
    BY <1>16 DEF BotPromo, ChargePC
  <2>2. bill' \in [Charges -> Bill] /\ door' \in [Charges -> DoorNames]
    BY <1>16, GiftBillType DEF BotPromo, DoorNames
  <2>3. QED
    BY <1>16, <2>1, <2>2 DEF BotPromo
<1>17. ASSUME NEW u \in Users, NEW c \in FreeCodes, ReservePromo(u, c) PROVE TypeOK'
  <2>1. pc' \in [Charges -> ChargePC] /\ uses' \subseteq Users \X Codes
    BY <1>17, ReserveType
  <2>2. UNCHANGED <<shop, people, active, trialUsed, bill, payment, door, retried,
                    rewards, shared, dead, events, faults>>
    BY <1>17 DEF ReservePromo
  <2>3. QED
    BY <2>1, <2>2
<1>18. ASSUME NEW u \in Users, NEW c \in FreeCodes, GrantReserved(u, c) PROVE TypeOK'
  <2>1. CASE PlanAllowed(u, GiftIsTrial(c), GiftIsTraffic(c))
    <3>1. Accept(<<u, c>>, bill[<<u, c>>])
      BY <1>18, <2>1 DEF GrantReserved
    <3>2. QED
      BY <1>18, <3>1, AcceptType DEF GrantReserved
  <2>2. CASE ~PlanAllowed(u, GiftIsTrial(c), GiftIsTraffic(c))
    BY <1>18, <2>2 DEF GrantReserved, Refuse, PaymentStatus, ChargePC
  <2>3. QED
    BY <2>1, <2>2
<1>19. ASSUME NEW u \in Users, NEW c \in FreeCodes, WebPromo(u, c) PROVE TypeOK'
  <2>1. Accept(<<u, c>>, GiftBill(u, c))
    BY <1>19 DEF WebPromo
  <2>2. QED
    BY <1>19, <2>1, AcceptType, GiftBillType DEF WebPromo, DoorNames
<1>20. ASSUME NEW ch \in Charges, CallMarzban(ch) PROVE TypeOK'
  BY <1>20 DEF CallMarzban, PaymentStatus, ChargePC
<1>21. ASSUME NEW ch \in Charges, QueueTakes(ch) PROVE TypeOK'
  BY <1>21 DEF QueueTakes, ChargePC
<1>22. ASSUME NEW ch \in Charges, Finalize(ch) PROVE TypeOK'
  <2>1. bill[ch].user \in Users
    BY <1>22 DEF Finalize, Billed
  <2>2. pc' \in [Charges -> ChargePC]
    BY <1>22, AfterGrantMoves DEF Finalize, ChargePC
  <2>3. QED
    BY <1>22, <2>1, <2>2 DEF Finalize, GrantedStatus, TrialUsedBy, PaymentStatus
<1>23. ASSUME NEW ch \in Charges, MarkPromoUsed(ch) PROVE TypeOK'
  <2>1. bill[ch].user \in Users /\ bill[ch].code \in Codes
    BY <1>23 DEF MarkPromoUsed, Billed
  <2>2. pc' \in [Charges -> ChargePC]
    BY <1>23, AfterGrantMoves DEF MarkPromoUsed, ChargePC
  <2>3. QED
    BY <1>23, <2>1, <2>2 DEF MarkPromoUsed, UseOf
<1>24. ASSUME NEW ch \in Charges, Die(ch) PROVE TypeOK'
  <2>1. pc' \in [Charges -> ChargePC]
    BY <1>24 DEF Die, AfterDeath, ChargePC
  <2>2. dead' \subseteq Charges /\ faults' \in 0..MaxFaults
    BY <1>24 DEF Die
  <2>3. QED
    BY <1>24, <2>1, <2>2 DEF Die
<1>25. CASE UNCHANGED vars
  BY <1>25 DEF vars
<1>26. QED
  BY <1>1, <1>2, <1>3, <1>4, <1>5, <1>6, <1>7, <1>8, <1>9, <1>10, <1>11, <1>12,
     <1>13, <1>14, <1>15, <1>16, <1>17, <1>18, <1>19, <1>20, <1>21, <1>22, <1>23,
     <1>24, <1>25
  DEF Next, Surroundings, Purchase, Redeem, Grant

LEMMA BilledNext == TypeInv /\ [Next]_vars => Billed'
<1> SUFFICES ASSUME TypeInv, [Next]_vars PROVE Billed'
  OBVIOUS
<1>a. Purchases \subseteq Charges
  BY GiftFacts
<1>b. \A ch \in Charges : ch \in Purchases => ch \notin Gifts
  BY ConstantsAssumption
<1>c. \A ch \in Charges : pc[ch] # "none" => (bill[ch].code # NoCode => bill[ch].code \in Codes)
  BY DEF TypeInv, TypeOK, Bill
<1>1. CASE Surroundings \/ UNCHANGED vars \/ \E u \in Users, c \in Codes : ApplyDiscount(u, c)
  <2>1. UNCHANGED <<pc, bill>>
    BY <1>1 DEF Surroundings, EditVisible, EditPrice, EditCode, WinDiscount, Expire, DayPasses,
                StartByLink, ApplyDiscount, vars, charges
  <2>2. QED
    BY <2>1 DEF TypeInv, Billed
<1>2. ASSUME NEW ch \in Purchases, NEW u \in Users, NEW p \in Plans, Invoice(ch, u, p)
      PROVE  Billed'
  <2>1. /\ ch \in Charges /\ pc' = [pc EXCEPT ![ch] = "invoice"]
        /\ \A d \in Charges : d # ch => bill'[d] = bill[d] /\ pc'[d] = pc[d]
        /\ bill'[ch].user = u /\ bill'[ch].plan = p /\ pc'[ch] = "invoice"
    BY <1>2, <1>a DEF Invoice, Move, TypeInv, TypeOK
  <2>2. QED
    BY <1>b, <2>1 DEF TypeInv, Billed
<1>3. ASSUME NEW ch \in Purchases, PreCheckout(ch) \/ TakeStars(ch) \/ OnSuccessfulPayment(ch)
      PROVE  Billed'
  <2>1. \E next \in {"approved", "paid", "call", "end"} : pc' = [pc EXCEPT ![ch] = next]
    BY <1>3 DEF PreCheckout, TakeStars, OnSuccessfulPayment, Accept, Refuse, Move
  <2>2. pc[ch] # "none" /\ bill' = bill
    BY <1>3 DEF PreCheckout, TakeStars, OnSuccessfulPayment
  <2>3. QED
    BY <1>a, <1>b, <2>1, <2>2, BilledMove
<1>4. ASSUME NEW ch \in Purchases, ReadReward(ch) \/ MarkReward(ch) \/ GrantBonus(ch)
      PROVE  Billed'
  <2>1. \E next \in {"reward_mark", "bonus", "end"} : pc' = [pc EXCEPT ![ch] = next]
    BY <1>4 DEF ReadReward, MarkReward, GrantBonus, Move
  <2>2. pc[ch] # "none" /\ bill' = bill
    BY <1>4 DEF ReadReward, MarkReward, GrantBonus
  <2>3. QED
    BY <1>a, <1>b, <2>1, <2>2, BilledMove
<1>5. ASSUME NEW u \in Users, NEW c \in FreeCodes, BotPromo(u, c) PROVE Billed'
  BY <1>5, BilledGift DEF BotPromo, Move
<1>6. ASSUME NEW u \in Users, NEW c \in FreeCodes, WebPromo(u, c) PROVE Billed'
  BY <1>6, BilledGift DEF WebPromo, Accept, Move
<1>7. ASSUME NEW u \in Users, NEW c \in FreeCodes, ReservePromo(u, c) \/ GrantReserved(u, c)
      PROVE  Billed'
  <2> DEFINE g == <<u, c>>
  <2>1. \E next \in {"none", "accept", "call", "end"} : pc' = [pc EXCEPT ![g] = next]
    BY <1>7 DEF ReservePromo, GrantReserved, Accept, Refuse, Move
  <2>2. pc[g] # "none" /\ bill' = bill
    BY <1>7 DEF ReservePromo, GrantReserved
  <2>3. g \in Charges /\ g \in Gifts /\ g \notin Purchases
    BY GiftFacts, <1>b
  <2> HIDE DEF g
  <2>4. QED
    BY <2>1, <2>2, <2>3, BilledMove
<1>8. ASSUME NEW ch \in Charges, CallMarzban(ch) \/ QueueTakes(ch) PROVE Billed'
  <2>1. \E next \in {"finalize", "queued", "call"} : pc' = [pc EXCEPT ![ch] = next]
    BY <1>8 DEF CallMarzban, QueueTakes, Move
  <2>2. pc[ch] # "none" /\ bill' = bill
    BY <1>8 DEF CallMarzban, QueueTakes
  <2>3. QED
    BY <2>1, <2>2, BilledMove
<1>9. ASSUME NEW ch \in Charges, Finalize(ch) PROVE Billed'
  <2>1. pc[ch] # "none" /\ bill' = bill
    BY <1>9 DEF Finalize
  <2>2. pc' = [pc EXCEPT ![ch] = IF Marks(ch) THEN "mark" ELSE AfterGrant(ch)]
    BY <1>9 DEF Finalize, Move
  <2>3. CASE Marks(ch)
    BY <1>c, <2>1, <2>2, <2>3, BilledMove DEF Marks
  <2>4. CASE ~Marks(ch)
    BY <2>1, <2>2, <2>4, AfterGrantMoves, BilledMove
  <2>5. QED
    BY <2>3, <2>4
<1>10. ASSUME NEW ch \in Charges, MarkPromoUsed(ch) PROVE Billed'
  <2>1. pc[ch] # "none" /\ bill' = bill /\ pc' = [pc EXCEPT ![ch] = AfterGrant(ch)]
    BY <1>10 DEF MarkPromoUsed, Move
  <2>2. QED
    BY <2>1, AfterGrantMoves, BilledMove
<1>11. ASSUME NEW ch \in Charges, Die(ch) PROVE Billed'
  <2>1. pc[ch] # "none" /\ bill' = bill /\ pc' = [pc EXCEPT ![ch] = AfterDeath(ch)]
    BY <1>11 DEF Die, Move
  <2>2. AfterDeath(ch) \in {"queued", "none", "end"}
    BY DEF AfterDeath
  <2>3. QED
    BY <2>1, <2>2, BilledMove
<1>12. QED
  BY <1>1, <1>2, <1>3, <1>4, <1>5, <1>6, <1>7, <1>8, <1>9, <1>10, <1>11, GiftFacts
  DEF Next, Purchase, Redeem, Grant

\* Every reachable state has the types the code relies on.
THEOREM TypeCorrect == Spec => []TypeOK
<1>1. Init => TypeInv
  BY TypeInit
<1>2. TypeInv /\ [Next]_vars => TypeInv'
  BY TypeNext, BilledNext DEF TypeInv
<1>3. TypeInv => TypeOK
  BY DEF TypeInv
<1>4. QED
  BY <1>1, <1>2, <1>3, PTL DEF Spec

-----------------------------------------------------------------------------
(* A free code's limit, as the bot reserves it.                             *)

\* A used free code has been entered, the bot works only on codes it has
\* reserved, and no purchase carries a free code.
Reserved ==
    /\ \A g \in Gifts : g \in uses => pc[g] \notin {"none", "reserve"}
    /\ \A g \in Gifts : /\ door[g] = "bot"
                        /\ pc[g] \in {"accept", "call", "finalize", "mark", "queued"}
                        => g \in uses
    /\ \A g \in retried : pc[g] \notin {"none", "reserve", "accept"}
    /\ \A ch \in Purchases : bill[ch].code \notin FreeCodes
    /\ \A u \in Users : active[u] \notin FreeCodes

Holders(c) == {u \in Users : <<u, c>> \in uses /\ door[<<u, c>>] = "bot"}

LEMMA ReservedInit == Init => Reserved /\ ReservationsWithinLimit
<1> SUFFICES ASSUME Init PROVE Reserved /\ ReservationsWithinLimit
  OBVIOUS
<1>1. Reserved
  BY ConstantsAssumption, GiftFacts DEF Init, Reserved, NoBill
<1>2. ReservationsWithinLimit
  <2> SUFFICES ASSUME NEW c \in FreeCodes, Promo[c].global_limit > 0
               PROVE  Cardinality(Holders(c)) <= Promo[c].global_limit
    BY DEF ReservationsWithinLimit, Holders
  <2>1. Holders(c) = {}
    BY DEF Init, Holders
  <2>2. Promo[c].global_limit \in Nat
    BY ConstantsAssumption, GiftFacts DEF PromoCode
  <2>3. QED
    BY <2>1, <2>2, FS_EmptySet
<1>3. QED
  BY <1>1, <1>2

\* The moves of a free code that need no reservation of their own.
OpenMove(from, to) ==
    \/ to = "end"
    \/ to = "none" /\ from = "reserve"
    \/ /\ to \in {"call", "finalize", "mark", "queued"}
       /\ from \in {"accept", "call", "finalize", "mark", "queued"}

\* A charge that moves on without using a code.
LEMMA ReservedMove ==
    ASSUME TypeInv, Reserved, NEW ch \in Charges, NEW next,
           pc' = [pc EXCEPT ![ch] = next], UNCHANGED <<uses, door, bill>>,
           \A u \in Users : active'[u] \in {active[u], NoCode},
           retried' \subseteq retried \cup {ch},
           ch \in retried' => next \notin {"none", "reserve", "accept"},
           ch \in Gifts => OpenMove(pc[ch], next)
    PROVE  Reserved'
<1>1. NoCode \notin FreeCodes
  BY GiftFacts, ConstantsAssumption
<1>2. \A g \in Charges : pc'[g] = IF g = ch THEN next ELSE pc[g]
  BY DEF TypeInv, TypeOK
<1>3. QED
  BY <1>1, <1>2, GiftFacts DEF Reserved, OpenMove

LEMMA ReservedNext == TypeInv /\ Reserved /\ [Next]_vars => Reserved'
<1> SUFFICES ASSUME TypeInv, Reserved, [Next]_vars PROVE Reserved'
  OBVIOUS
<1>a. Purchases \subseteq Charges /\ NoCode \notin FreeCodes
  BY GiftFacts, ConstantsAssumption
<1>b. \A ch \in Purchases : ch \notin Gifts
  BY ConstantsAssumption
<1>c. active \in [Users -> Codes \cup {NoCode}] /\ pc \in [Charges -> ChargePC]
  BY DEF TypeInv, TypeOK
<1>d. retried \subseteq Charges
  BY DEF TypeInv, TypeOK
<1>1. CASE Surroundings \/ UNCHANGED vars \/ \E u \in Users, c \in Codes \ FreeCodes : ApplyDiscount(u, c)
  <2>1. UNCHANGED <<pc, bill, uses, door, retried>>
    BY <1>1 DEF Surroundings, EditVisible, EditPrice, EditCode, WinDiscount, Expire, DayPasses,
                StartByLink, ApplyDiscount, vars, charges, rights
  <2>2. \/ active' = active
        \/ \E u \in Users, c \in Codes \ FreeCodes : active' = [active EXCEPT ![u] = c]
    BY <1>1, ConstantsAssumption
    DEF Surroundings, EditVisible, EditPrice, EditCode, WinDiscount, Expire, DayPasses,
        StartByLink, ApplyDiscount, vars, charges, rights
  <2>3. \A u \in Users : active'[u] \notin FreeCodes
    BY <1>c, <2>2 DEF Reserved
  <2>4. QED
    BY <2>1, <2>3 DEF Reserved
<1>2. ASSUME NEW ch \in Purchases, NEW u \in Users, NEW p \in Plans, Invoice(ch, u, p)
      PROVE  Reserved'
  <2>1. CodeFor(u) \notin FreeCodes
    BY <1>a DEF CodeFor, Reserved
  <2>2. \A d \in Charges : bill'[d].code = IF d = ch THEN CodeFor(u) ELSE bill[d].code
    BY <1>2, <1>a DEF Invoice, TypeInv, TypeOK
  <2>3. \A d \in Charges : d # ch => pc'[d] = pc[d]
    BY <1>2, <1>c DEF Invoice, Move
  <2>4. \A v \in Users : active'[v] \in {active[v], NoCode}
    BY <1>2, <1>c DEF Invoice
  <2>5. UNCHANGED <<uses, door, retried>> /\ pc'[ch] = "invoice"
    BY <1>2, <1>a, <1>c DEF Invoice, Move
  <2>6. QED
    BY <1>a, <1>b, <1>d, <2>1, <2>2, <2>3, <2>4, <2>5, GiftFacts DEF Reserved
<1>3. ASSUME NEW ch \in Purchases, PreCheckout(ch) \/ TakeStars(ch) \/ OnSuccessfulPayment(ch)
      PROVE  Reserved'
  <2>1. \E next \in {"approved", "paid", "call", "end"} : pc' = [pc EXCEPT ![ch] = next]
    BY <1>3 DEF PreCheckout, TakeStars, OnSuccessfulPayment, Accept, Refuse, Move
  <2>2. UNCHANGED <<uses, door, bill, active, retried>>
    BY <1>3 DEF PreCheckout, TakeStars, OnSuccessfulPayment, rights
  <2>3. QED
    BY <1>a, <1>b, <2>1, <2>2, ReservedMove DEF OpenMove
<1>4. ASSUME NEW ch \in Purchases, ReadReward(ch) \/ MarkReward(ch) \/ GrantBonus(ch)
      PROVE  Reserved'
  <2>1. \E next \in {"reward_mark", "bonus", "end"} : pc' = [pc EXCEPT ![ch] = next]
    BY <1>4 DEF ReadReward, MarkReward, GrantBonus, Move
  <2>2. UNCHANGED <<uses, door, bill, active, retried>>
    BY <1>4 DEF ReadReward, MarkReward, GrantBonus, rights
  <2>3. QED
    BY <1>a, <1>b, <2>1, <2>2, ReservedMove DEF OpenMove
<1>5. ASSUME NEW u \in Users, NEW c \in FreeCodes, BotPromo(u, c) \/ WebPromo(u, c)
      PROVE  Reserved'
  <2> DEFINE g == <<u, c>>
  <2>1. g \in Charges /\ g \in Gifts /\ g \notin Purchases
    BY GiftFacts, <1>b
  <2>2. pc[g] = "none" /\ UNCHANGED <<uses, active, retried>>
    BY <1>5 DEF BotPromo, WebPromo, New, rights
  <2>3. \A d \in Charges : d # g => UNCHANGED <<pc[d], bill[d], door[d]>>
    BY <1>5, <2>1 DEF BotPromo, WebPromo, Accept, Move, TypeInv, TypeOK
  <2>4. \/ pc'[g] = "reserve"
        \/ pc'[g] = "call" /\ door'[g] = "web"
    BY <1>5, <2>1 DEF BotPromo, WebPromo, Accept, Move, TypeInv, TypeOK
  <2> HIDE DEF g
  <2>5. g \notin uses /\ g \notin retried
    BY <2>1, <2>2 DEF Reserved
  <2>6. QED
    BY <1>a, <1>d, <2>1, <2>2, <2>3, <2>4, <2>5, GiftFacts DEF Reserved
<1>6. ASSUME NEW u \in Users, NEW c \in FreeCodes, ReservePromo(u, c) PROVE Reserved'
  <2> DEFINE g == <<u, c>>
  <2>1. g \in Charges /\ g \in Gifts /\ g \notin Purchases
    BY GiftFacts, <1>b
  <2>2. pc[g] = "reserve" /\ UNCHANGED <<active, bill, door, retried>>
    BY <1>6 DEF ReservePromo
  <2>3. \/ pc' = [pc EXCEPT ![g] = "accept"] /\ uses' = uses \cup {g}
        \/ pc' = [pc EXCEPT ![g] = "none"] /\ uses' = uses
    BY <1>6 DEF ReservePromo, Move
  <2> HIDE DEF g
  <2>4. CASE pc' = [pc EXCEPT ![g] = "accept"] /\ uses' = uses \cup {g}
    <3>1. \A d \in Charges : pc'[d] = IF d = g THEN "accept" ELSE pc[d]
      BY <1>c, <2>4
    <3>2. QED
      BY <2>1, <2>2, <2>4, <3>1, GiftFacts DEF Reserved
  <2>5. CASE pc' = [pc EXCEPT ![g] = "none"] /\ uses' = uses
    <3>1. g \notin retried
      BY <2>2 DEF Reserved
    <3>2. QED
      BY <2>1, <2>2, <2>5, <3>1, ReservedMove DEF OpenMove
  <2>6. QED
    BY <2>3, <2>4, <2>5
<1>7. ASSUME NEW u \in Users, NEW c \in FreeCodes, GrantReserved(u, c) PROVE Reserved'
  <2> DEFINE g == <<u, c>>
  <2>1. g \in Charges
    BY GiftFacts
  <2>2. pc[g] = "accept" /\ UNCHANGED <<uses, active, bill, door, retried>>
    BY <1>7 DEF GrantReserved, rights
  <2>3. \E next \in {"call", "end"} : pc' = [pc EXCEPT ![g] = next]
    BY <1>7 DEF GrantReserved, Accept, Refuse, Move
  <2> HIDE DEF g
  <2>4. QED
    BY <2>1, <2>2, <2>3, ReservedMove DEF OpenMove
<1>8. ASSUME NEW ch \in Charges, CallMarzban(ch) \/ QueueTakes(ch) PROVE Reserved'
  <2>1. \E next \in {"finalize", "queued", "call"} : pc' = [pc EXCEPT ![ch] = next]
    BY <1>8 DEF CallMarzban, QueueTakes, Move
  <2>2. /\ pc[ch] \in {"call", "queued"} /\ UNCHANGED <<uses, active, bill, door>>
        /\ retried' \subseteq retried \cup {ch}
    BY <1>8 DEF CallMarzban, QueueTakes, rights
  <2>3. QED
    BY <2>1, <2>2, ReservedMove DEF OpenMove
<1>9. ASSUME NEW ch \in Charges, Finalize(ch) PROVE Reserved'
  <2>1. pc[ch] = "finalize" /\ UNCHANGED <<uses, bill, door, retried>>
    BY <1>9 DEF Finalize
  <2>2. pc' = [pc EXCEPT ![ch] = IF Marks(ch) THEN "mark" ELSE AfterGrant(ch)]
    BY <1>9 DEF Finalize, Move
  <2>3. \A u \in Users : active'[u] \in {active[u], NoCode}
    BY <1>9, <1>c DEF Finalize
  <2>4. CASE Marks(ch)
    BY <2>1, <2>2, <2>3, <2>4, ReservedMove DEF OpenMove
  <2>5. CASE ~Marks(ch)
    BY <2>1, <2>2, <2>3, <2>5, AfterGrantMoves, ReservedMove DEF OpenMove
  <2>6. QED
    BY <2>4, <2>5
<1>10. ASSUME NEW ch \in Charges, MarkPromoUsed(ch) PROVE Reserved'
  <2>1. pc[ch] = "mark" /\ UNCHANGED <<active, bill, door, retried>>
    BY <1>10 DEF MarkPromoUsed
  <2>2. uses' = uses \cup {<<bill[ch].user, bill[ch].code>>}
    BY <1>10 DEF MarkPromoUsed, UseOf
  <2>3. \A d \in Charges : pc'[d] = IF d = ch THEN AfterGrant(ch) ELSE pc[d]
    BY <1>10, <1>c DEF MarkPromoUsed, Move
  <2>4. CASE ch \in Gifts
    <3>1. ch = <<bill[ch].user, bill[ch].code>> /\ AfterGrant(ch) = "end"
      BY <2>1, <2>4, AfterGrantMoves DEF TypeInv, Billed
    <3>2. QED
      BY <1>d, <2>1, <2>2, <2>3, <3>1, GiftFacts DEF Reserved
  <2>5. CASE ch \in Purchases
    <3>1. <<bill[ch].user, bill[ch].code>> \notin Gifts
      BY <2>5 DEF Reserved, Gifts
    <3>2. QED
      BY <1>b, <1>d, <2>1, <2>2, <2>3, <2>5, <3>1, AfterGrantMoves, GiftFacts DEF Reserved
  <2>6. QED
    BY <2>4, <2>5 DEF Charges
<1>11. ASSUME NEW ch \in Charges, Die(ch) PROVE Reserved'
  <2>1. /\ pc' = [pc EXCEPT ![ch] = AfterDeath(ch)] /\ UNCHANGED <<uses, active, bill, door, retried>>
        /\ pc[ch] \notin {"none", "queued", "end"}
    BY <1>11 DEF Die, Move, rights
  <2>2. ch \in Gifts => pc[ch] \in {"reserve", "accept", "call", "finalize", "mark", "queued", "end"}
    BY <2>1 DEF TypeInv, Billed
  <2>3. \/ AfterDeath(ch) = "queued" /\ (ch \in Gifts => pc[ch] # "reserve")
        \/ AfterDeath(ch) = "none" /\ pc[ch] = "reserve" /\ ch \notin retried
        \/ AfterDeath(ch) = "end"
    BY DEF AfterDeath, Reserved
  <2>4. QED
    BY <2>1, <2>2, <2>3, ReservedMove DEF OpenMove
<1>12. QED
  BY <1>1, <1>2, <1>3, <1>4, <1>5, <1>6, <1>7, <1>8, <1>9, <1>10, <1>11, GiftFacts
  DEF Next, Purchase, Redeem, Grant

LEMMA HoldersFinite ==
    \A c \in FreeCodes : /\ IsFiniteSet(Holders(c)) /\ Cardinality(Holders(c)) \in Nat
                         /\ IsFiniteSet(UsersOf(c)) /\ Cardinality(UsersOf(c)) \in Nat
                         /\ Promo[c].global_limit \in Nat
BY ConstantsAssumption, GiftFacts, FS_Subset, FS_CardinalityType DEF Holders, UsersOf, PromoCode

\* Only the reservation of a code gives it another holder.
LEMMA HoldersKept ==
    ASSUME TypeInv, Reserved, [Next]_vars,
           \A u \in Users, c \in FreeCodes : ~ReservePromo(u, c)
    PROVE  \A u \in Users, c \in FreeCodes :
              <<u, c>> \in uses' /\ door'[<<u, c>>] = "bot" =>
                  <<u, c>> \in uses /\ door[<<u, c>>] = "bot"
<1>1. CASE UNCHANGED <<uses, door>>
  BY <1>1
<1>2. ASSUME NEW v \in Users, NEW d \in FreeCodes, BotPromo(v, d) \/ WebPromo(v, d)
      PROVE  \A u \in Users, c \in FreeCodes :
                <<u, c>> \in uses' => <<u, c>> \in uses /\ door'[<<u, c>>] = door[<<u, c>>]
  <2>1. pc[<<v, d>>] = "none" /\ uses' = uses
    BY <1>2 DEF BotPromo, WebPromo, New, rights
  <2>2. <<v, d>> \notin uses
    BY <2>1, GiftFacts DEF Reserved
  <2>3. \A g \in Charges : g # <<v, d>> => door'[g] = door[g]
    BY <1>2 DEF BotPromo, WebPromo, TypeInv, TypeOK
  <2>4. QED
    BY <2>1, <2>2, <2>3, GiftFacts
<1>3. ASSUME NEW ch \in Charges, MarkPromoUsed(ch)
      PROVE  \A u \in Users, c \in FreeCodes :
                <<u, c>> \in uses' /\ door'[<<u, c>>] = "bot" =>
                    <<u, c>> \in uses /\ door[<<u, c>>] = "bot"
  <2>1. /\ pc[ch] = "mark" /\ door' = door
        /\ uses' = uses \cup {<<bill[ch].user, bill[ch].code>>}
    BY <1>3 DEF MarkPromoUsed, UseOf
  <2>2. CASE ch \in Gifts
    <3>1. ch = <<bill[ch].user, bill[ch].code>>
      BY <2>1, <2>2 DEF TypeInv, Billed
    <3>2. door[ch] = "bot" => ch \in uses
      BY <2>1, <2>2 DEF Reserved
    <3>3. QED
      BY <2>1, <3>1, <3>2
  <2>3. CASE ch \in Purchases
    BY <2>1, <2>3 DEF Reserved
  <2>4. QED
    BY <2>2, <2>3 DEF Charges
<1>4. CASE \/ UNCHANGED vars \/ Surroundings \/ \E u \in Users, c \in Codes : ApplyDiscount(u, c)
           \/ \E u \in Users, c \in FreeCodes : GrantReserved(u, c)
  <2>1. UNCHANGED <<uses, door>>
    BY <1>4 DEF vars, Surroundings, EditVisible, EditPrice, EditCode, WinDiscount, Expire,
                DayPasses, StartByLink, ApplyDiscount, GrantReserved, rights, charges
  <2>2. QED
    BY <2>1
<1>5. CASE \E ch \in Purchases : Purchase(ch)
  <2>1. UNCHANGED <<uses, door>>
    BY <1>5 DEF Purchase, Invoice, PreCheckout, TakeStars, OnSuccessfulPayment, ReadReward,
                MarkReward, GrantBonus, rights, charges
  <2>2. QED
    BY <2>1
<1>6. CASE \E ch \in Charges : CallMarzban(ch) \/ QueueTakes(ch) \/ Finalize(ch) \/ Die(ch)
  <2>1. UNCHANGED <<uses, door>>
    BY <1>6 DEF CallMarzban, QueueTakes, Finalize, Die, rights, charges
  <2>2. QED
    BY <2>1
<1>7. QED
  BY <1>2, <1>3, <1>4, <1>5, <1>6 DEF Next, Redeem, Grant

LEMMA LimitNext ==
    ASSUME TypeInv, Reserved, ReservationsWithinLimit, [Next]_vars
    PROVE  ReservationsWithinLimit'
<1> SUFFICES ASSUME NEW c \in FreeCodes, Promo[c].global_limit > 0
             PROVE  Cardinality(Holders(c)') <= Promo[c].global_limit
  BY DEF ReservationsWithinLimit, Holders
<1>1. Cardinality(Holders(c)) <= Promo[c].global_limit
  BY DEF ReservationsWithinLimit, Holders
<1>2. CASE \A u \in Users, d \in FreeCodes : ~ReservePromo(u, d)
  <2>1. Holders(c)' \in SUBSET Holders(c)
    BY <1>2, HoldersKept DEF Holders
  <2>2. Cardinality(Holders(c)') <= Cardinality(Holders(c)) /\ Cardinality(Holders(c)') \in Nat
    BY <2>1, HoldersFinite, FS_Subset, FS_CardinalityType
  <2>3. QED
    BY <1>1, <2>2, HoldersFinite
<1>3. ASSUME NEW u \in Users, NEW d \in FreeCodes, ReservePromo(u, d)
      PROVE  Cardinality(Holders(c)') <= Promo[c].global_limit
  <2>1. door' = door /\ uses' \in {uses, uses \cup {<<u, d>>}}
    BY <1>3 DEF ReservePromo
  <2>2. CASE c # d \/ uses' = uses
    <3>1. Holders(c)' = Holders(c)
      BY <2>1, <2>2 DEF Holders
    <3>2. QED
      BY <1>1, <3>1
  <2>3. CASE c = d /\ uses' # uses
    <3>1. Valid(u, c) /\ uses' = uses \cup {<<u, c>>}
      BY <1>3, <2>3 DEF ReservePromo, Reservable
    <3>2. Cardinality(UsersOf(c)) < Promo[c].global_limit
      BY <3>1 DEF Valid
    <3>3. Holders(c)' \in SUBSET (UsersOf(c) \cup {u})
      BY <2>1, <3>1 DEF Holders, UsersOf
    <3>4. u \notin UsersOf(c)
      BY <1>3, <2>3 DEF ReservePromo, Reservable, UsersOf
    <3>5. /\ IsFiniteSet(UsersOf(c) \cup {u})
          /\ Cardinality(UsersOf(c) \cup {u}) = Cardinality(UsersOf(c)) + 1
      BY <3>4, HoldersFinite, FS_AddElement
    <3>6. /\ Cardinality(Holders(c)') <= Cardinality(UsersOf(c) \cup {u})
          /\ Cardinality(Holders(c)') \in Nat
      BY <3>3, <3>5, FS_Subset, FS_CardinalityType
    <3>7. QED
      BY <3>2, <3>5, <3>6, HoldersFinite
  <2>4. QED
    BY <2>2, <2>3
<1>4. QED
  BY <1>2, <1>3

\* However the requests of all users interleave with each other, with admins
\* who switch the code off and on, with panel faults and with handlers that
\* die, the bot's reservations of a free code stay within its limit.
THEOREM LimitHeld == Spec => []ReservationsWithinLimit
<1> DEFINE Inv == TypeInv /\ Reserved /\ ReservationsWithinLimit
<1>1. Init => Inv
  BY TypeInit, ReservedInit
<1>2. Inv /\ [Next]_vars => Inv'
  BY TypeNext, BilledNext, ReservedNext, LimitNext DEF TypeInv
<1>3. Inv => ReservationsWithinLimit
  OBVIOUS
<1>4. QED
  BY <1>1, <1>2, <1>3, PTL DEF Spec

-----------------------------------------------------------------------------
(* A once-per-user discount, and the trial, are had once.                   *)

Accepted(ch) == payment[ch] \in {"pending", "success", "marzban_error"}

\* A purchase that was accepted is under way or has used up its code, and
\* its trial.
Booked(ch) ==
    /\ pc[ch] \in {"none", "invoice", "approved", "paid"} => payment[ch] = "none"
    /\ pc[ch] \in {"call", "finalize", "mark", "queued"} => Accepted(ch)
    /\ ch \in retried => Accepted(ch)
    /\ Accepted(ch) /\ bill[ch].code # NoCode =>
          CodeOpen(ch) \/ <<bill[ch].user, bill[ch].code>> \in uses
    /\ Accepted(ch) /\ IsTrial(ch) => TrialOpen(ch) \/ bill[ch].user \in trialUsed

\* Two accepted purchases that share what may be had once.
CodeTwins(p, q) ==
    /\ Accepted(p) /\ Accepted(q)
    /\ bill[p].user = bill[q].user /\ bill[p].code = bill[q].code
    /\ bill[p].code # NoCode /\ Promo[bill[p].code].once_per_user

TrialTwins(p, q) ==
    /\ Accepted(p) /\ Accepted(q)
    /\ bill[p].user = bill[q].user
    /\ IsTrial(p) /\ IsTrial(q)

Ledger ==
    /\ \A ch \in Purchases : Booked(ch)
    /\ \A p, q \in Purchases \ sharedCode : CodeTwins(p, q) => p = q
    /\ \A p, q \in Purchases \ sharedTrial : TrialTwins(p, q) => p = q

\* Rights are only used up, and what is shared or dead stays so.
Growing ==
    /\ uses \subseteq uses' /\ trialUsed \subseteq trialUsed' /\ dead \subseteq dead'
    /\ sharedCode \subseteq sharedCode' /\ sharedTrial \subseteq sharedTrial'

\* The charge ch does not move.
Still(ch) ==
    /\ UNCHANGED <<pc[ch], payment[ch], bill[ch]>>
    /\ ch \in retried' => ch \in retried

LEMMA LedgerInit == Init => Ledger
BY GiftFacts DEF Init, Ledger, Booked, CodeTwins, TrialTwins, Accepted

\* The charge of a purchase that does not move stays booked.
LEMMA BookedKept ==
    ASSUME NEW ch \in Purchases, Booked(ch), Growing, Still(ch)
    PROVE  Booked(ch)'
BY DEF Still, Booked, Growing, Accepted, CodeOpen, TrialOpen, IsTrial

\* No purchase moves.
LEMMA LedgerFrame ==
    ASSUME Ledger, Growing,
           \A p \in Purchases : Still(p)
    PROVE  Ledger'
<1>1. \A ch \in Purchases : Booked(ch)'
  BY BookedKept DEF Ledger
<1>2. \A p, q \in Purchases : CodeTwins(p, q)' => CodeTwins(p, q)
  BY DEF CodeTwins, Accepted, Still
<1>3. \A p, q \in Purchases : TrialTwins(p, q)' => TrialTwins(p, q)
  BY DEF TrialTwins, Accepted, IsTrial, Still
<1>4. QED
  BY <1>1, <1>2, <1>3 DEF Ledger, Growing

\* One purchase moves, and is not accepted by that.
LEMMA LedgerMove ==
    ASSUME Ledger, Growing, NEW ch \in Purchases,
           \A p \in Purchases : p # ch => Still(p),
           Booked(ch)',
           Accepted(ch)' => Accepted(ch) /\ UNCHANGED bill[ch]
    PROVE  Ledger'
<1>1. \A p \in Purchases : Booked(p)'
  BY BookedKept DEF Ledger
<1>2. \A p \in Purchases : Accepted(p)' => Accepted(p) /\ UNCHANGED bill[p]
  BY DEF Accepted, Still
<1>3. \A p, q \in Purchases : CodeTwins(p, q)' => CodeTwins(p, q)
  BY <1>2 DEF CodeTwins
<1>4. \A p, q \in Purchases : TrialTwins(p, q)' => TrialTwins(p, q)
  BY <1>2 DEF TrialTwins, IsTrial
<1>5. QED
  BY <1>1, <1>3, <1>4 DEF Ledger, Growing

\* The acceptance itself: a code or trial of an earlier purchase is used up,
\* and then this one is refused, or still open, and then this one shares it.
LEMMA LedgerAccept ==
    ASSUME TypeInv, Ledger, NEW ch \in Purchases, pc[ch] = "paid",
           PurchaseAllowed(bill[ch]), Accept(ch, bill[ch]),
           UNCHANGED <<bill, uses, trialUsed, dead, retried>>
    PROVE  Ledger'
<1>1. ch \in Charges /\ \A p \in Purchases : p \in Charges /\ p \notin Gifts
  BY GiftFacts, ConstantsAssumption
<1>2. /\ bill[ch].user \in Users /\ bill[ch].plan \in Plans
      /\ bill[ch].plan # NoPlan /\ bill[ch].code \in Codes \cup {NoCode}
  BY <1>1, ConstantsAssumption DEF TypeInv, TypeOK, Billed, Bill
<1>3. /\ pc'[ch] = "call" /\ payment'[ch] = "pending"
      /\ \A p \in Charges : p # ch => pc'[p] = pc[p] /\ payment'[p] = payment[p]
  BY <1>1 DEF Accept, Move, TypeInv, TypeOK
<1>4. Growing
  BY DEF Growing, Accept
<1>5. \A p \in Purchases : Booked(p)'
  <2>1. Booked(ch)'
    BY <1>3 DEF Booked, Accepted, CodeOpen, TrialOpen
  <2>2. QED
    BY <1>1, <1>3, <1>4, <2>1, BookedKept DEF Ledger, Still
<1>6. ASSUME NEW p \in Purchases \ {ch}, CodeTwins(p, ch)' \/ CodeTwins(ch, p)'
      PROVE  ch \in sharedCode'
  <2>1. /\ Accepted(p) /\ bill[p].user = bill[ch].user /\ bill[p].code = bill[ch].code
        /\ bill[p].code # NoCode /\ Promo[bill[ch].code].once_per_user
    BY <1>1, <1>3, <1>6 DEF CodeTwins, Accepted
  <2>2. <<bill[ch].user, bill[ch].code>> \notin uses
    BY <2>1 DEF PurchaseAllowed, Valid
  <2>3. CodeOpen(p)
    BY <2>1, <2>2 DEF Ledger, Booked
  <2>4. SameCode(bill[ch], p)
    BY <2>1 DEF SameCode
  <2>5. QED
    BY <2>3, <2>4 DEF Accept
<1>7. ASSUME NEW p \in Purchases \ {ch}, TrialTwins(p, ch)' \/ TrialTwins(ch, p)'
      PROVE  ch \in sharedTrial'
  <2>1. Accepted(p) /\ bill[p].user = bill[ch].user /\ IsTrial(p) /\ IsTrial(ch)
    BY <1>1, <1>3, <1>7 DEF TrialTwins, Accepted, IsTrial
  <2>2. bill[ch].user \notin trialUsed
    BY <1>1, <2>1 DEF PurchaseAllowed, PlanAllowed, IsTrial
  <2>3. TrialOpen(p) /\ p \in Charges \ {ch}
    BY <1>1, <2>1, <2>2 DEF Ledger, Booked
  <2>4. QED
    BY <2>1, <2>3 DEF Accept
<1>8. \A p, q \in Purchases \ {ch} : CodeTwins(p, q)' => CodeTwins(p, q)
  BY <1>1, <1>3 DEF CodeTwins, Accepted
<1>9. \A p, q \in Purchases \ {ch} : TrialTwins(p, q)' => TrialTwins(p, q)
  BY <1>1, <1>3 DEF TrialTwins, Accepted, IsTrial
<1>10. \A p, q \in Purchases \ sharedCode' : CodeTwins(p, q)' => p = q
  BY <1>4, <1>6, <1>8 DEF Ledger, Growing
<1>11. \A p, q \in Purchases \ sharedTrial' : TrialTwins(p, q)' => p = q
  BY <1>4, <1>7, <1>9 DEF Ledger, Growing
<1>12. QED
  BY <1>5, <1>10, <1>11 DEF Ledger

\* The steps that follow the acceptance of a charge, and the ends of a
\* purchase, leave it booked.
LEMMA BookedStep ==
    ASSUME TypeInv, Ledger, NEW ch \in Purchases,
           \/ CallMarzban(ch) \/ QueueTakes(ch) \/ Finalize(ch) \/ MarkPromoUsed(ch)
           \/ Die(ch) \/ PreCheckout(ch) \/ TakeStars(ch)
           \/ ReadReward(ch) \/ MarkReward(ch) \/ GrantBonus(ch)
    PROVE  Booked(ch)' /\ (Accepted(ch)' => Accepted(ch))
<1>1. ch \in Charges /\ Booked(ch) /\ pc[ch] \notin {"reserve", "accept"}
  BY GiftFacts DEF Ledger, TypeInv, Billed
<1>2. pc \in [Charges -> ChargePC] /\ payment \in [Charges -> PaymentStatus]
  BY DEF TypeInv, TypeOK
<1>3. ch \notin Gifts
  BY <1>1, ConstantsAssumption
<1>4. CASE CallMarzban(ch)
  BY <1>1, <1>2, <1>4
  DEF CallMarzban, Move, Booked, Accepted, CodeOpen, TrialOpen, rights, IsTrial
<1>5. CASE QueueTakes(ch)
  BY <1>1, <1>2, <1>5
  DEF QueueTakes, Move, Booked, Accepted, CodeOpen, TrialOpen, rights, IsTrial
<1>6. CASE Finalize(ch)
  <2>1. /\ pc[ch] = "finalize" /\ pc'[ch] = IF Marks(ch) THEN "mark" ELSE AfterGrant(ch)
        /\ payment'[ch] = "success" /\ UNCHANGED <<bill, uses, dead, retried>>
        /\ trialUsed \subseteq trialUsed' /\ (IsTrial(ch) => bill[ch].user \in trialUsed')
    BY <1>1, <1>2, <1>6 DEF Finalize, Move, GrantedStatus, TrialUsedBy
  <2>2. bill[ch].code # NoCode => Marks(ch)
    BY <1>3 DEF Marks
  <2>3. AfterGrant(ch) \in {"reward", "end"}
    BY <1>1, AfterGrantMoves
  <2>4. QED
    BY <1>1, <2>1, <2>2, <2>3 DEF Booked, Accepted, CodeOpen, TrialOpen, IsTrial
<1>7. CASE MarkPromoUsed(ch)
  <2>1. /\ pc[ch] = "mark" /\ pc'[ch] = AfterGrant(ch)
        /\ uses' = uses \cup {<<bill[ch].user, bill[ch].code>>}
        /\ UNCHANGED <<bill, payment, trialUsed, dead, retried>>
    BY <1>1, <1>2, <1>7 DEF MarkPromoUsed, Move, UseOf
  <2>2. AfterGrant(ch) \in {"reward", "end"}
    BY <1>1, AfterGrantMoves
  <2>3. QED
    BY <1>1, <2>1, <2>2 DEF Booked, Accepted, CodeOpen, TrialOpen, IsTrial
<1>8. CASE Die(ch)
  <2>1. /\ UNCHANGED <<bill, payment, uses, trialUsed, retried>> /\ pc'[ch] = AfterDeath(ch)
        /\ pc[ch] \notin {"none", "invoice", "approved", "queued", "end"}
        /\ dead' = IF ch \notin retried /\ pc[ch] \in {"call", "finalize", "mark"}
                   THEN dead \cup {ch} ELSE dead
    BY <1>1, <1>2, <1>8 DEF Die, Move, rights
  <2>2. AfterDeath(ch) = IF ch \in retried THEN "queued" ELSE "end"
    BY <1>1 DEF AfterDeath
  <2>3. QED
    BY <1>1, <2>1, <2>2 DEF Booked, Accepted, CodeOpen, TrialOpen, IsTrial
<1>9. CASE PreCheckout(ch) \/ TakeStars(ch)
  BY <1>1, <1>2, <1>9
  DEF PreCheckout, TakeStars, Move, Booked, Accepted, CodeOpen, TrialOpen, rights, IsTrial
<1>10. CASE ReadReward(ch) \/ MarkReward(ch) \/ GrantBonus(ch)
  BY <1>1, <1>2, <1>10
  DEF ReadReward, MarkReward, GrantBonus, Move, Booked, Accepted, CodeOpen, TrialOpen, rights, IsTrial
<1>11. QED
  BY <1>4, <1>5, <1>6, <1>7, <1>8, <1>9, <1>10

LEMMA LedgerNext == TypeInv /\ Ledger /\ [Next]_vars => Ledger'
<1> SUFFICES ASSUME TypeInv, Ledger, [Next]_vars PROVE Ledger'
  OBVIOUS
<1>a. /\ \A ch \in Purchases : ch \in Charges /\ ch \notin Gifts
      /\ \A u \in Users, c \in FreeCodes : <<u, c>> \in Charges /\ <<u, c>> \notin Purchases
  BY GiftFacts, ConstantsAssumption
<1>b. /\ pc \in [Charges -> ChargePC] /\ payment \in [Charges -> PaymentStatus]
      /\ bill \in [Charges -> Bill]
  BY DEF TypeInv, TypeOK
<1>1. CASE Surroundings \/ UNCHANGED vars \/ \E u \in Users, c \in Codes : ApplyDiscount(u, c)
  <2>1. UNCHANGED <<pc, payment, bill, retried, uses, trialUsed, dead, shared>>
    BY <1>1 DEF Surroundings, EditVisible, EditPrice, EditCode, WinDiscount, Expire, DayPasses,
                StartByLink, ApplyDiscount, vars, charges, rights
  <2>2. QED
    BY <2>1, LedgerFrame DEF Still, Growing, shared
<1>2. ASSUME NEW ch \in Purchases, NEW u \in Users, NEW p \in Plans, Invoice(ch, u, p)
      PROVE  Ledger'
  <2>1. /\ pc[ch] = "none" /\ pc'[ch] = "invoice"
        /\ UNCHANGED <<payment, retried, uses, trialUsed, dead, shared>>
        /\ \A q \in Charges : q # ch => pc'[q] = pc[q] /\ bill'[q] = bill[q]
    BY <1>2, <1>a, <1>b DEF Invoice, New, Move
  <2>2. payment[ch] = "none" /\ ch \notin retried
    BY <2>1 DEF Ledger, Booked, Accepted
  <2>3. Booked(ch)' /\ ~Accepted(ch)'
    BY <2>1, <2>2 DEF Booked, Accepted
  <2>4. QED
    BY <1>a, <2>1, <2>3, LedgerMove DEF Still, Growing, shared
<1>3. ASSUME NEW ch \in Purchases, OnSuccessfulPayment(ch) PROVE Ledger'
  <2>1. pc[ch] = "paid" /\ UNCHANGED <<bill, uses, trialUsed, dead, retried>>
    BY <1>3 DEF OnSuccessfulPayment, rights
  <2>2. CASE PurchaseAllowed(bill[ch])
    BY <1>3, <2>1, <2>2, LedgerAccept DEF OnSuccessfulPayment
  <2>3. CASE ~PurchaseAllowed(bill[ch])
    <3>1. /\ pc'[ch] = "end" /\ payment'[ch] = "validation_error" /\ UNCHANGED shared
          /\ \A q \in Charges : q # ch => pc'[q] = pc[q] /\ payment'[q] = payment[q]
      BY <1>3, <1>a, <1>b, <2>3 DEF OnSuccessfulPayment, Refuse, Move
    <3>2. ch \notin retried
      BY <2>1 DEF Ledger, Booked, Accepted
    <3>3. Booked(ch)' /\ ~Accepted(ch)'
      BY <2>1, <3>1, <3>2 DEF Booked, Accepted
    <3>4. QED
      BY <1>a, <2>1, <3>1, <3>3, LedgerMove DEF Still, Growing, shared
  <2>4. QED
    BY <2>2, <2>3
<1>4. ASSUME NEW ch \in Purchases,
             PreCheckout(ch) \/ TakeStars(ch) \/ ReadReward(ch) \/ MarkReward(ch) \/ GrantBonus(ch)
      PROVE  Ledger'
  <2>1. /\ UNCHANGED <<bill, payment, uses, trialUsed, dead, shared, retried>>
        /\ \A q \in Charges : q # ch => pc'[q] = pc[q]
    BY <1>4, <1>a, <1>b
    DEF PreCheckout, TakeStars, ReadReward, MarkReward, GrantBonus, Move, rights
  <2>2. Booked(ch)' /\ (Accepted(ch)' => Accepted(ch))
    BY <1>4, BookedStep
  <2>3. QED
    BY <1>a, <2>1, <2>2, LedgerMove DEF Still, Growing, shared
<1>5. ASSUME NEW u \in Users, NEW c \in FreeCodes, Redeem(u, c) PROVE Ledger'
  <2> DEFINE g == <<u, c>>
  <2>1. \A q \in Purchases : q # g
    BY <1>a
  <2>2. \A q \in Charges : q # g =>
           UNCHANGED <<pc[q], payment[q], bill[q]>>
    BY <1>5, <1>b
    DEF Redeem, BotPromo, ReservePromo, GrantReserved, WebPromo, Accept, Refuse, Move
  <2>3. retried' = retried /\ Growing
    BY <1>5
    DEF Redeem, BotPromo, ReservePromo, GrantReserved, WebPromo, Accept, Refuse, Growing, rights, shared
  <2> HIDE DEF g
  <2>4. \A q \in Purchases : Still(q)
    BY <1>a, <2>1, <2>2, <2>3 DEF Still
  <2>5. QED
    BY <2>3, <2>4, LedgerFrame
<1>6. ASSUME NEW ch \in Charges, Grant(ch) PROVE Ledger'
  <2>1. \A q \in Charges : q # ch => UNCHANGED <<pc[q], payment[q], bill[q]>>
    BY <1>6, <1>b DEF Grant, CallMarzban, QueueTakes, Finalize, MarkPromoUsed, Die, Move
  <2>2. bill' = bill /\ retried' \subseteq retried \cup {ch}
    BY <1>6 DEF Grant, CallMarzban, QueueTakes, Finalize, MarkPromoUsed, Die
  <2>3. Growing
    BY <1>6 DEF Grant, CallMarzban, QueueTakes, Finalize, MarkPromoUsed, Die, Growing, rights, shared
  <2>4. \A q \in Purchases : q # ch => Still(q)
    BY <1>a, <2>1, <2>2 DEF Still
  <2>5. CASE ch \in Purchases
    <3>1. Booked(ch)' /\ (Accepted(ch)' => Accepted(ch))
      BY <1>6, <2>5, BookedStep DEF Grant
    <3>2. QED
      BY <2>2, <2>3, <2>4, <2>5, <3>1, LedgerMove
  <2>6. CASE ch \notin Purchases
    BY <2>3, <2>4, <2>6, LedgerFrame
  <2>7. QED
    BY <2>5, <2>6
<1>7. QED
  BY <1>1, <1>2, <1>3, <1>4, <1>5, <1>6 DEF Next, Purchase

\* A set whose elements are all the same.
LEMMA AtMostOne ==
    ASSUME NEW S, \A p, q \in S : p = q
    PROVE  Cardinality(S) <= 1
<1>1. CASE S = {}
  BY <1>1, FS_EmptySet
<1>2. ASSUME NEW p \in S PROVE Cardinality(S) <= 1
  <2>1. S = {p}
    BY <1>2
  <2>2. Cardinality({p}) = 1
    BY FS_Singleton
  <2>3. QED
    BY <2>1, <2>2
<1>3. QED
  BY <1>1, <1>2

LEMMA LedgerSuffices == TypeInv /\ Ledger => DiscountHadOnce /\ TrialHadOnce
<1> SUFFICES ASSUME TypeInv, Ledger PROVE DiscountHadOnce /\ TrialHadOnce
  OBVIOUS
<1>1. DiscountHadOnce
  <2> SUFFICES ASSUME NEW u \in Users, NEW c \in Codes, Promo[c].once_per_user
               PROVE  Cardinality({ch \in Purchases \ sharedCode :
                                      Bought(ch, u) /\ bill[ch].code = c}) <= 1
    BY DEF DiscountHadOnce
  <2> DEFINE S == {ch \in Purchases \ sharedCode : Bought(ch, u) /\ bill[ch].code = c}
  <2>1. c # NoCode
    BY ConstantsAssumption
  <2>2. \A p, q \in S : p = q
    BY <2>1 DEF Ledger, CodeTwins, Bought, Accepted
  <2> HIDE DEF S
  <2>3. Cardinality(S) <= 1
    BY <2>2, AtMostOne
  <2>4. QED
    BY <2>3 DEF S
<1>2. TrialHadOnce
  <2> SUFFICES ASSUME NEW u \in Users
               PROVE  Cardinality({ch \in Purchases \ sharedTrial :
                                      Bought(ch, u) /\ IsTrial(ch)}) <= 1
    BY DEF TrialHadOnce
  <2> DEFINE S == {ch \in Purchases \ sharedTrial : Bought(ch, u) /\ IsTrial(ch)}
  <2>1. \A p, q \in S : p = q
    BY DEF Ledger, TrialTwins, Bought, Accepted
  <2> HIDE DEF S
  <2>2. Cardinality(S) <= 1
    BY <2>1, AtMostOne
  <2>3. QED
    BY <2>2 DEF S
<1>3. QED
  BY <1>1, <1>2

LEMMA LedgerHolds == Spec => [](TypeInv /\ Ledger)
<1>1. Init => TypeInv /\ Ledger
  BY TypeInit, LedgerInit
<1>2. TypeInv /\ Ledger /\ [Next]_vars => (TypeInv /\ Ledger)'
  BY TypeNext, BilledNext, LedgerNext DEF TypeInv
<1>3. QED
  BY <1>1, <1>2, PTL DEF Spec

\* A once-per-user discount and the trial are had once: however many invoices a
\* user opens, gets approved and pays with it, the second purchase that gets it
\* was accepted while the first was under way, or after its handler died.
THEOREM RightsOnce == Spec => []HadOnce
<1>1. TypeInv /\ Ledger => HadOnce
  BY LedgerSuffices DEF HadOnce
<1>2. QED
  BY <1>1, LedgerHolds, PTL

-----------------------------------------------------------------------------
(* Referral bonuses are earned, and once.                                   *)

\* What a purchase has on its way to the bonus.
Earned(ch) ==
    /\ pc[ch] = "mark" => payment[ch] = "success"
    /\ pc[ch] \in {"reward", "reward_mark", "bonus"} \/ ch \in bonused =>
          /\ payment[ch] = "success" /\ bill[ch].amount >= MinPaymentStars
          /\ ch \notin retried
    /\ pc[ch] \in {"reward_mark", "bonus"} \/ ch \in bonused =>
          ReferrerOf(ch) \notin {NoUser, bill[ch].user}
    /\ ch \in bonused => pc[ch] \in {"bonus", "end"} /\ bill[ch].user \in rewarded

\* A purchase that may still let a bonus go, or did.
Candidate(ch) == pc[ch] = "reward_mark" \/ ch \in bonused

Bonuses ==
    /\ \A u \in Users : referredBy[u] # u
    /\ \A ch \in Purchases : Earned(ch)
    /\ \A p, q \in Purchases \ sharedReward :
          Candidate(p) /\ Candidate(q) /\ bill[p].user = bill[q].user => p = q

LEMMA BonusesInit == Init => Bonuses
BY ConstantsAssumption, GiftFacts DEF Init, Bonuses, Earned, Candidate

\* One purchase moves, and none is read to deserve a reward.
LEMMA BonusesMove ==
    ASSUME TypeInv, Bonuses, NEW ch \in Purchases,
           \A p \in Purchases : p # ch =>
               Still(p) /\ (p \in bonused' => p \in bonused),
           UNCHANGED <<referredBy, sharedReward>>, rewarded \subseteq rewarded',
           Earned(ch)',
           Candidate(ch)' => Candidate(ch) /\ bill'[ch] = bill[ch]
    PROVE  Bonuses'
<1>1. \A p \in Purchases : Earned(p)'
  BY DEF Bonuses, Earned, ReferrerOf, Still
<1>2. \A p \in Purchases : Candidate(p)' => Candidate(p) /\ bill'[p] = bill[p]
  BY DEF Candidate, Still
<1>3. QED
  BY <1>1, <1>2 DEF Bonuses

\* No purchase moves; a user may come to a referrer for the first time.
LEMMA BonusesFrame ==
    ASSUME TypeInv, Bonuses,
           \A p \in Purchases : Still(p),
           UNCHANGED <<bonused, sharedReward, rewarded>>,
           \A u \in Users : /\ referredBy'[u] # u
                            /\ referredBy[u] # NoUser => referredBy'[u] = referredBy[u]
    PROVE  Bonuses'
<1>1. ASSUME NEW p \in Purchases, Candidate(p) \/ pc[p] = "bonus"
      PROVE  bill[p].user \in Users /\ ReferrerOf(p)' = ReferrerOf(p)
  <2>1. p \in Charges /\ pc[p] # "none" /\ ReferrerOf(p) # NoUser
    BY <1>1, GiftFacts DEF Bonuses, Earned, Candidate
  <2>2. bill[p].user \in Users
    BY <2>1 DEF TypeInv, Billed
  <2>3. bill'[p] = bill[p]
    BY DEF Still
  <2>4. referredBy'[bill[p].user] = referredBy[bill[p].user]
    BY <2>1, <2>2 DEF ReferrerOf
  <2>5. QED
    BY <2>2, <2>3, <2>4 DEF ReferrerOf
<1>2. \A p \in Purchases : Earned(p)'
  BY <1>1 DEF Bonuses, Earned, Candidate, Still
<1>3. \A p \in Purchases : (Candidate(p)' => Candidate(p)) /\ bill'[p] = bill[p]
  BY DEF Candidate, Still
<1>4. QED
  BY <1>2, <1>3 DEF Bonuses

LEMMA BonusesNext == TypeInv /\ Bonuses /\ [Next]_vars => Bonuses'
<1> SUFFICES ASSUME TypeInv, Bonuses, [Next]_vars PROVE Bonuses'
  OBVIOUS
<1>a. /\ \A ch \in Purchases : ch \in Charges /\ ch \notin Gifts
      /\ \A u \in Users, c \in FreeCodes : <<u, c>> \in Charges /\ <<u, c>> \notin Purchases
  BY GiftFacts, ConstantsAssumption
<1>b. /\ pc \in [Charges -> ChargePC] /\ payment \in [Charges -> PaymentStatus]
      /\ bill \in [Charges -> Bill] /\ referredBy \in [Users -> Referrers \cup {NoUser}]
  BY DEF TypeInv, TypeOK
<1>1. CASE Surroundings \/ UNCHANGED vars \/ \E u \in Users, c \in Codes : ApplyDiscount(u, c)
  <2>1. UNCHANGED <<pc, payment, bill, bonused, sharedReward, rewarded, retried>>
    BY <1>1 DEF Surroundings, EditVisible, EditPrice, EditCode, WinDiscount, Expire, DayPasses,
                StartByLink, ApplyDiscount, vars, charges, people, rewards
  <2>2. \/ referredBy' = referredBy
        \/ \E u \in Users, r \in Referrers :
              r # u /\ referredBy[u] = NoUser /\ referredBy' = [referredBy EXCEPT ![u] = r]
    BY <1>1 DEF Surroundings, EditVisible, EditPrice, EditCode, WinDiscount, Expire, DayPasses,
                StartByLink, ApplyDiscount, vars, people
  <2>3. \A u \in Users : /\ referredBy'[u] # u
                         /\ referredBy[u] # NoUser => referredBy'[u] = referredBy[u]
    BY <1>b, <2>2 DEF Bonuses
  <2>4. QED
    BY <2>1, <2>3, BonusesFrame DEF Still
<1>2. ASSUME NEW ch \in Purchases,
             \/ \E u \in Users, p \in Plans : Invoice(ch, u, p)
             \/ PreCheckout(ch) \/ TakeStars(ch) \/ OnSuccessfulPayment(ch)
      PROVE  Bonuses'
  <2>1. /\ pc[ch] \in {"none", "invoice", "approved", "paid"}
        /\ UNCHANGED <<referredBy, sharedReward, rewarded, bonused, retried>>
        /\ \A q \in Charges : q # ch => UNCHANGED <<pc[q], payment[q], bill[q]>>
        /\ pc'[ch] \in {"invoice", "approved", "paid", "call", "end"}
    BY <1>2, <1>a, <1>b
    DEF Invoice, New, PreCheckout, TakeStars, OnSuccessfulPayment, Accept, Refuse, Move, people, rewards
  <2>2. ch \notin bonused
    BY <2>1 DEF Bonuses, Earned
  <2>3. Earned(ch)' /\ ~Candidate(ch)'
    BY <2>1, <2>2 DEF Earned, Candidate
  <2>4. QED
    BY <1>a, <2>1, <2>3, BonusesMove DEF Still
<1>3. ASSUME NEW u \in Users, NEW c \in FreeCodes, Redeem(u, c) PROVE Bonuses'
  <2>1. /\ UNCHANGED <<referredBy, sharedReward, rewarded, bonused, retried>>
        /\ \A q \in Charges : q # <<u, c>> => UNCHANGED <<pc[q], payment[q], bill[q]>>
    BY <1>3, <1>b DEF Redeem, BotPromo, ReservePromo, GrantReserved, WebPromo, Accept, Refuse,
                      Move, people, rewards
  <2>2. QED
    BY <1>a, <1>b, <2>1, BonusesFrame DEF Bonuses, Still
<1>4. ASSUME NEW ch \in Charges, Grant(ch) PROVE Bonuses'
  <2>1. /\ UNCHANGED <<referredBy, sharedReward, rewarded, bonused, bill>>
        /\ retried' \subseteq retried \cup {ch}
        /\ \A q \in Charges : q # ch => UNCHANGED <<pc[q], payment[q], bill[q]>>
    BY <1>4, <1>b
    DEF Grant, CallMarzban, QueueTakes, Finalize, MarkPromoUsed, Die, Move, people, rewards
  <2>2. CASE ch \notin Purchases
    BY <1>a, <1>b, <2>1, <2>2, BonusesFrame DEF Bonuses, Still
  <2>3. CASE ch \in Purchases
    <3>1. Earned(ch)
      BY <2>3 DEF Bonuses
    <3>2. CASE CallMarzban(ch) \/ QueueTakes(ch)
      <4>1. /\ pc[ch] \in {"call", "queued"} /\ pc'[ch] \in {"call", "queued", "finalize"}
        BY <1>a, <1>b, <2>3, <3>2 DEF CallMarzban, QueueTakes, Move
      <4>2. ch \notin bonused
        BY <3>1, <4>1 DEF Earned
      <4>3. Earned(ch)' /\ ~Candidate(ch)'
        BY <2>1, <4>1, <4>2 DEF Earned, Candidate
      <4>4. QED
        BY <1>a, <2>1, <2>3, <4>3, BonusesMove DEF Still
    <3>3. CASE Finalize(ch) \/ MarkPromoUsed(ch)
      <4>1. /\ retried' = retried /\ pc[ch] \in {"finalize", "mark"}
            /\ pc'[ch] \in {"mark", AfterGrant(ch)}
        BY <1>a, <1>b, <2>3, <3>3 DEF Finalize, MarkPromoUsed, Move
      <4>2. payment'[ch] = "success"
        BY <1>a, <1>b, <2>3, <3>1, <3>3 DEF Finalize, MarkPromoUsed, GrantedStatus, Earned
      <4>3. ch \notin bonused
        BY <3>1, <4>1 DEF Earned
      <4>4. \/ AfterGrant(ch) = "reward" /\ bill[ch].amount >= MinPaymentStars /\ ch \notin retried
            \/ AfterGrant(ch) = "end"
        BY DEF AfterGrant, Rewards
      <4>5. Earned(ch)' /\ ~Candidate(ch)'
        BY <2>1, <4>1, <4>2, <4>3, <4>4 DEF Earned, Candidate
      <4>6. QED
        BY <1>a, <2>1, <2>3, <4>5, BonusesMove DEF Still
    <3>4. CASE Die(ch)
      <4>1. /\ pc'[ch] \in {"queued", "none", "end"} /\ payment' = payment /\ retried' = retried
            /\ ch \in retried \/ pc[ch] = "reserve" \/ pc'[ch] = "end"
        BY <1>a, <1>b, <2>3, <3>4 DEF Die, AfterDeath, Move
      <4>2. ch \in bonused => pc'[ch] = "end"
        BY <2>3, <3>1, <4>1 DEF Earned
      <4>3. Earned(ch)' /\ (Candidate(ch)' => Candidate(ch))
        BY <2>1, <3>1, <4>1, <4>2 DEF Earned, Candidate, ReferrerOf
      <4>4. QED
        BY <1>a, <2>1, <2>3, <4>3, BonusesMove DEF Still
    <3>5. QED
      BY <1>4, <3>2, <3>3, <3>4 DEF Grant
  <2>4. QED
    BY <2>2, <2>3
<1>5. ASSUME NEW ch \in Purchases, ReadReward(ch) PROVE Bonuses'
  <2>1. /\ pc[ch] = "reward" /\ UNCHANGED <<referredBy, rewarded, bonused, bill, payment, retried>>
        /\ \A q \in Charges : q # ch => pc'[q] = pc[q]
    BY <1>5, <1>a, <1>b DEF ReadReward, Move, people
  <2>2. Earned(ch) /\ ch \notin bonused /\ bill[ch].user \in Users
    BY <1>a, <2>1 DEF Bonuses, Earned, TypeInv, Billed
  <2>3. CASE ~RewardDue(ch)
    <3>1. pc'[ch] = "end" /\ sharedReward' = sharedReward
      BY <1>5, <1>a, <1>b, <2>3 DEF ReadReward, Move
    <3>2. Earned(ch)' /\ ~Candidate(ch)'
      BY <2>1, <2>2, <3>1 DEF Earned, Candidate
    <3>3. QED
      BY <1>a, <2>1, <3>1, <3>2, BonusesMove DEF Still
  <2>4. CASE RewardDue(ch)
    <3>1. /\ pc'[ch] = "reward_mark" /\ sharedReward \subseteq sharedReward'
          /\ (\E d \in Purchases : pc[d] = "reward_mark" /\ ReferrerOf(d) = ReferrerOf(ch))
                => ch \in sharedReward'
      BY <1>5, <1>a, <1>b, <2>4 DEF ReadReward, Move
    <3>2. ReferrerOf(ch) \notin {NoUser, bill[ch].user} /\ bill[ch].user \notin rewarded
      BY <2>2, <2>4 DEF RewardDue, ReferrerOf, Bonuses
    <3>3. Earned(ch)'
      BY <2>1, <2>2, <3>1, <3>2 DEF Earned, ReferrerOf
    <3>4. \A p \in Purchases : Earned(p)'
      BY <1>a, <2>1, <3>3 DEF Bonuses, Earned, ReferrerOf
    <3>5. ASSUME NEW p \in Purchases \ {ch}, Candidate(p)', bill'[p].user = bill'[ch].user
          PROVE  ch \in sharedReward'
      <4>1. pc[p] = "reward_mark" \/ p \in bonused
        BY <1>a, <2>1, <3>5 DEF Candidate
      <4>2. p \notin bonused
        BY <2>1, <3>2, <3>5 DEF Bonuses, Earned
      <4>3. ReferrerOf(p) = ReferrerOf(ch)
        BY <2>1, <3>5 DEF ReferrerOf
      <4>4. QED
        BY <3>1, <4>1, <4>2, <4>3
    <3>6. \A p \in Purchases \ {ch} : Candidate(p)' => Candidate(p) /\ bill'[p] = bill[p]
      BY <1>a, <2>1 DEF Candidate
    <3>7. QED
      BY <2>1, <3>1, <3>4, <3>5, <3>6 DEF Bonuses
  <2>5. QED
    BY <2>3, <2>4
<1>6. ASSUME NEW ch \in Purchases, MarkReward(ch) \/ GrantBonus(ch) PROVE Bonuses'
  <2>1. /\ UNCHANGED <<referredBy, bill, payment, retried, sharedReward>>
        /\ rewarded \subseteq rewarded'
        /\ \A q \in Charges : q # ch => pc'[q] = pc[q] /\ (q \in bonused' => q \in bonused)
    BY <1>6, <1>a, <1>b DEF MarkReward, GrantBonus, Move, rewards
  <2>2. Earned(ch)
    BY DEF Bonuses
  <2>3. CASE MarkReward(ch)
    <3>1. /\ pc[ch] = "reward_mark" /\ bill[ch].user \in rewarded'
          /\ pc'[ch] \in {"bonus", "end"}
      BY <1>a, <1>b, <2>3 DEF MarkReward, Move
    <3>2. Earned(ch)' /\ Candidate(ch)
      BY <2>1, <2>2, <3>1 DEF Earned, Candidate, ReferrerOf
    <3>3. QED
      BY <1>a, <2>1, <3>2, BonusesMove DEF Still
  <2>4. CASE GrantBonus(ch)
    <3>1. pc[ch] = "bonus" /\ pc'[ch] = "end" /\ UNCHANGED <<rewarded, bonused>>
      BY <1>a, <1>b, <2>4 DEF GrantBonus, Move, rewards
    <3>2. Earned(ch)' /\ (Candidate(ch)' => Candidate(ch))
      BY <2>1, <2>2, <3>1 DEF Earned, Candidate, ReferrerOf
    <3>3. QED
      BY <1>a, <2>1, <3>1, <3>2, BonusesMove DEF Still
  <2>5. QED
    BY <1>6, <2>3, <2>4
<1>7. QED
  BY <1>1, <1>2, <1>3, <1>4, <1>5, <1>6 DEF Next, Purchase

LEMMA BonusesSuffice == TypeInv /\ Bonuses => BonusIsEarned
<1> SUFFICES ASSUME TypeInv, Bonuses PROVE BonusIsEarned
  OBVIOUS
<1>1. bonused \subseteq Purchases
  BY DEF TypeInv, TypeOK
<1>2. \A ch \in bonused : /\ payment[ch] = "success" /\ bill[ch].amount >= MinPaymentStars
                          /\ ReferrerOf(ch) \notin {NoUser, bill[ch].user}
  BY <1>1 DEF Bonuses, Earned
<1>3. ASSUME NEW f \in Users
      PROVE  Cardinality({ch \in bonused \ sharedReward : bill[ch].user = f}) <= 1
  <2> DEFINE S == {ch \in bonused \ sharedReward : bill[ch].user = f}
  <2>1. \A p, q \in S : p = q
    BY <1>1 DEF Bonuses, Candidate
  <2> HIDE DEF S
  <2>2. Cardinality(S) <= 1
    BY <2>1, AtMostOne
  <2>3. QED
    BY <2>2 DEF S
<1>4. QED
  BY <1>2, <1>3 DEF BonusIsEarned

\* A referral bonus is let go only by a granted purchase of MinPaymentStars,
\* of a friend somebody else invited; and by one purchase of that friend,
\* unless two of them were read at the same time.
THEOREM BonusEarned == Spec => []BonusIsEarned
<1>1. Init => TypeInv /\ Bonuses
  BY TypeInit, BonusesInit
<1>2. TypeInv /\ Bonuses /\ [Next]_vars => (TypeInv /\ Bonuses)'
  BY TypeNext, BilledNext, BonusesNext DEF TypeInv
<1>3. QED
  BY <1>1, <1>2, BonusesSuffice, PTL DEF Spec

-----------------------------------------------------------------------------
(* A code is not burned: what was not reserved was granted.                 *)

\* A charge that was granted and has nothing left to do with its code.
Settled(ch) == pc[ch] \in {"reward", "reward_mark", "bonus", "end"} /\ payment[ch] = "success"

\* What is marked was granted; the worker has no part in a reward; and only
\* the bot reserves.
Marked ==
    /\ \A ch \in Charges : /\ pc[ch] = "mark" => payment[ch] = "success"
                           /\ pc[ch] \in {"reward", "reward_mark", "bonus"} => ch \notin retried
    /\ \A g \in Gifts : pc[g] = "reserve" => door[g] = "bot"

\* The uses that nobody reserved.
Unreserved(u, c) == <<u, c>> \in uses /\ (c \in FreeCodes => door[<<u, c>>] # "bot")

UsesSettled ==
    \A u \in Users, c \in Codes : Unreserved(u, c) =>
        \E ch \in Charges : Settled(ch) /\ bill[ch].user = u /\ bill[ch].code = c

LEMMA UsesInit == Init => Marked /\ UsesSettled
BY GiftFacts DEF Init, Marked, UsesSettled, Unreserved

\* What is marked stays granted, whoever moves.
LEMMA MarkedNext == TypeInv /\ Marked /\ [Next]_vars => Marked'
<1> SUFFICES ASSUME TypeInv, Marked, [Next]_vars PROVE Marked'
  OBVIOUS
<1>a. /\ \A ch \in Purchases : ch \in Charges /\ ch \notin Gifts
      /\ \A u \in Users, c \in FreeCodes : <<u, c>> \in Charges /\ <<u, c>> \in Gifts
      /\ \A g \in Gifts : g \in Charges
  BY GiftFacts, ConstantsAssumption
<1>b. /\ pc \in [Charges -> ChargePC] /\ payment \in [Charges -> PaymentStatus]
      /\ door \in [Charges -> DoorNames] /\ retried \subseteq Charges
  BY DEF TypeInv, TypeOK
\* One charge moves.
<1>0. ASSUME NEW ch \in Charges, NEW next, pc' = [pc EXCEPT ![ch] = next],
             \A d \in Charges : d # ch => payment'[d] = payment[d] /\ door'[d] = door[d],
             retried' \subseteq retried \cup {ch},
             next = "mark" => payment'[ch] = "success",
             next \in {"reward", "reward_mark", "bonus"} => ch \notin retried',
             next = "reserve" => door'[ch] = "bot"
      PROVE  Marked'
  BY <1>0, <1>a, <1>b DEF Marked
<1>1. CASE Surroundings \/ UNCHANGED vars \/ \E u \in Users, c \in Codes : ApplyDiscount(u, c)
  <2>1. UNCHANGED <<pc, payment, door, retried>>
    BY <1>1 DEF Surroundings, EditVisible, EditPrice, EditCode, WinDiscount, Expire, DayPasses,
                StartByLink, ApplyDiscount, vars, charges
  <2>2. QED
    BY <2>1 DEF Marked
<1>2. ASSUME NEW ch \in Purchases,
             \/ \E u \in Users, p \in Plans : Invoice(ch, u, p)
             \/ PreCheckout(ch) \/ TakeStars(ch) \/ OnSuccessfulPayment(ch)
      PROVE  Marked'
  <2>1. /\ \E next \in {"invoice", "approved", "paid", "call", "end"} : pc' = [pc EXCEPT ![ch] = next]
        /\ UNCHANGED <<door, retried>> /\ \A d \in Charges : d # ch => payment'[d] = payment[d]
    BY <1>2, <1>a, <1>b
    DEF Invoice, PreCheckout, TakeStars, OnSuccessfulPayment, Accept, Refuse, Move
  <2>2. QED
    BY <1>0, <1>a, <2>1
<1>3. ASSUME NEW ch \in Purchases, ReadReward(ch) \/ MarkReward(ch) \/ GrantBonus(ch)
      PROVE  Marked'
  <2>1. /\ \E next \in {"reward_mark", "bonus", "end"} : pc' = [pc EXCEPT ![ch] = next]
        /\ UNCHANGED <<door, retried, payment>> /\ pc[ch] \in {"reward", "reward_mark", "bonus"}
    BY <1>3 DEF ReadReward, MarkReward, GrantBonus, Move
  <2>2. ch \notin retried
    BY <1>a, <2>1 DEF Marked
  <2>3. QED
    BY <1>0, <1>a, <2>1, <2>2
<1>4. ASSUME NEW u \in Users, NEW c \in FreeCodes, Redeem(u, c) PROVE Marked'
  <2> DEFINE g == <<u, c>>
  <2>0. g \in Charges
    BY <1>a
  <2>1. /\ \E next \in {"reserve", "none", "accept", "call", "end"} :
              /\ pc' = [pc EXCEPT ![g] = next]
              /\ next = "reserve" => door' = [door EXCEPT ![g] = "bot"]
        /\ \A d \in Charges : d # g => payment'[d] = payment[d] /\ door'[d] = door[d]
        /\ UNCHANGED retried
    BY <1>4, <1>b
    DEF Redeem, BotPromo, ReservePromo, GrantReserved, WebPromo, Accept, Refuse, Move
  <2> HIDE DEF g
  <2>2. QED
    BY <1>0, <1>b, <2>0, <2>1
<1>5. ASSUME NEW ch \in Charges, CallMarzban(ch) \/ QueueTakes(ch) PROVE Marked'
  <2>1. /\ \E next \in {"finalize", "queued", "call"} : pc' = [pc EXCEPT ![ch] = next]
        /\ \A d \in Charges : d # ch => payment'[d] = payment[d]
        /\ door' = door /\ retried' \subseteq retried \cup {ch}
    BY <1>5, <1>b DEF CallMarzban, QueueTakes, Move
  <2>2. QED
    BY <1>0, <2>1
<1>6. ASSUME NEW ch \in Charges, Finalize(ch) \/ MarkPromoUsed(ch) PROVE Marked'
  <2>1. /\ \E next \in {"mark", AfterGrant(ch)} : pc' = [pc EXCEPT ![ch] = next]
        /\ \A d \in Charges : d # ch => payment'[d] = payment[d]
        /\ UNCHANGED <<door, retried>> /\ payment'[ch] = "success"
    BY <1>6, <1>b DEF Finalize, MarkPromoUsed, Move, GrantedStatus, Marked
  <2>2. AfterGrant(ch) = "end" \/ (AfterGrant(ch) = "reward" /\ ch \notin retried)
    BY DEF AfterGrant, Rewards
  <2>3. QED
    BY <1>0, <2>1, <2>2
<1>7. ASSUME NEW ch \in Charges, Die(ch) PROVE Marked'
  <2>1. /\ \E next \in {"queued", "none", "end"} : pc' = [pc EXCEPT ![ch] = next]
        /\ UNCHANGED <<door, retried, payment>>
    BY <1>7 DEF Die, AfterDeath, Move
  <2>2. QED
    BY <1>0, <2>1
<1>8. QED
  BY <1>1, <1>2, <1>3, <1>4, <1>5, <1>6, <1>7 DEF Next, Purchase, Grant

\* Nothing happens any more to the grant of a settled charge.
LEMMA SettledStays ==
    ASSUME TypeInv, Marked, [Next]_vars, NEW ch \in Charges, Settled(ch)
    PROVE  Settled(ch)' /\ bill'[ch] = bill[ch]
<1>a. /\ \A d \in Purchases : d \in Charges /\ d \notin Gifts
      /\ \A u \in Users, c \in FreeCodes : <<u, c>> \in Charges /\ <<u, c>> \in Gifts
  BY GiftFacts, ConstantsAssumption
<1>b. /\ pc \in [Charges -> ChargePC] /\ payment \in [Charges -> PaymentStatus]
      /\ bill \in [Charges -> Bill]
  BY DEF TypeInv, TypeOK
<1>c. /\ pc[ch] \in {"reward", "reward_mark", "bonus", "end"}
      /\ pc[ch] # "end" => ch \notin retried
  BY DEF Settled, Marked
\* Another charge moves.
<1>0. ASSUME UNCHANGED <<pc[ch], payment[ch], bill[ch]>> PROVE Settled(ch)' /\ bill'[ch] = bill[ch]
  BY <1>0 DEF Settled
<1>1. CASE Surroundings \/ UNCHANGED vars \/ \E u \in Users, c \in Codes : ApplyDiscount(u, c)
  BY <1>0, <1>1 DEF Surroundings, EditVisible, EditPrice, EditCode, WinDiscount, Expire, DayPasses,
                StartByLink, ApplyDiscount, vars, charges
<1>2. ASSUME NEW d \in Purchases,
             \/ \E u \in Users, p \in Plans : Invoice(d, u, p)
             \/ PreCheckout(d) \/ TakeStars(d) \/ OnSuccessfulPayment(d)
      PROVE  UNCHANGED <<pc[ch], payment[ch], bill[ch]>>
  BY <1>2, <1>a, <1>b, <1>c
  DEF Invoice, New, PreCheckout, TakeStars, OnSuccessfulPayment, Accept, Refuse, Move
<1>3. ASSUME NEW d \in Purchases, ReadReward(d) \/ MarkReward(d) \/ GrantBonus(d)
      PROVE  Settled(ch)' /\ bill'[ch] = bill[ch]
  BY <1>3, <1>a, <1>b DEF ReadReward, MarkReward, GrantBonus, Move, Settled
<1>4. ASSUME NEW u \in Users, NEW c \in FreeCodes, Redeem(u, c)
      PROVE  UNCHANGED <<pc[ch], payment[ch], bill[ch]>>
  BY <1>4, <1>a, <1>b, <1>c
  DEF Redeem, BotPromo, New, ReservePromo, GrantReserved, WebPromo, Accept, Refuse, Move
<1>5. ASSUME NEW d \in Charges,
             CallMarzban(d) \/ QueueTakes(d) \/ Finalize(d) \/ MarkPromoUsed(d)
      PROVE  UNCHANGED <<pc[ch], payment[ch], bill[ch]>>
  BY <1>5, <1>b, <1>c DEF CallMarzban, QueueTakes, Finalize, MarkPromoUsed, Move
<1>6. ASSUME NEW d \in Charges, Die(d) PROVE Settled(ch)' /\ bill'[ch] = bill[ch]
  BY <1>6, <1>b, <1>c DEF Die, AfterDeath, Move, Settled
<1>7. QED
  BY <1>0, <1>1, <1>2, <1>3, <1>4, <1>5, <1>6 DEF Next, Purchase, Grant

LEMMA UsesNext ==
    TypeInv /\ Reserved /\ Marked /\ UsesSettled /\ [Next]_vars => UsesSettled'
<1> SUFFICES ASSUME TypeInv, Reserved, Marked, UsesSettled, [Next]_vars PROVE UsesSettled'
  OBVIOUS
<1>a. /\ \A u \in Users, c \in FreeCodes : <<u, c>> \in Charges /\ <<u, c>> \in Gifts
      /\ FreeCodes \subseteq Codes
  BY GiftFacts, ConstantsAssumption
<1>b. /\ pc \in [Charges -> ChargePC] /\ door \in [Charges -> DoorNames]
  BY DEF TypeInv, TypeOK
\* The doors of the codes that are used, and what is newly used.
<1>1. ASSUME NEW ch \in Charges, MarkPromoUsed(ch)
      PROVE  /\ UNCHANGED door /\ uses' = uses \cup {<<bill[ch].user, bill[ch].code>>}
             /\ Settled(ch)' /\ bill' = bill
  <2>1. AfterGrant(ch) \in {"reward", "end"} /\ payment[ch] = "success"
    BY <1>1, AfterGrantMoves DEF Marked, MarkPromoUsed
  <2>2. QED
    BY <1>1, <1>b, <2>1 DEF MarkPromoUsed, Move, UseOf, Settled
<1>2. ASSUME NEW g \in Users, NEW f \in FreeCodes, Redeem(g, f),
             NEW u \in Users, NEW c \in Codes, Unreserved(u, c)'
      PROVE  Unreserved(u, c)
  <2>1. CASE <<u, c>> # <<g, f>>
    BY <1>2, <1>a, <1>b, <2>1
    DEF Redeem, BotPromo, ReservePromo, GrantReserved, WebPromo, Unreserved, rights
  <2>2. CASE u = g /\ c = f
    <3>1. CASE BotPromo(g, f) \/ WebPromo(g, f)
      <4>1. <<u, c>> \notin uses'
        BY <1>a, <2>2, <3>1 DEF BotPromo, WebPromo, New, Reserved, rights
      <4>2. QED
        BY <1>2, <4>1 DEF Unreserved
    <3>2. CASE ReservePromo(g, f)
      <4>1. door'[<<u, c>>] = "bot"
        BY <1>a, <2>2, <3>2 DEF ReservePromo, Marked
      <4>2. QED
        BY <1>2, <2>2, <4>1 DEF Unreserved
    <3>3. CASE GrantReserved(g, f)
      BY <1>2, <3>3 DEF GrantReserved, rights, Unreserved
    <3>4. QED
      BY <1>2, <3>1, <3>2, <3>3 DEF Redeem
  <2>3. QED
    BY <2>1, <2>2
<1>3. ASSUME ~ \E ch \in Charges : MarkPromoUsed(ch),
             ~ \E g \in Users, f \in FreeCodes : Redeem(g, f)
      PROVE  UNCHANGED <<uses, door>>
  BY <1>3 DEF Next, Surroundings, EditVisible, EditPrice, EditCode, WinDiscount, Expire, DayPasses,
     StartByLink, ApplyDiscount, Purchase, Invoice, PreCheckout, TakeStars, OnSuccessfulPayment,
     ReadReward, MarkReward, GrantBonus, Grant, CallMarzban, QueueTakes, Finalize, Die,
     vars, charges, rights
<1>4. ASSUME NEW u \in Users, NEW c \in Codes, Unreserved(u, c)'
      PROVE  \E ch \in Charges : Settled(ch)' /\ bill'[ch].user = u /\ bill'[ch].code = c
  <2>1. ASSUME Unreserved(u, c)
        PROVE  \E ch \in Charges : Settled(ch)' /\ bill'[ch].user = u /\ bill'[ch].code = c
    <3>1. PICK ch \in Charges : Settled(ch) /\ bill[ch].user = u /\ bill[ch].code = c
      BY <2>1 DEF UsesSettled
    <3>2. Settled(ch)' /\ bill'[ch] = bill[ch]
      BY <3>1, SettledStays
    <3>3. QED
      BY <3>1, <3>2
  <2>2. ASSUME NEW ch \in Charges, MarkPromoUsed(ch)
        PROVE  Unreserved(u, c) \/ (Settled(ch)' /\ bill'[ch].user = u /\ bill'[ch].code = c)
    BY <1>1, <1>4, <2>2 DEF Unreserved
  <2>3. ASSUME ~ \E ch \in Charges : MarkPromoUsed(ch),
               ~ \E g \in Users, f \in FreeCodes : Redeem(g, f)
        PROVE  Unreserved(u, c)
    BY <1>3, <1>4, <2>3 DEF Unreserved
  <2>4. QED
    BY <1>2, <1>4, <2>1, <2>2, <2>3
<1>5. QED
  BY <1>4 DEF UsesSettled

\* A code is not burned: a use that the bot did not reserve belongs to a
\* granted charge of that user and code.
THEOREM UsesAreGranted == Spec => []UseMeansGrant
<1>1. Init => TypeInv /\ Reserved /\ Marked /\ UsesSettled
  BY TypeInit, ReservedInit, UsesInit
<1>2. TypeInv /\ Reserved /\ Marked /\ UsesSettled /\ [Next]_vars
        => (TypeInv /\ Reserved /\ Marked /\ UsesSettled)'
  BY TypeNext, BilledNext, ReservedNext, MarkedNext, UsesNext DEF TypeInv
<1>3. UsesSettled => UseMeansGrant
  BY DEF UsesSettled, Unreserved, Settled, UseMeansGrant
<1>4. QED
  BY <1>1, <1>2, <1>3, PTL DEF Spec

-----------------------------------------------------------------------------
(* The cap on a referrer's bonuses for friends of the last day.             *)

\* A purchase that let a bonus go, or was read to deserve it.
Chosen(ch) == ch \in bonused \/ (pc[ch] = "reward_mark" /\ ch \in verdict)

Heirs(r) == {ch \in Purchases \ sharedReward :
                Chosen(ch) /\ ReferrerOf(ch) = r /\ bill[ch].user \in fresh}

Capped ==
    /\ \A ch \in verdict : pc[ch] \in {"reward_mark", "bonus", "end"}
    /\ \A r \in Referrers : Cardinality(Heirs(r)) <= MaxPerDay

LEMMA HeirsFinite == \A r : IsFiniteSet(Heirs(r)) /\ Cardinality(Heirs(r)) \in Nat
<1> SUFFICES ASSUME NEW r PROVE IsFiniteSet(Heirs(r)) /\ Cardinality(Heirs(r)) \in Nat
  OBVIOUS
<1>1. Heirs(r) \subseteq Purchases
  BY DEF Heirs
<1>2. IsFiniteSet(Heirs(r))
  BY <1>1, ConstantsAssumption, FS_Subset
<1>3. QED
  BY <1>2, FS_CardinalityType

LEMMA CapInit == Init => Capped
<1> SUFFICES ASSUME Init, NEW r \in Referrers PROVE Cardinality(Heirs(r)) <= MaxPerDay
  BY DEF Init, Capped
<1>1. Heirs(r) = {}
  BY GiftFacts DEF Init, Heirs, Chosen
<1>2. QED
  BY <1>1, FS_EmptySet, ConstantsAssumption

\* A step by which nobody is newly chosen.
LEMMA CapShrinks ==
    ASSUME Capped, fresh' \subseteq fresh, sharedReward \subseteq sharedReward',
           \A p \in Purchases : Chosen(p)' =>
               /\ Chosen(p) /\ bill'[p].user = bill[p].user
               /\ ReferrerOf(p)' = ReferrerOf(p),
           NEW r \in Referrers
    PROVE  Cardinality(Heirs(r)') <= MaxPerDay
<1>1. Heirs(r)' \subseteq Heirs(r)
  BY DEF Heirs
<1>2. Cardinality(Heirs(r)') <= Cardinality(Heirs(r)) /\ Cardinality(Heirs(r)') \in Nat
  BY <1>1, HeirsFinite, FS_Subset, FS_CardinalityType
<1>3. Cardinality(Heirs(r)) <= MaxPerDay /\ Cardinality(Heirs(r)) \in Nat /\ MaxPerDay \in Nat
  BY HeirsFinite, ConstantsAssumption DEF Capped
<1>4. QED
  BY <1>2, <1>3

\* While no reward for a referrer is between its read and its mark, every
\* friend of the day that brought a bonus is counted, and brought one.
LEMMA HeirsCounted ==
    ASSUME TypeInv, Bonuses, NEW r,
           ~ \E d \in Purchases : pc[d] = "reward_mark" /\ ReferrerOf(d) = r
    PROVE  Cardinality(Heirs(r)) <= Cardinality(RecentlyRewarded(r))
<1> DEFINE friend == [ch \in Heirs(r) |-> bill[ch].user]
<1>1. ASSUME NEW ch \in Heirs(r)
      PROVE  /\ ch \in Purchases \ sharedReward /\ Candidate(ch)
             /\ bill[ch].user \in RecentlyRewarded(r)
  <2>1. ch \in bonused /\ ch \in Purchases /\ ch \in Charges
    BY GiftFacts DEF Heirs, Chosen
  <2>2. bill[ch].user \in rewarded /\ pc[ch] # "none"
    BY <2>1 DEF Bonuses, Earned
  <2>3. bill[ch].user \in Users
    BY <2>1, <2>2 DEF TypeInv, Billed
  <2>4. QED
    BY <2>1, <2>2, <2>3 DEF Heirs, RecentlyRewarded, ReferrerOf, Candidate
<1>2. \A p, q \in Heirs(r) : friend[p] = friend[q] => p = q
  BY <1>1 DEF Bonuses
<1>3. friend \in [Heirs(r) -> RecentlyRewarded(r)]
  BY <1>1
<1> HIDE DEF friend
<1>4. friend \in Injection(Heirs(r), RecentlyRewarded(r))
  BY <1>2, <1>3 DEF Injection, IsInjective
<1>5. RecentlyRewarded(r) \subseteq Users
  BY DEF RecentlyRewarded
<1>6. IsFiniteSet(RecentlyRewarded(r))
  BY <1>5, ConstantsAssumption, FS_Subset
<1>7. QED
  BY <1>4, <1>6, FS_Injection

\* The read: with another reward for the referrer open it is shared, without
\* one the friends that brought a bonus are all counted.
LEMMA CapRead ==
    ASSUME TypeInv, Bonuses, Capped, NEW ch \in Purchases, ReadReward(ch)
    PROVE  Capped'
<1>a. ch \in Charges /\ pc \in [Charges -> ChargePC] /\ verdict \subseteq Purchases
      /\ bonused \subseteq Purchases
  BY GiftFacts DEF TypeInv, TypeOK
<1>1. /\ pc[ch] = "reward" /\ UNCHANGED <<referredBy, bonused, bill, fresh>>
      /\ \A q \in Charges : q # ch => pc'[q] = pc[q]
      /\ pc'[ch] \in {"reward_mark", "end"}
  BY <1>a DEF ReadReward, Move, people
<1>2. ch \notin verdict /\ ch \notin bonused
  BY <1>1 DEF Capped, Bonuses, Earned
<1>3. verdict \subseteq verdict' /\ verdict' \subseteq verdict \cup {ch}
      /\ sharedReward \subseteq sharedReward'
  BY DEF ReadReward
<1>4. ASSUME NEW p \in verdict' PROVE pc'[p] \in {"reward_mark", "bonus", "end"}
  <2>1. p \in Purchases /\ p \in Charges
    BY <1>3, <1>a, GiftFacts
  <2>2. QED
    BY <1>1, <1>3, <2>1 DEF Capped
<1>5. \A p \in Purchases : p \in Charges
  BY GiftFacts
<1>6. ASSUME NEW p \in Purchases \ {ch}, Chosen(p)'
      PROVE  Chosen(p) /\ bill'[p].user = bill[p].user /\ ReferrerOf(p)' = ReferrerOf(p)
  BY <1>1, <1>3, <1>5, <1>6 DEF Chosen, ReferrerOf
<1>7. ASSUME NEW r \in Referrers PROVE Cardinality(Heirs(r)') <= MaxPerDay
  <2>1. CASE ~(Chosen(ch)' /\ ch \notin sharedReward' /\ ReferrerOf(ch) = r)
    <3>1. Heirs(r)' \subseteq Heirs(r)
      BY <1>1, <1>3, <1>6, <2>1 DEF Heirs, ReferrerOf
    <3>2. Cardinality(Heirs(r)') <= Cardinality(Heirs(r)) /\ Cardinality(Heirs(r)') \in Nat
      BY <3>1, HeirsFinite, FS_Subset, FS_CardinalityType
    <3>3. Cardinality(Heirs(r)) <= MaxPerDay /\ Cardinality(Heirs(r)) \in Nat /\ MaxPerDay \in Nat
      BY HeirsFinite, ConstantsAssumption DEF Capped
    <3>4. QED
      BY <3>2, <3>3
  <2>2. CASE Chosen(ch)' /\ ch \notin sharedReward' /\ ReferrerOf(ch) = r
    <3>1. ch \in verdict' /\ ch \notin bonused'
      BY <1>1, <1>2, <2>2 DEF Chosen
    <3>2. RewardDue(ch) /\ BelowCap(r)
          /\ ~ \E d \in Purchases : pc[d] = "reward_mark" /\ ReferrerOf(d) = r
      BY <1>2, <2>2, <3>1 DEF ReadReward
    <3>3. Cardinality(Heirs(r)) <= Cardinality(RecentlyRewarded(r))
      BY <3>2, HeirsCounted
    <3>4. IsFiniteSet(RecentlyRewarded(r)) /\ Cardinality(RecentlyRewarded(r)) \in Nat
      <4>1. RecentlyRewarded(r) \subseteq Users
        BY DEF RecentlyRewarded
      <4>2. QED
        BY <4>1, ConstantsAssumption, FS_Subset, FS_CardinalityType
    <3>5. Cardinality(Heirs(r)) + 1 <= MaxPerDay
      BY <3>2, <3>3, <3>4, HeirsFinite, ConstantsAssumption DEF BelowCap
    <3>6. Heirs(r)' \subseteq Heirs(r) \cup {ch}
      BY <1>1, <1>3, <1>6 DEF Heirs, ReferrerOf
    <3>7. /\ IsFiniteSet(Heirs(r) \cup {ch})
          /\ Cardinality(Heirs(r) \cup {ch}) <= Cardinality(Heirs(r)) + 1
          /\ Cardinality(Heirs(r) \cup {ch}) \in Nat
      <4>1. IsFiniteSet(Heirs(r)) /\ Cardinality(Heirs(r)) \in Nat
        BY HeirsFinite
      <4>2. /\ IsFiniteSet(Heirs(r) \cup {ch})
            /\ \/ Cardinality(Heirs(r) \cup {ch}) = Cardinality(Heirs(r))
               \/ Cardinality(Heirs(r) \cup {ch}) = Cardinality(Heirs(r)) + 1
        BY <4>1, FS_AddElement
      <4>3. QED
        BY <4>1, <4>2
    <3>8. Cardinality(Heirs(r)') <= Cardinality(Heirs(r) \cup {ch}) /\ Cardinality(Heirs(r)') \in Nat
      BY <3>6, <3>7, FS_Subset, FS_CardinalityType
    <3>9. QED
      BY <3>5, <3>7, <3>8, HeirsFinite, ConstantsAssumption
  <2>3. QED
    BY <2>1, <2>2
<1>8. QED
  BY <1>4, <1>7 DEF Capped

LEMMA CapNext == TypeInv /\ Bonuses /\ Capped /\ [Next]_vars => Capped'
<1> SUFFICES ASSUME TypeInv, Bonuses, Capped, [Next]_vars PROVE Capped'
  OBVIOUS
<1>a. /\ \A ch \in Purchases : ch \in Charges /\ ch \notin Gifts
      /\ \A u \in Users, c \in FreeCodes : <<u, c>> \in Charges /\ <<u, c>> \notin Purchases
  BY GiftFacts, ConstantsAssumption
<1>b. /\ pc \in [Charges -> ChargePC] /\ bill \in [Charges -> Bill]
      /\ referredBy \in [Users -> Referrers \cup {NoUser}]
      /\ verdict \subseteq Purchases /\ bonused \subseteq Purchases
  BY DEF TypeInv, TypeOK
\* Nobody is newly chosen, and a verdict is not about a charge that goes back.
<1>0. ASSUME fresh' \subseteq fresh, UNCHANGED <<verdict, sharedReward>>,
             \A p \in Purchases :
                /\ Chosen(p)' => /\ Chosen(p) /\ bill'[p].user = bill[p].user
                                 /\ ReferrerOf(p)' = ReferrerOf(p)
                /\ p \in verdict => pc'[p] \in {"reward_mark", "bonus", "end"}
      PROVE  Capped'
  <2>1. ASSUME NEW r \in Referrers PROVE Cardinality(Heirs(r)') <= MaxPerDay
    BY <1>0, CapShrinks
  <2>2. QED
    BY <1>0, <1>b, <2>1 DEF Capped
\* One charge moves, whose reward has not been read.
<1>1. ASSUME NEW ch \in Charges, UNCHANGED <<fresh, verdict, bonused, sharedReward, referredBy>>,
             \A q \in Charges : q # ch => pc'[q] = pc[q] /\ bill'[q] = bill[q],
             ch \in Purchases => /\ pc[ch] \notin {"reward_mark", "bonus", "end"}
                                 /\ pc'[ch] # "reward_mark"
      PROVE  Capped'
  <2>1. ASSUME NEW p \in Purchases
        PROVE  /\ Chosen(p)' => /\ Chosen(p) /\ bill'[p].user = bill[p].user
                                /\ ReferrerOf(p)' = ReferrerOf(p)
               /\ p \in verdict => pc'[p] \in {"reward_mark", "bonus", "end"}
    <3>1. CASE p = ch
      <4>1. p \notin bonused /\ p \notin verdict
        BY <1>1, <3>1 DEF Bonuses, Earned, Capped
      <4>2. QED
        BY <1>1, <4>1 DEF Chosen
    <3>2. CASE p # ch
      BY <1>1, <1>a, <3>2 DEF Chosen, ReferrerOf, Capped
    <3>3. QED
      BY <3>1, <3>2
  <2>2. QED
    BY <1>0, <1>1, <2>1
\* One purchase moves on with its reward, or ends.
<1>2. ASSUME NEW ch \in Purchases, UNCHANGED <<fresh, verdict, sharedReward, referredBy, bill>>,
             \A q \in Charges : q # ch => pc'[q] = pc[q],
             pc'[ch] \in {"bonus", "end"}, bonused' \subseteq bonused \cup {ch},
             ch \in bonused' => Chosen(ch)
      PROVE  Capped'
  BY <1>0, <1>2, <1>a DEF Chosen, ReferrerOf, Capped
<1>3. CASE Surroundings \/ UNCHANGED vars \/ \E u \in Users, c \in Codes : ApplyDiscount(u, c)
  <2>1. UNCHANGED <<pc, bill, bonused, sharedReward, verdict>> /\ fresh' \subseteq fresh
    BY <1>3 DEF Surroundings, EditVisible, EditPrice, EditCode, WinDiscount, Expire, DayPasses,
                StartByLink, ApplyDiscount, vars, charges, people, rewards
  <2>2. \/ referredBy' = referredBy
        \/ \E u \in Users, r \in Referrers :
              referredBy[u] = NoUser /\ referredBy' = [referredBy EXCEPT ![u] = r]
    BY <1>3 DEF Surroundings, EditVisible, EditPrice, EditCode, WinDiscount, Expire, DayPasses,
                StartByLink, ApplyDiscount, vars, people
  <2>3. \A u \in Users : referredBy[u] # NoUser => referredBy'[u] = referredBy[u]
    BY <1>b, <2>2
  <2>4. ASSUME NEW p \in Purchases, Chosen(p)
        PROVE  ReferrerOf(p)' = ReferrerOf(p)
    <3>1. pc[p] # "none" /\ ReferrerOf(p) # NoUser
      BY <2>4 DEF Chosen, Bonuses, Earned
    <3>2. bill[p].user \in Users
      BY <1>a, <3>1 DEF TypeInv, Billed
    <3>3. QED
      BY <2>1, <2>3, <3>1, <3>2 DEF ReferrerOf
  <2>5. QED
    BY <1>0, <1>a, <2>1, <2>4 DEF Chosen, Capped
<1>4. ASSUME NEW ch \in Purchases,
             \/ \E u \in Users, p \in Plans : Invoice(ch, u, p)
             \/ PreCheckout(ch) \/ TakeStars(ch) \/ OnSuccessfulPayment(ch)
      PROVE  Capped'
  <2>1. /\ pc[ch] \in {"none", "invoice", "approved", "paid"}
        /\ UNCHANGED <<referredBy, sharedReward, verdict, bonused, fresh>>
        /\ \A q \in Charges : q # ch => pc'[q] = pc[q] /\ bill'[q] = bill[q]
        /\ pc'[ch] \in {"invoice", "approved", "paid", "call", "end"}
    BY <1>4, <1>a, <1>b
    DEF Invoice, New, PreCheckout, TakeStars, OnSuccessfulPayment, Accept, Refuse, Move, people, rewards
  <2>2. QED
    BY <1>1, <1>a, <2>1
<1>5. ASSUME NEW u \in Users, NEW c \in FreeCodes, Redeem(u, c) PROVE Capped'
  <2>1. /\ UNCHANGED <<referredBy, sharedReward, verdict, bonused, fresh>>
        /\ \A q \in Charges : q # <<u, c>> => pc'[q] = pc[q] /\ bill'[q] = bill[q]
    BY <1>5, <1>b DEF Redeem, BotPromo, ReservePromo, GrantReserved, WebPromo, Accept, Refuse,
                      Move, people, rewards
  <2>2. QED
    BY <1>1, <1>a, <2>1
<1>6. ASSUME NEW ch \in Charges,
             CallMarzban(ch) \/ QueueTakes(ch) \/ Finalize(ch) \/ MarkPromoUsed(ch)
      PROVE  Capped'
  <2>1. AfterGrant(ch) # "reward_mark"
    BY AfterGrantMoves
  <2>2. /\ UNCHANGED <<referredBy, sharedReward, verdict, bonused, fresh, bill>>
        /\ \A q \in Charges : q # ch => pc'[q] = pc[q]
        /\ pc[ch] \in {"call", "queued", "finalize", "mark"} /\ pc'[ch] # "reward_mark"
    BY <1>6, <1>b, <2>1
    DEF CallMarzban, QueueTakes, Finalize, MarkPromoUsed, Move, people, rewards
  <2>3. QED
    BY <1>1, <2>2
<1>7. ASSUME NEW ch \in Charges, Die(ch) PROVE Capped'
  <2>1. /\ UNCHANGED <<referredBy, sharedReward, verdict, bonused, fresh, bill, retried>>
        /\ \A q \in Charges : q # ch => pc'[q] = pc[q]
        /\ pc[ch] # "end" /\ pc'[ch] = AfterDeath(ch)
    BY <1>7, <1>b DEF Die, Move, people, rewards
  <2>2. CASE ch \in Purchases /\ pc[ch] \in {"reward_mark", "bonus"}
    <3>1. pc'[ch] = "end"
      BY <2>1, <2>2 DEF AfterDeath, Bonuses, Earned
    <3>2. QED
      BY <1>2, <2>1, <2>2, <3>1 DEF Chosen
  <2>3. CASE ~(ch \in Purchases /\ pc[ch] \in {"reward_mark", "bonus"})
    BY <1>1, <2>1, <2>3 DEF AfterDeath
  <2>4. QED
    BY <2>2, <2>3
<1>8. ASSUME NEW ch \in Purchases, MarkReward(ch) \/ GrantBonus(ch) PROVE Capped'
  <2>1. /\ UNCHANGED <<referredBy, sharedReward, verdict, fresh, bill>>
        /\ \A q \in Charges : q # ch => pc'[q] = pc[q]
        /\ pc'[ch] \in {"bonus", "end"}
        /\ \/ bonused' = bonused
           \/ bonused' = bonused \cup {ch} /\ pc[ch] = "reward_mark" /\ ch \in verdict
    BY <1>8, <1>a, <1>b DEF MarkReward, GrantBonus, Move, rewards
  <2>2. QED
    BY <1>2, <2>1 DEF Chosen
<1>9. QED
  BY <1>3, <1>4, <1>5, <1>6, <1>7, <1>8, CapRead DEF Next, Purchase, Grant

\* No more bonuses than the cap for friends that joined within the last day,
\* except those whose rewards were read at the same time.
THEOREM FriendsCapped == Spec => []NewFriendsCapped
<1>1. TypeInv /\ Bonuses /\ Capped => NewFriendsCapped
  <2> SUFFICES ASSUME TypeInv, Bonuses, Capped, NEW r \in Referrers
               PROVE  Cardinality({ch \in bonused \ sharedReward :
                          ReferrerOf(ch) = r /\ bill[ch].user \in fresh}) <= MaxPerDay
    BY DEF NewFriendsCapped
  <2> DEFINE S == {ch \in bonused \ sharedReward : ReferrerOf(ch) = r /\ bill[ch].user \in fresh}
  <2>1. S \subseteq Heirs(r)
    BY DEF TypeInv, TypeOK, Heirs, Chosen
  <2> HIDE DEF S
  <2>2. Cardinality(S) <= Cardinality(Heirs(r)) /\ Cardinality(S) \in Nat
    BY <2>1, HeirsFinite, FS_Subset, FS_CardinalityType
  <2>3. Cardinality(Heirs(r)) <= MaxPerDay /\ Cardinality(Heirs(r)) \in Nat /\ MaxPerDay \in Nat
    BY HeirsFinite, ConstantsAssumption DEF Capped
  <2>4. Cardinality(S) <= MaxPerDay
    BY <2>2, <2>3
  <2>5. QED
    BY <2>4 DEF S
<1>2. Init => TypeInv /\ Bonuses /\ Capped
  BY TypeInit, BonusesInit, CapInit
<1>3. TypeInv /\ Bonuses /\ Capped /\ [Next]_vars => (TypeInv /\ Bonuses /\ Capped)'
  BY TypeNext, BilledNext, BonusesNext, CapNext DEF TypeInv
<1>4. QED
  BY <1>1, <1>2, <1>3, PTL DEF Spec

=============================================================================
