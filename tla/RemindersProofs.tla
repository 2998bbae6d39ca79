----------------------------- MODULE RemindersProofs -----------------------------
(* Theorems about reminder_loop, one half of its pass after the other:       *)
(* Reminders, for every list of hours, every pause and pass, every number of *)
(* renewals and faults, and UsageWatch, for every number of subscriptions,   *)
(* guests and mishaps.                                                       *)
EXTENDS Reminders, UsageWatch, FiniteSetTheorems, TLAPS

\* What the loop has in hand, and what its log tells: an entry stands for a
\* message, and what it is about to send or has just sent has no entry yet.
Shape ==
    /\ left \in Int /\ expiry \in Expiries
    /\ log \subseteq Kinds \X Expiries
    /\ pc \in {"asleep", "down"} \cup Passing
    /\ timer \in 0..Sleep /\ spent \in 0..PassBudget
    /\ todo \subseteq Kinds /\ armed \subseteq Kinds
    /\ row \in {NoRow} \cup [kind: Kinds, expiry: Expiries]
    /\ (row # NoRow) <=> (pc \in {"send", "mark"})
    /\ sent \in [Kinds \X Expiries -> Nat]
    /\ faults \in 0..MaxFaults

Logged ==
    /\ \A m \in log : sent[m] >= 1
    /\ pc \in {"send", "mark"} => <<row.kind, row.expiry>> \notin log
    /\ pc = "mark" => sent[<<row.kind, row.expiry>>] >= 1
    /\ pc = "rest" => todo = {}
    /\ pc = "down" => timer = 0

ShapeInv == Shape /\ Logged

Kept(m) == m \in log \/ (pc = "mark" /\ m = <<row.kind, row.expiry>>)

NumLost(m) == IF Kept(m) THEN sent[m] - 1 ELSE sent[m]

Lost == {m \in (Kinds \X Expiries) \X (Nat \ {0}) : m[2] <= NumLost(m[1])}

FewLost == IsFiniteSet(Lost) /\ Cardinality(Lost) <= faults

\* The first and the last tick a kind is asked for, and the time since.
First(k) == IF k = 0 THEN 0 ELSE k + Half
Late(k) == IF left > First(k) THEN 0 ELSE First(k) + 1 - left

\* The ticks until the question for k, or the message it led to, if nothing
\* fails: the rest of a pause or restart, and of the pass.
Pending(k) == pc = "send" /\ row = [kind |-> k, expiry |-> expiry]

Wait(k) ==
    CASE pc = "asleep" -> timer + PassBudget
      [] pc = "down" -> (PassBudget - spent) + PassBudget
      [] OTHER -> (PassBudget - spent)
                    + (IF k \in todo \/ Pending(k) THEN 0 ELSE Sleep + PassBudget)

\* What n questions that come to nothing may take.
Patience(n) == n * (Idle + PassBudget) + PassBudget

InTime(k) ==
    sent[<<k, expiry>>] = 0 /\ Fits(faults + 1, k)
        => Wait(k) + Late(k) <= Patience(faults + 1)

Timely == \A k \in armed : InTime(k)

-----------------------------------------------------------------------------
(* Numbers and sets.                                                        *)

\* The hours are a finite set of numbers, and such a set has a greatest element.
LEMMA MaxOfKinds ==
  ASSUME NEW T, T \subseteq Kinds, T # {}
  PROVE  Max(T) \in T
<1>1. IsFiniteSet(Kinds) /\ Kinds \subseteq Nat
  BY ConstantsAssumption, FS_AddElement DEF Kinds
<1> DEFINE Bad == {U \in SUBSET Kinds : U # {} /\ ~ \E x \in U : \A y \in U : x >= y}
<1>2. Bad = {}
  <2> SUFFICES ASSUME Bad # {} PROVE FALSE
    OBVIOUS
  <2>1. Bad \subseteq FiniteSubsetsOf(Kinds)
    BY <1>1, FS_FiniteSubsetsOfFinite
  <2>2. PICK U \in Bad : \A V \in Bad : <<V, U>> \notin StrictSubsetOrdering(Kinds)
    BY <2>1, WFMin, FS_StrictSubsetOrderingWellFounded
  <2>3. PICK x \in U : TRUE
    BY <2>2
  <2>4. U \ {x} # {}
    BY <1>1, <2>2, <2>3
  <2>5. U \ {x} \notin Bad
    <3>1. <<U \ {x}, U>> \in StrictSubsetOrdering(Kinds)
      BY <2>2, <2>3 DEF StrictSubsetOrdering
    <3>2. QED
      BY <2>2, <3>1
  <2>6. PICK z \in U \ {x} : \A y \in U \ {x} : z >= y
    BY <2>2, <2>4, <2>5
  <2>7. \E w \in U : \A y \in U : w >= y
    <3>1. x \in Nat /\ z \in Nat /\ U \subseteq Nat
      BY <1>1, <2>2, <2>3, <2>6
    <3>2. CASE z >= x
      BY <2>6, <3>1, <3>2
    <3>3. CASE ~(z >= x)
      BY <2>3, <2>6, <3>1, <3>3
    <3>4. QED
      BY <3>2, <3>3
  <2>8. QED
    BY <2>2, <2>7
<1>3. \E x \in T : \A y \in T : x >= y
  BY <1>2
<1>4. QED
  BY <1>3 DEF Max

LEMMA PauseNat == /\ Sleep \in Nat /\ PassBudget \in Nat /\ Idle \in Nat
                  /\ Sleep <= Idle /\ PassBudget <= Idle
BY ConstantsAssumption DEF Idle

\* A window has as many ticks as there are from its first to its last.
LEMMA WindowSize ==
  ASSUME NEW k \in Kinds
  PROVE  /\ First(k) \in Nat
         /\ Cardinality(Window(k)) \in Nat
         /\ \A t \in Window(k) : t <= First(k) /\ t \in Int
         /\ First(k) \in Window(k)
         /\ First(k) + 1 - Cardinality(Window(k)) \in Window(k)
         /\ \A t \in Int : t <= First(k) /\ t > First(k) - Cardinality(Window(k)) <=> t \in Window(k)
<1>1. k \in Nat /\ Half \in Nat /\ Notice \in Nat
  BY ConstantsAssumption DEF Kinds
<1>2. CASE k = 0
  <2>1. Window(k) = -Notice..0 /\ -Notice \in Int /\ 0 \in Int /\ First(k) = 0
    BY <1>1, <1>2 DEF Window, First
  <2>2. Cardinality(-Notice..0) = Notice + 1
    BY <1>1, <2>1, FS_Interval
  <2>3. QED
    BY <1>1, <2>1, <2>2
<1>3. CASE k # 0
  <2>1. Window(k) = (k - Half)..(k + Half) /\ k - Half \in Int /\ k + Half \in Int /\ First(k) = k + Half
    BY <1>1, <1>3 DEF Window, First
  <2>2. Cardinality((k - Half)..(k + Half)) = (k + Half) - (k - Half) + 1
    <3>1. (k - Half) <= (k + Half)
      BY <1>1
    <3>2. QED
      BY <1>1, <2>1, <3>1, FS_Interval
  <2>3. QED
    BY <1>1, <2>1, <2>2
<1>4. QED
  BY <1>2, <1>3

LEMMA PatienceGrows ==
  ASSUME NEW n \in Nat
  PROVE  /\ Patience(n) \in Nat
         /\ Patience(n + 1) = Patience(n) + Idle + PassBudget
<1>1. \A g \in Nat : n * g \in Nat /\ (n + 1) * g = n * g + g
  OBVIOUS
<1>2. Idle + PassBudget \in Nat
  BY PauseNat
<1>3. QED
  BY <1>1, <1>2, PauseNat DEF Patience

LEMMA PatienceOne ==
  ASSUME NEW n \in Nat
  PROVE  Patience(n + 1) >= Idle + PassBudget + PassBudget
<1>1. \A g \in Nat : n * g \in Nat
  OBVIOUS
<1>2. Patience(n) >= PassBudget
  BY <1>1, PauseNat DEF Patience
<1>3. QED
  BY <1>2, PatienceGrows, PauseNat

\* More faults leave less room.
LEMMA FitsLess ==
  ASSUME NEW n \in Nat, NEW k \in Kinds, Fits(n + 1, k)
  PROVE  Fits(n, k)
<1>1. Patience(n + 1) <= Cardinality(Window(k))
  BY DEF Fits, Patience
<1>2. Patience(n) <= Cardinality(Window(k))
  BY <1>1, PatienceGrows, PauseNat, WindowSize
<1>3. QED
  BY <1>2 DEF Fits, Patience

-----------------------------------------------------------------------------
(* The shape of the loop and its log.                                       *)

LEMMA MessageAt ==
  ASSUME Shape, pc \in {"send", "mark"}
  PROVE  /\ row.kind \in Kinds /\ row.expiry \in Expiries
         /\ <<row.kind, row.expiry>> \in Kinds \X Expiries
BY DEF Shape

LEMMA ShapeInit == Init => ShapeInv
<1> SUFFICES ASSUME Init PROVE ShapeInv
  OBVIOUS
<1> USE DEF Init
<1>1. /\ Start \in Int /\ 1 \in Expiries /\ Sleep \in Nat /\ 0 \in 0..PassBudget /\ 0 \in 0..MaxFaults
  BY ConstantsAssumption DEF Expiries
<1>2. Ahead(Start) \subseteq Kinds
  BY DEF Ahead
<1>3. sent \in [Kinds \X Expiries -> Nat]
  OBVIOUS
<1>4. Shape
  BY <1>1, <1>2, <1>3 DEF Shape
<1>5. Logged
  BY DEF Logged
<1>6. QED
  BY <1>4, <1>5 DEF ShapeInv

LEMMA ShapeNext == ShapeInv /\ [Next]_vars => ShapeInv'
<1> SUFFICES ASSUME ShapeInv, [Next]_vars PROVE ShapeInv'
  OBVIOUS
<1> USE PauseNat DEF ShapeInv, Shape, Logged, Passing, loop
<1>0. MaxFaults \in Nat /\ MaxExpiries \in Nat /\ Period \in Nat /\ Notice \in Nat
  BY ConstantsAssumption
<1>1. CASE UNCHANGED vars
  BY <1>1 DEF vars
<1>2. CASE Tick
  BY <1>0, <1>2 DEF Tick, Later
<1>3. CASE Renew
  <2>1. left' \in Int /\ expiry' \in Expiries
    BY <1>0, <1>3 DEF Renew, Expiries
  <2>2. armed' \subseteq Kinds
    BY <1>3 DEF Renew, Ahead
  <2>3. QED
    BY <1>3, <2>1, <2>2 DEF Renew
<1>4. CASE Wake
  BY <1>4 DEF Wake
<1>5. CASE Ask
  <2>1. Max(todo) \in Kinds
    BY <1>5, MaxOfKinds DEF Ask
  <2>2. NoRow \notin [kind: Kinds, expiry: Expiries]
    BY <1>0 DEF NoRow, Expiries
  <2>3. CASE Due(Max(todo))
    <3>1. /\ pc = "list" /\ todo' \subseteq todo /\ pc' = "send"
          /\ row' = [kind |-> Max(todo), expiry |-> expiry]
          /\ UNCHANGED <<left, expiry, log, timer, spent, armed, sent, faults>>
      BY <1>5, <2>3 DEF Ask
    <3>2. row' \in [kind: Kinds, expiry: Expiries] /\ row' # NoRow
      BY <2>1, <2>2, <3>1
    <3>3. <<row'.kind, row'.expiry>> \notin log'
      BY <2>3, <3>1 DEF Due
    <3>4. QED
      BY <3>1, <3>2, <3>3
  <2>4. CASE ~Due(Max(todo))
    BY <1>5, <2>4 DEF Ask
  <2>5. QED
    BY <2>3, <2>4
<1>6. CASE Send
  <2>1. <<row.kind, row.expiry>> \in Kinds \X Expiries
    BY <1>6, MessageAt DEF Send
  <2>2. /\ sent' \in [Kinds \X Expiries -> Nat]
        /\ \A m \in Kinds \X Expiries : sent'[m] >= sent[m]
    BY <1>6, <2>1 DEF Send
  <2>3. QED
    BY <1>6, <2>2 DEF Send
<1>7. CASE MarkReminderSent
  <2>1. pc = "mark" /\ <<row.kind, row.expiry>> \in Kinds \X Expiries
    BY <1>7, MessageAt DEF MarkReminderSent
  <2>2. log' \subseteq Kinds \X Expiries
    BY <1>7, <2>1 DEF MarkReminderSent
  <2>3. QED
    BY <1>7, <2>2 DEF MarkReminderSent
<1>8. CASE Rest \/ EndPass
  BY <1>8 DEF Rest, EndPass, Pause
<1>9. CASE SendFails
  BY <1>0, <1>9 DEF SendFails, Fault
<1>10. CASE PassFails
  BY <1>0, <1>10 DEF PassFails, Fault, Pause
<1>11. CASE Crash
  BY <1>0, <1>11 DEF Crash, Fault
<1>12. CASE Restart
  BY <1>12 DEF Restart
<1>13. QED
  BY <1>1, <1>2, <1>3, <1>4, <1>5, <1>6, <1>7, <1>8, <1>9, <1>10, <1>11, <1>12 DEF Next

-----------------------------------------------------------------------------
(* Sent once, but for faults.  A sending is lost when its entry is not made. *)

LEMMA NumLostInt ==
  ASSUME Shape, NEW m \in Kinds \X Expiries
  PROVE  NumLost(m) \in Int /\ sent[m] \in Nat
BY DEF Shape, NumLost

LEMMA NumLostIntAfter ==
  ASSUME Shape', NEW m \in Kinds \X Expiries
  PROVE  NumLost(m)' \in Int
BY DEF Shape, NumLost

LEMMA NothingLost ==
  ASSUME Shape, Shape', FewLost, faults' >= faults,
         \A m \in Kinds \X Expiries : NumLost(m)' <= NumLost(m)
  PROVE  FewLost'
<1>1. Lost' \subseteq Lost
  <2> SUFFICES ASSUME NEW m \in Kinds \X Expiries, NEW n \in Nat \ {0}, n <= NumLost(m)'
               PROVE  n <= NumLost(m)
    BY DEF Lost
  <2>1. NumLost(m)' <= NumLost(m) /\ NumLost(m) \in Int /\ NumLost(m)' \in Int
    BY NumLostInt, NumLostIntAfter
  <2>2. QED
    BY <2>1
<1>2. /\ IsFiniteSet(Lost') /\ Cardinality(Lost') <= Cardinality(Lost)
      /\ Cardinality(Lost) \in Nat /\ Cardinality(Lost') \in Nat /\ Cardinality(Lost) <= faults
  BY <1>1, FS_Subset, FS_CardinalityType DEF FewLost
<1>3. faults \in Nat /\ faults' \in Nat
  BY ConstantsAssumption DEF Shape
<1>4. QED
  BY <1>2, <1>3 DEF FewLost

LEMMA OneLost ==
  ASSUME Shape, Shape', FewLost, faults' = faults + 1,
         NEW d, \A m \in Kinds \X Expiries : NumLost(m)' <= NumLost(m) + (IF m = d THEN 1 ELSE 0)
  PROVE  FewLost'
<1> DEFINE last == <<d, NumLost(d) + 1>>
<1>1. Lost' \subseteq Lost \cup {last}
  <2> SUFFICES ASSUME NEW m \in Kinds \X Expiries, NEW n \in Nat \ {0}, n <= NumLost(m)', <<m, n>> # last
               PROVE  n <= NumLost(m)
    BY DEF Lost
  <2>1. NumLost(m) \in Int /\ NumLost(m)' \in Int
    BY NumLostInt, NumLostIntAfter
  <2>2. CASE m = d
    BY <2>1, <2>2
  <2>3. CASE m # d
    BY <2>1, <2>3
  <2>4. QED
    BY <2>2, <2>3
<1> HIDE DEF last
<1>2. IsFiniteSet(Lost) /\ Cardinality(Lost) <= faults /\ Cardinality(Lost) \in Nat
  BY FS_CardinalityType DEF FewLost
<1>3. /\ IsFiniteSet(Lost \cup {last})
      /\ \/ Cardinality(Lost \cup {last}) = Cardinality(Lost)
         \/ Cardinality(Lost \cup {last}) = Cardinality(Lost) + 1
  BY <1>2, FS_AddElement
<1>4. /\ IsFiniteSet(Lost') /\ Cardinality(Lost') \in Nat
      /\ Cardinality(Lost') <= Cardinality(Lost \cup {last}) /\ Cardinality(Lost \cup {last}) \in Nat
  BY <1>1, <1>3, FS_Subset, FS_CardinalityType
<1>5. faults \in Nat
  BY ConstantsAssumption DEF Shape
<1>6. QED
  BY <1>2, <1>3, <1>4, <1>5 DEF FewLost

LEMMA FewLostInit == Init => FewLost
<1> SUFFICES ASSUME Init PROVE FewLost
  OBVIOUS
<1>1. ASSUME NEW m \in Kinds \X Expiries PROVE NumLost(m) \in {0, -1}
  BY DEF Init, NumLost
<1>2. Lost = {}
  BY <1>1 DEF Lost
<1>3. QED
  BY <1>2, FS_EmptySet DEF FewLost, Init

LEMMA FewLostNext == ShapeInv /\ FewLost /\ [Next]_vars => FewLost'
<1> SUFFICES ASSUME ShapeInv, FewLost, [Next]_vars PROVE FewLost'
  OBVIOUS
<1>0. Shape /\ Shape' /\ faults \in Nat
  BY ShapeNext, ConstantsAssumption DEF ShapeInv, Shape
<1>a. ASSUME UNCHANGED <<sent, log>>, pc # "mark", pc' # "mark", faults' >= faults PROVE FewLost'
  <2>1. \A m \in Kinds \X Expiries : NumLost(m)' = NumLost(m) /\ NumLost(m) \in Int
    BY <1>0, <1>a, NumLostInt DEF NumLost, Kept
  <2>2. QED
    BY <1>0, <1>a, <2>1, NothingLost
<1>1. ASSUME UNCHANGED <<sent, log, pc, row, faults>> PROVE FewLost'
  <2>1. \A m \in Kinds \X Expiries : NumLost(m)' = NumLost(m) /\ NumLost(m) \in Int
    BY <1>0, <1>1, NumLostInt DEF NumLost, Kept
  <2>2. QED
    BY <1>0, <1>1, <2>1, NothingLost
<1>2. CASE UNCHANGED vars \/ Tick \/ Renew
  BY <1>1, <1>2 DEF vars, Tick, Renew, loop
<1>3. CASE Wake \/ Ask \/ Rest \/ EndPass \/ SendFails \/ Restart
  BY <1>0, <1>a, <1>3 DEF Wake, Ask, Rest, EndPass, SendFails, Restart, Fault
<1>4. CASE Send
  <2>1. /\ pc = "send" /\ pc' = "mark" /\ UNCHANGED <<log, row, faults>>
        /\ sent' = [sent EXCEPT ![<<row.kind, row.expiry>>] = @ + 1]
        /\ <<row.kind, row.expiry>> \notin log
    BY <1>4 DEF Send, ShapeInv, Logged
  <2>2. ASSUME NEW m \in Kinds \X Expiries PROVE NumLost(m)' <= NumLost(m)
    <3>1. sent[m] \in Nat
      BY <1>0, NumLostInt
    <3>2. CASE m = <<row.kind, row.expiry>>
      BY <1>0, <2>1, <3>1, <3>2 DEF NumLost, Kept, Shape
    <3>3. CASE m # <<row.kind, row.expiry>>
      BY <1>0, <2>1, <3>1, <3>3 DEF NumLost, Kept, Shape
    <3>4. QED
      BY <3>2, <3>3
  <2>3. QED
    BY <1>0, <2>1, <2>2, NothingLost
<1>5. CASE MarkReminderSent
  <2>1. /\ pc = "mark" /\ pc' # "mark" /\ UNCHANGED <<sent, faults>>
        /\ log' = log \cup {<<row.kind, row.expiry>>}
    BY <1>5 DEF MarkReminderSent
  <2>2. \A m \in Kinds \X Expiries : NumLost(m)' = NumLost(m) /\ NumLost(m) \in Int
    BY <1>0, <2>1, NumLostInt DEF NumLost, Kept
  <2>3. QED
    BY <1>0, <2>1, <2>2, NothingLost
<1>6. CASE PassFails \/ Crash
  <2>1. faults' = faults + 1 /\ pc' # "mark" /\ UNCHANGED <<sent, log>>
    BY <1>6 DEF PassFails, Crash, Fault
  <2>2. ASSUME NEW m \in Kinds \X Expiries
        PROVE  NumLost(m)' <= NumLost(m) + (IF m = <<row.kind, row.expiry>> THEN 1 ELSE 0)
    <3>1. sent[m] \in Nat
      BY <1>0, NumLostInt
    <3>2. QED
      BY <2>1, <3>1 DEF NumLost, Kept
  <2>3. QED
    BY <1>0, <2>1, <2>2, OneLost
<1>7. QED
  BY <1>2, <1>3, <1>4, <1>5, <1>6 DEF Next

\* A reminder or notice that is sent again for the same expiry has a fault of
\* its own to blame.
THEOREM OneReminder == Spec => []RemindedOnce
<1>1. ShapeInv /\ FewLost => RemindedOnce
  <2> SUFFICES ASSUME Shape, FewLost PROVE RemindedOnce
    BY DEF ShapeInv
  <2>1. Again \subseteq Lost
    <3> SUFFICES ASSUME NEW m \in Kinds \X Expiries, NEW n \in 1..(MaxFaults + 1), n < sent[m]
                 PROVE  n \in Nat \ {0} /\ n <= NumLost(m)
      BY DEF Again, Lost
    <3>1. sent[m] \in Nat /\ MaxFaults \in Nat
      BY NumLostInt, ConstantsAssumption
    <3>2. QED
      BY <3>1 DEF NumLost
  <2>2. /\ Cardinality(Again) <= Cardinality(Lost) /\ Cardinality(Lost) <= faults
        /\ Cardinality(Again) \in Nat /\ Cardinality(Lost) \in Nat
    BY <2>1, FS_Subset, FS_CardinalityType DEF FewLost
  <2>3. faults \in Nat
    BY ConstantsAssumption DEF Shape
  <2>4. QED
    BY <2>2, <2>3 DEF RemindedOnce
<1>2. QED
  BY <1>1, ShapeInit, ShapeNext, FewLostInit, FewLostNext, PTL DEF Spec

\* A message is sent once, and once more for each fault at most.
LEMMA FewSendings ==
  ASSUME Shape, FewLost, NEW m \in Kinds \X Expiries
  PROVE  sent[m] \in 0..(MaxFaults + 1)
<1>1. sent[m] \in Nat /\ faults \in Nat /\ MaxFaults \in Nat /\ faults <= MaxFaults
  BY ConstantsAssumption DEF Shape
<1> DEFINE f == [n \in 1..(sent[m] - 1) |-> <<m, n>>]
<1>2. f \in Injection(1..(sent[m] - 1), Lost)
  <2>1. ASSUME NEW n \in 1..(sent[m] - 1) PROVE f[n] \in Lost
    BY <1>1 DEF NumLost, Lost
  <2>2. f \in [1..(sent[m] - 1) -> Lost]
    BY <2>1
  <2>3. \A i, j \in 1..(sent[m] - 1) : f[i] = f[j] => i = j
    OBVIOUS
  <2>4. QED
    BY <2>2, <2>3 DEF Injection, IsInjective
<1> HIDE DEF f
<1>3. /\ Cardinality(1..(sent[m] - 1)) <= Cardinality(Lost)
      /\ Cardinality(Lost) \in Nat /\ Cardinality(Lost) <= faults
  BY <1>2, FS_Injection, FS_CardinalityType DEF FewLost
<1>4. Cardinality(1..(sent[m] - 1)) = IF 1 > sent[m] - 1 THEN 0 ELSE (sent[m] - 1) - 1 + 1
  <2>1. 1 \in Int /\ sent[m] - 1 \in Int
    BY <1>1
  <2>2. QED
    BY <2>1, FS_Interval
<1>5. QED
  BY <1>1, <1>3, <1>4

\* Type correctness of the loop, the bound on what is sent included.
THEOREM TypeCorrect == Spec => []TypeOK
<1>1. ShapeInv /\ FewLost => TypeOK
  <2> SUFFICES ASSUME Shape, FewLost PROVE TypeOK
    BY DEF ShapeInv
  <2>1. sent \in [Kinds \X Expiries -> 0..(MaxFaults + 1)]
    BY FewSendings DEF Shape
  <2>2. QED
    BY <2>1 DEF Shape, TypeOK
<1>2. QED
  BY <1>1, ShapeInit, ShapeNext, FewLostInit, FewLostNext, PTL DEF Spec

-----------------------------------------------------------------------------
(* Nothing skipped.  Wait(k) is how long the question for a kind may still   *)
(* take if nothing fails, Late(k) how much of its window has passed.  A tick *)
(* takes from the one what it gives to the other; only a fault, or a         *)
(* question that had nothing to ask, begins the wait anew.                   *)

LEMMA WaitNat ==
  ASSUME Shape, NEW k
  PROVE  Wait(k) \in Nat /\ Wait(k) <= Idle + PassBudget + PassBudget
<1>1. timer \in 0..Sleep /\ spent \in 0..PassBudget /\ PassBudget - spent \in 0..PassBudget
  BY PauseNat DEF Shape
<1>2. CASE pc = "asleep"
  BY <1>1, <1>2, PauseNat DEF Wait
<1>3. CASE pc = "down"
  BY <1>1, <1>3, PauseNat DEF Wait
<1>4. CASE pc \notin {"asleep", "down"}
  <2>1. Wait(k) = (PassBudget - spent) + (IF k \in todo \/ Pending(k) THEN 0 ELSE Sleep + PassBudget)
    BY <1>4 DEF Wait
  <2>2. QED
    BY <1>1, <2>1, PauseNat
<1>5. QED
  BY <1>2, <1>3, <1>4

LEMMA LateNat ==
  ASSUME Shape, NEW k \in Kinds
  PROVE  Late(k) \in Nat
BY WindowSize DEF Shape, Late

\* Before its window a kind has all the time it needs.
LEMMA NotYetDue == ShapeInv => \A k \in Kinds : left > First(k) => InTime(k)
<1> SUFFICES ASSUME ShapeInv, NEW k \in Kinds, left > First(k) PROVE InTime(k)
  OBVIOUS
<1>1. Wait(k) \in Nat /\ Wait(k) <= Idle + PassBudget + PassBudget
  BY WaitNat DEF ShapeInv
<1>2. Late(k) = 0
  BY WindowSize DEF Late
<1>3. Patience(faults + 1) \in Nat /\ Patience(faults + 1) >= Idle + PassBudget + PassBudget
  BY PatienceOne, PatienceGrows, ConstantsAssumption DEF ShapeInv, Shape
<1>4. QED
  BY <1>1, <1>2, <1>3, PauseNat DEF InTime

LEMMA NotYetDueAfter == (ShapeInv => \A k \in Kinds : left > First(k) => InTime(k))'
BY NotYetDue, PTL

LEMMA NumbersBefore == ShapeInv => /\ left \in Int /\ faults \in Nat /\ expiry \in Expiries
                                   /\ Patience(faults + 1) \in Nat
                                   /\ \A k \in Kinds : Wait(k) \in Nat /\ Late(k) \in Nat
BY WaitNat, LateNat, PatienceGrows, ConstantsAssumption DEF ShapeInv, Shape

LEMMA NumbersAfter == (ShapeInv => /\ left \in Int /\ faults \in Nat /\ expiry \in Expiries
                                   /\ Patience(faults + 1) \in Nat
                                   /\ \A k \in Kinds : Wait(k) \in Nat /\ Late(k) \in Nat)'
BY NumbersBefore, PTL

\* A step that takes no time and puts no question off.
LEMMA Steady ==
  ASSUME ShapeInv, ShapeInv', NEW k \in Kinds, InTime(k),
         UNCHANGED <<left, expiry, faults>>, sent'[<<k, expiry>>] = 0 => sent[<<k, expiry>>] = 0,
         Wait(k)' <= Wait(k)
  PROVE  InTime(k)'
<1>1. Late(k)' = Late(k) /\ (Fits(faults + 1, k)' <=> Fits(faults + 1, k))
  BY DEF Late, First, Fits, Idle, Window
<1>2. Patience(faults + 1)' = Patience(faults + 1)
  BY DEF Patience, Idle
<1>3. QED
  BY <1>1, <1>2, NumbersBefore, NumbersAfter DEF InTime

\* A fault puts a question off by a pause, or restart, and a pass at most.
LEMMA FaultyStep ==
  ASSUME ShapeInv, ShapeInv', NEW k \in Kinds, InTime(k),
         UNCHANGED <<left, expiry, sent>>, faults' = faults + 1,
         Wait(k)' <= Wait(k) + Idle + PassBudget
  PROVE  InTime(k)'
<1>1. Late(k)' = Late(k)
  BY DEF Late, First
<1>2. faults \in Nat /\ faults + 1 \in Nat
  BY NumbersBefore
<1>3. Fits(faults + 1, k)' => Fits(faults + 1, k)
  <2>1. Fits(faults + 1, k)' <=> Fits(faults + 1 + 1, k)
    BY <1>2 DEF Fits, Idle, Window
  <2>2. QED
    BY <1>2, <2>1, FitsLess
<1>4. Patience(faults + 1)' = Patience(faults + 1) + Idle + PassBudget
  <2>1. Patience(faults + 1)' = Patience((faults + 1) + 1)
    BY <1>2 DEF Patience, Idle
  <2>2. QED
    BY <1>2, <2>1, PatienceGrows
<1>5. QED
  BY <1>1, <1>3, <1>4, NumbersBefore, NumbersAfter, PauseNat DEF InTime

LEMMA TimelyInit == Init => Timely
<1> SUFFICES ASSUME Init, NEW k \in armed PROVE InTime(k)
  BY DEF Timely
<1>1. k \in Kinds /\ left > First(k)
  BY WindowSize, ConstantsAssumption DEF Init, Ahead
<1>2. QED
  BY <1>1, ShapeInit, NotYetDue

LEMMA TimelyNext == ShapeInv /\ Timely /\ [Next]_vars => Timely'
<1> SUFFICES ASSUME ShapeInv, Timely, [Next]_vars, NEW k \in armed' PROVE InTime(k)'
  BY DEF Timely
<1>0. ShapeInv' /\ Shape /\ Shape' /\ k \in Kinds
  BY ShapeNext DEF ShapeInv, Shape
<1>a. timer \in 0..Sleep /\ spent \in 0..PassBudget /\ PassBudget - spent \in 0..PassBudget
      /\ faults \in Nat /\ left \in Int
  BY <1>0, PauseNat, ConstantsAssumption DEF Shape
<1>1. CASE Renew
  <2>1. k \in Ahead(left')
    BY <1>1 DEF Renew
  <2>2. First(k) \in Window(k) /\ First(k)' = First(k)
    BY <1>0, WindowSize DEF First
  <2>3. left' > First(k) /\ left' \in Int
    BY <1>0, <2>1, <2>2, WindowSize DEF Ahead, Shape
  <2>4. QED
    BY <1>0, <2>2, <2>3, NotYetDueAfter
<1>2. CASE ~Renew
  <2>1. armed' = armed /\ expiry' = expiry
    BY <1>2 DEF Next, vars, Tick, Wake, Ask, Send, MarkReminderSent, Rest, EndPass,
       SendFails, PassFails, Crash, Restart
  <2>2. InTime(k)
    BY <2>1 DEF Timely
  <2>3. CASE UNCHANGED vars
    <3>1. Wait(k)' = Wait(k)
      BY <2>3 DEF vars, loop, Wait, Pending
    <3>2. Wait(k)' <= Wait(k)
      BY <1>0, <3>1, NumbersBefore
    <3>3. UNCHANGED <<left, expiry, faults>> /\ sent' = sent
      BY <2>3 DEF vars
    <3>4. QED
      BY <1>0, <2>2, <3>2, <3>3, Steady
  <2>4. CASE Tick
    <3>1. Wait(k)' = Wait(k) - 1
      <4>1. CASE pc = "asleep"
        BY <1>a, <2>4, <4>1, PauseNat DEF Tick, Wait
      <4>2. CASE pc = "down"
        BY <1>a, <2>4, <4>2, PauseNat DEF Tick, Wait
      <4>3. CASE pc \notin {"asleep", "down"}
        BY <1>a, <2>4, <4>3, PauseNat DEF Tick, Wait, Pending
      <4>4. QED
        BY <4>1, <4>2, <4>3
    <3>2. Late(k)' <= Late(k) + 1
      <4>1. First(k) \in Nat /\ First(k)' = First(k)
        BY <1>0, WindowSize DEF First
      <4>2. left' = left \/ left' = left - 1
        BY <2>4 DEF Tick, Later
      <4>3. QED
        BY <1>a, <4>1, <4>2 DEF Late
    <3>3. UNCHANGED <<sent, faults>>
      BY <2>4 DEF Tick
    <3>4. (Fits(faults + 1, k)' <=> Fits(faults + 1, k)) /\ Patience(faults + 1)' = Patience(faults + 1)
      BY <3>3 DEF Fits, Patience, Idle, Window
    <3>5. QED
      BY <1>0, <2>1, <2>2, <3>1, <3>2, <3>3, <3>4, NumbersBefore, NumbersAfter DEF InTime
  <2>5. CASE Wake
    <3>1. Wait(k) = PassBudget /\ Wait(k)' = PassBudget
      BY <1>0, <1>a, <2>5, PauseNat DEF Wake, Wait
    <3>2. Wait(k)' <= Wait(k)
      BY <3>1, PauseNat
    <3>3. UNCHANGED <<left, expiry, faults>> /\ sent' = sent
      BY <2>5 DEF Wake
    <3>4. QED
      BY <1>0, <2>2, <3>2, <3>3, Steady
  <2>6. CASE Ask
    <3>1. pc = "list" /\ todo' = todo \ {Max(todo)} /\ Max(todo) \in todo
          /\ UNCHANGED <<left, expiry, log, timer, spent, sent, faults>>
      BY <1>0, <2>6, MaxOfKinds DEF Ask, Shape
    <3>2. CASE Due(Max(todo)) \/ k # Max(todo)
      <4>1. \/ pc' = "send" /\ row' = [kind |-> Max(todo), expiry |-> expiry]
            \/ pc' = "list" /\ k # Max(todo)
        BY <2>6, <3>1, <3>2 DEF Ask
      <4>2. (k \in todo' \/ Pending(k)') <=> k \in todo
        BY <3>1, <4>1 DEF Pending
      <4>3. Wait(k)' = Wait(k)
        BY <3>1, <4>1, <4>2 DEF Wait, Pending
      <4>4. Wait(k)' <= Wait(k)
        BY <1>0, <4>3, NumbersBefore
      <4>5. UNCHANGED <<left, expiry, faults>> /\ sent' = sent
        BY <3>1
      <4>6. QED
        BY <1>0, <2>2, <4>4, <4>5, Steady
    <3>3. CASE ~Due(Max(todo)) /\ k = Max(todo)
      <4>1. CASE left > First(k)
        BY <1>0, <3>1, <4>1, NotYetDueAfter DEF First
      <4>2. CASE <<k, expiry>> \in log
        BY <1>0, <3>1, <4>2 DEF InTime, ShapeInv, Logged
      <4>3. CASE left \notin Window(k) /\ ~(left > First(k))
        <5>1. left <= First(k) - Cardinality(Window(k)) /\ Cardinality(Window(k)) \in Nat /\ First(k) \in Nat
          BY <1>0, <1>a, <4>3, WindowSize
        <5>2. Late(k) > Cardinality(Window(k))
          BY <1>a, <4>3, <5>1 DEF Late
        <5>3. sent[<<k, expiry>>] # 0 \/ ~Fits(faults + 1, k)
          <6>1. Fits(faults + 1, k) => Patience(faults + 1) <= Cardinality(Window(k))
            BY DEF Fits, Patience
          <6>2. QED
            BY <1>0, <2>2, <5>1, <5>2, <6>1, NumbersBefore DEF InTime
        <5>4. Fits(faults + 1, k)' <=> Fits(faults + 1, k)
          BY <3>1 DEF Fits, Idle, Window
        <5>5. QED
          BY <3>1, <5>3, <5>4 DEF InTime
      <4>4. QED
        BY <3>3, <4>1, <4>2, <4>3 DEF Due
    <3>4. QED
      BY <3>2, <3>3
  <2>7. CASE Send
    <3>1. pc = "send" /\ pc' = "mark" /\ UNCHANGED <<left, expiry, todo, spent, faults, row>>
          /\ sent' = [sent EXCEPT ![<<row.kind, row.expiry>>] = @ + 1]
      BY <2>7 DEF Send
    <3>2. <<row.kind, row.expiry>> \in Kinds \X Expiries /\ sent \in [Kinds \X Expiries -> Nat]
          /\ expiry \in Expiries
      BY <1>0, <3>1, MessageAt DEF Shape
    <3>3. CASE Pending(k)
      <4>1. sent'[<<k, expiry>>] # 0
        BY <1>0, <3>1, <3>2, <3>3 DEF Pending
      <4>2. QED
        BY <3>1, <4>1 DEF InTime
    <3>4. CASE ~Pending(k)
      <4>1. Wait(k)' = Wait(k)
        BY <3>1, <3>4 DEF Wait, Pending
      <4>2. sent'[<<k, expiry>>] = 0 => sent[<<k, expiry>>] = 0
        BY <1>0, <3>1, <3>2
      <4>3. QED
        BY <1>0, <2>2, <3>1, <4>1, <4>2, NumbersBefore, Steady
    <3>5. QED
      BY <3>3, <3>4
  <2>8. CASE MarkReminderSent \/ Rest
    <3>1. pc \in {"mark", "list"} /\ pc' \in {"list", "rest"}
          /\ UNCHANGED <<left, expiry, todo, spent, faults, sent>>
      BY <2>8 DEF MarkReminderSent, Rest
    <3>2. Wait(k)' = Wait(k)
      BY <3>1 DEF Wait, Pending
    <3>3. Wait(k)' <= Wait(k)
      BY <1>0, <3>2, NumbersBefore
    <3>4. UNCHANGED <<left, expiry, faults>> /\ sent' = sent
      BY <3>1
    <3>5. QED
      BY <1>0, <2>2, <3>3, <3>4, Steady
  <2>9. CASE EndPass
    <3>1. pc = "rest" /\ pc' = "asleep" /\ timer' = Sleep /\ todo = {}
          /\ UNCHANGED <<left, expiry, spent, faults, sent>>
      BY <2>9 DEF EndPass, Pause, ShapeInv, Logged
    <3>2. Wait(k)' = Sleep + PassBudget
      BY <3>1 DEF Wait
    <3>3. Wait(k) = (PassBudget - spent) + (Sleep + PassBudget)
      BY <3>1 DEF Wait, Pending
    <3>4. Wait(k)' <= Wait(k)
      BY <1>a, <3>2, <3>3, PauseNat
    <3>5. UNCHANGED <<left, expiry, faults>> /\ sent' = sent
      BY <3>1
    <3>6. QED
      BY <1>0, <2>2, <3>4, <3>5, Steady
  <2>10. CASE Restart
    <3>1. pc = "down" /\ pc' = "asleep" /\ timer' = timer
          /\ UNCHANGED <<left, expiry, spent, faults, sent>>
      BY <2>10 DEF Restart
    <3>2. timer = 0
      BY <1>0, <3>1 DEF ShapeInv, Logged
    <3>3. Wait(k)' = PassBudget /\ Wait(k) = (PassBudget - spent) + PassBudget
      BY <3>1, <3>2, PauseNat DEF Wait
    <3>4. Wait(k)' <= Wait(k)
      BY <1>a, <3>3, PauseNat
    <3>5. UNCHANGED <<left, expiry, faults>> /\ sent' = sent
      BY <3>1
    <3>6. QED
      BY <1>0, <2>2, <3>4, <3>5, Steady
  <2>11. CASE SendFails
    <3>1. pc = "send" /\ pc' = "list" /\ UNCHANGED <<left, expiry, todo, spent, sent>> /\ faults' = faults + 1
      BY <2>11 DEF SendFails, Fault
    <3>2. Wait(k)' <= (PassBudget - spent) + Sleep + PassBudget /\ Wait(k) >= PassBudget - spent
          /\ (k \notin todo /\ ~Pending(k) => Wait(k)' = Wait(k))
          /\ (k \in todo => Wait(k)' = Wait(k))
      BY <1>a, <3>1, PauseNat DEF Wait, Pending
    <3>3. Wait(k)' <= Wait(k) + Idle + PassBudget
      BY <1>0, <1>a, <3>2, PauseNat, NumbersBefore, NumbersAfter
    <3>4. QED
      BY <1>0, <2>2, <3>1, <3>3, FaultyStep
  <2>12. CASE PassFails
    <3>1. pc' = "asleep" /\ timer' = Sleep /\ UNCHANGED <<left, expiry, sent>> /\ faults' = faults + 1
      BY <2>12 DEF PassFails, Fault, Pause
    <3>2. Wait(k)' = Sleep + PassBudget
      BY <3>1 DEF Wait
    <3>3. Wait(k)' <= Wait(k) + Idle + PassBudget
      BY <1>0, <3>2, PauseNat, NumbersBefore
    <3>4. QED
      BY <1>0, <2>2, <3>1, <3>3, FaultyStep
  <2>13. CASE Crash
    <3>1. pc' = "down" /\ spent' = 0 /\ UNCHANGED <<left, expiry, sent>> /\ faults' = faults + 1
      BY <2>13 DEF Crash, Fault
    <3>2. Wait(k)' = PassBudget + PassBudget
      BY <3>1, PauseNat DEF Wait
    <3>3. Wait(k)' <= Wait(k) + Idle + PassBudget
      BY <1>0, <3>2, PauseNat, NumbersBefore
    <3>4. QED
      BY <1>0, <2>2, <3>1, <3>3, FaultyStep
  <2>14. QED
    BY <1>2, <2>3, <2>4, <2>5, <2>6, <2>7, <2>8, <2>9, <2>10, <2>11, <2>12, <2>13 DEF Next
<1>3. QED
  BY <1>1, <1>2

\* No reminder and no notice of the end is missed: for every list of hours, and
\* whatever is renewed in the middle of a pass, a window passes without its
\* message only if more questions failed than it has room for.
THEOREM NothingSkipped == Spec => []NoReminderSkipped
<1>1. ShapeInv /\ Timely => NoReminderSkipped
  <2> SUFFICES ASSUME ShapeInv, Timely, NEW k \in armed, \A t \in Window(k) : left < t,
                      Fits(faults + 1, k), ~(sent[<<k, expiry>>] > 0)
               PROVE  FALSE
    BY DEF NoReminderSkipped
  <2>1. k \in Kinds /\ left \in Int /\ expiry \in Expiries
    BY DEF ShapeInv, Shape
  <2>2. First(k) \in Nat /\ Cardinality(Window(k)) \in Nat /\ left < First(k) + 1 - Cardinality(Window(k))
    BY <2>1, WindowSize
  <2>3. left < First(k)
    BY <2>1, WindowSize
  <2>4. Late(k) > Cardinality(Window(k))
    BY <2>1, <2>2, <2>3 DEF Late
  <2>5. sent[<<k, expiry>>] = 0
    BY <2>1 DEF ShapeInv, Shape
  <2>6. Patience(faults + 1) <= Cardinality(Window(k))
    BY DEF Fits, Patience
  <2>7. QED
    BY <2>1, <2>2, <2>4, <2>5, <2>6, NumbersBefore DEF Timely, InTime
<1>2. QED
  BY <1>1, ShapeInit, ShapeNext, TimelyInit, TimelyNext, PTL DEF Spec

-----------------------------------------------------------------------------
(* UsageWatch, the second half of the same pass and the welcomes, for any    *)
(* number of subscriptions, guests and faults.                               *)

\* A subscription alerted less than six hours ago rests in the database, is
\* about to be committed, or lost its alert with a session.
Accounted ==
    \A s \in recent : s \in resting \/ <<s, "alert">> \in dirty \/ s \in lapsed

\* Before it compares, the loop has just committed: nothing is open, and an
\* alert is only prepared for a subscription that does not rest.
Settled ==
    /\ at \in {"compare", "alert"} => dirty = {} /\ cur \in Subs
    /\ at = "alert" => cur \notin resting

Throttle == recent \subseteq Subs /\ Accounted /\ Settled

LEMMA ThrottleInit == WatchInit => Throttle
BY DEF WatchInit, Throttle, Accounted, Settled

\* A commit puts the open alerts of subscriptions to rest.
LEMMA CommitKeeps ==
  ASSUME Throttle, Commit, UNCHANGED alerts, at' # "alert",
         at' = "compare" => cur' \in Subs
  PROVE  Throttle'
<1>1. recent' \subseteq Subs
  BY DEF Throttle, alerts
<1>2. Accounted'
  BY DEF Throttle, Accounted, Commit, Changed, alerts
<1>3. Settled'
  BY DEF Commit, Settled
<1>4. QED
  BY <1>1, <1>2, <1>3 DEF Throttle

\* The end of a session leaves its alerts among those that lapsed.
LEMMA CloseKeeps ==
  ASSUME Throttle, Close, UNCHANGED <<recent, resting>>
  PROVE  Throttle'
<1>1. recent' \subseteq Subs
  BY DEF Throttle
<1>2. Accounted'
  BY DEF Throttle, Accounted, Close, Changed
<1>3. Settled'
  BY DEF Close, GoTo, Settled
<1>4. QED
  BY <1>1, <1>2, <1>3 DEF Throttle

\* Steps that touch neither alerts nor the session and do not compare.
LEMMA OthersKeep ==
  ASSUME Throttle, UNCHANGED <<recent, lapsed, resting, dirty>>,
         \/ UNCHANGED <<at, cur>>
         \/ at' \notin {"compare", "alert"}
  PROVE  Throttle'
BY DEF Throttle, Accounted, Settled

LEMMA ThrottleNext == Throttle /\ [WatchNext]_watchVars => Throttle'
<1> SUFFICES ASSUME Throttle, [WatchNext]_watchVars PROVE Throttle'
  OBVIOUS
<1>1. CASE UNCHANGED watchVars
  BY <1>1, OthersKeep DEF watchVars, stored, pass, alerts
<1>2. ASSUME NEW s \in Subs, RecordUsageSnapshot(s) PROVE Throttle'
  BY <1>2, CommitKeeps DEF RecordUsageSnapshot, GoTo
<1>3. CASE MarkWarningSent \/ LogOffer
  BY <1>3, CommitKeeps DEF MarkWarningSent, LogOffer, GoTo
<1>4. CASE EndSession \/ SessionFails \/ BotDies
  BY <1>4, CloseKeeps DEF EndSession, SessionFails, BotDies, stored
<1>5. CASE Compare
  <2>1. CASE CooldownOk(cur) /\ at' = "alert" /\ UNCHANGED dirty
    BY <1>5, <2>1 DEF Compare, CooldownOk, Throttle, Accounted, Settled, stored, alerts
  <2>2. CASE at' = "limit" /\ dirty' = dirty \cup {<<cur, "check">>}
    BY <1>5, <2>2 DEF Compare, Throttle, Accounted, Settled, stored, alerts
  <2>3. QED
    BY <1>5, <2>1, <2>2 DEF Compare
<1>6. CASE SecurityAlert
  <2>1. recent' \subseteq Subs
    BY <1>6 DEF SecurityAlert, Throttle, Settled
  <2>2. Accounted'
    <3> SUFFICES ASSUME NEW s \in recent'
                 PROVE  s \in resting' \/ <<s, "alert">> \in dirty' \/ s \in lapsed'
      BY DEF Accounted
    <3>1. CASE s = cur
      BY <1>6, <3>1 DEF SecurityAlert
    <3>2. CASE s # cur
      BY <1>6, <3>2 DEF SecurityAlert, Throttle, Accounted, stored
    <3>3. QED
      BY <3>1, <3>2
  <2>3. Settled'
    BY <1>6 DEF SecurityAlert, Settled
  <2>4. QED
    BY <2>1, <2>2, <2>3 DEF Throttle
<1>7. CASE AlertFails
  BY <1>7 DEF AlertFails, Throttle, Accounted, Settled, stored, alerts
<1>8. ASSUME NEW s \in Subs, SixHours(s) PROVE Throttle'
  <2>1. recent' \subseteq Subs
    BY <1>8 DEF SixHours, Throttle
  <2>2. Accounted'
    BY <1>8 DEF SixHours, Throttle, Accounted
  <2>3. Settled'
    BY <1>8 DEF SixHours, Throttle, Settled, pass
  <2>4. QED
    BY <2>1, <2>2, <2>3 DEF Throttle
<1>9. CASE ActiveFiniteSubs \/ TrafficLow \/ NoWarning \/ DueUnconvertedUsers
  BY <1>9, OthersKeep DEF ActiveFiniteSubs, TrafficLow, NoWarning, DueUnconvertedUsers,
     GoTo, stored, alerts
<1>10. ASSUME NEW s \in Subs, NoUsage(s) \/ FirstUse(s) \/ Welcome(s) \/ NoteWelcome(s)
       PROVE  Throttle'
  BY <1>10, OthersKeep DEF NoUsage, FirstUse, Welcome, NoteWelcome, GoTo, stored,
     pass, alerts
<1>11. ASSUME NEW g \in Guests, Offer(g) \/ OfferFails(g) PROVE Throttle'
  BY <1>11, OthersKeep DEF Offer, OfferFails, GoTo, stored, alerts
<1>12. CASE NoteFails
  BY <1>12, OthersKeep DEF NoteFails, stored, pass, alerts
<1>13. QED
  BY <1>1, <1>2, <1>3, <1>4, <1>5, <1>6, <1>7, <1>8, <1>9, <1>10, <1>11, <1>12
     DEF WatchNext, ReminderLoop

\* Whatever fails, dies or comes last in a pass: a second alert for the same
\* subscription within six hours follows one that no commit came after.
THEOREM AlertsAreThrottled == WatchSpec => []AlertsThrottled
<1>1. Throttle => AlertsThrottled
  BY DEF Throttle, Accounted, Settled, AlertsThrottled
<1>2. QED
  BY <1>1, ThrottleInit, ThrottleNext, PTL DEF WatchSpec

-----------------------------------------------------------------------------
(* Sent once, but for faults.  A message that is filed, or in the hand of    *)
(* the loop that sent it, has one sending that stays; the others are lost.   *)
(* To send loses nothing and to file loses nothing; only what takes a        *)
(* message out of a loop's hand does, one for each loop at a time.           *)

Loop == {"warning", "offer"}
Hello == {"welcome"}

Stays(m) ==
    \/ m[1] = "warning" /\ (m[2] \in filed \/ (at = "warned" /\ m[2] = cur))
    \/ m[1] = "offer" /\ (m[2] \in offered \/ (at = "offered" /\ m[2] = cur))
    \/ m[1] = "welcome" /\ connect[m[2]] \in {"told", "noted"}

Unkept(m) == IF Stays(m) THEN said[m] - 1 ELSE said[m]

Gone(what) ==
    {s \in Messages \X (Nat \ {0}) : s[1][1] \in what /\ s[2] <= Unkept(s[1])}

FewGone(what) == IsFiniteSet(Gone(what)) /\ Cardinality(Gone(what)) <= mishaps

\* Where a pass is, and what it has in hand.
WatchShape ==
    /\ {checked, resting, filed, recent, lapsed} \subseteq SUBSET Subs
    /\ offered \subseteq Guests /\ dirty \subseteq Subs \X {"check", "alert"}
    /\ connect \in [Subs -> {"unused", "used", "told", "noted"}]
    /\ at \in Places /\ said \in [Messages -> Nat] /\ mishaps \in 0..MaxMishaps
    /\ at \in {"asleep", "usage", "offers"} => cur = Nobody
    /\ at \in {"compare", "alert", "limit", "warned"} => cur \in Subs
    /\ at = "offered" => cur \in Guests \ (offered \cup ahead)
    /\ at = "warned" => cur \notin filed
    /\ at \in {"asleep", "usage", "compare", "alert", "limit", "warned"} => ahead \subseteq Subs
    /\ at \in {"offers", "offered"} => ahead \subseteq Guests \ offered
    /\ \A s, t \in Subs : connect[s] = "told" /\ connect[t] = "told" => s = t

OnceInv == WatchShape /\ FewGone(Loop) /\ FewGone(Hello)

LEMMA OnceInit == WatchInit => OnceInv
<1> SUFFICES ASSUME WatchInit PROVE OnceInv
  OBVIOUS
<1>1. WatchShape
  BY WatchAssumption DEF WatchInit, WatchShape, Places
<1>2. ASSUME NEW what PROVE Gone(what) = {}
  <2>1. ASSUME NEW s \in Messages \X (Nat \ {0}) PROVE ~(s[2] <= Unkept(s[1]))
    <3>1. said[s[1]] = 0 /\ s[2] \in Nat \ {0}
      BY DEF WatchInit
    <3>2. Unkept(s[1]) \in {-1, 0}
      BY <3>1 DEF Unkept
    <3>3. QED
      BY <3>1, <3>2
  <2>2. QED
    BY <2>1 DEF Gone
<1>3. ASSUME NEW what PROVE FewGone(what)
  BY <1>2, FS_EmptySet DEF FewGone, WatchInit
<1>4. QED
  BY <1>1, <1>3 DEF OnceInv

LEMMA UnkeptInt ==
  ASSUME WatchShape, NEW m \in Messages
  PROVE  Unkept(m) \in Int /\ said[m] \in Nat
BY DEF WatchShape, Unkept

LEMMA UnkeptIntAfter ==
  ASSUME WatchShape', NEW m \in Messages
  PROVE  Unkept(m)' \in Int
BY DEF WatchShape, Unkept

\* A step that loses no message of these kinds.
LEMMA NothingGone ==
  ASSUME WatchShape, WatchShape', NEW what, FewGone(what), mishaps' >= mishaps,
         \A m \in Messages : m[1] \in what => Unkept(m)' <= Unkept(m)
  PROVE  FewGone(what)'
<1>1. Gone(what)' \subseteq Gone(what)
  <2> SUFFICES ASSUME NEW s \in Messages \X (Nat \ {0}), s[1][1] \in what,
                      s[2] <= Unkept(s[1])'
               PROVE  s[2] <= Unkept(s[1])
    BY DEF Gone
  <2>1. s[1] \in Messages /\ s[2] \in Nat
    <3>1. PICK m \in Messages, n \in Nat \ {0} : s = <<m, n>>
      OBVIOUS
    <3>2. QED
      BY <3>1
  <2>2. Unkept(s[1])' <= Unkept(s[1]) /\ Unkept(s[1]) \in Int /\ Unkept(s[1])' \in Int
    BY <2>1, UnkeptInt, UnkeptIntAfter
  <2>3. QED
    BY <2>1, <2>2
<1>2. IsFiniteSet(Gone(what)) /\ Cardinality(Gone(what)) <= mishaps
  BY DEF FewGone
<1>3. /\ IsFiniteSet(Gone(what)') /\ Cardinality(Gone(what)') <= Cardinality(Gone(what))
      /\ Cardinality(Gone(what)) \in Nat /\ Cardinality(Gone(what)') \in Nat
  BY <1>1, <1>2, FS_Subset, FS_CardinalityType
<1>4. mishaps \in Nat /\ mishaps' \in Nat
  BY WatchAssumption DEF WatchShape
<1>5. QED
  BY <1>2, <1>3, <1>4 DEF FewGone

\* A fault that loses the message in a loop's hand.
LEMMA OneGone ==
  ASSUME WatchShape, WatchShape', NEW what, FewGone(what), mishaps' = mishaps + 1,
         NEW d, \A m \in Messages :
            m[1] \in what => Unkept(m)' <= Unkept(m) + (IF m = d THEN 1 ELSE 0)
  PROVE  FewGone(what)'
<1> DEFINE last == <<d, Unkept(d) + 1>>
<1>1. Gone(what)' \subseteq Gone(what) \cup {last}
  <2> SUFFICES ASSUME NEW s \in Messages \X (Nat \ {0}), s[1][1] \in what,
                      s[2] <= Unkept(s[1])', s # last
               PROVE  s[2] <= Unkept(s[1])
    BY DEF Gone
  <2>1. s[1] \in Messages /\ s[2] \in Nat /\ s = <<s[1], s[2]>>
    <3>1. PICK m \in Messages, n \in Nat \ {0} : s = <<m, n>>
      OBVIOUS
    <3>2. QED
      BY <3>1
  <2>2. Unkept(s[1]) \in Int /\ Unkept(s[1])' \in Int
    BY <2>1, UnkeptInt, UnkeptIntAfter
  <2>3. CASE s[1] = d
    BY <2>1, <2>2, <2>3
  <2>4. CASE s[1] # d
    BY <2>1, <2>2, <2>4
  <2>5. QED
    BY <2>3, <2>4
<1> HIDE DEF last
<1>2. /\ IsFiniteSet(Gone(what)) /\ Cardinality(Gone(what)) <= mishaps
      /\ Cardinality(Gone(what)) \in Nat
  BY FS_CardinalityType DEF FewGone
<1>3. /\ IsFiniteSet(Gone(what) \cup {last})
      /\ \/ Cardinality(Gone(what) \cup {last}) = Cardinality(Gone(what))
         \/ Cardinality(Gone(what) \cup {last}) = Cardinality(Gone(what)) + 1
  BY <1>2, FS_AddElement
<1>4. /\ IsFiniteSet(Gone(what)') /\ Cardinality(Gone(what)') \in Nat
      /\ Cardinality(Gone(what)') <= Cardinality(Gone(what) \cup {last})
  BY <1>1, <1>3, FS_Subset, FS_CardinalityType
<1>5. mishaps \in Nat
  BY WatchAssumption DEF WatchShape
<1>6. QED
  BY <1>2, <1>3, <1>4, <1>5 DEF FewGone

LEMMA MessageKinds ==
  ASSUME NEW m \in Messages
  PROVE  \/ \E s \in Subs : m = <<"warning", s>>
         \/ \E s \in Subs : m = <<"welcome", s>>
         \/ \E g \in Guests : m = <<"offer", g>>
BY DEF Messages

\* What a pass does, and what Telegram, the users and the clock do, keeps its
\* shape.
LEMMA WatchShapeNext == WatchShape /\ [WatchNext]_watchVars => WatchShape'
<1> SUFFICES ASSUME WatchShape, [WatchNext]_watchVars PROVE WatchShape'
  OBVIOUS
<1> USE WatchAssumption DEF WatchShape, Places, GoTo, stored, pass, alerts
<1>1. CASE UNCHANGED watchVars
  BY <1>1 DEF watchVars
<1>2. ASSUME NEW s \in Subs, FirstUse(s) \/ SixHours(s) PROVE WatchShape'
  BY <1>2 DEF FirstUse, SixHours
<1>3. CASE ActiveFiniteSubs
  BY <1>3 DEF ActiveFiniteSubs
<1>4. ASSUME NEW s \in Subs, NoUsage(s) \/ RecordUsageSnapshot(s) PROVE WatchShape'
  BY <1>4 DEF NoUsage, RecordUsageSnapshot, Commit, Changed
<1>5. CASE Compare \/ SecurityAlert \/ AlertFails
  BY <1>5 DEF Compare, SecurityAlert, AlertFails
<1>6. CASE TrafficLow
  <2>1. <<"warning", cur>> \in Messages
    BY <1>6 DEF TrafficLow, Messages
  <2>2. said' \in [Messages -> Nat]
    BY <1>6, <2>1 DEF TrafficLow, Say
  <2>3. QED
    BY <1>6, <2>2 DEF TrafficLow, WarnedAlready
<1>7. CASE NoWarning
  BY <1>7 DEF NoWarning
<1>8. CASE MarkWarningSent
  BY <1>8 DEF MarkWarningSent, Commit, Changed
<1>9. CASE DueUnconvertedUsers
  BY <1>9 DEF DueUnconvertedUsers, Unconverted
<1>10. ASSUME NEW g \in Guests, Offer(g) PROVE WatchShape'
  <2>1. <<"offer", g>> \in Messages
    BY DEF Messages
  <2>2. said' \in [Messages -> Nat]
    BY <1>10, <2>1 DEF Offer, Say
  <2>3. QED
    BY <1>10, <2>2 DEF Offer
<1>11. ASSUME NEW g \in Guests, OfferFails(g) PROVE WatchShape'
  BY <1>11 DEF OfferFails
<1>12. CASE LogOffer
  BY <1>12 DEF LogOffer, Commit, Changed
<1>13. CASE EndSession \/ SessionFails
  <2>1. at' = "asleep" /\ cur' = Nobody /\ ahead' = {} /\ dirty' = {}
        /\ UNCHANGED <<checked, resting, filed, offered, connect, recent, said>>
    BY <1>13 DEF EndSession, SessionFails, Close
  <2>2. lapsed' \subseteq Subs
    BY <1>13 DEF EndSession, SessionFails, Close, Changed
  <2>3. mishaps' \in 0..MaxMishaps
    BY <1>13 DEF EndSession, SessionFails, Mishap
  <2>4. QED
    BY <2>1, <2>2, <2>3
<1>14. ASSUME NEW s \in Subs, Welcome(s) PROVE WatchShape'
  <2>1. <<"welcome", s>> \in Messages
    BY DEF Messages
  <2>2. said' \in [Messages -> Nat]
    BY <1>14, <2>1 DEF Welcome, Say
  <2>3. QED
    BY <1>14, <2>2 DEF Welcome
<1>15. ASSUME NEW s \in Subs, NoteWelcome(s) PROVE WatchShape'
  BY <1>15 DEF NoteWelcome
<1>16. CASE NoteFails \/ BotDies
  <2>1. /\ connect' \in [Subs -> {"unused", "used", "told", "noted"}]
        /\ \A s \in Subs : connect'[s] # "told"
    BY <1>16 DEF NoteFails, BotDies, Forgotten
  <2>2. UNCHANGED <<checked, resting, filed, offered, recent, said>>
    BY <1>16 DEF NoteFails, BotDies
  <2>3. \/ at' = "asleep" /\ cur' = Nobody /\ ahead' = {} /\ dirty' = {}
        \/ UNCHANGED <<at, cur, ahead, dirty>>
    BY <1>16 DEF NoteFails, BotDies, Close
  <2>4. lapsed' \subseteq Subs
    BY <1>16 DEF NoteFails, BotDies, Close, Changed
  <2>5. mishaps' \in 0..MaxMishaps
    BY <1>16 DEF NoteFails, BotDies, Mishap
  <2>6. QED
    BY <2>1, <2>2, <2>3, <2>4, <2>5
<1>17. QED
  BY <1>1, <1>2, <1>3, <1>4, <1>5, <1>6, <1>7, <1>8, <1>9, <1>10, <1>11, <1>12, <1>13,
     <1>14, <1>15, <1>16 DEF WatchNext, ReminderLoop

\* Without a fault nothing is lost.
LEMMA CalmStepLosesNothing ==
  ASSUME WatchShape, [WatchNext]_watchVars, NEW m \in Messages,
         ~(SessionFails \/ NoteFails \/ BotDies)
  PROVE  Unkept(m)' <= Unkept(m) /\ mishaps' = mishaps
<1> USE WatchAssumption DEF WatchShape, GoTo, stored, pass, alerts
<1>0. said[m] \in Nat /\ "warning" # "welcome" /\ "warning" # "offer" /\ "welcome" # "offer"
  OBVIOUS
<1>a. ASSUME UNCHANGED <<said, filed, offered, connect, mishaps>>,
             at \notin {"warned", "offered"}, at' \notin {"warned", "offered"}
      PROVE  Unkept(m)' <= Unkept(m) /\ mishaps' = mishaps
  BY <1>0, <1>a DEF Unkept, Stays
<1>b. ASSUME UNCHANGED <<said, filed, offered, connect, mishaps, at, cur>>
      PROVE  Unkept(m)' <= Unkept(m) /\ mishaps' = mishaps
  BY <1>0, <1>b DEF Unkept, Stays
<1>1. CASE UNCHANGED watchVars
  BY <1>1, <1>b DEF watchVars
<1>2. ASSUME NEW s \in Subs, SixHours(s) PROVE Unkept(m)' <= Unkept(m) /\ mishaps' = mishaps
  BY <1>2, <1>b DEF SixHours
<1>3. ASSUME NEW s \in Subs, FirstUse(s) PROVE Unkept(m)' <= Unkept(m) /\ mishaps' = mishaps
  BY <1>0, <1>3, MessageKinds DEF FirstUse, Unkept, Stays
<1>4. ASSUME NEW s \in Subs, NoUsage(s) \/ RecordUsageSnapshot(s)
      PROVE  Unkept(m)' <= Unkept(m) /\ mishaps' = mishaps
  BY <1>4, <1>a DEF NoUsage, RecordUsageSnapshot
<1>5. CASE ActiveFiniteSubs \/ Compare \/ SecurityAlert \/ AlertFails \/ NoWarning
           \/ DueUnconvertedUsers \/ EndSession
  BY <1>5, <1>a DEF ActiveFiniteSubs, Compare, SecurityAlert, AlertFails, NoWarning,
     DueUnconvertedUsers, EndSession, Close
<1>6. CASE TrafficLow
  <2>1. at = "limit" /\ cur \notin filed /\ at' = "warned" /\ cur' = cur
        /\ UNCHANGED <<filed, offered, connect, mishaps>>
        /\ said' = [said EXCEPT ![<<"warning", cur>>] = @ + 1]
    BY <1>6 DEF TrafficLow, WarnedAlready, Say
  <2>2. CASE m = <<"warning", cur>>
    <3>1. said'[m] = said[m] + 1 /\ ~Stays(m) /\ Stays(m)'
      BY <2>1, <2>2 DEF Stays
    <3>2. QED
      BY <1>0, <2>1, <3>1 DEF Unkept
  <2>3. CASE m # <<"warning", cur>>
    <3>1. said'[m] = said[m]
      BY <2>1, <2>3
    <3>2. QED
      BY <1>0, <2>1, <2>3, <3>1, MessageKinds DEF Unkept, Stays
  <2>4. QED
    BY <2>2, <2>3
<1>7. CASE MarkWarningSent
  <2>1. at = "warned" /\ at' = "usage" /\ filed' = filed \cup {cur}
        /\ UNCHANGED <<said, offered, connect, mishaps>>
    BY <1>7 DEF MarkWarningSent
  <2>2. QED
    BY <1>0, <2>1 DEF Unkept, Stays
<1>8. ASSUME NEW g \in Guests, Offer(g) PROVE Unkept(m)' <= Unkept(m) /\ mishaps' = mishaps
  <2>1. at = "offers" /\ g \notin offered /\ at' = "offered" /\ cur' = g
        /\ UNCHANGED <<filed, offered, connect, mishaps>>
        /\ said' = [said EXCEPT ![<<"offer", g>>] = @ + 1]
    BY <1>8 DEF Offer, Say
  <2>2. CASE m = <<"offer", g>>
    <3>1. said'[m] = said[m] + 1 /\ ~Stays(m) /\ Stays(m)'
      BY <2>1, <2>2 DEF Stays
    <3>2. QED
      BY <1>0, <2>1, <3>1 DEF Unkept
  <2>3. CASE m # <<"offer", g>>
    <3>1. said'[m] = said[m]
      BY <2>1, <2>3
    <3>2. QED
      BY <1>0, <2>1, <2>3, <3>1, MessageKinds DEF Unkept, Stays
  <2>4. QED
    BY <2>2, <2>3
<1>9. ASSUME NEW g \in Guests, OfferFails(g) PROVE Unkept(m)' <= Unkept(m) /\ mishaps' = mishaps
  BY <1>9, <1>a DEF OfferFails
<1>10. CASE LogOffer
  <2>1. at = "offered" /\ at' = "offers" /\ offered' = offered \cup {cur}
        /\ UNCHANGED <<said, filed, connect, mishaps>>
    BY <1>10 DEF LogOffer
  <2>2. QED
    BY <1>0, <2>1 DEF Unkept, Stays
<1>11. ASSUME NEW s \in Subs, Welcome(s) PROVE Unkept(m)' <= Unkept(m) /\ mishaps' = mishaps
  <2>1. connect[s] = "used" /\ connect' = [connect EXCEPT ![s] = "told"]
        /\ UNCHANGED <<filed, offered, at, cur, mishaps>>
        /\ said' = [said EXCEPT ![<<"welcome", s>>] = @ + 1]
    BY <1>11 DEF Welcome, Say
  <2>2. CASE m = <<"welcome", s>>
    <3>1. said'[m] = said[m] + 1 /\ ~Stays(m) /\ Stays(m)'
      BY <1>0, <2>1, <2>2 DEF Stays, Messages
    <3>2. QED
      BY <1>0, <2>1, <3>1 DEF Unkept
  <2>3. CASE m # <<"welcome", s>>
    <3>1. said'[m] = said[m]
      BY <2>1, <2>3
    <3>2. QED
      BY <1>0, <2>1, <2>3, <3>1, MessageKinds DEF Unkept, Stays
  <2>4. QED
    BY <2>2, <2>3
<1>12. ASSUME NEW s \in Subs, NoteWelcome(s) PROVE Unkept(m)' <= Unkept(m) /\ mishaps' = mishaps
  BY <1>0, <1>12, MessageKinds DEF NoteWelcome, Unkept, Stays
<1>13. QED
  BY <1>1, <1>2, <1>3, <1>4, <1>5, <1>6, <1>7, <1>8, <1>9, <1>10, <1>11, <1>12
     DEF WatchNext, ReminderLoop

LEMMA OnceNext == OnceInv /\ [WatchNext]_watchVars => OnceInv'
<1> SUFFICES ASSUME OnceInv, [WatchNext]_watchVars PROVE OnceInv'
  OBVIOUS
<1>1. WatchShape /\ WatchShape' /\ FewGone(Loop) /\ FewGone(Hello)
  BY WatchShapeNext DEF OnceInv
<1>2. mishaps \in Nat /\ mishaps' \in Nat
  BY <1>1, WatchAssumption DEF WatchShape
<1>3. CASE ~(SessionFails \/ NoteFails \/ BotDies)
  <2>1. \A m \in Messages : Unkept(m)' <= Unkept(m) /\ mishaps' = mishaps
    BY <1>1, <1>3, CalmStepLosesNothing
  <2>2. CASE Messages = {}
    <3>1. ASSUME NEW what PROVE Gone(what)' = {}
      BY <2>2 DEF Gone
    <3>2. QED
      BY <1>1, <1>2, <3>1, FS_EmptySet DEF FewGone, OnceInv
  <2>3. CASE Messages # {}
    <3>1. mishaps' >= mishaps
      BY <1>2, <2>1, <2>3
    <3>2. FewGone(Loop)' /\ FewGone(Hello)'
      BY <1>1, <2>1, <3>1, NothingGone
    <3>3. QED
      BY <1>1, <3>2 DEF OnceInv
  <2>4. QED
    BY <2>2, <2>3
<1>4. CASE SessionFails \/ NoteFails \/ BotDies
  <2>1. /\ mishaps' = mishaps + 1 /\ UNCHANGED <<said, filed, offered>>
        /\ \/ at' = "asleep" /\ (connect' = connect \/ connect' = Forgotten)
           \/ at' = at /\ cur' = cur /\ connect' = Forgotten
    BY <1>4 DEF SessionFails, NoteFails, BotDies, Close, GoTo, Mishap, stored, pass
  <2>2. ASSUME NEW m \in Messages, m[1] \in Loop
        PROVE  Unkept(m)' <= Unkept(m)
                  + (IF m = <<IF at = "warned" THEN "warning" ELSE "offer", cur>> THEN 1 ELSE 0)
    <3>1. said[m] \in Nat /\ said' = said
      BY <1>1, <2>1 DEF WatchShape
    <3>2. CASE Stays(m) => Stays(m)'
      BY <3>1, <3>2 DEF Unkept
    <3>3. CASE Stays(m) /\ ~Stays(m)'
      <4>1. m = <<IF at = "warned" THEN "warning" ELSE "offer", cur>>
        BY <2>1, <2>2, <3>3, MessageKinds DEF Stays, Loop
      <4>2. QED
        BY <3>1, <4>1 DEF Unkept
    <3>4. QED
      BY <3>2, <3>3
  <2>3. PICK t : \A s \in Subs : connect[s] = "told" => s = t
    BY <1>1 DEF WatchShape
  <2>4. ASSUME NEW m \in Messages, m[1] \in Hello
        PROVE  Unkept(m)' <= Unkept(m) + (IF m = <<"welcome", t>> THEN 1 ELSE 0)
    <3>1. said[m] \in Nat /\ said' = said
      BY <1>1, <2>1 DEF WatchShape
    <3>2. CASE Stays(m) => Stays(m)'
      BY <3>1, <3>2 DEF Unkept
    <3>3. CASE Stays(m) /\ ~Stays(m)'
      <4>1. m = <<"welcome", t>>
        BY <1>1, <2>1, <2>3, <2>4, <3>3, MessageKinds DEF Stays, Hello, Forgotten, WatchShape
      <4>2. QED
        BY <3>1, <4>1 DEF Unkept
    <3>4. QED
      BY <3>2, <3>3
  <2>5. FewGone(Loop)' /\ FewGone(Hello)'
    BY <1>1, <2>1, <2>2, <2>4, OneGone
  <2>6. QED
    BY <1>1, <2>5 DEF OnceInv
<1>5. QED
  BY <1>3, <1>4

\* What was sent again is lost.
LEMMA AgainIsLost ==
  ASSUME OnceInv, NEW what, FewGone(what)
  PROVE  Cardinality(Resent(what)) <= mishaps
<1>1. Resent(what) \subseteq Gone(what)
  <2> SUFFICES ASSUME NEW s \in Messages \X (1..(MaxMishaps + 1)),
                      s[1][1] \in what, s[2] < said[s[1]]
               PROVE  s \in Gone(what)
    BY DEF Resent
  <2>1. PICK m \in Messages, n \in 1..(MaxMishaps + 1) : s = <<m, n>>
    OBVIOUS
  <2>2. said[m] \in Nat /\ n \in Nat \ {0} /\ n < said[m]
    BY <2>1, WatchAssumption DEF OnceInv, WatchShape
  <2>3. n <= Unkept(m)
    BY <2>2 DEF Unkept
  <2>4. QED
    BY <2>1, <2>2, <2>3 DEF Gone
<1>2. /\ Cardinality(Resent(what)) <= Cardinality(Gone(what))
      /\ Cardinality(Resent(what)) \in Nat /\ Cardinality(Gone(what)) \in Nat
      /\ Cardinality(Gone(what)) <= mishaps
  BY <1>1, FS_Subset, FS_CardinalityType DEF FewGone
<1>3. mishaps \in Nat
  BY WatchAssumption DEF OnceInv, WatchShape
<1>4. QED
  BY <1>2, <1>3

\* A warning, an offer and a welcome that are sent again have a fault of their
\* own to blame: for any number of subscriptions, guests and faults.
THEOREM OneSending == WatchSpec => []SaidOnce
<1>1. OnceInv => SaidOnce
  BY AgainIsLost DEF OnceInv, SaidOnce, Loop, Hello
<1>2. QED
  BY <1>1, OnceInit, OnceNext, PTL DEF WatchSpec

\* A message is sent once, and once more for each fault at most.
LEMMA FewMessages ==
  ASSUME OnceInv, NEW m \in Messages
  PROVE  said[m] \in 0..(MaxMishaps + 1)
<1>1. said[m] \in Nat /\ mishaps \in Nat /\ MaxMishaps \in Nat /\ mishaps <= MaxMishaps
  BY WatchAssumption DEF OnceInv, WatchShape
<1>2. PICK what : m[1] \in what /\ FewGone(what)
  BY MessageKinds DEF OnceInv, Loop, Hello
<1> DEFINE f == [n \in 1..(said[m] - 1) |-> <<m, n>>]
<1>3. ASSUME NEW n \in 1..(said[m] - 1) PROVE f[n] \in Gone(what)
  <2>1. n \in Nat \ {0} /\ n <= Unkept(m)
    BY <1>1 DEF Unkept
  <2>2. QED
    BY <1>2, <2>1 DEF Gone
<1>4. f \in Injection(1..(said[m] - 1), Gone(what))
  <2>1. f \in [1..(said[m] - 1) -> Gone(what)]
    BY <1>3
  <2>2. \A i, j \in 1..(said[m] - 1) : f[i] = f[j] => i = j
    OBVIOUS
  <2>3. QED
    BY <2>1, <2>2 DEF Injection, IsInjective
<1> HIDE DEF f
<1>5. /\ Cardinality(1..(said[m] - 1)) <= Cardinality(Gone(what))
      /\ Cardinality(Gone(what)) \in Nat /\ Cardinality(Gone(what)) <= mishaps
  BY <1>2, <1>4, FS_Injection, FS_CardinalityType DEF FewGone
<1>6. Cardinality(1..(said[m] - 1)) = IF 1 > said[m] - 1 THEN 0 ELSE said[m] - 1
  <2>1. 1 \in Int /\ said[m] - 1 \in Int
    BY <1>1
  <2>2. Cardinality(1..(said[m] - 1)) = IF 1 > said[m] - 1 THEN 0 ELSE (said[m] - 1) - 1 + 1
    BY <2>1, FS_Interval
  <2>3. QED
    BY <1>1, <2>2
<1>7. QED
  BY <1>1, <1>5, <1>6

\* Type correctness of the watch, the bound on what is sent included.
THEOREM WatchTypeCorrect == WatchSpec => []WatchTypeOK
<1>1. OnceInv => WatchTypeOK
  <2> SUFFICES ASSUME OnceInv PROVE WatchTypeOK
    OBVIOUS
  <2>1. said \in [Messages -> 0..(MaxMishaps + 1)]
    BY FewMessages DEF OnceInv, WatchShape
  <2>2. cur \in Subs \cup Guests \cup {Nobody} /\ ahead \subseteq Subs \cup Guests
    BY DEF OnceInv, WatchShape, Places
  <2>3. QED
    BY <2>1, <2>2 DEF OnceInv, WatchShape, WatchTypeOK
<1>2. QED
  BY <1>1, OnceInit, OnceNext, PTL DEF WatchSpec

=============================================================================
