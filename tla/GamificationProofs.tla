------------------------- MODULE GamificationProofs -------------------------
(* Theorems about Gamification, for every number of concurrent requests,    *)
(* days, faults and every goal.                                             *)
EXTENDS Gamification, FiniteSetTheorems, TLAPS

\* What each kind of request may be at.
Shape ==
    \A h \in Handlers :
        /\ kind[h] = "page" => pc[h] \in {"idle", "create"}
        /\ kind[h] = "checkin" => pc[h] # "prize"
        /\ kind[h] = "wheel" => pc[h] \notin {"undo", "undo_write"}

TypeInv == TypeOK /\ Shape

LEMMA ChangedType ==
  ASSUME TypeOK, NEW h \in Handlers
  PROVE  Changed(h) \in State
<1>1. mem[h] \in State /\ day[h] \in Days /\ today \in Nat
  BY DEF TypeOK, Days
<1>2. NextStreak(mem[h]) \in Nat
  BY <1>1 DEF NextStreak, State
<1>3. QED
  BY <1>1, <1>2 DEF Changed, State

LEMMA RestoredType ==
  ASSUME NEW state \in State, NEW old \in State
  PROVE  Restored(state, old) \in State
BY DEF Restored, State

LEMMA CommitType ==
  ASSUME TypeOK, NEW h \in Handlers, NEW state \in State, Commit(h, state)
  PROVE  gami' \in State
<1>1. DOMAIN gami = {"streak", "last", "checkins", "spins"}
  BY DEF TypeOK, State
<1>2. gami' = [f \in {"streak", "last", "checkins", "spins"} |->
                  IF state[f] = mem[h][f] THEN gami[f] ELSE state[f]]
  BY <1>1 DEF Commit, Written
<1>3. gami' = [streak |-> gami'.streak, last |-> gami'.last,
               checkins |-> gami'.checkins, spins |-> gami'.spins]
  BY <1>2
<1>4. gami \in State
  BY DEF TypeOK
<1>5. /\ gami'.streak \in {gami.streak, state.streak}
      /\ gami'.last \in {gami.last, state.last}
      /\ gami'.checkins \in {gami.checkins, state.checkins}
      /\ gami'.spins \in {gami.spins, state.spins}
  BY <1>2
<1>6. QED
  BY <1>3, <1>4, <1>5 DEF State

LEMMA ClearType ==
  ASSUME TypeInv, NEW group, Clear(group)
  PROVE  /\ pc' \in [Handlers -> PC] /\ kind' \in [Handlers -> Kinds \cup {"page"}]
         /\ day' \in [Handlers -> Days]
         /\ mem' \in [Handlers -> State] /\ prev' \in [Handlers -> State]
         /\ Shape'
<1>1. 1 \in Days /\ NewState \in State
  BY ConstantsAssumption DEF Days, NewState, State, NoDay
<1>2. QED
  BY <1>1 DEF Clear, TypeInv, TypeOK, Shape, PC, Kinds

LEMMA TypeInvInit == Init => TypeInv
<1>1. 1 \in Days /\ NewState \in State
  BY ConstantsAssumption DEF Days, NewState, State, NoDay
<1> SUFFICES ASSUME Init PROVE TypeInv
  OBVIOUS
<1>3. /\ rows \in [Claims -> {"none", "reserved", "given"}]
      /\ prizes \in [Claims -> Nat] /\ hidden \in [Claims -> Nat]
  BY DEF Init
<1>4. /\ pc \in [Handlers -> PC] /\ kind \in [Handlers -> Kinds \cup {"page"}]
      /\ day \in [Handlers -> Days] /\ Shape
  BY <1>1 DEF Init, PC, Kinds, Shape
<1>5. mem \in [Handlers -> State] /\ prev \in [Handlers -> State] /\ gami \in State
  BY <1>1 DEF Init
<1>6. active \in BOOLEAN /\ made \in BOOLEAN /\ promo \in BOOLEAN /\ calm \in BOOLEAN
  BY DEF Init
<1>7. today \in Days /\ faults \in 0..MaxFaults
  BY <1>1, ConstantsAssumption DEF Init
<1>8. QED
  BY <1>3, <1>4, <1>5, <1>6, <1>7 DEF TypeInv, TypeOK

LEMMA TypeInvNext == TypeInv /\ [Next]_vars => TypeInv'
<1> SUFFICES ASSUME TypeInv, [Next]_vars PROVE TypeInv'
  OBVIOUS
<1> USE ConstantsAssumption DEF TypeInv, TypeOK, Shape, PC, Kinds, Claims, ClaimOf, svars, hvars, ghost
<1>1. ASSUME NEW h \in Handlers, NEW k \in Kinds, Begin(h, k) PROVE TypeInv'
  BY <1>1 DEF Begin
<1>2. ASSUME NEW h \in Handlers, OpenPage(h) PROVE TypeInv'
  BY <1>2 DEF OpenPage
<1>3. ASSUME NEW h \in Handlers, Reserve(h) PROVE TypeInv'
  <2>1. CASE Free(ClaimOf(h))
    <3>1. rows' = [rows EXCEPT ![ClaimOf(h)] = "reserved"]
      BY <1>3, <2>1 DEF Reserve
    <3>2. rows' \in [Claims -> {"none", "reserved", "given"}]
      BY <3>1
    <3>3. /\ pc' = [pc EXCEPT ![h] = IF kind[h] = "checkin" THEN "read" ELSE "prize"]
          /\ kind' = kind /\ day' = day /\ mem' = mem /\ prev' = prev
      BY <1>3, <2>1 DEF Reserve, GoTo
    <3>4. pc[h] = "reserve"
      BY <1>3 DEF Reserve
    <3>5. pc' \in [Handlers -> PC] /\ Shape'
      BY <3>3, <3>4
    <3>6. UNCHANGED <<today, active, made, gami, promo, faults, prizes, hidden, calm>>
      BY <1>3 DEF Reserve
    <3>7. QED
      BY <3>2, <3>3, <3>5, <3>6
  <2>2. CASE ~Free(ClaimOf(h))
    <3>1. Clear({h}) /\ rows' = rows
      BY <1>3, <2>2 DEF Reserve
    <3>2. UNCHANGED <<today, active, made, gami, promo, faults, prizes, hidden, calm>>
      BY <1>3 DEF Reserve
    <3>3. /\ pc' \in [Handlers -> PC] /\ kind' \in [Handlers -> Kinds \cup {"page"}]
          /\ day' \in [Handlers -> Days]
          /\ mem' \in [Handlers -> State] /\ prev' \in [Handlers -> State]
          /\ Shape'
      BY <3>1, ClearType
    <3>4. QED
      BY <3>1, <3>2, <3>3
  <2>3. QED
    BY <2>1, <2>2
<1>4. ASSUME NEW h \in Handlers, ReadState(h) PROVE TypeInv'
  BY <1>4 DEF ReadState, GoTo
<1>5. ASSUME NEW h \in Handlers, CreateState(h) PROVE TypeInv'
  <2>1. CASE made \/ kind[h] = "page"
    BY <1>5, <2>1, ClearType DEF CreateState
  <2>2. CASE ~(made \/ kind[h] = "page")
    <3>1. NewState \in State
      BY DEF NewState, State, NoDay
    <3>2. QED
      BY <1>5, <2>2, <3>1 DEF CreateState, GoTo
  <2>3. QED
    BY <2>1, <2>2
<1>6. ASSUME NEW h \in Handlers, WriteState(h) PROVE TypeInv'
  <2>1. gami' \in State
    BY <1>6, ChangedType, CommitType DEF WriteState
  <2>2. NewState \in State
    BY DEF NewState, State, NoDay
  <2>3. mem' \in [Handlers -> State] /\ prev' \in [Handlers -> State]
    BY <1>6, <2>2 DEF WriteState
  <2>4. QED
    BY <1>6, <2>1, <2>3 DEF WriteState, GoTo
<1>7. ASSUME NEW h \in Handlers, NEW segment \in Segments, PickSegment(h, segment) PROVE TypeInv'
  <2>1. promo' \in BOOLEAN /\ prizes' \in [Claims -> Nat]
    <3>1. CASE segment = "promo"
      BY <1>7, <3>1 DEF PickSegment, Prize
    <3>2. CASE segment # "promo"
      BY <1>7, <3>2 DEF PickSegment, Segments
    <3>3. QED
      BY <3>1, <3>2
  <2>2. pc' \in [Handlers -> PC] /\ Shape'
    BY <1>7 DEF PickSegment, GoTo, Segments
  <2>3. QED
    BY <1>7, <2>1, <2>2 DEF PickSegment, GoTo, Segments
<1>8. ASSUME NEW h \in Handlers, GrantReward(h) PROVE TypeInv'
  BY <1>8 DEF GrantReward, GoTo, Prize
<1>9. ASSUME NEW h \in Handlers, RewardRefused(h) PROVE TypeInv'
  BY <1>9 DEF RewardRefused, GoTo, Undo
<1>10. ASSUME NEW h \in Handlers, RewardHidden(h) PROVE TypeInv'
  BY <1>10 DEF RewardHidden, GoTo, Undo, Prize
<1>11. ASSUME NEW h \in Handlers, ReadForUndo(h) PROVE TypeInv'
  BY <1>11 DEF ReadForUndo, GoTo
<1>12. ASSUME NEW h \in Handlers, UndoState(h) PROVE TypeInv'
  <2>1. gami' \in State
    BY <1>12, RestoredType, CommitType DEF UndoState
  <2>2. QED
    BY <1>12, <2>1 DEF UndoState, GoTo
<1>13. ASSUME NEW h \in Handlers, DeleteClaim(h) PROVE TypeInv'
  BY <1>13, ClearType DEF DeleteClaim, Released
<1>14. ASSUME NEW h \in Handlers, RecordReward(h) PROVE TypeInv'
  BY <1>14, ClearType DEF RecordReward
<1>15. CASE Midnight
  BY <1>15 DEF Midnight, Days
<1>16. CASE Subscription
  BY <1>16 DEF Subscription
<1>17. CASE CrashWeb
  <2>1. faults' \in 0..MaxFaults
    BY <1>17 DEF CrashWeb
  <2>2. calm' \in BOOLEAN /\ Clear(Handlers)
    BY <1>17 DEF CrashWeb
  <2>3. QED
    BY <1>17, <2>1, <2>2, ClearType DEF CrashWeb
<1>18. CASE UNCHANGED vars
  BY <1>18 DEF vars
<1>19. QED
  BY <1>1, <1>2, <1>3, <1>4, <1>5, <1>6, <1>7, <1>8, <1>9, <1>10, <1>11, <1>12,
     <1>13, <1>14, <1>15, <1>16, <1>17, <1>18 DEF Next, Handle

\* Type correctness of the check-in, the wheel and their state rows.
THEOREM TypeCorrect == Spec => []TypeOK
<1>1. TypeInv => TypeOK
  BY DEF TypeInv
<1>2. QED
  BY <1>1, TypeInvInit, TypeInvNext, PTL DEF Spec

-----------------------------------------------------------------------------
(* One reward per claim.  A reservation is held by one request at most, so   *)
(* a reward is given by the request that holds it, once; a claim that is     *)
(* free, or whose request has yet to give its reward, has none but those     *)
(* that were reported as failures.                                           *)

\* Request h holds claim c (a page holds none).
Owns(h, c) == kind[h] \in Kinds /\ Holds(h, c)

\* The steps before the reward and those that undo a failed one.
Unpaid(h) ==
    IF kind[h] = "checkin"
    THEN pc[h] \in {"read", "create", "write", "grant", "undo", "undo_write", "delete"}
    ELSE pc[h] \in {"prize", "grant", "delete"}

OneOwner(c) ==
    \A h1, h2 \in Handlers : Owns(h1, c) /\ Owns(h2, c) => h1 = h2

OwnedIsReserved(c) ==
    \A h \in Handlers : Owns(h, c) => rows[c] = "reserved"

UnpaidHasNone(c) ==
    rows[c] = "none" \/ (\E h \in Handlers : Owns(h, c) /\ Unpaid(h))
        => prizes[c] <= hidden[c]

Single(c) ==
    /\ OneOwner(c)
    /\ OwnedIsReserved(c)
    /\ UnpaidHasNone(c)
    /\ prizes[c] <= 1 + hidden[c]

RewardInv == \A c \in Claims : Single(c)

\* A step that gives and takes back no claim, and gives no reward, keeps it
\* single as long as no request moves back before its reward.
LEMMA Untouched ==
  ASSUME TypeInv, NEW c \in Claims, Single(c),
         UNCHANGED <<rows, prizes, hidden>>,
         \A h \in Handlers : Owns(h, c)' => Owns(h, c),
         \A h \in Handlers : Owns(h, c)' /\ Unpaid(h)' => Unpaid(h)
  PROVE  Single(c)'
BY DEF Single, OneOwner, OwnedIsReserved, UnpaidHasNone

LEMMA RewardInvInit == Init => RewardInv
BY DEF Init, RewardInv, Single, OneOwner, OwnedIsReserved, UnpaidHasNone, Owns, Holds

LEMMA RewardInvNext == TypeInv /\ RewardInv /\ [Next]_vars => RewardInv'
<1> SUFFICES ASSUME TypeInv, RewardInv, [Next]_vars, NEW c \in Claims
             PROVE  Single(c)'
  BY DEF RewardInv
<1>0. Single(c)
  BY DEF RewardInv
<1> USE DEF TypeInv, TypeOK, Shape, Kinds, Owns, Holds, Unpaid, ClaimOf, Free
<1>1. ASSUME NEW h \in Handlers, NEW k \in Kinds, Begin(h, k) PROVE Single(c)'
  BY <1>0, <1>1, Untouched DEF Begin, svars, ghost
<1>2. ASSUME NEW h \in Handlers, OpenPage(h) PROVE Single(c)'
  BY <1>0, <1>2, Untouched DEF OpenPage, svars, ghost
<1>3. ASSUME NEW h \in Handlers, Reserve(h) PROVE Single(c)'
  <2>1. CASE Free(ClaimOf(h)) /\ ClaimOf(h) = c
    <3>1. rows[c] = "none" /\ rows'[c] = "reserved" /\ UNCHANGED <<prizes, hidden>>
      BY <1>3, <2>1 DEF Reserve, Free, ghost
    <3>2. \A g \in Handlers : Owns(g, c)' => g = h
      BY <1>0, <1>3, <2>1, <3>1 DEF Reserve, GoTo, Single, OwnedIsReserved
    <3>3. QED
      BY <1>0, <3>1, <3>2 DEF Single, OneOwner, OwnedIsReserved, UnpaidHasNone
  <2>2. CASE Free(ClaimOf(h)) /\ ClaimOf(h) # c
    <3>1. rows'[c] = rows[c] /\ UNCHANGED <<prizes, hidden>>
      BY <1>3, <2>2 DEF Reserve, ghost
    <3>2. \A g \in Handlers : Owns(g, c)' => g # h /\ Owns(g, c) /\ (Unpaid(g)' => Unpaid(g))
      BY <1>3, <2>2 DEF Reserve, GoTo
    <3>3. QED
      BY <1>0, <3>1, <3>2 DEF Single, OneOwner, OwnedIsReserved, UnpaidHasNone
  <2>3. CASE ~Free(ClaimOf(h))
    BY <1>0, <1>3, <2>3, Untouched DEF Reserve, Clear, svars, ghost
  <2>4. QED
    BY <2>1, <2>2, <2>3
<1>4. ASSUME NEW h \in Handlers, ReadState(h) PROVE Single(c)'
  BY <1>0, <1>4, Untouched DEF ReadState, GoTo, svars, ghost
<1>5. ASSUME NEW h \in Handlers, CreateState(h) PROVE Single(c)'
  <2>1. CASE made \/ kind[h] = "page"
    BY <1>0, <1>5, <2>1, Untouched DEF CreateState, Clear, ghost
  <2>2. CASE ~(made \/ kind[h] = "page")
    BY <1>0, <1>5, <2>2, Untouched DEF CreateState, GoTo, ghost
  <2>3. QED
    BY <2>1, <2>2
<1>6. ASSUME NEW h \in Handlers, WriteState(h) PROVE Single(c)'
  BY <1>0, <1>6, Untouched DEF WriteState, GoTo, ghost
<1>7. ASSUME NEW h \in Handlers, NEW segment \in Segments, PickSegment(h, segment) PROVE Single(c)'
  <2>1. CASE segment = "promo" /\ ClaimOf(h) = c
    <3>1. prizes'[c] = prizes[c] + 1 /\ hidden'[c] = hidden[c] /\ rows'[c] = rows[c]
      BY <1>7, <2>1 DEF PickSegment, Prize, Claims
    <3>2. Owns(h, c) /\ Unpaid(h) /\ ~Unpaid(h)'
      BY <1>7, <2>1 DEF PickSegment, GoTo
    <3>3. \A g \in Handlers : g # h => ~Owns(g, c)
      BY <1>0, <3>2 DEF Single, OneOwner
    <3>4. \A g \in Handlers : Owns(g, c)' => g = h
      BY <1>7, <2>1, <3>3 DEF PickSegment, GoTo
    <3>5. QED
      BY <1>0, <3>1, <3>2, <3>4 DEF Single, OneOwner, OwnedIsReserved, UnpaidHasNone
  <2>2. CASE ~(segment = "promo" /\ ClaimOf(h) = c)
    <3>1. prizes'[c] = prizes[c] /\ hidden'[c] = hidden[c] /\ rows'[c] = rows[c]
      BY <1>7, <2>2 DEF PickSegment, Prize, Segments
    <3>2. \A g \in Handlers : Owns(g, c)' => Owns(g, c) /\ (Unpaid(g)' => Unpaid(g))
      BY <1>7 DEF PickSegment, GoTo, Segments
    <3>3. QED
      BY <1>0, <3>1, <3>2 DEF Single, OneOwner, OwnedIsReserved, UnpaidHasNone
  <2>3. QED
    BY <2>1, <2>2
<1>8. ASSUME NEW h \in Handlers, GrantReward(h) PROVE Single(c)'
  <2>1. CASE ClaimOf(h) = c
    <3>1. prizes'[c] = prizes[c] + 1 /\ hidden'[c] = hidden[c] /\ rows'[c] = rows[c]
      BY <1>8, <2>1 DEF GrantReward, Prize, svars
    <3>2. Owns(h, c) /\ Unpaid(h) /\ ~Unpaid(h)'
      BY <1>8, <2>1 DEF GrantReward, GoTo
    <3>3. \A g \in Handlers : g # h => ~Owns(g, c)
      BY <1>0, <3>2 DEF Single, OneOwner
    <3>4. \A g \in Handlers : Owns(g, c)' => g = h
      BY <1>8, <2>1, <3>3 DEF GrantReward, GoTo
    <3>5. QED
      BY <1>0, <3>1, <3>2, <3>4 DEF Single, OneOwner, OwnedIsReserved, UnpaidHasNone
  <2>2. CASE ClaimOf(h) # c
    <3>1. prizes'[c] = prizes[c] /\ hidden'[c] = hidden[c] /\ rows'[c] = rows[c]
      BY <1>8, <2>2 DEF GrantReward, Prize, svars
    <3>2. \A g \in Handlers : Owns(g, c)' => Owns(g, c) /\ (Unpaid(g)' => Unpaid(g))
      BY <1>8, <2>2 DEF GrantReward, GoTo
    <3>3. QED
      BY <1>0, <3>1, <3>2 DEF Single, OneOwner, OwnedIsReserved, UnpaidHasNone
  <2>3. QED
    BY <2>1, <2>2
<1>9. ASSUME NEW h \in Handlers, RewardRefused(h) PROVE Single(c)'
  BY <1>0, <1>9, Untouched DEF RewardRefused, GoTo, Undo, svars, ghost
<1>10. ASSUME NEW h \in Handlers, RewardHidden(h) PROVE Single(c)'
  <2>1. rows'[c] = rows[c]
    BY <1>10 DEF RewardHidden, svars
  <2>2. \/ prizes'[c] = prizes[c] + 1 /\ hidden'[c] = hidden[c] + 1
        \/ prizes'[c] = prizes[c] /\ hidden'[c] = hidden[c]
    BY <1>10 DEF RewardHidden, Prize
  <2>3. \A g \in Handlers : Owns(g, c)' => Owns(g, c) /\ (Unpaid(g)' => Unpaid(g))
    BY <1>10 DEF RewardHidden, GoTo, Undo
  <2>4. QED
    BY <1>0, <2>1, <2>2, <2>3 DEF Single, OneOwner, OwnedIsReserved, UnpaidHasNone
<1>11. ASSUME NEW h \in Handlers, ReadForUndo(h) PROVE Single(c)'
  BY <1>0, <1>11, Untouched DEF ReadForUndo, GoTo, svars, ghost
<1>12. ASSUME NEW h \in Handlers, UndoState(h) PROVE Single(c)'
  BY <1>0, <1>12, Untouched DEF UndoState, GoTo, ghost
<1>13. ASSUME NEW h \in Handlers, DeleteClaim(h) PROVE Single(c)'
  <2>1. CASE ClaimOf(h) = c
    <3>1. Owns(h, c) /\ Unpaid(h)
      BY <1>13, <2>1 DEF DeleteClaim
    <3>2. \A g \in Handlers : ~Owns(g, c)'
      BY <1>0, <1>13, <3>1 DEF DeleteClaim, Clear, Single, OneOwner
    <3>3. UNCHANGED <<prizes, hidden>>
      BY <1>13 DEF DeleteClaim, ghost
    <3>4. QED
      BY <1>0, <3>1, <3>2, <3>3 DEF Single, OneOwner, OwnedIsReserved, UnpaidHasNone
  <2>2. CASE ClaimOf(h) # c
    <3>1. rows'[c] = rows[c] /\ UNCHANGED <<prizes, hidden>>
      BY <1>13, <2>2 DEF DeleteClaim, ghost
    <3>2. \A g \in Handlers : Owns(g, c)' => Owns(g, c) /\ (Unpaid(g)' => Unpaid(g))
      BY <1>13 DEF DeleteClaim, Clear
    <3>3. QED
      BY <1>0, <3>1, <3>2 DEF Single, OneOwner, OwnedIsReserved, UnpaidHasNone
  <2>3. QED
    BY <2>1, <2>2
<1>14. ASSUME NEW h \in Handlers, RecordReward(h) PROVE Single(c)'
  <2>1. UNCHANGED <<prizes, hidden>>
    BY <1>14 DEF RecordReward, ghost
  <2>2. \A g \in Handlers : Owns(g, c)' => g # h /\ Owns(g, c) /\ (Unpaid(g)' => Unpaid(g))
    BY <1>14 DEF RecordReward, Clear
  <2>3. rows'[c] = rows[c] \/ (Owns(h, c) /\ rows'[c] = "given")
    BY <1>14 DEF RecordReward
  <2>4. QED
    BY <1>0, <2>1, <2>2, <2>3 DEF Single, OneOwner, OwnedIsReserved, UnpaidHasNone
<1>15. CASE Midnight
  BY <1>0, <1>15, Untouched DEF Midnight, svars, hvars, ghost
<1>16. CASE Subscription
  BY <1>0, <1>16, Untouched DEF Subscription, svars, hvars, ghost
<1>17. CASE CrashWeb
  BY <1>0, <1>17, Untouched DEF CrashWeb, Clear, svars, ghost
<1>18. CASE UNCHANGED vars
  BY <1>0, <1>18, Untouched DEF vars, svars, hvars, ghost
<1>19. QED
  BY <1>1, <1>2, <1>3, <1>4, <1>5, <1>6, <1>7, <1>8, <1>9, <1>10, <1>11, <1>12,
     <1>13, <1>14, <1>15, <1>16, <1>17, <1>18 DEF Next, Handle

\* One reward per kind and day of gamification.py:5-6, for any number of
\* racing requests, crashes and days: more only where an applied reward was
\* reported as a failure.
THEOREM RewardedOnce == Spec => []OneReward
<1>1. RewardInv => OneReward
  BY DEF RewardInv, Single, OneReward
<1>2. QED
  BY <1>1, TypeInvInit, TypeInvNext, RewardInvInit, RewardInvNext, PTL DEF Spec

-----------------------------------------------------------------------------
(* The progress, while nothing has gone wrong: no crash, no create race, and *)
(* midnight only between requests.  Then the requests at work are of today,  *)
(* one check-in and one spin at most, and each changes fields of the state   *)
(* row that the other leaves alone.                                          *)

CheckedIn == Given("checkin")

\* Requests at work are of today, reservations belong to one of them.
OfToday == \A h \in Handlers : kind[h] \in Kinds /\ pc[h] # "idle" => day[h] = today
Held    == \A c \in Claims : rows[c] = "reserved" => \E h \in Handlers : Holds(h, c)
Past    == \A d \in CheckedIn : d <= today

Orderly == OfToday /\ Held /\ Past

\* The days of a set that lead to day d without a gap.
RunOf(set, d) == {e \in Days : e <= d /\ e..d \subseteq set}

\* A state row that says of the check-ins what the claims say.
Earned(state, set) ==
    /\ state.checkins = Cardinality(set)
    /\ state.streak = (IF state.last = NoDay THEN 0 ELSE Cardinality(RunOf(set, state.last)))
    /\ set = {} => state.last = NoDay
    /\ set # {} => state.last \in set /\ \A d \in set : d <= state.last

\* The check-in in the state row whose claim is not given yet.
Ahead(h) == kind[h] = "checkin" /\ pc[h] \in {"grant", "undo", "undo_write", "record"}

SameProgress(a, b) == a.streak = b.streak /\ a.last = b.last /\ a.checkins = b.checkins

StreakInv ==
    /\ (\A h \in Handlers : ~Ahead(h)) => Earned(gami, CheckedIn)
    /\ \A h \in Handlers :
          /\ Ahead(h) =>
                /\ Earned(prev[h], CheckedIn)
                /\ gami.streak = NextStreak(prev[h]) /\ gami.last = today
                /\ gami.checkins = prev[h].checkins + 1
          /\ Ahead(h) /\ pc[h] = "grant" => Reached(gami.streak)
          /\ kind[h] = "checkin" /\ pc[h] \in {"write", "undo_write"} =>
                SameProgress(mem[h], gami)
          /\ Ahead(h) \/ pc[h] = "write" => made
    /\ ~made => gami = NewState

Spun(h) == kind[h] = "wheel" /\ pc[h] = "record"

SpinInv ==
    /\ gami.spins = Cardinality(Given("wheel")) + (IF \E h \in Handlers : Spun(h) THEN 1 ELSE 0)
    /\ \A h \in Handlers : kind[h] = "wheel" /\ pc[h] = "write" => mem[h].spins = gami.spins

PrizeInv ==
    \A d \in Days : \A n \in 1..(Goal - 1) :
        prizes[<<"checkin", d>>] > 0 => d - n \in CheckedIn

ProgressInv == calm => Orderly /\ StreakInv /\ SpinInv /\ PrizeInv

\* A step of request h.
Step(h) == (\E k \in Kinds : Begin(h, k)) \/ OpenPage(h) \/ Handle(h)

Others(h) ==
    \A g \in Handlers \ {h} :
        pc'[g] = pc[g] /\ kind'[g] = kind[g] /\ day'[g] = day[g]
        /\ mem'[g] = mem[g] /\ prev'[g] = prev[g]

LEMMA ClearOne ==
  ASSUME TypeInv, NEW h \in Handlers, Clear({h})
  PROVE  Others(h) /\ pc'[h] = "idle"
BY DEF Clear, Others, TypeInv, TypeOK

\* A request changes nothing of the others, and no claim but its own.
LEMMA StepIsOwn ==
  ASSUME TypeInv, NEW h \in Handlers, Step(h)
  PROVE  /\ Others(h) /\ today' = today /\ (calm' => calm)
         /\ \A c \in Claims : c # ClaimOf(h) => rows'[c] = rows[c] /\ prizes'[c] = prizes[c]
<1> USE DEF TypeInv, TypeOK, Others, svars, hvars, ghost, GoTo
<1>1. CASE (\E k \in Kinds : Begin(h, k)) \/ OpenPage(h)
  BY <1>1 DEF Begin, OpenPage
<1>2. CASE Reserve(h)
  BY <1>2, ClearOne DEF Reserve
<1>3. CASE ReadState(h) \/ WriteState(h)
  BY <1>3 DEF ReadState, WriteState
<1>4. CASE CreateState(h)
  BY <1>4, ClearOne DEF CreateState
<1>5. CASE \E segment \in Segments : PickSegment(h, segment)
  BY <1>5 DEF PickSegment, Segments, Prize
<1>6. CASE GrantReward(h) \/ RewardRefused(h) \/ RewardHidden(h)
  BY <1>6 DEF GrantReward, RewardRefused, RewardHidden, Prize
<1>7. CASE ReadForUndo(h) \/ UndoState(h)
  BY <1>7 DEF ReadForUndo, UndoState
<1>8. CASE DeleteClaim(h) \/ RecordReward(h)
  BY <1>8, ClearOne DEF DeleteClaim, RecordReward
<1>9. QED
  BY <1>1, <1>2, <1>3, <1>4, <1>5, <1>6, <1>7, <1>8 DEF Step, Handle

\* A request at work on a claim holds a reserved one.
LEMMA HoldsReserved ==
  ASSUME TypeInv, RewardInv, NEW h \in Handlers, kind[h] \in Kinds,
         pc[h] \notin {"idle", "reserve"}
  PROVE  ClaimOf(h) \in Claims /\ Holds(h, ClaimOf(h)) /\ Owns(h, ClaimOf(h))
         /\ rows[ClaimOf(h)] = "reserved"
<1>1. ClaimOf(h) \in Claims
  BY DEF ClaimOf, Claims, TypeInv, TypeOK
<1>2. Owns(h, ClaimOf(h)) /\ Holds(h, ClaimOf(h))
  BY DEF Owns, Holds
<1>3. QED
  BY <1>1, <1>2 DEF RewardInv, Single, OwnedIsReserved

\* Claims are given only when their reward is recorded.
LEMMA GivenChange ==
  ASSUME TypeInv, RewardInv, NEW h \in Handlers, Step(h), NEW k \in Kinds
  PROVE  /\ ~(RecordReward(h) /\ kind[h] = k) => Given(k)' = Given(k)
         /\ RecordReward(h) /\ kind[h] = k =>
              Given(k)' = Given(k) \cup {day[h]} /\ day[h] \notin Given(k)
<1>1. ASSUME NEW c \in Claims, c = ClaimOf(h), ~RecordReward(h)
      PROVE  rows'[c] = "given" <=> rows[c] = "given"
  <2>1. CASE Reserve(h)
    BY <1>1, <2>1 DEF Reserve, Free, TypeInv, TypeOK
  <2>2. CASE DeleteClaim(h)
    <3>1. kind[h] \in Kinds /\ pc[h] = "delete"
      BY <1>1, <2>2 DEF DeleteClaim, ClaimOf, Claims
    <3>2. rows[c] = "reserved"
      BY <1>1, <3>1, HoldsReserved
    <3>3. rows'[c] = "none"
      BY <1>1, <2>2 DEF DeleteClaim, Released, TypeInv, TypeOK
    <3>4. QED
      BY <3>2, <3>3
  <2>3. CASE ~Reserve(h) /\ ~DeleteClaim(h)
    BY <1>1, <2>3 DEF Step, Handle, Begin, OpenPage, ReadState, CreateState, WriteState,
       PickSegment, GrantReward, RewardRefused, RewardHidden, ReadForUndo, UndoState, svars
  <2>4. QED
    BY <2>1, <2>2, <2>3
<1>2. ASSUME NEW d \in Days, <<k, d>> # ClaimOf(h) \/ ~RecordReward(h)
      PROVE  d \in Given(k)' <=> d \in Given(k)
  <2>1. <<k, d>> \in Claims
    BY DEF Claims
  <2>2. QED
    BY <1>1, <1>2, <2>1, StepIsOwn DEF Given
<1>3. CASE ~(RecordReward(h) /\ kind[h] = k)
  <2>1. \A d \in Days : <<k, d>> # ClaimOf(h) \/ ~RecordReward(h)
    BY <1>3 DEF ClaimOf
  <2>2. QED
    BY <1>2, <1>3, <2>1 DEF Given
<1>4. CASE RecordReward(h) /\ kind[h] = k
  <2>1. ClaimOf(h) = <<k, day[h]>> /\ day[h] \in Days /\ ClaimOf(h) \in Claims
        /\ rows[ClaimOf(h)] = "reserved"
    BY <1>4, HoldsReserved DEF RecordReward, ClaimOf, TypeInv, TypeOK
  <2>2. rows'[ClaimOf(h)] = "given"
    BY <1>4, <2>1 DEF RecordReward, TypeInv, TypeOK
  <2>3. \A d \in Days : d # day[h] => <<k, d>> # ClaimOf(h)
    BY <2>1
  <2>4. QED
    BY <1>2, <1>4, <2>1, <2>2, <2>3 DEF Given
<1>5. QED
  BY <1>3, <1>4

\* Two requests of one kind are not at work at once, for they are of one day.
LEMMA OneAtWork ==
  ASSUME TypeInv, RewardInv, OfToday, NEW g \in Handlers, NEW h \in Handlers,
         kind[g] = kind[h], kind[h] \in Kinds,
         pc[g] \notin {"idle", "reserve"}, pc[h] \notin {"idle", "reserve"}
  PROVE  g = h
<1>1. ClaimOf(g) = ClaimOf(h)
  BY DEF OfToday, ClaimOf
<1>2. QED
  BY <1>1, HoldsReserved DEF RewardInv, Single, OneOwner

\* The reservation of the day leads to a request that holds it: whoever takes
\* one holds it, and whoever lets go of it gives or frees it first.
LEMMA OrderlyStep ==
  ASSUME TypeInv, RewardInv, Orderly, NEW h \in Handlers, Step(h), calm'
  PROVE  Orderly'
<1>1. Others(h) /\ today' = today /\ \A c \in Claims : c # ClaimOf(h) => rows'[c] = rows[c]
  BY StepIsOwn
<1>2. OfToday'
  <2>1. ASSUME kind'[h] \in Kinds, pc'[h] # "idle"
        PROVE  day'[h] = today
    <3>1. CASE \E k \in Kinds : Begin(h, k)
      BY <3>1 DEF Begin, TypeInv, TypeOK
    <3>2. CASE OpenPage(h)
      BY <2>1, <3>2 DEF OpenPage, TypeInv, TypeOK, Kinds
    <3>3. CASE Handle(h)
      <4>1. pc[h] # "idle" /\ kind'[h] = kind[h] /\ day'[h] = day[h]
        <5>1. ~Clear({h})
          BY <2>1, ClearOne
        <5>2. QED
          BY <3>3, <5>1 DEF Handle, Reserve, ReadState, CreateState, WriteState, PickSegment,
             GrantReward, RewardRefused, RewardHidden, ReadForUndo, UndoState, DeleteClaim,
             RecordReward, GoTo, Segments
      <4>2. QED
        BY <2>1, <4>1 DEF Orderly, OfToday
    <3>4. QED
      BY <3>1, <3>2, <3>3 DEF Step
  <2>2. QED
    BY <1>1, <2>1 DEF Orderly, OfToday, Others
<1>3. ASSUME NEW c \in Claims, rows'[c] = "reserved" PROVE \E g \in Handlers : Holds(g, c)'
  <2>1. ASSUME NEW g \in Handlers \ {h}, Holds(g, c) PROVE Holds(g, c)'
    BY <1>1, <2>1 DEF Others, Holds, ClaimOf
  <2>2. CASE c # ClaimOf(h)
    <3>1. PICK g \in Handlers : Holds(g, c)
      BY <1>1, <1>3, <2>2 DEF Orderly, Held
    <3>2. g # h
      BY <2>2, <3>1 DEF Holds
    <3>3. QED
      BY <2>1, <3>1, <3>2
  <2>3. CASE c = ClaimOf(h)
    <3>0. kind[h] \in Kinds
      BY <2>3 DEF ClaimOf, Claims
    <3>1. CASE Reserve(h) /\ Free(c)
      <4>1. Holds(h, c)'
        BY <2>3, <3>1 DEF Reserve, GoTo, Holds, ClaimOf, TypeInv, TypeOK
      <4>2. QED
        BY <4>1
    <3>2. CASE DeleteClaim(h) \/ RecordReward(h)
      BY <1>3, <2>3, <3>2 DEF DeleteClaim, RecordReward, Released, TypeInv, TypeOK
    <3>3. CASE pc[h] \in {"idle", "reserve"} /\ rows'[c] = rows[c]
      <4>1. PICK g \in Handlers : Holds(g, c)
        BY <1>3, <3>3 DEF Orderly, Held
      <4>2. g # h
        BY <3>3, <4>1 DEF Holds
      <4>3. QED
        BY <2>1, <4>1, <4>2
    <3>4. CASE Handle(h) /\ ~Reserve(h) /\ ~DeleteClaim(h) /\ ~RecordReward(h)
      <4>1. ~CreateState(h) \/ ~made
        BY <3>0, ClearOne DEF CreateState, Kinds
      <4>2. /\ kind'[h] = kind[h] /\ day'[h] = day[h] /\ pc'[h] \notin {"idle", "reserve"}
        BY <3>0, <3>4, <4>1 DEF Handle, ReadState, CreateState, WriteState, PickSegment,
           GrantReward, RewardRefused, RewardHidden, ReadForUndo, UndoState,
           GoTo, Segments, Undo, Kinds, TypeInv, TypeOK
      <4>3. Holds(h, c)'
        BY <2>3, <4>2 DEF Holds, ClaimOf
      <4>4. QED
        BY <4>3
    <3>5. Begin(h, "checkin") \/ Begin(h, "wheel") \/ OpenPage(h) \/ Handle(h)
      BY DEF Step, Kinds
    <3>6. Begin(h, "checkin") \/ Begin(h, "wheel") \/ OpenPage(h) \/ (Reserve(h) /\ ~Free(c))
             => pc[h] \in {"idle", "reserve"} /\ rows'[c] = rows[c]
      BY <2>3 DEF Begin, OpenPage, Reserve, svars
    <3>7. QED
      BY <3>1, <3>2, <3>3, <3>4, <3>5, <3>6
  <2>4. QED
    BY <2>2, <2>3
<1>4. Past'
  <2>1. CheckedIn' = CheckedIn \/ (CheckedIn' = CheckedIn \cup {day[h]} /\ day[h] = today)
    <3>1. RecordReward(h) /\ kind[h] = "checkin" => day[h] = today
      BY DEF RecordReward, Orderly, OfToday, Kinds
    <3>2. QED
      BY <3>1, GivenChange DEF CheckedIn, Kinds
  <2>2. today \in Nat
    BY DEF TypeInv, TypeOK, Days
  <2>3. QED
    BY <1>1, <2>1, <2>2 DEF Orderly, Past
<1>5. QED
  BY <1>2, <1>3, <1>4 DEF Orderly, Held

-----------------------------------------------------------------------------
(* Runs of days                                                              *)

LEMMA DaySets ==
  ASSUME NEW set \in SUBSET Days, NEW d \in Nat
  PROVE  /\ IsFiniteSet(set) /\ Cardinality(set) \in Nat
         /\ IsFiniteSet(RunOf(set, d)) /\ Cardinality(RunOf(set, d)) \in Nat
<1>1. 1 \in Int /\ LastDay \in Int
  BY ConstantsAssumption
<1>2. IsFiniteSet(Days)
  BY <1>1, FS_Interval DEF Days
<1>3. RunOf(set, d) \in SUBSET Days
  BY DEF RunOf
<1>4. IsFiniteSet(set) /\ IsFiniteSet(RunOf(set, d))
  BY <1>2, <1>3, FS_Subset
<1>5. QED
  BY <1>4, FS_CardinalityType

\* A further day goes on with the run of the day before, or begins one.
LEMMA RunGrows ==
  ASSUME NEW set \in SUBSET Days, NEW d \in Days, \A e \in set : e < d
  PROVE  Cardinality(RunOf(set \cup {d}, d)) =
            IF d - 1 \in set THEN Cardinality(RunOf(set, d - 1)) + 1 ELSE 1
<1>1. d \in Nat /\ d >= 1 /\ \A e \in Days : e \in Nat /\ e >= 1
  BY DEF Days
<1>2. CASE d - 1 \in set
  <2>1. ASSUME NEW e \in Days PROVE e \in RunOf(set \cup {d}, d) <=> e \in RunOf(set, d - 1) \cup {d}
    <3>1. CASE e = d
      <4>1. e..d = {d}
        BY <1>1, <3>1
      <4>2. QED
        BY <1>1, <3>1, <4>1 DEF RunOf
    <3>2. CASE e < d
      <4>1. e..d = (e..(d - 1)) \cup {d} /\ d \notin e..(d - 1)
        BY <1>1, <3>2
      <4>2. e..d \subseteq set \cup {d} <=> e..(d - 1) \subseteq set
        BY <4>1
      <4>3. QED
        BY <1>1, <3>2, <4>2 DEF RunOf
    <3>3. CASE e > d
      BY <1>1, <3>3 DEF RunOf
    <3>4. QED
      BY <1>1, <3>1, <3>2, <3>3
  <2>2. RunOf(set \cup {d}, d) = RunOf(set, d - 1) \cup {d}
    BY <2>1 DEF RunOf
  <2>3. d \notin RunOf(set, d - 1)
    BY <1>1 DEF RunOf
  <2>4. IsFiniteSet(RunOf(set, d - 1))
    BY <1>1, <1>2, DaySets
  <2>5. QED
    BY <1>2, <2>2, <2>3, <2>4, FS_AddElement
<1>3. CASE d - 1 \notin set
  <2>1. ASSUME NEW e \in Days PROVE e \in RunOf(set \cup {d}, d) <=> e = d
    <3>1. CASE e = d
      <4>1. e..d = {d}
        BY <1>1, <3>1
      <4>2. QED
        BY <1>1, <3>1, <4>1 DEF RunOf
    <3>2. CASE e < d
      <4>1. d - 1 \in e..d /\ d - 1 # d
        BY <1>1, <3>2
      <4>2. QED
        BY <1>1, <1>3, <3>2, <4>1 DEF RunOf
    <3>3. CASE e > d
      BY <1>1, <3>3 DEF RunOf
    <3>4. QED
      BY <1>1, <3>1, <3>2, <3>3
  <2>2. RunOf(set \cup {d}, d) = {d}
    BY <2>1 DEF RunOf
  <2>3. Cardinality({d}) = 1
    BY FS_Singleton
  <2>4. QED
    BY <1>3, <2>2, <2>3
<1>4. QED
  BY <1>2, <1>3

\* A run of n days ends with n days of the set.
LEMMA RunFills ==
  ASSUME NEW set \in SUBSET Days, NEW d \in Days, NEW n \in Nat,
         n < Cardinality(RunOf(set, d))
  PROVE  d - n \in set
<1> SUFFICES ASSUME d - n \notin set PROVE FALSE
  OBVIOUS
<1>1. d \in Nat /\ \A e \in Days : e \in Nat /\ e >= 1
  BY DEF Days
<1>2. RunOf(set, d) \in SUBSET ((d - n + 1)..d)
  <2>1. ASSUME NEW e \in RunOf(set, d) PROVE e \in (d - n + 1)..d
    <3>1. e \in Nat /\ e <= d /\ e..d \subseteq set
      BY <1>1, <2>1 DEF RunOf
    <3>2. d - n \notin e..d
      BY <3>1
    <3>3. QED
      BY <1>1, <3>1, <3>2
  <2>2. QED
    BY <2>1
<1>3. d - n + 1 \in Int /\ d \in Int
  BY <1>1
<1>4. /\ IsFiniteSet((d - n + 1)..d)
      /\ Cardinality((d - n + 1)..d) = IF d - n + 1 > d THEN 0 ELSE d - (d - n + 1) + 1
  BY <1>3, FS_Interval
<1>5. Cardinality((d - n + 1)..d) <= n
  BY <1>1, <1>4
<1>6. Cardinality(RunOf(set, d)) <= Cardinality((d - n + 1)..d)
  BY <1>2, <1>4, FS_Subset
<1>7. Cardinality(RunOf(set, d)) \in Nat /\ Cardinality((d - n + 1)..d) \in Nat
  BY <1>1, <1>4, DaySets, FS_CardinalityType
<1>8. QED
  BY <1>5, <1>6, <1>7

-----------------------------------------------------------------------------
(* Steps and the streak                                                      *)

\* What was earned is a matter of the fields a check-in writes.
LEMMA EarnedSame ==
  ASSUME NEW a, NEW b, NEW set, SameProgress(a, b), Earned(b, set)
  PROVE  Earned(a, set)
BY DEF SameProgress, Earned

\* What a commit writes: fields that differ from what was read.
LEMMA Committed ==
  ASSUME TypeInv, NEW h \in Handlers, NEW state \in State, Commit(h, state)
  PROVE  /\ gami'.streak = (IF state.streak = mem[h].streak THEN gami.streak ELSE state.streak)
         /\ gami'.last = (IF state.last = mem[h].last THEN gami.last ELSE state.last)
         /\ gami'.checkins =
               (IF state.checkins = mem[h].checkins THEN gami.checkins ELSE state.checkins)
         /\ gami'.spins = (IF state.spins = mem[h].spins THEN gami.spins ELSE state.spins)
<1>1. DOMAIN gami = {"streak", "last", "checkins", "spins"}
  BY DEF TypeInv, TypeOK, State
<1>2. QED
  BY <1>1 DEF Commit, Written

\* A step that writes no check-in and gives none.
LEMMA StreakKept ==
  ASSUME TypeInv, StreakInv, NEW h \in Handlers, Others(h), today' = today,
         CheckedIn' = CheckedIn, SameProgress(gami', gami),
         gami' = gami \/ made, made => made',
         Ahead(h)' <=> Ahead(h), Ahead(h) => prev'[h] = prev[h],
         Ahead(h)' /\ pc'[h] = "grant" => pc[h] = "grant",
         kind'[h] = "checkin" /\ pc'[h] \in {"write", "undo_write"} =>
            SameProgress(mem'[h], gami),
         pc'[h] = "write" => made'
  PROVE  StreakInv'
<1>1. \A g \in Handlers : Ahead(g)' <=> Ahead(g)
  BY DEF Others, Ahead
<1>2. Earned(gami, CheckedIn) => Earned(gami', CheckedIn')
  BY EarnedSame
<1>3. (\A g \in Handlers : ~Ahead(g)') => Earned(gami', CheckedIn')
  BY <1>1, <1>2 DEF StreakInv
<1>4. ASSUME NEW g \in Handlers, Ahead(g)'
      PROVE  /\ Earned(prev'[g], CheckedIn')
             /\ gami'.streak = NextStreak(prev[g])' /\ gami'.last = today'
             /\ gami'.checkins = prev'[g].checkins + 1
             /\ pc'[g] = "grant" => Reached(gami'.streak)
             /\ made'
  <2>1. Ahead(g) /\ prev'[g] = prev[g] /\ (pc'[g] = "grant" => pc[g] = "grant")
    BY <1>1, <1>4 DEF Others
  <2>2. NextStreak(prev[g])' = NextStreak(prev[g])
    BY <2>1 DEF NextStreak
  <2>3. QED
    BY <2>1, <2>2 DEF StreakInv, SameProgress
<1>5. ASSUME NEW g \in Handlers, kind'[g] = "checkin", pc'[g] \in {"write", "undo_write"}
      PROVE  SameProgress(mem'[g], gami')
  <2>1. SameProgress(mem'[g], gami)
    BY <1>5 DEF Others, StreakInv
  <2>2. QED
    BY <2>1 DEF SameProgress
<1>6. ASSUME NEW g \in Handlers, pc'[g] = "write" PROVE made'
  BY <1>6 DEF Others, StreakInv
<1>7. ~made' => gami' = NewState
  BY DEF StreakInv
<1>8. QED
  BY <1>3, <1>4, <1>5, <1>6, <1>7 DEF StreakInv

\* The steps that leave the state row as it is.
LEMMA StreakUnwritten ==
  ASSUME TypeInv, RewardInv, OfToday, StreakInv, NEW h \in Handlers, Step(h),
         ~WriteState(h), ~UndoState(h), ~(RecordReward(h) /\ kind[h] = "checkin")
  PROVE  StreakInv'
<1>1. Others(h) /\ today' = today
  BY StepIsOwn
<1>2. CheckedIn' = CheckedIn
  BY GivenChange DEF CheckedIn, Kinds
<1>3. gami' = gami /\ (made => made')
  BY DEF Step, Handle, Begin, OpenPage, Reserve, ReadState, CreateState, PickSegment,
     GrantReward, RewardRefused, RewardHidden, ReadForUndo, DeleteClaim, RecordReward, svars
<1>4. /\ Ahead(h)' <=> Ahead(h)
      /\ Ahead(h) => prev'[h] = prev[h]
      /\ Ahead(h)' /\ pc'[h] = "grant" => pc[h] = "grant"
      /\ kind'[h] = "checkin" /\ pc'[h] \in {"write", "undo_write"} =>
            SameProgress(mem'[h], gami)
      /\ pc'[h] = "write" => made'
  <2> USE DEF TypeInv, TypeOK, Shape, Ahead, Kinds, GoTo, SameProgress
  <2>1. CASE Clear({h}) /\ ~Ahead(h)
    BY <2>1, ClearOne
  <2>2. CASE (\E k \in Kinds : Begin(h, k)) \/ OpenPage(h)
    BY <2>2 DEF Begin, OpenPage
  <2>3. CASE Reserve(h)
    <3>1. CASE Free(ClaimOf(h))
      BY <2>3, <3>1 DEF Reserve
    <3>2. CASE ~Free(ClaimOf(h))
      BY <2>1, <2>3, <3>2 DEF Reserve
    <3>3. QED
      BY <3>1, <3>2
  <2>4. CASE ReadState(h)
    BY <2>4 DEF ReadState, svars
  <2>5. CASE CreateState(h)
    <3>1. CASE made \/ kind[h] = "page"
      BY <2>1, <2>5, <3>1 DEF CreateState
    <3>2. CASE ~(made \/ kind[h] = "page")
      <4>1. mem'[h] = gami /\ made' /\ pc'[h] = "write" /\ pc[h] = "create"
            /\ kind' = kind
        BY <2>5, <3>2 DEF CreateState, StreakInv
      <4>2. QED
        BY <4>1
    <3>3. QED
      BY <3>1, <3>2
  <2>6. CASE \E segment \in Segments : PickSegment(h, segment)
    BY <2>6 DEF PickSegment, Segments
  <2>7. CASE GrantReward(h) \/ RewardRefused(h) \/ RewardHidden(h)
    BY <2>7 DEF GrantReward, RewardRefused, RewardHidden, Undo
  <2>8. CASE ReadForUndo(h)
    BY <2>8 DEF ReadForUndo
  <2>9. CASE DeleteClaim(h) \/ (RecordReward(h) /\ kind[h] # "checkin")
    BY <2>1, <2>9 DEF DeleteClaim, RecordReward
  <2>10. QED
    BY <2>2, <2>3, <2>4, <2>5, <2>6, <2>7, <2>8, <2>9 DEF Step, Handle
<1>5. SameProgress(gami', gami)
  BY <1>3 DEF SameProgress
<1>6. QED
  BY <1>1, <1>2, <1>3, <1>4, <1>5, StreakKept

\* A spin is counted: the check-in's fields are those it read, or newer ones.
LEMMA StreakSpin ==
  ASSUME TypeInv, RewardInv, OfToday, StreakInv, NEW h \in Handlers, WriteState(h),
         kind[h] # "checkin"
  PROVE  StreakInv'
<1>1. Step(h)
  BY DEF Step, Handle
<1>2. Others(h) /\ today' = today /\ CheckedIn' = CheckedIn /\ made' = made
  BY <1>1, StepIsOwn, GivenChange DEF CheckedIn, Kinds, WriteState, RecordReward
<1>3. made
  BY DEF WriteState, StreakInv
<1>4. /\ Changed(h).streak = mem[h].streak /\ Changed(h).last = mem[h].last
      /\ Changed(h).checkins = mem[h].checkins
  BY DEF Changed
<1>5. Changed(h) \in State
  BY ChangedType DEF TypeInv
<1>6. SameProgress(gami', gami)
  BY <1>4, <1>5, Committed DEF WriteState, SameProgress
<1>7. ~Ahead(h) /\ ~Ahead(h)' /\ kind'[h] # "checkin" /\ pc'[h] = "record"
  BY DEF Ahead, WriteState, GoTo, TypeInv, TypeOK
<1>8. QED
  BY <1>2, <1>3, <1>6, <1>7, StreakKept

\* No other request reads or writes the check-in's fields while one does.
LEMMA AloneAhead ==
  ASSUME TypeInv, RewardInv, OfToday, NEW h \in Handlers, kind[h] = "checkin",
         pc[h] \notin {"idle", "reserve"}, Others(h), NEW g \in Handlers, g # h
  PROVE  /\ ~Ahead(g) /\ ~Ahead(g)'
         /\ ~(kind'[g] = "checkin" /\ pc'[g] \in {"write", "undo_write"})
BY OneAtWork DEF Others, Ahead, Kinds

\* A check-in is counted before it is granted.
LEMMA StreakCheckin ==
  ASSUME TypeInv, RewardInv, OfToday, StreakInv, NEW h \in Handlers, WriteState(h),
         kind[h] = "checkin"
  PROVE  StreakInv'
<1>1. Step(h) /\ pc[h] = "write"
  BY DEF Step, Handle, WriteState
<1>2. Others(h) /\ today' = today /\ CheckedIn' = CheckedIn /\ made' = made
  BY <1>1, StepIsOwn, GivenChange DEF CheckedIn, Kinds, WriteState, RecordReward
<1>3. made /\ SameProgress(mem[h], gami) /\ day[h] = today
  BY <1>1 DEF StreakInv, OfToday, Kinds
<1>4. Earned(gami, CheckedIn)
  <2>1. \A g \in Handlers : ~Ahead(g)
    BY <1>1, <1>2, AloneAhead DEF Ahead
  <2>2. QED
    BY <2>1 DEF StreakInv
<1>5. Changed(h) \in State /\ gami \in State /\ mem[h] \in State
  BY ChangedType DEF TypeInv, TypeOK
<1>6. /\ gami'.streak = NextStreak(mem[h]) /\ gami'.last = today
      /\ gami'.checkins = mem[h].checkins + 1
  BY <1>3, <1>5, Committed DEF WriteState, SameProgress, Changed
<1>7. /\ prev'[h] = mem[h] /\ kind'[h] = "checkin" /\ pc'[h] \in {"grant", "record"}
      /\ pc'[h] = "grant" => Reached(NextStreak(mem[h]))
  BY DEF WriteState, GoTo, TypeInv, TypeOK
<1>8. Earned(mem[h], CheckedIn)
  BY <1>3, <1>4, EarnedSame
<1>9. NextStreak(mem[h]) = NextStreak(prev[h])'
  BY <1>2, <1>7 DEF NextStreak
<1>10. \A g \in Handlers : g # h => ~Ahead(g)' /\ (pc'[g] = "write" => made')
                                    /\ ~(kind'[g] = "checkin" /\ pc'[g] \in {"write", "undo_write"})
  BY <1>1, <1>2, <1>3, AloneAhead
<1>11. Ahead(h)'
  BY <1>7 DEF Ahead
<1>12. /\ Earned(prev'[h], CheckedIn')
       /\ gami'.streak = NextStreak(prev[h])' /\ gami'.last = today'
       /\ gami'.checkins = prev'[h].checkins + 1
       /\ pc'[h] = "grant" => Reached(gami'.streak)
       /\ made'
  BY <1>2, <1>3, <1>6, <1>7, <1>8, <1>9
<1>13. QED
  BY <1>7, <1>10, <1>11, <1>12 DEF StreakInv

\* The rollback puts back what the check-in found.
LEMMA StreakUndone ==
  ASSUME TypeInv, RewardInv, OfToday, StreakInv, NEW h \in Handlers, UndoState(h)
  PROVE  StreakInv'
<1>1. Step(h) /\ pc[h] = "undo_write"
  BY DEF Step, Handle, UndoState
<1>2. kind[h] = "checkin" /\ Ahead(h)
  BY <1>1 DEF TypeInv, TypeOK, Shape, Kinds, Ahead
<1>3. Others(h) /\ today' = today /\ CheckedIn' = CheckedIn /\ made' = made
  BY <1>1, StepIsOwn, GivenChange DEF CheckedIn, Kinds, UndoState, RecordReward
<1>4. made /\ SameProgress(mem[h], gami) /\ Earned(prev[h], CheckedIn)
      /\ gami.checkins = prev[h].checkins + 1
  BY <1>1, <1>2 DEF StreakInv
<1>5. mem[h] \in State /\ prev[h] \in State /\ Restored(mem[h], prev[h]) \in State
  BY RestoredType DEF TypeInv, TypeOK
<1>6. /\ Restored(mem[h], prev[h]).streak = prev[h].streak
      /\ Restored(mem[h], prev[h]).last = prev[h].last
      /\ Restored(mem[h], prev[h]).checkins = prev[h].checkins
  BY <1>4, <1>5 DEF Restored, SameProgress, State
<1>7. SameProgress(gami', prev[h])
  BY <1>4, <1>5, <1>6, Committed DEF UndoState, SameProgress
<1>8. Earned(gami', CheckedIn')
  BY <1>3, <1>4, <1>7, EarnedSame
<1>9. kind'[h] = "checkin" /\ pc'[h] = "delete"
  BY <1>2 DEF UndoState, GoTo, TypeInv, TypeOK
<1>10. \A g \in Handlers : g # h => ~Ahead(g)' /\ (pc'[g] = "write" => made')
                                    /\ ~(kind'[g] = "checkin" /\ pc'[g] \in {"write", "undo_write"})
  BY <1>1, <1>2, <1>3, <1>4, AloneAhead
<1>11. \A g \in Handlers : ~Ahead(g)' /\ (pc'[g] = "write" => made')
                           /\ ~(kind'[g] = "checkin" /\ pc'[g] \in {"write", "undo_write"})
  BY <1>9, <1>10 DEF Ahead
<1>12. made'
  BY <1>3, <1>4
<1>13. QED
  BY <1>8, <1>11, <1>12 DEF StreakInv

\* The claim catches up with the state row.
LEMMA StreakRecorded ==
  ASSUME TypeInv, RewardInv, Orderly, StreakInv, NEW h \in Handlers, RecordReward(h),
         kind[h] = "checkin"
  PROVE  StreakInv'
<1>1. Step(h) /\ pc[h] = "record" /\ Ahead(h) /\ OfToday /\ Past
  BY DEF Step, Handle, RecordReward, Ahead, Orderly
<1>2. Others(h) /\ today' = today /\ gami' = gami /\ made' = made /\ day[h] = today
  BY <1>1, StepIsOwn DEF RecordReward, OfToday, Kinds
<1>3. CheckedIn' = CheckedIn \cup {today} /\ today \notin CheckedIn
  BY <1>1, <1>2, GivenChange DEF CheckedIn, Kinds
<1>4. /\ Earned(prev[h], CheckedIn) /\ made
      /\ gami.streak = NextStreak(prev[h]) /\ gami.last = today
      /\ gami.checkins = prev[h].checkins + 1
  BY <1>1 DEF StreakInv
<1>5. CheckedIn \in SUBSET Days /\ today \in Days /\ \A e \in CheckedIn : e < today
  BY <1>1, <1>3 DEF CheckedIn, Given, TypeInv, TypeOK, Past, Days
<1>6. Cardinality(CheckedIn') = Cardinality(CheckedIn) + 1
  <2>1. IsFiniteSet(CheckedIn)
    BY <1>5, DaySets
  <2>2. QED
    BY <1>3, <2>1, FS_AddElement
<1>7. Cardinality(RunOf(CheckedIn', today)) =
        IF today - 1 \in CheckedIn THEN Cardinality(RunOf(CheckedIn, today - 1)) + 1 ELSE 1
  BY <1>3, <1>5, RunGrows
<1>8. today - 1 \in CheckedIn <=> prev[h].last = today - 1
  <2>1. prev[h].last \in Days \cup {NoDay} /\ today - 1 # NoDay
    <3>1. prev[h] \in State
      BY DEF TypeInv, TypeOK
    <3>2. prev[h].last \in Days \cup {NoDay}
      BY <3>1 DEF State
    <3>3. today - 1 # NoDay
      BY <1>5 DEF NoDay, Days
    <3>4. QED
      BY <3>2, <3>3
  <2>2. CheckedIn # {} => prev[h].last \in CheckedIn /\ \A d \in CheckedIn : d <= prev[h].last
    BY <1>4 DEF Earned
  <2>3. ASSUME today - 1 \in CheckedIn PROVE prev[h].last = today - 1
    <3>1. prev[h].last \in Days /\ prev[h].last < today /\ today - 1 <= prev[h].last
      BY <1>5, <2>2, <2>3
    <3>2. QED
      BY <1>5, <3>1 DEF Days
  <2>4. ASSUME prev[h].last = today - 1 PROVE today - 1 \in CheckedIn
    BY <1>4, <2>1, <2>2, <2>4 DEF Earned
  <2>5. QED
    BY <2>3, <2>4
<1>9. gami.streak = Cardinality(RunOf(CheckedIn', today)) /\ today # NoDay
  <2>1. today # NoDay /\ today - 1 # NoDay
    BY <1>5 DEF NoDay, Days
  <2>2. QED
    BY <1>4, <1>7, <1>8, <2>1 DEF NextStreak, Earned
<1>10. Earned(gami', CheckedIn')
  <2>1. today \in CheckedIn' /\ \A d \in CheckedIn' : d <= today
    BY <1>3, <1>5 DEF Days
  <2>2. gami.checkins = Cardinality(CheckedIn')
    BY <1>4, <1>6 DEF Earned
  <2>3. QED
    BY <1>2, <1>4, <1>9, <2>1, <2>2 DEF Earned
<1>11. pc'[h] = "idle"
  BY ClearOne DEF RecordReward
<1>12. \A g \in Handlers : g # h => ~Ahead(g)' /\ (pc'[g] = "write" => made')
                                    /\ ~(kind'[g] = "checkin" /\ pc'[g] \in {"write", "undo_write"})
  BY <1>1, <1>2, <1>4, AloneAhead
<1>13. \A g \in Handlers : ~Ahead(g)' /\ (pc'[g] = "write" => made')
                           /\ ~(kind'[g] = "checkin" /\ pc'[g] \in {"write", "undo_write"})
  BY <1>11, <1>12 DEF Ahead
<1>14. made'
  BY <1>2, <1>4
<1>15. QED
  BY <1>10, <1>13, <1>14 DEF StreakInv

LEMMA StreakStep ==
  ASSUME TypeInv, RewardInv, Orderly, StreakInv, NEW h \in Handlers, Step(h)
  PROVE  StreakInv'
BY StreakUnwritten, StreakSpin, StreakCheckin, StreakUndone, StreakRecorded DEF Orderly

-----------------------------------------------------------------------------
(* Spins and prizes                                                          *)

LEMMA SpinStep ==
  ASSUME TypeInv, RewardInv, Orderly, StreakInv, SpinInv, NEW h \in Handlers, Step(h)
  PROVE  SpinInv'
<1>0. Others(h) /\ OfToday
  BY StepIsOwn DEF Orderly
<1>1. ASSUME NEW g \in Handlers, g # h
      PROVE  /\ Spun(g)' <=> Spun(g)
             /\ kind'[g] = "wheel" /\ pc'[g] = "write" => mem'[g].spins = gami.spins
  BY <1>0, <1>1 DEF Others, Spun, SpinInv
<1>2. gami.spins \in Nat /\ Cardinality(Given("wheel")) \in Nat /\ IsFiniteSet(Given("wheel"))
  <2>1. Given("wheel") \in SUBSET Days /\ today \in Nat
    BY DEF Given, TypeInv, TypeOK, Days
  <2>2. QED
    BY <2>1, DaySets DEF TypeInv, TypeOK, State
<1>3. ASSUME kind[h] = "wheel", pc[h] \notin {"idle", "reserve"}, NEW g \in Handlers, g # h
      PROVE  ~Spun(g) /\ ~Spun(g)' /\ ~(kind'[g] = "wheel" /\ pc'[g] = "write")
  <2>1. ~(kind[g] = "wheel" /\ pc[g] \notin {"idle", "reserve"})
    BY <1>0, <1>3, OneAtWork DEF Kinds
  <2>2. QED
    BY <1>0, <1>3, <2>1 DEF Others, Spun
<1>4. CASE WriteState(h) /\ kind[h] = "wheel"
  <2>1. gami'.spins = gami.spins + 1
    <3>1. mem[h].spins = gami.spins /\ Changed(h).spins = mem[h].spins + 1
      BY <1>4 DEF SpinInv, WriteState, Changed
    <3>2. Changed(h) \in State
      BY ChangedType DEF TypeInv
    <3>3. Commit(h, Changed(h))
      BY <1>4 DEF WriteState
    <3>4. QED
      BY <1>2, <3>1, <3>2, <3>3, Committed
  <2>2. pc[h] = "write" /\ kind'[h] = "wheel" /\ pc'[h] = "record"
    BY <1>4 DEF WriteState, GoTo, TypeInv, TypeOK
  <2>3. Spun(h)' /\ \A g \in Handlers : ~Spun(g)
    BY <1>3, <1>4, <2>2 DEF Spun
  <2>4. Given("wheel")' = Given("wheel")
    BY <1>4, GivenChange DEF Kinds, Step, Handle, WriteState, RecordReward
  <2>5. \A g \in Handlers : ~(kind'[g] = "wheel" /\ pc'[g] = "write")
    BY <1>3, <1>4, <2>2
  <2>6. QED
    BY <1>2, <2>1, <2>3, <2>4, <2>5 DEF SpinInv
<1>5. CASE RecordReward(h) /\ kind[h] = "wheel"
  <2>1. Spun(h) /\ pc[h] = "record" /\ gami' = gami /\ pc'[h] = "idle"
    BY <1>5, ClearOne DEF RecordReward, Spun
  <2>2. \A g \in Handlers : ~Spun(g)' /\ ~(kind'[g] = "wheel" /\ pc'[g] = "write")
    BY <1>3, <1>5, <2>1 DEF Spun
  <2>3. Given("wheel")' = Given("wheel") \cup {day[h]} /\ day[h] \notin Given("wheel")
    BY <1>5, GivenChange DEF Kinds
  <2>4. Cardinality(Given("wheel")') = Cardinality(Given("wheel")) + 1
    BY <1>2, <2>3, FS_AddElement
  <2>5. gami.spins = Cardinality(Given("wheel")) + 1
    BY <2>1 DEF SpinInv
  <2>6. QED
    BY <1>2, <2>1, <2>2, <2>4, <2>5 DEF SpinInv
<1>6. CASE ~(WriteState(h) /\ kind[h] = "wheel") /\ ~(RecordReward(h) /\ kind[h] = "wheel")
  <2>1. Given("wheel")' = Given("wheel")
    BY <1>6, GivenChange DEF Kinds
  <2>2. gami'.spins = gami.spins
    <3>1. CASE WriteState(h)
      <4>1. Changed(h).spins = mem[h].spins /\ Changed(h) \in State
        BY <1>6, <3>1, ChangedType DEF Changed, WriteState, TypeInv, TypeOK, Shape, Kinds
      <4>2. QED
        BY <3>1, <4>1, Committed DEF WriteState
    <3>2. CASE UndoState(h)
      <4>1. /\ Restored(mem[h], prev[h]).spins = mem[h].spins
            /\ Restored(mem[h], prev[h]) \in State
        BY RestoredType DEF Restored, TypeInv, TypeOK
      <4>2. QED
        BY <3>2, <4>1, Committed DEF UndoState
    <3>3. CASE ~WriteState(h) /\ ~UndoState(h)
      BY <3>3 DEF Step, Handle, Begin, OpenPage, Reserve, ReadState, CreateState, PickSegment,
         GrantReward, RewardRefused, RewardHidden, ReadForUndo, DeleteClaim, RecordReward, svars
    <3>4. QED
      BY <3>1, <3>2, <3>3
  <2>3. /\ Spun(h)' <=> Spun(h)
        /\ kind'[h] = "wheel" /\ pc'[h] = "write" => mem'[h].spins = gami.spins
    <3> USE DEF TypeInv, TypeOK, Shape, Spun, Kinds, GoTo
    <3>1. CASE Clear({h}) /\ ~Spun(h)
      BY <3>1, ClearOne
    <3>2. CASE (\E k \in Kinds : Begin(h, k)) \/ OpenPage(h)
      BY <3>2 DEF Begin, OpenPage
    <3>3. CASE Reserve(h)
      <4>1. CASE Free(ClaimOf(h))
        BY <3>3, <4>1 DEF Reserve
      <4>2. CASE ~Free(ClaimOf(h))
        BY <3>1, <3>3, <4>2 DEF Reserve
      <4>3. QED
        BY <4>1, <4>2
    <3>4. CASE ReadState(h)
      BY <3>4 DEF ReadState
    <3>5. CASE CreateState(h)
      BY <3>1, <3>5 DEF CreateState, StreakInv
    <3>6. CASE \E segment \in Segments : PickSegment(h, segment)
      BY <3>6 DEF PickSegment, Segments
    <3>7. CASE GrantReward(h) \/ RewardRefused(h) \/ RewardHidden(h)
      BY <3>7 DEF GrantReward, RewardRefused, RewardHidden, Undo
    <3>8. CASE ReadForUndo(h) \/ UndoState(h) \/ WriteState(h)
      BY <1>6, <3>8 DEF ReadForUndo, UndoState, WriteState
    <3>9. CASE DeleteClaim(h) \/ RecordReward(h)
      BY <1>6, <3>1, <3>9 DEF DeleteClaim, RecordReward
    <3>10. QED
      BY <3>2, <3>3, <3>4, <3>5, <3>6, <3>7, <3>8, <3>9 DEF Step, Handle
  <2>4. /\ \A g \in Handlers : Spun(g)' <=> Spun(g)
        /\ \A g \in Handlers : kind'[g] = "wheel" /\ pc'[g] = "write" => mem'[g].spins = gami.spins
    BY <1>1, <2>3
  <2>5. QED
    BY <2>1, <2>2, <2>4 DEF SpinInv
<1>7. QED
  BY <1>4, <1>5, <1>6

LEMMA BelowGoal ==
  ASSUME NEW s \in Nat, NEW g \in Nat, 0 < s, s < g
  PROVE  s % g = s
OBVIOUS

\* A check-in that reaches the goal has Goal - 1 days in a row behind it.
LEMMA GoalReached ==
  ASSUME TypeInv, RewardInv, Orderly, StreakInv, NEW h \in Handlers, kind[h] = "checkin",
         pc[h] = "grant", NEW n \in 1..(Goal - 1)
  PROVE  day[h] = today /\ today - n \in CheckedIn
<1>1. day[h] = today /\ today \in Nat /\ today >= 1 /\ Goal \in Nat /\ n \in Nat /\ n >= 1
  BY ConstantsAssumption DEF Orderly, OfToday, Kinds, TypeInv, TypeOK, Days
<1>2. /\ Earned(prev[h], CheckedIn) /\ gami.streak = NextStreak(prev[h])
      /\ Reached(gami.streak)
  BY DEF StreakInv, Ahead
<1>3. prev[h].streak \in Nat /\ gami.streak \in Nat
  <2>1. prev[h] \in State /\ gami \in State
    BY DEF TypeInv, TypeOK
  <2>2. QED
    BY <2>1 DEF State
<1>4. gami.streak > 0
  BY <1>2, <1>3 DEF NextStreak
<1>5. gami.streak >= Goal
  <2>1. SUFFICES ASSUME gami.streak < Goal PROVE FALSE
    BY <1>1, <1>3
  <2>2. gami.streak % Goal = gami.streak
    BY <1>1, <1>3, <1>4, <2>1, BelowGoal
  <2>3. QED
    BY <1>2, <1>4, <2>2 DEF Reached
<1>6. prev[h].last = today - 1 /\ prev[h].streak + 1 >= Goal
  BY <1>1, <1>2, <1>3, <1>5 DEF NextStreak
<1>7. prev[h].last # NoDay
  BY <1>1, <1>6 DEF NoDay
<1>8. today - 1 \in CheckedIn /\ prev[h].streak = Cardinality(RunOf(CheckedIn, today - 1))
  BY <1>2, <1>6, <1>7 DEF Earned
<1>9. CheckedIn \in SUBSET Days /\ today - 1 \in Days
  BY <1>8 DEF CheckedIn, Given
<1>10. n - 1 \in Nat /\ n - 1 < Cardinality(RunOf(CheckedIn, today - 1))
  BY <1>1, <1>3, <1>6, <1>8
<1>11. (today - 1) - (n - 1) \in CheckedIn
  BY <1>9, <1>10, RunFills
<1>12. (today - 1) - (n - 1) = today - n
  BY <1>1
<1>13. QED
  BY <1>1, <1>11, <1>12

LEMMA PrizeStep ==
  ASSUME TypeInv, RewardInv, Orderly, StreakInv, PrizeInv, NEW h \in Handlers, Step(h)
  PROVE  PrizeInv'
<1> SUFFICES ASSUME NEW d \in Days, NEW n \in 1..(Goal - 1), prizes'[<<"checkin", d>>] > 0
             PROVE  d - n \in CheckedIn'
  BY DEF PrizeInv
<1>1. CheckedIn \subseteq CheckedIn'
  BY GivenChange DEF CheckedIn, Kinds
<1>2. <<"checkin", d>> \in Claims
  BY DEF Claims, Kinds
<1>3. CASE prizes'[<<"checkin", d>>] = prizes[<<"checkin", d>>]
  BY <1>1, <1>3 DEF PrizeInv
<1>4. CASE prizes'[<<"checkin", d>>] # prizes[<<"checkin", d>>]
  <2>1. <<"checkin", d>> = ClaimOf(h)
    BY <1>2, <1>4, StepIsOwn
  <2>2. kind[h] = "checkin" /\ day[h] = d
    BY <2>1 DEF ClaimOf
  <2>3. pc[h] = "grant"
    BY <1>4, <2>2 DEF Step, Handle, Begin, OpenPage, Reserve, ReadState, CreateState, WriteState,
       PickSegment, GrantReward, RewardRefused, RewardHidden, ReadForUndo, UndoState,
       DeleteClaim, RecordReward, ghost, TypeInv, Shape
  <2>4. QED
    BY <1>1, <2>2, <2>3, GoalReached
<1>5. QED
  BY <1>3, <1>4

-----------------------------------------------------------------------------

LEMMA ProgressInit == Init => ProgressInv
<1> SUFFICES ASSUME Init PROVE ProgressInv
  OBVIOUS
<1>1. Given("checkin") = {} /\ Given("wheel") = {}
  BY DEF Init, Given, Claims, Kinds
<1>2. Orderly
  BY <1>1 DEF Init, Orderly, OfToday, Held, Past, CheckedIn
<1>3. Earned(NewState, CheckedIn) /\ Cardinality({}) = 0
  BY <1>1, FS_EmptySet DEF Earned, CheckedIn, NewState
<1>4. StreakInv
  BY <1>3 DEF Init, StreakInv, Ahead
<1>5. SpinInv
  BY <1>1, <1>3 DEF Init, SpinInv, Spun, NewState
<1>6. PrizeInv
  BY DEF Init, PrizeInv, Claims, Kinds
<1>7. QED
  BY <1>2, <1>4, <1>5, <1>6 DEF ProgressInv

LEMMA ProgressNext == TypeInv /\ RewardInv /\ ProgressInv /\ [Next]_vars => ProgressInv'
<1> SUFFICES ASSUME TypeInv, RewardInv, ProgressInv, [Next]_vars, calm'
             PROVE  (Orderly /\ StreakInv /\ SpinInv /\ PrizeInv)'
  BY DEF ProgressInv
<1>1. ASSUME NEW h \in Handlers, Step(h) PROVE (Orderly /\ StreakInv /\ SpinInv /\ PrizeInv)'
  <2>1. Orderly /\ StreakInv /\ SpinInv /\ PrizeInv
    BY <1>1, StepIsOwn DEF ProgressInv
  <2>2. QED
    BY <1>1, <2>1, OrderlyStep, StreakStep, SpinStep, PrizeStep
<1>2. CASE Midnight
  <2>1. /\ Orderly /\ StreakInv /\ SpinInv /\ PrizeInv
        /\ \A h \in Handlers : pc[h] = "idle"
        /\ today' = today + 1 /\ UNCHANGED <<rows, gami, made, prizes, pc, kind, day, mem, prev>>
    BY <1>2 DEF Midnight, ProgressInv, Busy, svars, hvars, ghost
  <2>2. today \in Nat /\ \A d \in CheckedIn : d \in Nat
    BY DEF TypeInv, TypeOK, Days, CheckedIn, Given
  <2>3. Given("checkin")' = Given("checkin") /\ Given("wheel")' = Given("wheel")
    BY <2>1 DEF Given
  <2>4. Orderly'
    BY <2>1, <2>2, <2>3 DEF Orderly, OfToday, Held, Holds, ClaimOf, Past, CheckedIn
  <2>5. StreakInv'
    BY <2>1, <2>3 DEF StreakInv, Ahead, CheckedIn
  <2>6. SpinInv' /\ PrizeInv'
    BY <2>1, <2>3 DEF SpinInv, Spun, PrizeInv, CheckedIn
  <2>7. QED
    BY <2>4, <2>5, <2>6
<1>3. CASE Subscription \/ UNCHANGED vars
  <2>1. /\ Orderly /\ StreakInv /\ SpinInv /\ PrizeInv
        /\ UNCHANGED <<today, rows, gami, made, prizes, pc, kind, day, mem, prev>>
    BY <1>3 DEF Subscription, vars, ProgressInv, svars, hvars, ghost
  <2>2. Given("checkin")' = Given("checkin") /\ Given("wheel")' = Given("wheel")
    BY <2>1 DEF Given
  <2>3. Orderly'
    BY <2>1, <2>2 DEF Orderly, OfToday, Held, Holds, ClaimOf, Past, CheckedIn
  <2>4. StreakInv'
    BY <2>1, <2>2 DEF StreakInv, Ahead, CheckedIn, NextStreak
  <2>5. SpinInv' /\ PrizeInv'
    BY <2>1, <2>2 DEF SpinInv, Spun, PrizeInv, CheckedIn
  <2>6. QED
    BY <2>3, <2>4, <2>5
<1>4. CASE CrashWeb
  BY <1>4 DEF CrashWeb
<1>5. QED
  BY <1>1, <1>2, <1>3, <1>4 DEF Next, Step

\* While no crash, no race for the first state row and no midnight meets a
\* request: every reservation has a request at work, the streak and the counts
\* in the state row are what the given claims say, whatever check-ins and spins
\* of several requests, refusals and rollbacks go before, and a reward comes
\* only after Goal - 1 days in a row.
THEOREM ProgressCounts == Spec => []ProgressIsEarned
<1>1. TypeInv /\ RewardInv /\ ProgressInv => ProgressIsEarned
  <2> SUFFICES ASSUME TypeInv, RewardInv, ProgressInv, calm PROVE
        /\ \A c \in Claims :
              rows[c] = "reserved" => \E h \in Handlers : Holds(h, c)
        /\ Settled("checkin") =>
              /\ gami.streak = (IF gami.last = NoDay THEN 0 ELSE Run(gami.last))
              /\ gami.checkins = Cardinality(Given("checkin"))
        /\ Settled("wheel") => gami.spins = Cardinality(Given("wheel"))
        /\ \A d \in Days : \A n \in 1..(Goal - 1) :
              prizes[<<"checkin", d>>] > 0 => d - n \in Given("checkin")
    BY DEF ProgressIsEarned
  <2>1. Orderly /\ StreakInv /\ SpinInv /\ PrizeInv
    BY DEF ProgressInv
  <2>2. ASSUME Settled("checkin")
        PROVE  /\ gami.streak = (IF gami.last = NoDay THEN 0 ELSE Run(gami.last))
               /\ gami.checkins = Cardinality(Given("checkin"))
    <3>1. \A h \in Handlers : ~Ahead(h)
      BY <2>2 DEF Settled, Ahead
    <3>2. Earned(gami, CheckedIn)
      BY <2>1, <3>1 DEF StreakInv
    <3>3. QED
      BY <3>2 DEF Earned, CheckedIn, RunOf, Run
  <2>3. ASSUME Settled("wheel") PROVE gami.spins = Cardinality(Given("wheel"))
    <3>1. ~\E h \in Handlers : Spun(h)
      BY <2>3 DEF Settled, Spun
    <3>2. Given("wheel") \in SUBSET Days /\ today \in Nat
      BY DEF Given, TypeInv, TypeOK, Days
    <3>3. Cardinality(Given("wheel")) \in Nat
      BY <3>2, DaySets
    <3>4. QED
      BY <2>1, <3>1, <3>3 DEF SpinInv
  <2>4. QED
    BY <2>1, <2>2, <2>3 DEF Orderly, Held, PrizeInv, CheckedIn
<1>2. QED
  BY <1>1, TypeInvInit, TypeInvNext, RewardInvInit, RewardInvNext, ProgressInit, ProgressNext,
     PTL DEF Spec

=============================================================================
