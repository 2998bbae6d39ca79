---------------------------- MODULE Gamification ----------------------------
(***************************************************************************)
(* The daily check-in and the wheel of fortune of one user                 *)
(* (bot/services/gamification.py).  Several requests of the user may run   *)
(* at once; between two steps, each up to one commit or one panel call,    *)
(* any other may run, midnight may pass, or the process may die.           *)
(*                                                                         *)
(* A bonus_claims row, unique per kind and day, is the reservation: it is  *)
(* inserted first, removed when the reward could not be granted, and       *)
(* completed with the reward last.                                         *)
(***************************************************************************)
EXTENDS Integers, FiniteSets

CONSTANTS
    Handlers,   \* concurrent requests of the user
    Goal,       \* GAMI_DAILY_GOAL (3 in the code)
    LastDay,    \* bound: calendar days
    SpinDays,   \* bound: the days on which the user tries the wheel
    MaxFaults   \* bound: crashes and applied rewards reported as failures

ASSUME ConstantsAssumption ==
    /\ Goal \in Nat \ {0}
    /\ LastDay \in Nat \ {0}
    /\ SpinDays \subseteq 1..LastDay
    /\ MaxFaults \in Nat

Days     == 1..LastDay
NoDay    == -1
Kinds    == {"checkin", "wheel"}
Claims   == Kinds \X Days
Segments == {"none", "traffic", "days", "promo"}

VARIABLES
    today,    \* the UTC day
    active,   \* the local subscription row has not expired
    rows,     \* bonus_claims: none, reserved, or given (set_bonus_reward ran)
    made,     \* the gamification_state row exists
    gami,     \* the gamification_state row
    promo,    \* users.active_promo is the wheel's code
    pc, kind, day,  \* of each request: next step, what it is, _today() it took
    mem,      \* the gamification_state it read
    prev,     \* last_checkin_day and streak before its check-in
    faults,   \* what MaxFaults bounds
    prizes,   \* history: rewards given out for a kind and day
    hidden,   \* history: rewards given out and reported as a failure
    calm      \* history: no crash, create race or midnight met a request

svars == <<rows, made, gami, promo>>
hvars == <<pc, kind, day, mem, prev>>
ghost == <<prizes, hidden>>
vars  == <<today, active, svars, hvars, faults, ghost, calm>>

NewState == [streak |-> 0, last |-> NoDay, checkins |-> 0, spins |-> 0]

PC == {"idle", "reserve", "read", "create", "write", "prize", "grant", "undo",
       "undo_write", "delete", "record"}

Init ==
    /\ today = 1
    /\ active \in BOOLEAN
    /\ rows = [c \in Claims |-> "none"]
    /\ made = FALSE /\ gami = NewState
    /\ promo = FALSE
    /\ pc = [h \in Handlers |-> "idle"]
    /\ kind = [h \in Handlers |-> "checkin"]
    /\ day = [h \in Handlers |-> 1]
    /\ mem = [h \in Handlers |-> NewState]
    /\ prev = [h \in Handlers |-> NewState]
    /\ faults = 0
    /\ prizes = [c \in Claims |-> 0]
    /\ hidden = [c \in Claims |-> 0]
    /\ calm = TRUE

ClaimOf(h) == <<kind[h], day[h]>>

GoTo(h, next) == pc' = [pc EXCEPT ![h] = next] /\ UNCHANGED <<kind, day>>

\* A finished request leaves nothing behind in memory.
Clear(group) ==
    /\ pc' = [h \in Handlers |-> IF h \in group THEN "idle" ELSE pc[h]]
    /\ kind' = [h \in Handlers |-> IF h \in group THEN "checkin" ELSE kind[h]]
    /\ day' = [h \in Handlers |-> IF h \in group THEN 1 ELSE day[h]]
    /\ mem' = [h \in Handlers |-> IF h \in group THEN NewState ELSE mem[h]]
    /\ prev' = [h \in Handlers |-> IF h \in group THEN NewState ELSE prev[h]]

-----------------------------------------------------------------------------
(* claim_daily, spin_wheel and the page's get_status.                      *)

\* Only an active subscription may claim or spin; the day is taken here.
Begin(h, k) ==
    /\ pc[h] = "idle" /\ active
    /\ k = "wheel" => today \in SpinDays
    /\ pc' = [pc EXCEPT ![h] = "reserve"]
    /\ kind' = [kind EXCEPT ![h] = k]
    /\ day' = [day EXCEPT ![h] = today]
    /\ UNCHANGED <<today, active, svars, mem, prev, faults, ghost, calm>>

\* get_status creates the missing state row of whoever opens the page.
OpenPage(h) ==
    /\ pc[h] = "idle" /\ ~made
    /\ pc' = [pc EXCEPT ![h] = "create"]
    /\ kind' = [kind EXCEPT ![h] = "page"]
    /\ UNCHANGED <<today, active, svars, day, mem, prev, faults, ghost, calm>>

\* Mutant: the unique (user, kind, day) index is missing.
FreeWithoutIndex(c) == TRUE

Free(c) == rows[c] = "none"

\* reserve_bonus_claim: the unique index lets one request of a day through.
Reserve(h) ==
    /\ pc[h] = "reserve"
    /\ IF Free(ClaimOf(h))
       THEN /\ rows' = [rows EXCEPT ![ClaimOf(h)] = "reserved"]
            /\ GoTo(h, IF kind[h] = "checkin" THEN "read" ELSE "prize")
            /\ UNCHANGED <<mem, prev>>
       ELSE /\ Clear({h})
            /\ UNCHANGED rows
    /\ UNCHANGED <<today, active, made, gami, promo, faults, ghost, calm>>

\* The streak goes on if the last check-in was on the day before now.
NextStreak(state) ==
    IF state.last = today - 1 THEN state.streak + 1 ELSE 1

\* What the session writes of a read state: for a check-in the new streak
\* and day, for a spin its count.
Changed(h) ==
    IF kind[h] = "checkin"
    THEN [streak |-> NextStreak(mem[h]), last |-> day[h],
          checkins |-> mem[h].checkins + 1, spins |-> mem[h].spins]
    ELSE [streak |-> mem[h].streak, last |-> mem[h].last,
          checkins |-> mem[h].checkins, spins |-> mem[h].spins + 1]

\* get_or_create_gami_state.
ReadState(h) ==
    /\ pc[h] = "read"
    /\ IF made
       THEN /\ mem' = [mem EXCEPT ![h] = gami]
            /\ GoTo(h, "write")
       ELSE /\ GoTo(h, "create")
            /\ UNCHANGED mem
    /\ UNCHANGED <<today, active, svars, prev, faults, ghost, calm>>

\* The row's insert raises, and ends the request, if another came first.
CreateState(h) ==
    /\ pc[h] = "create"
    /\ made' = TRUE
    /\ IF made \/ kind[h] = "page"
       THEN /\ Clear({h})
            /\ calm' = (calm /\ (made => kind[h] = "page"))
       ELSE /\ mem' = [mem EXCEPT ![h] = NewState]
            /\ GoTo(h, "write")
            /\ UNCHANGED <<prev, calm>>
    /\ UNCHANGED <<today, active, rows, gami, promo, faults, ghost>>

\* A commit updates only the columns whose value differs from the read one.
Written(old, new, current) == IF new = old THEN current ELSE new

Commit(h, state) ==
    gami' = [f \in DOMAIN gami |-> Written(mem[h][f], state[f], gami[f])]

Reached(streak) == streak % Goal = 0

WriteState(h) ==
    /\ pc[h] = "write"
    /\ Commit(h, Changed(h))
    /\ prev' = [prev EXCEPT ![h] = mem[h]]
    /\ mem' = [mem EXCEPT ![h] = NewState]
    /\ GoTo(h, IF kind[h] = "checkin" /\ Reached(NextStreak(mem[h]))
               THEN "grant" ELSE "record")
    /\ UNCHANGED <<today, active, rows, made, promo, faults, ghost, calm>>

Prize(c) == prizes' = [prizes EXCEPT ![c] = @ + 1]

\* The wheel's segment: nothing, a discount code, or something to grant.
PickSegment(h, segment) ==
    /\ pc[h] = "prize"
    /\ CASE segment = "none" ->
              GoTo(h, "read") /\ UNCHANGED <<promo, prizes>>
         [] segment = "promo" ->
              /\ promo' = TRUE
              /\ Prize(ClaimOf(h))
              /\ GoTo(h, "read")
         [] OTHER ->
              GoTo(h, "grant") /\ UNCHANGED <<promo, prizes>>
    /\ UNCHANGED <<today, active, rows, made, gami, mem, prev, faults, hidden, calm>>

\* _apply_grant_reward: the panel call and the upsert of the subscription.
\* Any exception of either undoes the request, also one raised after the
\* panel applied the reward.
GrantReward(h) ==
    /\ pc[h] = "grant"
    /\ Prize(ClaimOf(h))
    /\ active' = TRUE
    /\ GoTo(h, IF kind[h] = "checkin" THEN "record" ELSE "read")
    /\ UNCHANGED <<today, svars, mem, prev, faults, hidden, calm>>

\* Mutant: the rollback of a spin goes through the streak's.
UndoSwapped == [k \in Kinds |-> IF k = "checkin" THEN "delete" ELSE "undo_read"]

Undo == [k \in Kinds |-> IF k = "checkin" THEN "undo" ELSE "delete"]

RewardRefused(h) ==
    /\ pc[h] = "grant"
    /\ GoTo(h, Undo[kind[h]])
    /\ UNCHANGED <<today, active, svars, mem, prev, faults, ghost, calm>>

RewardHidden(h) ==
    /\ pc[h] = "grant"
    /\ faults < MaxFaults /\ faults' = faults + 1
    /\ Prize(ClaimOf(h))
    /\ hidden' = [hidden EXCEPT ![ClaimOf(h)] = @ + 1]
    /\ GoTo(h, Undo[kind[h]])
    /\ UNCHANGED <<today, active, svars, mem, prev, calm>>

\* The rollback of a check-in: its own read and commit of the state row.
ReadForUndo(h) ==
    /\ pc[h] = "undo"
    /\ mem' = [mem EXCEPT ![h] = gami]
    /\ GoTo(h, "undo_write")
    /\ UNCHANGED <<today, active, svars, prev, faults, ghost, calm>>

\* Mutant: the rollback forgets the streak.
RestoredPartly(state, old) == [state EXCEPT !.last = old.last]

Restored(state, old) ==
    [streak |-> old.streak, last |-> old.last,
     checkins |-> IF state.checkins = 0 THEN 0 ELSE state.checkins - 1,
     spins |-> state.spins]

UndoState(h) ==
    /\ pc[h] = "undo_write"
    /\ Commit(h, Restored(mem[h], prev[h]))
    /\ GoTo(h, "delete")
    /\ UNCHANGED <<today, active, rows, made, promo, mem, prev, faults, ghost, calm>>

Released(c) == "none"

DeleteClaim(h) ==
    /\ pc[h] = "delete"
    /\ rows' = [rows EXCEPT ![ClaimOf(h)] = Released(ClaimOf(h))]
    /\ Clear({h})
    /\ UNCHANGED <<today, active, made, gami, promo, faults, ghost, calm>>

RecordReward(h) ==
    /\ pc[h] = "record"
    /\ rows' = [rows EXCEPT ![ClaimOf(h)] = "given"]
    /\ Clear({h})
    /\ UNCHANGED <<today, active, made, gami, promo, faults, ghost, calm>>

-----------------------------------------------------------------------------
(* The environment.                                                        *)

Busy == {h \in Handlers : pc[h] # "idle"}

Midnight ==
    /\ today < LastDay
    /\ today' = today + 1
    /\ calm' = (calm /\ Busy = {})
    /\ UNCHANGED <<active, svars, hvars, faults, ghost>>

\* The subscription runs out, or is bought again.
Subscription ==
    /\ active' = ~active
    /\ UNCHANGED <<today, svars, hvars, faults, ghost, calm>>

CrashWeb ==
    /\ Busy # {}
    /\ faults < MaxFaults /\ faults' = faults + 1
    /\ Clear(Handlers)
    /\ calm' = FALSE
    /\ UNCHANGED <<today, active, svars, ghost>>

Handle(h) ==
    \/ Reserve(h) \/ ReadState(h) \/ CreateState(h) \/ WriteState(h)
    \/ \E segment \in Segments : PickSegment(h, segment)
    \/ GrantReward(h) \/ RewardRefused(h) \/ RewardHidden(h)
    \/ ReadForUndo(h) \/ UndoState(h) \/ DeleteClaim(h) \/ RecordReward(h)

Next ==
    \/ \E h \in Handlers :
          \/ \E k \in Kinds : Begin(h, k)
          \/ OpenPage(h)
          \/ Handle(h)
    \/ Midnight \/ Subscription \/ CrashWeb

Spec == Init /\ [][Next]_vars

-----------------------------------------------------------------------------
Holds(h, c) == pc[h] \notin {"idle", "reserve"} /\ ClaimOf(h) = c

Given(k) == {d \in Days : rows[<<k, d>>] = "given"}

\* The check-ins on consecutive days that end on day d.
Run(d) == Cardinality({e \in Days : e <= d /\ e..d \subseteq Given("checkin")})

State == [streak : Nat, last : Days \cup {NoDay}, checkins : Nat, spins : Nat]

\* Every variable holds a status, a day, a counter or a program position.
TypeOK ==
    /\ today \in Days
    /\ active \in BOOLEAN /\ made \in BOOLEAN /\ promo \in BOOLEAN
    /\ calm \in BOOLEAN
    /\ rows \in [Claims -> {"none", "reserved", "given"}]
    /\ gami \in State
    /\ pc \in [Handlers -> PC]
    /\ kind \in [Handlers -> Kinds \cup {"page"}]
    /\ day \in [Handlers -> Days]
    /\ mem \in [Handlers -> State] /\ prev \in [Handlers -> State]
    /\ faults \in 0..MaxFaults
    /\ prizes \in [Claims -> Nat]
    /\ hidden \in [Claims -> Nat]

\* The anti-fraud promise of gamification.py:5-6: one reward per kind and
\* day, whatever races, crashes or passes midnight, except once more for each
\* reward that was applied and reported as a failure.
OneReward ==
    \A c \in Claims : prizes[c] <= 1 + hidden[c]

Settled(k) == \A h \in Handlers : pc[h] = "idle" \/ kind[h] # k

\* README.md:454, on a failure "the reservation is rolled back so the user can
\* retry": a reservation without a reward belongs to a request at work. Nor does
\* a failure leave a trace in the user's progress: with no check-in under way the
\* streak counts the consecutive days checked in up to the last one, a check-in
\* and a spin that update the same row at once lose nothing, and a check-in is
\* rewarded only after Goal - 1 days in a row right before it.
ProgressIsEarned ==
    calm =>
        /\ \A c \in Claims :
              rows[c] = "reserved" => \E h \in Handlers : Holds(h, c)
        /\ Settled("checkin") =>
              /\ gami.streak = (IF gami.last = NoDay THEN 0 ELSE Run(gami.last))
              /\ gami.checkins = Cardinality(Given("checkin"))
        /\ Settled("wheel") => gami.spins = Cardinality(Given("wheel"))
        /\ \A d \in Days : \A n \in 1..(Goal - 1) :
              prizes[<<"checkin", d>>] > 0 => d - n \in Given("checkin")
=============================================================================
