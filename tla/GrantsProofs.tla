---------------------------- MODULE GrantsProofs ----------------------------
(* Theorems about Grants, for every set of charges and handlers, every      *)
(* number of attempts, crashes and starts, and every fault of the panel.    *)
EXTENDS Grants, FiniteSetTheorems, TLAPS

\* A handler, or the worker, works on a charge exactly while it is not idle;
\* only daily charges come to the claim steps and only Stars to the refund
\* steps; the worker touches only rows that have attempts left.
Shape ==
    /\ \A h \in Handlers : pc[h] = "idle" <=> job[h] = NoCharge
    /\ \A h \in Handlers : pc[h] \in {"reserve", "pay"} => job[h] \in Dailies
    /\ \A h \in Handlers : pc[h] \in {"refund_call", "refund_mark"} => job[h] \in Stars
    /\ wpc = "idle" <=> wjob = NoCharge
    /\ wpc = "mark" => wjob \in Promos
    /\ wpc \notin {"idle", "fail_payment"} => attempts[wjob] < MaxAttempts
    /\ \A c \in batch : attempts[c] < MaxAttempts /\ c # wjob
    /\ \A c \in Charges : payment[c] = "refunded" => c \in Stars

TypeInv == TypeOK /\ Shape

LEMMA TypeInvInit == Init => TypeInv
BY ConstantsAssumption
DEF Init, TypeInv, TypeOK, Shape, PaymentStatus, QueueStatus, ClaimStatus,
    HandlerPC, WorkerPC

LEMMA TypeInvNext == TypeInv /\ [Next]_vars => TypeInv'
<1> SUFFICES ASSUME TypeInv, [Next]_vars PROVE TypeInv'
  OBVIOUS
<1> USE ConstantsAssumption DEF TypeInv, TypeOK, Shape, Charges, Handlers,
        PaymentStatus, QueueStatus, ClaimStatus, HandlerPC, WorkerPC,
        pvars, qvars, hvars, wvars, tvars, cvars, gvars
<1>1. CASE Next
  <2>1. ASSUME NEW c \in Stars, PreCheckout(c) PROVE TypeInv'
    BY <2>1 DEF PreCheckout
  <2>2. ASSUME NEW c \in Stars, TakeStars(c) PROVE TypeInv'
    BY <2>2 DEF TakeStars
  <2>3. ASSUME NEW c \in Stars, BotRefund(c) PROVE TypeInv'
    BY <2>3 DEF BotRefund
  <2>4. ASSUME NEW h \in BotHandlers, NEW c \in Stars, OnSuccessfulPayment(h, c) PROVE TypeInv'
    BY <2>4 DEF OnSuccessfulPayment, Begin
  <2>5. ASSUME NEW h \in BotHandlers, NEW c \in Promos, BotApplyPromo(h, c) PROVE TypeInv'
    BY <2>5 DEF BotApplyPromo, Begin
  <2>6. ASSUME NEW h \in BotHandlers, NEW c \in Dailies, BotDailyFree(h, c) PROVE TypeInv'
    BY <2>6 DEF BotDailyFree, Begin
  <2>7. ASSUME NEW h \in WebHandlers, NEW c \in Promos, WebApplyPromo(h, c) PROVE TypeInv'
    BY <2>7 DEF WebApplyPromo, Begin
  <2>8. ASSUME NEW h \in WebHandlers, NEW c \in Dailies, WebDailyFree(h, c) PROVE TypeInv'
    BY <2>8 DEF WebDailyFree, Begin
  <2>9. ASSUME NEW h \in WebHandlers, NEW c \in Stars, RefundStart(h, c) PROVE TypeInv'
    BY <2>9 DEF RefundStart, Begin
  <2>10. ASSUME NEW h \in Handlers, CheckPayment(h) PROVE TypeInv'
    BY <2>10 DEF CheckPayment, Stop, Finished
  <2>11. ASSUME NEW h \in Handlers, ClaimPayment(h) PROVE TypeInv'
    BY <2>11 DEF ClaimPayment, GoTo, Stop
  <2>12. ASSUME NEW h \in Handlers, ReserveClaim(h) PROVE TypeInv'
    BY <2>12 DEF ReserveClaim, GoTo, Stop
  <2>13. ASSUME NEW h \in Handlers, PayDaily(h) PROVE TypeInv'
    BY <2>13 DEF PayDaily, GoTo, Stop
  <2>14. ASSUME NEW h \in Handlers, NEW outcome \in Outcomes, CallMarzban(h, outcome) PROVE TypeInv'
    BY <2>14 DEF CallMarzban, Apply, GoTo, Stop, Refusing, Applying
  <2>15. ASSUME NEW h \in Handlers, Finalize(h) PROVE TypeInv'
    BY <2>15 DEF Finalize, GoTo, Stop
  <2>16. ASSUME NEW h \in Handlers, MarkUsed(h) PROVE TypeInv'
    BY <2>16 DEF MarkUsed, Stop
  <2>17. ASSUME NEW h \in Handlers, RecordError(h) PROVE TypeInv'
    BY <2>17 DEF RecordError, GoTo, ErrorOf
  <2>18. ASSUME NEW h \in Handlers, FailClaim(h) PROVE TypeInv'
    BY <2>18 DEF FailClaim, GoTo
  <2>19. ASSUME NEW h \in Handlers, EnqueueGrant(h) PROVE TypeInv'
    <3>1. job[h] \in Charges /\ UNCHANGED <<payment, attempts, wvars>>
      BY <2>19 DEF EnqueueGrant
    <3>2. queue' \in [Charges -> QueueStatus] /\ due' \in [Charges -> BOOLEAN]
      <4>1. CASE queue[job[h]] \in {"done", "processing"}
        BY <2>19, <4>1 DEF EnqueueGrant
      <4>2. CASE queue[job[h]] \notin {"done", "processing"}
        <5>1. \E s \in {"pending", "retrying"} : queue' = [queue EXCEPT ![job[h]] = s]
          BY <2>19, <4>2 DEF EnqueueGrant
        <5>2. due' = [due EXCEPT ![job[h]] = TRUE]
          BY <2>19, <4>2 DEF EnqueueGrant
        <5>3. QED
          BY <3>1, <5>1, <5>2
      <4>3. QED
        BY <4>1, <4>2
    <3>3. TypeOK'
      BY <2>19, <3>1, <3>2 DEF EnqueueGrant, Stop
    <3>4. Shape'
      BY <2>19, <3>1 DEF EnqueueGrant, Stop
    <3>5. QED
      BY <3>3, <3>4
  <2>20. ASSUME NEW h \in Handlers, RefundCall(h) PROVE TypeInv'
    BY <2>20 DEF RefundCall, GoTo, Stop
  <2>21. ASSUME NEW h \in Handlers, RefundMark(h) PROVE TypeInv'
    BY <2>21 DEF RefundMark, Stop
  <2>22. ASSUME PollQueue PROVE TypeInv'
    BY <2>22 DEF PollQueue, Stale, Takeable, Waiting
  <2>23. ASSUME NEW c \in Charges, TakeGrant(c) PROVE TypeInv'
    <3>1. CASE queue[c] \in Waiting
      <4>1. TypeOK'
        <5>1. queue' = [queue EXCEPT ![c] = "processing"] /\ due' = [due EXCEPT ![c] = FALSE]
          BY <2>23, <3>1 DEF TakeGrant
        <5>2. queue' \in [Charges -> QueueStatus] /\ due' \in [Charges -> BOOLEAN]
          BY <5>1
        <5>3. QED
          BY <2>23, <3>1, <5>2 DEF TakeGrant
      <4>2. Shape'
        BY <2>23, <3>1 DEF TakeGrant
      <4>3. QED
        BY <4>1, <4>2
    <3>2. CASE queue[c] \notin Waiting
      BY <2>23, <3>2 DEF TakeGrant
    <3>3. QED
      BY <3>1, <3>2
  <2>24. ASSUME NEW outcome \in Outcomes, WorkerCall(outcome) PROVE TypeInv'
    BY <2>24 DEF WorkerCall, Apply, WorkerNext, Refusing, Applying
  <2>25. ASSUME WorkerFinalize PROVE TypeInv'
    BY <2>25 DEF WorkerFinalize
  <2>26. ASSUME WorkerMarkUsed PROVE TypeInv'
    BY <2>26 DEF WorkerMarkUsed
  <2>27. ASSUME MarkGrantDone PROVE TypeInv'
    BY <2>27 DEF MarkGrantDone
  <2>28. ASSUME MarkGrantFailed PROVE TypeInv'
    BY <2>28 DEF MarkGrantFailed, Exhausted
  <2>29. ASSUME WorkerRecordError PROVE TypeInv'
    BY <2>29 DEF WorkerRecordError, ErrorOf
  <2>30. ASSUME NEW c \in Charges, BecomeDue(c) PROVE TypeInv'
    BY <2>30 DEF BecomeDue, Waiting
  <2>31. ASSUME CrashBot PROVE TypeInv'
    <3>1. extra' \in [Charges -> Nat] /\ crashes' \in 0..MaxCrashes
      BY <2>31 DEF CrashBot, Crash
    <3>2. /\ pc' \in [Handlers -> HandlerPC]
          /\ job' \in [Handlers -> Charges \cup {NoCharge}]
          /\ seen' \in [Handlers -> PaymentStatus \cup ClaimStatus]
      BY <2>31 DEF CrashBot, Forget
    <3>3. TypeOK'
      BY <2>31, <3>1, <3>2 DEF CrashBot
    <3>4. Shape'
      BY <2>31 DEF CrashBot, Forget
    <3>5. QED
      BY <3>3, <3>4
  <2>32. ASSUME RestartBot PROVE TypeInv'
    BY <2>32 DEF RestartBot
  <2>33. ASSUME CrashWeb PROVE TypeInv'
    BY <2>33 DEF CrashWeb, Forget, Crash
  <2>34. QED
    BY <1>1, <2>1, <2>2, <2>3, <2>4, <2>5, <2>6, <2>7, <2>8, <2>9, <2>10, <2>11, <2>12, <2>13, <2>14, <2>15, <2>16, <2>17, <2>18, <2>19, <2>20, <2>21, <2>22, <2>23, <2>24, <2>25, <2>26, <2>27, <2>28, <2>29, <2>30, <2>31, <2>32, <2>33
    DEF Next, Request, Handle, Work
<1>2. CASE UNCHANGED vars
  BY <1>2 DEF vars
<1>3. QED
  BY <1>1, <1>2

\* Type correctness of the pipeline (Grants!TypeOK).
THEOREM TypeCorrect == Spec => []TypeOK
<1>1. TypeInv => TypeOK
  BY DEF TypeInv
<1>2. QED
  BY <1>1, TypeInvInit, TypeInvNext, PTL DEF Spec

-----------------------------------------------------------------------------
\* A handler, or the worker, that is about to write a success has its reply.
BooksInv ==
    /\ BooksMatchPanel
    /\ \A h \in Handlers : pc[h] \in {"finalize", "mark"} => applied[job[h]] >= 1
    /\ wpc \in {"finalize", "mark", "done"} => applied[wjob] >= 1

LEMMA BooksInvInit == Init => BooksInv
BY DEF Init, BooksInv, BooksMatchPanel

LEMMA BooksInvNext == TypeInv /\ BooksInv /\ [Next]_vars => BooksInv'
<1> SUFFICES ASSUME TypeInv, BooksInv, [Next]_vars PROVE BooksInv'
  OBVIOUS
<1> USE ConstantsAssumption DEF TypeInv, TypeOK, Shape, BooksInv, BooksMatchPanel,
        Charges, Handlers, pvars, qvars, hvars, wvars, tvars, cvars, gvars
<1>1. CASE Next
  <2>1. ASSUME NEW c \in Stars, PreCheckout(c) PROVE BooksInv'
    BY <2>1 DEF PreCheckout
  <2>2. ASSUME NEW c \in Stars, TakeStars(c) PROVE BooksInv'
    BY <2>2 DEF TakeStars
  <2>3. ASSUME NEW c \in Stars, BotRefund(c) PROVE BooksInv'
    BY <2>3 DEF BotRefund
  <2>4. ASSUME NEW h \in BotHandlers, NEW c \in Stars, OnSuccessfulPayment(h, c) PROVE BooksInv'
    BY <2>4 DEF OnSuccessfulPayment, Begin
  <2>5. ASSUME NEW h \in BotHandlers, NEW c \in Promos, BotApplyPromo(h, c) PROVE BooksInv'
    BY <2>5 DEF BotApplyPromo, Begin
  <2>6. ASSUME NEW h \in BotHandlers, NEW c \in Dailies, BotDailyFree(h, c) PROVE BooksInv'
    BY <2>6 DEF BotDailyFree, Begin
  <2>7. ASSUME NEW h \in WebHandlers, NEW c \in Promos, WebApplyPromo(h, c) PROVE BooksInv'
    BY <2>7 DEF WebApplyPromo, Begin
  <2>8. ASSUME NEW h \in WebHandlers, NEW c \in Dailies, WebDailyFree(h, c) PROVE BooksInv'
    BY <2>8 DEF WebDailyFree, Begin
  <2>9. ASSUME NEW h \in WebHandlers, NEW c \in Stars, RefundStart(h, c) PROVE BooksInv'
    BY <2>9 DEF RefundStart, Begin
  <2>10. ASSUME NEW h \in Handlers, CheckPayment(h) PROVE BooksInv'
    BY <2>10 DEF CheckPayment, Stop, Finished
  <2>11. ASSUME NEW h \in Handlers, ClaimPayment(h) PROVE BooksInv'
    BY <2>11 DEF ClaimPayment, GoTo, Stop
  <2>12. ASSUME NEW h \in Handlers, ReserveClaim(h) PROVE BooksInv'
    BY <2>12 DEF ReserveClaim, GoTo, Stop
  <2>13. ASSUME NEW h \in Handlers, PayDaily(h) PROVE BooksInv'
    BY <2>13 DEF PayDaily, GoTo, Stop, AlreadyGranted
  <2>14. ASSUME NEW h \in Handlers, NEW outcome \in Outcomes, CallMarzban(h, outcome) PROVE BooksInv'
    BY <2>14 DEF CallMarzban, Apply, GoTo, Stop, Refusing, Applying
  <2>15. ASSUME NEW h \in Handlers, Finalize(h) PROVE BooksInv'
    BY <2>15 DEF Finalize, GoTo, Stop
  <2>16. ASSUME NEW h \in Handlers, MarkUsed(h) PROVE BooksInv'
    BY <2>16 DEF MarkUsed, Stop
  <2>17. ASSUME NEW h \in Handlers, RecordError(h) PROVE BooksInv'
    BY <2>17 DEF RecordError, GoTo, ErrorOf
  <2>18. ASSUME NEW h \in Handlers, FailClaim(h) PROVE BooksInv'
    BY <2>18 DEF FailClaim, GoTo
  <2>19. ASSUME NEW h \in Handlers, EnqueueGrant(h) PROVE BooksInv'
    BY <2>19 DEF EnqueueGrant, Stop
  <2>20. ASSUME NEW h \in Handlers, RefundCall(h) PROVE BooksInv'
    BY <2>20 DEF RefundCall, GoTo, Stop
  <2>21. ASSUME NEW h \in Handlers, RefundMark(h) PROVE BooksInv'
    BY <2>21 DEF RefundMark, Stop
  <2>22. ASSUME PollQueue PROVE BooksInv'
    BY <2>22 DEF PollQueue, Stale, Takeable, Waiting
  <2>23. ASSUME NEW c \in Charges, TakeGrant(c) PROVE BooksInv'
    BY <2>23 DEF TakeGrant, Waiting
  <2>24. ASSUME NEW outcome \in Outcomes, WorkerCall(outcome) PROVE BooksInv'
    BY <2>24 DEF WorkerCall, Apply, WorkerNext, Refusing, Applying
  <2>25. ASSUME WorkerFinalize PROVE BooksInv'
    BY <2>25 DEF WorkerFinalize
  <2>26. ASSUME WorkerMarkUsed PROVE BooksInv'
    BY <2>26 DEF WorkerMarkUsed
  <2>27. ASSUME MarkGrantDone PROVE BooksInv'
    BY <2>27 DEF MarkGrantDone
  <2>28. ASSUME MarkGrantFailed PROVE BooksInv'
    BY <2>28 DEF MarkGrantFailed, Exhausted
  <2>29. ASSUME WorkerRecordError PROVE BooksInv'
    BY <2>29 DEF WorkerRecordError, ErrorOf
  <2>30. ASSUME NEW c \in Charges, BecomeDue(c) PROVE BooksInv'
    BY <2>30 DEF BecomeDue, Waiting
  <2>31. ASSUME CrashBot PROVE BooksInv'
    BY <2>31 DEF CrashBot, Forget, Crash
  <2>32. ASSUME RestartBot PROVE BooksInv'
    BY <2>32 DEF RestartBot
  <2>33. ASSUME CrashWeb PROVE BooksInv'
    BY <2>33 DEF CrashWeb, Forget, Crash
  <2>34. QED
    BY <1>1, <2>1, <2>2, <2>3, <2>4, <2>5, <2>6, <2>7, <2>8, <2>9, <2>10, <2>11, <2>12, <2>13, <2>14, <2>15, <2>16, <2>17, <2>18, <2>19, <2>20, <2>21, <2>22, <2>23, <2>24, <2>25, <2>26, <2>27, <2>28, <2>29, <2>30, <2>31, <2>32, <2>33
    DEF Next, Request, Handle, Work
<1>2. CASE UNCHANGED vars
  BY <1>2 DEF vars
<1>3. QED
  BY <1>1, <1>2

\* The books never run ahead of the panel: whatever fails or dies, a success
\* payment, a done row or a success claim stands for an applied plan.
THEOREM BooksCorrect == Spec => []BooksMatchPanel
<1>1. BooksInv => BooksMatchPanel
  BY DEF BooksInv
<1>2. QED
  BY <1>1, BooksInvInit, TypeInvInit, TypeInvNext, BooksInvNext, PTL DEF Spec

-----------------------------------------------------------------------------
SettledKept(d) ==
    /\ Settled(d)'
    /\ applied'[d] = applied[d]
    /\ payment'[d] \in {payment[d], "refunded"}

LEMMA SettledNext ==
  ASSUME TypeInv, [Next]_vars, NEW d \in Charges, Settled(d)
  PROVE  SettledKept(d)
<1> USE ConstantsAssumption DEF TypeInv, TypeOK, Shape, Settled, InFlight, Queued,
        Retryable, Granting, Waiting, Reclaimable, SettledKept,
        Charges, Handlers, pvars, qvars, hvars, wvars, tvars, cvars, gvars
<1>1. CASE Next
  <2>1. ASSUME NEW c \in Stars, PreCheckout(c) PROVE SettledKept(d)
    BY <2>1 DEF PreCheckout
  <2>2. ASSUME NEW c \in Stars, TakeStars(c) PROVE SettledKept(d)
    BY <2>2 DEF TakeStars
  <2>3. ASSUME NEW c \in Stars, BotRefund(c) PROVE SettledKept(d)
    BY <2>3 DEF BotRefund
  <2>4. ASSUME NEW h \in BotHandlers, NEW c \in Stars, OnSuccessfulPayment(h, c) PROVE SettledKept(d)
    BY <2>4 DEF OnSuccessfulPayment, Begin
  <2>5. ASSUME NEW h \in BotHandlers, NEW c \in Promos, BotApplyPromo(h, c) PROVE SettledKept(d)
    BY <2>5 DEF BotApplyPromo, Begin
  <2>6. ASSUME NEW h \in BotHandlers, NEW c \in Dailies, BotDailyFree(h, c) PROVE SettledKept(d)
    BY <2>6 DEF BotDailyFree, Begin
  <2>7. ASSUME NEW h \in WebHandlers, NEW c \in Promos, WebApplyPromo(h, c) PROVE SettledKept(d)
    BY <2>7 DEF WebApplyPromo, Begin
  <2>8. ASSUME NEW h \in WebHandlers, NEW c \in Dailies, WebDailyFree(h, c) PROVE SettledKept(d)
    BY <2>8 DEF WebDailyFree, Begin
  <2>9. ASSUME NEW h \in WebHandlers, NEW c \in Stars, RefundStart(h, c) PROVE SettledKept(d)
    BY <2>9 DEF RefundStart, Begin
  <2>10. ASSUME NEW h \in Handlers, CheckPayment(h) PROVE SettledKept(d)
    BY <2>10 DEF CheckPayment, Stop, Finished
  <2>11. ASSUME NEW h \in Handlers, ClaimPayment(h) PROVE SettledKept(d)
    BY <2>11 DEF ClaimPayment, GoTo, Stop, WasCreated
  <2>12. ASSUME NEW h \in Handlers, ReserveClaim(h) PROVE SettledKept(d)
    BY <2>12 DEF ReserveClaim, GoTo, Stop
  <2>13. ASSUME NEW h \in Handlers, PayDaily(h) PROVE SettledKept(d)
    BY <2>13 DEF PayDaily, GoTo, Stop, WasCreated, AlreadyGranted
  <2>14. ASSUME NEW h \in Handlers, NEW outcome \in Outcomes, CallMarzban(h, outcome) PROVE SettledKept(d)
    BY <2>14 DEF CallMarzban, Apply, GoTo, Stop, Refusing, Applying
  <2>15. ASSUME NEW h \in Handlers, Finalize(h) PROVE SettledKept(d)
    BY <2>15 DEF Finalize, GoTo, Stop
  <2>16. ASSUME NEW h \in Handlers, MarkUsed(h) PROVE SettledKept(d)
    BY <2>16 DEF MarkUsed, Stop
  <2>17. ASSUME NEW h \in Handlers, RecordError(h) PROVE SettledKept(d)
    BY <2>17 DEF RecordError, GoTo, ErrorOf
  <2>18. ASSUME NEW h \in Handlers, FailClaim(h) PROVE SettledKept(d)
    BY <2>18 DEF FailClaim, GoTo
  <2>19. ASSUME NEW h \in Handlers, EnqueueGrant(h) PROVE SettledKept(d)
    BY <2>19 DEF EnqueueGrant, Stop
  <2>20. ASSUME NEW h \in Handlers, RefundCall(h) PROVE SettledKept(d)
    BY <2>20 DEF RefundCall, GoTo, Stop
  <2>21. ASSUME NEW h \in Handlers, RefundMark(h) PROVE SettledKept(d)
    BY <2>21 DEF RefundMark, Stop
  <2>22. ASSUME PollQueue PROVE SettledKept(d)
    BY <2>22 DEF PollQueue, Stale, Takeable, Waiting
  <2>23. ASSUME NEW c \in Charges, TakeGrant(c) PROVE SettledKept(d)
    BY <2>23 DEF TakeGrant, Waiting
  <2>24. ASSUME NEW outcome \in Outcomes, WorkerCall(outcome) PROVE SettledKept(d)
    BY <2>24 DEF WorkerCall, Apply, WorkerNext, Refusing, Applying
  <2>25. ASSUME WorkerFinalize PROVE SettledKept(d)
    BY <2>25 DEF WorkerFinalize
  <2>26. ASSUME WorkerMarkUsed PROVE SettledKept(d)
    BY <2>26 DEF WorkerMarkUsed
  <2>27. ASSUME MarkGrantDone PROVE SettledKept(d)
    BY <2>27 DEF MarkGrantDone
  <2>28. ASSUME MarkGrantFailed PROVE SettledKept(d)
    BY <2>28 DEF MarkGrantFailed, Exhausted
  <2>29. ASSUME WorkerRecordError PROVE SettledKept(d)
    BY <2>29 DEF WorkerRecordError, ErrorOf
  <2>30. ASSUME NEW c \in Charges, BecomeDue(c) PROVE SettledKept(d)
    BY <2>30 DEF BecomeDue, Waiting
  <2>31. ASSUME CrashBot PROVE SettledKept(d)
    BY <2>31 DEF CrashBot, Forget, Crash
  <2>32. ASSUME RestartBot PROVE SettledKept(d)
    BY <2>32 DEF RestartBot
  <2>33. ASSUME CrashWeb PROVE SettledKept(d)
    BY <2>33 DEF CrashWeb, Forget, Crash
  <2>34. QED
    BY <1>1, <2>1, <2>2, <2>3, <2>4, <2>5, <2>6, <2>7, <2>8, <2>9, <2>10, <2>11, <2>12, <2>13, <2>14, <2>15, <2>16, <2>17, <2>18, <2>19, <2>20, <2>21, <2>22, <2>23, <2>24, <2>25, <2>26, <2>27, <2>28, <2>29, <2>30, <2>31, <2>32, <2>33
    DEF Next, Request, Handle, Work
<1>2. CASE UNCHANGED vars
  BY <1>2 DEF vars
<1>3. QED
  BY <1>1, <1>2

\* A settled charge is final: no request, redelivery, queue pass, crash or
\* restart grants it again or reopens its payment (a refund may close it).
THEOREM SettledCorrect == Spec => SettledIsFinal
<1>1. TypeInv /\ [Next]_vars =>
        [\A c \in Charges :
            Settled(c) => /\ Settled(c)'
                          /\ applied'[c] = applied[c]
                          /\ payment'[c] \in {payment[c], "refunded"}]_vars
  BY SettledNext DEF SettledKept
<1>2. QED
  BY <1>1, TypeInvInit, TypeInvNext, PTL DEF Spec, SettledIsFinal

-----------------------------------------------------------------------------
(* Every application is paid for.  A charge comes with one application, and *)
(* extra counts each further one; a handler on its way to the panel or to   *)
(* the queue holds one, and so does a queue row the worker has yet to apply. *)

Runs(h, c) == job[h] = c /\ pc[h] \in {"call", "fail", "fail_claim", "enqueue"}

Runners(c) == {h \in Handlers : Runs(h, c)}

Count(c) == Cardinality(Runners(c))

One(b) == IF b THEN 1 ELSE 0

Owes(c) ==
    \/ Retryable(c)
    \/ queue[c] = "processing" /\ ~(wjob = c /\ wpc \in {"finalize", "mark", "done"})

Within(c) ==
    /\ applied[c] + Count(c) + One(Owes(c)) <= 1 + extra[c]
    /\ payment[c] = "none" => applied[c] + Count(c) + One(Owes(c)) = 0
    /\ wjob = c /\ wpc \notin {"idle", "fail_payment"} => queue[c] = "processing"

GrantInv == \A c \in Charges : Within(c)

\* A step of handler h leaves every other handler where it is.
OnlyMoves(h) == \A k \in Handlers \ {h} : pc'[k] = pc[k] /\ job'[k] = job[k]

Moved(h, c) ==
    /\ Count(c) \in Nat /\ Count(c)' \in Nat
    /\ Count(c)' + One(Runs(h, c)) = Count(c) + One(Runs(h, c)')

LEMMA CountNat ==
  ASSUME NEW c
  PROVE  IsFiniteSet(Runners(c)) /\ Count(c) \in Nat
<1>1. IsFiniteSet(Handlers)
  BY ConstantsAssumption, FS_Union DEF Handlers
<1>2. Runners(c) \subseteq Handlers
  BY DEF Runners
<1>3. QED
  BY <1>1, <1>2, FS_Subset, FS_CardinalityType DEF Count

LEMMA RunnersPositive ==
  ASSUME NEW h \in Handlers, NEW c, Runs(h, c)
  PROVE  Count(c) # 0
<1>1. h \in Runners(c)
  BY DEF Runners
<1>2. QED
  BY <1>1, CountNat, FS_EmptySet DEF Count

LEMMA RunnersMove ==
  ASSUME NEW h \in Handlers, OnlyMoves(h), NEW c
  PROVE  Moved(h, c)
<1> DEFINE R == Runners(c)
           S == Runners(c)'
<1>1. IsFiniteSet(R) /\ Cardinality(R) \in Nat
  BY CountNat DEF Count
<1>2. CASE Runs(h, c)'
  <2>1. S = R \cup {h}
    BY <1>2 DEF OnlyMoves, Runners, Runs
  <2>2. h \in R <=> Runs(h, c)
    BY DEF Runners
  <2>3. Cardinality(S) = IF h \in R THEN Cardinality(R) ELSE Cardinality(R) + 1
    BY <1>1, <2>1, FS_AddElement
  <2>4. QED
    BY <1>1, <1>2, <2>2, <2>3 DEF Moved, Count, One
<1>3. CASE ~Runs(h, c)'
  <2>1. S = R \ {h}
    BY <1>3 DEF OnlyMoves, Runners, Runs
  <2>2. h \in R <=> Runs(h, c)
    BY DEF Runners
  <2>3. Cardinality(S) = IF h \in R THEN Cardinality(R) - 1 ELSE Cardinality(R)
    BY <1>1, <2>1, FS_RemoveElement
  <2>4. Cardinality(S) \in Nat
    BY <1>1, <2>1, FS_Subset, FS_CardinalityType
  <2>5. QED
    BY <1>1, <1>3, <2>2, <2>3, <2>4 DEF Moved, Count, One
<1>4. QED
  BY <1>2, <1>3

LEMMA RunnersShrink ==
  ASSUME NEW c, Runners(c)' \subseteq Runners(c)
  PROVE  Count(c)' \in Nat /\ Count(c)' <= Count(c)
<1> DEFINE R == Runners(c)
           S == Runners(c)'
<1>1. IsFiniteSet(R) /\ S \subseteq R
  BY CountNat
<1>2. IsFiniteSet(S) /\ Cardinality(S) <= Cardinality(R)
  BY <1>1, FS_Subset
<1>3. Cardinality(S) \in Nat
  BY <1>2, FS_CardinalityType
<1>4. QED
  BY <1>2, <1>3 DEF Count

LEMMA GrantInvNext == TypeInv /\ BooksInv /\ GrantInv /\ [Next]_vars => GrantInv'
<1> SUFFICES ASSUME TypeInv, BooksInv, GrantInv, [Next]_vars, NEW d \in Charges
             PROVE  Within(d)'
  BY DEF GrantInv
<1>0. Count(d) \in Nat /\ Within(d)
  BY CountNat DEF GrantInv
<1> USE <1>0, ConstantsAssumption DEF TypeInv, TypeOK, Shape, Within, Owes, One, Runs,
        Retryable, Waiting, Reclaimable,
        Charges, Handlers, pvars, qvars, hvars, wvars, tvars, cvars, gvars
<1>1. CASE Next
  <2>1. ASSUME NEW c \in Stars, PreCheckout(c) PROVE Within(d)'
    <3>1. Count(d)' = Count(d)
      BY <2>1 DEF PreCheckout, Count, Runners, Runs
    <3>2. QED
      BY <2>1, <3>1 DEF PreCheckout
  <2>2. ASSUME NEW c \in Stars, TakeStars(c) PROVE Within(d)'
    <3>1. Count(d)' = Count(d)
      BY <2>2 DEF TakeStars, Count, Runners, Runs
    <3>2. QED
      BY <2>2, <3>1 DEF TakeStars
  <2>3. ASSUME NEW c \in Stars, BotRefund(c) PROVE Within(d)'
    <3>1. Count(d)' = Count(d)
      BY <2>3 DEF BotRefund, Count, Runners, Runs
    <3>2. QED
      BY <2>3, <3>1 DEF BotRefund
  <2>4. ASSUME NEW h \in BotHandlers, NEW c \in Stars, OnSuccessfulPayment(h, c) PROVE Within(d)'
    <3>1. OnlyMoves(h)
      BY <2>4 DEF OnlyMoves, OnSuccessfulPayment, Begin
    <3>2. Moved(h, d)
      BY <3>1, RunnersMove
    <3>3. QED
      BY <2>4, <3>2 DEF Moved, OnSuccessfulPayment, Begin
  <2>5. ASSUME NEW h \in BotHandlers, NEW c \in Promos, BotApplyPromo(h, c) PROVE Within(d)'
    <3>1. OnlyMoves(h)
      BY <2>5 DEF OnlyMoves, BotApplyPromo, Begin
    <3>2. Moved(h, d)
      BY <3>1, RunnersMove
    <3>3. QED
      BY <2>5, <3>2 DEF Moved, BotApplyPromo, Begin
  <2>6. ASSUME NEW h \in BotHandlers, NEW c \in Dailies, BotDailyFree(h, c) PROVE Within(d)'
    <3>1. OnlyMoves(h)
      BY <2>6 DEF OnlyMoves, BotDailyFree, Begin
    <3>2. Moved(h, d)
      BY <3>1, RunnersMove
    <3>3. QED
      BY <2>6, <3>2 DEF Moved, BotDailyFree, Begin
  <2>7. ASSUME NEW h \in WebHandlers, NEW c \in Promos, WebApplyPromo(h, c) PROVE Within(d)'
    <3>1. OnlyMoves(h)
      BY <2>7 DEF OnlyMoves, WebApplyPromo, Begin
    <3>2. Moved(h, d)
      BY <3>1, RunnersMove
    <3>3. QED
      BY <2>7, <3>2 DEF Moved, WebApplyPromo, Begin
  <2>8. ASSUME NEW h \in WebHandlers, NEW c \in Dailies, WebDailyFree(h, c) PROVE Within(d)'
    <3>1. OnlyMoves(h)
      BY <2>8 DEF OnlyMoves, WebDailyFree, Begin
    <3>2. Moved(h, d)
      BY <3>1, RunnersMove
    <3>3. QED
      BY <2>8, <3>2 DEF Moved, WebDailyFree, Begin
  <2>9. ASSUME NEW h \in WebHandlers, NEW c \in Stars, RefundStart(h, c) PROVE Within(d)'
    <3>1. OnlyMoves(h)
      BY <2>9 DEF OnlyMoves, RefundStart, Begin
    <3>2. Moved(h, d)
      BY <3>1, RunnersMove
    <3>3. QED
      BY <2>9, <3>2 DEF Moved, RefundStart, Begin
  <2>10. ASSUME NEW h \in Handlers, CheckPayment(h) PROVE Within(d)'
    <3>1. OnlyMoves(h)
      BY <2>10 DEF OnlyMoves, CheckPayment, Stop
    <3>2. Moved(h, d)
      BY <3>1, RunnersMove
    <3>3. QED
      BY <2>10, <3>2 DEF Moved, CheckPayment, Stop, Finished
  <2>11. ASSUME NEW h \in Handlers, ClaimPayment(h) PROVE Within(d)'
    <3>1. OnlyMoves(h)
      BY <2>11 DEF OnlyMoves, ClaimPayment, GoTo, Stop
    <3>2. Moved(h, d)
      BY <3>1, RunnersMove
    <3>3. QED
      BY <2>11, <3>2 DEF Moved, ClaimPayment, GoTo, Stop, WasCreated
  <2>12. ASSUME NEW h \in Handlers, ReserveClaim(h) PROVE Within(d)'
    <3>1. OnlyMoves(h)
      BY <2>12 DEF OnlyMoves, ReserveClaim, GoTo, Stop
    <3>2. Moved(h, d)
      BY <3>1, RunnersMove
    <3>3. QED
      BY <2>12, <3>2 DEF Moved, ReserveClaim, GoTo, Stop
  <2>13. ASSUME NEW h \in Handlers, PayDaily(h) PROVE Within(d)'
    <3>1. OnlyMoves(h)
      BY <2>13 DEF OnlyMoves, PayDaily, GoTo, Stop
    <3>2. Moved(h, d)
      BY <3>1, RunnersMove
    <3>3. QED
      BY <2>13, <3>2 DEF Moved, PayDaily, GoTo, Stop, WasCreated, AlreadyGranted
  <2>14. ASSUME NEW h \in Handlers, NEW outcome \in Outcomes, CallMarzban(h, outcome) PROVE Within(d)'
    <3>1. OnlyMoves(h)
      BY <2>14 DEF OnlyMoves, CallMarzban, GoTo, Stop
    <3>2. Moved(h, d)
      BY <3>1, RunnersMove
    <3>3. QED
      <4>1. CASE d # job[h]
        BY <2>14, <3>2, <4>1 DEF Moved, CallMarzban, Apply, GoTo, Stop
      <4>2. CASE d = job[h] /\ outcome = "ok"
        <5>1. Runs(h, d) /\ ~Runs(h, d)'
          BY <2>14, <4>2 DEF CallMarzban, GoTo, Refusing
        <5>2. Count(d) = Count(d)' + 1
          BY <3>2, <5>1 DEF Moved
        <5>3. applied'[d] = applied[d] + 1 /\ UNCHANGED extra
          BY <2>14, <4>2 DEF CallMarzban, Apply, Applying
        <5>4. QED
          BY <2>14, <3>2, <5>2, <5>3 DEF CallMarzban, Moved
      <4>3. CASE d = job[h] /\ outcome \in Refusing
        <5>1. Runs(h, d) /\ Runs(h, d)'
          BY <2>14, <4>3 DEF CallMarzban, GoTo, Refusing
        <5>2. Count(d) = Count(d)'
          BY <3>2, <5>1 DEF Moved
        <5>3. Count(d) # 0
          BY <3>2, <5>1, RunnersPositive
        <5>4. \/ outcome = "error" /\ UNCHANGED <<applied, extra>>
              \/ /\ outcome = "late_error"
                 /\ applied'[d] = applied[d] + 1 /\ extra'[d] = extra[d] + 1
          BY <2>14, <4>3 DEF CallMarzban, Apply, Applying, Refusing
        <5>5. QED
          BY <2>14, <5>2, <5>3, <5>4 DEF CallMarzban
      <4>4. CASE d = job[h] /\ outcome \notin Refusing \cup {"ok"}
        BY <2>14, <3>2, <4>4 DEF Moved, CallMarzban, Apply, Stop, Refusing
      <4>5. QED
        BY <4>1, <4>2, <4>3, <4>4
  <2>15. ASSUME NEW h \in Handlers, Finalize(h) PROVE Within(d)'
    <3>1. OnlyMoves(h)
      BY <2>15 DEF OnlyMoves, Finalize, GoTo, Stop
    <3>2. Moved(h, d)
      BY <3>1, RunnersMove
    <3>3. QED
      BY <2>15, <3>2 DEF Moved, Finalize, GoTo, Stop
  <2>16. ASSUME NEW h \in Handlers, MarkUsed(h) PROVE Within(d)'
    <3>1. OnlyMoves(h)
      BY <2>16 DEF OnlyMoves, MarkUsed, Stop
    <3>2. Moved(h, d)
      BY <3>1, RunnersMove
    <3>3. QED
      BY <2>16, <3>2 DEF Moved, MarkUsed, Stop
  <2>17. ASSUME NEW h \in Handlers, RecordError(h) PROVE Within(d)'
    <3>1. OnlyMoves(h)
      BY <2>17 DEF OnlyMoves, RecordError, GoTo
    <3>2. Moved(h, d)
      BY <3>1, RunnersMove
    <3>3. QED
      BY <2>17, <3>2 DEF Moved, RecordError, GoTo, ErrorOf
  <2>18. ASSUME NEW h \in Handlers, FailClaim(h) PROVE Within(d)'
    <3>1. OnlyMoves(h)
      BY <2>18 DEF OnlyMoves, FailClaim, GoTo
    <3>2. Moved(h, d)
      BY <3>1, RunnersMove
    <3>3. QED
      BY <2>18, <3>2 DEF Moved, FailClaim, GoTo
  <2>19. ASSUME NEW h \in Handlers, EnqueueGrant(h) PROVE Within(d)'
    <3>1. OnlyMoves(h)
      BY <2>19 DEF OnlyMoves, EnqueueGrant, Stop
    <3>2. Moved(h, d)
      BY <3>1, RunnersMove
    <3>3. QED
      <4>1. CASE d # job[h] \/ queue[d] \in {"done", "processing"}
        BY <2>19, <3>2, <4>1 DEF Moved, EnqueueGrant, Stop
      <4>2. CASE d = job[h] /\ queue[d] \notin {"done", "processing"}
        <5>1. Count(d) = Count(d)' + 1
          BY <2>19, <3>2, <4>2 DEF Moved, EnqueueGrant, Stop
        <5>2. UNCHANGED <<applied, extra, payment, wpc, wjob>> /\ payment[d] # "none"
          BY <2>19, <5>1, <3>2 DEF EnqueueGrant, Moved
        <5>3. wjob = d => wpc \in {"idle", "fail_payment"}
          BY <4>2
        <5>4. QED
          BY <3>2, <5>1, <5>2, <5>3 DEF Moved
      <4>3. QED
        BY <4>1, <4>2
  <2>20. ASSUME NEW h \in Handlers, RefundCall(h) PROVE Within(d)'
    <3>1. OnlyMoves(h)
      BY <2>20 DEF OnlyMoves, RefundCall, GoTo, Stop
    <3>2. Moved(h, d)
      BY <3>1, RunnersMove
    <3>3. QED
      BY <2>20, <3>2 DEF Moved, RefundCall, GoTo, Stop
  <2>21. ASSUME NEW h \in Handlers, RefundMark(h) PROVE Within(d)'
    <3>1. OnlyMoves(h)
      BY <2>21 DEF OnlyMoves, RefundMark, Stop
    <3>2. Moved(h, d)
      BY <3>1, RunnersMove
    <3>3. QED
      BY <2>21, <3>2 DEF Moved, RefundMark, Stop
  <2>22. ASSUME PollQueue PROVE Within(d)'
    <3>1. Count(d)' = Count(d)
      BY <2>22 DEF PollQueue, Count, Runners, Runs
    <3>2. QED
      BY <2>22, <3>1 DEF PollQueue, Stale, Takeable, Waiting
  <2>23. ASSUME NEW c \in Charges, TakeGrant(c) PROVE Within(d)'
    <3>1. Count(d)' = Count(d)
      BY <2>23 DEF TakeGrant, Count, Runners, Runs
    <3>2. QED
      BY <2>23, <3>1 DEF TakeGrant, Waiting
  <2>24. ASSUME NEW outcome \in Outcomes, WorkerCall(outcome) PROVE Within(d)'
    <3>1. Count(d)' = Count(d)
      BY <2>24 DEF WorkerCall, Count, Runners, Runs
    <3>2. QED
      BY <2>24, <3>1 DEF WorkerCall, Apply, WorkerNext, Refusing, Applying
  <2>25. ASSUME WorkerFinalize PROVE Within(d)'
    <3>1. Count(d)' = Count(d)
      BY <2>25 DEF WorkerFinalize, Count, Runners, Runs
    <3>2. QED
      BY <2>25, <3>1 DEF WorkerFinalize
  <2>26. ASSUME WorkerMarkUsed PROVE Within(d)'
    <3>1. Count(d)' = Count(d)
      BY <2>26 DEF WorkerMarkUsed, Count, Runners, Runs
    <3>2. QED
      BY <2>26, <3>1 DEF WorkerMarkUsed
  <2>27. ASSUME MarkGrantDone PROVE Within(d)'
    <3>1. Count(d)' = Count(d)
      BY <2>27 DEF MarkGrantDone, Count, Runners, Runs
    <3>2. QED
      BY <2>27, <3>1 DEF MarkGrantDone
  <2>28. ASSUME MarkGrantFailed PROVE Within(d)'
    <3>1. Count(d)' = Count(d)
      BY <2>28 DEF MarkGrantFailed, Count, Runners, Runs
    <3>2. QED
      BY <2>28, <3>1 DEF MarkGrantFailed, Exhausted
  <2>29. ASSUME WorkerRecordError PROVE Within(d)'
    <3>1. Count(d)' = Count(d)
      BY <2>29 DEF WorkerRecordError, Count, Runners, Runs
    <3>2. QED
      BY <2>29, <3>1 DEF WorkerRecordError, ErrorOf
  <2>30. ASSUME NEW c \in Charges, BecomeDue(c) PROVE Within(d)'
    <3>1. Count(d)' = Count(d)
      BY <2>30 DEF BecomeDue, Count, Runners, Runs
    <3>2. QED
      BY <2>30, <3>1 DEF BecomeDue, Waiting
  <2>31. ASSUME CrashBot PROVE Within(d)'
    <3>1. Runners(d)' \subseteq Runners(d)
      BY <2>31 DEF CrashBot, Forget, Runners, Runs
    <3>2. Count(d)' \in Nat /\ Count(d)' <= Count(d)
      BY <3>1, RunnersShrink
    <3>3. QED
      <4>1. CASE wjob = d /\ wpc \in {"finalize", "mark", "done"}
        <5>1. extra'[d] = extra[d] + 1
          BY <2>31, <4>1 DEF CrashBot
        <5>2. queue[d] = "processing" /\ payment[d] # "none"
          <6>1. applied[d] >= 1
            BY <4>1 DEF BooksInv
          <6>2. QED
            BY <4>1, <6>1
        <5>3. QED
          BY <2>31, <3>2, <4>1, <5>1, <5>2 DEF CrashBot
      <4>2. CASE ~(wjob = d /\ wpc \in {"finalize", "mark", "done"})
        BY <2>31, <3>2, <4>2 DEF CrashBot
      <4>3. QED
        BY <4>1, <4>2
  <2>32. ASSUME RestartBot PROVE Within(d)'
    <3>1. Count(d)' = Count(d)
      BY <2>32 DEF RestartBot, Count, Runners, Runs
    <3>2. QED
      BY <2>32, <3>1 DEF RestartBot
  <2>33. ASSUME CrashWeb PROVE Within(d)'
    <3>1. Runners(d)' \subseteq Runners(d)
      BY <2>33 DEF CrashWeb, Forget, Runners, Runs
    <3>2. Count(d)' \in Nat /\ Count(d)' <= Count(d)
      BY <3>1, RunnersShrink
    <3>3. QED
      BY <2>33, <3>2 DEF CrashWeb, Forget, Crash
  <2>34. QED
    BY <1>1, <2>1, <2>2, <2>3, <2>4, <2>5, <2>6, <2>7, <2>8, <2>9, <2>10, <2>11, <2>12, <2>13, <2>14, <2>15, <2>16, <2>17, <2>18, <2>19, <2>20, <2>21, <2>22, <2>23, <2>24, <2>25, <2>26, <2>27, <2>28, <2>29, <2>30, <2>31, <2>32, <2>33
    DEF Next, Request, Handle, Work
<1>2. CASE UNCHANGED vars
  <2>1. Count(d)' = Count(d)
    BY <1>2 DEF vars, Count, Runners
  <2>2. QED
    BY <1>2, <2>1 DEF vars
<1>3. QED
  BY <1>1, <1>2

LEMMA GrantInvInit == Init => GrantInv
<1> SUFFICES ASSUME Init, NEW c \in Charges PROVE Within(c)
  BY DEF GrantInv
<1>1. Runners(c) = {}
  BY DEF Init, Runners, Runs
<1>2. Count(c) = 0
  BY <1>1, FS_EmptySet DEF Count
<1>3. QED
  BY <1>2, ConstantsAssumption DEF Init, Within, Owes, One, Retryable, Waiting

\* No plan is applied beyond its one entitlement and the accounted causes:
\* take-overs by a new request, applied plans reported as failures, and crashes
\* of the worker between the panel's reply and mark_grant_done.
THEOREM GrantsAccounted == Spec => []NoUnaccountedGrant
<1>1. TypeInv /\ GrantInv => NoUnaccountedGrant
  <2> SUFFICES ASSUME TypeInv, GrantInv, NEW c \in Charges
               PROVE  applied[c] <= 1 + extra[c]
    BY DEF NoUnaccountedGrant
  <2>1. Count(c) \in Nat /\ Within(c)
    BY CountNat DEF GrantInv
  <2>2. QED
    BY <2>1 DEF TypeInv, TypeOK, Within, One
<1>2. QED
  BY <1>1, TypeInvInit, TypeInvNext, BooksInvInit, BooksInvNext, GrantInvInit,
     GrantInvNext, PTL DEF Spec

-----------------------------------------------------------------------------
(* Grants implements Entitlement: the pipeline, with its concurrent handlers, *)
(* its queue, refunds, faults and crashes, keeps the promise each charge      *)
(* carries.                                                                   *)

\* One step applies a charge, and lets a further application loose, at most
\* once, and neither happens to a charge that is settled.
CountsKept(d) ==
    /\ applied'[d] \in {applied[d], applied[d] + 1}
    /\ extra'[d] \in {extra[d], extra[d] + 1}
    /\ Settled(d) => extra'[d] = extra[d]

LEMMA CountsNext ==
  ASSUME TypeInv, [Next]_vars, NEW d \in Charges
  PROVE  CountsKept(d)
<1> USE ConstantsAssumption DEF TypeInv, TypeOK, CountsKept, Charges, Handlers, gvars
<1>1. ASSUME UNCHANGED gvars PROVE CountsKept(d)
  BY <1>1
<1>2. ASSUME Request PROVE UNCHANGED gvars
  BY <1>2 DEF Request, PreCheckout, TakeStars, BotRefund, OnSuccessfulPayment,
     BotApplyPromo, BotDailyFree, WebApplyPromo, WebDailyFree, RefundStart
<1>3. ASSUME NEW h \in Handlers, Handle(h) PROVE CountsKept(d)
  <2>1. CASE ClaimPayment(h)
    BY <2>1 DEF ClaimPayment, Reclaimable, Shape, Settled, InFlight, Granting
  <2>2. CASE PayDaily(h)
    <3>1. job[h] \in Dailies
      BY <2>2 DEF PayDaily, Shape
    <3>2. extra'[d] # extra[d] => job[h] = d /\ payment[d] \notin {"none", "success"}
      BY <2>2, <3>1 DEF PayDaily, WasCreated, AlreadyGranted
    <3>3. Settled(d) => extra'[d] = extra[d]
      BY <3>1, <3>2 DEF Shape, Settled
    <3>4. QED
      BY <2>2, <3>1, <3>3 DEF PayDaily
  <2>3. ASSUME NEW outcome \in Outcomes, CallMarzban(h, outcome) PROVE CountsKept(d)
    BY <2>3 DEF CallMarzban, Apply, Shape, Settled, InFlight, Granting
  <2>4. CASE CheckPayment(h) \/ ReserveClaim(h) \/ Finalize(h) \/ MarkUsed(h) \/ RecordError(h)
    BY <2>4, <1>1 DEF CheckPayment, ReserveClaim, Finalize, MarkUsed, RecordError
  <2>5. CASE FailClaim(h) \/ EnqueueGrant(h) \/ RefundCall(h) \/ RefundMark(h)
    BY <2>5, <1>1 DEF FailClaim, EnqueueGrant, RefundCall, RefundMark
  <2>6. QED
    BY <1>3, <2>1, <2>2, <2>3, <2>4, <2>5 DEF Handle
<1>4. ASSUME Work PROVE CountsKept(d)
  <2>1. ASSUME NEW outcome \in Outcomes, WorkerCall(outcome) PROVE CountsKept(d)
    BY <2>1 DEF WorkerCall, Apply, Shape, Settled, InFlight
  <2>2. CASE PollQueue \/ \E c \in Charges : TakeGrant(c)
    BY <2>2, <1>1 DEF PollQueue, TakeGrant
  <2>3. CASE WorkerFinalize \/ WorkerMarkUsed \/ MarkGrantDone \/ MarkGrantFailed \/ WorkerRecordError
    BY <2>3, <1>1 DEF WorkerFinalize, WorkerMarkUsed, MarkGrantDone, MarkGrantFailed,
       WorkerRecordError
  <2>4. QED
    BY <1>4, <2>1, <2>2, <2>3 DEF Work
<1>5. ASSUME CrashBot PROVE CountsKept(d)
  BY <1>5 DEF CrashBot, Shape, Settled, InFlight
<1>6. ASSUME (\E c \in Charges : BecomeDue(c)) \/ RestartBot \/ CrashWeb PROVE UNCHANGED gvars
  BY <1>6 DEF BecomeDue, RestartBot, CrashWeb
<1>7. ASSUME UNCHANGED vars PROVE UNCHANGED gvars
  BY <1>7 DEF vars
<1>8. QED
  BY <1>1, <1>2, <1>3, <1>4, <1>5, <1>6, <1>7 DEF Next

-----------------------------------------------------------------------------
LEMMA PromiseInit == Init => Promise!Init
BY DEF Init, Promise!Init, Story, StatusOf, Settled

\* An open charge is served within its allowance; a settled one stays, or is
\* refunded.
LEMMA PromiseNext ==
  ASSUME TypeInv, BooksInv, NoUnaccountedGrant', TypeInv', BooksInv', [Next]_vars
  PROVE  Promise!Next
<1>1. Story' \in [Charges -> Promise!Status]
  BY DEF Story, StatusOf, Promise!Status
<1>2. ASSUME NEW c \in Charges
      PROVE  Promise!Serve(c) \/ Promise!Refund(c) \/ Promise!Stay(c)
  <2>1. CountsKept(c)
    BY CountsNext
  <2>5. Story[c] = StatusOf(c) /\ Story'[c] = StatusOf(c)'
    BY DEF Story
  <2>2. CASE ~Settled(c)
    <3>1. applied'[c] <= 1 + extra'[c]
      BY DEF NoUnaccountedGrant
    <3>2. Story[c] = "open" /\ (Story'[c] = "granted" => applied'[c] >= 1)
      BY <2>2, <2>5 DEF StatusOf, BooksInv, BooksMatchPanel
    <3>3. QED
      BY <2>1, <3>1, <3>2 DEF CountsKept, Promise!Serve
  <2>3. CASE Settled(c)
    <3>1. Settled(c)' /\ applied'[c] = applied[c] /\ payment'[c] \in {payment[c], "refunded"}
      BY <2>3, SettledNext DEF SettledKept
    <3>2. extra'[c] = extra[c]
      BY <2>1, <2>3 DEF CountsKept
    <3>3. payment[c] \in {"success", "refunded"} /\ payment'[c] \in {"success", "refunded"}
      BY <2>3, <3>1 DEF Settled
    <3>4. \/ Story[c] = "granted" /\ Story'[c] \in {"granted", "refunded"}
          \/ Story[c] = "refunded" /\ Story'[c] = "refunded"
      BY <2>3, <2>5, <3>1, <3>3 DEF StatusOf
    <3>5. QED
      BY <3>1, <3>2, <3>4 DEF Promise!Refund, Promise!Stay
  <2>4. QED
    BY <2>2, <2>3
<1>3. QED
  BY <1>1, <1>2 DEF Promise!Next

\* The pipeline implements the abstract promise: every behaviour of the bot's
\* and the miniapp's handlers, the worker, refunds, faults and crashes is one
\* of Entitlement under the mapping StatusOf.
THEOREM PromiseKept == Spec => KeepsPromise
<1>1. TypeInv /\ BooksInv /\ NoUnaccountedGrant' /\ TypeInv' /\ BooksInv' /\ [Next]_vars
        => [Promise!Next]_<<applied, extra, Story>>
  BY PromiseNext
<1>2. QED
  BY <1>1, PromiseInit, GrantsAccounted, TypeInvInit, TypeInvNext, BooksInvInit, BooksInvNext,
     PTL DEF Spec, KeepsPromise, Promise!Spec

-----------------------------------------------------------------------------
(* Nothing is abandoned, as long as no process dies and every answer of the  *)
(* panel can be read.  What a handler leaves behind when it records an error *)
(* is entrusted to the queue, by the row it is about to write or by the row  *)
(* that is there; the worker keeps the row until it is done or exhausted.    *)

Entrusted(c) ==
    \/ Queued(c)
    \/ \E h \in Handlers : job[h] = c /\ pc[h] \in {"fail_claim", "enqueue"}

Running(h, c) == job[h] = c /\ pc[h] \in {"call", "finalize", "fail"}

AtWork(c) ==
    /\ payment[c] = "pending" => \E h \in Handlers : Running(h, c)
    /\ payment[c] = "marzban_error" /\ applied[c] = 0 /\ attempts[c] < MaxAttempts
          => Entrusted(c)
    /\ wjob = c /\ wpc \notin {"idle", "fail_payment"} => queue[c] = "processing"
    /\ wjob = c /\ wpc = "fail_payment"
          => queue[c] \in Waiting \/ attempts[c] = MaxAttempts

WorkInv == \A c \in Charges : AtWork(c)

LEMMA WorkInvInit == Init => WorkInv
BY DEF Init, WorkInv, AtWork

\* Handlers that start, stop or move on without a payment of theirs at stake.
LEMMA AtWorkKept ==
  ASSUME NEW c \in Charges, AtWork(c),
         UNCHANGED <<payment, applied, queue, attempts, wpc, wjob>>,
         \A k \in Handlers : Running(k, c) => Running(k, c)',
         \A k \in Handlers : job[k] = c /\ pc[k] \in {"fail_claim", "enqueue"}
             => job'[k] = c /\ pc'[k] \in {"fail_claim", "enqueue"}
  PROVE  AtWork(c)'
BY DEF AtWork, Entrusted, Queued, Retryable

LEMMA WorkInvNext ==
  ASSUME MaxCrashes = 0, Outcomes \subseteq {"ok", "error", "late_error"},
         TypeInv, BooksInv, WorkInv, [Next]_vars
  PROVE  WorkInv'
<1> SUFFICES ASSUME NEW d \in Charges PROVE AtWork(d)'
  BY DEF WorkInv
<1>0. AtWork(d)
  BY DEF WorkInv
<1> USE ConstantsAssumption DEF TypeInv, TypeOK, Shape, Charges, Handlers,
        pvars, qvars, hvars, wvars, tvars, cvars, gvars
<1>1. ASSUME NEW c \in Stars, PreCheckout(c) \/ TakeStars(c) \/ BotRefund(c) PROVE AtWork(d)'
  BY <1>0, <1>1, AtWorkKept DEF PreCheckout, TakeStars, BotRefund, Running
<1>2. ASSUME NEW h \in Handlers, NEW c \in Charges, NEW first, NEW status, Begin(h, c, first, status),
             UNCHANGED <<payment, applied, queue, attempts, wpc, wjob>>
      PROVE  AtWork(d)'
  BY <1>0, <1>2, AtWorkKept DEF Begin, Running
<1>3. CASE Request
  <2>1. ASSUME NEW h \in BotHandlers, NEW c \in Charges,
               OnSuccessfulPayment(h, c) \/ BotApplyPromo(h, c) \/ BotDailyFree(h, c)
        PROVE  AtWork(d)'
    BY <1>2, <2>1 DEF OnSuccessfulPayment, BotApplyPromo, BotDailyFree
  <2>2. ASSUME NEW h \in WebHandlers, NEW c \in Charges,
               WebApplyPromo(h, c) \/ WebDailyFree(h, c) \/ RefundStart(h, c)
        PROVE  AtWork(d)'
    BY <1>2, <2>2 DEF WebApplyPromo, WebDailyFree, RefundStart
  <2>3. QED
    BY <1>1, <1>3, <2>1, <2>2 DEF Request
<1>4. ASSUME NEW h \in Handlers, CheckPayment(h) PROVE AtWork(d)'
  <2>1. CASE payment' = payment
    BY <1>0, <1>4, <2>1, AtWorkKept DEF CheckPayment, Stop, Running
  <2>2. CASE payment' # payment
    <3>1. payment[d] = payment'[d] \/ payment'[d] = "validation_error"
      BY <1>4, <2>2 DEF CheckPayment
    <3>2. pc[h] = "check" /\ pc' = [pc EXCEPT ![h] = "idle"] /\ job' = [job EXCEPT ![h] = NoCharge]
      BY <1>4, <2>2 DEF CheckPayment, Stop
    <3>3. UNCHANGED <<applied, queue, attempts, wpc, wjob>>
      BY <1>4 DEF CheckPayment
    <3>4. QED
      BY <1>0, <3>1, <3>2, <3>3 DEF AtWork, Entrusted, Queued, Retryable, Running
  <2>3. QED
    BY <2>1, <2>2
<1>5. ASSUME NEW h \in Handlers, ClaimPayment(h) PROVE AtWork(d)'
  <2>1. pc[h] = "claim" /\ UNCHANGED <<applied, queue, attempts, wpc, wjob>>
        /\ \A k \in Handlers : k # h => pc'[k] = pc[k] /\ job'[k] = job[k]
    BY <1>5 DEF ClaimPayment, GoTo, Stop
  <2>2. \/ payment'[d] = payment[d]
        \/ payment'[d] = "pending" /\ job'[h] = d /\ pc'[h] = "call"
    BY <1>5 DEF ClaimPayment, GoTo, Stop
  <2>3. QED
    BY <1>0, <2>1, <2>2 DEF AtWork, Entrusted, Queued, Retryable, Running
<1>6. ASSUME NEW h \in Handlers, ReserveClaim(h) PROVE AtWork(d)'
  BY <1>0, <1>6, AtWorkKept DEF ReserveClaim, GoTo, Stop, Running
<1>7. ASSUME NEW h \in Handlers, PayDaily(h) PROVE AtWork(d)'
  <2>1. pc[h] = "pay" /\ UNCHANGED <<applied, queue, attempts, wpc, wjob>>
        /\ \A k \in Handlers : k # h => pc'[k] = pc[k] /\ job'[k] = job[k]
    BY <1>7 DEF PayDaily, GoTo, Stop
  <2>2. \/ payment'[d] = payment[d]
        \/ payment'[d] = "pending" /\ job'[h] = d /\ pc'[h] = "call"
    BY <1>7 DEF PayDaily, GoTo, Stop
  <2>3. QED
    BY <1>0, <2>1, <2>2 DEF AtWork, Entrusted, Queued, Retryable, Running
<1>8. ASSUME NEW h \in Handlers, NEW outcome \in Outcomes, CallMarzban(h, outcome) PROVE AtWork(d)'
  <2>1. UNCHANGED <<payment, queue, attempts, wpc, wjob>> /\ (applied'[d] = 0 => applied[d] = 0)
    BY <1>8 DEF CallMarzban, Apply
  <2>2. pc[h] = "call" /\ pc' = [pc EXCEPT ![h] = IF outcome = "ok" THEN "finalize" ELSE "fail"]
        /\ job' = job
    BY <1>8 DEF CallMarzban, GoTo, Refusing
  <2>3. QED
    BY <1>0, <2>1, <2>2 DEF AtWork, Entrusted, Queued, Retryable, Running
<1>9. ASSUME NEW h \in Handlers, Finalize(h) PROVE AtWork(d)'
  <2>1. pc[h] = "finalize" /\ UNCHANGED <<applied, queue, attempts, wpc, wjob>>
        /\ \A k \in Handlers : k # h => pc'[k] = pc[k] /\ job'[k] = job[k]
    BY <1>9 DEF Finalize, GoTo, Stop
  <2>2. payment'[d] = IF job[h] = d THEN "success" ELSE payment[d]
    BY <1>9 DEF Finalize
  <2>3. QED
    BY <1>0, <2>1, <2>2 DEF AtWork, Entrusted, Queued, Retryable, Running
<1>10. ASSUME NEW h \in Handlers, MarkUsed(h) PROVE AtWork(d)'
  BY <1>0, <1>10, AtWorkKept DEF MarkUsed, Stop, Running
<1>11. ASSUME NEW h \in Handlers, RecordError(h) PROVE AtWork(d)'
  <2>1. pc[h] = "fail" /\ UNCHANGED <<applied, queue, attempts, wpc, wjob, job>>
        /\ (\A k \in Handlers : k # h => pc'[k] = pc[k]) /\ pc'[h] \in {"fail_claim", "enqueue"}
    BY <1>11 DEF RecordError, GoTo
  <2>2. payment'[d] = IF job[h] = d THEN "marzban_error" ELSE payment[d]
    BY <1>11 DEF RecordError, ErrorOf
  <2>3. QED
    BY <1>0, <2>1, <2>2 DEF AtWork, Entrusted, Queued, Retryable, Running
<1>12. ASSUME NEW h \in Handlers, FailClaim(h) PROVE AtWork(d)'
  BY <1>0, <1>12, AtWorkKept DEF FailClaim, GoTo, Running
<1>13. ASSUME NEW h \in Handlers, EnqueueGrant(h) PROVE AtWork(d)'
  <2>1. pc[h] = "enqueue" /\ UNCHANGED <<payment, applied, attempts, wpc, wjob>>
        /\ \A k \in Handlers : k # h => pc'[k] = pc[k] /\ job'[k] = job[k]
    BY <1>13 DEF EnqueueGrant, Stop
  <2>2. CASE job[h] = d
    <3>1. \/ queue'[d] = queue[d] /\ queue[d] \in {"done", "processing"}
          \/ queue'[d] \in Waiting /\ queue[d] # "processing"
      BY <1>13, <2>2 DEF EnqueueGrant, Waiting
    <3>2. queue[d] = "done" => applied[d] >= 1
      BY DEF BooksInv, BooksMatchPanel
    <3>3. QED
      BY <1>0, <2>1, <3>1, <3>2 DEF AtWork, Entrusted, Queued, Retryable, Running
  <2>3. CASE job[h] # d
    <3>1. queue'[d] = queue[d]
      BY <1>13, <2>3 DEF EnqueueGrant
    <3>2. QED
      BY <1>0, <2>1, <2>3, <3>1 DEF AtWork, Entrusted, Queued, Retryable, Running
  <2>4. QED
    BY <2>2, <2>3
<1>14. ASSUME NEW h \in Handlers, RefundCall(h) PROVE AtWork(d)'
  BY <1>0, <1>14, AtWorkKept DEF RefundCall, GoTo, Stop, Running
<1>15. ASSUME NEW h \in Handlers, RefundMark(h) PROVE AtWork(d)'
  <2>1. pc[h] = "refund_mark" /\ UNCHANGED <<applied, queue, attempts, wpc, wjob>>
        /\ \A k \in Handlers : k # h => pc'[k] = pc[k] /\ job'[k] = job[k]
    BY <1>15 DEF RefundMark, Stop
  <2>2. payment'[d] \in {payment[d], "refunded"}
    BY <1>15 DEF RefundMark
  <2>3. QED
    BY <1>0, <2>1, <2>2 DEF AtWork, Entrusted, Queued, Retryable, Running
<1>16. CASE PollQueue
  <2>1. UNCHANGED <<payment, applied, attempts, wpc, wjob, pc, job>> /\ wpc = "idle"
    BY <1>16 DEF PollQueue
  <2>2. \/ queue'[d] = queue[d]
        \/ queue'[d] = "retrying" /\ attempts[d] < MaxAttempts
    BY <1>16 DEF PollQueue, Stale
  <2>3. QED
    BY <1>0, <2>1, <2>2 DEF AtWork, Entrusted, Queued, Retryable, Running, Waiting
<1>17. ASSUME NEW c \in Charges, TakeGrant(c) PROVE AtWork(d)'
  <2>1. UNCHANGED <<payment, applied, attempts, pc, job>> /\ wpc = "idle"
    BY <1>17 DEF TakeGrant
  <2>2. \/ UNCHANGED <<queue, wpc, wjob>>
        \/ queue'[d] = queue[d] /\ wjob' # d
        \/ queue'[d] = "processing" /\ wpc' = "call"
    BY <1>17 DEF TakeGrant
  <2>3. QED
    BY <1>0, <2>1, <2>2 DEF AtWork, Entrusted, Queued, Retryable, Running
<1>18. ASSUME NEW outcome \in Outcomes, WorkerCall(outcome) PROVE AtWork(d)'
  <2>1. UNCHANGED <<payment, queue, attempts, wjob, pc, job>> /\ (applied'[d] = 0 => applied[d] = 0)
    BY <1>18 DEF WorkerCall, Apply
  <2>2. wpc = "call" /\ wpc' # "fail_payment"
    BY <1>18 DEF WorkerCall, WorkerNext
  <2>3. QED
    BY <1>0, <2>1, <2>2 DEF AtWork, Entrusted, Queued, Retryable, Running
<1>19. CASE WorkerFinalize
  <2>1. UNCHANGED <<applied, queue, attempts, wjob, pc, job>>
        /\ wpc = "finalize" /\ wpc' # "fail_payment"
    BY <1>19 DEF WorkerFinalize
  <2>2. payment'[d] \in {payment[d], "success"}
    BY <1>19 DEF WorkerFinalize
  <2>3. QED
    BY <1>0, <2>1, <2>2 DEF AtWork, Entrusted, Queued, Retryable, Running
<1>20. CASE WorkerMarkUsed
  BY <1>0, <1>20 DEF WorkerMarkUsed, AtWork, Entrusted, Queued, Retryable, Running
<1>21. CASE MarkGrantDone
  <2>1. UNCHANGED <<payment, applied, attempts, pc, job>> /\ wpc' = "idle"
        /\ wpc = "done" /\ wjob \in Charges
    BY <1>21 DEF MarkGrantDone
  <2>2. wjob = d => applied[d] >= 1
    BY <2>1 DEF BooksInv
  <2>3. wjob # d => queue'[d] = queue[d]
    BY <1>21 DEF MarkGrantDone
  <2>4. QED
    BY <1>0, <2>1, <2>2, <2>3 DEF AtWork, Entrusted, Queued, Retryable, Running
<1>22. CASE MarkGrantFailed
  <2>1. UNCHANGED <<payment, applied, pc, job>> /\ wpc \in {"fail", "fail_only"} /\ wjob \in Charges
        /\ attempts[wjob] \in 0..MaxAttempts /\ attempts[wjob] < MaxAttempts
    BY <1>22 DEF MarkGrantFailed
  <2>2. CASE wjob = d
    <3>1. attempts'[d] = attempts[d] + 1
      BY <1>22, <2>2 DEF MarkGrantFailed
    <3>2. queue'[d] = IF attempts'[d] >= MaxAttempts THEN "failed" ELSE "retrying"
      BY <1>22, <2>2 DEF MarkGrantFailed, Exhausted
    <3>3. wpc' \in {"idle", "fail_payment"}
      BY <1>22 DEF MarkGrantFailed
    <3>4. QED
      BY <1>0, <2>1, <2>2, <3>1, <3>2, <3>3 DEF AtWork, Entrusted, Queued, Retryable, Running, Waiting
  <2>3. CASE wjob # d
    <3>1. queue'[d] = queue[d] /\ attempts'[d] = attempts[d] /\ wjob' # d
      BY <1>22, <2>3 DEF MarkGrantFailed
    <3>2. QED
      BY <1>0, <2>1, <3>1 DEF AtWork, Entrusted, Queued, Retryable, Running
  <2>4. QED
    BY <2>2, <2>3
<1>23. CASE WorkerRecordError
  <2>1. UNCHANGED <<applied, queue, attempts, pc, job>> /\ wpc = "fail_payment" /\ wpc' = "idle"
    BY <1>23 DEF WorkerRecordError
  <2>2. payment'[d] = IF wjob = d THEN "marzban_error" ELSE payment[d]
    BY <1>23 DEF WorkerRecordError, ErrorOf
  <2>3. QED
    BY <1>0, <2>1, <2>2 DEF AtWork, Entrusted, Queued, Retryable, Running
<1>24. ASSUME NEW c \in Charges, BecomeDue(c) PROVE AtWork(d)'
  BY <1>0, <1>24, AtWorkKept DEF BecomeDue, Running
<1>25. CASE RestartBot
  BY <1>0, <1>25, AtWorkKept DEF RestartBot, Running
<1>26. ~CrashBot /\ ~CrashWeb
  BY DEF CrashBot, CrashWeb, Crash
<1>27. CASE UNCHANGED vars
  BY <1>0, <1>27, AtWorkKept DEF vars, Running
<1>28. QED
  BY <1>3, <1>4, <1>5, <1>6, <1>7, <1>8, <1>9, <1>10, <1>11, <1>12, <1>13, <1>14,
     <1>15, <1>16, <1>17, <1>18, <1>19, <1>20, <1>21, <1>22, <1>23, <1>24, <1>25,
     <1>26, <1>27 DEF Next, Handle, Work

\* While no process dies and every answer of the panel is one the code reads,
\* no payment is left half way: for every number of handlers of both
\* processes, Stars, promo and daily charges, duplicates and refunds.
THEOREM NothingLeftBehind ==
  ASSUME MaxCrashes = 0, Outcomes \subseteq {"ok", "error", "late_error"}
  PROVE  Spec => []NothingAbandoned
<1>1. TypeInv /\ WorkInv => NothingAbandoned
  BY DEF TypeInv, TypeOK, Shape, WorkInv, AtWork, Entrusted, Running, NothingAbandoned, InFlight, Granting
<1>2. TypeInv /\ BooksInv /\ WorkInv /\ [Next]_vars => WorkInv'
  BY WorkInvNext
<1>3. QED
  BY <1>1, <1>2, TypeInvInit, TypeInvNext, BooksInvInit, BooksInvNext, WorkInvInit, PTL DEF Spec

=============================================================================
