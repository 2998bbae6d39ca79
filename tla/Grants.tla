------------------------------- MODULE Grants -------------------------------
(***************************************************************************)
(* The grant pipeline: from "somebody asked for, or paid for, a plan" to   *)
(* "the Marzban panel extended the account and the books say so".          *)
(*                                                                         *)
(* Two processes share one database.  The bot runs message handlers        *)
(* (bot/handlers/payments.py, start.py) concurrently with one grant-queue  *)
(* worker (bot/services/ops.py); the miniapp runs HTTP handlers            *)
(* (bot/web/main.py, bot/web/admin.py).  A step of this module is what     *)
(* happens up to and including one database commit, or one HTTP call;      *)
(* between two steps any other handler may run, and a process may die.     *)
(*                                                                         *)
(* A charge is one value of payments.charge_id.  Stars charges come from   *)
(* Telegram, promo charges are PROMO-<code>-<user>, daily charges are      *)
(* DAILY-FREE-<day>-<user>: each stands for one entitlement to one plan.   *)
(***************************************************************************)
EXTENDS Naturals, FiniteSets

CONSTANTS
    Stars, Promos, Dailies,   \* the charges, by origin
    BotHandlers, WebHandlers, \* concurrent handler invocations of each process
    NoCharge,                 \* an idle handler works on no charge
    MaxAttempts,              \* max_attempts of mark_grant_failed (5 in the code)
    Outcomes,                 \* how a Marzban call may end, see OutcomeNames
    Events,                   \* what the environment does, see EventNames
    MaxStarts,                \* bound: handler invocations per charge
    MaxCrashes                \* bound: process crashes

Charges  == Stars \cup Promos \cup Dailies
Handlers == BotHandlers \cup WebHandlers

(***************************************************************************)
(* ok           the panel applied the plan and the reply arrived           *)
(* error        MarzbanError: the panel refused, nothing was applied       *)
(* late_error   MarzbanError: an error status after the plan was applied   *)
(* lost         the plan was applied, reading the reply raised             *)
(* unreachable  the call raised (httpx), nothing was applied               *)
(***************************************************************************)
OutcomeNames == {"ok", "error", "late_error", "lost", "unreachable"}
Applying     == {"ok", "late_error", "lost"}
Refusing     == {"error", "late_error"}
EventNames   == {"duplicate", "invalid", "refund", "bot_refund"}

ASSUME ConstantsAssumption ==
    /\ Stars \cap Promos = {} /\ Stars \cap Dailies = {} /\ Promos \cap Dailies = {}
    /\ BotHandlers \cap WebHandlers = {}
    /\ IsFiniteSet(BotHandlers) /\ IsFiniteSet(WebHandlers)
    /\ NoCharge \notin Charges
    /\ MaxAttempts \in Nat \ {0}
    /\ Outcomes \subseteq OutcomeNames /\ "ok" \in Outcomes
    /\ Events \subseteq EventNames
    /\ MaxStarts \in Nat /\ MaxCrashes \in Nat

VARIABLES
    payment,   \* payments.status per charge_id, "none" before the insert
    queue,     \* grant_queue.status per charge_id, "none" before the insert
    attempts,  \* grant_queue.attempts
    due,       \* grant_queue.next_attempt_at <= now
    claim,     \* daily_free_claims.status of a daily charge's user and day
    used,      \* promo charges with a promo_uses row
    pc,        \* what each handler does next
    job,       \* the charge it works on
    seen,      \* the status it read and still acts upon
    wpc, wjob, \* the same for the queue worker
    batch,     \* rows due_grant_queue returned and the loop has not reached
    tg,        \* the Stars at Telegram: idle, approved, charged, returned
    inbox,     \* successful_payment updates Telegram has yet to deliver
    botUp,     \* the bot process runs
    starts, crashes,  \* what the bounds count
    applied,   \* history: how often the panel applied the charge's plan
    extra      \* history: how often a further application was let loose

pvars == <<payment, claim, used>>
qvars == <<queue, attempts, due>>
hvars == <<pc, job, seen>>
wvars == <<wpc, wjob, batch>>
tvars == <<tg, inbox>>
cvars == <<botUp, starts, crashes>>
gvars == <<applied, extra>>
vars  == <<pvars, qvars, hvars, wvars, tvars, cvars, gvars>>

PaymentStatus == {"none", "pending", "success", "marzban_error",
                  "validation_error", "refunded"}
QueueStatus   == {"none", "pending", "retrying", "processing", "done", "failed"}
ClaimStatus   == {"none", "pending", "success", "error"}
HandlerPC     == {"idle", "check", "claim", "reserve", "pay", "call", "finalize",
                  "mark", "fail", "fail_claim", "enqueue", "refund_call",
                  "refund_mark"}
WorkerPC      == {"idle", "call", "finalize", "mark", "done", "fail",
                  "fail_only", "fail_payment"}

Init ==
    /\ payment = [c \in Charges |-> "none"]
    /\ queue = [c \in Charges |-> "none"]
    /\ attempts = [c \in Charges |-> 0]
    /\ due = [c \in Charges |-> FALSE]
    /\ claim = [c \in Charges |-> "none"]
    /\ used = {}
    /\ pc = [h \in Handlers |-> "idle"]
    /\ job = [h \in Handlers |-> NoCharge]
    /\ seen = [h \in Handlers |-> "none"]
    /\ wpc = "idle" /\ wjob = NoCharge /\ batch = {}
    /\ tg = [c \in Charges |-> "idle"] /\ inbox = {}
    /\ botUp = TRUE
    /\ starts = [c \in Charges |-> 0] /\ crashes = 0
    /\ applied = [c \in Charges |-> 0]
    /\ extra = [c \in Charges |-> 0]

-----------------------------------------------------------------------------
(* How a handler starts, moves on and returns.                             *)

Begin(h, c, first, status) ==
    /\ pc[h] = "idle"
    /\ starts[c] < MaxStarts
    /\ starts' = [starts EXCEPT ![c] = @ + 1]
    /\ pc' = [pc EXCEPT ![h] = first]
    /\ job' = [job EXCEPT ![h] = c]
    /\ seen' = [seen EXCEPT ![h] = status]
    /\ UNCHANGED <<botUp, crashes>>

GoTo(h, next) ==
    /\ pc' = [pc EXCEPT ![h] = next]
    /\ UNCHANGED <<job, seen>>

Stop(h) ==
    /\ pc' = [pc EXCEPT ![h] = "idle"]
    /\ job' = [job EXCEPT ![h] = NoCharge]
    /\ seen' = [seen EXCEPT ![h] = "none"]

-----------------------------------------------------------------------------
(* Telegram Stars: pre_checkout approves, Telegram takes the Stars, and    *)
(* the successful_payment update waits until the bot polls it.             *)

PreCheckout(c) ==
    /\ botUp
    /\ tg[c] = "idle"
    /\ tg' = [tg EXCEPT ![c] = "approved"]
    /\ UNCHANGED <<pvars, qvars, hvars, wvars, inbox, cvars, gvars>>

TakeStars(c) ==
    /\ tg[c] = "approved"
    /\ tg' = [tg EXCEPT ![c] = "charged"]
    /\ inbox' = inbox \cup {c}
    /\ UNCHANGED <<pvars, qvars, hvars, wvars, cvars, gvars>>

\* on_successful_payment -> _grant_subscription.  A duplicate Telegram event
\* is an update that stays in the inbox after it was delivered.
OnSuccessfulPayment(h, c) ==
    /\ botUp
    /\ c \in inbox
    /\ Begin(h, c, "check", "none")
    /\ \/ inbox' = inbox \ {c}
       \/ "duplicate" \in Events /\ inbox' = inbox
    /\ UNCHANGED <<pvars, qvars, wvars, tg, gvars>>

\* /promo in the bot: the promo_uses row is inserted before the grant.
BotApplyPromo(h, c) ==
    /\ botUp
    /\ c \notin used
    /\ used' = used \cup {c}
    /\ Begin(h, c, "check", "none")
    /\ UNCHANGED <<payment, claim, qvars, wvars, tvars, gvars>>

\* POST /api/promo: the promo is validated only, promo_uses comes last.
WebApplyPromo(h, c) ==
    /\ c \notin used
    /\ Begin(h, c, "check", "none")
    /\ UNCHANGED <<pvars, qvars, wvars, tvars, gvars>>

\* /free in the bot does not look at daily_free_claims at all.
BotDailyFree(h, c) ==
    /\ botUp
    /\ Begin(h, c, "check", "none")
    /\ UNCHANGED <<pvars, qvars, wvars, tvars, gvars>>

\* POST /api/daily-free/claim: only an absent or failed claim goes on.  A
\* request the abuse checks refuse leaves none of this module's rows.
WebDailyFree(h, c) ==
    /\ claim[c] \notin {"success", "pending"}
    /\ Begin(h, c, "reserve", claim[c])
    /\ UNCHANGED <<pvars, qvars, wvars, tvars, gvars>>

-----------------------------------------------------------------------------
(* From the request to the Marzban call.                                   *)

Finished == {"success", "pending"}

\* The first read of the payment row.  A settled or running charge is
\* answered and left alone; a bot request that no longer validates leaves a
\* validation_error row behind if Stars were taken.
CheckPayment(h) ==
    /\ pc[h] = "check"
    /\ LET c == job[h] IN
       \/ /\ payment[c] \in Finished
          /\ Stop(h)
          /\ UNCHANGED payment
       \/ /\ payment[c] \notin Finished
          /\ pc' = [pc EXCEPT ![h] = "claim"]
          /\ seen' = [seen EXCEPT ![h] = payment[c]]
          /\ UNCHANGED <<job, payment>>
       \/ /\ "invalid" \in Events
          /\ payment[c] \notin Finished
          /\ h \in BotHandlers /\ c \notin Dailies
          /\ payment' = IF c \in Stars /\ payment[c] = "none"
                        THEN [payment EXCEPT ![c] = "validation_error"]
                        ELSE payment
          /\ Stop(h)
    /\ UNCHANGED <<claim, used, qvars, wvars, tvars, cvars, gvars>>

\* Mutant: a refunded charge is taken for one that may be run again.
ReclaimableRefunded(status) == status \in {"marzban_error", "refunded"}

\* Only a charge whose grant failed may be run again by a new request.
Reclaimable(status) == status = "marzban_error"

\* Mutant: the caller does not look at _was_created.
WasCreatedIgnored(c) == TRUE

\* add_payment inserts the row unless the unique index already has it.
WasCreated(c) == payment[c] = "none"

\* The second step acts on the status read by the first: a failed payment is
\* set to pending whatever it has become since, any other is inserted.
ClaimPayment(h) ==
    /\ pc[h] = "claim"
    /\ LET c == job[h] IN
       IF Reclaimable(seen[h])
       THEN /\ payment' = [payment EXCEPT ![c] = "pending"]
            /\ extra' = [extra EXCEPT ![c] = @ + 1]
            /\ GoTo(h, "call")
       ELSE IF WasCreated(c)
       THEN /\ payment' = [payment EXCEPT ![c] = "pending"]
            /\ GoTo(h, "call")
            /\ UNCHANGED extra
       ELSE /\ Stop(h)
            /\ UNCHANGED <<payment, extra>>
    /\ UNCHANGED <<claim, used, qvars, wvars, tvars, cvars, applied>>

\* The claim row of the web's daily grant: a failed claim is set to pending
\* again, a new one is inserted under the unique (user, day) index.
ReserveClaim(h) ==
    /\ pc[h] = "reserve"
    /\ LET c == job[h] IN
       IF seen[h] = "error" \/ claim[c] = "none"
       THEN claim' = [claim EXCEPT ![c] = "pending"] /\ GoTo(h, "pay")
       ELSE Stop(h) /\ UNCHANGED claim
    /\ UNCHANGED <<payment, used, qvars, wvars, tvars, cvars, gvars>>

\* Mutant: the test for a payment that is already a success is dropped.
AlreadyGrantedDropped(c) == FALSE

AlreadyGranted(c) == payment[c] = "success"

\* The web's daily grant inserts its payment after the claim, and of an
\* existing payment it only refuses one that is already a success.
PayDaily(h) ==
    /\ pc[h] = "pay"
    /\ LET c == job[h] IN
       IF WasCreated(c)
       THEN /\ payment' = [payment EXCEPT ![c] = "pending"]
            /\ GoTo(h, "call")
            /\ UNCHANGED <<claim, extra>>
       ELSE IF AlreadyGranted(c)
       THEN /\ claim' = [claim EXCEPT ![c] = "success"]
            /\ Stop(h)
            /\ UNCHANGED <<payment, extra>>
       ELSE /\ extra' = [extra EXCEPT ![c] = @ + 1]
            /\ GoTo(h, "call")
            /\ UNCHANGED <<payment, claim>>
    /\ UNCHANGED <<used, qvars, wvars, tvars, cvars, applied>>

-----------------------------------------------------------------------------
(* marzban.create_or_renew and what the handler does with its outcome.     *)

Apply(c, outcome) ==
    applied' = IF outcome \in Applying
               THEN [applied EXCEPT ![c] = @ + 1] ELSE applied

\* Only MarzbanError is caught: any other exception ends the handler.
CallMarzban(h, outcome) ==
    /\ pc[h] = "call"
    /\ Apply(job[h], outcome)
    /\ extra' = IF outcome = "late_error"
                THEN [extra EXCEPT ![job[h]] = @ + 1] ELSE extra
    /\ CASE outcome = "ok"         -> GoTo(h, "finalize")
         [] outcome \in Refusing   -> GoTo(h, "fail")
         [] OTHER                  -> Stop(h)
    /\ UNCHANGED <<pvars, qvars, wvars, tvars, cvars>>

\* finalize_grant: one commit, whatever the payment's status is by now.
Finalize(h) ==
    /\ pc[h] = "finalize"
    /\ payment' = [payment EXCEPT ![job[h]] = "success"]
    /\ IF h \in WebHandlers THEN GoTo(h, "mark") ELSE Stop(h)
    /\ UNCHANGED <<claim, used, qvars, wvars, tvars, cvars, gvars>>

\* The web's last commit: mark_promo_used, or the claim's success.
MarkUsed(h) ==
    /\ pc[h] = "mark"
    /\ LET c == job[h] IN
       IF c \in Promos
       THEN used' = used \cup {c} /\ UNCHANGED claim
       ELSE claim' = [claim EXCEPT ![c] = "success"] /\ UNCHANGED used
    /\ Stop(h)
    /\ UNCHANGED <<payment, qvars, wvars, tvars, cvars, gvars>>

\* The status update_payment_status writes after a MarzbanError.
ErrorOf(c) == "marzban_error"

RecordError(h) ==
    /\ pc[h] = "fail"
    /\ payment' = [payment EXCEPT ![job[h]] = ErrorOf(job[h])]
    /\ IF h \in WebHandlers /\ job[h] \in Dailies
       THEN GoTo(h, "fail_claim") ELSE GoTo(h, "enqueue")
    /\ UNCHANGED <<claim, used, qvars, wvars, tvars, cvars, gvars>>

FailClaim(h) ==
    /\ pc[h] = "fail_claim"
    /\ claim' = [claim EXCEPT ![job[h]] = "error"]
    /\ GoTo(h, "enqueue")
    /\ UNCHANGED <<payment, used, qvars, wvars, tvars, cvars, gvars>>

\* enqueue_grant: one row per charge; a row that is done or being worked on
\* is left alone, any other is made due now.
EnqueueGrant(h) ==
    /\ pc[h] = "enqueue"
    /\ LET c == job[h] IN
       IF queue[c] \in {"done", "processing"}
       THEN UNCHANGED qvars
       ELSE /\ queue' = [queue EXCEPT ![c] =
                            IF attempts[c] = 0 THEN "pending" ELSE "retrying"]
            /\ due' = [due EXCEPT ![c] = TRUE]
            /\ UNCHANGED attempts
    /\ Stop(h)
    /\ UNCHANGED <<pvars, wvars, tvars, cvars, gvars>>

-----------------------------------------------------------------------------
(* The grant-queue worker: grant_queue_loop / process_grant_queue_once.    *)

Waiting == {"pending", "retrying"}

\* Mutants: the query forgets the attempts, or the retrying rows.
TakeableUnbounded(c) == queue[c] \in Waiting /\ due[c]
TakeableOnce(c) == queue[c] = "pending" /\ due[c] /\ attempts[c] < MaxAttempts

Takeable(c) == queue[c] \in Waiting /\ due[c] /\ attempts[c] < MaxAttempts

\* Mutant: rows left in processing are not looked for.
StaleForgotten(c) == FALSE

\* A row left in processing is taken back when its ten minutes are over.
Stale(c) == queue[c] = "processing" /\ due[c] /\ attempts[c] < MaxAttempts

PollQueue ==
    /\ botUp /\ wpc = "idle" /\ batch = {}
    /\ batch' = {c \in Charges : Stale(c) \/ Takeable(c)}
    /\ batch' # {}
    /\ queue' = [c \in Charges |-> IF Stale(c) THEN "retrying" ELSE queue[c]]
    /\ UNCHANGED <<pvars, attempts, due, hvars, wpc, wjob, tvars, cvars, gvars>>

\* mark_grant_processing: a row that is no longer waiting is skipped.
TakeGrant(c) ==
    /\ wpc = "idle" /\ c \in batch
    /\ batch' = batch \ {c}
    /\ IF queue[c] \in Waiting
       THEN /\ queue' = [queue EXCEPT ![c] = "processing"]
            /\ due' = [due EXCEPT ![c] = FALSE]
            /\ wpc' = "call" /\ wjob' = c
       ELSE UNCHANGED <<queue, due, wpc, wjob>>
    /\ UNCHANGED <<pvars, attempts, hvars, tvars, cvars, gvars>>

\* Mutant: create_or_renew does not raise on an error status.
WorkerNextUnchecked(outcome) == "finalize"

WorkerNext(outcome) ==
    CASE outcome = "ok"       -> "finalize"
      [] outcome \in Refusing -> "fail"
      [] OTHER                -> "fail_only"

\* An outcome the worker cannot tell from a failure lets it apply the plan
\* again later; unlike a handler it survives an exception of any kind.
WorkerCall(outcome) ==
    /\ wpc = "call"
    /\ Apply(wjob, outcome)
    /\ extra' = IF outcome \in Applying \ {"ok"}
                THEN [extra EXCEPT ![wjob] = @ + 1] ELSE extra
    /\ wpc' = WorkerNext(outcome)
    /\ UNCHANGED <<pvars, qvars, hvars, wjob, batch, tvars, cvars>>

WorkerFinalize ==
    /\ wpc = "finalize"
    /\ payment' = [payment EXCEPT ![wjob] = "success"]
    /\ wpc' = IF wjob \in Promos THEN "mark" ELSE "done"
    /\ UNCHANGED <<claim, used, qvars, hvars, wjob, batch, tvars, cvars, gvars>>

WorkerMarkUsed ==
    /\ wpc = "mark"
    /\ used' = used \cup {wjob}
    /\ wpc' = "done"
    /\ UNCHANGED <<payment, claim, qvars, hvars, wjob, batch, tvars, cvars, gvars>>

MarkGrantDone ==
    /\ wpc = "done"
    /\ queue' = [queue EXCEPT ![wjob] = "done"]
    /\ wpc' = "idle" /\ wjob' = NoCharge
    /\ UNCHANGED <<pvars, attempts, due, hvars, batch, tvars, cvars, gvars>>

\* Mutant: one attempt too few.
ExhaustedEarly(n) == n + 1 >= MaxAttempts

Exhausted(n) == n >= MaxAttempts

\* mark_grant_failed: after MaxAttempts the row is failed for good, until
\* then it is due again later (min(5, attempts) minutes).
MarkGrantFailed ==
    /\ wpc \in {"fail", "fail_only"}
    /\ attempts' = [attempts EXCEPT ![wjob] = @ + 1]
    /\ queue' = [queue EXCEPT ![wjob] =
                    IF Exhausted(attempts'[wjob]) THEN "failed" ELSE "retrying"]
    /\ due' = IF Exhausted(attempts'[wjob])
              THEN due ELSE [due EXCEPT ![wjob] = FALSE]
    /\ IF wpc = "fail"
       THEN wpc' = "fail_payment" /\ UNCHANGED wjob
       ELSE wpc' = "idle" /\ wjob' = NoCharge
    /\ UNCHANGED <<pvars, hvars, batch, tvars, cvars, gvars>>

WorkerRecordError ==
    /\ wpc = "fail_payment"
    /\ payment' = [payment EXCEPT ![wjob] = ErrorOf(wjob)]
    /\ wpc' = "idle" /\ wjob' = NoCharge
    /\ UNCHANGED <<claim, used, qvars, hvars, batch, tvars, cvars, gvars>>

\* Time passes next_attempt_at.
BecomeDue(c) ==
    /\ queue[c] \in Waiting \cup {"processing"}
    /\ ~due[c]
    /\ due' = [due EXCEPT ![c] = TRUE]
    /\ UNCHANGED <<pvars, queue, attempts, hvars, wvars, tvars, cvars, gvars>>

-----------------------------------------------------------------------------
(* Refunds.  POST /api/admin/refund reads the row, asks Telegram, and then *)
(* writes; the bot's refund button asks Telegram and writes only a log.    *)

RefundStart(h, c) ==
    /\ "refund" \in Events
    /\ payment[c] \notin {"none", "refunded"}
    /\ Begin(h, c, "refund_call", "none")
    /\ UNCHANGED <<pvars, qvars, wvars, tvars, gvars>>

\* Telegram returns the Stars of a charge once; any other answer, or none,
\* ends the handler.
RefundCall(h) ==
    /\ pc[h] = "refund_call"
    /\ \/ /\ tg[job[h]] = "charged"
          /\ tg' = [tg EXCEPT ![job[h]] = "returned"]
          /\ \/ GoTo(h, "refund_mark")
             \/ "lost" \in Outcomes /\ Stop(h)
       \/ /\ tg[job[h]] # "charged" \/ "unreachable" \in Outcomes
          /\ Stop(h)
          /\ UNCHANGED tg
    /\ UNCHANGED <<pvars, qvars, wvars, inbox, cvars, gvars>>

RefundMark(h) ==
    /\ pc[h] = "refund_mark"
    /\ payment' = [payment EXCEPT ![job[h]] = "refunded"]
    /\ Stop(h)
    /\ UNCHANGED <<claim, used, qvars, wvars, tvars, cvars, gvars>>

BotRefund(c) ==
    /\ "bot_refund" \in Events
    /\ botUp
    /\ payment[c] # "none"
    /\ tg[c] = "charged"
    /\ tg' = [tg EXCEPT ![c] = "returned"]
    /\ UNCHANGED <<pvars, qvars, hvars, wvars, inbox, cvars, gvars>>

-----------------------------------------------------------------------------
(* Crashes.  Docker restarts the process; everything in memory is gone.    *)

Forget(group) ==
    /\ pc' = [h \in Handlers |-> IF h \in group THEN "idle" ELSE pc[h]]
    /\ job' = [h \in Handlers |-> IF h \in group THEN NoCharge ELSE job[h]]
    /\ seen' = [h \in Handlers |-> IF h \in group THEN "none" ELSE seen[h]]

Crash == crashes < MaxCrashes /\ crashes' = crashes + 1

\* A worker that dies after the panel applied the plan, and before its row is
\* done, leaves a row in processing that will be taken again.
CrashBot ==
    /\ botUp
    /\ Crash
    /\ botUp' = FALSE
    /\ Forget(BotHandlers)
    /\ wpc' = "idle" /\ wjob' = NoCharge /\ batch' = {}
    /\ extra' = IF wpc \in {"finalize", "mark", "done"}
                THEN [extra EXCEPT ![wjob] = @ + 1] ELSE extra
    /\ UNCHANGED <<pvars, qvars, tvars, starts, applied>>

\* delete_webhook(drop_pending_updates=True) discards what Telegram kept.
RestartBot ==
    /\ ~botUp
    /\ botUp' = TRUE
    /\ inbox' = {}
    /\ UNCHANGED <<pvars, qvars, hvars, wvars, tg, starts, crashes, gvars>>

CrashWeb ==
    /\ Crash
    /\ Forget(WebHandlers)
    /\ UNCHANGED <<pvars, qvars, wvars, tvars, botUp, starts, gvars>>

-----------------------------------------------------------------------------
Request ==
    \/ \E c \in Stars : PreCheckout(c) \/ TakeStars(c) \/ BotRefund(c)
    \/ \E h \in BotHandlers :
          \/ \E c \in Stars : OnSuccessfulPayment(h, c)
          \/ \E c \in Promos : BotApplyPromo(h, c)
          \/ \E c \in Dailies : BotDailyFree(h, c)
    \/ \E h \in WebHandlers :
          \/ \E c \in Promos : WebApplyPromo(h, c)
          \/ \E c \in Dailies : WebDailyFree(h, c)
          \/ \E c \in Stars : RefundStart(h, c)

Handle(h) ==
    \/ CheckPayment(h) \/ ClaimPayment(h) \/ ReserveClaim(h) \/ PayDaily(h)
    \/ \E outcome \in Outcomes : CallMarzban(h, outcome)
    \/ Finalize(h) \/ MarkUsed(h)
    \/ RecordError(h) \/ FailClaim(h) \/ EnqueueGrant(h)
    \/ RefundCall(h) \/ RefundMark(h)

Work ==
    \/ PollQueue
    \/ \E c \in Charges : TakeGrant(c)
    \/ \E outcome \in Outcomes : WorkerCall(outcome)
    \/ WorkerFinalize \/ WorkerMarkUsed \/ MarkGrantDone
    \/ MarkGrantFailed \/ WorkerRecordError

Next ==
    \/ Request
    \/ \E h \in Handlers : Handle(h)
    \/ Work
    \/ \E c \in Charges : BecomeDue(c)
    \/ CrashBot \/ RestartBot \/ CrashWeb

Spec == Init /\ [][Next]_vars

(***************************************************************************)
(* The event loop runs every handler and the worker's loop, time passes,   *)
(* Telegram offers its updates to a polling bot, docker restarts a dead    *)
(* bot.  Nobody is obliged to ask for anything or to crash.                *)
(***************************************************************************)
Fairness ==
    /\ \A h \in Handlers : WF_vars(Handle(h))
    /\ WF_vars(Work)
    /\ \A c \in Charges : WF_vars(BecomeDue(c))
    /\ \A c \in Stars : WF_vars(\E h \in BotHandlers : OnSuccessfulPayment(h, c))
    /\ WF_vars(RestartBot)

FairSpec == Spec /\ Fairness

-----------------------------------------------------------------------------
(* Who still may apply charge c, or change what the books say of it.       *)

Granting(h, c) ==
    /\ job[h] = c
    /\ \/ pc[h] \in {"call", "finalize", "fail", "fail_claim", "enqueue"}
       \/ pc[h] = "claim" /\ Reclaimable(seen[h])

Retryable(c) == queue[c] \in Waiting /\ attempts[c] < MaxAttempts

Queued(c) == Retryable(c) \/ queue[c] = "processing"

InFlight(c) == Queued(c) \/ wjob = c \/ \E h \in Handlers : Granting(h, c)

Settled(c) == payment[c] \in {"success", "refunded"} /\ ~InFlight(c)

-----------------------------------------------------------------------------
\* Every variable holds a status, a counter or a program position of the code.
TypeOK ==
    /\ payment \in [Charges -> PaymentStatus]
    /\ queue \in [Charges -> QueueStatus]
    /\ attempts \in [Charges -> 0..MaxAttempts]
    /\ due \in [Charges -> BOOLEAN]
    /\ claim \in [Charges -> ClaimStatus]
    /\ used \subseteq Promos
    /\ pc \in [Handlers -> HandlerPC]
    /\ job \in [Handlers -> Charges \cup {NoCharge}]
    /\ seen \in [Handlers -> PaymentStatus \cup ClaimStatus]
    /\ wpc \in WorkerPC
    /\ wjob \in Charges \cup {NoCharge}
    /\ batch \subseteq Charges
    /\ tg \in [Charges -> {"idle", "approved", "charged", "returned"}]
    /\ inbox \subseteq Stars
    /\ botUp \in BOOLEAN
    /\ starts \in [Charges -> 0..MaxStarts]
    /\ crashes \in 0..MaxCrashes
    /\ applied \in [Charges -> Nat]
    /\ extra \in [Charges -> Nat]

\* The books never claim a grant the panel has not applied: a success payment,
\* a done queue row or a success daily claim means the plan was applied.
BooksMatchPanel ==
    \A c \in Charges :
        payment[c] = "success" \/ queue[c] = "done" \/ claim[c] = "success"
            => applied[c] >= 1

\* A charge is applied once, plus at most once for each time the code let a
\* further application loose: a new request that took over a charge already
\* queued or running, an answer that hid an applied plan, a worker that died
\* between the panel's reply and mark_grant_done.
NoUnaccountedGrant == \A c \in Charges : applied[c] <= 1 + extra[c]

\* README.md:250, duplicate Telegram events never grant twice.
GrantedOnce == \A c \in Charges : applied[c] <= 1

\* No payment is abandoned half way: one that is pending has a handler at work
\* on it, and one whose grant failed and was never applied is being queued,
\* waits in the queue, is with the worker, or is out of attempts.
NothingAbandoned ==
    \A c \in Charges :
        /\ payment[c] = "pending" =>
              \E h \in Handlers : job[h] = c /\ pc[h] \in {"call", "finalize", "fail"}
        /\ payment[c] = "marzban_error" /\ applied[c] = 0 /\ attempts[c] < MaxAttempts
              => InFlight(c)

\* The idempotency the charge id buys: once a charge is settled, no
\* redelivered update, repeated click, queue pass or restart grants it again
\* or makes its payment anything but refunded.
SettledIsFinal ==
    [][\A c \in Charges :
          Settled(c) => /\ Settled(c)'
                        /\ applied'[c] = applied[c]
                        /\ payment'[c] \in {payment[c], "refunded"}]_vars

\* What a charge's story has come to, and the promise the pipeline keeps: its
\* handlers, queue, refunds and crashes only do what Entitlement allows.
StatusOf(c) ==
    IF ~Settled(c) THEN "open"
    ELSE IF payment[c] = "success" THEN "granted" ELSE "refunded"

Story == [c \in Charges |-> StatusOf(c)]

Promise == INSTANCE Entitlement
    WITH grants <- applied, allowance <- extra, status <- Story

KeepsPromise == Promise!Spec

\* A queue row counts up to MaxAttempts and ends done or failed; the worker
\* never gives up on it before, whatever crashes or fails in between.
QueueDrains == \A c \in Charges : Queued(c) ~> ~Queued(c)

\* Stars that were taken are answered while no process dies and Marzban
\* answers: the plan is applied, the payment is marked for a refund, or the
\* grant runs out of attempts.
ChargedIsAnswered ==
    \A c \in Stars :
        tg[c] = "charged" ~> \/ applied[c] >= 1
                             \/ payment[c] = "validation_error"
                             \/ attempts[c] = MaxAttempts

=============================================================================
