# Vex VPN bot: TLA+ models and proofs

This directory models the behaviour of the Vex VPN Telegram bot and miniapp
(`src/bot/`): how a paid or free plan becomes a working VPN account, what the
database says about it, and what happens when handlers overlap, calls fail and
processes die. The modules are checked by TLC on small instances; the safety
properties that matter most are proved with TLAPS for every value of the
constants. `PROJECT.json` lists the runs, the source lines each definition
stands for, the hazards, and the theorems.

## The system

Two processes share one PostgreSQL database. The **bot** (`bot/main.py`) polls
Telegram and runs one task per update, and beside them four loops: reminders
(30 min), first connect (5 min), grant queue (60 s), monitoring (5 min). The
**miniapp** (`bot/web/main.py`, `bot/web/admin.py`) is a FastAPI server with
one task per request. Both call the external **Marzban** panel over HTTP and
**Telegram**; the miniapp may use **Redis** for rate limits. Docker restarts
either process when it dies. Sessions are short: a handler opens one, commits,
closes it, awaits an HTTP call, and opens another, so nearly every decision is
made on state read before an await.

| Component | State | Operations | Interacts through | Hard behaviour | What makes it correct |
|---|---|---|---|---|---|
| Grant pipeline (`handlers/payments.py`, `start.py`, `services/ops.py`, `web/main.py`, `db/repo.py`) | `payments`, `grant_queue`, `daily_free_claims`, `promo_uses` | Stars payment, promo, daily claim; queue worker; refund | charge id shared by handlers of both processes and the worker | redelivered updates, lost answers, crash between panel and commit, refund beside a grant | applied once per charge up to accounted causes; books match the panel; settled is final; the queue drains |
| Marzban client (`services/marzban.py`) | panel accounts, `subscriptions`, token, usage cache | create_or_renew, status, revoke, delete, reset, usage | every grant, both processes, admins | read-modify-write over HTTP, swallowed errors, stale snapshots | nothing given away; a renewal worsens nothing; one account that the row names |
| Gamification (`services/gamification.py`) | `gamification_state`, `bonus_claims` | check-in, wheel, badges | rewards go through create_or_renew | reservation, two-commit rollback, midnight | one reward per day; a streak is earned |
| Promo codes, invoices, trials (`services/promos.py`, `handlers/payments.py`, `start.py`, `web/main.py`) | `promo_codes`, `promo_uses`, `users.active_promo_code`, `users.trial_used` | apply, invoice, pre-checkout, reserve, mark, clear | invoice and payment, grant pipeline, wheel prize | check at invoice, use after the grant | limits hold for reserved codes; a once-per-user discount and the trial are had once |
| Referral (`handlers/payments.py:254`, `repo.py:203`) | `users.referred_by`, `users.referral_rewarded` | link, reward | after a paid grant, another user's account | mark before grant, cap by count | earned, once per friend, capped per referrer |
| Reminders, first connect, offers (`bot/main.py`) | `reminder_logs`, usage checkpoints, `bot_events` | query, send, then mark | Telegram, panel | crash between send and mark, window against pause, changes of a session nobody commits | sent once but for faults; none skipped; alerts throttled; users welcomed |
| Rate limits (`web/rate_limit.py`) | a counter in Redis, a list per worker in memory | require | every API call | window boundary, fallback, lost EXPIRE | a quota per window of either kind; askers get through |
| Support (`handlers/profile.py`, `handlers/admin.py`, `web/*`) | `support_tickets`, `support_messages`, `users.support_state`, pending replies in memory | open, reply, close | user and staff, both processes | handlers change a row they loaded before another commit | what is confirmed is stored; replies go where they were aimed; status follows the thread |
| Admin panel and bot admin (`web/admin.py`, `handlers/admin.py`) | audit log, broadcast previews in memory | manual grant, switches, broadcast | panel, Telegram | TTL, restart, double tap | a preview is sent at most once, within 30 minutes |
| Miniapp cabinet, gateway, init-data check, monitoring, bootstrap, UI, deployment | counters, caches, logs | read mostly | | | see "Not modelled" |

## Modules

| Module | Models | Builds on |
|---|---|---|
| `Entitlement` | abstract: what is promised of a charge | |
| `Grants` | the grant pipeline in full | implements `Entitlement` |
| `Subscription` | abstract: what a user is promised of an account | |
| `Accounts` | one user's panel accounts and local row | implements `Subscription` |
| `Gamification` | check-in and wheel of one user | |
| `Purchases` | discount codes, free codes, invoices, trials, referral bonuses of several users | |
| `Support` | tickets, pending replies, broadcasts | |
| `Reminders` | the reminders of one subscription, in ticks of the clock | |
| `UsageWatch` | traffic, alerts, offers and welcomes of several users | |
| `PanelSession` | token, locks and caches of one process's panel client | |
| `RateLimits` | one key's quota over several workers | |
| `MC` + name | the instance TLC checks, one per module above except the two abstract ones | |
| `GrantsProofs`, `AccountsProofs`, `GamificationProofs`, `PurchasesProofs`, `SupportProofs`, `PanelSessionProofs`, `RateLimitsProofs` | theorems | the module of the same name |
| `RemindersProofs` | theorems about both halves of `reminder_loop` | `Reminders`, `UsageWatch` |

The modules describe one program from different sides. `Accounts` is what a
panel call of `Grants` does to the account, `PanelSession` how that call gets
its token, `Purchases` who was entitled to ask for it, `Reminders` what its
expiry sets going, `RateLimits` what comes before any of it.

A step of every module is one database commit (with the reads of its session)
or one HTTP call. Between two steps any other handler may run, and where the
module has crashes, a process may die. Operators marked *Mutant* in a module
are wrong variants of their neighbour; nothing uses them, they show that a
property would notice the mistake.

### Grants

A charge is a value of `payments.charge_id`: a Stars charge, `PROMO-<code>-<user>`
or `DAILY-FREE-<day>-<user>`. `payment`, `queue`/`attempts`/`due` and `claim` are
the rows keyed by it, `used` the `promo_uses` of gift codes. Handlers have a
program counter `pc`, the charge in hand `job`, and `seen`, the status they
read before an await and still act upon. The worker is `wpc`/`wjob`, with
`batch` the rows its query returned. `tg`/`inbox` are Telegram's side. The
history variables `applied` and `extra` count applications of the plan and the
events that let a further one loose: a request that takes over a charge already
queued or running, an answer that hides an applied plan, a worker that dies
between the panel's answer and `mark_grant_done`.

One action per step: `CheckPayment`/`ClaimPayment` (`_grant_subscription`,
`_grant_daily_free`, `apply_promo`), `ReserveClaim`/`PayDaily`
(`daily_free_claim`), `CallMarzban` with five outcomes, `Finalize`
(`finalize_grant`), `MarkUsed`, `RecordError`/`FailClaim`/`EnqueueGrant` (three
commits), the worker's `PollQueue`, `TakeGrant`, `WorkerCall`, `WorkerFinalize`,
`WorkerMarkUsed`, `MarkGrantDone`, `MarkGrantFailed`, `WorkerRecordError`; the
miniapp's refund in three steps and the bot's in one; `CrashBot`, `RestartBot`
(which drops pending updates, `main.py:255`), `CrashWeb`.

`Entitlement` says what this amounts to for a charge: while open it is served
at most once plus its allowance; it closes as granted only if it was granted,
or as refunded; closed it stays, except that a granted one may be refunded.
`Grants!KeepsPromise` is the refinement, with `Story` deriving the abstract
status from the payment, the queue row and who is still at work on the charge.

Simplifications. `due_grant_queue`'s limit and order become the set `batch`.
`enqueue_grant`'s select and write are one step. A row's lease of ten minutes
and back-off of `min(5, attempts)` minutes are the flag `due`, set by
`BecomeDue` at any moment: also while the worker still holds the row, which a
call of 20 s cannot reach but which only adds behaviour. Failing commits of the
handlers act as the handler dying at that point (`lost`, `unreachable`, a
crash). `ADMIN-` and `TEST-` rows are left out: they do not use the pipeline.

### Accounts

`account` is the panel's user per name, `sub` the `subscriptions` row. A call
runs `lookup` (`_stored_username`, which swallows a database error), `probe`
(the legacy name, also swallowing errors, else a random name), `read`
(`get_user`), `write` (`PUT` or `POST` computed from the snapshot `snap` and the
time `began`), `record` (`finalize_grant`/`upsert_subscription`). `set_status`,
`revoke_sub` and `delete_user` go `lookup`, `operate`, and for the latter two
`record`. Days and traffic are small numbers; limit 0 is unlimited, as on the
panel. `link` counts revocations of the subscription token. `credit` and
`source` are histories of what all applied grants brought; `alone` has the call
in flight if no other was in flight at any time during it, `calm` says that no
calls ever overlapped and nothing failed.

A refused call is one the panel answered, or that never arrived, without
effect; `lost` took effect and raised. A random name is never drawn twice (96
random bits), and the requests that probe it are part of the draw.
`reset_traffic` clears a counter that nothing here reads; what it does to the
cache is in `PanelSession`.

`Subscription` says what this amounts to, without names, requests and
snapshots: an operation is asked for, takes effect at once and as a whole or is
refused and changes nothing, and then the row follows; a plan counts from the
day it was asked for and comes on top of what is there. `Accounts` implements it
(`ServedInTurn`): `Held` is the one account there is, `InHand` the one call at
work; looking for the name and reading the account are stuttering steps, `Write`
and `Operate` are the effect. The promise covers calls that come one after the
other without a failure that hides an effect (`calm`), refusals included. It ends
with the first overlap or lost answer, which the code does not recover from in
general: what holds then is `NothingIsFree`, `NeverWorse` and the second half of
`RowIsTrue`.

### Gamification

`rows` are the `bonus_claims` of one user per kind and day, `gami` the state
row (absent until `made`). A request reserves, reads the state (`mem`), writes
it (`prev` keeps the old streak), grants, and records; a refused reward is
undone in two commits, state then claim. SQLAlchemy writes only changed columns
(`Written`), which is why overlapping requests lose some updates and not
others. `hidden` counts rewards that were applied and reported as a failure.
The badges are left out (idempotent inserts without a reward); picking a
segment is free choice; `SpinDays` bounds the days with spins; the upsert of
the subscription is part of `GrantReward`.

### Purchases

Who may have what at which price. `Grants` follows one charge through every
handler that may touch it; here each charge has one handler, and the subject is
what the charges of all users share: `uses` (`promo_uses`), `active`
(`active_promo_code`), `trialUsed`, `rewarded` (`referral_rewarded`), and the
prices, visible plans and enabled codes an admin edits between any two steps.

A purchase goes `Invoice` (`send_invoice`, `create_invoice_link`),
`PreCheckout`, `TakeStars`, `OnSuccessfulPayment`, `CallMarzban`, `Finalize`,
`MarkPromoUsed`, then `ReadReward`, `MarkReward` (`reward_referral_once`, its
read and its commit) and `GrantBonus`. A free code goes `BotPromo`,
`ReservePromo` (`reserve_promo_for_user`, one step because it holds the code's
advisory lock), `GrantReserved`, or through the miniapp `WebPromo`, which only
validates. `bill` is what the invoice payload says; `Valid` is
`validate_promo_for_user`, `PurchaseAllowed` is `_validate_plan_for_user`.
A refused panel call queues the grant; the worker is the same handler again,
marked by `retried`, which skips the reward and marks a code the bot has
reserved. `Die` is a process death or an uncaught exception.

Four histories say where a right could be had twice although every check was
made: `sharedCode` and `sharedTrial` hold the charges accepted while another
one with the same user and code (or a trial of that user) was accepted and had
not used it up, `dead` the ones whose handler died in between, and
`sharedReward` the purchases whose reward was read while another for the same
referrer was read and not committed. The properties count everything else, so
each of them says that the overlap named is the only way.

Simplifications. An invoice is paid once (what Telegram redelivers is in
`Grants`). The panel either applies the plan or refuses; lost answers are in
`Grants`. Edits of a code's terms and of a tariff's `is_trial` or
`traffic_only` are left out, as is the second entry of a multi-use free code,
whose charge id is that of the first. `HasPaid` counts successful charges of
this module; a daily free plan counts as one in the code, too.

### Support

A ticket is `owner`, `status` and `thread`; a text is a number with its author.
A handler is a job that goes `create` or `load`, then `clear` (the user's
`support_state`), `reopen`, `add` or `close`, and `answer`, where its author is
told. `CollectSupportProblem` is the bot's side of a user, `SupportRequest` the
miniapp's; `AdminText` and `PopPendingReply` are the filter and the body of
`admin_reply_collect`; `TicketReply` is the web panel. The point of the module
is `Commit`: SQLAlchemy writes an attribute only if it differs from what the
session loaded (`seen`), so a handler whose copy was overtaken may leave the
status of somebody else. `last` is the last operation, or `raced` for those.

`pending` and `draft` are `_PENDING_REPLY` and `_PENDING_BROADCAST`; both are
tidied whenever one is used, and a restart of the bot forgets them. `aim`
numbers the presses of the reply button and `pressed` keeps the ticket of each;
`stage` and `got` follow a broadcast.
Tickets without messages (from before the threads) may exist at the start.

Simplifications. Texts, closes, presses and previews share the bound
`MaxInputs`. Entries grow old at any moment. The filter is taken to run on the
event loop, alone between two awaits; aiogram, which calls it, is external.
The limit of an admin's
requests (`_admin_limited`, 30 s) is left out: it only refuses.

### Reminders

One subscription as `reminder_loop` sees it, in ticks of five minutes with the
numbers of `config.py`: `left` until its end, `log` what `reminder_logs` holds
by kind and `expiry`. A pass asks for one kind after the other (`Ask`), sends,
marks, and pauses (`EndPass`). Other subscriptions appear as the time a pass
takes (`PassBudget`) and as passes they abort (`PassFails`): after a rollback
the objects of the session are expired, and the handler of the exception raises
again on touching one. `armed` are the kinds whose window the expiry still has
ahead of it, so that a plan shorter than a reminder's hour owes none.

Left out: a subscription due for two kinds in one pass, with a renewal between
the two queries, keeps the expiry the session loaded first (identity map).

### UsageWatch

The second half of that pass, whose one session carries changes from
subscription to subscription: `dirty` is what it holds, `Commit` is any commit
of it, `Close` loses the rest. `connect` follows `first_connect_loop` from the
first use to `first_connect_notified_at`, `Batch` is its query with `Limit`.
How much traffic somebody has used, and who has bought something, is open at
every question. `Reminders` and `UsageWatch` are halves of one loop and share no
name: the theorems about both are in one module (`mishaps` here are the
`faults` there).

### PanelSession

The token (`token`, `fresh`), its lock `auth` as the queue an asyncio lock is,
`_servers_lock` as `nodes`, and the cache of one account's usage.
`servers_online` takes the time before it waits for its lock and compares that
time under the lock: `timely` are the waiting calls that came before
`_servers_exp` and will return the kept count, also one that has expired since.
The count a call makes is kept until five minutes after that call came, so it
may be past when it is stored, for new calls and for the last in line. A task goes
`header`, then `sent` or through `lock` and `auth`; a 401 sends it to `lock401`,
`auth401` and `resent` (`_request`). A version number stands for the account's
contents; `Answer` is what the panel told, with its age. `promised` is the
newest version a caller has heard of, and an answer is `raced` if its call was
under way while a change invalidated the cache. Ages take the place of a clock
and saturate at `MaxAge`. One process; the other one has a session of its own
and learns of nothing.

### RateLimits

One key: `count` and `ttl` in Redis, `bucket` per worker. `Count` is INCR and
TTL in one transaction, `Expire` the EXPIRE that the first request of a window
sends after it; `RedisFails` covers both, before or after Redis has obeyed.
`shared` and `own` are histories of what passed, by age. The client is
synchronous, so a worker serves one request at a time and, its commands timing
out after 0.4 s, no tick falls between two of them. The counter saturates at
`Limit + 1`. A bucket is trimmed from the left up to the first recent time
(`Outdated`), as the code's loop does, whatever its order. A restart of Redis,
which empties the counter, is left out.

## Runs

| Run | Question | Instance |
|---|---|---|
| `MCGrants_paid` | under every fault, does a paid charge keep the `Entitlement`, and do the books claim only what the panel applied? | one Stars charge, 2 bot + 1 web handlers, 3 invocations, 2 attempts, 1 crash, all outcomes and events |
| `MCGrants_daily` | the same plan asked for in bot and miniapp: is every extra grant accounted for, is settled final, does the queue drain? | one daily charge, 1 + 2 handlers, 3 invocations, all outcomes, 1 crash, fairness |
| `MCGrants_answered` | without deaths and lost answers, is taken money always answered and nothing abandoned? | a Stars charge and a promo sharing the worker, duplicates, late validation errors, fairness |
| `MCGrants_x_once` | the README claim the code breaks | smallest instance that shows it |
| `MCAccounts` | what do overlapping calls leave of an account, and do calls in sequence keep `Subscription`? | 2 callers, 3 calls, 4 plans, 4 names, 1 fault, 1 day |
| `MCGamification` | one reward a day, honest progress | 2 requests at a time, 4 days, goal 3, 1 fault |
| `MCPurchases` | are discounts, trials, reserved codes and bonuses had as often as they may be? | 2 users with 1 link, 2 charges, a plan, a trial, a 30 % code, a free trial code for one user, both doors, 1 edit, 1 fault |
| `MCSupport` | is what was confirmed in the right ticket, and does every pending entry work once? | 1 user, 1 admin, 2 tickets, 2 bot + 1 web tasks, 3 inputs, 1 crash |
| `MCReminders` | is every reminder sent, and once, as far as its window has room for the faults? | the code's numbers in 5-minute ticks: 24 h and 3 h, ±35 min, 90 min, pause 30 min, pass up to 5 min; 1 renewal, 2 faults |
| `MCUsageWatch` | are alerts throttled, messages not repeated, users welcomed? | 2 subscriptions, 1 guest, a batch of 1, 1 fault, fairness |
| `MCPanelSession` | does a request always have a token, is served usage true, does every call end? | 2 tasks, max_age of 2 ticks, 1 change, 1 forgotten token, fairness |
| `MCRateLimits` | what does the limit come to, and can it lock somebody out? | 2 workers, 2 requests per 2 ticks, 1 death, fairness |

Why the bounds are enough. Charges interact only through the single worker,
which holds one at a time, so one charge with every pair of handlers is the
interesting case, and `MCGrants_answered` adds the second that competes for the
worker; two attempts reach first failure, retry and exhaustion (the code's 5
adds retries of the same kind); three invocations allow a duplicate, a
take-over and a late request. Three calls on an account are two that overlap
and one that must cope with the result. Four days with a goal of three include
a streak that is kept, broken and rewarded. Two charges are all that a right
had twice needs: two purchases of one user, two friends of one referrer, or two
users of a code for one; the referral cap is one, so that the second bonus
meets it. Three inputs are a press and two texts, or a ticket, a reply and a
close; that they suffice for what `SupportProofs` covers needs no argument. The
reminder run needs no scaling: its numbers are the code's. A batch of one is
full with one subscription, as the code's 300 are with 300. Two tasks meet in
both locks, with the third kind of call in the place of either. Two workers,
two requests and two ticks have a boundary in the middle of a window and a
quota that either kind of memory can fill. Handlers of a process are
interchangeable (`SYMMETRY`), used in runs without liveness.

Deadlock is checked where the clock always goes on (`MCReminders`,
`MCUsageWatch`, `MCPanelSession`, `MCRateLimits`); in the other runs the
bounded environment may stop asking. What must not get stuck there is said by
liveness properties or by invariants about who is at work.

Fairness (`FairSpec`). `Grants`: the event loop runs every started handler and
the worker's loop, time passes, Telegram offers an update to a polling bot
until it is taken, docker restarts a dead bot (`restart: unless-stopped`). All
weak; no request, crash or fault is ever obliged to happen, and no outcome of a
call is favoured. `UsageWatch`: `first_connect_loop` keeps making passes and
Telegram takes its message in the end. `PanelSession`: a task that can go on
goes on; httpx gives every request a timeout, so a request ends one way or
another. `RateLimits`: a request is served, and time passes: the tick is
strongly fair, because requests that never leave a gap between INCR and EXPIRE
must not stop the clock. `AskersGetThrough` therefore has the premise that such
gaps recur (`[]<>Calm`), besides the asking itself.

## Theorems

All hold for every number of charges, handlers, callers, names, days, attempts,
faults and crashes, under the named assumptions of each module
(`ConstantsAssumption`: disjoint sets, finite handler sets, natural bounds).
Only `NothingLeftBehind` has a hypothesis of its own. Every module but the
two abstract ones has its type invariant proved (`TypeCorrect`), and every
safety property its run checks.

Each proof has the same shape: an invariant that is inductive, one step per
action, framing lemmas that say what a step leaves alone (`Untouched`,
`Undisturbed`, `Steady`, `StreakKept`, `NothingLost`), and a temporal last step.
The inductive invariants were checked by TLC on small instances first.

### `GrantsProofs`

* `TypeCorrect`: the invariant adds `Shape`, which program positions go with
  which kind of handler and charge.
* `BooksCorrect` (`BooksMatchPanel`): `BooksInv` adds that whoever is about to
  write a success (`finalize`, `mark`, `done`) works on an applied charge.
* `SettledCorrect`: a settled charge has nobody at work on it, and every action
  that could reopen it is refused by its guard.
* `GrantsAccounted` (`NoUnaccountedGrant`): the applications so far plus the
  handlers and the worker that may still apply are at most one plus `extra`.
  That count of runners over a finite set is what makes the property inductive.
* `PromiseKept`: `Spec => KeepsPromise`, the pipeline implements `Entitlement`,
  from the theorems above and a lemma that a step changes each counter by at
  most one (`CountsNext`).
* `NothingLeftBehind` (`NothingAbandoned`), for `MaxCrashes = 0` and panel calls
  that end in an answer or an error the code catches, which is what the run
  assumes, too: a death or an uncaught timeout does leave payments behind, see
  below. `AtWork` follows a charge from the handler that has it in hand, over
  its three commits after a failure, to the queue row (`Entrusted`); it needs
  `BooksInv` for the worker, which drops a row only when its charge is applied,
  put back, or out of attempts.

### `AccountsProofs`

* `TypeCorrect`; `GrantsArePaid` (`NothingIsFree`): whatever overlaps, no account
  outruns the sum of all applied grants, in days or in traffic. `Covered` is
  kept by snapshots, too: the credit only grows, so a stale snapshot is still
  covered, and what is computed from it is covered with the new plan's credit.
* `NothingWorsened` (`NeverWorse`): `AloneInv` says that the snapshot of a call
  that ran alone is the account; whatever another call writes ends its being
  alone first.
* `RowsAreTrue` (`RowIsTrue`): `InTurn` (while calm there is one call at a time),
  `Mapped` (the row names the one account there is and describes it) and `Due`
  (what the call in flight will store is what the panel holds). `Mapped` does not
  hold between a call's write and its record; there `Due` takes its place.
* `ServiceKept`: `Spec => ServedInTurn`, the client implements `Subscription`.
  `ServiceInv` joins the invariants of the two theorems before, so that the
  snapshot a write computes from is the account held, and adds `InHandInv`: a
  traffic package that is about to write has read an account, and a revocation
  keeps the row it was admitted for. One lemma per action (`BeginServes`,
  `FindServes`, `WriteServes`, `OperateServes`, `RecordServes`) names the step of
  the service it is; once the calm is over, every step is `Trouble`.

### `GamificationProofs`

* `TypeCorrect`; `RewardedOnce`: `Single` says that a claim is held by one
  request at most, that a held claim is reserved, and that before its reward is
  given no reward but a hidden one was.
* `ProgressCounts` (`ProgressIsEarned`): while calm, requests at work are of
  today (`OfToday`), so that by `Single` one check-in and one spin are at work
  at most (`OneAtWork`), and each writes fields that the other leaves alone
  (`Committed`). `StreakInv` says what the state row holds: what the claims say
  (`Earned`), or, between the write of a check-in and its record or rollback
  (`Ahead`), that of the state before it and one more. `RunGrows` computes the
  run of days that a new claim ends, `RunFills` turns its length back into days.

### `PurchasesProofs`

* `TypeCorrect`: its invariant adds `Billed`, which program positions a purchase
  and a free code can be at and whom they are billed to.
* `LimitHeld`: `Reserved` says that the bot works only on codes it has reserved
  and that no purchase carries a free code, so only `ReservePromo` adds a
  holder, and it has just counted them.
* `RightsOnce` (`HadOnce`): `Booked` says that an accepted purchase is under way,
  dead, or has used up its code and trial; a second acceptance therefore is
  refused, or shared.
* `BonusEarned`: `Earned` carries status, amount and referrer from the grant to
  the bonus, and no two purchases of a friend are candidates unless their reads
  overlapped.
* `UsesAreGranted` (`UseMeansGrant`): a handler that is about to mark a code
  works on a successful charge of it (`Marked`), and a use that is not reserved
  keeps the charge it came from (`UsesSettled`).
* `FriendsCapped` (`NewFriendsCapped`): `Heirs` are the charges that have been
  granted a bonus or are about to be. Outside the overlapping ones each belongs
  to a friend of its own, who is marked or was counted by the read
  (`HeirsCounted`, an injection), and a read lets one in only below the cap
  (`CapRead`).

### `SupportProofs`

* `BroadcastsOnce`: a current draft is a preview of its own that is still shown,
  and only what is confirmed has recipients or sent messages (`DraftsShown`,
  `SentOfConfirmed`).
* `RepliesAsAimed`: a press of the button lives in one place at a time, the
  memory, a job or a ticket (`OnTheWay`, `Arrived`); each step moves it on or
  drops it. Wherever it is, it is for the ticket it was pressed under
  (`PressInv`).
* `StatusIsDue`: a commit over the loaded status leaves what its operation is due.
* `TextsAreKept` (`AcknowledgedIsStored`): `KeepInv` says that nobody is sent to
  a ticket that was not made, or to another's (`Known`), that no two jobs or
  places hold the same text (`Apart`), and what a job has found and stored by
  where it is (`AtWork`). Threads are therefore no longer than the inputs are
  many (`ThreadsAreShort`, the pigeonhole principle), which the type invariant
  needs as well.

### `RemindersProofs`

* `OneReminder` (`RemindedOnce`): a sending is filed, waits to be filed, or is
  lost to a fault (`FewLost`). The property counts the sendings that another one
  followed, as a set, because a sum over kinds is beyond the provers.
* `NothingSkipped` (`NoReminderSkipped`): for each kind still to be sent, the
  longest time until it is asked for (`Wait`, by where the loop is) and the time
  since its window opened (`Late`) together stay within what the faults so far
  and one more question may take (`Patience`); the window is wider than that.
  The proof found that a restart, which may take as long as a pass, had not
  been allowed for where it takes longer than the pause; `Fits` now reckons
  with the longer of the two (`Idle`). With the code's numbers they do not
  differ.

Of `UsageWatch`:

* `WatchTypeCorrect`; `AlertsAreThrottled`: who was alerted recently is resting,
  or the alert waits in the session, or it lapsed; only the end of a session
  lets one lapse.
* `OneSending` (`SaidOnce`): as for reminders, once per loop (`FewGone`), because
  a death of the bot can cost each of the two loops a message.

### `PanelSessionProofs`

* `RequestsCarryTokens`; `ServedUsage`: `TruthInv` says of every answer on its
  way to the cache what the property says of the cache: it is no older than the
  timestamp taken before its request, and behind a promise only if a change
  overtook its call. Neither a bound on changes nor on tasks is used.
* `TypeCorrect` says more than types. `AuthLine` and `NodesLine`: whoever is
  under a lock is the head of its line, so that leaving takes the right task
  out of it, and the line has those who wait, each once. `VersionInv`: a version
  of the account needs a change that was asked for and is no longer under way.

### `RateLimitsProofs`

* `QuotaHeld` (`QuotaHolds`). A worker's memory (`Remembered`): its counted
  requests correspond one to one to entries of its bucket of the same age
  (`Holds`), which trimming keeps, since it drops only what is older than a
  window, and which has room for the limit. Redis (`WindowInv`): what has passed
  in the window that is running, together with those who have counted and are
  about to set the expiry, is no more than the counter and the limit
  (`Running`), and what is older belongs to the window before, so that a stretch of
  a window's length meets two; without an expiry one limit at most has passed
  (`Pausing`). A lost EXPIRE only makes the window
  longer. The total of a history is stated as the number of its requests, each
  an age and a number, because a sum over ages is an induction over data.
* `TypeCorrect`: a bucket never holds more than the limit, and a worker that is
  about to set the expiry has counted. No run checks it:
  a bucket that outgrew the limit would break `QuotaHolds`, too.

### Only model-checked

Liveness (`QueueDrains`, `ChargedIsAnswered`, `UsersAreWelcomed`, `CallsEnd`,
`AskersGetThrough`), which the prover cannot reach.

## What the models show about the code

Checked as a violation (see `findings` in `PROJECT.json`): a redelivered payment
after a Marzban error is granted at once although the queue row of the same
charge waits, and the worker grants it again (`payments.py:163`, against
README.md:250).

Seen while modelling and present in the models, without a run of their own.
Money and grants:

* a panel timeout is not a `MarzbanError`: the payment stays `pending`, is never
  queued, and later requests are told it is being processed (`payments.py:182`,
  beside README.md:377);
* two grants that overlap lose one of them; a traffic package can take the
  unlimited traffic of a concurrent purchase away (`marzban.py:285`, beside
  README.md:252-253);
* a grant of days only to a user without an account makes the account unlimited
  (`marzban.py:327`, beside `config.py:14-17`);
* a free code with a global limit is granted to more users through the miniapp,
  which validates before the grant and marks after it (`web/main.py:1014`,
  beside README.md:254);
* a refund from the bot is not recorded (`handlers/admin.py:418`);
* a grant under way overwrites `refunded` with `success` (`repo.py:111`), and a
  miniapp failure overwrites the success of a concurrent worker
  (`web/main.py:972`);
* the bot's `/promo` burns the code before the grant, and a failure that is not
  retried leaves it burnt (`start.py:103`, beside README.md:263-264);
* an active discount is cleared by the grant of any other code, and by every
  free code of the miniapp (`web/main.py:1082`, `payments.py:228`);
* a purchase that goes through the queue never rewards its referrer, and a
  bonus whose grant fails is lost, since the flag is committed first
  (`payments.py:253`, `repo.py:222`);
* the price is not looked at again when the Stars have arrived, only the plan
  and the code (`payments.py:500`), and a refusal then keeps the Stars with the
  row `validation_error`;
* a row that failed for good is set to retrying by a new request but never
  taken again (`repo.py:659`, `repo.py:668`), while the miniapp says it will be
  (`web/main.py:1067`);
* a check-in that crosses midnight starts a new streak (`gamification.py:192`);
  a crash, or losing the race to create the state row, leaves the claim of the
  day used up (`gamification.py:186`, `repo.py:926`);
* two first grants that overlap, or one whose mapping lookup fails, create a
  second account and orphan the first (`marzban.py:146`, `marzban.py:155`).

Loops, tickets and the client:

* the checkpoint and the alert time of the last subscription of a pass are set
  on the session and never committed (`main.py:136`), so with one subscription
  the spike of README.md:418 is never found, and for the last one the throttle
  of README.md:334 does not hold;
* a plan of one day is inside the window of the 24-hour reminder when it is
  bought, and the reminder comes at the next pass;
* as many subscriptions as a batch of `first_connect_loop` holds, never used,
  keep every younger user from the welcome (`main.py:191`); the query of the
  offers has a limit of that kind, too (`repo.py:417`);
* several 401s at once each drop the token another has just fetched and
  authenticate again (`marzban.py:95`, beside README.md:395);
* a message on a ticket that is closed between a handler's load and its commit
  leaves it closed: the status was open when it was loaded, and is not written
  (`repo.py:492`);
* a reply of a user to a ticket resets `support_state` before the text is
  stored; a death in between loses the text (`profile.py:365`);
* around the boundary of Redis's fixed window two quotas pass within one window
  (`rate_limit.py:92`), and every worker that falls back to its memory has a
  quota of its own.

## Plan

What is left, in order of weight:

1. The payment row of `manual_grant`, the second entry of a multi-use free code,
   edits of a code's terms.

## Not modelled

`manual_grant` books its payment before the panel is called and never repairs
the row (`web/admin.py:283`): no property of the books could hold of it. The
badges are idempotent inserts without a reward. Statistics, lists and the audit
log only read or append. The init-data check, the subscription gateway and the
happ links keep no state; monitoring keeps the hour of its last alert; the
device report and the opened-page counters are one row and one commit each.
Texts, keyboards, pages, bootstrap and deployment have no behaviour of their
own; docker's restart policy is an assumption of the fairness above.
