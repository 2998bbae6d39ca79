------------------------------ MODULE Support ------------------------------
(***************************************************************************)
(* Support tickets (bot/handlers/profile.py, bot/handlers/admin.py,        *)
(* bot/web/main.py, bot/web/admin.py over bot/db/repo.py) and the pending  *)
(* states of the staff in the bot's memory: the ticket the next text goes  *)
(* to, and the broadcast that waits for its confirmation.                  *)
(*                                                                         *)
(* A handler loads the ticket, commits something else, and then changes    *)
(* the ticket it loaded: sessions keep loaded objects across commits, and  *)
(* SQLAlchemy writes an attribute only if it differs from what was loaded. *)
(***************************************************************************)
EXTENDS Naturals, Sequences, FiniteSets

CONSTANTS
    Users, Admins,
    Tickets,      \* ids the database may hand out
    BotTasks,     \* update handlers of the bot process
    WebTasks,     \* request handlers of the miniapp process
    Nobody,
    MaxInputs,    \* bound: texts, closes, previews, presses of the reply button
    MaxCrashes    \* bound: deaths of a handler or of the bot

Tasks    == BotTasks \cup WebTasks
People   == Users \cup Admins
Inputs   == 1..MaxInputs

ASSUME ConstantsAssumption ==
    /\ BotTasks \cap WebTasks = {} /\ Users \cap Admins = {}
    /\ Nobody \notin People \cup Tickets
    /\ MaxInputs \in Nat /\ MaxCrashes \in Nat

VARIABLES
    owner,    \* support_tickets.telegram_id; Nobody: not created
    status,   \* support_tickets.status
    thread,   \* support_messages in the order of their commits
    state,    \* users.support_state: "none", "newticket" or a ticket
    pending,  \* _PENDING_REPLY
    draft,    \* _PENDING_BROADCAST
    queue,    \* recipients a confirmed broadcast has not come to
    pc, job,  \* per task: its next step; what it works on
    inputs,   \* how many inputs there were; an input is known by its number
    last,     \* history: the last operation committed on a ticket; "raced" if
              \* the status it had loaded was no longer in the database
    pressed,  \* history: the ticket under which the reply button was pressed
    stage,    \* history: what became of a broadcast's preview
    got,      \* history: how often a recipient was sent a broadcast
    crashes

tickets == <<owner, status, thread, last>>
memory  == <<pending, draft, queue>>
histories == <<pressed, stage, got>>
vars    == <<tickets, state, memory, pc, job, inputs, histories, crashes>>

Statuses == {"open", "answered", "closed"}
NoReply  == [ticket |-> Nobody, aim |-> 0, fresh |-> FALSE]
NoDraft  == [id |-> 0, fresh |-> FALSE]

\* op: what the task does; who: for whom; aim: the press of the reply button
\* it answers; fresh: that press was not older than 30 minutes; seen: the
\* status it loaded.
NoJob == [op |-> "none", who |-> Nobody, ticket |-> Nobody, msg |-> 0,
          aim |-> 0, fresh |-> TRUE, seen |-> "open"]

Steps == {"idle", "create", "pop", "load", "clear", "reopen", "add", "close", "drop", "answer"}
Opers == {"none", "create", "reply", "answer", "close"}

Exists(t) == owner[t] # Nobody

\* Tickets from before the threads were introduced have no messages.
Init ==
    /\ owner \in [Tickets -> Users \cup {Nobody}]
    /\ status = [t \in Tickets |-> "open"]
    /\ thread = [t \in Tickets |-> <<>>]
    /\ last = [t \in Tickets |-> "none"]
    /\ state = [u \in Users |-> "none"]
    /\ pending = [a \in Admins |-> NoReply]
    /\ draft = [a \in Admins |-> NoDraft]
    /\ queue = [d \in Inputs |-> {}]
    /\ pc = [h \in Tasks |-> "idle"]
    /\ job = [h \in Tasks |-> NoJob]
    /\ inputs = 0
    /\ pressed = [i \in Inputs |-> Nobody]
    /\ stage = [d \in Inputs |-> "unused"]
    /\ got = [d \in Inputs |-> [u \in Users |-> 0]]
    /\ crashes = 0

-----------------------------------------------------------------------------
GoTo(h, step) == pc' = [pc EXCEPT ![h] = step]

Return(h) ==
    /\ GoTo(h, "idle")
    /\ job' = [job EXCEPT ![h] = NoJob]

Accept(h, step, j) ==
    /\ pc[h] = "idle"
    /\ GoTo(h, step)
    /\ job' = [job EXCEPT ![h] = j]

\* A text is written: the job that carries it.
Write(op, who, t) ==
    [NoJob EXCEPT !.op = op, !.who = who, !.ticket = t, !.msg = inputs + 1]

\* The job goes on with what it has loaded, taken from the memory, or made.
Seen(j, now)   == [j EXCEPT !.seen = now]
Aimed(j, entry) ==
    [j EXCEPT !.ticket = entry.ticket, !.aim = entry.aim, !.fresh = entry.fresh]
Made(j, t)     == [j EXCEPT !.ticket = t]

NewInput == inputs < MaxInputs /\ inputs' = inputs + 1

-----------------------------------------------------------------------------
(* The user.                                                               *)

\* choose_support_topic, support_describe.
ChooseTopic(u) ==
    /\ state' = [state EXCEPT ![u] = "newticket"]
    /\ UNCHANGED <<tickets, memory, pc, job, inputs, histories, crashes>>

\* reply_ticket: only to a ticket of one's own.
ReplyTicket(u, t) ==
    /\ owner[t] = u
    /\ state' = [state EXCEPT ![u] = t]
    /\ UNCHANGED <<tickets, memory, pc, job, inputs, histories, crashes>>

\* collect_support_problem reads support_state in a session of its own.
CollectSupportProblem(h, u) ==
    /\ h \in BotTasks
    /\ state[u] # "none"
    /\ NewInput
    /\ IF state[u] = "newticket"
       THEN Accept(h, "create", Write("create", u, Nobody))
       ELSE Accept(h, "load", Write("reply", u, state[u]))
    /\ UNCHANGED <<tickets, state, memory, histories, crashes>>

\* support_create, support_reply: the request names the ticket.
SupportRequest(h, u) ==
    /\ h \in WebTasks
    /\ NewInput
    /\ \/ Accept(h, "create", Write("create", u, Nobody))
       \/ \E t \in Tickets :
             owner[t] = u /\ Accept(h, "load", Write("reply", u, t))
    /\ UNCHANGED <<tickets, state, memory, histories, crashes>>

\* close_ticket and support_close of the owner, admin_close_ticket and
\* ticket_close of the staff.
CloseRequest(h, p, t) ==
    /\ Exists(t)
    /\ p \in Admins \/ owner[t] = p
    /\ NewInput
    /\ Accept(h, "load", [NoJob EXCEPT !.op = "close", !.who = p, !.ticket = t])
    /\ UNCHANGED <<tickets, state, memory, histories, crashes>>

-----------------------------------------------------------------------------
(* The staff.  Both memories are tidied whenever one of them is used.      *)

\* _PENDING_TTL_SECONDS have not passed.
Current(entry) == entry.fresh

TidyReplies == [a \in Admins |-> IF Current(pending[a]) THEN pending[a] ELSE NoReply]
TidyDrafts  == [a \in Admins |-> IF Current(draft[a]) THEN draft[a] ELSE NoDraft]

\* admin_reply_start
AdminReplyStart(a, t) ==
    /\ Exists(t)
    /\ NewInput
    /\ pending' = [TidyReplies EXCEPT
                      ![a] = [ticket |-> t, aim |-> inputs + 1, fresh |-> TRUE]]
    /\ draft' = TidyDrafts
    /\ pressed' = [pressed EXCEPT ![inputs + 1] = t]
    /\ UNCHANGED <<tickets, state, queue, pc, job, stage, got, crashes>>

\* admin_cancel_reply
AdminCancelReply(a) ==
    /\ pending' = [TidyReplies EXCEPT ![a] = NoReply]
    /\ draft' = TidyDrafts
    /\ UNCHANGED <<tickets, state, queue, pc, job, inputs, histories, crashes>>

\* The filter of admin_reply_collect: the author has a pending reply.
AdminText(h, a) ==
    /\ h \in BotTasks
    /\ TidyReplies[a] # NoReply
    /\ NewInput
    /\ Accept(h, "pop", Write("answer", a, Nobody))
    /\ pending' = TidyReplies /\ draft' = TidyDrafts
    /\ UNCHANGED <<tickets, state, queue, histories, crashes>>

\* Mutant: the pending reply stays.
AfterPopKept(a) == TidyReplies

\* _pop_pending_reply takes it out of the memory.
AfterPop(a) == [TidyReplies EXCEPT ![a] = NoReply]

\* admin_reply_collect begins: another text may have used the pending reply up.
PopPendingReply(h) ==
    /\ pc[h] = "pop"
    /\ LET a     == job[h].who
           entry == TidyReplies[a] IN
       /\ pending' = AfterPop(a)
       /\ draft' = TidyDrafts
       /\ IF entry = NoReply
          THEN Return(h)
          ELSE /\ GoTo(h, "load")
               /\ job' = [job EXCEPT ![h] = Aimed(job[h], entry)]
    /\ UNCHANGED <<tickets, state, queue, inputs, histories, crashes>>

\* ticket_reply of the web panel.
TicketReply(h, a, t) ==
    /\ h \in WebTasks
    /\ Exists(t)
    /\ NewInput
    /\ Accept(h, "load", Write("answer", a, t))
    /\ UNCHANGED <<tickets, state, memory, histories, crashes>>

-----------------------------------------------------------------------------
(* The steps of a handler.                                                 *)

\* get_ticket; the bot then resets support_state, the miniapp first reopens a
\* closed ticket.
Load(h) ==
    /\ pc[h] = "load"
    /\ LET j == job[h]  now == status[j.ticket] IN
       /\ job' = [job EXCEPT ![h] = Seen(j, now)]
       /\ GoTo(h, IF j.op = "close" THEN "close"
                  ELSE IF j.op = "reply" /\ h \in BotTasks THEN "clear"
                  ELSE IF j.op = "reply" /\ now = "closed" THEN "reopen"
                  ELSE "add")
    /\ UNCHANGED <<tickets, state, memory, inputs, histories, crashes>>

\* Mutant: a reply is taken for a ticket already made.
AfterClearDone(j) == "answer"

\* A new ticket is made before the state is reset, a reply added after it.
AfterClear(j) == IF j.op = "create" THEN "answer" ELSE "add"

\* set_support_state(None)
ClearState(h) ==
    /\ pc[h] = "clear"
    /\ state' = [state EXCEPT ![job[h].who] = "none"]
    /\ GoTo(h, AfterClear(job[h]))
    /\ UNCHANGED <<tickets, memory, job, inputs, histories, crashes>>

Text(j) == [msg |-> j.msg, by |-> j.who, aim |-> j.aim, fresh |-> j.fresh]

\* create_support_ticket: the ticket and its first message in one commit.
CreateSupportTicket(h) ==
    /\ pc[h] = "create"
    /\ \E t \in Tickets :
          /\ ~Exists(t)
          /\ owner' = [owner EXCEPT ![t] = job[h].who]
          /\ status' = [status EXCEPT ![t] = "open"]
          /\ thread' = [thread EXCEPT ![t] = <<Text(job[h])>>]
          /\ last' = [last EXCEPT ![t] = "user"]
          /\ job' = [job EXCEPT ![h] = Made(job[h], t)]
    /\ GoTo(h, IF h \in BotTasks THEN "clear" ELSE "answer")
    /\ UNCHANGED <<state, memory, inputs, histories, crashes>>

\* An attribute is written when the new value differs from the loaded one.
Commit(h, new, event) ==
    LET t == job[h].ticket IN
    /\ status' = IF job[h].seen = new THEN status ELSE [status EXCEPT ![t] = new]
    /\ last' = [last EXCEPT ![t] = IF job[h].seen = status[t] THEN event ELSE "raced"]

\* set_ticket_status(open) of support_reply.
Reopen(h) ==
    /\ pc[h] = "reopen"
    /\ Commit(h, "open", "reopen")
    /\ job' = [job EXCEPT ![h] = Seen(job[h], "open")]
    /\ GoTo(h, "add")
    /\ UNCHANGED <<owner, thread, state, memory, inputs, histories, crashes>>

\* Mutant: a user's message sets the status of the old ticket scheme.
StatusAfterLegacy(j) == IF j.op = "answer" THEN "answered" ELSE "new"

\* Mutant: a message of the user leaves the status alone.
StatusAfterKept(j) == IF j.op = "answer" THEN "answered" ELSE j.seen

StatusAfter(j) == IF j.op = "answer" THEN "answered" ELSE "open"

\* add_support_message
AddSupportMessage(h) ==
    /\ pc[h] = "add"
    /\ thread' = [thread EXCEPT ![job[h].ticket] = Append(@, Text(job[h]))]
    /\ Commit(h, StatusAfter(job[h]), IF job[h].op = "answer" THEN "staff" ELSE "user")
    /\ GoTo(h, "answer")
    /\ UNCHANGED <<owner, job, state, memory, inputs, histories, crashes>>

\* set_ticket_status(closed); the bot then drops the admin's pending reply.
SetClosed(h) ==
    /\ pc[h] = "close"
    /\ Commit(h, "closed", "close")
    /\ IF h \in BotTasks /\ job[h].who \in Admins
       THEN GoTo(h, "drop") /\ UNCHANGED job
       ELSE Return(h)
    /\ UNCHANGED <<owner, thread, state, memory, inputs, histories, crashes>>

\* Whatever ticket it was for.
DropPendingReply(h) ==
    /\ pc[h] = "drop"
    /\ pending' = [pending EXCEPT ![job[h].who] = NoReply]
    /\ Return(h)
    /\ UNCHANGED <<tickets, state, draft, queue, inputs, histories, crashes>>

\* The author is told that the text is in the ticket; the notice to the other
\* side may fail and is swallowed.
Answer(h) ==
    /\ pc[h] = "answer"
    /\ Return(h)
    /\ UNCHANGED <<tickets, state, memory, inputs, histories, crashes>>

-----------------------------------------------------------------------------
(* Broadcasts.                                                             *)

\* The preview of an admin that is shown, if any, ends that way.
Ends(a, how) ==
    [d \in Inputs |-> IF d = draft[a].id /\ stage[d] = "shown" THEN how ELSE stage[d]]

\* broadcast: the recipients are read when the preview is made.
Broadcast(a) ==
    /\ NewInput
    /\ stage' = [Ends(a, "replaced") EXCEPT ![inputs + 1] = "shown"]
    /\ draft' = [TidyDrafts EXCEPT ![a] = [id |-> inputs + 1, fresh |-> TRUE]]
    /\ pending' = TidyReplies
    /\ UNCHANGED <<tickets, state, queue, pc, job, pressed, got, crashes>>

\* broadcast_confirm:cancel
CancelBroadcast(a) ==
    /\ draft' = [draft EXCEPT ![a] = NoDraft]
    /\ stage' = Ends(a, "cancelled")
    /\ UNCHANGED <<tickets, state, pending, queue, pc, job, inputs, pressed, got, crashes>>

\* Mutant: the preview can be confirmed again.
AfterConfirmKept(a) == TidyDrafts

\* _pop_pending_broadcast
AfterConfirm(a) == [TidyDrafts EXCEPT ![a] = NoDraft]

\* broadcast_confirm: the button names the admin, not the preview.
ConfirmBroadcast(a) ==
    LET d == TidyDrafts[a].id IN
    /\ d # 0
    /\ queue' = [queue EXCEPT ![d] = Users]
    /\ stage' = [stage EXCEPT ![d] = IF @ = "shown" THEN "confirmed" ELSE "misused"]
    /\ draft' = AfterConfirm(a)
    /\ pending' = TidyReplies
    /\ UNCHANGED <<tickets, state, pc, job, inputs, pressed, got, crashes>>

\* One round of _send_broadcast: delivered, perhaps on the second try after a
\* flood limit, or given up.
SendBroadcast(d, u) ==
    /\ u \in queue[d]
    /\ queue' = [queue EXCEPT ![d] = @ \ {u}]
    /\ got' = [got EXCEPT ![d][u] = @ + 1]
    /\ UNCHANGED <<tickets, state, pending, draft, pc, job, inputs, pressed, stage,
                   crashes>>

SkipRecipient(d, u) ==
    /\ u \in queue[d]
    /\ queue' = [queue EXCEPT ![d] = @ \ {u}]
    /\ UNCHANGED <<tickets, state, pending, draft, pc, job, inputs, histories, crashes>>

-----------------------------------------------------------------------------
(* Time and faults.                                                        *)

\* Thirty minutes have passed since the admin's entries were made.
ReplyAges(a) ==
    /\ pending[a].fresh
    /\ pending' = [pending EXCEPT ![a] = [ticket |-> @.ticket, aim |-> @.aim, fresh |-> FALSE]]
    /\ UNCHANGED <<tickets, state, draft, queue, pc, job, inputs, histories, crashes>>

DraftAges(a) ==
    /\ draft[a].fresh
    /\ draft' = [draft EXCEPT ![a] = [id |-> @.id, fresh |-> FALSE]]
    /\ stage' = Ends(a, "aged")
    /\ UNCHANGED <<tickets, state, pending, queue, pc, job, inputs, pressed, got, crashes>>

\* An uncaught error, a failing commit, the miniapp's death.
Die(h) ==
    /\ pc[h] # "idle" /\ crashes < MaxCrashes
    /\ crashes' = crashes + 1
    /\ Return(h)
    /\ UNCHANGED <<tickets, state, memory, inputs, histories>>

\* The bot's memory and tasks are gone.
RestartBot ==
    /\ crashes < MaxCrashes
    /\ crashes' = crashes + 1
    /\ pending' = [a \in Admins |-> NoReply]
    /\ draft' = [a \in Admins |-> NoDraft]
    /\ queue' = [d \in Inputs |-> {}]
    /\ pc' = [h \in Tasks |-> IF h \in BotTasks THEN "idle" ELSE pc[h]]
    /\ job' = [h \in Tasks |-> IF h \in BotTasks THEN NoJob ELSE job[h]]
    /\ UNCHANGED <<tickets, state, inputs, histories>>

Next ==
    \/ \E u \in Users : ChooseTopic(u) \/ \E t \in Tickets : ReplyTicket(u, t)
    \/ \E h \in Tasks :
          \/ \E u \in Users : CollectSupportProblem(h, u) \/ SupportRequest(h, u)
          \/ \E t \in Tickets, p \in People : CloseRequest(h, p, t)
          \/ \E a \in Admins :
                AdminText(h, a) \/ \E t \in Tickets : TicketReply(h, a, t)
          \/ PopPendingReply(h) \/ Load(h) \/ ClearState(h) \/ CreateSupportTicket(h)
          \/ Reopen(h) \/ AddSupportMessage(h) \/ SetClosed(h)
          \/ DropPendingReply(h) \/ Answer(h) \/ Die(h)
    \/ \E a \in Admins :
          \/ \E t \in Tickets : AdminReplyStart(a, t)
          \/ AdminCancelReply(a) \/ ReplyAges(a) \/ DraftAges(a)
          \/ Broadcast(a) \/ CancelBroadcast(a) \/ ConfirmBroadcast(a)
    \/ \E d \in Inputs, u \in Users : SendBroadcast(d, u) \/ SkipRecipient(d, u)
    \/ RestartBot

Spec == Init /\ [][Next]_vars

-----------------------------------------------------------------------------
Texts == [msg: Inputs, by: People, aim: 0..MaxInputs, fresh: BOOLEAN]

\* Every variable holds a status, a state, an entry or a program position.
TypeOK ==
    /\ owner \in [Tickets -> Users \cup {Nobody}]
    /\ status \in [Tickets -> Statuses]
    /\ thread \in [Tickets -> Seq(Texts)]
    /\ last \in [Tickets -> {"none", "user", "staff", "close", "reopen", "raced"}]
    /\ state \in [Users -> {"none", "newticket"} \cup Tickets]
    /\ pending \in [Admins -> [ticket: Tickets \cup {Nobody}, aim: 0..MaxInputs, fresh: BOOLEAN]]
    /\ draft \in [Admins -> [id: 0..MaxInputs, fresh: BOOLEAN]]
    /\ queue \in [Inputs -> SUBSET Users]
    /\ pc \in [Tasks -> Steps]
    /\ job \in [Tasks -> [op: Opers, who: People \cup {Nobody},
                          ticket: Tickets \cup {Nobody}, msg: 0..MaxInputs,
                          aim: 0..MaxInputs, fresh: BOOLEAN, seen: Statuses]]
    /\ pressed \in [Inputs -> Tickets \cup {Nobody}]
    /\ stage \in [Inputs -> {"unused", "shown", "replaced", "cancelled", "aged",
                             "confirmed", "misused"}]
    /\ got \in [Inputs -> [Users -> Nat]]
    /\ inputs \in 0..MaxInputs /\ crashes \in 0..MaxCrashes

\* The places of message m: <<ticket, position>>.
Places(m) == {p \in Tickets \X (1..MaxInputs) :
                 p[2] <= Len(thread[p[1]]) /\ thread[p[1]][p[2]].msg = m}

\* Whoever is about to be told that a text was delivered finds it in the
\* ticket, once, and a user's text in a ticket of that user: whatever else was
\* written, pressed, closed or restarted meanwhile.
AcknowledgedIsStored ==
    \A h \in Tasks :
        pc[h] = "answer" =>
            /\ \E i \in Inputs : Places(job[h].msg) = {<<job[h].ticket, i>>}
            /\ job[h].who \in Admins \cup {owner[job[h].ticket]}

\* A press of the reply button in the bot lets one text through, to the ticket
\* under which it was pressed, and none after the 30 minutes of README.md:302,
\* also when texts, presses under other tickets, closes and a restart overlap.
ReplyAsAimed ==
    \A t \in Tickets : \A i \in 1..Len(thread[t]) :
        thread[t][i].aim # 0 =>
            /\ pressed[thread[t][i].aim] = t
            /\ thread[t][i].fresh
            /\ \A s \in Tickets : \A k \in 1..Len(thread[s]) :
                  thread[s][k].aim = thread[t][i].aim => <<s, k>> = <<t, i>>

\* README.md:429: what the last operation on a ticket leaves as its status.
Due(event) ==
    IF event = "staff" THEN "answered" ELSE IF event = "close" THEN "closed" ELSE "open"

\* The status flow of README.md:429 holds for every ticket but the ones whose
\* last change was computed from a status another handler had replaced.
StatusFollowsThread ==
    \A t \in Tickets : Exists(t) /\ last[t] \notin {"none", "raced"} => status[t] = Due(last[t])

\* A previewed broadcast is sent at most once to each recipient, and only on a
\* confirmation within its 30 minutes that found it neither replaced, nor
\* cancelled, nor used: a second tap sends nothing.
BroadcastOnce ==
    \A d \in Inputs :
        /\ stage[d] # "misused"
        /\ \A u \in Users : got[d][u] <= (IF stage[d] = "confirmed" THEN 1 ELSE 0)

=============================================================================
