--------------------------- MODULE SupportProofs ---------------------------
(* Support: broadcasts, the status of a ticket and the staff's pending      *)
(* replies, for any number of people, tickets, tasks, inputs and crashes.   *)
EXTENDS Support, FiniteSetTheorems, TLAPS

-----------------------------------------------------------------------------
(* Broadcasts                                                               *)

Stages == {"unused", "shown", "replaced", "cancelled", "aged", "confirmed", "misused"}

CastType ==
    /\ inputs \in Nat /\ inputs <= MaxInputs
    /\ draft \in [Admins -> [id: Nat, fresh: BOOLEAN]]
    /\ queue \in [Inputs -> SUBSET Users]
    /\ stage \in [Inputs -> Stages]
    /\ got \in [Inputs -> [Users -> Nat]]

\* Every current draft is a preview of its own that is still shown.
DraftsShown ==
    /\ \A a \in Admins: draft[a].id <= inputs
    /\ \A a \in Admins: draft[a].id # 0 /\ draft[a].fresh => stage[draft[a].id] = "shown"
    /\ \A a, b \in Admins: draft[a].id = draft[b].id /\ draft[a].id # 0 => a = b

\* Nothing is sent, or waits to be sent, of what was not confirmed, and nobody
\* waits who was sent it.
SentOfConfirmed(d) ==
    /\ d > inputs => stage[d] = "unused"
    /\ stage[d] # "misused"
    /\ stage[d] # "confirmed" => queue[d] = {} /\ \A u \in Users: got[d][u] = 0
    /\ \A u \in Users: got[d][u] <= 1 /\ (u \in queue[d] => got[d][u] = 0)

CastInv == CastType /\ DraftsShown /\ \A d \in Inputs: SentOfConfirmed(d)

LEMMA CastInit == Init => CastInv
<1> SUFFICES ASSUME Init PROVE CastInv
  OBVIOUS
<1>1. CastType
  BY ConstantsAssumption DEF Init, CastType, NoDraft, Stages
<1>2. DraftsShown
  BY DEF Init, DraftsShown, NoDraft
<1>3. \A d \in Inputs: SentOfConfirmed(d)
  BY DEF Init, SentOfConfirmed
<1>4. QED
  BY <1>1, <1>2, <1>3 DEF CastInv

LEMMA DraftIsInput ==
  ASSUME CastInv, NEW a \in Admins, draft[a].id # 0
  PROVE  draft[a].id \in Inputs
BY ConstantsAssumption DEF CastInv, CastType, DraftsShown, Inputs

\* What TidyDrafts leaves is a current draft as it was, or none.
LEMMA Tidied ==
  ASSUME CastType, NEW a \in Admins
  PROVE  /\ TidyDrafts \in [Admins -> [id: Nat, fresh: BOOLEAN]]
         /\ \/ TidyDrafts[a] = draft[a] /\ draft[a].fresh
            \/ TidyDrafts[a] = NoDraft
<1>1. NoDraft \in [id: Nat, fresh: BOOLEAN]
  BY DEF NoDraft
<1>2. QED
  BY <1>1 DEF CastType, TidyDrafts, Current

\* A step that forgets drafts, and leaves everything sent as it is.
LEMMA ForgetKeeps ==
  ASSUME CastInv, inputs' \in Nat, inputs <= inputs', inputs' <= MaxInputs,
         UNCHANGED <<stage, got, queue>>,
         \A d \in Inputs: d > inputs' => d > inputs,
         draft' \in [Admins -> [id: Nat, fresh: BOOLEAN]],
         \A a \in Admins: draft'[a] = draft[a] \/ draft'[a] = NoDraft
  PROVE  CastInv'
<1>1. CastType'
  BY DEF CastInv, CastType
<1>2. ASSUME NEW a \in Admins
      PROVE  /\ draft'[a].id <= inputs'
             /\ draft'[a].id # 0 => draft'[a] = draft[a]
  <2>1. draft[a].id \in Nat /\ draft[a].id <= inputs
    BY DEF CastInv, CastType, DraftsShown
  <2>2. QED
    BY <2>1 DEF CastInv, CastType, NoDraft
<1>3. DraftsShown'
  BY <1>2 DEF CastInv, DraftsShown
<1>4. \A d \in Inputs: SentOfConfirmed(d)'
  BY DEF CastInv, SentOfConfirmed
<1>5. QED
  BY <1>1, <1>3, <1>4 DEF CastInv

\* Which steps are not about broadcasts: they leave the drafts as they are.
LEMMA ElsewhereKeeps ==
  ASSUME CastInv, UNCHANGED <<draft, stage, got, queue>>,
         inputs' = inputs \/ NewInput
  PROVE  CastInv'
<1>1. inputs' \in Nat /\ inputs <= inputs' /\ inputs' <= MaxInputs
  BY ConstantsAssumption DEF CastInv, CastType, NewInput
<1>2. \A d \in Inputs: d > inputs' => d > inputs
  BY <1>1, ConstantsAssumption DEF Inputs, CastInv, CastType
<1>3. QED
  BY <1>1, <1>2, ForgetKeeps DEF CastInv, CastType

LEMMA TidyKeeps ==
  ASSUME CastInv, UNCHANGED <<stage, got, queue>>, draft' = TidyDrafts,
         inputs' = inputs \/ NewInput
  PROVE  CastInv'
<1>1. inputs' \in Nat /\ inputs <= inputs' /\ inputs' <= MaxInputs
  BY ConstantsAssumption DEF CastInv, CastType, NewInput
<1>2. \A d \in Inputs: d > inputs' => d > inputs
  BY <1>1, ConstantsAssumption DEF Inputs, CastInv, CastType
<1>3. \A a \in Admins: draft'[a] = draft[a] \/ draft'[a] = NoDraft
  BY Tidied DEF CastInv
<1>4. draft' \in [Admins -> [id: Nat, fresh: BOOLEAN]]
  BY Tidied DEF CastInv, CastType, TidyDrafts
<1>5. QED
  BY <1>1, <1>2, <1>3, <1>4, ForgetKeeps

\* A preview ends: what it was is not what was sent.
LEMMA EndsTyped ==
  ASSUME CastType, NEW a \in Admins, NEW how \in Stages
  PROVE  Ends(a, how) \in [Inputs -> Stages]
BY DEF CastType, Ends

LEMMA BroadcastKeeps ==
  ASSUME CastInv, NEW a \in Admins, Broadcast(a)
  PROVE  CastInv'
<1> DEFINE new == inputs + 1
<1>1. /\ inputs \in Nat /\ new \in Inputs /\ inputs' = new /\ new <= MaxInputs
      /\ UNCHANGED <<got, queue>>
  BY ConstantsAssumption DEF Broadcast, NewInput, Inputs, CastInv, CastType
<1>2. /\ Ends(a, "replaced") \in [Inputs -> Stages]
      /\ stage' = [Ends(a, "replaced") EXCEPT ![new] = "shown"]
  BY EndsTyped DEF Broadcast, CastInv, Stages
<1>3. stage' \in [Inputs -> Stages] /\ stage'[new] = "shown"
  BY <1>1, <1>2 DEF Stages
<1>4. ASSUME NEW d \in Inputs, d # new
      PROVE  stage'[d] = IF d = draft[a].id /\ stage[d] = "shown" THEN "replaced" ELSE stage[d]
  BY <1>2, <1>4 DEF Ends
<1>5. /\ TidyDrafts \in [Admins -> [id: Nat, fresh: BOOLEAN]]
      /\ draft' = [TidyDrafts EXCEPT ![a] = [id |-> new, fresh |-> TRUE]]
  BY Tidied DEF Broadcast, CastInv
<1>6. draft' \in [Admins -> [id: Nat, fresh: BOOLEAN]] /\ draft'[a] = [id |-> new, fresh |-> TRUE]
  BY <1>1, <1>5
<1>7. ASSUME NEW b \in Admins, b # a
      PROVE  (draft'[b] = draft[b] /\ draft[b].fresh) \/ draft'[b] = NoDraft
  BY <1>5, <1>7, Tidied DEF CastInv
<1>8. \A b \in Admins: draft[b].id \in Nat /\ draft[b].id <= inputs
  BY DEF CastInv, CastType, DraftsShown
<1>9. CastType'
  BY <1>1, <1>3, <1>6 DEF CastInv, CastType
<1>10. DraftsShown'
  <2>1. ASSUME NEW b \in Admins PROVE draft'[b].id <= inputs'
    <3>1. CASE b = a
      BY <1>1, <1>6, <3>1
    <3>2. CASE b # a
      BY <1>1, <1>7, <1>8, <3>2 DEF NoDraft
    <3>3. QED
      BY <3>1, <3>2
  <2>2. ASSUME NEW b \in Admins, draft'[b].id # 0
        PROVE  stage'[draft'[b].id] = "shown"
    <3>1. CASE b = a
      BY <1>3, <1>6, <3>1
    <3>2. CASE b # a
      <4>1. draft'[b] = draft[b] /\ draft[b].fresh /\ draft[b].id # 0
        BY <1>7, <2>2, <3>2 DEF NoDraft
      <4>2. draft[b].id \in Nat /\ draft[b].id # new /\ draft[b].id # draft[a].id
        BY <1>1, <1>8, <3>2, <4>1 DEF CastInv, DraftsShown
      <4>3. draft[b].id \in Inputs /\ stage[draft[b].id] = "shown"
        BY <4>1, DraftIsInput DEF CastInv, DraftsShown
      <4>4. QED
        BY <1>4, <4>1, <4>2, <4>3
    <3>3. QED
      BY <3>1, <3>2
  <2>3. ASSUME NEW b \in Admins, NEW c \in Admins,
               draft'[b].id = draft'[c].id, draft'[b].id # 0
        PROVE  b = c
    <3>1. ASSUME NEW x \in Admins, x # a PROVE draft'[x].id # new
      BY <1>1, <1>7, <1>8, <3>1 DEF NoDraft
    <3>2. CASE b # a /\ c # a
      BY <1>7, <2>3, <3>2 DEF NoDraft, CastInv, DraftsShown
    <3>3. QED
      BY <1>6, <2>3, <3>1, <3>2
  <2>4. QED
    BY <2>1, <2>2, <2>3 DEF DraftsShown
<1>11. ASSUME NEW d \in Inputs PROVE SentOfConfirmed(d)'
  <2>1. SentOfConfirmed(d) /\ d \in Nat
    BY DEF CastInv, Inputs
  <2>2. CASE d = new
    <3>1. stage[d] = "unused"
      BY <1>1, <2>1, <2>2 DEF SentOfConfirmed
    <3>2. QED
      BY <1>1, <1>3, <2>1, <2>2, <3>1 DEF SentOfConfirmed
  <2>3. CASE d # new
    <3>1. d > inputs' => d > inputs /\ stage[d] = "unused"
      BY <1>1, <2>1 DEF SentOfConfirmed
    <3>2. stage'[d] = stage[d] \/ (stage[d] = "shown" /\ stage'[d] = "replaced")
      BY <1>4, <2>3
    <3>3. QED
      BY <1>1, <2>1, <3>1, <3>2 DEF SentOfConfirmed
  <2>4. QED
    BY <2>2, <2>3
<1>12. QED
  BY <1>9, <1>10, <1>11 DEF CastInv

\* A preview that is cancelled or grows old is no longer current.
LEMMA EndKeeps ==
  ASSUME CastInv, NEW a \in Admins, NEW how \in {"cancelled", "aged"},
         stage' = Ends(a, how), UNCHANGED <<inputs, got, queue>>,
         draft' \in [Admins -> [id: Nat, fresh: BOOLEAN]],
         draft'[a] = NoDraft \/ (draft'[a].id = draft[a].id /\ ~draft'[a].fresh),
         \A b \in Admins \ {a}: draft'[b] = draft[b]
  PROVE  CastInv'
<1>1. stage' \in [Inputs -> Stages]
  BY EndsTyped DEF CastInv, Stages
<1>2. CastType'
  BY <1>1 DEF CastInv, CastType
<1>3. \A d \in Inputs:
        stage'[d] = IF d = draft[a].id /\ stage[d] = "shown" THEN how ELSE stage[d]
  BY DEF Ends
<1>4. ASSUME NEW d \in Inputs PROVE SentOfConfirmed(d)'
  <2>1. SentOfConfirmed(d)
    BY DEF CastInv
  <2>2. stage'[d] = stage[d] \/ (stage[d] = "shown" /\ stage'[d] = how)
    BY <1>3
  <2>3. QED
    BY <2>1, <2>2 DEF SentOfConfirmed
<1>5. DraftsShown'
  <2>1. ASSUME NEW b \in Admins PROVE draft'[b].id <= inputs'
    BY DEF CastInv, DraftsShown, CastType, NoDraft
  <2>2. ASSUME NEW b \in Admins, draft'[b].id # 0, draft'[b].fresh
        PROVE  stage'[draft'[b].id] = "shown"
    <3>1. b # a /\ draft'[b] = draft[b]
      BY <2>2 DEF NoDraft
    <3>2. stage[draft[b].id] = "shown" /\ draft[b].id # draft[a].id
      BY <2>2, <3>1 DEF CastInv, DraftsShown
    <3>3. draft[b].id \in DOMAIN stage
      BY <2>2, <3>1, DraftIsInput DEF CastInv, CastType
    <3>4. QED
      BY <1>3, <3>1, <3>2, <3>3 DEF CastInv, CastType
  <2>3. ASSUME NEW b \in Admins, NEW c \in Admins,
               draft'[b].id = draft'[c].id, draft'[b].id # 0
        PROVE  b = c
    BY <2>3 DEF NoDraft, CastInv, DraftsShown
  <2>4. QED
    BY <2>1, <2>2, <2>3 DEF DraftsShown
<1>6. QED
  BY <1>2, <1>4, <1>5 DEF CastInv

LEMMA ConfirmKeeps ==
  ASSUME CastInv, NEW a \in Admins, ConfirmBroadcast(a)
  PROVE  CastInv'
<1> DEFINE d == TidyDrafts[a].id
<1>1. d # 0 /\ TidyDrafts[a] = draft[a] /\ draft[a].fresh /\ d = draft[a].id
  BY Tidied DEF ConfirmBroadcast, CastInv, NoDraft
<1>2. d \in Inputs /\ stage[d] = "shown"
  BY <1>1, DraftIsInput DEF CastInv, DraftsShown
<1>3. /\ queue' = [queue EXCEPT ![d] = Users] /\ UNCHANGED <<got, inputs>>
      /\ stage' = [stage EXCEPT ![d] = "confirmed"]
  <2>1. stage' = [stage EXCEPT ![d] = IF @ = "shown" THEN "confirmed" ELSE "misused"]
    BY DEF ConfirmBroadcast
  <2>2. QED
    BY <1>2, <2>1 DEF ConfirmBroadcast
<1>4. NoDraft \in [id: Nat, fresh: BOOLEAN]
  BY DEF NoDraft
<1>5. /\ draft' \in [Admins -> [id: Nat, fresh: BOOLEAN]]
      /\ draft'[a] = NoDraft
      /\ \A b \in Admins: draft'[b] = NoDraft \/ (b # a /\ draft'[b] = draft[b] /\ draft[b].fresh)
  BY <1>4, Tidied DEF ConfirmBroadcast, AfterConfirm, CastInv
<1>6. CastType'
  BY <1>3, <1>5 DEF CastInv, CastType, Stages
<1>7. DraftsShown'
  <2>1. ASSUME NEW b \in Admins PROVE draft'[b].id <= inputs'
    BY <1>3, <1>5 DEF CastInv, CastType, DraftsShown, NoDraft
  <2>2. ASSUME NEW b \in Admins, draft'[b].id # 0
        PROVE  stage'[draft'[b].id] = "shown"
    <3>1. b # a /\ draft'[b] = draft[b] /\ draft[b].fresh /\ draft[b].id # 0
      BY <1>5, <2>2 DEF NoDraft
    <3>2. draft[b].id \in Inputs /\ draft[b].id # d /\ stage[draft[b].id] = "shown"
      BY <1>1, <3>1, DraftIsInput DEF CastInv, DraftsShown
    <3>3. QED
      BY <1>3, <3>1, <3>2 DEF CastInv, CastType
  <2>3. ASSUME NEW b \in Admins, NEW c \in Admins,
               draft'[b].id = draft'[c].id, draft'[b].id # 0
        PROVE  b = c
    BY <1>5, <2>3 DEF NoDraft, CastInv, DraftsShown
  <2>4. QED
    BY <2>1, <2>2, <2>3 DEF DraftsShown
<1>8. ASSUME NEW e \in Inputs PROVE SentOfConfirmed(e)'
  <2>1. SentOfConfirmed(e)
    BY DEF CastInv
  <2>2. CASE e = d
    <3>1. ~(d > inputs) /\ stage'[d] = "confirmed" /\ \A u \in Users: got[d][u] = 0
      BY <1>2, <1>3, <2>1, <2>2 DEF SentOfConfirmed, CastInv, CastType
    <3>2. QED
      BY <1>3, <2>2, <3>1 DEF SentOfConfirmed
  <2>3. CASE e # d
    BY <1>3, <2>1, <2>3 DEF SentOfConfirmed, CastInv, CastType
  <2>4. QED
    BY <2>2, <2>3
<1>9. QED
  BY <1>6, <1>7, <1>8 DEF CastInv

\* A recipient leaves the queue, with or without the message; a restart of the
\* bot empties it.
LEMMA RecipientKeeps ==
  ASSUME CastInv, NEW d \in Inputs, NEW u \in Users, SendBroadcast(d, u) \/ SkipRecipient(d, u)
  PROVE  CastInv'
<1>1. u \in queue[d] /\ queue' = [queue EXCEPT ![d] = queue[d] \ {u}]
      /\ UNCHANGED <<draft, stage, inputs>>
  BY DEF SendBroadcast, SkipRecipient, histories
<1>2. stage[d] = "confirmed" /\ got[d][u] = 0
  BY <1>1 DEF CastInv, SentOfConfirmed
<1>3. got' = got \/ got' = [got EXCEPT ![d] = [got[d] EXCEPT ![u] = got[d][u] + 1]]
  BY DEF SendBroadcast, SkipRecipient, histories
<1>4. /\ got' \in [Inputs -> [Users -> Nat]]
      /\ \A e \in Inputs \ {d}: got'[e] = got[e]
      /\ \A v \in Users \ {u}: got'[d][v] = got[d][v]
      /\ got'[d][u] <= 1
  <2>1. CASE got' = got
    BY <1>2, <2>1 DEF CastInv, CastType
  <2>2. CASE got' = [got EXCEPT ![d] = [got[d] EXCEPT ![u] = got[d][u] + 1]]
    BY <1>2, <2>2 DEF CastInv, CastType
  <2>3. QED
    BY <1>3, <2>1, <2>2
<1>5. CastType'
  BY <1>1, <1>4 DEF CastInv, CastType
<1>6. DraftsShown'
  BY <1>1 DEF CastInv, DraftsShown
<1>7. ASSUME NEW e \in Inputs PROVE SentOfConfirmed(e)'
  <2>1. SentOfConfirmed(e)
    BY DEF CastInv
  <2>2. CASE e = d
    <3>1. queue'[d] = queue[d] \ {u}
      BY <1>1 DEF CastInv, CastType
    <3>2. \A v \in Users: got'[d][v] <= 1 /\ (v \in queue'[d] => got'[d][v] = 0)
      BY <1>4, <2>1, <2>2, <3>1 DEF SentOfConfirmed
    <3>3. QED
      BY <1>1, <1>2, <2>1, <2>2, <3>2 DEF SentOfConfirmed
  <2>3. CASE e # d
    BY <1>1, <1>4, <2>1, <2>3 DEF SentOfConfirmed, CastInv, CastType
  <2>4. QED
    BY <2>2, <2>3
<1>8. QED
  BY <1>5, <1>6, <1>7 DEF CastInv

LEMMA RestartKeeps ==
  ASSUME CastInv, RestartBot
  PROVE  CastInv'
<1>1. /\ UNCHANGED <<inputs, stage, got>>
      /\ draft' = [a \in Admins |-> NoDraft] /\ queue' = [d \in Inputs |-> {}]
  BY DEF RestartBot, histories
<1>2. CastType'
  BY <1>1 DEF CastInv, CastType, NoDraft
<1>3. DraftsShown'
  BY <1>1 DEF CastInv, CastType, DraftsShown, NoDraft
<1>4. \A d \in Inputs: SentOfConfirmed(d)'
  BY <1>1 DEF CastInv, SentOfConfirmed
<1>5. QED
  BY <1>2, <1>3, <1>4 DEF CastInv

LEMMA CastNext == CastInv /\ [Next]_vars => CastInv'
<1> SUFFICES ASSUME CastInv, [Next]_vars PROVE CastInv'
  OBVIOUS
<1>1. CASE UNCHANGED vars
  BY <1>1, ElsewhereKeeps DEF vars, memory, histories
<1>2. ASSUME NEW u \in Users, ChooseTopic(u) \/ \E t \in Tickets : ReplyTicket(u, t)
      PROVE  CastInv'
  BY <1>2, ElsewhereKeeps DEF ChooseTopic, ReplyTicket, memory, histories
<1>3. ASSUME NEW h \in Tasks,
             \/ \E u \in Users : CollectSupportProblem(h, u) \/ SupportRequest(h, u)
             \/ \E t \in Tickets, p \in People : CloseRequest(h, p, t)
             \/ \E a \in Admins, t \in Tickets : TicketReply(h, a, t)
      PROVE  CastInv'
  BY <1>3, ElsewhereKeeps DEF CollectSupportProblem, SupportRequest, CloseRequest,
     TicketReply, memory, histories
<1>4. ASSUME NEW h \in Tasks,
             \/ Load(h) \/ ClearState(h) \/ CreateSupportTicket(h) \/ Reopen(h)
             \/ AddSupportMessage(h) \/ SetClosed(h) \/ DropPendingReply(h) \/ Answer(h)
             \/ Die(h)
      PROVE  CastInv'
  BY <1>4, ElsewhereKeeps DEF Load, ClearState, CreateSupportTicket, Reopen,
     AddSupportMessage, SetClosed, DropPendingReply, Answer, Die, memory, histories
<1>5. ASSUME NEW h \in Tasks, PopPendingReply(h) \/ \E a \in Admins : AdminText(h, a)
      PROVE  CastInv'
  BY <1>5, TidyKeeps DEF PopPendingReply, AdminText, histories
<1>6. ASSUME NEW a \in Admins,
             AdminCancelReply(a) \/ \E t \in Tickets : AdminReplyStart(a, t)
      PROVE  CastInv'
  BY <1>6, TidyKeeps DEF AdminCancelReply, AdminReplyStart, histories
<1>7. ASSUME NEW a \in Admins, ReplyAges(a) PROVE CastInv'
  BY <1>7, ElsewhereKeeps DEF ReplyAges, histories
<1>8. ASSUME NEW a \in Admins, DraftAges(a) PROVE CastInv'
  <2>1. /\ draft' = [draft EXCEPT ![a] = [id |-> draft[a].id, fresh |-> FALSE]]
        /\ stage' = Ends(a, "aged") /\ UNCHANGED <<inputs, got, queue>>
    BY <1>8 DEF DraftAges
  <2>2. /\ draft' \in [Admins -> [id: Nat, fresh: BOOLEAN]]
        /\ draft'[a].id = draft[a].id /\ ~draft'[a].fresh
        /\ \A b \in Admins \ {a}: draft'[b] = draft[b]
    BY <2>1 DEF CastInv, CastType
  <2>3. QED
    BY <2>1, <2>2, EndKeeps
<1>9. ASSUME NEW a \in Admins, CancelBroadcast(a) PROVE CastInv'
  <2>1. /\ draft' = [draft EXCEPT ![a] = NoDraft]
        /\ stage' = Ends(a, "cancelled") /\ UNCHANGED <<inputs, got, queue>>
    BY <1>9 DEF CancelBroadcast
  <2>2. /\ draft' \in [Admins -> [id: Nat, fresh: BOOLEAN]] /\ draft'[a] = NoDraft
        /\ \A b \in Admins \ {a}: draft'[b] = draft[b]
    BY <2>1 DEF CastInv, CastType, NoDraft
  <2>3. QED
    BY <2>1, <2>2, EndKeeps
<1>10. QED
  BY <1>1, <1>2, <1>3, <1>4, <1>5, <1>6, <1>7, <1>8, <1>9, BroadcastKeeps, ConfirmKeeps,
     RecipientKeeps, RestartKeeps DEF Next

\* A broadcast goes at most once to each recipient, and only if it was
\* confirmed while its preview was still the current one.
THEOREM BroadcastsOnce == Spec => []BroadcastOnce
<1>1. CastInv => BroadcastOnce
  <2> SUFFICES ASSUME CastInv, NEW d \in Inputs
               PROVE  /\ stage[d] # "misused"
                      /\ \A u \in Users : got[d][u] <= (IF stage[d] = "confirmed" THEN 1 ELSE 0)
    BY DEF BroadcastOnce
  <2>1. SentOfConfirmed(d)
    BY DEF CastInv
  <2>2. QED
    BY <2>1 DEF SentOfConfirmed
<1>2. QED
  BY <1>1, CastInit, CastNext, PTL DEF Spec

-----------------------------------------------------------------------------
(* The status of a ticket                                                   *)

StatusType ==
    /\ DOMAIN owner = Tickets
    /\ status \in [Tickets -> Statuses]
    /\ last \in [Tickets -> {"none", "user", "staff", "close", "reopen", "raced"}]

\* A commit over the status it has loaded leaves what its operation is due.
LEMMA CommitFollows ==
  ASSUME StatusType, StatusFollowsThread, NEW h \in Tasks, UNCHANGED owner,
         NEW event \in {"user", "staff", "close", "reopen"},
         Commit(h, Due(event), event)
  PROVE  StatusType' /\ StatusFollowsThread'
<1> DEFINE t == job[h].ticket
           new == Due(event)
<1>1. /\ status' = IF job[h].seen = new THEN status ELSE [status EXCEPT ![t] = new]
      /\ last' = [last EXCEPT ![t] = IF job[h].seen = status[t] THEN event ELSE "raced"]
  BY DEF Commit
<1>2. new \in Statuses
  BY DEF Due, Statuses
<1>3. StatusType'
  <2>1. status' \in [Tickets -> Statuses]
    BY <1>1, <1>2 DEF StatusType
  <2>2. last' \in [Tickets -> {"none", "user", "staff", "close", "reopen", "raced"}]
    BY <1>1 DEF StatusType
  <2>3. QED
    BY <2>1, <2>2 DEF StatusType
<1>4. ASSUME NEW s \in Tickets, Exists(s)', last'[s] \notin {"none", "raced"}
      PROVE  status'[s] = Due(last'[s])
  <2>1. CASE s = t
    <3>1. job[h].seen = status[t] /\ last'[t] = event
      BY <1>1, <1>4, <2>1 DEF StatusType
    <3>2. status'[t] = new
      BY <1>1, <2>1, <3>1 DEF StatusType
    <3>3. QED
      BY <2>1, <3>1, <3>2
  <2>2. CASE s # t
    <3>1. last'[s] = last[s] /\ status'[s] = status[s]
      BY <1>1, <2>2 DEF StatusType
    <3>2. QED
      BY <1>4, <3>1 DEF StatusFollowsThread, Exists
  <2>3. QED
    BY <2>1, <2>2
<1>5. QED
  BY <1>3, <1>4 DEF StatusFollowsThread

\* A ticket is made open, with a message of its user.
LEMMA CreateFollows ==
  ASSUME StatusType, StatusFollowsThread, NEW h \in Tasks, CreateSupportTicket(h)
  PROVE  StatusType' /\ StatusFollowsThread'
<1>1. PICK t \in Tickets :
        /\ ~Exists(t)
        /\ owner' = [owner EXCEPT ![t] = job[h].who]
        /\ status' = [status EXCEPT ![t] = "open"]
        /\ last' = [last EXCEPT ![t] = "user"]
  BY DEF CreateSupportTicket
<1>2. StatusType'
  BY <1>1 DEF StatusType, Statuses
<1>3. ASSUME NEW s \in Tickets, Exists(s)', last'[s] \notin {"none", "raced"}
      PROVE  status'[s] = Due(last'[s])
  <2>1. CASE s = t
    BY <1>1, <2>1 DEF StatusType, Due
  <2>2. CASE s # t
    <3>1. last'[s] = last[s] /\ status'[s] = status[s] /\ owner'[s] = owner[s]
      BY <1>1, <2>2 DEF StatusType
    <3>2. QED
      BY <1>3, <3>1 DEF StatusFollowsThread, Exists
  <2>3. QED
    BY <2>1, <2>2
<1>4. QED
  BY <1>2, <1>3 DEF StatusFollowsThread

LEMMA StatusNext ==
  StatusType /\ StatusFollowsThread /\ [Next]_vars => StatusType' /\ StatusFollowsThread'
<1> SUFFICES ASSUME StatusType, StatusFollowsThread, [Next]_vars
             PROVE  StatusType' /\ StatusFollowsThread'
  OBVIOUS
<1>1. CASE UNCHANGED <<owner, status, last>>
  BY <1>1 DEF StatusType, StatusFollowsThread, Exists
<1>2. ASSUME NEW h \in Tasks, Reopen(h) PROVE StatusType' /\ StatusFollowsThread'
  <2>1. Commit(h, Due("reopen"), "reopen") /\ UNCHANGED owner
    BY <1>2 DEF Reopen, Due
  <2>2. QED
    BY <2>1, CommitFollows
<1>3. ASSUME NEW h \in Tasks, AddSupportMessage(h) PROVE StatusType' /\ StatusFollowsThread'
  <2>1. CASE job[h].op = "answer"
    <3>1. Commit(h, Due("staff"), "staff") /\ UNCHANGED owner
      BY <1>3, <2>1 DEF AddSupportMessage, StatusAfter, Due
    <3>2. QED
      BY <3>1, CommitFollows
  <2>2. CASE job[h].op # "answer"
    <3>1. Commit(h, Due("user"), "user") /\ UNCHANGED owner
      BY <1>3, <2>2 DEF AddSupportMessage, StatusAfter, Due
    <3>2. QED
      BY <3>1, CommitFollows
  <2>3. QED
    BY <2>1, <2>2
<1>4. ASSUME NEW h \in Tasks, SetClosed(h) PROVE StatusType' /\ StatusFollowsThread'
  <2>1. Commit(h, Due("close"), "close") /\ UNCHANGED owner
    BY <1>4 DEF SetClosed, Due
  <2>2. QED
    BY <2>1, CommitFollows
<1>5. CASE UNCHANGED vars
  BY <1>1, <1>5 DEF vars, tickets
<1>6. ASSUME NEW u \in Users, ChooseTopic(u) \/ \E t \in Tickets : ReplyTicket(u, t)
      PROVE  UNCHANGED <<owner, status, last>>
  BY <1>6 DEF ChooseTopic, ReplyTicket, tickets
<1>7. ASSUME NEW h \in Tasks,
             \/ \E u \in Users : CollectSupportProblem(h, u) \/ SupportRequest(h, u)
             \/ \E t \in Tickets, p \in People : CloseRequest(h, p, t)
             \/ \E a \in Admins : AdminText(h, a) \/ \E t \in Tickets : TicketReply(h, a, t)
             \/ PopPendingReply(h) \/ Load(h) \/ ClearState(h)
             \/ DropPendingReply(h) \/ Answer(h) \/ Die(h)
      PROVE  UNCHANGED <<owner, status, last>>
  BY <1>7 DEF CollectSupportProblem, SupportRequest, CloseRequest, AdminText, TicketReply,
     PopPendingReply, Load, ClearState, DropPendingReply, Answer, Die, tickets
<1>8. ASSUME NEW a \in Admins,
             \/ \E t \in Tickets : AdminReplyStart(a, t)
             \/ AdminCancelReply(a) \/ ReplyAges(a) \/ DraftAges(a)
             \/ Broadcast(a) \/ CancelBroadcast(a) \/ ConfirmBroadcast(a)
      PROVE  UNCHANGED <<owner, status, last>>
  BY <1>8 DEF AdminReplyStart, AdminCancelReply, ReplyAges, DraftAges, Broadcast,
     CancelBroadcast, ConfirmBroadcast, tickets
<1>9. ASSUME NEW d \in Inputs, NEW u \in Users, SendBroadcast(d, u) \/ SkipRecipient(d, u)
      PROVE  UNCHANGED <<owner, status, last>>
  BY <1>9 DEF SendBroadcast, SkipRecipient, tickets
<1>10. CASE RestartBot
  BY <1>1, <1>10 DEF RestartBot, tickets
<1>11. QED
  BY <1>1, <1>2, <1>3, <1>4, <1>5, <1>6, <1>7, <1>8, <1>9, <1>10, CreateFollows DEF Next

\* The status of a ticket is what its last operation is due, unless that
\* operation had loaded a status that another one replaced.
THEOREM StatusIsDue == Spec => []StatusFollowsThread
<1>1. Init => StatusType /\ StatusFollowsThread
  BY DEF Init, StatusType, Statuses, StatusFollowsThread
<1>2. QED
  BY <1>1, StatusNext, PTL DEF Spec

-----------------------------------------------------------------------------
(* The staff's pending replies                                              *)

Jobs  == [op: Opers, who: People \cup {Nobody}, ticket: Tickets \cup {Nobody},
          msg: Nat, aim: Nat, fresh: BOOLEAN, seen: Statuses]
Notes == [msg: Nat, by: People \cup {Nobody}, aim: Nat, fresh: BOOLEAN]
Entries == {NoReply} \cup [ticket: Tickets, aim: Nat, fresh: BOOLEAN]

JobType ==
    /\ inputs \in Nat
    /\ status \in [Tickets -> Statuses]
    /\ thread \in [Tickets -> Seq(Notes)]
    /\ state \in [Users -> {"none", "newticket"} \cup Tickets]
    /\ pending \in [Admins -> Entries]
    /\ pc \in [Tasks -> Steps]
    /\ job \in [Tasks -> Jobs]

\* Where a job is, it has what its step needs.
JobReady(step, j) ==
    /\ step \in {"load", "clear", "reopen", "add", "close"} => j.ticket \in Tickets
    /\ step \in {"create", "pop"} => j.aim = 0
    /\ step = "pop" => j.who \in Admins

LEMMA NoJobTyped == NoJob \in Jobs /\ NoJob.aim = 0
BY DEF NoJob, Jobs, Opers, Statuses

LEMMA WriteTyped ==
  ASSUME JobType, NEW op \in Opers, NEW who \in People, NEW t \in Tickets \cup {Nobody}
  PROVE  /\ Write(op, who, t) \in Jobs /\ Write(op, who, t).aim = 0
         /\ Write(op, who, t).who = who /\ Write(op, who, t).ticket = t
         /\ Write(op, who, t).op = op /\ Write(op, who, t).msg = inputs + 1
<1>1. inputs + 1 \in Nat
  BY DEF JobType
<1>2. QED
  BY <1>1, NoJobTyped DEF Write, Jobs

LEMMA SeenTyped ==
  ASSUME NEW j \in Jobs, NEW now \in Statuses
  PROVE  /\ Seen(j, now) \in Jobs
         /\ Seen(j, now).aim = j.aim /\ Seen(j, now).fresh = j.fresh
         /\ Seen(j, now).who = j.who /\ Seen(j, now).ticket = j.ticket
         /\ Seen(j, now).op = j.op /\ Seen(j, now).msg = j.msg
BY DEF Seen, Jobs

LEMMA AimedTyped ==
  ASSUME NEW j \in Jobs, NEW entry \in [ticket: Tickets, aim: Nat, fresh: BOOLEAN]
  PROVE  /\ Aimed(j, entry) \in Jobs
         /\ Aimed(j, entry).aim = entry.aim /\ Aimed(j, entry).fresh = entry.fresh
         /\ Aimed(j, entry).ticket = entry.ticket /\ Aimed(j, entry).who = j.who
         /\ Aimed(j, entry).op = j.op /\ Aimed(j, entry).msg = j.msg
BY DEF Aimed, Jobs

LEMMA MadeTyped ==
  ASSUME NEW j \in Jobs, NEW t \in Tickets
  PROVE  /\ Made(j, t) \in Jobs
         /\ Made(j, t).aim = j.aim /\ Made(j, t).fresh = j.fresh
         /\ Made(j, t).who = j.who /\ Made(j, t).ticket = t
         /\ Made(j, t).op = j.op /\ Made(j, t).msg = j.msg
BY DEF Made, Jobs

LEMMA TextTyped ==
  ASSUME NEW j \in Jobs
  PROVE  /\ Text(j) \in Notes /\ Text(j).aim = j.aim /\ Text(j).fresh = j.fresh
         /\ Text(j).msg = j.msg /\ Text(j).by = j.who
BY DEF Text, Jobs, Notes

LEMMA TidiedReply ==
  ASSUME JobType, NEW a \in Admins
  PROVE  /\ TidyReplies \in [Admins -> Entries]
         /\ \/ TidyReplies[a] = pending[a] /\ pending[a].fresh
            \/ TidyReplies[a] = NoReply
BY DEF JobType, TidyReplies, Current, Entries

\* A new job in the place of an idle one.
LEMMA AcceptTyped ==
  ASSUME JobType, NEW h \in Tasks, NEW step \in Steps, NEW j \in Jobs, Accept(h, step, j)
  PROVE  /\ pc' \in [Tasks -> Steps] /\ job' \in [Tasks -> Jobs]
         /\ pc'[h] = step /\ job'[h] = j
         /\ \A g \in Tasks \ {h}: pc'[g] = pc[g] /\ job'[g] = job[g]
BY DEF Accept, GoTo, JobType

LEMMA ReturnTyped ==
  ASSUME JobType, NEW h \in Tasks, Return(h)
  PROVE  /\ pc' \in [Tasks -> Steps] /\ job' \in [Tasks -> Jobs]
         /\ pc'[h] = "idle" /\ job'[h] = NoJob
         /\ \A g \in Tasks \ {h}: pc'[g] = pc[g] /\ job'[g] = job[g]
BY NoJobTyped DEF Return, GoTo, JobType, Steps

\* A reply pressed for, a job under way and a text in a ticket that come from
\* the same press of the button are the same one, and there is at most one of
\* them: the memory gives its entry to the job, the job to the ticket.
Carries(h) == pc[h] \notin {"idle", "answer"} /\ job[h].aim # 0

OnTheWay ==
    /\ \A a \in Admins: pending[a].aim <= inputs
    /\ \A a, b \in Admins: pending[a].aim # 0 /\ pending[a].aim = pending[b].aim => a = b
    /\ \A h \in Tasks:
          /\ JobReady(pc[h], job[h])
          /\ job[h].aim <= inputs
          /\ Carries(h) =>
                /\ job[h].fresh
                /\ \A a \in Admins: pending[a].aim # job[h].aim
                /\ \A g \in Tasks: Carries(g) /\ job[g].aim = job[h].aim => g = h

Arrived ==
    \A t \in Tickets : \A i \in 1..Len(thread[t]) :
        /\ thread[t][i].aim <= inputs
        /\ thread[t][i].aim # 0 =>
              /\ \A a \in Admins: pending[a].aim # thread[t][i].aim
              /\ \A h \in Tasks: Carries(h) => job[h].aim # thread[t][i].aim

OneEach ==
    \A t \in Tickets : \A i \in 1..Len(thread[t]) :
        thread[t][i].aim # 0 =>
            /\ thread[t][i].fresh
            /\ \A s \in Tickets : \A k \in 1..Len(thread[s]) :
                  thread[s][k].aim = thread[t][i].aim => <<s, k>> = <<t, i>>

AimInv == OnTheWay /\ Arrived /\ OneEach

LEMMA AimInit == Init => JobType /\ AimInv
<1> SUFFICES ASSUME Init PROVE JobType /\ AimInv
  OBVIOUS
<1>1. JobType
  <2>1. thread \in [Tickets -> Seq(Notes)]
    BY DEF Init
  <2>2. pending \in [Admins -> Entries] /\ job \in [Tasks -> Jobs]
    BY NoJobTyped DEF Init, Entries
  <2>3. inputs \in Nat /\ status \in [Tickets -> Statuses] /\ pc \in [Tasks -> Steps]
        /\ state \in [Users -> {"none", "newticket"} \cup Tickets]
    BY DEF Init, Statuses, Steps
  <2>4. QED
    BY <2>1, <2>2, <2>3 DEF JobType
<1>2. OnTheWay
  BY NoJobTyped DEF Init, OnTheWay, NoReply, Carries, JobReady
<1>3. Arrived /\ OneEach
  <2>1. \A t \in Tickets: Len(thread[t]) = 0
    BY DEF Init
  <2>2. QED
    BY <2>1 DEF Arrived, OneEach
<1>4. QED
  BY <1>1, <1>2, <1>3 DEF AimInv

\* A step that adds no text and no carrier: entries are dropped, jobs end, move
\* on or begin without an entry.
LEMMA NothingNew ==
  ASSUME JobType, AimInv, inputs' \in Nat, inputs <= inputs', UNCHANGED thread,
         \A a \in Admins: pending'[a].aim = 0 \/ pending'[a].aim = pending[a].aim,
         \A h \in Tasks:
            /\ JobReady(pc'[h], job'[h])
            /\ \/ job'[h].aim = 0
               \/ /\ job'[h].aim = job[h].aim /\ job'[h].fresh = job[h].fresh
                  /\ pc[h] \in {"idle", "answer"} => pc'[h] = pc[h]
  PROVE  AimInv'
<1>1. ASSUME NEW a \in Admins
      PROVE  pending[a].aim \in Nat /\ pending[a].aim <= inputs /\ pending'[a].aim <= inputs'
  <2>1. pending[a].aim \in Nat
    BY DEF JobType, Entries, NoReply
  <2>2. pending[a].aim <= inputs
    BY DEF AimInv, OnTheWay
  <2>3. QED
    BY <2>1, <2>2 DEF JobType
<1>2. ASSUME NEW h \in Tasks
      PROVE  /\ job[h].aim \in Nat /\ job'[h].aim <= inputs'
             /\ Carries(h)' => /\ Carries(h) /\ job'[h].aim = job[h].aim
                               /\ job'[h].fresh = job[h].fresh
  <2>1. job[h].aim \in Nat /\ inputs \in Nat
    BY DEF JobType, Jobs
  <2>2. job[h].aim <= inputs
    BY DEF AimInv, OnTheWay
  <2>3. job'[h].aim = 0 \/ job'[h].aim = job[h].aim
    OBVIOUS
  <2>4. job'[h].aim <= inputs'
    BY <2>1, <2>2, <2>3
  <2>5. QED
    BY <2>1, <2>4 DEF Carries
<1>3. OnTheWay'
  <2>1. \A a, b \in Admins: pending'[a].aim # 0 /\ pending'[a].aim = pending'[b].aim => a = b
    BY DEF AimInv, OnTheWay
  <2>2. ASSUME NEW h \in Tasks, Carries(h)'
        PROVE  /\ job'[h].fresh
               /\ \A a \in Admins: pending'[a].aim # job'[h].aim
               /\ \A g \in Tasks: Carries(g)' /\ job'[g].aim = job'[h].aim => g = h
    <3>1. Carries(h) /\ job'[h].aim = job[h].aim /\ job'[h].fresh = job[h].fresh /\ job[h].aim # 0
      BY <1>2, <2>2 DEF Carries
    <3>2. QED
      BY <1>2, <3>1 DEF AimInv, OnTheWay
  <2>3. QED
    BY <1>1, <1>2, <2>1, <2>2 DEF OnTheWay
<1>4. Arrived'
  <2> SUFFICES ASSUME NEW t \in Tickets, NEW i \in 1..Len(thread[t])
               PROVE  /\ thread[t][i].aim <= inputs'
                      /\ thread[t][i].aim # 0 =>
                            /\ \A a \in Admins: pending'[a].aim # thread[t][i].aim
                            /\ \A h \in Tasks: Carries(h)' => job'[h].aim # thread[t][i].aim
    BY DEF Arrived
  <2>1. thread[t][i] \in Notes
    BY DEF JobType
  <2>2. thread[t][i].aim \in Nat
    BY <2>1 DEF Notes
  <2>3. thread[t][i].aim <= inputs /\ inputs \in Nat
    BY DEF AimInv, Arrived, JobType
  <2>4. thread[t][i].aim <= inputs'
    BY <2>2, <2>3
  <2>5. QED
    BY <1>2, <2>4 DEF AimInv, Arrived
<1>5. OneEach'
  BY DEF AimInv, OneEach
<1>6. QED
  BY <1>3, <1>4, <1>5 DEF AimInv

\* Steps that concern the memory of the staff, and no job.
LEMMA MemoryKeeps ==
  ASSUME JobType, AimInv, UNCHANGED <<thread, status, pc, job>>,
         inputs' = inputs \/ NewInput,
         state' \in [Users -> {"none", "newticket"} \cup Tickets],
         pending' \in [Admins -> Entries],
         \A a \in Admins: pending'[a].aim = 0 \/ pending'[a].aim = pending[a].aim
  PROVE  JobType' /\ AimInv'
<1>1. inputs' \in Nat /\ inputs <= inputs'
  BY DEF JobType, NewInput
<1>2. JobType'
  BY <1>1 DEF JobType
<1>3. \A h \in Tasks: JobReady(pc'[h], job'[h])
  BY DEF AimInv, OnTheWay
<1>4. QED
  BY <1>1, <1>2, <1>3, NothingNew

LEMMA TidyAims ==
  ASSUME JobType
  PROVE  /\ TidyReplies \in [Admins -> Entries]
         /\ \A a \in Admins: TidyReplies[a].aim = 0 \/ TidyReplies[a].aim = pending[a].aim
BY TidiedReply DEF NoReply, JobType, TidyReplies

\* A job begins; the memory may be tidied.
LEMMA AcceptKeeps ==
  ASSUME JobType, AimInv, NEW h \in Tasks, NEW step \in Steps, NEW j \in Jobs,
         j.aim = 0, JobReady(step, j), Accept(h, step, j), NewInput,
         UNCHANGED <<thread, status, state>>, pending' \in {pending, TidyReplies}
  PROVE  JobType' /\ AimInv'
<1>1. inputs' \in Nat /\ inputs <= inputs'
  BY DEF JobType, NewInput
<1>2. /\ pending' \in [Admins -> Entries]
      /\ \A a \in Admins: pending'[a].aim = 0 \/ pending'[a].aim = pending[a].aim
  BY TidyAims DEF JobType
<1>3. JobType'
  BY <1>1, <1>2, AcceptTyped DEF JobType
<1>4. ASSUME NEW g \in Tasks
      PROVE  /\ JobReady(pc'[g], job'[g])
             /\ job'[g].aim = 0 \/ (job'[g] = job[g] /\ pc'[g] = pc[g])
  BY AcceptTyped DEF AimInv, OnTheWay
<1>5. QED
  BY <1>1, <1>2, <1>3, <1>4, NothingNew

\* A job ends.
LEMMA ReturnKeeps ==
  ASSUME JobType, AimInv, NEW h \in Tasks, Return(h), UNCHANGED <<thread, state, inputs>>,
         status' \in [Tickets -> Statuses], pending' \in [Admins -> Entries],
         \A a \in Admins: pending'[a].aim = 0 \/ pending'[a].aim = pending[a].aim
  PROVE  JobType' /\ AimInv'
<1>1. JobType'
  BY ReturnTyped DEF JobType
<1>2. ASSUME NEW g \in Tasks
      PROVE  /\ JobReady(pc'[g], job'[g])
             /\ job'[g].aim = 0 \/ (job'[g] = job[g] /\ pc'[g] = pc[g])
  <2>1. JobReady("idle", NoJob)
    BY DEF JobReady
  <2>2. QED
    BY <2>1, ReturnTyped, NoJobTyped DEF AimInv, OnTheWay
<1>3. inputs' \in Nat /\ inputs <= inputs'
  BY DEF JobType
<1>4. QED
  BY <1>1, <1>2, <1>3, NothingNew

\* A job goes on.
LEMMA MoveKeeps ==
  ASSUME JobType, AimInv, NEW h \in Tasks, NEW step \in Steps, NEW j \in Jobs,
         pc[h] \notin {"idle", "answer"}, JobReady(step, j),
         j.aim = job[h].aim, j.fresh = job[h].fresh,
         GoTo(h, step), job' = [job EXCEPT ![h] = j],
         UNCHANGED <<thread, inputs, pending>>,
         status' \in [Tickets -> Statuses],
         state' \in [Users -> {"none", "newticket"} \cup Tickets]
  PROVE  JobType' /\ AimInv'
<1>1. /\ pc' \in [Tasks -> Steps] /\ job' \in [Tasks -> Jobs]
      /\ pc'[h] = step /\ job'[h] = j
      /\ \A g \in Tasks \ {h}: pc'[g] = pc[g] /\ job'[g] = job[g]
  BY DEF GoTo, JobType
<1>2. JobType'
  BY <1>1 DEF JobType
<1>3. ASSUME NEW g \in Tasks
      PROVE  /\ JobReady(pc'[g], job'[g])
             /\ job'[g].aim = job[g].aim /\ job'[g].fresh = job[g].fresh
             /\ pc[g] \in {"idle", "answer"} => pc'[g] = pc[g]
  BY <1>1 DEF AimInv, OnTheWay
<1>4. inputs' \in Nat /\ inputs <= inputs'
  BY DEF JobType
<1>5. QED
  BY <1>2, <1>3, <1>4, NothingNew

\* A status is replaced by a status.
LEMMA CommitTyped ==
  ASSUME JobType, NEW h \in Tasks, NEW new \in Statuses, NEW event, Commit(h, new, event)
  PROVE  status' \in [Tickets -> Statuses]
<1>1. status' = IF job[h].seen = new THEN status ELSE [status EXCEPT ![job[h].ticket] = new]
  BY DEF Commit
<1>2. QED
  BY <1>1 DEF JobType

\* The job at a step has what it needs.
LEMMA Ready ==
  ASSUME JobType, AimInv, NEW h \in Tasks
  PROVE  job[h] \in Jobs /\ JobReady(pc[h], job[h])
BY DEF JobType, AimInv, OnTheWay

LEMMA LoadKeeps ==
  ASSUME JobType, AimInv, NEW h \in Tasks, Load(h)
  PROVE  JobType' /\ AimInv'
<1> DEFINE now == status[job[h].ticket]
           step == IF job[h].op = "close" THEN "close"
                   ELSE IF job[h].op = "reply" /\ h \in BotTasks THEN "clear"
                   ELSE IF job[h].op = "reply" /\ now = "closed" THEN "reopen"
                   ELSE "add"
<1>1. /\ pc[h] = "load" /\ GoTo(h, step) /\ job' = [job EXCEPT ![h] = Seen(job[h], now)]
      /\ UNCHANGED <<thread, inputs, pending, status, state>>
  BY DEF Load, tickets, memory
<1>2. job[h] \in Jobs /\ job[h].ticket \in Tickets
  BY <1>1, Ready DEF JobReady
<1>3. now \in Statuses
  BY <1>2 DEF JobType
<1>4. step \in {"close", "clear", "reopen", "add"}
  OBVIOUS
<1>5. JobReady(step, Seen(job[h], now))
  BY <1>2, <1>3, <1>4, SeenTyped DEF JobReady
<1> HIDE DEF now, step
<1>6. /\ step \in Steps /\ Seen(job[h], now) \in Jobs
      /\ Seen(job[h], now).aim = job[h].aim /\ Seen(job[h], now).fresh = job[h].fresh
  BY <1>2, <1>3, <1>4, SeenTyped DEF Steps
<1>7. /\ status' \in [Tickets -> Statuses]
      /\ state' \in [Users -> {"none", "newticket"} \cup Tickets]
  BY <1>1 DEF JobType
<1>8. QED
  BY <1>1, <1>5, <1>6, <1>7, MoveKeeps

LEMMA ClearKeeps ==
  ASSUME JobType, AimInv, NEW h \in Tasks, ClearState(h)
  PROVE  JobType' /\ AimInv'
<1>1. /\ pc[h] = "clear" /\ GoTo(h, AfterClear(job[h])) /\ UNCHANGED job
      /\ state' = [state EXCEPT ![job[h].who] = "none"]
      /\ UNCHANGED <<thread, inputs, pending, status>>
  BY DEF ClearState, tickets, memory
<1>2. job[h] \in Jobs /\ job[h].ticket \in Tickets /\ job' = [job EXCEPT ![h] = job[h]]
  BY <1>1, Ready DEF JobReady, JobType
<1>3. AfterClear(job[h]) \in {"answer", "add"}
  BY DEF AfterClear
<1>4. JobReady(AfterClear(job[h]), job[h]) /\ AfterClear(job[h]) \in Steps
  BY <1>2, <1>3 DEF JobReady, Steps
<1>5. /\ status' \in [Tickets -> Statuses]
      /\ state' \in [Users -> {"none", "newticket"} \cup Tickets]
  BY <1>1 DEF JobType
<1>6. QED
  BY <1>1, <1>2, <1>4, <1>5, MoveKeeps

LEMMA ReopenKeeps ==
  ASSUME JobType, AimInv, NEW h \in Tasks, Reopen(h)
  PROVE  JobType' /\ AimInv'
<1>1. /\ pc[h] = "reopen" /\ GoTo(h, "add") /\ Commit(h, "open", "reopen")
      /\ job' = [job EXCEPT ![h] = Seen(job[h], "open")]
      /\ UNCHANGED <<thread, inputs, pending, state>>
  BY DEF Reopen, memory
<1>2. job[h] \in Jobs /\ job[h].ticket \in Tickets /\ "open" \in Statuses
  BY <1>1, Ready DEF JobReady, Statuses
<1>3. /\ JobReady("add", Seen(job[h], "open")) /\ "add" \in Steps
      /\ Seen(job[h], "open") \in Jobs
      /\ Seen(job[h], "open").aim = job[h].aim /\ Seen(job[h], "open").fresh = job[h].fresh
  BY <1>2, SeenTyped DEF JobReady, Steps
<1>4. /\ status' \in [Tickets -> Statuses]
      /\ state' \in [Users -> {"none", "newticket"} \cup Tickets]
  BY <1>1, <1>2, CommitTyped DEF JobType
<1>5. QED
  BY <1>1, <1>3, <1>4, MoveKeeps

LEMMA CloseKeeps ==
  ASSUME JobType, AimInv, NEW h \in Tasks, SetClosed(h)
  PROVE  JobType' /\ AimInv'
<1>1. /\ pc[h] = "close" /\ Commit(h, "closed", "close")
      /\ UNCHANGED <<thread, inputs, pending, state>>
      /\ (GoTo(h, "drop") /\ UNCHANGED job) \/ Return(h)
  BY DEF SetClosed, memory
<1>2. "closed" \in Statuses /\ "drop" \in Steps
  BY DEF Statuses, Steps
<1>3. /\ status' \in [Tickets -> Statuses]
      /\ state' \in [Users -> {"none", "newticket"} \cup Tickets]
      /\ pending' \in [Admins -> Entries]
  BY <1>1, <1>2, CommitTyped DEF JobType
<1>4. CASE Return(h)
  BY <1>1, <1>3, <1>4, ReturnKeeps
<1>5. CASE GoTo(h, "drop") /\ UNCHANGED job
  <2>1. job[h] \in Jobs /\ job' = [job EXCEPT ![h] = job[h]]
    BY <1>5 DEF JobType
  <2>2. JobReady("drop", job[h])
    BY DEF JobReady
  <2>3. QED
    BY <1>1, <1>2, <1>3, <1>5, <2>1, <2>2, MoveKeeps
<1>6. QED
  BY <1>1, <1>4, <1>5

\* The press of the button: its number is new.
LEMMA StartKeeps ==
  ASSUME JobType, AimInv, NEW a \in Admins, NEW t \in Tickets, AdminReplyStart(a, t)
  PROVE  JobType' /\ AimInv'
<1> DEFINE new == inputs + 1
           entry == [ticket |-> t, aim |-> new, fresh |-> TRUE]
<1>1. /\ inputs \in Nat /\ inputs' = new /\ pending' = [TidyReplies EXCEPT ![a] = entry]
      /\ UNCHANGED <<thread, status, state, pc, job>>
  BY DEF AdminReplyStart, NewInput, JobType, tickets
<1>2. entry \in Entries /\ entry.aim = new
  BY <1>1 DEF Entries
<1> HIDE DEF entry
<1>3. /\ pending' \in [Admins -> Entries] /\ pending'[a].aim = new
      /\ \A b \in Admins \ {a}: pending'[b].aim = 0 \/ pending'[b].aim = pending[b].aim
  BY <1>1, <1>2, TidyAims
<1>4. JobType'
  BY <1>1, <1>3 DEF JobType
<1>5. ASSUME NEW b \in Admins
      PROVE  pending[b].aim \in Nat /\ pending[b].aim <= inputs
  <2>1. pending[b].aim \in Nat
    BY DEF JobType, Entries, NoReply
  <2>2. QED
    BY <2>1 DEF AimInv, OnTheWay
<1>6. ASSUME NEW h \in Tasks
      PROVE  job[h].aim \in Nat /\ job[h].aim <= inputs
  <2>1. job[h].aim \in Nat
    BY DEF JobType, Jobs
  <2>2. QED
    BY <2>1 DEF AimInv, OnTheWay
<1>7. ASSUME NEW s \in Tickets, NEW i \in 1..Len(thread[s])
      PROVE  thread[s][i].aim \in Nat /\ thread[s][i].aim <= inputs
  <2>1. thread[s][i] \in Notes
    BY DEF JobType
  <2>2. QED
    BY <2>1 DEF AimInv, Arrived, Notes
<1>8. OnTheWay'
  <2>1. ASSUME NEW b \in Admins PROVE pending'[b].aim <= inputs'
    BY <1>1, <1>3, <1>5
  <2>2. ASSUME NEW b \in Admins, NEW c \in Admins,
               pending'[b].aim # 0, pending'[b].aim = pending'[c].aim
        PROVE  b = c
    <3>1. \A x \in Admins \ {a}: pending'[x].aim # new
      BY <1>1, <1>3, <1>5
    <3>2. CASE b # a /\ c # a
      BY <1>3, <2>2, <3>2 DEF AimInv, OnTheWay
    <3>3. QED
      BY <1>3, <2>2, <3>1, <3>2
  <2>3. ASSUME NEW h \in Tasks
        PROVE  /\ JobReady(pc'[h], job'[h]) /\ job'[h].aim <= inputs'
               /\ Carries(h)' => Carries(h)
    <3>1. job[h].aim <= inputs'
      BY <1>1, <1>6
    <3>2. QED
      BY <1>1, <3>1 DEF AimInv, OnTheWay, Carries
  <2>4. ASSUME NEW h \in Tasks, Carries(h)'
        PROVE  /\ job'[h].fresh
               /\ \A b \in Admins: pending'[b].aim # job'[h].aim
               /\ \A g \in Tasks: Carries(g)' /\ job'[g].aim = job'[h].aim => g = h
    <3>1. Carries(h) /\ job'[h] = job[h] /\ job[h].aim # 0 /\ job[h].aim # new
      BY <1>1, <1>6, <2>3, <2>4 DEF Carries
    <3>2. \A b \in Admins: pending'[b].aim # job[h].aim
      BY <1>3, <3>1 DEF AimInv, OnTheWay
    <3>3. QED
      BY <1>1, <2>3, <3>1, <3>2 DEF AimInv, OnTheWay
  <2>5. QED
    BY <2>1, <2>2, <2>3, <2>4 DEF OnTheWay
<1>9. Arrived'
  <2> SUFFICES ASSUME NEW s \in Tickets, NEW i \in 1..Len(thread[s])
               PROVE  /\ thread[s][i].aim <= inputs'
                      /\ thread[s][i].aim # 0 =>
                            /\ \A b \in Admins: pending'[b].aim # thread[s][i].aim
                            /\ \A h \in Tasks: Carries(h)' => job'[h].aim # thread[s][i].aim
    BY <1>1 DEF Arrived
  <2>1. thread[s][i].aim <= inputs' /\ thread[s][i].aim # new
    BY <1>1, <1>7
  <2>2. ASSUME thread[s][i].aim # 0
        PROVE  \A b \in Admins: pending'[b].aim # thread[s][i].aim
    BY <1>3, <2>1, <2>2 DEF AimInv, Arrived
  <2>3. ASSUME thread[s][i].aim # 0, NEW h \in Tasks, Carries(h)'
        PROVE  job'[h].aim # thread[s][i].aim
    BY <1>1, <2>3 DEF AimInv, Arrived, Carries
  <2>4. QED
    BY <2>1, <2>2, <2>3
<1>10. OneEach'
  BY <1>1 DEF AimInv, OneEach
<1>11. QED
  BY <1>4, <1>8, <1>9, <1>10 DEF AimInv

\* The memory hands its entry to the job.
LEMMA PopKeeps ==
  ASSUME JobType, AimInv, NEW h \in Tasks, PopPendingReply(h)
  PROVE  JobType' /\ AimInv'
<1> DEFINE a == job[h].who
           entry == TidyReplies[a]
<1>1. /\ pc[h] = "pop" /\ pending' = [TidyReplies EXCEPT ![a] = NoReply]
      /\ UNCHANGED <<thread, status, state, inputs>>
      /\ IF entry = NoReply
         THEN Return(h)
         ELSE GoTo(h, "load") /\ job' = [job EXCEPT ![h] = Aimed(job[h], entry)]
  BY DEF PopPendingReply, AfterPop, tickets
<1>2. a \in Admins /\ job[h].aim = 0 /\ job[h] \in Jobs
  BY <1>1, Ready DEF JobReady
<1>3. entry \in Entries /\ ((entry = pending[a] /\ pending[a].fresh) \/ entry = NoReply)
  BY <1>2, TidiedReply
<1>4. /\ pending' \in [Admins -> Entries] /\ pending'[a] = NoReply
      /\ \A b \in Admins: pending'[b].aim = 0 \/ (b # a /\ pending'[b].aim = pending[b].aim)
  BY <1>1, <1>2, TidyAims DEF NoReply, Entries
<1>5. CASE entry = NoReply
  BY <1>1, <1>4, <1>5, ReturnKeeps DEF JobType
<1>6. CASE entry # NoReply
  <2>1. /\ entry \in [ticket: Tickets, aim: Nat, fresh: BOOLEAN]
        /\ entry = pending[a] /\ entry.fresh
    BY <1>3, <1>6 DEF Entries
  <2> DEFINE j == Aimed(job[h], entry)
  <2>2. j \in Jobs /\ j.aim = pending[a].aim /\ j.fresh /\ j.ticket \in Tickets
    BY <1>2, <2>1, AimedTyped
  <2>3. GoTo(h, "load") /\ job' = [job EXCEPT ![h] = j]
    BY <1>1, <1>6
  <2> HIDE DEF j, entry
  <2>4. /\ pc' \in [Tasks -> Steps] /\ job' \in [Tasks -> Jobs]
        /\ pc'[h] = "load" /\ job'[h] = j
        /\ \A g \in Tasks \ {h}: pc'[g] = pc[g] /\ job'[g] = job[g]
    BY <2>2, <2>3 DEF GoTo, JobType, Steps
  <2>5. JobType'
    BY <1>1, <1>4, <2>4 DEF JobType
  <2>6. \A g \in Tasks: g # h /\ Carries(g)' => Carries(g)
    BY <2>4 DEF Carries
  <2>7. OnTheWay'
    <3>1. ASSUME NEW b \in Admins PROVE pending'[b].aim <= inputs'
      <4>1. 0 <= inputs
        BY DEF JobType
      <4>2. QED
        BY <1>1, <1>4, <4>1 DEF AimInv, OnTheWay
    <3>2. ASSUME NEW b \in Admins, NEW c \in Admins,
                 pending'[b].aim # 0, pending'[b].aim = pending'[c].aim
          PROVE  b = c
      BY <1>4, <3>2 DEF AimInv, OnTheWay
    <3>3. ASSUME NEW g \in Tasks
          PROVE  JobReady(pc'[g], job'[g]) /\ job'[g].aim <= inputs'
      <4>1. CASE g = h
        BY <1>1, <1>2, <2>2, <2>4, <4>1 DEF JobReady, AimInv, OnTheWay
      <4>2. CASE g # h
        BY <1>1, <2>4, <4>2 DEF AimInv, OnTheWay
      <4>3. QED
        BY <4>1, <4>2
    <3>4. ASSUME NEW g \in Tasks, Carries(g)'
          PROVE  /\ job'[g].fresh
                 /\ \A b \in Admins: pending'[b].aim # job'[g].aim
                 /\ \A f \in Tasks: Carries(f)' /\ job'[f].aim = job'[g].aim => f = g
      <4>1. job'[g].aim # 0
        BY <3>4 DEF Carries
      <4>2. CASE g = h
        <5>1. job'[g].aim = pending[a].aim /\ job'[g].fresh
          BY <2>2, <2>4, <4>2
        <5>2. \A b \in Admins: pending'[b].aim # job'[g].aim
          BY <1>2, <1>4, <4>1, <5>1 DEF AimInv, OnTheWay
        <5>3. \A f \in Tasks: f # h /\ Carries(f)' => job'[f].aim # job'[g].aim
          BY <1>2, <2>4, <2>6, <5>1 DEF AimInv, OnTheWay
        <5>4. QED
          BY <4>2, <5>1, <5>2, <5>3
      <4>3. CASE g # h
        <5>1. Carries(g) /\ job'[g] = job[g]
          BY <2>4, <2>6, <3>4, <4>3
        <5>2. \A b \in Admins: pending'[b].aim # job'[g].aim
          BY <1>4, <4>1, <5>1 DEF AimInv, OnTheWay
        <5>3. job'[h].aim # job'[g].aim
          BY <1>2, <2>2, <2>4, <5>1 DEF AimInv, OnTheWay
        <5>4. \A f \in Tasks \ {h}: Carries(f)' /\ job'[f].aim = job'[g].aim => f = g
          BY <2>4, <2>6, <5>1 DEF AimInv, OnTheWay
        <5>5. job'[g].fresh
          BY <5>1 DEF AimInv, OnTheWay
        <5>6. QED
          BY <5>2, <5>3, <5>4, <5>5
      <4>4. QED
        BY <4>2, <4>3
    <3>5. QED
      BY <3>1, <3>2, <3>3, <3>4 DEF OnTheWay
  <2>8. Arrived'
    <3> SUFFICES ASSUME NEW s \in Tickets, NEW i \in 1..Len(thread[s])
                 PROVE  /\ thread[s][i].aim <= inputs
                        /\ thread[s][i].aim # 0 =>
                              /\ \A b \in Admins: pending'[b].aim # thread[s][i].aim
                              /\ \A g \in Tasks: Carries(g)' => job'[g].aim # thread[s][i].aim
      BY <1>1 DEF Arrived
    <3>1. ASSUME thread[s][i].aim # 0
          PROVE  \A b \in Admins: pending'[b].aim # thread[s][i].aim
      BY <1>4, <3>1 DEF AimInv, Arrived
    <3>2. ASSUME thread[s][i].aim # 0, NEW g \in Tasks, Carries(g)'
          PROVE  job'[g].aim # thread[s][i].aim
      <4>1. CASE g = h
        BY <1>2, <2>2, <2>4, <3>2, <4>1 DEF AimInv, Arrived
      <4>2. CASE g # h
        BY <2>4, <2>6, <3>2, <4>2 DEF AimInv, Arrived
      <4>3. QED
        BY <4>1, <4>2
    <3>3. QED
      BY <3>1, <3>2 DEF AimInv, Arrived
  <2>9. OneEach'
    BY <1>1 DEF AimInv, OneEach
  <2>10. QED
    BY <2>5, <2>7, <2>8, <2>9 DEF AimInv
<1>7. QED
  BY <1>5, <1>6

LEMMA RestartForgets ==
  ASSUME JobType, AimInv, RestartBot
  PROVE  JobType' /\ AimInv'
<1>1. /\ UNCHANGED <<thread, status, state, inputs>>
      /\ pending' = [a \in Admins |-> NoReply]
      /\ pc' = [h \in Tasks |-> IF h \in BotTasks THEN "idle" ELSE pc[h]]
      /\ job' = [h \in Tasks |-> IF h \in BotTasks THEN NoJob ELSE job[h]]
  BY DEF RestartBot, tickets
<1>2. JobType'
  <2>1. pending' \in [Admins -> Entries] /\ pc' \in [Tasks -> Steps] /\ job' \in [Tasks -> Jobs]
    BY <1>1, NoJobTyped DEF JobType, Entries, Steps
  <2>2. QED
    BY <1>1, <2>1 DEF JobType
<1>3. \A a \in Admins: pending'[a].aim = 0
  BY <1>1 DEF NoReply
<1>4. ASSUME NEW h \in Tasks
      PROVE  /\ JobReady(pc'[h], job'[h])
             /\ job'[h].aim = 0 \/ (job'[h] = job[h] /\ pc'[h] = pc[h])
  <2>1. JobReady("idle", NoJob)
    BY DEF JobReady
  <2>2. QED
    BY <1>1, <2>1, NoJobTyped DEF AimInv, OnTheWay
<1>5. inputs' \in Nat /\ inputs <= inputs'
  BY <1>1 DEF JobType
<1>6. QED
  BY <1>1, <1>2, <1>3, <1>4, <1>5, NothingNew

\* A new ticket has one text, and no button was pressed for it.
LEMMA CreateKeeps ==
  ASSUME JobType, AimInv, NEW h \in Tasks, CreateSupportTicket(h)
  PROVE  JobType' /\ AimInv'
<1>1. PICK t \in Tickets :
        /\ status' = [status EXCEPT ![t] = "open"]
        /\ thread' = [thread EXCEPT ![t] = <<Text(job[h])>>]
        /\ job' = [job EXCEPT ![h] = Made(job[h], t)]
  BY DEF CreateSupportTicket
<1> DEFINE step == IF h \in BotTasks THEN "clear" ELSE "answer"
           note == Text(job[h])
           j == Made(job[h], t)
<1>2. pc[h] = "create" /\ GoTo(h, step) /\ UNCHANGED <<state, pending, inputs>>
  BY DEF CreateSupportTicket, memory
<1>3. job[h] \in Jobs /\ job[h].aim = 0
  BY <1>2, Ready DEF JobReady
<1>4. note \in Notes /\ note.aim = 0
  BY <1>3, TextTyped
<1>5. j \in Jobs /\ j.aim = 0 /\ j.ticket = t
  BY <1>3, MadeTyped
<1>6. step \in {"clear", "answer"} /\ JobReady(step, j)
  BY <1>5 DEF JobReady
<1> HIDE DEF step, note, j
<1>7. /\ pc' \in [Tasks -> Steps] /\ job' \in [Tasks -> Jobs]
      /\ pc'[h] = step /\ job'[h] = j
      /\ \A g \in Tasks \ {h}: pc'[g] = pc[g] /\ job'[g] = job[g]
  BY <1>1, <1>2, <1>5, <1>6 DEF GoTo, JobType, Steps, j
<1>8. /\ thread' \in [Tickets -> Seq(Notes)]
      /\ Len(thread'[t]) = 1 /\ thread'[t][1].aim = 0
      /\ \A s \in Tickets \ {t}: thread'[s] = thread[s]
  <2>1. <<note>> \in Seq(Notes) /\ Len(<<note>>) = 1 /\ <<note>>[1] = note
    BY <1>4
  <2>2. thread' = [thread EXCEPT ![t] = <<note>>]
    BY <1>1 DEF note
  <2>3. QED
    BY <1>4, <2>1, <2>2 DEF JobType
<1>9. JobType'
  <2>1. status' \in [Tickets -> Statuses]
    BY <1>1 DEF JobType, Statuses
  <2>2. QED
    BY <1>2, <1>7, <1>8, <2>1 DEF JobType
<1>10. \A g \in Tasks: Carries(g)' => g # h /\ Carries(g) /\ job'[g] = job[g]
  BY <1>5, <1>7 DEF Carries
<1>11. OnTheWay'
  <2>1. ASSUME NEW g \in Tasks PROVE JobReady(pc'[g], job'[g]) /\ job'[g].aim <= inputs'
    <3>1. 0 <= inputs
      BY DEF JobType
    <3>2. QED
      BY <1>2, <1>5, <1>6, <1>7, <3>1 DEF AimInv, OnTheWay
  <2>2. QED
    BY <1>2, <1>10, <2>1 DEF AimInv, OnTheWay
<1>12. Arrived'
  <2> SUFFICES ASSUME NEW s \in Tickets, NEW i \in 1..Len(thread'[s])
               PROVE  /\ thread'[s][i].aim <= inputs
                      /\ thread'[s][i].aim # 0 =>
                            /\ \A a \in Admins: pending[a].aim # thread'[s][i].aim
                            /\ \A g \in Tasks: Carries(g)' => job'[g].aim # thread'[s][i].aim
    BY <1>2 DEF Arrived
  <2>1. CASE s = t
    <3>1. 1..Len(thread'[s]) = 1..1
      BY <1>8, <2>1
    <3>2. 0 <= inputs
      BY DEF JobType
    <3>3. QED
      BY <1>8, <2>1, <3>1, <3>2
  <2>2. CASE s # t
    BY <1>8, <1>10, <2>2 DEF AimInv, Arrived
  <2>3. QED
    BY <2>1, <2>2
<1>13. OneEach'
  <2>1. ASSUME NEW s \in Tickets, NEW i \in 1..Len(thread'[s]), thread'[s][i].aim # 0
        PROVE  s # t /\ i \in 1..Len(thread[s]) /\ thread'[s][i] = thread[s][i]
    <3>1. CASE s = t
      <4>1. 1..Len(thread'[s]) = 1..1
        BY <1>8, <3>1
      <4>2. QED
        BY <1>8, <2>1, <3>1, <4>1
    <3>2. CASE s # t
      BY <1>8, <3>2
    <3>3. QED
      BY <3>1, <3>2
  <2>2. ASSUME NEW s \in Tickets, NEW i \in 1..Len(thread'[s]), thread'[s][i].aim # 0
        PROVE  thread'[s][i].fresh
    BY <2>1, <2>2 DEF AimInv, OneEach
  <2>3. ASSUME NEW s \in Tickets, NEW i \in 1..Len(thread'[s]), thread'[s][i].aim # 0,
               NEW r \in Tickets, NEW k \in 1..Len(thread'[r]),
               thread'[r][k].aim = thread'[s][i].aim
        PROVE  r = s /\ k = i
    <3>1. /\ i \in 1..Len(thread[s]) /\ thread'[s][i] = thread[s][i]
          /\ k \in 1..Len(thread[r]) /\ thread'[r][k] = thread[r][k]
      BY <2>1, <2>3
    <3>2. <<r, k>> = <<s, i>>
      BY <2>3, <3>1 DEF AimInv, OneEach
    <3>3. QED
      BY <3>2
  <2>4. QED
    BY <2>2, <2>3 DEF OneEach
<1>14. QED
  BY <1>9, <1>11, <1>12, <1>13 DEF AimInv

\* The text of a job goes into its ticket, and the job carries it no more.
LEMMA AddKeeps ==
  ASSUME JobType, AimInv, NEW h \in Tasks, AddSupportMessage(h)
  PROVE  JobType' /\ AimInv'
<1> DEFINE t == job[h].ticket
           note == Text(job[h])
           end == Len(thread[t]) + 1
<1>1. /\ pc[h] = "add" /\ GoTo(h, "answer") /\ UNCHANGED <<job, state, pending, inputs>>
      /\ thread' = [thread EXCEPT ![t] = Append(thread[t], note)]
      /\ Commit(h, StatusAfter(job[h]), IF job[h].op = "answer" THEN "staff" ELSE "user")
  BY DEF AddSupportMessage, memory
<1>2. job[h] \in Jobs /\ t \in Tickets
  BY <1>1, Ready DEF JobReady
<1>3. note \in Notes /\ note.aim = job[h].aim /\ note.fresh = job[h].fresh
  BY <1>2, TextTyped
<1>4. StatusAfter(job[h]) \in Statuses
  BY DEF StatusAfter, Statuses
<1>5. status' \in [Tickets -> Statuses]
  BY <1>1, <1>4, CommitTyped
<1> HIDE DEF note
<1>6. thread[t] \in Seq(Notes)
  BY <1>2 DEF JobType
<1>7. /\ Append(thread[t], note) \in Seq(Notes) /\ end \in Nat
      /\ Len(Append(thread[t], note)) = end /\ Append(thread[t], note)[end] = note
      /\ \A i \in 1..Len(thread[t]): Append(thread[t], note)[i] = thread[t][i]
  BY <1>3, <1>6
<1>8. /\ thread' \in [Tickets -> Seq(Notes)] /\ thread'[t] = Append(thread[t], note)
      /\ \A s \in Tickets \ {t}: thread'[s] = thread[s]
  BY <1>1, <1>2, <1>7 DEF JobType
<1>9. /\ pc' \in [Tasks -> Steps] /\ pc'[h] = "answer"
      /\ \A g \in Tasks \ {h}: pc'[g] = pc[g]
  BY <1>1 DEF GoTo, JobType, Steps
<1>10. JobType'
  BY <1>1, <1>5, <1>8, <1>9 DEF JobType
<1>11. \A g \in Tasks: Carries(g)' => g # h /\ Carries(g)
  BY <1>1, <1>9 DEF Carries
<1>12. note.aim # 0 => Carries(h)
  BY <1>1, <1>3 DEF Carries
\* A text of a ticket is the new one, or was there.
<1>13. ASSUME NEW s \in Tickets, NEW i \in 1..Len(thread'[s])
       PROVE  \/ s = t /\ i = end /\ thread'[s][i] = note
              \/ i \in 1..Len(thread[s]) /\ thread'[s][i] = thread[s][i]
  <2>1. CASE s = t
    <3>1. i \in 1..end
      BY <1>7, <1>8, <2>1
    <3>2. CASE i = end
      BY <1>7, <1>8, <2>1, <3>2
    <3>3. CASE i # end
      <4>1. i \in 1..Len(thread[t])
        BY <1>6, <3>1, <3>3
      <4>2. QED
        BY <1>7, <1>8, <2>1, <4>1
    <3>4. QED
      BY <3>2, <3>3
  <2>2. CASE s # t
    BY <1>8, <2>2
  <2>3. QED
    BY <2>1, <2>2
<1>14. OnTheWay'
  <2>1. ASSUME NEW g \in Tasks PROVE JobReady(pc'[g], job'[g])
    BY <1>1, <1>9, <2>1 DEF AimInv, OnTheWay, JobReady
  <2>2. QED
    BY <1>1, <1>11, <2>1 DEF AimInv, OnTheWay
<1>15. Arrived'
  <2> SUFFICES ASSUME NEW s \in Tickets, NEW i \in 1..Len(thread'[s])
               PROVE  /\ thread'[s][i].aim <= inputs
                      /\ thread'[s][i].aim # 0 =>
                            /\ \A a \in Admins: pending[a].aim # thread'[s][i].aim
                            /\ \A g \in Tasks: Carries(g)' => job[g].aim # thread'[s][i].aim
    BY <1>1 DEF Arrived
  <2>1. CASE thread'[s][i] = note
    <3>1. note.aim <= inputs
      BY <1>3 DEF AimInv, OnTheWay
    <3>2. ASSUME note.aim # 0 PROVE \A a \in Admins: pending[a].aim # note.aim
      BY <1>3, <1>12, <3>2 DEF AimInv, OnTheWay
    <3>3. ASSUME note.aim # 0, NEW g \in Tasks, Carries(g)' PROVE job[g].aim # note.aim
      BY <1>3, <1>11, <1>12, <3>3 DEF AimInv, OnTheWay
    <3>4. QED
      BY <2>1, <3>1, <3>2, <3>3
  <2>2. CASE i \in 1..Len(thread[s]) /\ thread'[s][i] = thread[s][i]
    BY <1>11, <2>2 DEF AimInv, Arrived
  <2>3. QED
    BY <1>13, <2>1, <2>2
<1>16. OneEach'
  <2>1. ASSUME NEW s \in Tickets, NEW i \in 1..Len(thread'[s]), thread'[s][i].aim # 0
        PROVE  thread'[s][i].fresh
    <3>1. CASE thread'[s][i] = note
      BY <1>3, <1>12, <2>1, <3>1 DEF AimInv, OnTheWay
    <3>2. CASE i \in 1..Len(thread[s]) /\ thread'[s][i] = thread[s][i]
      BY <2>1, <3>2 DEF AimInv, OneEach
    <3>3. QED
      BY <1>13, <3>1, <3>2
  <2>2. ASSUME NEW s \in Tickets, NEW i \in 1..Len(thread[s]), thread[s][i].aim # 0
        PROVE  thread[s][i].aim # note.aim
    BY <1>3, <1>12, <2>2 DEF AimInv, Arrived
  <2>3. ASSUME NEW s \in Tickets, NEW i \in 1..Len(thread'[s]), thread'[s][i].aim # 0,
               NEW r \in Tickets, NEW k \in 1..Len(thread'[r]),
               thread'[r][k].aim = thread'[s][i].aim
        PROVE  r = s /\ k = i
    <3>1. CASE i \in 1..Len(thread[s]) /\ thread'[s][i] = thread[s][i]
      <4>1. k \in 1..Len(thread[r]) /\ thread'[r][k] = thread[r][k]
        BY <1>13, <2>2, <2>3, <3>1
      <4>2. <<r, k>> = <<s, i>>
        BY <2>3, <3>1, <4>1 DEF AimInv, OneEach
      <4>3. QED
        BY <4>2
    <3>2. CASE s = t /\ i = end /\ thread'[s][i] = note
      <4>1. ~(k \in 1..Len(thread[r]) /\ thread'[r][k] = thread[r][k])
        BY <2>2, <2>3, <3>2
      <4>2. r = t /\ k = end
        BY <1>13, <4>1
      <4>3. QED
        BY <3>2, <4>2
    <3>3. QED
      BY <1>13, <3>1, <3>2
  <2>4. QED
    BY <2>1, <2>3 DEF OneEach
<1>17. QED
  BY <1>10, <1>14, <1>15, <1>16 DEF AimInv

LEMMA AimNext == JobType /\ AimInv /\ [Next]_vars => JobType' /\ AimInv'
<1> SUFFICES ASSUME JobType, AimInv, [Next]_vars PROVE JobType' /\ AimInv'
  OBVIOUS
<1>0. /\ pending \in [Admins -> Entries]
      /\ state \in [Users -> {"none", "newticket"} \cup Tickets]
      /\ status \in [Tickets -> Statuses]
  BY DEF JobType
<1>1. CASE UNCHANGED vars
  BY <1>0, <1>1, MemoryKeeps DEF vars, tickets, memory
<1>2. ASSUME NEW u \in Users, ChooseTopic(u) \/ \E t \in Tickets : ReplyTicket(u, t)
      PROVE  JobType' /\ AimInv'
  <2>1. state' \in [Users -> {"none", "newticket"} \cup Tickets]
    BY <1>0, <1>2 DEF ChooseTopic, ReplyTicket
  <2>2. QED
    BY <1>0, <1>2, <2>1, MemoryKeeps DEF ChooseTopic, ReplyTicket, tickets, memory
<1>3. ASSUME NEW h \in Tasks, NEW p \in People,
             \/ CollectSupportProblem(h, p) /\ p \in Users
             \/ SupportRequest(h, p) /\ p \in Users
             \/ \E t \in Tickets : CloseRequest(h, p, t)
             \/ AdminText(h, p) /\ p \in Admins
             \/ \E t \in Tickets : TicketReply(h, p, t)
      PROVE  JobType' /\ AimInv'
  <2>0. PICK step \in Steps, op \in Opers, t \in Tickets \cup {Nobody} :
           /\ NewInput
           /\ \/ Accept(h, step, Write(op, p, t))
              \/ Accept(h, step, [NoJob EXCEPT !.op = "close", !.who = p, !.ticket = t])
           /\ \/ step = "create"
              \/ step = "pop" /\ p \in Admins
              \/ step = "load" /\ t \in Tickets
    <3>1. CASE CollectSupportProblem(h, p) /\ p \in Users
      <4>1. CASE state[p] = "newticket"
        BY <3>1, <4>1 DEF CollectSupportProblem, Steps, Opers
      <4>2. CASE state[p] # "newticket"
        <5>1. state[p] \in Tickets
          BY <1>0, <3>1, <4>2 DEF CollectSupportProblem
        <5>2. QED
          BY <3>1, <4>2, <5>1 DEF CollectSupportProblem, Steps, Opers
      <4>3. QED
        BY <4>1, <4>2
    <3>2. CASE SupportRequest(h, p) /\ p \in Users
      BY <3>2 DEF SupportRequest, Steps, Opers
    <3>3. CASE \E t \in Tickets : CloseRequest(h, p, t)
      BY <3>3 DEF CloseRequest, Steps, Opers
    <3>4. CASE AdminText(h, p) /\ p \in Admins
      BY <3>4 DEF AdminText, Steps, Opers
    <3>5. CASE \E t \in Tickets : TicketReply(h, p, t)
      BY <3>5 DEF TicketReply, Steps, Opers
    <3>6. QED
      BY <1>3, <3>1, <3>2, <3>3, <3>4, <3>5
  <2>1. PICK j :
           /\ Accept(h, step, j)
           /\ j = Write(op, p, t) \/ j = [NoJob EXCEPT !.op = "close", !.who = p, !.ticket = t]
    BY <2>0
  <2>2. j \in Jobs /\ j.aim = 0 /\ j.who = p /\ j.ticket = t
    <3>1. CASE j = Write(op, p, t)
      BY <3>1, WriteTyped
    <3>2. CASE j = [NoJob EXCEPT !.op = "close", !.who = p, !.ticket = t]
      BY <3>2, NoJobTyped DEF Jobs, Opers
    <3>3. QED
      BY <2>1, <3>1, <3>2
  <2>3. JobReady(step, j)
    BY <2>0, <2>2 DEF JobReady
  <2>4. UNCHANGED <<thread, status, state>> /\ pending' \in {pending, TidyReplies}
    BY <1>3 DEF CollectSupportProblem, SupportRequest, CloseRequest, AdminText, TicketReply,
       tickets, memory
  <2>5. QED
    BY <2>0, <2>1, <2>2, <2>3, <2>4, AcceptKeeps
<1>4. ASSUME NEW h \in Tasks, Answer(h) \/ Die(h) PROVE JobType' /\ AimInv'
  BY <1>0, <1>4, ReturnKeeps DEF Answer, Die, tickets, memory
<1>5. ASSUME NEW h \in Tasks, DropPendingReply(h) PROVE JobType' /\ AimInv'
  <2>1. /\ pending' = [pending EXCEPT ![job[h].who] = NoReply]
        /\ Return(h) /\ UNCHANGED <<thread, state, inputs, status>>
    BY <1>5 DEF DropPendingReply, tickets
  <2>2. /\ pending' \in [Admins -> Entries]
        /\ \A a \in Admins: pending'[a].aim = 0 \/ pending'[a].aim = pending[a].aim
    BY <1>0, <2>1 DEF Entries, NoReply
  <2>3. QED
    BY <1>0, <2>1, <2>2, ReturnKeeps
<1>6. ASSUME NEW a \in Admins, AdminCancelReply(a) PROVE JobType' /\ AimInv'
  <2>1. pending' = [TidyReplies EXCEPT ![a] = NoReply]
    BY <1>6 DEF AdminCancelReply
  <2>2. /\ pending' \in [Admins -> Entries]
        /\ \A b \in Admins: pending'[b].aim = 0 \/ pending'[b].aim = pending[b].aim
    BY <2>1, TidyAims DEF Entries, NoReply
  <2>3. QED
    BY <1>0, <1>6, <2>2, MemoryKeeps DEF AdminCancelReply, tickets
<1>7. ASSUME NEW a \in Admins, ReplyAges(a) PROVE JobType' /\ AimInv'
  <2>1. /\ pending' = [pending EXCEPT ![a] = [ticket |-> pending[a].ticket,
                                              aim |-> pending[a].aim, fresh |-> FALSE]]
        /\ pending[a].fresh
    BY <1>7 DEF ReplyAges
  <2>2. pending[a] \in [ticket: Tickets, aim: Nat, fresh: BOOLEAN]
    BY <1>0, <2>1 DEF Entries, NoReply
  <2>3. /\ pending' \in [Admins -> Entries]
        /\ \A b \in Admins: pending'[b].aim = 0 \/ pending'[b].aim = pending[b].aim
    BY <1>0, <2>1, <2>2 DEF Entries
  <2>4. QED
    BY <1>0, <1>7, <2>3, MemoryKeeps DEF ReplyAges, tickets
<1>8. ASSUME NEW a \in Admins, Broadcast(a) \/ ConfirmBroadcast(a) PROVE JobType' /\ AimInv'
  BY <1>0, <1>8, TidyAims, MemoryKeeps DEF Broadcast, ConfirmBroadcast, tickets
<1>9. ASSUME NEW a \in Admins, DraftAges(a) \/ CancelBroadcast(a) PROVE JobType' /\ AimInv'
  BY <1>0, <1>9, MemoryKeeps DEF DraftAges, CancelBroadcast, tickets
<1>10. ASSUME NEW d \in Inputs, NEW u \in Users, SendBroadcast(d, u) \/ SkipRecipient(d, u)
       PROVE  JobType' /\ AimInv'
  BY <1>0, <1>10, MemoryKeeps DEF SendBroadcast, SkipRecipient, tickets
<1>11. Users \subseteq People /\ Admins \subseteq People
  BY DEF People
<1>12. QED
  BY <1>1, <1>2, <1>3, <1>4, <1>5, <1>6, <1>7, <1>8, <1>9, <1>10, <1>11, StartKeeps,
     PopKeeps, LoadKeeps, ClearKeeps, ReopenKeeps, CloseKeeps, CreateKeeps, AddKeeps,
     RestartForgets DEF Next

\* What comes from a press is for the ticket of that press, wherever it is: in
\* the memory, in the hands of a job, in a ticket.
From(aim, t) == aim # 0 => pressed[aim] = t

PressInv ==
    /\ pressed \in [Inputs -> Tickets \cup {Nobody}]
    /\ \A a \in Admins: From(pending[a].aim, pending[a].ticket)
    /\ \A h \in Tasks: From(job[h].aim, job[h].ticket)
    /\ \A t \in Tickets : \A i \in 1..Len(thread[t]) : From(thread[t][i].aim, t)

LEMMA PressInit == Init => PressInv
<1> SUFFICES ASSUME Init PROVE PressInv
  OBVIOUS
<1>1. \A t \in Tickets: Len(thread[t]) = 0
  BY DEF Init
<1>2. QED
  BY <1>1, NoJobTyped DEF Init, PressInv, From, NoReply

\* A step that presses nothing: an entry or a job is dropped, stays for its
\* ticket, or begins without a press.
LEMMA PressKeeps ==
  ASSUME PressInv, UNCHANGED <<pressed, thread>>,
         \A a \in Admins: \/ pending'[a].aim = 0
                          \/ /\ pending'[a].aim = pending[a].aim
                             /\ pending'[a].ticket = pending[a].ticket,
         \A h \in Tasks: \/ job'[h].aim = 0
                         \/ job'[h].aim = job[h].aim /\ job'[h].ticket = job[h].ticket
  PROVE  PressInv'
BY DEF PressInv, From

LEMMA TidyPresses ==
  ASSUME JobType
  PROVE  \A a \in Admins: TidyReplies[a] = pending[a] \/ TidyReplies[a].aim = 0
BY TidiedReply DEF NoReply

\* One job changes, and the memory is tidied at most.
LEMMA JobPresses ==
  ASSUME JobType, PressInv, NEW h \in Tasks, NEW j, job' = [job EXCEPT ![h] = j],
         j.aim = 0 \/ (j.aim = job[h].aim /\ j.ticket = job[h].ticket),
         UNCHANGED <<pressed, thread>>, pending' \in {pending, TidyReplies}
  PROVE  PressInv'
<1>1. \A g \in Tasks: \/ job'[g].aim = 0
                      \/ job'[g].aim = job[g].aim /\ job'[g].ticket = job[g].ticket
  BY DEF JobType
<1>2. \A a \in Admins: \/ pending'[a].aim = 0
                       \/ pending'[a].aim = pending[a].aim /\ pending'[a].ticket = pending[a].ticket
  BY TidyPresses
<1>3. QED
  BY <1>1, <1>2, PressKeeps

\* The press itself: its number is new.
LEMMA StartPresses ==
  ASSUME JobType, AimInv, PressInv, NEW a \in Admins, NEW t \in Tickets,
         AdminReplyStart(a, t)
  PROVE  PressInv'
<1> DEFINE new == inputs + 1
           entry == [ticket |-> t, aim |-> new, fresh |-> TRUE]
<1>1. /\ pending' = [TidyReplies EXCEPT ![a] = entry] /\ pressed' = [pressed EXCEPT ![new] = t]
      /\ inputs < MaxInputs /\ UNCHANGED <<thread, job>>
  BY DEF AdminReplyStart, NewInput, tickets
<1>2. inputs \in Nat /\ new \in Inputs
  BY <1>1, ConstantsAssumption DEF JobType, Inputs
<1>3. /\ pressed' \in [Inputs -> Tickets \cup {Nobody}] /\ pressed'[new] = t
      /\ \A n : n <= inputs /\ n \in Nat /\ n # 0 => pressed'[n] = pressed[n]
  <2>1. pressed' \in [Inputs -> Tickets \cup {Nobody}] /\ pressed'[new] = t
    BY <1>1, <1>2 DEF PressInv
  <2>2. ASSUME NEW n \in Nat, n <= inputs, n # 0 PROVE pressed'[n] = pressed[n]
    <3>1. n \in Inputs /\ n # new
      BY <1>1, <1>2, <2>2, ConstantsAssumption DEF Inputs
    <3>2. QED
      BY <1>1, <3>1 DEF PressInv
  <2>3. QED
    BY <2>1, <2>2
<1>4. ASSUME NEW b \in Admins PROVE From(pending[b].aim, pending[b].ticket)'
  <2>1. TidyReplies \in [Admins -> Entries]
    BY TidyAims
  <2>2. CASE b = a
    <3>1. pending'[b] = entry
      BY <1>1, <2>1, <2>2
    <3>2. QED
      BY <1>3, <3>1 DEF From
  <2>3. CASE b # a
    <3>1. pending'[b] = pending[b] \/ pending'[b].aim = 0
      BY <1>1, <2>1, <2>3, TidyPresses
    <3>2. pending[b].aim \in Nat /\ pending[b].aim <= inputs
      BY DEF JobType, Entries, NoReply, AimInv, OnTheWay
    <3>3. QED
      BY <1>3, <3>1, <3>2 DEF PressInv, From
  <2>4. QED
    BY <2>2, <2>3
<1>5. ASSUME NEW h \in Tasks PROVE From(job[h].aim, job[h].ticket)'
  <2>1. job[h].aim \in Nat /\ job[h].aim <= inputs
    BY DEF JobType, Jobs, AimInv, OnTheWay
  <2>2. QED
    BY <1>1, <1>3, <2>1 DEF PressInv, From
<1>6. ASSUME NEW s \in Tickets, NEW i \in 1..Len(thread[s]) PROVE From(thread[s][i].aim, s)'
  <2>1. thread[s][i] \in Notes
    BY DEF JobType
  <2>2. thread[s][i].aim \in Nat /\ thread[s][i].aim <= inputs
    BY <2>1 DEF Notes, AimInv, Arrived
  <2>3. QED
    BY <1>1, <1>3, <2>2 DEF PressInv, From
<1>7. QED
  BY <1>1, <1>3, <1>4, <1>5, <1>6 DEF PressInv

\* The job takes the ticket of the entry with the entry's press.
LEMMA PopPresses ==
  ASSUME JobType, AimInv, PressInv, NEW h \in Tasks, PopPendingReply(h)
  PROVE  PressInv'
<1> DEFINE a == job[h].who
           entry == TidyReplies[a]
<1>1. /\ pc[h] = "pop" /\ pending' = [TidyReplies EXCEPT ![a] = NoReply]
      /\ UNCHANGED <<thread, pressed>>
      /\ IF entry = NoReply
         THEN Return(h)
         ELSE job' = [job EXCEPT ![h] = Aimed(job[h], entry)]
  BY DEF PopPendingReply, AfterPop, tickets, histories
<1>2. a \in Admins /\ job[h] \in Jobs
  BY <1>1, Ready DEF JobReady
<1>3. \A b \in Admins: \/ pending'[b].aim = 0
                       \/ pending'[b].aim = pending[b].aim /\ pending'[b].ticket = pending[b].ticket
  BY <1>1, TidyPresses, TidyAims DEF NoReply
<1>4. CASE entry = NoReply
  BY <1>1, <1>3, <1>4, NoJobTyped, PressKeeps DEF Return, JobType
<1>5. CASE entry # NoReply
  <2>1. entry \in [ticket: Tickets, aim: Nat, fresh: BOOLEAN] /\ entry = pending[a]
    BY <1>2, <1>5, TidiedReply DEF Entries
  <2> DEFINE j == Aimed(job[h], entry)
  <2>2. j.aim = pending[a].aim /\ j.ticket = pending[a].ticket
    BY <1>2, <2>1, AimedTyped
  <2>3. job' = [job EXCEPT ![h] = j]
    BY <1>1, <1>5
  <2> HIDE DEF j, entry
  <2>4. ASSUME NEW g \in Tasks PROVE From(job[g].aim, job[g].ticket)'
    <3>1. CASE g = h
      BY <1>1, <1>2, <2>2, <2>3, <3>1 DEF PressInv, From, JobType
    <3>2. CASE g # h
      BY <1>1, <2>3, <3>2 DEF PressInv, From, JobType
    <3>3. QED
      BY <3>1, <3>2
  <2>5. QED
    BY <1>1, <1>3, <2>4 DEF PressInv, From
<1>6. QED
  BY <1>4, <1>5

\* A new ticket comes from no press.
LEMMA CreatePresses ==
  ASSUME JobType, AimInv, PressInv, NEW h \in Tasks, CreateSupportTicket(h)
  PROVE  PressInv'
<1>1. PICK t \in Tickets :
        /\ thread' = [thread EXCEPT ![t] = <<Text(job[h])>>]
        /\ job' = [job EXCEPT ![h] = Made(job[h], t)]
  BY DEF CreateSupportTicket
<1>2. pc[h] = "create" /\ UNCHANGED <<pending, pressed>>
  BY DEF CreateSupportTicket, memory, histories
<1> DEFINE note == Text(job[h])  j == Made(job[h], t)
<1>3. note.aim = 0 /\ j.aim = 0
  BY <1>2, Ready, TextTyped, MadeTyped DEF JobReady
<1> HIDE DEF note, j
<1>4. ASSUME NEW g \in Tasks PROVE From(job[g].aim, job[g].ticket)'
  <2>1. job' = [job EXCEPT ![h] = j]
    BY <1>1 DEF j
  <2>2. QED
    BY <1>2, <1>3, <2>1 DEF PressInv, From, JobType
<1>5. ASSUME NEW s \in Tickets, NEW i \in 1..Len(thread'[s]) PROVE From(thread[s][i].aim, s)'
  <2>1. thread' = [thread EXCEPT ![t] = <<note>>]
    BY <1>1 DEF note
  <2>2. CASE s = t
    <3>1. thread'[s] = <<note>> /\ 1..Len(thread'[s]) = 1..1
      BY <2>1, <2>2 DEF JobType
    <3>2. QED
      BY <1>3, <3>1 DEF From
  <2>3. CASE s # t
    BY <1>2, <2>1, <2>3 DEF PressInv, From, JobType
  <2>4. QED
    BY <2>2, <2>3
<1>6. QED
  BY <1>2, <1>4, <1>5 DEF PressInv, From

\* A text is added to the ticket of its job.
LEMMA AddPresses ==
  ASSUME JobType, AimInv, PressInv, NEW h \in Tasks, AddSupportMessage(h)
  PROVE  PressInv'
<1> DEFINE note == Text(job[h])  t == job[h].ticket
<1>1. /\ thread' = [thread EXCEPT ![t] = Append(thread[t], note)] /\ pc[h] = "add"
      /\ UNCHANGED <<job, pending, pressed>>
  BY DEF AddSupportMessage, memory, histories
<1>2. note.aim = job[h].aim /\ note \in Notes /\ t \in Tickets
  BY <1>1, Ready, TextTyped DEF JobReady
<1> HIDE DEF note
<1>3. ASSUME NEW s \in Tickets, NEW i \in 1..Len(thread'[s]) PROVE From(thread[s][i].aim, s)'
  <2>1. CASE s = t
    <3>1. thread[t] \in Seq(Notes) /\ thread'[s] = Append(thread[t], note)
      BY <1>1, <1>2, <2>1 DEF JobType
    <3>2. \/ i = Len(thread[t]) + 1 /\ thread'[s][i] = note
          \/ i \in 1..Len(thread[t]) /\ thread'[s][i] = thread[t][i]
      BY <1>2, <3>1
    <3>3. QED
      BY <1>1, <1>2, <2>1, <3>2 DEF PressInv, From
  <2>2. CASE s # t
    BY <1>1, <2>2 DEF PressInv, From, JobType
  <2>3. QED
    BY <2>1, <2>2
<1>4. QED
  BY <1>1, <1>3 DEF PressInv, From

LEMMA PressNext == JobType /\ AimInv /\ PressInv /\ [Next]_vars => PressInv'
<1> SUFFICES ASSUME JobType, AimInv, PressInv, [Next]_vars PROVE PressInv'
  OBVIOUS
\* Steps of no job.
<1>1. ASSUME UNCHANGED <<pressed, thread, job>>, pending' \in {pending, TidyReplies}
      PROVE  PressInv'
  BY <1>1, TidyPresses, PressKeeps
<1>2. CASE UNCHANGED vars
  BY <1>1, <1>2 DEF vars, tickets, memory, histories
<1>3. ASSUME NEW u \in Users, ChooseTopic(u) \/ \E t \in Tickets : ReplyTicket(u, t)
      PROVE  PressInv'
  BY <1>1, <1>3 DEF ChooseTopic, ReplyTicket, tickets, memory, histories
<1>4. ASSUME NEW h \in Tasks, NEW p \in People,
             \/ CollectSupportProblem(h, p) \/ SupportRequest(h, p)
             \/ \E t \in Tickets : CloseRequest(h, p, t) \/ TicketReply(h, p, t)
             \/ AdminText(h, p)
      PROVE  PressInv'
  <2>1. PICK step, op, t :
           /\ UNCHANGED <<thread, pressed>> /\ pending' \in {pending, TidyReplies}
           /\ \/ Accept(h, step, Write(op, p, t))
              \/ Accept(h, step, [NoJob EXCEPT !.op = "close", !.who = p, !.ticket = t])
    BY <1>4 DEF CollectSupportProblem, SupportRequest, CloseRequest, TicketReply, AdminText,
       tickets, memory, histories
  <2>2. /\ Write(op, p, t).aim = 0
        /\ [NoJob EXCEPT !.op = "close", !.who = p, !.ticket = t].aim = 0
    BY DEF Write, NoJob
  <2>3. CASE Accept(h, step, Write(op, p, t))
    BY <2>1, <2>2, <2>3, JobPresses DEF Accept
  <2>4. CASE Accept(h, step, [NoJob EXCEPT !.op = "close", !.who = p, !.ticket = t])
    BY <2>1, <2>2, <2>4, JobPresses DEF Accept
  <2>5. QED
    BY <2>1, <2>3, <2>4
<1>5. ASSUME NEW h \in Tasks, Return(h), UNCHANGED <<thread, pressed, pending>> PROVE PressInv'
  BY <1>5, NoJobTyped, JobPresses DEF Return
<1>6. ASSUME NEW h \in Tasks, Answer(h) \/ Die(h) PROVE PressInv'
  BY <1>5, <1>6 DEF Answer, Die, tickets, memory, histories
<1>7. ASSUME NEW h \in Tasks, DropPendingReply(h) PROVE PressInv'
  <2>1. /\ pending' = [pending EXCEPT ![job[h].who] = NoReply]
        /\ job' = [job EXCEPT ![h] = NoJob] /\ UNCHANGED <<thread, pressed>>
    BY <1>7 DEF DropPendingReply, Return, tickets, histories
  <2>2. \A a \in Admins: pending'[a] = pending[a] \/ pending'[a].aim = 0
    BY <2>1 DEF NoReply, JobType
  <2>3. \A g \in Tasks: job'[g] = job[g] \/ job'[g].aim = 0
    BY <2>1, NoJobTyped DEF JobType
  <2>4. QED
    BY <2>1, <2>2, <2>3, PressKeeps
<1>8. ASSUME NEW h \in Tasks, Load(h) \/ Reopen(h) PROVE PressInv'
  <2>1. PICK now : job' = [job EXCEPT ![h] = Seen(job[h], now)]
    BY <1>8 DEF Load, Reopen
  <2>2. Seen(job[h], now).aim = job[h].aim /\ Seen(job[h], now).ticket = job[h].ticket
    BY DEF Seen, JobType, Jobs
  <2>3. UNCHANGED <<thread, pressed, pending>>
    BY <1>8 DEF Load, Reopen, tickets, memory, histories
  <2>4. QED
    BY <2>1, <2>2, <2>3, JobPresses
<1>9. ASSUME NEW h \in Tasks, ClearState(h) PROVE PressInv'
  BY <1>1, <1>9 DEF ClearState, tickets, memory, histories
<1>10. ASSUME NEW h \in Tasks, SetClosed(h) PROVE PressInv'
  BY <1>1, <1>5, <1>10 DEF SetClosed, memory, histories
<1>11. ASSUME NEW a \in Admins, AdminCancelReply(a) PROVE PressInv'
  <2>1. pending' = [TidyReplies EXCEPT ![a] = NoReply] /\ UNCHANGED <<thread, pressed, job>>
    BY <1>11 DEF AdminCancelReply, tickets, histories
  <2>2. \A b \in Admins: pending'[b] = pending[b] \/ pending'[b].aim = 0
    BY <2>1, TidyPresses, TidyAims DEF NoReply
  <2>3. QED
    BY <2>1, <2>2, PressKeeps
<1>12. ASSUME NEW a \in Admins, ReplyAges(a) PROVE PressInv'
  <2>1. /\ pending' = [pending EXCEPT ![a] = [ticket |-> pending[a].ticket,
                                              aim |-> pending[a].aim, fresh |-> FALSE]]
        /\ UNCHANGED <<thread, pressed, job>>
    BY <1>12 DEF ReplyAges, tickets, histories
  <2>2. \A b \in Admins: pending'[b].aim = pending[b].aim /\ pending'[b].ticket = pending[b].ticket
    BY <2>1 DEF JobType
  <2>3. QED
    BY <2>1, <2>2, PressKeeps
<1>13. ASSUME NEW a \in Admins,
              Broadcast(a) \/ CancelBroadcast(a) \/ ConfirmBroadcast(a) \/ DraftAges(a)
       PROVE  PressInv'
  BY <1>1, <1>13 DEF Broadcast, CancelBroadcast, ConfirmBroadcast, DraftAges, tickets
<1>14. ASSUME NEW d \in Inputs, NEW u \in Users, SendBroadcast(d, u) \/ SkipRecipient(d, u)
       PROVE  PressInv'
  BY <1>1, <1>14 DEF SendBroadcast, SkipRecipient, tickets, histories
<1>15. CASE RestartBot
  <2>1. /\ UNCHANGED <<thread, pressed>>
        /\ pending' = [a \in Admins |-> NoReply]
        /\ \A g \in Tasks: job'[g] = job[g] \/ job'[g] = NoJob
    BY <1>15 DEF RestartBot, tickets, histories
  <2>2. \A a \in Admins: pending'[a].aim = 0
    BY <2>1 DEF NoReply
  <2>3. QED
    BY <2>1, <2>2, NoJobTyped, PressKeeps
<1>16. Users \subseteq People /\ Admins \subseteq People
  BY DEF People
<1>17. QED
  BY <1>2, <1>3, <1>4, <1>6, <1>7, <1>8, <1>9, <1>10, <1>11, <1>12, <1>13, <1>14, <1>15,
     <1>16, StartPresses, PopPresses, CreatePresses, AddPresses DEF Next

\* A press of the reply button lets at most one text through, to the ticket it
\* was pressed under, and none after its time.
THEOREM RepliesAsAimed == Spec => []ReplyAsAimed
<1>1. AimInv /\ PressInv => ReplyAsAimed
  BY DEF AimInv, PressInv, From, OneEach, ReplyAsAimed
<1>2. QED
  BY <1>1, AimInit, AimNext, PressInit, PressNext, PTL DEF Spec

-----------------------------------------------------------------------------
(* What a ticket holds: every text once, where it was meant to be           *)

\* The steps of a job suit what it does, and for whom.
Suits(step, j) ==
    /\ step = "idle" => j.op = "none"
    /\ step = "create" => j.op = "create"
    /\ step = "pop" => j.op = "answer"
    /\ step = "load" => j.op \in {"reply", "answer", "close"}
    /\ step = "clear" => j.op \in {"create", "reply"}
    /\ step \in {"reopen", "add"} => j.op \in {"reply", "answer"}
    /\ step \in {"close", "drop"} => j.op = "close"
    /\ step = "answer" => j.op \in {"create", "reply", "answer"}
    /\ j.op \in {"create", "reply"} => j.who \in Users
    /\ j.op = "answer" => j.who \in Admins

\* A job that has a ticket works on one that exists, a user's on the user's.
Holds(step, j) ==
    /\ step \in {"load", "clear", "reopen", "add", "answer"} =>
          j.ticket \in Tickets /\ Exists(j.ticket)
    /\ j.op = "reply" => owner[j.ticket] = j.who
    /\ j.op = "create" /\ step # "create" => owner[j.ticket] = j.who

\* Nobody is sent to a ticket that was not made, or to another's.
Known ==
    /\ owner \in [Tickets -> Users \cup {Nobody}]
    /\ \A u \in Users: state[u] \notin {"none", "newticket"} => owner[state[u]] = u
    /\ \A a \in Admins: pending[a].ticket \in Tickets => Exists(pending[a].ticket)
    /\ \A t \in Tickets: thread[t] # <<>> => Exists(t)

\* A job with a text, and whether the text is in the ticket already.
Writes(j) == j.op \in {"create", "reply", "answer"}
Written(step, j) == step = "answer" \/ (step = "clear" /\ j.op = "create")

\* Jobs and texts are told apart by the input they came from.
Apart ==
    /\ \A h \in Tasks: Writes(job[h]) =>
          /\ job[h].msg \in 1..inputs
          /\ \A g \in Tasks: Writes(job[g]) /\ job[g].msg = job[h].msg => g = h
    /\ \A t \in Tickets: \A i \in 1..Len(thread[t]):
          /\ thread[t][i].msg \in 1..inputs
          /\ \A s \in Tickets: \A k \in 1..Len(thread[s]):
                thread[s][k].msg = thread[t][i].msg => s = t /\ k = i

\* A text is in its ticket from the step on that writes it, and nowhere before.
Found(step, j) ==
    Writes(j) =>
        IF Written(step, j)
        THEN \E i \in 1..Len(thread[j.ticket]): thread[j.ticket][i].msg = j.msg
        ELSE \A t \in Tickets: \A i \in 1..Len(thread[t]): thread[t][i].msg # j.msg

AtWork == \A h \in Tasks:
    Suits(pc[h], job[h]) /\ Holds(pc[h], job[h]) /\ Found(pc[h], job[h])

KeepInv == Known /\ Apart /\ AtWork

LEMMA KeepInit == Init => KeepInv
<1> SUFFICES ASSUME Init PROVE KeepInv
  OBVIOUS
<1>1. Known
  <2>1. Nobody \notin Tickets
    BY ConstantsAssumption
  <2>2. QED
    BY <2>1 DEF Init, Known, NoReply
<1>2. \A h \in Tasks: pc[h] = "idle" /\ job[h] = NoJob
  BY DEF Init
<1>3. Apart
  <2>1. \A t \in Tickets: Len(thread[t]) = 0
    BY DEF Init
  <2>2. QED
    BY <1>2, <2>1 DEF Apart, Writes, NoJob
<1>4. AtWork
  BY <1>2 DEF AtWork, Suits, Holds, Found, Writes, NoJob
<1>5. QED
  BY <1>1, <1>3, <1>4 DEF KeepInv

\* What a step may do to the states and entries, whatever it does to the jobs.
StatesKnown  == \A u \in Users: state[u] \notin {"none", "newticket"} => owner[state[u]] = u
EntriesKnown == \A a \in Admins: pending[a].ticket \in Tickets => Exists(pending[a].ticket)

\* A job that is as it was, ended, or went on with its text.
GoneOn(step, j, next, k) ==
    Writes(k) =>
        /\ Writes(j) /\ k.msg = j.msg
        /\ Written(next, k) <=> Written(step, j)
        /\ Written(step, j) => k.ticket = j.ticket

\* A step that leaves the tickets and their texts alone.
LEMMA NothingKept ==
  ASSUME JobType, KeepInv, UNCHANGED <<owner, thread>>, inputs' \in Nat, inputs <= inputs',
         StatesKnown', EntriesKnown',
         \A h \in Tasks:
            /\ Suits(pc'[h], job'[h]) /\ Holds(pc'[h], job'[h])
            /\ GoneOn(pc[h], job[h], pc'[h], job'[h])
  PROVE  KeepInv'
<1>1. Known'
  BY DEF KeepInv, Known, StatesKnown, EntriesKnown, Exists
<1>2. inputs \in Nat /\ \A m \in 1..inputs: m \in 1..inputs'
  BY DEF JobType
<1>3. Apart'
  <2>1. ASSUME NEW h \in Tasks, Writes(job'[h])
        PROVE  /\ job'[h].msg \in 1..inputs'
               /\ \A g \in Tasks: Writes(job'[g]) /\ job'[g].msg = job'[h].msg => g = h
    BY <1>2, <2>1 DEF KeepInv, Apart, GoneOn
  <2>2. ASSUME NEW t \in Tickets, NEW i \in 1..Len(thread[t])
        PROVE  thread[t][i].msg \in 1..inputs'
    BY <1>2 DEF KeepInv, Apart
  <2>3. ASSUME NEW t \in Tickets, NEW i \in 1..Len(thread[t]),
               NEW s \in Tickets, NEW k \in 1..Len(thread[s]),
               thread[s][k].msg = thread[t][i].msg
        PROVE  s = t /\ k = i
    BY <2>3 DEF KeepInv, Apart
  <2>4. QED
    BY <2>1, <2>2, <2>3 DEF Apart
<1>4. ASSUME NEW h \in Tasks PROVE Found(pc[h], job[h])'
  <2>1. Found(pc[h], job[h]) /\ GoneOn(pc[h], job[h], pc'[h], job'[h])
    BY DEF KeepInv, AtWork
  <2>2. QED
    BY <2>1 DEF Found, GoneOn
<1>5. AtWork'
  BY <1>4 DEF AtWork, Holds, Exists
<1>6. QED
  BY <1>1, <1>3, <1>5 DEF KeepInv

\* One task takes a step, the others do not.
LEMMA HandlerKeeps ==
  ASSUME JobType, KeepInv, UNCHANGED <<owner, thread, inputs>>, StatesKnown', EntriesKnown',
         NEW h \in Tasks, \A g \in Tasks \ {h}: pc'[g] = pc[g] /\ job'[g] = job[g],
         Suits(pc'[h], job'[h]), Holds(pc'[h], job'[h]),
         GoneOn(pc[h], job[h], pc'[h], job'[h])
  PROVE  KeepInv'
<1>1. inputs' \in Nat /\ inputs <= inputs'
  BY DEF JobType
<1>2. ASSUME NEW g \in Tasks
      PROVE  /\ Suits(pc'[g], job'[g]) /\ Holds(pc'[g], job'[g])
             /\ GoneOn(pc[g], job[g], pc'[g], job'[g])
  <2>1. CASE g = h
    BY <2>1
  <2>2. CASE g # h
    BY <2>2 DEF KeepInv, AtWork, GoneOn
  <2>3. QED
    BY <2>1, <2>2
<1>3. QED
  BY <1>1, <1>2, NothingKept

\* Steps of the staff's memory, and of the users' states.
LEMMA MemoryHolds ==
  ASSUME JobType, KeepInv, UNCHANGED <<owner, thread, pc, job>>,
         inputs' = inputs \/ NewInput, StatesKnown', EntriesKnown'
  PROVE  KeepInv'
<1>1. inputs' \in Nat /\ inputs <= inputs'
  BY DEF JobType, NewInput
<1>2. \A h \in Tasks:
        /\ Suits(pc'[h], job'[h]) /\ Holds(pc'[h], job'[h])
        /\ GoneOn(pc[h], job[h], pc'[h], job'[h])
  BY DEF KeepInv, AtWork, GoneOn
<1>3. QED
  BY <1>1, <1>2, NothingKept

\* An idle task has no text.
LEMMA IdleHasNone ==
  ASSUME KeepInv, NEW h \in Tasks, pc[h] = "idle"
  PROVE  ~Writes(job[h])
BY DEF KeepInv, AtWork, Suits, Writes

\* A job begins, and its text, if any, is new.
LEMMA AcceptHolds ==
  ASSUME JobType, KeepInv, UNCHANGED <<owner, thread>>, NewInput, StatesKnown', EntriesKnown',
         NEW h \in Tasks, NEW step \in Steps, NEW j \in Jobs, Accept(h, step, j),
         Suits(step, j), Holds(step, j), Writes(j) => j.msg = inputs + 1 /\ ~Written(step, j)
  PROVE  KeepInv'
<1>1. inputs \in Nat /\ inputs' = inputs + 1 /\ \A m \in 1..inputs: m \in 1..inputs' /\ m # inputs'
  BY DEF JobType, NewInput
<1>2. /\ pc'[h] = step /\ job'[h] = j
      /\ \A g \in Tasks \ {h}: pc'[g] = pc[g] /\ job'[g] = job[g]
  BY AcceptTyped
<1>3. Known'
  BY DEF KeepInv, Known, StatesKnown, EntriesKnown, Exists
<1>4. Apart'
  <2>1. ASSUME NEW g \in Tasks, Writes(job'[g])
        PROVE  job'[g].msg \in 1..inputs' /\ (g # h => job'[g].msg # inputs')
    <3>1. CASE g = h
      BY <1>1, <1>2, <2>1, <3>1
    <3>2. CASE g # h
      BY <1>1, <1>2, <2>1, <3>2 DEF KeepInv, Apart
    <3>3. QED
      BY <3>1, <3>2
  <2>2. ASSUME NEW f \in Tasks, NEW g \in Tasks, Writes(job'[f]), Writes(job'[g]),
               job'[g].msg = job'[f].msg
        PROVE  g = f
    <3>1. CASE f # h /\ g # h
      BY <1>2, <2>2, <3>1 DEF KeepInv, Apart
    <3>2. CASE f = h \/ g = h
      <4>1. Writes(job'[h]) /\ job'[h].msg = inputs'
        BY <1>1, <1>2, <2>2, <3>2
      <4>2. QED
        BY <2>1, <2>2, <3>2, <4>1
    <3>3. QED
      BY <3>1, <3>2
  <2>3. ASSUME NEW t \in Tickets, NEW i \in 1..Len(thread[t])
        PROVE  thread[t][i].msg \in 1..inputs'
    BY <1>1 DEF KeepInv, Apart
  <2>4. ASSUME NEW t \in Tickets, NEW i \in 1..Len(thread[t]),
               NEW s \in Tickets, NEW k \in 1..Len(thread[s]),
               thread[s][k].msg = thread[t][i].msg
        PROVE  s = t /\ k = i
    BY <2>4 DEF KeepInv, Apart
  <2>5. QED
    BY <2>1, <2>2, <2>3, <2>4 DEF Apart
<1>5. ASSUME NEW g \in Tasks
      PROVE  Suits(pc'[g], job'[g]) /\ Holds(pc'[g], job'[g]) /\ Found(pc'[g], job'[g])
  <2>1. CASE g = h
    <3>1. \A t \in Tickets: \A i \in 1..Len(thread[t]): thread[t][i].msg # inputs'
      BY <1>1 DEF KeepInv, Apart
    <3>2. QED
      BY <1>1, <1>2, <2>1, <3>1 DEF Found
  <2>2. CASE g # h
    BY <1>2, <2>2 DEF KeepInv, AtWork
  <2>3. QED
    BY <2>1, <2>2
<1>6. AtWork'
  BY <1>5 DEF AtWork, Holds, Exists, Found
<1>7. QED
  BY <1>3, <1>4, <1>6 DEF KeepInv

\* A job ends.
LEMMA ReturnHolds ==
  ASSUME JobType, KeepInv, NEW h \in Tasks, Return(h), UNCHANGED <<owner, thread, inputs>>,
         StatesKnown', EntriesKnown'
  PROVE  KeepInv'
<1>1. /\ pc'[h] = "idle" /\ job'[h] = NoJob
      /\ \A g \in Tasks \ {h}: pc'[g] = pc[g] /\ job'[g] = job[g]
  BY ReturnTyped
<1>2. /\ Suits(pc'[h], job'[h]) /\ Holds(pc'[h], job'[h])
      /\ GoneOn(pc[h], job[h], pc'[h], job'[h])
  BY <1>1 DEF Suits, Holds, GoneOn, Writes, NoJob
<1>3. QED
  BY <1>1, <1>2, HandlerKeeps

\* Whoever is given a ticket, or a text, is a person of the system.
LEMMA KnownTickets ==
  ASSUME KeepInv
  PROVE  /\ StatesKnown /\ EntriesKnown
         /\ \A t \in Tickets, u \in Users: owner[t] = u => Exists(t)
<1>1. Nobody \notin Users
  BY ConstantsAssumption DEF People
<1>2. QED
  BY <1>1 DEF KeepInv, Known, StatesKnown, EntriesKnown, Exists

\* What TidyReplies leaves, or an entry taken away, is known.
LEMMA EntriesStay ==
  ASSUME KeepInv, UNCHANGED owner,
         \A a \in Admins: pending'[a] = NoReply \/ pending'[a].ticket = pending[a].ticket
  PROVE  EntriesKnown'
<1>1. Nobody \notin Tickets
  BY ConstantsAssumption
<1>2. QED
  BY <1>1 DEF KeepInv, Known, EntriesKnown, Exists, NoReply

LEMMA TidyStays ==
  ASSUME JobType, KeepInv, NEW a \in Admins
  PROVE  TidyReplies[a] = NoReply \/ TidyReplies[a] = pending[a]
BY TidiedReply

LEMMA LoadHolds ==
  ASSUME JobType, AimInv, KeepInv, NEW h \in Tasks, Load(h)
  PROVE  KeepInv'
<1> DEFINE now == status[job[h].ticket]
           step == IF job[h].op = "close" THEN "close"
                   ELSE IF job[h].op = "reply" /\ h \in BotTasks THEN "clear"
                   ELSE IF job[h].op = "reply" /\ now = "closed" THEN "reopen"
                   ELSE "add"
           j == Seen(job[h], now)
<1>1. /\ pc[h] = "load" /\ GoTo(h, step) /\ job' = [job EXCEPT ![h] = j]
      /\ UNCHANGED <<owner, thread, inputs, pending, state>>
  BY DEF Load, tickets, memory
<1>2. job[h] \in Jobs /\ job[h].ticket \in Tickets /\ Suits("load", job[h]) /\ Holds("load", job[h])
  BY <1>1, Ready DEF JobReady, KeepInv, AtWork
<1>3. now \in Statuses
  BY <1>2 DEF JobType
<1>4. j.op = job[h].op /\ j.msg = job[h].msg /\ j.who = job[h].who /\ j.ticket = job[h].ticket
  BY <1>2, <1>3, SeenTyped
<1>5. \/ step = "close" /\ j.op = "close"
      \/ step = "clear" /\ j.op = "reply"
      \/ step \in {"reopen", "add"} /\ j.op \in {"reply", "answer"}
  BY <1>2, <1>4 DEF Suits
<1> HIDE DEF now, step, j
<1>6. Suits(step, j)
  BY <1>2, <1>4, <1>5 DEF Suits
<1>7. Holds(step, j)
  BY <1>2, <1>4, <1>5 DEF Holds
<1>8. GoneOn("load", job[h], step, j)
  BY <1>4, <1>5 DEF GoneOn, Writes, Written
<1>9. pc'[h] = step /\ job'[h] = j /\ \A g \in Tasks \ {h}: pc'[g] = pc[g] /\ job'[g] = job[g]
  BY <1>1 DEF GoTo, JobType
<1>10. StatesKnown' /\ EntriesKnown'
  BY <1>1, KnownTickets DEF StatesKnown, EntriesKnown, Exists
<1>11. QED
  BY <1>1, <1>6, <1>7, <1>8, <1>9, <1>10, HandlerKeeps

LEMMA ClearHolds ==
  ASSUME JobType, AimInv, KeepInv, NEW h \in Tasks, ClearState(h)
  PROVE  KeepInv'
<1> DEFINE j == job[h]  step == AfterClear(job[h])
<1>1. /\ pc[h] = "clear" /\ GoTo(h, step) /\ UNCHANGED job
      /\ state' = [state EXCEPT ![j.who] = "none"]
      /\ UNCHANGED <<owner, thread, inputs, pending>>
  BY DEF ClearState, tickets, memory
<1>2. Suits("clear", j) /\ Holds("clear", j)
  BY <1>1 DEF KeepInv, AtWork
<1>3. \/ j.op = "create" /\ step = "answer"
      \/ j.op = "reply" /\ step = "add"
  BY <1>2 DEF Suits, AfterClear
<1> HIDE DEF step
<1>4. Suits(step, j)
  BY <1>2, <1>3 DEF Suits
<1>5. Holds(step, j)
  BY <1>2, <1>3 DEF Holds
<1>6. GoneOn("clear", j, step, j)
  BY <1>3 DEF GoneOn, Writes, Written
<1>7. pc'[h] = step /\ job'[h] = j /\ \A g \in Tasks \ {h}: pc'[g] = pc[g] /\ job'[g] = job[g]
  BY <1>1 DEF GoTo, JobType
<1>8. EntriesKnown'
  BY <1>1, KnownTickets DEF EntriesKnown, Exists
<1>9. StatesKnown'
  <2>1. \A u \in Users: state'[u] = "none" \/ state'[u] = state[u]
    BY <1>1 DEF JobType
  <2>2. QED
    BY <1>1, <2>1, KnownTickets DEF StatesKnown
<1>10. QED
  BY <1>1, <1>4, <1>5, <1>6, <1>7, <1>8, <1>9, HandlerKeeps

LEMMA ReopenHolds ==
  ASSUME JobType, AimInv, KeepInv, NEW h \in Tasks, Reopen(h)
  PROVE  KeepInv'
<1> DEFINE j == Seen(job[h], "open")
<1>1. /\ pc[h] = "reopen" /\ GoTo(h, "add") /\ job' = [job EXCEPT ![h] = j]
      /\ UNCHANGED <<owner, thread, inputs, pending, state>>
  BY DEF Reopen, memory
<1>2. job[h] \in Jobs /\ Suits("reopen", job[h]) /\ Holds("reopen", job[h]) /\ "open" \in Statuses
  BY <1>1, Ready DEF KeepInv, AtWork, Statuses
<1>3. j.op = job[h].op /\ j.msg = job[h].msg /\ j.who = job[h].who /\ j.ticket = job[h].ticket
  BY <1>2, SeenTyped
<1> HIDE DEF j
<1>4. Suits("add", j) /\ Holds("add", j) /\ GoneOn("reopen", job[h], "add", j)
  BY <1>2, <1>3 DEF Suits, Holds, GoneOn, Writes, Written
<1>5. pc'[h] = "add" /\ job'[h] = j /\ \A g \in Tasks \ {h}: pc'[g] = pc[g] /\ job'[g] = job[g]
  BY <1>1 DEF GoTo, JobType
<1>6. StatesKnown' /\ EntriesKnown'
  BY <1>1, KnownTickets DEF StatesKnown, EntriesKnown, Exists
<1>7. QED
  BY <1>1, <1>4, <1>5, <1>6, HandlerKeeps

LEMMA CloseHolds ==
  ASSUME JobType, AimInv, KeepInv, NEW h \in Tasks, SetClosed(h)
  PROVE  KeepInv'
<1>1. /\ pc[h] = "close" /\ UNCHANGED <<owner, thread, inputs, pending, state>>
      /\ (GoTo(h, "drop") /\ UNCHANGED job) \/ Return(h)
  BY DEF SetClosed, memory
<1>2. StatesKnown' /\ EntriesKnown'
  BY <1>1, KnownTickets DEF StatesKnown, EntriesKnown, Exists
<1>3. CASE Return(h)
  BY <1>1, <1>2, <1>3, ReturnHolds
<1>4. CASE GoTo(h, "drop") /\ UNCHANGED job
  <2>1. Suits("close", job[h])
    BY <1>1 DEF KeepInv, AtWork
  <2>2. Suits("drop", job[h]) /\ Holds("drop", job[h]) /\ GoneOn("close", job[h], "drop", job[h])
    BY <2>1 DEF Suits, Holds, GoneOn, Writes
  <2>3. /\ pc'[h] = "drop" /\ job'[h] = job[h]
        /\ \A g \in Tasks \ {h}: pc'[g] = pc[g] /\ job'[g] = job[g]
    BY <1>4 DEF GoTo, JobType
  <2>4. QED
    BY <1>1, <1>2, <2>2, <2>3, HandlerKeeps
<1>5. QED
  BY <1>1, <1>3, <1>4

\* The ticket a text goes to is the one the button was pressed for.
LEMMA PopHolds ==
  ASSUME JobType, AimInv, KeepInv, NEW h \in Tasks, PopPendingReply(h)
  PROVE  KeepInv'
<1> DEFINE a == job[h].who
           entry == TidyReplies[a]
           j == Aimed(job[h], entry)
<1>1. /\ pc[h] = "pop" /\ pending' = [TidyReplies EXCEPT ![a] = NoReply]
      /\ UNCHANGED <<owner, thread, state, inputs>>
      /\ IF entry = NoReply
         THEN Return(h)
         ELSE GoTo(h, "load") /\ job' = [job EXCEPT ![h] = j]
  BY DEF PopPendingReply, AfterPop, tickets
<1>2. a \in Admins /\ job[h] \in Jobs /\ Suits("pop", job[h])
  BY <1>1, Ready DEF JobReady, KeepInv, AtWork
<1>3. entry \in Entries /\ (entry = pending[a] \/ entry = NoReply)
  BY <1>2, TidiedReply
<1>4. StatesKnown'
  BY <1>1, KnownTickets DEF StatesKnown
<1>5. EntriesKnown'
  <2>1. \A b \in Admins: pending'[b] = NoReply \/ pending'[b] = pending[b]
    BY <1>1, TidyStays, TidyAims
  <2>2. QED
    BY <1>1, <2>1, EntriesStay
<1>6. CASE entry = NoReply
  BY <1>1, <1>4, <1>5, <1>6, ReturnHolds
<1>7. CASE entry # NoReply
  <2>1. entry \in [ticket: Tickets, aim: Nat, fresh: BOOLEAN] /\ Exists(entry.ticket)
    <3>1. entry \in [ticket: Tickets, aim: Nat, fresh: BOOLEAN] /\ entry = pending[a]
      BY <1>3, <1>7 DEF Entries
    <3>2. QED
      BY <1>2, <3>1, KnownTickets DEF EntriesKnown
  <2>2. /\ j.op = job[h].op /\ j.msg = job[h].msg /\ j.who = job[h].who
        /\ j.ticket = entry.ticket
    BY <1>2, <2>1, AimedTyped
  <2>3. GoTo(h, "load") /\ job' = [job EXCEPT ![h] = j]
    BY <1>1, <1>7
  <2> HIDE DEF j, entry
  <2>4. Suits("load", j) /\ Holds("load", j) /\ GoneOn("pop", job[h], "load", j)
    BY <1>2, <2>1, <2>2 DEF Suits, Holds, GoneOn, Writes, Written
  <2>5. pc'[h] = "load" /\ job'[h] = j /\ \A g \in Tasks \ {h}: pc'[g] = pc[g] /\ job'[g] = job[g]
    BY <2>3 DEF GoTo, JobType
  <2>6. QED
    BY <1>1, <1>4, <1>5, <2>4, <2>5, HandlerKeeps
<1>8. QED
  BY <1>6, <1>7

\* What a job with a ticket knows about it.
LEMMA TicketKnown ==
  ASSUME JobType, KeepInv, NEW g \in Tasks
  PROVE  /\ job[g].op = "reply" \/ (job[g].op = "create" /\ pc[g] # "create")
               => /\ job[g].ticket \in Tickets /\ Exists(job[g].ticket)
                  /\ owner[job[g].ticket] = job[g].who
         /\ Written(pc[g], job[g]) => job[g].ticket \in Tickets /\ Exists(job[g].ticket)
<1>1. Suits(pc[g], job[g]) /\ Holds(pc[g], job[g])
  BY DEF KeepInv, AtWork
<1>2. CASE job[g].op = "reply" \/ (job[g].op = "create" /\ pc[g] # "create")
  <2>1. pc[g] \in {"load", "clear", "reopen", "add", "answer"}
    BY <1>1, <1>2 DEF Suits, Steps, JobType
  <2>2. QED
    BY <1>1, <1>2, <2>1 DEF Holds
<1>3. CASE Written(pc[g], job[g])
  BY <1>1, <1>3 DEF Written, Holds
<1>4. QED
  BY <1>1, <1>2, <1>3 DEF Holds

\* A new ticket and its first text.
LEMMA CreateHolds ==
  ASSUME JobType, AimInv, KeepInv, NEW h \in Tasks, CreateSupportTicket(h)
  PROVE  KeepInv'
<1>1. PICK t \in Tickets :
        /\ ~Exists(t)
        /\ owner' = [owner EXCEPT ![t] = job[h].who]
        /\ thread' = [thread EXCEPT ![t] = <<Text(job[h])>>]
        /\ job' = [job EXCEPT ![h] = Made(job[h], t)]
  BY DEF CreateSupportTicket
<1> DEFINE step == IF h \in BotTasks THEN "clear" ELSE "answer"
           note == Text(job[h])
           j == Made(job[h], t)
           m == job[h].msg
<1>2. pc[h] = "create" /\ GoTo(h, step) /\ UNCHANGED <<state, pending, inputs>>
  BY DEF CreateSupportTicket, memory
<1>3. job[h] \in Jobs /\ Suits("create", job[h]) /\ Found("create", job[h])
  BY <1>2, Ready DEF KeepInv, AtWork
<1>4. job[h].op = "create" /\ job[h].who \in Users /\ Writes(job[h])
  BY <1>3 DEF Suits, Writes
<1>5. note \in Notes /\ note.msg = m
  BY <1>3, TextTyped
<1>6. j.op = "create" /\ j.msg = m /\ j.who = job[h].who /\ j.ticket = t
  BY <1>3, <1>4, MadeTyped
<1>7. step \in {"clear", "answer"}
  OBVIOUS
<1> HIDE DEF step, note, j
<1>8. /\ pc'[h] = step /\ job'[h] = j
      /\ \A g \in Tasks \ {h}: pc'[g] = pc[g] /\ job'[g] = job[g]
  BY <1>1, <1>2 DEF GoTo, JobType, j
<1>9. /\ owner' \in [Tickets -> Users \cup {Nobody}]
      /\ owner'[t] = job[h].who /\ Exists(t)'
      /\ \A s \in Tickets \ {t}: owner'[s] = owner[s]
  <2>1. job[h].who # Nobody
    BY <1>4, ConstantsAssumption DEF People
  <2>2. QED
    BY <1>1, <1>4, <2>1 DEF KeepInv, Known, Exists
<1>10. ASSUME NEW s \in Tickets, Exists(s) PROVE s # t /\ owner'[s] = owner[s] /\ Exists(s)'
  BY <1>1, <1>9, <1>10 DEF Exists
<1>11. /\ Len(thread'[t]) = 1 /\ thread'[t][1] = note /\ thread'[t] # <<>>
       /\ \A s \in Tickets \ {t}: thread'[s] = thread[s]
  <2>1. thread' = [thread EXCEPT ![t] = <<note>>]
    BY <1>1 DEF note
  <2>2. thread'[t] = <<note>>
    BY <2>1 DEF JobType
  <2>3. QED
    BY <2>1, <2>2 DEF JobType
\* A text of a ticket is the new one, or was there.
<1>12. ASSUME NEW s \in Tickets, NEW i \in 1..Len(thread'[s])
       PROVE  \/ s = t /\ i = 1 /\ thread'[s][i].msg = m
              \/ s # t /\ i \in 1..Len(thread[s]) /\ thread'[s][i] = thread[s][i]
  <2>1. CASE s = t
    <3>1. 1..Len(thread'[s]) = 1..1
      BY <1>11, <2>1
    <3>2. QED
      BY <1>5, <1>11, <2>1, <3>1
  <2>2. CASE s # t
    BY <1>11, <2>2
  <2>3. QED
    BY <2>1, <2>2
<1>13. \A s \in Tickets: \A i \in 1..Len(thread[s]): thread[s][i].msg # m
  BY <1>3, <1>4 DEF Found, Written
<1>14. ASSUME NEW g \in Tasks
       PROVE  /\ Writes(job'[g]) <=> Writes(job[g])
              /\ job'[g].msg = job[g].msg
  <2>1. CASE g = h
    BY <1>4, <1>6, <1>8, <2>1 DEF Writes
  <2>2. CASE g # h
    BY <1>8, <2>2
  <2>3. QED
    BY <2>1, <2>2
<1>15. Known'
  <2>1. ASSUME NEW u \in Users, state[u] \notin {"none", "newticket"}
        PROVE  owner'[state[u]] = u
    <3>1. state[u] \in Tickets /\ owner[state[u]] = u
      BY <2>1 DEF JobType, KeepInv, Known
    <3>2. QED
      BY <1>10, <3>1, KnownTickets
  <2>2. ASSUME NEW a \in Admins, pending[a].ticket \in Tickets
        PROVE  Exists(pending[a].ticket)'
    <3>1. Exists(pending[a].ticket)
      BY <2>2 DEF KeepInv, Known
    <3>2. owner'[pending[a].ticket] # Nobody
      BY <1>10, <2>2, <3>1 DEF Exists
    <3>3. QED
      BY <1>2, <3>2 DEF Exists
  <2>3. ASSUME NEW s \in Tickets, thread'[s] # <<>> PROVE Exists(s)'
    <3>1. CASE s = t
      BY <1>9, <3>1
    <3>2. CASE s # t
      BY <1>10, <1>11, <2>3, <3>2 DEF KeepInv, Known
    <3>3. QED
      BY <3>1, <3>2
  <2>4. QED
    BY <1>2, <1>9, <2>1, <2>2, <2>3 DEF Known, Exists
<1>16. m \in 1..inputs
  BY <1>4 DEF KeepInv, Apart
<1>17. Apart'
  <2>1. ASSUME NEW f \in Tasks, Writes(job'[f])
        PROVE  /\ job'[f].msg \in 1..inputs'
               /\ \A g \in Tasks: Writes(job'[g]) /\ job'[g].msg = job'[f].msg => g = f
    BY <1>2, <1>14, <2>1 DEF KeepInv, Apart
  <2>2. ASSUME NEW s \in Tickets, NEW i \in 1..Len(thread'[s])
        PROVE  thread'[s][i].msg \in 1..inputs'
    BY <1>2, <1>12, <1>16 DEF KeepInv, Apart
  <2>3. ASSUME NEW s \in Tickets, NEW i \in 1..Len(thread'[s]),
               NEW r \in Tickets, NEW k \in 1..Len(thread'[r]),
               thread'[r][k].msg = thread'[s][i].msg
        PROVE  r = s /\ k = i
    <3>1. CASE thread'[s][i].msg = m
      BY <1>12, <1>13, <2>3, <3>1
    <3>2. CASE thread'[s][i].msg # m
      <4>1. /\ i \in 1..Len(thread[s]) /\ k \in 1..Len(thread[r])
            /\ thread[r][k].msg = thread[s][i].msg
        BY <1>12, <2>3, <3>2
      <4>2. QED
        BY <4>1 DEF KeepInv, Apart
    <3>3. QED
      BY <3>1, <3>2
  <2>4. QED
    BY <2>1, <2>2, <2>3 DEF Apart
<1>18. ASSUME NEW g \in Tasks
       PROVE  /\ Suits(pc'[g], job'[g])
              /\ Holds(pc[g], job[g])'
  <2>1. CASE g = h
    BY <1>4, <1>6, <1>7, <1>8, <1>9, <2>1 DEF Suits, Holds
  <2>2. CASE g # h
    <3>1. pc'[g] = pc[g] /\ job'[g] = job[g] /\ Suits(pc[g], job[g]) /\ Holds(pc[g], job[g])
      BY <1>8, <2>2 DEF KeepInv, AtWork
    <3>2. QED
      BY <1>10, <3>1, TicketKnown DEF Holds
  <2>3. QED
    BY <2>1, <2>2
<1>19. ASSUME NEW g \in Tasks PROVE Found(pc[g], job[g])'
  <2>1. CASE g = h
    <3>1. 1 \in 1..Len(thread'[t]) /\ thread'[t][1].msg = m
      BY <1>5, <1>11
    <3>2. Written(step, j)
      BY <1>6, <1>7 DEF Written
    <3>3. QED
      BY <1>6, <1>8, <2>1, <3>1, <3>2 DEF Found
  <2>2. CASE g # h
    <3>1. pc'[g] = pc[g] /\ job'[g] = job[g] /\ Found(pc[g], job[g])
      BY <1>8, <2>2 DEF KeepInv, AtWork
    <3>2. CASE Writes(job[g]) /\ Written(pc[g], job[g])
      <4>1. job[g].ticket \in Tickets /\ job[g].ticket # t
        BY <1>10, <3>2, TicketKnown
      <4>2. QED
        BY <1>11, <3>1, <3>2, <4>1 DEF Found
    <3>3. CASE Writes(job[g]) /\ ~Written(pc[g], job[g])
      <4>1. job[g].msg # m
        BY <1>4, <2>2, <3>3 DEF KeepInv, Apart
      <4>2. ASSUME NEW s \in Tickets, NEW i \in 1..Len(thread'[s])
            PROVE  thread'[s][i].msg # job[g].msg
        BY <1>12, <3>1, <3>3, <4>1 DEF Found
      <4>3. QED
        BY <3>1, <3>3, <4>2 DEF Found
    <3>4. QED
      BY <3>1, <3>2, <3>3 DEF Found
  <2>3. QED
    BY <2>1, <2>2
<1>20. AtWork'
  BY <1>18, <1>19 DEF AtWork
<1>21. QED
  BY <1>15, <1>17, <1>20 DEF KeepInv

\* The text goes to the end of the job's ticket.
LEMMA AddHolds ==
  ASSUME JobType, AimInv, KeepInv, NEW h \in Tasks, AddSupportMessage(h)
  PROVE  KeepInv'
<1> DEFINE t == job[h].ticket
           note == Text(job[h])
           end == Len(thread[t]) + 1
           m == job[h].msg
<1>1. /\ pc[h] = "add" /\ GoTo(h, "answer") /\ UNCHANGED <<owner, job, state, pending, inputs>>
      /\ thread' = [thread EXCEPT ![t] = Append(thread[t], note)]
  BY DEF AddSupportMessage, memory
<1>2. /\ job[h] \in Jobs /\ t \in Tickets /\ Exists(t)
      /\ Suits("add", job[h]) /\ Holds("add", job[h]) /\ Found("add", job[h])
  BY <1>1, Ready DEF KeepInv, AtWork, Holds
<1>3. note \in Notes /\ note.msg = m
  BY <1>2, TextTyped
<1>4. Writes(job[h]) /\ job[h].op # "create"
  BY <1>2 DEF Suits, Writes
<1> HIDE DEF note
<1>5. thread[t] \in Seq(Notes)
  BY <1>2 DEF JobType
<1>6. /\ end \in Nat \ {0} /\ Append(thread[t], note) # <<>>
      /\ Len(Append(thread[t], note)) = end /\ Append(thread[t], note)[end] = note
      /\ \A i \in 1..Len(thread[t]): Append(thread[t], note)[i] = thread[t][i]
  BY <1>3, <1>5
<1>7. thread'[t] = Append(thread[t], note) /\ \A s \in Tickets \ {t}: thread'[s] = thread[s]
  BY <1>1, <1>2 DEF JobType
<1>8. pc'[h] = "answer" /\ \A g \in Tasks \ {h}: pc'[g] = pc[g]
  BY <1>1 DEF GoTo, JobType
\* A text of a ticket is the new one, or was there.
<1>9. ASSUME NEW s \in Tickets, NEW i \in 1..Len(thread'[s])
      PROVE  \/ s = t /\ i = end /\ thread'[s][i].msg = m
             \/ i \in 1..Len(thread[s]) /\ thread'[s][i] = thread[s][i]
  <2>1. CASE s = t
    <3>1. i \in 1..end
      BY <1>6, <1>7, <2>1
    <3>2. CASE i = end
      BY <1>3, <1>6, <1>7, <2>1, <3>2
    <3>3. CASE i # end
      <4>1. i \in 1..Len(thread[t])
        BY <1>5, <3>1, <3>3
      <4>2. QED
        BY <1>6, <1>7, <2>1, <4>1
    <3>4. QED
      BY <3>2, <3>3
  <2>2. CASE s # t
    BY <1>7, <2>2
  <2>3. QED
    BY <2>1, <2>2
\* What was there is there.
<1>10. ASSUME NEW s \in Tickets, NEW i \in 1..Len(thread[s])
       PROVE  i \in 1..Len(thread'[s]) /\ thread'[s][i] = thread[s][i]
  BY <1>5, <1>6, <1>7
<1>11. \A s \in Tickets: \A i \in 1..Len(thread[s]): thread[s][i].msg # m
  BY <1>2, <1>4 DEF Found, Written
<1>12. m \in 1..inputs
  BY <1>4 DEF KeepInv, Apart
<1>13. Known'
  <2>1. ASSUME NEW s \in Tickets, thread'[s] # <<>> PROVE Exists(s)
    <3>1. CASE s = t
      BY <1>2, <3>1
    <3>2. CASE s # t
      BY <1>7, <2>1, <3>2 DEF KeepInv, Known
    <3>3. QED
      BY <3>1, <3>2
  <2>2. QED
    BY <1>1, <2>1 DEF KeepInv, Known, Exists
<1>14. Apart'
  <2>1. ASSUME NEW f \in Tasks, Writes(job'[f])
        PROVE  /\ job'[f].msg \in 1..inputs'
               /\ \A g \in Tasks: Writes(job'[g]) /\ job'[g].msg = job'[f].msg => g = f
    BY <1>1, <2>1 DEF KeepInv, Apart
  <2>2. ASSUME NEW s \in Tickets, NEW i \in 1..Len(thread'[s])
        PROVE  thread'[s][i].msg \in 1..inputs'
    BY <1>1, <1>9, <1>12 DEF KeepInv, Apart
  <2>3. ASSUME NEW s \in Tickets, NEW i \in 1..Len(thread'[s]),
               NEW r \in Tickets, NEW k \in 1..Len(thread'[r]),
               thread'[r][k].msg = thread'[s][i].msg
        PROVE  r = s /\ k = i
    <3>1. CASE thread'[s][i].msg = m
      BY <1>9, <1>11, <2>3, <3>1
    <3>2. CASE thread'[s][i].msg # m
      <4>1. /\ i \in 1..Len(thread[s]) /\ k \in 1..Len(thread[r])
            /\ thread[r][k].msg = thread[s][i].msg
        BY <1>9, <2>3, <3>2
      <4>2. QED
        BY <4>1 DEF KeepInv, Apart
    <3>3. QED
      BY <3>1, <3>2
  <2>4. QED
    BY <2>1, <2>2, <2>3 DEF Apart
<1>15. ASSUME NEW g \in Tasks PROVE Suits(pc'[g], job'[g]) /\ Holds(pc[g], job[g])'
  <2>1. CASE g = h
    BY <1>1, <1>2, <1>4, <1>8, <2>1 DEF Suits, Holds, Exists
  <2>2. CASE g # h
    BY <1>1, <1>8, <2>2 DEF KeepInv, AtWork, Holds, Exists
  <2>3. QED
    BY <2>1, <2>2
<1>16. ASSUME NEW g \in Tasks PROVE Found(pc[g], job[g])'
  <2>1. CASE g = h
    <3>1. end \in 1..Len(thread'[t]) /\ thread'[t][end].msg = m
      BY <1>3, <1>6, <1>7
    <3>2. Written("answer", job[h])
      BY DEF Written
    <3>3. QED
      BY <1>1, <1>8, <2>1, <3>1, <3>2 DEF Found
  <2>2. CASE g # h
    <3>1. pc'[g] = pc[g] /\ job'[g] = job[g] /\ Found(pc[g], job[g])
      BY <1>1, <1>8, <2>2 DEF KeepInv, AtWork
    <3>2. CASE Writes(job[g]) /\ Written(pc[g], job[g])
      <4>1. job[g].ticket \in Tickets
        BY <3>2, TicketKnown
      <4>2. \E i \in 1..Len(thread'[job[g].ticket]): thread'[job[g].ticket][i].msg = job[g].msg
        BY <1>10, <3>1, <3>2, <4>1 DEF Found
      <4>3. QED
        BY <3>1, <3>2, <4>2 DEF Found
    <3>3. CASE Writes(job[g]) /\ ~Written(pc[g], job[g])
      <4>1. job[g].msg # m
        BY <1>4, <2>2, <3>3 DEF KeepInv, Apart
      <4>2. ASSUME NEW s \in Tickets, NEW i \in 1..Len(thread'[s])
            PROVE  thread'[s][i].msg # job[g].msg
        BY <1>9, <3>1, <3>3, <4>1 DEF Found
      <4>3. QED
        BY <3>1, <3>3, <4>2 DEF Found
    <3>4. QED
      BY <3>1, <3>2, <3>3 DEF Found
  <2>3. QED
    BY <2>1, <2>2
<1>17. AtWork'
  BY <1>15, <1>16 DEF AtWork
<1>18. QED
  BY <1>13, <1>14, <1>17 DEF KeepInv

\* The bot starts anew: its jobs and entries are gone.
LEMMA RestartHolds ==
  ASSUME JobType, KeepInv, RestartBot
  PROVE  KeepInv'
<1>1. /\ UNCHANGED <<owner, thread, state, inputs>>
      /\ pending' = [a \in Admins |-> NoReply]
      /\ \A g \in Tasks: \/ pc'[g] = pc[g] /\ job'[g] = job[g]
                         \/ pc'[g] = "idle" /\ job'[g] = NoJob
  BY DEF RestartBot, tickets
<1>2. StatesKnown' /\ EntriesKnown'
  BY <1>1, KnownTickets, EntriesStay DEF StatesKnown
<1>3. Suits("idle", NoJob) /\ Holds("idle", NoJob) /\ ~Writes(NoJob)
  BY DEF Suits, Holds, Writes, NoJob
<1>4. \A g \in Tasks:
        /\ Suits(pc'[g], job'[g]) /\ Holds(pc'[g], job'[g])
        /\ GoneOn(pc[g], job[g], pc'[g], job'[g])
  BY <1>1, <1>3 DEF KeepInv, AtWork, GoneOn
<1>5. inputs' \in Nat /\ inputs <= inputs'
  BY <1>1 DEF JobType
<1>6. QED
  BY <1>1, <1>2, <1>4, <1>5, NothingKept

\* The requests that begin a job.
LEMMA RequestHolds ==
  ASSUME JobType, AimInv, KeepInv, NEW h \in Tasks, NEW p \in People,
         \/ CollectSupportProblem(h, p) /\ p \in Users
         \/ SupportRequest(h, p) /\ p \in Users
         \/ \E t \in Tickets : CloseRequest(h, p, t)
         \/ AdminText(h, p) /\ p \in Admins
         \/ \E t \in Tickets : TicketReply(h, p, t) /\ p \in Admins
  PROVE  KeepInv'
<1>1. UNCHANGED <<owner, thread, state>> /\ NewInput /\ pending' \in {pending, TidyReplies}
  BY DEF CollectSupportProblem, SupportRequest, CloseRequest, AdminText, TicketReply,
     tickets, memory
<1>2. StatesKnown' /\ EntriesKnown'
  <2>1. StatesKnown'
    BY <1>1, KnownTickets DEF StatesKnown
  <2>2. \A a \in Admins: pending'[a] = NoReply \/ pending'[a] = pending[a]
    BY <1>1, TidyStays
  <2>3. QED
    BY <1>1, <2>1, <2>2, EntriesStay
\* A text, and its job.
<1>3. ASSUME NEW step \in {"create", "load", "pop"}, NEW op \in {"create", "reply", "answer"},
             NEW t \in Tickets \cup {Nobody}, Accept(h, step, Write(op, p, t)),
             Suits(step, Write(op, p, t)), Holds(step, Write(op, p, t))
      PROVE  KeepInv'
  <2>1. /\ Write(op, p, t) \in Jobs /\ Write(op, p, t).msg = inputs + 1
        /\ step \in Steps /\ ~Written(step, Write(op, p, t))
    BY WriteTyped DEF Opers, Steps, Written
  <2>2. QED
    BY <1>1, <1>2, <1>3, <2>1, AcceptHolds
<1>4. CASE CollectSupportProblem(h, p) /\ p \in Users
  <2>1. CASE state[p] = "newticket"
    <3>1. Accept(h, "create", Write("create", p, Nobody))
      BY <1>4, <2>1 DEF CollectSupportProblem
    <3>2. Suits("create", Write("create", p, Nobody)) /\ Holds("create", Write("create", p, Nobody))
      BY <1>4, WriteTyped DEF Suits, Holds, Opers
    <3>3. QED
      BY <1>3, <3>1, <3>2
  <2>2. CASE state[p] # "newticket"
    <3>1. /\ Accept(h, "load", Write("reply", p, state[p]))
          /\ state[p] \in Tickets /\ owner[state[p]] = p /\ Exists(state[p])
      BY <1>4, <2>2, KnownTickets DEF CollectSupportProblem, JobType, StatesKnown
    <3>2. /\ Suits("load", Write("reply", p, state[p]))
          /\ Holds("load", Write("reply", p, state[p]))
      BY <1>4, <3>1, WriteTyped DEF Suits, Holds, Opers
    <3>3. QED
      BY <1>3, <3>1, <3>2
  <2>3. QED
    BY <2>1, <2>2
<1>5. CASE SupportRequest(h, p) /\ p \in Users
  <2>1. CASE Accept(h, "create", Write("create", p, Nobody))
    <3>1. Suits("create", Write("create", p, Nobody)) /\ Holds("create", Write("create", p, Nobody))
      BY <1>5, WriteTyped DEF Suits, Holds, Opers
    <3>2. QED
      BY <1>3, <2>1, <3>1
  <2>2. ASSUME NEW t \in Tickets, owner[t] = p, Accept(h, "load", Write("reply", p, t))
        PROVE  KeepInv'
    <3>1. Suits("load", Write("reply", p, t)) /\ Holds("load", Write("reply", p, t))
      BY <1>5, <2>2, WriteTyped, KnownTickets DEF Suits, Holds, Opers
    <3>2. QED
      BY <1>3, <2>2, <3>1
  <2>3. QED
    BY <1>5, <2>1, <2>2 DEF SupportRequest
<1>6. ASSUME NEW t \in Tickets, CloseRequest(h, p, t) PROVE KeepInv'
  <2> DEFINE j == [NoJob EXCEPT !.op = "close", !.who = p, !.ticket = t]
  <2>1. /\ j \in Jobs /\ j.op = "close" /\ j.ticket = t
        /\ Accept(h, "load", j) /\ Exists(t)
    BY <1>6, NoJobTyped DEF CloseRequest, Jobs, Opers
  <2> HIDE DEF j
  <2>2. Suits("load", j) /\ Holds("load", j) /\ ~Writes(j) /\ "load" \in Steps
    BY <2>1 DEF Suits, Holds, Writes, Steps
  <2>3. QED
    BY <1>1, <1>2, <2>1, <2>2, AcceptHolds
<1>7. CASE AdminText(h, p) /\ p \in Admins
  <2>1. Accept(h, "pop", Write("answer", p, Nobody))
    BY <1>7 DEF AdminText
  <2>2. Suits("pop", Write("answer", p, Nobody)) /\ Holds("pop", Write("answer", p, Nobody))
    BY <1>7, WriteTyped DEF Suits, Holds, Opers
  <2>3. QED
    BY <1>3, <2>1, <2>2
<1>8. ASSUME NEW t \in Tickets, TicketReply(h, p, t), p \in Admins PROVE KeepInv'
  <2>1. Accept(h, "load", Write("answer", p, t)) /\ Exists(t)
    BY <1>8 DEF TicketReply
  <2>2. Suits("load", Write("answer", p, t)) /\ Holds("load", Write("answer", p, t))
    BY <1>8, <2>1, WriteTyped DEF Suits, Holds, Opers
  <2>3. QED
    BY <1>3, <2>1, <2>2
<1>9. QED
  BY <1>4, <1>5, <1>6, <1>7, <1>8

LEMMA KeepNext == JobType /\ AimInv /\ KeepInv /\ [Next]_vars => KeepInv'
<1> SUFFICES ASSUME JobType, AimInv, KeepInv, [Next]_vars PROVE KeepInv'
  OBVIOUS
<1>0. StatesKnown /\ EntriesKnown
  BY KnownTickets
<1>1. CASE UNCHANGED vars
  BY <1>0, <1>1, MemoryHolds DEF vars, tickets, memory, StatesKnown, EntriesKnown, Exists
<1>2. ASSUME NEW u \in Users, ChooseTopic(u) \/ \E t \in Tickets : ReplyTicket(u, t)
      PROVE  KeepInv'
  <2>1. StatesKnown'
    BY <1>0, <1>2 DEF ChooseTopic, ReplyTicket, StatesKnown, JobType, tickets
  <2>2. QED
    BY <1>0, <1>2, <2>1, MemoryHolds
       DEF ChooseTopic, ReplyTicket, tickets, memory, EntriesKnown, Exists
<1>3. ASSUME NEW h \in Tasks, Answer(h) \/ Die(h) PROVE KeepInv'
  BY <1>0, <1>3, ReturnHolds
     DEF Answer, Die, tickets, memory, StatesKnown, EntriesKnown, Exists
\* The memory of the staff, where no entry is made.
<1>4. ASSUME UNCHANGED <<owner, thread, state>>,
             \A a \in Admins: pending'[a] = NoReply \/ pending'[a].ticket = pending[a].ticket
      PROVE  StatesKnown' /\ EntriesKnown'
  BY <1>0, <1>4, EntriesStay DEF StatesKnown
<1>5. ASSUME NEW h \in Tasks, DropPendingReply(h) PROVE KeepInv'
  <2>1. /\ pending' = [pending EXCEPT ![job[h].who] = NoReply]
        /\ Return(h) /\ UNCHANGED <<owner, thread, state, inputs>>
    BY <1>5 DEF DropPendingReply, tickets
  <2>2. \A a \in Admins: pending'[a] = NoReply \/ pending'[a] = pending[a]
    BY <2>1 DEF JobType
  <2>3. QED
    BY <1>4, <2>1, <2>2, ReturnHolds
<1>6. ASSUME NEW a \in Admins, AdminCancelReply(a) PROVE KeepInv'
  <2>1. pending' = [TidyReplies EXCEPT ![a] = NoReply]
    BY <1>6 DEF AdminCancelReply
  <2>2. \A b \in Admins: pending'[b] = NoReply \/ pending'[b] = pending[b]
    BY <2>1, TidyStays, TidyAims
  <2>3. QED
    BY <1>4, <1>6, <2>2, MemoryHolds DEF AdminCancelReply, tickets
<1>7. ASSUME NEW a \in Admins, ReplyAges(a) PROVE KeepInv'
  <2>1. \A b \in Admins: pending'[b].ticket = pending[b].ticket
    BY <1>7 DEF ReplyAges, JobType
  <2>2. QED
    BY <1>4, <1>7, <2>1, MemoryHolds DEF ReplyAges, tickets
<1>8. ASSUME NEW a \in Admins, Broadcast(a) \/ ConfirmBroadcast(a) PROVE KeepInv'
  <2>1. \A b \in Admins: pending'[b] = NoReply \/ pending'[b] = pending[b]
    BY <1>8, TidyStays DEF Broadcast, ConfirmBroadcast
  <2>2. QED
    BY <1>4, <1>8, <2>1, MemoryHolds DEF Broadcast, ConfirmBroadcast, tickets
<1>9. ASSUME NEW a \in Admins, DraftAges(a) \/ CancelBroadcast(a) PROVE KeepInv'
  BY <1>4, <1>9, MemoryHolds DEF DraftAges, CancelBroadcast, tickets
<1>10. ASSUME NEW d \in Inputs, NEW u \in Users, SendBroadcast(d, u) \/ SkipRecipient(d, u)
       PROVE  KeepInv'
  BY <1>4, <1>10, MemoryHolds DEF SendBroadcast, SkipRecipient, tickets
<1>11. ASSUME NEW a \in Admins, NEW t \in Tickets, AdminReplyStart(a, t) PROVE KeepInv'
  <2> DEFINE entry == [ticket |-> t, aim |-> inputs + 1, fresh |-> TRUE]
  <2>1. /\ Exists(t) /\ pending' = [TidyReplies EXCEPT ![a] = entry]
        /\ NewInput /\ UNCHANGED <<owner, thread, state, pc, job>>
    BY <1>11 DEF AdminReplyStart, tickets
  <2>2. entry.ticket = t
    OBVIOUS
  <2> HIDE DEF entry
  <2>3. \A b \in Admins: \/ pending'[b] = NoReply \/ pending'[b] = pending[b]
                         \/ pending'[b].ticket = t
    BY <2>1, <2>2, TidyStays, TidyAims
  <2>4. NoReply.ticket \notin Tickets
    BY ConstantsAssumption DEF NoReply
  <2>5. EntriesKnown' /\ StatesKnown'
    BY <1>0, <2>1, <2>3, <2>4 DEF EntriesKnown, StatesKnown, Exists
  <2>6. QED
    BY <2>1, <2>5, MemoryHolds
<1>12. Users \subseteq People /\ Admins \subseteq People
  BY DEF People
<1>13. ASSUME NEW h \in Tasks,
              \/ \E u \in Users : CollectSupportProblem(h, u) \/ SupportRequest(h, u)
              \/ \E t \in Tickets, p \in People : CloseRequest(h, p, t)
              \/ \E a \in Admins : AdminText(h, a) \/ \E t \in Tickets : TicketReply(h, a, t)
       PROVE  KeepInv'
  BY <1>12, <1>13, RequestHolds
<1>14. QED
  BY <1>1, <1>2, <1>3, <1>5, <1>6, <1>7, <1>8, <1>9, <1>10, <1>11, <1>13, PopHolds, LoadHolds,
     ClearHolds, ReopenHolds, CloseHolds, CreateHolds, AddHolds, RestartHolds DEF Next

LEMMA KeepAlways == Spec => [](JobType /\ AimInv /\ KeepInv)
BY AimInit, AimNext, KeepInit, KeepNext, PTL DEF Spec

\* No more texts than inputs: every text came from an input of its own.
LEMMA ThreadsAreShort ==
  ASSUME JobType, KeepInv, NEW t \in Tickets
  PROVE  Len(thread[t]) <= inputs
<1> DEFINE n == Len(thread[t])
           from == [i \in 1..n |-> thread[t][i].msg]
<1>1. n \in Nat /\ inputs \in Nat
  BY DEF JobType
<1>2. from \in [1..n -> 1..inputs]
  BY DEF KeepInv, Apart
<1>3. \A i, k \in 1..n: from[i] = from[k] => i = k
  BY DEF KeepInv, Apart
<1> HIDE DEF from
<1>4. from \in Injection(1..n, 1..inputs)
  BY <1>2, <1>3 DEF Injection, IsInjective
<1>5. IsFiniteSet(1..inputs) /\ Cardinality(1..inputs) = inputs /\ Cardinality(1..n) = n
  <2>1. ASSUME NEW m \in Nat PROVE IsFiniteSet(1..m) /\ Cardinality(1..m) = m
    <3>1. 1 \in Int /\ m \in Int
      OBVIOUS
    <3>2. IsFiniteSet(1..m) /\ Cardinality(1..m) = IF 1 > m THEN 0 ELSE m - 1 + 1
      BY <3>1, FS_Interval
    <3>3. QED
      BY <3>2
  <2>2. QED
    BY <1>1, <2>1
<1>6. Cardinality(1..n) <= Cardinality(1..inputs)
  BY <1>4, <1>5, FS_Injection
<1>7. QED
  BY <1>5, <1>6

\* Whoever is told that a text was delivered finds it in the ticket, once.
THEOREM TextsAreKept == Spec => []AcknowledgedIsStored
<1>1. JobType /\ AimInv /\ KeepInv /\ CastInv => AcknowledgedIsStored
  <2> SUFFICES ASSUME JobType, AimInv, KeepInv, CastInv, NEW h \in Tasks, pc[h] = "answer"
               PROVE  /\ \E i \in Inputs : Places(job[h].msg) = {<<job[h].ticket, i>>}
                      /\ job[h].who \in Admins \cup {owner[job[h].ticket]}
    BY DEF AcknowledgedIsStored
  <2> DEFINE j == job[h]
             t == job[h].ticket
  <2>1. Suits("answer", j) /\ Found("answer", j) /\ Written("answer", j)
    BY DEF KeepInv, AtWork, Written
  <2>2. t \in Tickets /\ (j.op \in {"create", "reply"} => owner[t] = j.who)
    BY <2>1, TicketKnown
  <2>3. PICK i \in 1..Len(thread[t]) : thread[t][i].msg = j.msg
    BY <2>1 DEF Found, Suits, Writes
  <2>4. ASSUME NEW s \in Tickets, NEW k \in 1..Len(thread[s]), thread[s][k].msg = j.msg
        PROVE  s = t /\ k = i
    BY <2>2, <2>3, <2>4 DEF KeepInv, Apart
  <2>5. ASSUME NEW s \in Tickets PROVE Len(thread[s]) \in Nat /\ Len(thread[s]) <= MaxInputs
    <3>1. Len(thread[s]) \in Nat /\ inputs \in Nat /\ MaxInputs \in Nat /\ inputs <= MaxInputs
      BY ConstantsAssumption DEF JobType, CastInv, CastType
    <3>2. Len(thread[s]) <= inputs
      BY ThreadsAreShort
    <3>3. QED
      BY <3>1, <3>2
  <2>6. i \in 1..MaxInputs
    BY <2>2, <2>5, ConstantsAssumption
  <2>7. ASSUME NEW p \in Places(j.msg) PROVE p = <<t, i>>
    <3>1. /\ p \in Tickets \X (1..MaxInputs) /\ p[2] <= Len(thread[p[1]])
          /\ thread[p[1]][p[2]].msg = j.msg
      BY <2>7 DEF Places
    <3>2. p[1] \in Tickets /\ p[2] \in 1..Len(thread[p[1]]) /\ p = <<p[1], p[2]>>
      BY <2>5, <3>1
    <3>3. QED
      BY <2>4, <3>1, <3>2
  <2>8. <<t, i>> \in Places(j.msg)
    BY <2>2, <2>3, <2>5, <2>6 DEF Places
  <2>9. Places(j.msg) = {<<t, i>>}
    BY <2>7, <2>8
  <2>10. j.who \in Admins \cup {owner[t]}
    BY <2>1, <2>2 DEF Suits
  <2>11. QED
    BY <2>6, <2>9, <2>10 DEF Inputs
<1>2. QED
  BY <1>1, KeepAlways, CastInit, CastNext, PTL DEF Spec

-----------------------------------------------------------------------------
(* Type correctness, from the invariants above and the rest of the types    *)

RestType ==
    /\ crashes \in 0..MaxCrashes
    /\ \A h \in Tasks: job[h].msg <= inputs
    /\ \A t \in Tickets: \A i \in 1..Len(thread[t]): thread[t][i].by \in People

LEMMA RestInit == Init => RestType
<1> SUFFICES ASSUME Init PROVE RestType
  OBVIOUS
<1>1. \A t \in Tickets: Len(thread[t]) = 0
  BY DEF Init
<1>2. QED
  BY <1>1, ConstantsAssumption DEF Init, RestType, NoJob

\* A step that adds no text.
LEMMA RestKeeps ==
  ASSUME JobType, RestType, UNCHANGED thread, crashes' \in 0..MaxCrashes,
         inputs' = inputs \/ NewInput,
         \A h \in Tasks: job'[h].msg = job[h].msg \/ job'[h].msg <= inputs'
  PROVE  RestType'
<1>1. inputs \in Nat /\ inputs' \in Nat /\ inputs <= inputs'
  BY DEF JobType, NewInput
<1>2. \A h \in Tasks: job'[h].msg <= inputs'
  BY <1>1 DEF RestType, JobType, Jobs
<1>3. QED
  BY <1>2 DEF RestType

\* A text is added by the job that carries it: its author is the job's.
LEMMA AuthorKnown ==
  ASSUME KeepInv, NEW h \in Tasks, pc[h] \in {"create", "add"}
  PROVE  Text(job[h]).by \in People
<1>1. Suits(pc[h], job[h])
  BY DEF KeepInv, AtWork
<1>2. job[h].who \in Users \cup Admins
  BY <1>1 DEF Suits
<1>3. QED
  BY <1>2 DEF Text, People

LEMMA RestNext == JobType /\ AimInv /\ KeepInv /\ RestType /\ [Next]_vars => RestType'
<1> SUFFICES ASSUME JobType, AimInv, KeepInv, RestType, [Next]_vars PROVE RestType'
  OBVIOUS
<1>1. crashes \in 0..MaxCrashes /\ crashes \in Nat /\ inputs \in Nat
  BY ConstantsAssumption DEF RestType, JobType
<1>2. CASE UNCHANGED vars
  BY <1>1, <1>2, RestKeeps DEF vars, tickets
\* Steps that change no job.
<1>3. ASSUME UNCHANGED <<thread, job, crashes>>, inputs' = inputs \/ NewInput PROVE RestType'
  BY <1>1, <1>3, RestKeeps
\* The job of a task ends, or is replaced by one with the same text or a new one.
<1>4. ASSUME NEW h \in Tasks, NEW j, job' = [job EXCEPT ![h] = j],
             j.msg = job[h].msg \/ j.msg <= inputs',
             UNCHANGED thread, crashes' \in 0..MaxCrashes, inputs' = inputs \/ NewInput
      PROVE  RestType'
  BY <1>4, RestKeeps DEF JobType
<1>5. NoJob.msg <= inputs
  BY <1>1 DEF NoJob
<1>6. ASSUME NEW u \in Users, ChooseTopic(u) \/ \E t \in Tickets : ReplyTicket(u, t)
      PROVE  RestType'
  BY <1>3, <1>6 DEF ChooseTopic, ReplyTicket, tickets
<1>7. ASSUME NEW h \in Tasks, NEW p \in People,
             \/ CollectSupportProblem(h, p) \/ SupportRequest(h, p)
             \/ \E t \in Tickets : CloseRequest(h, p, t) \/ TicketReply(h, p, t)
             \/ AdminText(h, p)
      PROVE  RestType'
  <2>1. PICK step, op, t :
           /\ NewInput /\ UNCHANGED <<thread, crashes>>
           /\ \/ Accept(h, step, Write(op, p, t))
              \/ Accept(h, step, [NoJob EXCEPT !.op = "close", !.who = p, !.ticket = t])
    BY <1>7 DEF CollectSupportProblem, SupportRequest, CloseRequest, TicketReply, AdminText,
       tickets
  <2>2. /\ Write(op, p, t).msg = inputs + 1 /\ inputs' = inputs + 1 /\ inputs + 1 <= inputs'
        /\ [NoJob EXCEPT !.op = "close", !.who = p, !.ticket = t].msg = 0 /\ 0 <= inputs'
    BY <1>1, <2>1 DEF Write, NoJob, NewInput
  <2>3. CASE Accept(h, step, Write(op, p, t))
    BY <1>1, <1>4, <2>1, <2>2, <2>3 DEF Accept
  <2>4. CASE Accept(h, step, [NoJob EXCEPT !.op = "close", !.who = p, !.ticket = t])
    BY <1>1, <1>4, <2>1, <2>2, <2>4 DEF Accept
  <2>5. QED
    BY <2>1, <2>3, <2>4
<1>8. ASSUME NEW h \in Tasks, Answer(h) \/ DropPendingReply(h) \/ Die(h) PROVE RestType'
  <2>1. /\ Return(h) /\ UNCHANGED <<thread, inputs>>
        /\ crashes' = crashes \/ (crashes < MaxCrashes /\ crashes' = crashes + 1)
    BY <1>8 DEF Answer, DropPendingReply, Die, tickets
  <2>2. crashes' \in 0..MaxCrashes
    BY <1>1, <2>1, ConstantsAssumption
  <2>3. QED
    BY <1>4, <1>5, <2>1, <2>2 DEF Return
<1>9. ASSUME NEW h \in Tasks, PopPendingReply(h) PROVE RestType'
  <2>1. UNCHANGED <<thread, inputs, crashes>>
    BY <1>9 DEF PopPendingReply, tickets
  <2>2. CASE Return(h)
    BY <1>1, <1>4, <1>5, <2>1, <2>2 DEF Return
  <2>3. CASE ~Return(h)
    <3>1. PICK entry : job' = [job EXCEPT ![h] = Aimed(job[h], entry)]
      BY <1>9, <2>3 DEF PopPendingReply
    <3>2. Aimed(job[h], entry).msg = job[h].msg
      BY DEF Aimed, JobType, Jobs
    <3>3. QED
      BY <1>1, <1>4, <2>1, <3>1, <3>2
  <2>4. QED
    BY <2>2, <2>3
<1>10. ASSUME NEW h \in Tasks, Load(h) \/ Reopen(h) PROVE RestType'
  <2>1. PICK now : job' = [job EXCEPT ![h] = Seen(job[h], now)]
    BY <1>10 DEF Load, Reopen
  <2>2. Seen(job[h], now).msg = job[h].msg
    BY DEF Seen, JobType, Jobs
  <2>3. UNCHANGED <<thread, inputs, crashes>>
    BY <1>10 DEF Load, Reopen, tickets
  <2>4. QED
    BY <1>1, <1>4, <2>1, <2>2, <2>3
<1>11. ASSUME NEW h \in Tasks, ClearState(h) PROVE RestType'
  BY <1>3, <1>11 DEF ClearState, tickets
<1>12. ASSUME NEW h \in Tasks, SetClosed(h) PROVE RestType'
  <2>1. UNCHANGED <<thread, inputs, crashes>> /\ (UNCHANGED job \/ Return(h))
    BY <1>12 DEF SetClosed
  <2>2. CASE UNCHANGED job
    BY <1>3, <2>1, <2>2
  <2>3. CASE Return(h)
    BY <1>1, <1>4, <1>5, <2>1, <2>3 DEF Return
  <2>4. QED
    BY <2>1, <2>2, <2>3
<1>13. ASSUME NEW h \in Tasks, CreateSupportTicket(h) PROVE RestType'
  <2>1. PICK t \in Tickets :
          /\ thread' = [thread EXCEPT ![t] = <<Text(job[h])>>]
          /\ job' = [job EXCEPT ![h] = Made(job[h], t)]
          /\ UNCHANGED <<inputs, crashes>>
    BY <1>13 DEF CreateSupportTicket
  <2> DEFINE note == Text(job[h])
  <2>2. note.by \in People
    BY <1>13, AuthorKnown DEF CreateSupportTicket
  <2> HIDE DEF note
  <2>3. thread' = [thread EXCEPT ![t] = <<note>>]
    BY <2>1 DEF note
  <2>4. ASSUME NEW s \in Tickets, NEW i \in 1..Len(thread'[s]) PROVE thread'[s][i].by \in People
    <3>1. CASE s = t
      <4>1. thread'[s] = <<note>> /\ 1..Len(thread'[s]) = 1..1
        BY <2>3, <3>1 DEF JobType
      <4>2. QED
        BY <2>2, <4>1
    <3>2. CASE s # t
      BY <2>3, <3>2 DEF JobType, RestType
    <3>3. QED
      BY <3>1, <3>2
  <2>5. ASSUME NEW g \in Tasks PROVE job'[g].msg <= inputs'
    <3>1. Made(job[h], t).msg = job[h].msg
      BY DEF Made, JobType, Jobs
    <3>2. QED
      BY <2>1, <3>1 DEF JobType, RestType
  <2>6. QED
    BY <2>1, <2>4, <2>5 DEF RestType
<1>14. ASSUME NEW h \in Tasks, AddSupportMessage(h) PROVE RestType'
  <2> DEFINE note == Text(job[h])  t == job[h].ticket
  <2>1. thread' = [thread EXCEPT ![t] = Append(thread[t], note)] /\ UNCHANGED <<job, inputs, crashes>>
    BY <1>14 DEF AddSupportMessage
  <2>2. note.by \in People /\ note \in Notes /\ t \in Tickets
    BY <1>14, AuthorKnown, Ready, TextTyped DEF AddSupportMessage, JobReady
  <2> HIDE DEF note
  <2>3. ASSUME NEW s \in Tickets, NEW i \in 1..Len(thread'[s]) PROVE thread'[s][i].by \in People
    <3>1. CASE s = t
      <4>1. thread[t] \in Seq(Notes) /\ thread'[s] = Append(thread[t], note)
        BY <2>1, <2>2, <3>1 DEF JobType
      <4>2. \/ i = Len(thread[t]) + 1 /\ thread'[s][i] = note
            \/ i \in 1..Len(thread[t]) /\ thread'[s][i] = thread[t][i]
        BY <2>2, <4>1
      <4>3. QED
        BY <2>2, <4>2 DEF RestType
    <3>2. CASE s # t
      BY <2>1, <3>2 DEF JobType, RestType
    <3>3. QED
      BY <3>1, <3>2
  <2>4. QED
    BY <2>1, <2>3 DEF RestType
<1>15. ASSUME NEW a \in Admins,
              \/ \E t \in Tickets : AdminReplyStart(a, t)
              \/ AdminCancelReply(a) \/ ReplyAges(a) \/ DraftAges(a)
              \/ Broadcast(a) \/ CancelBroadcast(a) \/ ConfirmBroadcast(a)
       PROVE  RestType'
  BY <1>3, <1>15 DEF AdminReplyStart, AdminCancelReply, ReplyAges, DraftAges, Broadcast,
     CancelBroadcast, ConfirmBroadcast, tickets
<1>16. ASSUME NEW d \in Inputs, NEW u \in Users, SendBroadcast(d, u) \/ SkipRecipient(d, u)
       PROVE  RestType'
  BY <1>3, <1>16 DEF SendBroadcast, SkipRecipient, tickets
<1>17. CASE RestartBot
  <2>1. /\ UNCHANGED <<thread, inputs>>
        /\ crashes < MaxCrashes /\ crashes' = crashes + 1
        /\ \A g \in Tasks: job'[g] = job[g] \/ job'[g] = NoJob
    BY <1>17 DEF RestartBot, tickets
  <2>2. crashes' \in 0..MaxCrashes
    BY <1>1, <2>1, ConstantsAssumption
  <2>3. QED
    BY <1>5, <2>1, <2>2, RestKeeps
<1>18. Users \subseteq People /\ Admins \subseteq People
  BY DEF People
<1>19. QED
  BY <1>2, <1>6, <1>7, <1>8, <1>9, <1>10, <1>11, <1>12, <1>13, <1>14, <1>15, <1>16, <1>17,
     <1>18 DEF Next

\* Every variable has its type.
THEOREM TypeCorrect == Spec => []TypeOK
<1>1. JobType /\ AimInv /\ PressInv /\ KeepInv /\ CastInv /\ RestType /\ StatusType => TypeOK
  <2> SUFFICES ASSUME JobType, AimInv, PressInv, KeepInv, CastInv, RestType, StatusType
               PROVE  TypeOK
    OBVIOUS
  <2>1. inputs \in Nat /\ MaxInputs \in Nat /\ inputs <= MaxInputs /\ inputs \in 0..MaxInputs
    BY ConstantsAssumption DEF CastInv, CastType
  <2>2. \A n \in Nat: n <= inputs => n \in 0..MaxInputs
    BY <2>1
  <2>3. thread \in [Tickets -> Seq(Texts)]
    <3>1. ASSUME NEW t \in Tickets PROVE thread[t] \in Seq(Texts)
      <4>1. thread[t] \in Seq(Notes) /\ Len(thread[t]) \in Nat
        BY DEF JobType
      <4>2. ASSUME NEW i \in 1..Len(thread[t]) PROVE thread[t][i] \in Texts
        <5>1. thread[t][i] \in Notes
          BY <4>1
        <5>2. thread[t][i].msg \in Inputs
          BY <2>1 DEF KeepInv, Apart, Inputs
        <5>3. thread[t][i].aim \in 0..MaxInputs
          BY <2>2, <5>1 DEF AimInv, Arrived, Notes
        <5>4. thread[t][i].by \in People
          BY DEF RestType
        <5>5. QED
          BY <5>1, <5>2, <5>3, <5>4 DEF Notes, Texts
      <4>3. QED
        BY <4>1, <4>2
    <3>2. QED
      BY <3>1 DEF JobType
  <2>4. pending \in [Admins -> [ticket: Tickets \cup {Nobody}, aim: 0..MaxInputs, fresh: BOOLEAN]]
    <3>1. ASSUME NEW a \in Admins
          PROVE  pending[a] \in [ticket: Tickets \cup {Nobody}, aim: 0..MaxInputs, fresh: BOOLEAN]
      <4>1. CASE pending[a] = NoReply
        BY <2>1, <4>1 DEF NoReply
      <4>2. CASE pending[a] \in [ticket: Tickets, aim: Nat, fresh: BOOLEAN]
        <5>1. pending[a].aim \in 0..MaxInputs
          BY <2>2, <4>2 DEF AimInv, OnTheWay
        <5>2. QED
          BY <4>2, <5>1
      <4>3. QED
        BY <4>1, <4>2 DEF JobType, Entries
    <3>2. QED
      BY <3>1 DEF JobType
  <2>5. draft \in [Admins -> [id: 0..MaxInputs, fresh: BOOLEAN]]
    <3>1. ASSUME NEW a \in Admins PROVE draft[a] \in [id: 0..MaxInputs, fresh: BOOLEAN]
      <4>1. draft[a] \in [id: Nat, fresh: BOOLEAN]
        BY DEF CastInv, CastType
      <4>2. draft[a].id \in 0..MaxInputs
        BY <2>2, <4>1 DEF CastInv, DraftsShown
      <4>3. QED
        BY <4>1, <4>2
    <3>2. QED
      BY <3>1 DEF CastInv, CastType
  <2>6. ASSUME NEW h \in Tasks
        PROVE  job[h] \in [op: Opers, who: People \cup {Nobody},
                           ticket: Tickets \cup {Nobody}, msg: 0..MaxInputs,
                           aim: 0..MaxInputs, fresh: BOOLEAN, seen: Statuses]
    <3>1. job[h] \in Jobs
      BY DEF JobType
    <3>2. job[h].msg \in 0..MaxInputs /\ job[h].aim \in 0..MaxInputs
      BY <2>2, <3>1 DEF Jobs, RestType, AimInv, OnTheWay
    <3>3. QED
      BY <3>1, <3>2 DEF Jobs
  <2>7. job \in [Tasks -> [op: Opers, who: People \cup {Nobody},
                           ticket: Tickets \cup {Nobody}, msg: 0..MaxInputs,
                           aim: 0..MaxInputs, fresh: BOOLEAN, seen: Statuses]]
    BY <2>6 DEF JobType
  <2>8. owner \in [Tickets -> Users \cup {Nobody}]
    BY DEF KeepInv, Known
  <2>9. /\ status \in [Tickets -> Statuses] /\ pc \in [Tasks -> Steps]
        /\ last \in [Tickets -> {"none", "user", "staff", "close", "reopen", "raced"}]
        /\ state \in [Users -> {"none", "newticket"} \cup Tickets]
    BY DEF JobType, StatusType
  <2>10. /\ queue \in [Inputs -> SUBSET Users]
         /\ stage \in [Inputs -> {"unused", "shown", "replaced", "cancelled", "aged",
                                  "confirmed", "misused"}]
         /\ got \in [Inputs -> [Users -> Nat]]
    BY DEF CastInv, CastType, Stages
  <2>11. crashes \in 0..MaxCrashes /\ pressed \in [Inputs -> Tickets \cup {Nobody}]
    BY DEF RestType, PressInv
  <2>12. QED
    BY <2>1, <2>3, <2>4, <2>5, <2>7, <2>8, <2>9, <2>10, <2>11 DEF TypeOK
<1>2. Init => StatusType /\ StatusFollowsThread
  BY DEF Init, StatusType, Statuses, StatusFollowsThread
<1>3. QED
  BY <1>1, <1>2, AimInit, AimNext, PressInit, PressNext, KeepInit, KeepNext, CastInit, CastNext,
     RestInit, RestNext, StatusNext, PTL DEF Spec

=============================================================================
