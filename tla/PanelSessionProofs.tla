------------------------- MODULE PanelSessionProofs -------------------------
(* PanelSession: what its locks and the usage cache guarantee, for any      *)
(* number of calls, ages, changes and refusals.                             *)
EXTENDS PanelSession, FiniteSetTheorems, TLAPS

\* The part of TypeOK that the proofs below need, without the bounds.
Told == [version: Nat, age: Ages, raced: BOOLEAN]

TypeInv ==
    /\ token \in Tokens
    /\ at \in [Tasks -> Places] /\ call \in [Tasks -> Calls]
    /\ header \in [Tasks -> Tokens]
    /\ started \in [Tasks -> Ages] /\ read \in [Tasks -> Told]
    /\ cache \in [full: BOOLEAN, stamp: Ages, answer: Told]
    /\ version \in Nat /\ promised \in Nat

LEMMA OlderAge == \A a \in Ages : Older(a) \in Ages
BY ConstantsAssumption DEF Ages, Older

LEMMA TypeInit == Init => TypeInv
BY ConstantsAssumption DEF Init, TypeInv, Tokens, Calls, Places, Ages, Told, Nothing, Answer, Empty

LEMMA ReturnTyped ==
  ASSUME TypeInv, NEW t \in Tasks, Return(t)
  PROVE  /\ at' \in [Tasks -> Places] /\ call' \in [Tasks -> Calls]
         /\ header' \in [Tasks -> Tokens] /\ started' \in [Tasks -> Ages]
         /\ read' \in [Tasks -> Told]
<1>1. Nothing \in Told /\ 0 \in Ages
  BY ConstantsAssumption DEF Nothing, Answer, Told, Ages
<1>2. QED
  BY <1>1 DEF TypeInv, Return, Leave, GoTo, Calls, Places, Tokens

LEMMA TypeNext == TypeInv /\ [Next]_vars => TypeInv'
<1> SUFFICES ASSUME TypeInv, [Next]_vars PROVE TypeInv'
  OBVIOUS
<1>1. CASE UNCHANGED vars
  BY <1>1 DEF TypeInv, vars, session, servers, account
<1>2. ASSUME NEW t \in Tasks, GetUsage(t) \/ Change(t) \/ ServersOnline(t) PROVE TypeInv'
  BY <1>2 DEF TypeInv, GetUsage, Change, ServersOnline, GoTo, Calls, Places, session, servers, account
<1>3. ASSUME NEW t \in Tasks, CountNodes(t) PROVE TypeInv'
  <2>1. CASE Return(t)
    BY <1>3, <2>1, ReturnTyped DEF TypeInv, CountNodes, session, account
  <2>2. CASE GoTo(t, "header") /\ UNCHANGED <<servers, call, header, started, read>>
    BY <1>3, <2>2 DEF TypeInv, CountNodes, GoTo, Places, session, account
  <2>3. QED
    BY <1>3, <2>1, <2>2 DEF CountNodes
<1>4. ASSUME NEW t \in Tasks, AuthHeader(t) \/ AuthUnderLock(t) PROVE TypeInv'
  BY <1>4 DEF TypeInv, AuthHeader, AuthUnderLock, Send, GoTo, Places, servers, account
<1>5. ASSUME NEW t \in Tasks, DropToken(t) \/ Authenticate(t) PROVE TypeInv'
  BY <1>5 DEF TypeInv, DropToken, Authenticate, Send, GoTo, Places, Tokens, servers, account
<1>6. ASSUME NEW t \in Tasks, AuthenticationFails(t) PROVE TypeInv'
  BY <1>6, ReturnTyped DEF TypeInv, AuthenticationFails, account
<1>7. ASSUME NEW t \in Tasks, Answered(t) PROVE TypeInv'
  <2>1. version' \in Nat
    BY <1>7 DEF Answered, TypeInv
  <2>2. \A v \in Nat, raced \in BOOLEAN : Answer(v, 0, raced) \in Told
    BY ConstantsAssumption DEF Answer, Told, Ages
  <2>3. read[t].raced \in BOOLEAN
    BY DEF TypeInv, Told
  <2>4. read' \in [Tasks -> Told]
    BY <1>7, <2>1, <2>2, <2>3 DEF Answered, TypeInv
  <2>5. QED
    BY <1>7, <2>1, <2>4 DEF TypeInv, Answered, GoTo, Places, session, servers
<1>8. ASSUME NEW t \in Tasks, Refused(t) PROVE TypeInv'
  <2>1. CASE Return(t)
    BY <1>8, <2>1, ReturnTyped DEF TypeInv, Refused, account
  <2>2. CASE GoTo(t, "lock401") /\ UNCHANGED <<servers, call, header, started, read>>
    BY <1>8, <2>2 DEF TypeInv, Refused, GoTo, Places, account
  <2>3. QED
    BY <1>8, <2>1, <2>2 DEF Refused
<1>9. ASSUME NEW t \in Tasks, RequestFails(t) PROVE TypeInv'
  <2>1. version' \in Nat
    BY <1>9 DEF RequestFails, TypeInv
  <2>2. QED
    BY <1>9, <2>1, ReturnTyped DEF TypeInv, RequestFails, session
<1>10. ASSUME NEW t \in Tasks, CacheUsage(t) \/ CacheServers(t) PROVE TypeInv'
  <2>1. cache' \in [full: BOOLEAN, stamp: Ages, answer: Told]
    <3>1. read[t] \in Told /\ started[t] \in Ages
      BY DEF TypeInv
    <3>2. CASE CacheUsage(t)
      BY <3>1, <3>2 DEF CacheUsage, Stamp
    <3>3. CASE CacheServers(t)
      BY <3>3 DEF CacheServers, TypeInv
    <3>4. QED
      BY <1>10, <3>2, <3>3
  <2>2. QED
    BY <1>10, <2>1, ReturnTyped DEF TypeInv, CacheUsage, CacheServers, session, account
<1>11. ASSUME NEW t \in Tasks, InvalidateUsage(t) PROVE TypeInv'
  <2>1. Nothing \in Told /\ 0 \in Ages /\ cache' \in [full: BOOLEAN, stamp: Ages, answer: Told]
    BY <1>11, ConstantsAssumption DEF InvalidateUsage, Invalidated, Empty, Nothing, Answer, Told, Ages
  <2>2. read' \in [Tasks -> Told]
    BY <1>11, <2>1 DEF InvalidateUsage, TypeInv, Told, Answer
  <2>3. promised' \in Nat
    BY <1>11 DEF InvalidateUsage, TypeInv, Told, Answer
  <2>4. QED
    BY <1>11, <2>1, <2>2, <2>3 DEF TypeInv, InvalidateUsage, Leave, GoTo, Places, session, Calls, Tokens, Places
<1>12. CASE Tick
  <2>1. cache' \in [full: BOOLEAN, stamp: Ages, answer: Told]
    BY <1>12, OlderAge DEF Tick, TypeInv, Told, Answer, Aged
  <2>2. started' \in [Tasks -> Ages] /\ read' \in [Tasks -> Told]
    BY <1>12, OlderAge, ConstantsAssumption DEF Tick, TypeInv, Told, Ages, Answer, Aged
  <2>3. QED
    BY <1>12, <2>1, <2>2 DEF TypeInv, Tick, session, servers, account
<1>13. CASE TokenExpires \/ CountExpires
  BY <1>13 DEF TypeInv, TokenExpires, CountExpires, servers, session, account
<1>14. CASE PanelForgets
  BY <1>14 DEF TypeInv, PanelForgets, Worse, Tokens, servers, account
<1>15. QED
  BY <1>1, <1>2, <1>3, <1>4, <1>5, <1>6, <1>7, <1>8, <1>9, <1>10, <1>11, <1>12, <1>13, <1>14
     DEF Next, Proceed

-----------------------------------------------------------------------------
(* The token                                                                *)

\* Only steps of the calls that send, and the panel, can disturb it.
LEMMA TokenNext == TypeInv /\ NoTokenlessRequest /\ [Next]_vars => NoTokenlessRequest'
<1> SUFFICES ASSUME TypeInv, NoTokenlessRequest, [Next]_vars PROVE NoTokenlessRequest'
  OBVIOUS
<1>1. CASE UNCHANGED vars
  BY <1>1 DEF NoTokenlessRequest, vars
<1>2. ASSUME NEW t \in Tasks, header' = [header EXCEPT ![t] = token'],
             at' = [at EXCEPT ![t] = "sent"] \/ at' = [at EXCEPT ![t] = "resent"],
             token' # "none"
      PROVE  NoTokenlessRequest'
  BY <1>2 DEF NoTokenlessRequest, TypeInv
<1>3. ASSUME NEW t \in Tasks, NEW place \in Places, GoTo(t, place),
             place \notin {"sent", "resent"}, UNCHANGED header
      PROVE  NoTokenlessRequest'
  BY <1>3 DEF NoTokenlessRequest, TypeInv, Places, GoTo
<1>4. ASSUME NEW t \in Tasks, Leave(t) PROVE NoTokenlessRequest'
  BY <1>4 DEF NoTokenlessRequest, TypeInv, Leave, GoTo
<1>5. ASSUME NEW t \in Tasks, AuthHeader(t) \/ AuthUnderLock(t) PROVE NoTokenlessRequest'
  <2>1. CASE NeedsToken
    BY <1>3, <1>5, <2>1 DEF AuthHeader, AuthUnderLock, StillNeeded, Places
  <2>2. CASE ~NeedsToken
    <3>1. token' # "none" /\ Send(t, "sent")
      BY <1>5, <2>2 DEF AuthHeader, AuthUnderLock, StillNeeded, NeedsToken
    <3>2. QED
      BY <1>2, <3>1 DEF Send, GoTo
  <2>3. QED
    BY <2>1, <2>2
<1>6. ASSUME NEW t \in Tasks, Authenticate(t) PROVE NoTokenlessRequest'
  BY <1>2, <1>6 DEF Authenticate, Send, GoTo
<1>7. ASSUME NEW t \in Tasks, GetUsage(t) \/ Change(t) \/ ServersOnline(t) \/ DropToken(t)
                              \/ Answered(t)
      PROVE  NoTokenlessRequest'
  <2>1. CASE GetUsage(t) \/ Change(t)
    BY <1>3, <2>1 DEF GetUsage, Change, Places
  <2>2. CASE ServersOnline(t)
    BY <1>3, <2>2 DEF ServersOnline, Places
  <2>3. CASE DropToken(t)
    BY <1>3, <2>3 DEF DropToken, Places
  <2>4. CASE Answered(t)
    BY <1>3, <2>4 DEF Answered, Places
  <2>5. QED
    BY <1>7, <2>1, <2>2, <2>3, <2>4
<1>8. ASSUME NEW t \in Tasks, CountNodes(t) \/ Refused(t) PROVE NoTokenlessRequest'
  <2>1. CASE CountNodes(t)
    BY <1>3, <1>4, <2>1 DEF CountNodes, Return, Places
  <2>2. CASE Refused(t)
    BY <1>3, <1>4, <2>2 DEF Refused, Return, Places
  <2>3. QED
    BY <1>8, <2>1, <2>2
<1>9. ASSUME NEW t \in Tasks, AuthenticationFails(t) \/ RequestFails(t) \/ CacheUsage(t)
                              \/ CacheServers(t) \/ InvalidateUsage(t)
      PROVE  NoTokenlessRequest'
  BY <1>4, <1>9 DEF AuthenticationFails, RequestFails, CacheUsage, CacheServers,
     InvalidateUsage, Return
<1>10. CASE Tick \/ TokenExpires \/ CountExpires
  BY <1>10 DEF Tick, TokenExpires, CountExpires, NoTokenlessRequest
<1>11. CASE PanelForgets
  BY <1>11 DEF PanelForgets, Worse, NoTokenlessRequest, TypeInv
<1>12. QED
  BY <1>1, <1>5, <1>6, <1>7, <1>8, <1>9, <1>10, <1>11 DEF Next, Proceed

\* However calls, expiries, 401s and failures interleave: no request without a
\* token.
THEOREM RequestsCarryTokens == Spec => []NoTokenlessRequest
<1>1. Init => NoTokenlessRequest
  BY DEF Init, NoTokenlessRequest
<1>2. QED
  BY <1>1, TypeInit, TypeNext, TokenNext, PTL DEF Spec

-----------------------------------------------------------------------------
(* The usage cache                                                          *)

\* An answer is at most as old as the timestamp taken before its request, and
\* behind what a caller was promised only if a change overtook its call. This
\* holds of the cache because it holds of every answer on its way there.
Truthful(answer, stamp) ==
    answer.age <= stamp /\ (answer.version < promised => answer.raced)

UsageInHand(t) == at[t] = "answered" /\ call[t] = "usage"

TruthInv ==
    /\ promised <= version
    /\ cache.full => Truthful(cache.answer, cache.stamp)
    /\ \A t \in Tasks: UsageInHand(t) => Truthful(read[t], started[t])
    /\ \A t \in Tasks: at[t] = "answered" /\ call[t] = "change" => read[t].version <= version

\* A step that leaves the cache alone and every answer in hand as it is.
LEMMA HandsKeep ==
  ASSUME TypeInv, TypeInv', TruthInv, UNCHANGED <<cache, promised>>, version <= version',
         \A u \in Tasks:
            \/ at'[u] # "answered"
            \/ /\ at'[u] = at[u] /\ call'[u] = call[u]
               /\ read'[u] = read[u] /\ started'[u] = started[u]
  PROVE  TruthInv'
<1>1. promised' <= version'
  BY DEF TypeInv, TruthInv
<1>2. cache'.full => Truthful(cache.answer, cache.stamp)'
  BY DEF TruthInv, Truthful
<1>3. ASSUME NEW u \in Tasks, UsageInHand(u)' PROVE Truthful(read[u], started[u])'
  BY <1>3 DEF TruthInv, UsageInHand, Truthful
<1>4. ASSUME NEW u \in Tasks, at'[u] = "answered", call'[u] = "change"
      PROVE  read'[u].version <= version'
  <2>1. read[u].version \in Nat /\ read[u].version <= version
    BY <1>4 DEF TruthInv, TypeInv, Told
  <2>2. QED
    BY <1>4, <2>1 DEF TypeInv
<1>5. QED
  BY <1>1, <1>2, <1>3, <1>4 DEF TruthInv

\* A call that moves on, or returns, without an answer in hand.
LEMMA MoveKeeps ==
  ASSUME TypeInv, TypeInv', TruthInv, NEW t \in Tasks, UNCHANGED <<cache, promised>>,
         version <= version',
         \/ Return(t)
         \/ \E place \in Places \ {"answered"} :
               GoTo(t, place) /\ UNCHANGED <<started, read>>
               /\ \A u \in Tasks \ {t} : call'[u] = call[u]
  PROVE  TruthInv'
<1>1. ASSUME NEW u \in Tasks
      PROVE  \/ at'[u] # "answered"
             \/ /\ at'[u] = at[u] /\ call'[u] = call[u]
                /\ read'[u] = read[u] /\ started'[u] = started[u]
  <2>1. CASE Return(t)
    BY <2>1 DEF Return, Leave, GoTo, TypeInv
  <2>2. CASE \E place \in Places \ {"answered"} :
               GoTo(t, place) /\ UNCHANGED <<started, read>>
               /\ \A v \in Tasks \ {t} : call'[v] = call[v]
    BY <2>2 DEF GoTo, TypeInv
  <2>3. QED
    BY <2>1, <2>2
<1>2. QED
  BY <1>1, HandsKeep

LEMMA AnsweredKeeps ==
  ASSUME TypeInv, TypeInv', TruthInv, NEW t \in Tasks, Answered(t)
  PROVE  TruthInv'
<1>1. version \in Nat /\ version <= version' /\ UNCHANGED <<cache, promised, call, started>>
  BY DEF Answered, TypeInv
<1>2. promised' <= version'
  BY <1>1 DEF TypeInv, TruthInv
<1>3. cache'.full => Truthful(cache.answer, cache.stamp)'
  BY <1>1 DEF TruthInv, Truthful
<1>4. ASSUME NEW u \in Tasks, u # t
      PROVE  at'[u] = at[u] /\ read'[u] = read[u]
  BY <1>4 DEF Answered, GoTo, TypeInv
<1>5. call[t] # "servers" => read'[t] = Answer(version', 0, read[t].raced)
  BY DEF Answered, TypeInv
<1>6. ASSUME NEW u \in Tasks, UsageInHand(u)' PROVE Truthful(read[u], started[u])'
  <2>1. CASE u # t
    BY <1>1, <1>4, <1>6, <2>1 DEF TruthInv, UsageInHand, Truthful
  <2>2. CASE u = t
    <3>1. read'[t].version = version' /\ read'[t].age = 0
      BY <1>1, <1>5, <1>6, <2>2 DEF UsageInHand, Answer
    <3>2. started'[t] \in Nat
      BY ConstantsAssumption DEF TypeInv, Ages
    <3>3. version' \in Nat /\ promised' \in Nat
      BY DEF TypeInv
    <3>4. QED
      BY <1>2, <2>2, <3>1, <3>2, <3>3 DEF Truthful
  <2>3. QED
    BY <2>1, <2>2
<1>7. ASSUME NEW u \in Tasks, at'[u] = "answered", call'[u] = "change"
      PROVE  read'[u].version <= version'
  <2>1. CASE u # t
    <3>1. read[u].version \in Nat /\ read[u].version <= version
      BY <1>1, <1>4, <1>7, <2>1 DEF TruthInv, TypeInv, Told
    <3>2. read'[u].version = read[u].version /\ version' \in Nat
      BY <1>4, <2>1 DEF TypeInv
    <3>3. QED
      BY <1>1, <3>1, <3>2
  <2>2. CASE u = t
    <3>1. read'[t].version = version'
      BY <1>1, <1>5, <1>7, <2>2 DEF Answer
    <3>2. version' \in Nat
      BY DEF TypeInv
    <3>3. QED
      BY <2>2, <3>1, <3>2
  <2>3. QED
    BY <2>1, <2>2
<1>8. QED
  BY <1>2, <1>3, <1>6, <1>7 DEF TruthInv

\* The cache takes over what was true of the answer in hand.
LEMMA CacheKeeps ==
  ASSUME TypeInv, TypeInv', TruthInv, NEW t \in Tasks, CacheUsage(t)
  PROVE  TruthInv'
<1>1. UNCHANGED <<promised, version>> /\ Return(t)
  BY DEF CacheUsage, account
<1>2. cache'.answer = read[t] /\ cache'.stamp = started[t] /\ Truthful(read[t], started[t])
  BY DEF CacheUsage, Stamp, TruthInv, UsageInHand
<1>3. Truthful(cache.answer, cache.stamp)'
  BY <1>1, <1>2 DEF Truthful
<1>4. ASSUME NEW u \in Tasks
      PROVE  \/ at'[u] # "answered"
             \/ /\ at'[u] = at[u] /\ call'[u] = call[u]
                /\ read'[u] = read[u] /\ started'[u] = started[u]
  BY <1>1 DEF Return, Leave, GoTo, TypeInv
<1>5. ASSUME NEW u \in Tasks, UsageInHand(u)' PROVE Truthful(read[u], started[u])'
  BY <1>1, <1>4, <1>5 DEF TruthInv, UsageInHand, Truthful
<1>6. ASSUME NEW u \in Tasks, at'[u] = "answered", call'[u] = "change"
      PROVE  read'[u].version <= version'
  BY <1>1, <1>4, <1>6 DEF TruthInv
<1>7. promised' <= version'
  BY <1>1 DEF TruthInv
<1>8. QED
  BY <1>3, <1>5, <1>6, <1>7 DEF TruthInv

\* The promise grows: the cache is empty and every call under way is marked.
LEMMA InvalidateKeeps ==
  ASSUME TypeInv, TypeInv', TruthInv, NEW t \in Tasks, InvalidateUsage(t)
  PROVE  TruthInv'
<1>1. read[t].version \in Nat /\ read[t].version <= version /\ UNCHANGED version
  BY DEF InvalidateUsage, TruthInv, TypeInv, Told
<1>2. promised' <= version'
  BY <1>1 DEF InvalidateUsage, TruthInv, TypeInv
<1>3. ~cache'.full
  BY DEF InvalidateUsage, Invalidated, Empty
<1>4. ASSUME NEW u \in Tasks, at'[u] = "answered"
      PROVE  u # t /\ at[u] = "answered" /\ call'[u] = call[u] /\ started'[u] = started[u]
  BY <1>4 DEF InvalidateUsage, Leave, GoTo, TypeInv
<1>5. ASSUME NEW u \in Tasks, UsageInHand(u)' PROVE Truthful(read[u], started[u])'
  <2>1. u # t /\ at[u] = "answered" /\ call[u] = "usage" /\ started'[u] = started[u]
    BY <1>4, <1>5 DEF UsageInHand
  <2>2. read'[u] = Answer(read[u].version, read[u].age, TRUE)
    BY <2>1 DEF InvalidateUsage
  <2>3. read'[u].age = read[u].age /\ read'[u].raced
    BY <2>2 DEF Answer
  <2>4. QED
    BY <2>1, <2>3 DEF TruthInv, UsageInHand, Truthful
<1>6. ASSUME NEW u \in Tasks, at'[u] = "answered", call'[u] = "change"
      PROVE  read'[u].version <= version'
  <2>1. u # t /\ at[u] = "answered" /\ call[u] = "change"
    BY <1>4, <1>6
  <2>2. read'[u] = read[u]
    BY <2>1 DEF InvalidateUsage
  <2>3. QED
    BY <1>1, <2>1, <2>2 DEF TruthInv
<1>7. QED
  BY <1>2, <1>3, <1>5, <1>6 DEF TruthInv

LEMMA OlderKeepsOrder ==
  ASSUME NEW a \in Ages, NEW b \in Ages, a <= b
  PROVE  Older(a) <= Older(b)
BY ConstantsAssumption DEF Ages, Older

\* Answer and timestamp grow old together.
LEMMA TickKeeps ==
  ASSUME TypeInv, TypeInv', TruthInv, Tick
  PROVE  TruthInv'
<1>1. UNCHANGED <<promised, version, at, call>>
  BY DEF Tick, account
<1>2. ASSUME NEW answer \in Told, NEW stamp \in Ages, Truthful(answer, stamp)
      PROVE  /\ Aged(answer).age <= Older(stamp)
             /\ Aged(answer).version < promised => Aged(answer).raced
             /\ Aged(answer).version = answer.version
  <2>1. answer.age \in Ages /\ answer.age <= stamp
    BY <1>2 DEF Told, Truthful
  <2>2. Aged(answer).age = Older(answer.age) /\ Aged(answer).version = answer.version
        /\ Aged(answer).raced = answer.raced
    BY DEF Aged, Answer
  <2>3. Older(answer.age) <= Older(stamp)
    BY <2>1, OlderKeepsOrder
  <2>4. QED
    BY <1>2, <2>2, <2>3 DEF Truthful
<1>3. ASSUME cache'.full PROVE Truthful(cache.answer, cache.stamp)'
  <2>1. cache.full
    BY <1>3 DEF Tick
  <2>2. cache'.answer = Aged(cache.answer) /\ cache'.stamp = Older(cache.stamp)
    BY <2>1 DEF Tick
  <2>3. cache.answer \in Told /\ cache.stamp \in Ages /\ Truthful(cache.answer, cache.stamp)
    BY <2>1 DEF TypeInv, TruthInv
  <2>4. QED
    BY <1>1, <1>2, <2>2, <2>3 DEF Truthful
<1>4. ASSUME NEW u \in Tasks, UsageInHand(u)' PROVE Truthful(read[u], started[u])'
  <2>1. UsageInHand(u) /\ at[u] # "idle"
    BY <1>1, <1>4 DEF UsageInHand
  <2>2. read'[u] = Aged(read[u]) /\ started'[u] = Older(started[u])
    BY <2>1 DEF Tick, UsageInHand
  <2>3. read[u] \in Told /\ started[u] \in Ages /\ Truthful(read[u], started[u])
    BY <2>1 DEF TypeInv, TruthInv
  <2>4. QED
    BY <1>1, <1>2, <2>2, <2>3 DEF Truthful
<1>5. ASSUME NEW u \in Tasks, at'[u] = "answered", call'[u] = "change"
      PROVE  read'[u].version <= version'
  <2>1. at[u] = "answered" /\ call[u] = "change"
    BY <1>1, <1>5
  <2>2. read'[u] = read[u]
    BY <2>1 DEF Tick
  <2>3. QED
    BY <1>1, <2>1, <2>2 DEF TruthInv
<1>6. QED
  BY <1>1, <1>3, <1>4, <1>5 DEF TruthInv

LEMMA TruthNext == TypeInv /\ TypeInv' /\ TruthInv /\ [Next]_vars => TruthInv'
<1> SUFFICES ASSUME TypeInv, TypeInv', TruthInv, [Next]_vars PROVE TruthInv'
  OBVIOUS
<1>0. version \in Nat /\ version <= version
  BY DEF TypeInv
<1>1. CASE UNCHANGED vars
  BY <1>1 DEF vars, account, TruthInv, UsageInHand, Truthful
<1>2. ASSUME NEW t \in Tasks, GetUsage(t) \/ Change(t) \/ ServersOnline(t) PROVE TruthInv'
  <2>1. UNCHANGED <<cache, promised, version, started, read>>
    BY <1>2 DEF GetUsage, Change, ServersOnline, account
  <2>2. \E place \in Places \ {"answered"} : GoTo(t, place)
    BY <1>2 DEF GetUsage, Change, ServersOnline, Places
  <2>3. \A u \in Tasks \ {t} : call'[u] = call[u]
    BY <1>2 DEF GetUsage, Change, ServersOnline, TypeInv
  <2>4. QED
    BY <1>0, <2>1, <2>2, <2>3, MoveKeeps
<1>3. ASSUME NEW t \in Tasks, CountNodes(t) \/ Refused(t) PROVE TruthInv'
  <2>1. UNCHANGED <<cache, promised, version>>
    BY <1>3 DEF CountNodes, Refused, account
  <2>2. \/ Return(t)
        \/ \E place \in Places \ {"answered"} :
              GoTo(t, place) /\ UNCHANGED <<started, read, call>>
    BY <1>3 DEF CountNodes, Refused, Places
  <2>3. QED
    BY <1>0, <2>1, <2>2, MoveKeeps
<1>4. ASSUME NEW t \in Tasks,
             AuthHeader(t) \/ AuthUnderLock(t) \/ DropToken(t) \/ Authenticate(t)
      PROVE  TruthInv'
  <2>1. UNCHANGED <<cache, promised, version, started, read, call>>
    BY <1>4 DEF AuthHeader, AuthUnderLock, DropToken, Authenticate, account
  <2>2. \E place \in Places \ {"answered"} : GoTo(t, place)
    BY <1>4 DEF AuthHeader, AuthUnderLock, DropToken, Authenticate, Send, Places
  <2>3. QED
    BY <1>0, <2>1, <2>2, MoveKeeps
<1>5. ASSUME NEW t \in Tasks, AuthenticationFails(t) \/ CacheServers(t) PROVE TruthInv'
  BY <1>0, <1>5, MoveKeeps DEF AuthenticationFails, CacheServers, account
<1>6. ASSUME NEW t \in Tasks, RequestFails(t) PROVE TruthInv'
  <2>1. version <= version' /\ UNCHANGED <<cache, promised>> /\ Return(t)
    BY <1>0, <1>6 DEF RequestFails
  <2>2. QED
    BY <2>1, MoveKeeps
<1>7. CASE TokenExpires \/ CountExpires \/ PanelForgets
  <2>1. UNCHANGED <<cache, promised, version, at, call, started, read>>
    BY <1>7 DEF TokenExpires, CountExpires, PanelForgets, account
  <2>2. QED
    BY <2>1 DEF TruthInv, UsageInHand, Truthful
<1>8. QED
  BY <1>1, <1>2, <1>3, <1>4, <1>5, <1>6, <1>7, AnsweredKeeps, CacheKeeps, InvalidateKeeps,
     TickKeeps DEF Next, Proceed

\* However many calls fill the cache and in whatever order they end: what is
\* served is younger than max_age and knows of every change whose success a
\* caller heard of, unless the change overtook the call that filled the cache.
THEOREM ServedUsage == Spec => []ServedUsageIsTrue
<1>1. Init => TruthInv
  BY DEF Init, TruthInv, Empty, UsageInHand
<1>2. TypeInv /\ TruthInv => ServedUsageIsTrue
  <2> SUFFICES ASSUME TypeInv, TruthInv, CanServe
               PROVE  cache.answer.age < MaxAge
                      /\ (cache.answer.version < promised => cache.answer.raced)
    BY DEF ServedUsageIsTrue
  <2>1. cache.answer.age <= cache.stamp /\ cache.stamp < MaxAge
        /\ (cache.answer.version < promised => cache.answer.raced)
    BY DEF TruthInv, CanServe, Truthful
  <2>2. cache.answer.age \in Nat /\ cache.stamp \in Nat
    BY ConstantsAssumption DEF TypeInv, Told, Ages
  <2>3. QED
    BY <2>1, <2>2, ConstantsAssumption
<1>3. QED
  BY <1>1, <1>2, TypeInit, TypeNext, TruthNext, PTL DEF Spec

-----------------------------------------------------------------------------
(* The locks: who stands in line, and that the holder is at the head        *)

\* A line nobody stands in twice.
Lined(queue, members) ==
    /\ queue \in Seq(Tasks)
    /\ \A i, k \in 1..Len(queue): queue[i] = queue[k] => i = k
    /\ Range(queue) = members

Queued   == {"lock", "auth", "lock401", "auth401"}
Waiting  == {t \in Tasks: at[t] \in Queued}
Counting == {t \in Tasks: call[t] = "servers"}

AuthLine ==
    /\ Lined(auth, Waiting)
    /\ \A t \in Tasks: at[t] \in {"auth", "auth401"} => Head(auth) = t

NodesLine ==
    /\ Lined(nodes, Counting)
    /\ \A t \in Counting: at[t] # "idle" /\ (at[t] # "nodes" => Head(nodes) = t)

\* As many places as members.
LEMMA LineLength ==
  ASSUME NEW queue, NEW members, Lined(queue, members)
  PROVE  Line(queue, members)
<1>1. queue \in [1..Len(queue) -> members] /\ Len(queue) \in Nat
  BY DEF Lined, Range
<1>2. \A m \in members: \E i \in 1..Len(queue): queue[i] = m
  BY DEF Lined, Range
<1>3. queue \in Bijection(1..Len(queue), members)
  BY <1>1, <1>2 DEF Lined, Bijection, Injection, Surjection, IsInjective
<1>4. Cardinality(members) = Len(queue)
  BY <1>1, <1>3, FS_CountingElements DEF ExistsBijection
<1>5. QED
  BY <1>4 DEF Line, Lined

\* A task that comes stands behind the others.
LEMMA Joins ==
  ASSUME NEW queue, NEW members, Lined(queue, members), NEW t \in Tasks, t \notin members
  PROVE  /\ Lined(Append(queue, t), members \cup {t})
         /\ members # {} => Head(Append(queue, t)) = Head(queue)
<1> DEFINE longer == Append(queue, t)
<1>1. /\ longer \in Seq(Tasks) /\ Len(queue) \in Nat /\ Len(longer) = Len(queue) + 1
      /\ longer[Len(queue) + 1] = t
      /\ \A i \in 1..Len(queue): longer[i] = queue[i] /\ queue[i] \in members
  BY DEF Lined, Range
<1>2. \A m \in members: \E i \in 1..Len(queue): queue[i] = m
  BY DEF Lined, Range
<1> HIDE DEF longer
<1>3. ASSUME NEW i \in 1..Len(longer), NEW k \in 1..Len(longer), longer[i] = longer[k]
      PROVE  i = k
  BY <1>1, <1>3 DEF Lined
<1>4. DOMAIN longer = 1..Len(longer)
  BY <1>1
<1>5. Range(longer) = members \cup {t}
  <2>1. \A x \in Range(longer): x \in members \cup {t}
    BY <1>1, <1>4 DEF Range
  <2>2. ASSUME NEW x \in members \cup {t} PROVE x \in Range(longer)
    <3>1. \E i \in 1..Len(longer): longer[i] = x
      BY <1>1, <1>2
    <3>2. QED
      BY <1>4, <3>1 DEF Range
  <2>3. QED
    BY <2>1, <2>2
<1>6. members # {} => Head(longer) = Head(queue)
  <2>1. members # {} => 1 \in 1..Len(queue)
    BY <1>1, <1>2
  <2>2. QED
    BY <1>1, <2>1 DEF Lined
<1>7. QED
  BY <1>1, <1>3, <1>5, <1>6 DEF Lined, longer

\* The head of the line goes.
LEMMA GoesAway ==
  ASSUME NEW queue, NEW members, Lined(queue, members), NEW t \in members, Head(queue) = t
  PROVE  Lined(Tail(queue), members \ {t})
<1> DEFINE shorter == Tail(queue)
<1>1. Len(queue) \in Nat /\ \A m \in members: \E i \in 1..Len(queue): queue[i] = m
  BY DEF Lined, Range
<1>2. queue # <<>> /\ queue[1] = t
  BY <1>1 DEF Lined
<1>3. /\ shorter \in Seq(Tasks) /\ Len(shorter) = Len(queue) - 1
      /\ \A i \in 1..Len(shorter): shorter[i] = queue[i + 1]
  BY <1>2 DEF Lined
<1> HIDE DEF shorter
<1>4. ASSUME NEW i \in 1..Len(shorter), NEW k \in 1..Len(shorter), shorter[i] = shorter[k]
      PROVE  i = k
  <2>1. queue[i + 1] = queue[k + 1] /\ i + 1 \in 1..Len(queue) /\ k + 1 \in 1..Len(queue)
    BY <1>1, <1>3, <1>4
  <2>2. i + 1 = k + 1
    BY <2>1 DEF Lined
  <2>3. QED
    BY <1>1, <1>3, <2>2
<1>5. DOMAIN shorter = 1..Len(shorter)
  BY <1>3
<1>6. Range(shorter) = members \ {t}
  <2>1. ASSUME NEW x \in Range(shorter) PROVE x \in members \ {t}
    <3>1. PICK i \in 1..Len(shorter): shorter[i] = x
      BY <1>5, <2>1 DEF Range
    <3>2. queue[i + 1] = x /\ i + 1 \in 1..Len(queue) /\ 1 \in 1..Len(queue) /\ i + 1 # 1
      BY <1>1, <1>3, <3>1
    <3>3. x # queue[1]
      BY <3>2 DEF Lined
    <3>4. x \in members
      BY <3>2 DEF Lined, Range
    <3>5. QED
      BY <1>2, <3>3, <3>4
  <2>2. ASSUME NEW x \in members \ {t} PROVE x \in Range(shorter)
    <3>1. PICK i \in 1..Len(queue): queue[i] = x
      BY <1>1, <2>2
    <3>2. i # 1
      BY <1>2, <2>2, <3>1
    <3>3. i - 1 \in 1..Len(shorter) /\ (i - 1) + 1 = i
      BY <1>1, <1>3, <3>2
    <3>4. shorter[i - 1] = x
      BY <1>3, <3>1, <3>3
    <3>5. QED
      BY <1>5, <3>3, <3>4 DEF Range
  <2>3. QED
    BY <2>1, <2>2
<1>7. QED
  BY <1>3, <1>4, <1>6 DEF Lined, shorter

\* Nobody comes to the lock or leaves it, and who goes on under it is its head.
LEMMA AuthStays ==
  ASSUME AuthLine, auth' = auth,
         \A u \in Tasks: \/ at'[u] = at[u]
                         \/ at[u] \notin Queued /\ at'[u] \notin Queued
                         \/ at[u] \in Queued /\ at'[u] \in Queued /\ Head(auth) = u
  PROVE  AuthLine'
<1>1. Waiting' = Waiting
  BY DEF Waiting
<1>2. Lined(auth, Waiting)'
  BY <1>1 DEF AuthLine, Lined
<1>3. ASSUME NEW t \in Tasks, at'[t] \in {"auth", "auth401"} PROVE Head(auth') = t
  BY <1>3 DEF AuthLine, Queued
<1>4. QED
  BY <1>2, <1>3 DEF AuthLine

LEMMA AuthJoins ==
  ASSUME TypeInv, AuthLine, NEW t \in Tasks, at[t] \notin Queued,
         NEW place \in {"lock", "lock401"}, GoTo(t, place), auth' = Append(auth, t)
  PROVE  AuthLine'
<1>1. Waiting' = Waiting \cup {t} /\ t \notin Waiting
  BY DEF Waiting, GoTo, TypeInv, Queued
<1>2. Lined(auth, Waiting)' /\ (Waiting # {} => Head(auth') = Head(auth))
  BY <1>1, Joins DEF AuthLine, Lined
<1>3. ASSUME NEW u \in Tasks, at'[u] \in {"auth", "auth401"} PROVE Head(auth') = u
  <2>1. at[u] = at'[u] /\ u \in Waiting
    BY <1>3 DEF GoTo, TypeInv, Waiting, Queued
  <2>2. QED
    BY <1>2, <1>3, <2>1 DEF AuthLine
<1>4. QED
  BY <1>2, <1>3 DEF AuthLine

LEMMA AuthLeaves ==
  ASSUME TypeInv, AuthLine, NEW t \in Tasks, at[t] \in Queued, Head(auth) = t,
         NEW place \in Places \ Queued, GoTo(t, place), auth' = Tail(auth)
  PROVE  AuthLine'
<1>1. Waiting' = Waiting \ {t} /\ t \in Waiting
  BY DEF Waiting, GoTo, TypeInv
<1>2. Lined(auth, Waiting)'
  BY <1>1, GoesAway DEF AuthLine, Lined
<1>3. ASSUME NEW u \in Tasks, at'[u] \in {"auth", "auth401"} PROVE FALSE
  <2>1. u # t /\ at[u] = at'[u]
    BY <1>3 DEF GoTo, TypeInv, Queued
  <2>2. QED
    BY <1>3, <2>1 DEF AuthLine
<1>4. QED
  BY <1>2, <1>3 DEF AuthLine

LEMMA NodesStay ==
  ASSUME NodesLine, nodes' = nodes,
         \A u \in Tasks: /\ call'[u] = "servers" <=> call[u] = "servers"
                         /\ \/ at'[u] = at[u] \/ call'[u] # "servers"
                            \/ at'[u] # "idle" /\ (at[u] # "nodes" \/ Head(nodes) = u)
  PROVE  NodesLine'
<1>1. Counting' = Counting
  BY DEF Counting
<1>2. Lined(nodes, Counting)'
  BY <1>1 DEF NodesLine, Lined
<1>3. ASSUME NEW t \in Counting'
      PROVE  at'[t] # "idle" /\ (at'[t] # "nodes" => Head(nodes') = t)
  BY <1>1, <1>3 DEF NodesLine, Counting
<1>4. QED
  BY <1>2, <1>3 DEF NodesLine

\* The end of a call, whichever it is.
LEMMA NodesLeave ==
  ASSUME TypeInv, NodesLine, NEW t \in Tasks, Leave(t), at[t] # "nodes" \/ Head(nodes) = t
  PROVE  NodesLine'
<1>0. \A u \in Tasks \ {t}: at'[u] = at[u] /\ call'[u] = call[u]
  BY DEF Leave, GoTo, TypeInv
<1>1. CASE call[t] = "servers"
  <2>1. Counting' = Counting \ {t} /\ t \in Counting /\ Head(nodes) = t /\ nodes' = Tail(nodes)
    BY <1>1 DEF Leave, LeaveNodes, Counting, TypeInv, NodesLine
  <2>2. Lined(nodes, Counting)'
    BY <2>1, GoesAway DEF NodesLine, Lined
  <2>3. ASSUME NEW u \in Counting' PROVE at'[u] # "idle" /\ at'[u] = "nodes"
    <3>1. u \in Counting /\ u # t /\ at'[u] = at[u]
      BY <1>0, <2>1, <2>3 DEF Counting
    <3>2. QED
      BY <2>1, <3>1 DEF NodesLine
  <2>4. QED
    BY <2>2, <2>3 DEF NodesLine
<1>2. CASE call[t] # "servers"
  <2>1. nodes' = nodes /\ call'[t] = "usage"
    BY <1>2 DEF Leave, servers, TypeInv
  <2>2. QED
    BY <1>0, <1>2, <2>1, NodesStay
<1>3. QED
  BY <1>1, <1>2

LEMMA LinesNext == TypeInv /\ AuthLine /\ NodesLine /\ [Next]_vars => AuthLine' /\ NodesLine'
<1> SUFFICES ASSUME TypeInv, AuthLine, NodesLine, [Next]_vars PROVE AuthLine' /\ NodesLine'
  OBVIOUS
<1>1. ASSUME UNCHANGED <<auth, nodes, at, call>> PROVE AuthLine' /\ NodesLine'
  BY <1>1, AuthStays, NodesStay
<1>2. CASE UNCHANGED vars
  BY <1>1, <1>2 DEF vars, session, servers
<1>3. CASE Tick \/ TokenExpires \/ CountExpires \/ PanelForgets
  BY <1>1, <1>3 DEF Tick, TokenExpires, CountExpires, PanelForgets, session, servers
<1>4. ASSUME NEW t \in Tasks, GetUsage(t) \/ Change(t) PROVE AuthLine' /\ NodesLine'
  <2>1. /\ auth' = auth /\ nodes' = nodes /\ at[t] = "idle" /\ at'[t] = "header"
        /\ call'[t] = call[t] \/ call'[t] = "change"
        /\ \A u \in Tasks \ {t}: at'[u] = at[u] /\ call'[u] = call[u]
    BY <1>4 DEF GetUsage, Change, GoTo, TypeInv, session, servers
  <2>2. AuthLine'
    BY <2>1, AuthStays DEF Queued
  <2>3. call[t] # "servers"
    BY <2>1 DEF NodesLine, Counting
  <2>4. QED
    BY <2>1, <2>2, <2>3, NodesStay
<1>5. ASSUME NEW t \in Tasks, ServersOnline(t) PROVE AuthLine' /\ NodesLine'
  <2>1. /\ auth' = auth /\ nodes' = Append(nodes, t) /\ at[t] = "idle" /\ at'[t] = "nodes"
        /\ call'[t] = "servers"
        /\ \A u \in Tasks \ {t}: at'[u] = at[u] /\ call'[u] = call[u]
    BY <1>5 DEF ServersOnline, GoTo, TypeInv, session
  <2>2. AuthLine'
    BY <2>1, AuthStays DEF Queued
  <2>3. t \notin Counting /\ Counting' = Counting \cup {t}
    BY <2>1 DEF NodesLine, Counting
  <2>4. Lined(nodes, Counting)' /\ (Counting # {} => Head(nodes') = Head(nodes))
    BY <2>1, <2>3, Joins DEF NodesLine, Lined
  <2>5. ASSUME NEW u \in Counting'
        PROVE  at'[u] # "idle" /\ (at'[u] # "nodes" => Head(nodes') = u)
    <3>1. u # t => u \in Counting /\ at'[u] = at[u]
      BY <2>1, <2>3, <2>5 DEF Counting
    <3>2. QED
      BY <2>1, <2>4, <2>5, <3>1 DEF NodesLine
  <2>6. QED
    BY <2>2, <2>4, <2>5 DEF NodesLine
<1>6. ASSUME NEW t \in Tasks, Leave(t), UNCHANGED auth, at[t] \notin Queued,
             at[t] # "nodes" \/ Head(nodes) = t
      PROVE  AuthLine' /\ NodesLine'
  <2>1. at'[t] = "idle" /\ \A u \in Tasks \ {t}: at'[u] = at[u]
    BY <1>6 DEF Leave, GoTo, TypeInv
  <2>2. AuthLine'
    BY <1>6, <2>1, AuthStays DEF Queued
  <2>3. QED
    BY <1>6, <2>2, NodesLeave
<1>7. ASSUME NEW t \in Tasks, NEW place \in Places \ {"idle"}, GoTo(t, place),
             UNCHANGED <<nodes, call>>, at[t] # "nodes" \/ Head(nodes) = t
      PROVE  NodesLine'
  <2>1. at'[t] # "idle" /\ \A u \in Tasks \ {t}: at'[u] = at[u]
    BY <1>7 DEF GoTo, TypeInv
  <2>2. QED
    BY <1>7, <2>1, NodesStay
<1>8. ASSUME NEW t \in Tasks, CountNodes(t) PROVE AuthLine' /\ NodesLine'
  <2>1. at[t] = "nodes" /\ Head(nodes) = t /\ UNCHANGED auth /\ at[t] \notin Queued
    BY <1>8 DEF CountNodes, session, Queued
  <2>2. CASE t \in timely
    BY <1>6, <1>8, <2>1, <2>2 DEF CountNodes, Return
  <2>3. CASE t \notin timely
    <3>1. GoTo(t, "header") /\ UNCHANGED <<nodes, call>>
      BY <1>8, <2>3 DEF CountNodes, servers
    <3>2. at'[t] \notin Queued /\ \A u \in Tasks \ {t}: at'[u] = at[u]
      BY <3>1 DEF GoTo, TypeInv, Queued
    <3>3. AuthLine'
      BY <2>1, <3>2, AuthStays
    <3>4. QED
      BY <1>7, <2>1, <3>1, <3>3 DEF Places
  <2>4. QED
    BY <2>2, <2>3
<1>9. ASSUME NEW t \in Tasks, AuthHeader(t) PROVE AuthLine' /\ NodesLine'
  <2>1. at[t] = "header" /\ UNCHANGED <<nodes, call>> /\ at[t] \notin Queued
    BY <1>9 DEF AuthHeader, servers, Queued
  <2>2. CASE NeedsToken
    <3>1. auth' = Append(auth, t) /\ GoTo(t, "lock")
      BY <1>9, <2>2 DEF AuthHeader
    <3>2. QED
      BY <1>7, <2>1, <3>1, AuthJoins DEF Places
  <2>3. CASE ~NeedsToken
    <3>1. GoTo(t, "sent") /\ auth' = auth
      BY <1>9, <2>3 DEF AuthHeader, Send
    <3>2. at'[t] \notin Queued /\ \A u \in Tasks \ {t}: at'[u] = at[u]
      BY <3>1 DEF GoTo, TypeInv, Queued
    <3>3. AuthLine'
      BY <2>1, <3>1, <3>2, AuthStays
    <3>4. QED
      BY <1>7, <2>1, <3>1, <3>3 DEF Places
  <2>4. QED
    BY <2>2, <2>3
<1>10. ASSUME NEW t \in Tasks, AuthUnderLock(t) \/ DropToken(t) PROVE AuthLine' /\ NodesLine'
  <2>1. /\ at[t] \in {"lock", "lock401"} /\ Head(auth) = t /\ UNCHANGED <<nodes, call>>
        /\ \/ auth' = auth /\ (GoTo(t, "auth") \/ GoTo(t, "auth401"))
           \/ auth' = Tail(auth) /\ GoTo(t, "sent")
    BY <1>10 DEF AuthUnderLock, DropToken, Send, servers
  <2>2. NodesLine'
    BY <1>7, <2>1 DEF Places
  <2>3. CASE auth' = Tail(auth) /\ GoTo(t, "sent")
    BY <2>1, <2>2, <2>3, AuthLeaves DEF Places, Queued
  <2>4. CASE auth' = auth /\ (GoTo(t, "auth") \/ GoTo(t, "auth401"))
    <3>1. at'[t] \in Queued /\ \A u \in Tasks \ {t}: at'[u] = at[u]
      BY <2>4 DEF GoTo, TypeInv, Queued
    <3>2. at[t] \in Queued
      BY <2>1 DEF Queued
    <3>3. AuthLine'
      BY <2>1, <2>4, <3>1, <3>2, AuthStays
    <3>4. QED
      BY <2>2, <3>3
  <2>5. QED
    BY <2>1, <2>3, <2>4
<1>11. ASSUME NEW t \in Tasks, Authenticate(t) PROVE AuthLine' /\ NodesLine'
  <2>1. /\ at[t] \in Queued /\ Head(auth) = t /\ at[t] # "nodes" /\ UNCHANGED <<nodes, call>>
        /\ auth' = Tail(auth)
    BY <1>11 DEF Authenticate, AuthLine, servers, Queued
  <2>2. PICK place \in {"sent", "resent"}: GoTo(t, place)
    BY <1>11 DEF Authenticate, Send
  <2>3. place \in Places \ Queued /\ place \in Places \ {"idle"}
    BY DEF Places, Queued
  <2>4. QED
    BY <1>7, <2>1, <2>2, <2>3, AuthLeaves
<1>12. ASSUME NEW t \in Tasks, AuthenticationFails(t) PROVE AuthLine' /\ NodesLine'
  <2>1. /\ at[t] \in Queued /\ Head(auth) = t /\ at[t] # "nodes"
        /\ auth' = Tail(auth) /\ Leave(t)
    BY <1>12 DEF AuthenticationFails, AfterRaise, Return, AuthLine, Queued
  <2>2. GoTo(t, "idle") /\ "idle" \in Places \ Queued
    BY <2>1 DEF Leave, Places, Queued
  <2>3. QED
    BY <2>1, <2>2, AuthLeaves, NodesLeave
<1>13. ASSUME NEW t \in Tasks, Answered(t) PROVE AuthLine' /\ NodesLine'
  <2>1. /\ at[t] \in {"sent", "resent"} /\ UNCHANGED <<auth, nodes, call>>
        /\ GoTo(t, "answered")
    BY <1>13 DEF Answered, session, servers
  <2>2. at'[t] \notin Queued /\ at[t] \notin Queued /\ \A u \in Tasks \ {t}: at'[u] = at[u]
    BY <2>1 DEF GoTo, TypeInv, Queued
  <2>3. AuthLine'
    BY <2>1, <2>2, AuthStays
  <2>4. QED
    BY <1>7, <2>1, <2>3 DEF Places
<1>14. ASSUME NEW t \in Tasks, Refused(t) PROVE AuthLine' /\ NodesLine'
  <2>1. CASE at[t] = "sent" /\ auth' = Append(auth, t) /\ GoTo(t, "lock401")
             /\ UNCHANGED <<servers, call>>
    BY <1>7, <2>1, AuthJoins DEF Places, Queued, servers
  <2>2. CASE at[t] = "resent" /\ Return(t) /\ UNCHANGED auth
    BY <1>6, <2>2 DEF Return, Queued
  <2>3. QED
    BY <1>14, <2>1, <2>2 DEF Refused
<1>15. ASSUME NEW t \in Tasks,
              RequestFails(t) \/ CacheUsage(t) \/ CacheServers(t) \/ InvalidateUsage(t)
       PROVE  AuthLine' /\ NodesLine'
  <2>1. Leave(t) /\ UNCHANGED auth /\ at[t] \in {"sent", "resent", "answered"}
    BY <1>15 DEF RequestFails, CacheUsage, CacheServers, InvalidateUsage, Return, session
  <2>2. QED
    BY <1>6, <2>1 DEF Queued
<1>16. QED
  BY <1>2, <1>3, <1>4, <1>5, <1>8, <1>9, <1>10, <1>11, <1>12, <1>13, <1>14, <1>15
     DEF Next, Proceed

-----------------------------------------------------------------------------
(* The versions: every change under way is still to come at the panel       *)

Pending == {t \in Tasks: call[t] = "change" /\ at[t] # "answered"}

VersionInv ==
    /\ IsFiniteSet(Pending) /\ changes \in 0..MaxChanges
    /\ version + Cardinality(Pending) <= changes
    /\ promised <= version /\ cache.answer.version <= version
    /\ \A t \in Tasks: read[t].version <= version

RestType ==
    /\ fresh \in BOOLEAN /\ counted \in BOOLEAN /\ refusals \in 0..MaxRefusals
    /\ timely \subseteq Tasks

\* A change leaves the calls under way, with or without having been made.
LEMMA FewerPending ==
  ASSUME TypeInv, VersionInv, changes' = changes, Pending' \subseteq Pending,
         \/ version' = version
         \/ version' = version + 1 /\ \E t \in Pending: t \notin Pending'
  PROVE  /\ IsFiniteSet(Pending') /\ changes' \in 0..MaxChanges
         /\ version' + Cardinality(Pending') <= changes'
         /\ version <= version'
<1>1. /\ IsFiniteSet(Pending') /\ Cardinality(Pending') <= Cardinality(Pending)
      /\ Cardinality(Pending') = Cardinality(Pending) => Pending' = Pending
  BY FS_Subset DEF VersionInv
<1>2. Cardinality(Pending) \in Nat /\ Cardinality(Pending') \in Nat
  BY <1>1, FS_CardinalityType DEF VersionInv
<1>3. version \in Nat /\ changes \in Nat /\ version + Cardinality(Pending) <= changes
  BY ConstantsAssumption DEF TypeInv, VersionInv
<1>4. CASE version' = version
  BY <1>1, <1>2, <1>3, <1>4 DEF VersionInv
<1>5. CASE version' = version + 1 /\ \E t \in Pending: t \notin Pending'
  <2>1. Cardinality(Pending') # Cardinality(Pending)
    BY <1>1, <1>5
  <2>2. QED
    BY <1>1, <1>2, <1>3, <1>5, <2>1 DEF VersionInv
<1>6. QED
  BY <1>4, <1>5

\* Nobody has heard of a version the account does not have.
LEMMA NothingNew ==
  ASSUME TypeInv, VersionInv, version <= version', version' \in Nat, promised' = promised,
         cache'.answer.version \in {cache.answer.version, 0},
         \A u \in Tasks: read'[u].version \in {read[u].version, 0, version'}
  PROVE  /\ promised' <= version' /\ cache'.answer.version <= version'
         /\ \A t \in Tasks: read'[t].version <= version'
<1>1. version \in Nat /\ promised \in Nat /\ cache.answer.version \in Nat
      /\ \A t \in Tasks: read[t].version \in Nat
  BY DEF TypeInv, Told
<1>2. promised' <= version' /\ cache'.answer.version <= version'
  BY <1>1 DEF VersionInv
<1>3. ASSUME NEW t \in Tasks PROVE read'[t].version <= version'
  <2>1. read[t].version <= version /\ read[t].version \in Nat
    BY <1>1 DEF VersionInv
  <2>2. QED
    BY <1>1, <2>1
<1>4. QED
  BY <1>2, <1>3

LEMMA VersionNext == TypeInv /\ VersionInv /\ TypeInv' /\ [Next]_vars => VersionInv'
<1> SUFFICES ASSUME TypeInv, VersionInv, TypeInv', [Next]_vars PROVE VersionInv'
  OBVIOUS
<1>0. version \in Nat /\ version' \in Nat /\ Nothing.version = 0
  BY DEF TypeInv, Nothing, Answer
<1>1. ASSUME changes' = changes, version' = version, promised' = promised, cache' = cache,
             Pending' \subseteq Pending,
             \A u \in Tasks: read'[u] = read[u] \/ read'[u] = Nothing
      PROVE  VersionInv'
  <2>1. \A u \in Tasks: read'[u].version \in {read[u].version, 0, version'}
    BY <1>0, <1>1
  <2>2. version <= version'
    BY <1>0, <1>1
  <2>3. QED
    BY <1>0, <1>1, <2>1, <2>2, FewerPending, NothingNew DEF VersionInv
<1>2. CASE UNCHANGED vars
  BY <1>1, <1>2 DEF vars, account, Pending
<1>3. CASE TokenExpires \/ CountExpires \/ PanelForgets
  BY <1>1, <1>3 DEF TokenExpires, CountExpires, PanelForgets, account, Pending
<1>4. CASE Tick
  <2>1. \A answer : Aged(answer).version = answer.version
    BY DEF Aged, Answer
  <2>2. \A u \in Tasks: read'[u].version = read[u].version
    BY <1>4, <2>1 DEF Tick
  <2>3. cache'.answer.version = cache.answer.version
    BY <1>4, <2>1 DEF Tick
  <2>4. Pending' = Pending /\ UNCHANGED <<version, promised, changes>> /\ version <= version'
    BY <1>0, <1>4 DEF Tick, account, Pending
  <2>5. \A u \in Tasks: read'[u].version \in {read[u].version, 0, version'}
    BY <2>2
  <2>6. QED
    BY <1>0, <2>3, <2>4, <2>5, FewerPending, NothingNew DEF VersionInv
<1>5. ASSUME NEW t \in Tasks, GetUsage(t) \/ ServersOnline(t) PROVE VersionInv'
  <2>1. /\ UNCHANGED <<version, promised, changes, cache, read>> /\ at'[t] # "answered"
        /\ call'[t] = call[t] \/ call'[t] = "servers"
        /\ at[t] # "answered"
        /\ \A u \in Tasks \ {t}: at'[u] = at[u] /\ call'[u] = call[u]
    BY <1>5 DEF GetUsage, ServersOnline, GoTo, TypeInv, account
  <2>2. Pending' \subseteq Pending
    BY <2>1 DEF Pending
  <2>3. QED
    BY <1>1, <2>1, <2>2
<1>6. ASSUME NEW t \in Tasks, Change(t) PROVE VersionInv'
  <2>1. /\ UNCHANGED <<version, promised, cache, read>>
        /\ changes < MaxChanges /\ changes' = changes + 1
        /\ call'[t] = "change" /\ at'[t] = "header"
        /\ \A u \in Tasks \ {t}: at'[u] = at[u] /\ call'[u] = call[u]
    BY <1>6 DEF Change, GoTo, TypeInv
  <2>2. Pending' = Pending \cup {t}
    BY <2>1 DEF Pending
  <2>3. /\ IsFiniteSet(Pending')
        /\ \/ Cardinality(Pending') = Cardinality(Pending)
           \/ Cardinality(Pending') = Cardinality(Pending) + 1
    BY <2>2, FS_AddElement DEF VersionInv
  <2>4. Cardinality(Pending) \in Nat /\ changes \in Nat /\ MaxChanges \in Nat
    BY FS_CardinalityType, ConstantsAssumption DEF VersionInv
  <2>5. changes' \in 0..MaxChanges /\ version' + Cardinality(Pending') <= changes'
    BY <1>0, <2>1, <2>3, <2>4 DEF VersionInv
  <2>6. QED
    BY <2>1, <2>3, <2>5 DEF VersionInv
<1>7. ASSUME NEW t \in Tasks, NEW place \in Places \ {"answered"}, GoTo(t, place),
             at[t] # "answered",
             UNCHANGED <<version, promised, changes, cache, read, call>>
      PROVE  VersionInv'
  <2>1. Pending' \subseteq Pending
    BY <1>7 DEF Pending, GoTo, TypeInv
  <2>2. QED
    BY <1>1, <1>7, <2>1
<1>8. ASSUME NEW t \in Tasks, Return(t) PROVE
         /\ Pending' = Pending \ {t}
         /\ \A u \in Tasks: read'[u] = read[u] \/ read'[u] = Nothing
  BY <1>8 DEF Return, Leave, GoTo, TypeInv, Pending
<1>9. ASSUME NEW t \in Tasks, CountNodes(t) \/ Refused(t) PROVE VersionInv'
  <2>1. UNCHANGED <<version, promised, changes, cache>>
    BY <1>9 DEF CountNodes, Refused, account
  <2>2. CASE Return(t)
    BY <1>1, <1>8, <2>1, <2>2
  <2>3. CASE ~Return(t)
    <3>1. at[t] # "answered" /\ UNCHANGED <<read, call>>
          /\ (GoTo(t, "header") \/ GoTo(t, "lock401"))
      BY <1>9, <2>3 DEF CountNodes, Refused
    <3>2. QED
      BY <1>7, <2>1, <3>1 DEF Places
  <2>4. QED
    BY <2>2, <2>3
<1>10. ASSUME NEW t \in Tasks,
              AuthHeader(t) \/ AuthUnderLock(t) \/ DropToken(t) \/ Authenticate(t)
       PROVE  VersionInv'
  <2>1. /\ UNCHANGED <<version, promised, changes, cache, read, call>> /\ at[t] # "answered"
        /\ \E place \in Places \ {"answered"}: GoTo(t, place)
    BY <1>10 DEF AuthHeader, AuthUnderLock, DropToken, Authenticate, Send, account, Places
  <2>2. QED
    BY <1>7, <2>1
<1>11. ASSUME NEW t \in Tasks, AuthenticationFails(t) \/ CacheServers(t) PROVE VersionInv'
  <2>1. UNCHANGED <<version, promised, changes, cache>> /\ Return(t)
    BY <1>11 DEF AuthenticationFails, CacheServers, account
  <2>2. QED
    BY <1>1, <1>8, <2>1
<1>12. ASSUME NEW t \in Tasks, Answered(t) PROVE VersionInv'
  <2>1. /\ UNCHANGED <<promised, changes, cache, call>>
        /\ at[t] # "answered" /\ at'[t] = "answered"
        /\ version' = IF call[t] = "change" THEN version + 1 ELSE version
        /\ \A u \in Tasks \ {t}: at'[u] = at[u] /\ read'[u] = read[u]
        /\ read'[t] = read[t] \/ read'[t] = Answer(version', 0, read[t].raced)
    BY <1>12 DEF Answered, GoTo, TypeInv
  <2>2. Pending' = Pending \ {t} /\ (call[t] = "change" => t \in Pending)
    BY <2>1 DEF Pending
  <2>3. \/ version' = version
        \/ version' = version + 1 /\ \E u \in Pending: u \notin Pending'
    BY <2>1, <2>2
  <2>4. \A u \in Tasks: read'[u].version \in {read[u].version, 0, version'}
    BY <2>1 DEF Answer
  <2>5. version <= version'
    BY <1>0, <2>1
  <2>6. QED
    BY <1>0, <2>1, <2>2, <2>3, <2>4, <2>5, FewerPending, NothingNew DEF VersionInv
<1>13. ASSUME NEW t \in Tasks, RequestFails(t) PROVE VersionInv'
  <2>1. /\ UNCHANGED <<promised, changes, cache>> /\ Return(t) /\ at[t] # "answered"
        /\ version' = version \/ (call[t] = "change" /\ version' = version + 1)
    BY <1>13 DEF RequestFails
  <2>2. Pending' = Pending \ {t} /\ (call[t] = "change" => t \in Pending)
    BY <1>8, <2>1 DEF Pending
  <2>3. \/ version' = version
        \/ version' = version + 1 /\ \E u \in Pending: u \notin Pending'
    BY <2>1, <2>2
  <2>4. \A u \in Tasks: read'[u].version \in {read[u].version, 0, version'}
    BY <1>0, <1>8, <2>1
  <2>5. version <= version'
    BY <1>0, <2>1
  <2>6. QED
    BY <1>0, <2>1, <2>2, <2>3, <2>4, <2>5, FewerPending, NothingNew DEF VersionInv
<1>14. ASSUME NEW t \in Tasks, CacheUsage(t) PROVE VersionInv'
  <2>1. /\ UNCHANGED <<version, promised, changes>> /\ Return(t)
        /\ cache'.answer = read[t]
    BY <1>14 DEF CacheUsage, account
  <2>2. Pending' \subseteq Pending
    BY <1>8, <2>1
  <2>3. cache'.answer.version <= version'
    BY <2>1 DEF VersionInv
  <2>4. \A u \in Tasks: read'[u].version <= version'
    BY <1>0, <1>8, <2>1 DEF VersionInv
  <2>5. QED
    BY <2>1, <2>2, <2>3, <2>4, FewerPending DEF VersionInv
<1>15. ASSUME NEW t \in Tasks, InvalidateUsage(t) PROVE VersionInv'
  <2>1. /\ UNCHANGED <<version, changes>> /\ cache' = Empty
        /\ promised' = promised \/ promised' = read[t].version
        /\ at'[t] = "idle" /\ call'[t] = "usage" /\ at[t] = "answered"
        /\ \A u \in Tasks \ {t}: at'[u] = at[u] /\ call'[u] = call[u]
    BY <1>15 DEF InvalidateUsage, Invalidated, Leave, GoTo, TypeInv
  <2>2. Pending' \subseteq Pending
    BY <2>1 DEF Pending
  <2>3. \A u \in Tasks: read'[u].version \in {read[u].version, 0}
    BY <1>0, <1>15 DEF InvalidateUsage, Answer
  <2>4. promised' <= version' /\ cache'.answer.version <= version'
    BY <1>0, <2>1 DEF VersionInv, Empty
  <2>5. \A u \in Tasks: read'[u].version <= version'
    BY <1>0, <2>1, <2>3 DEF VersionInv
  <2>6. QED
    BY <2>1, <2>2, <2>4, <2>5, FewerPending DEF VersionInv
<1>16. QED
  BY <1>2, <1>3, <1>4, <1>5, <1>6, <1>9, <1>10, <1>11, <1>12, <1>13, <1>14, <1>15
     DEF Next, Proceed

LEMMA RestNext == NodesLine /\ RestType /\ [Next]_vars => RestType'
<1> SUFFICES ASSUME NodesLine, RestType, [Next]_vars PROVE RestType'
  OBVIOUS
<1>1. CASE UNCHANGED vars
  BY <1>1 DEF vars, session, servers, RestType
<1>2. CASE Tick \/ TokenExpires \/ CountExpires
  BY <1>2 DEF Tick, TokenExpires, CountExpires, session, servers, RestType
<1>8. CASE PanelForgets
  <2>1. MaxRefusals \in Nat
    BY ConstantsAssumption
  <2>2. QED
    BY <1>8, <2>1 DEF PanelForgets, servers, RestType
<1>3. ASSUME NEW t \in Tasks, Leave(t) PROVE counted' \in BOOLEAN /\ timely' \subseteq Tasks
  <2>1. nodes \in Seq(Tasks)
    BY DEF NodesLine, Lined
  <2>2. CASE call[t] = "servers" /\ t \notin timely
    <3>1. counted' \in BOOLEAN
      BY <1>3, <2>2 DEF Leave, LeaveNodes
    <3>2. PICK n \in 1..Len(nodes) : timely' = {nodes[i] : i \in 2..n}
      BY <1>3, <2>2 DEF Leave, LeaveNodes
    <3>3. \A i \in 2..n : nodes[i] \in Tasks
      BY <2>1
    <3>4. QED
      BY <3>1, <3>2, <3>3
  <2>3. CASE call[t] # "servers" \/ t \in timely
    BY <1>3, <2>3 DEF Leave, LeaveNodes, servers, RestType
  <2>4. QED
    BY <2>2, <2>3
<1>4. ASSUME NEW t \in Tasks, GetUsage(t) \/ Change(t) \/ ServersOnline(t) PROVE RestType'
  BY <1>4 DEF GetUsage, Change, ServersOnline, session, servers, RestType
<1>5. ASSUME NEW t \in Tasks, CountNodes(t) \/ Refused(t) PROVE RestType'
  BY <1>3, <1>5 DEF CountNodes, Refused, Return, session, servers, RestType
<1>6. ASSUME NEW t \in Tasks,
             AuthHeader(t) \/ AuthUnderLock(t) \/ DropToken(t) \/ Authenticate(t) \/ Answered(t)
      PROVE  RestType'
  BY <1>6 DEF AuthHeader, AuthUnderLock, DropToken, Authenticate, Answered, session, servers,
     RestType
<1>7. ASSUME NEW t \in Tasks,
             AuthenticationFails(t) \/ RequestFails(t) \/ CacheUsage(t) \/ CacheServers(t)
             \/ InvalidateUsage(t)
      PROVE  RestType'
  BY <1>3, <1>7 DEF AuthenticationFails, RequestFails, CacheUsage, CacheServers,
     InvalidateUsage, Return, session, RestType
<1>9. QED
  BY <1>1, <1>2, <1>4, <1>5, <1>6, <1>7, <1>8 DEF Next, Proceed

\* Every variable keeps its type; in particular each lock has in its line just
\* the calls that hold it or wait for it, each of them once, and no version is
\* heard of that the changes made so far do not account for.
THEOREM TypeCorrect == Spec => []TypeOK
<1>1. Init => AuthLine /\ NodesLine /\ VersionInv /\ RestType
  <2> SUFFICES ASSUME Init PROVE AuthLine /\ NodesLine /\ VersionInv /\ RestType
    OBVIOUS
  <2>1. Lined(<<>>, {})
    BY DEF Lined, Range
  <2>2. Waiting = {} /\ Counting = {} /\ Pending = {}
    BY DEF Init, Waiting, Counting, Pending, Queued
  <2>3. AuthLine /\ NodesLine
    BY <2>1, <2>2 DEF Init, AuthLine, NodesLine
  <2>4. VersionInv
    BY <2>2, FS_EmptySet, ConstantsAssumption
       DEF Init, VersionInv, Empty, Nothing, Answer
  <2>5. QED
    <3>1. MaxRefusals \in Nat
      BY ConstantsAssumption
    <3>2. fresh = FALSE /\ counted = FALSE /\ refusals = 0 /\ timely = {}
      BY DEF Init
    <3>3. refusals \in 0..MaxRefusals
      BY <3>1, <3>2
    <3>4. RestType
      BY <3>2, <3>3, Zenon DEF RestType
    <3>5. QED
      BY <2>3, <2>4, <3>4
<1>2. TypeInv /\ AuthLine /\ NodesLine /\ VersionInv /\ RestType => TypeOK
  <2> SUFFICES ASSUME TypeInv, AuthLine, NodesLine, VersionInv, RestType PROVE TypeOK
    OBVIOUS
  <2>1. Line(auth, {t \in Tasks: at[t] \in {"lock", "auth", "lock401", "auth401"}})
    BY LineLength DEF AuthLine, Waiting, Queued
  <2>2. Line(nodes, {t \in Tasks: call[t] = "servers"})
    BY LineLength DEF NodesLine, Counting
  <2>3. version \in Nat /\ version <= MaxChanges /\ {version, promised, changes} \subseteq 0..MaxChanges
    <3>1. Cardinality(Pending) \in Nat
      BY FS_CardinalityType DEF VersionInv
    <3>2. QED
      BY <3>1, ConstantsAssumption DEF VersionInv, TypeInv
  <2>4. \A answer \in Told: answer.version <= version => answer \in Answers
    BY <2>3, ConstantsAssumption DEF Told, Answers
  <2>5. read \in [Tasks -> Answers]
    BY <2>4 DEF TypeInv, VersionInv
  <2>6. cache \in [full: BOOLEAN, stamp: Ages, answer: Answers]
    BY <2>4 DEF TypeInv, VersionInv
  <2>7. QED
    BY <2>1, <2>2, <2>3, <2>5, <2>6 DEF TypeOK, TypeInv, RestType
<1>3. QED
  BY <1>1, <1>2, TypeInit, TypeNext, LinesNext, VersionNext, RestNext, PTL DEF Spec

=============================================================================
