---------------------------- MODULE PanelSession ----------------------------
(***************************************************************************)
(* The session of one process with the panel: MarzbanClient of             *)
(* bot/services/marzban.py without what Accounts says of its requests. The *)
(* token and its lock, the 401 that makes a request authenticate again,    *)
(* the cache of an account's usage and the cache of the node count.        *)
(*                                                                         *)
(* An asyncio lock is a queue: its head holds the lock, the others wait in *)
(* the order they came. Between two awaits a task is alone. A token is     *)
(* "good" while the panel takes it, and ages are counted up to MaxAge.     *)
(***************************************************************************)
EXTENDS Naturals, Sequences, FiniteSets, Functions

CONSTANTS
    Tasks,       \* concurrent calls in the process
    MaxAge,      \* max_age of a cached usage, in ticks
    MaxChanges,  \* bound: changes of the account
    MaxRefusals  \* bound: times the panel forgets its tokens

ASSUME ConstantsAssumption ==
    /\ IsFiniteSet(Tasks)
    /\ MaxAge \in Nat \ {0} /\ {MaxChanges, MaxRefusals} \subseteq Nat

VARIABLES
    token,     \* _token, as the panel sees it
    fresh,     \* time.time() <= _token_exp
    auth,      \* _auth_lock
    nodes,     \* _servers_lock
    counted,   \* time.time() < _servers_exp
    timely,    \* calls waiting for _servers_lock that came before _servers_exp
    at,        \* per task: where it is
    call,      \* per task: "usage", "servers" or "change"
    header,    \* per task: the token in the header of its request
    started,   \* per task: age of the timestamp get_usage took first
    read,      \* per task: the answer get_usage has in hand
    cache,     \* _usage_cache of the account: the answer and its timestamp
    version,   \* of the account at the panel
    promised,  \* history: the newest version a caller has heard of
    changes,   \* calls that change the account, so far
    refusals

session == <<token, fresh, auth>>
servers == <<nodes, counted, timely>>
account == <<version, promised, changes>>
vars    == <<session, servers, at, call, header, started, read, cache, account,
             refusals>>

Ages   == 0..MaxAge
Tokens == {"none", "good", "bad"}
Calls  == {"usage", "servers", "change"}
Places == {"idle", "nodes", "header", "lock", "auth", "sent", "lock401", "auth401",
           "resent", "answered"}

\* What the panel told: the version of the account and how long ago. raced: a
\* change invalidated the cache while the call was under way.
Answer(v, age, raced) == [version |-> v, age |-> age, raced |-> raced]

Answers == [version: 0..MaxChanges, age: Ages, raced: BOOLEAN]
Nothing == Answer(0, 0, FALSE)

\* A lock and the tasks that hold it or wait for it.
Line(queue, members) ==
    queue \in Seq(Tasks) /\ Len(queue) = Cardinality(members) /\ Range(queue) = members

TypeOK ==
    /\ token \in Tokens /\ fresh \in BOOLEAN
    /\ counted \in BOOLEAN /\ timely \subseteq Tasks
    /\ Line(auth, {t \in Tasks: at[t] \in {"lock", "auth", "lock401", "auth401"}})
    /\ Line(nodes, {t \in Tasks: call[t] = "servers"})
    /\ at \in [Tasks -> Places] /\ call \in [Tasks -> Calls]
    /\ header \in [Tasks -> Tokens]
    /\ started \in [Tasks -> Ages] /\ read \in [Tasks -> Answers]
    /\ cache \in [full: BOOLEAN, stamp: Ages, answer: Answers]
    /\ {version, promised, changes} \subseteq 0..MaxChanges /\ refusals \in 0..MaxRefusals

Empty == [full |-> FALSE, stamp |-> 0, answer |-> Nothing]

Init ==
    /\ token = "none" /\ fresh = FALSE /\ auth = <<>>
    /\ nodes = <<>> /\ counted = FALSE /\ timely = {}
    /\ at = [t \in Tasks |-> "idle"] /\ call = [t \in Tasks |-> "usage"]
    /\ header = [t \in Tasks |-> "none"]
    /\ started = [t \in Tasks |-> 0] /\ read = [t \in Tasks |-> Nothing]
    /\ cache = Empty /\ version = 0 /\ promised = 0 /\ changes = 0 /\ refusals = 0

GoTo(t, place) == at' = [at EXCEPT ![t] = place]

\* servers_online leaves its lock with the count it found kept, or keeps the one
\* it made, if any, until five minutes after it was called. By then these may be
\* over, for new calls and for the ones that came last to the line.
LeaveNodes(t) ==
    /\ nodes' = Tail(nodes)
    /\ IF t \in timely
       THEN timely' = timely \ {t} /\ UNCHANGED counted
       ELSE /\ counted' \in BOOLEAN
            /\ \E n \in 1..Len(nodes) :
                  timely' = {nodes[i] : i \in 2..n} /\ (counted' => n = Len(nodes))

\* The end of the call of t.
Leave(t) ==
    /\ GoTo(t, "idle")
    /\ header' = [header EXCEPT ![t] = "none"]
    /\ started' = [started EXCEPT ![t] = 0]
    /\ call' = [call EXCEPT ![t] = "usage"]
    /\ IF call[t] = "servers"
       THEN LeaveNodes(t)
       ELSE UNCHANGED servers

Return(t) == Leave(t) /\ read' = [read EXCEPT ![t] = Nothing]

-----------------------------------------------------------------------------
(* The calls *)

\* A cached answer is returned while its timestamp is younger than max_age.
CanServe == cache.full /\ cache.stamp < MaxAge

GetUsage(t) ==
    /\ at[t] = "idle" /\ ~CanServe
    /\ GoTo(t, "header")
    /\ UNCHANGED <<session, servers, call, header, started, read, cache, account,
                   refusals>>

\* create_or_renew, reset_traffic, set_status, revoke_sub, delete_user: a
\* request that changes the account.
Change(t) ==
    /\ at[t] = "idle" /\ changes < MaxChanges
    /\ changes' = changes + 1
    /\ call' = [call EXCEPT ![t] = "change"]
    /\ GoTo(t, "header")
    /\ UNCHANGED <<session, servers, header, started, read, cache, version, promised,
                   refusals>>

\* servers_online takes the time, then waits for its lock.
ServersOnline(t) ==
    /\ at[t] = "idle"
    /\ timely' = (IF counted THEN timely \cup {t} ELSE timely)
    /\ call' = [call EXCEPT ![t] = "servers"]
    /\ nodes' = Append(nodes, t)
    /\ GoTo(t, "nodes")
    /\ UNCHANGED <<session, counted, header, started, read, cache, account, refusals>>

\* Under its lock it compares the time it took before it waited: it returns a
\* count that expired meanwhile, and one that was made meanwhile.
CountNodes(t) ==
    /\ at[t] = "nodes" /\ Head(nodes) = t
    /\ IF t \in timely
       THEN Return(t)
       ELSE GoTo(t, "header") /\ UNCHANGED <<servers, call, header, started, read>>
    /\ UNCHANGED <<session, cache, account, refusals>>

-----------------------------------------------------------------------------
(* The token *)

NeedsToken == token = "none" \/ ~fresh

Send(t, place) == header' = [header EXCEPT ![t] = token'] /\ GoTo(t, place)

\* _auth_header takes the token as it is, or waits for the lock.
AuthHeader(t) ==
    /\ at[t] = "header"
    /\ UNCHANGED <<token, fresh>>
    /\ IF NeedsToken
       THEN auth' = Append(auth, t) /\ GoTo(t, "lock") /\ UNCHANGED header
       ELSE Send(t, "sent") /\ UNCHANGED auth
    /\ UNCHANGED <<servers, call, started, read, cache, account, refusals>>

\* Mutant: whoever held the lock is taken to have refreshed the token.
StillNeededNever == FALSE

\* Under the lock the token is looked at again.
StillNeeded == NeedsToken

AuthUnderLock(t) ==
    /\ at[t] = "lock" /\ Head(auth) = t
    /\ UNCHANGED <<token, fresh>>
    /\ IF StillNeeded
       THEN GoTo(t, "auth") /\ UNCHANGED <<auth, header>>
       ELSE Send(t, "sent") /\ auth' = Tail(auth)
    /\ UNCHANGED <<servers, call, started, read, cache, account, refusals>>

\* After a 401 the token is dropped and the task authenticates in any case.
DropToken(t) ==
    /\ at[t] = "lock401" /\ Head(auth) = t
    /\ token' = "none" /\ fresh' = FALSE
    /\ GoTo(t, "auth401")
    /\ UNCHANGED <<auth, servers, call, header, started, read, cache, account,
                   refusals>>

Authenticate(t) ==
    /\ at[t] \in {"auth", "auth401"}
    /\ token' = "good" /\ fresh' = TRUE /\ auth' = Tail(auth)
    /\ Send(t, IF at[t] = "auth" THEN "sent" ELSE "resent")
    /\ UNCHANGED <<servers, call, started, read, cache, account, refusals>>

\* Mutant: an exception leaves the lock behind.
AfterRaiseHeld == auth

\* An exception leaves the lock as a return does.
AfterRaise == Tail(auth)

AuthenticationFails(t) ==
    /\ at[t] \in {"auth", "auth401"}
    /\ auth' = AfterRaise
    /\ Return(t)
    /\ UNCHANGED <<token, fresh, cache, account, refusals>>

-----------------------------------------------------------------------------
(* The answers *)

\* The panel answers: with the account as it is, or after changing it.
Answered(t) ==
    /\ at[t] \in {"sent", "resent"} /\ header[t] = "good"
    /\ version' = (IF call[t] = "change" THEN version + 1 ELSE version)
    /\ read' = (IF call[t] = "servers" THEN read
                ELSE [read EXCEPT ![t] = Answer(version', 0, read[t].raced)])
    /\ GoTo(t, "answered")
    /\ UNCHANGED <<session, servers, call, header, started, cache, promised, changes,
                   refusals>>

\* A 401: the first one makes the task wait for the lock, the second one is an
\* error like any other.
Refused(t) ==
    /\ header[t] = "bad"
    /\ \/ /\ at[t] = "sent"
          /\ auth' = Append(auth, t) /\ GoTo(t, "lock401")
          /\ UNCHANGED <<servers, call, header, started, read>>
       \/ at[t] = "resent" /\ Return(t) /\ UNCHANGED auth
    /\ UNCHANGED <<token, fresh, cache, account, refusals>>

\* A timeout, a refused connection, an error of the panel. Nothing is cached or
\* invalidated, and a change may have been made all the same.
RequestFails(t) ==
    /\ at[t] \in {"sent", "resent"}
    /\ Return(t)
    /\ \/ UNCHANGED version
       \/ call[t] = "change" /\ header[t] = "good" /\ version' = version + 1
    /\ UNCHANGED <<session, cache, promised, changes, refusals>>

\* Mutant: the answer is stamped when it is stored.
StampOnArrival(t) == 0

\* The timestamp was taken before the request.
Stamp(t) == started[t]

CacheUsage(t) ==
    /\ at[t] = "answered" /\ call[t] = "usage"
    /\ cache' = [full |-> TRUE, stamp |-> Stamp(t), answer |-> read[t]]
    /\ Return(t)
    /\ UNCHANGED <<session, account, refusals>>

CacheServers(t) ==
    /\ at[t] = "answered" /\ call[t] = "servers"
    /\ Return(t)
    /\ UNCHANGED <<session, cache, account, refusals>>

Invalidated == Empty

\* A change that succeeded invalidates the cache, but no call under way.
InvalidateUsage(t) ==
    /\ at[t] = "answered" /\ call[t] = "change"
    /\ cache' = Invalidated
    /\ promised' = (IF read[t].version > promised THEN read[t].version ELSE promised)
    /\ Leave(t)
    /\ read' = [u \in Tasks |->
                   IF u = t THEN Nothing
                   ELSE IF at[u] # "idle" /\ call[u] = "usage"
                   THEN Answer(read[u].version, read[u].age, TRUE)
                   ELSE read[u]]
    /\ UNCHANGED <<session, version, changes, refusals>>

-----------------------------------------------------------------------------
(* The clock and the panel *)

Older(age) == IF age < MaxAge THEN age + 1 ELSE age

Aged(answer) == Answer(answer.version, Older(answer.age), answer.raced)

\* A tick for the cache and the calls that fill it.
Tick ==
    /\ cache' = (IF cache.full
                 THEN [full |-> TRUE, stamp |-> Older(cache.stamp),
                       answer |-> Aged(cache.answer)]
                 ELSE cache)
    /\ started' = [t \in Tasks |->
                      IF call[t] = "usage" /\ at[t] # "idle" THEN Older(started[t]) ELSE 0]
    /\ read' = [t \in Tasks |->
                   IF call[t] = "usage" /\ at[t] = "answered"
                   THEN Aged(read[t]) ELSE read[t]]
    /\ UNCHANGED <<session, servers, at, call, header, account, refusals>>

\* An hour after it was fetched, the client no longer trusts its token.
TokenExpires ==
    /\ fresh /\ fresh' = FALSE
    /\ UNCHANGED <<token, auth, servers, at, call, header, started, read, cache, account,
                   refusals>>

CountExpires ==
    /\ counted /\ counted' = FALSE
    /\ UNCHANGED <<session, nodes, timely, at, call, header, started, read, cache,
                   account, refusals>>

\* A restart of the panel or a new secret: it takes none of its tokens.
Worse(tok) == IF tok = "good" THEN "bad" ELSE tok

PanelForgets ==
    /\ refusals < MaxRefusals /\ refusals' = refusals + 1
    /\ token' = Worse(token)
    /\ header' = [t \in Tasks |-> Worse(header[t])]
    /\ UNCHANGED <<fresh, auth, servers, at, call, started, read, cache, account>>

-----------------------------------------------------------------------------

\* What a call does until it returns; its requests have timeouts.
Proceed(t) ==
    \/ CountNodes(t) \/ AuthHeader(t) \/ AuthUnderLock(t) \/ DropToken(t)
    \/ Authenticate(t) \/ AuthenticationFails(t)
    \/ Answered(t) \/ Refused(t) \/ RequestFails(t)
    \/ CacheUsage(t) \/ CacheServers(t) \/ InvalidateUsage(t)

Next ==
    \/ \E t \in Tasks: GetUsage(t) \/ Change(t) \/ ServersOnline(t) \/ Proceed(t)
    \/ Tick \/ TokenExpires \/ CountExpires \/ PanelForgets

Spec == Init /\ [][Next]_vars

\* The event loop runs every task that can go on.
FairSpec == Spec /\ \A t \in Tasks: WF_vars(Proceed(t))

-----------------------------------------------------------------------------
(* Properties *)

\* No request goes out without a token, though a 401 elsewhere drops it while
\* others are about to send: they either took it before or wait for the lock
\* and look again.
NoTokenlessRequest == \A t \in Tasks: at[t] \in {"sent", "resent"} => header[t] # "none"

\* What get_usage serves from the cache is never older than max_age, however
\* long the call took that filled it and whichever of several calls came last;
\* and after a grant, a reset or a switch that succeeded it is of the changed
\* account, unless it comes from a call that was under way at that moment.
ServedUsageIsTrue ==
    CanServe =>
        /\ cache.answer.age < MaxAge
        /\ cache.answer.version < promised => cache.answer.raced

\* Every call ends: no order of the two locks, of failures and of 401s leaves
\* a task waiting for ever.
CallsEnd == \A t \in Tasks: at[t] # "idle" ~> at[t] = "idle"
=============================================================================
