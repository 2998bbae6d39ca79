----------------------------- MODULE RateLimits -----------------------------
(***************************************************************************)
(* bot/web/rate_limit.py for one key and its rule: the counter in Redis    *)
(* that all workers share and that expires as a whole, and the list of     *)
(* times a worker keeps in memory and falls back to, request by request,   *)
(* when Redis does not answer.                                             *)
(*                                                                         *)
(* The client is synchronous: a worker serves one request at a time. Its   *)
(* commands time out after 0.4 s, so that a tick, a good part of the       *)
(* window, does not fit between two of them.                               *)
(***************************************************************************)
EXTENDS Naturals, Sequences, SequencesExt, FiniteSets

CONSTANTS
    Workers,  \* processes or containers that serve the miniapp
    Limit,    \* requests
    Window,   \* ticks
    MaxCrashes \* bound: deaths of a worker

ASSUME ConstantsAssumption ==
    /\ IsFiniteSet(Workers)
    /\ {Limit, Window} \subseteq Nat \ {0} /\ MaxCrashes \in Nat

VARIABLES
    count,    \* the counter in Redis; 0: no key
    ttl,      \* ticks until it expires; 0: it has no expiry
    bucket,   \* _BUCKETS of a worker: the ages of what it let through
    memory,   \* workers without a Redis client: no REDIS_URL, _REDIS_DISABLED
    pc,       \* per worker: where its request is
    got,      \* per worker: the counter it has read
    shared,   \* history: requests that passed by Redis, by their age
    own,      \* history: those that passed by a worker's memory
    last,     \* history: what became of the last request
    crashes

redis   == <<count, ttl>>
passed  == <<shared, own, last>>
vars    == <<redis, bucket, memory, pc, got, passed, crashes>>

\* The windows of Redis end before they are as old as a window; the memory
\* still counts what is exactly as old.
Ages    == 0..Window
Younger == 0..(Window - 1)

TypeOK ==
    /\ count \in 0..(Limit + 1) /\ ttl \in Ages /\ (ttl > 0 => count > 0)
    /\ bucket \in [Workers -> SeqOf(0..(Window + 1), Limit)]
    /\ memory \subseteq Workers
    /\ pc \in [Workers -> {"idle", "redis", "expire", "memory"}]
    /\ got \in [Workers -> 0..(Limit + 1)]
    /\ shared \in [Younger -> Nat] /\ own \in [Workers -> [Ages -> Nat]]
    /\ last \in {"none", "passed", "refused"} /\ crashes \in 0..MaxCrashes

Never(ages) == [a \in ages |-> 0]

Init ==
    /\ count = 0 /\ ttl = 0
    /\ bucket = [w \in Workers |-> <<>>] /\ memory \in SUBSET Workers
    /\ pc = [w \in Workers |-> "idle"] /\ got = [w \in Workers |-> 0]
    /\ shared = Never(Younger) /\ own = [w \in Workers |-> Never(Ages)]
    /\ last = "none" /\ crashes = 0

GoTo(w, place) == pc' = [pc EXCEPT ![w] = place]

Noted(history) == [history EXCEPT ![0] = @ + 1]

-----------------------------------------------------------------------------
(* require_rate_limit *)

Ask(w) ==
    /\ pc[w] = "idle"
    /\ GoTo(w, IF w \in memory THEN "memory" ELSE "redis")
    /\ UNCHANGED <<redis, bucket, memory, got, passed, crashes>>

\* Mutant: the counter is compared as it was before the request.
WithinBefore(n) == n <= Limit + 1

Within(n) == n <= Limit

\* The counter decides.
Verdict(w, n) ==
    /\ GoTo(w, "idle")
    /\ got' = [got EXCEPT ![w] = 0]
    /\ IF Within(n)
       THEN shared' = Noted(shared) /\ last' = "passed"
       ELSE UNCHANGED shared /\ last' = "refused"
    /\ UNCHANGED own

\* Mutant: every request starts the window anew.
UnboundedAlways == TRUE

\* TTL is negative: the key was made by this command, or its EXPIRE was lost.
Unbounded == ttl = 0

\* More than Limit + 1 is as good as Limit + 1.
Counted == IF count > Limit THEN count ELSE count + 1

\* INCR and TTL in one transaction.
Count(w) ==
    /\ pc[w] = "redis"
    /\ count' = Counted
    /\ IF Unbounded
       THEN GoTo(w, "expire") /\ got' = [got EXCEPT ![w] = Counted] /\ UNCHANGED passed
       ELSE Verdict(w, Counted)
    /\ UNCHANGED <<ttl, bucket, memory, crashes>>

Expire(w) ==
    /\ pc[w] = "expire"
    /\ ttl' = Window
    /\ Verdict(w, got[w])
    /\ UNCHANGED <<count, bucket, memory, crashes>>

\* Either call fails, before or after Redis has done it: the memory decides.
RedisFails(w) ==
    /\ \/ pc[w] = "redis" /\ count' \in {count, Counted} /\ UNCHANGED ttl
       \/ pc[w] = "expire" /\ ttl' \in {ttl, Window} /\ UNCHANGED count
    /\ GoTo(w, "memory")
    /\ got' = [got EXCEPT ![w] = 0]
    /\ UNCHANGED <<bucket, memory, passed, crashes>>

Full(times) == Len(times) >= Limit

Recent(age) == age <= Window

\* The oldest n leave from the left, until the first recent one.
Outdated(times, n) ==
    /\ \A i \in 1..n : ~Recent(times[i])
    /\ n < Len(times) => Recent(times[n + 1])

\* _memory_rate_limit: a refused request is not remembered.
MemoryRateLimit(w) ==
    /\ pc[w] = "memory"
    /\ GoTo(w, "idle")
    /\ \E n \in 0..Len(bucket[w]) :
         /\ Outdated(bucket[w], n)
         /\ LET kept == SubSeq(bucket[w], n + 1, Len(bucket[w])) IN
              IF Full(kept)
              THEN /\ bucket' = [bucket EXCEPT ![w] = kept]
                   /\ last' = "refused" /\ UNCHANGED own
              ELSE /\ bucket' = [bucket EXCEPT ![w] = Append(kept, 0)]
                   /\ own' = [own EXCEPT ![w] = Noted(own[w])]
                   /\ last' = "passed"
    /\ UNCHANGED <<redis, memory, got, shared, crashes>>

-----------------------------------------------------------------------------
(* Time and deaths *)

Older(age) == IF age > Window THEN age ELSE age + 1

Aged(history) == [a \in DOMAIN history |-> IF a = 0 THEN 0 ELSE history[a - 1]]

\* No worker is between its two commands.
Calm == \A w \in Workers: pc[w] # "expire"

Tick ==
    /\ Calm
    /\ ttl' = (IF ttl > 0 THEN ttl - 1 ELSE 0)
    /\ count' = (IF ttl = 1 THEN 0 ELSE count)
    /\ bucket' = [w \in Workers |-> [i \in DOMAIN bucket[w] |-> Older(bucket[w][i])]]
    /\ shared' = Aged(shared) /\ own' = [w \in Workers |-> Aged(own[w])]
    /\ UNCHANGED <<memory, pc, got, last, crashes>>

\* A worker dies and is started again: its memory is empty, its client new.
Crash(w) ==
    /\ crashes < MaxCrashes /\ crashes' = crashes + 1
    /\ GoTo(w, "idle") /\ got' = [got EXCEPT ![w] = 0]
    /\ bucket' = [bucket EXCEPT ![w] = <<>>]
    /\ own' = [own EXCEPT ![w] = Never(Ages)]
    /\ UNCHANGED <<redis, memory, shared, last>>

-----------------------------------------------------------------------------

Serve(w) == Count(w) \/ Expire(w) \/ RedisFails(w) \/ MemoryRateLimit(w)

Next == Tick \/ \E w \in Workers: Ask(w) \/ Serve(w) \/ Crash(w)

Spec == Init /\ [][Next]_vars

\* A request is served; time is not held up by requests.
FairSpec == Spec /\ SF_vars(Tick) /\ \A w \in Workers: WF_vars(Serve(w))

-----------------------------------------------------------------------------
(* Properties *)

\* What passed, each request by its age and a number among those of that age.
Requests(history) == UNION {{a} \X (1..history[a]) : a \in DOMAIN history}

Total(history) == Cardinality(Requests(history))

\* What the limit comes to. The windows of Redis are fixed, but for all workers
\* together: any stretch of a window's length meets two of them at most,
\* whatever becomes of the EXPIRE of a request whose worker dies or whose
\* answer is lost. The memory of a worker, from its start on, lets through the
\* limit in any such stretch, whether its requests come to it because it has no
\* Redis or because Redis failed.
QuotaHolds ==
    /\ Total(shared) <= 2 * Limit
    /\ \A w \in Workers: Total(own[w]) <= Limit

\* Asking while refused does not prolong the refusal: whoever keeps asking gets
\* through again and again, whatever Redis answers. (Calm: there is no moment
\* between two ticks with requests without end.)
AskersGetThrough ==
    ([]<><<\E w \in Workers: Ask(w)>>_vars /\ []<>Calm)
        => []<>(last = "passed")
=============================================================================
