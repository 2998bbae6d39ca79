-------------------------- MODULE RateLimitsProofs --------------------------
(* RateLimits: what the limit comes to, for every limit, window, number of *)
(* workers and number of deaths.                                           *)
EXTENDS RateLimits, FiniteSetTheorems, FunctionTheorems, SequenceTheorems, TLAPS

-----------------------------------------------------------------------------
(* Histories: what is counted, and what a note and a tick do to it.        *)

LEMMA InRequests ==
  ASSUME NEW h, NEW r
  PROVE  r \in Requests(h) <=> \E a \in DOMAIN h : \E k \in 1..h[a] : r = <<a, k>>
BY DEF Requests

LEMMA RequestsFinite ==
  ASSUME NEW m \in Nat, NEW h \in [0..m -> Nat]
  PROVE  IsFiniteSet(Requests(h))
<1> DEFINE Rows == {{a} \X (1..h[a]) : a \in 0..m}
           row  == [a \in 0..m |-> {a} \X (1..h[a])]
<1>1. IsFiniteSet(Rows)
  <2>1. row \in Surjection(0..m, Rows)
    <3>1. row \in [0..m -> Rows]
      OBVIOUS
    <3>2. \A t \in Rows : \E a \in 0..m : row[a] = t
      OBVIOUS
    <3>3. QED
      BY <3>1, <3>2, Fun_IsSurj
  <2>2. QED
    BY <2>1, FS_Interval, FS_Surjection
<1>2. ASSUME NEW t \in Rows PROVE IsFiniteSet(t)
  <2>1. PICK a \in 0..m : t = {a} \X (1..h[a])
    OBVIOUS
  <2>2. IsFiniteSet({a}) /\ IsFiniteSet(1..h[a])
    <3>1. h[a] \in Int
      OBVIOUS
    <3>2. IsFiniteSet({a})
      BY FS_Singleton
    <3>3. IsFiniteSet(1..h[a])
      BY <3>1, FS_Interval
    <3>4. QED
      BY <3>2, <3>3
  <2>3. QED
    BY <2>1, <2>2, FS_Product
<1>3. Requests(h) = UNION Rows
  BY DEF Requests
<1>4. QED
  BY <1>1, <1>2, <1>3, FS_UNION

LEMMA NotedRequests ==
  ASSUME NEW m \in Nat, NEW h \in [0..m -> Nat]
  PROVE  /\ Noted(h) \in [0..m -> Nat]
         /\ Requests(Noted(h)) = Requests(h) \cup {<<0, h[0] + 1>>}
         /\ <<0, h[0] + 1>> \notin Requests(h)
<1>1. Noted(h) \in [0..m -> Nat] /\ Noted(h)[0] = h[0] + 1
  BY DEF Noted
<1>2. \A a \in 0..m : a # 0 => Noted(h)[a] = h[a]
  BY DEF Noted
<1>3. \A r : r \in Requests(Noted(h)) <=> r \in Requests(h) \/ r = <<0, h[0] + 1>>
  <2> SUFFICES ASSUME NEW r
               PROVE  r \in Requests(Noted(h)) <=> r \in Requests(h) \/ r = <<0, h[0] + 1>>
    OBVIOUS
  <2>1. ASSUME r \in Requests(Noted(h)) PROVE r \in Requests(h) \/ r = <<0, h[0] + 1>>
    <3>1. PICK a \in 0..m : \E k \in 1..Noted(h)[a] : r = <<a, k>>
      BY <1>1, <2>1, InRequests
    <3>2. PICK k \in 1..Noted(h)[a] : r = <<a, k>>
      BY <3>1
    <3>3. k \in 1..h[a] \/ (a = 0 /\ k = h[0] + 1)
      BY <1>1, <1>2
    <3>4. QED
      BY <3>2, <3>3, InRequests
  <2>2. ASSUME r \in Requests(h) PROVE r \in Requests(Noted(h))
    <3>1. PICK a \in 0..m : \E k \in 1..h[a] : r = <<a, k>>
      BY <2>2, InRequests
    <3>2. PICK k \in 1..h[a] : r = <<a, k>>
      BY <3>1
    <3>3. k \in 1..Noted(h)[a]
      BY <1>1, <1>2
    <3>4. QED
      BY <1>1, <3>2, <3>3, InRequests
  <2>3. <<0, h[0] + 1>> \in Requests(Noted(h))
    <3>1. 0 \in 0..m /\ h[0] + 1 \in 1..Noted(h)[0]
      BY <1>1
    <3>2. QED
      BY <1>1, <3>1, InRequests
  <2>4. QED
    BY <2>1, <2>2, <2>3
<1>4. <<0, h[0] + 1>> \notin Requests(h)
  <2> SUFFICES ASSUME NEW a \in 0..m, NEW k \in 1..h[a], <<0, h[0] + 1>> = <<a, k>>
               PROVE  FALSE
    BY InRequests
  <2>1. QED
    OBVIOUS
<1>5. QED
  BY <1>1, <1>3, <1>4

\* A tick earlier the same request was one tick younger.
Earlier(r) == <<r[1] - 1, r[2]>>

LEMMA AgedRequests ==
  ASSUME NEW m \in Nat, NEW h \in [0..m -> Nat]
  PROVE  /\ Aged(h) \in [0..m -> Nat] /\ Aged(h)[0] = 0
         /\ \A r \in Requests(Aged(h)) :
               /\ r[1] \in 1..m /\ r = <<r[1], r[2]>>
               /\ Earlier(r) \in Requests(h)
<1>1. Aged(h) \in [0..m -> Nat] /\ \A a \in 0..m : Aged(h)[a] = IF a = 0 THEN 0 ELSE h[a - 1]
  BY DEF Aged
<1>2. ASSUME NEW r \in Requests(Aged(h))
      PROVE  r[1] \in 1..m /\ r = <<r[1], r[2]>> /\ Earlier(r) \in Requests(h)
  <2>1. PICK a \in 0..m : \E k \in 1..Aged(h)[a] : r = <<a, k>>
    BY <1>1, InRequests
  <2>2. PICK k \in 1..Aged(h)[a] : r = <<a, k>>
    BY <2>1
  <2>3. a # 0
    BY <1>1
  <2>4. a - 1 \in 0..m /\ k \in 1..h[a - 1]
    BY <1>1, <2>3
  <2>5. Earlier(r) = <<a - 1, k>>
    BY <2>2 DEF Earlier
  <2>6. Earlier(r) \in Requests(h)
    BY <2>4, <2>5, InRequests
  <2>7. QED
    BY <2>2, <2>3, <2>6
<1>3. QED
  BY <1>1, <1>2

\* What is left of some requests after a tick are not more than they were.
LEMMA AgedFewer ==
  ASSUME NEW m \in Nat, NEW h \in [0..m -> Nat],
         NEW S \in SUBSET Requests(Aged(h)), NEW T \in SUBSET Requests(h),
         \A r \in S : Earlier(r) \in T
  PROVE  Cardinality(S) <= Cardinality(T)
<1> DEFINE f == [r \in S |-> Earlier(r)]
<1>1. f \in [S -> T]
  OBVIOUS
<1>2. \A r, q \in S : f[r] = f[q] => r = q
  <2> SUFFICES ASSUME NEW r \in S, NEW q \in S, Earlier(r) = Earlier(q) PROVE r = q
    OBVIOUS
  <2>1. /\ r[1] \in 1..m /\ r = <<r[1], r[2]>>
        /\ q[1] \in 1..m /\ q = <<q[1], q[2]>>
    BY AgedRequests
  <2>2. r[1] - 1 = q[1] - 1 /\ r[2] = q[2]
    BY DEF Earlier
  <2>3. QED
    BY <2>1, <2>2
<1>3. IsFiniteSet(T)
  BY RequestsFinite, FS_Subset
<1>4. f \in Injection(S, T)
  BY <1>1, <1>2, Fun_IsInj
<1>5. QED
  BY <1>3, <1>4, FS_Injection
-----------------------------------------------------------------------------
(* Types                                                                   *)

LEMMA ShortSequence ==
  ASSUME NEW S, NEW n \in Nat, NEW b
  PROVE  b \in SeqOf(S, n) <=> b \in Seq(S) /\ Len(b) <= n
<1>1. ASSUME b \in SeqOf(S, n) PROVE b \in Seq(S) /\ Len(b) <= n
  <2>1. PICK k \in 0..n : b \in [1..k -> S]
    BY <1>1 DEF SeqOf
  <2>2. b \in Seq(S) /\ Len(b) = k
    BY <2>1
  <2>3. QED
    BY <2>2
<1>2. ASSUME b \in Seq(S), Len(b) <= n PROVE b \in SeqOf(S, n)
  <2>1. Len(b) \in 0..n /\ b \in [1..Len(b) -> S]
    BY <1>2
  <2>2. QED
    BY <2>1 DEF SeqOf
<1>3. QED
  BY <1>1, <1>2

Entry == 0..(Window + 1)

\* A worker that is about to set the expiry has counted before.
TypeInv ==
    /\ count \in 0..(Limit + 1) /\ ttl \in Ages /\ (ttl > 0 => count > 0)
    /\ bucket \in [Workers -> Seq(Entry)]
    /\ \A w \in Workers : Len(bucket[w]) <= Limit
    /\ memory \subseteq Workers
    /\ pc \in [Workers -> {"idle", "redis", "expire", "memory"}]
    /\ \A w \in Workers : pc[w] = "expire" => count > 0
    /\ got \in [Workers -> 0..(Limit + 1)]
    /\ shared \in [Younger -> Nat] /\ own \in [Workers -> [Ages -> Nat]]
    /\ last \in {"none", "passed", "refused"} /\ crashes \in 0..MaxCrashes

LEMMA TypeInvOK == TypeInv => TypeOK
<1> SUFFICES ASSUME TypeInv PROVE TypeOK
  OBVIOUS
<1>1. \A w \in Workers : bucket[w] \in SeqOf(Entry, Limit)
  BY ShortSequence, ConstantsAssumption DEF TypeInv
<1>2. bucket \in [Workers -> SeqOf(0..(Window + 1), Limit)]
  BY <1>1 DEF TypeInv, Entry
<1>3. QED
  BY <1>2 DEF TypeInv, TypeOK

\* The histories have the shape the lemmas ask for.
LEMMA Shapes ==
  /\ Window \in Nat /\ Window > 0 /\ Window - 1 \in Nat
  /\ Limit \in Nat /\ Limit > 0 /\ MaxCrashes \in Nat
  /\ Ages = 0..Window /\ Younger = 0..(Window - 1)
BY ConstantsAssumption DEF Ages, Younger

\* A note and a tick keep the types of the histories.
LEMMA HistoryTypes ==
  ASSUME TypeInv
  PROVE  /\ Noted(shared) \in [Younger -> Nat] /\ Aged(shared) \in [Younger -> Nat]
         /\ \A w \in Workers : Noted(own[w]) \in [Ages -> Nat] /\ Aged(own[w]) \in [Ages -> Nat]
<1>1. shared \in [0..(Window - 1) -> Nat]
  BY Shapes DEF TypeInv
<1>2. \A w \in Workers : own[w] \in [0..Window -> Nat]
  BY Shapes DEF TypeInv
<1>3. Noted(shared) \in [Younger -> Nat] /\ Aged(shared) \in [Younger -> Nat]
  BY <1>1, Shapes, NotedRequests, AgedRequests
<1>4. ASSUME NEW w \in Workers
      PROVE  Noted(own[w]) \in [Ages -> Nat] /\ Aged(own[w]) \in [Ages -> Nat]
  BY <1>2, Shapes, NotedRequests, AgedRequests
<1>5. QED
  BY <1>3, <1>4

LEMMA VerdictTypes ==
  ASSUME TypeInv, NEW w \in Workers, NEW n, Verdict(w, n)
  PROVE  /\ pc' = [pc EXCEPT ![w] = "idle"] /\ got' \in [Workers -> 0..(Limit + 1)]
         /\ shared' \in [Younger -> Nat] /\ own' \in [Workers -> [Ages -> Nat]]
         /\ last' \in {"none", "passed", "refused"}
<1>1. shared' \in [Younger -> Nat] /\ last' \in {"none", "passed", "refused"}
  BY HistoryTypes DEF Verdict, TypeInv
<1>2. got' \in [Workers -> 0..(Limit + 1)]
  BY Shapes DEF Verdict, TypeInv
<1>3. QED
  BY <1>1, <1>2 DEF Verdict, GoTo, TypeInv

LEMMA TypeInit == Init => TypeInv
<1> SUFFICES ASSUME Init PROVE TypeInv
  OBVIOUS
<1>1. Never(Younger) \in [Younger -> Nat] /\ Never(Ages) \in [Ages -> Nat]
  BY DEF Never
<1>2. <<>> \in Seq(Entry) /\ Len(<<>>) = 0
  OBVIOUS
<1>3. bucket \in [Workers -> Seq(Entry)] /\ \A w \in Workers : Len(bucket[w]) <= Limit
  BY <1>2, Shapes DEF Init
<1>4. QED
  BY <1>1, <1>3, Shapes DEF Init, TypeInv

\* What is left of a bucket, with or without the new request.
LEMMA BucketTypes ==
  ASSUME TypeInv, NEW w \in Workers, NEW n \in 0..Len(bucket[w])
  PROVE  LET kept == SubSeq(bucket[w], n + 1, Len(bucket[w])) IN
         /\ kept \in Seq(Entry) /\ Len(kept) = Len(bucket[w]) - n
         /\ \A i \in 1..Len(kept) : kept[i] = bucket[w][i + n]
         /\ Append(kept, 0) \in Seq(Entry) /\ Len(Append(kept, 0)) = Len(kept) + 1
         /\ \A i \in 1..Len(kept) : Append(kept, 0)[i] = kept[i]
         /\ Append(kept, 0)[Len(kept) + 1] = 0
<1> DEFINE kept == SubSeq(bucket[w], n + 1, Len(bucket[w]))
<1>1. bucket[w] \in Seq(Entry) /\ Len(bucket[w]) \in Nat
  BY DEF TypeInv
<1>2. /\ kept \in Seq(Entry) /\ Len(kept) = Len(bucket[w]) - n
      /\ \A i \in 1..Len(kept) : kept[i] = bucket[w][i + n]
  BY <1>1
<1>3. 0 \in Entry
  BY Shapes DEF Entry
<1> HIDE DEF kept
<1>4. /\ Append(kept, 0) \in Seq(Entry) /\ Len(Append(kept, 0)) = Len(kept) + 1
      /\ \A i \in 1..Len(kept) : Append(kept, 0)[i] = kept[i]
      /\ Append(kept, 0)[Len(kept) + 1] = 0
  BY <1>2, <1>3
<1>5. QED
  BY <1>2, <1>4 DEF kept

LEMMA TypeNext == TypeInv /\ [Next]_vars => TypeInv'
<1> SUFFICES ASSUME TypeInv, [Next]_vars PROVE TypeInv'
  OBVIOUS
<1>0. CASE UNCHANGED vars
  BY <1>0 DEF vars, redis, passed, TypeInv
<1>1. CASE Tick
  <2>1. \A w \in Workers : bucket'[w] \in Seq(Entry) /\ Len(bucket'[w]) = Len(bucket[w])
    <3> SUFFICES ASSUME NEW w \in Workers
                 PROVE  bucket'[w] \in Seq(Entry) /\ Len(bucket'[w]) = Len(bucket[w])
      OBVIOUS
    <3>1. bucket'[w] = [i \in 1..Len(bucket[w]) |-> Older(bucket[w][i])]
      BY <1>1 DEF Tick, TypeInv
    <3>2. bucket[w] \in Seq(Entry)
      BY DEF TypeInv
    <3>3. ASSUME NEW i \in 1..Len(bucket[w]) PROVE Older(bucket[w][i]) \in Entry
      <4>1. bucket[w][i] \in Entry
        BY <3>2
      <4>2. QED
        BY <4>1, Shapes DEF Older, Entry
    <3>4. QED
      BY <3>1, <3>2, <3>3
  <2>2. bucket' \in [Workers -> Seq(Entry)] /\ \A w \in Workers : Len(bucket'[w]) <= Limit
    <3>1. DOMAIN bucket' = Workers /\ bucket' = [w \in Workers |-> bucket'[w]]
      BY <1>1 DEF Tick
    <3>2. QED
      BY <2>1, <3>1 DEF TypeInv
  <2>3. count' \in 0..(Limit + 1) /\ ttl' \in Ages /\ (ttl' > 0 => count' > 0)
    BY <1>1, Shapes DEF Tick, TypeInv
  <2>4. \A w \in Workers : pc'[w] # "expire"
    BY <1>1 DEF Tick, Calm
  <2>5. shared' \in [Younger -> Nat] /\ own' \in [Workers -> [Ages -> Nat]]
    BY <1>1, HistoryTypes DEF Tick
  <2>6. QED
    BY <1>1, <2>2, <2>3, <2>4, <2>5 DEF Tick, TypeInv
<1>2. ASSUME NEW w \in Workers, Ask(w) PROVE TypeInv'
  BY <1>2 DEF Ask, GoTo, redis, passed, TypeInv
<1>3. ASSUME NEW w \in Workers, Count(w) PROVE TypeInv'
  <2>1. count' \in 0..(Limit + 1) /\ count' > 0 /\ Counted \in 0..(Limit + 1)
    BY <1>3, Shapes DEF Count, Counted, TypeInv
  <2>2. /\ pc' \in [Workers -> {"idle", "redis", "expire", "memory"}]
        /\ got' \in [Workers -> 0..(Limit + 1)]
        /\ shared' \in [Younger -> Nat] /\ own' \in [Workers -> [Ages -> Nat]]
        /\ last' \in {"none", "passed", "refused"}
    <3>1. CASE Unbounded
      BY <1>3, <2>1, <3>1 DEF Count, GoTo, passed, TypeInv
    <3>2. CASE ~Unbounded
      BY <1>3, <2>1, <3>2, VerdictTypes DEF Count, TypeInv
    <3>3. QED
      BY <3>1, <3>2
  <2>3. QED
    BY <1>3, <2>1, <2>2 DEF Count, TypeInv
<1>4. ASSUME NEW w \in Workers, Expire(w) PROVE TypeInv'
  <2>1. count > 0 /\ count' = count /\ ttl' \in Ages
    BY <1>4, Shapes DEF Expire, TypeInv
  <2>2. QED
    BY <1>4, <2>1, VerdictTypes DEF Expire, TypeInv
<1>5. ASSUME NEW w \in Workers, RedisFails(w) PROVE TypeInv'
  <2>1. count' \in 0..(Limit + 1) /\ count' >= count /\ ttl' \in Ages /\ (ttl' > 0 => count' > 0)
    <3>1. CASE pc[w] = "redis" /\ count' \in {count, Counted} /\ UNCHANGED ttl
      BY <3>1, Shapes DEF Counted, TypeInv
    <3>2. CASE pc[w] = "expire" /\ ttl' \in {ttl, Window} /\ UNCHANGED count
      BY <3>2, Shapes DEF TypeInv
    <3>3. QED
      BY <1>5, <3>1, <3>2 DEF RedisFails
  <2>2. got' \in [Workers -> 0..(Limit + 1)] /\ pc' = [pc EXCEPT ![w] = "memory"]
    BY <1>5, Shapes DEF RedisFails, GoTo, TypeInv
  <2>3. \A v \in Workers : pc'[v] = "expire" => count' > 0
    BY <2>1, <2>2 DEF TypeInv
  <2>4. QED
    BY <1>5, <2>1, <2>2, <2>3 DEF RedisFails, passed, TypeInv
<1>6. ASSUME NEW w \in Workers, MemoryRateLimit(w) PROVE TypeInv'
  <2>1. PICK n \in 0..Len(bucket[w]) :
          LET kept == SubSeq(bucket[w], n + 1, Len(bucket[w])) IN
              IF Full(kept)
              THEN /\ bucket' = [bucket EXCEPT ![w] = kept]
                   /\ last' = "refused" /\ UNCHANGED own
              ELSE /\ bucket' = [bucket EXCEPT ![w] = Append(kept, 0)]
                   /\ own' = [own EXCEPT ![w] = Noted(own[w])]
                   /\ last' = "passed"
    BY <1>6 DEF MemoryRateLimit
  <2> DEFINE kept == SubSeq(bucket[w], n + 1, Len(bucket[w]))
  <2>2. /\ kept \in Seq(Entry) /\ Len(kept) = Len(bucket[w]) - n
        /\ Append(kept, 0) \in Seq(Entry) /\ Len(Append(kept, 0)) = Len(kept) + 1
    BY BucketTypes
  <2>3. bucket' \in [Workers -> Seq(Entry)] /\ \A v \in Workers : Len(bucket'[v]) <= Limit
    <3> HIDE DEF kept
    <3>1. Len(kept) <= Limit
      <4>1. bucket[w] \in Seq(Entry) /\ Len(bucket[w]) <= Limit
        BY DEF TypeInv
      <4>2. QED
        BY <2>2, <4>1, Shapes
    <3>2. CASE Full(kept)
      BY <2>1, <2>2, <3>1, <3>2 DEF kept, TypeInv
    <3>3. CASE ~Full(kept)
      <4>1. Len(Append(kept, 0)) <= Limit
        BY <2>2, <3>1, <3>3, Shapes DEF Full
      <4>2. QED
        BY <2>1, <2>2, <3>3, <4>1 DEF kept, TypeInv
    <3>4. QED
      BY <3>2, <3>3
  <2>4. own' \in [Workers -> [Ages -> Nat]] /\ last' \in {"none", "passed", "refused"}
    <3>1. own' = own \/ own' = [own EXCEPT ![w] = Noted(own[w])]
      BY <2>1
    <3>2. last' \in {"none", "passed", "refused"}
      BY <2>1
    <3>3. QED
      BY <3>1, <3>2, HistoryTypes DEF TypeInv
  <2>5. QED
    BY <1>6, <2>3, <2>4 DEF MemoryRateLimit, GoTo, redis, TypeInv
<1>7. ASSUME NEW w \in Workers, Crash(w) PROVE TypeInv'
  <2>1. Never(Ages) \in [Ages -> Nat]
    BY DEF Never
  <2>2. <<>> \in Seq(Entry) /\ Len(<<>>) = 0
    OBVIOUS
  <2>3. bucket' \in [Workers -> Seq(Entry)] /\ \A v \in Workers : Len(bucket'[v]) <= Limit
    BY <1>7, <2>2, Shapes DEF Crash, TypeInv
  <2>4. got' \in [Workers -> 0..(Limit + 1)] /\ crashes' \in 0..MaxCrashes
    BY <1>7, Shapes DEF Crash, TypeInv
  <2>5. QED
    BY <1>7, <2>1, <2>3, <2>4 DEF Crash, GoTo, redis, TypeInv
<1>8. QED
  BY <1>0, <1>1, <1>2, <1>3, <1>4, <1>5, <1>6, <1>7 DEF Next, Serve
-----------------------------------------------------------------------------
(* The memory of a worker                                                  *)

\* f gives every request that counts an entry of its own age to itself.
Holds(f, history, times) ==
    /\ f \in [Requests(history) -> DOMAIN times]
    /\ \A r, q \in Requests(history) : f[r] = f[q] => r = q
    /\ \A r \in Requests(history) : times[f[r]] = r[1]

Remembered == \A w \in Workers : \E f : Holds(f, own[w], bucket[w])

LEMMA NothingHeld ==
  ASSUME NEW times
  PROVE  \E f : Holds(f, Never(Ages), times)
<1>1. Requests(Never(Ages)) = {}
  <2>1. ASSUME NEW r \in Requests(Never(Ages)) PROVE FALSE
    <3>1. PICK a \in Ages : \E k \in 1..Never(Ages)[a] : r = <<a, k>>
      BY <2>1, InRequests DEF Never
    <3>2. Never(Ages)[a] = 0
      BY DEF Never
    <3>3. QED
      BY <3>1, <3>2
  <2>2. QED
    BY <2>1
<1> DEFINE none == [r \in {} |-> r]
<1>2. Holds(none, Never(Ages), times)
  BY <1>1 DEF Holds
<1>3. QED
  BY <1>2

\* As long as a worker's history is bounded by its bucket, it keeps the limit.
LEMMA HeldWithinLimit ==
  ASSUME TypeInv, NEW w \in Workers, NEW f, Holds(f, own[w], bucket[w])
  PROVE  Total(own[w]) <= Limit
<1>1. bucket[w] \in Seq(Entry) /\ Len(bucket[w]) <= Limit
  BY DEF TypeInv
<1>2. DOMAIN bucket[w] = 1..Len(bucket[w]) /\ Len(bucket[w]) \in Nat
  BY <1>1
<1>3. IsFiniteSet(1..Len(bucket[w])) /\ Cardinality(1..Len(bucket[w])) = Len(bucket[w])
  BY <1>2, FS_Interval
<1>4. f \in Injection(Requests(own[w]), 1..Len(bucket[w]))
  BY <1>2, Fun_IsInj DEF Holds
<1>5. /\ Cardinality(Requests(own[w])) <= Len(bucket[w])
      /\ Cardinality(Requests(own[w])) \in Nat
  BY <1>3, <1>4, FS_Injection, FS_CardinalityType
<1>6. QED
  BY <1>1, <1>2, <1>5, Shapes DEF Total

\* A tick ages a request and its entry alike.
LEMMA TickHolds ==
  ASSUME TypeInv, NEW w \in Workers, NEW f, Holds(f, own[w], bucket[w]), Tick
  PROVE  \E g : Holds(g, own'[w], bucket'[w])
<1> DEFINE g == [r \in Requests(own'[w]) |-> f[Earlier(r)]]
<1>1. own'[w] = Aged(own[w]) /\ own[w] \in [0..Window -> Nat]
  BY Shapes DEF Tick, TypeInv
<1>2. \A r \in Requests(own'[w]) :
         r[1] \in 1..Window /\ r = <<r[1], r[2]>> /\ Earlier(r) \in Requests(own[w])
  BY <1>1, AgedRequests, Shapes
<1>3. bucket'[w] = [i \in DOMAIN bucket[w] |-> Older(bucket[w][i])]
  BY DEF Tick
<1>4. g \in [Requests(own'[w]) -> DOMAIN bucket'[w]]
  BY <1>2, <1>3 DEF Holds
<1>5. ASSUME NEW r \in Requests(own'[w]), NEW q \in Requests(own'[w]), g[r] = g[q]
      PROVE  r = q
  <2>1. Earlier(r) = Earlier(q)
    BY <1>2, <1>5 DEF Holds
  <2>2. r[1] - 1 = q[1] - 1 /\ r[2] = q[2]
    BY <2>1 DEF Earlier
  <2>3. r[1] \in Int /\ q[1] \in Int /\ r = <<r[1], r[2]>> /\ q = <<q[1], q[2]>>
    BY <1>2
  <2>4. QED
    BY <2>2, <2>3
<1>6. ASSUME NEW r \in Requests(own'[w]) PROVE bucket'[w][g[r]] = r[1]
  <2>1. bucket[w][f[Earlier(r)]] = r[1] - 1
    BY <1>2 DEF Holds, Earlier
  <2>2. g[r] \in DOMAIN bucket[w] /\ bucket'[w][g[r]] = Older(r[1] - 1)
    BY <1>2, <1>3, <2>1 DEF Holds
  <2>3. r[1] \in 1..Window
    BY <1>2
  <2>4. QED
    BY <2>2, <2>3, Shapes DEF Older
<1>7. Holds(g, own'[w], bucket'[w])
  BY <1>4, <1>5, <1>6 DEF Holds
<1>8. QED
  BY <1>7

\* What leaves the bucket has left the window; what enters is counted last.
LEMMA MemoryHolds ==
  ASSUME TypeInv, NEW w \in Workers, NEW f, Holds(f, own[w], bucket[w]), MemoryRateLimit(w)
  PROVE  \E g : Holds(g, own'[w], bucket'[w])
<1>1. PICK n \in 0..Len(bucket[w]) :
        /\ Outdated(bucket[w], n)
        /\ LET kept == SubSeq(bucket[w], n + 1, Len(bucket[w])) IN
              IF Full(kept)
              THEN /\ bucket' = [bucket EXCEPT ![w] = kept]
                   /\ last' = "refused" /\ UNCHANGED own
              ELSE /\ bucket' = [bucket EXCEPT ![w] = Append(kept, 0)]
                   /\ own' = [own EXCEPT ![w] = Noted(own[w])]
                   /\ last' = "passed"
  BY DEF MemoryRateLimit
<1> DEFINE kept == SubSeq(bucket[w], n + 1, Len(bucket[w]))
           left == Requests(own[w])
           new  == <<0, own[w][0] + 1>>
<1>2. /\ kept \in Seq(Entry) /\ Len(kept) = Len(bucket[w]) - n
      /\ \A i \in 1..Len(kept) : kept[i] = bucket[w][i + n]
      /\ Append(kept, 0) \in Seq(Entry) /\ Len(Append(kept, 0)) = Len(kept) + 1
      /\ \A i \in 1..Len(kept) : Append(kept, 0)[i] = kept[i]
      /\ Append(kept, 0)[Len(kept) + 1] = 0
  BY BucketTypes
<1>3. bucket[w] \in Seq(Entry) /\ own[w] \in [0..Window -> Nat]
  BY Shapes DEF TypeInv
<1> HIDE DEF kept
<1>4. ASSUME NEW r \in left
      PROVE  f[r] - n \in 1..Len(kept) /\ kept[f[r] - n] = r[1]
  <2>1. f[r] \in 1..Len(bucket[w]) /\ bucket[w][f[r]] = r[1]
    BY <1>3 DEF Holds
  <2>2. r[1] \in 0..Window
    <3>1. PICK a \in DOMAIN own[w] : \E k \in 1..own[w][a] : r = <<a, k>>
      BY InRequests
    <3>2. PICK k \in 1..own[w][a] : r = <<a, k>>
      BY <3>1
    <3>3. QED
      BY <1>3, <3>2
  <2>3. Recent(bucket[w][f[r]])
    BY <2>1, <2>2, Shapes DEF Recent
  <2>4. f[r] \notin 1..n
    BY <1>1, <2>3 DEF Outdated
  <2>5. Len(bucket[w]) \in Nat
    BY <1>3
  <2>6. f[r] - n \in 1..Len(kept)
    BY <1>2, <2>1, <2>4, <2>5
  <2>7. f[r] - n + n = f[r]
    BY <2>1
  <2>8. QED
    BY <1>2, <2>1, <2>6, <2>7
<1>5. ASSUME NEW r \in left, NEW q \in left, f[r] - n = f[q] - n PROVE r = q
  <2>1. f[r] \in Int /\ f[q] \in Int
    BY <1>3 DEF Holds
  <2>2. f[r] = f[q]
    BY <1>5, <2>1
  <2>3. QED
    BY <2>2 DEF Holds
<1>6. CASE Full(kept)
  <2> DEFINE g == [r \in left |-> f[r] - n]
  <2>1. bucket'[w] = kept /\ own'[w] = own[w]
    BY <1>1, <1>6 DEF kept, TypeInv
  <2>2. DOMAIN kept = 1..Len(kept)
    BY <1>2
  <2>3. Holds(g, own'[w], bucket'[w])
    BY <1>4, <1>5, <2>1, <2>2 DEF Holds
  <2>4. QED
    BY <2>3
<1>7. CASE ~Full(kept)
  <2> DEFINE g == [r \in left \cup {new} |-> IF r = new THEN Len(kept) + 1 ELSE f[r] - n]
  <2>1. bucket'[w] = Append(kept, 0) /\ own'[w] = Noted(own[w])
    BY <1>1, <1>7 DEF kept, TypeInv
  <2>2. Requests(own'[w]) = left \cup {new} /\ new \notin left
    BY <1>3, <2>1, NotedRequests, Shapes
  <2>3. Len(kept) \in Nat /\ DOMAIN bucket'[w] = 1..(Len(kept) + 1)
    BY <1>2, <2>1
  <2>4. g[new] = Len(kept) + 1 /\ \A r \in left : g[r] = f[r] - n
    BY <2>2
  <2> HIDE DEF left, new
  <2>5. \A r \in left \cup {new} : g[r] \in 1..(Len(kept) + 1)
    BY <1>4, <2>3, <2>4
  <2>6. g \in [Requests(own'[w]) -> DOMAIN bucket'[w]]
    BY <2>2, <2>3, <2>5
  <2>7. ASSUME NEW r \in left \cup {new}, NEW q \in left \cup {new}, g[r] = g[q]
        PROVE  r = q
    <3>1. \A p \in left : g[p] # Len(kept) + 1
      BY <1>4, <2>3, <2>4
    <3>2. CASE r \in left /\ q \in left
      BY <1>5, <2>4, <2>7, <3>2
    <3>3. QED
      BY <2>4, <2>7, <3>1, <3>2
  <2>8. ASSUME NEW r \in left \cup {new} PROVE bucket'[w][g[r]] = r[1]
    <3>1. CASE r \in left
      BY <1>2, <1>4, <2>1, <2>4, <3>1
    <3>2. CASE r = new
      BY <1>2, <2>1, <2>4, <3>2 DEF new
    <3>3. QED
      BY <3>1, <3>2
  <2>9. Holds(g, own'[w], bucket'[w])
    BY <2>2, <2>6, <2>7, <2>8 DEF Holds
  <2>10. QED
    BY <2>9
<1>8. QED
  BY <1>6, <1>7

LEMMA RememberedInit == Init => Remembered
BY NothingHeld DEF Init, Remembered

LEMMA RememberedNext == TypeInv /\ Remembered /\ [Next]_vars => Remembered'
<1> SUFFICES ASSUME TypeInv, Remembered, [Next]_vars, NEW w \in Workers
             PROVE  \E g : Holds(g, own'[w], bucket'[w])
  BY DEF Remembered
<1>0. PICK f : Holds(f, own[w], bucket[w])
  BY DEF Remembered
<1>1. CASE own'[w] = own[w] /\ bucket'[w] = bucket[w]
  BY <1>0, <1>1 DEF Holds
<1>2. CASE Tick
  BY <1>0, <1>2, TickHolds
<1>3. ASSUME NEW v \in Workers, MemoryRateLimit(v) PROVE \E g : Holds(g, own'[w], bucket'[w])
  <2>1. CASE v = w
    BY <1>0, <1>3, <2>1, MemoryHolds
  <2>2. CASE v # w
    BY <1>1, <1>3, <2>2 DEF MemoryRateLimit, TypeInv
  <2>3. QED
    BY <2>1, <2>2
<1>4. ASSUME NEW v \in Workers, Crash(v) PROVE \E g : Holds(g, own'[w], bucket'[w])
  <2>1. CASE v = w
    <3>1. own'[w] = Never(Ages)
      BY <1>4, <2>1 DEF Crash, TypeInv
    <3>2. QED
      BY <3>1, NothingHeld
  <2>2. CASE v # w
    BY <1>1, <1>4, <2>2 DEF Crash, TypeInv
  <2>3. QED
    BY <2>1, <2>2
<1>5. ASSUME NEW v \in Workers, Ask(v) \/ Count(v) \/ Expire(v) \/ RedisFails(v)
      PROVE  \E g : Holds(g, own'[w], bucket'[w])
  BY <1>1, <1>5 DEF Ask, Count, Expire, RedisFails, Verdict, passed
<1>6. CASE UNCHANGED vars
  BY <1>1, <1>6 DEF vars, passed
<1>7. QED
  BY <1>2, <1>3, <1>4, <1>5, <1>6 DEF Next, Serve
-----------------------------------------------------------------------------
(* The windows of Redis                                                    *)

Since(history, age)  == {r \in Requests(history) : r[1] <= age}
Before(history, age) == {r \in Requests(history) : r[1] > age}

\* About to set the expiry and to pass.
Waiting == {w \in Workers : pc[w] = "expire" /\ got[w] <= Limit}

\* Of the window that runs, what passed and what is about to pass was counted;
\* the rest of what passed belongs to the window before. Without an expiry no
\* window runs: nothing of it has passed yet, and nothing at all in this tick.
Running ==
    ttl > 0 =>
      /\ Cardinality(Since(shared, Window - ttl)) + Cardinality(Waiting) <= count
      /\ Cardinality(Since(shared, Window - ttl)) + Cardinality(Waiting) <= Limit
      /\ Cardinality(Before(shared, Window - ttl)) <= Limit

Pausing ==
    ttl = 0 =>
      /\ Total(shared) <= Limit /\ shared[0] = 0
      /\ Cardinality(Waiting) <= count /\ Cardinality(Waiting) <= Limit

WindowInv == Running /\ Pausing /\ (~Calm => ttl \in {0, Window})

\* All that the window invariant counts is finite.
LEMMA Finite ==
  ASSUME NEW h \in [Younger -> Nat], NEW e
  PROVE  /\ IsFiniteSet(Requests(h)) /\ Total(h) \in Nat
         /\ IsFiniteSet(Since(h, e)) /\ Cardinality(Since(h, e)) \in Nat
         /\ IsFiniteSet(Before(h, e)) /\ Cardinality(Before(h, e)) \in Nat
         /\ Cardinality(Before(h, e)) <= Total(h)
<1>1. IsFiniteSet(Requests(h))
  BY Shapes, RequestsFinite
<1>2. Since(h, e) \in SUBSET Requests(h) /\ Before(h, e) \in SUBSET Requests(h)
  BY DEF Since, Before
<1>3. IsFiniteSet(Since(h, e))
  BY <1>1, <1>2, FS_Subset
<1>4. IsFiniteSet(Before(h, e)) /\ Cardinality(Before(h, e)) <= Total(h)
  BY <1>1, <1>2, FS_Subset DEF Total
<1>5. QED
  BY <1>1, <1>3, <1>4, FS_CardinalityType DEF Total

LEMMA FiniteWaiting == IsFiniteSet(Waiting) /\ Cardinality(Waiting) \in Nat
<1>1. Waiting \in SUBSET Workers
  BY DEF Waiting
<1>2. QED
  BY <1>1, FS_Subset, FS_CardinalityType, ConstantsAssumption

\* The age of a request is one of the history's.
LEMMA AgeOf ==
  ASSUME NEW h \in [Younger -> Nat], NEW r \in Requests(h)
  PROVE  r[1] \in Younger /\ r[2] \in 1..h[r[1]]
<1>1. PICK a \in Younger : \E k \in 1..h[a] : r = <<a, k>>
  BY InRequests
<1>2. PICK k \in 1..h[a] : r = <<a, k>>
  BY <1>1
<1>3. QED
  BY <1>2

\* The requests that passed are those of either side of an age.
LEMMA TwoSides ==
  ASSUME NEW h \in [Younger -> Nat], NEW e \in Int
  PROVE  Total(h) = Cardinality(Since(h, e)) + Cardinality(Before(h, e))
<1>1. \A r \in Requests(h) : r[1] \in Int
  BY AgeOf, Shapes
<1>2. Requests(h) = Since(h, e) \cup Before(h, e) /\ Since(h, e) \cap Before(h, e) = {}
  BY <1>1 DEF Since, Before
<1>3. Cardinality(Since(h, e) \cap Before(h, e)) = 0
  BY <1>2, FS_EmptySet
<1>4. /\ IsFiniteSet(Since(h, e)) /\ Cardinality(Since(h, e)) \in Nat
      /\ IsFiniteSet(Before(h, e)) /\ Cardinality(Before(h, e)) \in Nat
  BY Finite
<1>5. /\ Cardinality(Requests(h)) = Cardinality(Since(h, e) \cup Before(h, e))
      /\ Cardinality(Since(h, e) \cup Before(h, e))
           = Cardinality(Since(h, e)) + Cardinality(Before(h, e))
             - Cardinality(Since(h, e) \cap Before(h, e))
  BY <1>2, <1>4, FS_Union
<1>6. QED
  BY <1>3, <1>4, <1>5 DEF Total

LEMMA WindowsKeepLimit == TypeInv /\ WindowInv => Total(shared) <= 2 * Limit
<1> SUFFICES ASSUME TypeInv, WindowInv PROVE Total(shared) <= 2 * Limit
  OBVIOUS
<1>1. shared \in [Younger -> Nat] /\ ttl \in 0..Window
  BY Shapes DEF TypeInv
<1>2. CASE ttl = 0
  <2>1. Total(shared) <= Limit /\ Total(shared) \in Nat
    BY <1>1, <1>2, Finite DEF WindowInv, Pausing
  <2>2. QED
    BY <2>1, Shapes
<1>3. CASE ttl > 0
  <2> DEFINE e == Window - ttl
  <2>1. Total(shared) = Cardinality(Since(shared, e)) + Cardinality(Before(shared, e))
    BY <1>1, TwoSides, Shapes
  <2>2. Cardinality(Since(shared, e)) \in Nat /\ Cardinality(Before(shared, e)) \in Nat
    BY <1>1, Finite
  <2>3. /\ Cardinality(Since(shared, e)) + Cardinality(Waiting) <= Limit
        /\ Cardinality(Before(shared, e)) <= Limit
    BY <1>3 DEF WindowInv, Running
  <2>4. QED
    BY <2>1, <2>2, <2>3, FiniteWaiting, Shapes
<1>4. QED
  BY <1>1, <1>2, <1>3

\* Where nothing passed in this tick, nothing did since it began.
LEMMA NothingSince ==
  ASSUME NEW h \in [Younger -> Nat], h[0] = 0
  PROVE  Since(h, 0) = {}
<1>1. ASSUME NEW r \in Requests(h), r[1] <= 0 PROVE FALSE
  <2>1. r[1] = 0
    BY <1>1, AgeOf, Shapes
  <2>2. QED
    BY <2>1, AgeOf
<1>2. QED
  BY <1>1 DEF Since

\* One more that passes is one more of the window that runs.
LEMMA NotedWindow ==
  ASSUME NEW h \in [Younger -> Nat], NEW e \in Nat
  PROVE  /\ Cardinality(Since(Noted(h), e)) = Cardinality(Since(h, e)) + 1
         /\ Before(Noted(h), e) = Before(h, e)
<1> DEFINE new == <<0, h[0] + 1>>
<1>1. Requests(Noted(h)) = Requests(h) \cup {new} /\ new \notin Requests(h)
  BY NotedRequests, Shapes
<1>2. /\ Since(Noted(h), e) = Since(h, e) \cup {new} /\ new \notin Since(h, e)
      /\ Before(Noted(h), e) = Before(h, e)
  BY <1>1 DEF Since, Before
<1>3. IsFiniteSet(Since(h, e))
  BY Finite
<1>4. QED
  BY <1>2, <1>3, FS_AddElement

\* A tick later the window that runs is a tick longer, and holds no more.
LEMMA AgedWindow ==
  ASSUME NEW h \in [Younger -> Nat], NEW e \in Nat
  PROVE  /\ Cardinality(Since(Aged(h), e + 1)) <= Cardinality(Since(h, e))
         /\ Cardinality(Before(Aged(h), e + 1)) <= Cardinality(Before(h, e))
         /\ Total(Aged(h)) <= Total(h) /\ Aged(h)[0] = 0
         /\ Aged(h) \in [Younger -> Nat]
<1>1. /\ Aged(h)[0] = 0 /\ Aged(h) \in [Younger -> Nat]
      /\ \A r \in Requests(Aged(h)) : r[1] \in Int /\ Earlier(r) \in Requests(h)
  BY AgedRequests, Shapes
<1>2. Cardinality(Since(Aged(h), e + 1)) <= Cardinality(Since(h, e))
  <2>1. Since(Aged(h), e + 1) \in SUBSET Requests(Aged(h)) /\ Since(h, e) \in SUBSET Requests(h)
    BY DEF Since
  <2>2. ASSUME NEW q \in Since(Aged(h), e + 1) PROVE Earlier(q) \in Since(h, e)
    BY <1>1 DEF Since, Earlier
  <2>3. QED
    BY <2>1, <2>2, AgedFewer, Shapes
<1>3. Cardinality(Before(Aged(h), e + 1)) <= Cardinality(Before(h, e))
  <2>1. Before(Aged(h), e + 1) \in SUBSET Requests(Aged(h)) /\ Before(h, e) \in SUBSET Requests(h)
    BY DEF Before
  <2>2. ASSUME NEW q \in Before(Aged(h), e + 1) PROVE Earlier(q) \in Before(h, e)
    BY <1>1 DEF Before, Earlier
  <2>3. QED
    BY <2>1, <2>2, AgedFewer, Shapes
<1>4. Total(Aged(h)) <= Total(h)
  BY <1>1, AgedFewer, Shapes DEF Total
<1>5. QED
  BY <1>1, <1>2, <1>3, <1>4
\* The two ways of the verdict, seen from the window that runs.
LEMMA VerdictWindow ==
  ASSUME TypeInv, NEW w \in Workers, NEW n \in Nat, Verdict(w, n), NEW e \in Nat
  PROVE  /\ Before(shared', e) = Before(shared, e)
         /\ n <= Limit => Cardinality(Since(shared', e)) = Cardinality(Since(shared, e)) + 1
         /\ n > Limit => Since(shared', e) = Since(shared, e)
<1>1. shared \in [Younger -> Nat]
  BY DEF TypeInv
<1>2. CASE n <= Limit
  <2>1. shared' = Noted(shared)
    BY <1>2 DEF Verdict, Within
  <2>2. QED
    BY <1>1, <1>2, <2>1, NotedWindow, Shapes
<1>3. CASE n > Limit
  <2>1. shared' = shared
    BY <1>3, Shapes DEF Verdict, Within
  <2>2. QED
    BY <1>3, <2>1, Shapes
<1>4. QED
  BY <1>2, <1>3, Shapes

\* A worker that goes anywhere but to the expiry no longer waits.
LEMMA WaitingLess ==
  ASSUME TypeInv, NEW w \in Workers, NEW place, place # "expire",
         pc' = [pc EXCEPT ![w] = place], got' = [got EXCEPT ![w] = 0]
  PROVE  /\ Waiting' = Waiting \ {w}
         /\ Cardinality(Waiting') <= Cardinality(Waiting)
         /\ w \in Waiting => Cardinality(Waiting') = Cardinality(Waiting) - 1
<1>1. Waiting' = Waiting \ {w}
  BY DEF Waiting, TypeInv
<1>2. IsFiniteSet(Waiting) /\ Cardinality(Waiting) \in Nat
  BY FiniteWaiting
<1>3. Cardinality(Waiting \ {w}) = IF w \in Waiting THEN Cardinality(Waiting) - 1
                                                   ELSE Cardinality(Waiting)
  BY <1>2, FS_RemoveElement
<1>4. QED
  BY <1>1, <1>2, <1>3

\* Steps that let nothing through and start or end no window.
LEMMA WindowStays ==
  ASSUME TypeInv, WindowInv, UNCHANGED <<shared, ttl>>, count' \in Nat, count' >= count,
         Cardinality(Waiting') \in Nat, Cardinality(Waiting') <= Cardinality(Waiting),
         Calm => Calm'
  PROVE  WindowInv'
<1>1. /\ Cardinality(Waiting) \in Nat /\ count \in Nat /\ Limit \in Nat
      /\ shared \in [Younger -> Nat]
  BY FiniteWaiting, Shapes DEF TypeInv
<1>2. Running'
  <2>1. Cardinality(Since(shared, Window - ttl)) \in Nat
    BY <1>1, Finite
  <2>2. QED
    BY <1>1, <2>1 DEF WindowInv, Running
<1>3. Pausing'
  BY <1>1 DEF WindowInv, Pausing
<1>4. QED
  BY <1>2, <1>3 DEF WindowInv

LEMMA WindowInit == Init => WindowInv
<1> SUFFICES ASSUME Init PROVE WindowInv
  OBVIOUS
<1>1. Requests(shared) = {}
  <2>1. ASSUME NEW r \in Requests(shared) PROVE FALSE
    <3>1. PICK a \in Younger : \E k \in 1..shared[a] : r = <<a, k>>
      BY <2>1, InRequests DEF Init, Never
    <3>2. shared[a] = 0
      BY DEF Init, Never
    <3>3. QED
      BY <3>1, <3>2
  <2>2. QED
    BY <2>1
<1>2. Waiting = {}
  BY DEF Init, Waiting
<1>3. Total(shared) = 0 /\ Cardinality(Waiting) = 0
  BY <1>1, <1>2, FS_EmptySet DEF Total
<1>4. shared[0] = 0
  BY Shapes DEF Init, Never
<1>5. Calm
  BY DEF Init, Calm
<1>6. QED
  BY <1>3, <1>4, <1>5, Shapes DEF Init, WindowInv, Running, Pausing

\* Time passes only while nobody waits: the window that runs goes on or ends,
\* and ends only when all that passed is its own.
LEMMA WindowTick ==
  ASSUME TypeInv, WindowInv, Tick
  PROVE  WindowInv'
<1>1. Waiting' = {} /\ Waiting = {} /\ Calm'
  BY DEF Tick, Calm, Waiting
<1>2. Cardinality(Waiting') = 0 /\ Cardinality(Waiting) = 0
  BY <1>1, FS_EmptySet
<1>3. /\ shared' = Aged(shared) /\ shared \in [Younger -> Nat]
      /\ ttl \in 0..Window /\ count \in Nat /\ Limit \in Nat
  BY Shapes DEF Tick, TypeInv
<1>4. CASE ttl > 1
  <2> DEFINE e == Window - ttl
  <2>1. /\ e \in Nat /\ ttl' = ttl - 1 /\ Window - ttl' = e + 1
        /\ count' = count /\ ttl' # 0
    BY <1>3, <1>4, Shapes DEF Tick
  <2>2. /\ Cardinality(Since(shared, e)) + 0 <= count
        /\ Cardinality(Since(shared, e)) + 0 <= Limit
        /\ Cardinality(Before(shared, e)) <= Limit
    BY <1>2, <1>3, <1>4 DEF WindowInv, Running
  <2> HIDE DEF e
  <2>3. /\ Cardinality(Since(shared', e + 1)) <= Cardinality(Since(shared, e))
        /\ Cardinality(Before(shared', e + 1)) <= Cardinality(Before(shared, e))
        /\ shared' \in [Younger -> Nat]
    BY <1>3, <2>1, AgedWindow
  <2>4. /\ Cardinality(Since(shared, e)) \in Nat /\ Cardinality(Before(shared, e)) \in Nat
        /\ Cardinality(Since(shared', e + 1)) \in Nat /\ Cardinality(Before(shared', e + 1)) \in Nat
    BY <1>3, <2>3, Finite
  <2>5. /\ Cardinality(Since(shared', e + 1)) + 0 <= count
        /\ Cardinality(Since(shared', e + 1)) + 0 <= Limit
        /\ Cardinality(Before(shared', e + 1)) <= Limit
    BY <1>3, <2>2, <2>3, <2>4
  <2>6. Running'
    BY <1>2, <2>1, <2>5 DEF Running
  <2>7. QED
    BY <1>1, <2>1, <2>6 DEF WindowInv, Pausing
<1>5. CASE ttl <= 1
  <2>1. ttl' = 0 /\ count' \in Nat
    BY <1>3, <1>5 DEF Tick
  <2>2. /\ Total(shared') <= Total(shared) /\ shared'[0] = 0
        /\ shared' \in [Younger -> Nat]
    <3>1. 0 \in Nat
      OBVIOUS
    <3>2. QED
      BY <1>3, <3>1, AgedWindow
  <2>3. Total(shared) <= Limit
    <3>1. CASE ttl = 0
      BY <3>1 DEF WindowInv, Pausing
    <3>2. CASE ttl = 1
      <4>1. Before(shared, Window - 1) = {}
        BY <1>3, AgeOf, Shapes DEF Before
      <4>2. Cardinality(Before(shared, Window - 1)) = 0
        BY <4>1, FS_EmptySet
      <4>3. Total(shared) = Cardinality(Since(shared, Window - 1)) + 0
        BY <1>3, <4>2, TwoSides, Shapes
      <4>4. Cardinality(Since(shared, Window - 1)) + 0 <= Limit
        BY <1>2, <3>2 DEF WindowInv, Running
      <4>5. QED
        BY <4>3, <4>4
    <3>3. QED
      BY <1>3, <1>5, <3>1, <3>2
  <2>4. Total(shared') \in Nat /\ Total(shared) \in Nat
    BY <1>3, <2>2, Finite
  <2>5. Total(shared') <= Limit
    BY <1>3, <2>2, <2>3, <2>4
  <2>6. Pausing'
    BY <1>2, <1>3, <2>1, <2>2, <2>5 DEF Pausing
  <2>7. QED
    BY <1>1, <2>1, <2>6 DEF WindowInv, Running
<1>6. QED
  BY <1>3, <1>4, <1>5

\* A request that finds a window running is counted into it; one that does not
\* waits for the expiry.
LEMMA WindowCount ==
  ASSUME TypeInv, WindowInv, NEW w \in Workers, Count(w)
  PROVE  WindowInv'
<1>1. /\ count \in 0..(Limit + 1) /\ ttl \in 0..Window /\ shared \in [Younger -> Nat]
      /\ Limit \in Nat /\ Window \in Nat /\ pc[w] = "redis" /\ ttl' = ttl /\ count' = Counted
  BY Shapes DEF Count, TypeInv
<1>2. /\ Counted \in Nat /\ count' >= count
      /\ Counted <= Limit => count' = count + 1 /\ count + 1 <= Limit
  BY <1>1 DEF Counted
<1>3. Cardinality(Waiting) \in Nat /\ IsFiniteSet(Waiting) /\ w \notin Waiting
  BY <1>1, FiniteWaiting DEF Waiting
<1>4. CASE Unbounded
  <2>1. ttl = 0 /\ shared' = shared
    BY <1>4 DEF Count, Unbounded, passed
  <2>2. Waiting' = IF Counted <= Limit THEN Waiting \cup {w} ELSE Waiting
    BY <1>1, <1>4 DEF Count, GoTo, Waiting, TypeInv
  <2>3. Cardinality(Waiting') = IF Counted <= Limit THEN Cardinality(Waiting) + 1
                                                   ELSE Cardinality(Waiting)
    BY <1>3, <2>2, FS_AddElement
  <2>4. /\ Total(shared) <= Limit /\ shared[0] = 0
        /\ Cardinality(Waiting) <= count /\ Cardinality(Waiting) <= Limit
    BY <2>1 DEF WindowInv, Pausing
  <2>5. Cardinality(Waiting') <= count' /\ Cardinality(Waiting') <= Limit
    BY <1>1, <1>2, <1>3, <2>3, <2>4
  <2>6. Pausing'
    BY <2>1, <2>4, <2>5 DEF Pausing
  <2>7. QED
    BY <1>1, <2>1, <2>6 DEF WindowInv, Running
<1>5. CASE ~Unbounded
  <2> DEFINE e == Window - ttl
  <2>1. ttl > 0 /\ ttl' > 0 /\ e \in Nat /\ Verdict(w, Counted)
    BY <1>1, <1>5 DEF Count, Unbounded
  <2>2. pc' = [pc EXCEPT ![w] = "idle"] /\ got' = [got EXCEPT ![w] = 0]
    BY <2>1 DEF Verdict, GoTo
  <2>3. Waiting' = Waiting
    BY <1>3, <2>2, WaitingLess
  <2>4. /\ Cardinality(Since(shared, e)) + Cardinality(Waiting) <= count
        /\ Cardinality(Since(shared, e)) + Cardinality(Waiting) <= Limit
        /\ Cardinality(Before(shared, e)) <= Limit
    BY <2>1 DEF WindowInv, Running
  <2>5. /\ Before(shared', e) = Before(shared, e)
        /\ Counted <= Limit => Cardinality(Since(shared', e)) = Cardinality(Since(shared, e)) + 1
        /\ Counted > Limit => Since(shared', e) = Since(shared, e)
    BY <1>2, <2>1, VerdictWindow
  <2>6. Cardinality(Since(shared, e)) \in Nat
    BY <1>1, Finite
  <2>7. Window - ttl' = e
    BY <1>1
  <2> HIDE DEF e
  <2>8. Running'
    BY <1>1, <1>2, <1>3, <2>3, <2>4, <2>5, <2>6, <2>7 DEF Running
  <2>9. ~Calm' => ttl' \in {0, Window}
    BY <1>1, <2>2 DEF Calm, WindowInv, TypeInv
  <2>10. QED
    BY <2>1, <2>8, <2>9 DEF WindowInv, Pausing
<1>6. QED
  BY <1>4, <1>5

\* A window begins, in the tick in which nothing has passed yet, or has just
\* begun with somebody else's expiry; whoever waited is now counted in it.
LEMMA WindowBegins ==
  ASSUME TypeInv, WindowInv, ttl \in {0, Window}
  PROVE  /\ Cardinality(Since(shared, 0)) + Cardinality(Waiting) <= count
         /\ Cardinality(Since(shared, 0)) + Cardinality(Waiting) <= Limit
         /\ Cardinality(Before(shared, 0)) <= Limit
         /\ shared \in [Younger -> Nat]
<1>1. shared \in [Younger -> Nat] /\ count \in Nat /\ Cardinality(Waiting) \in Nat
  BY FiniteWaiting DEF TypeInv
<1>2. CASE ttl = 0
  <2>1. Since(shared, 0) = {} /\ Cardinality(Since(shared, 0)) = 0
    BY <1>1, <1>2, NothingSince, FS_EmptySet DEF WindowInv, Pausing
  <2>2. Cardinality(Before(shared, 0)) \in Nat /\ Total(shared) \in Nat
        /\ Cardinality(Before(shared, 0)) <= Total(shared)
    BY <1>1, Finite
  <2>3. QED
    BY <1>1, <1>2, <2>1, <2>2, Shapes DEF WindowInv, Pausing
<1>3. CASE ttl = Window
  BY <1>1, <1>3, Shapes DEF WindowInv, Running
<1>4. QED
  BY <1>2, <1>3

LEMMA WindowExpire ==
  ASSUME TypeInv, WindowInv, NEW w \in Workers, Expire(w)
  PROVE  WindowInv'
<1>1. pc[w] = "expire" /\ ttl' = Window /\ count' = count /\ Verdict(w, got[w]) /\ got[w] \in Nat
  BY Shapes DEF Expire, TypeInv
<1>2. ttl \in {0, Window}
  BY <1>1 DEF WindowInv, Calm
<1>3. pc' = [pc EXCEPT ![w] = "idle"] /\ got' = [got EXCEPT ![w] = 0]
  BY <1>1 DEF Verdict, GoTo
<1>4. /\ Waiting' = Waiting \ {w}
      /\ w \in Waiting => Cardinality(Waiting') = Cardinality(Waiting) - 1
  BY <1>3, WaitingLess
<1>5. /\ Before(shared', 0) = Before(shared, 0)
      /\ got[w] <= Limit => Cardinality(Since(shared', 0)) = Cardinality(Since(shared, 0)) + 1
      /\ got[w] > Limit => Since(shared', 0) = Since(shared, 0)
  <2>1. 0 \in Nat
    OBVIOUS
  <2>2. QED
    BY <1>1, <2>1, VerdictWindow
<1>6. w \in Waiting <=> got[w] <= Limit
  BY <1>1 DEF Waiting
<1>7. /\ Cardinality(Since(shared, 0)) \in Nat /\ Cardinality(Waiting) \in Nat
      /\ count \in Nat
  <2>1. shared \in [Younger -> Nat] /\ count \in Nat
    BY DEF TypeInv
  <2>2. Cardinality(Since(shared, 0)) \in Nat
    BY <2>1, Finite
  <2>3. QED
    BY <2>1, <2>2, FiniteWaiting
<1>8. /\ Cardinality(Since(shared', 0)) + Cardinality(Waiting')
           = Cardinality(Since(shared, 0)) + Cardinality(Waiting)
  <2>1. CASE got[w] <= Limit
    BY <1>4, <1>5, <1>6, <1>7, <2>1
  <2>2. CASE got[w] > Limit
    <3>1. w \notin Waiting
      BY <1>1, <1>6, <2>2, Shapes
    <3>2. Waiting' = Waiting
      BY <1>4, <3>1
    <3>3. QED
      BY <1>5, <2>2, <3>2
  <2>3. QED
    BY <1>1, <2>1, <2>2, Shapes
<1>9. Running'
  <2>1. Window - ttl' = 0
    BY <1>1, Shapes
  <2>2. QED
    BY <1>1, <1>2, <1>5, <1>8, <2>1, WindowBegins DEF Running
<1>10. QED
  BY <1>1, <1>9, Shapes DEF WindowInv, Pausing

LEMMA WindowFails ==
  ASSUME TypeInv, WindowInv, NEW w \in Workers, RedisFails(w)
  PROVE  WindowInv'
<1>1. /\ pc' = [pc EXCEPT ![w] = "memory"] /\ got' = [got EXCEPT ![w] = 0]
      /\ shared' = shared
  BY DEF RedisFails, GoTo, passed
<1>2. /\ Cardinality(Waiting') <= Cardinality(Waiting)
      /\ Cardinality(Waiting) \in Nat /\ Cardinality(Waiting') \in Nat
  <2>1. Waiting' = Waiting \ {w} /\ Cardinality(Waiting') <= Cardinality(Waiting)
    BY <1>1, WaitingLess
  <2>2. QED
    BY <2>1, FiniteWaiting, FS_RemoveElement, FS_CardinalityType
<1>3. Calm => Calm'
  BY <1>1 DEF Calm, TypeInv
<1>4. CASE pc[w] = "redis" /\ count' \in {count, Counted} /\ UNCHANGED ttl
  <2>1. count' \in Nat /\ count' >= count
    BY <1>4, Shapes DEF Counted, TypeInv
  <2>2. QED
    BY <1>1, <1>2, <1>3, <1>4, <2>1, WindowStays
<1>5. CASE pc[w] = "expire" /\ ttl' \in {ttl, Window} /\ UNCHANGED count
  <2>1. ttl \in {0, Window} /\ count \in Nat
    BY <1>5 DEF WindowInv, Calm, TypeInv
  <2>2. CASE ttl' = ttl
    BY <1>1, <1>2, <1>3, <1>5, <2>1, <2>2, WindowStays
  <2>3. CASE ttl' = Window
    <3>1. /\ Cardinality(Since(shared, 0)) + Cardinality(Waiting) <= count
          /\ Cardinality(Since(shared, 0)) + Cardinality(Waiting) <= Limit
          /\ Cardinality(Before(shared, 0)) <= Limit
          /\ Cardinality(Since(shared, 0)) \in Nat
      BY <2>1, WindowBegins, Finite
    <3>2. Window - ttl' = 0
      BY <2>3, Shapes
    <3>3. Running'
      BY <1>1, <1>2, <1>5, <2>1, <3>1, <3>2, Shapes DEF Running
    <3>4. QED
      BY <2>3, <3>3, Shapes DEF WindowInv, Pausing
  <2>4. QED
    BY <1>5, <2>2, <2>3
<1>6. QED
  BY <1>4, <1>5 DEF RedisFails

LEMMA WindowNext == TypeInv /\ WindowInv /\ [Next]_vars => WindowInv'
<1> SUFFICES ASSUME TypeInv, WindowInv, [Next]_vars PROVE WindowInv'
  OBVIOUS
<1>1. CASE UNCHANGED vars
  BY <1>1 DEF vars, redis, passed, WindowInv, Running, Pausing, Waiting, Calm
<1>2. CASE Tick
  BY <1>2, WindowTick
<1>3. ASSUME NEW w \in Workers, Count(w) \/ Expire(w) \/ RedisFails(w) PROVE WindowInv'
  BY <1>3, WindowCount, WindowExpire, WindowFails
<1>4. ASSUME NEW w \in Workers, Ask(w) \/ MemoryRateLimit(w) PROVE WindowInv'
  <2>1. UNCHANGED <<shared, ttl, count, got>>
    BY <1>4 DEF Ask, MemoryRateLimit, redis, passed
  <2>2. \A v \in Workers : pc'[v] = "expire" <=> pc[v] = "expire"
    BY <1>4 DEF Ask, MemoryRateLimit, GoTo, TypeInv
  <2>3. Waiting' = Waiting /\ (Calm => Calm')
    BY <2>1, <2>2 DEF Waiting, Calm
  <2>4. QED
    BY <2>1, <2>3, WindowStays, FiniteWaiting DEF TypeInv
<1>5. ASSUME NEW w \in Workers, Crash(w) PROVE WindowInv'
  <2>1. /\ pc' = [pc EXCEPT ![w] = "idle"] /\ got' = [got EXCEPT ![w] = 0]
        /\ UNCHANGED <<shared, ttl, count>>
    BY <1>5 DEF Crash, GoTo, redis
  <2>2. Waiting' = Waiting \ {w} /\ Cardinality(Waiting') <= Cardinality(Waiting)
    BY <2>1, WaitingLess
  <2>3. Cardinality(Waiting') \in Nat
    BY <2>2, FiniteWaiting, FS_RemoveElement, FS_CardinalityType
  <2>4. Calm => Calm'
    BY <2>1 DEF Calm, TypeInv
  <2>5. QED
    BY <2>1, <2>2, <2>3, <2>4, WindowStays DEF TypeInv
<1>6. QED
  BY <1>1, <1>2, <1>3, <1>4, <1>5 DEF Next, Serve

-----------------------------------------------------------------------------

\* Every variable keeps its type; in particular a bucket never holds more
\* entries than the limit, and a counter that will expire counts something.
THEOREM TypeCorrect == Spec => []TypeOK
<1>1. QED
  BY TypeInit, TypeNext, TypeInvOK, PTL DEF Spec

\* Around a boundary of its windows Redis lets through two limits within a
\* window's length, and never more, whatever is lost, dies or waits for the
\* expiry meanwhile; the memory of a worker lets through one.
THEOREM QuotaHeld == Spec => []QuotaHolds
<1>1. TypeInv /\ WindowInv /\ Remembered => QuotaHolds
  BY WindowsKeepLimit, HeldWithinLimit DEF Remembered, QuotaHolds
<1>2. QED
  BY <1>1, TypeInit, TypeNext, WindowInit, WindowNext, RememberedInit, RememberedNext,
     PTL DEF Spec

=============================================================================
