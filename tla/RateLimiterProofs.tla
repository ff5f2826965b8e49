------------------------- MODULE RateLimiterProofs --------------------------
(***************************************************************************)
(* Proofs about RateLimiter, for any threads, routes, limits and lengths   *)
(* of time: a bucket never allows more than its burst and its rate, a      *)
(* route keeps the limits it was given, and what a replaced bucket lets    *)
(* through is bounded by the number of threads.                            *)
(***************************************************************************)
EXTENDS RateLimiter, FiniteSetTheorems, TLAPS

(* What is true of a bucket at the time now: the tokens it has and has     *)
(* given out never exceed its burst and what its rate added until it was   *)
(* last refilled.                                                          *)
Good(b, now) ==
    /\ b \in BucketType
    /\ b.tokens <= b.config.burst * Unit
    /\ b.born <= b.last_refill /\ b.last_refill <= now
    /\ b.tokens + b.granted * Unit
         <= b.config.burst * Unit + b.config.rate * (b.last_refill - b.born)

IInv ==
    /\ clock \in 0..MaxTime
    /\ heap \in [Bucket -> BucketType \union {None}]
    /\ buckets \in [Route -> Bucket \union {None}]
    /\ route_configs \in [Route -> Config \union {None}]
    /\ held \in [Worker -> {Idle} \union [route : Route, bucket : Bucket]]
    /\ answer \in [Worker -> {"allowed", "refused", "pending"}]
    /\ stale \in [Route -> Nat]
    /\ Live = Bucket \intersect InUse(buckets, held)
    /\ \A i \in Live : Good(heap[i], clock)
    /\ ConfigSticks

-----------------------------------------------------------------------------
(* The arithmetic of a bucket.                                             *)
LEMMA ConfigNat ==
    ASSUME NEW c \in Config
    PROVE  c.rate \in Nat /\ c.burst \in Nat /\ c.burst * Unit \in Nat
BY RateLimiterAssumption

LEMMA Distribute ==
    ASSUME NEW r \in Nat, NEW a \in Nat, NEW b \in Nat, NEW c \in Nat,
           a <= b, b <= c
    PROVE  /\ r * (b - a) + (c - b) * r = r * (c - a)
           /\ (c - b) * r \in Nat
           /\ r * (b - a) <= r * (c - a)
OBVIOUS

LEMMA OneMore ==
    ASSUME NEW r \in Nat, NEW a \in Nat, NEW b \in Nat, a <= b
    PROVE  ((b + 1) - a) * r = (b - a) * r + r /\ (b - a) * r \in Nat
<1>1. (b + 1) - a = (b - a) + 1 /\ b - a \in Nat
  OBVIOUS
<1>2. \A n \in Nat : (n + 1) * r = n * r + r /\ n * r \in Nat
  OBVIOUS
<1> QED  BY <1>1, <1>2

LEMMA NewIsGood ==
    ASSUME NEW c \in Config, clock \in Nat
    PROVE  Good(NewBucket(c), clock)
BY ConfigNat, RateLimiterAssumption DEF Good, NewBucket, BucketType

LEMMA RefilledIsGood ==
    ASSUME NEW b, Good(b, clock), clock \in Nat
    PROVE  Good(Refilled(b), clock) /\ Refilled(b).config = b.config
<1>1. /\ b.config \in Config /\ b.tokens \in Nat /\ b.granted \in Nat
      /\ b.born \in Nat /\ b.last_refill \in Nat
  BY DEF Good, BucketType
<1> DEFINE rate == b.config.rate
           full == b.config.burst * Unit
           spent == b.granted * Unit
           added == (clock - b.last_refill) * rate
<1>2. rate \in Nat /\ full \in Nat /\ spent \in Nat
  BY <1>1, ConfigNat, RateLimiterAssumption
<1>3. /\ rate * (b.last_refill - b.born) + added = rate * (clock - b.born)
      /\ added \in Nat
  BY <1>1, <1>2, Distribute DEF Good
<1>4. b.tokens + spent <= full + rate * (b.last_refill - b.born)
  BY DEF Good
<1>5. rate * (b.last_refill - b.born) \in Int /\ rate * (clock - b.born) \in Int
  BY <1>1, <1>2
<1> DEFINE t == IF b.tokens + added > full THEN full ELSE b.tokens + added
           r == [b EXCEPT !.tokens = t, !.last_refill = clock]
<1>6. Refilled(b) = r
  BY DEF Refilled
<1> HIDE DEF added
<1>7. t \in Nat /\ t <= full /\ t <= b.tokens + added
  BY <1>1, <1>2, <1>3
<1> HIDE DEF full, rate, spent, t
<1>8. t + spent <= full + rate * (clock - b.born)
  BY <1>1, <1>2, <1>3, <1>4, <1>5, <1>7
<1>9. /\ r \in BucketType
      /\ r.tokens = t /\ r.last_refill = clock /\ r.config = b.config
      /\ r.granted = b.granted /\ r.born = b.born
  BY <1>7 DEF Good, BucketType
<1>10. b.born <= clock
  BY <1>1 DEF Good
<1> HIDE DEF r
<1> QED
  BY <1>6, <1>7, <1>8, <1>9, <1>10 DEF Good, full, rate, spent

LEMMA TakenIsGood ==
    ASSUME NEW b, Good(b, clock), b.tokens >= Unit, clock \in Nat
    PROVE  /\ Good([b EXCEPT !.tokens = @ - Unit, !.granted = @ + 1], clock)
           /\ [b EXCEPT !.tokens = @ - Unit, !.granted = @ + 1].config
                = b.config
<1> DEFINE c == [b EXCEPT !.tokens = @ - Unit, !.granted = @ + 1]
<1>1. /\ b.config \in Config /\ b.tokens \in Nat /\ b.granted \in Nat
      /\ b.born \in Nat /\ b.last_refill \in Nat
  BY DEF Good, BucketType
<1>0. b.tokens - Unit \in Nat /\ b.granted + 1 \in Nat
  BY <1>1, RateLimiterAssumption
<1>2. /\ c \in BucketType
      /\ c.tokens = b.tokens - Unit /\ c.granted = b.granted + 1
      /\ c.config = b.config /\ c.born = b.born
      /\ c.last_refill = b.last_refill
  BY <1>0 DEF Good, BucketType
<1>3. c.granted * Unit = b.granted * Unit + Unit
  BY <1>1, <1>2, RateLimiterAssumption
<1>4. b.granted * Unit \in Nat /\ Unit \in Nat
  BY <1>1, RateLimiterAssumption
<1>5. c.tokens + c.granted * Unit = b.tokens + b.granted * Unit
  BY <1>1, <1>2, <1>3, <1>4
<1>6. c.tokens <= b.config.burst * Unit
  BY <1>1, <1>2, <1>4, ConfigNat DEF Good
<1> HIDE DEF c
<1>7. Good(c, clock)
  BY <1>2, <1>5, <1>6 DEF Good
<1> QED  BY <1>2, <1>7 DEF c

LEMMA GoodLater ==
    ASSUME NEW b, NEW n \in Nat, Good(b, n)
    PROVE  Good(b, n + 1)
BY DEF Good, BucketType

(* What a good bucket has allowed is within its rate.                      *)
LEMMA GoodIsWithinRate ==
    ASSUME NEW b, NEW n \in Nat, Good(b, n)
    PROVE  b.granted * Unit
             <= b.config.burst * Unit + b.config.rate * (n - b.born)
<1>1. /\ b.config \in Config /\ b.tokens \in Nat /\ b.granted \in Nat
      /\ b.born \in Nat /\ b.last_refill \in Nat
  BY DEF Good, BucketType
<1> DEFINE rate == b.config.rate
           full == b.config.burst * Unit
           spent == b.granted * Unit
<1>2. rate \in Nat /\ full \in Nat /\ spent \in Nat
  BY <1>1, ConfigNat, RateLimiterAssumption
<1>3. rate * (b.last_refill - b.born) <= rate * (n - b.born)
  BY <1>1, <1>2, Distribute DEF Good
<1>4. rate * (b.last_refill - b.born) \in Int /\ rate * (n - b.born) \in Int
  BY <1>1, <1>2
<1>5. b.tokens + spent <= full + rate * (b.last_refill - b.born)
  BY DEF Good
<1> HIDE DEF rate, full, spent
<1>6. spent <= full + rate * (n - b.born)
  BY <1>1, <1>2, <1>3, <1>4, <1>5
<1> QED  BY <1>6 DEF rate, full, spent

-----------------------------------------------------------------------------
(* A fresh bucket is nobody's; a bucket in use exists.                     *)
LEMMA FreshFacts ==
    ASSUME HeapNotFull
    PROVE  Fresh \in Bucket /\ Fresh \notin InUse(buckets, held)
<1>1. \E i \in Bucket : i \notin InUse(buckets, held)
  BY DEF HeapNotFull
<1> QED  BY <1>1 DEF Fresh

LEMMA CollectedFacts ==
    ASSUME NEW h \in [Bucket -> BucketType \union {None}], NEW a, NEW b
    PROVE  /\ Collected(h, a, b) \in [Bucket -> BucketType \union {None}]
           /\ \A i \in Bucket : i \in InUse(a, b) =>
                Collected(h, a, b)[i] = h[i]
           /\ \A i \in Bucket : i \notin InUse(a, b) =>
                Collected(h, a, b)[i] = None
BY DEF Collected

(* The heap h is as good as what is referred to from a and b.              *)
LEMMA HeapIsGood ==
    ASSUME NEW h \in [Bucket -> BucketType \union {None}], NEW a, NEW b,
           NEW now \in Nat,
           heap' = Collected(h, a, b), a = buckets', b = held', clock' = now,
           \A i \in Bucket \intersect InUse(a, b) : Good(h[i], now)
    PROVE  /\ heap' \in [Bucket -> BucketType \union {None}]
           /\ Live' = Bucket \intersect InUse(buckets', held')
           /\ \A i \in Live' : Good(heap'[i], clock')
           /\ \A i \in Bucket \intersect InUse(a, b) : heap'[i] = h[i]
<1>1. /\ heap' \in [Bucket -> BucketType \union {None}]
      /\ \A i \in Bucket : i \in InUse(a, b) => heap'[i] = h[i]
      /\ \A i \in Bucket : i \notin InUse(a, b) => heap'[i] = None
  BY CollectedFacts
<1>2. \A i \in Bucket \intersect InUse(a, b) : heap'[i] # None
  BY <1>1, RateLimiterAssumption DEF Good
<1>3. Live' = Bucket \intersect InUse(buckets', held')
  BY <1>1, <1>2 DEF Live
<1> QED  BY <1>1, <1>3

-----------------------------------------------------------------------------
LEMMA InitIInv == Init => IInv
<1> SUFFICES ASSUME Init  PROVE IInv
  OBVIOUS
<1>1. Live = {} /\ InUse(buckets, held) \subseteq {None}
  BY DEF Init, Live, InUse, Idle
<1>2. Live = Bucket \intersect InUse(buckets, held)
  BY <1>1, RateLimiterAssumption
<1>3. ConfigSticks
  BY DEF Init, ConfigSticks
<1> QED
  BY <1>1, <1>2, <1>3, MaxTimeAssumption DEF Init, IInv

LEMMA ConfigureRouteKeepsIInv ==
    ASSUME IInv, NEW r \in Route, NEW c \in Config, ConfigureRoute(r, c)
    PROVE  IInv'
<1> DEFINE h == [heap EXCEPT ![Fresh] = NewBucket(c)]
<1>1. Fresh \in Bucket /\ Fresh \notin InUse(buckets, held)
  BY FreshFacts DEF ConfigureRoute
<1>2. clock \in Nat /\ clock' = clock
  BY MaxTimeAssumption DEF ConfigureRoute, IInv
<1>3. Good(NewBucket(c), clock) /\ NewBucket(c) \in BucketType
  BY <1>2, NewIsGood DEF Good
<1>4. /\ h \in [Bucket -> BucketType \union {None}]
      /\ h[Fresh] = NewBucket(c)
      /\ \A i \in Bucket \ {Fresh} : h[i] = heap[i]
  BY <1>1, <1>3 DEF IInv
<1> HIDE DEF h
<1>5. heap' = Collected(h, buckets', held')
  BY DEF ConfigureRoute, h
<1>6. InUse(buckets', held') \subseteq InUse(buckets, held) \union {Fresh}
  BY DEF ConfigureRoute, InUse, IInv
<1>7. \A i \in Bucket \intersect InUse(buckets', held') : Good(h[i], clock)
  BY <1>3, <1>4, <1>6 DEF IInv
<1>8. /\ heap' \in [Bucket -> BucketType \union {None}]
      /\ Live' = Bucket \intersect InUse(buckets', held')
      /\ \A i \in Live' : Good(heap'[i], clock')
      /\ \A i \in Bucket \intersect InUse(buckets', held') : heap'[i] = h[i]
  BY <1>2, <1>4, <1>5, <1>7, HeapIsGood
<1>9. ConfigSticks'
  <2> SUFFICES ASSUME NEW s \in Route, buckets'[s] # None
               PROVE  heap'[buckets'[s]].config = ConfigFor(s)'
    BY DEF ConfigSticks
  <2>1. CASE s = r
    <3>1. buckets'[s] = Fresh /\ ConfigFor(s)' = c
      BY <2>1, RateLimiterAssumption DEF ConfigureRoute, ConfigFor, IInv
    <3>2. heap'[Fresh] = NewBucket(c)
      BY <1>1, <1>4, <1>8, <3>1 DEF InUse
    <3> QED  BY <3>1, <3>2 DEF NewBucket
  <2>2. CASE s # r
    <3>1. buckets'[s] = buckets[s] /\ ConfigFor(s)' = ConfigFor(s)
      BY <2>2 DEF ConfigureRoute, ConfigFor, IInv
    <3>2. buckets[s] \in Bucket /\ buckets[s] # Fresh
      BY <1>1, <3>1 DEF IInv, InUse
    <3>3. heap'[buckets[s]] = heap[buckets[s]]
      BY <1>4, <1>8, <3>1, <3>2 DEF InUse
    <3> QED  BY <3>1, <3>3 DEF IInv, ConfigSticks
  <2> QED  BY <2>1, <2>2
<1>10. /\ buckets' \in [Route -> Bucket \union {None}]
       /\ route_configs' \in [Route -> Config \union {None}]
       /\ stale' \in [Route -> Nat]
       /\ UNCHANGED <<held, answer>>
  BY <1>1 DEF ConfigureRoute, IInv
<1> QED  BY <1>2, <1>8, <1>9, <1>10 DEF IInv

LEMMA ResetKeepsIInv ==
    ASSUME IInv, NEW r \in Route, Reset(r)
    PROVE  IInv'
<1>1. clock \in Nat /\ clock' = clock
  BY MaxTimeAssumption DEF Reset, IInv
<1>2. heap \in [Bucket -> BucketType \union {None}]
  BY DEF IInv
<1>3. heap' = Collected(heap, buckets', held')
  BY DEF Reset
<1>4. InUse(buckets', held') \subseteq InUse(buckets, held) \union {None}
  BY DEF Reset, InUse, IInv
<1>5. \A i \in Bucket \intersect InUse(buckets', held') : Good(heap[i], clock)
  BY <1>4, RateLimiterAssumption DEF IInv
<1>6. /\ heap' \in [Bucket -> BucketType \union {None}]
      /\ Live' = Bucket \intersect InUse(buckets', held')
      /\ \A i \in Live' : Good(heap'[i], clock')
      /\ \A i \in Bucket \intersect InUse(buckets', held') :
           heap'[i] = heap[i]
  BY <1>1, <1>2, <1>3, <1>5, HeapIsGood
<1>7. ConfigSticks'
  <2> SUFFICES ASSUME NEW s \in Route, buckets'[s] # None
               PROVE  heap'[buckets'[s]].config = ConfigFor(s)'
    BY DEF ConfigSticks
  <2>1. s # r /\ buckets'[s] = buckets[s] /\ ConfigFor(s)' = ConfigFor(s)
    BY DEF Reset, ConfigFor, IInv
  <2>2. buckets'[s] \in Bucket \intersect InUse(buckets', held')
    BY <2>1 DEF IInv, InUse
  <2>3. heap'[buckets[s]] = heap[buckets[s]]
    BY <1>6, <2>1, <2>2
  <2> QED  BY <2>1, <2>3 DEF IInv, ConfigSticks
<1>8. /\ buckets' \in [Route -> Bucket \union {None}]
      /\ stale' \in [Route -> Nat]
      /\ UNCHANGED <<route_configs, held, answer>>
  BY DEF Reset, IInv
<1> QED  BY <1>1, <1>6, <1>7, <1>8 DEF IInv

LEMMA FindBucketKeepsIInv ==
    ASSUME IInv, NEW w \in Worker, NEW r \in Route, FindBucket(w, r)
    PROVE  IInv'
<1>1. buckets[r] \in Bucket
  BY DEF FindBucket, IInv
<1>2. /\ held' \in [Worker -> {Idle} \union [route : Route, bucket : Bucket]]
      /\ answer' \in [Worker -> {"allowed", "refused", "pending"}]
      /\ UNCHANGED <<clock, heap, buckets, route_configs, stale>>
  BY <1>1 DEF FindBucket, IInv
<1>3. /\ held'[w].bucket = buckets[r] /\ held[w].bucket = None
      /\ \A v \in Worker \ {w} : held'[v] = held[v]
  BY DEF FindBucket, IInv, Idle
<1>4. Bucket \intersect InUse(buckets', held')
        = Bucket \intersect InUse(buckets, held)
  BY <1>2, <1>3, RateLimiterAssumption DEF InUse
<1>5. Live' = Live /\ ConfigSticks'
  BY <1>2 DEF Live, ConfigSticks, ConfigFor, IInv
<1> QED  BY <1>2, <1>4, <1>5 DEF IInv

LEMMA MakeBucketKeepsIInv ==
    ASSUME IInv, NEW w \in Worker, NEW r \in Route, MakeBucket(w, r)
    PROVE  IInv'
<1> DEFINE c == ConfigFor(r)
<1>1. Fresh \in Bucket /\ Fresh \notin InUse(buckets, held)
  BY FreshFacts DEF MakeBucket
<1>2. clock \in Nat /\ clock' = clock
  BY MaxTimeAssumption DEF MakeBucket, IInv
<1>3. c \in Config
  BY RateLimiterAssumption DEF ConfigFor, IInv
<1>4. Good(NewBucket(c), clock) /\ NewBucket(c) \in BucketType
  BY <1>2, <1>3, NewIsGood DEF Good
<1>5. /\ heap' \in [Bucket -> BucketType \union {None}]
      /\ heap'[Fresh] = NewBucket(c)
      /\ \A i \in Bucket \ {Fresh} : heap'[i] = heap[i]
  BY <1>1, <1>4 DEF MakeBucket, IInv
<1>6. /\ buckets' \in [Route -> Bucket \union {None}]
      /\ held' \in [Worker -> {Idle} \union [route : Route, bucket : Bucket]]
      /\ answer' \in [Worker -> {"allowed", "refused", "pending"}]
      /\ UNCHANGED <<route_configs, stale>>
  BY <1>1 DEF MakeBucket, IInv
<1>7. /\ buckets[r] = None /\ buckets'[r] = Fresh
      /\ \A s \in Route \ {r} : buckets'[s] = buckets[s]
      /\ held[w].bucket = None /\ held'[w].bucket = Fresh
      /\ \A v \in Worker \ {w} : held'[v] = held[v]
  BY <1>1 DEF MakeBucket, IInv, Idle
<1>8. Bucket \intersect InUse(buckets', held')
        = (Bucket \intersect InUse(buckets, held)) \union {Fresh}
  <2>1. InUse(buckets', held') \subseteq InUse(buckets, held) \union {Fresh}
    BY <1>7 DEF InUse
  <2>2. Fresh \in InUse(buckets', held')
    BY <1>7 DEF InUse
  <2>3. InUse(buckets, held) \ {None} \subseteq InUse(buckets', held')
    BY <1>7 DEF InUse
  <2> QED  BY <1>1, <2>1, <2>2, <2>3, RateLimiterAssumption
<1>9. Live' = Live \union {Fresh}
  BY <1>1, <1>4, <1>5, RateLimiterAssumption DEF Live
<1>10. \A i \in Live' : Good(heap'[i], clock')
  BY <1>2, <1>4, <1>5, <1>9, <1>1 DEF IInv, Live
<1>11. ConfigSticks'
  <2> SUFFICES ASSUME NEW s \in Route, buckets'[s] # None
               PROVE  heap'[buckets'[s]].config = ConfigFor(s)'
    BY DEF ConfigSticks
  <2>1. ConfigFor(s)' = ConfigFor(s)
    BY <1>6 DEF ConfigFor
  <2>2. CASE s = r
    BY <1>5, <1>7, <2>1, <2>2 DEF NewBucket
  <2>3. CASE s # r
    <3>1. buckets[s] \in Bucket \ {Fresh} /\ buckets'[s] = buckets[s]
      BY <1>1, <1>7, <2>3 DEF IInv, InUse
    <3> QED  BY <1>5, <2>1, <3>1 DEF IInv, ConfigSticks
  <2> QED  BY <2>2, <2>3
<1>12. clock' \in 0..MaxTime
  BY <1>2 DEF IInv
<1>13. Live' = Bucket \intersect InUse(buckets', held')
  BY <1>8, <1>9 DEF IInv
<1> QED  BY <1>5, <1>6, <1>10, <1>11, <1>12, <1>13 DEF IInv

(* A thread that acquires holds a bucket.                                  *)
LEMMA AcquirerHolds ==
    ASSUME IInv, NEW w \in Worker, AcquireAndReturn(w)
    PROVE  /\ held[w] \in [route : Route, bucket : Bucket]
           /\ clock \in Nat /\ clock' = clock
<1>1. held[w] # Idle /\ clock' = clock
  BY DEF AcquireAndReturn, Acquire
<1>2. held[w] \in {Idle} \union [route : Route, bucket : Bucket]
  BY DEF IInv
<1>3. clock \in Nat
  BY MaxTimeAssumption DEF IInv
<1> QED  BY <1>1, <1>2, <1>3

LEMMA AcquireKeepsIInv ==
    ASSUME IInv, NEW w \in Worker, AcquireAndReturn(w)
    PROVE  IInv'
<1> DEFINE i == held[w].bucket
           b == Refilled(heap[i])
           allowed == b.tokens >= Unit
           c == IF allowed
                THEN [b EXCEPT !.tokens = @ - Unit, !.granted = @ + 1] ELSE b
           h == [heap EXCEPT ![i] = c]
<1>1. clock \in Nat /\ clock' = clock
  BY AcquirerHolds
<1>2. held[w] \in [route : Route, bucket : Bucket]
  BY AcquirerHolds
<1>3. i \in Bucket /\ i \in Live
  BY <1>2 DEF IInv, InUse
<1>4. Good(heap[i], clock)
  BY <1>3 DEF IInv
<1>5. Good(b, clock) /\ b.config = heap[i].config
  BY <1>1, <1>4, RefilledIsGood
<1>6. Good(c, clock) /\ c.config = heap[i].config
  <2> HIDE DEF b
  <2> QED  BY <1>1, <1>5, TakenIsGood
<1>7. heap' = Collected(h, buckets', held')
  BY DEF AcquireAndReturn, Acquire
<1>8. /\ answer' \in [Worker -> {"allowed", "refused", "pending"}]
      /\ stale' \in [Route -> Nat]
  BY <1>2 DEF AcquireAndReturn, Acquire, IInv
<1> HIDE DEF c, b
<1>9. /\ h \in [Bucket -> BucketType \union {None}]
      /\ h[i] = c
      /\ \A j \in Bucket \ {i} : h[j] = heap[j]
  BY <1>3, <1>6 DEF IInv, Good
<1>10. /\ held' \in [Worker -> {Idle} \union [route : Route, bucket : Bucket]]
       /\ UNCHANGED <<buckets, route_configs>>
       /\ \A v \in Worker \ {w} : held'[v] = held[v]
       /\ held'[w].bucket = None
  BY DEF AcquireAndReturn, Acquire, IInv, Idle
<1> HIDE DEF h, i
<1>11. InUse(buckets', held') \subseteq InUse(buckets, held) \union {None}
  BY <1>10 DEF InUse
<1>12. \A j \in Bucket \intersect InUse(buckets', held') : Good(h[j], clock)
  BY <1>6, <1>9, <1>11, RateLimiterAssumption DEF IInv
<1>13. /\ heap' \in [Bucket -> BucketType \union {None}]
       /\ Live' = Bucket \intersect InUse(buckets', held')
       /\ \A j \in Live' : Good(heap'[j], clock')
       /\ \A j \in Bucket \intersect InUse(buckets', held') : heap'[j] = h[j]
  BY <1>1, <1>7, <1>9, <1>12, HeapIsGood
<1>14. ConfigSticks'
  <2> SUFFICES ASSUME NEW s \in Route, buckets'[s] # None
               PROVE  heap'[buckets'[s]].config = ConfigFor(s)'
    BY DEF ConfigSticks
  <2>1. buckets'[s] = buckets[s] /\ ConfigFor(s)' = ConfigFor(s)
    BY <1>10 DEF ConfigFor
  <2>2. buckets[s] \in Bucket \intersect InUse(buckets', held')
    BY <1>10 DEF IInv, InUse
  <2>3. h[buckets[s]].config = heap[buckets[s]].config
    BY <1>6, <1>9, <2>2
  <2> QED  BY <1>13, <2>1, <2>2, <2>3 DEF IInv, ConfigSticks
<1> QED
  BY <1>1, <1>8, <1>10, <1>13, <1>14 DEF IInv

LEMMA TickKeepsIInv ==
    ASSUME IInv, Tick
    PROVE  IInv'
<1>1. clock \in Nat /\ clock' = clock + 1 /\ clock' \in 0..MaxTime
  BY MaxTimeAssumption DEF Tick, IInv
<1>2. UNCHANGED <<heap, buckets, route_configs, held, answer, stale>>
  BY DEF Tick
<1>3. Live' = Live /\ ConfigSticks' /\ InUse(buckets', held') = InUse(buckets, held)
  BY <1>2 DEF Live, ConfigSticks, ConfigFor, IInv
<1>4. \A i \in Live' : Good(heap'[i], clock')
  BY <1>1, <1>2, <1>3, GoodLater DEF IInv
<1> QED  BY <1>1, <1>2, <1>3, <1>4 DEF IInv

LEMMA NextIInv == ASSUME IInv, [Next]_vars  PROVE IInv'
<1>1. CASE Tick
  BY <1>1, TickKeepsIInv
<1>2. CASE \E r \in Route, c \in Config : ConfigureRoute(r, c)
  BY <1>2, ConfigureRouteKeepsIInv
<1>3. CASE \E r \in Route : Reset(r)
  BY <1>3, ResetKeepsIInv
<1>4. CASE \E r \in Route, w \in Worker : FindBucket(w, r) \/ MakeBucket(w, r)
  BY <1>4, FindBucketKeepsIInv, MakeBucketKeepsIInv
<1>5. CASE \E w \in Worker : AcquireAndReturn(w)
  BY <1>5, AcquireKeepsIInv
<1>6. CASE UNCHANGED vars
  BY <1>6 DEF vars, IInv, Live, ConfigSticks, ConfigFor
<1> QED  BY <1>1, <1>2, <1>3, <1>4, <1>5, <1>6 DEF Next

-----------------------------------------------------------------------------
(* The threads caught with a replaced bucket, action by action.            *)
LEMMA StaleHoldersFinite ==
    ASSUME NEW r
    PROVE  /\ IsFiniteSet(StaleHolders(r))
           /\ Cardinality(StaleHolders(r)) \in Nat
           /\ Cardinality(StaleHolders(r)) <= Cardinality(Worker)
           /\ Cardinality(Worker) \in Nat
<1>1. StaleHolders(r) \subseteq Worker
  BY DEF StaleHolders
<1> QED  BY <1>1, RateLimiterAssumption, FS_Subset, FS_CardinalityType

(* A replaced bucket starts the count anew, and concerns its route only.   *)
LEMMA ReplacedKeepsOvershoot ==
    ASSUME IInv, OvershootBounded, NEW r \in Route, held' = held,
           stale' = [stale EXCEPT ![r] = 0],
           \A s \in Route \ {r} : buckets'[s] = buckets[s]
    PROVE  OvershootBounded'
<1> SUFFICES ASSUME NEW s \in Route
             PROVE  stale'[s] + Cardinality(StaleHolders(s)')
                      <= Cardinality(Worker)
  BY DEF OvershootBounded
<1>1. CASE s = r
  <2>1. stale'[s] = 0
    BY <1>1 DEF IInv
  <2>2. StaleHolders(s)' \subseteq Worker
    BY DEF StaleHolders
  <2>3. /\ Cardinality(StaleHolders(s)') \in Nat
        /\ Cardinality(StaleHolders(s)') <= Cardinality(Worker)
    BY <2>2, RateLimiterAssumption, FS_Subset, FS_CardinalityType
  <2> QED  BY <2>1, <2>3
<1>2. CASE s # r
  <2>1. stale'[s] = stale[s]
    BY <1>2 DEF IInv
  <2>2. StaleHolders(s)' = StaleHolders(s)
    BY <1>2 DEF StaleHolders, IsStale
  <2> QED  BY <2>1, <2>2 DEF OvershootBounded
<1> QED  BY <1>1, <1>2

(* A thread finds or makes the bucket in use: it is not caught, and the    *)
(* threads that were caught still are.                                     *)
LEMMA FoundKeepsOvershoot ==
    ASSUME IInv, OvershootBounded, NEW w \in Worker, NEW r \in Route,
           FindBucket(w, r) \/ MakeBucket(w, r)
    PROVE  OvershootBounded'
<1>1. /\ held[w] = Idle
      /\ held'[w] = [route |-> r, bucket |-> buckets'[r]]
      /\ \A v \in Worker \ {w} : held'[v] = held[v]
      /\ stale' = stale
      /\ \A s \in Route \ {r} : buckets'[s] = buckets[s]
  BY DEF FindBucket, MakeBucket, IInv
<1>2. \A v \in Worker \ {w} :
        held[v].route = r =>
          (held[v].bucket # buckets'[r] <=> held[v].bucket # buckets[r])
  <2>1. CASE FindBucket(w, r)
    BY <2>1 DEF FindBucket
  <2>2. CASE MakeBucket(w, r)
    <3>1. \A v \in Worker : held[v].route = r => held[v].bucket \in Bucket
      BY RateLimiterAssumption DEF IInv, Idle
    <3>2. buckets[r] = None /\ buckets'[r] = Fresh
      BY <2>2 DEF MakeBucket, IInv
    <3>3. \A v \in Worker : held[v].bucket # Fresh
      BY <2>2, FreshFacts DEF MakeBucket, InUse
    <3> QED  BY <3>1, <3>2, <3>3, RateLimiterAssumption
  <2> QED  BY <2>1, <2>2
<1>3. \A s \in Route : StaleHolders(s)' = StaleHolders(s)
  <2> TAKE s \in Route
  <2>1. w \notin StaleHolders(s)
    BY <1>1, RateLimiterAssumption DEF StaleHolders, Idle
  <2>2. w \notin StaleHolders(s)'
    BY <1>1 DEF StaleHolders, IsStale
  <2>3. \A v \in Worker \ {w} :
          v \in StaleHolders(s)' <=> v \in StaleHolders(s)
    BY <1>1, <1>2 DEF StaleHolders, IsStale
  <2>4. StaleHolders(s) \subseteq Worker /\ StaleHolders(s)' \subseteq Worker
    BY DEF StaleHolders
  <2> QED  BY <2>1, <2>2, <2>3, <2>4
<1> QED  BY <1>1, <1>3 DEF OvershootBounded

(* A thread with a replaced bucket may be allowed, and is then caught no   *)
(* longer.                                                                 *)
LEMMA AcquiredKeepsOvershoot ==
    ASSUME IInv, OvershootBounded, NEW w \in Worker, AcquireAndReturn(w)
    PROVE  OvershootBounded'
<1> SUFFICES ASSUME NEW s \in Route
             PROVE  stale'[s] + Cardinality(StaleHolders(s)')
                      <= Cardinality(Worker)
  BY DEF OvershootBounded
<1>1. /\ held[w] \in [route : Route, bucket : Bucket]
      /\ held'[w] = Idle
      /\ \A v \in Worker \ {w} : held'[v] = held[v]
      /\ buckets' = buckets
      /\ \/ stale' = stale
         \/ IsStale(w) /\ stale' = [stale EXCEPT ![held[w].route] = @ + 1]
  BY DEF AcquireAndReturn, Acquire, IInv
<1>2. StaleHolders(s)' = StaleHolders(s) \ {w}
  BY <1>1, RateLimiterAssumption DEF StaleHolders, IsStale, Idle
<1>3. stale[s] + Cardinality(StaleHolders(s)) <= Cardinality(Worker)
  BY DEF OvershootBounded
<1>4. IsFiniteSet(StaleHolders(s)) /\ stale[s] \in Nat
  BY StaleHoldersFinite DEF IInv
<1>5. /\ Cardinality(StaleHolders(s)) \in Nat
      /\ Cardinality(Worker) \in Nat
  BY StaleHoldersFinite
<1>6. Cardinality(StaleHolders(s)') =
        IF w \in StaleHolders(s) THEN Cardinality(StaleHolders(s)) - 1
        ELSE Cardinality(StaleHolders(s))
  BY <1>2, <1>4, FS_RemoveElement
<1>7. \/ stale'[s] = stale[s]
      \/ stale'[s] = stale[s] + 1 /\ w \in StaleHolders(s)
  BY <1>1 DEF StaleHolders, IInv
<1> QED  BY <1>3, <1>4, <1>5, <1>6, <1>7

LEMMA NextOvershoot ==
    ASSUME IInv, OvershootBounded, [Next]_vars
    PROVE  OvershootBounded'
<1>1. CASE Tick \/ UNCHANGED vars
  BY <1>1 DEF Tick, vars, OvershootBounded, StaleHolders, IsStale
<1>2. ASSUME NEW r \in Route, NEW c \in Config, ConfigureRoute(r, c)
      PROVE  OvershootBounded'
  BY <1>2, ReplacedKeepsOvershoot DEF ConfigureRoute, IInv
<1>3. ASSUME NEW r \in Route, Reset(r)
      PROVE  OvershootBounded'
  BY <1>3, ReplacedKeepsOvershoot DEF Reset, IInv
<1>4. CASE \E r \in Route, w \in Worker : FindBucket(w, r) \/ MakeBucket(w, r)
  BY <1>4, FoundKeepsOvershoot
<1>5. CASE \E w \in Worker : AcquireAndReturn(w)
  BY <1>5, AcquiredKeepsOvershoot
<1> QED  BY <1>1, <1>2, <1>3, <1>4, <1>5 DEF Next

LEMMA InitOvershoot == Init => OvershootBounded
<1> SUFFICES ASSUME Init, NEW r \in Route
             PROVE  stale[r] + Cardinality(StaleHolders(r))
                      <= Cardinality(Worker)
  BY DEF OvershootBounded
<1> QED  BY StaleHoldersFinite DEF Init

-----------------------------------------------------------------------------
(* The type of every variable: in particular a heap without dangling       *)
(* buckets, none of them fuller than its burst or ahead of the clock.      *)
THEOREM TypeCorrect == Spec => []TypeOK
<1>1. IInv => TypeOK
  BY DEF IInv, TypeOK, Good
<1> QED  BY <1>1, InitIInv, NextIInv, PTL DEF Spec

(* is_allowed keeps to the route's limits: no bucket, of whatever burst    *)
(* and rate, ever allows more than the burst and what the rate added.      *)
THEOREM NeverOverRate == Spec => []RateBound
<1>1. IInv => RateBound
  <2> SUFFICES ASSUME IInv, NEW i \in Live
               PROVE  heap[i].granted * Unit
                        <= heap[i].config.burst * Unit
                           + heap[i].config.rate * (clock - heap[i].born)
    BY DEF RateBound
  <2>1. Good(heap[i], clock) /\ clock \in Nat
    BY MaxTimeAssumption DEF IInv
  <2> QED  BY <2>1, GoodIsWithinRate
<1> QED  BY <1>1, InitIInv, NextIInv, PTL DEF Spec

(* No route loses the limits configured for it.                            *)
THEOREM LimitsStay == Spec => []ConfigSticks
<1>1. IInv => ConfigSticks
  BY DEF IInv
<1> QED  BY <1>1, InitIInv, NextIInv, PTL DEF Spec

(* Replacing a bucket lets through one request too many for each thread    *)
(* at most.                                                                *)
THEOREM OvershootIsBounded == Spec => []OvershootBounded
<1>1. IInv /\ [Next]_vars => IInv'
  BY NextIInv
<1>2. IInv /\ OvershootBounded /\ [Next]_vars => OvershootBounded'
  BY NextOvershoot
<1> QED  BY <1>1, <1>2, InitIInv, InitOvershoot, PTL DEF Spec

-----------------------------------------------------------------------------
(* What Throttle shows of a bucket: its level is the one it would have if  *)
(* it were refilled now.                                                   *)
LEMMA Settled ==
    ASSUME NEW b \in BucketType, b.last_refill = clock, clock \in Nat,
           b.tokens <= b.config.burst * Unit
    PROVE  Refilled(b).tokens = b.tokens
<1>1. b.config \in Config /\ b.tokens \in Nat
  BY DEF BucketType
<1>2. (clock - b.last_refill) * b.config.rate = 0
  BY <1>1, ConfigNat
<1>3. b.config.burst * Unit \in Nat
  BY <1>1, ConfigNat
<1> QED  BY <1>1, <1>2, <1>3 DEF Refilled, BucketType

LEMMA NewIsFull ==
    ASSUME NEW c \in Config, clock \in Nat
    PROVE  Refilled(NewBucket(c)).tokens = c.burst * Unit
BY NewIsGood, Settled, ConfigNat DEF Good, NewBucket

LEMMA RefilledType ==
    ASSUME NEW b, Good(b, clock), clock \in Nat
    PROVE  /\ Refilled(b) \in BucketType
           /\ Refilled(b).last_refill = clock
           /\ Refilled(b).tokens \in Nat
           /\ Refilled(b).tokens <= b.config.burst * Unit
           /\ Refilled(b).config = b.config
<1>1. Good(Refilled(b), clock) /\ Refilled(b).config = b.config
  BY RefilledIsGood
<1>2. Refilled(b).last_refill = clock
  BY DEF Refilled, Good, BucketType
<1> QED  BY <1>1, <1>2 DEF Good, BucketType

(* A unit of time later.                                                   *)
LEMMA LevelLater ==
    ASSUME NEW b, Good(b, clock), clock \in Nat, clock' = clock + 1
    PROVE  LET n == Refilled(b).tokens + b.config.rate
               full == b.config.burst * Unit
           IN Refilled(b)'.tokens = IF n > full THEN full ELSE n
<1> DEFINE full == b.config.burst * Unit
           rate == b.config.rate
           d == clock - b.last_refill
<1>1. /\ b.config \in Config /\ b.tokens \in Nat /\ b.last_refill \in Nat
      /\ b.last_refill <= clock
  BY DEF Good, BucketType
<1>2. rate \in Nat /\ full \in Nat /\ d \in Nat
  BY <1>1, ConfigNat
<1>3. (clock' - b.last_refill) * rate = d * rate + rate /\ d * rate \in Nat
  BY <1>1, <1>2, OneMore
<1>4. Refilled(b).tokens =
        IF b.tokens + d * rate > full THEN full ELSE b.tokens + d * rate
  BY DEF Refilled, Good, BucketType
<1>5. Refilled(b)'.tokens =
        IF b.tokens + (clock' - b.last_refill) * rate > full
        THEN full ELSE b.tokens + (clock' - b.last_refill) * rate
  BY DEF Refilled, Good, BucketType
<1> DEFINE added == d * rate
           later == (clock' - b.last_refill) * rate
<1>6. later = added + rate /\ added \in Nat
  BY <1>3
<1>7. /\ Refilled(b).tokens =
           IF b.tokens + added > full THEN full ELSE b.tokens + added
      /\ Refilled(b)'.tokens =
           IF b.tokens + later > full THEN full ELSE b.tokens + later
  BY <1>4, <1>5
<1> HIDE DEF added, later, d
<1>8. Refilled(b)'.tokens = IF Refilled(b).tokens + rate > full
                            THEN full ELSE Refilled(b).tokens + rate
  <2> HIDE DEF full, rate
  <2> QED  BY <1>1, <1>2, <1>6, <1>7
<1> QED  BY <1>8

(* The meters, of buckets that are there and of others.                    *)
LEMMA MetersFacts ==
    ASSUME IInv, NEW i \in Bucket
    PROVE  /\ Meters[i] = Meter(i)
           /\ i \notin Live => Meter(i) = None
           /\ i \in Live =>
                /\ Meter(i) \in MeterType
                /\ Meter(i) # None
                /\ Meter(i).config = heap[i].config
                /\ Meter(i).level = Refilled(heap[i]).tokens
<1>1. Meters[i] = Meter(i) /\ (i \notin Live => Meter(i) = None)
  BY DEF Meters, Meter, Live
<1>2. ASSUME i \in Live
      PROVE  /\ Meter(i) = [config |-> heap[i].config,
                            level |-> Refilled(heap[i]).tokens]
             /\ Meter(i) \in MeterType
  <2>1. Good(heap[i], clock) /\ clock \in Nat
    BY <1>2, MaxTimeAssumption DEF IInv
  <2>2. heap[i].config \in Config /\ Refilled(heap[i]).tokens \in Nat
    BY <2>1, RefilledType DEF Good, BucketType
  <2>3. Meter(i) = [config |-> heap[i].config,
                    level |-> Refilled(heap[i]).tokens]
    BY <1>2 DEF Meter, Live
  <2> QED  BY <2>2, <2>3 DEF MeterType
<1> QED  BY <1>1, <1>2, RateLimiterAssumption

(* Buckets that are neither touched nor in a different moment of time.     *)
LEMMA MetersKept ==
    ASSUME IInv, clock' = clock, NEW S,
           \A i \in Bucket \ S : heap'[i] \in {heap[i], None}
    PROVE  \A i \in Bucket \ S : Meters'[i] \in {Meters[i], None}
<1> TAKE i \in Bucket \ S
<1>1. CASE heap'[i] = heap[i]
  BY <1>1 DEF Meters, Meter, Refilled
<1>2. CASE heap'[i] = None
  BY <1>2 DEF Meters, Meter
<1> QED  BY <1>1, <1>2

LEMMA InitPromise == Init => Promise!Init
BY DEF Init, Promise!Init, Meters, Meter

LEMMA TickKeepsPromise ==
    ASSUME IInv, Tick
    PROVE  Promise!Pass
<1>1. clock \in Nat /\ clock' = clock + 1 /\ heap' = heap /\ answer' = answer
  BY MaxTimeAssumption DEF Tick, IInv
<1>2. \A i \in Bucket : Meters'[i] = Promise!Gained(Meters[i])
  <2> TAKE i \in Bucket
  <2>1. CASE i \notin Live
    <3>1. heap[i] = None
      BY <2>1 DEF Live
    <3> QED  BY <1>1, <3>1 DEF Meters, Meter, Promise!Gained
  <2>2. CASE i \in Live
    <3>1. Good(heap[i], clock) /\ heap[i] # None
      BY <2>2 DEF IInv, Live
    <3>2. /\ Meters[i] = [config |-> heap[i].config,
                          level |-> Refilled(heap[i]).tokens]
          /\ Meters'[i] = [config |-> heap[i].config,
                           level |-> Refilled(heap[i])'.tokens]
          /\ Meters[i] # None
      BY <1>1, <2>2, <3>1, MetersFacts DEF Meters, Meter
    <3>3. LET n == Refilled(heap[i]).tokens + heap[i].config.rate
              full == heap[i].config.burst * Unit
          IN Refilled(heap[i])'.tokens = IF n > full THEN full ELSE n
      BY <1>1, <3>1, LevelLater
    <3> QED
      BY <3>2, <3>3
      DEF Promise!Gained, Promise!Capped, Promise!Capacity
  <2> QED  BY <2>1, <2>2
<1>3. Meters' = [i \in Bucket |-> Promise!Gained(Meters[i])]
  BY <1>2 DEF Meters
<1> QED  BY <1>1, <1>3 DEF Promise!Pass

(* What is shown of a bucket after a step that takes no time.              *)
LEMMA ShownNext ==
    ASSUME clock' = clock, NEW i \in Bucket, NEW b, b # None, heap'[i] = b
    PROVE  Meters'[i] = [config |-> b.config, level |-> Refilled(b).tokens]
<1>1. Meters'[i] = [config |-> heap'[i].config,
                    level |-> Refilled(heap[i])'.tokens]
  BY DEF Meters, Meter
<1>2. Refilled(heap[i])' = Refilled(b)
  BY DEF Refilled
<1> QED  BY <1>1, <1>2

(* A new bucket is a full meter.                                           *)
LEMMA MadeIsInstalled ==
    ASSUME IInv, clock' = clock, NEW i \in Bucket, NEW c \in Config,
           heap[i] = None, heap'[i] = NewBucket(c),
           \A j \in Bucket \ {i} : heap'[j] \in {heap[j], None},
           \A w \in Worker : answer'[w] \in {answer[w], "pending"}
    PROVE  Promise!Install(i, c)
<1>1. clock \in Nat
  BY MaxTimeAssumption DEF IInv
<1>2. Meters[i] = None
  BY DEF Meters, Meter
<1>3. NewBucket(c) # None /\ NewBucket(c).config = c
  BY <1>1, NewIsGood, RateLimiterAssumption DEF Good, NewBucket
<1>4. Refilled(NewBucket(c)).tokens = c.burst * Unit
  BY <1>1, NewIsFull
<1>5. Meters'[i] = [config |-> NewBucket(c).config,
                    level |-> Refilled(NewBucket(c)).tokens]
  BY <1>3, ShownNext
<1>6. Meters'[i] = [config |-> c, level |-> c.burst * Unit]
  BY <1>3, <1>4, <1>5
<1>7. \A j \in Bucket \ {i} : Meters'[j] \in {Meters[j], None}
  BY MetersKept
<1> QED
  BY <1>2, <1>6, <1>7
  DEF Promise!Install, Promise!Full, Promise!Capacity, Promise!KeptOrGone,
      Promise!KeptOrPending

LEMMA ConfigureKeepsPromise ==
    ASSUME IInv, NEW r \in Route, NEW c \in Config,
           ConfigureRoute(r, c)
    PROVE  \E i \in Bucket : Promise!Install(i, c)
<1> DEFINE h == [heap EXCEPT ![Fresh] = NewBucket(c)]
<1>1. Fresh \in Bucket /\ Fresh \notin InUse(buckets, held)
  BY FreshFacts DEF ConfigureRoute
<1>2. clock \in Nat
  BY MaxTimeAssumption DEF IInv
<1>3. NewBucket(c) \in BucketType
  BY <1>2, NewIsGood DEF Good
<1>4. h \in [Bucket -> BucketType \union {None}]
  BY <1>1, <1>3 DEF IInv
<1>5. /\ h[Fresh] = NewBucket(c)
      /\ \A j \in Bucket \ {Fresh} : h[j] = heap[j]
  BY <1>1 DEF IInv
<1> HIDE DEF h
<1>6. heap' = Collected(h, buckets', held)
  BY DEF ConfigureRoute, h
<1>7. Fresh \in InUse(buckets', held)
  BY DEF ConfigureRoute, InUse, IInv
<1>8. heap[Fresh] = None
  BY <1>1 DEF IInv, Live
<1>9. heap'[Fresh] = NewBucket(c)
  BY <1>1, <1>4, <1>5, <1>6, <1>7, CollectedFacts
<1>10. \A j \in Bucket \ {Fresh} : heap'[j] \in {heap[j], None}
  BY <1>4, <1>5, <1>6, CollectedFacts
<1>11. clock' = clock /\ answer' = answer
  BY DEF ConfigureRoute
<1> QED  BY <1>1, <1>8, <1>9, <1>10, <1>11, MadeIsInstalled

LEMMA MakeKeepsPromise ==
    ASSUME IInv, NEW w \in Worker, NEW r \in Route, MakeBucket(w, r)
    PROVE  \E i \in Bucket, c \in Config : Promise!Install(i, c)
<1>1. Fresh \in Bucket /\ Fresh \notin InUse(buckets, held)
  BY FreshFacts DEF MakeBucket
<1>2. ConfigFor(r) \in Config
  BY RateLimiterAssumption DEF ConfigFor, IInv
<1>3. /\ heap'[Fresh] = NewBucket(ConfigFor(r))
      /\ \A j \in Bucket \ {Fresh} : heap'[j] \in {heap[j], None}
      /\ \A v \in Worker : answer'[v] \in {answer[v], "pending"}
      /\ clock' = clock
  BY <1>1 DEF MakeBucket, IInv
<1>4. heap[Fresh] = None
  BY <1>1 DEF IInv, Live
<1> QED  BY <1>1, <1>2, <1>3, <1>4, MadeIsInstalled

LEMMA ResetOrFindKeepsPromise ==
    ASSUME IInv, NEW r \in Route,
           Reset(r) \/ \E w \in Worker : FindBucket(w, r)
    PROVE  Promise!Turn
<1>1. heap \in [Bucket -> BucketType \union {None}]
  BY DEF IInv
<1>2. heap' = heap \/ heap' = Collected(heap, buckets', held)
  BY DEF Reset, FindBucket
<1>3. \A i \in Bucket : heap'[i] \in {heap[i], None}
  BY <1>1, <1>2, CollectedFacts
<1>4. clock' = clock /\ \A v \in Worker : answer'[v] \in {answer[v], "pending"}
  BY DEF Reset, FindBucket, IInv
<1>5. \A i \in Bucket \ {} : Meters'[i] \in {Meters[i], None}
  BY <1>3, <1>4, MetersKept
<1> QED
  BY <1>4, <1>5
  DEF Promise!Turn, Promise!KeptOrGone, Promise!KeptOrPending

LEMMA AcquireKeepsPromise ==
    ASSUME IInv, NEW w \in Worker, AcquireAndReturn(w)
    PROVE  \E i \in Bucket : Promise!Allow(w, i) \/ Promise!Refuse(w, i)
<1> DEFINE i == held[w].bucket
           b == Refilled(heap[i])
           allowed == b.tokens >= Unit
           c == IF allowed
                THEN [b EXCEPT !.tokens = @ - Unit, !.granted = @ + 1] ELSE b
           h == [heap EXCEPT ![i] = c]
<1>1. clock \in Nat /\ clock' = clock
  BY AcquirerHolds
<1>2. held[w] \in [route : Route, bucket : Bucket]
  BY AcquirerHolds
<1>3. i \in Bucket /\ i \in Live
  BY <1>2 DEF IInv, InUse
<1>4. Good(heap[i], clock)
  BY <1>3 DEF IInv
<1>5. /\ Good(b, clock)
      /\ b \in BucketType /\ b.last_refill = clock /\ b.tokens \in Nat
      /\ b.tokens <= b.config.burst * Unit /\ b.config = heap[i].config
  BY <1>1, <1>4, RefilledIsGood, RefilledType
<1>6. heap' = Collected(h, buckets', held')
  BY DEF AcquireAndReturn, Acquire
<1>7. /\ allowed => answer' = [answer EXCEPT ![w] = "allowed"]
      /\ ~allowed => answer' = [answer EXCEPT ![w] = "refused"]
  BY DEF AcquireAndReturn, Acquire
<1>8. /\ Meters[i] = [config |-> heap[i].config, level |-> b.tokens]
      /\ Meters[i] # None
  BY <1>3, MetersFacts DEF Meters, Meter, Live
<1> HIDE DEF b
<1>9. /\ c \in BucketType /\ c.last_refill = clock
      /\ c.config = b.config
      /\ c.tokens = IF allowed THEN b.tokens - Unit ELSE b.tokens
      /\ c.tokens <= c.config.burst * Unit
  <2>1. CASE allowed
    <3>1. Good(c, clock) /\ c.config = b.config
      BY <1>1, <1>5, <2>1, TakenIsGood
    <3> QED  BY <1>5, <2>1, <3>1 DEF Good, BucketType
  <2>2. CASE ~allowed
    BY <1>5, <2>2
  <2> QED  BY <2>1, <2>2
<1>10. Refilled(c).tokens = c.tokens
  BY <1>1, <1>9, Settled
<1> HIDE DEF c
<1>11. /\ h \in [Bucket -> BucketType \union {None}]
       /\ h[i] = c
       /\ \A j \in Bucket \ {i} : h[j] = heap[j]
  BY <1>3, <1>9 DEF IInv
<1> HIDE DEF h
<1>12. /\ heap'[i] \in {c, None}
       /\ \A j \in Bucket \ {i} : heap'[j] \in {heap[j], None}
  BY <1>3, <1>6, <1>11, CollectedFacts
<1>13. Meters'[i] \in {[config |-> heap[i].config, level |-> c.tokens], None}
  <2>1. CASE heap'[i] = None
    BY <1>3, <2>1 DEF Meters, Meter
  <2>2. CASE heap'[i] = c
    <3>1. c # None
      BY <1>9, RateLimiterAssumption
    <3>2. Meters'[i] = [config |-> c.config, level |-> Refilled(c).tokens]
      BY <1>1, <1>3, <2>2, <3>1, ShownNext
    <3> QED  BY <1>5, <1>9, <1>10, <3>2
  <2> QED  BY <1>12, <2>1, <2>2
<1>14. \A j \in Bucket \ {i} : Meters'[j] \in {Meters[j], None}
  BY <1>1, <1>12, MetersKept
<1>15. \A v \in Worker \ {w} : answer'[v] \in {answer[v], "pending"}
  BY <1>7 DEF IInv
<1>16. CASE allowed
  <2>1. Meters[i].level >= Unit
    BY <1>8, <1>16
  <2>2. Meters'[i] \in {[Meters[i] EXCEPT !.level = @ - Unit], None}
    BY <1>8, <1>9, <1>13, <1>16
  <2>3. answer'[w] = "allowed"
    BY <1>7, <1>16 DEF IInv
  <2>4. Promise!Allow(w, i)
    BY <1>8, <1>14, <1>15, <2>1, <2>2, <2>3
    DEF Promise!Allow, Promise!KeptOrGone, Promise!KeptOrPending
  <2> QED  BY <1>3, <2>4
<1>17. CASE ~allowed
  <2>1. Meters[i].level < Unit
    BY <1>5, <1>8, <1>17, RateLimiterAssumption
  <2>2. \A j \in Bucket : Meters'[j] \in {Meters[j], None}
    BY <1>8, <1>9, <1>13, <1>14, <1>17
  <2>3. answer'[w] = "refused"
    BY <1>7, <1>17 DEF IInv
  <2>4. Promise!Refuse(w, i)
    BY <1>8, <1>15, <2>1, <2>2, <2>3
    DEF Promise!Refuse, Promise!KeptOrGone, Promise!KeptOrPending
  <2> QED  BY <1>3, <2>4
<1> QED  BY <1>16, <1>17

LEMMA NextPromise ==
    ASSUME IInv, [Next]_vars
    PROVE  [Promise!Next]_(Promise!vars)
<1>1. CASE Tick
  BY <1>1, TickKeepsPromise DEF Promise!Next
<1>2. CASE \E r \in Route, c \in Config : ConfigureRoute(r, c)
  BY <1>2, ConfigureKeepsPromise DEF Promise!Next
<1>3. CASE \E r \in Route : Reset(r) \/ \E w \in Worker : FindBucket(w, r)
  BY <1>3, ResetOrFindKeepsPromise DEF Promise!Next
<1>4. CASE \E r \in Route, w \in Worker : MakeBucket(w, r)
  BY <1>4, MakeKeepsPromise DEF Promise!Next
<1>5. CASE \E w \in Worker : AcquireAndReturn(w)
  BY <1>5, AcquireKeepsPromise DEF Promise!Next
<1>6. CASE UNCHANGED vars
  BY <1>6 DEF vars, Promise!vars, Meters, Meter, Refilled
<1> QED  BY <1>1, <1>2, <1>3, <1>4, <1>5, <1>6 DEF Next

(* The limiter answers as meters would that gain tokens all the time: its  *)
(* lazy arithmetic, in whatever order threads ask, cannot be told from it. *)
THEOREM LimiterIsThrottle == Spec => IsThrottle
<1>1. IInv /\ [Next]_vars => IInv'
  BY NextIInv
<1>2. IInv /\ [Next]_vars => [Promise!Next]_(Promise!vars)
  BY NextPromise
<1> QED
  BY <1>1, <1>2, InitIInv, InitPromise, PTL
  DEF Spec, IsThrottle, Promise!Spec
=============================================================================
