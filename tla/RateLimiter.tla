---------------------------- MODULE RateLimiter -----------------------------
(***************************************************************************)
(* patchwork/rate_limiter.py: a RateLimiter with one lazily created        *)
(* TokenBucket per route, shared by the server threads that run the rate   *)
(* limit middleware.  is_allowed takes two locks one after the other: the  *)
(* limiter's, to find or make the bucket, and the bucket's own, to take a  *)
(* token.  Between them, reset and configure_route may put the bucket out  *)
(* of use while a thread still holds it.                                   *)
(*                                                                         *)
(* Bucket is the heap: a bucket no route and no thread refers to is free.  *)
(* Tokens are counted in parts, Unit of them to a token, and a config's    *)
(* rate is the number of parts a unit of time adds.                        *)
(***************************************************************************)
EXTENDS Naturals, FiniteSets

CONSTANTS
    Worker,    \* server threads
    Route,     \* route ids
    Bucket,    \* TokenBucket objects
    Config,    \* RateLimitConfigs: rate in parts, burst in tokens
    Default,   \* _default_config
    Unit,      \* parts of a token
    None,      \* no bucket, no config
    MaxTime    \* bound on the clock

BucketType ==
    [config : Config, tokens : Nat, last_refill : Nat, born : Nat,
     granted : Nat]

(* What Throttle shows of one.                                             *)
MeterType == [config : Config, level : Nat]

ASSUME RateLimiterAssumption ==
    /\ IsFiniteSet(Worker)
    /\ Config \subseteq [rate : Nat \ {0}, burst : Nat \ {0}]
    /\ Default \in Config
    /\ Unit \in Nat \ {0}
    /\ None \notin Route \union Bucket \union Config
    /\ None \notin BucketType \union MeterType

ASSUME MaxTimeAssumption == MaxTime \in Nat

VARIABLES
    clock,          \* time.monotonic()
    heap,           \* the TokenBucket objects
    buckets,        \* _buckets: the bucket in use for each route
    route_configs,  \* _route_configs
    held,           \* the bucket a thread found and will acquire from
    answer,         \* what each thread's last is_allowed returned, "pending"
                    \* while one is running
    stale           \* history: requests of a route allowed by a bucket that
                    \* was out of use, since the route's bucket was replaced

vars == <<clock, heap, buckets, route_configs, held, answer, stale>>

NewBucket(c) ==
    [config |-> c, tokens |-> c.burst * Unit, last_refill |-> clock,
     born |-> clock, granted |-> 0]

InUse(at, by) == {at[r] : r \in Route} \union {by[w].bucket : w \in Worker}

(* A new object: the identity of a bucket is never looked at.  The heap    *)
(* has one whenever it is larger than the routes and threads together.     *)
HeapNotFull == Bucket \ InUse(buckets, held) # {}

Fresh == CHOOSE i \in Bucket : i \notin InUse(buckets, held)

(* What is left of the heap h when unreferenced buckets are collected.     *)
Collected(h, at, by) ==
    [i \in Bucket |-> IF i \in InUse(at, by) THEN h[i] ELSE None]

Idle == [route |-> None, bucket |-> None]

-----------------------------------------------------------------------------
Init ==
    /\ clock = 0
    /\ heap = [i \in Bucket |-> None]
    /\ buckets = [r \in Route |-> None]
    /\ route_configs = [r \in Route |-> None]
    /\ held = [w \in Worker |-> Idle]
    /\ answer = [w \in Worker |-> "pending"]
    /\ stale = [r \in Route |-> 0]

(* configure_route(): the new config, and a full bucket for it at once.    *)
(* build_default_rate_limiter is a run of these calls.                     *)
ConfigureRoute(r, c) ==
    /\ HeapNotFull
    /\ route_configs' = [route_configs EXCEPT ![r] = c]
    /\ buckets' = [buckets EXCEPT ![r] = Fresh]
    /\ heap' = Collected([heap EXCEPT ![Fresh] = NewBucket(c)], buckets', held)
    /\ stale' = [stale EXCEPT ![r] = 0]
    /\ UNCHANGED <<clock, held, answer>>

(* reset(): the bucket goes, the route's config stays.                     *)
Reset(r) ==
    /\ buckets' = [buckets EXCEPT ![r] = None]
    /\ heap' = Collected(heap, buckets', held)
    /\ stale' = [stale EXCEPT ![r] = 0]
    /\ UNCHANGED <<clock, route_configs, held, answer>>

(* A plausible slip: a bucket made on demand gets the default config.      *)
DefaultConfigFor(r) == Default

(* The limits of a route: its own, or the default ones.                    *)
ConfigFor(r) == IF route_configs[r] = None THEN Default ELSE route_configs[r]

(* is_allowed(), under the limiter's lock: find the route's bucket ...     *)
FindBucket(w, r) ==
    /\ held[w] = Idle
    /\ buckets[r] # None
    /\ held' = [held EXCEPT ![w] = [route |-> r, bucket |-> buckets[r]]]
    /\ answer' = [answer EXCEPT ![w] = "pending"]
    /\ UNCHANGED <<clock, heap, buckets, route_configs, stale>>

(* ... or make it.                                                         *)
MakeBucket(w, r) ==
    /\ held[w] = Idle
    /\ buckets[r] = None
    /\ HeapNotFull
    /\ buckets' = [buckets EXCEPT ![r] = Fresh]
    /\ held' = [held EXCEPT ![w] = [route |-> r, bucket |-> Fresh]]
    /\ heap' = [heap EXCEPT ![Fresh] = NewBucket(ConfigFor(r))]
    /\ answer' = [answer EXCEPT ![w] = "pending"]
    /\ UNCHANGED <<clock, route_configs, stale>>

(* A plausible slip in _refill: last_refill stays, and the same time is    *)
(* credited again.                                                         *)
RefilledTwice(b) ==
    [b EXCEPT !.tokens =
        IF b.tokens + (clock - b.last_refill) * b.config.rate > b.config.burst * Unit
        THEN b.config.burst * Unit
        ELSE b.tokens + (clock - b.last_refill) * b.config.rate]

(* _refill(): the time since the last refill, capped at the burst.         *)
Refilled(b) ==
    LET added == (clock - b.last_refill) * b.config.rate
        full  == b.config.burst * Unit
    IN [b EXCEPT !.tokens = IF b.tokens + added > full
                            THEN full ELSE b.tokens + added,
                 !.last_refill = clock]

IsStale(w) == held[w].bucket # buckets[held[w].route]

(* acquire() under the bucket's lock: refill, then take a token if one is  *)
(* there.  The bucket may have been put out of use since it was found.     *)
Acquire(w) ==
    /\ held[w] # Idle
    /\ LET i == held[w].bucket
           b == Refilled(heap[i])
           allowed == b.tokens >= Unit
           c == IF allowed
                THEN [b EXCEPT !.tokens = @ - Unit, !.granted = @ + 1] ELSE b
       IN /\ heap' = Collected([heap EXCEPT ![i] = c], buckets, held')
          /\ answer' = [answer EXCEPT ![w] = IF allowed THEN "allowed"
                                               ELSE "refused"]
          /\ stale' = IF allowed /\ IsStale(w)
                      THEN [stale EXCEPT ![held[w].route] = @ + 1] ELSE stale
    /\ UNCHANGED <<clock, buckets, route_configs>>

(* A plausible slip: the thread keeps the bucket for its next request.     *)
AcquireKeepingBucket(w) == UNCHANGED held /\ Acquire(w)

AcquireAndReturn(w) == held' = [held EXCEPT ![w] = Idle] /\ Acquire(w)

Tick ==
    /\ clock < MaxTime
    /\ clock' = clock + 1
    /\ UNCHANGED <<heap, buckets, route_configs, held, answer, stale>>

Next ==
    \/ Tick
    \/ \E r \in Route :
         \/ \E c \in Config : ConfigureRoute(r, c)
         \/ Reset(r)
         \/ \E w \in Worker : FindBucket(w, r) \/ MakeBucket(w, r)
    \/ \E w \in Worker : AcquireAndReturn(w)

Spec == Init /\ [][Next]_vars

-----------------------------------------------------------------------------
Live == {i \in Bucket : heap[i] # None}

(* The type of every variable; a bucket never overflows nor is its time    *)
(* ahead of the clock, and what is referred to exists.                     *)
TypeOK ==
    /\ clock \in 0..MaxTime
    /\ heap \in [Bucket -> BucketType \union {None}]
    /\ Live = Bucket \intersect InUse(buckets, held)
    /\ \A i \in Live :
         /\ heap[i].tokens <= heap[i].config.burst * Unit
         /\ heap[i].born <= heap[i].last_refill
         /\ heap[i].last_refill <= clock
    /\ buckets \in [Route -> Bucket \union {None}]
    /\ route_configs \in [Route -> Config \union {None}]
    /\ held \in [Worker -> {Idle} \union [route : Route, bucket : Bucket]]
    /\ answer \in [Worker -> {"allowed", "refused", "pending"}]
    /\ stale \in [Route -> Nat]

(* A bucket never allows more than its burst and what its rate added since *)
(* it was made, however its calls are spread over time and threads.        *)
RateBound ==
    \A i \in Live :
        heap[i].granted * Unit
            <= heap[i].config.burst * Unit
               + heap[i].config.rate * (clock - heap[i].born)

(* The bucket in use for a route has the limits last configured for it:    *)
(* reset and creation on demand do not lose them.                          *)
ConfigSticks ==
    \A r \in Route :
        buckets[r] # None => heap[buckets[r]].config = ConfigFor(r)

StaleHolders(r) == {w \in Worker : held[w].route = r /\ IsStale(w)}

(* Since a route's bucket was replaced, the route has allowed beyond its   *)
(* new bucket at most one request for each thread that was caught between  *)
(* the two locks of is_allowed.                                            *)
OvershootBounded ==
    \A r \in Route :
        stale[r] + Cardinality(StaleHolders(r)) <= Cardinality(Worker)

(* The lazy arithmetic is that of a bucket that gains tokens all the time: *)
(* every answer, at whatever moment and in whatever order the threads ask, *)
(* is the one Throttle gives.                                              *)
Meter(i) ==
    IF heap[i] = None THEN None
    ELSE [config |-> heap[i].config, level |-> Refilled(heap[i]).tokens]

Meters == [i \in Bucket |-> Meter(i)]

Promise == INSTANCE Throttle WITH meter <- Meters, answer <- answer

IsThrottle == Promise!Spec
=============================================================================
