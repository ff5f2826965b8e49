------------------------- MODULE UpstreamHealthProofs -------------------------
(***************************************************************************)
(* Proofs about what the proxy keeps about its upstreams' health: the      *)
(* breakers method by method (BreakerMiddleware), the breakers assignment  *)
(* by assignment (BreakerThreads), and the health checker (HealthChecker). *)
(* Each has a specification of its own; they share no variable.            *)
(***************************************************************************)
EXTENDS BreakerMiddleware, BreakerThreads, HealthChecker, TLAPS

-----------------------------------------------------------------------------
(***************************************************************************)
(* BreakerMiddleware, for every set of workers and routes and every        *)
(* thresholds and recovery timeout, zero included.  What the counters      *)
(* promise is a property of one breaker that every method of it keeps, so  *)
(* the work is in lemmas about the operators of CircuitBreaker; the        *)
(* middleware's steps only choose the operator.                            *)
(***************************************************************************)

(* What every whole call keeps of a breaker: ClosedBelowThreshold, and     *)
(* that successes are counted below their threshold while HALF_OPEN.       *)
Sound(f, b) ==
    /\ b.state = "CLOSED" =>
         b.failure_count = 0 \/ b.failure_count < f.failure_threshold
    /\ b.success_count > 0 =>
         b.state = "HALF_OPEN" /\ b.success_count < f.success_threshold

MethodsIInv ==
    /\ TypeOK
    /\ \A r \in Route : Sound(Effective, registry[r])

-----------------------------------------------------------------------------
LEMMA NewBreakerSound ==
    ASSUME NEW f \in BreakerConfig
    PROVE  NewBreaker \in Breaker(f) /\ Sound(f, NewBreaker)
BY MaxCountAssumption
DEF BreakerConfig, NewBreaker, Breaker, CircuitState, Sound

(* The two multi-field updates, field by field.                            *)
LEMMA OpenedFields ==
    ASSUME NEW f \in BreakerConfig, NEW b \in Breaker(f)
    PROVE  /\ Opened(b) \in Breaker(f)
           /\ Opened(b).state = "OPEN"
           /\ Opened(b).success_count = 0
<1>1. 0 \in 0..f.success_threshold /\ 0 \in 0..f.recovery_timeout
  BY DEF BreakerConfig
<1> QED  BY <1>1 DEF Opened, Breaker, CircuitState

LEMMA ClosedFields ==
    ASSUME NEW f \in BreakerConfig, NEW b \in Breaker(f)
    PROVE  /\ Closed(b) \in Breaker(f)
           /\ Closed(b).failure_count = 0
           /\ Closed(b).success_count = 0
<1>1. 0 \in 0..f.success_threshold /\ 0 \in 0..MaxCount
  BY MaxCountAssumption DEF BreakerConfig
<1> QED  BY <1>1 DEF Closed, Breaker, CircuitState

LEMMA IsOpenSound ==
    ASSUME NEW f \in BreakerConfig, NEW b \in Breaker(f), Sound(f, b)
    PROVE  IsOpen(f, b) \in Breaker(f) /\ Sound(f, IsOpen(f, b))
<1> DEFINE c == [b EXCEPT !.state = "HALF_OPEN", !.success_count = 0]
<1>1. 0 \in 0..f.success_threshold
  BY DEF BreakerConfig
<1>2. c \in Breaker(f) /\ c.state = "HALF_OPEN" /\ c.success_count = 0
  BY <1>1 DEF Breaker, CircuitState
<1>3. Sound(f, c)
  BY <1>2 DEF Sound
<1> QED  BY <1>2, <1>3 DEF IsOpen

LEMMA RecordSuccessSound ==
    ASSUME NEW f \in BreakerConfig, NEW b \in Breaker(f), Sound(f, b)
    PROVE  RecordSuccess(f, b) \in Breaker(f) /\ Sound(f, RecordSuccess(f, b))
<1>1. CASE b.state = "HALF_OPEN"
  <2>1. CASE b.success_count + 1 >= f.success_threshold
    <3>1. RecordSuccess(f, b) = Closed(b)
      BY <1>1, <2>1 DEF RecordSuccess, Breaker, BreakerConfig
    <3> QED  BY <3>1, ClosedFields DEF Sound
  <2>2. CASE b.success_count + 1 < f.success_threshold
    <3>1. RecordSuccess(f, b) = [b EXCEPT !.success_count = @ + 1]
      BY <1>1, <2>2 DEF RecordSuccess, Breaker, BreakerConfig
    <3> QED
      BY <1>1, <2>2, <3>1 DEF Breaker, BreakerConfig, CircuitState, Sound
  <2> QED  BY <2>1, <2>2 DEF Breaker, BreakerConfig
<1>2. CASE b.state = "CLOSED"
  <2>1. RecordSuccess(f, b) = [b EXCEPT !.failure_count = 0]
    BY <1>2 DEF RecordSuccess
  <2> QED
    BY <1>2, <2>1, MaxCountAssumption
    DEF Breaker, BreakerConfig, CircuitState, Sound
<1>3. CASE b.state = "OPEN"
  BY <1>3 DEF RecordSuccess
<1> QED  BY <1>1, <1>2, <1>3 DEF Breaker, CircuitState

LEMMA RecordFailureSound ==
    ASSUME NEW f \in BreakerConfig, NEW b \in Breaker(f), Sound(f, b)
    PROVE  RecordFailure(f, b) \in Breaker(f) /\ Sound(f, RecordFailure(f, b))
<1> DEFINE c == CountFailure(b)
<1> DEFINE Trips == \/ b.state = "HALF_OPEN"
                    \/ b.state = "CLOSED" /\ c.failure_count >= f.failure_threshold
<1>1. /\ c \in Breaker(f)
      /\ c.state = b.state
      /\ c.success_count = b.success_count
      /\ c.open_for = b.open_for
  BY MaxCountAssumption DEF CountFailure, Breaker
<1>2. CASE Trips
  <2>1. RecordFailure(f, b) = Opened(c)
    BY <1>2 DEF RecordFailure
  <2> HIDE DEF c
  <2> QED  BY <1>1, <2>1, OpenedFields DEF Sound
<1>3. CASE ~Trips
  <2>1. RecordFailure(f, b) = c
    <3> HIDE DEF c
    <3>1. RecordFailure(f, b) = IF Trips THEN Opened(c) ELSE c
      BY DEF RecordFailure, c
    <3> QED  BY <1>3, <3>1
  <2> HIDE DEF c
  <2> QED
    BY <1>1, <1>3, <2>1 DEF Breaker, BreakerConfig, CircuitState, Sound
<1> HIDE DEF Trips
<1> QED  BY <1>2, <1>3

LEMMA AgedSound ==
    ASSUME NEW f \in BreakerConfig, NEW b \in Breaker(f), Sound(f, b)
    PROVE  Aged(f, b) \in Breaker(f) /\ Sound(f, Aged(f, b))
BY DEF BreakerConfig, Breaker, CircuitState, Sound, Aged, Blocks

-----------------------------------------------------------------------------
(* Every step leaves each breaker alone or runs one method on it.          *)
LEMMA OneMethod ==
    ASSUME TypeOK, [Next]_vars, NEW r \in Route
    PROVE  registry'[r] \in {registry[r],
                             IsOpen(Effective, registry[r]),
                             RecordSuccess(Effective, registry[r]),
                             RecordFailure(Effective, registry[r]),
                             Aged(Effective, registry[r])}
<1>1. ASSUME NEW w \in Worker, Pre(w)
      PROVE  registry'[r] \in {registry[r], IsOpen(Effective, registry[r])}
  BY <1>1 DEF Pre, TypeOK
<1>2. ASSUME NEW w \in Worker, PostReport(w)
      PROVE  registry'[r] \in {registry[r],
                               RecordSuccess(Effective, registry[r]),
                               RecordFailure(Effective, registry[r])}
  BY <1>2 DEF PostReport, TypeOK
<1>3. ASSUME Tick PROVE registry'[r] = Aged(Effective, registry[r])
  BY <1>3 DEF Tick
<1>4. ASSUME NEW w \in Worker,
             \/ \E q \in Route : Arrive(w, q)
             \/ \E s \in Status : Answer(w, s)
             \/ PostBlocked(w) \/ Raise(w) \/ UNCHANGED vars
      PROVE  registry' = registry
  BY <1>4 DEF Arrive, Answer, PostBlocked, Raise, vars
<1>5. CASE UNCHANGED vars
  BY <1>5 DEF vars
<1> QED  BY <1>1, <1>2, <1>3, <1>4, <1>5 DEF Next, Step

LEMMA ContextType ==
    ASSUME TypeOK, [Next]_vars
    PROVE  ctx' \in [Worker -> Context]
<1>1. ASSUME NEW w \in Worker, NEW r \in Route, Arrive(w, r)
      PROVE  ctx' \in [Worker -> Context]
  BY <1>1 DEF Arrive, TypeOK, Context
<1>2. ASSUME NEW w \in Worker, ctx[w].phase # "idle"
      PROVE  ctx[w] # NoContext /\ ctx[w].route \in Route
  <2>1. ctx[w] \in Context /\ ctx[w] # NoContext
    BY <1>2 DEF TypeOK, NoContext
  <2> QED  BY <2>1 DEF Context
<1>3. ASSUME NEW w \in Worker, Pre(w)
      PROVE  ctx' \in [Worker -> Context]
  <2>1. ctx[w].phase # "idle"
    BY <1>3 DEF Pre
  <2>2. ctx[w] \in [phase : {"arrived", "admitted", "blocked"}, route : Route]
    BY <1>3, <1>2, <2>1 DEF Pre, TypeOK, Context
  <2>3. \A p \in {"admitted", "blocked"} : [ctx[w] EXCEPT !.phase = p] \in Context
    BY <2>2 DEF Context
  <2>4. \E p \in {"admitted", "blocked"} : ctx' = [ctx EXCEPT ![w].phase = p]
    BY <1>3 DEF Pre
  <2> QED  BY <2>3, <2>4 DEF TypeOK
<1>4. ASSUME NEW w \in Worker, NEW s \in Status, Answer(w, s)
      PROVE  ctx' \in [Worker -> Context]
  BY <1>4, <1>2 DEF Answer, TypeOK, Context
<1>5. ASSUME NEW w \in Worker, PostBlocked(w) \/ PostReport(w) \/ Raise(w)
      PROVE  ctx' \in [Worker -> Context]
  BY <1>5 DEF PostBlocked, PostReport, Raise, TypeOK, Context
<1>6. CASE Tick \/ UNCHANGED vars
  BY <1>6 DEF Tick, TypeOK, vars
<1> QED  BY <1>1, <1>3, <1>4, <1>5, <1>6 DEF Next, Step

LEMMA NextMethodsIInv == MethodsIInv /\ [Next]_vars => MethodsIInv'
<1> SUFFICES ASSUME MethodsIInv, [Next]_vars PROVE MethodsIInv'
  OBVIOUS
<1>1. Effective \in BreakerConfig
  BY BreakerAssumption DEF Effective
<1>2. \A r \in Route : registry'[r] \in Breaker(Effective)
                       /\ Sound(Effective, registry'[r])
  <2> TAKE r \in Route
  <2>1. registry[r] \in Breaker(Effective) /\ Sound(Effective, registry[r])
    BY DEF MethodsIInv, TypeOK
  <2> QED
    BY <1>1, <2>1, OneMethod, IsOpenSound, RecordSuccessSound,
       RecordFailureSound, AgedSound DEF MethodsIInv
<1>3. registry' = [r \in Route |-> registry'[r]]
  <2>1. ASSUME NEW w \in Worker, Pre(w) \/ PostReport(w)
        PROVE  registry' = [r \in Route |-> registry'[r]]
    BY <2>1 DEF Pre, PostReport, MethodsIInv, TypeOK
  <2>2. CASE Tick
    BY <2>2 DEF Tick
  <2>3. CASE registry' = registry
    BY <2>3 DEF MethodsIInv, TypeOK
  <2> QED
    BY <2>1, <2>2, <2>3
    DEF Next, Step, Arrive, Answer, PostBlocked, Raise, vars
<1>4. registry' \in [Route -> Breaker(Effective)]
  BY <1>2, <1>3
<1> QED
  BY <1>2, <1>4, ContextType DEF MethodsIInv, TypeOK, Effective

LEMMA InitMethodsIInv == Init => MethodsIInv
BY BreakerAssumption, NewBreakerSound
DEF Init, MethodsIInv, TypeOK, Context, Effective

-----------------------------------------------------------------------------
THEOREM MethodsInvariance == Spec => []MethodsIInv
BY InitMethodsIInv, NextMethodsIInv, PTL DEF Spec

(* Every variable keeps its type.                                          *)
THEOREM MethodsTypeCorrect == Spec => []TypeOK
<1>1. MethodsIInv => TypeOK
  BY DEF MethodsIInv
<1> QED  BY <1>1, MethodsInvariance, PTL

(* A closed circuit is below its failure threshold.                        *)
THEOREM ClosedIsBelowThreshold == Spec => []ClosedBelowThreshold
<1>1. MethodsIInv => ClosedBelowThreshold
  BY DEF MethodsIInv, Sound, ClosedBelowThreshold
<1> QED  BY <1>1, MethodsInvariance, PTL

-----------------------------------------------------------------------------
(***************************************************************************)
(* BreakerThreads: no interleaving of the breaker's unlocked assignments   *)
(* leaves it CLOSED at its threshold, and a circuit that is open has its   *)
(* clock set back only by threads that were on their way to do so, for     *)
(* every number of threads and every thresholds and recovery timeout.      *)
(*                                                                         *)
(* A step concerns one thread and the breaker it works on.  The steps come *)
(* in five forms - a test, an assignment, a read, a write of what was read *)
(* and one more, and a look-up - and what they do to the state is stated   *)
(* once for each form; it then remains to say, of each step, that it       *)
(* leaves its breaker calm or the thread where it will calm it.            *)
(***************************************************************************)

BType ==
    [state : CircuitState, failure_count : Nat, success_count : Nat,
     open_for : 0..ThreadConfig.recovery_timeout]

ThreadType ==
    /\ entry \in Thread \union {Nobody}
    /\ breaker \in [Thread -> BType]
    /\ at = [w \in Thread |-> at[w]]
    /\ mine \in [Thread -> Thread \union {Nobody}]
    /\ count \in [Thread -> Nat]

(* A breaker that TripPending asks nothing about.                          *)
Calm(b) ==
    ~(/\ b.state = "CLOSED"
      /\ b.failure_count > 0
      /\ b.failure_count >= ThreadConfig.failure_threshold)

Attending == {"failure_state", "failure_elif", "threshold", "open",
              "close_failures"}

ThreadsIInv == ThreadType /\ TripPending

(* Where a thread has not seen to it that the route has an entry; where it *)
(* has no breaker; and that everywhere else it has.                        *)
Early   == {"idle", "lookup", "insert"}
Outside == Early \union {"get", "admitted"}

HasBreaker ==
    /\ entry \in Thread \union {Nobody}
    /\ at = [w \in Thread |-> at[w]]
    /\ mine = [w \in Thread |-> mine[w]]
    /\ \A w \in Thread :
         /\ at[w] \notin Early => entry # Nobody
         /\ at[w] \notin Outside => mine[w] # Nobody

(* The thread w moves, and the others do not.                              *)
OnlyMoves(w) ==
    \A v \in Thread \ {w} : at'[v] = at[v] /\ mine'[v] = mine[v]

(* It stays with its breaker unless it leaves the methods.                 *)
StaysOrLeaves(w) ==
    at'[w] \in {"idle", "admitted"} \/ mine'[w] = mine[w]

(* It moves from p to q, which is all a test of a condition does.          *)
Chooses(w, p, q) ==
    At(w, p) /\ GoesOn(w, q) /\ Becomes(breaker) /\ UNCHANGED <<entry, count>>

(* It moves from p to q, and its breaker ends up as n, or is forgotten.    *)
Sets(w, p, n, q) ==
    /\ ThreadType'
    /\ at[w] = p /\ at'[w] = q
    /\ OnlyMoves(w) /\ StaysOrLeaves(w)
    /\ \A b \in Thread : \/ breaker'[b] = breaker[b] /\ mine[w] # b
                         \/ Calm(breaker'[b])
                         \/ breaker'[b] = n /\ mine[w] = b

-----------------------------------------------------------------------------
LEMMA ConfigType ==
    /\ ThreadConfig.failure_threshold \in Nat
    /\ ThreadConfig.success_threshold \in Nat
    /\ ThreadConfig.recovery_timeout \in Nat
BY ThreadAssumption, MaxCountAssumption DEF BreakerConfig

LEMMA NewBreakerCalm == NewBreaker \in BType /\ Calm(NewBreaker)
BY ConfigType DEF NewBreaker, BType, CircuitState, Calm

(* A step keeps ThreadsIInv if it leaves every calm breaker calm, or       *)
(* attended by the thread that moves, and the one that thread has attended *)
(* to as well.                                                             *)
LEMMA StepKeepsThreads ==
    ASSUME ThreadsIInv, ThreadType', NEW w \in Thread, OnlyMoves(w),
           \A b \in Thread : \/ ~Calm(breaker[b])
                             \/ Calm(breaker'[b])
                             \/ mine'[w] = b /\ at'[w] \in Attending,
           at[w] \in Attending =>
             \A b \in Thread : mine[w] = b =>
                 \/ Calm(breaker'[b])
                 \/ mine'[w] = b /\ at'[w] \in Attending
    PROVE  ThreadsIInv'
<1>1. ASSUME NEW b \in Thread, ~Calm(breaker'[b])
      PROVE  \E v \in Thread : mine'[v] = b /\ at'[v] \in Attending
  <2>1. CASE mine'[w] = b /\ at'[w] \in Attending
    BY <2>1
  <2>2. CASE ~(mine'[w] = b /\ at'[w] \in Attending)
    <3>1. ~Calm(breaker[b])
      BY <1>1, <2>2
    <3>2. PICK v \in Thread : mine[v] = b /\ at[v] \in Attending
      BY <3>1 DEF ThreadsIInv, TripPending, Calm, Attending
    <3>3. v # w
      BY <1>1, <2>2, <3>2
    <3> QED  BY <3>2, <3>3 DEF OnlyMoves
  <2> QED  BY <2>1, <2>2
<1> QED  BY <1>1 DEF ThreadsIInv, TripPending, Calm, Attending

(* What Becomes(h) makes of the breakers.                                  *)
LEMMA BecomesFacts ==
    ASSUME NEW h \in [Thread -> BType], Becomes(h)
    PROVE  /\ breaker' \in [Thread -> BType]
           /\ \A b \in Thread : breaker'[b] = h[b] \/ breaker'[b] = NewBreaker
BY NewBreakerCalm DEF Becomes

(* What each form of step does.                                            *)
LEMMA GoesOnFacts ==
    ASSUME ThreadType, NEW w \in Thread, NEW q, GoesOn(w, q)
    PROVE  /\ at' = [v \in Thread |-> at'[v]]
           /\ mine' \in [Thread -> Thread \union {Nobody}]
           /\ at'[w] = q
           /\ OnlyMoves(w) /\ StaysOrLeaves(w)
BY DEF ThreadType, GoesOn, OnlyMoves, StaysOrLeaves

LEMMA ChoosesFacts ==
    ASSUME ThreadType, NEW w \in Thread, NEW p, NEW q,
           Chooses(w, p, q)
    PROVE  /\ ThreadType'
           /\ at[w] = p /\ at'[w] = q
           /\ OnlyMoves(w) /\ StaysOrLeaves(w)
           /\ \A b \in Thread : breaker'[b] = breaker[b] \/ Calm(breaker'[b])
<1>1. /\ breaker' \in [Thread -> BType]
      /\ \A b \in Thread : breaker'[b] = breaker[b] \/ breaker'[b] = NewBreaker
  BY BecomesFacts DEF Chooses, ThreadType
<1> QED
  BY <1>1, GoesOnFacts, NewBreakerCalm DEF Chooses, ThreadType, At

LEMMA AssignsFacts ==
    ASSUME ThreadType, NEW w \in Thread, NEW p, NEW n, NEW q,
           n \in BType \/ mine[w] = Nobody, Assigns(w, p, n, q)
    PROVE  Sets(w, p, n, q)
<1> DEFINE h == [breaker EXCEPT ![mine[w]] = n]
<1>1. /\ h \in [Thread -> BType]
      /\ \A b \in Thread : h[b] = IF mine[w] = b THEN n ELSE breaker[b]
  BY ThreadAssumption DEF ThreadType
<1>2. Becomes(h)
  BY DEF Assigns
<1> HIDE DEF h
<1>3. /\ breaker' \in [Thread -> BType]
      /\ \A b \in Thread : breaker'[b] = h[b] \/ breaker'[b] = NewBreaker
  BY <1>1, <1>2, BecomesFacts
<1> QED
  BY <1>1, <1>3, GoesOnFacts, NewBreakerCalm DEF Sets, Assigns, ThreadType, At

LEMMA ReadsFacts ==
    ASSUME ThreadType, NEW w \in Thread, NEW p, NEW n \in Nat,
           NEW q, Reads(w, p, n, q)
    PROVE  /\ ThreadType'
           /\ at[w] = p /\ at'[w] = q
           /\ OnlyMoves(w) /\ StaysOrLeaves(w)
           /\ breaker' = breaker
BY GoesOnFacts DEF Reads, ThreadType, At

LEMMA WritesFacts ==
    ASSUME ThreadType, NEW w \in Thread, NEW p, NEW n, NEW q,
           n \in BType \/ mine[w] = Nobody, Writes(w, p, n, q)
    PROVE  Sets(w, p, n, q)
<1> DEFINE h == [breaker EXCEPT ![mine[w]] = n]
<1>1. /\ h \in [Thread -> BType]
      /\ \A b \in Thread : h[b] = IF mine[w] = b THEN n ELSE breaker[b]
  BY ThreadAssumption DEF ThreadType
<1>2. Becomes(h)
  BY DEF Writes
<1> HIDE DEF h
<1>3. /\ breaker' \in [Thread -> BType]
      /\ \A b \in Thread : breaker'[b] = h[b] \/ breaker'[b] = NewBreaker
  BY <1>1, <1>2, BecomesFacts
<1> QED
  BY <1>1, <1>3, GoesOnFacts, NewBreakerCalm DEF Sets, Writes, ThreadType, At

LEMMA GetsFacts ==
    ASSUME ThreadType, NEW w \in Thread, NEW q, Gets(w, q)
    PROVE  /\ ThreadType'
           /\ at'[w] = q
           /\ OnlyMoves(w)
           /\ breaker' = breaker
BY DEF Gets, ThreadType, OnlyMoves

(* The attributes a thread reads, if it has a breaker.                     *)
LEMMA AttributeType ==
    ASSUME ThreadType, NEW w \in Thread, mine[w] # Nobody
    PROVE  Attribute(w) \in BType
BY DEF ThreadType, Attribute

-----------------------------------------------------------------------------
(* The consequences for TripPending, form by form.  A thread that tests    *)
(* and attended to its breaker attends to it still, or finds it calm.      *)
LEMMA TestKeepsThreads ==
    ASSUME ThreadsIInv, NEW w \in Thread, NEW p, NEW q, Chooses(w, p, q),
           p \in Attending /\ mine[w] # Nobody =>
             Calm(Attribute(w)) \/ q \in Attending
    PROVE  ThreadsIInv'
<1>1. ThreadType
  BY DEF ThreadsIInv
<1>2. /\ ThreadType'
      /\ at[w] = p /\ at'[w] = q
      /\ OnlyMoves(w) /\ StaysOrLeaves(w)
      /\ \A b \in Thread : breaker'[b] = breaker[b] \/ Calm(breaker'[b])
  BY <1>1, ChoosesFacts
<1>3. ASSUME at[w] \in Attending, NEW b \in Thread, mine[w] = b
      PROVE  \/ Calm(breaker'[b])
             \/ mine'[w] = b /\ at'[w] \in Attending
  <2>1. mine[w] # Nobody
    BY <1>3, ThreadAssumption
  <2>2. CASE Calm(Attribute(w))
    BY <1>2, <1>3, <2>2 DEF Attribute
  <2>3. CASE at'[w] \in Attending
    BY <1>2, <1>3, <2>3 DEF StaysOrLeaves, Attending
  <2> QED  BY <1>2, <1>3, <2>1, <2>2, <2>3
<1> QED  BY <1>2, <1>3, StepKeepsThreads

(* A thread that assigns leaves its breaker calm, or goes on attending to  *)
(* it, or leaves it as it was to someone else.                             *)
LEMMA AssignKeepsThreads ==
    ASSUME ThreadsIInv, NEW w \in Thread, NEW p, NEW n, NEW q,
           Assigns(w, p, n, q) \/ Writes(w, p, n, q),
           mine[w] # Nobody =>
             /\ n \in BType
             /\ \/ Calm(n)
                \/ q \in Attending
                \/ p \notin Attending /\ ~Calm(Attribute(w))
    PROVE  ThreadsIInv'
<1>1. ThreadType /\ (n \in BType \/ mine[w] = Nobody)
  BY DEF ThreadsIInv
<1>2. Sets(w, p, n, q)
  <2>1. CASE Assigns(w, p, n, q)
    BY <1>1, <2>1, AssignsFacts
  <2>2. CASE Writes(w, p, n, q)
    BY <1>1, <2>2, WritesFacts
  <2> QED  BY <2>1, <2>2
<1>3. ASSUME NEW b \in Thread, mine[w] = b
      PROVE  \/ Calm(breaker'[b])
             \/ mine'[w] = b /\ at'[w] \in Attending
             \/ p \notin Attending /\ ~Calm(breaker[b])
  BY <1>2, <1>3, ThreadAssumption
  DEF Sets, StaysOrLeaves, Attending, Attribute
<1>4. ASSUME NEW b \in Thread
      PROVE  \/ ~Calm(breaker[b])
             \/ Calm(breaker'[b])
             \/ mine'[w] = b /\ at'[w] \in Attending
  BY <1>2, <1>3, <1>4 DEF Sets
<1> QED  BY <1>2, <1>3, <1>4, StepKeepsThreads DEF Sets

(* Reading and looking up leave the breakers alone, and no thread does     *)
(* either while it attends to one.                                         *)
LEMMA ReadKeepsThreads ==
    ASSUME ThreadsIInv, NEW w \in Thread, at[w] \notin Attending,
           ThreadType', OnlyMoves(w), breaker' = breaker
    PROVE  ThreadsIInv'
BY StepKeepsThreads

-----------------------------------------------------------------------------
LEMMA InitThreadsIInv == ThreadInit => ThreadsIInv
<1> SUFFICES ASSUME ThreadInit  PROVE ThreadsIInv
  OBVIOUS
<1>1. ThreadType
  BY NewBreakerCalm DEF ThreadInit, ThreadType
<1>2. \A b \in Thread : Calm(breaker[b])
  BY NewBreakerCalm DEF ThreadInit
<1> QED  BY <1>1, <1>2 DEF ThreadsIInv, TripPending, Calm

(* The middleware's steps: none of them is taken while a breaker is        *)
(* attended to.                                                            *)
LEMMA MiddlewareKeepsThreads ==
    ASSUME ThreadsIInv, NEW w \in Thread,
           \/ Request(w) \/ Vanishes(w) \/ Lookup(w) \/ Insert(w)
           \/ GetBreaker(w) \/ \E ok \in BOOLEAN : Answers(w, ok)
    PROVE  ThreadsIInv'
<1> ThreadType
  BY DEF ThreadsIInv
<1>1. CASE Request(w)
  BY <1>1, GoesOnFacts, ReadKeepsThreads
  DEF Request, At, ThreadType, Attending
<1>2. CASE Vanishes(w)
  BY <1>2, GoesOnFacts, ReadKeepsThreads
  DEF Vanishes, At, ThreadType, Attending
<1>3. CASE Lookup(w)
  <2>1. Chooses(w, "lookup", "insert") \/ Chooses(w, "lookup", "get")
    BY <1>3 DEF Lookup, Tests, Chooses
  <2>2. "lookup" \notin Attending
    BY DEF Attending
  <2> QED  BY <2>1, <2>2, TestKeepsThreads
<1>4. CASE Insert(w)
  <2>1. PICK n \in 0..ThreadConfig.recovery_timeout :
          breaker' = [breaker EXCEPT ![w] = [NewBreaker EXCEPT !.open_for = n]]
    BY <1>4 DEF Insert
  <2>2. /\ [NewBreaker EXCEPT !.open_for = n] \in BType
        /\ Calm([NewBreaker EXCEPT !.open_for = n])
    BY NewBreakerCalm, ConfigType DEF BType, Calm, NewBreaker
  <2>3. /\ breaker' \in [Thread -> BType]
        /\ \A b \in Thread : Calm(breaker[b]) => Calm(breaker'[b])
    BY <2>1, <2>2 DEF ThreadType
  <2>4. GoesOn(w, "get") /\ at[w] = "insert"
    BY <1>4 DEF Insert, At
  <2>5. ThreadType' /\ OnlyMoves(w)
    BY <1>4, <2>3, <2>4, GoesOnFacts DEF Insert, ThreadType
  <2> QED  BY <2>3, <2>4, <2>5, StepKeepsThreads DEF Attending
<1>5. CASE GetBreaker(w)
  <2>1. Gets(w, "is_open") /\ at[w] \notin Attending
    BY <1>5 DEF GetBreaker, At, Attending
  <2> QED  BY <2>1, GetsFacts, ReadKeepsThreads
<1>6. CASE \E ok \in BOOLEAN : Answers(w, ok)
  <2>1. /\ at[w] = "admitted"
        /\ Gets(w, "success_state") \/ Gets(w, "read_failures")
    BY <1>6 DEF Answers, At
  <2>2. at[w] \notin Attending
    BY <2>1 DEF Attending
  <2> QED  BY <2>1, <2>2, GetsFacts, ReadKeepsThreads
<1> QED  BY <1>1, <1>2, <1>3, <1>4, <1>5, <1>6

(* The tests of the breaker's methods.                                     *)
LEMMA TestSteps ==
    ASSUME ThreadsIInv, NEW w \in Thread,
           \/ IsOpenState(w) \/ IsOpenElapsed(w)
           \/ SuccessState(w) \/ SuccessElif(w) \/ Enough(w)
           \/ FailureState(w) \/ FailureElif(w) \/ Threshold(w)
    PROVE  ThreadsIInv'
<1>1. CASE IsOpenState(w)
  <2>1. \/ Chooses(w, "is_open", "elapsed")
        \/ Chooses(w, "is_open", "admitted")
    BY <1>1 DEF IsOpenState, Tests, Chooses
  <2>2. "is_open" \notin Attending
    BY DEF Attending
  <2> QED  BY <2>1, <2>2, TestKeepsThreads
<1>2. CASE IsOpenElapsed(w)
  <2>1. \/ Chooses(w, "elapsed", "half_open")
        \/ Chooses(w, "elapsed", "idle")
    BY <1>2 DEF IsOpenElapsed, Tests, Chooses
  <2>2. "elapsed" \notin Attending
    BY DEF Attending
  <2> QED  BY <2>1, <2>2, TestKeepsThreads
<1>3. CASE SuccessState(w)
  <2>1. \/ Chooses(w, "success_state", "read_successes")
        \/ Chooses(w, "success_state", "success_elif")
    BY <1>3 DEF SuccessState, Tests, Chooses
  <2>2. "success_state" \notin Attending
    BY DEF Attending
  <2> QED  BY <2>1, <2>2, TestKeepsThreads
<1>4. CASE SuccessElif(w)
  <2>1. \/ Chooses(w, "success_elif", "forget")
        \/ Chooses(w, "success_elif", "idle")
    BY <1>4 DEF SuccessElif, Tests, Chooses
  <2>2. "success_elif" \notin Attending
    BY DEF Attending
  <2> QED  BY <2>1, <2>2, TestKeepsThreads
<1>5. CASE Enough(w)
  <2>1. \/ Chooses(w, "enough", "close")
        \/ Chooses(w, "enough", "idle")
    BY <1>5 DEF Enough, Tests, Chooses
  <2>2. "enough" \notin Attending
    BY DEF Attending
  <2> QED  BY <2>1, <2>2, TestKeepsThreads
<1>6. CASE FailureState(w)
  <2>1. \/ Chooses(w, "failure_state", "open")
        \/ Chooses(w, "failure_state", "failure_elif")
    BY <1>6 DEF FailureState, Tests, Chooses
  <2>2. "open" \in Attending /\ "failure_elif" \in Attending
    BY DEF Attending
  <2> QED  BY <2>1, <2>2, TestKeepsThreads
<1>7. CASE FailureElif(w)
  <2>1. \/ Chooses(w, "failure_elif", "threshold")
        \/ Chooses(w, "failure_elif", "idle") /\ Calm(Attribute(w))
    BY <1>7 DEF FailureElif, Tests, Chooses, Calm
  <2>2. "threshold" \in Attending
    BY DEF Attending
  <2> QED  BY <2>1, <2>2, TestKeepsThreads
<1>8. CASE Threshold(w)
  <2>1. \/ Chooses(w, "threshold", "open")
        \/ Chooses(w, "threshold", "idle") /\ Calm(Attribute(w))
    BY <1>8 DEF Threshold, Tests, Chooses, Calm
  <2>2. "open" \in Attending
    BY DEF Attending
  <2> QED  BY <2>1, <2>2, TestKeepsThreads
<1> QED  BY <1>1, <1>2, <1>3, <1>4, <1>5, <1>6, <1>7, <1>8

(* The assignments of the breaker's methods.                               *)
LEMMA AssignSteps ==
    ASSUME ThreadsIInv, NEW w \in Thread,
           \/ HalfOpen(w) \/ Probe(w) \/ Forget(w) \/ WriteSuccesses(w)
           \/ CloseState(w) \/ CloseFailures(w) \/ CloseSuccesses(w)
           \/ WriteFailureCount(w)
           \/ OpenState(w) \/ OpenedAt(w) \/ OpenClear(w)
    PROVE  ThreadsIInv'
<1> DEFINE b == Attribute(w)
<1>a. mine[w] # Nobody => b \in BType
  BY AttributeType DEF ThreadsIInv
<1>b. /\ UpTo(count[w] + 1, ThreadConfig.success_threshold) \in Nat
      /\ UpTo(count[w] + 1, MaxCount) \in Nat
  BY ConfigType, MaxCountAssumption DEF UpTo, ThreadsIInv, ThreadType
<1> HIDE DEF b
<1>1. CASE HalfOpen(w)
  <2> DEFINE n == [b EXCEPT !.state = "HALF_OPEN"]
  <2>1. Assigns(w, "half_open", n, "probe")
    BY <1>1 DEF HalfOpen, b
  <2>2. mine[w] # Nobody => n \in BType /\ Calm(n)
    BY <1>a, <1>b DEF BType, CircuitState, Calm
  <2> HIDE DEF n
  <2> QED  BY <2>1, <2>2, AssignKeepsThreads
<1>2. CASE Probe(w)
  <2> DEFINE n == [b EXCEPT !.success_count = 0]
  <2>1. Assigns(w, "probe", n, "admitted")
    BY <1>2 DEF Probe, b
  <2>2. mine[w] # Nobody => n \in BType /\ (Calm(n) \/ ~Calm(b))
    BY <1>a, <1>b DEF BType, CircuitState, Calm
  <2>3. "probe" \notin Attending
    BY DEF Attending
  <2> HIDE DEF n
  <2> QED  BY <2>1, <2>2, <2>3, AssignKeepsThreads DEF b
<1>3. CASE Forget(w)
  <2> DEFINE n == [b EXCEPT !.failure_count = 0]
  <2>1. Assigns(w, "forget", n, "idle")
    BY <1>3 DEF Forget, b
  <2>2. mine[w] # Nobody => n \in BType /\ Calm(n)
    BY <1>a, <1>b DEF BType, CircuitState, Calm
  <2> HIDE DEF n
  <2> QED  BY <2>1, <2>2, AssignKeepsThreads
<1>4. CASE WriteSuccesses(w)
  <2> DEFINE n == [b EXCEPT !.success_count =
                    UpTo(count[w] + 1, ThreadConfig.success_threshold)]
  <2>1. Writes(w, "write_successes", n, "enough")
    BY <1>4 DEF WriteSuccesses, b
  <2>2. mine[w] # Nobody => n \in BType /\ (Calm(n) \/ ~Calm(b))
    BY <1>a, <1>b DEF BType, CircuitState, Calm
  <2>3. "write_successes" \notin Attending
    BY DEF Attending
  <2> HIDE DEF n
  <2> QED  BY <2>1, <2>2, <2>3, AssignKeepsThreads DEF b
<1>5. CASE CloseState(w)
  <2> DEFINE n == [b EXCEPT !.state = "CLOSED"]
  <2>1. Assigns(w, "close", n, "close_failures")
    BY <1>5 DEF CloseState, b
  <2>2. mine[w] # Nobody => n \in BType
    BY <1>a, <1>b DEF BType, CircuitState
  <2>3. "close_failures" \in Attending
    BY DEF Attending
  <2> HIDE DEF n
  <2> QED  BY <2>1, <2>2, <2>3, AssignKeepsThreads
<1>6. CASE CloseFailures(w)
  <2> DEFINE n == [b EXCEPT !.failure_count = 0]
  <2>1. Assigns(w, "close_failures", n, "close_successes")
    BY <1>6 DEF CloseFailures, b
  <2>2. mine[w] # Nobody => n \in BType /\ Calm(n)
    BY <1>a, <1>b DEF BType, CircuitState, Calm
  <2> HIDE DEF n
  <2> QED  BY <2>1, <2>2, AssignKeepsThreads
<1>7. CASE CloseSuccesses(w)
  <2> DEFINE n == [b EXCEPT !.success_count = 0]
  <2>1. Assigns(w, "close_successes", n, "idle")
    BY <1>7 DEF CloseSuccesses, b
  <2>2. mine[w] # Nobody => n \in BType /\ (Calm(n) \/ ~Calm(b))
    BY <1>a, <1>b DEF BType, CircuitState, Calm
  <2>3. "close_successes" \notin Attending
    BY DEF Attending
  <2> HIDE DEF n
  <2> QED  BY <2>1, <2>2, <2>3, AssignKeepsThreads DEF b
<1>8. CASE WriteFailureCount(w)
  <2> DEFINE n == [b EXCEPT !.failure_count = UpTo(count[w] + 1, MaxCount)]
  <2>1. Writes(w, "write_failures", n, "failure_state")
    BY <1>8 DEF WriteFailureCount, b
  <2>2. mine[w] # Nobody => n \in BType
    BY <1>a, <1>b DEF BType, CircuitState
  <2>3. "failure_state" \in Attending
    BY DEF Attending
  <2> HIDE DEF n
  <2> QED  BY <2>1, <2>2, <2>3, AssignKeepsThreads
<1>9. CASE OpenState(w)
  <2> DEFINE n == [b EXCEPT !.state = "OPEN"]
  <2>1. Assigns(w, "open", n, "opened_at")
    BY <1>9 DEF OpenState, b
  <2>2. mine[w] # Nobody => n \in BType /\ Calm(n)
    BY <1>a, <1>b DEF BType, CircuitState, Calm
  <2> HIDE DEF n
  <2> QED  BY <2>1, <2>2, AssignKeepsThreads
<1>10. CASE OpenedAt(w)
  <2> DEFINE n == [b EXCEPT !.open_for = 0]
  <2>1. Assigns(w, "opened_at", n, "open_clear")
    BY <1>10 DEF OpenedAt, b
  <2>2. mine[w] # Nobody => n \in BType /\ (Calm(n) \/ ~Calm(b))
    BY <1>a, <1>b, ConfigType DEF BType, CircuitState, Calm
  <2>3. "opened_at" \notin Attending
    BY DEF Attending
  <2> HIDE DEF n
  <2> QED  BY <2>1, <2>2, <2>3, AssignKeepsThreads DEF b
<1>11. CASE OpenClear(w)
  <2> DEFINE n == [b EXCEPT !.success_count = 0]
  <2>1. Assigns(w, "open_clear", n, "idle")
    BY <1>11 DEF OpenClear, b
  <2>2. mine[w] # Nobody => n \in BType /\ (Calm(n) \/ ~Calm(b))
    BY <1>a, <1>b DEF BType, CircuitState, Calm
  <2>3. "open_clear" \notin Attending
    BY DEF Attending
  <2> HIDE DEF n
  <2> QED  BY <2>1, <2>2, <2>3, AssignKeepsThreads DEF b
<1> QED
  BY <1>1, <1>2, <1>3, <1>4, <1>5, <1>6, <1>7, <1>8, <1>9, <1>10, <1>11


(* Reading gives the thread a number: it has a breaker to read it from.    *)
LEMMA ReadSteps ==
    ASSUME ThreadsIInv, HasBreaker, NEW w \in Thread,
           ReadSuccesses(w) \/ ReadFailureCount(w)
    PROVE  ThreadsIInv'
<1> ThreadType
  BY DEF ThreadsIInv
<1>1. CASE ReadSuccesses(w)
  <2>1. at[w] \notin Outside /\ at[w] \notin Attending
    BY <1>1 DEF ReadSuccesses, Reads, At, Early, Outside, Attending
  <2>2. mine[w] # Nobody
    BY <2>1 DEF HasBreaker
  <2>3. Attribute(w) \in BType
    BY <2>2, AttributeType
  <2>4. Attribute(w).success_count \in Nat
    BY <2>3 DEF BType
  <2> QED
    BY <1>1, <2>1, <2>4, ReadsFacts, ReadKeepsThreads DEF ReadSuccesses
<1>2. CASE ReadFailureCount(w)
  <2>1. at[w] \notin Outside /\ at[w] \notin Attending
    BY <1>2 DEF ReadFailureCount, Reads, At, Early, Outside, Attending
  <2>2. mine[w] # Nobody
    BY <2>1 DEF HasBreaker
  <2>3. Attribute(w) \in BType
    BY <2>2, AttributeType
  <2>4. Attribute(w).failure_count \in Nat
    BY <2>3 DEF BType
  <2> QED
    BY <1>2, <2>1, <2>4, ReadsFacts, ReadKeepsThreads DEF ReadFailureCount
<1> QED  BY <1>1, <1>2

(* Time changes none of what TripPending reads.                            *)
LEMMA ClockKeepsThreads == ASSUME ThreadsIInv, ClockTick  PROVE ThreadsIInv'
<1>1. \A n \in 0..ThreadConfig.recovery_timeout :
        UpTo(n + 1, ThreadConfig.recovery_timeout)
          \in n..ThreadConfig.recovery_timeout
  BY ConfigType DEF UpTo
<1>2. ASSUME NEW b \in Thread
      PROVE  /\ breaker'[b] \in BType
             /\ breaker'[b].state = breaker[b].state
             /\ breaker'[b].failure_count = breaker[b].failure_count
  BY <1>1, ConfigType DEF ClockTick, ThreadsIInv, ThreadType, BType
<1>3. ThreadType'
  BY <1>2 DEF ClockTick, ThreadsIInv, ThreadType
<1>4. at' = at /\ mine' = mine
  BY DEF ClockTick
<1>5. TripPending
  BY DEF ThreadsIInv
<1>6. TripPending'
  BY <1>2, <1>4, <1>5 DEF TripPending
<1> QED  BY <1>3, <1>6 DEF ThreadsIInv

LEMMA NextThreadsIInv ==
    ASSUME ThreadsIInv, HasBreaker, [ThreadNext]_threadVars
    PROVE  ThreadsIInv'
<1>1. CASE ClockTick
  BY <1>1, ClockKeepsThreads
<1>2. CASE \E w \in Thread : Request(w) \/ Vanishes(w) \/ ThreadStep(w)
  <2>1. PICK w \in Thread : Request(w) \/ Vanishes(w) \/ ThreadStep(w)
    BY <1>2
  <2> QED
    BY <2>1, MiddlewareKeepsThreads, TestSteps, AssignSteps, ReadSteps
    DEF ThreadStep
<1>3. CASE UNCHANGED threadVars
  BY <1>3 DEF threadVars, ThreadsIInv, ThreadType, TripPending
<1> QED  BY <1>1, <1>2, <1>3 DEF ThreadNext

-----------------------------------------------------------------------------
(* That a thread inside a method has a breaker is an invariant of its own: *)
(* the entry it looks up was made before and is never taken out.           *)
LEMMA MoveKeepsHas ==
    ASSUME HasBreaker, NEW w \in Thread, NEW p, NEW q,
           At(w, p), GoesOn(w, q), entry' = entry,
           p \in Early => q \in Early \/ (q = "get" /\ entry # Nobody),
           p \in Outside => q \in Outside
    PROVE  HasBreaker'
BY DEF HasBreaker, At, GoesOn, Early, Outside

LEMMA GetKeepsHas ==
    ASSUME HasBreaker, NEW w \in Thread, at[w] \notin Early,
           NEW q, Gets(w, q)
    PROVE  HasBreaker'
BY DEF HasBreaker, Gets, Early, Outside

LEMMA NextHas ==
    ASSUME HasBreaker, [ThreadNext]_threadVars
    PROVE  HasBreaker'
<1>1. CASE ClockTick \/ UNCHANGED threadVars
  BY <1>1 DEF ClockTick, threadVars, HasBreaker
<1>2. ASSUME NEW w \in Thread, Request(w) \/ Vanishes(w) \/ ThreadStep(w)
      PROVE  HasBreaker'
  <2>1. CASE Request(w) \/ Lookup(w)
    BY <2>1, MoveKeepsHas DEF Request, Lookup, Tests, At, Early, Outside
  <2>2. CASE Insert(w)
    BY <2>2, ThreadAssumption
    DEF Insert, At, GoesOn, HasBreaker, Early, Outside
  <2>3. CASE GetBreaker(w) \/ \E ok \in BOOLEAN : Answers(w, ok)
    <3>1. at[w] \notin Early
      BY <2>3 DEF GetBreaker, Answers, At, Early
    <3>2. \E q : Gets(w, q)
      BY <2>3 DEF GetBreaker, Answers
    <3> QED  BY <3>1, <3>2, GetKeepsHas
  <2>4. CASE ~(\/ Request(w) \/ Lookup(w) \/ Insert(w) \/ GetBreaker(w)
               \/ \E ok \in BOOLEAN : Answers(w, ok))
    <3>1. \E p, q : /\ At(w, p) /\ GoesOn(w, q) /\ entry' = entry
                    /\ p \notin Early /\ (p \in Outside => q \in Outside)
      BY <1>2, <2>4
      DEF ThreadStep, Vanishes, IsOpenState, IsOpenElapsed, HalfOpen, Probe,
          SuccessState, SuccessElif, Forget, ReadSuccesses, WriteSuccesses,
          Enough, CloseState, CloseFailures, CloseSuccesses,
          ReadFailureCount, WriteFailureCount, FailureState, FailureElif,
          Threshold, OpenState, OpenedAt, OpenClear,
          Tests, Assigns, Reads, Writes, Early, Outside
    <3> QED  BY <3>1, MoveKeepsHas
  <2> QED  BY <2>1, <2>2, <2>3, <2>4
<1> QED  BY <1>1, <1>2 DEF ThreadNext

LEMMA ThreadsInvariance == ThreadSpec => [](ThreadsIInv /\ HasBreaker)
<1>1. ThreadInit => HasBreaker
  BY DEF ThreadInit, HasBreaker, Early, Outside
<1>2. HasBreaker /\ [ThreadNext]_threadVars => HasBreaker'
  BY NextHas
<1>3. ThreadsIInv /\ HasBreaker /\ [ThreadNext]_threadVars => ThreadsIInv'
  BY NextThreadsIInv
<1> QED  BY <1>1, <1>2, <1>3, InitThreadsIInv, PTL DEF ThreadSpec

(* Whatever the interleaving, a breaker left CLOSED at its threshold is    *)
(* about to be opened or cleared, for any number of threads.               *)
THEOREM TripIsPending == ThreadSpec => []TripPending
<1>1. ThreadsIInv => TripPending
  BY DEF ThreadsIInv
<1> QED  BY <1>1, ThreadsInvariance, PTL

(* A step that moves one thread brings nobody new on the way to _open(),   *)
(* if it does not bring that one.                                          *)
LEMMA OpeningShrinks ==
    ASSUME NEW w \in Thread, OnlyMoves(w), NEW b \in Thread,
           mine'[w] = b /\ at'[w] \in {"threshold", "open", "opened_at"} =>
             w \in Opening(b)
    PROVE  Opening(b)' \subseteq Opening(b)
BY DEF OnlyMoves, Opening

(* What an assignment makes of a breaker that is OPEN after it.            *)
LEMMA AssignOpen ==
    ASSUME ThreadType, NEW w \in Thread, NEW p, NEW n, NEW q,
           Assigns(w, p, n, q) \/ Writes(w, p, n, q),
           NEW b \in Thread, breaker'[b].state = "OPEN"
    PROVE  breaker'[b] = IF mine[w] = b THEN n ELSE breaker[b]
BY DEF Assigns, Writes, Becomes, NewBreaker, ThreadType

(* A step other than setting opened_at leaves the clock of an OPEN breaker *)
(* as it is, or, if time passes, ahead of where it was.                    *)
LEMMA ClockKept ==
    ASSUME ThreadsIInv, [ThreadNext]_threadVars,
           ~\E w \in Thread : OpenedAt(w),
           NEW b \in Thread, breaker[b].state = "OPEN",
           breaker'[b].state = "OPEN"
    PROVE  breaker'[b].open_for >= breaker[b].open_for
<1> DEFINE Same == breaker'[b].open_for = breaker[b].open_for
<1>0. ThreadType /\ breaker[b] \in BType
  BY DEF ThreadsIInv, ThreadType
<1>1. ASSUME Same  PROVE breaker'[b].open_for >= breaker[b].open_for
  BY <1>0, <1>1 DEF BType
<1>2. CASE ClockTick
  <2>1. breaker'[b].open_for =
          UpTo(breaker[b].open_for + 1, ThreadConfig.recovery_timeout)
    BY <1>0, <1>2 DEF ClockTick, BType
  <2> QED  BY <1>0, <2>1, ConfigType DEF UpTo, BType
<1>3. CASE UNCHANGED threadVars
  BY <1>1, <1>3 DEF threadVars
<1>4. ASSUME NEW w \in Thread, Request(w) \/ Vanishes(w) \/ ThreadStep(w)
      PROVE  Same
  <2>1. CASE breaker' = breaker
    BY <2>1
  <2>2. CASE Insert(w)
    <3>1. CASE b = w
      BY <1>0, <2>2, <3>1 DEF Insert, NewBreaker, ThreadsIInv, ThreadType
    <3>2. CASE b # w
      BY <1>0, <2>2, <3>2 DEF Insert, ThreadType
    <3> QED  BY <3>1, <3>2
  <2>3. CASE Becomes(breaker)
    BY <2>3 DEF Becomes, NewBreaker
  <2>4. ASSUME NEW p, NEW n, NEW q, Assigns(w, p, n, q) \/ Writes(w, p, n, q),
               mine[w] = b => n.open_for = breaker[b].open_for
        PROVE  Same
    <3>1. breaker'[b] = IF mine[w] = b THEN n ELSE breaker[b]
      BY <1>0, <2>4, AssignOpen
    <3> QED  BY <2>4, <3>1
  <2>5. CASE HalfOpen(w) \/ Probe(w) \/ Forget(w) \/ CloseState(w)
             \/ CloseFailures(w) \/ CloseSuccesses(w) \/ OpenState(w)
             \/ OpenClear(w)
    <3>1. \E p, n, q :
            /\ Assigns(w, p, n, q)
            /\ mine[w] = b => n.open_for = breaker[b].open_for
      BY <1>0, <2>5
      DEF HalfOpen, Probe, Forget, CloseState, CloseFailures, CloseSuccesses,
          OpenState, OpenClear, Attribute, BType
    <3> QED  BY <2>4, <3>1
  <2>6. CASE WriteSuccesses(w) \/ WriteFailureCount(w)
    <3>1. \E p, n, q :
            /\ Writes(w, p, n, q)
            /\ mine[w] = b => n.open_for = breaker[b].open_for
      BY <1>0, <2>6
      DEF WriteSuccesses, WriteFailureCount, Attribute, BType
    <3> QED  BY <2>4, <3>1
  <2> QED
    BY <1>4, <2>1, <2>2, <2>3, <2>5, <2>6
    DEF ThreadStep, Request, Vanishes, Lookup, GetBreaker, Answers,
        IsOpenState, IsOpenElapsed, SuccessState, SuccessElif, Enough,
        ReadSuccesses, ReadFailureCount, FailureState, FailureElif, Threshold,
        Tests, Reads, Gets
<1> QED  BY <1>1, <1>2, <1>3, <1>4 DEF ThreadNext

(* No thread comes on the way to _open() while the breaker is OPEN: the    *)
(* tests that lead there find it otherwise.                                *)
LEMMA NobodyNew ==
    ASSUME ThreadType, [ThreadNext]_threadVars,
           NEW b \in Thread, breaker[b].state = "OPEN"
    PROVE  Opening(b)' \subseteq Opening(b)
<1>1. CASE ClockTick \/ UNCHANGED threadVars
  BY <1>1 DEF ClockTick, threadVars, Opening
<1>2. ASSUME NEW w \in Thread, Request(w) \/ Vanishes(w) \/ ThreadStep(w)
      PROVE  Opening(b)' \subseteq Opening(b)
  <2>1. ASSUME NEW q, GoesOn(w, q) \/ Gets(w, q)
        PROVE  /\ OnlyMoves(w) /\ at'[w] = q
               /\ q \in {"threshold", "open", "opened_at"} /\ GoesOn(w, q)
                    => mine'[w] = mine[w]
    BY <2>1 DEF GoesOn, Gets, OnlyMoves, ThreadType
  <2>2. CASE FailureState(w)
    BY <2>1, <2>2, OpeningShrinks
    DEF FailureState, Tests, Attribute, Opening
  <2>3. CASE FailureElif(w)
    BY <2>1, <2>3, OpeningShrinks
    DEF FailureElif, Tests, Attribute, Opening
  <2>4. CASE Threshold(w) \/ OpenState(w)
    <3>1. /\ at[w] \in {"threshold", "open", "opened_at"}
          /\ \E q \in {"open", "opened_at", "idle"} : GoesOn(w, q)
      BY <2>4 DEF Threshold, OpenState, Tests, Assigns, At
    <3> QED  BY <2>1, <3>1, OpeningShrinks DEF Opening
  <2>5. CASE ~(FailureState(w) \/ FailureElif(w) \/ Threshold(w)
               \/ OpenState(w))
    <3>1. \E q : /\ GoesOn(w, q) \/ Gets(w, q)
                 /\ q \notin {"threshold", "open", "opened_at"}
      BY <1>2, <2>5
      DEF Request, Vanishes, ThreadStep, Lookup, Insert, GetBreaker, Answers,
          IsOpenState, IsOpenElapsed, HalfOpen, Probe,
          SuccessState, SuccessElif, Forget, ReadSuccesses, WriteSuccesses,
          Enough, CloseState, CloseFailures, CloseSuccesses,
          ReadFailureCount, WriteFailureCount, OpenedAt, OpenClear,
          Tests, Assigns, Reads, Writes
    <3> QED  BY <2>1, <3>1, OpeningShrinks
  <2> QED  BY <2>2, <2>3, <2>4, <2>5
<1> QED  BY <1>1, <1>2 DEF ThreadNext

(* The clock of an open circuit is set back once by each thread that was   *)
(* past its test when it opened, and by nobody else.                       *)
THEOREM OutageIsBounded == ThreadSpec => OutageBounded
<1>1. ThreadsIInv /\ [ThreadNext]_threadVars =>
        \A b \in Thread :
          breaker[b].state = "OPEN" /\ breaker'[b].state = "OPEN" =>
              /\ Opening(b)' \subseteq Opening(b)
              /\ \/ breaker'[b].open_for >= breaker[b].open_for
                 \/ Opening(b)' # Opening(b)
  <2> SUFFICES ASSUME ThreadsIInv, [ThreadNext]_threadVars, NEW b \in Thread,
                      breaker[b].state = "OPEN", breaker'[b].state = "OPEN"
               PROVE  /\ Opening(b)' \subseteq Opening(b)
                      /\ \/ breaker'[b].open_for >= breaker[b].open_for
                         \/ Opening(b)' # Opening(b)
    OBVIOUS
  <2>0. ThreadType
    BY DEF ThreadsIInv
  <2>1. Opening(b)' \subseteq Opening(b)
    BY <2>0, NobodyNew
  <2>2. CASE ~\E w \in Thread : OpenedAt(w)
    BY <2>1, <2>2, ClockKept
  <2>3. ASSUME NEW w \in Thread, OpenedAt(w)
        PROVE  \/ breaker'[b].open_for >= breaker[b].open_for
               \/ Opening(b)' # Opening(b)
    <3>1. CASE mine[w] = b
      <4>1. w \in Opening(b)
        BY <2>3, <3>1 DEF OpenedAt, Assigns, At, Opening
      <4>2. at'[w] = "open_clear"
        BY <2>0, <2>3 DEF OpenedAt, Assigns, GoesOn, ThreadType
      <4>3. w \notin Opening(b)'
        BY <4>2 DEF Opening
      <4> QED  BY <4>1, <4>3
    <3>2. CASE mine[w] # b
      <4>1. breaker'[b] = breaker[b]
        BY <2>0, <2>3, <3>2, AssignOpen DEF OpenedAt
      <4> QED  BY <2>0, <4>1 DEF ThreadType, BType
    <3> QED  BY <3>1, <3>2
  <2> QED  BY <2>1, <2>2, <2>3
<1>2. ThreadsIInv /\ HasBreaker => ThreadsIInv
  OBVIOUS
<1> QED  BY <1>1, <1>2, ThreadsInvariance, PTL DEF ThreadSpec, OutageBounded

-----------------------------------------------------------------------------
(***************************************************************************)
(* HealthChecker, for every set of threads, targets and objects and every  *)
(* threshold.                                                              *)
(*                                                                         *)
(* An object belongs to one target: its entry, or in the hand of a check   *)
(* of it.  No object of a target has counted more than the failures its    *)
(* checks told of since it was last well; and the target can be called     *)
(* well again only when a single object of it is left, without a failure   *)
(* in it.                                                                  *)
(***************************************************************************)

(* The objects of a target.                                                *)
Of(o, t) == statuses[t] = o \/ \E c \in Checking(t) : held[c] = o

(* An object has not counted more than n failures, and was condemned only  *)
(* for a threshold's worth of them.                                        *)
EarnedBy(h, n) ==
    /\ h.consecutive_failures <= n
    /\ ~h.healthy => n >= failure_threshold

(* What a thread in check() knows of its target.                           *)
Knows(c) ==
    /\ pc[c] = "counted" => seen[c] <= failed[on[c]]
    /\ pc[c] = "condemn" => failed[on[c]] >= failure_threshold

(* A check that is alone has so far done what a successful one does.       *)
Unspoilt(c) ==
    /\ pc[c] \in {"calling", "recover", "clear", "store"}
    /\ Checking(on[c]) = {c}
    /\ pc[c] \in {"clear", "store"} => heap[held[c]].healthy
    /\ pc[c] = "store" => heap[held[c]].consecutive_failures = 0

Owned == \A o \in HealthObject : \A t, u \in Target : Of(o, t) /\ Of(o, u) => t = u
Blank == \A o \in HealthObject : (\A t \in Target : ~Of(o, t)) => heap[o] = NewStatus

HealthIInv ==
    /\ HealthTypeOK /\ Owned /\ Blank
    /\ \A o \in HealthObject : \A t \in Target :
         Of(o, t) => EarnedBy(heap[o], failed[t])
    /\ \A c \in Checker : pc[c] # "idle" => Knows(c)
    /\ \A c \in Checker : alone[c] => Unspoilt(c)

-----------------------------------------------------------------------------
LEMMA NewStatusEarned ==
    /\ NewStatus \in HealthStatus
    /\ \A n \in Nat : EarnedBy(NewStatus, n)
    /\ NewStatus.healthy /\ NewStatus.consecutive_failures = 0
BY HealthAssumption DEF NewStatus, HealthStatus, EarnedBy

(* What a thread in check() holds.                                         *)
LEMMA HeldFacts ==
    ASSUME HealthIInv, NEW c \in Checker, pc[c] # "idle"
    PROVE  /\ on[c] \in Target /\ c \in Checking(on[c])
           /\ held[c] \in HealthObject /\ Of(held[c], on[c])
           /\ heap[held[c]] \in HealthStatus
           /\ EarnedBy(heap[held[c]], failed[on[c]])
           /\ Knows(c)
<1>1. /\ on[c] \in Target /\ held[c] \in HealthObject
      /\ heap[held[c]] \in HealthStatus
  BY DEF HealthIInv, HealthTypeOK
<1>2. c \in Checking(on[c])
  BY DEF Checking
<1>3. Of(held[c], on[c])
  BY <1>2 DEF Of
<1> QED  BY <1>1, <1>2, <1>3 DEF HealthIInv

(* A step of a thread inside check() that writes n to its object, or       *)
(* leaves it as it was, and goes on at q.                                  *)
LEMMA InsideKeepsHealth ==
    ASSUME HealthIInv, NEW c \in Checker, pc[c] # "idle",
           NEW n \in HealthStatus, heap' = [heap EXCEPT ![held[c]] = n],
           NEW q \in {"recover", "clear", "count", "counted", "compare",
                      "condemn", "store"},
           pc' = [pc EXCEPT ![c] = q],
           seen' \in [Checker -> 0..failure_threshold],
           \A d \in Checker \ {c} : seen'[d] = seen[d],
           failed' \in [Target -> 0..failure_threshold],
           \A t \in Target : failed'[t] >= failed[t],
           EarnedBy(n, failed'[on[c]]),
           q = "counted" => seen'[c] <= failed'[on[c]],
           q = "condemn" => failed'[on[c]] >= failure_threshold,
           alone' \in [Checker -> BOOLEAN],
           \A d \in Checker \ {c} : alone'[d] = alone[d],
           alone'[c] => /\ alone[c] /\ q \in {"recover", "clear", "store"}
                        /\ q \in {"clear", "store"} => n.healthy
                        /\ q = "store" => n.consecutive_failures = 0,
           UNCHANGED <<statuses, on, held>>
    PROVE  HealthIInv'
<1>T. HealthTypeOK /\ failure_threshold \in Nat
  BY HealthAssumption DEF HealthIInv
<1>c. held[c] \in HealthObject /\ Of(held[c], on[c]) /\ on[c] \in Target
  BY HeldFacts
<1>1. /\ heap' \in [HealthObject -> HealthStatus]
      /\ heap'[held[c]] = n
      /\ \A o \in HealthObject : o # held[c] => heap'[o] = heap[o]
  BY <1>T, <1>c DEF HealthTypeOK
<1>2. HealthTypeOK'
  BY <1>T, <1>1 DEF HealthTypeOK
<1>3. \A t \in Target : Checking(t)' = Checking(t)
  BY <1>T DEF HealthTypeOK, Checking
<1>4. \A o \in HealthObject : \A t \in Target : Of(o, t)' = Of(o, t)
  BY <1>3 DEF Of
<1>5. Owned'
  BY <1>4 DEF HealthIInv, Owned
<1>6. Blank'
  BY <1>1, <1>c, <1>4 DEF HealthIInv, Blank
<1>7. ASSUME NEW o \in HealthObject, NEW t \in Target, Of(o, t)
      PROVE  EarnedBy(heap'[o], failed'[t])
  <2>1. CASE o = held[c]
    <3>1. t = on[c]
      BY <1>7, <1>c, <2>1 DEF HealthIInv, Owned
    <3> QED  BY <1>1, <2>1, <3>1
  <2>2. CASE o # held[c]
    <3>1. heap'[o] = heap[o] /\ EarnedBy(heap[o], failed[t])
      BY <1>1, <1>7, <2>2 DEF HealthIInv
    <3>2. /\ heap[o].consecutive_failures \in Nat
          /\ failed[t] \in Nat /\ failed'[t] \in Nat
          /\ failed'[t] >= failed[t]
      BY <1>T DEF HealthTypeOK, HealthStatus
    <3> QED  BY <1>T, <3>1, <3>2 DEF EarnedBy
  <2> QED  BY <2>1, <2>2
<1>8. ASSUME NEW d \in Checker, pc'[d] # "idle"  PROVE Knows(d)'
  <2>1. CASE d = c
    BY <1>T, <2>1 DEF HealthTypeOK, Knows
  <2>2. CASE d # c
    <3>1. /\ pc'[d] = pc[d] /\ seen'[d] = seen[d] /\ on'[d] = on[d]
          /\ Knows(d) /\ on[d] \in Target
      BY <1>T, <1>8, <2>2 DEF HealthTypeOK, HealthIInv
    <3>2. /\ seen[d] \in Nat /\ failed[on[d]] \in Nat
          /\ failed'[on[d]] \in Nat /\ failed'[on[d]] >= failed[on[d]]
      BY <1>T, <3>1 DEF HealthTypeOK
    <3> QED  BY <1>T, <3>1, <3>2 DEF Knows
  <2> QED  BY <2>1, <2>2
<1>9. ASSUME NEW d \in Checker, alone'[d]  PROVE Unspoilt(d)'
  <2>1. CASE d = c
    <3>1. Unspoilt(c) /\ pc'[c] = q
      BY <1>T, <1>9, <2>1 DEF HealthTypeOK, HealthIInv
    <3> QED  BY <1>1, <1>3, <1>c, <1>9, <2>1, <3>1 DEF Unspoilt
  <2>2. CASE d # c
    <3>1. Unspoilt(d) /\ pc'[d] = pc[d]
      BY <1>T, <1>9, <2>2 DEF HealthTypeOK, HealthIInv
    <3>2. pc[d] # "idle" /\ c \notin Checking(on[d])
      BY <2>2, <3>1 DEF Unspoilt
    <3>3. on[c] # on[d]
      BY <3>2 DEF Checking
    <3>4. Of(held[d], on[d]) /\ held[d] \in HealthObject /\ on[d] \in Target
      BY <3>2, HeldFacts
    <3>5. held[d] # held[c]
      BY <1>c, <3>3, <3>4 DEF HealthIInv, Owned
    <3> QED  BY <1>1, <1>3, <3>1, <3>4, <3>5 DEF Unspoilt
  <2> QED  BY <2>1, <2>2
<1> QED  BY <1>2, <1>5, <1>6, <1>7, <1>8, <1>9, <1>4 DEF HealthIInv

(* A step that only moves a thread on, or lets it read.                    *)
LEMMA MoveKeepsHealth ==
    ASSUME HealthIInv, NEW c \in Checker, pc[c] # "idle",
           NEW q \in {"recover", "counted", "condemn", "store"},
           pc' = [pc EXCEPT ![c] = q],
           seen' \in [Checker -> 0..failure_threshold],
           \A d \in Checker \ {c} : seen'[d] = seen[d],
           q = "counted" => seen'[c] <= failed[on[c]],
           q = "condemn" => failed[on[c]] >= failure_threshold,
           alone[c] => q = "recover",
           UNCHANGED <<statuses, heap, on, held, history>>
    PROVE  HealthIInv'
<1>1. /\ heap' = [heap EXCEPT ![held[c]] = heap[held[c]]]
      /\ alone' \in [Checker -> BOOLEAN]
      /\ failed' \in [Target -> 0..failure_threshold]
      /\ \A t \in Target : failed'[t] >= failed[t]
  BY HealthAssumption DEF HealthIInv, HealthTypeOK, history
<1>2. /\ heap[held[c]] \in HealthStatus
      /\ EarnedBy(heap[held[c]], failed'[on[c]])
  BY HeldFacts DEF history
<1> DEFINE n == heap[held[c]]
<1> HIDE DEF n
<1> QED
  BY <1>1, <1>2, InsideKeepsHealth, HealthIInv DEF history, n

-----------------------------------------------------------------------------
(* HealthIInv holds at first ...                                           *)
LEMMA InitHealthIInv == HealthInit => HealthIInv
<1> SUFFICES ASSUME HealthInit PROVE HealthIInv
  OBVIOUS
<1>1. HealthTypeOK
  BY NewStatusEarned, HealthAssumption DEF HealthInit, HealthTypeOK
<1>2. \A o \in HealthObject : \A t \in Target : ~Of(o, t)
  BY HealthAssumption DEF HealthInit, Of, Checking
<1> QED
  BY <1>1, <1>2, NewStatusEarned DEF HealthInit, HealthIInv, Owned, Blank

(* ... and every step keeps it: a check that begins, ...                   *)
LEMMA FetchKeepsHealth ==
    ASSUME HealthIInv, NEW c \in Checker, NEW t \in Target, Fetch(c, t)
    PROVE  HealthIInv'
<1>T. HealthTypeOK /\ failure_threshold \in Nat
  BY HealthAssumption DEF HealthIInv
<1>0. /\ pc[c] = "idle" /\ pc' = [pc EXCEPT ![c] = "calling"]
      /\ on' = [on EXCEPT ![c] = t]
      /\ alone' = [d \in Checker |-> IF d = c THEN Checking(t) = {}
                                     ELSE alone[d] /\ d \notin Checking(t)]
      /\ UNCHANGED <<statuses, heap, seen, failed>>
  BY DEF Fetch, Begins
<1> DEFINE o == held'[c]
<1>1. held' = [held EXCEPT ![c] = o] /\ o \in HealthObject
      /\ (statuses[t] = o \/ o \in Unused)
  <2>1. (CHOOSE x \in Unused : TRUE) \in Unused
    BY DEF Fetch
  <2>2. \/ held' = [held EXCEPT ![c] = statuses[t]] /\ statuses[t] # NoObject
        \/ held' = [held EXCEPT ![c] = CHOOSE x \in Unused : TRUE]
    BY DEF Fetch
  <2> QED  BY <1>T, <2>1, <2>2 DEF HealthTypeOK, Unused
<1> HIDE DEF o
<1>2. HealthTypeOK'
  BY <1>0, <1>1, <1>T, HealthAssumption DEF HealthTypeOK
<1>3. \A u \in Target :
        Checking(u)' = IF u = t THEN Checking(u) \union {c} ELSE Checking(u)
  BY <1>0, <1>T DEF HealthTypeOK, Checking
<1>4. \A x \in HealthObject : \A u \in Target :
        Of(x, u)' <=> Of(x, u) \/ (x = o /\ u = t)
  <2> TAKE x \in HealthObject
  <2> TAKE u \in Target
  <2>1. c \notin Checking(u)
    BY <1>0 DEF Checking
  <2>2. \A d \in Checker : held'[d] = IF d = c THEN o ELSE held[d]
    BY <1>1, <1>T DEF HealthTypeOK
  <2>3. \A d \in Checking(u) : held'[d] = held[d]
    BY <2>1, <2>2 DEF Checking
  <2> QED  BY <1>0, <1>3, <2>2, <2>3 DEF Of
<1>5. /\ \A u \in Target : Of(o, u) => u = t
      /\ Of(o, t) \/ heap[o] = NewStatus
  <2>1. CASE statuses[t] = o
    BY <1>1, <2>1 DEF HealthIInv, Owned, Of
  <2>2. CASE o \in Unused
    <3>1. \A u \in Target : ~Of(o, u)
      BY <2>2 DEF Unused, Of, Checking
    <3> QED  BY <1>1, <3>1 DEF HealthIInv, Blank
  <2> QED  BY <1>1, <2>1, <2>2
<1>6. Owned'
  BY <1>4, <1>5 DEF HealthIInv, Owned
<1>7. Blank'
  BY <1>0, <1>4 DEF HealthIInv, Blank
<1>8. ASSUME NEW x \in HealthObject, NEW u \in Target, Of(x, u)'
      PROVE  EarnedBy(heap[x], failed[u])
  <2>1. failed[u] \in Nat
    BY <1>T DEF HealthTypeOK
  <2> QED  BY <1>4, <1>5, <1>8, <2>1, NewStatusEarned DEF HealthIInv
<1>9. ASSUME NEW d \in Checker, pc'[d] # "idle"  PROVE Knows(d)'
  <2>1. CASE d = c
    BY <1>0, <1>T, <2>1 DEF HealthTypeOK, Knows
  <2>2. CASE d # c
    <3>1. pc'[d] = pc[d] /\ on'[d] = on[d] /\ Knows(d)
      BY <1>0, <1>T, <1>9, <2>2 DEF HealthTypeOK, HealthIInv
    <3> QED  BY <1>0, <3>1 DEF Knows
  <2> QED  BY <2>1, <2>2
<1>10. ASSUME NEW d \in Checker, alone'[d]  PROVE Unspoilt(d)'
  <2>1. CASE d = c
    <3>1. pc'[c] = "calling" /\ on'[c] = t /\ Checking(t) = {}
      BY <1>0, <1>T, <1>10, <2>1 DEF HealthTypeOK
    <3>2. Checking(t)' = {c}
      BY <1>3, <3>1
    <3> QED  BY <2>1, <3>1, <3>2 DEF Unspoilt
  <2>2. CASE d # c
    <3>1. alone[d] /\ d \notin Checking(t)
      BY <1>0, <1>10, <2>2
    <3>2. /\ Unspoilt(d) /\ pc'[d] = pc[d] /\ on'[d] = on[d]
          /\ held'[d] = held[d] /\ on[d] \in Target
      BY <1>0, <1>1, <1>T, <2>2, <3>1 DEF HealthTypeOK, HealthIInv
    <3>3. on[d] # t
      BY <3>1, <3>2 DEF Unspoilt, Checking
    <3>4. Checking(on[d])' = Checking(on[d])
      BY <1>3, <3>2, <3>3
    <3> QED  BY <1>0, <3>2, <3>4 DEF Unspoilt
  <2> QED  BY <2>1, <2>2
<1> QED  BY <1>0, <1>2, <1>6, <1>7, <1>8, <1>9, <1>10 DEF HealthIInv

(* ... a check that ends, which may leave its target well, ...             *)
LEMMA StoreKeepsHealth ==
    ASSUME HealthIInv, NEW c \in Checker, Store(c)
    PROVE  HealthIInv'
<1>T. HealthTypeOK /\ failure_threshold \in Nat
  BY HealthAssumption DEF HealthIInv
<1> DEFINE t == on[c]
           o == held[c]
<1>0. /\ pc[c] = "store" /\ pc' = [pc EXCEPT ![c] = "idle"]
      /\ statuses' = [statuses EXCEPT ![t] = o]
      /\ held' = [held EXCEPT ![c] = NoObject]
      /\ heap' = Kept(heap, statuses', held')
      /\ failed' = [failed EXCEPT ![t] = IF alone[c] THEN 0 ELSE @]
      /\ alone' = [alone EXCEPT ![c] = FALSE]
      /\ UNCHANGED <<on, seen>>
  BY DEF Store
<1>1. /\ t \in Target /\ o \in HealthObject /\ Of(o, t)
      /\ c \in Checking(t) /\ heap[o] \in HealthStatus
      /\ EarnedBy(heap[o], failed[t])
  BY <1>0, HeldFacts
<1> HIDE DEF t, o
<1>3. \A u \in Target : Checking(u)' = Checking(u) \ {c}
  BY <1>0, <1>T DEF HealthTypeOK, Checking
<1>H. \A d \in Checker : held'[d] = IF d = c THEN NoObject ELSE held[d]
  BY <1>0, <1>T DEF HealthTypeOK
<1>4. \A x \in HealthObject : \A u \in Target : Of(x, u)' => Of(x, u)
  BY <1>0, <1>1, <1>3, <1>H, <1>T DEF Of, HealthTypeOK
<1>5. \A x \in HealthObject :
        heap'[x] = IF \E u \in Target : Of(x, u)' THEN heap[x] ELSE NewStatus
  <2> TAKE x \in HealthObject
  <2>1. x # NoObject
    BY HealthAssumption
  <2>2. (\E d \in Checker : held'[d] = x) =>
          \E u \in Target : \E d \in Checking(u)' : held'[d] = x
    <3> SUFFICES ASSUME NEW d \in Checker, held'[d] = x
                 PROVE  \E u \in Target : d \in Checking(u)'
      OBVIOUS
    <3>1. d # c /\ held[d] # NoObject
      BY <1>H, <2>1
    <3>2. pc[d] # "idle" /\ on[d] \in Target
      BY <1>T, <3>1 DEF HealthTypeOK
    <3>3. d \in Checking(on[d])
      BY <3>2 DEF Checking
    <3> QED  BY <1>3, <3>1, <3>2, <3>3
  <2>3. (\E u \in Target : \E d \in Checking(u)' : held'[d] = x) =>
          \E d \in Checker : held'[d] = x
    BY <1>3 DEF Checking
  <2>4. (\E u \in Target : Of(x, u)') <=>
          (\E u \in Target : statuses'[u] = x) \/ (\E d \in Checker : held'[d] = x)
    BY <2>2, <2>3 DEF Of
  <2>5. heap'[x] = IF \/ \E u \in Target : statuses'[u] = x
                      \/ \E d \in Checker : held'[d] = x
                   THEN heap[x] ELSE NewStatus
    BY <1>0 DEF Kept
  <2> QED  BY <2>4, <2>5
<1>6. heap' \in [HealthObject -> HealthStatus]
  <2>1. heap' = [x \in HealthObject |-> heap'[x]]
    BY <1>0 DEF Kept
  <2>2. \A x \in HealthObject : heap'[x] \in HealthStatus
    BY <1>5, <1>T, NewStatusEarned DEF HealthTypeOK
  <2> QED  BY <2>1, <2>2
<1>7. HealthTypeOK'
  <2>1. /\ statuses' \in [Target -> HealthObject \union {NoObject}]
        /\ held' \in [Checker -> HealthObject \union {NoObject}]
        /\ pc' \in [Checker -> {"idle", "calling", "recover", "clear", "count",
                                "counted", "compare", "condemn", "store"}]
    BY <1>0, <1>1, <1>T DEF HealthTypeOK
  <2>2. /\ failed' \in [Target -> 0..failure_threshold]
        /\ alone' \in [Checker -> BOOLEAN]
    BY <1>0, <1>1, <1>T DEF HealthTypeOK
  <2>3. \A d \in Checker : held'[d] = NoObject <=> pc'[d] = "idle"
    BY <1>0, <1>H, <1>T DEF HealthTypeOK
  <2> QED  BY <1>0, <1>6, <1>T, <2>1, <2>2, <2>3 DEF HealthTypeOK
<1>8. Owned'
  BY <1>4 DEF HealthIInv, Owned
<1>9. Blank'
  BY <1>5 DEF Blank
<1>10. ASSUME NEW x \in HealthObject, NEW u \in Target, Of(x, u)'
       PROVE  EarnedBy(heap'[x], failed'[u])
  <2>1. heap'[x] = heap[x] /\ EarnedBy(heap[x], failed[u])
    BY <1>4, <1>5, <1>10 DEF HealthIInv
  <2>2. CASE alone[c] /\ u = t
    <3>1. Unspoilt(c)
      BY <2>2 DEF HealthIInv
    <3>2. /\ Checking(t) = {c}
          /\ heap[o].healthy /\ heap[o].consecutive_failures = 0
      BY <1>0, <3>1 DEF Unspoilt, t, o
    <3>3. x = o
      BY <1>0, <1>1, <1>3, <1>10, <2>2, <3>2, <1>T DEF Of, HealthTypeOK
    <3>4. failed'[u] = 0
      BY <1>0, <1>1, <1>T, <2>2 DEF HealthTypeOK
    <3> QED  BY <1>T, <2>1, <3>2, <3>3, <3>4 DEF EarnedBy
  <2>3. CASE ~(alone[c] /\ u = t)
    <3>1. failed'[u] = failed[u]
      BY <1>0, <1>1, <1>T, <2>3 DEF HealthTypeOK
    <3> QED  BY <2>1, <3>1
  <2> QED  BY <2>2, <2>3
<1>11. ASSUME NEW d \in Checker, d # c, pc[d] # "idle"
       PROVE  /\ pc'[d] = pc[d] /\ on'[d] = on[d] /\ seen'[d] = seen[d]
              /\ held'[d] = held[d] /\ heap'[held'[d]] = heap[held[d]]
              /\ alone'[d] = alone[d]
              /\ alone[c] => on[d] # t
  <2>1. /\ pc'[d] = pc[d] /\ on'[d] = on[d] /\ seen'[d] = seen[d]
        /\ held'[d] = held[d] /\ alone'[d] = alone[d]
    BY <1>0, <1>T, <1>11 DEF HealthTypeOK
  <2>2. /\ d \in Checking(on[d]) /\ on[d] \in Target
        /\ held[d] \in HealthObject
    BY <1>11, HeldFacts
  <2>3. Of(held[d], on[d])'
    BY <1>3, <1>11, <2>1, <2>2 DEF Of
  <2>4. heap'[held[d]] = heap[held[d]]
    BY <1>5, <2>1, <2>2, <2>3
  <2>5. alone[c] => Checking(t) = {c}
    BY DEF HealthIInv, Unspoilt, t
  <2> QED  BY <1>11, <2>1, <2>2, <2>4, <2>5
<1>12. ASSUME NEW d \in Checker, pc'[d] # "idle"  PROVE Knows(d)'
  <2>1. d # c /\ pc[d] # "idle"
    BY <1>0, <1>T, <1>12 DEF HealthTypeOK
  <2>2. failed'[on[d]] = failed[on[d]]
    BY <1>0, <1>1, <1>11, <1>T, <2>1 DEF HealthTypeOK
  <2>3. Knows(d)
    BY <2>1 DEF HealthIInv
  <2> QED  BY <1>11, <2>1, <2>2, <2>3 DEF Knows
<1>13. ASSUME NEW d \in Checker, alone'[d]  PROVE Unspoilt(d)'
  <2>1. d # c /\ alone[d]
    BY <1>0, <1>T, <1>13 DEF HealthTypeOK
  <2>2. Unspoilt(d) /\ pc[d] # "idle" /\ on[d] \in Target
    BY <1>T, <2>1 DEF HealthIInv, Unspoilt, HealthTypeOK
  <2>3. Checking(on[d])' = {d}
    <3>1. Checking(on[d]) = {d}
      BY <2>2 DEF Unspoilt
    <3>2. \A u \in Target : u = on[d] => Checking(u)' = {d}
      BY <1>3, <2>1, <3>1
    <3>3. on'[d] = on[d]
      BY <1>0
    <3> QED  BY <2>2, <3>2, <3>3 DEF Checking
  <2> QED  BY <1>11, <2>1, <2>2, <2>3 DEF Unspoilt
<1> QED  BY <1>7, <1>8, <1>9, <1>10, <1>12, <1>13 DEF HealthIInv

(* ... and a reset, which does so if nobody holds an old object.           *)
LEMMA ResetKeepsHealth ==
    ASSUME HealthIInv, NEW t \in Target, ResetHealth(t)
    PROVE  HealthIInv'
<1>T. HealthTypeOK /\ failure_threshold \in Nat
  BY HealthAssumption DEF HealthIInv
<1> DEFINE o == CHOOSE x \in Unused : TRUE
<1>0. /\ statuses' = [statuses EXCEPT ![t] = o]
      /\ heap' = Kept(heap, statuses', held)
      /\ failed' = [failed EXCEPT ![t] = IF Checking(t) = {} THEN 0 ELSE @]
      /\ UNCHANGED <<pc, on, held, seen, alone>>
      /\ o \in Unused
  BY DEF ResetHealth
<1> HIDE DEF o
<1>1. o \in HealthObject /\ \A u \in Target : ~Of(o, u)
  BY <1>0 DEF Unused, Of, Checking
<1>2. heap[o] = NewStatus
  BY <1>1 DEF HealthIInv, Blank
<1>3. \A u \in Target : Checking(u)' = Checking(u)
  BY <1>0 DEF Checking
<1>4. \A x \in HealthObject : \A u \in Target :
        Of(x, u)' => Of(x, u) \/ (x = o /\ u = t)
  BY <1>0, <1>3, <1>T DEF Of, HealthTypeOK
<1>5. \A x \in HealthObject :
        heap'[x] = IF \E u \in Target : Of(x, u)' THEN heap[x] ELSE NewStatus
  <2> TAKE x \in HealthObject
  <2>1. x # NoObject
    BY HealthAssumption
  <2>2. (\E d \in Checker : held[d] = x) =>
          \E u \in Target : \E d \in Checking(u) : held[d] = x
    BY <1>T, <2>1 DEF HealthTypeOK, Checking
  <2>3. (\E u \in Target : Of(x, u)') <=>
          (\E u \in Target : statuses'[u] = x) \/ (\E d \in Checker : held[d] = x)
    BY <1>0, <1>3, <2>2 DEF Of, Checking
  <2>4. heap'[x] = IF \/ \E u \in Target : statuses'[u] = x
                      \/ \E d \in Checker : held[d] = x
                   THEN heap[x] ELSE NewStatus
    BY <1>0 DEF Kept
  <2> QED  BY <2>3, <2>4
<1>6. heap' \in [HealthObject -> HealthStatus]
  <2>1. heap' = [x \in HealthObject |-> heap'[x]]
    BY <1>0 DEF Kept
  <2>2. \A x \in HealthObject : heap'[x] \in HealthStatus
    BY <1>5, <1>T, NewStatusEarned DEF HealthTypeOK
  <2> QED  BY <2>1, <2>2
<1>7. HealthTypeOK'
  <2>1. statuses' \in [Target -> HealthObject \union {NoObject}]
    BY <1>0, <1>1, <1>T DEF HealthTypeOK
  <2>2. failed' \in [Target -> 0..failure_threshold]
    BY <1>0, <1>T DEF HealthTypeOK
  <2> QED  BY <1>0, <1>6, <1>T, <2>1, <2>2 DEF HealthTypeOK
<1>8. Owned'
  BY <1>1, <1>4 DEF HealthIInv, Owned
<1>9. Blank'
  BY <1>5 DEF Blank
<1>10. ASSUME NEW x \in HealthObject, NEW u \in Target, Of(x, u)'
       PROVE  EarnedBy(heap'[x], failed'[u])
  <2>0. heap'[x] = heap[x] /\ failed'[u] \in Nat
    BY <1>5, <1>7, <1>10 DEF HealthTypeOK
  <2>1. CASE x = o
    BY <1>2, <2>0, <2>1, NewStatusEarned
  <2>2. CASE x # o
    <3>1. EarnedBy(heap[x], failed[u])
      BY <1>4, <1>10, <2>2 DEF HealthIInv
    <3>2. ~(Checking(t) = {} /\ u = t)
      BY <1>0, <1>3, <1>10, <2>2, <1>T DEF Of, HealthTypeOK
    <3>3. failed'[u] = failed[u]
      BY <1>0, <1>T, <3>2 DEF HealthTypeOK
    <3> QED  BY <2>0, <3>1, <3>3
  <2> QED  BY <2>1, <2>2
<1>11. ASSUME NEW d \in Checker, pc[d] # "idle"
       PROVE  /\ heap'[held[d]] = heap[held[d]]
              /\ failed'[on[d]] = failed[on[d]]
  <2>1. /\ d \in Checking(on[d]) /\ on[d] \in Target
        /\ held[d] \in HealthObject
    BY <1>11, HeldFacts
  <2>2. \E u \in Target : \E e \in Checking(u)' : held'[e] = held[d]
    BY <1>0, <1>3, <2>1
  <2>3. heap'[held[d]] = heap[held[d]]
    BY <1>5, <2>1, <2>2 DEF Of
  <2> QED  BY <1>0, <1>T, <2>1, <2>3 DEF HealthTypeOK
<1>12. ASSUME NEW d \in Checker, pc'[d] # "idle"  PROVE Knows(d)'
  BY <1>0, <1>11, <1>12 DEF HealthIInv, Knows
<1>13. ASSUME NEW d \in Checker, alone'[d]  PROVE Unspoilt(d)'
  <2>1. Unspoilt(d) /\ pc[d] # "idle" /\ on[d] \in Target
    BY <1>0, <1>T, <1>13 DEF HealthIInv, Unspoilt, HealthTypeOK
  <2> QED  BY <1>0, <1>3, <1>11, <2>1 DEF Unspoilt
<1> QED  BY <1>7, <1>8, <1>9, <1>10, <1>12, <1>13 DEF HealthIInv

LEMMA NextHealthIInv == HealthIInv /\ [HealthNext]_healthVars => HealthIInv'
<1> SUFFICES ASSUME HealthIInv, [HealthNext]_healthVars PROVE HealthIInv'
  OBVIOUS
<1>T. HealthTypeOK /\ failure_threshold \in Nat
  BY HealthAssumption DEF HealthIInv
<1>N. /\ \A t \in Target : failed[t] \in Nat /\ failed[t] >= failed[t]
      /\ failed \in [Target -> 0..failure_threshold]
      /\ alone \in [Checker -> BOOLEAN]
      /\ seen \in [Checker -> 0..failure_threshold]
  BY <1>T DEF HealthTypeOK
<1>A. ASSUME NEW c \in Checker, alone[c]
      PROVE  Unspoilt(c)
  BY <1>A DEF HealthIInv
<1>1. ASSUME NEW c \in Checker, Responds(c) \/ Compare(c)
      PROVE  HealthIInv'
  <2>0. pc[c] # "idle" /\ UNCHANGED <<statuses, heap, on, held, seen, history>>
    BY <1>1 DEF Responds, Compare
  <2>1. CASE Responds(c)
    BY <1>N, <2>0, <2>1, MoveKeepsHealth DEF Responds
  <2>2. CASE Compare(c)
    <3>1. ~alone[c]
      BY <1>A, <2>2 DEF Compare, Unspoilt
    <3>2. heap[held[c]].consecutive_failures >= failure_threshold =>
            failed[on[c]] >= failure_threshold
      <4>1. /\ EarnedBy(heap[held[c]], failed[on[c]])
            /\ heap[held[c]].consecutive_failures \in Nat
            /\ failed[on[c]] \in Nat
        BY <1>T, <1>N, <2>0, HeldFacts DEF HealthStatus
      <4> QED  BY <1>T, <4>1 DEF EarnedBy
    <3> QED  BY <1>N, <2>0, <2>2, <3>1, <3>2, MoveKeepsHealth DEF Compare
  <2> QED  BY <1>1, <2>1, <2>2
<1>2. ASSUME NEW c \in Checker, Fails(c)  PROVE HealthIInv'
  <2> DEFINE n == heap[held[c]]
  <2>0. pc[c] # "idle" /\ pc' = [pc EXCEPT ![c] = "count"]
    BY <1>2 DEF Fails
  <2>1. n \in HealthStatus /\ EarnedBy(n, failed[on[c]])
    BY <2>0, HeldFacts
  <2>2. heap' = [heap EXCEPT ![held[c]] = n]
    BY <1>2, <1>T DEF Fails, HealthTypeOK
  <2>3. /\ alone' \in [Checker -> BOOLEAN] /\ ~alone'[c]
        /\ \A d \in Checker \ {c} : alone'[d] = alone[d]
    BY <1>2, <1>T DEF Fails, HealthTypeOK
  <2> HIDE DEF n
  <2> QED
    BY <1>2, <1>N, <2>0, <2>1, <2>2, <2>3, InsideKeepsHealth DEF Fails
<1>3. ASSUME NEW c \in Checker, Recover(c)  PROVE HealthIInv'
  <2> DEFINE n == [heap[held[c]] EXCEPT !.healthy = TRUE]
  <2>0. pc[c] # "idle" /\ pc' = [pc EXCEPT ![c] = "clear"]
    BY <1>3 DEF Recover
  <2>1. n \in HealthStatus /\ EarnedBy(n, failed[on[c]]) /\ n.healthy
    BY <2>0, HeldFacts DEF HealthStatus, EarnedBy
  <2>2. heap' = [heap EXCEPT ![held[c]] = n]
    BY <1>3 DEF Recover
  <2> HIDE DEF n
  <2> QED
    BY <1>3, <1>N, <2>0, <2>1, <2>2, InsideKeepsHealth DEF Recover, history
<1>4. ASSUME NEW c \in Checker, ClearFailures(c)  PROVE HealthIInv'
  <2> DEFINE n == [heap[held[c]] EXCEPT !.consecutive_failures = 0]
  <2>0. pc[c] = "clear" /\ pc' = [pc EXCEPT ![c] = "store"]
    BY <1>4 DEF ClearFailures
  <2>1. heap[held[c]] \in HealthStatus /\ EarnedBy(heap[held[c]], failed[on[c]])
        /\ on[c] \in Target
    BY <2>0, HeldFacts
  <2>2. /\ n \in HealthStatus /\ n.consecutive_failures = 0
        /\ n.healthy = heap[held[c]].healthy
    BY <1>T, <2>1 DEF HealthStatus
  <2>3. EarnedBy(n, failed[on[c]])
    BY <1>N, <2>1, <2>2 DEF EarnedBy
  <2>4. heap' = [heap EXCEPT ![held[c]] = n]
    BY <1>4 DEF ClearFailures
  <2>5. alone[c] => n.healthy
    BY <1>A, <2>0, <2>2 DEF Unspoilt
  <2> HIDE DEF n
  <2> QED
    BY <1>4, <1>N, <2>0, <2>2, <2>3, <2>4, <2>5, InsideKeepsHealth
    DEF ClearFailures, history
<1>5. ASSUME NEW c \in Checker, ReadFailures(c)  PROVE HealthIInv'
  <2>0. pc[c] = "count"
    BY <1>5 DEF ReadFailures
  <2>1. /\ heap[held[c]] \in HealthStatus
        /\ EarnedBy(heap[held[c]], failed[on[c]])
    BY <2>0, HeldFacts
  <2>2. /\ seen' \in [Checker -> 0..failure_threshold]
        /\ seen'[c] <= failed[on[c]]
        /\ \A d \in Checker \ {c} : seen'[d] = seen[d]
    BY <1>5, <1>N, <2>1 DEF ReadFailures, HealthStatus, EarnedBy
  <2>3. ~alone[c]
    BY <1>A, <2>0 DEF Unspoilt
  <2> QED
    BY <1>5, <2>0, <2>2, <2>3, MoveKeepsHealth DEF ReadFailures
<1>6. ASSUME NEW c \in Checker, WriteFailures(c)  PROVE HealthIInv'
  <2> DEFINE n == [heap[held[c]] EXCEPT
                     !.consecutive_failures = UpToThreshold(seen[c] + 1)]
  <2>0. pc[c] = "counted" /\ pc' = [pc EXCEPT ![c] = "compare"]
    BY <1>6 DEF WriteFailures
  <2>1. /\ heap[held[c]] \in HealthStatus /\ on[c] \in Target
        /\ EarnedBy(heap[held[c]], failed[on[c]])
        /\ seen[c] <= failed[on[c]] /\ seen[c] \in Nat
    BY <1>N, <1>T, <2>0, HeldFacts DEF Knows
  <2>2. /\ UpToThreshold(seen[c] + 1) \in 0..failure_threshold
        /\ \A m \in 0..failure_threshold :
             /\ UpToThreshold(m + 1) \in 0..failure_threshold
             /\ UpToThreshold(m + 1) >= m
             /\ seen[c] <= m => UpToThreshold(seen[c] + 1) <= UpToThreshold(m + 1)
    BY <1>T, <2>1 DEF UpToThreshold
  <2>3. /\ failed' \in [Target -> 0..failure_threshold]
        /\ failed'[on[c]] = UpToThreshold(failed[on[c]] + 1)
        /\ \A t \in Target : failed'[t] >= failed[t]
    BY <1>6, <1>N, <2>1, <2>2 DEF WriteFailures
  <2>4. /\ n \in HealthStatus /\ n.healthy = heap[held[c]].healthy
        /\ n.consecutive_failures = UpToThreshold(seen[c] + 1)
    BY <2>1, <2>2 DEF HealthStatus
  <2>5. EarnedBy(n, failed'[on[c]])
    BY <1>T, <1>N, <2>1, <2>2, <2>3, <2>4 DEF EarnedBy
  <2>6. heap' = [heap EXCEPT ![held[c]] = n]
    BY <1>6 DEF WriteFailures
  <2>7. ~alone[c]
    BY <1>A, <2>0 DEF Unspoilt
  <2>8. /\ seen' \in [Checker -> 0..failure_threshold]
        /\ \A d \in Checker \ {c} : seen'[d] = seen[d]
    BY <1>6, <1>N, <1>T DEF WriteFailures
  <2> HIDE DEF n
  <2> QED
    BY <1>6, <1>N, <2>0, <2>3, <2>4, <2>5, <2>6, <2>7, <2>8, InsideKeepsHealth
    DEF WriteFailures
<1>7. ASSUME NEW c \in Checker, Condemn(c)  PROVE HealthIInv'
  <2> DEFINE n == [heap[held[c]] EXCEPT !.healthy = FALSE]
  <2>0. pc[c] = "condemn" /\ pc' = [pc EXCEPT ![c] = "store"]
    BY <1>7 DEF Condemn
  <2>1. n \in HealthStatus /\ EarnedBy(n, failed[on[c]])
    BY <2>0, HeldFacts DEF HealthStatus, EarnedBy, Knows
  <2>2. heap' = [heap EXCEPT ![held[c]] = n]
    BY <1>7 DEF Condemn
  <2>3. ~alone[c]
    BY <1>A, <2>0 DEF Unspoilt
  <2> HIDE DEF n
  <2> QED
    BY <1>7, <1>N, <2>0, <2>1, <2>2, <2>3, InsideKeepsHealth
    DEF Condemn, history
<1>8. ASSUME UNCHANGED healthVars  PROVE HealthIInv'
  BY <1>8 DEF healthVars, HealthIInv, HealthTypeOK, Owned, Blank, Of, Checking,
              EarnedBy, Knows, Unspoilt
<1> QED
  BY <1>1, <1>2, <1>3, <1>4, <1>5, <1>6, <1>7, <1>8, FetchKeepsHealth,
     StoreKeepsHealth, ResetKeepsHealth
  DEF HealthNext, CheckStep

LEMMA HealthIInvEarns == HealthIInv => UnhealthyIsEarned
<1> SUFFICES ASSUME HealthIInv, NEW t \in Target, ~IsHealthy(t)
             PROVE  failed[t] >= failure_threshold
  BY DEF UnhealthyIsEarned
<1>1. statuses[t] \in HealthObject /\ ~heap[statuses[t]].healthy
  BY DEF HealthIInv, HealthTypeOK, IsHealthy
<1> QED  BY <1>1 DEF HealthIInv, Of, EarnedBy

(* The state of the health checker is well typed, and a thread holds an    *)
(* object just while it is in check(), for any threads and targets.        *)
THEOREM HealthTypeCorrect == HealthSpec => []HealthTypeOK
<1>1. HealthIInv => HealthTypeOK
  BY DEF HealthIInv
<1> QED  BY <1>1, InitHealthIInv, NextHealthIInv, PTL DEF HealthSpec

(* However the checks and resets of any number of threads overlap, with    *)
(* lost updates and objects that were replaced, a target called unhealthy  *)
(* has failed a threshold's worth of checks since it was last well.        *)
THEOREM NeverUnhealthyUnearned == HealthSpec => []UnhealthyIsEarned
BY InitHealthIInv, NextHealthIInv, HealthIInvEarns, PTL DEF HealthSpec
=============================================================================
