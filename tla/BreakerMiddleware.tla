------------------------- MODULE BreakerMiddleware --------------------------
(***************************************************************************)
(* The circuit breaker middleware of                                       *)
(* patchwork/middleware_circuit_breaker.py: one breaker per route, asked   *)
(* by the pre hook and told the outcome by the post hook, with the         *)
(* requests of several workers between the two hooks at once.              *)
(*                                                                         *)
(* A call of a breaker method is one step: what is modelled here is the    *)
(* order of whole calls, over several routes.  The methods take no lock;   *)
(* BreakerThreads has their tests and assignments one by one, and what is  *)
(* stated of a breaker there holds whatever their interleaving.  A route   *)
(* with no breaker in the registry reads as the breaker _get_breaker would *)
(* put there; nothing deletes one.                                         *)
(***************************************************************************)
EXTENDS CircuitBreaker

CONSTANTS
    Worker,    \* server threads
    Route,     \* values of _route_id(ctx)
    Default,   \* the defaults of the CircuitBreakerConfig dataclass
    Given      \* the config given to make_circuit_breaker_middleware

ASSUME BreakerAssumption ==
    Default \in BreakerConfig /\ Given \in BreakerConfig

VARIABLES
    registry,  \* the breaker of each route
    ctx        \* the RequestContext each worker holds

vars == <<registry, ctx>>

(* _get_breaker calls CircuitBreaker(config), whose first field is host:   *)
(* the breaker's own config field keeps the dataclass default.             *)
Effective == Default

Status    == {"ok", "5xx"}
NoContext == [phase |-> "idle"]
Context   ==
    {NoContext}
        \union [phase : {"arrived", "admitted", "blocked"}, route : Route]
        \union [phase : {"answered"}, route : Route, status : Status]

-----------------------------------------------------------------------------
Init ==
    /\ registry = [r \in Route |-> NewBreaker]
    /\ ctx = [w \in Worker |-> NoContext]

Arrive(w, r) ==
    /\ ctx[w].phase = "idle"
    /\ ctx' = [ctx EXCEPT ![w] = [phase |-> "arrived", route |-> r]]
    /\ UNCHANGED registry

(* pre_middleware: ask the route's breaker, and either answer 503 or let   *)
(* the request on with the route in its metadata.                          *)
Pre(w) ==
    /\ ctx[w].phase = "arrived"
    /\ LET r == ctx[w].route IN
         /\ registry' = [registry EXCEPT ![r] = IsOpen(Effective, registry[r])]
         /\ ctx' = [ctx EXCEPT ![w].phase =
                      IF Blocks(Effective, registry[r])
                      THEN "blocked" ELSE "admitted"]

(* The upstream answers, with any status.                                  *)
Answer(w, s) ==
    /\ ctx[w].phase = "admitted"
    /\ ctx' = [ctx EXCEPT ![w] = [phase |-> "answered", route |-> ctx[w].route,
                                  status |-> s]]
    /\ UNCHANGED registry

(* The upstream call, or a middleware between the two hooks, raises: the   *)
(* post hook never hears of it.                                            *)
Raise(w) ==
    /\ ctx[w].phase = "admitted"
    /\ ctx' = [ctx EXCEPT ![w] = NoContext]
    /\ UNCHANGED registry

(* post_middleware: a blocked request reports nothing, any other one its   *)
(* status to the breaker of the route the pre hook stored.                 *)
PostBlocked(w) ==
    /\ ctx[w].phase = "blocked"
    /\ ctx' = [ctx EXCEPT ![w] = NoContext]
    /\ UNCHANGED registry

PostReport(w) ==
    /\ ctx[w].phase = "answered"
    /\ LET r == ctx[w].route IN
         registry' = [registry EXCEPT ![r] =
             IF ctx[w].status = "5xx"
             THEN RecordFailure(Effective, registry[r])
             ELSE RecordSuccess(Effective, registry[r])]
    /\ ctx' = [ctx EXCEPT ![w] = NoContext]

(* Time passes, while somebody can tell.                                   *)
Tick ==
    /\ \E r \in Route : Blocks(Effective, registry[r])
    /\ registry' = [r \in Route |-> Aged(Effective, registry[r])]
    /\ UNCHANGED ctx

Step(w) ==
    \/ Pre(w)
    \/ \E s \in Status : Answer(w, s)
    \/ PostBlocked(w)
    \/ PostReport(w)

Next ==
    \/ Tick
    \/ \E w \in Worker :
         \/ \E r \in Route : Arrive(w, r)
         \/ Step(w)
         \/ Raise(w)

Spec == Init /\ [][Next]_vars

(* Time passes, and a thread that took a request runs on; arrivals and     *)
(* exceptions are not owed.                                                *)
FairSpec ==
    /\ Spec
    /\ WF_vars(Tick)
    /\ \A w \in Worker : WF_vars(Step(w))

-----------------------------------------------------------------------------
(* The type of every variable.                                             *)
TypeOK ==
    /\ registry \in [Route -> Breaker(Effective)]
    /\ ctx \in [Worker -> Context]

(* A circuit that still lets everything through has not seen a threshold's *)
(* worth of failures since its last success or its last recovery, whatever *)
(* late answers were counted while it was open.                            *)
ClosedBelowThreshold ==
    \A r \in Route :
        registry[r].state = "CLOSED" =>
            \/ registry[r].failure_count = 0
            \/ registry[r].failure_count < Effective.failure_threshold

(* When a route's upstream has stopped failing and its clients go on       *)
(* asking, its circuit closes and stays closed.                            *)
Recovers ==
    \A r \in Route :
        /\ <>[][\A w \in Worker :
                  ctx[w] = [phase |-> "admitted", route |-> r] =>
                      /\ ~Raise(w)
                      /\ ~Answer(w, "5xx")]_vars
        /\ []<><<\E w \in Worker : Arrive(w, r)>>_vars
        => <>[](registry[r].state = "CLOSED")

(* The circuit opens at the threshold its middleware was given             *)
(* (tests/test_middleware_circuit_breaker.py,                              *)
(* test_post_middleware_opens_after_threshold).  It does not: the config   *)
(* ends up in the breaker's host field.                                    *)
OpensAtGivenThreshold ==
    \A r \in Route :
        registry[r].state = "CLOSED" =>
            registry[r].failure_count < Given.failure_threshold
=============================================================================
