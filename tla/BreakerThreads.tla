-------------------------- MODULE BreakerThreads ---------------------------
(***************************************************************************)
(* The circuit breaker middleware once more, for one route, with every     *)
(* read and every assignment of a shared attribute a step of its own:      *)
(* neither patchwork/circuit_breaker.py nor _get_breaker of                *)
(* patchwork/middleware_circuit_breaker.py takes a lock.                   *)
(*                                                                         *)
(* A breaker is known by the thread that made it; each thread makes one at *)
(* most, before it finds an entry in the registry.                         *)
(*                                                                         *)
(* Names are prefixed where this module is extended together with others.  *)
(***************************************************************************)
EXTENDS CircuitBreaker

CONSTANTS
    Thread,        \* server threads
    Nobody,        \* no breaker
    ThreadConfig   \* the config a breaker ends up with

ASSUME ThreadAssumption == ThreadConfig \in BreakerConfig /\ Nobody \notin Thread

VARIABLES
    entry,     \* the registry's breaker for the route
    breaker,   \* the attributes of each breaker
    at,        \* the next step of each thread
    mine,      \* the breaker it works on ...
    count      \* ... and the number it has read from it and will increment

threadVars == <<entry, breaker, at, mine, count>>

At(w, p)     == at[w] = p
Attribute(w) == breaker[mine[w]]

(* The thread goes on at q; outside the breaker's methods it has none.     *)
GoesOn(w, q) ==
    /\ at' = [at EXCEPT ![w] = q]
    /\ mine' = IF q \in {"idle", "admitted"}
               THEN [mine EXCEPT ![w] = Nobody] ELSE mine

(* It looks the route's breaker up, and goes on at q with that.            *)
Gets(w, q) ==
    /\ mine' = [mine EXCEPT ![w] = entry]
    /\ at' = [at EXCEPT ![w] = q]
    /\ UNCHANGED <<entry, breaker, count>>

(* The attributes are h, of the breakers somebody can still get at.        *)
Becomes(h) ==
    breaker' = [o \in Thread |-> IF entry = o \/ \E v \in Thread : mine'[v] = o
                                 THEN h[o] ELSE NewBreaker]

(* A condition on one attribute is tested.                                 *)
Tests(w, p, condition, yes, no) ==
    /\ At(w, p)
    /\ GoesOn(w, IF condition THEN yes ELSE no)
    /\ Becomes(breaker)
    /\ UNCHANGED <<entry, count>>

(* An attribute is assigned: b is the breaker after it.                    *)
Assigns(w, p, b, q) ==
    /\ At(w, p)
    /\ GoesOn(w, q)
    /\ Becomes([breaker EXCEPT ![mine[w]] = b])
    /\ UNCHANGED <<entry, count>>

(* An attribute is incremented: a read, and a write of what was read and   *)
(* one more.                                                               *)
Reads(w, p, n, q) ==
    /\ At(w, p)
    /\ count' = [count EXCEPT ![w] = n]
    /\ GoesOn(w, q)
    /\ UNCHANGED <<entry, breaker>>

Writes(w, p, b, q) ==
    /\ At(w, p)
    /\ count' = [count EXCEPT ![w] = 0]
    /\ GoesOn(w, q)
    /\ Becomes([breaker EXCEPT ![mine[w]] = b])
    /\ UNCHANGED entry

UpTo(n, max) == IF n < max THEN n ELSE max

-----------------------------------------------------------------------------
ThreadInit ==
    /\ entry = Nobody
    /\ breaker = [w \in Thread |-> NewBreaker]
    /\ at = [w \in Thread |-> "idle"]
    /\ mine = [w \in Thread |-> Nobody]
    /\ count = [w \in Thread |-> 0]

Request(w) ==
    /\ At(w, "idle")
    /\ GoesOn(w, "lookup")
    /\ UNCHANGED <<entry, breaker, count>>

(* _get_breaker: the test, the insertion and the look-up.                  *)
Lookup(w) == Tests(w, "lookup", entry = Nobody, "insert", "get")

(* opened_at is 0.0 until a breaker opens: any time ago, by time.monotonic.*)
Insert(w) ==
    /\ At(w, "insert")
    /\ entry' = w
    /\ GoesOn(w, "get")
    /\ \E n \in 0..ThreadConfig.recovery_timeout :
         breaker' = [breaker EXCEPT ![w] = [NewBreaker EXCEPT !.open_for = n]]
    /\ UNCHANGED count

GetBreaker(w) == At(w, "get") /\ Gets(w, "is_open")

(* A plausible slip: whatever is not CLOSED goes on to the clock.          *)
IsOpenNotClosed(w) ==
    Tests(w, "is_open", Attribute(w).state # "CLOSED", "elapsed", "admitted")

(* is_open().                                                              *)
IsOpenState(w) ==
    Tests(w, "is_open", Attribute(w).state = "OPEN", "elapsed", "admitted")

IsOpenElapsed(w) ==
    Tests(w, "elapsed",
          Attribute(w).open_for >= ThreadConfig.recovery_timeout,
          "half_open", "idle")

HalfOpen(w) ==
    Assigns(w, "half_open", [Attribute(w) EXCEPT !.state = "HALF_OPEN"],
            "probe")

Probe(w) ==
    Assigns(w, "probe", [Attribute(w) EXCEPT !.success_count = 0], "admitted")

(* The upstream's answer, and _get_breaker in the post hook: by then the   *)
(* registry has an entry, perhaps another one than the pre hook found.     *)
Answers(w, ok) ==
    /\ At(w, "admitted")
    /\ Gets(w, IF ok THEN "success_state" ELSE "read_failures")

(* An exception in place of the post hook.                                 *)
Vanishes(w) ==
    /\ At(w, "admitted")
    /\ GoesOn(w, "idle")
    /\ UNCHANGED <<entry, breaker, count>>

-----------------------------------------------------------------------------
(* record_success().                                                       *)
SuccessState(w) ==
    Tests(w, "success_state", Attribute(w).state = "HALF_OPEN",
          "read_successes", "success_elif")

SuccessElif(w) ==
    Tests(w, "success_elif", Attribute(w).state = "CLOSED", "forget", "idle")

Forget(w) ==
    Assigns(w, "forget", [Attribute(w) EXCEPT !.failure_count = 0], "idle")

ReadSuccesses(w) ==
    Reads(w, "read_successes", Attribute(w).success_count, "write_successes")

WriteSuccesses(w) ==
    Writes(w, "write_successes",
           [Attribute(w) EXCEPT !.success_count =
               UpTo(count[w] + 1, ThreadConfig.success_threshold)],
           "enough")

Enough(w) ==
    Tests(w, "enough",
          Attribute(w).success_count >= ThreadConfig.success_threshold,
          "close", "idle")

(* _close(), in the order of its assignments.                              *)
CloseState(w) ==
    Assigns(w, "close", [Attribute(w) EXCEPT !.state = "CLOSED"],
            "close_failures")

(* A plausible slip: the failures of the outage are kept.                  *)
CloseKeepsFailures(w) ==
    Assigns(w, "close_failures", Attribute(w), "close_successes")

CloseFailures(w) ==
    Assigns(w, "close_failures", [Attribute(w) EXCEPT !.failure_count = 0],
            "close_successes")

CloseSuccesses(w) ==
    Assigns(w, "close_successes", [Attribute(w) EXCEPT !.success_count = 0],
            "idle")

-----------------------------------------------------------------------------
(* record_failure().                                                       *)
ReadFailureCount(w) ==
    Reads(w, "read_failures", Attribute(w).failure_count, "write_failures")

WriteFailureCount(w) ==
    Writes(w, "write_failures",
           [Attribute(w) EXCEPT !.failure_count = UpTo(count[w] + 1, MaxCount)],
           "failure_state")

FailureState(w) ==
    Tests(w, "failure_state", Attribute(w).state = "HALF_OPEN",
          "open", "failure_elif")

(* A plausible slip: the threshold alone decides, whatever the state.      *)
FailureElifAny(w) == Tests(w, "failure_elif", TRUE, "threshold", "idle")

FailureElif(w) ==
    Tests(w, "failure_elif", Attribute(w).state = "CLOSED",
          "threshold", "idle")

(* A plausible slip: == for >=, which a count can jump over.               *)
ThresholdExactly(w) ==
    Tests(w, "threshold",
          Attribute(w).failure_count = ThreadConfig.failure_threshold,
          "open", "idle")

Threshold(w) ==
    Tests(w, "threshold",
          Attribute(w).failure_count >= ThreadConfig.failure_threshold,
          "open", "idle")

(* _open(), in the order of its assignments.                               *)
OpenState(w) ==
    Assigns(w, "open", [Attribute(w) EXCEPT !.state = "OPEN"], "opened_at")

OpenedAt(w) ==
    Assigns(w, "opened_at", [Attribute(w) EXCEPT !.open_for = 0], "open_clear")

OpenClear(w) ==
    Assigns(w, "open_clear", [Attribute(w) EXCEPT !.success_count = 0], "idle")

-----------------------------------------------------------------------------
(* Time passes, while an open breaker can tell.                            *)
ClockTick ==
    /\ \E w \in Thread : Blocks(ThreadConfig, breaker[w])
    /\ breaker' = [w \in Thread |->
         [breaker[w] EXCEPT !.open_for =
             UpTo(@ + 1, ThreadConfig.recovery_timeout)]]
    /\ UNCHANGED <<entry, at, mine, count>>

ThreadStep(w) ==
    \/ Lookup(w) \/ Insert(w) \/ GetBreaker(w)
    \/ IsOpenState(w) \/ IsOpenElapsed(w) \/ HalfOpen(w) \/ Probe(w)
    \/ \E ok \in BOOLEAN : Answers(w, ok)
    \/ SuccessState(w) \/ SuccessElif(w) \/ Forget(w)
    \/ ReadSuccesses(w) \/ WriteSuccesses(w) \/ Enough(w)
    \/ CloseState(w) \/ CloseFailures(w) \/ CloseSuccesses(w)
    \/ ReadFailureCount(w) \/ WriteFailureCount(w)
    \/ FailureState(w) \/ FailureElif(w) \/ Threshold(w)
    \/ OpenState(w) \/ OpenedAt(w) \/ OpenClear(w)

ThreadNext ==
    \/ ClockTick
    \/ \E w \in Thread : Request(w) \/ Vanishes(w) \/ ThreadStep(w)

ThreadSpec == ThreadInit /\ [][ThreadNext]_threadVars

(* As in BreakerMiddleware: time passes, and a thread that took a request  *)
(* runs on; requests and exceptions are not owed.                          *)
ThreadFairness ==
    WF_threadVars(ClockTick) /\ \A w \in Thread : WF_threadVars(ThreadStep(w))

-----------------------------------------------------------------------------
(* A CLOSED breaker whose count has reached the threshold is about to be   *)
(* opened, or to have its count cleared, by some thread: no interleaving   *)
(* of the unlocked assignments leaves it there for good, letting an outage *)
(* through, or one failure away from a trip it has not earned.             *)
TripPending ==
    \A b \in Thread :
        /\ breaker[b].state = "CLOSED"
        /\ breaker[b].failure_count > 0
        /\ breaker[b].failure_count >= ThreadConfig.failure_threshold
        => \E w \in Thread :
             mine[w] = b /\ at[w] \in {"failure_state", "failure_elif",
                                       "threshold", "open", "close_failures"}

(* The threads that have tested a breaker and are on their way to setting  *)
(* its opened_at.                                                          *)
Opening(b) ==
    {w \in Thread : mine[w] = b /\ at[w] \in {"threshold", "open", "opened_at"}}

(* The recovery clock of an open circuit is set back only by threads whose *)
(* test of its state came before it opened, and by each of them once: the  *)
(* failures of requests admitted before the trip and reported after it,    *)
(* and the threads on their way to _open() together, prolong an outage by  *)
(* as many restarts as there are such threads, and no more.                *)
OutageBounded ==
    [][\A b \in Thread :
          breaker[b].state = "OPEN" /\ breaker'[b].state = "OPEN" =>
              /\ Opening(b)' \subseteq Opening(b)
              /\ \/ breaker'[b].open_for >= breaker[b].open_for
                 \/ Opening(b)' # Opening(b)]_threadVars

(* Once the upstream has stopped failing and requests go on, the route's   *)
(* breaker closes and stays closed, even after two threads' assignments to *)
(* it have been mixed and one's breaker has replaced another's.            *)
ThreadsRecover ==
    /\ <>[][\A w \in Thread : ~Vanishes(w) /\ ~Answers(w, FALSE)]_threadVars
    /\ []<><<\E w \in Thread : Request(w)>>_threadVars
    => <>[](entry # Nobody /\ breaker[entry].state = "CLOSED")

(* While every answer is a failure and requests go on, the circuit does    *)
(* not stay closed.                                                        *)
ThreadsTrip ==
    /\ <>[][\A w \in Thread : ~Vanishes(w) /\ ~Answers(w, TRUE)]_threadVars
    /\ []<><<\E w \in Thread : Request(w)>>_threadVars
    => []<>(entry # Nobody /\ breaker[entry].state # "CLOSED")
=============================================================================
