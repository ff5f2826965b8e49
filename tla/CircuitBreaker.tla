--------------------------- MODULE CircuitBreaker ---------------------------
(***************************************************************************)
(* The methods of patchwork/circuit_breaker.py as operators on a breaker   *)
(* record: each returns the breaker the method leaves behind.  The first   *)
(* argument is the breaker's CircuitBreakerConfig.                         *)
(*                                                                         *)
(* opened_at is kept as open_for, the time since _open ran.  It stops at   *)
(* recovery_timeout, the most is_open can tell apart.  failure_count stops *)
(* at MaxCount: only its comparison with failure_threshold is ever read.   *)
(***************************************************************************)
EXTENDS Naturals

CONSTANT MaxCount

ASSUME MaxCountAssumption == MaxCount \in Nat

BreakerConfig ==
    [failure_threshold : 0..MaxCount, recovery_timeout : Nat,
     success_threshold : Nat]

CircuitState == {"CLOSED", "OPEN", "HALF_OPEN"}

Breaker(f) ==
    [state : CircuitState,
     failure_count : 0..MaxCount,
     success_count : 0..f.success_threshold,
     open_for : 0..f.recovery_timeout]

(* A breaker as the dataclass makes it.                                    *)
NewBreaker ==
    [state |-> "CLOSED", failure_count |-> 0, success_count |-> 0,
     open_for |-> 0]

-----------------------------------------------------------------------------
(* What is_open() answers: should the request be blocked?                  *)
Blocks(f, b) == b.state = "OPEN" /\ b.open_for < f.recovery_timeout

(* A plausible slip: every call outside CLOSED starts the probe count anew.*)
IsOpenRestartsProbe(f, b) ==
    IF b.state # "CLOSED" /\ ~Blocks(f, b)
    THEN [b EXCEPT !.state = "HALF_OPEN", !.success_count = 0]
    ELSE b

(* is_open(): the first caller after the timeout turns OPEN to HALF_OPEN.  *)
IsOpen(f, b) ==
    IF b.state = "OPEN" /\ ~Blocks(f, b)
    THEN [b EXCEPT !.state = "HALF_OPEN", !.success_count = 0]
    ELSE b

Opened(b) ==
    [b EXCEPT !.state = "OPEN", !.open_for = 0, !.success_count = 0]

(* A plausible slip in _close: a counter that survives it.                 *)
ClosedKeepsFailures(b) ==
    [b EXCEPT !.state = "CLOSED", !.success_count = 0]

Closed(b) ==
    [b EXCEPT !.state = "CLOSED", !.failure_count = 0, !.success_count = 0]

(* record_success(): nothing happens to an OPEN breaker.                   *)
RecordSuccess(f, b) ==
    CASE b.state = "HALF_OPEN" /\ b.success_count + 1 >= f.success_threshold ->
           Closed(b)
      [] b.state = "HALF_OPEN" /\ b.success_count + 1 < f.success_threshold ->
           [b EXCEPT !.success_count = @ + 1]
      [] b.state = "CLOSED" -> [b EXCEPT !.failure_count = 0]
      [] b.state = "OPEN"   -> b

CountFailure(b) ==
    IF b.failure_count < MaxCount THEN [b EXCEPT !.failure_count = @ + 1] ELSE b

(* record_failure(): a failure while OPEN is counted and nothing else.     *)
RecordFailure(f, b) ==
    LET c == CountFailure(b) IN
    IF \/ b.state = "HALF_OPEN"
       \/ b.state = "CLOSED" /\ c.failure_count >= f.failure_threshold
    THEN Opened(c)
    ELSE c

(* A unit of time passes over a breaker.                                   *)
Aged(f, b) ==
    IF Blocks(f, b) THEN [b EXCEPT !.open_for = @ + 1] ELSE b
=============================================================================
