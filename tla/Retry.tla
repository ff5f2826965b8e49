------------------------------- MODULE Retry --------------------------------
(***************************************************************************)
(* with_retry of patchwork/retry.py: a call is repeated while it raises or *)
(* answers with a retryable status, with a capped exponential backoff      *)
(* between two attempts.  The callee is free to do anything in each        *)
(* attempt.                                                                *)
(***************************************************************************)
EXTENDS Naturals, Sequences

CONSTANTS
    Attempts,          \* values of max_attempts, 0 among them
    Status,            \* status codes the callee may answer with
    DefaultRetryable,  \* [502, 503, 504]
    Base,              \* backoff_base_ms
    Multiplier,        \* backoff_multiplier
    MaxBackoff         \* max_backoff_ms

ASSUME RetryAssumption ==
    /\ Attempts \subseteq Nat
    /\ DefaultRetryable \subseteq Status
    /\ {"raise", "None"} \intersect Status = {}
    /\ Base \in Nat /\ Multiplier \in Nat /\ MaxBackoff \in Nat

(* What a call does: it raises, returns None, or returns a tuple with a    *)
(* status.  (Any other value is like a status that is not retryable.)      *)
Outcome == Status \union {"raise", "None"}

VARIABLES
    config,      \* the RetryConfig
    pc,          \* "calling", "sleeping" or "done"
    attempt,     \* the loop variable
    last_value,  \* last_value, "None" at first
    last_exc,    \* last_exc: the number of the call that raised it, 0 for None
    result,      \* the RetryResult
    calls,       \* history: the outcomes of the calls
    slept        \* history: the delays slept

retryVars == <<config, pc, attempt, last_value, last_exc, result, calls, slept>>

(* RetryConfig.__init__: an empty list of codes means the default ones.    *)
RetryConfig(n, codes) ==
    [max_attempts |-> n,
     retryable    |-> IF codes = {} THEN DefaultRetryable ELSE codes]

NoResult == [value |-> "None", attempts |-> 0, last_exception |-> 0]

Succeeded(r) == r.last_exception = 0 /\ r.value # "None"

-----------------------------------------------------------------------------
RetryInit ==
    /\ \E n \in Attempts, codes \in SUBSET Status :
         config = RetryConfig(n, codes)
    /\ pc = "calling"
    /\ attempt = 0
    /\ last_value = "None"
    /\ last_exc = 0
    /\ result = NoResult
    /\ calls = <<>>
    /\ slept = <<>>

(* backoff_multiplier ** n.                                                *)
Power[n \in Nat] == IF n = 0 THEN 1 ELSE Multiplier * Power[n - 1]

(* A plausible slip: the delay is not capped.                              *)
UncappedDelay(n) == Base * Power[n]

(* backoff_seconds(), in milliseconds.                                     *)
Delay(n) ==
    IF Base * Power[n] > MaxBackoff THEN MaxBackoff ELSE Base * Power[n]

(* A plausible slip: sleeping after the last attempt too.                  *)
AlwaysSleep ==
    pc' = "sleeping" /\ UNCHANGED attempt

(* After a failed attempt: sleep if there is another one.                  *)
SleepOrGoOn ==
    IF attempt + 1 < config.max_attempts
    THEN pc' = "sleeping" /\ UNCHANGED attempt
    ELSE pc' = "calling" /\ attempt' = attempt + 1

(* The call answers with a retryable status: a soft failure.               *)
SoftFailure(o) ==
    /\ pc = "calling"
    /\ attempt < config.max_attempts
    /\ o \in config.retryable
    /\ calls' = Append(calls, o)
    /\ last_value' = o
    /\ SleepOrGoOn
    /\ UNCHANGED <<config, last_exc, result, slept>>

(* A plausible slip: an earlier exception is reported with a good answer.  *)
SettleWithException(o) ==
    [value |-> o, attempts |-> attempt + 1, last_exception |-> last_exc]

Settle(o) ==
    [value |-> o, attempts |-> attempt + 1, last_exception |-> 0]

(* The call returns anything else: that is the result.                     *)
Return(o) ==
    /\ pc = "calling"
    /\ attempt < config.max_attempts
    /\ o \notin config.retryable \union {"raise"}
    /\ calls' = Append(calls, o)
    /\ result' = Settle(o)
    /\ pc' = "done"
    /\ UNCHANGED <<config, attempt, last_value, last_exc, slept>>

(* The call raises.                                                        *)
Raise ==
    /\ pc = "calling"
    /\ attempt < config.max_attempts
    /\ calls' = Append(calls, "raise")
    /\ last_exc' = attempt + 1
    /\ SleepOrGoOn
    /\ UNCHANGED <<config, last_value, result, slept>>

Sleep ==
    /\ pc = "sleeping"
    /\ slept' = Append(slept, Delay(attempt))
    /\ attempt' = attempt + 1
    /\ pc' = "calling"
    /\ UNCHANGED <<config, last_value, last_exc, result, calls>>

(* The loop is over: the last soft failure's value and the last exception, *)
(* whichever of them came last.                                            *)
Exhausted ==
    /\ pc = "calling"
    /\ attempt >= config.max_attempts
    /\ result' = [value |-> last_value, attempts |-> config.max_attempts,
                  last_exception |-> last_exc]
    /\ pc' = "done"
    /\ UNCHANGED <<config, attempt, last_value, last_exc, calls, slept>>

RetryNext ==
    \/ \E o \in Outcome : SoftFailure(o) \/ Return(o)
    \/ Raise
    \/ Sleep
    \/ Exhausted

RetrySpec == RetryInit /\ [][RetryNext]_retryVars

-----------------------------------------------------------------------------
(* The type of every variable: what was slept are delays of the backoff.   *)
RetryTypeOK ==
    /\ config \in [max_attempts : Attempts, retryable : SUBSET Status]
    /\ pc \in {"calling", "sleeping", "done"}
    /\ attempt \in 0..config.max_attempts
    /\ last_value \in Status \union {"None"}
    /\ last_exc \in 0..config.max_attempts
    /\ result \in [value : Status \union {"None"},
                   attempts : 0..config.max_attempts,
                   last_exception : 0..config.max_attempts]
    /\ calls \in Seq(Outcome)
    /\ slept \in Seq({Delay(n) : n \in 0..config.max_attempts})

LastCall == calls[Len(calls)]

(* A call that ends well is the result, whatever failed before it: its     *)
(* value, no exception.  A call that raises is never forgotten unless one  *)
(* ended well after it.                                                    *)
ResultTellsTheEnd ==
    pc = "done" /\ calls # <<>> =>
        IF LastCall \notin config.retryable \union {"raise"}
        THEN result.value = LastCall /\ result.last_exception = 0
        ELSE result.last_exception =
               (IF \E n \in DOMAIN calls : calls[n] = "raise"
                THEN CHOOSE n \in DOMAIN calls :
                       /\ calls[n] = "raise"
                       /\ \A m \in DOMAIN calls : calls[m] = "raise" => m <= n
                ELSE 0)

(* The attempts reported are the calls made, at most max_attempts; between *)
(* two calls there is one sleep, and none after the last.                  *)
AttemptsHonest ==
    /\ Len(calls) <= config.max_attempts
    /\ pc = "done" => /\ result.attempts = Len(calls)
                      /\ calls # <<>> => Len(slept) = Len(calls) - 1

(* Waiting never gets longer than max_backoff_ms, nor shorter from one     *)
(* attempt to the next, if the multiplier is not below one.                *)
BackoffGrowsToCap ==
    \A m, n \in DOMAIN slept :
        m <= n => /\ slept[n] <= MaxBackoff
                  /\ Multiplier > 0 => slept[m] <= slept[n]

(* A retried call that only ever got retryable statuses has not succeeded  *)
(* (tests/test_retry.py, test_exhausts_retries_on_persistent_status).      *)
(* succeeded says otherwise.                                               *)
ExhaustedIsNotSuccess ==
    pc = "done" /\ (\A n \in DOMAIN calls : calls[n] \in config.retryable) =>
        ~Succeeded(result)
=============================================================================
