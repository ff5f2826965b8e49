---------------------------- MODULE RetryProofs -----------------------------
(***************************************************************************)
(* Proofs about Retry, for any number of attempts and any status codes:    *)
(* with_retry reports the calls it made and how the last of them ended,    *)
(* and waits longer and longer, up to a limit.                             *)
(***************************************************************************)
EXTENDS Retry, WellFoundedInduction, TLAPS

Bad == config.retryable \union {"raise"}

(* n is the number of the last call of s that raised, 0 if none did.       *)
IsLastRaise(n, s) ==
    /\ n = 0 => \A m \in DOMAIN s : s[m] # "raise"
    /\ n # 0 => /\ n \in DOMAIN s /\ s[n] = "raise"
                /\ \A m \in DOMAIN s : s[m] = "raise" => m <= n

(* Where the loop stands: how many calls and sleeps are behind it.         *)
Counted ==
    /\ pc = "calling" /\ attempt < config.max_attempts =>
         Len(calls) = attempt /\ Len(slept) = attempt
    /\ pc = "calling" /\ attempt = config.max_attempts =>
         Len(calls) = attempt /\ (attempt # 0 => Len(slept) = attempt - 1)
    /\ pc = "sleeping" =>
         /\ attempt + 1 < config.max_attempts
         /\ Len(calls) = attempt + 1 /\ Len(slept) = attempt
    /\ pc = "done" =>
         /\ Len(calls) <= config.max_attempts
         /\ result.attempts = Len(calls)
         /\ calls # <<>> => Len(slept) = Len(calls) - 1

(* All that was called so far failed, and the last exception is kept; the  *)
(* result, once there is one, is that or the call that did not fail.       *)
AllBad ==
    /\ \A n \in DOMAIN calls : calls[n] \in Bad
    /\ IsLastRaise(last_exc, calls)

Told ==
    /\ pc # "done" => AllBad
    /\ pc = "done" =>
         \/ AllBad /\ result.last_exception = last_exc
         \/ /\ calls # <<>> /\ LastCall \notin Bad
            /\ result.value = LastCall /\ result.last_exception = 0

IInv == RetryTypeOK /\ Counted /\ Told

(* The n-th delay slept is the one for attempt n - 1.                      *)
Paced == \A n \in DOMAIN slept : slept[n] = Delay(n - 1)

-----------------------------------------------------------------------------
(* Every set of numbers that is not empty has a least one.                 *)
LEMMA LeastNumber ==
    ASSUME NEW T \in SUBSET Nat, T # {}
    PROVE  \E n \in T : \A m \in T : n <= m
<1>1. PICK n \in T : \A m \in T : <<m, n>> \notin OpToRel(<, Nat)
  BY WFMin, NatLessThanWellFounded
<1>2. OpToRel(<, Nat) = {ss \in Nat \X Nat : ss[1] < ss[2]}
  BY DEF OpToRel
<1>3. ASSUME NEW m \in T  PROVE n <= m
  <2>1. m \in Nat /\ n \in Nat /\ ~ (m < n)
    BY <1>1, <1>2
  <2> QED  BY <2>1
<1> QED  BY <1>3

(* backoff_multiplier ** n, as a product: the powers up to each exponent   *)
(* exist, agree with one another, and so make one function.                *)
PowersTo(N) ==
    {f \in [0..N -> Nat] :
        f[0] = 1 /\ \A n \in 1..N : f[n] = Multiplier * f[n - 1]}

LEMMA PowersExist == \A N \in Nat : PowersTo(N) # {}
<1> DEFINE T == {N \in Nat : PowersTo(N) = {}}
<1> SUFFICES ASSUME T # {}  PROVE FALSE
  OBVIOUS
<1>1. PICK N \in T : \A m \in T : N <= m
  BY LeastNumber
<1>2. CASE N = 0
  <2>1. [n \in 0..0 |-> 1] \in PowersTo(0)
    BY DEF PowersTo
  <2> QED  BY <1>1, <1>2, <2>1
<1>3. CASE N # 0
  <2>1. N \in Nat /\ N - 1 \in Nat /\ N - 1 \notin T
    BY <1>1, <1>3
  <2>2. PICK f \in PowersTo(N - 1) : TRUE
    BY <2>1
  <2>3. /\ f \in [0..(N - 1) -> Nat] /\ f[0] = 1
        /\ \A n \in 1..(N - 1) : f[n] = Multiplier * f[n - 1]
    BY <2>2 DEF PowersTo
  <2> DEFINE g == [n \in 0..N |-> IF n = N THEN Multiplier * f[N - 1] ELSE f[n]]
  <2>4. Multiplier * f[N - 1] \in Nat
    BY <2>1, <2>3, RetryAssumption
  <2>5. g \in [0..N -> Nat]
    BY <2>1, <2>3, <2>4
  <2>6. g[0] = 1
    BY <2>1, <2>3, <1>3
  <2>7. ASSUME NEW n \in 1..N  PROVE g[n] = Multiplier * g[n - 1]
    <3>1. n \in 0..N /\ n - 1 \in 0..N /\ n - 1 # N
      BY <2>1
    <3>2. CASE n = N
      BY <3>1, <3>2
    <3>3. CASE n # N
      <4>1. n \in 1..(N - 1)
        BY <2>1, <3>3
      <4> QED  BY <2>3, <3>1, <3>3, <4>1
    <3> QED  BY <3>2, <3>3
  <2> HIDE DEF g
  <2>8. g \in PowersTo(N)
    BY <2>5, <2>6, <2>7 DEF PowersTo
  <2> QED  BY <1>1, <2>8
<1> QED  BY <1>2, <1>3

LEMMA PowersAgree ==
    ASSUME NEW M \in Nat, NEW N \in Nat,
           NEW f \in PowersTo(M), NEW g \in PowersTo(N)
    PROVE  \A n \in Nat : n <= M /\ n <= N => f[n] = g[n]
<1> DEFINE T == {n \in Nat : n <= M /\ n <= N /\ f[n] # g[n]}
<1> SUFFICES ASSUME T # {}  PROVE FALSE
  OBVIOUS
<1>1. PICK n \in T : \A m \in T : n <= m
  BY LeastNumber
<1>2. n # 0
  BY <1>1 DEF PowersTo
<1>3. n - 1 \in Nat /\ n - 1 \notin T /\ n \in 1..M /\ n \in 1..N
  BY <1>1, <1>2
<1>4. f[n - 1] = g[n - 1]
  BY <1>3
<1>5. f[n] = Multiplier * f[n - 1] /\ g[n] = Multiplier * g[n - 1]
  BY <1>3 DEF PowersTo
<1> QED  BY <1>1, <1>4, <1>5

LEMMA PowerFacts ==
    /\ Power \in [Nat -> Nat]
    /\ Power[0] = 1
    /\ \A n \in Nat : Power[n + 1] = Multiplier * Power[n]
<1> DEFINE P(n) == CHOOSE f \in PowersTo(n) : TRUE
           h == [n \in Nat |-> P(n)[n]]
<1>1. \A n \in Nat : P(n) \in PowersTo(n)
  BY PowersExist
<1>2. ASSUME NEW n \in Nat  PROVE P(n)[n] \in Nat
  <2>1. \A f \in PowersTo(n) : f[n] \in Nat
    BY DEF PowersTo
  <2> QED  BY <1>1, <2>1
<1>3. P(0)[0] = 1
  BY <1>1 DEF PowersTo
<1>4. ASSUME NEW n \in Nat, n # 0
      PROVE  P(n)[n] = Multiplier * P(n - 1)[n - 1]
  <2>1. n - 1 \in Nat /\ n \in 1..n /\ n - 1 <= n
    BY <1>4
  <2>2. P(n) \in PowersTo(n) /\ P(n - 1) \in PowersTo(n - 1)
    BY <1>1, <2>1
  <2> HIDE DEF P
  <2>3. P(n)[n - 1] = P(n - 1)[n - 1]
    BY <2>1, <2>2, PowersAgree
  <2> QED  BY <2>1, <2>2, <2>3 DEF PowersTo
<1> HIDE DEF P
<1>5. h = [n \in Nat |-> IF n = 0 THEN 1 ELSE Multiplier * h[n - 1]]
  <2>1. ASSUME NEW n \in Nat, n # 0  PROVE h[n] = Multiplier * h[n - 1]
    <3>1. n - 1 \in Nat
      BY <2>1
    <3> QED  BY <1>4, <2>1, <3>1
  <2>2. h[0] = 1
    BY <1>3
  <2>3. \A n \in Nat : h[n] = IF n = 0 THEN 1 ELSE Multiplier * h[n - 1]
    BY <2>1, <2>2
  <2> HIDE DEF h
  <2>4. h = [n \in Nat |-> h[n]]
    BY DEF h
  <2> QED  BY <2>3, <2>4
<1>6. Power = [n \in Nat |-> IF n = 0 THEN 1 ELSE Multiplier * Power[n - 1]]
  <2> HIDE DEF h
  <2> QED  BY <1>5 DEF Power
<1>7. Power[0] = 1
  BY <1>6
<1>8. ASSUME NEW n \in Nat  PROVE Power[n + 1] = Multiplier * Power[n]
  <2>1. n + 1 \in Nat /\ n + 1 # 0 /\ (n + 1) - 1 = n
    OBVIOUS
  <2>2. Power[n + 1] = IF n + 1 = 0 THEN 1 ELSE Multiplier * Power[(n + 1) - 1]
    BY <1>6, <2>1
  <2> QED  BY <2>1, <2>2
<1>9. \A n \in Nat : Power[n] \in Nat
  <2> DEFINE T == {n \in Nat : Power[n] \notin Nat}
  <2> SUFFICES ASSUME T # {}  PROVE FALSE
    OBVIOUS
  <2>1. PICK n \in T : \A m \in T : n <= m
    BY LeastNumber
  <2>2. n # 0
    BY <1>7, <2>1
  <2>3. n - 1 \in Nat /\ n - 1 \notin T /\ (n - 1) + 1 = n
    BY <2>1, <2>2
  <2>4. Power[n] = Multiplier * Power[n - 1] /\ Power[n - 1] \in Nat
    BY <1>8, <2>3
  <2>5. Power[n] \in Nat
    BY <2>4, RetryAssumption
  <2> QED  BY <2>1, <2>5
<1> QED  BY <1>6, <1>7, <1>8, <1>9

LEMMA PowerGrows ==
    ASSUME Multiplier > 0, NEW m \in Nat
    PROVE  \A n \in Nat : m <= n => Power[m] <= Power[n]
<1> DEFINE T == {n \in Nat : m <= n /\ ~ (Power[m] <= Power[n])}
<1> SUFFICES ASSUME T # {}  PROVE FALSE
  OBVIOUS
<1>1. PICK n \in T : \A k \in T : n <= k
  BY LeastNumber
<1>2. n # m
  BY <1>1, PowerFacts
<1>3. n - 1 \in Nat /\ n - 1 \notin T /\ m <= n - 1 /\ (n - 1) + 1 = n
  BY <1>1, <1>2
<1>4. Power[m] <= Power[n - 1]
  BY <1>3
<1>5. Power[n] = Multiplier * Power[n - 1] /\ Power[n - 1] \in Nat
  BY <1>3, PowerFacts
<1>6. \A k, x \in Nat : k > 0 => x <= k * x
  OBVIOUS
<1>7. Power[n - 1] <= Power[n]
  BY <1>5, <1>6, RetryAssumption
<1>8. Power[m] \in Nat /\ Power[n] \in Nat
  BY <1>1, PowerFacts
<1> QED  BY <1>1, <1>4, <1>5, <1>7, <1>8

(* The delay is capped, and grows until it is.                             *)
LEMMA DelayFacts ==
    ASSUME NEW m \in Nat, NEW n \in Nat, m <= n
    PROVE  /\ Delay(n) \in Nat /\ Delay(n) <= MaxBackoff
           /\ Multiplier > 0 => Delay(m) <= Delay(n)
<1>1. \A x, y \in Nat : x <= y => Base * x \in Nat /\ Base * x <= Base * y
  BY RetryAssumption
<1>2. Power[m] \in Nat /\ Power[n] \in Nat
  BY PowerFacts
<1>3. /\ Base * Power[m] \in Nat /\ Base * Power[n] \in Nat
      /\ Multiplier > 0 => Base * Power[m] <= Base * Power[n]
  BY <1>1, <1>2, PowerGrows
<1>4. Delay(n) \in Nat /\ Delay(n) <= MaxBackoff
  BY <1>3, RetryAssumption DEF Delay
<1>5. ASSUME Multiplier > 0  PROVE Delay(m) <= Delay(n)
  BY <1>3, <1>5, RetryAssumption DEF Delay
<1> QED  BY <1>4, <1>5

-----------------------------------------------------------------------------
LEMMA ConfigType ==
    ASSUME RetryTypeOK
    PROVE  /\ config.max_attempts \in Nat
           /\ config.retryable \subseteq Status
           /\ attempt \in Nat /\ attempt <= config.max_attempts
<1>1. config \in [max_attempts : Attempts, retryable : SUBSET Status]
  BY DEF RetryTypeOK
<1>2. config.max_attempts \in Nat /\ config.retryable \subseteq Status
  BY <1>1, RetryAssumption
<1>3. attempt \in 0..config.max_attempts
  BY DEF RetryTypeOK
<1> QED  BY <1>2, <1>3

(* Another call behind the others.                                         *)
LEMMA AppendFacts ==
    ASSUME NEW S, NEW s \in Seq(S), NEW e \in S
    PROVE  /\ Append(s, e) \in Seq(S)
           /\ Len(Append(s, e)) = Len(s) + 1
           /\ DOMAIN Append(s, e) = 1..(Len(s) + 1)
           /\ DOMAIN s = 1..Len(s) /\ Len(s) \in Nat
           /\ \A n \in DOMAIN s : Append(s, e)[n] = s[n]
           /\ Append(s, e)[Len(s) + 1] = e
           /\ Append(s, e) # <<>>
OBVIOUS

(* A failed call keeps what is known of the exceptions: a status leaves    *)
(* the last one, a raise is the last one.                                  *)
LEMMA RaiseIsLast ==
    ASSUME NEW s \in Seq(Outcome), NEW e \in Outcome, NEW n,
           IsLastRaise(n, s)
    PROVE  /\ e # "raise" => IsLastRaise(n, Append(s, e))
           /\ e = "raise" => IsLastRaise(Len(s) + 1, Append(s, e))
BY AppendFacts DEF IsLastRaise

(* SleepOrGoOn, with the call that failed counted.                         *)
LEMMA SleepOrGoOnFacts ==
    ASSUME IInv, pc = "calling", attempt < config.max_attempts,
           NEW e \in Outcome, calls' = Append(calls, e), SleepOrGoOn,
           UNCHANGED <<config, result, slept>>
    PROVE  /\ pc' \in {"calling", "sleeping"}
           /\ attempt' \in 0..config.max_attempts
           /\ calls' \in Seq(Outcome)
           /\ Counted'
<1>1. /\ config.max_attempts \in Nat /\ attempt \in Nat
      /\ calls \in Seq(Outcome)
  BY ConfigType DEF IInv, RetryTypeOK
<1>2. Len(calls) = attempt /\ Len(slept) = attempt
  BY DEF IInv, Counted
<1>3. calls' \in Seq(Outcome) /\ Len(calls') = attempt + 1
  BY <1>1, <1>2, AppendFacts
<1>4. CASE attempt + 1 < config.max_attempts
  BY <1>1, <1>2, <1>3, <1>4 DEF SleepOrGoOn, Counted
<1>5. CASE ~(attempt + 1 < config.max_attempts)
  BY <1>1, <1>2, <1>3, <1>5 DEF SleepOrGoOn, Counted
<1> QED  BY <1>4, <1>5

-----------------------------------------------------------------------------
LEMMA InitIInv == RetryInit => IInv
<1> SUFFICES ASSUME RetryInit  PROVE IInv
  OBVIOUS
<1>1. PICK n \in Attempts, codes \in SUBSET Status :
        config = RetryConfig(n, codes)
  BY DEF RetryInit
<1>2. /\ config \in [max_attempts : Attempts, retryable : SUBSET Status]
      /\ config.max_attempts \in Nat
  BY <1>1, RetryAssumption DEF RetryConfig
<1>3. RetryTypeOK
  BY <1>2 DEF RetryInit, RetryTypeOK, NoResult
<1>4. Counted
  BY <1>2 DEF RetryInit, Counted
<1>5. Told
  BY DEF RetryInit, Told, AllBad, IsLastRaise
<1> QED  BY <1>3, <1>4, <1>5 DEF IInv

LEMMA SoftFailureKeepsIInv ==
    ASSUME IInv, NEW o \in Outcome, SoftFailure(o)
    PROVE  IInv'
<1>1. /\ pc' \in {"calling", "sleeping"}
      /\ attempt' \in 0..config.max_attempts
      /\ calls' \in Seq(Outcome)
      /\ Counted'
  BY SleepOrGoOnFacts DEF SoftFailure
<1>2. o \in Status /\ o # "raise"
  BY ConfigType, RetryAssumption DEF SoftFailure, IInv
<1>3. RetryTypeOK'
  BY <1>1, <1>2 DEF SoftFailure, IInv, RetryTypeOK
<1>4. calls \in Seq(Outcome) /\ AllBad
  BY DEF IInv, RetryTypeOK, Told, SoftFailure
<1>5. IsLastRaise(last_exc, Append(calls, o))
  BY <1>2, <1>4, RaiseIsLast DEF AllBad
<1>6. \A n \in DOMAIN calls' : calls'[n] \in Bad'
  BY <1>4, AppendFacts DEF SoftFailure, AllBad, Bad
<1>7. AllBad' /\ pc' # "done"
  BY <1>1, <1>5, <1>6 DEF SoftFailure, AllBad
<1> QED  BY <1>1, <1>3, <1>7 DEF IInv, Told

LEMMA RaiseKeepsIInv ==
    ASSUME IInv, Raise
    PROVE  IInv'
<1>1. "raise" \in Outcome
  BY DEF Outcome
<1>2. /\ pc' \in {"calling", "sleeping"}
      /\ attempt' \in 0..config.max_attempts
      /\ calls' \in Seq(Outcome)
      /\ Counted'
  BY <1>1, SleepOrGoOnFacts DEF Raise
<1>3. Len(calls) = attempt
  BY DEF Raise, IInv, Counted
<1>4. last_exc' \in 0..config.max_attempts
  BY ConfigType DEF Raise, IInv
<1>5. RetryTypeOK'
  BY <1>2, <1>4 DEF Raise, IInv, RetryTypeOK
<1>6. calls \in Seq(Outcome) /\ AllBad
  BY DEF IInv, RetryTypeOK, Told, Raise
<1>7. IsLastRaise(last_exc', Append(calls, "raise"))
  BY <1>1, <1>3, <1>6, RaiseIsLast DEF AllBad, Raise
<1>8. \A n \in DOMAIN calls' : calls'[n] \in Bad'
  BY <1>1, <1>6, AppendFacts DEF Raise, AllBad, Bad
<1>9. AllBad' /\ pc' # "done"
  BY <1>2, <1>7, <1>8 DEF Raise, AllBad
<1> QED  BY <1>2, <1>5, <1>9 DEF IInv, Told

LEMMA ReturnKeepsIInv ==
    ASSUME IInv, NEW o \in Outcome, Return(o)
    PROVE  IInv'
<1>1. /\ config.max_attempts \in Nat /\ attempt \in Nat
      /\ attempt < config.max_attempts
  BY ConfigType DEF IInv, Return
<1>2. o \in Status \union {"None"}
  BY DEF Return, Outcome
<1>3. calls \in Seq(Outcome) /\ Len(calls) = attempt /\ Len(slept) = attempt
  BY DEF IInv, RetryTypeOK, Counted, Return
<1>4. /\ calls' = Append(calls, o)
      /\ calls' \in Seq(Outcome) /\ Len(calls') = attempt + 1
      /\ calls' # <<>> /\ calls'[Len(calls')] = o
  BY <1>3, AppendFacts DEF Return
<1>5. result' = [value |-> o, attempts |-> attempt + 1, last_exception |-> 0]
  BY DEF Return, Settle
<1>6. RetryTypeOK'
  BY <1>1, <1>2, <1>4, <1>5 DEF Return, IInv, RetryTypeOK
<1>7. Counted'
  BY <1>1, <1>3, <1>4, <1>5 DEF Return, Counted
<1>8. Told'
  BY <1>4, <1>5 DEF Return, Told, LastCall, Bad
<1> QED  BY <1>6, <1>7, <1>8 DEF IInv

LEMMA SleepKeepsIInv ==
    ASSUME IInv, Sleep
    PROVE  IInv'
<1> DEFINE D == {Delay(n) : n \in 0..config.max_attempts}
<1>1. /\ config.max_attempts \in Nat /\ attempt \in Nat
      /\ attempt \in 0..config.max_attempts
      /\ attempt + 1 < config.max_attempts
      /\ Len(calls) = attempt + 1 /\ Len(slept) = attempt
  BY ConfigType DEF IInv, Sleep, Counted
<1>2. Delay(attempt) \in D
  BY <1>1
<1>3. slept \in Seq(D)
  BY DEF IInv, RetryTypeOK
<1> HIDE DEF D
<1>4. slept' \in Seq(D) /\ Len(slept') = attempt + 1
  BY <1>1, <1>2, <1>3, AppendFacts DEF Sleep
<1>5. RetryTypeOK'
  BY <1>1, <1>4 DEF Sleep, IInv, RetryTypeOK, D, Delay
<1>6. Counted'
  BY <1>1, <1>4 DEF Sleep, Counted
<1>7. Told'
  BY DEF Sleep, IInv, Told, AllBad, Bad
<1> QED  BY <1>5, <1>6, <1>7 DEF IInv

LEMMA ExhaustedKeepsIInv ==
    ASSUME IInv, Exhausted
    PROVE  IInv'
<1>1. /\ config.max_attempts \in Nat /\ attempt = config.max_attempts
      /\ Len(calls) = attempt /\ (attempt # 0 => Len(slept) = attempt - 1)
      /\ calls \in Seq(Outcome)
  BY ConfigType DEF IInv, RetryTypeOK, Exhausted, Counted
<1>2. RetryTypeOK'
  BY <1>1 DEF Exhausted, IInv, RetryTypeOK
<1>3. Counted'
  BY <1>1 DEF Exhausted, Counted
<1>4. Told'
  BY DEF Exhausted, IInv, Told, AllBad, Bad
<1> QED  BY <1>2, <1>3, <1>4 DEF IInv

LEMMA NextIInv == ASSUME IInv, [RetryNext]_retryVars  PROVE IInv'
<1>1. CASE UNCHANGED retryVars
  BY <1>1
  DEF retryVars, IInv, RetryTypeOK, Counted, Told, AllBad, Bad, LastCall, Delay
<1> QED
  BY <1>1, SoftFailureKeepsIInv, ReturnKeepsIInv, RaiseKeepsIInv,
     SleepKeepsIInv, ExhaustedKeepsIInv DEF RetryNext

-----------------------------------------------------------------------------
(* with_retry's variables are well typed, and what it sleeps are delays of *)
(* the backoff, for any number of attempts.                                *)
THEOREM TypeCorrect == RetrySpec => []RetryTypeOK
<1>1. IInv => RetryTypeOK
  BY DEF IInv
<1> QED  BY <1>1, InitIInv, NextIInv, PTL DEF RetrySpec

(* with_retry calls as often as it says, never more than max_attempts      *)
(* times, and sleeps once between two calls.                               *)
THEOREM AttemptsAreHonest == RetrySpec => []AttemptsHonest
<1>1. IInv => AttemptsHonest
  <2> SUFFICES ASSUME IInv  PROVE AttemptsHonest
    OBVIOUS
  <2>1. config.max_attempts \in Nat /\ attempt \in Nat
        /\ attempt <= config.max_attempts
    BY ConfigType DEF IInv
  <2>2. Counted /\ pc \in {"calling", "sleeping", "done"}
    BY DEF IInv, RetryTypeOK
  <2> QED  BY <2>1, <2>2 DEF Counted, AttemptsHonest
<1> QED  BY <1>1, InitIInv, NextIInv, PTL DEF RetrySpec

(* The result tells how the last call ended, and of exceptions the last,   *)
(* unless a call that ended well has made up for it.                       *)
THEOREM ResultTells == RetrySpec => []ResultTellsTheEnd
<1>1. IInv => ResultTellsTheEnd
  <2> SUFFICES ASSUME IInv, pc = "done", calls # <<>>
               PROVE  IF LastCall \notin Bad
                      THEN result.value = LastCall /\ result.last_exception = 0
                      ELSE result.last_exception =
                             (IF \E n \in DOMAIN calls : calls[n] = "raise"
                              THEN CHOOSE n \in DOMAIN calls :
                                     /\ calls[n] = "raise"
                                     /\ \A m \in DOMAIN calls :
                                          calls[m] = "raise" => m <= n
                              ELSE 0)
    BY DEF ResultTellsTheEnd, Bad
  <2>1. CASE LastCall \notin Bad
    <3>1. calls \in Seq(Outcome)
      BY DEF IInv, RetryTypeOK
    <3>2. Len(calls) \in DOMAIN calls
      BY <3>1
    <3>3. ~AllBad
      BY <2>1, <3>2 DEF AllBad, LastCall
    <3> QED  BY <2>1, <3>3 DEF IInv, Told
  <2>2. CASE LastCall \in Bad
    <3>1. /\ IsLastRaise(result.last_exception, calls)
          /\ calls \in Seq(Outcome)
      BY <2>2 DEF IInv, RetryTypeOK, Told, AllBad
    <3>2. CASE \A n \in DOMAIN calls : calls[n] # "raise"
      BY <2>2, <3>1, <3>2 DEF IsLastRaise
    <3>3. CASE \E n \in DOMAIN calls : calls[n] = "raise"
      <4> DEFINE L(n) == /\ n \in DOMAIN calls
                         /\ calls[n] = "raise"
                         /\ \A m \in DOMAIN calls : calls[m] = "raise" => m <= n
      <4>1. L(result.last_exception)
        BY <3>1, <3>3 DEF IsLastRaise
      <4>2. \A m, n : L(m) /\ L(n) => m = n
        <5>1. DOMAIN calls \subseteq Nat
          BY <3>1
        <5> QED  BY <5>1
      <4> QED  BY <2>2, <3>3, <4>1, <4>2
    <3> QED  BY <3>2, <3>3
  <2> QED  BY <2>1, <2>2
<1> QED  BY <1>1, InitIInv, NextIInv, PTL DEF RetrySpec

(* The delays slept are those of the attempts in their order.              *)
LEMMA NextPaced == ASSUME IInv, Paced, [RetryNext]_retryVars  PROVE Paced'
<1>1. CASE UNCHANGED slept
  BY <1>1 DEF Paced, Delay
<1>2. CASE Sleep
  <2>1. /\ slept' = Append(slept, Delay(attempt))
        /\ Len(slept) = attempt
        /\ slept \in Seq({Delay(n) : n \in 0..config.max_attempts})
    BY <1>2 DEF Sleep, IInv, Counted, RetryTypeOK
  <2> DEFINE S == {Delay(n) : n \in 0..config.max_attempts}
                  \union {Delay(attempt)}
  <2>2. slept \in Seq(S) /\ Delay(attempt) \in S
    BY <2>1
  <2> HIDE DEF S
  <2>3. /\ DOMAIN slept' = 1..(Len(slept) + 1)
        /\ DOMAIN slept = 1..Len(slept) /\ Len(slept) \in Nat
        /\ \A n \in DOMAIN slept : slept'[n] = slept[n]
        /\ slept'[Len(slept) + 1] = Delay(attempt)
    BY <2>1, <2>2, AppendFacts
  <2>4. ASSUME NEW n \in DOMAIN slept'  PROVE slept'[n] = Delay(n - 1)
    <3>1. n \in DOMAIN slept \/ n = Len(slept) + 1
      BY <2>3
    <3>2. CASE n \in DOMAIN slept
      BY <2>3, <3>2 DEF Paced
    <3>3. CASE n = Len(slept) + 1
      BY <2>1, <2>3, <3>3
    <3> QED  BY <3>1, <3>2, <3>3
  <2> QED  BY <2>4 DEF Paced, Delay
<1> QED
  BY <1>1, <1>2 DEF RetryNext, retryVars, SoftFailure, Return, Raise, Exhausted

(* The delays between the calls grow, if the multiplier is not below one,  *)
(* and are never longer than the longest configured, for any base,         *)
(* multiplier and limit.                                                   *)
THEOREM BackoffGrows == RetrySpec => []BackoffGrowsToCap
<1>1. RetryInit => Paced
  BY DEF RetryInit, Paced
<1>2. IInv /\ Paced /\ [RetryNext]_retryVars => Paced'
  BY NextPaced
<1>3. IInv /\ Paced => BackoffGrowsToCap
  <2> SUFFICES ASSUME IInv, Paced,
                      NEW m \in DOMAIN slept, NEW n \in DOMAIN slept, m <= n
               PROVE  /\ slept[n] <= MaxBackoff
                      /\ Multiplier > 0 => slept[m] <= slept[n]
    BY DEF BackoffGrowsToCap
  <2>1. slept \in Seq({Delay(k) : k \in 0..config.max_attempts})
    BY DEF IInv, RetryTypeOK
  <2>2. m - 1 \in Nat /\ n - 1 \in Nat /\ m - 1 <= n - 1
    BY <2>1
  <2>3. slept[m] = Delay(m - 1) /\ slept[n] = Delay(n - 1)
    BY DEF Paced
  <2> QED  BY <2>2, <2>3, DelayFacts
<1> QED  BY <1>1, <1>2, <1>3, InitIInv, NextIInv, PTL DEF RetrySpec
=============================================================================
