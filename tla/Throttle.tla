------------------------------ MODULE Throttle ------------------------------
(***************************************************************************)
(* What a set of token buckets promises, with no word about when the       *)
(* arithmetic is done: a meter gains its rate in every unit of time, up to *)
(* its burst, and a worker that asks is allowed exactly when the meter     *)
(* holds a whole token, which it then takes.  Meters come full and may go  *)
(* at any time.                                                            *)
(***************************************************************************)
EXTENDS Naturals

CONSTANTS Worker, Bucket, Config, Unit, None

VARIABLES
    meter,   \* the level of each bucket, in parts of a token, and its config
    answer   \* the last answer each worker was given: "pending" once it asks

vars == <<meter, answer>>

Capacity(c) == c.burst * Unit

Capped(c, n) == IF n > Capacity(c) THEN Capacity(c) ELSE n

Full(c) == [config |-> c, level |-> Capacity(c)]

Init ==
    /\ meter = [i \in Bucket |-> None]
    /\ answer = [w \in Worker |-> "pending"]

(* The meters other than those of S are as before, or gone; the answers    *)
(* other than those to the workers of S are as before, or pending again.   *)
KeptOrGone(S)    == \A i \in Bucket \ S : meter'[i] \in {meter[i], None}
KeptOrPending(S) == \A w \in Worker \ S : answer'[w] \in {answer[w], "pending"}

Install(i, c) ==
    /\ meter[i] = None
    /\ meter'[i] = Full(c)
    /\ KeptOrGone({i})
    /\ KeptOrPending({})

(* Meters go, workers ask.                                                 *)
Turn == KeptOrGone({}) /\ KeptOrPending({})

Allow(w, i) ==
    /\ meter[i] # None
    /\ meter[i].level >= Unit
    /\ meter'[i] \in {[meter[i] EXCEPT !.level = @ - Unit], None}
    /\ KeptOrGone({i})
    /\ answer'[w] = "allowed"
    /\ KeptOrPending({w})

Refuse(w, i) ==
    /\ meter[i] # None
    /\ meter[i].level < Unit
    /\ KeptOrGone({})
    /\ answer'[w] = "refused"
    /\ KeptOrPending({w})

Gained(m) ==
    IF m = None THEN None
    ELSE [m EXCEPT !.level = Capped(m.config, @ + m.config.rate)]

Pass ==
    /\ meter' = [i \in Bucket |-> Gained(meter[i])]
    /\ UNCHANGED answer

Next ==
    \/ Pass
    \/ Turn
    \/ \E i \in Bucket :
         \/ \E c \in Config : Install(i, c)
         \/ \E w \in Worker : Allow(w, i) \/ Refuse(w, i)

Spec == Init /\ [][Next]_vars
=============================================================================
