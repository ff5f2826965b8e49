--------------------------- MODULE MCRateLimiter ----------------------------
(* Constant values for the model-checking run of RateLimiter.              *)
EXTENDS RateLimiter, TLC

CONSTANTS w1, w2, r1, b1, b2, b3, b4

Workers == {w1, w2}
Symmetry == Permutations(Workers)
Routes  == {r1}
Buckets == {b1, b2, b3, b4}

(* With two parts to a token: a token every other unit of time, and one    *)
(* and a half in each.                                                     *)
Slow == [rate |-> 1, burst |-> 2]
Fast == [rate |-> 3, burst |-> 1]
Configs == {Slow, Fast}
=============================================================================
