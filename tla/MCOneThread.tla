---------------------------- MODULE MCOneThread -----------------------------
(* Model checking of what belongs to one thread: the response cache, which *)
(* is documented for single-threaded workers, and the retry loop, whose    *)
(* variables are locals.  They share no variable; each moves only while    *)
(* the other is as it was at the start.                                    *)
EXTENDS ResponseCache, Retry

CONSTANTS w1, a, b, c, p

OneWorker == {w1}

(* One more cacheable key than there are entries, and one key that is not  *)
(* cacheable.                                                              *)
Keys    == {a, b, c, p}
GetKeys == {a, b, c}

CacheNew == Init
RetryNew == RetryInit /\ config = RetryConfig(0, {})

OneThreadInit == Init /\ RetryInit
OneThreadNext ==
    \/ RetryNew /\ Next /\ UNCHANGED retryVars
    \/ CacheNew /\ RetryNext /\ UNCHANGED vars

OneThreadSpec == OneThreadInit /\ [][OneThreadNext]_<<vars, retryVars>>
=============================================================================
