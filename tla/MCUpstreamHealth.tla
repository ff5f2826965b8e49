-------------------------- MODULE MCUpstreamHealth --------------------------
(* Model checking of what the proxy keeps about its upstreams' health: the *)
(* circuit breakers, method by method and assignment by assignment, and    *)
(* the health checker.  The three modules share no variable, so that every *)
(* behaviour of one is a behaviour of them all with the others standing    *)
(* still; the run lets each move only while the others are as they were at *)
(* the start.                                                              *)
EXTENDS MCBreakerMiddleware, BreakerThreads, HealthChecker

CONSTANTS a, b, c1, c2, t1, o1, o2, o3

Threads  == {a, b}
Checkers == {c1, c2}
Targets  == {t1}
(* One in the dict, and one in the hand of each thread.                    *)
Objects  == {o1, o2, o3}

(* Small, with a shorter outage: it passes, or it has not passed.          *)
Brief == [Small EXCEPT !.recovery_timeout = 1]

MethodsNew == /\ \A w \in Worker : ctx[w] = NoContext
              /\ \A r \in Route : registry[r] = NewBreaker
ThreadsNew == entry = Nobody /\ \A w \in Thread : At(w, "idle")
HealthNew  == /\ \A t \in Target : statuses[t] = NoObject
              /\ \A c \in Checker : pc[c] = "idle"

UpstreamInit == Init /\ ThreadInit /\ HealthInit
UpstreamNext ==
    \/ ThreadsNew /\ HealthNew /\ Next /\ UNCHANGED <<threadVars, healthVars>>
    \/ MethodsNew /\ HealthNew /\ ThreadNext /\ UNCHANGED <<vars, healthVars>>
    \/ MethodsNew /\ ThreadsNew /\ HealthNext /\ UNCHANGED <<vars, threadVars>>

UpstreamSpec ==
    /\ UpstreamInit /\ [][UpstreamNext]_<<vars, threadVars, healthVars>>
    /\ WF_vars(Tick) /\ \A w \in Worker : WF_vars(Step(w))
    /\ ThreadFairness /\ HealthFairness
=============================================================================
