------------------------ MODULE MCBreakerMiddleware -------------------------
(* Constant values for the model-checking runs of BreakerMiddleware.  A    *)
(* unit of time is ten seconds in SourceDefault.                           *)
EXTENDS BreakerMiddleware

CONSTANTS w1, w2, r1, r2

Workers   == {w1, w2}
TwoRoutes == {r1, r2}
OneRoute  == {r1}

(* Thresholds of 2: small enough to reach, large enough to miss by one.    *)
Small == [failure_threshold |-> 2, recovery_timeout |-> 2,
          success_threshold |-> 2]

(* The dataclass defaults, and the fixture of the middleware's tests.      *)
SourceDefault == [failure_threshold |-> 5, recovery_timeout |-> 3,
                  success_threshold |-> 2]
TestFixture   == [failure_threshold |-> 3, recovery_timeout |-> 6,
                  success_threshold |-> 2]
=============================================================================
