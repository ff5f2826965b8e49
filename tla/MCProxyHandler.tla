--------------------------- MODULE MCProxyHandler ---------------------------
(* Constant values for the model-checking run of ProxyHandler: two         *)
(* configurations whose rules stand in another order, with and without     *)
(* strip_prefix and a method, and a target without a scheme.  One thread:  *)
(* handler threads share nothing but the configuration, which the reload   *)
(* thread changes here at any step of a request.                           *)
EXTENDS ProxyHandler

CONSTANT w1

Pieces == {"/", "api", "x"}
Root  == <<"/">>
Api   == <<"/", "api">>
Paths == {<<"/", "api">>, <<"/", "api", "/", "x">>, <<"x">>}
RulePrefixes == {Root, Api}

AnyMethod(p, t, strip) ==
    [prefix |-> p, target |-> t, strip_prefix |-> strip, methods |-> {}]

PostOnly(p, t) ==
    [prefix |-> p, target |-> t, strip_prefix |-> FALSE, methods |-> {"POST"}]

Old     == <<AnyMethod(Api, "a", TRUE), AnyMethod(Root, "b", FALSE)>>
New     == <<PostOnly(Root, "noscheme"), AnyMethod(Api, "b", TRUE)>>
Configs == {Old, New}
=============================================================================
