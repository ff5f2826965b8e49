---------------------------- MODULE MCHotReload ----------------------------
(* Constant values for the model-checking run of HotReload: a file that    *)
(* is edited twice, each version with rules that decide otherwise, and one *)
(* thread with one request at a time.                                      *)
EXTENDS HotReload

CONSTANT w1

Pieces == {"/", "x"}
Root   == <<"/">>
Paths  == {<<"/", "x">>}
Rules(t) == <<[prefix |-> Root, target |-> t, strip_prefix |-> FALSE,
               methods |-> {}]>>

Empty    == <<>>
Configs  == {Empty, Rules("a"), Rules("b")}
Prefixes == {Root}
Versions == [v \in 0..MaxWrites |->
               CASE v = 0 -> Rules("a") [] v = 1 -> Empty [] v = 2 -> Rules("b")]
=============================================================================
