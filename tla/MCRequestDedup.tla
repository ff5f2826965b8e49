--------------------------- MODULE MCRequestDedup ---------------------------
(* Constant values for the model-checking runs of RequestDedup.            *)
EXTENDS RequestDedup

CONSTANTS w1, w2

Workers == {w1, w2}
Get     == {<<"GET">>}

(* Texts without the separator ...                                         *)
PlainTargets == {<<"/a">>}
PlainQueries == {<<>>, <<"q">>}
Bodies       == {<<>>, <<"h">>}

(* ... and a target and a query that hold it: "/a|q" with the query ""     *)
(* joins to the same key as "/a" with the query "q|".                      *)
BarTargets == {<<"/a">>, <<"/a", "|", "q">>}
BarQueries == {<<>>, <<"q", "|">>}
=============================================================================
