--------------------------- MODULE MCInstantIndex ---------------------------
(* Instances of InstantIndex for TLC.                                      *)
EXTENDS InstantIndex

\* One story with both tokens, one that shares a token with it.
MCKeywords == [s \in Stories |-> IF s = "both" THEN {1, 2} ELSE {2}]
=============================================================================
