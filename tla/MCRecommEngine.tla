--------------------------- MODULE MCRecommEngine ---------------------------
(* Instances of RecommEngine for TLC.                                      *)
EXTENDS RecommEngine

\* Two versions of one story, the second with fewer keywords, and another story.
MCHash == [p \in Stories |-> IF p = "b" THEN 12 ELSE 11]

MCKeywords == [p \in Stories |-> IF p = "a1" THEN {1, 2} ELSE IF p = "a2" THEN {1} ELSE {2}]

\* The signature of one may become that of the other.
MCSignature == [p \in Stories |-> IF p = "a2" THEN 2 ELSE 1]

\* A user who has read a story, and one who is not known.
MCUsers == {[keywords |-> {2}, history |-> {12}], [keywords |-> {}, history |-> {}]}

\* All, and one.
MCTopNs == {-1, 1}
=============================================================================
