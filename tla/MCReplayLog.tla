---------------------------- MODULE MCReplayLog ----------------------------
(* Instances of ReplayLog for TLC.                                         *)
EXTENDS ReplayLog

\* Digits of a time stamp: growing, not evenly (a minute has 60 seconds and the
\* string has room for 99).
MCLocal == [t \in Times |-> IF t < 2 THEN t ELSE t + 40]
=============================================================================
