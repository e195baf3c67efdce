------------------------ MODULE MCUserProfileStorage ------------------------
(* Instances of UserProfileStorage and HashRing for TLC.                   *)
EXTENDS UserProfileStorage, HashRing

\* Calls that overlap on one client race for its buffers: nothing is claimed of
\* what follows.
NotRaced == ~raced

\* The ring, on all ways two nodes of up to two points hash to four values.
Hashes == [{"a", "b"} \X {0, 1} -> 0 .. 3]

ASSUME RingChecked ==
  \A hash \in Hashes, k \in 0 .. 2 :
    LET ring == AddNode(<<>>, hash, "a", 2) IN
    /\ \A h \in 0 .. 4 : MovesOnlyToAdded(ring, hash, "b", k, h)
    /\ AddedThenRemoved(ring, hash, "b", k)
=============================================================================
