------------------------------ MODULE HashRing ------------------------------
(***************************************************************************)
(* HashRing, by which RedisCluster chooses the node of a key: a map from   *)
(* points, which are hash values, to nodes.  The operators take the map    *)
(* ring_ and return what it becomes; hash_ is any function from a node and *)
(* the number of a replica to a point, which need not be injective.        *)
(***************************************************************************)
EXTENDS Integers

\* The points of a node.
Points(hash, node_name, replicas) == {hash[<<node_name, r>>] : r \in 0 .. replicas - 1}

\* AddNode: it takes over the points of other nodes that it hits.
AddNode(ring, hash, node_name, replicas) ==
  LET points == Points(hash, node_name, replicas) IN
  [x \in DOMAIN ring \union points |->
     IF x \in points THEN [node_name |-> node_name, replicas |-> replicas] ELSE ring[x]]

\* RemoveNode: how many points the node has is read at its first one, where
\* operator[] makes an empty entry if there is none.
RemoveNode(ring, hash, node_name) ==
  LET first    == hash[<<node_name, 0>>]
      replicas == IF first \in DOMAIN ring THEN ring[first].replicas ELSE 0
  IN  [x \in (DOMAIN ring \union {first}) \ Points(hash, node_name, replicas) |->
         IF x \in DOMAIN ring THEN ring[x] ELSE [node_name |-> "", replicas |-> 0]]

\* begin() of the part of the ring in S.
First(S) == CHOOSE x \in S : \A y \in S : x <= y

\* The point that serves hash value h: lower_bound, or the first when there is
\* none.
PointOf(ring, h) ==
  LET later == {x \in DOMAIN ring : x >= h} IN
  IF later # {} THEN First(later) ELSE First(DOMAIN ring)

GetNode(ring, h) == ring[PointOf(ring, h)].node_name

-----------------------------------------------------------------------------
\* A key moves to a node that is added, or stays where it was.
MovesOnlyToAdded(ring, hash, node_name, replicas, h) ==
  GetNode(AddNode(ring, hash, node_name, replicas), h) \in {GetNode(ring, h), node_name}

\* A node whose points are all its own can be taken out again, and the ring is
\* as it was.
AddedThenRemoved(ring, hash, node_name, replicas) ==
  replicas > 0 /\ DOMAIN ring \intersect Points(hash, node_name, replicas) = {} =>
    RemoveNode(AddNode(ring, hash, node_name, replicas), hash, node_name) = ring
=============================================================================
