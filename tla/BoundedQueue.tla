---------------------------- MODULE BoundedQueue ----------------------------
(***************************************************************************)
(* What ProducerConsumerQueue promises to its users: a FIFO queue of       *)
(* bounded length.  An item that was put is delivered once and in order,   *)
(* or discarded: because it had a timeout, or as the oldest item when a    *)
(* forced put finds the queue full.                                        *)
(***************************************************************************)
EXTENDS Naturals, Sequences

CONSTANTS
  Items,     \* what is put, each item once
  Timed(_),  \* the item was put with a timeout
  Capacity   \* max number of items

VARIABLES
  que,       \* items put and neither delivered nor discarded
  got        \* items delivered, in order

vars == <<que, got>>

Init == que = <<>> /\ got = <<>>

Put(x) ==
  /\ Len(que) < Capacity
  /\ que' = Append(que, x)
  /\ UNCHANGED got

\* The oldest item gives way.
ForcePut(x) ==
  /\ Len(que) = Capacity
  /\ que' = Append(Tail(que), x)
  /\ UNCHANGED got

\* The first k items have timed out; the next one, if any, is delivered.
Get(k) ==
  /\ \A i \in 1 .. k : Timed(que[i])
  /\ que' = SubSeq(que, k + 2, Len(que))
  /\ got' = got \o SubSeq(que, k + 1, k + 1)

\* All k items of the queue have timed out.
GetNone ==
  /\ \A i \in 1 .. Len(que) : Timed(que[i])
  /\ que' = <<>>
  /\ UNCHANGED got

Next ==
  \/ \E x \in Items : Put(x) \/ ForcePut(x)
  \/ \E k \in 0 .. Len(que) - 1 : Get(k)
  \/ GetNone

Spec == Init /\ [][Next]_vars
=============================================================================
