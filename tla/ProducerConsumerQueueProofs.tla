--------------------- MODULE ProducerConsumerQueueProofs ---------------------
(***************************************************************************)
(* What ProducerConsumerQueue keeps for any number of threads, any         *)
(* capacity and any timeouts: no wakeup is lost, and the queue implements  *)
(* BoundedQueue.                                                           *)
(***************************************************************************)
EXTENDS ProducerConsumerQueue, FiniteSetTheorems, SequenceTheorems, TLAPS

States == {"idle", "wait", "woken"}

\* A call of Put that waits has its arguments in pending.
PendingOK ==
  \A p \in Producers :
    state[p] # "idle" => pending[p].item \in 1 .. MaxPuts /\ pending[p].timeout \in Timeouts

\* As long as no call had a timeout, no item in the queue or waiting to get there
\* has one.
Untimed ==
  ~timed =>
    /\ \A i \in 1 .. Len(que) : que[i].timeout = TIMEOUT_NONE
    /\ \A p \in Producers :
         state[p] # "idle" => InnerItem(pending[p]).timeout = TIMEOUT_NONE

\* The inductive invariant.
IInv ==
  /\ TypeOK
  /\ PendingOK
  /\ Untimed
  /\ ConsumersNotified
  /\ UntimedBlocksOnlyIfFull

-----------------------------------------------------------------------------
(* Waiting, waking and signalling.                                         *)

\* Who waits and who was woken are finite sets of the threads looked at.
LEMMA Groups ==
  ASSUME NEW st, NEW S, IsFiniteSet(S)
  PROVE  /\ IsFiniteSet(Waiting(st, S)) /\ IsFiniteSet(Woken(st, S))
         /\ Cardinality(Woken(st, S)) \in Nat
<1>1. Waiting(st, S) \in SUBSET S /\ Woken(st, S) \in SUBSET S
  BY Zenon DEF Waiting, Woken
<1> QED BY <1>1, FS_Subset, FS_CardinalityType, Zenon

\* Signal wakes one of those that wait, if there is one, and leaves the others.
LEMMA SignalWakesOne ==
  ASSUME NEW st \in [Threads -> States], NEW S \in SUBSET Threads, IsFiniteSet(S),
         NEW st2 \in Signal(st, S)
  PROVE  /\ st2 \in [Threads -> States]
         /\ \A t \in Threads \ S : st2[t] = st[t]
         /\ \A t \in Threads : st2[t] = "idle" <=> st[t] = "idle"
         /\ Waiting(st2, S) # {} =>
              /\ Waiting(st, S) # {}
              /\ Cardinality(Woken(st2, S)) = Cardinality(Woken(st, S)) + 1
<1>1. CASE Waiting(st, S) = {}
  BY <1>1, Zenon DEF Signal
<1>2. CASE Waiting(st, S) # {}
  <2>1. PICK t \in Waiting(st, S) : st2 = [st EXCEPT ![t] = "woken"]
    BY <1>2, Zenon DEF Signal
  <2>2. t \in S /\ t \in Threads /\ st[t] = "wait"
    BY <2>1, Zenon DEF Waiting
  <2>3. /\ st2 \in [Threads -> States] /\ st2[t] = "woken"
        /\ \A u \in Threads : u # t => st2[u] = st[u]
    BY <2>1, <2>2, Zenon DEF States
  <2>4. Woken(st2, S) = Woken(st, S) \union {t} /\ t \notin Woken(st, S)
    BY <2>2, <2>3, Zenon DEF Woken
  <2>5. Cardinality(Woken(st2, S)) = Cardinality(Woken(st, S)) + 1
    BY <2>4, Groups, FS_AddElement, Zenon
  <2> QED BY <1>2, <2>2, <2>3, <2>5, Zenon
<1> QED BY <1>1, <1>2, Zenon

\* Two assignments of states that agree on a group have the same members of it
\* waiting and woken.
LEMMA SameGroups ==
  ASSUME NEW S, NEW st, NEW st2, \A t \in S : st2[t] = st[t]
  PROVE  Waiting(st2, S) = Waiting(st, S) /\ Woken(st2, S) = Woken(st, S)
BY Zenon DEF Waiting, Woken

\* A woken thread of the group stops being so.
LEMMA WokenLeaves ==
  ASSUME NEW S, IsFiniteSet(S), NEW st, NEW st2, NEW t \in S, st[t] = "woken",
         st2[t] # "woken", \A u \in S \ {t} : st2[u] = st[u]
  PROVE  Cardinality(Woken(st2, S)) = Cardinality(Woken(st, S)) - 1
<1>1. Woken(st2, S) = Woken(st, S) \ {t} /\ t \in Woken(st, S)
  BY Zenon DEF Woken
<1> QED BY <1>1, Groups, FS_RemoveElement, ZenonT(30)

\* A waiting thread of the group is woken.
LEMMA WokenJoins ==
  ASSUME NEW S, IsFiniteSet(S), NEW st, NEW st2, NEW t \in S, st[t] = "wait",
         st2[t] = "woken", \A u \in S \ {t} : st2[u] = st[u]
  PROVE  /\ Cardinality(Woken(st2, S)) = Cardinality(Woken(st, S)) + 1
         /\ Waiting(st2, S) \subseteq Waiting(st, S)
<1>1. Woken(st2, S) = Woken(st, S) \union {t} /\ t \notin Woken(st, S)
  BY Zenon DEF Woken
<1>2. Waiting(st2, S) \subseteq Waiting(st, S)
  BY Zenon DEF Waiting
<1> QED BY <1>1, <1>2, Groups, FS_AddElement, Zenon
-----------------------------------------------------------------------------
(* What a put and a get do to those who wait.                              *)

\* A put adds at most one item and wakes a consumer for it.
LEMMA PutNotifies ==
  ASSUME TypeOK, ConsumersNotified, NEW st \in [Threads -> States],
         \A c \in Consumers : st[c] = state[c],
         state' \in NotifyGet(st), Len(que') \in Nat, Len(que') <= Len(que) + 1
  PROVE  /\ state' \in [Threads -> States]
         /\ \A p \in Producers : state'[p] = st[p]
         /\ ConsumersNotified'
<1>1. IsFiniteSet(Consumers) /\ Consumers \in SUBSET Threads
      /\ \A p \in Producers : p \in Threads \ Consumers
  BY ConstantsAssumption, Zenon DEF Threads
<1>2. state' \in Signal(st, Consumers)
  BY Zenon DEF NotifyGet
<1>3. /\ state' \in [Threads -> States]
      /\ \A t \in Threads \ Consumers : state'[t] = st[t]
      /\ Waiting(state', Consumers) # {} =>
           /\ Waiting(st, Consumers) # {}
           /\ Cardinality(Woken(state', Consumers)) = Cardinality(Woken(st, Consumers)) + 1
  BY <1>1, <1>2, SignalWakesOne, Zenon
<1>4. Waiting(st, Consumers) = Waiting(state, Consumers)
      /\ Woken(st, Consumers) = Woken(state, Consumers)
  BY SameGroups, Zenon
<1>5. Len(que) \in Nat /\ Cardinality(Woken(state, Consumers)) \in Nat
  BY <1>1, Groups DEF TypeOK
<1>6. ConsumersNotified'
  BY <1>3, <1>4, <1>5 DEF ConsumersNotified
<1> QED BY <1>1, <1>3, <1>6, Zenon

\* A get that takes at most one item wakes a producer for its place.
LEMMA GetNotifies ==
  ASSUME TypeOK, NEW st \in [Threads -> States],
         \A p \in Producers : st[p] = state[p],
         state' \in NotifyPut(st)
  PROVE  /\ state' \in [Threads -> States]
         /\ \A c \in Consumers : state'[c] = st[c]
         /\ \A p \in Producers : state'[p] = "idle" <=> state[p] = "idle"
         /\ Len(que') \in Nat /\ Len(que') >= Len(que) - 1 /\ BlocksOnlyIfFull =>
              BlocksOnlyIfFull'
<1>1. IsFiniteSet(Producers) /\ Producers \in SUBSET Threads /\ Capacity \in Nat
      /\ \A c \in Consumers : c \in Threads \ Producers
  BY ConstantsAssumption, Zenon DEF Threads
<1>2. state' \in Signal(st, Producers)
  BY Zenon DEF NotifyPut
<1>3. /\ state' \in [Threads -> States]
      /\ \A t \in Threads \ Producers : state'[t] = st[t]
      /\ \A t \in Threads : state'[t] = "idle" <=> st[t] = "idle"
      /\ Waiting(state', Producers) # {} =>
           /\ Waiting(st, Producers) # {}
           /\ Cardinality(Woken(state', Producers)) = Cardinality(Woken(st, Producers)) + 1
  BY <1>1, <1>2, SignalWakesOne, Zenon
<1>4. Waiting(st, Producers) = Waiting(state, Producers)
      /\ Woken(st, Producers) = Woken(state, Producers)
  BY SameGroups, Zenon
<1>5. Len(que) \in Nat /\ Cardinality(Woken(state, Producers)) \in Nat
  BY <1>1, Groups DEF TypeOK
<1>6. Len(que') \in Nat /\ Len(que') >= Len(que) - 1 /\ BlocksOnlyIfFull =>
        BlocksOnlyIfFull'
  BY <1>1, <1>3, <1>4, <1>5 DEF BlocksOnlyIfFull
<1> QED BY <1>1, <1>3, <1>6, Zenon

\* Items.
LEMMA InnerType ==
  ASSUME TypeOK, NEW x, x.item \in 1 .. MaxPuts, x.timeout \in Timeouts
  PROVE  InnerItem(x) \in Inner
BY ConstantsAssumption, Zenon DEF TypeOK, InnerItem, Inner

\* Appending an item to a queue with room, or to one whose front gave way.
LEMMA Appended ==
  ASSUME NEW T, NEW q \in Seq(T), NEW e \in T
  PROVE  /\ Append(q, e) \in Seq(T) /\ Len(Append(q, e)) = Len(q) + 1 /\ Len(q) \in Nat
         /\ \A i \in 1 .. Len(q) + 1 : Append(q, e)[i] = IF i = Len(q) + 1 THEN e ELSE q[i]
         /\ q # <<>> => /\ Tail(q) \in Seq(T) /\ Len(Tail(q)) = Len(q) - 1
                        /\ \A i \in 1 .. Len(q) - 1 : Tail(q)[i] = q[i + 1]
BY AppendProperties, HeadTailProperties

\* What a put does to the queue: it grows by the new item, or keeps its length
\* because it was full.
LEMMA QueueAfterPut ==
  ASSUME TypeOK, NEW e \in Inner,
         \/ que' = IF Full THEN que ELSE Append(que, e)
         \/ que' = Append(IF Full THEN Tail(que) ELSE que, e)
  PROVE  /\ que' \in Seq(Inner) /\ Len(que') \in Nat /\ Len(que') <= Capacity
         /\ Len(que') = IF Full THEN Len(que) ELSE Len(que) + 1
         /\ (\A i \in 1 .. Len(que) : que[i].timeout = TIMEOUT_NONE)
              /\ e.timeout = TIMEOUT_NONE
              => \A i \in 1 .. Len(que') : que'[i].timeout = TIMEOUT_NONE
<1>1. /\ que \in Seq(Inner) /\ Len(que) \in Nat /\ Len(que) <= Capacity
      /\ Capacity \in Nat \ {0}
  BY ConstantsAssumption DEF TypeOK
<1>2. CASE ~Full
  <2>1. que' = Append(que, e) /\ Len(que) < Capacity
    BY <1>1, <1>2 DEF Full
  <2> QED BY <1>1, <1>2, <2>1, Appended
<1>3. CASE Full /\ que' = que
  BY <1>1, <1>3, Zenon
<1>4. CASE Full /\ que' = Append(Tail(que), e)
  <2>1. que # <<>> /\ Len(que) = Capacity
    BY <1>1, <1>4 DEF Full
  <2>2. /\ Tail(que) \in Seq(Inner) /\ Len(Tail(que)) = Len(que) - 1
        /\ \A i \in 1 .. Len(que) - 1 : Tail(que)[i] = que[i + 1]
    BY <1>1, <2>1, HeadTailProperties, Zenon
  <2> DEFINE q == Tail(que)
  <2>3. /\ que' = Append(q, e) /\ q \in Seq(Inner) /\ Len(q) = Len(que) - 1
        /\ \A i \in 1 .. Len(que) - 1 : q[i] = que[i + 1]
    BY <1>4, <2>2, Zenon
  <2> HIDE DEF q
  <2>4. /\ que' \in Seq(Inner) /\ Len(que') = Len(q) + 1
        /\ \A i \in 1 .. Len(q) + 1 : que'[i] = IF i = Len(q) + 1 THEN e ELSE q[i]
    BY <2>3, Appended
  <2>5. /\ Len(que') = Len(que)
        /\ \A i \in 1 .. Len(que) : que'[i] = IF i = Len(que) THEN e ELSE que[i + 1]
    BY <1>1, <2>3, <2>4
  <2> QED BY <1>1, <1>4, <2>1, <2>4, <2>5
<1> QED BY <1>2, <1>3, <1>4, Zenon
-----------------------------------------------------------------------------
(* The invariant.                                                          *)

\* The new call of a thread has a number and one of the timeouts.
LEMMA CallType ==
  ASSUME TypeOK, NEW x \in Calls, NewCall(x)
  PROVE  /\ puts' \in 0 .. MaxPuts /\ timed' \in BOOLEAN
         /\ x.item \in 1 .. MaxPuts /\ x.timeout \in Timeouts
         /\ x \in [item : 0 .. MaxPuts, timeout : Timeouts \union {TIMEOUT_NONE}]
         /\ ~timed' => ~timed /\ InnerItem(x).timeout = TIMEOUT_NONE
<1>1. puts \in Nat /\ MaxPuts \in Nat /\ puts < MaxPuts /\ puts' = puts + 1
  BY ConstantsAssumption DEF TypeOK, NewCall
<1>2. PICK t \in Timeouts : x = [item |-> puts + 1, timeout |-> t]
  BY Zenon DEF Calls
<1>3. timed' = (timed \/ InnerItem(x).timeout # TIMEOUT_NONE) /\ timed \in BOOLEAN
  BY Zenon DEF TypeOK, NewCall
<1>4. timed' \in BOOLEAN /\ (~timed' => ~timed /\ InnerItem(x).timeout = TIMEOUT_NONE)
  BY <1>3, Zenon
<1>5. /\ x.item \in 1 .. MaxPuts /\ x.timeout \in Timeouts /\ puts' \in 0 .. MaxPuts
      /\ x \in [item : 0 .. MaxPuts, timeout : Timeouts \union {TIMEOUT_NONE}]
  BY <1>1, <1>2
<1> QED BY <1>4, <1>5, Zenon

\* The groups of producers are as they were and the queue is not shorter.
LEMMA ProducersAsBefore ==
  ASSUME TypeOK, \A p \in Producers : state'[p] = state[p], Len(que') \in Nat,
         Len(que') >= Len(que), BlocksOnlyIfFull
  PROVE  BlocksOnlyIfFull'
<1>1. Waiting(state', Producers) = Waiting(state, Producers)
      /\ Woken(state', Producers) = Woken(state, Producers)
  BY SameGroups, Zenon
<1>2. Len(que) \in Nat /\ Capacity \in Nat /\ Cardinality(Woken(state, Producers)) \in Nat
  BY Groups, ConstantsAssumption DEF TypeOK
<1> QED BY <1>1, <1>2 DEF BlocksOnlyIfFull

\* A put at once, by TryPut, ForcePut or Put.
LEMMA PutInv ==
  ASSUME IInv, NEW x \in Calls, NewCall(x),
         TryPutInternal(x, state) \/ ForcePutInternal(x, state),
         UNCHANGED <<clock, pending, got>>
  PROVE  IInv'
<1> DEFINE e == InnerItem(x)
<1>1. TypeOK /\ PendingOK /\ Untimed /\ ConsumersNotified /\ UntimedBlocksOnlyIfFull
  BY Zenon DEF IInv
<1>2. /\ puts' \in 0 .. MaxPuts /\ timed' \in BOOLEAN
      /\ x.item \in 1 .. MaxPuts /\ x.timeout \in Timeouts
      /\ ~timed' => ~timed /\ e.timeout = TIMEOUT_NONE
  BY <1>1, CallType, Zenon
<1>3. e \in Inner
  BY <1>1, <1>2, InnerType, Zenon
<1>4. /\ state' \in NotifyGet(state)
      /\ \/ que' = IF Full THEN que ELSE Append(que, e)
         \/ que' = Append(IF Full THEN Tail(que) ELSE que, e)
  BY Zenon DEF TryPutInternal, ForcePutInternal
<1> HIDE DEF e
<1>5. /\ que' \in Seq(Inner) /\ Len(que') \in Nat /\ Len(que') <= Capacity
      /\ Len(que') = IF Full THEN Len(que) ELSE Len(que) + 1
      /\ (\A i \in 1 .. Len(que) : que[i].timeout = TIMEOUT_NONE)
           /\ e.timeout = TIMEOUT_NONE
           => \A i \in 1 .. Len(que') : que'[i].timeout = TIMEOUT_NONE
  BY <1>1, <1>3, <1>4, QueueAfterPut, Zenon
<1>6. /\ Len(que) \in Nat /\ state \in [Threads -> States]
      /\ Len(que') <= Len(que) + 1 /\ Len(que') >= Len(que)
  BY <1>1, <1>5 DEF TypeOK, States
<1>7. /\ state' \in [Threads -> States] /\ \A p \in Producers : state'[p] = state[p]
      /\ ConsumersNotified'
  BY <1>1, <1>4, <1>5, <1>6, PutNotifies, Zenon
<1>8. TypeOK'
  BY <1>1, <1>2, <1>5, <1>7, Zenon DEF TypeOK, States
<1>9. PendingOK'
  BY <1>1, <1>7, Zenon DEF PendingOK
<1>10. Untimed'
  BY <1>1, <1>2, <1>5, <1>7, Zenon DEF Untimed, InnerItem
<1>11. UntimedBlocksOnlyIfFull'
  BY <1>1, <1>2, <1>5, <1>6, <1>7, ProducersAsBefore, ZenonT(30) DEF UntimedBlocksOnlyIfFull
<1> QED BY <1>7, <1>8, <1>9, <1>10, <1>11, Zenon DEF IInv

\* A Put that waits: the queue is full.
LEMMA PutWaitInv ==
  ASSUME IInv, NEW p \in Producers, PutWait(p)
  PROVE  IInv'
<1>1. TypeOK /\ PendingOK /\ Untimed /\ ConsumersNotified /\ UntimedBlocksOnlyIfFull
  BY Zenon DEF IInv
<1>2. PICK x \in Calls : NewCall(x) /\ pending' = [pending EXCEPT ![p] = x]
  BY Zenon DEF PutWait
<1>3. /\ puts' \in 0 .. MaxPuts /\ timed' \in BOOLEAN
      /\ x.item \in 1 .. MaxPuts /\ x.timeout \in Timeouts
      /\ x \in [item : 0 .. MaxPuts, timeout : Timeouts \union {TIMEOUT_NONE}]
      /\ ~timed' => ~timed /\ InnerItem(x).timeout = TIMEOUT_NONE
  BY <1>1, <1>2, CallType, Zenon
<1>4. /\ Full /\ state' = [state EXCEPT ![p] = "wait"] /\ UNCHANGED <<clock, que, got>>
      /\ p \in Threads /\ p \notin Consumers /\ Consumers \subseteq Threads
      /\ state \in [Threads -> States]
  BY <1>1, ConstantsAssumption, Zenon DEF PutWait, Threads, TypeOK, States
<1>5. TypeOK'
  BY <1>1, <1>2, <1>3, <1>4, Zenon DEF TypeOK, States
<1>6. PendingOK'
  BY <1>1, <1>2, <1>3, <1>4 DEF PendingOK, TypeOK
<1>7. Untimed'
  <2>1. pending'[p] = x
    BY <1>1, <1>2, Zenon DEF TypeOK
  <2>2. \A r \in Producers \ {p} : pending'[r] = pending[r] /\ state'[r] = state[r]
    BY <1>1, <1>2, <1>4 DEF TypeOK
  <2>3. ASSUME ~timed', NEW r \in Producers, state'[r] # "idle"
        PROVE  InnerItem(pending[r])'.timeout = TIMEOUT_NONE
    <3>1. ~timed /\ InnerItem(x).timeout = TIMEOUT_NONE
      BY <1>3, <2>3, Zenon
    <3>2. r # p => InnerItem(pending[r]).timeout = TIMEOUT_NONE
      BY <1>1, <2>2, <2>3, <3>1, Zenon DEF Untimed
    <3>3. InnerItem(IF r = p THEN x ELSE pending[r]).timeout = TIMEOUT_NONE
      BY <3>1, <3>2, Zenon
    <3> QED BY <2>1, <2>2, <3>3, Zenon DEF InnerItem
  <2> QED BY <1>1, <1>3, <1>4, <2>3, Zenon DEF Untimed
<1>8. ConsumersNotified'
  <2>1. \A c \in Consumers : state'[c] = state[c]
    BY <1>4, Zenon
  <2> QED BY <1>1, <1>4, <2>1, SameGroups, Zenon DEF ConsumersNotified
<1>9. UntimedBlocksOnlyIfFull'
  <2>1. Cardinality(Woken(state', Producers)) \in Nat /\ Len(que) \in Nat /\ Capacity \in Nat
    BY <1>1, Groups, ConstantsAssumption DEF TypeOK
  <2> QED BY <1>4, <2>1 DEF UntimedBlocksOnlyIfFull, BlocksOnlyIfFull, Full
<1> QED BY <1>5, <1>6, <1>7, <1>8, <1>9, Zenon DEF IInv
\* A woken Put goes on, or back to waiting if the queue is full again.
LEMMA PutResumeInv ==
  ASSUME IInv, NEW p \in Producers, PutResume(p)
  PROVE  IInv'
<1>1. TypeOK /\ PendingOK /\ Untimed /\ ConsumersNotified /\ UntimedBlocksOnlyIfFull
  BY Zenon DEF IInv
<1>2. /\ state[p] = "woken" /\ UNCHANGED <<clock, puts, got, timed>>
      /\ p \in Threads /\ p \notin Consumers /\ Consumers \subseteq Threads
      /\ Producers \subseteq Threads /\ state \in [Threads -> States]
      /\ IsFiniteSet(Producers) /\ Capacity \in Nat /\ Len(que) \in Nat
  BY <1>1, ConstantsAssumption DEF PutResume, Threads, TypeOK, States
<1>3. Cardinality(Woken(state', Producers)) \in Nat /\ Cardinality(Woken(state, Producers)) \in Nat
  BY <1>2, Groups, Zenon
<1>4. CASE Full
  <2>1. state' = [state EXCEPT ![p] = "wait"] /\ UNCHANGED <<que, pending>>
    BY <1>4, Zenon DEF PutResume
  <2>2. TypeOK'
    BY <1>1, <1>2, <2>1, Zenon DEF TypeOK, States
  <2>3. PendingOK' /\ Untimed'
    BY <1>1, <1>2, <2>1, Zenon DEF PendingOK, Untimed, InnerItem
  <2>4. \A c \in Consumers : state'[c] = state[c]
    BY <1>2, <2>1, Zenon
  <2>5. ConsumersNotified'
    BY <1>1, <2>1, <2>4, SameGroups, Zenon DEF ConsumersNotified
  <2>6. UntimedBlocksOnlyIfFull'
    BY <1>2, <1>3, <1>4, <2>1 DEF UntimedBlocksOnlyIfFull, BlocksOnlyIfFull, Full
  <2> QED BY <2>2, <2>3, <2>5, <2>6, Zenon DEF IInv
<1>5. CASE ~Full
  <2> DEFINE e == InnerItem(pending[p])
             st == [state EXCEPT ![p] = "idle"]
  <2>1. /\ TryPutInternal(pending[p], st)
        /\ pending' = [pending EXCEPT ![p] = NoCall]
    BY <1>5, Zenon DEF PutResume
  <2>2. /\ que' = IF Full THEN que ELSE Append(que, e)
        /\ state' \in NotifyGet(st)
    BY <2>1, Zenon DEF TryPutInternal
  <2>3. e \in Inner
    BY <1>1, <1>2, InnerType, Zenon DEF PendingOK
  <2>4. ~timed => e.timeout = TIMEOUT_NONE
    BY <1>1, <1>2, Zenon DEF Untimed
  <2>5. /\ st \in [Threads -> States] /\ st[p] = "idle"
        /\ \A u \in Threads \ {p} : st[u] = state[u]
    BY <1>2, Zenon DEF States
  <2> HIDE DEF e, st
  <2>6. /\ que' \in Seq(Inner) /\ Len(que') \in Nat /\ Len(que') <= Capacity
        /\ Len(que') = Len(que) + 1
        /\ ~timed /\ (\A i \in 1 .. Len(que) : que[i].timeout = TIMEOUT_NONE) =>
             \A i \in 1 .. Len(que') : que'[i].timeout = TIMEOUT_NONE
    BY <1>1, <1>5, <2>2, <2>3, <2>4, QueueAfterPut, Zenon
  <2>7. /\ state' \in [Threads -> States] /\ \A r \in Producers : state'[r] = st[r]
        /\ ConsumersNotified'
    BY <1>1, <1>2, <2>2, <2>5, <2>6, PutNotifies
  <2>8. state'[p] = "idle" /\ \A r \in Producers \ {p} : state'[r] = state[r]
    BY <1>2, <2>5, <2>7, Zenon
  <2>9. TypeOK'
    <3>1. NoCall \in [item : 0 .. MaxPuts, timeout : Timeouts \union {TIMEOUT_NONE}]
      BY ConstantsAssumption DEF NoCall
    <3>2. pending' \in [Producers -> [item : 0 .. MaxPuts,
                                     timeout : Timeouts \union {TIMEOUT_NONE}]]
      BY <1>1, <2>1, <3>1, Zenon DEF TypeOK
    <3> QED BY <1>1, <1>2, <2>6, <2>7, <3>2, Zenon DEF TypeOK, States
  <2>10. \A r \in Producers \ {p} : pending'[r] = pending[r]
    BY <1>1, <2>1, Zenon DEF TypeOK
  <2>11. PendingOK'
    BY <1>1, <2>8, <2>10, Zenon DEF PendingOK
  <2>12. Untimed'
    BY <1>1, <1>2, <2>6, <2>8, <2>10, ZenonT(30) DEF Untimed, InnerItem
  <2>13. UntimedBlocksOnlyIfFull'
    <3>1. Cardinality(Woken(state', Producers)) = Cardinality(Woken(state, Producers)) - 1
      BY <1>2, <2>8, WokenLeaves, Zenon
    <3>2. Waiting(state', Producers) = Waiting(state, Producers)
      BY <1>2, <2>8, Zenon DEF Waiting
    <3> QED BY <1>1, <1>2, <1>3, <2>6, <3>1, <3>2 DEF UntimedBlocksOnlyIfFull, BlocksOnlyIfFull
  <2> QED BY <2>7, <2>9, <2>11, <2>12, <2>13, Zenon DEF IInv
<1> QED BY <1>4, <1>5, Zenon

\* What a get leaves in the queue when it delivers an item after k stale ones.
LEMMA QueueAfterGet ==
  ASSUME TypeOK, NEW k \in 0 .. Len(que) - 1, que' = SubSeq(que, k + 2, Len(que)),
         got' = Append(got, que[k + 1])
  PROVE  /\ que' \in Seq(Inner) /\ Len(que') = Len(que) - k - 1 /\ Len(que) \in Nat
         /\ \A i \in 1 .. Len(que') : que'[i] = que[k + 1 + i] /\ k + 1 + i \in 1 .. Len(que)
         /\ got' \in Seq(Inner)
<1>1. /\ que \in Seq(Inner) /\ got \in Seq(Inner) /\ Len(que) \in Nat
      /\ \A i \in 1 .. Len(que) : que[i] \in Inner
  BY DEF TypeOK
<1>2. \A i \in k + 2 .. Len(que) : que[i] \in Inner
  BY <1>1
<1>3. /\ que' \in Seq(Inner)
      /\ Len(que') = IF k + 2 <= Len(que) THEN Len(que) - (k + 2) + 1 ELSE 0
      /\ \A i \in 1 .. Len(que) - (k + 2) + 1 : que'[i] = que[k + 2 + i - 1]
  BY <1>1, <1>2, SubSeqProperties, SMTT(20)
<1>4. got' \in Seq(Inner)
  BY <1>1, AppendProperties
<1>5. Len(que') = Len(que) - k - 1
  BY <1>1, <1>3
<1>6. ASSUME NEW i \in 1 .. Len(que')
      PROVE  que'[i] = que[k + 1 + i] /\ k + 1 + i \in 1 .. Len(que)
  <2>1. i \in 1 .. Len(que) - (k + 2) + 1 /\ k + 2 + i - 1 = k + 1 + i
    BY <1>1, <1>5
  <2>2. k + 1 + i \in 1 .. Len(que)
    BY <1>1, <1>5
  <2>3. que'[i] = que[k + 2 + i - 1]
    BY <1>3, <2>1, Zenon
  <2> QED BY <2>1, <2>2, <2>3, Zenon
<1> QED BY <1>1, <1>3, <1>4, <1>5, <1>6, Zenon

\* A get, by TryGet or by Get, at once or after being woken.
LEMMA GetInv ==
  ASSUME IInv, NEW c \in Consumers,
         NEW hit \in [Threads -> States], NEW miss \in [Threads -> States],
         hit[c] = "idle", \A u \in Threads \ {c} : hit[u] = state[u] /\ miss[u] = state[u],
         state[c] \in {"idle", "woken"},
         TryGetInternal(hit, miss), UNCHANGED <<clock, pending, puts, timed>>
  PROVE  IInv'
<1>1. TypeOK /\ PendingOK /\ Untimed /\ ConsumersNotified /\ UntimedBlocksOnlyIfFull
  BY Zenon DEF IInv
<1>2. /\ c \in Threads /\ c \notin Producers /\ Consumers \subseteq Threads
      /\ Producers \subseteq Threads /\ state \in [Threads -> States]
      /\ IsFiniteSet(Consumers) /\ Capacity \in Nat /\ Len(que) \in Nat
      /\ que \in Seq(Inner)
  BY <1>1, ConstantsAssumption DEF Threads, TypeOK, States
<1>3. PICK k \in 0 .. Len(que) :
        /\ \A i \in 1 .. k : ~Fresh(que[i])
        /\ IF k < Len(que)
           THEN /\ Fresh(que[k + 1])
                /\ que' = SubSeq(que, k + 2, Len(que))
                /\ got' = Append(got, que[k + 1])
                /\ state' \in NotifyPut(hit)
           ELSE /\ que' = <<>>
                /\ state' \in NotifyPut(miss)
                /\ UNCHANGED got
  BY Zenon DEF TryGetInternal
<1>4. ~timed => k = 0
  <2> SUFFICES ASSUME ~timed, k # 0 PROVE FALSE
    BY Zenon
  <2>1. 1 \in 1 .. k /\ 1 \in 1 .. Len(que)
    BY <1>2
  <2> QED BY <1>1, <1>3, <2>1, Zenon DEF Untimed, Fresh
<1>5. /\ que' \in Seq(Inner) /\ Len(que') \in Nat /\ Len(que') <= Len(que)
      /\ k = 0 => Len(que') >= Len(que) - 1
      /\ k < Len(que) => Len(que') <= Len(que) - 1
      /\ k = Len(que) => Len(que') = 0
      /\ \A i \in 1 .. Len(que') : \E j \in 1 .. Len(que) : que'[i] = que[j]
      /\ got' \in Seq(Inner)
  <2>1. CASE k < Len(que)
    <3>1. /\ que' \in Seq(Inner) /\ Len(que') = Len(que) - k - 1
          /\ \A i \in 1 .. Len(que') :
               que'[i] = que[k + 1 + i] /\ k + 1 + i \in 1 .. Len(que)
          /\ got' \in Seq(Inner)
      <4>1. k \in 0 .. Len(que) - 1
        BY <1>2, <2>1
      <4>2. que' = SubSeq(que, k + 2, Len(que)) /\ got' = Append(got, que[k + 1])
        BY <1>3, <2>1, Zenon
      <4> QED BY <1>1, <4>1, <4>2, QueueAfterGet, Zenon
    <3>2. \A i \in 1 .. Len(que') : \E j \in 1 .. Len(que) : que'[i] = que[j]
      BY <3>1, Zenon
    <3>3. Len(que') \in Nat /\ Len(que') <= Len(que) - 1 /\ (k = 0 => Len(que') = Len(que) - 1)
      BY <1>2, <2>1, <3>1
    <3> QED BY <1>2, <2>1, <3>1, <3>2, <3>3
  <2>2. CASE k = Len(que)
    <3>1. que' = <<>> /\ got' = got /\ got \in Seq(Inner)
      BY <1>1, <1>2, <1>3, <2>2 DEF TypeOK
    <3>2. que' \in Seq(Inner) /\ Len(que') = 0
      BY <3>1, EmptySeq, Zenon
    <3> QED BY <1>2, <2>2, <3>1, <3>2
  <2> QED BY <1>2, <2>1, <2>2
<1>6. \A st \in {hit, miss} : st \in [Threads -> States] /\ \A p \in Producers : st[p] = state[p]
  BY <1>2, Zenon
<1>7. /\ state' \in [Threads -> States]
      /\ \A p \in Producers : state'[p] = "idle" <=> state[p] = "idle"
      /\ k < Len(que) => \A u \in Consumers : state'[u] = hit[u]
      /\ k = 0 /\ BlocksOnlyIfFull => BlocksOnlyIfFull'
  <2>1. PICK st \in {hit, miss} : state' \in NotifyPut(st) /\ (k < Len(que) => st = hit)
    BY <1>3, Zenon
  <2>2. /\ state' \in [Threads -> States]
        /\ \A u \in Consumers : state'[u] = st[u]
        /\ \A p \in Producers : state'[p] = "idle" <=> state[p] = "idle"
        /\ Len(que') \in Nat /\ Len(que') >= Len(que) - 1 /\ BlocksOnlyIfFull =>
             BlocksOnlyIfFull'
    BY <1>1, <1>6, <2>1, GetNotifies, Zenon
  <2> QED BY <1>5, <2>1, <2>2, Zenon
<1>8. TypeOK'
  BY <1>1, <1>2, <1>5, <1>7 DEF TypeOK, States
<1>9. PendingOK'
  BY <1>1, <1>7, Zenon DEF PendingOK
<1>10. Untimed'
  BY <1>1, <1>5, <1>7 DEF Untimed, InnerItem
<1>11. ConsumersNotified'
  <2>1. CASE k = Len(que)
    <3>1. Cardinality(Woken(state', Consumers)) \in Nat
      BY <1>2, Groups, Zenon
    <3> QED BY <1>5, <2>1, <3>1 DEF ConsumersNotified
  <2>2. CASE k < Len(que)
    <3>1. Waiting(state', Consumers) = Waiting(state, Consumers)
      BY <1>2, <1>7, <2>2, Zenon DEF Waiting
    <3>2. CASE state[c] = "idle"
      <4>1. \A u \in Consumers : state'[u] = state[u]
        BY <1>2, <1>7, <2>2, <3>2, Zenon
      <4>2. Woken(state', Consumers) = Woken(state, Consumers)
        BY <4>1, SameGroups, Zenon
      <4>3. Cardinality(Woken(state, Consumers)) \in Nat
        BY <1>2, Groups, Zenon
      <4> QED BY <1>1, <1>2, <1>5, <3>1, <4>2, <4>3 DEF ConsumersNotified
    <3>3. CASE state[c] = "woken"
      <4>1. state'[c] = "idle" /\ \A u \in Consumers \ {c} : state'[u] = state[u]
        BY <1>2, <1>7, <2>2, Zenon
      <4>2. Cardinality(Woken(state', Consumers)) = Cardinality(Woken(state, Consumers)) - 1
        BY <1>2, <3>3, <4>1, WokenLeaves, Zenon
      <4>3. Cardinality(Woken(state, Consumers)) \in Nat
        BY <1>2, Groups, Zenon
      <4> QED BY <1>1, <1>2, <1>5, <2>2, <3>1, <4>2, <4>3, SMTT(20) DEF ConsumersNotified
    <3> QED BY <3>2, <3>3, Zenon
  <2> QED BY <1>2, <2>1, <2>2
<1>12. UntimedBlocksOnlyIfFull'
  BY <1>1, <1>4, <1>7, Zenon DEF UntimedBlocksOnlyIfFull
<1> QED BY <1>8, <1>9, <1>10, <1>11, <1>12, Zenon DEF IInv
\* A thread that waits is woken by nobody.
LEMMA SpuriousWakeupInv ==
  ASSUME IInv, NEW t \in Threads, SpuriousWakeup(t)
  PROVE  IInv'
<1>1. TypeOK /\ PendingOK /\ Untimed /\ ConsumersNotified /\ UntimedBlocksOnlyIfFull
  BY Zenon DEF IInv
<1>2. /\ state[t] = "wait" /\ state' = [state EXCEPT ![t] = "woken"]
      /\ UNCHANGED <<clock, que, pending, puts, got, timed>>
      /\ state \in [Threads -> States]
      /\ Consumers \subseteq Threads /\ Producers \subseteq Threads
      /\ IsFiniteSet(Consumers) /\ IsFiniteSet(Producers)
      /\ Capacity \in Nat /\ Len(que) \in Nat
  BY <1>1, ConstantsAssumption DEF SpuriousWakeup, Threads, TypeOK, States
<1>3. state'[t] = "woken" /\ \A u \in Threads \ {t} : state'[u] = state[u]
  BY <1>2, Zenon
<1>4. TypeOK'
  BY <1>1, <1>2, Zenon DEF TypeOK, States
<1>5. PendingOK' /\ Untimed'
  BY <1>1, <1>2, <1>3, Zenon DEF PendingOK, Untimed, InnerItem
<1>6. ASSUME NEW S \in {Consumers, Producers}
      PROVE  /\ Cardinality(Woken(state', S)) >= Cardinality(Woken(state, S))
             /\ Cardinality(Woken(state', S)) \in Nat /\ Cardinality(Woken(state, S)) \in Nat
             /\ Waiting(state', S) \subseteq Waiting(state, S)
  <2>1. IsFiniteSet(S) /\ S \subseteq Threads
    BY <1>2, Zenon
  <2>2. Cardinality(Woken(state', S)) \in Nat /\ Cardinality(Woken(state, S)) \in Nat
    BY <2>1, Groups, ZenonT(30)
  <2>3. CASE t \in S
    <3>1. \A u \in S \ {t} : state'[u] = state[u]
      BY <1>3, <2>1, Zenon
    <3>2. /\ Cardinality(Woken(state', S)) = Cardinality(Woken(state, S)) + 1
          /\ Waiting(state', S) \subseteq Waiting(state, S)
      BY <1>2, <1>3, <2>1, <2>3, <3>1, WokenJoins, Zenon
    <3> QED BY <2>2, <3>2
  <2>4. CASE t \notin S
    <3>1. \A u \in S : state'[u] = state[u]
      BY <1>3, <2>1, <2>4, ZenonT(30)
    <3> QED BY <2>2, <3>1, SameGroups
  <2> QED BY <2>3, <2>4, Zenon
<1>7. ConsumersNotified'
  <2>1. /\ Cardinality(Woken(state', Consumers)) >= Cardinality(Woken(state, Consumers))
        /\ Cardinality(Woken(state', Consumers)) \in Nat
        /\ Cardinality(Woken(state, Consumers)) \in Nat
        /\ Waiting(state', Consumers) \subseteq Waiting(state, Consumers)
    BY <1>6, Zenon
  <2>2. Waiting(state', Consumers) # {} => Waiting(state, Consumers) # {}
    BY <2>1, Zenon
  <2>3. Len(que') = Len(que) /\ Len(que) \in Nat /\ Capacity \in Nat /\ timed' = timed
    BY <1>2, Zenon
  <2> QED BY <1>1, <2>1, <2>2, <2>3, SMTT(20) DEF ConsumersNotified
<1>8. UntimedBlocksOnlyIfFull'
  <2>1. /\ Cardinality(Woken(state', Producers)) >= Cardinality(Woken(state, Producers))
        /\ Cardinality(Woken(state', Producers)) \in Nat
        /\ Cardinality(Woken(state, Producers)) \in Nat
        /\ Waiting(state', Producers) \subseteq Waiting(state, Producers)
    BY <1>6, Zenon
  <2>2. Waiting(state', Producers) # {} => Waiting(state, Producers) # {}
    BY <2>1, Zenon
  <2>3. Len(que') = Len(que) /\ Len(que) \in Nat /\ Capacity \in Nat /\ timed' = timed
    BY <1>2, Zenon
  <2> QED BY <1>1, <2>1, <2>2, <2>3 DEF UntimedBlocksOnlyIfFull, BlocksOnlyIfFull
<1> QED BY <1>4, <1>5, <1>7, <1>8, Zenon DEF IInv

\* Time passes, or nothing happens.
LEMMA TickInv ==
  ASSUME IInv, Tick \/ UNCHANGED vars
  PROVE  IInv'
<1>1. TypeOK /\ PendingOK /\ Untimed /\ ConsumersNotified /\ UntimedBlocksOnlyIfFull
  BY Zenon DEF IInv
<1>2. /\ clock' \in 0 .. MaxTime
      /\ UNCHANGED <<que, state, pending, puts, got, timed>>
  BY <1>1, ConstantsAssumption DEF Tick, vars, TypeOK
<1>3. TypeOK'
  BY <1>1, <1>2, Zenon DEF TypeOK
<1>4. PendingOK' /\ Untimed' /\ ConsumersNotified' /\ UntimedBlocksOnlyIfFull'
  BY <1>1, <1>2, Zenon DEF PendingOK, Untimed, InnerItem, ConsumersNotified,
                    UntimedBlocksOnlyIfFull, BlocksOnlyIfFull
<1> QED BY <1>3, <1>4, Zenon DEF IInv

\* The invariant is inductive.
LEMMA Inductive ==
  /\ Init => IInv
  /\ IInv /\ [Next]_vars => IInv'
<1>1. Init => IInv
  <2> SUFFICES ASSUME Init PROVE IInv
    BY Zenon
  <2>1. \A t \in Threads : state[t] = "idle"
    BY Zenon DEF Init
  <2>2. TypeOK
    <3>1. NoCall \in [item : 0 .. MaxPuts, timeout : Timeouts \union {TIMEOUT_NONE}]
      BY ConstantsAssumption DEF NoCall
    <3>2. <<>> \in Seq(Inner) /\ Len(<<>>) = 0
      BY EmptySeq, Zenon
    <3>3. 0 <= Capacity /\ MaxPuts \in Nat /\ MaxTime \in Nat
      BY ConstantsAssumption
    <3>4. que \in Seq(Inner) /\ Len(que) <= Capacity /\ got \in Seq(Inner) /\ timed \in BOOLEAN
      BY <3>2, <3>3, Zenon DEF Init
    <3>5. state \in [Threads -> States] /\ clock \in 0 .. MaxTime /\ puts \in 0 .. MaxPuts
      BY <3>3 DEF Init, States
    <3>6. pending \in [Producers -> [item : 0 .. MaxPuts,
                                    timeout : Timeouts \union {TIMEOUT_NONE}]]
      BY <3>1, Zenon DEF Init
    <3> QED BY <3>4, <3>5, <3>6, Zenon DEF TypeOK, States
  <2>3. PendingOK /\ Untimed
    BY <2>1 DEF Init, PendingOK, Untimed, Threads
  <2>4. Waiting(state, Consumers) = {} /\ Waiting(state, Producers) = {}
    BY <2>1, Zenon DEF Waiting, Threads
  <2> QED BY <2>2, <2>3, <2>4, Zenon
          DEF IInv, ConsumersNotified, UntimedBlocksOnlyIfFull, BlocksOnlyIfFull
<1>2. ASSUME IInv, [Next]_vars PROVE IInv'
  <2>1. ASSUME NEW p \in Producers, TryPut(p) \/ ForcePut(p) \/ PutNow(p) PROVE IInv'
    <3>1. PICK x \in Calls : NewCall(x) /\ (TryPutInternal(x, state) \/ ForcePutInternal(x, state))
      BY <2>1, Zenon DEF TryPut, ForcePut, PutNow
    <3>2. UNCHANGED <<clock, pending, got>>
      BY <2>1, Zenon DEF TryPut, ForcePut, PutNow
    <3> QED BY <1>2, <3>1, <3>2, PutInv, Zenon
  <2>2. ASSUME NEW c \in Consumers, TryGet(c) \/ Get(c) PROVE IInv'
    <3>1. c \in Threads /\ state \in [Threads -> States]
      BY <1>2, Zenon DEF IInv, TypeOK, Threads, States
    <3>2. UNCHANGED <<clock, pending, puts, timed>> /\ state[c] \in {"idle", "woken"}
      BY <2>2, Zenon DEF TryGet, Get
    <3>3. CASE TryGet(c)
      <4>1. state[c] = "idle" /\ TryGetInternal(state, state)
        BY <3>3, Zenon DEF TryGet
      <4> QED BY <1>2, <3>1, <3>2, <4>1, GetInv, Zenon
    <3>4. CASE Get(c)
      <4> DEFINE hit == [state EXCEPT ![c] = "idle"]
                 miss == [state EXCEPT ![c] = "wait"]
      <4>1. TryGetInternal(hit, miss)
        BY <3>4, Zenon DEF Get
      <4>2. /\ hit \in [Threads -> States] /\ miss \in [Threads -> States] /\ hit[c] = "idle"
            /\ \A u \in Threads \ {c} : hit[u] = state[u] /\ miss[u] = state[u]
        BY <3>1, Zenon DEF States
      <4> HIDE DEF hit, miss
      <4> QED BY <1>2, <3>2, <4>1, <4>2, GetInv, Zenon
    <3> QED BY <2>2, <3>3, <3>4, Zenon
  <2> QED BY <1>2, <2>1, <2>2, PutWaitInv, PutResumeInv, SpuriousWakeupInv, TickInv, Zenon
             DEF Next
<1> QED BY <1>1, <1>2, Zenon

\* Every variable keeps its type, and the queue its capacity: a woken Put does not
\* rely on the room it was woken for.
THEOREM TypeCorrect == Spec => []TypeOK
<1>1. IInv => TypeOK
  BY Zenon DEF IInv
<1> QED BY <1>1, Inductive, PTL DEF Spec

\* No wakeup of a consumer is lost, for any number of threads: one signal per put,
\* tested again by whoever is woken, is enough.
THEOREM NoConsumerForgotten == Spec => []ConsumersNotified
<1>1. IInv => ConsumersNotified
  BY Zenon DEF IInv
<1> QED BY <1>1, Inductive, PTL DEF Spec

\* No wakeup of a producer is lost as long as no item has a timeout, as in the doc
\* pool and in the replay log writer.
THEOREM NoProducerForgotten == Spec => []UntimedBlocksOnlyIfFull
<1>1. IInv => UntimedBlocksOnlyIfFull
  BY Zenon DEF IInv
<1> QED BY <1>1, Inductive, PTL DEF Spec
-----------------------------------------------------------------------------
(* The refinement.                                                         *)

\* A put puts the item, or makes the oldest one give way, or changes nothing.
LEMMA PutRefines ==
  ASSUME TypeOK, NEW x, NEW st, x.item \in 1 .. MaxPuts, x.timeout \in Timeouts,
         TryPutInternal(x, st) \/ ForcePutInternal(x, st), got' = got
  PROVE  [Bounded!Next]_(Bounded!vars)
<1> DEFINE e == InnerItem(x)
<1>1. e \in Inner
  BY InnerType, Zenon
<1>2. Len(que) \in Nat /\ Capacity \in Nat /\ Len(que) <= Capacity
  BY ConstantsAssumption DEF TypeOK
<1>3. \/ que' = IF Full THEN que ELSE Append(que, e)
      \/ que' = Append(IF Full THEN Tail(que) ELSE que, e)
  BY Zenon DEF TryPutInternal, ForcePutInternal
<1> HIDE DEF e
<1>4. CASE ~Full
  <2>1. Bounded!Put(e)
    BY <1>2, <1>3, <1>4 DEF Full, Bounded!Put
  <2> QED BY <1>1, <2>1, Zenon DEF Bounded!Next
<1>5. CASE Full /\ que' = que
  BY <1>5, Zenon DEF Bounded!vars
<1>6. CASE Full /\ que' = Append(Tail(que), e)
  <2>1. Bounded!ForcePut(e)
    BY <1>2, <1>6 DEF Full, Bounded!ForcePut
  <2> QED BY <1>1, <2>1, Zenon DEF Bounded!Next
<1> QED BY <1>3, <1>4, <1>5, <1>6, Zenon

\* A get discards items with a timeout only and delivers the next one.
LEMMA GetRefines ==
  ASSUME TypeOK, NEW hit, NEW miss, TryGetInternal(hit, miss)
  PROVE  [Bounded!Next]_(Bounded!vars)
<1>1. PICK k \in 0 .. Len(que) :
        /\ \A i \in 1 .. k : ~Fresh(que[i])
        /\ IF k < Len(que)
           THEN /\ Fresh(que[k + 1])
                /\ que' = SubSeq(que, k + 2, Len(que))
                /\ got' = Append(got, que[k + 1])
                /\ state' \in NotifyPut(hit)
           ELSE /\ que' = <<>>
                /\ state' \in NotifyPut(miss)
                /\ UNCHANGED got
  BY Zenon DEF TryGetInternal
<1>2. \A i \in 1 .. k : HasTimeout(que[i])
  BY <1>1, Zenon DEF Fresh, HasTimeout
<1>3. que \in Seq(Inner) /\ got \in Seq(Inner) /\ Len(que) \in Nat
  BY DEF TypeOK
<1>4. CASE k < Len(que)
  <2>1. k + 1 \in 1 .. Len(que) /\ que[k + 1] \in Inner
    BY <1>3, <1>4
  <2>2. SubSeq(que, k + 1, k + 1) = <<que[k + 1]>>
    <3> DEFINE m == k + 1
    <3>1. m \in 1 .. Len(que) /\ m \in m .. Len(que) /\ m \in Int /\ m + 1 \in Int /\ m < m + 1
      BY <1>3, <2>1
    <3> HIDE DEF m
    <3>2. SubSeq(que, m, m) = <<que[m]>> \o SubSeq(que, m + 1, m)
      BY <1>3, <3>1, SubSeqRecursiveFirst, Zenon
    <3>3. SubSeq(que, m + 1, m) = <<>>
      BY <3>1, SubSeqEmpty, Zenon
    <3>4. <<que[m]>> \in Seq(Inner)
      BY <1>3, <3>1, ElementOfSeq
    <3>5. SubSeq(que, m, m) = <<que[m]>>
      BY <3>2, <3>3, <3>4, ConcatEmptySeq, Zenon
    <3> QED BY <3>5, Zenon DEF m
  <2>3. got' = got \o SubSeq(que, k + 1, k + 1)
    BY <1>1, <1>3, <1>4, <2>1, <2>2, AppendIsConcat, Zenon
  <2>4. Bounded!Get(k)
    BY <1>1, <1>2, <1>4, <2>3, Zenon DEF Bounded!Get
  <2>5. k \in 0 .. Len(que) - 1
    BY <1>3, <1>4
  <2> QED BY <2>4, <2>5, Zenon DEF Bounded!Next
<1>5. CASE k = Len(que)
  <2>1. Bounded!GetNone
    BY <1>1, <1>2, <1>3, <1>5 DEF Bounded!GetNone
  <2> QED BY <2>1, Zenon DEF Bounded!Next
<1> QED BY <1>3, <1>4, <1>5

\* The queue implements BoundedQueue: items come out once and in order, and one
\* without a timeout is dropped by a forced put only.
THEOREM QueueImplementsBounded == Spec => ImplementsBoundedQueue
<1>1. Init => Bounded!Init
  BY Zenon DEF Init, Bounded!Init
<1>2. ASSUME IInv, [Next]_vars PROVE [Bounded!Next]_(Bounded!vars)
  <2>1. TypeOK /\ PendingOK
    BY <1>2, Zenon DEF IInv
  <2>2. ASSUME NEW p \in Producers, TryPut(p) \/ ForcePut(p) \/ PutNow(p)
        PROVE  [Bounded!Next]_(Bounded!vars)
    <3>1. PICK x \in Calls : NewCall(x) /\ (TryPutInternal(x, state) \/ ForcePutInternal(x, state))
      BY <2>2, Zenon DEF TryPut, ForcePut, PutNow
    <3>2. got' = got
      BY <2>2, Zenon DEF TryPut, ForcePut, PutNow
    <3>3. x.item \in 1 .. MaxPuts /\ x.timeout \in Timeouts
      BY <2>1, <3>1, CallType, Zenon
    <3> QED BY <2>1, <3>1, <3>2, <3>3, PutRefines, Zenon
  <2>3. ASSUME NEW p \in Producers, PutResume(p)
        PROVE  [Bounded!Next]_(Bounded!vars)
    <3>1. state[p] = "woken" /\ got' = got
      BY <2>3, Zenon DEF PutResume
    <3>2. pending[p].item \in 1 .. MaxPuts /\ pending[p].timeout \in Timeouts
      BY <2>1, <3>1, Zenon DEF PendingOK
    <3>3. CASE Full
      BY <2>3, <3>1, <3>3, Zenon DEF PutResume, Bounded!vars
    <3>4. CASE ~Full
      <4>1. TryPutInternal(pending[p], [state EXCEPT ![p] = "idle"])
        BY <2>3, <3>4, Zenon DEF PutResume
      <4> QED BY <2>1, <3>1, <3>2, <4>1, PutRefines, Zenon
    <3> QED BY <3>3, <3>4, Zenon
  <2>4. ASSUME NEW c \in Consumers, TryGet(c) \/ Get(c)
        PROVE  [Bounded!Next]_(Bounded!vars)
    <3>1. \E hit, miss : TryGetInternal(hit, miss)
      BY <2>4, Zenon DEF TryGet, Get
    <3> QED BY <2>1, <3>1, GetRefines, Zenon
  <2>5. ASSUME \/ \E p \in Producers : PutWait(p)
               \/ \E t \in Threads : SpuriousWakeup(t)
               \/ Tick
               \/ UNCHANGED vars
        PROVE  [Bounded!Next]_(Bounded!vars)
    <3>1. que' = que /\ got' = got
      BY <2>5, Zenon DEF PutWait, SpuriousWakeup, Tick, vars
    <3> QED BY <3>1, Zenon DEF Bounded!vars
  <2> QED BY <1>2, <2>2, <2>3, <2>4, <2>5, Zenon DEF Next
<1> QED BY <1>1, <1>2, Inductive, PTL DEF Spec, ImplementsBoundedQueue, Bounded!Spec
=============================================================================
