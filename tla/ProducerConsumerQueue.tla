------------------------ MODULE ProducerConsumerQueue ------------------------
(***************************************************************************)
(* ProducerConsumerQueue: a deque with a capacity and per-item timeouts,   *)
(* one mutex and two condition variables.  What a thread does between      *)
(* taking the mutex and releasing it, or waiting, is one step.  The doc    *)
(* pool of the build thread and the buffer of the replay log writer are    *)
(* instances of it.                                                        *)
(***************************************************************************)
EXTENDS Integers, Sequences, FiniteSets

CONSTANTS
  Producers,        \* threads that put
  Consumers,        \* threads that get
  Capacity,         \* capacity_
  DefaultTimeout,   \* default_timeout_
  Timeouts,         \* the _timeout arguments in use
  MaxPuts,          \* bound: calls that put
  MaxTime           \* bound: the clock

TIMEOUT_NONE        == 0
TIMEOUT_USE_DEFAULT == -1

ASSUME ConstantsAssumption ==
  /\ Capacity \in Nat \ {0}
  /\ DefaultTimeout \in Nat
  /\ Timeouts \subseteq Nat \union {TIMEOUT_USE_DEFAULT}
  /\ MaxPuts \in Nat
  /\ MaxTime \in Nat
  /\ IsFiniteSet(Producers) /\ IsFiniteSet(Consumers)
  /\ Producers \intersect Consumers = {}

Threads == Producers \union Consumers

VARIABLES
  clock,    \* Timer::CurrentTimeInUs()
  que,      \* que_
  state,    \* what each thread does: "idle"; "wait" or "woken" on its condition
            \* variable (producers on put_cond_t_, consumers on get_cond_t_)
  pending,  \* the arguments of a blocked Put
  puts,     \* number of calls that put, which also names the items
  got,      \* history: the items delivered, in order
  timed     \* history: an item had a timeout

vars == <<clock, que, state, pending, puts, got, timed>>

\* Mutant: one too many.
OverFull == Len(que) > Capacity

Full == Len(que) >= Capacity

\* An item with its timestamp_ and timeout_.
InnerItem(x) ==
  [item      |-> x.item,
   timestamp |-> clock,
   timeout   |-> IF x.timeout = TIMEOUT_USE_DEFAULT THEN DefaultTimeout
                                                    ELSE x.timeout]

\* Mutant: TIMEOUT_NONE is not special.
FreshInTime(itm) == clock <= itm.timestamp + itm.timeout

\* CurrentTimeInUs() <= timestamp_ + timeout_, or no timeout
Fresh(itm) ==
  itm.timeout = TIMEOUT_NONE \/ clock <= itm.timestamp + itm.timeout

Waiting(st, S) == {t \in S : st[t] = "wait"}
Woken(st, S)   == {t \in S : st[t] = "woken"}

\* pthread_cond_signal of the condition variable of S wakes one waiting thread.
Signal(st, S) ==
  IF Waiting(st, S) = {}
  THEN {st}
  ELSE {[st EXCEPT ![t] = "woken"] : t \in Waiting(st, S)}

\* Mutants: a put signals only when the queue was empty, a get only when it was
\* full.
NotifyGetIfEmpty(st) == IF que = <<>> THEN Signal(st, Consumers) ELSE {st}
NotifyPutIfFull(st)  == IF Full THEN Signal(st, Producers) ELSE {st}

\* The signals at the end of every put and of every get.
NotifyGet(st) == Signal(st, Consumers)
NotifyPut(st) == Signal(st, Producers)

-----------------------------------------------------------------------------
\* TryPutInternal by a thread that leaves the threads in st: signals in any case.
TryPutInternal(x, st) ==
  /\ que' = IF Full THEN que ELSE Append(que, InnerItem(x))
  /\ state' \in NotifyGet(st)

\* ForcePutInternal: the front gives way when the queue is full.
ForcePutInternal(x, st) ==
  /\ que' = Append(IF Full THEN Tail(que) ELSE que, InnerItem(x))
  /\ state' \in NotifyGet(st)

\* The next call that puts, with one of the timeouts in use.
NoCall == [item |-> 0, timeout |-> TIMEOUT_NONE]
Calls  == {[item |-> puts + 1, timeout |-> t] : t \in Timeouts}
NewCall(x) ==
  /\ puts < MaxPuts
  /\ puts' = puts + 1
  /\ timed' = (timed \/ InnerItem(x).timeout # TIMEOUT_NONE)

TryPut(p) ==
  /\ state[p] = "idle"
  /\ \E x \in Calls : NewCall(x) /\ TryPutInternal(x, state)
  /\ UNCHANGED <<clock, pending, got>>

ForcePut(p) ==
  /\ state[p] = "idle"
  /\ \E x \in Calls : NewCall(x) /\ ForcePutInternal(x, state)
  /\ UNCHANGED <<clock, pending, got>>

\* Put finds the queue full and waits.
PutWait(p) ==
  /\ state[p] = "idle"
  /\ Full
  /\ \E x \in Calls : NewCall(x) /\ pending' = [pending EXCEPT ![p] = x]
  /\ state' = [state EXCEPT ![p] = "wait"]
  /\ UNCHANGED <<clock, que, got>>

\* Put finds room at once.
PutNow(p) ==
  /\ state[p] = "idle"
  /\ ~Full
  /\ \E x \in Calls : NewCall(x) /\ TryPutInternal(x, state)
  /\ UNCHANGED <<clock, pending, got>>

\* A woken Put tests the queue again.
PutResume(p) ==
  /\ state[p] = "woken"
  /\ IF Full
     THEN state' = [state EXCEPT ![p] = "wait"] /\ UNCHANGED <<que, pending>>
     ELSE /\ TryPutInternal(pending[p], [state EXCEPT ![p] = "idle"])
          /\ pending' = [pending EXCEPT ![p] = NoCall]
  /\ UNCHANGED <<clock, puts, got, timed>>

-----------------------------------------------------------------------------
\* TryGetInternal by a thread that leaves the threads in hit when it gets an item
\* and in miss when it does not: pop until an item is fresh, then signal.
TryGetInternal(hit, miss) ==
  \E k \in 0 .. Len(que) :
    /\ \A i \in 1 .. k : ~Fresh(que[i])
    /\ IF k < Len(que)
       THEN /\ Fresh(que[k + 1])
            /\ que' = SubSeq(que, k + 2, Len(que))
            /\ got' = Append(got, que[k + 1])
            /\ state' \in NotifyPut(hit)
       ELSE /\ que' = <<>>
            /\ state' \in NotifyPut(miss)
            /\ UNCHANGED got

TryGet(c) ==
  /\ state[c] = "idle"
  /\ TryGetInternal(state, state)
  /\ UNCHANGED <<clock, pending, puts, timed>>

\* Get: at once, or after being woken.
Get(c) ==
  /\ state[c] \in {"idle", "woken"}
  /\ TryGetInternal([state EXCEPT ![c] = "idle"], [state EXCEPT ![c] = "wait"])
  /\ UNCHANGED <<clock, pending, puts, timed>>

-----------------------------------------------------------------------------
\* pthread_cond_wait may return without a signal.
SpuriousWakeup(t) ==
  /\ state[t] = "wait"
  /\ state' = [state EXCEPT ![t] = "woken"]
  /\ UNCHANGED <<clock, que, pending, puts, got, timed>>

Tick ==
  /\ clock < MaxTime
  /\ clock' = clock + 1
  /\ UNCHANGED <<que, state, pending, puts, got, timed>>

Init ==
  /\ clock = 0
  /\ que = <<>>
  /\ state = [t \in Threads |-> "idle"]
  /\ pending = [p \in Producers |-> NoCall]
  /\ puts = 0
  /\ got = <<>>
  /\ timed = FALSE

Next ==
  \/ \E p \in Producers :
       TryPut(p) \/ ForcePut(p) \/ PutWait(p) \/ PutNow(p) \/ PutResume(p)
  \/ \E c \in Consumers : TryGet(c) \/ Get(c)
  \/ \E t \in Threads : SpuriousWakeup(t)
  \/ Tick

Spec == Init /\ [][Next]_vars

\* A woken thread gets the mutex and goes on; nobody has to call and no wakeup
\* is spurious.
FairSpec ==
  /\ Spec
  /\ \A p \in Producers : WF_vars(PutResume(p))
  /\ \A c \in Consumers : WF_vars(state[c] = "woken" /\ Get(c))

-----------------------------------------------------------------------------
Inner == [item : 1 .. MaxPuts, timestamp : 0 .. MaxTime,
          timeout : (Timeouts \ {TIMEOUT_USE_DEFAULT}) \union {DefaultTimeout}]

TypeOK ==
  /\ clock \in 0 .. MaxTime
  /\ que \in Seq(Inner) /\ Len(que) <= Capacity
  /\ state \in [Threads -> {"idle", "wait", "woken"}]
  /\ pending \in [Producers -> [item : 0 .. MaxPuts,
                                timeout : Timeouts \union {TIMEOUT_NONE}]]
  /\ puts \in 0 .. MaxPuts
  /\ got \in Seq(Inner)
  /\ timed \in BOOLEAN

\* The queue implements BoundedQueue: what is put comes out once and in order,
\* and items without a timeout are only ever dropped by a forced put.
HasTimeout(itm) == itm.timeout # TIMEOUT_NONE
Bounded == INSTANCE BoundedQueue WITH Items <- Inner, Timed <- HasTimeout
ImplementsBoundedQueue == Bounded!Spec

\* No wakeup of a consumer is lost: while one waits, every item in the queue has
\* a woken consumer coming for it.
ConsumersNotified ==
  Waiting(state, Consumers) # {} => Len(que) <= Cardinality(Woken(state, Consumers))

\* "Put, will block if inner queue is full": while a producer waits, every free
\* slot has a woken producer coming for it.
BlocksOnlyIfFull ==
  Waiting(state, Producers) # {} =>
    Capacity - Len(que) <= Cardinality(Woken(state, Producers))

\* It is so as long as no item has had a timeout: one signal per get is enough
\* when a get takes one item at a time.
UntimedBlocksOnlyIfFull == ~timed => BlocksOnlyIfFull

\* A consumer in Get does not wait for ever on a queue that is not empty.
GetServed ==
  \A c \in Consumers :
    state[c] # "idle" /\ que # <<>> ~> state[c] = "idle" \/ que = <<>>
=============================================================================
