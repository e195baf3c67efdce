---------------------- MODULE UserProfileStorageProofs ----------------------
(***************************************************************************)
(* Proofs about UserProfileStorage, for any number of threads and any      *)
(* length of the transactions.  The inductive invariant says who may be    *)
(* where without the mutex and, until calls overlap, what is on a          *)
(* connection: nothing while those who hold the client wait, only the      *)
(* caller's commands and replies during a call, and at most one ping, the  *)
(* last, while GetRedisNode waits for its pong.                            *)
(* At the end: what adding and removing a node does to the keys of the     *)
(* ring that GetRedisNode looks them up in.                                *)
(***************************************************************************)
EXTENDS UserProfileStorage, TLAPS

\* Places where a thread has the mutex.
Locked == {"pong", "reconnect", "slave", "again", "reply"}

\* The mutex is held where it should be, and the clients in use are there.
ThreadOK(t) ==
  /\ pc[t] \in Locked => mutex = t
  /\ pc[t] = "idle" => redis[t] = NULL
  /\ pc[t] \in {"pong", "reconnect", "again", "lock", "reply"} => client[t] \in Clients
  /\ pc[t] \in {"set", "stored"} => redis[t] \in Clients
  /\ pc[t] \in {"lock", "reply"} /\ op[t] = "increment" => redis[t] \in Clients

ThreadInv == \A t \in Threads : ThreadOK(t)

-----------------------------------------------------------------------------
(* What is on a connection.                                                *)

NoPing(q) == \A i \in DOMAIN q : q[i][2] # "PING"

\* Of the replies u and the commands q on a connection the last one, and no
\* other, belongs to a ping.
PingLast(u, q) ==
  /\ \A i \in DOMAIN u : i < Len(u) => u[i][2] # "PING"
  /\ \A i \in DOMAIN q : i < Len(q) => q[i][2] # "PING"
  /\ q = <<>> => u # <<>>
  /\ q # <<>> => NoPing(u)

\* Only pings are answered by a pong.
PongsAnswerPings(u) == \A i \in DOMAIN u : u[i][3] = "PONG" => u[i][2] = "PING"

\* t has sent a ping on c, which may still be there.
Pinger(t, c) == pc[t] \in {"pong", "reconnect", "again"} /\ client[t] = c

PingInv(c) ==
  /\ PongsAnswerPings(unread[c])
  /\ (NoPing(unread[c]) /\ NoPing(sent[c])) \/ \E t \in Threads : Pinger(t, c)
  /\ \A t \in Threads :
       pc[t] = "pong" /\ client[t] = c => PingLast(unread[c], sent[c])

\* One call at a time, on a context that is usable.
CallInv(c) ==
  \A t \in Threads :
    InCall(t, c) => usable[c] /\ \A u \in Threads \ {t} : ~InCall(u, c)

Fresh(t, c) == Holds(t, c) /\ <<t, c>> \notin stale

\* Where a client is held by a thread that is not stale, a ping is alone.
PingAlone(c) ==
  \A t, u \in Threads :
    Fresh(t, c) /\ pc[u] = "pong" /\ client[u] = c => Len(unread[c]) + Len(sent[c]) = 1

Own(c) ==
  \A t \in Threads :
    InCall(t, c) /\ pc[t] # "pong" /\ <<t, c>> \notin stale =>
      OnTheWire(c) \subseteq {t} \X OwnCommands(t)

Clean(c) ==
  \A t \in Threads :
    Fresh(t, c) /\ (\A u \in Threads : ~InCall(u, c)) => OnTheWire(c) = {}

ClientInv(c) == PingInv(c) /\ CallInv(c) /\ PingAlone(c) /\ Own(c) /\ Clean(c)

WireInv == ~raced => \A c \in Clients : ClientInv(c)

IInv == TypeOK /\ ThreadInv /\ WireInv

-----------------------------------------------------------------------------
(* Sequences of commands and of replies.                                   *)

\* Heads and lengths.
LEMMA SeqFacts ==
  ASSUME NEW T, NEW q \in Seq(T)
  PROVE  /\ Len(q) \in Nat /\ DOMAIN q = 1 .. Len(q)
         /\ q # <<>> => Len(q) > 0 /\ Head(q) = q[1] /\ Head(q) \in T
         /\ Len(q) = 0 => q = <<>>
OBVIOUS

\* Taking the first reply.
LEMMA TailFacts ==
  ASSUME NEW T, NEW q \in Seq(T), q # <<>>
  PROVE  /\ Tail(q) \in Seq(T) /\ Len(Tail(q)) = Len(q) - 1
         /\ \A i \in 1 .. Len(q) - 1 : Tail(q)[i] = q[i + 1]
OBVIOUS

\* A reply arrives.
LEMMA AppendFacts ==
  ASSUME NEW T, NEW q \in Seq(T), NEW e \in T
  PROVE  /\ Append(q, e) \in Seq(T) /\ Len(Append(q, e)) = Len(q) + 1
         /\ \A i \in 1 .. Len(q) : Append(q, e)[i] = q[i]
         /\ Append(q, e)[Len(q) + 1] = e
OBVIOUS

\* Commands are written.
LEMMA ConcatFacts ==
  ASSUME NEW T, NEW q \in Seq(T), NEW r \in Seq(T)
  PROVE  /\ q \o r \in Seq(T) /\ Len(q \o r) = Len(q) + Len(r)
         /\ \A i \in 1 .. Len(q) : (q \o r)[i] = q[i]
         /\ \A i \in 1 .. Len(r) : (q \o r)[Len(q) + i] = r[i]
OBVIOUS

\* Nothing on an empty connection.
LEMMA EntriesEmpty ==
  ASSUME NEW T, NEW q \in Seq(T)
  PROVE  Entries(q) = {} <=> q = <<>>
<1>1. DOMAIN q = 1 .. Len(q) /\ Len(q) \in Nat
  BY SeqFacts, Zenon
<1>2. ASSUME q # <<>> PROVE Entries(q) # {}
  <2>1. 1 \in DOMAIN q
    BY <1>1, <1>2, SeqFacts
  <2> QED BY <2>1, Zenon DEF Entries
<1>3. ASSUME q = <<>> PROVE Entries(q) = {}
  BY <1>3 DEF Entries
<1> QED BY <1>2, <1>3, Zenon

\* What is on a connection when a reply is taken,
LEMMA EntriesTail ==
  ASSUME NEW T, NEW q \in Seq(T), q # <<>>
  PROVE  Entries(q) = Entries(Tail(q)) \union {<<Head(q)[1], Head(q)[2]>>}
<1>1. /\ DOMAIN q = 1 .. Len(q) /\ Len(q) \in Nat /\ Len(q) > 0 /\ Head(q) = q[1]
      /\ Tail(q) \in Seq(T) /\ Len(Tail(q)) = Len(q) - 1
      /\ \A i \in 1 .. Len(q) - 1 : Tail(q)[i] = q[i + 1]
  BY SeqFacts, TailFacts, Zenon
<1>2. DOMAIN Tail(q) = 1 .. Len(q) - 1
  BY <1>1, SeqFacts, Zenon
<1>3. \A i \in 1 .. Len(q) : i = 1 \/ (i - 1 \in 1 .. Len(q) - 1 /\ q[i] = Tail(q)[i - 1])
  BY <1>1
<1>4. \A i \in 1 .. Len(q) - 1 : i + 1 \in 1 .. Len(q) /\ Tail(q)[i] = q[i + 1]
  BY <1>1
<1>5. 1 \in 1 .. Len(q)
  BY <1>1
<1>6. ASSUME NEW e \in Entries(q)
      PROVE  e \in Entries(Tail(q)) \/ e = <<Head(q)[1], Head(q)[2]>>
  <2>1. PICK i \in 1 .. Len(q) : e = <<q[i][1], q[i][2]>>
    BY <1>1, <1>6, Zenon DEF Entries
  <2>2. CASE i = 1
    BY <1>1, <2>1, <2>2, Zenon
  <2>3. CASE i - 1 \in DOMAIN Tail(q) /\ q[i] = Tail(q)[i - 1]
    BY <2>1, <2>3, Zenon DEF Entries
  <2> QED BY <1>2, <1>3, <2>2, <2>3, Zenon
<1>7. ASSUME NEW e \in Entries(Tail(q)) PROVE e \in Entries(q)
  <2>1. PICK i \in 1 .. Len(q) - 1 : e = <<Tail(q)[i][1], Tail(q)[i][2]>>
    BY <1>2, <1>7, Zenon DEF Entries
  <2>2. i + 1 \in DOMAIN q /\ e = <<q[i + 1][1], q[i + 1][2]>>
    BY <1>1, <1>4, <2>1, Zenon
  <2> QED BY <2>2, Zenon DEF Entries
<1>8. <<Head(q)[1], Head(q)[2]>> \in Entries(q)
  BY <1>1, <1>5, Zenon DEF Entries
<1> QED BY <1>6, <1>7, <1>8, Zenon

\* when commands are written
LEMMA EntriesConcat ==
  ASSUME NEW T, NEW q \in Seq(T), NEW r \in Seq(T)
  PROVE  Entries(q \o r) = Entries(q) \union Entries(r)
<1>1. /\ DOMAIN q = 1 .. Len(q) /\ Len(q) \in Nat /\ DOMAIN r = 1 .. Len(r) /\ Len(r) \in Nat
      /\ DOMAIN (q \o r) = 1 .. Len(q) + Len(r)
      /\ \A i \in 1 .. Len(q) : (q \o r)[i] = q[i]
      /\ \A i \in 1 .. Len(r) : (q \o r)[Len(q) + i] = r[i]
  BY SeqFacts, ConcatFacts
<1>2. \A i \in 1 .. Len(q) + Len(r) :
        \/ i \in 1 .. Len(q) /\ (q \o r)[i] = q[i]
        \/ i - Len(q) \in 1 .. Len(r) /\ (q \o r)[i] = r[i - Len(q)]
  <2> TAKE i \in 1 .. Len(q) + Len(r)
  <2>1. CASE i <= Len(q)
    BY <1>1, <2>1
  <2>2. CASE i > Len(q)
    <3>1. i - Len(q) \in 1 .. Len(r) /\ i = Len(q) + (i - Len(q))
      BY <1>1, <2>2
    <3> QED BY <1>1, <3>1, Zenon
  <2> QED BY <1>1, <2>1, <2>2
<1>3. \A i \in 1 .. Len(q) : i \in 1 .. Len(q) + Len(r)
  BY <1>1
<1>4. \A i \in 1 .. Len(r) : Len(q) + i \in 1 .. Len(q) + Len(r)
  BY <1>1
<1>5. ASSUME NEW e \in Entries(q \o r) PROVE e \in Entries(q) \union Entries(r)
  <2>1. PICK i \in 1 .. Len(q) + Len(r) : e = <<(q \o r)[i][1], (q \o r)[i][2]>>
    BY <1>1, <1>5, Zenon DEF Entries
  <2>2. CASE i \in DOMAIN q /\ (q \o r)[i] = q[i]
    BY <2>1, <2>2, Zenon DEF Entries
  <2>3. CASE i - Len(q) \in DOMAIN r /\ (q \o r)[i] = r[i - Len(q)]
    BY <2>1, <2>3, Zenon DEF Entries
  <2> QED BY <1>1, <1>2, <2>2, <2>3, Zenon
<1>6. ASSUME NEW e \in Entries(q) PROVE e \in Entries(q \o r)
  <2>1. PICK i \in DOMAIN q : e = <<q[i][1], q[i][2]>>
    BY <1>6, Zenon DEF Entries
  <2>2. i \in DOMAIN (q \o r) /\ (q \o r)[i] = q[i]
    BY <1>1, <1>3, Zenon
  <2> QED BY <2>1, <2>2, Zenon DEF Entries
<1>7. ASSUME NEW e \in Entries(r) PROVE e \in Entries(q \o r)
  <2>1. PICK i \in DOMAIN r : e = <<r[i][1], r[i][2]>>
    BY <1>7, Zenon DEF Entries
  <2>2. Len(q) + i \in DOMAIN (q \o r) /\ (q \o r)[Len(q) + i] = r[i]
    BY <1>1, <1>4, Zenon
  <2> QED BY <2>1, <2>2, Zenon DEF Entries
<1> QED BY <1>5, <1>6, <1>7, Zenon

\* and when a reply arrives.
LEMMA EntriesAppend ==
  ASSUME NEW T, NEW q \in Seq(T), NEW e \in T
  PROVE  Entries(Append(q, e)) = Entries(q) \union {<<e[1], e[2]>>}
<1>1. /\ DOMAIN q = 1 .. Len(q) /\ Len(q) \in Nat
      /\ DOMAIN Append(q, e) = 1 .. Len(q) + 1
      /\ \A i \in 1 .. Len(q) : Append(q, e)[i] = q[i]
      /\ Append(q, e)[Len(q) + 1] = e
  BY SeqFacts, AppendFacts
<1>2. 1 .. Len(q) + 1 = (1 .. Len(q)) \union {Len(q) + 1}
  BY <1>1
<1> QED BY <1>1, <1>2 DEF Entries

\* The commands of a call, with their thread.
LEMMA SendFacts ==
  ASSUME NEW T, NEW q \in Seq(T), NEW U, NEW r \in [DOMAIN q -> U]
  PROVE  r \in Seq(U) /\ Len(r) = Len(q)
<1>1. DOMAIN q = 1 .. Len(q) /\ Len(q) \in Nat
  BY SeqFacts, Zenon
<1> QED BY <1>1

\* What a call writes: the commands of the operation.
OpCommands(o) == IF o = "multi" THEN {"MULTI", "QUEUE", "EXEC"} ELSE {"GET"}

\* Commands writes them.
LEMMA CommandsFacts ==
  ASSUME NEW o
  PROVE  Commands(o) \in Seq(OpCommands(o))
<1>1. CASE o = "multi"
  <2> DEFINE T == {"MULTI", "QUEUE", "EXEC"}
  <2>1. <<"MULTI">> \in Seq(T) /\ <<"EXEC">> \in Seq(T)
    OBVIOUS
  <2>2. [i \in 1 .. Batch |-> "QUEUE"] \in Seq(T)
    <3>1. Batch \in Nat
      BY ConstantsAssumption, Zenon
    <3>2. [i \in 1 .. Batch |-> "QUEUE"] \in [1 .. Batch -> T]
      BY Zenon
    <3> QED BY <3>1, <3>2
  <2> HIDE DEF T
  <2>3. <<"MULTI">> \o [i \in 1 .. Batch |-> "QUEUE"] \o <<"EXEC">> \in Seq(T)
    BY <2>1, <2>2
  <2> QED BY <1>1, <2>3, Zenon DEF Commands, OpCommands, T
<1>2. CASE o # "multi"
  BY <1>2 DEF Commands, OpCommands
<1> QED BY <1>1, <1>2, Zenon

\* A ping behind other commands is the last.
LEMMA PingSent ==
  ASSUME NEW S, NEW T, NEW u \in Seq(T), NEW q \in Seq(S), NEW e \in S,
         NoPing(u), NoPing(q)
  PROVE  PingLast(u, Append(q, e))
<1>1. /\ DOMAIN q = 1 .. Len(q) /\ Len(q) \in Nat /\ Append(q, e) \in Seq(S)
      /\ DOMAIN Append(q, e) = 1 .. Len(q) + 1 /\ Len(Append(q, e)) = Len(q) + 1
      /\ \A i \in 1 .. Len(q) : Append(q, e)[i] = q[i]
  BY SeqFacts, AppendFacts
<1>2. \A i \in 1 .. Len(q) + 1 : i < Len(q) + 1 => i \in 1 .. Len(q)
  BY <1>1
<1>3. Append(q, e) # <<>>
  BY <1>1, SeqFacts
<1> QED BY <1>1, <1>2, <1>3, Zenon DEF PingLast, NoPing

\* It stays the last when the server answers
LEMMA PingServed ==
  ASSUME NEW S, NEW T, NEW u \in Seq(T), NEW q \in Seq(S), q # <<>>, NEW r \in T,
         r[2] = Head(q)[2], PingLast(u, q)
  PROVE  PingLast(Append(u, r), Tail(q))
<1>1. /\ DOMAIN q = 1 .. Len(q) /\ Len(q) \in Nat /\ Len(q) > 0 /\ Head(q) = q[1]
      /\ Tail(q) \in Seq(S) /\ Len(Tail(q)) = Len(q) - 1 /\ DOMAIN Tail(q) = 1 .. Len(q) - 1
      /\ \A i \in 1 .. Len(q) - 1 : Tail(q)[i] = q[i + 1]
      /\ DOMAIN u = 1 .. Len(u) /\ Len(u) \in Nat /\ Append(u, r) \in Seq(T)
      /\ DOMAIN Append(u, r) = 1 .. Len(u) + 1 /\ Len(Append(u, r)) = Len(u) + 1
      /\ \A i \in 1 .. Len(u) : Append(u, r)[i] = u[i]
      /\ Append(u, r)[Len(u) + 1] = r
  BY SeqFacts, TailFacts, AppendFacts
<1>2. NoPing(u)
  BY Zenon DEF PingLast
<1>3. ASSUME NEW i \in DOMAIN Append(u, r), i < Len(Append(u, r))
      PROVE  Append(u, r)[i][2] # "PING"
  <2>1. i \in 1 .. Len(u)
    BY <1>1, <1>3
  <2> QED BY <1>1, <1>2, <2>1, Zenon DEF NoPing
<1>4. ASSUME NEW i \in DOMAIN Tail(q), i < Len(Tail(q)) PROVE Tail(q)[i][2] # "PING"
  <2>1. i + 1 \in 1 .. Len(q) /\ i + 1 < Len(q) /\ Tail(q)[i] = q[i + 1]
    BY <1>1, <1>4
  <2> QED BY <1>1, <2>1, Zenon DEF PingLast
<1>5. Append(u, r) # <<>>
  BY <1>1, SeqFacts
<1>6. ASSUME Tail(q) # <<>> PROVE NoPing(Append(u, r))
  <2>1. Len(Tail(q)) # 0
    BY <1>1, <1>6, SeqFacts, Zenon
  <2>2. 1 \in DOMAIN q /\ 1 < Len(q)
    BY <1>1, <2>1
  <2>3. r[2] # "PING"
    BY <1>1, <2>2, Zenon DEF PingLast
  <2>4. \A i \in 1 .. Len(u) + 1 : i \in 1 .. Len(u) \/ i = Len(u) + 1
    BY <1>1
  <2> QED BY <1>1, <1>2, <2>3, <2>4, Zenon DEF NoPing
<1> QED BY <1>3, <1>4, <1>5, <1>6, Zenon DEF PingLast

\* and nothing is left when its reply has been taken.
LEMMA PingTaken ==
  ASSUME NEW S, NEW T, NEW u \in Seq(T), NEW q \in Seq(S), u # <<>>,
         Head(u)[2] = "PING", PingLast(u, q)
  PROVE  Tail(u) = <<>> /\ q = <<>>
<1>1. /\ DOMAIN u = 1 .. Len(u) /\ Len(u) \in Nat /\ Len(u) > 0 /\ Head(u) = u[1]
      /\ Tail(u) \in Seq(T) /\ Len(Tail(u)) = Len(u) - 1
  BY SeqFacts, TailFacts, Zenon
<1>2. 1 \in DOMAIN u
  BY <1>1
<1>3. ~NoPing(u)
  BY <1>1, <1>2, Zenon DEF NoPing
<1>4. ~(1 < Len(u))
  BY <1>1, <1>2, Zenon DEF PingLast
<1>5. Len(Tail(u)) = 0
  BY <1>1, <1>4
<1> QED BY <1>1, <1>3, <1>5, SeqFacts, Zenon DEF PingLast

-----------------------------------------------------------------------------
(* Types.                                                                  *)

Places == {"idle", "node", "pong", "reconnect", "slave", "again",
           "lock", "reply", "set", "stored"}

NetType ==
  /\ usable \in [Clients -> BOOLEAN]
  /\ sent \in [Clients -> Seq(Threads \X Command)]
  /\ unread \in [Clients -> Seq(Threads \X Command \X Kinds)]

ThreadType ==
  /\ mutex \in Threads \union {NULL}
  /\ pc \in [Threads -> Places]
  /\ op \in [Threads -> Ops \union {NULL}]
  /\ client \in [Threads -> Clients \union {NULL}]
  /\ redis \in [Threads -> Clients \union {NULL}]
  /\ taken \in [Threads -> 0 .. Batch + 1]

HistoryType == raced \in BOOLEAN /\ stale \subseteq Threads \X Clients

\* The three parts of the type invariant.
LEMMA TypeParts == TypeOK <=> NetType /\ ThreadType /\ HistoryType
BY Zenon DEF TypeOK, NetType, ThreadType, HistoryType, Places

\* The same after a step.
LEMMA TypePartsNext == TypeOK' <=> NetType' /\ ThreadType' /\ HistoryType'
BY Zenon DEF TypeOK, NetType, ThreadType, HistoryType, Places

\* Facts about a client of a well-typed state.
LEMMA ClientType ==
  ASSUME NetType, NEW c \in Clients
  PROVE  /\ usable[c] \in BOOLEAN /\ sent[c] \in Seq(Threads \X Command)
         /\ unread[c] \in Seq(Threads \X Command \X Kinds)
BY Zenon DEF NetType

\* Sending.
LEMMA SendStep ==
  ASSUME NetType, HistoryType, NEW t \in Threads, NEW c \in Clients,
         NEW S \in SUBSET Command, NEW q \in Seq(S), Send(t, c, q)
  PROVE  /\ NetType' /\ raced' \in BOOLEAN
         /\ \A d \in Clients \ {c} : sent'[d] = sent[d]
         /\ usable' = usable /\ unread' = unread
         /\ Entries(sent'[c]) \subseteq Entries(sent[c]) \union ({t} \X S)
         /\ Len(sent'[c]) = Len(sent[c]) + Len(q)
         /\ NoPing(sent[c]) /\ "PING" \notin S => NoPing(sent'[c])
         /\ ~raced' => ~raced /\ \A u \in Threads \ {t} : ~InCall(u, c)
<1> DEFINE r == [i \in DOMAIN q |-> <<t, q[i]>>]
<1>1. sent' = [sent EXCEPT ![c] = sent[c] \o r]
  BY Zenon DEF Send, NetType
<1>2. r \in [DOMAIN q -> {t} \X S]
  <2>1. \A i \in DOMAIN q : q[i] \in S
    BY SeqFacts
  <2> QED BY <2>1, Zenon
<1> HIDE DEF r
<1>3. /\ r \in Seq({t} \X S) /\ Len(r) = Len(q)
      /\ \A i \in DOMAIN r : r[i][1] = t /\ r[i][2] \in S
      /\ Entries(r) \subseteq {t} \X S
  <2> DEFINE U == {t} \X S
  <2>1. r \in [DOMAIN q -> U]
    BY <1>2, Zenon
  <2> HIDE DEF U
  <2>2. r \in Seq(U) /\ Len(r) = Len(q)
    BY <2>1, SendFacts, Zenon
  <2>3. \A i \in DOMAIN r : r[i][1] = t /\ r[i][2] \in S
    BY <1>2, Zenon
  <2> QED BY <2>2, <2>3 DEF U, Entries
<1>4. r \in Seq(Threads \X Command) /\ sent[c] \in Seq(Threads \X Command)
  <2>1. {t} \X S \subseteq Threads \X Command
    BY Zenon
  <2> QED BY <1>3, <2>1 DEF NetType
<1>5. /\ sent[c] \o r \in Seq(Threads \X Command)
      /\ Entries(sent[c] \o r) = Entries(sent[c]) \union Entries(r)
      /\ Len(sent[c] \o r) = Len(sent[c]) + Len(r)
  BY <1>4, ConcatFacts, EntriesConcat
<1>6. sent'[c] = sent[c] \o r /\ (\A d \in Clients \ {c} : sent'[d] = sent[d])
  BY <1>1, Zenon DEF NetType
<1>7. sent' \in [Clients -> Seq(Threads \X Command)]
  BY <1>1, <1>5, Zenon DEF NetType
<1>8. ASSUME NoPing(sent[c]), "PING" \notin S PROVE NoPing(sent[c] \o r)
  <2>1. Len(r) \in Nat /\ DOMAIN r = 1 .. Len(r) /\ Len(sent[c]) \in Nat
        /\ DOMAIN sent[c] = 1 .. Len(sent[c])
        /\ DOMAIN (sent[c] \o r) = 1 .. Len(sent[c]) + Len(r)
    BY <1>4, <1>5, SeqFacts, Zenon
  <2> SUFFICES ASSUME NEW i \in 1 .. Len(sent[c]) + Len(r)
               PROVE  (sent[c] \o r)[i][2] # "PING"
    BY <2>1, Zenon DEF NoPing
  <2>2. CASE i \in 1 .. Len(sent[c])
    <3>1. (sent[c] \o r)[i] = sent[c][i]
      BY <1>4, <2>2, ConcatFacts
    <3> QED BY <1>8, <2>1, <2>2, <3>1, Zenon DEF NoPing
  <2>3. CASE i > Len(sent[c])
    <3>1. i - Len(sent[c]) \in 1 .. Len(r) /\ i = Len(sent[c]) + (i - Len(sent[c]))
      BY <2>1, <2>3
    <3>2. (sent[c] \o r)[i] = r[i - Len(sent[c])]
      BY <1>4, <3>1, ConcatFacts
    <3> QED BY <1>3, <1>8, <2>1, <3>1, <3>2, Zenon
  <2> QED BY <2>1, <2>2, <2>3
<1>9. raced' \in BOOLEAN /\ (~raced' => ~raced /\ \A u \in Threads \ {t} : ~InCall(u, c))
  BY Zenon DEF Send, HistoryType, Overlaps
<1>10. usable' = usable /\ unread' = unread
  BY Zenon DEF Send
<1> QED BY <1>3, <1>5, <1>6, <1>7, <1>8, <1>9, <1>10, Zenon DEF NetType

\* Taking a reply.
LEMMA TakeStep ==
  ASSUME NetType, NEW c \in Clients, Take(c)
  PROVE  /\ NetType'
         /\ \A d \in Clients \ {c} : unread'[d] = unread[d]
         /\ usable' = usable /\ sent' = sent
         /\ unread[c] # <<>> /\ unread'[c] = Tail(unread[c])
         /\ Head(unread[c]) \in Threads \X Command \X Kinds
         /\ Entries(unread'[c]) \subseteq Entries(unread[c])
         /\ Len(unread'[c]) = Len(unread[c]) - 1
         /\ NoPing(unread[c]) => NoPing(unread'[c])
         /\ PongsAnswerPings(unread[c]) => PongsAnswerPings(unread'[c])
<1> DEFINE T == Threads \X Command \X Kinds
<1>1. unread[c] \in Seq(T) /\ unread[c] # <<>> /\ unread \in [Clients -> Seq(T)]
      /\ unread' = [unread EXCEPT ![c] = Tail(unread[c])] /\ usable' = usable /\ sent' = sent
  BY Zenon DEF Take, NetType
<1> HIDE DEF T
<1>2. /\ Tail(unread[c]) \in Seq(T) /\ Len(Tail(unread[c])) = Len(unread[c]) - 1
      /\ \A i \in 1 .. Len(unread[c]) - 1 : Tail(unread[c])[i] = unread[c][i + 1]
      /\ Len(unread[c]) \in Nat /\ DOMAIN unread[c] = 1 .. Len(unread[c])
      /\ Head(unread[c]) \in T
      /\ Entries(Tail(unread[c])) \subseteq Entries(unread[c])
  BY <1>1, TailFacts, SeqFacts, EntriesTail, Zenon
<1>3. /\ unread' \in [Clients -> Seq(T)]
      /\ unread'[c] = Tail(unread[c])
      /\ \A d \in Clients \ {c} : unread'[d] = unread[d]
  BY <1>1, <1>2, Zenon
<1>4. \A i \in DOMAIN Tail(unread[c]) :
        i + 1 \in DOMAIN unread[c] /\ Tail(unread[c])[i] = unread[c][i + 1]
  BY <1>2, SeqFacts
<1>5. /\ NoPing(unread[c]) => NoPing(Tail(unread[c]))
      /\ PongsAnswerPings(unread[c]) => PongsAnswerPings(Tail(unread[c]))
  BY <1>4, Zenon DEF NoPing, PongsAnswerPings
<1> QED BY <1>1, <1>2, <1>3, <1>5, Zenon DEF NetType, T

\* Finding none.
LEMMA FailStep ==
  ASSUME NetType, NEW c \in Clients, Fail(c)
  PROVE  /\ NetType'
         /\ \A d \in Clients \ {c} : usable'[d] = usable[d] /\ sent'[d] = sent[d]
         /\ unread' = unread
         /\ sent'[c] = <<>> /\ (usable[c] => unread'[c] = <<>>)
BY DEF Fail, NetType

\* Reconnecting.
LEMMA ReconnectStep ==
  ASSUME NetType, HistoryType, NEW t \in Threads, NEW c \in Clients, NEW b \in BOOLEAN,
         Reconnect(t, c, b)
  PROVE  /\ NetType' /\ HistoryType'
         /\ \A d \in Clients \ {c} :
              usable'[d] = usable[d] /\ sent'[d] = sent[d] /\ unread'[d] = unread[d]
         /\ sent'[c] = <<>> /\ unread'[c] = <<>>
         /\ ~raced' => ~raced /\ \A u \in Threads \ {t} : ~InCall(u, c)
         /\ \A u \in Threads, d \in Clients \ {c} : <<u, d>> \in stale => <<u, d>> \in stale'
<1>1. /\ NetType' /\ sent'[c] = <<>> /\ unread'[c] = <<>>
      /\ \A d \in Clients \ {c} :
           usable'[d] = usable[d] /\ sent'[d] = sent[d] /\ unread'[d] = unread[d]
  BY DEF Reconnect, NetType
<1>2. raced' \in BOOLEAN /\ (~raced' => ~raced /\ \A u \in Threads \ {t} : ~InCall(u, c))
  BY Zenon DEF Reconnect, HistoryType, Overlaps
<1>3. /\ stale' \subseteq Threads \X Clients
      /\ \A u \in Threads, d \in Clients \ {c} : <<u, d>> \in stale => <<u, d>> \in stale'
  BY Zenon DEF Reconnect, HistoryType
<1> QED BY <1>1, <1>2, <1>3, Zenon DEF HistoryType

-----------------------------------------------------------------------------
(* Threads.                                                                *)

\* A step of t leaves the others where they are.
Others(t) ==
  \A u \in Threads \ {t} :
    /\ pc'[u] = pc[u] /\ op'[u] = op[u] /\ client'[u] = client[u] /\ redis'[u] = redis[u]

\* The others do not need the mutex that t takes, keeps or releases.
LEMMA OthersOK ==
  ASSUME ThreadInv, NEW t \in Threads, Others(t), ThreadOK(t)',
         mutex = NULL \/ mutex = t \/ mutex' = mutex
  PROVE  ThreadInv'
<1> SUFFICES ASSUME NEW u \in Threads \ {t} PROVE ThreadOK(u)'
  BY Zenon DEF ThreadInv
<1>1. ThreadOK(u) /\ u # NULL
  BY ConstantsAssumption, Zenon DEF ThreadInv
<1>2. pc[u] \in Locked => mutex' = mutex
  BY <1>1, Zenon DEF ThreadOK
<1> QED BY <1>1, <1>2, Zenon DEF ThreadOK, Others

\* t goes somewhere else.
LEMMA GotoStep ==
  ASSUME ThreadType, NEW t \in Threads, NEW w \in Places, Goto(t, w), mutex' \in Threads \union {NULL}
  PROVE  /\ ThreadType' /\ Others(t) /\ pc'[t] = w
         /\ op' = op /\ client' = client /\ redis' = redis
<1>1. pc' = [pc EXCEPT ![t] = w] /\ op' = op /\ client' = client /\ redis' = redis /\ taken' = taken
  BY Zenon DEF Goto, thread
<1> QED BY <1>1, Zenon DEF ThreadType, Others

\* t returns.
LEMMA ReturnStep ==
  ASSUME ThreadType, NEW t \in Threads, Return(t), mutex' \in Threads \union {NULL}
  PROVE  /\ ThreadType' /\ Others(t) /\ pc'[t] = "idle" /\ redis'[t] = NULL
         /\ ThreadOK(t)'
<1>0. 0 \in 0 .. Batch + 1
  BY ConstantsAssumption
<1>1. ThreadType' /\ Others(t) /\ pc'[t] = "idle" /\ redis'[t] = NULL
  BY <1>0, Zenon DEF Return, ThreadType, Others, Places
<1> QED BY <1>1, Zenon DEF ThreadOK, Locked

\* t is handed c out.
LEMMA HandOutStep ==
  ASSUME NEW t \in Threads, ThreadType, ThreadOK(t), NEW c \in Clients, client[t] = c,
         pc[t] \in {"pong", "reconnect", "again"}, HandOut(t, c)
  PROVE  /\ ThreadType' /\ Others(t) /\ ThreadOK(t)' /\ mutex = t
         /\ pc'[t] \in {"lock", "set", "node"} /\ client'[t] = c
         /\ redis'[t] = redis[t] \/ (redis[t] = NULL /\ redis'[t] = c)
<1>1. mutex' = NULL /\ mutex = t /\ NULL \notin Clients
  BY ConstantsAssumption, Zenon DEF HandOut, Unlock, ThreadOK, Locked
<1>2. CASE op[t] \in {"put", "increment"} /\ redis[t] = NULL
  <2>1. /\ redis' = [redis EXCEPT ![t] = c]
        /\ pc' = [pc EXCEPT ![t] = IF op[t] = "put" THEN "set" ELSE "node"]
        /\ op' = op /\ client' = client /\ taken' = taken
    BY <1>2, Zenon DEF HandOut
  <2>2. ThreadType' /\ Others(t) /\ redis'[t] = c /\ pc'[t] \in {"set", "node"} /\ client'[t] = c
    BY <1>1, <2>1, Zenon DEF ThreadType, Others, Places
  <2> QED BY <1>1, <1>2, <2>2, Zenon DEF ThreadOK, Locked
<1>3. CASE ~(op[t] \in {"put", "increment"} /\ redis[t] = NULL)
  <2>1. Goto(t, "lock") /\ "lock" \in Places
    BY <1>3, Zenon DEF HandOut, Places
  <2>2. /\ ThreadType' /\ Others(t) /\ pc'[t] = "lock"
        /\ op' = op /\ client' = client /\ redis' = redis
    BY <1>1, <2>1, GotoStep, Zenon
  <2>3. op[t] = "increment" => redis[t] \in Clients
    BY <1>3, Zenon DEF ThreadType
  <2> QED BY <1>1, <2>2, <2>3, Zenon DEF ThreadOK, Locked
<1> QED BY <1>2, <1>3, Zenon

-----------------------------------------------------------------------------
(* Steps that leave a client alone, or empty its connection.               *)

\* A step of t that neither begins nor ends a call on d.
LEMMA Frame ==
  ASSUME NEW t \in Threads, NEW d \in Clients, ClientInv(d), Others(t),
         usable'[d] = usable[d], sent'[d] = sent[d], unread'[d] = unread[d],
         \A u \in Threads : <<u, d>> \in stale => <<u, d>> \in stale',
         ~InCall(t, d), ~InCall(t, d)', Holds(t, d)' => Holds(t, d),
         Pinger(t, d) => Pinger(t, d)'
  PROVE  ClientInv(d)'
<1>1. \A u \in Threads :
        /\ InCall(u, d)' <=> InCall(u, d)
        /\ Holds(u, d)' => Holds(u, d)
        /\ Pinger(u, d) => Pinger(u, d)'
        /\ Fresh(u, d)' => Fresh(u, d)
  BY Zenon DEF Others, InCall, Holds, Pinger, Fresh
<1>2. ASSUME NEW u \in Threads, InCall(u, d)'
      PROVE  u # t /\ pc'[u] = pc[u] /\ op'[u] = op[u] /\ OwnCommands(u)' = OwnCommands(u)
  BY <1>2, Zenon DEF Others, OwnCommands
<1>3. \A u \in Threads : (pc[u] = "pong" /\ client[u] = d)' => pc[u] = "pong" /\ client[u] = d
  BY Zenon DEF Others, InCall
<1>4. OnTheWire(d)' = OnTheWire(d)
  BY Zenon DEF OnTheWire
<1>5. PingInv(d)'
  BY <1>1, <1>3, Zenon DEF ClientInv, PingInv
<1>6. CallInv(d)'
  BY <1>1, Zenon DEF ClientInv, CallInv
<1>7. PingAlone(d)'
  BY <1>1, <1>3, Zenon DEF ClientInv, PingAlone
<1>8. Own(d)'
  <2> SUFFICES ASSUME NEW u \in Threads, InCall(u, d)', (pc[u] # "pong")', (<<u, d>> \notin stale)'
               PROVE  OnTheWire(d)' \subseteq {u} \X OwnCommands(u)'
    BY Zenon DEF Own
  <2> QED BY <1>1, <1>2, <1>4, Zenon DEF ClientInv, Own
<1>9. Clean(d)'
  BY <1>1, <1>4, Zenon DEF ClientInv, Clean
<1> QED BY <1>5, <1>6, <1>7, <1>8, <1>9, Zenon DEF ClientInv

\* A connection that is empty after a step.
LEMMA EmptyWire ==
  ASSUME NEW c \in Clients, sent'[c] = <<>>, unread'[c] = <<>>
  PROVE  OnTheWire(c)' = {}
BY DEF OnTheWire, Entries

\* Nothing on the connection and nobody in a call.
LEMMA Idle ==
  ASSUME NEW c \in Clients, sent'[c] = <<>>, unread'[c] = <<>>,
         \A u \in Threads : ~InCall(u, c)'
  PROVE  ClientInv(c)'
<1>1. (NoPing(unread[c]) /\ NoPing(sent[c]) /\ PongsAnswerPings(unread[c]))'
  BY DEF NoPing, PongsAnswerPings
<1>2. OnTheWire(c)' = {}
  BY EmptyWire, Zenon
<1>3. \A u \in Threads : ~(pc[u] = "pong" /\ client[u] = c)'
  BY Zenon DEF InCall
<1> QED BY <1>1, <1>2, <1>3, Zenon DEF ClientInv, PingInv, CallInv, PingAlone, Own, Clean

-----------------------------------------------------------------------------
(* The steps of a thread.                                                  *)

\* What the invariant says about a thread and about the others.
LEMMA Before ==
  ASSUME IInv, NEW t \in Threads
  PROVE  /\ NetType /\ ThreadType /\ HistoryType /\ ThreadInv /\ ThreadOK(t) /\ t # NULL
         /\ \A u \in Threads \ {t} : mutex \in {NULL, t} => pc[u] \notin Locked
         /\ ~raced => \A c \in Clients : ClientInv(c)
<1>1. NetType /\ ThreadType /\ HistoryType /\ ThreadInv /\ (~raced => \A c \in Clients : ClientInv(c))
  BY TypeParts, Zenon DEF IInv, WireInv
<1>2. \A u \in Threads : ThreadOK(u) /\ u # NULL
  BY <1>1, ConstantsAssumption, Zenon DEF ThreadInv
<1> QED BY <1>1, <1>2, Zenon DEF ThreadOK

\* What has to be shown after a step.
LEMMA After ==
  ASSUME NetType', ThreadType', HistoryType', ThreadInv',
         ~raced' => \A c \in Clients : ClientInv(c)'
  PROVE  IInv'
BY TypePartsNext, Zenon DEF IInv, WireInv

\* Without a pinger there is no ping on the connection, and nobody waits for a
\* pong.
LEMMA Unpinged ==
  ASSUME NEW c \in Clients, ClientInv(c), \A u \in Threads : pc[u] \notin {"pong", "reconnect", "again"}
  PROVE  NoPing(unread[c]) /\ NoPing(sent[c])
BY Zenon DEF ClientInv, PingInv, Pinger

\* A ping is sent, or cannot be.
LEMMA PingStep ==
  ASSUME IInv, NEW t \in Threads, NEW c \in Clients, pc[t] \in {"node", "slave"},
         mutex \in {NULL, t}, Ping(t, c)
  PROVE  IInv'
<1>1. /\ NetType /\ ThreadType /\ HistoryType /\ ThreadInv /\ ThreadOK(t) /\ t # NULL
      /\ \A u \in Threads \ {t} : pc[u] \notin Locked
      /\ ~raced => \A d \in Clients : ClientInv(d)
  BY Before, Zenon
<1>2. \A d \in Clients : ~InCall(t, d) /\ ~Pinger(t, d)
  BY Zenon DEF InCall, Pinger
<1>3. /\ mutex' = t /\ client' = [client EXCEPT ![t] = c] /\ op' = op /\ redis' = redis
      /\ taken' = taken /\ stale' = stale
      /\ pc' = [pc EXCEPT ![t] = "pong"] \/ pc' = [pc EXCEPT ![t] = AfterPing(c)]
  BY Zenon DEF Ping
<1>4. AfterPing(c) \in {"reconnect", "again"}
  BY Zenon DEF AfterPing
<1>5. /\ Others(t) /\ client'[t] = c /\ pc'[t] \in {"pong", "reconnect", "again"}
      /\ ThreadType'
  BY <1>1, <1>3, <1>4, Zenon DEF Others, ThreadType, Places
<1>6. ThreadInv'
  <2>1. ThreadOK(t)'
    BY <1>3, <1>5, Zenon DEF ThreadOK, Locked
  <2> QED BY <1>1, <1>5, <2>1, OthersOK, Zenon
<1>7. \A d \in Clients : Holds(t, d)' => Holds(t, d)
  BY <1>3, <1>5, Zenon DEF Holds
<1>8. CASE usable[c]
  <2>1. Send(t, c, <<"PING">>) /\ pc' = [pc EXCEPT ![t] = "pong"]
    BY <1>8, Zenon DEF Ping
  <2>2. <<"PING">> \in Seq({"PING"}) /\ Len(<<"PING">>) = 1 /\ {"PING"} \subseteq Command
    BY DEF Command
  <2>3. /\ NetType' /\ raced' \in BOOLEAN
        /\ \A d \in Clients \ {c} : sent'[d] = sent[d]
        /\ usable' = usable /\ unread' = unread
        /\ Len(sent'[c]) = Len(sent[c]) + 1
        /\ ~raced' => ~raced /\ \A u \in Threads \ {t} : ~InCall(u, c)
    <3> DEFINE q == <<"PING">>
               S == {"PING"}
    <3>1. S \in SUBSET Command /\ q \in Seq(S) /\ Len(q) = 1 /\ Send(t, c, q)
      BY <2>1, <2>2, Zenon
    <3> HIDE DEF q, S
    <3>2. NetType /\ HistoryType
      BY <1>1, Zenon
    <3> QED BY <3>1, <3>2, SendStep, Zenon
  <2>4. pc'[t] = "pong"
    BY <1>1, <2>1, Zenon DEF ThreadType
  <2> SUFFICES ASSUME ~raced', NEW d \in Clients PROVE ClientInv(d)'
    BY <1>1, <1>3, <1>5, <1>6, <2>3, After, Zenon DEF HistoryType
  <2>5. ClientInv(d)
    BY <1>1, <2>3, Zenon
  <2>6. CASE d # c
    <3>1. ~InCall(t, d)'
      BY <1>5, <2>4, <2>6, Zenon DEF InCall
    <3>2. usable'[d] = usable[d] /\ sent'[d] = sent[d] /\ unread'[d] = unread[d]
      BY <2>3, <2>6, Zenon
    <3> QED BY <1>2, <1>3, <1>5, <1>7, <2>5, <3>1, <3>2, Frame, Zenon
  <2>7. CASE d = c
    <3>1. ClientInv(c)
      BY <2>5, <2>7, Zenon
    <3>2. \A u \in Threads \ {t} : ~InCall(u, c)'
      BY <1>5, <2>3, Zenon DEF Others, InCall
    <3>3. InCall(t, c)'
      BY <1>5, <2>4, Zenon DEF InCall
    <3>4. NoPing(unread[c]) /\ NoPing(sent[c])
      <4>1. \A u \in Threads : pc[u] \notin {"pong", "reconnect", "again"}
        BY <1>1, Zenon DEF Locked
      <4> QED BY <3>1, <4>1, Unpinged, Zenon
    <3>5. PingInv(c)'
      <4>1. PongsAnswerPings(unread'[c])
        BY <2>3, <3>1, Zenon DEF ClientInv, PingInv
      <4>2. Pinger(t, c)'
        BY <1>5, Zenon DEF Pinger
      <4>3. PingLast(unread'[c], sent'[c])
        <5>1. sent'[c] = Append(sent[c], <<t, "PING">>)
          <6>1. sent'[c] = sent[c] \o [i \in DOMAIN <<"PING">> |-> <<t, <<"PING">>[i]>>]
            BY <1>1, <2>1, Zenon DEF Send, NetType
          <6>2. [i \in DOMAIN <<"PING">> |-> <<t, <<"PING">>[i]>>] = << <<t, "PING">> >>
            OBVIOUS
          <6>3. sent[c] \in Seq(Threads \X Command)
            BY <1>1, Zenon DEF NetType
          <6>4. sent[c] \o << <<t, "PING">> >> = Append(sent[c], <<t, "PING">>)
            BY <6>3
          <6> QED BY <6>1, <6>2, <6>4, Zenon
        <5>2. <<t, "PING">> \in Threads \X Command
          BY Zenon DEF Command
        <5> QED BY <1>1, <2>3, <3>4, <5>1, <5>2, ClientType, PingSent
      <4> QED BY <4>1, <4>2, <4>3, Zenon DEF PingInv
    <3>6. CallInv(c)'
      BY <1>8, <2>3, <3>2, Zenon DEF CallInv
    <3>7. PingAlone(c)'
      <4> SUFFICES ASSUME NEW u \in Threads, Fresh(u, c)'
                   PROVE  Len(unread'[c]) + Len(sent'[c]) = 1
        BY Zenon DEF PingAlone
      <4>1. Fresh(u, c)
        BY <1>3, <1>5, <1>7, Zenon DEF Fresh, Others, Holds
      <4>2. OnTheWire(c) = {}
        BY <1>2, <2>3, <3>1, <4>1, Zenon DEF ClientInv, Clean
      <4>3. sent[c] = <<>> /\ unread[c] = <<>>
        BY <1>1, <4>2, ClientType, EntriesEmpty, Zenon DEF OnTheWire
      <4> QED BY <2>3, <4>3
    <3>8. Own(c)' /\ Clean(c)'
      BY <2>4, <3>2, <3>3, Zenon DEF Own, Clean
    <3> QED BY <2>7, <3>5, <3>6, <3>7, <3>8, Zenon DEF ClientInv
  <2> QED BY <2>6, <2>7, Zenon
<1>9. CASE ~usable[c]
  <2>1. net' = net /\ raced' = raced /\ pc' = [pc EXCEPT ![t] = AfterPing(c)]
    BY <1>9, Zenon DEF Ping
  <2>2. pc'[t] \in {"reconnect", "again"}
    BY <1>1, <1>4, <2>1, Zenon DEF ThreadType
  <2>3. \A d \in Clients : ~InCall(t, d)'
    BY <2>2, Zenon DEF InCall
  <2>4. usable' = usable /\ sent' = sent /\ unread' = unread
    BY <2>1, Zenon DEF net
  <2>5. NetType' /\ HistoryType'
    BY <1>1, <1>3, <2>1, <2>4, Zenon DEF NetType, HistoryType
  <2>6. ASSUME ~raced', NEW d \in Clients PROVE ClientInv(d)'
    BY <1>1, <1>2, <1>3, <1>5, <1>7, <2>1, <2>3, <2>4, <2>6, Frame, Zenon
  <2> QED BY <1>5, <1>6, <2>5, <2>6, After, Zenon
<1> QED BY <1>8, <1>9, Zenon

\* The ping is answered, as it should be or not, or not at all.
LEMMA PongStep ==
  ASSUME IInv, NEW t \in Threads, Pong(t)
  PROVE  IInv'
<1>1. /\ NetType /\ ThreadType /\ HistoryType /\ ThreadInv /\ ThreadOK(t) /\ t # NULL
      /\ \A u \in Threads \ {t} : mutex \in {NULL, t} => pc[u] \notin Locked
      /\ ~raced => \A d \in Clients : ClientInv(d)
  BY Before, Zenon
<1>2. pc[t] = "pong" /\ raced' = raced
  BY Zenon DEF Pong
<1>3. mutex = t /\ client[t] \in Clients
  BY <1>1, <1>2, Zenon DEF ThreadOK, Locked
<1> PICK c \in Clients : c = client[t]
  BY <1>3, Zenon
<1>4. /\ \A u \in Threads \ {t} : pc[u] \notin Locked
      /\ InCall(t, c) /\ \A d \in Clients \ {c} : ~InCall(t, d) /\ ~Pinger(t, d)
  BY <1>1, <1>2, <1>3, Zenon DEF InCall, Pinger
<1>5. ASSUME Take(c), IsPong(Head(unread[c])), HandOut(t, c), stale' = stale \ {<<t, c>>}
      PROVE  IInv'
  <2>1. /\ NetType' /\ usable' = usable /\ sent' = sent
        /\ \A d \in Clients \ {c} : unread'[d] = unread[d]
        /\ unread[c] # <<>> /\ unread'[c] = Tail(unread[c])
    BY <1>1, <1>3, <1>5, TakeStep, Zenon
  <2>2. /\ ThreadType' /\ Others(t) /\ ThreadOK(t)'
        /\ pc'[t] \in {"lock", "set", "node"} /\ client'[t] = c
        /\ redis'[t] = redis[t] \/ (redis[t] = NULL /\ redis'[t] = c)
    BY <1>1, <1>2, <1>3, <1>5, HandOutStep, Zenon
  <2>3. ThreadInv'
    BY <1>1, <1>3, <2>2, OthersOK, Zenon
  <2>4. \A d \in Clients : ~InCall(t, d)'
    BY <2>2, Zenon DEF InCall
  <2> SUFFICES ASSUME ~raced, NEW d \in Clients PROVE ClientInv(d)'
    BY <1>1, <1>2, <1>5, <2>1, <2>2, <2>3, After, Zenon DEF HistoryType
  <2>5. ClientInv(d) /\ ClientInv(c)
    BY <1>1, <1>3, Zenon
  <2>6. CASE d # c
    <3>1. Holds(t, d)' => Holds(t, d)
      BY <1>2, <2>2, <2>6, Zenon DEF Holds
    <3>2. \A u \in Threads : <<u, d>> \in stale => <<u, d>> \in stale'
      BY <1>5, <2>6, Zenon
    <3> QED BY <1>4, <2>1, <2>2, <2>4, <2>5, <2>6, <3>1, <3>2, Frame, Zenon
  <2>7. CASE d = c
    <3>1. PingLast(unread[c], sent[c]) /\ PongsAnswerPings(unread[c])
      BY <1>2, <2>5, Zenon DEF ClientInv, PingInv
    <3>2. Head(unread[c])[2] = "PING"
      <4>0. unread[c] \in Seq(Threads \X Command \X Kinds) /\ unread[c] # <<>>
        BY <1>1, <2>1, ClientType, Zenon
      <4>1. 1 \in DOMAIN unread[c] /\ Head(unread[c]) = unread[c][1]
        BY <4>0
      <4> QED BY <1>5, <3>1, <4>1, Zenon DEF PongsAnswerPings, IsPong
    <3>3. sent'[c] = <<>> /\ unread'[c] = <<>>
      BY <1>1, <1>3, <2>1, <3>1, <3>2, ClientType, PingTaken
    <3>4. \A u \in Threads : ~InCall(u, c)'
      BY <1>4, <2>2, <2>4, <2>5, <1>3, ZenonT(30) DEF ClientInv, CallInv, Others, InCall
    <3> QED BY <1>3, <2>7, <3>3, <3>4, Idle, Zenon
  <2> QED BY <2>6, <2>7, Zenon
<1>6. ASSUME Take(c) \/ Fail(c), Goto(t, AfterPing(c)), mutex' = mutex, stale' = stale
      PROVE  IInv'
  <2>1. AfterPing(c) \in Places /\ AfterPing(c) \in {"reconnect", "again"}
    BY Zenon DEF AfterPing, Places
  <2>2. /\ ThreadType' /\ Others(t) /\ pc'[t] \in {"reconnect", "again"}
        /\ op' = op /\ client' = client /\ redis' = redis
    BY <1>1, <1>6, <2>1, GotoStep, Zenon DEF ThreadType
  <2>3. ThreadInv'
    <3>1. ThreadOK(t)'
      BY <1>3, <1>6, <2>2, Zenon DEF ThreadOK, Locked
    <3> QED BY <1>1, <1>3, <2>2, <3>1, OthersOK, Zenon
  <2>4. \A d \in Clients : ~InCall(t, d)' /\ (Holds(t, d)' => Holds(t, d))
    BY <1>2, <2>2, Zenon DEF InCall, Holds
  <2>5. /\ NetType'
        /\ \A d \in Clients \ {c} :
             usable'[d] = usable[d] /\ sent'[d] = sent[d] /\ unread'[d] = unread[d]
    BY <1>1, <1>3, <1>6, TakeStep, FailStep, Zenon
  <2> SUFFICES ASSUME ~raced, NEW d \in Clients PROVE ClientInv(d)'
    BY <1>1, <1>2, <1>6, <2>2, <2>3, <2>5, After, Zenon DEF HistoryType
  <2>6. ClientInv(d) /\ ClientInv(c)
    BY <1>1, <1>3, Zenon
  <2>7. CASE d # c
    BY <1>4, <1>6, <2>2, <2>4, <2>5, <2>6, <2>7, Frame, Zenon
  <2>8. \A u \in Threads : ~InCall(u, c)'
    BY <1>3, <1>4, <2>2, <2>4, <2>6, Zenon DEF ClientInv, CallInv, Others, InCall
  <2>9. CASE d = c /\ Fail(c)
    <3>1. usable[c]
      BY <1>4, <2>6, Zenon DEF ClientInv, CallInv
    <3>2. sent'[c] = <<>> /\ unread'[c] = <<>>
      BY <1>1, <1>3, <2>9, <3>1, FailStep, Zenon
    <3> QED BY <1>3, <2>8, <2>9, <3>2, Idle, Zenon
  <2>10. CASE d = c /\ Take(c)
    <3>1. /\ sent' = sent /\ usable' = usable /\ unread[c] # <<>>
          /\ Len(unread'[c]) = Len(unread[c]) - 1
          /\ PongsAnswerPings(unread[c]) => PongsAnswerPings(unread'[c])
      BY <1>1, <1>3, <2>10, TakeStep, Zenon
    <3>2. \A u \in Threads : ~(pc'[u] = "pong" /\ client'[u] = c)
      BY <2>8, Zenon DEF InCall
    <3>3. Pinger(t, c)'
      BY <2>2, Zenon DEF Pinger
    <3>4. PingInv(c)' /\ CallInv(c)' /\ PingAlone(c)' /\ Own(c)'
      BY <2>6, <2>8, <3>1, <3>2, <3>3, Zenon DEF ClientInv, PingInv, CallInv, PingAlone, Own
    <3>5. Clean(c)'
      <4> SUFFICES ASSUME NEW u \in Threads, Fresh(u, c)' PROVE OnTheWire(c)' = {}
        BY Zenon DEF Clean
      <4>1. Fresh(u, c)
        BY <1>3, <1>6, <2>2, <2>4, Zenon DEF Fresh, Others, Holds
      <4>2. Len(unread[c]) + Len(sent[c]) = 1
        BY <1>2, <2>6, <4>1, Zenon DEF ClientInv, PingAlone
      <4>3. /\ Len(unread[c]) \in Nat /\ Len(sent[c]) \in Nat /\ Len(unread[c]) > 0
            /\ unread'[c] \in Seq(Threads \X Command \X Kinds) /\ Len(unread'[c]) = Len(unread[c]) - 1
            /\ sent'[c] \in Seq(Threads \X Command) /\ Len(sent'[c]) = Len(sent[c])
        BY <1>1, <1>3, <2>5, <3>1, ClientType, SeqFacts, Zenon DEF NetType
      <4>4. Len(unread'[c]) = 0 /\ Len(sent'[c]) = 0
        <5>1. \A i, j \in Nat : i > 0 /\ i + j = 1 => i - 1 = 0 /\ j = 0
          OBVIOUS
        <5> QED BY <4>2, <4>3, <5>1, Zenon
      <4>5. unread'[c] = <<>> /\ sent'[c] = <<>>
        BY <4>3, <4>4, SeqFacts, Zenon
      <4> QED BY <4>5, EmptyWire, Zenon
    <3> QED BY <2>10, <3>4, <3>5, Zenon DEF ClientInv
  <2> QED BY <1>6, <2>7, <2>9, <2>10, Zenon
<1> QED BY <1>5, <1>6, Zenon DEF Pong

\* Nobody is in a call on c when the only one that was has left it.
LEMMA NobodyLeft ==
  ASSUME NEW t \in Threads, NEW c \in Clients, Others(t), ~InCall(t, c)',
         \A u \in Threads \ {t} : ~InCall(u, c)
  PROVE  \A u \in Threads : ~InCall(u, c)'
BY Zenon DEF Others, InCall

\* A reconnection.
LEMMA TryReconnectStep ==
  ASSUME IInv, NEW t \in Threads, TryReconnect(t)
  PROVE  IInv'
<1>1. /\ NetType /\ ThreadType /\ HistoryType /\ ThreadInv /\ ThreadOK(t) /\ t # NULL
      /\ ~raced => \A d \in Clients : ClientInv(d)
  BY Before, Zenon
<1>2. pc[t] \in {"reconnect", "again"}
  BY Zenon DEF TryReconnect
<1>3. mutex = t /\ client[t] \in Clients
  BY <1>1, <1>2, Zenon DEF ThreadOK, Locked
<1> PICK c \in Clients : c = client[t]
  BY <1>3, Zenon
<1>4. PICK b \in BOOLEAN : Reconnect(t, c, b)
  BY Zenon DEF TryReconnect
<1>5. /\ NetType' /\ HistoryType'
      /\ \A d \in Clients \ {c} :
           usable'[d] = usable[d] /\ sent'[d] = sent[d] /\ unread'[d] = unread[d]
      /\ sent'[c] = <<>> /\ unread'[c] = <<>>
      /\ ~raced' => ~raced /\ \A u \in Threads \ {t} : ~InCall(u, c)
      /\ \A u \in Threads, d \in Clients \ {c} : <<u, d>> \in stale => <<u, d>> \in stale'
  BY <1>1, <1>4, ReconnectStep
<1>6. /\ ThreadType' /\ Others(t) /\ ThreadOK(t)'
      /\ \A d \in Clients : ~InCall(t, d)'
      /\ \A d \in Clients \ {c} : Holds(t, d)' => Holds(t, d)
  <2>1. CASE HandOut(t, c)
    <3>1. /\ ThreadType' /\ Others(t) /\ ThreadOK(t)'
          /\ pc'[t] \in {"lock", "set", "node"} /\ client'[t] = c
          /\ redis'[t] = redis[t] \/ (redis[t] = NULL /\ redis'[t] = c)
      BY <1>1, <1>2, <2>1, HandOutStep, Zenon
    <3> QED BY <1>2, <3>1, Zenon DEF InCall, Holds
  <2>2. CASE /\ pc[t] = "reconnect" /\ mutex' = mutex
             /\ Goto(t, IF is_open_slave THEN "slave" ELSE "again")
    <3>1. PICK w \in {"slave", "again"} : Goto(t, w)
      BY <2>2, Zenon
    <3>2. /\ ThreadType' /\ Others(t) /\ pc'[t] = w
          /\ op' = op /\ client' = client /\ redis' = redis
      BY <1>1, <1>3, <2>2, <3>1, GotoStep, Zenon DEF Places
    <3>3. ThreadOK(t)'
      BY <1>3, <2>2, <3>2, Zenon DEF ThreadOK, Locked
    <3> QED BY <1>2, <3>2, <3>3, Zenon DEF InCall, Holds
  <2>3. CASE Return(t) /\ Unlock
    <3>1. /\ ThreadType' /\ Others(t) /\ pc'[t] = "idle" /\ redis'[t] = NULL /\ ThreadOK(t)'
      BY <1>1, <2>3, ReturnStep, Zenon DEF Unlock
    <3> QED BY <3>1, Zenon DEF InCall, Holds
  <2> QED BY <2>1, <2>2, <2>3, Zenon DEF TryReconnect
<1>7. ThreadInv'
  BY <1>1, <1>3, <1>6, OthersOK, Zenon
<1>8. ASSUME ~raced', NEW d \in Clients PROVE ClientInv(d)'
  <2>1. CASE d # c
    <3>1. ~InCall(t, d) /\ ~Pinger(t, d)
      BY <1>2, <2>1, Zenon DEF InCall, Pinger
    <3> QED BY <1>1, <1>5, <1>6, <1>8, <2>1, <3>1, Frame, Zenon
  <2>2. CASE d = c
    <3>1. \A u \in Threads : ~InCall(u, c)'
      BY <1>5, <1>6, <1>8, NobodyLeft, Zenon
    <3> QED BY <1>5, <2>2, <3>1, Idle, Zenon
  <2> QED BY <2>1, <2>2, Zenon
<1> QED BY <1>5, <1>6, <1>7, <1>8, After, Zenon

-----------------------------------------------------------------------------
\* A call on c begins: t holds c and nobody else is in a call on it.
LEMMA CallBegins ==
  ASSUME NEW t \in Threads, NEW c \in Clients, NetType, ClientInv(c), usable[c],
         NEW S, "PING" \notin S,
         usable' = usable, unread' = unread,
         Entries(sent'[c]) \subseteq Entries(sent[c]) \union ({t} \X S),
         NoPing(sent[c]) => NoPing(sent'[c]),
         Others(t), stale' = stale, Holds(t, c), ~InCall(t, c), ~Pinger(t, c), InCall(t, c)',
         pc'[t] # "pong", S \subseteq OwnCommands(t)',
         \A u \in Threads \ {t} : ~InCall(u, c)
  PROVE  ClientInv(c)'
<1>1. \A u \in Threads \ {t} : ~InCall(u, c)'
  BY Zenon DEF Others, InCall
<1>2. \A u \in Threads : ~(pc'[u] = "pong" /\ client'[u] = c)
  BY <1>1, Zenon DEF InCall
<1>3. \A u \in Threads : Pinger(u, c) => Pinger(u, c)'
  BY Zenon DEF Pinger, Others
<1>4. PingInv(c)' /\ CallInv(c)' /\ PingAlone(c)' /\ Clean(c)'
  BY <1>1, <1>2, <1>3, Zenon DEF ClientInv, PingInv, CallInv, PingAlone, Clean
<1>5. Own(c)'
  <2> SUFFICES ASSUME <<t, c>> \notin stale PROVE OnTheWire(c)' \subseteq {t} \X OwnCommands(t)'
    BY <1>1, Zenon DEF Own
  <2>1. OnTheWire(c) = {}
    BY Zenon DEF ClientInv, Clean, Fresh
  <2> QED BY <2>1, Zenon DEF OnTheWire
<1> QED BY <1>4, <1>5, Zenon DEF ClientInv

\* The call of t on c takes its last reply.
LEMMA CallEnds ==
  ASSUME NEW t \in Threads, NEW c \in Clients, NetType, ClientInv(c), Take(c), Leave(c),
         Others(t), InCall(t, c), ~InCall(t, c)', ~Pinger(t, c), Holds(t, c)' => Holds(t, c)
  PROVE  ClientInv(c)'
<1>1. /\ NetType' /\ usable' = usable /\ sent' = sent
      /\ NoPing(unread[c]) => NoPing(unread'[c])
      /\ PongsAnswerPings(unread[c]) => PongsAnswerPings(unread'[c])
  BY TakeStep, Zenon
<1>2. \A u \in Threads : ~InCall(u, c)'
  BY NobodyLeft, Zenon DEF ClientInv, CallInv
<1>3. \A u \in Threads : ~(pc'[u] = "pong" /\ client'[u] = c)
  BY <1>2, Zenon DEF InCall
<1>4. \A u \in Threads : /\ Pinger(u, c) => Pinger(u, c)'
                         /\ Holds(u, c)' => Holds(u, c)
  <2> TAKE u \in Threads
  <2>1. CASE u = t
    BY <2>1, Zenon
  <2>2. CASE u # t
    BY <2>2, Zenon DEF Pinger, Others, Holds
  <2> QED BY <2>1, <2>2, Zenon
<1>5. PingInv(c)' /\ CallInv(c)' /\ PingAlone(c)' /\ Own(c)'
  BY <1>1, <1>2, <1>3, <1>4, Zenon DEF ClientInv, PingInv, CallInv, PingAlone, Own
<1>6. Clean(c)'
  <2> SUFFICES ASSUME NEW u \in Threads, Fresh(u, c)' PROVE OnTheWire(c)' = {}
    BY Zenon DEF Clean
  <2>1. Holds(u, c) /\ <<u, c>> \notin stale'
    BY <1>4, Zenon DEF Fresh
  <2>2. sent[c] = <<>> /\ unread'[c] = <<>>
    BY <2>1, Zenon DEF Leave
  <2> QED BY <1>1, <2>2, EmptyWire, Zenon
<1> QED BY <1>5, <1>6, Zenon DEF ClientInv

\* t leaves without having used the connection.
LEMMA LeaveUnused ==
  ASSUME IInv, NEW t \in Threads, pc[t] \in {"lock", "set"}, Return(t),
         net' = net, mutex' = mutex, raced' = raced, stale' = stale
  PROVE  IInv'
<1>1. /\ NetType /\ ThreadType /\ HistoryType /\ ThreadInv
      /\ ~raced => \A d \in Clients : ClientInv(d)
  BY Before, Zenon
<1>2. ThreadType' /\ Others(t) /\ pc'[t] = "idle" /\ redis'[t] = NULL /\ ThreadOK(t)'
  BY <1>1, ReturnStep, Zenon DEF ThreadType
<1>3. usable' = usable /\ sent' = sent /\ unread' = unread
  BY Zenon DEF net
<1>4. NetType' /\ HistoryType' /\ ThreadInv'
  BY <1>1, <1>2, <1>3, OthersOK, Zenon DEF NetType, HistoryType
<1>5. ASSUME ~raced', NEW d \in Clients PROVE ClientInv(d)'
  <2>1. ~InCall(t, d) /\ ~InCall(t, d)' /\ ~Holds(t, d)' /\ ~Pinger(t, d)
    BY <1>2, Zenon DEF InCall, Holds, Pinger
  <2> QED BY <1>1, <1>2, <1>3, <1>5, <2>1, Frame, Zenon
<1> QED BY <1>2, <1>4, <1>5, After, Zenon

\* The commands of GetUserProfile or of a Multi operation are sent, or cannot be.
LEMMA UseStep ==
  ASSUME IInv, NEW t \in Threads, Use(t)
  PROVE  IInv'
<1>1. /\ NetType /\ ThreadType /\ HistoryType /\ ThreadInv /\ ThreadOK(t) /\ t # NULL
      /\ ~raced => \A d \in Clients : ClientInv(d)
  BY Before, Zenon
<1>2. pc[t] = "lock" /\ mutex = NULL /\ stale' = stale
  BY Zenon DEF Use
<1>3. client[t] \in Clients
  BY <1>1, <1>2, Zenon DEF ThreadOK
<1> PICK c \in Clients : c = client[t]
  BY <1>3, Zenon
<1>4. CASE ~usable[c]
  BY <1>2, <1>4, LeaveUnused, Zenon DEF Use
<1>5. CASE usable[c]
  <2> PICK S : S = OpCommands(op[t])
    BY Zenon
  <2> PICK q : q = Commands(op[t])
    BY Zenon
  <2>1. Send(t, c, q) /\ Goto(t, "reply") /\ mutex' = t
    BY <1>5, Zenon DEF Use
  <2>2. S \in SUBSET Command /\ q \in Seq(S) /\ "PING" \notin S
    BY CommandsFacts, Zenon DEF OpCommands, Command
  <2>3. /\ NetType' /\ raced' \in BOOLEAN
        /\ \A d \in Clients \ {c} : sent'[d] = sent[d]
        /\ usable' = usable /\ unread' = unread
        /\ Entries(sent'[c]) \subseteq Entries(sent[c]) \union ({t} \X S)
        /\ NoPing(sent[c]) /\ "PING" \notin S => NoPing(sent'[c])
        /\ ~raced' => ~raced /\ \A u \in Threads \ {t} : ~InCall(u, c)
    <3>1. NetType /\ HistoryType
      BY <1>1, Zenon
    <3> QED BY <2>1, <2>2, <3>1, SendStep, Zenon
  <2>4. /\ ThreadType' /\ Others(t) /\ pc'[t] = "reply"
        /\ op' = op /\ client' = client /\ redis' = redis
    BY <1>1, <2>1, GotoStep, Zenon DEF Places
  <2>5. ThreadInv'
    <3>1. ThreadOK(t)'
      BY <1>1, <1>2, <2>1, <2>4, Zenon DEF ThreadOK
    <3> QED BY <1>1, <1>2, <2>4, <3>1, OthersOK, Zenon
  <2>6. ASSUME ~raced', NEW d \in Clients PROVE ClientInv(d)'
    <3>1. ClientInv(d) /\ ~InCall(t, d) /\ ~Pinger(t, d)
      BY <1>1, <1>2, <2>3, <2>6, Zenon DEF InCall, Pinger
    <3>2. CASE d # c
      <4>1. ~InCall(t, d)' /\ (Holds(t, d)' => Holds(t, d))
        BY <1>2, <2>4, <3>2, Zenon DEF InCall, Holds
      <4> QED BY <1>2, <2>3, <2>4, <3>1, <3>2, <4>1, Frame, Zenon
    <3>3. CASE d = c
      <4>1. InCall(t, c)' /\ Holds(t, c) /\ pc'[t] # "pong"
        BY <1>2, <2>4, Zenon DEF InCall, Holds
      <4>2. S \subseteq OwnCommands(t)'
        BY <2>4, Zenon DEF OwnCommands, OpCommands
      <4> QED BY <1>1, <1>2, <1>5, <2>2, <2>3, <2>4, <2>6, <3>1, <3>3, <4>1, <4>2, CallBegins, Zenon
    <3> QED BY <3>2, <3>3, Zenon
  <2> QED BY <1>1, <1>2, <2>3, <2>4, <2>5, <2>6, After, Zenon DEF HistoryType
<1> QED BY <1>4, <1>5, Zenon

\* SetToRedis sends, or cannot.
LEMMA SetStep ==
  ASSUME IInv, NEW t \in Threads, Set(t)
  PROVE  IInv'
<1>1. /\ NetType /\ ThreadType /\ HistoryType /\ ThreadInv /\ ThreadOK(t) /\ t # NULL
      /\ ~raced => \A d \in Clients : ClientInv(d)
  BY Before, Zenon
<1>2. pc[t] = "set" /\ mutex' = mutex /\ stale' = stale
  BY Zenon DEF Set
<1>3. redis[t] \in Clients
  BY <1>1, <1>2, Zenon DEF ThreadOK
<1> PICK c \in Clients : c = redis[t]
  BY <1>3, Zenon
<1>4. CASE ~usable[c]
  BY <1>2, <1>4, LeaveUnused, Zenon DEF Set
<1>5. CASE usable[c]
  <2> PICK S : S = {"SET"}
    BY Zenon
  <2> PICK q : q = <<"SET">>
    BY Zenon
  <2>1. Send(t, c, q) /\ Goto(t, "stored")
    BY <1>5, Zenon DEF Set
  <2>2. S \in SUBSET Command /\ q \in Seq(S) /\ "PING" \notin S
    BY DEF Command
  <2>3. /\ NetType' /\ raced' \in BOOLEAN
        /\ \A d \in Clients \ {c} : sent'[d] = sent[d]
        /\ usable' = usable /\ unread' = unread
        /\ Entries(sent'[c]) \subseteq Entries(sent[c]) \union ({t} \X S)
        /\ NoPing(sent[c]) /\ "PING" \notin S => NoPing(sent'[c])
        /\ ~raced' => ~raced /\ \A u \in Threads \ {t} : ~InCall(u, c)
    <3>1. NetType /\ HistoryType
      BY <1>1, Zenon
    <3> QED BY <2>1, <2>2, <3>1, SendStep, Zenon
  <2>4. /\ ThreadType' /\ Others(t) /\ pc'[t] = "stored"
        /\ op' = op /\ client' = client /\ redis' = redis
    BY <1>1, <1>2, <2>1, GotoStep, Zenon DEF Places, ThreadType
  <2>5. ThreadInv'
    <3>1. ThreadOK(t)'
      BY <1>3, <2>4, Zenon DEF ThreadOK, Locked
    <3> QED BY <1>1, <1>2, <2>4, <3>1, OthersOK, Zenon
  <2>6. ASSUME ~raced', NEW d \in Clients PROVE ClientInv(d)'
    <3>1. ClientInv(d) /\ ~InCall(t, d) /\ ~Pinger(t, d)
      BY <1>1, <1>2, <2>3, <2>6, Zenon DEF InCall, Pinger
    <3>2. CASE d # c
      <4>1. ~InCall(t, d)' /\ (Holds(t, d)' => Holds(t, d))
        BY <1>2, <2>4, <3>2, Zenon DEF InCall, Holds
      <4> QED BY <1>2, <2>3, <2>4, <3>1, <3>2, <4>1, Frame, Zenon
    <3>3. CASE d = c
      <4>1. InCall(t, c)' /\ Holds(t, c) /\ pc'[t] # "pong"
        BY <1>2, <2>4, Zenon DEF InCall, Holds
      <4>2. S \subseteq OwnCommands(t)'
        BY <2>4, Zenon DEF OwnCommands
      <4> QED BY <1>1, <1>2, <1>5, <2>2, <2>3, <2>4, <2>6, <3>1, <3>3, <4>1, <4>2, CallBegins, Zenon
    <3> QED BY <3>2, <3>3, Zenon
  <2> QED BY <1>1, <1>2, <2>3, <2>4, <2>5, <2>6, After, Zenon DEF HistoryType
<1> QED BY <1>4, <1>5, Zenon

\* A reply is taken and another one is wanted.
LEMMA ReplyMore ==
  ASSUME IInv, NEW t \in Threads, NEW c \in Clients, c = client[t], pc[t] = "reply",
         Take(c), raced' = raced, taken[t] \in 0 .. Batch,
         taken' = [taken EXCEPT ![t] = @ + 1],
         UNCHANGED <<mutex, pc, op, client, redis, stale>>
  PROVE  IInv'
<1>1. /\ NetType /\ ThreadType /\ HistoryType /\ ThreadInv /\ ThreadOK(t) /\ t # NULL
      /\ \A u \in Threads \ {t} : mutex \in {NULL, t} => pc[u] \notin Locked
      /\ ~raced => \A d \in Clients : ClientInv(d)
  BY Before, Zenon
<1>2. /\ NetType' /\ usable' = usable /\ sent' = sent
      /\ \A d \in Clients \ {c} : unread'[d] = unread[d]
      /\ Entries(unread'[c]) \subseteq Entries(unread[c])
      /\ NoPing(unread[c]) => NoPing(unread'[c])
      /\ PongsAnswerPings(unread[c]) => PongsAnswerPings(unread'[c])
  BY <1>1, TakeStep, Zenon
<1>3. taken[t] + 1 \in 0 .. Batch + 1
  BY ConstantsAssumption
<1>4. ThreadType' /\ HistoryType' /\ ThreadInv' /\ Others(t)
  BY <1>1, <1>3, Zenon DEF ThreadType, HistoryType, ThreadInv, ThreadOK, Others
<1>5. ASSUME ~raced', NEW d \in Clients PROVE ClientInv(d)'
  <2>1. ClientInv(d) /\ ClientInv(c)
    BY <1>1, <1>5, Zenon
  <2>2. CASE d # c
    <3>1. ~InCall(t, d) /\ ~InCall(t, d)' /\ (Holds(t, d)' => Holds(t, d)) /\ ~Pinger(t, d)
      BY <2>2, Zenon DEF InCall, Holds, Pinger
    <3> QED BY <1>2, <1>4, <2>1, <2>2, <3>1, Frame, Zenon
  <2>3. CASE d = c
    <3>1. InCall(t, c) /\ mutex = t
      BY <1>1, Zenon DEF InCall, ThreadOK, Locked
    <3>2. \A u \in Threads \ {t} : ~InCall(u, c)
      BY <2>1, <3>1, Zenon DEF ClientInv, CallInv
    <3>3. \A u \in Threads : ~(pc[u] = "pong" /\ client[u] = c)
      BY <3>2, Zenon DEF InCall
    <3>4. \A u \in Threads :
            (InCall(u, c)' <=> InCall(u, c)) /\ OwnCommands(u)' = OwnCommands(u)
            /\ (Pinger(u, c) => Pinger(u, c)')
      BY Zenon DEF InCall, OwnCommands, Pinger
    <3>5. PingInv(c)'
      BY <1>2, <2>1, <3>3, <3>4, Zenon DEF ClientInv, PingInv
    <3>6. CallInv(c)' /\ PingAlone(c)' /\ Clean(c)'
      BY <1>2, <2>1, <3>1, <3>3, <3>4, Zenon DEF ClientInv, CallInv, PingAlone, Clean
    <3>7. OnTheWire(c)' \subseteq OnTheWire(c)
      BY <1>2, Zenon DEF OnTheWire
    <3>8. Own(c)'
      BY <2>1, <3>4, <3>7, Zenon DEF ClientInv, Own
    <3> QED BY <2>3, <3>5, <3>6, <3>8, Zenon DEF ClientInv
  <2> QED BY <2>2, <2>3, Zenon
<1> QED BY <1>2, <1>4, <1>5, After, Zenon

\* The call of t on c ends, with a reply or without one: t returns or goes on to
\* SetToRedis.
LEMMA EndStep ==
  ASSUME IInv, NEW t \in Threads, NEW c \in Clients, InCall(t, c), pc[t] \in {"reply", "stored"},
         (Take(c) /\ Leave(c)) \/ (Fail(c) /\ stale' = stale), raced' = raced,
         mutex' = mutex \/ (pc[t] = "reply" /\ mutex' = NULL),
         Return(t) \/ (pc[t] = "reply" /\ op[t] = "increment" /\ mutex' = NULL /\ Goto(t, "set"))
  PROVE  IInv'
<1>1. /\ NetType /\ ThreadType /\ HistoryType /\ ThreadInv /\ ThreadOK(t) /\ t # NULL
      /\ ~raced => \A d \in Clients : ClientInv(d)
  BY Before, Zenon
<1>2. mutex = NULL \/ mutex = t \/ mutex' = mutex
  BY <1>1, Zenon DEF ThreadOK, Locked
<1>3. /\ ThreadType' /\ Others(t) /\ ThreadOK(t)'
      /\ \A d \in Clients : ~InCall(t, d)' /\ (Holds(t, d)' => Holds(t, d))
  <2>0. mutex' \in Threads \union {NULL}
    BY <1>1, Zenon DEF ThreadType
  <2>1. CASE Return(t)
    <3>1. ThreadType' /\ Others(t) /\ pc'[t] = "idle" /\ redis'[t] = NULL /\ ThreadOK(t)'
      BY <1>1, <2>0, <2>1, ReturnStep, Zenon
    <3> QED BY <3>1, Zenon DEF InCall, Holds
  <2>2. CASE pc[t] = "reply" /\ op[t] = "increment" /\ Goto(t, "set")
    <3>1. /\ ThreadType' /\ Others(t) /\ pc'[t] = "set"
          /\ op' = op /\ client' = client /\ redis' = redis
      BY <1>1, <2>0, <2>2, GotoStep, Zenon DEF Places
    <3>2. ThreadOK(t)'
      BY <1>1, <2>2, <3>1, Zenon DEF ThreadOK, Locked
    <3> QED BY <2>2, <3>1, <3>2, Zenon DEF InCall, Holds
  <2> QED BY <2>1, <2>2, Zenon
<1>4. ThreadInv'
  BY <1>1, <1>2, <1>3, OthersOK, Zenon
<1>5. /\ NetType'
      /\ \A d \in Clients \ {c} :
           usable'[d] = usable[d] /\ sent'[d] = sent[d] /\ unread'[d] = unread[d]
  BY <1>1, TakeStep, FailStep, Zenon
<1>6. /\ stale' \subseteq Threads \X Clients
      /\ \A u \in Threads, d \in Clients : <<u, d>> \in stale => <<u, d>> \in stale'
  <2>1. stale \subseteq Threads \X Clients
    BY <1>1, Zenon DEF HistoryType
  <2> DEFINE S == {<<u, c>> : u \in {v \in Threads : Holds(v, c)}}
  <2>2. stale' = stale \/ stale' = stale \union S
    BY Zenon DEF Leave
  <2>3. S \subseteq Threads \X Clients
    OBVIOUS
  <2> HIDE DEF S
  <2> QED BY <2>1, <2>2, <2>3, Zenon
<1>7. \A d \in Clients : ~Pinger(t, d) /\ (d # c => ~InCall(t, d))
  BY Zenon DEF Pinger, InCall
<1>8. ASSUME ~raced', NEW d \in Clients PROVE ClientInv(d)'
  <2>1. ClientInv(d) /\ ClientInv(c)
    BY <1>1, <1>8, Zenon
  <2>2. CASE d # c
    BY <1>3, <1>5, <1>6, <1>7, <2>1, <2>2, Frame, Zenon
  <2>3. CASE d = c /\ Take(c) /\ Leave(c)
    BY <1>1, <1>3, <1>7, <2>1, <2>3, CallEnds, Zenon
  <2>4. CASE d = c /\ Fail(c)
    <3>1. usable[c] /\ \A u \in Threads \ {t} : ~InCall(u, c)
      BY <2>1, Zenon DEF ClientInv, CallInv
    <3>2. sent'[c] = <<>> /\ unread'[c] = <<>>
      BY <1>1, <2>4, <3>1, FailStep, Zenon
    <3>3. \A u \in Threads : ~InCall(u, c)'
      BY <1>3, <3>1, NobodyLeft, Zenon
    <3> QED BY <2>4, <3>2, <3>3, Idle, Zenon
  <2> QED BY <2>2, <2>3, <2>4, Zenon
<1> QED BY <1>1, <1>3, <1>4, <1>5, <1>6, <1>8, After, Zenon DEF HistoryType

\* Reply, NoReply and Stored.
LEMMA ReplyStep ==
  ASSUME IInv, NEW t \in Threads, Reply(t) \/ NoReply(t) \/ Stored(t)
  PROVE  IInv'
<1>1. ThreadOK(t) /\ ThreadType
  BY Before, Zenon
<1>2. CASE Reply(t)
  <2>1. pc[t] = "reply" /\ raced' = raced /\ Take(client[t]) /\ client[t] \in Clients
    BY <1>1, <1>2, Zenon DEF Reply, ThreadOK
  <2> PICK c \in Clients : c = client[t]
    BY <2>1, Zenon
  <2> PICK kind : kind = Head(unread[c])[3]
    BY Zenon
  <2>2. CASE /\ More(t, kind) /\ taken' = [taken EXCEPT ![t] = @ + 1]
             /\ UNCHANGED <<mutex, pc, op, client, redis, stale>>
    <3>1. taken[t] \in 0 .. Batch
      BY <1>1, <2>2, ConstantsAssumption DEF More, ThreadType
    <3> QED BY <2>1, <2>2, <3>1, ReplyMore, Zenon
  <2>3. CASE /\ Return(t) \/ (op[t] = "increment" /\ Goto(t, "set"))
             /\ Unlock /\ Leave(c)
    <3>1. InCall(t, c)
      BY <2>1, Zenon DEF InCall
    <3> QED BY <2>1, <2>3, <3>1, EndStep, Zenon DEF Unlock
  <2> QED BY <1>2, <2>2, <2>3, Zenon DEF Reply, GoesOn
<1>3. CASE NoReply(t)
  <2>1. /\ pc[t] = "reply" /\ Fail(client[t]) /\ Return(t) /\ mutex' = NULL
        /\ raced' = raced /\ stale' = stale /\ client[t] \in Clients
    BY <1>1, <1>3, Zenon DEF NoReply, ThreadOK, Unlock
  <2>2. InCall(t, client[t])
    BY <2>1, Zenon DEF InCall
  <2> QED BY <2>1, <2>2, EndStep, Zenon
<1>4. CASE Stored(t)
  <2>1. /\ pc[t] = "stored" /\ Return(t) /\ mutex' = mutex /\ raced' = raced
        /\ redis[t] \in Clients
        /\ (Take(redis[t]) /\ Leave(redis[t])) \/ (Fail(redis[t]) /\ stale' = stale)
    BY <1>1, <1>4, Zenon DEF Stored, ThreadOK
  <2>2. InCall(t, redis[t])
    BY <2>1, Zenon DEF InCall
  <2> QED BY <2>1, <2>2, EndStep, Zenon
<1> QED BY <1>2, <1>3, <1>4, Zenon

-----------------------------------------------------------------------------
\* A call begins.
LEMMA CallStep ==
  ASSUME IInv, NEW t \in Threads, Call(t)
  PROVE  IInv'
<1>1. /\ NetType /\ ThreadType /\ HistoryType /\ ThreadInv /\ ThreadOK(t) /\ t # NULL
      /\ ~raced => \A d \in Clients : ClientInv(d)
  BY Before, Zenon
<1>2. PICK o \in Ops : op' = [op EXCEPT ![t] = o]
  BY Zenon DEF Call
<1>3. /\ pc[t] = "idle" /\ pc' = [pc EXCEPT ![t] = "node"] /\ mutex' = mutex /\ client' = client
      /\ redis' = redis /\ taken' = taken /\ raced' = raced /\ stale' = stale
      /\ usable' = usable /\ sent' = sent /\ unread' = unread
  BY Zenon DEF Call, net
<1>4. /\ NetType' /\ HistoryType' /\ ThreadType' /\ Others(t) /\ pc'[t] = "node"
  BY <1>1, <1>2, <1>3, Zenon DEF NetType, HistoryType, ThreadType, Places, Others
<1>5. ThreadInv'
  <2>1. ThreadOK(t)'
    BY <1>4, Zenon DEF ThreadOK, Locked
  <2> QED BY <1>1, <1>3, <1>4, <2>1, OthersOK, Zenon
<1>6. ASSUME ~raced', NEW d \in Clients PROVE ClientInv(d)'
  <2>1. redis'[t] = NULL /\ NULL # d
    BY <1>1, <1>3, ConstantsAssumption, Zenon DEF ThreadOK
  <2>2. ~InCall(t, d) /\ ~InCall(t, d)' /\ ~Holds(t, d)' /\ ~Pinger(t, d)
    BY <1>3, <1>4, <2>1, Zenon DEF InCall, Holds, Pinger
  <2> QED BY <1>1, <1>3, <1>4, <1>6, <2>2, Frame, Zenon
<1> QED BY <1>4, <1>5, <1>6, After, Zenon

\* Only a ping is answered by a pong.
LEMMA AnswersFacts ==
  ASSUME NEW m \in Command, NEW k \in Answers(m)
  PROVE  k \in Kinds /\ (k = "PONG" => m = "PING")
BY Zenon DEF Answers, Command, Kinds

\* A server answers.
LEMMA ServeStep ==
  ASSUME IInv, NEW c \in Clients, Serve(c)
  PROVE  IInv'
<1>1. /\ NetType /\ ThreadType /\ HistoryType /\ ThreadInv
      /\ ~raced => \A d \in Clients : ClientInv(d)
  BY TypeParts, Zenon DEF IInv, WireInv
<1>2. /\ usable' = usable /\ mutex' = mutex /\ pc' = pc /\ op' = op /\ client' = client
      /\ redis' = redis /\ taken' = taken /\ raced' = raced /\ stale' = stale
      /\ sent[c] # <<>> /\ sent' = [sent EXCEPT ![c] = Tail(sent[c])]
  BY <1>1, Zenon DEF Serve, thread, NetType
<1> PICK e : e = Head(sent[c])
  BY Zenon
<1>3. PICK k \in Answers(e[2]) : unread' = [unread EXCEPT ![c] = Append(unread[c], <<e[1], e[2], k>>)]
  BY <1>1, Zenon DEF Serve, NetType
<1>4. e \in Threads \X Command
  BY <1>1, <1>2, ClientType, SeqFacts, Zenon
<1> PICK r : r = <<e[1], e[2], k>>
  BY Zenon
<1>5. /\ r \in Threads \X Command \X Kinds /\ r[1] = e[1] /\ r[2] = e[2]
      /\ r[3] = "PONG" => r[2] = "PING"
  <2>1. e[1] \in Threads /\ e[2] \in Command
    BY <1>4, Zenon
  <2>2. k \in Kinds /\ (k = "PONG" => e[2] = "PING")
    BY <2>1, AnswersFacts, Zenon
  <2> QED BY <2>1, <2>2, Zenon
<1> DEFINE C == Threads \X Command
           R == Threads \X Command \X Kinds
<1>6. sent[c] \in Seq(C) /\ unread[c] \in Seq(R) /\ r \in R
  BY <1>1, <1>5, ClientType, Zenon
<1> HIDE DEF C, R
<1>7. /\ Len(sent[c]) \in Nat /\ Len(unread[c]) \in Nat
      /\ DOMAIN sent[c] = 1 .. Len(sent[c]) /\ DOMAIN unread[c] = 1 .. Len(unread[c])
      /\ Len(sent[c]) > 0 /\ e = sent[c][1]
      /\ Tail(sent[c]) \in Seq(C) /\ Len(Tail(sent[c])) = Len(sent[c]) - 1
      /\ DOMAIN Tail(sent[c]) = 1 .. Len(sent[c]) - 1
      /\ \A i \in 1 .. Len(sent[c]) - 1 : Tail(sent[c])[i] = sent[c][i + 1]
  BY <1>2, <1>6, SeqFacts, TailFacts
<1>8. /\ Append(unread[c], r) \in Seq(R) /\ Len(Append(unread[c], r)) = Len(unread[c]) + 1
      /\ DOMAIN Append(unread[c], r) = 1 .. Len(unread[c]) + 1
      /\ \A i \in 1 .. Len(unread[c]) : Append(unread[c], r)[i] = unread[c][i]
      /\ Append(unread[c], r)[Len(unread[c]) + 1] = r
  BY <1>6, SeqFacts, AppendFacts
<1>9. /\ NetType' /\ sent'[c] = Tail(sent[c]) /\ unread'[c] = Append(unread[c], r)
      /\ \A d \in Clients \ {c} : sent'[d] = sent[d] /\ unread'[d] = unread[d]
  BY <1>1, <1>2, <1>3, <1>7, <1>8, Zenon DEF NetType, C, R
<1>10. ThreadType' /\ HistoryType' /\ ThreadInv'
  BY <1>1, <1>2, Zenon DEF ThreadType, HistoryType, ThreadInv, ThreadOK
<1>11. \A u \in Threads, d \in Clients :
        /\ InCall(u, d)' <=> InCall(u, d)
        /\ Fresh(u, d)' <=> Fresh(u, d)
        /\ Pinger(u, d)' <=> Pinger(u, d)
        /\ OwnCommands(u)' = OwnCommands(u)
  BY <1>2, ZenonT(30) DEF InCall, Fresh, Holds, Pinger, OwnCommands
<1>12. OnTheWire(c)' = OnTheWire(c)
  <2>1. Entries(sent[c]) = Entries(Tail(sent[c])) \union {<<e[1], e[2]>>}
    BY <1>2, <1>6, EntriesTail, Zenon
  <2>2. Entries(Append(unread[c], r)) = Entries(unread[c]) \union {<<e[1], e[2]>>}
    <3>1. Entries(Append(unread[c], r)) = Entries(unread[c]) \union {<<r[1], r[2]>>}
      BY <1>6, EntriesAppend, SMTT(30)
    <3> QED BY <1>5, <3>1, Zenon
  <2> QED BY <1>9, <2>1, <2>2, Zenon DEF OnTheWire
<1>13. ASSUME ClientInv(c) PROVE PingInv(c)'
  <2>1. \A i \in DOMAIN unread'[c] :
          (i \in DOMAIN unread[c] /\ unread'[c][i] = unread[c][i]) \/ unread'[c][i] = r
    <3> TAKE i \in DOMAIN unread'[c]
    <3>1. i \in 1 .. Len(unread[c]) \/ i = Len(unread[c]) + 1
      <4>1. i \in 1 .. Len(unread[c]) + 1
        BY <1>8, <1>9, Zenon
      <4> QED BY <1>7, <4>1
    <3> QED BY <1>7, <1>8, <1>9, <3>1, Zenon
  <2>2. PongsAnswerPings(unread'[c])
    BY <1>5, <1>13, <2>1, Zenon DEF ClientInv, PingInv, PongsAnswerPings
  <2>3. ASSUME NoPing(unread[c]), NoPing(sent[c]) PROVE NoPing(unread'[c]) /\ NoPing(sent'[c])
    <3>1. 1 \in DOMAIN sent[c] /\ e = sent[c][1]
      BY <1>7
    <3>2. r[2] # "PING"
      BY <1>5, <2>3, <3>1, Zenon DEF NoPing
    <3>3. \A i \in DOMAIN sent'[c] : i + 1 \in DOMAIN sent[c] /\ sent'[c][i] = sent[c][i + 1]
      <4> TAKE i \in DOMAIN sent'[c]
      <4>1. i \in 1 .. Len(sent[c]) - 1
        BY <1>7, <1>9, Zenon
      <4>2. i + 1 \in 1 .. Len(sent[c])
        BY <1>7, <4>1
      <4> QED BY <1>7, <1>9, <4>1, <4>2, Zenon
    <3> QED BY <2>1, <2>3, <3>2, <3>3, Zenon DEF NoPing
  <2>4. PingLast(unread[c], sent[c]) => PingLast(unread'[c], sent'[c])
    <3>1. ASSUME PingLast(unread[c], sent[c]) PROVE PingLast(Append(unread[c], r), Tail(sent[c]))
      BY <1>2, <1>5, <1>6, <3>1, PingServed, Zenon
    <3> QED BY <1>9, <3>1, Zenon
  <2> QED BY <1>2, <1>11, <1>13, <2>2, <2>3, <2>4, Zenon DEF ClientInv, PingInv
<1>14. ASSUME ~raced', NEW d \in Clients PROVE ClientInv(d)'
  <2>1. ClientInv(d)
    BY <1>1, <1>2, <1>14, Zenon
  <2>2. OnTheWire(d)' = OnTheWire(d) /\ Len(unread'[d]) + Len(sent'[d]) = Len(unread[d]) + Len(sent[d])
    <3>1. CASE d = c
      <4>1. /\ Len(sent'[c]) = Len(sent[c]) - 1 /\ Len(unread'[c]) = Len(unread[c]) + 1
            /\ Len(sent[c]) \in Nat /\ Len(unread[c]) \in Nat
        BY <1>7, <1>8, <1>9, Zenon
      <4>2. Len(unread'[c]) + Len(sent'[c]) = Len(unread[c]) + Len(sent[c])
        <5>1. \A i, j \in Nat : (j + 1) + (i - 1) = j + i
          OBVIOUS
        <5> QED BY <4>1, <5>1, Zenon
      <4> QED BY <1>12, <3>1, <4>2, Zenon
    <3>2. CASE d # c
      BY <1>9, <3>2, Zenon DEF OnTheWire
    <3> QED BY <3>1, <3>2, Zenon
  <2>3. PingInv(d)'
    <3>1. CASE d = c
      BY <1>13, <2>1, <3>1, Zenon
    <3>2. CASE d # c
      BY <1>2, <1>9, <1>11, <2>1, <3>2, Zenon DEF ClientInv, PingInv
    <3> QED BY <3>1, <3>2, Zenon
  <2>4. CallInv(d)' /\ PingAlone(d)' /\ Own(d)' /\ Clean(d)'
    BY <1>2, <1>11, <2>1, <2>2, Zenon DEF ClientInv, CallInv, PingAlone, Own, Clean
  <2> QED BY <2>3, <2>4, Zenon DEF ClientInv
<1> QED BY <1>9, <1>10, <1>14, After, Zenon

-----------------------------------------------------------------------------
(* The theorems.                                                           *)

\* The invariant holds initially
LEMMA InitIInv == Init => IInv
<1> SUFFICES ASSUME Init PROVE IInv
  BY Zenon
<1>1. TypeOK
  <2>1. 0 \in 0 .. Batch + 1
    BY ConstantsAssumption
  <2>2. NetType
    BY DEF Init, NetType
  <2>3. ThreadType /\ HistoryType
    BY <2>1, Zenon DEF Init, ThreadType, HistoryType, Places
  <2> QED BY <2>2, <2>3, TypeParts, Zenon
<1>2. ThreadInv
  BY Zenon DEF Init, ThreadInv, ThreadOK, Locked
<1>3. ASSUME NEW c \in Clients PROVE ClientInv(c)
  <2>1. sent[c] = <<>> /\ unread[c] = <<>>
    BY Zenon DEF Init
  <2>2. \A t \in Threads : ~InCall(t, c)
    BY Zenon DEF Init, InCall
  <2>3. OnTheWire(c) = {}
    BY <2>1 DEF OnTheWire, Entries
  <2>4. NoPing(unread[c]) /\ NoPing(sent[c]) /\ PongsAnswerPings(unread[c])
    BY <2>1 DEF NoPing, PongsAnswerPings
  <2>5. \A t \in Threads : pc[t] # "pong"
    BY Zenon DEF Init
  <2> QED BY <2>2, <2>3, <2>4, <2>5, Zenon
             DEF ClientInv, PingInv, CallInv, PingAlone, Own, Clean
<1> QED BY <1>1, <1>2, <1>3, Zenon DEF IInv, WireInv

\* and is preserved by every step.
LEMMA NextIInv == IInv /\ [Next]_vars => IInv'
<1> SUFFICES ASSUME IInv, [Next]_vars PROVE IInv'
  BY Zenon
<1>1. CASE UNCHANGED vars
  <2>1. /\ usable' = usable /\ sent' = sent /\ unread' = unread /\ mutex' = mutex /\ pc' = pc
        /\ op' = op /\ client' = client /\ redis' = redis /\ taken' = taken /\ raced' = raced
        /\ stale' = stale
    BY <1>1, Zenon DEF vars, net, thread
  <2>2. TypeOK' /\ ThreadInv'
    BY <2>1, Zenon DEF IInv, TypeOK, ThreadInv, ThreadOK
  <2>3. \A t \in Threads, c \in Clients :
          /\ InCall(t, c)' <=> InCall(t, c)
          /\ Fresh(t, c)' <=> Fresh(t, c)
          /\ Pinger(t, c)' <=> Pinger(t, c)
          /\ OwnCommands(t)' = OwnCommands(t)
          /\ OnTheWire(c)' = OnTheWire(c)
    BY <2>1, ZenonT(30) DEF InCall, Fresh, Holds, Pinger, OwnCommands, OnTheWire
  <2>4. ASSUME NEW c \in Clients, ClientInv(c) PROVE ClientInv(c)'
    <3>1. PingInv(c)' /\ CallInv(c)'
      BY <2>1, <2>3, <2>4, Zenon DEF ClientInv, PingInv, CallInv
    <3>2. PingAlone(c)' /\ Own(c)' /\ Clean(c)'
      BY <2>1, <2>3, <2>4, Zenon DEF ClientInv, PingAlone, Own, Clean
    <3> QED BY <3>1, <3>2, Zenon DEF ClientInv
  <2> QED BY <2>1, <2>2, <2>4, Zenon DEF IInv, WireInv
<1>2. ASSUME NEW t \in Threads, Call(t) \/ Step(t) PROVE IInv'
  <2>1. CASE PingMaster(t)
    BY <1>2, <2>1, PingStep, Zenon DEF PingMaster, Clients
  <2>2. CASE PingSlave(t)
    <3>1. mutex = t
      BY <2>2, Zenon DEF PingSlave, IInv, ThreadInv, ThreadOK, Locked
    <3> QED BY <1>2, <2>2, <3>1, PingStep, Zenon DEF PingSlave, Clients
  <2> QED BY <1>2, <2>1, <2>2, CallStep, PongStep, TryReconnectStep, UseStep, SetStep, ReplyStep, Zenon
          DEF Step
<1>3. ASSUME NEW c \in Clients, Serve(c) PROVE IInv'
  BY <1>3, ServeStep, Zenon
<1> QED BY <1>1, <1>2, <1>3, Zenon DEF Next

\* The types, for any number of threads: in particular no Multi operation takes
\* more replies than it has sent commands.
THEOREM TypeCorrect == Spec => []TypeOK
BY InitIInv, NextIInv, PTL DEF Spec, IInv

\* A call takes only replies to its own commands, whatever the servers, the
\* timeouts and the other threads do, as long as no two calls have overlapped on
\* one client and nothing was left on it since GetRedisNode's ping.
THEOREM RepliesAreOwn == Spec => []OwnReply
<1>1. IInv => OwnReply
  BY Zenon DEF IInv, WireInv, ClientInv, Own, OwnReply
<1> QED BY <1>1, InitIInv, NextIInv, PTL DEF Spec

\* GetRedisNode hands out clients with nothing on their connections.
THEOREM HandsOutClean == Spec => []HandedOutClean
<1>1. IInv => HandedOutClean
  BY Zenon DEF IInv, WireInv, ClientInv, Clean, Fresh, HandedOutClean
<1> QED BY <1>1, InitIInv, NextIInv, PTL DEF Spec

\* The mutex keeps all calls on one client apart but those of SetToRedis.
THEOREM OnlySetRaces == Spec => OnlySetToRedisRaces
<1>1. ASSUME IInv, [Next]_vars
      PROVE  [raced' # raced => \E t \in Threads : "stored" \in {pc[t], pc'[t]}]_vars
  <2> SUFFICES ASSUME Next, raced' # raced PROVE \E t \in Threads : "stored" \in {pc[t], pc'[t]}
    BY <1>1, Zenon
  <2>1. PICK t \in Threads, c \in Clients :
          /\ raced' = (raced \/ Overlaps(t, c))
          /\ mutex \in {NULL, t} \/ pc'[t] = "stored"
    <3>1. PICK t \in Threads : Step(t)
      BY Zenon DEF Next, Call, Serve
    <3>2. ThreadOK(t) /\ ThreadType
      BY <1>1, <3>1, Before, Zenon
    <3>3. CASE PingMaster(t)
      BY <3>1, <3>3, Zenon DEF PingMaster, Ping, Send, Clients
    <3>4. CASE PingSlave(t)
      <4>1. mutex = t
        BY <3>2, <3>4, Zenon DEF PingSlave, ThreadOK, Locked
      <4> QED BY <3>1, <3>4, <4>1, Zenon DEF PingSlave, Ping, Send, Clients
    <3>5. CASE TryReconnect(t)
      <4>1. mutex = t /\ client[t] \in Clients
        BY <3>2, <3>5, Zenon DEF TryReconnect, ThreadOK, Locked
      <4> QED BY <3>1, <3>5, <4>1, Zenon DEF TryReconnect, Reconnect
    <3>6. CASE Use(t)
      <4>1. mutex = NULL /\ client[t] \in Clients
        BY <3>2, <3>6, Zenon DEF Use, ThreadOK
      <4> QED BY <3>1, <3>6, <4>1, Zenon DEF Use, Send
    <3>7. CASE Set(t)
      <4>1. redis[t] \in Clients
        BY <3>2, <3>7, Zenon DEF Set, ThreadOK
      <4>2. Send(t, redis[t], <<"SET">>) /\ Goto(t, "stored")
        BY <3>7, Zenon DEF Set
      <4>3. pc'[t] = "stored"
        BY <3>1, <3>2, <4>2, Zenon DEF Goto, ThreadType
      <4> QED BY <3>1, <4>1, <4>2, <4>3, Zenon DEF Send
    <3>8. CASE Pong(t) \/ Reply(t) \/ NoReply(t) \/ Stored(t)
      BY <3>8, Zenon DEF Pong, Reply, NoReply, Stored
    <3> QED BY <3>1, <3>3, <3>4, <3>5, <3>6, <3>7, <3>8, Zenon DEF Step
  <2>2. raced \in BOOLEAN /\ (Overlaps(t, c) \in BOOLEAN)
    BY <1>1, <2>1, Zenon DEF IInv, TypeOK, Overlaps
  <2>3. Overlaps(t, c)
    BY <2>1, <2>2, Zenon
  <2>4. PICK u \in Threads \ {t} : InCall(u, c)
    BY <2>3, Zenon DEF Overlaps
  <2>5. mutex \in {NULL, t} => pc[u] \notin Locked
    BY <1>1, <2>1, <2>4, Before, Zenon
  <2> QED BY <2>1, <2>4, <2>5, Zenon DEF InCall, Locked
<1> QED BY <1>1, InitIInv, NextIInv, PTL DEF Spec, OnlySetToRedisRaces

-----------------------------------------------------------------------------
(* The ring, for every map of points and every hash function.              *)

INSTANCE HashRing
INSTANCE WellFoundedInduction

\* A set of points that is not empty has a first one.
LEMMA FirstFacts ==
  ASSUME NEW S \in SUBSET Nat, S # {}
  PROVE  First(S) \in S /\ \A y \in S : First(S) <= y
<1>1. PICK x \in S : \A y \in S : ~(<<y, x>> \in OpToRel(<, Nat))
  BY NatLessThanWellFounded, WFMin, Zenon
<1>2. ASSUME NEW y \in S PROVE x <= y
  <2>1. ~(<<y, x>> \in {ss \in Nat \X Nat : ss[1] < ss[2]})
    BY <1>1, Zenon DEF OpToRel
  <2>2. x \in Nat /\ y \in Nat /\ <<y, x>> \in Nat \X Nat
    BY Zenon
  <2> QED BY <2>1, <2>2
<1> QED BY <1>2, Zenon DEF First

\* The point that serves h is on the ring, and no other comes before it from h on.
LEMMA PointFacts ==
  ASSUME NEW ring, DOMAIN ring \in SUBSET Nat, DOMAIN ring # {}, NEW h \in Nat
  PROVE  /\ PointOf(ring, h) \in DOMAIN ring
         /\ \A x \in DOMAIN ring :
              \/ x >= h /\ h <= PointOf(ring, h) /\ PointOf(ring, h) <= x
              \/ x < h /\ (h <= PointOf(ring, h) \/ PointOf(ring, h) <= x)
<1> DEFINE later == {x \in DOMAIN ring : x >= h}
<1>1. CASE later # {}
  <2>1. First(later) \in later /\ \A y \in later : First(later) <= y
    BY <1>1, FirstFacts, Zenon
  <2>2. PointOf(ring, h) = First(later)
    BY <1>1, Zenon DEF PointOf
  <2> QED BY <2>1, <2>2
<1>2. CASE later = {}
  <2>1. First(DOMAIN ring) \in DOMAIN ring /\ \A y \in DOMAIN ring : First(DOMAIN ring) <= y
    BY FirstFacts, Zenon
  <2>2. PointOf(ring, h) = First(DOMAIN ring)
    BY <1>2, Zenon DEF PointOf
  <2> QED BY <1>2, <2>1, <2>2
<1> QED BY <1>1, <1>2, Zenon

\* Adding a node moves keys to that node only, whatever points it hits and takes
\* over.
THEOREM AddMovesOnlyToAdded ==
  ASSUME NEW ring, DOMAIN ring \in SUBSET Nat, DOMAIN ring # {},
         NEW hash, NEW node_name, NEW replicas \in Nat,
         Points(hash, node_name, replicas) \in SUBSET Nat, NEW h \in Nat
  PROVE  MovesOnlyToAdded(ring, hash, node_name, replicas, h)
<1> DEFINE points == Points(hash, node_name, replicas)
           after  == AddNode(ring, hash, node_name, replicas)
           p      == PointOf(ring, h)
           q      == PointOf(after, h)
<1>1. /\ DOMAIN after = DOMAIN ring \union points
      /\ \A x \in points : after[x].node_name = node_name
      /\ \A x \in DOMAIN ring \ points : after[x] = ring[x]
  BY Zenon DEF AddNode
<1> HIDE DEF points, after
<1>2. /\ p \in DOMAIN ring
      /\ \A x \in DOMAIN ring :
           \/ x >= h /\ h <= p /\ p <= x
           \/ x < h /\ (h <= p \/ p <= x)
  BY PointFacts, Zenon
<1>3. DOMAIN after \in SUBSET Nat /\ DOMAIN after # {}
  BY <1>1, Zenon DEF points
<1>4. /\ q \in DOMAIN after
      /\ \A x \in DOMAIN after :
           \/ x >= h /\ h <= q /\ q <= x
           \/ x < h /\ (h <= q \/ q <= x)
  BY <1>3, PointFacts, Zenon
<1> HIDE DEF p, q
<1>5. CASE q \in points
  BY <1>1, <1>5, Zenon DEF MovesOnlyToAdded, GetNode, q, after
<1>6. CASE q \notin points
  <2>1. q \in DOMAIN ring /\ p \in DOMAIN after
    BY <1>1, <1>2, <1>4, <1>6, Zenon
  <2>2. p \in Nat /\ q \in Nat
    BY <1>2, <2>1, Zenon
  <2>3. p = q
    BY <1>2, <1>4, <2>1, <2>2
  <2> QED BY <1>1, <1>6, <2>1, <2>3, Zenon DEF MovesOnlyToAdded, GetNode, p, q, after
<1> QED BY <1>5, <1>6, Zenon

\* Removing a node takes out what adding it put in.
THEOREM RemoveUndoesAdd ==
  ASSUME NEW S, NEW T, NEW ring \in [S -> T], NEW hash, NEW node_name, NEW replicas \in Nat
  PROVE  AddedThenRemoved(ring, hash, node_name, replicas)
<1> DEFINE points == Points(hash, node_name, replicas)
           after  == AddNode(ring, hash, node_name, replicas)
           first  == hash[<<node_name, 0>>]
<1> SUFFICES ASSUME replicas > 0, S \intersect points = {}
             PROVE  RemoveNode(after, hash, node_name) = ring
  BY Zenon DEF AddedThenRemoved
<1>1. first \in points
  <2>1. 0 \in 0 .. replicas - 1
    OBVIOUS
  <2> QED BY <2>1, Zenon DEF Points
<1>2. /\ DOMAIN after = S \union points
      /\ \A x \in points : after[x].replicas = replicas
      /\ \A x \in S : after[x] = ring[x]
  BY Zenon DEF AddNode
<1> HIDE DEF after
<1>3. first \in DOMAIN after /\ after[first].replicas = replicas
  BY <1>1, <1>2, Zenon
<1>4. RemoveNode(after, hash, node_name)
        = [x \in (DOMAIN after \union {first}) \ points |->
             IF x \in DOMAIN after THEN after[x] ELSE [node_name |-> "", replicas |-> 0]]
  BY <1>3, Zenon DEF RemoveNode
<1>5. (DOMAIN after \union {first}) \ points = S
  BY <1>1, <1>2, Zenon
<1> HIDE DEF points, first
<1>6. RemoveNode(after, hash, node_name) = [x \in S |-> ring[x]]
  BY <1>2, <1>4, <1>5, Zenon
<1> QED BY <1>6, Zenon
=============================================================================
