------------------------- MODULE UserProfileStorage -------------------------
(***************************************************************************)
(* UserProfileStorage over one node of RedisCluster: a master and a slave, *)
(* each with one redis::Client that all threads share, and one mutex.      *)
(* GetRedisNode pings, reconnects or fails over with the mutex held, and   *)
(* hands a client out; GetUserProfile, and users of the Multi operations,  *)
(* take the mutex again for their call; SetToRedis does not.               *)
(*                                                                         *)
(* A call on a client writes commands to the connection and then takes     *)
(* replies from it; only their order says which reply answers which        *)
(* command.  Commands and replies carry the call they belong to, which     *)
(* the code does not see; of the contents only the kind is kept.  Servers  *)
(* go down and come back, and a wait may time out while the answer is on   *)
(* its way.                                                                *)
(***************************************************************************)
EXTENDS Integers, Sequences, FiniteSets

CONSTANTS
  Threads,
  Ops,             \* what they call, of "get", "put", "increment" and "multi"
  is_open_slave,   \* is_open_slave_
  Batch,           \* commands in one transaction of a Multi operation
  NULL

Clients == {"master", "slave"}

ASSUME ConstantsAssumption ==
  /\ Ops \subseteq {"get", "put", "increment", "multi"}
  /\ NULL \notin Threads \union Clients
  /\ is_open_slave \in BOOLEAN
  /\ Batch \in Nat \ {0}

VARIABLES
  usable,   \* per client: ctx_ is not NULL and has seen no error
  sent,     \* per client: commands to be answered, <<thread, command>>
  unread,   \* per client: replies not taken, <<thread, command, kind>>
  mutex,    \* who holds the mutex of the node
  pc,       \* per thread: where it is,
  op,       \*   what it is doing,
  client,   \*   the client of its call, from GetRedisNode,
  redis,    \*   the client PutUserProfile keeps for SetToRedis,
  taken,    \*   and the replies a Multi operation has taken
  raced,    \* history: two calls on one client have overlapped
  stale     \* history: <<t, c>> when a call left replies behind on c after
            \*   c was handed out to t

net    == <<usable, sent, unread>>
thread == <<op, client, redis, taken>>
vars   == <<net, mutex, pc, thread, raced, stale>>

\* t is in a call on client c: it has sent a command and waits for a reply.
InCall(t, c) ==
  \/ pc[t] \in {"pong", "reply"} /\ client[t] = c
  \/ pc[t] = "stored" /\ redis[t] = c

\* GetRedisNode has handed c out to t, and t may still use it.
Holds(t, c) ==
  \/ pc[t] \in {"lock", "reply"} /\ client[t] = c
  \/ pc[t] # "idle" /\ redis[t] = c

Overlaps(t, c) == \E u \in Threads \ {t} : InCall(u, c)

-----------------------------------------------------------------------------
(* hiredis and the servers.                                                *)

\* Write commands.
Send(t, c, commands) ==
  /\ sent' = [sent EXCEPT ![c] = @ \o [i \in DOMAIN commands |-> <<t, commands[i]>>]]
  /\ raced' = (raced \/ Overlaps(t, c))
  /\ UNCHANGED <<usable, unread>>

\* redisGetReply finds a reply.
Take(c) ==
  /\ usable[c] /\ unread[c] # <<>>
  /\ unread' = [unread EXCEPT ![c] = Tail(@)]
  /\ UNCHANGED <<usable, sent>>

\* Mutant: the connection is used again after a timeout.
FailOnce(c) ==
  /\ usable[c] => unread[c] = <<>>
  /\ UNCHANGED net

\* redisGetReply finds none, in time or for ever: the context keeps the error,
\* and neither reads nor writes again.
Fail(c) ==
  /\ usable[c] => unread[c] = <<>>
  /\ usable' = [usable EXCEPT ![c] = FALSE]
  /\ sent' = [sent EXCEPT ![c] = <<>>]
  /\ UNCHANGED unread

\* Reconnect: free the context and connect, which is done if the server can be
\* reached.
Reconnect(t, c, done) ==
  /\ usable' = [usable EXCEPT ![c] = done]
  /\ sent' = [sent EXCEPT ![c] = <<>>]
  /\ unread' = [unread EXCEPT ![c] = <<>>]
  /\ raced' = (raced \/ Overlaps(t, c))
  /\ stale' = stale \ (Threads \X {c})

\* The kinds of reply to a command, told apart as far as what a call does next
\* depends on them: "VALUE" is a string or nil, and SET and EXEC end their calls
\* whatever the reply is.
Answers(command) ==
  CASE command = "PING"  -> {"PONG", "ERROR"}
    [] command = "GET"   -> {"VALUE", "ERROR"}
    [] command = "QUEUE" -> {"QUEUED", "ERROR"}
    [] OTHER             -> {"DONE"}

\* A server answers, unless it is down or has dropped the connection.
Serve(c) ==
  LET e == Head(sent[c]) IN
  /\ usable[c] /\ sent[c] # <<>>
  /\ \E kind \in Answers(e[2]) :
       unread' = [unread EXCEPT ![c] = Append(@, <<e[1], e[2], kind>>)]
  /\ sent' = [sent EXCEPT ![c] = Tail(@)]
  /\ UNCHANGED <<usable, mutex, pc, thread, raced, stale>>

-----------------------------------------------------------------------------
(* GetRedisNode.                                                           *)

Unlock == mutex' = NULL

\* A call returns.
Return(t) ==
  /\ pc' = [pc EXCEPT ![t] = "idle"]
  /\ op' = [op EXCEPT ![t] = NULL]
  /\ client' = [client EXCEPT ![t] = NULL]
  /\ redis' = [redis EXCEPT ![t] = NULL]
  /\ taken' = [taken EXCEPT ![t] = 0]

Goto(t, where) == pc' = [pc EXCEPT ![t] = where] /\ UNCHANGED thread

\* It returns true with client c.  PutUserProfile goes on to SetToRedis or, for
\* an increment, to GetUserProfile, which starts with a GetRedisNode of its own.
HandOut(t, c) ==
  /\ Unlock
  /\ IF op[t] \in {"put", "increment"} /\ redis[t] = NULL
     THEN /\ redis' = [redis EXCEPT ![t] = c]
          /\ pc' = [pc EXCEPT ![t] = IF op[t] = "put" THEN "set" ELSE "node"]
          /\ UNCHANGED <<op, client, taken>>
     ELSE Goto(t, "lock")

\* Where it goes after a ping that fails.
AfterPing(c) == IF c = "master" THEN "reconnect" ELSE "again"

\* Ping, with the mutex.
Ping(t, c) ==
  /\ mutex' = t
  /\ client' = [client EXCEPT ![t] = c]
  /\ IF usable[c]
     THEN Send(t, c, <<"PING">>) /\ pc' = [pc EXCEPT ![t] = "pong"]
     ELSE UNCHANGED <<net, raced>> /\ pc' = [pc EXCEPT ![t] = AfterPing(c)]
  /\ UNCHANGED <<op, redis, taken, stale>>

PingMaster(t) == pc[t] = "node" /\ mutex = NULL /\ Ping(t, "master")
PingSlave(t)  == pc[t] = "slave" /\ Ping(t, "slave")

\* Mutant: any reply will do.
IsAnswer(reply) == TRUE

IsPong(reply) == reply[3] = "PONG"

Pong(t) ==
  LET c == client[t] IN
  /\ pc[t] = "pong"
  /\ \/ /\ Take(c)
        /\ IF IsPong(Head(unread[c]))
           THEN HandOut(t, c) /\ stale' = stale \ {<<t, c>>}
           ELSE Goto(t, AfterPing(c)) /\ UNCHANGED <<mutex, stale>>
     \/ Fail(c) /\ Goto(t, AfterPing(c)) /\ UNCHANGED <<mutex, stale>>
  /\ UNCHANGED raced

\* The master is tried twice when there is no slave.
TryReconnect(t) ==
  LET c == client[t] IN
  /\ pc[t] \in {"reconnect", "again"}
  /\ \/ Reconnect(t, c, TRUE) /\ HandOut(t, c)
     \/ /\ Reconnect(t, c, FALSE)
        /\ \/ /\ pc[t] = "reconnect"
              /\ Goto(t, IF is_open_slave THEN "slave" ELSE "again")
              /\ UNCHANGED mutex
           \/ pc[t] = "again" /\ Return(t) /\ Unlock

-----------------------------------------------------------------------------
(* The calls.                                                              *)

Call(t) ==
  /\ pc[t] = "idle"
  /\ \E o \in Ops : op' = [op EXCEPT ![t] = o]
  /\ pc' = [pc EXCEPT ![t] = "node"]
  /\ UNCHANGED <<net, mutex, client, redis, taken, raced, stale>>

Commands(o) ==
  IF o = "multi"
  THEN <<"MULTI">> \o [i \in 1 .. Batch |-> "QUEUE"] \o <<"EXEC">>
  ELSE <<"GET">>

\* Mutant: GetUserProfile forgets the mutex.
UseUnlocked(t) ==
  LET c == client[t] IN
  /\ pc[t] = "lock" /\ usable[c]
  /\ Send(t, c, Commands(op[t])) /\ Goto(t, "reply")
  /\ UNCHANGED <<mutex, stale>>

\* Take the mutex again and send.
Use(t) ==
  LET c == client[t] IN
  /\ pc[t] = "lock" /\ mutex = NULL
  /\ IF usable[c]
     THEN Send(t, c, Commands(op[t])) /\ Goto(t, "reply") /\ mutex' = t
     ELSE Return(t) /\ UNCHANGED <<net, mutex, raced>>
  /\ UNCHANGED stale

\* Mutant: a Multi operation waits for one reply too many.
MoreThanSent(t, kind) == op[t] = "multi"

\* What t does with a reply: it wants another one, goes on to SetToRedis, or
\* returns, also with a profile that cannot be deserialized.
More(t, kind) ==
  op[t] = "multi" /\ (taken[t] = 0 \/ (taken[t] <= Batch /\ kind = "QUEUED"))
GoesOn(t, kind) == op[t] = "increment" /\ kind = "VALUE"

\* A call on c ends: what it has not taken meets those who hold c.
Leave(c) ==
  stale' = IF sent[c] = <<>> /\ unread'[c] = <<>> THEN stale
           ELSE stale \union {<<u, c>> : u \in {v \in Threads : Holds(v, c)}}

Reply(t) ==
  LET c == client[t]
      kind == Head(unread[c])[3]
  IN
  /\ pc[t] = "reply"
  /\ Take(c)
  /\ \/ /\ More(t, kind)
        /\ taken' = [taken EXCEPT ![t] = @ + 1]
        /\ UNCHANGED <<mutex, pc, op, client, redis, stale>>
     \/ GoesOn(t, kind) /\ Goto(t, "set") /\ Unlock /\ Leave(c)
     \/ ~More(t, kind) /\ Return(t) /\ Unlock /\ Leave(c)
  /\ UNCHANGED raced

\* Mutant: start again until a reply comes.
NoReplyRetry(t) ==
  /\ pc[t] = "reply"
  /\ Fail(client[t]) /\ Goto(t, "node") /\ Unlock
  /\ UNCHANGED <<raced, stale>>

NoReply(t) ==
  /\ pc[t] = "reply"
  /\ Fail(client[t]) /\ Return(t) /\ Unlock
  /\ UNCHANGED <<raced, stale>>

\* SetToRedis, without the mutex.
Set(t) ==
  LET c == redis[t] IN
  /\ pc[t] = "set"
  /\ IF usable[c] THEN Send(t, c, <<"SET">>) /\ Goto(t, "stored")
                  ELSE Return(t) /\ UNCHANGED <<net, raced>>
  /\ UNCHANGED <<mutex, stale>>

Stored(t) ==
  LET c == redis[t] IN
  /\ pc[t] = "stored"
  /\ Return(t)
  /\ (Take(c) /\ Leave(c)) \/ (Fail(c) /\ UNCHANGED stale)
  /\ UNCHANGED <<mutex, raced>>

-----------------------------------------------------------------------------
Init ==
  /\ usable = [c \in Clients |-> TRUE]
  /\ sent = [c \in Clients |-> <<>>] /\ unread = [c \in Clients |-> <<>>]
  /\ mutex = NULL
  /\ pc = [t \in Threads |-> "idle"]
  /\ op = [t \in Threads |-> NULL]
  /\ client = [t \in Threads |-> NULL] /\ redis = [t \in Threads |-> NULL]
  /\ taken = [t \in Threads |-> 0]
  /\ raced = FALSE
  /\ stale = {}

\* A thread in a call goes on: in GetRedisNode, and after it.
Step(t) ==
  \/ PingMaster(t) \/ Pong(t) \/ TryReconnect(t) \/ PingSlave(t)
  \/ Use(t) \/ Reply(t) \/ NoReply(t) \/ Set(t) \/ Stored(t)

Next ==
  \/ \E t \in Threads : Call(t) \/ Step(t)
  \/ \E c \in Clients : Serve(c)

Spec == Init /\ [][Next]_vars

\* A thread in a call runs, its waits end by the timeout of the connection, and
\* nobody is passed over for ever at the mutex.  No server has to answer.
FairSpec == Spec /\ \A t \in Threads : WF_vars(Step(t)) /\ SF_vars(PingMaster(t) \/ Use(t))

-----------------------------------------------------------------------------
Kinds == {"PONG", "VALUE", "QUEUED", "DONE", "ERROR"}
Command == {"PING", "GET", "SET", "MULTI", "QUEUE", "EXEC"}

TypeOK ==
  /\ usable \in [Clients -> BOOLEAN]
  /\ sent \in [Clients -> Seq(Threads \X Command)]
  /\ unread \in [Clients -> Seq(Threads \X Command \X Kinds)]
  /\ mutex \in Threads \union {NULL}
  /\ pc \in [Threads -> {"idle", "node", "pong", "reconnect", "slave", "again",
                         "lock", "reply", "set", "stored"}]
  /\ op \in [Threads -> Ops \union {NULL}]
  /\ client \in [Threads -> Clients \union {NULL}]
  /\ redis \in [Threads -> Clients \union {NULL}]
  /\ taken \in [Threads -> 0 .. Batch + 1]
  /\ raced \in BOOLEAN
  /\ stale \subseteq Threads \X Clients

\* The commands whose replies t may take as its own.
OwnCommands(t) ==
  IF pc[t] = "stored" THEN {"SET"}
  ELSE IF op[t] = "multi" THEN {"MULTI", "QUEUE", "EXEC"} ELSE {"GET"}

\* Whose commands and replies are on the connection of c.
Entries(q)   == {<<q[i][1], q[i][2]>> : i \in DOMAIN q}
OnTheWire(c) == Entries(sent[c]) \union Entries(unread[c])

\* The answer a thread gets is the answer to what it asked: no timeout, restart,
\* reconnection or failed transaction puts the replies of another call in front
\* of it, unless they were left there after GetRedisNode's ping and before the
\* mutex was taken again, or calls have run on one client at the same time.
OwnReply ==
  \A t \in Threads, c \in Clients :
    InCall(t, c) /\ pc[t] # "pong" /\ ~raced /\ <<t, c>> \notin stale =>
      OnTheWire(c) \subseteq {t} \X OwnCommands(t)

\* GetRedisNode hands out a client with nothing left on its connection, and it
\* stays so until somebody's call.
HandedOutClean ==
  \A t \in Threads, c \in Clients :
    Holds(t, c) /\ ~raced /\ <<t, c>> \notin stale /\ (\A u \in Threads : ~InCall(u, c)) =>
      OnTheWire(c) = {}

\* Calls on one client overlap only when one of them is SetToRedis: the mutex
\* keeps all others apart, GetRedisNode's pings and reconnections included.
OnlySetToRedisRaces ==
  [][raced' # raced => \E t \in Threads : "stored" \in {pc[t], pc'[t]}]_vars

\* Every call returns, whatever the servers do: no path out of a call keeps the
\* mutex.
CallsReturn == \A t \in Threads : pc[t] # "idle" ~> pc[t] = "idle"
=============================================================================
