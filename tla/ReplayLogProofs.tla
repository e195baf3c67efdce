--------------------------- MODULE ReplayLogProofs ---------------------------
(***************************************************************************)
(* What the replay log keeps for any number of requests and crashes, any   *)
(* sizes of the two queues, any life time and file interval: young records *)
(* stay in the log, and replay adds what was logged before the start, once *)
(* and for all that the doc pool has room for.                             *)
(***************************************************************************)
EXTENDS ReplayLog, FiniteSetTheorems, SequenceTheorems, TLAPS

\* The parts of TypeOK.
CountersType ==
  /\ clock \in 0 .. MaxTime
  /\ phase \in {"replay", "run", "down"}
  /\ reqs \in 0 .. MaxReqs
  /\ crashes \in 0 .. MaxCrashes
  /\ time_begin \in Times /\ time_end \in Times

MemoryType ==
  /\ doc_pool \in Seq(1 .. MaxReqs) /\ Len(doc_pool) <= DocPool
  /\ index \subseteq 1 .. MaxReqs
  /\ pool \in Seq(1 .. MaxReqs) /\ Len(pool) <= LogBuffer

FilesType ==
  /\ DOMAIN files \subseteq Names
  /\ \A n \in DOMAIN files : files[n] \in Seq(Record)

ReplayType ==
  /\ visited \subseteq Names
  /\ file \in DOMAIN files \union {<<>>}
  /\ pos \in 0 .. MaxReqs
  /\ unread \subseteq Names

HistoryType ==
  /\ written \subseteq Record
  /\ own \subseteq 1 .. MaxReqs
  /\ replayed \subseteq 1 .. MaxReqs
  /\ dropped \subseteq 1 .. MaxReqs

\* Request r is in queue q.
Queued(r, q) == \E i \in 1 .. Len(q) : q[i] = r

\* A request is in the log buffer or in the log once: the build thread and the
\* writer never see a number again.
LoggedOnce ==
  /\ \A i, j \in 1 .. Len(pool) : pool[i] = pool[j] => i = j
  /\ \A i \in 1 .. Len(pool) : pool[i] <= reqs /\ \A rec \in written : rec.req # pool[i]
  /\ \A rec \in written : rec.req <= reqs
  /\ \A n \in DOMAIN files : \A i, j \in 1 .. Len(files[n]) :
       /\ files[n][i] \in written
       /\ files[n][i].req = files[n][j].req => i = j

\* A file is being read in the replay only, and not past its end.
ReadInReplay ==
  /\ phase # "replay" => file = <<>>
  /\ file # <<>> => pos <= Len(files[file])

\* No record is younger than the end of its file.
FilesEndLater ==
  \A n \in DOMAIN files : \A i \in 1 .. Len(files[n]) : Local[files[n][i].time] <= n[2]

\* The requests of this run are logged when the replay is over.
OwnLater ==
  /\ \A r \in own \union replayed : r <= reqs
  /\ \A i \in 1 .. Len(pool) : pool[i] \in own
  /\ phase = "down" => own = {} /\ visited = {}
  /\ phase = "replay" => \A rec \in written : rec.req \notin own

\* What was read from a file was added, and is in the index, on its way or dropped.
ReadIsAdded ==
  /\ \A r \in replayed : r \in index \/ r \in dropped \/ Queued(r, doc_pool)
  /\ \A n \in (visited \ unread) \intersect DOMAIN files : \A i \in Legible(n) :
       files[n][i].req \in replayed \union own
  /\ file # <<>> => \A i \in 1 .. pos : files[file][i].req \in replayed

\* The inductive invariant.
IInv ==
  /\ CountersType /\ MemoryType /\ FilesType /\ ReplayType /\ HistoryType
  /\ LoggedOnce
  /\ ReadInReplay
  /\ FilesEndLater
  /\ YoungRecordsKept
  /\ OwnLater
  /\ NoReplayOfOwnLog
  /\ ReadIsAdded

-----------------------------------------------------------------------------
(* Queues and files.                                                       *)

\* TryPut.
LEMMA PutQueue ==
  ASSUME NEW T, NEW q \in Seq(T), NEW r \in T, NEW size \in Nat, Len(q) <= size
  PROVE  LET q2 == TryPut(q, r, size)
         IN  /\ q2 \in Seq(T) /\ Len(q2) <= size
             /\ \A i \in 1 .. Len(q2) : \/ (i = Len(q) + 1 /\ q2[i] = r)
                                       \/ (i \in 1 .. Len(q) /\ q2[i] = q[i])
             /\ \A x : Queued(x, q) => Queued(x, q2)
             /\ Len(q) < size => Queued(r, q2)
<1>1. CASE Len(q) < size
  <2> DEFINE q2 == Append(q, r)
  <2>1. /\ q2 \in Seq(T) /\ Len(q2) = Len(q) + 1 /\ Len(q) \in Nat
        /\ \A i \in 1 .. Len(q) : q2[i] = q[i]
        /\ q2[Len(q) + 1] = r
    BY AppendProperties
  <2> HIDE DEF q2
  <2>2. TryPut(q, r, size) = q2
    BY <1>1, Zenon DEF TryPut, q2
  <2>3. Queued(r, q2)
    BY <2>1 DEF Queued
  <2>4. \A x : Queued(x, q) => Queued(x, q2)
    BY <2>1 DEF Queued
  <2>5. \A i \in 1 .. Len(q2) : \/ (i = Len(q) + 1 /\ q2[i] = r)
                              \/ (i \in 1 .. Len(q) /\ q2[i] = q[i])
    <3>1. \A i \in 1 .. Len(q2) : i = Len(q) + 1 \/ i \in 1 .. Len(q)
      BY <2>1
    <3>2. ASSUME NEW i \in 1 .. Len(q2), i = Len(q) + 1 PROVE q2[i] = r
      BY <2>1, <3>2, Zenon
    <3> QED BY <2>1, <3>1, <3>2, Zenon
  <2>6. Len(q2) <= size
    BY <1>1, <2>1
  <2> QED BY <2>1, <2>2, <2>3, <2>4, <2>5, <2>6, Zenon
<1>2. CASE ~(Len(q) < size)
  BY <1>2, Zenon DEF TryPut
<1> QED BY <1>1, <1>2, Zenon

\* Taking the head.
LEMMA TakeQueue ==
  ASSUME NEW T, NEW q \in Seq(T), q # <<>>
  PROVE  /\ Tail(q) \in Seq(T) /\ Len(Tail(q)) = Len(q) - 1 /\ Len(q) \in Nat /\ Len(q) >= 1
         /\ Head(q) \in T /\ Head(q) = q[1]
         /\ \A i \in 1 .. Len(Tail(q)) : Tail(q)[i] = q[i + 1] /\ i + 1 \in 1 .. Len(q)
         /\ \A x : Queued(x, q) => x = Head(q) \/ Queued(x, Tail(q))
<1>1. /\ Tail(q) \in Seq(T) /\ Len(Tail(q)) = Len(q) - 1 /\ Head(q) \in T
      /\ \A i \in 1 .. Len(Tail(q)) : Tail(q)[i] = q[i + 1]
  BY HeadTailProperties, Zenon
<1>2. Len(q) \in Nat /\ Len(q) >= 1 /\ Head(q) = q[1]
  BY EmptySeq
<1>3. \A i \in 1 .. Len(Tail(q)) : i + 1 \in 1 .. Len(q)
  BY <1>1, <1>2
<1>4. ASSUME NEW x, Queued(x, q), x # Head(q) PROVE Queued(x, Tail(q))
  <2>1. PICK i \in 1 .. Len(q) : q[i] = x
    BY <1>4, Zenon DEF Queued
  <2>2. i - 1 \in 1 .. Len(Tail(q)) /\ (i - 1) + 1 = i
    BY <1>1, <1>2, <1>4, <2>1
  <2>3. Tail(q)[i - 1] = x
    BY <1>1, <2>1, <2>2, Zenon
  <2> QED BY <2>2, <2>3, Zenon DEF Queued
<1> QED BY <1>1, <1>2, <1>3, <1>4, Zenon

\* A file in which no request is twice is no longer than there are requests.
LEMMA FileLength ==
  ASSUME NEW f \in Seq(Record), MaxReqs \in Nat,
         \A i, j \in 1 .. Len(f) : f[i].req = f[j].req => i = j
  PROVE  Len(f) <= MaxReqs
<1> DEFINE g == [i \in 1 .. Len(f) |-> f[i].req]
<1>1. Len(f) \in Nat /\ \A i \in 1 .. Len(f) : f[i] \in Record /\ f[i].req \in 1 .. MaxReqs
  <2>1. Len(f) \in Nat /\ \A i \in 1 .. Len(f) : f[i] \in Record
    BY LenProperties, ElementOfSeq, Zenon
  <2>2. \A rec \in Record : rec.req \in 1 .. MaxReqs
    BY Zenon DEF Record
  <2> QED BY <2>1, <2>2, Zenon
<1>2. g \in Injection(1 .. Len(f), 1 .. MaxReqs)
  BY <1>1, Zenon DEF Injection, IsInjective
<1>3. Cardinality(1 .. Len(f)) <= Cardinality(1 .. MaxReqs)
  <2> HIDE DEF g
  <2>1. IsFiniteSet(1 .. MaxReqs)
    BY FS_Interval
  <2> QED BY <1>2, <2>1, FS_Injection, Zenon
<1>4. Cardinality(1 .. Len(f)) = Len(f) /\ Cardinality(1 .. MaxReqs) = MaxReqs
  <2>1. \A n \in Nat : Cardinality(1 .. n) = n
    <3> TAKE n \in Nat
    <3>1. Cardinality(1 .. n) = IF 1 > n THEN 0 ELSE n - 1 + 1
      BY FS_Interval
    <3> QED BY <3>1
  <2> QED BY <1>1, <2>1, Zenon
<1> QED BY <1>1, <1>3, <1>4, Zenon
-----------------------------------------------------------------------------
(* The invariant, action by action.                                        *)

\* A step that leaves the log buffer and the files alone keeps what is said of them.
LEMMA LogUnchanged ==
  ASSUME IInv, UNCHANGED <<clock, reqs, pool, files, written>>
  PROVE  FilesType' /\ LoggedOnce' /\ FilesEndLater' /\ YoungRecordsKept'
<1> USE DEF IInv
<1>1. FilesType'
  BY Zenon DEF FilesType
<1>2. LoggedOnce'
  BY DEF LoggedOnce
<1>3. FilesEndLater'
  BY Zenon DEF FilesEndLater
<1>4. YoungRecordsKept'
  BY Zenon DEF YoungRecordsKept
<1> QED BY <1>1, <1>2, <1>3, <1>4, Zenon

\* Time passes.
LEMMA TickInv ==
  ASSUME IInv, Tick
  PROVE  IInv'
<1> USE DEF IInv
<1>1. /\ clock' = clock + 1 /\ clock < MaxTime
      /\ UNCHANGED <<phase, reqs, crashes, doc_pool, index, pool, time_begin, time_end,
                     files, visited, file, pos, unread, written, own, replayed, dropped>>
  BY Zenon DEF Tick, memory, replay, history
<1>2. CountersType'
  BY <1>1, ConstantsAssumption DEF CountersType
<1>3. YoungRecordsKept'
  <2>1. clock \in Int /\ Life \in Int /\ \A rec \in written : rec.time \in Int
    BY ConstantsAssumption DEF CountersType, HistoryType, Record
  <2>2. \A rec \in written : clock' - rec.time <= Life => clock - rec.time <= Life
    BY <1>1, <2>1
  <2> QED BY <1>1, <2>2, Zenon DEF YoungRecordsKept
<1>4. MemoryType' /\ FilesType' /\ ReplayType' /\ HistoryType'
  BY <1>1, Zenon DEF MemoryType, FilesType, ReplayType, HistoryType
<1>5. LoggedOnce' /\ ReadInReplay' /\ FilesEndLater'
  BY <1>1 DEF LoggedOnce, ReadInReplay, FilesEndLater
<1>6. OwnLater' /\ NoReplayOfOwnLog' /\ ReadIsAdded'
  BY <1>1, Zenon DEF OwnLater, NoReplayOfOwnLog, ReadIsAdded, Legible
<1> QED BY <1>2, <1>3, <1>4, <1>5, <1>6, Zenon

\* A request gets the next number, which is in no queue, file or set yet.
LEMMA AddStoryInv ==
  ASSUME IInv, AddStory
  PROVE  IInv'
<1> USE DEF IInv
<1>1. /\ phase # "down" /\ reqs < MaxReqs /\ reqs' = reqs + 1
      /\ doc_pool' = TryPut(doc_pool, reqs', DocPool)
      /\ pool' = TryPut(pool, reqs', LogBuffer)
      /\ own' = own \union {reqs'}
      /\ UNCHANGED <<clock, phase, crashes, index, time_begin, time_end, files, visited,
                     file, pos, unread, written, replayed, dropped>>
  BY Zenon DEF AddStory, Up, replay
<1>2. /\ reqs' \in 1 .. MaxReqs /\ reqs \in Nat /\ DocPool \in Nat /\ LogBuffer \in Nat
      /\ doc_pool \in Seq(1 .. MaxReqs) /\ Len(doc_pool) <= DocPool
      /\ pool \in Seq(1 .. MaxReqs) /\ Len(pool) <= LogBuffer
      /\ Len(pool) \in Nat
  BY <1>1, ConstantsAssumption, SMTT(20) DEF CountersType, MemoryType
<1>3. /\ doc_pool' \in Seq(1 .. MaxReqs) /\ Len(doc_pool') <= DocPool
      /\ \A x : Queued(x, doc_pool) => Queued(x, doc_pool')
  BY <1>1, <1>2, PutQueue, Zenon
<1>4. /\ pool' \in Seq(1 .. MaxReqs) /\ Len(pool') <= LogBuffer
      /\ \A i \in 1 .. Len(pool') : \/ (i = Len(pool) + 1 /\ pool'[i] = reqs')
                                    \/ (i \in 1 .. Len(pool) /\ pool'[i] = pool[i])
  <2> DEFINE T == 1 .. MaxReqs
             q2 == TryPut(pool, reqs', LogBuffer)
  <2>1. pool \in Seq(T) /\ reqs' \in T /\ LogBuffer \in Nat /\ Len(pool) <= LogBuffer
    BY <1>2, Zenon
  <2> HIDE DEF T
  <2>2. /\ q2 \in Seq(T) /\ Len(q2) <= LogBuffer
        /\ \A i \in 1 .. Len(q2) : \/ (i = Len(pool) + 1 /\ q2[i] = reqs')
                                  \/ (i \in 1 .. Len(pool) /\ q2[i] = pool[i])
    BY <2>1, PutQueue
  <2> HIDE DEF q2
  <2>3. pool' = q2
    BY <1>1, Zenon DEF q2
  <2> QED BY <2>2, <2>3, Zenon DEF T
<1>5. CountersType' /\ MemoryType'
  <2>1. CountersType'
    BY <1>1, <1>2 DEF CountersType
  <2> QED BY <1>1, <1>3, <1>4, <2>1, Zenon DEF MemoryType
<1>6. FilesType' /\ ReplayType' /\ HistoryType'
  BY <1>1, <1>2, Zenon DEF FilesType, ReplayType, HistoryType
<1>7. /\ \A i \in 1 .. Len(pool) : pool[i] \in Int /\ pool[i] < reqs'
      /\ \A rec \in written : rec.req \in Int /\ rec.req < reqs'
  <2>1. \A i \in 1 .. Len(pool) : pool[i] \in 1 .. MaxReqs /\ pool[i] <= reqs
    BY <1>2, ElementOfSeq, Zenon DEF LoggedOnce
  <2>2. \A rec \in written : rec.req \in 1 .. MaxReqs /\ rec.req <= reqs
    BY Zenon DEF LoggedOnce, HistoryType, Record
  <2> QED BY <1>1, <1>2, <2>1, <2>2
<1>8. LoggedOnce'
  <2>1. \A i, j \in 1 .. Len(pool') : pool'[i] = pool'[j] => i = j
    <3>1. \A i, j \in 1 .. Len(pool) : pool[i] = pool[j] => i = j
      BY Zenon DEF LoggedOnce
    <3> QED BY <1>4, <1>7, <3>1
  <2>2. \A i \in 1 .. Len(pool) : \A rec \in written : rec.req # pool[i]
    BY Zenon DEF LoggedOnce
  <2>3. \A i \in 1 .. Len(pool') : pool'[i] <= reqs'
    BY <1>2, <1>4, <1>7
  <2>4. \A i \in 1 .. Len(pool') : \A rec \in written : rec.req # pool'[i]
    BY <1>2, <1>4, <1>7, <2>2, SMTT(20)
  <2>5. \A rec \in written : rec.req <= reqs'
    BY <1>2, <1>7
  <2> QED BY <1>1, <2>1, <2>3, <2>4, <2>5 DEF LoggedOnce
<1>9. ReadInReplay' /\ FilesEndLater' /\ YoungRecordsKept'
  BY <1>1, Zenon DEF ReadInReplay, FilesEndLater, YoungRecordsKept
<1>10. \A r \in own \union replayed : r \in Int /\ r < reqs'
  BY <1>1, <1>2 DEF OwnLater, HistoryType
<1>11. OwnLater'
  <2>1. \A r \in own' \union replayed' : r <= reqs'
    BY <1>1, <1>2, <1>10
  <2>2. \A i \in 1 .. Len(pool') : pool'[i] \in own'
    BY <1>1, <1>4, Zenon DEF OwnLater
  <2>3. \A rec \in written : rec.req # reqs'
    BY <1>2, <1>7
  <2>4. phase' = "replay" => \A rec \in written' : rec.req \notin own'
    BY <1>1, <2>3, Zenon DEF OwnLater
  <2> QED BY <1>1, <2>1, <2>2, <2>4, Zenon DEF OwnLater
<1>12. NoReplayOfOwnLog'
  <2>1. reqs' \notin replayed
    BY <1>2, <1>10
  <2> QED BY <1>1, <2>1, Zenon DEF NoReplayOfOwnLog
<1>13. ReadIsAdded'
  BY <1>1, <1>3, Zenon DEF ReadIsAdded, Legible
<1> QED BY <1>5, <1>6, <1>8, <1>9, <1>11, <1>12, <1>13, Zenon

\* The build thread.
LEMMA BuildStoryInv ==
  ASSUME IInv, BuildStory
  PROVE  IInv'
<1> USE DEF IInv
<1>1. /\ doc_pool # <<>> /\ index' = index \union {Head(doc_pool)}
      /\ doc_pool' = Tail(doc_pool)
      /\ UNCHANGED <<clock, phase, reqs, crashes, pool, time_begin, time_end, files,
                     visited, file, pos, unread, written, own, replayed, dropped>>
  BY Zenon DEF BuildStory, replay, history
<1>2. doc_pool \in Seq(1 .. MaxReqs) /\ Len(doc_pool) <= DocPool /\ DocPool \in Nat
  BY ConstantsAssumption, Zenon DEF MemoryType
<1>3. /\ doc_pool' \in Seq(1 .. MaxReqs) /\ Len(doc_pool') = Len(doc_pool) - 1
      /\ Len(doc_pool) \in Nat
      /\ Head(doc_pool) \in 1 .. MaxReqs
      /\ \A x : Queued(x, doc_pool) => x = Head(doc_pool) \/ Queued(x, doc_pool')
  BY <1>1, <1>2, TakeQueue, Zenon
<1>4. MemoryType'
  <2>1. Len(doc_pool') <= DocPool
    BY <1>2, <1>3
  <2>2. index' \subseteq 1 .. MaxReqs
    BY <1>1, <1>3, Zenon DEF MemoryType
  <2> QED BY <1>1, <1>3, <2>1, <2>2, Zenon DEF MemoryType
<1>5. CountersType' /\ FilesType' /\ ReplayType' /\ HistoryType'
  BY <1>1, Zenon DEF CountersType, FilesType, ReplayType, HistoryType
<1>6. LoggedOnce' /\ ReadInReplay' /\ FilesEndLater' /\ YoungRecordsKept'
  BY <1>1, LogUnchanged, Zenon DEF ReadInReplay
<1>7. OwnLater' /\ NoReplayOfOwnLog'
  BY <1>1, Zenon DEF OwnLater, NoReplayOfOwnLog
<1>8. ReadIsAdded'
  BY <1>1, <1>3, Zenon DEF ReadIsAdded, Legible
<1> QED BY <1>4, <1>5, <1>6, <1>7, <1>8, Zenon

\* LocalTimeStrHMS keeps the order.
LEMMA LocalMonotone ==
  ASSUME NEW a \in Times, NEW b \in Times, a <= b
  PROVE  Local[a] \in Nat /\ Local[b] \in Nat /\ Local[a] <= Local[b]
<1>1. a \in Int /\ b \in Int
  BY ConstantsAssumption DEF Times
<1>2. Local[a] \in Nat /\ Local[b] \in Nat
  BY ConstantsAssumption, Zenon
<1>3. CASE a = b
  BY <1>2, <1>3
<1>4. CASE a < b
  BY <1>2, <1>4, ConstantsAssumption
<1> QED BY <1>1, <1>2, <1>3, <1>4

\* Record i of file n is where it was.
Kept(n, i) ==
  n \in DOMAIN files /\ i \in 1 .. Len(files[n]) /\ files'[n][i] = files[n][i]

\* Record rec is new at the end of the file with this name, and all else is kept.
NewEntry(name, rec) ==
  \E last \in 1 .. Len(files'[name]) :
    /\ files'[name][last] = rec
    /\ \A n \in DOMAIN files' : \A i \in 1 .. Len(files'[n]) :
         (n = name /\ i = last) \/ Kept(n, i)

\* A file that is created empty, or opened and left as it is: every record stays
\* where it is, and no file has another.
LEMMA TouchEntries ==
  ASSUME FilesType, NEW name \in Names, AppendTo(name, <<>>)
  PROVE  /\ FilesType' /\ written' = written
         /\ DOMAIN files' = DOMAIN files \union {name}
         /\ \A n \in DOMAIN files : files'[n] = files[n]
         /\ \A n \in DOMAIN files' : \A i \in 1 .. Len(files'[n]) : Kept(n, i)
<1>1. /\ files' = [n \in DOMAIN files \union {name} |->
                    IF n # name THEN files[n]
                    ELSE IF n \in DOMAIN files THEN files[n] \o <<>> ELSE <<>>]
      /\ written' = written \union Range(<<>>)
  BY Zenon DEF AppendTo
<1>2. Range(<<>>) = {}
  BY DEF Range
<1>3. ASSUME NEW n \in DOMAIN files PROVE files[n] \o <<>> = files[n]
  <2>1. files[n] \in Seq(Record)
    BY Zenon DEF FilesType
  <2> QED BY <2>1, ConcatEmptySeq, Zenon
<1>4. /\ DOMAIN files' = DOMAIN files \union {name}
      /\ \A n \in DOMAIN files : files'[n] = files[n]
      /\ \A n \in DOMAIN files' : n \notin DOMAIN files => files'[n] = <<>>
  BY <1>1, <1>3, Zenon
<1>5. <<>> \in Seq(Record) /\ 1 .. Len(<<>>) = {}
  BY EmptySeq
<1>6. FilesType'
  BY <1>4, <1>5, Zenon DEF FilesType
<1>7. \A n \in DOMAIN files' : \A i \in 1 .. Len(files'[n]) : Kept(n, i)
  BY <1>4, <1>5, Zenon DEF Kept
<1> QED BY <1>1, <1>2, <1>4, <1>6, <1>7, Zenon

\* A record, or a part of it, that reaches its file: every record stays where it is,
\* and the new one follows the last one of its file.
LEMMA AppendEntries ==
  ASSUME FilesType, NEW name \in Names, NEW rec \in Record, AppendTo(name, <<rec>>)
  PROVE  /\ FilesType' /\ written' = written \union {rec}
         /\ DOMAIN files' = DOMAIN files \union {name}
         /\ \A n \in DOMAIN files : \A i \in 1 .. Len(files[n]) :
              i \in 1 .. Len(files'[n]) /\ files'[n][i] = files[n][i]
         /\ NewEntry(name, rec)
<1> DEFINE old == IF name \in DOMAIN files THEN files[name] ELSE <<>>
           new == Append(old, rec)
           last == Len(old) + 1
<1>0. /\ files' = [n \in DOMAIN files \union {name} |->
                    IF n # name THEN files[n]
                    ELSE IF n \in DOMAIN files THEN files[n] \o <<rec>> ELSE <<rec>>]
      /\ written' = written \union {rec}
  <2>1. Range(<<rec>>) = {rec}
    BY DEF Range
  <2> QED BY <2>1, Zenon DEF AppendTo
<1>1. /\ DOMAIN files' = DOMAIN files \union {name}
      /\ \A n \in DOMAIN files : n # name => files'[n] = files[n]
  BY <1>0, Zenon
<1>2. files'[name] = new
  <2>1. CASE name \in DOMAIN files
    <3>1. files[name] \in Seq(Record)
      BY <2>1, Zenon DEF FilesType
    <3>2. files[name] \o <<rec>> = Append(files[name], rec)
      BY <3>1, AppendIsConcat, Zenon
    <3> QED BY <1>0, <2>1, <3>2, Zenon
  <2>2. CASE name \notin DOMAIN files
    <3>1. files'[name] = <<rec>>
      BY <1>0, <2>2, Zenon
    <3>2. Append(<<>>, rec) = <<rec>>
      OBVIOUS
    <3> QED BY <2>2, <3>1, <3>2, Zenon
  <2> QED BY <2>1, <2>2, Zenon
<1>3. old \in Seq(Record)
  BY EmptySeq, Zenon DEF FilesType
<1>4. name \in DOMAIN files => old = files[name]
  BY Zenon
<1>5. name \notin DOMAIN files => old = <<>>
  BY Zenon
<1> HIDE DEF old
<1>6. /\ new \in Seq(Record) /\ Len(new) = last /\ Len(old) \in Nat
      /\ \A i \in 1 .. Len(old) : new[i] = old[i]
      /\ new[last] = rec
  BY <1>3, AppendProperties
<1> HIDE DEF new
<1>7. \A i \in 1 .. Len(new) : i = last \/ i \in 1 .. Len(old)
  BY <1>6
<1>8. last \in 1 .. Len(new) /\ new # <<>>
  BY <1>6, EmptySeq
<1>9. \A i \in 1 .. Len(old) : i \in 1 .. Len(new)
  BY <1>6
<1> HIDE DEF last
<1>10. FilesType'
  BY <1>1, <1>2, <1>6, <1>8, Zenon DEF FilesType
<1>11. ASSUME NEW n \in DOMAIN files, NEW i \in 1 .. Len(files[n])
       PROVE  i \in 1 .. Len(files'[n]) /\ files'[n][i] = files[n][i]
  <2>1. CASE n = name
    BY <1>2, <1>4, <1>6, <1>9, <2>1, Zenon
  <2>2. CASE n # name
    BY <1>1, <2>2, Zenon
  <2> QED BY <2>1, <2>2, Zenon
<1>12. ASSUME NEW n \in DOMAIN files', NEW i \in 1 .. Len(files'[n])
       PROVE  (n = name /\ i = last) \/ Kept(n, i)
  <2>1. CASE n = name
    <3>1. i = last \/ i \in 1 .. Len(old)
      BY <1>2, <1>7, <2>1, Zenon
    <3>2. ASSUME i \in 1 .. Len(old)
          PROVE  n \in DOMAIN files
      <4>1. Len(<<>>) = 0
        BY Zenon
      <4> QED BY <1>5, <2>1, <3>2, <4>1
    <3>3. ASSUME i \in 1 .. Len(old)
          PROVE  Kept(n, i)
      BY <1>2, <1>4, <1>6, <2>1, <3>2, <3>3, Zenon DEF Kept
    <3> QED BY <2>1, <3>1, <3>3, Zenon
  <2>2. CASE n # name
    BY <1>1, <2>2, Zenon DEF Kept
  <2> QED BY <2>1, <2>2, Zenon
<1>13. last \in 1 .. Len(files'[name]) /\ files'[name][last] = rec
  BY <1>2, <1>6, <1>8, Zenon
<1>14. \A n \in DOMAIN files' : \A i \in 1 .. Len(files'[n]) :
         (n = name /\ i = last) \/ Kept(n, i)
  BY <1>12, Zenon
<1>15. NewEntry(name, rec)
  BY <1>13, <1>14, ZenonT(30) DEF NewEntry
<1> QED BY <1>0, <1>1, <1>10, <1>11, <1>15, Zenon

\* ReplayLogWriterThread: the record written is the oldest request of the buffer,
\* which is in no file, and its file ends no earlier than now.
LEMMA WriteInv ==
  ASSUME IInv, Write
  PROVE  IInv'
<1> USE DEF IInv
<1> DEFINE name == <<Local[time_begin'], Local[time_end']>>
<1>1. /\ phase = "run" /\ pool # <<>> /\ pool' = Tail(pool)
      /\ time_begin' = IF clock > time_end THEN clock ELSE time_begin
      /\ time_end' = IF clock > time_end THEN clock + Interval ELSE time_end
      /\ AppendRecord(name, Head(pool))
      /\ UNCHANGED <<clock, phase, reqs, crashes, doc_pool, index, visited, file, pos,
                     unread, own, replayed, dropped>>
  BY Zenon DEF Write, WriteLog, replay
<1>2. /\ pool' \in Seq(1 .. MaxReqs) /\ Len(pool') = Len(pool) - 1
      /\ Len(pool) \in Nat /\ Len(pool) >= 1
      /\ Head(pool) \in 1 .. MaxReqs /\ Head(pool) = pool[1]
      /\ \A i \in 1 .. Len(pool') : pool'[i] = pool[i + 1] /\ i + 1 \in 1 .. Len(pool)
  BY <1>1, TakeQueue, Zenon DEF MemoryType
<1>3. /\ clock \in Int /\ time_end \in Int /\ Interval \in Nat /\ MaxTime \in Nat
      /\ clock \in Times /\ clock + Interval \in Times
  BY ConstantsAssumption DEF CountersType, Times
<1>4. time_begin' \in Times /\ time_end' \in Times /\ clock <= time_end'
  BY <1>1, <1>3 DEF CountersType
<1>5. Local[clock] <= Local[time_end']
  BY <1>3, <1>4, LocalMonotone, Zenon
<1>6. name \in Names
  BY <1>4 DEF Names
<1>7. name[2] = Local[time_end']
  BY Zenon
<1> HIDE DEF name
<1>9. CountersType' /\ MemoryType'
  <2>1. Len(pool') <= LogBuffer
    BY <1>2, ConstantsAssumption DEF MemoryType
  <2>2. CountersType'
    BY <1>1, <1>4, Zenon DEF CountersType
  <2>3. MemoryType'
    BY <1>1, <1>2, <2>1, Zenon DEF MemoryType
  <2> QED BY <2>2, <2>3, Zenon
<1>10. /\ Head(pool) <= reqs /\ Head(pool) \in own
       /\ \A r \in written : r.req # Head(pool)
  <2>1. 1 \in 1 .. Len(pool)
    BY <1>2
  <2>2. pool[1] <= reqs /\ \A r \in written : r.req # pool[1]
    BY <2>1, Zenon DEF LoggedOnce
  <2>3. pool[1] \in own
    BY <2>1, Zenon DEF OwnLater
  <2> QED BY <1>2, <2>2, <2>3, Zenon
<1>11. \A i \in 1 .. Len(pool') : /\ pool'[i] <= reqs /\ pool'[i] # Head(pool)
                                  /\ pool'[i] \in own
                                  /\ \A r \in written : r.req # pool'[i]
  <2>1. SUFFICES ASSUME NEW i \in 1 .. Len(pool')
                 PROVE  /\ pool'[i] <= reqs /\ pool'[i] # Head(pool) /\ pool'[i] \in own
                        /\ \A r \in written : r.req # pool'[i]
    BY Zenon
  <2>2. pool'[i] = pool[i + 1] /\ i + 1 \in 1 .. Len(pool) /\ 1 \in 1 .. Len(pool)
    BY <1>2
  <2>3. i + 1 # 1
    BY <1>2
  <2> DEFINE k == i + 1
  <2> HIDE DEF k
  <2>4. pool'[i] = pool[k] /\ k \in 1 .. Len(pool) /\ 1 \in 1 .. Len(pool) /\ k # 1
    BY <2>2, <2>3, Zenon DEF k
  <2>5. pool[k] <= reqs /\ pool[k] # pool[1] /\ \A r \in written : r.req # pool[k]
    BY <2>4, Zenon DEF LoggedOnce
  <2>6. pool[k] \in own
    BY <2>4, Zenon DEF OwnLater
  <2> QED BY <1>2, <2>4, <2>5, <2>6, Zenon
<1>12. \A i, j \in 1 .. Len(pool') : pool'[i] = pool'[j] => i = j
  <2>1. SUFFICES ASSUME NEW i \in 1 .. Len(pool'), NEW j \in 1 .. Len(pool'),
                        pool'[i] = pool'[j]
                 PROVE  i = j
    BY Zenon
  <2> DEFINE k == i + 1
             l == j + 1
  <2>2. pool'[i] = pool[k] /\ k \in 1 .. Len(pool) /\ pool'[j] = pool[l] /\ l \in 1 .. Len(pool)
    BY <1>2, Zenon
  <2> HIDE DEF k, l
  <2>3. k = l
    BY <2>1, <2>2, Zenon DEF LoggedOnce
  <2> QED BY <2>3 DEF k, l
<1>13. file = <<>>
  BY <1>1, Zenon DEF ReadInReplay
<1>14. ReplayType' /\ ReadInReplay' /\ NoReplayOfOwnLog'
  BY <1>1, <1>13, Zenon DEF ReplayType, ReadInReplay, NoReplayOfOwnLog
<1>15. OwnLater'
  BY <1>1, <1>11, Zenon DEF OwnLater
<1>16. CASE UNCHANGED <<files, written>>
  <2>1. FilesType' /\ HistoryType' /\ FilesEndLater' /\ YoungRecordsKept'
    BY <1>1, <1>16, Zenon DEF FilesType, HistoryType, FilesEndLater, YoungRecordsKept
  <2>2. LoggedOnce'
    BY <1>1, <1>11, <1>12, <1>16 DEF LoggedOnce
  <2>3. ReadIsAdded'
    BY <1>1, <1>16, Zenon DEF ReadIsAdded, Legible
  <2> QED BY <1>9, <1>14, <1>15, <2>1, <2>2, <2>3, Zenon
<1>17. CASE AppendTo(name, <<>>)
  <2>1. /\ FilesType' /\ written' = written
        /\ DOMAIN files' = DOMAIN files \union {name}
        /\ \A n \in DOMAIN files : files'[n] = files[n]
        /\ \A n \in DOMAIN files' : \A i \in 1 .. Len(files'[n]) : Kept(n, i)
    BY <1>6, <1>17, TouchEntries, Zenon
  <2>2. HistoryType'
    BY <1>1, <2>1, Zenon DEF HistoryType
  <2>3. FilesEndLater'
    BY <2>1, Zenon DEF FilesEndLater, Kept
  <2>4. YoungRecordsKept'
    <3>1. SUFFICES ASSUME NEW r \in written, clock - r.time <= Life
                   PROVE  \E n \in DOMAIN files' : \E i \in 1 .. Len(files'[n]) :
                            files'[n][i] = r
      BY <1>1, <2>1, Zenon DEF YoungRecordsKept
    <3>2. PICK n \in DOMAIN files : \E i \in 1 .. Len(files[n]) : files[n][i] = r
      BY <3>1, Zenon DEF YoungRecordsKept
    <3>3. n \in DOMAIN files' /\ files'[n] = files[n]
      BY <2>1, Zenon
    <3> QED BY <3>2, <3>3, Zenon
  <2>5. LoggedOnce'
    <3>1. ASSUME NEW n \in DOMAIN files', NEW i \in 1 .. Len(files'[n]),
                 NEW j \in 1 .. Len(files'[n])
          PROVE  /\ files'[n][i] \in written
                 /\ files'[n][i].req = files'[n][j].req => i = j
      <4>1. n \in DOMAIN files /\ files'[n] = files[n]
        BY <2>1, <3>1, Zenon DEF Kept
      <4>2. i \in 1 .. Len(files[n]) /\ j \in 1 .. Len(files[n])
        BY <3>1, <4>1, Zenon
      <4>3. files[n][i] \in written /\ (files[n][i].req = files[n][j].req => i = j)
        BY <4>1, <4>2, Zenon DEF LoggedOnce
      <4> QED BY <4>1, <4>3, Zenon
    <3> QED BY <1>1, <1>11, <1>12, <2>1, <3>1 DEF LoggedOnce
  <2>6. ReadIsAdded'
    <3>1. ASSUME NEW n \in (visited \ unread) \intersect DOMAIN files',
                 NEW i \in 1 .. Len(files'[n]),
                 \A j \in 1 .. i : files'[n][j].whole
          PROVE  files'[n][i].req \in replayed \union own
      <4>1. n \in DOMAIN files /\ files'[n] = files[n]
        BY <2>1, <3>1, Zenon DEF Kept
      <4> QED BY <3>1, <4>1, Zenon DEF ReadIsAdded, Legible
    <3> QED BY <1>1, <1>13, <3>1, Zenon DEF ReadIsAdded, Legible
  <2> QED BY <1>9, <1>14, <1>15, <2>1, <2>2, <2>3, <2>4, <2>5, <2>6, Zenon
<1>18. ASSUME NEW whole \in BOOLEAN,
              AppendTo(name, <<[req |-> Head(pool), time |-> clock, whole |-> whole]>>)
       PROVE  IInv'
  <2> DEFINE rec == [req |-> Head(pool), time |-> clock, whole |-> whole]
  <2>0. rec \in Record /\ rec.req = Head(pool) /\ rec.time = clock
    BY <1>2, Zenon DEF Record, CountersType
  <2>9. AppendTo(name, <<rec>>)
    BY <1>18, Zenon
  <2> HIDE DEF rec
  <2>1. /\ FilesType' /\ written' = written \union {rec}
        /\ DOMAIN files' = DOMAIN files \union {name}
        /\ \A n \in DOMAIN files : \A i \in 1 .. Len(files[n]) :
             i \in 1 .. Len(files'[n]) /\ files'[n][i] = files[n][i]
        /\ NewEntry(name, rec)
    BY <1>6, <2>0, <2>9, AppendEntries, Zenon
  <2>2. PICK last \in 1 .. Len(files'[name]) :
          /\ files'[name][last] = rec
          /\ \A n \in DOMAIN files' : \A i \in 1 .. Len(files'[n]) :
               (n = name /\ i = last) \/ Kept(n, i)
    BY <2>1, Zenon DEF NewEntry
  <2>3. HistoryType'
    BY <1>1, <2>0, <2>1, Zenon DEF HistoryType
  <2>4. LoggedOnce'
    <3>1. \A n \in DOMAIN files' : \A i \in 1 .. Len(files'[n]) : files'[n][i] \in written'
      BY <2>1, <2>2 DEF LoggedOnce, Kept
    <3>2. \A n \in DOMAIN files' : \A i, j \in 1 .. Len(files'[n]) :
            files'[n][i].req = files'[n][j].req => i = j
      <4>1. SUFFICES ASSUME NEW n \in DOMAIN files', NEW i \in 1 .. Len(files'[n]),
                            NEW j \in 1 .. Len(files'[n]), i # j
                     PROVE  files'[n][i].req # files'[n][j].req
        BY Zenon
      <4>2. CASE n = name /\ i = last
        <5>1. files'[n][j] \in written /\ files'[n][i] = rec
          BY <2>2, <4>1, <4>2, ZenonT(30) DEF LoggedOnce, Kept
        <5> QED BY <2>0, <1>10, <5>1, Zenon
      <4>3. CASE n = name /\ j = last
        <5>1. files'[n][i] \in written /\ files'[n][j] = rec
          BY <2>2, <4>1, <4>3, Zenon DEF LoggedOnce, Kept
        <5> QED BY <2>0, <1>10, <5>1, Zenon
      <4>4. CASE ~(n = name /\ i = last) /\ ~(n = name /\ j = last)
        <5>1. /\ n \in DOMAIN files /\ i \in 1 .. Len(files[n]) /\ j \in 1 .. Len(files[n])
              /\ files'[n][i] = files[n][i] /\ files'[n][j] = files[n][j]
          BY <2>2, <4>4, Zenon DEF Kept
        <5> QED BY <4>1, <5>1, Zenon DEF LoggedOnce
      <4> QED BY <4>2, <4>3, <4>4, Zenon
    <3>3. \A r \in written' : r.req <= reqs'
      BY <1>1, <2>0, <1>10, <2>1, Zenon DEF LoggedOnce
    <3>4. \A i \in 1 .. Len(pool') : pool'[i] <= reqs' /\ \A r \in written' : r.req # pool'[i]
      BY <1>1, <2>0, <1>11, <2>1, Zenon
    <3> QED BY <1>12, <3>1, <3>2, <3>3, <3>4, Zenon DEF LoggedOnce
  <2>5. FilesEndLater'
    <3>1. Local[rec.time] <= name[2]
      BY <1>5, <1>7, <2>0, Zenon
    <3> QED BY <2>2, <3>1, Zenon DEF FilesEndLater, Kept
  <2>6. YoungRecordsKept'
    <3>1. \A r \in written : clock - r.time <= Life =>
            \E n \in DOMAIN files' : \E i \in 1 .. Len(files'[n]) : files'[n][i] = r
      BY <2>1 DEF YoungRecordsKept
    <3>2. \E n \in DOMAIN files' : \E i \in 1 .. Len(files'[n]) : files'[n][i] = rec
      BY <2>2, <2>1, Zenon
    <3> QED BY <1>1, <2>1, <3>1, <3>2 DEF YoungRecordsKept
  <2>7. ReadIsAdded'
    <3>1. ASSUME NEW n \in (visited \ unread) \intersect DOMAIN files',
                 NEW i \in 1 .. Len(files'[n]),
                 \A j \in 1 .. i : files'[n][j].whole
          PROVE  files'[n][i].req \in replayed \union own
      <4>2. CASE n = name /\ i = last
        BY <2>0, <1>10, <2>2, <4>2, Zenon
      <4>3. CASE Kept(n, i)
        <5>1. Len(files[n]) \in Nat
          BY <4>3, LenProperties, Zenon DEF FilesType, Kept
        <5>2. \A j \in 1 .. i : j \in 1 .. Len(files[n])
          BY <4>3, <5>1 DEF Kept
        <5>3. \A j \in 1 .. i : files[n][j].whole
          BY <2>1, <3>1, <4>3, <5>2, Zenon DEF Kept
        <5> QED BY <3>1, <4>3, <5>3, Zenon DEF ReadIsAdded, Legible, Kept
      <4> QED BY <2>2, <4>2, <4>3, Zenon
    <3> QED BY <1>1, <1>13, <3>1, Zenon DEF ReadIsAdded, Legible
  <2> QED BY <1>9, <1>14, <1>15, <2>1, <2>3, <2>4, <2>5, <2>6, <2>7, ZenonT(30)
<1> QED BY <1>1, <1>16, <1>17, <1>18, Zenon DEF AppendRecord

\* CleanOldStoryThread::CleanReplayLog: every record of a removed file is older than
\* the end of the file, and that is older than doc_life_time.
LEMMA CleanReplayLogInv ==
  ASSUME IInv, CleanReplayLog
  PROVE  IInv'
<1> USE DEF IInv
<1>1. PICK removed \in SUBSET {n \in DOMAIN files : Local[clock - Life] > n[2]} :
        files' = [n \in DOMAIN files \ removed |-> files[n]]
  BY Zenon DEF CleanReplayLog, RemoveBefore
<1>2. /\ phase = "run" /\ clock >= Life
      /\ UNCHANGED <<clock, phase, reqs, crashes, doc_pool, index, pool, time_begin,
                     time_end, visited, file, pos, unread, written, own, replayed, dropped>>
  BY Zenon DEF CleanReplayLog, RemoveBefore, memory, replay, history
<1>3. /\ DOMAIN files' = DOMAIN files \ removed
      /\ \A n \in DOMAIN files' : files'[n] = files[n]
  BY <1>1, Zenon
<1>4. CountersType' /\ MemoryType' /\ HistoryType'
  BY <1>2, Zenon DEF CountersType, MemoryType, HistoryType
<1>5. FilesType'
  BY <1>3, Zenon DEF FilesType
<1>6. file = <<>>
  BY <1>2, Zenon DEF ReadInReplay
<1>7. ReplayType' /\ ReadInReplay' /\ OwnLater' /\ NoReplayOfOwnLog'
  BY <1>2, <1>6, Zenon DEF ReplayType, ReadInReplay, OwnLater, NoReplayOfOwnLog
<1>8. LoggedOnce' /\ FilesEndLater'
  BY <1>2, <1>3 DEF LoggedOnce, FilesEndLater
<1>9. ReadIsAdded'
  BY <1>2, <1>3, <1>6, Zenon DEF ReadIsAdded, Legible
<1>10. YoungRecordsKept'
  <2>1. SUFFICES ASSUME NEW rec \in written, clock - rec.time <= Life
                 PROVE  \E n \in DOMAIN files' : \E i \in 1 .. Len(files'[n]) :
                          files'[n][i] = rec
    BY <1>2, Zenon DEF YoungRecordsKept
  <2>2. PICK n \in DOMAIN files : \E i \in 1 .. Len(files[n]) : files[n][i] = rec
    BY <2>1, Zenon DEF YoungRecordsKept
  <2>3. Local[rec.time] <= n[2]
    BY <2>2, Zenon DEF FilesEndLater
  <2>4. clock - Life <= rec.time
    BY <2>1, ConstantsAssumption DEF CountersType, HistoryType, Record
  <2>5. clock - Life \in Times /\ rec.time \in Times
    <3>1. rec.time \in 0 .. MaxTime
      BY Zenon DEF HistoryType, Record
    <3> QED BY <1>2, <3>1, ConstantsAssumption, SMTT(20) DEF CountersType, Times
  <2>6. /\ Local[clock - Life] \in Nat /\ Local[rec.time] \in Nat
        /\ Local[clock - Life] <= Local[rec.time]
    BY <2>4, <2>5, LocalMonotone, Zenon
  <2>7. n[2] \in Nat
    BY <2>2, ConstantsAssumption DEF FilesType, Names
  <2>8. ~(Local[clock - Life] > n[2])
    BY <2>3, <2>6, <2>7
  <2>9. n \notin removed
    BY <2>8, Zenon
  <2> QED BY <1>3, <2>2, <2>9, Zenon
<1> QED BY <1>4, <1>5, <1>7, <1>8, <1>9, <1>10, Zenon

-----------------------------------------------------------------------------
(* InstantIndex::Replay.                                                   *)

\* The file being read: its records are typed, are in the log, and are fewer than
\* the bound on the requests.
LEMMA OpenFile ==
  ASSUME IInv, file # <<>>
  PROVE  /\ file \in DOMAIN files /\ files[file] \in Seq(Record)
         /\ Len(files[file]) \in 0 .. MaxReqs
         /\ \A i \in 1 .. Len(files[file]) :
              /\ files[file][i] \in written
              /\ files[file][i].req \in 1 .. MaxReqs
<1> USE DEF IInv
<1>1. file \in DOMAIN files
  BY Zenon DEF ReplayType
<1>2. files[file] \in Seq(Record)
  BY <1>1, Zenon DEF FilesType
<1>3. /\ \A i \in 1 .. Len(files[file]) : files[file][i] \in written
      /\ \A i, j \in 1 .. Len(files[file]) : files[file][i].req = files[file][j].req => i = j
  BY <1>1, Zenon DEF LoggedOnce
<1>4. Len(files[file]) <= MaxReqs
  BY <1>2, <1>3, ConstantsAssumption, FileLength, Zenon
<1>5. Len(files[file]) \in Nat
  BY <1>2, LenProperties, Zenon
<1>6. \A rec \in written : rec.req \in 1 .. MaxReqs
  BY Zenon DEF HistoryType, Record
<1> QED BY <1>1, <1>2, <1>3, <1>4, <1>5, <1>6, ConstantsAssumption

\* The next file.
LEMMA ReplayOpenInv ==
  ASSUME IInv, NEW n \in DOMAIN files, ReplayOpen(n)
  PROVE  IInv'
<1> USE DEF IInv
<1>1. /\ phase = "replay" /\ file' = n /\ pos' = 0
      /\ unread \subseteq unread' /\ unread' \subseteq unread \union {n}
      /\ UNCHANGED <<clock, phase, reqs, crashes, doc_pool, index, pool, time_begin,
                     time_end, files, visited, written, own, replayed, dropped>>
  BY Zenon DEF ReplayOpen, memory, history
<1>2. CountersType' /\ MemoryType' /\ FilesType' /\ HistoryType'
  BY <1>1, Zenon DEF CountersType, MemoryType, FilesType, HistoryType
<1>3. ReplayType'
  <2>1. 0 \in 0 .. MaxReqs
    BY ConstantsAssumption
  <2>2. unread' \subseteq Names
    BY <1>1, Zenon DEF ReplayType, FilesType
  <2> QED BY <1>1, <2>1, <2>2, Zenon DEF ReplayType
<1>4. LoggedOnce' /\ FilesEndLater' /\ YoungRecordsKept'
  BY <1>1, LogUnchanged, Zenon
<1>5. OwnLater' /\ NoReplayOfOwnLog'
  BY <1>1, Zenon DEF OwnLater, NoReplayOfOwnLog
<1>6. ReadInReplay'
  <2>1. Len(files[n]) \in Nat
    BY LenProperties, Zenon DEF FilesType
  <2> QED BY <1>1, <2>1 DEF ReadInReplay
<1>7. ReadIsAdded'
  <2>1. 1 .. pos' = {}
    BY <1>1
  <2> QED BY <1>1, <2>1, Zenon DEF ReadIsAdded, Legible
<1> QED BY <1>2, <1>3, <1>4, <1>5, <1>6, <1>7, Zenon

\* What Replay has added after a step, all of it from the log of earlier runs.
Added ==
  /\ MemoryType'
  /\ replayed' \subseteq 1 .. MaxReqs /\ dropped' \subseteq 1 .. MaxReqs
  /\ replayed \subseteq replayed'
  /\ \A x \in replayed' : x <= reqs /\ x \notin own
  /\ \A x \in replayed' : x \in index \/ x \in dropped' \/ Queued(x, doc_pool')

\* A request that was logged, so no request of this run, enters the doc pool or is
\* dropped.
LEMMA AddKeeps ==
  ASSUME IInv, phase = "replay", NEW r, ReplayAdd(r),
         r \in replayed \/ \E rec \in written : rec.req = r,
         UNCHANGED <<index, pool>>
  PROVE  Added /\ r \in replayed'
<1> USE DEF IInv
<1>1. /\ doc_pool' = TryPut(doc_pool, r, DocPool)
      /\ replayed' = replayed \union {r}
      /\ dropped' = IF Len(doc_pool) < DocPool \/ r \in replayed
                    THEN dropped ELSE dropped \union {r}
  BY Zenon DEF ReplayAdd
<1>2. r \in 1 .. MaxReqs /\ r <= reqs /\ r \notin own
  <2>1. CASE r \in replayed
    BY <2>1, Zenon DEF HistoryType, OwnLater, NoReplayOfOwnLog
  <2>2. CASE \E rec \in written : rec.req = r
    <3>1. PICK rec \in written : rec.req = r
      BY <2>2, Zenon
    <3>2. rec.req \in 1 .. MaxReqs
      BY Zenon DEF HistoryType, Record
    <3>3. rec.req <= reqs
      BY Zenon DEF LoggedOnce
    <3>4. rec.req \notin own
      BY Zenon DEF OwnLater
    <3> QED BY <3>1, <3>2, <3>3, <3>4, Zenon
  <2> QED BY <2>1, <2>2, Zenon
<1>3. /\ doc_pool' \in Seq(1 .. MaxReqs) /\ Len(doc_pool') <= DocPool
      /\ \A x : Queued(x, doc_pool) => Queued(x, doc_pool')
      /\ Len(doc_pool) < DocPool => Queued(r, doc_pool')
  <2> DEFINE T == 1 .. MaxReqs
  <2>1. doc_pool \in Seq(T) /\ r \in T /\ DocPool \in Nat /\ Len(doc_pool) <= DocPool
    BY <1>2, ConstantsAssumption, Zenon DEF MemoryType
  <2> HIDE DEF T
  <2> DEFINE q2 == TryPut(doc_pool, r, DocPool)
  <2>2. /\ q2 \in Seq(T) /\ Len(q2) <= DocPool
        /\ \A x : Queued(x, doc_pool) => Queued(x, q2)
        /\ Len(doc_pool) < DocPool => Queued(r, q2)
    BY <2>1, PutQueue, Zenon
  <2> HIDE DEF q2
  <2>3. doc_pool' = q2
    BY <1>1, Zenon DEF q2
  <2> QED BY <2>2, <2>3, Zenon DEF T
<1>4. MemoryType'
  BY <1>3, Zenon DEF MemoryType
<1>5. /\ replayed' \subseteq 1 .. MaxReqs /\ dropped' \subseteq 1 .. MaxReqs
      /\ replayed \subseteq replayed' /\ r \in replayed'
  BY <1>1, <1>2, Zenon DEF HistoryType
<1>6. \A x \in replayed' : x <= reqs /\ x \notin own
  BY <1>1, <1>2, Zenon DEF OwnLater, NoReplayOfOwnLog
<1>7. ASSUME NEW x \in replayed PROVE x \in index \/ x \in dropped' \/ Queued(x, doc_pool')
  BY <1>1, <1>3, Zenon DEF ReadIsAdded
<1>8. r \notin replayed => r \in dropped' \/ Queued(r, doc_pool')
  BY <1>1, <1>3, Zenon
<1>9. \A x \in replayed' : x \in index \/ x \in dropped' \/ Queued(x, doc_pool')
  BY <1>1, <1>7, <1>8, Zenon
<1> QED BY <1>4, <1>5, <1>6, <1>9, Zenon DEF Added

\* A turn of the loop that reads no whole record.
LEMMA LeftoverKeeps ==
  ASSUME IInv, phase = "replay", NEW rest \in SUBSET written, ReplayLeftover(rest),
         UNCHANGED <<index, pool>>
  PROVE  Added
<1>1. CASE UNCHANGED <<doc_pool, replayed, dropped>>
  <2>1. MemoryType'
    BY <1>1, Zenon DEF IInv, MemoryType
  <2>2. /\ replayed \subseteq 1 .. MaxReqs /\ dropped \subseteq 1 .. MaxReqs
        /\ \A x \in replayed : x <= reqs /\ x \notin own
    BY Zenon DEF IInv, HistoryType, OwnLater, NoReplayOfOwnLog
  <2> QED BY <1>1, <2>1, <2>2, Zenon DEF IInv, ReadIsAdded, Added
<1>2. ASSUME NEW r \in replayed \union {rec.req : rec \in rest}, ReplayAdd(r)
      PROVE  Added
  <2>1. r \in replayed \/ \E rec \in written : rec.req = r
    BY <1>2, Zenon
  <2> QED BY <1>2, <2>1, AddKeeps, Zenon
<1> QED BY <1>1, <1>2, Zenon DEF ReplayLeftover

\* What Added says, in the invariant.
LEMMA AddedInv ==
  ASSUME IInv, phase = "replay", Added,
         UNCHANGED <<clock, phase, reqs, crashes, index, pool, time_begin, time_end,
                     files, written, own>>,
         visited' \subseteq Names
  PROVE  /\ CountersType' /\ MemoryType' /\ FilesType' /\ HistoryType'
         /\ LoggedOnce' /\ FilesEndLater' /\ YoungRecordsKept'
         /\ OwnLater' /\ NoReplayOfOwnLog'
         /\ \A x \in replayed' : x \in index' \/ x \in dropped' \/ Queued(x, doc_pool')
<1> USE DEF IInv
<1>1. CountersType' /\ MemoryType' /\ FilesType' /\ HistoryType'
  BY Zenon DEF CountersType, FilesType, HistoryType, Added
<1>2. LoggedOnce' /\ FilesEndLater' /\ YoungRecordsKept'
  BY LogUnchanged, Zenon
<1>3. OwnLater'
  BY Zenon DEF OwnLater, Added
<1>4. NoReplayOfOwnLog'
  BY Zenon DEF NoReplayOfOwnLog, Added
<1>5. \A x \in replayed' : x \in index' \/ x \in dropped' \/ Queued(x, doc_pool')
  BY Zenon DEF Added
<1> QED BY <1>1, <1>2, <1>3, <1>4, <1>5, Zenon

\* The next record.
LEMMA ReplayRecordInv ==
  ASSUME IInv, ReplayRecord
  PROVE  IInv'
<1> USE DEF IInv
<1> DEFINE r == files[file][pos'].req
<1>1. /\ phase = "replay" /\ file # <<>> /\ pos < Len(files[file]) /\ pos' = pos + 1
      /\ ReplayAdd(r)
      /\ UNCHANGED <<clock, phase, reqs, crashes, index, pool, time_begin, time_end,
                     files, visited, file, unread, written, own>>
  BY Zenon DEF ReplayRecord
<1>2. /\ file \in DOMAIN files /\ Len(files[file]) \in 0 .. MaxReqs /\ MaxReqs \in Nat
      /\ pos \in Nat
      /\ \A i \in 1 .. Len(files[file]) :
           files[file][i] \in written /\ files[file][i].req \in 1 .. MaxReqs
  <2>1. pos \in Nat /\ MaxReqs \in Nat
    BY ConstantsAssumption DEF ReplayType
  <2> QED BY <1>1, <2>1, OpenFile, Zenon
<1>3. pos' \in 1 .. Len(files[file]) /\ pos' \in 0 .. MaxReqs
  <2> DEFINE n == Len(files[file])
  <2>1. n \in 0 .. MaxReqs /\ MaxReqs \in Nat /\ pos \in Nat /\ pos < n /\ pos' = pos + 1
    BY <1>1, <1>2, Zenon
  <2> HIDE DEF n
  <2>2. pos' \in 1 .. n /\ pos' \in 0 .. MaxReqs
    BY <2>1
  <2> QED BY <2>2, Zenon DEF n
<1>4. \E rec \in written : rec.req = r
  BY <1>2, <1>3, Zenon
<1> HIDE DEF r
<1>5. Added /\ r \in replayed'
  BY <1>1, <1>4, AddKeeps, Zenon
<1>6. /\ CountersType' /\ MemoryType' /\ FilesType' /\ HistoryType'
      /\ LoggedOnce' /\ FilesEndLater' /\ YoungRecordsKept'
      /\ OwnLater' /\ NoReplayOfOwnLog'
      /\ \A x \in replayed' : x \in index' \/ x \in dropped' \/ Queued(x, doc_pool')
  BY <1>1, <1>5, AddedInv, Zenon DEF ReplayType
<1>7. ReplayType'
  BY <1>1, <1>3, Zenon DEF ReplayType
<1>8. ReadInReplay'
  BY <1>1, <1>3 DEF ReadInReplay
<1>9. ReadIsAdded'
  <2>1. replayed \subseteq replayed'
    BY <1>5, Zenon DEF Added
  <2>2. \A i \in 1 .. pos' : files[file][i].req \in replayed'
    <3>1. \A i \in 1 .. pos' : i \in 1 .. pos \/ i = pos'
      BY <1>1, <1>2
    <3>2. files[file][pos'].req \in replayed'
      BY <1>5, Zenon DEF r
    <3>3. \A i \in 1 .. pos : files[file][i].req \in replayed
      BY <1>1, Zenon DEF ReadIsAdded
    <3> QED BY <2>1, <3>1, <3>2, <3>3, Zenon
  <2> QED BY <1>1, <1>6, <2>1, <2>2, Zenon DEF ReadIsAdded, Legible
<1> QED BY <1>6, <1>7, <1>8, <1>9, Zenon

\* The end of a file, with a record perhaps added again: all its legible records have
\* been read.
LEMMA ReplayEOFInv ==
  ASSUME IInv, ReplayEOF
  PROVE  IInv'
<1> USE DEF IInv
<1> DEFINE rest == {files[file][i] : i \in {pos + 1} \intersect 1 .. Len(files[file])}
<1>1. /\ phase = "replay" /\ file # <<>>
      /\ pos < Len(files[file]) => ~files[file][pos + 1].whole
      /\ ReplayLeftover(rest)
      /\ visited' = visited \union {file}
      /\ file' = <<>> /\ pos' = 0
      /\ UNCHANGED <<clock, phase, reqs, crashes, index, pool, time_begin, time_end,
                     files, unread, written, own>>
  BY Zenon DEF ReplayEOF, ReplayClose, NextFile
<1>2. /\ file \in DOMAIN files /\ Len(files[file]) \in 0 .. MaxReqs
      /\ \A i \in 1 .. Len(files[file]) : files[file][i] \in written
  BY <1>1, OpenFile, Zenon
<1>3. rest \in SUBSET written
  BY <1>2, Zenon
<1> HIDE DEF rest
<1>4. Added
  BY <1>1, <1>3, LeftoverKeeps, Zenon
<1>5. visited' \subseteq Names
  BY <1>1, <1>2, Zenon DEF ReplayType, FilesType
<1>6. /\ CountersType' /\ MemoryType' /\ FilesType' /\ HistoryType'
      /\ LoggedOnce' /\ FilesEndLater' /\ YoungRecordsKept'
      /\ OwnLater' /\ NoReplayOfOwnLog'
      /\ \A x \in replayed' : x \in index' \/ x \in dropped' \/ Queued(x, doc_pool')
  BY <1>1, <1>4, <1>5, AddedInv, Zenon
<1>7. ReplayType'
  BY <1>1, <1>5, ConstantsAssumption DEF ReplayType
<1>8. ReadInReplay'
  BY <1>1, Zenon DEF ReadInReplay
<1>9. ReadIsAdded'
  <2>1. replayed \subseteq replayed'
    BY <1>4, Zenon DEF Added
  <2>2. \A i \in Legible(file) : i \in 1 .. pos
    <3>1. SUFFICES ASSUME NEW i \in 1 .. Len(files[file]),
                          \A j \in 1 .. i : files[file][j].whole, i \notin 1 .. pos
                   PROVE  FALSE
      BY Zenon DEF Legible
    <3> DEFINE len == Len(files[file])
               next == pos + 1
    <3>2. len \in Nat /\ pos \in Nat /\ i \in 1 .. len
      BY <1>2, <3>1, ConstantsAssumption DEF ReplayType
    <3> HIDE DEF len
    <3>3. pos < len /\ next \in 1 .. i
      BY <3>1, <3>2
    <3> HIDE DEF next
    <3>4. files[file][next].whole
      BY <3>1, <3>3, Zenon
    <3> QED BY <1>1, <3>3, <3>4, Zenon DEF len, next
  <2>3. \A i \in Legible(file) : files[file][i].req \in replayed
    BY <1>1, <2>2, Zenon DEF ReadIsAdded
  <2>4. \A n \in (visited' \ unread') \intersect DOMAIN files' : \A i \in Legible(n) :
          files[n][i].req \in replayed' \union own'
    BY <1>1, <2>1, <2>3, Zenon DEF ReadIsAdded
  <2> QED BY <1>1, <1>6, <2>4, Zenon DEF ReadIsAdded, Legible
<1> QED BY <1>6, <1>7, <1>8, <1>9, Zenon

\* A turn at a file that did not open.
LEMMA ReplaySpinInv ==
  ASSUME IInv, ReplaySpin
  PROVE  IInv'
<1> USE DEF IInv
<1>1. /\ phase = "replay" /\ ReplayLeftover({})
      /\ UNCHANGED <<clock, phase, reqs, crashes, index, pool, time_begin, time_end,
                     files, visited, file, pos, unread, written, own>>
  BY Zenon DEF ReplaySpin, replay
<1>2. Added
  <2>1. {} \in SUBSET written
    BY Zenon
  <2> QED BY <1>1, <2>1, LeftoverKeeps, Zenon
<1>3. /\ CountersType' /\ MemoryType' /\ FilesType' /\ HistoryType'
      /\ LoggedOnce' /\ FilesEndLater' /\ YoungRecordsKept'
      /\ OwnLater' /\ NoReplayOfOwnLog'
      /\ \A x \in replayed' : x \in index' \/ x \in dropped' \/ Queued(x, doc_pool')
  BY <1>1, <1>2, AddedInv, Zenon DEF ReplayType
<1>4. ReplayType' /\ ReadInReplay'
  BY <1>1, Zenon DEF ReplayType, ReadInReplay
<1>5. ReadIsAdded'
  <2>1. replayed \subseteq replayed'
    BY <1>2, Zenon DEF Added
  <2> QED BY <1>1, <1>3, <2>1, Zenon DEF ReadIsAdded, Legible
<1> QED BY <1>3, <1>4, <1>5, Zenon

\* A file that did not open is left: it does not count as read.
LEMMA ReplayCatchInv ==
  ASSUME IInv, ReplayCatch
  PROVE  IInv'
<1> USE DEF IInv
<1>1. /\ phase = "replay" /\ file \in unread
      /\ visited' = visited \union {file} /\ file' = <<>> /\ pos' = 0
      /\ UNCHANGED <<clock, phase, reqs, crashes, doc_pool, index, pool, time_begin,
                     time_end, files, unread, written, own, replayed, dropped>>
  BY Zenon DEF ReplayCatch, NextFile
<1>2. CountersType' /\ MemoryType' /\ FilesType' /\ HistoryType'
  BY <1>1, Zenon DEF CountersType, MemoryType, FilesType, HistoryType
<1>3. ReplayType'
  <2>1. visited' \subseteq Names
    BY <1>1, Zenon DEF ReplayType
  <2> QED BY <1>1, <2>1, ConstantsAssumption DEF ReplayType
<1>4. LoggedOnce' /\ FilesEndLater' /\ YoungRecordsKept'
  BY <1>1, LogUnchanged, Zenon
<1>5. ReadInReplay' /\ NoReplayOfOwnLog' /\ OwnLater'
  BY <1>1, Zenon DEF ReadInReplay, NoReplayOfOwnLog, OwnLater
<1>6. ReadIsAdded'
  BY <1>1, Zenon DEF ReadIsAdded, Legible
<1> QED BY <1>2, <1>3, <1>4, <1>5, <1>6, Zenon

\* The threads start.
LEMMA ReplayDoneInv ==
  ASSUME IInv, ReplayDone
  PROVE  IInv'
<1> USE DEF IInv
<1>1. /\ phase = "replay" /\ file = <<>> /\ phase' = "run"
      /\ UNCHANGED <<clock, reqs, crashes, doc_pool, index, pool, time_begin, time_end,
                     files, visited, file, pos, unread, written, own, replayed, dropped>>
  BY Zenon DEF ReplayDone, memory, replay, history
<1>2. CountersType' /\ MemoryType' /\ FilesType' /\ ReplayType' /\ HistoryType'
  BY <1>1, Zenon DEF CountersType, MemoryType, FilesType, ReplayType, HistoryType
<1>3. LoggedOnce' /\ FilesEndLater' /\ YoungRecordsKept'
  BY <1>1, LogUnchanged, Zenon
<1>4. ReadInReplay' /\ NoReplayOfOwnLog' /\ OwnLater'
  BY <1>1, Zenon DEF ReadInReplay, NoReplayOfOwnLog, OwnLater
<1>5. ReadIsAdded'
  BY <1>1, Zenon DEF ReadIsAdded, Legible
<1> QED BY <1>2, <1>3, <1>4, <1>5, Zenon

-----------------------------------------------------------------------------
(* The life of the process.                                                *)

\* A crash loses the memory, not the files.
LEMMA CrashInv ==
  ASSUME IInv, Crash
  PROVE  IInv'
<1> USE DEF IInv
<1>1. /\ phase' = "down" /\ crashes < MaxCrashes /\ crashes' = crashes + 1
      /\ doc_pool' = <<>> /\ index' = {} /\ pool' = <<>>
      /\ visited' = {} /\ file' = <<>> /\ pos' = 0 /\ unread' = {}
      /\ own' = {} /\ replayed' = {} /\ dropped' = {}
      /\ UNCHANGED <<clock, reqs, time_begin, time_end, files, written>>
  BY Zenon DEF Crash
<1>2. CountersType' /\ FilesType'
  BY <1>1, ConstantsAssumption DEF CountersType, FilesType
<1>3. MemoryType'
  <2>1. <<>> \in Seq(1 .. MaxReqs) /\ Len(<<>>) = 0
    BY EmptySeq, Zenon
  <2> QED BY <1>1, <2>1, ConstantsAssumption DEF MemoryType
<1>4. ReplayType' /\ HistoryType'
  BY <1>1, ConstantsAssumption DEF ReplayType, HistoryType
<1>5. LoggedOnce'
  <2>1. 1 .. Len(pool') = {}
    BY <1>1
  <2> QED BY <1>1, <2>1 DEF LoggedOnce
<1>6. FilesEndLater' /\ YoungRecordsKept'
  BY <1>1, Zenon DEF FilesEndLater, YoungRecordsKept
<1>7. ReadInReplay' /\ NoReplayOfOwnLog' /\ ReadIsAdded'
  BY <1>1, Zenon DEF ReadInReplay, NoReplayOfOwnLog, ReadIsAdded, Legible
<1>8. OwnLater'
  BY <1>1 DEF OwnLater
<1> QED BY <1>2, <1>3, <1>4, <1>5, <1>6, <1>7, <1>8, Zenon

\* A start finds the files of earlier runs, and has accepted nothing yet.
LEMMA StartInv ==
  ASSUME IInv, Start
  PROVE  IInv'
<1> USE DEF IInv
<1>1. /\ phase = "down" /\ phase' = "replay"
      /\ time_begin' = clock /\ time_end' = clock + Interval
      /\ UNCHANGED <<clock, reqs, crashes, doc_pool, index, pool, files, visited, file,
                     pos, unread, written, own, replayed, dropped>>
  BY Zenon DEF Start, memory, replay, history
<1>2. CountersType'
  BY <1>1, ConstantsAssumption, SMTT(20) DEF CountersType, Times
<1>3. MemoryType' /\ FilesType' /\ ReplayType' /\ HistoryType'
  BY <1>1, Zenon DEF MemoryType, FilesType, ReplayType, HistoryType
<1>4. LoggedOnce' /\ FilesEndLater' /\ YoungRecordsKept'
  BY <1>1, LogUnchanged, Zenon
<1>5. ReadInReplay' /\ NoReplayOfOwnLog' /\ ReadIsAdded'
  BY <1>1, Zenon DEF ReadInReplay, NoReplayOfOwnLog, ReadIsAdded, Legible
<1>6. OwnLater'
  BY <1>1, Zenon DEF OwnLater
<1> QED BY <1>2, <1>3, <1>4, <1>5, <1>6, Zenon

\* The first start finds an empty log directory.
LEMMA InitInv == Init => IInv
<1> SUFFICES ASSUME Init PROVE IInv
  BY Zenon
<1> USE DEF Init
<1>1. CountersType
  BY ConstantsAssumption DEF CountersType, Times
<1>2. MemoryType
  <2>1. <<>> \in Seq(1 .. MaxReqs) /\ Len(<<>>) = 0
    BY EmptySeq, Zenon
  <2> QED BY <2>1, ConstantsAssumption DEF MemoryType
<1>3. FilesType /\ ReplayType /\ HistoryType
  BY ConstantsAssumption DEF FilesType, ReplayType, HistoryType
<1>4. 1 .. Len(pool) = {}
  OBVIOUS
<1>5. LoggedOnce /\ FilesEndLater /\ YoungRecordsKept
  BY <1>4, Zenon DEF LoggedOnce, FilesEndLater, YoungRecordsKept
<1>6. ReadInReplay /\ NoReplayOfOwnLog /\ ReadIsAdded
  BY Zenon DEF ReadInReplay, NoReplayOfOwnLog, ReadIsAdded, Legible
<1>7. OwnLater
  BY <1>4, Zenon DEF OwnLater
<1> QED BY <1>1, <1>2, <1>3, <1>5, <1>6, <1>7, Zenon DEF IInv

\* A stuttering step.
LEMMA StutterInv ==
  ASSUME IInv, UNCHANGED vars
  PROVE  IInv'
<1> USE DEF IInv
<1>1. UNCHANGED <<clock, phase, reqs, crashes, doc_pool, index, pool, time_begin,
                  time_end, files, visited, file, pos, unread, written, own, replayed, dropped>>
  BY Zenon DEF vars, memory, replay, history
<1>2. CountersType' /\ MemoryType' /\ FilesType' /\ ReplayType' /\ HistoryType'
  BY <1>1, Zenon DEF CountersType, MemoryType, FilesType, ReplayType, HistoryType
<1>3. LoggedOnce' /\ FilesEndLater' /\ YoungRecordsKept'
  BY <1>1, LogUnchanged, Zenon
<1>4. ReadInReplay' /\ NoReplayOfOwnLog' /\ OwnLater' /\ ReadIsAdded'
  BY <1>1, Zenon DEF ReadInReplay, NoReplayOfOwnLog, OwnLater, ReadIsAdded, Legible
<1> QED BY <1>2, <1>3, <1>4, Zenon

\* IInv is an invariant of the index with its log, its replay and its crashes.
THEOREM Invariant == Spec => []IInv
<1>1. IInv /\ [Next]_vars => IInv'
  BY TickInv, AddStoryInv, BuildStoryInv, WriteInv, CleanReplayLogInv, ReplayOpenInv,
     ReplayRecordInv, ReplayEOFInv, ReplaySpinInv, ReplayCatchInv, ReplayDoneInv, CrashInv,
     StartInv, StutterInv, ZenonT(30)
     DEF Next, Replay
<1> QED BY <1>1, InitInv, PTL DEF Spec

-----------------------------------------------------------------------------
(* What the log promises.                                                  *)

\* Every variable keeps its type: the queues stay within their sizes, and Replay reads
\* no more of a file than there are requests.
THEOREM TypeCorrect == Spec => []TypeOK
<1>1. IInv => TypeOK
  BY Zenon DEF IInv, TypeOK, CountersType, MemoryType, FilesType, ReplayType, HistoryType
<1> QED BY <1>1, Invariant, PTL

\* CleanReplayLog never removes a record younger than doc_life_time, whatever the
\* rotation of the files, the failed writes, the crashes and the restarts.
THEOREM LogKeepsYoungRecords == Spec => []YoungRecordsKept
<1>1. IInv => YoungRecordsKept
  BY Zenon DEF IInv
<1> QED BY <1>1, Invariant, PTL

\* Replay never adds a request that this run accepted: the writer starts after it.
THEOREM OwnLogNotReplayed == Spec => []NoReplayOfOwnLog
<1>1. IInv => NoReplayOfOwnLog
  BY Zenon DEF IInv
<1> QED BY <1>1, Invariant, PTL

\* Once the doc pool is drained, each request that is legible in the files that Replay
\* has read is in the index, was accepted by this run or found the doc pool full.
THEOREM ReplayRebuilds == Spec => []RebuildsWhatFits
<1>1. IInv => RebuildsWhatFits
  <2>1. SUFFICES ASSUME IInv, doc_pool = <<>>, NEW r \in Logged \ own
                 PROVE  r \in index \union dropped
    BY Zenon DEF RebuildsWhatFits
  <2>2. PICK n \in (visited \ unread) \intersect DOMAIN files :
          \E i \in Legible(n) : files[n][i].req = r
    BY <2>1, Zenon DEF Logged
  <2>5. r \in replayed
    BY <2>1, <2>2, Zenon DEF IInv, ReadIsAdded
  <2>6. ~Queued(r, doc_pool)
    BY <2>1 DEF Queued
  <2> QED BY <2>1, <2>5, <2>6, Zenon DEF IInv, ReadIsAdded
<1> QED BY <1>1, Invariant, PTL
=============================================================================
