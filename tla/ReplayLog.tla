------------------------------ MODULE ReplayLog ------------------------------
(***************************************************************************)
(* Durability of the index: InstantIndex::AddStory also sends every story  *)
(* to ReplayLogWriterThread, which appends it to a log file; the cleaner   *)
(* removes old files; after a restart InstantIndex::Replay feeds the files *)
(* that are there to the build thread, and only then starts the log writer *)
(* and the cleaner.                                                        *)
(*                                                                         *)
(* A request is a number.  A file is named by the local time strings of    *)
(* its begin and end; Local is LocalTimeStrHMS, the number its digits      *)
(* make.  A record that only a part of reached the file is not whole.  The *)
(* process may crash at any step: memory is lost, files stay.              *)
(***************************************************************************)
EXTENDS Integers, Sequences, FiniteSets, Functions

CONSTANTS
  Life,        \* doc_life_time
  Interval,    \* clean_doc_interval
  DocPool,     \* doc_pool_size
  LogBuffer,   \* replay_log_buffer
  Local,       \* Timer::LocalTimeStrHMS
  MaxReqs,     \* bound: calls of AddStory
  MaxCrashes,  \* bound: crashes
  MaxTime      \* bound: the clock

Times == 0 .. MaxTime + Interval

\* Local time strings compare like the times: no daylight saving time ends.
ASSUME ConstantsAssumption ==
  /\ {Life, Interval, MaxReqs, MaxCrashes, MaxTime} \subseteq Nat
  /\ {DocPool, LogBuffer} \subseteq Nat \ {0}
  /\ Local \in [Times -> Nat]
  /\ \A a, b \in Times : a < b => Local[a] < Local[b]

VARIABLES
  clock,       \* Timer::CurrentTimeInS()
  phase,       \* "replay", "run" (all threads started) or "down"
  reqs,        \* number of requests so far
  crashes,     \* number of crashes so far
  doc_pool,    \* the build thread's queue
  index,       \* requests built into the index
  pool,        \* the log writer's queue
  time_begin,  \* the log writer's current file
  time_end,
  files,       \* the log directory: file name -> records
  visited,     \* Replay: files read,
  file,        \*   the file being read, <<>> between files,
  pos,         \*   the records read from it,
  unread,      \*   and the files that it could not open
  written,     \* history: all records ever written, whole or not
  own,         \* history: requests accepted since the last start
  replayed,    \* history: requests this Replay added
  dropped      \* history: requests this Replay found no room for

memory   == <<doc_pool, index, pool>>
replay   == <<visited, file, pos, unread>>
history  == <<written, own, replayed, dropped>>
vars     == <<clock, phase, reqs, crashes, memory, time_begin, time_end, files,
              replay, history>>

Up       == phase # "down"
Names    == {<<Local[b], Local[e]>> : b, e \in Times}
Record   == [req : 1 .. MaxReqs, time : 0 .. MaxTime, whole : BOOLEAN]

\* Mutant: one too many.
TryPutOver(q, r, size) == IF Len(q) <= size THEN Append(q, r) ELSE q

\* ProducerConsumerQueue::TryPut without a timeout
TryPut(q, r, size) == IF Len(q) < size THEN Append(q, r) ELSE q

-----------------------------------------------------------------------------
Tick ==
  /\ clock < MaxTime
  /\ clock' = clock + 1
  /\ UNCHANGED <<phase, reqs, crashes, memory, time_begin, time_end, files, replay,
                 history>>

\* InstantIndex::AddStory: the doc pool, then the log buffer, whether or not the
\* doc pool took it.
AddStory ==
  /\ Up
  /\ reqs < MaxReqs
  /\ reqs' = reqs + 1
  /\ doc_pool' = TryPut(doc_pool, reqs', DocPool)
  /\ pool' = TryPut(pool, reqs', LogBuffer)
  /\ own' = own \union {reqs'}
  /\ UNCHANGED <<clock, phase, crashes, index, time_begin, time_end, files, replay,
                 written, replayed, dropped>>

\* IndexBuildThread::Run
BuildStory ==
  /\ Up
  /\ doc_pool # <<>>
  /\ index' = index \union {Head(doc_pool)}
  /\ doc_pool' = Tail(doc_pool)
  /\ UNCHANGED <<clock, phase, reqs, crashes, pool, time_begin, time_end, files,
                 replay, history>>

-----------------------------------------------------------------------------
(* ReplayLogWriterThread.                                                  *)

\* Append these records to the file with this name, creating it if need be.
AppendTo(name, recs) ==
  /\ files' = [n \in DOMAIN files \union {name} |->
                 IF n # name THEN files[n]
                 ELSE IF n \in DOMAIN files THEN files[n] \o recs ELSE recs]
  /\ written' = written \union Range(recs)

\* A stream that fails, when it is opened or at any byte, goes unnoticed: no file,
\* an empty file, a part of the record or all of it.
AppendRecord(name, req) ==
  \/ UNCHANGED <<files, written>>
  \/ AppendTo(name, <<>>)
  \/ \E whole \in BOOLEAN :
       AppendTo(name, <<[req |-> req, time |-> clock, whole |-> whole]>>)

\* Get and Write, starting a new file when the current one is over.
WriteLog(started, over) ==
  /\ started
  /\ pool # <<>>
  /\ pool' = Tail(pool)
  /\ time_begin' = IF over THEN clock ELSE time_begin
  /\ time_end' = IF over THEN clock + Interval ELSE time_end
  /\ AppendRecord(<<Local[time_begin'], Local[time_end']>>, Head(pool))
  /\ UNCHANGED <<clock, phase, reqs, crashes, doc_pool, index, replay, own,
                 replayed, dropped>>

\* Mutants: the writer starts before the replay ends; files never end.
WriteEarly   == WriteLog(Up, clock > time_end)
WriteForever == WriteLog(phase = "run", FALSE)

\* now > time_end_
Write == WriteLog(phase = "run", clock > time_end)

-----------------------------------------------------------------------------
(* CleanOldStoryThread::CleanReplayLog.                                    *)

\* Remove the files with this part of their name before the check point; a
\* removal that fails is logged.
RemoveBefore(part) ==
  /\ phase = "run"
  /\ clock >= Life
  /\ \E removed \in SUBSET {n \in DOMAIN files : Local[clock - Life] > n[part]} :
       files' = [n \in DOMAIN files \ removed |-> files[n]]
  /\ UNCHANGED <<clock, phase, reqs, crashes, memory, time_begin, time_end, replay,
                 history>>

\* Mutant: the begin of the file is compared.
RemoveByBegin == RemoveBefore(1)

\* cp_string > segs[1]
CleanReplayLog == RemoveBefore(2)

-----------------------------------------------------------------------------
(* InstantIndex::Replay and the life of the process.                       *)

\* The next file of the directory, in any order; it may not open.
ReplayOpen(n) ==
  /\ phase = "replay"
  /\ file = <<>>
  /\ n \in DOMAIN files \ visited
  /\ file' = n
  /\ pos' = 0
  /\ unread' \in {unread, unread \union {n}}
  /\ UNCHANGED <<clock, phase, reqs, crashes, memory, time_begin, time_end, files,
                 visited, history>>

\* IndexBuildThread::AddStory; what it returns is ignored.
ReplayAdd(r) ==
  /\ doc_pool' = TryPut(doc_pool, r, DocPool)
  /\ replayed' = replayed \union {r}
  /\ dropped' = IF Len(doc_pool) < DocPool \/ r \in replayed
                THEN dropped ELSE dropped \union {r}

\* The next record.
ReplayRecord ==
  /\ phase = "replay"
  /\ file \notin unread \union {<<>>}
  /\ pos < Len(files[file])
  /\ files[file][pos + 1].whole
  /\ pos' = pos + 1
  /\ ReplayAdd(files[file][pos'].req)
  /\ UNCHANGED <<clock, phase, reqs, crashes, index, pool, time_begin, time_end,
                 files, visited, file, unread, written, own>>

\* The directory iterator moves on to what is not in visited.
NextFile(moved) ==
  /\ visited' = moved
  /\ file' = <<>>
  /\ pos' = 0
  /\ UNCHANGED <<clock, phase, reqs, crashes, index, pool, time_begin, time_end,
                 files, unread, written, own>>

\* A turn of the loop that reads nothing, or a part, into a buffer that is not
\* initialized: it fails to parse, or it is a record that was there before, or
\* this one.
ReplayLeftover(rest) ==
  \/ UNCHANGED <<doc_pool, replayed, dropped>>
  \/ \E r \in replayed \union {rec.req : rec \in rest} : ReplayAdd(r)

\* The loop over the records ends after read of them.
ReplayClose(read, moved) ==
  /\ phase = "replay"
  /\ file \notin unread \union {<<>>}
  /\ read < Len(files[file]) => ~files[file][read + 1].whole
  /\ ReplayLeftover({files[file][i] : i \in {read + 1} \intersect 1 .. Len(files[file])})
  /\ NextFile(moved)

\* Mutants: the last record is not read; the iterator does not move on.
ReplayAllButLast == ReplayClose(pos + 1, visited \union {file})
ReplayAgain      == ReplayClose(pos, visited)

\* After the last record in.eof() is still false, and the loop turns once more; a
\* part of a record takes what follows it for its rest.
ReplayEOF == ReplayClose(pos, visited \union {file})

\* A stream that did not open fails to read and never is at its end: the loop
\* does not end,
ReplaySpin ==
  /\ phase = "replay"
  /\ file \in unread
  /\ ReplayLeftover({})
  /\ UNCHANGED <<clock, phase, reqs, crashes, index, pool, time_begin, time_end,
                 files, replay, written, own>>

\* unless the size, which is not initialized, makes the string throw.
ReplayCatch ==
  /\ phase = "replay"
  /\ file \in unread
  /\ UNCHANGED <<doc_pool, replayed, dropped>>
  /\ NextFile(visited \union {file})

\* All files are read: start the cleaner and the log writer.
ReplayDone ==
  /\ phase = "replay"
  /\ file = <<>>
  /\ DOMAIN files \subseteq visited
  /\ phase' = "run"
  /\ UNCHANGED <<clock, reqs, crashes, memory, time_begin, time_end, files, replay,
                 history>>

Replay == (\E n \in DOMAIN files : ReplayOpen(n)) \/ ReplayRecord \/ ReplayEOF
          \/ ReplaySpin \/ ReplayCatch \/ ReplayDone

Crash ==
  /\ Up
  /\ crashes < MaxCrashes
  /\ crashes' = crashes + 1
  /\ phase' = "down"
  /\ doc_pool' = <<>> /\ index' = {} /\ pool' = <<>>
  /\ visited' = {} /\ file' = <<>> /\ pos' = 0 /\ unread' = {}
  /\ own' = {} /\ replayed' = {} /\ dropped' = {}
  /\ UNCHANGED <<clock, reqs, time_begin, time_end, files, written>>

\* InstantIndex::Init; the log writer's constructor begins a file.
Start ==
  /\ phase = "down"
  /\ phase' = "replay"
  /\ time_begin' = clock
  /\ time_end' = clock + Interval
  /\ UNCHANGED <<clock, reqs, crashes, memory, files, replay, history>>

Init ==
  /\ clock = 0
  /\ phase = "down"
  /\ reqs = 0 /\ crashes = 0
  /\ doc_pool = <<>> /\ index = {} /\ pool = <<>>
  /\ time_begin = 0 /\ time_end = 0
  /\ files = [n \in {} |-> <<>>]
  /\ visited = {} /\ file = <<>> /\ pos = 0 /\ unread = {}
  /\ written = {} /\ own = {} /\ replayed = {} /\ dropped = {}

Next ==
  \/ Tick
  \/ AddStory
  \/ BuildStory
  \/ Write
  \/ CleanReplayLog
  \/ Replay
  \/ Crash
  \/ Start

Spec == Init /\ [][Next]_vars

\* The replay thread runs.
FairSpec == Spec /\ WF_vars(Replay)

-----------------------------------------------------------------------------
TypeOK ==
  /\ clock \in 0 .. MaxTime
  /\ phase \in {"replay", "run", "down"}
  /\ reqs \in 0 .. MaxReqs
  /\ crashes \in 0 .. MaxCrashes
  /\ doc_pool \in Seq(1 .. MaxReqs) /\ Len(doc_pool) <= DocPool
  /\ index \subseteq 1 .. MaxReqs
  /\ pool \in Seq(1 .. MaxReqs) /\ Len(pool) <= LogBuffer
  /\ time_begin \in Times /\ time_end \in Times
  /\ DOMAIN files \subseteq Names
  /\ \A n \in DOMAIN files : files[n] \in Seq(Record)
  /\ visited \subseteq Names
  /\ file \in DOMAIN files \union {<<>>}
  /\ pos \in 0 .. MaxReqs
  /\ unread \subseteq Names
  /\ written \subseteq Record
  /\ own \subseteq 1 .. MaxReqs
  /\ replayed \subseteq 1 .. MaxReqs
  /\ dropped \subseteq 1 .. MaxReqs

\* A record stays in the log for doc_life_time: CleanReplayLog removes a file
\* only when its end, and so every record in it, is older, through rotation,
\* crashes and restarts.
YoungRecordsKept ==
  \A rec \in written :
    clock - rec.time <= Life =>
      \E n \in DOMAIN files : \E i \in 1 .. Len(files[n]) : files[n][i] = rec

\* "preventing doing the replay on newly created log file": Replay never adds a
\* request that was accepted since the process started.
NoReplayOfOwnLog == replayed \intersect own = {}

\* The records of a file before the first that is not whole.
Legible(n) == {i \in 1 .. Len(files[n]) : \A j \in 1 .. i : files[n][j].whole}

\* The requests that are legible in the files that Replay has read.
Logged ==
  {r \in 1 .. MaxReqs : \E n \in (visited \ unread) \intersect DOMAIN files :
                          \E i \in Legible(n) : files[n][i].req = r}

\* "Read log file and rebuild docs in log file": when the threads have been
\* started and the doc pool is drained, what was in the log is in the index.
RebuildsDocs ==
  phase = "run" /\ doc_pool = <<>> => Logged \ own \subseteq index

\* Replay loses nothing else than what the doc pool had no room for.
RebuildsWhatFits ==
  phase = "run" /\ doc_pool = <<>> => Logged \ own \subseteq index \union dropped

\* Replay ends, and with it the time in which nothing is logged or cleaned, unless
\* a file cannot be opened.
ReplayEnds == phase = "replay" ~> (phase # "replay" \/ file \in unread)
=============================================================================
