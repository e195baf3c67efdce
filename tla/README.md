# recomm_engine in TLA+

A verification project for recomm_engine, a news recommendation server in C++:
an in-memory inverted index of stories that is built, read and cleaned by
different threads, a replay log that rebuilds it after a restart, a retrieval
module, user profiles in a cluster of redis servers, and ranking algorithms
loaded as plugins. Paths below are relative to the directory that holds the
repository as `src/`, so the code itself is under `src/src/`.

## 1. The system

| part | code (`src/src/`) | state | who changes it |
|---|---|---|---|
| posting list | `util/containers/lockless_list.h`, `indexing/posting.cc`, `indexing/iterator.cc` | chain of nodes, node pool, `node_num_`, end mark, iterators | build thread, cleaner; retrieval threads read |
| index build thread | `indexing/index_build_thread.cc` | doc pool, `local_docid_counter_`, `att_`, `index_` | itself |
| cleaner thread | `indexing/clean_old_story_thread.cc` | end marks, `index_`, `att_`, log files | itself |
| instant index | `indexing/instant_index.cc` | owns the maps, locks and threads | request threads, replay thread |
| replay log | `indexing/replay_log_writer_thread.cc` | log buffer, current file, directory of files | log writer; cleaner removes; replay reads |
| producer consumer queue | `util/containers/producer_consumer_queue.h` | deque, mutex, two condition variables | any thread |
| monitor counters | `monitor_manager.h` | counters | build thread, cleaner, handlers |
| retrieval | `retrieval/*.cpp` | per request: hits, ranking | request threads |
| asynchronous retrieval | `retrieval/asynchronous/` | task lists, barrier | not part of the built server |
| recommendation handler | `recomm_engine_handler.cc`, `server.cpp` | per request | request threads |
| story management | `story_management_handler.cc`, `story_profile_storage.cc`, `local_dict.cc` | forward index (leveldb), dictionary | request threads |
| algorithm plugins | `algo_plugin_manager.cc` | two buffers of plugins, `current_index_` | reload thread |
| user profiles | `user_profile_storage.cc` | profiles in redis | request threads |
| redis cluster | `redis_cluster.cc` | hash ring, connections | initialisation, `GetRedisNode` |
| redis client | `redispp.cc` | one connection, commands and replies in flight | its user |

How they interact. `add_story` puts a story into the doc pool and the log
buffer. The build thread takes it from the doc pool, gives it a local id, adds
its attachment (the global id), creates missing posting lists and pushes one
posting per keyword. Retrieval threads take an iterator under a shared lock and
then walk the list with no lock at all. Every `clean_doc_interval` seconds the
cleaner sets an end mark in every list, sleeps
`mark_and_clear_sleep_time` seconds, erases what lies after the marks, deletes
the attachments and removes old log files. At a restart the log files are
replayed into the doc pool, and only then do cleaner and log writer start.
`add_story` then stores the story's profile in the forward index. `query` reads
the user's profile from redis and the story's from the forward index, looks up
the keywords of both in the inverted index, list by list, translates the numbers
it hit, reads the profile of every story it found, drops what the user has read
and what looks like another candidate, and has a plugin rank the rest. The plugin
is the one of the user's bucket in the configuration that was loaded last.

What is hard about it:

- the build thread and the cleaner change a list while both hold `index_mutex_`
  shared only, and readers hold nothing;
- erased nodes are reused at once; only the sleep protects readers;
- a mark is computed at one time and used seconds later;
- a story has postings in several lists with different timestamps, and one
  attachment;
- files are removed by comparing local time strings; the process may stop at
  any point;
- one `pthread_cond_signal` per operation, whatever the operation changed;
- a query reads lists, translations and profiles one after the other, with no
  lock from one to the next;
- plugins are reloaded into the buffer that is not in use, which a slow `Select`
  may still be reading;
- all threads share one connection per redis server, and only the order of the
  replies says what they answer.

`PROJECT.json` lists these hazards, with the lines where they bite and the
properties that cover them.

## 2. Modules

| module | models | detail |
|---|---|---|
| `PostingList` | one posting list, its two writers and its readers | memory accesses |
| `PostingListProofs` | its types, its chain, pool and counter and the place of its readers, proved | |
| `PostingListTrails` | what its iterations yield, proved | |
| `StoryIndex` | what the index promises to its readers | abstract |
| `InstantIndex` | the index as a whole: build thread and cleaner over all lists | critical sections and list operations |
| `InstantIndexProofs` | its safety properties, and that it implements `StoryIndex`, proved | |
| `RecommEngine` | `add_story` and `query` over `StoryIndex`, the forward index and retrieval | one list, translation or profile a step |
| `RecommEngineProofs` | its safety properties, proved | |
| `BoundedQueue` | what the queue promises | abstract |
| `ProducerConsumerQueue` | the queue with mutex, condition variables, timeouts | critical sections |
| `ProducerConsumerQueueProofs` | that no wakeup is lost, and that it implements `BoundedQueue`, proved | |
| `ReplayLog` | log writer, clean-up, crash, restart, replay | file operations |
| `ReplayLogProofs` | its safety properties, proved | |
| `AlgoPluginManager` | reloading and selecting plugins | reads and writes of the two buffers |
| `AlgoPluginManagerProofs` | its safety properties, proved | |
| `UserProfileStorage` | user profiles over a redis node: master, slave, mutex, connections | commands and replies |
| `UserProfileStorageProofs` | its safety properties, and those of the ring, proved | |
| `HashRing` | the ring that chooses the node of a key | operators |
| `MC*` | the instances TLC checks | |

**PostingList.** `next`, `local_docid`, `obj_pool`, `node_num` and `end_mark` are
the fields of the code. Every store to a shared word is a step; `++node_num_` and
`node_num_ -= count` are a load and a store. In the iterators each load of
`cur_->next` and of the mark is a step. In the writers a load belongs to the
step next to it (for instance the load of `node_num_` to the store that links
the node). While the writers keep apart that hides nothing, because no other
thread writes those words. Once they overlap the model has fewer interleavings
than the code, and the project then only claims counterexamples.
Timestamps are abstracted to ids: in one list both grow together.
Two history variables name what the code relies on and does not enforce:
`overlap` (a push and an erase ran at the same time) and `slow` (an iteration
lasted longer than the sleep). The guarantees are conditional on them, and so is
everything above the list: `InstantIndex` pushes and erases in one step each, and
`StoryIndex` and `RecommEngine` are built on it, so all three are about the runs in
which `overlap` and `slow` stay false. Nothing in the code keeps a push and an
erase of one list apart (`posting_list_node_num` shows one consequence).

**InstantIndex.** A list is the set of its ids, newest first, and one operation on
a list is one step; `PostingList` looks inside. Steps are split where the code
changes lock, list or phase, so the build thread may push between any two of the
cleaner's steps, in particular between collecting the ids after a mark and
erasing them. A posting gets its time in a step of its own before it is pushed
(`StampPosting`, `AddPosting`): marking may fall between the two, a second later. `CreateLists` needs the exclusive lock and waits for the cleaner.
`Promise == INSTANCE StoryIndex` is the refinement mapping: the story being
attached is still pending, and a list shows what does not lie after its mark.
Two departures from what one would expect are recorded and not hidden: `leaked`
holds the ids that were pushed between collecting and erasing, whose attachments
stay for ever, and `orphaned` says that an attachment was deleted while its story
still had a posting, which the next round subtracts from the counter again.

**StoryIndex and RecommEngine.** `StoryIndex` is all that `RecommEngine` knows of
the index: numbers, lists, translations, and that a number may lose its story
once it left a list. `RecommEngine` extends it with the two handlers. A story is
the profile that `add_story` is called with; its hash is the key of the forward
index and all that the index hands out. Profiles with one hash are versions of one
story, with keywords and a signature of their own: a version that was replaced in
the forward index stays listed under its keywords until it expires. Reading or
writing a profile may fail; `unstored` records the calls whose profile was not
stored, with what they answered: `add_story` assigns `SMS_ERROR` and then,
without returning, `SMS_OK`. `limit` is the flag `max_doc_return`, chosen once. A list is
read in two steps, up to `GetValue` of its first posting and from `Next` on,
because a posting pushed in between makes the first one come again (`PostingList`
shows that no other does); the rest of a list is one step, within which an expiry
of several numbers is several steps of the index. Numbers that no longer
translate are used as story ids, as `getGlobalIDFromLocalID` does; hashes are
assumed not to be that small. The ranking plugin picks any candidates in any
order. Calls of `add_story` run side by side, queries one at a time: a query
writes nothing that another reads.

**AlgoPluginManager.** `Initialize` and the reloading thread run the same
`LoadPlugins`, one step per write of the buffer that is not current; `Select` is
one step per read. A plugin is named by its configuration and its place there; a
library opens or does not. `overrun` says that a load has begun on the buffer a
`Select` reads: from then on the outcome of that `Select` is undefined.
`num_plugins_` starts uninitialized (`Garbage`). A load that fails in `Initialize`
ends the process, as the CHECK in `server.cpp` does, until somebody starts it again
(`Restart`); later ones are tried again after the next sleep.

**UserProfileStorage.** One node of the cluster. A client is the two directions of
its connection: commands to be answered and replies not taken. A call writes its
commands and takes its replies in steps of their own, with the server, timeouts
and other threads in between; after a timeout the hiredis context refuses to be
used until `Reconnect` makes a new one. `raced` says that two calls on one client
have overlapped, after which nothing is claimed; `stale` that a call left replies
behind on a client that `GetRedisNode` had already handed out to somebody. The
server only calls `GetUserProfile`; `PutUserProfile` and the Multi operations are
public and are modelled as used under the rules the code shows: the former
without the mutex, the latter with it.

**HashRing.** `AddNode`, `RemoveNode` and `GetNode` as operators on the map, for
any hash function, collisions included.

**ProducerConsumerQueue.** A step is what a thread does while it holds the mutex.
A signal wakes any one waiting thread; wakeups may be spurious.
`Bounded == INSTANCE BoundedQueue` is the refinement mapping; `que` and `got` map
to themselves.

**ReplayLog.** Requests are numbers; a file is named by the digits of its begin
and end time (`Local`, assumed to grow with time: no daylight saving change).
A write may fail unnoticed when the file is opened or at any byte, and leave no
file, an empty one or a part of a record; so may a removal. A crash within a write
is a part of a record and then a crash. At the end of a file the read loop runs
once more on an uninitialized buffer (`ReplayLeftover`): it yields nothing or a
record that was there before. A part of a record takes the bytes after it for its
rest, so that what follows in its file is lost: it counts as such a turn too, after
which the file is at its end. Reading on out of step, with whatever size it finds
there, may also end the process, which `Crash` covers. A file that does not open
(`unread`) keeps the loop turning for ever (`ReplaySpin`), unless the size, never
assigned, makes the string throw (`ReplayCatch`).

## 3. What is checked

| run | bounds | shows |
|---|---|---|
| `posting_list` | 3 nodes, 1 reader, 3 postings | chain, pool and counter are exact; iterations stand on the list, repeat at most their first posting, miss nothing and end |
| `instant_index` | 2 tokens, 2 kinds of story, 2 stories, 2 s | marks, translation, no list replaced, story counter; the promise of `StoryIndex`; what is accepted comes to be listed; what expires is erased and its attachment deleted |
| `queue` | 2 producers, 2 consumers, capacity 2, 4 puts, 2 ticks | refinement of `BoundedQueue`, no lost wakeup of a consumer, producers without timeouts wait only for room, consumers are served |
| `replay_log` | 3 requests, 2 crashes, 3 s | young records stay, no replay of the own log, nothing legible lost but what does not fit, the replay ends if every file opens |
| `plugin_manager` | 1 thread, 2 ids, 4 configurations | `Select` answers from one configuration; loads are invisible until the swap; a configuration that stays takes effect, failed loads before it or not |
| `recomm_engine` | 2 tokens, 2 stories, one in 2 versions, 2 numbers, 2 users, limits of 1 and 2 results | what is recommended matches, comes once, and nothing that is there all the time is missed; the two stores agree |
| `user_profile` | 2 threads, 4 kinds of call, master and slave, transactions of one command | replies go to who asked, clients are handed out clean, only `SetToRedis` races, calls return; the hash ring on all placements of two nodes |

The bounds. Three postings over three nodes make a node go through the list, the
pool and the list again while an iteration is under way, and give a mark with a
posting on each side and a push. Readers do not
interact with each other, so one is enough for properties that speak of one
reader at a time. Two tokens and a story that has both give postings of one
story that leave their lists in different rounds, so that an id is collected
twice; two seconds and a life time of one let a posting expire beside one that
stays. A queue of capacity 2 with two threads on each
side has every combination of waiting and woken threads. Two crashes give a
replay of what was written after a replay; with a life time and an interval of one
second, three seconds have a file end, be replayed and be removed. Of the four configurations two are
in order, with different numbers of buckets and defaults, one lacks its number
and its default bucket and one fails in the middle; a `Select` meets any number
of loads, and `Select`s do not interact. Two numbers are two stories, or one that
is indexed twice, in one version or in both, and one more than the doc pool holds;
the versions differ in keywords and signature, and one has the signature of the
other story. Two results fill a limit of two and overflow one of one. The users are
one with a history and one who is unknown, so that a keyword is looked up once or
twice. Two threads have every overlap of two calls; a third would only wait.
That an iterator may return its first posting twice (a push between `GetValue` and
`Next` on the fake front) is what the code does; `OnlyFirstYieldedAgain` shows
that it is all that can be repeated.
`posting_list` does not explore beyond an overlap
(`NotOverlapped`): `overlap` never becomes false again and every property there
but `TypeOK` is conditional on it, apart from `IterationEnds`, which is checked up
to an overlap; `TypeOK` is proved without that restriction. In the same way
`user_profile` stops at a race (`NotRaced`): `CallsReturn` is checked up to one,
and `TypeOK` is proved beyond it. The assumption `RingChecked` of
`MCUserProfileStorage` evaluates the two statements about `HashRing` on every
placement of two nodes with up to two points among four hash values.

Five runs are expected to find a violation: a comment, flag description or
assertion of the repository that the code does not live up to. "findings" in
`PROJECT.json` quotes each.

| run | the text | what happens |
|---|---|---|
| `posting_list_node_num` | `CHECK_EQ(0, node_num_)` in `IsEmpty` | a push and an erase lose an update of the counter |
| `posting_list_has_value` | "Only used after pass the HasValue test" | clearing between the two loads of `HasValue`; `GetValue` dereferences NULL |
| `instant_index_life_time` | "how long time the doc will reside in index" | a fresh posting behind a mark on the fake front is erased |
| `queue_timed_producers` | "will block if inner queue is full" | one signal for several freed slots |
| `replay_log_rebuild` | "rebuild docs in log file" | the doc pool is full and the result of `AddStory` is ignored |

**Fairness.** `PostingList`: only that a retrieval thread keeps running; nothing is
assumed of the writers, for which an iteration never waits. `InstantIndex`: time
passes and both threads run; strong fairness for `CreateLists`, which waits for an
exclusive lock, since `RwMutex` is `boost::shared_mutex` (`util/concurrency/mutex.h`)
and a waiting writer there holds off new readers. `ProducerConsumerQueue`: a woken
thread gets the mutex; nobody has to call. `ReplayLog`: the replay thread runs.
`AlgoPluginManager`: the reloading thread runs; nothing is assumed of `Select`,
for which it never waits. `UserProfileStorage`: a thread in a call runs, since
`Connect` gives every connection a timeout of five seconds, and is not passed
over for ever at the mutex (strong fairness: a waiter of a pthread mutex gets it
some time if it is free again and again); no server has to answer.

Deadlock is checked in every run: the bounds never stop the system, since the
cleaner, a polling consumer, the log clean-up, the next load, the next query or
the next call can always go on.

## 4. What is proved

Every invariant, action property and refinement that a passing run checks, and
`OverrunOnlyAfterSwap`, which is proved only, for any
sets of nodes, readers, threads, stories, keywords, users, configurations and ids
and for any bounds. The only assumption of a component is its
`ConstantsAssumption`, which TLC evaluates in the component's run.

| theorem | module | states |
|---|---|---|
| `TypeCorrect` | `PostingListProofs` | `Spec => []TypeOK` |
| `PointersValid` | `PostingListProofs` | `Spec => []Pointers` |
| `ListStaysIntact` | `PostingListProofs` | `Spec => []ListIntact` |
| `NoNodeLost` | `PostingListProofs` | `Spec => []NodesAccounted` |
| `CounterExact` | `PostingListProofs` | `Spec => []NodeNumExact` |
| `ReadersProtected` | `PostingListProofs` | `Spec => []ReaderOnList` |
| `PostingsStay` | `PostingListProofs` | `Spec => PostingStays` |
| `FirstOnlyAgain` | `PostingListTrails` | `Spec => []OnlyFirstYieldedAgain` |
| `IterationsComplete` | `PostingListTrails` | `Spec => IterationComplete` |
| `TypeCorrect` | `InstantIndexProofs` | `Spec => []TypeOK` |
| `MarksSeparate` | `InstantIndexProofs` | `Spec => MarkedExpired` |
| `TotalFollows` | `InstantIndexProofs` | `Spec => []TotalExact` |
| `IndexImplementsPromise` | `InstantIndexProofs` | `Spec => ImplementsStoryIndex` |
| `TypeCorrect` | `RecommEngineProofs` | `Spec => []TypeOK` |
| `RecommendationsMatch` | `RecommEngineProofs` | `Spec => []RecommendedMatches` |
| `NoStoryTwice` | `RecommEngineProofs` | `Spec => []NoneTwice` |
| `NoStoryMissed` | `RecommEngineProofs` | `Spec => []NoneMissed` |
| `StoresStayInStep` | `RecommEngineProofs` | `Spec => []StoresAgree` |
| `TypeCorrect` | `ProducerConsumerQueueProofs` | `Spec => []TypeOK` |
| `NoConsumerForgotten` | `ProducerConsumerQueueProofs` | `Spec => []ConsumersNotified` |
| `NoProducerForgotten` | `ProducerConsumerQueueProofs` | `Spec => []UntimedBlocksOnlyIfFull` |
| `QueueImplementsBounded` | `ProducerConsumerQueueProofs` | `Spec => ImplementsBoundedQueue` |
| `TypeCorrect` | `ReplayLogProofs` | `Spec => []TypeOK` |
| `LogKeepsYoungRecords` | `ReplayLogProofs` | `Spec => []YoungRecordsKept` |
| `OwnLogNotReplayed` | `ReplayLogProofs` | `Spec => []NoReplayOfOwnLog` |
| `ReplayRebuilds` | `ReplayLogProofs` | `Spec => []RebuildsWhatFits` |
| `TypeCorrect` | `AlgoPluginManagerProofs` | `Spec => []TypeOK` |
| `SelectsWhole` | `AlgoPluginManagerProofs` | `Spec => []SelectsFromOneConfig` |
| `BuffersSeparate` | `AlgoPluginManagerProofs` | `Spec => []OverrunOnlyAfterSwap` |
| `LoadsInvisible` | `AlgoPluginManagerProofs` | `Spec => AnswersChangeBySwapOnly` |
| `TypeCorrect` | `UserProfileStorageProofs` | `Spec => []TypeOK` |
| `RepliesAreOwn` | `UserProfileStorageProofs` | `Spec => []OwnReply` |
| `HandsOutClean` | `UserProfileStorageProofs` | `Spec => []HandedOutClean` |
| `OnlySetRaces` | `UserProfileStorageProofs` | `Spec => OnlySetToRedisRaces` |
| `AddMovesOnlyToAdded` | `UserProfileStorageProofs` | `MovesOnlyToAdded` for every ring, hash and node |
| `RemoveUndoesAdd` | `UserProfileStorageProofs` | `AddedThenRemoved` for every ring, hash and node |

**Types of the posting list.** `TypeOK` alone is not inductive, since a step that follows a pointer
needs it not to be NULL. `Pointers` adds that the build thread holds a node
whenever it is pushing, the cleaner a cell while it scans and detaches, and an
iterator a cell after the first test of `HasValue`. `TypeInv == TypeOK /\ Pointers`
is inductive, also when the writers overlap and the list is broken. `Pointers`
says nothing of `cur_->next`, which `GetValue` follows: that may be NULL
(`posting_list_has_value`).

**Safety of the posting list.** None of the five properties is inductive. `IInv` adds

- `Numbered`: ids are distinct and the build thread holds the largest, so the
  order of the chain is the order of ids and a cut at the mark is a cut of ids;
- `WriterState`: what a writer has loaded (`front_->next`, `mark->next`) is still
  current when it stores, which is what an overlap destroys;
- `MarkOnList`: the mark, and the cleaner's position, are cells of the list;
- `ChainDetached`: from `p`, `Recycle` reaches every node that was cut off;
- `Counted`: what `node_num_` and the registers of the two read-modify-writes
  hold at each step;
- `ReaderState`: an iteration that began after the mark was set is not past it
  and one about to return a posting does not stand on it. The others are in
  `late`, which is empty when `EraseAfter` begins unless one outlived the sleep
  (`LateOnlyInGrace`).

Everything but types and `LateOnlyInGrace` is conditional on `~overlap`, and
`ReaderState` on `~slow` too; neither flag is ever reset (`HistoryStep`). The
proof has a lemma per part of the invariant and thread, or per action where the
action changes the chain. `PostingsStay` follows from `IInv` step by step.

**What iterations yield.** `PostingListTrails` puts `TrailInv` on top of `IInv`.
`NewIds` says that a posting pushed during an iteration is newer than all that the
iteration has to yield, and so asks nothing more of it. `Yielded` says what has been
yielded at each place of the loop: nothing before the first `GetValue`; on the
fake front, before `Next`, exactly the first posting, which may by then have newer
ones in front of it; on a node nothing older than the node, apart from the first
posting. This is why the first posting may come again and no other can. `Ahead`
says that what has to be yielded has been or lies behind `cur_`; at the end
nothing is behind `cur_` but what the mark hides. The others' steps are dealt
with by one lemma on what they leave alone (`OthersKeepTrail`).

**Instant index.** `MarkedExpired` speaks of steps that mark, push and erase, so
`IInv` says in which phases of the cleaner a list has a mark (`Marks`), that what
lies before a mark is young enough (`Kept`), that ids and timestamps grow together
along a list and the stamp of the next posting follows them (`TimesOrdered`), and
that the number being pushed is larger than all in the lists it is still to be
pushed to (`Below`); a push therefore never lands behind a mark that is not on the
fake front, and with a stamp older than the mark only if the whole list is at
least as old. `Attached` ties `att_` to what was collected. `Held` makes
`TotalExact` inductive: until an attachment goes early, lists, cleaner and build
thread hold ids with attachments only, so that as many are subtracted as are
deleted; afterwards at least as many. For the refinement `LastListed`
adds that the last number is in every list it was pushed to unless it was erased
from one, which is when `StoryIndex` lets the next number be given out. Each
action has a lemma that says which step of `StoryIndex` it is: fetching a story,
collecting and erasing do not show; setting a mark withdraws what lies after it; a
push in front of a list that is marked as a whole is a withdrawal too.

**add_story and query.** The theorems of `RecommEngineProofs` are about
`StoryIndex`, of which a query knows nothing else; by `IndexImplementsPromise`
the index is one. `IInv` follows a number through a query, from two sides.

- What is returned: `ListedRight` and `FirstRight`, that a number is found under
  keywords of its story only; `HitsAtMost`, that it has no more hits than keywords
  looked up so far that its story has, or twice as many if the story was at the
  front of a list when another came (`repeated`); then `Filtered`, that what is in
  the result set, the candidates and the reply has enough of the keywords in some
  version that was accepted, and of the latter two that it has a profile and is new
  to the user; and `Signed`, that candidates differ in their signatures, which are
  those of their profiles unless they changed during the query.
- What is not missed: `StillPresent`, that what was fully listed when the query
  began still is unless it is gone; `FirstNewest`, that of these none is newer
  than the posting a list was entered with; `Covered`, that each of these has no
  fewer hits than keywords, or with enough of them is in the result set with at
  least that score; and `Considered`, that while the result set is filtered each is
  still in it, was outdone by more results than the limit (`BehindLimit`: what lies
  behind the limit after sorting has all of the others before it), was read by the
  user, could not be read, or looks like a candidate.

The two sides need the hits counted from above and from below for the same
prefix of keywords (`Upto`, `Turn`). A step has one lemma; what it leaves alone is
settled for all of them by `Frames`. What the proofs use of finite sets, their
cardinality and their least element is collected in `SetFacts`, a hypothesis of
the lemmas that is proved at the end of the module.

**Queue.** `ConsumersNotified` and `UntimedBlocksOnlyIfFull` count: woken threads
against items and against free slots. They are inductive together with types,
with `PendingOK` (a waiting `Put` knows what it puts) and `Untimed` (until a call
has a timeout nothing in the queue expires, so that a `Get` frees one slot and
signals once). The lemmas on `Waiting` and `Woken` say what one signal, one
wakeup and one wait do to the two numbers. In the refinement `que` and `got` are
those of `BoundedQueue`, and waiting, waking and refused calls do not show.

**Replay log.** Three invariants carry each other. `FilesEndLater`: no record is
younger than the end in its file's name, so a file that is removed by its name
holds old records only; this needs `Local` to grow with time. `OwnLater`: what
was accepted since the start is in the log buffer or reaches the log after the
replay, and so is not replayed. `ReadIsAdded`: what was read from a visited file,
or from the open one up to `pos`, was added and is in the index, in the doc pool
or known to be dropped; of a visited file that opened, that is all before the first
record that is not whole (`Legible`). `LoggedOnce` keeps positions in a file unambiguous.

**Plugin manager.** `SelectsFromOneConfig` speaks of the end of a `Select`, so
`IInv` says what holds on the way there: `LoaderInv`, that the buffer being filled
holds exactly the first `pos` items of the configuration that was read;
`ServedInv`, that the current buffer serves the configuration last swapped in;
and `SelectInv`, that the buffer a `Select` reads still serves the configuration
it began with unless it is overrun, that it is the current one while a load is
under way, and that what was computed so far agrees. The arithmetic is confined
to lemmas about `Listed` and `Last` (what one more item does to the plugin of a
bucket).

**User profiles.** `OwnReply` and `HandedOutClean` hold for one reason: a pong
comes only as an answer to a ping, a ping is the last thing on the connection
when it is sent, and so whoever takes a pong has taken everything before it.
`PingInv` says this, `CallInv` that one call at a time uses a client and the
client is usable, `PingAlone` that a ping on a client which somebody holds clean
is alone on the connection, and `Own` and `Clean` are the properties, client by
client. `ThreadInv` ties the mutex to the program counters. All but types and
`ThreadInv` is conditional on `~raced`, which is never reset. The proof has one
lemma per action for each part.

**Hash ring.** Both theorems are about least elements of sets of naturals: adding
points moves the point that serves a key only to an added one.

Only model-checked: liveness (`IterationEnds`, `StoriesListed`, `ExpiredErased`, `ExpiredDeleted`,
`GetServed`, `ReplayEnds`, `ConfigTakesEffect`, `CallsReturn`), since fairness and
ENABLED are beyond the prover. The properties of the five violation runs do not
hold, so there is nothing to prove.

## 5. Not modelled

- The asynchronous retrieval tasks (`retrieval/asynchronous/`): the Makefile does
  not name them, and they include headers that the repository does not have, so
  there is no program to be faithful to.
- Start-up: the options and wiring of `server.cpp`, opening leveldb, reading the
  list of redis nodes. A start-up that fails ends the process.
- Third-party and generated code: leveldb, glog, gflags, gtest, the redis server
  and the thrift stubs. Of hiredis only the order of commands and replies and the
  error state of a context are modelled. These make up most of the lines in the
  repository (about 6,000 of more than 50,000 are the server's own), so that the
  share of all lines that the map of definitions covers is small although most of
  the server's own control flow is modelled.
- Contents: profiles of users and their increments, weights of keywords, scores
  other than the number of keywords hit, and what plugins compute.
- Serialization, string splitting and formatting are pure conversions; the one
  that matters, the local time string in file names, is the constant `Local`.
- What a reading of the log that is out of step, behind a part of a record, makes
  of the bytes it finds; a configuration file whose syntax is wrong (the exception
  ends the process), `num_buckets=0` and the wrap of the 32 bit local id.
- What happens above a posting list once a push and an erase of it have overlapped
  or an iteration has outlived the sleep: `PostingList` goes that far,
  `InstantIndex`, `StoryIndex` and `RecommEngine` do not.
- That a story may be built twice by the last turn of the replay loop: `index` of
  `ReplayLog` is a set of requests.
