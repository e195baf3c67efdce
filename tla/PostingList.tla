----------------------------- MODULE PostingList -----------------------------
(***************************************************************************)
(* One posting list of the inverted index, at the level of its heap cells: *)
(* the LocklessList, its ListAllocator, the PostingList end mark, and the  *)
(* threads that touch them without a common exclusive lock:                *)
(*                                                                         *)
(*   - the index build thread allocates nodes and pushes them in front;    *)
(*   - the cleaner marks the end of the list, sleeps, erases what lies     *)
(*     after the mark and resets the mark;                                 *)
(*   - retrieval threads iterate with HasValue / GetValue / Next.          *)
(*                                                                         *)
(* Every store to a shared word is a step of its own; a load is a step of  *)
(* its own in the iterators, and in the writers part of the step before or *)
(* after it.  A posting is abstracted to its local_docid.  The build       *)
(* thread hands out ids and timestamps in the same order, so               *)
(* "timestamp >= target_time" is "local_docid >= target" for a target      *)
(* that only grows.                                                        *)
(*                                                                         *)
(* Two history variables record what the code relies on and nothing        *)
(* enforces: overlap (the two writers were inside the list together) and   *)
(* slow (an iteration outlived the sleep between marking and clearing).    *)
(***************************************************************************)
EXTENDS Integers, Sequences, FiniteSets

CONSTANTS
  Nodes,     \* heap cells that can hold a posting
  Front,     \* front_, the fake front node
  NULL,
  Readers,   \* retrieval threads
  MaxDocs,   \* bound: number of postings ever pushed
  MaxPool    \* bound: length of obj_pool_

ASSUME ConstantsAssumption ==
  /\ IsFiniteSet(Nodes)
  /\ Front \notin Nodes
  /\ NULL \notin Nodes \union {Front}
  /\ MaxDocs \in Nat
  /\ MaxPool \in Nat

VARIABLES
  next,         \* ListNode::next of every cell
  local_docid,  \* ListNode::data->local_docid of every cell
  unborn,       \* cells operator new has not handed out yet
  obj_pool,     \* ListAllocator::obj_pool_
  node_num,     \* LocklessList::node_num_
  end_mark,     \* PostingList::end_mark_
  bpc,          \* build thread: where it is,
  node,         \*   the node it pushes,
  bnum,         \*   node_num_ as it loaded it,
  docid,        \*   the last local_docid it handed out
  cpc,          \* cleaner: where it is,
  target,       \*   target_time, as the least id it keeps,
  mark,         \*   cur while marking, mark while clearing,
  p,            \*   p of EraseAfter and node of Recycle,
  count,        \*   count of Recycle,
  cnum,         \*   node_num_ as it loaded it
  rpc,          \* retrieval threads: where they are,
  cur,          \*   cur_ of their iterators
  crashed,      \* the process dereferenced NULL
  live,         \* history: nodes the list holds
  detached,     \* history: nodes cut off and not yet recycled
  trail,        \* history: per reader, what it saw and what was there
  overlap,      \* history: PushFront and EraseAfter ran at the same time
  late,         \* history: iterations in progress when the mark was set
  slow          \* history: one of them outlived the sleep

heap  == <<next, local_docid, unborn, obj_pool, node_num, end_mark>>
ghost == <<live, detached, trail, overlap, late, slow>>
build == <<bpc, node, bnum, docid>>
clean == <<cpc, target, mark, p, count, cnum>>
read  == <<rpc, cur, crashed>>
vars  == <<heap, build, clean, read, ghost>>

Cells == Nodes \union {Front}

InPush  == bpc \in {"link", "count"}
InErase == cpc \in {"detach", "recycle", "count"}

\* m lies further from the front than c.
Behind(m, c) == c = Front \/ local_docid[m] < local_docid[c]

-----------------------------------------------------------------------------
(* The build thread: AllocatePosting, fill the posting, AddPosting.        *)

\* AllocatePosting and the stores into p->data.  The allocator reuses the
\* front of obj_pool_ when there is one (buffer_num_ is 0); its mutex is held
\* by Recycle, so a recycling cleaner keeps the build thread out.
AllocatePosting ==
  /\ bpc = "idle"
  /\ cpc # "recycle"
  /\ docid < MaxDocs
  /\ \/ /\ obj_pool = <<>>
        /\ node' \in unborn
        /\ unborn' = unborn \ {node'}
        /\ UNCHANGED obj_pool
     \/ /\ obj_pool # <<>>
        /\ node' = Head(obj_pool)
        /\ obj_pool' = Tail(obj_pool)
        /\ UNCHANGED unborn
  /\ docid' = docid + 1
  /\ next' = [next EXCEPT ![node'] = NULL]
  /\ local_docid' = [local_docid EXCEPT ![node'] = docid']
  /\ bpc' = "push"
  /\ UNCHANGED <<node_num, end_mark, bnum, clean, read, ghost>>

\* node->next = c
PushFrontStore(c) ==
  /\ bpc = "push"
  /\ next' = [next EXCEPT ![node] = c]
  /\ bpc' = "link"
  /\ overlap' = (overlap \/ InErase)
  /\ UNCHANGED <<local_docid, unborn, obj_pool, node_num, end_mark, node, bnum,
                 docid, clean, read, live, detached, trail, late, slow>>

\* Mutants: node->next is not stored; the two stores are swapped.
PushFrontNoStore == PushFrontStore(NULL)
PushFrontSwapped == PushFrontStore(node)

\* node->next = front_->next
PushFrontLoad == PushFrontStore(next[Front])

\* front_->next = node, and the load half of ++node_num_
PushFrontLink ==
  /\ bpc = "link"
  /\ next' = [next EXCEPT ![Front] = node]
  /\ live' = live \union {node}
  /\ bpc' = "count"
  /\ bnum' = node_num
  /\ UNCHANGED <<local_docid, unborn, obj_pool, node_num, end_mark, node, docid,
                 clean, read, detached, trail, overlap, late, slow>>

\* the store half of ++node_num_
PushFrontCount ==
  /\ bpc = "count"
  /\ node_num' = bnum + 1
  /\ bpc' = "idle"
  /\ node' = NULL
  /\ bnum' = 0
  /\ UNCHANGED <<next, local_docid, unborn, obj_pool, end_mark, docid, clean,
                 read, ghost>>

-----------------------------------------------------------------------------
(* The cleaner: marking.                                                   *)

\* target_time is at most one past the last id; cur = GetFakeFront()
MarkUpTo(last) ==
  /\ cpc = "asleep"
  /\ target' \in target .. last + 1
  /\ mark' = Front
  /\ cpc' = "scan"
  /\ UNCHANGED <<heap, build, p, count, cnum, read, ghost>>

\* Mutant: a target_time in the future.
MarkFuture == MarkUpTo(docid + 1)

\* target_time = now - doc_life_time
MarkBegin == MarkUpTo(docid)

\* while (cur->next != NULL && cur->next->data->timestamp >= target_time)
MarkScan ==
  /\ cpc = "scan"
  /\ IF next[mark] # NULL /\ local_docid[next[mark]] >= target
     THEN mark' = next[mark] /\ UNCHANGED cpc
     ELSE cpc' = "setmark" /\ UNCHANGED mark
  /\ UNCHANGED <<heap, build, target, p, count, cnum, read, ghost>>

\* SetEndMark(cur), then sleep(mark_and_clear_sleep_time)
SetEndMark ==
  /\ cpc = "setmark"
  /\ end_mark' = mark
  /\ cpc' = "grace"
  /\ late' = {r \in Readers : rpc[r] # "idle"}
  /\ UNCHANGED <<next, local_docid, unborn, obj_pool, node_num, build, target,
                 mark, p, count, cnum, read, live, detached, trail, overlap,
                 slow>>

-----------------------------------------------------------------------------
(* The cleaner: clearing.                                                  *)

\* mark = GetEndMark(); EraseAfter loads p = node->next.  A list created
\* during the sleep has no mark, and EraseAfter(NULL) does nothing.
EraseAfterLoad ==
  /\ cpc = "grace"
  /\ mark' = end_mark
  /\ IF end_mark = NULL
     THEN cpc' = "unmark" /\ UNCHANGED <<p, overlap>>
     ELSE /\ cpc' = "detach"
          /\ p' = next[end_mark]
          /\ overlap' = (overlap \/ InPush)
  /\ slow' = (slow \/ late # {})
  /\ late' = {}
  /\ UNCHANGED <<heap, build, target, count, cnum, read, live, detached, trail>>

\* node->next = NULL
EraseAfterDetach ==
  /\ cpc = "detach"
  /\ next' = [next EXCEPT ![mark] = NULL]
  /\ live' = {m \in live : ~Behind(m, mark)}
  /\ detached' = detached \union {m \in live : Behind(m, mark)}
  /\ cpc' = "recycle"
  /\ UNCHANGED <<local_docid, unborn, obj_pool, node_num, end_mark, build,
                 target, mark, p, count, cnum, read, trail, overlap, late, slow>>

\* The loop of Recycle, node by node with the allocator's mutex held, and after
\* it the load half of node_num_ -= count
RecycleWhile(more) ==
  /\ cpc = "recycle"
  /\ \/ /\ more
        /\ Len(obj_pool) < MaxPool
        /\ obj_pool' = Append(obj_pool, p)
        /\ detached' = detached \ {p}
        /\ p' = next[p]
        /\ count' = count + 1
        /\ UNCHANGED <<cpc, cnum>>
     \/ /\ ~more
        /\ cpc' = "count"
        /\ cnum' = node_num
        /\ UNCHANGED <<obj_pool, detached, p, count>>
  /\ UNCHANGED <<next, local_docid, unborn, node_num, end_mark, build, target,
                 mark, read, live, trail, overlap, late, slow>>

\* Mutant: the loop stops at the last node.
RecycleAllButLast == RecycleWhile(p # NULL /\ next[p] # NULL)

\* while (node != NULL)
Recycle == RecycleWhile(p # NULL)

\* the store half of node_num_ -= n
EraseAfterStore(n) ==
  /\ cpc = "count"
  /\ node_num' = cnum - n
  /\ cpc' = "unmark"
  /\ cnum' = 0
  /\ count' = 0
  /\ UNCHANGED <<next, local_docid, unborn, obj_pool, end_mark, build, target,
                 mark, p, read, ghost>>

\* Mutant: one node is taken off, however many were recycled.
EraseAfterCountOne == EraseAfterStore(1)

\* node_num_ -= count
EraseAfterCount == EraseAfterStore(count)

\* SetEndMark(NULL), then sleep(clean_doc_interval)
ResetEndMark ==
  /\ cpc = "unmark"
  /\ end_mark' = NULL
  /\ mark' = NULL
  /\ cpc' = "asleep"
  /\ UNCHANGED <<next, local_docid, unborn, obj_pool, node_num, build, target,
                 p, count, cnum, read, ghost>>

-----------------------------------------------------------------------------
(* Retrieval threads: the loop of IndexReader::beginIntersect.             *)

Docs(S) == {local_docid[n] : n \in S}

\* What an iteration has to account for: the postings that were there when it
\* began, the first one it yielded (0: none yet), all it yielded, and those it
\* yielded more than once.
NewTrail(S) == [there |-> Docs(S), first |-> 0, seen |-> {}, again |-> {}]

Yield(t, d) ==
  [there |-> t.there,
   first |-> IF t.first = 0 THEN d ELSE t.first,
   seen  |-> t.seen \union {d},
   again |-> IF d \in t.seen THEN t.again \union {d} ELSE t.again]

\* GetPostingList: a new iterator stands on the fake front.
BeginIteration(r) ==
  /\ rpc[r] = "idle"
  /\ rpc' = [rpc EXCEPT ![r] = "test"]
  /\ cur' = [cur EXCEPT ![r] = Front]
  /\ trail' = [trail EXCEPT ![r] = NewTrail(live)]
  /\ UNCHANGED <<heap, build, clean, crashed, live, detached, overlap, late,
                 slow>>

\* HasValue returned false: the loop ends and the iterator is dropped.
EndIteration(r) ==
  /\ rpc' = [rpc EXCEPT ![r] = "idle"]
  /\ cur' = [cur EXCEPT ![r] = NULL]
  /\ trail' = [trail EXCEPT ![r] = NewTrail({})]
  /\ late' = late \ {r}

\* HasValue, first load: cur_ == NULL || cur_->next == NULL
HasValueNext(r) ==
  /\ rpc[r] = "test"
  /\ IF cur[r] = NULL \/ next[cur[r]] = NULL
     THEN EndIteration(r)
     ELSE rpc' = [rpc EXCEPT ![r] = "mark"] /\ UNCHANGED <<cur, trail, late>>
  /\ UNCHANGED <<heap, build, clean, crashed, live, detached, overlap, slow>>

\* HasValue, second load: the end mark says whether this is the end.
HasValueUnless(r, end) ==
  /\ rpc[r] = "mark"
  /\ IF end
     THEN EndIteration(r)
     ELSE rpc' = [rpc EXCEPT ![r] = "get"] /\ UNCHANGED <<cur, trail, late>>
  /\ UNCHANGED <<heap, build, clean, crashed, live, detached, overlap, slow>>

\* Mutants: the mark is not tested; any mark ends the iteration.
HasValueNoMark(r)  == HasValueUnless(r, FALSE)
HasValueAnyMark(r) == HasValueUnless(r, end_mark # NULL)

\* end_mark == GetFakeFront() || end_mark == cur_
HasValueMark(r) == HasValueUnless(r, end_mark = Front \/ end_mark = cur[r])

\* *(cur_->next->data): cur_->next is loaded again
GetValue(r) ==
  /\ rpc[r] = "get"
  /\ IF next[cur[r]] = NULL
     THEN crashed' = TRUE /\ UNCHANGED <<rpc, trail>>
     ELSE /\ trail' = [trail EXCEPT ![r] = Yield(@, local_docid[next[cur[r]]])]
          /\ rpc' = [rpc EXCEPT ![r] = "next"]
          /\ UNCHANGED crashed
  /\ UNCHANGED <<heap, build, clean, cur, live, detached, overlap, late, slow>>

\* cur_ = c
MoveTo(r, c) ==
  /\ rpc[r] = "next"
  /\ rpc' = [rpc EXCEPT ![r] = "test"]
  /\ cur' = [cur EXCEPT ![r] = c]
  /\ UNCHANGED <<heap, build, clean, crashed, ghost>>

\* Mutant: the iterator does not move.
NextStays(r) == MoveTo(r, cur[r])

\* cur_ = cur_->next, loaded a third time
NextPosting(r) == MoveTo(r, next[cur[r]])

-----------------------------------------------------------------------------
\* A new list is empty.  Its token may be added while the cleaner sleeps
\* between two rounds or between marking and clearing.
Init ==
  /\ next = [c \in Cells |-> NULL]
  /\ local_docid = [n \in Nodes |-> 0]
  /\ unborn = Nodes
  /\ obj_pool = <<>>
  /\ node_num = 0
  /\ end_mark = NULL
  /\ bpc = "idle" /\ node = NULL /\ bnum = 0 /\ docid = 0
  /\ cpc \in {"asleep", "grace"} /\ target = 0 /\ mark = NULL
  /\ p = NULL /\ count = 0 /\ cnum = 0
  /\ rpc = [r \in Readers |-> "idle"]
  /\ cur = [r \in Readers |-> NULL]
  /\ crashed = FALSE
  /\ live = {}
  /\ detached = {}
  /\ trail = [r \in Readers |-> NewTrail({})]
  /\ overlap = FALSE
  /\ late = {}
  /\ slow = FALSE

Build == AllocatePosting \/ PushFrontLoad \/ PushFrontLink \/ PushFrontCount

Clean ==
  \/ MarkBegin \/ MarkScan \/ SetEndMark
  \/ EraseAfterLoad \/ EraseAfterDetach \/ Recycle \/ EraseAfterCount
  \/ ResetEndMark

\* One step of the loop; an iteration that has begun takes them until it ends.
Iterate(r) ==
  HasValueNext(r) \/ HasValueMark(r) \/ GetValue(r) \/ NextPosting(r)

Next ==
  /\ ~crashed
  /\ \/ Build
     \/ Clean
     \/ \E r \in Readers : BeginIteration(r) \/ Iterate(r)

\* A crashed process takes no step.
Dead == crashed /\ UNCHANGED vars

Spec == Init /\ [][Next \/ Dead]_vars

\* A retrieval thread that can step does.  Nothing is assumed of the writers:
\* iterating waits for neither of them.
FairSpec ==
  /\ Spec
  /\ \A r \in Readers : WF_vars(~crashed /\ Iterate(r))

-----------------------------------------------------------------------------
TrailType == [there : SUBSET (0 .. MaxDocs), first : 0 .. MaxDocs,
              seen : SUBSET (0 .. MaxDocs), again : SUBSET (0 .. MaxDocs)]

HeapTypeOK ==
  /\ next \in [Cells -> Nodes \union {NULL}]
  /\ local_docid \in [Nodes -> 0 .. MaxDocs]
  /\ unborn \subseteq Nodes
  /\ obj_pool \in Seq(Nodes)
  /\ node_num \in Int
  /\ end_mark \in Cells \union {NULL}

ThreadTypeOK ==
  /\ bpc \in {"idle", "push", "link", "count"}
  /\ node \in Nodes \union {NULL}
  /\ bnum \in Int
  /\ docid \in 0 .. MaxDocs
  /\ cpc \in {"asleep", "scan", "setmark", "grace", "detach", "recycle",
              "count", "unmark"}
  /\ target \in 0 .. MaxDocs + 1
  /\ mark \in Cells \union {NULL}
  /\ p \in Nodes \union {NULL}
  /\ count \in Nat
  /\ cnum \in Int
  /\ rpc \in [Readers -> {"idle", "test", "mark", "get", "next"}]
  /\ cur \in [Readers -> Cells \union {NULL}]
  /\ crashed \in BOOLEAN

HistoryTypeOK ==
  /\ live \subseteq Nodes
  /\ detached \subseteq Nodes
  /\ trail \in [Readers -> TrailType]
  /\ overlap \in BOOLEAN
  /\ late \subseteq Readers
  /\ slow \in BOOLEAN

TypeOK == HeapTypeOK /\ ThreadTypeOK /\ HistoryTypeOK

Pooled == {obj_pool[i] : i \in 1 .. Len(obj_pool)}

\* The nodes the build thread holds between Allocate and the store that links
\* them.
Held == IF bpc \in {"push", "link"} THEN {node} ELSE {}

\* Following next from the fake front visits exactly the live nodes, newest
\* first, and ends.  LocklessList::PushFront and EraseAfter keep the chain
\* intact as long as they never run at the same time.
ListIntact ==
  ~overlap =>
    \A c \in live \union {Front} :
      IF next[c] = NULL
      THEN \A m \in live : ~Behind(m, c)
      ELSE /\ next[c] \in live
           /\ Behind(next[c], c)
           /\ \A m \in live : Behind(m, c) => m = next[c] \/ Behind(m, next[c])

\* No node is lost or in two places: each is unborn, pooled once, in the list,
\* in the hands of the build thread, or cut off and about to be recycled;
\* Recycle finds every node that EraseAfter cut off.
NodesAccounted ==
  ~overlap =>
    /\ Nodes = unborn \union Pooled \union live \union Held \union detached
    /\ live \intersect (unborn \union Pooled \union Held \union detached) = {}
    /\ Pooled \intersect (unborn \union Held \union detached) = {}
    /\ Held \intersect (unborn \union detached) = {}
    /\ unborn \intersect detached = {}
    /\ \A i, j \in 1 .. Len(obj_pool) : obj_pool[i] = obj_pool[j] => i = j
    /\ cpc # "recycle" \/ p = NULL => detached = {}

\* Between operations node_num_ is the number of nodes in the list: the lost
\* updates that ++node_num_ and node_num_ -= count allow need an overlap.
NodeNumExact ==
  ~overlap /\ ~InPush /\ ~InErase => node_num = Cardinality(live)

\* IsEmpty's CHECK_EQ(0, node_num_): an empty list has no nodes.
EmptyListHasNoNodes ==
  ~InPush /\ ~InErase /\ next[Front] = NULL => node_num = 0

\* An iteration only stands on the fake front or on nodes of the list, never on
\* one that was erased, recycled or reused: the sleep between marking and
\* clearing protects the iterations that may be past the mark, and the mark
\* itself stops the others.
ReaderOnList ==
  ~overlap /\ ~slow =>
    \A r \in Readers :
      rpc[r] # "idle" => cur[r] \in live \union {Front}

\* "Get posting. Only used after pass the HasValue test": once HasValue has
\* returned true there is a posting for GetValue to return, even in an iteration
\* that began after the mark was set and with one writer at a time.
HasValueThenGetValue == ~overlap /\ ~slow => ~crashed

KeepsPosting(r) ==
  /\ rpc[r] \in {"get", "next"} /\ rpc'[r] = rpc[r] /\ next[cur[r]] # NULL
       => next'[cur[r]] # NULL
  /\ rpc[r] = "mark" /\ rpc'[r] = "get" /\ next[cur[r]] = NULL
       => end_mark = NULL \/ r \in late

\* Two properties of HasValue that do hold.  A posting it found is not taken away
\* before GetValue and Next have used it: an iteration that saw no mark at cur_
\* is protected by the sleep.  And it returns true with nothing left to return
\* only when the cleaner has cleared cur_'s successors and reset the mark since
\* its first load: no mark is set, or one the iteration is older than.
PostingStays ==
  [][~overlap' /\ ~slow' => \A r \in Readers : KeepsPosting(r)]_vars

\* PushFront between GetValue and Next on the fake front makes the iterator
\* step onto the new node and yield its successor again; nothing else is ever
\* yielded twice.
OnlyFirstYieldedAgain ==
  ~overlap /\ ~slow =>
    \A r \in Readers : trail[r].again \subseteq {trail[r].first}

\* An iteration that ends has yielded every posting that was in the list when
\* it began and is still in the list, not marked for deletion.
IterationComplete ==
  [][\A r \in Readers :
       rpc[r] # "idle" /\ rpc'[r] = "idle" /\ ~overlap /\ ~slow =>
         \A n \in live :
           \/ local_docid[n] \notin trail[r].there
           \/ local_docid[n] \in trail[r].seen
           \/ end_mark # NULL /\ Behind(n, end_mark)]_vars

\* An iteration ends, however many postings are pushed meanwhile, unless the
\* list was broken or its nodes were reused under the iterator.
IterationEnds ==
  \A r \in Readers :
    rpc[r] # "idle" ~> rpc[r] = "idle" \/ overlap \/ slow \/ crashed
=============================================================================
