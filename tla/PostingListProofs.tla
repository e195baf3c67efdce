--------------------------- MODULE PostingListProofs ---------------------------
(***************************************************************************)
(* Type correctness and safety of PostingList, for any number of nodes,    *)
(* readers and postings.  Types and pointers hold whether or not the two   *)
(* writers overlap.  The inductive invariant IInv of the rest is the       *)
(* conjunction of the parts below: the heap parts hold until the writers   *)
(* overlap, the reader part until moreover an iteration outlives the       *)
(* sleep.                                                                  *)
(***************************************************************************)
EXTENDS PostingList, TLAPS

\* Pointers are not NULL where the code follows them, broken list or not.
Pointers ==
  /\ bpc # "idle" => node \in Nodes
  /\ cpc \in {"scan", "setmark", "detach"} => mark \in Cells
  /\ \A r \in Readers :
       rpc[r] \in {"mark", "get", "next"} => cur[r] \in Cells

TypeInv == TypeOK /\ Pointers

-----------------------------------------------------------------------------
\* A new list.
LEMMA InitType == Init => TypeInv
  <1> SUFFICES ASSUME Init
               PROVE  TypeInv
    BY Zenon
  <1> USE ConstantsAssumption DEF Init, Cells
  <1>1. HeapTypeOK
    BY DEF HeapTypeOK
  <1>2. ThreadTypeOK
    <2>1. bpc \in {"idle", "push", "link", "count"}
      BY Zenon
    <2>2. cpc \in {"asleep", "scan", "setmark", "grace", "detach", "recycle",
                   "count", "unmark"}
      BY Zenon
    <2>3. rpc \in [Readers -> {"idle", "test", "mark", "get", "next"}]
      BY Zenon
    <2>4. docid \in 0 .. MaxDocs /\ target \in 0 .. MaxDocs + 1
      OBVIOUS
    <2>5. crashed \in BOOLEAN
      BY Zenon
    <2>6. cur \in [Readers -> Cells \union {NULL}]
      BY Zenon
    <2>7. QED
      BY <2>1, <2>2, <2>3, <2>4, <2>5, <2>6 DEF ThreadTypeOK
  <1>3. HistoryTypeOK
    <2>1. NewTrail({}) \in TrailType
      BY DEF NewTrail, TrailType, Docs
    <2>2. QED
      BY <2>1, Zenon DEF HistoryTypeOK
  <1>4. Pointers
    BY Zenon DEF Pointers
  <1>5. QED
    BY <1>1, <1>2, <1>3, <1>4, Zenon DEF TypeInv, TypeOK

\* A step of the build thread.
LEMMA BuildType ==
  ASSUME TypeInv, Build
  PROVE  TypeInv'
  <1> USE ConstantsAssumption
      DEF TypeInv, TypeOK, HeapTypeOK, ThreadTypeOK, HistoryTypeOK, Pointers,
          Cells, heap, build, clean, read, ghost
  <1>1. CASE AllocatePosting
    <2>1. /\ node' \in Nodes
          /\ unborn' \subseteq Nodes
          /\ obj_pool' \in Seq(Nodes)
      <3>1. CASE obj_pool = <<>>
        BY <1>1, <3>1, Zenon DEF AllocatePosting
      <3>2. CASE obj_pool # <<>>
        <4>1. Head(obj_pool) \in Nodes /\ Tail(obj_pool) \in Seq(Nodes)
          BY <3>2
        <4>2. QED
          BY <1>1, <3>2, <4>1, Zenon DEF AllocatePosting
      <3>3. QED
        BY <3>1, <3>2, Zenon
    <2>2. QED
      BY <1>1, <2>1 DEF AllocatePosting
  <1>2. CASE PushFrontLoad
    BY <1>2 DEF PushFrontLoad, PushFrontStore, InErase
  <1>3. CASE PushFrontLink
    BY <1>3 DEF PushFrontLink
  <1>4. CASE PushFrontCount
    BY <1>4 DEF PushFrontCount
  <1>5. QED
    BY <1>1, <1>2, <1>3, <1>4, Zenon DEF Build

\* A step of the cleaner.
LEMMA CleanType ==
  ASSUME TypeInv, Clean
  PROVE  TypeInv'
  <1> USE ConstantsAssumption
      DEF TypeInv, TypeOK, HeapTypeOK, ThreadTypeOK, HistoryTypeOK, Pointers,
          Cells, heap, build, clean, read, ghost
  <1>1. CASE MarkBegin
    BY <1>1 DEF MarkBegin, MarkUpTo
  <1>2. CASE MarkScan
    BY <1>2 DEF MarkScan
  <1>3. CASE SetEndMark
    BY <1>3 DEF SetEndMark
  <1>4. CASE EraseAfterLoad
    BY <1>4, ZenonT(30) DEF EraseAfterLoad, InPush
  <1>5. CASE EraseAfterDetach
    BY <1>5 DEF EraseAfterDetach
  <1>6. CASE Recycle
    <2>1. CASE p = NULL
      BY <1>6, <2>1 DEF Recycle, RecycleWhile
    <2>2. CASE p # NULL
      <3>1. obj_pool' \in Seq(Nodes)
        <4>1. p \in Nodes /\ obj_pool \in Seq(Nodes)
          BY <2>2, Zenon
        <4>2. Append(obj_pool, p) \in Seq(Nodes)
          BY <4>1
        <4>3. obj_pool' = Append(obj_pool, p)
          BY <1>6, <2>2, Zenon DEF Recycle, RecycleWhile
        <4>4. QED
          BY <4>2, <4>3, Zenon
      <3>2. /\ p' \in Nodes \union {NULL}
            /\ count' \in Nat
            /\ detached' \subseteq Nodes
            /\ UNCHANGED <<cpc, cnum>>
        BY <1>6, <2>2 DEF Recycle, RecycleWhile
      <3>3. QED
        BY <1>6, <3>1, <3>2 DEF Recycle, RecycleWhile
    <2>3. QED
      BY <2>1, <2>2, Zenon
  <1>7. CASE EraseAfterCount
    BY <1>7 DEF EraseAfterCount, EraseAfterStore
  <1>8. CASE ResetEndMark
    BY <1>8, Zenon DEF ResetEndMark
  <1>9. QED
    BY <1>1, <1>2, <1>3, <1>4, <1>5, <1>6, <1>7, <1>8, Zenon DEF Clean

\* A step of an iteration.
LEMMA ReadType ==
  ASSUME TypeInv, NEW r \in Readers, BeginIteration(r) \/ Iterate(r)
  PROVE  TypeInv'
  <1> USE ConstantsAssumption
      DEF TypeInv, TypeOK, HeapTypeOK, ThreadTypeOK, HistoryTypeOK, Pointers,
          Cells, heap, build, clean, read, ghost
  <1>1. ASSUME NEW S \in SUBSET Nodes
        PROVE  NewTrail(S) \in TrailType
    BY DEF NewTrail, TrailType, Docs
  <1>2. ASSUME NEW t \in TrailType, NEW d \in 0 .. MaxDocs
        PROVE  Yield(t, d) \in TrailType
    BY ZenonT(30) DEF Yield, TrailType
  <1>3. CASE BeginIteration(r)
    BY <1>1, <1>3 DEF BeginIteration
  <1>4. ASSUME EndIteration(r),
               UNCHANGED <<heap, build, clean, crashed, live, detached, overlap,
                           slow>>
        PROVE  TypeInv'
    <2>1. NewTrail({}) \in TrailType
      BY <1>1, Zenon
    <2>2. trail' \in [Readers -> TrailType]
      BY <1>4, <2>1, Zenon DEF EndIteration
    <2>3. Pointers'
      BY <1>4, Zenon DEF EndIteration
    <2>4. QED
      BY <1>4, <2>2, <2>3 DEF EndIteration
  <1>5. CASE HasValueNext(r)
    <2>1. CASE cur[r] = NULL \/ next[cur[r]] = NULL
      BY <1>4, <1>5, <2>1, Zenon DEF HasValueNext
    <2>2. CASE ~(cur[r] = NULL \/ next[cur[r]] = NULL)
      <3>1. Pointers'
        BY <1>5, <2>2, Zenon DEF HasValueNext
      <3>2. QED
        BY <1>5, <2>2, <3>1 DEF HasValueNext
    <2>3. QED
      BY <2>1, <2>2, Zenon
  <1>6. CASE HasValueMark(r)
    <2>1. CASE end_mark = Front \/ end_mark = cur[r]
      BY <1>4, <1>6, <2>1, Zenon DEF HasValueMark, HasValueUnless
    <2>2. CASE ~(end_mark = Front \/ end_mark = cur[r])
      <3>1. Pointers'
        BY <1>6, <2>2, Zenon DEF HasValueMark, HasValueUnless
      <3>2. QED
        BY <1>6, <2>2, <3>1 DEF HasValueMark, HasValueUnless
    <2>3. QED
      BY <2>1, <2>2, Zenon
  <1>7. CASE GetValue(r)
    <2>1. CASE next[cur[r]] = NULL
      <3>1. crashed' \in BOOLEAN
        BY <1>7, <2>1, Zenon DEF GetValue
      <3>2. UNCHANGED <<heap, build, clean, rpc, cur, ghost>>
        BY <1>7, <2>1, Zenon DEF GetValue
      <3>3. QED
        BY <3>1, <3>2
    <2>2. CASE next[cur[r]] # NULL
      <3> DEFINE d == local_docid[next[cur[r]]]
      <3>1. d \in 0 .. MaxDocs
        BY <1>7, <2>2, Zenon DEF GetValue
      <3>2. Yield(trail[r], d) \in TrailType
        BY <1>2, <3>1, Zenon
      <3>3. trail' = [trail EXCEPT ![r] = Yield(trail[r], d)]
        BY <1>7, <2>2, Zenon DEF GetValue
      <3> HIDE DEF d
      <3>4. trail' \in [Readers -> TrailType]
        BY <3>2, <3>3, Zenon
      <3>5. QED
        BY <1>7, <2>2, <3>4, SMTT(20) DEF GetValue
    <2>3. QED
      BY <2>1, <2>2, Zenon
  <1>8. CASE NextPosting(r)
    BY <1>8 DEF NextPosting, MoveTo
  <1>9. QED
    BY <1>3, <1>5, <1>6, <1>7, <1>8, Zenon DEF Iterate

\* Every step of every thread.
LEMMA NextType == TypeInv /\ [Next \/ Dead]_vars => TypeInv'
  <1> SUFFICES ASSUME TypeInv, [Next \/ Dead]_vars
               PROVE  TypeInv'
    BY Zenon
  <1>1. CASE Next
    BY <1>1, BuildType, CleanType, ReadType, Zenon DEF Next
  <1>2. CASE UNCHANGED vars
    BY <1>2 DEF vars, heap, build, clean, read, ghost, TypeInv, TypeOK,
                HeapTypeOK, ThreadTypeOK, HistoryTypeOK, Pointers
  <1>3. QED
    BY <1>1, <1>2, Zenon DEF Dead

\* The inductive invariant.
LEMMA TypeInvariance == Spec => []TypeInv
  BY InitType, NextType, PTL DEF Spec

\* Every variable keeps its type in every behaviour of the posting list, also
\* after PushFront and EraseAfter have overlapped: next pointers lead to nodes
\* or to NULL, and the pool holds nodes.
THEOREM TypeCorrect == Spec => []TypeOK
  <1>1. TypeInv => TypeOK
    BY Zenon DEF TypeInv
  <1>2. QED
    BY <1>1, TypeInvariance, PTL

\* The node PushFront stores into, the cell from which the cleaner's scan and
\* EraseAfter go on and cur_ of an iterator that has passed the first test of
\* HasValue are never NULL.  Of cur_->next, which GetValue follows, it says
\* nothing.
THEOREM PointersValid == Spec => []Pointers
  <1>1. TypeInv => Pointers
    BY Zenon DEF TypeInv
  <1>2. QED
    BY <1>1, TypeInvariance, PTL

-----------------------------------------------------------------------------
\* The nodes of the list, of the chain being recycled and in the build thread's
\* hands carry distinct ids, the latest in its hands.
Numbered ==
  /\ \A m, n \in live \union detached :
       m # n => local_docid[m] # local_docid[n]
  /\ \A n \in live \union detached : local_docid[n] <= docid
  /\ bpc \in {"push", "link"} =>
       /\ local_docid[node] = docid
       /\ \A n \in live \union detached : local_docid[n] < docid

\* One writer at a time, and what each has loaded is still current.
WriterState ==
  /\ ~(InPush /\ InErase)
  /\ bpc = "link" => next[node] = next[Front]
  /\ cpc = "detach" => p = next[mark]
  /\ cpc # "recycle" => detached = {}

\* The end mark and the cleaner's position in the list.
MarkOnList ==
  /\ end_mark # NULL =>
       /\ end_mark \in live \union {Front}
       /\ cpc \in {"grace", "detach", "recycle", "count", "unmark"}
  /\ cpc \in {"scan", "setmark"} => mark \in live \union {Front}
  /\ InErase => mark = end_mark /\ end_mark # NULL

\* The chain Recycle walks: from p through all detached nodes.
ChainDetached ==
  cpc = "recycle" =>
    /\ IF p = NULL
       THEN detached = {}
       ELSE /\ p \in detached
            /\ \A m \in detached : m = p \/ Behind(m, p)
    /\ \A c \in detached :
         IF next[c] = NULL
         THEN \A m \in detached : ~Behind(m, c)
         ELSE /\ next[c] \in detached
              /\ Behind(next[c], c)
              /\ \A m \in detached :
                   Behind(m, c) => m = next[c] \/ Behind(m, next[c])

\* node_num_ and the registers of the two read-modify-writes.
Counted ==
  /\ ~InPush /\ ~InErase => node_num = Cardinality(live)
  /\ bpc = "link" => node_num = Cardinality(live)
  /\ bpc = "count" => bnum = node_num
                             /\ Cardinality(live) = node_num + 1
  /\ cpc \notin {"recycle", "count"} => count = 0
  /\ cpc = "detach" => node_num = Cardinality(live)
  /\ cpc = "recycle" =>
       node_num = Cardinality(live) + Cardinality(detached) + count
  /\ cpc = "count" => cnum = node_num
                             /\ node_num = Cardinality(live) + count

\* Iterations: on the list; one that is about to advance has a node to advance
\* to; one that began after the mark was set has not passed it.
ReaderState ==
  \A r \in Readers :
    rpc[r] # "idle" =>
      /\ cur[r] \in live \union {Front}
      /\ rpc[r] = "next" => next[cur[r]] # NULL
      /\ end_mark # NULL /\ r \notin late =>
           /\ \/ end_mark = cur[r]
              \/ end_mark \in live /\ Behind(end_mark, cur[r])
           /\ rpc[r] \in {"get", "next"} => end_mark # cur[r]

LateOnlyInGrace == cpc # "grace" => late = {}

\* The shape of the heap as long as the writers have not overlapped.
Shape ==
  /\ ListIntact /\ NodesAccounted
  /\ Numbered /\ WriterState /\ MarkOnList /\ ChainDetached

IInv ==
  /\ TypeInv
  /\ LateOnlyInGrace
  /\ ~overlap => Shape /\ Counted
  /\ ~overlap /\ ~slow => ReaderState
-----------------------------------------------------------------------------
(* The allocator's pool as a set.                                          *)

Elems(s) == {s[i] : i \in 1 .. Len(s)}
Distinct(s) == \A i, j \in 1 .. Len(s) : s[i] = s[j] => i = j

\* pop_front takes one node out of a pool without repetitions.
LEMMA PopFront ==
  ASSUME NEW S, NEW s \in Seq(S), s # <<>>, Distinct(s)
  PROVE  /\ Elems(Tail(s)) = Elems(s) \ {Head(s)}
         /\ Head(s) \in Elems(s)
         /\ Distinct(Tail(s))
  <1> DEFINE t == Tail(s)
  <1> USE DEF Elems, Distinct
  <1>1. /\ Len(s) \in Nat /\ Len(s) >= 1 /\ Len(t) = Len(s) - 1
        /\ Head(s) = s[1]
        /\ \A i \in 1 .. Len(t) : t[i] = s[i + 1]
    OBVIOUS
  <1>2. \A i, j \in 1 .. Len(t) : t[i] = t[j] => i = j
    <2> SUFFICES ASSUME NEW i \in 1 .. Len(t), NEW j \in 1 .. Len(t), t[i] = t[j]
                 PROVE  i = j
      BY Zenon
    <2>1. s[i + 1] = s[j + 1] /\ i + 1 \in 1 .. Len(s) /\ j + 1 \in 1 .. Len(s)
      BY <1>1
    <2>2. i + 1 = j + 1
      BY <2>1, Zenon
    <2>3. QED
      BY <2>2
  <1>3. ASSUME NEW i \in 1 .. Len(t)
        PROVE  t[i] \in {s[k] : k \in 1 .. Len(s)} \ {Head(s)}
    <2>1. i + 1 \in 1 .. Len(s) /\ 1 \in 1 .. Len(s) /\ i + 1 # 1
      BY <1>1
    <2>2. s[i + 1] # s[1]
      BY <2>1, Zenon
    <2>3. QED
      BY <1>1, <2>1, <2>2, Zenon
  <1>4. ASSUME NEW k \in 1 .. Len(s), s[k] # Head(s)
        PROVE  s[k] \in {t[i] : i \in 1 .. Len(t)}
    <2>1. k - 1 \in 1 .. Len(t)
      BY <1>1, <1>4
    <2>2. t[k - 1] = s[k]
      BY <1>1, <2>1
    <2>3. QED
      BY <2>1, <2>2, Zenon
  <1>5. Head(s) \in {s[i] : i \in 1 .. Len(s)}
    BY <1>1
  <1> HIDE DEF t
  <1>6. {t[i] : i \in 1 .. Len(t)} = {s[i] : i \in 1 .. Len(s)} \ {Head(s)}
    BY <1>3, <1>4
  <1>7. QED
    BY <1>2, <1>5, <1>6, Zenon DEF t

\* push_back adds one.
LEMMA PushBack ==
  ASSUME NEW S, NEW s \in Seq(S), NEW x \in S, x \notin Elems(s), Distinct(s)
  PROVE  /\ Elems(Append(s, x)) = Elems(s) \union {x}
         /\ Distinct(Append(s, x))
  <1> DEFINE t == Append(s, x)
  <1> USE DEF Elems, Distinct
  <1>1. /\ Len(s) \in Nat /\ Len(t) = Len(s) + 1
        /\ t[Len(s) + 1] = x
        /\ \A i \in 1 .. Len(s) : t[i] = s[i]
    OBVIOUS
  <1>2. \A i \in 1 .. Len(t) : i \in 1 .. Len(s) \/ i = Len(s) + 1
    BY <1>1
  <1>3. 1 .. Len(s) \subseteq 1 .. Len(t) /\ Len(s) + 1 \in 1 .. Len(t)
    BY <1>1
  <1> HIDE DEF t
  <1>4. \A i, j \in 1 .. Len(t) : t[i] = t[j] => i = j
    BY <1>1, <1>2, Zenon
  <1>5. {t[i] : i \in 1 .. Len(t)} = {s[i] : i \in 1 .. Len(s)} \union {x}
    BY <1>1, <1>2, <1>3
  <1>6. QED
    BY <1>4, <1>5, Zenon DEF t

-----------------------------------------------------------------------------
(* The shape of the heap, thread by thread.                                *)

\* AllocatePosting takes a node out of the unborn and the pooled ones.
LEMMA AllocatePool ==
  ASSUME obj_pool \in Seq(Nodes), AllocatePosting,
         Pooled \intersect unborn = {}, Distinct(obj_pool)
  PROVE  /\ node' \in unborn \union Pooled
         /\ unborn' \union Pooled' = (unborn \union Pooled) \ {node'}
         /\ Pooled' \intersect unborn' = {}
         /\ Distinct(obj_pool')
  <1>1. Pooled = Elems(obj_pool) /\ Pooled' = Elems(obj_pool')
    BY Zenon DEF Pooled, Elems
  <1>2. CASE obj_pool = <<>>
    <2>1. node' \in unborn /\ unborn' = unborn \ {node'} /\ obj_pool' = obj_pool
      BY <1>2, Zenon DEF AllocatePosting
    <2>2. QED
      BY <1>1, <2>1, Zenon
  <1>3. CASE obj_pool # <<>>
    <2>1. node' = Head(obj_pool) /\ obj_pool' = Tail(obj_pool) /\ unborn' = unborn
      BY <1>3, Zenon DEF AllocatePosting
    <2>2. /\ Elems(Tail(obj_pool)) = Elems(obj_pool) \ {Head(obj_pool)}
          /\ Head(obj_pool) \in Elems(obj_pool)
          /\ Distinct(Tail(obj_pool))
      BY <1>3, PopFront, Zenon
    <2>3. QED
      BY <1>1, <2>1, <2>2, Zenon
  <1>4. QED
    BY <1>2, <1>3, Zenon

\* The allocated node is on no chain, so the stores into it disturb none.
LEMMA AllocateShape ==
  ASSUME TypeInv, TypeInv', ~overlap, ~overlap', Shape, AllocatePosting
  PROVE  Shape'
  <1> USE ConstantsAssumption
      DEF TypeInv, TypeOK, HeapTypeOK, ThreadTypeOK, HistoryTypeOK, Cells
  <1>1. /\ bpc = "idle" /\ bpc' = "push" /\ cpc # "recycle"
        /\ node' \in Nodes
        /\ docid' = docid + 1
        /\ next' = [next EXCEPT ![node'] = NULL]
        /\ local_docid' = [local_docid EXCEPT ![node'] = docid']
        /\ UNCHANGED <<node_num, end_mark, cpc, mark, p, live, detached>>
    BY Zenon DEF AllocatePosting, clean, ghost, Pointers
  <1>2. detached = {}
    BY <1>1, Zenon DEF Shape, WriterState
  <1>3. /\ node' \in unborn \union Pooled
        /\ unborn' \union Pooled' = (unborn \union Pooled) \ {node'}
        /\ Pooled' \intersect unborn' = {}
        /\ \A i, j \in 1 .. Len(obj_pool') : obj_pool'[i] = obj_pool'[j] => i = j
    BY AllocatePool, Zenon DEF Shape, NodesAccounted, Distinct
  <1>4. node' \notin live \union {Front}
    BY <1>1, <1>3 DEF Shape, NodesAccounted
  <1>5. \A n \in live : local_docid'[n] = local_docid[n]
    BY <1>1, <1>4
  <1>6. \A c \in live \union {Front} : next'[c] = next[c]
    BY <1>1, <1>4
  <1>7. ListIntact'
    BY <1>1, <1>4, <1>5, <1>6, ZenonT(40) DEF Shape, ListIntact, Behind
  <1>8. NodesAccounted'
    <2>1. Held = {} /\ Held' = {node'}
      BY <1>1, Zenon DEF Held
    <2>2. QED
      BY <1>1, <1>2, <1>3, <1>4, <2>1 DEF Shape, NodesAccounted
  <1>9. Numbered'
    BY <1>1, <1>2, <1>4, <1>5 DEF Shape, Numbered
  <1>10. MarkOnList'
    BY <1>1, Zenon DEF Shape, MarkOnList, InErase
  <1>11. WriterState'
    <2>1. cpc = "detach" => next'[mark] = next[mark]
      BY <1>6, Zenon DEF Shape, MarkOnList, InErase
    <2>2. QED
      BY <1>1, <1>2, <2>1, Zenon DEF Shape, WriterState, InPush, InErase
  <1>12. ChainDetached'
    BY <1>1, Zenon DEF ChainDetached
  <1>13. QED
    BY <1>7, <1>8, <1>9, <1>10, <1>11, <1>12, Zenon DEF Shape

\* node->next = front_->next: the node still belongs to the build thread.
LEMMA PushFrontLoadShape ==
  ASSUME TypeInv, TypeInv', ~overlap, ~overlap', Shape, PushFrontLoad
  PROVE  Shape'
  <1> USE ConstantsAssumption
      DEF TypeInv, TypeOK, HeapTypeOK, ThreadTypeOK, HistoryTypeOK, Cells
  <1>1. /\ bpc = "push" /\ bpc' = "link" /\ ~InErase
        /\ node \in Nodes
        /\ next' = [next EXCEPT ![node] = next[Front]]
        /\ UNCHANGED <<local_docid, unborn, obj_pool, end_mark, node, docid, cpc,
                       mark, p, live, detached>>
    BY Zenon DEF PushFrontLoad, PushFrontStore, clean, Pointers
  <1>2. Held = {node} /\ Held' = {node}
    BY <1>1, Zenon DEF Held
  <1>3. node \notin live \union {Front} /\ detached = {}
    BY <1>1, <1>2 DEF Shape, NodesAccounted, WriterState, InErase
  <1>4. \A c \in live \union {Front} : next'[c] = next[c]
    BY <1>1, <1>3
  <1>5. ListIntact'
    BY <1>1, <1>4, Zenon DEF Shape, ListIntact, Behind
  <1>6. NodesAccounted'
    <2>1. Pooled' = Pooled
      BY <1>1 DEF Pooled
    <2>2. QED
      BY <1>1, <1>2, <2>1, Zenon DEF Shape, NodesAccounted
  <1>7. Numbered'
    BY <1>1, ZenonT(30) DEF Shape, Numbered
  <1>8. MarkOnList'
    BY <1>1, Zenon DEF Shape, MarkOnList, InErase
  <1>9. WriterState'
    BY <1>1, <1>3, <1>4, Zenon DEF WriterState, InPush, InErase
  <1>10. ChainDetached'
    BY <1>1, Zenon DEF ChainDetached, InErase
  <1>11. QED
    BY <1>5, <1>6, <1>7, <1>8, <1>9, <1>10, Zenon DEF Shape

\* front_->next = node: the newest node becomes the first of the chain.
LEMMA PushFrontLinkShape ==
  ASSUME TypeInv, TypeInv', ~overlap, ~overlap', Shape, PushFrontLink
  PROVE  Shape'
  <1> USE ConstantsAssumption
      DEF TypeInv, TypeOK, HeapTypeOK, ThreadTypeOK, HistoryTypeOK, Cells
  <1>1. /\ bpc = "link" /\ bpc' = "count"
        /\ node \in Nodes
        /\ next' = [next EXCEPT ![Front] = node]
        /\ live' = live \union {node}
        /\ UNCHANGED <<local_docid, unborn, obj_pool, end_mark, node, docid, cpc,
                       mark, p, detached>>
    BY Zenon DEF PushFrontLink, clean, Pointers
  <1>2. ~InErase
    BY <1>1, Zenon DEF Shape, WriterState, InPush
  <1>3. Held = {node} /\ Held' = {}
    BY <1>1, Zenon DEF Held
  <1>4. node \notin live \union {Front} /\ detached = {}
    BY <1>1, <1>2, <1>3, Zenon DEF Shape, NodesAccounted, WriterState, InErase
  <1>5. next'[Front] = node /\ next'[node] = next[Front]
    BY <1>1, <1>4, Zenon DEF Shape, WriterState
  <1>6. \A n \in live : next'[n] = next[n] /\ local_docid[n] < local_docid[node]
    BY <1>1 DEF Shape, Numbered
  <1>7. ListIntact'
    <2> SUFFICES ASSUME NEW c \in live' \union {Front}
                 PROVE  IF next'[c] = NULL
                        THEN \A m \in live' : ~Behind(m, c)'
                        ELSE /\ next'[c] \in live'
                             /\ Behind(next[c], c)'
                             /\ \A m \in live' :
                                  Behind(m, c)' => m = next'[c] \/ Behind(m, next[c])'
      BY Zenon DEF ListIntact
    <2>1. CASE c = Front
      BY <1>1, <1>4, <1>5, <1>6, <2>1, Zenon DEF Behind
    <2>2. CASE c = node
      BY <1>1, <1>4, <1>5, <1>6, <2>2 DEF Behind, Shape, ListIntact
    <2>3. CASE c \in live
      BY <1>1, <1>4, <1>5, <1>6, <2>3, SMTT(20) DEF Behind, Shape, ListIntact
    <2>4. QED
      BY <1>1, <2>1, <2>2, <2>3, Zenon
  <1>8. NodesAccounted'
    <2>1. Pooled' = Pooled
      BY <1>1 DEF Pooled
    <2>2. NodesAccounted
      BY Zenon DEF Shape
    <2> HIDE DEF TypeInv
    <2>3. /\ Nodes = unborn \union Pooled \union live \union Held \union detached
          /\ live' \intersect (unborn \union Pooled \union Held' \union detached) = {}
      BY <1>1, <1>3, <2>2, Zenon DEF NodesAccounted
    <2>4. QED
      BY <1>1, <1>3, <1>4, <2>1, <2>2, <2>3, Zenon DEF NodesAccounted
  <1>9. Numbered'
    BY <1>1, <1>4, <1>6 DEF Shape, Numbered
  <1>10. MarkOnList'
    BY <1>1, <1>2, Zenon DEF Shape, MarkOnList, InErase
  <1>11. WriterState'
    BY <1>1, <1>2, <1>4, Zenon DEF WriterState, InPush, InErase
  <1>12. ChainDetached'
    BY <1>1, <1>2, Zenon DEF ChainDetached, InErase
  <1>13. QED
    BY <1>7, <1>8, <1>9, <1>10, <1>11, <1>12, Zenon DEF Shape

\* Marking and the stores of node_num_ leave the chain and the pool alone.
LEMMA QuietShape ==
  ASSUME TypeInv, TypeInv', ~overlap, ~overlap', Shape,
         \/ PushFrontCount \/ MarkBegin \/ MarkScan \/ SetEndMark
         \/ EraseAfterLoad \/ EraseAfterCount \/ ResetEndMark
  PROVE  Shape'
  <1> USE ConstantsAssumption
      DEF TypeInv, TypeOK, HeapTypeOK, ThreadTypeOK, HistoryTypeOK, Cells
  <1>1. UNCHANGED <<next, local_docid, unborn, obj_pool, docid, live, detached>>
    BY Zenon DEF PushFrontCount, MarkBegin, MarkUpTo, MarkScan, SetEndMark,
           EraseAfterLoad, EraseAfterCount, EraseAfterStore, ResetEndMark, heap,
           build, ghost
  <1>2. ListIntact'
    BY <1>1, Zenon DEF Shape, ListIntact, Behind
  <1>3. cpc # "recycle" /\ cpc' # "recycle" /\ detached = {}
    BY Zenon DEF PushFrontCount, MarkBegin, MarkUpTo, MarkScan, SetEndMark,
           EraseAfterLoad, EraseAfterCount, EraseAfterStore, ResetEndMark, clean,
           Shape, WriterState, InPush, InErase
  <1>4. Held' = Held
    BY Zenon DEF PushFrontCount, MarkBegin, MarkUpTo, MarkScan, SetEndMark,
           EraseAfterLoad, EraseAfterCount, EraseAfterStore, ResetEndMark, build,
           Held
  <1>5. NodesAccounted'
    <2>1. Pooled' = Pooled
      BY <1>1, Zenon DEF Pooled
    <2>2. QED
      BY <1>1, <1>3, <1>4, <2>1, Zenon DEF Shape, NodesAccounted
  <1>6. Numbered'
    <2>1. bpc' \in {"push", "link"} => bpc' = bpc /\ node' = node
      BY Zenon DEF PushFrontCount, MarkBegin, MarkUpTo, MarkScan, SetEndMark,
             EraseAfterLoad, EraseAfterCount, EraseAfterStore, ResetEndMark, build
    <2>2. QED
      BY <1>1, <2>1 DEF Shape, Numbered
  <1>7. ChainDetached'
    BY <1>3, Zenon DEF ChainDetached
  <1>8. MarkOnList' /\ WriterState'
    <2> USE <1>1, <1>3 DEF Shape, MarkOnList, WriterState, InPush, InErase
    <2>1. CASE PushFrontCount
      BY <2>1, Zenon DEF PushFrontCount, clean
    <2>2. CASE MarkBegin
      BY <2>2, Zenon DEF MarkBegin, MarkUpTo, heap, build
    <2>3. CASE MarkScan
      <3>1. mark \in live \union {Front} /\ mark' \in live \union {Front}
        BY <2>3, SMTT(30) DEF MarkScan, ListIntact
      <3>2. QED
        BY <2>3, <3>1, Zenon DEF MarkScan, heap, build
    <2>4. CASE SetEndMark
      BY <2>4, Zenon DEF SetEndMark, build
    <2>5. CASE EraseAfterLoad
      BY <2>5, Zenon DEF EraseAfterLoad, heap, build
    <2>6. CASE EraseAfterCount
      BY <2>6, Zenon DEF EraseAfterCount, EraseAfterStore, build
    <2>7. CASE ResetEndMark
      BY <2>7, Zenon DEF ResetEndMark, build
    <2>8. QED
      BY <2>1, <2>2, <2>3, <2>4, <2>5, <2>6, <2>7, Zenon
  <1>9. QED
    BY <1>2, <1>5, <1>6, <1>7, <1>8, Zenon DEF Shape

\* Cutting the chain after the mark leaves a chain on either side.
LEMMA DetachShape ==
  ASSUME TypeInv, TypeInv', ~overlap, ~overlap', Shape, EraseAfterDetach
  PROVE  Shape'
  <1> USE ConstantsAssumption
      DEF TypeInv, TypeOK, HeapTypeOK, ThreadTypeOK, HistoryTypeOK, Cells
  <1>1. /\ cpc = "detach" /\ cpc' = "recycle"
        /\ next' = [next EXCEPT ![mark] = NULL]
        /\ live' = {m \in live : ~Behind(m, mark)}
        /\ detached' = detached \union {m \in live : Behind(m, mark)}
        /\ UNCHANGED <<local_docid, unborn, obj_pool, end_mark, bpc, node, docid,
                       mark, p>>
    BY Zenon DEF EraseAfterDetach, build
  <1>2. /\ detached = {}
        /\ mark \in live \union {Front}
        /\ mark = end_mark
        /\ p = next[mark]
        /\ ~InPush
    BY <1>1 DEF Shape, WriterState, MarkOnList, InErase
  <1>3. /\ live' \union detached' = live
        /\ live' \intersect detached' = {}
    <2> HIDE DEF TypeInv, TypeOK, HeapTypeOK, ThreadTypeOK, HistoryTypeOK, Cells
    <2>1. detached' = {m \in live : Behind(m, mark)}
      BY <1>1, <1>2, Zenon
    <2>2. live' \union detached' = live
      BY <1>1, <2>1, Zenon
    <2>3. live' \intersect detached' = {}
      BY <1>1, <2>1, Zenon
    <2>4. QED
      BY <2>2, <2>3, Zenon
  <1>4. mark \in live' \union {Front}
    BY <1>1, <1>2, SMTT(20) DEF Behind
  <1>5. next'[mark] = NULL /\ \A c \in Cells : c # mark => next'[c] = next[c]
    BY <1>1, <1>2, Zenon
  <1>6. \A m, n \in live : m # n => local_docid[m] # local_docid[n]
    BY Zenon DEF Shape, Numbered
  <1>7. \A c \in live \union {Front} :
          IF next[c] = NULL
          THEN \A m \in live : ~Behind(m, c)
          ELSE /\ next[c] \in live
               /\ Behind(next[c], c)
               /\ \A m \in live : Behind(m, c) => m = next[c] \/ Behind(m, next[c])
    BY Zenon DEF Shape, ListIntact
  <1>8. \A n \in live : n \in Nodes /\ n # Front /\ local_docid[n] \in Int
    OBVIOUS
  <1> HIDE DEF TypeInv, TypeOK, HeapTypeOK, ThreadTypeOK, HistoryTypeOK
  <1>9. ListIntact'
    <2> SUFFICES ASSUME NEW c \in live' \union {Front}
                 PROVE  IF next'[c] = NULL
                        THEN \A m \in live' : ~Behind(m, c)
                        ELSE /\ next'[c] \in live'
                             /\ Behind(next'[c], c)
                             /\ \A m \in live' :
                                  Behind(m, c) => m = next'[c] \/ Behind(m, next'[c])
      BY <1>1, Zenon DEF ListIntact, Behind
    <2>1. CASE c = mark
      BY <1>1, <1>5, <2>1, Zenon
    <2>2. CASE c # mark
      <3>1. next'[c] = next[c] /\ c \in live \union {Front}
        BY <1>3, <1>5, <1>8, <2>2, Zenon
      <3>2. CASE next[c] = NULL
        BY <1>3, <1>7, <3>1, <3>2, Zenon
      <3>3. CASE next[c] # NULL
        <4>1. mark \in live
          BY <1>1, <1>2, <2>2, Zenon DEF Behind
        <4>2. Behind(mark, c)
          BY <1>1, <1>6, <1>8, <2>2, <4>1 DEF Behind
        <4>3. ~Behind(next[c], mark)
          <5>1. next[c] \in live /\ (mark = next[c] \/ Behind(mark, next[c]))
            BY <1>7, <3>1, <3>3, <4>1, <4>2, Zenon
          <5>2. QED
            BY <1>8, <4>1, <5>1 DEF Behind
        <4>4. QED
          BY <1>1, <1>3, <1>7, <3>1, <3>3, <4>3, Zenon
      <3>4. QED
        BY <3>2, <3>3, Zenon
    <2>3. QED
      BY <2>1, <2>2, Zenon
  <1>10. NodesAccounted'
    <2>1. Pooled' = Pooled /\ Held' = Held
      BY <1>1, Zenon DEF Pooled, Held
    <2>2. p = NULL => detached' = {}
      <3>1. p = NULL => \A m \in live : ~Behind(m, mark)
        BY <1>2, <1>7, Zenon
      <3>2. QED
        BY <1>1, <1>2, <3>1, Zenon
    <2>3. /\ Nodes = unborn \union Pooled \union live \union Held
          /\ live \intersect (unborn \union Pooled \union Held) = {}
          /\ Pooled \intersect (unborn \union Held) = {}
          /\ Held \intersect unborn = {}
      BY <1>2, Zenon DEF Shape, NodesAccounted
    <2>4. \A i, j \in 1 .. Len(obj_pool') : obj_pool'[i] = obj_pool'[j] => i = j
      BY <1>1, Zenon DEF Shape, NodesAccounted
    <2>5. /\ Nodes = unborn' \union Pooled' \union live' \union Held' \union detached'
          /\ live' \intersect (unborn' \union Pooled' \union Held' \union detached') = {}
          /\ Pooled' \intersect (unborn' \union Held' \union detached') = {}
          /\ Held' \intersect (unborn' \union detached') = {}
          /\ unborn' \intersect detached' = {}
      BY <1>1, <1>3, <2>1, <2>3, Zenon
    <2>6. cpc' # "recycle" \/ p' = NULL => detached' = {}
      BY <1>1, <2>2, Zenon
    <2>7. QED
      BY <2>4, <2>5, <2>6, Zenon DEF NodesAccounted
  <1>11. Numbered'
    <2>1. live' \union detached' = live \union detached
      BY <1>2, <1>3, Zenon
    <2>2. QED
      BY <1>1, <2>1, ZenonT(30) DEF Shape, Numbered
  <1>12. MarkOnList'
    BY <1>1, <1>2, <1>4, Zenon DEF Shape, MarkOnList, InErase
  <1>13. WriterState'
    BY <1>1, <1>2, Zenon DEF WriterState, InPush, InErase
  <1>14. ChainDetached'
    <2>1. detached' = {m \in live : Behind(m, mark)}
      BY <1>1, <1>2, Zenon
    <2>2. IF p = NULL
          THEN detached' = {}
          ELSE p \in detached' /\ \A m \in detached' : m = p \/ Behind(m, p)
      <3>1. IF p = NULL
            THEN \A m \in live : ~Behind(m, mark)
            ELSE /\ p \in live
                 /\ Behind(p, mark)
                 /\ \A m \in live : Behind(m, mark) => m = p \/ Behind(m, p)
        BY <1>2, <1>7, Zenon
      <3>2. QED
        BY <2>1, <3>1, Zenon
    <2>3. ASSUME NEW c \in detached'
          PROVE  IF next'[c] = NULL
                 THEN \A m \in detached' : ~Behind(m, c)
                 ELSE /\ next'[c] \in detached'
                      /\ Behind(next'[c], c)
                      /\ \A m \in detached' :
                           Behind(m, c) => m = next'[c] \/ Behind(m, next'[c])
      <3>1. c \in live /\ Behind(c, mark) /\ c # mark /\ next'[c] = next[c]
        BY <1>2, <1>5, <1>8, <2>1 DEF Behind
      <3>2. next[c] # NULL => Behind(next[c], mark)
        <4>1. next[c] # NULL => next[c] \in live /\ Behind(next[c], c)
          BY <1>7, <3>1, Zenon
        <4>2. QED
          BY <1>2, <1>8, <3>1, <4>1 DEF Behind
      <3>3. QED
        BY <1>7, <2>1, <3>1, <3>2, Zenon
    <2>4. QED
      BY <1>1, <2>2, <2>3, Zenon DEF ChainDetached, Behind
  <1>15. QED
    BY <1>9, <1>10, <1>11, <1>12, <1>13, <1>14, Zenon DEF Shape

\* The nodes are unborn, pooled, in the list, held or detached, and only one of
\* these.
Split(U, P, L, H, D) ==
  /\ Nodes = U \union P \union L \union H \union D
  /\ L \intersect (U \union P \union H \union D) = {}
  /\ P \intersect (U \union H \union D) = {}
  /\ H \intersect (U \union D) = {}
  /\ U \intersect D = {}

\* Moving a detached node to the pool keeps them split.
LEMMA MoveNode ==
  ASSUME NEW U, NEW P, NEW L, NEW H, NEW D, NEW x \in D, Split(U, P, L, H, D)
  PROVE  Split(U, P \union {x}, L, H, D \ {x})
  <1> USE DEF Split
  <1>1. Nodes = U \union (P \union {x}) \union L \union H \union (D \ {x})
    BY Zenon
  <1>2. L \intersect (U \union (P \union {x}) \union H \union (D \ {x})) = {}
    BY Zenon
  <1>3. /\ (P \union {x}) \intersect (U \union H \union (D \ {x})) = {}
        /\ H \intersect (U \union (D \ {x})) = {}
        /\ U \intersect (D \ {x}) = {}
    BY Zenon
  <1>4. QED
    BY <1>1, <1>2, <1>3, Zenon

\* One turn of Recycle moves the head of the detached chain to the pool.
LEMMA RecycleShape ==
  ASSUME TypeInv, TypeInv', ~overlap, ~overlap', Shape, Recycle
  PROVE  Shape'
  <1> USE ConstantsAssumption
      DEF TypeInv, TypeOK, HeapTypeOK, ThreadTypeOK, HistoryTypeOK, Cells
  <1>1. /\ cpc = "recycle"
        /\ UNCHANGED <<next, local_docid, unborn, end_mark, bpc, node, docid, mark,
                       live>>
    BY Zenon DEF Recycle, RecycleWhile, build
  <1>2. \A n \in live \union detached :
          n \in Nodes /\ n # Front /\ local_docid[n] \in Int
    OBVIOUS
  <1>3. obj_pool \in Seq(Nodes) /\ p \in Nodes \union {NULL}
    BY Zenon
  <1> HIDE DEF TypeInv, TypeOK, HeapTypeOK, ThreadTypeOK, HistoryTypeOK
  <1>4. ListIntact'
    BY <1>1, Zenon DEF Shape, ListIntact, Behind
  <1>5. Held' = Held /\ ~InPush
    BY <1>1, Zenon DEF Held, Shape, WriterState, InErase
  <1>6. CASE p = NULL
    <2>1. /\ cpc' = "count"
          /\ UNCHANGED <<obj_pool, detached, p>>
      BY <1>6, Zenon DEF Recycle, RecycleWhile
    <2>2. detached = {}
      BY <1>6, Zenon DEF Shape, NodesAccounted
    <2>3. NodesAccounted'
      <3>1. Pooled' = Pooled
        BY <2>1, Zenon DEF Pooled
      <3>2. QED
        BY <1>1, <1>5, <2>1, <2>2, <3>1, Zenon DEF Shape, NodesAccounted
    <2>4. Numbered'
      BY <1>1, <2>1 DEF Shape, Numbered
    <2>5. MarkOnList' /\ WriterState' /\ ChainDetached'
      BY <1>1, <1>5, <2>1, <2>2, Zenon
         DEF Shape, MarkOnList, WriterState, ChainDetached, InPush, InErase
    <2>6. QED
      BY <1>4, <2>3, <2>4, <2>5, Zenon DEF Shape
  <1>7. CASE p # NULL
    <2>1. /\ cpc' = "recycle"
          /\ obj_pool' = Append(obj_pool, p)
          /\ detached' = detached \ {p}
          /\ p' = next[p]
      BY <1>1, <1>7, Zenon DEF Recycle, RecycleWhile
    <2>2. /\ p \in detached
          /\ \A m \in detached : m = p \/ Behind(m, p)
          /\ \A c \in detached :
               IF next[c] = NULL
               THEN \A m \in detached : ~Behind(m, c)
               ELSE /\ next[c] \in detached
                    /\ Behind(next[c], c)
                    /\ \A m \in detached :
                         Behind(m, c) => m = next[c] \/ Behind(m, next[c])
      BY <1>1, <1>7, Zenon DEF Shape, ChainDetached
    <2>3. p' = NULL => detached' = {}
      BY <2>1, <2>2, Zenon
    <2>4. p' # NULL => p' \in detached' /\ \A m \in detached' : m = p' \/ Behind(m, p')
      <3>1. p' # NULL => p' \in detached /\ Behind(p', p)
        BY <2>1, <2>2, Zenon
      <3>2. ~Behind(p, p)
        BY <1>2, <2>2 DEF Behind
      <3>3. \A m \in detached' : Behind(m, p)
        BY <2>1, <2>2, Zenon
      <3>4. QED
        BY <2>1, <2>2, <3>1, <3>2, <3>3, Zenon
    <2>5. ASSUME NEW c \in detached'
          PROVE  IF next[c] = NULL
                 THEN \A m \in detached' : ~Behind(m, c)
                 ELSE /\ next[c] \in detached'
                      /\ Behind(next[c], c)
                      /\ \A m \in detached' :
                           Behind(m, c) => m = next[c] \/ Behind(m, next[c])
      <3>1. c \in detached /\ Behind(c, p)
        BY <2>1, <2>2, Zenon
      <3>2. ~Behind(p, c)
        BY <1>2, <2>2, <3>1 DEF Behind
      <3>3. next[c] # NULL => next[c] \in detached /\ Behind(next[c], c)
        BY <2>2, <3>1, Zenon
      <3>4. next[c] # p
        BY <1>7, <3>2, <3>3, Zenon
      <3>5. QED
        BY <2>1, <2>2, <3>1, <3>4, Zenon
    <2>6. ChainDetached'
      BY <1>1, <2>1, <2>3, <2>4, <2>5, Zenon DEF ChainDetached, Behind
    <2>7. NodesAccounted'
      <3>1. Pooled = Elems(obj_pool) /\ Pooled' = Elems(obj_pool')
        BY Zenon DEF Pooled, Elems
      <3>2. Distinct(obj_pool)
        BY Zenon DEF Distinct, Shape, NodesAccounted
      <3>3. Split(unborn, Pooled, live, Held, detached)
        BY Zenon DEF Split, Shape, NodesAccounted
      <3>4. p \in Nodes /\ p \notin Elems(obj_pool)
        BY <1>3, <1>7, <2>2, <3>1, <3>3, Zenon DEF Split
      <3>5. Pooled' = Pooled \union {p} /\ Distinct(obj_pool')
        BY <1>3, <2>1, <3>1, <3>2, <3>4, PushBack
      <3>6. Split(unborn', Pooled', live', Held', detached')
        <4>1. Split(unborn, Pooled \union {p}, live, Held, detached \ {p})
          BY <2>2, <3>3, MoveNode, Zenon
        <4>2. /\ unborn' = unborn /\ Pooled' = Pooled \union {p} /\ live' = live
              /\ Held' = Held /\ detached' = detached \ {p}
          BY <1>1, <1>5, <2>1, <3>5, Zenon
        <4>3. QED
          BY <4>1, <4>2, Zenon
      <3>7. \A i, j \in 1 .. Len(obj_pool') : obj_pool'[i] = obj_pool'[j] => i = j
        BY <3>5, Zenon DEF Distinct
      <3>8. cpc' # "recycle" \/ p' = NULL => detached' = {}
        BY <2>1, <2>3, Zenon
      <3>9. QED
        BY <3>6, <3>7, <3>8, Zenon DEF Split, NodesAccounted
    <2>8. Numbered'
      BY <1>1, <2>1 DEF Shape, Numbered
    <2>9. MarkOnList' /\ WriterState'
      BY <1>1, <1>5, <2>1, Zenon DEF Shape, MarkOnList, WriterState, InPush, InErase
    <2>10. QED
      BY <1>4, <2>6, <2>7, <2>8, <2>9, Zenon DEF Shape
  <1>8. QED
    BY <1>6, <1>7, Zenon

\* What the shape depends on.
LEMMA ShapeUnchanged ==
  ASSUME Shape, ~overlap, ~overlap',
         UNCHANGED <<heap, build, clean, live, detached>>
  PROVE  Shape'
  <1>1. /\ UNCHANGED <<next, local_docid, unborn, obj_pool, end_mark>>
        /\ UNCHANGED <<bpc, node, docid, cpc, mark, p, live, detached>>
    BY Zenon DEF heap, build, clean
  <1>2. ListIntact'
    BY <1>1, Zenon DEF Shape, ListIntact, Behind
  <1>3. NodesAccounted'
    <2>1. Pooled' = Pooled /\ Held' = Held
      BY <1>1, Zenon DEF Pooled, Held
    <2>2. QED
      BY <1>1, <2>1, Zenon DEF Shape, NodesAccounted
  <1>4. Numbered'
    BY <1>1, Zenon DEF Shape, Numbered
  <1>5. WriterState'
    BY <1>1, Zenon DEF Shape, WriterState, InPush, InErase
  <1>6. MarkOnList'
    BY <1>1, Zenon DEF Shape, MarkOnList, InErase
  <1>7. ChainDetached'
    BY <1>1, Zenon DEF Shape, ChainDetached, Behind
  <1>8. QED
    BY <1>2, <1>3, <1>4, <1>5, <1>6, <1>7, Zenon DEF Shape

\* Iterations write nothing the shape depends on.
LEMMA ReadShape ==
  ASSUME Shape, ~overlap, NEW r \in Readers, BeginIteration(r) \/ Iterate(r)
  PROVE  Shape'
  <1>1. UNCHANGED <<heap, build, clean, live, detached, overlap>>
    BY Zenon
       DEF BeginIteration, Iterate, HasValueNext, HasValueMark, HasValueUnless,
           GetValue, NextPosting, MoveTo, ghost
  <1>2. ~overlap'
    BY <1>1, Zenon
  <1>3. QED
    BY <1>1, <1>2, ShapeUnchanged, Zenon

-----------------------------------------------------------------------------
(* The counter.                                                            *)

INSTANCE FiniteSetTheorems

\* Sets of nodes are finite.
LEMMA Sizes ==
  \A S \in SUBSET Nodes : IsFiniteSet(S) /\ Cardinality(S) \in Nat
  BY FS_Subset, FS_CardinalityType, ConstantsAssumption, Zenon

\* EraseAfter splits the list: the sizes of the parts add up.
LEMMA DisjointSizes ==
  ASSUME NEW S \in SUBSET Nodes, NEW T \in SUBSET Nodes, NEW U,
         S \union T = U, S \intersect T = {}
  PROVE  Cardinality(U) = Cardinality(S) + Cardinality(T)
  <1>1. /\ IsFiniteSet(S) /\ IsFiniteSet(T)
        /\ Cardinality(S) \in Nat /\ Cardinality(T) \in Nat
    BY Sizes, Zenon
  <1>2. Cardinality(S \union T)
          = Cardinality(S) + Cardinality(T) - Cardinality(S \intersect T)
    BY <1>1, FS_Union, Zenon
  <1>3. Cardinality(S \intersect T) = 0
    BY FS_EmptySet, Zenon
  <1>4. Cardinality(S) + Cardinality(T) - 0 = Cardinality(S) + Cardinality(T)
    BY <1>1
  <1>5. Cardinality(S \union T) = Cardinality(S) + Cardinality(T)
    BY <1>2, <1>3, <1>4, Zenon
  <1>6. QED
    BY <1>5, Zenon

\* ++node_num_ counts the node that was linked.
LEMMA BuildCounted ==
  ASSUME TypeInv, ~overlap, ~overlap', Shape, Counted, Build
  PROVE  Counted'
  <1> USE DEF InPush, InErase
  <1>1. /\ node_num \in Int /\ live \in SUBSET Nodes
        /\ bpc \in {"idle", "push", "link", "count"}
        /\ bpc # "idle" => node \in Nodes
    BY Zenon DEF TypeInv, TypeOK, HeapTypeOK, ThreadTypeOK, HistoryTypeOK, Pointers
  <1>2. ~(InPush /\ InErase)
    BY Zenon DEF Shape, WriterState
  <1>3. CASE AllocatePosting
    BY <1>3, Zenon DEF AllocatePosting, clean, ghost, Counted
  <1>4. CASE PushFrontLoad
    BY <1>4, Zenon DEF PushFrontLoad, PushFrontStore, clean, Counted
  <1>5. CASE PushFrontLink
    <2>1. /\ bpc = "link" /\ bpc' = "count" /\ bnum' = node_num
          /\ live' = live \union {node}
          /\ UNCHANGED <<node_num, cpc, count, cnum, detached>>
      BY <1>5, Zenon DEF PushFrontLink, clean
    <2>2. node \notin live
      BY <2>1, Zenon DEF Shape, NodesAccounted, Held
    <2>3. Cardinality(live') = Cardinality(live) + 1
      BY <1>1, <2>1, <2>2, Sizes, FS_AddElement, Zenon
    <2>4. QED
      BY <1>1, <1>2, <2>1, <2>3, Sizes, Zenon DEF Counted
  <1>6. CASE PushFrontCount
    BY <1>2, <1>6, Zenon DEF PushFrontCount, clean, ghost, Counted
  <1>7. QED
    BY <1>3, <1>4, <1>5, <1>6, Zenon DEF Build

\* node_num_ -= count takes off the nodes that Recycle counted.
LEMMA CleanCounted ==
  ASSUME TypeInv, ~overlap, ~overlap', Shape, Counted, Clean
  PROVE  Counted'
  <1> USE DEF InPush, InErase
  <1>1. /\ node_num \in Int /\ count \in Nat /\ cnum \in Int
        /\ live \in SUBSET Nodes /\ detached \in SUBSET Nodes
    BY Zenon DEF TypeInv, TypeOK, HeapTypeOK, ThreadTypeOK, HistoryTypeOK
  <1>2. /\ ~(InPush /\ InErase)
        /\ cpc # "recycle" => detached = {}
    BY Zenon DEF Shape, WriterState
  <1>3. Cardinality({}) = 0
    BY FS_EmptySet, Zenon
  <1>4. CASE MarkBegin
    BY <1>4, Zenon DEF MarkBegin, MarkUpTo, heap, build, ghost, Counted
  <1>5. CASE MarkScan
    BY <1>5, Zenon DEF MarkScan, heap, build, ghost, Counted
  <1>6. CASE SetEndMark
    BY <1>6, Zenon DEF SetEndMark, build, Counted
  <1>7. CASE EraseAfterLoad
    BY <1>7, Zenon DEF EraseAfterLoad, heap, build, Counted
  <1>8. CASE EraseAfterDetach
    <2>1. /\ cpc = "detach" /\ cpc' = "recycle"
          /\ live' = {m \in live : ~Behind(m, mark)}
          /\ detached' = detached \union {m \in live : Behind(m, mark)}
          /\ UNCHANGED <<node_num, bpc, bnum, count, cnum>>
      BY <1>8, Zenon DEF EraseAfterDetach, build
    <2>2. /\ live' \union detached' = live
          /\ live' \intersect detached' = {}
          /\ live' \in SUBSET Nodes /\ detached' \in SUBSET Nodes
      BY <1>1, <1>2, <2>1, Zenon
    <2>3. Cardinality(live) = Cardinality(live') + Cardinality(detached')
      BY <2>2, DisjointSizes, Zenon
    <2>4. QED
      BY <1>1, <1>2, <2>1, <2>2, <2>3, Sizes DEF Counted
  <1>9. CASE Recycle
    <2>1. CASE p = NULL
      <3>1. detached = {}
        BY <2>1, Zenon DEF Shape, NodesAccounted
      <3>2. /\ cpc = "recycle" /\ cpc' = "count" /\ cnum' = node_num
            /\ UNCHANGED <<node_num, bpc, bnum, count, live, detached>>
        BY <1>9, <2>1, ZenonT(30) DEF Recycle, RecycleWhile, build
      <3>3. QED
        BY <1>1, <1>2, <1>3, <3>1, <3>2, Sizes DEF Counted
    <2>2. CASE p # NULL
      <3>1. /\ cpc = "recycle" /\ cpc' = "recycle" /\ count' = count + 1
            /\ detached' = detached \ {p}
            /\ UNCHANGED <<node_num, bpc, bnum, cnum, live>>
        BY <1>9, <2>2, Zenon DEF Recycle, RecycleWhile, build
      <3>2. p \in detached
        BY <2>2, <3>1, Zenon DEF Shape, ChainDetached
      <3>3. /\ Cardinality(detached') = Cardinality(detached) - 1
            /\ Cardinality(detached) \in Nat /\ Cardinality(live) \in Nat
        BY <1>1, <3>1, <3>2, Sizes, FS_RemoveElement, Zenon
      <3>4. QED
        BY <1>1, <1>2, <3>1, <3>3 DEF Counted
    <2>3. QED
      BY <2>1, <2>2, Zenon
  <1>10. CASE EraseAfterCount
    <2>1. /\ cpc = "count" /\ cpc' = "unmark" /\ node_num' = cnum - count
          /\ count' = 0
          /\ UNCHANGED <<bpc, bnum, live, detached>>
      BY <1>10, Zenon DEF EraseAfterCount, EraseAfterStore, build, ghost
    <2>2. QED
      BY <1>1, <1>2, <2>1, Sizes DEF Counted
  <1>11. CASE ResetEndMark
    BY <1>11, Zenon DEF ResetEndMark, build, ghost, Counted
  <1>12. QED
    BY <1>4, <1>5, <1>6, <1>7, <1>8, <1>9, <1>10, <1>11, Zenon DEF Clean

\* Iterations do not count.
LEMMA ReadCounted ==
  ASSUME Counted, NEW r \in Readers, BeginIteration(r) \/ Iterate(r)
  PROVE  Counted'
  <1>1. UNCHANGED <<heap, build, clean, live, detached>>
    BY Zenon
       DEF BeginIteration, Iterate, HasValueNext, HasValueMark, HasValueUnless,
           GetValue, NextPosting, MoveTo, ghost
  <1>2. QED
    BY <1>1, Zenon DEF heap, build, clean, Counted, InPush, InErase

-----------------------------------------------------------------------------
(* The iterations.                                                         *)

\* Pushing leaves every cell an iteration can stand on linked to a successor.
LEMMA BuildKeepsLinks ==
  ASSUME TypeInv, Pointers', ~overlap, Shape, Build
  PROVE  /\ live \subseteq live'
         /\ \A c \in live \union {Front} : next[c] # NULL => next'[c] # NULL
         /\ \A n \in live : local_docid'[n] = local_docid[n]
  <1>1. /\ next \in [Cells -> Nodes \union {NULL}]
        /\ local_docid \in [Nodes -> 0 .. MaxDocs]
        /\ live \subseteq Nodes /\ Front \notin Nodes /\ NULL \notin Nodes
    BY ConstantsAssumption, Zenon DEF TypeInv, TypeOK, HeapTypeOK, HistoryTypeOK
  <1>2. CASE AllocatePosting
    <2>1. /\ next' = [next EXCEPT ![node'] = NULL]
          /\ local_docid' = [local_docid EXCEPT ![node'] = docid']
          /\ live' = live
      BY <1>2, Zenon DEF AllocatePosting, ghost
    <2>2. bpc' # "idle"
      BY <1>2, Zenon DEF AllocatePosting
    <2>3. node' \in Nodes
      BY <2>2, Zenon DEF Pointers
    <2>4. node' \in unborn \union Pooled
      BY <1>2, AllocatePool, Zenon
         DEF TypeInv, TypeOK, HeapTypeOK, Shape, NodesAccounted, Distinct
    <2>5. node' \notin live
      BY <2>4, Zenon DEF Shape, NodesAccounted
    <2>6. QED
      BY <1>1, <2>1, <2>3, <2>5, Zenon DEF Cells
  <1>3. CASE PushFrontLoad
    <2>1. /\ next' = [next EXCEPT ![node] = next[Front]]
          /\ UNCHANGED <<local_docid, live>>
          /\ bpc = "push"
      BY <1>3, Zenon DEF PushFrontLoad, PushFrontStore
    <2>2. node \in Nodes /\ node \notin live
      BY <2>1, Zenon DEF TypeInv, Pointers, Shape, NodesAccounted, Held
    <2>3. QED
      BY <1>1, <2>1, <2>2, Zenon DEF Cells
  <1>4. CASE PushFrontLink
    <2>1. /\ next' = [next EXCEPT ![Front] = node]
          /\ UNCHANGED local_docid
          /\ live' = live \union {node}
          /\ node \in Nodes
      BY <1>4, Zenon DEF PushFrontLink, TypeInv, Pointers
    <2>2. QED
      BY <1>1, <2>1, Zenon DEF Cells
  <1>5. CASE PushFrontCount
    BY <1>5, Zenon DEF PushFrontCount, ghost
  <1>6. QED
    BY <1>2, <1>3, <1>4, <1>5, Zenon DEF Build

\* Pushing does not move an iteration, nor the mark it runs towards.
LEMMA BuildReaders ==
  ASSUME TypeInv, Pointers', ~overlap, Shape, ReaderState, Build
  PROVE  ReaderState'
  <1>1. UNCHANGED <<end_mark, rpc, cur, late>>
    BY Zenon DEF Build, AllocatePosting, PushFrontLoad, PushFrontStore, PushFrontLink,
           PushFrontCount, read, ghost
  <1>2. /\ live \subseteq live'
        /\ \A c \in live \union {Front} : next[c] # NULL => next'[c] # NULL
        /\ \A n \in live : local_docid'[n] = local_docid[n]
    BY BuildKeepsLinks, Zenon
  <1>3. SUFFICES ASSUME NEW r \in Readers, rpc[r] # "idle"
                 PROVE  /\ cur[r] \in live' \union {Front}
                        /\ rpc[r] = "next" => next'[cur[r]] # NULL
                        /\ end_mark # NULL /\ r \notin late =>
                             /\ \/ end_mark = cur[r]
                                \/ /\ end_mark \in live'
                                   /\ \/ cur[r] = Front
                                      \/ local_docid'[end_mark]
                                           < local_docid'[cur[r]]
                             /\ rpc[r] \in {"get", "next"} => end_mark # cur[r]
    BY <1>1, Zenon DEF ReaderState, Behind
  <1>4. QED
    BY <1>2, <1>3, Zenon DEF ReaderState, Behind


\* Marking makes every iteration late; what is cut off lies behind the mark, and
\* no iteration that is still under way after the sleep does.
LEMMA CleanReaders ==
  ASSUME TypeInv, ~overlap, ~overlap', ~slow', Shape, LateOnlyInGrace,
         ReaderState, Clean
  PROVE  ReaderState'
  <1>1. UNCHANGED <<local_docid, rpc, cur>>
    BY Zenon
       DEF Clean, MarkBegin, MarkUpTo, MarkScan, SetEndMark, EraseAfterLoad,
           EraseAfterDetach, Recycle, RecycleWhile, EraseAfterCount,
           EraseAfterStore, ResetEndMark, heap, read
  <1>2. CASE MarkBegin \/ MarkScan \/ Recycle \/ EraseAfterCount
    <2>1. UNCHANGED <<next, end_mark, live, late>>
      BY <1>2, Zenon DEF MarkBegin, MarkUpTo, MarkScan, Recycle, RecycleWhile,
                  EraseAfterCount, EraseAfterStore, heap, ghost
    <2>2. QED
      BY <1>1, <2>1, Zenon DEF ReaderState, Behind
  <1>3. CASE SetEndMark
    <2>1. /\ UNCHANGED <<next, live>>
          /\ late' = {r \in Readers : rpc[r] # "idle"}
      BY <1>3, Zenon DEF SetEndMark
    <2>2. QED
      BY <1>1, <2>1, Zenon DEF ReaderState
  <1>4. CASE EraseAfterLoad
    <2>1. /\ UNCHANGED <<next, end_mark, live>>
          /\ late = {} /\ late' = {}
      BY <1>4, Zenon DEF EraseAfterLoad, heap
    <2>2. QED
      BY <1>1, <2>1, Zenon DEF ReaderState, Behind
  <1>5. CASE EraseAfterDetach
    <2>1. /\ cpc = "detach"
          /\ next' = [next EXCEPT ![mark] = NULL]
          /\ live' = {m \in live : ~Behind(m, mark)}
          /\ UNCHANGED <<end_mark, late>>
      BY <1>5, Zenon DEF EraseAfterDetach
    <2>2. mark = end_mark /\ end_mark # NULL /\ late = {}
      BY <2>1, Zenon DEF Shape, MarkOnList, InErase, LateOnlyInGrace
    <2>3. /\ next \in [Cells -> Nodes \union {NULL}]
          /\ local_docid \in [Nodes -> 0 .. MaxDocs]
          /\ live \subseteq Nodes /\ Front \notin Nodes
      BY ConstantsAssumption, Zenon
         DEF TypeInv, TypeOK, HeapTypeOK, HistoryTypeOK
    <2>4. SUFFICES ASSUME NEW r \in Readers, rpc[r] # "idle"
                   PROVE  /\ cur[r] \in live' \union {Front}
                          /\ rpc[r] = "next" => next'[cur[r]] # NULL
                          /\ \/ mark = cur[r]
                             \/ mark \in live' /\ Behind(mark, cur[r])
                          /\ rpc[r] \in {"get", "next"} => mark # cur[r]
      BY <1>1, <2>1, <2>2, Zenon DEF ReaderState, Behind
    <2>5. /\ cur[r] \in live \union {Front}
          /\ rpc[r] = "next" => next[cur[r]] # NULL
          /\ mark = cur[r] \/ (mark \in live /\ Behind(mark, cur[r]))
          /\ rpc[r] \in {"get", "next"} => mark # cur[r]
      <3>1. /\ cur[r] \in live \union {Front}
            /\ rpc[r] = "next" => next[cur[r]] # NULL
            /\ end_mark = cur[r] \/ (end_mark \in live /\ Behind(end_mark, cur[r]))
            /\ rpc[r] \in {"get", "next"} => end_mark # cur[r]
        BY <2>2, <2>4, Zenon DEF ReaderState
      <3>2. QED
        BY <2>2, <3>1, Zenon DEF Behind
    <2>6. \A n \in live : local_docid[n] \in Int /\ n # Front
      BY <2>3
    <2>7. cur[r] \in live' \union {Front}
      BY <2>1, <2>5, <2>6 DEF Behind
    <2>8. mark \in live => mark \in live'
      BY <2>1, <2>6 DEF Behind
    <2>9. rpc[r] = "next" => next'[cur[r]] # NULL
      <3>1. \A c \in Cells : c # mark => next'[c] = next[c]
        BY <2>1, <2>3, Zenon
      <3>2. cur[r] \in Cells
        BY <2>3, <2>5, Zenon DEF Cells
      <3>3. QED
        BY <2>5, <3>1, <3>2, Zenon
    <2>10. QED
      BY <2>5, <2>7, <2>8, <2>9, Zenon
  <1>6. CASE ResetEndMark
    <2>1. UNCHANGED <<next, live>> /\ end_mark' = NULL
      BY <1>6, Zenon DEF ResetEndMark, ghost
    <2>2. QED
      BY <1>1, <2>1, Zenon DEF ReaderState
  <1>7. QED
    BY <1>2, <1>3, <1>4, <1>5, <1>6, Zenon DEF Clean

\* An iteration begins in front of the mark and stops at it.
LEMMA ReadReaders ==
  ASSUME TypeInv, ~overlap, Shape, ReaderState,
         NEW r \in Readers, BeginIteration(r) \/ Iterate(r)
  PROVE  ReaderState'
  <1>1. UNCHANGED <<next, local_docid, end_mark, live>>
    BY Zenon
       DEF BeginIteration, Iterate, HasValueNext, HasValueMark, HasValueUnless,
           GetValue, NextPosting, MoveTo, heap, ghost
  <1>2. /\ rpc \in [Readers -> {"idle", "test", "mark", "get", "next"}]
        /\ DOMAIN cur = Readers
        /\ end_mark # NULL => end_mark \in live \union {Front}
    BY Zenon DEF TypeInv, TypeOK, ThreadTypeOK, Shape, MarkOnList
  <1>3. \A s \in Readers \ {r} :
          rpc'[s] = rpc[s] /\ cur'[s] = cur[s] /\ (s \in late' <=> s \in late)
    BY <1>2, Zenon DEF BeginIteration, Iterate, HasValueNext, HasValueMark,
           HasValueUnless, GetValue, NextPosting, MoveTo, EndIteration, ghost
  <1> DEFINE On(c, pc) ==
        /\ c \in live \union {Front}
        /\ pc = "next" => next[c] # NULL
        /\ end_mark # NULL /\ r \notin late =>
             /\ \/ end_mark = c
                \/ end_mark \in live /\ Behind(end_mark, c)
             /\ pc \in {"get", "next"} => end_mark # c
  <1>4. rpc[r] # "idle" => On(cur[r], rpc[r])
    BY Zenon DEF ReaderState
  <1>5. SUFFICES \/ rpc'[r] = "idle"
                 \/ late' = late /\ On(cur'[r], rpc'[r])
    BY <1>1, <1>3, ZenonT(30) DEF ReaderState, Behind
  <1>6. CASE BeginIteration(r)
    <2>1. rpc'[r] = "test" /\ cur'[r] = Front /\ late' = late
      BY <1>2, <1>6, Zenon DEF BeginIteration
    <2>2. QED
      BY <1>2, <2>1, Zenon DEF Behind
  <1>7. ASSUME EndIteration(r)
        PROVE  rpc'[r] = "idle"
    BY <1>2, <1>7, Zenon DEF EndIteration
  <1>8. CASE HasValueNext(r)
    <2>1. CASE cur[r] = NULL \/ next[cur[r]] = NULL
      BY <1>7, <1>8, <2>1, Zenon DEF HasValueNext
    <2>2. CASE ~(cur[r] = NULL \/ next[cur[r]] = NULL)
      <3>1. /\ rpc[r] = "test" /\ rpc'[r] = "mark"
            /\ UNCHANGED <<cur, late>>
        BY <1>2, <1>8, <2>2, Zenon DEF HasValueNext
      <3>2. QED
        BY <1>4, <3>1, Zenon
    <2>3. QED
      BY <2>1, <2>2, Zenon
  <1>9. CASE HasValueMark(r)
    <2>1. CASE end_mark = Front \/ end_mark = cur[r]
      BY <1>7, <1>9, <2>1, Zenon DEF HasValueMark, HasValueUnless
    <2>2. CASE ~(end_mark = Front \/ end_mark = cur[r])
      <3>1. /\ rpc[r] = "mark" /\ rpc'[r] = "get"
            /\ UNCHANGED <<cur, late>>
        BY <1>2, <1>9, <2>2, Zenon DEF HasValueMark, HasValueUnless
      <3>2. QED
        BY <1>4, <2>2, <3>1, Zenon
    <2>3. QED
      BY <2>1, <2>2, Zenon
  <1>10. CASE GetValue(r)
    <2>1. /\ rpc[r] = "get" /\ UNCHANGED <<cur, late>>
          /\ \/ rpc'[r] = "get"
             \/ rpc'[r] = "next" /\ next[cur[r]] # NULL
      BY <1>2, <1>10, Zenon DEF GetValue
    <2>2. QED
      BY <1>4, <2>1, Zenon
  <1>11. CASE NextPosting(r)
    <2>1. /\ rpc[r] = "next" /\ rpc'[r] = "test"
          /\ cur'[r] = next[cur[r]] /\ late' = late
      BY <1>2, <1>11, Zenon DEF NextPosting, MoveTo, ghost
    <2>2. /\ cur[r] \in live \union {Front} /\ next[cur[r]] # NULL
          /\ end_mark # NULL /\ r \notin late =>
               end_mark \in live /\ Behind(end_mark, cur[r])
      BY <1>4, <2>1, Zenon
    <2>3. /\ next[cur[r]] \in live
          /\ \A m \in live : Behind(m, cur[r]) =>
                               m = next[cur[r]] \/ Behind(m, next[cur[r]])
      BY <2>2, Zenon DEF Shape, ListIntact
    <2>4. QED
      BY <2>1, <2>2, <2>3, Zenon
  <1>12. QED
    BY <1>6, <1>8, <1>9, <1>10, <1>11, ZenonT(30) DEF Iterate


-----------------------------------------------------------------------------
(* The invariant.                                                          *)

\* Neither history flag is ever taken back, and iterations that were under way
\* when the mark was set are remembered only while the cleaner sleeps.
LEMMA HistoryStep ==
  ASSUME TypeInv, LateOnlyInGrace, Next
  PROVE  (overlap => overlap') /\ (slow => slow') /\ LateOnlyInGrace'
  <1>1. CASE Build
    <2>1. UNCHANGED <<cpc, late, slow>>
      BY <1>1, Zenon DEF Build, AllocatePosting, PushFrontLoad, PushFrontStore,
                  PushFrontLink, PushFrontCount, clean, ghost
    <2>2. overlap => overlap'
      <3>1. CASE PushFrontLoad
        BY <3>1, Zenon DEF PushFrontLoad, PushFrontStore
      <3>2. CASE AllocatePosting \/ PushFrontLink \/ PushFrontCount
        BY <3>2, Zenon DEF AllocatePosting, PushFrontLink, PushFrontCount, ghost
      <3>3. QED
        BY <1>1, <3>1, <3>2, Zenon DEF Build
    <2>3. QED
      BY <2>1, <2>2, Zenon DEF LateOnlyInGrace
  <1>2. CASE Clean
    <2>1. CASE EraseAfterLoad
      <3>1. late' = {}
        BY <2>1, Zenon DEF EraseAfterLoad
      <3>2. slow => slow'
        BY <2>1, Zenon DEF EraseAfterLoad
      <3>3. overlap => overlap'
        BY <2>1, Zenon DEF EraseAfterLoad
      <3>4. QED
        BY <3>1, <3>2, <3>3, Zenon DEF LateOnlyInGrace
    <2>2. CASE SetEndMark
      BY <2>2, Zenon DEF SetEndMark, LateOnlyInGrace
    <2>3. CASE MarkBegin \/ MarkScan \/ EraseAfterDetach \/ Recycle
               \/ EraseAfterCount \/ ResetEndMark
      <3>1. UNCHANGED <<overlap, late, slow>> /\ cpc # "grace"
        BY <2>3, Zenon DEF MarkBegin, MarkUpTo, MarkScan, EraseAfterDetach, Recycle,
                    RecycleWhile, EraseAfterCount, EraseAfterStore,
                    ResetEndMark, ghost
      <3>2. QED
        BY <3>1, Zenon DEF LateOnlyInGrace
    <2>4. QED
      BY <1>2, <2>1, <2>2, <2>3, Zenon DEF Clean
  <1>3. ASSUME NEW r \in Readers, BeginIteration(r) \/ Iterate(r)
        PROVE  (overlap => overlap') /\ (slow => slow') /\ LateOnlyInGrace'
    <2>1. UNCHANGED <<clean, overlap, slow>> /\ late' \subseteq late
      BY <1>3, Zenon DEF BeginIteration, Iterate, HasValueNext, HasValueMark,
             HasValueUnless, GetValue, NextPosting, MoveTo, EndIteration, ghost
    <2>2. QED
      BY <2>1, Zenon DEF LateOnlyInGrace, clean
  <1>4. QED
    BY <1>1, <1>2, <1>3, Zenon DEF Next

\* The shape survives every step of every thread.
LEMMA ShapeStep ==
  ASSUME TypeInv, TypeInv', ~overlap, ~overlap', Shape, Next
  PROVE  Shape'
  BY AllocateShape, PushFrontLoadShape, PushFrontLinkShape, QuietShape,
     DetachShape, RecycleShape, ReadShape
     DEF Next, Build, Clean

\* A new list is empty, and nobody is in it.
LEMMA InitIInv == Init => IInv
  <1> SUFFICES ASSUME Init
               PROVE  IInv
    BY Zenon
  <1>1. TypeInv
    BY InitType, Zenon
  <1>2. LateOnlyInGrace
    BY Zenon DEF Init, LateOnlyInGrace
  <1>3. ListIntact /\ Numbered /\ WriterState /\ MarkOnList /\ ChainDetached
    BY Zenon
       DEF Init, ListIntact, Numbered, WriterState, MarkOnList, ChainDetached,
           InPush, InErase, Cells
  <1>4. NodesAccounted
    <2>1. Pooled = {} /\ Held = {} /\ Len(obj_pool) = 0
      BY DEF Init, Pooled, Held
    <2>2. QED
      BY <2>1 DEF Init, NodesAccounted
  <1>5. Counted
    BY FS_EmptySet, Zenon DEF Init, Counted, InPush, InErase
  <1>6. ReaderState
    BY Zenon DEF Init, ReaderState
  <1>7. QED
    BY <1>1, <1>2, <1>3, <1>4, <1>5, <1>6, Zenon DEF IInv, Shape

\* The parts of the invariant put together.
LEMMA NextIInv == IInv /\ [Next \/ Dead]_vars => IInv'
  <1> SUFFICES ASSUME IInv, [Next \/ Dead]_vars
               PROVE  IInv'
    BY Zenon
  <1>1. TypeInv /\ TypeInv' /\ Pointers'
    BY NextType, Zenon DEF IInv, TypeInv
  <1>2. CASE Next
    <2>1. (overlap => overlap') /\ (slow => slow') /\ LateOnlyInGrace'
      BY <1>1, <1>2, HistoryStep, Zenon DEF IInv
    <2>2. ASSUME ~overlap'
          PROVE  Shape' /\ Counted'
      <3>1. ~overlap /\ Shape /\ Counted
        BY <2>1, <2>2, Zenon DEF IInv
      <3>2. Shape'
        BY <1>1, <1>2, <2>2, <3>1, ShapeStep, Zenon
      <3>3. Counted'
        BY <1>1, <1>2, <2>2, <3>1, BuildCounted, CleanCounted, ReadCounted, ZenonT(30)
           DEF Next
      <3>4. QED
        BY <3>2, <3>3, Zenon
    <2>3. ASSUME ~overlap', ~slow'
          PROVE  ReaderState'
      <3>1. ~overlap /\ ~slow /\ Shape /\ LateOnlyInGrace /\ ReaderState
        BY <2>1, <2>3, Zenon DEF IInv
      <3>2. QED
        BY <1>1, <1>2, <2>3, <3>1, BuildReaders, CleanReaders, ReadReaders, ZenonT(30)
           DEF Next
    <2>4. QED
      BY <1>1, <2>1, <2>2, <2>3, Zenon DEF IInv
  <1>3. CASE UNCHANGED vars
    <2>1. UNCHANGED <<heap, build, clean, read, live, detached, overlap, late,
                      slow>>
      BY <1>3, Zenon DEF vars, ghost
    <2>2. LateOnlyInGrace'
      BY <2>1, Zenon DEF IInv, LateOnlyInGrace, clean
    <2>3. ~overlap' => ~overlap /\ (Shape => Shape')
      BY <2>1, ShapeUnchanged, Zenon
    <2>4. Counted => Counted'
      BY <2>1, Zenon DEF Counted, InPush, InErase, heap, build, clean
    <2>5. ReaderState => ReaderState'
      BY <2>1, Zenon DEF ReaderState, Behind, heap, read
    <2>6. QED
      BY <1>1, <2>1, <2>2, <2>3, <2>4, <2>5, Zenon DEF IInv
  <1>4. QED
    BY <1>2, <1>3, Zenon DEF Dead

\* The invariant behind the theorems below: until the writers overlap the heap
\* has its shape and node_num_ its value; until moreover an iteration outlives
\* the cleaner's sleep, every iteration is on the list and before its mark.
THEOREM Invariance == Spec => []IInv
  BY InitIInv, NextIInv, PTL DEF Spec


-----------------------------------------------------------------------------
(* What it implies.                                                        *)

\* LocklessList: from the fake front the next pointers lead through exactly the
\* nodes that were pushed and not erased, newest first, whatever PushFront,
\* EraseAfter and the iterators do, until a push and an erase overlap.
THEOREM ListStaysIntact == Spec => []ListIntact
  <1>1. IInv => ListIntact
    BY Zenon DEF IInv, Shape, ListIntact
  <1>2. QED
    BY <1>1, Invariance, PTL

\* ListAllocator: Allocate and Recycle never lose a node and never hand one out
\* that is in use, until a push and an erase overlap.
THEOREM NoNodeLost == Spec => []NodesAccounted
  <1>1. IInv => NodesAccounted
    BY Zenon DEF IInv, Shape, NodesAccounted
  <1>2. QED
    BY <1>1, Invariance, PTL

\* node_num_ counts the nodes of the list whenever neither writer is inside it,
\* until a push and an erase overlap.
THEOREM CounterExact == Spec => []NodeNumExact
  <1>1. IInv => NodeNumExact
    BY Zenon DEF IInv, Counted, NodeNumExact
  <1>2. QED
    BY <1>1, Invariance, PTL

\* The protocol of end mark, sleep and EraseAfter protects the iterators: none
\* stands on an erased, recycled or reused node, as long as the writers keep
\* apart and no iteration outlives the sleep.
THEOREM ReadersProtected == Spec => []ReaderOnList
  <1>1. IInv => ReaderOnList
    BY Zenon DEF IInv, ReaderState, ReaderOnList
  <1>2. QED
    BY <1>1, Invariance, PTL


\* HasValue then GetValue then Next: see PostingStays.
LEMMA KeepsPostingStep ==
  ASSUME IInv, Next, ~overlap', ~slow', NEW r \in Readers
  PROVE  KeepsPosting(r)
  <1>1. /\ TypeInv /\ TypeInv' /\ Pointers' /\ LateOnlyInGrace
        /\ ~overlap /\ ~slow /\ Shape /\ ReaderState
    BY NextType, HistoryStep, Zenon DEF IInv, TypeInv
  <1>2. /\ next \in [Cells -> Nodes \union {NULL}]
        /\ live \subseteq Nodes /\ Front \notin Nodes /\ NULL \notin Nodes
        /\ rpc \in [Readers -> {"idle", "test", "mark", "get", "next"}]
    BY <1>1, ConstantsAssumption, Zenon
       DEF TypeInv, TypeOK, HeapTypeOK, ThreadTypeOK, HistoryTypeOK
  <1>3. CASE Build
    <2>1. UNCHANGED rpc
      BY <1>3, Zenon DEF Build, AllocatePosting, PushFrontLoad, PushFrontStore,
                  PushFrontLink, PushFrontCount, read
    <2>2. \A c \in live \union {Front} : next[c] # NULL => next'[c] # NULL
      BY <1>1, <1>3, BuildKeepsLinks, Zenon
    <2>3. QED
      BY <1>1, <2>1, <2>2, Zenon DEF KeepsPosting, ReaderState
  <1>4. CASE Clean
    <2>1. UNCHANGED rpc
      BY <1>4, Zenon DEF Clean, MarkBegin, MarkUpTo, MarkScan, SetEndMark,
             EraseAfterLoad, EraseAfterDetach, Recycle, RecycleWhile,
             EraseAfterCount, EraseAfterStore, ResetEndMark, read
    <2>2. CASE EraseAfterDetach
      <3>1. cpc = "detach" /\ next' = [next EXCEPT ![mark] = NULL]
        BY <2>2, Zenon DEF EraseAfterDetach
      <3>2. mark = end_mark /\ end_mark # NULL /\ late = {}
        BY <1>1, <3>1, Zenon DEF Shape, MarkOnList, InErase, LateOnlyInGrace
      <3>3. rpc[r] \in {"get", "next"} =>
              cur[r] \in live \union {Front} /\ cur[r] # mark
        BY <1>1, <3>2, Zenon DEF ReaderState
      <3>4. \A c \in Cells : c # mark => next'[c] = next[c]
        BY <1>2, <3>1, Zenon
      <3>5. live \union {Front} \subseteq Cells
        BY <1>2, Zenon DEF Cells
      <3>6. QED
        BY <2>1, <3>3, <3>4, <3>5, Zenon DEF KeepsPosting
    <2>3. CASE ~EraseAfterDetach
      <3>1. UNCHANGED next
        BY <1>4, <2>3, Zenon DEF Clean, MarkBegin, MarkUpTo, MarkScan, SetEndMark,
               EraseAfterLoad, Recycle, RecycleWhile, EraseAfterCount,
               EraseAfterStore, ResetEndMark, heap
      <3>2. QED
        BY <2>1, <3>1, Zenon DEF KeepsPosting
    <2>4. QED
      BY <2>2, <2>3, Zenon
  <1>5. ASSUME NEW s \in Readers, BeginIteration(s) \/ Iterate(s)
        PROVE  KeepsPosting(r)
    <2>1. UNCHANGED next
      BY <1>5, Zenon DEF BeginIteration, Iterate, HasValueNext, HasValueMark,
             HasValueUnless, GetValue, NextPosting, MoveTo, heap
    <2>2. ASSUME rpc[r] = "mark", rpc'[r] = "get", next[cur[r]] = NULL,
                 end_mark # NULL, r \notin late
          PROVE  FALSE
      <3>1. HasValueMark(r)
        BY <1>2, <1>5, <2>2, Zenon DEF BeginIteration, Iterate, HasValueNext,
               HasValueMark, HasValueUnless, GetValue, NextPosting, MoveTo,
               EndIteration
      <3>2. end_mark # cur[r]
        BY <1>2, <2>2, <3>1, Zenon DEF HasValueMark, HasValueUnless, EndIteration
      <3>3. /\ cur[r] \in live \union {Front}
            /\ end_mark \in live /\ Behind(end_mark, cur[r])
        BY <1>1, <2>2, <3>2, Zenon DEF ReaderState
      <3>4. QED
        BY <1>1, <2>2, <3>3, Zenon DEF Shape, ListIntact
    <2>3. QED
      BY <2>1, <2>2, Zenon DEF KeepsPosting
  <1>6. QED
    BY <1>3, <1>4, <1>5, Zenon DEF Next

\* What HasValue found is still there for GetValue and Next, and HasValue finds
\* something that is gone only after a whole clearing between its two loads.
THEOREM PostingsStay == Spec => PostingStays
  <1>1. IInv /\ [Next \/ Dead]_vars
          => [~overlap' /\ ~slow' => \A r \in Readers : KeepsPosting(r)]_vars
    BY KeepsPostingStep, Zenon DEF Dead
  <1>2. QED
    BY <1>1, Invariance, PTL DEF Spec, PostingStays
=============================================================================
