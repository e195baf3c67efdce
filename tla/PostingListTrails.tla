--------------------------- MODULE PostingListTrails ---------------------------
(***************************************************************************)
(* What an iteration of PostingList yields, for any number of nodes,       *)
(* readers and postings.  The inductive invariant relates the history of   *)
(* each iteration to its cursor: what has been yielded is not older than   *)
(* the cursor, and what was listed when it began has been yielded or is    *)
(* still ahead.                                                            *)
(***************************************************************************)
EXTENDS PostingListProofs

\* Ids begin at 1, and one that is about to be listed is new to every iteration.
NewIds ==
  /\ \A n \in live : local_docid[n] > 0
  /\ bpc \in {"push", "link"} => docid > 0
  /\ \A r \in Readers :
       /\ \A d \in trail[r].there : d <= docid
       /\ bpc \in {"push", "link"} => docid \notin trail[r].there

\* What an iteration has yielded: nothing on the fake front before GetValue; after
\* it the newest posting of that moment; on a node nothing that is older than the
\* node, or than its successor once that has been yielded, except for the first
\* posting.
Yielded(r) ==
  LET t == trail[r]
  IN  /\ IF t.first = 0 THEN t.seen = {} ELSE t.first \in t.seen
      /\ t.again \subseteq t.seen
      /\ cur[r] = Front /\ rpc[r] # "next" => t.seen = {}
      /\ cur[r] = Front /\ rpc[r] = "next" =>
           /\ t.seen = {t.first}
           /\ local_docid[next[Front]] >= t.first
           /\ \A n \in live : local_docid[n] \in t.there => local_docid[n] <= t.first
      /\ cur[r] # Front /\ rpc[r] # "next" =>
           \A d \in t.seen : d = t.first \/ d >= local_docid[cur[r]]
      /\ cur[r] # Front /\ rpc[r] = "next" =>
           /\ local_docid[next[cur[r]]] \in t.seen
           /\ \A d \in t.seen : d = t.first \/ d >= local_docid[next[cur[r]]]

\* What an iteration has to yield is yielded or still ahead.
Ahead(r) ==
  \A n \in live :
    local_docid[n] \in trail[r].there =>
      local_docid[n] \in trail[r].seen \/ Behind(n, cur[r])

\* What the iterations have yielded and have to yield.
Trails ==
  \A r \in Readers :
    /\ trail[r].again \subseteq {trail[r].first}
    /\ rpc[r] # "idle" => Yielded(r) /\ Ahead(r)

TrailInv ==
  /\ IInv
  /\ ~overlap => NewIds
  /\ ~overlap /\ ~slow => Trails

-----------------------------------------------------------------------------
\* What a step of somebody else must leave alone for the trail of reader r.
LEMMA OthersKeepTrail ==
  ASSUME TypeInv, ~overlap, Shape, ReaderState, NEW r \in Readers, rpc[r] # "idle",
         Yielded(r), Ahead(r),
         rpc'[r] = rpc[r], cur'[r] = cur[r], trail'[r] = trail[r],
         \A n \in live' :
           \/ n \in live /\ local_docid'[n] = local_docid[n]
           \/ local_docid'[n] \notin trail[r].there,
         \A n \in live : local_docid'[n] = local_docid[n],
         cur[r] # Front /\ rpc[r] = "next" => next'[cur[r]] = next[cur[r]],
         cur[r] = Front /\ rpc[r] = "next" =>
           \/ next'[Front] = next[Front]
           \/ /\ local_docid'[next'[Front]] \in Int
              /\ local_docid'[next'[Front]] > local_docid[next[Front]]
  PROVE  Yielded(r)' /\ Ahead(r)'
  <1> DEFINE c == cur[r]
             t == trail[r]
  <1>1. /\ local_docid \in [Nodes -> 0 .. MaxDocs] /\ live \subseteq Nodes
        /\ Front \notin Nodes /\ t.first \in Int
        /\ \A n \in live : local_docid[n] \in Int
    BY ConstantsAssumption DEF TypeInv, TypeOK, HeapTypeOK, HistoryTypeOK, TrailType
  <1>2. /\ c \in live \union {Front}
        /\ rpc[r] = "next" => next[c] \in live
    BY Zenon DEF ReaderState, Shape, ListIntact
  <1>3. c # Front => local_docid'[c] = local_docid[c]
    BY <1>2, Zenon
  <1>4. Ahead(r)'
    <2>1. SUFFICES ASSUME NEW n \in live', local_docid'[n] \in t.there
                   PROVE  local_docid'[n] \in t.seen \/ Behind(n, c)'
      BY Zenon DEF Ahead, Behind
    <2>2. n \in live /\ local_docid'[n] = local_docid[n]
      BY <2>1, Zenon
    <2>3. local_docid[n] \in t.seen \/ c = Front \/ local_docid[n] < local_docid[c]
      BY <2>1, <2>2, Zenon DEF Ahead, Behind
    <2> QED BY <1>3, <2>2, <2>3, Zenon DEF Behind
  <1>5. /\ IF t.first = 0 THEN t.seen = {} ELSE t.first \in t.seen
        /\ t.again \subseteq t.seen
        /\ c = Front /\ rpc[r] # "next" => t.seen = {}
    BY Zenon DEF Yielded
  <1>6. c = Front /\ rpc[r] = "next" =>
          /\ t.seen = {t.first}
          /\ local_docid'[next'[Front]] >= t.first
          /\ \A n \in live' : local_docid'[n] \in t.there => local_docid'[n] <= t.first
    <2>1. SUFFICES ASSUME c = Front, rpc[r] = "next"
                   PROVE  /\ t.seen = {t.first}
                          /\ local_docid'[next'[Front]] >= t.first
                          /\ \A n \in live' :
                               local_docid'[n] \in t.there => local_docid'[n] <= t.first
      BY Zenon
    <2>2. /\ t.seen = {t.first}
          /\ local_docid[next[Front]] >= t.first
          /\ \A n \in live : local_docid[n] \in t.there => local_docid[n] <= t.first
      BY <2>1, Zenon DEF Yielded
    <2>3. next[Front] \in live /\ local_docid[next[Front]] \in Int
      BY <1>1, <1>2, <2>1, Zenon
    <2>4. local_docid'[next'[Front]] >= t.first
      <3>1. CASE next'[Front] = next[Front]
        BY <2>2, <2>3, <3>1, Zenon
      <3>2. CASE /\ local_docid'[next'[Front]] \in Int
                 /\ local_docid'[next'[Front]] > local_docid[next[Front]]
        BY <1>1, <2>2, <2>3, <3>2
      <3> QED BY <2>1, <3>1, <3>2, Zenon
    <2> QED BY <2>2, <2>4, Zenon
  <1>7. c # Front /\ rpc[r] # "next" =>
          \A d \in t.seen : d = t.first \/ d >= local_docid'[c]
    BY <1>3, Zenon DEF Yielded
  <1>8. c # Front /\ rpc[r] = "next" =>
          /\ local_docid'[next'[c]] \in t.seen
          /\ \A d \in t.seen : d = t.first \/ d >= local_docid'[next'[c]]
    BY <1>2, Zenon DEF Yielded
  <1>9. Yielded(r)'
    BY <1>5, <1>6, <1>7, <1>8, Zenon DEF Yielded
  <1> QED BY <1>4, <1>9, Zenon

\* Somebody else's steps.
LEMMA BuildTrails ==
  ASSUME TypeInv, TypeInv', ~overlap, Shape, ReaderState, NewIds, Trails, Build
  PROVE  Trails'
  <1>1. UNCHANGED <<rpc, cur, trail>>
    BY Zenon DEF Build, AllocatePosting, PushFrontLoad, PushFrontStore, PushFrontLink,
           PushFrontCount, read, ghost
  <1>2. \A n \in live : local_docid'[n] = local_docid[n]
    BY BuildKeepsLinks, Zenon DEF TypeInv
  <1>3. /\ next \in [Cells -> Nodes \union {NULL}] /\ live \subseteq Nodes
        /\ Front \notin Nodes /\ NULL \notin Nodes /\ docid \in Int
        /\ local_docid \in [Nodes -> 0 .. MaxDocs]
    <2>1. docid \in 0 .. MaxDocs
      BY Zenon DEF TypeInv, TypeOK, ThreadTypeOK
    <2> QED BY <2>1, ConstantsAssumption DEF TypeInv, TypeOK, HeapTypeOK, HistoryTypeOK
  <1>4. /\ \A c \in live : next'[c] = next[c]
        /\ \/ next'[Front] = next[Front] /\ live' = live
           \/ /\ bpc = "link" /\ node \in Nodes
              /\ next'[Front] = node /\ live' = live \union {node}
              /\ local_docid' = local_docid
    <2>1. CASE AllocatePosting
      <3>1. next' = [next EXCEPT ![node'] = NULL] /\ live' = live /\ bpc' # "idle"
        BY <2>1, Zenon DEF AllocatePosting, ghost
      <3>2. node' \in Nodes /\ node' \in unborn \union Pooled
        BY <2>1, <3>1, AllocatePool, Zenon
           DEF Pointers, TypeInv, TypeOK, HeapTypeOK, Shape, NodesAccounted, Distinct
      <3>3. node' \notin live
        BY <3>2, Zenon DEF Shape, NodesAccounted
      <3> QED BY <1>3, <3>1, <3>2, <3>3, Zenon DEF Cells
    <2>2. CASE PushFrontLoad
      <3>1. /\ next' = [next EXCEPT ![node] = next[Front]] /\ live' = live /\ bpc = "push"
        BY <2>2, Zenon DEF PushFrontLoad, PushFrontStore
      <3>2. node \in Nodes /\ node \notin live
        BY <3>1, Zenon DEF TypeInv, Pointers, Shape, NodesAccounted, Held
      <3> QED BY <1>3, <3>1, <3>2, Zenon DEF Cells
    <2>3. CASE PushFrontLink
      <3>1. /\ next' = [next EXCEPT ![Front] = node] /\ live' = live \union {node}
            /\ bpc = "link" /\ node \in Nodes /\ local_docid' = local_docid
        BY <2>3, Zenon DEF PushFrontLink, TypeInv, Pointers
      <3> QED BY <1>3, <3>1, Zenon DEF Cells
    <2>4. CASE PushFrontCount
      BY <2>4, Zenon DEF PushFrontCount, ghost
    <2> QED BY <2>1, <2>2, <2>3, <2>4, Zenon DEF Build
  <1>5. bpc = "link" => /\ local_docid[node] = docid
                        /\ \A n \in live : local_docid[n] < docid
                        /\ \A r \in Readers : docid \notin trail[r].there
    BY Zenon DEF Shape, Numbered, NewIds
  <1>6. \A r \in Readers : trail'[r].again \subseteq {trail'[r].first}
    BY <1>1, Zenon DEF Trails
  <1>7. ASSUME NEW r \in Readers, rpc[r] # "idle"
        PROVE  Yielded(r)' /\ Ahead(r)'
    <2>1. Yielded(r) /\ Ahead(r) /\ cur[r] \in live \union {Front}
          /\ (rpc[r] = "next" => next[cur[r]] # NULL)
      BY <1>7, Zenon DEF Trails, ReaderState
    <2>2. \A n \in live' : \/ n \in live /\ local_docid'[n] = local_docid[n]
                           \/ local_docid'[n] \notin trail[r].there
      BY <1>2, <1>4, <1>5, ZenonT(30)
    <2>3. cur[r] # Front /\ rpc[r] = "next" => next'[cur[r]] = next[cur[r]]
      BY <1>4, <2>1, Zenon
    <2>4. cur[r] = Front /\ rpc[r] = "next" =>
            \/ next'[Front] = next[Front]
            \/ /\ local_docid'[next'[Front]] \in Int
               /\ local_docid'[next'[Front]] > local_docid[next[Front]]
      <3>1. cur[r] = Front /\ rpc[r] = "next" => next[Front] \in live
        BY <2>1, Zenon DEF Shape, ListIntact
      <3> QED BY <1>3, <1>4, <1>5, <3>1, Zenon
    <2> QED BY <1>1, <1>2, <1>7, <2>1, <2>2, <2>3, <2>4, OthersKeepTrail, ZenonT(30)
  <1> QED BY <1>1, <1>6, <1>7, Zenon DEF Trails

\* The cleaner cuts behind every iteration, not between it and what it has found.
LEMMA CleanTrails ==
  ASSUME TypeInv, ~overlap, Shape, LateOnlyInGrace, ReaderState, Trails, Clean
  PROVE  Trails'
  <1>1. UNCHANGED <<local_docid, rpc, cur, trail>>
    BY Zenon
       DEF Clean, MarkBegin, MarkUpTo, MarkScan, SetEndMark, EraseAfterLoad,
           EraseAfterDetach, Recycle, RecycleWhile, EraseAfterCount,
           EraseAfterStore, ResetEndMark, heap, read, ghost
  <1>2. /\ next \in [Cells -> Nodes \union {NULL}] /\ live \subseteq Nodes
        /\ DOMAIN next = Cells
    BY Zenon DEF TypeInv, TypeOK, HeapTypeOK, HistoryTypeOK
  <1>3. /\ live' \subseteq live
        /\ \A r \in Readers : rpc[r] = "next" => next'[cur[r]] = next[cur[r]]
    <2>1. CASE EraseAfterDetach
      <3>1. /\ cpc = "detach" /\ next' = [next EXCEPT ![mark] = NULL]
            /\ live' \subseteq live
        BY <2>1, Zenon DEF EraseAfterDetach
      <3>2. mark = end_mark /\ end_mark # NULL /\ late = {}
        BY <3>1, Zenon DEF Shape, MarkOnList, InErase, LateOnlyInGrace
      <3>3. \A r \in Readers : rpc[r] = "next" =>
              cur[r] \in live \union {Front} /\ cur[r] # mark
        BY <3>2, Zenon DEF ReaderState
      <3> QED BY <1>2, <3>1, <3>3, Zenon DEF Cells
    <2>2. CASE ~EraseAfterDetach
      BY <2>2, Zenon DEF Clean, MarkBegin, MarkUpTo, MarkScan, SetEndMark,
             EraseAfterLoad, Recycle, RecycleWhile, EraseAfterCount,
             EraseAfterStore, ResetEndMark, heap, ghost
    <2> QED BY <2>1, <2>2, Zenon
  <1>4. \A r \in Readers : trail'[r].again \subseteq {trail'[r].first}
    BY <1>1, Zenon DEF Trails
  <1>5. ASSUME NEW r \in Readers, rpc[r] # "idle"
        PROVE  Yielded(r)' /\ Ahead(r)'
    <2>1. Yielded(r) /\ Ahead(r)
      BY <1>5, Zenon DEF Trails
    <2>2. /\ \A n \in live' : \/ n \in live /\ local_docid'[n] = local_docid[n]
                              \/ local_docid'[n] \notin trail[r].there
          /\ \A n \in live : local_docid'[n] = local_docid[n]
      BY <1>1, <1>3, Zenon
    <2>3. /\ cur[r] # Front /\ rpc[r] = "next" => next'[cur[r]] = next[cur[r]]
          /\ cur[r] = Front /\ rpc[r] = "next" => next'[Front] = next[Front]
      BY <1>3, Zenon
    <2> QED BY <1>1, <1>5, <2>1, <2>2, <2>3, OthersKeepTrail, Zenon
  <1> QED BY <1>1, <1>4, <1>5, Zenon DEF Trails

\* What GetValue adds to a trail.
LEMMA YieldFields ==
  ASSUME NEW t, NEW d
  PROVE  /\ Yield(t, d).there = t.there
         /\ Yield(t, d).first = (IF t.first = 0 THEN d ELSE t.first)
         /\ Yield(t, d).seen = t.seen \union {d}
         /\ Yield(t, d).again = (IF d \in t.seen THEN t.again \union {d} ELSE t.again)
  BY Zenon DEF Yield

\* The steps of the iteration itself.
LEMMA ReadTrails ==
  ASSUME TypeInv, ~overlap, Shape, ReaderState, NewIds, Trails,
         NEW r \in Readers, BeginIteration(r) \/ Iterate(r)
  PROVE  Trails'
  <1>1. UNCHANGED <<next, local_docid, live>>
    BY Zenon
       DEF BeginIteration, Iterate, HasValueNext, HasValueMark, HasValueUnless,
           GetValue, NextPosting, MoveTo, heap, ghost
  <1>2. /\ rpc \in [Readers -> {"idle", "test", "mark", "get", "next"}]
        /\ DOMAIN cur = Readers /\ DOMAIN trail = Readers
        /\ trail[r] \in TrailType /\ Front \notin live
        /\ \A n \in live : local_docid[n] \in Int
    BY ConstantsAssumption
       DEF TypeInv, TypeOK, HeapTypeOK, ThreadTypeOK, HistoryTypeOK
  <1>3. \A s \in Readers \ {r} :
          rpc'[s] = rpc[s] /\ cur'[s] = cur[s] /\ trail'[s] = trail[s]
    BY <1>2, Zenon DEF BeginIteration, Iterate, HasValueNext, HasValueMark,
           HasValueUnless, GetValue, NextPosting, MoveTo, EndIteration, ghost
  <1>4. SUFFICES /\ trail'[r].again \subseteq {trail'[r].first}
                 /\ rpc'[r] # "idle" => Yielded(r)' /\ Ahead(r)'
    <2>1. ASSUME NEW s \in Readers \ {r}
          PROVE  /\ trail'[s].again \subseteq {trail'[s].first}
                 /\ rpc'[s] # "idle" => Yielded(s)' /\ Ahead(s)'
      <3>1. rpc'[s] = rpc[s] /\ cur'[s] = cur[s] /\ trail'[s] = trail[s]
        BY <1>3, Zenon
      <3>2. Yielded(s) => Yielded(s)'
        BY <1>1, <3>1, Zenon DEF Yielded
      <3>3. Ahead(s) => Ahead(s)'
        BY <1>1, <3>1, Zenon DEF Ahead, Behind
      <3> QED BY <3>1, <3>2, <3>3, Zenon DEF Trails
    <2> QED BY <2>1, Zenon DEF Trails
  <1> DEFINE t == trail[r]
             c == cur[r]
  <1>5. /\ t.again \subseteq {t.first}
        /\ rpc[r] # "idle" => Yielded(r) /\ Ahead(r)
    BY Zenon DEF Trails
  <1>6. rpc[r] # "idle" =>
          /\ c \in live \union {Front}
          /\ next[c] # NULL => next[c] \in live /\ Behind(next[c], c)
          /\ next[c] # NULL => \A m \in live : Behind(m, c) => m = next[c] \/ Behind(m, next[c])
          /\ rpc[r] = "next" => next[c] # NULL
    BY Zenon DEF ReaderState, Shape, ListIntact
  <1>7. CASE BeginIteration(r)
    <2>1. rpc'[r] = "test" /\ cur'[r] = Front /\ trail'[r] = NewTrail(live)
      BY <1>2, <1>7, Zenon DEF BeginIteration
    <2>2. trail'[r].first = 0 /\ trail'[r].seen = {} /\ trail'[r].again = {}
      BY <2>1 DEF NewTrail
    <2>3. Yielded(r)'
      BY <2>1, <2>2, Zenon DEF Yielded
    <2>4. Ahead(r)'
      BY <2>1, Zenon DEF Ahead, Behind
    <2> QED BY <2>2, <2>3, <2>4, Zenon
  <1>8. ASSUME EndIteration(r)
        PROVE  rpc'[r] = "idle" /\ trail'[r].again \subseteq {trail'[r].first}
    <2>1. rpc'[r] = "idle" /\ trail'[r] = NewTrail({})
      BY <1>2, <1>8, Zenon DEF EndIteration
    <2>2. trail'[r].again = {}
      BY <2>1 DEF NewTrail
    <2> QED BY <2>1, <2>2, Zenon
  <1>9. ASSUME rpc[r] \in {"test", "mark"}, rpc'[r] \in {"mark", "get"}, cur'[r] = cur[r],
               trail'[r] = trail[r]
        PROVE  trail'[r].again \subseteq {trail'[r].first} /\ Yielded(r)' /\ Ahead(r)'
    <2>1. Yielded(r)'
      BY <1>1, <1>5, <1>9, Zenon DEF Yielded
    <2>2. Ahead(r)'
      BY <1>1, <1>5, <1>9, Zenon DEF Ahead, Behind
    <2> QED BY <1>5, <1>9, <2>1, <2>2, Zenon
  <1>10. CASE HasValueNext(r)
    <2>1. CASE cur[r] = NULL \/ next[cur[r]] = NULL
      BY <1>8, <1>10, <2>1, Zenon DEF HasValueNext
    <2>2. CASE ~(cur[r] = NULL \/ next[cur[r]] = NULL)
      <3>1. rpc[r] = "test" /\ rpc'[r] = "mark" /\ UNCHANGED <<cur, trail>>
        BY <1>2, <1>10, <2>2, Zenon DEF HasValueNext
      <3> QED BY <1>9, <3>1, Zenon
    <2> QED BY <2>1, <2>2, Zenon
  <1>11. CASE HasValueMark(r)
    <2>1. CASE end_mark = Front \/ end_mark = cur[r]
      BY <1>8, <1>11, <2>1, Zenon DEF HasValueMark, HasValueUnless
    <2>2. CASE ~(end_mark = Front \/ end_mark = cur[r])
      <3>1. rpc[r] = "mark" /\ rpc'[r] = "get" /\ UNCHANGED <<cur, trail>>
        BY <1>2, <1>11, <2>2, Zenon DEF HasValueMark, HasValueUnless
      <3> QED BY <1>9, <3>1, Zenon
    <2> QED BY <2>1, <2>2, Zenon
  <1>12. CASE GetValue(r)
    <2>1. rpc[r] = "get" /\ cur'[r] = c
      BY <1>12, Zenon DEF GetValue
    <2>2. CASE next[c] = NULL
      <3>1. rpc'[r] = rpc[r] /\ trail'[r] = trail[r]
        BY <1>12, <2>2, Zenon DEF GetValue
      <3>2. Yielded(r)' /\ Ahead(r)'
        BY <1>1, <1>5, <2>1, <3>1, Zenon DEF Yielded, Ahead, Behind
      <3> QED BY <1>5, <3>1, <3>2, Zenon
    <2>3. CASE next[c] # NULL
      <3> DEFINE d == local_docid[next[c]]
                 u == trail'[r]
      <3>1. rpc'[r] = "next" /\ u = Yield(t, d)
        BY <1>2, <1>12, <2>3, Zenon DEF GetValue
      <3>2. /\ u.there = t.there /\ u.first = (IF t.first = 0 THEN d ELSE t.first)
            /\ u.seen = t.seen \union {d}
            /\ u.again = (IF d \in t.seen THEN t.again \union {d} ELSE t.again)
        <4> HIDE DEF d, t, u
        <4> QED BY <3>1, YieldFields, ZenonT(30)
      <3>3. /\ next[c] \in live /\ d \in Int /\ d > 0
            /\ c # Front => c \in live /\ d < local_docid[c] /\ local_docid[c] \in Int
        BY <1>2, <1>6, <2>1, <2>3, Zenon DEF NewIds, Behind
      <3>4. \A n \in live : local_docid[n] <= d \/ (c # Front /\ ~(local_docid[n] < local_docid[c]))
        BY <1>2, <1>6, <2>1, <2>3 DEF Behind
      <3>5. /\ IF t.first = 0 THEN t.seen = {} ELSE t.first \in t.seen
            /\ t.again \subseteq t.seen
            /\ c = Front => t.seen = {}
            /\ c # Front => \A e \in t.seen : e = t.first \/ e >= local_docid[c]
        BY <1>5, <2>1, Zenon DEF Yielded
      <3>6. t.seen \subseteq Int /\ t.first \in Int
        BY <1>2 DEF TrailType
      <3> HIDE DEF d, u, t, c
      <3>7. d \in t.seen => d = t.first /\ t.first # 0
        BY <3>3, <3>5, <3>6
      <3>8. u.again \subseteq {u.first}
        <4>1. CASE d \in t.seen
          BY <1>5, <3>2, <3>7, <4>1, Zenon DEF t
        <4>2. CASE d \notin t.seen
          <5>1. CASE t.first = 0
            <6>1. t.again = {}
              BY <3>5, <5>1, Zenon
            <6> QED BY <3>2, <4>2, <5>1, <6>1, Zenon
          <5>2. CASE t.first # 0
            BY <1>5, <3>2, <4>2, <5>2, Zenon DEF t
          <5> QED BY <5>1, <5>2, Zenon
        <4> QED BY <4>1, <4>2, Zenon
      <3>9. u.first # 0 /\ u.first \in u.seen /\ u.again \subseteq u.seen
        BY <3>2, <3>3, <3>5
      <3>10. c = Front => u.seen = {u.first} /\ u.first = d
        BY <3>2, <3>5, Zenon
      <3>11. c # Front => \A e \in u.seen : e = u.first \/ e >= d
        <4>1. SUFFICES ASSUME c # Front, NEW e \in u.seen PROVE e = u.first \/ e >= d
          BY Zenon
        <4>2. CASE e = d
          BY <3>3, <4>2
        <4>3. CASE e \in t.seen
          <5>1. e \in Int /\ t.first # 0
            BY <3>5, <3>6, <4>3, Zenon
          <5>2. e = t.first \/ e >= local_docid[c]
            BY <3>5, <4>1, <4>3, Zenon
          <5> QED BY <3>2, <3>3, <4>1, <5>1, <5>2
        <4> QED BY <3>2, <4>2, <4>3, Zenon
      <3>12. Yielded(r)'
        <4>1. \A n \in live : c = Front => local_docid[n] <= d
          BY <3>4, Zenon
        <4>2. d >= d /\ d = local_docid[next[c]]
          BY <3>3 DEF d
        <4>3. cur'[r] = c /\ d \in u.seen
          BY <2>1, <3>2, Zenon DEF c
        <4> QED BY <1>1, <3>1, <3>9, <3>10, <3>11, <4>1, <4>2, <4>3, ZenonT(30) DEF Yielded, u
      <3>13. Ahead(r)'
        <4>1. \A n \in live : local_docid[n] \in t.there =>
                local_docid[n] \in t.seen \/ Behind(n, c)
          BY <1>5, <2>1, Zenon DEF Ahead, t, c
        <4>2. cur'[r] = c
          BY <2>1, Zenon DEF c
        <4> QED BY <1>1, <3>2, <4>1, <4>2, Zenon DEF Ahead, Behind, u
      <3> QED BY <3>8, <3>12, <3>13, Zenon DEF u
    <2> QED BY <2>2, <2>3, Zenon
  <1>13. CASE NextPosting(r)
    <2>1. /\ rpc[r] = "next" /\ rpc'[r] = "test" /\ cur'[r] = next[c]
          /\ trail'[r] = t
      BY <1>2, <1>13, Zenon DEF NextPosting, MoveTo, ghost
    <2>2. next[c] \in live /\ next[c] # Front
          /\ \A m \in live : Behind(m, c) => m = next[c] \/ Behind(m, next[c])
      BY <1>2, <1>6, <2>1, Zenon
    <2>3. /\ IF t.first = 0 THEN t.seen = {} ELSE t.first \in t.seen
          /\ t.again \subseteq t.seen
          /\ c = Front => /\ t.seen = {t.first} /\ local_docid[next[c]] >= t.first
                          /\ \A n \in live :
                               local_docid[n] \in t.there => local_docid[n] <= t.first
          /\ c # Front => /\ local_docid[next[c]] \in t.seen
                          /\ \A d \in t.seen : d = t.first \/ d >= local_docid[next[c]]
      BY <1>5, <2>1, Zenon DEF Yielded
    <2>4. \A n \in live : local_docid[n] \in t.there =>
            local_docid[n] \in t.seen \/ Behind(n, c)
      BY <1>5, <2>1, Zenon DEF Ahead
    <2>5. t.first \in Int /\ local_docid[next[c]] \in Int
      <3>1. t.first \in 0 .. MaxDocs
        BY <1>2, Zenon DEF TrailType
      <3> QED BY <1>2, <2>2, <3>1
    <2> HIDE DEF t, c
    <2>6. Yielded(r)'
      <3>1. \A d \in t.seen : d = t.first \/ d >= local_docid[next[c]]
        BY <2>3, ZenonT(30)
      <3> QED BY <1>1, <2>1, <2>2, <2>3, <3>1, Zenon DEF Yielded
    <2>7. local_docid[next[c]] \in t.there => local_docid[next[c]] \in t.seen
      BY <2>2, <2>3, <2>5
    <2>8. \A n \in live : local_docid[n] \in t.there =>
            local_docid[n] \in t.seen \/ Behind(n, next[c])
      BY <2>2, <2>4, <2>7, Zenon
    <2>9. Ahead(r)'
      BY <1>1, <2>1, <2>8, Zenon DEF Ahead, Behind
    <2>10. trail'[r].again \subseteq {trail'[r].first}
      BY <1>5, <2>1, Zenon DEF t
    <2> QED BY <2>6, <2>9, <2>10, Zenon
  <1> QED BY <1>7, <1>10, <1>11, <1>12, <1>13, Zenon DEF Iterate

\* The ids stay new.
LEMMA NewIdsStep ==
  ASSUME TypeInv, TypeInv', ~overlap, Shape, NewIds, Next
  PROVE  NewIds'
  <1>1. /\ docid \in Nat /\ local_docid \in [Nodes -> 0 .. MaxDocs] /\ live \subseteq Nodes
        /\ \A n \in live : local_docid[n] \in Int
        /\ \A r \in Readers : trail[r] \in TrailType
    <2>1. docid \in 0 .. MaxDocs
      BY Zenon DEF TypeInv, TypeOK, ThreadTypeOK
    <2>2. /\ local_docid \in [Nodes -> 0 .. MaxDocs] /\ live \subseteq Nodes
          /\ trail \in [Readers -> TrailType]
      BY Zenon DEF TypeInv, TypeOK, HeapTypeOK, HistoryTypeOK
    <2> QED BY <2>1, <2>2
  <1>2. CASE Build
    <2>1. UNCHANGED trail
      BY <1>2, Zenon DEF Build, AllocatePosting, PushFrontLoad, PushFrontStore, PushFrontLink,
             PushFrontCount, ghost
    <2>2. CASE AllocatePosting
      <3>1. docid' = docid + 1 /\ live' = live
        BY <2>2, Zenon DEF AllocatePosting, ghost
      <3>2. \A n \in live : local_docid'[n] = local_docid[n]
        BY <1>2, BuildKeepsLinks, Zenon DEF TypeInv
      <3>3. \A r \in Readers : \A d \in trail[r].there : d \in Int
        BY <1>1 DEF TrailType
      <3>4. \A r \in Readers : /\ \A d \in trail[r].there : d <= docid + 1
                               /\ docid + 1 \notin trail[r].there
        BY <1>1, <3>3 DEF NewIds
      <3>5. docid + 1 > 0 /\ \A n \in live : local_docid'[n] > 0
        BY <1>1, <3>2 DEF NewIds
      <3> QED BY <2>1, <3>1, <3>4, <3>5, Zenon DEF NewIds
    <2>3. CASE PushFrontLoad
      <3>1. bpc = "push" /\ UNCHANGED <<docid, live, local_docid>>
        BY <2>3, Zenon DEF PushFrontLoad, PushFrontStore
      <3> QED BY <2>1, <3>1, Zenon DEF NewIds
    <2>4. CASE PushFrontLink
      <3>1. /\ bpc = "link" /\ bpc' = "count" /\ UNCHANGED <<docid, local_docid>>
            /\ live' = live \union {node} /\ local_docid[node] = docid
        BY <2>4, Zenon DEF PushFrontLink, Shape, Numbered
      <3> QED BY <2>1, <3>1, Zenon DEF NewIds
    <2>5. CASE PushFrontCount
      <3>1. /\ bpc' = "idle" /\ UNCHANGED <<docid, local_docid, live>>
        BY <2>5, Zenon DEF PushFrontCount, ghost
      <3> QED BY <2>1, <3>1, Zenon DEF NewIds
    <2> QED BY <1>2, <2>2, <2>3, <2>4, <2>5, Zenon DEF Build
  <1>3. CASE Clean
    <2>1. UNCHANGED <<local_docid, bpc, docid, trail>> /\ live' \subseteq live
      <3>1. CASE EraseAfterDetach
        BY <3>1, Zenon DEF EraseAfterDetach, build
      <3>2. CASE ~EraseAfterDetach
        BY <1>3, <3>2, Zenon
           DEF Clean, MarkBegin, MarkUpTo, MarkScan, SetEndMark, EraseAfterLoad,
               Recycle, RecycleWhile, EraseAfterCount,
               EraseAfterStore, ResetEndMark, heap, build, ghost
      <3> QED BY <3>1, <3>2, Zenon
    <2> QED BY <2>1, Zenon DEF NewIds
  <1>4. ASSUME NEW r \in Readers, BeginIteration(r) \/ Iterate(r)
        PROVE  NewIds'
    <2>1. UNCHANGED <<local_docid, bpc, docid, live>>
      BY <1>4, Zenon
         DEF BeginIteration, Iterate, HasValueNext, HasValueMark, HasValueUnless,
             GetValue, NextPosting, MoveTo, heap, build, ghost
    <2>2. \A s \in Readers \ {r} : trail'[s] = trail[s]
      <3>1. DOMAIN trail = Readers
        BY Zenon DEF TypeInv, TypeOK, HistoryTypeOK
      <3> QED BY <1>4, <3>1, Zenon DEF BeginIteration, Iterate, HasValueNext,
             HasValueMark, HasValueUnless, GetValue, NextPosting, MoveTo, EndIteration,
             ghost
    <2>3. trail'[r].there \in {Docs(live), {}, trail[r].there}
      <3>1. trail'[r] \in {NewTrail(live), NewTrail({}), trail[r]}
              \union {Yield(trail[r], d) : d \in {local_docid[next[cur[r]]]}}
        <4>1. DOMAIN trail = Readers
          BY Zenon DEF TypeInv, TypeOK, HistoryTypeOK
        <4> QED BY <1>4, <4>1, Zenon DEF BeginIteration, Iterate, HasValueNext, HasValueMark,
               HasValueUnless, GetValue, NextPosting, MoveTo, EndIteration, ghost
      <3>2. NewTrail(live).there = Docs(live) /\ NewTrail({}).there = {}
        BY Zenon DEF NewTrail, Docs
      <3>3. \A d : Yield(trail[r], d).there = trail[r].there
        BY Zenon DEF Yield
      <3> QED BY <3>1, <3>2, <3>3, Zenon
    <2>4. /\ \A d \in Docs(live) : d <= docid
          /\ bpc \in {"push", "link"} => docid \notin Docs(live)
      BY <1>1 DEF Docs, Shape, Numbered
    <2>5. \A s \in Readers : /\ \A d \in trail'[s].there : d <= docid
                             /\ bpc \in {"push", "link"} => docid \notin trail'[s].there
      BY <2>2, <2>3, <2>4, Zenon DEF NewIds
    <2> QED BY <2>1, <2>5, Zenon DEF NewIds
  <1> QED BY <1>2, <1>3, <1>4, Zenon DEF Next

\* Nobody has yielded anything yet.
LEMMA InitTrails == Init => TrailInv
  <1> SUFFICES ASSUME Init
               PROVE  TrailInv
    BY Zenon
  <1>1. \A r \in Readers : trail[r] = NewTrail({}) /\ rpc[r] = "idle"
    BY Zenon DEF Init
  <1>2. \A r \in Readers : trail[r].there = {} /\ trail[r].again = {}
    <2>1. NewTrail({}).there = {} /\ NewTrail({}).again = {}
      BY Zenon DEF NewTrail, Docs
    <2> QED BY <1>1, <2>1, Zenon
  <1>3. NewIds
    BY <1>2, Zenon DEF Init, NewIds
  <1>4. Trails
    BY <1>1, <1>2, Zenon DEF Trails
  <1> QED BY <1>3, <1>4, InitIInv, Zenon DEF TrailInv

\* Every step keeps the trails; beyond an overlap or a slow reader nothing is claimed.
LEMMA NextTrails == TrailInv /\ [Next \/ Dead]_vars => TrailInv'
  <1> SUFFICES ASSUME TrailInv, [Next \/ Dead]_vars
               PROVE  TrailInv'
    BY Zenon
  <1>1. IInv /\ IInv' /\ TypeInv /\ TypeInv'
    <2>1. IInv
      BY Zenon DEF TrailInv
    <2>2. IInv'
      BY <2>1, NextIInv, Zenon
    <2> QED BY <2>1, <2>2, Zenon DEF IInv
  <1>2. CASE Next
    <2>1. (overlap => overlap') /\ (slow => slow')
      BY <1>1, <1>2, HistoryStep, Zenon DEF IInv
    <2>2. ASSUME ~overlap' PROVE NewIds'
      BY <1>1, <1>2, <2>1, <2>2, NewIdsStep, Zenon DEF TrailInv, IInv
    <2>3. ASSUME ~overlap', ~slow' PROVE Trails'
      <3>1. ~overlap /\ ~slow /\ Shape /\ LateOnlyInGrace /\ ReaderState /\ NewIds /\ Trails
        BY <2>1, <2>3, Zenon DEF TrailInv, IInv
      <3> QED BY <1>1, <1>2, <3>1, BuildTrails, CleanTrails, ReadTrails, Zenon DEF Next
    <2> QED BY <1>1, <2>2, <2>3, Zenon DEF TrailInv
  <1>3. CASE UNCHANGED vars
    <2>1. UNCHANGED <<next, local_docid, live, bpc, docid, rpc, cur, trail, overlap, slow>>
      BY <1>3, Zenon DEF vars, heap, build, read, ghost
    <2>2. NewIds => NewIds'
      BY <2>1, Zenon DEF NewIds
    <2>3. \A r \in Readers : (Yielded(r) => Yielded(r)') /\ (Ahead(r) => Ahead(r)')
      BY <2>1, ZenonT(30) DEF Yielded, Ahead, Behind
    <2>4. Trails => Trails'
      BY <2>1, <2>3, Zenon DEF Trails
    <2> QED BY <1>1, <2>1, <2>2, <2>4, Zenon DEF TrailInv
  <1> QED BY <1>2, <1>3, Zenon DEF Dead

\* The invariant of what the iterations yield.
THEOREM TrailInvariance == Spec => []TrailInv
  BY InitTrails, NextTrails, PTL DEF Spec

\* HasValue, GetValue and Next yield no posting twice but the first, however many
\* postings are pushed and erased meanwhile.
THEOREM FirstOnlyAgain == Spec => []OnlyFirstYieldedAgain
  <1>1. TrailInv => OnlyFirstYieldedAgain
    BY Zenon DEF TrailInv, Trails, OnlyFirstYieldedAgain
  <1> QED BY <1>1, TrailInvariance, PTL

\* An iteration ends only at the end of the list or at the mark.
LEMMA EndsComplete ==
  ASSUME TrailInv, Next, ~overlap, ~slow, NEW r \in Readers, rpc[r] # "idle",
         rpc'[r] = "idle", NEW n \in live, local_docid[n] \in trail[r].there
  PROVE  local_docid[n] \in trail[r].seen \/ (end_mark # NULL /\ Behind(n, end_mark))
  <1>1. /\ TypeInv /\ Shape /\ ReaderState /\ Trails
    BY Zenon DEF TrailInv, IInv
  <1>2. /\ local_docid[n] \in trail[r].seen \/ Behind(n, cur[r])
        /\ cur[r] \in live \union {Front}
        /\ next[cur[r]] = NULL => ~Behind(n, cur[r])
        /\ live \subseteq Nodes /\ Front # NULL /\ NULL \notin Nodes
        /\ rpc \in [Readers -> {"idle", "test", "mark", "get", "next"}]
    BY <1>1, ConstantsAssumption, Zenon
       DEF Trails, Ahead, ReaderState, Shape, ListIntact, TypeInv, TypeOK, ThreadTypeOK,
           HistoryTypeOK
  <1>3. ~Build
    BY Zenon DEF Build, AllocatePosting, PushFrontLoad, PushFrontStore, PushFrontLink,
           PushFrontCount, read
  <1>4. ~Clean
    BY Zenon DEF Clean, MarkBegin, MarkUpTo, MarkScan, SetEndMark, EraseAfterLoad,
           EraseAfterDetach, Recycle, RecycleWhile, EraseAfterCount, EraseAfterStore,
           ResetEndMark, read
  <1>5. ASSUME NEW s \in Readers, BeginIteration(s) \/ Iterate(s)
        PROVE  \/ next[cur[r]] = NULL \/ cur[r] = NULL
               \/ end_mark = Front \/ end_mark = cur[r]
    <2>1. CASE s # r
      <3>1. rpc'[r] = rpc[r]
        BY <1>2, <1>5, <2>1, Zenon DEF BeginIteration, Iterate, HasValueNext,
           HasValueMark, HasValueUnless, GetValue, NextPosting, MoveTo, EndIteration
      <3> QED BY <3>1, Zenon
    <2>2. CASE s = r
      <3>1. ~BeginIteration(r) /\ ~GetValue(r) /\ ~NextPosting(r)
        BY <1>2, Zenon DEF BeginIteration, GetValue, NextPosting, MoveTo
      <3>2. HasValueNext(r) => cur[r] = NULL \/ next[cur[r]] = NULL
        BY <1>2, Zenon DEF HasValueNext
      <3>3. HasValueMark(r) => end_mark = Front \/ end_mark = cur[r]
        BY <1>2, Zenon DEF HasValueMark, HasValueUnless
      <3> QED BY <1>5, <2>2, <3>1, <3>2, <3>3, Zenon DEF Iterate
    <2> QED BY <2>1, <2>2, Zenon
  <1>6. \/ next[cur[r]] = NULL \/ cur[r] = NULL
        \/ end_mark = Front \/ end_mark = cur[r]
    BY <1>3, <1>4, <1>5, Zenon DEF Next
  <1> QED BY <1>2, <1>6, Zenon DEF Behind

\* The loop of beginIntersect over HasValue, GetValue and Next leaves out no posting
\* that was listed when it began and is still listed and unmarked when it ends.
THEOREM IterationsComplete == Spec => IterationComplete
  <1> DEFINE Complete == \A r \in Readers :
               rpc[r] # "idle" /\ rpc'[r] = "idle" /\ ~overlap /\ ~slow =>
                 \A n \in live :
                   \/ local_docid[n] \notin trail[r].there
                   \/ local_docid[n] \in trail[r].seen
                   \/ end_mark # NULL /\ Behind(n, end_mark)
  <1>1. TrailInv /\ [Next \/ Dead]_vars => [Complete]_vars
    BY EndsComplete, Zenon DEF Dead
  <1> QED BY <1>1, TrailInvariance, PTL DEF Spec, IterationComplete
=============================================================================
