------------------------ MODULE InstantIndexProofs ------------------------
(***************************************************************************)
(* Proofs about InstantIndex: what comes to lie after an end mark has      *)
(* expired, the counter of stories is the number of attachments until a    *)
(* story loses its attachment early, and the build thread and the cleaner  *)
(* together implement StoryIndex, for any tokens, stories, life time, pool *)
(* size and bounds.                                                        *)
(*                                                                         *)
(* The inductive invariant says which ids a list can hold when the build   *)
(* thread is about to push the next one, in which phases of the cleaner a  *)
(* list has a mark, and what has been collected when a list is erased.     *)
(***************************************************************************)
EXTENDS InstantIndex, FiniteSetTheorems, SequenceTheorems, WellFoundedInduction, TLAPS

Pushing == {"detect", "create", "push", "link"}
Linking == {"push", "link"}

\* The parts of TypeOK.
TimeType ==
  /\ clock \in 0 .. MaxTime
  /\ target_time \in Int

DocsType ==
  /\ doc_pool \in Seq(Stories)
  /\ counter \in 1 .. MaxDocs + 1
  /\ DOMAIN att \subseteq Ids /\ \A i \in DOMAIN att : att[i] \in Stories
  /\ total \in Int
  /\ orphaned \in BOOLEAN

ListsType ==
  /\ tokens \subseteq Tokens
  /\ index \in [Tokens -> SUBSET Ids]
  /\ timestamp \in [Tokens -> [Ids -> 0 .. MaxTime]]
  /\ end_mark \in [Tokens -> Ids \union {Front, NULL}]

BuildType ==
  /\ bpc \in {"idle", "attach", "detect", "create", "push", "link"}
  /\ story \in Stories \union {NULL}
  /\ local_id \in Ids \union {0}
  /\ keywords \subseteq Tokens
  /\ stamp \in 0 .. MaxTime
  /\ new_tokens \subseteq Tokens

CleanType ==
  /\ cpc \in {"sleep", "mark", "grace", "clear", "erase", "delete"}
  /\ todo \subseteq Tokens
  /\ tok \in Tokens \union {NULL}
  /\ doc_to_delete \subseteq Ids
  /\ collected \subseteq Ids
  /\ leaked \subseteq Ids

\* There is a number for every story that was accepted.
Room == Accepted <= MaxDocs

\* The build thread's variables are what its place in AddStoryInternal says.
Building ==
  /\ bpc # "idle" => story \in Stories
  /\ bpc \in Pushing => local_id = counter - 1 /\ local_id \in Ids
  /\ bpc = "create" => /\ new_tokens \intersect tokens = {}
                       /\ Keywords[story] \subseteq tokens \union new_tokens
  /\ bpc \in Linking => /\ keywords \subseteq Keywords[story]
                        /\ keywords \subseteq tokens
  /\ bpc \notin Linking => keywords = {}

\* The lists hold numbers that were given out, and the next one to be pushed is
\* larger than all of them; a token without a list has nothing.
Below ==
  /\ \A t \in Tokens : \A i \in index[t] :
       /\ i < counter
       /\ bpc \in {"detect", "create"} => i < local_id
       /\ bpc \in Linking /\ t \in keywords => i < local_id
  /\ \A t \in Tokens \ tokens : index[t] = {} /\ end_mark[t] = NULL

\* A list is in the order of the timestamps, and the next posting follows it.
TimesOrdered ==
  /\ bpc = "link" => stamp <= clock
  /\ \A t \in Tokens : \A i \in index[t] :
       /\ timestamp[t][i] <= clock
       /\ bpc = "link" => timestamp[t][i] <= stamp
       /\ \A j \in index[t] : i < j => timestamp[t][i] <= timestamp[t][j]

\* When a list has an end mark.
Marks ==
  /\ \A t \in Tokens : end_mark[t] \in {NULL, Front} \union index[t]
  /\ cpc \in {"sleep", "delete"} => \A t \in Tokens : end_mark[t] = NULL
  /\ cpc = "mark" => \A t \in todo : end_mark[t] = NULL
  /\ cpc \in {"clear", "erase"} => \A t \in Tokens \ todo : end_mark[t] = NULL
  /\ cpc = "erase" => tok \in todo
  /\ todo \subseteq tokens

\* What lies before a mark is young enough.
Kept ==
  \A t \in Tokens : end_mark[t] # NULL =>
    \A i \in index[t] \ Doomed(t) : timestamp[t][i] >= target_time

\* The attachments: a number has one from AddAttachment until it was collected.
Attached ==
  /\ \A i \in DOMAIN att \union collected \union leaked : i < counter
  /\ \A i \in Ids \ collected : i < counter => i \in DOMAIN att
  /\ doc_to_delete \subseteq collected

\* As long as no attachment went early, the lists, the cleaner and the build thread
\* hold ids with attachments only, and all of them are counted.
Held ==
  /\ bpc \in {"detect", "create"} => local_id \notin collected
  /\ ~orphaned => /\ doc_to_delete \subseteq DOMAIN att
                  /\ \A t \in Tokens : index[t] \subseteq DOMAIN att
                  /\ keywords # {} => local_id \in DOMAIN att
  /\ TotalExact

\* The last number is in the lists it was pushed to, or was erased from one.
LastListed ==
  /\ bpc \in Pushing /\ local_id \in DOMAIN att => att[local_id] = story
  /\ cpc = "erase" => Doomed(tok) \subseteq collected \union leaked
  /\ \A last \in DOMAIN att \ (collected \union leaked) :
       last = counter - 1 =>
         \A t \in Keywords[att[last]] :
           \/ bpc \in {"detect", "create"}
           \/ bpc \in Linking /\ t \in keywords
           \/ last \in index[t]

\* The inductive invariant.
IInv ==
  /\ TimeType /\ DocsType /\ ListsType /\ BuildType /\ CleanType
  /\ Room
  /\ Building
  /\ Below
  /\ TimesOrdered
  /\ Marks
  /\ Kept
  /\ Attached
  /\ Held
  /\ LastListed

-----------------------------------------------------------------------------
(* Operators of the model.                                                 *)

\* LastOf is the fake front or the smallest id: where the cleaner's scan stops.
LEMMA LastOfFacts ==
  ASSUME NEW S \in SUBSET Nat
  PROVE  /\ S = {} => LastOf(S) = Front
         /\ S # {} => LastOf(S) \in S /\ \A y \in S : LastOf(S) <= y
<1>1. CASE S = {}
  BY <1>1, Zenon DEF LastOf
<1>2. CASE S # {}
  <2>1. PICK x \in S : \A y \in S : ~(<<y, x>> \in OpToRel(<, Nat))
    BY <1>2, NatLessThanWellFounded, WFMin, Zenon
  <2>2. ASSUME NEW y \in S PROVE x <= y
    <3>1. ~(<<y, x>> \in {ss \in Nat \X Nat : ss[1] < ss[2]})
      BY <2>1, Zenon DEF OpToRel
    <3>2. x \in Nat /\ y \in Nat /\ <<y, x>> \in Nat \X Nat
      BY Zenon
    <3> QED BY <3>1, <3>2
  <2> QED BY <1>2, <2>2, Zenon DEF LastOf
<1> QED BY <1>1, <1>2, Zenon

\* What a step leaves alone keeps the part of the invariant about it.
LEMMA Frames ==
  ASSUME IInv
  PROVE  /\ UNCHANGED <<clock, target_time>> => TimeType'
         /\ UNCHANGED <<doc_pool, counter, att, total, orphaned>> => DocsType'
         /\ UNCHANGED <<tokens, index, timestamp, end_mark>> => ListsType'
         /\ UNCHANGED <<bpc, story, local_id, keywords, stamp, new_tokens>> => BuildType'
         /\ UNCHANGED <<cpc, todo, tok, doc_to_delete, collected, leaked>> => CleanType'
         /\ UNCHANGED <<counter, doc_pool, bpc>> => Room'
         /\ UNCHANGED <<bpc, story, local_id, counter, new_tokens, tokens, keywords>>
              => Building'
         /\ UNCHANGED <<index, counter, bpc, local_id, keywords, tokens, end_mark>>
              => Below'
         /\ UNCHANGED <<index, timestamp, clock, bpc, stamp>> => TimesOrdered'
         /\ UNCHANGED <<end_mark, index, cpc, todo, tok, tokens>> => Marks'
         /\ UNCHANGED <<end_mark, index, timestamp, target_time>> => Kept'
         /\ UNCHANGED <<att, collected, leaked, counter, doc_to_delete>> => Attached'
         /\ UNCHANGED <<bpc, local_id, keywords, collected, doc_to_delete, att, total,
                        index, orphaned>> => Held'
         /\ UNCHANGED <<bpc, local_id, att, story, cpc, tok, end_mark, index, collected,
                        leaked, counter, keywords>> => LastListed'
<1> USE DEF IInv
<1>1. UNCHANGED <<clock, target_time>> => TimeType'
  BY Zenon DEF TimeType
<1>2. UNCHANGED <<doc_pool, counter, att, total, orphaned>> => DocsType'
  BY Zenon DEF DocsType
<1>3. UNCHANGED <<tokens, index, timestamp, end_mark>> => ListsType'
  BY Zenon DEF ListsType
<1>4. UNCHANGED <<bpc, story, local_id, keywords, stamp, new_tokens>> => BuildType'
  BY Zenon DEF BuildType
<1>5. UNCHANGED <<cpc, todo, tok, doc_to_delete, collected, leaked>> => CleanType'
  BY Zenon DEF CleanType
<1>6. UNCHANGED <<counter, doc_pool, bpc>> => Room'
  BY Zenon DEF Room, Accepted
<1>7. UNCHANGED <<bpc, story, local_id, counter, new_tokens, tokens, keywords>>
        => Building'
  BY Zenon DEF Building
<1>8. UNCHANGED <<index, counter, bpc, local_id, keywords, tokens, end_mark>> => Below'
  BY Zenon DEF Below
<1>9. UNCHANGED <<index, timestamp, clock, bpc, stamp>> => TimesOrdered'
  BY Zenon DEF TimesOrdered
<1>10. UNCHANGED <<end_mark, index, cpc, todo, tok, tokens>> => Marks'
  BY Zenon DEF Marks
<1>11. UNCHANGED <<end_mark, index, timestamp, target_time>> => Kept'
  BY Zenon DEF Kept, Doomed, After
<1>12. UNCHANGED <<att, collected, leaked, counter, doc_to_delete>> => Attached'
  BY Zenon DEF Attached
<1>14. UNCHANGED <<bpc, local_id, keywords, collected, doc_to_delete, att, total,
                   index, orphaned>> => Held'
  <2> SUFFICES ASSUME UNCHANGED <<bpc, local_id, keywords, collected, doc_to_delete, att,
                                 total, index, orphaned>>
               PROVE  Held'
    BY Zenon
  <2> QED BY Zenon DEF Held, TotalExact
<1>13. UNCHANGED <<bpc, local_id, att, story, cpc, tok, end_mark, index, collected,
                   leaked, counter, keywords>> => LastListed'
  BY Zenon DEF LastListed, Doomed, After
<1> QED BY <1>1, <1>2, <1>3, <1>4, <1>5, <1>6, <1>7, <1>8, <1>9, <1>10, <1>11, <1>12,
           <1>13, <1>14, ZenonT(30)

-----------------------------------------------------------------------------
(* Time and requests.                                                      *)

\* The clock of Timer::CurrentTimeInS moves forward.
LEMMA TickInv ==
  ASSUME IInv, Tick
  PROVE  IInv'
<1> USE DEF IInv
<1>1. /\ clock < MaxTime /\ clock' = clock + 1
      /\ UNCHANGED <<doc_pool, counter, att, total, tokens, index, timestamp, end_mark,
                     bpc, story, local_id, keywords, stamp, new_tokens, cpc, target_time, todo,
                     tok, doc_to_delete, collected, leaked, orphaned>>
  BY Zenon DEF Tick, pool, docs, lists, build, clean, history
<1>2. clock \in Int /\ target_time \in Int /\ MaxTime \in Nat /\ stamp \in Int
  BY ConstantsAssumption DEF TimeType, BuildType
<1>3. TimeType'
  BY <1>1, <1>2 DEF TimeType
<1>4. \A t \in Tokens : \A i \in index[t] : timestamp[t][i] \in Int
  BY ConstantsAssumption DEF ListsType
<1>5. TimesOrdered'
  BY <1>1, <1>2, <1>4 DEF TimesOrdered
<1>6. DocsType' /\ ListsType' /\ BuildType' /\ CleanType' /\ Room' /\ Building' /\ Below'
  BY <1>1, Frames, Zenon
<1>7. Marks' /\ Kept' /\ Attached' /\ Held' /\ LastListed'
  BY <1>1, Frames, Zenon
<1> QED BY <1>3, <1>5, <1>6, <1>7, Zenon

\* InstantIndex::AddStory.
LEMMA AddStoryInv ==
  ASSUME IInv, NEW s \in Stories, AddStory(s)
  PROVE  IInv'
<1> USE DEF IInv
<1>1. /\ Accepted < MaxDocs
      /\ doc_pool' = IF Len(doc_pool) < PoolSize THEN Append(doc_pool, s) ELSE doc_pool
      /\ UNCHANGED <<clock, counter, att, total, tokens, index, timestamp, end_mark,
                     bpc, story, local_id, keywords, stamp, new_tokens, cpc, target_time, todo,
                     tok, doc_to_delete, collected, leaked, orphaned>>
  BY Zenon DEF AddStory, docs, lists, build, clean, history
<1>2. /\ doc_pool \in Seq(Stories) /\ Len(doc_pool) \in Nat /\ counter \in Int
      /\ MaxDocs \in Nat
  BY LenProperties, ConstantsAssumption DEF DocsType
<1>3. /\ doc_pool' \in Seq(Stories)
      /\ Len(doc_pool') \in {Len(doc_pool), Len(doc_pool) + 1}
  BY <1>1, <1>2, AppendProperties, Zenon
<1>4. DocsType'
  BY <1>1, <1>3, Zenon DEF DocsType
<1>5. Room'
  <2> DEFINE fetched == IF bpc = "attach" THEN 1 ELSE 0
             size    == Len(doc_pool)
             after   == Len(doc_pool')
  <2>1. counter - 1 + size + fetched < MaxDocs
    BY <1>1, Zenon DEF Accepted
  <2>2. /\ counter \in Int /\ size \in Nat /\ MaxDocs \in Nat /\ fetched \in Nat
        /\ after \in {size, size + 1}
    BY <1>2, <1>3, Zenon
  <2>3. Accepted' = counter - 1 + after + fetched
    BY <1>1, Zenon DEF Accepted
  <2> HIDE DEF fetched, size, after
  <2>4. counter - 1 + after + fetched <= MaxDocs
    BY <2>1, <2>2
  <2> QED BY <2>3, <2>4, Zenon DEF Room
<1>6. TimeType' /\ ListsType' /\ BuildType' /\ CleanType' /\ Building' /\ Below'
  BY <1>1, Frames, Zenon
<1>7. TimesOrdered' /\ Marks' /\ Kept' /\ Attached' /\ Held' /\ LastListed'
  BY <1>1, Frames, Zenon
<1> QED BY <1>4, <1>5, <1>6, <1>7, Zenon

-----------------------------------------------------------------------------
(* IndexBuildThread.                                                       *)

\* The build thread takes the oldest story.
LEMMA FetchStoryInv ==
  ASSUME IInv, FetchStory
  PROVE  IInv'
<1> USE DEF IInv
<1>1. /\ bpc = "idle" /\ doc_pool # <<>> /\ story' = Head(doc_pool)
      /\ doc_pool' = Tail(doc_pool) /\ bpc' = "attach"
      /\ UNCHANGED <<clock, counter, att, total, tokens, index, timestamp, end_mark,
                     local_id, keywords, stamp, new_tokens, cpc, target_time, todo,
                     tok, doc_to_delete, collected, leaked, orphaned>>
  BY Zenon DEF FetchStory, docs, lists, clean, history
<1>2. doc_pool \in Seq(Stories) /\ counter \in Int
  BY DEF DocsType
<1>3. /\ doc_pool' \in Seq(Stories) /\ Len(doc_pool') = Len(doc_pool) - 1
      /\ Len(doc_pool) \in Nat /\ story' \in Stories
  BY <1>1, <1>2, HeadTailProperties, LenProperties, Zenon
<1>4. DocsType'
  BY <1>1, <1>3, Zenon DEF DocsType
<1>5. Room'
  BY <1>1, <1>2, <1>3 DEF Room, Accepted
<1>6. BuildType'
  BY <1>1, <1>3, Zenon DEF BuildType
<1>7. Building'
  BY <1>1, <1>3, Zenon DEF Building, Pushing, Linking
<1>8. Below'
  BY <1>1, Zenon DEF Below, Linking
<1>9. LastListed'
  BY <1>1, Zenon DEF LastListed, Pushing, Linking, Doomed, After
<1>10. TimesOrdered' /\ Held'
  BY <1>1, Zenon DEF TimesOrdered, Held, TotalExact
<1>11. TimeType' /\ ListsType' /\ CleanType'
  BY <1>1, Frames, Zenon
<1>12. Marks' /\ Kept' /\ Attached'
  BY <1>1, Frames, Zenon
<1> QED BY <1>4, <1>5, <1>6, <1>7, <1>8, <1>9, <1>10, <1>11, <1>12, Zenon

\* Step 1 of AddStoryInternal: the number is new, so the attachments grow by one.
LEMMA AddAttachmentInv ==
  ASSUME IInv, AddAttachment
  PROVE  IInv'
<1> USE DEF IInv
<1>1. /\ bpc = "attach" /\ local_id' = counter /\ counter' = counter + 1
      /\ total' = total + 1 /\ bpc' = "detect"
      /\ att' = [i \in DOMAIN att \union {counter} |->
                   IF i = counter THEN story ELSE att[i]]
      /\ UNCHANGED <<clock, doc_pool, tokens, index, timestamp, end_mark, story,
                     keywords, stamp, new_tokens, cpc, target_time, todo, tok, doc_to_delete,
                     collected, leaked, orphaned>>
  BY Zenon DEF AddAttachment, AttachAs, pool, lists, clean, history
<1>2. counter \in Nat /\ counter >= 1 /\ Len(doc_pool) \in Nat /\ MaxDocs \in Nat
  BY LenProperties, ConstantsAssumption DEF DocsType
<1>3. counter + Len(doc_pool) <= MaxDocs
  <2>1. Accepted = counter - 1 + Len(doc_pool) + 1
    BY <1>1, Zenon DEF Accepted
  <2> DEFINE size == Len(doc_pool)
  <2> HIDE DEF size
  <2>2. counter - 1 + size + 1 <= MaxDocs /\ size \in Nat
    BY <1>2, <2>1, Zenon DEF Room, size
  <2>3. counter + size <= MaxDocs
    BY <1>2, <2>2
  <2> QED BY <2>3, Zenon DEF size
<1>4. counter \in Ids
  BY <1>2, <1>3 DEF Ids
<1>5. /\ DOMAIN att' = DOMAIN att \union {counter}
      /\ att'[counter] = story
      /\ \A i \in DOMAIN att : i # counter => att'[i] = att[i]
  BY <1>1, Zenon
<1>6. story \in Stories
  BY <1>1, Zenon DEF Building
<1>7. \A i \in DOMAIN att \union collected \union leaked : i \in Int /\ i < counter
  <2>1. \A i \in DOMAIN att \union collected \union leaked : i \in Ids
    BY Zenon DEF DocsType, CleanType
  <2>2. \A i \in DOMAIN att \union collected \union leaked : i < counter
    BY Zenon DEF Attached
  <2> QED BY <2>1, <2>2 DEF Ids
<1>8. counter \notin DOMAIN att
  BY <1>2, <1>7
<1>9. DocsType'
  <2>1. DOMAIN att' \subseteq Ids /\ \A i \in DOMAIN att' : att'[i] \in Stories
    BY <1>4, <1>5, <1>6, Zenon DEF DocsType
  <2>2. counter' \in 1 .. MaxDocs + 1
    BY <1>1, <1>4, <1>2 DEF Ids
  <2>3. total' \in Int /\ doc_pool' \in Seq(Stories) /\ orphaned' \in BOOLEAN
    BY <1>1 DEF DocsType
  <2> QED BY <2>1, <2>2, <2>3, Zenon DEF DocsType
<1>10. Room'
  <2> DEFINE size == Len(doc_pool)
  <2> HIDE DEF size
  <2>1. Accepted' = counter' - 1 + size + 0
    BY <1>1, Zenon DEF Accepted, size
  <2>2. counter' - 1 + size + 0 <= MaxDocs
    BY <1>1, <1>2, <1>3 DEF size
  <2> QED BY <2>1, <2>2, Zenon DEF Room
<1>11. BuildType'
  BY <1>1, <1>4, Zenon DEF BuildType
<1>12. Building'
  BY <1>1, <1>2, <1>4, <1>6 DEF Building, Linking
<1>13. \A t \in Tokens : \A i \in index[t] : i \in Int /\ i < counter
  BY DEF Below, ListsType, Ids
<1>14. Below'
  BY <1>1, <1>2, <1>13 DEF Below, Linking
<1>15. Attached'
  <2>1. \A i \in DOMAIN att' \union collected \union leaked : i < counter'
    BY <1>1, <1>2, <1>5, <1>7
  <2>2. \A i \in Ids \ collected : i < counter' => i \in DOMAIN att'
    <3>1. \A i \in Ids : i < counter' => i < counter \/ i = counter
      BY <1>1, <1>2 DEF Ids
    <3> QED BY <1>5, <3>1, Zenon DEF Attached
  <2> QED BY <1>1, <2>1, <2>2, Zenon DEF Attached
<1>16. Held'
  <2>1. TotalExact'
    <3>1. IsFiniteSet(DOMAIN att)
      <4>1. IsFiniteSet(Ids)
        BY <1>2, FS_Interval DEF Ids
      <4> QED BY <4>1, FS_Subset, Zenon DEF DocsType
    <3>2. Cardinality(DOMAIN att') = Cardinality(DOMAIN att) + 1
      BY <1>5, <1>8, <3>1, FS_AddElement, Zenon
    <3> DEFINE c == Cardinality(DOMAIN att)
    <3>3. c \in Nat /\ total \in Int
      BY <3>1, FS_CardinalityType DEF DocsType
    <3>4. total <= c /\ (~orphaned => total = c)
      BY Zenon DEF Held, TotalExact
    <3> HIDE DEF c
    <3>5. total' <= c + 1 /\ (~orphaned => total' = c + 1)
      BY <1>1, <3>3, <3>4
    <3> QED BY <1>1, <3>2, <3>5, Zenon DEF TotalExact, c
  <2>2. counter \notin collected
    BY <1>2, <1>7
  <2>3. keywords = {}
    BY <1>1, Zenon DEF Building, Linking
  <2>4. DOMAIN att \subseteq DOMAIN att'
    BY <1>5, Zenon
  <2> QED BY <1>1, <2>1, <2>2, <2>3, <2>4, Zenon DEF Held
<1>17. LastListed'
  <2>1. cpc' = "erase" => Doomed(tok)' \subseteq collected' \union leaked'
    BY <1>1, Zenon DEF LastListed, Doomed, After
  <2> QED BY <1>1, <1>5, <2>1, Zenon DEF LastListed
<1>18. TimesOrdered'
  BY <1>1, Zenon DEF TimesOrdered
<1>19. TimeType' /\ ListsType' /\ CleanType' /\ Marks' /\ Kept'
  BY <1>1, Frames, Zenon
<1> QED BY <1>9, <1>10, <1>11, <1>12, <1>14, <1>15, <1>16, <1>17, <1>18, <1>19, ZenonT(30)

\* The first pass over the keywords.
LEMMA DetectNewTokensInv ==
  ASSUME IInv, DetectNewTokens
  PROVE  IInv'
<1> USE DEF IInv
<1>1. /\ bpc = "detect" /\ new_tokens' = Keywords[story] \ tokens /\ bpc' = "create"
      /\ UNCHANGED <<clock, doc_pool, counter, att, total, tokens, index, timestamp,
                     end_mark, story, local_id, keywords, stamp, cpc, target_time, todo, tok,
                     doc_to_delete, collected, leaked, orphaned>>
  BY Zenon DEF DetectNewTokens, DetectAs, pool, docs, lists, clean, history
<1>2. story \in Stories /\ Keywords[story] \subseteq Tokens
  BY <1>1, ConstantsAssumption, Zenon DEF Building
<1>3. BuildType'
  BY <1>1, <1>2, Zenon DEF BuildType
<1>4. Room'
  BY <1>1, Zenon DEF Room, Accepted
<1>5. Building'
  BY <1>1, <1>2, Zenon DEF Building, Pushing, Linking
<1>6. Below' /\ TimesOrdered' /\ Held'
  BY <1>1, Zenon DEF Below, Linking, TimesOrdered, Held, TotalExact
<1>7. LastListed'
  <2>1. cpc' = "erase" => Doomed(tok)' \subseteq collected' \union leaked'
    BY <1>1, Zenon DEF LastListed, Doomed, After
  <2> QED BY <1>1, <2>1, Zenon DEF LastListed, Pushing, Linking
<1>8. TimeType' /\ DocsType' /\ ListsType' /\ CleanType'
  BY <1>1, Frames, Zenon
<1>9. Marks' /\ Kept' /\ Attached'
  BY <1>1, Frames, Zenon
<1> QED BY <1>3, <1>4, <1>5, <1>6, <1>7, <1>8, <1>9, Zenon

\* The lists that the first pass found missing are still missing: no list is
\* replaced.
LEMMA CreateListsKeeps ==
  ASSUME IInv, CreateLists
  PROVE  index' = index /\ end_mark' = end_mark
<1> USE DEF IInv
<1>1. /\ bpc = "create"
      /\ index' = [t \in Tokens |-> IF t \in new_tokens THEN {} ELSE index[t]]
      /\ end_mark' = [t \in Tokens |-> IF t \in new_tokens THEN NULL ELSE end_mark[t]]
  BY Zenon DEF CreateLists, CreateWhen
<1>2. \A t \in Tokens : t \in new_tokens => index[t] = {} /\ end_mark[t] = NULL
  BY <1>1, Zenon DEF Building, Below
<1>3. index \in [Tokens -> SUBSET Ids] /\ end_mark \in [Tokens -> Ids \union {Front, NULL}]
  BY Zenon DEF ListsType
<1>4. index' = index
  BY <1>1, <1>2, <1>3, Zenon
<1>5. end_mark' = end_mark
  BY <1>1, <1>2, <1>3, Zenon
<1> QED BY <1>4, <1>5, Zenon

\* CreateLists: every keyword of the story has a list now.
LEMMA CreateListsInv ==
  ASSUME IInv, CreateLists
  PROVE  IInv'
<1> USE DEF IInv
<1>1. /\ bpc = "create" /\ cpc \notin {"mark", "clear", "erase"}
      /\ tokens' = tokens \union new_tokens
      /\ keywords' = Keywords[story] /\ bpc' = "push" /\ new_tokens' = {}
      /\ UNCHANGED <<clock, doc_pool, counter, att, total, timestamp, story, local_id,
                     stamp, cpc, target_time, todo, tok, doc_to_delete, collected, leaked,
                     orphaned>>
  BY Zenon DEF CreateLists, CreateWhen, LockFree, pool, docs, clean, history
<1>2. UNCHANGED <<index, end_mark>>
  BY CreateListsKeeps, Zenon
<1>3. /\ story \in Stories /\ Keywords[story] \subseteq Tokens
      /\ Keywords[story] \subseteq tokens'
      /\ new_tokens \subseteq Tokens /\ new_tokens \intersect tokens = {}
  BY <1>1, ConstantsAssumption, Zenon DEF Building, BuildType
<1>4. ListsType'
  BY <1>1, <1>2, <1>3, Zenon DEF ListsType
<1>5. BuildType'
  BY <1>1, <1>3, Zenon DEF BuildType
<1>6. Room'
  BY <1>1, Zenon DEF Room, Accepted
<1>7. Building'
  BY <1>1, <1>3, Zenon DEF Building, Pushing, Linking
<1>8. Below' /\ TimesOrdered'
  BY <1>1, <1>2, Zenon DEF Below, Linking, TimesOrdered
<1>9. Marks'
  BY <1>1, <1>2, Zenon DEF Marks
<1>10. Held'
  <2>1. local_id \in Ids /\ local_id < counter
    BY <1>1 DEF Building, Pushing, DocsType
  <2>2. local_id \in DOMAIN att
    BY <1>1, <2>1, Zenon DEF Held, Attached
  <2> QED BY <1>1, <1>2, <2>2, Zenon DEF Held, TotalExact
<1>11. LastListed'
  <2>1. local_id \in DOMAIN att => att[local_id] = story
    BY <1>1, Zenon DEF LastListed, Pushing
  <2>2. local_id = counter - 1
    BY <1>1, Zenon DEF Building, Pushing
  <2>3. \A last \in DOMAIN att : last = counter - 1 => Keywords[att[last]] = keywords'
    BY <1>1, <2>1, <2>2, Zenon
  <2> QED BY <1>1, <2>1, <2>3, Zenon DEF LastListed, Linking
<1>12. TimeType' /\ DocsType' /\ CleanType'
  BY <1>1, <1>2, Frames, Zenon
<1>13. Kept' /\ Attached'
  BY <1>1, <1>2, Frames, Zenon
<1> QED BY <1>4, <1>5, <1>6, <1>7, <1>8, <1>9, <1>10, <1>11, <1>12, <1>13, Zenon

\* The time of the next posting: not before that of any in the lists.
LEMMA StampPostingInv ==
  ASSUME IInv, StampPosting
  PROVE  IInv'
<1> USE DEF IInv
<1>1. /\ bpc = "push" /\ stamp' = clock /\ bpc' = "link"
      /\ UNCHANGED <<clock, doc_pool, counter, att, total, tokens, index, timestamp,
                     end_mark, story, local_id, keywords, new_tokens, cpc, target_time,
                     todo, tok, doc_to_delete, collected, leaked, orphaned>>
  BY Zenon DEF StampPosting, pool, docs, lists, clean, history
<1>2. BuildType'
  BY <1>1, Zenon DEF BuildType, TimeType
<1>3. Room'
  BY <1>1, Zenon DEF Room, Accepted
<1>4. Building' /\ Below' /\ Held'
  BY <1>1, Zenon DEF Building, Pushing, Linking, Below, Held, TotalExact
<1>5. TimesOrdered'
  <2>1. clock <= clock
    BY DEF TimeType
  <2> QED BY <1>1, <2>1, Zenon DEF TimesOrdered
<1>6. LastListed'
  <2>1. cpc' = "erase" => Doomed(tok)' \subseteq collected' \union leaked'
    BY <1>1, Zenon DEF LastListed, Doomed, After
  <2> QED BY <1>1, <2>1, Zenon DEF LastListed, Pushing, Linking
<1>7. TimeType' /\ DocsType' /\ ListsType' /\ CleanType'
  BY <1>1, Frames, Zenon
<1>8. Marks' /\ Kept' /\ Attached'
  BY <1>1, Frames, Zenon
<1> QED BY <1>2, <1>3, <1>4, <1>5, <1>6, <1>7, <1>8, Zenon

\* What a push does to the lists: the number is larger than all it finds there.
LEMMA PushFacts ==
  ASSUME IInv, NEW t \in Tokens, AddPosting(t)
  PROVE  /\ bpc = "link" /\ t \in keywords /\ t \in tokens
         /\ local_id \in Ids /\ local_id = counter - 1 /\ local_id < counter
         /\ \A i \in index[t] : i \in Ids /\ i < local_id
         /\ index' \in [Tokens -> SUBSET Ids]
         /\ index'[t] = index[t] \union {local_id}
         /\ \A u \in Tokens \ {t} : index'[u] = index[u]
         /\ timestamp' \in [Tokens -> [Ids -> 0 .. MaxTime]]
         /\ timestamp'[t][local_id] = stamp
         /\ \A i \in Ids \ {local_id} : timestamp'[t][i] = timestamp[t][i]
         /\ \A u \in Tokens \ {t} : timestamp'[u] = timestamp[u]
<1> USE DEF IInv
<1>1. /\ bpc = "link" /\ t \in keywords
      /\ index' = [index EXCEPT ![t] = @ \union {local_id}]
      /\ timestamp' = [timestamp EXCEPT ![t][local_id] = stamp]
  BY Zenon DEF AddPosting
<1>2. local_id \in Ids /\ local_id = counter - 1 /\ t \in tokens
  BY <1>1, Zenon DEF Building, Pushing, Linking
<1>3. local_id < counter
  BY <1>2 DEF DocsType
<1>4. \A i \in index[t] : i \in Ids /\ i < local_id
  BY <1>1, Zenon DEF Below, Linking, ListsType
<1>5. /\ index \in [Tokens -> SUBSET Ids]
      /\ timestamp \in [Tokens -> [Ids -> 0 .. MaxTime]]
      /\ stamp \in 0 .. MaxTime
  BY Zenon DEF ListsType, BuildType
<1>6. /\ index' \in [Tokens -> SUBSET Ids]
      /\ index'[t] = index[t] \union {local_id}
      /\ \A u \in Tokens \ {t} : index'[u] = index[u]
  BY <1>1, <1>2, <1>5, Zenon
<1>7. /\ timestamp' \in [Tokens -> [Ids -> 0 .. MaxTime]]
      /\ timestamp'[t][local_id] = stamp
      /\ \A i \in Ids \ {local_id} : timestamp'[t][i] = timestamp[t][i]
      /\ \A u \in Tokens \ {t} : timestamp'[u] = timestamp[u]
  BY <1>1, <1>2, <1>5, Zenon
<1> QED BY <1>1, <1>2, <1>3, <1>4, <1>6, <1>7, Zenon

\* And to what lies after the marks: the posting itself is, if the list has nothing to
\* keep.
LEMMA PushDooms ==
  ASSUME IInv, NEW t \in Tokens, AddPosting(t)
  PROVE  /\ \A u \in Tokens \ {t} : Doomed(u)' = Doomed(u)
         /\ end_mark[t] = Front => Doomed(t) = index[t] /\ Doomed(t)' = index'[t]
         /\ end_mark[t] # Front => Doomed(t)' = Doomed(t) /\ local_id \notin Doomed(t)
<1>1. end_mark' = end_mark
  BY Zenon DEF AddPosting
<1>2. /\ \A i \in index[t] : i \in Ids /\ i < local_id
      /\ local_id \in Ids /\ index'[t] = index[t] \union {local_id}
      /\ \A u \in Tokens \ {t} : index'[u] = index[u]
  BY PushFacts, Zenon
<1>3. \A u \in Tokens \ {t} : Doomed(u)' = Doomed(u)
  BY <1>1, <1>2, Zenon DEF Doomed, After
<1>4. ASSUME end_mark[t] = Front
      PROVE  Doomed(t) = index[t] /\ Doomed(t)' = index'[t]
  <2>1. Front # NULL
    BY ConstantsAssumption DEF Front
  <2>2. /\ Doomed(t) = {i \in index[t] : end_mark[t] = Front \/ i < end_mark[t]}
        /\ Doomed(t)' = {i \in index'[t] : end_mark[t] = Front \/ i < end_mark[t]}
    BY <1>1, <1>4, <2>1, Zenon DEF Doomed, After
  <2> QED BY <1>4, <2>2, ZenonT(30)
<1>5. ASSUME end_mark[t] # Front
      PROVE  Doomed(t)' = Doomed(t) /\ local_id \notin Doomed(t)
  <2>1. CASE end_mark[t] = NULL
    BY <1>1, <2>1, Zenon DEF Doomed
  <2>2. CASE end_mark[t] # NULL
    <3>1. end_mark[t] \in index[t]
      BY <1>5, <2>2, Zenon DEF IInv, Marks
    <3>2. ~(local_id < end_mark[t])
      BY <1>2, <3>1 DEF Ids
    <3> QED BY <1>1, <1>2, <1>5, <2>2, <3>2, ZenonT(30) DEF Doomed, After
  <2> QED BY <2>1, <2>2, Zenon
<1> QED BY <1>3, <1>4, <1>5, Zenon

\* PostingList::AddPosting: the posting is the youngest of its list; behind a mark on
\* the fake front it is doomed at once, and if the list has been collected, leaked.
LEMMA AddPostingInv ==
  ASSUME IInv, NEW t \in Tokens, AddPosting(t)
  PROVE  IInv'
<1> USE DEF IInv
<1>1. /\ keywords' = keywords \ {t} /\ stamp' = 0 /\ bpc' = "push"
      /\ leaked' = IF cpc = "erase" /\ tok = t /\ end_mark[t] = Front
                   THEN leaked \union {local_id} ELSE leaked
      /\ UNCHANGED <<clock, doc_pool, counter, att, total, tokens, end_mark, story,
                     local_id, new_tokens, cpc, target_time, todo, tok, doc_to_delete,
                     collected, orphaned>>
  BY Zenon DEF AddPosting, pool, docs, clean
<1>2. /\ bpc = "link" /\ t \in keywords /\ t \in tokens
      /\ local_id \in Ids /\ local_id = counter - 1 /\ local_id < counter
      /\ \A i \in index[t] : i \in Ids /\ i < local_id
  BY PushFacts, Zenon
<1>3. /\ index' \in [Tokens -> SUBSET Ids]
      /\ index'[t] = index[t] \union {local_id}
      /\ \A u \in Tokens \ {t} : index'[u] = index[u]
  BY PushFacts, Zenon
<1>4. /\ timestamp' \in [Tokens -> [Ids -> 0 .. MaxTime]]
      /\ timestamp'[t][local_id] = stamp
      /\ \A i \in Ids \ {local_id} : timestamp'[t][i] = timestamp[t][i]
      /\ \A u \in Tokens \ {t} : timestamp'[u] = timestamp[u]
  BY PushFacts, Zenon
<1>5. \A i \in index[t] : i \in Ids /\ i # local_id /\ timestamp'[t][i] = timestamp[t][i]
  BY <1>2, <1>4 DEF Ids
<1>6. leaked \subseteq leaked' /\ leaked' \subseteq leaked \union {local_id}
  BY <1>1, Zenon
<1>7. ListsType'
  BY <1>1, <1>3, <1>4, Zenon DEF ListsType
<1>8. BuildType'
  BY <1>1, ConstantsAssumption DEF BuildType
<1>9. CleanType'
  BY <1>1, <1>2, <1>6, Zenon DEF CleanType
<1>10. Building'
  BY <1>1, <1>2, Zenon DEF Building, Pushing, Linking
<1>11. Below'
  <2>1. \A u \in Tokens : \A i \in index'[u] :
          /\ i < counter
          /\ u \in keywords' => i < local_id
    BY <1>1, <1>2, <1>3, Zenon DEF Below, Linking
  <2>2. \A u \in Tokens \ tokens : index'[u] = {} /\ end_mark[u] = NULL
    BY <1>2, <1>3, Zenon DEF Below
  <2>3. /\ bpc' = "push" /\ counter' = counter /\ local_id' = local_id
        /\ tokens' = tokens /\ end_mark' = end_mark
    BY <1>1, <1>2, Zenon
  <2> QED BY <2>1, <2>2, <2>3, Zenon DEF Below, Linking
<1>12. TimesOrdered'
  <2>1. SUFFICES ASSUME NEW u \in Tokens, NEW i \in index'[u]
                 PROVE  /\ timestamp'[u][i] <= clock
                        /\ \A j \in index'[u] : i < j => timestamp'[u][i] <= timestamp'[u][j]
    BY <1>1, Zenon DEF TimesOrdered
  <2>2. CASE u # t
    BY <1>3, <1>4, <2>2, Zenon DEF TimesOrdered
  <2>3. CASE u = t /\ i \in index[t]
    BY <1>2, <1>3, <1>4, <1>5, <2>3, Zenon DEF TimesOrdered
  <2>4. CASE u = t /\ i = local_id
    <3>1. \A j \in index'[t] : ~(i < j)
      BY <1>2, <1>3, <2>4 DEF Ids
    <3>2. stamp <= clock
      BY <1>2, Zenon DEF TimesOrdered
    <3> QED BY <1>4, <2>4, <3>1, <3>2, Zenon
  <2> QED BY <1>3, <2>2, <2>3, <2>4, Zenon
<1>13. Marks'
  <2>1. \A u \in Tokens : index[u] \subseteq index'[u]
    BY <1>3, Zenon
  <2> QED BY <1>1, <2>1, Zenon DEF Marks
<1>14. /\ \A u \in Tokens \ {t} : Doomed(u)' = Doomed(u)
       /\ end_mark[t] = Front => Doomed(t) = index[t] /\ Doomed(t)' = index'[t]
       /\ end_mark[t] # Front => Doomed(t)' = Doomed(t) /\ local_id \notin Doomed(t)
  BY PushDooms, Zenon
<1>15. Kept'
  <2>1. SUFFICES ASSUME NEW u \in Tokens, end_mark[u] # NULL,
                        NEW i \in index'[u], i \notin Doomed(u)'
                 PROVE  timestamp'[u][i] >= target_time
    BY <1>1, Zenon DEF Kept
  <2>2. CASE u # t
    <3>1. index'[u] = index[u] /\ timestamp'[u] = timestamp[u] /\ Doomed(u)' = Doomed(u)
      BY <1>3, <1>4, <1>14, <2>2, Zenon
    <3> QED BY <2>1, <3>1, Zenon DEF Kept
  <2>3. CASE u = t
    <3>1. end_mark[t] # Front /\ i \notin Doomed(t)
      BY <1>14, <2>1, <2>3, Zenon
    <3>2. CASE i \in index[t]
      BY <1>5, <2>1, <2>3, <3>1, <3>2, Zenon DEF Kept
    <3>3. CASE i = local_id
      <4> DEFINE m == end_mark[t]
      <4>1. m \in index[t] /\ m \in Int
        BY <2>1, <2>3, <3>1 DEF Marks, ListsType, Ids
      <4>2. m \notin Doomed(t)
        <5>1. ~(m < m)
          BY <4>1
        <5> QED BY <2>1, <2>3, <3>1, <5>1, Zenon DEF Doomed, After
      <4>3. timestamp[t][m] >= target_time
        BY <2>1, <2>3, <4>1, <4>2, Zenon DEF Kept
      <4>4. timestamp[t][m] <= stamp
        BY <1>2, <4>1, Zenon DEF TimesOrdered
      <4>5. timestamp[t][m] \in Int /\ stamp \in Int /\ target_time \in Int
        <5>1. m \in Ids /\ timestamp[t] \in [Ids -> 0 .. MaxTime]
          BY <4>1, Zenon DEF ListsType
        <5>2. timestamp[t][m] \in 0 .. MaxTime /\ stamp \in 0 .. MaxTime
          BY <5>1, Zenon DEF BuildType
        <5> QED BY <5>2 DEF TimeType
      <4>6. stamp >= target_time
        BY <4>3, <4>4, <4>5
      <4> QED BY <1>4, <2>3, <3>3, <4>6, Zenon
    <3> QED BY <1>3, <2>1, <2>3, <3>2, <3>3, Zenon
  <2> QED BY <2>2, <2>3, Zenon
<1>16. Held'
  <2>1. ~orphaned => \A u \in Tokens : index'[u] \subseteq DOMAIN att
    BY <1>2, <1>3, Zenon DEF Held
  <2>2. ~orphaned => local_id \in DOMAIN att /\ doc_to_delete \subseteq DOMAIN att
    BY <1>2, Zenon DEF Held
  <2> QED BY <1>1, <2>1, <2>2, Zenon DEF Held, TotalExact
<1>17. Attached'
  <2>1. \A i \in DOMAIN att \union collected \union leaked' : i < counter
    BY <1>2, <1>6, Zenon DEF Attached
  <2> QED BY <1>1, <2>1, Zenon DEF Attached
<1>18. LastListed'
  <2>1. ASSUME cpc = "erase" PROVE Doomed(tok)' \subseteq collected \union leaked'
    <3>1. Doomed(tok) \subseteq collected \union leaked /\ tok \in Tokens
      BY <2>1, Zenon DEF LastListed, Marks, CleanType
    <3>2. CASE tok # t
      BY <1>1, <1>6, <1>14, <3>1, <3>2, Zenon
    <3>3. CASE tok = t /\ end_mark[t] = Front
      BY <1>1, <1>3, <1>14, <2>1, <3>1, <3>3, Zenon
    <3>4. CASE tok = t /\ end_mark[t] # Front
      BY <1>1, <1>6, <1>14, <3>1, <3>4, Zenon
    <3> QED BY <3>2, <3>3, <3>4, Zenon
  <2>2. ASSUME NEW last \in DOMAIN att \ (collected \union leaked'), last = counter - 1,
               NEW u \in Keywords[att[last]]
        PROVE  u \in keywords' \/ last \in index'[u]
    <3>1. u \in Tokens
      BY ConstantsAssumption, Zenon DEF DocsType
    <3>2. u \in keywords \/ last \in index[u]
      BY <1>2, <1>6, <2>2, Zenon DEF LastListed, Linking
    <3> QED BY <1>1, <1>2, <1>3, <2>2, <3>1, <3>2
  <2>3. bpc \in Pushing /\ local_id \in DOMAIN att => att[local_id] = story
    BY Zenon DEF LastListed
  <2> QED BY <1>1, <1>2, <2>1, <2>2, <2>3, Zenon DEF LastListed, Pushing, Linking
<1>19. TimeType' /\ DocsType'
  BY <1>1, Frames, Zenon
<1>20. Room'
  BY <1>1, <1>2, Zenon DEF Room, Accepted
<1> QED BY <1>7, <1>8, <1>9, <1>10, <1>11, <1>12, <1>13, <1>15, <1>16, <1>17, <1>18, <1>19, <1>20,
           ZenonT(30)

\* The loop over the keywords is over.
LEMMA StoryDoneInv ==
  ASSUME IInv, StoryDone
  PROVE  IInv'
<1> USE DEF IInv
<1>1. /\ bpc = "push" /\ keywords = {} /\ bpc' = "idle" /\ story' = NULL /\ local_id' = 0
      /\ UNCHANGED <<clock, doc_pool, counter, att, total, tokens, index, timestamp,
                     end_mark, keywords, stamp, new_tokens, cpc, target_time, todo, tok,
                     doc_to_delete, collected, leaked, orphaned>>
  BY Zenon DEF StoryDone, pool, docs, lists, clean, history
<1>2. BuildType'
  BY <1>1, Zenon DEF BuildType
<1>3. Room'
  BY <1>1, Zenon DEF Room, Accepted
<1>4. Building'
  BY <1>1, Zenon DEF Building, Pushing, Linking
<1>5. Below' /\ TimesOrdered' /\ Held'
  BY <1>1, Zenon DEF Below, Linking, TimesOrdered, Held, TotalExact
<1>6. LastListed'
  <2>1. cpc' = "erase" => Doomed(tok)' \subseteq collected' \union leaked'
    BY <1>1, Zenon DEF LastListed, Doomed, After
  <2> QED BY <1>1, <2>1, Zenon DEF LastListed, Pushing, Linking
<1>7. TimeType' /\ DocsType' /\ ListsType' /\ CleanType'
  BY <1>1, Frames, Zenon
<1>8. Marks' /\ Kept' /\ Attached'
  BY <1>1, Frames, Zenon
<1> QED BY <1>2, <1>3, <1>4, <1>5, <1>6, <1>7, <1>8, Zenon

-----------------------------------------------------------------------------
(* CleanOldStoryThread.                                                    *)

\* The marking round begins: no list has a mark.
LEMMA MarkBeginInv ==
  ASSUME IInv, MarkBegin
  PROVE  IInv'
<1> USE DEF IInv
<1>1. /\ cpc = "sleep" /\ target_time' = clock - Life /\ todo' = tokens /\ cpc' = "mark"
      /\ UNCHANGED <<clock, doc_pool, counter, att, total, tokens, index, timestamp,
                     end_mark, bpc, story, local_id, keywords, stamp, new_tokens, tok,
                     doc_to_delete, collected, leaked, orphaned>>
  BY Zenon DEF MarkBegin, pool, docs, lists, build, history
<1>2. clock \in Int /\ Life \in Nat
  BY ConstantsAssumption DEF TimeType
<1>3. \A t \in Tokens : end_mark[t] = NULL
  BY <1>1, Zenon DEF Marks
<1>4. tokens \subseteq Tokens
  BY Zenon DEF ListsType
<1>5. target_time' \in Int
  BY <1>1, <1>2
<1>6. TimeType' /\ CleanType'
  BY <1>1, <1>4, <1>5, Zenon DEF TimeType, CleanType
<1>7. Marks'
  BY <1>1, <1>3, <1>4, Zenon DEF Marks
<1>8. Kept'
  BY <1>1, <1>3, Zenon DEF Kept
<1>9. LastListed'
  BY <1>1, Zenon DEF LastListed
<1>10. DocsType' /\ ListsType' /\ BuildType' /\ Room' /\ Building' /\ Below'
  BY <1>1, Frames, Zenon
<1>11. TimesOrdered' /\ Attached' /\ Held'
  BY <1>1, Frames, Zenon
<1> QED BY <1>6, <1>7, <1>8, <1>9, <1>10, <1>11, Zenon

\* The scan stops where all that follows is too old: the list is in the order of its
\* timestamps.
LEMMA MarkFacts ==
  ASSUME IInv, NEW t \in Tokens, MarkList(t)
  PROVE  /\ end_mark'[t] \in {Front} \union index[t] /\ end_mark'[t] # NULL
         /\ \A u \in Tokens \ {t} : end_mark'[u] = end_mark[u]
         /\ end_mark' \in [Tokens -> Ids \union {Front, NULL}]
         /\ \A i \in Doomed(t)' : i \in index[t] /\ timestamp[t][i] < target_time
         /\ \A i \in index[t] \ Doomed(t)' : timestamp[t][i] >= target_time
<1> USE DEF IInv
<1> DEFINE m == LastOf(Passed(t))
<1>1. /\ cpc = "mark" /\ t \in todo
      /\ end_mark' = [end_mark EXCEPT ![t] = m] /\ todo' = todo \ {t}
      /\ UNCHANGED <<clock, doc_pool, counter, att, total, tokens, index, timestamp,
                     bpc, story, local_id, keywords, stamp, new_tokens, cpc, target_time, tok,
                     doc_to_delete, collected, leaked, orphaned>>
  BY Zenon DEF MarkList, pool, docs, lists, build, history
<1>2. /\ index[t] \subseteq Ids /\ end_mark \in [Tokens -> Ids \union {Front, NULL}]
      /\ \A i \in Ids : timestamp[t][i] \in Int
      /\ target_time \in Int /\ NULL \notin Int /\ t \in tokens
  <2>1. index[t] \subseteq Ids /\ timestamp[t] \in [Ids -> 0 .. MaxTime]
    BY Zenon DEF ListsType
  <2>2. end_mark \in [Tokens -> Ids \union {Front, NULL}] /\ target_time \in Int
    BY Zenon DEF ListsType, TimeType
  <2>3. NULL \notin Int
    BY ConstantsAssumption, Zenon
  <2>4. t \in tokens
    BY <1>1, Zenon DEF Marks
  <2>5. \A i \in Ids : timestamp[t][i] \in Int
    BY <2>1
  <2> QED BY <2>1, <2>2, <2>3, <2>4, <2>5, Zenon
<1>3. Passed(t) \in SUBSET Nat
  BY <1>2 DEF Passed, Ids
<1>4. /\ Passed(t) = {} => m = Front
      /\ Passed(t) # {} => m \in Passed(t) /\ \A y \in Passed(t) : m <= y
  BY <1>3, LastOfFacts, Zenon
<1>5. Passed(t) \subseteq index[t]
  BY Zenon DEF Passed
<1> HIDE DEF m
<1>6. m \in {Front} \union index[t] /\ m # NULL
  BY <1>2, <1>4, <1>5 DEF Ids, Front
<1>7. end_mark'[t] = m /\ \A u \in Tokens \ {t} : end_mark'[u] = end_mark[u]
  BY <1>1, <1>2, Zenon
<1>8. end_mark' \in [Tokens -> Ids \union {Front, NULL}]
  BY <1>1, <1>2, <1>6, Zenon
<1>9. ASSUME NEW i \in index[t], m = Front \/ i < m
       PROVE  timestamp[t][i] < target_time
  <2>1. i \notin Passed(t)
    <3>1. i \in Ids /\ (Passed(t) # {} => m \in Ids)
      BY <1>2, <1>4, <1>5, Zenon
    <3>2. CASE Passed(t) = {}
      BY <3>2, Zenon
    <3>3. CASE Passed(t) # {}
      BY <1>4, <1>9, <3>1, <3>3 DEF Ids, Front
    <3> QED BY <3>2, <3>3, Zenon
  <2>2. PICK j \in index[t] : j >= i /\ ~(timestamp[t][j] >= target_time)
    BY <2>1, Zenon DEF Passed, Young
  <2>3. timestamp[t][i] <= timestamp[t][j]
    <3>1. i \in Int /\ j \in Int
      BY <1>2 DEF Ids
    <3>2. CASE i = j
      BY <1>2, <3>2
    <3>3. CASE i < j
      BY <3>3, Zenon DEF TimesOrdered
    <3> QED BY <2>2, <3>1, <3>2, <3>3
  <2>4. timestamp[t][i] \in Int /\ timestamp[t][j] \in Int
    BY <1>2, Zenon
  <2> QED BY <1>2, <2>2, <2>3, <2>4
<1>10. ASSUME NEW i \in index[t], ~(m = Front \/ i < m)
       PROVE  timestamp[t][i] >= target_time
  <2>1. m \in Passed(t)
    BY <1>4, <1>10, Zenon
  <2>2. i >= m
    BY <1>2, <1>5, <1>10, <2>1 DEF Ids
  <2> QED BY <2>1, <2>2, Zenon DEF Passed, Young
<1>11. Doomed(t)' = {i \in index[t] : m = Front \/ i < m}
  BY <1>1, <1>6, <1>7, Zenon DEF Doomed, After
<1> QED BY <1>6, <1>7, <1>8, <1>9, <1>10, <1>11, Zenon

\* One list gets its mark.
LEMMA MarkListInv ==
  ASSUME IInv, NEW t \in Tokens, MarkList(t)
  PROVE  IInv'
<1> USE DEF IInv
<1>1. /\ cpc = "mark" /\ t \in todo /\ todo' = todo \ {t}
      /\ UNCHANGED <<clock, doc_pool, counter, att, total, tokens, index, timestamp,
                     bpc, story, local_id, keywords, stamp, new_tokens, cpc, target_time,
                     tok, doc_to_delete, collected, leaked, orphaned>>
  BY Zenon DEF MarkList, pool, docs, lists, build, history
<1>2. /\ end_mark'[t] \in {Front} \union index[t] /\ end_mark'[t] # NULL
      /\ \A u \in Tokens \ {t} : end_mark'[u] = end_mark[u]
      /\ end_mark' \in [Tokens -> Ids \union {Front, NULL}]
  BY MarkFacts, Zenon
<1>3. ListsType'
  BY <1>1, <1>2, Zenon DEF ListsType
<1>4. CleanType'
  BY <1>1, Zenon DEF CleanType
<1>5. Below'
  <2>1. t \in tokens
    BY <1>1, Zenon DEF Marks
  <2> QED BY <1>1, <1>2, <2>1, Zenon DEF Below
<1>6. Marks'
  <2>1. \A u \in Tokens : end_mark'[u] \in {NULL, Front} \union index[u]
    BY <1>2, Zenon DEF Marks
  <2>2. \A u \in todo' : end_mark'[u] = NULL
    BY <1>1, <1>2, Zenon DEF Marks, CleanType
  <2> QED BY <1>1, <2>1, <2>2, Zenon DEF Marks
<1>7. Kept'
  <2>1. \A i \in index[t] \ Doomed(t)' : timestamp[t][i] >= target_time
    BY MarkFacts, Zenon
  <2>2. \A u \in Tokens \ {t} : Doomed(u)' = Doomed(u)
    BY <1>1, <1>2, Zenon DEF Doomed, After
  <2>3. ASSUME NEW u \in Tokens, end_mark'[u] # NULL, NEW i \in index[u], i \notin Doomed(u)'
        PROVE  timestamp[u][i] >= target_time
    <3>1. CASE u = t
      BY <2>1, <2>3, <3>1, Zenon
    <3>2. CASE u # t
      BY <1>2, <2>2, <2>3, <3>2, Zenon DEF Kept
    <3> QED BY <3>1, <3>2, Zenon
  <2> QED BY <1>1, <2>3, Zenon DEF Kept
<1>8. LastListed'
  BY <1>1, Zenon DEF LastListed
<1>9. TimeType' /\ DocsType' /\ BuildType' /\ Room' /\ Building'
  BY <1>1, Frames, Zenon
<1>10. TimesOrdered' /\ Attached' /\ Held'
  BY <1>1, Frames, Zenon
<1> QED BY <1>3, <1>4, <1>5, <1>6, <1>7, <1>8, <1>9, <1>10, Zenon

\* All lists are marked, or the clearing round begins, or ends: only the place of the
\* cleaner and its list of tokens change.
LEMMA PhaseInv ==
  ASSUME IInv, MarkDone \/ ClearBegin \/ ClearDone
  PROVE  IInv'
<1> USE DEF IInv
<1>1. UNCHANGED <<clock, doc_pool, counter, att, total, tokens, index, timestamp,
                  end_mark, bpc, story, local_id, keywords, stamp, new_tokens, target_time,
                  tok, doc_to_delete, collected, leaked, orphaned>>
  BY Zenon DEF MarkDone, ClearBegin, ClearDone, pool, docs, lists, build, history
<1>2. \/ (cpc = "mark" /\ cpc' = "grace" /\ todo' = todo)
      \/ (cpc = "grace" /\ cpc' = "clear" /\ todo' = tokens)
      \/ (cpc = "clear" /\ cpc' = "delete" /\ todo = {} /\ todo' = todo)
  BY Zenon DEF MarkDone, ClearBegin, ClearDone
<1>3. tokens \subseteq Tokens
  BY Zenon DEF ListsType
<1>4. CleanType'
  BY <1>1, <1>2, <1>3, Zenon DEF CleanType
<1>5. Marks'
  <2>1. CASE cpc = "mark" /\ cpc' = "grace" /\ todo' = todo
    BY <1>1, <2>1, Zenon DEF Marks
  <2>2. CASE cpc = "grace" /\ cpc' = "clear" /\ todo' = tokens
    BY <1>1, <2>2, Zenon DEF Marks, Below
  <2>3. CASE cpc = "clear" /\ cpc' = "delete" /\ todo = {} /\ todo' = todo
    BY <1>1, <2>3, Zenon DEF Marks
  <2> QED BY <1>2, <2>1, <2>2, <2>3, Zenon
<1>6. LastListed'
  BY <1>1, <1>2, Zenon DEF LastListed
<1>7. TimeType' /\ DocsType' /\ ListsType' /\ BuildType' /\ Room' /\ Building' /\ Below'
  BY <1>1, Frames, Zenon
<1>8. TimesOrdered' /\ Kept' /\ Attached' /\ Held'
  BY <1>1, Frames, Zenon
<1> QED BY <1>4, <1>5, <1>6, <1>7, <1>8, Zenon

\* What lies after a mark was given out as a number.
LEMMA DoomedFacts ==
  ASSUME IInv, NEW t \in Tokens
  PROVE  Doomed(t) \subseteq index[t] /\ \A i \in Doomed(t) : i \in Ids /\ i < counter
<1>1. Doomed(t) \subseteq index[t]
  BY Zenon DEF Doomed, After
<1> QED BY <1>1, Zenon DEF IInv, Below, ListsType

\* The ids after the mark are collected.
LEMMA CollectInv ==
  ASSUME IInv, NEW t \in Tokens, Collect(t)
  PROVE  IInv'
<1> USE DEF IInv
<1>1. /\ cpc = "clear" /\ t \in todo
      /\ doc_to_delete' = doc_to_delete \union Doomed(t)
      /\ collected' = collected \union Doomed(t)
      /\ tok' = t /\ cpc' = "erase"
      /\ UNCHANGED <<clock, doc_pool, counter, att, total, tokens, index, timestamp,
                     end_mark, bpc, story, local_id, keywords, stamp, new_tokens, target_time,
                     todo, leaked, orphaned>>
  BY Zenon DEF Collect, CollectAs, pool, docs, lists, build
<1>2. Doomed(t) \subseteq Ids /\ \A i \in Doomed(t) : i < counter
  BY DoomedFacts, Zenon
<1>3. CleanType'
  BY <1>1, <1>2, Zenon DEF CleanType
<1>4. Marks'
  BY <1>1, Zenon DEF Marks
<1>5. Attached'
  BY <1>1, <1>2, Zenon DEF Attached
<1>6. Held'
  <2>1. Doomed(t) \subseteq index[t] /\ index[t] \subseteq Ids /\ local_id \in Int
    BY DoomedFacts DEF ListsType, BuildType, Ids
  <2>2. bpc \in {"detect", "create"} => local_id \notin Doomed(t)
    <3>1. bpc \in {"detect", "create"} => \A i \in index[t] : i < local_id
      BY Zenon DEF Below
    <3>2. ~(local_id < local_id)
      BY <2>1
    <3> QED BY <2>1, <3>1, <3>2, Zenon
  <2> QED BY <1>1, <2>1, <2>2, Zenon DEF Held, TotalExact
<1>7. LastListed'
  <2>1. Doomed(tok)' = Doomed(t)
    BY <1>1, Zenon DEF Doomed, After
  <2> QED BY <1>1, <2>1, Zenon DEF LastListed
<1>8. TimeType' /\ DocsType' /\ ListsType' /\ BuildType' /\ Room' /\ Building' /\ Below'
  BY <1>1, Frames, Zenon
<1>9. TimesOrdered' /\ Kept'
  BY <1>1, Frames, Zenon
<1> QED BY <1>3, <1>4, <1>5, <1>6, <1>7, <1>8, <1>9, Zenon

\* EraseAfter and SetEndMark(NULL): all that is erased was collected or has leaked.
LEMMA EraseAfterInv ==
  ASSUME IInv, EraseAfter
  PROVE  IInv'
<1> USE DEF IInv
<1>1. /\ cpc = "erase"
      /\ index' = [index EXCEPT ![tok] = @ \ Doomed(tok)]
      /\ end_mark' = [end_mark EXCEPT ![tok] = NULL]
      /\ todo' = todo \ {tok} /\ cpc' = "clear" /\ tok' = NULL
      /\ UNCHANGED <<clock, doc_pool, counter, att, total, tokens, timestamp,
                     bpc, story, local_id, keywords, stamp, new_tokens, target_time,
                     doc_to_delete, collected, leaked, orphaned>>
  BY Zenon DEF EraseAfter, pool, docs, build, history
<1>2. tok \in todo /\ tok \in Tokens
  BY <1>1, Zenon DEF Marks, CleanType
<1>3. /\ index \in [Tokens -> SUBSET Ids]
      /\ end_mark \in [Tokens -> Ids \union {Front, NULL}]
  BY Zenon DEF ListsType
<1>4. /\ index' \in [Tokens -> SUBSET Ids]
      /\ index'[tok] = index[tok] \ Doomed(tok)
      /\ \A u \in Tokens \ {tok} : index'[u] = index[u]
  BY <1>1, <1>2, <1>3, Zenon
<1>5. /\ end_mark' \in [Tokens -> Ids \union {Front, NULL}]
      /\ end_mark'[tok] = NULL
      /\ \A u \in Tokens \ {tok} : end_mark'[u] = end_mark[u]
  BY <1>1, <1>2, <1>3, Zenon
<1>6. \A u \in Tokens : index'[u] \subseteq index[u]
  BY <1>4, Zenon
<1>7. ListsType'
  BY <1>1, <1>4, <1>5, Zenon DEF ListsType
<1>8. CleanType'
  BY <1>1, Zenon DEF CleanType
<1>9. Below'
  <2>1. \A u \in Tokens \ tokens : index'[u] = {} /\ end_mark'[u] = NULL
    BY <1>2, <1>5, <1>6, Zenon DEF Below
  <2>2. \A u \in Tokens : \A i \in index'[u] :
          /\ i < counter
          /\ bpc \in {"detect", "create"} => i < local_id
          /\ bpc \in Linking /\ u \in keywords => i < local_id
    BY <1>6, Zenon DEF Below
  <2> QED BY <1>1, <2>1, <2>2, Zenon DEF Below
<1>10. TimesOrdered'
  BY <1>1, <1>6, Zenon DEF TimesOrdered
<1>11. Marks'
  <2>1. \A u \in Tokens : end_mark'[u] \in {NULL, Front} \union index'[u]
    BY <1>4, <1>5, Zenon DEF Marks
  <2>2. \A u \in Tokens \ todo' : end_mark'[u] = NULL
    BY <1>1, <1>5, ZenonT(30) DEF Marks
  <2> QED BY <1>1, <2>1, <2>2, Zenon DEF Marks
<1>12. Kept'
  <2>1. \A u \in Tokens : end_mark'[u] # NULL =>
          index'[u] = index[u] /\ end_mark'[u] = end_mark[u]
    BY <1>4, <1>5, Zenon
  <2>2. \A u \in Tokens : end_mark'[u] # NULL => Doomed(u)' = Doomed(u)
    BY <2>1, Zenon DEF Doomed, After
  <2> QED BY <1>1, <2>1, <2>2, Zenon DEF Kept
<1>13. LastListed'
  <2>1. Doomed(tok) \subseteq collected \union leaked
    BY <1>1, Zenon DEF LastListed
  <2>2. ASSUME NEW last \in DOMAIN att \ (collected \union leaked), NEW u \in Tokens,
               last \in index[u]
        PROVE  last \in index'[u]
    BY <1>4, <2>1, <2>2, Zenon
  <2>3. \A last \in DOMAIN att : Keywords[att[last]] \subseteq Tokens
    BY ConstantsAssumption, Zenon DEF DocsType
  <2>4. ASSUME NEW last \in DOMAIN att \ (collected \union leaked), last = counter - 1,
               NEW u \in Keywords[att[last]]
        PROVE  \/ bpc \in {"detect", "create"}
               \/ (bpc \in Linking /\ u \in keywords)
               \/ last \in index'[u]
    BY <2>2, <2>3, <2>4, Zenon DEF LastListed
  <2>5. bpc \in Pushing /\ local_id \in DOMAIN att => att[local_id] = story
    BY Zenon DEF LastListed
  <2> QED BY <1>1, <2>4, <2>5, Zenon DEF LastListed
<1>14. Held'
  BY <1>1, <1>6, Zenon DEF Held, TotalExact
<1>15. TimeType' /\ DocsType' /\ BuildType' /\ Room' /\ Building' /\ Attached'
  BY <1>1, Frames, Zenon
<1> QED BY <1>7, <1>8, <1>9, <1>10, <1>11, <1>12, <1>13, <1>14, <1>15, ZenonT(30)

\* The attachments are erased; the counter follows, if each id had one, and else falls
\* behind.
LEMMA DeleteAttachmentsInv ==
  ASSUME IInv, DeleteAttachments
  PROVE  IInv'
<1> USE DEF IInv
<1> DEFINE D == DOMAIN att
<1>1. /\ cpc = "delete" /\ att' = [i \in D \ doc_to_delete |-> att[i]]
      /\ total' = total - Cardinality(doc_to_delete)
      /\ orphaned' = (orphaned \/ \E i \in doc_to_delete : InUse(i))
      /\ doc_to_delete' = {} /\ cpc' = "sleep" /\ target_time' = 0
      /\ UNCHANGED <<clock, doc_pool, counter, tokens, index, timestamp, end_mark,
                     bpc, story, local_id, keywords, stamp, new_tokens, todo, tok,
                     collected, leaked>>
  BY Zenon DEF DeleteAttachments, DeleteCounting, pool, lists, build
<1>2. DOMAIN att' = D \ doc_to_delete /\ \A i \in D \ doc_to_delete : att'[i] = att[i]
  BY <1>1, Zenon
<1>3. D \subseteq Ids /\ doc_to_delete \subseteq Ids
  BY Zenon DEF DocsType, CleanType
<1>4. IsFiniteSet(D) /\ IsFiniteSet(doc_to_delete)
  <2>1. IsFiniteSet(Ids)
    BY ConstantsAssumption, FS_Interval DEF Ids
  <2> QED BY <1>3, <2>1, FS_Subset, Zenon
<1> HIDE DEF D
<1>5. /\ Cardinality(D) \in Nat /\ Cardinality(doc_to_delete) \in Nat
      /\ Cardinality(D \intersect doc_to_delete) \in Nat
      /\ Cardinality(D \intersect doc_to_delete) <= Cardinality(doc_to_delete)
      /\ Cardinality(D \ doc_to_delete) =
           Cardinality(D) - Cardinality(D \intersect doc_to_delete)
  <2>1. Cardinality(D \ doc_to_delete) =
          Cardinality(D) - Cardinality(D \intersect doc_to_delete)
    BY <1>4, FS_Difference, Zenon
  <2>2. /\ IsFiniteSet(D \intersect doc_to_delete)
        /\ Cardinality(D \intersect doc_to_delete) <= Cardinality(doc_to_delete)
    <3>1. D \intersect doc_to_delete \subseteq doc_to_delete
      BY Zenon
    <3> QED BY <1>4, <3>1, FS_Subset, Zenon
  <2> QED BY <1>4, <2>1, <2>2, FS_CardinalityType, ZenonT(30)
<1>6. TimeType'
  BY <1>1 DEF TimeType
<1>7. DocsType'
  <2>1. total' \in Int
    <3> DEFINE n == Cardinality(doc_to_delete)
    <3>1. total' = total - n /\ n \in Nat /\ total \in Int
      BY <1>1, <1>5, Zenon DEF DocsType
    <3> HIDE DEF n
    <3> QED BY <3>1
  <2>2. DOMAIN att' \subseteq Ids /\ \A i \in DOMAIN att' : att'[i] \in Stories
    BY <1>2, Zenon DEF DocsType, D
  <2>3. orphaned' \in BOOLEAN
    BY <1>1, Zenon
  <2> QED BY <1>1, <2>1, <2>2, <2>3, Zenon DEF DocsType
<1>8. CleanType'
  BY <1>1, Zenon DEF CleanType
<1>9. Marks'
  BY <1>1, Zenon DEF Marks
<1>10. Kept'
  <2>1. \A t \in Tokens : end_mark[t] = NULL
    BY <1>1, Zenon DEF Marks
  <2> QED BY <1>1, <2>1, Zenon DEF Kept
<1>11. Attached'
  <2>1. \A i \in DOMAIN att' \union collected \union leaked : i < counter
    BY <1>2, Zenon DEF Attached, D
  <2>2. \A i \in Ids \ collected : i < counter => i \in DOMAIN att'
    BY <1>2, Zenon DEF Attached, D
  <2> QED BY <1>1, <2>1, <2>2, Zenon DEF Attached
<1>12. Held'
  <2> DEFINE n == Cardinality(doc_to_delete)
             c == Cardinality(D)
             b == Cardinality(D \intersect doc_to_delete)
             e == Cardinality(D \ doc_to_delete)
  <2>1. /\ total' = total - n /\ total <= c /\ (~orphaned => total = c)
        /\ e = c - b /\ b <= n
        /\ total \in Int /\ n \in Nat /\ c \in Nat /\ b \in Nat
    BY <1>1, <1>5, Zenon DEF Held, TotalExact, DocsType, D
  <2>2. ~orphaned => b = n
    <3>1. ~orphaned => D \intersect doc_to_delete = doc_to_delete
      BY Zenon DEF Held, D
    <3> QED BY <3>1, Zenon
  <2>3. total' <= e /\ (~orphaned => total' = e)
    <3> HIDE DEF n, c, b, e
    <3> QED BY <2>1, <2>2
  <2>4. ~orphaned' => ~orphaned /\ \A i \in doc_to_delete : ~InUse(i)
    BY <1>1, Zenon
  <2>5. TotalExact'
    BY <1>2, <2>3, <2>4, Zenon DEF TotalExact
  <2>6. ~orphaned' => \A t \in Tokens : index'[t] \subseteq DOMAIN att'
    BY <1>1, <1>2, <2>4, Zenon DEF Held, InUse, D
  <2>7. ~orphaned' => (keywords' # {} => local_id' \in DOMAIN att')
    BY <1>1, <1>2, <2>4, Zenon DEF Held, InUse, D
  <2> QED BY <1>1, <2>5, <2>6, <2>7, Zenon DEF Held
<1>13. LastListed'
  <2>1. \A i \in DOMAIN att' : i \in DOMAIN att /\ att'[i] = att[i]
    BY <1>2, Zenon DEF D
  <2> QED BY <1>1, <2>1, ZenonT(30) DEF LastListed
<1>14. ListsType' /\ BuildType' /\ Room' /\ Building' /\ Below' /\ TimesOrdered'
  BY <1>1, Frames, Zenon
<1> QED BY <1>6, <1>7, <1>8, <1>9, <1>10, <1>11, <1>12, <1>13, <1>14, ZenonT(30)

-----------------------------------------------------------------------------
(* The theorems.                                                           *)

\* The index starts empty.
LEMMA InitInv == Init => IInv
<1> SUFFICES ASSUME Init PROVE IInv
  BY Zenon
<1> USE DEF Init
<1>1. doc_pool \in Seq(Stories) /\ Len(doc_pool) = 0
  BY EmptySeq, Zenon
<1>2. TimeType /\ CleanType
  BY ConstantsAssumption DEF TimeType, CleanType
<1>3. DocsType
  <2>1. DOMAIN att = {}
    BY Zenon
  <2>2. counter \in 1 .. MaxDocs + 1 /\ total \in Int
    BY ConstantsAssumption
  <2> QED BY <1>1, <2>1, <2>2, Zenon DEF DocsType
<1>4. ListsType
  BY ConstantsAssumption DEF ListsType
<1>5. BuildType
  BY ConstantsAssumption DEF BuildType
<1>6. Room
  BY <1>1, ConstantsAssumption DEF Room, Accepted
<1>7. Building /\ Below
  BY Zenon DEF Building, Below, Pushing, Linking
<1>8. TimesOrdered /\ Marks
  BY Zenon DEF TimesOrdered, Marks
<1>9. Kept
  BY Zenon DEF Kept
<1>10. Attached
  <2>1. \A i \in Ids : ~(i < counter)
    BY ConstantsAssumption DEF Ids
  <2> QED BY <2>1, Zenon DEF Attached
<1>11. Held
  <2>1. TotalExact
    BY FS_EmptySet DEF TotalExact
  <2> QED BY <2>1, Zenon DEF Held
<1>12. LastListed
  BY Zenon DEF LastListed, Pushing
<1> QED BY <1>2, <1>3, <1>4, <1>5, <1>6, <1>7, <1>8, <1>9, <1>10, <1>11, <1>12,
           ZenonT(30) DEF IInv

\* Nothing happens.
LEMMA StutterInv ==
  ASSUME IInv, UNCHANGED vars
  PROVE  IInv'
<1>1. UNCHANGED <<clock, doc_pool, counter, att, total, tokens, index, timestamp,
                  end_mark, bpc, story, local_id, keywords, stamp, new_tokens, cpc,
                  target_time, todo, tok, doc_to_delete, collected, leaked, orphaned>>
  BY Zenon DEF vars, pool, docs, lists, build, clean, history
<1>2. /\ TimeType' /\ DocsType' /\ ListsType' /\ BuildType' /\ CleanType' /\ Room'
      /\ Building'
  BY <1>1, Frames, Zenon
<1>3. Below' /\ TimesOrdered' /\ Marks' /\ Kept' /\ Attached' /\ Held' /\ LastListed'
  BY <1>1, Frames, Zenon
<1> QED BY <1>2, <1>3, Zenon DEF IInv

\* One step of the clock, the callers, the build thread or the cleaner.
LEMMA NextInv ==
  ASSUME IInv, [Next]_vars
  PROVE  IInv'
<1>1. CASE Tick
  BY <1>1, TickInv, Zenon
<1>2. CASE \E s \in Stories : AddStory(s)
  BY <1>2, AddStoryInv, Zenon
<1>3. CASE Build
  BY <1>3, FetchStoryInv, AddAttachmentInv, DetectNewTokensInv, CreateListsInv,
     StampPostingInv, AddPostingInv, StoryDoneInv, Zenon DEF Build
<1>4. CASE Clean
  BY <1>4, MarkBeginInv, MarkListInv, PhaseInv, CollectInv, EraseAfterInv,
     DeleteAttachmentsInv, Zenon DEF Clean
<1>5. CASE UNCHANGED vars
  BY <1>5, StutterInv, Zenon
<1> QED BY <1>1, <1>2, <1>3, <1>4, <1>5, Zenon DEF Next

\* IInv is an invariant of the index.
THEOREM Invariant == Spec => []IInv
BY InitInv, NextInv, PTL DEF Spec

\* Every variable keeps its type; in particular the build thread numbers no more
\* stories than were accepted, and pushes only ids that were given out.
THEOREM TypeCorrect == Spec => []TypeOK
<1>1. IInv => TypeOK
  BY Zenon DEF IInv, TypeOK, TimeType, DocsType, ListsType, BuildType, CleanType
<1> QED BY <1>1, Invariant, PTL

\* num_indexed_stories_total_ is the size of att_, until the cleaner deletes the
\* attachment of a story that the build thread or a list still has.
THEOREM TotalFollows == Spec => []TotalExact
<1>1. IInv => TotalExact
  BY Zenon DEF IInv, Held
<1> QED BY <1>1, Invariant, PTL

-----------------------------------------------------------------------------
(* The refinement of StoryIndex.  Every step is one of StoryIndex or leaves *)
(* its variables alone.                                                     *)

\* The refinement mapping, as in Promise.
Pending == (IF bpc = "attach" THEN <<story>> ELSE <<>>) \o doc_pool
Listed  == [t \in Tokens |-> index[t] \ Doomed(t)]
Gone    == collected \union leaked \union UNION {Doomed(t) : t \in Tokens}

\* A story in front of the doc pool.
LEMMA Cons ==
  ASSUME NEW S, NEW e \in S, NEW s \in Seq(S)
  PROVE  /\ <<e>> \o s \in Seq(S) /\ <<e>> \o s # <<>>
         /\ Head(<<e>> \o s) = e /\ Tail(<<e>> \o s) = s
<1> DEFINE one == <<e>>
           c   == one \o s
<1>1. one \in Seq(S) /\ Len(one) = 1 /\ one[1] = e
  OBVIOUS
<1> HIDE DEF one
<1>2. /\ c \in Seq(S) /\ Len(c) = Len(one) + Len(s)
      /\ \A i \in 1 .. Len(one) + Len(s) :
           c[i] = IF i <= Len(one) THEN one[i] ELSE s[i - Len(one)]
  BY <1>1, ConcatProperties, Zenon
<1> HIDE DEF c
<1>3. Len(s) \in Nat
  BY LenProperties, Zenon
<1>4. Len(c) = 1 + Len(s) /\ c[1] = e /\ \A i \in 1 .. Len(s) : c[i + 1] = s[i]
  BY <1>1, <1>2, <1>3
<1>5. c # <<>>
  BY <1>3, <1>4
<1>6. Head(c) = e
  BY <1>2, <1>4, <1>5
<1>7. /\ Tail(c) \in Seq(S) /\ Len(Tail(c)) = Len(c) - 1
      /\ \A i \in 1 .. Len(Tail(c)) : Tail(c)[i] = c[i + 1]
  BY <1>2, <1>5, HeadTailProperties, Zenon
<1> DEFINE d == Tail(c)
<1> HIDE DEF d
<1>8. d \in Seq(S) /\ Len(d) = Len(s) /\ \A i \in 1 .. Len(d) : d[i] = s[i]
  BY <1>3, <1>4, <1>7 DEF d
<1>9. d = s
  BY <1>8, SeqEqual, Zenon
<1> QED BY <1>2, <1>5, <1>6, <1>9, Zenon DEF c, d, one

\* The head in front of the tail.
LEMMA HeadTailCons ==
  ASSUME NEW S, NEW s \in Seq(S), s # <<>>
  PROVE  <<Head(s)>> \o Tail(s) = s
<1> DEFINE one == <<Head(s)>>
           d   == Tail(s)
           c   == one \o d
<1>1. /\ Head(s) \in S /\ d \in Seq(S) /\ Len(d) = Len(s) - 1
      /\ \A i \in 1 .. Len(d) : d[i] = s[i + 1]
  BY HeadTailProperties, Zenon
<1>2. Len(s) \in Nat /\ Len(s) >= 1 /\ Head(s) = s[1]
  BY EmptySeq
<1>3. one \in Seq(S) /\ Len(one) = 1 /\ one[1] = s[1]
  BY <1>1, <1>2
<1> HIDE DEF one, d
<1>4. /\ c \in Seq(S) /\ Len(c) = Len(one) + Len(d)
      /\ \A i \in 1 .. Len(one) + Len(d) :
           c[i] = IF i <= Len(one) THEN one[i] ELSE d[i - Len(one)]
  <2>1. one \in Seq(S) /\ d \in Seq(S)
    BY <1>1, <1>3, Zenon
  <2> QED BY <2>1, ConcatProperties, Zenon
<1> HIDE DEF c
<1>5. Len(c) = Len(s)
  <2>1. Len(c) = 1 + (Len(s) - 1) /\ Len(s) \in Int
    BY <1>1, <1>2, <1>3, <1>4
  <2> QED BY <2>1
<1>6. ASSUME NEW i \in 1 .. Len(c) PROVE c[i] = s[i]
  <2>1. CASE i = 1
    BY <1>2, <1>3, <1>4, <1>5, <2>1, SMTT(20)
  <2>2. CASE i # 1
    <3> DEFINE k == i - 1
    <3>1. k \in 1 .. Len(d) /\ k + 1 = i /\ c[i] = d[k]
      <4>1. /\ Len(one) = 1 /\ Len(d) = Len(s) - 1 /\ Len(c) = Len(s)
            /\ Len(s) \in Nat /\ i \in 1 .. Len(s) /\ i # 1
        BY <1>1, <1>2, <1>3, <1>5, <2>2, Zenon
      <4>2. k \in 1 .. Len(d) /\ k + 1 = i /\ i - Len(one) = k
            /\ ~(i <= Len(one)) /\ i \in 1 .. Len(one) + Len(d)
        BY <4>1
      <4> HIDE DEF k
      <4> QED BY <1>4, <4>2, Zenon
    <3> HIDE DEF k
    <3> QED BY <1>1, <3>1, Zenon
  <2> QED BY <2>1, <2>2, Zenon
<1>7. c = s
  BY <1>4, <1>5, <1>6, SeqEqual, Zenon
<1> QED BY <1>7, Zenon DEF c, one, d

\* The doc pool grows at its end, whatever is in front of it.
LEMMA ConcatAppend ==
  ASSUME NEW S, NEW a \in Seq(S), NEW s \in Seq(S), NEW e \in S
  PROVE  a \o Append(s, e) = Append(a \o s, e)
<1>1. Append(s, e) = s \o <<e>> /\ <<e>> \in Seq(S)
  BY AppendIsConcat
<1>2. a \o s \in Seq(S)
  BY ConcatProperties, Zenon
<1>3. Append(a \o s, e) = (a \o s) \o <<e>>
  BY <1>2, AppendIsConcat, Zenon
<1>4. (a \o s) \o <<e>> = a \o (s \o <<e>>)
  BY <1>1, ConcatAssociative, SMTT(20)
<1> QED BY <1>1, <1>3, <1>4, Zenon

\* What is after the marks depends on the lists and the marks.
LEMMA DoomedUnchanged ==
  ASSUME UNCHANGED <<index, end_mark>>
  PROVE  /\ \A t \in Tokens : Doomed(t)' = Doomed(t)
         /\ Listed' = Listed
         /\ UNCHANGED <<collected, leaked>> => Gone' = Gone
<1>1. \A t \in Tokens : Doomed(t)' = Doomed(t)
  BY Zenon DEF Doomed, After
<1>2. Listed' = Listed
  BY <1>1, Zenon DEF Listed
<1>3. UNCHANGED <<collected, leaked>> => Gone' = Gone
  BY <1>1, Zenon DEF Gone
<1> QED BY <1>1, <1>2, <1>3, Zenon

\* The members of Gone.
LEMMA GoneMembers ==
  /\ \A i : i \in Gone <=> \/ i \in collected
                         \/ i \in leaked
                         \/ \E t \in Tokens : i \in Doomed(t)
  /\ \A i : i \in Gone' <=> \/ i \in collected'
                          \/ i \in leaked'
                          \/ \E t \in Tokens : i \in Doomed(t)'
BY Zenon DEF Gone

\* A step that does not show.
LEMMA Hidden ==
  ASSUME UNCHANGED <<counter, att>>, Pending' = Pending, Listed' = Listed, Gone' = Gone
  PROVE  [Promise!IndexNext]_(Promise!indexVars)
BY Zenon DEF Promise!indexVars, Pending, Listed, Gone

\* Accept, or nothing if the doc pool is full.
LEMMA AddStoryRefines ==
  ASSUME IInv, NEW s \in Stories, AddStory(s)
  PROVE  [Promise!IndexNext]_(Promise!indexVars)
<1>1. /\ doc_pool' = IF Len(doc_pool) < PoolSize THEN Append(doc_pool, s) ELSE doc_pool
      /\ UNCHANGED <<counter, att, index, end_mark, bpc, story, collected, leaked>>
  BY Zenon DEF AddStory, docs, lists, build, history
<1>2. Listed' = Listed /\ Gone' = Gone
  BY <1>1, DoomedUnchanged, Zenon
<1>3. CASE Len(doc_pool) < PoolSize
  <2> DEFINE a == IF bpc = "attach" THEN <<story>> ELSE <<>>
  <2>1. a \in Seq(Stories) /\ doc_pool \in Seq(Stories)
    BY DEF IInv, DocsType, Building
  <2>2. a \o Append(doc_pool, s) = Append(a \o doc_pool, s)
    <3> HIDE DEF a
    <3> QED BY <2>1, ConcatAppend
  <2>3. Pending' = a \o Append(doc_pool, s) /\ Pending = a \o doc_pool
    BY <1>1, <1>3, Zenon DEF Pending
  <2>4. Pending' = Append(Pending, s)
    BY <2>2, <2>3, Zenon
  <2>5. Promise!Accept(s)
    BY <1>1, <1>2, <2>4, Zenon DEF Promise!Accept, Pending, Listed, Gone
  <2> QED BY <2>5, Zenon DEF Promise!IndexNext
<1>4. CASE ~(Len(doc_pool) < PoolSize)
  <2>1. Pending' = Pending
    BY <1>1, <1>4, Zenon DEF Pending
  <2> QED BY <1>1, <1>2, <2>1, Hidden, Zenon
<1> QED BY <1>3, <1>4, Zenon

\* A story fetched is still pending.
LEMMA FetchStoryRefines ==
  ASSUME IInv, FetchStory
  PROVE  [Promise!IndexNext]_(Promise!indexVars)
<1>1. /\ bpc = "idle" /\ doc_pool # <<>> /\ story' = Head(doc_pool)
      /\ doc_pool' = Tail(doc_pool) /\ bpc' = "attach"
      /\ UNCHANGED <<counter, att, index, end_mark, collected, leaked>>
  BY Zenon DEF FetchStory, docs, lists, history
<1>2. Listed' = Listed /\ Gone' = Gone
  BY <1>1, DoomedUnchanged, Zenon
<1>3. doc_pool \in Seq(Stories)
  BY Zenon DEF IInv, DocsType
<1>4. Pending = <<>> \o doc_pool /\ Pending' = <<Head(doc_pool)>> \o Tail(doc_pool)
  BY <1>1, Zenon DEF Pending
<1>5. <<>> \o doc_pool = doc_pool
  BY <1>3, ConcatEmptySeq, Zenon
<1>6. <<Head(doc_pool)>> \o Tail(doc_pool) = doc_pool
  BY <1>1, <1>3, HeadTailCons, Zenon
<1>7. Pending' = Pending
  BY <1>4, <1>5, <1>6, Zenon
<1> QED BY <1>1, <1>2, <1>7, Hidden, Zenon

\* Attach: the number before this one is in all its lists, or gone.
LEMMA AddAttachmentRefines ==
  ASSUME IInv, AddAttachment
  PROVE  [Promise!IndexNext]_(Promise!indexVars)
<1>1. /\ bpc = "attach" /\ counter' = counter + 1 /\ bpc' = "detect"
      /\ att' = [i \in DOMAIN att \union {counter} |->
                   IF i = counter THEN story ELSE att[i]]
      /\ UNCHANGED <<doc_pool, index, end_mark, collected, leaked>>
  BY Zenon DEF AddAttachment, AttachAs, pool, lists, history
<1>2. Listed' = Listed /\ Gone' = Gone
  BY <1>1, DoomedUnchanged, Zenon
<1>3. story \in Stories /\ doc_pool \in Seq(Stories) /\ counter \in Int
  BY <1>1 DEF IInv, DocsType, Building
<1>4. Pending = <<story>> \o doc_pool /\ Pending' = <<>> \o doc_pool
  BY <1>1, Zenon DEF Pending
<1>5. <<>> \o doc_pool = doc_pool
  BY <1>3, ConcatEmptySeq, Zenon
<1>6. Pending # <<>> /\ Head(Pending) = story /\ Pending' = Tail(Pending)
  BY <1>3, <1>4, <1>5, Cons, ZenonT(30)
<1>7. counter - 1 + 1 = counter /\ counter' - 1 = counter
  BY <1>1, <1>3
<1>8. ASSUME counter - 1 \notin Gone \union {0}, NEW t \in Keywords[att[counter - 1]]
      PROVE  counter - 1 \in Listed[t]
  <2> DEFINE last == counter - 1
  <2>1. last \in Ids /\ last < counter
    BY <1>3, <1>8, ConstantsAssumption DEF IInv, DocsType, Ids
  <2>2. last \notin collected /\ last \notin leaked /\ \A u \in Tokens : last \notin Doomed(u)
    BY <1>8, Zenon DEF Gone
  <2>3. last \in DOMAIN att
    BY <2>1, <2>2, Zenon DEF IInv, Attached
  <2>4. t \in Tokens
    BY <1>8, <2>3, ConstantsAssumption, Zenon DEF IInv, DocsType
  <2>5. last \in index[t]
    BY <1>1, <1>8, <2>2, <2>3, Zenon DEF IInv, LastListed, Linking
  <2> QED BY <2>2, <2>4, <2>5, Zenon DEF Listed
<1>9. att' = [i \in DOMAIN att \union {counter' - 1} |->
                IF i = counter' - 1 THEN Head(Pending) ELSE att[i]]
  BY <1>1, <1>6, <1>7, Zenon
<1>10. Promise!Attach
  <2>1. counter - 1 \notin Gone \union {0} =>
          \A t \in Keywords[att[counter - 1]] : counter - 1 \in Listed[t]
    BY <1>8, Zenon
  <2>2. counter' - 1 = counter - 1 + 1
    BY <1>7, Zenon
  <2> QED BY <1>2, <1>6, <1>9, <2>1, <2>2, Zenon DEF Promise!Attach, Pending, Listed, Gone
<1> QED BY <1>10, Zenon DEF Promise!IndexNext

\* List, or Withdraw when the mark of the list is on the fake front.
LEMMA AddPostingRefines ==
  ASSUME IInv, NEW t \in Tokens, AddPosting(t)
  PROVE  [Promise!IndexNext]_(Promise!indexVars)
<1>1. /\ leaked' = IF cpc = "erase" /\ tok = t /\ end_mark[t] = Front
                   THEN leaked \union {local_id} ELSE leaked
      /\ bpc' = "push"
      /\ UNCHANGED <<doc_pool, counter, att, end_mark, story, collected>>
  BY Zenon DEF AddPosting, pool, docs
<1>2. /\ bpc = "link" /\ t \in keywords
      /\ local_id \in Ids /\ local_id = counter - 1
      /\ \A i \in index[t] : i \in Ids /\ i < local_id
  BY PushFacts, Zenon
<1>3. /\ index'[t] = index[t] \union {local_id}
      /\ \A u \in Tokens \ {t} : index'[u] = index[u]
  BY PushFacts, Zenon
<1>4. Pending' = Pending
  BY <1>1, <1>2, Zenon DEF Pending
<1>5. \A u \in Tokens \ {t} : Doomed(u)' = Doomed(u)
  BY PushDooms, Zenon
<1>6. local_id \notin index[t] /\ local_id \in 1 .. counter - 1 /\ counter - 1 = local_id
  BY <1>2 DEF Ids
<1>7. Listed'[t] = index'[t] \ Doomed(t)' /\ Listed[t] = index[t] \ Doomed(t)
  BY Zenon DEF Listed
<1>8. /\ \A u \in Tokens \ {t} : Listed'[u] = Listed[u]
      /\ DOMAIN Listed = Tokens /\ DOMAIN Listed' = Tokens
  BY <1>3, <1>5, Zenon DEF Listed
<1>9. CASE end_mark[t] = Front
  <2>1. Doomed(t) = index[t] /\ Doomed(t)' = index'[t]
    BY <1>9, PushDooms, Zenon
  <2>2. Listed[t] = {} /\ Listed'[t] = {}
    BY <1>7, <2>1, Zenon
  <2>3. Listed' = [Listed EXCEPT ![t] = @ \ {local_id}]
    BY <1>8, <2>2, Zenon DEF Listed
  <2>4. Gone' = Gone \union {local_id}
    <3>1. \A i : (\E u \in Tokens : i \in Doomed(u)') <=>
                   (\E u \in Tokens : i \in Doomed(u)) \/ i = local_id
      BY <1>3, <1>5, <2>1, Zenon
    <3>2. /\ \A i \in leaked : i \in leaked'
          /\ \A i \in leaked' : i \in leaked \/ i = local_id
      BY <1>1, Zenon
    <3>3. \A i : i \in Gone' <=> i \in Gone \/ i = local_id
      BY <1>1, <3>1, <3>2, GoneMembers, ZenonT(30)
    <3> QED BY <3>3, Zenon
  <2>5. PICK W : W = {local_id}
    BY Zenon
  <2>6. Promise!Withdraw(t, W) /\ W \in SUBSET Promise!Numbers
    <3>1. Promise!Withdraw(t, W)
      BY <1>1, <1>4, <2>3, <2>4, <2>5, ZenonT(30) DEF Promise!Withdraw, Pending, Listed, Gone
    <3>2. W \in SUBSET Promise!Numbers
      BY <1>6, <2>5, Zenon DEF Promise!Numbers
    <3> QED BY <3>1, <3>2, Zenon
  <2>7. \E u \in Tokens, S \in SUBSET Promise!Numbers : Promise!Withdraw(u, S)
    BY <2>6, Zenon
  <2> QED BY <2>7, Zenon DEF Promise!IndexNext
<1>10. CASE end_mark[t] # Front
  <2>1. Doomed(t)' = Doomed(t) /\ local_id \notin Doomed(t)
    BY <1>10, PushDooms, Zenon
  <2>2. Listed'[t] = Listed[t] \union {local_id}
    BY <1>3, <1>7, <2>1, Zenon
  <2>3. Listed' = [Listed EXCEPT ![t] = @ \union {local_id}]
    BY <1>8, <2>2, Zenon DEF Listed
  <2>4. Gone' = Gone
    <3>1. \A u \in Tokens : Doomed(u)' = Doomed(u)
      BY <1>5, <2>1, Zenon
    <3>2. leaked' = leaked
      BY <1>1, <1>10, Zenon
    <3> QED BY <1>1, <3>1, <3>2, Zenon DEF Gone
  <2>5. local_id \notin Listed[t]
    BY <1>6, <1>7, Zenon
  <2>6. CASE local_id \in DOMAIN att
    <3>1. t \in Keywords[att[local_id]]
      BY <1>2, <2>6, Zenon DEF IInv, LastListed, Building, Pushing, Linking
    <3>2. Promise!List(t)
      BY <1>1, <1>4, <1>6, <2>3, <2>4, <2>5, <2>6, <3>1, ZenonT(30)
         DEF Promise!List, Promise!Numbers, Pending, Listed, Gone
    <3> QED BY <3>2, Zenon DEF Promise!IndexNext
  <2>7. CASE local_id \notin DOMAIN att
    <3>1. local_id < counter
      BY PushFacts, Zenon
    <3>2. local_id \in Gone
      BY <1>2, <2>7, <3>1, Zenon DEF IInv, Attached, Gone
    <3>3. Promise!List(t)
      BY <1>1, <1>4, <1>6, <2>3, <2>4, <2>5, <2>7, <3>2, ZenonT(30)
         DEF Promise!List, Promise!Numbers, Pending, Listed, Gone
    <3> QED BY <3>3, Zenon DEF Promise!IndexNext
  <2> QED BY <2>6, <2>7, Zenon
<1> QED BY <1>9, <1>10, Zenon

\* Withdraw: the list had no mark, and loses what lies after the new one.
LEMMA MarkListRefines ==
  ASSUME IInv, NEW t \in Tokens, MarkList(t)
  PROVE  [Promise!IndexNext]_(Promise!indexVars)
<1>1. /\ cpc = "mark" /\ t \in todo
      /\ \E m : end_mark' = [end_mark EXCEPT ![t] = m]
      /\ UNCHANGED <<doc_pool, counter, att, index, bpc, story, collected, leaked>>
  BY Zenon DEF MarkList, pool, docs, lists, build, history
<1>2. end_mark[t] = NULL /\ end_mark \in [Tokens -> Ids \union {Front, NULL}]
  BY <1>1, Zenon DEF IInv, Marks, ListsType
<1>3. \A u \in Tokens \ {t} : end_mark'[u] = end_mark[u]
  BY <1>1, <1>2, Zenon
<1>4. \A u \in Tokens \ {t} : Doomed(u)' = Doomed(u)
  BY <1>1, <1>3, Zenon DEF Doomed, After
<1>5. Doomed(t) = {}
  BY <1>2, Zenon DEF Doomed
<1> DEFINE S == Doomed(t)'
<1>6. S \subseteq index[t]
  BY <1>1, Zenon DEF Doomed, After
<1>7. Pending' = Pending
  BY <1>1, Zenon DEF Pending
<1>8. Listed' = [Listed EXCEPT ![t] = @ \ S]
  <2>1. Listed'[t] = index[t] \ S /\ Listed[t] = index[t]
    BY <1>1, <1>5, Zenon DEF Listed
  <2>2. /\ \A u \in Tokens \ {t} : Listed'[u] = Listed[u]
        /\ DOMAIN Listed = Tokens /\ DOMAIN Listed' = Tokens
    BY <1>1, <1>4, Zenon DEF Listed
  <2> HIDE DEF S
  <2> QED BY <2>1, <2>2, Zenon DEF Listed
<1>9. Gone' = Gone \union S
  <2>1. \A i : (\E u \in Tokens : i \in Doomed(u)') <=>
                 (\E u \in Tokens : i \in Doomed(u)) \/ i \in S
    BY <1>4, <1>5, Zenon
  <2>2. \A i : i \in Gone' <=> i \in Gone \/ i \in S
    <3> HIDE DEF S
    <3> QED BY <1>1, <2>1, GoneMembers, Zenon
  <2> HIDE DEF S
  <2> QED BY <2>2, Zenon
<1>10. S \in SUBSET Promise!Numbers
  <2>1. \A i \in index[t] : i \in Ids /\ i < counter
    BY Zenon DEF IInv, Below, ListsType
  <2>2. \A i \in index[t] : i \in 1 .. counter - 1
    BY <2>1 DEF Ids, IInv, DocsType
  <2> QED BY <1>6, <2>2, Zenon DEF Promise!Numbers
<1> HIDE DEF S
<1>11. PICK W : W = S
  BY Zenon
<1>12. Promise!Withdraw(t, W) /\ W \in SUBSET Promise!Numbers
  BY <1>1, <1>7, <1>8, <1>9, <1>10, <1>11, Zenon DEF Promise!Withdraw, Pending, Listed, Gone
<1>13. \E u \in Tokens, V \in SUBSET Promise!Numbers : Promise!Withdraw(u, V)
  BY <1>12, Zenon
<1> QED BY <1>13, Zenon DEF Promise!IndexNext

\* What is collected lies after a mark.
LEMMA CollectRefines ==
  ASSUME IInv, NEW t \in Tokens, Collect(t)
  PROVE  [Promise!IndexNext]_(Promise!indexVars)
<1>1. /\ collected' = collected \union Doomed(t)
      /\ UNCHANGED <<doc_pool, counter, att, index, end_mark, bpc, story, leaked>>
  BY Zenon DEF Collect, CollectAs, pool, docs, lists, build
<1>2. Listed' = Listed /\ \A u \in Tokens : Doomed(u)' = Doomed(u)
  BY <1>1, DoomedUnchanged, Zenon
<1>3. Gone' = Gone
  BY <1>1, <1>2, Zenon DEF Gone
<1>4. Pending' = Pending
  BY <1>1, Zenon DEF Pending
<1> QED BY <1>1, <1>2, <1>3, <1>4, Hidden, Zenon

\* EraseAfter leaves nothing after the mark.
LEMMA EraseDooms ==
  ASSUME IInv, EraseAfter
  PROVE  /\ tok \in Tokens /\ index'[tok] = index[tok] \ Doomed(tok)
         /\ \A u \in Tokens \ {tok} : Doomed(u)' = Doomed(u) /\ index'[u] = index[u]
         /\ \A u \in Tokens : u = tok => Doomed(u)' = {}
<1>1. /\ cpc = "erase"
      /\ index' = [index EXCEPT ![tok] = @ \ Doomed(tok)]
      /\ end_mark' = [end_mark EXCEPT ![tok] = NULL]
  BY Zenon DEF EraseAfter
<1>2. tok \in Tokens
  BY <1>1, Zenon DEF IInv, Marks, CleanType
<1>3. /\ index \in [Tokens -> SUBSET Ids]
      /\ end_mark \in [Tokens -> Ids \union {Front, NULL}]
  BY Zenon DEF IInv, ListsType
<1>4. /\ index'[tok] = index[tok] \ Doomed(tok) /\ end_mark'[tok] = NULL
      /\ \A u \in Tokens \ {tok} : index'[u] = index[u] /\ end_mark'[u] = end_mark[u]
  BY <1>1, <1>2, <1>3, Zenon
<1>5. \A u \in Tokens : /\ u = tok => Doomed(u)' = {}
                        /\ u # tok => Doomed(u)' = Doomed(u)
  <2>1. \A u \in Tokens \ {tok} : Doomed(u)' = Doomed(u)
    BY <1>4, Zenon DEF Doomed, After
  <2>2. \A u \in Tokens : end_mark'[u] = NULL => Doomed(u)' = {}
    BY Zenon DEF Doomed
  <2> QED BY <1>4, <2>1, <2>2, Zenon
<1> QED BY <1>2, <1>4, <1>5, Zenon

\* What is erased was hidden behind the mark, and stays gone.
LEMMA EraseAfterRefines ==
  ASSUME IInv, EraseAfter
  PROVE  [Promise!IndexNext]_(Promise!indexVars)
<1>1. /\ cpc = "erase"
      /\ UNCHANGED <<doc_pool, counter, att, bpc, story, collected, leaked>>
  BY Zenon DEF EraseAfter, pool, docs, build, history
<1>2. tok \in Tokens /\ Doomed(tok) \subseteq collected \union leaked
  BY <1>1, Zenon DEF IInv, Marks, CleanType, LastListed
<1>3. /\ index'[tok] = index[tok] \ Doomed(tok)
      /\ \A u \in Tokens \ {tok} : index'[u] = index[u]
  BY EraseDooms, Zenon
<1>4. \A u \in Tokens : /\ u = tok => Doomed(u)' = {}
                        /\ u # tok => Doomed(u)' = Doomed(u)
  BY EraseDooms, Zenon
<1>5. Pending' = Pending
  BY <1>1, Zenon DEF Pending
<1>6. Listed' = Listed
  <2>1. \A u \in Tokens : index'[u] \ Doomed(u)' = index[u] \ Doomed(u)
    BY <1>3, <1>4, Zenon
  <2> QED BY <2>1, Zenon DEF Listed
<1>7. Gone' = Gone
  <2>1. \A i : i \in Gone' <=> i \in Gone
    BY <1>1, <1>2, <1>4, GoneMembers, ZenonT(30)
  <2> QED BY <2>1, Zenon
<1> QED BY <1>1, <1>5, <1>6, <1>7, Hidden, Zenon

\* Forget: what was collected is gone.
LEMMA DeleteAttachmentsRefines ==
  ASSUME IInv, DeleteAttachments
  PROVE  [Promise!IndexNext]_(Promise!indexVars)
<1>1. /\ att' = [i \in DOMAIN att \ doc_to_delete |-> att[i]]
      /\ UNCHANGED <<doc_pool, counter, index, end_mark, bpc, story, collected, leaked>>
  BY Zenon DEF DeleteAttachments, DeleteCounting, pool, lists, build
<1>2. Listed' = Listed /\ Gone' = Gone
  BY <1>1, DoomedUnchanged, Zenon
<1>3. Pending' = Pending
  BY <1>1, Zenon DEF Pending
<1>4. doc_to_delete \subseteq Gone
  BY Zenon DEF IInv, Attached, Gone
<1>5. doc_to_delete \in SUBSET Promise!Numbers
  <2>1. \A i \in doc_to_delete : i \in Ids /\ i < counter
    BY Zenon DEF IInv, Attached, CleanType
  <2>2. \A i \in doc_to_delete : i \in 1 .. counter - 1
    BY <2>1 DEF Ids, IInv, DocsType
  <2> QED BY <2>2, Zenon DEF Promise!Numbers
<1>6. Promise!Forget(doc_to_delete)
  BY <1>1, <1>2, <1>3, <1>4, Zenon DEF Promise!Forget, Pending, Listed, Gone
<1> QED BY <1>5, <1>6, Zenon DEF Promise!IndexNext

\* The other steps do not show.
LEMMA OthersRefine ==
  ASSUME IInv,
         \/ Tick \/ DetectNewTokens \/ CreateLists \/ StampPosting \/ StoryDone
         \/ MarkBegin \/ MarkDone \/ ClearBegin \/ ClearDone \/ UNCHANGED vars
  PROVE  [Promise!IndexNext]_(Promise!indexVars)
<1>1. UNCHANGED <<doc_pool, counter, att, collected, leaked>>
  BY Zenon DEF Tick, DetectNewTokens, DetectAs, CreateLists, CreateWhen, StampPosting,
         StoryDone, MarkBegin, MarkDone,
         ClearBegin, ClearDone, vars, pool, docs, history
<1>2. UNCHANGED <<index, end_mark>>
  <2>1. CASE CreateLists
    BY <2>1, CreateListsKeeps, Zenon
  <2>2. CASE ~CreateLists
    BY <2>2, Zenon DEF Tick, DetectNewTokens, DetectAs, StampPosting, StoryDone, MarkBegin, MarkDone,
                ClearBegin, ClearDone, vars, lists
  <2> QED BY <2>1, <2>2, Zenon
<1>3. UNCHANGED <<bpc, story>> \/ (bpc # "attach" /\ bpc' # "attach")
  BY Zenon DEF Tick, DetectNewTokens, DetectAs, CreateLists, CreateWhen, StampPosting,
         StoryDone, MarkBegin, MarkDone,
         ClearBegin, ClearDone, vars, build
<1>4. Pending' = Pending
  BY <1>1, <1>3, ZenonT(30) DEF Pending
<1>5. Listed' = Listed /\ Gone' = Gone
  BY <1>1, <1>2, DoomedUnchanged, Zenon
<1> QED BY <1>1, <1>4, <1>5, Hidden, ZenonT(30)

\* InstantIndex implements StoryIndex: whatever the build thread, the cleaner and the
\* clock do, as long as no push and erase of one list overlap, a reader sees numbers given out once, attached before they are listed,
\* listed under the keywords of their stories, withdrawn by marking only and
\* forgotten after that.
THEOREM IndexImplementsPromise == Spec => ImplementsStoryIndex
<1>1. Init => Promise!IndexInit
  <2>1. SUFFICES ASSUME Init PROVE Promise!IndexInit
    BY Zenon
  <2>2. Pending = <<>>
    <3>1. Pending = <<>> \o <<>>
      BY <2>1, Zenon DEF Init, Pending
    <3>2. <<>> \o <<>> = <<>>
      BY EmptySeq, ConcatEmptySeq, Zenon
    <3> QED BY <3>1, <3>2, Zenon
  <2>3. \A t \in Tokens : Doomed(t) = {} /\ index[t] = {}
    BY <2>1, Zenon DEF Init, Doomed
  <2>4. Listed = [t \in Tokens |-> {}]
    BY <2>3, Zenon DEF Listed
  <2>5. Gone = {}
    BY <2>1, <2>3, Zenon DEF Gone, Init
  <2>6. counter - 1 = 0 /\ att = [i \in {} |-> 0]
    BY <2>1 DEF Init
  <2> QED BY <2>2, <2>4, <2>5, <2>6, ZenonT(30) DEF Promise!IndexInit, Pending, Listed, Gone
<1>2. ASSUME IInv, [Next]_vars PROVE [Promise!IndexNext]_(Promise!indexVars)
  <2>1. CASE \E s \in Stories : AddStory(s)
    BY <1>2, <2>1, AddStoryRefines, Zenon
  <2>2. CASE Build
    BY <1>2, <2>2, FetchStoryRefines, AddAttachmentRefines, AddPostingRefines,
       OthersRefine, ZenonT(30) DEF Build
  <2>3. CASE Clean
    BY <1>2, <2>3, MarkListRefines, CollectRefines, EraseAfterRefines,
       DeleteAttachmentsRefines, OthersRefine, ZenonT(30) DEF Clean
  <2>4. CASE Tick \/ UNCHANGED vars
    BY <1>2, <2>4, OthersRefine, Zenon
  <2> QED BY <1>2, <2>1, <2>2, <2>3, <2>4, ZenonT(30) DEF Next
<1> QED BY <1>1, <1>2, Invariant, PTL
        DEF Spec, ImplementsStoryIndex, Promise!IndexSpec

-----------------------------------------------------------------------------
(* The marks.                                                              *)

\* What comes to lie after a mark: only pushing and marking change it.
LEMMA NewlyDoomed ==
  ASSUME IInv, [Next]_vars, NEW t \in Tokens, NEW i \in Doomed(t)', i \notin Doomed(t)
  PROVE  \/ timestamp[t][i] < target_time
         \/ (end_mark[t] = Front /\ i \notin index[t])
<1>1. CASE \E u \in Tokens : AddPosting(u)
  <2>1. PICK u \in Tokens : AddPosting(u)
    BY <1>1, Zenon
  <2>2. u = t /\ end_mark[t] = Front
    BY <2>1, PushDooms, Zenon
  <2>3. Doomed(t) = index[t]
    BY <2>1, <2>2, PushDooms, Zenon
  <2> QED BY <2>2, <2>3, Zenon
<1>2. CASE \E u \in Tokens : MarkList(u)
  <2>1. PICK u \in Tokens : MarkList(u)
    BY <1>2, Zenon
  <2>2. CASE u = t
    BY <2>1, <2>2, MarkFacts, Zenon
  <2>3. CASE u # t
    <3>1. end_mark'[t] = end_mark[t] /\ index' = index
      BY <2>1, <2>3, MarkFacts, Zenon DEF MarkList, lists
    <3> QED BY <3>1, Zenon DEF Doomed, After
  <2> QED BY <2>2, <2>3, Zenon
<1>3. CASE EraseAfter
  BY <1>3, EraseDooms, Zenon
<1>4. CASE CreateLists
  BY <1>4, CreateListsKeeps, DoomedUnchanged, Zenon
<1>5. CASE Tick \/ \E s \in Stories : AddStory(s)
  BY <1>5, DoomedUnchanged, Zenon DEF Tick, AddStory, lists
<1>6. CASE FetchStory \/ AddAttachment \/ DetectNewTokens \/ StampPosting \/ StoryDone
  BY <1>6, DoomedUnchanged, Zenon
     DEF FetchStory, AddAttachment, AttachAs, DetectNewTokens, DetectAs, StampPosting,
         StoryDone, lists
<1>7. CASE \/ MarkBegin \/ MarkDone \/ ClearBegin \/ (\E u \in Tokens : Collect(u))
           \/ ClearDone \/ DeleteAttachments
  BY <1>7, DoomedUnchanged, Zenon
     DEF MarkBegin, MarkDone, ClearBegin, Collect, CollectAs, ClearDone,
         DeleteAttachments, DeleteCounting, lists
<1>8. CASE UNCHANGED vars
  BY <1>8, DoomedUnchanged, Zenon DEF vars, lists
<1> QED BY <1>1, <1>2, <1>3, <1>4, <1>5, <1>6, <1>7, <1>8, ZenonT(30) DEF Next, Build, Clean

\* What comes to lie after an end mark was too old when the list was marked, or is
\* pushed behind a mark on the fake front; what lies before a mark is young enough.
THEOREM MarksSeparate == Spec => MarkedExpired
<1>1. ASSUME IInv, IInv', [Next]_vars PROVE MarkSeparates
  <2>1. Kept'
    BY <1>1, Zenon DEF IInv
  <2> QED BY <1>1, <2>1, NewlyDoomed, ZenonT(30) DEF MarkSeparates, Kept
<1> QED BY <1>1, Invariant, PTL DEF Spec, MarkedExpired
=============================================================================
