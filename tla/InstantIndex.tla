---------------------------- MODULE InstantIndex ----------------------------
(***************************************************************************)
(* The inverted index as a whole: the doc pool, the attachment map, one    *)
(* posting list per token, and the two threads that change them.           *)
(*                                                                         *)
(*   - AddStory puts a story into the doc pool;                            *)
(*   - IndexBuildThread takes it out, gives it a local id, adds its        *)
(*     attachment, creates the missing posting lists and pushes one        *)
(*     posting per keyword;                                                *)
(*   - CleanOldStoryThread marks the end of every list, sleeps, erases     *)
(*     what lies after the marks and deletes the attachments.              *)
(*                                                                         *)
(* A posting list is the set of the local ids in it, largest first: module *)
(* PostingList shows how the heap keeps that order.  One list operation    *)
(* (a push, a scan, an erase) is one step here; the steps between which a  *)
(* thread changes list, phase or lock interleave.                          *)
(*                                                                         *)
(* The build thread and the cleaner both hold index_mutex_ shared, so that *)
(* nothing keeps a push and an erase of one list apart.  What happens when *)
(* they do overlap is in PostingList (its variable overlap).  This module, *)
(* and StoryIndex and RecommEngine with it, is about the runs in which     *)
(* they do not.                                                            *)
(***************************************************************************)
EXTENDS Integers, Sequences, FiniteSets

CONSTANTS
  Tokens,    \* token ids, a set of numbers
  Stories,
  Keywords,  \* the tokens of every story
  Life,      \* doc_life_time
  PoolSize,  \* doc_pool_size
  NULL,
  MaxDocs,   \* bound: stories ever accepted
  MaxTime    \* bound: the clock

ASSUME ConstantsAssumption ==
  /\ Tokens \subseteq Int
  /\ Keywords \in [Stories -> SUBSET Tokens]
  /\ Life \in Nat
  /\ PoolSize \in Nat
  /\ MaxDocs \in Nat
  /\ MaxTime \in Nat
  /\ NULL \notin Stories \union Int

VARIABLES
  clock,          \* Timer::CurrentTimeInS()
  doc_pool,       \* stories accepted and not yet built
  counter,        \* local_docid_counter_
  att,            \* att_: local id -> story (global id)
  tokens,         \* the tokens that have a posting list in index_
  index,          \* index_: the ids in the list of every token
  timestamp,      \* and the timestamp of each of its postings
  end_mark,       \* end_mark_ of every list: an id, Front or NULL
  total,          \* num_indexed_stories_total_
  bpc,            \* build thread: where it is,
  story,          \*   the story it builds,
  local_id,       \*   its local id,
  keywords,       \*   the keywords it has still to push,
  stamp,          \*   the timestamp of the next posting,
  new_tokens,     \*   the tokens it found missing
  cpc,            \* cleaner: where it is,
  target_time,    \*   what it keeps,
  todo,           \*   the lists it has still to visit in this phase,
  tok,            \*   the list it is erasing from,
  doc_to_delete,  \*   the ids it collected in this round
  collected,      \* history: ids collected in any round
  leaked,         \* history: ids pushed between collecting and erasing
  orphaned        \* history: an attachment went before the last posting

pool     == <<doc_pool>>
docs     == <<counter, att, total>>
lists    == <<tokens, index, timestamp>>
build    == <<bpc, story, local_id, keywords, stamp, new_tokens>>
clean    == <<cpc, target_time, todo, tok, doc_to_delete>>
history  == <<collected, leaked, orphaned>>
vars     == <<clock, pool, docs, lists, end_mark, build, clean, history>>

Ids   == 1 .. MaxDocs
Front == 0       \* the fake front, which holds kIllegalLocalDocID

\* The ids of list t that come after mark m.
After(t, m) == {i \in index[t] : m = Front \/ i < m}

\* The ids of list t that lie after its end mark, if it has one: iterations do
\* not return them and clearing erases them.
Doomed(t) == IF end_mark[t] = NULL THEN {} ELSE After(t, end_mark[t])

-----------------------------------------------------------------------------
(* Time and requests.                                                      *)

Tick ==
  /\ clock < MaxTime
  /\ clock' = clock + 1
  /\ UNCHANGED <<pool, docs, lists, end_mark, build, clean, history>>

\* Stories accepted so far.
Accepted == counter - 1 + Len(doc_pool) + (IF bpc = "attach" THEN 1 ELSE 0)

\* AddStory: TryPut into the doc pool fails when it is full.
AddStory(s) ==
  /\ Accepted < MaxDocs
  /\ doc_pool' = IF Len(doc_pool) < PoolSize THEN Append(doc_pool, s) ELSE doc_pool
  /\ UNCHANGED <<clock, docs, lists, end_mark, build, clean, history>>

-----------------------------------------------------------------------------
(* IndexBuildThread.                                                       *)

\* doc_pool_->Get
FetchStory ==
  /\ bpc = "idle"
  /\ doc_pool # <<>>
  /\ story' = Head(doc_pool)
  /\ doc_pool' = Tail(doc_pool)
  /\ bpc' = "attach"
  /\ UNCHANGED <<clock, docs, lists, end_mark, local_id, keywords, stamp, new_tokens,
                 clean, history>>

\* Step 1, with att_mutex_ held: local id, counters, attachment.
AttachAs(n, c) ==
  /\ bpc = "attach"
  /\ local_id' = n
  /\ counter' = c
  /\ total' = total + 1
  /\ att' = [i \in DOMAIN att \union {counter} |->
               IF i = counter THEN story ELSE att[i]]
  /\ bpc' = "detect"
  /\ UNCHANGED <<clock, pool, lists, end_mark, story, keywords, stamp, new_tokens,
                 clean, history>>

\* Mutants: local_id stays kIllegalLocalDocID; the counter does not move.
AttachUnnumbered == AttachAs(0, counter + 1)
AttachReused     == AttachAs(counter, counter)

\* local_id = local_docid_counter_++
AddAttachment == AttachAs(counter, counter + 1)

\* First pass, with index_mutex_ shared: the keywords without a list.
DetectAs(S) ==
  /\ bpc = "detect"
  /\ new_tokens' = S
  /\ bpc' = "create"
  /\ UNCHANGED <<clock, pool, docs, lists, end_mark, story, local_id, keywords,
                 stamp, clean, history>>

\* Mutant: every keyword counts as new.
DetectAll == DetectAs(Keywords[story])

\* index_.find(token) == index_.end()
DetectNewTokens == DetectAs(Keywords[story] \ tokens)

\* index_[token] = PostingList(), with index_mutex_ exclusive: never while the
\* cleaner walks index_.
CreateWhen(free) ==
  /\ bpc = "create"
  /\ free
  /\ tokens' = tokens \union new_tokens
  /\ index' = [t \in Tokens |-> IF t \in new_tokens THEN {} ELSE index[t]]
  /\ end_mark' = [t \in Tokens |-> IF t \in new_tokens THEN NULL ELSE end_mark[t]]
  /\ keywords' = Keywords[story]
  /\ bpc' = "push"
  /\ new_tokens' = {}
  /\ UNCHANGED <<clock, pool, docs, timestamp, story, local_id, stamp, clean,
                 history>>

\* index_mutex_ is not held shared by the cleaner.
LockFree == cpc \notin {"mark", "clear", "erase"}

\* Mutant: the lock is tried, and the tokens are looked up again when it is held.
CreateOrRetry ==
  \/ CreateWhen(LockFree)
  \/ /\ bpc = "create"
     /\ ~LockFree
     /\ bpc' = "detect"
     /\ UNCHANGED <<clock, pool, docs, lists, end_mark, story, local_id, keywords,
                    stamp, new_tokens, clean, history>>

CreateLists == CreateWhen(LockFree)

\* One turn of the last loop, in the order of the keyword map, with index_mutex_
\* shared.  AllocatePosting and the stores into the posting, the time among them,
StampPosting ==
  /\ bpc = "push"
  /\ keywords # {}
  /\ stamp' = clock
  /\ bpc' = "link"
  /\ UNCHANGED <<clock, pool, docs, lists, end_mark, story, local_id, keywords,
                 new_tokens, clean, history>>

\* and AddPosting.
AddPosting(t) ==
  /\ bpc = "link"
  /\ t \in keywords
  /\ \A u \in keywords : t <= u
  /\ index' = [index EXCEPT ![t] = @ \union {local_id}]
  /\ timestamp' = [timestamp EXCEPT ![t][local_id] = stamp]
  /\ keywords' = keywords \ {t}
  /\ stamp' = 0
  /\ bpc' = "push"
  /\ leaked' = IF cpc = "erase" /\ tok = t /\ end_mark[t] = Front
               THEN leaked \union {local_id} ELSE leaked
  /\ UNCHANGED <<clock, pool, docs, tokens, end_mark, story, local_id, new_tokens,
                 clean, collected, orphaned>>

\* The loop ends and AddStoryInternal returns.
StoryDone ==
  /\ bpc = "push"
  /\ keywords = {}
  /\ bpc' = "idle" /\ story' = NULL /\ local_id' = 0
  /\ UNCHANGED <<clock, pool, docs, lists, end_mark, keywords, stamp, new_tokens,
                 clean, history>>

Build ==
  \/ FetchStory
  \/ AddAttachment
  \/ DetectNewTokens
  \/ CreateLists
  \/ StampPosting
  \/ \E t \in Tokens : AddPosting(t)
  \/ StoryDone

-----------------------------------------------------------------------------
(* CleanOldStoryThread.  It sleeps at "sleep" and "grace"; it holds         *)
(* index_mutex_ shared in "mark", "clear" and "erase".                     *)

\* target_time = CurrentTimeInS() - doc_life_time
MarkBegin ==
  /\ cpc = "sleep"
  /\ target_time' = clock - Life
  /\ todo' = tokens
  /\ cpc' = "mark"
  /\ UNCHANGED <<clock, pool, docs, lists, end_mark, build, tok, doc_to_delete,
                 history>>

\* Mutant: a posting exactly at target_time is not kept.
Younger(t, i) == timestamp[t][i] > target_time

\* cur->next->data->timestamp >= target_time
Young(t, i) == timestamp[t][i] >= target_time

\* The ids the scan of list t passes: it stops before the first posting, from
\* the front, that is not young.
Passed(t) == {i \in index[t] : \A j \in index[t] : j >= i => Young(t, j)}

\* Mutant: no mark is set when nothing is kept.
LastOfAny(S) ==
  IF S = {} THEN NULL ELSE CHOOSE i \in S : \A j \in S : i <= j

\* Where it stops.
LastOf(S) ==
  IF S = {} THEN Front ELSE CHOOSE i \in S : \A j \in S : i <= j

\* One turn of the marking loop: scan and SetEndMark.
MarkList(t) ==
  /\ cpc = "mark"
  /\ t \in todo
  /\ end_mark' = [end_mark EXCEPT ![t] = LastOf(Passed(t))]
  /\ todo' = todo \ {t}
  /\ UNCHANGED <<clock, pool, docs, lists, build, cpc, target_time, tok,
                 doc_to_delete, history>>

\* The lock is released; sleep(mark_and_clear_sleep_time)
MarkDone ==
  /\ cpc = "mark"
  /\ todo = {}
  /\ cpc' = "grace"
  /\ UNCHANGED <<clock, pool, docs, lists, end_mark, build, target_time, todo, tok,
                 doc_to_delete, history>>

ClearBegin ==
  /\ cpc = "grace"
  /\ todo' = tokens
  /\ cpc' = "clear"
  /\ UNCHANGED <<clock, pool, docs, lists, end_mark, build, target_time, tok,
                 doc_to_delete, history>>

\* One turn of the clearing loop, first half: collect the ids to delete.
CollectAs(t, S) ==
  /\ cpc = "clear"
  /\ t \in todo
  /\ doc_to_delete' = doc_to_delete \union S
  /\ collected' = collected \union S
  /\ tok' = t
  /\ cpc' = "erase"
  /\ UNCHANGED <<clock, pool, docs, lists, end_mark, build, target_time, todo,
                 leaked, orphaned>>

\* Mutant: a mark on the fake front is taken for no mark.
CollectAfterPosting(t) == CollectAs(t, IF end_mark[t] = Front THEN {} ELSE Doomed(t))

\* All that lies after the mark; a list created during the sleep has no mark.
Collect(t) == CollectAs(t, Doomed(t))

\* Second half: EraseAfter(mark), then SetEndMark(NULL).
EraseAfter ==
  /\ cpc = "erase"
  /\ index' = [index EXCEPT ![tok] = @ \ Doomed(tok)]
  /\ end_mark' = [end_mark EXCEPT ![tok] = NULL]
  /\ todo' = todo \ {tok}
  /\ cpc' = "clear" /\ tok' = NULL
  /\ UNCHANGED <<clock, pool, docs, tokens, timestamp, build, target_time,
                 doc_to_delete, history>>

\* The lock is released.
ClearDone ==
  /\ cpc = "clear"
  /\ todo = {}
  /\ cpc' = "delete"
  /\ UNCHANGED <<clock, pool, docs, lists, end_mark, build, target_time, todo, tok,
                 doc_to_delete, history>>

\* The build thread or a list still has id i.
InUse(i) == (i = local_id /\ keywords # {}) \/ \E t \in Tokens : i \in index[t]

\* With att_mutex_ held: erase the attachments that are there, and subtract from
\* the counter.
DeleteCounting(n) ==
  /\ cpc = "delete"
  /\ att' = [i \in DOMAIN att \ doc_to_delete |-> att[i]]
  /\ total' = total - n
  /\ orphaned' = (orphaned \/ \E i \in doc_to_delete : InUse(i))
  /\ doc_to_delete' = {}
  /\ cpc' = "sleep" /\ target_time' = 0
  /\ UNCHANGED <<clock, pool, counter, lists, end_mark, build, todo, tok,
                 collected, leaked>>

\* Mutant: the counter is left alone.
DeleteUncounted == DeleteCounting(0)

\* num_indexed_stories_total_ -= doc_to_delete.size()
DeleteAttachments == DeleteCounting(Cardinality(doc_to_delete))

Clean ==
  \/ MarkBegin
  \/ \E t \in Tokens : MarkList(t)
  \/ MarkDone
  \/ ClearBegin
  \/ \E t \in Tokens : Collect(t)
  \/ EraseAfter
  \/ ClearDone
  \/ DeleteAttachments

-----------------------------------------------------------------------------
Init ==
  /\ clock = 0
  /\ doc_pool = <<>>
  /\ counter = 1
  /\ att = [i \in {} |-> 0]
  /\ tokens = {}
  /\ index = [t \in Tokens |-> {}]
  /\ timestamp = [t \in Tokens |-> [i \in Ids |-> 0]]
  /\ end_mark = [t \in Tokens |-> NULL]
  /\ total = 0
  /\ bpc = "idle" /\ story = NULL /\ local_id = 0
  /\ keywords = {} /\ stamp = 0 /\ new_tokens = {}
  /\ cpc = "sleep" /\ target_time = 0 /\ todo = {} /\ tok = NULL
  /\ doc_to_delete = {}
  /\ collected = {} /\ leaked = {} /\ orphaned = FALSE

Next == Tick \/ (\E s \in Stories : AddStory(s)) \/ Build \/ Clean

Spec == Init /\ [][Next]_vars

\* Time passes and both threads run.  CreateLists waits for an exclusive lock
\* that the cleaner's shared locks keep from it again and again: a waiting
\* writer of boost::shared_mutex holds off new readers, hence SF.
FairSpec ==
  /\ Spec
  /\ WF_vars(Tick)
  /\ WF_vars(Build)
  /\ SF_vars(CreateLists)
  /\ WF_vars(Clean)

-----------------------------------------------------------------------------
TypeOK ==
  /\ clock \in 0 .. MaxTime
  /\ doc_pool \in Seq(Stories)
  /\ counter \in 1 .. MaxDocs + 1
  /\ DOMAIN att \subseteq Ids /\ \A i \in DOMAIN att : att[i] \in Stories
  /\ tokens \subseteq Tokens
  /\ index \in [Tokens -> SUBSET Ids]
  /\ timestamp \in [Tokens -> [Ids -> 0 .. MaxTime]]
  /\ end_mark \in [Tokens -> Ids \union {Front, NULL}]
  /\ total \in Int
  /\ bpc \in {"idle", "attach", "detect", "create", "push", "link"}
  /\ story \in Stories \union {NULL}
  /\ local_id \in Ids \union {0}
  /\ keywords \subseteq Tokens
  /\ stamp \in 0 .. MaxTime
  /\ new_tokens \subseteq Tokens
  /\ cpc \in {"sleep", "mark", "grace", "clear", "erase", "delete"}
  /\ target_time \in Int
  /\ todo \subseteq Tokens
  /\ tok \in Tokens \union {NULL}
  /\ doc_to_delete \subseteq Ids
  /\ collected \subseteq Ids
  /\ leaked \subseteq Ids
  /\ orphaned \in BOOLEAN

\* In one step, whatever comes to lie after a mark is older than target_time, or is
\* pushed just now into a list with nothing to keep, whose mark is the fake front;
\* and whatever stays before a mark is young enough.
MarkSeparates ==
  \A t \in Tokens :
    /\ \A i \in Doomed(t)' \ Doomed(t) :
         \/ timestamp[t][i] < target_time
         \/ end_mark[t] = Front /\ i \notin index[t]
    /\ end_mark'[t] # NULL =>
         \A i \in index'[t] \ Doomed(t)' : timestamp'[t][i] >= target_time'

\* A mark separates what is kept from what has expired, although the build thread
\* pushes while the cleaner marks, sleeps and clears, and stamps a posting some
\* time before it pushes it.
MarkedExpired == [][MarkSeparates]_vars

\* num_indexed_stories_total_ never counts a story that has no attachment, and is
\* the size of att_ as long as no story lost its attachment in an earlier round
\* than its last posting, to be subtracted again when that is cleared.
TotalExact ==
  /\ total <= Cardinality(DOMAIN att)
  /\ ~orphaned => total = Cardinality(DOMAIN att)

\* "how long time the doc will reside in index": a posting is not erased before
\* it is older than doc_life_time.
ResidesForLifeTime ==
  [][\A t \in Tokens : \A i \in index[t] \ index'[t] :
       clock - timestamp[t][i] > Life]_vars

\* Liveness.  The stories of a behaviour are finitely many: what holds again and
\* again of all of them comes to hold of each.

\* An accepted story gets a number and comes to be in the lists of all its
\* keywords, if it does not expire before: the build thread is not kept waiting
\* for ever, neither for the lists it must create nor by the stories before it.
StoriesListed ==
  []<>(\A n \in 1 .. Accepted :
         \/ n \in collected \union leaked
         \/ n \in DOMAIN att /\ \A t \in Keywords[att[n]] : n \in index[t])

\* Story i has a posting that expires within the modelled time.
Expiring(i) == \E t \in Tokens : i \in index[t] /\ timestamp[t][i] + Life < MaxTime

\* A posting that expires is erased,
ExpiredErased == []<>(\A i \in Ids : ~Expiring(i))

\* and so is the attachment, unless a posting was pushed between the two halves
\* of clearing, to be erased uncollected.
ExpiredDeleted ==
  \A i \in Ids : Expiring(i) ~> i \notin DOMAIN att \/ i \in leaked

-----------------------------------------------------------------------------
\* What readers see: iterations skip what lies after the end mark, and what does
\* is or will be collected, or is erased uncollected.
Promise == INSTANCE StoryIndex WITH
  pending <- (IF bpc = "attach" THEN <<story>> ELSE <<>>) \o doc_pool,
  count   <- counter - 1,
  listed  <- [t \in Tokens |-> index[t] \ Doomed(t)],
  gone    <- collected \union leaked \union UNION {Doomed(t) : t \in Tokens}

\* Building, marking, clearing and deleting, interleaved, keep what the index
\* promises to its readers, in the runs in which no push and erase of one list
\* overlap: the attachment is there before the first posting and
\* no number is used twice; a number is listed only under keywords of its story,
\* or after it left another list, and keeps its story until it leaves a list; it
\* leaves one only by lying after the mark, so that creating lists never replaces
\* one that exists.
ImplementsStoryIndex == Promise!IndexSpec
=============================================================================
