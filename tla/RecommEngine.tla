---------------------------- MODULE RecommEngine ----------------------------
(***************************************************************************)
(* The two services of the server over the index and the story profile     *)
(* storage: StoryManagementHandler::add_story writes both, one after the   *)
(* other; RecommEngineHandler::query reads them, through RetrievalHandler  *)
(* and IndexReader, while stories are added and expire.                    *)
(*                                                                         *)
(* The index is StoryIndex, and with it this module describes the runs in  *)
(* which no iteration of a posting list outlives the clean-up's sleep.  A  *)
(* story is the profile that add_story is called with; the hash of its id  *)
(* is the key of the storage and all that the index hands out.  Profiles   *)
(* of one hash are versions of one story: it may be added again with other *)
(* keywords and another signature.  Users are fixed: their profiles come   *)
(* from redis.  The ranking plugin is external: it picks and orders        *)
(* candidates.                                                             *)
(***************************************************************************)
EXTENDS StoryIndex, FiniteSets, FiniteSetsExt, Functions

CONSTANTS
  Hash,          \* CityHash64 of a story's id
  Signature,     \* StoryProfile.signature
  PoolSize,      \* stories the index takes before it refuses one
  Users,         \* user profiles: [keywords, history]
  Urls,          \* hashes of the pages a query comes from
  TopNs,         \* RecommendationRequest.topN
  RatioNum, RatioDen,  \* hit_keywords_ratio
  MaxDocReturns, \* the values of the flag max_doc_return
  MaxDocs,       \* bound: stories accepted
  NULL

\* Hashes of story ids are not as small as local ids, which IndexReader takes
\* for hashes when a translation fails.
ASSUME ConstantsAssumption ==
  /\ \A p \in Stories : Hash[p] \notin 1 .. MaxDocs
  /\ {RatioNum, RatioDen, MaxDocs, PoolSize} \union MaxDocReturns \subseteq Nat
  /\ Tokens \subseteq Int /\ IsFiniteSet(Tokens)
  /\ Keywords \in [Stories -> SUBSET Tokens]
  /\ TopNs \subseteq Int
  /\ \A u \in Users : u.keywords \subseteq Tokens

VARIABLES
  limit,       \* max_doc_return, as the server was started
  profiles,    \* story profile storage: hash -> story
  adding,      \* add_story: the calls that have passed the index
  qpc,         \* query: where it is,
  user,        \*   the user profile,
  wanted,      \*   the keywords of the retrieval request,
  next,        \*   the next keyword to look up,
  first,       \*   the number its list began with, or 0 outside of a list,
  hits,        \*   m_doc_hits_info: number -> number of keywords hit,
  found,       \*   the result set: <<hash, score>>,
  results,     \*   the results of retrieval still to be considered,
  candidates,  \*   the profiles to rank,
  code,        \*   response_code
  reply,       \*   and results of the response: hashes
  accepted,    \* history: stories the index accepted
  unstored,    \* history: <<hash, status>> of calls whose profile was not stored
  present,     \* history: numbers listed everywhere when the query began
  unread,      \* history: hashes whose profile the query could not read
  resigned,    \* history: hashes whose signature changed during the query
  repeated     \* history: stories that were hit twice by one keyword

store   == <<profiles, adding>>
query   == <<qpc, user, wanted, next, first, hits, found, results, candidates, code,
             reply>>
history == <<accepted, unstored, present, unread, resigned, repeated>>
vars    == <<limit, indexVars, store, query, history>>

-----------------------------------------------------------------------------
(* The index runs by itself; numbering, listing and expiry as promised.    *)

Index ==
  /\ \/ Attach
     \/ \E t \in Tokens : List(t)
     \/ \E t \in Tokens, i \in Numbers : i \in listed[t] /\ Withdraw(t, {i})
     \/ \E i \in gone : i \in DOMAIN att /\ Forget({i})
  /\ UNCHANGED <<store, query, history>>

-----------------------------------------------------------------------------
(* StoryManagementHandler::add_story.                                      *)

\* InstantIndex::AddStory; a full doc pool ends the call with SMS_ERROR, leaving
\* these calls to go on.
AddToIndexElse(p, calls) ==
  /\ \/ /\ Len(pending) < PoolSize
        /\ count + Len(pending) < MaxDocs
        /\ Accept(p)
        /\ adding' = adding \union {p}
        /\ accepted' = accepted \union {p}
     \/ /\ Len(pending) >= PoolSize
        /\ adding' = calls
        /\ UNCHANGED <<indexVars, accepted>>
  /\ UNCHANGED <<profiles, query, unstored, present, unread, resigned, repeated>>

\* Mutant: the return is missing.
AddToIndexThrough(p) == AddToIndexElse(p, adding \union {p})

AddToIndex(p) == AddToIndexElse(p, adding)

\* StoryProfileStorage::AddProfile.  If it fails the status becomes SMS_ERROR, but
\* the call does not end there: SMS_OK is assigned next.
AddProfile(p) ==
  /\ p \in adding
  /\ adding' = adding \ {p}
  /\ LET h == Hash[p]
     IN  \/ /\ profiles' = [x \in DOMAIN profiles \union {h} |->
                              IF x = h THEN p ELSE profiles[x]]
            /\ resigned' = IF /\ qpc # "idle" /\ h \in DOMAIN profiles
                              /\ Signature[p] # Signature[profiles[h]]
                           THEN resigned \union {h} ELSE resigned
            /\ UNCHANGED unstored
         \/ /\ unstored' = unstored \union {<<h, "SMS_OK">>}
            /\ UNCHANGED <<profiles, resigned>>
  /\ UNCHANGED <<indexVars, query, accepted, present, unread, repeated>>

-----------------------------------------------------------------------------
(* RecommEngineHandler::query: the profiles.                               *)

\* StoryProfileStorage::GetProfile: NULL if there is no profile or it cannot be
\* read.
GetProfile(h) ==
  (IF h \in DOMAIN profiles THEN {profiles[h]} ELSE {}) \union {NULL}

Respond(c, r) ==
  /\ qpc' = "done"
  /\ code' = c
  /\ reply' = r

\* The keys of a std::map, in the order of its iterators: a set of one sequence.
InOrder(K) ==
  {q \in [1 .. Cardinality(K) -> K] : \A k, l \in DOMAIN q : k < l => q[k] < q[l]}

\* The profiles of the user and of the story that is being read, and the keywords
\* of both, which may repeat; without a story profile the answer is RRC_ERROR.
Begin(u, h) ==
  /\ qpc = "idle"
  /\ \E p \in GetProfile(h) :
       \/ /\ p # NULL
          /\ user' = u
          /\ \E q \in InOrder(u.keywords), w \in InOrder(Keywords[p]) : wanted' = q \o w
          /\ next' = 1
          /\ qpc' = "retrieve"
          /\ UNCHANGED <<code, reply>>
       \/ /\ p = NULL
          /\ Respond("RRC_ERROR", <<>>)
          /\ UNCHANGED <<user, wanted, next>>
  /\ present' = {i \in DOMAIN att \ gone :
                   /\ Hash[att[i]] \in DOMAIN profiles
                   /\ \A t \in Keywords[att[i]] : i \in listed[t]}
  /\ UNCHANGED <<indexVars, store, first, hits, found, results, candidates, accepted,
                 unstored, unread, resigned, repeated>>

-----------------------------------------------------------------------------
(* RetrievalHandler::retrieve.                                             *)

\* Mutants: the keyword replaces those hit before; it counts by its weight.
AgainLast(h)     == 1
AgainWeighted(h) == h + 2

\* The keywords that hit a number, h of them before: push_back.
Again(h) == h + 1

\* addHitKeywordToDocInfo for the numbers in S.
Hit(S) ==
  [i \in DOMAIN hits \union S |->
     IF i \notin S THEN hits[i] ELSE IF i \in DOMAIN hits THEN Again(hits[i]) ELSE 1]

\* IndexReader::beginIntersect, a turn of the outer loop: GetPostingList, HasValue
\* and GetValue find the newest number in the list of the next keyword, if any.
LookupFirst ==
  /\ qpc = "retrieve"
  /\ next <= Len(wanted) /\ first = 0
  /\ LET S == listed[wanted[next]]
     IN  \/ /\ S = {}
            /\ next' = next + 1
            /\ UNCHANGED <<first, hits>>
         \/ /\ S # {}
            /\ first' = Max(S)
            /\ hits' = Hit({Max(S)})
            /\ UNCHANGED next
  /\ UNCHANGED <<indexVars, store, qpc, user, wanted, found, results, candidates,
                 code, reply, history>>

\* The rest of the inner loop.  Next moves to k, which is a newer number if one was
\* listed after GetValue: then the first one comes again.
LookupRest ==
  /\ first # 0
  /\ LET S == listed[wanted[next]]
     IN  \E k \in {i \in S : i > first} \union {first} :
           /\ hits' = Hit({i \in S : i < k})
           /\ repeated' = repeated \union
                            {att[i] : i \in {j \in S \intersect DOMAIN att : j = first /\ j < k}}
  /\ next' = next + 1 /\ first' = 0
  /\ UNCHANGED <<indexVars, store, qpc, user, wanted, found, results, candidates,
                 code, reply, accepted, unstored, present, unread, resigned>>

\* Mutant: documents with a hit are all good enough.
AnyHit(score) == score > 0

\* compute_rank counts the keywords hit: score < ratio * keywords.size() is not
\* enough.
Enough(score) == score * RatioDen >= RatioNum * Len(wanted)

\* nextDoc, in the order of the local ids: a number that does not translate any
\* more is used as it is.
NextDoc ==
  /\ qpc = "retrieve"
  /\ next > Len(wanted)
  /\ DOMAIN hits # {}
  /\ LET i == Min(DOMAIN hits)
         h == IF i \in DOMAIN att THEN Hash[att[i]] ELSE i
     IN  /\ found' = IF Enough(hits[i]) THEN Append(found, <<h, hits[i]>>) ELSE found
         /\ hits' = [j \in DOMAIN hits \ {i} |-> hits[j]]
  /\ UNCHANGED <<indexVars, store, qpc, user, wanted, next, first, results, candidates,
                 code, reply, history>>

\* The members of S in any order.
Orders(S) == Bijection(1 .. Cardinality(S), S)

\* Mutant: the order is not that of the scores.
SortedAny(f) == {[k \in DOMAIN f |-> f[p[k]]] : p \in Orders(DOMAIN f)}

\* result_set::dump: std::sort by score, in any order among equals.
Sorted(f) ==
  {[k \in DOMAIN f |-> f[p[k]]] :
     p \in {q \in Orders(DOMAIN f) :
              \A k, l \in DOMAIN f : k < l => f[q[k]][2] >= f[q[l]][2]}}

\* Mutant: the last document is lost at the limit.
CapBelow(n) == IF n >= limit THEN limit - 1 ELSE n

\* doc_num > max_doc_return ? max_doc_return : doc_num
Cap(n) == IF n > limit THEN limit ELSE n

\* makeReply; its code is STATE_OK even if nothing was found.
MakeReply ==
  /\ qpc = "retrieve"
  /\ next > Len(wanted)
  /\ DOMAIN hits = {}
  /\ \E f \in Sorted(found) : results' = SubSeq(f, 1, Cap(Len(f)))
  /\ qpc' = "filter"
  /\ UNCHANGED <<indexVars, store, user, wanted, next, first, hits, found, candidates,
                 code, reply, history>>

-----------------------------------------------------------------------------
(* RecommEngineHandler::query: candidates and ranking.                     *)

\* Mutants: what the user has read is not skipped; existence is never filled.
ReadNothing(h) == FALSE
KnownNever(p)  == FALSE

\* user_profile.history and existence contain it.
Read(h)  == h \in user.history
Known(p) == \E k \in DOMAIN candidates : Signature[candidates[k]] = Signature[p]

\* One turn of the candidate loop: skip what the user has read, what has no
\* profile, and what looks like an earlier candidate.
Filter ==
  /\ qpc = "filter"
  /\ results # <<>>
  /\ results' = Tail(results)
  /\ LET h == Head(results)[1]
     IN  \/ /\ Read(h)
            /\ UNCHANGED <<candidates, unread>>
         \/ /\ ~Read(h)
            /\ \E p \in GetProfile(h) :
                 /\ candidates' = IF p = NULL \/ Known(p) THEN candidates
                                  ELSE Append(candidates, p)
                 /\ unread' = IF p = NULL THEN unread \union {h} ELSE unread
  /\ UNCHANGED <<indexVars, store, qpc, user, wanted, next, first, hits, found, code,
                 reply, accepted, unstored, present, resigned, repeated>>

\* What remains of a response of n results: topN is cast to an unsigned type, so
\* that a negative one keeps them all.
Kept(topN, n) == IF topN < 0 THEN n ELSE Min({topN, n})

\* IAlgoPlugin::Rank puts some candidates in some order and returns their number,
\* or another one if it fails; then the response is truncated.
Rank ==
  /\ qpc = "filter"
  /\ results = <<>>
  /\ \/ /\ candidates = <<>>
        /\ Respond("RRC_NO_CANDIDATE", <<>>)
     \/ \E S \in SUBSET DOMAIN candidates : \E p \in Orders(S) :
          LET r == [k \in DOMAIN p |-> Hash[candidates[p[k]]]]
          IN  \/ /\ candidates # <<>>
                 /\ Respond("RRC_ERROR", r)
              \/ /\ candidates # <<>> /\ r = <<>>
                 /\ Respond("RRC_EMPTY_RANK_RESULT", r)
              \/ /\ r # <<>>
                 /\ \E topN \in TopNs :
                      Respond("RRC_OK", SubSeq(r, 1, Kept(topN, Len(r))))
  /\ UNCHANGED <<indexVars, store, user, wanted, next, first, hits, found, results,
                 candidates, history>>

\* The response is sent, and what belongs to the call is gone.
Return ==
  /\ qpc = "done"
  /\ qpc' = "idle" /\ user' = NULL /\ wanted' = <<>> /\ next' = 0 /\ first' = 0
  /\ hits' = [i \in {} |-> 0] /\ found' = <<>> /\ results' = <<>> /\ candidates' = <<>>
  /\ code' = NULL /\ reply' = <<>>
  /\ present' = {} /\ unread' = {} /\ resigned' = {} /\ repeated' = {}
  /\ UNCHANGED <<indexVars, store, accepted, unstored>>

Query ==
  \/ \E u \in Users, h \in Urls : Begin(u, h)
  \/ LookupFirst
  \/ LookupRest
  \/ NextDoc
  \/ MakeReply
  \/ Filter
  \/ Rank
  \/ Return

-----------------------------------------------------------------------------
Init ==
  /\ limit \in MaxDocReturns
  /\ IndexInit
  /\ profiles = [h \in {} |-> NULL]
  /\ adding = {}
  /\ accepted = {} /\ unstored = {}
  /\ qpc = "idle" /\ user = NULL /\ wanted = <<>> /\ next = 0 /\ first = 0
  /\ hits = [i \in {} |-> 0] /\ found = <<>> /\ results = <<>> /\ candidates = <<>>
  /\ code = NULL /\ reply = <<>>
  /\ present = {} /\ unread = {} /\ resigned = {} /\ repeated = {}

Next ==
  /\ \/ Index
     \/ \E p \in Stories : AddToIndex(p) \/ AddProfile(p)
     \/ Query
  /\ UNCHANGED limit

Spec == Init /\ [][Next]_vars

-----------------------------------------------------------------------------
Hashes == {Hash[p] : p \in Stories}

TypeOK ==
  /\ limit \in MaxDocReturns
  /\ pending \in Seq(Stories)
  /\ count \in 0 .. MaxDocs
  /\ DOMAIN att \subseteq Numbers /\ Range(att) \subseteq Stories
  /\ listed \in [Tokens -> SUBSET Numbers]
  /\ gone \subseteq Numbers
  /\ \A h \in DOMAIN profiles : profiles[h] \in Stories /\ Hash[profiles[h]] = h
  /\ adding \subseteq Stories
  /\ qpc \in {"idle", "retrieve", "filter", "done"}
  /\ user \in Users \union {NULL}
  /\ wanted \in Seq(Tokens)
  /\ next \in 0 .. Len(wanted) + 1
  /\ first \in Numbers \union {0}
  /\ DOMAIN hits \subseteq Numbers /\ Range(hits) \subseteq 1 .. 2 * Len(wanted)
  /\ {r[1] : r \in Range(found) \union Range(results)} \subseteq Hashes \union Numbers
  /\ candidates \in Seq(Stories)
  /\ code \in {NULL, "RRC_ERROR", "RRC_NO_CANDIDATE", "RRC_EMPTY_RANK_RESULT", "RRC_OK"}
  /\ reply \in Seq(Hashes)
  /\ accepted \subseteq Stories /\ unstored \subseteq Hashes \X {"SMS_OK", "SMS_ERROR"}
  /\ present \subseteq Numbers
  /\ unread \subseteq Hashes \union Numbers
  /\ resigned \subseteq Hashes
  /\ repeated \subseteq Stories

\* The keywords of the request that story p has.
Matches(p) == Cardinality({k \in DOMAIN wanted : wanted[k] \in Keywords[p]})

\* Story p has enough of the keywords.  At the front of a list, when the next one
\* was listed while it was read, it is counted twice for that keyword.
Deserves(p) ==
  \E m \in {Matches(p)} \union (IF p \in repeated THEN {2 * Matches(p)} ELSE {}) :
    m * RatioDen >= RatioNum * Len(wanted)

\* What query returns is new to the user and was accepted with enough keywords of
\* the request, although lists, translations and profiles are read one by one while
\* numbers expire, lose their story and stories are added.  A story that was added
\* again is returned for the keywords of any version that is still listed.
RecommendedMatches ==
  \A k \in DOMAIN reply :
    /\ reply[k] \notin user.history
    /\ \E p \in accepted : Hash[p] = reply[k] /\ Deserves(p)

\* "used in dedup": no two candidates have one signature, and no story is returned
\* twice, though it may be indexed twice, unless this very story was added again,
\* with another signature, during the query.
NoneTwice ==
  /\ \A k, l \in DOMAIN candidates :
       k # l => Signature[candidates[k]] # Signature[candidates[l]]
  /\ \A k, l \in DOMAIN reply : k # l /\ reply[k] = reply[l] => reply[k] \in resigned

\* More than max_doc_return results score at least what story p has to.
Outdone(p) == Cardinality({k \in DOMAIN found : found[k][2] >= Matches(p)}) > limit

\* A story that is indexed and has a profile before the query begins, and does not
\* expire before it has been considered, is considered: it or one that looks like
\* it is a candidate, unless max_doc_return others score as well, its profile could
\* not be read or its signature changed.
NoneMissed ==
  qpc = "filter" /\ results = <<>> =>
    \A i \in present \ gone :
      LET p == att[i]
      IN  \/ Matches(p) = 0 \/ ~Enough(Matches(p)) \/ Outdone(p)
          \/ Read(Hash[p]) \/ Hash[p] \in unread \union resigned
          \/ Known(profiles[Hash[p]])

\* The two stores agree: apart from calls on their way from one to the other and
\* from profiles that could not be stored, of which the callers are not told, the
\* stories with a profile are those the index accepted.
StoresAgree ==
  /\ {Hash[p] : p \in accepted} =
       DOMAIN profiles \union {a[1] : a \in unstored} \union {Hash[p] : p \in adding}
  /\ \A a \in unstored : a[2] = "SMS_OK"
=============================================================================
