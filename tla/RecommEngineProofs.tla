--------------------------- MODULE RecommEngineProofs ---------------------------
(***************************************************************************)
(* Safety of RecommEngine, for any stories, keywords, users, limits and    *)
(* number of stories.  The inductive invariant IInv follows a query: what  *)
(* a number's hits count while the lists are read one after the other, and *)
(* what becomes of it in the result set, the candidates and the reply,     *)
(* while the index and add_story go on.                                    *)
(***************************************************************************)
EXTENDS RecommEngine, TLAPS

\* The index deals with stories it accepted.
IndexType ==
  /\ pending \in Seq(accepted)
  /\ count \in Nat /\ count + Len(pending) <= MaxDocs
  /\ DOMAIN att \subseteq Numbers /\ \A i \in DOMAIN att : att[i] \in accepted
  /\ listed \in [Tokens -> SUBSET Numbers]
  /\ gone \subseteq Numbers

StoreType ==
  /\ limit \in MaxDocReturns
  /\ \A h \in DOMAIN profiles : profiles[h] \in Stories /\ Hash[profiles[h]] = h
  /\ adding \subseteq Stories

CallType ==
  /\ qpc \in {"idle", "retrieve", "filter", "done"}
  /\ user \in Users \union {NULL}
  /\ wanted \in Seq(Tokens)
  /\ code \in {NULL, "RRC_ERROR", "RRC_NO_CANDIDATE", "RRC_EMPTY_RANK_RESULT", "RRC_OK"}

\* Keywords are looked up one after the other; each hits a number twice at most.
RetrievalType ==
  /\ next \in 0 .. Len(wanted) + 1
  /\ first \in Numbers \union {0}
  /\ qpc = "retrieve" => next >= 1
  /\ first # 0 => qpc = "retrieve" /\ next <= Len(wanted)
  /\ DOMAIN hits \subseteq Numbers
  /\ \A i \in DOMAIN hits :
       hits[i] \in 1 .. 2 * (next - 1) + (IF first = 0 THEN 0 ELSE 1)

\* An entry of the result set: a hash or a number that did not translate, and a
\* score.
Entry == (Hashes \union Numbers) \X Nat

ResultsType ==
  /\ found \in Seq(Entry)
  /\ results \in Seq(Entry)
  /\ candidates \in Seq(Stories)
  /\ reply \in Seq(Hashes)

HistoryType ==
  /\ accepted \subseteq Stories /\ unstored \subseteq Hashes \X {"SMS_OK", "SMS_ERROR"}
  /\ present \subseteq Numbers
  /\ unread \subseteq Hashes \union Numbers
  /\ resigned \subseteq Hashes
  /\ repeated \subseteq Stories

\* What is empty at each stage of a query.
Fresh ==
  /\ qpc = "idle" => found = <<>> /\ unread = {} /\ repeated = {} /\ present = {}
  /\ qpc # "retrieve" => DOMAIN hits = {}
  /\ qpc # "filter" => results = <<>>
  /\ qpc \in {"idle", "retrieve"} => candidates = <<>>
  /\ qpc # "done" => reply = <<>>
  /\ qpc = "retrieve" /\ found # <<>> => next > Len(wanted)

\* A number is listed under keywords of its story, and so is the one that the list
\* at hand began with.
ListedRight ==
  \A t \in Tokens : \A i \in listed[t] \intersect DOMAIN att : t \in Keywords[att[i]]

FirstRight == first \in DOMAIN att => wanted[next] \in Keywords[att[first]]

\* The first n keywords of the request that story p has.
Upto(p, n) == {k \in 1 .. n : wanted[k] \in Keywords[p]}

\* How many keywords number i has been looked up with.
Turn(i) == IF i = first THEN next ELSE next - 1

\* No number has more hits than keywords, unless it was at the front of a list when
\* the next one was listed: then each keyword counts twice at most.
HitsAtMost ==
  qpc = "retrieve" =>
    \A i \in DOMAIN hits \intersect DOMAIN att :
      \/ hits[i] <= Cardinality(Upto(att[i], Turn(i)))
      \/ /\ att[i] \in repeated
         /\ hits[i] <= 2 * Cardinality(Upto(att[i], next - 1)) + (IF i = first THEN 1 ELSE 0)

\* A version of the story with hash h was accepted and has enough of the keywords,
\* or seemed to.
Eligible(h) ==
  \E p \in accepted :
    /\ Hash[p] = h
    /\ Enough(Matches(p)) \/ (p \in repeated /\ Enough(2 * Matches(p)))

\* A story that may be returned.
Suggestible(h) == h \in DOMAIN profiles /\ h \notin user.history /\ Eligible(h)

\* What goes through the result set, the candidates and the reply.
Filtered ==
  /\ \A k \in DOMAIN found : found[k][1] \in Hashes => Eligible(found[k][1])
  /\ \A k \in DOMAIN results : results[k][1] \in Hashes => Eligible(results[k][1])
  /\ \A k \in DOMAIN candidates : Suggestible(Hash[candidates[k]])
  /\ \A k \in DOMAIN reply : Suggestible(reply[k])

\* Candidates differ in their signatures, which are those of their profiles.
Signed ==
  /\ \A k, l \in DOMAIN candidates :
       k # l => Signature[candidates[k]] # Signature[candidates[l]]
  /\ \A k \in DOMAIN candidates :
       \/ Hash[candidates[k]] \in resigned
       \/ Signature[profiles[Hash[candidates[k]]]] = Signature[candidates[k]]
  /\ \A k, l \in DOMAIN reply : k # l /\ reply[k] = reply[l] => reply[k] \in resigned

\* What was listed everywhere when the query began still is, unless it is gone.
StillPresent ==
  \A i \in present \ gone :
    /\ i \in DOMAIN att /\ Hash[att[i]] \in DOMAIN profiles
    /\ \A t \in Keywords[att[i]] : i \in listed[t]

\* No such number is newer than the one the list at hand began with.
FirstNewest ==
  first # 0 =>
    \A i \in present \ gone : wanted[next] \in Keywords[att[i]] => i <= first

\* No such number has fewer hits than keywords; with enough of them it gets into
\* the result set.
Covered ==
  qpc = "retrieve" =>
    \A i \in present \ gone :
      \/ Cardinality(Upto(att[i], Turn(i))) = 0
      \/ i \in DOMAIN hits /\ hits[i] >= Cardinality(Upto(att[i], Turn(i)))
      \/ next > Len(wanted) /\ ~Enough(Matches(att[i]))
      \/ /\ next > Len(wanted)
         /\ \E k \in DOMAIN found :
              found[k][1] = Hash[att[i]] /\ found[k][2] >= Matches(att[i])

\* Such a story is still to be considered, or has been.
Considered ==
  qpc = "filter" =>
    \A i \in present \ gone :
      \/ Matches(att[i]) = 0 \/ ~Enough(Matches(att[i])) \/ Outdone(att[i])
      \/ \E k \in DOMAIN results : results[k][1] = Hash[att[i]]
      \/ Read(Hash[att[i]]) \/ Hash[att[i]] \in unread
      \/ Hash[att[i]] \in resigned \/ Known(profiles[Hash[att[i]]])

IInv ==
  /\ IndexType /\ StoreType /\ CallType /\ RetrievalType /\ ResultsType /\ HistoryType
  /\ StoresAgree /\ Fresh /\ ListedRight /\ FirstRight /\ HitsAtMost /\ Filtered /\ Signed
  /\ StillPresent /\ FirstNewest /\ Covered /\ Considered
-----------------------------------------------------------------------------
(* Steps that leave a part of the state alone.                             *)

\* The keywords a story shares with the request depend on the request only.
LEMMA SameRequest ==
  ASSUME UNCHANGED wanted
  PROVE  /\ \A s, n : Upto(s, n)' = Upto(s, n)
         /\ \A s : Matches(s)' = Matches(s)
         /\ \A n : Enough(n)' = Enough(n)
         /\ UNCHANGED <<accepted, repeated>> => \A h : Eligible(h)' <=> Eligible(h)
<1>1. \A s, n : Upto(s, n)' = Upto(s, n)
  BY Zenon DEF Upto
<1>2. \A s : Matches(s)' = Matches(s)
  BY Zenon DEF Matches
<1>3. \A n : Enough(n)' = Enough(n)
  BY Zenon DEF Enough
<1>4. UNCHANGED <<accepted, repeated>> => \A h : Eligible(h)' <=> Eligible(h)
  BY <1>2, <1>3, Zenon DEF Eligible
<1> QED BY <1>1, <1>2, <1>3, <1>4, Zenon

\* What a step leaves alone keeps the part of the invariant about it.
LEMMA Frames ==
  ASSUME UNCHANGED limit, IInv
  PROVE  /\ UNCHANGED <<pending, count, att, listed, gone, accepted>> => IndexType'
         /\ UNCHANGED <<att, listed>> => ListedRight'
         /\ UNCHANGED <<att, first, wanted, next>> => FirstRight'
         /\ UNCHANGED <<profiles, adding>> => StoreType'
         /\ UNCHANGED <<qpc, user, wanted, code>> => CallType'
         /\ UNCHANGED <<next, first, qpc, wanted, hits, count>> => RetrievalType'
         /\ UNCHANGED <<found, results, candidates, reply, count>> => ResultsType'
         /\ UNCHANGED <<accepted, unstored, present, unread, resigned, repeated, count>>
              => HistoryType'
         /\ UNCHANGED <<accepted, profiles, unstored, adding>> => StoresAgree'
         /\ UNCHANGED <<qpc, found, unread, repeated, present, hits, results, candidates,
                        reply, next, wanted>> => Fresh'
         /\ UNCHANGED <<qpc, hits, att, repeated, wanted, first, next>> => HitsAtMost'
         /\ UNCHANGED <<found, results, candidates, reply, repeated, wanted, user,
                        profiles, accepted>> => Filtered'
         /\ UNCHANGED <<candidates, resigned, profiles, reply>> => Signed'
         /\ UNCHANGED <<present, gone, att, profiles, listed>> => StillPresent'
         /\ UNCHANGED <<first, next, wanted, present, gone, att>> => FirstNewest'
         /\ UNCHANGED <<qpc, hits, present, gone, att, wanted, first, next, found>>
              => Covered'
         /\ UNCHANGED <<qpc, found, results, present, gone, att, wanted, user, unread,
                        resigned, candidates, profiles>> => Considered'
<1> USE DEF IInv
<1>1. UNCHANGED <<pending, count, att, listed, gone, accepted>> => IndexType'
  BY Zenon DEF IndexType, Numbers
<1>2. UNCHANGED <<profiles, adding>> => StoreType'
  BY Zenon DEF StoreType
<1>3. UNCHANGED <<qpc, user, wanted, code>> => CallType'
  BY Zenon DEF CallType
<1>4. UNCHANGED <<next, first, qpc, wanted, hits, count>> => RetrievalType'
  BY Zenon DEF RetrievalType, Numbers
<1>5. UNCHANGED <<found, results, candidates, reply, count>> => ResultsType'
  BY Zenon DEF ResultsType, Entry, Numbers
<1>6. UNCHANGED <<accepted, unstored, present, unread, resigned, repeated, count>>
        => HistoryType'
  BY Zenon DEF HistoryType, Numbers
<1>7. UNCHANGED <<accepted, profiles, unstored, adding>> => StoresAgree'
  BY Zenon DEF StoresAgree
<1>8. UNCHANGED <<qpc, found, unread, repeated, present, hits, results, candidates,
                  reply, next, wanted>> => Fresh'
  BY Zenon DEF Fresh
<1>9. UNCHANGED <<qpc, hits, att, repeated, wanted, first, next>> => HitsAtMost'
  BY Zenon DEF HitsAtMost, Upto, Turn
<1>10. UNCHANGED <<found, results, candidates, reply, repeated, wanted, user, profiles,
                   accepted>> => Filtered'
  <2> SUFFICES ASSUME UNCHANGED <<found, results, candidates, reply, repeated, wanted,
                                  user, profiles, accepted>>
               PROVE  Filtered'
    BY Zenon
  <2>1. \A h : Eligible(h)' <=> Eligible(h)
    BY SameRequest, Zenon
  <2>2. \A h : Suggestible(h)' <=> Suggestible(h)
    BY <2>1, Zenon DEF Suggestible
  <2> QED BY <2>1, <2>2, Zenon DEF Filtered
<1>11. UNCHANGED <<candidates, resigned, profiles, reply>> => Signed'
  BY DEF Signed
<1>12. UNCHANGED <<present, gone, att, profiles, listed>> => StillPresent'
  BY Zenon DEF StillPresent
<1>13. UNCHANGED <<first, next, wanted, present, gone, att>> => FirstNewest'
  BY Zenon DEF FirstNewest
<1>14. UNCHANGED <<qpc, hits, present, gone, att, wanted, first, next, found>>
         => Covered'
  <2> SUFFICES ASSUME UNCHANGED <<qpc, hits, present, gone, att, wanted, first, next, found>>
               PROVE  Covered'
    BY Zenon
  <2>1. \A i : Turn(i)' = Turn(i)
    BY Zenon DEF Turn
  <2> QED BY <2>1, SameRequest DEF Covered
<1>15. UNCHANGED <<qpc, found, results, present, gone, att, wanted, user, unread,
                   resigned, candidates, profiles>> => Considered'
  <2>1. UNCHANGED candidates => \A g : Known(g)' <=> Known(g)
    BY Zenon DEF Known
  <2>2. UNCHANGED user => \A s : Read(s)' <=> Read(s)
    BY Zenon DEF Read
  <2>3. UNCHANGED <<wanted, found>> => \A s : Outdone(s)' <=> Outdone(s)
    BY Zenon DEF Outdone, Matches
  <2> QED BY <2>1, <2>2, <2>3, SameRequest DEF Considered
<1>16. UNCHANGED <<att, listed>> => ListedRight'
  BY Zenon DEF ListedRight
<1>17. UNCHANGED <<att, first, wanted, next>> => FirstRight'
  BY Zenon DEF FirstRight
<1> QED BY <1>1, <1>2, <1>3, <1>4, <1>5, <1>6, <1>7, <1>8, <1>9, <1>10, <1>11, <1>12,
           <1>13, <1>14, <1>15, <1>16, <1>17, Zenon

-----------------------------------------------------------------------------
(* The index.                                                              *)

\* A sequence of members of a set is one of members of any larger set.
LEMMA SeqLarger ==
  ASSUME NEW S, NEW T, S \subseteq T, NEW q \in Seq(S)
  PROVE  q \in Seq(T)
<1>1. Len(q) \in Nat /\ q \in [1 .. Len(q) -> T]
  OBVIOUS
<1> QED BY <1>1

\* What Append does to a sequence.
LEMMA AppendSeq ==
  ASSUME NEW S, NEW q \in Seq(S), NEW e \in S
  PROVE  Append(q, e) \in Seq(S) /\ Len(Append(q, e)) = Len(q) + 1
OBVIOUS

\* What the index may do to the numbers a query deals with: a new number is larger
\* than all of them, a translation goes away or stays what it is, and only a number
\* that is gone loses its translation or its place in a list.
Moves ==
  /\ count' \in Nat /\ count <= count' /\ gone \subseteq gone'
  /\ \A i \in Numbers : i \in DOMAIN att' => i \in DOMAIN att /\ att'[i] = att[i]
  /\ \A i \in DOMAIN att \ gone' : i \in DOMAIN att'
  /\ \A t \in Tokens : \A i \in listed[t] \ gone' : i \in listed'[t]

\* Attach gives the next number to the next pending story: no older one changes.
LEMMA AttachMoves ==
  ASSUME IndexType, ListedRight, UNCHANGED accepted, Attach
  PROVE  IndexType' /\ ListedRight' /\ Moves
<1>1. /\ pending # <<>> /\ pending' = Tail(pending) /\ count' = count + 1
      /\ att' = [i \in DOMAIN att \union {count'} |->
                   IF i = count' THEN Head(pending) ELSE att[i]]
      /\ UNCHANGED <<listed, gone>>
  BY Zenon DEF Attach
<1>2. /\ pending \in Seq(accepted) /\ Len(pending) \in Nat /\ Len(pending) >= 1
      /\ Head(pending) \in accepted /\ Tail(pending) \in Seq(accepted)
      /\ Len(Tail(pending)) = Len(pending) - 1
  BY <1>1 DEF IndexType
<1>3. count \in Nat /\ count + Len(pending) <= MaxDocs /\ MaxDocs \in Nat
  BY ConstantsAssumption, Zenon DEF IndexType
<1>4. Numbers \subseteq Numbers' /\ count + 1 \in Numbers' /\ count + 1 \notin Numbers
  BY <1>1, <1>3 DEF Numbers
<1>5. /\ DOMAIN att' = DOMAIN att \union {count + 1}
      /\ att'[count + 1] = Head(pending)
      /\ \A i \in DOMAIN att : i # count + 1 /\ att'[i] = att[i]
  BY <1>1, <1>4, Zenon DEF IndexType
<1>6. count' + Len(pending') <= MaxDocs /\ count' \in Nat /\ count <= count'
  BY <1>1, <1>2, <1>3
<1>7. listed' \in [Tokens -> SUBSET Numbers']
  <2>1. \A t \in Tokens : listed[t] \subseteq Numbers
    BY Zenon DEF IndexType
  <2> QED BY <1>1, <1>4, <2>1, Zenon DEF IndexType
<1>8. DOMAIN att' \subseteq Numbers' /\ \A i \in DOMAIN att' : att'[i] \in accepted
  BY <1>2, <1>4, <1>5, Zenon DEF IndexType
<1>9. IndexType'
  BY <1>1, <1>2, <1>4, <1>6, <1>7, <1>8, Zenon DEF IndexType
<1>10. ListedRight'
  <2>1. \A t \in Tokens : listed[t] \subseteq Numbers
    BY Zenon DEF IndexType
  <2> QED BY <1>1, <1>4, <1>5, <2>1 DEF ListedRight
<1>11. Moves
  <2>1. \A i \in Numbers : i \in DOMAIN att' => i \in DOMAIN att /\ att'[i] = att[i]
    BY <1>4, <1>5, Zenon
  <2> QED BY <1>1, <1>5, <1>6, <2>1, Zenon DEF Moves
<1> QED BY <1>9, <1>10, <1>11, Zenon

\* List puts the newest number on the list of a keyword that its story has.
LEMMA ListMoves ==
  ASSUME IndexType, ListedRight, UNCHANGED accepted, NEW t \in Tokens, List(t)
  PROVE  IndexType' /\ ListedRight' /\ Moves
<1>1. /\ count \in Numbers
      /\ IF count \in DOMAIN att THEN t \in Keywords[att[count]] ELSE count \in gone
      /\ listed' = [listed EXCEPT ![t] = @ \union {count}]
      /\ UNCHANGED <<pending, count, att, gone>>
  BY Zenon DEF List
<1>2. listed \in [Tokens -> SUBSET Numbers] /\ count \in Nat
  BY Zenon DEF IndexType
<1>3. \A u \in Tokens : listed'[u] = IF u = t THEN listed[t] \union {count} ELSE listed[u]
  BY <1>1, <1>2, Zenon
<1>4. Numbers' = Numbers
  BY <1>1, Zenon DEF Numbers
<1>5. listed' \in [Tokens -> SUBSET Numbers]
  BY <1>1, <1>2, Zenon
<1>6. IndexType'
  BY <1>1, <1>4, <1>5, Zenon DEF IndexType
<1>7. ListedRight'
  <2> SUFFICES ASSUME NEW u \in Tokens, NEW i \in listed'[u], i \in DOMAIN att
               PROVE  u \in Keywords[att[i]]
    BY <1>1, Zenon DEF ListedRight
  <2>1. i \in listed[u] \/ (u = t /\ i = count)
    BY <1>3, Zenon
  <2> QED BY <1>1, <2>1, Zenon DEF ListedRight
<1>8. Moves
  BY <1>1, <1>2, <1>3 DEF Moves
<1> QED BY <1>6, <1>7, <1>8, Zenon

\* Withdraw takes a number off a list, and the number is gone.
LEMMA WithdrawMoves ==
  ASSUME IndexType, ListedRight, UNCHANGED accepted, NEW t \in Tokens, NEW n \in Numbers, Withdraw(t, {n})
  PROVE  IndexType' /\ ListedRight' /\ Moves
<1>1. /\ listed' = [listed EXCEPT ![t] = @ \ {n}]
      /\ gone' = gone \union {n}
      /\ UNCHANGED <<pending, count, att>>
  BY Zenon DEF Withdraw
<1>2. listed \in [Tokens -> SUBSET Numbers] /\ count \in Nat
  BY Zenon DEF IndexType
<1>3. \A u \in Tokens : listed'[u] = IF u = t THEN listed[t] \ {n} ELSE listed[u]
  BY <1>1, <1>2, Zenon
<1>4. Numbers' = Numbers
  BY <1>1, Zenon DEF Numbers
<1>5. listed' \in [Tokens -> SUBSET Numbers]
  BY <1>1, <1>2, Zenon
<1>6. IndexType'
  BY <1>1, <1>4, <1>5, Zenon DEF IndexType
<1>7. ListedRight'
  BY <1>1, <1>3 DEF ListedRight
<1>8. Moves
  <2>1. \A u \in Tokens : \A i \in listed[u] \ gone' : i \in listed'[u]
    BY <1>1, <1>3
  <2> QED BY <1>1, <1>2, <2>1 DEF Moves
<1> QED BY <1>6, <1>7, <1>8, Zenon

\* Forget drops the story of a number that is gone.
LEMMA ForgetMoves ==
  ASSUME IndexType, ListedRight, UNCHANGED accepted, NEW n \in gone, Forget({n})
  PROVE  IndexType' /\ ListedRight' /\ Moves
<1>1. /\ att' = [i \in DOMAIN att \ {n} |-> att[i]]
      /\ UNCHANGED <<pending, count, listed, gone>>
  BY Zenon DEF Forget
<1>2. /\ DOMAIN att' = DOMAIN att \ {n}
      /\ \A i \in DOMAIN att \ {n} : att'[i] = att[i]
  BY <1>1, Zenon
<1>3. Numbers' = Numbers /\ count \in Nat
  BY <1>1, Zenon DEF Numbers, IndexType
<1>4. IndexType'
  BY <1>1, <1>2, <1>3, Zenon DEF IndexType
<1>5. ListedRight'
  BY <1>1, <1>2, Zenon DEF ListedRight
<1>6. Moves
  BY <1>1, <1>2, <1>3 DEF Moves
<1> QED BY <1>4, <1>5, <1>6, Zenon

\* The index goes on during a query.
LEMMA IndexInv ==
  ASSUME UNCHANGED limit, IInv, Index
  PROVE  IInv'
<1> USE DEF IInv
<1>1. IndexType' /\ ListedRight' /\ Moves
  <2>1. UNCHANGED accepted
    BY Zenon DEF Index, history
  <2> QED BY <2>1, AttachMoves, ListMoves, WithdrawMoves, ForgetMoves, Zenon DEF Index
<1>2. UNCHANGED <<profiles, adding, qpc, user, wanted, next, first, hits, found,
                  results, candidates, code, reply, accepted, unstored, present, unread,
                  resigned, repeated>>
  BY Zenon DEF Index, store, query, history
<1>3. Numbers \subseteq Numbers'
  BY <1>1 DEF Moves, Numbers, IndexType
<1>4. Entry \subseteq Entry'
  BY <1>3, Zenon DEF Entry
<1>5. RetrievalType'
  BY <1>2, <1>3, Zenon DEF RetrievalType
<1>6. ResultsType'
  <2>1. found \in Seq(Entry') /\ results \in Seq(Entry')
    BY <1>4, SeqLarger, Zenon DEF ResultsType
  <2> QED BY <1>2, <2>1, Zenon DEF ResultsType
<1>7. HistoryType'
  BY <1>2, <1>3, Zenon DEF HistoryType
<1>8. HitsAtMost'
  <2>1. \A i \in DOMAIN hits : i \in DOMAIN att' => i \in DOMAIN att /\ att'[i] = att[i]
    BY <1>1, Zenon DEF Moves, RetrievalType
  <2>2. \A i : Turn(i)' = Turn(i)
    BY <1>2, Zenon DEF Turn
  <2> QED BY <1>2, <2>1, <2>2, SameRequest, Zenon DEF HitsAtMost
<1>9. \A i \in present \ gone' : /\ i \in present \ gone /\ i \in DOMAIN att
                                 /\ i \in DOMAIN att' /\ att'[i] = att[i]
  BY <1>1, Zenon DEF Moves, StillPresent, HistoryType
<1>10. StillPresent'
  <2>1. ASSUME NEW i \in present \ gone', NEW t \in Keywords[att[i]]
        PROVE  i \in listed'[t]
    <3>1. i \in listed[t] /\ att[i] \in Stories
      BY <1>9, <2>1, Zenon DEF StillPresent, IndexType, HistoryType
    <3>2. t \in Tokens
      BY <2>1, <3>1, ConstantsAssumption, Zenon
    <3> QED BY <1>1, <2>1, <3>1, <3>2, Zenon DEF Moves
  <2> QED BY <1>2, <1>9, <2>1, Zenon DEF StillPresent
<1>11. FirstNewest' /\ FirstRight'
  <2>1. FirstNewest'
    BY <1>2, <1>9, Zenon DEF FirstNewest
  <2>2. first \in DOMAIN att' => first \in DOMAIN att /\ att'[first] = att[first]
    <3>1. 0 \notin DOMAIN att'
      BY <1>1 DEF IndexType, Numbers
    <3> QED BY <1>1, <3>1, Zenon DEF Moves, RetrievalType
  <2> QED BY <1>2, <2>1, <2>2, Zenon DEF FirstRight
<1>12. Covered'
  <2>1. \A i : Turn(i)' = Turn(i)
    BY <1>2, Zenon DEF Turn
  <2> QED BY <1>2, <1>9, <2>1, SameRequest DEF Covered
<1>13. Considered'
  <2>1. \A g : Known(g)' <=> Known(g)
    BY <1>2, Zenon DEF Known
  <2>2. \A s : Read(s)' <=> Read(s)
    BY <1>2, Zenon DEF Read
  <2>3. \A s : Outdone(s)' <=> Outdone(s)
    BY <1>2, Zenon DEF Outdone, Matches
  <2> QED BY <1>2, <1>9, <2>1, <2>2, <2>3, SameRequest DEF Considered
<1> QED BY <1>1, <1>2, <1>5, <1>6, <1>7, <1>8, <1>10, <1>11, <1>12, <1>13, Frames, Zenon

-----------------------------------------------------------------------------
(* add_story.                                                              *)

\* The first half of add_story: the story goes to the doc pool, or is refused.
LEMMA AddToIndexInv ==
  ASSUME UNCHANGED limit, IInv, NEW p \in Stories, AddToIndex(p)
  PROVE  IInv'
<1> USE DEF IInv
<1>1. UNCHANGED <<count, att, listed, gone, profiles, qpc, user, wanted, next, first,
                  hits, found, results, candidates, code, reply, unstored, present, unread,
                  resigned, repeated>>
  BY Zenon DEF AddToIndex, AddToIndexElse, Accept, query, indexVars
<1>2. \/ /\ adding' = adding \union {p} /\ accepted' = accepted \union {p}
         /\ pending' = Append(pending, p) /\ count + Len(pending) < MaxDocs
      \/ adding' = adding /\ accepted' = accepted /\ pending' = pending
  BY Zenon DEF AddToIndex, AddToIndexElse, Accept, indexVars
<1>3. accepted \subseteq accepted' /\ Numbers' = Numbers
  BY <1>1, <1>2, Zenon DEF Numbers
<1>4. IndexType'
  <2>1. CASE UNCHANGED <<pending, accepted>>
    BY <1>1, <2>1, Frames, Zenon
  <2>2. CASE /\ accepted' = accepted \union {p}
             /\ pending' = Append(pending, p) /\ count + Len(pending) < MaxDocs
    <3>1. pending \in Seq(accepted') /\ p \in accepted'
      BY <1>3, <2>2, SeqLarger, Zenon DEF IndexType
    <3>2. pending' \in Seq(accepted') /\ Len(pending') = Len(pending) + 1
      BY <2>2, <3>1, AppendSeq, Zenon
    <3>3. count' + Len(pending') <= MaxDocs
      <4>1. MaxDocs \in Nat /\ count \in Nat /\ count' = count /\ pending \in Seq(accepted)
        BY <1>1, ConstantsAssumption, Zenon DEF IndexType
      <4>2. Len(pending) \in Nat
        BY <4>1
      <4> QED BY <2>2, <3>2, <4>1, <4>2
    <3>4. \A i \in DOMAIN att : att[i] \in accepted'
      BY <1>3, Zenon DEF IndexType
    <3> QED BY <1>1, <1>3, <3>2, <3>3, <3>4, Zenon DEF IndexType
  <2> QED BY <1>2, <2>1, <2>2, Zenon
<1>5. StoreType'
  BY <1>1, <1>2, Zenon DEF StoreType
<1>6. HistoryType'
  BY <1>1, <1>2, <1>3, Zenon DEF HistoryType
<1>7. StoresAgree'
  <2>1. CASE adding' = adding \union {p} /\ accepted' = accepted \union {p}
    <3>1. /\ {Hash[q] : q \in accepted'} = {Hash[q] : q \in accepted} \union {Hash[p]}
          /\ {Hash[q] : q \in adding'} = {Hash[q] : q \in adding} \union {Hash[p]}
      BY <2>1
    <3> QED BY <1>1, <3>1, Zenon DEF StoresAgree
  <2>2. CASE UNCHANGED <<adding, accepted>>
    BY <1>1, <2>2, Frames, Zenon
  <2> QED BY <1>2, <2>1, <2>2, Zenon
<1>8. Filtered'
  <2>1. \A h : Eligible(h) => Eligible(h)'
    BY <1>1, <1>3, SameRequest, Zenon DEF Eligible
  <2>2. \A h : Suggestible(h) => Suggestible(h)'
    BY <1>1, <2>1, Zenon DEF Suggestible
  <2> QED BY <1>1, <2>1, <2>2, Zenon DEF Filtered
<1> QED BY <1>1, <1>4, <1>5, <1>6, <1>7, <1>8, Frames, Zenon

\* A profile is stored, or is not.
LEMMA AddProfileInv ==
  ASSUME UNCHANGED limit, IInv, NEW p \in Stories, AddProfile(p)
  PROVE  IInv'
<1> USE DEF IInv
<1> DEFINE h == Hash[p]
           Resigns == /\ qpc # "idle" /\ h \in DOMAIN profiles
                      /\ Signature[p] # Signature[profiles[h]]
<1>1. /\ p \in adding /\ adding' = adding \ {p}
      /\ UNCHANGED <<pending, count, att, listed, gone, qpc, user, wanted, next, first,
                     hits, found, results, candidates, code, reply, accepted, present,
                     unread, repeated>>
  BY Zenon DEF AddProfile, query, indexVars
<1>2. h \in Hashes /\ Numbers' = Numbers
  BY <1>1, Zenon DEF Hashes, Numbers
<1>3. CASE UNCHANGED <<profiles, resigned>> /\ unstored' = unstored \union {<<h, "SMS_OK">>}
  <2>1. StoreType'
    BY <1>1, <1>3, Zenon DEF StoreType
  <2> DEFINE b == <<h, "SMS_OK">>
  <2>2. b \in Hashes \X {"SMS_OK", "SMS_ERROR"} /\ b[1] = h /\ b[2] = "SMS_OK"
    BY <1>2, Zenon
  <2>3. unstored' = unstored \union {b}
    BY <1>3, Zenon
  <2> HIDE DEF b
  <2>4. HistoryType'
    BY <1>1, <1>2, <1>3, <2>2, <2>3, Zenon DEF HistoryType
  <2>5. StoresAgree'
    <3>1. {a[1] : a \in unstored'} = {a[1] : a \in unstored} \union {h}
      <4> HIDE DEF h
      <4> QED BY <2>2, <2>3
    <3>2. \A a \in unstored' : a[2] = "SMS_OK"
      BY <2>2, <2>3, Zenon DEF StoresAgree
    <3>3. {Hash[q] : q \in adding} = {Hash[q] : q \in adding'} \union {h}
      BY <1>1
    <3> QED BY <1>1, <1>3, <3>1, <3>2, <3>3, Zenon DEF StoresAgree
  <2> QED BY <1>1, <1>3, <2>1, <2>4, <2>5, Frames, Zenon
<1>4. CASE /\ profiles' = [x \in DOMAIN profiles \union {h} |->
                             IF x = h THEN p ELSE profiles[x]]
           /\ resigned' = IF Resigns THEN resigned \union {h} ELSE resigned
           /\ UNCHANGED unstored
  <2>1. /\ DOMAIN profiles' = DOMAIN profiles \union {h} /\ profiles'[h] = p
        /\ \A x \in DOMAIN profiles \ {h} : profiles'[x] = profiles[x]
    BY <1>4, Zenon
  <2>2. StoreType'
    BY <1>1, <1>2, <2>1, Zenon DEF StoreType
  <2>3. HistoryType'
    <3>1. resigned' \subseteq Hashes
      BY <1>2, <1>4, Zenon DEF HistoryType
    <3> QED BY <1>1, <1>2, <1>4, <3>1, Zenon DEF HistoryType
  <2>4. StoresAgree'
    BY <1>1, <1>4, <2>1 DEF StoresAgree
  <2>5. Filtered'
    <3>1. \A x : Eligible(x)' <=> Eligible(x)
      BY <1>1, SameRequest, Zenon DEF Eligible
    <3>2. \A x : Suggestible(x) => Suggestible(x)'
      BY <1>1, <2>1, <3>1, Zenon DEF Suggestible
    <3> QED BY <1>1, <3>1, <3>2, Zenon DEF Filtered
  <2>6. /\ resigned \subseteq resigned'
        /\ qpc # "idle" => \A x \in DOMAIN profiles :
             x \in resigned' \/ Signature[profiles'[x]] = Signature[profiles[x]]
    <3>1. resigned \subseteq resigned'
      BY <1>4, Zenon
    <3>2. ASSUME qpc # "idle", NEW x \in DOMAIN profiles
          PROVE  x \in resigned' \/ Signature[profiles'[x]] = Signature[profiles[x]]
      BY <1>4, <2>1, <3>2, Zenon
    <3> QED BY <3>1, <3>2, Zenon
  <2>7. Signed'
    <3>1. \A k \in DOMAIN candidates : Hash[candidates[k]] \in DOMAIN profiles
      BY Zenon DEF Filtered, Suggestible
    <3>2. qpc = "idle" => DOMAIN candidates = {}
      BY DEF Fresh
    <3>3. \A k \in DOMAIN candidates :
            \/ Hash[candidates[k]] \in resigned'
            \/ Signature[profiles'[Hash[candidates[k]]]] = Signature[candidates[k]]
      <4> SUFFICES ASSUME NEW k \in DOMAIN candidates, Hash[candidates[k]] \notin resigned'
                   PROVE  Signature[profiles'[Hash[candidates[k]]]] = Signature[candidates[k]]
        BY Zenon
      <4>1. Hash[candidates[k]] \notin resigned /\ Hash[candidates[k]] \in DOMAIN profiles
        BY <2>6, <3>1, Zenon
      <4>2. Signature[profiles[Hash[candidates[k]]]] = Signature[candidates[k]]
        BY <4>1, Zenon DEF Signed
      <4>3. Signature[profiles'[Hash[candidates[k]]]] = Signature[profiles[Hash[candidates[k]]]]
        BY <2>6, <3>2, <4>1, Zenon
      <4> QED BY <4>2, <4>3, Zenon
    <3>4. \A k, l \in DOMAIN reply : k # l /\ reply[k] = reply[l] => reply[k] \in resigned'
      BY <2>6, Zenon DEF Signed
    <3>5. \A k, l \in DOMAIN candidates :
            k # l => Signature[candidates[k]] # Signature[candidates[l]]
      BY Zenon DEF Signed
    <3> QED BY <1>1, <3>3, <3>4, <3>5, ZenonT(30) DEF Signed
  <2>8. StillPresent'
    BY <1>1, <2>1, Zenon DEF StillPresent
  <2>9. Considered'
    <3>2. \A x : Read(x)' <=> Read(x)
      BY <1>1, Zenon DEF Read
    <3>3. \A i \in present \ gone : Hash[att[i]] \in DOMAIN profiles
      BY Zenon DEF StillPresent
    <3>4. \A x : Outdone(x)' <=> Outdone(x)
      BY <1>1, Zenon DEF Outdone, Matches
    <3>5. qpc = "filter" => \A i \in present \ gone :
            Hash[att[i]] \in resigned' \/ (Known(profiles[Hash[att[i]]]) =>
                                             Known(profiles[Hash[att[i]]])')
      <4> SUFFICES ASSUME qpc = "filter", NEW i \in present \ gone,
                          Hash[att[i]] \notin resigned', Known(profiles[Hash[att[i]]])
                   PROVE  Known(profiles[Hash[att[i]]])'
        BY Zenon
      <4>1. Signature[profiles'[Hash[att[i]]]] = Signature[profiles[Hash[att[i]]]]
        BY <2>6, <3>3, Zenon
      <4> QED BY <1>1, <4>1, Zenon DEF Known
    <3> QED BY <1>1, <2>6, <3>2, <3>4, <3>5, SameRequest DEF Considered
  <2> QED BY <1>1, <1>4, <2>2, <2>3, <2>4, <2>5, <2>7, <2>8, <2>9, Frames, Zenon
<1> QED BY <1>3, <1>4, Zenon DEF AddProfile

-----------------------------------------------------------------------------
(* query: the profiles and the lookups.                                    *)

\* What the proofs use of finite sets.  It is proved at the end of the module, where
\* the library's theorems are brought in: the steps above it have less to carry.
SetFacts ==
  /\ \A S \in SUBSET Nat : S # {} => \E d \in S : \A e \in S : d <= e
  /\ \A n \in Nat : IsFiniteSet(1 .. n) /\ Cardinality(1 .. n) = n
  /\ \A S, T : IsFiniteSet(T) /\ S \subseteq T => IsFiniteSet(S)
  /\ \A S : IsFiniteSet(S) => Cardinality(S) \in Nat
  /\ \A S, x : IsFiniteSet(S) /\ x \notin S => Cardinality(S \union {x}) = Cardinality(S) + 1
  /\ \A S, T, f : IsFiniteSet(T) /\ f \in [S -> T] /\ IsInjective(f) =>
                   Cardinality(S) <= Cardinality(T)
  /\ Cardinality({}) = 0

\* The keys of a map make a sequence.
LEMMA InOrderSeq ==
  ASSUME SetFacts, NEW K \in SUBSET Tokens, NEW q \in InOrder(K)
  PROVE  q \in Seq(Tokens)
<1>1. IsFiniteSet(K)
  BY ConstantsAssumption, Zenon DEF SetFacts
<1>2. Cardinality(K) \in Nat
  BY <1>1, Zenon DEF SetFacts
<1>3. q \in [1 .. Cardinality(K) -> Tokens]
  BY Zenon DEF InOrder
<1> QED BY <1>2, <1>3

\* A query begins: nothing has been looked up.
LEMMA BeginInv ==
  ASSUME SetFacts, UNCHANGED limit, IInv, NEW u \in Users, NEW h \in Urls, Begin(u, h)
  PROVE  IInv'
<1> USE DEF IInv
<1>1. /\ qpc = "idle"
      /\ UNCHANGED <<pending, count, att, listed, gone, profiles, adding, first,
                     hits, found, results, candidates, accepted, unstored, unread, resigned,
                     repeated>>
      /\ present' = {i \in DOMAIN att \ gone :
                       /\ Hash[att[i]] \in DOMAIN profiles
                       /\ \A t \in Keywords[att[i]] : i \in listed[t]}
  BY Zenon DEF Begin, store, indexVars
<1>2. \/ /\ user' = u /\ next' = 1 /\ qpc' = "retrieve" /\ UNCHANGED <<code, reply>>
         /\ \E p \in Stories : \E q \in InOrder(u.keywords), w \in InOrder(Keywords[p]) :
              wanted' = q \o w
      \/ /\ qpc' = "done" /\ code' = "RRC_ERROR" /\ reply' = <<>>
         /\ UNCHANGED <<user, wanted, next>>
  <2>1. \A p \in GetProfile(h) : p # NULL => p \in Stories
    BY Zenon DEF GetProfile, StoreType
  <2> QED BY <2>1, Zenon DEF Begin, Respond
<1>3. /\ found = <<>> /\ DOMAIN hits = {} /\ results = <<>> /\ candidates = <<>>
      /\ reply = <<>> /\ first = 0
  BY <1>1, Zenon DEF Fresh, RetrievalType
<1>4. reply' = reply
  BY <1>2, <1>3, Zenon
<1>5. wanted' \in Seq(Tokens) /\ Len(wanted') \in Nat
  <2>1. CASE UNCHANGED wanted
    BY <2>1 DEF CallType
  <2>2. ASSUME NEW p \in Stories,
               \E q \in InOrder(u.keywords), w \in InOrder(Keywords[p]) : wanted' = q \o w
        PROVE  wanted' \in Seq(Tokens) /\ Len(wanted') \in Nat
    <3>1. PICK q \in InOrder(u.keywords), w \in InOrder(Keywords[p]) : wanted' = q \o w
      BY <2>2, Zenon
    <3>2. u.keywords \in SUBSET Tokens /\ Keywords[p] \in SUBSET Tokens
      BY ConstantsAssumption, Zenon
    <3>3. q \in Seq(Tokens) /\ w \in Seq(Tokens)
      BY <3>1, <3>2, InOrderSeq, Zenon
    <3> QED BY <3>1, <3>3
  <2> QED BY <1>2, <2>1, <2>2, Zenon
<1>6. CallType'
  BY <1>2, <1>5, Zenon DEF CallType
<1>7. Numbers' = Numbers
  BY <1>1, Zenon DEF Numbers
<1>8. RetrievalType'
  <2>1. next' \in 0 .. Len(wanted') + 1 /\ (qpc' = "retrieve" => next' >= 1)
    <3>1. CASE next' = 1 /\ qpc' = "retrieve"
      BY <1>5, <3>1
    <3>2. CASE UNCHANGED <<wanted, next>> /\ qpc' = "done"
      BY <3>2, Zenon DEF RetrievalType
    <3> QED BY <1>2, <3>1, <3>2, Zenon
  <2> QED BY <1>1, <1>3, <1>7, <2>1, Zenon DEF RetrievalType
<1>9. HistoryType'
  <2>1. present' \subseteq Numbers
    BY <1>1, Zenon DEF IndexType
  <2> QED BY <1>1, <1>7, <2>1, Zenon DEF HistoryType
<1>10. Fresh'
  BY <1>1, <1>2, <1>3, <1>4, Zenon DEF Fresh
<1>11. HitsAtMost'
  BY <1>1, <1>3, Zenon DEF HitsAtMost
<1>12. Filtered'
  BY <1>1, <1>3, <1>4 DEF Filtered
<1>13. StillPresent'
  BY <1>1, Zenon DEF StillPresent
<1>14. FirstNewest' /\ FirstRight'
  <2>1. 0 \notin DOMAIN att
    BY DEF IndexType, Numbers
  <2> QED BY <1>1, <1>3, <2>1, Zenon DEF FirstNewest, FirstRight
<1>15. Covered'
  <2>1. SUFFICES ASSUME qpc' = "retrieve", NEW i \in present'
                 PROVE  Cardinality(Upto(att[i], Turn(i))') = 0
    BY <1>1, Zenon DEF Covered
  <2>2. Turn(i)' = 0
    <3>1. i # 0 /\ next' = 1 /\ first' = 0
      BY <1>1, <1>2, <1>3, <2>1 DEF IndexType, Numbers
    <3> QED BY <3>1 DEF Turn
  <2>3. Upto(att[i], Turn(i))' = {}
    BY <2>2 DEF Upto
  <2> QED BY <2>3, Zenon DEF SetFacts
<1>16. Considered'
  BY <1>2, Zenon DEF Considered
<1> QED BY Zenon, <1>1, <1>4, <1>6, <1>8, <1>9, <1>10, <1>11, <1>12, <1>13, <1>14, <1>15, <1>16,
           Frames

\* One more keyword.
LEMMA UptoSize ==
  ASSUME SetFacts, NEW s, NEW n \in Nat
  PROVE  /\ Cardinality(Upto(s, n)) \in Nat
         /\ IsFiniteSet(Upto(s, n))
<1>1. IsFiniteSet(1 .. n)
  BY Zenon DEF SetFacts
<1>2. IsFiniteSet(Upto(s, n))
  BY <1>1, Zenon DEF SetFacts, Upto
<1> QED BY <1>2, Zenon DEF SetFacts

\* One more keyword looked up counts for the stories that have it.
LEMMA UptoNext ==
  ASSUME SetFacts, NEW s, NEW n \in Nat
  PROVE  Cardinality(Upto(s, n + 1)) =
           Cardinality(Upto(s, n)) + (IF wanted[n + 1] \in Keywords[s] THEN 1 ELSE 0)
<1> DEFINE U == Upto(s, n)
           V == Upto(s, n + 1)
<1>1. IsFiniteSet(U) /\ Cardinality(U) \in Nat
  BY UptoSize, Zenon
<1>2. n + 1 \notin U
  BY DEF Upto
<1>3. CASE wanted[n + 1] \in Keywords[s]
  <2>1. V = U \union {n + 1}
    BY <1>3 DEF Upto
  <2> HIDE DEF U, V
  <2>2. Cardinality(V) = Cardinality(U) + 1
    BY <1>1, <1>2, <2>1, Zenon DEF SetFacts
  <2> QED BY <1>3, <2>2, Zenon DEF U, V
<1>4. CASE wanted[n + 1] \notin Keywords[s]
  <2>1. V = U
    BY <1>4 DEF Upto
  <2> HIDE DEF U, V
  <2>2. Cardinality(V) = Cardinality(U) + 0
    BY <1>1, <2>1
  <2> QED BY <1>4, <2>2, Zenon DEF U, V
<1> QED BY <1>3, <1>4, Zenon

\* UptoNext, case by case.
LEMMA UptoGrows ==
  ASSUME SetFacts, NEW s, NEW n \in Nat
  PROVE  /\ Cardinality(Upto(s, n)) \in Nat /\ Cardinality(Upto(s, n + 1)) \in Nat
         /\ Cardinality(Upto(s, n)) <= Cardinality(Upto(s, n + 1))
         /\ wanted[n + 1] \notin Keywords[s] =>
              Cardinality(Upto(s, n + 1)) = Cardinality(Upto(s, n))
         /\ wanted[n + 1] \in Keywords[s] =>
              Cardinality(Upto(s, n + 1)) = Cardinality(Upto(s, n)) + 1
<1> DEFINE a == Cardinality(Upto(s, n))
           b == Cardinality(Upto(s, n + 1))
<1>1. n + 1 \in Nat
  OBVIOUS
<1>2. a \in Nat /\ b \in Nat
  BY <1>1, UptoSize, Zenon
<1>3. b = a + (IF wanted[n + 1] \in Keywords[s] THEN 1 ELSE 0)
  BY UptoNext, Zenon
<1> HIDE DEF a, b
<1>4. /\ a <= b
      /\ wanted[n + 1] \notin Keywords[s] => b = a
      /\ wanted[n + 1] \in Keywords[s] => b = a + 1
  BY <1>2, <1>3
<1> QED BY <1>2, <1>4, Zenon DEF a, b

\* addHitKeywordToDocInfo counts one more keyword for the numbers in S.
LEMMA HitCounts ==
  ASSUME NEW S
  PROVE  /\ DOMAIN Hit(S) = DOMAIN hits \union S
         /\ \A i \in DOMAIN hits \ S : Hit(S)[i] = hits[i]
         /\ \A i \in DOMAIN hits \intersect S : Hit(S)[i] = hits[i] + 1
         /\ \A i \in S \ DOMAIN hits : Hit(S)[i] = 1
BY Zenon DEF Hit, Again

\* Between two keywords, all numbers have been looked up with the same ones.
LEMMA HitsBound ==
  ASSUME UNCHANGED <<att, wanted>>, first' = 0, 0 \notin DOMAIN hits', NEW m,
         next' - 1 = m,
         \A i \in DOMAIN hits' \intersect DOMAIN att :
           \/ hits'[i] <= Cardinality(Upto(att[i], m))
           \/ /\ att[i] \in repeated'
              /\ hits'[i] <= 2 * Cardinality(Upto(att[i], m)) + 0
  PROVE  HitsAtMost'
<1>1. \A i \in DOMAIN hits' : Turn(i)' = m /\ i # first'
  BY Zenon DEF Turn
<1> QED BY <1>1, Zenon DEF HitsAtMost, Upto

\* A keyword whose list is empty.
LEMMA LookupNothing ==
  ASSUME SetFacts, UNCHANGED limit, IInv, LookupFirst, listed[wanted[next]] = {}
  PROVE  IInv'
<1> USE DEF IInv
<1>1. /\ qpc = "retrieve" /\ next <= Len(wanted) /\ first = 0
      /\ UNCHANGED <<pending, count, att, listed, gone, profiles, adding, qpc, user,
                     wanted, found, results, candidates, code, reply, accepted, unstored,
                     present, unread, resigned, repeated>>
      /\ next' = next + 1 /\ UNCHANGED <<first, hits>>
  BY ZenonT(30) DEF LookupFirst, store, indexVars, history
<1> DEFINE n == next - 1
<1>2. n \in Nat /\ n + 1 = next /\ next' - 1 = next /\ next \in Nat /\ Len(wanted) \in Nat
      /\ next' \in 0 .. Len(wanted) + 1 /\ next' >= 1
  BY <1>1 DEF RetrievalType, CallType
<1>3. \A i \in Numbers : Turn(i) = n /\ Turn(i)' = n + 1
  BY <1>1, <1>2 DEF Turn, Numbers, IndexType
<1>4. RetrievalType'
  <2>1. \A i \in DOMAIN hits : hits[i] \in 1 .. 2 * (next' - 1) + 0
    <3>1. \A i \in DOMAIN hits : hits[i] \in 1 .. 2 * (next - 1) + 0
      BY <1>1, Zenon DEF RetrievalType
    <3>2. next' = next + 1 /\ next \in Nat
      BY <1>1, <1>2, Zenon
    <3>3. ASSUME NEW x \in 1 .. 2 * (next - 1) + 0
          PROVE  x \in 1 .. 2 * (next' - 1) + 0
      BY <3>2
    <3> QED BY <3>1, <3>3, Zenon
  <2>2. Numbers' = Numbers
    BY <1>1, Zenon DEF Numbers
  <2> QED BY <1>1, <1>2, <2>1, <2>2, Zenon DEF RetrievalType
<1> HIDE DEF n
<1>5. \A s : /\ Cardinality(Upto(s, n)) \in Nat /\ Cardinality(Upto(s, n + 1)) \in Nat
             /\ Cardinality(Upto(s, n)) <= Cardinality(Upto(s, n + 1))
             /\ wanted[next] \notin Keywords[s] =>
                  Cardinality(Upto(s, n + 1)) = Cardinality(Upto(s, n))
  BY <1>2, UptoGrows, Zenon
<1>6. HitsAtMost'
  <2>1. SUFFICES ASSUME NEW i \in DOMAIN hits \intersect DOMAIN att
                 PROVE  \/ hits[i] <= Cardinality(Upto(att[i], n + 1))
                        \/ /\ att[i] \in repeated
                           /\ hits[i] <= 2 * Cardinality(Upto(att[i], n + 1)) + 0
    <3>1. 0 \notin DOMAIN hits
      BY DEF RetrievalType, Numbers
    <3>2. next' - 1 = n + 1
      BY <1>2, Zenon
    <3> QED BY <1>1, <3>1, <3>2, HitsBound, Zenon
  <2>2. i \in Numbers /\ hits[i] \in Int /\ i # 0
    BY DEF RetrievalType, Numbers, IndexType
  <2>3. \/ hits[i] <= Cardinality(Upto(att[i], n))
        \/ /\ att[i] \in repeated
           /\ hits[i] <= 2 * Cardinality(Upto(att[i], n)) + 0
    BY <1>1, <1>3, <2>1, <2>2, Zenon DEF HitsAtMost, n
  <2> QED BY <1>5, <2>2, <2>3
<1>7. Covered'
  <2>1. SUFFICES ASSUME NEW i \in present \ gone
                 PROVE  \/ Cardinality(Upto(att[i], Turn(i)')) = 0
                        \/ i \in DOMAIN hits /\ hits[i] >= Cardinality(Upto(att[i], Turn(i)'))
    BY <1>1, ZenonT(30) DEF Covered, Upto
  <2>2. i \in Numbers
    BY Zenon DEF HistoryType
  <2>3. wanted[next] \notin Keywords[att[i]]
    BY <2>1, Zenon DEF StillPresent
  <2>4. \/ Cardinality(Upto(att[i], n)) = 0
        \/ i \in DOMAIN hits /\ hits[i] >= Cardinality(Upto(att[i], n))
    BY <1>1, <1>2, <1>3, <2>1, <2>2 DEF Covered
  <2> QED BY <1>3, <1>5, <2>2, <2>3, <2>4, Zenon
<1>8. Fresh'
  <2>1. found = <<>>
    BY <1>1, <1>2 DEF Fresh
  <2> QED BY <1>1, <2>1, ZenonT(30) DEF Fresh
<1>9. FirstNewest' /\ FirstRight'
  <2>1. 0 \notin DOMAIN att
    BY DEF IndexType, Numbers
  <2> QED BY <1>1, <2>1, Zenon DEF FirstNewest, FirstRight
<1> QED BY <1>1, <1>4, <1>6, <1>7, <1>8, <1>9, Frames, Zenon

\* The newest number of a list is on the list, and none is newer.
LEMMA MaxInside ==
  ASSUME SetFacts, NEW n \in Nat, NEW S \in SUBSET (1 .. n), S # {}
  PROVE  Max(S) \in S /\ \A j \in S : j <= Max(S)
<1> DEFINE D == {n - i : i \in S}
<1>1. \A i \in S : i \in Int /\ n - i \in Nat
  OBVIOUS
<1>2. D \in SUBSET Nat /\ D # {}
  BY <1>1, Zenon
<1>3. PICK d \in D : \A e \in D : d <= e
  <2> HIDE DEF D
  <2> QED BY <1>2, Zenon DEF SetFacts
<1>4. PICK i \in S : d = n - i
  BY Zenon
<1>5. \A j \in S : n - i <= n - j
  BY <1>3, <1>4, Zenon
<1>6. \A j \in S : i >= j
  BY <1>1, <1>5
<1>7. Max(S) \in S /\ \A j \in S : Max(S) >= j
  BY <1>6, Zenon DEF Max
<1> QED BY <1>1, <1>7, Zenon

\* A keyword whose list is not: its newest number is hit.
LEMMA LookupNewest ==
  ASSUME SetFacts, UNCHANGED limit, IInv, LookupFirst, listed[wanted[next]] # {}
  PROVE  IInv'
<1> USE DEF IInv
<1> DEFINE t == wanted[next]
           S == listed[t]
           m == Max(S)
           n == next - 1
<1>1. /\ qpc = "retrieve" /\ next <= Len(wanted) /\ first = 0
      /\ UNCHANGED <<pending, count, att, listed, gone, profiles, adding, qpc, user,
                     wanted, found, results, candidates, code, reply, accepted, unstored,
                     present, unread, resigned, repeated>>
      /\ first' = m /\ hits' = Hit({m}) /\ UNCHANGED next
  BY Zenon DEF LookupFirst, store, indexVars, history
<1>2. n \in Nat /\ n + 1 = next /\ next \in 1 .. Len(wanted) /\ Len(wanted) \in Nat
  BY <1>1 DEF RetrievalType, CallType
<1>3. t \in Tokens /\ S \in SUBSET (1 .. count) /\ count \in Nat
  BY <1>2 DEF CallType, IndexType, Numbers
<1> HIDE DEF t, S
<1>4. m \in S /\ \A j \in S : j <= m
  BY <1>3, MaxInside, Zenon DEF t, S
<1> HIDE DEF m
<1>5. m \in Numbers /\ m # 0
  BY <1>3, <1>4 DEF Numbers
<1>6. /\ DOMAIN hits' = DOMAIN hits \union {m}
      /\ \A i \in DOMAIN hits \ {m} : hits'[i] = hits[i]
      /\ m \in DOMAIN hits => hits'[m] = hits[m] + 1
      /\ m \notin DOMAIN hits => hits'[m] = 1
  BY <1>1, HitCounts, Zenon
<1>7. \A i \in DOMAIN hits : hits[i] \in 1 .. 2 * n
  BY <1>1 DEF RetrievalType
<1>8. \A i \in DOMAIN hits' : hits'[i] \in 1 .. 2 * n + 1
  BY <1>2, <1>6, <1>7
<1>9. RetrievalType'
  <2>1. Numbers' = Numbers
    BY <1>1, Zenon DEF Numbers
  <2> QED BY <1>1, <1>2, <1>5, <1>6, <1>8, <2>1, Zenon DEF RetrievalType
<1>10. \A i \in Numbers : /\ Turn(i) = n
                          /\ Turn(i)' = IF i = m THEN n + 1 ELSE n
  BY <1>1, <1>2 DEF Turn, Numbers, IndexType
<1> HIDE DEF n
<1>11. \A s : /\ Cardinality(Upto(s, n)) \in Nat
              /\ t \in Keywords[s] =>
                   Cardinality(Upto(s, n + 1)) = Cardinality(Upto(s, n)) + 1
  BY <1>2, UptoGrows, Zenon DEF t
<1>12. HitsAtMost'
  <2>1. SUFFICES ASSUME NEW i \in DOMAIN hits' \intersect DOMAIN att
                 PROVE  \/ hits'[i] <= Cardinality(Upto(att[i], Turn(i)'))
                        \/ /\ att[i] \in repeated
                           /\ hits'[i] <= 2 * Cardinality(Upto(att[i], n)) +
                                            (IF i = m THEN 1 ELSE 0)
    BY <1>1, Zenon DEF HitsAtMost, Upto, n
  <2>2. i \in Numbers /\ i # 0
    BY DEF IndexType, Numbers
  <2>3. i \in DOMAIN hits =>
          /\ hits[i] \in Int
          /\ \/ hits[i] <= Cardinality(Upto(att[i], n))
             \/ /\ att[i] \in repeated
                /\ hits[i] <= 2 * Cardinality(Upto(att[i], n)) + 0
    <3>1. i \in DOMAIN hits => hits[i] \in Int
      BY <1>7
    <3> QED BY <1>1, <1>10, <2>1, <2>2, <3>1, Zenon DEF HitsAtMost, n
  <2>4. CASE i # m
    BY <1>6, <1>10, <2>2, <2>3, <2>4, Zenon
  <2>5. CASE i = m
    <3>1. t \in Keywords[att[i]]
      BY <1>3, <1>4, <2>5, Zenon DEF ListedRight, S
    <3>2. Turn(i)' = n + 1
      BY <1>10, <2>2, <2>5, Zenon
    <3> QED BY <1>6, <1>11, <2>3, <2>5, <3>1, <3>2
  <2> QED BY <2>4, <2>5, Zenon
<1>13. Covered'
  <2>1. SUFFICES ASSUME NEW i \in present \ gone
                 PROVE  \/ Cardinality(Upto(att[i], Turn(i)')) = 0
                        \/ i \in DOMAIN hits' /\ hits'[i] >= Cardinality(Upto(att[i], Turn(i)'))
    BY <1>1, ZenonT(30) DEF Covered, Upto
  <2>2. i \in Numbers /\ i \in DOMAIN att
    BY Zenon DEF HistoryType, StillPresent
  <2>3. \/ Cardinality(Upto(att[i], n)) = 0
        \/ i \in DOMAIN hits /\ hits[i] >= Cardinality(Upto(att[i], n))
    BY <1>1, <1>2, <1>10, <2>1, <2>2 DEF Covered
  <2>4. CASE i # m
    BY <1>6, <1>10, <2>2, <2>3, <2>4, Zenon
  <2>5. CASE i = m
    <3>1. t \in Keywords[att[i]]
      BY <1>3, <1>4, <2>2, <2>5, Zenon DEF ListedRight, S
    <3>2. Turn(i)' = n + 1
      BY <1>10, <2>2, <2>5, Zenon
    <3>3. Cardinality(Upto(att[i], n + 1)) = Cardinality(Upto(att[i], n)) + 1
      BY <1>11, <3>1, Zenon
    <3>4. i \in DOMAIN hits => hits[i] \in 1 .. 2 * n
      BY <1>7, Zenon
    <3>5. i \in DOMAIN hits' /\ hits'[i] >= Cardinality(Upto(att[i], n + 1))
      BY <1>2, <1>6, <1>11, <2>3, <2>5, <3>3, <3>4
    <3> QED BY <3>2, <3>5, Zenon
  <2> QED BY <2>4, <2>5, Zenon
<1>14. FirstNewest'
  <2>1. SUFFICES ASSUME NEW i \in present \ gone, t \in Keywords[att[i]]
                 PROVE  i <= m
    BY <1>1, Zenon DEF FirstNewest, t
  <2>2. i \in S
    BY <2>1, Zenon DEF StillPresent, S
  <2> QED BY <1>4, <2>2, Zenon
<1>15. Fresh'
  BY <1>1, Zenon DEF Fresh
<1>16. FirstRight'
  BY <1>1, <1>3, <1>4, Zenon DEF FirstRight, ListedRight, t, S
<1> QED BY <1>1, <1>9, <1>12, <1>13, <1>14, <1>15, <1>16, Frames, Zenon

\* The rest of a list.
LEMMA LookupRestInv ==
  ASSUME SetFacts, UNCHANGED limit, IInv, LookupRest
  PROVE  IInv'
<1> USE DEF IInv
<1> DEFINE t == wanted[next]
           S == listed[t]
           n == next - 1
<1>1. PICK k \in {i \in S : i > first} \union {first} :
           /\ hits' = Hit({i \in S : i < k})
           /\ repeated' = repeated \union
                            {att[i] : i \in {j \in S \intersect DOMAIN att : j = first /\ j < k}}
  BY Zenon DEF LookupRest
<1>2. /\ first # 0 /\ next' = next + 1 /\ first' = 0
      /\ UNCHANGED <<pending, count, att, listed, gone, profiles, adding, qpc, user,
                     wanted, found, results, candidates, code, reply, accepted, unstored,
                     present, unread, resigned>>
  BY Zenon DEF LookupRest, store, indexVars
<1>3. qpc = "retrieve" /\ next <= Len(wanted) /\ first \in Numbers
  BY <1>2, Zenon DEF RetrievalType
<1>4. n \in Nat /\ n + 1 = next /\ next \in 1 .. Len(wanted) /\ Len(wanted) \in Nat
      /\ next' = n + 2
  BY <1>2, <1>3 DEF RetrievalType, CallType
<1>5. t \in Tokens /\ S \in SUBSET (1 .. count) /\ count \in Nat
  BY <1>4 DEF CallType, IndexType, Numbers
<1> DEFINE H == {i \in S : i < k}
<1>6. k \in Nat /\ first \in Nat /\ first <= k /\ H \subseteq Numbers
  BY <1>1, <1>3, <1>5 DEF Numbers
<1>7. \A i \in Numbers : /\ Turn(i) = IF i = first THEN n + 1 ELSE n
                         /\ Turn(i)' = n + 1
  BY <1>2, <1>4 DEF Turn, Numbers, IndexType
<1>8. \A i \in DOMAIN hits : hits[i] \in 1 .. 2 * n + 1
  BY <1>2, Zenon DEF RetrievalType
<1>9. \A i \in S \intersect DOMAIN att : i = first /\ i \in H => att[i] \in repeated'
  BY <1>1, Zenon
<1>10. repeated \subseteq repeated' /\ repeated' \subseteq Stories
  BY <1>1, Zenon DEF IndexType, HistoryType
<1>11. hits' = Hit(H)
  BY <1>1, Zenon
<1>12. \A i \in S : i < first => i \in H
  BY <1>5, <1>6
<1>13. H \subseteq S
  BY Zenon
<1> HIDE DEF t, S, n, H
<1>14. /\ DOMAIN hits' = DOMAIN hits \union H
       /\ \A i \in DOMAIN hits \ H : hits'[i] = hits[i]
       /\ \A i \in DOMAIN hits \intersect H : hits'[i] = hits[i] + 1
       /\ \A i \in H \ DOMAIN hits : hits'[i] = 1
  BY <1>11, HitCounts, Zenon
<1>15. \A i \in DOMAIN hits' : hits'[i] \in 1 .. 2 * (n + 1)
  BY <1>4, <1>8, <1>14
<1>16. RetrievalType'
  <2>1. Numbers' = Numbers
    BY <1>2, Zenon DEF Numbers
  <2>2. DOMAIN hits' \subseteq Numbers
    BY <1>6, <1>14, Zenon DEF RetrievalType
  <2>3. 2 * (next' - 1) + 0 = 2 * (n + 1) /\ next' \in 0 .. Len(wanted) + 1 /\ next' >= 1
    BY <1>4
  <2> QED BY <1>2, <1>15, <2>1, <2>2, <2>3, Zenon DEF RetrievalType
<1>17. HistoryType'
  <2>1. Numbers' = Numbers
    BY <1>2, Zenon DEF Numbers
  <2> QED BY <1>2, <1>10, <2>1, Zenon DEF HistoryType
<1>18. Fresh'
  BY <1>2, <1>3, <1>4 DEF Fresh
<1>19. \A s : /\ Cardinality(Upto(s, n)) \in Nat
              /\ Cardinality(Upto(s, n + 1)) \in Nat
              /\ Cardinality(Upto(s, n)) <= Cardinality(Upto(s, n + 1))
              /\ t \notin Keywords[s] =>
                   Cardinality(Upto(s, n + 1)) = Cardinality(Upto(s, n))
              /\ t \in Keywords[s] =>
                   Cardinality(Upto(s, n + 1)) = Cardinality(Upto(s, n)) + 1
  BY <1>4, UptoGrows, Zenon DEF t
<1>20. HitsAtMost'
  <2>1. SUFFICES ASSUME NEW i \in DOMAIN hits' \intersect DOMAIN att
                 PROVE  \/ hits'[i] <= Cardinality(Upto(att[i], n + 1))
                        \/ /\ att[i] \in repeated'
                           /\ hits'[i] <= 2 * Cardinality(Upto(att[i], n + 1)) + 0
    <3>1. 0 \notin DOMAIN hits' /\ next' - 1 = n + 1
      BY <1>4, <1>16 DEF RetrievalType, Numbers
    <3> QED BY <1>2, <3>1, HitsBound, Zenon
  <2> DEFINE u == Cardinality(Upto(att[i], n))
             v == Cardinality(Upto(att[i], n + 1))
  <2>2. i \in Numbers
    BY Zenon DEF IndexType
  <2>3. /\ u \in Nat /\ v \in Nat /\ u <= v
        /\ t \in Keywords[att[i]] => v = u + 1
    BY <1>19, Zenon
  <2>4. i \in DOMAIN hits => hits[i] \in Int
    BY <1>8
  <2>5. i \in DOMAIN hits =>
          \/ hits[i] <= IF i = first THEN v ELSE u
          \/ /\ att[i] \in repeated
             /\ hits[i] <= 2 * u + (IF i = first THEN 1 ELSE 0)
    BY <1>3, <1>7, <2>1, <2>2, Zenon DEF HitsAtMost, n
  <2>6. i \in H \/ i = first => t \in Keywords[att[i]]
    BY <1>5, <1>13, <2>1, Zenon DEF ListedRight, FirstRight, S, t
  <2>7. i \in H /\ i = first => att[i] \in repeated'
    BY <1>9, <1>13, <2>1, Zenon
  <2>8. /\ i \in H /\ i \in DOMAIN hits => hits'[i] = hits[i] + 1
        /\ i \in H /\ i \notin DOMAIN hits => hits'[i] = 1
        /\ i \notin H => i \in DOMAIN hits /\ hits'[i] = hits[i]
    BY <1>14, <2>1, Zenon
  <2>9. att[i] \in repeated => att[i] \in repeated'
    BY <1>10, Zenon
  <2> HIDE DEF u, v
  <2>10. \/ hits'[i] <= v
         \/ att[i] \in repeated' /\ hits'[i] <= 2 * v + 0
    <3>1. CASE i \in H /\ i = first
      BY <2>3, <2>4, <2>5, <2>6, <2>7, <2>8, <3>1
    <3>2. CASE i \in H /\ i # first
      BY <2>3, <2>4, <2>5, <2>6, <2>8, <2>9, <3>2
    <3>3. CASE i \notin H
      BY <2>3, <2>4, <2>5, <2>6, <2>8, <2>9, <3>3
    <3> QED BY <3>1, <3>2, <3>3, Zenon
  <2> QED BY <2>10, Zenon DEF v
<1>21. Filtered'
  <2>1. \A s : Eligible(s) => Eligible(s)'
    BY <1>2, <1>10, SameRequest, Zenon DEF Eligible
  <2>2. \A s : Suggestible(s) => Suggestible(s)'
    BY <1>2, <2>1, Zenon DEF Suggestible
  <2> QED BY <1>2, <2>1, <2>2, Zenon DEF Filtered
<1>22. Covered'
  <2>1. SUFFICES ASSUME NEW i \in present \ gone
                 PROVE  \/ Cardinality(Upto(att[i], Turn(i)')) = 0
                        \/ i \in DOMAIN hits' /\ hits'[i] >= Cardinality(Upto(att[i], Turn(i)'))
    BY <1>2, ZenonT(30) DEF Covered, Upto
  <2>2. i \in Numbers /\ i \in DOMAIN att
    BY Zenon DEF HistoryType, StillPresent
  <2>3. \/ Cardinality(Upto(att[i], Turn(i))) = 0
        \/ i \in DOMAIN hits /\ hits[i] >= Cardinality(Upto(att[i], Turn(i)))
    BY <1>3, <1>4, <2>1 DEF Covered
  <2>4. Turn(i)' = n + 1
    BY <1>7, <2>2, Zenon
  <2>5. i \in DOMAIN hits => /\ i \in DOMAIN hits' /\ hits'[i] >= hits[i]
                             /\ hits[i] \in Int /\ hits'[i] \in Int /\ hits'[i] >= 1
    BY <1>4, <1>8, <1>14
  <2>6. CASE Turn(i) = n + 1
    BY <1>19, <2>3, <2>4, <2>5, <2>6
  <2>7. CASE Turn(i) # n + 1 /\ t \notin Keywords[att[i]]
    <3>1. Turn(i) = n
      BY <1>7, <2>2, <2>7, Zenon
    <3> QED BY <1>19, <2>3, <2>4, <2>5, <2>7, <3>1
  <2>8. CASE Turn(i) # n + 1 /\ t \in Keywords[att[i]]
    <3>1. Turn(i) = n /\ i # first
      BY <1>7, <2>2, <2>8, Zenon
    <3>2. i \in S
      BY <2>1, <2>8, Zenon DEF StillPresent, S
    <3>3. i <= first
      BY <1>2, <2>1, <2>8, Zenon DEF FirstNewest, t
    <3>4. i \in H
      BY <1>5, <1>6, <1>12, <3>1, <3>2, <3>3, SMTT(20)
    <3>5. i \in DOMAIN hits' /\ hits'[i] >= Cardinality(Upto(att[i], n)) + 1
      BY <1>14, <1>19, <2>3, <2>5, <3>1, <3>4
    <3> QED BY <1>19, <2>4, <2>8, <3>5, Zenon
  <2> QED BY <2>6, <2>7, <2>8, Zenon
<1>23. FirstNewest' /\ FirstRight'
  <2>1. 0 \notin DOMAIN att
    BY DEF IndexType, Numbers
  <2> QED BY <1>2, <2>1, Zenon DEF FirstNewest, FirstRight
<1> QED BY <1>2, <1>16, <1>17, <1>18, <1>20, <1>21, <1>22, <1>23, Frames, Zenon

-----------------------------------------------------------------------------
(* query: the result set.                                                  *)

\* All keywords looked up are all matches.
LEMMA MatchesUpto ==
  ASSUME SetFacts, wanted \in Seq(Tokens), NEW s
  PROVE  Matches(s) = Cardinality(Upto(s, Len(wanted))) /\ Matches(s) \in Nat
<1>1. DOMAIN wanted = 1 .. Len(wanted) /\ Len(wanted) \in Nat
  OBVIOUS
<1>2. Matches(s) = Cardinality(Upto(s, Len(wanted)))
  BY <1>1, Zenon DEF Matches, Upto
<1> QED BY <1>1, <1>2, UptoSize, Zenon

\* The least number of a set of numbers is in the set.
LEMMA MinInside ==
  ASSUME SetFacts, NEW n \in Nat, NEW S \in SUBSET (1 .. n), S # {}
  PROVE  Min(S) \in S
<1>1. S \in SUBSET Nat
  OBVIOUS
<1>2. PICK d \in S : \A e \in S : d <= e
  BY <1>1, Zenon DEF SetFacts
<1> QED BY <1>2, Zenon DEF Min

\* A larger score is enough if a smaller one is.
LEMMA EnoughLarger ==
  ASSUME NEW a \in Nat, NEW b \in Nat, a <= b, Enough(a), wanted \in Seq(Tokens)
  PROVE  Enough(b)
<1> DEFINE x == RatioNum * Len(wanted)
<1>1. RatioDen \in Nat /\ x \in Nat
  BY ConstantsAssumption
<1>2. a * RatioDen >= x
  BY Zenon DEF Enough
<1> HIDE DEF x
<1>3. b * RatioDen >= a * RatioDen
  BY <1>1
<1>4. a * RatioDen \in Nat /\ b * RatioDen \in Nat
  BY <1>1
<1> QED BY <1>1, <1>2, <1>3, <1>4 DEF Enough, x

\* What Append does to the entries of a sequence.
LEMMA Appended ==
  ASSUME NEW E, NEW q \in Seq(E), NEW e \in E
  PROVE  /\ Append(q, e) \in Seq(E)
         /\ Append(q, e)[Len(q) + 1] = e /\ Len(q) + 1 \in DOMAIN Append(q, e)
         /\ \A k \in DOMAIN q : /\ k \in DOMAIN Append(q, e) /\ Append(q, e)[k] = q[k]
                                /\ k # Len(q) + 1
         /\ \A k \in DOMAIN Append(q, e) : k \in DOMAIN q \/ k = Len(q) + 1
OBVIOUS

\* What a step puts into the result set, the candidates or the reply.
LEMMA FilteredStep ==
  ASSUME UNCHANGED <<wanted, user, profiles, repeated, accepted>>,
         \A k \in DOMAIN found' : found'[k][1] \in Hashes => Eligible(found'[k][1]),
         \A k \in DOMAIN results' : results'[k][1] \in Hashes => Eligible(results'[k][1]),
         \A k \in DOMAIN candidates' : Suggestible(Hash[candidates'[k]]),
         \A k \in DOMAIN reply' : Suggestible(reply'[k])
  PROVE  Filtered'
<1>1. \A h : Eligible(h) => Eligible(h)'
  BY SameRequest, Zenon
<1>2. \A h : Suggestible(h) => Suggestible(h)'
  BY <1>1, ZenonT(30) DEF Suggestible
<1> QED BY <1>1, <1>2, Zenon DEF Filtered

\* Numbers that were listed when the query began, once all keywords are looked up.
LEMMA CoveredStep ==
  ASSUME UNCHANGED <<wanted, att, present, gone, next>>, next > Len(wanted),
         \A j \in present \ gone :
           \/ Cardinality(Upto(att[j], Turn(j)')) = 0
           \/ j \in DOMAIN hits' /\ hits'[j] >= Cardinality(Upto(att[j], Turn(j)'))
           \/ ~Enough(Matches(att[j]))
           \/ \E k \in DOMAIN found' :
                found'[k][1] = Hash[att[j]] /\ found'[k][2] >= Matches(att[j])
  PROVE  Covered'
<1>1. \A j \in present \ gone :
        (\E k \in DOMAIN found' :
           found'[k][1] = Hash[att[j]] /\ found'[k][2] >= Matches(att[j]))
          => \E k \in DOMAIN found' :
               found'[k][1] = Hash[att'[j]] /\ found'[k][2] >= Matches(att[j])'
  BY Zenon DEF Matches
<1>2. \A j \in present \ gone : Enough(Matches(att[j]))' => Enough(Matches(att[j]))
  BY Zenon DEF Enough, Matches
<1>3. \A j \in present \ gone : Upto(att[j], Turn(j)')= Upto(att[j], Turn(j))'
  BY Zenon DEF Upto
<1>4. SUFFICES ASSUME NEW j \in present \ gone
               PROVE  \/ Cardinality(Upto(att[j], Turn(j)))' = 0
                      \/ j \in DOMAIN hits' /\ hits'[j] >= Cardinality(Upto(att[j], Turn(j)))'
                      \/ ~Enough(Matches(att[j]))'
                      \/ \E k \in DOMAIN found' :
                           found'[k][1] = Hash[att'[j]] /\ found'[k][2] >= Matches(att[j])'
  BY Zenon DEF Covered
<1>5. \/ Cardinality(Upto(att[j], Turn(j)')) = 0
      \/ j \in DOMAIN hits' /\ hits'[j] >= Cardinality(Upto(att[j], Turn(j)'))
      \/ ~Enough(Matches(att[j]))
      \/ \E k \in DOMAIN found' :
           found'[k][1] = Hash[att[j]] /\ found'[k][2] >= Matches(att[j])
  BY <1>4, Zenon
<1>6. /\ Upto(att[j], Turn(j)') = Upto(att[j], Turn(j))'
      /\ Enough(Matches(att[j]))' => Enough(Matches(att[j]))
  BY <1>2, <1>3, <1>4, Zenon
<1>7. CASE \E k \in DOMAIN found' :
             found'[k][1] = Hash[att[j]] /\ found'[k][2] >= Matches(att[j])
  BY <1>1, <1>4, <1>7, Zenon
<1> QED BY <1>5, <1>6, <1>7

\* A number that was hit goes into the result set, if it was hit often enough.
LEMMA NextDocInv ==
  ASSUME SetFacts, UNCHANGED limit, IInv, NextDoc
  PROVE  IInv'
<1> USE DEF IInv
<1> DEFINE i == Min(DOMAIN hits)
           s == IF i \in DOMAIN att THEN Hash[att[i]] ELSE i
           e == <<s, hits[i]>>
<1>1. /\ qpc = "retrieve" /\ next > Len(wanted) /\ DOMAIN hits # {}
      /\ found' = IF Enough(hits[i]) THEN Append(found, e) ELSE found
      /\ hits' = [j \in DOMAIN hits \ {i} |-> hits[j]]
      /\ UNCHANGED <<pending, count, att, listed, gone, profiles, adding, qpc, user,
                     wanted, next, first, results, candidates, code, reply, accepted,
                     unstored, present, unread, resigned, repeated>>
  BY Zenon DEF NextDoc, store, indexVars, history
<1>2. wanted \in Seq(Tokens) /\ Len(wanted) \in Nat
  BY DEF CallType
<1>3. next = Len(wanted) + 1 /\ first = 0
  BY <1>1, <1>2 DEF RetrievalType
<1>4. i \in DOMAIN hits
  <2>1. DOMAIN hits \in SUBSET (1 .. count) /\ count \in Nat
    BY Zenon DEF RetrievalType, IndexType, Numbers
  <2> QED BY <1>1, <2>1, MinInside, Zenon
<1> HIDE DEF i
<1>5. i \in Numbers /\ hits[i] \in Nat /\ \A j \in DOMAIN hits : hits[j] \in Nat
  BY <1>3, <1>4 DEF RetrievalType
<1>6. e \in Entry
  <2>1. i \in DOMAIN att => Hash[att[i]] \in Hashes
    BY Zenon DEF Hashes, IndexType, HistoryType
  <2> QED BY <1>5, <2>1, Zenon DEF Entry
<1>7. s \in Hashes => i \in DOMAIN att /\ s = Hash[att[i]]
  <2>1. i \in 1 .. MaxDocs
    <3>1. MaxDocs \in Nat
      BY ConstantsAssumption, Zenon
    <3> QED BY <1>5, <3>1 DEF Numbers, IndexType
  <2>2. i \notin Hashes
    BY <2>1, ConstantsAssumption, Zenon DEF Hashes
  <2> QED BY <2>2, Zenon
<1>8. i \in DOMAIN att => s = Hash[att[i]] /\ att[i] \in accepted
  BY Zenon DEF IndexType
<1>9. \A j \in Numbers : Turn(j) = Len(wanted)
  BY <1>2, <1>3 DEF Turn, Numbers, IndexType
<1>10. \A x : Matches(x) = Cardinality(Upto(x, Len(wanted))) /\ Matches(x) \in Nat
  BY <1>2, MatchesUpto, Zenon
<1>11. /\ Append(found, e)[Len(found) + 1] = e
       /\ Len(found) + 1 \in DOMAIN Append(found, e)
       /\ \A k \in DOMAIN found : /\ k \in DOMAIN Append(found, e)
                                  /\ Append(found, e)[k] = found[k]
       /\ \A k \in DOMAIN Append(found, e) : k \in DOMAIN found \/ k = Len(found) + 1
       /\ Append(found, e) \in Seq(Entry)
  <2> HIDE DEF e
  <2>1. found \in Seq(Entry)
    BY Zenon DEF ResultsType
  <2> QED BY <1>6, <2>1, Appended, Zenon
<1>12. e[1] = s /\ e[2] = hits[i]
  BY Zenon
<1> HIDE DEF s, e
<1>13. Entry' = Entry /\ Numbers' = Numbers
  BY <1>1, Zenon DEF Entry, Numbers
<1>14. ResultsType'
  <2>1. found' \in Seq(Entry)
    <3>1. found \in Seq(Entry)
      BY Zenon DEF ResultsType
    <3> QED BY <1>1, <1>11, <3>1, Zenon
  <2> QED BY <1>1, <1>13, <2>1, Zenon DEF ResultsType
<1>15. RetrievalType'
  BY <1>1, <1>13, Zenon DEF RetrievalType
<1>16. HitsAtMost'
  <2>1. \A j \in DOMAIN hits' : j \in DOMAIN hits /\ hits'[j] = hits[j]
    BY <1>1, Zenon
  <2>2. \A j : Turn(j)' = Turn(j)
    BY <1>1, Zenon DEF Turn
  <2>3. SUFFICES ASSUME NEW j \in DOMAIN hits' \intersect DOMAIN att
                 PROVE  \/ hits[j] <= Cardinality(Upto(att[j], Turn(j)))
                        \/ /\ att[j] \in repeated
                           /\ hits[j] <= 2 * Cardinality(Upto(att[j], next - 1)) +
                                           (IF j = first THEN 1 ELSE 0)
    BY <1>1, <2>1, <2>2, ZenonT(30) DEF HitsAtMost, Upto
  <2> QED BY <1>1, <2>1, <2>3, Zenon DEF HitsAtMost
<1>17. Enough(hits[i]) /\ s \in Hashes => Eligible(s)
  <2>1. SUFFICES ASSUME Enough(hits[i]), s \in Hashes
                 PROVE  Eligible(s)
    BY Zenon
  <2> DEFINE p == att[i]
             m == Matches(p)
  <2>2. i \in DOMAIN att /\ s = Hash[p] /\ p \in accepted
    BY <1>7, <1>8, <2>1, Zenon
  <2>3. i # 0 /\ next - 1 = Len(wanted)
    BY <1>2, <1>3, <1>5 DEF Numbers
  <2>4. m = Cardinality(Upto(p, Len(wanted))) /\ m \in Nat
    BY <1>10, Zenon
  <2>5. hits[i] <= m \/ (p \in repeated /\ hits[i] <= 2 * m + 0)
    BY <1>1, <1>3, <1>4, <1>5, <1>9, <2>2, <2>3, <2>4, Zenon DEF HitsAtMost
  <2> HIDE DEF m
  <2>6. CASE hits[i] <= m
    <3>1. Enough(m)
      BY <1>2, <1>5, <2>1, <2>4, <2>6, EnoughLarger, Zenon
    <3> QED BY <2>2, <3>1, Zenon DEF Eligible, m
  <2>7. CASE p \in repeated /\ hits[i] <= 2 * m + 0
    <3>1. 2 * m \in Nat /\ hits[i] <= 2 * m
      BY <2>4, <2>7
    <3>2. Enough(2 * m)
      BY <1>2, <1>5, <2>1, <3>1, EnoughLarger, Zenon
    <3> QED BY <2>2, <2>7, <3>2, Zenon DEF Eligible, m
  <2> QED BY <2>5, <2>6, <2>7, Zenon
<1>18. Filtered'
  <2>1. \A k \in DOMAIN found' : found'[k][1] \in Hashes => Eligible(found'[k][1])
    <3>1. CASE Enough(hits[i])
      BY <1>1, <1>11, <1>12, <1>17, <3>1, Zenon DEF Filtered
    <3>2. CASE ~Enough(hits[i])
      BY <1>1, <3>2, Zenon DEF Filtered
    <3> QED BY <3>1, <3>2, Zenon
  <2> QED BY <1>1, <2>1, FilteredStep, Zenon DEF Filtered
<1>19. Covered'
  <2>1. SUFFICES ASSUME NEW j \in present \ gone
                 PROVE  \/ Cardinality(Upto(att[j], Turn(j)')) = 0
                        \/ /\ j \in DOMAIN hits'
                           /\ hits'[j] >= Cardinality(Upto(att[j], Turn(j)'))
                        \/ ~Enough(Matches(att[j]))
                        \/ \E k \in DOMAIN found' : /\ found'[k][1] = Hash[att[j]]
                                                    /\ found'[k][2] >= Matches(att[j])
    BY <1>1, CoveredStep, Zenon
  <2>2. Turn(j)' = Turn(j)
    BY <1>1, Zenon DEF Turn
  <2>3. j \in Numbers /\ j \in DOMAIN att
    BY Zenon DEF HistoryType, StillPresent
  <2>4. \A k \in DOMAIN found : k \in DOMAIN found' /\ found'[k] = found[k]
    BY <1>1, <1>11, Zenon
  <2>5. \/ Cardinality(Upto(att[j], Turn(j))) = 0
        \/ j \in DOMAIN hits /\ hits[j] >= Cardinality(Upto(att[j], Turn(j)))
        \/ ~Enough(Matches(att[j]))
        \/ \E k \in DOMAIN found :
             found[k][1] = Hash[att[j]] /\ found[k][2] >= Matches(att[j])
    BY <1>1, <2>1, Zenon DEF Covered
  <2>6. CASE j \in DOMAIN hits /\ hits[j] >= Cardinality(Upto(att[j], Turn(j))) /\ j # i
    BY <1>1, <2>2, <2>6, Zenon
  <2>7. CASE j = i /\ hits[j] >= Cardinality(Upto(att[j], Turn(j))) /\ Enough(Matches(att[j]))
    <3>1. Matches(att[j]) <= hits[i]
      BY <1>5, <1>9, <1>10, <2>3, <2>7, Zenon
    <3>2. Enough(hits[i])
      BY <1>2, <1>5, <1>10, <2>7, <3>1, EnoughLarger, Zenon
    <3>3. found' = Append(found, e) /\ s = Hash[att[j]]
      BY <1>1, <1>8, <2>3, <2>7, <3>2, Zenon
    <3>4. e[2] >= Matches(att[j])
      BY <1>12, <3>1, Zenon
    <3> QED BY <1>11, <1>12, <3>3, <3>4, Zenon
  <2> QED BY <2>2, <2>4, <2>5, <2>6, <2>7, Zenon
<1>20. Fresh'
  BY <1>1, Zenon DEF Fresh
<1>21. Considered'
  BY <1>1, Zenon DEF Considered
<1> QED BY <1>1, <1>14, <1>15, <1>16, <1>18, <1>19, <1>20, <1>21, Frames, Zenon

\* Sorting keeps what is in the result set.
LEMMA SortedSame ==
  ASSUME SetFacts, NEW E, NEW q \in Seq(E), NEW f \in Sorted(q)
  PROVE  /\ f \in Seq(E) /\ Len(f) = Len(q)
         /\ \A k \in DOMAIN f : \E l \in DOMAIN q : f[k] = q[l]
         /\ \A l \in DOMAIN q : \E k \in DOMAIN f : f[k] = q[l]
         /\ \E p \in [1 .. Len(q) -> 1 .. Len(q)] :
              /\ IsInjective(p)
              /\ \A k \in 1 .. Len(q) : f[k] = q[p[k]]
              /\ \A k, l \in 1 .. Len(q) : k < l => f[k][2] >= f[l][2]
<1>1. DOMAIN q = 1 .. Len(q) /\ Len(q) \in Nat
  OBVIOUS
<1>2. Cardinality(DOMAIN q) = Len(q)
  BY <1>1, Zenon DEF SetFacts
<1>3. PICK p \in Orders(DOMAIN q) :
        /\ f = [k \in DOMAIN q |-> q[p[k]]]
        /\ \A k, l \in DOMAIN q : k < l => q[p[k]][2] >= q[p[l]][2]
  BY Zenon DEF Sorted
<1>4. p \in Bijection(1 .. Len(q), 1 .. Len(q))
  BY <1>1, <1>2, Zenon DEF Orders
<1>5. /\ p \in [1 .. Len(q) -> 1 .. Len(q)] /\ IsInjective(p)
      /\ \A l \in 1 .. Len(q) : \E k \in 1 .. Len(q) : p[k] = l
  BY <1>4, Zenon DEF Bijection, Injection, Surjection, IsInjective
<1>6. f \in [1 .. Len(q) -> E]
  BY <1>1, <1>3, <1>5
<1>7. f \in Seq(E) /\ Len(f) = Len(q)
  BY <1>1, <1>6
<1>8. \A k \in 1 .. Len(q) : f[k] = q[p[k]]
  BY <1>1, <1>3, Zenon
<1>9. \A k, l \in 1 .. Len(q) : k < l => f[k][2] >= f[l][2]
  BY <1>1, <1>3, <1>8, Zenon
<1>10. DOMAIN f = 1 .. Len(q)
  BY <1>6, Zenon
<1>11. ASSUME NEW l \in DOMAIN q PROVE \E k \in DOMAIN f : f[k] = q[l]
  <2>1. PICK k \in 1 .. Len(q) : p[k] = l
    BY <1>1, <1>5, Zenon
  <2>2. f[k] = q[l] /\ k \in DOMAIN f
    BY <1>8, <1>10, <2>1, Zenon
  <2> QED BY <2>2, Zenon
<1>12. \A k \in DOMAIN f : \E l \in DOMAIN q : f[k] = q[l]
  BY <1>1, <1>5, <1>8, <1>10, Zenon
<1> QED BY <1>5, <1>7, <1>8, <1>9, <1>11, <1>12, Zenon

\* What sorting puts behind the limit is outdone.
LEMMA BehindLimit ==
  ASSUME SetFacts, NEW E, found \in Seq(E), \A e \in E : e[2] \in Nat,
         NEW f \in Sorted(found), limit \in Nat, NEW l \in DOMAIN f, l > limit,
         NEW s, Matches(s) \in Nat, f[l][2] >= Matches(s)
  PROVE  Outdone(s)
<1> DEFINE n == Len(found)
           T == {k \in DOMAIN found : found[k][2] >= Matches(s)}
           I == 1 .. limit + 1
<1>1. n \in Nat /\ DOMAIN found = 1 .. n /\ \A k \in 1 .. n : found[k] \in E
  OBVIOUS
<1>2. f \in Seq(E) /\ Len(f) = n
  BY SortedSame, Zenon
<1>3. PICK p \in [1 .. n -> 1 .. n] :
        /\ IsInjective(p)
        /\ \A k \in 1 .. n : f[k] = found[p[k]]
        /\ \A k, m \in 1 .. n : k < m => f[k][2] >= f[m][2]
  BY SortedSame, Zenon
<1>4. l \in 1 .. n /\ DOMAIN f = 1 .. n /\ \A k \in 1 .. n : f[k] \in E
  BY <1>2
<1>5. I \subseteq 1 .. n /\ \A k \in I : k < l \/ k = l
  BY <1>1, <1>4
<1>6. ASSUME NEW k \in I PROVE p[k] \in T
  <2>1. k \in 1 .. n /\ p[k] \in DOMAIN found /\ f[k] = found[p[k]]
    BY <1>1, <1>3, <1>5, Zenon
  <2>2. f[k][2] \in Nat /\ f[l][2] \in Nat
    BY <1>4, <2>1, Zenon
  <2>3. f[k][2] >= f[l][2]
    <3>1. CASE k < l
      BY <1>3, <1>4, <2>1, <3>1, Zenon
    <3>2. CASE k = l
      BY <2>2, <3>2
    <3> QED BY <1>5, <3>1, <3>2, Zenon
  <2>4. f[k][2] >= Matches(s)
    BY <2>2, <2>3
  <2> QED BY <2>1, <2>4, Zenon
<1> DEFINE g == [k \in I |-> p[k]]
<1>7. g \in [I -> T]
  BY <1>6, Zenon
<1>8. IsInjective(g)
  BY <1>3, <1>5, Zenon DEF IsInjective
<1>9. IsFiniteSet(T)
  <2>1. IsFiniteSet(1 .. n) /\ T \subseteq 1 .. n
    BY <1>1, Zenon DEF SetFacts
  <2> QED BY <2>1, Zenon DEF SetFacts
<1>10. limit + 1 \in Nat
  OBVIOUS
<1>11. Cardinality(I) = limit + 1
  BY <1>10, Zenon DEF SetFacts
<1> HIDE DEF g, T, I
<1>12. Cardinality(I) <= Cardinality(T) /\ Cardinality(T) \in Nat
  BY <1>7, <1>8, <1>9, Zenon DEF SetFacts
<1>13. Cardinality(T) > limit
  BY <1>11, <1>12
<1> QED BY <1>13, Zenon DEF Outdone, T

\* makeReply: what was found is still to be considered.
LEMMA MakeReplyInv ==
  ASSUME SetFacts, UNCHANGED limit, IInv, MakeReply
  PROVE  IInv'
<1> USE DEF IInv
<1>1. PICK f \in Sorted(found) : results' = SubSeq(f, 1, Cap(Len(f)))
  BY Zenon DEF MakeReply
<1>2. /\ qpc = "retrieve" /\ next > Len(wanted) /\ DOMAIN hits = {} /\ qpc' = "filter"
      /\ UNCHANGED <<pending, count, att, listed, gone, profiles, adding, user,
                     wanted, next, first, hits, found, candidates, code, reply, accepted,
                     unstored, present, unread, resigned, repeated>>
  BY Zenon DEF MakeReply, store, indexVars, history
<1>3. wanted \in Seq(Tokens) /\ Len(wanted) \in Nat
  BY DEF CallType
<1>4. next = Len(wanted) + 1 /\ first = 0
  BY <1>2, <1>3 DEF RetrievalType
<1>5. found \in Seq(Entry)
  BY Zenon DEF ResultsType
<1>6. /\ f \in Seq(Entry) /\ Len(f) = Len(found)
      /\ \A k \in DOMAIN f : \E l \in DOMAIN found : f[k] = found[l]
      /\ \A l \in DOMAIN found : \E k \in DOMAIN f : f[k] = found[l]
  <2> HIDE DEF IInv
  <2> QED BY <1>1, <1>5, SortedSame, ZenonT(40)
<1>7. /\ limit \in Nat /\ Cap(Len(f)) \in 0 .. Len(f)
      /\ \A l \in 1 .. Len(f) : l \in 1 .. Cap(Len(f)) \/ l > limit
  <2>1. Len(f) \in Nat /\ limit \in Nat
    BY <1>6, ConstantsAssumption DEF StoreType
  <2> QED BY <1>6, <2>1 DEF Cap
<1>8. /\ results' \in Seq(Entry) /\ DOMAIN results' = 1 .. Cap(Len(f))
      /\ \A k \in DOMAIN results' : k \in DOMAIN f /\ results'[k] = f[k]
  BY <1>1, <1>6, <1>7
<1>9. Entry' = Entry
  BY <1>2, Zenon DEF Entry, Numbers
<1>10. ResultsType'
  BY <1>2, <1>8, <1>9, Zenon DEF ResultsType
<1>11. CallType'
  BY <1>2, Zenon DEF CallType
<1>12. RetrievalType'
  <2>1. Numbers' = Numbers
    BY <1>2, Zenon DEF Numbers
  <2> QED BY <1>2, <1>4, <2>1, Zenon DEF RetrievalType
<1>13. Filtered'
  <2>1. \A k \in DOMAIN results' : results'[k][1] \in Hashes => Eligible(results'[k][1])
    <3>1. ASSUME NEW k \in DOMAIN results', results'[k][1] \in Hashes
          PROVE  Eligible(results'[k][1])
      <4>1. PICK l \in DOMAIN found : results'[k] = found[l]
        BY <1>6, <1>8, <3>1, ZenonT(30)
      <4> QED BY <3>1, <4>1, Zenon DEF Filtered
    <3> QED BY <3>1, Zenon
  <2> QED BY <1>2, <2>1, FilteredStep, Zenon DEF Filtered
<1>14. Considered'
  <2>1. SUFFICES ASSUME NEW j \in present \ gone
                 PROVE  \/ Matches(att[j]) = 0 \/ ~Enough(Matches(att[j]))
                        \/ Outdone(att[j])
                        \/ \E k \in DOMAIN results' : results'[k][1] = Hash[att[j]]
    <3>1. \A x : Outdone(x) => Outdone(x)'
      BY <1>2, Zenon DEF Outdone, Matches
    <3> QED BY <1>2, <3>1, SameRequest, ZenonT(30) DEF Considered
  <2>2. Turn(j) = Len(wanted)
    BY <1>3, <1>4 DEF Turn, HistoryType, Numbers, IndexType
  <2>3. Matches(att[j]) = Cardinality(Upto(att[j], Len(wanted))) /\ Matches(att[j]) \in Nat
    BY <1>3, MatchesUpto, Zenon
  <2>4. \/ Matches(att[j]) = 0 \/ ~Enough(Matches(att[j]))
        \/ \E k \in DOMAIN found :
             found[k][1] = Hash[att[j]] /\ found[k][2] >= Matches(att[j])
    BY <1>2, <2>1, <2>2, <2>3, Zenon DEF Covered
  <2>5. ASSUME NEW k \in DOMAIN found, found[k][1] = Hash[att[j]],
               found[k][2] >= Matches(att[j])
        PROVE  \/ Outdone(att[j])
               \/ \E l \in DOMAIN results' : results'[l][1] = Hash[att[j]]
    <3>1. PICK l \in DOMAIN f : f[l] = found[k]
      BY <1>6, Zenon
    <3>2. l \in DOMAIN results' \/ l > limit
      <4>1. f \in Seq(Entry)
        BY <1>6, Zenon
      <4>2. DOMAIN f = 1 .. Len(f)
        BY <4>1
      <4> QED BY <1>7, <1>8, <4>2, Zenon
    <3>3. CASE l \in DOMAIN results'
      BY <1>8, <2>5, <3>1, <3>3, Zenon
    <3>4. CASE l > limit
      <4>1. \A e \in Entry : e[2] \in Nat
        BY Zenon DEF Entry
      <4>2. f[l][2] >= Matches(att[j])
        BY <2>5, <3>1, Zenon
      <4> QED BY <1>5, <1>7, <2>3, <3>4, <4>1, <4>2, BehindLimit, Zenon
    <3> QED BY <3>2, <3>3, <3>4, Zenon
  <2> QED BY <2>4, <2>5, Zenon
<1>15. Fresh'
  BY <1>2, Zenon DEF Fresh
<1>16. HitsAtMost' /\ Covered'
  BY <1>2, Zenon DEF HitsAtMost, Covered
<1> QED BY <1>2, <1>10, <1>11, <1>12, <1>13, <1>14, <1>15, <1>16, Frames, Zenon

-----------------------------------------------------------------------------
(* query: candidates and ranking.                                          *)

\* What Head and Tail do to the entries of a sequence.
LEMMA HeadAndTail ==
  ASSUME NEW E, NEW q \in Seq(E), q # <<>>
  PROVE  /\ Head(q) = q[1] /\ 1 \in DOMAIN q /\ Head(q) \in E
         /\ Tail(q) \in Seq(E)
         /\ \A k \in DOMAIN Tail(q) : k + 1 \in DOMAIN q /\ Tail(q)[k] = q[k + 1]
         /\ \A k \in DOMAIN q : k # 1 => k - 1 \in DOMAIN Tail(q) /\ Tail(q)[k - 1] = q[k]
OBVIOUS

\* The candidates a turn of the loop adds.
LEMMA FilterChoices ==
  ASSUME Filter
  PROVE  LET s == Head(results)[1]
         IN  \/ Read(s) /\ UNCHANGED <<candidates, unread>>
             \/ UNCHANGED candidates /\ unread' = unread \union {s}
             \/ /\ s \in DOMAIN profiles /\ Known(profiles[s])
                /\ UNCHANGED <<candidates, unread>>
             \/ /\ s \in DOMAIN profiles /\ ~Known(profiles[s]) /\ ~Read(s)
                /\ candidates' = Append(candidates, profiles[s]) /\ UNCHANGED unread
<1> DEFINE s == Head(results)[1]
<1> SUFFICES ASSUME ~Read(s)
             PROVE  \/ UNCHANGED candidates /\ unread' = unread \union {s}
                    \/ /\ s \in DOMAIN profiles /\ Known(profiles[s])
                       /\ UNCHANGED <<candidates, unread>>
                    \/ /\ s \in DOMAIN profiles /\ ~Known(profiles[s])
                       /\ candidates' = Append(candidates, profiles[s])
                       /\ UNCHANGED unread
  BY Zenon DEF Filter
<1>1. PICK g \in GetProfile(s) :
        /\ candidates' = IF g = NULL \/ Known(g) THEN candidates
                         ELSE Append(candidates, g)
        /\ unread' = IF g = NULL THEN unread \union {s} ELSE unread
  BY Zenon DEF Filter
<1>2. g = NULL \/ (s \in DOMAIN profiles /\ g = profiles[s])
  BY <1>1, Zenon DEF GetProfile
<1> HIDE DEF s
<1>3. CASE g = NULL
  BY <1>1, <1>3, Zenon
<1>4. CASE g # NULL /\ Known(g)
  BY <1>1, <1>2, <1>4, Zenon
<1>5. CASE g # NULL /\ ~Known(g)
  BY <1>1, <1>2, <1>5, Zenon
<1> QED BY <1>3, <1>4, <1>5, Zenon

\* Stories that were listed when the query began, after a turn of the loop.
LEMMA ConsideredStep ==
  ASSUME UNCHANGED <<limit, wanted, att, present, gone, user, profiles, resigned, found>>,
         \A j \in present \ gone :
           \/ Matches(att[j]) = 0 \/ ~Enough(Matches(att[j])) \/ Outdone(att[j])
           \/ \E k \in DOMAIN results' : results'[k][1] = Hash[att[j]]
           \/ Read(Hash[att[j]]) \/ Hash[att[j]] \in unread'
           \/ Hash[att[j]] \in resigned
           \/ \E k \in DOMAIN candidates' :
                Signature[candidates'[k]] = Signature[profiles[Hash[att[j]]]]
  PROVE  Considered'
<1>1. ASSUME NEW j \in present
      PROVE  /\ (Matches(att[j]) = 0) <=> (Matches(att[j]) = 0)'
             /\ Enough(Matches(att[j])) <=> Enough(Matches(att[j]))'
             /\ Outdone(att[j]) <=> Outdone(att[j])'
             /\ Read(Hash[att[j]]) <=> Read(Hash[att[j]])'
  BY Zenon DEF Matches, Enough, Read, Outdone
<1>2. \A j \in present :
        (\E k \in DOMAIN candidates' :
           Signature[candidates'[k]] = Signature[profiles[Hash[att[j]]]])
          <=> Known(profiles[Hash[att[j]]])'
  BY Zenon DEF Known
<1> QED BY <1>1, <1>2, ZenonT(30) DEF Considered

\* One entry of the result set is filtered: it is dropped or becomes a candidate.
LEMMA FilterInv ==
  ASSUME UNCHANGED limit, IInv, Filter
  PROVE  IInv'
<1> USE DEF IInv
<1> DEFINE s == Head(results)[1]
           c == profiles[s]
           Adds == /\ s \in DOMAIN profiles /\ ~Known(profiles[s]) /\ ~Read(s)
                   /\ candidates' = Append(candidates, c)
<1>1. /\ qpc = "filter" /\ results # <<>> /\ results' = Tail(results)
      /\ UNCHANGED <<pending, count, att, listed, gone, profiles, adding, qpc, user,
                     wanted, next, first, hits, found, code, reply, accepted, unstored,
                     present, resigned, repeated>>
  BY Zenon DEF Filter, store, indexVars
<1>2. \/ Read(s) /\ UNCHANGED <<candidates, unread>>
      \/ UNCHANGED candidates /\ unread' = unread \union {s}
      \/ s \in DOMAIN profiles /\ Known(profiles[s]) /\ UNCHANGED <<candidates, unread>>
      \/ Adds /\ UNCHANGED unread
  BY FilterChoices, Zenon
<1>3. results \in Seq(Entry) /\ candidates \in Seq(Stories)
  BY Zenon DEF ResultsType
<1>4. /\ Head(results) = results[1] /\ 1 \in DOMAIN results /\ Head(results) \in Entry
      /\ results' \in Seq(Entry)
      /\ \A k \in DOMAIN results' : k + 1 \in DOMAIN results /\ results'[k] = results[k + 1]
      /\ \A k \in DOMAIN results :
           k # 1 => k - 1 \in DOMAIN results' /\ results'[k - 1] = results[k]
  BY <1>1, <1>3, HeadAndTail, Zenon
<1>5. s \in Hashes \union Numbers /\ s = results[1][1]
  BY <1>4, Zenon DEF Entry
<1>6. c = profiles[s] /\ (s \in DOMAIN profiles => c \in Stories /\ Hash[c] = s /\ s \in Hashes)
  BY Zenon DEF StoreType, Hashes
<1> HIDE DEF s, c
<1>7. Adds => /\ candidates' \in Seq(Stories)
              /\ candidates'[Len(candidates) + 1] = c
              /\ Len(candidates) + 1 \in DOMAIN candidates'
              /\ \A k \in DOMAIN candidates :
                   /\ k \in DOMAIN candidates' /\ candidates'[k] = candidates[k]
                   /\ k # Len(candidates) + 1
              /\ \A k \in DOMAIN candidates' :
                   k \in DOMAIN candidates \/ k = Len(candidates) + 1
  <2>1. SUFFICES ASSUME c \in Stories, candidates' = Append(candidates, c)
                 PROVE  /\ candidates' \in Seq(Stories)
                        /\ candidates'[Len(candidates) + 1] = c
                        /\ Len(candidates) + 1 \in DOMAIN candidates'
                        /\ \A k \in DOMAIN candidates :
                             /\ k \in DOMAIN candidates' /\ candidates'[k] = candidates[k]
                             /\ k # Len(candidates) + 1
                        /\ \A k \in DOMAIN candidates' :
                             k \in DOMAIN candidates \/ k = Len(candidates) + 1
    BY <1>6, Zenon
  <2> QED BY <1>3, <2>1, Appended, Zenon
<1>8. UNCHANGED candidates \/ Adds
  BY <1>2, Zenon
<1>9. unread' = unread \/ unread' = unread \union {s}
  BY <1>2, Zenon
<1>10. Adds => s \in DOMAIN profiles /\ ~Known(profiles[s]) /\ ~Read(s)
  BY Zenon
<1> HIDE DEF Adds
<1>11. Entry' = Entry /\ Numbers' = Numbers
  BY <1>1, Zenon DEF Entry, Numbers
<1>12. ResultsType'
  <2>1. candidates' \in Seq(Stories)
    BY <1>3, <1>7, <1>8, Zenon
  <2> QED BY <1>1, <1>4, <1>11, <2>1, Zenon DEF ResultsType
<1>13. HistoryType'
  <2>1. unread' \subseteq Hashes \union Numbers
    BY <1>5, <1>9, Zenon DEF HistoryType
  <2> QED BY <1>1, <1>11, <2>1, Zenon DEF HistoryType
<1>14. Fresh'
  BY <1>1, Zenon DEF Fresh
<1>15. Filtered'
  <2>1. \A k \in DOMAIN results' : results'[k][1] \in Hashes => Eligible(results'[k][1])
    BY <1>4, Zenon DEF Filtered
  <2>2. Adds => Suggestible(s) /\ Hash[c] = s
    <3>1. s \in Hashes => Eligible(s)
      BY <1>4, <1>5, Zenon DEF Filtered
    <3> QED BY <1>6, <1>10, <3>1, Zenon DEF Suggestible, Read
  <2>3. \A k \in DOMAIN candidates' : Suggestible(Hash[candidates'[k]])
    <3>1. CASE UNCHANGED candidates
      BY <3>1, Zenon DEF Filtered
    <3>2. CASE Adds
      BY <1>6, <1>7, <2>2, <3>2, Zenon DEF Filtered
    <3> QED BY <1>8, <3>1, <3>2, Zenon
  <2>4. /\ \A k \in DOMAIN found' : found'[k][1] \in Hashes => Eligible(found'[k][1])
        /\ \A k \in DOMAIN reply' : Suggestible(reply'[k])
    BY <1>1, Zenon DEF Filtered
  <2> QED BY <1>1, <2>1, <2>3, <2>4, FilteredStep, Zenon
<1>16. Signed'
  <2>1. CASE UNCHANGED candidates
    BY <1>1, <2>1, ZenonT(30) DEF Signed
  <2>2. CASE Adds
    <3>1. \A k \in DOMAIN candidates : Signature[candidates[k]] # Signature[c]
      BY <1>6, <1>10, <2>2, Zenon DEF Known
    <3>2. \A k, l \in DOMAIN candidates' :
            k # l => Signature[candidates'[k]] # Signature[candidates'[l]]
      BY <1>7, <2>2, <3>1 DEF Signed
    <3>3. \A k \in DOMAIN candidates' :
            \/ Hash[candidates'[k]] \in resigned
            \/ Signature[profiles[Hash[candidates'[k]]]] = Signature[candidates'[k]]
      BY <1>6, <1>7, <1>10, <2>2, Zenon DEF Signed
    <3> QED BY <1>1, <3>2, <3>3, Zenon DEF Signed
  <2> QED BY <1>8, <2>1, <2>2, Zenon
<1>17. Considered'
  <2>1. SUFFICES ASSUME NEW j \in present \ gone
                 PROVE  LET h == Hash[att[j]]
                        IN  \/ Matches(att[j]) = 0 \/ ~Enough(Matches(att[j]))
                            \/ Outdone(att[j])
                            \/ \E k \in DOMAIN results' : results'[k][1] = h
                            \/ Read(h) \/ h \in unread' \/ h \in resigned
                            \/ \E k \in DOMAIN candidates' :
                                 Signature[candidates'[k]] = Signature[profiles[h]]
    BY <1>1, ConsideredStep, Zenon
  <2> DEFINE h == Hash[att[j]]
             Seen == \E k \in DOMAIN candidates' :
                       Signature[candidates'[k]] = Signature[profiles[h]]
  <2>2. Known(profiles[h]) => Seen
    <3>1. CASE UNCHANGED candidates
      BY <3>1, Zenon DEF Known
    <3>2. CASE Adds
      BY <1>7, <3>2, Zenon DEF Known
    <3> QED BY <1>8, <3>1, <3>2, Zenon
  <2>3. \/ Matches(att[j]) = 0 \/ ~Enough(Matches(att[j])) \/ Outdone(att[j])
        \/ \E k \in DOMAIN results : results[k][1] = h
        \/ Read(h) \/ h \in unread \/ h \in resigned \/ Known(profiles[h])
    BY <1>1, <2>1, Zenon DEF Considered
  <2>4. ASSUME NEW k \in DOMAIN results, results[k][1] = h
        PROVE  \/ \E l \in DOMAIN results' : results'[l][1] = h
               \/ Read(h) \/ h \in unread' \/ Seen
    <3> HIDE DEF h, Seen
    <3>1. CASE k # 1
      BY <1>4, <2>4, <3>1, Zenon
    <3>2. CASE k = 1
      <4>1. s = h
        BY <1>5, <2>4, <3>2, Zenon
      <4>2. Adds => Seen
        BY <1>6, <1>7, <4>1, Zenon DEF Seen
      <4> QED BY <1>2, <2>2, <4>1, <4>2, Zenon
    <3> QED BY <3>1, <3>2, Zenon
  <2>5. unread \subseteq unread'
    BY <1>9, Zenon
  <2> QED BY <2>2, <2>3, <2>4, <2>5, Zenon
<1>18. HitsAtMost' /\ Covered'
  BY <1>1, Zenon DEF HitsAtMost, Covered
<1> QED BY <1>1, <1>12, <1>13, <1>14, <1>15, <1>16, <1>17, <1>18, Frames, Zenon

\* The response is not made longer.
LEMMA KeptInside ==
  ASSUME SetFacts, NEW topN \in Int, NEW n \in Nat
  PROVE  Kept(topN, n) \in 0 .. n
<1>1. CASE topN < 0
  BY <1>1 DEF Kept
<1>2. CASE topN >= 0
  <2> DEFINE S == {topN, n}
  <2>1. S \in SUBSET Nat /\ S # {} /\ n \in S
    BY <1>2
  <2>2. Kept(topN, n) = Min(S)
    BY <1>2 DEF Kept
  <2> HIDE DEF S
  <2>3. PICK d \in S : \A e \in S : d <= e
    BY <2>1, Zenon DEF SetFacts
  <2>4. Min(S) \in S /\ \A e \in S : Min(S) <= e
    BY <2>3, Zenon DEF Min
  <2>5. Min(S) \in Nat /\ Min(S) <= n
    BY <2>1, <2>4, Zenon
  <2> QED BY <2>2, <2>5
<1> QED BY <1>1, <1>2

\* What a ranking plugin returns: some candidates, each of them once.
LEMMA RankedOnce ==
  ASSUME SetFacts, candidates \in Seq(Stories),
         NEW S \in SUBSET DOMAIN candidates, NEW p \in Orders(S)
  PROVE  /\ [k \in DOMAIN p |-> Hash[candidates[p[k]]]] \in Seq(Hashes)
         /\ \A k \in DOMAIN p : p[k] \in DOMAIN candidates
         /\ \A k, l \in DOMAIN p : k # l => p[k] # p[l]
<1>1. DOMAIN candidates = 1 .. Len(candidates) /\ Len(candidates) \in Nat
  OBVIOUS
<1>2. Cardinality(S) \in Nat
  <2>1. IsFiniteSet(DOMAIN candidates)
    BY <1>1, Zenon DEF SetFacts
  <2> QED BY <2>1, Zenon DEF SetFacts
<1>3. p \in [1 .. Cardinality(S) -> S] /\ IsInjective(p)
  BY Zenon DEF Orders, Bijection, Injection
<1>4. \A k \in DOMAIN candidates : Hash[candidates[k]] \in Hashes
  <2>1. \A k \in DOMAIN candidates : candidates[k] \in Stories
    OBVIOUS
  <2> QED BY <2>1, Zenon DEF Hashes
<1>5. DOMAIN p = 1 .. Cardinality(S) /\ \A k \in DOMAIN p : p[k] \in DOMAIN candidates
  BY <1>3, Zenon
<1> DEFINE r == [k \in DOMAIN p |-> Hash[candidates[p[k]]]]
<1>6. r \in [1 .. Cardinality(S) -> Hashes]
  BY <1>4, <1>5, Zenon
<1>7. r \in Seq(Hashes)
  <2> HIDE DEF r
  <2> QED BY <1>2, <1>6
<1> QED BY <1>3, <1>5, <1>7, Zenon DEF IsInjective

\* The response holds some of the candidates, each of them once.
LEMMA RankChoices ==
  ASSUME SetFacts, candidates \in Seq(Stories), Rank
  PROVE  /\ reply' \in Seq(Hashes)
         /\ \E p : /\ \A k \in DOMAIN reply' : /\ p[k] \in DOMAIN candidates
                                               /\ reply'[k] = Hash[candidates[p[k]]]
                   /\ \A k, l \in DOMAIN reply' : k # l => p[k] # p[l]
<1>1. CASE reply' = <<>>
  BY <1>1
<1>2. CASE reply' # <<>>
  <2>1. PICK S \in SUBSET DOMAIN candidates :
           \E p \in Orders(S) :
             LET r == [k \in DOMAIN p |-> Hash[candidates[p[k]]]]
             IN  \/ reply' = r
                 \/ \E topN \in TopNs : reply' = SubSeq(r, 1, Kept(topN, Len(r)))
    BY <1>2, Zenon DEF Rank, Respond
  <2>2. PICK p \in Orders(S) :
          LET r == [k \in DOMAIN p |-> Hash[candidates[p[k]]]]
          IN  \/ reply' = r
              \/ \E topN \in TopNs : reply' = SubSeq(r, 1, Kept(topN, Len(r)))
    BY <2>1, Zenon
  <2> DEFINE r == [k \in DOMAIN p |-> Hash[candidates[p[k]]]]
  <2>3. /\ r \in Seq(Hashes)
        /\ \A k \in DOMAIN p : p[k] \in DOMAIN candidates
        /\ \A k, l \in DOMAIN p : k # l => p[k] # p[l]
    BY RankedOnce, Zenon
  <2>4. DOMAIN r = DOMAIN p /\ \A k \in DOMAIN p : r[k] = Hash[candidates[p[k]]]
    BY Zenon
  <2>5. reply' = r \/ \E topN \in TopNs : reply' = SubSeq(r, 1, Kept(topN, Len(r)))
    BY <2>2, Zenon
  <2> HIDE DEF r
  <2>6. reply' \in Seq(Hashes) /\ \A k \in DOMAIN reply' : k \in DOMAIN r /\ reply'[k] = r[k]
    <3>1. CASE reply' = r
      BY <2>3, <3>1, Zenon
    <3>2. ASSUME NEW topN \in TopNs, reply' = SubSeq(r, 1, Kept(topN, Len(r)))
          PROVE  /\ reply' \in Seq(Hashes)
                 /\ \A k \in DOMAIN reply' : k \in DOMAIN r /\ reply'[k] = r[k]
      <4> DEFINE m == Kept(topN, Len(r))
      <4>1. topN \in Int /\ Len(r) \in Nat
        BY <2>3, ConstantsAssumption
      <4>2. m \in 0 .. Len(r) /\ reply' = SubSeq(r, 1, m)
        BY <3>2, <4>1, KeptInside, Zenon
      <4> HIDE DEF m
      <4> QED BY <2>3, <4>2
    <3> QED BY <2>5, <3>1, <3>2, Zenon
  <2>7. /\ \A k \in DOMAIN reply' : /\ p[k] \in DOMAIN candidates
                                   /\ reply'[k] = Hash[candidates[p[k]]]
        /\ \A k, l \in DOMAIN reply' : k # l => p[k] # p[l]
    BY <2>3, <2>4, <2>6, Zenon
  <2> QED BY <2>6, <2>7, Zenon
<1> QED BY <1>1, <1>2, Zenon

\* The ranking plugin picks from the candidates, and the query is answered.
LEMMA RankInv ==
  ASSUME SetFacts, UNCHANGED limit, IInv, Rank
  PROVE  IInv'
<1> USE DEF IInv
<1>1. /\ qpc = "filter" /\ results = <<>> /\ qpc' = "done"
      /\ code' \in {"RRC_ERROR", "RRC_NO_CANDIDATE", "RRC_EMPTY_RANK_RESULT", "RRC_OK"}
      /\ UNCHANGED <<pending, count, att, listed, gone, profiles, adding, user,
                     wanted, next, first, hits, found, results, candidates, accepted,
                     unstored, present, unread, resigned, repeated>>
  BY Zenon DEF Rank, Respond, store, indexVars, history
<1>2. candidates \in Seq(Stories)
  BY Zenon DEF ResultsType
<1>3. reply' \in Seq(Hashes)
  BY <1>2, RankChoices, Zenon
<1>4. PICK p : /\ \A k \in DOMAIN reply' : /\ p[k] \in DOMAIN candidates
                                           /\ reply'[k] = Hash[candidates[p[k]]]
               /\ \A k, l \in DOMAIN reply' : k # l => p[k] # p[l]
  BY <1>2, RankChoices, Zenon
<1>5. CallType'
  BY <1>1, Zenon DEF CallType
<1>6. Entry' = Entry /\ Numbers' = Numbers
  BY <1>1, Zenon DEF Entry, Numbers
<1>7. RetrievalType'
  <2>1. first = 0
    BY <1>1, Zenon DEF RetrievalType
  <2> QED BY <1>1, <1>6, <2>1, Zenon DEF RetrievalType
<1>8. ResultsType'
  BY <1>1, <1>3, <1>6, Zenon DEF ResultsType
<1>9. Fresh'
  BY <1>1, Zenon DEF Fresh
<1>10. Filtered'
  <2>1. \A k \in DOMAIN reply' : Suggestible(reply'[k])
    BY <1>4, Zenon DEF Filtered
  <2>2. /\ \A k \in DOMAIN found' : found'[k][1] \in Hashes => Eligible(found'[k][1])
        /\ \A k \in DOMAIN results' : results'[k][1] \in Hashes => Eligible(results'[k][1])
        /\ \A k \in DOMAIN candidates' : Suggestible(Hash[candidates'[k]])
    BY <1>1, Zenon DEF Filtered
  <2> QED BY <1>1, <2>1, <2>2, FilteredStep, Zenon
<1>11. Signed'
  <2>1. ASSUME NEW k \in DOMAIN reply', NEW l \in DOMAIN reply', k # l,
               reply'[k] = reply'[l]
        PROVE  reply'[k] \in resigned
    <3>1. Signature[candidates[p[k]]] # Signature[candidates[p[l]]]
      BY <1>4, <2>1, Zenon DEF Signed
    <3>2. /\ \/ reply'[k] \in resigned
             \/ Signature[profiles[reply'[k]]] = Signature[candidates[p[k]]]
          /\ \/ reply'[l] \in resigned
             \/ Signature[profiles[reply'[l]]] = Signature[candidates[p[l]]]
      BY <1>4, <2>1, Zenon DEF Signed
    <3> QED BY <2>1, <3>1, <3>2, Zenon
  <2> QED BY <1>1, <2>1, ZenonT(30) DEF Signed
<1>12. HitsAtMost' /\ Covered' /\ Considered'
  BY <1>1, Zenon DEF HitsAtMost, Covered, Considered
<1> QED BY <1>1, <1>5, <1>7, <1>8, <1>9, <1>10, <1>11, <1>12, Frames, Zenon

\* What belongs to the call is gone.
LEMMA ReturnInv ==
  ASSUME UNCHANGED limit, IInv, Return
  PROVE  IInv'
<1> USE DEF IInv
<1>1. /\ qpc' = "idle" /\ user' = NULL /\ wanted' = <<>> /\ next' = 0 /\ first' = 0
      /\ hits' = [i \in {} |-> 0] /\ found' = <<>> /\ results' = <<>> /\ candidates' = <<>>
      /\ code' = NULL /\ reply' = <<>>
      /\ present' = {} /\ unread' = {} /\ resigned' = {} /\ repeated' = {}
      /\ UNCHANGED <<pending, count, att, listed, gone, profiles, adding, accepted,
                     unstored>>
  BY Zenon DEF Return, store, indexVars
<1>2. CallType'
  BY <1>1 DEF CallType
<1>3. DOMAIN hits' = {}
  BY <1>1, Zenon
<1>4. RetrievalType'
  <2>1. wanted' = <<>> /\ Len(wanted') = 0 /\ next' = 0
    BY <1>1, Zenon
  <2> QED BY <1>1, <1>3, <2>1 DEF RetrievalType
<1>5. ResultsType'
  BY <1>1 DEF ResultsType
<1>6. HistoryType'
  BY <1>1, Zenon DEF HistoryType
<1>7. Fresh'
  BY <1>1, <1>3, ZenonT(30) DEF Fresh
<1>8. Filtered' /\ Signed'
  <2>1. DOMAIN found' = {} /\ DOMAIN results' = {} /\ DOMAIN candidates' = {} /\ DOMAIN reply' = {}
    BY <1>1
  <2> QED BY <2>1, Zenon DEF Filtered, Signed
<1>9. StillPresent' /\ FirstNewest' /\ FirstRight'
  <2>1. 0 \notin DOMAIN att
    BY DEF IndexType, Numbers
  <2> QED BY <1>1, <2>1, Zenon DEF StillPresent, FirstNewest, FirstRight
<1>10. HitsAtMost' /\ Covered' /\ Considered'
  BY <1>1, Zenon DEF HitsAtMost, Covered, Considered
<1> QED BY <1>1, <1>2, <1>4, <1>5, <1>6, <1>7, <1>8, <1>9, <1>10, Frames, Zenon

-----------------------------------------------------------------------------
(* The theorems.                                                           *)

\* The invariant holds when the server starts.
LEMMA InitInv == Init => IInv
<1> SUFFICES ASSUME Init PROVE IInv
  BY Zenon
<1>1. IndexType /\ ListedRight /\ FirstRight
  <2>1. pending = <<>> /\ count = 0 /\ listed = [t \in Tokens |-> {}] /\ gone = {}
    BY Zenon DEF Init, IndexInit
  <2>2. DOMAIN att = {}
    BY Zenon DEF Init, IndexInit
  <2>3. Len(pending) = 0 /\ 0 <= MaxDocs /\ pending \in Seq(accepted)
    BY <2>1, ConstantsAssumption
  <2>4. FirstRight
    BY <2>2, Zenon DEF FirstRight
  <2> QED BY <2>1, <2>2, <2>3, <2>4 DEF IndexType, ListedRight
<1>2. StoreType /\ StoresAgree
  BY Zenon DEF Init, StoreType, StoresAgree
<1>3. CallType /\ ResultsType /\ HistoryType
  <2>1. CallType
    BY DEF Init, CallType
  <2>2. ResultsType
    BY DEF Init, ResultsType
  <2>3. HistoryType
    BY Zenon DEF Init, HistoryType
  <2> QED BY <2>1, <2>2, <2>3, Zenon
<1>4. RetrievalType /\ Fresh
  <2>1. DOMAIN hits = {} /\ wanted = <<>> /\ Len(wanted) = 0 /\ next = 0 /\ first = 0
    BY ZenonT(30) DEF Init
  <2> QED BY <2>1 DEF Init, RetrievalType, Fresh
<1>5. Filtered /\ Signed /\ StillPresent /\ FirstNewest
  BY DEF Init, Filtered, Signed, StillPresent, FirstNewest
<1>6. HitsAtMost /\ Covered /\ Considered
  BY Zenon DEF Init, HitsAtMost, Covered, Considered
<1> QED BY <1>1, <1>2, <1>3, <1>4, <1>5, <1>6, Zenon DEF IInv

\* Every step of the index, of add_story and of a query keeps the invariant.
LEMMA NextInv ==
  ASSUME SetFacts, IInv, [Next]_vars
  PROVE  IInv'
<1>0. UNCHANGED limit
  BY Zenon DEF Next, vars
<1>1. CASE Index
  BY <1>0, <1>1, IndexInv, Zenon
<1>2. ASSUME NEW p \in Stories, AddToIndex(p) PROVE IInv'
  BY <1>0, <1>2, AddToIndexInv, Zenon
<1>3. ASSUME NEW p \in Stories, AddProfile(p) PROVE IInv'
  BY <1>0, <1>3, AddProfileInv, Zenon
<1>4. ASSUME NEW u \in Users, NEW h \in Urls, Begin(u, h) PROVE IInv'
  BY <1>0, <1>4, BeginInv, Zenon
<1>5. CASE LookupFirst
  BY <1>0, <1>5, LookupNothing, LookupNewest, Zenon
<1>6. CASE LookupRest
  BY <1>0, <1>6, LookupRestInv, Zenon
<1>7. CASE NextDoc
  BY <1>0, <1>7, NextDocInv, Zenon
<1>8. CASE MakeReply
  BY <1>0, <1>8, MakeReplyInv, Zenon
<1>9. CASE Filter
  BY <1>0, <1>9, FilterInv, Zenon
<1>10. CASE Rank
  BY <1>0, <1>10, RankInv, Zenon
<1>11. CASE Return
  BY <1>0, <1>11, ReturnInv, Zenon
<1>12. CASE UNCHANGED vars
  <2>1. UNCHANGED <<pending, count, att, listed, gone, profiles, adding, qpc, user,
                    wanted, next, first, hits, found, results, candidates, code, reply,
                    accepted, unstored, present, unread, resigned, repeated>>
    BY <1>12, Zenon DEF vars, indexVars, store, query, history
  <2> QED BY <1>0, <2>1, Frames, Zenon DEF IInv
<1> QED BY <1>1, <1>2, <1>3, <1>4, <1>5, <1>6, <1>7, <1>8, <1>9, <1>10, <1>11, <1>12, Zenon
        DEF Next, Query

-----------------------------------------------------------------------------
INSTANCE FiniteSetTheorems

\* A set of natural numbers has a least one.
LEMMA LeastExists ==
  ASSUME NEW S \in SUBSET Nat, S # {}
  PROVE  \E d \in S : \A e \in S : d <= e
<1>1. PICK d \in S : \A e \in S : ~(<<e, d>> \in OpToRel(<, Nat))
  BY NatLessThanWellFounded, WFMin, Zenon
<1>2. ASSUME NEW e \in S PROVE d <= e
  <2>1. ~(<<e, d>> \in {ss \in Nat \X Nat : ss[1] < ss[2]})
    BY <1>1, Zenon DEF OpToRel
  <2>2. d \in Nat /\ e \in Nat /\ <<e, d>> \in Nat \X Nat
    BY Zenon
  <2> QED BY <2>1, <2>2
<1> QED BY <1>2, Zenon

\* The facts about finite sets that the proofs above use.
LEMMA SetFactsHold == SetFacts
<1>1. \A S \in SUBSET Nat : S # {} => \E d \in S : \A e \in S : d <= e
  BY LeastExists, Zenon
<1>2. \A n \in Nat : IsFiniteSet(1 .. n) /\ Cardinality(1 .. n) = n
  BY FS_Interval
<1>3. \A S, T : IsFiniteSet(T) /\ S \subseteq T => IsFiniteSet(S)
  BY FS_Subset, Zenon
<1>4. \A S : IsFiniteSet(S) => Cardinality(S) \in Nat
  BY FS_CardinalityType, Zenon
<1>5. \A S, x : IsFiniteSet(S) /\ x \notin S => Cardinality(S \union {x}) = Cardinality(S) + 1
  BY FS_AddElement, Zenon
<1>7. Cardinality({}) = 0
  BY FS_EmptySet, Zenon
<1>6. \A S, T, f : IsFiniteSet(T) /\ f \in [S -> T] /\ IsInjective(f) =>
                    Cardinality(S) <= Cardinality(T)
  <2> SUFFICES ASSUME NEW S, NEW T, NEW f \in [S -> T], IsFiniteSet(T), IsInjective(f)
               PROVE  Cardinality(S) <= Cardinality(T)
    BY Zenon
  <2>1. f \in Injection(S, T)
    BY Zenon DEF Injection
  <2> QED BY <2>1, FS_Injection, Zenon
<1> QED BY <1>1, <1>2, <1>3, <1>4, <1>5, <1>6, <1>7, ZenonT(30) DEF SetFacts

\* The services keep the inductive invariant.
THEOREM Invariance == Spec => []IInv
<1>1. Init => IInv
  BY InitInv, Zenon
<1>2. IInv /\ [Next]_vars => IInv'
  BY NextInv, SetFactsHold, Zenon
<1> QED BY <1>1, <1>2, PTL DEF Spec

\* The index, the profiles, the calls and the response have the shapes the code
\* declares; no keyword hits a number more than twice.
THEOREM TypeCorrect == Spec => []TypeOK
<1>1. ASSUME IInv PROVE TypeOK
  <2> USE <1>1 DEF IInv
  <2>0. pending \in Seq(Stories)
    BY SeqLarger, Zenon DEF IndexType, HistoryType
  <2>1. /\ count \in 0 .. MaxDocs
        /\ DOMAIN att \subseteq Numbers
        /\ listed \in [Tokens -> SUBSET Numbers]
        /\ gone \subseteq Numbers
    BY ConstantsAssumption DEF IndexType
  <2>2. Range(att) \subseteq Stories
    BY Zenon DEF IndexType, HistoryType, Range
  <2>3. DOMAIN hits \subseteq Numbers /\ first \in Numbers \union {0}
        /\ next \in 0 .. Len(wanted) + 1
    BY Zenon DEF RetrievalType
  <2>4. Range(hits) \subseteq 1 .. 2 * Len(wanted)
    <3>1. Len(wanted) \in Nat
      BY DEF CallType
    <3>2. ASSUME NEW i \in DOMAIN hits PROVE hits[i] \in 1 .. 2 * Len(wanted)
      <4>1. CASE first = 0
        <5>1. hits[i] \in 1 .. 2 * (next - 1) + 0
          BY <4>1, Zenon DEF RetrievalType
        <5> QED BY <2>3, <3>1, <5>1
      <4>2. CASE first # 0
        <5>1. hits[i] \in 1 .. 2 * (next - 1) + 1 /\ next <= Len(wanted)
          BY <4>2, Zenon DEF RetrievalType
        <5> QED BY <2>3, <3>1, <5>1
      <4> QED BY <4>1, <4>2, Zenon
    <3> QED BY <3>2, Zenon DEF Range
  <2>5. {r[1] : r \in Range(found) \union Range(results)} \subseteq Hashes \union Numbers
    <3>1. found \in Seq(Entry) /\ results \in Seq(Entry)
      BY Zenon DEF ResultsType
    <3>2. Range(found) \subseteq Entry /\ Range(results) \subseteq Entry
      BY <3>1 DEF Range
    <3> QED BY <3>2, Zenon DEF Entry
  <2>6. candidates \in Seq(Stories) /\ reply \in Seq(Hashes)
    BY Zenon DEF ResultsType
  <2> QED BY <2>0, <2>1, <2>2, <2>3, <2>4, <2>5, <2>6, ZenonT(30)
          DEF TypeOK, StoreType, CallType, HistoryType
<1> QED BY <1>1, Invariance, PTL

\* What query returns is new to the user and was accepted with enough of the
\* keywords, whatever the index does while the lists are read.
THEOREM RecommendationsMatch == Spec => []RecommendedMatches
<1>1. ASSUME IInv PROVE RecommendedMatches
  <2>1. SUFFICES ASSUME NEW k \in DOMAIN reply
                 PROVE  /\ reply[k] \notin user.history
                        /\ \E p \in accepted : Hash[p] = reply[k] /\ Deserves(p)
    BY Zenon DEF RecommendedMatches
  <2>2. Suggestible(reply[k])
    BY <1>1, Zenon DEF IInv, Filtered
  <2>3. \A p : Enough(Matches(p)) \/ (p \in repeated /\ Enough(2 * Matches(p))) => Deserves(p)
    BY Zenon DEF Deserves, Enough
  <2> QED BY <2>2, <2>3, Zenon DEF Suggestible, Eligible
<1> QED BY <1>1, Invariance, PTL

\* Candidates differ in their signatures, so that no story is returned twice.
THEOREM NoStoryTwice == Spec => []NoneTwice
<1>1. IInv => NoneTwice
  BY Zenon DEF IInv, Signed, NoneTwice
<1> QED BY <1>1, Invariance, PTL

\* A story that is indexed before the query begins, and stays, is considered, unless
\* others score as well.
THEOREM NoStoryMissed == Spec => []NoneMissed
<1>1. ASSUME IInv PROVE NoneMissed
  <2>1. Considered
    BY <1>1, Zenon DEF IInv
  <2>2. results = <<>> => DOMAIN results = {}
    OBVIOUS
  <2> QED BY <2>1, <2>2, Zenon DEF Considered, NoneMissed
<1> QED BY <1>1, Invariance, PTL

\* add_story leaves the index and the profiles with the same stories, apart from
\* calls on their way and profiles that could not be stored, of which the callers
\* are not told.
THEOREM StoresStayInStep == Spec => []StoresAgree
<1>1. IInv => StoresAgree
  BY Zenon DEF IInv
<1> QED BY <1>1, Invariance, PTL
=============================================================================
