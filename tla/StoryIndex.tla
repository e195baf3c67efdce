----------------------------- MODULE StoryIndex -----------------------------
(***************************************************************************)
(* What InstantIndex promises to those who read it: an accepted story gets *)
(* a number, the local id, which is never used again; a number is listed   *)
(* under the keywords of its story; a number that was withdrawn from some  *)
(* list may lose its story while other lists still have it.  How posting   *)
(* lists, locks and clean-up bring this about is left to InstantIndex,     *)
(* which implements this module, and RecommEngine builds on it.  The       *)
(* promise holds as long as no iteration of a posting list outlives the    *)
(* clean-up's sleep: past that PostingList promises nothing.               *)
(***************************************************************************)
EXTENDS Integers, Sequences

CONSTANTS
  Tokens,    \* keywords
  Stories,   \* stories, each with the keywords it is added with
  Keywords   \* Stories -> SUBSET Tokens

VARIABLES
  pending,   \* stories accepted and not yet numbered
  count,     \* numbers given out
  att,       \* number -> story
  listed,    \* the numbers an iteration of a token's list finds
  gone       \* numbers that left a list, or came too late for it

indexVars == <<pending, count, att, listed, gone>>

Numbers == 1 .. count

Accept(s) ==
  /\ pending' = Append(pending, s)
  /\ UNCHANGED <<count, att, listed, gone>>

\* The next story gets a number, when the last one is where it belongs.
Attach ==
  /\ pending # <<>>
  /\ count \notin gone \union {0} => \A t \in Keywords[att[count]] : count \in listed[t]
  /\ pending' = Tail(pending)
  /\ count' = count + 1
  /\ att' = [i \in DOMAIN att \union {count'} |->
               IF i = count' THEN Head(pending) ELSE att[i]]
  /\ UNCHANGED <<listed, gone>>

\* The last number is listed.
List(t) ==
  /\ count \in Numbers \ listed[t]
  /\ IF count \in DOMAIN att THEN t \in Keywords[att[count]] ELSE count \in gone
  /\ listed' = [listed EXCEPT ![t] = @ \union {count}]
  /\ UNCHANGED <<pending, count, att, gone>>

Withdraw(t, S) ==
  /\ listed' = [listed EXCEPT ![t] = @ \ S]
  /\ gone' = gone \union S
  /\ UNCHANGED <<pending, count, att>>

Forget(S) ==
  /\ S \subseteq gone
  /\ att' = [i \in DOMAIN att \ S |-> att[i]]
  /\ UNCHANGED <<pending, count, listed, gone>>

IndexInit ==
  /\ pending = <<>>
  /\ count = 0
  /\ att = [i \in {} |-> 0]
  /\ listed = [t \in Tokens |-> {}]
  /\ gone = {}

IndexNext ==
  \/ \E s \in Stories : Accept(s)
  \/ Attach
  \/ \E t \in Tokens : List(t)
  \/ \E t \in Tokens, S \in SUBSET Numbers : Withdraw(t, S)
  \/ \E S \in SUBSET Numbers : Forget(S)

IndexSpec == IndexInit /\ [][IndexNext]_indexVars
=============================================================================
