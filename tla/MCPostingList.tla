--------------------------- MODULE MCPostingList ---------------------------
(* Instances of PostingList for TLC.                                       *)
EXTENDS PostingList, TLC

\* Cells and readers are interchangeable.
Symmetry == Permutations(Nodes) \union Permutations(Readers)

\* overlap stays TRUE once it is, and every property of the passing runs but
\* TypeOK, which is proved in general, is conditional on ~overlap: nothing is
\* left to check beyond such a state.
NotOverlapped == ~overlap
=============================================================================
