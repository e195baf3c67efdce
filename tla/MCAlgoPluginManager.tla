------------------------ MODULE MCAlgoPluginManager ------------------------
(* Instances of AlgoPluginManager for TLC.                                 *)
EXTENDS AlgoPluginManager

Item(b, ok) == [bucket |-> b, ok |-> ok]

\* Two that are in order, with different numbers of buckets and defaults; one
\* without num_buckets, whose default bucket is not listed; one whose second
\* plugin cannot be loaded.
Two    == [num |-> 2, default |-> 0, items |-> <<Item(0, TRUE), Item(1, TRUE)>>]
Three  == [num |-> 3, default |-> 1, items |-> <<Item(1, TRUE)>>]
Sloppy == [num |-> NULL, default |-> 2, items |-> <<Item(0, TRUE)>>]
Broken == [num |-> 1, default |-> 0, items |-> <<Item(0, TRUE), Item(2, FALSE)>>]

MCConfigs == {Two, Three, Sloppy, Broken}
=============================================================================
