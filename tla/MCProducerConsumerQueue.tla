----------------------- MODULE MCProducerConsumerQueue -----------------------
(* Instances of ProducerConsumerQueue for TLC.                             *)
EXTENDS ProducerConsumerQueue, TLC

\* Puts with the default timeout and without a timeout, as the doc pool and the
\* replay log buffer are used.
Mixed == {TIMEOUT_USE_DEFAULT, TIMEOUT_NONE}

\* Threads of a kind are interchangeable.
Symmetry == Permutations(Producers) \union Permutations(Consumers)
=============================================================================
