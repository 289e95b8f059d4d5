--------------------------- MODULE MCQueueChannel ---------------------------
(***************************************************************************)
(* Instances of QueueChannel for TLC.                                      *)
(***************************************************************************)
EXTENDS QueueChannel, TLC

CONSTANTS m1, m2, m3, m4, c1, c2, close1, close2

\* Messages, consumers and calls of close() are interchangeable.
Interchangeable == Permutations(Msgs) \cup Permutations(Consumers) \cup Permutations(Closers)
=============================================================================
