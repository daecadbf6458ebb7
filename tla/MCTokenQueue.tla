--------------------------- MODULE MCTokenQueue ---------------------------
\* Small instances of TokenQueue.
EXTENDS TokenQueueProps, TLC

Interchangeable == Permutations(Tokens) \cup Permutations(Bills)

=============================================================================
