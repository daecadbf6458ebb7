---------------------------- MODULE MCTokenRaces ----------------------------
\* A small instance of TokenRaces.  A liveness property is checked with it, so
\* no symmetry is declared.
EXTENDS TokenRaces

=============================================================================
