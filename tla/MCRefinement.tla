---------------------------- MODULE MCRefinement -----------------------------
EXTENDS Refinement, TLC

\* Threads are interchangeable, and so are sessions: no property names one.
Interchangeable == Permutations(Threads) \cup Permutations(Sessions)
=============================================================================
