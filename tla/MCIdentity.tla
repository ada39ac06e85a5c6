----------------------------- MODULE MCIdentity -----------------------------
EXTENDS Identity, TLC

CONSTANTS a, b, id1, id2, id3

\* Nothing tells one command or one ID from another, and only invariants are
\* checked.
Symmetry == Permutations({a, b}) \cup Permutations({id1, id2, id3})
==============================================================================
