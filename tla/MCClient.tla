------------------------------- MODULE MCClient ------------------------------
EXTENDS Client, TLC

\* Callers are interchangeable.
Symmetry == Permutations(Callers)
==============================================================================
