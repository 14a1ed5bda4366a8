---------------------------- MODULE MCRepository -----------------------------
EXTENDS Repository, TLC

\* Evaluators are interchangeable.
Symmetry == Permutations(Evaluators)
==============================================================================
