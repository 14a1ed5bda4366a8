------------------------------ MODULE MCMetrics ------------------------------
EXTENDS Metrics, TLC

\* Callers are interchangeable.
Symmetry == Permutations(Callers)
==============================================================================
