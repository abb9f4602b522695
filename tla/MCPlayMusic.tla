---------------------------- MODULE MCPlayMusic -----------------------------
EXTENDS PlayMusic, TLC

\* Chain slots and timer handles are interchangeable.
Symmetry == Permutations(Task) \cup Permutations(Timer)

=============================================================================
