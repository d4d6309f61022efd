----------------------------- MODULE MCSimulator -----------------------------
EXTENDS Simulator

\* Events are interchangeable.
EventSymmetry == Permutations(Event)
=============================================================================
