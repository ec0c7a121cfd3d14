-------------------------- MODULE MCStoppedTransition --------------------------
EXTENDS StoppedTransition, TLC
Symmetric == Permutations(Callers)
================================================================================
