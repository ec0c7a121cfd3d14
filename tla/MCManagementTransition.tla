------------------------ MODULE MCManagementTransition ------------------------
EXTENDS ManagementTransition, TLC
Symmetric == Permutations(Callers)
================================================================================
