----------------------------- MODULE MCAppInstance -----------------------------
EXTENDS AppInstance, TLC

Symmetric ==
    Permutations(Callers) \cup Permutations(Ops) \cup Permutations(StopOps) \cup Permutations(Profiles)
================================================================================
