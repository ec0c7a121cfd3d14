---------------------------- MODULE MCAppStateObserver ----------------------------
EXTENDS AppStateObserver
CONSTANTS n1, d1
OneTarget == {[ns |-> n1, name |-> d1, uid |-> 1]}
================================================================================
