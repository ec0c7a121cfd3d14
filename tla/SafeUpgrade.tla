------------------------------ MODULE SafeUpgrade ------------------------------
(***************************************************************************)
(* What an installation transition promises the users of an App: new work  *)
(* is admitted only by the version Core has published.  Whether admission  *)
(* is closed by the App itself or by its routes, the transition implements *)
(* this.                                                                   *)
(***************************************************************************)
CONSTANT Versions

VARIABLES
    published,  \* the version Core has published
    running,    \* versions that have a process
    admitting   \* new work is admitted

upgradeVars == <<published, running, admitting>>

Init == published \in Versions /\ running = {published} /\ admitting = TRUE

\* Processes come and go, other versions' only while nothing is admitted.
Processes ==
    /\ running' \in SUBSET Versions
    /\ admitting => running' \subseteq {published}
    /\ UNCHANGED <<published, admitting>>
Close == admitting /\ admitting' = FALSE /\ UNCHANGED <<published, running>>
Publish == ~admitting /\ published' \in Versions /\ UNCHANGED <<running, admitting>>
Open ==
    /\ ~admitting /\ running \subseteq {published} /\ admitting' = TRUE
    /\ UNCHANGED <<published, running>>

Next == Processes \/ Close \/ Publish \/ Open
Spec == Init /\ [][Next]_upgradeVars
================================================================================
