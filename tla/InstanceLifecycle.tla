--------------------------- MODULE InstanceLifecycle ---------------------------
(***************************************************************************)
(* What the instance journal promises its App, without locks, calls,       *)
(* checkpoints or requests under way: the runs of an instance follow each  *)
(* other one at a time, and a worker exists only for the run whose turn it *)
(* is.  AppInstance implements this.                                       *)
(***************************************************************************)
EXTENDS Integers

CONSTANT Ops        \* start operation ids

VARIABLES
    state,          \* where each run is
    gen,            \* its generation, 0 before it is accepted
    workers         \* the runs that have a worker Pod

lifecycleVars == <<state, gen, workers>>

Init ==
    /\ state = [o \in Ops |-> "none"]
    /\ gen = [o \in Ops |-> 0]
    /\ workers = {}

\* The next generation is accepted once every earlier run is over and its worker gone.
Accept(o) ==
    /\ state[o] = "none" /\ workers = {}
    /\ \A x \in Ops : state[x] \in {"none", "stopped"}
    /\ state' = [state EXCEPT ![o] = "starting"]
    /\ \E x \in Ops : /\ \A y \in Ops : gen[y] <= gen[x]
                      /\ gen' = [gen EXCEPT ![o] = gen[x] + 1]
    /\ UNCHANGED workers

\* A worker appears for a starting run, never next to another one.
Appear(o) ==
    /\ state[o] = "starting" /\ workers = {}
    /\ workers' = {o}
    /\ UNCHANGED <<state, gen>>

\* A worker goes: removed by a stop, or from outside.
Vanish(o) == o \in workers /\ workers' = workers \ {o} /\ UNCHANGED <<state, gen>>

Move(o, from, to) ==
    /\ state[o] = from /\ state' = [state EXCEPT ![o] = to]
    /\ UNCHANGED <<gen, workers>>

Run(o) == Move(o, "starting", "running")
RequestStop(o) == Move(o, "running", "stopping")
Retire(o) == workers = {} /\ Move(o, "stopping", "stopped")

Next ==
    \E o \in Ops : Accept(o) \/ Appear(o) \/ Vanish(o) \/ Run(o) \/ RequestStop(o) \/ Retire(o)

Spec == Init /\ [][Next]_lifecycleVars
================================================================================
