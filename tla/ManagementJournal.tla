--------------------------- MODULE ManagementJournal ---------------------------
(***************************************************************************)
(* One installation transition of an App: Core's rows, the Runtime's       *)
(* journal row, the workload in Kubernetes, and the reconcile steps Core   *)
(* asks for, from src/internal/executor/management_journal.go.  How a step *)
(* advances a phase is left to the two drivers over this module,           *)
(* ManagementTransition and StoppedTransition.                             *)
(*                                                                         *)
(* The Deployment is object 0, the Services of the checkpoint are objects  *)
(* 1..NumServices, in the order in which the drivers visit them.  An       *)
(* object's rv counts the updates of its spec and marks: the fence         *)
(* of every update.                                                        *)
(***************************************************************************)
EXTENDS Integers

CONSTANTS
    Callers,      \* handler goroutines of ManagementHandler
    NumServices,  \* Services of the App
    MaxPods,      \* bound: Pods ever made for the Deployment
    Faults,       \* the kinds of failure that may happen in this instance
    MaxFaults     \* bound: how many of them

FaultKinds == {"interrupt", "crash", "session", "drift", "broken", "evict", "redeploy",
               "recover", "rollback", "late"}

ASSUME TransitionAssumption ==
    /\ NumServices \in Nat \ {0} /\ MaxPods \in Nat \ {0} /\ MaxFaults \in Nat
    /\ Faults \subseteq FaultKinds

VARIABLES
    core,       \* phase of Core's app_installation_transitions row
    installed,  \* app_installations.revision - expected_revision
    known,      \* what Core has been told in this phase
    row,        \* runtime_management_transitions: phase, and is there a checkpoint
    registered, \* the target's template digest is the registered one
    objs,       \* the Deployment and its Services
    observed,   \* the Deployment controller has seen the current generation
    pods,       \* Pods the Deployment's selector matches
    born,       \* Pods made so far
    broken,     \* the target release never becomes Ready
    pc,         \* where each call is
    tx,         \* which calls have their transaction, and with it the App lock
    loc,        \* each call's arguments and local variables
    late,       \* requests whose caller has gone, still under way
    faults,     \* failures so far
    timely      \* history: Core has begun every release after what was abandoned had settled

authority == <<core, installed, known, registered, timely>>
workload == <<objs, observed, pods, born, broken>>
calls == <<pc, tx, loc>>
journalVars == <<authority, row, workload, calls, late, faults>>

--------------------------------------------------------------------------------
(* Types                                                                    *)

Deployment == 0
Services == 1..NumServices
Objects == 0..NumServices
Versions == {"source", "target"}
Modes == {"prepare", "restore", "release_source", "release_target"}
ReleasePhases == {"releasing_source", "releasing_target", "released_source", "released_target"}
Phases == {"none", "rejected_preflight", "checking", "sealing", "canceling_source",
           "canceled_source", "applying", "verifying", "prepared", "restoring", "restored",
           "recovery_required"} \cup ReleasePhases
Replies == {"progress", "prepared", "rejected", "failed", "restored", "released", "conflict"}

\* ver: whose spec and owner marks the object carries; op: marked with this operation;
\* up: replicas is 1, not 0; gated: the Service selects no Pod.
Object == [ver: Versions \cup {"other"}, op: BOOLEAN, up: BOOLEAN, gated: BOOLEAN, rv: Nat]
Original == [ver |-> "source", op |-> FALSE, up |-> TRUE, gated |-> FALSE, rv |-> 0]
Pod == [uid: 1..MaxPods, ver: Versions, state: {"starting", "ready", "terminating"}]
Row == [phase: Phases, cp: BOOLEAN]

NoCall == [mode |-> "none", phase |-> "none", cp |-> FALSE, job |-> "none", ask |-> "none",
           side |-> "source", next |-> "none", n |-> 0, dep |-> Original, to |-> Original,
           ready |-> FALSE, proc |-> 0, busy |-> FALSE]

--------------------------------------------------------------------------------
(* The workload                                                             *)

Marked(d, side) == d.ver = side /\ d.op = (side = "target")
LivePods == {p \in pods : p.state # "terminating"}
managementReady ==
    /\ observed /\ objs[Deployment].up
    /\ \E p \in LivePods : LivePods = {p} /\ p.ver = objs[Deployment].ver /\ p.state = "ready"

\* Requests are fenced by the resourceVersion that was read.
Current(n, to) == objs[n].rv + 1 = to.rv
Store(n, to) ==
    /\ objs' = [objs EXCEPT ![n] = to]
    /\ observed' = (observed /\ n # Deployment)

\* The Deployment controller observes a new generation, starts and stops Pods.
ObserveGeneration ==
    /\ ~observed /\ observed' = TRUE
    /\ UNCHANGED <<objs, pods, born, broken>>
StartPod ==
    LET d == objs[Deployment] IN
    /\ observed /\ d.up /\ d.ver \in Versions /\ born < MaxPods
    /\ \A p \in LivePods : p.ver # d.ver
    /\ born' = born + 1
    /\ pods' = pods \cup {[uid |-> born + 1, ver |-> d.ver, state |-> "starting"]}
    /\ UNCHANGED <<objs, observed, broken>>
SetPod(p, state) ==
    /\ pods' = (pods \ {p}) \cup {[p EXCEPT !.state = state]}
    /\ UNCHANGED <<objs, observed, born, broken>>
PodReady(p) == p.state = "starting" /\ ~(broken /\ p.ver = "target") /\ SetPod(p, "ready")
StopPod(p) ==
    /\ observed /\ p \in LivePods
    /\ ~objs[Deployment].up \/ p.ver # objs[Deployment].ver
    /\ SetPod(p, "terminating")
PodGone(p) ==
    /\ p.state = "terminating" /\ pods' = pods \ {p}
    /\ UNCHANGED <<objs, observed, born, broken>>
Controller ==
    \/ ObserveGeneration \/ StartPod
    \/ \E p \in pods : PodReady(p) \/ StopPod(p) \/ PodGone(p)

Fault(kind) == kind \in Faults /\ faults < MaxFaults /\ faults' = faults + 1

\* Somebody edits an object; a Pod is evicted.
Drift ==
    /\ Fault("drift")
    /\ \E n \in Objects : Store(n, [objs[n] EXCEPT !.ver = "other", !.rv = @ + 1])
    /\ UNCHANGED <<pods, born, broken>>
Evict == Fault("evict") /\ born < MaxPods /\ \E p \in LivePods : SetPod(p, "terminating")
Cluster ==
    /\ (Controller /\ UNCHANGED faults) \/ Drift \/ Evict
    /\ UNCHANGED <<authority, row, calls, late>>

--------------------------------------------------------------------------------
(* Core                                                                     *)

\* A step holds the App lock, and both of Core's rows FOR SHARE, until it ends.
Unlocked == \A c \in Callers : ~tx[c]

\* Every abandoned call has met its 20 s deadline, and what it had sent has been executed or
\* lost.  Nothing makes Core wait for this before it begins a release: timely records whether
\* it did, and the properties that need it say so.
Settled == late = {} /\ \A c \in Callers : pc[c] = "idle"

CoreStep(phase, revision) ==
    /\ core' = phase /\ installed' = revision /\ known' = {}
    /\ timely' = (timely /\ (phase = "releasing" => Settled))
    /\ UNCHANGED <<registered, row, workload, calls, late>>

Advance ==
    /\ core = "checking" /\ "progress" \in known /\ Unlocked
    /\ CoreStep("preparing", installed) /\ UNCHANGED faults
Publish ==
    /\ core \in {"checking", "preparing"} /\ "prepared" \in known /\ Unlocked
    /\ CoreStep("releasing", 1) /\ UNCHANGED faults
\* A preparation that failed, does not come to an end, or is given up is rolled back.
Recover ==
    /\ Unlocked
    /\ \/ /\ core \in {"checking", "preparing"} /\ known \cap {"failed", "conflict"} # {}
          /\ UNCHANGED faults
       \/ core = "preparing" /\ broken /\ UNCHANGED faults
       \/ core \in {"checking", "preparing"} /\ Fault("recover")
    /\ CoreStep("restoring", installed)
\* Nothing was published, or the publication is taken back under a new revision.
Compensate ==
    /\ core = "restoring" /\ "restored" \in known /\ Unlocked
    /\ CoreStep("releasing", IF installed = 1 THEN 2 ELSE installed) /\ UNCHANGED faults
\* The release is refused, or recovery is requested although a release may have begun.
Rollback ==
    /\ core = "releasing" /\ Unlocked
    /\ ("conflict" \in known /\ UNCHANGED faults) \/ Fault("rollback")
    /\ CoreStep("restoring", installed)
Finish ==
    /\ \/ core = "releasing" /\ "released" \in known
       \/ core \in {"checking", "preparing"} /\ "rejected" \in known
    /\ Unlocked
    /\ CoreStep("done", installed) /\ UNCHANGED faults
Core == Advance \/ Publish \/ Recover \/ Compensate \/ Rollback \/ Finish

Published == IF installed = 1 THEN "target" ELSE "source"

--------------------------------------------------------------------------------
(* reconcile: one transaction under the App lock around one step            *)

Releasing(mode) == mode \in {"release_source", "release_target"}

\* readManagementBinding, and the mode Core's durable phase permits.
Bound(mode) ==
    /\ core # "done"
    /\ installed # 0 => core \in {"restoring", "releasing"}
    /\ Releasing(mode) <=> core = "releasing"
    /\ mode = "restore" <=> core = "restoring"
    /\ Releasing(mode) => (mode = "release_target" <=> installed = 1)

\* What ReconcileStep reports of a phase.
Reply(mode, phase) ==
    CASE phase \in {"released_source", "released_target"} -> "released"
      [] mode = "prepare" /\ phase = "prepared" -> "prepared"
      [] mode = "prepare" /\ phase \in {"canceled_source", "rejected_preflight"} -> "rejected"
      [] mode = "prepare" /\ phase = "recovery_required" -> "failed"
      [] mode = "restore" /\ phase \in {"restored", "canceled_source"} -> "restored"
      [] OTHER -> "progress"

\* The answer reaches Core or is lost on the way.
Tell(mode, phase) == known' \in {known, known \cup {Reply(mode, phase)}}

End(c) ==
    /\ pc' = [pc EXCEPT ![c] = "idle"] /\ tx' = [tx EXCEPT ![c] = FALSE]
    /\ loc' = [loc EXCEPT ![c] = NoCall]
Goto(c, at, call) ==
    /\ pc' = [pc EXCEPT ![c] = at] /\ loc' = [loc EXCEPT ![c] = call]
    /\ UNCHANGED tx
Decide(c, phase) == Goto(c, "commit", [loc[c] EXCEPT !.next = phase])
\* Not done yet: the phase stays, the next step looks again.
Again(c) == Decide(c, loc[c].phase)

\* Do not capture, seal or update before this commit is durable.
CreateRow(c) ==
    /\ pc[c] = "idle" /\ Unlocked /\ registered
    /\ Bound("prepare") \/ Bound("restore")
    /\ row.phase = "none" /\ row' = [row EXCEPT !.phase = "checking"]
    /\ UNCHANGED <<authority, workload, calls, late, faults>>

\* A target with another digest is rejected for good, while nothing has been captured.
rejectManagementTemplate(c) ==
    /\ pc[c] = "idle" /\ Unlocked /\ ~registered
    /\ Bound("prepare") /\ core = "checking"
    /\ ~row.cp /\ row.phase \in {"none", "checking", "rejected_preflight"}
    /\ row' = [row EXCEPT !.phase = "rejected_preflight"]
    /\ Tell("prepare", "rejected_preflight")
    /\ UNCHANGED <<core, installed, registered, timely, workload, calls, late, faults>>

\* How a step begins: the label to go to, the job to do there, and the phase it is for.
Refuse == [at |-> "refuse", job |-> "none", ask |-> "none", side |-> "source", next |-> "none"]
Intend(phase) == [Refuse EXCEPT !.at = "commit", !.next = phase]

Admitted(c, mode) ==
    pc[c] = "idle" /\ Unlocked /\ registered /\ Bound(mode) /\ row.phase # "none"
Enter(c, mode, plan) ==
    /\ Admitted(c, mode) /\ plan.at # "refuse"
    /\ pc' = [pc EXCEPT ![c] = plan.at] /\ tx' = [tx EXCEPT ![c] = TRUE]
    /\ loc' = [loc EXCEPT ![c] =
                 [NoCall EXCEPT !.mode = mode, !.phase = row.phase, !.cp = row.cp, !.job = plan.job,
                                !.ask = plan.ask, !.side = plan.side, !.next = plan.next]]
    /\ UNCHANGED <<authority, row, workload, late, faults>>

\* TRANSITION_CONFLICT: the row's phase does not allow this mode.  A conflict met in the
\* cluster is answered alike; a Core that gives up on one is the fault "recover" or "rollback".
Refused(c, mode, plan) ==
    /\ Admitted(c, mode) /\ plan.at = "refuse"
    /\ known' \in {known, known \cup {"conflict"}}
    /\ UNCHANGED <<core, installed, registered, timely, row, workload, calls, late, faults>>

\* Mutant: a call that has lost its transaction saves on a new one.
CommitUnlocked(c) ==
    LET call == loc[c] IN
    /\ pc[c] = "commit"
    /\ row' = [phase |-> call.next, cp |-> call.cp] /\ Tell(call.mode, call.next)
    /\ End(c)
    /\ UNCHANGED <<core, installed, registered, timely, workload, late, faults>>
\* The phase and the checkpoint are saved on the transaction that was locked.
Commit(c) ==
    LET call == loc[c] IN
    /\ pc[c] = "commit"
    /\ IF tx[c] THEN /\ row' = [phase |-> call.next, cp |-> call.cp]
                     /\ Tell(call.mode, call.next)
                ELSE UNCHANGED <<row, known>>
    /\ End(c)
    /\ UNCHANGED <<core, installed, registered, timely, workload, late, faults>>

\* The last thing a step does to Kubernetes.
Update(c) ==
    LET call == loc[c] IN
    /\ pc[c] = "update"
    /\ \/ Current(call.n, call.to) /\ Store(call.n, call.to) /\ Again(c)
       \/ ~Current(call.n, call.to) /\ UNCHANGED <<objs, observed>> /\ End(c)
    /\ UNCHANGED <<authority, row, pods, born, broken, late, faults>>

\* Prepares an update of object n, which was read as seen.
Change(c, n, seen, to) ==
    Goto(c, "update", [loc[c] EXCEPT !.n = n, !.to = [to EXCEPT !.rv = seen.rv + 1]])

Quiet == UNCHANGED <<authority, row, workload, late, faults>>

--------------------------------------------------------------------------------
(* Failures of a call                                                       *)

\* What an abandoned call may have sent; it can be executed later.
Request(c) ==
    IF "late" \notin Faults THEN {}
    ELSE CASE pc[c] = "update" -> {[kind |-> "update", n |-> loc[c].n, to |-> loc[c].to]}
           [] pc[c] = "ask" -> {[kind |-> loc[c].ask, n |-> 0, to |-> Original]}
           [] OTHER -> {}

\* The deadline, a network error or a database error; a request may have been sent.
Interrupt(c) ==
    /\ Fault("interrupt") /\ pc[c] # "idle"
    /\ \E sent \in SUBSET Request(c) : late' = late \cup sent
    /\ End(c)
    /\ UNCHANGED <<authority, row, workload>>
Crash ==
    /\ Fault("crash") /\ \E c \in Callers : pc[c] # "idle"
    /\ \E sent \in SUBSET UNION {Request(c) : c \in Callers} : late' = late \cup sent
    /\ pc' = [c \in Callers |-> "idle"] /\ tx' = [c \in Callers |-> FALSE]
    /\ loc' = [c \in Callers |-> NoCall]
    /\ UNCHANGED <<authority, row, workload>>
\* PostgreSQL ends the transaction and drops its locks while the call goes on.
SessionLoss(c) ==
    /\ Fault("session") /\ tx[c] /\ tx' = [tx EXCEPT ![c] = FALSE]
    /\ UNCHANGED <<authority, row, workload, pc, loc, late>>
\* The Runtime comes back with another set of registered templates.
Redeploy ==
    /\ Fault("redeploy") /\ \A c \in Callers : pc[c] = "idle"
    /\ registered' = ~registered
    /\ UNCHANGED <<core, installed, known, timely, row, workload, calls, late>>

Land(r) ==
    /\ r \in late /\ late' = late \ {r}
    /\ r.kind = "update" /\ Current(r.n, r.to) /\ Store(r.n, r.to)
    /\ UNCHANGED <<authority, row, pods, born, broken, calls, faults>>
Lose(r) ==
    /\ r \in late /\ late' = late \ {r}
    /\ UNCHANGED <<authority, row, workload, calls, faults>>

Failures ==
    \/ \E c \in Callers : Interrupt(c) \/ SessionLoss(c)
    \/ Crash \/ Redeploy
    \/ \E r \in late : Land(r) \/ Lose(r)

JournalInit ==
    /\ core = "checking" /\ installed = 0 /\ known = {} /\ registered = TRUE
    /\ row = [phase |-> "none", cp |-> FALSE]
    /\ objs = [n \in Objects |-> Original] /\ observed = TRUE
    /\ pods = {[uid |-> 1, ver |-> "source", state |-> "ready"]} /\ born = 1
    /\ broken \in {"broken" \in Faults, FALSE}
    /\ pc = [c \in Callers |-> "idle"] /\ tx = [c \in Callers |-> FALSE]
    /\ loc = [c \in Callers |-> NoCall]
    /\ late = {} /\ faults = 0 /\ timely = TRUE

Shared ==
    \/ \E c \in Callers : CreateRow(c) \/ rejectManagementTemplate(c) \/ Commit(c) \/ Update(c)
    \/ Core \/ Cluster \/ Failures
================================================================================
