----------------------------- MODULE AppExecution -----------------------------
(***************************************************************************)
(* Protected executions of one App, of a registered template or of an OCI  *)
(* chart: ReconcileBound records an operation in its first call and        *)
(* carries it out one Kubernetes step or Helm action per call, each call   *)
(* in one transaction that holds the App's advisory lock.  From            *)
(* src/internal/executor/service.go, appcenter.go,                         *)
(* appcenter_inspection.go, appcenter_kubernetes.go, kubernetes.go,        *)
(* oci_chart_kubernetes.go and helm_lifecycle.go.                          *)
(*                                                                         *)
(* The App has one Deployment and one Service.  A call that fails leaves   *)
(* its row as it is; a request it had sent may be executed after it.       *)
(***************************************************************************)
EXTENDS Naturals, FiniteSets

CONSTANTS
    Ops,        \* operation IDs; an install's ID also stands for its new installation
    Callers,    \* calls that may be under way at once
    Seed,       \* the installation that is there at the start
    None,       \* nobody, nothing, marks of somebody else
    Charts,     \* whether the App is a chart: the cases considered
    MaxUid,     \* bound on the Deployments made
    Faults,     \* which faults happen
    MaxFaults   \* bound on faults

ASSUME ExecutionAssumption ==
    /\ {Seed, None} \cap (Ops \cup Callers) = {} /\ Seed # None /\ Charts \subseteq BOOLEAN
    /\ IsFiniteSet(Ops)
    /\ MaxUid \in Nat \ {0} /\ MaxFaults \in Nat
    /\ Faults \subseteq {"interrupt", "session", "timeout", "redeploy", "relabel", "evict", "rollout", "unready", "chart"}

VARIABLES
    rows,           \* status of each row of runtime_app_executions
    cmd,            \* what Core asks for in each operation
    registered,     \* hash of the registered template
    chart,          \* the App is a chart
    dep, svc, made, \* the Deployment, the Service, Deployments made so far
    rel,            \* the last record of the App's Helm release
    transition,     \* Core has an installation transition of the App under way
    lock,           \* the call whose transaction holds runtime-app:<station>:<app>
    pc, loc,        \* program counter and locals of each call
    late,           \* requests whose caller has given up
    quiet,          \* since the lock was last taken, only its holder has changed the cluster
    faults

cluster == <<dep, svc, made, rel>>
calls == <<pc, loc>>
core == <<cmd, registered, transition, chart>>
vars == <<rows, core, cluster, lock, calls, late, quiet, faults>>

--------------------------------------------------------------------------------
(* Objects, commands and the guards                                         *)

Actions == {"install", "upgrade", "start", "stop", "restart", "delete"}
\* The hash also stands for the images of a version.
Marks == [inst : Ops \cup {Seed, None}, hash : 0..MaxFaults + Cardinality(Ops)]

NoDep == [uid |-> 0, marks |-> None, op |-> None, up |-> FALSE, restart |-> None,
          doomed |-> FALSE, status |-> "none"]
Deployment == [uid : 1..MaxUid, marks : Marks, op : Ops \cup {None}, up : BOOLEAN,
               restart : Ops \cup {None}, doomed : BOOLEAN, status : {"moving", "ready", "failed"}]
NoSvc == [marks |-> None, op |-> None, doomed |-> FALSE]
Service == [marks : Marks, op : Ops \cup {None}, doomed : BOOLEAN]

NoRel == [status |-> "none", marks |-> None, op |-> None, fresh |-> FALSE]
Release == [status : {"pending", "deployed", "failed", "uninstalling"}, marks : Marks,
            op : Ops \cup {None}, fresh : BOOLEAN]

NoCmd == [action |-> "none", marks |-> None, uid |-> 0]
Command == [action : Actions, marks : Marks, uid : 0..MaxUid]

NoCall == [op |-> None, new |-> FALSE, again |-> FALSE, live |-> NoDep, gone |-> TRUE, result |-> "running"]

\* Free operation IDs and calls are interchangeable: one of them stands for all.
First(S) == CHOOSE x \in S : TRUE

Action(o) == cmd[o].action
Connected(c) == lock = c
Free(c) == pc[c] = "idle" /\ c = First({d \in Callers : pc[d] = "idle"})

\* ownedWorkload: the template's hash is not compared for a chart.
Owned(o, m) == m.inst = cmd[o].marks.inst /\ (chart \/ m.hash = cmd[o].marks.hash)
\* workloadCompatible: an upgrade may find other images.
Compatible(o, m) == m.hash = cmd[o].marks.hash \/ Action(o) = "upgrade"

\* Mutant: the Deployment is known by its marks only.
WorkloadMatchesMarks(o, d) ==
    /\ ~d.doomed \/ Action(o) = "delete"
    /\ Owned(o, d.marks) /\ Compatible(o, d.marks)
\* appCenterWorkloadMatches: the marks, and the operation that made it or the UID.
WorkloadMatches(o, d) ==
    /\ ~d.doomed \/ Action(o) = "delete"
    /\ Owned(o, d.marks) /\ Compatible(o, d.marks)
    /\ IF Action(o) = "install" THEN d.op = o ELSE d.uid = cmd[o].uid

ServiceMatches(o, s) ==
    /\ ~s.doomed \/ Action(o) = "delete"
    /\ Owned(o, s.marks)
    /\ Action(o) = "install" => s.op = o

\* CheckAppCenter, its two reads; first is its last argument.
CheckWorkload(o, first) ==
    IF dep = NoDep THEN Action(o) = "install" \/ (Action(o) = "delete" /\ ~first)
    ELSE /\ ~(first /\ Action(o) = "install") /\ ~(first /\ Action(o) = "delete" /\ dep.doomed)
         /\ WorkloadMatches(o, dep)
CheckService(o, first) ==
    svc # NoSvc => /\ ~(first /\ Action(o) = "install") /\ ~(first /\ Action(o) = "delete" /\ svc.doomed)
                   /\ ServiceMatches(o, svc)

Goto(c, label, locals) == pc' = [pc EXCEPT ![c] = label] /\ loc' = [loc EXCEPT ![c] = locals]
Jump(c, label) == Goto(c, label, loc[c])
Result(c, r) == Goto(c, "finish", [loc[c] EXCEPT !.result = r])
End(c) == Goto(c, "idle", NoCall) /\ lock' = IF lock = c THEN None ELSE lock

Fault(kind) == kind \in Faults /\ faults < MaxFaults /\ faults' = faults + 1

--------------------------------------------------------------------------------
(* Core                                                                     *)

\* What InspectBound may answer, which Core puts into the guard of its command.
Inspected(action) ==
    IF action = "install"
      THEN dep = NoDep /\ svc = NoSvc
      ELSE /\ dep # NoDep /\ ~dep.doomed /\ dep.marks.inst # None /\ (chart \/ dep.marks.hash = registered)
           /\ svc # NoSvc => svc.marks.inst = dep.marks.inst /\ (chart \/ svc.marks = dep.marks) /\ ~svc.doomed
           /\ CASE action = "start" -> ~dep.up /\ dep.status = "ready"
                [] action = "stop" -> dep.up
                [] OTHER -> dep.up \/ dep.status = "ready"

InspectBound(o, action) ==
    /\ cmd[o] = NoCmd /\ o = First({p \in Ops : cmd[p] = NoCmd}) /\ Inspected(action)
    /\ cmd' = [cmd EXCEPT ![o] =
                 [action |-> action, uid |-> dep.uid,
                  marks |-> CASE action = "install" -> [inst |-> o, hash |-> registered]
                              [] action = "upgrade" /\ chart -> [dep.marks EXCEPT !.hash = @ + 1]
                              [] OTHER -> dep.marks]]
    /\ UNCHANGED <<rows, registered, transition, chart, cluster, lock, calls, late, quiet, faults>>

Busy == \E o \in Ops : rows[o] = "running"

\* Core writes the row of a transition outside the App's lock, when it sees no execution ...
BeginTransition ==
    /\ ~transition /\ ~Busy /\ transition' = TRUE
    /\ UNCHANGED <<rows, cmd, registered, chart, cluster, lock, calls, late, quiet, faults>>

\* ... and the Runtime advances none while there is one (management_journal.go:230).
EndTransition ==
    /\ transition /\ ~Busy /\ lock = None /\ transition' = FALSE
    /\ UNCHANGED <<rows, cmd, registered, chart, cluster, lock, calls, late, quiet, faults>>

--------------------------------------------------------------------------------
(* One call of ReconcileBound                                               *)

\* The template is registered with this hash; a chart is fetched by its digest.
Known(o) == chart \/ cmd[o].marks.hash = registered

\* Up to the check of the template.  A terminal row is replayed and a call during a
\* transition refused: neither changes anything.
Enter(c, o) ==
    /\ Free(c) /\ lock = None
    /\ cmd[o] # NoCmd /\ rows[o] \in {"none", "running"} /\ ~transition
    /\ rows[o] = "running" \/ Known(o)
    /\ lock' = c /\ quiet' = TRUE
    /\ IF Known(o)
         THEN Goto(c, "check", [NoCall EXCEPT !.op = o, !.new = (rows[o] = "none")])
         ELSE Goto(c, "finish", [NoCall EXCEPT !.op = o, !.result = "failed"])
    /\ UNCHANGED <<rows, core, cluster, late, faults>>

\* A restart has emptied the cache and the registry does not answer, or with something
\* else: the chart's template is missing.
Unresolved(c, o) ==
    /\ Free(c) /\ lock = None /\ chart /\ rows[o] = "running" /\ ~transition /\ Fault("chart")
    /\ lock' = c /\ quiet' = TRUE
    /\ Goto(c, "finish", [NoCall EXCEPT !.op = o, !.result = "failed"])
    /\ UNCHANGED <<rows, core, cluster, late>>

\* A conflict ends a new call with an error and a recorded operation as failed.
Conflict(c) ==
    IF loc[c].new THEN End(c) ELSE Result(c, "failed") /\ UNCHANGED lock

CheckDeployment(c) ==
    /\ pc[c] = "check"
    /\ IF CheckWorkload(loc[c].op, loc[c].new) THEN Jump(c, "check_svc") /\ UNCHANGED lock ELSE Conflict(c)
    /\ UNCHANGED <<rows, core, cluster, late, quiet, faults>>

\* Which of the drivers carries out the operation.
Driver(o) ==
    CASE chart /\ Action(o) \in {"install", "upgrade"} -> "chart"
      [] chart /\ Action(o) = "delete" -> "uninstall"
      [] OTHER -> "get"

\* Step begins with the same check once more.
CheckServices(c) ==
    /\ pc[c] = "check_svc"
    /\ IF ~CheckService(loc[c].op, loc[c].new) THEN Conflict(c)
       ELSE /\ CASE loc[c].new -> Jump(c, "insert")
                 [] ~loc[c].new /\ ~loc[c].again -> Goto(c, "check", [loc[c] EXCEPT !.again = TRUE])
                 [] ~loc[c].new /\ loc[c].again -> Jump(c, Driver(loc[c].op))
            /\ UNCHANGED lock
    /\ UNCHANGED <<rows, core, cluster, late, quiet, faults>>

\* 15 minutes after it was recorded an operation is given up.
Timeout(c) ==
    /\ pc[c] = "check" /\ loc[c].again /\ Fault("timeout")
    /\ Result(c, "failed")
    /\ UNCHANGED <<rows, core, cluster, lock, late, quiet>>

\* Mutant: the phase is recorded as the status.
InsertPhase(c) ==
    /\ pc[c] = "insert"
    /\ rows' = IF Connected(c) /\ ~Busy THEN [rows EXCEPT ![loc[c].op] = "checking"] ELSE rows
    /\ End(c) /\ UNCHANGED <<core, cluster, late, quiet, faults>>
\* The operation is recorded before it has any effect.
Insert(c) ==
    /\ pc[c] = "insert"
    /\ rows' = IF Connected(c) /\ ~Busy THEN [rows EXCEPT ![loc[c].op] = "running"] ELSE rows
    /\ End(c) /\ UNCHANGED <<core, cluster, late, quiet, faults>>

Finish(c) ==
    /\ pc[c] = "finish"
    /\ rows' = IF Connected(c) THEN [rows EXCEPT ![loc[c].op] = loc[c].result] ELSE rows
    /\ End(c) /\ UNCHANGED <<core, cluster, late, quiet, faults>>

--------------------------------------------------------------------------------
(* Step                                                                     *)

\* What the status of a Deployment that was to be started says.
Verdict(d) ==
    CASE d.status = "failed" -> "failed"
      [] d.status = "ready" -> "succeeded"
      [] OTHER -> "running"

\* Mutant: a restart is asked for in every call.
NeedsRestartAgain(o, d) == d.restart # o \/ ~d.up \/ d.status = "ready"
NeedsRestart(o, d) == d.restart # o \/ ~d.up

See(c, label) == Goto(c, label, [loc[c] EXCEPT !.live = dep])

\* What is to be done with the Deployment as this call sees it.
Decide(c) ==
    LET o == loc[c].op IN
    CASE Action(o) = "delete" -> See(c, "svc")
      [] Action(o) = "upgrade" -> Result(c, "failed")    \* only a chart is upgraded
      [] Action(o) = "stop" /\ dep.up -> See(c, "update")
      [] Action(o) = "stop" /\ ~dep.up -> Result(c, IF dep.status = "ready" THEN "succeeded" ELSE "running")
      [] Action(o) = "restart" /\ NeedsRestart(o, dep) -> See(c, "update")
      [] Action(o) = "restart" /\ ~NeedsRestart(o, dep) -> Result(c, Verdict(dep))
      [] Action(o) \in {"install", "start"} /\ ~dep.up -> See(c, "update")
      [] Action(o) \in {"install", "start"} /\ dep.up -> See(c, "svc")

Get(c) ==
    LET o == loc[c].op IN
    /\ pc[c] = "get"
    /\ CASE dep = NoDep /\ Action(o) = "install" -> Jump(c, "create")
         [] dep = NoDep /\ Action(o) = "delete" -> Jump(c, "svc")
         [] dep = NoDep /\ Action(o) \notin {"install", "delete"} -> Result(c, "failed")
         [] dep # NoDep /\ ~WorkloadMatches(o, dep) -> Result(c, "failed")
         [] OTHER -> Decide(c)
    /\ UNCHANGED <<rows, core, cluster, lock, late, quiet, faults>>

\* dependencies: a PVC, Secret or ConfigMap of the template is missing; or the chart cannot
\* be rendered for this App.
Unprepared(c) ==
    /\ pc[c] = "chart" \/ (pc[c] = "get" /\ dep = NoDep /\ Action(loc[c].op) = "install")
    /\ Fault("rollout")
    /\ Result(c, "failed")
    /\ UNCHANGED <<rows, core, cluster, lock, late, quiet>>

\* The Service; before it is made the Deployment is looked at again.
GetService(c) ==
    LET o == loc[c].op IN
    /\ pc[c] = "svc"
    /\ CASE svc # NoSvc /\ ~ServiceMatches(o, svc) -> Result(c, "failed")
         [] svc = NoSvc /\ Action(o) = "delete" -> Jump(c, "doom")
         [] svc = NoSvc /\ Action(o) # "delete" -> Jump(c, "recheck")
         [] OTHER -> CASE Action(o) # "delete" -> Result(c, Verdict(loc[c].live))
                       [] Action(o) = "delete" ->
                            Goto(c, IF svc.doomed THEN "doom" ELSE "delete_svc", [loc[c] EXCEPT !.gone = FALSE])
    /\ UNCHANGED <<rows, core, cluster, lock, late, quiet, faults>>

Recheck(c) ==
    /\ pc[c] = "recheck"
    /\ IF dep # NoDep /\ WorkloadMatches(loc[c].op, dep) THEN Jump(c, "create_svc") ELSE Result(c, "failed")
    /\ UNCHANGED <<rows, core, cluster, lock, late, quiet, faults>>

\* Mutant: the Service of a deleted workload is not waited for.
DoomForgetsService(c) ==
    /\ pc[c] = "doom"
    /\ CASE loc[c].live = NoDep -> Result(c, "succeeded")
         [] loc[c].live # NoDep /\ loc[c].live.doomed -> Result(c, "running")
         [] loc[c].live # NoDep /\ ~loc[c].live.doomed -> Jump(c, "delete")
    /\ UNCHANGED <<rows, core, cluster, lock, late, quiet, faults>>
\* Then the Deployment is deleted, unless it was seen gone or going.
Doom(c) ==
    /\ pc[c] = "doom"
    /\ CASE loc[c].live = NoDep -> Result(c, IF loc[c].gone THEN "succeeded" ELSE "running")
         [] loc[c].live # NoDep /\ loc[c].live.doomed -> Result(c, "running")
         [] loc[c].live # NoDep /\ ~loc[c].live.doomed -> Jump(c, "delete")
    /\ UNCHANGED <<rows, core, cluster, lock, late, quiet, faults>>

--------------------------------------------------------------------------------
(* Charts                                                                   *)

\* stepOCIChart, up to Helm.
ChartGet(c) ==
    LET o == loc[c].op IN
    /\ pc[c] = "chart"
    /\ IF (dep = NoDep /\ Action(o) = "install") \/ (dep # NoDep /\ WorkloadMatches(o, dep))
         THEN See(c, "ensure") ELSE Result(c, "failed")
    /\ UNCHANGED <<rows, core, cluster, lock, late, quiet, faults>>

\* releaseResourcesPresent, the Service first: what is there must be as the release has it,
\* made by Helm and with the replicas the chart declares.
Present == svc # NoSvc /\ dep # NoDep
Drifted(r) ==
    /\ svc # NoSvc
    /\ \/ <<svc.marks, svc.op>> # <<r.marks, r.op>>
       \/ dep # NoDep /\ (<<dep.marks, dep.op>> # <<r.marks, r.op>> \/ ~dep.up)

\* The record is of this installation and package and not older than 6 minutes.
UnderWay(o, r) == r.marks = cmd[o].marks /\ r.fresh

\* HelmLifecycle.Ensure: what another action of Helm has begun is waited for or given up.
Ensure(c) ==
    LET o == loc[c].op IN
    /\ pc[c] = "ensure"
    /\ CASE rel = NoRel /\ Action(o) = "install" -> Jump(c, "i_record")
         [] rel = NoRel /\ Action(o) # "install" -> Result(c, "failed")
         [] rel.status = "pending" -> Result(c, IF UnderWay(o, rel) THEN "running" ELSE "failed")
         [] rel.status \in {"failed", "uninstalling"} -> Result(c, "failed")
         [] rel.status = "deployed" ->
              CASE rel.marks.inst # cmd[o].marks.inst \/ Drifted(rel) -> Result(c, "failed")
                [] rel.marks = cmd[o].marks /\ ~Drifted(rel) /\ Present -> Jump(c, "observe")
                [] rel.marks.hash # cmd[o].marks.hash /\ Action(o) = "install" -> Result(c, "failed")
                [] OTHER -> Jump(c, "e_record")
    /\ UNCHANGED <<rows, core, cluster, lock, late, quiet, faults>>

\* stepOCIChart, after a release that needs nothing more.
Observe(c) ==
    /\ pc[c] = "observe"
    /\ IF dep # NoDep /\ dep.marks = cmd[loc[c].op].marks THEN See(c, "observe_svc") ELSE Result(c, "failed")
    /\ UNCHANGED <<rows, core, cluster, lock, late, quiet, faults>>
ObserveService(c) ==
    /\ pc[c] = "observe_svc"
    /\ CASE svc = NoSvc -> Result(c, "running")
         [] svc # NoSvc /\ ~Owned(loc[c].op, svc.marks) -> Result(c, "failed")
         [] OTHER -> Result(c, IF loc[c].live.up THEN Verdict(loc[c].live) ELSE "running")
    /\ UNCHANGED <<rows, core, cluster, lock, late, quiet, faults>>

\* HelmLifecycle.Uninstall; once there is no release, neither must there be a Deployment.
Uninstall(c) ==
    LET o == loc[c].op IN
    /\ pc[c] = "uninstall"
    /\ CASE rel = NoRel -> Jump(c, "gone")
         [] rel.status = "uninstalling" -> Result(c, IF UnderWay(o, rel) THEN "running" ELSE "failed")
         [] rel.status = "deployed" /\ rel.marks = cmd[o].marks -> Jump(c, "u_record")
         [] OTHER -> Result(c, "failed")
    /\ UNCHANGED <<rows, core, cluster, lock, late, quiet, faults>>
Gone(c) ==
    /\ \/ pc[c] = "gone" /\ IF dep # NoDep THEN Result(c, "failed") ELSE Jump(c, "gone_svc")
       \/ pc[c] = "gone_svc" /\ Result(c, IF svc # NoSvc THEN "running" ELSE "succeeded")
    /\ UNCHANGED <<rows, core, cluster, lock, late, quiet, faults>>

\* Helm records what it begins, changes one object after the other, and records the end.
\* Everything goes by name.  An object made or changed is marked with the operation that
\* made the Deployment seen before.
HelmNext == [i_record |-> "e_svc", e_record |-> "e_svc",
             e_svc |-> "e_dep", e_dep |-> "e_done", e_done |-> "finish",
             u_record |-> "u_svc", u_svc |-> "u_dep", u_dep |-> "u_done", u_done |-> "finish"]
HelmSteps == DOMAIN HelmNext

HelmRefuses(step) ==
    \/ step = "i_record" /\ rel # NoRel
    \/ step = "e_record" /\ rel.status \notin {"deployed", "failed"}
    \/ step = "u_record" /\ rel = NoRel

Creation(o, live) == IF live.op # None THEN live.op ELSE o
Record(status, o, live, fresh) ==
    rel' = [status |-> status, marks |-> cmd[o].marks, op |-> Creation(o, live), fresh |-> fresh]
\* The Deployment that a chart's release asks for.
Rendered(o, live, d) ==
    [d EXCEPT !.marks = cmd[o].marks, !.op = Creation(o, live), !.up = TRUE, !.status = "moving"]

HelmDoes(step, o, live) ==
    LET new == step = "e_dep" /\ dep = NoDep IN
    /\ new => made < MaxUid
    /\ made' = IF new THEN made + 1 ELSE made
    /\ CASE step \in {"i_record", "e_record"} -> Record("pending", o, live, TRUE)
         [] step = "e_done" /\ rel.marks = cmd[o].marks -> Record("deployed", o, live, FALSE)
         [] step = "u_record" -> rel' = [rel EXCEPT !.status = "uninstalling", !.fresh = TRUE]
         [] step = "u_done" -> rel' = NoRel
         [] OTHER -> UNCHANGED rel
    /\ svc' = CASE step = "e_svc" -> [svc EXCEPT !.marks = cmd[o].marks, !.op = Creation(o, live)]
                [] step = "u_svc" -> NoSvc
                [] OTHER -> svc
    /\ dep' = CASE new -> Rendered(o, live, [NoDep EXCEPT !.uid = made + 1])
                [] step = "e_dep" /\ ~new -> Rendered(o, live, dep)
                [] step = "u_dep" -> NoDep
                [] OTHER -> dep

Helm(c) ==
    /\ pc[c] \in HelmSteps
    /\ IF HelmRefuses(pc[c])
         THEN Result(c, "failed") /\ UNCHANGED <<cluster, quiet>>
         ELSE /\ HelmDoes(pc[c], loc[c].op, loc[c].live) /\ quiet' = (quiet /\ Connected(c))
              /\ Jump(c, HelmNext[pc[c]])
    /\ UNCHANGED <<rows, core, lock, late, faults>>

\* An object is refused.
HelmFails(c) ==
    /\ pc[c] \in {"e_svc", "e_dep"} /\ Fault("chart")
    /\ Record("failed", loc[c].op, loc[c].live, FALSE) /\ Result(c, "failed")
    /\ quiet' = (quiet /\ Connected(c))
    /\ UNCHANGED <<rows, core, dep, svc, made, lock, late>>

\* freshHelmTransition: 6 minutes are over.
Age ==
    /\ rel.fresh /\ rel' = [rel EXCEPT !.fresh = FALSE]
    /\ UNCHANGED <<rows, core, dep, svc, made, lock, calls, late, quiet, faults>>

--------------------------------------------------------------------------------
(* Requests to Kubernetes                                                   *)

Writes == {"create", "update", "create_svc", "delete_svc", "delete"}

\* The Deployment that an update asks for.
Wanted(o, d) ==
    CASE Action(o) = "stop" -> [d EXCEPT !.up = FALSE, !.status = "moving"]
      [] Action(o) = "restart" -> [d EXCEPT !.up = TRUE, !.restart = o, !.status = "moving"]
      [] OTHER -> [d EXCEPT !.up = TRUE, !.status = "moving"]

\* An update carries the resourceVersion that was read, a delete only a name.
Accepted(kind, live) ==
    CASE kind = "create" -> dep = NoDep
      [] kind = "update" -> dep = live
      [] kind = "create_svc" -> svc = NoSvc
      [] kind = "delete_svc" -> svc # NoSvc
      [] kind = "delete" -> dep # NoDep

Apply(kind, o, live) ==
    /\ kind = "create" => made < MaxUid
    /\ made' = IF kind = "create" THEN made + 1 ELSE made
    /\ dep' = CASE kind = "create" ->
                     [NoDep EXCEPT !.uid = made + 1, !.marks = cmd[o].marks, !.op = o, !.up = TRUE, !.status = "moving"]
                [] kind = "update" -> Wanted(o, dep)
                [] kind = "delete" -> [dep EXCEPT !.doomed = TRUE]
                [] OTHER -> dep
    /\ svc' = CASE kind = "create_svc" -> [NoSvc EXCEPT !.marks = cmd[o].marks, !.op = o]
                [] kind = "delete_svc" -> [svc EXCEPT !.doomed = TRUE]
                [] OTHER -> svc
    /\ UNCHANGED rel

\* A conflict of an update is an error and ends the call, what is there already or gone
\* already is none.
Send(c) ==
    LET o == loc[c].op
        ok == Accepted(pc[c], loc[c].live)
    IN
    /\ pc[c] \in Writes
    /\ IF ok THEN Apply(pc[c], o, loc[c].live) ELSE UNCHANGED cluster
    /\ quiet' = (quiet /\ Connected(c))
    /\ CASE pc[c] = "create_svc" -> Result(c, IF ok THEN Verdict(loc[c].live) ELSE "running") /\ UNCHANGED lock
         [] pc[c] = "delete_svc" -> Jump(c, "doom") /\ UNCHANGED lock
         [] pc[c] = "update" /\ ~ok -> End(c)
         [] OTHER -> Result(c, "running") /\ UNCHANGED lock
    /\ UNCHANGED <<rows, core, late, faults>>

\* A call that is cut off, by its deadline or with its process, takes its transaction with
\* it; a request on its way may still arrive.  Helm's installations and upgrades go on
\* behind a deadline, with a record that says they have failed.
Interrupt(c) ==
    LET request == [kind |-> pc[c], op |-> loc[c].op, live |-> loc[c].live] IN
    /\ Fault("interrupt") /\ pc[c] # "idle" /\ End(c)
    /\ \/ UNCHANGED <<late, rel, quiet>>
       \/ pc[c] \in Writes /\ late' = late \cup {request} /\ UNCHANGED <<rel, quiet>>
       \/ /\ pc[c] \in {"e_svc", "e_dep", "e_done"} /\ late' = late \cup {request}
          /\ Record("failed", loc[c].op, loc[c].live, FALSE) /\ quiet' = (quiet /\ Connected(c))
    /\ UNCHANGED <<rows, core, dep, svc, made>>

Land(r) ==
    /\ quiet' = FALSE
    /\ \/ /\ r.kind \in Writes /\ late' = late \ {r}
          /\ IF Accepted(r.kind, r.live) THEN Apply(r.kind, r.op, r.live) ELSE UNCHANGED cluster
       \/ /\ r.kind \in {"e_svc", "e_dep"} /\ HelmDoes(r.kind, r.op, r.live)
          /\ late' = (late \ {r}) \cup {[r EXCEPT !.kind = HelmNext[r.kind]]}
       \/ /\ r.kind = "e_done" /\ late' = late \ {r}
          /\ HelmDoes(r.kind, r.op, r.live) \/ UNCHANGED cluster
    /\ UNCHANGED <<rows, core, lock, calls, faults>>

\* The database ends the session: the lock is free and the call goes on.
SessionLoss(c) ==
    /\ Fault("session") /\ Connected(c) /\ lock' = None
    /\ UNCHANGED <<rows, core, cluster, calls, late, quiet>>

--------------------------------------------------------------------------------
(* The cluster, its operators and the Runtime's deployment                  *)

Settle ==
    /\ dep.status = "moving"
    /\ \/ dep' = [dep EXCEPT !.status = "ready"] /\ UNCHANGED faults
       \/ Fault("rollout") /\ dep.up /\ dep' = [dep EXCEPT !.status = "failed"]
    /\ UNCHANGED <<rows, core, svc, made, rel, lock, calls, late, quiet>>

Collect ==
    /\ \/ dep.doomed /\ dep' = NoDep /\ UNCHANGED svc
       \/ svc.doomed /\ svc' = NoSvc /\ UNCHANGED dep
    /\ UNCHANGED <<rows, core, made, rel, lock, calls, late, quiet, faults>>

\* Somebody deletes or relabels the Deployment, or its Pods are no longer ready.
Meddle ==
    /\ dep # NoDep /\ quiet' = FALSE
    /\ \/ Fault("evict") /\ dep' = [dep EXCEPT !.doomed = TRUE]
       \/ Fault("relabel") /\ dep' = [dep EXCEPT !.marks.inst = None]
       \/ Fault("unready") /\ dep.up /\ dep.status = "ready" /\ dep' = [dep EXCEPT !.status = "moving"]
    /\ UNCHANGED <<rows, core, svc, made, rel, lock, calls, late>>

\* The registered template changes with a restart of the Runtime, which ends all calls.
Redeploy ==
    /\ Fault("redeploy") /\ registered' = registered + 1
    /\ pc' = [c \in Callers |-> "idle"] /\ loc' = [c \in Callers |-> NoCall] /\ lock' = None
    /\ late' = {r \in late : r.kind \in Writes}
    /\ UNCHANGED <<rows, cmd, transition, chart, cluster, quiet>>

--------------------------------------------------------------------------------
SeedMarks == [inst |-> Seed, hash |-> 0]

Init ==
    /\ rows = [o \in Ops |-> "none"] /\ cmd = [o \in Ops |-> NoCmd] /\ registered = 0 /\ chart \in Charts
    /\ \/ dep = NoDep /\ svc = NoSvc /\ made = 0 /\ rel = NoRel
       \/ /\ \E up \in BOOLEAN :
               dep = [NoDep EXCEPT !.uid = 1, !.marks = SeedMarks, !.up = up, !.status = "ready"]
          /\ svc = [NoSvc EXCEPT !.marks = SeedMarks] /\ made = 1
          /\ rel = IF chart THEN [status |-> "deployed", marks |-> SeedMarks, op |-> None, fresh |-> FALSE] ELSE NoRel
    /\ transition = FALSE /\ lock = None
    /\ pc = [c \in Callers |-> "idle"] /\ loc = [c \in Callers |-> NoCall]
    /\ late = {} /\ quiet = TRUE /\ faults = 0

Proceed(c) ==
    \/ CheckDeployment(c) \/ CheckServices(c) \/ Insert(c) \/ Finish(c)
    \/ Get(c) \/ GetService(c) \/ Recheck(c) \/ Doom(c) \/ Send(c)
    \/ ChartGet(c) \/ Ensure(c) \/ Observe(c) \/ ObserveService(c) \/ Uninstall(c) \/ Gone(c) \/ Helm(c)

Next ==
    \/ \E o \in Ops, action \in Actions : InspectBound(o, action)
    \/ BeginTransition \/ EndTransition
    \/ \E c \in Callers : \/ \E o \in Ops : Enter(c, o) \/ Unresolved(c, o)
                          \/ Proceed(c) \/ Unprepared(c) \/ HelmFails(c) \/ Timeout(c)
                          \/ Interrupt(c) \/ SessionLoss(c)
    \/ \E r \in late : Land(r)
    \/ Settle \/ Collect \/ Age \/ Meddle \/ Redeploy

Spec == Init /\ [][Next]_vars

\* Calls run on, a Deployment settles or fails and deleted objects go; Core asks again for
\* an operation that is not over.
Fairness ==
    /\ \A c \in Callers : WF_vars(Proceed(c))
    /\ \A o \in Ops : SF_vars(rows[o] = "running" /\ \E c \in Callers : Enter(c, o))
    /\ WF_vars(Settle) /\ WF_vars(Age) /\ WF_vars(dep.doomed /\ Collect) /\ WF_vars(svc.doomed /\ Collect)
FairSpec == Spec /\ Fairness

--------------------------------------------------------------------------------
(* Properties                                                               *)

\* Types of the rows, the commands, the cluster and the calls.
TypeOK ==
    /\ rows \in [Ops -> {"none", "running", "succeeded", "failed"}]
    /\ cmd \in [Ops -> Command \cup {NoCmd}] /\ registered \in 0..MaxFaults
    /\ transition \in BOOLEAN /\ chart \in Charts /\ rel \in Release \cup {NoRel}
    /\ dep \in Deployment \cup {NoDep} /\ svc \in Service \cup {NoSvc} /\ made \in 0..MaxUid
    /\ lock \in Callers \cup {None} /\ quiet \in BOOLEAN /\ faults \in 0..MaxFaults
    /\ \A c \in Callers : loc[c].op \in Ops \cup {None} /\ loc[c].live \in Deployment \cup {NoDep}

Running == {o \in Ops : rows[o] = "running"}
\* The Deployment is the one that operation o was given, or has made.
Bound(o) == IF Action(o) = "install" THEN dep.op = o ELSE dep.uid = cmd[o].uid

\* What a write changes of a Deployment.
Face(d) == <<d.up, d.restart, d.marks.hash>>

\* The Deployment is scaled or restarted only for an operation that was given this very
\* Deployment, even by a request that is executed late; else only Helm changes it.  While
\* nobody interferes it is the one running operation, and nothing but its Deployment and
\* its Service is deleted.  A delete and a step of Helm go by name: those of a call which
\* has lost its lock, or of a Helm that was left behind, hit whatever is there.
WritesOnlyBound ==
    [][/\ dep # NoDep /\ dep' # NoDep /\ Face(dep') # Face(dep) =>
            \E o \in Ops : /\ \/ dep' = Wanted(o, dep) /\ Bound(o)
                              \/ chart /\ \E by \in Ops : dep' = [Rendered(o, dep, dep) EXCEPT !.op = by]
                           /\ quiet' => Running = {o} /\ Bound(o)
       /\ quiet' /\ dep # NoDep /\ ~dep.doomed /\ (dep'.doomed \/ dep' = NoDep) =>
            \E o \in Ops : Running = {o} /\ Action(o) = "delete" /\ Bound(o)
       /\ quiet' /\ svc # NoSvc /\ ~svc.doomed /\ (svc'.doomed \/ svc' = NoSvc) =>
            \E o \in Ops : Running = {o} /\ Action(o) = "delete" /\ Owned(o, svc.marks)]_vars

\* What an operation was to bring about.
Done(o) ==
    CASE Action(o) = "delete" -> dep = NoDep /\ svc = NoSvc /\ rel = NoRel
      [] Action(o) = "stop" -> Bound(o) /\ ~dep.up /\ dep.status = "ready"
      [] Action(o) = "restart" -> Bound(o) /\ dep.up /\ dep.status = "ready" /\ dep.restart = o
      [] Action(o) = "start" -> Bound(o) /\ dep.up /\ dep.status = "ready" /\ svc # NoSvc /\ Owned(o, svc.marks)
      [] Action(o) \in {"install", "upgrade"} ->
           /\ Bound(o) /\ dep.up /\ dep.status = "ready" /\ dep.marks = cmd[o].marks
           /\ ~svc.doomed /\ svc.marks = cmd[o].marks
           /\ chart => rel.status = "deployed" /\ rel.marks = cmd[o].marks

\* An operation that is reported as succeeded has been carried out, on the Deployment it
\* was given, and is so in the moment of the report, unless somebody interfered with the
\* call or Pods that it has seen ready were so no longer (Step reads, then Finish commits).
SucceededIsTrue ==
    [][\A o \in Ops : rows[o] # "succeeded" /\ rows'[o] = "succeeded" /\ quiet => Done(o)]_vars

\* A transition that was begun while the first call of an operation was between its check
\* of the transitions and its insert: each refuses to go on because of the other.
Crossed == transition /\ Busy

\* A Service that somebody has made of a chart whose release is gone: a delete waits for it
\* and no longer removes it.
Orphaned == chart /\ rel = NoRel /\ dep = NoDep /\ svc # NoSvc

\* A recorded operation comes to an end by its retries alone, whatever failed before and
\* without the 15 minutes' limit, unless it has crossed a transition or waits for an orphan.
OperationEnds == \A o \in Ops : rows[o] = "running" ~> rows[o] # "running" \/ Crossed \/ Orphaned
================================================================================
