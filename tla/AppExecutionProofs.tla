-------------------------- MODULE AppExecutionProofs --------------------------
(***************************************************************************)
(* Proofs about AppExecution for any number of operations, calls, faults   *)
(* and Deployments: ExecutionInv is inductive, and with it a step writes   *)
(* only what its operation is bound to and reports only what is so.        *)
(***************************************************************************)
EXTENDS AppExecution, FiniteSetTheorems, TLAPS

--------------------------------------------------------------------------------
(* The inductive invariant                                                  *)

KubeLabels == {"get", "create", "update", "svc", "recheck", "create_svc", "delete_svc", "doom", "delete"}
ChartLabels == {"chart", "ensure", "observe", "observe_svc", "i_record", "e_record", "e_svc", "e_dep", "e_done"}
UninstallLabels == {"uninstall", "gone", "gone_svc", "u_record", "u_svc", "u_dep", "u_done"}
CheckLabels == {"check", "check_svc", "insert"}
Labels == {"idle", "finish"} \cup CheckLabels \cup KubeLabels \cup ChartLabels \cup UninstallLabels

Statuses == {"none", "running", "succeeded", "failed"}
Results == {"running", "succeeded", "failed"}
Objects == Deployment \cup {NoDep}
Call == [op : Ops \cup {None}, new : BOOLEAN, again : BOOLEAN, live : Objects, gone : BOOLEAN,
         result : Results]
Abandoned == Writes \cup {"e_svc", "e_dep", "e_done"}
LateRequest == [kind : Abandoned, op : Ops, live : Objects]

\* A command, once it is given, is of an action and marks of this App.
Given(o) == o \in Ops /\ cmd[o] \in Command
\* Of this Deployment an operation may say that it was given it, or has made it.
BoundTo(o, d) == IF Action(o) = "install" THEN d.op = o ELSE d.uid = cmd[o].uid

Recorded == {o \in Ops : cmd[o] # NoCmd}
\* Each new hash comes with a deployment of the Runtime or with a command of Core.
Youngest == registered + Cardinality(Recorded)

StateTypes ==
    /\ rows \in [Ops -> Statuses] /\ cmd \in [Ops -> Command \cup {NoCmd}]
    /\ registered \in Nat /\ registered <= faults /\ faults \in 0..MaxFaults
    /\ transition \in BOOLEAN /\ chart \in Charts /\ lock \in Callers \cup {None} /\ quiet \in BOOLEAN
    /\ pc \in [Callers -> Labels] /\ loc \in [Callers -> Call] /\ late \subseteq LateRequest

CommandInv ==
    \A o \in Ops : /\ cmd[o] # NoCmd => Given(o) /\ cmd[o].marks.hash <= Youngest
                   /\ rows[o] # "none" => Given(o)

ClusterInv ==
    /\ dep \in Objects /\ svc \in Service \cup {NoSvc} /\ made \in 0..MaxUid /\ rel \in Release \cup {NoRel}
    /\ dep # NoDep => dep.marks.hash <= Youngest
    /\ ~chart => rel = NoRel

\* What a call knows by itself, wherever the lock is.
CallInv(call, at) ==
    at # "idle" =>
      /\ Given(call.op)
      /\ call.new => at \in CheckLabels /\ ~call.again
      /\ at = "insert" => call.new
      /\ at # "finish" => call.result = "running"
      /\ at \in KubeLabels /\ chart => Action(call.op) \in {"start", "stop", "restart"}
      /\ at \in ChartLabels => chart /\ Action(call.op) \in {"install", "upgrade"}
      /\ at \in UninstallLabels => chart /\ Action(call.op) = "delete"
      /\ at = "create" => Action(call.op) = "install"
      /\ at \in {"recheck", "create_svc"} => Action(call.op) \in {"install", "start"}
      /\ at = "svc" => Action(call.op) \in {"install", "start", "delete"}
      /\ at \in {"delete_svc", "doom", "delete"} => Action(call.op) = "delete"
      /\ at \in {"svc", "recheck", "create_svc"} /\ Action(call.op) # "delete" => call.live.up
      /\ at = "update" => call.live # NoDep /\ BoundTo(call.op, call.live)
      /\ at = "delete_svc" => ~call.gone
      /\ at = "observe_svc" => call.live.marks = cmd[call.op].marks

RequestInv(r) ==
    /\ Given(r.op)
    /\ r.kind = "update" => r.live # NoDep /\ BoundTo(r.op, r.live)
    /\ r.kind \notin Writes => chart

\* The holder of the lock is a call, and its operation the one that runs, once it is recorded.
LockInv ==
    /\ \A c \in Callers : lock = c => pc[c] # "idle" /\ (loc[c].new \/ rows[loc[c].op] = "running")
    /\ \A o, p \in Running : o = p

\* What the holder of the lock has seen and nobody has changed since.
Held == {"check_svc"} \cup KubeLabels \cup (ChartLabels \ {"e_done"}) \cup (UninstallLabels \ {"u_done"})
OwnDeployment(o) ==
    dep = NoDep \/ (Bound(o) /\ Owned(o, dep.marks) /\ (dep.doomed => Action(o) = "delete"))
OwnService(o) ==
    svc = NoSvc \/ (Owned(o, svc.marks) /\ (svc.doomed => Action(o) = "delete"))
Lasting(o) == Done(o) /\ (dep.doomed \/ svc.doomed => Action(o) = "delete")

Seen(call, at) ==
    /\ at \in Held => OwnDeployment(call.op)
    /\ at \in Held \ {"check_svc"} => OwnService(call.op)
    /\ at \in {"svc", "recheck", "create_svc", "observe_svc"} /\ call.live.status = "ready" =>
         Action(call.op) = "delete" \/ dep = call.live
    /\ at \in {"svc", "delete_svc", "doom"} /\ call.live = NoDep => dep = NoDep
    /\ at = "doom" /\ call.gone => svc = NoSvc
    /\ at \in {"observe", "observe_svc"} =>
         /\ rel.status = "deployed" /\ rel.marks = cmd[call.op].marks
         /\ svc # NoSvc /\ svc.marks = cmd[call.op].marks
    /\ at \in {"gone", "gone_svc"} => rel = NoRel
    /\ at = "gone_svc" => dep = NoDep
    /\ at = "finish" /\ call.result = "succeeded" => Lasting(call.op)

HolderInv == \A c \in Callers : lock = c /\ quiet => Seen(loc[c], pc[c])

CallsInv == \A c \in Callers : CallInv(loc[c], pc[c])
LateInv == \A r \in late : RequestInv(r)

ExecutionInv == StateTypes /\ CommandInv /\ ClusterInv /\ CallsInv /\ LateInv /\ LockInv /\ HolderInv

--------------------------------------------------------------------------------
(* Facts about the parts                                                    *)

LEMMA Constants ==
    /\ None \notin Ops /\ None \notin Callers /\ Seed # None /\ IsFiniteSet(Ops)
    /\ MaxUid \in Nat /\ MaxUid >= 1 /\ MaxFaults \in Nat /\ Cardinality(Ops) \in Nat
<1>1. Cardinality(Ops) \in Nat BY ExecutionAssumption, FS_CardinalityType
<1> QED BY <1>1, ExecutionAssumption

LEMMA Distinct == NoDep \notin Deployment /\ NoRel \notin Release /\ NoCmd \notin Command
<1>1. NoDep \notin Deployment BY Constants DEF NoDep, Deployment
<1>2. NoRel \notin Release BY DEF NoRel, Release
<1>3. NoCmd \notin Command BY DEF NoCmd, Command, Actions
<1> QED BY <1>1, <1>2, <1>3

LEMMA NoCallType == NoCall \in Call
  BY DEF NoCall, Call, Objects, Results

LEMMA NothingThere ==
    /\ NoDep.uid = 0 /\ NoDep.marks = None /\ NoDep.op = None /\ ~NoDep.up /\ ~NoDep.doomed /\ NoDep.status = "none"
    /\ NoSvc.marks = None /\ NoSvc.op = None /\ ~NoSvc.doomed
    /\ NoRel.status = "none" /\ NoRel.fresh = FALSE
  BY DEF NoDep, NoSvc, NoRel

\* The parts of what is in the cluster.
LEMMA DeploymentFacts ==
    ASSUME NEW d \in Objects
    PROVE  /\ d.up \in BOOLEAN /\ d.doomed \in BOOLEAN /\ d.op \in Ops \cup {None} /\ d.uid \in 0..MaxUid
           /\ d # NoDep => d \in Deployment /\ d.marks \in Marks /\ d.uid \in 1..MaxUid
           /\ d.status # "none" => d # NoDep
<1>1. CASE d = NoDep BY <1>1, Constants DEF NoDep
<1>2. CASE d \in Deployment
  <2>1. d.status # "none" /\ d # NoDep BY <1>2, Distinct DEF Deployment
  <2> QED BY <1>2, <2>1, Constants DEF Deployment
<1> QED BY <1>1, <1>2 DEF Objects

LEMMA ServiceFacts ==
    ASSUME NEW s \in Service \cup {NoSvc}
    PROVE  s.doomed \in BOOLEAN /\ (s # NoSvc => s \in Service /\ s.marks \in Marks) /\ (s.doomed => s # NoSvc)
<1>1. CASE s = NoSvc BY <1>1 DEF NoSvc
<1>2. CASE s \in Service /\ s # NoSvc BY <1>2 DEF Service
<1> QED BY <1>1, <1>2

LEMMA MarksFacts == ASSUME NEW m \in Marks PROVE m.hash \in Nat /\ m.inst \in Ops \cup {Seed, None}
  BY Constants DEF Marks

LEMMA GivenFacts ==
    ASSUME NEW o, Given(o)
    PROVE  /\ o \in Ops /\ o # None /\ cmd[o] \in Command /\ cmd[o] # NoCmd /\ Action(o) \in Actions
           /\ cmd[o].marks \in Marks /\ cmd[o].uid \in 0..MaxUid
  BY Constants, Distinct DEF Given, Command, Action

LEMMA CallFacts ==
    ASSUME NEW call \in Call
    PROVE  /\ call.op \in Ops \cup {None} /\ call.new \in BOOLEAN /\ call.again \in BOOLEAN
           /\ call.live \in Objects /\ call.gone \in BOOLEAN /\ call.result \in Results
  BY DEF Call

\* A call as a value that does not change with the state.
LEMMA CallOf ==
    ASSUME ExecutionInv, NEW c \in Callers
    PROVE  /\ loc[c] \in Call /\ pc[c] \in Labels /\ CallInv(loc[c], pc[c])
           /\ lock = c /\ quiet => Seen(loc[c], pc[c])
           /\ lock = c => pc[c] # "idle" /\ (loc[c].new \/ rows[loc[c].op] = "running")
  BY DEF ExecutionInv, StateTypes, CallsInv, HolderInv, LockInv

\* Hashes have room for one more operation.
LEMMA Room ==
    /\ IsFiniteSet(Recorded) /\ Cardinality(Recorded) \in Nat /\ Cardinality(Recorded) <= Cardinality(Ops)
    /\ Recorded' \subseteq Ops
<1>1. Recorded \subseteq Ops /\ Recorded' \subseteq Ops BY DEF Recorded
<1> QED BY <1>1, Constants, FS_Subset, FS_CardinalityType

--------------------------------------------------------------------------------
(* What a step means for the calls that do not take it                      *)

\* A command that was given stays as it is.
Keeps == chart' = chart /\ \A o \in Ops : cmd[o] # NoCmd => cmd'[o] = cmd[o]

LEMMA GivenKept == ASSUME NEW o, Given(o), Keeps PROVE Given(o)' /\ cmd'[o] = cmd[o] /\ Action(o)' = Action(o)
<1>1. cmd'[o] = cmd[o] BY GivenFacts DEF Keeps
<1> QED BY <1>1, GivenFacts DEF Given, Keeps, Action

LEMMA CallKept == ASSUME NEW call, NEW at, CallInv(call, at), Keeps PROVE CallInv(call, at)'
<1>1. CASE at = "idle" BY <1>1 DEF CallInv
<1>2. CASE at # "idle"
  <2>1. Given(call.op) BY <1>2 DEF CallInv
  <2>2. Given(call.op)' /\ cmd'[call.op] = cmd[call.op] /\ Action(call.op)' = Action(call.op) BY <2>1, GivenKept
  <2>3. BoundTo(call.op, call.live)' <=> BoundTo(call.op, call.live) BY <2>2 DEF BoundTo
  <2> QED BY <1>2, <2>2, <2>3 DEF CallInv, Keeps
<1> QED BY <1>1, <1>2

LEMMA RequestKept == ASSUME NEW r, RequestInv(r), Keeps PROVE RequestInv(r)'
<1>1. Given(r.op)' /\ cmd'[r.op] = cmd[r.op] /\ Action(r.op)' = Action(r.op) BY GivenKept DEF RequestInv
<1>2. BoundTo(r.op, r.live)' <=> BoundTo(r.op, r.live) BY <1>1 DEF BoundTo
<1> QED BY <1>1, <1>2 DEF RequestInv, Keeps

\* What was seen stays so while the cluster does not change.
LEMMA SeenKept ==
    ASSUME NEW call, NEW at, Given(call.op), Seen(call, at), Keeps, UNCHANGED cluster
    PROVE  Seen(call, at)'
<1>1. /\ cmd'[call.op] = cmd[call.op] /\ Action(call.op)' = Action(call.op)
      /\ dep' = dep /\ svc' = svc /\ rel' = rel /\ chart' = chart
  BY GivenKept DEF cluster, Keeps
<1>2. OwnDeployment(call.op)' <=> OwnDeployment(call.op) BY <1>1 DEF OwnDeployment, Bound, Owned
<1>3. OwnService(call.op)' <=> OwnService(call.op) BY <1>1 DEF OwnService, Owned
<1>4. Done(call.op)' <=> Done(call.op) BY <1>1 DEF Done, Bound, Owned
<1>5. Lasting(call.op)' <=> Lasting(call.op) BY <1>1, <1>4 DEF Lasting
<1> QED BY <1>1, <1>2, <1>3, <1>5 DEF Seen

--------------------------------------------------------------------------------
(* What a step of a call has to show                                        *)

\* Nothing is asked for and no row is written; requests are left that fit their commands.
Aside ==
    /\ UNCHANGED <<rows, core>> /\ ClusterInv' /\ quiet' \in BOOLEAN /\ (quiet' => quiet)
    /\ faults' \in 0..MaxFaults /\ faults' >= faults
    /\ late' \subseteq LateRequest /\ \A r \in late' : RequestInv(r)

\* One caller moves.
LEMMA OneCall ==
    ASSUME ExecutionInv, NEW c \in Callers, NEW call \in Call, NEW at \in Labels,
           pc' = [pc EXCEPT ![c] = at], loc' = [loc EXCEPT ![c] = call], CallInv(call, at),
           UNCHANGED core, rows' \in [Ops -> Statuses], \A o \in Ops : rows'[o] # "none" => Given(o),
           ClusterInv', quiet' \in BOOLEAN, lock' \in Callers \cup {None},
           faults' \in 0..MaxFaults, faults' >= faults,
           late' \subseteq LateRequest, \A r \in late' : RequestInv(r),
           LockInv', HolderInv'
    PROVE  ExecutionInv'
<1>0. Keeps /\ cmd' = cmd /\ registered' = registered /\ transition' = transition /\ chart' = chart
  BY DEF core, Keeps
<1>1. StateTypes' BY <1>0, Constants DEF ExecutionInv, StateTypes
<1>2. CommandInv'
  <2>1. Youngest' = Youngest BY <1>0 DEF Youngest, Recorded
  <2>2. \A o \in Ops : Given(o) => Given(o)' BY <1>0, GivenKept
  <2> QED BY <1>0, <2>1, <2>2 DEF ExecutionInv, CommandInv
<1>3. ASSUME NEW d \in Callers PROVE CallInv(loc[d], pc[d])'
  <2>1. CASE d = c
    <3>1. CallInv(call, at)' BY <1>0, CallKept
    <3> QED BY <2>1, <3>1 DEF ExecutionInv, StateTypes
  <2>2. CASE d # c
    <3>1. PICK old \in Call, was \in Labels : old = loc[d] /\ was = pc[d] BY CallOf
    <3>2. CallInv(old, was)' BY <1>0, <3>1, CallOf, CallKept
    <3> QED BY <2>2, <3>1, <3>2 DEF ExecutionInv, StateTypes
  <2> QED BY <2>1, <2>2
<1>4. \A r \in late' : RequestInv(r)' BY <1>0, RequestKept
<1> QED BY <1>1, <1>2, <1>3, <1>4 DEF ExecutionInv, CallsInv, LateInv

\* What the other calls have seen.
LEMMA OthersSee ==
    ASSUME ExecutionInv, NEW c \in Callers, NEW d \in Callers, d # c,
           NEW at, NEW call, pc' = [pc EXCEPT ![c] = at], loc' = [loc EXCEPT ![c] = call],
           UNCHANGED core, UNCHANGED cluster, lock = d, quiet
    PROVE  Seen(loc[d], pc[d])'
<1>1. PICK old \in Call, was \in Labels : old = loc[d] /\ was = pc[d] BY CallOf
<1>2. Keeps BY DEF Keeps, core
<1>3. Given(old.op) BY <1>1, CallOf DEF CallInv
<1>4. Seen(old, was)' BY <1>1, <1>2, <1>3, CallOf, SeenKept
<1> QED BY <1>1, <1>4 DEF ExecutionInv, StateTypes

\* A call goes on.
LEMMA GoesOn ==
    ASSUME ExecutionInv, NEW c \in Callers, pc[c] # "idle", Aside, UNCHANGED lock,
           NEW call \in Call, NEW at \in Labels \ {"idle"}, Goto(c, at, call),
           call.op = loc[c].op, call.new = loc[c].new, CallInv(call, at),
           quiet' /\ lock # c => UNCHANGED cluster,
           quiet' /\ lock = c => Seen(call, at)'
    PROVE  ExecutionInv'
<1>0. /\ pc' = [pc EXCEPT ![c] = at] /\ loc' = [loc EXCEPT ![c] = call] /\ rows' = rows /\ UNCHANGED core
      /\ pc \in [Callers -> Labels] /\ loc \in [Callers -> Call] /\ lock' = lock
  BY DEF Goto, Aside, ExecutionInv, StateTypes
<1>1. LockInv'
  <2>1. ASSUME NEW d \in Callers, lock = d PROVE pc'[d] # "idle" /\ (loc'[d].new \/ rows[loc'[d].op] = "running")
    BY <1>0, <2>1, CallOf
  <2>2. \A o, p \in Running' : o = p BY <1>0 DEF ExecutionInv, LockInv, Running
  <2> QED BY <1>0, <2>1, <2>2 DEF LockInv
<1>2. ASSUME NEW d \in Callers, lock = d, quiet' PROVE Seen(loc[d], pc[d])'
  <2>1. CASE d = c BY <1>0, <1>2, <2>1
  <2>2. CASE d # c
    <3>1. UNCHANGED cluster /\ quiet BY <1>2, <2>2 DEF Aside
    <3> QED BY <1>0, <1>2, <2>2, <3>1, OthersSee
  <2> QED BY <2>1, <2>2
<1>3. HolderInv' BY <1>0, <1>2 DEF HolderInv
<1> QED BY <1>0, <1>1, <1>3, OneCall DEF Aside, ExecutionInv, StateTypes, CommandInv

\* A call ends.
LEMMA Ends ==
    ASSUME ExecutionInv, NEW c \in Callers, End(c), UNCHANGED core,
           rows' \in [Ops -> Statuses], \A o \in Ops : rows'[o] # "none" => Given(o),
           lock # c => rows' = rows, \A o, p \in Running' : o = p,
           ClusterInv', quiet' \in BOOLEAN, quiet' => quiet,
           faults' \in 0..MaxFaults, faults' >= faults,
           late' \subseteq LateRequest, \A r \in late' : RequestInv(r),
           quiet' /\ lock # c => UNCHANGED cluster
    PROVE  ExecutionInv'
<1>0. /\ pc' = [pc EXCEPT ![c] = "idle"] /\ loc' = [loc EXCEPT ![c] = NoCall]
      /\ pc \in [Callers -> Labels] /\ loc \in [Callers -> Call] /\ lock \in Callers \cup {None}
      /\ lock' = IF lock = c THEN None ELSE lock
  BY DEF Goto, End, ExecutionInv, StateTypes
<1>1. ASSUME NEW d \in Callers, lock' = d PROVE lock = d /\ d # c /\ rows' = rows BY <1>0, <1>1, Constants
<1>2. LockInv'
  <2>1. ASSUME NEW d \in Callers, lock' = d PROVE pc'[d] # "idle" /\ (loc'[d].new \/ rows'[loc'[d].op] = "running")
    BY <1>0, <1>1, <2>1, CallOf
  <2> QED BY <2>1 DEF LockInv
<1>3. ASSUME NEW d \in Callers, lock' = d, quiet' PROVE Seen(loc[d], pc[d])'
  <2>1. lock = d /\ d # c /\ UNCHANGED cluster /\ quiet BY <1>1, <1>3
  <2> QED BY <1>0, <2>1, OthersSee
<1>4. HolderInv' BY <1>3 DEF HolderInv
<1>5. CallInv(NoCall, "idle") /\ "idle" \in Labels BY DEF CallInv, Labels
<1>6. lock' \in Callers \cup {None} BY <1>0
<1> QED BY <1>0, <1>2, <1>4, <1>5, <1>6, NoCallType, OneCall

\* How a call may go on that has only read.
Follows(call, at, c) ==
    /\ call \in Call /\ at \in Labels \ {"idle"}
    /\ call.op = loc[c].op /\ call.new = loc[c].new /\ CallInv(call, at)
    /\ lock = c /\ quiet => Seen(call, at)
Sound(c) == End(c) \/ (UNCHANGED lock /\ \E call, at : Goto(c, at, call) /\ Follows(call, at, c))

LEMMA SameCluster ==
    ASSUME ExecutionInv, UNCHANGED <<rows, core, cluster, late, quiet>>, faults' \in 0..MaxFaults, faults' >= faults
    PROVE  Aside
<1>1. Youngest' = Youngest BY DEF Youngest, Recorded, core
<1>2. ClusterInv' BY <1>1 DEF ExecutionInv, ClusterInv, core, cluster
<1> QED BY <1>2 DEF Aside, ExecutionInv, StateTypes, LateInv

LEMMA ReadStep ==
    ASSUME ExecutionInv, NEW c \in Callers, pc[c] # "idle", Sound(c),
           UNCHANGED <<rows, core, cluster, late, quiet>>, faults' \in 0..MaxFaults, faults' >= faults
    PROVE  ExecutionInv'
<1>0. Aside BY SameCluster
<1>1. CASE End(c)
  <2>1. \A o, p \in Running' : o = p BY DEF ExecutionInv, LockInv, Running
  <2> QED BY <1>0, <1>1, <2>1, Ends DEF Aside, ExecutionInv, StateTypes, CommandInv
<1>2. ASSUME UNCHANGED lock, NEW call, NEW at, Goto(c, at, call), Follows(call, at, c) PROVE ExecutionInv'
  <2>1. Keeps BY DEF Keeps, core
  <2>2. Given(call.op) BY <1>2 DEF Follows, CallInv
  <2>3. lock = c /\ quiet => Seen(call, at)' BY <1>2, <2>1, <2>2, SeenKept DEF Follows
  <2> QED BY <1>0, <1>2, <2>3, GoesOn DEF Follows
<1> QED BY <1>1, <1>2 DEF Sound

--------------------------------------------------------------------------------
(* The steps of a call that only read                                       *)

LEMMA Label == {"idle", "finish", "check", "check_svc", "insert"} \subseteq Labels
               /\ KubeLabels \subseteq Labels /\ ChartLabels \subseteq Labels /\ UninstallLabels \subseteq Labels
  BY DEF Labels, CheckLabels

\* A call says how it ends.
LEMMA Concludes ==
    ASSUME ExecutionInv, NEW c \in Callers, pc[c] # "idle", ~loc[c].new, NEW r \in Results, Result(c, r), UNCHANGED lock,
           r = "succeeded" /\ lock = c /\ quiet => Lasting(loc[c].op)
    PROVE  Sound(c)
<1>1. PICK call \in Call : call = [loc[c] EXCEPT !.result = r] BY CallOf DEF Call
<1>2. call.op = loc[c].op /\ call.new = loc[c].new /\ call.result = r BY <1>1, CallOf DEF Call
<1>3. CallInv(call, "finish") BY <1>2, CallOf DEF CallInv, KubeLabels, ChartLabels, UninstallLabels
<1>4. lock = c /\ quiet => Seen(call, "finish")
  BY <1>2 DEF Seen, Held, KubeLabels, ChartLabels, UninstallLabels
<1>5. Goto(c, "finish", call) BY <1>1 DEF Result
<1> QED BY <1>2, <1>3, <1>4, <1>5, Label DEF Sound, Follows

LEMMA Fails ==
    ASSUME ExecutionInv, NEW c \in Callers, pc[c] # "idle", ~loc[c].new, UNCHANGED lock,
           Result(c, "failed") \/ Result(c, "running")
    PROVE  Sound(c)
  BY Concludes DEF Results

\* A call goes to another label with its locals as they are.
LEMMA Jumps ==
    ASSUME ExecutionInv, NEW c \in Callers, NEW at \in Labels \ {"idle"}, Jump(c, at), UNCHANGED lock,
           CallInv(loc[c], at), lock = c /\ quiet => Seen(loc[c], at)
    PROVE  Sound(c)
  BY CallOf DEF Sound, Follows, Jump

LEMMA ConflictSound ==
    ASSUME ExecutionInv, NEW c \in Callers, pc[c] # "idle", Conflict(c)
    PROVE  Sound(c)
<1>1. CASE loc[c].new BY <1>1 DEF Conflict, Sound
<1>2. CASE ~loc[c].new BY <1>2, Fails DEF Conflict
<1> QED BY <1>1, <1>2

\* What is compared with a command is what the command is bound to.
LEMMA Matching ==
    ASSUME NEW o, dep # NoDep, WorkloadMatches(o, dep)
    PROVE  OwnDeployment(o) /\ Bound(o) /\ BoundTo(o, dep)
  BY DEF WorkloadMatches, OwnDeployment, Bound, BoundTo

LEMMA ServiceMatching ==
    ASSUME NEW o, svc # NoSvc => ServiceMatches(o, svc)
    PROVE  OwnService(o)
  BY DEF ServiceMatches, OwnService

LEMMA CheckDeploymentStep ==
    ASSUME ExecutionInv, NEW c \in Callers, CheckDeployment(c)
    PROVE  ExecutionInv'
<1>0. pc[c] = "check" /\ UNCHANGED <<rows, core, cluster, late, quiet, faults>> BY DEF CheckDeployment
<1>1. CASE ~CheckWorkload(loc[c].op, loc[c].new)
  BY <1>0, <1>1, ConflictSound, ReadStep DEF CheckDeployment, ExecutionInv, StateTypes
<1>2. CASE CheckWorkload(loc[c].op, loc[c].new)
  <2>1. Jump(c, "check_svc") /\ UNCHANGED lock BY <1>2 DEF CheckDeployment
  <2>2. OwnDeployment(loc[c].op) BY <1>2, Matching DEF CheckWorkload, OwnDeployment
  <2>3. CallInv(loc[c], "check_svc")
    BY <1>0, CallOf DEF CallInv, CheckLabels, KubeLabels, ChartLabels, UninstallLabels
  <2>4. Seen(loc[c], "check_svc") BY <2>2 DEF Seen
  <2>5. Sound(c) BY <2>1, <2>3, <2>4, Label, Jumps
  <2> QED BY <1>0, <2>5, ReadStep DEF ExecutionInv, StateTypes
<1> QED BY <1>1, <1>2

LEMMA CheckServicesStep ==
    ASSUME ExecutionInv, NEW c \in Callers, CheckServices(c)
    PROVE  ExecutionInv'
<1>0. pc[c] = "check_svc" /\ UNCHANGED <<rows, core, cluster, late, quiet, faults>> BY DEF CheckServices
<1>a. loc[c].new \in BOOLEAN /\ loc[c].again \in BOOLEAN /\ loc[c] \in Call BY CallOf, CallFacts
<1>g. Given(loc[c].op) /\ (loc[c].new => ~loc[c].again) /\ loc[c].result = "running" BY <1>0, CallOf DEF CallInv
<1>1. CASE ~CheckService(loc[c].op, loc[c].new)
  BY <1>0, <1>1, ConflictSound, ReadStep DEF CheckServices, ExecutionInv, StateTypes
<1>2. CASE CheckService(loc[c].op, loc[c].new) /\ loc[c].new
  <2>1. Jump(c, "insert") /\ UNCHANGED lock BY <1>2 DEF CheckServices
  <2>2. CallInv(loc[c], "insert")
    BY <1>2, <1>g DEF CallInv, CheckLabels, KubeLabels, ChartLabels, UninstallLabels
  <2>3. Seen(loc[c], "insert") BY DEF Seen, Held, KubeLabels, ChartLabels, UninstallLabels
  <2>4. Sound(c) BY <2>1, <2>2, <2>3, Label, Jumps
  <2> QED BY <1>0, <2>4, ReadStep DEF ExecutionInv, StateTypes
<1>3. CASE CheckService(loc[c].op, loc[c].new) /\ ~loc[c].new /\ ~loc[c].again
  <2>1. Goto(c, "check", [loc[c] EXCEPT !.again = TRUE]) /\ UNCHANGED lock BY <1>3 DEF CheckServices
  <2>2. PICK call \in Call : call = [loc[c] EXCEPT !.again = TRUE] BY <1>a DEF Call
  <2>3. call.op = loc[c].op /\ call.new = loc[c].new /\ call.result = loc[c].result BY <1>a, <2>2 DEF Call
  <2>4. CallInv(call, "check")
    BY <1>3, <1>g, <2>3 DEF CallInv, KubeLabels, ChartLabels, UninstallLabels
  <2>5. Seen(call, "check") BY DEF Seen, Held, KubeLabels, ChartLabels, UninstallLabels
  <2>6. Sound(c) BY <2>1, <2>2, <2>3, <2>4, <2>5, Label DEF Sound, Follows
  <2> QED BY <1>0, <2>6, ReadStep DEF ExecutionInv, StateTypes
<1>4. CASE CheckService(loc[c].op, loc[c].new) /\ ~loc[c].new /\ loc[c].again
  <2> DEFINE at == Driver(loc[c].op)
  <2>1. Jump(c, at) /\ UNCHANGED lock BY <1>4 DEF CheckServices
  <2>2. /\ at \in {"get", "chart", "uninstall"}
        /\ at = "get" /\ chart => Action(loc[c].op) \in {"start", "stop", "restart"}
        /\ at = "chart" => chart /\ Action(loc[c].op) \in {"install", "upgrade"}
        /\ at = "uninstall" => chart /\ Action(loc[c].op) = "delete"
    BY <1>g, GivenFacts DEF Driver, Actions
  <2>3. CallInv(loc[c], at)
    BY <1>4, <1>g, <2>2 DEF CallInv, KubeLabels, ChartLabels, UninstallLabels
  <2>4. OwnService(loc[c].op) BY <1>4, ServiceMatching DEF CheckService
  <2>5. lock = c /\ quiet => OwnDeployment(loc[c].op) BY <1>0, CallOf DEF Seen, Held
  <2>6. lock = c /\ quiet => Seen(loc[c], at) BY <2>2, <2>4, <2>5 DEF Seen
  <2>7. at \in Labels \ {"idle"} BY <2>2, Label DEF KubeLabels, ChartLabels, UninstallLabels
  <2>8. Sound(c) BY <2>1, <2>3, <2>6, <2>7, Jumps
  <2> QED BY <1>0, <2>8, ReadStep DEF ExecutionInv, StateTypes
<1> QED BY <1>a, <1>1, <1>2, <1>3, <1>4

LEMMA MoreFaults ==
    ASSUME ExecutionInv, NEW kind, Fault(kind)
    PROVE  faults' \in 0..MaxFaults /\ faults' >= faults /\ faults' = faults + 1
  BY Constants DEF Fault, ExecutionInv, StateTypes

LEMMA TimeoutStep ==
    ASSUME ExecutionInv, NEW c \in Callers, Timeout(c)
    PROVE  ExecutionInv'
<1>1. pc[c] = "check" /\ loc[c].again /\ Result(c, "failed") /\ Fault("timeout")
      /\ UNCHANGED <<rows, core, cluster, lock, late, quiet>>
  BY DEF Timeout
<1>2. ~loc[c].new BY <1>1, CallOf DEF CallInv
<1>3. Sound(c) BY <1>1, <1>2, Fails
<1> QED BY <1>1, <1>3, MoreFaults, ReadStep

LEMMA UnpreparedStep ==
    ASSUME ExecutionInv, NEW c \in Callers, Unprepared(c)
    PROVE  ExecutionInv'
<1>1. pc[c] \in {"chart", "get"} /\ Result(c, "failed") /\ Fault("rollout")
      /\ UNCHANGED <<rows, core, cluster, lock, late, quiet>>
  BY DEF Unprepared
<1>2. ~loc[c].new BY <1>1, CallOf DEF CallInv, CheckLabels
<1>3. Sound(c) BY <1>1, <1>2, Fails
<1> QED BY <1>1, <1>3, MoreFaults, ReadStep

--------------------------------------------------------------------------------
(* Templates: the steps of a call that read                                 *)

\* The call with the Deployment it has just read.
LEMMA Reading ==
    ASSUME ExecutionInv, NEW c \in Callers
    PROVE  \E call \in Call : /\ call = [loc[c] EXCEPT !.live = dep] /\ call.live = dep
                              /\ call.op = loc[c].op /\ call.new = loc[c].new
                              /\ call.gone = loc[c].gone /\ call.result = loc[c].result
<1> DEFINE call == [loc[c] EXCEPT !.live = dep]
<1>1. dep \in Objects /\ loc[c] \in Call BY CallOf DEF ExecutionInv, ClusterInv
<1>2. call \in Call /\ call.live = dep BY <1>1 DEF Call
<1>3. call.op = loc[c].op /\ call.new = loc[c].new /\ call.gone = loc[c].gone /\ call.result = loc[c].result
  BY <1>1 DEF Call
<1> QED BY <1>2, <1>3

\* What is known of a call at one of the labels for templates.
LEMMA AtKube ==
    ASSUME ExecutionInv, NEW c \in Callers, pc[c] \in KubeLabels
    PROVE  /\ Given(loc[c].op) /\ ~loc[c].new /\ pc[c] # "idle" /\ loc[c].live \in Objects /\ loc[c].result = "running"
           /\ Action(loc[c].op) \in Actions
           /\ chart => Action(loc[c].op) \in {"start", "stop", "restart"}
           /\ lock = c /\ quiet => OwnDeployment(loc[c].op) /\ OwnService(loc[c].op)
<1>1. CallInv(loc[c], pc[c]) /\ loc[c] \in Call /\ (lock = c /\ quiet => Seen(loc[c], pc[c])) BY CallOf
<1>2. pc[c] \notin CheckLabels /\ pc[c] # "idle" /\ pc[c] # "check_svc" /\ pc[c] \in Held
  BY DEF KubeLabels, CheckLabels, Held
<1>3. Given(loc[c].op) /\ ~loc[c].new /\ loc[c].result = "running" BY <1>1, <1>2 DEF CallInv, KubeLabels
<1>4. Action(loc[c].op) \in Actions BY <1>3, GivenFacts DEF Given
<1>5. chart => Action(loc[c].op) \in {"start", "stop", "restart"} BY <1>1, <1>2 DEF CallInv
<1> QED BY <1>1, <1>2, <1>3, <1>4, <1>5, CallFacts DEF Seen

LEMMA StoppedDone ==
    ASSUME NEW o, Action(o) = "stop", OwnDeployment(o), OwnService(o), dep # NoDep, ~dep.up, dep.status = "ready"
    PROVE  Lasting(o)
<1>1. Done(o) BY DEF Done, OwnDeployment
<1> QED BY <1>1, NothingThere DEF Lasting, OwnDeployment, OwnService

LEMMA RestartedDone ==
    ASSUME NEW o, Action(o) = "restart", OwnDeployment(o), OwnService(o), dep # NoDep, dep.up, dep.status = "ready",
           dep.restart = o
    PROVE  Lasting(o)
<1>1. Done(o) BY DEF Done, OwnDeployment
<1> QED BY <1>1, NothingThere DEF Lasting, OwnDeployment, OwnService

\* A workload of a template that runs, with its Service.
LEMMA RunningDone ==
    ASSUME ExecutionInv, NEW o, Given(o), Action(o) \in {"install", "start"}, OwnDeployment(o), OwnService(o), dep # NoDep,
           dep.up, dep.status = "ready", svc # NoSvc, Action(o) = "install" => ~chart
    PROVE  Lasting(o)
<1>1. Owned(o, dep.marks) /\ Owned(o, svc.marks) /\ Bound(o) /\ ~dep.doomed /\ ~svc.doomed
  BY DEF OwnDeployment, OwnService
<1>2. dep.marks \in Marks /\ svc.marks \in Marks /\ cmd[o].marks \in Marks
  BY DeploymentFacts, ServiceFacts, GivenFacts DEF ExecutionInv, ClusterInv
<1>3. CASE Action(o) = "install"
  <2>1. dep.marks = cmd[o].marks /\ svc.marks = cmd[o].marks BY <1>1, <1>2, <1>3 DEF Owned, Marks
  <2>2. Done(o) BY <1>1, <1>3, <2>1 DEF Done
  <2> QED BY <1>1, <2>2 DEF Lasting
<1>4. CASE Action(o) = "start"
  <2>1. Done(o) BY <1>1, <1>4 DEF Done
  <2> QED BY <1>1, <2>1 DEF Lasting
<1> QED BY <1>3, <1>4

LEMMA VerdictFacts == ASSUME NEW d PROVE Verdict(d) \in Results /\ (Verdict(d) = "succeeded" => d.status = "ready")
  BY DEF Verdict, Results

\* A call takes the Deployment it has read along.
LEMMA SeesUpdate ==
    ASSUME ExecutionInv, NEW c \in Callers, pc[c] = "get", dep # NoDep, WorkloadMatches(loc[c].op, dep),
           See(c, "update"), UNCHANGED lock
    PROVE  Sound(c)
<1>0. pc[c] \in KubeLabels /\ "update" \in KubeLabels BY DEF KubeLabels
<1>1. PICK call \in Call : /\ call = [loc[c] EXCEPT !.live = dep] /\ call.live = dep
                           /\ call.op = loc[c].op /\ call.new = loc[c].new
                           /\ call.gone = loc[c].gone /\ call.result = loc[c].result
  BY Reading
<1>2. CallInv(call, "update") BY <1>0, <1>1, AtKube, Matching DEF CallInv, ChartLabels, UninstallLabels
<1>3. lock = c /\ quiet => Seen(call, "update") BY <1>0, <1>1, AtKube DEF Seen
<1>4. Goto(c, "update", call) BY <1>1 DEF See
<1>5. Follows(call, "update", c) BY <1>0, <1>1, <1>2, <1>3, Label DEF Follows, KubeLabels
<1> QED BY <1>4, <1>5 DEF Sound

LEMMA SeesService ==
    ASSUME ExecutionInv, NEW c \in Callers, pc[c] = "get", dep # NoDep,
           Action(loc[c].op) = "delete" \/ (Action(loc[c].op) \in {"install", "start"} /\ dep.up),
           See(c, "svc"), UNCHANGED lock
    PROVE  Sound(c)
<1>0. pc[c] \in KubeLabels /\ "svc" \in KubeLabels BY DEF KubeLabels
<1>1. PICK call \in Call : /\ call = [loc[c] EXCEPT !.live = dep] /\ call.live = dep
                           /\ call.op = loc[c].op /\ call.new = loc[c].new
                           /\ call.gone = loc[c].gone /\ call.result = loc[c].result
  BY Reading
<1>2. CallInv(call, "svc") BY <1>0, <1>1, AtKube DEF CallInv, ChartLabels, UninstallLabels
<1>3. lock = c /\ quiet => Seen(call, "svc") BY <1>0, <1>1, AtKube DEF Seen
<1>4. Goto(c, "svc", call) BY <1>1 DEF See
<1>5. Follows(call, "svc", c) BY <1>0, <1>1, <1>2, <1>3, Label DEF Follows, KubeLabels
<1> QED BY <1>4, <1>5 DEF Sound

LEMMA DecideSound ==
    ASSUME ExecutionInv, NEW c \in Callers, pc[c] = "get", dep # NoDep, WorkloadMatches(loc[c].op, dep),
           Decide(c), UNCHANGED lock
    PROVE  Sound(c)
<1> DEFINE o == loc[c].op
<1>0. pc[c] \in KubeLabels BY DEF KubeLabels
<1>k. /\ Given(o) /\ ~loc[c].new /\ pc[c] # "idle" /\ Action(o) \in Actions
      /\ lock = c /\ quiet => OwnDeployment(o) /\ OwnService(o)
  BY <1>0, AtKube
<1>d. dep.up \in BOOLEAN BY DeploymentFacts DEF ExecutionInv, ClusterInv
<1>1. CASE Action(o) = "delete"
  <2>1. See(c, "svc") BY <1>1 DEF Decide
  <2> QED BY <1>1, <2>1, SeesService
<1>2. CASE Action(o) = "stop" /\ dep.up
  <2>1. See(c, "update") BY <1>2 DEF Decide
  <2> QED BY <2>1, SeesUpdate
<1>3. CASE Action(o) = "stop" /\ ~dep.up
  <2>1. Result(c, IF dep.status = "ready" THEN "succeeded" ELSE "running") BY <1>3 DEF Decide
  <2>2. CASE dep.status = "ready"
    <3>1. lock = c /\ quiet => Lasting(o) BY <1>k, <1>3, <2>2, StoppedDone
    <3> QED BY <1>k, <2>1, <2>2, <3>1, Concludes DEF Results
  <2>3. CASE dep.status # "ready" BY <1>k, <2>1, <2>3, Fails
  <2> QED BY <2>2, <2>3
<1>4. CASE Action(o) = "restart" /\ NeedsRestart(o, dep)
  <2>1. See(c, "update") BY <1>4 DEF Decide
  <2> QED BY <2>1, SeesUpdate
<1>5. CASE Action(o) = "restart" /\ ~NeedsRestart(o, dep)
  <2>1. Result(c, Verdict(dep)) BY <1>5 DEF Decide
  <2>2. dep.restart = o /\ dep.up BY <1>5, <1>d DEF NeedsRestart
  <2>3. Verdict(dep) = "succeeded" /\ lock = c /\ quiet => Lasting(o)
    BY <1>k, <1>5, <2>2, VerdictFacts, RestartedDone
  <2> QED BY <1>k, <2>1, <2>3, VerdictFacts, Concludes
<1>6. CASE Action(o) \in {"install", "start"} /\ ~dep.up
  <2>1. See(c, "update") BY <1>6 DEF Decide
  <2> QED BY <2>1, SeesUpdate
<1>7. CASE Action(o) \in {"install", "start"} /\ dep.up
  <2>1. See(c, "svc") BY <1>7 DEF Decide
  <2> QED BY <1>7, <2>1, SeesService
<1>8. CASE Action(o) = "upgrade"
  <2>1. Result(c, "failed") BY <1>8 DEF Decide
  <2> QED BY <1>k, <2>1, Fails
<1> QED BY <1>k, <1>d, <1>1, <1>2, <1>3, <1>4, <1>5, <1>6, <1>7, <1>8 DEF Actions

LEMMA GetStep ==
    ASSUME ExecutionInv, NEW c \in Callers, Get(c)
    PROVE  ExecutionInv'
<1> DEFINE o == loc[c].op
<1>0. pc[c] = "get" /\ UNCHANGED <<rows, core, cluster, lock, late, quiet, faults>> BY DEF Get
<1>a. pc[c] \in KubeLabels /\ {"create", "svc"} \subseteq KubeLabels BY <1>0 DEF KubeLabels
<1>k. /\ Given(o) /\ ~loc[c].new /\ pc[c] # "idle"
      /\ loc[c].result = "running" /\ (chart => Action(o) \in {"start", "stop", "restart"})
      /\ lock = c /\ quiet => OwnDeployment(o) /\ OwnService(o)
  BY <1>a, AtKube
<1>1. CASE dep = NoDep /\ Action(o) = "install"
  <2>1. Jump(c, "create") BY <1>1 DEF Get
  <2>2. CallInv(loc[c], "create") BY <1>k, <1>1 DEF CallInv, ChartLabels, UninstallLabels
  <2>3. lock = c /\ quiet => Seen(loc[c], "create") BY <1>k DEF Seen
  <2>4. Sound(c) BY <1>0, <1>a, <2>1, <2>2, <2>3, Label, Jumps
  <2> QED BY <1>0, <2>4, ReadStep DEF ExecutionInv, StateTypes
<1>2. CASE dep = NoDep /\ Action(o) = "delete"
  <2>1. Jump(c, "svc") BY <1>2 DEF Get
  <2>2. CallInv(loc[c], "svc") BY <1>k, <1>2 DEF CallInv, ChartLabels, UninstallLabels
  <2>3. lock = c /\ quiet => Seen(loc[c], "svc") BY <1>k, <1>2 DEF Seen
  <2>4. Sound(c) BY <1>0, <1>a, <2>1, <2>2, <2>3, Label, Jumps
  <2> QED BY <1>0, <2>4, ReadStep DEF ExecutionInv, StateTypes
<1>3. CASE Result(c, "failed")
  <2>1. Sound(c) BY <1>0, <1>k, <1>3, Fails
  <2> QED BY <1>0, <2>1, ReadStep DEF ExecutionInv, StateTypes
<1>4. CASE dep # NoDep /\ WorkloadMatches(o, dep)
  <2>1. Decide(c) BY <1>4 DEF Get
  <2>2. Sound(c) BY <1>0, <1>4, <2>1, DecideSound
  <2> QED BY <1>0, <2>2, ReadStep DEF ExecutionInv, StateTypes
<1> QED BY <1>1, <1>2, <1>3, <1>4 DEF Get

LEMMA GetServiceStep ==
    ASSUME ExecutionInv, NEW c \in Callers, GetService(c)
    PROVE  ExecutionInv'
<1> DEFINE o == loc[c].op
<1>0. pc[c] = "svc" /\ UNCHANGED <<rows, core, cluster, lock, late, quiet, faults>> BY DEF GetService
<1>a. pc[c] \in KubeLabels /\ {"doom", "recheck", "delete_svc"} \subseteq KubeLabels BY <1>0 DEF KubeLabels
<1>k. /\ Given(o) /\ ~loc[c].new /\ pc[c] # "idle"
      /\ loc[c].result = "running" /\ (chart => Action(o) \in {"start", "stop", "restart"})
      /\ lock = c /\ quiet => OwnDeployment(o) /\ OwnService(o)
  BY <1>a, AtKube
<1>c. /\ Action(o) \in {"install", "start", "delete"} /\ (Action(o) # "delete" => loc[c].live.up)
      /\ lock = c /\ quiet => /\ loc[c].live.status = "ready" => Action(o) = "delete" \/ dep = loc[c].live
                              /\ loc[c].live = NoDep => dep = NoDep
  BY <1>0, CallOf DEF CallInv, Seen
<1>1. CASE Result(c, "failed")
  <2>1. Sound(c) BY <1>0, <1>k, <1>1, Fails
  <2> QED BY <1>0, <2>1, ReadStep DEF ExecutionInv, StateTypes
<1>2. CASE svc = NoSvc /\ Action(o) = "delete"
  <2>1. Jump(c, "doom") BY <1>2 DEF GetService
  <2>2. CallInv(loc[c], "doom") BY <1>k, <1>2 DEF CallInv, ChartLabels, UninstallLabels
  <2>3. lock = c /\ quiet => Seen(loc[c], "doom") BY <1>k, <1>c, <1>2 DEF Seen
  <2>4. Sound(c) BY <1>0, <1>a, <2>1, <2>2, <2>3, Label, Jumps
  <2> QED BY <1>0, <2>4, ReadStep DEF ExecutionInv, StateTypes
<1>3. CASE svc = NoSvc /\ Action(o) # "delete"
  <2>1. Jump(c, "recheck") BY <1>3 DEF GetService
  <2>2. CallInv(loc[c], "recheck") BY <1>k, <1>c, <1>3 DEF CallInv, ChartLabels, UninstallLabels
  <2>3. lock = c /\ quiet => Seen(loc[c], "recheck") BY <1>k, <1>c, <1>3 DEF Seen
  <2>4. Sound(c) BY <1>0, <1>a, <2>1, <2>2, <2>3, Label, Jumps
  <2> QED BY <1>0, <2>4, ReadStep DEF ExecutionInv, StateTypes
<1>4. CASE svc # NoSvc /\ ServiceMatches(o, svc) /\ Action(o) # "delete"
  <2>1. Result(c, Verdict(loc[c].live)) BY <1>4 DEF GetService
  <2>2. ASSUME loc[c].live.status = "ready", lock = c, quiet PROVE Lasting(o)
    <3>1. dep = loc[c].live /\ dep.up /\ dep.status = "ready" BY <1>c, <1>4, <2>2
    <3>2. dep # NoDep BY <3>1, NothingThere
    <3> QED BY <1>k, <1>c, <1>4, <2>2, <3>1, <3>2, RunningDone
  <2>3. Sound(c) BY <1>0, <1>k, <2>1, <2>2, VerdictFacts, Concludes
  <2> QED BY <1>0, <2>3, ReadStep DEF ExecutionInv, StateTypes
<1>5. CASE svc # NoSvc /\ ServiceMatches(o, svc) /\ Action(o) = "delete"
  <2> DEFINE at == IF svc.doomed THEN "doom" ELSE "delete_svc"
  <2>1. Goto(c, at, [loc[c] EXCEPT !.gone = FALSE]) BY <1>5 DEF GetService
  <2>2. PICK call \in Call : call = [loc[c] EXCEPT !.gone = FALSE] BY CallOf DEF Call
  <2>3. call.op = o /\ call.new = loc[c].new /\ call.gone = FALSE /\ call.live = loc[c].live /\ call.result = loc[c].result
    BY <2>2, CallOf DEF Call
  <2>4. CallInv(call, at) BY <1>k, <1>5, <2>3 DEF CallInv, ChartLabels, UninstallLabels
  <2>5. lock = c /\ quiet => Seen(call, at) BY <1>k, <1>c, <1>5, <2>3 DEF Seen
  <2>6. at \in Labels \ {"idle"} BY <1>a, Label
  <2>7. Sound(c) BY <1>0, <2>1, <2>2, <2>3, <2>4, <2>5, <2>6 DEF Sound, Follows
  <2> QED BY <1>0, <2>7, ReadStep DEF ExecutionInv, StateTypes
<1>6. svc # NoSvc /\ ~ServiceMatches(o, svc) => Result(c, "failed") BY DEF GetService
<1> QED BY <1>1, <1>2, <1>3, <1>4, <1>5, <1>6

LEMMA RecheckStep ==
    ASSUME ExecutionInv, NEW c \in Callers, Recheck(c)
    PROVE  ExecutionInv'
<1>0. pc[c] = "recheck" /\ UNCHANGED <<rows, core, cluster, lock, late, quiet, faults>> BY DEF Recheck
<1>a. pc[c] \in KubeLabels /\ "create_svc" \in KubeLabels BY <1>0 DEF KubeLabels
<1>k. Given(loc[c].op) /\ ~loc[c].new /\ pc[c] # "idle" /\ loc[c].result = "running" BY <1>a, AtKube
<1>1. CASE Result(c, "failed")
  <2>1. Sound(c) BY <1>0, <1>k, <1>1, Fails
  <2> QED BY <1>0, <2>1, ReadStep DEF ExecutionInv, StateTypes
<1>2. CASE Jump(c, "create_svc")
  <2>1. CallInv(loc[c], "create_svc")
    BY <1>0, <1>k, CallOf DEF CallInv, KubeLabels, ChartLabels, UninstallLabels
  <2>2. lock = c /\ quiet => Seen(loc[c], "create_svc") BY <1>0, <1>a, AtKube, CallOf DEF Seen
  <2>3. Sound(c) BY <1>0, <1>2, <1>a, <2>1, <2>2, Label, Jumps
  <2> QED BY <1>0, <2>3, ReadStep DEF ExecutionInv, StateTypes
<1> QED BY <1>1, <1>2 DEF Recheck

LEMMA DoomStep ==
    ASSUME ExecutionInv, NEW c \in Callers, Doom(c)
    PROVE  ExecutionInv'
<1> DEFINE o == loc[c].op
<1>0. pc[c] = "doom" /\ UNCHANGED <<rows, core, cluster, lock, late, quiet, faults>> BY DEF Doom
<1>a. pc[c] \in KubeLabels /\ "delete" \in KubeLabels BY <1>0 DEF KubeLabels
<1>k. /\ Given(o) /\ ~loc[c].new /\ pc[c] # "idle" /\ loc[c].result = "running" /\ Action(o) = "delete" /\ ~chart
      /\ loc[c].live.doomed \in BOOLEAN /\ loc[c].gone \in BOOLEAN
      /\ lock = c /\ quiet => OwnDeployment(o) /\ OwnService(o)
  BY <1>0, <1>a, AtKube, CallOf, CallFacts, DeploymentFacts DEF CallInv
<1>1. CASE Result(c, "running")
  <2>1. Sound(c) BY <1>0, <1>k, <1>1, Fails
  <2> QED BY <1>0, <2>1, ReadStep DEF ExecutionInv, StateTypes
<1>2. CASE loc[c].live = NoDep /\ loc[c].gone
  <2>1. Result(c, "succeeded") BY <1>2 DEF Doom
  <2>2. ASSUME lock = c, quiet PROVE Lasting(o)
    <3>1. dep = NoDep /\ svc = NoSvc BY <1>0, <1>2, <2>2, CallOf DEF Seen
    <3>2. rel = NoRel BY <1>k DEF ExecutionInv, ClusterInv
    <3> QED BY <1>k, <3>1, <3>2 DEF Lasting, Done
  <2>3. Sound(c) BY <1>0, <1>k, <2>1, <2>2, Concludes DEF Results
  <2> QED BY <1>0, <2>3, ReadStep DEF ExecutionInv, StateTypes
<1>3. CASE loc[c].live # NoDep /\ ~loc[c].live.doomed
  <2>1. Jump(c, "delete") BY <1>3 DEF Doom
  <2>2. CallInv(loc[c], "delete") BY <1>k DEF CallInv, KubeLabels, ChartLabels, UninstallLabels
  <2>3. lock = c /\ quiet => Seen(loc[c], "delete") BY <1>k DEF Seen
  <2>4. Sound(c) BY <1>0, <1>a, <2>1, <2>2, <2>3, Label, Jumps
  <2> QED BY <1>0, <2>4, ReadStep DEF ExecutionInv, StateTypes
<1>4. \/ Result(c, "running") \/ (loc[c].live = NoDep /\ loc[c].gone) \/ (loc[c].live # NoDep /\ ~loc[c].live.doomed)
  BY <1>k DEF Doom
<1> QED BY <1>1, <1>2, <1>3, <1>4

--------------------------------------------------------------------------------
(* Charts: the steps of a call that read                                    *)

\* What is known of a call at one of the labels for charts.
LEMMA AtChart ==
    ASSUME ExecutionInv, NEW c \in Callers, pc[c] \in ChartLabels \cup UninstallLabels
    PROVE  /\ Given(loc[c].op) /\ ~loc[c].new /\ pc[c] # "idle" /\ chart /\ loc[c].result = "running"
           /\ pc[c] \in ChartLabels => Action(loc[c].op) \in {"install", "upgrade"}
           /\ pc[c] \in UninstallLabels => Action(loc[c].op) = "delete"
           /\ lock = c /\ quiet /\ pc[c] \notin {"e_done", "u_done"} =>
                OwnDeployment(loc[c].op) /\ OwnService(loc[c].op)
<1>1. CallInv(loc[c], pc[c]) /\ (lock = c /\ quiet => Seen(loc[c], pc[c])) BY CallOf
<1>2. /\ pc[c] \notin CheckLabels /\ pc[c] # "idle" /\ pc[c] # "check_svc"
      /\ pc[c] \notin {"e_done", "u_done"} => pc[c] \in Held
  BY DEF ChartLabels, UninstallLabels, CheckLabels, Held
<1>3. Given(loc[c].op) /\ ~loc[c].new /\ loc[c].result = "running"
  BY <1>1, <1>2 DEF CallInv, ChartLabels, UninstallLabels
<1>4. /\ pc[c] \in ChartLabels => chart /\ Action(loc[c].op) \in {"install", "upgrade"}
      /\ pc[c] \in UninstallLabels => chart /\ Action(loc[c].op) = "delete"
  BY <1>1, <1>2 DEF CallInv
<1> QED BY <1>1, <1>2, <1>3, <1>4 DEF Seen

\* Labels where a call of a chart has nothing more to know than what it is bound to.
LEMMA JumpsInChart ==
    ASSUME ExecutionInv, NEW c \in Callers, pc[c] \in ChartLabels \ {"e_done"},
           NEW at \in ChartLabels \ {"observe", "observe_svc"}, Jump(c, at), UNCHANGED lock
    PROVE  Sound(c)
<1>0. pc[c] \in ChartLabels \cup UninstallLabels /\ pc[c] \notin {"e_done", "u_done"} BY DEF ChartLabels
<1>1. at \notin {"idle", "insert", "check_svc", "finish"} /\ at \notin KubeLabels /\ at \notin UninstallLabels
  BY DEF ChartLabels, KubeLabels, UninstallLabels
<1>2. CallInv(loc[c], at) BY <1>0, <1>1, AtChart DEF CallInv, KubeLabels
<1>3. lock = c /\ quiet => Seen(loc[c], at) BY <1>0, <1>1, AtChart DEF Seen, KubeLabels, UninstallLabels
<1> QED BY <1>1, <1>2, <1>3, Label, Jumps

LEMMA ChartGetStep ==
    ASSUME ExecutionInv, NEW c \in Callers, ChartGet(c)
    PROVE  ExecutionInv'
<1>0. pc[c] = "chart" /\ UNCHANGED <<rows, core, cluster, lock, late, quiet, faults>> BY DEF ChartGet
<1>a. pc[c] \in ChartLabels \cup UninstallLabels /\ "ensure" \in ChartLabels /\ pc[c] \in ChartLabels
  BY <1>0 DEF ChartLabels
<1>k. /\ Given(loc[c].op) /\ ~loc[c].new /\ pc[c] # "idle" /\ chart
      /\ loc[c].result = "running" /\ Action(loc[c].op) \in {"install", "upgrade"}
      /\ lock = c /\ quiet => OwnDeployment(loc[c].op) /\ OwnService(loc[c].op)
  BY <1>0, <1>a, AtChart
<1>1. CASE Result(c, "failed")
  <2>1. Sound(c) BY <1>0, <1>k, <1>1, Fails
  <2> QED BY <1>0, <2>1, ReadStep DEF ExecutionInv, StateTypes
<1>2. CASE See(c, "ensure")
  <2>1. PICK call \in Call : /\ call = [loc[c] EXCEPT !.live = dep] /\ call.live = dep
                             /\ call.op = loc[c].op /\ call.new = loc[c].new
                             /\ call.gone = loc[c].gone /\ call.result = loc[c].result
    BY Reading
  <2>2. CallInv(call, "ensure") BY <1>k, <2>1 DEF CallInv, KubeLabels, UninstallLabels
  <2>3. lock = c /\ quiet => Seen(call, "ensure") BY <1>k, <2>1 DEF Seen
  <2>4. Sound(c)
    <3>1. Goto(c, "ensure", call) BY <1>2, <2>1 DEF See
    <3>2. Follows(call, "ensure", c) BY <1>a, <2>1, <2>2, <2>3, Label DEF Follows
    <3> QED BY <1>0, <3>1, <3>2 DEF Sound
  <2> QED BY <1>0, <2>4, ReadStep DEF ExecutionInv, StateTypes
<1> QED BY <1>1, <1>2 DEF ChartGet

LEMMA EnsureStep ==
    ASSUME ExecutionInv, NEW c \in Callers, Ensure(c)
    PROVE  ExecutionInv'
<1> DEFINE o == loc[c].op
<1>0. pc[c] = "ensure" /\ UNCHANGED <<rows, core, cluster, lock, late, quiet, faults>> BY DEF Ensure
<1>a. /\ pc[c] \in ChartLabels \cup UninstallLabels /\ pc[c] \in ChartLabels \ {"e_done"}
      /\ {"i_record", "e_record"} \subseteq ChartLabels \ {"observe", "observe_svc"} /\ "observe" \in ChartLabels
  BY <1>0 DEF ChartLabels
<1>k. /\ Given(o) /\ ~loc[c].new /\ pc[c] # "idle" /\ chart
      /\ loc[c].result = "running" /\ Action(o) \in {"install", "upgrade"}
      /\ lock = c /\ quiet => OwnDeployment(o) /\ OwnService(o)
  BY <1>0, <1>a, AtChart
<1>1. CASE Result(c, "failed") \/ Result(c, "running")
  <2>1. Sound(c) BY <1>0, <1>k, <1>1, Fails
  <2> QED BY <1>0, <2>1, ReadStep DEF ExecutionInv, StateTypes
<1>2. CASE Jump(c, "i_record") \/ Jump(c, "e_record")
  <2>1. Sound(c) BY <1>0, <1>a, <1>2, JumpsInChart
  <2> QED BY <1>0, <2>1, ReadStep DEF ExecutionInv, StateTypes
<1>3. CASE Jump(c, "observe") /\ rel.status = "deployed" /\ rel.marks = cmd[o].marks /\ ~Drifted(rel) /\ Present
  <2>1. CallInv(loc[c], "observe") BY <1>k DEF CallInv, KubeLabels, ChartLabels, UninstallLabels
  <2>2. svc # NoSvc /\ svc.marks = cmd[o].marks BY <1>3 DEF Drifted, Present
  <2>3. lock = c /\ quiet => Seen(loc[c], "observe") BY <1>k, <1>3, <2>2 DEF Seen
  <2>4. Sound(c) BY <1>0, <1>a, <1>3, <2>1, <2>3, Label, Jumps
  <2> QED BY <1>0, <2>4, ReadStep DEF ExecutionInv, StateTypes
<1>4. \/ Result(c, "failed") \/ Result(c, "running") \/ Jump(c, "i_record") \/ Jump(c, "e_record")
      \/ Jump(c, "observe") /\ rel.status = "deployed" /\ rel.marks = cmd[o].marks /\ ~Drifted(rel) /\ Present
  <2>1. rel = NoRel \/ rel.status \in {"pending", "deployed", "failed", "uninstalling"}
    BY DEF ExecutionInv, ClusterInv, Release
  <2>2. CASE rel = NoRel BY <2>2 DEF Ensure
  <2>3. CASE rel # NoRel /\ rel.status = "pending" BY <2>3 DEF Ensure
  <2>4. CASE rel # NoRel /\ rel.status \in {"failed", "uninstalling"} BY <2>4 DEF Ensure
  <2>5. CASE rel # NoRel /\ rel.status = "deployed"
    <3>1. CASE rel.marks.inst # cmd[o].marks.inst \/ Drifted(rel) BY <2>5, <3>1 DEF Ensure
    <3>2. CASE rel.marks.inst = cmd[o].marks.inst /\ ~Drifted(rel) /\ rel.marks = cmd[o].marks /\ Present
      BY <2>5, <3>2 DEF Ensure
    <3>3. CASE /\ rel.marks.inst = cmd[o].marks.inst /\ ~Drifted(rel) /\ ~(rel.marks = cmd[o].marks /\ Present)
               /\ rel.marks.hash # cmd[o].marks.hash /\ Action(o) = "install"
      BY <2>5, <3>3 DEF Ensure
    <3>4. CASE /\ rel.marks.inst = cmd[o].marks.inst /\ ~Drifted(rel) /\ ~(rel.marks = cmd[o].marks /\ Present)
               /\ ~(rel.marks.hash # cmd[o].marks.hash /\ Action(o) = "install")
      BY <2>5, <3>4 DEF Ensure
    <3> QED BY <3>1, <3>2, <3>3, <3>4
  <2> QED BY <2>1, <2>2, <2>3, <2>4, <2>5
<1> QED BY <1>1, <1>2, <1>3, <1>4

LEMMA ObserveStep ==
    ASSUME ExecutionInv, NEW c \in Callers, Observe(c)
    PROVE  ExecutionInv'
<1>0. pc[c] = "observe" /\ UNCHANGED <<rows, core, cluster, lock, late, quiet, faults>> BY DEF Observe
<1>a. pc[c] \in ChartLabels \cup UninstallLabels /\ pc[c] \in ChartLabels /\ "observe_svc" \in ChartLabels
  BY <1>0 DEF ChartLabels
<1>k. /\ Given(loc[c].op) /\ ~loc[c].new /\ pc[c] # "idle" /\ chart
      /\ loc[c].result = "running" /\ Action(loc[c].op) \in {"install", "upgrade"}
      /\ lock = c /\ quiet => OwnDeployment(loc[c].op) /\ OwnService(loc[c].op)
  BY <1>0, <1>a, AtChart
<1>1. CASE Result(c, "failed")
  <2>1. Sound(c) BY <1>0, <1>k, <1>1, Fails
  <2> QED BY <1>0, <2>1, ReadStep DEF ExecutionInv, StateTypes
<1>2. CASE See(c, "observe_svc") /\ dep # NoDep /\ dep.marks = cmd[loc[c].op].marks
  <2>1. PICK call \in Call : /\ call = [loc[c] EXCEPT !.live = dep] /\ call.live = dep
                             /\ call.op = loc[c].op /\ call.new = loc[c].new
                             /\ call.gone = loc[c].gone /\ call.result = loc[c].result
    BY Reading
  <2>2. CallInv(call, "observe_svc") BY <1>k, <1>2, <2>1 DEF CallInv, KubeLabels, UninstallLabels
  <2>3. lock = c /\ quiet => Seen(call, "observe_svc") BY <1>0, <1>k, <2>1, CallOf DEF Seen
  <2>4. Sound(c)
    <3>1. Goto(c, "observe_svc", call) BY <1>2, <2>1 DEF See
    <3>2. Follows(call, "observe_svc", c) BY <1>a, <2>1, <2>2, <2>3, Label DEF Follows
    <3> QED BY <1>0, <3>1, <3>2 DEF Sound
  <2> QED BY <1>0, <2>4, ReadStep DEF ExecutionInv, StateTypes
<1> QED BY <1>1, <1>2 DEF Observe

LEMMA ObserveServiceStep ==
    ASSUME ExecutionInv, NEW c \in Callers, ObserveService(c)
    PROVE  ExecutionInv'
<1> DEFINE o == loc[c].op
<1>0. pc[c] = "observe_svc" /\ UNCHANGED <<rows, core, cluster, lock, late, quiet, faults>> BY DEF ObserveService
<1>a. pc[c] \in ChartLabels \cup UninstallLabels /\ pc[c] \in ChartLabels BY <1>0 DEF ChartLabels
<1>k. /\ Given(o) /\ ~loc[c].new /\ pc[c] # "idle" /\ chart
      /\ loc[c].result = "running" /\ Action(o) \in {"install", "upgrade"}
      /\ lock = c /\ quiet => OwnDeployment(o) /\ OwnService(o)
  BY <1>0, <1>a, AtChart
<1>1. CASE Result(c, "failed") \/ Result(c, "running")
  <2>1. Sound(c) BY <1>0, <1>k, <1>1, Fails
  <2> QED BY <1>0, <2>1, ReadStep DEF ExecutionInv, StateTypes
<1>2. CASE Result(c, Verdict(loc[c].live)) /\ loc[c].live.up
  <2>1. ASSUME loc[c].live.status = "ready", lock = c, quiet PROVE Lasting(o)
    <3>1. Seen(loc[c], "observe_svc") /\ CallInv(loc[c], "observe_svc") BY <1>0, <2>1, CallOf
    <3>2. /\ dep = loc[c].live /\ rel.status = "deployed" /\ rel.marks = cmd[o].marks
          /\ svc # NoSvc /\ svc.marks = cmd[o].marks
      BY <1>k, <2>1, <3>1 DEF Seen
    <3>3. dep.up /\ dep.status = "ready" /\ dep.marks = cmd[o].marks /\ dep # NoDep
      BY <1>2, <2>1, <3>1, <3>2, NothingThere DEF CallInv
    <3>4. Bound(o) /\ ~dep.doomed /\ ~svc.doomed BY <1>k, <2>1, <3>2, <3>3 DEF OwnDeployment, OwnService
    <3>5. Done(o) BY <1>k, <3>2, <3>3, <3>4 DEF Done
    <3> QED BY <3>4, <3>5 DEF Lasting
  <2>2. Sound(c) BY <1>0, <1>k, <1>2, <2>1, VerdictFacts, Concludes
  <2> QED BY <1>0, <2>2, ReadStep DEF ExecutionInv, StateTypes
<1>3. \/ Result(c, "failed") \/ Result(c, "running") \/ (Result(c, Verdict(loc[c].live)) /\ loc[c].live.up)
  BY DEF ObserveService
<1> QED BY <1>1, <1>2, <1>3

LEMMA UninstallStep ==
    ASSUME ExecutionInv, NEW c \in Callers, Uninstall(c)
    PROVE  ExecutionInv'
<1> DEFINE o == loc[c].op
<1>0. pc[c] = "uninstall" /\ UNCHANGED <<rows, core, cluster, lock, late, quiet, faults>> BY DEF Uninstall
<1>a. /\ pc[c] \in ChartLabels \cup UninstallLabels /\ pc[c] \in UninstallLabels
      /\ {"gone", "u_record"} \subseteq UninstallLabels
  BY <1>0 DEF UninstallLabels
<1>k. /\ Given(o) /\ ~loc[c].new /\ pc[c] # "idle" /\ chart /\ loc[c].result = "running" /\ Action(o) = "delete"
      /\ lock = c /\ quiet => OwnDeployment(o) /\ OwnService(o)
  BY <1>0, <1>a, AtChart
<1>1. CASE Result(c, "failed") \/ Result(c, "running")
  <2>1. Sound(c) BY <1>0, <1>k, <1>1, Fails
  <2> QED BY <1>0, <2>1, ReadStep DEF ExecutionInv, StateTypes
<1>2. CASE Jump(c, "gone") /\ rel = NoRel
  <2>1. CallInv(loc[c], "gone") BY <1>k DEF CallInv, KubeLabels, ChartLabels
  <2>2. lock = c /\ quiet => Seen(loc[c], "gone") BY <1>k, <1>2 DEF Seen
  <2>3. Sound(c) BY <1>0, <1>a, <1>2, <2>1, <2>2, Label, Jumps
  <2> QED BY <1>0, <2>3, ReadStep DEF ExecutionInv, StateTypes
<1>3. CASE Jump(c, "u_record")
  <2>1. CallInv(loc[c], "u_record") BY <1>k DEF CallInv, KubeLabels, ChartLabels
  <2>2. lock = c /\ quiet => Seen(loc[c], "u_record") BY <1>k DEF Seen
  <2>3. Sound(c) BY <1>0, <1>a, <1>3, <2>1, <2>2, Label, Jumps
  <2> QED BY <1>0, <2>3, ReadStep DEF ExecutionInv, StateTypes
<1>4. \/ Result(c, "failed") \/ Result(c, "running") \/ (Jump(c, "gone") /\ rel = NoRel) \/ Jump(c, "u_record")
  BY DEF Uninstall
<1> QED BY <1>1, <1>2, <1>3, <1>4

LEMMA GoneStep ==
    ASSUME ExecutionInv, NEW c \in Callers, Gone(c)
    PROVE  ExecutionInv'
<1> DEFINE o == loc[c].op
<1>0. pc[c] \in {"gone", "gone_svc"} /\ UNCHANGED <<rows, core, cluster, lock, late, quiet, faults>> BY DEF Gone
<1>a. /\ pc[c] \in ChartLabels \cup UninstallLabels /\ pc[c] \in UninstallLabels
      /\ "gone_svc" \in UninstallLabels
  BY <1>0 DEF UninstallLabels
<1>k. /\ Given(o) /\ ~loc[c].new /\ pc[c] # "idle" /\ chart /\ loc[c].result = "running" /\ Action(o) = "delete"
      /\ lock = c /\ quiet => OwnDeployment(o) /\ OwnService(o) /\ rel = NoRel
  BY <1>0, <1>a, AtChart, CallOf DEF Seen
<1>1. CASE Result(c, "failed") \/ Result(c, "running")
  <2>1. Sound(c) BY <1>0, <1>k, <1>1, Fails
  <2> QED BY <1>0, <2>1, ReadStep DEF ExecutionInv, StateTypes
<1>2. CASE Jump(c, "gone_svc") /\ dep = NoDep
  <2>1. CallInv(loc[c], "gone_svc") BY <1>k DEF CallInv, KubeLabels, ChartLabels
  <2>2. lock = c /\ quiet => Seen(loc[c], "gone_svc") BY <1>k, <1>2 DEF Seen
  <2>3. Sound(c) BY <1>0, <1>a, <1>2, <2>1, <2>2, Label, Jumps
  <2> QED BY <1>0, <2>3, ReadStep DEF ExecutionInv, StateTypes
<1>3. CASE pc[c] = "gone_svc" /\ Result(c, "succeeded") /\ svc = NoSvc
  <2>1. lock = c /\ quiet => dep = NoDep BY <1>3, CallOf DEF Seen
  <2>2. lock = c /\ quiet => Lasting(o) BY <1>k, <1>3, <2>1 DEF Lasting, Done
  <2>3. Sound(c) BY <1>0, <1>k, <1>3, <2>2, Concludes DEF Results
  <2> QED BY <1>0, <2>3, ReadStep DEF ExecutionInv, StateTypes
<1>4. \/ Result(c, "failed") \/ Result(c, "running") \/ (Jump(c, "gone_svc") /\ dep = NoDep)
      \/ (pc[c] = "gone_svc" /\ Result(c, "succeeded") /\ svc = NoSvc)
  BY DEF Gone
<1> QED BY <1>1, <1>2, <1>3, <1>4

--------------------------------------------------------------------------------
(* A call begins, and writes its row                                        *)

LEMMA SameClusterInv == ASSUME ExecutionInv, UNCHANGED <<core, cluster>> PROVE ClusterInv'
<1>1. Youngest' = Youngest BY DEF Youngest, Recorded, core
<1> QED BY <1>1 DEF ExecutionInv, ClusterInv, core, cluster

\* The row of a running operation is written by the holder of the lock only.
LEMMA InsertStep ==
    ASSUME ExecutionInv, NEW c \in Callers, Insert(c)
    PROVE  ExecutionInv'
<1>0. /\ pc[c] = "insert" /\ End(c) /\ UNCHANGED <<core, cluster, late, quiet, faults>>
      /\ rows' = IF lock = c /\ ~Busy THEN [rows EXCEPT ![loc[c].op] = "running"] ELSE rows
  BY DEF Insert, Connected
<1>1. Given(loc[c].op) /\ loc[c].op \in Ops BY <1>0, CallOf DEF CallInv, Given
<1>2. rows \in [Ops -> Statuses] /\ \A o \in Ops : rows[o] # "none" => Given(o)
  BY DEF ExecutionInv, StateTypes, CommandInv
<1>3. rows' \in [Ops -> Statuses] /\ \A o \in Ops : rows'[o] # "none" => Given(o)
  BY <1>0, <1>1, <1>2 DEF Statuses
<1>4. \A o, p \in Running' : o = p
  <2>1. CASE rows' = rows BY <2>1 DEF ExecutionInv, LockInv, Running
  <2>2. CASE ~Busy /\ rows' = [rows EXCEPT ![loc[c].op] = "running"]
    <3>1. \A o \in Ops : rows'[o] = "running" => o = loc[c].op BY <1>2, <2>2 DEF Busy
    <3> QED BY <3>1 DEF Running
  <2> QED BY <1>0, <2>1, <2>2
<1>5. ClusterInv' BY <1>0, SameClusterInv
<1> QED BY <1>0, <1>3, <1>4, <1>5, Ends DEF ExecutionInv, StateTypes, LateInv

LEMMA FinishStep ==
    ASSUME ExecutionInv, NEW c \in Callers, Finish(c)
    PROVE  ExecutionInv'
<1>0. /\ pc[c] = "finish" /\ End(c) /\ UNCHANGED <<core, cluster, late, quiet, faults>>
      /\ rows' = IF lock = c THEN [rows EXCEPT ![loc[c].op] = loc[c].result] ELSE rows
  BY DEF Finish, Connected
<1>1. Given(loc[c].op) /\ loc[c].op \in Ops /\ ~loc[c].new /\ loc[c].result \in Results
  BY <1>0, CallOf, CallFacts DEF CallInv, Given, CheckLabels
<1>2. rows \in [Ops -> Statuses] /\ \A o \in Ops : rows[o] # "none" => Given(o)
  BY DEF ExecutionInv, StateTypes, CommandInv
<1>3. rows' \in [Ops -> Statuses] /\ \A o \in Ops : rows'[o] # "none" => Given(o)
  BY <1>0, <1>1, <1>2 DEF Statuses, Results
<1>4. \A o, p \in Running' : o = p
  <2>1. lock = c => rows[loc[c].op] = "running" BY <1>1, CallOf
  <2>2. \A o \in Ops : rows'[o] = "running" => rows[o] = "running" BY <1>0, <1>2, <2>1
  <2> QED BY <2>2 DEF ExecutionInv, LockInv, Running
<1>5. ClusterInv' BY <1>0, SameClusterInv
<1> QED BY <1>0, <1>3, <1>4, <1>5, Ends DEF ExecutionInv, StateTypes, LateInv

\* A call takes the free lock.
LEMMA Takes ==
    ASSUME ExecutionInv, NEW c \in Callers, lock' = c, quiet' = TRUE,
           UNCHANGED <<rows, core, cluster, late>>, faults' \in 0..MaxFaults, faults' >= faults,
           NEW call \in Call, NEW at \in {"check", "finish"}, Goto(c, at, call), Given(call.op), ~call.again,
           call.new => at = "check", call.new \/ rows[call.op] = "running",
           call.result # "succeeded", at = "check" => call.result = "running"
    PROVE  ExecutionInv'
<1>0. /\ pc' = [pc EXCEPT ![c] = at] /\ loc' = [loc EXCEPT ![c] = call]
      /\ pc'[c] = at /\ loc'[c] = call /\ rows' = rows /\ at \in Labels
  BY Label DEF Goto, ExecutionInv, StateTypes
<1>1. CallInv(call, at) BY DEF CallInv, CheckLabels, KubeLabels, ChartLabels, UninstallLabels
<1>2. LockInv'
  <2>1. \A o, p \in Running' : o = p BY <1>0 DEF ExecutionInv, LockInv, Running
  <2> QED BY <1>0, <2>1 DEF LockInv
<1>3. Seen(call, at)' BY DEF Seen, Held, KubeLabels, ChartLabels, UninstallLabels
<1>4. HolderInv' BY <1>0, <1>3 DEF HolderInv
<1>5. ClusterInv' BY SameClusterInv
<1> QED BY <1>0, <1>1, <1>2, <1>4, <1>5, OneCall DEF ExecutionInv, StateTypes, CommandInv, LateInv

LEMMA EnterStep ==
    ASSUME ExecutionInv, NEW c \in Callers, NEW o \in Ops, Enter(c, o)
    PROVE  ExecutionInv'
<1>0. /\ lock' = c /\ quiet' = TRUE /\ UNCHANGED <<rows, core, cluster, late, faults>>
      /\ cmd[o] # NoCmd /\ rows[o] \in {"none", "running"} /\ (rows[o] = "running" \/ Known(o))
  BY DEF Enter
<1>1. Given(o) BY <1>0 DEF ExecutionInv, CommandInv
<1>2. faults' \in 0..MaxFaults /\ faults' >= faults BY <1>0 DEF ExecutionInv, StateTypes
<1>3. CASE Known(o)
  <2>1. Goto(c, "check", [NoCall EXCEPT !.op = o, !.new = (rows[o] = "none")]) BY <1>3 DEF Enter
  <2>2. PICK call \in Call : call = [NoCall EXCEPT !.op = o, !.new = (rows[o] = "none")] BY NoCallType DEF Call
  <2>3. call.op = o /\ call.new = (rows[o] = "none") /\ ~call.again /\ call.result = "running"
    BY <2>2 DEF NoCall
  <2> QED BY <1>0, <1>1, <1>2, <2>1, <2>2, <2>3, Takes
<1>4. CASE ~Known(o)
  <2>1. Goto(c, "finish", [NoCall EXCEPT !.op = o, !.result = "failed"]) BY <1>4 DEF Enter
  <2>2. PICK call \in Call : call = [NoCall EXCEPT !.op = o, !.result = "failed"] BY NoCallType DEF Call, Results
  <2>3. call.op = o /\ ~call.new /\ ~call.again /\ call.result = "failed" BY <2>2 DEF NoCall
  <2> QED BY <1>0, <1>1, <1>2, <1>4, <2>1, <2>2, <2>3, Takes
<1> QED BY <1>3, <1>4

LEMMA UnresolvedStep ==
    ASSUME ExecutionInv, NEW c \in Callers, NEW o \in Ops, Unresolved(c, o)
    PROVE  ExecutionInv'
<1>0. /\ lock' = c /\ quiet' = TRUE /\ UNCHANGED <<rows, core, cluster, late>> /\ rows[o] = "running" /\ Fault("chart")
      /\ Goto(c, "finish", [NoCall EXCEPT !.op = o, !.result = "failed"])
  BY DEF Unresolved
<1>1. Given(o) BY <1>0 DEF ExecutionInv, CommandInv
<1>2. PICK call \in Call : call = [NoCall EXCEPT !.op = o, !.result = "failed"] BY NoCallType DEF Call, Results
<1>3. call.op = o /\ ~call.new /\ ~call.again /\ call.result = "failed" BY <1>2 DEF NoCall
<1> QED BY <1>0, <1>1, <1>2, <1>3, MoreFaults, Takes

--------------------------------------------------------------------------------
(* Steps that are of no call                                                *)

\* No call moves; who holds the lock still sees what it has seen.
LEMMA NoCallMoves ==
    ASSUME ExecutionInv, UNCHANGED <<rows, calls>>, Keeps, StateTypes', CommandInv', ClusterInv',
           lock' = lock \/ lock' = None, quiet' => quiet,
           \A r \in late' : RequestInv(r),
           ASSUME NEW call \in Call, NEW at \in Labels, Given(call.op), CallInv(call, at), Seen(call, at),
                  quiet', lock' = lock, at # "idle"
           PROVE  Seen(call, at)'
    PROVE  ExecutionInv'
<1>0. rows' = rows /\ pc' = pc /\ loc' = loc BY DEF calls
<1>1. ASSUME NEW c \in Callers PROVE CallInv(loc[c], pc[c])'
  <2>1. PICK call \in Call, at \in Labels : call = loc[c] /\ at = pc[c] BY CallOf
  <2>2. CallInv(call, at)' BY <2>1, CallOf, CallKept
  <2> QED BY <1>0, <2>1, <2>2
<1>2. \A r \in late' : RequestInv(r)' BY RequestKept
<1>3. LockInv'
  <2>1. \A o, p \in Running' : o = p BY <1>0 DEF ExecutionInv, LockInv, Running
  <2>2. \A c \in Callers : lock' = c => lock = c BY Constants
  <2> QED BY <1>0, <2>1, <2>2 DEF ExecutionInv, LockInv
<1>4. ASSUME NEW c \in Callers, lock' = c, quiet' PROVE Seen(loc[c], pc[c])'
  <2>1. PICK call \in Call, at \in Labels : call = loc[c] /\ at = pc[c] BY CallOf
  <2>2. lock = c /\ quiet /\ lock' = lock BY <1>4, Constants
  <2>3. CallInv(call, at) /\ Seen(call, at) /\ at # "idle" BY <2>1, <2>2, CallOf
  <2>4. Given(call.op) BY <2>3 DEF CallInv
  <2>5. Seen(call, at)' BY <1>4, <2>2, <2>3, <2>4
  <2> QED BY <1>0, <2>1, <2>5
<1> QED BY <1>1, <1>2, <1>3, <1>4 DEF ExecutionInv, CallsInv, LateInv, HolderInv

\* Core and the cluster change nothing that is written down.
LEMMA SameRecords ==
    ASSUME ExecutionInv, UNCHANGED <<rows, cmd, registered, chart, calls>>, transition' \in BOOLEAN,
           lock' \in Callers \cup {None}, quiet' \in BOOLEAN, late' \subseteq LateRequest,
           faults' \in 0..MaxFaults, faults' >= faults
    PROVE  Keeps /\ StateTypes' /\ CommandInv' /\ Youngest' = Youngest
<1>1. Keeps BY DEF Keeps
<1>2. StateTypes' BY Constants DEF ExecutionInv, StateTypes, calls
<1>3. Youngest' = Youngest BY DEF Youngest, Recorded
<1>4. CommandInv'
  <2>1. \A o \in Ops : Given(o) => Given(o)' BY <1>1, GivenKept
  <2> QED BY <1>3, <2>1 DEF ExecutionInv, CommandInv
<1> QED BY <1>1, <1>2, <1>3, <1>4

LEMMA TransitionStep ==
    ASSUME ExecutionInv, BeginTransition \/ EndTransition
    PROVE  ExecutionInv'
<1>0. /\ UNCHANGED <<rows, cmd, registered, chart, cluster, lock, calls, late, quiet, faults>>
      /\ transition' \in BOOLEAN
  BY DEF BeginTransition, EndTransition
<1>1. Keeps /\ StateTypes' /\ CommandInv' /\ Youngest' = Youngest BY <1>0, SameRecords DEF ExecutionInv, StateTypes
<1>2. ClusterInv' BY <1>0, <1>1 DEF ExecutionInv, ClusterInv, cluster
<1>3. ASSUME NEW call \in Call, NEW at \in Labels, Given(call.op), Seen(call, at) PROVE Seen(call, at)'
  BY <1>0, <1>1, <1>3, SeenKept
<1> QED BY <1>0, <1>1, <1>2, <1>3, NoCallMoves DEF ExecutionInv, LateInv

LEMMA SessionLossStep ==
    ASSUME ExecutionInv, NEW c \in Callers, SessionLoss(c)
    PROVE  ExecutionInv'
<1>0. UNCHANGED <<rows, core, cluster, calls, late, quiet>> /\ lock' = None /\ Fault("session") BY DEF SessionLoss
<1>1. Keeps /\ StateTypes' /\ CommandInv' /\ Youngest' = Youngest
  BY <1>0, MoreFaults, SameRecords DEF ExecutionInv, StateTypes, core
<1>2. ClusterInv' BY <1>0, SameClusterInv
<1>3. ASSUME NEW call \in Call, NEW at \in Labels, Given(call.op), Seen(call, at) PROVE Seen(call, at)'
  BY <1>0, <1>1, <1>3, SeenKept
<1> QED BY <1>0, <1>1, <1>2, <1>3, NoCallMoves DEF ExecutionInv, LateInv

\* A new command, and with it at most one new hash.
LEMMA InspectStep ==
    ASSUME ExecutionInv, NEW o \in Ops, NEW action \in Actions, InspectBound(o, action)
    PROVE  ExecutionInv'
<1> DEFINE given == cmd'[o]
<1>0. /\ cmd[o] = NoCmd /\ Inspected(action)
      /\ UNCHANGED <<rows, registered, transition, chart, cluster, lock, calls, late, quiet, faults>>
      /\ cmd \in [Ops -> Command \cup {NoCmd}] /\ registered \in Nat /\ registered <= MaxFaults
  BY Constants DEF InspectBound, ExecutionInv, StateTypes
<1>1. given = [action |-> action, uid |-> dep.uid,
               marks |-> CASE action = "install" -> [inst |-> o, hash |-> registered]
                           [] action = "upgrade" /\ chart -> [dep.marks EXCEPT !.hash = @ + 1]
                           [] OTHER -> dep.marks]
      /\ \A p \in Ops : p # o => cmd'[p] = cmd[p]
  BY <1>0 DEF InspectBound
<1>2. Recorded' = Recorded \cup {o} /\ o \notin Recorded
  <2>1. given # NoCmd BY <1>1 DEF NoCmd, Actions
  <2> QED BY <1>0, <1>1, <2>1 DEF Recorded
<1>3. /\ Cardinality(Recorded') = Cardinality(Recorded) + 1 /\ Cardinality(Recorded') <= Cardinality(Ops)
      /\ Cardinality(Recorded) \in Nat
  BY <1>2, Room, Constants, FS_AddElement, FS_Subset
<1>4. /\ Youngest' = Youngest + 1 /\ Youngest \in Nat /\ Youngest + 1 <= MaxFaults + Cardinality(Ops)
      /\ registered <= Youngest
  BY <1>0, <1>3, Constants DEF Youngest
<1>5. action # "install" => dep # NoDep BY <1>0 DEF Inspected
<1>6. dep.uid \in 0..MaxUid /\ (dep # NoDep => dep.marks \in Marks /\ dep.marks.hash <= Youngest)
  BY DeploymentFacts DEF ExecutionInv, ClusterInv
<1>7. given \in Command /\ given.marks.hash <= Youngest + 1 /\ given.action = action
  <2>1. CASE action = "install"
    <3>1. given.marks = [inst |-> o, hash |-> registered] BY <1>1, <2>1
    <3>2. given.marks \in Marks /\ given.marks.hash = registered BY <1>0, <1>4, <3>1, Constants DEF Marks
    <3> QED BY <1>0, <1>1, <1>4, <1>6, <2>1, <3>2 DEF Command
  <2>2. CASE action = "upgrade" /\ chart
    <3>1. given.marks = [dep.marks EXCEPT !.hash = @ + 1] BY <1>1, <2>2
    <3>2. given.marks \in Marks /\ given.marks.hash = dep.marks.hash + 1
      BY <1>4, <1>5, <1>6, <2>2, <3>1, Constants DEF Marks
    <3> QED BY <1>1, <1>4, <1>5, <1>6, <2>2, <3>2, MarksFacts DEF Command
  <2>3. CASE action # "install" /\ ~(action = "upgrade" /\ chart)
    <3>1. given.marks = dep.marks BY <1>1, <2>3
    <3> QED BY <1>1, <1>4, <1>5, <1>6, <2>3, <3>1, MarksFacts DEF Command
  <2> QED BY <2>1, <2>2, <2>3
<1>8. Keeps BY <1>0, <1>1 DEF Keeps
<1>9. StateTypes'
  <2>1. cmd' = [cmd EXCEPT ![o] = given] BY <1>0 DEF InspectBound
  <2>2. cmd' \in [Ops -> Command \cup {NoCmd}] BY <1>0, <1>7, <2>1
  <2> QED BY <1>0, <2>2 DEF ExecutionInv, StateTypes, calls
<1>10. CommandInv'
  <2>1. ASSUME NEW p \in Ops, p # o PROVE (cmd'[p] # NoCmd => Given(p)' /\ cmd'[p].marks.hash <= Youngest')
    <3>1. ASSUME cmd[p] # NoCmd PROVE Given(p)' /\ cmd[p].marks.hash <= Youngest + 1
      <4>1. Given(p) /\ cmd[p].marks.hash <= Youngest BY <3>1 DEF ExecutionInv, CommandInv
      <4> QED BY <1>4, <1>8, <4>1, GivenKept, GivenFacts, MarksFacts
    <3> QED BY <1>1, <1>4, <2>1, <3>1
  <2>2. Given(o)'
    <3>1. Action(o)' = action BY <1>7 DEF Action
    <3> QED BY <1>7, <3>1 DEF Given
  <2>3. \A p \in Ops : rows'[p] # "none" => Given(p)' BY <1>0, <1>8, GivenKept DEF ExecutionInv, CommandInv
  <2> QED BY <1>4, <1>7, <2>1, <2>2, <2>3 DEF CommandInv
<1>11. ClusterInv'
  <2>1. dep # NoDep => dep.marks.hash <= Youngest + 1 BY <1>4, <1>6, MarksFacts
  <2> QED BY <1>0, <1>4, <2>1 DEF ExecutionInv, ClusterInv, cluster
<1>12. ASSUME NEW call \in Call, NEW at \in Labels, Given(call.op), Seen(call, at) PROVE Seen(call, at)'
  BY <1>0, <1>8, <1>12, SeenKept
<1> QED BY <1>0, <1>8, <1>9, <1>10, <1>11, <1>12, NoCallMoves DEF ExecutionInv, LateInv

\* A rollout ends: what was seen as ready or as gone was not under way.
LEMMA SettleStep ==
    ASSUME ExecutionInv, Settle
    PROVE  ExecutionInv'
<1>0. /\ dep.status = "moving" /\ UNCHANGED <<rows, core, svc, made, rel, lock, calls, late, quiet>>
      /\ \E s \in {"ready", "failed"} : dep' = [dep EXCEPT !.status = s]
      /\ faults' \in 0..MaxFaults /\ faults' >= faults
  <2>1. CASE UNCHANGED faults BY <2>1 DEF Settle, ExecutionInv, StateTypes
  <2>2. CASE Fault("rollout") BY <2>2, MoreFaults DEF Settle
  <2> QED BY <2>1, <2>2 DEF Settle
<1>1. dep \in Deployment /\ dep # NoDep BY <1>0, DeploymentFacts DEF ExecutionInv, ClusterInv
<1>2. /\ dep' \in Deployment /\ dep'.uid = dep.uid /\ dep'.op = dep.op /\ dep'.marks = dep.marks
      /\ dep'.doomed = dep.doomed
  BY <1>0, <1>1 DEF Deployment
<1>3. Keeps /\ StateTypes' /\ CommandInv' /\ Youngest' = Youngest
  BY <1>0, SameRecords DEF ExecutionInv, StateTypes, core
<1>4. ClusterInv' BY <1>0, <1>1, <1>2, <1>3 DEF ExecutionInv, ClusterInv, core, Objects
<1>5. ASSUME NEW call \in Call, NEW at \in Labels, Given(call.op), Seen(call, at) PROVE Seen(call, at)'
  <2>1. cmd'[call.op] = cmd[call.op] /\ Action(call.op)' = Action(call.op) /\ chart' = chart
    BY <1>0, <1>3, <1>5, GivenKept DEF core
  <2>2. OwnDeployment(call.op) => OwnDeployment(call.op)'
    BY <1>1, <1>2, <2>1 DEF OwnDeployment, Bound, Owned
  <2>3. OwnService(call.op) => OwnService(call.op)' BY <1>0, <2>1 DEF OwnService, Owned
  <2>4. ~Lasting(call.op) BY <1>0, <1>1, <1>5, GivenFacts DEF Lasting, Done, Actions
  <2>5. dep # call.live \/ call.live.status # "ready" BY <1>0
  <2> QED BY <1>0, <1>1, <1>5, <2>1, <2>2, <2>3, <2>4, <2>5 DEF Seen
<1> QED BY <1>0, <1>3, <1>4, <1>5, NoCallMoves DEF ExecutionInv, LateInv, core

\* A deleted object goes: nobody but a delete has counted on it.
LEMMA CollectStep ==
    ASSUME ExecutionInv, Collect
    PROVE  ExecutionInv'
<1>0. /\ UNCHANGED <<rows, core, made, rel, lock, calls, late, quiet, faults>>
      /\ \/ dep.doomed /\ dep' = NoDep /\ svc' = svc
         \/ svc.doomed /\ svc' = NoSvc /\ dep' = dep
  BY DEF Collect
<1>1. (dep.doomed => dep # NoDep) /\ (svc.doomed => svc # NoSvc) BY NothingThere
<1>2. Keeps /\ StateTypes' /\ CommandInv' /\ Youngest' = Youngest
  BY <1>0, SameRecords DEF ExecutionInv, StateTypes, core
<1>3. ClusterInv' BY <1>0, <1>2 DEF ExecutionInv, ClusterInv, core, Objects
<1>4. ASSUME NEW call \in Call, NEW at \in Labels, Given(call.op), CallInv(call, at), Seen(call, at), at # "idle"
      PROVE  Seen(call, at)'
  <2>1. cmd'[call.op] = cmd[call.op] /\ Action(call.op)' = Action(call.op) /\ chart' = chart /\ rel' = rel
    BY <1>0, <1>2, <1>4, GivenKept DEF core
  <2>2. ~Lasting(call.op)
    <3>1. (dep.doomed \/ svc.doomed) /\ (dep # NoDep \/ svc # NoSvc) BY <1>0, <1>1
    <3>2. Action(call.op) = "delete" => ~Done(call.op) BY <3>1 DEF Done
    <3> QED BY <3>1, <3>2 DEF Lasting
  <2>3. at \in {"svc", "recheck", "create_svc", "observe_svc"} => at \in Held BY DEF Held, KubeLabels, ChartLabels
  <2>4. at \in {"observe", "observe_svc"} => at \in Held \ {"check_svc"} /\ Action(call.op) \in {"install", "upgrade"}
    BY <1>4 DEF Held, ChartLabels, CallInv
  <2>5. CASE dep.doomed /\ dep' = NoDep /\ svc' = svc
    <3>1. OwnDeployment(call.op)' BY <2>5 DEF OwnDeployment
    <3>2. OwnService(call.op) => OwnService(call.op)' BY <2>1, <2>5 DEF OwnService, Owned
    <3>3. OwnDeployment(call.op) => Action(call.op) = "delete" BY <1>1, <2>5 DEF OwnDeployment
    <3> QED BY <1>4, <2>1, <2>2, <2>3, <2>5, <3>1, <3>2, <3>3 DEF Seen
  <2>6. CASE svc.doomed /\ svc' = NoSvc /\ dep' = dep
    <3>1. OwnDeployment(call.op) => OwnDeployment(call.op)' BY <2>1, <2>6 DEF OwnDeployment, Bound, Owned
    <3>2. OwnService(call.op)' BY <2>6 DEF OwnService
    <3>3. OwnService(call.op) => Action(call.op) = "delete" BY <1>1, <2>6 DEF OwnService
    <3> QED BY <1>4, <2>1, <2>2, <2>4, <2>6, <3>1, <3>2, <3>3 DEF Seen
  <2> QED BY <1>0, <2>5, <2>6
<1> QED BY <1>0, <1>2, <1>3, <1>4, NoCallMoves DEF ExecutionInv, LateInv, core

LEMMA AgeStep ==
    ASSUME ExecutionInv, Age
    PROVE  ExecutionInv'
<1>0. /\ UNCHANGED <<rows, core, dep, svc, made, lock, calls, late, quiet, faults>>
      /\ rel.fresh /\ rel' = [rel EXCEPT !.fresh = FALSE]
  BY DEF Age
<1>1. rel \in Release /\ rel # NoRel BY <1>0, NothingThere DEF ExecutionInv, ClusterInv
<1>2. rel' \in Release /\ rel'.status = rel.status /\ rel'.marks = rel.marks BY <1>0, <1>1 DEF Release
<1>3. Keeps /\ StateTypes' /\ CommandInv' /\ Youngest' = Youngest
  BY <1>0, SameRecords DEF ExecutionInv, StateTypes, core
<1>4. ClusterInv' BY <1>0, <1>1, <1>2, <1>3 DEF ExecutionInv, ClusterInv, core
<1>5. ASSUME NEW call \in Call, NEW at \in Labels, Given(call.op), Seen(call, at) PROVE Seen(call, at)'
  <2>1. cmd'[call.op] = cmd[call.op] /\ Action(call.op)' = Action(call.op) /\ chart' = chart /\ dep' = dep /\ svc' = svc
    BY <1>0, <1>3, <1>5, GivenKept DEF core
  <2>2. OwnDeployment(call.op) => OwnDeployment(call.op)' BY <2>1 DEF OwnDeployment, Bound, Owned
  <2>3. OwnService(call.op) => OwnService(call.op)' BY <2>1 DEF OwnService, Owned
  <2>4. Done(call.op) => Done(call.op)'
    BY <1>1, <1>2, <1>5, <2>1, GivenFacts DEF Done, Bound, Owned, Actions
  <2>5. Lasting(call.op) => Lasting(call.op)' BY <2>1, <2>4 DEF Lasting
  <2> QED BY <1>1, <1>2, <1>5, <2>1, <2>2, <2>3, <2>5 DEF Seen
<1> QED BY <1>0, <1>3, <1>4, <1>5, NoCallMoves DEF ExecutionInv, LateInv, core

LEMMA MeddleStep ==
    ASSUME ExecutionInv, Meddle
    PROVE  ExecutionInv'
<1>0. /\ dep # NoDep /\ quiet' = FALSE /\ UNCHANGED <<rows, core, svc, made, rel, lock, calls, late>>
      /\ \/ dep' = [dep EXCEPT !.doomed = TRUE] \/ dep' = [dep EXCEPT !.marks.inst = None]
         \/ dep' = [dep EXCEPT !.status = "moving"]
      /\ faults' \in 0..MaxFaults /\ faults' >= faults
  BY MoreFaults DEF Meddle
<1>1. dep \in Deployment /\ dep.marks \in Marks BY <1>0, DeploymentFacts DEF ExecutionInv, ClusterInv
<1>2. dep' \in Deployment /\ dep'.marks.hash = dep.marks.hash
  <2>1. CASE dep' = [dep EXCEPT !.doomed = TRUE] BY <1>1, <2>1 DEF Deployment
  <2>2. CASE dep' = [dep EXCEPT !.marks.inst = None]
    <3>1. [dep.marks EXCEPT !.inst = None] \in Marks /\ [dep.marks EXCEPT !.inst = None].hash = dep.marks.hash
      BY <1>1 DEF Marks
    <3>2. dep' = [dep EXCEPT !.marks = [dep.marks EXCEPT !.inst = None]] BY <1>1, <2>2 DEF Deployment
    <3> QED BY <1>1, <3>1, <3>2 DEF Deployment
  <2>3. CASE dep' = [dep EXCEPT !.status = "moving"] BY <1>1, <2>3 DEF Deployment
  <2> QED BY <1>0, <2>1, <2>2, <2>3
<1>3. Keeps /\ StateTypes' /\ CommandInv' /\ Youngest' = Youngest
  BY <1>0, SameRecords DEF ExecutionInv, StateTypes, core
<1>4. ClusterInv' BY <1>0, <1>2, <1>3 DEF ExecutionInv, ClusterInv, core, Objects
<1> QED BY <1>0, <1>3, <1>4, NoCallMoves DEF ExecutionInv, LateInv, core

LEMMA RedeployStep ==
    ASSUME ExecutionInv, Redeploy
    PROVE  ExecutionInv'
<1>0. /\ registered' = registered + 1 /\ lock' = None /\ late' \subseteq late
      /\ pc' = [c \in Callers |-> "idle"] /\ loc' = [c \in Callers |-> NoCall]
      /\ UNCHANGED <<rows, cmd, transition, chart, cluster, quiet>>
      /\ faults' \in 0..MaxFaults /\ faults' = faults + 1
  BY MoreFaults DEF Redeploy
<1>t. StateTypes BY DEF ExecutionInv
<1>1. Keeps BY <1>0 DEF Keeps
<1>2. StateTypes' BY <1>0, <1>t, NoCallType, Label DEF StateTypes
<1>3. Youngest' = Youngest + 1 /\ Youngest \in Nat
  <2>1. Recorded' = Recorded BY <1>0 DEF Recorded
  <2> QED BY <1>0, <1>t, <2>1, Room DEF Youngest, StateTypes
<1>4. CommandInv'
  <2>1. \A o \in Ops : Given(o) => Given(o)' /\ cmd[o].marks.hash \in Nat BY <1>1, GivenKept, GivenFacts, MarksFacts
  <2> QED BY <1>0, <1>3, <2>1 DEF ExecutionInv, CommandInv
<1>5. ClusterInv'
  <2>1. dep # NoDep => dep.marks.hash \in Nat BY DeploymentFacts, MarksFacts DEF ExecutionInv, ClusterInv
  <2> QED BY <1>0, <1>3, <2>1 DEF ExecutionInv, ClusterInv, cluster
<1>6. CallsInv' BY <1>0 DEF CallsInv, CallInv
<1>7. LateInv'
  <2>1. \A r \in late : RequestInv(r)' BY <1>1, RequestKept DEF ExecutionInv, LateInv
  <2> QED BY <1>0, <2>1 DEF LateInv
<1>8. LockInv' BY <1>0, Constants DEF ExecutionInv, LockInv, Running
<1>9. HolderInv' BY <1>0, Constants DEF HolderInv
<1> QED BY <1>2, <1>4, <1>5, <1>6, <1>7, <1>8, <1>9 DEF ExecutionInv

--------------------------------------------------------------------------------
(* Steps that write to the cluster                                          *)

LEMMA CommandMarks ==
    ASSUME ExecutionInv, NEW o, Given(o)
    PROVE  cmd[o].marks \in Marks /\ cmd[o].marks.hash <= Youngest
  BY GivenFacts DEF ExecutionInv, CommandInv

LEMMA WantedType ==
    ASSUME NEW o \in Ops, NEW d \in Deployment
    PROVE  /\ Wanted(o, d) \in Deployment /\ Wanted(o, d).marks = d.marks /\ Wanted(o, d).uid = d.uid
           /\ Wanted(o, d).op = d.op /\ Wanted(o, d).doomed = d.doomed
<1>1. CASE Action(o) = "stop"
  <2>1. Wanted(o, d) = [d EXCEPT !.up = FALSE, !.status = "moving"] BY <1>1 DEF Wanted
  <2> QED BY <2>1 DEF Deployment
<1>2. CASE Action(o) = "restart"
  <2>1. Wanted(o, d) = [d EXCEPT !.up = TRUE, !.restart = o, !.status = "moving"] BY <1>2 DEF Wanted
  <2> QED BY <2>1 DEF Deployment
<1>3. CASE Action(o) \notin {"stop", "restart"}
  <2>1. Wanted(o, d) = [d EXCEPT !.up = TRUE, !.status = "moving"] BY <1>3 DEF Wanted
  <2> QED BY <2>1 DEF Deployment
<1> QED BY <1>1, <1>2, <1>3

\* What an accepted request makes of the cluster.
LEMMA Applied ==
    ASSUME ExecutionInv, NEW kind \in Writes, NEW o, NEW live, Given(o), Accepted(kind, live),
           kind = "update" => live # NoDep, Apply(kind, o, live), UNCHANGED core
    PROVE  /\ ClusterInv' /\ rel' = rel
           /\ kind \in {"create_svc", "delete_svc"} => dep' = dep
           /\ kind = "create_svc" => svc' = [NoSvc EXCEPT !.marks = cmd[o].marks, !.op = o]
           /\ kind = "delete_svc" => svc # NoSvc /\ svc' = [svc EXCEPT !.doomed = TRUE]
<1>0. ClusterInv /\ Youngest' = Youngest /\ chart' = chart /\ rel' = rel
  BY DEF ExecutionInv, Youngest, Recorded, core, Apply
<1>m. cmd[o].marks \in Marks /\ cmd[o].marks.hash <= Youngest /\ o \in Ops BY CommandMarks, GivenFacts
<1>1. CASE kind = "create"
  <2>1. /\ made < MaxUid /\ made' = made + 1 /\ svc' = svc
        /\ dep' = [NoDep EXCEPT !.uid = made + 1, !.marks = cmd[o].marks, !.op = o, !.up = TRUE, !.status = "moving"]
    BY <1>1 DEF Apply
  <2>2. made + 1 \in 1..MaxUid BY <1>0, <2>1, Constants DEF ClusterInv
  <2>3. dep' \in Deployment /\ dep'.marks = cmd[o].marks BY <1>m, <2>1, <2>2 DEF NoDep, Deployment
  <2>4. ClusterInv' BY <1>0, <1>m, <2>1, <2>2, <2>3 DEF ClusterInv, Objects
  <2> QED BY <1>0, <1>1, <2>4
<1>2. CASE kind = "update"
  <2>1. dep # NoDep /\ dep' = Wanted(o, dep) /\ svc' = svc /\ made' = made BY <1>2 DEF Apply, Accepted
  <2>2. dep \in Deployment BY <1>0, <2>1 DEF ClusterInv, Objects
  <2>3. ClusterInv' BY <1>0, <1>m, <2>1, <2>2, WantedType DEF ClusterInv, Objects
  <2> QED BY <1>0, <1>2, <2>3
<1>3. CASE kind = "delete"
  <2>1. dep # NoDep /\ dep' = [dep EXCEPT !.doomed = TRUE] /\ svc' = svc /\ made' = made
    BY <1>3 DEF Apply, Accepted
  <2>2. dep \in Deployment BY <1>0, <2>1 DEF ClusterInv, Objects
  <2>3. dep' \in Deployment /\ dep'.marks = dep.marks BY <2>1, <2>2 DEF Deployment
  <2>4. ClusterInv' BY <1>0, <2>1, <2>3 DEF ClusterInv, Objects
  <2> QED BY <1>0, <1>3, <2>4
<1>4. CASE kind = "create_svc"
  <2>1. dep' = dep /\ made' = made /\ svc' = [NoSvc EXCEPT !.marks = cmd[o].marks, !.op = o] BY <1>4 DEF Apply
  <2>2. svc' \in Service BY <1>m, <2>1 DEF NoSvc, Service
  <2>3. ClusterInv' BY <1>0, <2>1, <2>2 DEF ClusterInv
  <2> QED BY <1>0, <1>4, <2>1, <2>3
<1>5. CASE kind = "delete_svc"
  <2>1. dep' = dep /\ made' = made /\ svc # NoSvc /\ svc' = [svc EXCEPT !.doomed = TRUE] BY <1>5 DEF Apply, Accepted
  <2>2. svc' \in Service BY <1>0, <2>1 DEF ClusterInv, Service
  <2>3. ClusterInv' BY <1>0, <2>1, <2>2 DEF ClusterInv
  <2> QED BY <1>0, <1>5, <2>1, <2>3
<1> QED BY <1>1, <1>2, <1>3, <1>4, <1>5 DEF Writes

LEMMA CreationType == ASSUME NEW o \in Ops, NEW live \in Objects PROVE Creation(o, live) \in Ops
  BY DeploymentFacts DEF Creation

LEMMA RecordType ==
    ASSUME ExecutionInv, NEW o, Given(o), NEW live \in Objects, NEW fresh \in BOOLEAN,
           NEW status \in {"pending", "deployed", "failed"}, Record(status, o, live, fresh)
    PROVE  rel' \in Release
<1>1. Creation(o, live) \in Ops /\ cmd[o].marks \in Marks BY CreationType, GivenFacts
<1> QED BY <1>1 DEF Record, Release

LEMMA RenderedType ==
    ASSUME NEW o \in Ops, cmd[o].marks \in Marks, NEW live \in Objects, NEW d, NEW uid \in 1..MaxUid,
           d \in Deployment \/ d = [NoDep EXCEPT !.uid = uid]
    PROVE  Rendered(o, live, d) \in Deployment /\ Rendered(o, live, d).marks = cmd[o].marks
<1>1. Creation(o, live) \in Ops BY CreationType
<1>2. CASE d \in Deployment BY <1>1, <1>2 DEF Rendered, Deployment
<1>3. CASE d = [NoDep EXCEPT !.uid = uid] BY <1>1, <1>3 DEF Rendered, Deployment, NoDep
<1> QED BY <1>2, <1>3

\* What a step of Helm makes of the cluster.
LEMMA HelmApplied ==
    ASSUME ExecutionInv, NEW step \in HelmSteps, NEW o, Given(o), NEW live \in Objects, chart, UNCHANGED core,
           HelmDoes(step, o, live), step = "u_record" => rel # NoRel
    PROVE  /\ ClusterInv'
           /\ step \notin {"e_dep", "u_dep"} => dep' = dep
           /\ step \notin {"e_svc", "u_svc"} => svc' = svc
           /\ step = "u_svc" => svc' = NoSvc
           /\ step = "e_svc" => svc'.marks = cmd[o].marks /\ svc'.doomed = svc.doomed
<1>0. ClusterInv /\ Youngest' = Youngest /\ chart' = chart
  BY DEF ExecutionInv, Youngest, Recorded, core
<1>m. cmd[o].marks \in Marks /\ cmd[o].marks.hash <= Youngest /\ o \in Ops BY CommandMarks, GivenFacts
<1>s. step \in {"i_record", "e_record", "e_svc", "e_dep", "e_done", "u_record", "u_svc", "u_dep", "u_done"}
  BY DEF HelmSteps, HelmNext
<1>1. rel' \in Release \cup {NoRel}
  <2>1. CASE step \in {"i_record", "e_record"}
    <3>1. Record("pending", o, live, TRUE) BY <2>1 DEF HelmDoes
    <3> QED BY <3>1, RecordType
  <2>2. CASE step = "e_done" /\ rel.marks = cmd[o].marks
    <3>1. Record("deployed", o, live, FALSE) BY <2>2 DEF HelmDoes
    <3> QED BY <3>1, RecordType
  <2>3. CASE step = "u_record"
    <3>1. rel' = [rel EXCEPT !.status = "uninstalling", !.fresh = TRUE] BY <2>3 DEF HelmDoes
    <3> QED BY <1>0, <2>3, <3>1 DEF ClusterInv, Release
  <2>4. CASE step = "u_done"
    <3>1. rel' = NoRel BY <2>4 DEF HelmDoes
    <3> QED BY <3>1
  <2>5. CASE step \notin {"i_record", "e_record", "u_record", "u_done"} /\ ~(step = "e_done" /\ rel.marks = cmd[o].marks)
    <3>1. rel' = rel BY <2>5 DEF HelmDoes
    <3> QED BY <1>0, <3>1 DEF ClusterInv
  <2> QED BY <2>1, <2>2, <2>3, <2>4, <2>5
<1>2. /\ svc' \in Service \cup {NoSvc} /\ (step \notin {"e_svc", "u_svc"} => svc' = svc) /\ (step = "u_svc" => svc' = NoSvc)
      /\ step = "e_svc" => svc'.marks = cmd[o].marks /\ svc'.doomed = svc.doomed
  <2>1. CASE step = "e_svc"
    <3>1. svc' = [svc EXCEPT !.marks = cmd[o].marks, !.op = Creation(o, live)] BY <2>1 DEF HelmDoes
    <3>2. Creation(o, live) \in Ops BY <1>m, CreationType
    <3>3. CASE svc \in Service BY <1>m, <2>1, <3>1, <3>2, <3>3 DEF Service
    <3>4. CASE svc = NoSvc BY <1>m, <2>1, <3>1, <3>2, <3>4 DEF Service, NoSvc
    <3> QED BY <1>0, <3>3, <3>4 DEF ClusterInv
  <2>2. CASE step = "u_svc" BY <2>2 DEF HelmDoes
  <2>3. CASE step \notin {"e_svc", "u_svc"} BY <1>0, <2>3 DEF HelmDoes, ClusterInv
  <2> QED BY <2>1, <2>2, <2>3
<1>3. /\ dep' \in Objects /\ made' \in 0..MaxUid /\ (dep' # NoDep => dep'.marks.hash <= Youngest)
      /\ step \notin {"e_dep", "u_dep"} => dep' = dep
  <2>1. CASE step = "e_dep" /\ dep = NoDep
    <3>1. made < MaxUid /\ made' = made + 1 /\ dep' = Rendered(o, live, [NoDep EXCEPT !.uid = made + 1])
      BY <2>1 DEF HelmDoes
    <3>2. made + 1 \in 1..MaxUid BY <1>0, <3>1, Constants DEF ClusterInv
    <3>3. dep' \in Deployment /\ dep'.marks = cmd[o].marks BY <1>m, <3>1, <3>2, RenderedType
    <3> QED BY <1>m, <2>1, <3>1, <3>2, <3>3 DEF Objects
  <2>2. CASE step = "e_dep" /\ dep # NoDep
    <3>1. made' = made /\ dep' = Rendered(o, live, dep) BY <2>2 DEF HelmDoes
    <3>2. dep \in Deployment /\ 1 \in 1..MaxUid BY <1>0, <2>2, Constants DEF ClusterInv, Objects
    <3>3. dep' \in Deployment /\ dep'.marks = cmd[o].marks BY <1>m, <3>1, <3>2, RenderedType
    <3> QED BY <1>0, <1>m, <2>2, <3>1, <3>3 DEF Objects, ClusterInv
  <2>3. CASE step = "u_dep"
    <3>1. made' = made /\ dep' = NoDep BY <2>3 DEF HelmDoes
    <3> QED BY <1>0, <2>3, <3>1 DEF Objects, ClusterInv
  <2>4. CASE step \notin {"e_dep", "u_dep"}
    <3>1. made' = made /\ dep' = dep BY <2>4 DEF HelmDoes
    <3> QED BY <1>0, <3>1 DEF ClusterInv
  <2> QED BY <2>1, <2>2, <2>3, <2>4
<1> QED BY <1>0, <1>1, <1>2, <1>3 DEF ClusterInv

LEMMA SendStep ==
    ASSUME ExecutionInv, NEW c \in Callers, Send(c)
    PROVE  ExecutionInv'
<1>p. PICK o, live : o = loc[c].op /\ live = loc[c].live OBVIOUS
<1> USE <1>p
<1> DEFINE ok == Accepted(pc[c], live)
<1>0. /\ pc[c] \in Writes /\ quiet' = (quiet /\ lock = c) /\ UNCHANGED <<rows, core, late, faults>>
      /\ IF ok THEN Apply(pc[c], o, live) ELSE UNCHANGED cluster
  BY DEF Send, Connected
<1>a. pc[c] \in KubeLabels /\ "doom" \in KubeLabels BY <1>0 DEF KubeLabels, Writes
<1>k. /\ Given(o) /\ ~loc[c].new /\ pc[c] # "idle" /\ loc[c].result = "running" /\ live \in Objects
      /\ chart => Action(o) \in {"start", "stop", "restart"}
      /\ lock = c /\ quiet => OwnDeployment(o) /\ OwnService(o)
  BY <1>a, AtKube
<1>c. CallInv(loc[c], pc[c]) /\ (lock = c /\ quiet => Seen(loc[c], pc[c])) /\ loc[c] \in Call BY CallOf
<1>u. pc[c] = "update" => live # NoDep BY <1>c DEF CallInv
<1>i. Keeps /\ cmd'[o] = cmd[o] /\ Action(o)' = Action(o) /\ chart' = chart
  <2>1. Keeps BY <1>0 DEF Keeps, core
  <2> QED BY <1>0, <1>k, <2>1, GivenKept DEF core
<1>1. ClusterInv'
  <2>1. CASE ok BY <1>0, <1>k, <1>u, <2>1, Applied
  <2>2. CASE ~ok BY <1>0, <2>2, SameClusterInv
  <2> QED BY <2>1, <2>2
<1>q. quiet \in BOOLEAN BY DEF ExecutionInv, StateTypes
<1>2. Aside BY <1>0, <1>1, <1>q DEF Aside, ExecutionInv, StateTypes, LateInv
<1>3. ASSUME UNCHANGED lock, NEW r \in Results, Result(c, r), lock = c /\ quiet /\ r = "succeeded" => Lasting(o)'
      PROVE  ExecutionInv'
  <2>1. PICK call \in Call : call = [loc[c] EXCEPT !.result = r] BY <1>c, <1>3 DEF Call
  <2>2. call.op = o /\ call.new = loc[c].new /\ call.result = r BY <1>c, <2>1 DEF Call
  <2>3. CallInv(call, "finish") BY <1>k, <2>2 DEF CallInv, KubeLabels, ChartLabels, UninstallLabels
  <2>4. Goto(c, "finish", call) BY <1>3, <2>1 DEF Result
  <2>5. lock = c /\ quiet => Seen(call, "finish")'
    BY <1>3, <2>2 DEF Seen, Held, KubeLabels, ChartLabels, UninstallLabels
  <2>6. "finish" \in Labels BY Label
  <2> QED BY <1>0, <1>2, <1>k, <1>3, <2>2, <2>3, <2>4, <2>5, <2>6, GoesOn
<1>4. CASE pc[c] = "create_svc"
  <2>1. Result(c, IF ok THEN Verdict(live) ELSE "running") /\ UNCHANGED lock BY <1>4 DEF Send
  <2>2. CASE ~ok BY <1>3, <2>1, <2>2 DEF Results
  <2>3. CASE ok
    <3>1. ASSUME live.status = "ready", lock = c, quiet PROVE Lasting(o)'
      <4>1. Action(o) \in {"install", "start"} /\ live.up /\ (dep = live \/ Action(o) = "delete")
        BY <1>c, <1>4, <3>1 DEF CallInv, Seen
      <4>2. dep = live /\ dep.up /\ dep.status = "ready" /\ dep # NoDep BY <3>1, <4>1, NothingThere
      <4>3. dep' = dep /\ svc' = [NoSvc EXCEPT !.marks = cmd[o].marks, !.op = o]
        BY <1>0, <1>k, <1>4, <2>3, Applied
      <4>4. svc'.marks = cmd[o].marks /\ ~svc'.doomed /\ svc'.op = o BY <4>3 DEF NoSvc
      <4>5. svc' # NoSvc BY <1>k, <4>4, GivenFacts, NothingThere
      <4>6. Bound(o) /\ Owned(o, dep.marks) /\ ~dep.doomed BY <1>k, <3>1, <4>1, <4>2 DEF OwnDeployment
      <4>7. Bound(o)' /\ ~dep'.doomed BY <1>i, <4>3, <4>6 DEF Bound
      <4>8. Owned(o, svc.marks)' BY <1>i, <4>4 DEF Owned
      <4>9. CASE Action(o) = "install"
        <5>1. ~chart BY <1>k, <4>9
        <5>2. dep.marks \in Marks /\ cmd[o].marks \in Marks
          BY <1>k, <4>2, DeploymentFacts, GivenFacts DEF ExecutionInv, ClusterInv
        <5>3. dep.marks = cmd[o].marks BY <4>6, <5>1, <5>2 DEF Owned, Marks
        <5>4. Done(o)' BY <1>i, <4>2, <4>3, <4>4, <4>7, <4>9, <5>1, <5>3 DEF Done
        <5> QED BY <4>4, <4>7, <5>4 DEF Lasting
      <4>10. CASE Action(o) = "start"
        <5>1. Done(o)' BY <1>i, <4>2, <4>3, <4>5, <4>7, <4>8, <4>10 DEF Done
        <5> QED BY <4>4, <4>7, <5>1 DEF Lasting
      <4> QED BY <4>1, <4>9, <4>10
    <3> QED BY <1>3, <2>1, <2>3, <3>1, VerdictFacts
  <2> QED BY <2>2, <2>3
<1>5. CASE pc[c] = "delete_svc"
  <2>1. Jump(c, "doom") /\ UNCHANGED lock BY <1>5 DEF Send
  <2>2. Action(o) = "delete" /\ ~loc[c].gone BY <1>c, <1>5 DEF CallInv
  <2>3. PICK call \in Call : call = loc[c] BY <1>c
  <2>4. CallInv(call, "doom") BY <1>k, <2>2, <2>3 DEF CallInv, KubeLabels, ChartLabels, UninstallLabels
  <2>5. ASSUME lock = c, quiet PROVE Seen(call, "doom")'
    <3>1. /\ dep' = dep
          /\ svc' = svc \/ (svc # NoSvc /\ svc \in Service /\ svc' = [svc EXCEPT !.doomed = TRUE])
      <4>1. CASE ok BY <1>0, <1>k, <1>5, <4>1, Applied DEF ExecutionInv, ClusterInv
      <4>2. CASE ~ok BY <1>0, <4>2 DEF cluster
      <4> QED BY <4>1, <4>2
    <3>2. OwnDeployment(o)' BY <1>i, <1>k, <2>5, <3>1 DEF OwnDeployment, Bound, Owned
    <3>3. OwnService(o)'
      <4>1. CASE svc' = svc BY <1>i, <1>k, <2>5, <4>1 DEF OwnService, Owned
      <4>2. CASE svc # NoSvc /\ svc \in Service /\ svc' = [svc EXCEPT !.doomed = TRUE]
        <5>1. svc'.marks = svc.marks BY <4>2 DEF Service
        <5> QED BY <1>i, <1>k, <2>2, <2>5, <4>2, <5>1 DEF OwnService, Owned
      <4> QED BY <3>1, <4>1, <4>2
    <3>4. loc[c].live = NoDep => dep = NoDep BY <1>c, <1>5, <2>5 DEF Seen
    <3> QED BY <2>2, <2>3, <3>1, <3>2, <3>3, <3>4 DEF Seen
  <2>6. Goto(c, "doom", call) /\ "doom" \in Labels \ {"idle"} BY <1>a, <2>1, <2>3, Label DEF Jump
  <2> QED BY <1>0, <1>2, <1>k, <2>1, <2>3, <2>4, <2>5, <2>6, GoesOn
<1>6. CASE pc[c] = "update" /\ ~ok
  <2>1. End(c) /\ UNCHANGED cluster BY <1>0, <1>6 DEF Send
  <2>2. \A p, q \in Running' : p = q BY <1>0 DEF ExecutionInv, LockInv, Running
  <2> QED BY <1>0, <1>2, <2>1, <2>2, Ends DEF Aside, ExecutionInv, StateTypes, CommandInv
<1>7. CASE pc[c] \notin {"create_svc", "delete_svc"} /\ ~(pc[c] = "update" /\ ~ok)
  <2>1. Result(c, "running") /\ UNCHANGED lock BY <1>7 DEF Send
  <2> QED BY <1>3, <2>1 DEF Results
<1> QED BY <1>4, <1>5, <1>6, <1>7

LEMMA HelmStep ==
    ASSUME ExecutionInv, NEW c \in Callers, Helm(c)
    PROVE  ExecutionInv'
<1>p. PICK o : o = loc[c].op OBVIOUS
<1> USE <1>p
<1>0. pc[c] \in HelmSteps /\ UNCHANGED <<rows, core, lock, late, faults>> BY DEF Helm
<1>a. /\ pc[c] \in ChartLabels \cup UninstallLabels
      /\ pc[c] \in {"i_record", "e_record", "e_svc", "e_dep", "e_done", "u_record", "u_svc", "u_dep", "u_done"}
      /\ pc[c] \in ChartLabels <=> pc[c] \in {"i_record", "e_record", "e_svc", "e_dep", "e_done"}
      /\ pc[c] \in UninstallLabels <=> pc[c] \in {"u_record", "u_svc", "u_dep", "u_done"}
  BY <1>0 DEF HelmSteps, HelmNext, ChartLabels, UninstallLabels
<1>k. /\ Given(o) /\ ~loc[c].new /\ pc[c] # "idle" /\ chart /\ loc[c].result = "running" /\ loc[c].live \in Objects
      /\ pc[c] \in ChartLabels => Action(o) \in {"install", "upgrade"}
      /\ pc[c] \in UninstallLabels => Action(o) = "delete"
      /\ lock = c /\ quiet /\ pc[c] \notin {"e_done", "u_done"} => OwnDeployment(o) /\ OwnService(o)
  BY <1>a, AtChart, CallOf, CallFacts
<1>1. CASE HelmRefuses(pc[c])
  <2>1. Result(c, "failed") /\ UNCHANGED <<cluster, quiet>> BY <1>1 DEF Helm
  <2>2. Sound(c) BY <1>0, <1>k, <2>1, Fails
  <2>3. UNCHANGED <<rows, core, cluster, late, quiet>> BY <1>0, <2>1
  <2>4. faults' \in 0..MaxFaults /\ faults' >= faults BY <1>0 DEF ExecutionInv, StateTypes
  <2> QED BY <1>k, <2>2, <2>3, <2>4, ReadStep
<1>2. CASE ~HelmRefuses(pc[c])
  <2>a. PICK at : at = HelmNext[pc[c]] OBVIOUS
  <2>1. HelmDoes(pc[c], o, loc[c].live) /\ quiet' = (quiet /\ lock = c) /\ Jump(c, at) BY <1>2, <2>a DEF Helm, Connected
  <2>2. pc[c] = "u_record" => rel # NoRel BY <1>2 DEF HelmRefuses
  <2>3. /\ ClusterInv'
        /\ pc[c] \notin {"e_dep", "u_dep"} => dep' = dep
        /\ pc[c] \notin {"e_svc", "u_svc"} => svc' = svc
        /\ pc[c] = "u_svc" => svc' = NoSvc
        /\ pc[c] = "e_svc" => svc'.marks = cmd[o].marks /\ svc'.doomed = svc.doomed
    BY <1>0, <1>k, <2>1, <2>2, HelmApplied
  <2>4. Aside BY <1>0, <2>1, <2>3 DEF Aside, ExecutionInv, StateTypes, LateInv
  <2>5. /\ pc[c] \in {"i_record", "e_record"} => at = "e_svc"
        /\ pc[c] = "e_svc" => at = "e_dep"
        /\ pc[c] = "e_dep" => at = "e_done"
        /\ pc[c] = "u_record" => at = "u_svc"
        /\ pc[c] = "u_svc" => at = "u_dep"
        /\ pc[c] = "u_dep" => at = "u_done"
        /\ pc[c] \in {"e_done", "u_done"} => at = "finish"
    BY <2>a DEF HelmNext
  <2>6. PICK call \in Call : call = loc[c] BY CallOf
  <2>7. CallInv(call, at)
    <3>1. /\ at \notin KubeLabels /\ at \notin {"idle", "insert", "observe_svc"}
          /\ at \in ChartLabels => pc[c] \in ChartLabels
          /\ at \in UninstallLabels => pc[c] \in UninstallLabels
      BY <1>a, <2>5 DEF KubeLabels, ChartLabels, UninstallLabels
    <3> QED BY <1>k, <2>6, <3>1 DEF CallInv, KubeLabels
  <2>8. ASSUME lock = c, quiet PROVE Seen(call, at)'
    <3>i. cmd'[o] = cmd[o] /\ Action(o)' = Action(o) /\ chart' = chart BY <1>0 DEF core, Action
    <3>1. CASE at \in {"e_svc", "u_svc"}
      <4>1. dep' = dep /\ svc' = svc /\ OwnDeployment(o) /\ OwnService(o) BY <1>a, <1>k, <2>3, <2>5, <2>8, <3>1
      <4>2. OwnDeployment(o)' /\ OwnService(o)' BY <3>i, <4>1 DEF OwnDeployment, OwnService, Bound, Owned
      <4> QED BY <2>6, <3>1, <4>2 DEF Seen
    <3>2. CASE at = "e_dep"
      <4>1. pc[c] = "e_svc" BY <1>a, <2>5, <3>2
      <4>2. /\ dep' = dep /\ svc'.marks = cmd[o].marks /\ svc'.doomed = svc.doomed
            /\ OwnDeployment(o) /\ OwnService(o)
        BY <1>k, <2>3, <2>8, <4>1
      <4>3. OwnDeployment(o)' BY <3>i, <4>2 DEF OwnDeployment, Bound, Owned
      <4>4. OwnService(o)' BY <3>i, <4>2, NothingThere DEF OwnService, Owned
      <4> QED BY <2>6, <3>2, <4>3, <4>4 DEF Seen
    <3>3. CASE at = "u_dep"
      <4>1. pc[c] = "u_svc" BY <1>a, <2>5, <3>3
      <4>2. dep' = dep /\ svc' = NoSvc /\ OwnDeployment(o) BY <1>k, <2>3, <2>8, <4>1
      <4>3. OwnDeployment(o)' BY <3>i, <4>2 DEF OwnDeployment, Bound, Owned
      <4>4. OwnService(o)' BY <4>2 DEF OwnService
      <4> QED BY <2>6, <3>3, <4>3, <4>4 DEF Seen
    <3>4. CASE at \in {"e_done", "u_done", "finish"}
      BY <1>k, <2>6, <3>4 DEF Seen, Held, KubeLabels, ChartLabels, UninstallLabels
    <3> QED BY <1>a, <2>5, <3>1, <3>2, <3>3, <3>4
  <2>9. at \in Labels \ {"idle"} BY <1>a, <2>5, Label DEF ChartLabels, UninstallLabels
  <2>10. Goto(c, at, call) BY <2>1, <2>6 DEF Jump
  <2> QED BY <1>0, <1>k, <2>1, <2>4, <2>6, <2>7, <2>8, <2>9, <2>10, GoesOn
<1> QED BY <1>1, <1>2

LEMMA HelmFailsStep ==
    ASSUME ExecutionInv, NEW c \in Callers, HelmFails(c)
    PROVE  ExecutionInv'
<1>0. /\ pc[c] \in {"e_svc", "e_dep"} /\ Fault("chart") /\ quiet' = (quiet /\ lock = c)
      /\ Record("failed", loc[c].op, loc[c].live, FALSE) /\ Result(c, "failed")
      /\ UNCHANGED <<rows, core, dep, svc, made, lock, late>>
  BY DEF HelmFails, Connected
<1>a. pc[c] \in ChartLabels \cup UninstallLabels BY <1>0 DEF ChartLabels
<1>k. Given(loc[c].op) /\ ~loc[c].new /\ pc[c] # "idle" /\ chart /\ loc[c].live \in Objects /\ loc[c] \in Call
  BY <1>a, AtChart, CallOf, CallFacts
<1>1. rel' \in Release BY <1>0, <1>k, RecordType
<1>2. ClusterInv'
  <2>1. Youngest' = Youngest BY <1>0 DEF Youngest, Recorded, core
  <2> QED BY <1>0, <1>1, <1>k, <2>1 DEF ExecutionInv, ClusterInv, core
<1>3. Aside BY <1>0, <1>2, MoreFaults DEF Aside, ExecutionInv, StateTypes, LateInv
<1>4. PICK call \in Call : call = [loc[c] EXCEPT !.result = "failed"] BY <1>k DEF Call, Results
<1>5. call.op = loc[c].op /\ call.new = loc[c].new /\ call.result = "failed" BY <1>4, <1>k DEF Call
<1>6. CallInv(call, "finish") BY <1>k, <1>5 DEF CallInv, KubeLabels, ChartLabels, UninstallLabels
<1>7. Seen(call, "finish")' BY <1>5 DEF Seen, Held, KubeLabels, ChartLabels, UninstallLabels
<1>8. Goto(c, "finish", call) /\ "finish" \in Labels BY <1>0, <1>4, Label DEF Result
<1> QED BY <1>0, <1>3, <1>k, <1>5, <1>6, <1>7, <1>8, GoesOn

LEMMA InterruptStep ==
    ASSUME ExecutionInv, NEW c \in Callers, Interrupt(c)
    PROVE  ExecutionInv'
<1> DEFINE request == [kind |-> pc[c], op |-> loc[c].op, live |-> loc[c].live]
<1>0. /\ Fault("interrupt") /\ pc[c] # "idle" /\ End(c) /\ UNCHANGED <<rows, core, dep, svc, made>>
      /\ \/ UNCHANGED <<late, rel, quiet>>
         \/ pc[c] \in Writes /\ late' = late \cup {request} /\ UNCHANGED <<rel, quiet>>
         \/ /\ pc[c] \in {"e_svc", "e_dep", "e_done"} /\ late' = late \cup {request}
            /\ Record("failed", loc[c].op, loc[c].live, FALSE) /\ quiet' = (quiet /\ lock = c)
  BY DEF Interrupt, Connected
<1>k. Given(loc[c].op) /\ loc[c].live \in Objects /\ CallInv(loc[c], pc[c])
  BY <1>0, CallOf, CallFacts DEF CallInv
<1>c. pc[c] \in {"e_svc", "e_dep", "e_done"} => chart BY <1>k DEF CallInv, ChartLabels
<1>1. ClusterInv'
  <2>1. Youngest' = Youngest /\ chart' = chart BY <1>0 DEF Youngest, Recorded, core
  <2>2. CASE rel' = rel BY <1>0, <2>1, <2>2 DEF ExecutionInv, ClusterInv
  <2>3. CASE pc[c] \in {"e_svc", "e_dep", "e_done"} /\ Record("failed", loc[c].op, loc[c].live, FALSE)
    <3>1. rel' \in Release BY <1>k, <2>3, RecordType
    <3> QED BY <1>0, <1>c, <2>1, <2>3, <3>1 DEF ExecutionInv, ClusterInv
  <2> QED BY <1>0, <2>2, <2>3
<1>2. pc[c] \in Abandoned => request \in LateRequest /\ RequestInv(request)
  <2>1. request.kind = pc[c] /\ request.op = loc[c].op /\ request.live = loc[c].live OBVIOUS
  <2>2. pc[c] = "update" => loc[c].live # NoDep /\ BoundTo(loc[c].op, loc[c].live) BY <1>k DEF CallInv
  <2>3. loc[c].op \in Ops BY <1>k, GivenFacts
  <2> QED BY <1>c, <1>k, <2>1, <2>2, <2>3 DEF LateRequest, RequestInv, Abandoned
<1>3. late' \subseteq LateRequest /\ \A r \in late' : RequestInv(r)
  <2>1. late \subseteq LateRequest /\ \A r \in late : RequestInv(r) BY DEF ExecutionInv, StateTypes, LateInv
  <2>2. late' = late \/ (pc[c] \in Abandoned /\ late' = late \cup {request}) BY <1>0 DEF Abandoned
  <2> QED BY <1>2, <2>1, <2>2
<1>4. quiet' \in BOOLEAN /\ (quiet' => quiet) /\ (quiet' /\ lock # c => UNCHANGED cluster)
  <2>1. quiet \in BOOLEAN BY DEF ExecutionInv, StateTypes
  <2>2. CASE UNCHANGED <<rel, quiet>> BY <1>0, <2>1, <2>2 DEF cluster
  <2>3. CASE quiet' = (quiet /\ lock = c) BY <2>1, <2>3
  <2> QED BY <1>0, <2>2, <2>3
<1>5. \A o, p \in Running' : o = p BY <1>0 DEF ExecutionInv, LockInv, Running
<1>6. faults' \in 0..MaxFaults /\ faults' >= faults BY <1>0, MoreFaults
<1>7. rows' \in [Ops -> Statuses] /\ \A o \in Ops : rows'[o] # "none" => Given(o)
  BY <1>0 DEF ExecutionInv, StateTypes, CommandInv
<1> QED BY <1>0, <1>1, <1>3, <1>4, <1>5, <1>6, <1>7, Ends

LEMMA LandStep ==
    ASSUME ExecutionInv, NEW r \in late, Land(r)
    PROVE  ExecutionInv'
<1>0. quiet' = FALSE /\ UNCHANGED <<rows, core, lock, calls, faults>> BY DEF Land
<1>1. r \in LateRequest /\ RequestInv(r) /\ Given(r.op) BY DEF ExecutionInv, StateTypes, LateInv, RequestInv
<1>2. r.live \in Objects /\ r.kind \in Abandoned BY <1>1 DEF LateRequest
<1>e. {"e_svc", "e_dep", "e_done"} \subseteq HelmSteps /\ HelmNext["e_svc"] = "e_dep" /\ HelmNext["e_dep"] = "e_done"
  BY DEF HelmSteps, HelmNext
<1>w. "e_svc" \notin Writes /\ "e_dep" \notin Writes /\ "e_done" \notin Writes BY DEF Writes
<1>3. ClusterInv'
  <2>1. CASE UNCHANGED cluster BY <1>0, <2>1, SameClusterInv
  <2>2. CASE r.kind \in Writes /\ Accepted(r.kind, r.live) /\ Apply(r.kind, r.op, r.live)
    <3>1. r.kind = "update" => r.live # NoDep BY <1>1 DEF RequestInv
    <3> QED BY <1>0, <1>1, <2>2, <3>1, Applied
  <2>3. CASE r.kind \in {"e_svc", "e_dep", "e_done"} /\ HelmDoes(r.kind, r.op, r.live)
    <3>1. chart BY <1>1, <1>w, <2>3 DEF RequestInv
    <3> QED BY <1>0, <1>1, <1>2, <1>e, <2>3, <3>1, HelmApplied
  <2> QED BY <2>1, <2>2, <2>3 DEF Land
<1>4. late' \subseteq LateRequest /\ \A q \in late' : RequestInv(q)
  <2>1. late \subseteq LateRequest /\ \A q \in late : RequestInv(q) BY DEF ExecutionInv, StateTypes, LateInv
  <2>2. CASE late' = late \ {r} BY <2>1, <2>2
  <2>3. CASE r.kind \in {"e_svc", "e_dep"} /\ late' = (late \ {r}) \cup {[r EXCEPT !.kind = HelmNext[r.kind]]}
    <3> DEFINE next == [r EXCEPT !.kind = HelmNext[r.kind]]
    <3>1. next \in LateRequest /\ next.op = r.op /\ next.live = r.live /\ next.kind \in {"e_dep", "e_done"}
      BY <1>1, <1>e, <2>3 DEF LateRequest, Abandoned
    <3>2. RequestInv(next) BY <1>1, <1>w, <2>3, <3>1 DEF RequestInv
    <3> QED BY <2>1, <2>3, <3>1, <3>2
  <2> QED BY <2>2, <2>3 DEF Land
<1>5. Keeps /\ StateTypes' /\ CommandInv' /\ Youngest' = Youngest
  <2>1. UNCHANGED <<rows, cmd, registered, chart, calls>> /\ transition' = transition BY <1>0 DEF core
  <2>2. transition' \in BOOLEAN /\ lock' \in Callers \cup {None} BY <1>0, <2>1 DEF ExecutionInv, StateTypes
  <2>3. faults' \in 0..MaxFaults /\ faults' >= faults BY <1>0 DEF ExecutionInv, StateTypes
  <2>4. quiet' \in BOOLEAN BY <1>0
  <2> QED BY <1>4, <2>1, <2>2, <2>3, <2>4, SameRecords
<1> QED BY <1>0, <1>3, <1>4, <1>5, NoCallMoves

--------------------------------------------------------------------------------
(* The invariant                                                            *)

LEMMA InitInv == ASSUME Init PROVE ExecutionInv
<1>0. /\ rows = [o \in Ops |-> "none"] /\ cmd = [o \in Ops |-> NoCmd] /\ registered = 0 /\ chart \in Charts
      /\ transition = FALSE /\ lock = None /\ late = {} /\ quiet = TRUE /\ faults = 0
      /\ pc = [c \in Callers |-> "idle"] /\ loc = [c \in Callers |-> NoCall]
  BY Zenon DEF Init
<1>1. StateTypes
  <2>1. rows \in [Ops -> Statuses] /\ cmd \in [Ops -> Command \cup {NoCmd}] BY <1>0 DEF Statuses
  <2>2. pc \in [Callers -> Labels] /\ loc \in [Callers -> Call] BY <1>0, NoCallType, Label
  <2>3. registered \in Nat /\ registered <= faults /\ faults \in 0..MaxFaults BY <1>0, Constants
  <2> QED BY <1>0, <2>1, <2>2, <2>3 DEF StateTypes
<1>2. CommandInv BY <1>0 DEF CommandInv
<1>3. ClusterInv
  <2>1. SeedMarks \in Marks /\ SeedMarks.hash = 0 BY Constants DEF SeedMarks, Marks
  <2>2. Youngest \in Nat /\ 0 <= Youngest BY <1>0, Room DEF Youngest
  <2>3. CASE dep = NoDep /\ svc = NoSvc /\ made = 0 /\ rel = NoRel BY <2>3, Constants DEF ClusterInv, Objects
  <2>4. ASSUME NEW up \in BOOLEAN, dep = [NoDep EXCEPT !.uid = 1, !.marks = SeedMarks, !.up = up, !.status = "ready"],
               svc = [NoSvc EXCEPT !.marks = SeedMarks], made = 1,
               rel = IF chart THEN [status |-> "deployed", marks |-> SeedMarks, op |-> None, fresh |-> FALSE] ELSE NoRel
        PROVE  ClusterInv
    <3>1. dep \in Deployment /\ dep.marks.hash = 0
      <4>1. dep = [uid |-> 1, marks |-> SeedMarks, op |-> None, up |-> up, restart |-> None,
                   doomed |-> FALSE, status |-> "ready"]
        BY <2>4 DEF NoDep
      <4>2. 1 \in 1..MaxUid BY Constants
      <4> QED BY <2>1, <4>1, <4>2 DEF Deployment
    <3>2. svc \in Service BY <2>1, <2>4 DEF Service, NoSvc
    <3>3. rel \in Release \cup {NoRel} /\ (~chart => rel = NoRel) BY <2>1, <2>4 DEF Release
    <3> QED BY <2>2, <2>4, <3>1, <3>2, <3>3, Constants DEF ClusterInv, Objects
  <2> QED BY <2>3, <2>4, Zenon DEF Init
<1>4. CallsInv /\ LateInv BY <1>0 DEF CallsInv, CallInv, LateInv
<1>5. LockInv /\ HolderInv BY <1>0, Constants DEF LockInv, HolderInv, Running
<1> QED BY <1>1, <1>2, <1>3, <1>4, <1>5 DEF ExecutionInv

LEMMA StutterInv == ASSUME ExecutionInv, UNCHANGED vars PROVE ExecutionInv'
<1>0. UNCHANGED <<rows, cmd, registered, transition, chart, cluster, lock, calls, late, quiet, faults>>
  BY DEF vars, core
<1>1. Keeps /\ StateTypes' /\ CommandInv' /\ Youngest' = Youngest BY <1>0, SameRecords DEF ExecutionInv, StateTypes
<1>2. ClusterInv' BY <1>0, SameClusterInv DEF core
<1>3. ASSUME NEW call \in Call, NEW at \in Labels, Given(call.op), Seen(call, at) PROVE Seen(call, at)'
  BY <1>0, <1>1, <1>3, SeenKept
<1> QED BY <1>0, <1>1, <1>2, <1>3, NoCallMoves DEF ExecutionInv, LateInv

LEMMA ProceedInv == ASSUME ExecutionInv, NEW c \in Callers, Proceed(c) PROVE ExecutionInv'
  BY CheckDeploymentStep, CheckServicesStep, InsertStep, FinishStep, GetStep, GetServiceStep, RecheckStep,
     DoomStep, SendStep, ChartGetStep, EnsureStep, ObserveStep, ObserveServiceStep, UninstallStep, GoneStep, HelmStep
  DEF Proceed

LEMMA CallerInv ==
    ASSUME ExecutionInv, NEW c \in Callers,
           \/ \E o \in Ops : Enter(c, o) \/ Unresolved(c, o)
           \/ Proceed(c) \/ Unprepared(c) \/ HelmFails(c) \/ Timeout(c) \/ Interrupt(c) \/ SessionLoss(c)
    PROVE  ExecutionInv'
  BY EnterStep, UnresolvedStep, ProceedInv, UnpreparedStep, HelmFailsStep, TimeoutStep, InterruptStep, SessionLossStep

\* Every step of Core, of a call, of the cluster and of a late request preserves the invariant.
LEMMA StepInv == ASSUME ExecutionInv, [Next]_vars PROVE ExecutionInv'
<1>1. ASSUME NEW o \in Ops, NEW action \in Actions, InspectBound(o, action) PROVE ExecutionInv' BY <1>1, InspectStep
<1>2. CASE BeginTransition \/ EndTransition BY <1>2, TransitionStep
<1>3. ASSUME NEW c \in Callers,
             \/ \E o \in Ops : Enter(c, o) \/ Unresolved(c, o)
             \/ Proceed(c) \/ Unprepared(c) \/ HelmFails(c) \/ Timeout(c) \/ Interrupt(c) \/ SessionLoss(c)
      PROVE  ExecutionInv'
  BY <1>3, CallerInv
<1>4. ASSUME NEW r \in late, Land(r) PROVE ExecutionInv' BY <1>4, LandStep
<1>5. CASE Settle \/ Collect \/ Age \/ Meddle \/ Redeploy
  BY <1>5, SettleStep, CollectStep, AgeStep, MeddleStep, RedeployStep
<1>6. CASE UNCHANGED vars BY <1>6, StutterInv
<1> QED BY <1>1, <1>2, <1>3, <1>4, <1>5, <1>6 DEF Next

\* ExecutionInv holds in every state of a Runtime that executes operations: what a call knows
\* by where it is, and what the holder of the App's lock may still count on in the cluster
\* while nobody else has changed it (ReconcileBound and every function under it).
THEOREM ExecutionInvariant == Spec => []ExecutionInv
<1>1. Init => ExecutionInv BY InitInv
<1>2. ExecutionInv /\ [Next]_vars => ExecutionInv' BY StepInv
<1> QED BY <1>1, <1>2, PTL DEF Spec

LEMMA InvTypes == ExecutionInv => TypeOK
<1>1. ASSUME ExecutionInv PROVE TypeOK
  <2>1. registered \in 0..MaxFaults
    BY <1>1, Constants DEF ExecutionInv, StateTypes
  <2>2. \A c \in Callers : loc[c].op \in Ops \cup {None} /\ loc[c].live \in Deployment \cup {NoDep}
    BY <1>1, CallOf, CallFacts DEF Objects
  <2> QED BY <1>1, <2>1, <2>2 DEF TypeOK, ExecutionInv, StateTypes, ClusterInv, Objects, Statuses
<1> QED BY <1>1

\* Every row, command, object and call of an execution has its type: in particular hashes
\* and UIDs stay within their bounds, and an update never makes up a Deployment
\* (AppExecution!TypeOK).
THEOREM ExecutionTypes == Spec => []TypeOK
  BY ExecutionInvariant, InvTypes, PTL

--------------------------------------------------------------------------------
(* What is reported is so                                                   *)

LEMMA FinishesDone ==
    ASSUME ExecutionInv, NEW c \in Callers, Finish(c), NEW o \in Ops, rows[o] # "succeeded", rows'[o] = "succeeded", quiet
    PROVE  Done(o)
<1>0. /\ pc[c] = "finish"
      /\ rows' = IF lock = c THEN [rows EXCEPT ![loc[c].op] = loc[c].result] ELSE rows
  BY DEF Finish, Connected
<1>1. rows \in [Ops -> Statuses] BY DEF ExecutionInv, StateTypes
<1>2. lock = c /\ o = loc[c].op /\ loc[c].result = "succeeded" BY <1>0, <1>1
<1> QED BY <1>0, <1>2, CallOf DEF Seen, Lasting

\* Only an Insert and a Finish write a row.
LEMMA RowsWritten ==
    ASSUME Next, rows' # rows
    PROVE  \E c \in Callers : Insert(c) \/ Finish(c)
<1>1. ASSUME NEW c \in Callers, Proceed(c), ~Insert(c), ~Finish(c) PROVE rows' = rows
  BY <1>1 DEF Proceed, CheckDeployment, CheckServices, Get, GetService, Recheck, Doom, Send, ChartGet, Ensure, Observe,
              ObserveService, Uninstall, Gone, Helm
<1>2. ASSUME NEW c \in Callers, NEW o \in Ops, Enter(c, o) \/ Unresolved(c, o) PROVE rows' = rows
  BY <1>2 DEF Enter, Unresolved
<1>3. ASSUME NEW c \in Callers, Unprepared(c) \/ HelmFails(c) \/ Timeout(c) \/ Interrupt(c) \/ SessionLoss(c)
      PROVE  rows' = rows
  BY <1>3 DEF Unprepared, HelmFails, Timeout, Interrupt, SessionLoss
<1>4. ASSUME NEW o \in Ops, NEW action \in Actions, InspectBound(o, action) PROVE rows' = rows BY <1>4 DEF InspectBound
<1>5. ASSUME NEW r \in late, Land(r) PROVE rows' = rows BY <1>5 DEF Land
<1>6. BeginTransition \/ EndTransition \/ Settle \/ Collect \/ Age \/ Meddle \/ Redeploy => rows' = rows
  BY DEF BeginTransition, EndTransition, Settle, Collect, Age, Meddle, Redeploy
<1> QED BY <1>1, <1>2, <1>3, <1>4, <1>5, <1>6 DEF Next

LEMMA InsertsRunning ==
    ASSUME ExecutionInv, NEW c \in Callers, Insert(c), NEW o \in Ops, rows[o] # "succeeded"
    PROVE  rows'[o] # "succeeded"
  BY DEF Insert, ExecutionInv, StateTypes

\* SucceededIsTrue: when the Runtime records an operation as succeeded and nobody interfered
\* with the call, the operation's Deployment, Service and release are in that moment as it
\* was to leave them (the results of Step, stepAppCenterDelete, stepOCIChart, which finish records).
THEOREM SuccessIsGenuine == Spec => SucceededIsTrue
<1>1. ASSUME ExecutionInv, [Next]_vars, NEW o \in Ops, rows[o] # "succeeded", rows'[o] = "succeeded", quiet
      PROVE  Done(o)
  <2>1. rows' # rows BY <1>1
  <2>2. Next BY <1>1, <2>1 DEF vars
  <2>3. PICK c \in Callers : Insert(c) \/ Finish(c) BY <2>1, <2>2, RowsWritten
  <2> QED BY <1>1, <2>3, FinishesDone, InsertsRunning
<1>2. ExecutionInv /\ [Next]_vars =>
        [\A o \in Ops : rows[o] # "succeeded" /\ rows'[o] = "succeeded" /\ quiet => Done(o)]_vars
  BY <1>1
<1> QED BY <1>2, ExecutionInvariant, PTL DEF Spec, SucceededIsTrue

--------------------------------------------------------------------------------
(* What is written belongs to the operation                                 *)

ScalesBound ==
    dep # NoDep /\ dep' # NoDep /\ Face(dep') # Face(dep) =>
        \E o \in Ops : /\ \/ dep' = Wanted(o, dep) /\ Bound(o)
                          \/ chart /\ \E by \in Ops : dep' = [Rendered(o, dep, dep) EXCEPT !.op = by]
                       /\ quiet' => Running = {o} /\ Bound(o)
DeletesBound ==
    quiet' /\ dep # NoDep /\ ~dep.doomed /\ (dep'.doomed \/ dep' = NoDep) =>
        \E o \in Ops : Running = {o} /\ Action(o) = "delete" /\ Bound(o)
RemovesBound ==
    quiet' /\ svc # NoSvc /\ ~svc.doomed /\ (svc'.doomed \/ svc' = NoSvc) =>
        \E o \in Ops : Running = {o} /\ Action(o) = "delete" /\ Owned(o, svc.marks)

\* The holder of the lock carries out the one running operation.
LEMMA OnlyRunning ==
    ASSUME ExecutionInv, NEW c \in Callers, lock = c, pc[c] \notin CheckLabels
    PROVE  Running = {loc[c].op}
<1>1. ~loc[c].new /\ Given(loc[c].op) BY CallOf DEF CallInv
<1>2. loc[c].op \in Running BY <1>1, CallOf, GivenFacts DEF Running
<1> QED BY <1>2 DEF ExecutionInv, LockInv

LEMMA SameService == ASSUME svc' = svc PROVE RemovesBound
  BY DEF RemovesBound

LEMMA SameDeployment == ASSUME dep' = dep PROVE ScalesBound /\ DeletesBound
  BY DEF ScalesBound, DeletesBound

\* A change that leaves the Deployment its UID deletes nothing.
LEMMA StaysThere ==
    ASSUME ExecutionInv, dep # NoDep, dep'.uid = dep.uid, dep'.doomed = dep.doomed
    PROVE  DeletesBound
<1>1. dep.uid \in 1..MaxUid BY DeploymentFacts DEF ExecutionInv, ClusterInv
<1>2. dep' # NoDep BY <1>1, Constants, NothingThere
<1> QED BY <1>2 DEF DeletesBound

LEMMA WantedWrite ==
    ASSUME ExecutionInv, NEW o \in Ops, dep # NoDep, dep' = Wanted(o, dep), Bound(o), quiet' => Running = {o}
    PROVE  ScalesBound /\ DeletesBound
<1>1. dep \in Deployment BY DeploymentFacts DEF ExecutionInv, ClusterInv
<1>2. dep'.uid = dep.uid /\ dep'.doomed = dep.doomed BY <1>1, WantedType
<1>3. ScalesBound BY DEF ScalesBound
<1> QED BY <1>2, <1>3, StaysThere

LEMMA RenderedWrite ==
    ASSUME ExecutionInv, NEW o, Given(o), NEW live \in Objects, chart, dep # NoDep, dep' = Rendered(o, live, dep),
           quiet' => Running = {o} /\ Bound(o)
    PROVE  ScalesBound /\ DeletesBound
<1>0. o \in Ops /\ Creation(o, live) \in Ops BY GivenFacts, CreationType
<1>1. dep \in Deployment BY DeploymentFacts DEF ExecutionInv, ClusterInv
<1>2. dep'.uid = dep.uid /\ dep'.doomed = dep.doomed BY <1>1 DEF Rendered, Deployment
<1>3. dep' = [Rendered(o, dep, dep) EXCEPT !.op = Creation(o, live)] BY <1>1 DEF Rendered, Deployment
<1>4. ScalesBound BY <1>0, <1>3 DEF ScalesBound
<1> QED BY <1>2, <1>4, StaysThere

\* An accepted request of a call or a late one.  A late one is never quiet.
LEMMA RequestWrites ==
    ASSUME ExecutionInv, NEW kind \in Writes, NEW o, Given(o), NEW live, Accepted(kind, live), Apply(kind, o, live),
           kind = "update" => live # NoDep /\ BoundTo(o, live),
           quiet' => Running = {o} /\ OwnDeployment(o) /\ OwnService(o),
           quiet' /\ kind \in {"delete_svc", "delete"} => Action(o) = "delete"
    PROVE  ScalesBound /\ DeletesBound /\ RemovesBound
<1>0. o \in Ops BY GivenFacts
<1>1. CASE kind = "create"
  <2>1. dep = NoDep /\ svc' = svc BY <1>1 DEF Accepted, Apply
  <2> QED BY <2>1, SameService DEF ScalesBound, DeletesBound
<1>2. CASE kind = "update"
  <2>1. dep = live /\ dep' = Wanted(o, dep) /\ svc' = svc BY <1>2 DEF Accepted, Apply
  <2>2. dep # NoDep /\ Bound(o) BY <1>2, <2>1 DEF BoundTo, Bound
  <2> QED BY <1>0, <2>1, <2>2, SameService, WantedWrite
<1>3. CASE kind = "create_svc"
  <2>1. svc = NoSvc /\ dep' = dep BY <1>3 DEF Accepted, Apply
  <2> QED BY <2>1, SameDeployment DEF RemovesBound
<1>4. CASE kind = "delete_svc"
  <2>1. svc # NoSvc /\ dep' = dep BY <1>4 DEF Accepted, Apply
  <2>2. quiet' => Running = {o} /\ Action(o) = "delete" /\ Owned(o, svc.marks) BY <1>4, <2>1 DEF OwnService
  <2> QED BY <1>0, <2>1, <2>2, SameDeployment DEF RemovesBound
<1>5. CASE kind = "delete"
  <2>1. dep # NoDep /\ dep' = [dep EXCEPT !.doomed = TRUE] /\ svc' = svc BY <1>5 DEF Accepted, Apply
  <2>2. dep \in Deployment BY <2>1, DeploymentFacts DEF ExecutionInv, ClusterInv
  <2>3. Face(dep') = Face(dep) BY <2>1, <2>2 DEF Face, Deployment
  <2>4. quiet' => Running = {o} /\ Action(o) = "delete" /\ Bound(o) BY <1>5, <2>1 DEF OwnDeployment
  <2> QED BY <1>0, <2>1, <2>3, <2>4, SameService DEF ScalesBound, DeletesBound
<1> QED BY <1>1, <1>2, <1>3, <1>4, <1>5 DEF Writes

\* A step of Helm, of a call or of a Helm that was left behind.
LEMMA HelmWrites ==
    ASSUME ExecutionInv, NEW step \in HelmSteps, NEW o, Given(o), NEW live \in Objects, chart, UNCHANGED core,
           HelmDoes(step, o, live), step = "u_record" => rel # NoRel,
           quiet' /\ step \in {"e_svc", "e_dep", "u_svc", "u_dep"} =>
              Running = {o} /\ OwnDeployment(o) /\ OwnService(o),
           step \in {"u_svc", "u_dep"} => Action(o) = "delete"
    PROVE  ScalesBound /\ DeletesBound /\ RemovesBound
<1>0. o \in Ops BY GivenFacts
<1>1. /\ step \notin {"e_dep", "u_dep"} => dep' = dep
      /\ step \notin {"e_svc", "u_svc"} => svc' = svc
      /\ step = "e_svc" => svc'.marks = cmd[o].marks /\ svc'.doomed = svc.doomed
  BY HelmApplied
<1>2. CASE step \notin {"e_svc", "e_dep", "u_svc", "u_dep"} BY <1>1, <1>2, SameDeployment, SameService
<1>3. CASE step = "e_svc"
  <2>1. cmd[o].marks \in Marks BY GivenFacts
  <2>2. svc' = [svc EXCEPT !.marks = cmd[o].marks, !.op = Creation(o, live)] BY <1>3 DEF HelmDoes
  <2>3. svc \in Service \cup {NoSvc} BY DEF ExecutionInv, ClusterInv
  <2>4. svc'.op = Creation(o, live)
    <3>1. CASE svc = NoSvc BY <2>2, <3>1 DEF NoSvc
    <3>2. CASE svc \in Service BY <2>2, <3>2 DEF Service
    <3> QED BY <2>3, <3>1, <3>2
  <2>5. svc' # NoSvc BY <1>0, <2>4, CreationType, NothingThere, Constants
  <2> QED BY <1>1, <1>3, <2>5, SameDeployment DEF RemovesBound
<1>4. CASE step = "u_svc"
  <2>1. quiet' /\ svc # NoSvc => Running = {o} /\ Action(o) = "delete" /\ Owned(o, svc.marks) BY <1>4 DEF OwnService
  <2> QED BY <1>0, <1>1, <1>4, <2>1, SameDeployment DEF RemovesBound
<1>5. CASE step = "e_dep" /\ dep = NoDep BY <1>1, <1>5, SameService DEF ScalesBound, DeletesBound
<1>6. CASE step = "e_dep" /\ dep # NoDep
  <2>1. dep' = Rendered(o, live, dep) BY <1>6 DEF HelmDoes
  <2>2. quiet' => Running = {o} /\ Bound(o) BY <1>6 DEF OwnDeployment
  <2> QED BY <1>1, <1>6, <2>1, <2>2, RenderedWrite, SameService
<1>7. CASE step = "u_dep"
  <2>1. dep' = NoDep BY <1>7 DEF HelmDoes
  <2>2. quiet' /\ dep # NoDep => Running = {o} /\ Action(o) = "delete" /\ Bound(o) BY <1>7 DEF OwnDeployment
  <2> QED BY <1>0, <1>1, <1>7, <2>1, <2>2, SameService DEF ScalesBound, DeletesBound
<1> QED BY <1>2, <1>3, <1>4, <1>5, <1>6, <1>7

LEMMA SendWrites ==
    ASSUME ExecutionInv, NEW c \in Callers, Send(c)
    PROVE  ScalesBound /\ DeletesBound /\ RemovesBound
<1>0. /\ pc[c] \in Writes /\ quiet' = (quiet /\ lock = c)
      /\ IF Accepted(pc[c], loc[c].live) THEN Apply(pc[c], loc[c].op, loc[c].live) ELSE UNCHANGED cluster
  BY DEF Send, Connected
<1>1. CallInv(loc[c], pc[c]) /\ pc[c] # "idle" /\ pc[c] \notin CheckLabels /\ pc[c] \in Held
  BY <1>0, CallOf DEF Writes, CheckLabels, Held, KubeLabels
<1>2. quiet' => Running = {loc[c].op} /\ OwnDeployment(loc[c].op) /\ OwnService(loc[c].op)
  BY <1>0, <1>1, CallOf, OnlyRunning DEF Seen, CheckLabels
<1>3. CASE Accepted(pc[c], loc[c].live) BY <1>0, <1>1, <1>2, <1>3, RequestWrites DEF CallInv
<1>4. CASE ~Accepted(pc[c], loc[c].live) BY <1>0, <1>4, SameDeployment, SameService DEF cluster
<1> QED BY <1>3, <1>4

LEMMA HelmStepWrites ==
    ASSUME ExecutionInv, NEW c \in Callers, Helm(c)
    PROVE  ScalesBound /\ DeletesBound /\ RemovesBound
<1>0. /\ pc[c] \in HelmSteps /\ UNCHANGED core
      /\ HelmRefuses(pc[c]) => UNCHANGED cluster
      /\ ~HelmRefuses(pc[c]) => HelmDoes(pc[c], loc[c].op, loc[c].live) /\ quiet' = (quiet /\ lock = c)
  BY DEF Helm, Connected
<1>s. pc[c] \in {"i_record", "e_record", "e_svc", "e_dep", "e_done", "u_record", "u_svc", "u_dep", "u_done"}
  BY <1>0 DEF HelmSteps, HelmNext
<1>1. CASE HelmRefuses(pc[c]) BY <1>0, <1>1, SameDeployment, SameService DEF cluster
<1>2. CASE ~HelmRefuses(pc[c])
  <2>1. /\ Given(loc[c].op) /\ chart /\ loc[c].live \in Objects /\ pc[c] \notin CheckLabels
        /\ pc[c] \in UninstallLabels => Action(loc[c].op) = "delete"
    BY <1>s, CallOf, CallFacts DEF CallInv, ChartLabels, UninstallLabels, CheckLabels
  <2>2. pc[c] = "u_record" => rel # NoRel BY <1>2 DEF HelmRefuses
  <2>3. pc[c] \in {"u_svc", "u_dep"} => Action(loc[c].op) = "delete" BY <2>1 DEF UninstallLabels
  <2>4. ASSUME quiet', pc[c] \in {"e_svc", "e_dep", "u_svc", "u_dep"}
        PROVE  Running = {loc[c].op} /\ OwnDeployment(loc[c].op) /\ OwnService(loc[c].op)
    <3>1. quiet /\ lock = c BY <1>0, <1>2, <2>4
    <3>2. pc[c] \in Held \ {"check_svc"} BY <2>4 DEF Held, ChartLabels, UninstallLabels
    <3> QED BY <2>1, <3>1, <3>2, CallOf, OnlyRunning DEF Seen
  <2> QED BY <1>0, <1>2, <2>1, <2>2, <2>3, <2>4, HelmWrites
<1> QED BY <1>1, <1>2

LEMMA LandWrites ==
    ASSUME ExecutionInv, NEW r \in late, Land(r)
    PROVE  ScalesBound /\ DeletesBound /\ RemovesBound
<1>0. ~quiet' /\ UNCHANGED core BY DEF Land
<1>1. r \in LateRequest /\ RequestInv(r) BY DEF ExecutionInv, StateTypes, LateInv
<1>2. Given(r.op) /\ r.live \in Objects BY <1>1 DEF LateRequest, RequestInv
<1>3. ASSUME r.kind \in Writes, Accepted(r.kind, r.live), Apply(r.kind, r.op, r.live)
      PROVE  ScalesBound /\ DeletesBound /\ RemovesBound
  BY <1>0, <1>1, <1>2, <1>3, RequestWrites DEF RequestInv
<1>4. ASSUME r.kind \in {"e_svc", "e_dep", "e_done"}, HelmDoes(r.kind, r.op, r.live)
      PROVE  ScalesBound /\ DeletesBound /\ RemovesBound
  <2>1. r.kind \in HelmSteps /\ chart BY <1>1, <1>4 DEF HelmSteps, HelmNext, RequestInv, Writes
  <2> QED BY <1>0, <1>2, <1>4, <2>1, HelmWrites
<1>5. ASSUME UNCHANGED cluster PROVE ScalesBound /\ DeletesBound /\ RemovesBound
  BY <1>5, SameDeployment, SameService DEF cluster
<1> QED BY <1>3, <1>4, <1>5 DEF Land

LEMMA OutsideWrites ==
    ASSUME ExecutionInv, Settle \/ Collect \/ Meddle
    PROVE  ScalesBound /\ DeletesBound /\ RemovesBound
<1>0. dep \in Objects BY DEF ExecutionInv, ClusterInv
<1>1. CASE Settle
  <2>1. PICK status \in {"ready", "failed"} : dep.status = "moving" /\ dep' = [dep EXCEPT !.status = status] /\ svc' = svc
    BY <1>1 DEF Settle
  <2>2. dep \in Deployment /\ dep # NoDep BY <1>0, <2>1, DeploymentFacts
  <2>3. Face(dep') = Face(dep) /\ dep'.uid = dep.uid /\ dep'.doomed = dep.doomed BY <2>1, <2>2 DEF Face, Deployment
  <2> QED BY <2>1, <2>2, <2>3, StaysThere, SameService DEF ScalesBound
<1>2. CASE Collect
  <2>1. CASE dep.doomed /\ dep' = NoDep /\ svc' = svc BY <2>1, SameService DEF ScalesBound, DeletesBound
  <2>2. CASE svc.doomed /\ dep' = dep BY <2>2, SameDeployment DEF RemovesBound
  <2> QED BY <1>2, <2>1, <2>2 DEF Collect
<1>3. CASE Meddle
  <2>1. dep # NoDep /\ ~quiet' BY <1>3 DEF Meddle
  <2>2. dep \in Deployment /\ dep.marks \in Marks BY <1>0, <2>1, DeploymentFacts
  <2>3. CASE dep' = [dep EXCEPT !.doomed = TRUE]
    <3>1. Face(dep') = Face(dep) BY <2>2, <2>3 DEF Face, Deployment
    <3> QED BY <2>1, <3>1 DEF ScalesBound, DeletesBound, RemovesBound
  <2>4. CASE dep' = [dep EXCEPT !.marks.inst = None]
    <3>1. dep'.up = dep.up /\ dep'.restart = dep.restart /\ dep'.marks = [dep.marks EXCEPT !.inst = None]
      BY <2>2, <2>4 DEF Deployment
    <3>2. dep'.marks.hash = dep.marks.hash BY <2>2, <3>1 DEF Marks
    <3> QED BY <2>1, <3>1, <3>2 DEF Face, ScalesBound, DeletesBound, RemovesBound
  <2>5. CASE dep' = [dep EXCEPT !.status = "moving"]
    <3>1. Face(dep') = Face(dep) BY <2>2, <2>5 DEF Face, Deployment
    <3> QED BY <2>1, <3>1 DEF ScalesBound, DeletesBound, RemovesBound
  <2> QED BY <1>3, <2>3, <2>4, <2>5 DEF Meddle
<1> QED BY <1>1, <1>2, <1>3

\* Who changes the cluster at all.
LEMMA ClusterWritten ==
    ASSUME Next, <<dep, svc>>' # <<dep, svc>>
    PROVE  \/ \E c \in Callers : Send(c) \/ Helm(c)
           \/ \E r \in late : Land(r)
           \/ Settle \/ Collect \/ Meddle
<1>1. ASSUME NEW c \in Callers, Proceed(c), ~Send(c), ~Helm(c) PROVE dep' = dep /\ svc' = svc
  BY <1>1 DEF Proceed, CheckDeployment, CheckServices, Insert, Finish, Get, GetService, Recheck, Doom, ChartGet, Ensure,
              Observe, ObserveService, Uninstall, Gone, cluster
<1>2. ASSUME NEW c \in Callers, NEW o \in Ops, Enter(c, o) \/ Unresolved(c, o) PROVE dep' = dep /\ svc' = svc
  BY <1>2 DEF Enter, Unresolved, cluster
<1>3. ASSUME NEW c \in Callers, Unprepared(c) \/ HelmFails(c) \/ Timeout(c) \/ Interrupt(c) \/ SessionLoss(c)
      PROVE  dep' = dep /\ svc' = svc
  BY <1>3 DEF Unprepared, HelmFails, Timeout, Interrupt, SessionLoss, cluster
<1>4. ASSUME NEW o \in Ops, NEW action \in Actions, InspectBound(o, action) PROVE dep' = dep /\ svc' = svc
  BY <1>4 DEF InspectBound, cluster
<1>5. BeginTransition \/ EndTransition \/ Age \/ Redeploy => dep' = dep /\ svc' = svc
  BY DEF BeginTransition, EndTransition, Age, Redeploy, cluster
<1> QED BY <1>1, <1>2, <1>3, <1>4, <1>5 DEF Next

\* WritesOnlyBound: a request to scale or restart that Kubernetes accepts, however late, is
\* of an operation that was given this very Deployment, and nothing else but a step of Helm
\* changes one; and as long as nobody interferes with the call that holds the App's lock, all
\* that is changed or deleted belongs to the one running operation (Step,
\* stepAppCenterDelete, HelmLifecycle.Ensure and Uninstall).
THEOREM WritesAreBound == Spec => WritesOnlyBound
<1>1. ASSUME ExecutionInv, [Next]_vars PROVE ScalesBound /\ DeletesBound /\ RemovesBound
  <2>1. CASE <<dep, svc>>' = <<dep, svc>> BY <2>1, SameDeployment, SameService
  <2>2. CASE <<dep, svc>>' # <<dep, svc>>
    <3>1. Next BY <1>1, <2>2 DEF vars, cluster
    <3> QED BY <1>1, <2>2, <3>1, ClusterWritten, SendWrites, HelmStepWrites, LandWrites, OutsideWrites
  <2> QED BY <2>1, <2>2
<1>2. ExecutionInv /\ [Next]_vars => [ScalesBound /\ DeletesBound /\ RemovesBound]_vars BY <1>1
<1> QED BY <1>2, ExecutionInvariant, PTL DEF Spec, WritesOnlyBound, ScalesBound, DeletesBound, RemovesBound
================================================================================
