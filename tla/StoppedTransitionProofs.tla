------------------------- MODULE StoppedTransitionProofs -------------------------
(***************************************************************************)
(* Why a downtime transition never runs two versions at once and, as long  *)
(* as Core begins a release only once what was abandoned has settled,      *)
(* never cuts off an App that is being released and keeps the promise of   *)
(* SafeUpgrade, for any number of callers, Services, Pods and faults.      *)
(*                                                                         *)
(* The argument: an update is executed only if its object is still the one *)
(* that was read; until a release begins, no Service is opened, so that    *)
(* what a call has found closed stays closed; once it has begun, only      *)
(* Services are opened, so that what a call has found ready stays ready.   *)
(***************************************************************************)
EXTENDS StoppedTransition, TLAPS

--------------------------------------------------------------------------------
(* The inductive invariant                                                  *)

Early == {"none", "checking", "rejected_preflight", "canceled_source"}
Rejections == {"rejected_preflight", "canceled_source"}
Released == {"released_source", "released_target"}
Replacing == {"applying", "verifying", "prepared"}
Captured == {"sealing", "restoring", "recovery_required", "releasing_target", "released_target"} \cup Replacing
SideOf(phase) == IF phase \in {"releasing_target", "released_target"} THEN "target" ELSE "source"

Tame == {"none", "capture", "check"}
Jobs == Tame \cup {"gate", "barrier", "quiesce", "drain", "stop", "start", "look", "resume", "open"}
Labels == {"idle", "dep", "svc", "slices", "gone", "pods", "ask", "update", "commit"}
Asks == {"none", "idle", "any"}
Call == [mode : Modes \cup {"none"}, phase : Phases, cp : BOOLEAN, job : Jobs, ask : Asks,
         side : Versions, next : Phases, n : Objects, dep : Object, to : Object,
         ready : BOOLEAN, proc : 0..MaxPods, busy : BOOLEAN]
LateRequest == [kind : Asks \cup {"update"}, n : Objects, to : Object]

\* TypeOK without the history variable.
Types ==
    /\ core \in {"checking", "preparing", "restoring", "releasing", "done"}
    /\ installed \in 0..2 /\ known \subseteq Replies /\ registered \in BOOLEAN
    /\ row \in Row
    /\ objs \in [Objects -> Object] /\ observed \in BOOLEAN
    /\ pods \subseteq Pod /\ born \in 1..MaxPods /\ broken \in BOOLEAN
    /\ eps \subseteq Services /\ media \in Media
    /\ tx \in [Callers -> BOOLEAN] /\ faults \in 0..MaxFaults
CallTypes == pc \in [Callers -> Labels] /\ loc \in [Callers -> Call] /\ late \subseteq LateRequest

\* No Service leads to a Pod.
Closed == \A s \in Services : objs[s].gated /\ s \notin eps
\* Nothing has been changed but by others.
Untouched == \A n \in Objects : objs[n].ver # "target" /\ ~objs[n].gated /\ objs[n].up
\* The Deployment runs the version of this side, and nothing else does.
Steady(side) ==
    /\ objs[Deployment].up /\ objs[Deployment].ver \in {side, "other"}
    /\ \A p \in pods : p.ver = side
Opened(o, side) == o.ver \in {side, "other"} /\ (o.gated => o.ver = "other")
Done(side) == Steady(side) /\ \A s \in Services : Opened(objs[s], side)

\* What the objects can be, and one version at a time.
WorkloadInv ==
    /\ ~objs[Deployment].gated /\ \A s \in Services : objs[s].up
    /\ objs[Deployment].rv = 0 => objs[Deployment] = Original
    /\ OneVersionRuns
    /\ objs[Deployment].up /\ objs[Deployment].ver # "other" => \A p \in pods : p.ver = objs[Deployment].ver

\* While a Service leads to a Pod, only what is published is there.
ServeInv ==
    \/ Closed
    \/ objs[Deployment].ver \in {Published, "other"} /\ \A p \in pods : p.ver = Published

RowInv ==
    /\ row.phase \in Captured => row.cp
    /\ row.phase \in Replacing => Closed
    /\ row.phase \in Released => Done(SideOf(row.phase))

\* Core's phase, what it has been told and the row.
CoreInv ==
    /\ core \in {"checking", "preparing"} => installed = 0 /\ row.phase \notin ReleasePhases
    /\ core \in {"checking", "preparing"} /\ "rejected" \in known => row.phase \in Rejections
    /\ core \in {"checking", "preparing"} /\ "prepared" \in known => Closed
    /\ core = "restoring" /\ "restored" \in known => row.phase \notin ReleasePhases
    /\ core = "releasing" /\ "released" \in known => row.phase \in Released
    /\ core = "done" => row.phase \in Released \/ (row.phase \in Rejections /\ installed = 0)
    /\ row.phase \in ReleasePhases => SideOf(row.phase) = Published
    /\ installed = 1 /\ row.phase \notin ReleasePhases => Closed

\* Before there is a checkpoint nothing is changed, and nothing is about to be.
EarlyInv ==
    ~row.cp \/ row.phase \in Early =>
        /\ Untouched
        /\ \A c \in Callers : loc[c].job \in Tame /\ pc[c] # "update"
        /\ \A r \in late : r.kind # "update"

\* The App lock: one call at a time has its transaction.
LockInv == \A c, d \in Callers : tx[c] /\ tx[d] => c = d

\* An update under way, seen from the object it is about: to open a Service only in a
\* release, to gate one or to stop or start the process only outside one.
Opens(n, to) == n \in Services /\ ~to.gated
UpdateInv(n, to) ==
    /\ to.ver \in Versions /\ to.rv <= objs[n].rv + 1
    /\ IF n \in Services THEN to.up ELSE ~to.gated
    /\ IF Opens(n, to)
         THEN /\ row.phase \in ReleasePhases
              /\ to.ver = SideOf(row.phase) /\ Steady(to.ver)
         ELSE /\ row.phase \notin ReleasePhases /\ core # "releasing"
              /\ n = Deployment => Closed
    /\ Current(n, to) =>
         /\ n \in Services /\ to.gated => to.ver = objs[n].ver
         /\ n = Deployment /\ ~to.up => to.ver = objs[n].ver
         /\ n = Deployment /\ to.up => pods = {} /\ ~objs[n].up

\* How far a call is with its job.
JobInv(call, at) ==
    /\ call.dep.rv <= objs[Deployment].rv /\ ~call.dep.gated
    /\ call.dep.rv = objs[Deployment].rv => call.dep = objs[Deployment]
    /\ at = "update" => UpdateInv(call.n, call.to)
    /\ call.job \in {"stop", "start"} =>
         /\ at \in {"svc", "slices"} => \A m \in 1..(call.n - 1) : objs[m].gated /\ m \notin eps
         /\ at = "slices" => objs[call.n].gated
         /\ at = "gone" => Closed
    /\ call.job = "open" =>
         /\ row.phase \in ReleasePhases /\ call.side = SideOf(row.phase)
         /\ at = "svc" => Steady(call.side) /\ \A m \in 1..(call.n - 1) : Opened(objs[m], call.side)
    /\ at # "idle" /\ ~Releasing(call.mode) => row.phase \notin ReleasePhases /\ core # "releasing"

\* Which phase a job is for, and what it leads to.
Course(call) ==
    \/ /\ call.mode = "prepare"
       /\ \/ call.phase = "checking" /\ call.next = "sealing" /\ call.job \in {"capture", "check"}
          \/ /\ call.phase = "sealing" /\ call.next = "applying"
             /\ call.job \in {"gate", "barrier", "quiesce", "drain", "stop"}
          \/ call.phase = "applying" /\ call.next = "verifying" /\ call.job = "start"
          \/ call.phase \in {"verifying", "prepared"} /\ call.next = "prepared" /\ call.job = "check"
    \/ /\ call.mode = "restore" /\ call.next = "restored"
       /\ \/ call.phase = "restoring" /\ call.job \in {"look", "drain", "stop", "resume", "check", "start"}
          \/ call.phase = "restored" /\ call.job = "check" /\ call.cp
    \/ /\ Releasing(call.mode) /\ call.job = "open"
       /\ call.phase \in ReleasePhases /\ call.next \in Released
       /\ SideOf(call.phase) = call.side /\ SideOf(call.next) = call.side

\* Where a job can be.
Place(call, at) ==
    /\ at = "dep" => call.job \notin {"none", "barrier"}
    /\ at = "svc" => call.job \in {"capture", "open", "gate", "barrier", "stop", "start"} /\ call.n \in Services
    /\ at = "slices" => call.job \in {"barrier", "stop", "start"} /\ call.n \in Services
    /\ at = "gone" => call.job \in {"stop", "start"} /\ ~call.dep.up
    /\ at \in {"svc", "slices", "gone"} => call.dep.ver # "other"
    /\ at \in {"pods", "ask"} => call.job \in {"check", "drain"}
    /\ at = "update" => call.job \in {"open", "gate", "stop", "start"} /\ (call.job = "open" <=> Opens(call.n, call.to))

\* What a call that commits writes.
Outcome(call) ==
    /\ call.next # "none"
    /\ call.next \in Captured => call.cp
    /\ call.next \in Replacing => Closed
    /\ call.next \in Early => call.phase \in Early /\ call.mode = "prepare" /\ call.next \in Rejections
    /\ call.mode = "prepare" /\ call.phase \in Rejections => call.next = call.phase
    /\ ~call.cp \/ call.next \in Early => ~row.cp \/ row.phase \in Early
    /\ call.phase \in Released => call.next \in Released
    /\ call.next \in Released =>
         call.phase \in ReleasePhases /\ SideOf(call.next) = SideOf(call.phase) /\ Done(SideOf(call.next))
    /\ call.next \in ReleasePhases <=> Releasing(call.mode)
    /\ call.next \in ReleasePhases => SideOf(call.next) = Published

CallInv(call, at, locked) ==
    /\ at = "idle" => call.job = "none" /\ ~locked
    /\ at # "idle" => call.mode \in Modes
    /\ at \notin {"idle", "commit"} => Course(call)
    /\ Place(call, at) /\ JobInv(call, at)
    /\ locked =>
         /\ Bound(call.mode) /\ call.phase = row.phase /\ row.phase # "none"
         /\ row.cp => call.cp
         /\ at # "commit" => call.cp = row.cp
         /\ at = "commit" => Outcome(call)

StoppedInv ==
    /\ Types /\ CallTypes
    /\ WorkloadInv /\ ServeInv /\ RowInv /\ CoreInv /\ EarlyInv /\ LockInv
    /\ \A c \in Callers : CallInv(loc[c], pc[c], tx[c])
    /\ \A r \in late : r.kind = "update" => UpdateInv(r.n, r.to)

--------------------------------------------------------------------------------
(* Facts used throughout                                                    *)

LEMMA Sets ==
    /\ Deployment \in Objects /\ Deployment \notin Services
    /\ \A n : n \in Objects <=> n = Deployment \/ n \in Services
    /\ \A s \in Services : s \in Int /\ s - 1 \in Int
    /\ 1 \in Services /\ NumServices \in Services
  BY TransitionAssumption DEF Deployment, Objects, Services

LEMMA Numbers == MaxPods \in Nat /\ MaxPods >= 1 /\ MaxFaults \in Nat
  BY TransitionAssumption

LEMMA Sides == \A phase : SideOf(phase) \in Versions
  BY DEF SideOf, Versions

LEMMA ObjectFacts ==
    ASSUME NEW o \in Object
    PROVE  /\ o.rv \in Nat /\ o.up \in BOOLEAN /\ o.gated \in BOOLEAN /\ o.op \in BOOLEAN
           /\ o.ver \in Versions \cup {"other"}
  BY DEF Object

LEMMA CallFacts ==
    ASSUME NEW call \in Call
    PROVE  /\ call.n \in Objects /\ call.dep \in Object /\ call.to \in Object /\ call.cp \in BOOLEAN
           /\ call.side \in Versions /\ call.phase \in Phases /\ call.next \in Phases /\ call.job \in Jobs
           /\ call.mode \in Modes \cup {"none"} /\ call.ready \in BOOLEAN /\ call.busy \in BOOLEAN
           /\ call.ask \in Asks /\ call.proc \in 0..MaxPods
  BY DEF Call

LEMMA NoCallType == NoCall \in Call /\ Original \in Object
<1>1. Original \in Object BY DEF Original, Object, Versions
<1>2. 0 \in Objects /\ 0 \in 0..MaxPods BY Sets, Numbers DEF Deployment
<1> QED BY <1>1, <1>2 DEF NoCall, Call, Phases, Jobs, Tame, Asks, Versions, Modes

\* What a call says, once it is known which record it is.
LEMMA CallOf ==
    ASSUME StoppedInv, NEW c \in Callers
    PROVE  /\ loc[c] \in Call /\ pc[c] \in Labels /\ tx[c] \in BOOLEAN /\ CallInv(loc[c], pc[c], tx[c])
  BY DEF StoppedInv, Types, CallTypes

--------------------------------------------------------------------------------
(* What a step of the workload keeps                                        *)

\* Objects are replaced one update at a time; outside a release nothing is opened, in a
\* release nothing is cut off; without a Pod none appears for a stopped Deployment.
Keeps ==
    /\ row' = row
    /\ \A n \in Objects : objs'[n] = objs[n] \/ objs'[n].rv = objs[n].rv + 1
    /\ row.phase \notin ReleasePhases =>
         \A s \in Services : objs[s].gated => objs'[s].gated /\ (s \notin eps => s \notin eps')
    /\ \A side \in Versions : row.phase \in ReleasePhases /\ side = SideOf(row.phase) =>
         /\ Steady(side) => Steady(side)'
         /\ \A s \in Services : Opened(objs[s], side) => Opened(objs'[s], side)
    /\ pods = {} /\ ~objs[Deployment].up /\ objs'[Deployment] = objs[Deployment] => pods' = {}

LEMMA ClosedKept == Keeps /\ row.phase \notin ReleasePhases /\ Closed => Closed'
  BY DEF Keeps, Closed

LEMMA DoneKept ==
    ASSUME Keeps, NEW side \in Versions, row.phase \in ReleasePhases, side = SideOf(row.phase), Done(side)
    PROVE  Done(side)'
  BY DEF Keeps, Done

LEMMA UpdateKept ==
    ASSUME NEW n \in Objects, NEW to \in Object, objs \in [Objects -> Object], objs' \in [Objects -> Object],
           UpdateInv(n, to), Keeps, core' = "releasing" => core = "releasing"
    PROVE  UpdateInv(n, to)'
<1>1. /\ objs[n] \in Object /\ objs'[n] \in Object /\ objs[n].rv \in Nat /\ objs'[n].rv \in Nat /\ to.rv \in Nat
  BY ObjectFacts
<1>2. to.rv <= objs[n].rv + 1 /\ (objs'[n] = objs[n] \/ objs'[n].rv = objs[n].rv + 1) BY DEF UpdateInv, Keeps
<1>3. to.rv <= objs'[n].rv + 1 BY <1>1, <1>2
<1>4. objs'[n].rv + 1 = to.rv => objs'[n] = objs[n] /\ Current(n, to) BY <1>1, <1>2 DEF Current
<1>5. row' = row BY DEF Keeps
<1>6. CASE Opens(n, to)
  <2>1. row.phase \in ReleasePhases /\ to.ver = SideOf(row.phase) /\ Steady(to.ver) /\ to.ver \in Versions
    BY <1>6 DEF UpdateInv
  <2>2. Steady(to.ver)' BY <2>1 DEF Keeps
  <2>3. n \in Services /\ ~to.gated BY <1>6 DEF Opens
  <2> QED BY <1>3, <1>5, <1>6, <2>1, <2>2, <2>3, Sets DEF UpdateInv, Opens, Current
<1>7. CASE ~Opens(n, to)
  <2>1. row.phase \notin ReleasePhases /\ core # "releasing" /\ (n = Deployment => Closed) BY <1>7 DEF UpdateInv
  <2>2. n = Deployment => Closed' BY <2>1, ClosedKept
  <2>3. core' # "releasing" BY <2>1
  <2>4. objs'[n].rv + 1 = to.rv =>
          /\ n \in Services /\ to.gated => to.ver = objs'[n].ver
          /\ n = Deployment /\ ~to.up => to.ver = objs'[n].ver
          /\ n = Deployment /\ to.up => pods' = {} /\ ~objs'[n].up
    BY <1>4 DEF UpdateInv, Keeps
  <2> QED BY <1>3, <1>5, <1>7, <2>1, <2>2, <2>3, <2>4 DEF UpdateInv, Opens, Current
<1> QED BY <1>6, <1>7

LEMMA JobKept ==
    ASSUME NEW call \in Call, NEW at, objs \in [Objects -> Object], objs' \in [Objects -> Object],
           JobInv(call, at), Place(call, at), Keeps, core' = "releasing" => core = "releasing",
           call.job \in {"stop", "start"} /\ at # "commit" => row.phase \notin ReleasePhases
    PROVE  JobInv(call, at)'
<1>0. call.n \in Objects /\ call.to \in Object /\ call.dep \in Object /\ call.side \in Versions BY CallFacts
<1>1. /\ objs[Deployment] \in Object /\ objs'[Deployment] \in Object /\ objs[Deployment].rv \in Nat
      /\ objs'[Deployment].rv \in Nat /\ call.dep.rv \in Nat
      /\ objs'[Deployment] = objs[Deployment] \/ objs'[Deployment].rv = objs[Deployment].rv + 1
  BY <1>0, ObjectFacts, Sets DEF Keeps
<1>2. /\ call.dep.rv <= objs'[Deployment].rv
      /\ call.dep.rv = objs'[Deployment].rv => call.dep = objs'[Deployment]
  BY <1>1 DEF JobInv
<1>3. at = "update" => UpdateInv(call.n, call.to)' BY <1>0, UpdateKept DEF JobInv
<1>4. ASSUME call.job \in {"stop", "start"}
      PROVE  /\ at \in {"svc", "slices"} => \A m \in 1..(call.n - 1) : objs'[m].gated /\ m \notin eps'
             /\ at = "slices" => objs'[call.n].gated
             /\ at = "gone" => Closed'
  <2>1. CASE row.phase \notin ReleasePhases
    <3>1. at = "gone" => Closed' BY <1>4, <2>1, ClosedKept DEF JobInv
    <3>2. at = "slices" => objs'[call.n].gated BY <1>4, <2>1 DEF JobInv, Keeps, Place
    <3>3. at \in {"svc", "slices"} => \A m \in 1..(call.n - 1) : m \in Services
      BY <1>0, TransitionAssumption DEF Objects, Services
    <3>4. at \in {"svc", "slices"} => \A m \in 1..(call.n - 1) : objs'[m].gated /\ m \notin eps'
      BY <1>4, <2>1, <3>3 DEF JobInv, Keeps
    <3> QED BY <3>1, <3>2, <3>4
  <2>2. CASE row.phase \in ReleasePhases
    <3>1. at = "commit" BY <1>4, <2>2
    <3> QED BY <3>1
  <2> QED BY <2>1, <2>2
<1>5. ASSUME call.job = "open"
      PROVE  /\ row'.phase \in ReleasePhases /\ call.side = SideOf(row'.phase)
             /\ at = "svc" => Steady(call.side)' /\ \A m \in 1..(call.n - 1) : Opened(objs'[m], call.side)
  <2>1. row' = row /\ row.phase \in ReleasePhases /\ call.side = SideOf(row.phase) BY <1>5 DEF JobInv, Keeps
  <2>2. \A m \in 1..(call.n - 1) : m \in Services BY <1>0, TransitionAssumption DEF Objects, Services
  <2> QED BY <1>0, <1>5, <2>1, <2>2 DEF JobInv, Keeps
<1>6. at # "idle" /\ ~Releasing(call.mode) => row'.phase \notin ReleasePhases /\ core' # "releasing"
  BY DEF JobInv, Keeps
<1> QED BY <1>2, <1>3, <1>4, <1>5, <1>6 DEF JobInv

LEMMA OutcomeKept ==
    ASSUME NEW call \in Call, Outcome(call), Keeps, UNCHANGED installed, call.phase = row.phase,
           row.phase \in ReleasePhases => call.next \in ReleasePhases
    PROVE  Outcome(call)'
<1>1. row' = row /\ Published' = Published BY DEF Keeps, Published
<1>2. call.next \in Replacing => Closed'
  BY ClosedKept DEF Outcome, Replacing, ReleasePhases
<1>3. call.next \in Released => Done(SideOf(call.next))'
  <2> SUFFICES ASSUME call.next \in Released PROVE Done(SideOf(call.next))' OBVIOUS
  <2>1. row.phase \in ReleasePhases /\ SideOf(call.next) = SideOf(row.phase) /\ Done(SideOf(call.next))
    BY DEF Outcome
  <2> QED BY <2>1, DoneKept, Sides
<1> QED BY <1>1, <1>2, <1>3 DEF Outcome

LEMMA CallKept ==
    ASSUME NEW call \in Call, NEW at, NEW locked, CallInv(call, at, locked),
           objs \in [Objects -> Object], objs' \in [Objects -> Object], Keeps, UNCHANGED <<core, installed>>
    PROVE  CallInv(call, at, locked)'
<1>1. call.job \in {"stop", "start"} /\ at # "commit" => row.phase \notin ReleasePhases
  BY DEF CallInv, Course, JobInv, Releasing
<1>2. JobInv(call, at)' BY <1>1, JobKept DEF CallInv
<1>3. locked /\ at = "commit" => Outcome(call)'
  <2> SUFFICES ASSUME locked, at = "commit" PROVE Outcome(call)' OBVIOUS
  <2>1. Outcome(call) /\ call.phase = row.phase /\ JobInv(call, at) BY DEF CallInv
  <2>2. row.phase \in ReleasePhases => call.next \in ReleasePhases BY <2>1 DEF JobInv, Outcome
  <2> QED BY <2>1, <2>2, OutcomeKept
<1>4. row' = row /\ (Bound(call.mode) => Bound(call.mode)') BY DEF Keeps, Bound
<1>5. Place(call, at)' BY DEF CallInv, Place, Opens
<1> QED BY <1>2, <1>3, <1>4, <1>5 DEF CallInv, Course

LEMMA StateKept ==
    ASSUME StoppedInv, Keeps, UNCHANGED <<core, installed, known>>
    PROVE  RowInv' /\ CoreInv'
<1>0. RowInv /\ CoreInv /\ row' = row /\ Published' = Published BY DEF StoppedInv, Keeps, Published
<1>1. row.phase \in Replacing => Closed' BY <1>0, ClosedKept DEF RowInv, Replacing, ReleasePhases
<1>2. row.phase \in Released => Done(SideOf(row.phase))'
  <2> SUFFICES ASSUME row.phase \in Released PROVE Done(SideOf(row.phase))' OBVIOUS
  <2>1. row.phase \in ReleasePhases BY DEF Released, ReleasePhases
  <2>2. PICK side \in Versions : side = SideOf(row.phase) BY Sides
  <2>3. Done(side)' BY <1>0, <2>1, <2>2, DoneKept DEF RowInv
  <2> QED BY <1>0, <2>2, <2>3
<1>3. RowInv' BY <1>0, <1>1, <1>2 DEF RowInv
<1>4. CoreInv' BY <1>0, ClosedKept DEF CoreInv
<1> QED BY <1>3, <1>4

\* Everything about the workload that a step has to show.
WorldTypes ==
    /\ objs' \in [Objects -> Object] /\ observed' \in BOOLEAN /\ pods' \subseteq Pod /\ born' \in 1..MaxPods
    /\ eps' \subseteq Services /\ faults' \in 0..MaxFaults
Sent(r) ==
    /\ r \in LateRequest
    /\ r.kind = "update" => UpdateInv(r.n, r.to) /\ row.cp /\ row.phase \notin Early
World ==
    /\ UNCHANGED <<core, installed, known, registered, broken, media>>
    /\ \A r \in late' : r \in late \/ Sent(r)
    /\ WorldTypes /\ Keeps /\ WorkloadInv' /\ ServeInv'
    /\ ~row.cp \/ row.phase \in Early => Untouched'

LEMMA WorldParts ==
    ASSUME StoppedInv, World, tx' \in [Callers -> BOOLEAN]
    PROVE  /\ Types' /\ RowInv' /\ CoreInv' /\ late' \subseteq LateRequest
           /\ \A r \in late' : r.kind = "update" => UpdateInv(r.n, r.to)'
           /\ ~row.cp \/ row.phase \in Early => \A r \in late' : r.kind # "update"
<1>0. /\ Types /\ CallTypes /\ EarlyInv /\ Keeps /\ row' = row
      /\ objs \in [Objects -> Object] /\ objs' \in [Objects -> Object]
      /\ UNCHANGED <<core, installed, known, registered, broken, media>>
  BY DEF StoppedInv, World, WorldTypes, Keeps, Types
<1>1. Types' BY <1>0 DEF Types, World, WorldTypes
<1>2. \A r \in late' : Sent(r)
  <2>1. \A r \in late : Sent(r)
    <3>1. row.cp \in BOOLEAN BY <1>0 DEF Types, Row
    <3> QED BY <1>0, <3>1 DEF StoppedInv, CallTypes, EarlyInv, Sent
  <2> QED BY <2>1 DEF World
<1>3. ASSUME NEW r \in late', r.kind = "update" PROVE UpdateInv(r.n, r.to)'
  <2>1. UpdateInv(r.n, r.to) /\ r \in LateRequest BY <1>2, <1>3 DEF Sent
  <2>2. PICK n \in Objects, to \in Object : n = r.n /\ to = r.to BY <2>1 DEF LateRequest
  <2>3. UpdateInv(n, to)' BY <1>0, <2>1, <2>2, UpdateKept
  <2> QED BY <2>2, <2>3
<1>4. late' \subseteq LateRequest /\ (~row.cp \/ row.phase \in Early => \A r \in late' : r.kind # "update")
  BY <1>2 DEF Sent
<1> QED BY <1>0, <1>1, <1>3, <1>4, StateKept

\* A step of the cluster, or a late request.
LEMMA WorldStep ==
    ASSUME StoppedInv, World, UNCHANGED calls
    PROVE  StoppedInv'
<1>0. /\ Types /\ CallTypes /\ EarlyInv /\ LockInv /\ Keeps /\ row' = row /\ UNCHANGED <<pc, tx, loc, core, installed>>
      /\ objs \in [Objects -> Object] /\ objs' \in [Objects -> Object] /\ tx' \in [Callers -> BOOLEAN]
  BY DEF StoppedInv, World, WorldTypes, Keeps, Types, calls
<1>1. /\ Types' /\ RowInv' /\ CoreInv' /\ late' \subseteq LateRequest
      /\ \A r \in late' : r.kind = "update" => UpdateInv(r.n, r.to)'
      /\ ~row.cp \/ row.phase \in Early => \A r \in late' : r.kind # "update"
  BY <1>0, WorldParts
<1>2. CallTypes' /\ LockInv' BY <1>0, <1>1 DEF CallTypes, LockInv
<1>3. EarlyInv' BY <1>0, <1>1 DEF EarlyInv, World
<1>4. ASSUME NEW c \in Callers PROVE CallInv(loc[c], pc[c], tx[c])'
  <2>1. PICK call \in Call, at \in Labels, locked \in BOOLEAN : call = loc[c] /\ at = pc[c] /\ locked = tx[c] BY CallOf
  <2>2. CallInv(call, at, locked) BY <2>1, CallOf
  <2>3. CallInv(call, at, locked)' BY <1>0, <2>2, CallKept
  <2> QED BY <1>0, <2>1, <2>3
<1> QED BY <1>1, <1>2, <1>3, <1>4 DEF StoppedInv, World

--------------------------------------------------------------------------------
(* What a step of a call has to show                                        *)

\* How a call may go on: as a call that can be there, in the phase it was begun for.
Follows(call, at, c) ==
    /\ at \in Labels /\ call \in Call
    /\ loc[c].job \in Tame => call.job \in Tame /\ at # "update"
    /\ CallInv(call, at, tx[c])
Sound(c) == End(c) \/ \E at, call : Goto(c, at, call) /\ Follows(call, at, c)

\* A caller without a call.
LEMMA IdleCall == ASSUME StoppedInv PROVE CallInv(NoCall, "idle", FALSE)
<1>1. NoCall.job = "none" /\ NoCall.dep = Original /\ Original.rv = 0 /\ ~Original.gated BY DEF NoCall, Original
<1>2. NoCall.dep.rv <= objs[Deployment].rv
  BY <1>1, ObjectFacts, Sets DEF StoppedInv, Types
<1>3. NoCall.dep.rv = objs[Deployment].rv => NoCall.dep = objs[Deployment]
  BY <1>1 DEF StoppedInv, WorkloadInv
<1>4. JobInv(NoCall, "idle") BY <1>1, <1>2, <1>3 DEF JobInv
<1> QED BY <1>1, <1>4 DEF CallInv, Place

\* One caller moves, while the workload does what it may.
LEMMA OneCall ==
    ASSUME StoppedInv, NEW c \in Callers, World, NEW call \in Call, NEW at \in Labels, NEW locked \in BOOLEAN,
           pc' = [pc EXCEPT ![c] = at], loc' = [loc EXCEPT ![c] = call], tx' = [tx EXCEPT ![c] = locked],
           locked => tx[c] \/ Unlocked,
           ~row.cp \/ row.phase \in Early => call.job \in Tame /\ at # "update",
           CallInv(call, at, locked)
    PROVE  StoppedInv'
<1>0. /\ Types /\ CallTypes /\ EarlyInv /\ LockInv /\ Keeps /\ row' = row /\ UNCHANGED <<core, installed>>
      /\ objs \in [Objects -> Object] /\ objs' \in [Objects -> Object]
  BY DEF StoppedInv, World, WorldTypes, Keeps, Types
<1>2. /\ pc'[c] = at /\ loc'[c] = call /\ tx'[c] = locked
      /\ \A d \in Callers : d # c => pc'[d] = pc[d] /\ loc'[d] = loc[d] /\ tx'[d] = tx[d]
  BY <1>0 DEF CallTypes, Types
<1>3. tx' \in [Callers -> BOOLEAN] /\ pc' \in [Callers -> Labels] /\ loc' \in [Callers -> Call]
  BY <1>0 DEF Types, CallTypes
<1>4. /\ Types' /\ RowInv' /\ CoreInv' /\ late' \subseteq LateRequest
      /\ \A r \in late' : r.kind = "update" => UpdateInv(r.n, r.to)'
      /\ ~row.cp \/ row.phase \in Early => \A r \in late' : r.kind # "update"
  BY <1>3, WorldParts
<1>5. CallTypes' BY <1>3, <1>4 DEF CallTypes
<1>6. LockInv' BY <1>0, <1>2 DEF LockInv, Unlocked
<1>7. EarlyInv'
  <2>1. ~row.cp \/ row.phase \in Early => \A d \in Callers : loc'[d].job \in Tame /\ pc'[d] # "update"
    BY <1>0, <1>2 DEF EarlyInv
  <2> QED BY <1>0, <1>4, <2>1 DEF EarlyInv, World
<1>8. ASSUME NEW d \in Callers PROVE CallInv(loc[d], pc[d], tx[d])'
  <2>1. CASE d = c
    <3>1. CallInv(call, at, locked)' BY <1>0, CallKept
    <3> QED BY <1>2, <2>1, <3>1
  <2>2. CASE d # c
    <3>1. PICK old \in Call, was \in Labels, held \in BOOLEAN : old = loc[d] /\ was = pc[d] /\ held = tx[d] BY CallOf
    <3>2. CallInv(old, was, held) BY <3>1, CallOf
    <3>3. CallInv(old, was, held)' BY <1>0, <3>2, CallKept
    <3> QED BY <1>2, <2>2, <3>1, <3>3
  <2> QED BY <2>1, <2>2
<1> QED BY <1>4, <1>5, <1>6, <1>7, <1>8 DEF StoppedInv, World

LEMMA CallerStep ==
    ASSUME StoppedInv, NEW c \in Callers, World, Sound(c)
    PROVE  StoppedInv'
<1>0. Types /\ CallTypes /\ EarlyInv BY DEF StoppedInv
<1>1. CASE End(c)
  <2>1. NoCall.job \in Tame /\ "idle" \in Labels BY DEF NoCall, Tame, Labels
  <2> QED BY <1>1, <2>1, IdleCall, NoCallType, OneCall DEF End
<1>2. ASSUME NEW at, NEW call, Goto(c, at, call), Follows(call, at, c) PROVE StoppedInv'
  <2>1. PICK locked \in BOOLEAN : locked = tx[c] BY <1>0 DEF Types
  <2>2. tx' = [tx EXCEPT ![c] = locked] BY <1>0, <1>2, <2>1 DEF Goto, Types
  <2>3. ~row.cp \/ row.phase \in Early => call.job \in Tame /\ at # "update" BY <1>0, <1>2 DEF Follows, EarlyInv
  <2>4. /\ CallInv(call, at, locked) /\ call \in Call /\ at \in Labels
        /\ pc' = [pc EXCEPT ![c] = at] /\ loc' = [loc EXCEPT ![c] = call]
    BY <1>2, <2>1 DEF Goto, Follows
  <2>5. locked => tx[c] \/ Unlocked BY <2>1
  <2> QED BY <2>2, <2>3, <2>4, <2>5, OneCall
<1> QED BY <1>1, <1>2 DEF Sound

\* Steps that change nothing but their own call.
LEMMA QuietStep ==
    ASSUME StoppedInv, NEW c \in Callers, Quiet, UNCHANGED routes, Sound(c)
    PROVE  StoppedInv'
<1>1. UNCHANGED <<core, installed, known, registered, row, objs, observed, pods, born, broken, late, faults, eps, media>>
  BY DEF Quiet, routes, authority, workload
<1>2. Keeps BY <1>1 DEF Keeps, Steady, Opened
<1>3. WorldTypes BY <1>1 DEF WorldTypes, StoppedInv, Types
<1>4. WorkloadInv' /\ ServeInv' BY <1>1 DEF StoppedInv, WorkloadInv, ServeInv, OneVersionRuns, Closed, Published
<1>5. ~row.cp \/ row.phase \in Early => Untouched' BY <1>1 DEF StoppedInv, EarlyInv, Untouched
<1>6. World BY <1>1, <1>2, <1>3, <1>4, <1>5 DEF World
<1> QED BY <1>6, CallerStep

\* A call goes on with its job, or with the next one.
LEMMA Move ==
    ASSUME StoppedInv, NEW c \in Callers, NEW at \in Labels \ {"idle", "commit"}, NEW call \in Call,
           pc[c] \notin {"idle", "commit"}, Goto(c, at, call),
           call.mode = loc[c].mode, call.phase = loc[c].phase, call.cp = loc[c].cp,
           loc[c].job \in Tame => call.job \in Tame /\ at # "update",
           Course(call), Place(call, at), JobInv(call, at)
    PROVE  Sound(c)
<1>1. CallInv(call, at, tx[c]) BY CallOf DEF CallInv
<1> QED BY <1>1 DEF Sound, Follows

\* A call goes to its commit.
LEMMA Settles ==
    ASSUME StoppedInv, NEW c \in Callers, pc[c] \notin {"idle", "commit"}, NEW next \in Phases, NEW cp \in BOOLEAN,
           Goto(c, "commit", [loc[c] EXCEPT !.next = next, !.cp = cp]), cp = loc[c].cp \/ cp = TRUE,
           ASSUME tx[c], NEW call \in Call, call.next = next, call.cp = cp, call.mode = loc[c].mode,
                  call.phase = loc[c].phase
           PROVE  Outcome(call)
    PROVE  Sound(c)
<1>1. PICK call \in Call : call = [loc[c] EXCEPT !.next = next, !.cp = cp] BY CallOf DEF Call
<1>2. /\ call.next = next /\ call.cp = cp /\ call.mode = loc[c].mode /\ call.phase = loc[c].phase
      /\ call.job = loc[c].job /\ call.dep = loc[c].dep /\ call.side = loc[c].side
  BY <1>1, CallOf DEF Call
<1>3. CallInv(loc[c], pc[c], tx[c]) BY CallOf
<1>4. JobInv(call, "commit") BY <1>2, <1>3 DEF CallInv, JobInv
<1>5. Place(call, "commit") BY DEF Place
<1>6. tx[c] => Outcome(call) BY <1>2
<1>7. CallInv(call, "commit", tx[c])
  <2>1. call.mode \in Modes BY <1>2, <1>3 DEF CallInv
  <2>2. tx[c] => /\ Bound(call.mode) /\ call.phase = row.phase /\ row.phase # "none" /\ (row.cp => call.cp)
    BY <1>2, <1>3 DEF CallInv
  <2> QED BY <1>4, <1>5, <1>6, <2>1, <2>2 DEF CallInv
<1>8. loc[c].job \in Tame => call.job \in Tame BY <1>2
<1>9. Goto(c, "commit", call) BY <1>1
<1> QED BY <1>7, <1>8, <1>9 DEF Sound, Follows, Labels

\* What holds of a call that has its transaction and is not yet at its commit.
LEMMA Holding ==
    ASSUME StoppedInv, NEW c \in Callers, pc[c] \notin {"idle", "commit"}, tx[c]
    PROVE  /\ loc[c].phase = row.phase /\ row.phase # "none" /\ loc[c].cp = row.cp
           /\ row.phase \in Captured => row.cp
           /\ row.phase \in Replacing => Closed
           /\ row.phase \in Released => Done(SideOf(row.phase))
           /\ row.phase \in ReleasePhases => SideOf(row.phase) = Published
  BY CallOf DEF StoppedInv, RowInv, CoreInv, CallInv

LEMMA DecideSound ==
    ASSUME StoppedInv, NEW c \in Callers, pc[c] \notin {"idle", "commit"}, NEW next \in Phases, Decide(c, next),
           ASSUME tx[c], NEW call \in Call, call.next = next, call.cp = loc[c].cp, call.mode = loc[c].mode,
                  call.phase = loc[c].phase
           PROVE  Outcome(call)
    PROVE  Sound(c)
<1>1. loc[c].cp \in BOOLEAN /\ [loc[c] EXCEPT !.next = next] = [loc[c] EXCEPT !.next = next, !.cp = loc[c].cp]
  BY CallOf DEF Call
<1>2. Goto(c, "commit", [loc[c] EXCEPT !.next = next, !.cp = loc[c].cp]) BY <1>1 DEF Decide
<1> QED BY <1>1, <1>2, Settles

LEMMA ConflictSound ==
    ASSUME StoppedInv, NEW c \in Callers, pc[c] \notin {"idle", "commit"}, Conflict(c)
    PROVE  Sound(c)
<1>0. Course(loc[c]) BY CallOf DEF CallInv
<1>1. CASE loc[c].mode = "prepare" /\ loc[c].phase = "checking" /\ Decide(c, "rejected_preflight")
  <2>1. ASSUME tx[c], NEW call \in Call, call.next = "rejected_preflight", call.cp = loc[c].cp,
               call.mode = loc[c].mode, call.phase = loc[c].phase
        PROVE  Outcome(call)
    <3>1. row.phase = "checking" BY <1>1, <2>1, Holding
    <3> QED BY <1>1, <2>1, <3>1 DEF Outcome, Captured, Replacing, Early, Rejections, Released, ReleasePhases, Releasing
  <2>2. "rejected_preflight" \in Phases BY DEF Phases
  <2> QED BY <1>1, <2>1, <2>2, DecideSound
<1>2. CASE loc[c].mode = "prepare" /\ loc[c].phase # "checking" /\ Decide(c, "recovery_required")
  <2>1. ASSUME tx[c], NEW call \in Call, call.next = "recovery_required", call.cp = loc[c].cp,
               call.mode = loc[c].mode, call.phase = loc[c].phase
        PROVE  Outcome(call)
    <3>1. loc[c].phase \in {"sealing", "applying", "verifying", "prepared"} BY <1>0, <1>2 DEF Course, Releasing
    <3>2. call.cp BY <2>1, <3>1, Holding DEF Captured, Replacing
    <3> QED BY <1>2, <2>1, <3>1, <3>2
          DEF Outcome, Captured, Replacing, Early, Rejections, Released, ReleasePhases, Releasing
  <2>2. "recovery_required" \in Phases BY DEF Phases
  <2> QED BY <1>2, <2>1, <2>2, DecideSound
<1>3. CASE End(c) BY <1>3 DEF Sound
<1> QED BY <1>1, <1>2, <1>3 DEF Conflict

LEMMA BusySound ==
    ASSUME StoppedInv, NEW c \in Callers, pc[c] \notin {"idle", "commit"}, Busy(c)
    PROVE  Sound(c)
<1>0. Course(loc[c]) BY CallOf DEF CallInv
<1>1. CASE loc[c].phase = "checking"
  <2>0. loc[c].mode = "prepare" BY <1>0, <1>1 DEF Course, ReleasePhases
  <2>1. ASSUME tx[c], NEW call \in Call, call.next = "canceled_source", call.cp = TRUE,
               call.mode = loc[c].mode, call.phase = loc[c].phase
        PROVE  Outcome(call)
    <3>1. row.phase = "checking" BY <1>1, <2>1, Holding
    <3> QED BY <1>1, <2>0, <2>1, <3>1
          DEF Outcome, Captured, Replacing, Early, Rejections, Released, ReleasePhases, Releasing
  <2>2. "canceled_source" \in Phases BY DEF Phases
  <2>3. Goto(c, "commit", [loc[c] EXCEPT !.next = "canceled_source", !.cp = TRUE]) BY <1>1 DEF Busy
  <2> QED BY <2>1, <2>2, <2>3, Settles
<1>2. CASE loc[c].phase # "checking"
  <2>1. Conflict(c) BY <1>2 DEF Busy
  <2> QED BY <2>1, ConflictSound
<1> QED BY <1>1, <1>2

LEMMA AgainSound ==
    ASSUME StoppedInv, NEW c \in Callers, pc[c] \notin {"idle", "commit"}, loc[c].job \notin Tame, Again(c)
    PROVE  Sound(c)
<1>0. Course(loc[c]) BY CallOf DEF CallInv
<1>1. PICK phase \in Phases : phase = loc[c].phase BY CallOf, CallFacts
<1>2. ASSUME tx[c], NEW call \in Call, call.next = phase, call.cp = loc[c].cp, call.mode = loc[c].mode,
             call.phase = loc[c].phase
      PROVE  Outcome(call)
  <2>1. /\ phase = row.phase /\ phase # "none" /\ (phase \in Captured => call.cp) /\ (phase \in Replacing => Closed)
        /\ phase \in Released => Done(SideOf(phase))
        /\ phase \in ReleasePhases => SideOf(phase) = Published
        /\ call.cp = row.cp
    BY <1>1, <1>2, Holding
  <2>2. phase \notin Early /\ (phase \in ReleasePhases <=> Releasing(loc[c].mode))
    BY <1>0, <1>1 DEF Course, Early, ReleasePhases, Tame, Releasing
  <2>3. phase \in Released => phase \in ReleasePhases BY DEF Released, ReleasePhases
  <2>4. Rejections \subseteq Early BY DEF Rejections, Early
  <2> QED BY <1>1, <1>2, <2>1, <2>2, <2>3, <2>4 DEF Outcome
<1>3. Decide(c, phase) BY <1>1 DEF Again
<1> QED BY <1>2, <1>3, DecideSound

\* The next job begins with a look at the Deployment.
LEMMA DoSound ==
    ASSUME StoppedInv, NEW c \in Callers, pc[c] \notin {"idle", "commit"}, NEW job, NEW side \in Versions,
           Do(c, job, side), job \in Jobs \ {"none", "barrier", "open"}, loc[c].job \in Tame => job \in Tame,
           ASSUME NEW call \in Call, call.mode = loc[c].mode, call.phase = loc[c].phase, call.next = loc[c].next,
                  call.job = job, call.cp = loc[c].cp
           PROVE  Course(call)
    PROVE  Sound(c)
<1>1. PICK call \in Call : call = [loc[c] EXCEPT !.job = job, !.side = side] BY CallOf DEF Call
<1>2. /\ call.mode = loc[c].mode /\ call.phase = loc[c].phase /\ call.next = loc[c].next /\ call.job = job
      /\ call.cp = loc[c].cp /\ call.dep = loc[c].dep
  BY <1>1, CallOf DEF Call
<1>3. Course(call) BY <1>2
<1>4. JobInv(call, "dep") BY <1>2, CallOf DEF CallInv, JobInv
<1>5. Place(call, "dep") BY <1>2 DEF Place
<1>6. Goto(c, "dep", call) BY <1>1 DEF Do
<1> QED BY <1>2, <1>3, <1>4, <1>5, <1>6, Move DEF Labels

\* A job that succeeded: stop has found the routes closed, open every Service opened.
LEMMA FinishedSound ==
    ASSUME StoppedInv, NEW c \in Callers, pc[c] \notin {"idle", "commit"}, Finished(c),
           loc[c].job \in {"capture", "barrier", "drain", "stop", "start", "check", "open"},
           loc[c].job = "stop" => Closed, loc[c].job = "open" => Done(loc[c].side)
    PROVE  Sound(c)
<1>0. Course(loc[c]) /\ loc[c] \in Call /\ loc[c].side \in Versions /\ loc[c].next \in Phases
  BY CallOf, CallFacts DEF CallInv
<1>1. CASE loc[c].job = "capture"
  <2>1. Do(c, "check", "source") BY <1>1 DEF Finished
  <2>2. ASSUME NEW call \in Call, call.mode = loc[c].mode, call.phase = loc[c].phase, call.next = loc[c].next,
               call.job = "check", call.cp = loc[c].cp
        PROVE  Course(call)
    BY <1>0, <1>1, <2>2 DEF Course
  <2> QED BY <2>1, <2>2, DoSound DEF Jobs, Tame, Versions
<1>2. CASE loc[c].job = "barrier"
  <2>1. PICK job \in {"quiesce", "stop"} : Do(c, job, loc[c].side) BY <1>2 DEF Finished
  <2>2. ASSUME NEW call \in Call, call.mode = loc[c].mode, call.phase = loc[c].phase, call.next = loc[c].next,
               call.job = job, call.cp = loc[c].cp
        PROVE  Course(call)
    BY <1>0, <1>2, <2>2 DEF Course
  <2>3. PICK side \in Versions : side = loc[c].side BY <1>0
  <2> QED BY <1>2, <2>1, <2>2, <2>3, DoSound DEF Jobs, Tame
<1>3. CASE loc[c].job = "drain"
  <2>1. Do(c, "stop", loc[c].side) BY <1>3 DEF Finished
  <2>2. ASSUME NEW call \in Call, call.mode = loc[c].mode, call.phase = loc[c].phase, call.next = loc[c].next,
               call.job = "stop", call.cp = loc[c].cp
        PROVE  Course(call)
    BY <1>0, <1>3, <2>2 DEF Course
  <2>3. PICK side \in Versions : side = loc[c].side BY <1>0
  <2> QED BY <1>3, <2>1, <2>2, <2>3, DoSound DEF Jobs, Tame
<1>4. CASE loc[c].job = "stop" /\ loc[c].phase = "restoring"
  <2>1. Do(c, "resume", "source") BY <1>4 DEF Finished
  <2>2. ASSUME NEW call \in Call, call.mode = loc[c].mode, call.phase = loc[c].phase, call.next = loc[c].next,
               call.job = "resume", call.cp = loc[c].cp
        PROVE  Course(call)
    BY <1>0, <1>4, <2>2 DEF Course, ReleasePhases
  <2> QED BY <1>4, <2>1, <2>2, DoSound DEF Jobs, Tame, Versions
<1>5. CASE loc[c].job = "start" /\ loc[c].phase = "restoring"
  <2>1. Again(c) BY <1>5 DEF Finished
  <2> QED BY <1>5, <2>1, AgainSound DEF Tame
<1>6. CASE loc[c].job \in {"check", "open"} \/ (loc[c].job \in {"stop", "start"} /\ loc[c].phase # "restoring")
  <2>1. Goto(c, "commit", [loc[c] EXCEPT !.cp = TRUE]) BY <1>6 DEF Finished
  <2>2. PICK next \in Phases : next = loc[c].next BY <1>0
  <2>3. [loc[c] EXCEPT !.cp = TRUE] = [loc[c] EXCEPT !.next = next, !.cp = TRUE] BY <1>0, <2>2 DEF Call
  <2>4. ASSUME tx[c], NEW call \in Call, call.next = next, call.cp = TRUE, call.mode = loc[c].mode,
               call.phase = loc[c].phase
        PROVE  Outcome(call)
    <3>1. CASE loc[c].job = "open"
      <4>1. /\ call.next \in Released /\ call.phase \in ReleasePhases /\ Releasing(call.mode)
            /\ SideOf(call.next) = SideOf(call.phase) /\ SideOf(call.next) = loc[c].side
        BY <1>0, <2>2, <2>4, <3>1 DEF Course
      <4>2. SideOf(call.next) = Published BY <2>4, <4>1, Holding
      <4>3. /\ call.next \notin Replacing /\ call.next \notin Early /\ call.next # "none" /\ call.next \in ReleasePhases
            /\ call.mode # "prepare"
        BY <4>1 DEF Released, Replacing, Early, ReleasePhases, Releasing
      <4>4. Done(SideOf(call.next)) BY <3>1, <4>1
      <4> QED BY <2>4, <4>1, <4>2, <4>3, <4>4 DEF Outcome
    <3>2. CASE loc[c].job # "open"
      <4>1. /\ call.next \in {"sealing", "applying", "verifying", "prepared", "restored"} /\ ~Releasing(call.mode)
            /\ call.mode = "prepare" => call.phase \notin Rejections
            /\ call.phase \notin Released
        BY <1>0, <1>6, <2>2, <2>4, <3>2 DEF Course, Releasing, Rejections, Released
      <4>2. call.next \in Replacing => Closed
        <5>1. CASE loc[c].job = "stop" BY <5>1
        <5>2. CASE loc[c].job # "stop"
          <6>1. call.next \in Replacing => row.phase \in Replacing
            BY <1>0, <1>6, <2>2, <2>4, <3>2, <5>2, Holding DEF Course, Replacing, Releasing
          <6> QED BY <2>4, <6>1, Holding
        <5> QED BY <5>1, <5>2
      <4>3. call.next \notin Early /\ call.next \notin Released /\ call.next \notin ReleasePhases /\ call.next # "none"
        BY <4>1 DEF Early, Released, ReleasePhases
      <4> QED BY <2>4, <4>1, <4>2, <4>3 DEF Outcome
    <3> QED BY <3>1, <3>2
  <2> QED BY <2>1, <2>2, <2>3, <2>4, Settles
<1> QED BY <1>1, <1>2, <1>3, <1>4, <1>5, <1>6

--------------------------------------------------------------------------------
(* Updates that a call prepares                                             *)

\* Once prepared, an update is as UpdateInv says, and the call waits for it.
LEMMA ChangeSound ==
    ASSUME StoppedInv, NEW c \in Callers, pc[c] \notin {"idle", "commit"}, NEW n \in Objects, NEW to \in Object,
           NEW rv \in Nat, NEW seen, seen.rv = rv, Change(c, n, seen, to),
           loc[c].job \in {"open", "gate", "stop", "start"},
           ASSUME NEW new \in Object, new.ver = to.ver, new.up = to.up, new.gated = to.gated, new.rv = rv + 1
           PROVE  UpdateInv(n, new) /\ (loc[c].job = "open" <=> Opens(n, new))
    PROVE  Sound(c)
<1>0. rv + 1 \in Nat OBVIOUS
<1>1. PICK new \in Object : new = [to EXCEPT !.rv = rv + 1] BY <1>0 DEF Object
<1>2. new.ver = to.ver /\ new.up = to.up /\ new.gated = to.gated /\ new.rv = rv + 1 BY <1>1 DEF Object
<1>3. UpdateInv(n, new) /\ (loc[c].job = "open" <=> Opens(n, new)) BY <1>2
<1>4. PICK call \in Call : call = [loc[c] EXCEPT !.n = n, !.to = new] BY CallOf DEF Call
<1>5. /\ call.mode = loc[c].mode /\ call.phase = loc[c].phase /\ call.next = loc[c].next /\ call.job = loc[c].job
      /\ call.cp = loc[c].cp /\ call.dep = loc[c].dep /\ call.side = loc[c].side /\ call.n = n /\ call.to = new
  BY <1>4, CallOf DEF Call
<1>6. CallInv(loc[c], pc[c], tx[c]) BY CallOf
<1>7. Course(call) BY <1>5, <1>6 DEF CallInv, Course
<1>8. JobInv(call, "update") BY <1>3, <1>5, <1>6 DEF CallInv, JobInv
<1>9. Place(call, "update") BY <1>3, <1>5 DEF Place
<1>10. Goto(c, "update", call) BY <1>1, <1>4 DEF Change
<1> QED BY <1>5, <1>7, <1>8, <1>9, <1>10, Move DEF Labels, Tame

LEMMA GateSound ==
    ASSUME StoppedInv, NEW c \in Callers, pc[c] = "svc", loc[c].job = "gate", objs[loc[c].n].ver # "other",
           Change(c, loc[c].n, objs[loc[c].n], [objs[loc[c].n] EXCEPT !.gated = TRUE])
    PROVE  Sound(c)
<1>1. PICK n \in Services : n = loc[c].n BY CallOf DEF CallInv, Place
<1>2. PICK s \in Object : s = objs[n] BY <1>1, Sets DEF StoppedInv, Types
<1>3. PICK to \in Object : to = [s EXCEPT !.gated = TRUE] BY DEF Object
<1>4. to.ver = s.ver /\ to.up = s.up /\ to.gated = TRUE BY <1>3 DEF Object
<1>5. s.up /\ s.ver \in Versions /\ s.rv \in Nat BY <1>1, <1>2, ObjectFacts DEF StoppedInv, WorkloadInv
<1>6. row.phase \notin ReleasePhases /\ core # "releasing" BY CallOf DEF CallInv, JobInv, Course, Releasing
<1>7. ASSUME NEW new \in Object, new.ver = to.ver, new.up = to.up, new.gated = to.gated, new.rv = s.rv + 1
      PROVE  UpdateInv(n, new) /\ (loc[c].job = "open" <=> Opens(n, new))
  <2>1. new.rv <= objs[n].rv + 1 /\ n \in Services /\ n # Deployment BY <1>1, <1>2, <1>5, <1>7, Sets
  <2> QED BY <1>2, <1>4, <1>5, <1>6, <1>7, <2>1 DEF UpdateInv, Opens
<1>8. Change(c, n, s, to) BY <1>1, <1>2, <1>3
<1>9. n \in Objects /\ pc[c] \notin {"idle", "commit"} /\ loc[c].job \in {"open", "gate", "stop", "start"}
  BY <1>1, Sets
<1> QED BY <1>5, <1>7, <1>8, <1>9, ChangeSound

LEMMA OpenSound ==
    ASSUME StoppedInv, NEW c \in Callers, pc[c] = "svc", loc[c].job = "open",
           Change(c, loc[c].n, objs[loc[c].n],
                  [objs[loc[c].n] EXCEPT !.gated = FALSE, !.ver = loc[c].side, !.op = (loc[c].side = "target")])
    PROVE  Sound(c)
<1>1. PICK n \in Services : n = loc[c].n BY CallOf DEF CallInv, Place
<1>2. PICK s \in Object : s = objs[n] BY <1>1, Sets DEF StoppedInv, Types
<1>3. PICK side \in Versions : side = loc[c].side BY CallOf, CallFacts
<1>4. PICK to \in Object : to = [s EXCEPT !.gated = FALSE, !.ver = side, !.op = (side = "target")] BY DEF Object, Versions
<1>5. to.ver = side /\ to.up = s.up /\ to.gated = FALSE BY <1>4 DEF Object
<1>6. s.up /\ s.rv \in Nat BY <1>1, <1>2, ObjectFacts DEF StoppedInv, WorkloadInv
<1>7. row.phase \in ReleasePhases /\ side = SideOf(row.phase) /\ Steady(side) BY <1>3, CallOf DEF CallInv, JobInv
<1>8. ASSUME NEW new \in Object, new.ver = to.ver, new.up = to.up, new.gated = to.gated, new.rv = s.rv + 1
      PROVE  UpdateInv(n, new) /\ (loc[c].job = "open" <=> Opens(n, new))
  <2>1. new.rv <= objs[n].rv + 1 /\ n \in Services /\ n # Deployment BY <1>1, <1>2, <1>6, <1>8, Sets
  <2> QED BY <1>2, <1>5, <1>6, <1>7, <1>8, <2>1 DEF UpdateInv, Opens
<1>9. Change(c, n, s, to) BY <1>1, <1>2, <1>3, <1>4
<1> QED BY <1>1, <1>6, <1>8, <1>9, ChangeSound, Sets

LEMMA StopSound ==
    ASSUME StoppedInv, NEW c \in Callers, pc[c] = "slices", loc[c].job = "stop", Closed,
           Change(c, Deployment, loc[c].dep, [loc[c].dep EXCEPT !.up = FALSE, !.op = TRUE])
    PROVE  Sound(c)
<1>1. PICK d \in Object : d = loc[c].dep BY CallOf, CallFacts
<1>2. PICK to \in Object : to = [d EXCEPT !.up = FALSE, !.op = TRUE] BY DEF Object
<1>3. to.ver = d.ver /\ to.up = FALSE /\ to.gated = d.gated BY <1>2 DEF Object
<1>4. /\ d.rv <= objs[Deployment].rv /\ ~d.gated /\ (d.rv = objs[Deployment].rv => d = objs[Deployment])
      /\ d.ver # "other" /\ row.phase \notin ReleasePhases /\ core # "releasing"
  BY <1>1, CallOf DEF CallInv, JobInv, Place, Course, Releasing
<1>5. /\ d.rv \in Nat /\ d.ver \in Versions /\ objs[Deployment] \in Object /\ objs[Deployment].rv \in Nat
  BY <1>4, ObjectFacts, Sets DEF StoppedInv, Types
<1>6. ASSUME NEW new \in Object, new.ver = to.ver, new.up = to.up, new.gated = to.gated, new.rv = d.rv + 1
      PROVE  UpdateInv(Deployment, new) /\ (loc[c].job = "open" <=> Opens(Deployment, new))
  <2>1. new.rv <= objs[Deployment].rv + 1 BY <1>4, <1>5, <1>6
  <2>2. objs[Deployment].rv + 1 = new.rv => d = objs[Deployment] BY <1>4, <1>5, <1>6
  <2> QED BY <1>3, <1>4, <1>5, <1>6, <2>1, <2>2, Sets DEF UpdateInv, Opens, Current
<1>7. Change(c, Deployment, d, to) BY <1>1, <1>2
<1> QED BY <1>5, <1>6, <1>7, ChangeSound, Sets

LEMMA StartSound ==
    ASSUME StoppedInv, NEW c \in Callers, pc[c] = "gone", loc[c].job = "start", pods = {},
           Change(c, Deployment, loc[c].dep, [loc[c].dep EXCEPT !.ver = loc[c].side, !.op = TRUE, !.up = TRUE])
    PROVE  Sound(c)
<1>1. PICK d \in Object : d = loc[c].dep BY CallOf, CallFacts
<1>2. PICK side \in Versions : side = loc[c].side BY CallOf, CallFacts
<1>3. PICK to \in Object : to = [d EXCEPT !.ver = side, !.op = TRUE, !.up = TRUE] BY DEF Object, Versions
<1>4. to.ver = side /\ to.up = TRUE /\ to.gated = d.gated BY <1>3 DEF Object
<1>5. /\ d.rv <= objs[Deployment].rv /\ ~d.gated /\ (d.rv = objs[Deployment].rv => d = objs[Deployment])
      /\ ~d.up /\ row.phase \notin ReleasePhases /\ core # "releasing" /\ Closed
  BY <1>1, CallOf DEF CallInv, JobInv, Place, Course, Releasing
<1>6. d.rv \in Nat /\ objs[Deployment] \in Object /\ objs[Deployment].rv \in Nat
  BY ObjectFacts, Sets DEF StoppedInv, Types
<1>7. ASSUME NEW new \in Object, new.ver = to.ver, new.up = to.up, new.gated = to.gated, new.rv = d.rv + 1
      PROVE  UpdateInv(Deployment, new) /\ (loc[c].job = "open" <=> Opens(Deployment, new))
  <2>1. new.rv <= objs[Deployment].rv + 1 BY <1>5, <1>6, <1>7
  <2>2. objs[Deployment].rv + 1 = new.rv => d = objs[Deployment] BY <1>5, <1>6, <1>7
  <2> QED BY <1>4, <1>5, <1>7, <2>1, <2>2, Sets DEF UpdateInv, Opens, Current
<1>8. Change(c, Deployment, d, to) BY <1>1, <1>2, <1>3
<1> QED BY <1>6, <1>7, <1>8, ChangeSound, Sets

--------------------------------------------------------------------------------
(* The reads                                                                *)

\* A call looks at the Deployment, for the job it has or for another one.
LEMMA LookSound ==
    ASSUME StoppedInv, NEW c \in Callers, pc[c] \notin {"idle", "commit"}, NEW call \in Call, Goto(c, "dep", call),
           call.mode = loc[c].mode, call.phase = loc[c].phase, call.cp = loc[c].cp, call.dep = loc[c].dep,
           call.job \in Jobs \ {"none", "barrier", "open"}, loc[c].job \in Tame => call.job \in Tame, Course(call)
    PROVE  Sound(c)
<1>1. JobInv(call, "dep") BY CallOf DEF CallInv, JobInv
<1>2. Place(call, "dep") BY DEF Place
<1> QED BY <1>1, <1>2, Move DEF Labels

LEMMA DeploymentFacts ==
    ASSUME StoppedInv
    PROVE  /\ objs[Deployment] \in Object /\ objs[Deployment].rv \in Nat /\ objs[Deployment].up \in BOOLEAN
           /\ ~objs[Deployment].gated
           /\ objs[Deployment].up /\ objs[Deployment].ver # "other" => Steady(objs[Deployment].ver)
  BY ObjectFacts, Sets DEF StoppedInv, Types, WorkloadInv, Steady

LEMMA BaseReadDeployment ==
    ASSUME StoppedInv, NEW c \in Callers, ReadDeployment(c)
    PROVE  Sound(c)
<1> DEFINE d == objs[Deployment]
           ready == IF d.up THEN managementReady ELSE observed /\ LivePods = {}
           read == [loc[c] EXCEPT !.n = 1, !.dep = d, !.ready = ready]
           proved == d.ver = loc[c].side /\ managementReady
<1>0. /\ pc[c] = "dep" /\ loc[c] \in Call /\ Course(loc[c]) /\ JobInv(loc[c], "dep") /\ loc[c].job \in Jobs
      /\ loc[c].job \notin {"none", "barrier"}
  BY CallOf, CallFacts DEF ReadDeployment, CallInv, Place
<1>1. ASSUME NEW at \in {"svc", "pods"}, Goto(c, at, read), d.ver # "other",
             at = "svc" => loc[c].job \in {"capture", "open", "gate", "stop", "start"},
             at = "pods" => loc[c].job \in {"check", "drain"}, loc[c].job = "open" => proved
      PROVE  Sound(c)
  <2>1. ready \in BOOLEAN
    <3>1. observed \in BOOLEAN BY DEF StoppedInv, Types
    <3> QED BY <3>1 DEF managementReady
  <2>2. 1 \in Objects /\ 1 \in Services BY Sets
  <2>3. PICK call \in Call : call = read BY <1>0, <2>1, <2>2, DeploymentFacts DEF Call
  <2>4. /\ call.mode = loc[c].mode /\ call.phase = loc[c].phase /\ call.next = loc[c].next /\ call.job = loc[c].job
        /\ call.cp = loc[c].cp /\ call.dep = d /\ call.side = loc[c].side /\ call.n = 1
    BY <1>0, <2>3 DEF Call
  <2>5. Course(call) BY <1>0, <2>4 DEF Course
  <2>6. Place(call, at) BY <1>1, <2>2, <2>4 DEF Place
  <2>7. call.job = "open" => Steady(call.side)
    <3> SUFFICES ASSUME call.job = "open" PROVE Steady(call.side) OBVIOUS
    <3>1. d.ver = loc[c].side /\ d.up BY <1>1, <2>4 DEF managementReady
    <3> QED BY <1>1, <2>4, <3>1, DeploymentFacts
  <2>8. \A m : m \notin 1..(call.n - 1) BY <2>4
  <2>9. JobInv(call, at) BY <1>0, <1>1, <2>4, <2>7, <2>8, DeploymentFacts DEF JobInv
  <2> QED BY <1>0, <1>1, <2>3, <2>4, <2>5, <2>6, <2>9, Move DEF Labels
<1>2. CASE Conflict(c) BY <1>0, <1>2, ConflictSound
<1>3. CASE d.ver # "other" /\ ~Conflict(c)
  <2>0. CASE loc[c].job = "quiesce"
    <3>1. PICK job \in {"drain", "stop"} : Do(c, job, "source") BY <1>3, <2>0, Zenon DEF ReadDeployment
    <3>2. ASSUME NEW call \in Call, call.mode = loc[c].mode, call.phase = loc[c].phase, call.next = loc[c].next,
                 call.job = job, call.cp = loc[c].cp
          PROVE  Course(call)
      BY <1>0, <2>0, <3>2 DEF Course
    <3> QED BY <1>0, <2>0, <3>1, <3>2, DoSound DEF Jobs, Tame, Versions
  <2>1. CASE loc[c].job = "look"
    <3>1. CASE d.ver = "source"
      <4>1. Do(c, "resume", "source") BY <1>3, <2>1, <3>1 DEF ReadDeployment
      <4>2. ASSUME NEW call \in Call, call.mode = loc[c].mode, call.phase = loc[c].phase, call.next = loc[c].next,
                   call.job = "resume", call.cp = loc[c].cp
            PROVE  Course(call)
        BY <1>0, <2>1, <4>2 DEF Course
      <4> QED BY <1>0, <2>1, <4>1, <4>2, DoSound DEF Jobs, Tame, Versions
    <3>2. CASE d.ver # "source"
      <4>1. PICK job \in {"drain", "stop"} :
              Goto(c, "dep", [loc[c] EXCEPT !.side = "target", !.ask = "idle", !.job = job])
        BY <1>3, <2>1, <3>2 DEF ReadDeployment
      <4>2. PICK call \in Call : call = [loc[c] EXCEPT !.side = "target", !.ask = "idle", !.job = job]
        BY <1>0 DEF Call, Jobs, Tame, Versions, Asks
      <4>3. /\ call.mode = loc[c].mode /\ call.phase = loc[c].phase /\ call.next = loc[c].next /\ call.job = job
            /\ call.cp = loc[c].cp /\ call.dep = loc[c].dep
        BY <1>0, <4>2 DEF Call
      <4>4. Course(call) BY <1>0, <2>1, <4>3 DEF Course
      <4> QED BY <1>0, <2>1, <4>1, <4>2, <4>3, <4>4, LookSound DEF Jobs, Tame
    <3> QED BY <3>1, <3>2
  <2>2. CASE loc[c].job = "resume"
    <3>1. PICK job \in {"check", "start"} : Goto(c, "dep", [loc[c] EXCEPT !.ask = "any", !.proc = 0, !.job = job])
      BY <1>3, <2>2 DEF ReadDeployment
    <3>2. PICK call \in Call : call = [loc[c] EXCEPT !.ask = "any", !.proc = 0, !.job = job]
      <4>1. 0 \in 0..MaxPods /\ "any" \in Asks /\ job \in Jobs BY Numbers DEF Asks, Jobs, Tame
      <4> QED BY <1>0, <4>1 DEF Call
    <3>3. /\ call.mode = loc[c].mode /\ call.phase = loc[c].phase /\ call.next = loc[c].next /\ call.job = job
          /\ call.cp = loc[c].cp /\ call.dep = loc[c].dep
      BY <1>0, <3>2 DEF Call
    <3>4. Course(call) BY <1>0, <2>2, <3>3 DEF Course
    <3> QED BY <1>0, <2>2, <3>1, <3>2, <3>3, <3>4, LookSound DEF Jobs, Tame
  <2>3. CASE loc[c].job \in {"capture", "open"}
    <3>1. proved /\ Goto(c, "svc", read) BY <1>3, <2>3 DEF ReadDeployment
    <3> QED BY <1>1, <1>3, <2>3, <3>1
  <2>4. CASE loc[c].job \in {"check", "drain"}
    <3>1. Goto(c, "pods", read) BY <1>3, <2>4 DEF ReadDeployment
    <3> QED BY <1>1, <1>3, <2>4, <3>1
  <2>5. CASE loc[c].job \in {"gate", "stop", "start"}
    <3>1. Goto(c, "svc", read) BY <1>3, <2>5 DEF ReadDeployment
    <3> QED BY <1>1, <1>3, <2>5, <3>1
  <2> QED BY <1>0, <2>0, <2>1, <2>2, <2>3, <2>4, <2>5 DEF Jobs, Tame
<1> QED BY <1>2, <1>3 DEF ReadDeployment

\* The Services up to n are as the job wants them; with the last one, all are.
LEMMA NextServiceSound ==
    ASSUME StoppedInv, NEW c \in Callers, pc[c] \in {"svc", "slices"}, NextService(c),
           loc[c].job \in {"stop", "start"} => pc[c] = "slices" /\ loc[c].n \notin eps,
           loc[c].job = "open" => pc[c] = "svc" /\ Opened(objs[loc[c].n], loc[c].side)
    PROVE  Sound(c)
<1>0. /\ loc[c] \in Call /\ Course(loc[c]) /\ JobInv(loc[c], pc[c]) /\ loc[c].dep.ver # "other"
      /\ loc[c].job \in {"capture", "open", "gate", "barrier", "stop", "start"} /\ loc[c].n \in Services
      /\ loc[c].dep \in Object /\ loc[c].dep.up \in BOOLEAN
  BY CallOf, CallFacts, ObjectFacts DEF CallInv, Place
<1>1. PICK n \in Services : n = loc[c].n BY <1>0
<1>2. loc[c].job \in {"stop", "start"} => \A m \in 1..n : objs[m].gated /\ m \notin eps
  <2> SUFFICES ASSUME loc[c].job \in {"stop", "start"}, NEW m \in 1..n PROVE objs[m].gated /\ m \notin eps OBVIOUS
  <2>1. m = n \/ m \in 1..(n - 1) BY TransitionAssumption DEF Services
  <2> QED BY <1>0, <1>1, <2>1 DEF JobInv
<1>3. loc[c].job = "open" => Steady(loc[c].side) /\ \A m \in 1..n : Opened(objs[m], loc[c].side)
  <2> SUFFICES ASSUME loc[c].job = "open"
               PROVE  Steady(loc[c].side) /\ \A m \in 1..n : Opened(objs[m], loc[c].side)
    OBVIOUS
  <2>1. \A m \in 1..n : m = n \/ m \in 1..(n - 1) BY TransitionAssumption DEF Services
  <2> QED BY <1>0, <1>1, <2>1 DEF JobInv
<1>4. CASE n < NumServices
  <2>1. n + 1 \in Services /\ n + 1 \in Objects /\ (n + 1) - 1 = n BY <1>4, TransitionAssumption DEF Services, Objects
  <2>2. PICK call \in Call : call = [loc[c] EXCEPT !.n = n + 1] BY <1>0, <2>1 DEF Call
  <2>3. /\ call.mode = loc[c].mode /\ call.phase = loc[c].phase /\ call.next = loc[c].next /\ call.job = loc[c].job
        /\ call.cp = loc[c].cp /\ call.dep = loc[c].dep /\ call.side = loc[c].side /\ call.n = n + 1
    BY <1>0, <2>2 DEF Call
  <2>4. Goto(c, "svc", call) BY <1>1, <1>4, <2>2 DEF NextService
  <2>5. Course(call) BY <1>0, <2>3 DEF Course
  <2>6. Place(call, "svc") BY <1>0, <2>1, <2>3 DEF Place
  <2>7. JobInv(call, "svc") BY <1>0, <1>2, <1>3, <2>1, <2>3 DEF JobInv
  <2> QED BY <2>3, <2>4, <2>5, <2>6, <2>7, Move DEF Labels
<1>5. CASE ~(n < NumServices)
  <2>0. n = NumServices /\ AfterServices(c)
    BY <1>1, <1>5, TransitionAssumption DEF Services, NextService
  <2>1. loc[c].job \in {"stop", "start"} => Closed BY <1>2, <2>0 DEF Closed, Services
  <2>2. loc[c].job = "open" => Done(loc[c].side) BY <1>3, <2>0 DEF Done, Services
  <2>3. CASE loc[c].job = "gate"
    <3>1. Goto(c, "svc", [loc[c] EXCEPT !.job = "barrier", !.n = 1]) BY <2>0, <2>3 DEF AfterServices
    <3>2. 1 \in Services /\ 1 \in Objects BY Sets
    <3>3. PICK call \in Call : call = [loc[c] EXCEPT !.job = "barrier", !.n = 1] BY <1>0, <3>2 DEF Call, Jobs
    <3>4. /\ call.mode = loc[c].mode /\ call.phase = loc[c].phase /\ call.next = loc[c].next /\ call.job = "barrier"
          /\ call.cp = loc[c].cp /\ call.dep = loc[c].dep /\ call.side = loc[c].side /\ call.n = 1
      BY <1>0, <3>3 DEF Call
    <3>5. Course(call) BY <1>0, <2>3, <3>4 DEF Course
    <3>6. Place(call, "svc") BY <1>0, <3>2, <3>4 DEF Place
    <3>7. JobInv(call, "svc") BY <1>0, <3>4 DEF JobInv
    <3> QED BY <2>3, <3>1, <3>3, <3>4, <3>5, <3>6, <3>7, Move DEF Labels, Tame
  <2>4. CASE loc[c].job = "stop" /\ loc[c].dep.up
    <3>1. Change(c, Deployment, loc[c].dep, [loc[c].dep EXCEPT !.up = FALSE, !.op = TRUE])
      BY <2>0, <2>4 DEF AfterServices
    <3> QED BY <2>1, <2>4, <3>1, StopSound
  <2>5. CASE loc[c].job = "start" /\ loc[c].dep.up
    <3>1. Conflict(c) \/ Finished(c) \/ Again(c) BY <2>0, <2>5 DEF AfterServices
    <3> QED BY <2>5, <3>1, ConflictSound, FinishedSound, AgainSound DEF Tame
  <2>6. CASE loc[c].job \in {"stop", "start"} /\ ~loc[c].dep.up
    <3>1. PICK call \in Call : call = loc[c] BY <1>0
    <3>2. Goto(c, "gone", call) BY <2>0, <2>6, <3>1 DEF AfterServices
    <3>3. Place(call, "gone") BY <1>0, <2>6, <3>1 DEF Place
    <3>4. JobInv(call, "gone") BY <1>0, <2>1, <2>6, <3>1 DEF JobInv
    <3> QED BY <1>0, <2>6, <3>1, <3>2, <3>3, <3>4, Move DEF Labels, Tame
  <2>7. CASE loc[c].job \in {"capture", "open", "barrier"}
    <3>1. Finished(c) BY <2>0, <2>7 DEF AfterServices
    <3> QED BY <2>2, <2>7, <3>1, FinishedSound
  <2> QED BY <1>0, <2>3, <2>4, <2>5, <2>6, <2>7
<1> QED BY <1>4, <1>5

LEMMA BaseReadService ==
    ASSUME StoppedInv, NEW c \in Callers, ReadService(c)
    PROVE  Sound(c)
<1> DEFINE n == loc[c].n  s == objs[n]
<1>0. /\ pc[c] = "svc" /\ loc[c] \in Call /\ Course(loc[c]) /\ JobInv(loc[c], "svc")
      /\ loc[c].job \in {"capture", "open", "gate", "barrier", "stop", "start"} /\ n \in Services
      /\ loc[c].dep.ver # "other" /\ Place(loc[c], "svc")
  BY CallOf, CallFacts DEF ReadService, CallInv, Place
<1>1. CASE Conflict(c) BY <1>0, <1>1, ConflictSound
<1>2. CASE s.ver # "other" /\ s.gated /\ ~Conflict(c)
  <2>1. CASE loc[c].job = "gate"
    <3>1. NextService(c) BY <1>2, <2>1 DEF ReadService
    <3> QED BY <1>0, <2>1, <3>1, NextServiceSound
  <2>2. CASE loc[c].job = "open"
    <3>1. Change(c, n, s, [s EXCEPT !.gated = FALSE, !.ver = loc[c].side, !.op = (loc[c].side = "target")])
      BY <1>2, <2>2 DEF ReadService
    <3> QED BY <1>0, <2>2, <3>1, OpenSound
  <2>3. CASE loc[c].job \in {"barrier", "stop", "start"}
    <3>1. PICK call \in Call : call = loc[c] BY <1>0
    <3>2. Goto(c, "slices", call) BY <1>2, <2>3, <3>1 DEF ReadService
    <3>3. Place(call, "slices") BY <1>0, <2>3, <3>1 DEF Place
    <3>4. JobInv(call, "slices") BY <1>0, <1>2, <2>3, <3>1 DEF JobInv
    <3> QED BY <1>0, <2>3, <3>1, <3>2, <3>3, <3>4, Move DEF Labels, Tame
  <2>4. loc[c].job # "capture" BY <1>2 DEF ReadService
  <2> QED BY <1>0, <2>1, <2>2, <2>3, <2>4
<1>3. CASE s.ver # "other" /\ ~s.gated /\ ~Conflict(c)
  <2>1. CASE loc[c].job \in {"capture", "open"}
    <3>1. s.ver = loc[c].side /\ NextService(c) BY <1>3, <2>1 DEF ReadService
    <3>2. Opened(s, loc[c].side) BY <1>3, <3>1 DEF Opened
    <3> QED BY <1>0, <2>1, <3>1, <3>2, NextServiceSound
  <2>2. CASE loc[c].job = "gate"
    <3>1. Change(c, n, s, [s EXCEPT !.gated = TRUE]) BY <1>3, <2>2 DEF ReadService
    <3> QED BY <1>0, <1>3, <2>2, <3>1, GateSound
  <2>3. CASE loc[c].job = "barrier"
    <3>1. Again(c) BY <1>3, <2>3 DEF ReadService
    <3> QED BY <1>0, <2>3, <3>1, AgainSound DEF Tame
  <2>4. loc[c].job \notin {"stop", "start"} BY <1>3 DEF ReadService
  <2> QED BY <1>0, <2>1, <2>2, <2>3, <2>4
<1> QED BY <1>1, <1>2, <1>3 DEF ReadService

LEMMA BaseReadSlices ==
    ASSUME StoppedInv, NEW c \in Callers, ReadSlices(c)
    PROVE  Sound(c)
<1>0. pc[c] = "slices" /\ loc[c].job \in {"barrier", "stop", "start"} BY CallOf DEF ReadSlices, CallInv, Place
<1>1. CASE loc[c].n \notin eps
  <2>1. NextService(c) BY <1>1 DEF ReadSlices
  <2> QED BY <1>0, <1>1, <2>1, NextServiceSound
<1>2. CASE loc[c].n \in eps
  <2>1. Again(c) \/ Conflict(c) BY <1>2 DEF ReadSlices
  <2> QED BY <1>0, <2>1, AgainSound, ConflictSound DEF Tame
<1> QED BY <1>1, <1>2

LEMMA BaseReadGone ==
    ASSUME StoppedInv, NEW c \in Callers, ReadGone(c)
    PROVE  Sound(c)
<1>0. /\ pc[c] = "gone" /\ loc[c].job \in {"stop", "start"} /\ Closed /\ loc[c].ready \in BOOLEAN
  BY CallOf, CallFacts DEF ReadGone, CallInv, Place, JobInv
<1>1. CASE ~loc[c].ready \/ pods # {}
  <2>1. Again(c) BY <1>1 DEF ReadGone
  <2> QED BY <1>0, <2>1, AgainSound DEF Tame
<1>2. CASE loc[c].ready /\ pods = {} /\ loc[c].job = "stop"
  <2>1. Finished(c) BY <1>2 DEF ReadGone
  <2> QED BY <1>0, <1>2, <2>1, FinishedSound
<1>3. CASE loc[c].ready /\ pods = {} /\ loc[c].job = "start"
  <2>1. Change(c, Deployment, loc[c].dep, [loc[c].dep EXCEPT !.ver = loc[c].side, !.op = TRUE, !.up = TRUE])
    BY <1>3 DEF ReadGone
  <2> QED BY <1>0, <1>3, <2>1, StartSound
<1> QED BY <1>0, <1>1, <1>2, <1>3

LEMMA BaseReadPods ==
    ASSUME StoppedInv, NEW c \in Callers, ReadPods(c)
    PROVE  Sound(c)
<1>0. /\ pc[c] = "pods" /\ loc[c].job \in {"check", "drain"} /\ loc[c] \in Call /\ Course(loc[c])
      /\ JobInv(loc[c], "pods")
  BY CallOf DEF ReadPods, CallInv, Place
<1>1. CASE End(c) BY <1>1 DEF Sound
<1>2. CASE Conflict(c) BY <1>0, <1>2, ConflictSound
<1>3. CASE Busy(c) BY <1>0, <1>3, BusySound
<1>4. CASE Finished(c) BY <1>0, <1>4, FinishedSound
<1>5. ASSUME NEW p \in pods, Goto(c, "ask", [loc[c] EXCEPT !.proc = p.uid]) PROVE Sound(c)
  <2>1. p.uid \in 0..MaxPods
    <3>1. p \in Pod BY DEF StoppedInv, Types
    <3> QED BY <3>1, Numbers DEF Pod
  <2>2. PICK call \in Call : call = [loc[c] EXCEPT !.proc = p.uid] BY <1>0, <2>1 DEF Call
  <2>3. /\ call.mode = loc[c].mode /\ call.phase = loc[c].phase /\ call.next = loc[c].next /\ call.job = loc[c].job
        /\ call.cp = loc[c].cp /\ call.dep = loc[c].dep
    BY <1>0, <2>2 DEF Call
  <2>4. Course(call) BY <1>0, <2>3 DEF Course
  <2>5. Place(call, "ask") BY <1>0, <2>3 DEF Place
  <2>6. JobInv(call, "ask") BY <1>0, <2>3 DEF JobInv
  <2> QED BY <1>0, <1>5, <2>2, <2>3, <2>4, <2>5, <2>6, Move DEF Labels
<1> QED BY <1>1, <1>2, <1>3, <1>4, <1>5 DEF ReadPods

LEMMA BaseAsk ==
    ASSUME StoppedInv, NEW c \in Callers, Ask(c)
    PROVE  Sound(c)
<1>0. pc[c] = "ask" /\ loc[c].job \in {"check", "drain"} /\ loc[c] \in Call /\ Course(loc[c])
  BY CallOf DEF Ask, CallInv, Place
<1>1. PICK busy \in BOOLEAN : Goto(c, "dep", [loc[c] EXCEPT !.busy = busy]) BY DEF Ask
<1>2. PICK call \in Call : call = [loc[c] EXCEPT !.busy = busy] BY <1>0 DEF Call
<1>3. /\ call.mode = loc[c].mode /\ call.phase = loc[c].phase /\ call.next = loc[c].next /\ call.job = loc[c].job
      /\ call.cp = loc[c].cp /\ call.dep = loc[c].dep
  BY <1>0, <1>2 DEF Call
<1>4. Course(call) BY <1>0, <1>3 DEF Course
<1> QED BY <1>0, <1>1, <1>2, <1>3, <1>4, LookSound DEF Jobs, Tame

LEMMA BaseAskFails ==
    ASSUME StoppedInv, NEW c \in Callers, AskFails(c)
    PROVE  Sound(c)
<1>1. pc[c] = "ask" /\ (End(c) \/ Conflict(c)) BY DEF AskFails
<1> QED BY <1>1, ConflictSound DEF Sound

\* Every read and every request to the App.
LEMMA ReadStep ==
    ASSUME StoppedInv, NEW c \in Callers,
           \/ ReadDeployment(c) \/ ReadService(c) \/ ReadSlices(c) \/ ReadGone(c)
           \/ ReadPods(c) \/ Ask(c) \/ AskFails(c)
    PROVE  StoppedInv'
<1>1. Sound(c)
  BY BaseReadDeployment, BaseReadService, BaseReadSlices, BaseReadGone, BaseReadPods, BaseAsk, BaseAskFails
<1>2. Quiet /\ UNCHANGED routes
  BY DEF ReadDeployment, ReadService, ReadSlices, ReadGone, ReadPods, Ask, AskFails
<1> QED BY <1>1, <1>2, QuietStep


--------------------------------------------------------------------------------
(* The workload                                                             *)

LEMMA StoreWorld ==
    ASSUME StoppedInv, NEW n \in Objects, NEW to \in Object, UpdateInv(n, to), Current(n, to), Store(n, to),
           row.cp, row.phase \notin Early, late' \subseteq late,
           UNCHANGED <<core, installed, known, registered, row, pods, born, broken, eps, media, faults>>
    PROVE  World
<1>0. Types /\ WorkloadInv /\ ServeInv /\ CoreInv /\ objs \in [Objects -> Object]
  BY DEF StoppedInv, Types
<1>1. objs' = [objs EXCEPT ![n] = to] /\ observed' \in BOOLEAN BY DEF Store
<1>2. /\ objs' \in [Objects -> Object] /\ objs'[n] = to
      /\ \A m \in Objects : m # n => objs'[m] = objs[m]
  BY <1>0, <1>1
<1>3. WorldTypes BY <1>0, <1>1, <1>2 DEF WorldTypes, Types
<1>4. to.rv = objs[n].rv + 1 /\ objs[n].rv \in Nat /\ to.rv # 0 BY <1>0, ObjectFacts DEF Current
<1>5. n # Deployment => n \in Services BY Sets
<1>6. Keeps
  <2>1. row.phase \notin ReleasePhases => (n \in Services => to.gated) BY DEF UpdateInv, Opens
  <2>2. ASSUME NEW side \in Versions, row.phase \in ReleasePhases, side = SideOf(row.phase)
        PROVE  /\ Steady(side) => Steady(side)'
               /\ \A s \in Services : Opened(objs[s], side) => Opened(objs'[s], side)
    <3>1. n \in Services /\ ~to.gated /\ to.ver = side BY <2>2 DEF UpdateInv, Opens
    <3>2. objs'[Deployment] = objs[Deployment] BY <1>2, <3>1, Sets
    <3> QED BY <1>2, <3>1, <3>2, Sets DEF Steady, Opened
  <2>3. \A m \in Objects : objs'[m] = objs[m] \/ objs'[m].rv = objs[m].rv + 1 BY <1>2, <1>4
  <2>4. row.phase \notin ReleasePhases =>
          \A s \in Services : objs[s].gated => objs'[s].gated /\ (s \notin eps => s \notin eps')
    BY <1>2, <2>1, Sets
  <2> QED BY <2>2, <2>3, <2>4 DEF Keeps
<1>7. WorkloadInv'
  <2>1. ~objs'[Deployment].gated /\ \A s \in Services : objs'[s].up
    BY <1>0, <1>2, Sets DEF UpdateInv, WorkloadInv
  <2>2. objs'[Deployment].rv = 0 => objs'[Deployment] = Original
    BY <1>0, <1>2, <1>4, Sets DEF WorkloadInv
  <2>3. objs'[Deployment].up /\ objs'[Deployment].ver # "other" => \A p \in pods : p.ver = objs'[Deployment].ver
    <3>1. CASE n = Deployment BY <1>2, <3>1 DEF UpdateInv
    <3>2. CASE n # Deployment BY <1>0, <1>2, <3>2, Sets DEF WorkloadInv
    <3> QED BY <3>1, <3>2
  <2> QED BY <1>0, <2>1, <2>2, <2>3 DEF WorkloadInv, OneVersionRuns
<1>8. ServeInv'
  <2>0. Published' = Published BY DEF Published
  <2>1. CASE Opens(n, to)
    <3>1. n \in Services /\ Steady(to.ver) /\ to.ver = Published BY <1>0, <2>1 DEF Opens, UpdateInv, CoreInv
    <3>2. objs'[Deployment] = objs[Deployment] BY <1>2, <3>1, Sets
    <3> QED BY <2>0, <3>1, <3>2 DEF ServeInv, Steady
  <2>2. CASE ~Opens(n, to) /\ n = Deployment
    <3>1. Closed BY <2>2 DEF UpdateInv
    <3>2. Closed' BY <1>2, <2>2, <3>1, Sets DEF Closed
    <3> QED BY <3>2 DEF ServeInv
  <2>3. CASE ~Opens(n, to) /\ n # Deployment
    <3>1. Closed => Closed' BY <1>2, <1>5, <2>3, Sets DEF Closed, Opens
    <3>2. objs'[Deployment] = objs[Deployment] BY <1>2, <2>3, Sets
    <3> QED BY <1>0, <2>0, <3>1, <3>2 DEF ServeInv
  <2> QED BY <2>1, <2>2, <2>3
<1> QED BY <1>3, <1>6, <1>7, <1>8 DEF World

\* Nothing happens to the workload.
LEMMA SameWorld ==
    ASSUME StoppedInv, UNCHANGED <<core, installed, known, registered, row, objs, observed, pods, born, broken, eps, media>>,
           late' \subseteq late, faults' \in 0..MaxFaults
    PROVE  World
<1>2. Keeps BY DEF Keeps, Steady, Opened
<1>3. WorldTypes BY DEF WorldTypes, StoppedInv, Types
<1>4. WorkloadInv' /\ ServeInv' BY DEF StoppedInv, WorkloadInv, ServeInv, OneVersionRuns, Closed, Published
<1>5. ~row.cp \/ row.phase \in Early => Untouched' BY DEF StoppedInv, EarlyInv, Untouched
<1> QED BY <1>2, <1>3, <1>4, <1>5 DEF World

\* Pods come and go: new ones only of the version the Deployment wants.
LEMMA PodsWorld ==
    ASSUME StoppedInv, pods' \subseteq Pod, born' \in 1..MaxPods, observed' \in BOOLEAN, late' = late,
           faults' \in 0..MaxFaults, UNCHANGED <<core, installed, known, registered, row, objs, broken, eps, media>>,
           \A p \in pods' : \/ \E q \in pods : p.ver = q.ver
                            \/ objs[Deployment].up /\ objs[Deployment].ver # "other" /\ p.ver = objs[Deployment].ver
    PROVE  World
<1>0. Types /\ WorkloadInv /\ ServeInv BY DEF StoppedInv
<1>1. WorldTypes BY <1>0 DEF WorldTypes, Types
<1>2. \A side : Steady(side) => Steady(side)' BY DEF Steady
<1>3. Keeps BY <1>2 DEF Keeps, Opened
<1>4. WorkloadInv'
  <2>1. OneVersionRuns' BY <1>0 DEF WorkloadInv, OneVersionRuns
  <2>2. objs[Deployment].up /\ objs[Deployment].ver # "other" => \A p \in pods' : p.ver = objs[Deployment].ver
    BY <1>0 DEF WorkloadInv
  <2> QED BY <1>0, <2>1, <2>2 DEF WorkloadInv
<1>5. ServeInv' BY <1>0 DEF ServeInv, Closed, Published
<1>6. ~row.cp \/ row.phase \in Early => Untouched' BY DEF StoppedInv, EarlyInv, Untouched
<1> QED BY <1>1, <1>3, <1>4, <1>5, <1>6 DEF World

LEMMA SyncWorld ==
    ASSUME StoppedInv, NEW s \in Services, SyncSlices(s)
    PROVE  World
<1>0. Types /\ WorkloadInv /\ ServeInv BY DEF StoppedInv
<1>1. /\ UNCHANGED <<core, installed, known, registered, row, objs, observed, pods, born, broken, late, faults, media>>
      /\ eps' = eps \ {s} \/ (eps' = eps \cup {s} /\ ~objs[s].gated)
  BY DEF SyncSlices, journalVars, authority, workload
<1>2. WorldTypes BY <1>0, <1>1 DEF WorldTypes, Types
<1>3. \A m \in Services : objs[m].gated /\ m \notin eps => m \notin eps' BY <1>1
<1>4. Keeps BY <1>1, <1>3 DEF Keeps, Steady, Opened
<1>5. WorkloadInv' BY <1>0, <1>1 DEF WorkloadInv, OneVersionRuns
<1>6. ServeInv' BY <1>0, <1>1, <1>3 DEF ServeInv, Closed, Published
<1>7. ~row.cp \/ row.phase \in Early => Untouched' BY <1>1 DEF StoppedInv, EarlyInv, Untouched
<1> QED BY <1>1, <1>2, <1>4, <1>5, <1>6, <1>7 DEF World

LEMMA DriftWorld ==
    ASSUME StoppedInv, NEW n \in Objects, faults' \in 0..MaxFaults, late' = late,
           Store(n, [objs[n] EXCEPT !.ver = "other", !.rv = @ + 1]),
           UNCHANGED <<core, installed, known, registered, row, pods, born, broken, eps, media>>
    PROVE  World
<1>0. Types /\ WorkloadInv /\ ServeInv /\ EarlyInv /\ objs \in [Objects -> Object] BY DEF StoppedInv, Types
<1>1. PICK to \in Object : to = [objs[n] EXCEPT !.ver = "other", !.rv = @ + 1]
  <2>1. objs[n] \in Object /\ objs[n].rv + 1 \in Nat BY <1>0, ObjectFacts
  <2> QED BY <2>1 DEF Object
<1>2. /\ to.ver = "other" /\ to.up = objs[n].up /\ to.gated = objs[n].gated /\ to.rv = objs[n].rv + 1 /\ to.rv # 0
  <2>1. objs[n] \in Object /\ objs[n].rv \in Nat BY <1>0, ObjectFacts
  <2> QED BY <1>1, <2>1 DEF Object
<1>3. objs' = [objs EXCEPT ![n] = to] /\ observed' \in BOOLEAN BY <1>1 DEF Store
<1>4. /\ objs' \in [Objects -> Object] /\ objs'[n] = to
      /\ \A m \in Objects : m # n => objs'[m] = objs[m]
  BY <1>0, <1>3
<1>5. WorldTypes BY <1>0, <1>3, <1>4 DEF WorldTypes, Types
<1>6. /\ \A m \in Objects : objs'[m].gated = objs[m].gated /\ objs'[m].up = objs[m].up
      /\ \A m \in Objects : objs'[m] = objs[m] \/ (objs'[m].ver = "other" /\ objs'[m].rv = objs[m].rv + 1)
  BY <1>2, <1>4
<1>7. Keeps
  <2>1. \A side \in Versions : Steady(side) => Steady(side)' BY <1>6, Sets DEF Steady
  <2>2. \A side \in Versions, s \in Services : Opened(objs[s], side) => Opened(objs'[s], side) BY <1>6, Sets DEF Opened
  <2> QED BY <1>6, <2>1, <2>2, Sets DEF Keeps
<1>8. WorkloadInv'
  <2>1. objs'[Deployment].rv = 0 => objs'[Deployment] = Original BY <1>0, <1>2, <1>4, Sets DEF WorkloadInv
  <2> QED BY <1>0, <1>6, <2>1, Sets DEF WorkloadInv, OneVersionRuns
<1>9. ServeInv' BY <1>0, <1>6, Sets DEF ServeInv, Closed, Published
<1>10. ~row.cp \/ row.phase \in Early => Untouched' BY <1>0, <1>6 DEF EarlyInv, Untouched
<1> QED BY <1>5, <1>7, <1>8, <1>9, <1>10 DEF World

LEMMA MoreFaults == ASSUME StoppedInv, NEW kind, Fault(kind) PROVE faults' \in 0..MaxFaults
  BY Numbers DEF StoppedInv, Types, Fault

LEMMA ClusterStep ==
    ASSUME StoppedInv, Cluster, UNCHANGED routes
    PROVE  StoppedInv'
<1>0. /\ Types /\ UNCHANGED <<core, installed, known, registered, row, late, calls, eps, media>>
      /\ pods \subseteq Pod /\ born \in 1..MaxPods /\ observed \in BOOLEAN /\ faults \in 0..MaxFaults
  BY DEF StoppedInv, Types, Cluster, authority, routes
<1> SUFFICES World BY <1>0, WorldStep
<1>1. CASE ObserveGeneration /\ UNCHANGED faults BY <1>0, <1>1, PodsWorld DEF ObserveGeneration
<1>2. CASE StartPod /\ UNCHANGED faults
  <2>0. PICK p : p = [uid |-> born + 1, ver |-> objs[Deployment].ver, state |-> "starting"] OBVIOUS
  <2>1. /\ objs[Deployment].up /\ objs[Deployment].ver \in Versions /\ born < MaxPods /\ born' = born + 1
        /\ pods' = pods \cup {p} /\ UNCHANGED <<objs, observed, broken>>
    BY <1>2, <2>0 DEF StartPod
  <2>2. born + 1 \in 1..MaxPods BY <1>0, <2>1, Numbers
  <2>3. p \in Pod /\ p.ver = objs[Deployment].ver BY <2>0, <2>1, <2>2 DEF Pod
  <2>4. objs[Deployment].ver # "other" BY <2>1 DEF Versions
  <2> QED BY <1>0, <1>2, <2>1, <2>2, <2>3, <2>4, PodsWorld
<1>3. ASSUME NEW p \in pods, NEW state \in {"starting", "ready", "terminating"}, SetPod(p, state), faults' \in 0..MaxFaults
      PROVE  World
  <2>0. p \in Pod BY <1>0
  <2>1. PICK q \in Pod : q = [p EXCEPT !.state = state] BY <2>0 DEF Pod
  <2>2. q.ver = p.ver BY <2>0, <2>1 DEF Pod
  <2>3. pods' = (pods \ {p}) \cup {q} /\ UNCHANGED <<objs, observed, born, broken>> BY <1>3, <2>1 DEF SetPod
  <2> QED BY <1>0, <1>3, <2>2, <2>3, PodsWorld
<1>4. ASSUME NEW p \in pods, PodReady(p), UNCHANGED faults PROVE World
  BY <1>0, <1>3, <1>4 DEF PodReady
<1>5. ASSUME NEW p \in pods, StopPod(p), UNCHANGED faults PROVE World
  BY <1>0, <1>3, <1>5 DEF StopPod
<1>6. ASSUME NEW p \in pods, PodGone(p), UNCHANGED faults PROVE World
  <2>1. pods' = pods \ {p} /\ UNCHANGED <<objs, observed, born, broken>> BY <1>6 DEF PodGone
  <2> QED BY <1>0, <1>6, <2>1, PodsWorld
<1>7. CASE Drift
  <2>1. PICK n \in Objects : Store(n, [objs[n] EXCEPT !.ver = "other", !.rv = @ + 1]) BY <1>7 DEF Drift
  <2>2. UNCHANGED <<pods, born, broken>> /\ faults' \in 0..MaxFaults BY <1>7, MoreFaults DEF Drift
  <2> QED BY <1>0, <2>1, <2>2, DriftWorld
<1>8. CASE Evict
  <2>1. PICK p \in LivePods : SetPod(p, "terminating") BY <1>8 DEF Evict
  <2>2. p \in pods /\ faults' \in 0..MaxFaults BY <1>8, MoreFaults DEF Evict, LivePods
  <2> QED BY <1>3, <2>1, <2>2
<1> QED BY <1>1, <1>2, <1>4, <1>5, <1>6, <1>7, <1>8 DEF Cluster, Controller

LEMMA SyncStep ==
    ASSUME StoppedInv, NEW s \in Services, SyncSlices(s)
    PROVE  StoppedInv'
  BY SyncWorld, WorldStep DEF SyncSlices, journalVars

--------------------------------------------------------------------------------
(* Updates that reach the API server                                        *)

LEMMA UpdateStep ==
    ASSUME StoppedInv, NEW c \in Callers, Update(c), UNCHANGED routes
    PROVE  StoppedInv'
<1>0. /\ UNCHANGED <<core, installed, known, registered, row, pods, born, broken, late, faults, eps, media>>
      /\ pc[c] = "update" /\ loc[c] \in Call /\ CallInv(loc[c], "update", tx[c]) /\ faults \in 0..MaxFaults
  BY CallOf DEF Update, authority, routes, StoppedInv, Types
<1>1. PICK n \in Objects, to \in Object : n = loc[c].n /\ to = loc[c].to BY <1>0, CallFacts
<1>2. UpdateInv(n, to) /\ loc[c].job \in {"open", "gate", "stop", "start"} BY <1>0, <1>1 DEF CallInv, JobInv, Place
<1>3. row.cp /\ row.phase \notin Early BY <1>0 DEF StoppedInv, EarlyInv, Types, Row
<1>4. CASE Current(n, to) /\ Store(n, to) /\ Again(c)
  <2>1. World BY <1>0, <1>2, <1>3, <1>4, StoreWorld
  <2>2. Sound(c) BY <1>0, <1>2, <1>4, AgainSound DEF Tame
  <2> QED BY <2>1, <2>2, CallerStep
<1>5. CASE UNCHANGED <<objs, observed>> /\ End(c)
  <2>1. World BY <1>0, <1>5, SameWorld
  <2> QED BY <1>5, <2>1, CallerStep DEF Sound
<1> QED BY <1>1, <1>4, <1>5 DEF Update

LEMMA LandStep ==
    ASSUME StoppedInv, NEW r \in late, Land(r), UNCHANGED routes
    PROVE  StoppedInv'
<1>0. /\ UNCHANGED <<core, installed, known, registered, row, pods, born, broken, calls, faults, eps, media>>
      /\ r.kind = "update" /\ Current(r.n, r.to) /\ Store(r.n, r.to) /\ late' \subseteq late
  BY DEF Land, authority, routes
<1>1. PICK n \in Objects, to \in Object : n = r.n /\ to = r.to BY DEF StoppedInv, CallTypes, LateRequest
<1>2. UpdateInv(n, to) BY <1>0, <1>1 DEF StoppedInv
<1>3. row.cp /\ row.phase \notin Early BY <1>0 DEF StoppedInv, EarlyInv, Types, Row
<1>4. World BY <1>0, <1>1, <1>2, <1>3, StoreWorld
<1> QED BY <1>0, <1>4, WorldStep

LEMMA LoseStep ==
    ASSUME StoppedInv, NEW r \in late, Lose(r), UNCHANGED routes
    PROVE  StoppedInv'
<1>0. /\ UNCHANGED <<core, installed, known, registered, row, objs, observed, pods, born, broken, calls, faults, eps, media>>
      /\ late' \subseteq late
  BY DEF Lose, authority, workload, routes
<1>1. World BY <1>0, SameWorld DEF StoppedInv, Types
<1> QED BY <1>0, <1>1, WorldStep

--------------------------------------------------------------------------------
(* Calls that begin and calls that fail                                     *)

\* What a mode that Core's phase permits finds in the row.
LEMMA BoundFacts ==
    ASSUME StoppedInv, NEW mode \in Modes, Bound(mode)
    PROVE  /\ ~Releasing(mode) => core # "releasing"
           /\ mode = "release_target" => Published = "target"
           /\ mode = "release_source" => Published = "source"
           /\ core \in {"checking", "preparing"} => mode = "prepare"
           /\ core = "restoring" => mode = "restore"
           /\ core = "releasing" => Releasing(mode)
           /\ core # "done"
  BY DEF Bound, Releasing, Published, Modes, StoppedInv, Types

\* Nothing has been changed: a release without a checkpoint has nothing to open.
LEMMA UntouchedDone ==
    ASSUME StoppedInv, ~row.cp, row.phase \in ReleasePhases, SideOf(row.phase) = "source"
    PROVE  Done("source")
<1>1. Untouched /\ ServeInv /\ Published = "source" /\ objs \in [Objects -> Object]
  BY DEF StoppedInv, EarlyInv, CoreInv, Types
<1>2. ~Closed BY <1>1, Sets DEF Closed, Untouched
<1>3. \A p \in pods : p.ver = "source" BY <1>1, <1>2 DEF ServeInv
<1>4. \A n \in Objects : objs[n].ver \in {"source", "other"} BY <1>1, ObjectFacts DEF Untouched, Versions
<1> QED BY <1>1, <1>3, <1>4, Sets DEF Done, Steady, Opened, Untouched

\* A step that only records an intention.
LEMMA IntendSound ==
    ASSUME StoppedInv, NEW mode \in Modes, Bound(mode), row.phase # "none",
           NEW plan, plan = Plan(mode, row.phase, row.cp), plan.at = "commit",
           NEW call \in Call, call.mode = mode, call.phase = row.phase, call.cp = row.cp, call.next = plan.next
    PROVE  Outcome(call) /\ (~Releasing(mode) => row.phase \notin ReleasePhases)
<1>0. RowInv /\ CoreInv /\ row.cp \in BOOLEAN BY DEF StoppedInv, Types, Row
<1>1. CASE mode = "prepare"
  <2>1. row.phase \in Rejections /\ call.next = row.phase
    BY <1>1 DEF Plan, PlanPrepare, Job, Intend, Refuse, Rejections
  <2> QED BY <1>1, <2>1
        DEF Outcome, Captured, Replacing, Early, Rejections, Released, ReleasePhases, Releasing
<1>2. CASE mode = "restore"
  <2>1. /\ row.phase \notin ReleasePhases /\ call.next \in {"restoring", "restored"}
        /\ call.next = "restoring" => row.cp
    BY <1>0, <1>2 DEF Plan, PlanRestore, Job, Intend, Refuse
  <2> QED BY <1>2, <2>1
        DEF Outcome, Captured, Replacing, Early, Rejections, Released, ReleasePhases, Releasing
<1>3. CASE mode = "release_source"
  <2>1. \/ row.phase = "restored" /\ call.next = "releasing_source"
        \/ row.phase \in {"releasing_source", "released_source"} /\ ~row.cp /\ call.next = "released_source"
    BY <1>0, <1>3 DEF Plan, PlanRelease, Job, Intend, Refuse
  <2>2. Published = "source" BY <1>3, BoundFacts
  <2>3. CASE row.phase = "restored" /\ call.next = "releasing_source"
    BY <1>3, <2>2, <2>3
      DEF Outcome, Captured, Replacing, Early, Rejections, Released, ReleasePhases, Releasing, SideOf
  <2>4. CASE row.phase \in {"releasing_source", "released_source"} /\ ~row.cp /\ call.next = "released_source"
    <3>1. Done("source") BY <2>4, UntouchedDone DEF ReleasePhases, SideOf
    <3> QED BY <1>3, <2>2, <2>4, <3>1
          DEF Outcome, Captured, Replacing, Early, Rejections, Released, ReleasePhases, Releasing, SideOf
  <2> QED BY <2>1, <2>3, <2>4
<1>4. CASE mode = "release_target"
  <2>1. row.phase = "prepared" /\ call.next = "releasing_target"
    BY <1>0, <1>4 DEF Plan, PlanRelease, Job, Intend, Refuse
  <2>2. Published = "target" /\ row.cp BY <1>0, <1>4, <2>1, BoundFacts DEF RowInv, Captured, Replacing
  <2> QED BY <1>4, <2>1, <2>2
        DEF Outcome, Captured, Replacing, Early, Rejections, Released, ReleasePhases, Releasing, SideOf
<1> QED BY <1>1, <1>2, <1>3, <1>4 DEF Modes

\* A step that has a job to do.
LEMMA JobSound ==
    ASSUME StoppedInv, NEW mode \in Modes, Bound(mode), row.phase # "none",
           NEW plan, plan = Plan(mode, row.phase, row.cp), plan.at = "dep",
           NEW call \in Call, call.mode = mode, call.phase = row.phase, call.cp = row.cp,
           call.next = plan.next, call.job = plan.job, call.side = plan.side
    PROVE  /\ Course(call) /\ call.job \in {"capture", "gate", "start", "check", "look", "open"}
           /\ ~row.cp \/ row.phase \in Early => call.job \in Tame
           /\ call.job = "open" => row.phase \in ReleasePhases /\ call.side = SideOf(row.phase)
           /\ ~Releasing(mode) => row.phase \notin ReleasePhases
<1>0. RowInv /\ row.cp \in BOOLEAN BY DEF StoppedInv, Types, Row
<1>1. CASE mode = "prepare"
  <2>1. \/ row.phase = "checking" /\ call.job = "capture" /\ call.next = "sealing"
        \/ row.phase = "sealing" /\ call.job = "gate" /\ call.next = "applying"
        \/ row.phase = "applying" /\ call.job = "start" /\ call.next = "verifying"
        \/ row.phase \in {"verifying", "prepared"} /\ call.job = "check" /\ call.next = "prepared"
    BY <1>1 DEF Plan, PlanPrepare, Job, Intend, Refuse
  <2>2. row.phase # "checking" => row.cp BY <1>0, <2>1 DEF RowInv, Captured, Replacing
  <2> QED BY <1>1, <2>1, <2>2 DEF Course, Tame, Early, ReleasePhases
<1>2. CASE mode = "restore"
  <2>1. /\ row.phase \notin ReleasePhases /\ call.next = "restored"
        /\ \/ row.phase = "restoring" /\ call.job = "look"
           \/ row.phase = "restored" /\ call.job = "check" /\ row.cp
    BY <1>0, <1>2 DEF Plan, PlanRestore, Job, Intend, Refuse
  <2>2. row.cp BY <1>0, <2>1 DEF RowInv, Captured
  <2> QED BY <1>2, <2>1, <2>2 DEF Course, Tame, Early
<1>3. CASE mode = "release_source"
  <2>1. /\ row.phase \in {"releasing_source", "released_source"} /\ row.cp
        /\ call.job = "open" /\ call.side = "source" /\ call.next = "released_source"
    BY <1>0, <1>3 DEF Plan, PlanRelease, Job, Intend, Refuse
  <2> QED BY <1>3, <2>1 DEF Course, Early, ReleasePhases, Released, Releasing, SideOf
<1>4. CASE mode = "release_target"
  <2>1. /\ row.phase \in {"releasing_target", "released_target"} /\ row.cp
        /\ call.job = "open" /\ call.side = "target" /\ call.next = "released_target"
    BY <1>0, <1>4 DEF Plan, PlanRelease, Job, Intend, Refuse
  <2> QED BY <1>4, <2>1 DEF Course, Early, ReleasePhases, Released, Releasing, SideOf
<1> QED BY <1>1, <1>2, <1>3, <1>4 DEF Modes

LEMMA PlanTypes ==
    ASSUME row \in Row, NEW mode \in Modes
    PROVE  LET plan == Plan(mode, row.phase, row.cp) IN
           /\ plan.at \in {"refuse", "commit", "dep"} /\ plan.job \in Jobs /\ plan.ask \in Asks
           /\ plan.side \in Versions /\ plan.next \in Phases
           /\ plan.at = "commit" => plan.job = "none"
           /\ plan.at = "dep" => plan.job \notin {"none", "barrier"}
<1>0. row.phase \in Phases /\ row.cp \in BOOLEAN BY DEF Row
<1>1. CASE mode = "prepare"
  BY <1>0, <1>1 DEF Plan, PlanPrepare, Job, Intend, Refuse, Jobs, Tame, Asks, Versions, Phases
<1>2. CASE mode = "restore"
  BY <1>0, <1>2 DEF Plan, PlanRestore, Job, Intend, Refuse, Jobs, Tame, Asks, Versions, Phases
<1>3. CASE mode = "release_source"
  BY <1>0, <1>3 DEF Plan, PlanRelease, Job, Intend, Refuse, Jobs, Tame, Asks, Versions, Phases, ReleasePhases
<1>4. CASE mode = "release_target"
  BY <1>0, <1>4 DEF Plan, PlanRelease, Job, Intend, Refuse, Jobs, Tame, Asks, Versions, Phases, ReleasePhases
<1> QED BY <1>1, <1>2, <1>3, <1>4 DEF Modes

LEMMA BeginStep ==
    ASSUME StoppedInv, NEW c \in Callers, NEW mode \in Modes, Begin(c, mode)
    PROVE  StoppedInv'
<1>0. PICK plan : plan = Plan(mode, row.phase, row.cp) OBVIOUS
<1>1. /\ pc[c] = "idle" /\ Unlocked /\ Bound(mode) /\ row.phase # "none" /\ plan.at # "refuse"
      /\ UNCHANGED <<core, installed, known, registered, row, objs, observed, pods, born, broken, late, faults, eps, media>>
  BY <1>0 DEF Begin, Enter, Admitted, authority, workload, routes
<1>2. /\ plan.at \in {"commit", "dep"} /\ plan.job \in Jobs /\ plan.ask \in Asks /\ plan.side \in Versions
      /\ plan.next \in Phases /\ (plan.at = "commit" => plan.job = "none")
  BY <1>0, <1>1, PlanTypes DEF StoppedInv, Types
<1>3. PICK call \in Call :
        call = [NoCall EXCEPT !.mode = mode, !.phase = row.phase, !.cp = row.cp, !.job = plan.job,
                              !.ask = plan.ask, !.side = plan.side, !.next = plan.next]
  BY <1>2, NoCallType DEF Call, StoppedInv, Types, Row
<1>4. /\ call.mode = mode /\ call.phase = row.phase /\ call.cp = row.cp /\ call.next = plan.next
      /\ call.job = plan.job /\ call.side = plan.side /\ call.dep = NoCall.dep
  BY <1>3 DEF NoCall
<1>5. /\ call.dep.rv <= objs[Deployment].rv /\ ~call.dep.gated
      /\ call.dep.rv = objs[Deployment].rv => call.dep = objs[Deployment]
  BY <1>4, IdleCall DEF CallInv, JobInv
<1>6. /\ CallInv(call, plan.at, TRUE)
      /\ ~row.cp \/ row.phase \in Early => call.job \in Tame
  <2>1. CASE plan.at = "commit"
    <3>1. Outcome(call) /\ (~Releasing(mode) => row.phase \notin ReleasePhases)
      BY <1>0, <1>1, <1>4, <2>1, IntendSound
    <3>2. JobInv(call, "commit") BY <1>1, <1>2, <1>4, <1>5, <2>1, <3>1, BoundFacts DEF JobInv
    <3>3. Place(call, "commit") BY DEF Place
    <3>4. call.job \in Tame BY <1>2, <1>4, <2>1 DEF Tame
    <3> QED BY <1>1, <1>4, <2>1, <3>1, <3>2, <3>3, <3>4 DEF CallInv
  <2>2. CASE plan.at = "dep"
    <3>1. /\ Course(call) /\ call.job \in {"capture", "gate", "start", "check", "look", "open"}
          /\ ~row.cp \/ row.phase \in Early => call.job \in Tame
          /\ call.job = "open" => row.phase \in ReleasePhases /\ call.side = SideOf(row.phase)
          /\ ~Releasing(mode) => row.phase \notin ReleasePhases
      BY <1>0, <1>1, <1>4, <2>2, JobSound
    <3>2. JobInv(call, "dep") BY <1>1, <1>4, <1>5, <3>1, BoundFacts DEF JobInv
    <3>3. Place(call, "dep") BY <3>1 DEF Place
    <3> QED BY <1>1, <1>4, <2>2, <3>1, <3>2, <3>3 DEF CallInv
  <2> QED BY <1>2, <2>1, <2>2
<1>7. /\ pc' = [pc EXCEPT ![c] = plan.at] /\ tx' = [tx EXCEPT ![c] = TRUE] /\ loc' = [loc EXCEPT ![c] = call]
  BY <1>0, <1>3 DEF Begin, Enter
<1>8. World BY <1>1, SameWorld DEF StoppedInv, Types
<1>9. plan.at \in Labels /\ plan.at # "update" BY <1>2 DEF Labels
<1> QED BY <1>1, <1>6, <1>7, <1>8, <1>9, OneCall

LEMMA SessionLossStep ==
    ASSUME StoppedInv, NEW c \in Callers, SessionLoss(c), UNCHANGED routes
    PROVE  StoppedInv'
<1>0. /\ UNCHANGED <<core, installed, known, registered, row, objs, observed, pods, born, broken, pc, loc, late, eps, media>>
      /\ tx' = [tx EXCEPT ![c] = FALSE] /\ faults' \in 0..MaxFaults
  BY MoreFaults DEF SessionLoss, authority, workload, routes
<1>1. World BY <1>0, SameWorld
<1>2. PICK call \in Call, at \in Labels : call = loc[c] /\ at = pc[c] BY CallOf
<1>3. CallInv(call, at, FALSE) BY <1>2, CallOf DEF CallInv
<1>4. pc' = [pc EXCEPT ![c] = at] /\ loc' = [loc EXCEPT ![c] = call] BY <1>0, <1>2 DEF StoppedInv, CallTypes
<1>5. ~row.cp \/ row.phase \in Early => call.job \in Tame /\ at # "update" BY <1>2 DEF StoppedInv, EarlyInv
<1> QED BY <1>0, <1>1, <1>3, <1>4, <1>5, OneCall

\* What an abandoned call has sent.
LEMMA RequestSent ==
    ASSUME StoppedInv, NEW c \in Callers, NEW r \in Request(c)
    PROVE  Sent(r)
<1>0. loc[c] \in Call /\ loc[c].n \in Objects /\ loc[c].to \in Object /\ loc[c].ask \in Asks BY CallOf, CallFacts
<1>1. CASE pc[c] = "update"
  <2>1. r = [kind |-> "update", n |-> loc[c].n, to |-> loc[c].to] BY <1>1 DEF Request
  <2>2. UpdateInv(loc[c].n, loc[c].to) BY <1>1, CallOf DEF CallInv, JobInv
  <2>3. row.cp /\ row.phase \notin Early BY <1>1 DEF StoppedInv, EarlyInv, Types, Row
  <2>4. r \in LateRequest /\ r.n = loc[c].n /\ r.to = loc[c].to BY <1>0, <2>1 DEF LateRequest
  <2> QED BY <2>2, <2>3, <2>4 DEF Sent
<1>2. CASE pc[c] # "update"
  <2>1. r = [kind |-> loc[c].ask, n |-> 0, to |-> Original] BY <1>2 DEF Request
  <2>2. r \in LateRequest BY <1>0, <2>1, NoCallType, Sets DEF LateRequest, Deployment
  <2>3. r.kind # "update" BY <1>0, <2>1 DEF Asks
  <2> QED BY <2>2, <2>3 DEF Sent
<1> QED BY <1>1, <1>2

\* The workload stays as it is while calls fail.
LEMMA FailWorld ==
    ASSUME StoppedInv, UNCHANGED <<authority, row, workload, routes>>, faults' \in 0..MaxFaults,
           \A r \in late' : r \in late \/ Sent(r)
    PROVE  World
<1>1. UNCHANGED <<core, installed, known, registered, row, objs, observed, pods, born, broken, eps, media>>
  BY DEF authority, workload, routes
<1>2. Keeps BY <1>1 DEF Keeps, Steady, Opened
<1>3. WorldTypes BY <1>1 DEF WorldTypes, StoppedInv, Types
<1>4. WorkloadInv' /\ ServeInv' BY <1>1 DEF StoppedInv, WorkloadInv, ServeInv, OneVersionRuns, Closed, Published
<1>5. ~row.cp \/ row.phase \in Early => Untouched' BY <1>1 DEF StoppedInv, EarlyInv, Untouched
<1> QED BY <1>1, <1>2, <1>3, <1>4, <1>5 DEF World

LEMMA InterruptStep ==
    ASSUME StoppedInv, NEW c \in Callers, Interrupt(c), UNCHANGED routes
    PROVE  StoppedInv'
<1>1. PICK sent \in SUBSET Request(c) : late' = late \cup sent BY DEF Interrupt
<1>2. \A r \in late' : r \in late \/ Sent(r) BY <1>1, RequestSent
<1>3. World BY <1>2, FailWorld, MoreFaults DEF Interrupt
<1> QED BY <1>3, CallerStep DEF Interrupt, Sound

LEMMA CrashStep ==
    ASSUME StoppedInv, Crash, UNCHANGED routes
    PROVE  StoppedInv'
<1>0. /\ pc' = [c \in Callers |-> "idle"] /\ tx' = [c \in Callers |-> FALSE] /\ loc' = [c \in Callers |-> NoCall]
      /\ UNCHANGED <<authority, row, workload>> /\ faults' \in 0..MaxFaults
      /\ objs \in [Objects -> Object] /\ tx' \in [Callers -> BOOLEAN]
  BY MoreFaults DEF Crash, StoppedInv, Types
<1>1. PICK sent \in SUBSET UNION {Request(c) : c \in Callers} : late' = late \cup sent BY DEF Crash
<1>2. \A r \in late' : r \in late \/ Sent(r)
  <2>1. \A r \in sent : \E c \in Callers : r \in Request(c) BY <1>1
  <2> QED BY <1>1, <2>1, RequestSent
<1>3. World BY <1>0, <1>2, FailWorld
<1>4. /\ Types' /\ RowInv' /\ CoreInv' /\ late' \subseteq LateRequest
      /\ \A r \in late' : r.kind = "update" => UpdateInv(r.n, r.to)'
      /\ ~row.cp \/ row.phase \in Early => \A r \in late' : r.kind # "update"
  BY <1>0, <1>3, WorldParts
<1>5. CallTypes' BY <1>0, <1>4, NoCallType DEF CallTypes, Labels
<1>6. LockInv' BY <1>0 DEF LockInv
<1>7. EarlyInv'
  <2>1. NoCall.job \in Tame BY DEF NoCall, Tame
  <2>2. \A c \in Callers : loc'[c].job \in Tame /\ pc'[c] # "update" BY <1>0, <2>1
  <2> QED BY <1>0, <1>3, <1>4, <2>2 DEF EarlyInv, World
<1>8. CallInv(NoCall, "idle", FALSE)'
  <2>1. Keeps /\ UNCHANGED <<core, installed>> /\ objs' \in [Objects -> Object] BY <1>3 DEF World, WorldTypes
  <2> QED BY <1>0, <2>1, IdleCall, NoCallType, CallKept
<1>9. \A c \in Callers : CallInv(loc[c], pc[c], tx[c])' BY <1>0, <1>8
<1> QED BY <1>3, <1>4, <1>5, <1>6, <1>7, <1>9 DEF StoppedInv, World

--------------------------------------------------------------------------------
(* Steps of the row and of Core                                             *)

\* The workload is left alone; once in a release, a row stays in it, and one begins only
\* when Core is releasing.
Onward ==
    /\ UNCHANGED <<objs, observed, pods, born, broken, eps, media, registered, late>>
    /\ row.phase \in ReleasePhases => row'.phase \in ReleasePhases /\ SideOf(row'.phase) = SideOf(row.phase)
    /\ row'.phase \in ReleasePhases => row.phase \in ReleasePhases \/ core = "releasing"
    /\ core' = "releasing" => core = "releasing"

LEMMA SameFacts ==
    ASSUME UNCHANGED <<objs, pods, eps>>
    PROVE  /\ Closed' <=> Closed
           /\ Untouched' <=> Untouched
           /\ WorkloadInv' <=> WorkloadInv
           /\ \A side : (Steady(side)' <=> Steady(side)) /\ (Done(side)' <=> Done(side))
  BY DEF Closed, Untouched, WorkloadInv, OneVersionRuns, Steady, Done, Opened

LEMMA UpdateOnward ==
    ASSUME NEW n \in Objects, NEW to \in Object, UpdateInv(n, to), Onward
    PROVE  UpdateInv(n, to)'
<1>1. UNCHANGED <<objs, pods, eps>> BY DEF Onward
<1>2. Opens(n, to)' <=> Opens(n, to) BY DEF Opens
<1>3. Current(n, to)' <=> Current(n, to) BY <1>1 DEF Current
<1>4. CASE Opens(n, to)
  <2>1. row.phase \in ReleasePhases /\ to.ver = SideOf(row.phase) /\ Steady(to.ver) BY <1>4 DEF UpdateInv
  <2>2. row'.phase \in ReleasePhases /\ to.ver = SideOf(row'.phase) /\ Steady(to.ver)'
    BY <1>1, <2>1, SameFacts DEF Onward
  <2> QED BY <1>1, <1>2, <1>3, <1>4, <2>2 DEF UpdateInv
<1>5. CASE ~Opens(n, to)
  <2>1. row.phase \notin ReleasePhases /\ core # "releasing" /\ (n = Deployment => Closed) BY <1>5 DEF UpdateInv
  <2>2. row'.phase \notin ReleasePhases /\ core' # "releasing" /\ (n = Deployment => Closed')
    BY <1>1, <2>1, SameFacts DEF Onward
  <2> QED BY <1>1, <1>2, <1>3, <1>5, <2>2 DEF UpdateInv
<1> QED BY <1>4, <1>5

LEMMA JobOnward ==
    ASSUME NEW call \in Call, NEW at, JobInv(call, at), Onward
    PROVE  JobInv(call, at)'
<1>0. call.n \in Objects /\ call.to \in Object BY CallFacts
<1>1. UNCHANGED <<objs, pods, eps>> BY DEF Onward
<1>2. at = "update" => UpdateInv(call.n, call.to)' BY <1>0, UpdateOnward DEF JobInv
<1>3. call.job = "open" =>
        /\ row'.phase \in ReleasePhases /\ call.side = SideOf(row'.phase)
        /\ at = "svc" => Steady(call.side)' /\ \A m \in 1..(call.n - 1) : Opened(objs'[m], call.side)
  BY <1>1, SameFacts DEF JobInv, Onward
<1>4. at # "idle" /\ ~Releasing(call.mode) => row'.phase \notin ReleasePhases /\ core' # "releasing"
  BY DEF JobInv, Onward
<1>5. call.job \in {"stop", "start"} =>
        /\ at \in {"svc", "slices"} => \A m \in 1..(call.n - 1) : objs'[m].gated /\ m \notin eps'
        /\ at = "slices" => objs'[call.n].gated
        /\ at = "gone" => Closed'
  BY <1>1, SameFacts DEF JobInv
<1> QED BY <1>1, <1>2, <1>3, <1>4, <1>5 DEF JobInv

LEMMA CallOnward ==
    ASSUME NEW call \in Call, NEW at, CallInv(call, at, FALSE), Onward
    PROVE  CallInv(call, at, FALSE)'
<1>1. JobInv(call, at)' BY JobOnward DEF CallInv
<1>2. Place(call, at)' BY DEF CallInv, Place, Opens
<1> QED BY <1>1, <1>2 DEF CallInv, Course

\* What is left to show once no call has its transaction, or the one that had has ended.
LEMMA OnwardStep ==
    ASSUME StoppedInv, Onward, faults' \in 0..MaxFaults,
           pc' \in [Callers -> Labels], loc' \in [Callers -> Call], tx' \in [Callers -> BOOLEAN],
           \A c \in Callers : ~tx'[c],
           \A c \in Callers : \/ UNCHANGED <<pc[c], loc[c]>>
                              \/ pc'[c] = "idle" /\ loc'[c] = NoCall,
           core' \in {"checking", "preparing", "restoring", "releasing", "done"}, installed' \in 0..2,
           known' \subseteq Replies, row' \in Row,
           ~row'.cp \/ row'.phase \in Early => ~row.cp \/ row.phase \in Early,
           ServeInv', RowInv', CoreInv'
    PROVE  StoppedInv'
<1>0. UNCHANGED <<objs, observed, pods, born, broken, eps, media, registered, late>> BY DEF Onward
<1>1. Types' /\ CallTypes' BY <1>0 DEF StoppedInv, Types, CallTypes
<1>2. WorkloadInv' BY <1>0, SameFacts DEF StoppedInv
<1>3. LockInv' BY DEF LockInv
<1>4. EarlyInv'
  <2>1. NoCall.job \in Tame BY DEF NoCall, Tame
  <2>2. ~row'.cp \/ row'.phase \in Early => Untouched' BY <1>0, SameFacts DEF StoppedInv, EarlyInv
  <2>3. ASSUME ~row'.cp \/ row'.phase \in Early, NEW c \in Callers
        PROVE  loc'[c].job \in Tame /\ pc'[c] # "update"
    BY <2>1, <2>3 DEF StoppedInv, EarlyInv
  <2>4. ~row'.cp \/ row'.phase \in Early => \A r \in late' : r.kind # "update" BY <1>0 DEF StoppedInv, EarlyInv
  <2> QED BY <2>2, <2>3, <2>4 DEF EarlyInv
<1>5. ASSUME NEW c \in Callers PROVE CallInv(loc[c], pc[c], tx[c])'
  <2>1. PICK call \in Call, at \in Labels, locked \in BOOLEAN :
          /\ call = loc'[c] /\ at = pc'[c]
          /\ CallInv(call, at, locked)
    <3>1. CASE UNCHANGED <<pc[c], loc[c]>> BY <3>1, CallOf
    <3>2. CASE pc'[c] = "idle" /\ loc'[c] = NoCall BY <3>2, IdleCall, NoCallType DEF Labels
    <3> QED BY <3>1, <3>2
  <2>2. CallInv(call, at, FALSE) BY <2>1 DEF CallInv
  <2>3. CallInv(call, at, FALSE)' BY <2>2, CallOnward
  <2>4. tx'[c] = FALSE OBVIOUS
  <2> QED BY <2>1, <2>3, <2>4
<1>6. ASSUME NEW r \in late', r.kind = "update" PROVE UpdateInv(r.n, r.to)'
  <2>1. r \in late /\ r \in LateRequest /\ UpdateInv(r.n, r.to) BY <1>0, <1>6 DEF StoppedInv, CallTypes
  <2>2. PICK n \in Objects, to \in Object : n = r.n /\ to = r.to BY <2>1 DEF LateRequest
  <2>3. UpdateInv(n, to)' BY <2>1, <2>2, UpdateOnward
  <2> QED BY <2>2, <2>3
<1> QED BY <1>1, <1>2, <1>3, <1>4, <1>5, <1>6 DEF StoppedInv

\* No call moves and none has its transaction.
LEMMA UnlockedStep ==
    ASSUME StoppedInv, Onward, faults' \in 0..MaxFaults, Unlocked, UNCHANGED calls,
           core' \in {"checking", "preparing", "restoring", "releasing", "done"}, installed' \in 0..2,
           known' \subseteq Replies, row' \in Row,
           ~row'.cp \/ row'.phase \in Early => ~row.cp \/ row.phase \in Early,
           ServeInv', RowInv', CoreInv'
    PROVE  StoppedInv'
<1>1. UNCHANGED <<pc, tx, loc>> BY DEF calls
<1>2. /\ pc' \in [Callers -> Labels] /\ loc' \in [Callers -> Call] /\ tx' \in [Callers -> BOOLEAN]
      /\ \A c \in Callers : ~tx'[c] /\ UNCHANGED <<pc[c], loc[c]>>
  BY <1>1 DEF StoppedInv, CallTypes, Types, Unlocked
<1> QED BY <1>2, OnwardStep

--------------------------------------------------------------------------------
LEMMA TurnStep ==
    ASSUME StoppedInv, NEW c \in Callers, NEW mode \in Modes, Turn(c, mode)
    PROVE  StoppedInv'
<1>0. /\ UNCHANGED <<core, installed, registered, row, objs, observed, pods, born, broken, calls, late, faults, eps, media>>
      /\ known' \in {known, known \cup {"conflict"}} /\ Unlocked
  BY DEF Turn, Refused, Admitted, workload, routes
<1>1. Onward BY <1>0 DEF Onward
<1>2. Types' /\ ServeInv' /\ RowInv' BY <1>0, SameFacts
      DEF StoppedInv, Types, Replies, ServeInv, RowInv, Published, calls
<1>3. CoreInv' BY <1>0, SameFacts DEF StoppedInv, CoreInv, Published
<1>4. ~row'.cp \/ row'.phase \in Early => ~row.cp \/ row.phase \in Early BY <1>0
<1> QED BY <1>0, <1>1, <1>2, <1>3, <1>4, UnlockedStep DEF Types

LEMMA CreateRowStep ==
    ASSUME StoppedInv, NEW c \in Callers, CreateRow(c), UNCHANGED routes
    PROVE  StoppedInv'
<1>0. /\ UNCHANGED <<core, installed, known, registered, objs, observed, pods, born, broken, calls, late, faults, eps, media>>
      /\ Unlocked /\ row.phase = "none" /\ row' = [row EXCEPT !.phase = "checking"]
      /\ core # "done"
  BY DEF CreateRow, Bound, authority, workload, routes
<1>1. row \in Row /\ row' \in Row /\ row'.phase = "checking" /\ row'.cp = row.cp
  BY <1>0 DEF StoppedInv, Types, Row, Phases
<1>2. Onward BY <1>0, <1>1 DEF Onward, ReleasePhases
<1>3. ServeInv' /\ RowInv' BY <1>0, <1>1, SameFacts
      DEF StoppedInv, ServeInv, RowInv, Published, Captured, Replacing, Released
<1>4. CoreInv' BY <1>0, <1>1, SameFacts DEF StoppedInv, CoreInv, Published, ReleasePhases, Rejections, Released
<1>5. ~row'.cp \/ row'.phase \in Early => ~row.cp \/ row.phase \in Early BY <1>0 DEF Early
<1>6. Types BY DEF StoppedInv
<1> QED BY <1>0, <1>1, <1>2, <1>3, <1>4, <1>5, <1>6, UnlockedStep DEF Types

LEMMA RejectStep ==
    ASSUME StoppedInv, NEW c \in Callers, rejectManagementTemplate(c), UNCHANGED routes
    PROVE  StoppedInv'
<1>0. /\ UNCHANGED <<core, installed, registered, objs, observed, pods, born, broken, calls, late, faults, eps, media>>
      /\ Unlocked /\ ~row.cp /\ row.phase \in {"none", "checking", "rejected_preflight"}
      /\ row' = [row EXCEPT !.phase = "rejected_preflight"] /\ core = "checking"
      /\ known' \in {known, known \cup {"rejected"}}
  BY DEF rejectManagementTemplate, Tell, Reply, workload, routes
<1>1. row \in Row /\ row' \in Row /\ row'.phase = "rejected_preflight" /\ row'.cp = row.cp
  BY <1>0 DEF StoppedInv, Types, Row, Phases
<1>2. Onward BY <1>0, <1>1 DEF Onward, ReleasePhases
<1>3. ServeInv' /\ RowInv' BY <1>0, <1>1, SameFacts
      DEF StoppedInv, ServeInv, RowInv, Published, Captured, Replacing, Released
<1>4. CoreInv' BY <1>0, <1>1, SameFacts DEF StoppedInv, CoreInv, Published, ReleasePhases, Rejections, Released
<1>5. known' \subseteq Replies BY <1>0 DEF StoppedInv, Types, Replies
<1>6. Types BY DEF StoppedInv
<1> QED BY <1>0, <1>1, <1>2, <1>3, <1>4, <1>5, <1>6, UnlockedStep DEF Types

LEMMA CommitStep ==
    ASSUME StoppedInv, NEW c \in Callers, Commit(c), UNCHANGED routes
    PROVE  StoppedInv'
<1>0. /\ UNCHANGED <<core, installed, registered, objs, observed, pods, born, broken, late, faults, eps, media>>
      /\ pc[c] = "commit" /\ End(c) /\ Types /\ CallTypes
  BY DEF Commit, workload, routes, StoppedInv
<1>1. CASE ~tx[c]
  <2>1. UNCHANGED <<row, known>> BY <1>1 DEF Commit
  <2>2. World BY <1>0, <2>1, SameWorld DEF Types
  <2> QED BY <1>0, <2>2, CallerStep DEF Sound
<1>2. CASE tx[c]
  <2>0. PICK call \in Call : call = loc[c] BY CallOf
  <2>1. /\ row' = [phase |-> call.next, cp |-> call.cp]
        /\ known' \in {known, known \cup {Reply(call.mode, call.next)}}
    BY <1>2, <2>0 DEF Commit, Tell
  <2>2. /\ Outcome(call) /\ Bound(call.mode) /\ call.phase = row.phase /\ call.mode \in Modes
        /\ ~Releasing(call.mode) => row.phase \notin ReleasePhases
    BY <1>0, <1>2, <2>0, CallOf DEF CallInv, JobInv
  <2>3. row' \in Row /\ row'.phase = call.next /\ row'.cp = call.cp BY <2>1, CallFacts DEF Row
  <2>4. row.phase \in ReleasePhases =>
          /\ call.next \in ReleasePhases
          /\ SideOf(call.next) = SideOf(row.phase)
    BY <2>2 DEF Outcome, StoppedInv, CoreInv
  <2>5. call.next \in ReleasePhases => core = "releasing"
    BY <2>2 DEF Outcome, Bound
  <2>6. Onward BY <1>0, <2>3, <2>4, <2>5 DEF Onward
  <2>7. /\ pc' = [pc EXCEPT ![c] = "idle"] /\ tx' = [tx EXCEPT ![c] = FALSE] /\ loc' = [loc EXCEPT ![c] = NoCall]
    BY <1>0 DEF End
  <2>8. /\ pc' \in [Callers -> Labels] /\ loc' \in [Callers -> Call] /\ tx' \in [Callers -> BOOLEAN]
    BY <1>0, <2>7, NoCallType DEF Types, CallTypes, Labels
  <2>9. /\ pc'[c] = "idle" /\ loc'[c] = NoCall /\ ~tx'[c]
        /\ \A d \in Callers : d # c => UNCHANGED <<pc[d], loc[d], tx[d]>>
    BY <1>0, <2>7 DEF Types, CallTypes
  <2>10. \A d \in Callers : ~tx'[d] BY <1>2, <2>9 DEF StoppedInv, LockInv
  <2>11. known' \subseteq Replies BY <1>0, <2>1 DEF Types, Replies, Reply
  <2>12. ServeInv' /\ RowInv'
    <3>1. ServeInv' BY <1>0, SameFacts DEF StoppedInv, ServeInv, Published
    <3>2. RowInv' BY <1>0, <2>2, <2>3, SameFacts DEF RowInv, Outcome
    <3> QED BY <3>1, <3>2
  <2>13. CoreInv'
    <3>0. CoreInv /\ Published' = Published /\ (Closed' <=> Closed) BY <1>0, SameFacts DEF StoppedInv, Published
    <3>1. core \in {"checking", "preparing"} =>
            /\ installed = 0 /\ call.next \notin ReleasePhases
            /\ "rejected" \in known' => call.next \in Rejections
            /\ "prepared" \in known' => Closed
      <4> SUFFICES ASSUME core \in {"checking", "preparing"}
                   PROVE  /\ installed = 0 /\ call.next \notin ReleasePhases
                          /\ "rejected" \in known' => call.next \in Rejections
                          /\ "prepared" \in known' => Closed
        OBVIOUS
      <4>1. call.mode = "prepare" /\ installed = 0 /\ call.next \notin ReleasePhases
        BY <2>2, <2>5, <3>0, BoundFacts DEF CoreInv
      <4>2. Reply(call.mode, call.next) = "rejected" => call.next \in Rejections
        BY <4>1 DEF Reply, Rejections
      <4>3. Reply(call.mode, call.next) = "prepared" => call.next \in Replacing
        BY <4>1 DEF Reply, Replacing
      <4>4. "rejected" \in known => call.next \in Rejections BY <2>2, <3>0, <4>1 DEF CoreInv, Outcome
      <4>5. "prepared" \in known => Closed BY <3>0 DEF CoreInv
      <4> QED BY <2>1, <2>2, <4>1, <4>2, <4>3, <4>4, <4>5 DEF Outcome
    <3>2. core = "restoring" => call.next \notin ReleasePhases BY <2>5
    <3>3. core = "releasing" /\ "released" \in known' => call.next \in Released
      <4>1. Reply(call.mode, call.next) = "released" => call.next \in Released BY DEF Reply, Released
      <4>2. core = "releasing" /\ "released" \in known => call.next \in Released
        BY <2>2, <3>0 DEF CoreInv, Outcome
      <4> QED BY <2>1, <4>1, <4>2
    <3>4. core # "done" BY <2>2 DEF Bound
    <3>5. call.next \in ReleasePhases => SideOf(call.next) = Published BY <2>2 DEF Outcome
    <3>6. installed = 1 /\ call.next \notin ReleasePhases => Closed BY <2>4, <3>0 DEF CoreInv
    <3> QED BY <1>0, <2>3, <3>0, <3>1, <3>2, <3>3, <3>4, <3>5, <3>6 DEF CoreInv
  <2>14. ~row'.cp \/ row'.phase \in Early => ~row.cp \/ row.phase \in Early BY <2>2, <2>3 DEF Outcome
  <2>15. faults' \in 0..MaxFaults /\ core' \in {"checking", "preparing", "restoring", "releasing", "done"} /\ installed' \in 0..2
    BY <1>0 DEF Types
  <2> QED BY <2>3, <2>6, <2>8, <2>9, <2>10, <2>11, <2>12, <2>13, <2>14, <2>15, OnwardStep
<1> QED BY <1>1, <1>2

--------------------------------------------------------------------------------
\* A call that has ended says nothing of the row or of Core.
LEMMA IdleKept ==
    ASSUME NEW call, CallInv(call, "idle", FALSE), UNCHANGED objs
    PROVE  CallInv(call, "idle", FALSE)'
<1>1. call.job = "none" /\ JobInv(call, "idle") BY DEF CallInv
<1>2. JobInv(call, "idle")' BY <1>1 DEF JobInv
<1> QED BY <1>1, <1>2 DEF CallInv, Place

\* Core moves on: in general when no call has its transaction, into a release only when
\* every call has ended and everything it has sent is settled.
LEMMA CoreMoves ==
    ASSUME StoppedInv, NEW phase, NEW revision, CoreStep(phase, revision), UNCHANGED routes, Unlocked,
           phase \in {"checking", "preparing", "restoring", "releasing", "done"}, revision \in 0..2,
           faults' \in 0..MaxFaults, timely', ServeInv', CoreInv'
    PROVE  StoppedInv'
<1>0. /\ UNCHANGED <<registered, row, objs, observed, pods, born, broken, calls, late, eps, media>>
      /\ core' = phase /\ installed' = revision /\ known' = {} /\ Types
  BY DEF CoreStep, workload, routes, StoppedInv
<1>1. RowInv' BY <1>0, SameFacts DEF StoppedInv, RowInv
<1>2. row' \in Row /\ (~row'.cp \/ row'.phase \in Early => ~row.cp \/ row.phase \in Early) BY <1>0 DEF Types
<1>3. CASE phase # "releasing"
  <2>1. Onward BY <1>0, <1>3 DEF Onward
  <2> QED BY <1>0, <1>1, <1>2, <2>1, UnlockedStep
<1>4. CASE phase = "releasing"
  <2>0. late = {} /\ (\A c \in Callers : pc[c] = "idle") /\ UNCHANGED <<pc, tx, loc>>
    BY <1>0, <1>4 DEF CoreStep, Settled, calls
  <2>1. Types' /\ CallTypes' BY <1>0, <2>0 DEF StoppedInv, Types, CallTypes
  <2>2. WorkloadInv' BY <1>0, SameFacts DEF StoppedInv
  <2>3. LockInv' BY <2>0 DEF StoppedInv, LockInv
  <2>4. EarlyInv'
    <3>1. Untouched' <=> Untouched BY <1>0, SameFacts
    <3> QED BY <1>0, <2>0, <3>1 DEF StoppedInv, EarlyInv
  <2>5. ASSUME NEW c \in Callers PROVE CallInv(loc[c], pc[c], tx[c])'
    <3>1. PICK call \in Call : call = loc[c] BY CallOf
    <3>2. CallInv(call, "idle", FALSE) BY <2>0, <3>1, CallOf DEF CallInv
    <3>3. CallInv(call, "idle", FALSE)' BY <1>0, <3>2, IdleKept
    <3>4. pc'[c] = "idle" /\ loc'[c] = call /\ tx'[c] = FALSE
      BY <1>0, <2>0, <3>1 DEF Unlocked, Types
    <3> QED BY <3>3, <3>4
  <2>6. \A r \in late' : r.kind = "update" => UpdateInv(r.n, r.to)' BY <1>0, <2>0
  <2> QED BY <1>1, <2>1, <2>2, <2>3, <2>4, <2>5, <2>6 DEF StoppedInv
<1> QED BY <1>3, <1>4

LEMMA CoreActsStep ==
    ASSUME StoppedInv, Core, UNCHANGED routes, timely'
    PROVE  StoppedInv'
<1>0. Types /\ CoreInv /\ ServeInv /\ installed \in 0..2 /\ faults \in 0..MaxFaults BY DEF StoppedInv, Types
\* A step that leaves what is published alone.
<1>1. ASSUME NEW phase \in {"preparing", "restoring", "done"}, CoreStep(phase, installed), Unlocked,
             faults' \in 0..MaxFaults, phase = "preparing" => core = "checking",
             phase = "done" => row.phase \in Released \/ (row.phase \in Rejections /\ installed = 0)
      PROVE  StoppedInv'
  <2>0. UNCHANGED <<row, objs, pods, eps>> /\ core' = phase /\ installed' = installed /\ known' = {}
    BY <1>1 DEF CoreStep, workload, routes
  <2>1. Published' = Published /\ (Closed' <=> Closed) BY <2>0, SameFacts DEF Published
  <2>2. ServeInv' BY <1>0, <2>0, <2>1 DEF ServeInv
  <2>3. CoreInv' BY <1>0, <1>1, <2>0, <2>1 DEF CoreInv
  <2> QED BY <1>0, <1>1, <2>2, <2>3, CoreMoves
<1>2. CASE Advance BY <1>0, <1>1, <1>2 DEF Advance
<1>3. CASE Publish
  <2>0. /\ UNCHANGED <<row, objs, pods, eps>> /\ core' = "releasing" /\ installed' = 1 /\ known' = {}
        /\ Unlocked /\ CoreStep("releasing", 1) /\ faults' = faults
    BY <1>3 DEF Publish, CoreStep, workload, routes
  <2>1. Closed /\ row.phase \notin ReleasePhases BY <1>0, <1>3 DEF Publish, CoreInv
  <2>2. Closed' BY <2>0, <2>1, SameFacts
  <2>3. ServeInv' BY <2>2 DEF ServeInv
  <2>4. CoreInv' BY <2>0, <2>1, <2>2 DEF CoreInv
  <2> QED BY <1>0, <2>0, <2>3, <2>4, CoreMoves
<1>4. CASE Recover
  <2>1. CoreStep("restoring", installed) /\ Unlocked BY <1>4 DEF Recover
  <2>2. faults' \in 0..MaxFaults BY <1>0, <1>4, MoreFaults DEF Recover
  <2> QED BY <1>1, <2>1, <2>2
<1>5. CASE Compensate
  <2>0. PICK revision : revision = IF installed = 1 THEN 2 ELSE installed OBVIOUS
  <2>1. /\ UNCHANGED <<row, objs, pods, eps>> /\ core' = "releasing" /\ installed' = revision /\ known' = {}
        /\ Unlocked /\ CoreStep("releasing", revision) /\ faults' = faults
    BY <1>5, <2>0 DEF Compensate, CoreStep, workload, routes
  <2>2. row.phase \notin ReleasePhases /\ (installed = 1 => Closed) BY <1>0, <1>5 DEF Compensate, CoreInv
  <2>3. revision \in 0..2 /\ revision # 1 /\ (installed # 1 => Published' = Published)
    BY <1>0, <2>0, <2>1 DEF Published
  <2>4. Closed' <=> Closed BY <2>1, SameFacts
  <2>5. ServeInv' BY <1>0, <2>1, <2>2, <2>3, <2>4 DEF ServeInv
  <2>6. CoreInv' BY <2>1, <2>2, <2>3 DEF CoreInv
  <2> QED BY <1>0, <2>1, <2>3, <2>5, <2>6, CoreMoves
<1>6. CASE Rollback
  <2>1. CoreStep("restoring", installed) /\ Unlocked BY <1>6 DEF Rollback
  <2>2. faults' \in 0..MaxFaults BY <1>0, <1>6, MoreFaults DEF Rollback
  <2> QED BY <1>1, <2>1, <2>2
<1>7. CASE Finish
  <2>1. CoreStep("done", installed) /\ Unlocked /\ faults' = faults BY <1>7 DEF Finish
  <2>2. row.phase \in Released \/ (row.phase \in Rejections /\ installed = 0) BY <1>0, <1>7 DEF Finish, CoreInv
  <2> QED BY <1>0, <1>1, <2>1, <2>2
<1> QED BY <1>2, <1>3, <1>4, <1>5, <1>6, <1>7 DEF Core

LEMMA RedeployStep ==
    ASSUME StoppedInv, Redeploy, UNCHANGED routes
    PROVE  StoppedInv'
<1>0. /\ UNCHANGED <<core, installed, known, row, objs, observed, pods, born, broken, pc, tx, loc, late, eps, media>>
      /\ registered' \in BOOLEAN /\ faults' \in 0..MaxFaults
  BY MoreFaults DEF Redeploy, workload, calls, routes
<1>1. Types' /\ CallTypes' /\ LockInv' BY <1>0 DEF StoppedInv, Types, CallTypes, LockInv
<1>2. /\ WorkloadInv' /\ (Closed' <=> Closed) /\ (Untouched' <=> Untouched) /\ Published' = Published
      /\ \A side : Done(side)' <=> Done(side)
  BY <1>0, SameFacts DEF StoppedInv, Published
<1>3. ServeInv' /\ RowInv' /\ CoreInv' /\ EarlyInv'
  BY <1>0, <1>2 DEF StoppedInv, ServeInv, RowInv, CoreInv, EarlyInv
<1>4. Keeps BY <1>0 DEF Keeps, Steady, Opened
<1>5. objs \in [Objects -> Object] /\ objs' \in [Objects -> Object] BY <1>0 DEF StoppedInv, Types
<1>6. ASSUME NEW c \in Callers PROVE CallInv(loc[c], pc[c], tx[c])'
  <2>1. PICK call \in Call, at \in Labels, locked \in BOOLEAN : call = loc[c] /\ at = pc[c] /\ locked = tx[c] BY CallOf
  <2>2. CallInv(call, at, locked) BY <2>1, CallOf
  <2>3. CallInv(call, at, locked)' BY <1>0, <1>4, <1>5, <2>2, CallKept
  <2> QED BY <1>0, <2>1, <2>3
<1>7. ASSUME NEW r \in late', r.kind = "update" PROVE UpdateInv(r.n, r.to)'
  <2>1. r \in late /\ r \in LateRequest /\ UpdateInv(r.n, r.to) BY <1>0, <1>7 DEF StoppedInv, CallTypes
  <2>2. PICK n \in Objects, to \in Object : n = r.n /\ to = r.to BY <2>1 DEF LateRequest
  <2>3. UpdateInv(n, to)' BY <1>0, <1>4, <1>5, <2>1, <2>2, UpdateKept
  <2> QED BY <2>2, <2>3
<1> QED BY <1>1, <1>2, <1>3, <1>6, <1>7 DEF StoppedInv

--------------------------------------------------------------------------------
(* The invariant                                                            *)

LEMMA StoppedInit == Init => StoppedInv
<1> SUFFICES ASSUME Init PROVE StoppedInv OBVIOUS
<1>0. JournalInit /\ eps = Services /\ media \in Media BY DEF Init
<1>1. Types
  <2>1. [uid |-> 1, ver |-> "source", state |-> "ready"] \in Pod BY Numbers DEF Pod, Versions
  <2>2. row \in Row BY <1>0 DEF JournalInit, Row, Phases
  <2>3. objs \in [Objects -> Object] BY <1>0, NoCallType DEF JournalInit
  <2>4. broken \in BOOLEAN
    <3>1. broken = ("broken" \in Faults) \/ broken = FALSE BY <1>0 DEF JournalInit
    <3>2. ("broken" \in Faults) \in BOOLEAN OBVIOUS
    <3> QED BY <3>1, <3>2
  <2>5. born \in 1..MaxPods /\ faults \in 0..MaxFaults /\ installed \in 0..2 BY <1>0, Numbers DEF JournalInit
  <2> QED BY <1>0, <2>1, <2>2, <2>3, <2>4, <2>5 DEF Types, JournalInit
<1>2. CallTypes BY <1>0, NoCallType DEF JournalInit, CallTypes, Labels
<1>3. \A n \in Objects : objs[n] = Original BY <1>0 DEF JournalInit
<1>4. /\ Original.ver = "source" /\ ~Original.gated /\ Original.up /\ Original.rv = 0
      /\ \A p \in pods : p.ver = "source"
      /\ Published = "source" /\ row.phase = "none" /\ ~row.cp
  BY <1>0 DEF JournalInit, Original, Published
<1>5. WorkloadInv /\ ServeInv BY <1>3, <1>4, Sets DEF WorkloadInv, ServeInv, OneVersionRuns
<1>6. RowInv BY <1>4 DEF RowInv, Captured, Replacing, Released
<1>7. CoreInv BY <1>0, <1>4 DEF JournalInit, CoreInv, ReleasePhases
<1>8. EarlyInv
  <2>1. Untouched BY <1>3, <1>4 DEF Untouched
  <2>2. NoCall.job \in Tame BY DEF NoCall, Tame
  <2> QED BY <1>0, <2>1, <2>2 DEF JournalInit, EarlyInv
<1>9. LockInv BY <1>0 DEF JournalInit, LockInv
<1>10. CallInv(NoCall, "idle", FALSE)
  <2>1. NoCall.job = "none" /\ NoCall.dep = Original BY DEF NoCall
  <2>2. objs[Deployment] = Original BY <1>3, Sets
  <2>3. JobInv(NoCall, "idle") BY <1>4, <2>1, <2>2 DEF JobInv
  <2> QED BY <2>1, <2>3 DEF CallInv, Place
<1>11. \A c \in Callers : CallInv(loc[c], pc[c], tx[c]) BY <1>0, <1>10 DEF JournalInit
<1>12. \A r \in late : r.kind = "update" => UpdateInv(r.n, r.to) BY <1>0 DEF JournalInit
<1> QED BY <1>1, <1>2, <1>5, <1>6, <1>7, <1>8, <1>9, <1>11, <1>12 DEF StoppedInv

LEMMA StoppedNext == StoppedInv /\ [Next]_vars /\ timely' => StoppedInv'
<1> SUFFICES ASSUME StoppedInv, [Next]_vars, timely' PROVE StoppedInv' OBVIOUS
<1>1. CASE UNCHANGED vars
  <2>1. /\ UNCHANGED <<core, installed, known, registered, row, objs, observed, pods, born, broken, eps, media>>
        /\ UNCHANGED calls /\ late' \subseteq late /\ faults' \in 0..MaxFaults
    BY <1>1 DEF vars, journalVars, authority, workload, routes, StoppedInv, Types
  <2> QED BY <2>1, SameWorld, WorldStep
<1>2. CASE Shared /\ UNCHANGED routes
  <2>1. ASSUME NEW c \in Callers, CreateRow(c) PROVE StoppedInv' BY <1>2, <2>1, CreateRowStep
  <2>2. ASSUME NEW c \in Callers, rejectManagementTemplate(c) PROVE StoppedInv' BY <1>2, <2>2, RejectStep
  <2>3. ASSUME NEW c \in Callers, Commit(c) PROVE StoppedInv' BY <1>2, <2>3, CommitStep
  <2>4. ASSUME NEW c \in Callers, Update(c) PROVE StoppedInv' BY <1>2, <2>4, UpdateStep
  <2>5. CASE Core BY <1>2, <2>5, CoreActsStep
  <2>6. CASE Cluster BY <1>2, <2>6, ClusterStep
  <2>7. ASSUME NEW c \in Callers, Interrupt(c) PROVE StoppedInv' BY <1>2, <2>7, InterruptStep
  <2>8. ASSUME NEW c \in Callers, SessionLoss(c) PROVE StoppedInv' BY <1>2, <2>8, SessionLossStep
  <2>9. CASE Crash BY <1>2, <2>9, CrashStep
  <2>10. CASE Redeploy BY <1>2, <2>10, RedeployStep
  <2>11. ASSUME NEW r \in late, Land(r) PROVE StoppedInv' BY <1>2, <2>11, LandStep
  <2>12. ASSUME NEW r \in late, Lose(r) PROVE StoppedInv' BY <1>2, <2>12, LoseStep
  <2> QED BY <1>2, <2>1, <2>2, <2>3, <2>4, <2>5, <2>6, <2>7, <2>8, <2>9, <2>10, <2>11, <2>12 DEF Shared, Failures
<1>3. ASSUME NEW c \in Callers, NEW mode \in Modes, Begin(c, mode) PROVE StoppedInv' BY <1>3, BeginStep
<1>4. ASSUME NEW c \in Callers, NEW mode \in Modes, Turn(c, mode) PROVE StoppedInv' BY <1>4, TurnStep
<1>5. ASSUME NEW c \in Callers, Proceed(c) PROVE StoppedInv'
  <2>1. CASE Commit(c) /\ UNCHANGED routes BY <2>1, CommitStep
  <2>2. CASE Update(c) /\ UNCHANGED routes BY <2>2, UpdateStep
  <2> QED BY <1>5, <2>1, <2>2, ReadStep DEF Proceed
<1>6. ASSUME NEW s \in Services, SyncSlices(s) PROVE StoppedInv' BY <1>6, SyncStep
<1> QED BY <1>1, <1>2, <1>3, <1>4, <1>5, <1>6 DEF Next

\* No step gives the history variable back.
LEMMA OnceLate == [Next]_vars => (timely' => timely)
<1> SUFFICES ASSUME [Next]_vars, timely' PROVE timely OBVIOUS
<1>1. CASE UNCHANGED authority BY <1>1 DEF authority
<1>2. CASE Core BY <1>2 DEF Core, Advance, Publish, Recover, Compensate, Rollback, Finish, CoreStep
<1>3. ASSUME NEW c \in Callers, CreateRow(c) \/ rejectManagementTemplate(c) \/ Commit(c) PROVE timely
  BY <1>3 DEF CreateRow, rejectManagementTemplate, Commit, authority
<1>4. CASE Redeploy BY <1>4 DEF Redeploy
<1>5. CASE Shared
  BY <1>1, <1>2, <1>3, <1>4, <1>5 DEF Shared, Update, Cluster, Failures, Interrupt, SessionLoss, Crash, Land, Lose
<1>6. ASSUME NEW c \in Callers, NEW mode \in Modes, Begin(c, mode) \/ Turn(c, mode) PROVE timely
  BY <1>1, <1>6 DEF Begin, Turn, Enter, Refused
<1>7. ASSUME NEW c \in Callers, Proceed(c) PROVE timely
  BY <1>1, <1>3, <1>7
     DEF Proceed, Update, ReadDeployment, ReadService, ReadSlices, ReadGone, ReadPods, Ask, AskFails, Quiet
<1>8. ASSUME NEW s \in Services, SyncSlices(s) PROVE timely BY <1>1, <1>8 DEF SyncSlices, journalVars
<1>9. CASE UNCHANGED vars BY <1>1, <1>9 DEF vars, journalVars
<1> QED BY <1>5, <1>6, <1>7, <1>8, <1>9 DEF Next

\* As long as Core has begun no release before what was abandoned had settled, every state of
\* a downtime transition is as StoppedInv says: what each call under way, each request of an
\* abandoned call and the row may still do to the workload (reconcile, advanceStopped and
\* every function under it).
THEOREM StoppedInvariant == Spec => [](timely => StoppedInv)
<1>1. Init => (timely => StoppedInv) BY StoppedInit
<1>2. (timely => StoppedInv) /\ [Next]_vars => (timely => StoppedInv)' BY StoppedNext, OnceLate
<1> QED BY <1>1, <1>2, PTL DEF Spec

\* A transition that Core has closed leaves the published version running behind open
\* Services, and a rejected or canceled preflight has changed nothing, as long as Core has
\* begun no release before what was abandoned had settled (Open and the early returns of
\* advanceStopped; StoppedTransition!FinishedConsistent).
THEOREM FinishedIsConsistent == Spec => []FinishedConsistent
<1>1. ASSUME timely => StoppedInv PROVE FinishedConsistent
  <2> SUFFICES ASSUME StoppedInv PROVE FinishedConsistent BY <1>1 DEF FinishedConsistent
  <2>0. RowInv /\ CoreInv /\ EarlyInv /\ objs \in [Objects -> Object] BY DEF StoppedInv, Types
  <2>1. row.phase \in Rejections => Untouched BY <2>0 DEF EarlyInv, Rejections, Early
  <2>2. \A n \in Objects : objs[n].ver \in {"source", "target", "other"} BY <2>0, ObjectFacts DEF Versions
  <2>3. ASSUME row.phase \in Released
        PROVE  /\ \A n \in Objects : objs[n].ver \in {Published, "other"}
               /\ objs[Deployment].up
               /\ \A s \in Services : objs[s].gated => objs[s].ver = "other"
    <3>1. Done(Published) BY <2>0, <2>3 DEF RowInv, CoreInv, Released, ReleasePhases
    <3> QED BY <3>1, Sets DEF Done, Steady, Opened
  <2>4. ASSUME row.phase \in Rejections, installed = 0
        PROVE  /\ \A n \in Objects : objs[n].ver \in {Published, "other"}
               /\ objs[Deployment].up
               /\ \A s \in Services : objs[s].gated => objs[s].ver = "other"
    BY <2>1, <2>2, <2>4, Sets DEF Untouched, Published
  <2>5. core = "done" => row.phase \in Released \/ (row.phase \in Rejections /\ installed = 0) BY <2>0 DEF CoreInv
  <2>6. row.phase \in {"rejected_preflight", "canceled_source"} =>
          \A n \in Objects : objs[n].ver # "target" /\ ~objs[n].gated /\ objs[n].up
    BY <2>1 DEF Rejections, Untouched
  <2> QED BY <2>3, <2>4, <2>5, <2>6 DEF FinishedConsistent
<1> QED BY <1>1, StoppedInvariant, PTL

--------------------------------------------------------------------------------
(* Types and one version at a time, whether or not Core waits               *)

\* A call where it can be.
Where(call, at) ==
    /\ call \in Call /\ at \in Labels
    /\ at = "dep" => call.job \notin {"none", "barrier"}
    /\ at = "svc" => call.job \in {"capture", "open", "gate", "barrier", "stop", "start"}
    /\ at = "slices" => call.job \in {"barrier", "stop", "start"}
    /\ at \in {"svc", "slices"} => call.n \in Services
    /\ at = "gone" => ~call.dep.up
    /\ at \in {"pods", "ask"} => call.job \in {"check", "drain"}
\* The Deployment as a call has read it; an update that starts it finds no Pod.
Read(dep) ==
    /\ dep.rv <= objs[Deployment].rv
    /\ dep.rv = objs[Deployment].rv => dep = objs[Deployment]
Fenced(n, to) ==
    n = Deployment => /\ to.rv <= objs[n].rv + 1
                      /\ Current(n, to) /\ to.up => pods = {} /\ ~objs[n].up
Local(call, at) ==
    /\ Where(call, at)
    /\ at \in {"svc", "slices", "gone"} => Read(call.dep)
    /\ at = "update" => Fenced(call.n, call.to)
VersionInv ==
    /\ OneVersionRuns
    /\ objs[Deployment].up /\ objs[Deployment].ver # "other" => \A p \in pods : p.ver = objs[Deployment].ver
BaseInv ==
    /\ TypeOK /\ CallTypes /\ VersionInv
    /\ \A c \in Callers : Local(loc[c], pc[c])
    /\ \A r \in late : r.kind = "update" => Fenced(r.n, r.to)

Moves(c) == End(c) \/ \E at, call : Goto(c, at, call) /\ Local(call, at)

\* What every step does to the workload.
Evolves ==
    /\ objs \in [Objects -> Object] /\ objs' \in [Objects -> Object]
    /\ objs'[Deployment] = objs[Deployment] \/ objs'[Deployment].rv = objs[Deployment].rv + 1
    /\ pods = {} /\ ~objs[Deployment].up /\ objs'[Deployment] = objs[Deployment] => pods' = {}

LEMMA TypeParts == TypeOK <=> Types /\ timely \in BOOLEAN
  BY DEF TypeOK, Types

LEMMA CallIn == ASSUME BaseInv, NEW c \in Callers PROVE loc[c] \in Call /\ Local(loc[c], pc[c]) /\ Where(loc[c], pc[c])
  BY DEF BaseInv, CallTypes, Local

LEMMA FencedKept == ASSUME NEW n \in Objects, NEW to \in Object, Fenced(n, to), Evolves PROVE Fenced(n, to)'
<1> SUFFICES ASSUME n = Deployment PROVE Fenced(n, to)' BY DEF Fenced
<1>1. objs[n] \in Object /\ objs'[n] \in Object /\ to.rv \in Nat /\ objs[n].rv \in Nat /\ objs'[n].rv \in Nat
  BY ObjectFacts DEF Evolves
<1>2. to.rv <= objs'[n].rv + 1 BY <1>1 DEF Fenced, Evolves
<1>3. ASSUME objs'[n].rv + 1 = to.rv, to.up PROVE pods' = {} /\ ~objs'[n].up
  <2>1. objs'[n] = objs[n] BY <1>1, <1>3 DEF Fenced, Evolves
  <2>2. Current(n, to) BY <1>3, <2>1 DEF Current
  <2> QED BY <1>3, <2>1, <2>2 DEF Fenced, Evolves
<1> QED BY <1>2, <1>3 DEF Fenced, Current

LEMMA LocalKept == ASSUME NEW call, NEW at, Local(call, at), Evolves PROVE Local(call, at)'
<1>1. call \in Call /\ Where(call, at) BY DEF Local, Where
<1>2. call.n \in Objects /\ call.to \in Object /\ call.dep \in Object BY <1>1, CallFacts
<1>3. at = "update" => Fenced(call.n, call.to)' BY <1>2, FencedKept DEF Local
<1>4. ASSUME at \in {"svc", "slices", "gone"} PROVE Read(call.dep)'
  <2>1. objs[Deployment] \in Object /\ objs'[Deployment] \in Object BY Sets DEF Evolves
  <2>2. call.dep.rv \in Nat /\ objs[Deployment].rv \in Nat /\ objs'[Deployment].rv \in Nat BY <1>2, <2>1, ObjectFacts
  <2>3. Read(call.dep) BY <1>4 DEF Local
  <2> QED BY <2>2, <2>3 DEF Read, Evolves
<1> QED BY <1>1, <1>3, <1>4 DEF Local, Where

LEMMA Idle == Local(NoCall, "idle")
  BY NoCallType DEF Local, Where, Labels

\* One caller moves.
LEMMA MovesLocal ==
    ASSUME BaseInv, NEW c \in Callers, Moves(c), Evolves
    PROVE  /\ pc' \in [Callers -> Labels] /\ loc' \in [Callers -> Call] /\ tx' \in [Callers -> BOOLEAN]
           /\ \A d \in Callers : Local(loc[d], pc[d])'
<1>0. /\ pc \in [Callers -> Labels] /\ loc \in [Callers -> Call] /\ tx \in [Callers -> BOOLEAN]
      /\ \A d \in Callers : Local(loc[d], pc[d])
  BY TypeParts DEF BaseInv, Types, CallTypes
<1>1. ASSUME NEW at, NEW call, Local(call, at), pc' = [pc EXCEPT ![c] = at], loc' = [loc EXCEPT ![c] = call],
             tx' \in [Callers -> BOOLEAN]
      PROVE  /\ pc' \in [Callers -> Labels] /\ loc' \in [Callers -> Call] /\ tx' \in [Callers -> BOOLEAN]
             /\ \A d \in Callers : Local(loc[d], pc[d])'
  <2>1. call \in Call /\ at \in Labels BY <1>1 DEF Local, Where
  <2>2. pc' \in [Callers -> Labels] /\ loc' \in [Callers -> Call] BY <1>0, <1>1, <2>1
  <2>3. ASSUME NEW d \in Callers PROVE Local(loc[d], pc[d])'
    <3>1. PICK x, y : x = loc'[d] /\ y = pc'[d] OBVIOUS
    <3>2. (x = call /\ y = at) \/ (x = loc[d] /\ y = pc[d]) BY <1>0, <1>1, <3>1
    <3>3. Local(x, y) BY <1>0, <1>1, <3>2
    <3>4. Local(x, y)' BY <3>3, LocalKept
    <3> QED BY <3>1, <3>4
  <2> QED BY <1>1, <2>2, <2>3
<1>2. CASE End(c)
  <2>1. tx' \in [Callers -> BOOLEAN] BY <1>0, <1>2 DEF End
  <2> QED BY <1>1, <1>2, <2>1, Idle DEF End
<1>3. ASSUME NEW at, NEW call, Goto(c, at, call), Local(call, at)
      PROVE  /\ pc' \in [Callers -> Labels] /\ loc' \in [Callers -> Call] /\ tx' \in [Callers -> BOOLEAN]
             /\ \A d \in Callers : Local(loc[d], pc[d])'
  <2>1. tx' \in [Callers -> BOOLEAN] BY <1>0, <1>3 DEF Goto
  <2> QED BY <1>1, <1>3, <2>1 DEF Goto
<1> QED BY <1>2, <1>3 DEF Moves

LEMMA LocalDecide == ASSUME BaseInv, NEW c \in Callers, NEW phase \in Phases, Decide(c, phase) PROVE Moves(c)
<1>1. [loc[c] EXCEPT !.next = phase] \in Call BY CallIn DEF Call
<1> QED BY <1>1 DEF Decide, Moves, Local, Where, Labels

LEMMA LocalConflict == ASSUME BaseInv, NEW c \in Callers, Conflict(c) PROVE Moves(c)
<1>1. "recovery_required" \in Phases /\ "rejected_preflight" \in Phases BY DEF Phases
<1>2. Decide(c, "recovery_required") \/ Decide(c, "rejected_preflight") \/ End(c) BY DEF Conflict
<1> QED BY <1>1, <1>2, LocalDecide DEF Moves

LEMMA LocalAgain == ASSUME BaseInv, NEW c \in Callers, Again(c) PROVE Moves(c)
<1>1. loc[c].phase \in Phases BY CallIn DEF Call
<1> QED BY <1>1, LocalDecide DEF Again

LEMMA LocalDo ==
    ASSUME BaseInv, NEW c \in Callers, NEW job \in Jobs \ {"none", "barrier"}, NEW side \in Versions, Do(c, job, side)
    PROVE  Moves(c)
<1>1. PICK call \in Call : call = [loc[c] EXCEPT !.job = job, !.side = side] BY CallIn DEF Call
<1>2. call.job = job BY <1>1, CallIn DEF Call
<1>3. Local(call, "dep") BY <1>2 DEF Local, Where, Labels
<1>4. Goto(c, "dep", call) BY <1>1 DEF Do
<1> QED BY <1>3, <1>4 DEF Moves

LEMMA LocalFinished == ASSUME BaseInv, NEW c \in Callers, Finished(c) PROVE Moves(c)
<1>0. loc[c] \in Call /\ loc[c].side \in Versions BY CallIn, CallFacts
<1>1. [loc[c] EXCEPT !.cp = TRUE] \in Call BY <1>0 DEF Call
<1>2. Goto(c, "commit", [loc[c] EXCEPT !.cp = TRUE]) => Moves(c) BY <1>1 DEF Moves, Local, Where, Labels
<1>3. \/ Do(c, "check", "source") \/ Do(c, "quiesce", loc[c].side) \/ Do(c, "stop", loc[c].side)
      \/ Do(c, "resume", "source") \/ Again(c) \/ Goto(c, "commit", [loc[c] EXCEPT !.cp = TRUE])
  BY DEF Finished
<1>4. /\ {"check", "quiesce", "stop", "resume"} \subseteq Jobs \ {"none", "barrier"} /\ "source" \in Versions
  BY DEF Jobs, Tame, Versions
<1> QED BY <1>0, <1>2, <1>3, <1>4, LocalDo, LocalAgain

LEMMA LocalBusy == ASSUME BaseInv, NEW c \in Callers, Busy(c) PROVE Moves(c)
<1>1. [loc[c] EXCEPT !.next = "canceled_source", !.cp = TRUE] \in Call BY CallIn, ZenonT(60) DEF Call, Phases
<1>2. Goto(c, "commit", [loc[c] EXCEPT !.next = "canceled_source", !.cp = TRUE]) => Moves(c)
  BY <1>1 DEF Moves, Local, Where, Labels
<1> QED BY <1>2, LocalConflict DEF Busy

LEMMA LocalChange ==
    ASSUME BaseInv, NEW c \in Callers, NEW n \in Objects, NEW seen \in Object, NEW to \in Object, Change(c, n, seen, to),
           n = Deployment => Read(seen) /\ (to.up => pods = {} /\ ~seen.up)
    PROVE  Moves(c)
<1>1. seen.rv \in Nat /\ objs[n] \in Object /\ objs[n].rv \in Nat
  BY ObjectFacts, TypeParts DEF BaseInv, Types
<1>2. PICK new \in Object : new = [to EXCEPT !.rv = seen.rv + 1]
  <2>1. seen.rv + 1 \in Nat BY <1>1
  <2>2. [to EXCEPT !.rv = seen.rv + 1] \in Object BY <2>1 DEF Object
  <2> QED BY <2>2
<1>3. new.rv = seen.rv + 1 /\ new.up = to.up BY <1>2 DEF Object
<1>4. PICK call \in Call : call = [loc[c] EXCEPT !.n = n, !.to = new] BY CallIn DEF Call
<1>5. call.n = n /\ call.to = new BY <1>4, CallIn DEF Call
<1>6. Fenced(n, new)
  <2> SUFFICES ASSUME n = Deployment PROVE Fenced(n, new) BY DEF Fenced
  <2>1. new.rv <= objs[n].rv + 1 BY <1>1, <1>3 DEF Read
  <2>2. ASSUME Current(n, new), new.up PROVE pods = {} /\ ~objs[n].up
    BY <1>1, <1>3, <2>2 DEF Current, Read
  <2> QED BY <2>1, <2>2 DEF Fenced
<1>7. Local(call, "update") BY <1>5, <1>6 DEF Local, Where, Labels
<1> QED BY <1>2, <1>4, <1>7 DEF Change, Moves

LEMMA LocalReadDeployment == ASSUME BaseInv, NEW c \in Callers, ReadDeployment(c) PROVE Moves(c)
<1>0. /\ loc[c] \in Call /\ pc[c] = "dep" /\ loc[c].job \in Jobs \ {"none", "barrier"}
      /\ objs[Deployment] \in Object /\ 1 \in Services /\ 1 \in Objects
  BY CallIn, CallFacts, TypeParts, Sets DEF BaseInv, Types, ReadDeployment, Where
<1>1. PICK d \in Object : d = objs[Deployment] BY <1>0
<1>2. PICK ready \in BOOLEAN : ready = IF d.up THEN managementReady ELSE observed /\ LivePods = {}
  BY DEF managementReady
<1>3. PICK read \in Call : read = [loc[c] EXCEPT !.n = 1, !.dep = d, !.ready = ready]
  BY <1>0 DEF Call
<1>4. read.n = 1 /\ read.dep = d /\ read.job = loc[c].job BY <1>0, <1>3 DEF Call
<1>5. PICK drained \in Call : drained = [loc[c] EXCEPT !.side = "target", !.ask = "idle",
                                              !.job = IF media /\ d.up THEN "drain" ELSE "stop"]
  BY <1>0 DEF Call, Versions, Asks, Jobs
<1>6. PICK resumed \in Call : resumed = [loc[c] EXCEPT !.ask = "any", !.proc = 0,
                                              !.job = IF d.up THEN "check" ELSE "start"]
  <2>1. 0 \in 0..MaxPods BY Numbers
  <2>2. "check" \in Jobs /\ "start" \in Jobs /\ "any" \in Asks BY DEF Jobs, Tame, Asks
  <2> QED BY <1>0, <2>1, <2>2 DEF Call
<1>7. drained.job \in {"drain", "stop"} /\ resumed.job \in {"check", "start"} BY <1>0, <1>5, <1>6 DEF Call
<1>8. Read(d)
  <2>1. d.rv \in Nat BY ObjectFacts
  <2> QED BY <1>1, <2>1 DEF Read
<1>9. \/ Conflict(c)
      \/ loc[c].job \in {"capture", "open", "gate", "stop", "start"} /\ Goto(c, "svc", read)
      \/ loc[c].job \in {"check", "drain"} /\ Goto(c, "pods", read)
      \/ Do(c, "drain", "source") \/ Do(c, "stop", "source") \/ Do(c, "resume", "source")
      \/ Goto(c, "dep", drained) \/ Goto(c, "dep", resumed)
  BY <1>0, <1>1, <1>2, <1>3, <1>5, <1>6 DEF ReadDeployment, Jobs, Tame
<1>10. loc[c].job \in {"capture", "open", "gate", "stop", "start"} => Local(read, "svc")
  BY <1>0, <1>4, <1>8 DEF Local, Where, Labels
<1>11. loc[c].job \in {"check", "drain"} => Local(read, "pods") BY <1>4 DEF Local, Where, Labels
<1>12. Local(drained, "dep") /\ Local(resumed, "dep") BY <1>7 DEF Local, Where, Labels
<1>13. {"drain", "stop", "resume"} \subseteq Jobs \ {"none", "barrier"} /\ "source" \in Versions
  BY DEF Jobs, Tame, Versions
<1> QED BY <1>9, <1>10, <1>11, <1>12, <1>13, LocalConflict, LocalDo DEF Moves

LEMMA LocalNextService ==
    ASSUME BaseInv, NEW c \in Callers, pc[c] \in {"svc", "slices"}, NextService(c)
    PROVE  Moves(c)
<1>0. PICK call \in Call : call = loc[c] BY CallIn
<1>1. /\ Where(call, pc[c]) /\ Read(call.dep) /\ call.n \in Services /\ call.n \in Objects /\ call.dep \in Object
      /\ call.job \in {"capture", "open", "gate", "barrier", "stop", "start"} /\ Deployment \in Objects /\ 1 \in Services
      /\ call.dep.up \in BOOLEAN
  BY <1>0, CallIn, CallFacts, ObjectFacts, Sets DEF Local, Where
<1>2. CASE call.n < NumServices
  <2>1. call.n + 1 \in Services /\ call.n + 1 \in Objects BY <1>1, <1>2, TransitionAssumption DEF Services, Objects
  <2>2. PICK next \in Call : next = [call EXCEPT !.n = @ + 1] BY <2>1 DEF Call
  <2>3. next.n = call.n + 1 /\ next.job = call.job /\ next.dep = call.dep BY <2>2 DEF Call
  <2>4. Local(next, "svc") BY <1>1, <2>1, <2>3 DEF Local, Where, Labels
  <2> QED BY <1>0, <1>2, <2>2, <2>4 DEF NextService, Moves
<1>3. CASE ~(call.n < NumServices)
  <2>0. AfterServices(c) BY <1>0, <1>3 DEF NextService
  <2>1. CASE call.job = "gate"
    <3>1. PICK next \in Call : next = [call EXCEPT !.job = "barrier", !.n = 1]
      BY <1>1, Sets DEF Call, Jobs
    <3>2. next.n = 1 /\ next.job = "barrier" /\ next.dep = call.dep BY <3>1 DEF Call
    <3>3. Local(next, "svc") BY <1>1, <3>2 DEF Local, Where, Labels
    <3>4. Goto(c, "svc", next) BY <1>0, <2>0, <2>1, <3>1 DEF AfterServices
    <3> QED BY <3>3, <3>4 DEF Moves
  <2>2. CASE call.job = "stop" /\ call.dep.up
    <3>1. PICK to \in Object : to = [call.dep EXCEPT !.up = FALSE, !.op = TRUE] BY <1>1 DEF Object
    <3>2. ~to.up BY <1>1, <3>1 DEF Object
    <3>3. Change(c, Deployment, call.dep, to) BY <1>0, <2>0, <2>2, <3>1 DEF AfterServices
    <3> QED BY <1>1, <3>2, <3>3, LocalChange
  <2>3. CASE call.job = "start" /\ call.dep.up
    <3>1. Conflict(c) \/ Finished(c) \/ Again(c) BY <1>0, <2>0, <2>3 DEF AfterServices
    <3> QED BY <3>1, LocalConflict, LocalFinished, LocalAgain
  <2>4. CASE call.job \in {"stop", "start"} /\ ~call.dep.up
    <3>1. Goto(c, "gone", call) BY <1>0, <2>0, <2>4 DEF AfterServices
    <3>2. Local(call, "gone") BY <1>1, <2>4 DEF Local, Where, Labels
    <3> QED BY <3>1, <3>2 DEF Moves
  <2>5. CASE call.job \in {"capture", "open", "barrier"}
    <3>1. Finished(c) BY <1>0, <2>0, <2>5 DEF AfterServices
    <3> QED BY <3>1, LocalFinished
  <2> QED BY <1>1, <2>1, <2>2, <2>3, <2>4, <2>5
<1> QED BY <1>2, <1>3

LEMMA LocalReadService == ASSUME BaseInv, NEW c \in Callers, ReadService(c) PROVE Moves(c)
<1>0. PICK call \in Call : call = loc[c] BY CallIn
<1>1. /\ pc[c] = "svc" /\ call.n \in Services /\ call.n \in Objects /\ call.n # Deployment /\ objs[call.n] \in Object
      /\ call.job \in {"capture", "open", "gate", "barrier", "stop", "start"} /\ call.side \in Versions
      /\ Local(call, "svc")
  BY <1>0, CallIn, CallFacts, TypeParts, Sets DEF BaseInv, Types, ReadService, Where
<1>2. PICK s \in Object : s = objs[call.n] BY <1>1
<1>3. PICK opened \in Object : opened = [s EXCEPT !.gated = FALSE, !.ver = call.side, !.op = (call.side = "target")]
  BY <1>1 DEF Object
<1>4. PICK gated \in Object : gated = [s EXCEPT !.gated = TRUE] BY DEF Object
<1>5. s.gated \in BOOLEAN BY ObjectFacts
<1>6. \/ Conflict(c) \/ NextService(c) \/ Again(c)
      \/ Change(c, call.n, s, opened) \/ Change(c, call.n, s, gated)
      \/ call.job \in {"barrier", "stop", "start"} /\ Goto(c, "slices", call)
  BY <1>0, <1>1, <1>2, <1>3, <1>4, <1>5 DEF ReadService
<1>7. call.job \in {"barrier", "stop", "start"} => Local(call, "slices") BY <1>1 DEF Local, Where, Labels
<1>8. Change(c, call.n, s, opened) \/ Change(c, call.n, s, gated) => Moves(c) BY <1>1, LocalChange
<1> QED BY <1>1, <1>6, <1>7, <1>8, LocalConflict, LocalAgain, LocalNextService DEF Moves

LEMMA LocalReadSlices == ASSUME BaseInv, NEW c \in Callers, ReadSlices(c) PROVE Moves(c)
<1>1. pc[c] = "slices" /\ (NextService(c) \/ Again(c) \/ Conflict(c)) BY DEF ReadSlices
<1> QED BY <1>1, LocalNextService, LocalAgain, LocalConflict

LEMMA LocalReadGone == ASSUME BaseInv, NEW c \in Callers, ReadGone(c) PROVE Moves(c)
<1>0. PICK call \in Call : call = loc[c] BY CallIn
<1>1. /\ pc[c] = "gone" /\ ~call.dep.up /\ Read(call.dep) /\ call.dep \in Object /\ call.side \in Versions
      /\ Deployment \in Objects
  BY <1>0, CallIn, CallFacts, Sets DEF ReadGone, Local, Where
<1>2. PICK to \in Object : to = [call.dep EXCEPT !.ver = call.side, !.op = TRUE, !.up = TRUE] BY <1>1 DEF Object
<1>3. Again(c) \/ Finished(c) \/ (pods = {} /\ Change(c, Deployment, call.dep, to)) BY <1>0, <1>2 DEF ReadGone
<1>4. pods = {} /\ Change(c, Deployment, call.dep, to) => Moves(c) BY <1>1, LocalChange
<1> QED BY <1>3, <1>4, LocalAgain, LocalFinished

LEMMA LocalReadPods == ASSUME BaseInv, NEW c \in Callers, ReadPods(c) PROVE Moves(c)
<1>0. PICK call \in Call : call = loc[c] BY CallIn
<1>1. pc[c] = "pods" /\ call.job \in {"check", "drain"} BY <1>0, CallIn DEF ReadPods, Where
<1>2. ASSUME NEW p \in pods, Goto(c, "ask", [call EXCEPT !.proc = p.uid]) PROVE Moves(c)
  <2>1. p \in Pod BY TypeParts DEF BaseInv, Types
  <2>2. p.uid \in 0..MaxPods BY <2>1, Numbers DEF Pod
  <2>3. PICK next \in Call : next = [call EXCEPT !.proc = p.uid] BY <2>2 DEF Call
  <2>4. next.job = call.job BY <2>3 DEF Call
  <2>5. Local(next, "ask") BY <1>1, <2>4 DEF Local, Where, Labels
  <2> QED BY <1>2, <2>3, <2>5 DEF Moves
<1>3. \/ End(c) \/ Conflict(c) \/ (\E p \in pods : Goto(c, "ask", [call EXCEPT !.proc = p.uid]))
      \/ Busy(c) \/ Finished(c)
  BY <1>0 DEF ReadPods
<1> QED BY <1>2, <1>3, LocalConflict, LocalBusy, LocalFinished DEF Moves

LEMMA LocalAsk == ASSUME BaseInv, NEW c \in Callers, Ask(c) PROVE Moves(c)
<1>0. PICK call \in Call : call = loc[c] BY CallIn
<1>1. pc[c] = "ask" /\ call.job \in {"check", "drain"} BY <1>0, CallIn DEF Ask, Where
<1>2. PICK busy \in BOOLEAN : Goto(c, "dep", [call EXCEPT !.busy = busy]) BY <1>0 DEF Ask
<1>3. PICK next \in Call : next = [call EXCEPT !.busy = busy] BY DEF Call
<1>4. next.job = call.job BY <1>3 DEF Call
<1>5. Local(next, "dep") BY <1>1, <1>4 DEF Local, Where, Labels
<1> QED BY <1>2, <1>3, <1>5 DEF Moves

LEMMA LocalRead ==
    ASSUME BaseInv, NEW c \in Callers,
           \/ ReadDeployment(c) \/ ReadService(c) \/ ReadSlices(c) \/ ReadGone(c)
           \/ ReadPods(c) \/ Ask(c) \/ AskFails(c)
    PROVE  Moves(c) /\ Quiet /\ UNCHANGED routes
<1>1. AskFails(c) => Moves(c) BY LocalConflict DEF AskFails, Moves
<1>2. Moves(c)
  BY <1>1, LocalReadDeployment, LocalReadService, LocalReadSlices, LocalReadGone, LocalReadPods, LocalAsk
<1>3. Quiet /\ UNCHANGED routes BY DEF ReadDeployment, ReadService, ReadSlices, ReadGone, ReadPods, Ask, AskFails
<1> QED BY <1>2, <1>3


LEMMA BaseFault == ASSUME BaseInv, NEW kind, Fault(kind) PROVE faults' \in 0..MaxFaults
<1>1. faults \in 0..MaxFaults BY TypeParts DEF BaseInv, Types
<1> QED BY <1>1, Numbers DEF Fault

\* The workload after a step.
BaseWorkload ==
    /\ objs' \in [Objects -> Object] /\ observed' \in BOOLEAN /\ pods' \subseteq Pod /\ born' \in 1..MaxPods
    /\ broken' \in BOOLEAN /\ faults' \in 0..MaxFaults /\ Evolves /\ VersionInv'

LEMMA BaseStore ==
    ASSUME BaseInv, NEW n \in Objects, NEW to \in Object, Fenced(n, to), Current(n, to), Store(n, to),
           UNCHANGED <<pods, born, broken, faults>>
    PROVE  BaseWorkload
<1>0. /\ objs \in [Objects -> Object] /\ observed \in BOOLEAN /\ pods \subseteq Pod /\ born \in 1..MaxPods
      /\ broken \in BOOLEAN /\ faults \in 0..MaxFaults /\ VersionInv /\ Deployment \in Objects
  BY TypeParts, Sets DEF BaseInv, Types
<1>1. objs' = [objs EXCEPT ![n] = to] /\ observed' \in BOOLEAN BY <1>0 DEF Store
<1>2. objs' \in [Objects -> Object] BY <1>0, <1>1
<1>3. CASE n = Deployment
  <2>1. objs'[Deployment] = to /\ to.rv = objs[Deployment].rv + 1 BY <1>0, <1>1, <1>3 DEF Current
  <2>2. objs[Deployment].rv \in Nat BY <1>0, ObjectFacts
  <2>3. objs'[Deployment] # objs[Deployment] BY <2>1, <2>2
  <2>4. to.up => pods = {} BY <1>3 DEF Fenced
  <2>5. VersionInv' BY <1>0, <2>1, <2>4 DEF VersionInv, OneVersionRuns
  <2> QED BY <1>0, <1>1, <1>2, <2>1, <2>3, <2>5 DEF BaseWorkload, Evolves
<1>4. CASE n # Deployment
  <2>1. objs'[Deployment] = objs[Deployment] BY <1>0, <1>1, <1>4
  <2>2. VersionInv' BY <1>0, <2>1 DEF VersionInv, OneVersionRuns
  <2> QED BY <1>0, <1>1, <1>2, <2>1, <2>2 DEF BaseWorkload, Evolves
<1> QED BY <1>3, <1>4

LEMMA BaseSame ==
    ASSUME BaseInv, UNCHANGED workload, faults' \in 0..MaxFaults
    PROVE  BaseWorkload
<1>0. /\ objs \in [Objects -> Object] /\ observed \in BOOLEAN /\ pods \subseteq Pod /\ born \in 1..MaxPods
      /\ broken \in BOOLEAN /\ VersionInv
  BY TypeParts DEF BaseInv, Types
<1>1. UNCHANGED <<objs, observed, pods, born, broken>> BY DEF workload
<1> QED BY <1>0, <1>1 DEF BaseWorkload, Evolves, VersionInv, OneVersionRuns

LEMMA BaseCluster == ASSUME BaseInv, Cluster PROVE BaseWorkload
<1>0. /\ objs \in [Objects -> Object] /\ observed \in BOOLEAN /\ pods \subseteq Pod /\ born \in 1..MaxPods
      /\ broken \in BOOLEAN /\ faults \in 0..MaxFaults /\ VersionInv /\ Deployment \in Objects
  BY TypeParts, Sets DEF BaseInv, Types
<1>1. ASSUME NEW p \in pods, NEW state \in {"starting", "ready", "terminating"}, SetPod(p, state), faults' \in 0..MaxFaults
      PROVE  BaseWorkload
  <2>1. PICK q : q = [p EXCEPT !.state = state] OBVIOUS
  <2>2. p \in Pod BY <1>0
  <2>3. q \in Pod /\ q.ver = p.ver BY <2>1, <2>2 DEF Pod
  <2>4. pods' = (pods \ {p}) \cup {q} /\ UNCHANGED <<objs, observed, born, broken>> BY <1>1, <2>1 DEF SetPod
  <2>5. \A r \in pods' : \E s \in pods : r.ver = s.ver BY <2>3, <2>4
  <2>6. VersionInv' BY <1>0, <2>4, <2>5 DEF VersionInv, OneVersionRuns
  <2>7. pods # {} BY <1>1
  <2>8. Evolves BY <1>0, <2>4, <2>7 DEF Evolves
  <2> QED BY <1>0, <1>1, <2>3, <2>4, <2>6, <2>8 DEF BaseWorkload
<1>2. CASE Drift
  <2>1. PICK n \in Objects : Store(n, [objs[n] EXCEPT !.ver = "other", !.rv = @ + 1]) BY <1>2 DEF Drift
  <2>2. objs[n] \in Object /\ objs[n].rv + 1 \in Nat BY <1>0, ObjectFacts
  <2>3. PICK to \in Object : to = [objs[n] EXCEPT !.ver = "other", !.rv = @ + 1] BY <2>2 DEF Object
  <2>4. to.ver = "other" /\ to.rv = objs[n].rv + 1 BY <2>2, <2>3 DEF Object
  <2>5. UNCHANGED <<pods, born, broken>> /\ faults' \in 0..MaxFaults BY <1>2, BaseFault DEF Drift
  <2>6. objs' = [objs EXCEPT ![n] = to] /\ observed' \in BOOLEAN BY <1>0, <2>1, <2>3 DEF Store
  <2>7. objs'[Deployment] = objs[Deployment] \/ (objs'[Deployment] = to /\ n = Deployment) BY <1>0, <2>6
  <2>8. VersionInv' BY <1>0, <2>4, <2>5, <2>7 DEF VersionInv, OneVersionRuns
  <2>9. objs' \in [Objects -> Object] BY <1>0, <2>6
  <2>10. Evolves BY <1>0, <2>4, <2>5, <2>7, <2>9 DEF Evolves
  <2> QED BY <1>0, <2>5, <2>6, <2>8, <2>9, <2>10 DEF BaseWorkload
<1>3. CASE Evict
  <2>1. PICK p \in LivePods : SetPod(p, "terminating") BY <1>3 DEF Evict
  <2>2. p \in pods /\ faults' \in 0..MaxFaults BY <1>3, BaseFault DEF Evict, LivePods
  <2> QED BY <1>1, <2>1, <2>2
<1>4. CASE Controller /\ UNCHANGED faults
  <2>1. CASE ObserveGeneration
    BY <1>0, <1>4, <2>1 DEF ObserveGeneration, BaseWorkload, Evolves, VersionInv, OneVersionRuns
  <2>2. CASE StartPod
    <3>0. PICK p : p = [uid |-> born + 1, ver |-> objs[Deployment].ver, state |-> "starting"] OBVIOUS
    <3>1. /\ objs[Deployment].ver \in Versions /\ objs[Deployment].up /\ born < MaxPods /\ born' = born + 1
          /\ pods' = pods \cup {p} /\ UNCHANGED <<objs, observed, broken>>
      BY <2>2, <3>0 DEF StartPod
    <3>2. born + 1 \in 1..MaxPods BY <1>0, <3>1, Numbers
    <3>3. p \in Pod /\ p.ver = objs[Deployment].ver BY <3>0, <3>1, <3>2 DEF Pod
    <3>4. \A q \in pods' : q.ver = objs[Deployment].ver BY <1>0, <3>1, <3>3 DEF VersionInv, Versions
    <3>5. VersionInv' BY <3>1, <3>4 DEF VersionInv, OneVersionRuns
    <3>6. Evolves BY <1>0, <3>1 DEF Evolves
    <3> QED BY <1>0, <1>4, <3>1, <3>2, <3>3, <3>5, <3>6 DEF BaseWorkload
  <2>3. ASSUME NEW p \in pods, PodReady(p) \/ StopPod(p) PROVE BaseWorkload
    BY <1>0, <1>1, <1>4, <2>3 DEF PodReady, StopPod
  <2>4. ASSUME NEW p \in pods, PodGone(p) PROVE BaseWorkload
    <3>1. pods' \subseteq pods /\ UNCHANGED <<objs, observed, born, broken>> BY <2>4 DEF PodGone
    <3> QED BY <1>0, <1>4, <3>1 DEF BaseWorkload, Evolves, VersionInv, OneVersionRuns
  <2> QED BY <1>4, <2>1, <2>2, <2>3, <2>4 DEF Controller
<1> QED BY <1>2, <1>3, <1>4 DEF Cluster

LEMMA WorkloadNext == ASSUME BaseInv, [Next]_vars PROVE BaseWorkload
<1>0. faults \in 0..MaxFaults BY TypeParts DEF BaseInv, Types
<1>1. ASSUME UNCHANGED workload, faults' \in 0..MaxFaults PROVE BaseWorkload BY <1>1, BaseSame
<1>2. ASSUME NEW c \in Callers, Update(c) PROVE BaseWorkload
  <2>1. PICK n \in Objects, to \in Object : n = loc[c].n /\ to = loc[c].to BY CallIn, CallFacts
  <2>2. Fenced(n, to) BY <1>2, <2>1, CallIn DEF Local, Update
  <2>3. CASE Current(n, to) /\ Store(n, to) BY <1>2, <2>2, <2>3, BaseStore DEF Update
  <2>4. CASE UNCHANGED <<objs, observed>> BY <1>0, <1>1, <1>2, <2>4 DEF Update, workload
  <2> QED BY <1>2, <2>1, <2>3, <2>4 DEF Update
<1>3. ASSUME NEW r \in late, Land(r) PROVE BaseWorkload
  <2>1. PICK n \in Objects, to \in Object : n = r.n /\ to = r.to BY DEF BaseInv, CallTypes, LateRequest
  <2>2. Fenced(n, to) BY <1>3, <2>1 DEF BaseInv, Land
  <2> QED BY <1>3, <2>1, <2>2, BaseStore DEF Land
<1>4. CASE Core
  <2>1. UNCHANGED workload BY <1>4 DEF Core, Advance, Publish, Recover, Compensate, Rollback, Finish, CoreStep
  <2>2. faults' \in 0..MaxFaults
    BY <1>0, <1>4, BaseFault DEF Core, Advance, Publish, Recover, Compensate, Rollback, Finish
  <2> QED BY <1>1, <2>1, <2>2
<1>5. ASSUME NEW c \in Callers, CreateRow(c) \/ rejectManagementTemplate(c) \/ Commit(c) PROVE BaseWorkload
  BY <1>0, <1>1, <1>5 DEF CreateRow, rejectManagementTemplate, Commit
<1>6. ASSUME NEW c \in Callers, Interrupt(c) \/ SessionLoss(c) PROVE BaseWorkload
  BY <1>1, <1>6, BaseFault DEF Interrupt, SessionLoss
<1>7. CASE Crash \/ Redeploy BY <1>1, <1>7, BaseFault DEF Crash, Redeploy
<1>8. ASSUME NEW r \in late, Lose(r) PROVE BaseWorkload BY <1>0, <1>1, <1>8 DEF Lose
<1>9. CASE Shared BY <1>2, <1>3, <1>4, <1>5, <1>6, <1>7, <1>8, <1>9, BaseCluster DEF Shared, Failures
<1>10. ASSUME NEW c \in Callers, NEW mode \in Modes, Begin(c, mode) \/ Turn(c, mode) PROVE BaseWorkload
  BY <1>0, <1>1, <1>10 DEF Begin, Turn, Enter, Refused
<1>11. ASSUME NEW c \in Callers, Proceed(c) PROVE BaseWorkload
  <2>1. CASE Quiet BY <1>0, <1>1, <2>1 DEF Quiet
  <2> QED BY <1>2, <1>5, <1>11, <2>1, LocalRead DEF Proceed
<1>12. ASSUME NEW s \in Services, SyncSlices(s) PROVE BaseWorkload
  BY <1>0, <1>1, <1>12 DEF SyncSlices, journalVars, workload
<1>13. CASE UNCHANGED vars BY <1>0, <1>1, <1>13 DEF vars, journalVars
<1> QED BY <1>9, <1>10, <1>11, <1>12, <1>13 DEF Next

\* The rows, the routes and the history variable, whoever writes them.
LEMMA RowsNext ==
    ASSUME BaseInv, [Next]_vars
    PROVE  /\ core' \in {"checking", "preparing", "restoring", "releasing", "done"}
           /\ installed' \in 0..2 /\ known' \subseteq Replies /\ registered' \in BOOLEAN /\ row' \in Row
           /\ timely' \in BOOLEAN /\ eps' \subseteq Services /\ media' \in Media
<1> DEFINE Goal == /\ core' \in {"checking", "preparing", "restoring", "releasing", "done"}
                   /\ installed' \in 0..2 /\ known' \subseteq Replies /\ registered' \in BOOLEAN /\ row' \in Row
                   /\ timely' \in BOOLEAN
<1>0. /\ core \in {"checking", "preparing", "restoring", "releasing", "done"} /\ installed \in 0..2
      /\ known \subseteq Replies /\ registered \in BOOLEAN /\ row \in Row /\ timely \in BOOLEAN
      /\ eps \subseteq Services /\ media \in Media
  BY TypeParts DEF BaseInv, Types
<1>1. ASSUME UNCHANGED <<authority, row>> PROVE Goal BY <1>0, <1>1 DEF authority
<1>2. ASSUME NEW phase \in {"preparing", "restoring", "releasing", "done"}, NEW revision \in 0..2, CoreStep(phase, revision)
      PROVE  Goal
  BY <1>0, <1>2 DEF CoreStep
<1>3. ASSUME Core PROVE Goal
  <2>1. 1 \in 0..2 /\ (IF installed = 1 THEN 2 ELSE installed) \in 0..2 BY <1>0
  <2> QED BY <1>0, <1>2, <1>3, <2>1 DEF Core, Advance, Publish, Recover, Compensate, Rollback, Finish
<1>4. ASSUME NEW c \in Callers, CreateRow(c) \/ rejectManagementTemplate(c) PROVE Goal
  <2>1. Reply("prepare", "rejected_preflight") \in Replies BY DEF Reply, Replies
  <2>2. row' \in Row BY <1>0, <1>4 DEF CreateRow, rejectManagementTemplate, Row, Phases
  <2>3. CASE CreateRow(c) BY <1>0, <2>2, <2>3 DEF CreateRow, authority
  <2>4. CASE rejectManagementTemplate(c) BY <1>0, <2>1, <2>2, <2>4 DEF rejectManagementTemplate, Tell
  <2> QED BY <1>4, <2>3, <2>4
<1>5. ASSUME NEW c \in Callers, Commit(c) PROVE Goal
  <2>1. Reply(loc[c].mode, loc[c].next) \in Replies BY DEF Reply, Replies
  <2>2. [phase |-> loc[c].next, cp |-> loc[c].cp] \in Row BY CallIn, CallFacts DEF Row
  <2> QED BY <1>0, <1>5, <2>1, <2>2 DEF Commit, Tell
<1>6. ASSUME NEW c \in Callers, NEW mode \in Modes, Turn(c, mode) PROVE Goal
  BY <1>0, <1>6 DEF Turn, Refused, Replies
<1>7. ASSUME Redeploy PROVE Goal BY <1>0, <1>7 DEF Redeploy
<1>8. ASSUME Shared PROVE Goal
  BY <1>1, <1>3, <1>4, <1>5, <1>7, <1>8
     DEF Shared, Update, Cluster, Failures, Interrupt, SessionLoss, Crash, Land, Lose
<1>9. ASSUME NEW c \in Callers, NEW mode \in Modes, Begin(c, mode) PROVE Goal BY <1>1, <1>9 DEF Begin, Enter
<1>10. ASSUME NEW c \in Callers, Proceed(c) PROVE Goal
  <2>1. CASE Quiet BY <1>1, <2>1 DEF Quiet
  <2>2. CASE Update(c) BY <1>1, <2>2 DEF Update
  <2> QED BY <1>5, <1>10, <2>1, <2>2, LocalRead DEF Proceed
<1>11. ASSUME NEW s \in Services, SyncSlices(s) PROVE Goal /\ eps' \subseteq Services /\ UNCHANGED media
  BY <1>0, <1>1, <1>11 DEF SyncSlices, journalVars
<1>12. ASSUME UNCHANGED vars PROVE Goal BY <1>1, <1>12 DEF vars, journalVars
<1>13. UNCHANGED routes \/ \E s \in Services : SyncSlices(s)
  BY LocalRead DEF Next, Begin, Turn, Proceed, vars
<1>14. eps' \subseteq Services /\ media' \in Media BY <1>0, <1>11, <1>13 DEF routes
<1> QED BY <1>6, <1>8, <1>9, <1>10, <1>11, <1>12, <1>14 DEF Next

LEMMA BaseRequest ==
    ASSUME BaseInv, NEW c \in Callers, NEW r \in Request(c)
    PROVE  r \in LateRequest /\ (r.kind = "update" => Fenced(r.n, r.to))
<1>0. loc[c].n \in Objects /\ loc[c].to \in Object /\ loc[c].ask \in Asks BY CallIn, CallFacts
<1>1. CASE pc[c] = "update"
  <2>1. r = [kind |-> "update", n |-> loc[c].n, to |-> loc[c].to] BY <1>1 DEF Request
  <2> QED BY <1>0, <1>1, <2>1, CallIn DEF LateRequest, Local
<1>2. CASE pc[c] # "update"
  <2>1. r = [kind |-> loc[c].ask, n |-> 0, to |-> Original] BY <1>2 DEF Request
  <2> QED BY <1>0, <2>1, NoCallType, Sets DEF LateRequest, Deployment, Asks
<1> QED BY <1>1, <1>2

\* The calls and what they have sent.
LEMMA CallsNext ==
    ASSUME BaseInv, [Next]_vars
    PROVE  /\ tx' \in [Callers -> BOOLEAN] /\ CallTypes' /\ \A d \in Callers : Local(loc[d], pc[d])'
           /\ \A r \in late' : r.kind = "update" => Fenced(r.n, r.to)'
<1> DEFINE Goal == /\ tx' \in [Callers -> BOOLEAN] /\ CallTypes' /\ \A d \in Callers : Local(loc[d], pc[d])'
           Typed == late' \subseteq LateRequest
           Aimed == \A r \in late' : r.kind = "update" => Fenced(r.n, r.to)
<1>0. /\ tx \in [Callers -> BOOLEAN] /\ pc \in [Callers -> Labels] /\ loc \in [Callers -> Call]
      /\ late \subseteq LateRequest /\ \A d \in Callers : Local(loc[d], pc[d])
      /\ \A r \in late : r.kind = "update" => Fenced(r.n, r.to)
  BY TypeParts DEF BaseInv, Types, CallTypes
<1>1. Evolves BY WorkloadNext DEF BaseWorkload
<1>2. ASSUME NEW c \in Callers, Moves(c), Typed PROVE Goal BY <1>1, <1>2, MovesLocal DEF CallTypes
<1>3. ASSUME UNCHANGED <<pc, loc>>, tx' \in [Callers -> BOOLEAN], Typed PROVE Goal
  <2>1. ASSUME NEW d \in Callers PROVE Local(loc[d], pc[d])'
    <3>1. PICK x, y : x = loc[d] /\ y = pc[d] OBVIOUS
    <3>2. Local(x, y)' BY <1>0, <1>1, <3>1, LocalKept
    <3> QED BY <1>3, <3>1, <3>2
  <2> QED BY <1>0, <1>3, <2>1 DEF CallTypes
<1>4. ASSUME late' \subseteq late PROVE Typed /\ Aimed BY <1>0, <1>4
<1>5. ASSUME NEW c \in Callers, Commit(c) \/ Update(c) PROVE Goal /\ Aimed
  <2>1. Moves(c) BY <1>5, LocalAgain DEF Commit, Update, Moves
  <2>2. late' = late BY <1>5 DEF Commit, Update
  <2> QED BY <1>2, <1>4, <2>1, <2>2
<1>6. ASSUME NEW c \in Callers, Interrupt(c) PROVE Goal /\ Aimed
  <2>1. PICK sent \in SUBSET Request(c) : late' = late \cup sent BY <1>6 DEF Interrupt
  <2>2. Typed /\ Aimed BY <1>0, <2>1, BaseRequest
  <2> QED BY <1>2, <1>6, <2>2 DEF Interrupt, Moves
<1>7. ASSUME NEW c \in Callers, SessionLoss(c) PROVE Goal /\ Aimed
  BY <1>0, <1>3, <1>4, <1>7 DEF SessionLoss
<1>8. ASSUME Crash PROVE Goal /\ Aimed
  <2>1. PICK sent \in SUBSET UNION {Request(c) : c \in Callers} : late' = late \cup sent BY <1>8 DEF Crash
  <2>2. \A r \in sent : \E c \in Callers : r \in Request(c) BY <2>1
  <2>3. Typed /\ Aimed BY <1>0, <2>1, <2>2, BaseRequest
  <2>4. /\ pc' = [c \in Callers |-> "idle"] /\ tx' = [c \in Callers |-> FALSE] /\ loc' = [c \in Callers |-> NoCall]
    BY <1>8 DEF Crash
  <2>5. \A d \in Callers : loc'[d] = NoCall /\ pc'[d] = "idle" BY <2>4
  <2>6. Local(NoCall, "idle")' BY <1>1, Idle, LocalKept
  <2>7. \A d \in Callers : Local(loc[d], pc[d])' BY <2>5, <2>6
  <2>8. CallTypes' BY <2>3, <2>4, NoCallType DEF CallTypes, Labels
  <2> QED BY <2>3, <2>4, <2>7, <2>8
<1>9. ASSUME UNCHANGED calls, late' \subseteq late PROVE Goal /\ Aimed BY <1>0, <1>3, <1>4, <1>9 DEF calls
<1>10. ASSUME NEW r \in late, Land(r) \/ Lose(r) PROVE Goal /\ Aimed BY <1>9, <1>10 DEF Land, Lose
<1>11. ASSUME Core \/ Redeploy \/ Cluster PROVE Goal /\ Aimed
  BY <1>9, <1>11 DEF Core, Advance, Publish, Recover, Compensate, Rollback, Finish, CoreStep, Redeploy, Cluster
<1>12. ASSUME NEW c \in Callers, CreateRow(c) \/ rejectManagementTemplate(c) PROVE Goal /\ Aimed
  BY <1>9, <1>12 DEF CreateRow, rejectManagementTemplate
<1>13. ASSUME Shared PROVE Goal /\ Aimed BY <1>5, <1>6, <1>7, <1>8, <1>10, <1>11, <1>12, <1>13 DEF Shared, Failures
<1>14. ASSUME NEW c \in Callers, NEW mode \in Modes, Turn(c, mode) PROVE Goal /\ Aimed BY <1>9, <1>14 DEF Turn, Refused
<1>15. ASSUME NEW c \in Callers, NEW mode \in Modes, Begin(c, mode) PROVE Goal /\ Aimed
  <2>0. row \in Row /\ row.phase \in Phases /\ row.cp \in BOOLEAN BY TypeParts DEF BaseInv, Types, Row
  <2>1. PICK plan : plan = Plan(mode, row.phase, row.cp) OBVIOUS
  <2>2. /\ plan.at \in {"commit", "dep"} /\ plan.job \in Jobs /\ plan.ask \in Asks /\ plan.side \in Versions
        /\ plan.next \in Phases /\ (plan.at = "dep" => plan.job \notin {"none", "barrier"})
    BY <1>15, <2>0, <2>1, PlanTypes DEF Begin, Enter
  <2>3. PICK call \in Call :
          call = [NoCall EXCEPT !.mode = mode, !.phase = row.phase, !.cp = row.cp, !.job = plan.job,
                                !.ask = plan.ask, !.side = plan.side, !.next = plan.next]
    BY <2>0, <2>2, NoCallType DEF Call
  <2>4. call.job = plan.job BY <2>3 DEF NoCall
  <2>5. /\ pc' = [pc EXCEPT ![c] = plan.at] /\ tx' = [tx EXCEPT ![c] = TRUE] /\ loc' = [loc EXCEPT ![c] = call]
        /\ UNCHANGED late
    BY <1>15, <2>1, <2>3 DEF Begin, Enter
  <2>6. Local(call, plan.at) BY <2>2, <2>4 DEF Local, Where, Labels
  <2>7. /\ pc' \in [Callers -> Labels] /\ loc' \in [Callers -> Call] /\ tx' \in [Callers -> BOOLEAN]
    BY <1>0, <2>2, <2>5 DEF Labels
  <2>8. ASSUME NEW d \in Callers PROVE Local(loc[d], pc[d])'
    <3>1. PICK x, y : x = loc'[d] /\ y = pc'[d] OBVIOUS
    <3>2. (x = call /\ y = plan.at) \/ (x = loc[d] /\ y = pc[d]) BY <1>0, <2>5, <3>1
    <3>3. Local(x, y)' BY <1>0, <1>1, <2>6, <3>2, LocalKept
    <3> QED BY <3>1, <3>3
  <2> QED BY <1>0, <1>4, <2>5, <2>7, <2>8 DEF CallTypes
<1>16. ASSUME NEW c \in Callers, ReadDeployment(c) \/ ReadService(c) \/ ReadSlices(c) \/ ReadGone(c)
                                 \/ ReadPods(c) \/ Ask(c) \/ AskFails(c)
       PROVE  Goal /\ Aimed
  <2>1. Moves(c) /\ late' = late BY <1>16, LocalRead DEF Quiet
  <2> QED BY <1>2, <1>4, <2>1
<1>17. ASSUME NEW s \in Services, SyncSlices(s) PROVE Goal /\ Aimed BY <1>9, <1>17 DEF SyncSlices, journalVars
<1>18. ASSUME UNCHANGED vars PROVE Goal /\ Aimed BY <1>9, <1>18 DEF vars, journalVars
<1>19. Goal /\ Aimed BY <1>5, <1>13, <1>14, <1>15, <1>16, <1>17, <1>18 DEF Next, Proceed
<1>20. ASSUME NEW r \in late', r.kind = "update" PROVE Fenced(r.n, r.to)'
  <2>1. Fenced(r.n, r.to) /\ r \in LateRequest BY <1>19, <1>20 DEF CallTypes
  <2>2. PICK n \in Objects, to \in Object : n = r.n /\ to = r.to BY <2>1 DEF LateRequest
  <2>3. Fenced(n, to)' BY <1>1, <2>1, <2>2, FencedKept
  <2> QED BY <2>2, <2>3
<1> QED BY <1>19, <1>20

LEMMA BaseInvariant == Spec => []BaseInv
<1>1. Init => BaseInv
  <2> SUFFICES ASSUME Init PROVE BaseInv OBVIOUS
  <2>1. Types /\ CallTypes /\ VersionInv BY StoppedInit DEF StoppedInv, WorkloadInv, VersionInv
  <2>2. timely \in BOOLEAN /\ late = {} /\ \A c \in Callers : pc[c] = "idle" /\ loc[c] = NoCall BY DEF Init, JournalInit
  <2> QED BY <2>1, <2>2, TypeParts, Idle DEF BaseInv
<1>2. BaseInv /\ [Next]_vars => BaseInv'
  <2> SUFFICES ASSUME BaseInv, [Next]_vars PROVE BaseInv' OBVIOUS
  <2>1. Types' /\ timely' \in BOOLEAN BY RowsNext, WorkloadNext, CallsNext DEF Types, BaseWorkload
  <2>2. TypeOK' BY <2>1 DEF TypeOK, Types
  <2>3. VersionInv' BY WorkloadNext DEF BaseWorkload
  <2> QED BY <2>2, <2>3, CallsNext DEF BaseInv
<1> QED BY <1>1, <1>2, PTL DEF Spec

\* The rows, the workload and the fault count keep their types, whether or not Core waits for
\* what was abandoned (StoppedTransition!TypeOK).
THEOREM StoppedTypes == Spec => []TypeOK
<1>1. BaseInv => TypeOK BY DEF BaseInv
<1> QED BY <1>1, BaseInvariant, PTL

\* A process is started only after every process of the other version, terminating ones
\* included, is gone, whatever calls are interrupted, retried or executed late, and whether
\* or not Core waits for them (Stop, Start and gone; StoppedTransition!OneVersionRuns).
THEOREM OneVersion == Spec => []OneVersionRuns
<1>1. BaseInv => OneVersionRuns BY DEF BaseInv, VersionInv
<1> QED BY <1>1, BaseInvariant, PTL

--------------------------------------------------------------------------------
(* What a step may do to the routes and to the process                      *)

Cut ==
    \/ \E s \in Services : ~objs[s].gated /\ objs'[s].gated
    \/ objs[Deployment].up /\ ~objs'[Deployment].up
Reopened == \E s \in Services : objs[s].gated /\ ~objs'[s].gated

\* An update that is executed opens a Service in a release and cuts off only outside one.
LEMMA StoreFollows ==
    ASSUME StoppedInv, NEW n \in Objects, NEW to \in Object, UpdateInv(n, to), Store(n, to), row.cp
    PROVE  (Cut => row.cp /\ row.phase \notin ReleasePhases) /\ (Reopened => row.phase \in ReleasePhases)
<1>1. objs \in [Objects -> Object] /\ objs' = [objs EXCEPT ![n] = to] BY DEF StoppedInv, Types, Store
<1>2. objs'[n] = to /\ \A m \in Objects : m # n => objs'[m] = objs[m] BY <1>1
<1>3. Cut => ~Opens(n, to) BY <1>2, Sets DEF Cut, Opens
<1>4. Reopened => Opens(n, to) BY <1>2, Sets DEF Reopened, Opens
<1> QED BY <1>3, <1>4 DEF UpdateInv

\* Only updates and others' edits change the objects.
LEMMA OnlyStores ==
    ASSUME [Next]_vars
    PROVE  \/ UNCHANGED objs
           \/ \E c \in Callers : pc[c] = "update" /\ Store(loc[c].n, loc[c].to)
           \/ \E r \in late : r.kind = "update" /\ Store(r.n, r.to)
           \/ \E n \in Objects : Store(n, [objs[n] EXCEPT !.ver = "other", !.rv = @ + 1])
<1>1. CASE UNCHANGED vars BY <1>1 DEF vars, journalVars, workload
<1>2. CASE Shared /\ UNCHANGED routes
  <2>1. ASSUME NEW c \in Callers, CreateRow(c) \/ rejectManagementTemplate(c) \/ Commit(c) PROVE UNCHANGED objs
    BY <2>1 DEF CreateRow, rejectManagementTemplate, Commit, workload
  <2>2. ASSUME NEW c \in Callers, Update(c)
        PROVE  UNCHANGED objs \/ (pc[c] = "update" /\ Store(loc[c].n, loc[c].to))
    BY <2>2 DEF Update
  <2>3. CASE Core
    BY <2>3 DEF Core, Advance, Publish, Recover, Compensate, Rollback, Finish, CoreStep, workload
  <2>4. CASE Cluster
    <3>1. CASE Controller
      BY <3>1 DEF Controller, ObserveGeneration, StartPod, PodReady, StopPod, PodGone, SetPod
    <3>2. CASE Evict BY <3>2 DEF Evict, SetPod
    <3>3. CASE Drift BY <3>3 DEF Drift
    <3> QED BY <2>4, <3>1, <3>2, <3>3 DEF Cluster
  <2>5. ASSUME NEW c \in Callers, Interrupt(c) \/ SessionLoss(c) PROVE UNCHANGED objs
    BY <2>5 DEF Interrupt, SessionLoss, workload
  <2>6. CASE Crash \/ Redeploy BY <2>6 DEF Crash, Redeploy, workload
  <2>7. ASSUME NEW r \in late, Land(r) \/ Lose(r)
        PROVE  UNCHANGED objs \/ (r.kind = "update" /\ Store(r.n, r.to))
    BY <2>7 DEF Land, Lose, workload
  <2> QED BY <1>2, <2>1, <2>2, <2>3, <2>4, <2>5, <2>6, <2>7 DEF Shared, Failures
<1>3. ASSUME NEW c \in Callers, NEW mode \in Modes, Begin(c, mode) \/ Turn(c, mode) PROVE UNCHANGED objs
  BY <1>3 DEF Begin, Turn, Enter, Refused, workload
<1>4. ASSUME NEW c \in Callers, Proceed(c)
      PROVE  UNCHANGED objs \/ (pc[c] = "update" /\ Store(loc[c].n, loc[c].to))
  <2>1. CASE Commit(c) BY <2>1 DEF Commit, workload
  <2>2. CASE Update(c) BY <2>2 DEF Update
  <2>3. CASE Quiet BY <2>3 DEF Quiet, workload
  <2> QED BY <1>4, <2>1, <2>2, <2>3
        DEF Proceed, ReadDeployment, ReadService, ReadSlices, ReadGone, ReadPods, Ask, AskFails
<1>5. ASSUME NEW s \in Services, SyncSlices(s) PROVE UNCHANGED objs BY <1>5 DEF SyncSlices, journalVars, workload
<1> QED BY <1>1, <1>2, <1>3, <1>4, <1>5 DEF Next

\* In a release no Service is gated and the process is not stopped; a Service is opened in a
\* release and nowhere else; nothing is cut off before the checkpoint is saved; all of it as
\* long as Core has begun no release before what was abandoned had settled, since a gate that
\* is executed after that is not fenced (Gate, Stop, Open; StoppedTransition!RoutesFollowPhase).
THEOREM RoutesFollow == Spec => RoutesFollowPhase
<1>1. ASSUME StoppedInv, [Next]_vars
      PROVE  (Cut => row.cp /\ row.phase \notin ReleasePhases) /\ (Reopened => row.phase \in ReleasePhases)
  <2>0. EarlyInv /\ row.cp \in BOOLEAN /\ objs \in [Objects -> Object] BY <1>1 DEF StoppedInv, Types, Row
  <2>1. CASE UNCHANGED objs BY <2>1 DEF Cut, Reopened
  <2>2. ASSUME NEW c \in Callers, pc[c] = "update", Store(loc[c].n, loc[c].to)
        PROVE  (Cut => row.cp /\ row.phase \notin ReleasePhases) /\ (Reopened => row.phase \in ReleasePhases)
    <3>1. PICK n \in Objects, to \in Object : n = loc[c].n /\ to = loc[c].to BY <1>1, CallOf, CallFacts
    <3>2. UpdateInv(n, to) BY <1>1, <2>2, <3>1, CallOf DEF CallInv, JobInv
    <3>3. row.cp BY <2>0, <2>2 DEF EarlyInv
    <3> QED BY <1>1, <2>2, <3>1, <3>2, <3>3, StoreFollows
  <2>3. ASSUME NEW r \in late, r.kind = "update", Store(r.n, r.to)
        PROVE  (Cut => row.cp /\ row.phase \notin ReleasePhases) /\ (Reopened => row.phase \in ReleasePhases)
    <3>1. PICK n \in Objects, to \in Object : n = r.n /\ to = r.to BY <1>1 DEF StoppedInv, CallTypes, LateRequest
    <3>2. UpdateInv(n, to) BY <1>1, <2>3, <3>1 DEF StoppedInv
    <3>3. row.cp BY <2>0, <2>3 DEF EarlyInv
    <3> QED BY <1>1, <2>3, <3>1, <3>2, <3>3, StoreFollows
  <2>4. ASSUME NEW n \in Objects, Store(n, [objs[n] EXCEPT !.ver = "other", !.rv = @ + 1])
        PROVE  ~Cut /\ ~Reopened
    <3>1. objs[n] \in Object BY <2>0
    <3>2. \A m \in Objects : objs'[m].gated = objs[m].gated /\ objs'[m].up = objs[m].up
      BY <2>0, <2>4, <3>1 DEF Store, Object
    <3> QED BY <3>2, Sets DEF Cut, Reopened
  <2> QED BY <1>1, <2>1, <2>2, <2>3, <2>4, OnlyStores
<1>2. (timely => StoppedInv) /\ [Next]_vars =>
        [timely =>
         LET cut == \/ \E s \in Services : ~objs[s].gated /\ objs'[s].gated
                    \/ objs[Deployment].up /\ ~objs'[Deployment].up
             opened == \E s \in Services : objs[s].gated /\ ~objs'[s].gated
         IN /\ cut => row.cp /\ row.phase \notin ReleasePhases
            /\ opened => row.phase \in ReleasePhases]_vars
  BY <1>1 DEF Cut, Reopened
<1> QED BY <1>2, StoppedInvariant, PTL DEF Spec, RoutesFollowPhase

--------------------------------------------------------------------------------
(* The promise of SafeUpgrade                                               *)

\* While a Service leads to a Pod, every process is the published version's.
LEMMA Serving ==
    ASSUME StoppedInv
    PROVE  /\ eps # {} => \A p \in pods : p.ver = Published
           /\ \A p \in pods : p.ver \in Versions
           /\ Published \in Versions
<1>1. Types /\ ServeInv BY DEF StoppedInv
<1>2. Closed => eps = {} BY <1>1 DEF Types, Closed
<1> QED BY <1>1, <1>2 DEF ServeInv, Types, Pod, Published, Versions

LEMMA ServingNext ==
    ASSUME StoppedInv'
    PROVE  /\ eps' # {} => {p.ver : p \in pods'} \subseteq {Published'}
           /\ {p.ver : p \in pods'} \subseteq Versions /\ Published' \in Versions
<1>1. Types' /\ ServeInv' BY DEF StoppedInv
<1>2. Closed' => eps' = {} BY <1>1 DEF Types, Closed
<1> QED BY <1>1, <1>2 DEF ServeInv, Types, Pod, Published, Versions

\* Pods, routes and what is published never change in the same step.
LEMMA OneAtATime ==
    ASSUME StoppedInv, [Next]_vars
    PROVE  \/ UNCHANGED <<eps, installed>>
           \/ UNCHANGED <<pods, installed>>
           \/ UNCHANGED <<pods, eps>> /\ (Published' = Published \/ Closed)
<1>1. CASE UNCHANGED vars BY <1>1 DEF vars, journalVars, authority, workload, routes
<1>2. CASE Shared /\ UNCHANGED routes
  <2>0. UNCHANGED eps BY <1>2 DEF routes
  <2>1. ASSUME NEW c \in Callers, CreateRow(c) \/ rejectManagementTemplate(c) \/ Commit(c) \/ Update(c)
        PROVE  UNCHANGED installed
    BY <2>1 DEF CreateRow, rejectManagementTemplate, Commit, Update, authority
  <2>2. CASE Cluster BY <2>0, <2>2 DEF Cluster, authority
  <2>3. ASSUME NEW c \in Callers, Interrupt(c) \/ SessionLoss(c) PROVE UNCHANGED installed
    BY <2>3 DEF Interrupt, SessionLoss, authority
  <2>4. CASE Crash \/ Redeploy BY <2>0, <2>4 DEF Crash, Redeploy, authority
  <2>5. ASSUME NEW r \in late, Land(r) \/ Lose(r) PROVE UNCHANGED installed BY <2>5 DEF Land, Lose, authority
  <2>6. CASE Core
    <3>0. CoreInv BY DEF StoppedInv
    <3>1. UNCHANGED pods
      BY <2>6 DEF Core, Advance, Publish, Recover, Compensate, Rollback, Finish, CoreStep, workload
    <3>2. CASE Publish BY <2>0, <3>0, <3>1, <3>2 DEF Publish, CoreInv
    <3>3. CASE Compensate
      <4>1. CASE installed = 1 BY <2>0, <3>0, <3>1, <3>3, <4>1 DEF Compensate, CoreInv
      <4>2. CASE installed # 1 BY <2>0, <3>3, <4>2 DEF Compensate, CoreStep
      <4> QED BY <4>1, <4>2
    <3>4. CASE Advance \/ Recover \/ Rollback \/ Finish
      BY <2>0, <3>4 DEF Advance, Recover, Rollback, Finish, CoreStep
    <3> QED BY <2>6, <3>2, <3>3, <3>4 DEF Core
  <2> QED BY <1>2, <2>0, <2>1, <2>2, <2>3, <2>4, <2>5, <2>6 DEF Shared, Failures
<1>3. ASSUME NEW c \in Callers, NEW mode \in Modes, Begin(c, mode) \/ Turn(c, mode) PROVE UNCHANGED <<eps, installed>>
  BY <1>3 DEF Begin, Turn, Enter, Refused, authority, routes
<1>4. ASSUME NEW c \in Callers, Proceed(c) PROVE UNCHANGED <<eps, installed>>
  <2>1. CASE Commit(c) /\ UNCHANGED routes BY <2>1 DEF Commit, routes
  <2>2. CASE Update(c) /\ UNCHANGED routes BY <2>2 DEF Update, authority, routes
  <2>3. CASE Quiet /\ UNCHANGED routes BY <2>3 DEF Quiet, authority, routes
  <2> QED BY <1>4, <2>1, <2>2, <2>3
        DEF Proceed, ReadDeployment, ReadService, ReadSlices, ReadGone, ReadPods, Ask, AskFails
<1>5. ASSUME NEW s \in Services, SyncSlices(s) PROVE UNCHANGED <<pods, installed>>
  BY <1>5 DEF SyncSlices, journalVars, workload, authority
<1> QED BY <1>1, <1>2, <1>3, <1>4, <1>5 DEF Next

\* A downtime transition keeps the promise to the App's users: new work is admitted only by
\* the version Core has published, through crashes, lost answers, late requests, others'
\* edits and rollbacks, up to the step in which Core begins a release without waiting for
\* what was abandoned (StoppedTransition!ImplementsSafeUpgrade).
THEOREM RefinesSafeUpgrade == Spec => ImplementsSafeUpgrade
<1>1. Init => Upgrade!Init
  <2> SUFFICES ASSUME Init PROVE Upgrade!Init OBVIOUS
  <2>1. /\ pods = {[uid |-> 1, ver |-> "source", state |-> "ready"]} /\ installed = 0 /\ eps = Services
    BY DEF Init, JournalInit
  <2>2. Published = "source" /\ {p.ver : p \in pods} = {"source"} BY <2>1 DEF Published
  <2>3. (eps # {}) = TRUE BY <2>1, Sets
  <2> QED BY <2>2, <2>3 DEF Upgrade!Init, Versions
<1>2. ASSUME StoppedInv, StoppedInv', [Next]_vars
      PROVE  \/ Upgrade!Next
             \/ UNCHANGED <<Published, {p.ver : p \in pods}, eps # {}>>
  <2>0. /\ eps # {} => {p.ver : p \in pods} \subseteq {Published}
        /\ Published \in Versions
    BY <1>2, Serving
  <2>1. /\ eps' # {} => {p.ver : p \in pods'} \subseteq {Published'}
        /\ {p.ver : p \in pods'} \subseteq Versions /\ Published' \in Versions
    BY <1>2, ServingNext
  <2>2. CASE UNCHANGED <<eps, installed>>
    <3>1. Published' = Published /\ (eps' # {}) = (eps # {}) BY <2>2 DEF Published
    <3>2. eps # {} => {p.ver : p \in pods'} \subseteq {Published} BY <2>1, <3>1
    <3>3. Upgrade!Processes BY <2>1, <3>1, <3>2 DEF Upgrade!Processes
    <3> QED BY <3>3 DEF Upgrade!Next
  <2>3. CASE UNCHANGED <<pods, installed>>
    <3>1. Published' = Published /\ {p.ver : p \in pods'} = {p.ver : p \in pods} BY <2>3 DEF Published
    <3>2. CASE eps # {} /\ eps' = {}
      <4>1. (eps' # {}) = FALSE BY <3>2
      <4>2. Upgrade!Close BY <3>1, <3>2, <4>1 DEF Upgrade!Close
      <4> QED BY <4>2 DEF Upgrade!Next
    <3>3. CASE eps = {} /\ eps' # {}
      <4>1. (eps' # {}) = TRUE BY <3>3
      <4>2. {p.ver : p \in pods} \subseteq {Published} BY <2>1, <3>1, <3>3
      <4>3. Upgrade!Open BY <3>1, <3>3, <4>1, <4>2 DEF Upgrade!Open
      <4> QED BY <4>3 DEF Upgrade!Next
    <3>4. CASE (eps = {}) <=> (eps' = {})
      <4>1. (eps' # {}) = (eps # {}) BY <3>4
      <4> QED BY <3>1, <4>1
    <3> QED BY <3>2, <3>3, <3>4
  <2>4. CASE UNCHANGED <<pods, eps>> /\ (Published' = Published \/ Closed)
    <3>1. (eps' # {}) = (eps # {}) /\ {p.ver : p \in pods'} = {p.ver : p \in pods} BY <2>4
    <3>2. CASE Published' = Published BY <3>1, <3>2
    <3>3. CASE Closed
      <4>1. eps = {} BY <1>2, <3>3 DEF StoppedInv, Types, Closed
      <4>2. Upgrade!Publish BY <2>1, <3>1, <4>1 DEF Upgrade!Publish
      <4> QED BY <4>2 DEF Upgrade!Next
    <3> QED BY <2>4, <3>2, <3>3
  <2> QED BY <1>2, <2>2, <2>3, <2>4, OneAtATime
<1>3. (timely => StoppedInv) /\ (timely => StoppedInv)' /\ [Next]_vars =>
        [timely' => Upgrade!Next \/ UNCHANGED Upgrade!upgradeVars]_vars
  BY <1>2, OnceLate DEF Upgrade!upgradeVars
<1> QED BY <1>1, <1>3, StoppedInvariant, PTL DEF Spec, ImplementsSafeUpgrade

================================================================================
