------------------------ MODULE ManagementTransitionProofs ------------------------
(***************************************************************************)
(* Why a transition of a running App changes objects only while the App is *)
(* sealed, ends with the App admitting work for the published version, and *)
(* keeps the promise of SafeUpgrade, for any number of callers, Services,  *)
(* Pods and faults.                                                        *)
(*                                                                         *)
(* The argument: an update is executed only if its object is still the one *)
(* that was read, and only in a phase in which the App is sealed; a        *)
(* request that unseals the App is sent only in a phase in which nothing   *)
(* is updated any more, so that what its call has found of the objects and *)
(* the Pods is still true when the request is executed, however late.      *)
(* Core may begin a release over updates that are still under way; what    *)
(* the argument shows is said of the states before that (timely).          *)
(***************************************************************************)
EXTENDS ManagementTransition, TLAPS

--------------------------------------------------------------------------------
(* The inductive invariant                                                  *)

Early == {"none", "checking", "rejected_preflight"}
Rejections == {"rejected_preflight", "canceled_source"}
Released == {"released_source", "released_target"}
Canceling == {"canceling_source", "canceled_source"}
Applying == {"applying", "verifying", "prepared"}
Restoring == {"restoring", "restored", "recovery_required"}
Unsealing == Canceling \cup ReleasePhases
SideOf(phase) == IF phase \in {"releasing_target", "released_target"} THEN "target" ELSE "source"

Tame == {"none", "capture", "before", "after"}
Jobs == Tame \cup {"apply", "restore"}
Labels == {"idle", "dep", "svc", "pods", "ask", "update", "commit"}
Asks == {"none", "seal", "cancel", "release", "status"}
Call == [mode : Modes \cup {"none"}, phase : Phases, cp : BOOLEAN, job : Jobs, ask : Asks,
         side : Versions, next : Phases, n : Objects, dep : Object, to : Object,
         ready : BOOLEAN, proc : 0..MaxPods, busy : BOOLEAN]
LateRequest == [kind : Asks \cup {"update"}, n : Objects, to : Object]

\* TypeOK without the history variable.
Types ==
    /\ core \in {"checking", "preparing", "restoring", "releasing", "done"}
    /\ installed \in 0..2 /\ known \subseteq Replies /\ registered \in BOOLEAN
    /\ row \in Row
    /\ objs \in [Objects -> Object] /\ observed \in BOOLEAN
    /\ pods \subseteq Pod /\ born \in 1..MaxPods /\ broken \in BOOLEAN
    /\ app \in {"open", "sealed", "released"}
    /\ tx \in [Callers -> BOOLEAN] /\ faults \in 0..MaxFaults
CallTypes == pc \in [Callers -> Labels] /\ loc \in [Callers -> Call] /\ late \subseteq LateRequest

\* Nothing has been replaced yet, and nothing is about to be.
Fresh == ~row.cp \/ row.phase \in Early \cup Canceling \cup {"sealing"}
\* The phases in which objects are replaced.
Exposed == row.cp /\ row.phase \in Applying \cup Restoring

Of(o, side) == o.ver \in {side, "other"}
\* Every object is this side's, or an edit of others.
AllOf(side) == \A n \in Objects : Of(objs[n], side)
\* The Deployment wants this version, and only this version runs.
Steady(side) == Of(objs[Deployment], side) /\ \A p \in pods : p.ver = side

\* While the App admits work, only what is published is there.
ServeInv ==
    /\ app # "sealed" => Steady(Published)
    /\ objs[Deployment].rv = 0 => objs[Deployment] = Original

RowInv ==
    /\ row.phase \in Early => ~row.cp
    /\ ~row.cp => app = "open" /\ row.phase \in Early \cup {"restored", "releasing_source", "released_source"}
    /\ row.phase = "sealing" => app # "released"
    /\ row.phase = "canceled_source" => app = "released"
    /\ Exposed => app = "sealed"
    /\ row.phase \in {"verifying", "prepared"} => AllOf("target")
    /\ row.phase \in Released => AllOf(SideOf(row.phase)) /\ (row.cp => app = "released")

\* Core's phase, what it has been told and the row.
CoreInv ==
    /\ core \in {"checking", "preparing"} => installed = 0 /\ row.phase \notin ReleasePhases
    /\ core \in {"checking", "preparing"} /\ "rejected" \in known => row.phase \in Rejections
    /\ core \in {"checking", "preparing"} /\ "prepared" \in known => Exposed
    /\ core = "restoring" /\ "restored" \in known => row.phase \notin ReleasePhases
    /\ core = "releasing" /\ "released" \in known => row.phase \in Released
    /\ core = "done" => row.phase \in Released \/ (row.phase \in Rejections /\ installed = 0)
    /\ row.phase \in ReleasePhases => SideOf(row.phase) = Published
    /\ installed = 1 /\ row.phase \notin ReleasePhases => Exposed

\* Until the phase is committed in which objects are replaced, none is.
FreshInv ==
    Fresh => /\ AllOf("source")
             /\ \A c \in Callers : loc[c].job \in Tame /\ pc[c] # "update"
             /\ \A r \in late : r.kind # "update"

\* The App lock: one call at a time has its transaction.
LockInv == \A c, d \in Callers : tx[c] /\ tx[d] => c = d

Other(side) == IF side = "target" THEN "source" ELSE "target"
\* An update under way, seen from the object it is about.
UpdateInv(n, to) ==
    /\ to.ver \in Versions /\ to.rv <= objs[n].rv + 1
    /\ Exposed /\ core # "releasing"
    /\ to.ver = "source" => row.phase \in Restoring
    /\ Current(n, to) => objs[n].ver = Other(to.ver)

\* A request to the App under way.
AskInv(ask) ==
    /\ ask = "seal" => row.cp
    /\ ask \in {"cancel", "release"} => row.cp /\ row.phase \in Unsealing /\ Steady(SideOf(row.phase))

\* How far a call is with its job.
Seen(call, at) ==
    at = "svc" => /\ call.dep.ver = call.side => Of(objs[Deployment], call.side)
                  /\ \A m \in 1..(call.n - 1) : Of(objs[m], call.side)
JobInv(call, at) ==
    /\ call.dep.rv <= objs[Deployment].rv
    /\ call.dep.rv = objs[Deployment].rv => call.dep = objs[Deployment]
    /\ at = "update" => UpdateInv(call.n, call.to)
    /\ at = "ask" => AskInv(call.ask)
    /\ call.ask = "seal" => row.cp
    /\ call.ask \in {"cancel", "release"} =>
         /\ row.cp /\ row.phase \in Unsealing /\ call.side = SideOf(row.phase)
         /\ Seen(call, at) /\ (at = "pods" => AllOf(call.side))
    /\ call.job = "after" =>
         /\ call.ask \in {"cancel", "release"} => app = "released"
         /\ call.ask = "seal" /\ ~call.busy => app # "open"
    /\ call.job \in {"apply", "restore"} => Exposed /\ ~Releasing(call.mode)
    /\ call.job = "restore" => row.phase \in Restoring
    /\ call.job = "apply" /\ row.phase \in Applying => Seen(call, at)
    /\ at # "idle" /\ ~Releasing(call.mode) => row.phase \notin ReleasePhases /\ core # "releasing"

\* Which phase a job is for, and what it leads to.
Course(call) ==
    \/ /\ call.mode = "prepare" /\ call.phase = "checking" /\ call.next = "sealing"
       /\ call.job = "capture" /\ call.ask = "none"
    \/ /\ call.mode = "prepare" /\ call.phase = "sealing" /\ call.next = "applying"
       /\ call.job \in {"before", "after"} /\ call.ask = "seal"
    \/ /\ call.mode = "prepare" /\ call.phase = "applying" /\ call.next = "verifying"
       /\ call.job = "apply" /\ call.ask = "none" /\ call.side = "target"
    \/ /\ call.mode = "prepare" /\ call.phase \in {"verifying", "prepared"} /\ call.next = "prepared"
       /\ call.job \in {"before", "after"} /\ call.ask = "status"
    \/ /\ call.mode \in {"prepare", "restore"} /\ call.phase \in Canceling /\ call.next = "canceled_source"
       /\ call.job \in {"before", "after"} /\ call.ask = "cancel"
    \/ /\ call.mode = "restore" /\ call.phase = "restoring" /\ call.next = "restored"
       /\ call.job \in {"restore", "before", "after"} /\ call.ask = "status" /\ call.side = "source"
    \/ /\ call.mode = "restore" /\ call.phase = "restored" /\ call.next = "restored" /\ call.cp
       /\ call.job \in {"before", "after"} /\ call.ask = "status"
    \/ /\ Releasing(call.mode) /\ call.job \in {"before", "after"} /\ call.ask = "release"
       /\ call.phase \in ReleasePhases /\ call.next \in Released /\ SideOf(call.next) = SideOf(call.phase)

\* Where a job can be.
Place(call, at) ==
    /\ at = "svc" => call.n \in Services /\ (call.job \in {"before", "after"} => call.dep.ver = call.side)
    /\ at = "svc" /\ call.job = "apply" => call.dep.ver \in Versions
    /\ at = "svc" /\ call.job = "restore" => call.dep.ver = "source"
    /\ at \in {"pods", "ask"} => call.job \in {"before", "after"} /\ call.dep.ver = call.side
    /\ at = "ask" => call.job = "before"
    /\ at = "update" => call.job \in {"apply", "restore"}
    /\ call.busy => call.ask = "seal" /\ call.job = "after"

\* What a call that commits writes.
Outcome(call) ==
    /\ call.next \notin {"none", "checking", "rejected_preflight"}
    /\ call.next = "sealing" => row.phase \in {"checking", "sealing"}
    /\ call.next \in Canceling => row.phase \in Canceling \cup {"sealing"}
    /\ call.next = "canceled_source" => app = "released"
    /\ ~call.cp => call.next \in {"restored", "releasing_source", "released_source"}
    /\ call.cp /\ call.next \in Applying \cup Restoring => app = "sealed"
    /\ call.next \in {"verifying", "prepared"} => AllOf("target") /\ row.phase \in Applying
    /\ call.next \in Released =>
         AllOf(SideOf(call.next)) /\ (call.cp => app = "released") /\ row.phase \in ReleasePhases
    /\ call.next \in ReleasePhases <=> Releasing(call.mode)
    /\ call.next \in ReleasePhases => SideOf(call.next) = Published
    /\ row.phase \in Released => call.next \in Released
    /\ row.phase \in Canceling => call.next \in Unsealing
    /\ Exposed => call.next \in Applying \cup Restoring \cup ReleasePhases
    /\ Exposed /\ row.phase \in Restoring => call.next \in Restoring \cup ReleasePhases
    /\ call.mode = "prepare" /\ row.phase = "canceled_source" => call.next = "canceled_source"
    /\ call.mode = "prepare" => row.phase # "rejected_preflight"

CallInv(call, at, locked) ==
    /\ at = "idle" => call.job = "none" /\ call.ask = "none" /\ ~locked
    /\ at # "idle" => call.mode \in Modes
    /\ at \notin {"idle", "commit"} => Course(call)
    /\ Place(call, at) /\ JobInv(call, at)
    /\ locked =>
         /\ Bound(call.mode) /\ call.phase = row.phase /\ row.phase # "none"
         /\ row.cp => call.cp
         /\ at # "commit" => call.cp = row.cp
         /\ at = "commit" => Outcome(call)

TransitionInv ==
    /\ Types /\ CallTypes
    /\ ServeInv /\ RowInv /\ CoreInv /\ FreshInv /\ LockInv
    /\ \A c \in Callers : CallInv(loc[c], pc[c], tx[c])
    /\ \A r \in late : IF r.kind = "update" THEN UpdateInv(r.n, r.to) ELSE AskInv(r.kind)

--------------------------------------------------------------------------------
(* Facts used throughout                                                    *)

LEMMA Sets ==
    /\ Deployment \in Objects /\ Deployment \notin Services
    /\ \A n : n \in Objects <=> n = Deployment \/ n \in Services
    /\ 1 \in Services /\ NumServices \in Services
  BY TransitionAssumption DEF Deployment, Objects, Services

\* The Services before one that is visited.
LEMMA Before == \A n \in Objects : \A m \in 1..(n - 1) : m \in Services /\ m \in Objects
  BY TransitionAssumption DEF Objects, Services

LEMMA Numbers == MaxPods \in Nat /\ MaxPods >= 1 /\ MaxFaults \in Nat
  BY TransitionAssumption

LEMMA Sides == \A phase : SideOf(phase) \in Versions
  BY DEF SideOf, Versions

\* The kinds of phase do not overlap.
LEMMA PhaseKinds ==
    /\ Unsealing \cap (Applying \cup Restoring) = {}
    /\ Early \cap (Unsealing \cup Applying \cup Restoring) = {}
    /\ "sealing" \notin Unsealing \cup Applying \cup Restoring \cup Early
    /\ Canceling \subseteq Unsealing /\ ReleasePhases \subseteq Unsealing /\ Canceling \cap ReleasePhases = {}
    /\ Released \subseteq ReleasePhases /\ Applying \cap Restoring = {}
    /\ \A phase \in Canceling : SideOf(phase) = "source"
  BY DEF Unsealing, Canceling, ReleasePhases, Applying, Restoring, Early, Released, SideOf

LEMMA ObjectFacts ==
    ASSUME NEW o \in Object
    PROVE  /\ o.rv \in Nat /\ o.up \in BOOLEAN /\ o.gated \in BOOLEAN /\ o.op \in BOOLEAN
           /\ o.ver \in Versions \cup {"other"}
  BY DEF Object

LEMMA CallFacts ==
    ASSUME NEW call \in Call
    PROVE  /\ call.n \in Objects /\ call.dep \in Object /\ call.to \in Object /\ call.cp \in BOOLEAN
           /\ call.side \in Versions /\ call.phase \in Phases /\ call.next \in Phases /\ call.job \in Jobs
           /\ call.mode \in Modes \cup {"none"} /\ call.ready \in BOOLEAN /\ call.busy \in BOOLEAN
           /\ call.ask \in Asks /\ call.proc \in 0..MaxPods
  BY DEF Call

LEMMA NoCallType == NoCall \in Call /\ Original \in Object
<1>1. Original \in Object BY DEF Original, Object, Versions
<1>2. 0 \in Objects /\ 0 \in 0..MaxPods BY Sets, Numbers DEF Deployment
<1> QED BY <1>1, <1>2 DEF NoCall, Call, Phases, Jobs, Tame, Asks, Versions, Modes

\* What a call says, once it is known which record it is.
LEMMA CallOf ==
    ASSUME TransitionInv, NEW c \in Callers
    PROVE  /\ loc[c] \in Call /\ pc[c] \in Labels /\ tx[c] \in BOOLEAN /\ CallInv(loc[c], pc[c], tx[c])
  BY DEF TransitionInv, Types, CallTypes

\* An object whose resourceVersion was read before is the one that was read, or a later one.
LEMMA Numbered ==
    ASSUME NEW o \in Object, NEW new \in Object, new = o \/ new.rv = o.rv + 1
    PROVE  /\ \A rv \in Nat : rv <= o.rv => rv <= new.rv
           /\ \A rv \in Nat : rv <= o.rv /\ rv = new.rv => new = o
           /\ \A rv \in Nat : rv <= o.rv + 1 => rv <= new.rv + 1
           /\ \A rv \in Nat : rv <= o.rv + 1 /\ new.rv + 1 = rv => new = o
<1>1. o.rv \in Nat /\ new.rv \in Nat BY ObjectFacts
<1> QED BY <1>1

--------------------------------------------------------------------------------
(* What a step of the workload or of the App keeps                          *)

\* Objects are replaced one update at a time; while they are being replaced by the target's
\* none is taken back, and where the App can be unsealed others may edit them but nothing is
\* replaced.  The App's state only moves on, and is unsealed only in the phases for that.
Keeps ==
    /\ row' = row
    /\ \A n \in Objects : objs'[n] = objs[n] \/ objs'[n].rv = objs[n].rv + 1
    /\ row.phase \in Unsealing =>
         \A side \in Versions, n \in Objects : Of(objs[n], side) => Of(objs'[n], side)
    /\ row.phase \in Applying => \A n \in Objects : Of(objs[n], "target") => Of(objs'[n], "target")
    /\ row.phase \in Unsealing => (Steady(SideOf(row.phase)) => Steady(SideOf(row.phase))')
    /\ app' # app => row.cp
    /\ (app = "released" => app' = "released") /\ (app # "open" => app' # "open")
    /\ row.phase \notin Unsealing => (app' = "released" => app = "released")

LEMMA UpdateKept ==
    ASSUME NEW n \in Objects, NEW to \in Object, objs \in [Objects -> Object], objs' \in [Objects -> Object],
           UpdateInv(n, to), Keeps, core' = "releasing" => core = "releasing"
    PROVE  UpdateInv(n, to)'
<1>1. objs[n] \in Object /\ objs'[n] \in Object /\ to.rv \in Nat BY ObjectFacts
<1>2. to.rv <= objs[n].rv + 1 /\ (objs'[n] = objs[n] \/ objs'[n].rv = objs[n].rv + 1) BY DEF UpdateInv, Keeps
<1>3. to.rv <= objs'[n].rv + 1 /\ (objs'[n].rv + 1 = to.rv => objs'[n] = objs[n]) BY <1>1, <1>2, Numbered
<1>4. row' = row BY DEF Keeps
<1>5. Exposed' <=> Exposed BY <1>4 DEF Exposed
<1> QED BY <1>3, <1>4, <1>5 DEF UpdateInv, Current

LEMMA AskKept == ASSUME NEW ask, AskInv(ask), Keeps PROVE AskInv(ask)'
  BY DEF AskInv, Keeps

LEMMA SeenKept ==
    ASSUME NEW call \in Call, NEW at, Seen(call, at), Keeps,
           row.phase \in Unsealing \/ (row.phase \in Applying /\ (at = "svc" => call.side = "target"))
    PROVE  Seen(call, at)'
<1> SUFFICES ASSUME at = "svc" PROVE Seen(call, at)' BY DEF Seen
<1>0. call.n \in Objects /\ call.side \in Versions BY CallFacts
<1>1. \A n \in Objects : Of(objs[n], call.side) => Of(objs'[n], call.side) BY <1>0 DEF Keeps
<1> QED BY <1>0, <1>1, Before, Sets DEF Seen

LEMMA JobKept ==
    ASSUME NEW call \in Call, NEW at, objs \in [Objects -> Object], objs' \in [Objects -> Object],
           JobInv(call, at), Keeps, core' = "releasing" => core = "releasing",
           call.job = "apply" /\ at = "svc" => call.side = "target"
    PROVE  JobInv(call, at)'
<1>0. call.n \in Objects /\ call.to \in Object /\ call.dep \in Object /\ call.side \in Versions /\ call.dep.rv \in Nat
  BY CallFacts, ObjectFacts
<1>1. /\ objs[Deployment] \in Object /\ objs'[Deployment] \in Object
      /\ objs'[Deployment] = objs[Deployment] \/ objs'[Deployment].rv = objs[Deployment].rv + 1
  BY Sets DEF Keeps
<1>2. /\ call.dep.rv <= objs'[Deployment].rv
      /\ call.dep.rv = objs'[Deployment].rv => call.dep = objs'[Deployment]
  BY <1>0, <1>1, Numbered DEF JobInv
<1>3. at = "update" => UpdateInv(call.n, call.to)' BY <1>0, UpdateKept DEF JobInv
<1>4. at = "ask" => AskInv(call.ask)' BY AskKept DEF JobInv
<1>5. row' = row /\ (Exposed' <=> Exposed) BY DEF Keeps, Exposed
<1>6. ASSUME call.ask \in {"cancel", "release"}
      PROVE  Seen(call, at)' /\ (at = "pods" => AllOf(call.side)')
  <2>1. row.phase \in Unsealing /\ Seen(call, at) /\ (at = "pods" => AllOf(call.side)) BY <1>6 DEF JobInv
  <2> QED BY <1>0, <2>1, SeenKept DEF Keeps, AllOf
<1>7. call.job = "apply" /\ row.phase \in Applying => Seen(call, at)' BY SeenKept DEF JobInv
<1>8. call.job = "after" =>
        /\ call.ask \in {"cancel", "release"} => app' = "released"
        /\ call.ask = "seal" /\ ~call.busy => app' # "open"
  BY DEF JobInv, Keeps
<1> QED BY <1>2, <1>3, <1>4, <1>5, <1>6, <1>7, <1>8 DEF JobInv

LEMMA OutcomeKept ==
    ASSUME NEW call \in Call, Outcome(call), Keeps, UNCHANGED installed, app' \in {"open", "sealed", "released"},
           row.phase \in ReleasePhases => call.next \in ReleasePhases
    PROVE  Outcome(call)'
<1>1. row' = row /\ Published' = Published /\ (Exposed' <=> Exposed) BY DEF Keeps, Published, Exposed
<1>2. call.next = "canceled_source" => app' = "released" BY DEF Outcome, Keeps
<1>3. ASSUME call.cp, call.next \in Applying \cup Restoring PROVE app' = "sealed"
  <2>1. app = "sealed" /\ row.phase \notin Unsealing BY <1>3, PhaseKinds DEF Outcome, Unsealing
  <2> QED BY <2>1 DEF Keeps
<1>4. call.next \in {"verifying", "prepared"} => AllOf("target")' BY DEF Outcome, Keeps, AllOf
<1>5. call.next \in Released => AllOf(SideOf(call.next))' /\ (call.cp => app' = "released")
  BY PhaseKinds, Sides DEF Outcome, Keeps, AllOf
<1> QED BY <1>1, <1>2, <1>3, <1>4, <1>5 DEF Outcome

LEMMA CallKept ==
    ASSUME NEW call \in Call, NEW at, NEW locked, CallInv(call, at, locked), app' \in {"open", "sealed", "released"},
           objs \in [Objects -> Object], objs' \in [Objects -> Object], Keeps, UNCHANGED <<core, installed>>
    PROVE  CallInv(call, at, locked)'
<1>1. call.job = "apply" /\ at = "svc" => call.side = "target" BY DEF CallInv, Course
<1>2. JobInv(call, at)' BY <1>1, JobKept DEF CallInv
<1>3. locked /\ at = "commit" => Outcome(call)'
  <2> SUFFICES ASSUME locked, at = "commit" PROVE Outcome(call)' OBVIOUS
  <2>1. Outcome(call) /\ JobInv(call, at) BY DEF CallInv
  <2>2. row.phase \in ReleasePhases => call.next \in ReleasePhases BY <2>1 DEF JobInv, Outcome
  <2> QED BY <2>1, <2>2, OutcomeKept
<1>4. row' = row /\ (Bound(call.mode) => Bound(call.mode)') BY DEF Keeps, Bound
<1>5. Place(call, at)' BY DEF CallInv, Place
<1> QED BY <1>2, <1>3, <1>4, <1>5 DEF CallInv, Course

LEMMA StateKept ==
    ASSUME TransitionInv, Keeps, UNCHANGED <<core, installed, known>>, app' \in {"open", "sealed", "released"}
    PROVE  RowInv' /\ CoreInv'
<1>0. RowInv /\ CoreInv /\ row' = row /\ Published' = Published /\ (Exposed' <=> Exposed) /\ row.cp \in BOOLEAN
  BY DEF TransitionInv, Keeps, Published, Exposed, Types, Row
<1>1. ~row.cp => app' = "open" BY <1>0 DEF RowInv, Keeps
<1>2. row.phase = "sealing" => app' # "released" BY <1>0, PhaseKinds DEF RowInv, Keeps
<1>3. row.phase = "canceled_source" => app' = "released" BY <1>0 DEF RowInv, Keeps
<1>4. Exposed => app' = "sealed"
  <2>1. Exposed => app = "sealed" /\ row.phase \notin Unsealing BY <1>0, PhaseKinds DEF RowInv, Exposed
  <2> QED BY <2>1 DEF Keeps
<1>5. row.phase \in {"verifying", "prepared"} => AllOf("target")' BY <1>0 DEF RowInv, Keeps, AllOf, Applying
<1>6. row.phase \in Released => AllOf(SideOf(row.phase))' /\ (row.cp => app' = "released")
  BY <1>0, PhaseKinds, Sides DEF RowInv, Keeps, AllOf
<1>7. RowInv' BY <1>0, <1>1, <1>2, <1>3, <1>4, <1>5, <1>6 DEF RowInv
<1>8. CoreInv' BY <1>0 DEF CoreInv
<1> QED BY <1>7, <1>8

\* Everything about the workload and the App that a step has to show.
WorldTypes ==
    /\ objs' \in [Objects -> Object] /\ observed' \in BOOLEAN /\ pods' \subseteq Pod /\ born' \in 1..MaxPods
    /\ app' \in {"open", "sealed", "released"} /\ faults' \in 0..MaxFaults
Pending(r) == IF r.kind = "update" THEN UpdateInv(r.n, r.to) ELSE AskInv(r.kind)
Sent(r) == r \in LateRequest /\ Pending(r)
World ==
    /\ UNCHANGED <<core, installed, known, registered, broken>>
    /\ \A r \in late' : r \in late \/ Sent(r)
    /\ WorldTypes /\ Keeps /\ ServeInv'
    /\ Fresh => AllOf("source")'

\* An update is under way only where objects are replaced.
LEMMA NotFresh == Exposed => ~Fresh
  BY PhaseKinds DEF Exposed, Fresh

LEMMA PendingKept ==
    ASSUME NEW r, Sent(r), Keeps, objs \in [Objects -> Object], objs' \in [Objects -> Object],
           core' = "releasing" => core = "releasing"
    PROVE  Pending(r)'
<1>1. CASE r.kind = "update"
  <2>1. PICK n \in Objects, to \in Object : n = r.n /\ to = r.to BY DEF Sent, LateRequest
  <2>2. UpdateInv(n, to)' BY <1>1, <2>1, UpdateKept DEF Sent, Pending
  <2> QED BY <1>1, <2>1, <2>2 DEF Pending
<1>2. CASE r.kind # "update" BY <1>2, AskKept DEF Sent, Pending
<1> QED BY <1>1, <1>2

LEMMA WorldParts ==
    ASSUME TransitionInv, World, tx' \in [Callers -> BOOLEAN]
    PROVE  /\ Types' /\ RowInv' /\ CoreInv' /\ late' \subseteq LateRequest
           /\ \A r \in late' : Pending(r)'
           /\ Fresh => \A r \in late' : r.kind # "update"
<1>0. /\ Types /\ CallTypes /\ Keeps /\ row' = row
      /\ objs \in [Objects -> Object] /\ objs' \in [Objects -> Object] /\ app' \in {"open", "sealed", "released"}
      /\ UNCHANGED <<core, installed, known, registered, broken>>
  BY DEF TransitionInv, World, WorldTypes, Keeps, Types
<1>1. Types' BY <1>0 DEF Types, World, WorldTypes
<1>2. \A r \in late' : Sent(r)
  <2>1. \A r \in late : Sent(r) BY <1>0 DEF TransitionInv, CallTypes, Sent, Pending
  <2> QED BY <2>1 DEF World
<1>3. \A r \in late' : Pending(r)' BY <1>0, <1>2, PendingKept
<1>4. late' \subseteq LateRequest /\ (Fresh => \A r \in late' : r.kind # "update")
  BY <1>2, NotFresh DEF Sent, Pending, UpdateInv
<1> QED BY <1>0, <1>1, <1>3, <1>4, StateKept

\* A step of the cluster, or a late request.
LEMMA WorldStep ==
    ASSUME TransitionInv, World, UNCHANGED calls
    PROVE  TransitionInv'
<1>0. /\ Types /\ CallTypes /\ FreshInv /\ LockInv /\ Keeps /\ row' = row /\ UNCHANGED <<pc, tx, loc, core, installed>>
      /\ objs \in [Objects -> Object] /\ objs' \in [Objects -> Object] /\ tx' \in [Callers -> BOOLEAN]
      /\ app' \in {"open", "sealed", "released"}
  BY DEF TransitionInv, World, WorldTypes, Keeps, Types, calls
<1>1. /\ Types' /\ RowInv' /\ CoreInv' /\ late' \subseteq LateRequest
      /\ \A r \in late' : Pending(r)'
      /\ Fresh => \A r \in late' : r.kind # "update"
  BY <1>0, WorldParts
<1>2. CallTypes' /\ LockInv' BY <1>0, <1>1 DEF CallTypes, LockInv
<1>3. FreshInv' BY <1>0, <1>1 DEF FreshInv, Fresh, World
<1>4. ASSUME NEW c \in Callers PROVE CallInv(loc[c], pc[c], tx[c])'
  <2>1. PICK call \in Call, at \in Labels, locked \in BOOLEAN : call = loc[c] /\ at = pc[c] /\ locked = tx[c] BY CallOf
  <2>2. CallInv(call, at, locked) BY <2>1, CallOf
  <2>3. CallInv(call, at, locked)' BY <1>0, <2>2, CallKept
  <2> QED BY <1>0, <2>1, <2>3
<1> QED BY <1>1, <1>2, <1>3, <1>4 DEF TransitionInv, World, Pending

--------------------------------------------------------------------------------
(* What a step of a call has to show                                        *)

\* How a call may go on: as a call that can be there, in the phase it was begun for.
Follows(call, at, c) ==
    /\ at \in Labels /\ call \in Call
    /\ loc[c].job \in Tame => call.job \in Tame /\ at # "update"
    /\ CallInv(call, at, tx[c])
Sound(c) == End(c) \/ \E at, call : Goto(c, at, call) /\ Follows(call, at, c)

\* A caller without a call.
LEMMA IdleCall == ASSUME TransitionInv PROVE CallInv(NoCall, "idle", FALSE)
<1>1. /\ NoCall.job = "none" /\ NoCall.ask = "none" /\ NoCall.dep = Original /\ Original.rv = 0 /\ ~NoCall.busy
  BY DEF NoCall, Original
<1>2. NoCall.dep.rv <= objs[Deployment].rv
  BY <1>1, ObjectFacts, Sets DEF TransitionInv, Types
<1>3. NoCall.dep.rv = objs[Deployment].rv => NoCall.dep = objs[Deployment]
  BY <1>1 DEF TransitionInv, ServeInv
<1>4. JobInv(NoCall, "idle") BY <1>1, <1>2, <1>3 DEF JobInv
<1> QED BY <1>1, <1>4 DEF CallInv, Place

\* One caller moves, while the workload and the App do what they may.
LEMMA OneCall ==
    ASSUME TransitionInv, NEW c \in Callers, World, NEW call \in Call, NEW at \in Labels, NEW locked \in BOOLEAN,
           pc' = [pc EXCEPT ![c] = at], loc' = [loc EXCEPT ![c] = call], tx' = [tx EXCEPT ![c] = locked],
           locked => tx[c] \/ Unlocked,
           Fresh => call.job \in Tame /\ at # "update",
           CallInv(call, at, locked)'
    PROVE  TransitionInv'
<1>0. /\ Types /\ CallTypes /\ FreshInv /\ LockInv /\ Keeps /\ row' = row /\ UNCHANGED <<core, installed>>
      /\ objs \in [Objects -> Object] /\ objs' \in [Objects -> Object] /\ app' \in {"open", "sealed", "released"}
  BY DEF TransitionInv, World, WorldTypes, Keeps, Types
<1>2. /\ pc'[c] = at /\ loc'[c] = call /\ tx'[c] = locked
      /\ \A d \in Callers : d # c => pc'[d] = pc[d] /\ loc'[d] = loc[d] /\ tx'[d] = tx[d]
  BY <1>0 DEF CallTypes, Types
<1>3. tx' \in [Callers -> BOOLEAN] /\ pc' \in [Callers -> Labels] /\ loc' \in [Callers -> Call]
  BY <1>0 DEF Types, CallTypes
<1>4. /\ Types' /\ RowInv' /\ CoreInv' /\ late' \subseteq LateRequest
      /\ \A r \in late' : Pending(r)'
      /\ Fresh => \A r \in late' : r.kind # "update"
  BY <1>3, WorldParts
<1>5. CallTypes' BY <1>3, <1>4 DEF CallTypes
<1>6. LockInv' BY <1>0, <1>2 DEF LockInv, Unlocked
<1>7. FreshInv'
  <2>1. Fresh => \A d \in Callers : loc'[d].job \in Tame /\ pc'[d] # "update" BY <1>0, <1>2 DEF FreshInv
  <2>2. Fresh' <=> Fresh BY <1>0 DEF Fresh
  <2> QED BY <1>4, <2>1, <2>2 DEF FreshInv, World
<1>8. ASSUME NEW d \in Callers PROVE CallInv(loc[d], pc[d], tx[d])'
  <2>1. CASE d = c BY <1>2, <2>1
  <2>2. CASE d # c
    <3>1. PICK old \in Call, was \in Labels, held \in BOOLEAN : old = loc[d] /\ was = pc[d] /\ held = tx[d] BY CallOf
    <3>2. CallInv(old, was, held) BY <3>1, CallOf
    <3>3. CallInv(old, was, held)' BY <1>0, <3>2, CallKept
    <3> QED BY <1>2, <2>2, <3>1, <3>3
  <2> QED BY <2>1, <2>2
<1> QED BY <1>4, <1>5, <1>6, <1>7, <1>8 DEF TransitionInv, World, Pending

LEMMA CallerStep ==
    ASSUME TransitionInv, NEW c \in Callers, World, Sound(c)
    PROVE  TransitionInv'
<1>0. /\ Types /\ CallTypes /\ FreshInv /\ Keeps /\ UNCHANGED <<core, installed>>
      /\ objs \in [Objects -> Object] /\ objs' \in [Objects -> Object] /\ app' \in {"open", "sealed", "released"}
  BY DEF TransitionInv, World, WorldTypes, Types
<1>1. CASE End(c)
  <2>1. NoCall.job \in Tame /\ "idle" \in Labels BY DEF NoCall, Tame, Labels
  <2>2. CallInv(NoCall, "idle", FALSE)' BY <1>0, IdleCall, NoCallType, CallKept
  <2> QED BY <1>1, <2>1, <2>2, NoCallType, OneCall DEF End
<1>2. ASSUME NEW at, NEW call, Goto(c, at, call), Follows(call, at, c) PROVE TransitionInv'
  <2>1. PICK locked \in BOOLEAN : locked = tx[c] BY <1>0 DEF Types
  <2>2. tx' = [tx EXCEPT ![c] = locked] BY <1>0, <1>2, <2>1 DEF Goto, Types
  <2>3. Fresh => call.job \in Tame /\ at # "update" BY <1>0, <1>2 DEF Follows, FreshInv
  <2>4. /\ CallInv(call, at, locked) /\ call \in Call /\ at \in Labels
        /\ pc' = [pc EXCEPT ![c] = at] /\ loc' = [loc EXCEPT ![c] = call]
    BY <1>2, <2>1 DEF Goto, Follows
  <2>5. locked => tx[c] \/ Unlocked BY <2>1
  <2>6. CallInv(call, at, locked)' BY <1>0, <2>4, CallKept
  <2> QED BY <2>2, <2>3, <2>4, <2>5, <2>6, OneCall
<1> QED BY <1>1, <1>2 DEF Sound

\* Nothing happens to the workload or to the App.
LEMMA SameWorld ==
    ASSUME TransitionInv, UNCHANGED <<core, installed, known, registered, row, objs, observed, pods, born, broken, app>>,
           \A r \in late' : r \in late \/ Sent(r), faults' \in 0..MaxFaults
    PROVE  World
<1>1. Keeps BY DEF Keeps, Steady
<1>2. WorldTypes BY DEF WorldTypes, TransitionInv, Types
<1>3. ServeInv' BY DEF TransitionInv, ServeInv, Steady, Published
<1>4. Fresh => AllOf("source")' BY DEF TransitionInv, FreshInv, AllOf
<1> QED BY <1>1, <1>2, <1>3, <1>4 DEF World

\* Steps that change nothing but their own call.
LEMMA QuietStep ==
    ASSUME TransitionInv, NEW c \in Callers, Quiet, UNCHANGED app, Sound(c)
    PROVE  TransitionInv'
<1>1. UNCHANGED <<core, installed, known, registered, row, objs, observed, pods, born, broken, late, faults, app>>
  BY DEF Quiet, authority, workload
<1>2. World BY <1>1, SameWorld DEF TransitionInv, Types
<1> QED BY <1>2, CallerStep

\* A call goes on with its job, or with the next one.
LEMMA Move ==
    ASSUME TransitionInv, NEW c \in Callers, NEW at \in Labels \ {"idle", "commit"}, NEW call \in Call,
           pc[c] \notin {"idle", "commit"}, Goto(c, at, call),
           call.mode = loc[c].mode, call.phase = loc[c].phase, call.cp = loc[c].cp,
           loc[c].job \in Tame => call.job \in Tame /\ at # "update",
           Course(call), Place(call, at), JobInv(call, at)
    PROVE  Sound(c)
<1>1. CallInv(call, at, tx[c]) BY CallOf DEF CallInv
<1> QED BY <1>1 DEF Sound, Follows

\* A call goes to its commit.
LEMMA Settles ==
    ASSUME TransitionInv, NEW c \in Callers, pc[c] \notin {"idle", "commit"}, NEW next \in Phases, NEW cp \in BOOLEAN,
           Goto(c, "commit", [loc[c] EXCEPT !.next = next, !.cp = cp]), cp = loc[c].cp \/ cp = TRUE,
           ASSUME tx[c], NEW call \in Call, call.next = next, call.cp = cp, call.mode = loc[c].mode
           PROVE  Outcome(call)
    PROVE  Sound(c)
<1>1. PICK call \in Call : call = [loc[c] EXCEPT !.next = next, !.cp = cp] BY CallOf DEF Call
<1>2. /\ call.next = next /\ call.cp = cp /\ call.mode = loc[c].mode /\ call.phase = loc[c].phase
      /\ call.job = loc[c].job /\ call.dep = loc[c].dep /\ call.side = loc[c].side /\ call.ask = loc[c].ask
      /\ call.busy = loc[c].busy
  BY <1>1, CallOf DEF Call
<1>3. CallInv(loc[c], pc[c], tx[c]) BY CallOf
<1>4. JobInv(call, "commit") BY <1>2, <1>3 DEF CallInv, JobInv, Seen
<1>5. Place(call, "commit") BY <1>2, <1>3 DEF Place, CallInv
<1>6. tx[c] => Outcome(call) BY <1>2
<1>7. CallInv(call, "commit", tx[c])
  <2>1. call.mode \in Modes BY <1>2, <1>3 DEF CallInv
  <2>2. tx[c] => /\ Bound(call.mode) /\ call.phase = row.phase /\ row.phase # "none" /\ (row.cp => call.cp)
    BY <1>2, <1>3 DEF CallInv
  <2> QED BY <1>4, <1>5, <1>6, <2>1, <2>2 DEF CallInv
<1>8. loc[c].job \in Tame => call.job \in Tame BY <1>2
<1>9. Goto(c, "commit", call) BY <1>1
<1> QED BY <1>7, <1>8, <1>9 DEF Sound, Follows, Labels

\* What holds of a call that has its transaction and is not yet at its commit.
LEMMA Holding ==
    ASSUME TransitionInv, NEW c \in Callers, pc[c] \notin {"idle", "commit"}, tx[c]
    PROVE  /\ loc[c].phase = row.phase /\ row.phase # "none" /\ loc[c].cp = row.cp
           /\ RowInv /\ (row.phase \in ReleasePhases => SideOf(row.phase) = Published)
  BY CallOf DEF TransitionInv, CoreInv, CallInv

LEMMA DecideSound ==
    ASSUME TransitionInv, NEW c \in Callers, pc[c] \notin {"idle", "commit"}, NEW next \in Phases, Decide(c, next),
           ASSUME tx[c], NEW call \in Call, call.next = next, call.cp = loc[c].cp, call.mode = loc[c].mode
           PROVE  Outcome(call)
    PROVE  Sound(c)
<1>1. loc[c].cp \in BOOLEAN /\ [loc[c] EXCEPT !.next = next] = [loc[c] EXCEPT !.next = next, !.cp = loc[c].cp]
  BY CallOf DEF Call
<1>2. Goto(c, "commit", [loc[c] EXCEPT !.next = next, !.cp = loc[c].cp]) BY <1>1 DEF Decide
<1> QED BY <1>1, <1>2, Settles

--------------------------------------------------------------------------------
(* What calls decide                                                        *)

\* Where objects are replaced, a call may commit any phase of that kind that keeps the
\* promise the phase makes.
LEMMA ExposedOutcome ==
    ASSUME TransitionInv, Exposed, NEW call \in Call, call.mode \in Modes, ~Releasing(call.mode), call.cp,
           call.next \in Applying \cup Restoring, row.phase \in Restoring => call.next \in Restoring,
           call.next \in {"verifying", "prepared"} => AllOf("target")
    PROVE  Outcome(call)
<1>1. app = "sealed" /\ row.phase \in Applying \cup Restoring BY DEF TransitionInv, RowInv, Exposed
<1>2. /\ call.next \notin Unsealing /\ call.next \notin Early /\ call.next # "sealing"
      /\ call.next \notin Canceling /\ call.next \notin ReleasePhases /\ call.next \notin Released
      /\ call.next # "canceled_source"
  BY PhaseKinds DEF Canceling
<1>3. /\ row.phase \notin Unsealing /\ row.phase \notin Early /\ row.phase # "sealing"
      /\ row.phase \notin Canceling /\ row.phase \notin ReleasePhases /\ row.phase \notin Released
      /\ row.phase # "canceled_source" /\ row.phase # "rejected_preflight"
  BY <1>1, PhaseKinds DEF Canceling, Early
<1>4. call.next \in {"verifying", "prepared"} => row.phase \in Applying
  <2>1. call.next \in {"verifying", "prepared"} => call.next \in Applying BY DEF Applying
  <2> QED BY <1>1, <2>1, PhaseKinds
<1> QED BY <1>1, <1>2, <1>3, <1>4 DEF Outcome, Early

\* A call that has its transaction in a phase of replacement.
LEMMA HoldingExposed ==
    ASSUME TransitionInv, NEW c \in Callers, pc[c] \notin {"idle", "commit"}, tx[c],
           loc[c].phase \in Applying \cup {"restoring", "recovery_required"}
           \/ (loc[c].phase = "restored" /\ loc[c].cp)
    PROVE  Exposed /\ loc[c].cp /\ loc[c].phase = row.phase
<1>1. loc[c].phase = row.phase /\ loc[c].cp = row.cp /\ RowInv BY Holding
<1>2. row.cp \in BOOLEAN BY DEF TransitionInv, Types, Row
<1> QED BY <1>1, <1>2 DEF RowInv, Exposed, Applying, Restoring, Early

LEMMA ConflictSound ==
    ASSUME TransitionInv, NEW c \in Callers, pc[c] \notin {"idle", "commit"}, Conflict(c)
    PROVE  Sound(c)
<1>0. Course(loc[c]) /\ loc[c].mode \in Modes BY CallOf DEF CallInv
<1>1. CASE /\ loc[c].cp /\ ~Releasing(loc[c].mode)
           /\ loc[c].phase \notin {"sealing", "canceling_source", "canceled_source"}
  <2>1. ASSUME tx[c], NEW call \in Call, call.next = "recovery_required", call.cp = loc[c].cp, call.mode = loc[c].mode
        PROVE  Outcome(call)
    <3>1. loc[c].phase # "checking" BY <1>1, <2>1, Holding DEF RowInv, Early
    <3>2. loc[c].phase \in Applying \cup {"restoring", "restored"} BY <1>0, <1>1, <3>1 DEF Course, Applying, Canceling
    <3>3. Exposed BY <1>1, <2>1, <3>2, HoldingExposed
    <3> QED BY <1>0, <1>1, <2>1, <3>3, ExposedOutcome DEF Restoring
  <2>2. "recovery_required" \in Phases BY DEF Phases
  <2> QED BY <1>1, <2>1, <2>2, DecideSound DEF Conflict
<1>2. CASE End(c) BY <1>2 DEF Sound
<1> QED BY <1>1, <1>2 DEF Conflict

LEMMA AgainSound ==
    ASSUME TransitionInv, NEW c \in Callers, pc[c] \notin {"idle", "commit"}, loc[c].job \notin Tame, Again(c)
    PROVE  Sound(c)
<1>0. Course(loc[c]) /\ loc[c].mode \in Modes BY CallOf DEF CallInv
<1>1. PICK phase \in Phases : phase = loc[c].phase BY CallOf, CallFacts
<1>2. phase \in {"applying", "restoring"} /\ ~Releasing(loc[c].mode) BY <1>0, <1>1 DEF Course, Tame, Releasing
<1>3. ASSUME tx[c], NEW call \in Call, call.next = phase, call.cp = loc[c].cp, call.mode = loc[c].mode
      PROVE  Outcome(call)
  <2>1. Exposed /\ loc[c].cp /\ phase = row.phase BY <1>1, <1>2, <1>3, HoldingExposed DEF Applying
  <2> QED BY <1>0, <1>2, <1>3, <2>1, ExposedOutcome DEF Applying, Restoring
<1>4. Decide(c, phase) BY <1>1 DEF Again
<1> QED BY <1>3, <1>4, DecideSound

\* Everything is the target's: the replacement is done.
LEMMA AppliedSound ==
    ASSUME TransitionInv, NEW c \in Callers, pc[c] = "svc", loc[c].job = "apply", Decide(c, loc[c].next),
           row.phase \in Applying => AllOf("target")
    PROVE  Sound(c)
<1>0. Course(loc[c]) /\ loc[c].mode \in Modes BY CallOf DEF CallInv
<1>1. loc[c].phase = "applying" /\ loc[c].next = "verifying" /\ ~Releasing(loc[c].mode) BY <1>0 DEF Course, Releasing
<1>2. ASSUME tx[c], NEW call \in Call, call.next = "verifying", call.cp = loc[c].cp, call.mode = loc[c].mode
      PROVE  Outcome(call)
  <2>1. Exposed /\ loc[c].cp /\ row.phase = "applying" BY <1>1, <1>2, HoldingExposed DEF Applying
  <2> QED BY <1>0, <1>1, <1>2, <2>1, ExposedOutcome DEF Applying, Restoring
<1> QED BY <1>1, <1>2, DecideSound DEF Phases

\* The checkpoint is complete.
LEMMA CapturedSound ==
    ASSUME TransitionInv, NEW c \in Callers, pc[c] = "svc", loc[c].job = "capture",
           Goto(c, "commit", [loc[c] EXCEPT !.cp = TRUE])
    PROVE  Sound(c)
<1>0. Course(loc[c]) /\ loc[c] \in Call BY CallOf DEF CallInv
<1>1. loc[c].phase = "checking" /\ loc[c].next = "sealing" /\ loc[c].mode = "prepare" BY <1>0 DEF Course
<1>2. [loc[c] EXCEPT !.cp = TRUE] = [loc[c] EXCEPT !.next = "sealing", !.cp = TRUE] BY <1>0, <1>1 DEF Call
<1>3. ASSUME tx[c], NEW call \in Call, call.next = "sealing", call.cp = TRUE, call.mode = loc[c].mode
      PROVE  Outcome(call)
  <2>1. row.phase = "checking" BY <1>1, <1>3, Holding
  <2> QED BY <1>1, <1>3, <2>1
        DEF Outcome, Exposed, Applying, Restoring, Canceling, Released, ReleasePhases, Releasing
<1> QED BY <1>2, <1>3, Settles DEF Phases

\* The App has answered, and it is still the process that was asked.
LEMMA AnsweredSound ==
    ASSUME TransitionInv, NEW c \in Callers, pc[c] = "pods", loc[c].job = "after",
           Decide(c, IF loc[c].busy THEN "canceling_source" ELSE loc[c].next)
    PROVE  Sound(c)
<1>0. /\ Course(loc[c]) /\ loc[c].mode \in Modes /\ Place(loc[c], "pods") /\ JobInv(loc[c], "pods")
      /\ loc[c].busy \in BOOLEAN
  BY CallOf, CallFacts DEF CallInv
<1>1. PICK next \in Phases : next = IF loc[c].busy THEN "canceling_source" ELSE loc[c].next
  BY CallOf, CallFacts DEF Phases
<1>2. ASSUME tx[c], NEW call \in Call, call.next = next, call.cp = loc[c].cp, call.mode = loc[c].mode
      PROVE  Outcome(call)
  <2>0. loc[c].phase = row.phase /\ loc[c].cp = row.cp /\ RowInv /\ (row.phase \in ReleasePhases => SideOf(row.phase) = Published)
    BY <1>2, Holding
  <2>1. CASE loc[c].ask = "seal"
    <3>1. /\ loc[c].mode = "prepare" /\ row.phase = "sealing" /\ loc[c].next = "applying"
          /\ row.cp /\ (~loc[c].busy => app # "open")
      BY <1>0, <2>0, <2>1 DEF Course, JobInv
    <3>2. ~loc[c].busy => app = "sealed"
      BY <2>0, <3>1 DEF RowInv, TransitionInv, Types
    <3>3. next = IF loc[c].busy THEN "canceling_source" ELSE "applying" BY <1>1, <3>1
    <3> QED BY <1>0, <1>2, <2>0, <3>1, <3>2, <3>3
          DEF Outcome, Exposed, Applying, Restoring, Canceling, Released, ReleasePhases, Releasing
  <2>2. CASE loc[c].ask = "cancel"
    <3>1. /\ loc[c].mode \in {"prepare", "restore"} /\ row.phase \in Canceling /\ next = "canceled_source"
          /\ row.cp /\ app = "released"
      BY <1>0, <1>1, <2>0, <2>2 DEF Course, JobInv, Place
    <3> QED BY <1>2, <2>0, <3>1
          DEF Outcome, Exposed, Applying, Restoring, Canceling, Released, ReleasePhases, Releasing, Unsealing
  <2>3. CASE loc[c].ask = "release"
    <3>1. /\ Releasing(loc[c].mode) /\ row.phase \in ReleasePhases /\ next \in Released
          /\ SideOf(next) = SideOf(row.phase) /\ row.cp /\ app = "released" /\ AllOf(SideOf(row.phase))
      BY <1>0, <1>1, <2>0, <2>3 DEF Course, JobInv, Place
    <3>2. /\ next \in ReleasePhases /\ next \notin Canceling /\ next \notin Applying /\ next \notin Restoring
          /\ next \notin Early /\ next # "sealing" /\ next # "canceled_source"
      BY <3>1, PhaseKinds DEF Canceling
    <3>3. row.phase \notin Canceling /\ ~Exposed BY <3>1, PhaseKinds DEF Exposed
    <3>4. loc[c].mode # "prepare" BY <3>1 DEF Releasing
    <3> QED BY <1>2, <2>0, <3>1, <3>2, <3>3, <3>4, PhaseKinds DEF Outcome, Early, Applying
  <2>4. CASE loc[c].ask = "status"
    <3>1. /\ ~Releasing(loc[c].mode) /\ next = loc[c].next
          /\ \/ loc[c].phase \in {"verifying", "prepared"} /\ next = "prepared"
             \/ loc[c].phase = "restoring" /\ next = "restored"
             \/ loc[c].phase = "restored" /\ next = "restored" /\ loc[c].cp
      BY <1>0, <1>1, <2>4 DEF Course, Place, Releasing
    <3>2. Exposed /\ loc[c].cp BY <1>2, <3>1, HoldingExposed DEF Applying
    <3>3. next = "prepared" => AllOf("target") BY <2>0, <3>1 DEF RowInv
    <3> QED BY <1>0, <1>2, <2>0, <3>1, <3>2, <3>3, ExposedOutcome DEF Applying, Restoring
  <2>5. loc[c].ask \in {"seal", "cancel", "release", "status"} BY <1>0 DEF Course
  <2> QED BY <2>1, <2>2, <2>3, <2>4, <2>5
<1> QED BY <1>1, <1>2, DecideSound

--------------------------------------------------------------------------------
(* Updates that a call prepares                                             *)

\* An update prepared from an object as it was read.
LEMMA ChangeSound ==
    ASSUME TransitionInv, NEW c \in Callers, pc[c] \notin {"idle", "commit"}, NEW n \in Objects, NEW to \in Object,
           NEW seen \in Object, Change(c, n, seen, to), to.ver \in Versions, seen.ver = Other(to.ver),
           seen.rv <= objs[n].rv, seen.rv = objs[n].rv => seen = objs[n],
           loc[c].job = IF to.ver = "target" THEN "apply" ELSE "restore"
    PROVE  Sound(c)
<1>0. seen.rv \in Nat /\ objs[n] \in Object /\ objs[n].rv \in Nat BY ObjectFacts DEF TransitionInv, Types
<1>a. seen.rv + 1 \in Nat BY <1>0
<1>1. PICK new \in Object : new = [to EXCEPT !.rv = seen.rv + 1] BY <1>a DEF Object
<1>2. new.ver = to.ver /\ new.rv = seen.rv + 1 BY <1>1 DEF Object
<1>3. CallInv(loc[c], pc[c], tx[c]) /\ loc[c].job \in {"apply", "restore"} BY CallOf
<1>4. UpdateInv(n, new)
  <2>1. Exposed /\ core # "releasing" BY <1>3 DEF CallInv, JobInv
  <2>2. to.ver = "source" => row.phase \in Restoring BY <1>3 DEF CallInv, JobInv
  <2>3. new.rv <= objs[n].rv + 1 /\ (objs[n].rv + 1 = new.rv => seen = objs[n]) BY <1>0, <1>2
  <2> QED BY <1>2, <2>1, <2>2, <2>3 DEF UpdateInv, Current
<1>5. PICK call \in Call : call = [loc[c] EXCEPT !.n = n, !.to = new] BY CallOf DEF Call
<1>6. /\ call.mode = loc[c].mode /\ call.phase = loc[c].phase /\ call.next = loc[c].next /\ call.job = loc[c].job
      /\ call.cp = loc[c].cp /\ call.dep = loc[c].dep /\ call.side = loc[c].side /\ call.n = n /\ call.to = new
      /\ call.ask = loc[c].ask /\ call.busy = loc[c].busy
  BY <1>5, CallOf DEF Call
<1>7. Course(call) BY <1>3, <1>6 DEF CallInv, Course
<1>8. JobInv(call, "update") BY <1>3, <1>4, <1>6 DEF CallInv, JobInv, Seen
<1>9. Place(call, "update") BY <1>3, <1>6 DEF Place, CallInv
<1>10. Goto(c, "update", call) BY <1>1, <1>5 DEF Change
<1> QED BY <1>3, <1>6, <1>7, <1>8, <1>9, <1>10, Move DEF Labels, Tame

LEMMA ReplaceService ==
    ASSUME TransitionInv, NEW c \in Callers, pc[c] = "svc", NEW ver \in Versions, NEW op \in BOOLEAN,
           Change(c, loc[c].n, objs[loc[c].n], [objs[loc[c].n] EXCEPT !.ver = ver, !.op = op]),
           objs[loc[c].n].ver = Other(ver), loc[c].job = IF ver = "target" THEN "apply" ELSE "restore"
    PROVE  Sound(c)
<1>1. PICK n \in Objects : n = loc[c].n BY CallOf, CallFacts
<1>2. PICK s \in Object : s = objs[n] BY <1>1 DEF TransitionInv, Types
<1>3. PICK to \in Object : to = [s EXCEPT !.ver = ver, !.op = op] BY DEF Object
<1>4. to.ver = ver BY <1>3 DEF Object
<1>5. Change(c, n, s, to) BY <1>1, <1>2, <1>3
<1>6. s.rv <= objs[n].rv BY <1>2, ObjectFacts
<1> QED BY <1>1, <1>2, <1>4, <1>5, <1>6, ChangeSound

LEMMA ApplyDeployment ==
    ASSUME TransitionInv, NEW c \in Callers, pc[c] = "svc", loc[c].job = "apply", loc[c].dep.ver = "source",
           Change(c, Deployment, loc[c].dep, [Original EXCEPT !.ver = "target", !.op = TRUE])
    PROVE  Sound(c)
<1>1. PICK d \in Object : d = loc[c].dep BY CallOf, CallFacts
<1>2. PICK to \in Object : to = [Original EXCEPT !.ver = "target", !.op = TRUE] BY NoCallType DEF Object, Versions
<1>3. to.ver = "target" /\ "target" \in Versions BY <1>2 DEF Original, Versions
<1>4. d.rv <= objs[Deployment].rv /\ (d.rv = objs[Deployment].rv => d = objs[Deployment])
  BY <1>1, CallOf DEF CallInv, JobInv
<1>5. Change(c, Deployment, d, to) BY <1>1, <1>2
<1> QED BY <1>1, <1>3, <1>4, <1>5, ChangeSound, Sets DEF Other

LEMMA RestoreDeployment ==
    ASSUME TransitionInv, NEW c \in Callers, pc[c] = "dep", loc[c].job = "restore", objs[Deployment].ver = "target",
           Change(c, Deployment, objs[Deployment], Original)
    PROVE  Sound(c)
<1>1. PICK d \in Object : d = objs[Deployment] BY Sets DEF TransitionInv, Types
<1>2. Original.ver = "source" /\ "source" \in Versions /\ Original \in Object BY NoCallType DEF Original, Versions
<1>3. d.rv <= objs[Deployment].rv BY <1>1, ObjectFacts
<1>4. Change(c, Deployment, d, Original) BY <1>1
<1> QED BY <1>1, <1>2, <1>3, <1>4, ChangeSound, Sets DEF Other

--------------------------------------------------------------------------------
(* The reads                                                                *)

\* The Deployment is as the job wants it: on to the Services.
LEMMA ToServices ==
    ASSUME TransitionInv, NEW c \in Callers, pc[c] = "dep", NEW ready \in BOOLEAN,
           Goto(c, "svc", [loc[c] EXCEPT !.n = 1, !.dep = objs[Deployment], !.ready = ready]),
           loc[c].job = "apply" => objs[Deployment].ver \in Versions,
           loc[c].job = "restore" => objs[Deployment].ver = "source",
           loc[c].job \in {"before", "after"} => objs[Deployment].ver = loc[c].side
    PROVE  Sound(c)
<1>0. /\ loc[c] \in Call /\ Course(loc[c]) /\ JobInv(loc[c], "dep") /\ Place(loc[c], "dep")
  BY CallOf DEF CallInv
<1>1. objs[Deployment] \in Object /\ objs[Deployment].rv \in Nat BY ObjectFacts, Sets DEF TransitionInv, Types
<1>2. 1 \in Objects /\ 1 \in Services BY Sets
<1>3. PICK call \in Call : call = [loc[c] EXCEPT !.n = 1, !.dep = objs[Deployment], !.ready = ready]
  BY <1>0, <1>1, <1>2 DEF Call
<1>4. /\ call.mode = loc[c].mode /\ call.phase = loc[c].phase /\ call.next = loc[c].next /\ call.job = loc[c].job
      /\ call.cp = loc[c].cp /\ call.dep = objs[Deployment] /\ call.side = loc[c].side /\ call.n = 1
      /\ call.ask = loc[c].ask /\ call.busy = loc[c].busy
  BY <1>0, <1>3 DEF Call
<1>5. Course(call) BY <1>0, <1>4 DEF Course
<1>6. Place(call, "svc") BY <1>0, <1>2, <1>4 DEF Place
<1>7. Seen(call, "svc")
  <2>1. \A m \in 1..(1 - 1) : FALSE OBVIOUS
  <2> QED BY <1>4, <2>1 DEF Seen, Of
<1>8. JobInv(call, "svc") BY <1>0, <1>1, <1>4, <1>7 DEF JobInv
<1> QED BY <1>0, <1>3, <1>4, <1>5, <1>6, <1>8, Move DEF Labels

LEMMA BaseReadDeployment ==
    ASSUME TransitionInv, NEW c \in Callers, ReadDeployment(c)
    PROVE  Sound(c)
<1> DEFINE d == objs[Deployment]
           read == [loc[c] EXCEPT !.n = 1, !.dep = d, !.ready = managementReady]
<1>0. /\ pc[c] = "dep" /\ loc[c] \in Call /\ Course(loc[c]) BY CallOf DEF ReadDeployment, CallInv
<1>1. PICK ready \in BOOLEAN : ready = managementReady BY DEF managementReady
<1>2. CASE Conflict(c) BY <1>0, <1>2, ConflictSound
<1>3. CASE loc[c].job = "capture" /\ ~Conflict(c)
  <2>1. Goto(c, "svc", read) BY <1>3 DEF ReadDeployment
  <2> QED BY <1>0, <1>1, <1>3, <2>1, ToServices
<1>4. CASE loc[c].job = "apply" /\ ~Conflict(c)
  <2>1. Goto(c, "svc", read) /\ d.ver \in Versions BY <1>4 DEF ReadDeployment, Marked, Versions
  <2> QED BY <1>0, <1>1, <1>4, <2>1, ToServices
<1>5. CASE loc[c].job = "restore" /\ ~Conflict(c)
  <2>1. \/ d.ver = "source" /\ Goto(c, "svc", read)
        \/ Again(c)
        \/ d.ver = "target" /\ Change(c, Deployment, d, Original)
    BY <1>5 DEF ReadDeployment, Marked
  <2>2. CASE d.ver = "source" /\ Goto(c, "svc", read) BY <1>0, <1>1, <1>5, <2>2, ToServices
  <2>3. CASE Again(c) BY <1>0, <1>5, <2>3, AgainSound DEF Tame
  <2>4. CASE d.ver = "target" /\ Change(c, Deployment, d, Original) BY <1>0, <1>5, <2>4, RestoreDeployment
  <2> QED BY <2>1, <2>2, <2>3, <2>4
<1>6. CASE loc[c].job \in {"before", "after"} /\ ~Conflict(c)
  <2>1. Goto(c, "svc", read) /\ d.ver = loc[c].side BY <1>6 DEF ReadDeployment, Marked
  <2> QED BY <1>0, <1>1, <1>6, <2>1, ToServices
<1>7. loc[c].job \in {"capture", "apply", "restore", "before", "after"} BY <1>0 DEF Course
<1> QED BY <1>2, <1>3, <1>4, <1>5, <1>6, <1>7

\* The Service that is visited is as the job wants it, and so are all if it is the last.
LEMMA VisitSound ==
    ASSUME TransitionInv, NEW c \in Callers, pc[c] = "svc", Visit(c, loc[c].n + 1), loc[c].n < NumServices,
           loc[c].job # "capture" => objs[loc[c].n].ver = loc[c].side
    PROVE  Sound(c)
<1>0. /\ loc[c] \in Call /\ Course(loc[c]) /\ JobInv(loc[c], "svc") /\ Place(loc[c], "svc") /\ loc[c].n \in Services
  BY CallOf DEF CallInv, Place
<1>1. loc[c].n + 1 \in Services /\ loc[c].n + 1 \in Objects BY <1>0, TransitionAssumption DEF Services, Objects
<1>2. PICK call \in Call : call = [loc[c] EXCEPT !.n = loc[c].n + 1] BY <1>0, <1>1 DEF Call
<1>3. /\ call.mode = loc[c].mode /\ call.phase = loc[c].phase /\ call.next = loc[c].next /\ call.job = loc[c].job
      /\ call.cp = loc[c].cp /\ call.dep = loc[c].dep /\ call.side = loc[c].side /\ call.n = loc[c].n + 1
      /\ call.ask = loc[c].ask /\ call.busy = loc[c].busy
  BY <1>0, <1>2 DEF Call
<1>4. Course(call) BY <1>0, <1>3 DEF Course
<1>5. Place(call, "svc") BY <1>0, <1>1, <1>3 DEF Place
<1>6. loc[c].job # "capture" /\ Seen(loc[c], "svc") => Seen(call, "svc")
  <2>1. \A m \in 1..(call.n - 1) : m = loc[c].n \/ m \in 1..(loc[c].n - 1) BY <1>0, <1>3 DEF Services
  <2> QED BY <1>3, <2>1 DEF Seen, Of
<1>7. loc[c].job = "capture" => call.ask = "none" BY <1>0, <1>3 DEF Course
<1>8. JobInv(call, "svc") BY <1>0, <1>3, <1>6, <1>7 DEF JobInv
<1> QED BY <1>0, <1>2, <1>3, <1>4, <1>5, <1>8, Move DEF Visit, Labels

LEMMA AllSeen ==
    ASSUME TransitionInv, NEW c \in Callers, pc[c] = "svc", loc[c].n = NumServices, Seen(loc[c], "svc"),
           objs[loc[c].n].ver = loc[c].side, loc[c].dep.ver = loc[c].side
    PROVE  AllOf(loc[c].side)
<1>1. \A n \in Objects : n = Deployment \/ n = loc[c].n \/ n \in 1..(loc[c].n - 1)
  BY TransitionAssumption DEF Objects, Deployment
<1> QED BY <1>1 DEF Seen, AllOf, Of

LEMMA AfterServicesSound ==
    ASSUME TransitionInv, NEW c \in Callers, pc[c] = "svc", AfterServices(c), loc[c].n = NumServices,
           loc[c].job # "capture" => objs[loc[c].n].ver = loc[c].side
    PROVE  Sound(c)
<1>0. /\ loc[c] \in Call /\ Course(loc[c]) /\ JobInv(loc[c], "svc") /\ Place(loc[c], "svc") /\ loc[c].ready \in BOOLEAN
  BY CallOf, CallFacts DEF CallInv
<1>1. CASE loc[c].job = "capture"
  <2>1. Goto(c, "commit", [loc[c] EXCEPT !.cp = TRUE]) BY <1>1 DEF AfterServices
  <2> QED BY <1>1, <2>1, CapturedSound
<1>2. CASE loc[c].job = "apply" /\ loc[c].dep.ver = "target"
  <2>1. Decide(c, loc[c].next) \/ Again(c) BY <1>2 DEF AfterServices
  <2>2. loc[c].side = "target" BY <1>0, <1>2 DEF Course
  <2>3. row.phase \in Applying => AllOf("target") BY <1>0, <1>2, <2>2, AllSeen DEF JobInv
  <2> QED BY <1>2, <2>1, <2>3, AppliedSound, AgainSound DEF Tame
<1>3. CASE loc[c].job = "apply" /\ loc[c].dep.ver = "source"
  <2>1. Change(c, Deployment, loc[c].dep, [Original EXCEPT !.ver = "target", !.op = TRUE]) BY <1>3 DEF AfterServices
  <2> QED BY <1>3, <2>1, ApplyDeployment
<1>4. CASE loc[c].job = "restore"
  <2>1. Goto(c, "dep", [loc[c] EXCEPT !.job = "before"]) BY <1>4 DEF AfterServices
  <2>2. PICK call \in Call : call = [loc[c] EXCEPT !.job = "before"] BY <1>0 DEF Call, Jobs, Tame
  <2>3. /\ call.mode = loc[c].mode /\ call.phase = loc[c].phase /\ call.next = loc[c].next /\ call.job = "before"
        /\ call.cp = loc[c].cp /\ call.dep = loc[c].dep /\ call.side = loc[c].side
        /\ call.ask = loc[c].ask /\ call.busy = loc[c].busy
    BY <1>0, <2>2 DEF Call
  <2>4. Course(call) BY <1>0, <1>4, <2>3 DEF Course
  <2>5. Place(call, "dep") BY <1>0, <1>4, <2>3 DEF Place
  <2>6. loc[c].ask = "status" BY <1>0, <1>4 DEF Course
  <2>7. JobInv(call, "dep") BY <1>0, <2>3, <2>6 DEF JobInv
  <2> QED BY <1>4, <2>1, <2>2, <2>3, <2>4, <2>5, <2>7, Move DEF Labels, Tame
<1>5. CASE loc[c].job \in {"before", "after"}
  <2>1. PICK call \in Call : call = loc[c] BY <1>0
  <2>2. Goto(c, "pods", call) BY <1>5, <2>1 DEF AfterServices
  <2>3. call.dep.ver = call.side BY <1>0, <1>5, <2>1 DEF Place
  <2>4. Place(call, "pods") BY <1>0, <1>5, <2>1, <2>3 DEF Place
  <2>5. Seen(loc[c], "svc") => AllOf(loc[c].side) BY <1>5, <2>1, <2>3, AllSeen
  <2>6. JobInv(call, "pods") BY <1>0, <1>5, <2>1, <2>5 DEF JobInv, Seen
  <2> QED BY <1>0, <1>5, <2>1, <2>2, <2>4, <2>6, Move DEF Labels
<1>6. loc[c].job \in {"capture", "apply", "restore", "before", "after"} BY <1>0 DEF Course
<1>7. loc[c].job = "apply" => loc[c].dep.ver \in {"source", "target"} BY <1>0 DEF Place, Versions
<1> QED BY <1>1, <1>2, <1>3, <1>4, <1>5, <1>6, <1>7

LEMMA BaseReadService ==
    ASSUME TransitionInv, NEW c \in Callers, ReadService(c)
    PROVE  Sound(c)
<1> DEFINE n == loc[c].n  s == objs[n]
           want == IF loc[c].job = "capture" THEN "source" ELSE loc[c].side
<1>0. pc[c] = "svc" /\ Course(loc[c]) /\ n \in Services BY CallOf DEF ReadService, CallInv, Place
<1>a. (loc[c].job = "apply" => want = "target") /\ (loc[c].job = "restore" => want = "source") BY <1>0 DEF Course
<1>1. CASE Conflict(c) BY <1>0, <1>1, ConflictSound
<1>2. CASE s.ver = want /\ n < NumServices
  <2>1. Visit(c, n + 1) BY <1>a, <1>2 DEF ReadService
  <2> QED BY <1>0, <1>2, <2>1, VisitSound
<1>3. CASE s.ver = want /\ ~(n < NumServices)
  <2>1. AfterServices(c) BY <1>a, <1>3 DEF ReadService
  <2>2. n = NumServices BY SMTT(40), <1>0, <1>3, TransitionAssumption DEF Services
  <2> QED BY <1>0, <1>3, <2>1, <2>2, AfterServicesSound
<1>4. CASE s.ver # want /\ ~Conflict(c)
  <2>1. \/ /\ s.ver = "source" /\ loc[c].job = "apply"
           /\ Change(c, n, s, [s EXCEPT !.ver = "target", !.op = TRUE])
        \/ /\ s.ver = "target" /\ loc[c].job = "restore"
           /\ Change(c, n, s, [s EXCEPT !.ver = "source", !.op = FALSE])
    BY <1>4 DEF ReadService
  <2> QED BY <1>0, <2>1, ReplaceService DEF Versions, Other
<1> QED BY <1>1, <1>2, <1>3, <1>4

\* One Pod, of the version that was asked for: nothing else of the App runs.
LEMMA BaseReadPods ==
    ASSUME TransitionInv, NEW c \in Callers, ReadPods(c)
    PROVE  Sound(c)
<1>0. /\ pc[c] = "pods" /\ loc[c].job \in {"before", "after"} /\ loc[c] \in Call /\ Course(loc[c])
      /\ JobInv(loc[c], "pods") /\ Place(loc[c], "pods") /\ loc[c].dep.ver = loc[c].side
  BY CallOf DEF ReadPods, CallInv, Place
<1>1. CASE End(c) BY <1>1 DEF Sound
<1>2. CASE Conflict(c) BY <1>0, <1>2, ConflictSound
<1>3. CASE loc[c].job = "after" /\ Decide(c, IF loc[c].busy THEN "canceling_source" ELSE loc[c].next)
  BY <1>0, <1>3, AnsweredSound
<1>4. ASSUME NEW p \in pods, pods = {p}, p.ver = loc[c].dep.ver, loc[c].job = "before",
             Goto(c, "ask", [loc[c] EXCEPT !.proc = p.uid])
      PROVE  Sound(c)
  <2>1. p.uid \in 0..MaxPods
    <3>1. p \in Pod BY DEF TransitionInv, Types
    <3> QED BY <3>1, Numbers DEF Pod
  <2>2. PICK call \in Call : call = [loc[c] EXCEPT !.proc = p.uid] BY <1>0, <2>1 DEF Call
  <2>3. /\ call.mode = loc[c].mode /\ call.phase = loc[c].phase /\ call.next = loc[c].next /\ call.job = loc[c].job
        /\ call.cp = loc[c].cp /\ call.dep = loc[c].dep /\ call.side = loc[c].side
        /\ call.ask = loc[c].ask /\ call.busy = loc[c].busy
    BY <1>0, <2>2 DEF Call
  <2>4. Course(call) BY <1>0, <2>3 DEF Course
  <2>5. Place(call, "ask") BY <1>0, <1>4, <2>3 DEF Place
  <2>6. AskInv(call.ask)
    <3>1. call.ask = "seal" => row.cp BY <1>0, <2>3 DEF JobInv
    <3>2. ASSUME call.ask \in {"cancel", "release"}
          PROVE  row.cp /\ row.phase \in Unsealing /\ Steady(SideOf(row.phase))
      <4>1. row.cp /\ row.phase \in Unsealing /\ call.side = SideOf(row.phase) /\ AllOf(call.side)
        BY <1>0, <2>3, <3>2 DEF JobInv
      <4>2. Of(objs[Deployment], call.side) BY <4>1, Sets DEF AllOf
      <4>3. \A q \in pods : q.ver = call.side BY <1>0, <1>4, <2>3
      <4> QED BY <4>1, <4>2, <4>3 DEF Steady
    <3> QED BY <3>1, <3>2 DEF AskInv
  <2>7. JobInv(call, "ask") BY <1>0, <1>4, <2>3, <2>6 DEF JobInv, Seen
  <2> QED BY <1>0, <1>4, <2>2, <2>3, <2>4, <2>5, <2>7, Move DEF Labels
<1> QED BY <1>0, <1>1, <1>2, <1>3, <1>4 DEF ReadPods

\* Every read, and a request to the App that gets no answer.
LEMMA ReadStep ==
    ASSUME TransitionInv, NEW c \in Callers,
           ReadDeployment(c) \/ ReadService(c) \/ ReadPods(c) \/ AskFails(c)
    PROVE  TransitionInv'
<1>1. AskFails(c) => Sound(c) BY DEF AskFails, Sound
<1>2. Sound(c) BY <1>1, BaseReadDeployment, BaseReadService, BaseReadPods
<1>3. Quiet /\ UNCHANGED app BY DEF ReadDeployment, ReadService, ReadPods, AskFails
<1> QED BY <1>2, <1>3, QuietStep

--------------------------------------------------------------------------------
(* Requests that reach the App                                              *)

\* A phase that unseals is the published version's.
LEMMA UnsealingPublished ==
    ASSUME TransitionInv, row.phase \in Unsealing
    PROVE  SideOf(row.phase) = Published
<1>0. CoreInv BY DEF TransitionInv
<1>1. CASE row.phase \in ReleasePhases BY <1>0, <1>1 DEF CoreInv
<1>2. CASE row.phase \in Canceling
  <2>1. row.phase \notin ReleasePhases /\ ~Exposed /\ SideOf(row.phase) = "source" BY <1>2, PhaseKinds DEF Exposed
  <2> QED BY <1>0, <2>1 DEF CoreInv, Published
<1> QED BY <1>1, <1>2 DEF Unsealing

\* The App does what it is asked for, and nothing else happens.
LEMMA AppWorld ==
    ASSUME TransitionInv, NEW ask \in Asks, AskInv(ask), Handle(ask), late' \subseteq late,
           UNCHANGED <<core, installed, known, registered, row, objs, observed, pods, born, broken, faults>>
    PROVE  World
<1>0. Types /\ ServeInv BY DEF TransitionInv
<1>1. \/ app' = app
      \/ ask = "seal" /\ row.cp /\ app # "released" /\ app' = "sealed"
      \/ /\ ask \in {"cancel", "release"} /\ row.cp /\ row.phase \in Unsealing /\ Steady(SideOf(row.phase))
         /\ app' = "released"
  BY DEF Handle, AskInv
<1>2. Keeps BY <1>1 DEF Keeps, Steady
<1>3. WorldTypes BY <1>0, <1>1 DEF WorldTypes, Types
<1>4. Steady(Published)' <=> Steady(Published) BY DEF Steady, Published
<1>5. app' # "sealed" => Steady(Published) BY <1>0, <1>1, UnsealingPublished DEF ServeInv
<1>6. ServeInv' BY <1>0, <1>4, <1>5 DEF ServeInv
<1>7. Fresh => AllOf("source")' BY DEF TransitionInv, FreshInv, AllOf
<1> QED BY <1>2, <1>3, <1>6, <1>7 DEF World

LEMMA AskStep ==
    ASSUME TransitionInv, NEW c \in Callers, Ask(c)
    PROVE  TransitionInv'
<1>0. /\ pc[c] = "ask" /\ loc[c] \in Call /\ tx[c] \in BOOLEAN /\ Course(loc[c]) /\ loc[c].job = "before"
      /\ CallInv(loc[c], "ask", tx[c]) /\ AskInv(loc[c].ask) /\ Quiet
      /\ UNCHANGED <<core, installed, known, registered, row, objs, observed, pods, born, broken, late, faults>>
  BY CallOf DEF Ask, CallInv, Place, JobInv, Quiet, authority, workload
<1>1. /\ Types /\ objs \in [Objects -> Object] /\ objs' \in [Objects -> Object] /\ faults' \in 0..MaxFaults
      /\ loc[c].ask \in Asks /\ tx \in [Callers -> BOOLEAN]
  BY <1>0, CallFacts DEF TransitionInv, Types
<1>2. CASE loc[c].ask = "status" /\ Conflict(c) /\ UNCHANGED app
  BY <1>0, <1>2, ConflictSound, QuietStep
<1>3. ASSUME NEW busy \in BOOLEAN, Goto(c, "dep", [loc[c] EXCEPT !.job = "after", !.busy = busy]),
             (loc[c].ask = "seal" /\ busy /\ UNCHANGED app) \/ (~busy /\ Handle(loc[c].ask))
      PROVE  TransitionInv'
  <2>1. PICK locked \in BOOLEAN : locked = tx[c] BY <1>0
  <2>2. PICK old \in Call : old = loc[c] BY <1>0
  <2>3. PICK call \in Call : call = [loc[c] EXCEPT !.job = "after", !.busy = busy] BY <1>0 DEF Call, Jobs, Tame
  <2>4. /\ call.mode = old.mode /\ call.phase = old.phase /\ call.next = old.next /\ call.job = "after"
        /\ call.cp = old.cp /\ call.dep = old.dep /\ call.side = old.side
        /\ call.ask = old.ask /\ call.busy = busy
    BY <1>0, <2>2, <2>3 DEF Call
  <2>5. World BY <1>0, <1>1, <1>3, AppWorld, SameWorld
  <2>6. CallInv(old, "ask", locked)'
    <3>1. Keeps /\ app' \in {"open", "sealed", "released"} BY <2>5 DEF World, WorldTypes
    <3> QED BY <1>0, <1>1, <2>1, <2>2, <3>1, CallKept
  <2>7. Course(call) BY <1>0, <2>2, <2>4 DEF Course
  <2>8. JobInv(call, "dep")'
    <3>1. call.ask \in {"cancel", "release"} => app' = "released" BY <1>3, <2>2, <2>4 DEF Handle
    <3>2. call.ask = "seal" /\ ~call.busy => app' # "open" BY <1>3, <2>2, <2>4 DEF Handle
    <3>3. JobInv(old, "ask")' BY <2>6 DEF CallInv
    <3> QED BY <2>4, <3>1, <3>2, <3>3 DEF JobInv, Seen
  <2>9. Place(call, "dep") BY <1>3, <2>2, <2>4 DEF Place
  <2>10. CallInv(call, "dep", locked)'
    <3>1. Course(call)' /\ Place(call, "dep")' BY <2>7, <2>9 DEF Course, Place
    <3> QED BY <2>4, <2>6, <2>8, <3>1 DEF CallInv
  <2>11. tx' = [tx EXCEPT ![c] = locked] /\ pc' = [pc EXCEPT ![c] = "dep"] /\ loc' = [loc EXCEPT ![c] = call]
    BY <1>1, <1>3, <2>1, <2>3 DEF Goto
  <2>12. call.job \in Tame /\ "dep" \in Labels BY <2>4 DEF Tame, Labels
  <2> QED BY <2>1, <2>5, <2>10, <2>11, <2>12, OneCall
<1>4. \/ loc[c].ask = "status" /\ Conflict(c) /\ UNCHANGED app
      \/ /\ Goto(c, "dep", [loc[c] EXCEPT !.job = "after", !.busy = TRUE])
         /\ loc[c].ask = "seal" /\ UNCHANGED app
      \/ Goto(c, "dep", [loc[c] EXCEPT !.job = "after", !.busy = FALSE]) /\ Handle(loc[c].ask)
  <2>1. [[loc[c] EXCEPT !.job = "after"] EXCEPT !.busy = TRUE] = [loc[c] EXCEPT !.job = "after", !.busy = TRUE]
    BY <1>0 DEF Call
  <2>2. loc[c].busy = FALSE BY <1>0, CallFacts DEF CallInv, Place
  <2>3. [loc[c] EXCEPT !.job = "after"] = [loc[c] EXCEPT !.job = "after", !.busy = FALSE] BY <1>0, <2>2 DEF Call
  <2> QED BY <2>1, <2>3 DEF Ask, Handle
<1> QED BY <1>2, <1>3, <1>4

\* A request whose call was abandoned: what it was sent for still holds.
LEMMA LandAskStep ==
    ASSUME TransitionInv, NEW r \in late, LandAsk(r)
    PROVE  TransitionInv'
<1>1. /\ UNCHANGED <<core, installed, known, registered, row, objs, observed, pods, born, broken, faults, calls>>
      /\ r.kind # "update" /\ Handle(r.kind) /\ late' \subseteq late
  BY DEF LandAsk, authority, workload
<1>2. r.kind \in Asks /\ AskInv(r.kind) BY <1>1 DEF TransitionInv, CallTypes, LateRequest
<1>3. World BY <1>1, <1>2, AppWorld
<1> QED BY <1>1, <1>3, WorldStep

--------------------------------------------------------------------------------
(* The workload                                                             *)

\* An update that is executed: the App is sealed, and the phase is one for this update.
LEMMA StoreWorld ==
    ASSUME TransitionInv, NEW n \in Objects, NEW to \in Object, UpdateInv(n, to), Current(n, to), Store(n, to),
           late' \subseteq late,
           UNCHANGED <<core, installed, known, registered, row, pods, born, broken, app, faults>>
    PROVE  World
<1>0. Types /\ ServeInv /\ RowInv /\ objs \in [Objects -> Object] BY DEF TransitionInv, Types
<1>1. objs' = [objs EXCEPT ![n] = to] /\ observed' \in BOOLEAN BY DEF Store
<1>2. /\ objs' \in [Objects -> Object] /\ objs'[n] = to
      /\ \A m \in Objects : m # n => objs'[m] = objs[m]
  BY <1>0, <1>1
<1>3. WorldTypes BY <1>0, <1>1, <1>2 DEF WorldTypes, Types
<1>4. to.rv = objs[n].rv + 1 /\ objs[n].rv \in Nat /\ to.rv # 0 BY <1>0, ObjectFacts DEF Current
<1>5. Exposed /\ app = "sealed" /\ row.phase \notin Unsealing BY <1>0, PhaseKinds DEF UpdateInv, RowInv, Exposed
<1>6. row.phase \in Applying => to.ver = "target"
  <2>1. to.ver = "source" => row.phase \notin Applying BY PhaseKinds DEF UpdateInv
  <2> QED BY <2>1 DEF UpdateInv, Versions
<1>7. Keeps
  <2>1. \A m \in Objects : objs'[m] = objs[m] \/ objs'[m].rv = objs[m].rv + 1 BY <1>2, <1>4
  <2>2. row.phase \in Applying => \A m \in Objects : Of(objs[m], "target") => Of(objs'[m], "target")
    BY <1>2, <1>6 DEF Of
  <2> QED BY <1>5, <2>1, <2>2 DEF Keeps
<1>8. ServeInv'
  <2>1. objs'[Deployment].rv = 0 => objs'[Deployment] = Original BY <1>0, <1>2, <1>4, Sets DEF ServeInv
  <2> QED BY <1>5, <2>1 DEF ServeInv
<1> QED BY <1>3, <1>5, <1>7, <1>8, NotFresh DEF World

\* Pods come and go: new ones only of the version the Deployment wants.
LEMMA PodsWorld ==
    ASSUME TransitionInv, pods' \subseteq Pod, born' \in 1..MaxPods, observed' \in BOOLEAN, late' = late,
           faults' \in 0..MaxFaults, UNCHANGED <<core, installed, known, registered, row, objs, broken, app>>,
           \A p \in pods' : \/ \E q \in pods : p.ver = q.ver
                            \/ objs[Deployment].ver # "other" /\ p.ver = objs[Deployment].ver
    PROVE  World
<1>0. Types /\ ServeInv BY DEF TransitionInv
<1>1. WorldTypes BY <1>0 DEF WorldTypes, Types
<1>2. \A side : Steady(side) => Steady(side)' BY DEF Steady, Of
<1>3. Keeps BY <1>2 DEF Keeps
<1>4. Published' = Published BY DEF Published
<1>5. ServeInv' BY <1>0, <1>2, <1>4 DEF ServeInv
<1>6. Fresh => AllOf("source")' BY DEF TransitionInv, FreshInv, AllOf
<1> QED BY <1>1, <1>3, <1>5, <1>6 DEF World

\* Others edit an object.
LEMMA DriftWorld ==
    ASSUME TransitionInv, NEW n \in Objects, faults' \in 0..MaxFaults, late' = late,
           Store(n, [objs[n] EXCEPT !.ver = "other", !.rv = @ + 1]),
           UNCHANGED <<core, installed, known, registered, row, pods, born, broken, app>>
    PROVE  World
<1>0. Types /\ ServeInv /\ FreshInv /\ objs \in [Objects -> Object] BY DEF TransitionInv, Types
<1>1. PICK to \in Object : to = [objs[n] EXCEPT !.ver = "other", !.rv = @ + 1]
  <2>1. objs[n] \in Object /\ objs[n].rv + 1 \in Nat BY <1>0, ObjectFacts
  <2> QED BY <2>1 DEF Object
<1>2. to.ver = "other" /\ to.rv = objs[n].rv + 1 /\ to.rv # 0
  <2>1. objs[n] \in Object /\ objs[n].rv \in Nat BY <1>0, ObjectFacts
  <2> QED BY <1>1, <2>1 DEF Object
<1>3. objs' = [objs EXCEPT ![n] = to] /\ observed' \in BOOLEAN BY <1>1 DEF Store
<1>4. /\ objs' \in [Objects -> Object] /\ objs'[n] = to
      /\ \A m \in Objects : m # n => objs'[m] = objs[m]
  BY <1>0, <1>3
<1>5. WorldTypes BY <1>0, <1>3, <1>4 DEF WorldTypes, Types
<1>6. \A m \in Objects : objs'[m] = objs[m] \/ (objs'[m].ver = "other" /\ objs'[m].rv = objs[m].rv + 1)
  BY <1>2, <1>4
<1>7. \A side : \A m \in Objects : Of(objs[m], side) => Of(objs'[m], side) BY <1>6 DEF Of
<1>8. \A side : Steady(side) => Steady(side)' BY <1>7, Sets DEF Steady
<1>9. Keeps BY <1>6, <1>7, <1>8 DEF Keeps
<1>10. ServeInv'
  <2>1. objs'[Deployment].rv = 0 => objs'[Deployment] = Original BY <1>0, <1>2, <1>4, Sets DEF ServeInv
  <2>2. Published' = Published BY DEF Published
  <2> QED BY <1>0, <1>8, <2>1, <2>2 DEF ServeInv
<1>11. Fresh => AllOf("source")' BY <1>0, <1>7 DEF FreshInv, AllOf
<1> QED BY <1>5, <1>9, <1>10, <1>11 DEF World

LEMMA MoreFaults == ASSUME TransitionInv, NEW kind, Fault(kind) PROVE faults' \in 0..MaxFaults
  BY Numbers DEF TransitionInv, Types, Fault

LEMMA ClusterStep ==
    ASSUME TransitionInv, Cluster, UNCHANGED app
    PROVE  TransitionInv'
<1>0. /\ Types /\ UNCHANGED <<core, installed, known, registered, row, late, calls>>
      /\ pods \subseteq Pod /\ born \in 1..MaxPods /\ observed \in BOOLEAN /\ faults \in 0..MaxFaults
  BY DEF TransitionInv, Types, Cluster, authority
<1> SUFFICES World BY <1>0, WorldStep
<1>1. CASE ObserveGeneration /\ UNCHANGED faults BY <1>0, <1>1, PodsWorld DEF ObserveGeneration
<1>2. CASE StartPod /\ UNCHANGED faults
  <2>0. PICK p : p = [uid |-> born + 1, ver |-> objs[Deployment].ver, state |-> "starting"] OBVIOUS
  <2>1. /\ objs[Deployment].ver \in Versions /\ born < MaxPods /\ born' = born + 1
        /\ pods' = pods \cup {p} /\ UNCHANGED <<objs, observed, broken>>
    BY <1>2, <2>0 DEF StartPod
  <2>2. born + 1 \in 1..MaxPods BY <1>0, <2>1, Numbers
  <2>3. p \in Pod /\ p.ver = objs[Deployment].ver BY <2>0, <2>1, <2>2 DEF Pod
  <2>4. objs[Deployment].ver # "other" BY <2>1 DEF Versions
  <2> QED BY <1>0, <1>2, <2>1, <2>2, <2>3, <2>4, PodsWorld
<1>3. ASSUME NEW p \in pods, NEW state \in {"starting", "ready", "terminating"}, SetPod(p, state), faults' \in 0..MaxFaults
      PROVE  World
  <2>0. p \in Pod BY <1>0
  <2>1. PICK q \in Pod : q = [p EXCEPT !.state = state] BY <2>0 DEF Pod
  <2>2. q.ver = p.ver BY <2>0, <2>1 DEF Pod
  <2>3. pods' = (pods \ {p}) \cup {q} /\ UNCHANGED <<objs, observed, born, broken>> BY <1>3, <2>1 DEF SetPod
  <2> QED BY <1>0, <1>3, <2>2, <2>3, PodsWorld
<1>4. ASSUME NEW p \in pods, PodReady(p), UNCHANGED faults PROVE World
  BY <1>0, <1>3, <1>4 DEF PodReady
<1>5. ASSUME NEW p \in pods, StopPod(p), UNCHANGED faults PROVE World
  BY <1>0, <1>3, <1>5 DEF StopPod
<1>6. ASSUME NEW p \in pods, PodGone(p), UNCHANGED faults PROVE World
  <2>1. pods' = pods \ {p} /\ UNCHANGED <<objs, observed, born, broken>> BY <1>6 DEF PodGone
  <2> QED BY <1>0, <1>6, <2>1, PodsWorld
<1>7. CASE Drift
  <2>1. PICK n \in Objects : Store(n, [objs[n] EXCEPT !.ver = "other", !.rv = @ + 1]) BY <1>7 DEF Drift
  <2>2. UNCHANGED <<pods, born, broken>> /\ faults' \in 0..MaxFaults BY <1>7, MoreFaults DEF Drift
  <2> QED BY <1>0, <2>1, <2>2, DriftWorld
<1>8. CASE Evict
  <2>1. PICK p \in LivePods : SetPod(p, "terminating") BY <1>8 DEF Evict
  <2>2. p \in pods /\ faults' \in 0..MaxFaults BY <1>8, MoreFaults DEF Evict, LivePods
  <2> QED BY <1>3, <2>1, <2>2
<1> QED BY <1>1, <1>2, <1>4, <1>5, <1>6, <1>7, <1>8 DEF Cluster, Controller

--------------------------------------------------------------------------------
(* Updates that reach the API server                                        *)

LEMMA UpdateStep ==
    ASSUME TransitionInv, NEW c \in Callers, Update(c), UNCHANGED app
    PROVE  TransitionInv'
<1>0. /\ UNCHANGED <<core, installed, known, registered, row, pods, born, broken, late, faults, app>>
      /\ pc[c] = "update" /\ loc[c] \in Call /\ CallInv(loc[c], "update", tx[c]) /\ faults \in 0..MaxFaults
  BY CallOf DEF Update, authority, TransitionInv, Types
<1>1. PICK n \in Objects, to \in Object : n = loc[c].n /\ to = loc[c].to BY <1>0, CallFacts
<1>2. UpdateInv(n, to) /\ loc[c].job \in {"apply", "restore"} BY <1>0, <1>1 DEF CallInv, JobInv, Place
<1>3. CASE Current(n, to) /\ Store(n, to) /\ Again(c)
  <2>1. World BY <1>0, <1>2, <1>3, StoreWorld
  <2>2. Sound(c) BY <1>0, <1>2, <1>3, AgainSound DEF Tame
  <2> QED BY <2>1, <2>2, CallerStep
<1>4. CASE UNCHANGED <<objs, observed>> /\ End(c)
  <2>1. World BY <1>0, <1>4, SameWorld
  <2> QED BY <1>4, <2>1, CallerStep DEF Sound
<1> QED BY <1>1, <1>3, <1>4 DEF Update

LEMMA LandStep ==
    ASSUME TransitionInv, NEW r \in late, Land(r), UNCHANGED app
    PROVE  TransitionInv'
<1>0. /\ UNCHANGED <<core, installed, known, registered, row, pods, born, broken, calls, faults>>
      /\ r.kind = "update" /\ Current(r.n, r.to) /\ Store(r.n, r.to) /\ late' \subseteq late
  BY DEF Land, authority
<1>1. PICK n \in Objects, to \in Object : n = r.n /\ to = r.to BY DEF TransitionInv, CallTypes, LateRequest
<1>2. UpdateInv(n, to) BY <1>0, <1>1 DEF TransitionInv
<1>3. World BY <1>0, <1>1, <1>2, StoreWorld
<1> QED BY <1>0, <1>3, WorldStep

LEMMA LoseStep ==
    ASSUME TransitionInv, NEW r \in late, Lose(r), UNCHANGED app
    PROVE  TransitionInv'
<1>0. /\ UNCHANGED <<core, installed, known, registered, row, objs, observed, pods, born, broken, calls, faults>>
      /\ late' \subseteq late
  BY DEF Lose, authority, workload
<1>1. World BY <1>0, SameWorld DEF TransitionInv, Types
<1> QED BY <1>0, <1>1, WorldStep

--------------------------------------------------------------------------------
(* Calls that begin and calls that fail                                     *)

\* What a mode that Core's phase permits finds in the row.
LEMMA BoundFacts ==
    ASSUME TransitionInv, NEW mode \in Modes, Bound(mode)
    PROVE  /\ ~Releasing(mode) => core # "releasing"
           /\ mode = "release_target" => Published = "target"
           /\ mode = "release_source" => Published = "source"
           /\ mode = "prepare" => core \in {"checking", "preparing"} /\ row.phase \notin ReleasePhases
           /\ core \in {"checking", "preparing"} => mode = "prepare"
           /\ core = "restoring" => mode = "restore"
           /\ core = "releasing" => Releasing(mode)
           /\ core # "done"
<1>1. /\ ~Releasing(mode) => core # "releasing"
      /\ mode = "release_target" => Published = "target"
      /\ mode = "release_source" => Published = "source"
      /\ mode = "prepare" => core \in {"checking", "preparing"}
      /\ core \in {"checking", "preparing"} => mode = "prepare"
      /\ core = "restoring" => mode = "restore"
      /\ core = "releasing" => Releasing(mode)
      /\ core # "done"
  BY DEF Bound, Releasing, Published, Modes, TransitionInv, Types
<1> QED BY <1>1 DEF TransitionInv, CoreInv

\* A phase with a checkpoint in which objects may be replaced.
LEMMA ExposedPhase ==
    ASSUME TransitionInv, row.phase \in Applying \cup {"restoring", "recovery_required"}
    PROVE  row.cp /\ Exposed
  BY DEF TransitionInv, Types, Row, RowInv, Exposed, Applying, Restoring, Early

\* A step that only records an intention.
LEMMA IntendSound ==
    ASSUME TransitionInv, NEW mode \in Modes, Bound(mode), row.phase # "none",
           NEW plan, plan = Plan(mode, row.phase, row.cp), plan.at = "commit",
           NEW call \in Call, call.mode = mode, call.phase = row.phase, call.cp = row.cp, call.next = plan.next
    PROVE  Outcome(call) /\ (~Releasing(mode) => row.phase \notin ReleasePhases)
<1>0. RowInv /\ CoreInv /\ row.cp \in BOOLEAN /\ row.phase \in Phases BY DEF TransitionInv, Types, Row
<1>1. mode # "prepare" BY DEF Plan, PlanPrepare, Job, Refuse
<1>2. CASE mode = "restore"
  <2>1. /\ row.phase \notin ReleasePhases
        /\ \/ row.phase = "sealing" /\ call.next = "canceling_source"
           \/ row.phase \notin Canceling \cup {"restoring", "sealing"} /\ ~row.cp /\ call.next = "restored"
           \/ row.phase \notin Canceling \cup {"restoring", "restored", "sealing"} /\ row.cp /\ call.next = "restoring"
    BY <1>0, <1>2 DEF Plan, PlanRestore, Job, Intend, Refuse, Canceling
  <2>2. CASE row.phase = "sealing" /\ call.next = "canceling_source"
    <3>1. row.cp BY <1>0, <2>2 DEF RowInv, Early
    <3> QED BY <1>2, <2>1, <2>2, <3>1
          DEF Outcome, Exposed, Applying, Restoring, Canceling, Released, ReleasePhases, Releasing
  <2>3. CASE row.phase \notin Canceling \cup {"restoring", "sealing"} /\ ~row.cp /\ call.next = "restored"
    BY <1>2, <2>1, <2>3
      DEF Outcome, Exposed, Applying, Restoring, Canceling, Released, ReleasePhases, Releasing
  <2>4. CASE /\ row.phase \notin Canceling \cup {"restoring", "restored", "sealing"} /\ row.cp
             /\ call.next = "restoring"
    <3>1. row.phase \notin Early BY <1>0, <2>4 DEF RowInv
    <3>2. Exposed
      BY <1>0, <2>1, <2>4, <3>1 DEF Exposed, Phases, Early, Canceling, Applying, Restoring
    <3> QED BY <1>2, <2>1, <2>4, <3>2, ExposedOutcome DEF Applying, Restoring, Releasing
  <2> QED BY <2>1, <2>2, <2>3, <2>4
<1>3. CASE mode = "release_source"
  <2>1. \/ row.phase \in {"restored", "canceled_source"} /\ call.next = "releasing_source"
        \/ row.phase \in {"releasing_source", "released_source"} /\ ~row.cp /\ call.next = "released_source"
    BY <1>0, <1>3 DEF Plan, PlanRelease, Job, Intend, Refuse
  <2>2. Published = "source" BY <1>3, BoundFacts
  <2>3. CASE row.phase \in {"restored", "canceled_source"} /\ call.next = "releasing_source"
    BY <1>3, <2>2, <2>3
      DEF Outcome, Exposed, Applying, Restoring, Canceling, Unsealing, Released, ReleasePhases, Releasing, SideOf
  <2>4. CASE row.phase \in {"releasing_source", "released_source"} /\ ~row.cp /\ call.next = "released_source"
    <3>1. AllOf("source") BY <2>4 DEF TransitionInv, FreshInv, Fresh
    <3> QED BY <1>3, <2>2, <2>4, <3>1
          DEF Outcome, Exposed, Applying, Restoring, Canceling, Unsealing, Released, ReleasePhases, Releasing, SideOf
  <2> QED BY <2>1, <2>3, <2>4
<1>4. CASE mode = "release_target"
  <2>1. row.phase = "prepared" /\ call.next = "releasing_target"
    BY <1>0, <1>4 DEF Plan, PlanRelease, Job, Intend, Refuse
  <2>2. Published = "target" /\ row.cp BY <1>4, <2>1, BoundFacts, ExposedPhase DEF Applying
  <2> QED BY <1>4, <2>1, <2>2
        DEF Outcome, Exposed, Applying, Restoring, Canceling, Unsealing, Released, ReleasePhases, Releasing, SideOf
<1> QED BY <1>1, <1>2, <1>3, <1>4 DEF Modes

\* What the plan of a job needs in order to begin.
Ready(call) ==
    /\ call.ask = "seal" => row.cp
    /\ call.ask \in {"cancel", "release"} =>
         row.cp /\ row.phase \in Unsealing /\ call.side = SideOf(row.phase)
    /\ call.job \in {"capture", "before", "apply", "restore"}
    /\ call.job \in {"apply", "restore"} => Exposed /\ ~Releasing(call.mode)
    /\ call.job = "restore" => row.phase \in Restoring
    /\ ~Releasing(call.mode) => row.phase \notin ReleasePhases

\* A step that has a job to do.
LEMMA JobSound ==
    ASSUME TransitionInv, NEW mode \in Modes, Bound(mode), row.phase # "none",
           NEW plan, plan = Plan(mode, row.phase, row.cp), plan.at = "dep",
           NEW call \in Call, call.mode = mode, call.phase = row.phase, call.cp = row.cp,
           call.next = plan.next, call.job = plan.job, call.ask = plan.ask, call.side = plan.side
    PROVE  Course(call) /\ Ready(call)
<1>0. RowInv /\ row.cp \in BOOLEAN BY DEF TransitionInv, Types, Row
<1>a. row.phase \in Canceling \cup {"sealing"} => row.cp BY <1>0 DEF RowInv, Canceling, Early
<1>1. CASE mode = "prepare"
  <2>0. row.phase \notin ReleasePhases BY <1>1, BoundFacts
  <2>1. CASE row.phase = "checking"
    <3>1. call.job = "capture" /\ call.ask = "none" /\ call.next = "sealing"
      BY <1>1, <2>1 DEF Plan, PlanPrepare, Job
    <3> QED BY <1>1, <2>0, <2>1, <3>1 DEF Course, Ready
  <2>2. CASE row.phase = "sealing"
    <3>1. call.job = "before" /\ call.ask = "seal" /\ call.next = "applying"
      BY <1>1, <2>2 DEF Plan, PlanPrepare, Job
    <3> QED BY <1>1, <1>a, <2>0, <2>2, <3>1 DEF Course, Ready
  <2>3. CASE row.phase \in Canceling
    <3>1. call.job = "before" /\ call.ask = "cancel" /\ call.next = "canceled_source" /\ call.side = "source"
      BY <1>1, <2>3 DEF Plan, PlanPrepare, Job, Canceling
    <3> QED BY <1>1, <1>a, <2>0, <2>3, <3>1, PhaseKinds DEF Course, Ready
  <2>4. CASE row.phase = "applying"
    <3>1. call.job = "apply" /\ call.ask = "none" /\ call.next = "verifying" /\ call.side = "target"
      BY <1>1, <2>4 DEF Plan, PlanPrepare, Job
    <3> QED BY <1>1, <2>0, <2>4, <3>1, ExposedPhase DEF Course, Ready, Applying, Releasing
  <2>5. CASE row.phase \in {"verifying", "prepared"}
    <3>1. call.job = "before" /\ call.ask = "status" /\ call.next = "prepared"
      BY <1>1, <2>5 DEF Plan, PlanPrepare, Job
    <3> QED BY <1>1, <2>0, <2>5, <3>1 DEF Course, Ready
  <2>6. row.phase \in {"checking", "sealing", "applying", "verifying", "prepared"} \cup Canceling
    BY <1>1 DEF Plan, PlanPrepare, Job, Refuse, Canceling
  <2> QED BY <2>1, <2>2, <2>3, <2>4, <2>5, <2>6
<1>2. CASE mode = "restore"
  <2>0. row.phase \notin ReleasePhases BY <1>2 DEF Plan, Refuse
  <2>1. CASE row.phase \in Canceling
    <3>1. call.job = "before" /\ call.ask = "cancel" /\ call.next = "canceled_source" /\ call.side = "source"
      BY <1>2, <2>0, <2>1 DEF Plan, PlanRestore, Job, Canceling
    <3> QED BY <1>2, <1>a, <2>0, <2>1, <3>1, PhaseKinds DEF Course, Ready
  <2>2. CASE row.phase = "restoring"
    <3>1. call.job = "restore" /\ call.ask = "status" /\ call.next = "restored" /\ call.side = "source"
      BY <1>2, <2>0, <2>2 DEF Plan, PlanRestore, Job
    <3> QED BY <1>2, <2>0, <2>2, <3>1, ExposedPhase DEF Course, Ready, Restoring, Releasing
  <2>3. CASE row.phase = "restored"
    <3>1. call.job = "before" /\ call.ask = "status" /\ call.next = "restored" /\ row.cp
      BY <1>2, <2>0, <2>3 DEF Plan, PlanRestore, Job, Intend, Refuse
    <3> QED BY <1>2, <2>0, <2>3, <3>1 DEF Course, Ready
  <2>4. row.phase \in Canceling \cup {"restoring", "restored"}
    BY <1>2, <2>0 DEF Plan, PlanRestore, Job, Intend, Refuse, Canceling
  <2> QED BY <2>1, <2>2, <2>3, <2>4
<1>3. CASE mode = "release_source"
  <2>1. /\ row.phase \in {"releasing_source", "released_source"} /\ row.cp
        /\ call.job = "before" /\ call.ask = "release" /\ call.side = "source" /\ call.next = "released_source"
    BY <1>0, <1>3 DEF Plan, PlanRelease, Job, Intend, Refuse
  <2> QED BY <1>3, <2>1 DEF Course, Ready, ReleasePhases, Released, Releasing, SideOf, Unsealing
<1>4. CASE mode = "release_target"
  <2>1. /\ row.phase \in {"releasing_target", "released_target"} /\ row.cp
        /\ call.job = "before" /\ call.ask = "release" /\ call.side = "target" /\ call.next = "released_target"
    BY <1>0, <1>4 DEF Plan, PlanRelease, Job, Intend, Refuse
  <2> QED BY <1>4, <2>1 DEF Course, Ready, ReleasePhases, Released, Releasing, SideOf, Unsealing
<1> QED BY <1>1, <1>2, <1>3, <1>4 DEF Modes

LEMMA PlanTypes ==
    ASSUME row \in Row, NEW mode \in Modes
    PROVE  LET plan == Plan(mode, row.phase, row.cp) IN
           /\ plan.at \in {"refuse", "commit", "dep"} /\ plan.job \in Jobs /\ plan.ask \in Asks
           /\ plan.side \in Versions /\ plan.next \in Phases
           /\ plan.at = "commit" => plan.job = "none" /\ plan.ask = "none"
<1>0. row.phase \in Phases /\ row.cp \in BOOLEAN BY DEF Row
<1>1. CASE mode = "prepare"
  BY <1>0, <1>1 DEF Plan, PlanPrepare, Job, Intend, Refuse, Jobs, Tame, Asks, Versions, Phases
<1>2. CASE mode = "restore"
  BY <1>0, <1>2 DEF Plan, PlanRestore, Job, Intend, Refuse, Jobs, Tame, Asks, Versions, Phases
<1>3. CASE mode = "release_source"
  BY <1>0, <1>3 DEF Plan, PlanRelease, Job, Intend, Refuse, Jobs, Tame, Asks, Versions, Phases, ReleasePhases
<1>4. CASE mode = "release_target"
  BY <1>0, <1>4 DEF Plan, PlanRelease, Job, Intend, Refuse, Jobs, Tame, Asks, Versions, Phases, ReleasePhases
<1> QED BY <1>1, <1>2, <1>3, <1>4 DEF Modes

LEMMA BeginStep ==
    ASSUME TransitionInv, NEW c \in Callers, NEW mode \in Modes, Begin(c, mode)
    PROVE  TransitionInv'
<1>0. PICK plan : plan = Plan(mode, row.phase, row.cp) OBVIOUS
<1>1. /\ pc[c] = "idle" /\ Unlocked /\ Bound(mode) /\ row.phase # "none" /\ plan.at # "refuse"
      /\ UNCHANGED <<core, installed, known, registered, row, objs, observed, pods, born, broken, late, faults, app>>
  BY <1>0 DEF Begin, Enter, Admitted, authority, workload
<1>2. /\ plan.at \in {"commit", "dep"} /\ plan.job \in Jobs /\ plan.ask \in Asks /\ plan.side \in Versions
      /\ plan.next \in Phases /\ (plan.at = "commit" => plan.job = "none" /\ plan.ask = "none")
  BY <1>0, <1>1, PlanTypes DEF TransitionInv, Types
<1>3. PICK call \in Call :
        call = [NoCall EXCEPT !.mode = mode, !.phase = row.phase, !.cp = row.cp, !.job = plan.job,
                              !.ask = plan.ask, !.side = plan.side, !.next = plan.next]
  BY <1>2, NoCallType DEF Call, TransitionInv, Types, Row
<1>4. /\ call.mode = mode /\ call.phase = row.phase /\ call.cp = row.cp /\ call.next = plan.next
      /\ call.job = plan.job /\ call.ask = plan.ask /\ call.side = plan.side /\ call.dep = NoCall.dep /\ ~call.busy
  BY <1>3 DEF NoCall
<1>5. /\ call.dep.rv <= objs[Deployment].rv
      /\ call.dep.rv = objs[Deployment].rv => call.dep = objs[Deployment]
  BY <1>4, IdleCall DEF CallInv, JobInv
<1>6. CallInv(call, plan.at, TRUE) /\ (Fresh => call.job \in Tame)
  <2>1. CASE plan.at = "commit"
    <3>1. Outcome(call) /\ (~Releasing(mode) => row.phase \notin ReleasePhases)
      BY <1>0, <1>1, <1>4, <2>1, IntendSound
    <3>2. JobInv(call, "commit") BY <1>1, <1>2, <1>4, <1>5, <2>1, <3>1, BoundFacts DEF JobInv
    <3>3. Place(call, "commit") BY <1>4 DEF Place
    <3>4. call.job \in Tame BY <1>2, <1>4, <2>1 DEF Tame
    <3> QED BY <1>1, <1>4, <2>1, <3>1, <3>2, <3>3, <3>4 DEF CallInv
  <2>2. CASE plan.at = "dep"
    <3>1. Course(call) /\ Ready(call) BY <1>0, <1>1, <1>4, <2>2, JobSound
    <3>2. JobInv(call, "dep") BY <1>1, <1>4, <1>5, <3>1, BoundFacts DEF JobInv, Ready, Seen
    <3>3. Place(call, "dep") BY <1>4 DEF Place
    <3>4. Fresh => call.job \in Tame BY <3>1, NotFresh DEF Ready, Tame
    <3> QED BY <1>1, <1>4, <2>2, <3>1, <3>2, <3>3, <3>4 DEF CallInv
  <2> QED BY <1>2, <2>1, <2>2
<1>7. /\ pc' = [pc EXCEPT ![c] = plan.at] /\ tx' = [tx EXCEPT ![c] = TRUE] /\ loc' = [loc EXCEPT ![c] = call]
  BY <1>0, <1>3 DEF Begin, Enter
<1>8. World BY <1>1, SameWorld DEF TransitionInv, Types
<1>9. PICK at \in Labels : at = plan.at /\ at # "update" BY <1>2 DEF Labels
<1>10. CallInv(call, at, TRUE)'
  <2>1. /\ Keeps /\ app' \in {"open", "sealed", "released"} /\ UNCHANGED <<core, installed>>
        /\ objs \in [Objects -> Object] /\ objs' \in [Objects -> Object]
    BY <1>8 DEF World, WorldTypes, TransitionInv, Types
  <2> QED BY <1>6, <1>9, <2>1, CallKept
<1> QED BY <1>1, <1>6, <1>7, <1>8, <1>9, <1>10, OneCall

LEMMA SessionLossStep ==
    ASSUME TransitionInv, NEW c \in Callers, SessionLoss(c), UNCHANGED app
    PROVE  TransitionInv'
<1>0. /\ UNCHANGED <<core, installed, known, registered, row, objs, observed, pods, born, broken, pc, loc, late>>
      /\ tx' = [tx EXCEPT ![c] = FALSE] /\ faults' \in 0..MaxFaults
  BY MoreFaults DEF SessionLoss, authority, workload
<1>1. World BY <1>0, SameWorld
<1>2. PICK call \in Call, at \in Labels : call = loc[c] /\ at = pc[c] BY CallOf
<1>3. CallInv(call, at, FALSE) BY <1>2, CallOf DEF CallInv
<1>4. pc' = [pc EXCEPT ![c] = at] /\ loc' = [loc EXCEPT ![c] = call] BY <1>0, <1>2 DEF TransitionInv, CallTypes
<1>5. Fresh => call.job \in Tame /\ at # "update" BY <1>2 DEF TransitionInv, FreshInv
<1>6. CallInv(call, at, FALSE)'
  <2>1. /\ Keeps /\ app' \in {"open", "sealed", "released"} /\ UNCHANGED <<core, installed>>
        /\ objs \in [Objects -> Object] /\ objs' \in [Objects -> Object]
    BY <1>1 DEF World, WorldTypes, TransitionInv, Types
  <2> QED BY <1>3, <2>1, CallKept
<1> QED BY <1>0, <1>1, <1>4, <1>5, <1>6, OneCall

\* What an abandoned call has sent.
LEMMA RequestSent ==
    ASSUME TransitionInv, NEW c \in Callers, NEW r \in Request(c)
    PROVE  Sent(r)
<1>0. loc[c] \in Call /\ loc[c].n \in Objects /\ loc[c].to \in Object /\ loc[c].ask \in Asks BY CallOf, CallFacts
<1>1. CASE pc[c] = "update"
  <2>1. r = [kind |-> "update", n |-> loc[c].n, to |-> loc[c].to] BY <1>1 DEF Request
  <2>2. UpdateInv(loc[c].n, loc[c].to) BY <1>1, CallOf DEF CallInv, JobInv
  <2>3. r \in LateRequest /\ r.n = loc[c].n /\ r.to = loc[c].to /\ r.kind = "update" BY <1>0, <2>1 DEF LateRequest
  <2> QED BY <2>2, <2>3 DEF Sent, Pending
<1>2. CASE pc[c] # "update"
  <2>1. pc[c] = "ask" /\ r = [kind |-> loc[c].ask, n |-> 0, to |-> Original] BY <1>2 DEF Request
  <2>2. r \in LateRequest BY <1>0, <2>1, NoCallType, Sets DEF LateRequest, Deployment
  <2>3. r.kind # "update" /\ r.kind = loc[c].ask BY <1>0, <2>1 DEF Asks
  <2>4. AskInv(loc[c].ask) BY <2>1, CallOf DEF CallInv, JobInv
  <2> QED BY <2>2, <2>3, <2>4 DEF Sent, Pending
<1> QED BY <1>1, <1>2

LEMMA InterruptStep ==
    ASSUME TransitionInv, NEW c \in Callers, Interrupt(c), UNCHANGED app
    PROVE  TransitionInv'
<1>1. PICK sent \in SUBSET Request(c) : late' = late \cup sent BY DEF Interrupt
<1>2. \A r \in late' : r \in late \/ Sent(r) BY <1>1, RequestSent
<1>3. faults' \in 0..MaxFaults BY MoreFaults DEF Interrupt
<1>4. World BY <1>2, <1>3, SameWorld DEF Interrupt, authority, workload
<1> QED BY <1>4, CallerStep DEF Interrupt, Sound

LEMMA CrashStep ==
    ASSUME TransitionInv, Crash, UNCHANGED app
    PROVE  TransitionInv'
<1>0. /\ pc' = [c \in Callers |-> "idle"] /\ tx' = [c \in Callers |-> FALSE] /\ loc' = [c \in Callers |-> NoCall]
      /\ UNCHANGED <<authority, row, workload>> /\ faults' \in 0..MaxFaults
      /\ objs \in [Objects -> Object] /\ tx' \in [Callers -> BOOLEAN]
  BY MoreFaults DEF Crash, TransitionInv, Types
<1>1. PICK sent \in SUBSET UNION {Request(c) : c \in Callers} : late' = late \cup sent BY DEF Crash
<1>2. \A r \in late' : r \in late \/ Sent(r)
  <2>1. \A r \in sent : \E c \in Callers : r \in Request(c) BY <1>1
  <2> QED BY <1>1, <2>1, RequestSent
<1>3. World BY <1>0, <1>2, SameWorld DEF authority, workload
<1>4. /\ Types' /\ RowInv' /\ CoreInv' /\ late' \subseteq LateRequest
      /\ \A r \in late' : Pending(r)'
      /\ Fresh => \A r \in late' : r.kind # "update"
  BY <1>0, <1>3, WorldParts
<1>5. CallTypes' BY <1>0, <1>4, NoCallType DEF CallTypes, Labels
<1>6. LockInv' BY <1>0 DEF LockInv
<1>7. FreshInv'
  <2>1. NoCall.job \in Tame BY DEF NoCall, Tame
  <2>2. \A c \in Callers : loc'[c].job \in Tame /\ pc'[c] # "update" BY <1>0, <2>1
  <2>3. Fresh' <=> Fresh BY <1>0 DEF Fresh
  <2> QED BY <1>3, <1>4, <2>2, <2>3 DEF FreshInv, World
<1>8. CallInv(NoCall, "idle", FALSE)'
  <2>1. /\ Keeps /\ UNCHANGED <<core, installed>> /\ objs' \in [Objects -> Object]
        /\ app' \in {"open", "sealed", "released"}
    BY <1>3 DEF World, WorldTypes
  <2> QED BY <1>0, <2>1, IdleCall, NoCallType, CallKept
<1>9. \A c \in Callers : CallInv(loc[c], pc[c], tx[c])' BY <1>0, <1>8
<1> QED BY <1>3, <1>4, <1>5, <1>6, <1>7, <1>9 DEF TransitionInv, World, Pending

--------------------------------------------------------------------------------
(* Steps of the row and of Core                                             *)

\* The workload and the App are left alone; a checkpoint is kept; from a phase that unseals
\* the App there is no way back, and from one in which objects are replaced none but to a
\* release that Core asks for.
Onward ==
    /\ UNCHANGED <<objs, observed, pods, born, broken, app, registered, late>>
    /\ row.cp => row'.cp
    /\ row.phase \in Unsealing => row'.phase \in Unsealing /\ SideOf(row'.phase) = SideOf(row.phase)
    /\ Exposed => Exposed' \/ core = "releasing"
    /\ Exposed /\ row.phase \in Restoring => row'.phase \in Restoring \/ core = "releasing"
    /\ row'.phase \in ReleasePhases => row.phase \in ReleasePhases \/ core = "releasing"
    /\ core' = "releasing" => core = "releasing"

LEMMA SameFacts ==
    ASSUME UNCHANGED <<objs, pods>>
    PROVE  \A side : (Steady(side)' <=> Steady(side)) /\ (AllOf(side)' <=> AllOf(side))
  BY DEF Steady, AllOf

LEMMA SameSeen ==
    ASSUME UNCHANGED objs, NEW call, NEW at
    PROVE  Seen(call, at)' <=> Seen(call, at)
  BY DEF Seen

LEMMA UpdateOnward ==
    ASSUME NEW n \in Objects, NEW to \in Object, UpdateInv(n, to), Onward
    PROVE  UpdateInv(n, to)'
<1>1. UNCHANGED objs /\ (Current(n, to)' <=> Current(n, to)) BY DEF Onward, Current
<1>2. Exposed' /\ core' # "releasing" /\ (to.ver = "source" => row'.phase \in Restoring) BY DEF Onward, UpdateInv
<1> QED BY <1>1, <1>2 DEF UpdateInv

LEMMA AskOnward == ASSUME NEW ask, AskInv(ask), Onward PROVE AskInv(ask)'
<1>1. \A side : Steady(side)' <=> Steady(side) BY SameFacts DEF Onward
<1> QED BY <1>1 DEF AskInv, Onward

LEMMA JobOnward ==
    ASSUME NEW call \in Call, NEW at, JobInv(call, at), Onward, at = "idle" => call.job = "none"
    PROVE  JobInv(call, at)'
<1>0. call.n \in Objects /\ call.to \in Object BY CallFacts
<1>1. UNCHANGED <<objs, pods, app>> BY DEF Onward
<1>2. at = "update" => UpdateInv(call.n, call.to)' BY <1>0, UpdateOnward DEF JobInv
<1>3. at = "ask" => AskInv(call.ask)' BY AskOnward DEF JobInv
<1>4. call.ask = "seal" => row'.cp BY DEF JobInv, Onward
<1>5. call.ask \in {"cancel", "release"} =>
        /\ row'.cp /\ row'.phase \in Unsealing /\ call.side = SideOf(row'.phase)
        /\ Seen(call, at)' /\ (at = "pods" => AllOf(call.side)')
  BY <1>1, SameFacts, SameSeen DEF JobInv, Onward
<1>6. call.job \in {"apply", "restore"} => core # "releasing" /\ Exposed BY DEF JobInv
<1>7. call.job \in {"apply", "restore"} => Exposed' /\ ~Releasing(call.mode) BY <1>6 DEF JobInv, Onward
<1>8. call.job = "restore" => row'.phase \in Restoring BY <1>6 DEF JobInv, Onward
<1>9. ASSUME call.job = "apply", row'.phase \in Applying PROVE Seen(call, at)'
  <2>1. row.phase \notin Restoring BY <1>6, <1>9, PhaseKinds DEF Onward
  <2>2. row.phase \in Applying BY <1>6, <1>9, <2>1 DEF Exposed
  <2> QED BY <1>1, <1>9, <2>2, SameSeen DEF JobInv
<1>10. at # "idle" /\ ~Releasing(call.mode) => row'.phase \notin ReleasePhases /\ core' # "releasing"
  BY DEF JobInv, Onward
<1> QED BY <1>1, <1>2, <1>3, <1>4, <1>5, <1>7, <1>8, <1>9, <1>10 DEF JobInv

LEMMA CallOnward ==
    ASSUME NEW call \in Call, NEW at, CallInv(call, at, FALSE), Onward
    PROVE  CallInv(call, at, FALSE)'
<1>1. JobInv(call, at)' BY JobOnward DEF CallInv
<1>2. Place(call, at)' BY DEF CallInv, Place
<1> QED BY <1>1, <1>2 DEF CallInv, Course

\* What is left to show once no call has its transaction, or the one that had has ended.
LEMMA OnwardStep ==
    ASSUME TransitionInv, Onward, faults' \in 0..MaxFaults,
           pc' \in [Callers -> Labels], loc' \in [Callers -> Call], tx' \in [Callers -> BOOLEAN],
           \A c \in Callers : ~tx'[c],
           \A c \in Callers : \/ UNCHANGED <<pc[c], loc[c]>>
                              \/ pc'[c] = "idle" /\ loc'[c] = NoCall,
           core' \in {"checking", "preparing", "restoring", "releasing", "done"}, installed' \in 0..2,
           known' \subseteq Replies, row' \in Row, Fresh' => Fresh,
           ServeInv', RowInv', CoreInv'
    PROVE  TransitionInv'
<1>0. UNCHANGED <<objs, observed, pods, born, broken, app, registered, late>> BY DEF Onward
<1>1. Types' /\ CallTypes' BY <1>0 DEF TransitionInv, Types, CallTypes
<1>2. LockInv' BY DEF LockInv
<1>3. FreshInv'
  <2>1. NoCall.job \in Tame BY DEF NoCall, Tame
  <2>2. Fresh' => AllOf("source")' BY <1>0, SameFacts DEF TransitionInv, FreshInv
  <2>3. ASSUME Fresh', NEW c \in Callers
        PROVE  loc'[c].job \in Tame /\ pc'[c] # "update"
    BY <2>1, <2>3 DEF TransitionInv, FreshInv
  <2>4. Fresh' => \A r \in late' : r.kind # "update" BY <1>0 DEF TransitionInv, FreshInv
  <2> QED BY <2>2, <2>3, <2>4 DEF FreshInv
<1>4. ASSUME NEW c \in Callers PROVE CallInv(loc[c], pc[c], tx[c])'
  <2>1. PICK call \in Call, at \in Labels, locked \in BOOLEAN :
          /\ call = loc'[c] /\ at = pc'[c]
          /\ CallInv(call, at, locked)
    <3>1. CASE UNCHANGED <<pc[c], loc[c]>> BY <3>1, CallOf
    <3>2. CASE pc'[c] = "idle" /\ loc'[c] = NoCall BY <3>2, IdleCall, NoCallType DEF Labels
    <3> QED BY <3>1, <3>2
  <2>2. CallInv(call, at, FALSE) BY <2>1 DEF CallInv
  <2>3. CallInv(call, at, FALSE)' BY <2>2, CallOnward
  <2>4. tx'[c] = FALSE OBVIOUS
  <2> QED BY <2>1, <2>3, <2>4
<1>5. ASSUME NEW r \in late' PROVE Pending(r)'
  <2>1. r \in late /\ r \in LateRequest /\ Pending(r) BY <1>0, <1>5 DEF TransitionInv, CallTypes, Pending
  <2>2. CASE r.kind = "update"
    <3>1. PICK n \in Objects, to \in Object : n = r.n /\ to = r.to BY <2>1 DEF LateRequest
    <3>2. UpdateInv(n, to)' BY <2>1, <2>2, <3>1, UpdateOnward DEF Pending
    <3> QED BY <2>2, <3>1, <3>2 DEF Pending
  <2>3. CASE r.kind # "update" BY <2>1, <2>3, AskOnward DEF Pending
  <2> QED BY <2>2, <2>3
<1> QED BY <1>1, <1>2, <1>3, <1>4, <1>5 DEF TransitionInv, Pending

\* No call moves and none has its transaction.
LEMMA UnlockedStep ==
    ASSUME TransitionInv, Onward, faults' \in 0..MaxFaults, Unlocked, UNCHANGED calls,
           core' \in {"checking", "preparing", "restoring", "releasing", "done"}, installed' \in 0..2,
           known' \subseteq Replies, row' \in Row, Fresh' => Fresh,
           ServeInv', RowInv', CoreInv'
    PROVE  TransitionInv'
<1>1. UNCHANGED <<pc, tx, loc>> BY DEF calls
<1>2. /\ pc' \in [Callers -> Labels] /\ loc' \in [Callers -> Call] /\ tx' \in [Callers -> BOOLEAN]
      /\ \A c \in Callers : ~tx'[c] /\ UNCHANGED <<pc[c], loc[c]>>
  BY <1>1 DEF TransitionInv, CallTypes, Types, Unlocked
<1> QED BY <1>2, OnwardStep

--------------------------------------------------------------------------------
LEMMA TurnStep ==
    ASSUME TransitionInv, NEW c \in Callers, NEW mode \in Modes, Turn(c, mode)
    PROVE  TransitionInv'
<1>0. /\ UNCHANGED <<core, installed, registered, row, objs, observed, pods, born, broken, calls, late, faults, app>>
      /\ known' \in {known, known \cup {"conflict"}} /\ Unlocked
  BY DEF Turn, Refused, Admitted, workload
<1>1. (Exposed' <=> Exposed) /\ (Fresh' <=> Fresh) /\ Published' = Published BY <1>0 DEF Exposed, Fresh, Published
<1>2. Onward BY <1>0, <1>1 DEF Onward
<1>3. Types' /\ ServeInv' /\ RowInv' BY <1>0, <1>1, SameFacts
      DEF TransitionInv, Types, Replies, ServeInv, RowInv, calls
<1>4. CoreInv' BY <1>0, <1>1 DEF TransitionInv, CoreInv
<1> QED BY <1>0, <1>1, <1>2, <1>3, <1>4, UnlockedStep DEF Types

\* The row is still to be made, or the transition is turned down before anything is captured.
LEMMA EarlyRowStep ==
    ASSUME TransitionInv, NEW phase \in {"checking", "rejected_preflight"}, row.phase \in Early,
           row' = [row EXCEPT !.phase = phase], Unlocked, core # "done",
           UNCHANGED <<core, installed, registered, objs, observed, pods, born, broken, calls, late, faults, app>>,
           \/ row.phase = "none" /\ known' = known
           \/ core = "checking" /\ phase = "rejected_preflight" /\ known' \in {known, known \cup {"rejected"}}
    PROVE  TransitionInv'
<1>0. Types /\ ServeInv /\ RowInv /\ CoreInv BY DEF TransitionInv
<1>1. /\ row \in Row /\ row' \in Row /\ row'.phase = phase /\ row'.cp = row.cp /\ ~row.cp
      /\ phase \in Early /\ known' \subseteq Replies
  BY <1>0 DEF Types, Row, RowInv, Phases, Early, Replies
<1>2. /\ ~Exposed' /\ ~Exposed /\ Fresh /\ Published' = Published
      /\ row.phase \notin Unsealing /\ phase \notin Unsealing /\ phase \notin ReleasePhases /\ phase \notin Released
      /\ row.phase \notin ReleasePhases /\ row.phase \notin Released
  BY <1>1, PhaseKinds DEF Exposed, Fresh, Published
<1>3. Onward BY <1>1, <1>2 DEF Onward
<1>4. ServeInv' BY <1>0, <1>2, SameFacts DEF ServeInv
<1>5. RowInv' BY <1>0, <1>1, <1>2 DEF RowInv
<1>6. CoreInv' BY <1>0, <1>1, <1>2 DEF CoreInv, Rejections
<1> QED BY <1>0, <1>1, <1>2, <1>3, <1>4, <1>5, <1>6, UnlockedStep DEF Types

LEMMA CreateRowStep ==
    ASSUME TransitionInv, NEW c \in Callers, CreateRow(c), UNCHANGED app
    PROVE  TransitionInv'
<1>1. /\ UNCHANGED <<core, installed, known, registered, objs, observed, pods, born, broken, calls, late, faults>>
      /\ Unlocked /\ row.phase = "none" /\ row' = [row EXCEPT !.phase = "checking"] /\ core # "done"
  BY DEF CreateRow, Bound, authority, workload
<1> QED BY <1>1, EarlyRowStep DEF Early

LEMMA RejectStep ==
    ASSUME TransitionInv, NEW c \in Callers, rejectManagementTemplate(c), UNCHANGED app
    PROVE  TransitionInv'
<1>1. /\ UNCHANGED <<core, installed, registered, objs, observed, pods, born, broken, calls, late, faults>>
      /\ Unlocked /\ row.phase \in Early /\ core = "checking"
      /\ row' = [row EXCEPT !.phase = "rejected_preflight"]
      /\ known' \in {known, known \cup {"rejected"}}
  BY DEF rejectManagementTemplate, Tell, Reply, workload, Early
<1> QED BY <1>1, EarlyRowStep

\* What the phase that a call commits means for Core.
LEMMA CommitCore ==
    ASSUME TransitionInv, NEW call \in Call, call.mode \in Modes, Outcome(call), Bound(call.mode),
           row.cp => call.cp, ~Releasing(call.mode) => row.phase \notin ReleasePhases,
           row' = [phase |-> call.next, cp |-> call.cp],
           known' \in {known, known \cup {Reply(call.mode, call.next)}}, UNCHANGED <<core, installed>>
    PROVE  CoreInv'
<1>0. CoreInv /\ Published' = Published /\ row'.phase = call.next /\ row'.cp = call.cp
  BY DEF TransitionInv, Published
<1>1. call.next \in ReleasePhases => core = "releasing" BY DEF Outcome, Bound
<1>2. row.phase \in ReleasePhases => call.next \in ReleasePhases BY DEF Outcome
<1>3. Exposed /\ call.next \notin ReleasePhases => Exposed' BY <1>0 DEF Outcome, Exposed
<1>4. core \in {"checking", "preparing"} =>
        /\ installed = 0 /\ call.next \notin ReleasePhases
        /\ "rejected" \in known' => call.next \in Rejections
        /\ "prepared" \in known' => Exposed'
  <2> SUFFICES ASSUME core \in {"checking", "preparing"}
               PROVE  /\ installed = 0 /\ call.next \notin ReleasePhases
                      /\ "rejected" \in known' => call.next \in Rejections
                      /\ "prepared" \in known' => Exposed'
    OBVIOUS
  <2>1. call.mode = "prepare" /\ installed = 0 /\ call.next \notin ReleasePhases
    BY <1>0, <1>1, BoundFacts DEF CoreInv
  <2>2. Reply(call.mode, call.next) = "rejected" => call.next \in Rejections
    BY <2>1 DEF Reply, Rejections
  <2>3. Reply(call.mode, call.next) = "prepared" => Exposed'
    <3>1. Reply(call.mode, call.next) = "prepared" => call.next = "prepared" BY <2>1 DEF Reply
    <3>2. call.next = "prepared" => call.cp BY CallFacts DEF Outcome
    <3> QED BY <1>0, <3>1, <3>2 DEF Exposed, Applying
  <2>4. "rejected" \in known => call.next \in Rejections BY <1>0, <2>1 DEF CoreInv, Outcome, Rejections
  <2>5. "prepared" \in known => Exposed' BY <1>0, <1>3, <2>1 DEF CoreInv
  <2> QED BY <2>1, <2>2, <2>3, <2>4, <2>5
<1>5. core = "restoring" => call.next \notin ReleasePhases BY <1>1
<1>6. core = "releasing" /\ "released" \in known' => call.next \in Released
  <2>1. Reply(call.mode, call.next) = "released" => call.next \in Released BY DEF Reply, Released
  <2>2. core = "releasing" /\ "released" \in known => call.next \in Released BY <1>0 DEF CoreInv, Outcome
  <2> QED BY <2>1, <2>2
<1>7. core # "done" BY DEF Bound
<1>8. call.next \in ReleasePhases => SideOf(call.next) = Published BY DEF Outcome
<1>9. installed = 1 /\ call.next \notin ReleasePhases => Exposed' BY <1>0, <1>2, <1>3 DEF CoreInv
<1> QED BY <1>0, <1>4, <1>5, <1>6, <1>7, <1>8, <1>9 DEF CoreInv

LEMMA CommitRow ==
    ASSUME TransitionInv, NEW call \in Call, Outcome(call), row.cp => call.cp,
           row' = [phase |-> call.next, cp |-> call.cp], UNCHANGED <<objs, pods, app>>
    PROVE  RowInv' /\ (Fresh' => Fresh)
<1>0. /\ RowInv /\ row'.phase = call.next /\ row'.cp = call.cp /\ row.cp \in BOOLEAN /\ call.cp \in BOOLEAN
      /\ call.next \notin Early /\ \A side : AllOf(side)' <=> AllOf(side)
  BY SameFacts, CallFacts DEF TransitionInv, Types, Row, Outcome, Early
<1>1. ~call.cp => app = "open" /\ call.next \in {"restored", "releasing_source", "released_source"}
  BY <1>0 DEF RowInv, Outcome
<1>2. call.next = "sealing" => app # "released" BY <1>0 DEF RowInv, Outcome, Early
<1>3. Exposed' => app = "sealed" BY <1>0 DEF Exposed, Outcome
<1>4. RowInv' BY <1>0, <1>1, <1>2, <1>3 DEF RowInv, Outcome
<1>5. Fresh' => Fresh BY <1>0 DEF Fresh, Outcome, Early
<1> QED BY <1>4, <1>5

LEMMA CommitOnward ==
    ASSUME TransitionInv, NEW call \in Call, Outcome(call), Bound(call.mode), row.cp => call.cp,
           ~Releasing(call.mode) => row.phase \notin ReleasePhases,
           row' = [phase |-> call.next, cp |-> call.cp],
           UNCHANGED <<core, registered, objs, observed, pods, born, broken, app, late>>
    PROVE  Onward
<1>0. row'.phase = call.next /\ row'.cp = call.cp OBVIOUS
<1>1. call.next \in ReleasePhases => core = "releasing" /\ SideOf(call.next) = Published BY DEF Outcome, Bound
<1>2. row.phase \in Unsealing => call.next \in Unsealing /\ SideOf(call.next) = SideOf(row.phase)
  <2>1. row.phase \in ReleasePhases => call.next \in ReleasePhases BY DEF Outcome
  <2>2. row.phase \in Canceling => call.next \in Unsealing BY DEF Outcome
  <2>3. call.next \in Canceling => row.phase \notin ReleasePhases /\ SideOf(call.next) = "source"
    BY <2>1, PhaseKinds
  <2> QED BY <1>1, <2>1, <2>2, <2>3, PhaseKinds, UnsealingPublished DEF Unsealing
<1>3. Exposed => Exposed' \/ core = "releasing" BY <1>0, <1>1 DEF Exposed, Outcome
<1>4. Exposed /\ row.phase \in Restoring => call.next \in Restoring \/ core = "releasing" BY <1>1 DEF Outcome
<1> QED BY <1>0, <1>1, <1>2, <1>3, <1>4 DEF Onward

LEMMA CommitStep ==
    ASSUME TransitionInv, NEW c \in Callers, Commit(c), UNCHANGED app
    PROVE  TransitionInv'
<1>0. /\ UNCHANGED <<core, installed, registered, objs, observed, pods, born, broken, late, faults, app>>
      /\ pc[c] = "commit" /\ End(c) /\ Types /\ CallTypes
  BY DEF Commit, workload, TransitionInv
<1>1. CASE ~tx[c]
  <2>1. UNCHANGED <<row, known>> BY <1>1 DEF Commit
  <2>2. World BY <1>0, <2>1, SameWorld DEF Types
  <2> QED BY <1>0, <2>2, CallerStep DEF Sound
<1>2. CASE tx[c]
  <2>0. PICK call \in Call : call = loc[c] BY CallOf
  <2>1. /\ row' = [phase |-> call.next, cp |-> call.cp]
        /\ known' \in {known, known \cup {Reply(call.mode, call.next)}}
    BY <1>2, <2>0 DEF Commit, Tell
  <2>2. /\ Outcome(call) /\ Bound(call.mode) /\ call.mode \in Modes /\ (row.cp => call.cp)
        /\ ~Releasing(call.mode) => row.phase \notin ReleasePhases
    BY <1>0, <1>2, <2>0, CallOf DEF CallInv, JobInv
  <2>3. row' \in Row BY <2>1, CallFacts DEF Row
  <2>4. Onward BY <1>0, <2>1, <2>2, CommitOnward
  <2>5. RowInv' /\ (Fresh' => Fresh) BY <1>0, <2>1, <2>2, CommitRow
  <2>6. CoreInv' BY <1>0, <2>1, <2>2, CommitCore
  <2>7. /\ pc' = [pc EXCEPT ![c] = "idle"] /\ tx' = [tx EXCEPT ![c] = FALSE] /\ loc' = [loc EXCEPT ![c] = NoCall]
    BY <1>0 DEF End
  <2>8. /\ pc' \in [Callers -> Labels] /\ loc' \in [Callers -> Call] /\ tx' \in [Callers -> BOOLEAN]
    BY <1>0, <2>7, NoCallType DEF Types, CallTypes, Labels
  <2>9. /\ pc'[c] = "idle" /\ loc'[c] = NoCall /\ ~tx'[c]
        /\ \A d \in Callers : d # c => UNCHANGED <<pc[d], loc[d], tx[d]>>
    BY <1>0, <2>7 DEF Types, CallTypes
  <2>10. \A d \in Callers : ~tx'[d] BY <1>2, <2>9 DEF TransitionInv, LockInv
  <2>11. known' \subseteq Replies BY <1>0, <2>1 DEF Types, Replies, Reply
  <2>12. ServeInv'
    <3>1. Published' = Published /\ (Steady(Published)' <=> Steady(Published)) BY <1>0, SameFacts DEF Published, Steady
    <3> QED BY <1>0, <3>1 DEF TransitionInv, ServeInv
  <2>13. /\ faults' \in 0..MaxFaults /\ installed' \in 0..2
         /\ core' \in {"checking", "preparing", "restoring", "releasing", "done"}
    BY <1>0 DEF Types
  <2> QED BY <2>3, <2>4, <2>5, <2>6, <2>8, <2>9, <2>10, <2>11, <2>12, <2>13, OnwardStep
<1> QED BY <1>1, <1>2

--------------------------------------------------------------------------------
\* A call that has ended says nothing of the row, of the App or of Core.
LEMMA IdleKept ==
    ASSUME NEW call, CallInv(call, "idle", FALSE), UNCHANGED objs
    PROVE  CallInv(call, "idle", FALSE)'
<1>1. call.job = "none" /\ call.ask = "none" /\ JobInv(call, "idle") BY DEF CallInv
<1>2. JobInv(call, "idle")' BY <1>1 DEF JobInv
<1> QED BY <1>1, <1>2 DEF CallInv, Place

\* Core moves on: in general when no call has its transaction, into a release only when
\* every call has ended and everything it has sent is settled.
LEMMA CoreMoves ==
    ASSUME TransitionInv, NEW phase, NEW revision, CoreStep(phase, revision), UNCHANGED app, Unlocked,
           phase \in {"checking", "preparing", "restoring", "releasing", "done"}, revision \in 0..2,
           faults' \in 0..MaxFaults, timely', ServeInv', CoreInv'
    PROVE  TransitionInv'
<1>0. /\ UNCHANGED <<registered, row, objs, observed, pods, born, broken, calls, late>>
      /\ core' = phase /\ installed' = revision /\ known' = {} /\ Types
  BY DEF CoreStep, workload, TransitionInv
<1>1. (Exposed' <=> Exposed) /\ (Fresh' <=> Fresh) /\ \A side : AllOf(side)' <=> AllOf(side)
  BY <1>0, SameFacts DEF Exposed, Fresh
<1>2. RowInv' BY <1>0, <1>1 DEF TransitionInv, RowInv
<1>3. row' \in Row /\ {} \subseteq Replies BY <1>0 DEF Types
<1>4. CASE phase # "releasing"
  <2>1. Onward BY <1>0, <1>1, <1>4 DEF Onward
  <2> QED BY <1>0, <1>1, <1>2, <1>3, <2>1, UnlockedStep
<1>5. CASE phase = "releasing"
  <2>0. late = {} /\ (\A c \in Callers : pc[c] = "idle") /\ UNCHANGED <<pc, tx, loc>>
    BY <1>0, <1>5 DEF CoreStep, Settled, calls
  <2>1. Types' /\ CallTypes' BY <1>0, <2>0 DEF TransitionInv, Types, CallTypes
  <2>2. LockInv' BY <2>0 DEF TransitionInv, LockInv
  <2>3. FreshInv' BY <1>0, <1>1, <2>0 DEF TransitionInv, FreshInv
  <2>4. ASSUME NEW c \in Callers PROVE CallInv(loc[c], pc[c], tx[c])'
    <3>1. PICK call \in Call : call = loc[c] BY CallOf
    <3>2. CallInv(call, "idle", FALSE) BY <2>0, <3>1, CallOf DEF CallInv
    <3>3. CallInv(call, "idle", FALSE)' BY <1>0, <3>2, IdleKept
    <3>4. pc'[c] = "idle" /\ loc'[c] = call /\ tx'[c] = FALSE
      BY <1>0, <2>0, <3>1 DEF Unlocked, Types
    <3> QED BY <3>3, <3>4
  <2>5. late' = {} BY <1>0, <2>0
  <2> QED BY <1>2, <2>1, <2>2, <2>3, <2>4, <2>5 DEF TransitionInv
<1> QED BY <1>4, <1>5

LEMMA CoreActsStep ==
    ASSUME TransitionInv, Core, UNCHANGED app, timely'
    PROVE  TransitionInv'
<1>0. /\ Types /\ CoreInv /\ ServeInv /\ installed \in 0..2 /\ faults \in 0..MaxFaults
      /\ Exposed => app = "sealed"
  BY DEF TransitionInv, Types, RowInv
\* A step that leaves what is published alone.
<1>1. ASSUME NEW phase \in {"preparing", "restoring", "done"}, CoreStep(phase, installed), Unlocked,
             faults' \in 0..MaxFaults, phase = "preparing" => core = "checking",
             phase = "done" => row.phase \in Released \/ (row.phase \in Rejections /\ installed = 0)
      PROVE  TransitionInv'
  <2>0. UNCHANGED <<row, objs, pods>> /\ core' = phase /\ installed' = installed /\ known' = {}
    BY <1>1 DEF CoreStep, workload
  <2>1. Published' = Published /\ (Exposed' <=> Exposed) /\ (Steady(Published)' <=> Steady(Published))
    BY <2>0 DEF Published, Exposed, Steady
  <2>2. ServeInv' BY <1>0, <2>0, <2>1 DEF ServeInv
  <2>3. CoreInv' BY <1>0, <1>1, <2>0, <2>1 DEF CoreInv
  <2> QED BY <1>0, <1>1, <2>2, <2>3, CoreMoves
<1>2. CASE Advance BY <1>0, <1>1, <1>2 DEF Advance
<1>3. CASE Publish
  <2>0. /\ UNCHANGED <<row, objs, pods>> /\ core' = "releasing" /\ installed' = 1 /\ known' = {}
        /\ Unlocked /\ CoreStep("releasing", 1) /\ faults' = faults
    BY <1>3 DEF Publish, CoreStep, workload
  <2>1. Exposed /\ row.phase \notin ReleasePhases BY <1>0, <1>3 DEF Publish, CoreInv
  <2>2. Exposed' BY <2>0, <2>1 DEF Exposed
  <2>3. ServeInv' BY <1>0, <2>0, <2>1 DEF ServeInv
  <2>4. CoreInv' BY <2>0, <2>1, <2>2 DEF CoreInv
  <2> QED BY <1>0, <2>0, <2>3, <2>4, CoreMoves
<1>4. CASE Recover
  <2>1. CoreStep("restoring", installed) /\ Unlocked BY <1>4 DEF Recover
  <2>2. faults' \in 0..MaxFaults BY <1>0, <1>4, MoreFaults DEF Recover
  <2> QED BY <1>1, <2>1, <2>2
<1>5. CASE Compensate
  <2>0. PICK revision : revision = IF installed = 1 THEN 2 ELSE installed OBVIOUS
  <2>1. /\ UNCHANGED <<row, objs, pods>> /\ core' = "releasing" /\ installed' = revision /\ known' = {}
        /\ Unlocked /\ CoreStep("releasing", revision) /\ faults' = faults
    BY <1>5, <2>0 DEF Compensate, CoreStep, workload
  <2>2. row.phase \notin ReleasePhases /\ (installed = 1 => Exposed) BY <1>0, <1>5 DEF Compensate, CoreInv
  <2>3. revision \in 0..2 /\ revision # 1 /\ (installed # 1 => Published' = Published)
    BY <1>0, <2>0, <2>1 DEF Published
  <2>4. \A side : Steady(side)' <=> Steady(side) BY <2>1, SameFacts
  <2>5. ServeInv'
    <3>1. CASE installed = 1 BY <1>0, <2>1, <2>2, <3>1 DEF ServeInv
    <3>2. CASE installed # 1
      <4>1. app' # "sealed" => Steady(Published) BY <1>0 DEF ServeInv
      <4>2. Steady(Published)' <=> Steady(Published) BY <2>1, <2>3, <3>2 DEF Steady
      <4> QED BY <1>0, <2>1, <4>1, <4>2 DEF ServeInv
    <3> QED BY <3>1, <3>2
  <2>6. CoreInv' BY <2>1, <2>2, <2>3 DEF CoreInv
  <2> QED BY <1>0, <2>1, <2>3, <2>5, <2>6, CoreMoves
<1>6. CASE Rollback
  <2>1. CoreStep("restoring", installed) /\ Unlocked BY <1>6 DEF Rollback
  <2>2. faults' \in 0..MaxFaults BY <1>0, <1>6, MoreFaults DEF Rollback
  <2> QED BY <1>1, <2>1, <2>2
<1>7. CASE Finish
  <2>1. CoreStep("done", installed) /\ Unlocked /\ faults' = faults BY <1>7 DEF Finish
  <2>2. row.phase \in Released \/ (row.phase \in Rejections /\ installed = 0) BY <1>0, <1>7 DEF Finish, CoreInv
  <2> QED BY <1>0, <1>1, <2>1, <2>2
<1> QED BY <1>2, <1>3, <1>4, <1>5, <1>6, <1>7 DEF Core

LEMMA RedeployStep ==
    ASSUME TransitionInv, Redeploy, UNCHANGED app
    PROVE  TransitionInv'
<1>0. /\ UNCHANGED <<core, installed, known, row, objs, observed, pods, born, broken, pc, tx, loc, late>>
      /\ registered' \in BOOLEAN /\ faults' \in 0..MaxFaults
  BY MoreFaults DEF Redeploy, workload, calls
<1>1. Types' /\ CallTypes' /\ LockInv' BY <1>0 DEF TransitionInv, Types, CallTypes, LockInv
<1>2. /\ (Exposed' <=> Exposed) /\ (Fresh' <=> Fresh) /\ Published' = Published
      /\ \A side : (AllOf(side)' <=> AllOf(side)) /\ (Steady(side)' <=> Steady(side))
      /\ Steady(Published)' <=> Steady(Published)
  BY <1>0, SameFacts DEF Exposed, Fresh, Published, Steady
<1>3. ServeInv' /\ RowInv' /\ CoreInv' /\ FreshInv'
  BY <1>0, <1>2 DEF TransitionInv, ServeInv, RowInv, CoreInv, FreshInv
<1>4. Keeps BY <1>0 DEF Keeps, Steady
<1>5. /\ objs \in [Objects -> Object] /\ objs' \in [Objects -> Object] /\ app' \in {"open", "sealed", "released"}
  BY <1>0 DEF TransitionInv, Types
<1>6. ASSUME NEW c \in Callers PROVE CallInv(loc[c], pc[c], tx[c])'
  <2>1. PICK call \in Call, at \in Labels, locked \in BOOLEAN : call = loc[c] /\ at = pc[c] /\ locked = tx[c] BY CallOf
  <2>2. CallInv(call, at, locked) BY <2>1, CallOf
  <2>3. CallInv(call, at, locked)' BY <1>0, <1>4, <1>5, <2>2, CallKept
  <2> QED BY <1>0, <2>1, <2>3
<1>7. ASSUME NEW r \in late' PROVE Pending(r)'
  <2>1. Sent(r) BY <1>0, <1>7 DEF TransitionInv, CallTypes, Sent, Pending
  <2> QED BY <1>0, <1>4, <1>5, <2>1, PendingKept
<1> QED BY <1>1, <1>2, <1>3, <1>6, <1>7 DEF TransitionInv, Pending

--------------------------------------------------------------------------------
(* The invariant                                                            *)

LEMMA TransitionInit == Init => TransitionInv
<1> SUFFICES ASSUME Init PROVE TransitionInv OBVIOUS
<1>0. JournalInit /\ app = "open" BY DEF Init
<1>1. Types
  <2>1. [uid |-> 1, ver |-> "source", state |-> "ready"] \in Pod BY Numbers DEF Pod, Versions
  <2>2. row \in Row BY <1>0 DEF JournalInit, Row, Phases
  <2>3. objs \in [Objects -> Object] BY <1>0, NoCallType DEF JournalInit
  <2>4. broken \in BOOLEAN
    <3>1. broken = ("broken" \in Faults) \/ broken = FALSE BY <1>0 DEF JournalInit
    <3>2. ("broken" \in Faults) \in BOOLEAN OBVIOUS
    <3> QED BY <3>1, <3>2
  <2>5. born \in 1..MaxPods /\ faults \in 0..MaxFaults /\ installed \in 0..2 BY <1>0, Numbers DEF JournalInit
  <2> QED BY <1>0, <2>1, <2>2, <2>3, <2>4, <2>5 DEF Types, JournalInit
<1>2. CallTypes BY <1>0, NoCallType DEF JournalInit, CallTypes, Labels
<1>3. \A n \in Objects : objs[n] = Original BY <1>0 DEF JournalInit
<1>4. /\ Original.ver = "source" /\ Original.rv = 0
      /\ \A p \in pods : p.ver = "source"
      /\ Published = "source" /\ row.phase = "none" /\ ~row.cp
  BY <1>0 DEF JournalInit, Original, Published
<1>5. AllOf("source") BY <1>3, <1>4 DEF AllOf, Of
<1>6. ServeInv BY <1>3, <1>4, <1>5, Sets DEF ServeInv, Steady, AllOf
<1>7. RowInv BY <1>0, <1>4 DEF RowInv, Early, Released, Exposed
<1>8. CoreInv BY <1>0, <1>4 DEF JournalInit, CoreInv, ReleasePhases
<1>9. FreshInv
  <2>1. NoCall.job \in Tame BY DEF NoCall, Tame
  <2> QED BY <1>0, <1>5, <2>1 DEF JournalInit, FreshInv
<1>10. LockInv BY <1>0 DEF JournalInit, LockInv
<1>11. CallInv(NoCall, "idle", FALSE)
  <2>1. NoCall.job = "none" /\ NoCall.ask = "none" /\ ~NoCall.busy /\ NoCall.dep = Original BY DEF NoCall
  <2>2. objs[Deployment] = Original BY <1>3, Sets
  <2>3. JobInv(NoCall, "idle") BY <1>4, <2>1, <2>2 DEF JobInv
  <2> QED BY <2>1, <2>3 DEF CallInv, Place
<1>12. \A c \in Callers : CallInv(loc[c], pc[c], tx[c]) BY <1>0, <1>11 DEF JournalInit
<1>13. late = {} BY <1>0 DEF JournalInit
<1> QED BY <1>1, <1>2, <1>6, <1>7, <1>8, <1>9, <1>10, <1>12, <1>13 DEF TransitionInv

LEMMA TransitionNext == TransitionInv /\ [Next]_vars /\ timely' => TransitionInv'
<1> SUFFICES ASSUME TransitionInv, [Next]_vars, timely' PROVE TransitionInv' OBVIOUS
<1>1. CASE UNCHANGED vars
  <2>1. /\ UNCHANGED <<core, installed, known, registered, row, objs, observed, pods, born, broken, app>>
        /\ UNCHANGED calls /\ late' \subseteq late /\ faults' \in 0..MaxFaults
    BY <1>1 DEF vars, journalVars, authority, workload, TransitionInv, Types
  <2> QED BY <2>1, SameWorld, WorldStep
<1>2. CASE Shared /\ UNCHANGED app
  <2>1. ASSUME NEW c \in Callers, CreateRow(c) PROVE TransitionInv' BY <1>2, <2>1, CreateRowStep
  <2>2. ASSUME NEW c \in Callers, rejectManagementTemplate(c) PROVE TransitionInv' BY <1>2, <2>2, RejectStep
  <2>3. ASSUME NEW c \in Callers, Commit(c) PROVE TransitionInv' BY <1>2, <2>3, CommitStep
  <2>4. ASSUME NEW c \in Callers, Update(c) PROVE TransitionInv' BY <1>2, <2>4, UpdateStep
  <2>5. CASE Core BY <1>2, <2>5, CoreActsStep
  <2>6. CASE Cluster BY <1>2, <2>6, ClusterStep
  <2>7. ASSUME NEW c \in Callers, Interrupt(c) PROVE TransitionInv' BY <1>2, <2>7, InterruptStep
  <2>8. ASSUME NEW c \in Callers, SessionLoss(c) PROVE TransitionInv' BY <1>2, <2>8, SessionLossStep
  <2>9. CASE Crash BY <1>2, <2>9, CrashStep
  <2>10. CASE Redeploy BY <1>2, <2>10, RedeployStep
  <2>11. ASSUME NEW r \in late, Land(r) PROVE TransitionInv' BY <1>2, <2>11, LandStep
  <2>12. ASSUME NEW r \in late, Lose(r) PROVE TransitionInv' BY <1>2, <2>12, LoseStep
  <2> QED BY <1>2, <2>1, <2>2, <2>3, <2>4, <2>5, <2>6, <2>7, <2>8, <2>9, <2>10, <2>11, <2>12 DEF Shared, Failures
<1>3. ASSUME NEW c \in Callers, NEW mode \in Modes, Begin(c, mode) PROVE TransitionInv' BY <1>3, BeginStep
<1>4. ASSUME NEW c \in Callers, NEW mode \in Modes, Turn(c, mode) PROVE TransitionInv' BY <1>4, TurnStep
<1>5. ASSUME NEW c \in Callers, Proceed(c) PROVE TransitionInv'
  <2>1. CASE Commit(c) /\ UNCHANGED app BY <2>1, CommitStep
  <2>2. CASE Update(c) /\ UNCHANGED app BY <2>2, UpdateStep
  <2> QED BY <1>5, <2>1, <2>2, ReadStep, AskStep DEF Proceed
<1>6. ASSUME NEW r \in late, LandAsk(r) PROVE TransitionInv' BY <1>6, LandAskStep
<1> QED BY <1>1, <1>2, <1>3, <1>4, <1>5, <1>6 DEF Next

\* No step gives the history variable back.
LEMMA OnceLate == [Next]_vars => (timely' => timely)
<1> SUFFICES ASSUME [Next]_vars, timely' PROVE timely OBVIOUS
<1>1. CASE UNCHANGED authority BY <1>1 DEF authority
<1>2. CASE Core BY <1>2 DEF Core, Advance, Publish, Recover, Compensate, Rollback, Finish, CoreStep
<1>3. ASSUME NEW c \in Callers, CreateRow(c) \/ rejectManagementTemplate(c) \/ Commit(c) PROVE timely
  BY <1>3 DEF CreateRow, rejectManagementTemplate, Commit, authority
<1>4. CASE Redeploy BY <1>4 DEF Redeploy
<1>5. CASE Shared
  BY <1>1, <1>2, <1>3, <1>4, <1>5 DEF Shared, Update, Cluster, Failures, Interrupt, SessionLoss, Crash, Land, Lose
<1>6. ASSUME NEW c \in Callers, NEW mode \in Modes, Begin(c, mode) \/ Turn(c, mode) PROVE timely
  BY <1>1, <1>6 DEF Begin, Turn, Enter, Refused
<1>7. ASSUME NEW c \in Callers, Proceed(c) PROVE timely
  BY <1>1, <1>3, <1>7 DEF Proceed, Update, ReadDeployment, ReadService, ReadPods, Ask, AskFails, Quiet
<1>8. ASSUME NEW r \in late, LandAsk(r) PROVE timely BY <1>1, <1>8 DEF LandAsk
<1>9. CASE UNCHANGED vars BY <1>1, <1>9 DEF vars, journalVars
<1> QED BY <1>5, <1>6, <1>7, <1>8, <1>9 DEF Next

\* As long as Core has begun no release before what was abandoned had settled, every state of
\* a transition of a running App is as TransitionInv says: what each call under way, each
\* request of an abandoned call and the row may still do to the workload and to the App's
\* seal (reconcile, advanceManagement and every function under it).
THEOREM TransitionInvariant == Spec => [](timely => TransitionInv)
<1>1. Init => (timely => TransitionInv) BY TransitionInit
<1>2. (timely => TransitionInv) /\ [Next]_vars => (timely => TransitionInv)' BY TransitionNext, OnceLate
<1> QED BY <1>1, <1>2, PTL DEF Spec

\* When Core has closed the transition, every object is the published version's or was edited
\* by others, and the App admits work again; a transition rejected in its preflight has
\* changed nothing; both as long as Core has begun no release before what was abandoned had
\* settled (advanceManagementRelease and the early returns of advanceManagement;
\* ManagementTransition!FinishedConsistent).
THEOREM ClosedIsConsistent == Spec => []FinishedConsistent
<1>1. ASSUME timely => TransitionInv PROVE FinishedConsistent
  <2> SUFFICES ASSUME TransitionInv PROVE FinishedConsistent BY <1>1 DEF FinishedConsistent
  <2>0. /\ RowInv /\ CoreInv /\ FreshInv /\ row.cp \in BOOLEAN BY DEF TransitionInv, Types, Row
  <2>1. ASSUME row.phase \in Released PROVE app # "sealed" /\ AllOf(Published)
    <3>1. row.phase \in ReleasePhases BY <2>1, PhaseKinds
    <3>2. SideOf(row.phase) = Published BY <2>0, <3>1 DEF CoreInv
    <3> QED BY <2>0, <2>1, <3>2 DEF RowInv
  <2>2. ASSUME row.phase \in Rejections PROVE app # "sealed" /\ AllOf("source")
    <3>1. Fresh BY <2>2 DEF Rejections, Fresh, Early, Canceling
    <3>2. row.phase = "rejected_preflight" => app = "open" BY <2>0 DEF RowInv, Early
    <3> QED BY <2>0, <2>2, <3>1, <3>2 DEF FreshInv, RowInv, Rejections
  <2>3. ASSUME core = "done" PROVE app # "sealed" /\ AllOf(Published)
    <3>1. row.phase \in Released \/ (row.phase \in Rejections /\ installed = 0) BY <2>0, <2>3 DEF CoreInv
    <3> QED BY <2>1, <2>2, <3>1 DEF Published
  <2>4. ASSUME row.phase = "rejected_preflight" PROVE app = "open" /\ AllOf("source")
    BY <2>0, <2>2, <2>4 DEF Rejections, RowInv, Early
  <2> QED BY <2>3, <2>4 DEF FinishedConsistent, AllOf, Of
<1> QED BY <1>1, TransitionInvariant, PTL

--------------------------------------------------------------------------------
(* Types, whether or not Core waits                                         *)

\* A call where it can be.
Within(call, at) == call \in Call /\ at \in Labels /\ (at = "svc" => call.n \in Services)
TypeInv == TypeOK /\ CallTypes /\ \A c \in Callers : Within(loc[c], pc[c])
Moves(c) == End(c) \/ \E at, call : Goto(c, at, call) /\ Within(call, at)

LEMMA TypeParts == TypeOK <=> Types /\ timely \in BOOLEAN
  BY DEF TypeOK, Types

LEMMA CallIn == ASSUME TypeInv, NEW c \in Callers PROVE loc[c] \in Call /\ Within(loc[c], pc[c])
  BY DEF TypeInv, CallTypes

\* One caller moves.
LEMMA MovesTyped ==
    ASSUME TypeInv, NEW c \in Callers, Moves(c)
    PROVE  /\ pc' \in [Callers -> Labels] /\ loc' \in [Callers -> Call] /\ tx' \in [Callers -> BOOLEAN]
           /\ \A d \in Callers : Within(loc[d], pc[d])'
<1>0. /\ pc \in [Callers -> Labels] /\ loc \in [Callers -> Call] /\ tx \in [Callers -> BOOLEAN]
      /\ \A d \in Callers : Within(loc[d], pc[d])
  BY TypeParts DEF TypeInv, Types, CallTypes
<1>1. CASE End(c)
  <2>1. "idle" \in Labels /\ NoCall \in Call /\ Within(NoCall, "idle") BY NoCallType DEF Labels, Within
  <2>2. /\ pc' = [pc EXCEPT ![c] = "idle"] /\ tx' = [tx EXCEPT ![c] = FALSE] /\ loc' = [loc EXCEPT ![c] = NoCall]
    BY <1>1 DEF End
  <2>3. pc' \in [Callers -> Labels] /\ loc' \in [Callers -> Call] /\ tx' \in [Callers -> BOOLEAN] BY <1>0, <2>1, <2>2
  <2>4. \A d \in Callers : (loc'[d] = NoCall /\ pc'[d] = "idle") \/ (loc'[d] = loc[d] /\ pc'[d] = pc[d])
    BY <1>0, <2>2
  <2> QED BY <1>0, <2>1, <2>3, <2>4 DEF Within
<1>2. ASSUME NEW at, NEW call, Goto(c, at, call), Within(call, at)
      PROVE  /\ pc' \in [Callers -> Labels] /\ loc' \in [Callers -> Call] /\ tx' \in [Callers -> BOOLEAN]
             /\ \A d \in Callers : Within(loc[d], pc[d])'
  <2>1. call \in Call /\ at \in Labels BY <1>2 DEF Within
  <2>2. pc' = [pc EXCEPT ![c] = at] /\ loc' = [loc EXCEPT ![c] = call] /\ UNCHANGED tx BY <1>2 DEF Goto
  <2>3. pc' \in [Callers -> Labels] /\ loc' \in [Callers -> Call] /\ tx' \in [Callers -> BOOLEAN] BY <1>0, <2>1, <2>2
  <2>4. \A d \in Callers : (loc'[d] = call /\ pc'[d] = at) \/ (loc'[d] = loc[d] /\ pc'[d] = pc[d])
    BY <1>0, <2>2
  <2> QED BY <1>0, <1>2, <2>3, <2>4 DEF Within
<1> QED BY <1>1, <1>2 DEF Moves

LEMMA TypedMove ==
    ASSUME NEW c, NEW at \in Labels, NEW call \in Call, Goto(c, at, call), at = "svc" => call.n \in Services
    PROVE  Moves(c)
  BY DEF Moves, Within

LEMMA TypedDecide == ASSUME TypeInv, NEW c \in Callers, NEW phase \in Phases, Decide(c, phase) PROVE Moves(c)
<1>1. [loc[c] EXCEPT !.next = phase] \in Call BY CallIn DEF Call
<1> QED BY <1>1, TypedMove DEF Decide, Labels

LEMMA TypedConflict == ASSUME TypeInv, NEW c \in Callers, Conflict(c) PROVE Moves(c)
<1>1. "recovery_required" \in Phases BY DEF Phases
<1> QED BY <1>1, TypedDecide DEF Conflict, Moves

LEMMA TypedAgain == ASSUME TypeInv, NEW c \in Callers, Again(c) PROVE Moves(c)
<1>1. loc[c].phase \in Phases BY CallIn DEF Call
<1> QED BY <1>1, TypedDecide DEF Again

LEMMA TypedChange ==
    ASSUME TypeInv, NEW c \in Callers, NEW n \in Objects, NEW seen \in Object, NEW to \in Object,
           Change(c, n, seen, to)
    PROVE  Moves(c)
<1>1. seen.rv + 1 \in Nat BY ObjectFacts
<1>2. [to EXCEPT !.rv = seen.rv + 1] \in Object BY <1>1 DEF Object
<1>3. [loc[c] EXCEPT !.n = n, !.to = [to EXCEPT !.rv = seen.rv + 1]] \in Call BY <1>2, CallIn DEF Call
<1> QED BY <1>3, TypedMove DEF Change, Labels

LEMMA TypedReadDeployment == ASSUME TypeInv, NEW c \in Callers, ReadDeployment(c) PROVE Moves(c)
<1>0. loc[c] \in Call /\ objs[Deployment] \in Object /\ Original \in Object /\ 1 \in Services /\ 1 \in Objects
      /\ Deployment \in Objects
  BY CallIn, TypeParts, NoCallType, Sets DEF TypeInv, Types
<1>1. PICK ready \in BOOLEAN : ready = managementReady BY DEF managementReady
<1>2. PICK read \in Call : read = [loc[c] EXCEPT !.n = 1, !.dep = objs[Deployment], !.ready = managementReady]
  BY <1>0, <1>1 DEF Call
<1>3. read.n = 1 BY <1>0, <1>2 DEF Call
<1>4. \/ Goto(c, "svc", read) \/ Conflict(c) \/ Again(c) \/ Change(c, Deployment, objs[Deployment], Original)
  BY <1>2 DEF ReadDeployment
<1>5. Goto(c, "svc", read) => Moves(c) BY <1>0, <1>3, TypedMove DEF Labels
<1> QED BY <1>0, <1>4, <1>5, TypedConflict, TypedAgain, TypedChange

LEMMA TypedAfterServices == ASSUME TypeInv, NEW c \in Callers, AfterServices(c) PROVE Moves(c)
<1>0. loc[c] \in Call /\ loc[c].dep \in Object /\ loc[c].next \in Phases /\ Deployment \in Objects
  BY CallIn, CallFacts, Sets
<1>1. /\ [Original EXCEPT !.ver = "target", !.op = TRUE] \in Object
      /\ [loc[c] EXCEPT !.cp = TRUE] \in Call /\ [loc[c] EXCEPT !.job = "before"] \in Call
  BY <1>0, NoCallType DEF Object, Versions, Call, Jobs, Tame
<1>2. \/ Goto(c, "commit", [loc[c] EXCEPT !.cp = TRUE]) \/ Decide(c, loc[c].next) \/ Again(c)
      \/ Change(c, Deployment, loc[c].dep, [Original EXCEPT !.ver = "target", !.op = TRUE])
      \/ Goto(c, "dep", [loc[c] EXCEPT !.job = "before"]) \/ Goto(c, "pods", loc[c])
  BY DEF AfterServices
<1>3. "commit" \in Labels /\ "dep" \in Labels /\ "pods" \in Labels BY DEF Labels
<1> QED BY <1>0, <1>1, <1>2, <1>3, TypedMove, TypedDecide, TypedAgain, TypedChange

LEMMA TypedReadService == ASSUME TypeInv, NEW c \in Callers, ReadService(c) PROVE Moves(c)
<1>0. loc[c] \in Call /\ pc[c] = "svc" /\ loc[c].n \in Services /\ loc[c].n \in Objects /\ objs[loc[c].n] \in Object
  BY CallIn, TypeParts, Sets DEF TypeInv, Types, ReadService, Within
<1>1. PICK s \in Object : s = objs[loc[c].n] BY <1>0
<1>2. [s EXCEPT !.ver = "target", !.op = TRUE] \in Object /\ [s EXCEPT !.ver = "source", !.op = FALSE] \in Object
  BY DEF Object, Versions
<1>3. \/ (loc[c].n < NumServices /\ Visit(c, loc[c].n + 1)) \/ AfterServices(c) \/ Conflict(c)
      \/ Change(c, loc[c].n, s, [s EXCEPT !.ver = "target", !.op = TRUE])
      \/ Change(c, loc[c].n, s, [s EXCEPT !.ver = "source", !.op = FALSE])
  BY <1>1 DEF ReadService
<1>4. ASSUME loc[c].n < NumServices, Visit(c, loc[c].n + 1) PROVE Moves(c)
  <2>1. loc[c].n + 1 \in Services /\ loc[c].n + 1 \in Objects BY <1>0, <1>4, TransitionAssumption DEF Services, Objects
  <2>2. PICK call \in Call : call = [loc[c] EXCEPT !.n = loc[c].n + 1] BY <1>0, <2>1 DEF Call
  <2>3. call.n = loc[c].n + 1 BY <1>0, <2>2 DEF Call
  <2> QED BY <1>4, <2>1, <2>2, <2>3, TypedMove DEF Visit, Labels
<1> QED BY <1>0, <1>2, <1>3, <1>4, TypedAfterServices, TypedConflict, TypedChange

LEMMA TypedReadPods == ASSUME TypeInv, NEW c \in Callers, ReadPods(c) PROVE Moves(c)
<1>0. loc[c] \in Call /\ loc[c].next \in Phases /\ "canceling_source" \in Phases BY CallIn, CallFacts DEF Phases
<1>1. ASSUME NEW p \in pods, Goto(c, "ask", [loc[c] EXCEPT !.proc = p.uid]) PROVE Moves(c)
  <2>1. p \in Pod BY TypeParts DEF TypeInv, Types
  <2>2. p.uid \in 0..MaxPods BY <2>1, Numbers DEF Pod
  <2>3. [loc[c] EXCEPT !.proc = p.uid] \in Call BY <1>0, <2>2 DEF Call
  <2> QED BY <1>1, <2>3, TypedMove DEF Labels
<1>2. \/ End(c) \/ Conflict(c) \/ (\E p \in pods : Goto(c, "ask", [loc[c] EXCEPT !.proc = p.uid]))
      \/ Decide(c, "canceling_source") \/ Decide(c, loc[c].next)
  BY DEF ReadPods
<1> QED BY <1>0, <1>1, <1>2, TypedConflict, TypedDecide DEF Moves

LEMMA TypedAsk == ASSUME TypeInv, NEW c \in Callers, Ask(c) PROVE Moves(c) /\ app' \in {"open", "sealed", "released"}
<1>0. loc[c] \in Call /\ app \in {"open", "sealed", "released"} BY CallIn, TypeParts DEF TypeInv, Types
<1>1. /\ [loc[c] EXCEPT !.job = "after"] \in Call
      /\ [[loc[c] EXCEPT !.job = "after"] EXCEPT !.busy = TRUE] \in Call
  BY <1>0 DEF Call, Jobs, Tame
<1>2. \/ Goto(c, "dep", [[loc[c] EXCEPT !.job = "after"] EXCEPT !.busy = TRUE]) \/ Conflict(c)
      \/ Goto(c, "dep", [loc[c] EXCEPT !.job = "after"])
  BY DEF Ask
<1>3. app' \in {"open", "sealed", "released"} BY <1>0 DEF Ask, Handle
<1> QED BY <1>1, <1>2, <1>3, TypedMove, TypedConflict DEF Labels

LEMMA TypedStore ==
    ASSUME TypeInv, NEW n \in Objects, NEW to \in Object, Store(n, to)
    PROVE  objs' \in [Objects -> Object] /\ observed' \in BOOLEAN
<1>1. objs \in [Objects -> Object] /\ observed \in BOOLEAN BY TypeParts DEF TypeInv, Types
<1> QED BY <1>1 DEF Store

LEMMA TypedFault == ASSUME TypeInv, NEW kind, Fault(kind) PROVE faults' \in 0..MaxFaults
<1>1. faults \in 0..MaxFaults BY TypeParts DEF TypeInv, Types
<1> QED BY <1>1, Numbers DEF Fault

LEMMA TypedCluster ==
    ASSUME TypeInv, Cluster
    PROVE  /\ objs' \in [Objects -> Object] /\ observed' \in BOOLEAN /\ pods' \subseteq Pod /\ born' \in 1..MaxPods
           /\ broken' \in BOOLEAN /\ faults' \in 0..MaxFaults
<1> DEFINE Goal == /\ objs' \in [Objects -> Object] /\ observed' \in BOOLEAN /\ pods' \subseteq Pod
                   /\ born' \in 1..MaxPods /\ broken' \in BOOLEAN /\ faults' \in 0..MaxFaults
<1>0. /\ objs \in [Objects -> Object] /\ observed \in BOOLEAN /\ pods \subseteq Pod /\ born \in 1..MaxPods
      /\ broken \in BOOLEAN /\ faults \in 0..MaxFaults
  BY TypeParts DEF TypeInv, Types
<1>1. ASSUME NEW p \in pods, NEW state \in {"starting", "ready", "terminating"}, SetPod(p, state), faults' \in 0..MaxFaults
      PROVE  Goal
  <2>0. p \in Pod BY <1>0
  <2>1. [p EXCEPT !.state = state] \in Pod BY <2>0 DEF Pod
  <2> QED BY <1>0, <1>1, <2>1 DEF SetPod
<1>2. CASE Drift
  <2>1. PICK n \in Objects : Store(n, [objs[n] EXCEPT !.ver = "other", !.rv = @ + 1]) BY <1>2 DEF Drift
  <2>2. objs[n] \in Object /\ objs[n].rv + 1 \in Nat BY <1>0, ObjectFacts
  <2>3. [objs[n] EXCEPT !.ver = "other", !.rv = @ + 1] \in Object BY <2>2 DEF Object
  <2>4. UNCHANGED <<pods, born, broken>> /\ faults' \in 0..MaxFaults BY <1>2, TypedFault DEF Drift
  <2> QED BY <1>0, <2>1, <2>3, <2>4, TypedStore
<1>3. CASE Evict
  <2>1. PICK p \in LivePods : SetPod(p, "terminating") BY <1>3 DEF Evict
  <2>2. p \in pods /\ faults' \in 0..MaxFaults BY <1>3, TypedFault DEF Evict, LivePods
  <2> QED BY <1>1, <2>1, <2>2
<1>4. CASE Controller /\ UNCHANGED faults
  <2>1. CASE ObserveGeneration BY <1>0, <1>4, <2>1 DEF ObserveGeneration
  <2>2. CASE StartPod
    <3>0. PICK p : p = [uid |-> born + 1, ver |-> objs[Deployment].ver, state |-> "starting"] OBVIOUS
    <3>1. /\ objs[Deployment].ver \in Versions /\ born < MaxPods /\ born' = born + 1
          /\ pods' = pods \cup {p} /\ UNCHANGED <<objs, observed, broken>>
      BY <2>2, <3>0 DEF StartPod
    <3>2. born + 1 \in 1..MaxPods BY <1>0, <3>1, Numbers
    <3>3. p \in Pod BY <3>0, <3>1, <3>2 DEF Pod
    <3> QED BY <1>0, <1>4, <3>1, <3>2, <3>3
  <2>3. ASSUME NEW p \in pods, PodReady(p) \/ StopPod(p) PROVE Goal BY <1>0, <1>1, <1>4, <2>3 DEF PodReady, StopPod
  <2>4. ASSUME NEW p \in pods, PodGone(p) PROVE Goal BY <1>0, <1>4, <2>4 DEF PodGone
  <2> QED BY <1>4, <2>1, <2>2, <2>3, <2>4 DEF Controller
<1> QED BY <1>2, <1>3, <1>4 DEF Cluster

LEMMA TypedRequest == ASSUME TypeInv, NEW c \in Callers, NEW r \in Request(c) PROVE r \in LateRequest
<1>0. loc[c].n \in Objects /\ loc[c].to \in Object /\ loc[c].ask \in Asks BY CallIn, CallFacts
<1>1. \/ r = [kind |-> "update", n |-> loc[c].n, to |-> loc[c].to]
      \/ r = [kind |-> loc[c].ask, n |-> 0, to |-> Original]
  BY DEF Request
<1> QED BY <1>0, <1>1, NoCallType, Sets DEF LateRequest, Deployment

\* The rows and the history variable, whoever writes them.
LEMMA TypedRows ==
    ASSUME TypeInv, [Next]_vars
    PROVE  /\ core' \in {"checking", "preparing", "restoring", "releasing", "done"}
           /\ installed' \in 0..2 /\ known' \subseteq Replies /\ registered' \in BOOLEAN /\ row' \in Row
           /\ timely' \in BOOLEAN
<1> DEFINE Goal == /\ core' \in {"checking", "preparing", "restoring", "releasing", "done"}
                   /\ installed' \in 0..2 /\ known' \subseteq Replies /\ registered' \in BOOLEAN /\ row' \in Row
                   /\ timely' \in BOOLEAN
<1>0. /\ core \in {"checking", "preparing", "restoring", "releasing", "done"} /\ installed \in 0..2
      /\ known \subseteq Replies /\ registered \in BOOLEAN /\ row \in Row /\ timely \in BOOLEAN
  BY TypeParts DEF TypeInv, Types
<1>1. CASE UNCHANGED <<authority, row>> BY <1>0, <1>1 DEF authority
<1>2. ASSUME NEW phase \in {"preparing", "restoring", "releasing", "done"}, NEW revision \in 0..2, CoreStep(phase, revision)
      PROVE  Goal
  BY <1>0, <1>2 DEF CoreStep
<1>3. CASE Core
  <2>1. 1 \in 0..2 /\ (IF installed = 1 THEN 2 ELSE installed) \in 0..2 BY <1>0
  <2> QED BY <1>0, <1>2, <1>3, <2>1 DEF Core, Advance, Publish, Recover, Compensate, Rollback, Finish
<1>4. ASSUME NEW c \in Callers, CreateRow(c) \/ rejectManagementTemplate(c) PROVE Goal
  <2>1. Reply("prepare", "rejected_preflight") \in Replies BY DEF Reply, Replies
  <2>2. row' \in Row BY <1>0, <1>4 DEF CreateRow, rejectManagementTemplate, Row, Phases
  <2>3. CASE CreateRow(c) BY <1>0, <2>2, <2>3 DEF CreateRow, authority
  <2>4. CASE rejectManagementTemplate(c) BY <1>0, <2>1, <2>2, <2>4 DEF rejectManagementTemplate, Tell
  <2> QED BY <1>4, <2>3, <2>4
<1>5. ASSUME NEW c \in Callers, Commit(c) PROVE Goal
  <2>1. Reply(loc[c].mode, loc[c].next) \in Replies BY DEF Reply, Replies
  <2>2. [phase |-> loc[c].next, cp |-> loc[c].cp] \in Row BY CallIn, CallFacts DEF Row
  <2> QED BY <1>0, <1>5, <2>1, <2>2 DEF Commit, Tell
<1>6. ASSUME NEW c \in Callers, NEW mode \in Modes, Turn(c, mode) PROVE Goal
  BY <1>0, <1>6 DEF Turn, Refused, Replies
<1>7. CASE Redeploy BY <1>0, <1>7 DEF Redeploy
<1>8. CASE Shared /\ UNCHANGED app
  BY <1>1, <1>3, <1>4, <1>5, <1>7, <1>8
     DEF Shared, Update, Cluster, Failures, Interrupt, SessionLoss, Crash, Land, Lose
<1>9. ASSUME NEW c \in Callers, NEW mode \in Modes, Begin(c, mode) PROVE Goal BY <1>1, <1>9 DEF Begin, Enter
<1>10. ASSUME NEW c \in Callers, Proceed(c) PROVE Goal
  BY <1>1, <1>5, <1>10 DEF Proceed, Update, ReadDeployment, ReadService, ReadPods, Ask, AskFails, Quiet
<1>11. ASSUME NEW r \in late, LandAsk(r) PROVE Goal BY <1>1, <1>11 DEF LandAsk
<1>12. CASE UNCHANGED vars BY <1>1, <1>12 DEF vars, journalVars
<1> QED BY <1>6, <1>8, <1>9, <1>10, <1>11, <1>12 DEF Next

\* The workload and the App, whoever changes them.
LEMMA TypedWorkload ==
    ASSUME TypeInv, [Next]_vars
    PROVE  /\ objs' \in [Objects -> Object] /\ observed' \in BOOLEAN /\ pods' \subseteq Pod /\ born' \in 1..MaxPods
           /\ broken' \in BOOLEAN /\ app' \in {"open", "sealed", "released"} /\ faults' \in 0..MaxFaults
<1> DEFINE Goal == /\ objs' \in [Objects -> Object] /\ observed' \in BOOLEAN /\ pods' \subseteq Pod
                   /\ born' \in 1..MaxPods /\ broken' \in BOOLEAN /\ app' \in {"open", "sealed", "released"}
                   /\ faults' \in 0..MaxFaults
<1>0. /\ objs \in [Objects -> Object] /\ observed \in BOOLEAN /\ pods \subseteq Pod /\ born \in 1..MaxPods
      /\ broken \in BOOLEAN /\ app \in {"open", "sealed", "released"} /\ faults \in 0..MaxFaults
  BY TypeParts DEF TypeInv, Types
<1>1. CASE UNCHANGED <<workload, app>> /\ faults' \in 0..MaxFaults BY <1>0, <1>1 DEF workload
<1>2. ASSUME NEW n \in Objects, NEW to \in Object, Store(n, to), UNCHANGED <<pods, born, broken, app, faults>> PROVE Goal
  BY <1>0, <1>2, TypedStore
<1>3. ASSUME NEW c \in Callers, Update(c), UNCHANGED app PROVE Goal
  <2>1. loc[c].n \in Objects /\ loc[c].to \in Object BY CallIn, CallFacts
  <2> QED BY <1>0, <1>2, <1>3, <2>1 DEF Update
<1>4. ASSUME NEW r \in late, Land(r), UNCHANGED app PROVE Goal
  <2>1. r.n \in Objects /\ r.to \in Object BY DEF TypeInv, CallTypes, LateRequest
  <2> QED BY <1>2, <1>4, <2>1 DEF Land
<1>5. CASE Cluster /\ UNCHANGED app BY <1>0, <1>5, TypedCluster
<1>6. CASE Core /\ UNCHANGED app
  <2>1. UNCHANGED workload BY <1>6 DEF Core, Advance, Publish, Recover, Compensate, Rollback, Finish, CoreStep
  <2>2. faults' \in 0..MaxFaults
    BY <1>0, <1>6, TypedFault DEF Core, Advance, Publish, Recover, Compensate, Rollback, Finish
  <2> QED BY <1>1, <1>6, <2>1, <2>2
<1>7. ASSUME NEW c \in Callers, CreateRow(c) \/ rejectManagementTemplate(c) \/ Commit(c), UNCHANGED app PROVE Goal
  BY <1>0, <1>1, <1>7 DEF CreateRow, rejectManagementTemplate, Commit
<1>8. ASSUME NEW c \in Callers, Interrupt(c) \/ SessionLoss(c), UNCHANGED app PROVE Goal
  BY <1>1, <1>8, TypedFault DEF Interrupt, SessionLoss
<1>9. CASE (Crash \/ Redeploy) /\ UNCHANGED app BY <1>1, <1>9, TypedFault DEF Crash, Redeploy
<1>10. ASSUME NEW r \in late, Lose(r), UNCHANGED app PROVE Goal BY <1>0, <1>1, <1>10 DEF Lose
<1>11. CASE Shared /\ UNCHANGED app
  BY <1>3, <1>4, <1>5, <1>6, <1>7, <1>8, <1>9, <1>10, <1>11 DEF Shared, Failures
<1>12. ASSUME NEW c \in Callers, NEW mode \in Modes, Begin(c, mode) \/ Turn(c, mode) PROVE Goal
  BY <1>0, <1>1, <1>12 DEF Begin, Turn, Enter, Refused
<1>13. ASSUME NEW c \in Callers, Proceed(c) PROVE Goal
  <2>1. CASE Quiet /\ app' \in {"open", "sealed", "released"} BY <1>0, <2>1 DEF Quiet, workload
  <2>2. CASE Ask(c) BY <2>1, <2>2, TypedAsk DEF Ask
  <2> QED BY <1>0, <1>3, <1>7, <1>13, <2>1, <2>2 DEF Proceed, ReadDeployment, ReadService, ReadPods, AskFails
<1>14. ASSUME NEW r \in late, LandAsk(r) PROVE Goal BY <1>0, <1>14 DEF LandAsk, Handle, workload
<1>15. CASE UNCHANGED vars BY <1>0, <1>1, <1>15 DEF vars, journalVars
<1> QED BY <1>11, <1>12, <1>13, <1>14, <1>15 DEF Next

\* The calls and what they have sent.
LEMMA TypedCalls ==
    ASSUME TypeInv, [Next]_vars
    PROVE  /\ tx' \in [Callers -> BOOLEAN] /\ CallTypes' /\ \A d \in Callers : Within(loc[d], pc[d])'
<1> DEFINE Goal == /\ tx' \in [Callers -> BOOLEAN] /\ CallTypes' /\ \A d \in Callers : Within(loc[d], pc[d])'
<1>0. /\ tx \in [Callers -> BOOLEAN] /\ CallTypes /\ \A d \in Callers : Within(loc[d], pc[d])
  BY TypeParts DEF TypeInv, Types
<1>1. ASSUME NEW c \in Callers, Moves(c), late' \subseteq LateRequest PROVE Goal
  BY <1>1, MovesTyped DEF CallTypes
<1>2. CASE UNCHANGED calls /\ late' \subseteq LateRequest BY <1>0, <1>2 DEF calls, CallTypes, Within
<1>3. ASSUME NEW c \in Callers, Commit(c) \/ Update(c) PROVE Goal
  <2>1. Moves(c) BY <1>3, TypedAgain DEF Commit, Update, Moves
  <2>2. late' = late BY <1>3 DEF Commit, Update
  <2> QED BY <1>0, <1>1, <2>1, <2>2 DEF CallTypes
<1>4. ASSUME NEW c \in Callers, Interrupt(c) PROVE Goal
  <2>1. PICK sent \in SUBSET Request(c) : late' = late \cup sent BY <1>4 DEF Interrupt
  <2>2. late' \subseteq LateRequest BY <1>0, <2>1, TypedRequest DEF CallTypes
  <2> QED BY <1>1, <1>4, <2>2 DEF Interrupt, Moves
<1>5. ASSUME NEW c \in Callers, SessionLoss(c) PROVE Goal
  BY <1>0, <1>5 DEF SessionLoss, CallTypes, Within
<1>6. CASE Crash
  <2>1. PICK sent \in SUBSET UNION {Request(c) : c \in Callers} : late' = late \cup sent BY <1>6 DEF Crash
  <2>2. \A r \in sent : \E c \in Callers : r \in Request(c) BY <2>1
  <2>3. late' \subseteq LateRequest BY <1>0, <2>1, <2>2, TypedRequest DEF CallTypes
  <2>4. /\ pc' = [c \in Callers |-> "idle"] /\ tx' = [c \in Callers |-> FALSE] /\ loc' = [c \in Callers |-> NoCall]
    BY <1>6 DEF Crash
  <2> QED BY <2>3, <2>4, NoCallType DEF CallTypes, Labels, Within
<1>7. ASSUME NEW r \in late, Land(r) \/ Lose(r) \/ LandAsk(r) PROVE Goal
  BY <1>0, <1>2, <1>7 DEF Land, Lose, LandAsk, CallTypes
<1>8. ASSUME UNCHANGED calls, UNCHANGED late PROVE Goal BY <1>0, <1>2, <1>8 DEF CallTypes
<1>9. CASE Core \/ Redeploy \/ Cluster
  BY <1>8, <1>9 DEF Core, Advance, Publish, Recover, Compensate, Rollback, Finish, CoreStep, Redeploy, Cluster
<1>10. ASSUME NEW c \in Callers, CreateRow(c) \/ rejectManagementTemplate(c) PROVE Goal
  BY <1>8, <1>10 DEF CreateRow, rejectManagementTemplate
<1>11. CASE Shared BY <1>3, <1>4, <1>5, <1>6, <1>7, <1>9, <1>10, <1>11 DEF Shared, Failures
<1>12. ASSUME NEW c \in Callers, NEW mode \in Modes, Turn(c, mode) PROVE Goal BY <1>8, <1>12 DEF Turn, Refused
<1>13. ASSUME NEW c \in Callers, NEW mode \in Modes, Begin(c, mode) PROVE Goal
  <2>0. row \in Row /\ row.phase \in Phases /\ row.cp \in BOOLEAN BY TypeParts DEF TypeInv, Types, Row
  <2>1. PICK plan : plan = Plan(mode, row.phase, row.cp) OBVIOUS
  <2>2. /\ plan.at \in {"commit", "dep"} /\ plan.job \in Jobs /\ plan.ask \in Asks /\ plan.side \in Versions
        /\ plan.next \in Phases
    BY <1>13, <2>0, <2>1, PlanTypes DEF Begin, Enter
  <2>3. PICK call \in Call :
          call = [NoCall EXCEPT !.mode = mode, !.phase = row.phase, !.cp = row.cp, !.job = plan.job,
                                !.ask = plan.ask, !.side = plan.side, !.next = plan.next]
    BY <2>0, <2>2, NoCallType DEF Call
  <2>4. /\ pc' = [pc EXCEPT ![c] = plan.at] /\ tx' = [tx EXCEPT ![c] = TRUE] /\ loc' = [loc EXCEPT ![c] = call]
        /\ UNCHANGED late
    BY <1>13, <2>1, <2>3 DEF Begin, Enter
  <2>5. plan.at \in Labels /\ plan.at # "svc" BY <2>2 DEF Labels
  <2>6. /\ pc' \in [Callers -> Labels] /\ loc' \in [Callers -> Call] /\ tx' \in [Callers -> BOOLEAN]
        /\ late' \subseteq LateRequest
    BY <1>0, <2>4, <2>5 DEF CallTypes
  <2>7. \A d \in Callers : (loc'[d] = loc[d] /\ pc'[d] = pc[d]) \/ (loc'[d] = call /\ pc'[d] = plan.at)
    BY <1>0, <2>4 DEF CallTypes
  <2> QED BY <1>0, <2>5, <2>6, <2>7 DEF CallTypes, Within
<1>14. ASSUME NEW c \in Callers, ReadDeployment(c) \/ ReadService(c) \/ ReadPods(c) \/ Ask(c) \/ AskFails(c) PROVE Goal
  <2>1. AskFails(c) => Moves(c) BY DEF AskFails, Moves
  <2>2. Moves(c) BY <1>14, <2>1, TypedReadDeployment, TypedReadService, TypedReadPods, TypedAsk
  <2>3. UNCHANGED late BY <1>14 DEF ReadDeployment, ReadService, ReadPods, Ask, AskFails, Quiet
  <2> QED BY <1>0, <1>1, <2>2, <2>3 DEF CallTypes
<1>15. CASE UNCHANGED vars BY <1>8, <1>15 DEF vars, journalVars
<1> QED BY <1>3, <1>7, <1>11, <1>12, <1>13, <1>14, <1>15 DEF Next, Proceed

\* The rows, the workload, the App's state and the fault count keep their types, whether or
\* not Core waits for what was abandoned (ManagementTransition!TypeOK).
THEOREM ManagementTypes == Spec => []TypeOK
<1>1. Init => TypeInv
  <2> SUFFICES ASSUME Init PROVE TypeInv OBVIOUS
  <2>1. Types /\ CallTypes BY TransitionInit DEF TransitionInv
  <2>2. timely \in BOOLEAN /\ \A c \in Callers : pc[c] = "idle" BY DEF Init, JournalInit
  <2> QED BY <2>1, <2>2, TypeParts DEF TypeInv, CallTypes, Within
<1>2. TypeInv /\ [Next]_vars => TypeInv'
  <2> SUFFICES ASSUME TypeInv, [Next]_vars PROVE TypeInv' OBVIOUS
  <2>1. Types' /\ timely' \in BOOLEAN BY TypedRows, TypedWorkload, TypedCalls DEF Types
  <2>2. TypeOK' BY <2>1 DEF TypeOK, Types
  <2> QED BY <2>2, TypedCalls DEF TypeInv
<1>3. TypeInv => TypeOK BY DEF TypeInv
<1> QED BY <1>1, <1>2, <1>3, PTL DEF Spec

--------------------------------------------------------------------------------
(* What a step may do to the objects and to the row                         *)

Replaced(n) == objs[n].ver = "source" /\ objs'[n].ver = "target"
TakenBack(n) == objs[n].ver = "target" /\ objs'[n].ver = "source"
InPhase ==
    \A n \in Objects : /\ Replaced(n) => row.phase \in {"applying", "restoring", "restored", "recovery_required"}
                       /\ TakenBack(n) => row.phase \in {"restoring", "restored", "recovery_required"}

\* An update that is executed is in a phase for it.
LEMMA StoreInPhase ==
    ASSUME TransitionInv, NEW n \in Objects, NEW to \in Object, UpdateInv(n, to), Store(n, to)
    PROVE  InPhase
<1>1. objs \in [Objects -> Object] /\ objs' = [objs EXCEPT ![n] = to] BY DEF TransitionInv, Types, Store
<1>2. objs'[n] = to /\ \A m \in Objects : m # n => objs'[m] = objs[m] BY <1>1
<1>3. row.phase \in Applying \cup Restoring BY DEF UpdateInv, Exposed
<1>4. ASSUME Replaced(n) PROVE row.phase \in {"applying", "restoring", "restored", "recovery_required"}
  <2>1. row.phase \notin {"verifying", "prepared"} BY <1>4 DEF Replaced, TransitionInv, RowInv, AllOf, Of
  <2> QED BY <1>3, <2>1 DEF Applying, Restoring
<1>5. TakenBack(n) => row.phase \in Restoring BY <1>2 DEF TakenBack, UpdateInv
<1>6. \A m \in Objects : m # n => ~Replaced(m) /\ ~TakenBack(m) BY <1>2 DEF Replaced, TakenBack
<1> QED BY <1>4, <1>5, <1>6 DEF InPhase, Restoring

\* Only updates and others' edits change the objects.
LEMMA OnlyStores ==
    ASSUME [Next]_vars
    PROVE  \/ UNCHANGED objs
           \/ \E c \in Callers : pc[c] = "update" /\ Store(loc[c].n, loc[c].to)
           \/ \E r \in late : r.kind = "update" /\ Store(r.n, r.to)
           \/ \E n \in Objects : Store(n, [objs[n] EXCEPT !.ver = "other", !.rv = @ + 1])
<1>1. CASE UNCHANGED vars BY <1>1 DEF vars, journalVars, workload
<1>2. CASE Shared /\ UNCHANGED app
  <2>1. ASSUME NEW c \in Callers, CreateRow(c) \/ rejectManagementTemplate(c) \/ Commit(c) PROVE UNCHANGED objs
    BY <2>1 DEF CreateRow, rejectManagementTemplate, Commit, workload
  <2>2. ASSUME NEW c \in Callers, Update(c)
        PROVE  UNCHANGED objs \/ (pc[c] = "update" /\ Store(loc[c].n, loc[c].to))
    BY <2>2 DEF Update
  <2>3. CASE Core
    BY <2>3 DEF Core, Advance, Publish, Recover, Compensate, Rollback, Finish, CoreStep, workload
  <2>4. CASE Cluster
    <3>1. CASE Controller
      BY <3>1 DEF Controller, ObserveGeneration, StartPod, PodReady, StopPod, PodGone, SetPod
    <3>2. CASE Evict BY <3>2 DEF Evict, SetPod
    <3>3. CASE Drift BY <3>3 DEF Drift
    <3> QED BY <2>4, <3>1, <3>2, <3>3 DEF Cluster
  <2>5. ASSUME NEW c \in Callers, Interrupt(c) \/ SessionLoss(c) PROVE UNCHANGED objs
    BY <2>5 DEF Interrupt, SessionLoss, workload
  <2>6. CASE Crash \/ Redeploy BY <2>6 DEF Crash, Redeploy, workload
  <2>7. ASSUME NEW r \in late, Land(r) \/ Lose(r)
        PROVE  UNCHANGED objs \/ (r.kind = "update" /\ Store(r.n, r.to))
    BY <2>7 DEF Land, Lose, workload
  <2> QED BY <1>2, <2>1, <2>2, <2>3, <2>4, <2>5, <2>6, <2>7 DEF Shared, Failures
<1>3. ASSUME NEW c \in Callers, NEW mode \in Modes, Begin(c, mode) \/ Turn(c, mode) PROVE UNCHANGED objs
  BY <1>3 DEF Begin, Turn, Enter, Refused, workload
<1>4. ASSUME NEW c \in Callers, Proceed(c)
      PROVE  UNCHANGED objs \/ (pc[c] = "update" /\ Store(loc[c].n, loc[c].to))
  <2>1. CASE Commit(c) BY <2>1 DEF Commit, workload
  <2>2. CASE Update(c) BY <2>2 DEF Update
  <2>3. CASE Quiet BY <2>3 DEF Quiet, workload
  <2> QED BY <1>4, <2>1, <2>2, <2>3
        DEF Proceed, ReadDeployment, ReadService, ReadPods, Ask, AskFails
<1>5. ASSUME NEW r \in late, LandAsk(r) PROVE UNCHANGED objs BY <1>5 DEF LandAsk, workload
<1> QED BY <1>1, <1>2, <1>3, <1>4, <1>5 DEF Next

\* Only commits on a locked transaction change the row, once a phase is there.
LEMMA OnlyCommits ==
    ASSUME [Next]_vars
    PROVE  \/ UNCHANGED row
           \/ row.phase \in Early
           \/ \E c \in Callers : pc[c] = "commit" /\ tx[c] /\ row' = [phase |-> loc[c].next, cp |-> loc[c].cp]
<1>0. ASSUME NEW c \in Callers, Commit(c)
      PROVE  UNCHANGED row \/ (pc[c] = "commit" /\ tx[c] /\ row' = [phase |-> loc[c].next, cp |-> loc[c].cp])
  BY <1>0 DEF Commit
<1>1. CASE UNCHANGED vars BY <1>1 DEF vars, journalVars
<1>2. CASE Shared /\ UNCHANGED app
  <2>1. ASSUME NEW c \in Callers, CreateRow(c) \/ rejectManagementTemplate(c) PROVE row.phase \in Early
    BY <2>1 DEF CreateRow, rejectManagementTemplate, Early
  <2>2. ASSUME NEW c \in Callers, Update(c) PROVE UNCHANGED row BY <2>2 DEF Update
  <2>3. CASE Core BY <2>3 DEF Core, Advance, Publish, Recover, Compensate, Rollback, Finish, CoreStep
  <2>4. CASE Cluster BY <2>4 DEF Cluster
  <2>5. ASSUME NEW c \in Callers, Interrupt(c) \/ SessionLoss(c) PROVE UNCHANGED row
    BY <2>5 DEF Interrupt, SessionLoss
  <2>6. CASE Crash \/ Redeploy BY <2>6 DEF Crash, Redeploy
  <2>7. ASSUME NEW r \in late, Land(r) \/ Lose(r) PROVE UNCHANGED row BY <2>7 DEF Land, Lose
  <2> QED BY <1>0, <1>2, <2>1, <2>2, <2>3, <2>4, <2>5, <2>6, <2>7 DEF Shared, Failures
<1>3. ASSUME NEW c \in Callers, NEW mode \in Modes, Begin(c, mode) \/ Turn(c, mode) PROVE UNCHANGED row
  BY <1>3 DEF Begin, Turn, Enter, Refused
<1>4. ASSUME NEW c \in Callers, Proceed(c), ~Commit(c) PROVE UNCHANGED row
  BY <1>4 DEF Proceed, Update, ReadDeployment, ReadService, ReadPods, Ask, AskFails, Quiet
<1>5. ASSUME NEW r \in late, LandAsk(r) PROVE UNCHANGED row BY <1>5 DEF LandAsk
<1> QED BY <1>0, <1>1, <1>2, <1>3, <1>4, <1>5 DEF Next

\* The first change of an object comes after the App's seal was proved and committed, an
\* object is taken back only in a recovery, a release that was intended is never taken back
\* and changes no version, whatever calls are abandoned or executed late, as long as Core has
\* begun no release before what was abandoned had settled (Apply, Restore,
\* saveManagementState; ManagementTransition!ChangedInPhase).
THEOREM ChangesFollowPhase == Spec => ChangedInPhase
<1>1. ASSUME TransitionInv, [Next]_vars PROVE InPhase
  <2>0. objs \in [Objects -> Object] BY <1>1 DEF TransitionInv, Types
  <2>1. CASE UNCHANGED objs BY <2>1 DEF InPhase, Replaced, TakenBack
  <2>2. ASSUME NEW c \in Callers, pc[c] = "update", Store(loc[c].n, loc[c].to) PROVE InPhase
    <3>1. PICK n \in Objects, to \in Object : n = loc[c].n /\ to = loc[c].to BY <1>1, CallOf, CallFacts
    <3>2. UpdateInv(n, to) BY <1>1, <2>2, <3>1, CallOf DEF CallInv, JobInv
    <3> QED BY <1>1, <2>2, <3>1, <3>2, StoreInPhase
  <2>3. ASSUME NEW r \in late, r.kind = "update", Store(r.n, r.to) PROVE InPhase
    <3>1. PICK n \in Objects, to \in Object : n = r.n /\ to = r.to BY <1>1 DEF TransitionInv, CallTypes, LateRequest
    <3>2. UpdateInv(n, to) BY <1>1, <2>3, <3>1 DEF TransitionInv
    <3> QED BY <1>1, <2>3, <3>1, <3>2, StoreInPhase
  <2>4. ASSUME NEW n \in Objects, Store(n, [objs[n] EXCEPT !.ver = "other", !.rv = @ + 1]) PROVE InPhase
    <3>1. objs[n] \in Object BY <2>0
    <3>2. \A m \in Objects : objs'[m].ver = objs[m].ver \/ objs'[m].ver = "other"
      BY <2>0, <2>4, <3>1 DEF Store, Object
    <3> QED BY <3>2 DEF InPhase, Replaced, TakenBack
  <2> QED BY <1>1, <2>1, <2>2, <2>3, <2>4, OnlyStores
<1>2. ASSUME TransitionInv, [Next]_vars, row.phase \in ReleasePhases PROVE row'.phase \in ReleasePhases
  <2>1. CASE UNCHANGED row BY <1>2, <2>1
  <2>2. row.phase \notin Early BY <1>2, PhaseKinds
  <2>3. ASSUME NEW c \in Callers, pc[c] = "commit", tx[c], row' = [phase |-> loc[c].next, cp |-> loc[c].cp]
        PROVE  row'.phase \in ReleasePhases
    BY <1>2, <2>3, CallOf DEF CallInv, JobInv, Outcome
  <2> QED BY <1>2, <2>1, <2>2, <2>3, OnlyCommits
<1>3. (timely => TransitionInv) /\ [Next]_vars =>
        [timely =>
           /\ \A n \in Objects :
                /\ objs[n].ver = "source" /\ objs'[n].ver = "target" =>
                     row.phase \in {"applying", "restoring", "restored", "recovery_required"}
                /\ objs[n].ver = "target" /\ objs'[n].ver = "source" =>
                     row.phase \in {"restoring", "restored", "recovery_required"}
           /\ row.phase \in ReleasePhases => row'.phase \in ReleasePhases]_vars
  BY <1>1, <1>2 DEF InPhase, Replaced, TakenBack
<1> QED BY <1>3, TransitionInvariant, PTL DEF Spec, ChangedInPhase

--------------------------------------------------------------------------------
(* The promise of SafeUpgrade                                               *)

\* While the App admits work, every process is the published version's.
LEMMA ServingNext ==
    ASSUME TransitionInv'
    PROVE  /\ app' # "sealed" => {p.ver : p \in pods'} \subseteq {Published'}
           /\ {p.ver : p \in pods'} \subseteq Versions /\ Published' \in Versions
<1>1. Types' /\ ServeInv' BY DEF TransitionInv
<1> QED BY <1>1 DEF ServeInv, Steady, Types, Pod, Published, Versions

\* Pods, the App's seal and what is published never change in the same step.
LEMMA OneAtATime ==
    ASSUME TransitionInv, [Next]_vars
    PROVE  \/ UNCHANGED <<app, installed>>
           \/ UNCHANGED <<pods, installed>>
           \/ UNCHANGED <<pods, app>> /\ (Published' = Published \/ app = "sealed")
<1>1. CASE UNCHANGED vars BY <1>1 DEF vars, journalVars, authority
<1>2. CASE Shared /\ UNCHANGED app
  <2>1. ASSUME NEW c \in Callers, CreateRow(c) \/ rejectManagementTemplate(c) \/ Commit(c) \/ Update(c)
        PROVE  UNCHANGED installed
    BY <2>1 DEF CreateRow, rejectManagementTemplate, Commit, Update, authority
  <2>2. CASE Cluster BY <1>2, <2>2 DEF Cluster, authority
  <2>3. ASSUME NEW c \in Callers, Interrupt(c) \/ SessionLoss(c) PROVE UNCHANGED installed
    BY <2>3 DEF Interrupt, SessionLoss, authority
  <2>4. CASE Crash \/ Redeploy BY <1>2, <2>4 DEF Crash, Redeploy, authority
  <2>5. ASSUME NEW r \in late, Land(r) \/ Lose(r) PROVE UNCHANGED installed BY <2>5 DEF Land, Lose, authority
  <2>6. CASE Core
    <3>0. CoreInv /\ (Exposed => app = "sealed") BY DEF TransitionInv, RowInv
    <3>1. UNCHANGED pods
      BY <2>6 DEF Core, Advance, Publish, Recover, Compensate, Rollback, Finish, CoreStep, workload
    <3>2. CASE Publish BY <1>2, <3>0, <3>1, <3>2 DEF Publish, CoreInv
    <3>3. CASE Compensate
      <4>1. CASE installed = 1 BY <1>2, <3>0, <3>1, <3>3, <4>1 DEF Compensate, CoreInv
      <4>2. CASE installed # 1 BY <1>2, <3>3, <4>2 DEF Compensate, CoreStep
      <4> QED BY <4>1, <4>2
    <3>4. CASE Advance \/ Recover \/ Rollback \/ Finish
      BY <1>2, <3>4 DEF Advance, Recover, Rollback, Finish, CoreStep
    <3> QED BY <2>6, <3>2, <3>3, <3>4 DEF Core
  <2> QED BY <1>2, <2>1, <2>2, <2>3, <2>4, <2>5, <2>6 DEF Shared, Failures
<1>3. ASSUME NEW c \in Callers, NEW mode \in Modes, Begin(c, mode) \/ Turn(c, mode) PROVE UNCHANGED <<app, installed>>
  BY <1>3 DEF Begin, Turn, Enter, Refused, authority
<1>4. ASSUME NEW c \in Callers, Proceed(c) PROVE UNCHANGED <<app, installed>> \/ UNCHANGED <<pods, installed>>
  <2>1. CASE Commit(c) /\ UNCHANGED app BY <2>1 DEF Commit
  <2>2. CASE Update(c) /\ UNCHANGED app BY <2>2 DEF Update, authority
  <2>3. CASE Quiet BY <2>3 DEF Quiet, authority, workload
  <2> QED BY <1>4, <2>1, <2>2, <2>3
        DEF Proceed, ReadDeployment, ReadService, ReadPods, Ask, AskFails
<1>5. ASSUME NEW r \in late, LandAsk(r) PROVE UNCHANGED <<pods, installed>>
  BY <1>5 DEF LandAsk, workload, authority
<1> QED BY <1>1, <1>2, <1>3, <1>4, <1>5 DEF Next

\* A transition of a running App keeps the promise to its users: new work is admitted only
\* while every process is of the version Core has published, through crashes, lost answers,
\* late requests, others' edits and rollbacks, up to the step in which Core begins a release
\* without waiting for what was abandoned (ManagementTransition!ImplementsSafeUpgrade).
THEOREM RunningRefinesSafeUpgrade == Spec => ImplementsSafeUpgrade
<1>1. Init => Upgrade!Init
  <2> SUFFICES ASSUME Init PROVE Upgrade!Init OBVIOUS
  <2>1. /\ pods = {[uid |-> 1, ver |-> "source", state |-> "ready"]} /\ installed = 0 /\ app = "open"
    BY DEF Init, JournalInit
  <2>2. Published = "source" /\ {p.ver : p \in pods} = {"source"} BY <2>1 DEF Published
  <2>3. (app # "sealed") = TRUE BY <2>1
  <2> QED BY <2>2, <2>3 DEF Upgrade!Init, Versions
<1>2. ASSUME TransitionInv, TransitionInv', [Next]_vars
      PROVE  \/ Upgrade!Next
             \/ UNCHANGED <<Published, {p.ver : p \in pods}, app # "sealed">>
  <2>1. /\ app' # "sealed" => {p.ver : p \in pods'} \subseteq {Published'}
        /\ {p.ver : p \in pods'} \subseteq Versions /\ Published' \in Versions
    BY <1>2, ServingNext
  <2>2. CASE UNCHANGED <<app, installed>>
    <3>1. Published' = Published /\ (app' # "sealed") = (app # "sealed") BY <2>2 DEF Published
    <3>2. app # "sealed" => {p.ver : p \in pods'} \subseteq {Published} BY <2>1, <3>1
    <3>3. Upgrade!Processes BY <2>1, <3>1, <3>2 DEF Upgrade!Processes
    <3> QED BY <3>3 DEF Upgrade!Next
  <2>3. CASE UNCHANGED <<pods, installed>>
    <3>1. Published' = Published /\ {p.ver : p \in pods'} = {p.ver : p \in pods} BY <2>3 DEF Published
    <3>2. CASE app # "sealed" /\ app' = "sealed"
      <4>1. (app' # "sealed") = FALSE BY <3>2
      <4>2. Upgrade!Close BY <3>1, <3>2, <4>1 DEF Upgrade!Close
      <4> QED BY <4>2 DEF Upgrade!Next
    <3>3. CASE app = "sealed" /\ app' # "sealed"
      <4>1. (app' # "sealed") = TRUE BY <3>3
      <4>2. {p.ver : p \in pods} \subseteq {Published} BY <2>1, <3>1, <3>3
      <4>3. Upgrade!Open BY <3>1, <3>3, <4>1, <4>2 DEF Upgrade!Open
      <4> QED BY <4>3 DEF Upgrade!Next
    <3>4. CASE (app = "sealed") <=> (app' = "sealed")
      <4>1. (app' # "sealed") = (app # "sealed") BY <3>4
      <4> QED BY <3>1, <4>1
    <3> QED BY <3>2, <3>3, <3>4
  <2>4. CASE UNCHANGED <<pods, app>> /\ (Published' = Published \/ app = "sealed")
    <3>1. (app' # "sealed") = (app # "sealed") /\ {p.ver : p \in pods'} = {p.ver : p \in pods} BY <2>4
    <3>2. CASE Published' = Published BY <3>1, <3>2
    <3>3. CASE app = "sealed"
      <4>1. Upgrade!Publish BY <2>1, <3>1, <3>3 DEF Upgrade!Publish
      <4> QED BY <4>1 DEF Upgrade!Next
    <3> QED BY <2>4, <3>2, <3>3
  <2> QED BY <1>2, <2>2, <2>3, <2>4, OneAtATime
<1>3. (timely => TransitionInv) /\ (timely => TransitionInv)' /\ [Next]_vars =>
        [timely' => Upgrade!Next \/ UNCHANGED Upgrade!upgradeVars]_vars
  BY <1>2, OnceLate DEF Upgrade!upgradeVars
<1> QED BY <1>1, <1>3, TransitionInvariant, PTL DEF Spec, ImplementsSafeUpgrade

================================================================================
