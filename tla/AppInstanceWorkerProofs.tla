------------------------ MODULE AppInstanceWorkerProofs ------------------------
(***************************************************************************)
(* What the worker objects of an instance have to do with its journal.     *)
(* The journal is read under a lock, but the objects change under nobody's *)
(* lock: a call that lost its session goes on, and an abandoned request is *)
(* executed late.  WorkerInv says which of them can still happen, and what *)
(* a call may conclude from having seen an object or having missed it.     *)
(* With it, every step either writes one start row or changes one Pod, in  *)
(* one of a few ways: the action properties and the refinement of          *)
(* InstanceLifecycle follow from this classification.                      *)
(***************************************************************************)
EXTENDS AppInstanceProofs

--------------------------------------------------------------------------------
(* The inductive invariant                                                  *)

Active(o) == starts[o].phase \in {"launching", "running", "stopping"}
PodThere(o) == pods[o].status # "absent"

\* The stop of this start has committed that the Pod is gone.
Gone(o) == \E s \in StopOps : stops[s].start = o /\ Stage(stops[s].phase) >= 2

\* A creation of this run's Service or Pod can still be executed, by a call at "create"
\* with or without the lock, or by a request whose caller has gone.
UnderWay(o) ==
    \/ \E r \in late : r.op = o /\ r.kind \in {"service", "pod"}
    \/ \E c \in Callers : pc[c] = "create" /\ loc[c].op = o

\* The Pod that is there is the recorded one.
Recorded(o) == PodThere(o) /\ pods[o].uid = starts[o].obs.pod

\* A Pod is made before it is recorded, and a recorded one that was seen to be gone
\* stays gone: another Pod of that name has another UID.
UidInv ==
    \A o \in Ops :
        /\ PodThere(o) => pods[o].uid # 0
        /\ svcs[o].live => svcs[o].uid # 0
        /\ starts[o].obs.pod <= pods[o].uid
        /\ Recorded(o) => ~Gone(o)

\* Objects exist, and are being made, only for a run that is active and whose Pod has not
\* been committed as gone; once a Pod is recorded, no creation outlives it.
TimelyInv ==
    \A o \in Ops :
        /\ PodThere(o) \/ UnderWay(o) => Active(o) /\ ~Gone(o)
        /\ starts[o].obs.pod # 0 => PodThere(o) \/ ~UnderWay(o)
        /\ starts[o].phase = "stopped" => ~svcs[o].live

ObjectInv == UidInv /\ (timely => TimelyInv)

\* A deletion that lands late is about the recorded Pod, and its intent was committed.
DeleteInv ==
    \A r \in late : r.kind = "pod_delete" =>
        /\ r.uid = starts[r.op].obs.pod
        /\ \E s \in StopOps : stops[s].start = r.op /\ Stage(stops[s].phase) >= 1

\* What a call knows with or without the lock, because it can no longer become false.
KnownFacts(call, at) ==
    /\ call.op \in Ops => call.seen.pod <= pods[call.op].uid
    /\ at \in {"accept_insert", "accept_bind", "lock", "create"} => call.seen.pod = 0
    /\ at = "checkpoint_sealed" => call.aim = "sealed"
    /\ at \in {"remove_svc", "remove_rest", "remove"} /\ call.seen.pod # 0 =>
         call.seen.pod = call.rec.obs.pod /\ call.seen.status # "absent"
    /\ at \in {"remove_svc", "remove_rest", "remove"} /\ call.seen.pod = 0 => ~Recorded(call.op)
    /\ at \in RemoveLabels => /\ starts[call.op].obs.pod = call.rec.obs.pod
                              /\ stops[call.stop].start = call.op
                              /\ Stage(call.prog) <= Stage(stops[call.stop].phase)

\* What a call knows while it holds the lock and no creation has outlived a Pod.
SeenFacts(call, at) ==
    /\ call.kind = "start" /\ call.seen.pod # 0 => PodThere(call.op) \/ ~UnderWay(call.op)
    /\ at \in {"remove_svc", "remove_rest", "remove"} /\ call.seen.pod = 0 => ~PodThere(call.op)
    /\ at \in {"remove_rest", "remove"} /\ call.seen.svc = 0 => ~svcs[call.op].live /\ Gone(call.op)

HeldFacts(call, at) ==
    /\ timely => SeenFacts(call, at)
    /\ call.aim = "sealed" =>
         [op |-> call.op, uid |-> starts[call.op].obs.pod, stop |-> call.stop] \in barriers

CallFacts(call, at, held) == KnownFacts(call, at) /\ (held # "none" => HeldFacts(call, at))
FactsInv == \A c \in Callers : CallFacts(loc[c], pc[c], lock[c])

WorkerInv == ObjectInv /\ DeleteInv /\ SealedProofIsGenuine /\ FactsInv
FullInv == JournalInv /\ SideInv /\ WorkerInv

USE DEF StartPhases, StopPhases, PodStatus, Uid,
        LaunchLabels, ObserveLabels, VerifyLabels, StopLabels, RemoveLabels, LoadedLabels

LEMMA Stages ==
    /\ Stage("none") = -1 /\ Stage("accepted") = -1 /\ Stage("sealed") = 0
    /\ Stage("pod_delete_requested") = 1 /\ Stage("pod_deleted") = 2
    /\ Stage("service_delete_requested") = 3 /\ Stage("stopped") = 4
  BY DEF Stage

LEMMA InitWorker == Init => WorkerInv
<1> SUFFICES ASSUME Init PROVE WorkerInv OBVIOUS
<1>1. ObjectInv
  BY DEF Init, ObjectInv, UidInv, TimelyInv, Recorded, PodThere, UnderWay, NoPod, NoObject, NoStart, NoObservation
<1>2. DeleteInv /\ SealedProofIsGenuine BY DEF Init, DeleteInv, SealedProofIsGenuine, NoStop
<1>3. FactsInv BY ConstantsAssumption DEF Init, FactsInv, CallFacts, KnownFacts, NoCall
<1> QED BY <1>1, <1>2, <1>3 DEF WorkerInv

\* A call that is removing a worker, even without its lock, works on a committed stop.
LEMMA Removing ==
    ASSUME FullInv, NEW c \in Callers, pc[c] \in RemoveLabels
    PROVE  /\ loc[c].op \in Ops /\ loc[c].stop \in StopOps /\ loc[c].kind = "stop"
           /\ starts[loc[c].op].phase \in {"stopping", "stopped"}
           /\ starts[loc[c].op].obs.pod = loc[c].rec.obs.pod /\ loc[c].rec.obs.pod # 0
           /\ stops[loc[c].stop].start = loc[c].op
           /\ Stage(loc[c].prog) <= Stage(stops[loc[c].stop].phase)
           /\ loc[c].prog \in {"sealed", "pod_delete_requested", "pod_deleted", "service_delete_requested"}
           /\ stops[loc[c].stop].phase \in {"sealed", "pod_delete_requested", "pod_deleted",
                                            "service_delete_requested", "stopped"}
<1>0. BaseInv /\ RowInv /\ StopsAgree /\ FactsInv BY DEF FullInv, JournalInv, RecordInv, WorkerInv
<1>1. /\ loc[c].op \in Ops /\ loc[c].stop \in StopOps /\ loc[c].kind = "stop"
      /\ loc[c].prog \in StopPhases /\ loc[c].prog \notin {"none", "accepted", "stopped"}
  BY <1>0, FieldTypes DEF CallShape, Locals
<1>2. /\ starts[loc[c].op].obs.pod = loc[c].rec.obs.pod /\ stops[loc[c].stop].start = loc[c].op
      /\ Stage(loc[c].prog) <= Stage(stops[loc[c].stop].phase)
  BY <1>0 DEF FactsInv, CallFacts, KnownFacts
<1>3. stops[loc[c].stop].phase \in StopPhases BY <1>0, <1>1 DEF BaseInv, TypeOK, StopRow
<1>4. stops[loc[c].stop].phase \notin {"none", "accepted"} BY <1>1, <1>2, <1>3, Stages
<1>5. starts[loc[c].op].phase \in {"stopping", "stopped"}
  BY <1>0, <1>1, <1>2, <1>4 DEF StopsAgree
<1>6. starts[loc[c].op].obs.pod # 0 BY <1>0, <1>1, <1>5 DEF RowInv
<1> QED BY <1>1, <1>2, <1>3, <1>4, <1>5, <1>6

\* A call at "create", even without its lock, creates for an active run, as long as no
\* creation has outlived a Pod.
LEMMA Creating ==
    ASSUME FullInv, NEW c \in Callers, pc[c] = "create"
    PROVE  /\ loc[c].op \in Ops /\ loc[c].kind = "start" /\ loc[c].seen.pod = 0
           /\ UnderWay(loc[c].op)
           /\ timely => Active(loc[c].op) /\ ~Gone(loc[c].op)
<1>0. BaseInv /\ ObjectInv /\ FactsInv BY DEF FullInv, JournalInv, WorkerInv
<1>1. loc[c].op \in Ops /\ loc[c].kind = "start" BY <1>0, FieldTypes DEF CallShape
<1>2. loc[c].seen.pod = 0 BY <1>0 DEF FactsInv, CallFacts, KnownFacts
<1>3. UnderWay(loc[c].op) BY DEF UnderWay
<1> QED BY <1>0, <1>1, <1>2, <1>3 DEF ObjectInv, TimelyInv

--------------------------------------------------------------------------------
(* What a step means for the calls that do not take it                      *)

\* The journal, and the barriers of the workers, are only ever added to, and a Pod that
\* was not there has a UID of its own.
Onward ==
    /\ timely' => timely
    /\ \A o \in Ops : /\ pods[o].uid <= pods'[o].uid
                      /\ PodThere(o)' => (PodThere(o) /\ pods'[o].uid = pods[o].uid) \/ pods[o].uid < pods'[o].uid
    /\ \A o \in Ops : starts[o].obs.pod # 0 => starts'[o].obs.pod = starts[o].obs.pod
    /\ \A s \in StopOps : stops[s].phase # "none" =>
         stops'[s].start = stops[s].start /\ Stage(stops[s].phase) <= Stage(stops'[s].phase)
    /\ barriers \subseteq barriers'

\* The holder of the lock is creating an object of this run.
HeldCreation(o) == \E c \in Callers : pc[c] = "create" /\ lock[c] # "none" /\ loc[c].op = o

\* What no step does to a run whose record another call holds.
SteadyObjects(o) ==
    /\ PodThere(o) \/ ~UnderWay(o) => PodThere(o)' \/ ~UnderWay(o)' \/ HeldCreation(o)
    /\ PodThere(o)' => PodThere(o) \/ starts[o].obs.pod = 0
    /\ svcs'[o].live => svcs[o].live \/ ~Gone(o)
Steady(o) == starts'[o].obs.pod = starts[o].obs.pod /\ (timely' => SteadyObjects(o))

LEMMA GoneStays ==
    ASSUME FullInv, BaseInv', Onward, NEW o \in Ops, Gone(o)
    PROVE  Gone(o)'
<1>0. BaseInv /\ stops \in [StopOps -> StopRow] BY DEF FullInv, JournalInv, BaseInv, TypeOK
<1>1. PICK s \in StopOps : stops[s].start = o /\ Stage(stops[s].phase) >= 2 BY DEF Gone
<1>2. stops[s].phase \in StopPhases /\ stops'[s].phase \in StopPhases
  BY <1>0 DEF StopRow, BaseInv, TypeOK
<1>3. stops[s].phase # "none" BY <1>1, Stages
<1>4. stops'[s].start = o /\ Stage(stops[s].phase) <= Stage(stops'[s].phase) BY <1>1, <1>3 DEF Onward
<1>5. Stage(stops[s].phase) \in Int /\ Stage(stops'[s].phase) \in Int BY <1>2, Stages
<1>6. Stage(stops'[s].phase) >= 2 BY <1>1, <1>4, <1>5
<1> QED BY <1>4, <1>6 DEF Gone

LEMMA OtherFacts ==
    ASSUME FullInv, BaseInv', NEW d \in Callers, Onward,
           pc'[d] = pc[d], lock'[d] \in {lock[d], "none"},
           loc'[d] \in {loc[d], [loc[d] EXCEPT !.fresh = FALSE]},
           lock'[d] # "none" => \A o \in Ops : o = loc[d].op => Steady(o)
    PROVE  CallFacts(loc[d], pc[d], lock[d])'
<1>0. BaseInv /\ FactsInv /\ ObjectInv BY DEF FullInv, JournalInv, WorkerInv
<1>1. /\ loc'[d].op = loc[d].op /\ loc'[d].kind = loc[d].kind /\ loc'[d].stop = loc[d].stop
      /\ loc'[d].rec = loc[d].rec /\ loc'[d].seen = loc[d].seen /\ loc'[d].aim = loc[d].aim
      /\ loc'[d].prog = loc[d].prog
  BY <1>0, FieldTypes DEF Locals
<1>2. CallFacts(loc[d], pc[d], lock[d]) BY <1>0 DEF FactsInv
<1>3. pc[d] \in RemoveLabels =>
        /\ starts'[loc[d].op].obs.pod = loc[d].rec.obs.pod
        /\ stops'[loc[d].stop].start = loc[d].op
        /\ Stage(loc[d].prog) <= Stage(stops'[loc[d].stop].phase)
  <2> SUFFICES ASSUME pc[d] \in RemoveLabels
               PROVE  /\ starts'[loc[d].op].obs.pod = loc[d].rec.obs.pod
                      /\ stops'[loc[d].stop].start = loc[d].op
                      /\ Stage(loc[d].prog) <= Stage(stops'[loc[d].stop].phase)
    OBVIOUS
  <2> DEFINE before == stops[loc[d].stop].phase
             after == stops'[loc[d].stop].phase
  <2>1. /\ loc[d].op \in Ops /\ loc[d].stop \in StopOps /\ loc[d].prog \in StopPhases
        /\ starts[loc[d].op].obs.pod = loc[d].rec.obs.pod /\ loc[d].rec.obs.pod # 0
        /\ stops[loc[d].stop].start = loc[d].op /\ Stage(loc[d].prog) <= Stage(before)
        /\ before \in StopPhases /\ before # "none"
    BY Removing
  <2>2. after \in StopPhases BY <2>1 DEF BaseInv, TypeOK, StopRow
  <2>3. stops'[loc[d].stop].start = loc[d].op /\ Stage(before) <= Stage(after) BY <2>1 DEF Onward
  <2> HIDE DEF before, after
  <2>4. Stage(loc[d].prog) \in Int /\ Stage(before) \in Int /\ Stage(after) \in Int BY <2>1, <2>2, Stages
  <2>5. Stage(loc[d].prog) <= Stage(after) BY <2>1, <2>3, <2>4
  <2> QED BY <2>1, <2>3, <2>5 DEF Onward, after
<1>4. KnownFacts(loc[d], pc[d])'
  <2>1. loc[d].op \in Ops => loc[d].seen.pod <= pods'[loc[d].op].uid
    <3> SUFFICES ASSUME loc[d].op \in Ops PROVE loc[d].seen.pod <= pods'[loc[d].op].uid OBVIOUS
    <3>1. /\ loc[d].seen.pod \in Int /\ pods[loc[d].op].uid \in Int /\ pods'[loc[d].op].uid \in Int
      BY <1>0, FieldTypes, ConstantsAssumption DEF BaseInv, TypeOK, Pod, Seen
    <3>2. loc[d].seen.pod <= pods[loc[d].op].uid /\ pods[loc[d].op].uid <= pods'[loc[d].op].uid
      BY <1>2 DEF CallFacts, KnownFacts, Onward
    <3> QED BY <3>1, <3>2
  <2>2. pc[d] \in {"remove_svc", "remove_rest", "remove"} /\ loc[d].seen.pod = 0 => ~Recorded(loc[d].op)'
    <3> SUFFICES ASSUME pc[d] \in {"remove_svc", "remove_rest", "remove"}, loc[d].seen.pod = 0
                 PROVE  ~Recorded(loc[d].op)'
      OBVIOUS
    <3>1. PICK o \in Ops : o = loc[d].op BY Removing
    <3>2. ~Recorded(o) /\ starts[o].obs.pod <= pods[o].uid
      BY <1>0, <1>2, <3>1 DEF CallFacts, KnownFacts, ObjectInv, UidInv
    <3>3. starts[o].obs.pod # 0 /\ starts'[o].obs.pod = starts[o].obs.pod BY <3>1, Removing DEF Onward
    <3>4. /\ starts[o].obs.pod \in Int /\ pods[o].uid \in Int /\ pods'[o].uid \in Int
      BY <1>0, ConstantsAssumption DEF BaseInv, TypeOK, Pod, StartRow, Observation
    <3>5. PodThere(o)' => (PodThere(o) /\ pods'[o].uid = pods[o].uid) \/ pods[o].uid < pods'[o].uid BY DEF Onward
    <3>6. ~Recorded(o)' BY <3>2, <3>3, <3>4, <3>5 DEF Recorded
    <3> QED BY <1>1, <3>1, <3>6
  <2> QED BY <1>1, <1>2, <1>3, <2>1, <2>2 DEF CallFacts, KnownFacts
<1>5. ASSUME lock'[d] # "none" PROVE HeldFacts(loc[d], pc[d])'
  <2>0. lock[d] # "none" /\ HeldFacts(loc[d], pc[d]) BY <1>2, <1>5 DEF CallFacts
  <2>1. loc[d].op \in Ops BY <1>0, <2>0, FieldTypes DEF CallShape
  <2>2. PICK o \in Ops : o = loc[d].op BY <2>1
  <2>3. Steady(o) BY <1>5, <2>2
  <2>4. ASSUME timely' PROVE SeenFacts(loc[d], pc[d])'
    <3>0. timely /\ SeenFacts(loc[d], pc[d]) /\ SteadyObjects(o) BY <2>0, <2>3, <2>4 DEF Onward, HeldFacts, Steady
    <3>1. loc[d].kind = "start" /\ loc[d].seen.pod # 0 => PodThere(o)' \/ ~UnderWay(o)'
      <4> SUFFICES ASSUME loc[d].kind = "start", loc[d].seen.pod # 0 PROVE ~HeldCreation(o)
        BY <2>2, <3>0 DEF SeenFacts, SteadyObjects
      <4>1. \A e \in Callers : e # d => lock[e] = "none" BY <1>0, <2>0, SoleHolder DEF Connected
      <4> QED BY <4>1, Creating DEF HeldCreation
    <3>2. pc[d] \in {"remove_svc", "remove_rest", "remove"} /\ loc[d].seen.pod = 0 => ~PodThere(o)'
      BY <2>2, <3>0, Removing DEF SeenFacts, SteadyObjects
    <3>3. pc[d] \in {"remove_rest", "remove"} /\ loc[d].seen.svc = 0 => ~svcs'[o].live /\ Gone(o)'
      BY <2>2, <3>0, GoneStays DEF SeenFacts, SteadyObjects
    <3>4. loc'[d].op = o BY <1>1, <2>2
    <3> QED BY <1>1, <3>1, <3>2, <3>3, <3>4 DEF SeenFacts, PodThere, UnderWay, Gone
  <2>7. loc[d].aim = "sealed" => [op |-> o, uid |-> starts'[o].obs.pod, stop |-> loc[d].stop] \in barriers'
    BY <2>0, <2>2, <2>3 DEF HeldFacts, Steady, Onward
  <2>8. loc'[d].op = o BY <1>1, <2>2
  <2> QED BY <1>1, <2>4, <2>7, <2>8 DEF HeldFacts
<1> QED BY <1>4, <1>5 DEF CallFacts

--------------------------------------------------------------------------------
(* Steps that change neither the journal nor a Pod or Service               *)

\* Nothing the invariant speaks of changes, except that requests may be abandoned.
LEMMA QuietObjects ==
    ASSUME FullInv, BaseInv', UNCHANGED <<starts, stops, pods, svcs, timely>>, barriers \subseteq barriers',
           \A o \in Ops : UnderWay(o)' => UnderWay(o),
           \A r \in late' : r.kind = "pod_delete" /\ r \notin late =>
               /\ r.uid = starts[r.op].obs.pod
               /\ \E s \in StopOps : stops[s].start = r.op /\ Stage(stops[s].phase) >= 1
    PROVE  ObjectInv' /\ DeleteInv' /\ SealedProofIsGenuine' /\ Onward
<1>0. BaseInv /\ ObjectInv /\ DeleteInv /\ SealedProofIsGenuine BY DEF FullInv, JournalInv, WorkerInv
<1>1. ObjectInv'
  <2>1. UidInv' BY <1>0 DEF ObjectInv, UidInv, Recorded, PodThere, Gone
  <2>2. timely' => TimelyInv' BY <1>0 DEF ObjectInv, TimelyInv, PodThere, Active, Gone
  <2> QED BY <2>1, <2>2 DEF ObjectInv
<1>2. DeleteInv' BY <1>0 DEF DeleteInv
<1>3. SealedProofIsGenuine' BY <1>0 DEF SealedProofIsGenuine
<1>4. Onward
  <2>1. \A s \in StopOps : Stage(stops[s].phase) \in Int
    BY <1>0, Stages DEF BaseInv, TypeOK, StopRow
  <2>2. \A o \in Ops : pods[o].uid \in Int BY <1>0, ConstantsAssumption DEF BaseInv, TypeOK, Pod
  <2> QED BY <2>1, <2>2 DEF Onward, PodThere
<1> QED BY <1>1, <1>2, <1>3, <1>4

\* One call moves, the others stay where they are.
Moves(c, label, held, call) ==
    /\ pc'[c] = label /\ lock'[c] = held /\ loc'[c] = call
    /\ \A d \in Callers : d # c => pc'[d] = pc[d] /\ lock'[d] = lock[d] /\ loc'[d] = loc[d]

LEMMA ReturnMoves ==
    ASSUME BaseInv, NEW c \in Callers, Return(c)
    PROVE  Moves(c, "idle", "none", NoCall)
  BY DEF BaseInv, TypeOK, Return, Leave, Moves

LEMMA GotoMoves ==
    ASSUME BaseInv, NEW c \in Callers, NEW label, NEW call, Goto(c, label), loc' = [loc EXCEPT ![c] = call]
    PROVE  Moves(c, label, lock[c], call)
  BY DEF BaseInv, TypeOK, Goto, Moves

LEMMA IdleFacts == \A held : held = "none" => CallFacts(NoCall, "idle", held)
  BY ConstantsAssumption DEF CallFacts, KnownFacts, NoCall

LEMMA LocalWorker ==
    ASSUME FullInv, BaseInv', NEW c \in Callers, NEW label, NEW held, NEW call,
           Moves(c, label, held, call), label # "create",
           UNCHANGED <<starts, stops, pods, svcs, timely, barriers, late>>, CallFacts(call, label, held)
    PROVE  WorkerInv'
<1>1. \A o \in Ops : UnderWay(o)' => UnderWay(o) BY DEF UnderWay, Moves
<1>2. ObjectInv' /\ DeleteInv' /\ SealedProofIsGenuine' /\ Onward BY <1>1, QuietObjects
<1>3. \A o \in Ops : Steady(o) BY <1>1 DEF Steady, SteadyObjects, PodThere
<1>4. CallFacts(loc[c], pc[c], lock[c])'
  <2>1. CallFacts(loc'[c], pc'[c], lock'[c]) BY DEF Moves
  <2>2. loc'[c].kind = "start" /\ lock'[c] # "none" => loc'[c].op \in Ops
    BY DEF BaseInv, CallInv, CallShape
  <2>3. KnownFacts(loc[c], pc[c])' BY <2>1 DEF CallFacts, KnownFacts, Recorded, PodThere
  <2>4. lock'[c] # "none" => HeldFacts(loc[c], pc[c])'
    BY <1>1, <2>1, <2>2 DEF CallFacts, HeldFacts, SeenFacts, PodThere, Gone
  <2> QED BY <2>3, <2>4 DEF CallFacts
<1>5. \A d \in Callers : d # c => CallFacts(loc[d], pc[d], lock[d])'
  BY <1>2, <1>3, OtherFacts DEF Moves
<1> QED BY <1>2, <1>4, <1>5 DEF WorkerInv, FactsInv

LEMMA ReturnWorker ==
    ASSUME FullInv, BaseInv', NEW c \in Callers, Return(c),
           UNCHANGED <<starts, stops, pods, svcs, timely, barriers, late>>
    PROVE  WorkerInv'
<1>1. Moves(c, "idle", "none", NoCall) BY ReturnMoves DEF FullInv, JournalInv
<1> QED BY <1>1, IdleFacts, LocalWorker

\* The facts of a call survive where only its place and unrelated columns change.
LEMMA PlainFacts ==
    ASSUME NEW call, NEW at, NEW held, CallFacts(call, at, held), NEW after, NEW label,
           label \notin {"accept_insert", "accept_bind", "lock", "create", "checkpoint_sealed"} \cup RemoveLabels,
           after.kind = call.kind, after.op = call.op, after.seen.pod = call.seen.pod,
           after.stop = call.stop, after.aim = "sealed" => call.aim = "sealed"
    PROVE  CallFacts(after, label, held)
  BY DEF CallFacts, KnownFacts, HeldFacts, SeenFacts

\* Having seen no Pod claims nothing about UIDs.
LEMMA SeenNothing ==
    ASSUME FullInv
    PROVE  \A o \in Ops : pods[o].uid \in Nat /\ 0 <= pods[o].uid
  BY ConstantsAssumption DEF FullInv, JournalInv, BaseInv, TypeOK, Pod

LEMMA CheckWorker ==
    ASSUME FullInv, BaseInv', NEW c \in Callers, NEW ok, NEW label, NEW seen, Check(c, ok, label, seen),
           label # "create", UNCHANGED <<starts, stops, pods, svcs, timely, barriers, late>>,
           ok => CallFacts([loc[c] EXCEPT !.seen = seen], label, lock[c])
    PROVE  WorkerInv'
<1> DEFINE call == [loc[c] EXCEPT !.seen = seen]
<1>0. BaseInv BY DEF FullInv, JournalInv
<1>1. CASE ok
  <2>1. Moves(c, label, lock[c], call) BY <1>0, <1>1, GotoMoves DEF Check
  <2>2. CallFacts(call, label, lock[c]) BY <1>1
  <2> HIDE DEF call
  <2> QED BY <2>1, <2>2, LocalWorker
<1>2. CASE ~ok BY <1>2, ReturnWorker DEF Check
<1> QED BY <1>1, <1>2

LEMMA MyFacts ==
    ASSUME FullInv, NEW c \in Callers
    PROVE  /\ CallFacts(loc[c], pc[c], lock[c])
           /\ BaseInv /\ CallShape(loc[c], pc[c], lock[c]) /\ loc[c] \in Locals
  BY FieldTypes DEF FullInv, JournalInv, WorkerInv, FactsInv

\* Reading with a Pod that is there, or with the Pod read before.
LEMMA ReadWorker ==
    ASSUME FullInv, BaseInv', NEW c \in Callers, NEW ok, NEW label, NEW seen, Check(c, ok, label, seen),
           label \notin {"accept_insert", "accept_bind", "lock", "create", "checkpoint_sealed"} \cup RemoveLabels,
           UNCHANGED <<starts, stops, pods, svcs, timely, barriers, late>>,
           ok => \/ seen.pod \in {0, loc[c].seen.pod}
                 \/ PodThere(loc[c].op) /\ seen.pod = pods[loc[c].op].uid
    PROVE  WorkerInv'
<1> DEFINE call == [loc[c] EXCEPT !.seen = seen]
<1>1. CallFacts(loc[c], pc[c], lock[c]) /\ loc[c] \in Locals BY MyFacts
<1>2. call.kind = loc[c].kind /\ call.op = loc[c].op /\ call.seen = seen /\ call.aim = loc[c].aim /\ call.stop = loc[c].stop
  BY <1>1 DEF Locals
<1>3. ok => CallFacts(call, label, lock[c])
  <2> HIDE DEF call
  <2>1. call.op \in Ops => pods[call.op].uid \in Nat
    BY ConstantsAssumption DEF FullInv, JournalInv, BaseInv, TypeOK, Pod
  <2> QED BY <1>1, <1>2, <2>1 DEF CallFacts, KnownFacts, HeldFacts, SeenFacts
<1> QED BY <1>3, CheckWorker

--------------------------------------------------------------------------------
(* The steps of a call that only read                                       *)

LEMMA WorkerBegin ==
    ASSUME FullInv, BaseInv', NEW c \in Callers, Begin(c)
    PROVE  WorkerInv'
<1>0. BaseInv BY DEF FullInv, JournalInv
<1> PICK o \in Ops, g \in 1..MaxGeneration, p \in Profiles :
       \/ BeginStart(c, o, g, p)
       \/ BeginAccess(c, o, g, p)
       \/ \E s \in StopOps, boot \in 1..MaxUid : BeginStop(c, o, g, p, s, boot)
  BY DEF Begin
<1>1. UNCHANGED <<starts, stops, pods, svcs, timely, barriers, late>>
  BY DEF BeginStart, BeginAccess, BeginStop, journal, cluster
<1>2. ASSUME NEW call, NEW held, NEW label \in {"accept_authorize", "authorize"},
             pc' = [pc EXCEPT ![c] = label], lock' = [lock EXCEPT ![c] = held],
             loc' = [loc EXCEPT ![c] = call], call.seen = NoSeen, call.aim = "none"
      PROVE  WorkerInv'
  <2>1. Moves(c, label, held, call) BY <1>0, <1>2 DEF Moves, BaseInv, TypeOK
  <2>2. CallFacts(call, label, held) BY <1>2, SeenNothing DEF CallFacts, KnownFacts, HeldFacts, SeenFacts, NoSeen
  <2> QED BY <1>1, <2>1, <2>2, LocalWorker
<1>3. CASE BeginStart(c, o, g, p)
  <2> DEFINE call == [NoCall EXCEPT !.kind = "start", !.op = o, !.gen = g, !.prof = p]
  <2>1. call.seen = NoSeen /\ call.aim = "none" BY DEF NoCall
  <2> HIDE DEF call
  <2> QED BY <1>2, <1>3, <2>1 DEF BeginStart, call
<1>4. CASE BeginAccess(c, o, g, p)
  <2> DEFINE call == [NoCall EXCEPT !.kind = "access", !.op = o, !.gen = g, !.prof = p]
  <2>1. call.seen = NoSeen /\ call.aim = "none" BY DEF NoCall
  <2> HIDE DEF call
  <2> QED BY <1>2, <1>4, <2>1 DEF BeginAccess, call
<1>5. ASSUME NEW s \in StopOps, NEW boot \in 1..MaxUid, BeginStop(c, o, g, p, s, boot)
      PROVE  WorkerInv'
  <2> DEFINE call == [NoCall EXCEPT !.kind = "stop", !.op = o, !.gen = g, !.prof = p, !.stop = s, !.boot = boot]
  <2>1. call.seen = NoSeen /\ call.aim = "none" BY DEF NoCall
  <2> HIDE DEF call
  <2> QED BY <1>2, <1>5, <2>1 DEF BeginStop, call
<1> QED BY <1>3, <1>4, <1>5

LEMMA WorkerEntry ==
    ASSUME FullInv, BaseInv', NEW c \in Callers,
           \/ Authorize(c) \/ AcceptCheck(c) \/ AcceptReplay(c) \/ AcceptInspect(c)
           \/ AcceptRefuse(c) \/ AcquireLock(c)
    PROVE  WorkerInv'
<1>0. BaseInv /\ CallFacts(loc[c], pc[c], lock[c]) /\ loc[c] \in Locals BY MyFacts
<1>1. UNCHANGED <<starts, stops, pods, svcs, timely, barriers, late>>
  BY DEF Authorize, AcceptCheck, AcceptReplay, AcceptInspect, AcceptRefuse, AcquireLock, journal, cluster
<1>2. CASE Authorize(c)
  <2>1. CASE installation # 0
    <3> DEFINE label == IF pc[c] = "authorize" THEN "load" ELSE "accept_check"
               call == [loc[c] EXCEPT !.auth = installation]
    <3>1. Moves(c, label, lock[c], call) BY <1>0, <1>2, <2>1, GotoMoves DEF Authorize
    <3>2. /\ call.kind = loc[c].kind /\ call.op = loc[c].op /\ call.seen = loc[c].seen
          /\ call.aim = loc[c].aim /\ call.stop = loc[c].stop
      BY <1>0 DEF Locals
    <3>3. label \in {"load", "accept_check"} OBVIOUS
    <3> HIDE DEF label, call
    <3>4. CallFacts(call, label, lock[c]) BY <1>0, <3>2, <3>3, PlainFacts
    <3> QED BY <1>1, <3>1, <3>3, <3>4, LocalWorker
  <2>2. CASE installation = 0 BY <1>1, <1>2, <2>2, ReturnWorker DEF Authorize
  <2> QED BY <2>1, <2>2
<1>3. CASE AcceptCheck(c)
  <2>1. [loc[c] EXCEPT !.seen = NoSeen].seen = NoSeen /\ [loc[c] EXCEPT !.seen = NoSeen].aim = loc[c].aim
    BY <1>0 DEF Locals
  <2>2. loc[c].aim # "sealed" BY <1>3, MyFacts DEF AcceptCheck, CallShape
  <2>3. CallFacts([loc[c] EXCEPT !.seen = NoSeen], "accept_insert", lock[c])
    BY <2>1, <2>2, SeenNothing DEF CallFacts, KnownFacts, HeldFacts, SeenFacts, NoSeen
  <2> QED BY <1>1, <1>3, <2>3, CheckWorker DEF AcceptCheck
<1>4. CASE AcceptReplay(c)
  <2>1. CASE Commit(c)
    <3>1. Moves(c, "lock", "none", loc[c]) BY <1>0, <2>1 DEF Commit, Moves, BaseInv, TypeOK
    <3>2. \A held : held = "none" => CallFacts(loc[c], "lock", held)
      BY <1>0, <1>4 DEF CallFacts, KnownFacts, AcceptReplay
    <3> QED BY <1>1, <3>1, <3>2, LocalWorker
  <2>2. CASE Return(c) BY <1>1, <2>2, ReturnWorker
  <2> QED BY <1>4, <2>1, <2>2 DEF AcceptReplay
<1>5. CASE AcceptRefuse(c) BY <1>1, <1>5, ReturnWorker DEF AcceptRefuse
<1>6. CASE AcquireLock(c)
  <2>1. CASE LockFree
    <3>1. Moves(c, "authorize", "exclusive", loc[c])
      BY <1>0, <1>6, <2>1 DEF AcquireLock, Moves, BaseInv, TypeOK
    <3>2. loc[c].seen.pod = 0 BY <1>0, <1>6 DEF CallFacts, KnownFacts, AcquireLock
    <3>3. loc[c].aim # "sealed" BY <1>6, MyFacts DEF AcquireLock, CallShape
    <3>4. CallFacts(loc[c], "authorize", "exclusive")
      BY <3>2, <3>3, SeenNothing DEF CallFacts, KnownFacts, HeldFacts, SeenFacts
    <3> QED BY <1>1, <3>1, <3>4, LocalWorker
  <2>2. CASE ~LockFree BY <1>1, <1>6, <2>2, ReturnWorker DEF AcquireLock
  <2> QED BY <2>1, <2>2
<1>7. CASE AcceptInspect(c)
  <2> DEFINE seen == IF secretMatches(secret, loc[c].prof, 0) THEN [NoSeen EXCEPT !.sec = secret.uid] ELSE NoSeen
             call == [loc[c] EXCEPT !.seen = seen]
  <2>1. seen.pod = 0 BY DEF NoSeen
  <2>2. call.seen = seen /\ call.aim = loc[c].aim BY <1>0 DEF Locals
  <2>3. loc[c].aim # "sealed" BY <1>7, MyFacts DEF AcceptInspect, CallShape
  <2>4. PICK ok : Check(c, ok, "accept_bind", seen) BY <1>7 DEF AcceptInspect
  <2> HIDE DEF seen
  <2>5. CallFacts(call, "accept_bind", lock[c])
    <3> HIDE DEF call
    <3> QED BY <2>1, <2>2, <2>3, SeenNothing DEF CallFacts, KnownFacts, HeldFacts, SeenFacts
  <2> QED BY <1>1, <2>4, <2>5, CheckWorker
<1> QED BY <1>2, <1>3, <1>4, <1>5, <1>6, <1>7

LEMMA WorkerLoad ==
    ASSUME FullInv, BaseInv', NEW c \in Callers, Load(c)
    PROVE  WorkerInv'
<1> DEFINE row == starts[loc[c].op]
           visit == Visit(loc[c].kind, row.phase)
           aim == CASE visit = "claim" -> "ensure"
                    [] visit = "stop" -> "stop"
                    [] OTHER -> "verify"
           call == [loc[c] EXCEPT !.rec = row, !.fresh = TRUE, !.aim = aim]
           ok == installationMatches(c) /\ row.phase # "none" /\ sameRecord(row, loc[c]) /\ visit # "idle"
<1>0. BaseInv /\ CallFacts(loc[c], pc[c], lock[c]) /\ loc[c] \in Locals BY MyFacts
<1>1. UNCHANGED <<starts, stops, pods, svcs, timely, barriers, late>> BY DEF Load, journal, cluster
<1>2. CASE ok
  <2>1. Goto(c, visit) /\ loc' = [loc EXCEPT ![c] = call] BY <1>2 DEF Load
  <2>2. /\ call.kind = loc[c].kind /\ call.op = loc[c].op /\ call.seen = loc[c].seen
        /\ call.aim = aim /\ call.stop = loc[c].stop
    BY <1>0 DEF Locals
  <2>3. aim # "sealed" /\ visit \in {"claim", "observe_pod", "stop", "idle"} BY DEF Visit
  <2> HIDE DEF call, visit, aim
  <2>4. CallFacts(call, visit, lock[c]) BY <1>0, <2>2, <2>3, PlainFacts
  <2>5. Moves(c, visit, lock[c], call) BY <1>0, <2>1, GotoMoves
  <2> QED BY <1>1, <2>3, <2>4, <2>5, LocalWorker
<1>3. CASE ~ok BY <1>1, <1>3, ReturnWorker DEF Load
<1> QED BY <1>2, <1>3

LEMMA WorkerEnsure ==
    ASSUME FullInv, BaseInv', NEW c \in Callers,
           ClaimVolume(c) \/ EnsurePod(c) \/ EnsureService(c) \/ EnsureSecretAndVolume(c)
    PROVE  WorkerInv'
<1>0. BaseInv /\ CallFacts(loc[c], pc[c], lock[c]) /\ loc[c] \in Locals /\ loc[c].seen \in Seen
  BY MyFacts, FieldTypes
<1>1. UNCHANGED <<starts, stops, pods, svcs, timely, barriers, late>>
  BY DEF ClaimVolume, EnsurePod, EnsureService, EnsureSecretAndVolume, journal, cluster
<1>2. CASE ClaimVolume(c)
  <2>1. CASE claimed = loc[c].prof \/ (claimed = NoProfile /\ InspectVolume(NoOp, 0))
    <3>1. Moves(c, "ensure_pod", lock[c], loc[c])
      BY <1>0, <1>2, <2>1 DEF ClaimVolume, Goto, Moves, BaseInv, TypeOK
    <3>2. CallFacts(loc[c], "ensure_pod", lock[c]) BY <1>0, PlainFacts
    <3> QED BY <1>1, <3>1, <3>2, LocalWorker
  <2>2. CASE ~(claimed = loc[c].prof \/ (claimed = NoProfile /\ InspectVolume(NoOp, 0)))
    BY <1>1, <1>2, <2>2, ReturnWorker DEF ClaimVolume
  <2> QED BY <2>1, <2>2
<1>3. CASE EnsurePod(c)
  <2>1. NoSeen.pod = 0 BY DEF NoSeen
  <2>2. CASE pods[loc[c].op].status = "absent"
    BY <1>1, <1>3, <2>1, <2>2, ReadWorker DEF EnsurePod
  <2>3. CASE pods[loc[c].op].status # "absent"
    <3> DEFINE seen == [NoSeen EXCEPT !.pod = pods[loc[c].op].uid, !.status = pods[loc[c].op].status]
    <3>1. seen.pod = pods[loc[c].op].uid BY DEF NoSeen
    <3>2. PICK ok : Check(c, ok, "ensure_svc", seen) BY <1>3, <2>3 DEF EnsurePod
    <3> HIDE DEF seen
    <3> QED BY <1>1, <2>3, <3>1, <3>2, ReadWorker DEF PodThere
  <2> QED BY <2>2, <2>3
<1>4. CASE EnsureService(c)
  <2> DEFINE seen == [loc[c].seen EXCEPT !.svc = svcs[loc[c].op].uid]
  <2>1. seen.pod = loc[c].seen.pod BY <1>0 DEF Seen
  <2>2. \E ok : Check(c, ok, "ensure_rest", loc[c].seen) \/ Check(c, ok, "ensure_rest", seen)
    BY <1>4 DEF EnsureService
  <2> HIDE DEF seen
  <2> QED BY <1>1, <2>1, <2>2, ReadWorker
<1>5. CASE EnsureSecretAndVolume(c)
  <2> DEFINE seen == [loc[c].seen EXCEPT !.sec = secret.uid]
  <2>1. seen.pod = loc[c].seen.pod BY <1>0 DEF Seen
  <2>2. \E ok : Check(c, ok, "checkpoint", loc[c].seen) \/ Check(c, ok, "checkpoint", seen)
    BY <1>5 DEF EnsureSecretAndVolume
  <2> HIDE DEF seen
  <2> QED BY <1>1, <2>1, <2>2, ReadWorker
<1> QED BY <1>2, <1>3, <1>4, <1>5

LEMMA WorkerObserve ==
    ASSUME FullInv, BaseInv', NEW c \in Callers,
           ObservePod(c) \/ ObserveRest(c) \/ Probe(c) \/ Certify(c) \/ Grant(c) \/ SealRefused(c)
    PROVE  WorkerInv'
<1>0. BaseInv /\ CallFacts(loc[c], pc[c], lock[c]) /\ loc[c] \in Locals /\ loc[c].seen \in Seen
  BY MyFacts, FieldTypes
<1>1. UNCHANGED <<starts, stops, pods, svcs, timely, barriers, late>>
  BY DEF ObservePod, ObserveRest, Probe, Certify, Grant, SealRefused, journal, cluster
<1>2. CASE ObservePod(c)
  <2> DEFINE p == pods[loc[c].op]
             ok == podMatches(p, loc[c].rec.obs.pod)
             seen == [loc[c].seen EXCEPT !.pod = p.uid, !.status = p.status]
  <2>1. Check(c, ok, "observe_rest", seen) BY <1>2 DEF ObservePod
  <2>2. ok => PodThere(loc[c].op) /\ seen.pod = pods[loc[c].op].uid BY <1>0 DEF podMatches, PodThere, Seen
  <2> HIDE DEF ok, seen
  <2> QED BY <1>1, <2>1, <2>2, ReadWorker
<1>3. CASE ObserveRest(c)
  <2> DEFINE o == loc[c].op
             seen == [loc[c].seen EXCEPT !.svc = svcs[o].uid, !.sec = secret.uid]
             call == [loc[c] EXCEPT !.seen = seen]
             label == AfterObservation(loc[c].aim)
             ok == /\ serviceMatches(svcs[o], loc[c].rec.obs.svc)
                   /\ secretMatches(secret, loc[c].prof, loc[c].rec.obs.sec)
                   /\ InspectVolume(o, loc[c].seen.pod) /\ claimed = loc[c].prof
  <2>1. Check(c, ok, label, seen) BY <1>3 DEF ObserveRest
  <2>2. /\ call.kind = loc[c].kind /\ call.op = loc[c].op /\ call.seen.pod = loc[c].seen.pod
        /\ call.aim = loc[c].aim /\ call.stop = loc[c].stop
    BY <1>0 DEF Locals, Seen
  <2>3. loc[c].aim \in Aims /\ loc[c].aim # "none"
    BY <1>3, MyFacts DEF ObserveRest, CallShape, Locals
  <2>4. /\ label \in {"checkpoint_observed", "probe", "certify", "seal", "checkpoint_sealed"}
        /\ label = "checkpoint_sealed" => loc[c].aim = "sealed"
    BY <2>3 DEF AfterObservation, Aims
  <2>5. CallFacts(call, label, lock[c])
    <3> HIDE DEF call, label
    <3> QED BY <1>0, <2>2, <2>4 DEF CallFacts, KnownFacts, HeldFacts, SeenFacts
  <2> HIDE DEF seen, label, ok
  <2> QED BY <1>1, <2>1, <2>4, <2>5, CheckWorker
<1>4. CASE Probe(c)
  <2> DEFINE seen == [loc[c].seen EXCEPT !.boot = pods[loc[c].op].uid]
             call == [loc[c] EXCEPT !.seen = seen, !.aim = "verified"]
  <2>1. Return(c) \/ (Goto(c, "observe_pod") /\ loc' = [loc EXCEPT ![c] = call]) BY <1>4 DEF Probe
  <2>2. /\ call.kind = loc[c].kind /\ call.op = loc[c].op /\ call.seen.pod = loc[c].seen.pod
        /\ call.aim = "verified" /\ call.stop = loc[c].stop
    BY <1>0 DEF Locals, Seen
  <2> HIDE DEF call
  <2>3. CallFacts(call, "observe_pod", lock[c]) BY <1>0, <2>2, PlainFacts
  <2> QED BY <1>0, <1>1, <2>1, <2>3, GotoMoves, LocalWorker, ReturnWorker
<1>5. CASE Certify(c) BY <1>1, <1>5, ReadWorker DEF Certify
<1>6. CASE Grant(c) \/ SealRefused(c) BY <1>1, <1>6, ReturnWorker DEF Grant, SealRefused
<1> QED BY <1>2, <1>3, <1>4, <1>5, <1>6

LEMMA WorkerReplayStop ==
    ASSUME FullInv, BaseInv', NEW c \in Callers, ReplayStop(c)
    PROVE  WorkerInv'
<1> DEFINE row == stops[loc[c].stop]
           ok == Connected(c) /\ scanStop(row, loc[c]) /\ row.phase # "stopped"
           call == [loc[c] EXCEPT !.prog = row.phase]
           label == IF row.phase = "accepted" THEN "observe_pod" ELSE "remove_node"
<1>0. /\ BaseInv /\ CallFacts(loc[c], pc[c], lock[c]) /\ loc[c] \in Locals /\ HolderCopyCurrent
      /\ CallShape(loc[c], pc[c], lock[c])
  BY MyFacts DEF FullInv, JournalInv
<1>1. UNCHANGED <<starts, stops, pods, svcs, timely, barriers, late>> BY DEF ReplayStop, journal, cluster
<1>2. CASE ok
  <2>1. Goto(c, label) /\ loc' = [loc EXCEPT ![c] = call] BY <1>2 DEF ReplayStop
  <2>2. /\ call.kind = loc[c].kind /\ call.op = loc[c].op /\ call.seen = loc[c].seen /\ call.rec = loc[c].rec
        /\ call.aim = loc[c].aim /\ call.stop = loc[c].stop /\ call.prog = row.phase
    BY <1>0 DEF Locals
  <2>3. label \in {"observe_pod", "remove_node"} OBVIOUS
  <2>4. /\ loc[c].rec.phase # "none" /\ loc[c].stop \in StopOps BY <1>0 DEF ReplayStop, CallShape
  <2>5. starts[loc[c].op].obs.pod = loc[c].rec.obs.pod BY <1>0, <1>2, <2>4 DEF HolderCopyCurrent
  <2>6. row.start = loc[c].op BY <1>2 DEF scanStop
  <2>7. Stage(row.phase) \in Int BY SMTT(40), <1>0, <2>4, Stages DEF BaseInv, TypeOK, StopRow
  <2>8. Moves(c, label, lock[c], call)
    <3> HIDE DEF call, label
    <3> QED BY <1>0, <2>1, GotoMoves
  <2> HIDE DEF call, label
  <2>9. KnownFacts(call, label) BY <1>0, <2>2, <2>3, <2>5, <2>6, <2>7 DEF CallFacts, KnownFacts
  <2>10. CallFacts(call, label, lock[c]) BY <1>0, <2>2, <2>3, <2>9 DEF CallFacts, HeldFacts, SeenFacts
  <2> QED BY <1>1, <2>3, <2>8, <2>10, LocalWorker
<1>3. CASE ~ok BY <1>1, <1>3, ReturnWorker DEF ReplayStop
<1> QED BY <1>2, <1>3

\* The reads of RemoveWorker: what is committed stays known, what was seen is added.
LEMMA RemoveReads ==
    ASSUME FullInv, BaseInv', NEW c \in Callers, NEW ok, NEW label, NEW seen, Check(c, ok, label, seen),
           pc[c] \in RemoveLabels, label \in RemoveLabels,
           UNCHANGED <<starts, stops, pods, svcs, timely, barriers, late>>,
           ok /\ label \in {"remove_svc", "remove_rest", "remove"} =>
             /\ seen.pod # 0 => seen.pod = loc[c].rec.obs.pod /\ seen.status # "absent"
             /\ seen.pod = 0 => ~Recorded(loc[c].op)
             /\ timely /\ Connected(c) /\ seen.pod = 0 => ~PodThere(loc[c].op),
           ok /\ label \in {"remove_rest", "remove"} =>
             (timely /\ Connected(c) /\ seen.svc = 0 => ~svcs[loc[c].op].live /\ Gone(loc[c].op)),
           ok => seen.pod <= pods[loc[c].op].uid
    PROVE  WorkerInv'
<1> DEFINE call == [loc[c] EXCEPT !.seen = seen]
<1>1. CallFacts(loc[c], pc[c], lock[c]) /\ loc[c] \in Locals BY MyFacts
<1>2. /\ call.kind = loc[c].kind /\ call.op = loc[c].op /\ call.seen = seen /\ call.aim = loc[c].aim
      /\ call.stop = loc[c].stop /\ call.rec = loc[c].rec /\ call.prog = loc[c].prog
  BY <1>1 DEF Locals
<1>3. loc[c].kind = "stop" BY Removing
<1>4. ok => CallFacts(call, label, lock[c])
  <2> HIDE DEF call
  <2> QED BY SMTT(40), <1>1, <1>2, <1>3 DEF CallFacts, KnownFacts, HeldFacts, SeenFacts, Connected
<1> QED BY <1>4, CheckWorker

LEMMA WorkerRemoveReads ==
    ASSUME FullInv, BaseInv', NEW c \in Callers,
           RemoveNode(c) \/ RemovePod(c) \/ RemoveService(c) \/ RemoveSecretAndVolume(c)
    PROVE  WorkerInv'
<1> DEFINE o == loc[c].op
           prog == loc[c].prog
           seen == loc[c].seen
<1>0. /\ BaseInv /\ CallFacts(loc[c], pc[c], lock[c]) /\ seen \in Seen /\ loc[c].rec.phase # "none"
      /\ ObjectInv /\ HolderCopyCurrent /\ HolderStop /\ pc[c] \in RemoveLabels
  BY MyFacts, FieldTypes
  DEF FullInv, JournalInv, WorkerInv, RemoveNode, RemovePod, RemoveService, RemoveSecretAndVolume, CallShape
<1>1. UNCHANGED <<starts, stops, pods, svcs, timely, barriers, late>>
  BY DEF RemoveNode, RemovePod, RemoveService, RemoveSecretAndVolume, journal, cluster
<1>2. /\ o \in Ops /\ loc[c].rec.obs.pod # 0 /\ loc[c].stop \in StopOps
      /\ prog \in {"sealed", "pod_delete_requested", "pod_deleted", "service_delete_requested"}
  BY <1>0, Removing
<1>3. NoSeen.pod = 0 /\ NoSeen.svc = 0 /\ 0 <= pods[o].uid BY <1>2, SeenNothing DEF NoSeen
<1>8. seen.pod <= pods[o].uid /\ pods[o].uid <= pods[o].uid
  BY <1>0, <1>2, SeenNothing DEF CallFacts, KnownFacts
<1>4. CASE RemoveNode(c) BY <1>0, <1>1, <1>3, <1>4, RemoveReads DEF RemoveNode
<1>5. CASE RemovePod(c)
  <2> DEFINE p == pods[o]
             uid == loc[c].rec.obs.pod
             stage == Stage(prog)
             there == [NoSeen EXCEPT !.pod = p.uid, !.status = p.status]
  <2>1. there.pod = p.uid /\ there.status = p.status BY DEF NoSeen
  <2>2. CASE p.status = "absent"
    <3>1. Check(c, stage >= 1, "remove_svc", NoSeen) BY <1>5, <2>2 DEF RemovePod
    <3>2. ~PodThere(o) /\ ~Recorded(o) BY <2>2 DEF PodThere, Recorded
    <3> HIDE DEF stage
    <3> QED BY <1>0, <1>1, <1>3, <3>1, <3>2, RemoveReads
  <2>3. CASE p.status # "absent"
    <3>1. p.uid # 0 BY <1>0, <1>2, <2>3 DEF ObjectInv, UidInv, PodThere
    <3>2. PICK ok : Check(c, ok, "remove_svc", there) /\ (ok => p.uid = uid)
      BY <1>2, <1>5, <2>3 DEF RemovePod, podMatches
    <3> HIDE DEF there, uid
    <3> QED BY <1>0, <1>1, <1>8, <2>1, <2>3, <3>1, <3>2, RemoveReads DEF uid
  <2> QED BY <2>2, <2>3
<1>6. CASE RemoveService(c)
  <2> DEFINE s == svcs[o]
             there == [seen EXCEPT !.svc = s.uid]
  <2>0. pc[c] = "remove_svc" BY <1>6 DEF RemoveService
  <2>1. there.pod = seen.pod /\ there.svc = s.uid /\ there.status = seen.status BY <1>0 DEF Seen
  <2>2. /\ seen.pod # 0 => seen.pod = loc[c].rec.obs.pod /\ seen.status # "absent"
        /\ seen.pod = 0 => ~Recorded(o)
        /\ timely /\ Connected(c) /\ seen.pod = 0 => ~PodThere(o)
    BY <1>0, <2>0 DEF CallFacts, KnownFacts, HeldFacts, SeenFacts, Connected
  <2>3. CASE ~s.live
    <3>1. Check(c, Stage(prog) >= 3, "remove_rest", seen) BY <1>6, <2>3 DEF RemoveService
    <3>2. Connected(c) /\ Stage(prog) >= 3 => Gone(o)
      <4> SUFFICES ASSUME Connected(c), Stage(prog) >= 3 PROVE Gone(o) OBVIOUS
      <4>1. prog = "service_delete_requested" BY <1>2, Stages
      <4>2. stops[loc[c].stop].phase = prog /\ stops[loc[c].stop].start = o
        BY <1>0, <4>1 DEF HolderCopyCurrent, HolderStop
      <4> QED BY <1>2, <4>1, <4>2, Stages DEF Gone
    <3> HIDE DEF seen, prog
    <3> QED BY <1>0, <1>1, <1>8, <2>0, <2>2, <2>3, <3>1, <3>2, RemoveReads DEF seen
  <2>4. CASE s.live
    <3>1. s.uid # 0 BY <1>0, <1>2, <2>4 DEF ObjectInv, UidInv
    <3>2. PICK ok : Check(c, ok, "remove_rest", there) BY <1>6, <2>4 DEF RemoveService
    <3> HIDE DEF there
    <3> QED BY <1>0, <1>1, <1>8, <2>1, <2>2, <3>1, <3>2, RemoveReads
  <2> QED BY <2>3, <2>4
<1>7. CASE RemoveSecretAndVolume(c)
  <2>0. pc[c] = "remove_rest" BY <1>7 DEF RemoveSecretAndVolume
  <2>1. /\ seen.pod # 0 => seen.pod = loc[c].rec.obs.pod /\ seen.status # "absent"
        /\ seen.pod = 0 => ~Recorded(o)
        /\ timely /\ Connected(c) /\ seen.pod = 0 => ~PodThere(o)
        /\ timely /\ Connected(c) /\ seen.svc = 0 => ~svcs[o].live /\ Gone(o)
    BY <1>0, <2>0 DEF CallFacts, KnownFacts, HeldFacts, SeenFacts, Connected
  <2>2. PICK ok : Check(c, ok, "remove", seen) BY <1>7 DEF RemoveSecretAndVolume
  <2> QED BY <1>0, <1>1, <1>8, <2>1, <2>2, RemoveReads
<1> QED BY <1>4, <1>5, <1>6, <1>7

--------------------------------------------------------------------------------
(* Steps that change a Pod, a Service or a barrier                          *)

\* Others are untouched by a step, so theirs are the facts they had.
LEMMA RestOfFacts ==
    ASSUME FullInv, BaseInv', NEW c \in Callers, NEW label, NEW held, NEW call, Moves(c, label, held, call),
           Onward, \A d \in Callers : d # c /\ lock[d] # "none" => \A o \in Ops : o = loc[d].op => Steady(o),
           CallFacts(loc[c], pc[c], lock[c])'
    PROVE  FactsInv'
<1>1. \A d \in Callers : d # c => CallFacts(loc[d], pc[d], lock[d])'
  BY OtherFacts DEF Moves
<1> QED BY <1>1 DEF FactsInv

LEMMA IdleFactsNext ==
    ASSUME NEW c \in Callers, Moves(c, "idle", "none", NoCall)
    PROVE  CallFacts(loc[c], pc[c], lock[c])'
  BY ConstantsAssumption DEF Moves, CallFacts, KnownFacts, NoCall

LEMMA WorkerCreateSecret ==
    ASSUME FullInv, BaseInv', NEW c \in Callers, CreateSecret(c)
    PROVE  WorkerInv'
<1> DEFINE seen == [loc[c].seen EXCEPT !.sec = secret.uid + 1]
           call == [loc[c] EXCEPT !.seen = seen]
<1>0. BaseInv /\ CallFacts(loc[c], pc[c], lock[c]) /\ loc[c] \in Locals /\ loc[c].seen \in Seen
  BY MyFacts, FieldTypes
<1>1. UNCHANGED <<starts, stops, pods, svcs, timely, barriers, late>> BY DEF CreateSecret, journal
<1>2. Return(c) \/ (Goto(c, "checkpoint") /\ loc' = [loc EXCEPT ![c] = call]) BY DEF CreateSecret
<1>3. /\ call.kind = loc[c].kind /\ call.op = loc[c].op /\ call.seen.pod = loc[c].seen.pod
      /\ call.aim = loc[c].aim /\ call.stop = loc[c].stop
  BY <1>0 DEF Locals, Seen
<1> HIDE DEF call
<1>4. CallFacts(call, "checkpoint", lock[c]) BY <1>0, <1>3, PlainFacts
<1> QED BY <1>0, <1>1, <1>2, <1>4, GotoMoves, LocalWorker, ReturnWorker

LEMMA WorkerSeal ==
    ASSUME FullInv, BaseInv', NEW c \in Callers, Seal(c)
    PROVE  WorkerInv'
<1> DEFINE call == [loc[c] EXCEPT !.aim = "sealed"]
           obs == loc[c].rec.obs
<1>0. /\ BaseInv /\ CallFacts(loc[c], pc[c], lock[c]) /\ loc[c] \in Locals /\ HolderCopyCurrent
      /\ loc[c].rec.phase # "none" /\ loc[c].kind = "stop"
  BY MyFacts DEF FullInv, JournalInv, Seal, CallShape
<1>1. /\ UNCHANGED <<starts, stops, pods, svcs, timely, late>>
      /\ barriers' = barriers \cup {[op |-> loc[c].op, uid |-> obs.pod, stop |-> loc[c].stop]}
      /\ Goto(c, "observe_pod") /\ loc' = [loc EXCEPT ![c] = call]
  BY DEF Seal, SealBy, journal
<1>2. /\ call.kind = "stop" /\ call.op = loc[c].op /\ call.stop = loc[c].stop
  BY <1>0 DEF Locals
<1>3. Moves(c, "observe_pod", lock[c], call)
  <2> HIDE DEF call
  <2> QED BY <1>0, <1>1, GotoMoves
<1> HIDE DEF call
<1>4. \A o \in Ops : UnderWay(o)' => UnderWay(o) BY <1>1, <1>3 DEF UnderWay, Moves
<1>5. ObjectInv' /\ DeleteInv' /\ SealedProofIsGenuine' /\ Onward BY <1>1, <1>4, QuietObjects
<1>6. \A o \in Ops : Steady(o) BY <1>1, <1>4 DEF Steady, SteadyObjects, PodThere
<1>7. CallFacts(loc[c], pc[c], lock[c])'
  <2>1. loc'[c] = call /\ pc'[c] = "observe_pod" /\ lock'[c] = lock[c] BY <1>3 DEF Moves
  <2>2. lock[c] # "none" => starts[loc[c].op].obs.pod = obs.pod BY <1>0 DEF HolderCopyCurrent, Connected
  <2>3. call.seen = loc[c].seen /\ pods' = pods BY <1>0, <1>1 DEF Locals, call
  <2> QED BY <1>0, <1>1, <1>2, <2>1, <2>2, <2>3 DEF CallFacts, KnownFacts, HeldFacts, SeenFacts
<1>8. FactsInv' BY <1>3, <1>5, <1>6, <1>7, RestOfFacts
<1> QED BY <1>5, <1>8 DEF WorkerInv

LEMMA HeldCreationUnrecorded ==
    ASSUME FullInv, NEW o \in Ops, HeldCreation(o)
    PROVE  starts[o].obs.pod = 0
<1>0. BaseInv /\ HolderCopyCurrent BY DEF FullInv, JournalInv
<1>1. PICK c \in Callers : pc[c] = "create" /\ lock[c] # "none" /\ loc[c].op = o BY DEF HeldCreation
<1>2. loc[c].rec.phase # "none" /\ loc[c].rec.obs = Progress(loc[c].seen)
  BY <1>0, <1>1, FieldTypes DEF CallShape
<1>3. loc[c].rec = starts[o] BY <1>0, <1>1, <1>2 DEF HolderCopyCurrent, Connected
<1>4. Progress(loc[c].seen).pod = loc[c].seen.pod BY DEF Progress, Observed
<1> QED BY <1>1, <1>2, <1>3, <1>4, Creating

\* Objects appear only where a creation is under way, under a new UID, and as long as
\* creations are timely a Pod goes only when none is that the lock holder does not answer for.
LEMMA MovedObjects ==
    ASSUME FullInv, BaseInv', UNCHANGED <<starts, stops>>, timely' => timely,
           barriers \subseteq barriers', late' \subseteq late,
           \A o \in Ops : /\ PodThere(o)' => pods'[o].uid # 0 /\ (PodThere(o) \/ UnderWay(o))
                          /\ pods'[o].uid # pods[o].uid => pods'[o].uid = pods[o].uid + 1
                          /\ PodThere(o)' /\ ~PodThere(o) => pods'[o].uid # pods[o].uid
                          /\ svcs'[o].live => svcs'[o].uid # 0 /\ (svcs[o].live \/ UnderWay(o))
                          /\ UnderWay(o)' => UnderWay(o)
                          /\ timely' /\ PodThere(o) /\ ~PodThere(o)' => ~UnderWay(o) \/ HeldCreation(o)
    PROVE  ObjectInv' /\ DeleteInv' /\ SealedProofIsGenuine' /\ Onward /\ \A o \in Ops : Steady(o)
<1>0. BaseInv /\ ObjectInv /\ DeleteInv /\ SealedProofIsGenuine BY DEF FullInv, JournalInv, WorkerInv
<1>1. \A o \in Ops : /\ pods[o].uid \in Int /\ pods'[o].uid \in Int /\ starts[o].obs.pod \in Int
                      /\ starts'[o].obs.pod = starts[o].obs.pod
  BY <1>0, ConstantsAssumption DEF BaseInv, TypeOK, Pod, StartRow, Observation
<1>2. Onward
  <2>1. \A s \in StopOps : Stage(stops[s].phase) \in Int
    BY <1>0, Stages DEF BaseInv, TypeOK, StopRow
  <2> QED BY <1>1, <2>1 DEF Onward
<1>3. UidInv'
  <2> SUFFICES ASSUME NEW o \in Ops
               PROVE  /\ PodThere(o)' => pods'[o].uid # 0
                      /\ svcs'[o].live => svcs'[o].uid # 0
                      /\ starts'[o].obs.pod <= pods'[o].uid
                      /\ Recorded(o)' => ~Gone(o)'
    BY DEF UidInv
  <2>1. /\ starts[o].obs.pod <= pods[o].uid /\ (Recorded(o) => ~Gone(o)) BY <1>0 DEF ObjectInv, UidInv
  <2>2. Gone(o)' <=> Gone(o) BY DEF Gone
  <2>3. Recorded(o)' => Recorded(o) BY <1>1, <1>2, <2>1 DEF Recorded, Onward
  <2> QED BY <1>1, <2>1, <2>2, <2>3
<1>4. ASSUME timely' PROVE TimelyInv'
  BY <1>0, <1>4, HeldCreationUnrecorded DEF ObjectInv, TimelyInv, Active, Gone
<1>5. DeleteInv' BY <1>0 DEF DeleteInv
<1>6. SealedProofIsGenuine' BY <1>0 DEF SealedProofIsGenuine
<1>7. \A o \in Ops : Steady(o) BY <1>0 DEF Steady, SteadyObjects, ObjectInv, TimelyInv
<1> QED BY <1>2, <1>3, <1>4, <1>5, <1>6, <1>7 DEF ObjectInv

LEMMA NewUids ==
    ASSUME BaseInv, NEW o \in Ops
    PROVE  /\ pods[o].uid + 1 # 0 /\ svcs[o].uid + 1 # 0
           /\ pods[o].uid + 1 # pods[o].uid
           /\ NewPod(pods[o]).uid = pods[o].uid + 1 /\ NewPod(pods[o]).status = "pending"
           /\ NewObject(svcs[o]).uid = svcs[o].uid + 1 /\ NewObject(svcs[o]).live
  BY ConstantsAssumption DEF BaseInv, TypeOK, Pod, Object, NewPod, NewObject

LEMMA WorkerCreateService ==
    ASSUME FullInv, BaseInv', NEW c \in Callers, CreateService(c)
    PROVE  WorkerInv'
<1> DEFINE o == loc[c].op
           seen == [loc[c].seen EXCEPT !.svc = svcs[o].uid + 1]
           call == [loc[c] EXCEPT !.seen = seen]
<1>0. /\ BaseInv /\ ObjectInv /\ CallFacts(loc[c], pc[c], lock[c]) /\ loc[c] \in Locals /\ loc[c].seen \in Seen
      /\ svcs \in [Ops -> Object]
  BY MyFacts, FieldTypes DEF FullInv, WorkerInv, BaseInv, TypeOK
<1>1. UNCHANGED <<starts, stops, pods, timely, barriers, late>> BY DEF CreateService, journal
<1>2. CASE Creatable(svcs[o])
  <2>1. /\ Goto(c, "checkpoint") /\ loc' = [loc EXCEPT ![c] = call]
        /\ svcs' = [svcs EXCEPT ![o] = NewObject(svcs[o])]
    BY <1>2 DEF CreateService
  <2>2. o \in Ops /\ UnderWay(o) BY Creating DEF CreateService
  <2>3. /\ call.kind = loc[c].kind /\ call.op = loc[c].op /\ call.seen.pod = loc[c].seen.pod
        /\ call.aim = loc[c].aim /\ call.stop = loc[c].stop /\ call.seen.pod = 0
    BY <1>0, Creating DEF Locals, Seen, CreateService
  <2>4. \A x \in Ops : svcs'[x].live => svcs'[x].uid # 0 /\ (svcs[x].live \/ UnderWay(x))
    BY <1>0, <2>1, <2>2, NewUids DEF ObjectInv, UidInv
  <2>5. Moves(c, "checkpoint", lock[c], call)
    <3> HIDE DEF call
    <3> QED BY <1>0, <2>1, GotoMoves
  <2> HIDE DEF call
  <2>6. \A x \in Ops : UnderWay(x)' => UnderWay(x) BY <1>1, <2>5 DEF UnderWay, Moves
  <2>7. ObjectInv' /\ DeleteInv' /\ SealedProofIsGenuine' /\ Onward /\ \A x \in Ops : Steady(x)
    BY <1>0, <1>1, <2>4, <2>6, MovedObjects DEF ObjectInv, UidInv, PodThere
  <2>8. CallFacts(loc[c], pc[c], lock[c])'
    <3>1. loc'[c] = call /\ pc'[c] = "checkpoint" /\ lock'[c] = lock[c] BY <2>5 DEF Moves
    <3>2. call.aim # "sealed" BY <2>3, MyFacts DEF CreateService, CallShape
    <3>3. \A x \in Ops : 0 <= pods'[x].uid BY <1>1, SeenNothing
    <3> QED BY <2>3, <3>1, <3>2, <3>3 DEF CallFacts, KnownFacts, HeldFacts, SeenFacts
  <2>9. FactsInv' BY <2>5, <2>7, <2>8, RestOfFacts
  <2> QED BY <2>7, <2>9 DEF WorkerInv
<1>3. CASE ~Creatable(svcs[o]) BY <1>1, <1>3, ReturnWorker DEF CreateService
<1> QED BY <1>2, <1>3

LEMMA WorkerCreatePod ==
    ASSUME FullInv, BaseInv', NEW c \in Callers, CreatePod(c)
    PROVE  WorkerInv'
<1> DEFINE o == loc[c].op
           seen == [loc[c].seen EXCEPT !.pod = pods[o].uid + 1, !.status = "pending"]
           call == [loc[c] EXCEPT !.seen = seen]
<1>0. /\ BaseInv /\ ObjectInv /\ CallFacts(loc[c], pc[c], lock[c]) /\ loc[c] \in Locals /\ loc[c].seen \in Seen
      /\ pods \in [Ops -> Pod]
  BY MyFacts, FieldTypes DEF FullInv, WorkerInv, BaseInv, TypeOK
<1>1. UNCHANGED <<starts, stops, svcs, timely, barriers, late>> BY DEF CreatePod, journal
<1>2. CASE PodCreatable(pods[o])
  <2>1. /\ Goto(c, "checkpoint") /\ loc' = [loc EXCEPT ![c] = call]
        /\ pods' = [pods EXCEPT ![o] = NewPod(pods[o])]
    BY ZenonT(60), <1>2 DEF CreatePod
  <2>2. o \in Ops /\ UnderWay(o) BY Creating DEF CreatePod
  <2>3. call.op = loc[c].op /\ call.aim = loc[c].aim /\ call.seen.pod = pods[o].uid + 1 BY <1>0 DEF Locals, Seen
  <2>4. \A x \in Ops : /\ pods'[x].status # "absent" =>
                            pods'[x].uid # 0 /\ (pods[x].status # "absent" \/ UnderWay(x))
                       /\ pods[x].status # "absent" => pods'[x].status # "absent"
                       /\ pods'[x].uid # pods[x].uid => pods'[x].uid = pods[x].uid + 1
                       /\ pods'[x].status # "absent" /\ pods[x].status = "absent" => pods'[x].uid # pods[x].uid
    BY <1>0, <2>1, <2>2, NewUids DEF ObjectInv, UidInv, PodThere
  <2>5. Moves(c, "checkpoint", lock[c], call)
    <3> HIDE DEF call
    <3> QED BY <1>0, <2>1, GotoMoves
  <2> HIDE DEF call
  <2>6. \A x \in Ops : UnderWay(x)' => UnderWay(x) BY <1>1, <2>5 DEF UnderWay, Moves
  <2>7. ObjectInv' /\ DeleteInv' /\ SealedProofIsGenuine' /\ Onward /\ \A x \in Ops : Steady(x)
    BY <1>0, <1>1, <2>4, <2>6, MovedObjects DEF ObjectInv, UidInv, PodThere
  <2>8. CallFacts(loc[c], pc[c], lock[c])'
    <3>1. loc'[c] = call /\ pc'[c] = "checkpoint" /\ lock'[c] = lock[c] BY <2>5 DEF Moves
    <3>2. call.aim # "sealed" BY <2>3, MyFacts DEF CreatePod, CallShape
    <3>3. pods'[o].status = "pending" /\ pods'[o].uid = pods[o].uid + 1 /\ pods[o].uid + 1 <= pods[o].uid + 1
      BY <1>0, <2>1, <2>2, NewUids, SeenNothing
    <3> QED BY <2>3, <3>1, <3>2, <3>3 DEF CallFacts, KnownFacts, HeldFacts, SeenFacts, PodThere
  <2>9. FactsInv' BY <2>5, <2>7, <2>8, RestOfFacts
  <2> QED BY <2>7, <2>9 DEF WorkerInv
<1>3. CASE ~PodCreatable(pods[o]) BY <1>1, <1>3, ReturnWorker DEF CreatePod
<1> QED BY <1>2, <1>3

LEMMA WorkerDelete ==
    ASSUME FullInv, BaseInv', NEW c \in Callers, DeletePod(c) \/ DeleteService(c)
    PROVE  WorkerInv'
<1>0. /\ BaseInv /\ ObjectInv /\ pods \in [Ops -> Pod] /\ svcs \in [Ops -> Object]
  BY DEF FullInv, JournalInv, WorkerInv, BaseInv, TypeOK
<1>1. UNCHANGED <<starts, stops, timely, barriers, late>> /\ Return(c) BY DEF DeletePod, DeleteService, journal
<1>2. Moves(c, "idle", "none", NoCall) BY <1>0, <1>1, ReturnMoves
<1>3. \A x \in Ops : UnderWay(x)' => UnderWay(x) BY <1>1, <1>2 DEF UnderWay, Moves
<1>4. \A x \in Ops : /\ pods'[x].status # "absent" <=> pods[x].status # "absent"
                     /\ pods'[x].uid = pods[x].uid
                     /\ svcs'[x].live => svcs[x].live /\ svcs'[x].uid = svcs[x].uid
  <2>1. CASE DeletePod(c)
    <3>1. pc[c] = "remove" /\ loc[c].seen.pod # 0 BY <2>1 DEF DeletePod, Pending
    <3>2. loc[c].op \in Ops /\ loc[c].seen.status # "absent"
      BY <3>1, Removing, MyFacts DEF CallFacts, KnownFacts
    <3>3. \/ UNCHANGED pods
          \/ /\ pods[loc[c].op] = [uid |-> loc[c].seen.pod, status |-> loc[c].seen.status]
             /\ pods' = [pods EXCEPT ![loc[c].op].status = "terminating"]
      BY <2>1 DEF DeletePod
    <3> QED BY <1>0, <2>1, <3>2, <3>3 DEF DeletePod, Pod
  <2>2. CASE DeleteService(c) BY <1>0, <2>2 DEF DeleteService, Object
  <2> QED BY <2>1, <2>2
<1>5. ObjectInv' /\ DeleteInv' /\ SealedProofIsGenuine' /\ Onward /\ \A x \in Ops : Steady(x)
  BY <1>0, <1>1, <1>3, <1>4, MovedObjects DEF ObjectInv, UidInv, PodThere
<1>6. FactsInv' BY <1>2, <1>5, IdleFactsNext, RestOfFacts
<1> QED BY <1>5, <1>6 DEF WorkerInv

--------------------------------------------------------------------------------
(* Steps that write the journal: the writer is the only holder              *)

LEMMA WriterFacts ==
    ASSUME FullInv, BaseInv', NEW c \in Callers, Connected(c), loc[c].kind \in {"start", "stop"}, Onward,
           \A d \in Callers : d # c => /\ pc'[d] = pc[d] /\ lock'[d] = lock[d]
                                       /\ loc'[d] \in {loc[d], [loc[d] EXCEPT !.fresh = FALSE]},
           CallFacts(loc[c], pc[c], lock[c])'
    PROVE  FactsInv'
<1>1. \A d \in Callers : d # c => lock[d] = "none" BY SoleHolder DEF FullInv, JournalInv
<1>2. \A d \in Callers : d # c => CallFacts(loc[d], pc[d], lock[d])' BY <1>1, OtherFacts
<1> QED BY <1>2 DEF FactsInv

LEMMA StoplessStart ==
    ASSUME FullInv, NEW o \in Ops, starts[o].phase \notin {"stopping", "stopped"}
    PROVE  ~Gone(o) /\ \A s \in StopOps : stops[s].phase # "none" => stops[s].start # o
<1>0. StopsAgree /\ stops \in [StopOps -> StopRow]
  BY DEF FullInv, JournalInv, RecordInv, BaseInv, TypeOK
<1>1. \A s \in StopOps : stops[s].phase # "none" => stops[s].start # o BY <1>0 DEF StopsAgree
<1>2. \A s \in StopOps : stops[s].phase = "none" => ~(Stage(stops[s].phase) >= 2) BY Stages
<1> QED BY <1>1, <1>2 DEF Gone

\* A start row is written before any stop of it: by Accept, or by a checkpoint.
LEMMA StartWrite ==
    ASSUME FullInv, BaseInv', NEW o \in Ops, NEW row,
           starts' = [starts EXCEPT ![o] = row], UNCHANGED <<stops, pods, svcs, timely, barriers, late>>,
           starts[o].phase \notin {"stopping", "stopped"}, row.phase # "stopped",
           Active(o) => row.phase \in {"launching", "running"},
           starts[o].obs.pod # 0 => row.obs.pod = starts[o].obs.pod,
           row.obs.pod <= pods[o].uid, timely /\ row.obs.pod # 0 => PodThere(o) \/ ~UnderWay(o)',
           \A x \in Ops : UnderWay(x)' => UnderWay(x) \/ (x = o /\ row.phase = "launching")
    PROVE  ObjectInv' /\ DeleteInv' /\ SealedProofIsGenuine' /\ Onward
<1>0. /\ ObjectInv /\ DeleteInv /\ SealedProofIsGenuine
      /\ starts \in [Ops -> StartRow] /\ stops \in [StopOps -> StopRow]
  BY DEF FullInv, JournalInv, WorkerInv, BaseInv, TypeOK
<1>1. starts'[o] = row /\ \A x \in Ops : x # o => starts'[x] = starts[x] BY <1>0
<1>2. ~Gone(o) /\ \A s \in StopOps : stops[s].phase # "none" => stops[s].start # o BY StoplessStart
<1>3. ObjectInv'
  <2>0. \A x \in Ops : (PodThere(x)' <=> PodThere(x)) /\ (Gone(x)' <=> Gone(x)) BY DEF PodThere, Gone
  <2>1. UidInv'
    <3> SUFFICES ASSUME NEW x \in Ops
                 PROVE  /\ PodThere(x)' => pods'[x].uid # 0
                        /\ svcs'[x].live => svcs'[x].uid # 0
                        /\ starts'[x].obs.pod <= pods'[x].uid
                        /\ Recorded(x)' => ~Gone(x)'
      BY DEF UidInv
    <3>1. CASE x = o BY <1>0, <1>1, <1>2, <2>0, <3>1 DEF ObjectInv, UidInv
    <3>2. CASE x # o BY <1>0, <1>1, <2>0, <3>2 DEF ObjectInv, UidInv, Recorded
    <3> QED BY <3>1, <3>2
  <2>2. ASSUME timely' PROVE TimelyInv'
    <3>0. timely /\ TimelyInv BY <1>0, <2>2 DEF ObjectInv
    <3> SUFFICES ASSUME NEW x \in Ops
                 PROVE  /\ PodThere(x)' \/ UnderWay(x)' => Active(x)' /\ ~Gone(x)'
                        /\ starts'[x].obs.pod # 0 => PodThere(x)' \/ ~UnderWay(x)'
                        /\ starts'[x].phase = "stopped" => ~svcs'[x].live
      BY DEF TimelyInv
    <3>1. CASE x = o BY <1>1, <1>2, <2>0, <3>0, <3>1 DEF TimelyInv, Active
    <3>2. CASE x # o BY <1>1, <2>0, <3>0, <3>2 DEF TimelyInv, Active
    <3> QED BY <3>1, <3>2
  <2> QED BY <2>1, <2>2 DEF ObjectInv
<1>4. \A s \in StopOps : Stage(stops[s].phase) >= 1 => stops[s].start # o
  <2>1. \A s \in StopOps : stops[s].phase = "none" => ~(Stage(stops[s].phase) >= 1) BY Stages
  <2> QED BY <1>2, <2>1
<1>5. DeleteInv'
  <2> SUFFICES ASSUME NEW r \in late, r.kind = "pod_delete"
               PROVE  /\ r.uid = starts'[r.op].obs.pod
                      /\ \E s \in StopOps : stops[s].start = r.op /\ Stage(stops[s].phase) >= 1
    BY DEF DeleteInv
  <2>1. r.op \in Ops BY DEF FullInv, JournalInv, BaseInv, TypeOK, Request
  <2> QED BY <1>0, <1>1, <1>4, <2>1 DEF DeleteInv
<1>6. SealedProofIsGenuine'
  <2>1. \A s \in StopOps : stops[s].phase # "none" => stops[s].start \in Ops
    BY DEF FullInv, JournalInv, RecordInv, RowInv
  <2> QED BY <1>0, <1>1, <1>2, <2>1 DEF SealedProofIsGenuine
<1>7. Onward
  <2>1. \A s \in StopOps : Stage(stops[s].phase) \in Int BY <1>0, Stages DEF StopRow
  <2>2. \A x \in Ops : pods[x].uid <= pods[x].uid BY SeenNothing
  <2> QED BY <1>1, <2>1, <2>2 DEF Onward, PodThere
<1> QED BY <1>3, <1>5, <1>6, <1>7

LEMMA WorkerAcceptInsert ==
    ASSUME FullInv, BaseInv', NEW c \in Callers, AcceptInsert(c)
    PROVE  WorkerInv'
<1> DEFINE o == loc[c].op
<1>0. /\ BaseInv /\ RowInv /\ ObjectInv /\ CallFacts(loc[c], pc[c], lock[c])
      /\ CallShape(loc[c], pc[c], lock[c])
  BY MyFacts DEF FullInv, JournalInv, RecordInv, WorkerInv
<1>1. o \in Ops /\ loc[c].kind = "start" /\ Connected(c) BY <1>0 DEF AcceptInsert, CallShape
<1>2. UNCHANGED <<stops, pods, svcs, timely, barriers, late>> /\ starts[o].phase = "none" BY DEF AcceptInsert, cluster
<1>3. PICK sec : starts' = [starts EXCEPT ![o] = NewStart(c, sec)] BY DEF AcceptInsert
<1>4. NewStart(c, sec).phase = "accepted" /\ NewStart(c, sec).obs.pod = 0
  BY DEF NewStart, NoObservation
<1>5. Moves(c, "lock", "none", loc[c]) BY <1>0 DEF AcceptInsert, Commit, Moves, BaseInv, TypeOK
<1>6. \A x \in Ops : UnderWay(x)' => UnderWay(x) BY <1>2, <1>5 DEF UnderWay, Moves
<1>7. starts[o].obs.pod = 0 BY <1>0, <1>1, <1>2 DEF RowInv, NoStart, NoObservation
<1>8. ObjectInv' /\ DeleteInv' /\ SealedProofIsGenuine' /\ Onward
  BY <1>1, <1>2, <1>3, <1>4, <1>6, <1>7, StartWrite, SeenNothing DEF Active
<1>9. CallFacts(loc[c], pc[c], lock[c])'
  BY <1>0, <1>2, <1>5 DEF Moves, CallFacts, KnownFacts, AcceptInsert
<1>10. FactsInv' BY <1>1, <1>5, <1>8, <1>9, WriterFacts DEF Moves
<1> QED BY <1>8, <1>10 DEF WorkerInv

LEMMA WorkerAcceptBind ==
    ASSUME FullInv, BaseInv', NEW c \in Callers, AcceptBind(c)
    PROVE  WorkerInv'
<1> DEFINE o == loc[c].op
           row == NewStart(c, loc[c].seen.sec)
<1>0. /\ BaseInv /\ RowInv /\ HolderBind /\ CallFacts(loc[c], pc[c], lock[c])
      /\ CallShape(loc[c], pc[c], lock[c])
  BY MyFacts DEF FullInv, JournalInv, RecordInv, SideInv
<1>1. o \in Ops /\ loc[c].kind = "start" BY <1>0 DEF AcceptBind, CallShape
<1>2. UNCHANGED <<stops, pods, svcs, timely, barriers, late>> BY DEF AcceptBind, cluster
<1>3. CASE Connected(c)
  <2>1. starts[o].phase = "none" BY <1>0, <1>3 DEF AcceptBind, HolderBind, Binds
  <2>2. starts' = [starts EXCEPT ![o] = row] BY <1>3 DEF AcceptBind
  <2>3. row.phase = "accepted" /\ row.obs.pod = 0 BY DEF NewStart, NoObservation
  <2> HIDE DEF row
  <2>4. Moves(c, "lock", "none", loc[c]) BY <1>0, <1>3 DEF AcceptBind, Commit, Moves, BaseInv, TypeOK
  <2>5. \A x \in Ops : UnderWay(x)' => UnderWay(x) BY <1>2, <2>4 DEF UnderWay, Moves
  <2>6. starts[o].obs.pod = 0 BY <1>0, <1>1, <2>1 DEF RowInv, NoStart, NoObservation
  <2>7. ObjectInv' /\ DeleteInv' /\ SealedProofIsGenuine' /\ Onward
    BY <1>1, <1>2, <2>1, <2>2, <2>3, <2>5, <2>6, StartWrite, SeenNothing DEF Active
  <2>8. CallFacts(loc[c], pc[c], lock[c])'
    BY <1>0, <1>2, <2>4 DEF Moves, CallFacts, KnownFacts, AcceptBind
  <2>9. FactsInv' BY <1>1, <1>3, <2>4, <2>7, <2>8, WriterFacts DEF Moves
  <2> QED BY <2>7, <2>9 DEF WorkerInv
<1>4. CASE ~Connected(c) BY <1>2, <1>4, ReturnWorker DEF AcceptBind
<1> QED BY <1>3, <1>4

\* A checkpoint of a start records what was seen, whatever the call does next.
LEMMA CheckpointWrite ==
    ASSUME FullInv, BaseInv', NEW c \in Callers, NEW next, NEW row, NEW mine, NEW label, NEW held,
           loc[c].kind = "start", loc[c].op \in Ops, loc[c].aim # "sealed", checkpoint(c, next),
           row.phase \in {"launching", "running"}, row.obs = next, next.pod = loc[c].seen.pod,
           SaveStart(c, row, mine), UNCHANGED <<stops, pods, svcs, timely, barriers, late>>,
           pc' = [pc EXCEPT ![c] = label], lock' = [lock EXCEPT ![c] = held],
           \/ label = "idle" /\ held = "none"
           \/ /\ mine.kind = "start" /\ mine.op = loc[c].op /\ mine.seen = loc[c].seen
              /\ mine.aim # "sealed"
              /\ label = "observe_pod" \/ (label = "create" /\ loc[c].seen.pod = 0 /\ row.phase = "launching")
    PROVE  WorkerInv'
<1>0. BaseInv /\ HolderCopyCurrent /\ ObjectInv /\ CallFacts(loc[c], pc[c], lock[c])
  BY MyFacts DEF FullInv, JournalInv, WorkerInv
<1>1. PICK o \in Ops : o = loc[c].op OBVIOUS
<1>2. Connected(c) /\ loc[c].rec = starts[o] /\ starts[o].phase \in {"accepted", "launching"}
  BY <1>0, <1>1 DEF checkpoint, HolderCopyCurrent, Connected
<1>3. starts[o].obs.pod # 0 => row.obs.pod = starts[o].obs.pod
  BY <1>2 DEF checkpoint, monotonicObservation, Keeps
<1>4. starts' = [starts EXCEPT ![o] = row] /\ loc'[c] = mine /\ pc'[c] = label /\ lock'[c] = held
  BY <1>0, <1>1 DEF SaveStart, BaseInv, TypeOK
<1>5. \A d \in Callers : d # c => /\ pc'[d] = pc[d] /\ lock'[d] = lock[d]
                                  /\ loc'[d] \in {loc[d], [loc[d] EXCEPT !.fresh = FALSE]}
  BY <1>0 DEF SaveStart, BaseInv, TypeOK
<1>6. \A d \in Callers : d # c => loc'[d].op = loc[d].op BY <1>0, <1>5, FieldTypes DEF Locals
<1>7. \A x \in Ops : UnderWay(x)' => UnderWay(x) \/ (x = o /\ label = "create")
  BY <1>1, <1>4, <1>5, <1>6 DEF UnderWay
<1>8. timely /\ loc[c].seen.pod # 0 => PodThere(o) \/ ~UnderWay(o)
  BY <1>0, <1>1, <1>2 DEF CallFacts, HeldFacts, SeenFacts, Connected
<1>9. timely /\ row.obs.pod # 0 => PodThere(o) \/ ~UnderWay(o)' BY <1>7, <1>8
<1>13. row.obs.pod <= pods[o].uid BY <1>0, <1>1 DEF CallFacts, KnownFacts
<1>10. ObjectInv' /\ DeleteInv' /\ SealedProofIsGenuine' /\ Onward
  BY <1>2, <1>3, <1>4, <1>7, <1>9, <1>13, StartWrite
<1>11. CallFacts(loc[c], pc[c], lock[c])'
  <2>1. CASE label = "idle" /\ held = "none"
    <3>1. loc'[c].op \notin Ops BY <1>4, <2>1, ConstantsAssumption DEF BaseInv, CallInv, CallShape
    <3> QED BY <1>4, <2>1, <3>1 DEF CallFacts, KnownFacts
  <2>2. CASE ~(label = "idle" /\ held = "none")
    <3>1. KnownFacts(loc[c], pc[c])' BY <1>0, <1>4, <2>2 DEF KnownFacts, CallFacts
    <3>2. timely /\ loc[c].seen.pod # 0 => PodThere(o)' \/ ~UnderWay(o)' BY <1>7, <1>8, <2>2 DEF PodThere
    <3>3. loc'[c].op = o /\ loc'[c].seen = loc[c].seen /\ loc'[c].aim # "sealed" BY <1>1, <1>4, <2>2
    <3>4. HeldFacts(loc[c], pc[c])'
      BY <1>4, <2>2, <3>2, <3>3 DEF HeldFacts, SeenFacts, PodThere, UnderWay
    <3> QED BY <3>1, <3>4 DEF CallFacts
  <2> QED BY <2>1, <2>2
<1>12. FactsInv' BY <1>2, <1>5, <1>10, <1>11, WriterFacts
<1> QED BY <1>10, <1>12 DEF WorkerInv

LEMMA WorkerCheckpointProgress ==
    ASSUME FullInv, BaseInv', NEW c \in Callers, CheckpointProgress(c)
    PROVE  WorkerInv'
<1> DEFINE seen == loc[c].seen
           next == Progress(seen)
           row == Launching(loc[c].rec, next)
           mine == [loc[c] EXCEPT !.rec = row]
           label == IF Complete(seen) THEN "observe_pod" ELSE "create"
<1>0. BaseInv /\ CallShape(loc[c], pc[c], lock[c]) /\ loc[c] \in Locals BY MyFacts
<1>1. UNCHANGED <<stops, pods, svcs, timely, barriers, late>> BY DEF CheckpointProgress, cluster
<1>2. CASE checkpoint(c, next)
  <2>1. row.phase = "launching" /\ row.obs = next
    BY <1>0, FieldTypes DEF Launching, StartRow
  <2>2. loc[c].kind = "start" /\ loc[c].op \in Ops /\ loc[c].aim = "ensure"
    BY <1>0 DEF CheckpointProgress, CallShape
  <2>3. mine.kind = "start" /\ mine.op = loc[c].op /\ mine.seen = seen /\ mine.aim = "ensure"
    BY <1>0, <2>2 DEF Locals
  <2>4. next.pod = seen.pod /\ next.sec = seen.sec /\ next.svc = seen.svc BY DEF Progress, Observed
  <2>5. label = "observe_pod" \/ (label = "create" /\ seen.pod = 0)
    BY <1>2, <2>4 DEF checkpoint, monotonicObservation, ValidObservation, Complete
  <2>6. /\ SaveStart(c, row, mine) /\ pc' = [pc EXCEPT ![c] = label] /\ lock' = [lock EXCEPT ![c] = lock[c]]
    BY <1>0, <1>2 DEF CheckpointProgress, Goto, BaseInv, TypeOK
  <2> HIDE DEF row, mine, next, label
  <2> QED BY <1>1, <1>2, <2>1, <2>2, <2>3, <2>4, <2>5, <2>6, CheckpointWrite
<1>3. CASE ~checkpoint(c, next) BY <1>1, <1>3, ReturnWorker DEF CheckpointProgress
<1> QED BY <1>2, <1>3

LEMMA WorkerCheckpointObserved ==
    ASSUME FullInv, BaseInv', NEW c \in Callers, CheckpointObserved(c)
    PROVE  WorkerInv'
<1> DEFINE seen == loc[c].seen
           next == Observed(seen)
           row == Launching(loc[c].rec, next)
           mine == [loc[c] EXCEPT !.rec = row, !.aim = "verify"]
<1>0. BaseInv /\ CallShape(loc[c], pc[c], lock[c]) /\ loc[c] \in Locals BY MyFacts
<1>1. UNCHANGED <<stops, pods, svcs, timely, barriers, late>> BY DEF CheckpointObserved, cluster
<1>2. CASE checkpoint(c, next)
  <2>1. row.phase = "launching" /\ row.obs = next
    BY <1>0, FieldTypes DEF Launching, StartRow
  <2>2. loc[c].kind = "start" /\ loc[c].op \in Ops /\ loc[c].aim = "ensure"
    BY <1>0 DEF CheckpointObserved, CallShape
  <2>3. mine.kind = "start" /\ mine.op = loc[c].op /\ mine.seen = seen /\ mine.aim = "verify"
    BY <1>0, <2>2 DEF Locals
  <2>4. next.pod = seen.pod BY DEF Observed
  <2>5. \/ /\ SaveStart(c, row, mine)
           /\ pc' = [pc EXCEPT ![c] = "observe_pod"] /\ lock' = [lock EXCEPT ![c] = lock[c]]
        \/ /\ SaveStart(c, row, NoCall)
           /\ pc' = [pc EXCEPT ![c] = "idle"] /\ lock' = [lock EXCEPT ![c] = "none"]
    BY <1>0, <1>2 DEF CheckpointObserved, Goto, Leave, BaseInv, TypeOK
  <2> HIDE DEF row, mine, next
  <2> QED BY <1>1, <1>2, <2>1, <2>2, <2>3, <2>4, <2>5, CheckpointWrite
<1>3. CASE ~checkpoint(c, next) BY <1>1, <1>3, ReturnWorker DEF CheckpointObserved
<1> QED BY <1>2, <1>3

LEMMA WorkerCheckpointRunning ==
    ASSUME FullInv, BaseInv', NEW c \in Callers, CheckpointRunning(c)
    PROVE  WorkerInv'
<1> DEFINE next == Observed(loc[c].seen)
           row == Running(loc[c].rec, next)
           ok == loc[c].seen.status = "ready" /\ checkpoint(c, next)
<1>0. BaseInv /\ CallShape(loc[c], pc[c], lock[c]) /\ loc[c] \in Locals BY MyFacts
<1>1. UNCHANGED <<stops, pods, svcs, timely, barriers, late>> BY DEF CheckpointRunning, cluster
<1>2. CASE ok
  <2>1. row.phase = "running" /\ row.obs = next BY <1>0, FieldTypes DEF Running, StartRow
  <2>2. loc[c].kind = "start" /\ loc[c].op \in Ops /\ loc[c].aim # "sealed"
    BY <1>0 DEF CheckpointRunning, CallShape
  <2>3. next.pod = loc[c].seen.pod BY DEF Observed
  <2>4. /\ SaveStart(c, row, NoCall)
        /\ pc' = [pc EXCEPT ![c] = "idle"] /\ lock' = [lock EXCEPT ![c] = "none"]
    BY <1>2 DEF CheckpointRunning, Leave
  <2> HIDE DEF row, next
  <2> QED BY <1>1, <1>2, <2>1, <2>2, <2>3, <2>4, CheckpointWrite
<1>3. CASE ~ok BY <1>1, <1>3, ReturnWorker DEF CheckpointRunning
<1> QED BY <1>2, <1>3

\* A stop row is written, with the phase of its start.
LEMMA StopWrite ==
    ASSUME FullInv, BaseInv', NEW o \in Ops, NEW s \in StopOps, UNCHANGED <<pods, svcs, timely, barriers, late>>,
           \A x \in Ops : starts'[x].obs = starts[x].obs /\ (x # o => starts'[x] = starts[x]),
           \A t \in StopOps : t # s => stops'[t] = stops[t],
           stops'[s].start = o, stops'[s].phase # "none",
           stops[s].phase # "none" => stops[s].start = o /\ Stage(stops[s].phase) <= Stage(stops'[s].phase),
           \A x \in Ops : UnderWay(x)' => UnderWay(x),
           Recorded(o) => ~(Stage(stops'[s].phase) >= 2),
           timely /\ (PodThere(o) \/ UnderWay(o)) => Active(o)' /\ ~(Stage(stops'[s].phase) >= 2),
           timely /\ starts'[o].phase = "stopped" => ~svcs[o].live,
           stops'[s].phase # "accepted" => [op |-> o, uid |-> starts[o].obs.pod, stop |-> s] \in barriers
    PROVE  ObjectInv' /\ DeleteInv' /\ SealedProofIsGenuine' /\ Onward
<1>0. /\ ObjectInv /\ DeleteInv /\ SealedProofIsGenuine /\ stops \in [StopOps -> StopRow]
  BY DEF FullInv, JournalInv, WorkerInv, BaseInv, TypeOK
<1>1. \A x \in Ops : Gone(x)' => Gone(x) \/ (x = o /\ Stage(stops'[s].phase) >= 2)
  BY DEF Gone
<1>2. ObjectInv'
  <2>0. \A x \in Ops : PodThere(x)' <=> PodThere(x) BY DEF PodThere
  <2>1. UidInv'
    <3> SUFFICES ASSUME NEW x \in Ops
                 PROVE  /\ PodThere(x)' => pods'[x].uid # 0
                        /\ svcs'[x].live => svcs'[x].uid # 0
                        /\ starts'[x].obs.pod <= pods'[x].uid
                        /\ Recorded(x)' => ~Gone(x)'
      BY DEF UidInv
    <3>1. Recorded(x)' <=> Recorded(x) BY <2>0 DEF Recorded
    <3> QED BY <1>0, <1>1, <2>0, <3>1 DEF ObjectInv, UidInv
  <2>2. ASSUME timely' PROVE TimelyInv'
    <3>0. timely /\ TimelyInv BY <1>0, <2>2 DEF ObjectInv
    <3> SUFFICES ASSUME NEW x \in Ops
                 PROVE  /\ PodThere(x)' \/ UnderWay(x)' => Active(x)' /\ ~Gone(x)'
                        /\ starts'[x].obs.pod # 0 => PodThere(x)' \/ ~UnderWay(x)'
                        /\ starts'[x].phase = "stopped" => ~svcs'[x].live
      BY DEF TimelyInv
    <3>1. CASE x = o BY <1>1, <2>0, <3>0, <3>1 DEF TimelyInv
    <3>2. CASE x # o BY <1>1, <2>0, <3>0, <3>2 DEF TimelyInv, Active
    <3> QED BY <3>1, <3>2
  <2> QED BY <2>1, <2>2 DEF ObjectInv
<1>3. Onward
  <2>1. \A t \in StopOps : Stage(stops[t].phase) \in Int BY <1>0, Stages DEF StopRow
  <2>2. \A x \in Ops : pods[x].uid <= pods[x].uid BY SeenNothing
  <2> QED BY <2>1, <2>2 DEF Onward, PodThere
<1>4. DeleteInv'
  <2> SUFFICES ASSUME NEW r \in late, r.kind = "pod_delete"
               PROVE  /\ r.uid = starts'[r.op].obs.pod
                      /\ \E t \in StopOps : stops'[t].start = r.op /\ Stage(stops'[t].phase) >= 1
    BY DEF DeleteInv
  <2>1. r.op \in Ops BY DEF FullInv, JournalInv, BaseInv, TypeOK, Request
  <2>2. PICK t \in StopOps : stops[t].start = r.op /\ Stage(stops[t].phase) >= 1
    BY <1>0 DEF DeleteInv
  <2>3. r.uid = starts[r.op].obs.pod BY <1>0 DEF DeleteInv
  <2>4. stops[t].phase # "none" BY <2>2, Stages
  <2>5. stops'[t].start = r.op /\ Stage(stops[t].phase) <= Stage(stops'[t].phase)
    BY <1>3, <2>2, <2>4 DEF Onward
  <2>6. Stage(stops[t].phase) \in Int /\ Stage(stops'[t].phase) \in Int
    BY <1>0, Stages DEF StopRow, BaseInv, TypeOK
  <2>7. Stage(stops'[t].phase) >= 1 BY <2>2, <2>5, <2>6
  <2> QED BY <2>1, <2>3, <2>5, <2>7
<1>5. SealedProofIsGenuine'
  <2>1. \A t \in StopOps : stops[t].phase # "none" => stops[t].start \in Ops
    BY DEF FullInv, JournalInv, RecordInv, RowInv
  <2> SUFFICES ASSUME NEW t \in StopOps, stops'[t].phase \notin {"none", "accepted"}
               PROVE  [op |-> stops'[t].start, uid |-> starts'[stops'[t].start].obs.pod, stop |-> t] \in barriers'
    BY DEF SealedProofIsGenuine
  <2>2. CASE t = s BY <2>2
  <2>3. CASE t # s BY <1>0, <2>1, <2>3 DEF SealedProofIsGenuine
  <2> QED BY <2>2, <2>3
<1> QED BY <1>2, <1>3, <1>4, <1>5

LEMMA WorkeracceptStop ==
    ASSUME FullInv, BaseInv', NEW c \in Callers, acceptStop(c)
    PROVE  WorkerInv'
<1> DEFINE r == loc[c].rec
           row == [r EXCEPT !.phase = "stopping"]
           stop == [start |-> loc[c].op, boot |-> loc[c].boot, phase |-> "accepted"]
           mine == [loc[c] EXCEPT !.rec = row, !.prog = "accepted"]
           ok == /\ Connected(c) /\ loc[c].fresh
                 /\ r.phase = "running" /\ r.obs.boot = loc[c].boot
                 /\ \A t \in StopOps : stops[t].start # loc[c].op
<1>0. /\ BaseInv /\ HolderCopyCurrent /\ CallFacts(loc[c], pc[c], lock[c]) /\ loc[c] \in Locals
      /\ CallShape(loc[c], pc[c], lock[c]) /\ ObjectInv
      /\ starts \in [Ops -> StartRow] /\ stops \in [StopOps -> StopRow]
  BY MyFacts DEF FullInv, JournalInv, WorkerInv, BaseInv, TypeOK
<1>1. UNCHANGED <<pods, svcs, timely, barriers, late>> BY DEF acceptStop, cluster
<1>2. CASE ok
  <2>1. pc[c] = "stop" /\ loc[c].op \in Ops /\ loc[c].stop \in StopOps /\ loc[c].kind = "stop"
    BY <1>0 DEF acceptStop, CallShape
  <2>2. PICK o \in Ops, s \in StopOps : o = loc[c].op /\ s = loc[c].stop BY <2>1
  <2>3. r = starts[o] /\ stops[s].phase = "none"
    BY <1>0, <1>2, <2>2 DEF HolderCopyCurrent, acceptStop
  <2>4. row.phase = "stopping" /\ row.obs = r.obs BY <1>0, FieldTypes DEF StartRow
  <2>5. /\ mine.kind = "stop" /\ mine.op = o /\ mine.stop = s /\ mine.seen = loc[c].seen /\ mine.aim = loc[c].aim
    BY <1>0, <2>1, <2>2 DEF Locals
  <2>6. SaveStart(c, row, mine) /\ Goto(c, "observe_pod") /\ stops' = [stops EXCEPT ![s] = stop]
    BY <1>2, <2>2 DEF acceptStop
  <2>7. stop.start = o /\ stop.phase = "accepted" BY <2>2
  <2> HIDE DEF row, mine, stop
  <2>8. /\ starts'[o] = row /\ (\A x \in Ops : x # o => starts'[x] = starts[x])
        /\ stops'[s] = stop /\ (\A t \in StopOps : t # s => stops'[t] = stops[t])
        /\ loc'[c] = mine /\ pc'[c] = "observe_pod" /\ lock'[c] = lock[c]
    BY <1>0, <2>2, <2>6 DEF SaveStart, Goto, BaseInv, TypeOK
  <2>9. \A d \in Callers : d # c => /\ pc'[d] = pc[d] /\ lock'[d] = lock[d]
                                    /\ loc'[d] \in {loc[d], [loc[d] EXCEPT !.fresh = FALSE]}
    BY <1>0, <2>6 DEF SaveStart, Goto, BaseInv, TypeOK
  <2>10. \A d \in Callers : d # c => loc'[d].op = loc[d].op BY <1>0, <2>9, FieldTypes DEF Locals
  <2>11. \A x \in Ops : UnderWay(x)' => UnderWay(x) BY <1>1, <2>8, <2>9, <2>10 DEF UnderWay
  <2>12. Active(o)' /\ ~(Stage(stops'[s].phase) >= 2) BY <2>4, <2>7, <2>8, Stages DEF Active
  <2>13. \A x \in Ops : starts'[x].obs = starts[x].obs /\ (x # o => starts'[x] = starts[x])
    BY <2>3, <2>4, <2>8
  <2>14. ObjectInv' /\ DeleteInv' /\ SealedProofIsGenuine' /\ Onward
    BY <1>1, <2>3, <2>4, <2>7, <2>8, <2>11, <2>12, <2>13, StopWrite
  <2>15. CallFacts(loc[c], pc[c], lock[c])'
    BY <1>0, <1>1, <2>2, <2>5, <2>8, <2>13 DEF CallFacts, KnownFacts, HeldFacts, SeenFacts
  <2>16. FactsInv' BY <1>2, <2>1, <2>9, <2>14, <2>15, WriterFacts
  <2> QED BY <2>14, <2>16 DEF WorkerInv
<1>3. CASE ~ok BY <1>1, <1>3, ReturnWorker DEF acceptStop, journal
<1> QED BY <1>2, <1>3

LEMMA NextStopFacts ==
    ASSUME NEW p \in {"accepted", "sealed", "pod_delete_requested", "pod_deleted", "service_delete_requested"}
    PROVE  /\ NextStop(p) \in {"sealed", "pod_delete_requested", "pod_deleted", "service_delete_requested", "stopped"}
           /\ Stage(p) <= Stage(NextStop(p))
           /\ Stage(NextStop(p)) >= 2 => p \in {"pod_delete_requested", "pod_deleted", "service_delete_requested"}
           /\ p \in {"pod_deleted", "service_delete_requested"} => Stage(p) >= 2
           /\ NextStop(p) = "stopped" => p = "service_delete_requested"
  BY Stages DEF NextStop

LEMMA WorkerCheckpointSealed ==
    ASSUME FullInv, BaseInv', NEW c \in Callers, CheckpointSealed(c)
    PROVE  WorkerInv'
<1> DEFINE call == [loc[c] EXCEPT !.prog = "sealed"]
<1>0. /\ BaseInv /\ HolderCopyCurrent /\ HolderStop /\ CallFacts(loc[c], pc[c], lock[c]) /\ loc[c] \in Locals
      /\ CallShape(loc[c], pc[c], lock[c]) /\ ObjectInv /\ stops \in [StopOps -> StopRow]
  BY MyFacts DEF FullInv, JournalInv, WorkerInv, BaseInv, TypeOK
<1>1. UNCHANGED <<starts, pods, svcs, timely, barriers, late>> BY DEF CheckpointSealed, cluster
<1>2. CASE checkpointStop(c)
  <2>1. /\ pc[c] = "checkpoint_sealed" /\ loc[c].op \in Ops /\ loc[c].stop \in StopOps /\ loc[c].kind = "stop"
        /\ loc[c].prog = "accepted" /\ loc[c].rec.phase = "stopping" /\ Connected(c)
    BY <1>0, <1>2 DEF CheckpointSealed, CallShape, checkpointStop
  <2>2. PICK o \in Ops, s \in StopOps : o = loc[c].op /\ s = loc[c].stop BY <2>1
  <2>3. NextStop(loc[c].prog) = "sealed" BY <2>1 DEF NextStop
  <2>4. /\ loc[c].rec = starts[o] /\ stops[s].phase = "accepted" /\ stops[s].start = o
    BY <1>0, <2>1, <2>2 DEF HolderCopyCurrent, HolderStop
  <2>5. Goto(c, "remove_node") /\ loc' = [loc EXCEPT ![c] = call] /\ stops' = [stops EXCEPT ![s].phase = "sealed"]
    BY <1>2, <2>2, <2>3 DEF CheckpointSealed, SaveStop
  <2>6. /\ call.kind = "stop" /\ call.op = o /\ call.stop = s /\ call.rec = loc[c].rec
        /\ call.seen = loc[c].seen /\ call.aim = loc[c].aim /\ call.prog = "sealed"
    BY <1>0, <2>1, <2>2 DEF Locals
  <2> HIDE DEF call
  <2>7. Moves(c, "remove_node", lock[c], call) BY <1>0, <2>5, GotoMoves
  <2>8. /\ stops'[s].phase = "sealed" /\ stops'[s].start = o
        /\ \A t \in StopOps : t # s => stops'[t] = stops[t]
    BY <1>0, <2>4, <2>5 DEF StopRow
  <2>9. \A x \in Ops : UnderWay(x)' => UnderWay(x) BY <1>1, <2>7 DEF UnderWay, Moves
  <2>10. [op |-> o, uid |-> starts[o].obs.pod, stop |-> s] \in barriers
    BY <1>0, <2>1, <2>2 DEF CallFacts, KnownFacts, HeldFacts, Connected
  <2>11. Active(o)' /\ starts'[o].phase # "stopped" BY <1>1, <2>1, <2>4 DEF Active
  <2>12. Stage("accepted") <= Stage("sealed") /\ ~(Stage("sealed") >= 2) BY Stages
  <2>13. ObjectInv' /\ DeleteInv' /\ SealedProofIsGenuine' /\ Onward
    BY <1>1, <2>4, <2>8, <2>9, <2>10, <2>11, <2>12, StopWrite
  <2>14. CallFacts(loc[c], pc[c], lock[c])'
    <3>1. loc'[c] = call /\ pc'[c] = "remove_node" /\ lock'[c] = lock[c] BY <2>7 DEF Moves
    <3>2. Stage("sealed") <= Stage("sealed") BY Stages
    <3> QED BY <1>0, <1>1, <2>2, <2>4, <2>6, <2>8, <2>10, <3>1, <3>2
        DEF CallFacts, KnownFacts, HeldFacts, SeenFacts
  <2>15. FactsInv' BY <2>1, <2>7, <2>13, <2>14, WriterFacts DEF Moves
  <2> QED BY <2>13, <2>15 DEF WorkerInv
<1>3. CASE ~checkpointStop(c) BY <1>1, <1>3, ReturnWorker DEF CheckpointSealed
<1> QED BY <1>2, <1>3

LEMMA WorkerRemoveAdvance ==
    ASSUME FullInv, BaseInv', NEW c \in Callers, RemoveAdvance(c)
    PROVE  WorkerInv'
<1> DEFINE next == NextStop(loc[c].prog)
           row == [loc[c].rec EXCEPT !.phase = "stopped"]
           call == [loc[c] EXCEPT !.prog = next]
<1>0. /\ BaseInv /\ HolderCopyCurrent /\ HolderStop /\ CallFacts(loc[c], pc[c], lock[c]) /\ loc[c] \in Locals
      /\ CallShape(loc[c], pc[c], lock[c]) /\ ObjectInv /\ SealedProofIsGenuine
      /\ starts \in [Ops -> StartRow] /\ stops \in [StopOps -> StopRow]
  BY MyFacts DEF FullInv, JournalInv, WorkerInv, BaseInv, TypeOK
<1>1. UNCHANGED <<pods, svcs, timely, barriers, late>> /\ pc[c] = "remove" BY DEF RemoveAdvance, cluster
<1>2. CASE checkpointStop(c)
  <2>1. /\ loc[c].op \in Ops /\ loc[c].stop \in StopOps /\ loc[c].kind = "stop"
        /\ loc[c].prog \in {"sealed", "pod_delete_requested", "pod_deleted", "service_delete_requested"}
        /\ loc[c].rec.phase = "stopping" /\ Connected(c)
    BY <1>1, <1>2, Removing DEF checkpointStop
  <2>2. PICK o \in Ops, s \in StopOps : o = loc[c].op /\ s = loc[c].stop BY <2>1
  <2>3. /\ loc[c].rec = starts[o] /\ starts[o].phase = "stopping"
        /\ stops[s].phase = loc[c].prog /\ stops[s].start = o /\ starts[o].obs.pod # 0
    BY <1>0, <1>1, <2>1, <2>2, Removing DEF HolderCopyCurrent, HolderStop
  <2>4. [op |-> o, uid |-> starts[o].obs.pod, stop |-> s] \in barriers
    BY <1>0, <2>1, <2>3 DEF SealedProofIsGenuine
  <2>5. /\ next \in {"sealed", "pod_delete_requested", "pod_deleted", "service_delete_requested", "stopped"}
        /\ Stage(loc[c].prog) <= Stage(next)
        /\ next = "stopped" => loc[c].prog = "service_delete_requested"
    BY <2>1, NextStopFacts
  <2>6. Stage(next) >= 2 => ~Recorded(o) /\ (timely => ~PodThere(o) /\ ~UnderWay(o))
    <3> SUFFICES ASSUME Stage(next) >= 2 PROVE ~Recorded(o) /\ (timely => ~PodThere(o) /\ ~UnderWay(o)) OBVIOUS
    <3>1. CASE loc[c].prog = "pod_delete_requested"
      <4>1. loc[c].seen.pod = 0 BY <3>1 DEF RemoveAdvance, Pending
      <4>2. ~Recorded(o) BY <1>0, <1>1, <2>2, <4>1 DEF CallFacts, KnownFacts
      <4>3. timely => ~PodThere(o)
        BY <1>0, <1>1, <2>1, <2>2, <4>1 DEF CallFacts, HeldFacts, SeenFacts, Connected
      <4> QED BY <1>0, <2>3, <4>2, <4>3 DEF ObjectInv, TimelyInv
    <3>2. CASE loc[c].prog \in {"pod_deleted", "service_delete_requested"}
      <4>1. Gone(o) BY <2>3, <3>2, Stages DEF Gone
      <4> QED BY <1>0, <4>1 DEF ObjectInv, UidInv, TimelyInv
    <3> QED BY <2>1, <3>1, <3>2, NextStopFacts
  <2>7. stops' = [stops EXCEPT ![s].phase = next] BY <1>2, <2>2 DEF RemoveAdvance, SaveStop
  <2>8. /\ stops'[s].phase = next /\ stops'[s].start = o
        /\ \A t \in StopOps : t # s => stops'[t] = stops[t]
    BY <1>0, <2>3, <2>7 DEF StopRow
  <2>9. CASE next # "stopped"
    <3>1. Goto(c, "remove") /\ loc' = [loc EXCEPT ![c] = call] /\ UNCHANGED starts
      BY <1>2, <2>9 DEF RemoveAdvance
    <3>2. /\ call.kind = "stop" /\ call.op = o /\ call.stop = s /\ call.rec = loc[c].rec
          /\ call.seen = loc[c].seen /\ call.aim = loc[c].aim /\ call.prog = next
      BY <1>0, <2>1, <2>2 DEF Locals
    <3> HIDE DEF call, next
    <3>3. Moves(c, "remove", lock[c], call) BY <1>0, <3>1, GotoMoves
    <3>4. \A x \in Ops : UnderWay(x)' => UnderWay(x) BY <1>1, <3>3 DEF UnderWay, Moves
    <3>5. Active(o)' /\ starts'[o].phase # "stopped" BY <2>3, <3>1 DEF Active
    <3>6. ObjectInv' /\ DeleteInv' /\ SealedProofIsGenuine' /\ Onward
      BY <1>1, <2>3, <2>4, <2>5, <2>6, <2>8, <3>1, <3>4, <3>5, StopWrite
    <3>7. CallFacts(loc[c], pc[c], lock[c])'
      <4>1. loc'[c] = call /\ pc'[c] = "remove" /\ lock'[c] = lock[c] BY <3>3 DEF Moves
      <4>2. Stage(next) <= Stage(next) BY <2>5, Stages
      <4>3. KnownFacts(loc[c], pc[c])'
        BY <1>0, <1>1, <2>2, <2>3, <2>8, <3>1, <3>2, <4>1, <4>2
        DEF CallFacts, KnownFacts, Recorded, PodThere
      <4>4. HeldFacts(loc[c], pc[c])'
        <5>1. HeldFacts(loc[c], pc[c]) BY <1>0, <2>1 DEF CallFacts, Connected
        <5>2. Gone(o) => Gone(o)' BY <3>6, GoneStays
        <5>3. loc'[c].op = o BY <3>2, <4>1
        <5>4. timely => /\ loc[c].seen.pod = 0 => pods'[o].status = "absent"
                        /\ loc[c].seen.svc = 0 => ~svcs'[o].live /\ Gone(o)'
          BY <1>1, <2>2, <5>1, <5>2 DEF HeldFacts, SeenFacts, PodThere
        <5> QED BY <1>1, <2>4, <3>1, <3>2, <4>1, <5>3, <5>4 DEF HeldFacts, SeenFacts, PodThere, Gone
      <4> QED BY <4>3, <4>4 DEF CallFacts
    <3>8. FactsInv' BY <2>1, <3>3, <3>6, <3>7, WriterFacts DEF Moves
    <3> QED BY <3>6, <3>8 DEF WorkerInv
  <2>10. CASE next = "stopped"
    <3>1. SaveStart(c, row, NoCall) /\ Leave(c) BY <1>2, <2>10 DEF RemoveAdvance
    <3>2. row.phase = "stopped" /\ row.obs = starts[o].obs BY <1>0, <2>3, FieldTypes DEF StartRow
    <3> HIDE DEF row, next
    <3>3. /\ starts'[o] = row /\ (\A x \in Ops : x # o => starts'[x] = starts[x])
          /\ loc'[c] = NoCall /\ pc'[c] = "idle" /\ lock'[c] = "none"
      BY <1>0, <2>2, <3>1 DEF SaveStart, Leave, BaseInv, TypeOK
    <3>4. \A d \in Callers : d # c => /\ pc'[d] = pc[d] /\ lock'[d] = lock[d]
                                      /\ loc'[d] \in {loc[d], [loc[d] EXCEPT !.fresh = FALSE]}
      BY <1>0, <3>1 DEF SaveStart, Leave, BaseInv, TypeOK
    <3>5. \A d \in Callers : d # c => loc'[d].op = loc[d].op BY <1>0, <3>4, FieldTypes DEF Locals
    <3>6. \A x \in Ops : UnderWay(x)' => UnderWay(x) BY <1>1, <3>3, <3>4, <3>5 DEF UnderWay
    <3>7. timely => ~svcs[o].live
      <4>1. loc[c].seen.svc = 0 BY <2>5, <2>10 DEF RemoveAdvance, Pending
      <4> QED BY <1>0, <1>1, <2>1, <2>2, <4>1 DEF CallFacts, HeldFacts, SeenFacts, Connected
    <3>8. ~Recorded(o) /\ (timely => ~PodThere(o) /\ ~UnderWay(o)) BY <2>6, <2>10, Stages
    <3>9. \A x \in Ops : starts'[x].obs = starts[x].obs /\ (x # o => starts'[x] = starts[x])
      BY <3>2, <3>3
    <3>10. ObjectInv' /\ DeleteInv' /\ SealedProofIsGenuine' /\ Onward
      BY <1>1, <2>3, <2>4, <2>5, <2>8, <2>10, <3>6, <3>7, <3>8, <3>9, StopWrite
    <3>11. CallFacts(loc[c], pc[c], lock[c])' BY <3>3, ConstantsAssumption DEF CallFacts, KnownFacts, NoCall
    <3>12. FactsInv' BY <2>1, <3>4, <3>10, <3>11, WriterFacts
    <3> QED BY <3>10, <3>12 DEF WorkerInv
  <2> QED BY <2>9, <2>10
<1>3. CASE ~checkpointStop(c) BY <1>1, <1>3, ReturnWorker DEF RemoveAdvance, journal
<1> QED BY <1>2, <1>3

--------------------------------------------------------------------------------
(* Failures of a call, requests without a caller, and the cluster           *)

\* What a call that is cut short may leave behind.
LEMMA LeftBehind ==
    ASSUME FullInv, NEW c \in Callers, NEW r \in InFlight(c)
    PROVE  /\ r.kind \in {"service", "pod"} => pc[c] = "create" /\ loc[c].op = r.op
           /\ r.kind = "pod_delete" =>
                /\ r.uid = starts[r.op].obs.pod
                /\ \E s \in StopOps : stops[s].start = r.op /\ Stage(stops[s].phase) >= 1
<1>1. CASE pc[c] = "create"
  <2>1. InFlight(c) = {[kind |-> Missing(loc[c].seen), op |-> loc[c].op, uid |-> 0, stop |-> loc[c].stop]}
    BY <1>1 DEF InFlight
  <2>2. Missing(loc[c].seen) # "pod_delete" BY DEF Missing
  <2> QED BY <1>1, <2>1, <2>2
<1>2. CASE pc[c] = "remove" /\ Pending(loc[c])
  <2>1. r.kind \in {"pod_delete", "service_delete"} BY <1>2 DEF InFlight
  <2>2. CASE loc[c].prog = "pod_delete_requested"
    <3>1. r = [kind |-> "pod_delete", op |-> loc[c].op, uid |-> loc[c].seen.pod, stop |-> loc[c].stop]
      BY <1>2, <2>2 DEF InFlight
    <3>2. loc[c].seen.pod # 0 BY <1>2, <2>2 DEF Pending
    <3>3. loc[c].seen.pod = loc[c].rec.obs.pod BY <1>2, <3>2, MyFacts DEF CallFacts, KnownFacts
    <3>4. /\ starts[loc[c].op].obs.pod = loc[c].rec.obs.pod /\ loc[c].stop \in StopOps
          /\ stops[loc[c].stop].start = loc[c].op
          /\ Stage(loc[c].prog) <= Stage(stops[loc[c].stop].phase)
          /\ stops[loc[c].stop].phase \in {"sealed", "pod_delete_requested", "pod_deleted",
                                           "service_delete_requested", "stopped"}
      BY <1>2, Removing
    <3>5. Stage(stops[loc[c].stop].phase) >= 1 BY <2>2, <3>4, Stages
    <3> QED BY <3>1, <3>3, <3>4, <3>5
  <2>3. CASE loc[c].prog # "pod_delete_requested" BY <1>2, <2>1, <2>3 DEF InFlight
  <2> QED BY <2>2, <2>3
<1>3. CASE pc[c] # "create" /\ ~(pc[c] = "remove" /\ Pending(loc[c]))
  <2>1. r.kind \in {"claim", "seal"} BY <1>3 DEF InFlight
  <2> QED BY <2>1
<1> QED BY <1>1, <1>2, <1>3

LEMMA WorkerInterrupt ==
    ASSUME FullInv, BaseInv', NEW c \in Callers, Interrupt(c)
    PROVE  WorkerInv'
<1>0. UNCHANGED <<starts, stops, pods, svcs, timely, barriers>> /\ BaseInv
  BY DEF Interrupt, journal, FullInv, JournalInv
<1>1. Moves(c, "idle", "none", NoCall) BY <1>0, ReturnMoves DEF Interrupt
<1>2. PICK sent \in SUBSET InFlight(c) : late' = late \cup sent BY DEF Interrupt
<1>3. \A o \in Ops : UnderWay(o)' => UnderWay(o) BY <1>1, <1>2, LeftBehind DEF UnderWay, Moves
<1>4. ObjectInv' /\ DeleteInv' /\ SealedProofIsGenuine' /\ Onward
  BY <1>0, <1>2, <1>3, LeftBehind, QuietObjects
<1>5. \A o \in Ops : Steady(o) BY <1>0, <1>3 DEF Steady, SteadyObjects, PodThere
<1>6. FactsInv' BY <1>1, <1>4, <1>5, IdleFactsNext, RestOfFacts
<1> QED BY <1>4, <1>6 DEF WorkerInv

LEMMA WorkerCrash ==
    ASSUME FullInv, BaseInv', Crash
    PROVE  WorkerInv'
<1>0. UNCHANGED <<starts, stops, pods, svcs, timely, barriers>> BY DEF Crash, journal
<1>1. \A c \in Callers : pc'[c] = "idle" /\ lock'[c] = "none" BY DEF Crash
<1>2. PICK sent \in SUBSET UNION {InFlight(c) : c \in Callers} : late' = late \cup sent BY DEF Crash
<1>3. \A r \in late' : r \in late \/ \E c \in Callers : r \in InFlight(c) BY <1>2
<1>4. \A o \in Ops : UnderWay(o)' => UnderWay(o) BY <1>1, <1>3, LeftBehind DEF UnderWay
<1>5. ObjectInv' /\ DeleteInv' /\ SealedProofIsGenuine' /\ Onward
  BY <1>0, <1>3, <1>4, LeftBehind, QuietObjects
<1>6. FactsInv'
  <2>1. \A c \in Callers : loc'[c] = NoCall BY DEF Crash
  <2> QED BY <1>1, <2>1, ConstantsAssumption DEF FactsInv, CallFacts, KnownFacts, NoCall
<1> QED BY <1>5, <1>6 DEF WorkerInv

LEMMA WorkerSessionLoss ==
    ASSUME FullInv, BaseInv', NEW c \in Callers, SessionLoss(c)
    PROVE  WorkerInv'
<1>0. UNCHANGED <<starts, stops, pods, svcs, timely, barriers, late, pc, loc>> BY DEF SessionLoss, journal, cluster
<1>1. \A d \in Callers : lock'[d] \in {lock[d], "none"}
  BY DEF SessionLoss, FullInv, JournalInv, BaseInv, TypeOK
<1>2. \A o \in Ops : UnderWay(o)' => UnderWay(o) BY <1>0 DEF UnderWay
<1>3. ObjectInv' /\ DeleteInv' /\ SealedProofIsGenuine' /\ Onward BY <1>0, <1>2, QuietObjects
<1>4. \A o \in Ops : Steady(o) BY <1>0, <1>2 DEF Steady, SteadyObjects, PodThere
<1>5. \A d \in Callers : CallFacts(loc[d], pc[d], lock[d])' BY <1>0, <1>1, <1>3, <1>4, OtherFacts
<1> QED BY <1>3, <1>5 DEF WorkerInv, FactsInv

\* Objects change while every call stays where it is.
LEMMA ClusterMoves ==
    ASSUME FullInv, BaseInv', UNCHANGED <<starts, stops, pc, lock, loc>>, timely' => timely,
           barriers \subseteq barriers', late' \subseteq late,
           \A o \in Ops : /\ PodThere(o)' => pods'[o].uid # 0 /\ (PodThere(o) \/ UnderWay(o))
                          /\ pods'[o].uid # pods[o].uid => pods'[o].uid = pods[o].uid + 1
                          /\ PodThere(o)' /\ ~PodThere(o) => pods'[o].uid # pods[o].uid
                          /\ svcs'[o].live => svcs'[o].uid # 0 /\ (svcs[o].live \/ UnderWay(o))
                          /\ timely' /\ PodThere(o) /\ ~PodThere(o)' => ~UnderWay(o) \/ HeldCreation(o)
    PROVE  WorkerInv'
<1>1. \A o \in Ops : UnderWay(o)' => UnderWay(o) BY DEF UnderWay
<1>2. ObjectInv' /\ DeleteInv' /\ SealedProofIsGenuine' /\ Onward /\ \A o \in Ops : Steady(o)
  BY <1>1, MovedObjects
<1>3. \A d \in Callers : CallFacts(loc[d], pc[d], lock[d])' BY <1>2, OtherFacts
<1> QED BY <1>2, <1>3 DEF WorkerInv, FactsInv

LEMMA WorkerLate ==
    ASSUME FullInv, BaseInv', NEW r \in late, Land(r) \/ Lose(r)
    PROVE  WorkerInv'
<1> DEFINE o == r.op
<1>0. /\ BaseInv /\ ObjectInv /\ pods \in [Ops -> Pod] /\ svcs \in [Ops -> Object] /\ o \in Ops
  BY DEF FullInv, JournalInv, WorkerInv, BaseInv, TypeOK, Request
<1>1. UNCHANGED <<starts, stops, timely, pc, lock, loc>> /\ late' \subseteq late /\ barriers \subseteq barriers'
  BY DEF Land, Lose, journal, SealBy
<1>2. r.kind \in {"service", "pod"} => UnderWay(o) BY DEF UnderWay
<1>3. \A x \in Ops : /\ pods'[x].status # "absent" =>
                          pods'[x].uid # 0 /\ (pods[x].status # "absent" \/ UnderWay(x))
                     /\ svcs'[x].live => svcs'[x].uid # 0 /\ (svcs[x].live \/ UnderWay(x))
                     /\ pods[x].status # "absent" => pods'[x].status # "absent"
                     /\ pods'[x].uid # pods[x].uid => pods'[x].uid = pods[x].uid + 1
                     /\ pods'[x].status # "absent" /\ pods[x].status = "absent" => pods'[x].uid # pods[x].uid
  <2>0. \A x \in Ops : /\ pods[x].status # "absent" => pods[x].uid # 0
                       /\ svcs[x].live => svcs[x].uid # 0
    BY <1>0 DEF ObjectInv, UidInv, PodThere
  <2>1. CASE UNCHANGED <<pods, svcs>> BY <2>0, <2>1
  <2>2. CASE r.kind = "service" /\ svcs' = [svcs EXCEPT ![o] = NewObject(svcs[o])] /\ UNCHANGED pods
    BY <1>0, <1>2, <2>0, <2>2, NewUids
  <2>3. CASE r.kind = "pod" /\ pods' = [pods EXCEPT ![o] = NewPod(pods[o])] /\ UNCHANGED svcs
    BY <1>0, <1>2, <2>0, <2>3, NewUids
  <2>4. CASE podMatches(pods[o], r.uid) /\ pods' = [pods EXCEPT ![o].status = "terminating"] /\ UNCHANGED svcs
    BY <1>0, <2>0, <2>4 DEF podMatches, Pod
  <2>5. CASE svcs' = [svcs EXCEPT ![o].live = FALSE] /\ UNCHANGED pods BY <1>0, <2>0, <2>5 DEF Object
  <2> QED BY <2>1, <2>2, <2>3, <2>4, <2>5 DEF Land, Lose
<1> QED BY <1>1, <1>3, ClusterMoves DEF PodThere

LEMMA WorkerCluster ==
    ASSUME FullInv, BaseInv', Cluster
    PROVE  WorkerInv'
<1>0. /\ BaseInv /\ ObjectInv /\ pods \in [Ops -> Pod] /\ svcs \in [Ops -> Object]
  BY DEF FullInv, JournalInv, WorkerInv, BaseInv, TypeOK
<1>00. \A x \in Ops : /\ pods[x].status # "absent" => pods[x].uid # 0
                      /\ svcs[x].live => svcs[x].uid # 0
  BY <1>0 DEF ObjectInv, UidInv, PodThere
<1>1. ASSUME NEW o \in Ops, PodGone(o) PROVE WorkerInv'
  <2>1. UNCHANGED <<starts, stops, svcs, barriers, late, pc, lock, loc>> BY <1>1 DEF PodGone, journal
  <2>2. \A x \in Ops : /\ pods'[x].status # "absent" => x # o /\ pods'[x] = pods[x]
                       /\ x # o => pods'[x] = pods[x]
                       /\ pods'[x].uid = pods[x].uid
    BY <1>0, <1>1 DEF PodGone, Pod
  <2>3. timely' => timely /\ (UnderWay(o) => HeldCreation(o))
    BY <1>1 DEF PodGone, Unsettled, UnderWay, HeldCreation
  <2> QED BY <1>00, <2>1, <2>2, <2>3, ClusterMoves DEF PodThere
<1>2. ASSUME NEW o \in Ops, PodReady(o) \/ PodUnready(o) \/ PodExit(o) \/ Evict(o) PROVE WorkerInv'
  <2>1. UNCHANGED <<starts, stops, svcs, timely, barriers, late, pc, lock, loc>>
    BY <1>2 DEF PodReady, PodUnready, PodExit, Evict, SetPod, journal
  <2>2. PICK status \in PodStatus \ {"absent"} :
          pods' = [pods EXCEPT ![o].status = status] /\ pods[o].status # "absent"
    BY <1>2 DEF PodReady, PodUnready, PodExit, Evict, SetPod
  <2>3. \A x \in Ops : /\ pods'[x].uid = pods[x].uid
                       /\ pods'[x].status # "absent" <=> pods[x].status # "absent"
    BY <1>0, <2>2 DEF Pod
  <2> QED BY <1>00, <2>1, <2>3, ClusterMoves DEF PodThere
<1>3. ASSUME NEW o \in Ops, ReplacePod(o) PROVE WorkerInv'
  <2>1. UNCHANGED <<starts, stops, svcs, timely, barriers, late, pc, lock, loc>> BY <1>3 DEF ReplacePod, journal
  <2>2. \A x \in Ops : /\ pods'[x].status # "absent" => pods'[x].uid # 0 /\ pods[x].status # "absent"
                       /\ pods[x].status # "absent" => pods'[x].status # "absent"
                       /\ pods'[x].uid # pods[x].uid => pods'[x].uid = pods[x].uid + 1
    BY <1>0, <1>00, <1>3, NewUids DEF ReplacePod
  <2> QED BY <1>00, <2>1, <2>2, ClusterMoves DEF PodThere
<1>4. ASSUME NEW o \in Ops, ReplaceService(o) PROVE WorkerInv'
  <2>1. UNCHANGED <<starts, stops, pods, timely, barriers, late, pc, lock, loc>> BY <1>4 DEF ReplaceService, journal
  <2>2. PICK s \in {NewObject(svcs[o]), [svcs[o] EXCEPT !.live = FALSE]} : svcs' = [svcs EXCEPT ![o] = s]
    BY <1>4 DEF ReplaceService
  <2>3. s.live => s.uid # 0 /\ svcs[o].live BY <1>0, <1>4, <2>2, NewUids DEF ReplaceService, Object
  <2>4. \A x \in Ops : svcs'[x].live => svcs'[x].uid # 0 /\ svcs[x].live BY <1>0, <1>00, <2>2, <2>3
  <2> QED BY <1>00, <2>1, <2>4, ClusterMoves DEF PodThere
<1>5. ASSUME ReplaceSecret \/ Migrate \/ NodeDown \/ NodeUp \/ Publish \/ RemoveInstallation PROVE WorkerInv'
  <2>1. UNCHANGED <<starts, stops, pods, svcs, timely, barriers, pc, lock, loc>> /\ late' \subseteq late
    BY <1>5 DEF ReplaceSecret, Migrate, NodeDown, NodeUp, Publish, RemoveInstallation, journal, cluster
  <2> QED BY <1>00, <2>1, ClusterMoves DEF PodThere
<1> QED BY <1>1, <1>2, <1>3, <1>4, <1>5 DEF Cluster

--------------------------------------------------------------------------------
(* The invariant, and the safety properties it is for                       *)

LEMMA WorkerProceed ==
    ASSUME FullInv, BaseInv', NEW c \in Callers, Proceed(c)
    PROVE  WorkerInv'
<1>1. CASE \/ Authorize(c) \/ AcceptCheck(c) \/ AcceptReplay(c) \/ AcceptInsert(c) \/ AcceptInspect(c)
           \/ AcceptBind(c) \/ AcceptRefuse(c) \/ AcquireLock(c) \/ Load(c)
  BY <1>1, WorkerEntry, WorkerAcceptInsert, WorkerAcceptBind, WorkerLoad
<1>2. CASE \/ ClaimVolume(c) \/ EnsurePod(c) \/ EnsureService(c) \/ EnsureSecretAndVolume(c)
           \/ CheckpointProgress(c) \/ CreateSecret(c) \/ CreateService(c) \/ CreatePod(c)
  BY <1>2, WorkerEnsure, WorkerCheckpointProgress, WorkerCreateSecret, WorkerCreateService, WorkerCreatePod
<1>3. CASE \/ ObservePod(c) \/ ObserveRest(c) \/ CheckpointObserved(c)
           \/ Probe(c) \/ CheckpointRunning(c) \/ Certify(c) \/ Grant(c)
  BY <1>3, WorkerObserve, WorkerCheckpointObserved, WorkerCheckpointRunning
<1>4. CASE \/ ReplayStop(c) \/ acceptStop(c) \/ Seal(c) \/ SealRefused(c) \/ CheckpointSealed(c)
  BY <1>4, WorkerReplayStop, WorkeracceptStop, WorkerSeal, WorkerObserve, WorkerCheckpointSealed
<1>5. CASE \/ RemoveNode(c) \/ RemovePod(c) \/ RemoveService(c) \/ RemoveSecretAndVolume(c)
           \/ RemoveAdvance(c) \/ DeletePod(c) \/ DeleteService(c)
  BY <1>5, WorkerRemoveReads, WorkerRemoveAdvance, WorkerDelete
<1> QED BY <1>1, <1>2, <1>3, <1>4, <1>5 DEF Proceed

LEMMA WorkerStutter ==
    ASSUME FullInv, BaseInv', UNCHANGED vars
    PROVE  WorkerInv'
<1>1. UNCHANGED <<starts, stops, pods, svcs, timely, barriers, late, pc, lock, loc>> BY DEF vars, journal, cluster
<1>2. UidInv BY DEF FullInv, WorkerInv, ObjectInv
<1> QED BY <1>1, <1>2, ClusterMoves DEF UidInv, PodThere

LEMMA WorkerNext ==
    ASSUME FullInv, [Next]_vars
    PROVE  FullInv'
<1>1. JournalInv' /\ BaseInv' /\ SideInv' BY JournalNext, SideNext DEF FullInv, JournalInv, SideInv
<1>2. WorkerInv'
  BY <1>1, WorkerBegin, WorkerProceed, WorkerInterrupt, WorkerSessionLoss, WorkerCrash, WorkerLate,
     WorkerCluster, WorkerStutter DEF Next
<1> QED BY <1>1, <1>2 DEF FullInv

\* The journal and the worker objects agree in every reachable state, with any number of
\* calls, crashes and late requests: FullInv is inductive.
THEOREM WorkerInvariant == Spec => []FullInv
<1>1. Init => FullInv BY InitJournal, InitSide, InitWorker DEF FullInv
<1>2. FullInv /\ [Next]_vars => FullInv' BY WorkerNext
<1> QED BY <1>1, <1>2, PTL DEF Spec

\* Two runs are never active at the same time.
LEMMA OneActive ==
    ASSUME FullInv, NEW o \in Ops, NEW x \in Ops, Active(o), Active(x)
    PROVE  o = x
<1>1. OneActiveGeneration /\ o \in Accepted /\ x \in Accepted /\ starts \in [Ops -> StartRow]
  BY DEF FullInv, JournalInv, RecordInv, BaseInv, TypeOK, Active, Accepted
<1>2. starts[o].gen \in Int /\ starts[x].gen \in Int BY <1>1, ConstantsAssumption DEF StartRow
<1> QED BY <1>1, <1>2 DEF OneActiveGeneration, Active

\* At most one worker Pod mounts the volume of an instance, whatever lands late, as long
\* as no creation outlives the Pod that has its name.
THEOREM OneMount == Spec => []ExclusiveMount
<1>1. ASSUME FullInv PROVE ExclusiveMount
  BY <1>1, OneActive DEF ExclusiveMount, FullInv, WorkerInv, ObjectInv, TimelyInv, PodThere
<1> QED BY <1>1, WorkerInvariant, PTL

\* A start recorded as stopped has neither Pod nor Service, and late requests bring none
\* back unless one of them is executed after the Pod of its name has gone.
THEOREM NothingLeft == Spec => []RetiredLeavesNothing
<1>1. ASSUME FullInv PROVE RetiredLeavesNothing
  BY <1>1 DEF RetiredLeavesNothing, FullInv, WorkerInv, ObjectInv, TimelyInv, PodThere, Active
<1> QED BY <1>1, WorkerInvariant, PTL

\* Past "accepted", the recorded process has closed admission for exactly this stop.
THEOREM ProofIsGenuine == Spec => []SealedProofIsGenuine
<1>1. FullInv => SealedProofIsGenuine BY DEF FullInv, WorkerInv
<1> QED BY <1>1, WorkerInvariant, PTL
--------------------------------------------------------------------------------
(* The ways a start row and a Pod can change                                *)

Writes(o, row) == starts' = [starts EXCEPT ![o] = row]

\* Accept: every other run is over, and this is the generation after the latest.
Accepts(o) ==
    \E row \in StartRow :
        /\ Writes(o, row) /\ starts[o].phase = "none" /\ row.phase = "accepted"
        /\ \A x \in Ops : starts[x].phase \in {"none", "stopped"}
        /\ \E x \in Ops : row.gen = starts[x].gen + 1 /\ \A y \in Ops : starts[y].gen <= starts[x].gen

\* A checkpoint of a start that is not running yet.
Advances(o) ==
    \E row \in StartRow :
        /\ Writes(o, row) /\ starts[o].phase \in {"accepted", "launching"}
        /\ row.phase \in {"launching", "running"}
        /\ row.gen = starts[o].gen /\ row.revision = starts[o].revision /\ row.prof = starts[o].prof
        /\ monotonicObservation(starts[o].obs, row.obs)

\* acceptStop, and the last checkpoint of a stop once the Pod is gone.
Moved(o, from, to) == starts[o].phase = from /\ Writes(o, [starts[o] EXCEPT !.phase = to])
StartStep(o) ==
    \/ Accepts(o) \/ Advances(o) \/ Moved(o, "running", "stopping")
    \/ Moved(o, "stopping", "stopped") /\ (timely => ~PodThere(o))

\* A Pod appears where a creation is under way, changes in place, or goes.
Changes(o, pod) == pods' = [pods EXCEPT ![o] = pod]
Appears(o) == ~PodThere(o) /\ UnderWay(o) /\ Changes(o, NewPod(pods[o]))
Stays(o) ==
    \E pod \in Pod :
        /\ Changes(o, pod) /\ PodThere(o) /\ pod.status # "absent"
        /\ pod.status = "terminating" /\ pods[o].status # "terminating" /\ faults' = faults => Condemned(o)
Goes(o) == PodThere(o) /\ Changes(o, [pods[o] EXCEPT !.status = "absent"])
PodStep(o) == Appears(o) \/ Stays(o) \/ Goes(o)

USE DEF StartPhases, StopPhases, PodStatus, Uid,
        LaunchLabels, ObserveLabels, VerifyLabels, StopLabels, RemoveLabels, LoadedLabels

--------------------------------------------------------------------------------
(* Start rows                                                               *)

LEMMA NewStartAccepts ==
    ASSUME FullInv, NEW c \in Callers, NEW sec \in Uid, loc[c].op \in Ops,
           loc[c].kind = "start", starts[loc[c].op].phase = "none", Writes(loc[c].op, NewStart(c, sec)),
           (Accepted = {} /\ loc[c].gen = 1) \/ (\E x \in Ops : Follows(loc[c].gen, x))
    PROVE  Accepts(loc[c].op)
<1> DEFINE o == loc[c].op
           g == loc[c].gen
<1>0. /\ BaseInv /\ RowInv /\ OneActiveGeneration /\ starts \in [Ops -> StartRow]
      /\ CallShape(loc[c], pc[c], lock[c]) /\ loc[c] \in Locals
  BY MyFacts DEF FullInv, JournalInv, RecordInv, BaseInv, TypeOK
<1>2. \A x \in Ops : starts[x].gen \in Nat BY <1>0, ConstantsAssumption DEF StartRow
<1>3. NewStart(c, sec) \in StartRow /\ NewStart(c, sec).gen = g /\ NewStart(c, sec).phase = "accepted"
  <2>1. /\ loc[c].gen \in 0..MaxGeneration /\ loc[c].auth \in 0..MaxRevision
        /\ loc[c].prof \in Profiles \cup {NoProfile}
    BY <1>0 DEF Locals
  <2>2. FALSE \in BOOLEAN /\ 0 \in Uid BY ConstantsAssumption
  <2>3. [NoObservation EXCEPT !.sec = sec] \in Observation BY <2>2 DEF NoObservation, Observation
  <2> QED BY <2>1, <2>3 DEF NewStart, StartRow
<1>4. CASE Accepted = {} /\ g = 1
  <2>1. \A x \in Ops : starts[x].phase = "none" /\ starts[x].gen = 0
    BY <1>0, <1>4 DEF Accepted, RowInv, NoStart
  <2>2. g = starts[o].gen + 1 BY <1>4, <2>1
  <2>3. \A y \in Ops : starts[y].gen <= starts[o].gen BY <2>1
  <2> QED BY <1>3, <2>1, <2>2, <2>3 DEF Accepts
<1>5. ASSUME NEW p \in Ops, Follows(g, p) PROVE Accepts(o)
  <2>1. /\ starts[p].phase = "stopped" /\ g = starts[p].gen + 1 /\ p \in Accepted
        /\ \A x \in Accepted : starts[x].gen <= starts[p].gen
    BY <1>5 DEF Follows, Latest
  <2>2. \A x \in Ops : starts[x].phase # "none" => starts[x].phase = "stopped" /\ starts[x].gen <= starts[p].gen
    <3> SUFFICES ASSUME NEW x \in Accepted PROVE starts[x].phase = "stopped" /\ starts[x].gen <= starts[p].gen
      BY DEF Accepted
    <3>1. CASE x = p BY <2>1, <3>1
    <3>2. CASE x # p BY <1>0, <1>2, <2>1, <3>2 DEF OneActiveGeneration, Accepted
    <3> QED BY <3>1, <3>2
  <2>3. \A x \in Ops : starts[x].phase = "none" => starts[x].gen <= starts[p].gen
    BY <1>0, <1>2 DEF RowInv, NoStart
  <2> QED BY <1>3, <1>5, <2>1, <2>2, <2>3 DEF Accepts
<1> QED BY <1>4, <1>5

LEMMA AcceptInsertAccepts ==
    ASSUME FullInv, NEW c \in Callers, AcceptInsert(c)
    PROVE  loc[c].op \in Ops /\ Accepts(loc[c].op)
<1>0. CallShape(loc[c], pc[c], lock[c]) /\ starts \in [Ops -> StartRow] /\ 0 \in Uid
  BY MyFacts, ConstantsAssumption DEF FullInv, JournalInv, BaseInv, TypeOK
<1>1. /\ loc[c].op \in Ops /\ loc[c].kind = "start" /\ starts[loc[c].op].phase = "none"
  BY <1>0 DEF AcceptInsert, CallShape
<1>2. CASE Accepted = {} /\ loc[c].gen = 1 /\ Writes(loc[c].op, NewStart(c, 0))
  BY <1>0, <1>1, <1>2, NewStartAccepts
<1>3. ASSUME NEW x \in Ops, Follows(loc[c].gen, x), Writes(loc[c].op, NewStart(c, starts[x].obs.sec))
      PROVE  Accepts(loc[c].op)
  <2>1. starts[x].obs.sec \in Uid BY <1>0 DEF StartRow, Observation
  <2> QED BY <1>1, <1>3, <2>1, NewStartAccepts
<1> QED BY <1>1, <1>2, <1>3 DEF AcceptInsert, Writes

LEMMA AcceptBindAccepts ==
    ASSUME FullInv, NEW c \in Callers, AcceptBind(c), ~UNCHANGED starts
    PROVE  loc[c].op \in Ops /\ Accepts(loc[c].op)
<1>0. CallShape(loc[c], pc[c], lock[c]) /\ HolderBind /\ loc[c].seen.sec \in Uid
  BY MyFacts, FieldTypes DEF FullInv, JournalInv, SideInv, Seen
<1>1. Connected(c) /\ Writes(loc[c].op, NewStart(c, loc[c].seen.sec)) BY DEF AcceptBind, Writes
<1>2. loc[c].op \in Ops /\ loc[c].kind = "start" BY <1>0 DEF AcceptBind, CallShape
<1>3. starts[loc[c].op].phase = "none" /\ \E x \in Ops : Follows(loc[c].gen, x)
  BY <1>0, <1>1 DEF HolderBind, Binds, AcceptBind
<1> QED BY <1>0, <1>1, <1>2, <1>3, NewStartAccepts

LEMMA CheckpointAdvances ==
    ASSUME FullInv, NEW c \in Callers, NEW next \in Observation, NEW row, NEW mine,
           loc[c].op \in Ops, checkpoint(c, next), SaveStart(c, row, mine),
           row \in {Launching(loc[c].rec, next), Running(loc[c].rec, next)}
    PROVE  Advances(loc[c].op)
<1>0. BaseInv /\ HolderCopyCurrent /\ loc[c].rec \in StartRow BY FieldTypes DEF FullInv, JournalInv
<1>1. loc[c].rec = starts[loc[c].op] /\ starts[loc[c].op].phase \in {"accepted", "launching"}
  BY <1>0 DEF checkpoint, HolderCopyCurrent, Connected
<1>2. /\ row \in StartRow /\ row.phase \in {"launching", "running"} /\ row.gen = loc[c].rec.gen
      /\ row.revision = loc[c].rec.revision /\ row.prof = loc[c].rec.prof /\ row.obs = next
  <2>0. Launching(loc[c].rec, next) \in StartRow /\ Running(loc[c].rec, next) \in StartRow BY <1>0, RowTypes
  <2>1. row \in StartRow BY <2>0
  <2>2. \E phase \in {"launching", "running"} : row = [loc[c].rec EXCEPT !.phase = phase, !.obs = next]
    BY DEF Launching, Running
  <2> QED BY <1>0, <2>1, <2>2 DEF StartRow
<1>3. monotonicObservation(loc[c].rec.obs, next) BY DEF checkpoint
<1> QED BY <1>1, <1>2, <1>3 DEF Advances, Writes, SaveStart

LEMMA WriteStep ==
    ASSUME FullInv, NEW c \in Callers, Proceed(c), ~UNCHANGED starts
    PROVE  UNCHANGED pods /\ \E o \in Ops : StartStep(o)
<1>0. /\ BaseInv /\ HolderCopyCurrent /\ CallShape(loc[c], pc[c], lock[c]) /\ loc[c].seen \in Seen
      /\ loc[c] \in Locals /\ starts \in [Ops -> StartRow]
  BY MyFacts, FieldTypes DEF FullInv, JournalInv, BaseInv, TypeOK
<1>1. CASE AcceptInsert(c) BY <1>1, AcceptInsertAccepts DEF AcceptInsert, cluster, StartStep
<1>11. CASE AcceptBind(c) BY <1>11, AcceptBindAccepts DEF AcceptBind, cluster, StartStep
<1>2. CASE CheckpointProgress(c)
  <2>1. loc[c].op \in Ops /\ Progress(loc[c].seen) \in Observation
    BY <1>0, <1>2, ObservedType DEF CheckpointProgress, CallShape
  <2>2. Advances(loc[c].op) BY <1>2, <2>1, CheckpointAdvances DEF CheckpointProgress
  <2> QED BY <1>2, <2>1, <2>2 DEF CheckpointProgress, cluster, StartStep
<1>3. CASE CheckpointObserved(c)
  <2>1. loc[c].op \in Ops /\ Observed(loc[c].seen) \in Observation
    BY <1>0, <1>3, ObservedType DEF CheckpointObserved, CallShape
  <2>2. Advances(loc[c].op) BY <1>3, <2>1, CheckpointAdvances DEF CheckpointObserved
  <2> QED BY <1>3, <2>1, <2>2 DEF CheckpointObserved, cluster, StartStep
<1>4. CASE CheckpointRunning(c)
  <2>1. loc[c].op \in Ops /\ Observed(loc[c].seen) \in Observation
    BY <1>0, <1>4, ObservedType DEF CheckpointRunning, CallShape
  <2>2. Advances(loc[c].op) BY <1>4, <2>1, CheckpointAdvances DEF CheckpointRunning
  <2> QED BY <1>4, <2>1, <2>2 DEF CheckpointRunning, cluster, StartStep
<1>5. CASE acceptStop(c)
  <2>1. loc[c].op \in Ops /\ loc[c].rec.phase = "running" /\ Connected(c)
        /\ SaveStart(c, [loc[c].rec EXCEPT !.phase = "stopping"], [loc[c] EXCEPT !.rec = [loc[c].rec EXCEPT !.phase = "stopping"], !.prog = "accepted"])
    BY <1>0, <1>5 DEF acceptStop, CallShape, journal
  <2>2. loc[c].rec = starts[loc[c].op] BY <1>0, <2>1 DEF HolderCopyCurrent
  <2>3. Moved(loc[c].op, "running", "stopping") BY <2>1, <2>2 DEF Moved, Writes, SaveStart
  <2> QED BY <1>5, <2>1, <2>3 DEF acceptStop, cluster, StartStep
<1>6. CASE RemoveAdvance(c)
  <2>1. /\ checkpointStop(c) /\ NextStop(loc[c].prog) = "stopped" /\ pc[c] = "remove"
        /\ SaveStart(c, [loc[c].rec EXCEPT !.phase = "stopped"], NoCall)
    BY <1>6 DEF RemoveAdvance, journal
  <2>2. loc[c].op \in Ops /\ loc[c].rec.phase = "stopping" /\ Connected(c) BY <2>1, Removing DEF checkpointStop
  <2>3. loc[c].rec = starts[loc[c].op] BY <1>0, <2>2 DEF HolderCopyCurrent
  <2>4. Moved(loc[c].op, "stopping", "stopped") BY <2>1, <2>2, <2>3 DEF Moved, Writes, SaveStart
  <2>5. timely => ~PodThere(loc[c].op)
    <3>1. loc[c].prog = "service_delete_requested" BY <2>1, Removing, NextStopFacts
    <3>2. /\ loc[c].stop \in StopOps /\ stops[loc[c].stop].start = loc[c].op
          /\ stops[loc[c].stop].phase = loc[c].prog
      BY <2>1, Removing DEF checkpointStop
    <3>3. Gone(loc[c].op) BY <3>1, <3>2, Stages DEF Gone
    <3> QED BY <2>2, <3>3 DEF FullInv, WorkerInv, ObjectInv, TimelyInv
  <2> QED BY <1>6, <2>2, <2>4, <2>5 DEF RemoveAdvance, cluster, StartStep
<1>7. ~ReplayStop(c) /\ ~CheckpointSealed(c) /\ ~Load(c)
  BY DEF ReplayStop, CheckpointSealed, Load, journal
<1>8. ASSUME UNCHANGED journal PROVE FALSE BY <1>8 DEF journal
<1> QED BY <1>0, <1>1, <1>11, <1>2, <1>3, <1>4, <1>5, <1>6, <1>7, <1>8, CallKeeps DEF Proceed

--------------------------------------------------------------------------------
(* Pods                                                                     *)

\* A deletion of the recorded Pod, with its intent committed, condemns a Pod that is there.
LEMMA DeletesCondemned ==
    ASSUME FullInv, NEW o \in Ops, PodThere(o), pods[o].uid = starts[o].obs.pod,
           NEW s \in StopOps, stops[s].start = o, Stage(stops[s].phase) >= 1
    PROVE  Condemned(o)
<1>0. SealedProofIsGenuine /\ ~Gone(o) BY DEF FullInv, WorkerInv, ObjectInv, UidInv, Recorded
<1>1. stops[s].phase \in StopPhases BY DEF FullInv, JournalInv, BaseInv, TypeOK, StopRow
<1>2. ~(Stage(stops[s].phase) >= 2) BY <1>0 DEF Gone
<1>3. stops[s].phase = "pod_delete_requested" BY <1>1, <1>2, Stages
<1>4. [op |-> o, uid |-> starts[o].obs.pod, stop |-> s] \in barriers BY <1>0, <1>3 DEF SealedProofIsGenuine
<1> QED BY <1>3, <1>4 DEF Condemned

LEMMA CallPodStep ==
    ASSUME FullInv, NEW c \in Callers, Proceed(c), ~UNCHANGED pods
    PROVE  UNCHANGED starts /\ \E o \in Ops : PodStep(o)
<1>0. pods \in [Ops -> Pod] BY SMTT(40) DEF FullInv, JournalInv, BaseInv, TypeOK
<1>1. CreatePod(c) \/ DeletePod(c)
  BY DEF Proceed, Authorize, AcceptCheck, AcceptReplay, AcceptInsert, AcceptInspect, AcceptBind, AcceptRefuse,
         AcquireLock, Load,
         ClaimVolume, EnsurePod, EnsureService, EnsureSecretAndVolume, CheckpointProgress, CreateSecret,
         CreateService, ObservePod, ObserveRest, CheckpointObserved, Probe, CheckpointRunning, Certify, Grant,
         ReplayStop, acceptStop, Seal, SealRefused, CheckpointSealed, RemoveNode, RemovePod, RemoveService,
         RemoveSecretAndVolume, RemoveAdvance, DeleteService, cluster
<1>2. CASE CreatePod(c)
  <2>1. loc[c].op \in Ops /\ UnderWay(loc[c].op) BY <1>2, Creating DEF CreatePod
  <2>2. Appears(loc[c].op) BY <1>2, <2>1 DEF CreatePod, Appears, PodThere, PodCreatable, Changes
  <2> QED BY <1>2, <2>1, <2>2 DEF CreatePod, journal, PodStep
<1>3. CASE DeletePod(c)
  <2>1. /\ pc[c] = "remove" /\ loc[c].seen.pod # 0 /\ loc[c].prog = "pod_delete_requested"
        /\ pods[loc[c].op] = [uid |-> loc[c].seen.pod, status |-> loc[c].seen.status]
        /\ pods' = [pods EXCEPT ![loc[c].op].status = "terminating"]
    BY <1>3 DEF DeletePod, Pending
  <2>2. loc[c].seen.pod = loc[c].rec.obs.pod /\ loc[c].seen.status # "absent"
    BY <2>1, MyFacts DEF CallFacts, KnownFacts
  <2>3. PICK o \in Ops, s \in StopOps : o = loc[c].op /\ s = loc[c].stop BY <2>1, Removing
  <2>4. /\ starts[o].obs.pod = loc[c].rec.obs.pod /\ stops[s].start = o
        /\ Stage(loc[c].prog) <= Stage(stops[s].phase)
        /\ stops[s].phase \in {"sealed", "pod_delete_requested", "pod_deleted",
                               "service_delete_requested", "stopped"}
    BY <2>1, <2>3, Removing
  <2>5. Stage(stops[s].phase) >= 1 BY <2>1, <2>4, Stages
  <2>6. PodThere(o) /\ pods[o].uid = starts[o].obs.pod BY <2>1, <2>2, <2>3, <2>4 DEF PodThere
  <2>7. Condemned(o) BY <2>4, <2>5, <2>6, DeletesCondemned
  <2>8. pods' = [pods EXCEPT ![o] = [pods[o] EXCEPT !.status = "terminating"]] BY <2>1, <2>3
  <2>9. /\ [pods[o] EXCEPT !.status = "terminating"] \in Pod
        /\ [pods[o] EXCEPT !.status = "terminating"].status = "terminating"
    BY <1>0 DEF Pod
  <2>10. Stays(o) BY <2>6, <2>7, <2>8, <2>9 DEF Stays, Changes
  <2> QED BY <1>3, <2>10 DEF DeletePod, journal, PodStep
<1> QED BY <1>1, <1>2, <1>3

LEMMA LatePodStep ==
    ASSUME FullInv, NEW r \in late, Land(r) \/ Lose(r), ~UNCHANGED pods
    PROVE  UNCHANGED starts /\ \E o \in Ops : PodStep(o)
<1> DEFINE o == r.op
           pod == [pods[o] EXCEPT !.status = "terminating"]
<1>0. /\ pods \in [Ops -> Pod] /\ o \in Ops /\ DeleteInv /\ StopsAgree /\ RowInv /\ stops \in [StopOps -> StopRow]
  BY DEF FullInv, JournalInv, RecordInv, WorkerInv, BaseInv, TypeOK, Request
<1>1. UNCHANGED starts BY DEF Land, Lose, journal
<1>2. CASE r.kind = "pod" /\ PodCreatable(pods[o]) /\ pods' = [pods EXCEPT ![o] = NewPod(pods[o])]
  <2>1. UnderWay(o) BY <1>2 DEF UnderWay
  <2>2. Appears(o) BY <1>2, <2>1 DEF Appears, PodThere, PodCreatable, Changes
  <2> QED BY <1>0, <1>1, <2>2 DEF PodStep
<1>3. CASE r.kind = "pod_delete" /\ podMatches(pods[o], r.uid) /\ pods' = [pods EXCEPT ![o] = pod]
  <2>1. r.uid = starts[o].obs.pod BY <1>0, <1>3 DEF DeleteInv
  <2>2. PICK s \in StopOps : stops[s].start = o /\ Stage(stops[s].phase) >= 1 BY <1>0, <1>3 DEF DeleteInv
  <2>3. stops[s].phase # "none" BY <2>2, Stages
  <2>4. starts[o].obs.pod # 0 BY <1>0, <2>2, <2>3 DEF StopsAgree, RowInv
  <2>5. PodThere(o) /\ pods[o].uid = starts[o].obs.pod BY <1>3, <2>1, <2>4 DEF podMatches, PodThere
  <2>6. Condemned(o) BY <1>0, <2>2, <2>5, DeletesCondemned
  <2>7. pod \in Pod /\ pod.status = "terminating" BY <1>0 DEF Pod
  <2> HIDE DEF pod
  <2>8. Stays(o) BY <1>3, <2>5, <2>6, <2>7 DEF Stays, Changes
  <2> QED BY <1>0, <1>1, <2>8 DEF PodStep
<1> QED BY <1>2, <1>3 DEF Land, Lose

LEMMA ClusterPodStep ==
    ASSUME FullInv, Cluster, ~UNCHANGED pods
    PROVE  UNCHANGED starts /\ \E o \in Ops : PodStep(o)
<1>0. pods \in [Ops -> Pod] /\ faults \in Nat
  BY ConstantsAssumption DEF FullInv, JournalInv, BaseInv, TypeOK
<1>1. PICK o \in Ops : PodReady(o) \/ PodUnready(o) \/ PodExit(o) \/ PodGone(o) \/ Evict(o) \/ ReplacePod(o)
  BY DEF Cluster, ReplaceService, ReplaceSecret, Migrate, NodeDown, NodeUp, Publish, RemoveInstallation, cluster
<1>2. UNCHANGED starts
  BY <1>1 DEF PodReady, PodUnready, PodExit, PodGone, Evict, ReplacePod, SetPod, journal
<1>3. CASE PodGone(o)
  <2>1. Goes(o) BY <1>3 DEF PodGone, Goes, Changes, PodThere
  <2> QED BY <1>2, <2>1 DEF PodStep
<1>4. CASE ReplacePod(o)
  <2>1. NewPod(pods[o]) \in Pod
    BY <1>0, <1>4, ConstantsAssumption DEF ReplacePod, NewPod, Pod
  <2>2. NewPod(pods[o]).status = "pending" BY DEF NewPod
  <2>3. Stays(o) BY <1>4, <2>1, <2>2 DEF ReplacePod, Stays, Changes, PodThere
  <2> QED BY <1>2, <2>3 DEF PodStep
<1>5. ASSUME NEW status \in PodStatus \ {"absent"}, pods' = [pods EXCEPT ![o].status = status],
             pods[o].status # "absent", status = "terminating" => faults' # faults
      PROVE  \E x \in Ops : PodStep(x)
  <2>1. [pods[o] EXCEPT !.status = status] \in Pod /\ [pods[o] EXCEPT !.status = status].status = status
    BY <1>0, <1>5 DEF Pod
  <2>2. Stays(o) BY <1>5, <2>1 DEF Stays, Changes, PodThere
  <2> QED BY <2>2 DEF PodStep
<1>6. CASE PodReady(o)
  <2>1. pods' = [pods EXCEPT ![o].status = "ready"] /\ pods[o].status # "absent" BY <1>6 DEF PodReady, SetPod
  <2>2. "ready" \in PodStatus \ {"absent"} /\ "ready" # "terminating" OBVIOUS
  <2> QED BY <1>2, <1>5, <2>1, <2>2
<1>7. CASE PodUnready(o)
  <2>1. pods' = [pods EXCEPT ![o].status = "unready"] /\ pods[o].status # "absent" BY <1>7 DEF PodUnready, SetPod
  <2>2. "unready" \in PodStatus \ {"absent"} /\ "unready" # "terminating" OBVIOUS
  <2> QED BY <1>2, <1>5, <2>1, <2>2
<1>8. CASE PodExit(o)
  <2>1. pods' = [pods EXCEPT ![o].status = "exited"] /\ pods[o].status # "absent" BY <1>8 DEF PodExit, SetPod
  <2>2. "exited" \in PodStatus \ {"absent"} /\ "exited" # "terminating" OBVIOUS
  <2> QED BY <1>2, <1>5, <2>1, <2>2
<1>9. CASE Evict(o)
  <2>1. faults' # faults BY <1>0, <1>9 DEF Evict, Fault
  <2> QED BY <1>2, <1>5, <1>9, <2>1 DEF Evict, SetPod
<1> QED BY <1>1, <1>3, <1>4, <1>6, <1>7, <1>8, <1>9

\* Every step writes at most one start row or changes at most one Pod, never both.
LEMMA StepKinds ==
    ASSUME FullInv, [Next]_vars
    PROVE  \/ UNCHANGED <<starts, pods>>
           \/ UNCHANGED pods /\ \E o \in Ops : StartStep(o)
           \/ UNCHANGED starts /\ \E o \in Ops : PodStep(o)
<1>1. ASSUME NEW c \in Callers, Begin(c) \/ Interrupt(c) \/ SessionLoss(c) PROVE UNCHANGED <<starts, pods>>
  BY <1>1 DEF Begin, BeginStart, BeginAccess, BeginStop, Interrupt, SessionLoss, journal, cluster
<1>2. CASE Crash BY <1>2 DEF Crash, journal
<1>3. CASE UNCHANGED vars BY <1>3 DEF vars, journal, cluster
<1>4. ASSUME NEW c \in Callers, Proceed(c)
      PROVE  \/ UNCHANGED <<starts, pods>>
             \/ UNCHANGED pods /\ \E o \in Ops : StartStep(o)
             \/ UNCHANGED starts /\ \E o \in Ops : PodStep(o)
  BY <1>4, WriteStep, CallPodStep
<1>5. ASSUME NEW r \in late, Land(r) \/ Lose(r)
      PROVE  UNCHANGED starts /\ (UNCHANGED pods \/ \E o \in Ops : PodStep(o))
  <2>1. UNCHANGED starts BY <1>5 DEF Land, Lose, journal
  <2> QED BY <1>5, <2>1, LatePodStep
<1>6. ASSUME Cluster PROVE UNCHANGED starts /\ (UNCHANGED pods \/ \E o \in Ops : PodStep(o))
  <2>1. UNCHANGED starts
    BY <1>6 DEF Cluster, PodReady, PodUnready, PodExit, PodGone, Evict, ReplacePod, SetPod, ReplaceService,
                ReplaceSecret, Migrate, NodeDown, NodeUp, Publish, RemoveInstallation, journal
  <2> QED BY <1>6, <2>1, ClusterPodStep
<1> QED BY <1>1, <1>2, <1>3, <1>4, <1>5, <1>6 DEF Next

\* A creation that outlived a Pod stays on record.
LEMMA TimelyBefore ==
    ASSUME [Next]_vars, timely'
    PROVE  timely
<1>1. ASSUME NEW c \in Callers, Begin(c) \/ Interrupt(c) \/ SessionLoss(c) PROVE UNCHANGED timely
  BY <1>1, ZenonT(60) DEF Begin, BeginStart, BeginAccess, BeginStop, Interrupt, SessionLoss, cluster
<1>2. CASE Crash \/ UNCHANGED vars BY <1>2 DEF Crash, vars, cluster
<1>3. ASSUME NEW c \in Callers, Proceed(c) PROVE UNCHANGED timely
  BY <1>3 DEF Proceed, Authorize, AcceptCheck, AcceptReplay, AcceptInsert, AcceptInspect, AcceptBind, AcceptRefuse,
         AcquireLock, Load, ClaimVolume, EnsurePod, EnsureService, EnsureSecretAndVolume, CheckpointProgress,
         CreateSecret, CreateService, CreatePod, ObservePod, ObserveRest, CheckpointObserved, Probe,
         CheckpointRunning, Certify, Grant, ReplayStop, acceptStop, Seal, SealRefused, CheckpointSealed, RemoveNode,
         RemovePod, RemoveService, RemoveSecretAndVolume, RemoveAdvance, DeletePod, DeleteService, cluster
<1>4. ASSUME NEW r \in late, Land(r) \/ Lose(r) PROVE UNCHANGED timely BY <1>4 DEF Land, Lose
<1>5. ASSUME Cluster PROVE timely
  BY <1>5 DEF Cluster, PodReady, PodUnready, PodExit, PodGone, Evict, ReplacePod, SetPod, ReplaceService,
              ReplaceSecret, Migrate, NodeDown, NodeUp, Publish, RemoveInstallation, cluster
<1> QED BY <1>1, <1>2, <1>3, <1>4, <1>5 DEF Next

--------------------------------------------------------------------------------
(* What no step may do                                                      *)

\* Runtime asks for the termination of a Pod only with that intent committed, for the Pod it
\* recorded, after its process closed admission: also where the request lands late.
THEOREM OnlyCondemnedDeleted == Spec => DeletesOnlyCondemned
<1>1. ASSUME FullInv, [Next]_vars, NEW o \in Ops, pods[o].status # "terminating",
             pods'[o].status = "terminating", faults' = faults
      PROVE  Condemned(o)
  <2>0. pods \in [Ops -> Pod] BY <1>1 DEF FullInv, JournalInv, BaseInv, TypeOK
  <2>1. PICK x \in Ops : PodStep(x) BY <1>1, StepKinds
  <2>2. x = o BY <1>1, <2>0, <2>1 DEF PodStep, Appears, Stays, Goes, Changes
  <2>3. CASE Appears(x) BY <1>1, <2>0, <2>2, <2>3 DEF Appears, Changes, NewPod
  <2>4. CASE Goes(x)
    <3>1. pods'[o] = [pods[o] EXCEPT !.status = "absent"] BY <2>0, <2>2, <2>4 DEF Goes, Changes
    <3> QED BY <1>1, <2>0, <3>1 DEF Pod
  <2>5. CASE Stays(x) BY <1>1, <2>0, <2>2, <2>5 DEF Stays, Changes
  <2> QED BY <2>1, <2>3, <2>4, <2>5 DEF PodStep
<1>2. FullInv /\ [Next]_vars =>
        [\A o \in Ops : pods[o].status # "terminating" /\ pods'[o].status = "terminating"
                          /\ faults' = faults => Condemned(o)]_vars
  BY <1>1
<1> QED BY <1>2, WorkerInvariant, PTL DEF Spec, DeletesOnlyCondemned

\* A row keeps what it records, and the phase only advances.
LEMMA RowsKept ==
    ASSUME FullInv, NEW o \in Ops, StartStep(o), NEW x \in Ops
    PROVE  /\ Rank(starts[x].phase) <= Rank(starts'[x].phase)
           /\ starts[x].phase # "none" => /\ starts'[x].gen = starts[x].gen /\ starts'[x].prof = starts[x].prof
                                          /\ starts'[x].revision = starts[x].revision
           /\ Keeps(starts[x].obs.pod, starts'[x].obs.pod) /\ Keeps(starts[x].obs.svc, starts'[x].obs.svc)
           /\ Keeps(starts[x].obs.sec, starts'[x].obs.sec) /\ Keeps(starts[x].obs.boot, starts'[x].obs.boot)
<1>0. RowInv /\ starts \in [Ops -> StartRow] BY DEF FullInv, JournalInv, RecordInv, BaseInv, TypeOK
<1>1. \A y \in Ops : y # o => starts'[y] = starts[y]
  BY <1>0 DEF StartStep, Accepts, Advances, Moved, Writes
<1>2. Rank(starts[x].phase) \in Int BY DEF Rank
<1>3. CASE x # o BY <1>1, <1>2, <1>3 DEF Keeps
<1>4. CASE x = o /\ Accepts(o)
  <2>1. starts[o].obs = NoObservation /\ starts[o].phase = "none" BY <1>0, <1>4 DEF Accepts, RowInv, NoStart
  <2>2. starts'[o].phase = "accepted" BY <1>0, <1>4 DEF Accepts, Writes
  <2> QED BY <1>4, <2>1, <2>2 DEF Keeps, NoObservation, Rank
<1>5. CASE x = o /\ Advances(o)
  <2>1. PICK row \in StartRow :
          /\ Writes(o, row) /\ starts[o].phase \in {"accepted", "launching"} /\ row.phase \in {"launching", "running"}
          /\ row.gen = starts[o].gen /\ row.revision = starts[o].revision /\ row.prof = starts[o].prof
          /\ monotonicObservation(starts[o].obs, row.obs)
    BY <1>5 DEF Advances
  <2>2. starts'[o] = row BY <1>0, <2>1 DEF Writes
  <2>3. Rank(starts[o].phase) <= Rank(row.phase) BY <2>1 DEF Rank
  <2> QED BY <1>5, <2>1, <2>2, <2>3 DEF monotonicObservation
<1>6. ASSUME NEW from, NEW to, Moved(o, from, to), x = o, Rank(from) <= Rank(to)
      PROVE  /\ Rank(starts[x].phase) <= Rank(starts'[x].phase)
             /\ starts'[x].gen = starts[x].gen /\ starts'[x].revision = starts[x].revision
             /\ starts'[x].prof = starts[x].prof /\ starts'[x].obs = starts[x].obs
  BY <1>0, <1>6 DEF Moved, Writes, StartRow
<1>7. Rank("running") <= Rank("stopping") /\ Rank("stopping") <= Rank("stopped") BY DEF Rank
<1> QED BY <1>3, <1>4, <1>5, <1>6, <1>7 DEF StartStep, Keeps

\* A Pod appears only for the launching start that has recorded none, and alone.
LEMMA AppearsAlone ==
    ASSUME FullInv, timely, NEW o \in Ops, Appears(o)
    PROVE  /\ starts[o].phase = "launching" /\ starts[o].obs.pod = 0
           /\ \A x \in Ops : ~PodThere(x)
<1>0. TimelyInv /\ RowInv BY DEF FullInv, JournalInv, RecordInv, WorkerInv, ObjectInv
<1>1. Active(o) /\ starts[o].obs.pod = 0 BY <1>0 DEF Appears, TimelyInv
<1>2. starts[o].phase = "launching" BY <1>0, <1>1 DEF Active, RowInv
<1>3. \A x \in Ops : PodThere(x) => x = o BY <1>0, <1>1, OneActive DEF TimelyInv
<1> QED BY <1>1, <1>2, <1>3 DEF Appears

\* The journal is history, and while no creation outlives a Pod, a worker appears only for
\* the launching start that has recorded none.
THEOREM HistoryStays == Spec => HistoryKept
<1> DEFINE Kept(o) ==
         /\ Rank(starts[o].phase) <= Rank(starts'[o].phase)
         /\ starts[o].phase # "none" => /\ starts'[o].gen = starts[o].gen /\ starts'[o].prof = starts[o].prof
                                         /\ starts'[o].revision = starts[o].revision
         /\ Keeps(starts[o].obs.pod, starts'[o].obs.pod) /\ Keeps(starts[o].obs.svc, starts'[o].obs.svc)
         /\ Keeps(starts[o].obs.sec, starts'[o].obs.sec) /\ Keeps(starts[o].obs.boot, starts'[o].obs.boot)
         /\ timely' /\ pods[o].status = "absent" /\ pods'[o].status # "absent" =>
              /\ starts[o].phase = "launching" /\ starts[o].obs.pod = 0
              /\ \A x \in Ops : pods[x].status = "absent"
<1>1. ASSUME FullInv, [Next]_vars, NEW o \in Ops PROVE Kept(o)
  <2>0. pods \in [Ops -> Pod] BY <1>1 DEF FullInv, JournalInv, BaseInv, TypeOK
  <2>1. CASE UNCHANGED <<starts, pods>>
    <3>1. Rank(starts[o].phase) \in Int BY DEF Rank
    <3> QED BY <2>1, <3>1 DEF Keeps
  <2>2. ASSUME UNCHANGED pods, NEW x \in Ops, StartStep(x) PROVE Kept(o) BY <1>1, <2>2, RowsKept
  <2>3. ASSUME UNCHANGED starts, NEW x \in Ops, PodStep(x) PROVE Kept(o)
    <3>1. Rank(starts[o].phase) \in Int BY DEF Rank
    <3>2. ASSUME timely', pods[o].status = "absent", pods'[o].status # "absent"
          PROVE  /\ starts[o].phase = "launching" /\ starts[o].obs.pod = 0
                 /\ \A y \in Ops : pods[y].status = "absent"
      <4>1. x = o /\ Appears(x)
        BY <2>0, <2>3, <3>2 DEF PodStep, Appears, Stays, Goes, Changes, PodThere
      <4> QED BY <1>1, <3>2, <4>1, TimelyBefore, AppearsAlone DEF PodThere
    <3> QED BY <2>3, <3>1, <3>2 DEF Keeps
  <2> QED BY <1>1, <2>1, <2>2, <2>3, StepKinds
<1>2. FullInv /\ [Next]_vars => [\A o \in Ops : Kept(o)]_vars BY <1>1
<1> QED BY <1>2, WorkerInvariant, PTL DEF Spec, HistoryKept

--------------------------------------------------------------------------------
(* The refinement                                                           *)

lifeState == [o \in Ops |-> RunState(starts[o].phase)]
lifeGen == [o \in Ops |-> starts[o].gen]
lifeWorkers == {o \in Ops : pods[o].status # "absent"}

LEMMA InitRefines == Init => Lifecycle!Init
  BY DEF Init, Lifecycle!Init, RunState, NoStart, NoPod

LEMMA StartRefines ==
    ASSUME FullInv, timely, NEW o \in Ops, StartStep(o), UNCHANGED pods
    PROVE  Lifecycle!Next \/ UNCHANGED <<lifeState, lifeGen, lifeWorkers>>
<1>0. /\ RowInv /\ TimelyInv /\ starts \in [Ops -> StartRow] /\ starts' \in [Ops -> StartRow]
  <2>1. starts \in [Ops -> StartRow] BY DEF FullInv, JournalInv, BaseInv, TypeOK
  <2>2. \A phase \in StartPhases : [starts[o] EXCEPT !.phase = phase] \in StartRow BY <2>1 DEF StartRow
  <2>3. starts' \in [Ops -> StartRow] BY <2>1, <2>2 DEF StartStep, Accepts, Advances, Moved, Writes
  <2> QED BY <2>1, <2>3 DEF FullInv, JournalInv, RecordInv, WorkerInv, ObjectInv
<1>1. \A y \in Ops : y # o => starts'[y] = starts[y]
  BY <1>0 DEF StartStep, Accepts, Advances, Moved, Writes
<1>2. lifeWorkers' = lifeWorkers BY DEF lifeWorkers
<1>3. ASSUME NEW s, RunState(starts'[o].phase) = s PROVE lifeState' = [lifeState EXCEPT ![o] = s]
  BY <1>0, <1>1, <1>3 DEF lifeState
<1>4. ASSUME starts'[o].gen = starts[o].gen PROVE lifeGen' = lifeGen BY <1>1, <1>4 DEF lifeGen
<1>5. CASE Accepts(o)
  <2>1. PICK row \in StartRow :
          /\ Writes(o, row) /\ starts[o].phase = "none" /\ row.phase = "accepted"
          /\ \A x \in Ops : starts[x].phase \in {"none", "stopped"}
          /\ \E x \in Ops : row.gen = starts[x].gen + 1 /\ \A y \in Ops : starts[y].gen <= starts[x].gen
    BY <1>5 DEF Accepts
  <2>2. starts'[o] = row BY <1>0, <2>1 DEF Writes
  <2>3. lifeState' = [lifeState EXCEPT ![o] = "starting"] BY <1>3, <2>1, <2>2 DEF RunState
  <2>4. \A x \in Ops : lifeState[x] \in {"none", "stopped"} BY <2>1 DEF lifeState, RunState
  <2>5. lifeWorkers = {} BY <1>0, <2>1 DEF lifeWorkers, TimelyInv, PodThere, Active
  <2>6. PICK x \in Ops : row.gen = starts[x].gen + 1 /\ \A y \in Ops : starts[y].gen <= starts[x].gen BY <2>1
  <2>7. lifeGen' = [lifeGen EXCEPT ![o] = lifeGen[x] + 1] BY <1>1, <2>2, <2>6 DEF lifeGen
  <2>8. \A y \in Ops : lifeGen[y] <= lifeGen[x] BY <2>6 DEF lifeGen
  <2>9. lifeState[o] = "none" BY <2>1 DEF lifeState, RunState
  <2>10. Lifecycle!Accept(o)
    BY <1>2, <2>3, <2>4, <2>5, <2>7, <2>8, <2>9 DEF Lifecycle!Accept, lifeState, lifeGen, lifeWorkers
  <2> QED BY <2>10 DEF Lifecycle!Next
<1>6. CASE Advances(o)
  <2>1. /\ starts'[o].gen = starts[o].gen /\ starts[o].phase \in {"accepted", "launching"}
        /\ starts'[o].phase \in {"launching", "running"}
    BY <1>0, <1>6 DEF Advances, Writes
  <2>2. lifeState[o] = "starting" BY <2>1 DEF lifeState, RunState
  <2>3. CASE starts'[o].phase = "running"
    <3>1. lifeState' = [lifeState EXCEPT ![o] = "running"] BY <1>3, <2>3 DEF RunState
    <3>2. Lifecycle!Run(o)
      BY <1>2, <1>4, <2>1, <2>2, <3>1 DEF Lifecycle!Run, Lifecycle!Move, lifeState, lifeGen, lifeWorkers
    <3> QED BY <3>2 DEF Lifecycle!Next
  <2>4. CASE starts'[o].phase = "launching"
    <3>1. lifeState' = [lifeState EXCEPT ![o] = "starting"] BY <1>3, <2>4 DEF RunState
    <3>2. lifeState' = lifeState BY <2>2, <3>1 DEF lifeState
    <3> QED BY <1>2, <1>4, <2>1, <3>2
  <2> QED BY <2>1, <2>3, <2>4
<1>7. ASSUME NEW from \in {"running", "stopping"}, NEW to \in {"stopping", "stopped"}, Moved(o, from, to)
      PROVE  /\ lifeState[o] = from /\ lifeState' = [lifeState EXCEPT ![o] = to] /\ lifeGen' = lifeGen
  <2>1. starts'[o].phase = to /\ starts'[o].gen = starts[o].gen /\ starts[o].phase = from
    BY <1>0, <1>7 DEF Moved, Writes, StartRow
  <2>2. RunState(to) = to /\ RunState(from) = from BY DEF RunState
  <2> QED BY <1>3, <1>4, <2>1, <2>2 DEF lifeState
<1>8. CASE Moved(o, "running", "stopping")
  <2>1. Lifecycle!RequestStop(o)
    BY <1>2, <1>7, <1>8 DEF Lifecycle!RequestStop, Lifecycle!Move, lifeState, lifeGen, lifeWorkers
  <2> QED BY <2>1 DEF Lifecycle!Next
<1>9. CASE Moved(o, "stopping", "stopped") /\ (timely => ~PodThere(o))
  <2>1. Active(o) BY <1>9 DEF Moved, Active
  <2>2. lifeWorkers = {} BY <1>0, <1>9, <2>1, OneActive DEF lifeWorkers, TimelyInv, PodThere
  <2>3. Lifecycle!Retire(o)
    BY <1>2, <1>7, <1>9, <2>2 DEF Lifecycle!Retire, Lifecycle!Move, lifeState, lifeGen, lifeWorkers
  <2> QED BY <2>3 DEF Lifecycle!Next
<1> QED BY <1>5, <1>6, <1>8, <1>9 DEF StartStep

LEMMA PodRefines ==
    ASSUME FullInv, timely, NEW o \in Ops, PodStep(o), UNCHANGED starts
    PROVE  Lifecycle!Next \/ UNCHANGED <<lifeState, lifeGen, lifeWorkers>>
<1>0. pods \in [Ops -> Pod] BY DEF FullInv, JournalInv, BaseInv, TypeOK
<1>1. lifeState' = lifeState /\ lifeGen' = lifeGen BY DEF lifeState, lifeGen
<1>2. \A x \in Ops : x # o => pods'[x] = pods[x] BY <1>0 DEF PodStep, Appears, Stays, Goes, Changes
<1>3. CASE Appears(o)
  <2>1. starts[o].phase = "launching" /\ \A x \in Ops : ~PodThere(x) BY <1>3, AppearsAlone
  <2>2. pods'[o].status = "pending" BY <1>0, <1>3 DEF Appears, Changes, NewPod
  <2>3. lifeWorkers = {} /\ lifeWorkers' = {o} /\ lifeState[o] = "starting"
    BY <1>2, <2>1, <2>2 DEF lifeWorkers, PodThere, lifeState, RunState
  <2>4. Lifecycle!Appear(o) BY <1>1, <2>3 DEF Lifecycle!Appear, lifeState, lifeGen, lifeWorkers
  <2> QED BY <2>4 DEF Lifecycle!Next
<1>4. CASE Stays(o)
  <2>1. pods'[o].status # "absent" /\ pods[o].status # "absent" BY <1>0, <1>4 DEF Stays, Changes, PodThere
  <2>2. lifeWorkers' = lifeWorkers BY <1>2, <2>1 DEF lifeWorkers
  <2> QED BY <1>1, <2>2
<1>5. CASE Goes(o)
  <2>1. pods'[o].status = "absent" /\ pods[o].status # "absent" BY <1>0, <1>5 DEF Goes, Changes, PodThere, Pod
  <2>2. o \in lifeWorkers /\ lifeWorkers' = lifeWorkers \ {o} BY <1>2, <2>1 DEF lifeWorkers
  <2>3. Lifecycle!Vanish(o) BY <1>1, <2>2 DEF Lifecycle!Vanish, lifeState, lifeGen, lifeWorkers
  <2> QED BY <2>3 DEF Lifecycle!Next
<1> QED BY <1>3, <1>4, <1>5 DEF PodStep

\* The journal with its calls, crashes and late requests implements the lifecycle it
\* promises: until a creation outlives a Pod, every step is a step of InstanceLifecycle
\* or invisible to it.
THEOREM RefinesLifecycle == Spec => ImplementsLifecycle
<1>1. Init => Lifecycle!Init BY InitRefines
<1>2. FullInv /\ [Next]_vars =>
        [timely' => Lifecycle!Next \/ UNCHANGED <<lifeState, lifeGen, lifeWorkers>>]_vars
  <2> SUFFICES ASSUME FullInv, [Next]_vars, timely'
               PROVE  Lifecycle!Next \/ UNCHANGED <<lifeState, lifeGen, lifeWorkers>>
    OBVIOUS
  <2>1. CASE UNCHANGED <<starts, pods>> BY <2>1 DEF lifeState, lifeGen, lifeWorkers
  <2>2. timely BY TimelyBefore
  <2> QED BY <2>1, <2>2, StepKinds, StartRefines, PodRefines
<1> QED BY <1>1, <1>2, WorkerInvariant, PTL
    DEF Spec, ImplementsLifecycle, Lifecycle!lifecycleVars, lifeState, lifeGen, lifeWorkers
================================================================================
