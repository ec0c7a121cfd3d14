--------------------------- MODULE AppInstanceProofs ---------------------------
(***************************************************************************)
(* Proofs about AppInstance for any number of callers, operations, faults  *)
(* and generations.  Stage one: where a call is determines what its local  *)
(* variables hold and which lock it can have (BaseInv).  Stage two: what   *)
(* the holder of the lock knows about the journal (JournalInv).  Stage     *)
(* three: what a call takes along from profile to credential (SideInv).    *)
(***************************************************************************)
EXTENDS AppInstance, TLAPS

--------------------------------------------------------------------------------
(* BaseInv                                                                  *)

LaunchLabels == {"claim", "ensure_pod", "ensure_svc", "ensure_rest", "checkpoint", "create",
                 "checkpoint_observed"}
ObserveLabels == {"observe_pod", "observe_rest"}
VerifyLabels == {"probe", "certify", "grant"}
RemoveLabels == {"remove_node", "remove_pod", "remove_svc", "remove_rest", "remove"}
StopLabels == {"stop", "seal", "checkpoint_sealed"} \cup RemoveLabels
LoadedLabels == LaunchLabels \cup ObserveLabels \cup VerifyLabels \cup StopLabels

\* What the local variables hold, and which lock is held, by where the call is.
CallShape(call, at, held) ==
    /\ at = "idle" => call.kind = "none" /\ call.op = NoOp /\ call.aim = "none" /\ call.prog = "none"
    /\ at \in {"idle", "lock"} => held = "none"
    /\ at # "idle" => call.op \in Ops /\ call.kind # "none"
    /\ at \in {"accept_authorize", "accept_check", "accept_insert", "accept_bind", "lock"} => call.kind = "start"
    /\ at \in LoadedLabels <=> call.rec.phase # "none"
    /\ call.kind = "access" => held # "exclusive"
    /\ call.kind \in {"start", "stop"} => held # "shared"
    /\ call.kind = "stop" => call.stop \in StopOps
    /\ call.kind = "access" /\ at \in LoadedLabels => call.rec.phase = "running"
    /\ at \in LaunchLabels => /\ call.kind = "start" /\ call.aim = "ensure"
                              /\ call.rec.phase \in {"accepted", "launching"}
    /\ at \in VerifyLabels => call.kind \in {"start", "access"} /\ call.aim \in {"verify", "verified"}
    /\ at = "grant" => call.kind = "access"
    /\ at \in StopLabels => call.kind = "stop" /\ call.aim \in {"stop", "sealed"}
    /\ at \in ObserveLabels => call.aim # "none"
    /\ call.aim = "ensure" => call.kind = "start" /\ call.rec.phase \in {"accepted", "launching"}
    /\ call.aim \in {"verify", "verified"} => call.kind \in {"start", "access"}
    /\ call.aim \in {"stop", "sealed"} => call.kind = "stop"
    /\ call.prog # "none" => call.kind = "stop" /\ at \in LoadedLabels
    /\ call.kind = "stop" /\ at \in ObserveLabels \cup {"seal", "checkpoint_sealed"} =>
         call.prog = "accepted"
    /\ at \in RemoveLabels => call.prog \notin {"none", "accepted", "stopped"}
    /\ at = "stop" => call.prog = "none"
    /\ at = "create" => call.rec.phase = "launching" /\ call.rec.obs = Progress(call.seen)

CallInv == \A c \in Callers : CallShape(loc[c], pc[c], lock[c])

\* The advisory lock: an exclusive holder is alone.
LockInv == \A c, d \in Callers : c # d /\ lock[c] = "exclusive" => lock[d] = "none"

\* A seal that lands late carries the stop operation it was sent for.
LateInv == \A r \in late : r.kind = "seal" => r.stop \in StopOps

BaseInv == TypeOK /\ CallInv /\ LockInv /\ LateInv

\* The part of BaseInv that is about calls, and the part that is about everything else.
CallType ==
    /\ pc \in [Callers -> Labels]
    /\ lock \in [Callers -> {"none", "shared", "exclusive"}]
    /\ loc \in [Callers -> Locals]
CallsOK == CallType /\ CallInv /\ LockInv
DataType ==
    /\ starts \in [Ops -> StartRow] /\ stops \in [StopOps -> StopRow]
    /\ installation \in 0..MaxRevision
    /\ pods \in [Ops -> Pod] /\ svcs \in [Ops -> Object] /\ secret \in Secret
    /\ claimed \in Profiles \cup {NoProfile} /\ nodeReady \in BOOLEAN /\ timely \in BOOLEAN
    /\ barriers \subseteq Barrier /\ late \subseteq Request /\ LateInv
    /\ faults \in 0..MaxFaults

USE DEF StartPhases, StopPhases, PodStatus, Uid

LEMMA NullTypes ==
    /\ NoStart \in StartRow /\ NoStop \in StopRow /\ NoObject \in Object /\ NoSecret \in Secret
    /\ NoPod \in Pod /\ NoSeen \in Seen /\ NoCall \in Locals
  BY ConstantsAssumption DEF NoStart, NoStop, NoObject, NoSecret, NoPod, NoSeen, NoCall, NoObservation,
     StartRow, StopRow, Object, Secret, Pod, Seen, Locals, Observation, Aims

LEMMA BaseParts == BaseInv <=> CallsOK /\ DataType
  BY DEF BaseInv, CallsOK, DataType, CallType, TypeOK

LEMMA Assemble == ASSUME CallsOK', DataType' PROVE BaseInv'
  BY DEF BaseInv, CallsOK, DataType, CallType, TypeOK

LEMMA InitBase == Init => BaseInv
<1> SUFFICES ASSUME Init PROVE BaseInv OBVIOUS
<1>1. nodeReady \in BOOLEAN /\ timely \in BOOLEAN BY Zenon DEF Init
<1>2. DataType BY <1>1, NullTypes, ConstantsAssumption DEF Init, DataType, LateInv
<1>3. CallType BY NullTypes DEF Init, CallType, Labels
<1>4. CallShape(NoCall, "idle", "none")
  BY DEF CallShape, NoCall, NoStart, LaunchLabels, ObserveLabels, VerifyLabels, StopLabels,
     RemoveLabels, LoadedLabels
<1>5. CallInv /\ LockInv BY <1>4 DEF Init, CallInv, LockInv
<1> QED BY <1>2, <1>3, <1>5, BaseParts DEF CallsOK

LEMMA IdleShape == CallShape(NoCall, "idle", "none") /\ "idle" \in Labels
  BY DEF CallShape, NoCall, NoStart, LaunchLabels, ObserveLabels, VerifyLabels, StopLabels,
     RemoveLabels, LoadedLabels, Labels

LEMMA FieldTypes ==
    ASSUME BaseInv, NEW c \in Callers
    PROVE  /\ CallShape(loc[c], pc[c], lock[c]) /\ pc[c] \in Labels
           /\ loc[c] \in Locals /\ loc[c].seen \in Seen /\ loc[c].rec \in StartRow
           /\ loc[c].op \in Ops \cup {NoOp} /\ loc[c].rec.obs \in Observation
           /\ lock[c] \in {"none", "shared", "exclusive"}
  BY DEF BaseInv, TypeOK, CallInv, Locals, StartRow

--------------------------------------------------------------------------------
(* The moves a call is built from                                           *)

LEMMA ReturnCalls ==
    ASSUME BaseInv, NEW c \in Callers, Return(c)
    PROVE  CallsOK'
<1>1. CallType' BY NullTypes, IdleShape DEF BaseInv, TypeOK, CallType, Return, Leave
<1>2. CallInv' BY IdleShape DEF BaseInv, TypeOK, CallInv, Return, Leave
<1>3. LockInv' BY DEF BaseInv, TypeOK, LockInv, Return, Leave
<1> QED BY <1>1, <1>2, <1>3 DEF CallsOK

LEMMA StepCalls ==
    ASSUME BaseInv, NEW c \in Callers, NEW label \in Labels, NEW call \in Locals,
           Goto(c, label), loc' = [loc EXCEPT ![c] = call], CallShape(call, label, lock[c])
    PROVE  CallsOK'
<1>1. CallType' BY DEF BaseInv, TypeOK, CallType, Goto
<1>2. CallInv' BY DEF BaseInv, TypeOK, CallInv, Goto
<1>3. LockInv' BY DEF BaseInv, LockInv, Goto
<1> QED BY <1>1, <1>2, <1>3 DEF CallsOK

LEMMA CheckCalls ==
    ASSUME BaseInv, NEW c \in Callers, NEW ok, NEW label \in Labels, NEW seen \in Seen,
           Check(c, ok, label, seen),
           ok => CallShape([loc[c] EXCEPT !.seen = seen], label, lock[c])
    PROVE  CallsOK'
<1>1. CASE ok
  <2> DEFINE call == [loc[c] EXCEPT !.seen = seen]
  <2>1. Goto(c, label) /\ loc' = [loc EXCEPT ![c] = call] BY <1>1 DEF Check
  <2>2. call \in Locals BY FieldTypes DEF Locals
  <2>3. CallShape(call, label, lock[c]) BY <1>1
  <2> HIDE DEF call
  <2> QED BY <2>1, <2>2, <2>3, StepCalls
<1>2. CASE ~ok BY <1>2, ReturnCalls DEF Check
<1> QED BY <1>1, <1>2

\* Every call that begins or takes the lock is the only holder, or shares it.
LEMMA EnterCalls ==
    ASSUME BaseInv, NEW c \in Callers, NEW label \in Labels, NEW call \in Locals, NEW held,
           \/ held = "exclusive" /\ \A d \in Callers : lock[d] = "none"
           \/ held = "shared" /\ \A d \in Callers : lock[d] # "exclusive"
           \/ held = "none",
           pc' = [pc EXCEPT ![c] = label], lock' = [lock EXCEPT ![c] = held],
           loc' = [loc EXCEPT ![c] = call], CallShape(call, label, held)
    PROVE  CallsOK'
<1>1. CallType' BY DEF BaseInv, TypeOK, CallType
<1>2. CallInv' BY DEF BaseInv, TypeOK, CallInv
<1>3. LockInv' BY DEF BaseInv, TypeOK, LockInv
<1> QED BY <1>1, <1>2, <1>3 DEF CallsOK

\* Losing freshness changes nothing of a call's shape.
LEMMA StaleShape ==
    ASSUME NEW call \in Locals, NEW at, NEW held, CallShape(call, at, held)
    PROVE  /\ [call EXCEPT !.fresh = FALSE] \in Locals
           /\ CallShape([call EXCEPT !.fresh = FALSE], at, held)
<1> DEFINE stale == [call EXCEPT !.fresh = FALSE]
<1>1. stale \in Locals BY DEF Locals
<1>2. /\ stale.kind = call.kind /\ stale.op = call.op /\ stale.stop = call.stop
      /\ stale.rec = call.rec /\ stale.seen = call.seen /\ stale.aim = call.aim
      /\ stale.prog = call.prog
  BY DEF Locals
<1> HIDE DEF stale
<1>3. CallShape(stale, at, held) BY <1>2 DEF CallShape
<1> QED BY <1>1, <1>3 DEF stale

\* The copies of the other calls lose freshness, the caller goes on with mine.
LEMMA SaveCalls ==
    ASSUME BaseInv, NEW c \in Callers, NEW label \in Labels, NEW mine \in Locals, NEW row,
           SaveStart(c, row, mine), Goto(c, label), CallShape(mine, label, lock[c])
    PROVE  CallsOK'
<1>1. \A d \in Callers : /\ [loc[d] EXCEPT !.fresh = FALSE] \in Locals
                          /\ CallShape([loc[d] EXCEPT !.fresh = FALSE], pc[d], lock[d])
  BY FieldTypes, StaleShape
<1>2. loc' \in [Callers -> Locals]
  BY <1>1, FieldTypes DEF SaveStart
<1>3. CallType' BY <1>2 DEF BaseInv, TypeOK, CallType, Goto
<1>4. CallInv'
  <2> SUFFICES ASSUME NEW d \in Callers PROVE CallShape(loc'[d], pc'[d], lock'[d]) BY DEF CallInv
  <2>1. CASE d = c BY <2>1 DEF SaveStart, Goto, BaseInv, TypeOK
  <2>2. CASE d # c BY <2>2, <1>1, FieldTypes DEF SaveStart, Goto, BaseInv, TypeOK
  <2> QED BY <2>1, <2>2
<1>5. LockInv' BY DEF BaseInv, LockInv, Goto
<1> QED BY <1>3, <1>4, <1>5 DEF CallsOK

LEMMA SaveAndLeaveCalls ==
    ASSUME BaseInv, NEW c \in Callers, NEW row, SaveStart(c, row, NoCall), Leave(c)
    PROVE  CallsOK'
<1>1. \A d \in Callers : /\ [loc[d] EXCEPT !.fresh = FALSE] \in Locals
                          /\ CallShape([loc[d] EXCEPT !.fresh = FALSE], pc[d], lock[d])
  BY FieldTypes, StaleShape
<1>2. loc' \in [Callers -> Locals]
  BY <1>1, FieldTypes, NullTypes DEF SaveStart
<1>3. CallType' BY <1>2, IdleShape DEF BaseInv, TypeOK, CallType, Leave
<1>4. CallInv'
  <2> SUFFICES ASSUME NEW d \in Callers PROVE CallShape(loc'[d], pc'[d], lock'[d]) BY DEF CallInv
  <2>1. CASE d = c BY <2>1, IdleShape DEF SaveStart, Leave, BaseInv, TypeOK
  <2>2. CASE d # c BY <2>2, <1>1, FieldTypes DEF SaveStart, Leave, BaseInv, TypeOK
  <2> QED BY <2>1, <2>2
<1>5. LockInv' BY DEF BaseInv, TypeOK, LockInv, Leave
<1> QED BY <1>3, <1>4, <1>5 DEF CallsOK

--------------------------------------------------------------------------------
(* Every step of a call preserves BaseInv                                   *)

USE DEF LaunchLabels, ObserveLabels, VerifyLabels, StopLabels, RemoveLabels, LoadedLabels

\* Steps that change nothing but the call.
LEMMA LocalBase ==
    ASSUME BaseInv, CallsOK', UNCHANGED <<journal, installation, cluster, faults>>
    PROVE  BaseInv'
<1>1. DataType BY BaseParts
<1>2. DataType' BY <1>1 DEF DataType, journal, cluster, LateInv
<1> QED BY <1>2, Assemble

LEMMA BaseBegin ==
    ASSUME BaseInv, NEW c \in Callers, Begin(c)
    PROVE  BaseInv'
<1> PICK o \in Ops, g \in 1..MaxGeneration, p \in Profiles :
       \/ BeginStart(c, o, g, p)
       \/ BeginAccess(c, o, g, p)
       \/ \E s \in StopOps, boot \in 1..MaxUid : BeginStop(c, o, g, p, s, boot)
  BY DEF Begin
<1>range. g \in 0..MaxGeneration /\ o \in Ops \cup {NoOp} BY ConstantsAssumption
<1>1. CASE BeginStart(c, o, g, p)
  <2> DEFINE call == [NoCall EXCEPT !.kind = "start", !.op = o, !.gen = g, !.prof = p]
  <2>1. call \in Locals BY <1>range, NullTypes DEF Locals
  <2>2. CallShape(call, "accept_authorize", "exclusive") BY DEF CallShape, NoCall, NoStart
  <2>3. CallsOK'
    <3> HIDE DEF call
    <3> QED BY <1>1, <2>1, <2>2, EnterCalls DEF BeginStart, LockFree, Labels, call
  <2> QED BY <1>1, <2>3, LocalBase DEF BeginStart
<1>2. CASE BeginAccess(c, o, g, p)
  <2> DEFINE call == [NoCall EXCEPT !.kind = "access", !.op = o, !.gen = g, !.prof = p]
  <2>1. call \in Locals BY <1>range, NullTypes DEF Locals
  <2>2. CallShape(call, "authorize", "shared") BY DEF CallShape, NoCall, NoStart
  <2>3. CallsOK'
    <3> HIDE DEF call
    <3> QED BY <1>2, <2>1, <2>2, EnterCalls DEF BeginAccess, SharedLockFree, Labels, call
  <2> QED BY <1>2, <2>3, LocalBase DEF BeginAccess
<1>3. ASSUME NEW s \in StopOps, NEW boot \in 1..MaxUid, BeginStop(c, o, g, p, s, boot)
      PROVE  BaseInv'
  <2> DEFINE call == [NoCall EXCEPT !.kind = "stop", !.op = o, !.gen = g, !.prof = p,
                          !.stop = s, !.boot = boot]
  <2>1. call \in Locals
    <3>1. s \in StopOps \cup {NoOp} /\ boot \in 0..MaxUid BY ConstantsAssumption
    <3> QED BY <1>range, <3>1, NullTypes DEF Locals
  <2>2. CallShape(call, "authorize", "exclusive") BY DEF CallShape, NoCall, NoStart
  <2>3. CallsOK'
    <3> HIDE DEF call
    <3> QED BY <1>3, <2>1, <2>2, EnterCalls DEF BeginStop, LockFree, Labels, call
  <2> QED BY <1>3, <2>3, LocalBase DEF BeginStop
<1> QED BY <1>1, <1>2, <1>3

LEMMA BaseAuthorize ==
    ASSUME BaseInv, NEW c \in Callers, Authorize(c)
    PROVE  BaseInv'
<1>1. CASE installation # 0
  <2> DEFINE label == IF pc[c] = "authorize" THEN "load" ELSE "accept_check"
             call == [loc[c] EXCEPT !.auth = installation]
  <2>1. label \in Labels BY DEF Labels
  <2>2. call \in Locals BY FieldTypes, SMTT(40) DEF Locals, BaseInv, TypeOK
  <2>3. CallShape(call, label, lock[c]) BY <1>1, FieldTypes DEF CallShape, Authorize, Locals
  <2>4. Goto(c, label) /\ loc' = [loc EXCEPT ![c] = call] BY <1>1 DEF Authorize
  <2> HIDE DEF label, call
  <2>5. CallsOK' BY <2>1, <2>2, <2>3, <2>4, StepCalls
  <2> QED BY <2>5, LocalBase DEF Authorize
<1>2. CASE installation = 0
  BY <1>2, LocalBase, ReturnCalls DEF Authorize
<1> QED BY <1>1, <1>2

LEMMA BaseAcceptCheck ==
    ASSUME BaseInv, NEW c \in Callers, AcceptCheck(c)
    PROVE  BaseInv'
<1>1. CallShape([loc[c] EXCEPT !.seen = NoSeen], "accept_insert", lock[c])
  BY FieldTypes DEF CallShape, AcceptCheck, Locals
<1>2. CallsOK'
  BY <1>1, CheckCalls, NullTypes DEF AcceptCheck, Labels
<1> QED BY <1>2, LocalBase DEF AcceptCheck

LEMMA CommitCalls ==
    ASSUME BaseInv, NEW c \in Callers, pc[c] \in {"accept_insert", "accept_bind"}, Commit(c)
    PROVE  CallsOK'
<1>1. CallShape(loc[c], "lock", "none") BY FieldTypes DEF CallShape
<1>2. loc' = [loc EXCEPT ![c] = loc[c]] BY DEF Commit, BaseInv, TypeOK
<1>3. pc' = [pc EXCEPT ![c] = "lock"] /\ lock' = [lock EXCEPT ![c] = "none"] BY DEF Commit
<1> QED BY <1>1, <1>2, <1>3, EnterCalls, FieldTypes DEF Labels

LEMMA BaseAcceptReplay ==
    ASSUME BaseInv, NEW c \in Callers, AcceptReplay(c)
    PROVE  BaseInv'
<1>1. CallsOK' BY CommitCalls, ReturnCalls DEF AcceptReplay
<1> QED BY <1>1, LocalBase DEF AcceptReplay

LEMMA BaseAcceptRefuse ==
    ASSUME BaseInv, NEW c \in Callers, AcceptRefuse(c)
    PROVE  BaseInv'
  BY ReturnCalls, LocalBase DEF AcceptRefuse

LEMMA NewStartType ==
    ASSUME BaseInv, NEW c \in Callers, NEW sec \in Uid
    PROVE  NewStart(c, sec) \in StartRow
  BY FieldTypes, NullTypes DEF NewStart, NoStart, StartRow, NoObservation, Observation, Locals

LEMMA BaseAcceptInsert ==
    ASSUME BaseInv, NEW c \in Callers, AcceptInsert(c)
    PROVE  BaseInv'
<1>1. CallsOK' BY CommitCalls DEF AcceptInsert
<1>2. \E sec \in Uid : starts' = [starts EXCEPT ![loc[c].op] = NewStart(c, sec)]
  BY ConstantsAssumption DEF AcceptInsert, BaseInv, TypeOK, StartRow, Observation
<1>3. starts' \in [Ops -> StartRow]
  <2> PICK sec \in Uid : starts' = [starts EXCEPT ![loc[c].op] = NewStart(c, sec)] BY <1>2
  <2>1. NewStart(c, sec) \in StartRow BY NewStartType
  <2> QED BY <2>1 DEF BaseInv, TypeOK
<1>4. DataType' BY <1>3, BaseParts DEF AcceptInsert, DataType, cluster, LateInv
<1> QED BY <1>1, <1>4, Assemble

LEMMA BaseAcceptInspect ==
    ASSUME BaseInv, NEW c \in Callers, AcceptInspect(c)
    PROVE  BaseInv'
<1> DEFINE seen == IF secretMatches(secret, loc[c].prof, 0) THEN [NoSeen EXCEPT !.sec = secret.uid] ELSE NoSeen
           ok == claimed \in {NoProfile, loc[c].prof} /\ InspectVolume(NoOp, 0)
           call == [loc[c] EXCEPT !.seen = seen]
<1>1. seen \in Seen BY NullTypes DEF BaseInv, TypeOK, Secret, Seen
<1>2. /\ pc[c] = "accept_insert" /\ Check(c, ok, "accept_bind", seen)
      /\ UNCHANGED <<journal, installation, cluster, faults>>
  BY DEF AcceptInspect
<1>3. /\ call.kind = loc[c].kind /\ call.op = loc[c].op /\ call.stop = loc[c].stop
      /\ call.rec = loc[c].rec /\ call.aim = loc[c].aim /\ call.prog = loc[c].prog
  BY FieldTypes DEF Locals
<1> HIDE DEF seen, ok
<1>4. CallShape(call, "accept_bind", lock[c])
  <2> HIDE DEF call
  <2> QED BY <1>2, <1>3, FieldTypes DEF CallShape
<1>5. CallsOK' BY <1>1, <1>2, <1>4, CheckCalls DEF Labels
<1> QED BY <1>2, <1>5, LocalBase

LEMMA BaseAcceptBind ==
    ASSUME BaseInv, NEW c \in Callers, AcceptBind(c)
    PROVE  BaseInv'
<1>1. CASE Connected(c)
  <2>1. CallsOK' BY <1>1, CommitCalls DEF AcceptBind
  <2>2. NewStart(c, loc[c].seen.sec) \in StartRow BY NewStartType, FieldTypes DEF Seen
  <2>3. starts' \in [Ops -> StartRow] BY <1>1, <2>2 DEF AcceptBind, BaseInv, TypeOK
  <2>4. DataType' BY <2>3, BaseParts DEF AcceptBind, DataType, cluster, LateInv
  <2> QED BY <2>1, <2>4, Assemble
<1>2. CASE ~Connected(c) BY <1>2, ReturnCalls, LocalBase DEF AcceptBind, journal
<1> QED BY <1>1, <1>2

LEMMA BaseAcquireLock ==
    ASSUME BaseInv, NEW c \in Callers, AcquireLock(c)
    PROVE  BaseInv'
<1>1. CASE LockFree
  <2>1. CallShape(loc[c], "authorize", "exclusive")
    BY FieldTypes DEF CallShape, AcquireLock
  <2>2. loc' = [loc EXCEPT ![c] = loc[c]] BY <1>1 DEF AcquireLock, BaseInv, TypeOK
  <2>3. /\ pc' = [pc EXCEPT ![c] = "authorize"] /\ lock' = [lock EXCEPT ![c] = "exclusive"]
        /\ \A d \in Callers : lock[d] = "none"
    BY <1>1 DEF AcquireLock, LockFree
  <2>4. "authorize" \in Labels BY DEF Labels
  <2>5. CallsOK' BY <2>1, <2>2, <2>3, <2>4, EnterCalls, FieldTypes
  <2> QED BY <2>5, LocalBase DEF AcquireLock
<1>2. CASE ~LockFree BY <1>2, ReturnCalls, LocalBase DEF AcquireLock
<1> QED BY <1>1, <1>2

LEMMA BaseLoad ==
    ASSUME BaseInv, NEW c \in Callers, Load(c)
    PROVE  BaseInv'
<1> DEFINE row == starts[loc[c].op]
           visit == Visit(loc[c].kind, row.phase)
           aim == CASE visit = "claim" -> "ensure"
                    [] visit = "stop" -> "stop"
                    [] OTHER -> "verify"
           call == [loc[c] EXCEPT !.rec = row, !.fresh = TRUE, !.aim = aim]
           ok == installationMatches(c) /\ row.phase # "none" /\ sameRecord(row, loc[c]) /\ visit # "idle"
<1>1. CASE ok
  <2>1. row \in StartRow BY FieldTypes DEF Load, CallShape, BaseInv, TypeOK
  <2>2. aim \in Aims BY DEF Aims
  <2>3. call \in Locals BY ZenonT(60), <2>1, <2>2, FieldTypes DEF Locals
  <2>4. visit \in Labels BY DEF Visit, Labels
  <2>5. CallShape(call, visit, lock[c])
    <3>1. /\ call.kind = loc[c].kind /\ call.op = loc[c].op /\ call.stop = loc[c].stop
          /\ call.rec = row /\ call.aim = aim /\ call.prog = loc[c].prog /\ call.seen = loc[c].seen
      BY FieldTypes DEF Locals
    <3>2. /\ visit = "claim" => loc[c].kind = "start" /\ row.phase \in {"accepted", "launching"} /\ aim = "ensure"
          /\ visit = "observe_pod" => loc[c].kind \in {"start", "access"} /\ row.phase = "running" /\ aim = "verify"
          /\ visit = "stop" => loc[c].kind = "stop" /\ aim = "stop"
          /\ visit \in {"claim", "observe_pod", "stop"}
      BY <1>1 DEF Visit
    <3>3. pc[c] = "load" /\ row.phase # "none" BY <1>1 DEF Load
    <3> HIDE DEF call, visit, aim, row
    <3> QED BY <3>1, <3>2, <3>3, FieldTypes DEF CallShape
  <2>6. Goto(c, visit) /\ loc' = [loc EXCEPT ![c] = call] BY <1>1 DEF Load
  <2> HIDE DEF call, visit, row, aim
  <2>7. CallsOK' BY <2>3, <2>4, <2>5, <2>6, StepCalls
  <2> QED BY <2>7, LocalBase DEF Load
<1>2. CASE ~ok BY <1>2, ReturnCalls, LocalBase DEF Load
<1> QED BY <1>1, <1>2

LEMMA BaseClaimVolume ==
    ASSUME BaseInv, NEW c \in Callers, ClaimVolume(c)
    PROVE  BaseInv'
<1>1. CallsOK'
  <2>1. CASE claimed = loc[c].prof \/ (claimed = NoProfile /\ InspectVolume(NoOp, 0))
    <3>1. Goto(c, "ensure_pod") /\ loc' = [loc EXCEPT ![c] = loc[c]]
      BY <2>1 DEF ClaimVolume, BaseInv, TypeOK
    <3>2. CallShape(loc[c], "ensure_pod", lock[c]) BY FieldTypes DEF ClaimVolume, CallShape
    <3> QED BY <3>1, <3>2, StepCalls, FieldTypes DEF Labels
  <2>2. CASE ~(claimed = loc[c].prof \/ (claimed = NoProfile /\ InspectVolume(NoOp, 0))) BY <2>2, ReturnCalls DEF ClaimVolume
  <2> QED BY <2>1, <2>2
<1>2. claimed' \in Profiles \cup {NoProfile} BY FieldTypes DEF ClaimVolume, BaseInv, TypeOK, Locals
<1>3. DataType' BY <1>2, BaseParts DEF ClaimVolume, DataType, journal, LateInv
<1> QED BY <1>1, <1>3, Assemble

\* A read whose result passes a check, at one of the labels of a visit.
LEMMA ReadBase ==
    ASSUME BaseInv, NEW c \in Callers, NEW ok, NEW label \in Labels, NEW seen \in Seen,
           Check(c, ok, label, seen), pc[c] \in LoadedLabels \ {"stop"}, label \in LoadedLabels \ {"create", "stop", "grant"},
           \/ pc[c] \in LaunchLabels /\ label \in LaunchLabels
           \/ pc[c] \in RemoveLabels /\ label \in RemoveLabels
           \/ pc[c] \in VerifyLabels /\ label \in VerifyLabels
           \/ pc[c] \in ObserveLabels /\ label \in ObserveLabels,
           UNCHANGED <<journal, installation, cluster, faults>>
    PROVE  BaseInv'
<1> DEFINE call == [loc[c] EXCEPT !.seen = seen]
<1>1. /\ call.kind = loc[c].kind /\ call.op = loc[c].op /\ call.stop = loc[c].stop
      /\ call.rec = loc[c].rec /\ call.aim = loc[c].aim /\ call.prog = loc[c].prog
  BY FieldTypes DEF Locals
<1>2. CallShape(call, label, lock[c])
  <2> HIDE DEF call
  <2> QED BY <1>1, FieldTypes DEF CallShape
<1>3. CallsOK' BY <1>2, CheckCalls
<1> QED BY <1>3, LocalBase

LEMMA BaseEnsurePod ==
    ASSUME BaseInv, NEW c \in Callers, EnsurePod(c)
    PROVE  BaseInv'
<1> DEFINE p == pods[loc[c].op]
           seen == [NoSeen EXCEPT !.pod = p.uid, !.status = p.status]
<1>1. p \in Pod BY FieldTypes DEF EnsurePod, CallShape, BaseInv, TypeOK
<1>2. seen \in Seen BY <1>1, NullTypes DEF Pod, Seen
<1>3. pc[c] = "ensure_pod" /\ UNCHANGED <<journal, installation, cluster, faults>> BY DEF EnsurePod
<1>4. \/ Check(c, loc[c].rec.obs.pod = 0, "ensure_svc", NoSeen)
      \/ Check(c, podMatches(p, loc[c].rec.obs.pod), "ensure_svc", seen)
  BY DEF EnsurePod
<1> HIDE DEF p, seen
<1> QED BY ZenonT(60), <1>2, <1>3, <1>4, NullTypes, ReadBase DEF Labels

LEMMA BaseEnsureService ==
    ASSUME BaseInv, NEW c \in Callers, EnsureService(c)
    PROVE  BaseInv'
<1> DEFINE s == svcs[loc[c].op]
           seen == [loc[c].seen EXCEPT !.svc = s.uid]
<1>1. s \in Object BY FieldTypes DEF EnsureService, CallShape, BaseInv, TypeOK
<1>2. seen \in Seen BY <1>1, FieldTypes DEF Object, Seen
<1>3. pc[c] = "ensure_svc" /\ UNCHANGED <<journal, installation, cluster, faults>> BY DEF EnsureService
<1>4. \/ Check(c, loc[c].rec.obs.svc = 0 /\ loc[c].seen.pod = 0, "ensure_rest", loc[c].seen)
      \/ Check(c, serviceMatches(s, loc[c].rec.obs.svc), "ensure_rest", seen)
  BY DEF EnsureService
<1> HIDE DEF s, seen
<1> QED BY <1>2, <1>3, <1>4, FieldTypes, ReadBase DEF Labels

LEMMA BaseEnsureSecretAndVolume ==
    ASSUME BaseInv, NEW c \in Callers, EnsureSecretAndVolume(c)
    PROVE  BaseInv'
<1> DEFINE seen == [loc[c].seen EXCEPT !.sec = secret.uid]
<1>2. seen \in Seen BY ZenonT(60), FieldTypes DEF BaseInv, TypeOK, Secret, Seen
<1>3. pc[c] = "ensure_rest" /\ UNCHANGED <<journal, installation, cluster, faults>>
  BY DEF EnsureSecretAndVolume
<1> DEFINE volume == InspectVolume(loc[c].op, loc[c].seen.pod) /\ claimed = loc[c].prof
           none == loc[c].rec.obs.sec = 0 /\ loc[c].seen.pod = 0 /\ loc[c].seen.svc = 0 /\ volume
           some == secretMatches(secret, loc[c].prof, loc[c].rec.obs.sec) /\ volume
<1>4. Check(c, none, "checkpoint", loc[c].seen) \/ Check(c, some, "checkpoint", seen)
  BY DEF EnsureSecretAndVolume
<1> HIDE DEF seen, none, some
<1> QED BY <1>2, <1>3, <1>4, FieldTypes, ReadBase DEF Labels

LEMMA ObservedType ==
    ASSUME NEW seen \in Seen
    PROVE  Observed(seen) \in Observation /\ Progress(seen) \in Observation
<1>1. (seen.status = "ready") \in BOOLEAN OBVIOUS
<1>2. Observed(seen) \in Observation BY <1>1 DEF Observed, Observation, Seen
<1>3. FALSE \in BOOLEAN /\ 0 \in Uid BY ConstantsAssumption
<1>4. Progress(seen) \in Observation BY <1>2, <1>3 DEF Progress, Observation
<1> QED BY <1>2, <1>4

LEMMA RowTypes ==
    ASSUME NEW r \in StartRow, NEW obs \in Observation
    PROVE  /\ Launching(r, obs) \in StartRow /\ Running(r, obs) \in StartRow
           /\ [r EXCEPT !.phase = "stopping"] \in StartRow /\ [r EXCEPT !.phase = "stopped"] \in StartRow
           /\ Launching(r, obs).phase = "launching" /\ Running(r, obs).phase = "running"
           /\ Launching(r, obs).obs = obs /\ Running(r, obs).obs = obs
           /\ [r EXCEPT !.phase = "stopping"].phase = "stopping"
           /\ [r EXCEPT !.phase = "stopping"].obs = r.obs /\ [r EXCEPT !.phase = "stopped"].obs = r.obs
  BY DEF Launching, Running, StartRow

\* A call's own copy is replaced; the other fields stay.
LEMMA CopyFields ==
    ASSUME NEW call \in Locals, NEW row \in StartRow, NEW aim \in Aims, NEW prog \in StopPhases
    PROVE  /\ [call EXCEPT !.rec = row] \in Locals /\ [call EXCEPT !.rec = row, !.aim = aim] \in Locals
           /\ [call EXCEPT !.rec = row, !.prog = prog] \in Locals
           /\ [call EXCEPT !.prog = prog] \in Locals /\ [call EXCEPT !.aim = aim] \in Locals
  BY ZenonT(60) DEF Locals

\* Saving a row leaves every other table and object alone.
LEMMA SaveData ==
    ASSUME BaseInv, NEW c \in Callers, NEW row \in StartRow, NEW mine, SaveStart(c, row, mine),
           UNCHANGED <<stops, installation, cluster, faults>>
    PROVE  DataType'
<1>1. starts' \in [Ops -> StartRow] BY DEF SaveStart, BaseInv, TypeOK
<1> QED BY <1>1, BaseParts DEF DataType, LateInv, cluster

LEMMA BaseCheckpointProgress ==
    ASSUME BaseInv, NEW c \in Callers, CheckpointProgress(c)
    PROVE  BaseInv'
<1> DEFINE seen == loc[c].seen
           row == Launching(loc[c].rec, Progress(seen))
           mine == [loc[c] EXCEPT !.rec = row]
           label == IF Complete(seen) THEN "observe_pod" ELSE "create"
<1>1. CASE checkpoint(c, Progress(seen))
  <2>1. row \in StartRow /\ row.phase = "launching" /\ row.obs = Progress(seen)
    <3>1. loc[c].rec \in StartRow /\ Progress(seen) \in Observation BY FieldTypes, ObservedType
    <3> QED BY ZenonT(60), <3>1, RowTypes
  <2>2. mine \in Locals BY <2>1, FieldTypes DEF Locals
  <2>3. /\ mine.kind = loc[c].kind /\ mine.op = loc[c].op /\ mine.stop = loc[c].stop
        /\ mine.rec = row /\ mine.aim = loc[c].aim /\ mine.prog = loc[c].prog /\ mine.seen = seen
    BY FieldTypes DEF Locals
  <2>4. label \in {"observe_pod", "create"} OBVIOUS
  <2>5. SaveStart(c, row, mine) /\ Goto(c, label) BY <1>1 DEF CheckpointProgress
  <2>6. pc[c] = "checkpoint" /\ UNCHANGED <<stops, installation, cluster, faults>>
    BY DEF CheckpointProgress
  <2> HIDE DEF row, mine, label, seen
  <2>7. CallShape(mine, label, lock[c]) BY <2>1, <2>3, <2>4, <2>6, FieldTypes DEF CallShape
  <2>8. CallsOK' BY <2>2, <2>4, <2>5, <2>7, SaveCalls DEF Labels
  <2>9. DataType' BY <2>1, <2>5, <2>6, SaveData
  <2> QED BY <2>8, <2>9, Assemble
<1>2. CASE ~checkpoint(c, Progress(seen))
  BY <1>2, ReturnCalls, LocalBase DEF CheckpointProgress, journal
<1> QED BY <1>1, <1>2

LEMMA NewTypes ==
    /\ \A x \in Object : x.uid < MaxUid => NewObject(x) \in Object /\ x.uid + 1 \in Uid
    /\ \A x \in Object : [x EXCEPT !.live = FALSE] \in Object
    /\ \A x \in Pod : x.uid < MaxUid => NewPod(x) \in Pod /\ x.uid + 1 \in Uid
    /\ \A x \in Secret, p \in Profiles \cup {NoProfile} :
         x.uid < MaxUid => NewSecret(x, p) \in Secret /\ x.uid + 1 \in Uid
    /\ \A x \in Secret : [x EXCEPT !.live = FALSE] \in Secret
<1>1. \A x \in Object : x.uid < MaxUid => NewObject(x) \in Object /\ x.uid + 1 \in Uid
  BY ConstantsAssumption DEF Object, NewObject
<1>2. ASSUME NEW x \in Object PROVE [x EXCEPT !.live = FALSE] \in Object
  BY DEF Object
<1>3. \A x \in Pod : x.uid < MaxUid => NewPod(x) \in Pod /\ x.uid + 1 \in Uid
  BY ConstantsAssumption DEF Pod, NewPod
<1>4. \A x \in Secret, p \in Profiles \cup {NoProfile} :
        x.uid < MaxUid => NewSecret(x, p) \in Secret /\ x.uid + 1 \in Uid
  BY ConstantsAssumption DEF Secret, NewSecret
<1>5. ASSUME NEW x \in Secret PROVE [x EXCEPT !.live = FALSE] \in Secret
  BY DEF Secret
<1> QED BY <1>1, <1>2, <1>3, <1>4, <1>5

\* A created object is entered into what the call has seen.
LEMMA CreateCalls ==
    ASSUME BaseInv, NEW c \in Callers, NEW seen \in Seen, pc[c] = "create",
           Goto(c, "checkpoint"), loc' = [loc EXCEPT ![c] = [loc[c] EXCEPT !.seen = seen]]
    PROVE  CallsOK'
<1> DEFINE call == [loc[c] EXCEPT !.seen = seen]
<1>1. /\ call.kind = loc[c].kind /\ call.op = loc[c].op /\ call.stop = loc[c].stop
      /\ call.rec = loc[c].rec /\ call.aim = loc[c].aim /\ call.prog = loc[c].prog
      /\ call \in Locals
  BY FieldTypes DEF Locals
<1>2. loc' = [loc EXCEPT ![c] = call] OBVIOUS
<1> HIDE DEF call
<1>3. CallShape(call, "checkpoint", lock[c]) BY <1>1, FieldTypes DEF CallShape
<1> QED BY <1>1, <1>2, <1>3, StepCalls DEF Labels

LEMMA BaseCreateSecret ==
    ASSUME BaseInv, NEW c \in Callers, CreateSecret(c)
    PROVE  BaseInv'
<1>1. CASE Creatable(secret)
  <2> DEFINE seen == [loc[c].seen EXCEPT !.sec = secret.uid + 1]
  <2>1. secret' \in Secret /\ secret.uid + 1 \in Uid
    BY <1>1, NewTypes, FieldTypes DEF CreateSecret, Creatable, BaseInv, TypeOK, Locals
  <2>2. seen \in Seen BY <2>1, FieldTypes DEF Seen
  <2>3. pc[c] = "create" /\ Goto(c, "checkpoint") /\ loc' = [loc EXCEPT ![c] = [loc[c] EXCEPT !.seen = seen]]
    BY <1>1 DEF CreateSecret
  <2> HIDE DEF seen
  <2>4. CallsOK' BY <2>2, <2>3, CreateCalls
  <2>5. DataType' BY <2>1, BaseParts DEF CreateSecret, DataType, journal, LateInv
  <2> QED BY <2>4, <2>5, Assemble
<1>2. CASE ~Creatable(secret)
  BY <1>2, ReturnCalls, LocalBase DEF CreateSecret, cluster
<1> QED BY <1>1, <1>2

LEMMA BaseCreateService ==
    ASSUME BaseInv, NEW c \in Callers, CreateService(c)
    PROVE  BaseInv'
<1> DEFINE o == loc[c].op
<1>0. o \in Ops BY FieldTypes DEF CallShape, CreateService
<1>1. CASE Creatable(svcs[o])
  <2> DEFINE seen == [loc[c].seen EXCEPT !.svc = svcs[o].uid + 1]
  <2>1. svcs' \in [Ops -> Object] /\ svcs[o].uid + 1 \in Uid
    BY <1>0, <1>1, NewTypes DEF CreateService, Creatable, BaseInv, TypeOK
  <2>2. seen \in Seen BY <2>1, FieldTypes DEF Seen
  <2>3. pc[c] = "create" /\ Goto(c, "checkpoint") /\ loc' = [loc EXCEPT ![c] = [loc[c] EXCEPT !.seen = seen]]
    BY <1>1 DEF CreateService
  <2> HIDE DEF seen
  <2>4. CallsOK' BY <2>2, <2>3, CreateCalls
  <2>5. DataType' BY <2>1, BaseParts DEF CreateService, DataType, journal, LateInv
  <2> QED BY <2>4, <2>5, Assemble
<1>2. CASE ~Creatable(svcs[o])
  BY <1>2, ReturnCalls, LocalBase DEF CreateService, cluster
<1> QED BY <1>1, <1>2

LEMMA BaseCreatePod ==
    ASSUME BaseInv, NEW c \in Callers, CreatePod(c)
    PROVE  BaseInv'
<1> DEFINE o == loc[c].op
<1>0. o \in Ops BY FieldTypes DEF CallShape, CreatePod
<1>1. CASE PodCreatable(pods[o])
  <2> DEFINE seen == [loc[c].seen EXCEPT !.pod = pods[o].uid + 1, !.status = "pending"]
  <2>1. pods' \in [Ops -> Pod] /\ pods[o].uid + 1 \in Uid
    BY <1>0, <1>1, NewTypes DEF CreatePod, BaseInv, TypeOK, PodCreatable
  <2>2. seen \in Seen BY <2>1, FieldTypes DEF Seen
  <2>3. pc[c] = "create" /\ Goto(c, "checkpoint") /\ loc' = [loc EXCEPT ![c] = [loc[c] EXCEPT !.seen = seen]]
    BY ZenonT(60), <1>1 DEF CreatePod
  <2> HIDE DEF seen
  <2>4. CallsOK' BY <2>2, <2>3, CreateCalls
  <2>5. DataType' BY <2>1, BaseParts DEF CreatePod, DataType, journal, LateInv
  <2> QED BY <2>4, <2>5, Assemble
<1>2. CASE ~PodCreatable(pods[o])
  BY <1>2, ReturnCalls, LocalBase DEF CreatePod, cluster
<1> QED BY <1>1, <1>2

LEMMA SeenTypes ==
    ASSUME NEW seen \in Seen
    PROVE  /\ \A p \in Pod : [seen EXCEPT !.pod = p.uid, !.status = p.status] \in Seen
           /\ \A u, v \in Uid : [seen EXCEPT !.svc = u, !.sec = v] \in Seen
  BY DEF Seen, Pod

LEMMA BaseObservePod ==
    ASSUME BaseInv, NEW c \in Callers, ObservePod(c)
    PROVE  BaseInv'
<1> DEFINE p == pods[loc[c].op]
           seen == [loc[c].seen EXCEPT !.pod = p.uid, !.status = p.status]
           ok == podMatches(p, loc[c].rec.obs.pod)
<1>1. p \in Pod /\ loc[c].seen \in Seen BY FieldTypes DEF ObservePod, CallShape, BaseInv, TypeOK
<1>2. seen \in Seen BY <1>1, SeenTypes
<1>3. pc[c] = "observe_pod" /\ UNCHANGED <<journal, installation, cluster, faults>> BY DEF ObservePod
<1>4. Check(c, ok, "observe_rest", seen) BY DEF ObservePod
<1> HIDE DEF p, seen, ok
<1> QED BY <1>2, <1>3, <1>4, ReadBase DEF Labels

LEMMA BaseObserveRest ==
    ASSUME BaseInv, NEW c \in Callers, ObserveRest(c)
    PROVE  BaseInv'
<1> DEFINE o == loc[c].op
           seen == [loc[c].seen EXCEPT !.svc = svcs[o].uid, !.sec = secret.uid]
           ok == /\ serviceMatches(svcs[o], loc[c].rec.obs.svc)
                 /\ secretMatches(secret, loc[c].prof, loc[c].rec.obs.sec)
                 /\ InspectVolume(o, loc[c].seen.pod) /\ claimed = loc[c].prof
           label == AfterObservation(loc[c].aim)
           call == [loc[c] EXCEPT !.seen = seen]
<1>1. svcs[o] \in Object /\ secret \in Secret BY FieldTypes DEF ObserveRest, CallShape, BaseInv, TypeOK
<1>2. seen \in Seen BY <1>1, FieldTypes, SeenTypes DEF Object, Secret
<1>3. pc[c] = "observe_rest" /\ UNCHANGED <<journal, installation, cluster, faults>> BY DEF ObserveRest
<1>4. Check(c, ok, label, seen) BY DEF ObserveRest
<1>5. /\ call.kind = loc[c].kind /\ call.op = loc[c].op /\ call.stop = loc[c].stop
      /\ call.rec = loc[c].rec /\ call.aim = loc[c].aim /\ call.prog = loc[c].prog
  BY FieldTypes DEF Locals
<1>6. /\ loc[c].aim = "ensure" => label = "checkpoint_observed"
      /\ loc[c].aim = "verify" => label = "probe"
      /\ loc[c].aim = "verified" => label = "certify"
      /\ loc[c].aim = "stop" => label = "seal"
      /\ loc[c].aim = "sealed" => label = "checkpoint_sealed"
      /\ label \in Labels
  BY DEF AfterObservation, Labels
<1>7. loc[c].aim \in {"ensure", "verify", "verified", "stop", "sealed"}
  BY <1>3, FieldTypes DEF CallShape, Locals, Aims
<1>8. CallShape(call, label, lock[c])
  <2> HIDE DEF call, label, seen
  <2> QED BY <1>3, <1>5, <1>6, <1>7, FieldTypes DEF CallShape
<1> HIDE DEF ok, label, seen
<1>9. CallsOK' BY <1>2, <1>4, <1>6, <1>8, CheckCalls
<1> QED BY <1>3, <1>9, LocalBase

LEMMA BaseCheckpointObserved ==
    ASSUME BaseInv, NEW c \in Callers, CheckpointObserved(c)
    PROVE  BaseInv'
<1> DEFINE seen == loc[c].seen
           row == Launching(loc[c].rec, Observed(seen))
           mine == [loc[c] EXCEPT !.rec = row, !.aim = "verify"]
<1>1. row \in StartRow /\ row.phase = "launching"
  <2>1. loc[c].rec \in StartRow /\ Observed(seen) \in Observation BY FieldTypes, ObservedType
  <2> QED BY <2>1, RowTypes
<1>2. pc[c] = "checkpoint_observed" /\ UNCHANGED <<stops, installation, cluster, faults>>
  BY DEF CheckpointObserved
<1>3. CASE checkpoint(c, Observed(seen)) /\ seen.status = "ready"
  <2>1. mine \in Locals BY ZenonT(60), <1>1, FieldTypes DEF Locals, Aims
  <2>2. /\ mine.kind = loc[c].kind /\ mine.op = loc[c].op /\ mine.stop = loc[c].stop
        /\ mine.rec = row /\ mine.aim = "verify" /\ mine.prog = loc[c].prog
    BY FieldTypes DEF Locals
  <2>3. SaveStart(c, row, mine) /\ Goto(c, "observe_pod") BY <1>3 DEF CheckpointObserved
  <2> HIDE DEF row, mine
  <2>4. CallShape(mine, "observe_pod", lock[c]) BY <1>1, <1>2, <2>2, FieldTypes DEF CallShape
  <2>5. CallsOK' BY <2>1, <2>3, <2>4, SaveCalls DEF Labels
  <2>6. DataType' BY <1>1, <1>2, <2>3, SaveData
  <2> QED BY <2>5, <2>6, Assemble
<1>4. CASE checkpoint(c, Observed(seen)) /\ seen.status # "ready"
  <2>1. SaveStart(c, row, NoCall) /\ Leave(c) BY <1>4 DEF CheckpointObserved
  <2> HIDE DEF row
  <2>2. CallsOK' BY <2>1, SaveAndLeaveCalls
  <2>3. DataType' BY <1>1, <1>2, <2>1, SaveData
  <2> QED BY <2>2, <2>3, Assemble
<1>5. CASE ~checkpoint(c, Observed(seen))
  BY <1>5, ReturnCalls, LocalBase DEF CheckpointObserved, journal
<1> QED BY <1>3, <1>4, <1>5

LEMMA BaseProbe ==
    ASSUME BaseInv, NEW c \in Callers, Probe(c)
    PROVE  BaseInv'
<1> DEFINE o == loc[c].op
           ok == /\ loc[c].seen.status = "ready" /\ secretMatches(secret, loc[c].prof, loc[c].seen.sec)
                 /\ Answers(o, loc[c].seen.pod) /\ Keeps(loc[c].rec.obs.boot, pods[o].uid)
           call == [loc[c] EXCEPT !.seen = [loc[c].seen EXCEPT !.boot = pods[o].uid], !.aim = "verified"]
<1>1. CASE ok
  <2>1. pods[o] \in Pod BY FieldTypes DEF Probe, CallShape, BaseInv, TypeOK
  <2>2. [loc[c].seen EXCEPT !.boot = pods[o].uid] \in Seen BY <2>1, FieldTypes DEF Pod, Seen
  <2>3. call \in Locals BY ZenonT(60), <2>2, FieldTypes DEF Locals, Aims
  <2>4. /\ call.kind = loc[c].kind /\ call.op = loc[c].op /\ call.stop = loc[c].stop
        /\ call.rec = loc[c].rec /\ call.aim = "verified" /\ call.prog = loc[c].prog
    BY FieldTypes DEF Locals
  <2>5. pc[c] = "probe" /\ Goto(c, "observe_pod") /\ loc' = [loc EXCEPT ![c] = call]
    BY <1>1 DEF Probe
  <2> HIDE DEF call
  <2>6. CallShape(call, "observe_pod", lock[c]) BY <2>4, <2>5, FieldTypes DEF CallShape
  <2>7. CallsOK' BY <2>3, <2>5, <2>6, StepCalls DEF Labels
  <2> QED BY <2>7, LocalBase DEF Probe
<1>2. CASE ~ok BY <1>2, ReturnCalls, LocalBase DEF Probe
<1> QED BY <1>1, <1>2

LEMMA BaseCheckpointRunning ==
    ASSUME BaseInv, NEW c \in Callers, CheckpointRunning(c)
    PROVE  BaseInv'
<1> DEFINE row == Running(loc[c].rec, Observed(loc[c].seen))
           ok == loc[c].seen.status = "ready" /\ checkpoint(c, Observed(loc[c].seen))
<1>1. row \in StartRow
  <2>1. loc[c].rec \in StartRow /\ Observed(loc[c].seen) \in Observation BY FieldTypes, ObservedType
  <2> QED BY <2>1, RowTypes
<1>2. CASE ok
  <2>1. SaveStart(c, row, NoCall) /\ Leave(c) /\ UNCHANGED <<stops, installation, cluster, faults>>
    BY <1>2 DEF CheckpointRunning
  <2> HIDE DEF row
  <2>2. CallsOK' BY <2>1, SaveAndLeaveCalls
  <2>3. DataType' BY <1>1, <2>1, SaveData
  <2> QED BY <2>2, <2>3, Assemble
<1>3. CASE ~ok BY <1>3, ReturnCalls, LocalBase DEF CheckpointRunning, journal
<1> QED BY <1>2, <1>3

LEMMA BaseCertify ==
    ASSUME BaseInv, NEW c \in Callers, Certify(c)
    PROVE  BaseInv'
<1> DEFINE ok == loc[c].kind = "access" /\ loc[c].seen.status = "ready"
<1>1. /\ pc[c] = "certify" /\ UNCHANGED <<journal, installation, cluster, faults>>
      /\ Check(c, ok, "grant", loc[c].seen)
  BY DEF Certify
<1> DEFINE call == [loc[c] EXCEPT !.seen = loc[c].seen]
<1>2. /\ call.kind = loc[c].kind /\ call.op = loc[c].op /\ call.stop = loc[c].stop
      /\ call.rec = loc[c].rec /\ call.aim = loc[c].aim /\ call.prog = loc[c].prog
  BY FieldTypes DEF Locals
<1>3. ok => CallShape(call, "grant", lock[c])
  <2> HIDE DEF call
  <2> QED BY <1>1, <1>2, FieldTypes DEF CallShape
<1> HIDE DEF ok
<1>4. CallsOK' BY <1>1, <1>3, CheckCalls, FieldTypes DEF Labels
<1> QED BY <1>1, <1>4, LocalBase

LEMMA BaseGrant ==
    ASSUME BaseInv, NEW c \in Callers, Grant(c)
    PROVE  BaseInv'
  BY ReturnCalls, LocalBase DEF Grant

LEMMA BaseReplayStop ==
    ASSUME BaseInv, NEW c \in Callers, ReplayStop(c)
    PROVE  BaseInv'
<1> DEFINE row == stops[loc[c].stop]
           ok == Connected(c) /\ scanStop(row, loc[c]) /\ row.phase # "stopped"
           label == IF row.phase = "accepted" THEN "observe_pod" ELSE "remove_node"
           call == [loc[c] EXCEPT !.prog = row.phase]
<1>1. CASE ok
  <2>1. row \in StopRow BY FieldTypes DEF ReplayStop, CallShape, BaseInv, TypeOK
  <2>2. row.phase \in StopPhases BY <2>1 DEF StopRow
  <2>3. call \in Locals BY <2>2, FieldTypes DEF Locals
  <2>4. /\ call.kind = loc[c].kind /\ call.op = loc[c].op /\ call.stop = loc[c].stop
        /\ call.rec = loc[c].rec /\ call.aim = loc[c].aim /\ call.prog = row.phase
    BY FieldTypes DEF Locals
  <2>5. /\ pc[c] = "stop" /\ Goto(c, label) /\ loc' = [loc EXCEPT ![c] = call]
        /\ row.phase \notin {"none", "stopped"}
    BY <1>1 DEF ReplayStop
  <2>6. /\ row.phase = "accepted" => label = "observe_pod"
        /\ row.phase # "accepted" => label = "remove_node"
        /\ label \in Labels
    BY DEF Labels
  <2> HIDE DEF call, row, label
  <2>7. CallShape(call, label, lock[c]) BY <2>4, <2>5, <2>6, FieldTypes DEF CallShape
  <2>8. CallsOK' BY <2>3, <2>5, <2>6, <2>7, StepCalls
  <2> QED BY <2>8, LocalBase DEF ReplayStop
<1>2. CASE ~ok BY <1>2, ReturnCalls, LocalBase DEF ReplayStop
<1> QED BY <1>1, <1>2

LEMMA BaseacceptStop ==
    ASSUME BaseInv, NEW c \in Callers, acceptStop(c)
    PROVE  BaseInv'
<1> DEFINE o == loc[c].op
           r == loc[c].rec
           row == [r EXCEPT !.phase = "stopping"]
           stop == [start |-> o, boot |-> loc[c].boot, phase |-> "accepted"]
           mine == [loc[c] EXCEPT !.rec = row, !.prog = "accepted"]
           ok == /\ Connected(c) /\ loc[c].fresh
                 /\ r.phase = "running" /\ r.obs.boot = loc[c].boot
                 /\ \A s \in StopOps : stops[s].start # o
<1>1. CASE ok
  <2>1. row \in StartRow /\ row.phase = "stopping"
    <3>1. r \in StartRow /\ r.obs \in Observation BY FieldTypes
    <3> QED BY <3>1, RowTypes
  <2>2. stop \in StopRow BY FieldTypes DEF StopRow, Locals
  <2>3. mine \in Locals BY ZenonT(60), <2>1, FieldTypes DEF Locals
  <2>4. /\ mine.kind = loc[c].kind /\ mine.op = loc[c].op /\ mine.stop = loc[c].stop
        /\ mine.rec = row /\ mine.aim = loc[c].aim /\ mine.prog = "accepted"
    BY FieldTypes DEF Locals
  <2>5. /\ pc[c] = "stop" /\ SaveStart(c, row, mine) /\ Goto(c, "observe_pod")
        /\ stops' = [stops EXCEPT ![loc[c].stop] = stop]
        /\ UNCHANGED <<installation, cluster, faults>>
    BY <1>1 DEF acceptStop
  <2> HIDE DEF row, mine, stop, ok
  <2>6. CallShape(mine, "observe_pod", lock[c]) BY <2>1, <2>4, <2>5, FieldTypes DEF CallShape
  <2>7. CallsOK' BY <2>3, <2>5, <2>6, SaveCalls DEF Labels
  <2>8. starts' \in [Ops -> StartRow] BY <2>1, <2>5 DEF SaveStart, BaseInv, TypeOK
  <2>9. stops' \in [StopOps -> StopRow] BY <2>2, <2>5 DEF BaseInv, TypeOK
  <2>10. DataType' BY <2>5, <2>8, <2>9, BaseParts DEF DataType, cluster, LateInv
  <2> QED BY <2>7, <2>10, Assemble
<1>2. CASE ~ok BY <1>2, ReturnCalls, LocalBase DEF acceptStop
<1> QED BY <1>1, <1>2

LEMMA BaseSeal ==
    ASSUME BaseInv, NEW c \in Callers, Seal(c)
    PROVE  BaseInv'
<1> DEFINE call == [loc[c] EXCEPT !.aim = "sealed"]
           new == [op |-> loc[c].op, uid |-> loc[c].rec.obs.pod, stop |-> loc[c].stop]
<1>1. call \in Locals BY FieldTypes DEF Locals, Aims
<1>2. /\ call.kind = loc[c].kind /\ call.op = loc[c].op /\ call.stop = loc[c].stop
      /\ call.rec = loc[c].rec /\ call.aim = "sealed" /\ call.prog = loc[c].prog
  BY FieldTypes DEF Locals
<1>3. /\ pc[c] = "seal" /\ Goto(c, "observe_pod") /\ loc' = [loc EXCEPT ![c] = call]
      /\ barriers' = barriers \cup {new}
  BY DEF Seal, SealBy
<1>4. new \in Barrier
  <2>1. loc[c].op \in Ops /\ loc[c].stop \in StopOps BY <1>3, FieldTypes DEF CallShape
  <2>2. loc[c].rec.obs.pod \in Uid BY FieldTypes DEF Observation
  <2> QED BY <2>1, <2>2 DEF Barrier
<1> HIDE DEF call, new
<1>5. CallShape(call, "observe_pod", lock[c]) BY <1>2, <1>3, FieldTypes DEF CallShape
<1>6. CallsOK' BY <1>1, <1>3, <1>5, StepCalls DEF Labels
<1>7. DataType' BY <1>3, <1>4, BaseParts DEF Seal, DataType, journal, LateInv
<1> QED BY <1>6, <1>7, Assemble

LEMMA BaseSealRefused ==
    ASSUME BaseInv, NEW c \in Callers, SealRefused(c)
    PROVE  BaseInv'
  BY ReturnCalls, LocalBase DEF SealRefused

LEMMA SaveStopType ==
    ASSUME BaseInv, NEW c \in Callers, SaveStop(c)
    PROVE  stops' \in [StopOps -> StopRow]
<1>1. NextStop(loc[c].prog) \in StopPhases BY DEF NextStop
<1> QED BY ZenonT(60), <1>1 DEF SaveStop, BaseInv, TypeOK, StopRow

LEMMA BaseCheckpointSealed ==
    ASSUME BaseInv, NEW c \in Callers, CheckpointSealed(c)
    PROVE  BaseInv'
<1> DEFINE call == [loc[c] EXCEPT !.prog = "sealed"]
<1>0. pc[c] = "checkpoint_sealed" /\ UNCHANGED <<starts, installation, cluster, faults>>
  BY DEF CheckpointSealed
<1>1. CASE checkpointStop(c)
  <2>1. NextStop(loc[c].prog) = "sealed" BY <1>0, FieldTypes DEF CallShape, NextStop
  <2>2. SaveStop(c) /\ Goto(c, "remove_node") /\ loc' = [loc EXCEPT ![c] = call]
    BY <1>1, <2>1 DEF CheckpointSealed
  <2>3. /\ call \in Locals
        /\ call.kind = loc[c].kind /\ call.op = loc[c].op /\ call.stop = loc[c].stop
        /\ call.rec = loc[c].rec /\ call.aim = loc[c].aim /\ call.prog = "sealed"
    BY FieldTypes DEF Locals
  <2> HIDE DEF call
  <2>4. CallShape(call, "remove_node", lock[c]) BY <1>0, <2>3, FieldTypes DEF CallShape
  <2>5. CallsOK' BY <2>2, <2>3, <2>4, StepCalls DEF Labels
  <2>6. stops' \in [StopOps -> StopRow] BY <2>2, SaveStopType
  <2>7. DataType' BY <1>0, <2>6, BaseParts DEF DataType, cluster, LateInv
  <2> QED BY <2>5, <2>7, Assemble
<1>2. CASE ~checkpointStop(c)
  BY <1>2, ReturnCalls, LocalBase DEF CheckpointSealed, journal
<1> QED BY <1>1, <1>2

LEMMA BaseRemoveNode ==
    ASSUME BaseInv, NEW c \in Callers, RemoveNode(c)
    PROVE  BaseInv'
<1>1. /\ pc[c] = "remove_node" /\ UNCHANGED <<journal, installation, cluster, faults>>
      /\ Check(c, nodeReady, "remove_pod", NoSeen)
  BY DEF RemoveNode
<1> QED BY <1>1, NullTypes, ReadBase DEF Labels

LEMMA BaseRemovePod ==
    ASSUME BaseInv, NEW c \in Callers, RemovePod(c)
    PROVE  BaseInv'
<1> DEFINE p == pods[loc[c].op]
           uid == loc[c].rec.obs.pod
           stage == Stage(loc[c].prog)
           seen == [NoSeen EXCEPT !.pod = p.uid, !.status = p.status]
           gone == stage >= 1
           going == stage = 1 /\ p.uid = uid
           there == stage < 2 /\ podMatches(p, uid)
<1>1. p \in Pod BY FieldTypes DEF RemovePod, CallShape, BaseInv, TypeOK
<1>2. seen \in Seen BY <1>1, NullTypes, SeenTypes
<1>3. pc[c] = "remove_pod" /\ UNCHANGED <<journal, installation, cluster, faults>> BY DEF RemovePod
<1>4. \/ Check(c, gone, "remove_svc", NoSeen)
      \/ Check(c, going, "remove_svc", seen)
      \/ Check(c, there, "remove_svc", seen)
  BY DEF RemovePod
<1> HIDE DEF seen, gone, going, there
<1> QED BY <1>2, <1>3, <1>4, NullTypes, ReadBase DEF Labels

LEMMA BaseRemoveService ==
    ASSUME BaseInv, NEW c \in Callers, RemoveService(c)
    PROVE  BaseInv'
<1> DEFINE s == svcs[loc[c].op]
           seen == [loc[c].seen EXCEPT !.svc = s.uid]
           gone == Stage(loc[c].prog) >= 3
           there == serviceMatches(s, loc[c].rec.obs.svc)
<1>1. s \in Object BY FieldTypes DEF RemoveService, CallShape, BaseInv, TypeOK
<1>2. seen \in Seen BY <1>1, FieldTypes DEF Object, Seen
<1>3. pc[c] = "remove_svc" /\ UNCHANGED <<journal, installation, cluster, faults>> BY DEF RemoveService
<1>4. Check(c, gone, "remove_rest", loc[c].seen) \/ Check(c, there, "remove_rest", seen)
  BY DEF RemoveService
<1> HIDE DEF seen, gone, there
<1> QED BY <1>2, <1>3, <1>4, FieldTypes, ReadBase DEF Labels

LEMMA BaseRemoveSecretAndVolume ==
    ASSUME BaseInv, NEW c \in Callers, RemoveSecretAndVolume(c)
    PROVE  BaseInv'
<1> DEFINE ok == /\ InspectVolume(loc[c].op, loc[c].rec.obs.pod) /\ claimed = loc[c].prof
                 /\ secretMatches(secret, loc[c].prof, loc[c].rec.obs.sec)
<1>1. /\ pc[c] = "remove_rest" /\ UNCHANGED <<journal, installation, cluster, faults>>
      /\ Check(c, ok, "remove", loc[c].seen)
  BY DEF RemoveSecretAndVolume
<1> HIDE DEF ok
<1> QED BY <1>1, FieldTypes, ReadBase DEF Labels

LEMMA BaseRemoveAdvance ==
    ASSUME BaseInv, NEW c \in Callers, RemoveAdvance(c)
    PROVE  BaseInv'
<1> DEFINE next == NextStop(loc[c].prog)
           row == [loc[c].rec EXCEPT !.phase = "stopped"]
           call == [loc[c] EXCEPT !.prog = next]
<1>0. pc[c] = "remove" /\ UNCHANGED <<installation, cluster, faults>> BY DEF RemoveAdvance
<1>1. CASE checkpointStop(c) /\ next = "stopped"
  <2>1. row \in StartRow
    <3>1. loc[c].rec \in StartRow /\ loc[c].rec.obs \in Observation BY FieldTypes
    <3> QED BY <3>1, RowTypes
  <2>2. SaveStop(c) /\ SaveStart(c, row, NoCall) /\ Leave(c) BY <1>1 DEF RemoveAdvance
  <2> HIDE DEF row
  <2>3. CallsOK' BY <2>2, SaveAndLeaveCalls
  <2>4. starts' \in [Ops -> StartRow] BY <2>1, <2>2 DEF SaveStart, BaseInv, TypeOK
  <2>5. stops' \in [StopOps -> StopRow] BY <2>2, SaveStopType
  <2>6. DataType' BY <1>0, <2>4, <2>5, BaseParts DEF DataType, cluster, LateInv
  <2> QED BY <2>3, <2>6, Assemble
<1>2. CASE checkpointStop(c) /\ next # "stopped"
  <2>1. SaveStop(c) /\ loc' = [loc EXCEPT ![c] = call] /\ Goto(c, "remove") /\ UNCHANGED starts
    BY <1>2 DEF RemoveAdvance
  <2>2. next \in StopPhases /\ next \notin {"none", "accepted", "stopped"} BY <1>2 DEF NextStop
  <2>3. /\ call \in Locals
        /\ call.kind = loc[c].kind /\ call.op = loc[c].op /\ call.stop = loc[c].stop
        /\ call.rec = loc[c].rec /\ call.aim = loc[c].aim /\ call.prog = next
    BY <2>2, FieldTypes DEF Locals
  <2> HIDE DEF call, next
  <2>4. CallShape(call, "remove", lock[c]) BY <1>0, <2>2, <2>3, FieldTypes DEF CallShape
  <2>5. CallsOK' BY <2>1, <2>3, <2>4, StepCalls DEF Labels
  <2>6. stops' \in [StopOps -> StopRow] BY <2>1, SaveStopType
  <2>7. DataType' BY <1>0, <2>1, <2>6, BaseParts DEF DataType, cluster, LateInv
  <2> QED BY <2>5, <2>7, Assemble
<1>3. CASE ~checkpointStop(c)
  BY <1>3, ReturnCalls, LocalBase DEF RemoveAdvance
<1> QED BY <1>1, <1>2, <1>3

LEMMA BaseDeletePod ==
    ASSUME BaseInv, NEW c \in Callers, DeletePod(c)
    PROVE  BaseInv'
<1>1. CallsOK' BY ReturnCalls DEF DeletePod
<1>2. pods' \in [Ops -> Pod] BY DEF DeletePod, BaseInv, TypeOK, Pod
<1>3. DataType' BY <1>2, BaseParts DEF DeletePod, DataType, journal, LateInv
<1> QED BY <1>1, <1>3, Assemble

LEMMA BaseDeleteService ==
    ASSUME BaseInv, NEW c \in Callers, DeleteService(c)
    PROVE  BaseInv'
<1>1. CallsOK' BY ReturnCalls DEF DeleteService
<1>2. svcs' \in [Ops -> Object] BY DEF DeleteService, BaseInv, TypeOK, Object
<1>3. DataType' BY <1>2, BaseParts DEF DeleteService, DataType, journal, LateInv
<1> QED BY <1>1, <1>3, Assemble

LEMMA BaseProceed ==
    ASSUME BaseInv, NEW c \in Callers, Proceed(c)
    PROVE  BaseInv'
  BY BaseAuthorize, BaseAcceptCheck, BaseAcceptReplay, BaseAcceptInsert, BaseAcceptInspect,
     BaseAcceptBind, BaseAcceptRefuse,
     BaseAcquireLock, BaseLoad, BaseClaimVolume, BaseEnsurePod, BaseEnsureService,
     BaseEnsureSecretAndVolume, BaseCheckpointProgress, BaseCreateSecret, BaseCreateService,
     BaseCreatePod, BaseObservePod, BaseObserveRest, BaseCheckpointObserved, BaseProbe,
     BaseCheckpointRunning, BaseCertify, BaseGrant, BaseReplayStop, BaseacceptStop, BaseSeal,
     BaseSealRefused, BaseCheckpointSealed, BaseRemoveNode, BaseRemovePod, BaseRemoveService,
     BaseRemoveSecretAndVolume, BaseRemoveAdvance, BaseDeletePod, BaseDeleteService
     DEF Proceed

--------------------------------------------------------------------------------
(* Faults, late requests and the cluster preserve BaseInv                   *)

LEMMA InFlightType ==
    ASSUME BaseInv, NEW c \in Callers
    PROVE  InFlight(c) \subseteq Request /\ \A r \in InFlight(c) : r.kind = "seal" => r.stop \in StopOps
<1>1. /\ pc[c] # "idle" => loc[c].op \in Ops
      /\ pc[c] = "seal" => loc[c].stop \in StopOps
      /\ loc[c].stop \in StopOps \cup {NoOp} /\ loc[c].rec.obs.pod \in Uid /\ 0 \in Uid
      /\ loc[c].seen.pod \in Uid /\ loc[c].seen.svc \in Uid
  BY FieldTypes, ConstantsAssumption DEF CallShape, Locals, Seen, Observation
<1>2. Missing(loc[c].seen) \in RequestKinds \ {"seal"} BY DEF Missing, RequestKinds
<1> QED BY <1>1, <1>2 DEF InFlight, Request, RequestKinds

LEMMA FaultType ==
    ASSUME BaseInv, NEW kind, Fault(kind)
    PROVE  faults' \in 0..MaxFaults
  BY ConstantsAssumption DEF Fault, BaseInv, TypeOK

LEMMA BaseInterrupt ==
    ASSUME BaseInv, NEW c \in Callers, Interrupt(c)
    PROVE  BaseInv'
<1>1. CallsOK' BY ReturnCalls DEF Interrupt
<1>2. late' \subseteq Request /\ LateInv' BY InFlightType DEF Interrupt, BaseInv, TypeOK, LateInv
<1>3. faults' \in 0..MaxFaults BY FaultType DEF Interrupt
<1>4. DataType' BY <1>2, <1>3, BaseParts DEF Interrupt, DataType, journal, LateInv
<1> QED BY <1>1, <1>4, Assemble

LEMMA BaseCrash ==
    ASSUME BaseInv, Crash
    PROVE  BaseInv'
<1>1. CallsOK' BY NullTypes, IdleShape DEF Crash, CallsOK, CallType, CallInv, LockInv
<1>2. late' \subseteq Request /\ LateInv' BY InFlightType DEF Crash, BaseInv, TypeOK, LateInv
<1>3. faults' \in 0..MaxFaults BY FaultType DEF Crash
<1>4. DataType' BY <1>2, <1>3, BaseParts DEF Crash, DataType, journal, LateInv
<1> QED BY <1>1, <1>4, Assemble

LEMMA BaseSessionLoss ==
    ASSUME BaseInv, NEW c \in Callers, SessionLoss(c)
    PROVE  BaseInv'
<1>1. CallShape(loc[c], pc[c], "none") BY FieldTypes DEF CallShape
<1>2. CallsOK'
  BY <1>1, EnterCalls, FieldTypes DEF SessionLoss, CallsOK, CallType, CallInv, LockInv, BaseInv, TypeOK
<1>3. faults' \in 0..MaxFaults BY FaultType DEF SessionLoss
<1>4. DataType' BY <1>3, BaseParts DEF SessionLoss, DataType, journal, cluster, LateInv
<1> QED BY <1>2, <1>4, Assemble

\* Steps of the cluster leave every call alone.
LEMMA QuietCalls ==
    ASSUME BaseInv, UNCHANGED <<pc, lock, loc>>
    PROVE  CallsOK'
  BY DEF BaseInv, TypeOK, CallsOK, CallType, CallInv, LockInv

LEMMA BaseLand ==
    ASSUME BaseInv, NEW r \in late, Land(r)
    PROVE  BaseInv'
<1> DEFINE o == r.op
<1>1. r \in Request /\ o \in Ops BY DEF BaseInv, TypeOK, Request
<1>2. claimed' \in Profiles \cup {NoProfile} BY <1>1 DEF Land, BaseInv, TypeOK, StartRow
<1>3. /\ pods' \in [Ops -> Pod] /\ svcs' \in [Ops -> Object] /\ secret' \in Secret
      /\ barriers' \subseteq Barrier
  <2>0. /\ pods \in [Ops -> Pod] /\ svcs \in [Ops -> Object] /\ secret \in Secret
        /\ barriers \subseteq Barrier
    BY DEF BaseInv, TypeOK
  <2>1. CASE Creatable(secret) /\ secret' = NewSecret(secret, starts[o].prof) /\ UNCHANGED <<pods, svcs, barriers>>
    <3>1. starts[o].prof \in Profiles \cup {NoProfile} BY <1>1 DEF BaseInv, TypeOK, StartRow
    <3> QED BY <2>0, <2>1, <3>1, NewTypes DEF Creatable
  <2>2. CASE /\ Creatable(svcs[o]) /\ svcs' = [svcs EXCEPT ![o] = NewObject(svcs[o])]
             /\ UNCHANGED <<pods, secret, barriers>>
    BY <1>1, <2>0, <2>2, NewTypes DEF Creatable
  <2>3. CASE /\ PodCreatable(pods[o]) /\ pods' = [pods EXCEPT ![o] = NewPod(pods[o])]
             /\ UNCHANGED <<svcs, secret, barriers>>
    BY <1>1, <2>0, <2>3, NewTypes DEF PodCreatable
  <2>4. CASE pods' = [pods EXCEPT ![o].status = "terminating"] /\ UNCHANGED <<svcs, secret, barriers>>
    BY <1>1, <2>0, <2>4 DEF Pod
  <2>5. CASE svcs' = [svcs EXCEPT ![o].live = FALSE] /\ UNCHANGED <<pods, secret, barriers>>
    BY <1>1, <2>0, <2>5 DEF Object
  <2>6. CASE r.kind = "seal" /\ SealBy(o, r.uid, r.stop) /\ UNCHANGED <<pods, svcs, secret>>
    <3>1. r.stop \in StopOps BY <2>6 DEF BaseInv, LateInv
    <3> QED BY <3>1, <1>1, <2>0, <2>6 DEF SealBy, Barrier, Request
  <2>7. CASE UNCHANGED <<pods, svcs, secret, barriers>> BY <2>0, <2>7
  <2> QED BY <2>1, <2>2, <2>3, <2>4, <2>5, <2>6, <2>7 DEF Land
<1>4. late' \subseteq Request /\ LateInv' BY DEF Land, BaseInv, TypeOK, LateInv
<1>5. DataType' BY <1>2, <1>3, <1>4, BaseParts DEF Land, DataType, journal, LateInv
<1>6. CallsOK' BY QuietCalls DEF Land
<1> QED BY <1>5, <1>6, Assemble

LEMMA BaseLose ==
    ASSUME BaseInv, NEW r \in late, Lose(r)
    PROVE  BaseInv'
<1>1. late' \subseteq Request /\ LateInv' BY DEF Lose, BaseInv, TypeOK, LateInv
<1>2. DataType' BY <1>1, BaseParts DEF Lose, DataType, journal, LateInv
<1>3. CallsOK' BY QuietCalls DEF Lose
<1> QED BY <1>2, <1>3, Assemble

LEMMA BaseSetPod ==
    ASSUME BaseInv, NEW o \in Ops, NEW status \in PodStatus, SetPod(o, status), faults' \in 0..MaxFaults
    PROVE  BaseInv'
<1>1. pods' \in [Ops -> Pod] BY DEF SetPod, BaseInv, TypeOK, Pod
<1>2. DataType' BY <1>1, BaseParts DEF SetPod, DataType, journal, LateInv
<1>3. CallsOK' BY QuietCalls DEF SetPod
<1> QED BY <1>2, <1>3, Assemble

LEMMA BaseCluster ==
    ASSUME BaseInv, Cluster
    PROVE  BaseInv'
<1>0. faults \in 0..MaxFaults BY DEF BaseInv, TypeOK
<1>1. ASSUME NEW o \in Ops,
             PodReady(o) \/ PodUnready(o) \/ PodExit(o) \/ Evict(o)
      PROVE  BaseInv'
  BY <1>0, <1>1, BaseSetPod, FaultType DEF PodReady, PodUnready, PodExit, Evict
<1>2. ASSUME NEW o \in Ops, ReplacePod(o) PROVE BaseInv'
  <2>1. pods' \in [Ops -> Pod] BY <1>2, NewTypes DEF ReplacePod, BaseInv, TypeOK
  <2>2. faults' \in 0..MaxFaults BY <1>2, FaultType DEF ReplacePod
  <2>3. DataType' BY <1>2, <2>1, <2>2, BaseParts DEF ReplacePod, DataType, journal, LateInv
  <2> QED BY <1>2, <2>3, QuietCalls, Assemble DEF ReplacePod
<1>3. ASSUME NEW o \in Ops, ReplaceService(o) PROVE BaseInv'
  <2>1. svcs[o] \in Object BY DEF BaseInv, TypeOK
  <2>2. NewObject(svcs[o]) \in Object /\ [svcs[o] EXCEPT !.live = FALSE] \in Object
    BY <1>3, <2>1, NewTypes DEF ReplaceService
  <2>3. svcs' \in [Ops -> Object] BY <1>3, <2>2 DEF ReplaceService, BaseInv, TypeOK
  <2>4. faults' \in 0..MaxFaults BY <1>3, FaultType DEF ReplaceService
  <2>5. DataType' BY <1>3, <2>3, <2>4, BaseParts DEF ReplaceService, DataType, journal, LateInv
  <2> QED BY <1>3, <2>5, QuietCalls, Assemble DEF ReplaceService
<1>4. CASE ReplaceSecret
  <2>1. secret \in Secret BY DEF BaseInv, TypeOK
  <2>2. NewSecret(secret, secret.prof) \in Secret /\ [secret EXCEPT !.live = FALSE] \in Secret
    BY <1>4, <2>1, NewTypes DEF ReplaceSecret, Secret
  <2>3. secret' \in Secret BY <1>4, <2>2 DEF ReplaceSecret
  <2>4. faults' \in 0..MaxFaults BY <1>4, FaultType DEF ReplaceSecret
  <2>5. DataType' BY <1>4, <2>3, <2>4, BaseParts DEF ReplaceSecret, DataType, journal, LateInv
  <2> QED BY <1>4, <2>5, QuietCalls, Assemble DEF ReplaceSecret
<1>5. CASE NodeDown
  <2>1. nodeReady' \in BOOLEAN BY <1>5, Zenon DEF NodeDown
  <2>2. faults' \in 0..MaxFaults BY <1>5, FaultType DEF NodeDown
  <2>3. DataType' BY <1>5, <2>1, <2>2, BaseParts DEF NodeDown, DataType, journal, LateInv
  <2> QED BY <1>5, <2>3, QuietCalls, Assemble DEF NodeDown
<1>6. CASE NodeUp
  <2>1. nodeReady' \in BOOLEAN BY <1>6, Zenon DEF NodeUp
  <2>2. DataType' BY <1>6, <2>1, BaseParts DEF NodeUp, DataType, journal, LateInv
  <2> QED BY <1>6, <2>2, QuietCalls, Assemble DEF NodeUp
<1>7. CASE Publish
  <2>1. installation' \in 0..MaxRevision BY <1>7, ConstantsAssumption DEF Publish, BaseInv, TypeOK
  <2>2. DataType' BY <1>7, <2>1, BaseParts DEF Publish, DataType, journal, cluster, LateInv
  <2> QED BY <1>7, <2>2, QuietCalls, Assemble DEF Publish
<1>8. CASE RemoveInstallation
  <2>1. installation' \in 0..MaxRevision BY <1>8, ConstantsAssumption DEF RemoveInstallation
  <2>2. faults' \in 0..MaxFaults BY <1>8, FaultType DEF RemoveInstallation
  <2>3. DataType' BY <1>8, <2>1, <2>2, BaseParts DEF RemoveInstallation, DataType, journal, cluster, LateInv
  <2> QED BY <1>8, <2>3, QuietCalls, Assemble DEF RemoveInstallation
<1>9. ASSUME NEW o \in Ops, PodGone(o) PROVE BaseInv'
  <2>1. pods' \in [Ops -> Pod] BY <1>9 DEF PodGone, BaseInv, TypeOK, Pod
  <2>2. timely' \in BOOLEAN BY <1>9, Zenon DEF PodGone
  <2>3. DataType' BY <1>9, <2>1, <2>2, BaseParts DEF PodGone, DataType, journal, LateInv
  <2> QED BY <1>9, <2>3, QuietCalls, Assemble DEF PodGone
<1>10. CASE Migrate
  <2>1. secret \in Secret BY DEF BaseInv, TypeOK
  <2>2. secret' \in Secret
    <3>1. ASSUME NEW p \in Profiles, secret.uid < MaxUid PROVE NewSecret(secret, p) \in Secret
      BY <2>1, <3>1, NewTypes
    <3> QED BY <1>10, <2>1, <3>1, NewTypes DEF Migrate
  <2>3. late' \subseteq Request /\ LateInv' BY <1>10 DEF Migrate, BaseInv, TypeOK, LateInv
  <2>4. DataType' BY <1>10, <2>2, <2>3, BaseParts DEF Migrate, DataType, journal
  <2> QED BY <1>10, <2>4, QuietCalls, Assemble DEF Migrate
<1> QED BY <1>1, <1>2, <1>3, <1>4, <1>5, <1>6, <1>7, <1>8, <1>9, <1>10 DEF Cluster

LEMMA BaseStutter ==
    ASSUME BaseInv, UNCHANGED vars
    PROVE  BaseInv'
  BY LocalBase, QuietCalls DEF vars, journal, cluster

LEMMA BaseNext ==
    ASSUME BaseInv, [Next]_vars
    PROVE  BaseInv'
  BY BaseBegin, BaseProceed, BaseInterrupt, BaseSessionLoss, BaseCrash, BaseLand, BaseLose,
     BaseCluster, BaseStutter DEF Next

\* Every reachable state is well typed, every call's local variables are what its place in
\* the code says, and an exclusive holder of the instance lock is alone (journal.go:297-330).
THEOREM BaseInvariant == Spec => []BaseInv
<1>1. Init => BaseInv BY InitBase
<1>2. BaseInv /\ [Next]_vars => BaseInv' BY BaseNext
<1> QED BY <1>1, <1>2, PTL DEF Spec

\* Type correctness: every variable stays in the type the source declares for it.
THEOREM TypeCorrect == Spec => []TypeOK
<1>1. BaseInv => TypeOK BY DEF BaseInv
<1> QED BY <1>1, BaseInvariant, PTL
--------------------------------------------------------------------------------
(* JournalInv                                                               *)

\* What the phase of a row says about its columns.
RowInv ==
    /\ \A o \in Ops :
         /\ starts[o].phase = "none" => starts[o] = NoStart
         /\ starts[o].phase # "none" => starts[o].gen # 0
         /\ starts[o].phase \in {"running", "stopping", "stopped"} => starts[o].obs.pod # 0
    /\ \A s \in StopOps : /\ stops[s].phase = "none" => stops[s].start = NoOp
                          /\ stops[s].phase # "none" => stops[s].start \in Ops

\* A holder that has read its stop works on the stop of its own start.
HolderStop ==
    \A c \in Callers : Connected(c) /\ loc[c].prog # "none" => stops[loc[c].stop].start = loc[c].op

\* What CredentialKept says of two generations that follow each other under one profile.
Inherited ==
    \A o, x \in Accepted : starts[x].gen = starts[o].gen + 1 /\ starts[x].prof = starts[o].prof =>
        starts[o].obs.sec # 0 /\ starts[x].obs.sec = starts[o].obs.sec

\* A holder about to bind the volume to a changed profile still follows the latest start.
Binds(call) ==
    /\ starts[call.op].phase = "none"
    /\ \E x \in Ops : Follows(call.gen, x) /\ starts[x].prof # call.prof
HolderBind == \A c \in Callers : Connected(c) /\ pc[c] = "accept_bind" => Binds(loc[c])

RecordInv == RowInv /\ OneActiveGeneration /\ StopsAgree /\ Inherited
JournalInv == BaseInv /\ RecordInv /\ HolderCopyCurrent /\ HolderStop

USE DEF StartPhases, StopPhases, PodStatus, Uid,
        LaunchLabels, ObserveLabels, VerifyLabels, StopLabels, RemoveLabels, LoadedLabels

LEMMA InitJournal == Init => JournalInv
<1> SUFFICES ASSUME Init PROVE JournalInv OBVIOUS
<1>1. BaseInv BY InitBase
<1>2. RecordInv
  BY ConstantsAssumption
  DEF Init, RecordInv, RowInv, OneActiveGeneration, StopsAgree, Inherited, Accepted,
      NoStart, NoStop, NoObservation
<1>3. HolderCopyCurrent /\ HolderStop
  BY DEF Init, HolderCopyCurrent, HolderStop, Connected
<1> QED BY <1>1, <1>2, <1>3 DEF JournalInv

--------------------------------------------------------------------------------
(* Steps that leave the journal alone                                       *)

SameCopy(before, after) ==
    /\ after.op = before.op /\ after.rec = before.rec /\ after.fresh = before.fresh
    /\ after.stop = before.stop /\ after.prog = before.prog

\* Who holds the lock with a record after the step held it before, with the same copies.
KeepsCopies ==
    \A d \in Callers : lock'[d] # "none" /\ loc'[d].rec.phase # "none" =>
        lock[d] # "none" /\ SameCopy(loc[d], loc'[d])

LEMMA FrameRecords ==
    ASSUME RecordInv, UNCHANGED journal
    PROVE  RecordInv'
  BY DEF RecordInv, RowInv, OneActiveGeneration, StopsAgree, Inherited, Accepted, journal

LEMMA FrameJournal ==
    ASSUME JournalInv, BaseInv', UNCHANGED journal, KeepsCopies
    PROVE  JournalInv'
<1>1. RecordInv' BY FrameRecords DEF JournalInv
<1>2. HolderCopyCurrent'
  BY DEF JournalInv, HolderCopyCurrent, Connected, KeepsCopies, SameCopy, journal
<1>3. HolderStop'
  <2> SUFFICES ASSUME NEW d \in Callers, lock'[d] # "none", loc'[d].prog # "none"
               PROVE  stops'[loc'[d].stop].start = loc'[d].op
    BY DEF HolderStop, Connected
  <2>1. CallShape(loc'[d], pc'[d], lock'[d]) BY DEF BaseInv, CallInv
  <2>2. loc'[d].rec.phase # "none" BY <2>1 DEF CallShape
  <2> QED BY <2>2 DEF JournalInv, HolderStop, Connected, KeepsCopies, SameCopy, journal
<1> QED BY <1>1, <1>2, <1>3 DEF JournalInv

LEMMA ReturnKeeps ==
    ASSUME BaseInv, NEW c \in Callers, Return(c)
    PROVE  KeepsCopies
  BY DEF BaseInv, TypeOK, Return, Leave, KeepsCopies, SameCopy

\* Moving on with changes to what was seen, the authorization or the aim only.
LEMMA GotoKeeps ==
    ASSUME BaseInv, NEW c \in Callers, NEW label, NEW call, Goto(c, label),
           loc' = [loc EXCEPT ![c] = call], SameCopy(loc[c], call)
    PROVE  KeepsCopies
  BY DEF BaseInv, TypeOK, Goto, KeepsCopies, SameCopy

LEMMA CheckKeeps ==
    ASSUME BaseInv, NEW c \in Callers, NEW ok, NEW label, NEW seen, Check(c, ok, label, seen)
    PROVE  KeepsCopies
<1>1. SameCopy(loc[c], [loc[c] EXCEPT !.seen = seen]) BY FieldTypes DEF SameCopy, Locals
<1>2. CASE ok
  BY <1>1, <1>2, GotoKeeps DEF Check
<1>3. CASE ~ok BY <1>3, ReturnKeeps DEF Check
<1> QED BY <1>2, <1>3

LEMMA QuietKeeps ==
    ASSUME UNCHANGED <<pc, lock, loc>>
    PROVE  KeepsCopies
  BY DEF KeepsCopies, SameCopy

LEMMA UpdateKeeps ==
    ASSUME BaseInv, NEW c \in Callers, NEW auth, NEW aim, NEW seen
    PROVE  /\ SameCopy(loc[c], loc[c])
           /\ SameCopy(loc[c], [loc[c] EXCEPT !.auth = auth])
           /\ SameCopy(loc[c], [loc[c] EXCEPT !.aim = aim])
           /\ SameCopy(loc[c], [loc[c] EXCEPT !.seen = seen])
           /\ SameCopy(loc[c], [loc[c] EXCEPT !.seen = seen, !.aim = aim])
  BY FieldTypes DEF SameCopy, Locals

LEMMA CallKeeps ==
    ASSUME BaseInv, NEW c \in Callers,
           \/ Authorize(c) \/ AcceptCheck(c) \/ AcceptReplay(c) \/ AcceptRefuse(c) \/ AcquireLock(c)
           \/ AcceptInspect(c) \/ ClaimVolume(c) \/ EnsurePod(c) \/ EnsureService(c) \/ EnsureSecretAndVolume(c)
           \/ CreateSecret(c) \/ CreateService(c) \/ CreatePod(c) \/ ObservePod(c) \/ ObserveRest(c)
           \/ Probe(c) \/ Certify(c) \/ Grant(c) \/ Seal(c) \/ SealRefused(c)
           \/ RemoveNode(c) \/ RemovePod(c) \/ RemoveService(c) \/ RemoveSecretAndVolume(c)
           \/ DeletePod(c) \/ DeleteService(c)
    PROVE  KeepsCopies /\ UNCHANGED journal
<1>1. ASSUME Authorize(c) PROVE KeepsCopies
  BY <1>1, UpdateKeeps, GotoKeeps, ReturnKeeps DEF Authorize
<1>2. ASSUME AcceptCheck(c) PROVE KeepsCopies BY <1>2, CheckKeeps DEF AcceptCheck
<1>3. ASSUME AcceptReplay(c) PROVE KeepsCopies
  <2>1. CASE Commit(c)
    <3>1. /\ pc' = [pc EXCEPT ![c] = "lock"] /\ lock' = [lock EXCEPT ![c] = "none"] /\ loc' = loc
      BY <2>1 DEF Commit
    <3> QED BY <3>1 DEF BaseInv, TypeOK, KeepsCopies, SameCopy
  <2>2. CASE Return(c) BY <2>2, ReturnKeeps
  <2> QED BY <1>3, <2>1, <2>2 DEF AcceptReplay
<1>4. ASSUME AcceptRefuse(c) PROVE KeepsCopies BY <1>4, ReturnKeeps DEF AcceptRefuse
<1>5. ASSUME AcquireLock(c) PROVE KeepsCopies
  <2>1. CASE LockFree
    <3>1. loc[c].rec.phase = "none" BY <1>5, FieldTypes DEF AcquireLock, CallShape
    <3> QED BY <1>5, <2>1, <3>1 DEF AcquireLock, BaseInv, TypeOK, KeepsCopies, SameCopy
  <2>2. CASE ~LockFree BY <1>5, <2>2, ReturnKeeps DEF AcquireLock
  <2> QED BY <2>1, <2>2
<1>6. ASSUME ClaimVolume(c) PROVE KeepsCopies
  <2>1. CASE claimed = loc[c].prof \/ (claimed = NoProfile /\ InspectVolume(NoOp, 0))
    BY <1>6, <2>1 DEF ClaimVolume, Goto, KeepsCopies, SameCopy
  <2>2. CASE ~(claimed = loc[c].prof \/ (claimed = NoProfile /\ InspectVolume(NoOp, 0))) BY <1>6, <2>2, ReturnKeeps DEF ClaimVolume
  <2> QED BY <2>1, <2>2
<1>7. ASSUME EnsurePod(c) PROVE KeepsCopies BY <1>7, CheckKeeps DEF EnsurePod
<1>8. ASSUME EnsureService(c) PROVE KeepsCopies BY <1>8, CheckKeeps DEF EnsureService
<1>9. ASSUME EnsureSecretAndVolume(c) PROVE KeepsCopies BY <1>9, CheckKeeps DEF EnsureSecretAndVolume
<1>10. ASSUME CreateSecret(c) PROVE KeepsCopies
  <2> DEFINE seen == [loc[c].seen EXCEPT !.sec = secret.uid + 1]
             call == [loc[c] EXCEPT !.seen = seen]
  <2>1. SameCopy(loc[c], call) BY UpdateKeeps
  <2>2. Return(c) \/ (Goto(c, "checkpoint") /\ loc' = [loc EXCEPT ![c] = call])
    BY <1>10 DEF CreateSecret
  <2> HIDE DEF call
  <2> QED BY <2>1, <2>2, GotoKeeps, ReturnKeeps
<1>11. ASSUME CreateService(c) PROVE KeepsCopies
  <2> DEFINE seen == [loc[c].seen EXCEPT !.svc = svcs[loc[c].op].uid + 1]
             call == [loc[c] EXCEPT !.seen = seen]
  <2>1. SameCopy(loc[c], call) BY UpdateKeeps
  <2>2. Return(c) \/ (Goto(c, "checkpoint") /\ loc' = [loc EXCEPT ![c] = call])
    BY <1>11 DEF CreateService
  <2> HIDE DEF call
  <2> QED BY <2>1, <2>2, GotoKeeps, ReturnKeeps
<1>12. ASSUME CreatePod(c) PROVE KeepsCopies
  <2> DEFINE seen == [loc[c].seen EXCEPT !.pod = pods[loc[c].op].uid + 1, !.status = "pending"]
             call == [loc[c] EXCEPT !.seen = seen]
  <2>1. SameCopy(loc[c], call) BY UpdateKeeps
  <2>2. Return(c) \/ (Goto(c, "checkpoint") /\ loc' = [loc EXCEPT ![c] = call])
    BY ZenonT(60), <1>12 DEF CreatePod
  <2> HIDE DEF call
  <2> QED BY <2>1, <2>2, GotoKeeps, ReturnKeeps
<1>13. ASSUME ObservePod(c) PROVE KeepsCopies BY <1>13, CheckKeeps DEF ObservePod
<1>14. ASSUME ObserveRest(c) PROVE KeepsCopies BY <1>14, CheckKeeps DEF ObserveRest
<1>15. ASSUME Probe(c) PROVE KeepsCopies
  <2> DEFINE seen == [loc[c].seen EXCEPT !.boot = pods[loc[c].op].uid]
             call == [loc[c] EXCEPT !.seen = seen, !.aim = "verified"]
  <2>1. SameCopy(loc[c], call) BY UpdateKeeps
  <2>2. Return(c) \/ (Goto(c, "observe_pod") /\ loc' = [loc EXCEPT ![c] = call])
    BY <1>15 DEF Probe
  <2> HIDE DEF call
  <2> QED BY <2>1, <2>2, GotoKeeps, ReturnKeeps
<1>16. ASSUME Certify(c) PROVE KeepsCopies BY <1>16, CheckKeeps DEF Certify
<1>17. ASSUME Grant(c) PROVE KeepsCopies BY <1>17, ReturnKeeps DEF Grant
<1>18. ASSUME Seal(c) PROVE KeepsCopies BY <1>18, UpdateKeeps, GotoKeeps DEF Seal
<1>19. ASSUME SealRefused(c) PROVE KeepsCopies BY <1>19, ReturnKeeps DEF SealRefused
<1>20. ASSUME RemoveNode(c) PROVE KeepsCopies BY <1>20, CheckKeeps DEF RemoveNode
<1>21. ASSUME RemovePod(c) PROVE KeepsCopies BY <1>21, CheckKeeps DEF RemovePod
<1>22. ASSUME RemoveService(c) PROVE KeepsCopies BY <1>22, CheckKeeps DEF RemoveService
<1>23. ASSUME RemoveSecretAndVolume(c) PROVE KeepsCopies BY <1>23, CheckKeeps DEF RemoveSecretAndVolume
<1>24. ASSUME DeletePod(c) PROVE KeepsCopies BY <1>24, ReturnKeeps DEF DeletePod
<1>25. ASSUME DeleteService(c) PROVE KeepsCopies BY <1>25, ReturnKeeps DEF DeleteService
<1>27. ASSUME AcceptInspect(c) PROVE KeepsCopies BY <1>27, CheckKeeps DEF AcceptInspect
<1>26. UNCHANGED journal
  BY DEF Authorize, AcceptCheck, AcceptReplay, AcceptInspect, AcceptRefuse, AcquireLock, ClaimVolume, EnsurePod,
     EnsureService, EnsureSecretAndVolume, CreateSecret, CreateService, CreatePod, ObservePod,
     ObserveRest, Probe, Certify, Grant, Seal, SealRefused, RemoveNode, RemovePod, RemoveService,
     RemoveSecretAndVolume, DeletePod, DeleteService
<1> QED
  BY <1>1, <1>2, <1>3, <1>4, <1>5, <1>6, <1>7, <1>8, <1>9, <1>10, <1>11, <1>12, <1>13, <1>14,
     <1>15, <1>16, <1>17, <1>18, <1>19, <1>20, <1>21, <1>22, <1>23, <1>24, <1>25, <1>26, <1>27

--------------------------------------------------------------------------------
(* Taking a copy                                                            *)

LEMMA JournalLoad ==
    ASSUME JournalInv, NEW c \in Callers, Load(c), BaseInv'
    PROVE  JournalInv'
<1> DEFINE row == starts[loc[c].op]
           visit == Visit(loc[c].kind, row.phase)
           aim == CASE visit = "claim" -> "ensure"
                    [] visit = "stop" -> "stop"
                    [] OTHER -> "verify"
           call == [loc[c] EXCEPT !.rec = row, !.fresh = TRUE, !.aim = aim]
           ok == installationMatches(c) /\ row.phase # "none" /\ sameRecord(row, loc[c]) /\ visit # "idle"
<1>0. BaseInv BY DEF JournalInv
<1>1. CASE ok
  <2>1. /\ call.op = loc[c].op /\ call.rec = row /\ call.fresh = TRUE /\ call.prog = loc[c].prog
        /\ loc[c].prog = "none"
    BY <1>0, FieldTypes DEF Load, CallShape, Locals
  <2>2. loc' = [loc EXCEPT ![c] = call] /\ UNCHANGED <<lock, journal>> BY <1>1 DEF Load, Goto
  <2>3. loc'[c] = call /\ \A d \in Callers : d # c => loc'[d] = loc[d]
    BY <1>0, <2>2 DEF BaseInv, TypeOK
  <2>4. HolderCopyCurrent'
    <3> SUFFICES ASSUME NEW d \in Callers, lock'[d] # "none", loc'[d].rec.phase # "none"
                 PROVE  /\ loc'[d].fresh /\ loc'[d].rec = starts'[loc'[d].op]
                        /\ loc'[d].prog # "none" => stops'[loc'[d].stop].phase = loc'[d].prog
      BY DEF HolderCopyCurrent, Connected
    <3> HIDE DEF call
    <3>1. CASE d = c BY <2>1, <2>2, <2>3, <3>1 DEF journal
    <3>2. CASE d # c BY <2>2, <2>3, <3>2 DEF JournalInv, HolderCopyCurrent, Connected, journal
    <3> QED BY <3>1, <3>2
  <2>5. HolderStop'
    <3> HIDE DEF call
    <3> QED BY <2>1, <2>2, <2>3 DEF JournalInv, HolderStop, Connected, journal
  <2>6. RecordInv' BY <2>2, FrameRecords DEF JournalInv
  <2> QED BY <2>4, <2>5, <2>6 DEF JournalInv
<1>2. CASE ~ok BY <1>0, <1>2, ReturnKeeps, FrameJournal DEF Load
<1> QED BY <1>1, <1>2

LEMMA JournalReplayStop ==
    ASSUME JournalInv, NEW c \in Callers, ReplayStop(c), BaseInv'
    PROVE  JournalInv'
<1> DEFINE row == stops[loc[c].stop]
           ok == Connected(c) /\ scanStop(row, loc[c]) /\ row.phase # "stopped"
           call == [loc[c] EXCEPT !.prog = row.phase]
<1>0. BaseInv BY DEF JournalInv
<1>1. CASE ok
  <2>1. /\ call.op = loc[c].op /\ call.rec = loc[c].rec /\ call.fresh = loc[c].fresh
        /\ call.prog = row.phase /\ call.stop = loc[c].stop
    BY <1>0, FieldTypes DEF Locals
  <2>2. loc' = [loc EXCEPT ![c] = call] /\ UNCHANGED <<lock, journal>> /\ row.start = loc[c].op
    BY <1>1 DEF ReplayStop, Goto, scanStop
  <2>3. loc'[c] = call /\ \A d \in Callers : d # c => loc'[d] = loc[d]
    BY <1>0, <2>2 DEF BaseInv, TypeOK
  <2> HIDE DEF call
  <2>4. HolderCopyCurrent'
    BY <2>1, <2>2, <2>3 DEF JournalInv, HolderCopyCurrent, Connected, journal
  <2>5. HolderStop'
    BY <2>1, <2>2, <2>3 DEF JournalInv, HolderStop, Connected, journal
  <2>6. RecordInv' BY <2>2, FrameRecords DEF JournalInv
  <2> QED BY <2>4, <2>5, <2>6 DEF JournalInv
<1>2. CASE ~ok BY <1>0, <1>2, ReturnKeeps, FrameJournal DEF ReplayStop
<1> QED BY <1>1, <1>2

--------------------------------------------------------------------------------
(* Writing the journal: the writer is the only holder of the lock           *)

LEMMA SoleHolder ==
    ASSUME BaseInv, NEW c \in Callers, Connected(c), loc[c].kind \in {"start", "stop"}
    PROVE  \A d \in Callers : d # c => lock[d] = "none"
  BY FieldTypes DEF CallShape, Connected, BaseInv, LockInv

\* A new row that follows the latest start, with its credential when the profile is the same.
LEMMA JournalFollower ==
    ASSUME JournalInv, NEW c \in Callers, Connected(c), BaseInv', UNCHANGED stops, Commit(c),
           loc[c].op \in Ops, loc[c].kind = "start", starts[loc[c].op].phase = "none", NEW sec,
           starts' = [starts EXCEPT ![loc[c].op] = NewStart(c, sec)],
           \/ Accepted = {} /\ loc[c].gen = 1
           \/ \E x \in Ops : /\ Follows(loc[c].gen, x)
                             /\ starts[x].prof = loc[c].prof => sec = starts[x].obs.sec
    PROVE  JournalInv'
<1> DEFINE o == loc[c].op
           g == loc[c].gen
<1>0. BaseInv /\ RecordInv BY DEF JournalInv
<1>2. HolderCopyCurrent' /\ HolderStop'
  <2>1. \A d \in Callers : d # c => lock[d] = "none" BY <1>0, SoleHolder
  <2>2. \A d \in Callers : lock'[d] = "none"
    BY <1>0, <2>1 DEF Commit, BaseInv, TypeOK
  <2> QED BY <2>2 DEF HolderCopyCurrent, HolderStop, Connected
<1>4. starts \in [Ops -> StartRow] /\ stops \in [StopOps -> StopRow] BY <1>0 DEF BaseInv, TypeOK
<1>5. /\ starts'[o].gen = g /\ starts'[o].prof = loc[c].prof /\ starts'[o].phase = "accepted"
      /\ starts'[o].obs.sec = sec
      /\ \A x \in Ops : x # o => starts'[x] = starts[x]
  BY <1>4 DEF NewStart, NoObservation
<1>6. StopsAgree'
  <2>1. \A s \in StopOps : stops[s].start # o
    BY <1>0, ConstantsAssumption DEF RecordInv, RowInv, StopsAgree
  <2> QED BY <1>0, <1>5, <2>1 DEF RecordInv, RowInv, StopsAgree
<1>7. CASE Accepted = {} /\ g = 1
  <2>2. \A x \in Ops : starts[x].phase = "none" BY <1>7 DEF Accepted
  <2>3. RowInv' BY <1>0, <1>5, <1>7, <2>2 DEF RecordInv, RowInv
  <2>4. OneActiveGeneration' BY <1>5, <2>2 DEF OneActiveGeneration, Accepted
  <2>5. Inherited' BY <1>5, <1>7, <2>2 DEF Inherited, Accepted
  <2> QED BY <1>2, <1>6, <2>3, <2>4, <2>5 DEF JournalInv, RecordInv
<1>8. ASSUME NEW p \in Ops, Follows(g, p), starts[p].prof = loc[c].prof => sec = starts[p].obs.sec
      PROVE  JournalInv'
  <2>2. /\ starts[p].phase = "stopped" /\ g = starts[p].gen + 1 /\ starts[p].obs.sec # 0
        /\ \A x \in Ops : starts[x].phase # "none" => starts[x].gen <= starts[p].gen
    BY <1>8 DEF Follows, Latest, Accepted
  <2>3. \A x \in Ops : starts[x].gen \in Nat BY <1>4, ConstantsAssumption DEF StartRow
  <2>4. \A x \in Ops : starts[x].phase # "none" =>
          starts[x].phase = "stopped" /\ starts[x].gen < g /\ (x # p => starts[x].gen < starts[p].gen)
    <3> SUFFICES ASSUME NEW x \in Ops, starts[x].phase # "none"
                 PROVE  starts[x].phase = "stopped" /\ starts[x].gen < g /\ (x # p => starts[x].gen < starts[p].gen)
      OBVIOUS
    <3>1. CASE x = p BY <2>2, <2>3, <3>1
    <3>2. CASE x # p
      <4>1. starts[x].gen # starts[p].gen /\ (starts[x].gen < starts[p].gen => starts[x].phase = "stopped")
        BY <1>0, <2>2, <3>2 DEF RecordInv, OneActiveGeneration, Accepted
      <4> QED BY <2>2, <2>3, <4>1
    <3> QED BY <3>1, <3>2
  <2>5. RowInv' BY <1>0, <1>5, <2>2, <2>3 DEF RecordInv, RowInv
  <2>6. OneActiveGeneration'
    <3> SUFFICES ASSUME NEW x \in Ops, NEW y \in Ops, x # y,
                        starts'[x].phase # "none", starts'[y].phase # "none"
                 PROVE  /\ starts'[x].gen # starts'[y].gen
                        /\ starts'[x].gen < starts'[y].gen => starts'[x].phase = "stopped"
      BY DEF OneActiveGeneration, Accepted
    <3>1. CASE x = o BY <1>5, <2>2, <2>3, <2>4, <3>1
    <3>2. CASE y = o BY <1>5, <2>2, <2>3, <2>4, <3>2
    <3>3. CASE x # o /\ y # o BY <1>0, <1>5, <3>3 DEF RecordInv, OneActiveGeneration, Accepted
    <3> QED BY <3>1, <3>2, <3>3
  <2>7. Inherited'
    <3> SUFFICES ASSUME NEW x \in Ops, NEW y \in Ops, starts'[x].phase # "none", starts'[y].phase # "none",
                        starts'[y].gen = starts'[x].gen + 1, starts'[y].prof = starts'[x].prof
                 PROVE  starts'[x].obs.sec # 0 /\ starts'[y].obs.sec = starts'[x].obs.sec
      BY DEF Inherited, Accepted
    <3>1. CASE x = o BY <1>5, <2>2, <2>3, <2>4, <3>1
    <3>2. CASE y = o /\ x # o
      <4>1. x = p BY <1>5, <2>2, <2>3, <2>4, <3>2
      <4> QED BY <1>5, <1>8, <2>2, <3>2, <4>1
    <3>3. CASE x # o /\ y # o BY <1>0, <1>5, <3>3 DEF RecordInv, Inherited, Accepted
    <3> QED BY <3>1, <3>2, <3>3
  <2> QED BY <1>2, <1>6, <2>5, <2>6, <2>7 DEF JournalInv, RecordInv
<1> QED BY <1>7, <1>8

LEMMA JournalAcceptInsert ==
    ASSUME JournalInv, NEW c \in Callers, AcceptInsert(c), BaseInv'
    PROVE  JournalInv'
<1>0. BaseInv BY DEF JournalInv
<1>1. loc[c].op \in Ops /\ loc[c].kind = "start" BY <1>0, FieldTypes DEF AcceptInsert, CallShape
<1>2. starts[loc[c].op].phase = "none" /\ UNCHANGED stops /\ Commit(c) /\ Connected(c) BY DEF AcceptInsert
<1>3. CASE Accepted = {} /\ loc[c].gen = 1 /\ starts' = [starts EXCEPT ![loc[c].op] = NewStart(c, 0)]
  BY <1>1, <1>2, <1>3, JournalFollower
<1>4. ASSUME NEW x \in Ops, Follows(loc[c].gen, x),
             starts' = [starts EXCEPT ![loc[c].op] = NewStart(c, starts[x].obs.sec)]
      PROVE  JournalInv'
  BY <1>1, <1>2, <1>4, JournalFollower
<1> QED BY <1>3, <1>4 DEF AcceptInsert

LEMMA JournalAcceptBind ==
    ASSUME JournalInv, HolderBind, NEW c \in Callers, AcceptBind(c), BaseInv'
    PROVE  JournalInv'
<1>0. BaseInv BY DEF JournalInv
<1>1. CASE Connected(c)
  <2>1. loc[c].op \in Ops /\ loc[c].kind = "start" BY <1>0, FieldTypes DEF AcceptBind, CallShape
  <2>2. /\ starts[loc[c].op].phase = "none"
        /\ \E x \in Ops : Follows(loc[c].gen, x) /\ starts[x].prof # loc[c].prof
    BY <1>1 DEF HolderBind, Binds, AcceptBind
  <2>3. /\ UNCHANGED stops /\ Commit(c)
        /\ starts' = [starts EXCEPT ![loc[c].op] = NewStart(c, loc[c].seen.sec)]
    BY <1>1 DEF AcceptBind
  <2> QED BY <1>1, <2>1, <2>2, <2>3, JournalFollower
<1>2. CASE ~Connected(c) BY <1>0, <1>2, ReturnKeeps, FrameJournal DEF AcceptBind, journal
<1> QED BY <1>1, <1>2

\* A successful checkpoint of a start, whatever the call does next: it leaves, or goes on
\* with the row it wrote as its copy.
LEMMA JournalCheckpoint ==
    ASSUME JournalInv, BaseInv', NEW c \in Callers, NEW next \in Observation, NEW row \in StartRow, NEW mine,
           loc[c].kind = "start", loc[c].op \in Ops,
           checkpoint(c, next), row.phase \in {"launching", "running"}, row.phase = "running" => next.pod # 0,
           row.gen = loc[c].rec.gen, row.prof = loc[c].rec.prof, row.obs = next,
           SaveStart(c, row, mine), UNCHANGED stops,
           \/ Leave(c)
           \/ UNCHANGED lock /\ mine.op = loc[c].op /\ mine.rec = row /\ mine.fresh = loc[c].fresh /\ mine.prog = "none"
    PROVE  JournalInv'
<1> DEFINE o == loc[c].op
<1>0. /\ BaseInv /\ RecordInv /\ HolderCopyCurrent
      /\ starts \in [Ops -> StartRow] /\ lock \in [Callers -> {"none", "shared", "exclusive"}]
  BY DEF JournalInv, BaseInv, TypeOK
<1>1. Connected(c) /\ loc[c].fresh /\ loc[c].rec = starts[o] /\ starts[o].phase \in {"accepted", "launching"}
  BY <1>0 DEF checkpoint, HolderCopyCurrent, Connected
<1>2. starts'[o] = row /\ (\A x \in Ops : x # o => starts'[x] = starts[x]) /\ loc'[c] = mine
  BY <1>0 DEF SaveStart
<1>3. \A d \in Callers : d # c => lock'[d] = "none"
  <2>1. \A d \in Callers : d # c => lock[d] = "none" BY <1>0, <1>1, SoleHolder
  <2> QED BY <1>0, <2>1 DEF Leave
<1>4. HolderCopyCurrent' /\ HolderStop'
  <2>1. CASE Leave(c)
    <3>1. lock'[c] = "none" BY <1>0, <2>1 DEF Leave
    <3> QED BY <1>3, <3>1 DEF HolderCopyCurrent, HolderStop, Connected
  <2>2. CASE UNCHANGED lock /\ mine.op = loc[c].op /\ mine.rec = row /\ mine.fresh = loc[c].fresh /\ mine.prog = "none"
    BY ZenonT(60), <1>1, <1>2, <1>3, <2>2 DEF HolderCopyCurrent, HolderStop, Connected
  <2> QED BY <2>1, <2>2
<1>6. starts[o].obs.sec # 0 => row.obs.sec = starts[o].obs.sec
  BY <1>1 DEF checkpoint, monotonicObservation, Keeps
<1>7. RowInv'
  <2>1. row.gen # 0 BY <1>0, <1>1 DEF RecordInv, RowInv
  <2> QED BY <1>0, <1>1, <1>2, <2>1 DEF RecordInv, RowInv
<1>8. OneActiveGeneration' BY <1>0, <1>1, <1>2 DEF RecordInv, OneActiveGeneration, Accepted
<1>9. StopsAgree'
  <2>1. \A s \in StopOps : stops[s].start # o
    BY <1>0, <1>1, ConstantsAssumption DEF RecordInv, RowInv, StopsAgree
  <2> QED BY <1>0, <1>2, <2>1 DEF RecordInv, RowInv, StopsAgree
<1>10. Inherited' BY <1>0, <1>1, <1>2, <1>6 DEF RecordInv, Inherited, Accepted
<1> QED BY <1>4, <1>7, <1>8, <1>9, <1>10 DEF JournalInv, RecordInv

LEMMA JournalCheckpointProgress ==
    ASSUME JournalInv, BaseInv', NEW c \in Callers, CheckpointProgress(c)
    PROVE  JournalInv'
<1> DEFINE seen == loc[c].seen
           next == Progress(seen)
           row == Launching(loc[c].rec, next)
           mine == [loc[c] EXCEPT !.rec = row]
<1>0. BaseInv BY DEF JournalInv
<1>1. CASE checkpoint(c, next)
  <2>0. loc[c].rec \in StartRow /\ next \in Observation BY <1>0, FieldTypes, ObservedType
  <2>1. row \in StartRow /\ row.phase = "launching" /\ row.obs = next BY ZenonT(60), <2>0, RowTypes
  <2>2. row.gen = loc[c].rec.gen /\ row.prof = loc[c].rec.prof BY <2>0 DEF Launching, StartRow
  <2>3. loc[c].kind = "start" /\ loc[c].op \in Ops /\ loc[c].prog = "none"
    BY <1>0, FieldTypes DEF CheckpointProgress, CallShape
  <2>4. mine.op = loc[c].op /\ mine.rec = row /\ mine.fresh = loc[c].fresh /\ mine.prog = "none"
    BY <1>0, <2>3, FieldTypes DEF Locals
  <2>5. SaveStart(c, row, mine) /\ UNCHANGED <<stops, lock>>
    BY <1>1 DEF CheckpointProgress, Goto
  <2> HIDE DEF row, mine, next
  <2> QED BY <1>1, <2>0, <2>1, <2>2, <2>3, <2>4, <2>5, JournalCheckpoint
<1>2. CASE ~checkpoint(c, next)
  BY <1>0, <1>2, ReturnKeeps, FrameJournal DEF CheckpointProgress, journal
<1> QED BY <1>1, <1>2

LEMMA JournalCheckpointObserved ==
    ASSUME JournalInv, BaseInv', NEW c \in Callers, CheckpointObserved(c)
    PROVE  JournalInv'
<1> DEFINE seen == loc[c].seen
           next == Observed(seen)
           row == Launching(loc[c].rec, next)
           mine == [loc[c] EXCEPT !.rec = row, !.aim = "verify"]
<1>0. BaseInv BY DEF JournalInv
<1>1. CASE checkpoint(c, next)
  <2>0. loc[c].rec \in StartRow /\ next \in Observation BY <1>0, FieldTypes, ObservedType
  <2>1. row \in StartRow /\ row.phase = "launching" /\ row.obs = next BY ZenonT(60), <2>0, RowTypes
  <2>2. row.gen = loc[c].rec.gen /\ row.prof = loc[c].rec.prof BY <2>0 DEF Launching, StartRow
  <2>3. loc[c].kind = "start" /\ loc[c].op \in Ops /\ loc[c].prog = "none"
    BY <1>0, FieldTypes DEF CheckpointObserved, CallShape
  <2>4. mine.op = loc[c].op /\ mine.rec = row /\ mine.fresh = loc[c].fresh /\ mine.prog = "none"
    BY <1>0, <2>3, FieldTypes DEF Locals
  <2>5. /\ UNCHANGED stops
        /\ \/ SaveStart(c, row, mine) /\ UNCHANGED lock
           \/ SaveStart(c, row, NoCall) /\ Leave(c)
    BY <1>1 DEF CheckpointObserved, Goto
  <2> HIDE DEF row, mine, next
  <2> QED BY <1>1, <2>0, <2>1, <2>2, <2>3, <2>4, <2>5, JournalCheckpoint
<1>2. CASE ~checkpoint(c, next)
  BY <1>0, <1>2, ReturnKeeps, FrameJournal DEF CheckpointObserved, journal
<1> QED BY <1>1, <1>2

LEMMA JournalCheckpointRunning ==
    ASSUME JournalInv, BaseInv', NEW c \in Callers, CheckpointRunning(c)
    PROVE  JournalInv'
<1> DEFINE next == Observed(loc[c].seen)
           row == Running(loc[c].rec, next)
           ok == loc[c].seen.status = "ready" /\ checkpoint(c, next)
<1>0. BaseInv BY DEF JournalInv
<1>1. CASE ok
  <2>0. loc[c].rec \in StartRow /\ next \in Observation BY <1>0, FieldTypes, ObservedType
  <2>1. row \in StartRow /\ row.phase = "running" /\ row.obs = next BY ZenonT(60), <2>0, RowTypes
  <2>2. row.gen = loc[c].rec.gen /\ row.prof = loc[c].rec.prof BY <2>0 DEF Running, StartRow
  <2>3. loc[c].kind = "start" /\ loc[c].op \in Ops
    BY <1>0, FieldTypes DEF CheckpointRunning, CallShape
  <2>4. next.pod # 0
    <3>1. next.ready = TRUE BY <1>1 DEF Observed
    <3> QED BY <1>1, <3>1 DEF checkpoint, monotonicObservation, ValidObservation
  <2>5. SaveStart(c, row, NoCall) /\ UNCHANGED stops /\ Leave(c)
    BY <1>1 DEF CheckpointRunning
  <2> HIDE DEF row, next
  <2> QED BY <1>1, <2>0, <2>1, <2>2, <2>3, <2>4, <2>5, JournalCheckpoint
<1>2. CASE ~ok
  BY <1>0, <1>2, ReturnKeeps, FrameJournal DEF CheckpointRunning, journal
<1> QED BY <1>1, <1>2

LEMMA JournalacceptStop ==
    ASSUME JournalInv, BaseInv', NEW c \in Callers, acceptStop(c)
    PROVE  JournalInv'
<1> DEFINE o == loc[c].op
           s == loc[c].stop
           r == loc[c].rec
           row == [r EXCEPT !.phase = "stopping"]
           stop == [start |-> o, boot |-> loc[c].boot, phase |-> "accepted"]
           mine == [loc[c] EXCEPT !.rec = row, !.prog = "accepted"]
           ok == /\ Connected(c) /\ loc[c].fresh
                 /\ r.phase = "running" /\ r.obs.boot = loc[c].boot
                 /\ \A t \in StopOps : stops[t].start # o
<1>0. /\ BaseInv /\ RecordInv /\ HolderCopyCurrent
      /\ starts \in [Ops -> StartRow] /\ stops \in [StopOps -> StopRow]
  BY DEF JournalInv, BaseInv, TypeOK
<1>1. CASE ok
  <2>1. pc[c] = "stop" /\ o \in Ops /\ s \in StopOps /\ loc[c].kind = "stop" /\ stops[s].phase = "none"
    BY <1>0, FieldTypes DEF acceptStop, CallShape
  <2>2. r = starts[o] BY <1>0, <1>1 DEF HolderCopyCurrent
  <2>3. row.phase = "stopping" /\ row.gen = r.gen /\ row.prof = r.prof /\ row.obs = r.obs
    BY <1>0, FieldTypes DEF StartRow
  <2>4. mine.op = o /\ mine.stop = s /\ mine.rec = row /\ mine.fresh = loc[c].fresh /\ mine.prog = "accepted"
    BY <1>0, FieldTypes DEF Locals
  <2>5. SaveStart(c, row, mine) /\ UNCHANGED lock /\ stops' = [stops EXCEPT ![s] = stop]
    BY <1>1 DEF acceptStop, Goto
  <2>6. stop.start = o /\ stop.phase = "accepted" OBVIOUS
  <2> HIDE DEF row, mine, stop
  <2>7. /\ starts'[o] = row /\ (\A x \in Ops : x # o => starts'[x] = starts[x])
        /\ stops'[s] = stop /\ (\A t \in StopOps : t # s => stops'[t] = stops[t])
        /\ loc'[c] = mine
    BY <1>0, <2>1, <2>5 DEF SaveStart
  <2>8. \A d \in Callers : d # c => lock'[d] = "none" BY <1>0, <1>1, <2>1, <2>5, SoleHolder
  <2>9. HolderCopyCurrent' /\ HolderStop'
    <3>1. /\ loc'[c].fresh /\ loc'[c].rec = starts'[loc'[c].op]
          /\ stops'[loc'[c].stop].phase = loc'[c].prog /\ stops'[loc'[c].stop].start = loc'[c].op
      BY <1>1, <2>4, <2>6, <2>7
    <3> QED BY <2>8, <3>1 DEF HolderCopyCurrent, HolderStop, Connected
  <2>10. RowInv' BY <1>0, <1>1, <2>1, <2>2, <2>3, <2>6, <2>7 DEF RecordInv, RowInv
  <2>11. OneActiveGeneration'
    BY <1>0, <1>1, <2>1, <2>2, <2>3, <2>7 DEF RecordInv, OneActiveGeneration, Accepted
  <2>12. StopsAgree'
    BY <1>0, <1>1, <2>1, <2>2, <2>3, <2>6, <2>7, ConstantsAssumption DEF RecordInv, RowInv, StopsAgree
  <2>13. Inherited' BY <1>0, <1>1, <2>2, <2>3, <2>7 DEF RecordInv, Inherited, Accepted
  <2> QED BY <2>9, <2>10, <2>11, <2>12, <2>13 DEF JournalInv, RecordInv
<1>2. CASE ~ok BY <1>0, <1>2, ReturnKeeps, FrameJournal DEF acceptStop
<1> QED BY <1>1, <1>2

\* The stop row advances within "stopping": the start row does not change.
LEMMA JournalSaveStop ==
    ASSUME JournalInv, BaseInv', NEW c \in Callers, NEW next, NEW call,
           loc[c].kind = "stop", loc[c].op \in Ops, loc[c].stop \in StopOps, loc[c].prog # "none",
           loc[c].rec.phase # "none",
           next \notin {"none", "stopped"}, next = NextStop(loc[c].prog), loc[c].prog # "stopped",
           checkpointStop(c), SaveStop(c), UNCHANGED <<starts, lock>>,
           loc' = [loc EXCEPT ![c] = call], call.op = loc[c].op, call.stop = loc[c].stop,
           call.rec = loc[c].rec, call.fresh = loc[c].fresh, call.prog = next
    PROVE  JournalInv'
<1> DEFINE s == loc[c].stop
<1>0. /\ BaseInv /\ RecordInv /\ HolderCopyCurrent /\ HolderStop
      /\ stops \in [StopOps -> StopRow] /\ loc \in [Callers -> Locals]
  BY DEF JournalInv, BaseInv, TypeOK
<1>1. /\ Connected(c) /\ loc[c].fresh /\ loc[c].rec = starts[loc[c].op] /\ stops[s].phase = loc[c].prog
      /\ stops[s].start = loc[c].op
  BY <1>0 DEF checkpointStop, HolderCopyCurrent, HolderStop
<1>2. /\ stops'[s].phase = next /\ stops'[s].start = stops[s].start
      /\ \A t \in StopOps : t # s => stops'[t] = stops[t]
  BY <1>0 DEF SaveStop, StopRow
<1>3. loc'[c] = call BY <1>0
<1>4. \A d \in Callers : d # c => lock'[d] = "none" BY <1>0, <1>1, SoleHolder
<1>5. HolderCopyCurrent' /\ HolderStop'
  <2>1. /\ loc'[c].fresh /\ loc'[c].rec = starts'[loc'[c].op]
        /\ stops'[loc'[c].stop].phase = loc'[c].prog /\ stops'[loc'[c].stop].start = loc'[c].op
    BY <1>1, <1>2, <1>3
  <2> QED BY <1>4, <2>1 DEF HolderCopyCurrent, HolderStop, Connected
<1>6. RowInv' BY <1>0, <1>1, <1>2 DEF RecordInv, RowInv
<1>7. OneActiveGeneration' /\ Inherited'
  BY <1>0 DEF RecordInv, OneActiveGeneration, Inherited, Accepted
<1>8. StopsAgree'
  <2>1. starts[loc[c].op].phase = "stopping" BY <1>1 DEF checkpointStop
  <2>2. \A t \in StopOps : stops'[t].start = stops[t].start BY <1>2
  <2>3. \A t \in StopOps : t # s => stops'[t].phase = stops[t].phase BY <1>2
  <2> QED BY <1>0, <1>1, <1>2, <2>1, <2>2, <2>3 DEF RecordInv, RowInv, StopsAgree
<1> QED BY <1>5, <1>6, <1>7, <1>8 DEF JournalInv, RecordInv

LEMMA JournalCheckpointSealed ==
    ASSUME JournalInv, BaseInv', NEW c \in Callers, CheckpointSealed(c)
    PROVE  JournalInv'
<1> DEFINE call == [loc[c] EXCEPT !.prog = "sealed"]
<1>0. BaseInv BY DEF JournalInv
<1>1. CASE checkpointStop(c)
  <2>1. /\ pc[c] = "checkpoint_sealed" /\ loc[c].kind = "stop" /\ loc[c].op \in Ops /\ loc[c].stop \in StopOps
        /\ loc[c].prog = "accepted" /\ loc[c].rec.phase # "none"
    BY <1>0, FieldTypes DEF CheckpointSealed, CallShape
  <2>2. NextStop(loc[c].prog) = "sealed" BY <2>1 DEF NextStop
  <2>3. SaveStop(c) /\ UNCHANGED <<starts, lock>> /\ loc' = [loc EXCEPT ![c] = call]
    BY <1>1, <2>2 DEF CheckpointSealed, Goto
  <2>4. /\ call.op = loc[c].op /\ call.stop = loc[c].stop /\ call.rec = loc[c].rec
        /\ call.fresh = loc[c].fresh /\ call.prog = "sealed"
    BY <1>0, FieldTypes DEF Locals
  <2> HIDE DEF call
  <2> QED BY <1>1, <2>1, <2>2, <2>3, <2>4, JournalSaveStop
<1>2. CASE ~checkpointStop(c)
  BY <1>0, <1>2, ReturnKeeps, FrameJournal DEF CheckpointSealed, journal
<1> QED BY <1>1, <1>2

LEMMA JournalRemoveAdvance ==
    ASSUME JournalInv, BaseInv', NEW c \in Callers, RemoveAdvance(c)
    PROVE  JournalInv'
<1> DEFINE o == loc[c].op
           s == loc[c].stop
           next == NextStop(loc[c].prog)
           row == [loc[c].rec EXCEPT !.phase = "stopped"]
           call == [loc[c] EXCEPT !.prog = next]
<1>0. /\ BaseInv /\ RecordInv /\ HolderCopyCurrent /\ HolderStop
      /\ starts \in [Ops -> StartRow] /\ stops \in [StopOps -> StopRow]
      /\ lock \in [Callers -> {"none", "shared", "exclusive"}]
  BY DEF JournalInv, BaseInv, TypeOK
<1>1. /\ pc[c] = "remove" /\ loc[c].kind = "stop" /\ o \in Ops /\ s \in StopOps
      /\ loc[c].prog \notin {"none", "accepted", "stopped"} /\ loc[c].rec.phase # "none"
  BY <1>0, FieldTypes DEF RemoveAdvance, CallShape
<1>2. CASE checkpointStop(c) /\ next # "stopped"
  <2>1. next \notin {"none", "stopped"} BY <1>2 DEF NextStop
  <2>2. SaveStop(c) /\ UNCHANGED <<starts, lock>> /\ loc' = [loc EXCEPT ![c] = call]
    BY <1>2 DEF RemoveAdvance, Goto
  <2>3. /\ call.op = loc[c].op /\ call.stop = loc[c].stop /\ call.rec = loc[c].rec
        /\ call.fresh = loc[c].fresh /\ call.prog = next
    BY <1>0, FieldTypes DEF Locals
  <2> HIDE DEF call
  <2> QED BY <1>1, <1>2, <2>1, <2>2, <2>3, JournalSaveStop
<1>3. CASE checkpointStop(c) /\ next = "stopped"
  <2>1. /\ Connected(c) /\ loc[c].rec = starts[o] /\ starts[o].phase = "stopping"
        /\ stops[s].phase = loc[c].prog /\ stops[s].start = o
    BY <1>0, <1>1, <1>3 DEF checkpointStop, HolderCopyCurrent, HolderStop
  <2>2. row.phase = "stopped" /\ row.gen = starts[o].gen /\ row.prof = starts[o].prof /\ row.obs = starts[o].obs
    BY <1>0, <2>1, FieldTypes DEF StartRow
  <2>3. SaveStop(c) /\ SaveStart(c, row, NoCall) /\ Leave(c) BY <1>3 DEF RemoveAdvance
  <2> HIDE DEF row
  <2>4. /\ starts'[o] = row /\ (\A x \in Ops : x # o => starts'[x] = starts[x])
        /\ stops'[s].phase = "stopped" /\ stops'[s].start = o
        /\ \A t \in StopOps : t # s => stops'[t] = stops[t]
    BY <1>0, <1>1, <1>3, <2>1, <2>3 DEF SaveStart, SaveStop, StopRow
  <2>5. \A d \in Callers : lock'[d] = "none"
    <3>1. \A d \in Callers : d # c => lock[d] = "none" BY <1>0, <1>1, <2>1, SoleHolder
    <3> QED BY <1>0, <2>3, <3>1 DEF Leave
  <2>6. HolderCopyCurrent' /\ HolderStop' BY <2>5 DEF HolderCopyCurrent, HolderStop, Connected
  <2>7. RowInv' BY <1>0, <1>1, <2>1, <2>2, <2>4 DEF RecordInv, RowInv
  <2>8. OneActiveGeneration' BY <1>0, <2>1, <2>2, <2>4 DEF RecordInv, OneActiveGeneration, Accepted
  <2>9. StopsAgree'
    <3>1. \A t \in StopOps : t # s => stops[t].start # o
      BY <1>0, <1>1, <2>1, ConstantsAssumption DEF RecordInv, StopsAgree
    <3>2. \A t \in StopOps : stops'[t].start = stops[t].start BY <2>1, <2>4
    <3> QED BY <1>0, <1>1, <2>1, <2>2, <2>4, <3>1, <3>2 DEF RecordInv, RowInv, StopsAgree
  <2>10. Inherited' BY <1>0, <2>1, <2>2, <2>4 DEF RecordInv, Inherited, Accepted
  <2> QED BY <2>6, <2>7, <2>8, <2>9, <2>10 DEF JournalInv, RecordInv
<1>4. CASE ~checkpointStop(c) BY <1>0, <1>4, ReturnKeeps, FrameJournal DEF RemoveAdvance
<1> QED BY <1>2, <1>3, <1>4

--------------------------------------------------------------------------------
(* The theorems                                                             *)

LEMMA JournalBegin ==
    ASSUME JournalInv, BaseInv', NEW c \in Callers, Begin(c)
    PROVE  JournalInv'
<1>0. BaseInv BY DEF JournalInv
<1> PICK o \in Ops, g \in 1..MaxGeneration, p \in Profiles :
       \/ BeginStart(c, o, g, p)
       \/ BeginAccess(c, o, g, p)
       \/ \E s \in StopOps, boot \in 1..MaxUid : BeginStop(c, o, g, p, s, boot)
  BY DEF Begin
<1>1. \E held : lock' = [lock EXCEPT ![c] = held]
  BY DEF BeginStart, BeginAccess, BeginStop
<1>2. UNCHANGED journal /\ loc'[c].rec = NoStart /\ \A d \in Callers : d # c => loc'[d] = loc[d]
  <2>0. loc \in [Callers -> Locals] BY <1>0 DEF BaseInv, TypeOK
  <2>1. CASE BeginStart(c, o, g, p) BY <2>0, <2>1 DEF BeginStart, NoCall
  <2>2. CASE BeginAccess(c, o, g, p) BY <2>0, <2>2 DEF BeginAccess, NoCall
  <2>3. ASSUME NEW s \in StopOps, NEW boot \in 1..MaxUid, BeginStop(c, o, g, p, s, boot)
        PROVE  UNCHANGED journal /\ loc'[c].rec = NoStart /\ \A d \in Callers : d # c => loc'[d] = loc[d]
    BY <2>0, <2>3 DEF BeginStop, NoCall
  <2> QED BY <2>1, <2>2, <2>3
<1>3. KeepsCopies BY <1>0, <1>1, <1>2 DEF KeepsCopies, SameCopy, NoStart, BaseInv, TypeOK
<1> QED BY <1>2, <1>3, FrameJournal

LEMMA JournalFaults ==
    ASSUME JournalInv, BaseInv',
           \/ Crash \/ \E c \in Callers : Interrupt(c) \/ SessionLoss(c)
           \/ \E r \in late : Land(r) \/ Lose(r)
           \/ Cluster \/ UNCHANGED vars
    PROVE  JournalInv'
<1>0. BaseInv BY DEF JournalInv
<1>1. CASE Crash
  <2>1. KeepsCopies /\ UNCHANGED journal BY <1>1 DEF Crash, KeepsCopies
  <2> QED BY <2>1, FrameJournal
<1>2. ASSUME NEW c \in Callers, Interrupt(c) PROVE JournalInv'
  BY <1>0, <1>2, ReturnKeeps, FrameJournal DEF Interrupt
<1>3. ASSUME NEW c \in Callers, SessionLoss(c) PROVE JournalInv'
  <2>1. KeepsCopies /\ UNCHANGED journal
    BY <1>0, <1>3 DEF SessionLoss, KeepsCopies, SameCopy, BaseInv, TypeOK
  <2> QED BY <2>1, FrameJournal
<1>4. ASSUME NEW r \in late, Land(r) \/ Lose(r) PROVE JournalInv'
  BY <1>4, QuietKeeps, FrameJournal DEF Land, Lose
<1>5. CASE Cluster
  <2>1. UNCHANGED <<pc, lock, loc>> /\ UNCHANGED journal
    BY <1>5 DEF Cluster, PodReady, PodUnready, PodExit, PodGone, Evict, SetPod, ReplacePod,
       ReplaceService, ReplaceSecret, Migrate, NodeDown, NodeUp, Publish, RemoveInstallation
  <2> QED BY <2>1, QuietKeeps, FrameJournal
<1>6. CASE UNCHANGED vars BY <1>6, QuietKeeps, FrameJournal DEF vars
<1> QED BY <1>1, <1>2, <1>3, <1>4, <1>5, <1>6

LEMMA JournalNext ==
    ASSUME JournalInv, HolderBind, [Next]_vars
    PROVE  JournalInv'
<1>0. BaseInv BY DEF JournalInv
<1>1. BaseInv' BY <1>0, BaseNext
<1>2. ASSUME NEW c \in Callers, Proceed(c) PROVE JournalInv'
  <2>1. CASE AcceptInsert(c) BY <1>1, <2>1, JournalAcceptInsert
  <2>2. CASE Load(c) BY <1>1, <2>2, JournalLoad
  <2>3. CASE CheckpointProgress(c) BY <1>1, <2>3, JournalCheckpointProgress
  <2>4. CASE CheckpointObserved(c) BY <1>1, <2>4, JournalCheckpointObserved
  <2>5. CASE CheckpointRunning(c) BY <1>1, <2>5, JournalCheckpointRunning
  <2>6. CASE ReplayStop(c) BY <1>1, <2>6, JournalReplayStop
  <2>7. CASE acceptStop(c) BY <1>1, <2>7, JournalacceptStop
  <2>8. CASE CheckpointSealed(c) BY <1>1, <2>8, JournalCheckpointSealed
  <2>9. CASE RemoveAdvance(c) BY <1>1, <2>9, JournalRemoveAdvance
  <2>10. ASSUME KeepsCopies, UNCHANGED journal PROVE JournalInv' BY <1>1, <2>10, FrameJournal
  <2>11. CASE AcceptBind(c) BY <1>1, <2>11, JournalAcceptBind
  <2> QED BY <1>0, <1>2, <2>1, <2>2, <2>3, <2>4, <2>5, <2>6, <2>7, <2>8, <2>9, <2>10, <2>11, CallKeeps
     DEF Proceed
<1> QED BY <1>1, <1>2, JournalBegin, JournalFaults DEF Next

--------------------------------------------------------------------------------
(* What a call takes along: its target, its profile and the credential it saw *)

SameTarget(d) == loc'[d].op = loc[d].op /\ loc'[d].gen = loc[d].gen /\ loc'[d].prof = loc[d].prof

\* A step of one call leaves the others what they work with.
OthersStay(c) ==
    \A d \in Callers : d # c => /\ pc'[d] = pc[d] /\ lock'[d] = lock[d] /\ SameTarget(d)
                                /\ loc'[d].seen = loc[d].seen /\ loc'[d].rec = loc[d].rec

\* The call leaves, or goes on for the same profile; a credential it newly saw carries it.
CallMoved(c) ==
    \/ loc'[c] = NoCall /\ pc'[c] = "idle"
    \/ /\ SameTarget(c) /\ (pc'[c] = "accept_bind" => AcceptInspect(c))
       /\ \/ loc'[c].seen.sec \in {0, loc[c].seen.sec}
          \/ loc'[c].seen.sec = secret'.uid /\ loc[c].prof = secret'.prof
       /\ loc'[c].rec.phase # "none" => loc'[c].rec.prof = loc[c].prof

\* A copy is of a row with the profile the call presented (sameRecord).
ProfileInv == \A c \in Callers : loc[c].rec.phase # "none" => loc[c].rec.prof = loc[c].prof

LEMMA MovedReturn ==
    ASSUME BaseInv, NEW c \in Callers, Return(c)
    PROVE  OthersStay(c) /\ CallMoved(c)
  BY DEF BaseInv, TypeOK, Return, Leave, OthersStay, CallMoved, SameTarget

LEMMA MovedGoto ==
    ASSUME BaseInv, NEW c \in Callers, NEW label, NEW call, Goto(c, label),
           loc' = [loc EXCEPT ![c] = call], label = "accept_bind" => AcceptInspect(c),
           call.op = loc[c].op, call.gen = loc[c].gen, call.prof = loc[c].prof,
           \/ call.seen.sec \in {0, loc[c].seen.sec}
           \/ call.seen.sec = secret'.uid /\ loc[c].prof = secret'.prof,
           call.rec.phase # "none" => call.rec.prof = loc[c].prof
    PROVE  OthersStay(c) /\ CallMoved(c)
<1>1. loc'[c] = call /\ pc'[c] = label /\ \A d \in Callers : d # c => loc'[d] = loc[d] /\ pc'[d] = pc[d]
  BY DEF BaseInv, TypeOK, Goto
<1>2. lock' = lock BY DEF Goto
<1> QED BY <1>1, <1>2 DEF OthersStay, CallMoved, SameTarget

LEMMA MovedCheck ==
    ASSUME BaseInv, ProfileInv, NEW c \in Callers, NEW ok, NEW label, NEW seen, Check(c, ok, label, seen),
           label = "accept_bind" => AcceptInspect(c),
           ok => \/ seen.sec \in {0, loc[c].seen.sec}
                 \/ seen.sec = secret'.uid /\ loc[c].prof = secret'.prof
    PROVE  OthersStay(c) /\ CallMoved(c)
<1>1. CASE ok
  <2> DEFINE call == [loc[c] EXCEPT !.seen = seen]
  <2>1. Goto(c, label) /\ loc' = [loc EXCEPT ![c] = call] BY <1>1 DEF Check
  <2>2. /\ call.op = loc[c].op /\ call.gen = loc[c].gen /\ call.prof = loc[c].prof
        /\ call.seen = seen /\ call.rec = loc[c].rec
    BY FieldTypes DEF Locals
  <2> HIDE DEF call
  <2> QED BY <1>1, <2>1, <2>2, MovedGoto DEF ProfileInv
<1>2. CASE ~ok BY <1>2, MovedReturn DEF Check
<1> QED BY <1>1, <1>2

\* The steps that read: each keeps the credential it has seen, or sees a matching one.
LEMMA MovedReads ==
    ASSUME BaseInv, ProfileInv, NEW c \in Callers,
           \/ AcceptCheck(c) \/ AcceptInspect(c) \/ EnsurePod(c) \/ EnsureService(c)
           \/ EnsureSecretAndVolume(c) \/ ObservePod(c) \/ ObserveRest(c) \/ Certify(c)
           \/ RemoveNode(c) \/ RemovePod(c) \/ RemoveService(c) \/ RemoveSecretAndVolume(c)
    PROVE  OthersStay(c) /\ CallMoved(c)
<1> DEFINE seen == loc[c].seen
<1>0. /\ seen \in Seen /\ UNCHANGED secret
      /\ NoSeen.sec = 0 /\ \A u, st : [NoSeen EXCEPT !.pod = u, !.status = st].sec = 0
      /\ \A u : [NoSeen EXCEPT !.sec = u].sec = u
      /\ \A u : [seen EXCEPT !.svc = u].sec = seen.sec /\ [seen EXCEPT !.sec = u].sec = u
      /\ \A u, v : [seen EXCEPT !.svc = u, !.sec = v].sec = v
      /\ \A u, st : [seen EXCEPT !.pod = u, !.status = st].sec = seen.sec
  <2>1. seen \in Seen BY FieldTypes
  <2>2. UNCHANGED secret
    BY DEF AcceptCheck, AcceptInspect, EnsurePod, EnsureService, EnsureSecretAndVolume, ObservePod,
       ObserveRest, Certify, RemoveNode, RemovePod, RemoveService, RemoveSecretAndVolume, cluster
  <2> QED BY <2>1, <2>2 DEF Seen, NoSeen
<1>1. CASE AcceptCheck(c) BY <1>0, <1>1, MovedCheck DEF AcceptCheck
<1>2. CASE AcceptInspect(c)
  <2> DEFINE p == loc[c].prof
             saw == IF secretMatches(secret, p, 0) THEN [NoSeen EXCEPT !.sec = secret.uid] ELSE NoSeen
  <2>1. Check(c, claimed \in {NoProfile, p} /\ InspectVolume(NoOp, 0), "accept_bind", saw)
    BY <1>2 DEF AcceptInspect
  <2>2. saw.sec = 0 \/ (saw.sec = secret'.uid /\ p = secret'.prof)
    BY <1>0 DEF secretMatches
  <2> QED BY <1>2, <2>1, <2>2, MovedCheck
<1>3. CASE EnsurePod(c)
  <2> DEFINE saw == [NoSeen EXCEPT !.pod = pods[loc[c].op].uid, !.status = pods[loc[c].op].status]
  <2>1. \/ Check(c, loc[c].rec.obs.pod = 0, "ensure_svc", NoSeen)
        \/ Check(c, podMatches(pods[loc[c].op], loc[c].rec.obs.pod), "ensure_svc", saw)
    BY <1>3 DEF EnsurePod
  <2>2. saw.sec = 0 BY <1>0
  <2> HIDE DEF saw
  <2> QED BY <1>0, <2>1, <2>2, MovedCheck
<1>4. CASE EnsureService(c)
  <2> DEFINE saw == [seen EXCEPT !.svc = svcs[loc[c].op].uid]
  <2>1. \/ Check(c, loc[c].rec.obs.svc = 0 /\ seen.pod = 0, "ensure_rest", seen)
        \/ Check(c, serviceMatches(svcs[loc[c].op], loc[c].rec.obs.svc), "ensure_rest", saw)
    BY <1>4 DEF EnsureService
  <2>2. saw.sec = seen.sec BY <1>0
  <2> HIDE DEF saw
  <2> QED BY <2>1, <2>2, MovedCheck
<1>5. CASE EnsureSecretAndVolume(c)
  <2>1. CASE ~secret.live BY <1>0, <1>5, <2>1, MovedCheck DEF EnsureSecretAndVolume
  <2>2. CASE secret.live
    <3> DEFINE ok == secretMatches(secret, loc[c].prof, loc[c].rec.obs.sec)
                       /\ InspectVolume(loc[c].op, seen.pod) /\ claimed = loc[c].prof
               saw == [seen EXCEPT !.sec = secret.uid]
    <3>1. Check(c, ok, "checkpoint", saw) BY <1>5, <2>2 DEF EnsureSecretAndVolume
    <3>2. ok => saw.sec = secret'.uid /\ loc[c].prof = secret'.prof BY <1>0 DEF secretMatches
    <3> HIDE DEF ok, saw
    <3> QED BY <3>1, <3>2, MovedCheck
  <2> QED BY <2>1, <2>2
<1>6. CASE ObservePod(c)
  <2> DEFINE saw == [seen EXCEPT !.pod = pods[loc[c].op].uid, !.status = pods[loc[c].op].status]
  <2>1. Check(c, podMatches(pods[loc[c].op], loc[c].rec.obs.pod), "observe_rest", saw)
    BY <1>6 DEF ObservePod
  <2>2. saw.sec = seen.sec BY <1>0
  <2> HIDE DEF saw
  <2> QED BY <2>1, <2>2, MovedCheck
<1>7. CASE ObserveRest(c)
  <2> DEFINE ok == /\ serviceMatches(svcs[loc[c].op], loc[c].rec.obs.svc)
                   /\ secretMatches(secret, loc[c].prof, loc[c].rec.obs.sec)
                   /\ InspectVolume(loc[c].op, seen.pod) /\ claimed = loc[c].prof
             saw == [seen EXCEPT !.svc = svcs[loc[c].op].uid, !.sec = secret.uid]
  <2>1. Check(c, ok, AfterObservation(loc[c].aim), saw) BY <1>7 DEF ObserveRest
  <2>2. ok => saw.sec = secret'.uid /\ loc[c].prof = secret'.prof BY <1>0 DEF secretMatches
  <2>3. AfterObservation(loc[c].aim) # "accept_bind" BY DEF AfterObservation
  <2> HIDE DEF ok, saw
  <2> QED BY <2>1, <2>2, <2>3, MovedCheck
<1>8. CASE Certify(c) BY <1>0, <1>8, MovedCheck DEF Certify
<1>9. CASE RemoveNode(c) BY <1>0, <1>9, MovedCheck DEF RemoveNode
<1>10. CASE RemovePod(c)
  <2> DEFINE saw == [NoSeen EXCEPT !.pod = pods[loc[c].op].uid, !.status = pods[loc[c].op].status]
             stage == Stage(loc[c].prog)
  <2>1. \/ Check(c, stage >= 1, "remove_svc", NoSeen)
        \/ Check(c, stage = 1 /\ pods[loc[c].op].uid = loc[c].rec.obs.pod, "remove_svc", saw)
        \/ Check(c, stage < 2 /\ podMatches(pods[loc[c].op], loc[c].rec.obs.pod), "remove_svc", saw)
    BY <1>10 DEF RemovePod
  <2>2. saw.sec = 0 BY <1>0
  <2> HIDE DEF saw, stage
  <2> QED BY <1>0, <2>1, <2>2, MovedCheck
<1>11. CASE RemoveService(c)
  <2> DEFINE saw == [seen EXCEPT !.svc = svcs[loc[c].op].uid]
             stage == Stage(loc[c].prog)
  <2>1. \/ Check(c, stage >= 3, "remove_rest", seen)
        \/ Check(c, serviceMatches(svcs[loc[c].op], loc[c].rec.obs.svc), "remove_rest", saw)
    BY <1>11 DEF RemoveService
  <2>2. saw.sec = seen.sec BY <1>0
  <2> HIDE DEF saw, stage
  <2> QED BY <2>1, <2>2, MovedCheck
<1>12. CASE RemoveSecretAndVolume(c)
  <2> DEFINE ok == /\ InspectVolume(loc[c].op, loc[c].rec.obs.pod) /\ claimed = loc[c].prof
                   /\ secretMatches(secret, loc[c].prof, loc[c].rec.obs.sec)
  <2>1. Check(c, ok, "remove", seen) BY <1>12 DEF RemoveSecretAndVolume
  <2> HIDE DEF ok
  <2> QED BY <2>1, MovedCheck
<1> QED BY <1>1, <1>2, <1>3, <1>4, <1>5, <1>6, <1>7, <1>8, <1>9, <1>10, <1>11, <1>12

\* Taking or giving back the lock.
LEMMA MovedLock ==
    ASSUME BaseInv, ProfileInv, NEW c \in Callers, NEW label, NEW held, label # "accept_bind",
           pc' = [pc EXCEPT ![c] = label], lock' = [lock EXCEPT ![c] = held], UNCHANGED loc
    PROVE  OthersStay(c) /\ CallMoved(c)
  BY DEF BaseInv, TypeOK, OthersStay, CallMoved, SameTarget, ProfileInv

\* A step that writes the start and leaves, or goes on with a copy of what it wrote.
LEMMA MovedSave ==
    ASSUME BaseInv, NEW c \in Callers, NEW row, NEW mine, NEW label, SaveStart(c, row, mine),
           \/ Leave(c) /\ mine = NoCall
           \/ /\ Goto(c, label) /\ label # "accept_bind" /\ mine.seen = loc[c].seen
              /\ mine.op = loc[c].op /\ mine.gen = loc[c].gen /\ mine.prof = loc[c].prof
              /\ mine.rec.prof = loc[c].prof
    PROVE  OthersStay(c) /\ CallMoved(c)
<1>1. loc'[c] = mine BY DEF SaveStart
<1>2. \A d \in Callers : d # c => /\ SameTarget(d) /\ loc'[d].seen = loc[d].seen /\ loc'[d].rec = loc[d].rec
  <2> SUFFICES ASSUME NEW d \in Callers, d # c
               PROVE  SameTarget(d) /\ loc'[d].seen = loc[d].seen /\ loc'[d].rec = loc[d].rec
    OBVIOUS
  <2>1. loc'[d] = loc[d] \/ loc'[d] = [loc[d] EXCEPT !.fresh = FALSE] BY DEF SaveStart
  <2> QED BY <2>1, FieldTypes DEF SameTarget, Locals
<1>3. \A d \in Callers : d # c => pc'[d] = pc[d] /\ lock'[d] = lock[d]
  BY DEF BaseInv, TypeOK, Leave, Goto
<1>4. CASE Leave(c) /\ mine = NoCall
  BY <1>1, <1>2, <1>3, <1>4 DEF OthersStay, CallMoved, Leave, BaseInv, TypeOK
<1>5. CASE ~(Leave(c) /\ mine = NoCall)
  <2>1. pc'[c] = label BY <1>5 DEF Goto, BaseInv, TypeOK
  <2> QED BY <1>1, <1>2, <1>3, <1>5, <2>1 DEF OthersStay, CallMoved, SameTarget
<1> QED BY <1>4, <1>5

\* The steps that send a request, take the lock, load a copy or write the stop.
LEMMA MovedEffects ==
    ASSUME BaseInv, ProfileInv, NEW c \in Callers,
           \/ Authorize(c) \/ AcceptReplay(c) \/ AcceptRefuse(c) \/ AcquireLock(c) \/ Load(c) \/ ClaimVolume(c)
           \/ CreateSecret(c) \/ CreateService(c) \/ CreatePod(c) \/ Probe(c) \/ Grant(c) \/ ReplayStop(c)
           \/ Seal(c) \/ SealRefused(c) \/ CheckpointSealed(c) \/ DeletePod(c) \/ DeleteService(c)
    PROVE  OthersStay(c) /\ CallMoved(c)
<1>0. loc[c] \in Locals /\ loc[c].seen \in Seen /\ (loc[c].rec.phase # "none" => loc[c].rec.prof = loc[c].prof)
  BY FieldTypes DEF ProfileInv
<1>1. ASSUME Return(c) PROVE OthersStay(c) /\ CallMoved(c) BY <1>1, MovedReturn
<1>2. CASE Authorize(c)
  <2> DEFINE call == [loc[c] EXCEPT !.auth = installation]
             label == IF pc[c] = "authorize" THEN "load" ELSE "accept_check"
  <2>1. Return(c) \/ (Goto(c, label) /\ loc' = [loc EXCEPT ![c] = call]) BY <1>2 DEF Authorize
  <2>2. /\ call.op = loc[c].op /\ call.gen = loc[c].gen /\ call.prof = loc[c].prof
        /\ call.seen = loc[c].seen /\ call.rec = loc[c].rec /\ label # "accept_bind"
    BY <1>0 DEF Locals
  <2> HIDE DEF call, label
  <2> QED BY <1>0, <1>1, <2>1, <2>2, MovedGoto
<1>3. CASE AcceptReplay(c)
  <2>1. CASE Commit(c) BY <2>1, MovedLock DEF Commit
  <2> QED BY <1>1, <1>3, <2>1 DEF AcceptReplay
<1>4. CASE AcceptRefuse(c) \/ Grant(c) \/ SealRefused(c) \/ DeletePod(c) \/ DeleteService(c)
  BY <1>1, <1>4 DEF AcceptRefuse, Grant, SealRefused, DeletePod, DeleteService
<1>5. CASE AcquireLock(c)
  <2>1. CASE LockFree BY <1>5, <2>1, MovedLock DEF AcquireLock
  <2>2. CASE ~LockFree BY <1>1, <1>5, <2>2 DEF AcquireLock
  <2> QED BY <2>1, <2>2
<1>6. CASE Load(c)
  <2> DEFINE row == starts[loc[c].op]
             visit == Visit(loc[c].kind, row.phase)
             aim == CASE visit = "claim" -> "ensure"
                      [] visit = "stop" -> "stop"
                      [] OTHER -> "verify"
             call == [loc[c] EXCEPT !.rec = row, !.fresh = TRUE, !.aim = aim]
  <2>1. Return(c) \/ (sameRecord(row, loc[c]) /\ Goto(c, visit) /\ loc' = [loc EXCEPT ![c] = call])
    BY <1>6 DEF Load
  <2>2. visit # "accept_bind" BY DEF Visit
  <2>3. /\ call.op = loc[c].op /\ call.gen = loc[c].gen /\ call.prof = loc[c].prof
        /\ call.seen = loc[c].seen /\ call.rec = row
    BY <1>0 DEF Locals
  <2>4. sameRecord(row, loc[c]) => row.prof = loc[c].prof BY DEF sameRecord
  <2> HIDE DEF call, visit, row
  <2> QED BY <1>1, <2>1, <2>2, <2>3, <2>4, MovedGoto
<1>7. CASE ClaimVolume(c)
  <2>1. Return(c) \/ (Goto(c, "ensure_pod") /\ UNCHANGED loc) BY <1>7 DEF ClaimVolume
  <2>2. ASSUME Goto(c, "ensure_pod") /\ UNCHANGED loc PROVE OthersStay(c) /\ CallMoved(c)
    BY <2>2 DEF Goto, BaseInv, TypeOK, OthersStay, CallMoved, SameTarget, ProfileInv
  <2> QED BY <1>1, <2>1, <2>2
<1>8. CASE CreateSecret(c)
  <2> DEFINE seen == [loc[c].seen EXCEPT !.sec = secret.uid + 1]
             call == [loc[c] EXCEPT !.seen = seen]
  <2>1. Return(c) \/ (/\ Goto(c, "checkpoint") /\ loc' = [loc EXCEPT ![c] = call]
                      /\ secret' = NewSecret(secret, loc[c].prof))
    BY <1>8 DEF CreateSecret
  <2>2. /\ call.op = loc[c].op /\ call.gen = loc[c].gen /\ call.prof = loc[c].prof
        /\ call.seen = seen /\ call.rec = loc[c].rec /\ seen.sec = secret.uid + 1
    BY <1>0 DEF Locals, Seen
  <2>3. NewSecret(secret, loc[c].prof).uid = secret.uid + 1 /\ NewSecret(secret, loc[c].prof).prof = loc[c].prof
    BY DEF NewSecret
  <2> HIDE DEF call, seen
  <2> QED BY <1>0, <1>1, <2>1, <2>2, <2>3, MovedGoto
<1>9. CASE CreateService(c)
  <2> DEFINE seen == [loc[c].seen EXCEPT !.svc = svcs[loc[c].op].uid + 1]
             call == [loc[c] EXCEPT !.seen = seen]
  <2>1. Return(c) \/ (Goto(c, "checkpoint") /\ loc' = [loc EXCEPT ![c] = call]) BY <1>9 DEF CreateService
  <2>2. /\ call.op = loc[c].op /\ call.gen = loc[c].gen /\ call.prof = loc[c].prof
        /\ call.seen = seen /\ call.rec = loc[c].rec /\ seen.sec = loc[c].seen.sec
    BY <1>0 DEF Locals, Seen
  <2> HIDE DEF call, seen
  <2> QED BY <1>0, <1>1, <2>1, <2>2, MovedGoto
<1>10. CASE CreatePod(c)
  <2> DEFINE seen == [loc[c].seen EXCEPT !.pod = pods[loc[c].op].uid + 1, !.status = "pending"]
             call == [loc[c] EXCEPT !.seen = seen]
  <2>1. Return(c) \/ (Goto(c, "checkpoint") /\ loc' = [loc EXCEPT ![c] = call])
    BY ZenonT(60), <1>10 DEF CreatePod
  <2>2. /\ call.op = loc[c].op /\ call.gen = loc[c].gen /\ call.prof = loc[c].prof
        /\ call.seen = seen /\ call.rec = loc[c].rec /\ seen.sec = loc[c].seen.sec
    BY <1>0 DEF Locals, Seen
  <2> HIDE DEF call, seen
  <2> QED BY <1>0, <1>1, <2>1, <2>2, MovedGoto
<1>11. CASE Probe(c)
  <2> DEFINE seen == [loc[c].seen EXCEPT !.boot = pods[loc[c].op].uid]
             call == [loc[c] EXCEPT !.seen = seen, !.aim = "verified"]
  <2>1. Return(c) \/ (Goto(c, "observe_pod") /\ loc' = [loc EXCEPT ![c] = call]) BY <1>11 DEF Probe
  <2>2. /\ call.op = loc[c].op /\ call.gen = loc[c].gen /\ call.prof = loc[c].prof
        /\ call.seen = seen /\ call.rec = loc[c].rec /\ seen.sec = loc[c].seen.sec
    BY <1>0 DEF Locals, Seen
  <2> HIDE DEF call, seen
  <2> QED BY <1>0, <1>1, <2>1, <2>2, MovedGoto
<1>12. CASE ReplayStop(c) \/ CheckpointSealed(c)
  <2> DEFINE call(prog) == [loc[c] EXCEPT !.prog = prog]
  <2>1. \/ Return(c)
        \/ \E prog, label : /\ Goto(c, label) /\ label # "accept_bind"
                            /\ loc' = [loc EXCEPT ![c] = call(prog)]
    <3>1. CASE ReplayStop(c) BY ZenonT(60), <3>1 DEF ReplayStop
    <3>2. CASE CheckpointSealed(c) BY ZenonT(60), <3>2 DEF CheckpointSealed
    <3> QED BY <1>12, <3>1, <3>2
  <2>2. \A prog : /\ call(prog).op = loc[c].op /\ call(prog).gen = loc[c].gen /\ call(prog).prof = loc[c].prof
                  /\ call(prog).seen = loc[c].seen /\ call(prog).rec = loc[c].rec
    BY <1>0 DEF Locals
  <2> HIDE DEF call
  <2> QED BY <1>0, <1>1, <2>1, <2>2, MovedGoto
<1>13. CASE Seal(c)
  <2> DEFINE call == [loc[c] EXCEPT !.aim = "sealed"]
  <2>1. Goto(c, "observe_pod") /\ loc' = [loc EXCEPT ![c] = call] BY <1>13 DEF Seal
  <2>2. /\ call.op = loc[c].op /\ call.gen = loc[c].gen /\ call.prof = loc[c].prof
        /\ call.seen = loc[c].seen /\ call.rec = loc[c].rec
    BY <1>0 DEF Locals
  <2> HIDE DEF call
  <2> QED BY <1>0, <2>1, <2>2, MovedGoto
<1> QED BY <1>2, <1>3, <1>4, <1>5, <1>6, <1>7, <1>8, <1>9, <1>10, <1>11, <1>12, <1>13

\* A start is written by the sole holder of the lock; its credential is none, or one that a
\* start of the same profile has recorded, or the one the writer has seen for its profile.
RowMoved(c) ==
    \/ UNCHANGED starts
    \/ /\ Connected(c) /\ loc[c].kind \in {"start", "stop"} /\ pc'[c] # "accept_bind"
       /\ \A x \in Ops : x # loc[c].op => starts'[x] = starts[x]
       /\ LET row == starts'[loc[c].op] IN
          \/ row.obs.sec = 0
          \/ \E x \in Ops : row.obs.sec = starts[x].obs.sec /\ row.prof = starts[x].prof
          \/ row.obs.sec = loc[c].seen.sec /\ row.prof = loc[c].prof

LEMMA NewStartMoves ==
    ASSUME BaseInv, ProfileInv, NEW c \in Callers, Commit(c), NEW sec, Connected(c),
           loc[c].kind = "start", loc[c].op \in Ops,
           starts' = [starts EXCEPT ![loc[c].op] = NewStart(c, sec)],
           \/ sec = 0 \/ sec = loc[c].seen.sec
           \/ \E x \in Ops : sec = starts[x].obs.sec /\ loc[c].prof = starts[x].prof
    PROVE  OthersStay(c) /\ CallMoved(c) /\ RowMoved(c)
<1>1. OthersStay(c) /\ CallMoved(c) BY MovedLock DEF Commit
<1>2. pc'[c] = "lock" BY DEF Commit, BaseInv, TypeOK
<1>3. /\ starts'[loc[c].op].obs.sec = sec /\ starts'[loc[c].op].prof = loc[c].prof
      /\ \A x \in Ops : x # loc[c].op => starts'[x] = starts[x]
  BY DEF BaseInv, TypeOK, NewStart, NoObservation
<1> QED BY <1>1, <1>2, <1>3 DEF RowMoved

LEMMA MovedAccepts ==
    ASSUME BaseInv, ProfileInv, NEW c \in Callers, AcceptInsert(c) \/ AcceptBind(c)
    PROVE  OthersStay(c) /\ CallMoved(c) /\ RowMoved(c)
<1>1. loc[c].op \in Ops /\ loc[c].kind = "start"
  BY FieldTypes DEF AcceptInsert, AcceptBind, CallShape
<1>2. CASE AcceptInsert(c)
  <2>0. Connected(c) /\ Commit(c) BY <1>2 DEF AcceptInsert
  <2>1. CASE starts' = [starts EXCEPT ![loc[c].op] = NewStart(c, 0)] BY <1>1, <2>0, <2>1, NewStartMoves
  <2>2. ASSUME NEW x \in Ops, Inherits(c, x),
               starts' = [starts EXCEPT ![loc[c].op] = NewStart(c, starts[x].obs.sec)]
        PROVE  OthersStay(c) /\ CallMoved(c) /\ RowMoved(c)
    BY <1>1, <2>0, <2>2, NewStartMoves DEF Inherits
  <2> QED BY <1>2, <2>1, <2>2 DEF AcceptInsert
<1>3. CASE AcceptBind(c)
  <2>1. CASE Connected(c) BY <1>1, <1>3, <2>1, NewStartMoves DEF AcceptBind
  <2>2. CASE ~Connected(c) BY <1>3, <2>2, MovedReturn DEF AcceptBind, RowMoved
  <2> QED BY <2>1, <2>2
<1> QED BY <1>2, <1>3

\* A checkpoint records what the call saw, under the profile of its copy.
LEMMA CheckpointMoves ==
    ASSUME BaseInv, ProfileInv, NEW c \in Callers, loc[c].kind \in {"start", "stop"}, loc[c].op \in Ops, Connected(c),
           NEW row, NEW mine, NEW label, SaveStart(c, row, mine), row.prof = loc[c].prof,
           \/ row.obs.sec = loc[c].seen.sec
           \/ \E x \in Ops : row.obs.sec = starts[x].obs.sec /\ row.prof = starts[x].prof,
           \/ Leave(c) /\ mine = NoCall
           \/ /\ Goto(c, label) /\ label # "accept_bind" /\ mine.seen = loc[c].seen
              /\ mine.op = loc[c].op /\ mine.gen = loc[c].gen /\ mine.prof = loc[c].prof
              /\ mine.rec.prof = loc[c].prof
    PROVE  OthersStay(c) /\ CallMoved(c) /\ RowMoved(c)
<1>1. OthersStay(c) /\ CallMoved(c) BY MovedSave
<1>2. pc'[c] # "accept_bind" BY DEF Leave, Goto, BaseInv, TypeOK
<1>3. starts'[loc[c].op] = row /\ \A x \in Ops : x # loc[c].op => starts'[x] = starts[x]
  BY DEF BaseInv, TypeOK, SaveStart
<1> QED BY <1>1, <1>2, <1>3 DEF RowMoved

LEMMA MovedCheckpoints ==
    ASSUME BaseInv, ProfileInv, NEW c \in Callers,
           CheckpointProgress(c) \/ CheckpointObserved(c) \/ CheckpointRunning(c)
    PROVE  OthersStay(c) /\ CallMoved(c) /\ RowMoved(c)
<1> DEFINE seen == loc[c].seen
           r == loc[c].rec
<1>0. /\ loc[c] \in Locals /\ r \in StartRow /\ loc[c].op \in Ops /\ loc[c].kind = "start"
      /\ r.prof = loc[c].prof
  BY FieldTypes DEF CheckpointProgress, CheckpointObserved, CheckpointRunning, CallShape, ProfileInv
<1>1. ASSUME UNCHANGED starts, Return(c) PROVE OthersStay(c) /\ CallMoved(c) /\ RowMoved(c)
  BY <1>1, MovedReturn DEF RowMoved
<1>2. \A obs : /\ Launching(r, obs).prof = r.prof /\ Launching(r, obs).obs = obs
               /\ Running(r, obs).prof = r.prof /\ Running(r, obs).obs = obs
  BY <1>0 DEF Launching, Running, StartRow
<1>3. Progress(seen).sec = seen.sec /\ Observed(seen).sec = seen.sec BY DEF Progress, Observed
<1>4. \A row, aim : /\ [loc[c] EXCEPT !.rec = row].op = loc[c].op /\ [loc[c] EXCEPT !.rec = row].gen = loc[c].gen
                    /\ [loc[c] EXCEPT !.rec = row].prof = loc[c].prof /\ [loc[c] EXCEPT !.rec = row].seen = seen
                    /\ [loc[c] EXCEPT !.rec = row].rec = row
                    /\ [loc[c] EXCEPT !.rec = row, !.aim = aim].op = loc[c].op
                    /\ [loc[c] EXCEPT !.rec = row, !.aim = aim].gen = loc[c].gen
                    /\ [loc[c] EXCEPT !.rec = row, !.aim = aim].prof = loc[c].prof
                    /\ [loc[c] EXCEPT !.rec = row, !.aim = aim].seen = seen
                    /\ [loc[c] EXCEPT !.rec = row, !.aim = aim].rec = row
  BY <1>0 DEF Locals
<1>5. CASE CheckpointProgress(c)
  <2> DEFINE row == Launching(r, Progress(seen))
             mine == [loc[c] EXCEPT !.rec = row]
             label == IF Complete(seen) THEN "observe_pod" ELSE "create"
  <2>1. \/ UNCHANGED starts /\ Return(c)
        \/ Connected(c) /\ SaveStart(c, row, mine) /\ Goto(c, label)
    BY <1>5 DEF CheckpointProgress, checkpoint
  <2>2. /\ row.prof = loc[c].prof /\ row.obs.sec = seen.sec /\ label # "accept_bind"
        /\ mine.op = loc[c].op /\ mine.gen = loc[c].gen /\ mine.prof = loc[c].prof
        /\ mine.seen = seen /\ mine.rec = row
    BY <1>0, <1>2, <1>3, <1>4
  <2> HIDE DEF row, mine, label
  <2> QED BY <1>0, <1>1, <2>1, <2>2, CheckpointMoves
<1>6. CASE CheckpointObserved(c)
  <2> DEFINE row == Launching(r, Observed(seen))
             mine == [loc[c] EXCEPT !.rec = row, !.aim = "verify"]
  <2>1. \/ UNCHANGED starts /\ Return(c)
        \/ Connected(c) /\ SaveStart(c, row, mine) /\ Goto(c, "observe_pod")
        \/ Connected(c) /\ SaveStart(c, row, NoCall) /\ Leave(c)
    BY <1>6 DEF CheckpointObserved, checkpoint
  <2>2. /\ row.prof = loc[c].prof /\ row.obs.sec = seen.sec
        /\ mine.op = loc[c].op /\ mine.gen = loc[c].gen /\ mine.prof = loc[c].prof
        /\ mine.seen = seen /\ mine.rec = row
    BY <1>0, <1>2, <1>3, <1>4
  <2> HIDE DEF row, mine
  <2> QED BY <1>0, <1>1, <2>1, <2>2, CheckpointMoves
<1>7. CASE CheckpointRunning(c)
  <2> DEFINE row == Running(r, Observed(seen))
  <2>1. \/ UNCHANGED starts /\ Return(c)
        \/ Connected(c) /\ SaveStart(c, row, NoCall) /\ Leave(c)
    BY <1>7 DEF CheckpointRunning, checkpoint
  <2>2. row.prof = loc[c].prof /\ row.obs.sec = seen.sec BY <1>0, <1>2, <1>3
  <2> HIDE DEF row
  <2> QED BY <1>0, <1>1, <2>1, <2>2, CheckpointMoves
<1> QED BY <1>5, <1>6, <1>7

\* Accepting and finishing a stop write the holder's copy back, which is the row.
LEMMA MovedStops ==
    ASSUME JournalInv, ProfileInv, NEW c \in Callers, acceptStop(c) \/ RemoveAdvance(c)
    PROVE  OthersStay(c) /\ CallMoved(c) /\ RowMoved(c)
<1> DEFINE r == loc[c].rec
<1>0. /\ BaseInv /\ loc[c] \in Locals /\ r \in StartRow /\ loc[c].op \in Ops /\ loc[c].kind = "stop"
      /\ r.prof = loc[c].prof /\ (Connected(c) => r = starts[loc[c].op])
  BY FieldTypes DEF JournalInv, acceptStop, RemoveAdvance, CallShape, ProfileInv, HolderCopyCurrent
<1>1. ASSUME UNCHANGED starts, Return(c) PROVE OthersStay(c) /\ CallMoved(c) /\ RowMoved(c)
  BY <1>0, <1>1, MovedReturn DEF RowMoved
<1>2. \A phase : [r EXCEPT !.phase = phase].prof = r.prof /\ [r EXCEPT !.phase = phase].obs = r.obs
  BY <1>0 DEF StartRow
<1>3. CASE acceptStop(c)
  <2> DEFINE row == [r EXCEPT !.phase = "stopping"]
             mine == [loc[c] EXCEPT !.rec = row, !.prog = "accepted"]
  <2>1. \/ UNCHANGED starts /\ Return(c)
        \/ Connected(c) /\ SaveStart(c, row, mine) /\ Goto(c, "observe_pod")
    BY <1>3 DEF acceptStop, journal
  <2>2. /\ mine.op = loc[c].op /\ mine.gen = loc[c].gen /\ mine.prof = loc[c].prof
        /\ mine.seen = loc[c].seen /\ mine.rec = row
    BY <1>0 DEF Locals
  <2>3. row.prof = r.prof /\ row.obs = r.obs BY <1>2
  <2> HIDE DEF row, mine
  <2> QED BY <1>0, <1>1, <2>1, <2>2, <2>3, CheckpointMoves
<1>4. CASE RemoveAdvance(c)
  <2> DEFINE row == [r EXCEPT !.phase = "stopped"]
             mine == [loc[c] EXCEPT !.prog = NextStop(loc[c].prog)]
  <2>1. \/ UNCHANGED starts /\ Return(c)
        \/ Connected(c) /\ SaveStart(c, row, NoCall) /\ Leave(c)
        \/ UNCHANGED starts /\ Goto(c, "remove") /\ loc' = [loc EXCEPT ![c] = mine]
    BY <1>4 DEF RemoveAdvance, checkpointStop, journal
  <2>2. /\ mine.op = loc[c].op /\ mine.gen = loc[c].gen /\ mine.prof = loc[c].prof
        /\ mine.seen = loc[c].seen /\ mine.rec = r
    BY <1>0 DEF Locals
  <2>3. row.prof = r.prof /\ row.obs = r.obs BY <1>2
  <2> HIDE DEF row, mine
  <2>4. ASSUME Connected(c) /\ SaveStart(c, row, NoCall) /\ Leave(c)
        PROVE  OthersStay(c) /\ CallMoved(c) /\ RowMoved(c)
    BY <1>0, <2>3, <2>4, CheckpointMoves
  <2>5. ASSUME UNCHANGED starts /\ Goto(c, "remove") /\ loc' = [loc EXCEPT ![c] = mine]
        PROVE  OthersStay(c) /\ CallMoved(c) /\ RowMoved(c)
    BY <1>0, <2>2, <2>5, MovedGoto DEF RowMoved
  <2> QED BY <1>1, <2>1, <2>4, <2>5
<1> QED BY <1>3, <1>4

LEMMA MovedProceed ==
    ASSUME JournalInv, ProfileInv, NEW c \in Callers, Proceed(c)
    PROVE  OthersStay(c) /\ CallMoved(c) /\ RowMoved(c)
<1>0. BaseInv BY DEF JournalInv
<1>1. CASE \/ AcceptCheck(c) \/ AcceptInspect(c) \/ EnsurePod(c) \/ EnsureService(c)
           \/ EnsureSecretAndVolume(c) \/ ObservePod(c) \/ ObserveRest(c) \/ Certify(c)
           \/ RemoveNode(c) \/ RemovePod(c) \/ RemoveService(c) \/ RemoveSecretAndVolume(c)
  <2>1. UNCHANGED starts
    BY <1>1 DEF AcceptCheck, AcceptInspect, EnsurePod, EnsureService, EnsureSecretAndVolume, ObservePod,
       ObserveRest, Certify, RemoveNode, RemovePod, RemoveService, RemoveSecretAndVolume, journal
  <2> QED BY <1>0, <1>1, <2>1, MovedReads DEF RowMoved
<1>2. CASE \/ Authorize(c) \/ AcceptReplay(c) \/ AcceptRefuse(c) \/ AcquireLock(c) \/ Load(c) \/ ClaimVolume(c)
           \/ CreateSecret(c) \/ CreateService(c) \/ CreatePod(c) \/ Probe(c) \/ Grant(c) \/ ReplayStop(c)
           \/ Seal(c) \/ SealRefused(c) \/ CheckpointSealed(c) \/ DeletePod(c) \/ DeleteService(c)
  <2>1. UNCHANGED starts
    BY <1>2 DEF Authorize, AcceptReplay, AcceptRefuse, AcquireLock, Load, ClaimVolume, CreateSecret,
       CreateService, CreatePod, Probe, Grant, ReplayStop, Seal, SealRefused, CheckpointSealed,
       DeletePod, DeleteService, journal
  <2> QED BY <1>0, <1>2, <2>1, MovedEffects DEF RowMoved
<1> QED BY <1>0, <1>1, <1>2, MovedAccepts, MovedCheckpoints, MovedStops DEF Proceed

--------------------------------------------------------------------------------
(* Credentials and profiles                                                 *)

\* The credential with this UID is the instance's, is recorded, or was seen by a call,
\* with this profile.
Knows(u, p) ==
    \/ u = secret.uid /\ p = secret.prof
    \/ \E o \in Ops : starts[o].obs.sec = u /\ starts[o].prof = p
    \/ \E c \in Callers : loc[c].seen.sec = u /\ loc[c].prof = p

\* A credential belongs to one profile, and none is known before it is made.
KnownInv ==
    \A u \in Nat \ {0}, p, q \in Profiles \cup {NoProfile} :
        /\ Knows(u, p) => u <= secret.uid
        /\ Knows(u, p) /\ Knows(u, q) => p = q

SideInv == HolderBind /\ ProfileInv /\ KnownInv

LEMMA InitSide == Init => SideInv
<1> SUFFICES ASSUME Init PROVE SideInv OBVIOUS
<1>1. HolderBind /\ ProfileInv
  BY DEF Init, HolderBind, ProfileInv, Connected, NoCall, NoStart
<1>2. \A u \in Nat \ {0} : \A p : ~Knows(u, p)
  BY DEF Init, Knows, NoCall, NoSeen, NoStart, NoObservation, NoSecret
<1> QED BY <1>1, <1>2 DEF SideInv, KnownInv

\* A Secret is made under a fresh UID or keeps its UID and profile.
SecretMoved ==
    \/ secret'.uid = secret.uid /\ secret'.prof = secret.prof
    \/ secret'.uid > secret.uid

LEMMA SecretMoves ==
    ASSUME BaseInv, [Next]_vars
    PROVE  SecretMoved
<1>0. secret \in Secret /\ secret.uid \in Nat BY ConstantsAssumption DEF BaseInv, TypeOK, Secret
<1>1. ASSUME UNCHANGED secret PROVE SecretMoved BY <1>1 DEF SecretMoved
<1>2. ASSUME NEW p, secret' = NewSecret(secret, p) PROVE SecretMoved
  BY <1>0, <1>2 DEF NewSecret, SecretMoved
<1>3. ASSUME secret' = [secret EXCEPT !.live = FALSE] PROVE SecretMoved
  BY <1>0, <1>3 DEF Secret, SecretMoved
<1>4. ASSUME NEW c \in Callers, Begin(c) \/ Proceed(c) \/ Interrupt(c) \/ SessionLoss(c)
      PROVE  UNCHANGED secret \/ \E p : secret' = NewSecret(secret, p)
  <2>1. CASE Begin(c) BY <2>1, ZenonT(60) DEF Begin, BeginStart, BeginAccess, BeginStop, cluster
  <2>2. CASE CreateSecret(c) BY <2>2 DEF CreateSecret
  <2>3. CASE Interrupt(c) \/ SessionLoss(c) BY <2>3 DEF Interrupt, SessionLoss, cluster
  <2>4. CASE Proceed(c) /\ ~CreateSecret(c)
    BY <2>4 DEF Proceed, Authorize, AcceptCheck, AcceptReplay, AcceptInsert, AcceptInspect, AcceptBind,
       AcceptRefuse, AcquireLock, Load, ClaimVolume, EnsurePod, EnsureService, EnsureSecretAndVolume,
       CheckpointProgress, CreateService, CreatePod, ObservePod, ObserveRest, CheckpointObserved, Probe,
       CheckpointRunning, Certify, Grant, ReplayStop, acceptStop, Seal, SealRefused, CheckpointSealed,
       RemoveNode, RemovePod, RemoveService, RemoveSecretAndVolume, RemoveAdvance, DeletePod,
       DeleteService, cluster
  <2> QED BY <1>4, <2>1, <2>2, <2>3, <2>4
<1>5. CASE Crash BY <1>1, <1>5 DEF Crash
<1>6. ASSUME NEW r \in late, Land(r) \/ Lose(r) PROVE UNCHANGED secret \/ \E p : secret' = NewSecret(secret, p)
  BY <1>6 DEF Land, Lose
<1>7. CASE Cluster
  <2>1. \/ UNCHANGED secret \/ secret' = [secret EXCEPT !.live = FALSE]
        \/ \E p : secret' = NewSecret(secret, p)
    BY <1>7 DEF Cluster, PodReady, PodUnready, PodExit, PodGone, Evict, SetPod, ReplacePod,
       ReplaceService, ReplaceSecret, Migrate, NodeDown, NodeUp, Publish, RemoveInstallation, cluster
  <2> QED BY <1>1, <1>2, <1>3, <2>1
<1>8. CASE UNCHANGED vars BY <1>1, <1>8 DEF vars, cluster
<1> QED BY <1>1, <1>2, <1>4, <1>5, <1>6, <1>7, <1>8 DEF Next

\* What is known after the step was known before, or is the Secret as it is now.
LEMMA KnownFrame ==
    ASSUME BaseInv, BaseInv', KnownInv, SecretMoved,
           \A o \in Ops : \/ starts'[o].obs.sec = 0
                          \/ Knows(starts'[o].obs.sec, starts'[o].prof),
           \A c \in Callers : \/ loc'[c].seen.sec = 0
                              \/ Knows(loc'[c].seen.sec, loc'[c].prof)
                              \/ loc'[c].seen.sec = secret'.uid /\ loc'[c].prof = secret'.prof
    PROVE  KnownInv'
<1>1. /\ secret.uid \in Nat /\ secret'.uid \in Nat
      /\ secret'.prof \in Profiles \cup {NoProfile}
  BY ConstantsAssumption DEF BaseInv, TypeOK, Secret
<1> SUFFICES ASSUME NEW u \in Nat \ {0}, NEW p \in Profiles \cup {NoProfile}, NEW q \in Profiles \cup {NoProfile}
             PROVE  /\ Knows(u, p)' => u <= secret'.uid
                    /\ Knows(u, p)' /\ Knows(u, q)' => p = q
  BY DEF KnownInv
<1>2. ASSUME NEW x \in Profiles \cup {NoProfile}, Knows(u, x)'
      PROVE  Knows(u, x) \/ (u = secret'.uid /\ x = secret'.prof)
  BY <1>2 DEF Knows
<1>3. \A x \in Profiles \cup {NoProfile} : Knows(u, x) => u <= secret.uid BY DEF KnownInv
<1>4. Knows(u, p) /\ Knows(u, q) => p = q BY DEF KnownInv
<1>5. CASE secret'.uid = secret.uid /\ secret'.prof = secret.prof
  <2>1. u = secret'.uid => Knows(u, secret'.prof) BY <1>5 DEF Knows
  <2> QED BY <1>1, <1>2, <1>3, <1>4, <1>5, <2>1
<1>6. CASE secret'.uid > secret.uid BY <1>1, <1>2, <1>3, <1>4, <1>6
<1> QED BY <1>5, <1>6 DEF SecretMoved

LEMMA SideProceed ==
    ASSUME JournalInv, BaseInv', SideInv, SecretMoved, NEW c \in Callers, Proceed(c)
    PROVE  SideInv'
<1>0. BaseInv /\ HolderBind /\ ProfileInv /\ KnownInv BY DEF JournalInv, SideInv
<1>1. OthersStay(c) /\ CallMoved(c) /\ RowMoved(c) BY <1>0, MovedProceed
<1>2. ProfileInv'
  BY <1>0, <1>1 DEF OthersStay, CallMoved, ProfileInv, SameTarget, NoCall, NoStart
<1>3. HolderBind'
  <2> SUFFICES ASSUME NEW d \in Callers, lock'[d] # "none", pc'[d] = "accept_bind"
               PROVE  Binds(loc[d])'
    BY DEF HolderBind, Connected
  <2>1. CASE UNCHANGED starts
    <3>1. ASSUME Binds(loc[d]), SameTarget(d) PROVE Binds(loc[d])'
      BY <2>1, <3>1 DEF Binds, SameTarget, Follows, Latest, Accepted
    <3>2. CASE d = c
      <4>1. AcceptInspect(c) /\ SameTarget(c) BY <1>1, <3>2 DEF CallMoved
      <4>2. Binds(loc[c]) BY <4>1 DEF AcceptInspect, Inherits, Binds
      <4> QED BY <3>1, <3>2, <4>1, <4>2
    <3>3. CASE d # c
      <4>1. lock[d] # "none" /\ pc[d] = "accept_bind" /\ SameTarget(d) BY <1>1, <3>3 DEF OthersStay
      <4>2. Binds(loc[d]) BY <1>0, <4>1 DEF HolderBind, Connected
      <4> QED BY <3>1, <4>1, <4>2
    <3> QED BY <3>2, <3>3
  <2>2. CASE ~UNCHANGED starts
    <3>1. Connected(c) /\ loc[c].kind \in {"start", "stop"} /\ pc'[c] # "accept_bind"
      BY <1>1, <2>2 DEF RowMoved
    <3>2. d # c /\ lock[d] # "none" BY <1>1, <3>1 DEF OthersStay
    <3> QED BY <1>0, <3>1, <3>2, SoleHolder
  <2> QED BY <2>1, <2>2
<1>4. \A o \in Ops : starts'[o].obs.sec = 0 \/ Knows(starts'[o].obs.sec, starts'[o].prof)
  <2>1. \A o \in Ops : Knows(starts[o].obs.sec, starts[o].prof) BY DEF Knows
  <2>2. Knows(loc[c].seen.sec, loc[c].prof) BY DEF Knows
  <2>3. CASE UNCHANGED starts BY <2>1, <2>3
  <2>4. CASE ~UNCHANGED starts
    <3>1. /\ \A x \in Ops : x # loc[c].op => starts'[x] = starts[x]
          /\ LET row == starts'[loc[c].op] IN
             \/ row.obs.sec = 0
             \/ \E x \in Ops : row.obs.sec = starts[x].obs.sec /\ row.prof = starts[x].prof
             \/ row.obs.sec = loc[c].seen.sec /\ row.prof = loc[c].prof
      BY <1>1, <2>4 DEF RowMoved
    <3> QED BY <2>1, <2>2, <3>1
  <2> QED BY <2>3, <2>4
<1>5. \A d \in Callers : \/ loc'[d].seen.sec = 0
                         \/ Knows(loc'[d].seen.sec, loc'[d].prof)
                         \/ loc'[d].seen.sec = secret'.uid /\ loc'[d].prof = secret'.prof
  <2> SUFFICES ASSUME NEW d \in Callers
               PROVE  \/ loc'[d].seen.sec = 0
                      \/ Knows(loc'[d].seen.sec, loc'[d].prof)
                      \/ loc'[d].seen.sec = secret'.uid /\ loc'[d].prof = secret'.prof
    OBVIOUS
  <2>1. Knows(loc[d].seen.sec, loc[d].prof) BY DEF Knows
  <2>2. CASE d = c BY <1>1, <2>1, <2>2 DEF CallMoved, SameTarget, NoCall, NoSeen
  <2>3. CASE d # c BY <1>1, <2>1, <2>3 DEF OthersStay, SameTarget
  <2> QED BY <2>2, <2>3
<1>6. KnownInv' BY <1>0, <1>4, <1>5, KnownFrame
<1> QED BY <1>2, <1>3, <1>6 DEF SideInv

\* A call begins with nothing seen, or ends; otherwise it keeps what it has.
LEMMA SideQuiet ==
    ASSUME BaseInv, BaseInv', SideInv, SecretMoved, UNCHANGED starts,
           \A d \in Callers :
              \/ /\ lock'[d] \in {lock[d], "none"} /\ pc'[d] = pc[d] /\ loc'[d] = loc[d]
              \/ /\ loc'[d].seen.sec = 0 /\ loc'[d].rec.phase = "none" /\ pc'[d] # "accept_bind"
    PROVE  SideInv'
<1>0. HolderBind /\ ProfileInv /\ KnownInv BY DEF SideInv
<1>1. ProfileInv' BY <1>0 DEF ProfileInv
<1>2. HolderBind'
  <2> SUFFICES ASSUME NEW d \in Callers, lock'[d] # "none", pc'[d] = "accept_bind"
               PROVE  Binds(loc[d])'
    BY DEF HolderBind, Connected
  <2>2. lock[d] # "none" /\ pc[d] = "accept_bind" /\ loc'[d] = loc[d] OBVIOUS
  <2>3. Binds(loc[d]) BY <1>0, <2>2 DEF HolderBind, Connected
  <2> QED BY <2>2, <2>3 DEF Binds, Follows, Latest, Accepted
<1>3. \A o \in Ops : Knows(starts'[o].obs.sec, starts'[o].prof) BY DEF Knows
<1>4. \A d \in Callers : loc'[d].seen.sec = 0 \/ Knows(loc'[d].seen.sec, loc'[d].prof) BY DEF Knows
<1>5. KnownInv' BY <1>0, <1>3, <1>4, KnownFrame
<1> QED BY <1>1, <1>2, <1>5 DEF SideInv

LEMMA SideNext ==
    ASSUME JournalInv, SideInv, [Next]_vars
    PROVE  SideInv'
<1>0. BaseInv /\ BaseInv' /\ SecretMoved BY BaseNext, SecretMoves DEF JournalInv
<1> DEFINE Begins(d) == loc'[d].seen.sec = 0 /\ loc'[d].rec.phase = "none" /\ pc'[d] # "accept_bind"
           Stays(d) == lock'[d] \in {lock[d], "none"} /\ pc'[d] = pc[d] /\ loc'[d] = loc[d]
<1>1. ASSUME UNCHANGED starts, \A d \in Callers : Stays(d) \/ Begins(d) PROVE SideInv'
  BY <1>0, <1>1, SideQuiet
<1> HIDE DEF Begins, Stays
<1>2. ASSUME NEW c \in Callers, Begin(c) PROVE SideInv'
  <2> PICK o \in Ops, g \in 1..MaxGeneration, p \in Profiles :
         \/ BeginStart(c, o, g, p)
         \/ BeginAccess(c, o, g, p)
         \/ \E s \in StopOps, boot \in 1..MaxUid : BeginStop(c, o, g, p, s, boot)
    BY <1>2 DEF Begin
  <2>0. /\ pc \in [Callers -> Labels] /\ loc \in [Callers -> Locals]
        /\ lock \in [Callers -> {"none", "shared", "exclusive"}]
    BY <1>0 DEF BaseInv, TypeOK
  <2>1. /\ \E l : lock' = [lock EXCEPT ![c] = l]
        /\ \E l \in {"accept_authorize", "authorize"} : pc' = [pc EXCEPT ![c] = l]
        /\ UNCHANGED starts
    BY DEF BeginStart, BeginAccess, BeginStop, journal
  <2>2. loc'[c].seen = NoSeen /\ loc'[c].rec = NoStart /\ \A d \in Callers : d # c => loc'[d] = loc[d]
    <3>1. CASE BeginStart(c, o, g, p) BY <2>0, <3>1 DEF BeginStart, NoCall
    <3>2. CASE BeginAccess(c, o, g, p) BY <2>0, <3>2 DEF BeginAccess, NoCall
    <3>3. ASSUME NEW s \in StopOps, NEW boot \in 1..MaxUid, BeginStop(c, o, g, p, s, boot)
          PROVE  loc'[c].seen = NoSeen /\ loc'[c].rec = NoStart /\ \A d \in Callers : d # c => loc'[d] = loc[d]
      BY <2>0, <3>3 DEF BeginStop, NoCall
    <3> QED BY <3>1, <3>2, <3>3
  <2>3. Begins(c) BY <2>0, <2>1, <2>2 DEF NoSeen, NoStart, Begins
  <2>4. \A d \in Callers : d # c => Stays(d) BY <2>0, <2>1, <2>2 DEF Stays
  <2> QED BY <1>1, <2>1, <2>3, <2>4
<1>3. ASSUME NEW c \in Callers, Proceed(c) PROVE SideInv' BY <1>0, <1>3, SideProceed
<1>4. ASSUME NEW c \in Callers, Interrupt(c) PROVE SideInv'
  <2>1. Begins(c) /\ \A d \in Callers : d # c => Stays(d)
    BY <1>0, <1>4 DEF Interrupt, Return, Leave, NoCall, NoSeen, NoStart, BaseInv, TypeOK, Begins, Stays
  <2> QED BY <1>1, <1>4, <2>1 DEF Interrupt, journal
<1>5. ASSUME NEW c \in Callers, SessionLoss(c) PROVE SideInv'
  <2>1. \A d \in Callers : Stays(d) BY <1>0, <1>5 DEF SessionLoss, BaseInv, TypeOK, Stays
  <2> QED BY <1>1, <1>5, <2>1 DEF SessionLoss, journal
<1>6. CASE Crash
  <2>1. \A d \in Callers : Begins(d) BY <1>6 DEF Crash, NoCall, NoSeen, NoStart, Begins
  <2> QED BY <1>1, <1>6, <2>1 DEF Crash, journal
<1>7. ASSUME UNCHANGED <<pc, lock, loc>>, UNCHANGED starts PROVE SideInv'
  <2>1. \A d \in Callers : Stays(d) BY <1>7 DEF Stays
  <2> QED BY <1>1, <1>7, <2>1
<1>8. ASSUME NEW r \in late, Land(r) \/ Lose(r) PROVE SideInv' BY <1>7, <1>8 DEF Land, Lose, journal
<1>9. CASE Cluster
  <2>1. UNCHANGED <<pc, lock, loc>> /\ UNCHANGED starts
    BY <1>9 DEF Cluster, PodReady, PodUnready, PodExit, PodGone, Evict, SetPod, ReplacePod,
       ReplaceService, ReplaceSecret, Migrate, NodeDown, NodeUp, Publish, RemoveInstallation, journal
  <2> QED BY <1>7, <2>1
<1>10. CASE UNCHANGED vars BY <1>7, <1>10 DEF vars, journal
<1> QED BY <1>2, <1>3, <1>4, <1>5, <1>6, <1>8, <1>9, <1>10 DEF Next

LEMMA JournalAndSide == Spec => [](JournalInv /\ SideInv)
<1>1. Init => JournalInv /\ SideInv BY InitJournal, InitSide
<1>2. ASSUME JournalInv, SideInv, [Next]_vars PROVE JournalInv' /\ SideInv'
  BY <1>2, JournalNext, SideNext DEF SideInv
<1>3. (JournalInv /\ SideInv) /\ [Next]_vars => (JournalInv /\ SideInv)' BY <1>2
<1> QED BY <1>1, <1>3, PTL DEF Spec

\* Under the instance lock the journal cannot change under its reader, and its rows agree
\* with each other, with any number of callers and failures.
THEOREM JournalInvariant == Spec => []JournalInv
BY JournalAndSide, PTL

\* The revision checks of checkpoint and checkpointStop cannot fail while the session lives.
THEOREM CopiesAreCurrent == Spec => []HolderCopyCurrent
<1>1. JournalInv => HolderCopyCurrent BY DEF JournalInv
<1> QED BY <1>1, JournalInvariant, PTL

\* Accept admits one generation after the other, each over before the next begins.
THEOREM GenerationsFollow == Spec => []OneActiveGeneration
<1>1. JournalInv => OneActiveGeneration BY DEF JournalInv, RecordInv
<1> QED BY <1>1, JournalInvariant, PTL

\* A start has one stop, and both rows tell the same story (acceptStop, checkpointStop).
THEOREM StopsMatchStarts == Spec => []StopsAgree
<1>1. JournalInv => StopsAgree BY DEF JournalInv, RecordInv
<1> QED BY <1>1, JournalInvariant, PTL

\* Generations of one profile go on with one credential, and a credential never passes to
\* another profile, whichever Secrets are replaced, made late or left by a migration.
THEOREM OneCredential == Spec => []CredentialKept
<1>1. ASSUME JournalInv, SideInv PROVE CredentialKept
  <2>1. BaseInv /\ Inherited /\ KnownInv BY <1>1 DEF JournalInv, RecordInv, SideInv
  <2> SUFFICES ASSUME NEW o \in Accepted, NEW x \in Accepted, starts[x].prof # starts[o].prof,
                      starts[x].obs.sec = starts[o].obs.sec, starts[x].obs.sec # 0
               PROVE  FALSE
    BY <2>1 DEF CredentialKept, Inherited
  <2>2. Knows(starts[x].obs.sec, starts[x].prof) /\ Knows(starts[o].obs.sec, starts[o].prof)
    BY DEF Knows, Accepted
  <2>3. /\ starts[x].prof \in Profiles \cup {NoProfile} /\ starts[o].prof \in Profiles \cup {NoProfile}
        /\ starts[x].obs.sec \in Nat
    BY <2>1, ConstantsAssumption DEF BaseInv, TypeOK, StartRow, Observation, Accepted
  <2> QED BY <2>1, <2>2, <2>3 DEF KnownInv
<1>2. JournalInv /\ SideInv => CredentialKept BY <1>1
<1> QED BY <1>2, JournalAndSide, PTL

\* The shared lock keeps every stop out between the checks of Access and its answer.
THEOREM AccessIsSafe == Spec => []AccessWhileRunning
<1>1. ASSUME JournalInv PROVE AccessWhileRunning
  <2> SUFFICES ASSUME NEW c \in Callers, pc[c] = "grant", Connected(c)
               PROVE  starts[loc[c].op].phase = "running" /\ \A s \in StopOps : stops[s].start # loc[c].op
    BY DEF AccessWhileRunning
  <2>0. BaseInv /\ RecordInv /\ HolderCopyCurrent BY <1>1 DEF JournalInv
  <2>1. loc[c].op \in Ops /\ loc[c].rec.phase = "running"
    BY <2>0, FieldTypes DEF CallShape
  <2>2. starts[loc[c].op].phase = "running" BY <2>0, <2>1 DEF HolderCopyCurrent
  <2>3. \A s \in StopOps : stops[s].start # loc[c].op
    BY <2>0, <2>1, <2>2, ConstantsAssumption DEF RecordInv, RowInv, StopsAgree
  <2> QED BY <2>2, <2>3
<1>2. JournalInv => AccessWhileRunning BY <1>1
<1> QED BY <1>2, JournalInvariant, PTL
================================================================================
