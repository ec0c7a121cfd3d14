--------------------------- MODULE WorkspacePoolProofs ---------------------------
(***************************************************************************)
(* Why two instances never share a volume and no running instance loses    *)
(* its files, for any number of instances, claims and releases.  The pool  *)
(* lock makes reservations exclusive; what happens outside it, the cleaner *)
(* and the deletion of the PVC, is harmless only to the instances that did *)
(* not enter while a release was under way.                                *)
(***************************************************************************)
EXTENDS WorkspacePool, TLAPS

--------------------------------------------------------------------------------
(* The inductive invariant                                                  *)

LockedLabels == {"pick", "reuse", "ensure", "ref", "inspect", "commit"}
AllocLabels == {"lock"} \cup LockedLabels
CleanLabels == {"reset", "clean", "cleaning", "lock", "release"}
InstanceLabels == {"idle", "launch"} \cup AllocLabels
ReleaseLabels == {"idle", "precheck", "delete", "unbind"} \cup CleanLabels
Call == [claim : Claims \cup {None}, uid : 0..MaxUid, pv : Volume, tried : SUBSET Claims,
         pre : Instances \cup {None}, inst : Instances \cup {None}]

\* Where the calls can be, and the pool lock: whoever is past it holds it.
CallInv ==
    /\ pc \in [Procs -> InstanceLabels \cup ReleaseLabels] /\ loc \in [Procs -> Call]
    /\ \A i \in Instances : pc[i] \in InstanceLabels /\ (pc[i] \in LockedLabels => lock = i)
    /\ \A r \in Releases : pc[r] \in ReleaseLabels /\ (pc[r] = "release" => lock = r)

\* An allocator works on a claim that nobody else has, for an instance that does not run.
AllocInv ==
    \A i \in Instances :
        /\ pc[i] \in AllocLabels => rows[i].state \in {"none", "stopped"}
        /\ pc[i] = "reuse" => rows[i].state = "stopped"
        /\ pc[i] = "launch" => rows[i].state = "busy"
        /\ pc[i] \in {"ensure", "ref", "inspect", "commit"} => loc[i].claim \in Claims /\ Owners(loc[i].claim) \subseteq {i}
        /\ pc[i] = "commit" => loc[i].uid # 0

\* A release that has been validated removes the row of an instance that can do nothing.
ReleaseInv ==
    \A r \in Releases :
        /\ pc[r] # "idle" => loc[r].claim \in Claims
        /\ pc[r] # "release" => loc[r].inst = None
        /\ pc[r] = "release" =>
             /\ Owners(loc[r].claim) \subseteq {loc[r].inst} /\ workers[loc[r].claim] = {}
             /\ loc[r].inst # None => /\ rows[loc[r].inst].claim = loc[r].claim
                                      /\ Releasable(loc[r].inst) /\ pc[loc[r].inst] = "idle"

OwnerInv ==
    /\ \A i, j \in Instances : rows[i].claim # None /\ rows[i].claim = rows[j].claim => i = j
    /\ \A c \in Claims : \A i \in workers[c] : rows[i].claim = c /\ rows[i].state = "busy"

\* The PVC is the one that was reserved, and stays.
Reserved(pvc, uid) == pvc.uid = uid /\ ~pvc.doomed

\* A release has passed its first check of the claim, or has left its cleaner there.
Cleaning(c) ==
    \/ cleaner[c] # "absent"
    \/ \E r \in Releases : pc[r] \in CleanLabels /\ loc[r].claim = c
\* The files are gone, as far as the release knows.
Wiped(c) ==
    \/ cleaner[c] = "succeeded"
    \/ \E r \in Releases : pc[r] \in {"lock", "release"} /\ loc[r].claim = c

\* What no release does to an instance whose calls kept apart from all of them.
ApartInv ==
    \A i \in apart :
        /\ pc[i] \in AllocLabels => NoRelease
        /\ pc[i] = "commit" => Reserved(pvcs[loc[i].claim], loc[i].uid)
        /\ \A c \in Claims : rows[i].claim = c =>
             /\ Reserved(pvcs[c], rows[i].uid)
             /\ \A r \in Releases : pc[r] \in {"delete", "unbind"} => loc[r].claim # c
             /\ Cleaning(c) => rows[i].state # "busy"
             /\ Wiped(c) => data[c] # i

PoolInv == TypeOK /\ CallInv /\ AllocInv /\ ReleaseInv /\ OwnerInv /\ ApartInv

USE DEF LockedLabels, AllocLabels, CleanLabels, InstanceLabels, ReleaseLabels

--------------------------------------------------------------------------------
(* Facts used throughout                                                    *)

LEMMA Kinds ==
    /\ \A i \in Instances : i \in Procs /\ i # None /\ i \notin Releases
    /\ \A r \in Releases : r \in Procs /\ r # None /\ r \notin Instances
    /\ None \notin Claims /\ 0 \in 0..MaxUid /\ 1 \in 0..MaxUid
  BY PoolAssumption DEF Procs

LEMMA NoCallType == NoCall \in Call /\ NoCall.claim = None /\ NoCall.inst = None /\ NoCall.uid = 0
  BY Kinds DEF NoCall, Call, Volume, Available

LEMMA GotoMoves ==
    ASSUME CallInv, NEW p \in Procs, NEW label, NEW call, Goto(p, label, call)
    PROVE  /\ pc'[p] = label /\ loc'[p] = call
           /\ \A q \in Procs : q # p => pc'[q] = pc[q] /\ loc'[q] = loc[q]
           /\ label \in InstanceLabels \cup ReleaseLabels => pc' \in [Procs -> InstanceLabels \cup ReleaseLabels]
           /\ call \in Call => loc' \in [Procs -> Call]
  BY DEF CallInv, Goto

LEMMA RowFacts ==
    ASSUME TypeOK, NEW i \in Instances
    PROVE  /\ rows[i] \in Row /\ rows[i].uid \in 0..MaxUid
           /\ rows[i].state \in {"none", "busy", "stopped", "retained"}
           /\ rows[i].state = "none" => rows[i] = NoRow /\ rows[i].claim = None
           /\ rows[i].state # "none" => rows[i].claim \in Claims /\ rows[i].uid # 0
<1>1. rows[i] \in Row BY DEF TypeOK
<1>2. CASE rows[i] = NoRow BY <1>1, <1>2, PoolAssumption DEF NoRow
<1>3. CASE rows[i] \in [claim : Claims, uid : 1..MaxUid, state : {"busy", "stopped", "retained"}]
  BY <1>1, <1>3, PoolAssumption
<1> QED BY <1>1, <1>2, <1>3 DEF Row

--------------------------------------------------------------------------------
(* A call of an instance that leaves rows, Pods and volumes alone           *)

\* The reservation of a claim survives the step.
KeepsReserved == \A c \in Claims : \A uid \in 1..MaxUid : Reserved(pvcs[c], uid) => Reserved(pvcs'[c], uid)

LEMMA InstanceMove ==
    ASSUME PoolInv, TypeOK', NEW i \in Instances, NEW label \in InstanceLabels, NEW call \in Call,
           Goto(i, label, call), UNCHANGED <<rows, workers, cleaner, data>>, KeepsReserved,
           lock' = lock \/ lock \in {i, None}, label \in LockedLabels => lock' = i,
           pc[i] # "idle" \/ InstanceFree(i),
           label \in AllocLabels => rows[i].state \in {"none", "stopped"},
           label = "reuse" => rows[i].state = "stopped",
           label = "launch" => rows[i].state = "busy",
           label \in {"ensure", "ref", "inspect", "commit"} =>
               call.claim \in Claims /\ Owners(call.claim) \subseteq {i},
           label = "commit" => call.uid # 0,
           \A j \in apart' : j \in apart \/ (j = i /\ rows[i] = NoRow),
           i \in apart' => /\ label \in AllocLabels => NoRelease
                           /\ label = "commit" => Reserved(pvcs'[call.claim], call.uid)
    PROVE  PoolInv'
<1>0. TypeOK /\ CallInv /\ AllocInv /\ ReleaseInv /\ OwnerInv /\ ApartInv /\ i \in Procs BY Kinds DEF PoolInv
<1>1. /\ pc'[i] = label /\ loc'[i] = call
      /\ \A q \in Procs : q # i => pc'[q] = pc[q] /\ loc'[q] = loc[q]
      /\ pc' \in [Procs -> InstanceLabels \cup ReleaseLabels] /\ loc' \in [Procs -> Call]
  BY <1>0, GotoMoves
<1>2. \A r \in Releases : r # i /\ r \in Procs /\ pc'[r] = pc[r] /\ loc'[r] = loc[r] BY <1>1, Kinds
<1>3. CallInv' BY <1>0, <1>1, <1>2, Kinds DEF CallInv
<1>4. AllocInv' BY <1>0, <1>1, Kinds DEF AllocInv, Owners
<1>5. ReleaseInv'
  <2>1. \A r \in Releases : pc[r] = "release" => loc[r].inst # i
    BY <1>0, Kinds DEF ReleaseInv, InstanceFree
  <2>2. \A r \in Releases : loc[r].inst # None => loc[r].inst \in Instances BY <1>0, Kinds DEF CallInv, Call
  <2> QED BY <1>0, <1>1, <1>2, <2>1, <2>2, Kinds DEF ReleaseInv, Owners, Releasable
<1>6. OwnerInv' BY <1>0 DEF OwnerInv
<1>7. (NoRelease' <=> NoRelease) /\ \A c \in Claims : (Cleaning(c)' <=> Cleaning(c)) /\ (Wiped(c)' <=> Wiped(c))
  BY <1>2 DEF NoRelease, Cleaning, Wiped
<1>8. ApartInv'
  <2> SUFFICES ASSUME NEW j \in apart'
               PROVE  /\ pc'[j] \in AllocLabels => NoRelease'
                      /\ pc'[j] = "commit" => Reserved(pvcs'[loc'[j].claim], loc'[j].uid)
                      /\ \A c \in Claims : rows[j].claim = c =>
                           /\ Reserved(pvcs'[c], rows[j].uid)
                           /\ \A r \in Releases : pc'[r] \in {"delete", "unbind"} => loc'[r].claim # c
                           /\ Cleaning(c)' => rows[j].state # "busy"
                           /\ Wiped(c)' => data[c] # j
    BY DEF ApartInv
  <2>0. j \in Instances /\ j \in Procs BY Kinds DEF TypeOK
  <2>1. pc'[j] \in AllocLabels => NoRelease' BY <1>0, <1>1, <1>7, <2>0 DEF ApartInv
  <2>2. pc'[j] = "commit" => Reserved(pvcs'[loc'[j].claim], loc'[j].uid)
    <3>1. CASE j = i BY <1>1, <3>1
    <3>2. CASE j # i
      <4> SUFFICES ASSUME pc[j] = "commit" PROVE Reserved(pvcs'[loc[j].claim], loc[j].uid)
        BY <1>1, <2>0, <3>2
      <4>1. loc[j].claim \in Claims /\ loc[j].uid \in 1..MaxUid /\ Reserved(pvcs[loc[j].claim], loc[j].uid)
        BY <1>0, <2>0, <3>2, PoolAssumption DEF AllocInv, ApartInv, CallInv, Call
      <4> QED BY <4>1 DEF KeepsReserved
    <3> QED BY <3>1, <3>2
  <2>3. ASSUME NEW c \in Claims, rows[j].claim = c
        PROVE  /\ Reserved(pvcs'[c], rows[j].uid)
               /\ \A r \in Releases : pc'[r] \in {"delete", "unbind"} => loc'[r].claim # c
               /\ Cleaning(c)' => rows[j].state # "busy"
               /\ Wiped(c)' => data[c] # j
    <3>1. j \in apart BY <2>3, Kinds DEF NoRow
    <3>2. rows[j].uid \in 1..MaxUid BY <1>0, <2>0, <2>3, RowFacts, Kinds, PoolAssumption
    <3>3. Reserved(pvcs'[c], rows[j].uid) BY <1>0, <2>3, <3>1, <3>2 DEF ApartInv, KeepsReserved
    <3> QED BY <1>0, <1>2, <1>7, <2>3, <3>1, <3>3 DEF ApartInv
  <2> QED BY <2>1, <2>2, <2>3
<1> QED BY <1>3, <1>4, <1>5, <1>6, <1>8 DEF PoolInv

--------------------------------------------------------------------------------
(* Types                                                                    *)

LEMMA ClaimTypes ==
    /\ NoClaim \in Claim /\ NoClaim.uid = 0 /\ Available \in Volume /\ NoRow \in Row /\ NoRow.claim = None
    /\ \A uid \in 0..MaxUid : /\ [NoClaim EXCEPT !.uid = uid] \in Claim /\ [ref |-> uid, phase |-> "Bound"] \in Volume
                              /\ [NoClaim EXCEPT !.uid = uid].uid = uid
    /\ \A pvc \in Claim : /\ [pvc EXCEPT !.doomed = TRUE] \in Claim /\ [pvc EXCEPT !.bound = TRUE] \in Claim
                          /\ \A i \in Instances : [pvc EXCEPT !.owner = i] \in Claim
                          /\ pvc.uid \in 0..MaxUid
    /\ \A pv \in Volume : [pv EXCEPT !.phase = "Released"] \in Volume
  BY Kinds DEF NoClaim, Claim, Available, Volume, NoRow, Row

LEMMA TypeInstance ==
    ASSUME PoolInv, NEW i \in Instances,
           \/ Begin(i) \/ Reserve(i) \/ Resume(i) \/ Mark(i) \/ Stop(i) \/ Retain(i)
    PROVE  TypeOK'
<1>0. TypeOK /\ CallInv /\ AllocInv /\ i \in Procs BY Kinds DEF PoolInv
<1>1. rows[i].state # "none" => rows[i].claim \in Claims /\
        \A state \in {"busy", "stopped", "retained"} : [rows[i] EXCEPT !.state = state] \in Row
  <2>1. rows[i].state # "none" => rows[i] \in [claim : Claims, uid : 1..MaxUid, state : {"busy", "stopped", "retained"}]
    BY <1>0, RowFacts, Kinds DEF Row, NoRow
  <2> QED BY <2>1 DEF Row
<1>2. Enter(i) => apart' \subseteq Instances BY <1>0 DEF Enter, TypeOK
<1>3. CASE Begin(i) BY <1>0, <1>2, <1>3 DEF TypeOK, Begin, cluster
<1>4. CASE \/ TakeLock(i) \/ Reuse(i) \/ Pick(i) \/ Exhausted(i) \/ InspectAgain(i)
  <2>1. lock' \in Procs \cup {None}
    BY <1>0, <1>4 DEF TypeOK, TakeLock, Reuse, Pick, Exhausted, InspectAgain, Unlock
  <2> QED BY <1>0, <1>4, <2>1 DEF TypeOK, TakeLock, Reuse, Pick, Exhausted, InspectAgain, cluster
<1>5. CASE EnsureClaim(i)
  <2>1. made' \in [Claims -> 0..MaxUid] /\ pvcs' \in [Claims -> Claim]
    <3>1. CASE UNCHANGED <<pvcs, made>> BY <1>0, <3>1 DEF TypeOK
    <3>2. CASE ~UNCHANGED <<pvcs, made>>
      <4>1. /\ made[loc[i].claim] < MaxUid
            /\ made' = [made EXCEPT ![loc[i].claim] = made[loc[i].claim] + 1]
            /\ pvcs' = [pvcs EXCEPT ![loc[i].claim] = [NoClaim EXCEPT !.uid = made[loc[i].claim] + 1]]
        BY <1>5, <3>2 DEF EnsureClaim
      <4>2. loc[i].claim \in Claims BY <1>0, <1>5 DEF EnsureClaim, AllocInv
      <4>3. made[loc[i].claim] + 1 \in 0..MaxUid BY <1>0, <4>1, <4>2, PoolAssumption DEF TypeOK
      <4> QED BY <1>0, <4>1, <4>2, <4>3, ClaimTypes DEF TypeOK
    <3> QED BY <3>1, <3>2
  <2> QED BY <1>0, <1>5, <2>1 DEF TypeOK, EnsureClaim
<1>6. CASE EnsureRef(i)
  <2>1. loc[i].claim \in Claims /\ loc[i].uid \in 0..MaxUid BY <1>0, <1>6 DEF EnsureRef, AllocInv, CallInv, Call
  <2>2. pvs' \in [Claims -> Volume] BY <1>0, <1>6, <2>1, ClaimTypes DEF TypeOK, EnsureRef
  <2> QED BY <1>0, <1>6, <2>2 DEF TypeOK, EnsureRef
<1>7. CASE Commit(i)
  <2>1. loc[i].claim \in Claims /\ loc[i].uid \in 1..MaxUid
    BY <1>0, <1>7, PoolAssumption DEF Commit, AllocInv, CallInv, Call
  <2>2. [claim |-> loc[i].claim, uid |-> loc[i].uid, state |-> "busy"] \in Row BY <2>1 DEF Row
  <2>3. rows' \in [Instances -> Row] /\ lock' \in Procs \cup {None} BY <1>0, <1>7, <2>2 DEF TypeOK, Commit, Unlock
  <2> QED BY <1>0, <1>7, <2>3 DEF TypeOK, Commit, cluster
<1>8. CASE Launch(i)
  <2>1. rows[i].claim \in Claims BY <1>0, <1>1, <1>8 DEF Launch, AllocInv
  <2>2. workers' \in [Claims -> SUBSET Instances] /\ data' \in [Claims -> Instances \cup {None}]
    BY <1>0, <1>8, <2>1 DEF TypeOK, Launch
  <2> QED BY <1>0, <1>8, <2>2 DEF TypeOK, Launch
<1>9. CASE Resume(i) BY <1>0, <1>1, <1>2, <1>9 DEF TypeOK, Resume, cluster
<1>10. CASE Mark(i)
  <2>1. rows[i].claim \in Claims BY <1>1, <1>10 DEF Mark
  <2>2. pvcs' \in [Claims -> Claim] BY <1>0, <1>10, <2>1, ClaimTypes DEF TypeOK, Mark
  <2> QED BY <1>0, <1>10, <2>2 DEF TypeOK, Mark
<1>11. CASE Stop(i)
  <2>1. rows' \in [Instances -> Row] /\ workers' \in [Claims -> SUBSET Instances] BY <1>0, <1>1, <1>11 DEF TypeOK, Stop
  <2> QED BY <1>0, <1>11, <2>1 DEF TypeOK, Stop
<1>12. CASE Retain(i) BY <1>0, <1>1, <1>12 DEF TypeOK, Retain, cluster
<1> QED BY <1>3, <1>4, <1>5, <1>6, <1>7, <1>8, <1>9, <1>10, <1>11, <1>12 DEF Reserve

LEMMA TypeRelease ==
    ASSUME PoolInv, NEW r \in Releases, (\E c \in Claims : Look(r, c)) \/ ReleaseStep(r)
    PROVE  TypeOK'
<1>0. TypeOK /\ CallInv /\ ReleaseInv /\ r \in Procs BY Kinds DEF PoolInv
<1>1. \A c, state : SetCleaner(c, state) /\ state \in {"absent", "running"} =>
        cleaner' \in [Claims -> {"absent", "running", "succeeded", "failed"}]
  BY <1>0 DEF TypeOK, SetCleaner
<1>a. \A kind : Fault(kind) => faults' \in 0..MaxFaults BY <1>0, PoolAssumption DEF TypeOK, Fault
<1>b. \A c : Sweep(c) => /\ cleaner' \in [Claims -> {"absent", "running", "succeeded", "failed"}]
                        /\ faults' \in 0..MaxFaults
  BY <1>0, <1>1, <1>a DEF TypeOK, Sweep
<1>2. ASSUME NEW c \in Claims, Look(r, c) PROVE TypeOK' BY <1>0, <1>2 DEF TypeOK, Look, cluster
<1>3. CASE PreCheck(r) BY <1>0, <1>3 DEF TypeOK, PreCheck, cluster
<1>4. CASE ResetCleaner(r) BY <1>0, <1>b, <1>4 DEF TypeOK, ResetCleaner
<1>5. CASE CreateCleaner(r)
  <2>1. cleaner' \in [Claims -> {"absent", "running", "succeeded", "failed"}]
    BY <1>0, <1>1, <1>5 DEF TypeOK, CreateCleaner
  <2> QED BY <1>0, <1>5, <2>1 DEF TypeOK, CreateCleaner
<1>6. CASE Cleaned(r) \/ NotCleaned(r) BY <1>0, <1>b, <1>6 DEF TypeOK, Cleaned, NotCleaned
<1>7. CASE Validate(r)
  <2>1. lock' \in Procs \cup {None} /\ faults' \in 0..MaxFaults BY <1>0, <1>a, <1>7 DEF TypeOK, Validate
  <2> QED BY <1>0, <1>7, <2>1 DEF TypeOK, Validate, cluster
<1>8. CASE Release(r)
  <2>1. lock' \in Procs \cup {None} /\ rows' \in [Instances -> Row]
    BY <1>0, <1>8, ClaimTypes DEF TypeOK, Release, Unlock
  <2> QED BY <1>0, <1>8, <2>1 DEF TypeOK, Release, cluster
<1>9. CASE DeleteClaim(r)
  <2>1. pvcs' \in [Claims -> Claim] BY <1>0, <1>9, ClaimTypes DEF TypeOK, DeleteClaim
  <2> QED BY <1>0, <1>9, <2>1 DEF TypeOK, DeleteClaim
<1>10. CASE UnbindVolume(r)
  <2>1. pvs' \in [Claims -> Volume] BY <1>0, <1>10, ClaimTypes DEF TypeOK, UnbindVolume
  <2> QED BY <1>0, <1>10, <2>1 DEF TypeOK, UnbindVolume
<1> QED BY <1>2, <1>3, <1>4, <1>5, <1>6, <1>7, <1>8, <1>9, <1>10 DEF ReleaseStep

LEMMA TypeRest ==
    ASSUME PoolInv, (\E c \in Claims : Controller(c)) \/ (\E p \in Procs : Interrupt(p)) \/ UNCHANGED vars
    PROVE  TypeOK'
<1>0. TypeOK BY DEF PoolInv
<1>1. \A kind : Fault(kind) => faults' \in 0..MaxFaults BY <1>0, PoolAssumption DEF TypeOK, Fault
<1>2. ASSUME NEW c \in Claims, Bind(c) PROVE TypeOK'
  <2>1. pvcs' \in [Claims -> Claim] /\ pvs' \in [Claims -> Volume] BY <1>0, <1>2, ClaimTypes DEF TypeOK, Bind
  <2> QED BY <1>0, <1>2, <2>1 DEF TypeOK, Bind
<1>3. ASSUME NEW c \in Claims, Finalize(c) PROVE TypeOK'
  <2>1. pvcs' \in [Claims -> Claim] BY <1>0, <1>3, ClaimTypes DEF TypeOK, Finalize
  <2> QED BY <1>0, <1>3, <2>1 DEF TypeOK, Finalize
<1>4. ASSUME NEW c \in Claims, Forsake(c) PROVE TypeOK'
  <2>1. pvs' \in [Claims -> Volume] BY <1>0, <1>4, ClaimTypes DEF TypeOK, Forsake
  <2> QED BY <1>0, <1>4, <2>1 DEF TypeOK, Forsake
<1>5. ASSUME NEW c \in Claims, RunCleaner(c) PROVE TypeOK'
  <2>1. /\ cleaner' \in [Claims -> {"absent", "running", "succeeded", "failed"}]
        /\ data' \in [Claims -> Instances \cup {None}]
    BY <1>0, <1>5 DEF TypeOK, RunCleaner, SetCleaner
  <2>2. faults' \in 0..MaxFaults BY <1>0, <1>1, <1>5 DEF TypeOK, RunCleaner
  <2> QED BY <1>0, <1>5, <2>1, <2>2 DEF TypeOK, RunCleaner
<1>6. ASSUME NEW p \in Procs, Interrupt(p) PROVE TypeOK'
  <2>1. cleaner' \in [Claims -> {"absent", "running", "succeeded", "failed"}]
    BY <1>0, <1>6 DEF TypeOK, Interrupt, SetCleaner
  <2>2. lock' \in Procs \cup {None} BY <1>0, <1>6 DEF TypeOK, Interrupt, Unlock
  <2> QED BY <1>0, <1>1, <1>6, <2>1, <2>2 DEF TypeOK, Interrupt
<1>7. CASE UNCHANGED vars BY <1>0, <1>7 DEF TypeOK, vars, cluster
<1> QED BY <1>2, <1>3, <1>4, <1>5, <1>6, <1>7 DEF Controller

--------------------------------------------------------------------------------
(* The steps of an allocator under the pool lock                            *)

LEMMA PoolBegin ==
    ASSUME PoolInv, NEW i \in Instances, Begin(i)
    PROVE  PoolInv'
<1>0. UNCHANGED <<rows, workers, cleaner, data, pvcs, lock>> /\ TypeOK' BY TypeInstance DEF Begin, cluster
<1>1. KeepsReserved BY <1>0 DEF KeepsReserved
<1>2. \A j \in apart' : j \in apart \/ (j = i /\ rows[i] = NoRow) BY DEF Begin, Enter
<1>3. i \in apart' => NoRelease BY DEF Begin, Enter
<1>4. Goto(i, "lock", NoCall) /\ InstanceFree(i) /\ rows[i].state \in {"none", "stopped"} BY DEF Begin
<1> QED BY <1>0, <1>1, <1>2, <1>3, <1>4, NoCallType, InstanceMove

\* A step at a label of an allocator that changes nothing else.
LEMMA QuietMove ==
    ASSUME PoolInv, TypeOK', NEW i \in Instances, NEW label \in InstanceLabels, NEW call \in Call,
           Goto(i, label, call), UNCHANGED <<rows, workers, cleaner, data, apart>>, KeepsReserved,
           pc[i] \in AllocLabels, label \notin {"launch", "reuse"},
           \/ pc[i] \in LockedLabels /\ lock' = lock
           \/ label = "idle" /\ Unlock(i),
           label \in {"ensure", "ref", "inspect", "commit"} =>
               call.claim \in Claims /\ Owners(call.claim) \subseteq {i},
           label = "commit" => call.uid # 0 /\ (i \in apart => Reserved(pvcs'[call.claim], call.uid))
    PROVE  PoolInv'
<1>0. CallInv /\ AllocInv /\ ApartInv BY DEF PoolInv
<1>1. lock' = lock \/ lock \in {i, None} BY DEF Unlock
<1>2. label \in LockedLabels => lock' = i BY <1>0 DEF CallInv
<1>3. rows[i].state \in {"none", "stopped"} BY <1>0 DEF AllocInv
<1>4. i \in apart => NoRelease BY <1>0 DEF ApartInv
<1> QED BY <1>1, <1>2, <1>3, <1>4, InstanceMove

LEMMA SkipMove ==
    ASSUME PoolInv, TypeOK', NEW i \in Instances, NEW c \in Claims, Skip(i, c),
           UNCHANGED <<rows, workers, cleaner, data, apart, lock>>, KeepsReserved, pc[i] \in LockedLabels
    PROVE  PoolInv'
<1> DEFINE call == [NoCall EXCEPT !.tried = loc[i].tried \cup {c}]
<1>0. loc[i] \in Call BY Kinds DEF PoolInv, CallInv
<1>1. call \in Call BY <1>0, NoCallType DEF Call
<1>2. Goto(i, "pick", call) BY DEF Skip
<1> HIDE DEF call
<1> QED BY <1>1, <1>2, QuietMove

LEMMA PoolTakeLock ==
    ASSUME PoolInv, NEW i \in Instances, TakeLock(i)
    PROVE  PoolInv'
<1> DEFINE label == IF rows[i].state = "none" THEN "pick" ELSE "reuse"
<1>0. UNCHANGED <<rows, workers, cleaner, data, pvcs, apart>> /\ TypeOK'
  BY TypeInstance DEF TakeLock, cluster, Reserve
<1>1. KeepsReserved BY <1>0 DEF KeepsReserved
<1>2. pc[i] = "lock" /\ lock = None /\ lock' = i /\ Goto(i, label, NoCall) BY DEF TakeLock
<1>3. rows[i].state \in {"none", "stopped"} BY <1>2 DEF PoolInv, AllocInv
<1>4. label \in {"pick", "reuse"} /\ (label = "reuse" => rows[i].state = "stopped") BY <1>3
<1>5. i \in apart => NoRelease BY <1>2 DEF PoolInv, ApartInv
<1> HIDE DEF label
<1> QED BY <1>0, <1>1, <1>2, <1>3, <1>4, <1>5, NoCallType, InstanceMove

LEMMA PoolReuse ==
    ASSUME PoolInv, NEW i \in Instances, Reuse(i)
    PROVE  PoolInv'
<1> DEFINE c == rows[i].claim
<1>0. /\ UNCHANGED <<rows, workers, cleaner, data, pvcs, apart>> /\ TypeOK' /\ KeepsReserved
      /\ pc[i] = "reuse" /\ TypeOK /\ AllocInv /\ OwnerInv /\ ApartInv /\ i \in Procs
  BY TypeInstance, Kinds DEF Reuse, cluster, Reserve, KeepsReserved, PoolInv
<1>1. c \in Claims /\ rows[i].uid \in 0..MaxUid /\ rows[i].uid # 0 BY <1>0, RowFacts DEF AllocInv
<1>2. Owners(c) \subseteq {i} BY <1>0, <1>1, Kinds DEF Owners, OwnerInv
<1>3. pvcs[c].uid \in 0..MaxUid BY <1>0, <1>1, ClaimTypes DEF TypeOK
<1>4. CASE Goto(i, "commit", [NoCall EXCEPT !.claim = c, !.uid = rows[i].uid]) /\ UNCHANGED lock
  <2> DEFINE call == [NoCall EXCEPT !.claim = c, !.uid = rows[i].uid]
  <2>1. i \in apart => Reserved(pvcs'[c], rows[i].uid) BY <1>0, <1>1 DEF ApartInv
  <2>2. call \in Call /\ call.claim = c /\ call.uid = rows[i].uid BY <1>1, NoCallType DEF Call
  <2>3. Goto(i, "commit", call) /\ UNCHANGED lock BY <1>4
  <2> HIDE DEF call
  <2> QED BY <1>0, <1>1, <1>2, <2>1, <2>2, <2>3, QuietMove
<1>5. CASE /\ Holds(i, c, pvcs[c].uid) /\ UNCHANGED lock
           /\ Goto(i, "commit", [NoCall EXCEPT !.claim = c, !.uid = pvcs[c].uid])
  <2> DEFINE call == [NoCall EXCEPT !.claim = c, !.uid = pvcs[c].uid]
  <2>1. pvcs[c].uid # 0 /\ Reserved(pvcs'[c], pvcs[c].uid) BY <1>0, <1>5 DEF Holds, Paired, Reserved
  <2>2. call \in Call /\ call.claim = c /\ call.uid = pvcs[c].uid BY <1>1, <1>3, NoCallType DEF Call
  <2>3. Goto(i, "commit", call) /\ UNCHANGED lock BY <1>5
  <2> HIDE DEF call
  <2> QED BY <1>0, <1>1, <1>2, <2>1, <2>2, <2>3, QuietMove
<1>6. CASE End(i) /\ Unlock(i) BY <1>0, <1>6, NoCallType, QuietMove DEF End
<1> QED BY SMTT(40), <1>4, <1>5, <1>6 DEF Reuse

LEMMA PoolPick ==
    ASSUME PoolInv, NEW i \in Instances, Pick(i) \/ Exhausted(i)
    PROVE  PoolInv'
<1>0. /\ UNCHANGED <<rows, workers, cleaner, data, pvcs, apart>> /\ TypeOK' /\ KeepsReserved
      /\ pc[i] = "pick" /\ TypeOK /\ loc[i] \in Call
  BY TypeInstance, Kinds DEF Pick, Exhausted, cluster, Reserve, KeepsReserved, PoolInv, CallInv
<1>1. CASE Exhausted(i) BY <1>0, <1>1, NoCallType, QuietMove DEF Exhausted, End
<1>2. CASE Pick(i)
  <2>1. PICK c \in Claims :
          \/ Owners(c) = {} /\ Goto(i, "ensure", [loc[i] EXCEPT !.claim = c])
          \/ Owners(c) = {} /\ Fresh(c) /\ Goto(i, "commit", [loc[i] EXCEPT !.claim = c, !.uid = pvcs[c].uid])
          \/ Skip(i, c)
    BY <1>2 DEF Pick
  <2>2. pvcs[c].uid \in 0..MaxUid /\ UNCHANGED lock BY <1>0, <1>2, ClaimTypes DEF TypeOK, Pick
  <2>3. CASE Owners(c) = {} /\ Goto(i, "ensure", [loc[i] EXCEPT !.claim = c])
    <3> DEFINE call == [loc[i] EXCEPT !.claim = c]
    <3>1. call \in Call /\ call.claim = c BY <1>0 DEF Call
    <3>2. Goto(i, "ensure", call) BY <2>3
    <3> HIDE DEF call
    <3> QED BY <1>0, <2>2, <2>3, <3>1, <3>2, QuietMove
  <2>4. CASE Owners(c) = {} /\ Fresh(c) /\ Goto(i, "commit", [loc[i] EXCEPT !.claim = c, !.uid = pvcs[c].uid])
    <3> DEFINE call == [loc[i] EXCEPT !.claim = c, !.uid = pvcs[c].uid]
    <3>1. pvcs[c].uid # 0 /\ Reserved(pvcs'[c], pvcs[c].uid) BY <1>0, <2>4 DEF Fresh, Paired, Reserved
    <3>2. call \in Call /\ call.claim = c /\ call.uid = pvcs[c].uid BY <1>0, <2>2 DEF Call
    <3>3. Goto(i, "commit", call) BY <2>4
    <3> HIDE DEF call
    <3> QED BY <1>0, <2>2, <2>4, <3>1, <3>2, <3>3, QuietMove
  <2>5. CASE Skip(i, c) BY <1>0, <2>2, <2>5, SkipMove
  <2> QED BY <2>1, <2>3, <2>4, <2>5
<1> QED BY <1>1, <1>2

LEMMA PoolEnsure ==
    ASSUME PoolInv, NEW i \in Instances, EnsureClaim(i) \/ EnsureRef(i)
    PROVE  PoolInv'
<1> DEFINE c == loc[i].claim
<1>0. /\ UNCHANGED <<rows, workers, cleaner, data, apart, lock>> /\ TypeOK' /\ pc[i] \in {"ensure", "ref"}
      /\ TypeOK /\ AllocInv /\ loc[i] \in Call
  BY TypeInstance, Kinds DEF EnsureClaim, EnsureRef, Reserve, PoolInv, CallInv
<1>1. c \in Claims /\ Owners(c) \subseteq {i} /\ pvs[c] \in Volume BY <1>0 DEF AllocInv, TypeOK
<1>2. CASE EnsureClaim(i)
  <2>1. CASE Goto(i, "inspect", loc[i]) /\ UNCHANGED pvcs
    <3>1. KeepsReserved BY <2>1 DEF KeepsReserved
    <3> QED BY <1>0, <1>1, <2>1, <3>1, QuietMove
  <2>2. CASE /\ pvcs[c].uid = 0 /\ made[c] < MaxUid
             /\ pvcs' = [pvcs EXCEPT ![c] = [NoClaim EXCEPT !.uid = made[c] + 1]]
             /\ Goto(i, "ref", [loc[i] EXCEPT !.uid = made[c] + 1, !.pv = pvs[c]])
    <3>1. KeepsReserved BY <1>0, <2>2, PoolAssumption DEF KeepsReserved, Reserved, TypeOK
    <3>2. made[c] + 1 \in 0..MaxUid BY <1>0, <1>1, <2>2, PoolAssumption DEF TypeOK
    <3> DEFINE call == [loc[i] EXCEPT !.uid = made[c] + 1, !.pv = pvs[c]]
    <3>3. call \in Call /\ call.claim = c BY <1>0, <1>1, <3>2 DEF Call
    <3>4. Goto(i, "ref", call) BY <2>2
    <3> HIDE DEF call
    <3> QED BY <1>0, <1>1, <3>1, <3>3, <3>4, QuietMove
  <2> QED BY <1>2, <2>1, <2>2 DEF EnsureClaim
<1>3. CASE EnsureRef(i)
  <2> DEFINE call == [loc[i] EXCEPT !.uid = 0, !.pv = Available]
  <2>1. KeepsReserved /\ Goto(i, "inspect", call) BY <1>3 DEF KeepsReserved, EnsureRef
  <2>2. call \in Call /\ call.claim = c BY <1>0, ClaimTypes, Kinds DEF Call
  <2> HIDE DEF call
  <2> QED BY <1>0, <1>1, <2>1, <2>2, QuietMove
<1> QED BY <1>2, <1>3

LEMMA PoolInspectAgain ==
    ASSUME PoolInv, NEW i \in Instances, InspectAgain(i)
    PROVE  PoolInv'
<1> DEFINE c == loc[i].claim
<1>0. /\ UNCHANGED <<rows, workers, cleaner, data, pvcs, apart, lock>> /\ TypeOK' /\ KeepsReserved
      /\ pc[i] = "inspect" /\ TypeOK /\ AllocInv /\ loc[i] \in Call
  BY TypeInstance, Kinds DEF InspectAgain, cluster, Reserve, KeepsReserved, PoolInv, CallInv
<1>1. c \in Claims /\ Owners(c) \subseteq {i} BY <1>0 DEF AllocInv
<1>2. pvcs[c].uid \in 0..MaxUid BY <1>0, <1>1, ClaimTypes DEF TypeOK
<1>3. CASE Fresh(c)
  <2>1. pvcs[c].uid # 0 /\ Reserved(pvcs'[c], pvcs[c].uid) BY <1>0, <1>3 DEF Fresh, Paired, Reserved
  <2> DEFINE call == [loc[i] EXCEPT !.uid = pvcs[c].uid]
  <2>2. Goto(i, "commit", call) BY <1>3 DEF InspectAgain
  <2>3. call \in Call /\ call.claim = c /\ call.uid = pvcs[c].uid BY <1>0, <1>2 DEF Call
  <2> HIDE DEF call
  <2> QED BY <1>0, <1>1, <2>1, <2>2, <2>3, QuietMove
<1>4. CASE ~Fresh(c)
  <2>1. Skip(i, c) BY <1>4 DEF InspectAgain
  <2> QED BY <1>0, <1>1, <2>1, SkipMove
<1> QED BY <1>3, <1>4

--------------------------------------------------------------------------------
(* The steps of an owner                                                    *)

LEMMA NoReleaseMeans ==
    NoRelease => /\ \A c \in Claims : ~Cleaning(c) /\ ~Wiped(c)
                 /\ \A r \in Releases : pc[r] \notin {"delete", "unbind", "release"}
  BY DEF NoRelease, Cleaning, Wiped

LEMMA WipedIsCleaning == \A c \in Claims : Wiped(c) => Cleaning(c)
  BY DEF Cleaning, Wiped

\* No release moves.
LEMMA ReleasesRest ==
    ASSUME UNCHANGED cleaner, \A r \in Releases : pc'[r] = pc[r] /\ loc'[r] = loc[r]
    PROVE  /\ NoRelease' <=> NoRelease
           /\ \A c \in Claims : (Cleaning(c)' <=> Cleaning(c)) /\ (Wiped(c)' <=> Wiped(c))
  BY DEF NoRelease, Cleaning, Wiped

LEMMA PoolCommit ==
    ASSUME PoolInv, NEW i \in Instances, Commit(i)
    PROVE  PoolInv'
<1> DEFINE c == loc[i].claim
<1>0. TypeOK /\ CallInv /\ AllocInv /\ ReleaseInv /\ OwnerInv /\ ApartInv /\ i \in Procs /\ TypeOK'
  BY Kinds, TypeInstance DEF PoolInv, Reserve
<1>1. /\ pc[i] = "commit" /\ Goto(i, "idle", NoCall) /\ UNCHANGED <<pvcs, workers, cleaner, data, apart>>
      /\ rows' = [rows EXCEPT ![i] = [claim |-> c, uid |-> loc[i].uid, state |-> "busy"]]
      /\ Unlock(i)
  BY DEF Commit, End, cluster
<1>2. /\ pc'[i] = "idle" /\ loc'[i] = NoCall
      /\ \A q \in Procs : q # i => pc'[q] = pc[q] /\ loc'[q] = loc[q]
      /\ pc' \in [Procs -> InstanceLabels \cup ReleaseLabels] /\ loc' \in [Procs -> Call]
  BY <1>0, <1>1, GotoMoves, NoCallType
<1>3. \A r \in Releases : r # i /\ r \in Procs /\ pc'[r] = pc[r] /\ loc'[r] = loc[r] BY <1>2, Kinds
<1>4. /\ rows'[i].claim = c /\ rows'[i].uid = loc[i].uid /\ rows'[i].state = "busy"
      /\ \A j \in Instances : j # i => rows'[j] = rows[j]
  BY <1>0, <1>1 DEF TypeOK
<1>5. c \in Claims /\ Owners(c) \subseteq {i} /\ rows[i].state # "busy" BY <1>0, <1>1 DEF AllocInv
<1>6. lock = i /\ \A r \in Releases : pc[r] # "release" BY <1>0, <1>1, <1>3 DEF CallInv
<1>7. \A j \in Instances : j # i => pc[j] \notin LockedLabels BY <1>0, <1>6 DEF CallInv
<1>8. CallInv' BY <1>0, <1>2, <1>3, <1>6, <1>7, Kinds DEF CallInv
<1>9. AllocInv' BY <1>0, <1>2, <1>4, <1>7, Kinds DEF AllocInv
<1>10. ReleaseInv' BY <1>0, <1>3, <1>6 DEF ReleaseInv
<1>11. OwnerInv'
  <2>1. \A j, k \in Instances : rows'[j].claim # None /\ rows'[j].claim = rows'[k].claim => j = k
    BY <1>0, <1>4, <1>5 DEF OwnerInv, Owners
  <2>2. \A d \in Claims : \A j \in workers[d] : rows'[j].claim = d /\ rows'[j].state = "busy"
    BY <1>0, <1>4, <1>5 DEF OwnerInv, TypeOK
  <2> QED BY <1>1, <2>1, <2>2 DEF OwnerInv
<1>12. /\ NoRelease' <=> NoRelease
       /\ \A d \in Claims : (Cleaning(d)' <=> Cleaning(d)) /\ (Wiped(d)' <=> Wiped(d))
  BY <1>1, <1>3, ReleasesRest
<1>13. ApartInv'
  <2> SUFFICES ASSUME NEW j \in apart
               PROVE  /\ pc'[j] \in AllocLabels => NoRelease'
                      /\ pc'[j] = "commit" => Reserved(pvcs[loc'[j].claim], loc'[j].uid)
                      /\ \A d \in Claims : rows'[j].claim = d =>
                           /\ Reserved(pvcs[d], rows'[j].uid)
                           /\ \A r \in Releases : pc'[r] \in {"delete", "unbind"} => loc'[r].claim # d
                           /\ Cleaning(d)' => rows'[j].state # "busy"
                           /\ Wiped(d)' => data[d] # j
    BY <1>1 DEF ApartInv
  <2>0. j \in Instances /\ j \in Procs BY <1>0, Kinds DEF TypeOK
  <2>1. CASE j = i
    <3>1. NoRelease /\ Reserved(pvcs[c], loc[i].uid) BY <1>0, <1>1, <2>1 DEF ApartInv
    <3> QED BY <1>2, <1>3, <1>4, <1>12, <2>1, <3>1, NoReleaseMeans
  <2>2. CASE j # i BY <1>0, <1>2, <1>3, <1>4, <1>12, <2>0, <2>2 DEF ApartInv
  <2> QED BY <2>1, <2>2
<1> QED BY <1>0, <1>8, <1>9, <1>10, <1>11, <1>13 DEF PoolInv

LEMMA PoolLaunch ==
    ASSUME PoolInv, NEW i \in Instances, Launch(i)
    PROVE  PoolInv'
<1> DEFINE c == rows[i].claim
<1>0. TypeOK /\ CallInv /\ AllocInv /\ ReleaseInv /\ OwnerInv /\ ApartInv /\ i \in Procs /\ TypeOK'
  BY Kinds, TypeInstance DEF PoolInv, Reserve
<1>1. /\ pc[i] = "launch" /\ Goto(i, "idle", NoCall) /\ UNCHANGED <<rows, pvcs, cleaner, lock, apart>>
      /\ workers' = [workers EXCEPT ![c] = @ \cup {i}]
      /\ data' = data \/ data' = [data EXCEPT ![c] = i]
  BY DEF Launch, End
<1>2. /\ pc'[i] = "idle" /\ loc'[i] = NoCall
      /\ \A q \in Procs : q # i => pc'[q] = pc[q] /\ loc'[q] = loc[q]
      /\ pc' \in [Procs -> InstanceLabels \cup ReleaseLabels] /\ loc' \in [Procs -> Call]
  BY <1>0, <1>1, GotoMoves, NoCallType
<1>3. \A r \in Releases : r # i /\ r \in Procs /\ pc'[r] = pc[r] /\ loc'[r] = loc[r] BY <1>2, Kinds
<1>4. rows[i].state = "busy" BY <1>0, <1>1 DEF AllocInv
<1>5. c \in Claims BY <1>0, <1>4, RowFacts
<1>6. \A r \in Releases : pc[r] = "release" => loc[r].inst # i /\ loc[r].claim # c
  BY <1>0, <1>1, <1>5, Kinds DEF ReleaseInv, Owners
<1>7. CallInv' BY <1>0, <1>1, <1>2, <1>3, Kinds DEF CallInv
<1>8. AllocInv' BY <1>0, <1>1, <1>2, Kinds DEF AllocInv, Owners
<1>9. ReleaseInv'
  <2>1. \A r \in Releases : loc[r].inst # None => loc[r].inst \in Instances BY <1>0, Kinds DEF CallInv, Call
  <2>2. \A d \in Claims : d # c => workers'[d] = workers[d] BY <1>0, <1>1 DEF TypeOK
  <2> QED BY <1>0, <1>1, <1>2, <1>3, <1>6, <2>1, <2>2, Kinds DEF ReleaseInv, Owners, Releasable
<1>10. OwnerInv'
  <2>1. \A d \in Claims : workers'[d] = IF d = c THEN workers[d] \cup {i} ELSE workers[d] BY <1>0, <1>1 DEF TypeOK
  <2> QED BY <1>0, <1>1, <1>4, <2>1 DEF OwnerInv
<1>11. /\ NoRelease' <=> NoRelease
       /\ \A d \in Claims : (Cleaning(d)' <=> Cleaning(d)) /\ (Wiped(d)' <=> Wiped(d))
  BY <1>1, <1>3, ReleasesRest
<1>12. ApartInv'
  <2> SUFFICES ASSUME NEW j \in apart
               PROVE  /\ pc'[j] \in AllocLabels => NoRelease'
                      /\ pc'[j] = "commit" => Reserved(pvcs[loc'[j].claim], loc'[j].uid)
                      /\ \A d \in Claims : rows[j].claim = d =>
                           /\ Reserved(pvcs[d], rows[j].uid)
                           /\ \A r \in Releases : pc'[r] \in {"delete", "unbind"} => loc'[r].claim # d
                           /\ Cleaning(d)' => rows[j].state # "busy"
                           /\ Wiped(d)' => data'[d] # j
    BY <1>1 DEF ApartInv
  <2>0. j \in Instances /\ j \in Procs BY <1>0, Kinds DEF TypeOK
  <2>1. \A d \in Claims : rows[j].claim = d /\ Wiped(d)' => data'[d] # j
    <3>1. \A d \in Claims : data'[d] = data[d] \/ (d = c /\ data'[d] = i) BY <1>0, <1>1 DEF TypeOK
    <3>2. CASE j = i BY <1>0, <1>4, <1>11, <3>2, WipedIsCleaning DEF ApartInv
    <3>3. CASE j # i BY <1>0, <1>11, <3>1, <3>3 DEF ApartInv
    <3> QED BY <3>2, <3>3
  <2> QED BY <1>0, <1>2, <1>3, <1>11, <2>0, <2>1 DEF ApartInv
<1> QED BY <1>0, <1>7, <1>8, <1>9, <1>10, <1>12 DEF PoolInv

\* Only the state of a row changes.
LEMMA RowMove ==
    ASSUME PoolInv, TypeOK', NEW i \in Instances, NEW state,
           InstanceFree(i), rows[i].state # "none", rows' = [rows EXCEPT ![i].state = state],
           UNCHANGED <<pvcs, cleaner, data, lock, pc, loc>>,
           \A c \in Claims : workers'[c] \subseteq workers[c] /\ (i \in workers'[c] => state = "busy"),
           apart' \subseteq apart, i \in apart' /\ state = "busy" => NoRelease
    PROVE  PoolInv'
<1>0. TypeOK /\ CallInv /\ AllocInv /\ ReleaseInv /\ OwnerInv /\ ApartInv /\ i \in Procs
  BY Kinds DEF PoolInv
<1>1. /\ rows'[i].claim = rows[i].claim /\ rows'[i].uid = rows[i].uid /\ rows'[i].state = state
      /\ \A j \in Instances : j # i => rows'[j] = rows[j]
  <2>1. rows[i] \in [claim : Claims, uid : 1..MaxUid, state : {"busy", "stopped", "retained"}]
    BY <1>0, RowFacts DEF Row, NoRow
  <2> QED BY <1>0, <2>1 DEF TypeOK
<1>2. \A c : Owners(c)' = Owners(c) BY <1>1 DEF Owners
<1>3. pc[i] = "idle" /\ \A r \in Releases : pc[r] = "release" => loc[r].inst # i BY DEF InstanceFree
<1>4. CallInv' BY <1>0 DEF CallInv
<1>5. AllocInv' BY <1>0, <1>1, <1>2, <1>3 DEF AllocInv
<1>6. ReleaseInv'
  <2> SUFFICES ASSUME NEW r \in Releases, pc[r] = "release"
               PROVE  /\ Owners(loc[r].claim)' \subseteq {loc[r].inst} /\ workers'[loc[r].claim] = {}
                      /\ loc[r].inst # None =>
                           rows'[loc[r].inst].claim = loc[r].claim /\ Releasable(loc[r].inst)' /\ pc[loc[r].inst] = "idle"
    BY <1>0 DEF ReleaseInv, Owners, Releasable
  <2>1. loc[r].claim \in Claims /\ loc[r].inst \in Instances \cup {None} /\ loc[r].inst # i
    BY <1>0, <1>3, Kinds DEF ReleaseInv, CallInv, Call
  <2> QED BY <1>0, <1>1, <1>2, <2>1 DEF ReleaseInv, Releasable
<1>7. OwnerInv'
  <2>1. \A j \in Instances : rows'[j].claim = rows[j].claim BY <1>1
  <2>2. \A c \in Claims : \A j \in workers'[c] : rows'[j].claim = c /\ rows'[j].state = "busy"
    BY <1>0, <1>1, <2>1 DEF OwnerInv, TypeOK
  <2> QED BY <1>0, <2>1, <2>2 DEF OwnerInv
<1>8. /\ NoRelease' <=> NoRelease
      /\ \A d \in Claims : (Cleaning(d)' <=> Cleaning(d)) /\ (Wiped(d)' <=> Wiped(d))
  BY ReleasesRest
<1>9. ApartInv'
  <2> SUFFICES ASSUME NEW j \in apart'
               PROVE  /\ pc[j] \in AllocLabels => NoRelease'
                      /\ pc[j] = "commit" => Reserved(pvcs[loc[j].claim], loc[j].uid)
                      /\ \A d \in Claims : rows'[j].claim = d =>
                           /\ Reserved(pvcs[d], rows'[j].uid)
                           /\ \A r \in Releases : pc[r] \in {"delete", "unbind"} => loc[r].claim # d
                           /\ Cleaning(d)' => rows'[j].state # "busy"
                           /\ Wiped(d)' => data[d] # j
    BY DEF ApartInv
  <2>0. j \in Instances /\ j \in apart BY <1>0 DEF TypeOK
  <2>1. \A d \in Claims : rows'[j].claim = d /\ Cleaning(d)' => rows'[j].state # "busy"
    <3>1. CASE j = i BY <1>1, <1>8, <3>1, NoReleaseMeans
    <3>2. CASE j # i BY <1>0, <1>1, <1>8, <2>0, <3>2 DEF ApartInv
    <3> QED BY <3>1, <3>2
  <2>2. rows'[j].claim = rows[j].claim /\ rows'[j].uid = rows[j].uid BY <1>1, <2>0
  <2> QED BY <1>0, <1>8, <2>0, <2>1, <2>2 DEF ApartInv
<1> QED BY <1>4, <1>5, <1>6, <1>7, <1>9 DEF PoolInv

LEMMA PoolOwner ==
    ASSUME PoolInv, NEW i \in Instances, Resume(i) \/ Stop(i) \/ Retain(i)
    PROVE  PoolInv'
<1>0. TypeOK' /\ TypeOK /\ OwnerInv BY TypeInstance DEF PoolInv
<1>1. CASE Resume(i)
  <2>1. UNCHANGED <<pvcs, cleaner, data, lock, pc, loc, workers>> /\ rows[i].state = "stopped" /\ InstanceFree(i)
    BY <1>1 DEF Resume, cluster, calls
  <2>2. rows[i] # NoRow BY <2>1 DEF NoRow
  <2>3. apart' \subseteq apart /\ (i \in apart' => NoRelease) BY <1>1, <2>2 DEF Resume, Enter
  <2>4. \A c \in Claims : workers'[c] \subseteq workers[c] BY <2>1
  <2>5. rows' = [rows EXCEPT ![i].state = "busy"] BY <1>1 DEF Resume
  <2> QED BY <1>0, <2>1, <2>3, <2>4, <2>5, RowMove
<1>2. CASE Stop(i)
  <2>1. /\ UNCHANGED <<pvcs, cleaner, data, lock, pc, loc, apart>> /\ rows[i].state = "busy" /\ InstanceFree(i)
        /\ rows' = [rows EXCEPT ![i].state = "stopped"]
    BY <1>2 DEF Stop, calls
  <2>2. \A c \in Claims : workers'[c] \subseteq workers[c] /\ i \notin workers'[c]
    BY <1>0, <1>2 DEF TypeOK, OwnerInv, Stop
  <2> QED BY <1>0, <2>1, <2>2, RowMove
<1>3. CASE Retain(i)
  <2>1. /\ UNCHANGED <<pvcs, cleaner, data, lock, pc, loc, workers, apart>> /\ rows[i].state = "stopped" /\ InstanceFree(i)
        /\ rows' = [rows EXCEPT ![i].state = "retained"]
    BY <1>3 DEF Retain, cluster, calls
  <2>2. \A c \in Claims : workers'[c] \subseteq workers[c] /\ i \notin workers'[c] BY <1>0, <2>1 DEF OwnerInv
  <2> QED BY <1>0, <2>1, <2>2, RowMove
<1> QED BY <1>1, <1>2, <1>3

LEMMA PoolMark ==
    ASSUME PoolInv, NEW i \in Instances, Mark(i)
    PROVE  PoolInv'
<1>0. /\ UNCHANGED <<rows, workers, cleaner, data, apart, lock>> /\ TypeOK' /\ TypeOK /\ InstanceFree(i)
      /\ rows[i].state = "busy" /\ Goto(i, "launch", NoCall)
      /\ pvcs' = [pvcs EXCEPT ![rows[i].claim].owner = i]
  BY TypeInstance DEF Mark, PoolInv
<1>1. KeepsReserved
  <2>1. \A c \in Claims : pvcs'[c].uid = pvcs[c].uid /\ pvcs'[c].doomed = pvcs[c].doomed
    BY <1>0 DEF TypeOK, Claim
  <2> QED BY <2>1 DEF KeepsReserved, Reserved
<1> QED BY <1>0, <1>1, NoCallType, InstanceMove

LEMMA PoolInterruptInstance ==
    ASSUME PoolInv, NEW i \in Instances, Interrupt(i)
    PROVE  PoolInv'
<1>0. CallInv /\ i \in Procs BY Kinds DEF PoolInv
<1>1. TypeOK' BY <1>0, TypeRest
<1>2. pc[i] # "cleaning" BY <1>0 DEF CallInv
<1>3. UNCHANGED <<rows, workers, cleaner, data, pvcs, apart>> /\ Goto(i, "idle", NoCall) /\ pc[i] # "idle" /\ Unlock(i)
  BY <1>2 DEF Interrupt, End
<1>4. KeepsReserved BY <1>3 DEF KeepsReserved
<1>5. lock' = lock \/ lock \in {i, None} BY <1>3 DEF Unlock
<1> QED BY <1>1, <1>3, <1>4, <1>5, NoCallType, InstanceMove

--------------------------------------------------------------------------------
(* The steps of a release                                                   *)

\* No claim comes under a release whose owner runs, and none is taken for wiped that is not.
Careful ==
    \A c \in Claims :
        /\ Cleaning(c)' => Cleaning(c) \/ \A i \in Owners(c) : rows[i].state # "busy"
        /\ Wiped(c)' => Wiped(c)

LEMMA ReleaseMove ==
    ASSUME PoolInv, TypeOK', NEW r \in Releases, NEW label \in ReleaseLabels, NEW call \in Call,
           Goto(r, label, call), UNCHANGED <<rows, workers, data>>, Careful,
           lock' = lock \/ lock \in {r, None}, label = "release" => lock' = r,
           apart' \subseteq apart, pc[r] # "idle" \/ \A i \in apart' : pc[i] \notin AllocLabels,
           \A i \in apart', c \in Claims : rows[i].claim = c => pvcs'[c] = pvcs[c],
           label # "idle" => call.claim \in Claims,
           label # "release" => call.inst = None,
           label = "release" =>
               /\ Owners(call.claim) \subseteq {call.inst} /\ workers[call.claim] = {}
               /\ call.inst # None => /\ rows[call.inst].claim = call.claim
                                      /\ Releasable(call.inst) /\ pc[call.inst] = "idle",
           label \in {"delete", "unbind"} => \A i \in apart' : rows[i].claim # call.claim
    PROVE  PoolInv'
<1>0. TypeOK /\ CallInv /\ AllocInv /\ ReleaseInv /\ OwnerInv /\ ApartInv /\ r \in Procs BY Kinds DEF PoolInv
<1>1. /\ pc'[r] = label /\ loc'[r] = call
      /\ \A q \in Procs : q # r => pc'[q] = pc[q] /\ loc'[q] = loc[q]
      /\ pc' \in [Procs -> InstanceLabels \cup ReleaseLabels] /\ loc' \in [Procs -> Call]
  BY <1>0, GotoMoves
<1>2. \A i \in Instances : i # r /\ i \in Procs /\ pc'[i] = pc[i] /\ loc'[i] = loc[i] BY <1>1, Kinds
<1>3. CallInv' BY <1>0, <1>1, <1>2, Kinds DEF CallInv
<1>4. AllocInv' BY <1>0, <1>2 DEF AllocInv, Owners
<1>5. ReleaseInv'
  <2> SUFFICES ASSUME NEW s \in Releases
               PROVE  /\ pc'[s] # "idle" => loc'[s].claim \in Claims
                      /\ pc'[s] # "release" => loc'[s].inst = None
                      /\ pc'[s] = "release" =>
                           /\ Owners(loc'[s].claim) \subseteq {loc'[s].inst} /\ workers[loc'[s].claim] = {}
                           /\ loc'[s].inst # None => /\ rows[loc'[s].inst].claim = loc'[s].claim
                                                     /\ Releasable(loc'[s].inst) /\ pc'[loc'[s].inst] = "idle"
    BY DEF ReleaseInv, Owners, Releasable
  <2>1. loc'[s].inst # None => loc'[s].inst \in Instances BY <1>1, Kinds DEF Call
  <2>2. CASE s = r BY <1>1, <1>2, <2>1, <2>2
  <2>3. CASE s # r
    <3>1. pc'[s] = pc[s] /\ loc'[s] = loc[s] BY <1>1, <2>3, Kinds
    <3> QED BY <1>0, <1>2, <2>1, <3>1 DEF ReleaseInv
  <2> QED BY <2>2, <2>3
<1>6. OwnerInv' BY <1>0 DEF OwnerInv
<1>7. \A i \in apart' : i \in apart /\ i \in Instances /\ pc'[i] \notin AllocLabels
  <2>1. pc[r] # "idle" => ~NoRelease BY DEF NoRelease
  <2> QED BY <1>0, <1>2, <2>1 DEF ApartInv, TypeOK
<1>8. ApartInv'
  <2> SUFFICES ASSUME NEW i \in apart', NEW c \in Claims, rows[i].claim = c
               PROVE  /\ Reserved(pvcs'[c], rows[i].uid)
                      /\ \A s \in Releases : pc'[s] \in {"delete", "unbind"} => loc'[s].claim # c
                      /\ Cleaning(c)' => rows[i].state # "busy"
                      /\ Wiped(c)' => data[c] # i
    BY <1>7 DEF ApartInv
  <2>1. Reserved(pvcs'[c], rows[i].uid) BY <1>0, <1>7 DEF ApartInv
  <2>2. \A s \in Releases : pc'[s] \in {"delete", "unbind"} => loc'[s].claim # c
    BY <1>0, <1>1, <1>7, Kinds DEF ApartInv
  <2>3. (Cleaning(c)' => rows[i].state # "busy") /\ (Wiped(c)' => data[c] # i)
    BY <1>0, <1>7 DEF ApartInv, Careful, Owners
  <2> QED BY <2>1, <2>2, <2>3
<1> QED BY <1>3, <1>4, <1>5, <1>6, <1>8 DEF PoolInv

\* A call that only goes on with its claim, or ends.
LEMMA CleaningMove ==
    ASSUME PoolInv, TypeOK', NEW r \in Releases, NEW label \in ReleaseLabels, NEW call \in Call,
           Goto(r, label, call), UNCHANGED <<rows, workers, data, pvcs, apart>>, Careful,
           lock' = lock \/ lock \in {r, None}, label \notin {"release", "delete"}, pc[r] # "idle",
           \/ label = "idle" /\ call = NoCall
           \/ call.claim = loc[r].claim /\ call.inst = None /\ label # "unbind"
    PROVE  PoolInv'
<1>1. loc[r].claim \in Claims BY DEF PoolInv, ReleaseInv
<1> QED BY <1>1, NoCallType, ReleaseMove

LEMMA PoolLook ==
    ASSUME PoolInv, NEW r \in Releases, NEW c \in Claims, Look(r, c)
    PROVE  PoolInv'
<1> DEFINE call == [NoCall EXCEPT !.claim = c]
<1>0. /\ TypeOK' /\ CallInv /\ r \in Procs /\ UNCHANGED <<rows, workers, data, pvcs, cleaner, lock>> /\ pc[r] = "idle"
      /\ Goto(r, "precheck", call)
  BY TypeRelease, Kinds DEF Look, PoolInv, cluster
<1>1. apart' \subseteq apart /\ \A i \in apart' : pc[i] \notin AllocLabels BY DEF Look
<1>2. call \in Call /\ call.claim = c /\ call.inst = None BY NoCallType DEF Call
<1> HIDE DEF call
<1>3. pc'[r] = "precheck" /\ \A s \in Releases : s # r => pc'[s] = pc[s] /\ loc'[s] = loc[s]
  BY <1>0, Kinds, GotoMoves
<1>4. Careful BY <1>0, <1>3 DEF Careful, Cleaning, Wiped
<1> QED BY <1>0, <1>1, <1>2, <1>4, ReleaseMove

LEMMA PoolPreCheck ==
    ASSUME PoolInv, NEW r \in Releases, PreCheck(r)
    PROVE  PoolInv'
<1> DEFINE c == loc[r].claim
<1>0. /\ TypeOK' /\ CallInv /\ ReleaseInv /\ r \in Procs /\ pc[r] = "precheck"
      /\ UNCHANGED <<rows, workers, data, pvcs, cleaner, lock, apart>>
      /\ loc[r] \in Call /\ loc[r].inst = None
  BY TypeRelease, Kinds DEF PreCheck, PoolInv, cluster, ReleaseStep, CallInv, ReleaseInv
<1>1. CASE End(r)
  <2>1. pc'[r] = "idle" /\ \A s \in Releases : s # r => pc'[s] = pc[s] /\ loc'[s] = loc[s]
    BY <1>0, <1>1, Kinds, GotoMoves DEF End
  <2>2. Careful BY <1>0, <2>1 DEF Careful, Cleaning, Wiped
  <2> QED BY <1>0, <1>1, <2>2, NoCallType, CleaningMove DEF End
<1>2. ASSUME NEW call \in Call, call.claim = c, call.inst = None, Goto(r, "reset", call),
             \A i \in Owners(c) : Releasable(i)
      PROVE  PoolInv'
  <2>1. pc'[r] = "reset" /\ loc'[r] = call /\ \A s \in Releases : s # r => pc'[s] = pc[s] /\ loc'[s] = loc[s]
    BY <1>0, <1>2, Kinds, GotoMoves
  <2>2. \A i \in Owners(c) : rows[i].state # "busy" BY <1>2 DEF Releasable
  <2>3. Careful BY <1>0, <1>2, <2>1, <2>2 DEF Careful, Cleaning, Wiped
  <2> QED BY <1>0, <1>2, <2>3, CleaningMove
<1>3. CASE Owners(c) = {} /\ Goto(r, "reset", loc[r]) BY <1>0, <1>2, <1>3
<1>4. ASSUME NEW i \in Owners(c), \A j \in Owners(c) : Releasable(j), Goto(r, "reset", [loc[r] EXCEPT !.pre = i])
      PROVE  PoolInv'
  <2> DEFINE call == [loc[r] EXCEPT !.pre = i]
  <2>1. i \in Instances BY DEF Owners
  <2>2. call \in Call /\ call.claim = c /\ call.inst = None BY <1>0, <2>1 DEF Call
  <2>3. Goto(r, "reset", call) BY <1>4
  <2> HIDE DEF call
  <2> QED BY <1>2, <1>4, <2>2, <2>3
<1> QED BY <1>1, <1>3, <1>4 DEF PreCheck

LEMMA PoolCleaner ==
    ASSUME PoolInv, NEW r \in Releases, ResetCleaner(r) \/ CreateCleaner(r) \/ Cleaned(r) \/ NotCleaned(r)
    PROVE  PoolInv'
<1> DEFINE c == loc[r].claim
<1>0. /\ TypeOK' /\ TypeOK /\ CallInv /\ ReleaseInv /\ r \in Procs /\ pc[r] \in {"reset", "clean", "cleaning"}
      /\ UNCHANGED <<rows, workers, data, pvcs, lock, apart>>
      /\ loc[r] \in Call /\ loc[r].inst = None /\ c \in Claims
  BY TypeRelease, Kinds
     DEF ResetCleaner, CreateCleaner, Cleaned, NotCleaned, PoolInv, ReleaseStep, CallInv, ReleaseInv
<1>1. \A state : SetCleaner(c, state) => cleaner'[c] = state /\ \A d \in Claims : d # c => cleaner'[d] = cleaner[d]
  BY <1>0 DEF SetCleaner, TypeOK
<1>2. ASSUME NEW label \in {"idle", "clean", "cleaning", "lock"}, NEW call, Goto(r, label, call),
             \/ UNCHANGED cleaner \/ SetCleaner(c, "absent") \/ SetCleaner(c, "running"),
             label = "idle" => call = NoCall, label # "idle" => call = loc[r],
             label = "lock" => cleaner[c] = "succeeded"
      PROVE  PoolInv'
  <2>1. pc'[r] = label /\ loc'[r] = call /\ \A s \in Releases : s # r => pc'[s] = pc[s] /\ loc'[s] = loc[s]
    BY <1>0, <1>2, Kinds, GotoMoves
  <2>2. \A d \in Claims : d # c => cleaner'[d] = cleaner[d] BY <1>1, <1>2
  <2>3. cleaner'[c] = "succeeded" => cleaner[c] = "succeeded" BY <1>1, <1>2
  <2>4. Cleaning(c) BY <1>0 DEF Cleaning
  <2>5. NoCall.claim = None /\ None \notin Claims BY NoCallType, Kinds
  <2>6. \A d \in Claims : Cleaning(d)' => Cleaning(d) BY <1>2, <2>1, <2>2, <2>4, <2>5 DEF Cleaning
  <2>7. \A d \in Claims : Wiped(d)' => Wiped(d) BY <1>2, <2>1, <2>2, <2>3, <2>5 DEF Wiped
  <2>8. Careful BY <2>6, <2>7 DEF Careful
  <2>9. call \in Call BY <1>0, <1>2, NoCallType
  <2> QED BY <1>0, <1>2, <2>8, <2>9, CleaningMove
<1>3. CASE ResetCleaner(r) BY <1>2, <1>3 DEF ResetCleaner, Sweep
<1>4. CASE CreateCleaner(r) BY <1>2, <1>4 DEF CreateCleaner, End
<1>5. CASE Cleaned(r) BY <1>2, <1>5 DEF Cleaned, Sweep
<1>6. CASE NotCleaned(r) BY <1>2, <1>6 DEF NotCleaned, Sweep, End
<1> QED BY <1>3, <1>4, <1>5, <1>6

LEMMA PoolValidate ==
    ASSUME PoolInv, NEW r \in Releases, Validate(r)
    PROVE  PoolInv'
<1> DEFINE c == loc[r].claim
<1>0. /\ TypeOK' /\ TypeOK /\ CallInv /\ ReleaseInv /\ OwnerInv /\ r \in Procs /\ pc[r] = "lock" /\ lock = None
      /\ UNCHANGED <<rows, workers, data, pvcs, cleaner, apart>>
      /\ loc[r] \in Call /\ loc[r].inst = None /\ c \in Claims
  BY TypeRelease, Kinds DEF Validate, cluster, PoolInv, ReleaseStep, CallInv, ReleaseInv
<1>1. ASSUME NEW label, NEW call, Goto(r, label, call), label = "idle" \/ (label = "release" /\ call.claim = c)
      PROVE  Careful
  <2>1. pc'[r] = label /\ loc'[r] = call /\ \A s \in Releases : s # r => pc'[s] = pc[s] /\ loc'[s] = loc[s]
    BY <1>0, <1>1, Kinds, GotoMoves
  <2> QED BY <1>0, <1>1, <2>1 DEF Careful, Cleaning, Wiped
<1>2. CASE End(r)
  <2>1. Goto(r, "idle", NoCall) BY <1>2 DEF End
  <2>2. Careful BY <1>1, <2>1
  <2> QED BY <1>0, <2>1, <2>2, NoCallType, CleaningMove
<1>3. ASSUME NEW call \in Call, call.claim = c, Goto(r, "release", call), lock' = r, Valid(r, c),
             Owners(c) \subseteq {call.inst}, call.inst # None => call.inst \in Owners(c)
      PROVE  PoolInv'
  <2>1. Careful BY <1>1, <1>3
  <2>2. workers[c] = {} BY <1>3 DEF Valid, NoActiveMounts
  <2>3. call.inst # None => rows[call.inst].claim = c /\ Releasable(call.inst) /\ pc[call.inst] = "idle"
    BY <1>3 DEF Owners, Valid, InstanceFree
  <2> QED BY <1>0, <1>3, <2>1, <2>2, <2>3, ReleaseMove
<1>4. CASE lock' = r /\ Valid(r, c) /\ Owners(c) = {} /\ Goto(r, "release", [loc[r] EXCEPT !.pre = None])
  <2> DEFINE call == [loc[r] EXCEPT !.pre = None]
  <2>1. call \in Call /\ call.claim = c /\ call.inst = None BY <1>0 DEF Call
  <2>2. Goto(r, "release", call) BY <1>4
  <2> HIDE DEF call
  <2> QED BY <1>3, <1>4, <2>1, <2>2
<1>5. ASSUME lock' = r, Valid(r, c), NEW i \in Owners(c),
             Goto(r, "release", [loc[r] EXCEPT !.pre = None, !.inst = i])
      PROVE  PoolInv'
  <2> DEFINE call == [loc[r] EXCEPT !.pre = None, !.inst = i]
  <2>0. i \in Instances BY DEF Owners
  <2>1. call \in Call /\ call.claim = c /\ call.inst = i BY <1>0, <2>0 DEF Call
  <2>2. Goto(r, "release", call) BY <1>5
  <2>3. Owners(c) \subseteq {i} BY <1>0, Kinds DEF Owners, OwnerInv
  <2> HIDE DEF call
  <2> QED BY <1>3, <1>5, <2>1, <2>2, <2>3
<1> QED BY <1>2, <1>4, <1>5, ZenonT(60) DEF Validate

\* What the commit of a release may forget: the row of an instance that does nothing.
LEMMA ReleaseFacts ==
    ASSUME PoolInv, NEW r \in Releases, Release(r), NEW i \in Instances, i = loc[r].inst
    PROVE  /\ rows[i].claim = loc[r].claim /\ rows[i].state # "busy" /\ pc[i] = "idle"
           /\ workers[loc[r].claim] = {} /\ loc[r].claim \in Claims /\ Wiped(loc[r].claim)
           /\ Owners(loc[r].claim) \subseteq {i} /\ (i \in apart => data[loc[r].claim] # i)
<1>1. ReleaseInv /\ ApartInv /\ pc[r] = "release" /\ i # None BY Kinds DEF PoolInv, Release
<1>2. /\ rows[i].claim = loc[r].claim /\ Releasable(i) /\ pc[i] = "idle" /\ workers[loc[r].claim] = {}
      /\ loc[r].claim \in Claims /\ Owners(loc[r].claim) \subseteq {i}
  BY <1>1 DEF ReleaseInv
<1>3. Wiped(loc[r].claim) BY <1>1 DEF Wiped
<1>4. i \in apart => data[loc[r].claim] # i BY <1>1, <1>2, <1>3 DEF ApartInv
<1> QED BY <1>2, <1>3, <1>4 DEF Releasable

LEMMA PoolRelease ==
    ASSUME PoolInv, NEW r \in Releases, Release(r)
    PROVE  PoolInv'
<1> DEFINE c == loc[r].claim  i == loc[r].inst  call == [NoCall EXCEPT !.claim = c]
<1>0. TypeOK /\ CallInv /\ AllocInv /\ ReleaseInv /\ OwnerInv /\ ApartInv /\ r \in Procs /\ TypeOK'
  BY Kinds, TypeRelease DEF PoolInv, ReleaseStep
<1>1. pc[r] = "release" /\ Goto(r, "delete", call) /\ UNCHANGED <<pvcs, workers, cleaner, data, apart>> /\ Unlock(r)
  BY DEF Release, cluster
<1>2. c \in Claims /\ lock = r /\ lock' = None /\ i \in Instances \cup {None} /\ Owners(c) \subseteq {i}
  BY <1>0, <1>1 DEF ReleaseInv, CallInv, Call, Unlock
<1>3. call \in Call /\ call.claim = c /\ call.inst = None BY <1>2, NoCallType DEF Call
<1> HIDE DEF call
<1>4. /\ pc'[r] = "delete" /\ loc'[r] = call
      /\ \A q \in Procs : q # r => pc'[q] = pc[q] /\ loc'[q] = loc[q]
      /\ pc' \in [Procs -> InstanceLabels \cup ReleaseLabels] /\ loc' \in [Procs -> Call]
  BY <1>0, <1>1, <1>3, GotoMoves
<1>5. \A j \in Instances : j # r /\ j \in Procs /\ pc'[j] = pc[j] /\ loc'[j] = loc[j] BY <1>4, Kinds
<1>6. /\ \A j \in Instances : j # i => rows'[j] = rows[j]
      /\ i \in Instances => rows'[i] = NoRow /\ rows[i].state # "busy" /\ pc[i] = "idle"
  <2>1. i \in Instances => rows[i].state # "busy" /\ pc[i] = "idle" BY ReleaseFacts
  <2> QED BY <1>0, <2>1, Kinds DEF Release, TypeOK
<1>7. (\A j \in Instances : pc[j] \notin LockedLabels) /\ \A s \in Releases : s # r => pc[s] # "release"
  BY <1>0, <1>2, Kinds DEF CallInv
<1>8. CallInv' BY <1>0, <1>4, <1>5, <1>7, Kinds DEF CallInv
<1>9. AllocInv' BY <1>0, <1>5, <1>6, <1>7 DEF AllocInv
<1>10. ReleaseInv' BY <1>0, <1>2, <1>3, <1>4, <1>7, Kinds DEF ReleaseInv
<1>11. OwnerInv'
  <2>1. NoRow.claim = None BY DEF NoRow
  <2>2. \A j, k \in Instances : rows'[j].claim # None /\ rows'[j].claim = rows'[k].claim => j = k
    BY <1>0, <1>6, <2>1 DEF OwnerInv
  <2>3. \A d \in Claims : \A j \in workers[d] : rows'[j].claim = d /\ rows'[j].state = "busy"
    BY <1>0, <1>6 DEF OwnerInv, TypeOK
  <2> QED BY <1>1, <2>2, <2>3 DEF OwnerInv
<1>12. \A d \in Claims : (Cleaning(d)' => Cleaning(d)) /\ (Wiped(d)' => Wiped(d))
  BY <1>1, <1>4, Kinds DEF Cleaning, Wiped
<1>13. \A j \in apart : j \in Instances /\ pc'[j] \notin AllocLabels
  <2>1. ~NoRelease BY <1>1 DEF NoRelease
  <2> QED BY <1>0, <1>5, <2>1 DEF ApartInv, TypeOK
<1>14. ApartInv'
  <2> SUFFICES ASSUME NEW j \in apart, NEW d \in Claims, rows'[j].claim = d
               PROVE  /\ Reserved(pvcs[d], rows'[j].uid)
                      /\ \A s \in Releases : pc'[s] \in {"delete", "unbind"} => loc'[s].claim # d
                      /\ Cleaning(d)' => rows'[j].state # "busy"
                      /\ Wiped(d)' => data[d] # j
    BY <1>1, <1>13 DEF ApartInv
  <2>1. j # i /\ rows'[j] = rows[j] BY <1>6, <1>13, Kinds DEF NoRow
  <2>2. d # c BY <1>2, <1>13, <2>1 DEF Owners
  <2>3. \A s \in Releases : pc'[s] \in {"delete", "unbind"} => loc'[s].claim # d
    BY <1>0, <1>3, <1>4, <2>1, <2>2, Kinds DEF ApartInv
  <2> QED BY <1>0, <1>12, <2>1, <2>3 DEF ApartInv
<1> QED BY <1>0, <1>8, <1>9, <1>10, <1>11, <1>14 DEF PoolInv

LEMMA PoolUnbind ==
    ASSUME PoolInv, NEW r \in Releases, DeleteClaim(r) \/ UnbindVolume(r)
    PROVE  PoolInv'
<1> DEFINE c == loc[r].claim
<1>0. /\ TypeOK' /\ TypeOK /\ CallInv /\ ReleaseInv /\ ApartInv /\ r \in Procs /\ pc[r] \in {"delete", "unbind"}
      /\ UNCHANGED <<rows, workers, data, cleaner, apart, lock>>
      /\ loc[r] \in Call /\ loc[r].inst = None /\ c \in Claims
  BY TypeRelease, Kinds DEF DeleteClaim, UnbindVolume, PoolInv, ReleaseStep, CallInv, ReleaseInv
<1>1. \A i \in apart : rows[i].claim # c BY <1>0 DEF ApartInv
<1>2. ASSUME NEW label, NEW call, Goto(r, label, call), label \in {"idle", "unbind"} PROVE Careful
  <2>1. pc'[r] = label /\ loc'[r] = call /\ \A s \in Releases : s # r => pc'[s] = pc[s] /\ loc'[s] = loc[s]
    BY <1>0, <1>2, Kinds, GotoMoves
  <2> QED BY <1>0, <1>2, <2>1 DEF Careful, Cleaning, Wiped
<1>3. CASE DeleteClaim(r)
  <2>1. Goto(r, "unbind", loc[r]) /\ \A d \in Claims : d # c => pvcs'[d] = pvcs[d]
    BY <1>0, <1>3 DEF DeleteClaim, TypeOK
  <2>2. Careful BY <1>2, <2>1
  <2> QED BY <1>0, <1>1, <2>1, <2>2, ReleaseMove
<1>4. CASE UnbindVolume(r)
  <2>1. Goto(r, "idle", NoCall) /\ UNCHANGED pvcs BY <1>4 DEF UnbindVolume, End
  <2>2. Careful BY <1>2, <2>1
  <2> QED BY <1>0, <2>1, <2>2, NoCallType, CleaningMove
<1> QED BY <1>3, <1>4

LEMMA PoolInterruptRelease ==
    ASSUME PoolInv, NEW r \in Releases, Interrupt(r)
    PROVE  PoolInv'
<1> DEFINE c == loc[r].claim
<1>0. TypeOK /\ CallInv /\ ReleaseInv /\ r \in Procs BY Kinds DEF PoolInv
<1>1. TypeOK' BY <1>0, TypeRest
<1>2. UNCHANGED <<rows, workers, data, pvcs, apart>> /\ Goto(r, "idle", NoCall) /\ pc[r] # "idle" /\ Unlock(r)
  BY DEF Interrupt, End
<1>3. c \in Claims BY <1>0, <1>2 DEF ReleaseInv
<1>4. pc'[r] = "idle" /\ \A s \in Releases : s # r => pc'[s] = pc[s] /\ loc'[s] = loc[s]
  BY <1>0, <1>2, Kinds, GotoMoves
<1>5. \A d \in Claims : cleaner'[d] = cleaner[d] \/ cleaner'[d] = "absent"
  BY <1>0, <1>3 DEF Interrupt, SetCleaner, TypeOK
<1>6. Careful BY <1>4, <1>5 DEF Careful, Cleaning, Wiped
<1>7. lock' = lock \/ lock \in {r, None} BY <1>2 DEF Unlock
<1> QED BY <1>1, <1>2, <1>6, <1>7, NoCallType, CleaningMove

--------------------------------------------------------------------------------
(* The volume controller and the cleaner's Pod                              *)

LEMMA ClusterMove ==
    ASSUME PoolInv, TypeOK', UNCHANGED <<rows, workers, lock, pc, loc, apart>>, KeepsReserved,
           \A c \in Claims : /\ cleaner'[c] = "absent" <=> cleaner[c] = "absent"
                             /\ \/ data'[c] = None
                                \/ data'[c] = data[c] /\ (cleaner'[c] = "succeeded" => cleaner[c] = "succeeded")
    PROVE  PoolInv'
<1>0. TypeOK /\ CallInv /\ AllocInv /\ ReleaseInv /\ OwnerInv /\ ApartInv BY DEF PoolInv
<1>1. CallInv' BY <1>0 DEF CallInv
<1>2. AllocInv' BY <1>0 DEF AllocInv, Owners
<1>3. ReleaseInv' BY <1>0 DEF ReleaseInv, Owners, Releasable
<1>4. OwnerInv' BY <1>0 DEF OwnerInv
<1>5. (NoRelease' <=> NoRelease) /\ \A c \in Claims : Cleaning(c)' <=> Cleaning(c) BY DEF NoRelease, Cleaning
<1>6. ApartInv'
  <2> SUFFICES ASSUME NEW i \in apart
               PROVE  /\ pc[i] = "commit" => Reserved(pvcs'[loc[i].claim], loc[i].uid)
                      /\ \A c \in Claims : rows[i].claim = c =>
                           /\ Reserved(pvcs'[c], rows[i].uid)
                           /\ Wiped(c)' => data'[c] # i
    BY <1>0, <1>5 DEF ApartInv
  <2>0. i \in Instances /\ i \in Procs /\ i # None BY <1>0, Kinds DEF TypeOK
  <2>1. pc[i] = "commit" => Reserved(pvcs'[loc[i].claim], loc[i].uid)
    <3>1. pc[i] = "commit" => loc[i].claim \in Claims /\ loc[i].uid \in 1..MaxUid
      BY <1>0, <2>0, PoolAssumption DEF AllocInv, CallInv, Call
    <3> QED BY <1>0, <3>1 DEF ApartInv, KeepsReserved
  <2>2. ASSUME NEW c \in Claims, rows[i].claim = c
        PROVE  Reserved(pvcs'[c], rows[i].uid) /\ (Wiped(c)' => data'[c] # i)
    <3>1. rows[i].uid \in 1..MaxUid BY <1>0, <2>0, <2>2, RowFacts, Kinds, PoolAssumption
    <3>2. Wiped(c)' => data'[c] = None \/ (Wiped(c) /\ data'[c] = data[c]) BY DEF Wiped
    <3> QED BY <1>0, <2>0, <2>2, <3>1, <3>2 DEF ApartInv, KeepsReserved
  <2> QED BY <2>1, <2>2
<1> QED BY <1>1, <1>2, <1>3, <1>4, <1>6 DEF PoolInv

LEMMA PoolController ==
    ASSUME PoolInv, (\E c \in Claims : Controller(c)) \/ UNCHANGED vars
    PROVE  PoolInv'
<1>0. TypeOK' /\ TypeOK BY TypeRest DEF PoolInv
<1>1. CASE UNCHANGED vars BY <1>0, <1>1, ClusterMove DEF vars, cluster, calls, KeepsReserved
<1>2. ASSUME NEW c \in Claims, Bind(c) \/ Finalize(c) \/ Forsake(c) PROVE PoolInv'
  <2>1. UNCHANGED <<rows, workers, lock, pc, loc, apart, cleaner, data>>
    BY <1>2 DEF Bind, Finalize, Forsake, calls
  <2>2. CASE Bind(c)
    <3>1. \A d \in Claims : pvcs'[d].uid = pvcs[d].uid /\ pvcs'[d].doomed = pvcs[d].doomed
      BY <1>0, <2>2 DEF TypeOK, Claim, Bind
    <3>2. KeepsReserved BY <3>1 DEF KeepsReserved, Reserved
    <3> QED BY <1>0, <2>1, <3>2, ClusterMove
  <2>3. CASE Finalize(c)
    <3>1. KeepsReserved BY <1>0, <2>3 DEF KeepsReserved, Reserved, TypeOK, Finalize
    <3> QED BY <1>0, <2>1, <3>1, ClusterMove
  <2>4. CASE Forsake(c)
    <3>1. KeepsReserved BY <2>4 DEF KeepsReserved, Forsake
    <3> QED BY <1>0, <2>1, <3>1, ClusterMove
  <2> QED BY <1>2, <2>2, <2>3, <2>4
<1>3. ASSUME NEW c \in Claims, RunCleaner(c) PROVE PoolInv'
  <2>1. UNCHANGED <<rows, workers, lock, pc, loc, apart, pvcs>> BY <1>3 DEF RunCleaner, calls
  <2>2. KeepsReserved BY <2>1 DEF KeepsReserved
  <2>3. \A d \in Claims : /\ cleaner'[d] = "absent" <=> cleaner[d] = "absent"
                          /\ \/ data'[d] = None
                             \/ data'[d] = data[d] /\ (cleaner'[d] = "succeeded" => cleaner[d] = "succeeded")
    BY <1>0, <1>3 DEF RunCleaner, SetCleaner, TypeOK
  <2> QED BY <1>0, <2>1, <2>2, <2>3, ClusterMove
<1> QED BY <1>1, <1>2, <1>3 DEF Controller

--------------------------------------------------------------------------------
(* Theorems                                                                 *)

LEMMA PoolInit == Init => PoolInv
<1> SUFFICES ASSUME Init PROVE PoolInv OBVIOUS
<1> DEFINE fresh == [uid |-> 1, owner |-> None, bound |-> TRUE, doomed |-> FALSE]
<1>1. fresh \in Claim /\ fresh.uid = 1 BY Kinds DEF Claim
<1>2. pvcs \in [Claims -> {NoClaim, fresh}] BY DEF Init
<1> HIDE DEF fresh
<1>3. \A c \in Claims : pvcs[c] \in Claim /\ pvcs[c].uid \in 0..MaxUid /\ pvcs[c].uid \in {0, 1} BY <1>1, <1>2, ClaimTypes
<1>4. TypeOK
  <2>1. pvcs \in [Claims -> Claim] BY <1>1, <1>2, ClaimTypes
  <2>2. pvs \in [Claims -> Volume] BY <1>3, ClaimTypes, Kinds DEF Init
  <2>3. made \in [Claims -> 0..MaxUid] BY <1>3 DEF Init
  <2> QED BY <2>1, <2>2, <2>3, ClaimTypes, PoolAssumption DEF Init, TypeOK
<1>5. CallInv BY Kinds, NoCallType DEF Init, CallInv
<1>6. AllocInv BY Kinds DEF Init, AllocInv
<1>7. ReleaseInv BY Kinds, NoCallType DEF Init, ReleaseInv
<1>8. OwnerInv BY DEF Init, OwnerInv, NoRow
<1>9. ApartInv BY DEF Init, ApartInv
<1> QED BY <1>4, <1>5, <1>6, <1>7, <1>8, <1>9 DEF PoolInv

LEMMA PoolNext == PoolInv /\ [Next]_vars => PoolInv'
<1> SUFFICES ASSUME PoolInv, [Next]_vars PROVE PoolInv' OBVIOUS
<1>1. ASSUME NEW i \in Instances, Begin(i) \/ Reserve(i) \/ Resume(i) \/ Mark(i) \/ Stop(i) \/ Retain(i)
      PROVE  PoolInv'
  BY <1>1, PoolBegin, PoolTakeLock, PoolReuse, PoolPick, PoolEnsure, PoolInspectAgain, PoolCommit, PoolLaunch,
     PoolOwner, PoolMark DEF Reserve
<1>2. ASSUME NEW r \in Releases, (\E c \in Claims : Look(r, c)) \/ ReleaseStep(r)
      PROVE  PoolInv'
  BY <1>2, PoolLook, PoolPreCheck, PoolCleaner, PoolValidate, PoolRelease, PoolUnbind DEF ReleaseStep
<1>3. ASSUME NEW p \in Procs, Interrupt(p) PROVE PoolInv'
  BY <1>3, PoolInterruptInstance, PoolInterruptRelease DEF Procs
<1> QED BY <1>1, <1>2, <1>3, PoolController DEF Next

\* The inductive invariant of the pool: whoever is past the pool lock holds it, an allocator
\* works on a claim that nobody else has, a validated release works on the row of an
\* instance that does nothing, and no release comes near the claim of an instance whose
\* calls kept apart from all releases.
THEOREM PoolInvariant == Spec => []PoolInv
<1>1. PoolInv /\ [Next]_vars => PoolInv' BY PoolNext
<1> QED BY <1>1, PoolInit, PTL DEF Spec

\* Reserve and ReleaseWorkspace keep the types of rows, volumes, the lock and the calls.
THEOREM PoolTypes == Spec => []TypeOK
<1>1. PoolInv => TypeOK BY DEF PoolInv
<1> QED BY <1>1, PoolInvariant, PTL

\* Whatever the number of instances, claims and releases, and wherever a call is cut off, no
\* two instances hold one claim, only its owner mounts a volume, and the PVC of an instance
\* that no release overlapped is the one it reserved.
THEOREM OneOwnerPerClaim == Spec => []OneOwner
<1>1. PoolInv => OneOwner
  <2> SUFFICES ASSUME PoolInv, NEW i \in apart, rows[i].claim # None
               PROVE  pvcs[rows[i].claim].uid = rows[i].uid /\ ~pvcs[rows[i].claim].doomed
    BY DEF OneOwner, PoolInv, OwnerInv
  <2>1. rows[i].claim \in Claims BY RowFacts DEF PoolInv, TypeOK
  <2> QED BY <2>1 DEF PoolInv, ApartInv, Reserved
<1> QED BY <1>1, PoolInvariant, PTL

LEMMA WipeStep ==
    ASSUME PoolInv, [Next]_vars, NEW c \in Claims, NEW i \in Instances,
           data[c] = i, data'[c] = None, rows[i].claim = c, rows[i].state = "busy"
    PROVE  i \notin apart
<1>0. TypeOK /\ AllocInv /\ ApartInv /\ i # None BY Kinds DEF PoolInv
<1>1. ASSUME NEW j \in Instances, Launch(j) PROVE FALSE BY <1>0, <1>1, Kinds DEF Launch, TypeOK
<1>2. ASSUME NEW d \in Claims, RunCleaner(d) PROVE i \notin apart
  <2>1. d = c BY <1>0, <1>2 DEF RunCleaner, TypeOK
  <2>2. Cleaning(c) BY <1>2, <2>1 DEF RunCleaner, Cleaning
  <2> QED BY <1>0, <2>2 DEF ApartInv
<1>3. ~UNCHANGED data BY SMTT(40), <1>0
<1>4. ASSUME NEW j \in Instances, Begin(j) \/ Reserve(j) \/ Resume(j) \/ Mark(j) \/ Stop(j) \/ Retain(j)
      PROVE  FALSE
  BY <1>1, <1>3, <1>4
     DEF Begin, Reserve, Resume, Mark, Stop, Retain, TakeLock, Reuse, Pick, Exhausted, EnsureClaim, EnsureRef,
         InspectAgain, Commit, cluster
<1>5. ASSUME NEW r \in Releases, (\E d \in Claims : Look(r, d)) \/ ReleaseStep(r) PROVE FALSE
  BY <1>3, <1>5
     DEF Look, ReleaseStep, PreCheck, ResetCleaner, CreateCleaner, Cleaned, NotCleaned, Validate, Release,
         DeleteClaim, UnbindVolume, cluster
<1>6. ASSUME NEW d \in Claims, Controller(d) PROVE i \notin apart
  BY <1>2, <1>3, <1>6 DEF Controller, Bind, Finalize, Forsake
<1>7. ASSUME NEW p \in Procs, Interrupt(p) PROVE FALSE BY <1>3, <1>7 DEF Interrupt
<1>8. ~UNCHANGED vars BY <1>3 DEF vars, cluster
<1> QED BY <1>4, <1>5, <1>6, <1>7, <1>8 DEF Next

LEMMA ForgetStep ==
    ASSUME PoolInv, [Next]_vars, NEW c \in Claims, NEW i \in Instances,
           rows[i].claim = c, rows'[i].claim = None
    PROVE  rows[i].state # "busy" /\ workers[c] = {} /\ (data[c] = i => i \notin apart)
<1>0. TypeOK /\ AllocInv /\ i # None /\ c # None BY Kinds DEF PoolInv
<1>1. ASSUME NEW j \in Instances, Commit(j) PROVE FALSE
  <2>1. loc[j].claim \in Claims BY <1>0, <1>1 DEF Commit, AllocInv
  <2> QED BY <1>0, <1>1, <2>1, Kinds DEF Commit, TypeOK
<1>2. ASSUME NEW j \in Instances, Resume(j) \/ Stop(j) \/ Retain(j) PROVE FALSE
  <2>1. rows[j].state # "none" BY <1>2 DEF Resume, Stop, Retain
  <2>2. rows[j] \in [claim : Claims, uid : 1..MaxUid, state : {"busy", "stopped", "retained"}]
    BY <1>0, <2>1, RowFacts DEF Row, NoRow
  <2>3. PICK state : rows' = [rows EXCEPT ![j].state = state] BY <1>2 DEF Resume, Stop, Retain
  <2> QED BY <1>0, <2>2, <2>3 DEF TypeOK
<1>3. ASSUME NEW r \in Releases, Release(r)
      PROVE  rows[i].state # "busy" /\ workers[c] = {} /\ (data[c] = i => i \notin apart)
  <2>1. i = loc[r].inst BY <1>0, <1>3 DEF Release, TypeOK
  <2> QED BY SMTT(40), <1>3, <2>1, ReleaseFacts
<1>4. ~UNCHANGED rows BY <1>0
<1>5. ASSUME NEW j \in Instances, Begin(j) \/ Reserve(j) \/ Resume(j) \/ Mark(j) \/ Stop(j) \/ Retain(j)
      PROVE  FALSE
  BY <1>1, <1>2, <1>4, <1>5
     DEF Begin, Reserve, Mark, TakeLock, Reuse, Pick, Exhausted, EnsureClaim, EnsureRef, InspectAgain, Launch
<1>6. ASSUME NEW r \in Releases, (\E d \in Claims : Look(r, d)) \/ ReleaseStep(r) PROVE Release(r)
  BY <1>4, <1>6
     DEF Look, ReleaseStep, PreCheck, ResetCleaner, CreateCleaner, Cleaned, NotCleaned, Validate,
         DeleteClaim, UnbindVolume
<1>7. ASSUME NEW d \in Claims, Controller(d) PROVE FALSE
  BY <1>4, <1>7 DEF Controller, Bind, Finalize, Forsake, RunCleaner
<1>8. ASSUME NEW p \in Procs, Interrupt(p) PROVE FALSE BY <1>4, <1>8 DEF Interrupt
<1>9. ~UNCHANGED vars BY <1>4 DEF vars
<1> QED BY <1>3, <1>5, <1>6, <1>7, <1>8, <1>9 DEF Next

\* CleanWorkspacePod, which runs before the pool lock is taken, wipes no running instance
\* that kept apart from releases, and ReleaseWorkspace forgets no row of a running instance
\* and leaves no such instance's files behind.
THEOREM ReleaseSparesRunning == Spec => WipesOnlyIdle
<1> DEFINE Spares == \A c \in Claims, i \in Instances :
             /\ data[c] = i /\ data'[c] = None /\ rows[i].claim = c /\ rows[i].state = "busy" => i \notin apart
             /\ rows[i].claim = c /\ rows'[i].claim = None =>
                  rows[i].state # "busy" /\ workers[c] = {} /\ (data[c] = i => i \notin apart)
<1>1. PoolInv /\ [Next]_vars => [Spares]_vars
  <2> SUFFICES ASSUME PoolInv, [Next]_vars PROVE Spares OBVIOUS
  <2> QED BY WipeStep, ForgetStep
<1> HIDE DEF Spares
<1>2. Spec => [][Spares]_vars BY <1>1, PoolInvariant, PTL DEF Spec
<1> USE DEF Spares
<1> QED BY <1>2 DEF WipesOnlyIdle
================================================================================
