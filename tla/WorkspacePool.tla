----------------------------- MODULE WorkspacePool -----------------------------
(***************************************************************************)
(* The pool of local volumes that workspace instances (Projects) and App   *)
(* instances (Apps) share: the two allocators, which reserve a claim under *)
(* the pool lock and may have to make it first, and ReleaseWorkspace,      *)
(* which wipes and frees one.  From src/internal/instances/workspaces.go   *)
(* and storage_store.go and the reserve of                                 *)
(* src/internal/appinstances/journal.go.                                   *)
(*                                                                         *)
(* A claim name stands for the PVC of that name and for the one PV that    *)
(* the pool has for it.  What a start or a stop does besides the volume is *)
(* in AppInstance and RuntimeInstance; here a run is "busy" from its       *)
(* acceptance until its Pod is gone.                                       *)
(***************************************************************************)
EXTENDS Naturals

CONSTANTS
    Apps,       \* App instances
    Projects,   \* workspace instances
    Claims,     \* claim names of the pool
    Releases,   \* ReleaseWorkspace calls that may be under way at once
    None,       \* no instance, no claim, nobody
    MaxUid,     \* bound on the PVCs made under one name
    Faults,     \* which faults happen: "interrupt", "clean", "service"
    MaxFaults   \* bound on faults

Instances == Apps \cup Projects
Procs == Instances \cup Releases

ASSUME PoolAssumption ==
    /\ Apps \cap Projects = {} /\ Instances \cap Releases = {} /\ Claims # {}
    /\ None \notin Procs \cup Claims
    /\ MaxUid \in Nat \ {0} /\ MaxFaults \in Nat /\ Faults \subseteq {"interrupt", "clean", "service"}

VARIABLES
    rows,       \* the reservations of both tables
    pvcs,       \* the PVC of each claim name
    pvs,        \* the PV of each claim name: ClaimRef and phase
    made,       \* PVCs made so far under each name
    workers,    \* worker Pods that mount a claim
    cleaner,    \* the Pod ws-clean-<claim>
    data,       \* the instance whose files are on the volume
    lock,       \* holder of the advisory lock runtime-workspaces:<station>
    pc, loc,    \* program counter and locals of each call
    apart,      \* instances none of whose runs was accepted while a release was under way
    faults      \* faults so far

cluster == <<pvcs, pvs, made, workers, cleaner, data>>
calls == <<pc, loc>>
vars == <<rows, cluster, lock, calls, apart, faults>>

--------------------------------------------------------------------------------
(* Rows, claims and volumes                                                 *)

NoRow == [claim |-> None, uid |-> 0, state |-> "none"]
Row == [claim : Claims, uid : 1..MaxUid, state : {"busy", "stopped", "retained"}] \cup {NoRow}

NoClaim == [uid |-> 0, owner |-> None, bound |-> FALSE, doomed |-> FALSE]
Claim == [uid : 0..MaxUid, owner : Instances \cup {None}, bound : BOOLEAN, doomed : BOOLEAN]
Volume == [ref : 0..MaxUid, phase : {"Available", "Bound", "Released"}]
Available == [ref |-> 0, phase |-> "Available"]

NoCall == [claim |-> None, uid |-> 0, pv |-> Available, tried |-> {}, pre |-> None, inst |-> None]

\* Mutant: an allocator does not look into the other one's table.
OwnersHalf(c) == {i \in Projects : rows[i].claim = c}
\* The reservations of a claim, in both tables.
Owners(c) == {i \in Instances : rows[i].claim = c}

\* Both sides of a Bound pair.
Paired(c) ==
    /\ pvcs[c].uid # 0 /\ pvcs[c].bound /\ ~pvcs[c].doomed
    /\ pvs[c] = [ref |-> pvcs[c].uid, phase |-> "Bound"]

\* Inspect without an expected binding: an unowned claim that no Pod mounts, not even a
\* finished one.
Fresh(c) == Paired(c) /\ pvcs[c].owner = None /\ workers[c] = {} /\ cleaner[c] = "absent"

\* Inspect with the binding (c, uid) of instance i.
Holds(i, c, uid) ==
    /\ Paired(c) /\ pvcs[c].uid = uid /\ pvcs[c].owner \in {None, i}
    /\ workers[c] \subseteq {i} /\ cleaner[c] = "absent"

\* Mutant: a PV whose ClaimRef an interrupted release has left is not taken.
UsableFree(c) == pvs[c].ref = 0
\* The PV that EnsurePoolClaim may use: no ClaimRef, or one of this name that is not Bound.
Usable(c) == pvs[c].ref = 0 \/ pvs[c].phase # "Bound"

\* A finished Pod is no active mount.
NoActiveMounts(c) == workers[c] = {} /\ cleaner[c] # "running"

\* A workspace instance has to be destroyed, an App instance only stopped.
Releasable(i) == rows[i].state = (IF i \in Projects THEN "retained" ELSE "stopped")

\* What the operator's list says of a claim; only a retained one is offered for release.
State(c) ==
    CASE pvcs[c].uid = 0 -> "unlisted"
      [] pvcs[c].uid # 0 /\ \E i \in Owners(c) : i \in Projects /\ rows[i].state = "retained" -> "retained"
      [] pvcs[c].uid # 0 /\ Owners(c) = {} /\ NoActiveMounts(c) -> "retained"
      [] pvcs[c].uid # 0 /\ \/ ~NoActiveMounts(c)
                            \/ \E i \in Owners(c) : rows[i].state = "busy" -> "in_use"
      [] OTHER -> "bound_stopped"

\* The lock runtime-instance:<station>:<instance> is free.
InstanceFree(i) == pc[i] = "idle" /\ \A r \in Releases : ~(pc[r] = "release" /\ loc[r].inst = i)

\* (Bookkeeping: no release is under way and none has left its cleaner.)
NoRelease == (\A r \in Releases : pc[r] = "idle") /\ \A c \in Claims : cleaner[c] = "absent"
Enter(i) ==
    apart' = IF ~NoRelease THEN apart \ {i} ELSE IF rows[i] = NoRow THEN apart \cup {i} ELSE apart

Goto(p, label, locals) == pc' = [pc EXCEPT ![p] = label] /\ loc' = [loc EXCEPT ![p] = locals]
End(p) == Goto(p, "idle", NoCall)
Unlock(p) == lock' = IF lock = p THEN None ELSE lock

--------------------------------------------------------------------------------
(* The allocators                                                           *)

\* Create of a workspace instance, Accept of an App instance's start.
Begin(i) ==
    /\ InstanceFree(i)
    /\ rows[i].state = "none" \/ (i \in Apps /\ rows[i].state = "stopped")
    /\ Goto(i, "lock", NoCall) /\ Enter(i)
    /\ UNCHANGED <<rows, cluster, lock, faults>>

TakeLock(i) ==
    /\ pc[i] = "lock" /\ lock = None /\ lock' = i
    /\ Goto(i, IF rows[i].state = "none" THEN "pick" ELSE "reuse", NoCall)
    /\ UNCHANGED <<rows, cluster, apart, faults>>

\* An App instance that has a row keeps it; after a change of profile the row follows
\* the PVC that now has its name, if the pair is in order.
Reuse(i) ==
    LET c == rows[i].claim IN
    /\ pc[i] = "reuse"
    /\ \/ Goto(i, "commit", [NoCall EXCEPT !.claim = c, !.uid = rows[i].uid]) /\ UNCHANGED lock
       \/ /\ Holds(i, c, pvcs[c].uid)
          /\ Goto(i, "commit", [NoCall EXCEPT !.claim = c, !.uid = pvcs[c].uid]) /\ UNCHANGED lock
       \/ ~Holds(i, c, pvcs[c].uid) /\ End(i) /\ Unlock(i)
    /\ UNCHANGED <<rows, cluster, apart, faults>>

Skip(i, c) == Goto(i, "pick", [NoCall EXCEPT !.tried = loc[i].tried \cup {c}])

\* The next claim of the profile that no table names.
Pick(i) ==
    /\ pc[i] = "pick"
    /\ \E c \in Claims \ loc[i].tried :
         CASE Owners(c) = {} /\ pvcs[c].uid = 0 -> Goto(i, "ensure", [loc[i] EXCEPT !.claim = c])
           [] Owners(c) = {} /\ Fresh(c) ->
                Goto(i, "commit", [loc[i] EXCEPT !.claim = c, !.uid = pvcs[c].uid])
           [] OTHER -> Skip(i, c)
    /\ UNCHANGED <<rows, cluster, lock, apart, faults>>

\* ErrCapacity.
Exhausted(i) ==
    /\ pc[i] = "pick" /\ loc[i].tried = Claims
    /\ End(i) /\ Unlock(i) /\ UNCHANGED <<rows, cluster, apart, faults>>

\* EnsurePoolClaim makes the PVC while the transaction is still open ...
EnsureClaim(i) ==
    LET c == loc[i].claim IN
    /\ pc[i] = "ensure"
    /\ \/ /\ pvcs[c].uid = 0 /\ Usable(c) /\ made[c] < MaxUid
          /\ made' = [made EXCEPT ![c] = @ + 1]
          /\ pvcs' = [pvcs EXCEPT ![c] = [NoClaim EXCEPT !.uid = made[c] + 1]]
          /\ Goto(i, "ref", [loc[i] EXCEPT !.uid = made[c] + 1, !.pv = pvs[c]])
       \/ /\ pvcs[c].uid # 0 \/ ~Usable(c) \/ made[c] = MaxUid
          /\ Goto(i, "inspect", loc[i]) /\ UNCHANGED <<pvcs, made>>
    /\ UNCHANGED <<rows, pvs, workers, cleaner, data, lock, apart, faults>>

\* ... and points the PV at it; a conflict is ignored.
EnsureRef(i) ==
    LET c == loc[i].claim IN
    /\ pc[i] = "ref"
    /\ pvs' = IF pvs[c] = loc[i].pv
                THEN [pvs EXCEPT ![c] = [ref |-> loc[i].uid, phase |-> "Bound"]] ELSE pvs
    /\ Goto(i, "inspect", [loc[i] EXCEPT !.uid = 0, !.pv = Available])
    /\ UNCHANGED <<rows, pvcs, made, workers, cleaner, data, lock, apart, faults>>

\* After at most 30 polls for the pair to be Bound.
InspectAgain(i) ==
    LET c == loc[i].claim IN
    /\ pc[i] = "inspect"
    /\ IF Fresh(c) THEN Goto(i, "commit", [loc[i] EXCEPT !.uid = pvcs[c].uid]) ELSE Skip(i, c)
    /\ UNCHANGED <<rows, cluster, lock, apart, faults>>

\* The reservation and the run that needs it are committed together.
Commit(i) ==
    LET c == loc[i].claim IN
    /\ pc[i] = "commit"
    /\ rows' = [rows EXCEPT ![i] = [claim |-> c, uid |-> loc[i].uid, state |-> "busy"]]
    /\ End(i) /\ Unlock(i) /\ UNCHANGED <<cluster, apart, faults>>

--------------------------------------------------------------------------------
(* The owner of a claim                                                     *)

\* Lookup: a workspace instance is started again on the claim of its row.
Resume(i) ==
    /\ i \in Projects /\ InstanceFree(i) /\ rows[i].state = "stopped"
    /\ rows' = [rows EXCEPT ![i].state = "busy"]
    /\ Enter(i)
    /\ UNCHANGED <<cluster, lock, calls, faults>>

\* The claim is checked and marked before a Pod is made ...
Mark(i) ==
    LET c == rows[i].claim IN
    /\ InstanceFree(i) /\ rows[i].state = "busy" /\ i \notin workers[c]
    /\ Holds(i, c, rows[i].uid)
    /\ pvcs' = [pvcs EXCEPT ![c].owner = i]
    /\ Goto(i, "launch", NoCall)
    /\ UNCHANGED <<rows, pvs, made, workers, cleaner, data, lock, apart, faults>>

\* ... which mounts the claim by its name and leaves files on the volume.
Launch(i) ==
    LET c == rows[i].claim IN
    /\ pc[i] = "launch"
    /\ workers' = [workers EXCEPT ![c] = @ \cup {i}]
    /\ data' = IF Paired(c) THEN [data EXCEPT ![c] = i] ELSE data
    /\ End(i) /\ UNCHANGED <<rows, pvcs, pvs, made, cleaner, lock, apart, faults>>

\* The run is over once its Pod is gone.
Stop(i) ==
    LET c == rows[i].claim IN
    /\ InstanceFree(i) /\ rows[i].state = "busy"
    /\ workers' = [workers EXCEPT ![c] = @ \ {i}]
    /\ rows' = [rows EXCEPT ![i].state = "stopped"]
    /\ UNCHANGED <<pvcs, pvs, made, cleaner, data, lock, calls, apart, faults>>

\* Destroy keeps the volume and its row.
Retain(i) ==
    /\ i \in Projects /\ InstanceFree(i) /\ rows[i].state = "stopped"
    /\ Holds(i, rows[i].claim, rows[i].uid)
    /\ rows' = [rows EXCEPT ![i].state = "retained"]
    /\ UNCHANGED <<cluster, lock, calls, apart, faults>>

--------------------------------------------------------------------------------
(* ReleaseWorkspace                                                         *)

Look(r, c) ==
    /\ pc[r] = "idle" /\ pvcs[c].uid # 0 /\ NoActiveMounts(c)
    /\ Goto(r, "precheck", [NoCall EXCEPT !.claim = c])
    /\ apart' = {i \in apart : pc[i] \in {"idle", "launch"}}
    /\ UNCHANGED <<rows, cluster, lock, faults>>

\* inspectWorkspaceBinding: outside any lock or transaction.
PreCheck(r) ==
    LET c == loc[r].claim IN
    /\ pc[r] = "precheck"
    /\ IF \E i \in Owners(c) : ~Releasable(i) THEN End(r)
       ELSE \/ Owners(c) = {} /\ Goto(r, "reset", loc[r])
            \/ \E i \in Owners(c) : Goto(r, "reset", [loc[r] EXCEPT !.pre = i])
    /\ UNCHANGED <<rows, cluster, lock, apart, faults>>

SetCleaner(c, state) == cleaner' = [cleaner EXCEPT ![c] = state]

Fault(kind) == kind \in Faults /\ faults < MaxFaults /\ faults' = faults + 1

\* The cleaner is deleted; an error is ignored, and after 2 s or 5 s the call goes on
\* whether the Pod is gone or not.
Sweep(c) ==
    \/ SetCleaner(c, "absent") /\ UNCHANGED faults
    \/ Fault("clean") /\ UNCHANGED cleaner

\* CleanWorkspacePod removes a Pod that an earlier call left ...
ResetCleaner(r) ==
    /\ pc[r] = "reset" /\ Goto(r, "clean", loc[r]) /\ Sweep(loc[r].claim)
    /\ UNCHANGED <<rows, pvcs, pvs, made, workers, data, lock, apart>>

\* ... makes its own, unless there is one again ...
CreateCleaner(r) ==
    LET c == loc[r].claim IN
    /\ pc[r] = "clean"
    /\ \/ cleaner[c] = "absent" /\ SetCleaner(c, "running") /\ Goto(r, "cleaning", loc[r])
       \/ cleaner[c] # "absent" /\ End(r) /\ UNCHANGED cleaner
    /\ UNCHANGED <<rows, pvcs, pvs, made, workers, data, lock, apart, faults>>

\* (the Pod removes every file on the volume)
RunCleaner(c) ==
    /\ cleaner[c] = "running" /\ pvcs[c].bound
    /\ \/ SetCleaner(c, "succeeded") /\ data' = [data EXCEPT ![c] = None] /\ UNCHANGED faults
       \/ Fault("clean") /\ SetCleaner(c, "failed") /\ UNCHANGED data
    /\ UNCHANGED <<rows, pvcs, pvs, made, workers, lock, calls, apart>>

\* ... and waits for it to succeed.  The Pod is to be removed in any case.
Cleaned(r) ==
    LET c == loc[r].claim IN
    /\ pc[r] = "cleaning" /\ cleaner[c] = "succeeded"
    /\ Sweep(c) /\ Goto(r, "lock", loc[r])
    /\ UNCHANGED <<rows, pvcs, pvs, made, workers, data, lock, apart>>
\* A Pod whose claim is being deleted is never scheduled: the call's deadline ends it.
NotCleaned(r) ==
    LET c == loc[r].claim IN
    /\ pc[r] = "cleaning"
    /\ cleaner[c] \in {"absent", "failed"} \/ (cleaner[c] = "running" /\ ~Paired(c))
    /\ Sweep(c) /\ End(r)
    /\ UNCHANGED <<rows, pvcs, pvs, made, workers, data, lock, apart>>

\* Mutant: the row is not read again under the lock.
ValidTrusting(r, c) == NoActiveMounts(c) /\ pvcs[c].uid # 0
\* lockAndValidateRelease and the checks that follow it.
Valid(r, c) ==
    /\ \A i \in Owners(c) : Releasable(i) /\ InstanceFree(i) /\ loc[r].pre \in {None, i}
    /\ NoActiveMounts(c) /\ pvcs[c].uid # 0

\* Under the pool lock and the instance's lock, if there still is one.  A Service of the
\* instance that is still there, or a Secret that cannot be deleted, ends the call.
Validate(r) ==
    LET c == loc[r].claim IN
    /\ pc[r] = "lock" /\ lock = None
    /\ \/ ~Valid(r, c) /\ End(r) /\ UNCHANGED <<lock, faults>>
       \/ Valid(r, c) /\ Owners(c) # {} /\ Fault("service") /\ End(r) /\ UNCHANGED lock
       \/ /\ Valid(r, c) /\ lock' = r /\ UNCHANGED faults
          /\ \/ Owners(c) = {} /\ Goto(r, "release", [loc[r] EXCEPT !.pre = None])
             \/ \E i \in Owners(c) : Goto(r, "release", [loc[r] EXCEPT !.pre = None, !.inst = i])
    /\ UNCHANGED <<rows, cluster, apart>>

\* Mutant: the row is blanked, not removed.
ReleaseBlank(r) ==
    LET i == loc[r].inst IN
    /\ pc[r] = "release"
    /\ rows' = IF i = None THEN rows ELSE [rows EXCEPT ![i].claim = None]
    /\ Goto(r, "delete", [NoCall EXCEPT !.claim = loc[r].claim]) /\ Unlock(r)
    /\ UNCHANGED <<cluster, apart, faults>>
\* The rows go, and with the commit both locks.
Release(r) ==
    LET i == loc[r].inst IN
    /\ pc[r] = "release"
    /\ rows' = IF i = None THEN rows ELSE [rows EXCEPT ![i] = NoRow]
    /\ Goto(r, "delete", [NoCall EXCEPT !.claim = loc[r].claim]) /\ Unlock(r)
    /\ UNCHANGED <<cluster, apart, faults>>

\* Whatever PVC has the name by now.
DeleteClaim(r) ==
    LET c == loc[r].claim IN
    /\ pc[r] = "delete"
    /\ pvcs' = IF pvcs[c].uid = 0 THEN pvcs ELSE [pvcs EXCEPT ![c].doomed = TRUE]
    /\ Goto(r, "unbind", loc[r])
    /\ UNCHANGED <<rows, pvs, made, workers, cleaner, data, lock, apart, faults>>

\* releasePVClaimRef, when the PVC is gone or after 50 polls.
UnbindVolume(r) ==
    /\ pc[r] = "unbind"
    /\ pvs' = [pvs EXCEPT ![loc[r].claim] = Available]
    /\ End(r)
    /\ UNCHANGED <<rows, pvcs, made, workers, cleaner, data, lock, apart, faults>>

--------------------------------------------------------------------------------
(* Kubernetes' volume controller and failures                               *)

\* A PVC that names its PV is bound when the PV is free or already points at it.
Bind(c) ==
    /\ pvcs[c].uid # 0 /\ ~pvcs[c].doomed /\ ~Paired(c) /\ pvs[c].ref \in {0, pvcs[c].uid}
    /\ pvcs' = [pvcs EXCEPT ![c].bound = TRUE]
    /\ pvs' = [pvs EXCEPT ![c] = [ref |-> pvcs[c].uid, phase |-> "Bound"]]
    /\ UNCHANGED <<rows, made, workers, cleaner, data, lock, calls, apart, faults>>

\* A deleted PVC stays as long as a worker uses it; a cleaner may not be scheduled yet.
Finalize(c) ==
    /\ pvcs[c].doomed /\ workers[c] = {}
    /\ pvcs' = [pvcs EXCEPT ![c] = NoClaim]
    /\ UNCHANGED <<rows, pvs, made, workers, cleaner, data, lock, calls, apart, faults>>

Forsake(c) ==
    /\ pvs[c].phase = "Bound" /\ pvs[c].ref # pvcs[c].uid
    /\ pvs' = [pvs EXCEPT ![c].phase = "Released"]
    /\ UNCHANGED <<rows, pvcs, made, workers, cleaner, data, lock, calls, apart, faults>>

\* A deadline, a lost session or a crash ends a call: its transaction is rolled back and
\* what it did to the cluster stays, its cleaner perhaps included.
Interrupt(p) ==
    /\ Fault("interrupt") /\ pc[p] # "idle" /\ End(p) /\ Unlock(p)
    /\ \/ UNCHANGED cleaner
       \/ pc[p] = "cleaning" /\ SetCleaner(loc[p].claim, "absent")
    /\ UNCHANGED <<rows, pvcs, pvs, made, workers, data, apart>>

--------------------------------------------------------------------------------
Init ==
    /\ rows = [i \in Instances |-> NoRow]
    /\ pvcs \in [Claims -> {NoClaim, [uid |-> 1, owner |-> None, bound |-> TRUE, doomed |-> FALSE]}]
    /\ pvs = [c \in Claims |-> IF pvcs[c].uid = 0 THEN Available ELSE [ref |-> 1, phase |-> "Bound"]]
    /\ made = [c \in Claims |-> pvcs[c].uid]
    /\ workers = [c \in Claims |-> {}] /\ cleaner = [c \in Claims |-> "absent"]
    /\ data = [c \in Claims |-> None]
    /\ lock = None /\ pc = [p \in Procs |-> "idle"] /\ loc = [p \in Procs |-> NoCall]
    /\ apart = {} /\ faults = 0

Reserve(i) ==
    \/ TakeLock(i) \/ Reuse(i) \/ Pick(i) \/ Exhausted(i) \/ EnsureClaim(i) \/ EnsureRef(i)
    \/ InspectAgain(i) \/ Commit(i) \/ Launch(i)
ReleaseStep(r) ==
    \/ PreCheck(r) \/ ResetCleaner(r) \/ CreateCleaner(r) \/ Cleaned(r) \/ NotCleaned(r)
    \/ Validate(r) \/ Release(r) \/ DeleteClaim(r) \/ UnbindVolume(r)
Controller(c) == Bind(c) \/ Finalize(c) \/ Forsake(c) \/ RunCleaner(c)

Next ==
    \/ \E i \in Instances : Begin(i) \/ Reserve(i) \/ Resume(i) \/ Mark(i) \/ Stop(i) \/ Retain(i)
    \/ \E r \in Releases : (\E c \in Claims : Look(r, c)) \/ ReleaseStep(r)
    \/ \E c \in Claims : Controller(c)
    \/ \E p \in Procs : Interrupt(p)

Spec == Init /\ [][Next]_vars

\* Calls run on and the cluster makes progress; the operator releases what the list offers
\* until it is off the list, and calls that disturb each other's cleaner do not do so for ever.
Fairness ==
    /\ \A i \in Instances : WF_vars(Reserve(i))
    /\ \A r \in Releases : /\ WF_vars(ReleaseStep(r)) /\ SF_vars(Cleaned(r)) /\ SF_vars(Validate(r))
    /\ \A c \in Claims : /\ WF_vars(Bind(c)) /\ WF_vars(Finalize(c)) /\ WF_vars(Forsake(c))
                         /\ SF_vars(RunCleaner(c))
                         /\ SF_vars(\E r \in Releases : State(c) = "retained" /\ Look(r, c))
FairSpec == Spec /\ Fairness

--------------------------------------------------------------------------------
(* Properties                                                               *)

\* Types of the rows, the cluster, the lock and the calls.
TypeOK ==
    /\ rows \in [Instances -> Row]
    /\ pvcs \in [Claims -> Claim] /\ pvs \in [Claims -> Volume] /\ made \in [Claims -> 0..MaxUid]
    /\ workers \in [Claims -> SUBSET Instances] /\ apart \subseteq Instances
    /\ cleaner \in [Claims -> {"absent", "running", "succeeded", "failed"}]
    /\ data \in [Claims -> Instances \cup {None}]
    /\ lock \in Procs \cup {None} /\ faults \in 0..MaxFaults

\* Two instances, of one kind or of both, never hold the same claim, and no volume is
\* mounted by a worker other than its owner's.  The PVC of a reservation is the one that was
\* reserved and is not being deleted: the delete of ReleaseWorkspace comes after its commit
\* and goes by name, so this is true only of an instance whose call for the claim did not
\* overlap a release.
OneOwner ==
    /\ \A i, j \in Instances : rows[i].claim # None /\ rows[i].claim = rows[j].claim => i = j
    /\ \A c \in Claims : \A i \in workers[c] : rows[i].claim = c
    /\ \A i \in apart :
         LET c == rows[i].claim IN
         c # None /\ pc[i] = "idle" => pvcs[c].uid = rows[i].uid /\ ~pvcs[c].doomed

\* The cleaner runs before the pool lock is taken.  The files of a running instance are
\* wiped, and files are left on a volume that is set free, only if the instance's run was
\* accepted while a release was under way; a running instance never loses its row.
WipesOnlyIdle ==
    [][\A c \in Claims, i \in Instances :
         /\ data[c] = i /\ data'[c] = None /\ rows[i].claim = c /\ rows[i].state = "busy" => i \notin apart
         /\ rows[i].claim = c /\ rows'[i].claim = None =>
              rows[i].state # "busy" /\ workers[c] = {} /\ (data[c] = i => i \notin apart)]_vars

\* EnsurePoolClaim was cut off between its two writes while the PV still named the PVC
\* before: the new PVC is never bound, so it can be neither reserved nor cleaned.
Stranded(c) == pvcs[c].uid # 0 /\ ~pvcs[c].doomed /\ pvs[c].ref \notin {0, pvcs[c].uid}

\* Interrupted calls lose no volume: a claim that no instance holds can sooner or later be
\* reserved again, unless it is stranded, and a destroyed workspace is set free.  An
\* instance that got its claim from under a release is excepted: when its PVC is gone its
\* row keeps the name for ever.
PoolRecovers ==
    /\ \A c \in Claims :
         []<>(Owners(c) # {} \/ Fresh(c) \/ (pvcs[c].uid = 0 /\ Usable(c)) \/ Stranded(c))
    /\ \A i \in Projects : rows[i].state = "retained" /\ i \in apart ~> rows[i].state # "retained"
================================================================================
