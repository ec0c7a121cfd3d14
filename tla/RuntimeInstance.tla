---------------------------- MODULE RuntimeInstance ----------------------------
(***************************************************************************)
(* One instance of the legacy instances service: a workspace volume is     *)
(* prepared, worked on by one worker Pod at a time, sealed, restarted and  *)
(* finally retained.  Every call advances one stage of one row of          *)
(* station.runtime_instance_executions inside a transaction that holds the *)
(* instance's advisory lock; its Kubernetes effects are outside the        *)
(* transaction and are found again by name and UID.                        *)
(* From src/internal/instances: create.go, start.go, stop.go, destroy.go,  *)
(* recovery.go, saved_recovery.go, preparer.go, worker.go, credentials.go, *)
(* storage.go.                                                             *)
(*                                                                         *)
(* Content of the volume is a number: -1 nothing yet, 0 the source the     *)
(* create names, and one more for every save of a worker.  Kubernetes UIDs *)
(* are numbers per name; 0 is no object.                                   *)
(***************************************************************************)
EXTENDS Integers, Sequences, FiniteSets

CONSTANTS
    Starts, Stops, Destroys,  \* operation ids the coordinator may use
    Callers,                  \* HTTP handlers of the Runtime
    None,                     \* no operation, no caller
    MaxContent,               \* bound: saves of the workers
    MaxUid,                   \* bound: objects ever made under one name
    Faults,                   \* kinds of fault that happen
    MaxFaults                 \* bound: faults in a behaviour

ASSUME BoundsAssumption ==
    /\ MaxContent \in Nat /\ MaxUid \in Nat /\ MaxFaults \in Nat
    /\ None \notin Callers \cup Starts \cup Stops \cup Destroys
ASSUME FaultsAssumption == Faults \subseteq {"call", "session", "late", "exit", "evict", "node", "mistake"}

Create == "create"
Ops == {Create} \cup Starts \cup Stops \cup Destroys
Prepare == "prepare"
Reader == "recover"
Names == Starts \cup {Prepare, Reader}

\* An operation id belongs to one request of one kind, and names no helper Pod.
ASSUME OperationsAssumption ==
    /\ Starts \cap Stops = {} /\ Starts \cap Destroys = {} /\ Stops \cap Destroys = {}
    /\ {Create, Prepare, Reader} \cap (Starts \cup Stops \cup Destroys) = {} /\ None \notin {Create, Prepare, Reader}

VARIABLES
    rows,      \* runtime_instance_executions, by operation
    order,     \* the operations in the order of created_at
    binding,   \* the instance's row of runtime_instance_workspaces
    claimed,   \* the PVC carries the owner annotations
    secret,    \* the instance's Secret: how many were made, and whether one is there
    pods, svcs,\* the Pods that mount the PVC and their Services, by name
    content,   \* what the volume holds
    node,      \* the node is Ready
    lock,      \* the caller whose transaction holds the advisory lock
    pc, loc,   \* where a call is, its row as it will be committed, its effects to come
    faults,    \* faults so far
    spoilt     \* a Pod was lost in the middle of an operation, or a stop was mistaken

ledger == <<rows, order, binding>>
cluster == <<claimed, secret, pods, svcs>>
world == <<content, node>>
calls == <<lock, pc, loc>>
vars == <<ledger, cluster, world, calls, faults, spoilt>>

NoUids == [pod |-> 0, svc |-> 0]
NoRow == [status |-> "none", phase |-> "none", source |-> 0, of |-> None, saved |-> 0,
          worker |-> NoUids, helper |-> NoUids, secret |-> 0,
          recovery |-> None, stage |-> "none", copy |-> 0]
NoPod == [uid |-> 0, state |-> "absent", deleting |-> FALSE, source |-> 0, frozen |-> None]
NoCall == [op |-> None, row |-> NoRow, todo |-> <<>>]

Uids == 0..MaxUid
Pair == [pod : Uids, svc : Uids]
Contents == -1..MaxContent
Row == [status : {"none", "running", "succeeded"},
        phase : {"none", "accepted", "reserved", "claimed", "preparing", "awaiting_content", "removing",
                 "stopped", "launching", "loading", "recovering", "running", "revoking", "deleted"},
        source : Contents, of : Ops \cup {None}, saved : Contents,
        worker : Pair, helper : Pair, secret : Uids, recovery : Starts \cup {None},
        stage : {"none", "removing_worker", "observing", "removing_helper", "ready"}, copy : Contents]
Pod == [uid : Uids, state : {"absent", "starting", "ready", "loaded", "exited"}, deleting : BOOLEAN,
        source : Contents, frozen : Stops \cup {None}]
Object == [uid : Uids, live : BOOLEAN]
Effect == [do : {"claim", "secret", "create_svc", "create_pod", "delete_svc", "delete_pod", "delete_secret"},
           name : Names \cup {None}, uid : Uids,
           rv : {"absent", "starting", "ready", "exited", "deleting"}]

\* Every variable holds a value of its kind.
TypeOK ==
    /\ rows \in [Ops -> Row]
    /\ \A i \in DOMAIN order : order[i] \in Ops
    /\ binding \in {"none", "held", "retained"}
    /\ claimed \in BOOLEAN /\ secret \in Object
    /\ pods \in [Names -> Pod] /\ svcs \in [Names -> Object]
    /\ content \in Contents /\ node \in BOOLEAN
    /\ lock \in Callers \cup {None}
    /\ pc \in [Callers -> {"idle", "read", "act"}]
    /\ \A c \in Callers : /\ loc[c].op \in Ops \cup {None} /\ loc[c].row \in Row
                          /\ \A i \in DOMAIN loc[c].todo : loc[c].todo[i] \in Effect
    /\ faults \in 0..MaxFaults /\ spoilt \in BOOLEAN

--------------------------------------------------------------------------------
(* What the ledger and the cluster say                                      *)

LastOp == IF order = <<>> THEN None ELSE order[Len(order)]
Succeeded(o) == rows[o].status = "succeeded"
\* The operation accepted just before o, the create aside.
Prior(o) ==
    LET before == {i \in 1..(Len(order) - 1) : order[i + 1] = o /\ order[i] # Create}
    IN  IF before = {} THEN None ELSE order[CHOOSE i \in before : TRUE]

\* effectiveStart: the source a start loads.
Effective(r) == IF r.stage = "ready" THEN r.copy ELSE r.source

\* Mutant: a Pod that is being deleted counts as gone.
ThereUnlessDeleting(n) == pods[n].state # "absent" /\ ~pods[n].deleting
There(n) == pods[n].state # "absent"
Mounting == {n \in Names : There(n)}
Seen(n) == [pod |-> IF There(n) THEN pods[n].uid ELSE 0, svc |-> IF svcs[n].live THEN svcs[n].uid ELSE 0]
\* Inspect: the volume is the reserved one and no Pod but the allowed one mounts it.
Inspect(allowed) == binding = "held" /\ Mounting \subseteq allowed
\* credential: the Secret is there and is the recorded one.
Credential(uid) == secret.live /\ uid \in {0, secret.uid}

\* A Pod's resourceVersion: what the kubelet and the API server write about it. Loading is the process's own.
Version(n) ==
    IF n = None \/ n \notin Mounting THEN "absent"
    ELSE IF pods[n].deleting THEN "deleting"
    ELSE IF pods[n].state = "loaded" THEN "ready" ELSE pods[n].state
Make(kind, n) == <<[do |-> kind, name |-> n, uid |-> 0, rv |-> Version(n)]>>
Drop(kind, n, uid) == IF uid = 0 THEN <<>> ELSE <<[do |-> kind, name |-> n, uid |-> uid, rv |-> Version(n)]>>

\* What is there under the name is what the row recorded and the template describes.
Matches(n, recorded, source) ==
    /\ recorded.pod \in {0, Seen(n).pod} /\ recorded.svc \in {0, Seen(n).svc}
    /\ There(n) => ~pods[n].deleting /\ pods[n].source = source
EnsureHelper(n, r) ==
    /\ Credential(r.secret) /\ Matches(n, r.helper, 0) /\ Inspect({n}) /\ claimed
    /\ pods[n].state # "exited"
\* A new worker needs a Ready node; a node that is full at the moment is one of the refused reads.
AdmitWorker == node
EnsureWorker(s, r) ==
    /\ Credential(r.secret) /\ Matches(s, r.worker, Effective(r)) /\ Inspect({s}) /\ claimed
    /\ There(s) \/ AdmitWorker
\* The objects an Ensure makes, the Service before the Pod.
Creates(n) ==
    (IF svcs[n].live THEN <<>> ELSE Make("create_svc", n)) \o (IF There(n) THEN <<>> ELSE Make("create_pod", n))

\* Only the recorded objects are in the way of a removal.
Removable(n, recorded) == Seen(n).pod \in {0, recorded.pod} /\ Seen(n).svc \in {0, recorded.svc}
Deletes(n) == Drop("delete_svc", n, Seen(n).svc) \o Drop("delete_pod", n, Seen(n).pod)
\* Mutant: a removal counts as done when the Pod is on its way out.
GoneEarly(n) == (There(n) => pods[n].deleting) /\ ~svcs[n].live
Gone(n) == Seen(n) = NoUids
\* Mutant: the volume has to be unused before the helper itself is deleted.
RemoveHelperUnused(n, r) == Removable(n, r.helper) /\ Inspect({})
RemoveHelper(n, r) == Removable(n, r.helper) /\ (Gone(n) => Inspect({}))
removeWorker(s, recorded) == Removable(s, recorded) /\ Inspect({s}) /\ (Gone(s) => node)

\* What the observers of the file agent and of the worker report.
Prepared == pods[Prepare].state = "ready" /\ content = 0
WorkingCopy == content
LoadProof(s) == pods[s].state = "loaded"
\* Mutant: the drain proof is not compared with the content the stop names.
DrainProofAny(s, t, saved) == pods[s].state = "loaded"
DrainProof(s, t, saved) == pods[s].state = "loaded" /\ pods[s].frozen = t /\ content = saved

--------------------------------------------------------------------------------
(* Acceptance: the row is inserted and committed before any effect          *)

Insert(o, r) ==
    /\ rows' = [rows EXCEPT ![o] = [r EXCEPT !.status = "running", !.phase = "accepted"]]
    /\ order' = Append(order, o)
    /\ UNCHANGED <<binding, cluster, world, calls, faults>>
Fresh(o) == lock = None /\ rows[o] = NoRow

AcceptCreate == Fresh(Create) /\ order = <<>> /\ Insert(Create, NoRow) /\ UNCHANGED spoilt

verifyFailedWorker(s) == node /\ (There(s) => pods[s].state = "exited")
\* The worker of the start before is the recorded one and has ended.
prepareWorkerRecovery(s) ==
    /\ rows[s].recovery = None /\ There(s) /\ pods[s].uid = rows[s].worker.pod /\ verifyFailedWorker(s)
AcceptStart(s) ==
    /\ Fresh(s) /\ Succeeded(Create) /\ binding = "held"
    /\ LET row == [NoRow EXCEPT !.secret = rows[Create].secret] IN
       \/ LastOp = Create /\ Insert(s, row)
       \/ LastOp \in Stops /\ Succeeded(LastOp) /\ Insert(s, [row EXCEPT !.source = rows[LastOp].saved])
       \/ /\ LastOp \in Starts /\ Succeeded(LastOp) /\ prepareWorkerRecovery(LastOp)
          /\ Insert(s, [row EXCEPT !.source = Effective(rows[LastOp]), !.recovery = LastOp])
    /\ UNCHANGED spoilt

\* The coordinator names the running start and the content it saved. It may be mistaken about that.
AcceptStop(t, saved) ==
    /\ Fresh(t) /\ LastOp \in Starts /\ Succeeded(LastOp) /\ binding = "held"
    /\ Insert(t, [NoRow EXCEPT !.of = LastOp, !.saved = saved, !.worker = rows[LastOp].worker, !.secret = rows[LastOp].secret])
    /\ LET wrong == saved # content \/ pods[LastOp].frozen # t \/ pods[LastOp].state # "loaded" \/ pods[LastOp].deleting IN
       /\ wrong => "mistake" \in Faults
       /\ spoilt' = (spoilt \/ wrong)

AcceptDestroy(d) ==
    /\ Fresh(d) /\ LastOp \in {Create} \cup Stops /\ Succeeded(LastOp) /\ binding = "held"
    /\ Insert(d, [NoRow EXCEPT !.of = LastOp, !.secret = rows[Create].secret]) /\ UNCHANGED spoilt

--------------------------------------------------------------------------------
(* A call: the transaction begins, the cluster is read, the effects happen  *)
(* one by one, the row is committed                                         *)

Begin(c, o) ==
    /\ pc[c] = "idle" /\ lock = None /\ rows[o].status = "running"
    /\ lock' = c /\ pc' = [pc EXCEPT ![c] = "read"]
    /\ loc' = [loc EXCEPT ![c] = [NoCall EXCEPT !.op = o, !.row = rows[o]]]
    /\ UNCHANGED <<ledger, cluster, world, faults, spoilt>>

Reading(c, ops) == pc[c] = "read" /\ loc[c].op \in ops
Proceed(c, row, todo) ==
    /\ pc' = [pc EXCEPT ![c] = "act"]
    /\ loc' = [loc EXCEPT ![c].row = row, ![c].todo = todo]
    /\ UNCHANGED <<ledger, cluster, world, lock, faults, spoilt>>
\* An error, or the end of a call: the transaction is rolled back.
End(c) ==
    /\ pc' = [pc EXCEPT ![c] = "idle"] /\ loc' = [loc EXCEPT ![c] = NoCall]
    /\ lock' = IF lock = c THEN None ELSE lock

\* Create: reserve the volume, claim it, prepare its content, remove the preparer.
Reserve(c) == LET r == loc[c].row IN
    /\ Reading(c, {Create}) /\ r.phase = "accepted"
    /\ Proceed(c, [r EXCEPT !.phase = "reserved"], <<>>)
Claim == IF claimed THEN <<>> ELSE Make("claim", None)
ClaimVolume(c) == LET r == loc[c].row IN
    /\ Reading(c, {Create}) /\ r.phase = "reserved" /\ Inspect({})
    /\ Proceed(c, [r EXCEPT !.phase = "claimed", !.secret = IF secret.live THEN secret.uid ELSE 0],
               Claim \o (IF secret.live THEN <<>> ELSE Make("secret", None)))
PrepareContent(c) == LET r == loc[c].row IN
    /\ Reading(c, {Create}) /\ r.phase \in {"claimed", "preparing", "awaiting_content"}
    /\ EnsureHelper(Prepare, r)
    /\ Proceed(c, [r EXCEPT !.helper = Seen(Prepare),
                            !.phase = IF Prepared THEN "removing"
                                      ELSE IF pods[Prepare].state = "ready" THEN "awaiting_content" ELSE "preparing"],
               Creates(Prepare))
RemovePreparer(c) == LET r == loc[c].row IN
    /\ Reading(c, {Create}) /\ r.phase = "removing" /\ RemoveHelper(Prepare, r)
    /\ Proceed(c, IF Gone(Prepare) THEN [r EXCEPT !.status = "succeeded", !.phase = "stopped"] ELSE r, Deletes(Prepare))

\* Start of a recovery: the failed worker of the start before is removed.
RemoveFailed(c) == LET r == loc[c].row p == r.recovery IN
    /\ Reading(c, Starts) /\ p # None
    /\ verifyFailedWorker(p) /\ removeWorker(p, rows[p].worker)
    /\ Proceed(c, IF Gone(p) THEN [r EXCEPT !.recovery = None] ELSE r, Deletes(p))

\* Start: the worker is ensured, and its load proof read.
Launch(c) == LET r == loc[c].row s == loc[c].op IN
    /\ Reading(c, Starts) /\ r.recovery = None /\ r.stage \in {"none", "ready"}
    /\ EnsureWorker(s, r) /\ pods[s].state # "exited"
    /\ Proceed(c, [r EXCEPT !.worker = Seen(s), !.status = IF LoadProof(s) THEN "succeeded" ELSE "running",
                            !.phase = IF LoadProof(s) THEN "running" ELSE IF pods[s].state = "ready" THEN "loading" ELSE "launching"],
               Creates(s))
\* The worker of a recovery exited without a proof: the copy on the volume is not the source it was given.
validateRecoveryOrigin(s, p) == p \in Starts /\ Succeeded(p) /\ Effective(rows[p]) = rows[s].source
EnterSavedRecovery(c) == LET r == loc[c].row s == loc[c].op IN
    /\ Reading(c, Starts) /\ r.recovery = None /\ r.stage = "none"
    /\ EnsureWorker(s, r) /\ pods[s].state = "exited"
    /\ validateRecoveryOrigin(s, Prior(s)) /\ verifyFailedWorker(s)
    /\ Proceed(c, [r EXCEPT !.worker = Seen(s), !.stage = "removing_worker", !.phase = "recovering"], <<>>)
\* advanceSavedRecovery: the exited worker goes, a read-only helper tells the content, the helper goes.
RemoveExited(c) == LET r == loc[c].row s == loc[c].op IN
    /\ Reading(c, Starts) /\ r.recovery = None /\ r.stage = "removing_worker"
    /\ verifyFailedWorker(s) /\ removeWorker(s, r.worker)
    /\ Proceed(c, IF Gone(s) THEN [r EXCEPT !.stage = "observing", !.worker = NoUids] ELSE r, Deletes(s))
ObserveCopy(c) == LET r == loc[c].row IN
    /\ Reading(c, Starts) /\ r.recovery = None /\ r.stage = "observing"
    /\ EnsureHelper(Reader, r)
    /\ IF pods[Reader].state = "ready"
         THEN WorkingCopy # r.source /\ Proceed(c, [r EXCEPT !.helper = Seen(Reader), !.copy = WorkingCopy, !.stage = "removing_helper"], <<>>)
         ELSE Proceed(c, [r EXCEPT !.helper = Seen(Reader)], Creates(Reader))
RemoveReader(c) == LET r == loc[c].row IN
    /\ Reading(c, Starts) /\ r.recovery = None /\ r.stage = "removing_helper" /\ RemoveHelper(Reader, r)
    /\ Proceed(c, IF Gone(Reader) THEN [r EXCEPT !.stage = "ready"] ELSE r, Deletes(Reader))

\* Stop: frozen evidence of the recorded worker, then its removal.
\* Mutant: the stop leaves the known phases.
SealUnnamed(c) == LET r == loc[c].row s == loc[c].row.of IN
    /\ Reading(c, Stops) /\ r.phase = "accepted"
    /\ Seen(s) = r.worker /\ ~pods[s].deleting /\ Inspect({s}) /\ Credential(r.secret)
    /\ DrainProof(s, loc[c].op, r.saved)
    /\ Proceed(c, [r EXCEPT !.phase = "sealed"], <<>>)
Seal(c) == LET r == loc[c].row s == loc[c].row.of IN
    /\ Reading(c, Stops) /\ r.phase = "accepted"
    /\ Seen(s) = r.worker /\ ~pods[s].deleting /\ Inspect({s}) /\ Credential(r.secret)
    /\ DrainProof(s, loc[c].op, r.saved)
    /\ Proceed(c, [r EXCEPT !.phase = "removing"], <<>>)
RemoveStopped(c) == LET r == loc[c].row s == loc[c].row.of IN
    /\ Reading(c, Stops) /\ r.phase = "removing" /\ removeWorker(s, r.worker)
    /\ Proceed(c, IF Gone(s) THEN [r EXCEPT !.status = "succeeded", !.phase = "stopped"] ELSE r, Deletes(s))

\* Destroy: nothing may be left, then the Secret goes and the volume is retained.
AtRest == Inspect({}) /\ (\A n \in Names : ~svcs[n].live) /\ node
Revoke(c) == LET r == loc[c].row IN
    /\ Reading(c, Destroys) /\ AtRest
    /\ \/ r.phase = "accepted" /\ Credential(r.secret) /\ Proceed(c, [r EXCEPT !.phase = "revoking"], <<>>)
       \/ r.phase = "revoking" /\ secret.live /\ Credential(r.secret) /\ Proceed(c, r, Drop("delete_secret", None, secret.uid))
       \/ r.phase = "revoking" /\ ~secret.live /\ Proceed(c, [r EXCEPT !.status = "succeeded", !.phase = "deleted"], <<>>)

Read(c) ==
    \/ Reserve(c) \/ ClaimVolume(c) \/ PrepareContent(c) \/ RemovePreparer(c)
    \/ RemoveFailed(c) \/ Launch(c) \/ EnterSavedRecovery(c) \/ RemoveExited(c) \/ ObserveCopy(c) \/ RemoveReader(c)
    \/ Seal(c) \/ RemoveStopped(c) \/ Revoke(c)
\* A read failed, or found something that is not the operation's.
Refuse(c) == pc[c] = "read" /\ End(c) /\ UNCHANGED <<ledger, cluster, world, faults, spoilt>>

--------------------------------------------------------------------------------
(* Effects                                                                  *)

Done(c, row) == loc' = [loc EXCEPT ![c].row = row, ![c].todo = Tail(@)] /\ UNCHANGED <<pc, lock>>
\* The observation that an object made under name n goes to.
Field(n) == IF n \in Starts THEN "worker" ELSE "helper"

Perform(c) ==
    /\ pc[c] = "act" /\ loc[c].todo # <<>>
    /\ LET e == Head(loc[c].todo)  n == e.name  r == loc[c].row IN
       \/ e.do = "claim" /\ claimed' = TRUE /\ Done(c, r) /\ UNCHANGED <<secret, pods, svcs>>
       \/ /\ e.do = "secret" /\ ~secret.live /\ secret.uid < MaxUid
          /\ secret' = [uid |-> secret.uid + 1, live |-> TRUE] /\ Done(c, [r EXCEPT !.secret = secret.uid + 1])
          /\ UNCHANGED <<claimed, pods, svcs>>
       \/ /\ e.do = "create_svc" /\ ~svcs[n].live /\ svcs[n].uid < MaxUid
          /\ svcs' = [svcs EXCEPT ![n] = [uid |-> @.uid + 1, live |-> TRUE]]
          /\ Done(c, [r EXCEPT ![Field(n)].svc = svcs[n].uid + 1]) /\ UNCHANGED <<claimed, secret, pods>>
       \/ /\ e.do = "create_pod" /\ ~There(n) /\ pods[n].uid < MaxUid
          /\ pods' = [pods EXCEPT ![n] = [NoPod EXCEPT !.uid = pods[n].uid + 1, !.state = "starting",
                                                       !.source = IF n \in Starts THEN Effective(r) ELSE 0]]
          /\ Done(c, [r EXCEPT ![Field(n)].pod = pods[n].uid + 1]) /\ UNCHANGED <<claimed, secret, svcs>>
       \/ /\ e.do = "delete_svc" /\ (svcs[n].live => svcs[n].uid = e.uid)
          /\ svcs' = [svcs EXCEPT ![n].live = FALSE] /\ Done(c, r) /\ UNCHANGED <<claimed, secret, pods>>
       \/ /\ e.do = "delete_pod" /\ (There(n) => pods[n].uid = e.uid /\ Version(n) = e.rv)
          /\ pods' = [pods EXCEPT ![n].deleting = There(n)] /\ Done(c, r) /\ UNCHANGED <<claimed, secret, svcs>>
       \/ /\ e.do = "delete_secret" /\ (secret.live => secret.uid = e.uid)
          /\ secret' = [secret EXCEPT !.live = FALSE] /\ Done(c, r) /\ UNCHANGED <<claimed, pods, svcs>>
    /\ UNCHANGED <<ledger, world, faults, spoilt>>
\* The API server refuses: the name is taken again, or belongs to another UID or version by now.
Rejected(c) ==
    /\ pc[c] = "act" /\ loc[c].todo # <<>>
    /\ LET e == Head(loc[c].todo)  n == e.name IN
       \/ e.do = "secret" /\ secret.live
       \/ e.do = "create_svc" /\ svcs[n].live
       \/ e.do = "create_pod" /\ There(n)
       \/ e.do = "delete_svc" /\ svcs[n].live /\ svcs[n].uid # e.uid
       \/ e.do = "delete_pod" /\ There(n) /\ ~(pods[n].uid = e.uid /\ Version(n) = e.rv)
       \/ e.do = "delete_secret" /\ secret.live /\ secret.uid # e.uid
    /\ End(c) /\ UNCHANGED <<ledger, cluster, world, faults, spoilt>>

\* A transaction whose session is gone cannot commit.
Commit(c) == LET o == loc[c].op IN
    /\ pc[c] = "act" /\ loc[c].todo = <<>> /\ End(c)
    /\ IF lock = c
         THEN /\ rows' = [rows EXCEPT ![o] = loc[c].row]
              /\ binding' = IF o = Create /\ binding = "none" THEN "held"
                            ELSE IF loc[c].row.phase = "deleted" THEN "retained" ELSE binding
         ELSE UNCHANGED <<rows, binding>>
    /\ UNCHANGED <<order, cluster, world, faults, spoilt>>

--------------------------------------------------------------------------------
(* The world around                                                         *)

Run(n, state) == pods' = [pods EXCEPT ![n].state = state]
External == UNCHANGED <<ledger, claimed, secret, svcs, calls>>

PodReady(n) ==
    /\ pods[n].state = "starting" /\ ~pods[n].deleting /\ node /\ Run(n, "ready")
    /\ External /\ UNCHANGED <<world, faults, spoilt>>
\* A worker loads its source, and leaves when the volume holds something else.
Load(s) ==
    /\ pods[s].state = "ready" /\ ~pods[s].deleting
    /\ Run(s, IF content = pods[s].source THEN "loaded" ELSE "exited")
    /\ External /\ UNCHANGED <<world, faults, spoilt>>
\* The coordinator uploads the source to the preparer.
Upload ==
    /\ pods[Prepare].state = "ready" /\ content = -1 /\ content' = 0
    /\ External /\ UNCHANGED <<pods, node, faults, spoilt>>
Save(s) ==
    /\ pods[s].state = "loaded" /\ pods[s].frozen = None /\ content < MaxContent /\ content' = content + 1
    /\ External /\ UNCHANGED <<pods, node, faults, spoilt>>
\* The coordinator drains the worker for a stop; a frozen worker saves no more.
Freeze(s, t) ==
    /\ LastOp = s /\ Succeeded(s) /\ pods[s].state = "loaded" /\ pods[s].frozen = None /\ rows[t] = NoRow
    /\ pods' = [pods EXCEPT ![s].frozen = t]
    /\ External /\ UNCHANGED <<world, faults, spoilt>>
PodGone(n) ==
    /\ pods[n].deleting /\ pods' = [pods EXCEPT ![n] = [NoPod EXCEPT !.uid = pods[n].uid]]
    /\ External /\ UNCHANGED <<world, faults, spoilt>>
NodeBack == ~node /\ node' = TRUE /\ External /\ UNCHANGED <<pods, content, faults, spoilt>>

Fault(kind) == kind \in Faults /\ faults < MaxFaults /\ faults' = faults + 1
\* A worker whose start is the current, completed operation may fail: the next start recovers it.
Recoverable(n) == n = LastOp /\ Succeeded(n)
Sealed(n) == \E t \in Stops : rows[t].of = n /\ rows[t].phase \in {"removing", "stopped"}
Exit(n) ==
    /\ Fault("exit") /\ pods[n].state \in {"starting", "ready", "loaded"} /\ Run(n, "exited")
    /\ spoilt' = (spoilt \/ ~(Recoverable(n) \/ Sealed(n)))
    /\ External /\ UNCHANGED world
Evict(n) ==
    /\ Fault("evict") /\ pods[n].state # "absent" /\ ~pods[n].deleting
    /\ pods' = [pods EXCEPT ![n].deleting = TRUE] /\ spoilt' = TRUE
    /\ External /\ UNCHANGED world
NodeLost == Fault("node") /\ node /\ node' = FALSE /\ External /\ UNCHANGED <<pods, content, spoilt>>
\* A timeout, a crash or an unanswered request between two effects, or before the commit.
Interrupt(c) ==
    /\ Fault("call") /\ pc[c] = "act" /\ End(c)
    /\ UNCHANGED <<ledger, cluster, world, spoilt>>
\* The transaction ends, by a lost session or a timeout, while requests of its call are still on their way.
\* "session": none of them makes an object, "late": any.
Making(e) == e.do \in {"secret", "create_svc", "create_pod"}
SessionLoss(c) ==
    /\ \E kind \in {"session", "late"} :
        Fault(kind) /\ (kind = "session" => \A i \in DOMAIN loc[c].todo : ~Making(loc[c].todo[i]))
    /\ pc[c] = "act" /\ lock = c /\ lock' = None
    /\ UNCHANGED <<ledger, cluster, world, pc, loc, spoilt>>

--------------------------------------------------------------------------------
Init ==
    /\ rows = [o \in Ops |-> NoRow] /\ order = <<>> /\ binding = "none"
    /\ claimed = FALSE /\ secret = [uid |-> 0, live |-> FALSE]
    /\ pods = [n \in Names |-> NoPod] /\ svcs = [n \in Names |-> [uid |-> 0, live |-> FALSE]]
    /\ content = -1 /\ node = TRUE
    /\ lock = None /\ pc = [c \in Callers |-> "idle"] /\ loc = [c \in Callers |-> NoCall]
    /\ faults = 0 /\ spoilt = FALSE

Accept ==
    \/ AcceptCreate
    \/ \E s \in Starts : AcceptStart(s)
    \/ \E t \in Stops, v \in 0..MaxContent : AcceptStop(t, v)
    \/ \E d \in Destroys : AcceptDestroy(d)
Work(c) ==
    \/ \E o \in Ops : Begin(c, o)
    \/ Read(c) \/ Refuse(c) \/ Perform(c) \/ Rejected(c) \/ Commit(c)
Around ==
    \/ \E n \in Names : PodReady(n) \/ PodGone(n)
    \/ \E s \in Starts : Load(s) \/ Save(s)
    \/ \E s \in Starts, t \in Stops : Freeze(s, t)
    \/ Upload \/ NodeBack
Disturb ==
    \/ \E n \in Names : Exit(n) \/ Evict(n)
    \/ NodeLost
    \/ \E c \in Callers : Interrupt(c) \/ SessionLoss(c)
Next == Accept \/ (\E c \in Callers : Work(c)) \/ Around \/ Disturb

Spec == Init /\ [][Next]_vars

(* The coordinator repeats the request of an operation that has not ended;  *)
(* reads that can succeed do so sooner or later; the kubelet does its work. *)
FairSpec ==
    /\ Spec
    /\ \A c \in Callers :
        /\ WF_vars(\E o \in Ops : Begin(c, o)) /\ SF_vars(Read(c))
        /\ WF_vars(Refuse(c)) /\ WF_vars(Perform(c) \/ Rejected(c) \/ Commit(c))
    /\ \A n \in Names : WF_vars(PodReady(n)) /\ WF_vars(PodGone(n))
    /\ \A s \in Starts : WF_vars(Load(s))
    /\ WF_vars(Upload) /\ WF_vars(NodeBack)

--------------------------------------------------------------------------------
(* Properties                                                               *)

\* At most one Pod has the volume, whatever was interrupted and found again by name: a worker never
\* runs beside another worker, the preparer or the recovery reader (EnsureWorker, EnsureHelper).
OneMounter == Cardinality({n \in Names : pods[n].state # "absent"}) <= 1

\* No second worker is concurrent (the comment of advanceSavedRecovery).
OneWorker == Cardinality({s \in Starts : pods[s].state # "absent"}) <= 1

\* An operation that ended at rest left nothing behind: no Pod and no Service of the instance, and
\* after a destroy no Secret either, while the volume stays retained (removeWorker, RemoveHelper, Destroy).
RestLeavesNothing ==
    LastOp # None /\ LastOp \notin Starts /\ Succeeded(LastOp) =>
        /\ \A n \in Names : pods[n].state = "absent"
        /\ \A n \in Names : ~svcs[n].live
        /\ LastOp \in Destroys => ~secret.live /\ binding = "retained"

\* From its seal on, a stop's source is what the volume holds, so that the restart it allows loads the
\* saved copy and never an older one ("never silently restore the original Project head", start.go).
SavedIsOnVolume ==
    LastOp \in Stops /\ rows[LastOp].phase \in {"removing", "stopped"} => content = rows[LastOp].saved

\* An accepted operation ends, when its request is repeated: only a Pod lost in the middle of an
\* operation, or a stop for content the worker never froze, leaves the instance in between.
OperationEnds == \A o \in Ops : rows[o].status = "running" ~> (rows[o].status = "succeeded" \/ spoilt)
================================================================================
