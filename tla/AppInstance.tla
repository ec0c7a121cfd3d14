------------------------------ MODULE AppInstance ------------------------------
(***************************************************************************)
(* One installation-bound App instance of the Station Runtime, from        *)
(* src/internal/appinstances: the durable start and stop journal, the      *)
(* Kubernetes objects of its workers, and any number of concurrent         *)
(* Start, Access and Stop calls, cut at every API call and every commit.   *)
(*                                                                         *)
(* A start operation has its own Pod and Service (runName); the credential *)
(* Secret and the volume belong to the instance (instanceName).  Row and   *)
(* object identities are numbers: 0 stands for the empty UID, and an       *)
(* object's uid counts its incarnations, so no UID is ever used twice.     *)
(* A Pod is never restarted in place (RestartPolicyNever), so the boot id  *)
(* of the one process in a Pod is that Pod's uid.                          *)
(***************************************************************************)
EXTENDS Integers

CONSTANTS
    Callers,        \* handler goroutines of Handler.ServeHTTP
    Ops,            \* start operation ids
    StopOps,        \* stop operation ids
    NoOp,           \* no operation
    Profiles,       \* execution profiles, told apart by Profile.Hash
    NoProfile,      \* no profile
    MaxGeneration,  \* bound: generations a caller may ask for
    MaxUid,         \* bound: incarnations of one object
    MaxRevision,    \* bound: installation revisions published by Core
    Faults,         \* the kinds of failure that may happen in this instance
    MaxFaults       \* bound: how many of them

FaultKinds == {"interrupt", "crash", "session", "evict", "exit", "replace", "unready", "node",
               "removal", "migrate"}

ASSUME ConstantsAssumption ==
    /\ NoOp \notin Ops /\ NoOp \notin StopOps /\ NoProfile \notin Profiles
    /\ MaxGeneration \in Nat /\ MaxUid \in Nat /\ MaxRevision \in Nat \ {0} /\ MaxFaults \in Nat
    /\ Faults \subseteq FaultKinds

VARIABLES
    starts,       \* station.app_instance_starts, by operation id
    stops,        \* station.app_instance_stops, by operation id
    installation, \* revision of the app_installations row, 0 once removed
    pods,         \* worker Pods, by start operation
    svcs,         \* worker Services, by start operation
    secret,       \* the instance credential, with the profile it is annotated with
    claimed,      \* the profile whose owner annotations the PVC carries
    nodeReady,    \* NodeReady condition of the profile's node
    timely,       \* history: no Pod has gone while a creation of its run was abandoned
    barriers,     \* stop barriers the worker processes have acknowledged
    late,         \* requests whose caller has gone, still under way
    pc,           \* where each call is
    lock,         \* the instance advisory lock, per caller's session
    loc,          \* each call's arguments and local variables
    faults        \* failures so far

cluster == <<pods, svcs, secret, claimed, nodeReady, timely, barriers, late>>
journal == <<starts, stops>>
vars == <<journal, installation, cluster, pc, lock, loc, faults>>

--------------------------------------------------------------------------------
(* Types                                                                    *)

Uid == 0..MaxUid
StartPhases == {"none", "accepted", "launching", "running", "stopping", "stopped"}
StopPhases == {"none", "accepted", "sealed", "pod_delete_requested", "pod_deleted",
               "service_delete_requested", "stopped"}
PodStatus == {"absent", "pending", "ready", "unready", "exited", "terminating"}

Observation == [pod: Uid, svc: Uid, sec: Uid, ready: BOOLEAN, boot: Uid]
StartRow == [gen: 0..MaxGeneration, revision: 0..MaxRevision, prof: Profiles \cup {NoProfile},
             phase: StartPhases, obs: Observation]
StopRow == [start: Ops \cup {NoOp}, boot: Uid, phase: StopPhases]
Object == [uid: Uid, live: BOOLEAN]
Secret == [uid: Uid, live: BOOLEAN, prof: Profiles \cup {NoProfile}]
Pod == [uid: Uid, status: PodStatus]
Seen == [pod: Uid, svc: Uid, sec: Uid, status: PodStatus, boot: Uid]
Barrier == [op: Ops, uid: Uid, stop: StopOps]
RequestKinds == {"claim", "secret", "service", "pod", "pod_delete", "service_delete", "seal"}
Request == [kind: RequestKinds, op: Ops, uid: Uid, stop: StopOps \cup {NoOp}]

Labels == {"idle", "accept_authorize", "accept_check", "accept_insert", "accept_bind", "lock",
           "authorize", "load", "claim", "ensure_pod", "ensure_svc", "ensure_rest", "checkpoint", "create",
           "observe_pod", "observe_rest", "checkpoint_observed", "probe", "certify", "grant",
           "stop", "seal", "checkpoint_sealed", "remove_node", "remove_pod", "remove_svc",
           "remove_rest", "remove"}
Aims == {"none", "ensure", "verify", "verified", "stop", "sealed"}
Locals == [kind: {"none", "start", "access", "stop"}, op: Ops \cup {NoOp}, gen: 0..MaxGeneration,
           prof: Profiles \cup {NoProfile}, stop: StopOps \cup {NoOp}, boot: Uid, auth: 0..MaxRevision, rec: StartRow,
           fresh: BOOLEAN, seen: Seen, aim: Aims, prog: StopPhases]

NoObservation == [pod |-> 0, svc |-> 0, sec |-> 0, ready |-> FALSE, boot |-> 0]
NoStart == [gen |-> 0, revision |-> 0, prof |-> NoProfile, phase |-> "none", obs |-> NoObservation]
NoStop == [start |-> NoOp, boot |-> 0, phase |-> "none"]
NoObject == [uid |-> 0, live |-> FALSE]
NoSecret == [uid |-> 0, live |-> FALSE, prof |-> NoProfile]
NoPod == [uid |-> 0, status |-> "absent"]
NoSeen == [pod |-> 0, svc |-> 0, sec |-> 0, status |-> "absent", boot |-> 0]
NoCall == [kind |-> "none", op |-> NoOp, gen |-> 0, prof |-> NoProfile, stop |-> NoOp, boot |-> 0,
           auth |-> 0, rec |-> NoStart, fresh |-> FALSE, seen |-> NoSeen, aim |-> "none", prog |-> "none"]

--------------------------------------------------------------------------------
(* The checks the code makes of what it reads                               *)

\* A Pod that is neither missing nor being deleted and, when a UID was recorded, is that Pod.
podMatches(p, uid) == p.status \notin {"absent", "terminating"} /\ (uid # 0 => p.uid = uid)
\* Services and the Secret carry no finalizer: deleting one removes it at once.
serviceMatches(s, uid) == s.live /\ (uid # 0 => s.uid = uid)
\* Mutant: a Secret whose creation was not recorded in time is not taken up again.
secretMatchesRecorded(s, p, uid) == s.live /\ s.prof = p /\ s.uid = uid
secretMatches(s, p, uid) == s.live /\ s.prof = p /\ (uid # 0 => s.uid = uid)

\* No Pod mounts the claim except the one allowed by its UID.
InspectVolume(o, allowed) == \A x \in Ops : pods[x].status # "absent" => x = o /\ pods[x].uid = allowed

ValidObservation(b) ==
    /\ b.boot # 0 => b.pod # 0
    /\ b.pod # 0 => b.sec # 0 /\ b.svc # 0
    /\ b.svc # 0 => b.sec # 0
    /\ b.ready => b.pod # 0

Keeps(before, after) == before # 0 => after = before
monotonicObservation(previous, next) ==
    /\ ValidObservation(previous) /\ ValidObservation(next)
    /\ Keeps(previous.sec, next.sec) /\ Keeps(previous.svc, next.svc)
    /\ Keeps(previous.pod, next.pod) /\ Keeps(previous.boot, next.boot)

Accepted == {o \in Ops : starts[o].phase # "none"}
\* The start with the highest generation; the volume is bound to its profile.
Latest(o) == o \in Accepted /\ \A x \in Accepted : starts[x].gen <= starts[o].gen
validVolume(p) == \A x \in Ops : Latest(x) => starts[x].prof = p

sameRecord(row, call) ==
    /\ row.gen = call.gen /\ row.prof = call.prof /\ validVolume(call.prof)
    /\ 0 < row.revision /\ row.revision <= call.auth

\* The recorded worker process is running and can answer a request.
Answers(o, uid) == pods[o].uid = uid /\ pods[o].status \in {"ready", "unready", "terminating"}

\* Mutant: the stage of the committed intent is off by one.
StageLate(phase) ==
    CASE phase = "pod_deleted" -> 2
      [] phase = "service_delete_requested" -> 3
      [] phase = "stopped" -> 4
      [] OTHER -> 0

Stage(phase) ==
    CASE phase = "sealed" -> 0
      [] phase = "pod_delete_requested" -> 1
      [] phase = "pod_deleted" -> 2
      [] phase = "service_delete_requested" -> 3
      [] phase = "stopped" -> 4
      [] OTHER -> -1

NextStop(phase) ==
    CASE phase = "accepted" -> "sealed"
      [] phase = "sealed" -> "pod_delete_requested"
      [] phase = "pod_delete_requested" -> "pod_deleted"
      [] phase = "pod_deleted" -> "service_delete_requested"
      [] OTHER -> "stopped"

--------------------------------------------------------------------------------
(* How a call moves                                                         *)

\* The call ends, with a result or an error; its deferred unlock runs.
Leave(c) == pc' = [pc EXCEPT ![c] = "idle"] /\ lock' = [lock EXCEPT ![c] = "none"]
Return(c) == Leave(c) /\ loc' = [loc EXCEPT ![c] = NoCall]

Goto(c, label) == pc' = [pc EXCEPT ![c] = label] /\ UNCHANGED lock

\* Go on with what was read if it passes the check, return an error if not.
Check(c, ok, label, seen) ==
    IF ok THEN Goto(c, label) /\ loc' = [loc EXCEPT ![c].seen = seen] ELSE Return(c)

\* A statement on the call's own connection: it fails once the session is lost.
Connected(c) == lock[c] # "none"

--------------------------------------------------------------------------------
(* Accept: one transaction under the transaction-scoped instance lock       *)

SharedLockFree == \A d \in Callers : lock[d] # "exclusive"
LockFree == \A d \in Callers : lock[d] = "none"

\* A call that finds the lock taken returns ErrBusy and changes nothing.
BeginStart(c, o, g, p) ==
    /\ pc[c] = "idle" /\ LockFree
    /\ pc' = [pc EXCEPT ![c] = "accept_authorize"]
    /\ lock' = [lock EXCEPT ![c] = "exclusive"]
    /\ loc' = [loc EXCEPT ![c] = [NoCall EXCEPT !.kind = "start", !.op = o, !.gen = g, !.prof = p]]
    /\ UNCHANGED <<journal, installation, cluster, faults>>

\* Core is asked for the current grant; a removed installation has none.
Authorize(c) ==
    /\ pc[c] \in {"accept_authorize", "authorize"}
    /\ IF installation # 0
         THEN /\ Goto(c, IF pc[c] = "authorize" THEN "load" ELSE "accept_check")
              /\ loc' = [loc EXCEPT ![c].auth = installation]
         ELSE Return(c)
    /\ UNCHANGED <<journal, installation, cluster, faults>>

installationMatches(c) == Connected(c) /\ installation = loc[c].auth

AcceptCheck(c) ==
    /\ pc[c] = "accept_check"
    /\ Check(c, installationMatches(c), "accept_insert", NoSeen)
    /\ UNCHANGED <<journal, installation, cluster, faults>>

\* Mutant: the previous generation need not be stopped.
FollowsAny(g, o) ==
    /\ Latest(o) /\ g = starts[o].gen + 1
    /\ ValidObservation(starts[o].obs)
\* A new start follows the stopped latest one, generation by generation.
Follows(g, o) ==
    /\ Latest(o) /\ starts[o].phase = "stopped" /\ g = starts[o].gen + 1
    /\ ValidObservation(starts[o].obs) /\ starts[o].obs.sec # 0
\* Mutant: the credential is inherited whatever the profile.
InheritsAlways(c, o) == TRUE
\* A start under the same profile goes on with the credential the previous one recorded.
Inherits(c, o) == starts[o].prof = loc[c].prof
NewStart(c, sec) ==
    [gen |-> loc[c].gen, revision |-> loc[c].auth, prof |-> loc[c].prof, phase |-> "accepted",
     obs |-> [NoObservation EXCEPT !.sec = sec]]

\* Commit ends the transaction and with it the lock; Start goes on to AdvanceResources.
Commit(c) == pc' = [pc EXCEPT ![c] = "lock"] /\ lock' = [lock EXCEPT ![c] = "none"] /\ UNCHANGED loc

AcceptReplay(c) ==
    LET row == starts[loc[c].op] IN
    /\ pc[c] = "accept_insert" /\ row.phase # "none"
    /\ IF Connected(c) /\ sameRecord(row, loc[c]) THEN Commit(c) ELSE Return(c)
    /\ UNCHANGED <<journal, installation, cluster, faults>>

AcceptInsert(c) ==
    LET o == loc[c].op
        g == loc[c].gen
    IN
    /\ pc[c] = "accept_insert" /\ starts[o].phase = "none" /\ Connected(c)
    /\ \/ /\ Accepted = {} /\ g = 1
          /\ starts' = [starts EXCEPT ![o] = NewStart(c, 0)]
       \/ \E x \in Ops : /\ Follows(g, x) /\ Inherits(c, x)
                         /\ starts' = [starts EXCEPT ![o] = NewStart(c, starts[x].obs.sec)]
    /\ Commit(c)
    /\ UNCHANGED <<stops, installation, cluster, faults>>

\* Under a changed profile nothing is inherited: the credential that carries the new
\* profile is taken if there is one, and reserve inspects the volume once more.
AcceptInspect(c) ==
    LET p == loc[c].prof IN
    /\ pc[c] = "accept_insert" /\ starts[loc[c].op].phase = "none" /\ Connected(c)
    /\ \E x \in Ops : Follows(loc[c].gen, x) /\ ~Inherits(c, x)
    /\ Check(c, claimed \in {NoProfile, p} /\ InspectVolume(NoOp, 0), "accept_bind",
             IF secretMatches(secret, p, 0) THEN [NoSeen EXCEPT !.sec = secret.uid] ELSE NoSeen)
    /\ UNCHANGED <<journal, installation, cluster, faults>>

\* The volume is bound to the new profile and the start inserted in one commit.
AcceptBind(c) ==
    /\ pc[c] = "accept_bind"
    /\ IF Connected(c)
         THEN /\ starts' = [starts EXCEPT ![loc[c].op] = NewStart(c, loc[c].seen.sec)]
              /\ Commit(c)
         ELSE UNCHANGED starts /\ Return(c)
    /\ UNCHANGED <<stops, installation, cluster, faults>>

\* ErrConflict, ErrBinding, or no claim of the pool is left for a first start.
AcceptRefuse(c) ==
    /\ pc[c] = "accept_insert" /\ starts[loc[c].op].phase = "none"
    /\ \/ ~Connected(c)
       \/ Accepted = {}
       \/ \A x \in Ops : ~Follows(loc[c].gen, x)
    /\ Return(c)
    /\ UNCHANGED <<journal, installation, cluster, faults>>

--------------------------------------------------------------------------------
(* withLockedRecord: the session lock, a fresh authorization, the record    *)

AcquireLock(c) ==
    /\ pc[c] = "lock"
    /\ IF LockFree THEN /\ pc' = [pc EXCEPT ![c] = "authorize"]
                        /\ lock' = [lock EXCEPT ![c] = "exclusive"]
                        /\ UNCHANGED loc
                   ELSE Return(c)
    /\ UNCHANGED <<journal, installation, cluster, faults>>

BeginAccess(c, o, g, p) ==
    /\ pc[c] = "idle" /\ SharedLockFree
    /\ pc' = [pc EXCEPT ![c] = "authorize"]
    /\ lock' = [lock EXCEPT ![c] = "shared"]
    /\ loc' = [loc EXCEPT ![c] = [NoCall EXCEPT !.kind = "access", !.op = o, !.gen = g, !.prof = p]]
    /\ UNCHANGED <<journal, installation, cluster, faults>>

BeginStop(c, o, g, p, s, boot) ==
    /\ pc[c] = "idle" /\ LockFree
    /\ pc' = [pc EXCEPT ![c] = "authorize"]
    /\ lock' = [lock EXCEPT ![c] = "exclusive"]
    /\ loc' = [loc EXCEPT ![c] = [NoCall EXCEPT !.kind = "stop", !.op = o, !.gen = g,
                                                !.prof = p, !.stop = s, !.boot = boot]]
    /\ UNCHANGED <<journal, installation, cluster, faults>>

\* Mutant: a phase no entry point handles falls through.
VisitFallsThrough(kind, phase) ==
    CASE kind = "start" /\ phase \in {"accepted", "launching"} -> "claim"
      [] kind \in {"start", "access"} /\ phase = "running" -> "observe_pod"
      [] kind = "stop" -> "stop"
      [] OTHER -> phase

\* Where the visit of each entry point starts; "idle" when the phase refuses it.
Visit(kind, phase) ==
    CASE kind = "start" /\ phase \in {"accepted", "launching"} -> "claim"
      [] kind \in {"start", "access"} /\ phase = "running" -> "observe_pod"
      [] kind = "stop" -> "stop"
      [] OTHER -> "idle"

Load(c) ==
    LET row == starts[loc[c].op]
        visit == Visit(loc[c].kind, row.phase)
        aim == CASE visit = "claim" -> "ensure"
                 [] visit = "stop" -> "stop"
                 [] OTHER -> "verify"
    IN
    /\ pc[c] = "load"
    /\ IF /\ installationMatches(c)
          /\ row.phase # "none" /\ sameRecord(row, loc[c])
          /\ visit # "idle"
         THEN /\ Goto(c, visit)
              /\ loc' = [loc EXCEPT ![c].rec = row, ![c].fresh = TRUE, ![c].aim = aim]
         ELSE Return(c)
    /\ UNCHANGED <<journal, installation, cluster, faults>>

--------------------------------------------------------------------------------
(* checkpoint: the guarded UPDATE of a start, on the session holding the    *)
(* lock.  loc.fresh stands for "the revision of my copy is the row's".      *)

\* Mutant: the UPDATE runs on any pooled connection and without the revision.
checkpointUnfenced(c, next) ==
    /\ loc[c].rec.phase \in {"accepted", "launching"} /\ monotonicObservation(loc[c].rec.obs, next)
    /\ next.boot # 0 => next.ready
checkpoint(c, next) ==
    LET r == loc[c].rec IN
    /\ Connected(c) /\ loc[c].fresh
    /\ r.phase \in {"accepted", "launching"} /\ monotonicObservation(r.obs, next)
    /\ next.boot # 0 => next.ready

\* Writes the row; the caller goes on with mine, every other copy is stale now.
SaveStart(c, row, mine) ==
    LET o == loc[c].op IN
    /\ starts' = [starts EXCEPT ![o] = row]
    /\ loc' = [d \in Callers |->
                 IF d = c THEN mine
                 ELSE IF loc[d].op = o THEN [loc[d] EXCEPT !.fresh = FALSE] ELSE loc[d]]

Observed(seen) == [pod |-> seen.pod, svc |-> seen.svc, sec |-> seen.sec,
                   ready |-> seen.status = "ready", boot |-> seen.boot]
Progress(seen) == [Observed(seen) EXCEPT !.ready = FALSE, !.boot = 0]
Launching(r, obs) == [r EXCEPT !.phase = "launching", !.obs = obs]
Running(r, obs) == [r EXCEPT !.phase = "running", !.obs = obs]

--------------------------------------------------------------------------------
(* AdvanceResources and EnsureWorker                                        *)

ClaimVolume(c) ==
    /\ pc[c] = "claim"
    /\ IF claimed = loc[c].prof \/ (claimed = NoProfile /\ InspectVolume(NoOp, 0))
         THEN claimed' = loc[c].prof /\ Goto(c, "ensure_pod") /\ UNCHANGED loc
         ELSE UNCHANGED claimed /\ Return(c)
    /\ UNCHANGED <<journal, installation, pods, svcs, secret, nodeReady, timely, barriers, late, faults>>

\* Every object is read and validated before the first mutation.  An object that
\* has been recorded is never made again.
EnsurePod(c) ==
    LET p == pods[loc[c].op]
        uid == loc[c].rec.obs.pod
    IN
    /\ pc[c] = "ensure_pod"
    /\ IF p.status = "absent"
         THEN Check(c, uid = 0, "ensure_svc", NoSeen)
         ELSE Check(c, podMatches(p, uid), "ensure_svc",
                    [NoSeen EXCEPT !.pod = p.uid, !.status = p.status])
    /\ UNCHANGED <<journal, installation, cluster, faults>>

EnsureService(c) ==
    LET s == svcs[loc[c].op]
        uid == loc[c].rec.obs.svc
        seen == loc[c].seen
    IN
    /\ pc[c] = "ensure_svc"
    /\ IF ~s.live
         THEN Check(c, uid = 0 /\ seen.pod = 0, "ensure_rest", seen)
         ELSE Check(c, serviceMatches(s, uid), "ensure_rest", [seen EXCEPT !.svc = s.uid])
    /\ UNCHANGED <<journal, installation, cluster, faults>>

EnsureSecretAndVolume(c) ==
    LET uid == loc[c].rec.obs.sec
        seen == loc[c].seen
        volume == InspectVolume(loc[c].op, seen.pod) /\ claimed = loc[c].prof
    IN
    /\ pc[c] = "ensure_rest"
    /\ IF ~secret.live
         THEN Check(c, uid = 0 /\ seen.pod = 0 /\ seen.svc = 0 /\ volume, "checkpoint", seen)
         ELSE Check(c, secretMatches(secret, loc[c].prof, uid) /\ volume, "checkpoint",
                    [seen EXCEPT !.sec = secret.uid])
    /\ UNCHANGED <<journal, installation, cluster, faults>>

Complete(seen) == seen.sec # 0 /\ seen.svc # 0 /\ seen.pod # 0

\* The UIDs known so far are committed before the next mutation.
CheckpointProgress(c) ==
    LET seen == loc[c].seen
        row == Launching(loc[c].rec, Progress(seen))
    IN
    /\ pc[c] = "checkpoint"
    /\ IF checkpoint(c, Progress(seen))
         THEN /\ SaveStart(c, row, [loc[c] EXCEPT !.rec = row])
              /\ Goto(c, IF Complete(seen) THEN "observe_pod" ELSE "create")
         ELSE UNCHANGED starts /\ Return(c)
    /\ UNCHANGED <<stops, installation, cluster, faults>>

Missing(seen) ==
    CASE seen.sec = 0 -> "secret"
      [] seen.sec # 0 /\ seen.svc = 0 -> "service"
      [] OTHER -> "pod"

NewObject(x) == [uid |-> x.uid + 1, live |-> TRUE]
NewSecret(x, p) == [uid |-> x.uid + 1, live |-> TRUE, prof |-> p]
NewPod(x) == [uid |-> x.uid + 1, status |-> "pending"]
\* AlreadyExists otherwise; MaxUid is the bound on incarnations.
Creatable(x) == ~x.live /\ x.uid < MaxUid
PodCreatable(x) == x.status = "absent" /\ x.uid < MaxUid

CreateSecret(c) ==
    /\ pc[c] = "create" /\ Missing(loc[c].seen) = "secret"
    /\ IF Creatable(secret)
         THEN /\ secret' = NewSecret(secret, loc[c].prof)
              /\ Goto(c, "checkpoint")
              /\ loc' = [loc EXCEPT ![c].seen.sec = secret.uid + 1]
         ELSE UNCHANGED secret /\ Return(c)
    /\ UNCHANGED <<journal, installation, pods, svcs, claimed, nodeReady, timely, barriers, late, faults>>

CreateService(c) ==
    LET o == loc[c].op IN
    /\ pc[c] = "create" /\ Missing(loc[c].seen) = "service"
    /\ IF Creatable(svcs[o])
         THEN /\ svcs' = [svcs EXCEPT ![o] = NewObject(svcs[o])]
              /\ Goto(c, "checkpoint")
              /\ loc' = [loc EXCEPT ![c].seen.svc = svcs[o].uid + 1]
         ELSE UNCHANGED svcs /\ Return(c)
    /\ UNCHANGED <<journal, installation, pods, secret, claimed, nodeReady, timely, barriers, late, faults>>

CreatePod(c) ==
    LET o == loc[c].op IN
    /\ pc[c] = "create" /\ Missing(loc[c].seen) = "pod"
    /\ IF PodCreatable(pods[o])
         THEN /\ pods' = [pods EXCEPT ![o] = NewPod(pods[o])]
              /\ Goto(c, "checkpoint")
              /\ loc' = [loc EXCEPT ![c].seen.pod = pods[o].uid + 1, ![c].seen.status = "pending"]
         ELSE UNCHANGED pods /\ Return(c)
    /\ UNCHANGED <<journal, installation, svcs, secret, claimed, nodeReady, timely, barriers, late, faults>>

--------------------------------------------------------------------------------
(* ObserveWorker: read-only, run at five places; loc.aim says which         *)

ObservePod(c) ==
    LET p == pods[loc[c].op] IN
    /\ pc[c] = "observe_pod"
    /\ Check(c, podMatches(p, loc[c].rec.obs.pod), "observe_rest",
             [loc[c].seen EXCEPT !.pod = p.uid, !.status = p.status])
    /\ UNCHANGED <<journal, installation, cluster, faults>>

\* Mutant: the first observation is taken for the second, and the barrier is skipped.
AfterObservationUnsealed(aim) ==
    CASE aim = "ensure" -> "checkpoint_observed"
      [] aim = "verify" -> "probe"
      [] aim = "verified" -> "certify"
      [] OTHER -> "checkpoint_sealed"
AfterObservation(aim) ==
    CASE aim = "ensure" -> "checkpoint_observed"
      [] aim = "verify" -> "probe"
      [] aim = "verified" -> "certify"
      [] aim = "stop" -> "seal"
      [] OTHER -> "checkpoint_sealed"

ObserveRest(c) ==
    LET o == loc[c].op
        obs == loc[c].rec.obs
        seen == loc[c].seen
    IN
    /\ pc[c] = "observe_rest"
    /\ Check(c, /\ serviceMatches(svcs[o], obs.svc)
                /\ secretMatches(secret, loc[c].prof, obs.sec)
                /\ InspectVolume(o, seen.pod) /\ claimed = loc[c].prof,
             AfterObservation(loc[c].aim),
             [seen EXCEPT !.svc = svcs[o].uid, !.sec = secret.uid])
    /\ UNCHANGED <<journal, installation, cluster, faults>>

\* EnsureWorker's last checkpoint; a Pod that is Ready is verified at once.
CheckpointObserved(c) ==
    LET seen == loc[c].seen
        row == Launching(loc[c].rec, Observed(seen))
    IN
    /\ pc[c] = "checkpoint_observed"
    /\ IF ~checkpoint(c, Observed(seen))
         THEN UNCHANGED starts /\ Return(c)
         ELSE IF seen.status = "ready"
           THEN SaveStart(c, row, [loc[c] EXCEPT !.rec = row, !.aim = "verify"]) /\ Goto(c, "observe_pod")
           ELSE SaveStart(c, row, NoCall) /\ Leave(c)
    /\ UNCHANGED <<stops, installation, cluster, faults>>

--------------------------------------------------------------------------------
(* verifyWorker: the probe between two observations, and what follows it    *)

\* The worker named by the recorded UIDs answers with its boot id over HTTP.
Probe(c) ==
    LET o == loc[c].op
        obs == loc[c].rec.obs
    IN
    /\ pc[c] = "probe"
    /\ IF /\ loc[c].seen.status = "ready" /\ secretMatches(secret, loc[c].prof, loc[c].seen.sec)
          /\ Answers(o, loc[c].seen.pod) /\ Keeps(obs.boot, pods[o].uid)
         THEN /\ Goto(c, "observe_pod")
              /\ loc' = [loc EXCEPT ![c].seen.boot = pods[o].uid, ![c].aim = "verified"]
         ELSE Return(c)
    /\ UNCHANGED <<journal, installation, cluster, faults>>

\* AdvanceResources of a start that was not running yet: commit the proven process.
CheckpointRunning(c) ==
    LET seen == loc[c].seen IN
    /\ pc[c] = "certify" /\ loc[c].kind = "start" /\ loc[c].rec.phase # "running"
    /\ IF seen.status = "ready" /\ checkpoint(c, Observed(seen))
         THEN SaveStart(c, Running(loc[c].rec, Observed(seen)), NoCall) /\ Leave(c)
         ELSE UNCHANGED starts /\ Return(c)
    /\ UNCHANGED <<stops, installation, cluster, faults>>

\* A replayed start of a running worker returns; Access reads the credential once more.
Certify(c) ==
    /\ pc[c] = "certify" /\ (loc[c].kind = "access" \/ loc[c].rec.phase = "running")
    /\ Check(c, loc[c].kind = "access" /\ loc[c].seen.status = "ready", "grant", loc[c].seen)
    /\ UNCHANGED <<journal, installation, cluster, faults>>

\* Access hands out the worker's origin and credential if the Secret still matches.
Grant(c) ==
    /\ pc[c] = "grant"
    /\ Return(c)
    /\ UNCHANGED <<journal, installation, cluster, faults>>

--------------------------------------------------------------------------------
(* Stop: acceptStop, the worker's barrier, RemoveWorker                     *)

\* What scanStop requires of a replayed stop.
scanStop(row, call) ==
    /\ row.start = call.op /\ row.boot = call.boot /\ call.boot = call.rec.obs.boot
    /\ call.rec.phase = IF row.phase = "stopped" THEN "stopped" ELSE "stopping"

ReplayStop(c) ==
    LET row == stops[loc[c].stop] IN
    /\ pc[c] = "stop" /\ row.phase # "none"
    /\ IF Connected(c) /\ scanStop(row, loc[c]) /\ row.phase # "stopped"
         THEN /\ Goto(c, IF row.phase = "accepted" THEN "observe_pod" ELSE "remove_node")
              /\ loc' = [loc EXCEPT ![c].prog = row.phase]
         ELSE Return(c)
    /\ UNCHANGED <<journal, installation, cluster, faults>>

\* The stop row and the start's phase change in one transaction; a start has one stop.
acceptStop(c) ==
    LET o == loc[c].op
        r == loc[c].rec
        row == [r EXCEPT !.phase = "stopping"]
    IN
    /\ pc[c] = "stop" /\ stops[loc[c].stop].phase = "none"
    /\ IF /\ Connected(c) /\ loc[c].fresh
          /\ r.phase = "running" /\ r.obs.boot = loc[c].boot
          /\ \A s \in StopOps : stops[s].start # o
         THEN /\ stops' = [stops EXCEPT ![loc[c].stop] =
                             [start |-> o, boot |-> loc[c].boot, phase |-> "accepted"]]
              /\ SaveStart(c, row, [loc[c] EXCEPT !.rec = row, !.prog = "accepted"])
              /\ Goto(c, "observe_pod")
         ELSE UNCHANGED journal /\ Return(c)
    /\ UNCHANGED <<installation, cluster, faults>>

\* The worker closes admission for this stop operation and no other, and proves it.
SealBy(o, uid, s) ==
    /\ Answers(o, uid)
    /\ \A b \in barriers : b.op = o /\ b.uid = uid => b.stop = s
    /\ barriers' = barriers \cup {[op |-> o, uid |-> uid, stop |-> s]}

Seal(c) ==
    LET obs == loc[c].rec.obs IN
    /\ pc[c] = "seal"
    /\ secretMatches(secret, loc[c].prof, obs.sec) /\ SealBy(loc[c].op, obs.pod, loc[c].stop)
    /\ Goto(c, "observe_pod")
    /\ loc' = [loc EXCEPT ![c].aim = "sealed"]
    /\ UNCHANGED <<journal, installation, pods, svcs, secret, claimed, nodeReady, timely, late, faults>>

\* ErrBusy while work is admitted, ErrUnavailable or ErrBinding.
SealRefused(c) ==
    /\ pc[c] = "seal"
    /\ Return(c)
    /\ UNCHANGED <<journal, installation, cluster, faults>>

\* checkpointStop: the guarded UPDATE of the stop row, and of the start at the end.
checkpointStop(c) ==
    LET next == NextStop(loc[c].prog) IN
    /\ Connected(c) /\ loc[c].rec.phase = "stopping"
    /\ stops[loc[c].stop].phase = loc[c].prog
    /\ next = "stopped" => loc[c].fresh

\* Mutant: the stop is recorded as finished one phase early.
SaveStopEarly(c) ==
    stops' = [stops EXCEPT ![loc[c].stop].phase =
                IF loc[c].prog = "pod_deleted" THEN "stopped" ELSE NextStop(loc[c].prog)]
SaveStop(c) == stops' = [stops EXCEPT ![loc[c].stop].phase = NextStop(loc[c].prog)]

\* The second observation passed: the barrier's proof is committed.
CheckpointSealed(c) ==
    /\ pc[c] = "checkpoint_sealed"
    /\ IF checkpointStop(c)
         THEN /\ SaveStop(c)
              /\ Goto(c, "remove_node")
              /\ loc' = [loc EXCEPT ![c].prog = NextStop(loc[c].prog)]
         ELSE UNCHANGED stops /\ Return(c)
    /\ UNCHANGED <<starts, installation, cluster, faults>>

RemoveNode(c) ==
    /\ pc[c] = "remove_node"
    /\ Check(c, nodeReady, "remove_pod", NoSeen)
    /\ UNCHANGED <<journal, installation, cluster, faults>>

\* A missing Pod needs the committed intent to delete it, a terminating one exactly that.
RemovePod(c) ==
    LET p == pods[loc[c].op]
        uid == loc[c].rec.obs.pod
        stage == Stage(loc[c].prog)
        seen == [NoSeen EXCEPT !.pod = p.uid, !.status = p.status]
    IN
    /\ pc[c] = "remove_pod"
    /\ CASE p.status = "absent" -> Check(c, stage >= 1, "remove_svc", NoSeen)
         [] p.status = "terminating" -> Check(c, stage = 1 /\ p.uid = uid, "remove_svc", seen)
         [] OTHER -> Check(c, stage < 2 /\ podMatches(p, uid), "remove_svc", seen)
    /\ UNCHANGED <<journal, installation, cluster, faults>>

RemoveService(c) ==
    LET s == svcs[loc[c].op]
        stage == Stage(loc[c].prog)
        seen == loc[c].seen
    IN
    /\ pc[c] = "remove_svc"
    /\ IF ~s.live
         THEN Check(c, stage >= 3, "remove_rest", seen)
         ELSE Check(c, serviceMatches(s, loc[c].rec.obs.svc), "remove_rest", [seen EXCEPT !.svc = s.uid])
    /\ UNCHANGED <<journal, installation, cluster, faults>>

RemoveSecretAndVolume(c) ==
    /\ pc[c] = "remove_rest"
    /\ Check(c, /\ InspectVolume(loc[c].op, loc[c].rec.obs.pod) /\ claimed = loc[c].prof
                /\ secretMatches(secret, loc[c].prof, loc[c].rec.obs.sec),
             "remove", loc[c].seen)
    /\ UNCHANGED <<journal, installation, cluster, faults>>

\* Mutant: a Service that is still there does not hold the stop back.
PendingPod(call) == call.prog = "pod_delete_requested" /\ call.seen.pod # 0
\* The Pod or Service the current intent is about is still there.
Pending(call) ==
    \/ call.prog = "pod_delete_requested" /\ call.seen.pod # 0
    \/ call.prog = "service_delete_requested" /\ call.seen.svc # 0

\* advance: the next phase is committed before its effect.
RemoveAdvance(c) ==
    LET next == NextStop(loc[c].prog)
        row == [loc[c].rec EXCEPT !.phase = "stopped"]
    IN
    /\ pc[c] = "remove" /\ ~Pending(loc[c])
    /\ IF ~checkpointStop(c)
         THEN UNCHANGED journal /\ Return(c)
         ELSE /\ SaveStop(c)
              /\ IF next = "stopped"
                   THEN SaveStart(c, row, NoCall) /\ Leave(c)
                   ELSE /\ loc' = [loc EXCEPT ![c].prog = next]
                        /\ Goto(c, "remove") /\ UNCHANGED starts
    /\ UNCHANGED <<installation, cluster, faults>>

\* DELETE is fenced by the UID and resourceVersion that were read.
DeletePod(c) ==
    LET o == loc[c].op
        seen == loc[c].seen
    IN
    /\ pc[c] = "remove" /\ loc[c].prog = "pod_delete_requested" /\ Pending(loc[c])
    /\ pods' = IF seen.status # "terminating" /\ pods[o] = [uid |-> seen.pod, status |-> seen.status]
                 THEN [pods EXCEPT ![o].status = "terminating"] ELSE pods
    /\ Return(c)
    /\ UNCHANGED <<journal, installation, svcs, secret, claimed, nodeReady, timely, barriers, late, faults>>

DeleteService(c) ==
    LET o == loc[c].op IN
    /\ pc[c] = "remove" /\ loc[c].prog = "service_delete_requested" /\ Pending(loc[c])
    /\ svcs' = IF svcs[o] = [uid |-> loc[c].seen.svc, live |-> TRUE]
                 THEN [svcs EXCEPT ![o].live = FALSE] ELSE svcs
    /\ Return(c)
    /\ UNCHANGED <<journal, installation, pods, secret, claimed, nodeReady, timely, barriers, late, faults>>

--------------------------------------------------------------------------------
(* Failures of a call                                                       *)

Fault(kind) == kind \in Faults /\ faults < MaxFaults /\ faults' = faults + 1

\* The mutating request a call is in the middle of, if any.
InFlight(c) ==
    LET call == loc[c]
        request(kind, uid) == {[kind |-> kind, op |-> call.op, uid |-> uid, stop |-> call.stop]}
    IN
    CASE pc[c] = "claim" /\ claimed = NoProfile -> request("claim", 0)
      [] pc[c] = "create" -> request(Missing(call.seen), 0)
      [] pc[c] = "seal" -> request("seal", call.rec.obs.pod)
      [] pc[c] = "remove" /\ Pending(call) ->
           IF call.prog = "pod_delete_requested" THEN request("pod_delete", call.seen.pod)
                                                 ELSE request("service_delete", call.seen.svc)
      [] OTHER -> {}

\* The deadline, a network error or a database error ends the call; a request it
\* had sent may still be executed after the lock has been released.
Interrupt(c) ==
    /\ Fault("interrupt") /\ pc[c] # "idle"
    /\ \E sent \in SUBSET InFlight(c) : late' = late \cup sent
    /\ Return(c)
    /\ UNCHANGED <<journal, installation, pods, svcs, secret, claimed, nodeReady, timely, barriers>>

\* The Runtime process dies: every call ends, every session is closed.
Crash ==
    /\ Fault("crash") /\ \E c \in Callers : pc[c] # "idle"
    /\ \E sent \in SUBSET UNION {InFlight(c) : c \in Callers} : late' = late \cup sent
    /\ pc' = [c \in Callers |-> "idle"]
    /\ lock' = [c \in Callers |-> "none"]
    /\ loc' = [c \in Callers |-> NoCall]
    /\ UNCHANGED <<journal, installation, pods, svcs, secret, claimed, nodeReady, timely, barriers>>

\* PostgreSQL drops the session, and the lock with it, while the call goes on.
SessionLoss(c) ==
    /\ Fault("session") /\ lock[c] # "none"
    /\ lock' = [lock EXCEPT ![c] = "none"]
    /\ UNCHANGED <<journal, installation, cluster, pc, loc>>

\* A request whose caller has gone is executed late, if it still can be, or lost.
Land(r) ==
    LET o == r.op IN
    /\ r \in late /\ late' = late \ {r}
    /\ claimed' = IF r.kind = "claim" /\ claimed = NoProfile THEN starts[o].prof ELSE claimed
    /\ \/ /\ r.kind = "secret" /\ Creatable(secret)
          /\ secret' = NewSecret(secret, starts[o].prof)
          /\ UNCHANGED <<pods, svcs, barriers>>
       \/ /\ r.kind = "service" /\ Creatable(svcs[o])
          /\ svcs' = [svcs EXCEPT ![o] = NewObject(svcs[o])]
          /\ UNCHANGED <<pods, secret, barriers>>
       \/ /\ r.kind = "pod" /\ PodCreatable(pods[o])
          /\ pods' = [pods EXCEPT ![o] = NewPod(pods[o])]
          /\ UNCHANGED <<svcs, secret, barriers>>
       \/ /\ r.kind = "pod_delete" /\ podMatches(pods[o], r.uid)
          /\ pods' = [pods EXCEPT ![o].status = "terminating"]
          /\ UNCHANGED <<svcs, secret, barriers>>
       \/ /\ r.kind = "service_delete" /\ serviceMatches(svcs[o], r.uid)
          /\ svcs' = [svcs EXCEPT ![o].live = FALSE]
          /\ UNCHANGED <<pods, secret, barriers>>
       \/ /\ r.kind = "seal" /\ SealBy(o, r.uid, r.stop)
          /\ UNCHANGED <<pods, svcs, secret>>
       \/ r.kind = "claim" /\ UNCHANGED <<pods, svcs, secret, barriers>>
    /\ UNCHANGED <<journal, installation, nodeReady, timely, pc, lock, loc, faults>>

Lose(r) ==
    /\ r \in late /\ late' = late \ {r}
    /\ UNCHANGED <<journal, installation, pods, svcs, secret, claimed, nodeReady, timely, barriers,
                   pc, lock, loc, faults>>

--------------------------------------------------------------------------------
(* The cluster: kubelet, node, and people with kubectl                      *)

\* Creations of this run's Service or Pod that no lock holder answers for.
Unsettled(o) ==
    \/ \E r \in late : r.op = o /\ r.kind \in {"service", "pod"}
    \/ \E c \in Callers : pc[c] = "create" /\ lock[c] = "none" /\ loc[c].op = o

SetPod(o, status) ==
    /\ pods' = [pods EXCEPT ![o].status = status]
    /\ UNCHANGED <<journal, installation, svcs, secret, claimed, nodeReady, timely, barriers, late, pc, lock, loc>>

PodReady(o) == pods[o].status \in {"pending", "unready"} /\ SetPod(o, "ready") /\ UNCHANGED faults
PodUnready(o) == pods[o].status = "ready" /\ Fault("unready") /\ SetPod(o, "unready")
PodExit(o) ==
    /\ pods[o].status \in {"pending", "ready", "unready"}
    /\ Fault("exit") /\ SetPod(o, "exited")
\* The kubelet waits for no request: one that competes with this Pod's name may follow.
PodGone(o) ==
    /\ pods[o].status = "terminating"
    /\ pods' = [pods EXCEPT ![o].status = "absent"]
    /\ timely' = (timely /\ ~Unsettled(o))
    /\ UNCHANGED <<journal, installation, svcs, secret, claimed, nodeReady, barriers, late,
                   pc, lock, loc, faults>>
\* Drain or kubectl delete.
Evict(o) ==
    /\ pods[o].status \in {"pending", "ready", "unready", "exited"}
    /\ Fault("evict") /\ SetPod(o, "terminating")

\* kubectl replace --force: the same manifest under a new UID.
ReplacePod(o) ==
    /\ pods[o].status # "absent" /\ pods[o].uid < MaxUid /\ Fault("replace")
    /\ pods' = [pods EXCEPT ![o] = NewPod(pods[o])]
    /\ UNCHANGED <<journal, installation, svcs, secret, claimed, nodeReady, timely, barriers, late, pc, lock, loc>>

ReplaceService(o) ==
    /\ svcs[o].live /\ svcs[o].uid < MaxUid /\ Fault("replace")
    /\ \E s \in {NewObject(svcs[o]), [svcs[o] EXCEPT !.live = FALSE]} : svcs' = [svcs EXCEPT ![o] = s]
    /\ UNCHANGED <<journal, installation, pods, secret, claimed, nodeReady, timely, barriers, late, pc, lock, loc>>

ReplaceSecret ==
    /\ secret.live /\ secret.uid < MaxUid /\ Fault("replace")
    /\ secret' \in {NewSecret(secret, secret.prof), [secret EXCEPT !.live = FALSE]}
    /\ UNCHANGED <<journal, installation, pods, svcs, claimed, nodeReady, timely, barriers, late, pc, lock, loc>>

\* Nothing of the repository takes a volume from one profile to another: an operator
\* clears its marks between two runs (or binds the PV to a claim of the new profile's
\* namespace), and leaves the credential, removes it or makes one for another profile.
Migrate ==
    /\ "migrate" \in Faults /\ claimed # NoProfile
    /\ \A o \in Ops : starts[o].phase \in {"none", "stopped"} /\ pods[o].status = "absent"
    /\ claimed' = NoProfile
    /\ \/ UNCHANGED secret
       \/ secret' = [secret EXCEPT !.live = FALSE]
       \/ \E p \in Profiles \ {secret.prof} : secret.uid < MaxUid /\ secret' = NewSecret(secret, p)
    /\ late' = {r \in late : r.kind # "claim"}    \* refused: the claim's resourceVersion changed
    /\ UNCHANGED <<journal, installation, pods, svcs, nodeReady, timely, barriers, pc, lock, loc, faults>>

NodeDown ==
    /\ nodeReady /\ Fault("node") /\ nodeReady' = FALSE
    /\ UNCHANGED <<journal, installation, pods, svcs, secret, claimed, timely, barriers, late, pc, lock, loc>>
NodeUp ==
    /\ ~nodeReady /\ nodeReady' = TRUE
    /\ UNCHANGED <<journal, installation, pods, svcs, secret, claimed, timely, barriers, late, pc, lock, loc, faults>>

\* Core publishes a compatible manager, or removes the installation.
Publish ==
    /\ installation # 0 /\ installation < MaxRevision
    /\ installation' = installation + 1
    /\ UNCHANGED <<journal, cluster, pc, lock, loc, faults>>
RemoveInstallation ==
    /\ installation # 0 /\ Fault("removal")
    /\ installation' = 0
    /\ UNCHANGED <<journal, cluster, pc, lock, loc>>

--------------------------------------------------------------------------------
Init ==
    /\ starts = [o \in Ops |-> NoStart]
    /\ stops = [s \in StopOps |-> NoStop]
    /\ installation = 1
    /\ pods = [o \in Ops |-> NoPod]
    /\ svcs = [o \in Ops |-> NoObject]
    /\ secret = NoSecret
    /\ claimed = NoProfile
    /\ nodeReady = TRUE /\ timely = TRUE
    /\ barriers = {}
    /\ late = {}
    /\ pc = [c \in Callers |-> "idle"]
    /\ lock = [c \in Callers |-> "none"]
    /\ loc = [c \in Callers |-> NoCall]
    /\ faults = 0

Begin(c) ==
    \E o \in Ops, g \in 1..MaxGeneration, p \in Profiles :
        \/ BeginStart(c, o, g, p)
        \/ BeginAccess(c, o, g, p)
        \/ \E s \in StopOps, boot \in 1..MaxUid : BeginStop(c, o, g, p, s, boot)

Proceed(c) ==
    \/ Authorize(c) \/ AcceptCheck(c) \/ AcceptReplay(c) \/ AcceptInsert(c) \/ AcceptInspect(c)
    \/ AcceptBind(c) \/ AcceptRefuse(c) \/ AcquireLock(c) \/ Load(c)
    \/ ClaimVolume(c) \/ EnsurePod(c) \/ EnsureService(c) \/ EnsureSecretAndVolume(c)
    \/ CheckpointProgress(c) \/ CreateSecret(c) \/ CreateService(c) \/ CreatePod(c)
    \/ ObservePod(c) \/ ObserveRest(c) \/ CheckpointObserved(c)
    \/ Probe(c) \/ CheckpointRunning(c) \/ Certify(c) \/ Grant(c)
    \/ ReplayStop(c) \/ acceptStop(c) \/ Seal(c) \/ SealRefused(c) \/ CheckpointSealed(c)
    \/ RemoveNode(c) \/ RemovePod(c) \/ RemoveService(c) \/ RemoveSecretAndVolume(c)
    \/ RemoveAdvance(c) \/ DeletePod(c) \/ DeleteService(c)

Cluster ==
    \/ \E o \in Ops : \/ PodReady(o) \/ PodUnready(o) \/ PodExit(o) \/ PodGone(o) \/ Evict(o)
                      \/ ReplacePod(o) \/ ReplaceService(o)
    \/ ReplaceSecret \/ Migrate \/ NodeDown \/ NodeUp \/ Publish \/ RemoveInstallation

Next ==
    \/ \E c \in Callers : Begin(c) \/ Proceed(c) \/ Interrupt(c) \/ SessionLoss(c)
    \/ Crash
    \/ \E r \in late : Land(r) \/ Lose(r)
    \/ Cluster

Spec == Init /\ [][Next]_vars

\* The App repeats an operation it got accepted, with the arguments it used.
RetryStart(c) ==
    \E o \in Ops : /\ starts[o].phase \in {"accepted", "launching"}
                   /\ BeginStart(c, o, starts[o].gen, starts[o].prof)
RetryStop(c) ==
    \E s \in StopOps : /\ stops[s].phase \notin {"none", "stopped"}
                       /\ LET o == stops[s].start IN
                          BeginStop(c, o, starts[o].gen, starts[o].prof, s, stops[s].boot)
Settle == \E r \in late : Land(r) \/ Lose(r)
Kubelet == NodeUp \/ \E o \in Ops : PodReady(o) \/ PodGone(o)

\* Calls run on, the cluster makes progress, the worker drains its admitted work in
\* the end, and the App's retries meet a moment at which the lock is free.
Fairness ==
    /\ WF_vars(Settle) /\ WF_vars(Kubelet)
    /\ \A c \in Callers : /\ WF_vars(Proceed(c)) /\ SF_vars(Seal(c))
                          /\ SF_vars(RetryStart(c)) /\ SF_vars(RetryStop(c))
FairSpec == Spec /\ Fairness

--------------------------------------------------------------------------------
(* Properties                                                               *)

\* Every variable stays in the type the source declares for it.
TypeOK ==
    /\ starts \in [Ops -> StartRow]
    /\ stops \in [StopOps -> StopRow]
    /\ installation \in 0..MaxRevision
    /\ pods \in [Ops -> Pod]
    /\ svcs \in [Ops -> Object]
    /\ secret \in Secret
    /\ claimed \in Profiles \cup {NoProfile}
    /\ nodeReady \in BOOLEAN
    /\ timely \in BOOLEAN
    /\ barriers \subseteq Barrier
    /\ late \subseteq Request
    /\ pc \in [Callers -> Labels]
    /\ lock \in [Callers -> {"none", "shared", "exclusive"}]
    /\ loc \in [Callers -> Locals]
    /\ faults \in 0..MaxFaults

\* At most one worker Pod mounts the instance's volume, across generations, even while
\* abandoned requests are executed late (InspectVolume, Accept's phase check), as long
\* as none of them outlives the Pod that has its name (timely).
ExclusiveMount ==
    timely => \A o, x \in Ops : pods[o].status # "absent" /\ pods[x].status # "absent" => o = x

\* A start recorded as stopped has left neither Pod nor Service behind (RemoveWorker
\* reads before each commit), and requests of calls that were cut short bring none back
\* unless one is executed after the Pod has gone: that, ensure.go:147 does not prevent.
RetiredLeavesNothing ==
    timely => \A o \in Ops : starts[o].phase = "stopped" => pods[o].status = "absent" /\ ~svcs[o].live

\* While a call holds the lock, the copies of the start and of the stop it loaded are
\* the rows: the revision checks of checkpoint and checkpointStop never fail.
HolderCopyCurrent ==
    \A c \in Callers : Connected(c) /\ loc[c].rec.phase # "none" =>
        /\ loc[c].fresh /\ loc[c].rec = starts[loc[c].op]
        /\ loc[c].prog # "none" => stops[loc[c].stop].phase = loc[c].prog

\* Generations are distinct and every generation but the latest is stopped (Accept).
OneActiveGeneration ==
    \A o, x \in Accepted : o # x =>
        starts[o].gen # starts[x].gen /\ (starts[o].gen < starts[x].gen => starts[o].phase = "stopped")

\* A committed proof was really given: past "accepted", the process the start recorded
\* has closed admission for exactly this stop operation (Stop's two observations).
SealedProofIsGenuine ==
    \A s \in StopOps : stops[s].phase \notin {"none", "accepted"} =>
        [op |-> stops[s].start, uid |-> starts[stops[s].start].obs.pod, stop |-> s] \in barriers

\* A generation under an unchanged profile goes on with the credential the one before it
\* recorded; generations under different profiles never record the same one, whatever
\* Secrets were replaced, made late or left by a migration (Accept, secretMatches).
CredentialKept ==
    \A o, x \in Accepted :
        /\ starts[x].gen = starts[o].gen + 1 /\ starts[x].prof = starts[o].prof =>
             starts[o].obs.sec # 0 /\ starts[x].obs.sec = starts[o].obs.sec
        /\ starts[x].prof # starts[o].prof =>
             starts[x].obs.sec # starts[o].obs.sec \/ starts[x].obs.sec = 0

\* No stop is accepted between the check of Access and its answer (the shared lock).
AccessWhileRunning ==
    \A c \in Callers : pc[c] = "grant" /\ Connected(c) =>
        starts[loc[c].op].phase = "running" /\ \A s \in StopOps : stops[s].start # loc[c].op

\* A start is stopping or stopped because of exactly one stop, and they finish together.
StopsAgree ==
    /\ \A s, t \in StopOps : stops[s].start # NoOp /\ stops[s].start = stops[t].start => s = t
    /\ \A s \in StopOps : stops[s].phase # "none" =>
         starts[stops[s].start].phase = IF stops[s].phase = "stopped" THEN "stopped" ELSE "stopping"
    /\ \A o \in Ops : starts[o].phase \in {"stopping", "stopped"} => \E s \in StopOps : stops[s].start = o

\* Runtime asks for a Pod's termination only with that intent committed, for the Pod
\* it recorded, and after its process closed admission (RemoveWorker).
Condemned(o) ==
    /\ pods[o].uid = starts[o].obs.pod
    /\ \E s \in StopOps : /\ stops[s].start = o /\ stops[s].phase = "pod_delete_requested"
                          /\ [op |-> o, uid |-> pods[o].uid, stop |-> s] \in barriers
DeletesOnlyCondemned ==
    [][\A o \in Ops : pods[o].status # "terminating" /\ pods'[o].status = "terminating"
                         /\ faults' = faults => Condemned(o)]_vars

Rank(phase) ==
    CASE phase = "none" -> 0 [] phase = "accepted" -> 1 [] phase = "launching" -> 2
      [] phase = "running" -> 3 [] phase = "stopping" -> 4 [] OTHER -> 5
\* The journal is history: rows stay, phases only advance, recorded UIDs never change; and
\* while creations do not outlive a Pod, a worker Pod appears only for a launching start
\* with no recorded Pod, when no other worker of the instance is left (EnsureWorker
\* never makes a recorded object again).
HistoryKept ==
    [][\A o \in Ops :
         /\ Rank(starts[o].phase) <= Rank(starts'[o].phase)
         /\ starts[o].phase # "none" => /\ starts'[o].gen = starts[o].gen /\ starts'[o].prof = starts[o].prof
                                         /\ starts'[o].revision = starts[o].revision
         /\ Keeps(starts[o].obs.pod, starts'[o].obs.pod) /\ Keeps(starts[o].obs.svc, starts'[o].obs.svc)
         /\ Keeps(starts[o].obs.sec, starts'[o].obs.sec) /\ Keeps(starts[o].obs.boot, starts'[o].obs.boot)
         /\ timely' /\ pods[o].status = "absent" /\ pods'[o].status # "absent" =>
              /\ starts[o].phase = "launching" /\ starts[o].obs.pod = 0
              /\ \A x \in Ops : pods[x].status = "absent"]_vars

\* An accepted start gets its worker running, whatever calls were cut short before:
\* no interrupted EnsureWorker leaves objects it cannot take up again.
StartCompletes ==
    \A o \in Ops : starts[o].phase \in {"accepted", "launching"} ~> starts[o].phase = "running"

\* An accepted stop retires the run in the end: no crash between an intent and its
\* effect leaves RemoveWorker in a phase it refuses to resume from.  A Pod made after
\* the one that had its name has gone (~timely) does: nobody removes that Pod.
StopCompletes ==
    \A o \in Ops : starts[o].phase = "stopping" ~> starts[o].phase = "stopped" \/ ~timely

\* The comment on installationMatches: a removal or a revision change after the
\* authorization cannot receive a binding.
AcceptUnderCurrentGrant ==
    [][\A o \in Ops : starts[o].phase = "none" /\ starts'[o].phase # "none" =>
         installation = starts'[o].revision]_vars

--------------------------------------------------------------------------------
(* Refinement                                                               *)

RunState(phase) == IF phase \in {"accepted", "launching"} THEN "starting" ELSE phase
Lifecycle == INSTANCE InstanceLifecycle WITH
    state <- [o \in Ops |-> RunState(starts[o].phase)],
    gen <- [o \in Ops |-> starts[o].gen],
    workers <- {o \in Ops : pods[o].status # "absent"}

\* The journal with its calls, crashes and late requests keeps the abstract promise as
\* long as no creation outlives the Pod that has its name.
ImplementsLifecycle ==
    Lifecycle!Init /\ [][timely' => Lifecycle!Next \/ UNCHANGED Lifecycle!lifecycleVars]_vars
================================================================================
