# Station Runtime: TLA+ models, checks and proofs

The Station Runtime runs Apps on one Kubernetes station. It accepts commands from
Core and from installed Apps, journals them in PostgreSQL, and turns them into
Kubernetes objects. Almost everything that is hard about it comes from one pattern:
*commit an intent, perform one external effect, commit what was observed*, under a
PostgreSQL advisory lock that disappears when its session or the process does, while
a request that was already sent may still be executed.

This directory models that pattern component by component, checks it with TLC on
small instances, and proves the central invariants with TLAPS for instances of any
size. Paths are relative to the repository (`src/`).

## 1. Inventory

| Component | State it keeps | Operations | Interacts with |
|---|---|---|---|
| App instance journal (`internal/appinstances/{journal,stop_journal,access,http,authorization}.go`) | `app_instance_starts`, `app_instance_stops`, volume reservations; per-instance advisory lock | Start, Access, Stop | Core (authorization), `app_installations` (row check), worker resources |
| App instance worker resources (`ensure,observe,remove,objects,storage,worker_probe,worker_stop`) | Pod and Service per start operation, Secret and PVC per instance | EnsureWorker, ObserveWorker, RemoveWorker, ClaimVolume, probe, Seal | Kubernetes API, the worker's HTTP endpoints |
| Legacy workspace instances (`internal/instances`) | `runtime_instance_executions`, `runtime_instance_workspaces`; a worker Pod and Service per start, one Secret | Create, Start, Stop, Destroy, saved recovery, Access | Kubernetes API, compute admission, the pool |
| Workspace pool (`instances/workspaces.go`, `storage*.go`) | PVCs and PVs of a pool, reservations by both allocators | Workspaces, ReleaseWorkspace, EnsurePoolClaim | both instance kinds, Kubernetes API |
| Compute admission (`scheduler`, `computepolicy`, `instances/compute.go`) | none (a predicate over observed Pods and nodes) | CanAdmit | legacy instances |
| Management transition (`executor/management_*.go`) | `runtime_management_transitions` with a checkpoint of the replaced objects | Reconcile (prepare / restore), Release | Core's transition row, Deployment and Services, the manager's maintenance endpoint |
| Stopped replacement (`executor/stopped_*.go`) | the same row | the same steps, with routing gates and a stopped process | the same |
| Executor service (`executor/service.go`, `appcenter*.go`, `kubernetes.go`, `helm_lifecycle.go`, `installation.go`, `adoption.go`) | `runtime_app_executions` | inspect; install, upgrade, start, stop, restart, delete, adopt | Core's transition row, Kubernetes API, Helm |
| App state observer (`internal/appstate`) | a session: listed versions, watches, two bounded channels, a health round | list, snapshot, watch, probe, heartbeat | Core (one stream), Kubernetes API |
| Releases, charts, telemetry, strict JSON, generated protocol, `cmd/` | none of their own | fetching, parsing, wiring | - |

Hard behaviours: several handler goroutines per instance; a session lost while its
call goes on; a process crash at any commit or API call; a handler deadline (20 s)
that abandons a request which is executed later; objects evicted, replaced or deleted
by others; a worker process that exits; a node that goes away; Core changing the
installation in the middle of a call. `PROJECT.json` lists each of them as a hazard
at its line, with the properties that would notice it going wrong.

What makes each component correct:

* *App instances*: one worker at a time on the volume; generations one after the
  other; a retired run leaves nothing behind; recorded identities never change; no
  deletion without a committed intent and the process's own proof that it closed
  admission; every accepted start and stop can be resumed from wherever it was cut.
* *Legacy instances*: one Pod at a time on the volume; a restart loads what the last worker
  saved; an operation that ended at rest leaves nothing behind.
* *Pool*: a volume has one owner; releasing a workspace takes nothing from a run that did
  not overlap the release; a claim left by a rolled back transaction is reusable.
* *Management transitions*: the manager is changed only inside maintenance, admission
  reopens only on the published version, compensation restores what was captured.
* *Executor*: a call changes only the objects its command was bound to; an operation
  reported as succeeded has been carried out; a recorded operation ends.
* *Observer*: what Core knows is the cluster at one moment, never goes back and catches up.
* *Compute admission*: agrees with the sum over all placements of what is admitted.

## 2. Plan

1. `AppInstance` with `InstanceLifecycle`, its runs and proofs. **Done**, the refinement included.
2. `ManagementJournal` (the transition row, Core's row, one reconcile step) and the
   two drivers over it, `ManagementTransition` and `StoppedTransition`, both shown to
   implement `SafeUpgrade`. **Modelled, checked and proved.**
3. `RuntimeInstance`: create, start, stop, destroy and both recoveries of the legacy
   instances. **Modelled, checked and proved.**
4. `WorkspacePool`: both allocators, `EnsurePoolClaim`, `ReleaseWorkspace` and its cleaner.
   **Modelled, checked and proved.**
5. `AppStateObserver` and `AppExecution`. **Modelled, checked and proved.**
6. Still open: adoption of workloads and of old releases by the executor.

## 3. `AppInstance`

One instance: its rows, its objects and any number of concurrent calls, under one or more
execution profiles (`Profile.Hash`).

| Variable | Code |
|---|---|
| `starts`, `stops` | rows of `station.app_instance_starts` / `_stops`; `obs` is the JSON `Observation` |
| `installation` | revision of the `app_installations` row, 0 once removed |
| `pods`, `svcs` | the worker's Pod and Service |
| `secret`, `claimed` | the instance's Secret with the profile it is annotated with; the profile in the owner annotations of the PVC |
| `nodeReady` | condition of the profile's node, read by `RemoveWorker` |
| `barriers` | stop barriers acknowledged by worker processes (`HTTPWorkerStopper.Seal`) |
| `late` | requests whose caller has gone and that the API server or worker may still execute |
| `pc`, `loc` | where a handler goroutine is and its local variables, among them its copy `rec` of the row |
| `lock` | the advisory lock per session: transaction lock in `Accept`, session lock (shared for `Access`) in `withLockedRecord` |
| `faults` | how many failures have happened, for the bound |
| `timely` | history: no Pod has gone while an abandoned creation of its run was unsettled |

A call is cut at every API call and every commit; what lies between two cuts touches
only local state. `BeginStart ... AcceptInsert` is `Accept`; `AcquireLock`, `Authorize`,
`Load` are `withLockedRecord`; `ClaimVolume ... CheckpointObserved` is `EnsureWorker` as
called by `AdvanceResources`; `ObservePod`/`ObserveRest` is `ObserveWorker`, which five
places call (`loc.aim` says which); `Probe ... Grant` is `verifyWorker` and what follows
it; `ReplayStop ... DeleteService` is `Stop` with `RemoveWorker`. `Interrupt` (deadline,
network or database error), `Crash` and `SessionLoss` are the ways a call ends badly.

Abstractions: a UID is the number of the object's incarnation; the boot id of a worker
process is its Pod's UID (the Pods have `RestartPolicyNever`); `loc.fresh` stands for
the equality of the row's revision with the copy's; a resourceVersion precondition is
the equality of the object with what was read; a call that cannot take the lock returns
`ErrBusy` and is not modelled as a step. The choice of a volume belongs to
`WorkspacePool`. The bound `MaxUid` on incarnations makes a creation beyond
it fail, as any API error would.

Changed profiles: a start under the profile of the one before inherits its credential
(`AcceptInsert`); under another one (`journal.go:159-169`) it takes the Secret that carries
the new profile, if there is one, and `reserve` binds the volume to the new profile
(`AcceptInspect`, `AcceptBind`). Both refuse what carries another profile's marks, and
nothing in the repository takes these marks off while the journal stays: `ReleaseWorkspace`
removes the rows as well. So the branch is reached only after an operator's `Migrate`,
which clears the marks of the volume between two runs and leaves the Secret, removes it or
makes one for another profile. `CredentialKept` says both halves: same profile, same
credential; different profiles, never the same. An operator who re-annotates the existing
Secret in place would hand the credential over; `Migrate` does not do that.

Timing: the handler's deadline is 20 s (`http.go:108`) and the worker's grace period at
most 30 s, but neither fences a creation, which goes by name (`ensure.go:147`). A Pod
creation that is executed after the Pod of that name has gone brings back a retired run,
beside the worker of the next one. The model has this step. `timely` is false from the
moment a Pod goes while an abandoned creation of its run is unsettled, and what the code
promises only up to then says so: `ExclusiveMount`, `RetiredLeavesNothing`, the clause of
`HistoryKept` about new Pods, `ImplementsLifecycle` and `StopCompletes` (nobody removes the
Pod that came back). All other properties hold without it. `RuntimeInstance` has the same
race, and `runtime_instance_late` shows its trace.

`InstanceLifecycle` is the abstract promise: runs one after the other, a worker only
for the run whose turn it is, retirement only without a worker. `ImplementsLifecycle`
is the refinement, with Pods as `workers` and the phases as `state`: the initial states are
those of `InstanceLifecycle`, and every step that leaves `timely` true is one of its steps or
a stutter.

### Runs

| Run | Instance | Shows |
|---|---|---|
| `instance_faults` | 2 callers, 2 start and 2 stop operations, 2 generations, 2 profiles with migrations, 2 incarnations, any one failure of any kind | all safety properties and the refinement, abandoned requests landing after the lock has moved on among them |
| `instance_liveness` | 1 caller, 1 start, 1 stop, 2 installation revisions, two failures | `StartCompletes`, `StopCompletes` |
| `installation_grant` | 1 caller, one removal | **violated**: see below |

Two callers suffice for every race of the code, which is between a lock holder and a
call that lost its session or another entry point; two generations for everything the
journal relates between runs; one failure finds each recovery path; the
liveness run has two, for the failure during a recovery. Symmetry of callers and operations is used only in safety runs.

Fairness of `FairSpec`: a call goes on (`Proceed`), the API server settles what was sent,
the kubelet starts and removes Pods and the node comes back (weak); the worker's drain
ends (`Seal`) and the App repeats an accepted operation at a moment at which the lock is
free (strong). The last one is an assumption on the App: overlapping `Access` calls hold
the shared lock, and `Start`/`Stop` only try it, so the code itself does not exclude
starvation; the liveness run therefore has one caller. A worker that exits before it was
Ready or before it acknowledged the barrier needs an operator, so exits, evictions and
replacements are left out of that run.

`installation_grant` checks the comment at `journal.go:86`, that a removal or revision
change after authorization "cannot receive a binding". The row is read without a lock at
the default isolation level, so a removal committed between that read and the commit of
`Accept` does receive one. The next call under the lock authorizes again and refuses, so
no worker is started by it.

### Proofs

`AppInstanceProofs` proves `BaseInv`: types, the shape of a call at each label (which
arguments and copies it must carry), exclusion of lock holders, the shape of late
requests. Types alone are not inductive: a checkpoint writes a row built from local
variables, which is well typed only because of where the call is. One lemma per action,
combined in `BaseNext`.

On top of it the same module proves `JournalInv`: `BaseInv`, what a row's phase says about
its columns (`RowInv`), the copies of the lock holder being the rows
(`HolderCopyCurrent`, `HolderStop`), and the relations between rows
(`OneActiveGeneration`, `StopsAgree`, `CredentialKept`). What keeps a credential with its
profile is `KnownInv`: no Secret UID that a row or a call has is larger than the current
Secret's, and none goes with two profiles, the current Secret's own included; and a step either keeps
the Secret's UID with its profile or gives it a fresh UID (`SecretMoved`). They need each other: a
checkpoint preserves the relations between rows only because the copy it writes back is
current, and the copy stays current only because a holder is alone (`LockInv`) and a
session without the lock cannot write. Steps that leave the journal alone are dealt with
once, in `FrameJournal`. The theorems hold for any sets of callers and operations, any
bounds and any number of failures; they assume `ConstantsAssumption` only (the null
operation is not an operation, the bounds are numbers).

`AppInstanceWorkerProofs` adds the cluster: `FullInv` is `JournalInv`, `SideInv` and `WorkerInv`, and
from it follow `OneMount` (`ExclusiveMount`), `NothingLeft` (`RetiredLeavesNothing`) and
`ProofIsGenuine` (`SealedProofIsGenuine`). The journal alone does not say which objects may
exist. `WorkerInv` does: a Pod, or an unsettled creation of one, exists only for an active
start none of whose stops has seen it gone; a recorded barrier was acknowledged by the
recorded process; and what a lock holder has read of a Pod or Service it is about to act on is
still true, because whoever could have changed it needs the lock or changes it only one way.
The parts of `WorkerInv` about Pods and their creations are conditioned on `timely`; the
barriers, and with them `ProofIsGenuine` and `OnlyCondemnedDeleted`, are not.
Generations one after the other then give one Pod on the volume.

The second half of `AppInstanceWorkerProofs` proves the action properties
`DeletesOnlyCondemned` and `HistoryKept` and the refinement: `RefinesLifecycle` is `Spec => ImplementsLifecycle`, with
every action shown to be one step of `InstanceLifecycle` or a stutter. A creation that is
executed late is a step of its own there, which is where `WorkerInv` is needed again.

Liveness (`StartCompletes`, `StopCompletes`) is out of the prover's reach and stays with TLC.

## 4. Installation transitions

`ManagementJournal` holds what every transition shares: Core's rows, the journal row,
the workload and one `reconcile` call. `ManagementTransition` extends it for an App with
maintenance endpoints, `StoppedTransition` for an App that is stopped between versions
(`dashboard-release`). Each driver defines `Plan`, the phase machine of
`advanceManagement`/`advanceManagementRelease` resp. `advanceStopped`, and the reads,
requests and updates that a planned job consists of.

| Variable | Code |
|---|---|
| `core`, `installed` | `app_installation_transitions.phase`; `app_installations.revision` minus the expected one (1: target published, 2: taken back) |
| `known` | what Core has been told in its present phase: an answer may be lost |
| `row` | `runtime_management_transitions`: phase, and whether a checkpoint is saved |
| `registered` | the target's template digest is the registered one |
| `objs`, `observed` | Deployment (object 0) and Services: whose spec and marks they carry, `replicas`, gating, resourceVersion; whether the controller has seen the generation |
| `pods`, `born` | Pods the selector matches, terminating ones included |
| `broken` | the target release never becomes Ready; chosen once, in `Init` |
| `pc`, `tx`, `loc` | a handler call, its transaction with the App lock, its local variables |
| `late` | requests whose caller has gone and that may still be executed |
| `timely` | history: whenever Core has begun a release, every abandoned call and request had settled |
| `app` / `eps` | the App's durable maintenance state / Services whose EndpointSlices list an address |

A call is `Begin` (lock, binding, row, plan), then one read, request or update per step
(`ReadDeployment`, `ReadService`, `ReadSlices`, `ReadGone`, `ReadPods`, `Ask`, `Update`),
then `Commit`, which writes the row only if the transaction still exists. `loc.job` is the
driver method that runs, `loc.next` the phase it reaches if it succeeds. `Conflict` is what
`ErrManagementReplacement` leads to, `End` any other error, `Again` "not done yet". `Turn`
is a step the phase refuses, `CreateRow` the first one, `rejectManagementTemplate` the
digest conflict. The jobs `before` and `after` are the two observations around a
maintenance request; `proc` carries the Pod between the two.

External: Core (`Advance`, `Publish`, `Recover`, `Compensate`, `Rollback`, `Finish`) is
modelled from the bindings and phases that `readManagementBinding` accepts, and acts only
on what it was told; the Deployment and EndpointSlice controllers and the kubelet; the
App's maintenance endpoint (`Handle`).

Abstractions: the checkpoint is its presence, because a captured object is `Original` by
definition; `rv` counts updates of spec and marks only, so the fence is weaker than
Kubernetes'; `SetPod` and controller steps do not move it. `broken` gives a rollout that
`ProgressDeadlineExceeded` may report. The test for a running execution and the busy lock
only turn a call away, which is the same as the call not being made. Conflicts met in the
cluster are answered like refusals; a Core that reacts to one is covered by the faults
`recover` and `rollback`, which may strike at any time.

Timing: Core publishes and compensates when it likes. Nothing in the repository makes it
wait until every abandoned call has met its 20 s deadline and what it had sent has been
executed or lost (`Settled`). It matters: an update abandoned in `applying` whose object
`Restore` finds unchanged (`management_journal.go:385` writes nothing then) keeps a valid
resourceVersion and is accepted even after `release_source`; a gate abandoned in `sealing`
likewise cuts off an App that is being released. The model has these steps. `timely` is
false from the moment Core begins a release while something is unsettled, and
`FinishedConsistent`, `ChangedInPhase`, `RoutesFollowPhase` and `ImplementsSafeUpgrade` say
what holds until then. Without the condition TLC violates each of them, except the refinement
by `StoppedTransition`: there a Deployment must have been scaled, and so have a new
resourceVersion, before a route opens, and TLC finds no violation on the run's instance; only the
proof uses the condition. `OneVersionRuns` and the types hold without it.

`SafeUpgrade` is the promise to the App's users: new work is admitted only by the version
Core has published, and other versions run only while nothing is admitted. Under
`ManagementTransition` admission is the App's own seal, under `StoppedTransition` it is the
existence of an address in some EndpointSlice; `running` is the versions of all Pods,
terminating ones too.

### Runs

| Run | Instance | Shows |
|---|---|---|
| `management` | 2 callers, 1 Service, 4 Pods, two failures among interrupt, crash, session loss, drift, eviction, redeployment, recovery, rollback and late execution | all safety properties and the refinement |
| `management_end` | 1 caller, 2 Services, a target that may be broken, two failures among interrupt, crash, session loss, eviction, recovery | `TransitionEnds` |
| `stopped` | 2 callers, the same failures | all safety properties and the refinement |
| `stopped_end` | 1 caller, 2 Services, a media App (image-mcp, video-mcp) or another one, a target that may be broken, two failures among interrupt, crash, session loss, eviction | `TransitionEnds` |

Two Services give every partially changed set, one already the order between Service and
Deployment; two callers give a step that lost its transaction beside its
successor; four Pods are source, target, source again and one replacement after an
eviction, and two failures give a failure during the recovery from the first. A finished
transition stops, so deadlock is not checked in these runs.

`ImplementsSafeUpgrade`, `OneVersionRuns` and `RoutesFollowPhase` are what an operator would
notice at once; `ChangedInPhase` relates the objects to the row, which no transaction does;
the part of `FinishedConsistent` about rejected transitions is what lets Core drop one. The
modules also define `TypeOK`, for the proofs.

Fairness of `FairSpec`: weak for the steps of a call, the controllers and Core's repetition
of a step; strong for Core's own transactions (a step under way holds both rows `FOR
SHARE`), for an answer reaching Core and for the App answering, since a call may end
unsuccessfully in between any number of times. `StoppedTransition` also assumes that an
App asked again and again is idle once.

What the liveness runs leave out, because there the code does not recover by itself:

* *late execution*: an update of a timed-out step, executed after `Restore` has seen the
  object, leaves a `restored` row whose observations conflict for ever;
* *a broken media target*: rolling back image-mcp or video-mcp first checks the running
  target, which never succeeds if it is not Ready (`stopped_journal.go:119`); `TransitionEnds` of
  `StoppedTransition` excepts it;
* *recovery of a rejected preflight*: `restore` is refused in `rejected_preflight`
  (`stopped_journal.go:14`), so Core has to ask for `prepare` again to learn of the
  rejection.

### Proofs

`StoppedTransitionProofs` proves all safety properties of `StoppedTransition` for any
number of callers, Services, Pods and failures of every kind: `OneVersion`
(`OneVersionRuns`), `FinishedIsConsistent` (`FinishedConsistent`), `RoutesFollow`
(`RoutesFollowPhase`), `RefinesSafeUpgrade` (`ImplementsSafeUpgrade`) and `StoppedTypes`.
The only assumptions are `TransitionAssumption` (there is at least one Service and one Pod)
and `MediaAssumption`. `OneVersion` and `StoppedTypes` are unconditional; `StoppedInv`, and
with it the other three, hold while `timely` does.

None of the properties is inductive: a call acts on what it read several steps before, its
transaction may be gone, and an update may be executed after its call has ended. `StoppedInv`
says of each of them what it may still rely on:

* `UpdateInv`, of every update a call is about to send and of every late one: it is fenced by
  the `rv` that was read, so *if it is executed* the object is as it was. It opens a Service
  only in a release whose version runs (`Steady`); it gates a Service or touches the
  Deployment only outside one, the Deployment only behind `Closed` routes, and starts a
  process only when there is none.
* `JobInv`: how far a call's walk over the Services has come. Outside a release nothing is
  opened, so what a stop or start has found gated and empty stays so; in a release nothing
  but Services is changed, so what an open has found ready stays ready. `Keeps` is this
  monotonicity, and every step of the cluster, of an update and of others' edits is shown to
  have it.
* `Course`, `Place` and `Outcome`: which phase a job is for, where it can be, and what a
  commit under the transaction may write. `LockInv`: one call has a transaction.
* `RowInv`, `CoreInv`: from `applying` to `prepared` the routes are closed, a released row is
  `Done`; Core's answers are never ahead of the row, and while the target is
  published and not yet released the routes are closed. `EarlyInv`: before there is a checkpoint
  nothing is changed and nothing is about to be.
* `ServeInv`: routes are closed, or only the published version is there. This is the refinement:
  Pods, routes and the published version never change in the same step (`OneAtATime`).

TLC checked `timely => StoppedInv` on the 4 601 807 states of the run's instance (two callers,
one Service, two failures of any kind). A step of a call is shown sound for any state of its own
transaction (`Sound`), independently of what the other calls do (`CallKept`, `CallOnward`).

`ManagementTransitionProofs` does the same for the maintenance driver: `ClosedIsConsistent`
(`FinishedConsistent`), `ChangesFollowPhase` (`ChangedInPhase`),
`RunningRefinesSafeUpgrade` (`ImplementsSafeUpgrade`) and `ManagementTypes`, from
`TransitionAssumption` alone; again all but the types are said of the states in which
`timely` holds. Here the App's seal takes the place of the closed routes, and a
request to the App is fenced by nothing. `TransitionInv` says why that is safe:

* `UpdateInv`: an update under way, of a call or of an abandoned one, exists only in the phases
  in which objects are replaced (`Exposed`), and `RowInv` has the App sealed in all of them. An
  update back to the source exists only in a recovery; if it is still fenced by the current
  `rv`, the object is of the other version.
* `AskInv`: a request that unseals the App (`cancel`, `release`) exists only in an `Unsealing`
  phase. These phases are never left for one in which objects are replaced, so no update is
  under way any more and `Steady` (one version is wanted, and only it runs) holds until the
  request is executed, however late that is.
* `FreshInv`: until the seal is committed nothing is replaced and nothing is about to be.
  `CoreInv`: Core is never ahead of the row, and between publication and release the phase is
  `Exposed`.
* `Course`, `Place` and `Outcome`, as above, say what a commit may write; `Outcome` keeps the
  phases one-way even for a call whose plan is old.
* `ServeInv` is the refinement: while the App is not sealed only the published version is there.

TLC checked `timely => TransitionInv` on the 876 032 states of the run's instance (two callers,
one Service, two failures of any kind).

## 5. `RuntimeInstance`

One Blender instance of the legacy service. Unlike App instances, every call is a single
transaction with a transaction-scoped advisory lock: it reads the cluster, performs at most
the effects of one stage, and commits the stage with the UIDs it saw. If it does not come
to the commit, the row still says what it said and the repeated request finds the effects
by name.

| Variable | Code |
|---|---|
| `rows`, `order` | `runtime_instance_executions`, and its order by `created_at`; `worker` and `helper` are the recorded UIDs, `recovery` is `startState.Recovery`, `stage` and `copy` are `savedSourceRecovery` |
| `binding`, `claimed` | the row of `runtime_instance_workspaces`; the owner annotations of the PVC |
| `secret`, `pods`, `svcs` | the Secret; Pod and Service of the preparer, of the recovery reader and of each start's worker |
| `content` | what the volume holds: nothing, the source of the create, then one more per save |
| `lock`, `pc`, `loc` | the transaction that holds the lock; for each handler its stage, the row it will commit and the effects still to come |
| `spoilt` | history: a Pod was lost in the middle of an operation, or a stop named content its worker never froze |

`AcceptCreate`, `AcceptStart`, `AcceptStop`, `AcceptDestroy` insert a row and commit, which
is a transaction of its own before any effect. `Begin` opens the transaction of a repeated
request. Each stage is one action that carries the reads and their conditions and plans the
effects: `Reserve`, `ClaimVolume`, `PrepareContent`, `RemovePreparer` (create);
`RemoveFailed`, `Launch`, `EnterSavedRecovery`, `RemoveExited`, `ObserveCopy`,
`RemoveReader` (start); `Seal`, `RemoveStopped` (stop); `Revoke` (destroy). `Perform`
executes one planned effect, `Rejected` is the API server's refusal of one (name taken, UID
or resourceVersion changed), `Commit` the end. `Refuse` is any read that fails or finds
something else, a full node (`AdmitWorker`) among them.

A start may be accepted on a worker that has exited (`prepareWorkerRecovery`). The new
worker is given the same source; when the volume holds a newer save it exits, and
`advanceSavedRecovery` removes it, has a read-only helper read the copy on the volume, and
launches the worker again with that copy.

External: the kubelet (`PodReady`, `PodGone`), the worker process (`Load` exits when the
volume does not hold its source; `Save`; `Freeze` for a stop) and the coordinator, which
uploads the source, repeats requests and may name wrong content in a stop (fault
`mistake`). The choice of a volume is the pool's, and `Access` only reads.

### Runs

| Run | Instance | Shows |
|---|---|---|
| `runtime_instance` | 2 handlers, 2 starts, a stop and a destroy, 1 save, 2 objects per name, any two faults: a cut-off call, a lost session with deletions under way, an exit, an eviction, a node outage; mistaken stops | safety and `OperationEnds` |
| `runtime_instance_late` | 2 handlers, 2 starts, an exit and a transaction that ends while a creation is under way | **violated**: see below |

Two starts give the restart after a stop, the recovery of a failed worker and, with one
save, the saved recovery; two objects per name are what a recovery that relaunches needs.
`SavedIsOnVolume` is the one a coordinator's mistake could break: the seal compares the
frozen worker's proof with the stop's request, and the stop's source is what the next start
loads. A destroyed instance has nothing more to do, so deadlock is not checked.

Fairness of `FairSpec`: the coordinator repeats the request of an operation that has not
ended, a read that can succeed again and again does so once (strong), effects, kubelet,
worker and node make progress (weak). `OperationEnds` excepts `spoilt`, because there the
code has no way out: a worker lost before its load proof in a start that is no recovery, a
lost preparer or reader, a worker lost between the acceptance of its stop and the seal, and
a stop whose content differs leave their operation running, and no other is accepted.

`runtime_instance_late` checks the comment at `saved_recovery.go:83`, "no second GPU worker
is concurrent". A Pod creation that is still on its way when its transaction ends (the
handler's deadline is 10 s) may be executed after the repeated start has made the Pod, that
worker has exited and the next start has removed it: then the old start's Pod is back
beside the new one. No later step notices before the next `Inspect`, which answers
`ErrBusy`. For this reason `runtime_instance` assumes that a transaction does not end with
a creation under way (fault `session`, not `late`).

### Proofs

`RuntimeInstanceProofs` proves `InstanceTypes` (`TypeOK`) without any hypothesis, and
`OneMounterAlways`, `RestIsEmpty` and `SealIsKept` (`OneMounter`, `RestLeavesNothing`,
`SavedIsOnVolume`) for every instance in which `"late"` is not among the faults, which is
the condition `runtime_instance_late` shows to be necessary. Sessions may still be lost with
deletions under way, calls be cut off anywhere, and any number of handlers take part.

`InstanceInv`, the inductive invariant, has three parts. `TypeInv`: types, and which effects a
call can have planned at its stage. `LedgerInv`: what the newest row says about the cluster
and the volume; a row accounts for at most one Pod name (`Active`), and no other Pod exists.
`CallInv` for each call: a call that holds the lock creates only under a name that both the
row it read and the row it will commit account for (`Permitted`), so that the ledger holds
whether or not it comes to the commit; a call that has lost the lock can only remove
(`Harmless`), and only objects by the UID it saw. TLC checked `InstanceInv` on all 153 350
states of `runtime_instance` before it was proved. `OperationsAssumption` says that an
operation is of one kind: the operation ID is the key of its row, and the row holds the hash
of the request.

## 6. `WorkspacePool`

The local volumes that both instance kinds reserve. A claim name stands for the PVC of that
name and the one PV the pool has for it.

| Variable | Code |
|---|---|
| `rows` | `runtime_instance_workspaces` and `app_instance_workspaces` with the state of the instance's run: busy, stopped or (workspace instances) retained |
| `pvcs`, `pvs`, `made` | the PVC of each name (UID, owner annotation, Bound, being deleted), the PV's ClaimRef and phase, PVCs made so far |
| `workers`, `cleaner` | Pods that mount a claim, and the Pod `ws-clean-<claim>` |
| `data` | whose files are on the volume |
| `lock`, `pc`, `loc` | the advisory lock `runtime-workspaces:<station>`; each call and its locals |
| `apart` | history: instances none of whose runs was accepted while a release was under way |

`Begin ... Commit` is `WorkspaceStore.Reserve` of a workspace instance and `Journal.reserve`
of an App instance, which differ in what they do with a row that is already there (`Reuse`);
`EnsureClaim`, `EnsureRef`, `InspectAgain` are `EnsurePoolClaim`, which writes to Kubernetes
inside the open transaction. `Mark`, `Launch`, `Stop`, `Retain`, `Resume` are what the
instance modules model in detail, reduced to their effect on the volume. `Look ...
UnbindVolume` is `ReleaseWorkspace`: its looks at Pods and rows, the cleaner, the validation
under both locks, the commit and the deletion after it. External: the volume controller
(`Bind`, `Forsake`), PVC protection (`Finalize`) and the cleaner Pod.

Run `workspace_pool`: a workspace instance, an App instance, one claim, one release, two PVCs
under the name, two faults among a cut-off call, a cleaner that fails or cannot be removed
(`Sweep`: the code ignores the error and goes on) and a Service or Secret that stops the
release (`Validate`). One
claim makes both allocators and the release meet at every step; with a second one they would
avoid each other. (With two releases at once the safety properties were checked apart from
the project's runs, 1.4 million states: the second one meets the first only at the cleaner.)
Fairness: calls, controllers and the cleaner make progress, and the operator releases what
the list offers (`State` = "retained") until it is off the list.

A station with a configured cleaner is modelled: without one (`WorkspaceCleaner` nil, or no
image) nothing is wiped at all. `Validate` deletes the instance's Secret before the commit
(`workspaces.go:440`); the pool has no credential, so this is not a step of its own. For the App
instance it is a Secret that is gone, a case of `AppInstance!ReplaceSecret`: if the release
is cut off after it, the next start of the stopped instance cannot find the credential it
inherited and fails, until the release is repeated.

What the code does not protect, and the properties therefore except:

* The cleaner runs *before* the pool lock is taken, and the PVC is deleted by name *after*
  the commit that freed it (`workspaces.go:401`, `:490`). A run accepted while a release is
  under way may lose its files, or its PVC; in that case its row keeps a name whose UID is
  gone and needs an operator. `apart` excludes exactly these runs from `OneOwner`,
  `WipesOnlyIdle` and `PoolRecovers`, and nothing else.
* An App instance needs only to be stopped to have its volume released, a workspace instance
  has to be destroyed (`Releasable`).
* `EnsurePoolClaim` cut off between the creation of the PVC and the update of the PV, after a
  release was cut off before it freed the PV, leaves a PVC that is never bound (`Stranded`).
* Two comments do not describe `EnsurePoolClaim`: `storage_store.go:30`, "Reserve commits
  ownership before any Kubernetes mutation", and `appinstances/journal.go:105`, "performs
  only Kubernetes reads". A PVC made by a transaction that is rolled back is found again by
  name, which is the first part of `PoolRecovers`.

### Proofs

`WorkspacePoolProofs` proves `PoolTypes` (`TypeOK`), `OneOwnerPerClaim` (`OneOwner`) and the
action property `ReleaseSparesRunning` (`WipesOnlyIdle`) for any number of instances of both kinds, of
claims, releases and faults. `OneOwner` is not inductive: whether a commit gives a claim a second
owner depends on what its call saw earlier. `PoolInv` adds where the calls can be
and who has the pool lock (`CallInv`); that an allocator past its choice works on a claim nobody
else has, for an instance that does not run (`AllocInv`); that a validated release is about an
instance at rest whose calls are idle (`ReleaseInv`); that workers belong to the busy owner
(`OwnerInv`); and, for instances whose calls kept apart from all releases, that the reserved PVC
stays, that no release is past its commit for their claim, and that a claim being cleaned is not
that of a run (`ApartInv`). TLC checked
`PoolInv` on the instance of the run (118 753 states).

## 7. `AppStateObserver`

The observer tells Core what the Deployments of its namespaces are: it lists them, sends a
snapshot, watches from the listed versions on and probes the health of configured workloads.

| Variable | Code |
|---|---|
| `hist` | the versions of each namespace, as the API server has them |
| `pc`, `result` | where `Run` and `session` are; the error the session ends with |
| `versions`, `listed` | the answer of `inventory` |
| `watching`, `pos`, `updates`, `failed` | the watch goroutines, how far each has read, the two channels |
| `known`, `probes`, `results` | the health round: its objects, probes under way, its channel |
| `overdue` | the 60 s timer has fired |
| `link`, `events` | the stream to Core: "cut" is lost without anyone knowing yet; its one-place event channel |
| `pending`, `view`, `health`, `at` | Core: the snapshot being received, what it knows, which version that is |

A session is `Open`, `List` per namespace, `SnapshotBegin/Objects/End`, `Watch` and the loop:
`Check` (a failure goes before everything), then one case of the `select`. `Deliver` is a
watch goroutine; when the channel is full it reports a failure and the round is repeated.
`Stop` joins all goroutines of a round before the next one begins. Core is external and
modelled from the frames: a snapshot counts when it is complete, a delete names a UID.

Run `app_state_observer`: one namespace with two Deployments, one health target, every history
of three versions (creation, change, deletion, replacement under the same name), a channel of
one place instead of 256, one fault among a failed call, an ended watch, a lost stream, a
restart of Core, a refusal by Core and an inventory that is too large. A channel of one is full when the second event comes,
so both the overflow and the ordinary path happen. `ConsistentView` is the point of the
design: no event is lost or doubled between list, watch and next list, and health is of the
version Core knows. `Converges` does not use the 60 s timer: what it assumes is that `select`
takes a ready case once in a while and that a dead stream is noticed. It excepts
`ErrInvalid`, after which the observer ends for good while the process goes on
(`main.go:366`): a refusal by Core, or `TooLarge`, more than 10000 Deployments
(`observer.go:117`) or one whose frame exceeds 1 MiB (`observer.go:310`, `client.go:247`).

### Proofs

`AppStateObserverProofs` proves `ObserverTypes` (`TypeOK`), `ViewIsConsistent`
(`ConsistentView`) and the action property `ViewNeverBack` (`NeverBack`) for any namespaces, names,
targets, channel capacity and histories. `ConsistentView` speaks of Core only. `ObserverInv` adds why the
next frame keeps it so: every version of a history differs from the one before in one Deployment
(`HistInv`); what was listed is the cluster at the listed version (`ListInv`); and in a round
(`RoundInv`) there are two positions per namespace, `cur` for what Core and the health round know and `last`
for what the watch has read, such that the channel holds exactly the events between them, each
once and in order. The events of several namespaces share the channel, so this is a statement
about the subsequence of each (`Channel`), kept by an append at the end and by taking the
head. An event that finds the channel full ends the watch instead. The constants' assumption says that the configured
targets are finitely many. TLC checked `ObserverInv` on the instance of the run (476 658 states).

## 8. `AppExecution`

`ReconcileBound` for an App of a registered template or of an OCI chart: the first call records
the operation, each further call performs a few Kubernetes requests or one action of Helm and
records the result, in one transaction that holds the App's advisory lock.

| Variable | Code |
|---|---|
| `rows` | `status` of `runtime_app_executions` |
| `cmd` | what Core asks for, with the guard that `InspectBound` answered (UID and marks of the workload) |
| `registered`, `chart` | hash of the registered template; whether the App is a chart |
| `dep`, `svc`, `made` | the Deployment and the Service with their annotations, replicas and status |
| `rel` | the last record of the App's Helm release; `fresh`: not older than `helmPendingGrace` |
| `transition` | Core has a transition of the App under way |
| `lock`, `pc`, `loc`, `late` | the transaction with the lock; calls; requests whose caller has gone |
| `quiet` | history: since the lock was taken only its holder has changed the cluster, Helm's records included |

`Enter` is `reconcile` up to the driver; `CheckDeployment`/`CheckServices` are
`CheckAppCenter`, which runs before the first record and twice in later calls; `Get ...
Recheck` are `Step`, `GetService` and `Doom` also `stepAppCenterDelete`; `Send` is one request,
`Finish` the end. For a chart, `ChartGet`, `Observe` and `ObserveService` are `stepOCIChart`,
`Gone` is `stepOCIChartDelete`, `Ensure` and `Uninstall` are the two methods of
`HelmLifecycle`; upgrades exist only here, and start, stop and restart take the way of the
registered templates with a weaker comparison of the marks. An update carries the resourceVersion that was read; creations and deletes
are fenced by nothing but the name. External: the API server, the Deployment controller,
the garbage collector, foreign hands (`Meddle`), a redeployment with other templates, and
Core's transitions, of which only begin and end matter here. External too is the Helm library
(v3.19): an action records that it begins, writes the Service and then the Deployment by name
and records its end; an install or upgrade whose context ends comes back with a failed
release while its goroutine goes on, and of an install that goroutine's last record says
deployed. An uninstall does not wait, and Helm deletes in the background, so that an object
without finalizers is gone at once: that the release is gone while the Deployment still
terminates (`oci_chart_kubernetes.go:104`) is reached only through interference. A chart is taken to declare its replicas. `Ensure` reads the release and its objects
in one step. Free operation IDs and idle calls are interchangeable, so `InspectBound` and
`Enter` take the first.

Run `app_execution`: two operations of any kind by two callers, from an App that is absent,
running or stopped, with a transition and any one fault. Two operations give an install
followed by a delete, or a late delete that meets a later installation; two callers give a call
that lost its session beside its successor. Fairness: a call goes on, a Deployment settles or
fails, deleted objects go, a release record grows old, and Core repeats an operation that is not over at a
moment when the lock is free.

* `WritesOnlyBound`: scaling and restarting hit only the Deployment the command was bound to,
  late requests included; else only Helm changes a Deployment. Deletes and the steps of Helm go by name: those of a call that has
  lost its lock, of a request that arrives late or of a Helm left behind may hit a later
  installation or undo a later stop, so this part holds only while `quiet`.
* `SucceededIsTrue` covers the release as well: a chart's install or upgrade succeeds only with a
  deployed release of its own version, a delete only without one. "In the moment of the report"
  holds as long as nothing outside the call changes: readiness is read (`kubernetes.go:357`)
  before the commit (`service.go:172`), and a Deployment whose Pods lapse in between (fault
  `unready`) is reported as it was read; the lapse ends `quiet`. An upgrade of a registered
  template is admitted and recorded, and then fails (`kubernetes.go:206`). An upgrade of a chart App
  that is stopped is admitted (`appcenter_inspection.go:110`) and then always fails: its replicas
  count as drift (`helm_lifecycle.go:251`).
* `OperationEnds` needs neither the 15 minutes' limit nor the absence of faults. It excepts
  `Crossed`: the check for a transition (`service.go:97`) and the insert (`:144`) are one
  transaction, but nothing keeps Core from committing a transition row in between; then the
  execution refuses to go on because of the transition and the transition because of the
  execution. It excepts `Orphaned` too: a Service made by a late call after Helm has deleted it is
  waited for by the delete and removed by nobody, until the 15 minutes are over. It says that
  an operation ends, not how: one that fails on its own objects has ended too. That Core writes the row outside the App's lock is an assumption about code that
  is not here.

### Proofs

`AppExecutionProofs` proves `WritesAreBound` (`WritesOnlyBound`), `SuccessIsGenuine`
(`SucceededIsTrue`) and `ExecutionTypes` (`TypeOK`) for any number of operations, calls,
Deployments and faults of every kind. `ExecutionAssumption` is all that is assumed: names do
not collide, there are finitely many operations and the bounds are numbers. The inductive
invariant is `ExecutionInv`:

* `CallInv`, of every call, with the lock or without: which actions can be at which label, and
  that an update is always of a Deployment the operation is bound to. `RequestInv` is the same
  for requests whose caller has gone. Together with the resourceVersion this is the part of
  `WritesOnlyBound` that needs no lock.
* `LockInv`: the operation of the call that holds the lock is recorded as running, unless the
  call is the one that is to record it, and there is only one running operation.
* `HolderInv`: what the holder of the lock has found (`Seen`) is still so while the cluster is
  `quiet`: the Deployment and Service it compared are its operation's or absent, what it took
  for gone is gone, the release it judged is that release, and a result "succeeded" is true
  (`Lasting`). Only settling, ageing and collection of deleted objects happen beside a quiet
  holder, and each part of `Seen` is shown to survive them. Since `Collect` could take
  away a deleted object afterwards, `Lasting` also says that nothing is being deleted,
  except for a delete.
* `CommandInv`, `ClusterInv`: a hash is at most the number of redeployments and of commands
  given (`Youngest`), which bounds the hashes of `Marks`.

TLC checked `ExecutionInv` on the instance of the run (395 188 states). `OperationEnds` is a liveness
property and stays with TLC.

## 9. Not modelled

`PROJECT.json` lists every component with its status. Left out for good: manifest
construction, chart and registry access, telemetry, JSON decoding, generated code and
process wiring, which keep no state the properties are about; compute admission, a
predicate over quantities whose answer `RuntimeInstance` leaves open. `verify_forward` is a
read-only step with an answer of its own. Of the executor, fetching and rendering of charts
(`oci_chart.go`), whose failure is a fault of the model, adoption of existing workloads and of
releases with an empty manifest, and unprotected commands, which may only install and start.
Of the App instances, the exact retry times of clients.

Hazards without a property are in `PROJECT.json` with the reason: starvation of `Start` and
`Stop` by overlapping `Access` calls, a worker that exits before its proof, a claim deleted
from under its new owner, a transition that crosses an execution, a Helm left behind, a broken
media target. Nothing in the code excludes them, so the properties except them by name
(`spoilt`, `apart`, `Crossed`, `Orphaned`, `quiet`). Nor does it exclude a creation that
outlives the Pod of its name, or a late update after a restore: `timely`, sections 3 and 4.

Every invariant, action property and refinement that a passing run checks is also a theorem.
Liveness under fairness (`StartCompletes`, `StopCompletes`, `TransitionEnds`, `OperationEnds`,
`PoolRecovers`, `Converges`) is out of the prover's reach and stays with TLC on the instances
named; `ENABLED` is not used.
