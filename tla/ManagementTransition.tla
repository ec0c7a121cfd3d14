-------------------------- MODULE ManagementTransition --------------------------
(***************************************************************************)
(* A management transition of a running App: the App seals itself, the     *)
(* Services and the Deployment are marked and replaced one object per      *)
(* step, the App proves which version runs, and Core publishes before the  *)
(* App is released.  From src/internal/executor/management_journal.go,     *)
(* management_replacement.go and management_maintenance.go.                *)
(***************************************************************************)
EXTENDS ManagementJournal

VARIABLE app   \* the App's durable maintenance state for this operation

vars == <<journalVars, app>>

--------------------------------------------------------------------------------
(* advanceManagement and advanceManagementRelease: what a step does         *)

Job(job, ask, side, next) == [at |-> "dep", job |-> job, ask |-> ask, side |-> side, next |-> next]

\* Mutant: a release that was intended counts as done.
PlanReleaseUnasked(side, phase, cp) ==
    LET prepared == IF side = "target" THEN {"prepared"} ELSE {"restored", "canceled_source"}
        releasing == IF side = "target" THEN "releasing_target" ELSE "releasing_source"
        released == IF side = "target" THEN "released_target" ELSE "released_source"
    IN
    CASE phase \in prepared -> Intend(releasing)
      [] phase \in {releasing, released} -> Intend(released)
      [] OTHER -> Refuse
\* The source or target that a release direction is about.
PlanRelease(side, phase, cp) ==
    LET prepared == IF side = "target" THEN {"prepared"} ELSE {"restored", "canceled_source"}
        releasing == IF side = "target" THEN "releasing_target" ELSE "releasing_source"
        released == IF side = "target" THEN "released_target" ELSE "released_source"
    IN
    CASE phase \in prepared -> Intend(releasing)
      [] phase \in {releasing, released} /\ ~cp /\ side = "source" -> Intend(released)
      [] phase \in {releasing, released} /\ cp -> Job("before", "release", side, released)
      [] OTHER -> Refuse

PlanPrepare(phase) ==
    CASE phase = "checking" -> Job("capture", "none", "source", "sealing")
      [] phase = "sealing" -> Job("before", "seal", "source", "applying")
      [] phase \in {"canceling_source", "canceled_source"} ->
           Job("before", "cancel", "source", "canceled_source")
      [] phase = "applying" -> Job("apply", "none", "target", "verifying")
      [] phase \in {"verifying", "prepared"} -> Job("before", "status", "target", "prepared")
      [] OTHER -> Refuse

\* Mutant: a recovery that ran into a conflict is not begun again.
PlanRestoreOnce(phase, cp) ==
    CASE phase \in {"canceling_source", "canceled_source"} ->
           Job("before", "cancel", "source", "canceled_source")
      [] phase = "restoring" -> Job("restore", "status", "source", "restored")
      [] phase = "restored" -> IF cp THEN Job("before", "status", "source", "restored") ELSE Intend("restored")
      [] phase = "sealing" -> Intend("canceling_source")
      [] OTHER -> IF cp THEN Refuse ELSE Intend("restored")
\* Recovery is an intent first; what was never captured needs none, and a source that was
\* at most sealed only has its seal canceled.
PlanRestore(phase, cp) ==
    CASE phase \in {"canceling_source", "canceled_source"} ->
           Job("before", "cancel", "source", "canceled_source")
      [] phase = "restoring" -> Job("restore", "status", "source", "restored")
      [] phase = "restored" -> IF cp THEN Job("before", "status", "source", "restored") ELSE Intend("restored")
      [] phase = "sealing" -> Intend("canceling_source")
      [] OTHER -> Intend(IF cp THEN "restoring" ELSE "restored")

\* A release may already have admitted new work: no way back from there.
Plan(mode, phase, cp) ==
    CASE mode = "release_source" -> PlanRelease("source", phase, cp)
      [] mode = "release_target" -> PlanRelease("target", phase, cp)
      [] mode = "restore" -> IF phase \in ReleasePhases THEN Refuse ELSE PlanRestore(phase, cp)
      [] mode = "prepare" -> PlanPrepare(phase)

Begin(c, mode) == Enter(c, mode, Plan(mode, row.phase, row.cp)) /\ UNCHANGED app
Turn(c, mode) == Refused(c, mode, Plan(mode, row.phase, row.cp)) /\ UNCHANGED app

\* ErrManagementReplacement: after the first change, recovery is required.
Conflict(c) ==
    IF /\ loc[c].cp /\ ~Releasing(loc[c].mode)
       /\ loc[c].phase \notin {"sealing", "canceling_source", "canceled_source"}
      THEN Decide(c, "recovery_required") ELSE End(c)

--------------------------------------------------------------------------------
(* Capture, Apply, Restore and observe: the Deployment, then each Service   *)

Visit(c, n) == Goto(c, "svc", [loc[c] EXCEPT !.n = n])

ReadDeployment(c) ==
    LET call == loc[c]
        d == objs[Deployment]
        read == [call EXCEPT !.n = 1, !.dep = d, !.ready = managementReady]
    IN
    /\ pc[c] = "dep"
    /\ CASE call.job = "capture" ->
              IF d.ver = "source" /\ managementReady THEN Goto(c, "svc", read) ELSE Conflict(c)
         [] call.job = "apply" ->
              IF Marked(d, "source") \/ Marked(d, "target") THEN Goto(c, "svc", read) ELSE Conflict(c)
         [] call.job = "restore" ->
              IF Marked(d, "source")
                THEN IF managementReady THEN Goto(c, "svc", read) ELSE Again(c)
                ELSE IF Marked(d, "target") THEN Change(c, Deployment, d, Original) ELSE Conflict(c)
         [] OTHER ->
              IF Marked(d, call.side) /\ managementReady THEN Goto(c, "svc", read) ELSE Conflict(c)
    /\ Quiet /\ UNCHANGED app

\* All Services have been seen as the job wants them.
AfterServices(c) ==
    LET call == loc[c] IN
    CASE call.job = "capture" -> Goto(c, "commit", [call EXCEPT !.cp = TRUE])
      [] call.job = "apply" /\ call.dep.ver = "target" ->
           IF call.ready THEN Decide(c, call.next) ELSE Again(c)
      [] call.job = "apply" /\ call.dep.ver = "source" ->
           Change(c, Deployment, call.dep, [Original EXCEPT !.ver = "target", !.op = TRUE])
      [] call.job = "restore" -> Goto(c, "dep", [call EXCEPT !.job = "before"])
      [] OTHER -> Goto(c, "pods", call)

ReadService(c) ==
    LET call == loc[c]
        s == objs[call.n]
        want == IF call.job = "capture" THEN "source" ELSE call.side
    IN
    /\ pc[c] = "svc"
    /\ CASE s.ver = want -> IF call.n < NumServices THEN Visit(c, call.n + 1) ELSE AfterServices(c)
         [] s.ver = "source" /\ call.job = "apply" ->
              Change(c, call.n, s, [s EXCEPT !.ver = "target", !.op = TRUE])
         [] s.ver = "target" /\ call.job = "restore" ->
              Change(c, call.n, s, [s EXCEPT !.ver = "source", !.op = FALSE])
         [] OTHER -> Conflict(c)
    /\ Quiet /\ UNCHANGED app

--------------------------------------------------------------------------------
(* HTTPManagementMaintenance.call: the request between two observations     *)

\* Mutant: terminating Pods are not counted.
ReadLivePods(c) ==
    LET call == loc[c] IN
    /\ pc[c] = "pods"
    /\ \/ (\A p \in LivePods : LivePods # {p}) /\ End(c)
       \/ \E p \in LivePods :
            /\ LivePods = {p}
            /\ IF p.state # "ready" \/ p.ver # call.dep.ver THEN Conflict(c)
               ELSE IF call.job = "before" THEN Goto(c, "ask", [call EXCEPT !.proc = p.uid])
               ELSE IF p.uid # call.proc THEN End(c)
               ELSE Decide(c, IF call.busy THEN "canceling_source" ELSE call.next)
    /\ Quiet /\ UNCHANGED app
\* Exactly one Pod, terminating ones included, and the same process as before.
ReadPods(c) ==
    LET call == loc[c] IN
    /\ pc[c] = "pods"
    /\ \/ /\ \A p \in pods : pods # {p}
          /\ End(c)
       \/ \E p \in pods :
            /\ pods = {p}
            /\ IF p.state # "ready" \/ p.ver # call.dep.ver THEN Conflict(c)
               ELSE IF call.job = "before" THEN Goto(c, "ask", [call EXCEPT !.proc = p.uid])
               ELSE IF p.uid # call.proc THEN End(c)
               ELSE Decide(c, IF call.busy THEN "canceling_source" ELSE call.next)
    /\ Quiet /\ UNCHANGED app

\* What the App does with a request for the release it is.  A released operation is
\* never sealed again.
Handle(ask) ==
    CASE ask = "seal" -> app # "released" /\ app' = "sealed"
      [] ask \in {"cancel", "release"} -> app' = "released"
      [] OTHER -> UNCHANGED app

\* The answer has to be a proof of the state asked for, by the version asked for.
Ask(c) ==
    LET call == loc[c]
        again == [call EXCEPT !.job = "after"]
    IN
    /\ pc[c] = "ask"
    /\ \E p \in pods : p.state = "ready" /\ p.ver = call.side
    /\ \/ call.ask = "seal" /\ app = "open" /\ Goto(c, "dep", [again EXCEPT !.busy = TRUE]) /\ UNCHANGED app
       \/ /\ Handle(call.ask)
          /\ IF call.ask = "status" /\ app # "sealed" THEN Conflict(c) ELSE Goto(c, "dep", again)
    /\ Quiet

\* ErrManagementMaintenanceUnavailable.
AskFails(c) == pc[c] = "ask" /\ End(c) /\ Quiet /\ UNCHANGED app

\* A request to the App that is executed after its caller has gone.
LandAsk(r) ==
    /\ r \in late /\ late' = late \ {r}
    /\ r.kind # "update" /\ \E p \in pods : p.state = "ready"
    /\ Handle(r.kind)
    /\ UNCHANGED <<authority, row, workload, calls, faults>>

--------------------------------------------------------------------------------
Init == JournalInit /\ app = "open"

Proceed(c) ==
    \/ Commit(c) /\ UNCHANGED app
    \/ Update(c) /\ UNCHANGED app
    \/ ReadDeployment(c) \/ ReadService(c) \/ ReadPods(c) \/ Ask(c) \/ AskFails(c)

Next ==
    \/ Shared /\ UNCHANGED app
    \/ \E c \in Callers : (\E mode \in Modes : Begin(c, mode) \/ Turn(c, mode)) \/ Proceed(c)
    \/ \E r \in late : LandAsk(r)

Spec == Init /\ [][Next]_vars

\* Core repeats the step its phase calls for until it hears the outcome.
Drive(c) == (CreateRow(c) /\ UNCHANGED app) \/ \E mode \in Modes : Begin(c, mode)
Told(c) ==
    \/ Commit(c) /\ known' = known \cup {Reply(loc[c].mode, loc[c].next)} /\ UNCHANGED app
    \/ \E mode \in Modes : Turn(c, mode) /\ "conflict" \in known'
Settle == \E r \in late : LandAsk(r) \/ ((Land(r) \/ Lose(r)) /\ UNCHANGED app)
CoreActs == Core /\ UNCHANGED app
ControllerActs == Controller /\ UNCHANGED <<authority, row, calls, late, faults, app>>

\* Calls run on, an answer reaches Core and the App answers in the end, Core acts on what
\* it knows, and the cluster makes progress.
Fairness ==
    /\ SF_vars(CoreActs) /\ WF_vars(ControllerActs) /\ WF_vars(Settle)
    /\ \A c \in Callers : /\ WF_vars(Drive(c)) /\ WF_vars(Proceed(c))
                          /\ SF_vars(Told(c)) /\ SF_vars(Ask(c))
FairSpec == Spec /\ Fairness

--------------------------------------------------------------------------------
(* Properties                                                               *)

\* Types of the durable rows, the workload, the App's state and the faults counted.
TypeOK ==
    /\ core \in {"checking", "preparing", "restoring", "releasing", "done"}
    /\ installed \in 0..2 /\ known \subseteq Replies /\ registered \in BOOLEAN
    /\ row \in Row
    /\ objs \in [Objects -> Object] /\ observed \in BOOLEAN
    /\ pods \subseteq Pod /\ born \in 1..MaxPods /\ broken \in BOOLEAN
    /\ app \in {"open", "sealed", "released"}
    /\ tx \in [Callers -> BOOLEAN] /\ faults \in 0..MaxFaults /\ timely \in BOOLEAN

\* When Core has closed the transition, every object is the published version's and the App
\* admits work again; a rejected transition has changed nothing.  On condition of timely,
\* which holds until Core's first release: a release begun while an abandoned call or its
\* request is still under way gives no such promise.
FinishedConsistent ==
    timely =>
      /\ core = "done" => app # "sealed" /\ \A n \in Objects : objs[n].ver \in {Published, "other"}
      /\ row.phase = "rejected_preflight" => app = "open" /\ \A n \in Objects : objs[n].ver # "target"

\* Until Core begins a release over something unsettled (timely), the first change of an object
\* comes after the App's seal was proved and committed, the way back after a recovery was
\* intended, updates executed late included; a release that was intended is never taken back,
\* and changes no version.  After such a release this is not true: an update abandoned in
\* applying of which Restore found nothing is accepted even after release_source was
\* intended; only waiting excludes it.
ChangedInPhase ==
    [][timely =>
         /\ \A n \in Objects :
              /\ objs[n].ver = "source" /\ objs'[n].ver = "target" =>
                   row.phase \in {"applying", "restoring", "restored", "recovery_required"}
              /\ objs[n].ver = "target" /\ objs'[n].ver = "source" =>
                   row.phase \in {"restoring", "restored", "recovery_required"}
         /\ row.phase \in ReleasePhases => row'.phase \in ReleasePhases]_vars

\* Every transition comes to an end: published and released, or rolled back.
TransitionEnds == <>(core = "done")

Upgrade == INSTANCE SafeUpgrade WITH
    published <- Published, running <- {p.ver : p \in pods}, admitting <- app # "sealed"

\* Sealing, replacing and releasing keep the promise to the App's users, up to the step in
\* which Core begins a release without waiting for what was abandoned.
ImplementsSafeUpgrade ==
    Upgrade!Init /\ [][timely' => Upgrade!Next \/ UNCHANGED Upgrade!upgradeVars]_vars
================================================================================
