--------------------------- MODULE StoppedTransition ---------------------------
(***************************************************************************)
(* A downtime transition of an App without maintenance endpoints: its      *)
(* Services are gated one by one, the process is stopped, the other        *)
(* version is started and checked behind the gate, and after Core's        *)
(* version commit the Services are opened one by one.  From                *)
(* src/internal/executor/stopped_journal.go, stopped_replacement.go and    *)
(* stopped_checks.go.                                                      *)
(***************************************************************************)
EXTENDS ManagementJournal

CONSTANT Media   \* may the App be image-mcp or video-mcp, checked idle before every stop

ASSUME MediaAssumption == Media \subseteq BOOLEAN /\ Media # {}

VARIABLES
    eps,         \* Services whose EndpointSlices list an address
    media        \* the App is image-mcp or video-mcp

routes == <<eps, media>>
vars == <<journalVars, routes>>

--------------------------------------------------------------------------------
(* advanceStopped: what a step does                                         *)

Job(job, ask, side, next) == [at |-> "dep", job |-> job, ask |-> ask, side |-> side, next |-> next]

\* Mutant: a release that was intended counts as done.
PlanReleaseUnopened(side, phase, cp) ==
    LET prepared == IF side = "target" THEN "prepared" ELSE "restored"
        releasing == IF side = "target" THEN "releasing_target" ELSE "releasing_source"
        released == IF side = "target" THEN "released_target" ELSE "released_source"
    IN
    CASE phase = prepared -> Intend(releasing)
      [] phase \in {releasing, released} -> Intend(released)
      [] OTHER -> Refuse
PlanRelease(side, phase, cp) ==
    LET prepared == IF side = "target" THEN "prepared" ELSE "restored"
        releasing == IF side = "target" THEN "releasing_target" ELSE "releasing_source"
        released == IF side = "target" THEN "released_target" ELSE "released_source"
    IN
    CASE phase = prepared -> Intend(releasing)
      [] phase \in {releasing, released} /\ ~cp /\ side = "source" -> Intend(released)
      [] phase \in {releasing, released} /\ cp -> Job("open", "none", side, released)
      [] OTHER -> Refuse

\* Mutant: routes are gated before there is a checkpoint.
PlanPrepareEager(phase) ==
    CASE phase \in {"rejected_preflight", "canceled_source"} -> Intend(phase)
      [] phase \in {"checking", "sealing"} -> Job("gate", "idle", "source", "applying")
      [] phase = "applying" -> Job("start", "none", "target", "verifying")
      [] phase \in {"verifying", "prepared"} -> Job("check", "idle", "target", "prepared")
      [] OTHER -> Refuse
PlanPrepare(phase) ==
    CASE phase \in {"rejected_preflight", "canceled_source"} -> Intend(phase)
      [] phase = "checking" -> Job("capture", "idle", "source", "sealing")
      [] phase = "sealing" -> Job("gate", "idle", "source", "applying")
      [] phase = "applying" -> Job("start", "none", "target", "verifying")
      [] phase \in {"verifying", "prepared"} -> Job("check", "idle", "target", "prepared")
      [] OTHER -> Refuse

\* Mutant: a preparation that ran into a conflict cannot be recovered.
PlanRestoreOnce(phase, cp) ==
    CASE phase \in {"rejected_preflight", "recovery_required"} -> Refuse
      [] phase = "restoring" -> Job("look", "any", "source", "restored")
      [] phase = "restored" -> IF cp THEN Job("check", "any", "source", "restored") ELSE Intend("restored")
      [] OTHER -> Intend(IF cp THEN "restoring" ELSE "restored")
PlanRestore(phase, cp) ==
    CASE phase = "rejected_preflight" -> Refuse
      [] phase = "restoring" -> Job("look", "any", "source", "restored")
      [] phase = "restored" -> IF cp THEN Job("check", "any", "source", "restored") ELSE Intend("restored")
      [] OTHER -> Intend(IF cp THEN "restoring" ELSE "restored")

Plan(mode, phase, cp) ==
    CASE mode = "release_source" -> PlanRelease("source", phase, cp)
      [] mode = "release_target" -> PlanRelease("target", phase, cp)
      [] mode = "restore" -> IF phase \in ReleasePhases THEN Refuse ELSE PlanRestore(phase, cp)
      [] mode = "prepare" -> PlanPrepare(phase)

Begin(c, mode) == Enter(c, mode, Plan(mode, row.phase, row.cp)) /\ UNCHANGED routes
Turn(c, mode) == Refused(c, mode, Plan(mode, row.phase, row.cp)) /\ UNCHANGED routes

\* ErrManagementReplacement: before the checkpoint the transition is rejected, after it
\* recovery is required; a recovery, a release and a check before a stop only fail.
Conflict(c) ==
    CASE loc[c].mode = "prepare" /\ loc[c].phase = "checking" -> Decide(c, "rejected_preflight")
      [] loc[c].mode = "prepare" /\ loc[c].phase # "checking" /\ loc[c].job \notin {"quiesce", "drain"} ->
           Decide(c, "recovery_required")
      [] OTHER -> End(c)

\* ErrManagementInstallationBusy: a busy source is left alone.
Busy(c) ==
    IF loc[c].phase = "checking"
      THEN Goto(c, "commit", [loc[c] EXCEPT !.next = "canceled_source", !.cp = TRUE])
      ELSE Conflict(c)

\* The next job begins with a look at the Deployment.
Do(c, job, side) == Goto(c, "dep", [loc[c] EXCEPT !.job = job, !.side = side])

\* What follows a job that succeeded.
Finished(c) ==
    LET call == loc[c] IN
    CASE call.job = "capture" -> Do(c, "check", "source")
      [] call.job = "barrier" -> Do(c, IF media THEN "quiesce" ELSE "stop", call.side)
      [] call.job = "drain" -> Do(c, "stop", call.side)
      [] call.job = "stop" /\ call.phase = "restoring" -> Do(c, "resume", "source")
      [] call.job = "start" /\ call.phase = "restoring" -> Again(c)
      [] OTHER -> Goto(c, "commit", [call EXCEPT !.cp = TRUE])

--------------------------------------------------------------------------------
(* liveDeployment                                                           *)

\* For a stopped Deployment, ready means that its status counts no replica.
ReadDeployment(c) ==
    LET call == loc[c]
        d == objs[Deployment]
        read == [call EXCEPT !.n = 1, !.dep = d,
                             !.ready = IF d.up THEN managementReady ELSE observed /\ LivePods = {}]
        proved == d.ver = call.side /\ managementReady
    IN
    /\ pc[c] = "dep"
    /\ \/ d.ver = "other" /\ Conflict(c)
       \/ /\ d.ver # "other"
          /\ CASE call.job \in {"capture", "open"} -> IF proved THEN Goto(c, "svc", read) ELSE Conflict(c)
               [] call.job \in {"check", "drain"} -> IF proved THEN Goto(c, "pods", read) ELSE Conflict(c)
               [] call.job \in {"gate", "stop", "start"} -> Goto(c, "svc", read)
               [] call.job = "quiesce" -> Do(c, IF d.up THEN "drain" ELSE "stop", "source")
               [] call.job = "look" ->
                    IF d.ver = "source" THEN Do(c, "resume", "source")
                    ELSE Goto(c, "dep", [call EXCEPT !.side = "target", !.ask = "idle",
                                           !.job = IF media /\ d.up THEN "drain" ELSE "stop"])
               [] call.job = "resume" ->
                    Goto(c, "dep", [call EXCEPT !.ask = "any", !.proc = 0,
                                                !.job = IF d.up THEN "check" ELSE "start"])
       \* ProgressDeadlineExceeded
       \/ call.job = "start" /\ d.ver # "other" /\ d.up /\ observed /\ ~managementReady /\ Conflict(c)
    /\ Quiet /\ UNCHANGED routes

--------------------------------------------------------------------------------
(* liveService and routesGated                                              *)

AfterServices(c) ==
    LET call == loc[c] IN
    CASE call.job = "gate" -> Goto(c, "svc", [call EXCEPT !.job = "barrier", !.n = 1])
      [] call.job = "stop" /\ call.dep.up ->
           Change(c, Deployment, call.dep, [call.dep EXCEPT !.up = FALSE, !.op = TRUE])
      [] call.job = "start" /\ call.dep.up ->
           IF call.dep.ver # call.side THEN Conflict(c) ELSE IF call.ready THEN Finished(c) ELSE Again(c)
      [] call.job \in {"stop", "start"} /\ ~call.dep.up -> Goto(c, "gone", call)
      [] OTHER -> Finished(c)

NextService(c) ==
    IF loc[c].n < NumServices THEN Goto(c, "svc", [loc[c] EXCEPT !.n = @ + 1]) ELSE AfterServices(c)

ReadService(c) ==
    LET call == loc[c]
        s == objs[call.n]
        opened == [s EXCEPT !.gated = FALSE, !.ver = call.side, !.op = (call.side = "target")]
    IN
    /\ pc[c] = "svc"
    /\ \/ s.ver = "other" /\ Conflict(c)
       \/ /\ s.ver # "other" /\ s.gated
          /\ CASE call.job = "capture" -> Conflict(c)
               [] call.job = "gate" -> NextService(c)
               [] call.job = "open" -> Change(c, call.n, s, opened)
               [] call.job \in {"barrier", "stop", "start"} -> Goto(c, "slices", call)
       \/ /\ s.ver # "other" /\ ~s.gated
          /\ CASE call.job \in {"capture", "open"} ->
                    IF s.ver = call.side THEN NextService(c) ELSE Conflict(c)
               [] call.job = "gate" -> Change(c, call.n, s, [s EXCEPT !.gated = TRUE])
               [] call.job = "barrier" -> Again(c)
               [] call.job \in {"stop", "start"} -> Conflict(c)
    /\ Quiet /\ UNCHANGED routes

\* Mutant: a gated Service counts as a routing barrier.
ReadNoSlices(c) == pc[c] = "slices" /\ NextService(c) /\ Quiet /\ UNCHANGED routes
\* A Service update is not yet a routing barrier: the slices have to be empty.
ReadSlices(c) ==
    /\ pc[c] = "slices"
    /\ CASE loc[c].n \notin eps -> NextService(c)
         [] loc[c].n \in eps /\ loc[c].job = "barrier" -> Again(c)
         [] OTHER -> Conflict(c)
    /\ Quiet /\ UNCHANGED routes

\* Mutant: a terminating Pod counts as gone.
ReadGoneLive(c) ==
    LET call == loc[c] IN
    /\ pc[c] = "gone"
    /\ CASE ~call.ready \/ LivePods # {} -> Again(c)
         [] call.job = "stop" /\ call.ready /\ LivePods = {} -> Finished(c)
         [] OTHER -> Change(c, Deployment, call.dep,
                            [call.dep EXCEPT !.ver = call.side, !.op = TRUE, !.up = TRUE])
    /\ Quiet /\ UNCHANGED routes
\* gone: even a terminating Pod is a possible writer.
ReadGone(c) ==
    LET call == loc[c] IN
    /\ pc[c] = "gone"
    /\ CASE ~call.ready \/ pods # {} -> Again(c)
         [] call.job = "stop" /\ call.ready /\ pods = {} -> Finished(c)
         [] OTHER -> Change(c, Deployment, call.dep,
                            [call.dep EXCEPT !.ver = call.side, !.op = TRUE, !.up = TRUE])
    /\ Quiet /\ UNCHANGED routes

--------------------------------------------------------------------------------
(* stoppedHTTPChecks.Check: requests to one Pod between two looks at it     *)

ReadPods(c) ==
    LET call == loc[c] IN
    /\ pc[c] = "pods"
    /\ \/ (\A p \in pods : pods # {p}) /\ End(c)
       \/ \E p \in pods :
            /\ pods = {p}
            /\ IF p.state # "ready" \/ p.ver # call.dep.ver THEN Conflict(c)
               ELSE IF call.proc = 0 THEN Goto(c, "ask", [call EXCEPT !.proc = p.uid])
               ELSE IF p.uid # call.proc THEN End(c)
               ELSE IF call.busy THEN Busy(c) ELSE Finished(c)
    /\ Quiet /\ UNCHANGED routes

\* The App reports its activity and which release it is.
Ask(c) ==
    /\ pc[c] = "ask" /\ \E p \in pods : p.uid = loc[c].proc /\ p.state = "ready"
    /\ \E busy \in {FALSE, loc[c].ask = "idle"} : Goto(c, "dep", [loc[c] EXCEPT !.busy = busy])
    /\ Quiet /\ UNCHANGED routes

\* No answer, or one that is not this release's.
AskFails(c) == pc[c] = "ask" /\ (End(c) \/ Conflict(c)) /\ Quiet /\ UNCHANGED routes

\* The EndpointSlice controller lists the Pods a Service selects.
SyncSlices(s) ==
    /\ eps' = IF objs[s].gated \/ pods = {} THEN eps \ {s} ELSE eps \cup {s}
    /\ eps' # eps /\ UNCHANGED <<journalVars, media>>

--------------------------------------------------------------------------------
Init == JournalInit /\ eps = Services /\ media \in Media

Proceed(c) ==
    \/ (Commit(c) \/ Update(c)) /\ UNCHANGED routes
    \/ ReadDeployment(c) \/ ReadService(c) \/ ReadSlices(c) \/ ReadGone(c)
    \/ ReadPods(c) \/ Ask(c) \/ AskFails(c)

Next ==
    \/ Shared /\ UNCHANGED routes
    \/ \E c \in Callers : (\E mode \in Modes : Begin(c, mode) \/ Turn(c, mode)) \/ Proceed(c)
    \/ \E s \in Services : SyncSlices(s)

Spec == Init /\ [][Next]_vars

\* Core repeats the step its phase calls for until it hears the outcome.
Drive(c) == (CreateRow(c) /\ UNCHANGED routes) \/ \E mode \in Modes : Begin(c, mode)
Told(c) ==
    \/ Commit(c) /\ known' = known \cup {Reply(loc[c].mode, loc[c].next)} /\ UNCHANGED routes
    \/ \E mode \in Modes : Turn(c, mode) /\ "conflict" \in known'
Settle == \E r \in late : (Land(r) \/ Lose(r)) /\ UNCHANGED routes
CoreActs == Core /\ UNCHANGED routes
ControllerActs ==
    \/ Controller /\ UNCHANGED <<authority, row, calls, late, faults, routes>>
    \/ \E s \in Services : SyncSlices(s)

\* As in ManagementTransition; an App asked again and again is idle once.
Fairness ==
    /\ SF_vars(CoreActs) /\ WF_vars(ControllerActs) /\ WF_vars(Settle)
    /\ \A c \in Callers : /\ WF_vars(Drive(c)) /\ WF_vars(Proceed(c)) /\ SF_vars(Told(c))
                          /\ SF_vars(Ask(c) /\ ~loc'[c].busy)
FairSpec == Spec /\ Fairness

--------------------------------------------------------------------------------
(* Properties                                                               *)

\* Types of the durable rows, the workload and the faults counted.
TypeOK ==
    /\ core \in {"checking", "preparing", "restoring", "releasing", "done"}
    /\ installed \in 0..2 /\ known \subseteq Replies /\ registered \in BOOLEAN
    /\ row \in Row
    /\ objs \in [Objects -> Object] /\ observed \in BOOLEAN
    /\ pods \subseteq Pod /\ born \in 1..MaxPods /\ broken \in BOOLEAN
    /\ eps \subseteq Services /\ media \in Media
    /\ tx \in [Callers -> BOOLEAN] /\ faults \in 0..MaxFaults /\ timely \in BOOLEAN

\* Stop and Start: processes of two versions never exist at the same time.
OneVersionRuns == \A p, q \in pods : p.ver = q.ver

\* When Core has closed the transition, every object is the published version's, the
\* process is wanted and no Service is left gated; a rejected or canceled preflight has
\* changed nothing.  On condition of timely, as in ManagementTransition.
FinishedConsistent ==
    timely =>
      /\ core = "done" =>
           /\ \A n \in Objects : objs[n].ver \in {Published, "other"}
           /\ objs[Deployment].up
           /\ \A s \in Services : objs[s].gated => objs[s].ver = "other"
      /\ row.phase \in {"rejected_preflight", "canceled_source"} =>
           \A n \in Objects : objs[n].ver # "target" /\ ~objs[n].gated /\ objs[n].up

\* Until Core begins a release over something unsettled (timely), Services are gated and the
\* process is stopped only once the checkpoint is saved, and never in a release; Services are
\* opened only in one.  After such a release this is not true: a gate abandoned in sealing
\* may land after release_source was intended and cut the App off; only waiting excludes it.
RoutesFollowPhase ==
    [][timely =>
       LET cut == \/ \E s \in Services : ~objs[s].gated /\ objs'[s].gated
                  \/ objs[Deployment].up /\ ~objs'[Deployment].up
           opened == \E s \in Services : objs[s].gated /\ ~objs'[s].gated
       IN /\ cut => row.cp /\ row.phase \notin ReleasePhases
          /\ opened => row.phase \in ReleasePhases]_vars

\* Every transition comes to an end: published and opened, or rolled back.  Only a media
\* App's target that never becomes Ready may stop it: the rollback would first have to find
\* that target idle.
TransitionEnds == <>(core = "done" \/ (media /\ broken))

Upgrade == INSTANCE SafeUpgrade WITH
    published <- Published, running <- {p.ver : p \in pods}, admitting <- eps # {}

\* Gating, replacing and opening keep the promise to the App's users, up to the step in
\* which Core begins a release without waiting for what was abandoned.
ImplementsSafeUpgrade ==
    Upgrade!Init /\ [][timely' => Upgrade!Next \/ UNCHANGED Upgrade!upgradeVars]_vars
================================================================================
