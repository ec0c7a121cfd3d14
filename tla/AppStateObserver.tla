---------------------------- MODULE AppStateObserver ----------------------------
(***************************************************************************)
(* The App state observer: it lists the Deployments of its namespaces,     *)
(* sends Core the snapshot, follows the watches from the listed versions   *)
(* on and probes the health of configured workloads, over one stream to    *)
(* Core at a time.  From src/internal/appstate/observer.go, health.go and  *)
(* client.go.                                                              *)
(*                                                                         *)
(* The API server's view of a namespace is the sequence of its versions.   *)
(* Core is external: a snapshot replaces what it knows when it is          *)
(* complete, an upsert replaces one Deployment, a delete removes the one   *)
(* with that UID.                                                          *)
(***************************************************************************)
EXTENDS Naturals, Sequences, FiniteSets

CONSTANTS
    Namespaces, Names,  \* Deployments are identified by namespace and name
    Targets,            \* health targets: [ns, name, uid] records
    QueueCap,           \* capacity of the updates channel (256 in the code)
    MaxVersion,         \* bound on the versions of one namespace
    Faults,             \* which faults happen: see FaultKinds
    MaxFaults           \* bound on faults

FaultKinds == {"list", "watch", "stream", "core", "refuse", "large"}

ASSUME ObserverAssumption ==
    /\ Namespaces # {} /\ QueueCap \in Nat \ {0} /\ MaxVersion \in Nat \ {0} /\ MaxFaults \in Nat
    /\ Targets \subseteq [ns : Namespaces, name : Names, uid : 1..MaxVersion] /\ IsFiniteSet(Targets)
    /\ Faults \subseteq FaultKinds

VARIABLES
    hist,       \* the versions of each namespace so far
    pc,         \* where Run and its session are
    result,     \* the error that ends the session
    versions,   \* the listed version of each namespace, 0 when not listed yet
    listed,     \* the resources listed
    watching,   \* namespaces whose watch goroutine runs
    pos,        \* the last version each watch has delivered
    updates,    \* the updates channel: [ns, version] of each event
    failed,     \* the failures channel holds an error
    overdue,    \* 60 s have passed since the listing
    known,      \* the health round's objects
    probes,     \* probes under way: target and the Deployment it was begun for
    results,    \* the health results channel
    link,       \* the stream to Core: up, cut (nothing arrives any more) or down
    events,     \* the stream's events channel: empty, a resync hint or the final error
    pending,    \* Core: the snapshot being received
    view,       \* Core: what it knows of each namespace
    health,     \* Core: the health it holds of each Deployment, by version
    at,         \* (bookkeeping) the version of each namespace that Core was last sent
    faults      \* faults so far

round == <<watching, pos, updates, failed, overdue>>
checks == <<known, probes, results>>
stream == <<link, events>>
core == <<pending, view, health, at>>
vars == <<hist, pc, result, versions, listed, round, checks, stream, core, faults>>

--------------------------------------------------------------------------------
(* Deployments and their versions                                           *)

Absent == [uid |-> 0, rv |-> 0, fit |-> FALSE]
\* fit: not terminating and with a replica wanted.
Deployment == [uid : 0..MaxVersion, rv : 0..MaxVersion, fit : BOOLEAN]
Inventory == [Names -> Deployment]
Empty == [n \in Namespaces |-> [d \in Names |-> Absent]]

Latest(n) == hist[n][Len(hist[n])]
\* The Deployment that version v of a namespace changed.
Changed(n, v) == CHOOSE d \in Names : hist[n][v][d] # hist[n][v - 1][d]

\* The cluster creates, changes or deletes a Deployment; a UID is never used again.
ChangeTo(n, d, to) ==
    /\ Len(hist[n]) < MaxVersion
    /\ hist' = [hist EXCEPT ![n] = Append(@, [Latest(n) EXCEPT ![d] = to])]
    /\ UNCHANGED <<pc, result, versions, listed, round, checks, stream, core, faults>>
Cluster(n, d) ==
    LET v == Len(hist[n]) + 1
        now == Latest(n)[d]
    IN
    \/ now = Absent /\ ChangeTo(n, d, [uid |-> v, rv |-> v, fit |-> TRUE])
    \/ now # Absent /\ ChangeTo(n, d, Absent)
    \/ now # Absent /\ \E fit \in BOOLEAN : ChangeTo(n, d, [now EXCEPT !.rv = v, !.fit = fit])

Fault(kind) == kind \in Faults /\ faults < MaxFaults /\ faults' = faults + 1

--------------------------------------------------------------------------------
(* Run, and the beginning of a session                                      *)

Goto(label) == pc' = label /\ UNCHANGED result
Exit(error) == pc' = "stop" /\ result' = error

\* Open: Core is busy or unavailable and Run tries again, or Core refuses for good.
Open ==
    /\ pc = "closed"
    /\ \/ /\ Goto("list") /\ link' = "up" /\ events' = "empty" /\ UNCHANGED faults
       \/ Fault("stream") /\ Goto("closed") /\ UNCHANGED stream
       \/ Fault("refuse") /\ Goto("ended") /\ UNCHANGED stream
    /\ versions' = [n \in Namespaces |-> 0] /\ listed' = Empty
    /\ UNCHANGED <<hist, round, checks, core>>

\* inventory: one namespace after the other, each at its version of the moment.
List(n) ==
    /\ pc = "list" /\ versions[n] = 0
    /\ versions' = [versions EXCEPT ![n] = Len(hist[n])]
    /\ listed' = [listed EXCEPT ![n] = Latest(n)]
    /\ Goto(IF \A m \in Namespaces \ {n} : versions[m] # 0 THEN "begin" ELSE "list")
    /\ UNCHANGED <<hist, round, checks, stream, core, faults>>
\* An error, or pages of different versions.
ListFails ==
    /\ pc = "list" /\ Fault("list") /\ Exit("unavailable")
    /\ UNCHANGED <<hist, versions, listed, round, checks, stream, core>>

\* More than 10000 resources, or a Deployment whose frame is larger than 1 MiB.
TooLarge ==
    /\ pc \in {"list", "objects"} \/ (pc = "select" /\ updates # <<>>)
    /\ Fault("large") /\ Exit("invalid")
    /\ UNCHANGED <<hist, versions, listed, round, checks, stream, core>>

\* Send: Core receives the frame, or it goes nowhere and nobody knows yet, or the session
\* fails with the stream's error.
Send(next, received) ==
    \/ link = "up" /\ Goto(next) /\ received
    \/ link = "cut" /\ Goto(next) /\ UNCHANGED core
    \/ link = "down" /\ Exit(events) /\ UNCHANGED core

SnapshotBegin ==
    /\ pc = "begin"
    /\ Send("objects", pending' = Empty /\ UNCHANGED <<view, health, at>>)
    /\ UNCHANGED <<hist, versions, listed, round, checks, stream, faults>>
SnapshotObjects ==
    /\ pc = "objects"
    /\ Send("end", pending' = listed /\ UNCHANGED <<view, health, at>>)
    /\ UNCHANGED <<hist, versions, listed, round, checks, stream, faults>>
SnapshotEnd ==
    /\ pc = "end"
    /\ Send("watch", /\ view' = pending /\ at' = versions /\ pending' = Empty
                      /\ health' = [n \in Namespaces |-> [d \in Names |-> 0]])
    /\ UNCHANGED <<hist, versions, listed, round, checks, stream, faults>>

\* Mutant: the watch follows what happens from now on.
WatchFromNow ==
    /\ pc = "watch" /\ Goto("loop")
    /\ watching' = Namespaces /\ pos' = [n \in Namespaces |-> Len(hist[n])]
    /\ overdue' = FALSE /\ known' = listed
    /\ UNCHANGED <<hist, versions, listed, updates, failed, probes, results, stream, core, faults>>
\* The watches follow the listed versions, the timer and the health round begin, all on
\* channels of their own: Stop has dropped those of the round before.
Watch ==
    /\ pc = "watch" /\ Goto("loop")
    /\ watching' = Namespaces /\ pos' = versions
    /\ overdue' = FALSE /\ known' = listed
    /\ UNCHANGED <<hist, versions, listed, updates, failed, probes, results, stream, core, faults>>
WatchFails ==
    /\ pc = "watch" /\ Fault("watch") /\ Exit("unavailable")
    /\ UNCHANGED <<hist, versions, listed, round, checks, stream, core>>

--------------------------------------------------------------------------------
(* The watch goroutines                                                     *)

Fail(n) == failed' = TRUE /\ watching' = watching \ {n}

\* Mutant: an event that the channel has no room for is dropped.
DeliverDropping(n) ==
    /\ n \in watching /\ pos[n] < Len(hist[n]) /\ pos' = [pos EXCEPT ![n] = @ + 1]
    /\ \/ /\ Len(updates) < QueueCap /\ updates' = Append(updates, [ns |-> n, version |-> pos[n] + 1])
       \/ Len(updates) = QueueCap /\ UNCHANGED updates
    /\ UNCHANGED <<hist, pc, result, versions, listed, watching, failed, overdue, checks, stream, core, faults>>
\* The next event of a watch; a full channel ends the watch.
Deliver(n) ==
    /\ n \in watching /\ pos[n] < Len(hist[n]) /\ pos' = [pos EXCEPT ![n] = @ + 1]
    /\ \/ /\ Len(updates) < QueueCap /\ updates' = Append(updates, [ns |-> n, version |-> pos[n] + 1])
          /\ UNCHANGED <<failed, watching>>
       \/ Len(updates) = QueueCap /\ Fail(n) /\ UNCHANGED updates
    /\ UNCHANGED <<hist, pc, result, versions, listed, overdue, checks, stream, core, faults>>

\* The stream is closed, or carries an error or something else than a Deployment.
WatchEnds(n) ==
    /\ n \in watching /\ Fault("watch") /\ Fail(n)
    /\ UNCHANGED <<hist, pc, result, versions, listed, pos, updates, overdue, checks, stream, core>>

--------------------------------------------------------------------------------
(* The health round                                                         *)

Eligible(t, o) == o.uid = t.uid /\ o.fit

\* A probe is begun for the Deployment as it is known then ...
BeginProbe(t) ==
    /\ pc \in {"loop", "select"} /\ \A p \in probes : p.target # t
    /\ Eligible(t, known[t.ns][t.name])
    /\ probes' = probes \cup {[target |-> t, rv |-> known[t.ns][t.name].rv]}
    /\ UNCHANGED <<hist, pc, result, versions, listed, round, known, results, stream, core, faults>>
\* Mutant: results queue up behind a slow stream.
EndProbeQueueing(p) ==
    /\ p \in probes /\ probes' = probes \ {p} /\ results' = Append(results, p)
    /\ UNCHANGED <<hist, pc, result, versions, listed, round, known, stream, core, faults>>
\* ... and its result is dropped when the channel is full.
EndProbe(p) ==
    /\ p \in probes /\ probes' = probes \ {p}
    /\ results' = IF Len(results) < Cardinality(Targets) THEN Append(results, p) ELSE results
    /\ UNCHANGED <<hist, pc, result, versions, listed, round, known, stream, core, faults>>

\* current: the Deployment has not changed since the probe began.
Current(p) ==
    LET o == known[p.target.ns][p.target.name] IN Eligible(p.target, o) /\ o.rv = p.rv

--------------------------------------------------------------------------------
(* The loop of a session                                                    *)

Resync == Exit("none")

\* A failure that is already there goes before everything else.
Check ==
    /\ pc = "loop" /\ IF failed THEN Resync ELSE Goto("select")
    /\ UNCHANGED <<hist, versions, listed, round, checks, stream, core, faults>>
SelectFailure ==
    /\ pc = "select" /\ failed /\ Resync
    /\ UNCHANGED <<hist, versions, listed, round, checks, stream, core, faults>>
SelectTimer ==
    /\ pc = "select" /\ overdue /\ Resync
    /\ UNCHANGED <<hist, versions, listed, round, checks, stream, core, faults>>
\* A hint of Core, its final error, or the closed channel.
SelectEvent ==
    /\ pc = "select" /\ events # "empty"
    /\ Exit(IF events = "resync" THEN "none" ELSE events)
    /\ events' = IF link = "down" THEN events ELSE "empty"
    /\ UNCHANGED <<hist, versions, listed, round, checks, link, core, faults>>
\* No heartbeat goes out for an inventory that may be stale.
SelectHeartbeat ==
    /\ pc = "select"
    /\ IF overdue \/ failed THEN Resync /\ UNCHANGED core ELSE Send("loop", UNCHANGED core)
    /\ UNCHANGED <<hist, versions, listed, round, checks, stream, faults>>

Without(inv, d, uid) == IF inv[d].uid = uid THEN [inv EXCEPT ![d] = Absent] ELSE inv

\* What the health round, and Core, make of one event.
Applied(inv, n, v) ==
    LET d == Changed(n, v)
        o == hist[n][v][d]
    IN IF o = Absent THEN Without(inv, d, hist[n][v - 1][d].uid) ELSE [inv EXCEPT ![d] = o]

SelectUpdate ==
    LET n == Head(updates).ns
        v == Head(updates).version
    IN
    /\ pc = "select" /\ updates # <<>> /\ updates' = Tail(updates)
    /\ known' = [known EXCEPT ![n] = Applied(@, n, v)]
    /\ Send("loop", /\ view' = [view EXCEPT ![n] = Applied(@, n, v)]
                     /\ health' = [health EXCEPT ![n][Changed(n, v)] = 0]
                     /\ at' = [at EXCEPT ![n] = v] /\ UNCHANGED pending)
    /\ UNCHANGED <<hist, versions, listed, watching, pos, failed, overdue, probes, results, stream, faults>>

\* A result of more than 2 s, too, is dropped.
SelectHealth ==
    LET p == Head(results) IN
    /\ pc = "select" /\ results # <<>> /\ results' = Tail(results)
    /\ \/ Goto("loop") /\ UNCHANGED core
       \/ /\ Current(p)
          /\ Send("loop", /\ health' = [health EXCEPT ![p.target.ns][p.target.name] = p.rv]
                           /\ UNCHANGED <<pending, view, at>>)
    /\ UNCHANGED <<hist, versions, listed, round, known, probes, stream, faults>>

\* Mutant: the updates of the last round are kept.
StopKeeping ==
    /\ pc = "stop"
    /\ pc' = CASE result = "none" -> "list" [] result = "invalid" -> "ended" [] OTHER -> "closed"
    /\ result' = "none" /\ versions' = [n \in Namespaces |-> 0] /\ listed' = Empty
    /\ UNCHANGED <<hist, round, checks, stream, core, faults>>
\* health.stop and stop join the goroutines: nothing of a round outlives it.  The session
\* goes on with a new round, or its error ends it; Run tries again unless it is fatal.
Stop ==
    /\ pc = "stop"
    /\ pc' = CASE result = "none" -> "list" [] result = "invalid" -> "ended" [] OTHER -> "closed"
    /\ result' = "none" /\ versions' = [n \in Namespaces |-> 0] /\ listed' = Empty
    /\ watching' = {} /\ updates' = <<>> /\ failed' = FALSE /\ overdue' = FALSE /\ UNCHANGED pos
    /\ known' = Empty /\ probes' = {} /\ results' = <<>>
    /\ UNCHANGED <<hist, stream, core, faults>>

--------------------------------------------------------------------------------
(* Time, the stream's reader and Core                                       *)

\* 60 s after the listing.
Minute ==
    /\ pc \in {"loop", "select"} /\ ~overdue /\ overdue' = TRUE
    /\ UNCHANGED <<hist, pc, result, versions, listed, watching, pos, updates, failed, checks, stream, core, faults>>

InSession == pc \notin {"closed", "ended"}

\* read: Core's hints are one as long as none is taken ...
Hint ==
    /\ InSession /\ link = "up" /\ events = "empty" /\ events' = "resync"
    /\ UNCHANGED <<hist, pc, result, versions, listed, round, checks, link, core, faults>>
\* ... and the final error replaces it: the connection was lost or silent for 30 s, or
\* Core says goodbye, or what it says cannot be understood.
ReadEnds ==
    /\ InSession /\ link' = "down"
    /\ \/ link = "cut" /\ events' = "unavailable" /\ UNCHANGED faults
       \/ link = "up" /\ Fault("stream") /\ events' = "unavailable"
       \/ link = "up" /\ Fault("refuse") /\ events' = "invalid"
    /\ pending' = Empty
    /\ UNCHANGED <<hist, pc, result, versions, listed, round, checks, view, health, at>>
\* The connection is lost, or Core restarts and knows nothing.
Cut ==
    /\ InSession /\ link = "up" /\ Fault("stream") /\ link' = "cut" /\ pending' = Empty
    /\ UNCHANGED <<hist, pc, result, versions, listed, round, checks, events, view, health, at>>
CoreRestart ==
    /\ Fault("core") /\ link' = IF link = "up" THEN "cut" ELSE link
    /\ pending' = Empty /\ view' = Empty /\ at' = [n \in Namespaces |-> 0]
    /\ health' = [n \in Namespaces |-> [d \in Names |-> 0]]
    /\ UNCHANGED <<hist, pc, result, versions, listed, round, checks, events>>

--------------------------------------------------------------------------------
Init ==
    /\ hist \in [Namespaces -> {<<[d \in Names |-> IF d \in S THEN [uid |-> 1, rv |-> 1, fit |-> TRUE] ELSE Absent]>>
                                  : S \in SUBSET Names}]
    /\ pc = "closed" /\ result = "none"
    /\ versions = [n \in Namespaces |-> 0] /\ listed = Empty
    /\ watching = {} /\ pos = [n \in Namespaces |-> 0] /\ updates = <<>>
    /\ failed = FALSE /\ overdue = FALSE
    /\ known = Empty /\ probes = {} /\ results = <<>>
    /\ link = "down" /\ events = "empty"
    /\ pending = Empty /\ view = Empty /\ at = [n \in Namespaces |-> 0]
    /\ health = [n \in Namespaces |-> [d \in Names |-> 0]]
    /\ faults = 0

Select ==
    SelectFailure \/ SelectTimer \/ SelectEvent \/ SelectHeartbeat \/ SelectUpdate \/ SelectHealth
Session ==
    \/ Open \/ (\E n \in Namespaces : List(n)) \/ ListFails \/ TooLarge
    \/ SnapshotBegin \/ SnapshotObjects \/ SnapshotEnd \/ Watch \/ WatchFails
    \/ Check \/ Select \/ Stop
Next ==
    \/ \E n \in Namespaces : (\E d \in Names : Cluster(n, d)) \/ Deliver(n) \/ WatchEnds(n)
    \/ Session
    \/ (\E t \in Targets : BeginProbe(t)) \/ (\E p \in probes : EndProbe(p))
    \/ Minute \/ Hint \/ ReadEnds \/ Cut \/ CoreRestart

Spec == Init /\ [][Next]_vars

\* The session goes on, select takes a case that is ready again and again, watches deliver
\* and a dead stream is noticed.  Nothing is said of the 60 s timer: it is not needed.
Fairness ==
    /\ WF_vars(Session) /\ SF_vars(SelectUpdate) /\ SF_vars(SelectEvent)
    /\ WF_vars(ReadEnds /\ link = "cut")
    /\ \A n \in Namespaces : WF_vars(Deliver(n))
FairSpec == Spec /\ Fairness

--------------------------------------------------------------------------------
(* Properties                                                               *)

\* Types of the cluster's history, the session and what Core knows.
TypeOK ==
    /\ hist \in [Namespaces -> Seq(Inventory)]
    /\ pc \in {"closed", "list", "begin", "objects", "end", "watch", "loop", "select", "stop", "ended"}
    /\ result \in {"none", "unavailable", "invalid"}
    /\ versions \in [Namespaces -> 0..MaxVersion] /\ listed \in [Namespaces -> Inventory]
    /\ watching \subseteq Namespaces /\ pos \in [Namespaces -> 0..MaxVersion]
    /\ updates \in Seq([ns : Namespaces, version : 1..MaxVersion]) /\ Len(updates) <= QueueCap
    /\ failed \in BOOLEAN /\ overdue \in BOOLEAN /\ link \in {"up", "cut", "down"}
    /\ known \in [Namespaces -> Inventory]
    /\ probes \subseteq [target : Targets, rv : 1..MaxVersion]
    /\ results \in Seq([target : Targets, rv : 1..MaxVersion]) /\ Len(results) <= Cardinality(Targets)
    /\ events \in {"empty", "resync", "unavailable", "invalid"}
    /\ pending \in [Namespaces -> Inventory] /\ view \in [Namespaces -> Inventory]
    /\ health \in [Namespaces -> [Names -> 0..MaxVersion]]
    /\ at \in [Namespaces -> 0..MaxVersion] /\ faults \in 0..MaxFaults

\* What Core knows of a namespace is what the namespace was at one moment, all of its
\* Deployments together: no event is lost, doubled or applied out of order between the
\* listing, the watch and the next listing.  A health that Core holds is of the very
\* version of the Deployment that Core knows, and the operator's configured workload.
ConsistentView ==
    \A n \in Namespaces :
      /\ view[n] = IF at[n] = 0 THEN Empty[n] ELSE hist[n][at[n]]
      /\ \A d \in Names : health[n][d] # 0 =>
           /\ view[n][d].rv = health[n][d] /\ view[n][d].fit
           /\ \E t \in Targets : t.ns = n /\ t.name = d /\ t.uid = view[n][d].uid

\* Core's knowledge of a namespace never goes back to an earlier version, not across
\* rounds and sessions either; only a restart of Core forgets it.
NeverBack == [][\A n \in Namespaces : at'[n] >= at[n] \/ faults' # faults]_vars

\* Once the cluster rests, Core knows it as it is, whatever watches ended, queues
\* overflowed or sessions were lost before: only a refusal by Core, or an inventory too large
\* for the protocol, ends the observer, and then for good.
Converges == <>[](\A n \in Namespaces : view[n] = Latest(n)) \/ <>(pc = "ended")
================================================================================
