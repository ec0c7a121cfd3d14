------------------------- MODULE AppStateObserverProofs -------------------------
(***************************************************************************)
(* Why what Core knows of a namespace is always one of its versions, and   *)
(* never goes back, for any number of namespaces, Deployments and targets, *)
(* any queue and any faults.  The heart of it is the round: the updates    *)
(* channel holds, of every namespace, exactly the versions between the one *)
(* that was applied last and the one that its watch delivered last.        *)
(***************************************************************************)
EXTENDS AppStateObserver, FiniteSetTheorems, TLAPS

--------------------------------------------------------------------------------
(* The inductive invariant                                                  *)

Rounds == {"loop", "select"}
Listed == {"begin", "objects", "end", "watch"} \cup Rounds

\* What may be said of a Deployment at version v.
Dated(o, v) == o.rv <= v /\ o.uid <= v /\ (o.uid # 0 <=> o.rv # 0) /\ (o.rv = 0 => o = Absent)

\* Each version of a namespace changes one Deployment of the version before.
HistInv ==
    \A n \in Namespaces :
        /\ hist[n] \in Seq(Inventory) /\ Len(hist[n]) \in 1..MaxVersion
        /\ \A v \in 1..Len(hist[n]), d \in Names : Dated(hist[n][v][d], v)
        /\ \A v \in 2..Len(hist[n]) : \E d \in Names :
             /\ hist[n][v][d] # hist[n][v - 1][d]
             /\ \A e \in Names \ {d} : hist[n][v][e] = hist[n][v - 1][e]

\* A namespace that has been listed was listed at a version that Core is not ahead of.
ListInv ==
    /\ pc \in Listed => \A n \in Namespaces : versions[n] # 0
    /\ pc \in Listed \cup {"list"} => \A n \in Namespaces : versions[n] # 0 =>
         /\ versions[n] <= Len(hist[n]) /\ listed[n] = hist[n][versions[n]]
         /\ pc \notin Rounds => at[n] <= versions[n]
    /\ pc = "end" /\ link = "up" => pending = listed
    /\ pc = "watch" /\ link = "up" => at = versions
    /\ link = "down" /\ InSession => events \in {"unavailable", "invalid"}
    /\ pc \notin Rounds \cup {"stop"} => updates = <<>> /\ watching = {} /\ probes = {} /\ results = <<>>

\* The queue q holds the versions cur + 1, ..., last of each namespace, in order.
Channel(q, cur, last) ==
    /\ \A k \in 1..Len(q) : q[k].version \in (cur[q[k].ns] + 1)..last[q[k].ns]
    /\ \A j, k \in 1..Len(q) : j < k /\ q[j].ns = q[k].ns => q[j].version < q[k].version
    /\ \A n \in Namespaces : \A v \in (cur[n] + 1)..last[n] : \E k \in 1..Len(q) : q[k].ns = n /\ q[k].version = v

\* What the round has applied: cur, and what the watches have put into the channel: last.
Follows(cur, last) ==
    /\ \A n \in Namespaces : /\ 1 <= cur[n] /\ cur[n] <= last[n] /\ last[n] <= Len(hist[n])
                             /\ n \in watching => pos[n] = last[n]
                             /\ known[n] = hist[n][cur[n]]
    /\ link = "up" => at = cur
    /\ Channel(updates, cur, last)

RoundInv == pc \in Rounds => \E cur, last \in [Namespaces -> 1..MaxVersion] : Follows(cur, last)

CoreInv == (\A n \in Namespaces : at[n] <= Len(hist[n])) /\ ConsistentView

ObserverInv == TypeOK /\ HistInv /\ ListInv /\ RoundInv /\ CoreInv

USE DEF Rounds, Listed

--------------------------------------------------------------------------------
(* The versions of a namespace                                              *)

LEMMA Facts ==
    /\ QueueCap \in Nat /\ QueueCap > 0 /\ MaxVersion \in Nat /\ MaxVersion > 0 /\ MaxFaults \in Nat
    /\ Cardinality(Targets) \in Nat /\ Absent \in Deployment /\ Absent.rv = 0 /\ Absent.uid = 0
    /\ Empty \in [Namespaces -> Inventory] /\ \A t \in Targets : t.ns \in Namespaces /\ t.name \in Names /\ t.uid \in 1..MaxVersion
<1>1. QueueCap \in Nat /\ QueueCap > 0 /\ MaxVersion \in Nat /\ MaxVersion > 0 /\ MaxFaults \in Nat
  BY ObserverAssumption
<1>2. Cardinality(Targets) \in Nat BY ObserverAssumption, FS_CardinalityType
<1>3. Absent \in Deployment /\ Absent.rv = 0 /\ Absent.uid = 0 BY <1>1 DEF Absent, Deployment
<1>4. Empty \in [Namespaces -> Inventory] BY <1>3 DEF Empty, Inventory
<1>5. \A t \in Targets : t.ns \in Namespaces /\ t.name \in Names /\ t.uid \in 1..MaxVersion BY ObserverAssumption
<1> QED BY <1>1, <1>2, <1>3, <1>4, <1>5

LEMMA HistFacts ==
    ASSUME HistInv, NEW n \in Namespaces, NEW v \in 1..Len(hist[n])
    PROVE  /\ Len(hist[n]) \in Nat /\ v \in 1..MaxVersion /\ hist[n][v] \in Inventory
           /\ \A d \in Names : hist[n][v][d] \in Deployment /\ Dated(hist[n][v][d], v)
<1>1. hist[n] \in Seq(Inventory) /\ Len(hist[n]) \in 1..MaxVersion BY DEF HistInv
<1>2. hist[n][v] \in Inventory BY <1>1
<1>3. v \in 1..MaxVersion BY <1>1, Facts
<1>4. \A d \in Names : hist[n][v][d] \in Deployment BY <1>2 DEF Inventory
<1>5. \A d \in Names : Dated(hist[n][v][d], v) BY DEF HistInv
<1> QED BY <1>1, <1>2, <1>3, <1>4, <1>5

LEMMA LatestFacts ==
    ASSUME HistInv, NEW n \in Namespaces
    PROVE  /\ Len(hist[n]) \in 1..MaxVersion /\ Latest(n) = hist[n][Len(hist[n])] /\ Latest(n) \in Inventory
           /\ \A d \in Names : Latest(n)[d] \in Deployment /\ Dated(Latest(n)[d], Len(hist[n]))
<1>1. Len(hist[n]) \in 1..MaxVersion BY DEF HistInv
<1>2. Len(hist[n]) \in 1..Len(hist[n]) BY <1>1, Facts
<1> QED BY <1>1, <1>2, HistFacts DEF Latest

\* What the cluster turns a Deployment into is new, and dated by the version.
LEMMA ClusterChange ==
    ASSUME HistInv, NEW n \in Namespaces, NEW d \in Names, Cluster(n, d)
    PROVE  \E to \in Deployment : /\ Dated(to, Len(hist[n]) + 1) /\ to # Latest(n)[d]
                                  /\ ChangeTo(n, d, to)
<1> DEFINE v == Len(hist[n]) + 1  now == Latest(n)[d]
<1>1. /\ Len(hist[n]) \in 1..MaxVersion /\ now \in Deployment /\ Dated(now, Len(hist[n])) BY LatestFacts
<1>0. Len(hist[n]) < MaxVersion BY DEF Cluster, ChangeTo
<1>2. v \in 1..MaxVersion BY <1>0, <1>1, Facts
<1>3. CASE now = Absent /\ ChangeTo(n, d, [uid |-> v, rv |-> v, fit |-> TRUE])
  <2> DEFINE to == [uid |-> v, rv |-> v, fit |-> TRUE]
  <2>1. to \in Deployment /\ to.uid = v /\ to.rv = v BY <1>2, Facts DEF Deployment
  <2>2. ChangeTo(n, d, to) /\ now = Absent BY <1>3
  <2> HIDE DEF to
  <2>3. Dated(to, v) BY <1>2, <2>1 DEF Dated
  <2>4. to # now BY <1>2, <2>1, <2>2, Facts
  <2> QED BY <2>1, <2>2, <2>3, <2>4
<1>4. CASE now # Absent /\ ChangeTo(n, d, Absent)
  <2>1. Dated(Absent, v) BY <1>2, Facts DEF Dated
  <2> QED BY <1>4, <2>1, Facts
<1>5. ASSUME now # Absent, NEW fit \in BOOLEAN, ChangeTo(n, d, [now EXCEPT !.rv = v, !.fit = fit])
      PROVE  \E to \in Deployment : Dated(to, v) /\ to # now /\ ChangeTo(n, d, to)
  <2> DEFINE to == [now EXCEPT !.rv = v, !.fit = fit]
  <2> HIDE DEF now
  <2>1. to \in Deployment /\ to.uid = now.uid /\ to.rv = v
    <3>1. v \in 0..MaxVersion BY <1>2, Facts
    <3> HIDE DEF v
    <3>2. CASE fit = TRUE BY <1>1, <3>1, <3>2 DEF Deployment
    <3>3. CASE fit = FALSE BY <1>1, <3>1, <3>3 DEF Deployment
    <3> QED BY <3>2, <3>3
  <2>2. now.rv <= Len(hist[n]) /\ now.uid <= Len(hist[n]) /\ now.uid # 0 /\ now.rv \in Nat /\ now.uid \in Nat
    BY <1>1, <1>5, Facts DEF Dated, Deployment
  <2>3. ChangeTo(n, d, to) BY <1>5
  <2> HIDE DEF to
  <2>4. Dated(to, v) BY <1>1, <1>2, <2>1, <2>2 DEF Dated
  <2>5. to # now BY <1>1, <1>2, <2>1, <2>2
  <2> QED BY <2>1, <2>3, <2>4, <2>5
<1> QED BY <1>3, <1>4, <1>5 DEF Cluster

\* Versions are only added.
LEMMA HistoryGrows ==
    ASSUME HistInv, TypeOK, NEW n \in Namespaces, NEW d \in Names, Cluster(n, d)
    PROVE  /\ HistInv' /\ hist' \in [Namespaces -> Seq(Inventory)]
           /\ \A m \in Namespaces : /\ Len(hist[m]) <= Len(hist'[m]) /\ Len(hist[m]) \in Nat /\ Len(hist'[m]) \in Nat
                                    /\ \A v \in 1..Len(hist[m]) : hist'[m][v] = hist[m][v]
<1>1. PICK to \in Deployment : /\ Dated(to, Len(hist[n]) + 1) /\ to # Latest(n)[d]
                               /\ ChangeTo(n, d, to)
  BY ClusterChange
<1> DEFINE new == [Latest(n) EXCEPT ![d] = to]  len == Len(hist[n])
<1>2. len \in 1..MaxVersion /\ Latest(n) = hist[n][len] /\ Latest(n) \in Inventory /\ hist[n] \in Seq(Inventory)
  BY LatestFacts DEF HistInv
<1>3. new \in Inventory /\ new[d] = to /\ \A e \in Names \ {d} : new[e] = hist[n][len][e] BY <1>2 DEF Inventory
<1>4. hist' = [hist EXCEPT ![n] = Append(hist[n], new)] /\ len < MaxVersion BY <1>1 DEF ChangeTo
<1> HIDE DEF new
<1>5. hist'[n] = Append(hist[n], new) /\ \A m \in Namespaces \ {n} : hist'[m] = hist[m]
  BY <1>4 DEF TypeOK
<1>6. /\ hist'[n] \in Seq(Inventory) /\ Len(hist'[n]) = len + 1 /\ hist'[n][len + 1] = new
      /\ \A v \in 1..len : hist'[n][v] = hist[n][v]
  BY <1>2, <1>3, <1>5
<1>7. hist' \in [Namespaces -> Seq(Inventory)] BY <1>4, <1>5, <1>6 DEF TypeOK
<1>8. \A m \in Namespaces : /\ Len(hist[m]) <= Len(hist'[m]) /\ Len(hist[m]) \in Nat /\ Len(hist'[m]) \in Nat
                            /\ \A v \in 1..Len(hist[m]) : hist'[m][v] = hist[m][v]
  <2>1. \A m \in Namespaces : Len(hist[m]) \in Nat BY LatestFacts, Facts
  <2>2. /\ len <= Len(hist'[n]) /\ Len(hist'[n]) \in Nat BY <1>2, <1>6, <2>1
  <2> QED BY <1>5, <1>6, <2>1, <2>2
<1>9. ASSUME NEW m \in Namespaces
      PROVE  /\ hist'[m] \in Seq(Inventory) /\ Len(hist'[m]) \in 1..MaxVersion
             /\ \A v \in 1..Len(hist'[m]), e \in Names : Dated(hist'[m][v][e], v)
             /\ \A v \in 2..Len(hist'[m]) : \E e \in Names :
                  /\ hist'[m][v][e] # hist'[m][v - 1][e]
                  /\ \A f \in Names \ {e} : hist'[m][v][f] = hist'[m][v - 1][f]
  <2>1. CASE m # n
    <3>1. hist'[m] = hist[m] BY <1>5, <2>1
    <3> QED BY <3>1 DEF HistInv
  <2>2. CASE m = n
    <3>1. hist'[m] \in Seq(Inventory) /\ Len(hist'[m]) \in 1..MaxVersion BY <1>2, <1>4, <1>6, <2>2, Facts
    <3>2. ASSUME NEW v \in 1..Len(hist'[n]), NEW e \in Names PROVE Dated(hist'[n][v][e], v)
      <4>1. CASE v \in 1..len BY <1>6, <4>1, HistFacts
      <4>2. CASE v = len + 1
        <5>1. e = d \/ (e # d /\ new[e] = hist[n][len][e]) BY <1>3
        <5>2. Dated(hist[n][len][e], len) /\ hist[n][len][e] \in Deployment BY <1>2, HistFacts, Facts
        <5>3. Dated(hist[n][len][e], len + 1) BY <1>2, <5>2, Facts DEF Dated, Deployment
        <5> QED BY <1>1, <1>3, <1>6, <4>2, <5>1, <5>3
      <4> QED BY <1>2, <1>6, <4>1, <4>2, Facts
    <3>3. ASSUME NEW v \in 2..Len(hist'[n])
          PROVE  \E e \in Names : /\ hist'[n][v][e] # hist'[n][v - 1][e]
                                  /\ \A f \in Names \ {e} : hist'[n][v][f] = hist'[n][v - 1][f]
      <4>1. CASE v \in 2..len
        <5>1. v \in 1..len /\ v - 1 \in 1..len BY <1>2, <4>1, Facts
        <5>2. hist'[n][v] = hist[n][v] /\ hist'[n][v - 1] = hist[n][v - 1] BY <1>6, <5>1
        <5>3. \E e \in Names : /\ hist[n][v][e] # hist[n][v - 1][e]
                               /\ \A f \in Names \ {e} : hist[n][v][f] = hist[n][v - 1][f]
          BY <4>1 DEF HistInv
        <5> QED BY <5>2, <5>3
      <4>2. CASE v = len + 1
        <5>1. v - 1 = len /\ len \in 1..len BY <1>2, <4>2, Facts
        <5>2. hist'[n][v] = new /\ hist'[n][v - 1] = hist[n][len] BY <1>6, <4>2, <5>1
        <5> QED BY <1>1, <1>2, <1>3, <5>2
      <4> QED BY <1>2, <1>6, <4>1, <4>2, Facts
    <3> QED BY <2>2, <3>1, <3>2, <3>3
  <2> QED BY <2>1, <2>2
<1>10. HistInv' BY <1>9 DEF HistInv
<1> QED BY <1>7, <1>8, <1>10

\* An event turns the version before into its own.
LEMMA EventApplies ==
    ASSUME HistInv, NEW n \in Namespaces, NEW v \in 2..Len(hist[n])
    PROVE  /\ Applied(hist[n][v - 1], n, v) = hist[n][v] /\ Changed(n, v) \in Names
           /\ \A e \in Names : e # Changed(n, v) => hist[n][v][e] = hist[n][v - 1][e]
<1> DEFINE new == hist[n][v]  old == hist[n][v - 1]
<1>1. PICK d \in Names : new[d] # old[d] /\ \A e \in Names \ {d} : new[e] = old[e] BY DEF HistInv
<1>2. Changed(n, v) = d BY <1>1 DEF Changed
<1>3. v \in 1..Len(hist[n]) /\ v - 1 \in 1..Len(hist[n]) BY LatestFacts, Facts
<1>4. new \in [Names -> Deployment] /\ old \in [Names -> Deployment] BY <1>3, HistFacts DEF Inventory
<1>5. new = [old EXCEPT ![d] = new[d]] BY <1>1, <1>4
<1>6. Applied(old, n, v) = new BY <1>2, <1>5 DEF Applied, Without
<1> QED BY <1>1, <1>2, <1>6

--------------------------------------------------------------------------------
(* The cluster                                                              *)

LEMMA ClusterStep ==
    ASSUME ObserverInv, NEW n \in Namespaces, NEW d \in Names, Cluster(n, d)
    PROVE  ObserverInv'
<1>0. TypeOK /\ HistInv /\ ListInv /\ RoundInv /\ CoreInv BY DEF ObserverInv
<1>1. /\ HistInv' /\ hist' \in [Namespaces -> Seq(Inventory)]
      /\ \A m \in Namespaces : /\ Len(hist[m]) <= Len(hist'[m]) /\ Len(hist[m]) \in Nat /\ Len(hist'[m]) \in Nat
                               /\ \A v \in 1..Len(hist[m]) : hist'[m][v] = hist[m][v]
  BY <1>0, HistoryGrows
<1>2. UNCHANGED <<pc, result, versions, listed, round, checks, stream, core, faults>> BY DEF Cluster, ChangeTo
<1>3. TypeOK' BY <1>0, <1>1, <1>2 DEF TypeOK, round, checks, stream, core
<1>4. ListInv'
  <2>1. \A m \in Namespaces : versions[m] # 0 /\ versions[m] <= Len(hist[m]) /\ listed[m] = hist[m][versions[m]]
          => versions[m] <= Len(hist'[m]) /\ listed[m] = hist'[m][versions[m]]
    BY SMTT(40), <1>0, <1>1, Facts DEF TypeOK
  <2> QED BY <1>0, <1>2, <2>1 DEF ListInv, round, checks, stream, core, InSession
<1>5. RoundInv'
  <2> SUFFICES ASSUME NEW cur \in [Namespaces -> 1..MaxVersion], NEW last \in [Namespaces -> 1..MaxVersion],
                      Follows(cur, last)
               PROVE  Follows(cur, last)'
    BY <1>0, <1>2 DEF RoundInv
  <2>1. \A m \in Namespaces : /\ 1 <= cur[m] /\ cur[m] <= last[m] /\ last[m] <= Len(hist'[m])
                              /\ known[m] = hist'[m][cur[m]]
    <3> SUFFICES ASSUME NEW m \in Namespaces
                 PROVE  /\ 1 <= cur[m] /\ cur[m] <= last[m] /\ last[m] <= Len(hist'[m])
                        /\ known[m] = hist'[m][cur[m]]
      OBVIOUS
    <3>1. /\ 1 <= cur[m] /\ cur[m] <= last[m] /\ last[m] <= Len(hist[m]) /\ known[m] = hist[m][cur[m]]
          /\ cur[m] \in Nat /\ last[m] \in Nat
      BY Facts DEF Follows
    <3>2. cur[m] \in 1..Len(hist[m]) BY <1>1, <3>1
    <3> QED BY <1>1, <3>1, <3>2
  <2>2. Channel(updates, cur, last)'
    <3>1. Channel(updates, cur, last) BY DEF Follows
    <3>2. updates' = updates BY <1>2 DEF round
    <3> QED BY <3>1, <3>2
  <2> QED BY <1>2, <2>1, <2>2 DEF Follows, round, checks, stream, core
<1>6. CoreInv'
  <2>1. \A m \in Namespaces : at[m] <= Len(hist'[m]) /\ (at[m] # 0 => hist'[m][at[m]] = hist[m][at[m]])
    <3> SUFFICES ASSUME NEW m \in Namespaces
                 PROVE  at[m] <= Len(hist'[m]) /\ (at[m] # 0 => hist'[m][at[m]] = hist[m][at[m]])
      OBVIOUS
    <3>1. at[m] <= Len(hist[m]) BY <1>0 DEF CoreInv
    <3>2. at[m] \in Nat BY <1>0, Facts DEF TypeOK
    <3>3. at[m] # 0 => at[m] \in 1..Len(hist[m]) BY <1>1, <3>1, <3>2
    <3> QED BY <1>1, <3>1, <3>2, <3>3
  <2> QED BY <1>0, <1>2, <2>1 DEF CoreInv, ConsistentView, core, Empty
<1> QED BY <1>1, <1>3, <1>4, <1>5, <1>6 DEF ObserverInv

--------------------------------------------------------------------------------
(* Steps that leave a round as it is, or are outside one                    *)

LEMMA HistRests == HistInv /\ UNCHANGED hist => HistInv'
  BY DEF HistInv

LEMMA RoundRests ==
    ASSUME RoundInv, pc' \in Rounds => pc \in Rounds, UNCHANGED <<hist, pos, updates, known>>,
           watching' \subseteq watching, link' = "up" => link = "up" /\ UNCHANGED at
    PROVE  RoundInv'
<1> SUFFICES ASSUME NEW cur \in [Namespaces -> 1..MaxVersion], NEW last \in [Namespaces -> 1..MaxVersion],
                    Follows(cur, last)
             PROVE  Follows(cur, last)'
  BY DEF RoundInv
<1>1. Channel(updates, cur, last)'
  <2>1. Channel(updates, cur, last) BY DEF Follows
  <2> QED BY <2>1
<1> QED BY <1>1 DEF Follows

LEMMA CoreRests == CoreInv /\ UNCHANGED <<hist, view, health, at>> => CoreInv'
  BY DEF CoreInv, ConsistentView, Empty

LEMMA OpenStep == ASSUME ObserverInv, Open PROVE ObserverInv'
<1>0. TypeOK /\ HistInv /\ ListInv /\ RoundInv /\ CoreInv BY DEF ObserverInv
<1>1. /\ pc = "closed" /\ pc' \in {"list", "closed", "ended"} /\ UNCHANGED <<hist, result, round, checks, core>>
      /\ versions' = [n \in Namespaces |-> 0] /\ listed' = Empty
      /\ \/ link' = "up" /\ events' = "empty"
         \/ UNCHANGED stream /\ pc' # "list"
      /\ faults' \in 0..MaxFaults
  BY <1>0, Facts DEF Open, Goto, Fault, TypeOK
<1>2. TypeOK' BY <1>0, <1>1, Facts DEF TypeOK, round, checks, stream, core
<1>3. ListInv' BY <1>0, <1>1, Facts DEF ListInv, round, checks, stream, InSession
<1>4. RoundInv' BY <1>1 DEF RoundInv
<1> QED BY <1>0, <1>1, <1>2, <1>3, <1>4, HistRests, CoreRests DEF ObserverInv, core

LEMMA ListStep == ASSUME ObserverInv, NEW n \in Namespaces, List(n) PROVE ObserverInv'
<1>0. TypeOK /\ HistInv /\ ListInv /\ RoundInv /\ CoreInv BY DEF ObserverInv
<1>1. /\ pc = "list" /\ pc' = (IF \A m \in Namespaces \ {n} : versions[m] # 0 THEN "begin" ELSE "list")
      /\ UNCHANGED <<hist, result, round, checks, stream, core, faults>>
      /\ versions' = [versions EXCEPT ![n] = Len(hist[n])]
      /\ listed' = [listed EXCEPT ![n] = Latest(n)]
  BY DEF List, Goto
<1>2. Len(hist[n]) \in 1..MaxVersion /\ Latest(n) = hist[n][Len(hist[n])] /\ Latest(n) \in Inventory BY <1>0, LatestFacts
<1>3. /\ versions' \in [Namespaces -> 0..MaxVersion] /\ listed' \in [Namespaces -> Inventory]
      /\ versions'[n] = Len(hist[n]) /\ listed'[n] = Latest(n)
      /\ \A m \in Namespaces \ {n} : versions'[m] = versions[m] /\ listed'[m] = listed[m]
  BY <1>0, <1>1, <1>2, Facts DEF TypeOK
<1>4. TypeOK' BY <1>0, <1>1, <1>3 DEF TypeOK, round, checks, stream, core
<1>5. ListInv'
  <2>1. \A m \in Namespaces : versions'[m] # 0 =>
          versions'[m] <= Len(hist[m]) /\ listed'[m] = hist[m][versions'[m]] /\ at[m] <= versions'[m]
    BY <1>0, <1>1, <1>2, <1>3, Facts DEF ListInv, CoreInv
  <2>2. pc' = "begin" => \A m \in Namespaces : versions'[m] # 0 BY <1>1, <1>2, <1>3, Facts
  <2> QED BY <1>0, <1>1, <2>1, <2>2 DEF ListInv, round, checks, stream, core, InSession
<1>6. RoundInv' BY <1>1 DEF RoundInv
<1> QED BY <1>0, <1>1, <1>4, <1>5, <1>6, HistRests, CoreRests DEF ObserverInv, core

\* The session ends, and with it everything that its invariant speaks of.
LEMMA ExitStep ==
    ASSUME ObserverInv, ListFails \/ TooLarge \/ WatchFails \/ SelectFailure \/ SelectTimer \/ (Check /\ failed)
    PROVE  ObserverInv'
<1>0. TypeOK /\ HistInv /\ ListInv /\ RoundInv /\ CoreInv BY DEF ObserverInv
<1>1. /\ pc \notin {"closed", "ended"} /\ pc' = "stop" /\ result' \in {"none", "unavailable", "invalid"}
      /\ UNCHANGED <<hist, versions, listed, round, checks, stream, core>> /\ faults' \in 0..MaxFaults
  BY <1>0, Facts DEF ListFails, TooLarge, WatchFails, SelectFailure, SelectTimer, Check, Resync, Exit, Fault, TypeOK
<1>2. TypeOK' BY <1>0, <1>1 DEF TypeOK, round, checks, stream, core
<1>3. ListInv' BY <1>0, <1>1 DEF ListInv, stream, InSession
<1>4. RoundInv' BY <1>1 DEF RoundInv
<1> QED BY <1>0, <1>1, <1>2, <1>3, <1>4, HistRests, CoreRests DEF ObserverInv, core

LEMMA SnapshotStep == ASSUME ObserverInv, SnapshotBegin \/ SnapshotObjects \/ SnapshotEnd PROVE ObserverInv'
<1>0. TypeOK /\ HistInv /\ ListInv /\ RoundInv /\ CoreInv BY DEF ObserverInv
<1>1. UNCHANGED <<hist, versions, listed, round, checks, stream, faults>> /\ pc \in {"begin", "objects", "end"}
  BY DEF SnapshotBegin, SnapshotObjects, SnapshotEnd
<1>2. CASE link = "up"
  <2>1. UNCHANGED result BY <1>2 DEF SnapshotBegin, SnapshotObjects, SnapshotEnd, Send, Goto
  <2>2. CASE SnapshotBegin
    <3>1. pc = "begin" /\ pc' = "objects" /\ pending' = Empty /\ UNCHANGED <<view, health, at>>
      BY <1>2, <2>2 DEF SnapshotBegin, Send, Goto
    <3>2. TypeOK' BY <1>0, <1>1, <2>1, <3>1, Facts DEF TypeOK, round, checks, stream
    <3>3. ListInv' BY <1>0, <1>1, <3>1 DEF ListInv, round, checks, stream, InSession
    <3>4. RoundInv' BY <3>1 DEF RoundInv
    <3> QED BY <1>0, <1>1, <3>1, <3>2, <3>3, <3>4, HistRests, CoreRests DEF ObserverInv
  <2>3. CASE SnapshotObjects
    <3>1. pc = "objects" /\ pc' = "end" /\ pending' = listed /\ UNCHANGED <<view, health, at>>
      BY <1>2, <2>3 DEF SnapshotObjects, Send, Goto
    <3>2. TypeOK' BY <1>0, <1>1, <2>1, <3>1 DEF TypeOK, round, checks, stream
    <3>3. ListInv' BY <1>0, <1>1, <3>1 DEF ListInv, round, checks, stream, InSession
    <3>4. RoundInv' BY <3>1 DEF RoundInv
    <3> QED BY <1>0, <1>1, <3>1, <3>2, <3>3, <3>4, HistRests, CoreRests DEF ObserverInv
  <2>4. CASE SnapshotEnd
    <3>1. /\ pc = "end" /\ pc' = "watch" /\ view' = pending /\ at' = versions /\ pending' = Empty
          /\ health' = [n \in Namespaces |-> [d \in Names |-> 0]]
      BY <1>2, <2>4 DEF SnapshotEnd, Send, Goto
    <3>2. TypeOK' BY <1>0, <1>1, <2>1, <3>1, Facts DEF TypeOK, round, checks, stream
    <3>3. ListInv'
      <4>1. \A n \in Namespaces : at'[n] <= versions[n] BY <1>0, <3>1 DEF TypeOK
      <4> QED BY <1>0, <1>1, <3>1, <4>1 DEF ListInv, round, checks, stream, InSession
    <3>4. RoundInv' BY <3>1 DEF RoundInv
    <3>5. CoreInv'
      <4>1. \A n \in Namespaces : versions[n] # 0 /\ versions[n] <= Len(hist[n]) /\ view'[n] = hist[n][versions[n]]
        BY <1>0, <1>2, <3>1 DEF ListInv
      <4> QED BY <1>1, <3>1, <4>1 DEF CoreInv, ConsistentView
    <3> QED BY <1>0, <1>1, <3>2, <3>3, <3>4, <3>5, HistRests DEF ObserverInv
  <2> QED BY <2>2, <2>3, <2>4
<1>3. CASE link # "up"
  <2>1. /\ UNCHANGED <<pending, view, health, at>>
        /\ \/ pc = "begin" /\ pc' = "objects" /\ UNCHANGED result
           \/ pc = "objects" /\ pc' = "end" /\ UNCHANGED result
           \/ pc = "end" /\ pc' = "watch" /\ UNCHANGED result
           \/ link = "down" /\ pc' = "stop" /\ result' = events
    BY <1>0, <1>3 DEF TypeOK, SnapshotBegin, SnapshotObjects, SnapshotEnd, Send, Goto, Exit, core
  <2>2. result' \in {"none", "unavailable", "invalid"} BY <1>0, <1>1, <2>1 DEF TypeOK, ListInv, InSession
  <2>3. TypeOK' BY <1>0, <1>1, <2>1, <2>2 DEF TypeOK, round, checks, stream
  <2>4. ListInv' BY <1>0, <1>1, <1>3, <2>1 DEF ListInv, round, checks, stream, InSession
  <2>5. RoundInv' BY <1>1, <2>1 DEF RoundInv
  <2> QED BY <1>0, <1>1, <2>1, <2>3, <2>4, <2>5, HistRests, CoreRests DEF ObserverInv
<1> QED BY <1>2, <1>3

LEMMA WatchStep == ASSUME ObserverInv, Watch PROVE ObserverInv'
<1>0. TypeOK /\ HistInv /\ ListInv /\ RoundInv /\ CoreInv BY DEF ObserverInv
<1>1. /\ pc = "watch" /\ pc' = "loop" /\ watching' = Namespaces /\ pos' = versions /\ overdue' = FALSE /\ known' = listed
      /\ UNCHANGED <<result, hist, versions, listed, updates, failed, probes, results, stream, core, faults>>
  BY DEF Watch, Goto
<1>2. TypeOK' BY <1>0, <1>1 DEF TypeOK, stream, core
<1>3. ListInv' BY <1>0, <1>1 DEF ListInv, stream, core, InSession
<1>4. versions \in [Namespaces -> 1..MaxVersion] /\ \A n \in Namespaces : versions[n] <= Len(hist[n]) /\ listed[n] = hist[n][versions[n]]
  BY <1>0, <1>1, Facts DEF TypeOK, ListInv
<1>5. updates = <<>> /\ (link = "up" => at = versions) BY <1>0, <1>1 DEF ListInv
<1>6. Channel(updates, versions, versions)'
  <2>1. Len(updates') = 0 BY <1>1, <1>5
  <2>2. \A n \in Namespaces : (versions'[n] + 1)..versions'[n] = {} BY <1>1, <1>4, Facts
  <2> QED BY <2>1, <2>2 DEF Channel
<1>7. Follows(versions, versions)' BY <1>1, <1>4, <1>5, <1>6, Facts DEF Follows, stream, core
<1>8. RoundInv' BY <1>1, <1>4, <1>7 DEF RoundInv
<1> QED BY <1>0, <1>1, <1>2, <1>3, <1>8, HistRests, CoreRests DEF ObserverInv, core

--------------------------------------------------------------------------------
(* A round                                                                  *)

\* What the round has applied of a namespace is one of its versions.
LEMMA KnownFacts ==
    ASSUME ObserverInv, pc \in Rounds, NEW n \in Namespaces, NEW d \in Names
    PROVE  known[n][d] \in Deployment /\ (known[n][d].uid # 0 => known[n][d].rv # 0)
<1>1. HistInv /\ RoundInv BY DEF ObserverInv
<1>2. PICK cur, last \in [Namespaces -> 1..MaxVersion] : Follows(cur, last) BY <1>1 DEF RoundInv
<1>3. known[n] = hist[n][cur[n]] /\ cur[n] \in 1..Len(hist[n]) BY <1>1, <1>2, LatestFacts, Facts DEF Follows
<1> QED BY <1>1, <1>3, HistFacts DEF Dated

Event == [ns : Namespaces, version : 1..MaxVersion]

LEMMA EventFacts == \A e \in Event : e.ns \in Namespaces /\ e.version \in Nat /\ e.version \in 1..MaxVersion
  BY Facts DEF Event

LEMMA Enqueue ==
    ASSUME NEW q \in Seq(Event),
           NEW cur \in [Namespaces -> 1..MaxVersion], NEW last \in [Namespaces -> 1..MaxVersion],
           NEW n \in Namespaces, cur[n] <= last[n], last[n] < MaxVersion, Channel(q, cur, last)
    PROVE  Channel(Append(q, [ns |-> n, version |-> last[n] + 1]), cur, [last EXCEPT ![n] = last[n] + 1])
<1> DEFINE e == [ns |-> n, version |-> last[n] + 1]  to == [last EXCEPT ![n] = last[n] + 1]  p == Append(q, e)
<1>0. e \in Event /\ e.ns = n /\ e.version = last[n] + 1 BY Facts DEF Event
<1> HIDE DEF e
<1>1. /\ Len(q) \in Nat /\ Len(p) = Len(q) + 1 /\ p[Len(q) + 1] = e
      /\ \A k \in 1..Len(q) : p[k] = q[k] /\ q[k].ns \in Namespaces /\ q[k].version \in Nat
  <2>1. \A k \in 1..Len(q) : q[k] \in Event OBVIOUS
  <2>2. /\ Len(q) \in Nat /\ Len(p) = Len(q) + 1 /\ p[Len(q) + 1] = e
        /\ \A k \in 1..Len(q) : p[k] = q[k]
    BY <1>0
  <2> QED BY <2>1, <2>2, EventFacts
<1>2. to[n] = last[n] + 1 /\ \A m \in Namespaces : m # n => to[m] = last[m] OBVIOUS
<1>3. \A m \in Namespaces : cur[m] \in Nat /\ last[m] \in Nat BY Facts
<1>4. \A m \in Namespaces : to[m] \in Nat /\ last[m] <= to[m] BY <1>2, <1>3
<1>5. \A k \in 1..Len(p) : k \in 1..Len(q) \/ k = Len(q) + 1 BY <1>1
<1> HIDE DEF p, to
<1>6. ASSUME NEW k \in 1..Len(p) PROVE p[k].version \in (cur[p[k].ns] + 1)..to[p[k].ns]
  <2>1. CASE k \in 1..Len(q)
    <3>1. q[k].version \in (cur[q[k].ns] + 1)..last[q[k].ns] BY <2>1 DEF Channel
    <3> QED BY <1>1, <1>3, <1>4, <2>1, <3>1
  <2>2. CASE k = Len(q) + 1 BY <1>0, <1>1, <1>2, <1>3, <2>2
  <2> QED BY <1>5, <2>1, <2>2
<1>7. ASSUME NEW j \in 1..Len(p), NEW k \in 1..Len(p), j < k, p[j].ns = p[k].ns PROVE p[j].version < p[k].version
  <2>1. j \in 1..Len(q) BY <1>1, <1>7
  <2>2. CASE k \in 1..Len(q) BY <1>1, <1>7, <2>1, <2>2 DEF Channel
  <2>3. CASE k = Len(q) + 1
    <3>1. q[j].ns = n BY <1>0, <1>1, <1>7, <2>1, <2>3
    <3>2. q[j].version \in (cur[n] + 1)..last[n] BY <2>1, <3>1 DEF Channel
    <3> QED BY <1>0, <1>1, <1>3, <2>1, <2>3, <3>2
  <2> QED BY <1>5, <2>2, <2>3
<1>8. ASSUME NEW m \in Namespaces, NEW v \in (cur[m] + 1)..to[m]
      PROVE  \E k \in 1..Len(p) : p[k].ns = m /\ p[k].version = v
  <2>1. CASE v \in (cur[m] + 1)..last[m]
    <3>1. PICK k \in 1..Len(q) : q[k].ns = m /\ q[k].version = v BY <2>1 DEF Channel
    <3>2. k \in 1..Len(p) BY <1>1
    <3> QED BY <1>1, <3>1, <3>2
  <2>2. CASE v \notin (cur[m] + 1)..last[m]
    <3>1. m = n /\ v = last[n] + 1 BY <1>2, <1>3, <2>2
    <3>2. Len(q) + 1 \in 1..Len(p) BY <1>1
    <3> QED BY <1>0, <1>1, <3>1, <3>2
  <2> QED BY <2>1, <2>2
<1>9. Channel(p, cur, to) BY <1>6, <1>7, <1>8 DEF Channel
<1> QED BY <1>9 DEF p, to, e

\* The head of the channel is the version after the one applied last.
LEMMA Dequeue ==
    ASSUME NEW q \in Seq(Event), q # <<>>,
           NEW cur \in [Namespaces -> 1..MaxVersion], NEW last \in [Namespaces -> 1..MaxVersion],
           Channel(q, cur, last), NEW n, NEW v, n = Head(q).ns, v = Head(q).version
    PROVE  /\ n \in Namespaces /\ v = cur[n] + 1 /\ v <= last[n]
           /\ Channel(Tail(q), [cur EXCEPT ![n] = v], last)
<1> DEFINE to == [cur EXCEPT ![n] = v]  p == Tail(q)
<1>1. /\ Len(q) \in Nat /\ Len(q) > 0 /\ 1 \in 1..Len(q) /\ Head(q) = q[1] /\ q[1].ns = n /\ q[1].version = v
      /\ \A k \in 1..Len(q) : q[k].ns \in Namespaces /\ q[k].version \in Nat
  <2>1. \A k \in 1..Len(q) : q[k] \in Event OBVIOUS
  <2>2. Len(q) \in Nat /\ Len(q) > 0 /\ Head(q) = q[1] OBVIOUS
  <2> QED BY <2>1, <2>2, EventFacts
<1>2. Len(p) = Len(q) - 1 /\ \A k \in 1..Len(p) : p[k] = q[k + 1] /\ k + 1 \in 1..Len(q) BY <1>1
<1>3. \A m \in Namespaces : cur[m] \in Nat /\ last[m] \in Nat BY Facts
<1>4. n \in Namespaces /\ v \in Nat BY <1>1
<1>5. v = cur[n] + 1 /\ v <= last[n]
  <2>1. v \in (cur[n] + 1)..last[n] BY <1>1 DEF Channel
  <2>2. SUFFICES ASSUME v # cur[n] + 1 PROVE FALSE BY <1>3, <1>4, <2>1
  <2>3. cur[n] + 1 \in (cur[n] + 1)..last[n] /\ cur[n] + 1 < v BY <1>3, <1>4, <2>1, <2>2
  <2>4. PICK k \in 1..Len(q) : q[k].ns = n /\ q[k].version = cur[n] + 1 BY ZenonT(60), <1>4, <2>3 DEF Channel
  <2>5. 1 < k BY <1>1, <2>2, <2>4
  <2>6. q[1].version < q[k].version BY <1>1, <2>4, <2>5 DEF Channel
  <2> QED BY <1>1, <1>3, <1>4, <2>3, <2>4, <2>6
<1>6. to[n] = v /\ \A m \in Namespaces : m # n => to[m] = cur[m] BY <1>4
<1> HIDE DEF p, to
<1>7. ASSUME NEW k \in 1..Len(p) PROVE p[k].version \in (to[p[k].ns] + 1)..last[p[k].ns]
  <2>1. q[k + 1].version \in (cur[q[k + 1].ns] + 1)..last[q[k + 1].ns] BY <1>2 DEF Channel
  <2>2. q[k + 1].ns \in Namespaces /\ q[k + 1].version \in Nat /\ k + 1 \in 1..Len(q) /\ 1 < k + 1 BY <1>1, <1>2
  <2>3. q[k + 1].ns = n => v < q[k + 1].version BY <1>1, <2>2 DEF Channel
  <2> DEFINE m == q[k + 1].ns  w == q[k + 1].version
  <2>4. p[k].ns = m /\ p[k].version = w BY <1>2
  <2> HIDE DEF m, w
  <2>5. m \in Namespaces /\ w \in Nat /\ w \in (cur[m] + 1)..last[m] /\ (m = n => v < w) BY <2>1, <2>2, <2>3 DEF m, w
  <2>6. w \in (to[m] + 1)..last[m] BY <1>3, <1>4, <1>6, <2>5
  <2> QED BY <2>4, <2>6
<1>8. ASSUME NEW j \in 1..Len(p), NEW k \in 1..Len(p), j < k, p[j].ns = p[k].ns PROVE p[j].version < p[k].version
  <2>1. j + 1 \in 1..Len(q) /\ k + 1 \in 1..Len(q) /\ j + 1 < k + 1 /\ p[j] = q[j + 1] /\ p[k] = q[k + 1] BY <1>2, <1>8
  <2> QED BY <1>8, <2>1 DEF Channel
<1>9. ASSUME NEW m \in Namespaces, NEW w \in (to[m] + 1)..last[m]
      PROVE  \E k \in 1..Len(p) : p[k].ns = m /\ p[k].version = w
  <2>1. w \in (cur[m] + 1)..last[m] /\ (m = n => w # v) BY <1>3, <1>4, <1>5, <1>6
  <2>2. PICK k \in 1..Len(q) : q[k].ns = m /\ q[k].version = w BY <2>1 DEF Channel
  <2>3. k # 1 BY <1>1, <2>1, <2>2
  <2>4. k - 1 \in 1..Len(p) /\ p[k - 1] = q[k] BY <1>1, <1>2, <2>3
  <2> QED BY <2>2, <2>4
<1>10. Channel(p, to, last) BY <1>7, <1>8, <1>9 DEF Channel
<1> QED BY <1>4, <1>5, <1>10 DEF p, to

LEMMA DeliverStep == ASSUME ObserverInv, NEW n \in Namespaces, Deliver(n) \/ WatchEnds(n) PROVE ObserverInv'
<1>0. TypeOK /\ HistInv /\ ListInv /\ RoundInv /\ CoreInv BY DEF ObserverInv
<1>1. n \in watching /\ UNCHANGED <<hist, pc, result, versions, listed, overdue, checks, stream, core>>
  BY DEF Deliver, WatchEnds
<1>2. pc \in Rounds \cup {"stop"} BY <1>0, <1>1 DEF ListInv
<1>3. ListInv' BY <1>0, <1>1, <1>2 DEF ListInv, stream, core, InSession
<1>4. CASE WatchEnds(n)
  <2>1. failed' = TRUE /\ watching' \subseteq watching /\ UNCHANGED <<pos, updates>> /\ faults' \in 0..MaxFaults
    BY <1>0, <1>4, Facts DEF WatchEnds, Fail, Fault, TypeOK
  <2>2. TypeOK' BY <1>0, <1>1, <2>1 DEF TypeOK, checks, stream, core
  <2>3. RoundInv' BY <1>0, <1>1, <2>1, RoundRests DEF checks, stream, core
  <2> QED BY <1>0, <1>1, <1>3, <2>2, <2>3, HistRests, CoreRests DEF ObserverInv, core
<1>5. CASE Deliver(n)
  <2>1. /\ pos[n] < Len(hist[n]) /\ pos' = [pos EXCEPT ![n] = pos[n] + 1] /\ UNCHANGED faults
        /\ \/ /\ Len(updates) < QueueCap /\ updates' = Append(updates, [ns |-> n, version |-> pos[n] + 1])
              /\ UNCHANGED <<failed, watching>>
           \/ failed' = TRUE /\ watching' = watching \ {n} /\ UNCHANGED updates
    BY <1>5 DEF Deliver, Fail
  <2>2. pos[n] \in Nat /\ pos[n] + 1 \in 1..MaxVersion /\ Len(hist[n]) \in Nat BY <1>0, <2>1, LatestFacts, Facts DEF TypeOK
  <2>3. pos' \in [Namespaces -> 0..MaxVersion] BY <1>0, <2>1, <2>2, Facts DEF TypeOK
  <2>4. updates \in Seq([ns : Namespaces, version : 1..MaxVersion]) /\ Len(updates) \in Nat /\ Len(updates) <= QueueCap
    BY <1>0 DEF TypeOK
  <2>5. updates' \in Seq([ns : Namespaces, version : 1..MaxVersion]) /\ Len(updates') <= QueueCap
    <3> DEFINE e == [ns |-> n, version |-> pos[n] + 1]
    <3>1. e \in Event BY <2>2 DEF Event
    <3>2. updates' = updates \/ (updates' = Append(updates, e) /\ Len(updates) < QueueCap) BY <2>1
    <3> HIDE DEF e
    <3>3. updates \in Seq(Event) /\ Len(updates) \in Nat /\ Len(updates) <= QueueCap BY <2>4 DEF Event
    <3>4. updates' \in Seq(Event) /\ Len(updates') <= QueueCap BY <3>1, <3>2, <3>3, Facts
    <3> QED BY <3>4 DEF Event
  <2>6. TypeOK' BY ZenonT(60), <1>0, <1>1, <2>1, <2>3, <2>5 DEF TypeOK, checks, stream, core
  <2>7. RoundInv'
    <3> SUFFICES ASSUME NEW cur \in [Namespaces -> 1..MaxVersion], NEW last \in [Namespaces -> 1..MaxVersion],
                        Follows(cur, last)
                 PROVE  \E to \in [Namespaces -> 1..MaxVersion] : Follows(cur, to)'
      BY <1>0, <1>1 DEF RoundInv
    <3>1. pos[n] = last[n] BY <1>1 DEF Follows
    <3>2. CASE watching' = watching \ {n} /\ UNCHANGED updates
      <4>1. \A m \in watching' : m \in watching /\ pos'[m] = pos[m]
        <5>1. pos \in [Namespaces -> 0..MaxVersion] /\ watching \subseteq Namespaces BY <1>0 DEF TypeOK
        <5>2. \A m \in Namespaces : m # n => pos'[m] = pos[m] BY <2>1, <5>1
        <5> QED BY <3>2, <5>1, <5>2
      <4>2. updates' = updates /\ Channel(updates, cur, last) BY <3>2 DEF Follows
      <4>3. Follows(cur, last)' BY <1>1, <4>1, <4>2 DEF Follows, checks, stream, core
      <4> QED BY <4>3
    <3>3. CASE updates' = Append(updates, [ns |-> n, version |-> pos[n] + 1]) /\ UNCHANGED watching
      <4> DEFINE to == [last EXCEPT ![n] = last[n] + 1]
      <4>1. /\ to \in [Namespaces -> 1..MaxVersion] /\ to[n] = pos[n] + 1
            /\ \A m \in Namespaces : m # n => to[m] = last[m]
        BY <2>2, <3>1
      <4>2. cur[n] <= last[n] /\ Channel(updates, cur, last) BY DEF Follows
      <4>3. Channel(updates', cur, to)
        <5>1. last[n] < MaxVersion /\ updates \in Seq(Event) BY <2>2, <2>4, <3>1, Facts DEF Event
        <5>2. updates' = Append(updates, [ns |-> n, version |-> last[n] + 1]) BY <3>1, <3>3
        <5>3. Channel(Append(updates, [ns |-> n, version |-> last[n] + 1]), cur, to) BY <4>2, <5>1, Enqueue
        <5> QED BY <5>2, <5>3
      <4> HIDE DEF to
      <4>4. ASSUME NEW m \in Namespaces
            PROVE  /\ 1 <= cur[m] /\ cur[m] <= to[m] /\ to[m] <= Len(hist[m])
                   /\ m \in watching => pos'[m] = to[m]
        <5>1. /\ 1 <= cur[m] /\ cur[m] <= last[m] /\ last[m] <= Len(hist[m]) /\ (m \in watching => pos[m] = last[m])
              /\ cur[m] \in Nat /\ last[m] \in Nat
          BY Facts DEF Follows
        <5>2. CASE m = n BY <1>0, <2>1, <2>2, <3>1, <4>1, <5>1, <5>2 DEF TypeOK
        <5>3. CASE m # n BY <1>0, <2>1, <4>1, <5>1, <5>3 DEF TypeOK
        <5> QED BY <5>2, <5>3
      <4>5. Channel(updates, cur, to)' BY <4>3
      <4>6. Follows(cur, to)' BY <1>1, <3>3, <4>4, <4>5 DEF Follows, checks, stream, core
      <4> QED BY <4>1, <4>6
    <3> QED BY <2>1, <3>2, <3>3
  <2> QED BY <1>0, <1>1, <1>3, <2>6, <2>7, HistRests, CoreRests DEF ObserverInv, core
<1> QED BY <1>4, <1>5

LEMMA ProbeStep ==
    ASSUME ObserverInv, (\E t \in Targets : BeginProbe(t)) \/ (\E p \in probes : EndProbe(p))
    PROVE  ObserverInv'
<1>0. TypeOK /\ HistInv /\ ListInv /\ RoundInv /\ CoreInv BY DEF ObserverInv
<1>1. UNCHANGED <<hist, pc, result, versions, listed, round, known, stream, core, faults>> BY DEF BeginProbe, EndProbe
<1>2. pc \in Rounds \cup {"stop"} BY <1>0 DEF BeginProbe, EndProbe, ListInv
<1>3. /\ probes' \subseteq [target : Targets, rv : 1..MaxVersion]
      /\ results' \in Seq([target : Targets, rv : 1..MaxVersion]) /\ Len(results') <= Cardinality(Targets)
  <2>1. ASSUME NEW t \in Targets, BeginProbe(t)
        PROVE  /\ probes' \subseteq [target : Targets, rv : 1..MaxVersion] /\ results' = results
    <3> DEFINE o == known[t.ns][t.name]
    <3>1. o \in Deployment /\ (o.uid # 0 => o.rv # 0) BY <2>1, KnownFacts, Facts DEF BeginProbe
    <3>2. o.uid = t.uid /\ t.uid \in 1..MaxVersion BY <2>1, Facts DEF BeginProbe, Eligible
    <3> HIDE DEF o
    <3>3. o.rv \in 1..MaxVersion BY <3>1, <3>2, Facts DEF Deployment
    <3>4. probes' = probes \cup {[target |-> t, rv |-> o.rv]} /\ results' = results BY <2>1 DEF BeginProbe, o
    <3> QED BY <1>0, <3>3, <3>4 DEF TypeOK
  <2>2. ASSUME NEW p \in probes, EndProbe(p)
        PROVE  /\ probes' \subseteq [target : Targets, rv : 1..MaxVersion]
               /\ results' \in Seq([target : Targets, rv : 1..MaxVersion]) /\ Len(results') <= Cardinality(Targets)
    <3>1. p \in [target : Targets, rv : 1..MaxVersion] /\ results \in Seq([target : Targets, rv : 1..MaxVersion])
      BY <1>0 DEF TypeOK
    <3>2. probes' \subseteq probes BY <2>2 DEF EndProbe
    <3>3. CASE Len(results) < Cardinality(Targets)
      <4>1. results' = Append(results, p) BY <2>2, <3>3 DEF EndProbe
      <4> QED BY <1>0, <3>1, <3>2, <3>3, <4>1, Facts DEF TypeOK
    <3>4. CASE ~(Len(results) < Cardinality(Targets))
      <4>1. results' = results BY <2>2, <3>4 DEF EndProbe
      <4> QED BY <1>0, <3>2, <4>1 DEF TypeOK
    <3> QED BY <3>3, <3>4
  <2> QED BY <1>0, <2>1, <2>2 DEF TypeOK
<1>4. TypeOK' BY <1>0, <1>1, <1>3 DEF TypeOK, round, stream, core
<1>5. ListInv' BY <1>0, <1>1, <1>2 DEF ListInv, round, stream, core, InSession
<1>6. RoundInv' BY <1>0, <1>1, RoundRests DEF round, stream, core
<1> QED BY <1>0, <1>1, <1>4, <1>5, <1>6, HistRests, CoreRests DEF ObserverInv, core

\* The selects that change nothing but where the session is.
LEMMA SelectStep == ASSUME ObserverInv, (Check /\ ~failed) \/ SelectEvent \/ SelectHeartbeat PROVE ObserverInv'
<1>0. TypeOK /\ HistInv /\ ListInv /\ RoundInv /\ CoreInv BY DEF ObserverInv
<1>1. /\ UNCHANGED <<hist, versions, listed, round, checks, link, core, faults>> /\ pc \in Rounds
      /\ pc' \in Rounds \cup {"stop"}
      /\ \/ UNCHANGED events
         \/ link # "down" /\ events' = "empty"
  BY DEF Check, SelectEvent, SelectHeartbeat, Resync, Exit, Goto, Send, stream, core
<1>2. result' \in {"none", "unavailable", "invalid"}
  BY <1>0 DEF Check, SelectEvent, SelectHeartbeat, Resync, Exit, Goto, Send, TypeOK, ListInv, InSession
<1>3. TypeOK' BY <1>0, <1>1, <1>2 DEF TypeOK, round, checks, core
<1>4. ListInv' BY <1>0, <1>1 DEF ListInv, round, checks, core, InSession
<1>5. RoundInv' BY <1>0, <1>1, RoundRests DEF round, checks, core
<1> QED BY <1>0, <1>1, <1>3, <1>4, <1>5, HistRests, CoreRests DEF ObserverInv, core

LEMMA StopStep == ASSUME ObserverInv, Stop PROVE ObserverInv'
<1>0. TypeOK /\ HistInv /\ ListInv /\ RoundInv /\ CoreInv BY DEF ObserverInv
<1>1. /\ pc = "stop" /\ pc' \in {"list", "closed", "ended"} /\ result' = "none"
      /\ versions' = [n \in Namespaces |-> 0] /\ listed' = Empty /\ UNCHANGED <<hist, pos, stream, core, faults>>
      /\ watching' = {} /\ updates' = <<>> /\ failed' = FALSE /\ overdue' = FALSE
      /\ known' = Empty /\ probes' = {} /\ results' = <<>>
  BY DEF Stop
<1>2. TypeOK'
  <2>1. \A S : <<>> \in Seq(S) /\ Len(<<>>) = 0 OBVIOUS
  <2>2. versions' \in [Namespaces -> 0..MaxVersion] BY <1>1, Facts
  <2>3. Len(updates') <= QueueCap /\ Len(results') <= Cardinality(Targets) BY <1>1, <2>1, Facts
  <2> QED BY <1>0, <1>1, <2>1, <2>2, <2>3, Facts DEF TypeOK, stream, core
<1>3. ListInv' BY <1>0, <1>1 DEF ListInv, stream, InSession
<1>4. RoundInv' BY <1>1 DEF RoundInv
<1> QED BY <1>0, <1>1, <1>2, <1>3, <1>4, HistRests, CoreRests DEF ObserverInv, core

LEMMA WorldStep == ASSUME ObserverInv, Minute \/ Hint \/ ReadEnds \/ Cut \/ UNCHANGED vars PROVE ObserverInv'
<1>0. TypeOK /\ HistInv /\ ListInv /\ RoundInv /\ CoreInv BY DEF ObserverInv
<1>1. /\ UNCHANGED <<hist, pc, result, versions, listed, watching, pos, updates, failed, checks, view, health, at>>
      /\ overdue' \in BOOLEAN /\ pending' \in {pending, Empty} /\ faults' \in 0..MaxFaults
      /\ link' \in {"up", "cut", "down"} /\ (link' = "up" => link = "up" /\ UNCHANGED pending)
      /\ events' \in {"empty", "resync", "unavailable", "invalid"}
      /\ link' = "down" => \/ UNCHANGED <<link, events>>
                           \/ events' \in {"unavailable", "invalid"}
  <2>1. \A kind : Fault(kind) => faults' \in 0..MaxFaults BY <1>0, Facts DEF Fault, TypeOK
  <2>2. CASE Minute BY <1>0, <2>2 DEF Minute, TypeOK, stream, core
  <2>3. CASE Hint BY <1>0, <2>3 DEF Hint, TypeOK, core, round
  <2>4. CASE ReadEnds BY <1>0, <2>1, <2>4 DEF ReadEnds, TypeOK, round
  <2>5. CASE Cut BY <1>0, <2>1, <2>5 DEF Cut, TypeOK, round
  <2>6. CASE UNCHANGED vars BY <1>0, <2>6 DEF vars, TypeOK, round, stream, core
  <2> QED BY <2>2, <2>3, <2>4, <2>5, <2>6
<1>2. TypeOK' BY <1>0, <1>1, Facts DEF TypeOK, checks
<1>3. ListInv' BY <1>0, <1>1 DEF ListInv, checks, InSession
<1>4. RoundInv' BY <1>0, <1>1, RoundRests DEF checks
<1> QED BY <1>0, <1>1, <1>2, <1>3, <1>4, HistRests, CoreRests DEF ObserverInv

LEMMA RestartStep == ASSUME ObserverInv, CoreRestart PROVE ObserverInv'
<1>0. TypeOK /\ HistInv /\ ListInv /\ RoundInv /\ CoreInv BY DEF ObserverInv
<1>1. /\ UNCHANGED <<hist, pc, result, versions, listed, round, checks, events>> /\ faults' \in 0..MaxFaults
      /\ pending' = Empty /\ view' = Empty /\ at' = [n \in Namespaces |-> 0]
      /\ health' = [n \in Namespaces |-> [d \in Names |-> 0]]
      /\ link' \in {"cut", "down"} /\ (link' = "down" => link = "down")
  BY <1>0, Facts DEF CoreRestart, Fault, TypeOK
<1>2. TypeOK' BY <1>0, <1>1, Facts DEF TypeOK, round, checks
<1>3. ListInv'
  <2>1. \A n \in Namespaces : at'[n] = 0 /\ 0 <= versions[n] BY <1>0, <1>1 DEF TypeOK
  <2> QED BY <1>0, <1>1, <2>1 DEF ListInv, round, checks, InSession
<1>4. RoundInv' BY <1>0, <1>1, RoundRests DEF round, checks
<1>5. CoreInv' BY SMTT(40), <1>0, <1>1, LatestFacts, Facts DEF CoreInv, ConsistentView, Empty
<1> QED BY <1>0, <1>1, <1>2, <1>3, <1>4, <1>5, HistRests DEF ObserverInv

\* The next event brings the round, and Core if the stream is up, to the version after.
LEMMA UpdateFacts ==
    ASSUME ObserverInv, SelectUpdate, NEW n, NEW v, n = Head(updates).ns, v = Head(updates).version,
           NEW cur \in [Namespaces -> 1..MaxVersion], NEW last \in [Namespaces -> 1..MaxVersion], Follows(cur, last)
    PROVE  /\ n \in Namespaces /\ v = cur[n] + 1 /\ v \in 2..Len(hist[n]) /\ v <= last[n] /\ v \in 1..MaxVersion
           /\ Channel(Tail(updates), [cur EXCEPT ![n] = v], last)
           /\ Applied(known[n], n, v) = hist[n][v] /\ Changed(n, v) \in Names /\ hist[n][v] \in Inventory
           /\ \A e \in Names : e # Changed(n, v) => hist[n][v][e] = known[n][e]
<1>0. TypeOK /\ HistInv BY DEF ObserverInv
<1>1. updates \in Seq(Event) /\ updates # <<>> BY <1>0 DEF TypeOK, Event, SelectUpdate
<1>2. Channel(updates, cur, last) BY DEF Follows
<1>3. n \in Namespaces /\ v = cur[n] + 1 /\ v <= last[n] /\ Channel(Tail(updates), [cur EXCEPT ![n] = v], last)
  BY <1>1, <1>2, Dequeue
<1>4. /\ 1 <= cur[n] /\ last[n] <= Len(hist[n]) /\ known[n] = hist[n][cur[n]] /\ cur[n] \in Nat /\ last[n] \in Nat
      /\ Len(hist[n]) \in 1..MaxVersion
  BY <1>0, <1>3, LatestFacts, Facts DEF Follows
<1>5. v \in 2..Len(hist[n]) /\ v - 1 = cur[n] /\ v \in 1..MaxVersion /\ v \in 1..Len(hist[n]) BY SMTT(40), <1>3, <1>4, Facts
<1>6. hist[n][v] \in Inventory BY <1>0, <1>3, <1>5, HistFacts
<1>7. /\ Applied(hist[n][v - 1], n, v) = hist[n][v] /\ Changed(n, v) \in Names
      /\ \A e \in Names : e # Changed(n, v) => hist[n][v][e] = hist[n][v - 1][e]
  BY <1>0, <1>3, <1>5, EventApplies
<1>8. hist[n][v - 1] = known[n] BY <1>4, <1>5
<1> QED BY <1>3, <1>5, <1>6, <1>7, <1>8

LEMMA HealthType ==
    ASSUME NEW h \in [Namespaces -> [Names -> 0..MaxVersion]], NEW n \in Namespaces, NEW d \in Names, NEW v \in 0..MaxVersion
    PROVE  [h EXCEPT ![n][d] = v] \in [Namespaces -> [Names -> 0..MaxVersion]]
<1>1. [h[n] EXCEPT ![d] = v] \in [Names -> 0..MaxVersion] OBVIOUS
<1> QED BY <1>1

LEMMA UpdateStep == ASSUME ObserverInv, SelectUpdate PROVE ObserverInv'
<1>0. TypeOK /\ HistInv /\ ListInv /\ RoundInv /\ CoreInv BY DEF ObserverInv
<1>1. pc = "select" BY DEF SelectUpdate
<1>2. PICK cur, last \in [Namespaces -> 1..MaxVersion] : Follows(cur, last) BY <1>0, <1>1 DEF RoundInv
<1>n. PICK n, v : n = Head(updates).ns /\ v = Head(updates).version OBVIOUS
<1> DEFINE d == Changed(n, v)
<1>3. /\ n \in Namespaces /\ v = cur[n] + 1 /\ v \in 2..Len(hist[n]) /\ v <= last[n] /\ v \in 1..MaxVersion
      /\ Channel(Tail(updates), [cur EXCEPT ![n] = v], last)
      /\ Applied(known[n], n, v) = hist[n][v] /\ d \in Names /\ hist[n][v] \in Inventory
      /\ \A e \in Names : e # d => hist[n][v][e] = known[n][e]
  BY <1>2, <1>n, UpdateFacts
<1>4. /\ updates # <<>> /\ updates' = Tail(updates) /\ known' = [known EXCEPT ![n] = Applied(known[n], n, v)]
      /\ \/ /\ link = "up" /\ pc' = "loop" /\ UNCHANGED <<result, pending>>
            /\ view' = [view EXCEPT ![n] = Applied(view[n], n, v)]
            /\ health' = [health EXCEPT ![n][d] = 0]
            /\ at' = [at EXCEPT ![n] = v]
         \/ link = "cut" /\ pc' = "loop" /\ UNCHANGED <<result, pending, view, health, at>>
         \/ link = "down" /\ pc' = "stop" /\ result' = events /\ UNCHANGED <<pending, view, health, at>>
      /\ UNCHANGED <<hist, versions, listed, watching, pos, failed, overdue, probes, results, link, events, faults>>
  BY <1>n DEF SelectUpdate, Send, Goto, Exit, core, stream
<1> HIDE DEF d
<1>5. known' = [known EXCEPT ![n] = hist[n][v]] BY <1>3, <1>4
<1>6. \A m \in Namespaces : known[m] = hist[m][cur[m]] BY <1>2 DEF Follows
<1>7. link = "up" => at = cur /\ \A m \in Namespaces : view[m] = known[m]
  <2>1. \A m \in Namespaces : cur[m] # 0 BY Facts
  <2> QED BY <1>0, <1>2, <1>6, <2>1 DEF Follows, CoreInv, ConsistentView
<1>8. link = "up" => view' = [view EXCEPT ![n] = hist[n][v]] BY <1>3, <1>4, <1>7
<1>9. updates' \in Seq([ns : Namespaces, version : 1..MaxVersion]) /\ Len(updates') <= QueueCap
  <2>1. updates \in Seq(Event) /\ Len(updates) \in Nat /\ Len(updates) <= QueueCap BY <1>0 DEF TypeOK, Event
  <2>2. updates' \in Seq(Event) /\ Len(updates') <= QueueCap BY <1>4, <2>1, Facts
  <2> QED BY <2>2 DEF Event
<1>10. TypeOK'
  <2>1. known' \in [Namespaces -> Inventory] BY <1>0, <1>3, <1>5 DEF TypeOK
  <2>2. view' \in [Namespaces -> Inventory] BY <1>0, <1>3, <1>4, <1>8 DEF TypeOK
  <2>3. health' \in [Namespaces -> [Names -> 0..MaxVersion]]
    <3>1. health \in [Namespaces -> [Names -> 0..MaxVersion]] /\ 0 \in 0..MaxVersion BY <1>0, Facts DEF TypeOK
    <3>2. health' = health \/ health' = [health EXCEPT ![n][d] = 0] BY <1>4
    <3>3. n \in Namespaces /\ d \in Names BY <1>3
    <3>4. [health EXCEPT ![n][d] = 0] \in [Namespaces -> [Names -> 0..MaxVersion]] BY <3>1, <3>3, HealthType
    <3> QED BY <3>1, <3>2, <3>4
  <2>4. at' \in [Namespaces -> 0..MaxVersion]
    <3>1. at \in [Namespaces -> 0..MaxVersion] BY <1>0 DEF TypeOK
    <3>2. at' = at \/ at' = [at EXCEPT ![n] = v] BY <1>4
    <3> QED BY <1>3, <3>1, <3>2, Facts
  <2>5. result' \in {"none", "unavailable", "invalid"} BY <1>0, <1>1, <1>4 DEF TypeOK, ListInv, InSession
  <2>6. pc' \in {"loop", "stop"} /\ UNCHANGED pending BY <1>4
  <2>7. UNCHANGED <<hist, versions, listed, watching, pos, failed, overdue, probes, results, link, events, faults>>
    BY <1>4
  <2> QED BY <1>0, <1>9, <2>1, <2>2, <2>3, <2>4, <2>5, <2>6, <2>7 DEF TypeOK
<1>11. ListInv' BY <1>0, <1>1, <1>4 DEF ListInv, InSession
<1>12. RoundInv'
  <2> SUFFICES ASSUME pc' \in Rounds PROVE \E to \in [Namespaces -> 1..MaxVersion] : Follows(to, last)'
    BY DEF RoundInv
  <2> DEFINE to == [cur EXCEPT ![n] = v]
  <2>1. to \in [Namespaces -> 1..MaxVersion] /\ to[n] = v /\ \A m \in Namespaces : m # n => to[m] = cur[m] BY <1>3
  <2>2. updates' = Tail(updates) /\ Channel(Tail(updates), to, last) BY <1>3, <1>4
  <2>3. link = "up" => at' = to BY <1>4, <1>7
  <2> HIDE DEF to
  <2>4. ASSUME NEW m \in Namespaces
        PROVE  /\ 1 <= to[m] /\ to[m] <= last[m] /\ last[m] <= Len(hist[m])
               /\ m \in watching => pos[m] = last[m]
               /\ known'[m] = hist[m][to[m]]
    <3>0. known \in [Namespaces -> Inventory] BY <1>0 DEF TypeOK
    <3>1. /\ 1 <= cur[m] /\ cur[m] <= last[m] /\ last[m] <= Len(hist[m])
          /\ m \in watching => pos[m] = last[m]
          /\ known[m] = hist[m][cur[m]]
      BY <1>2 DEF Follows
    <3>2. CASE m = n BY <1>3, <1>5, <2>1, <3>0, <3>1, <3>2
    <3>3. CASE m # n BY <1>5, <2>1, <3>0, <3>1, <3>3
    <3> QED BY <3>2, <3>3
  <2>5. UNCHANGED <<hist, watching, pos, link>> BY <1>4
  <2>6. Follows(to, last)' BY <2>2, <2>3, <2>4, <2>5 DEF Follows
  <2> QED BY <2>1, <2>6
<1>13. CoreInv'
  <2>1. CASE UNCHANGED <<view, health, at>> BY <1>0, <1>4, <2>1, CoreRests
  <2>2. CASE link = "up"
    <3>1. /\ view' = [view EXCEPT ![n] = hist[n][v]] /\ health' = [health EXCEPT ![n][d] = 0]
          /\ at' = [at EXCEPT ![n] = v] /\ UNCHANGED hist
      BY <1>4, <1>8, <2>2
    <3>2. /\ view \in [Namespaces -> Inventory] /\ health \in [Namespaces -> [Names -> 0..MaxVersion]]
          /\ at \in [Namespaces -> 0..MaxVersion]
      BY <1>0 DEF TypeOK
    <3>3. ASSUME NEW m \in Namespaces, m # n
          PROVE  view'[m] = view[m] /\ health'[m] = health[m] /\ at'[m] = at[m]
      BY <3>1, <3>2, <3>3
    <3>4. view'[n] = hist[n][v] /\ at'[n] = v /\ v # 0 /\ v <= Len(hist[n]) BY <1>3, <3>1, <3>2
    <3>5. ASSUME NEW e \in Names, health'[n][e] # 0
          PROVE  e # d /\ health'[n][e] = health[n][e] /\ view'[n][e] = view[n][e]
      <4>1. health'[n] = [health[n] EXCEPT ![d] = 0] BY <1>3, <3>1, <3>2
      <4>2. e # d /\ health'[n][e] = health[n][e] BY <1>3, <3>2, <3>5, <4>1
      <4> QED BY <1>3, <1>7, <2>2, <3>4, <4>2
    <3>6. \A m \in Namespaces : at'[m] <= Len(hist[m]) BY <1>0, <3>3, <3>4 DEF CoreInv
    <3>7. ASSUME NEW m \in Namespaces
          PROVE  /\ view'[m] = IF at'[m] = 0 THEN Empty[m] ELSE hist[m][at'[m]]
                 /\ \A e \in Names : health'[m][e] # 0 =>
                      /\ view'[m][e].rv = health'[m][e] /\ view'[m][e].fit
                      /\ \E t \in Targets : t.ns = m /\ t.name = e /\ t.uid = view'[m][e].uid
      <4>1. /\ view[m] = IF at[m] = 0 THEN Empty[m] ELSE hist[m][at[m]]
            /\ \A e \in Names : health[m][e] # 0 =>
                 /\ view[m][e].rv = health[m][e] /\ view[m][e].fit
                 /\ \E t \in Targets : t.ns = m /\ t.name = e /\ t.uid = view[m][e].uid
        BY <1>0 DEF CoreInv, ConsistentView
      <4>2. CASE m # n BY <3>3, <4>1, <4>2
      <4>3. CASE m = n
        <5>1. view'[m] = IF at'[m] = 0 THEN Empty[m] ELSE hist[m][at'[m]] BY <3>4, <4>3
        <5>2. ASSUME NEW e \in Names, health'[m][e] # 0
              PROVE  /\ view'[m][e].rv = health'[m][e] /\ view'[m][e].fit
                     /\ \E t \in Targets : t.ns = m /\ t.name = e /\ t.uid = view'[m][e].uid
          <6>1. health'[m][e] = health[m][e] /\ view'[m][e] = view[m][e] BY <3>5, <4>3, <5>2
          <6> QED BY <4>1, <5>2, <6>1
        <5> QED BY <5>1, <5>2
      <4> QED BY <4>2, <4>3
    <3> QED BY <3>1, <3>6, <3>7 DEF CoreInv, ConsistentView, Empty
  <2> QED BY <1>4, <2>1, <2>2
<1> QED BY <1>0, <1>4, <1>10, <1>11, <1>12, <1>13, HistRests DEF ObserverInv

LEMMA HealthStep == ASSUME ObserverInv, SelectHealth PROVE ObserverInv'
<1>0. TypeOK /\ HistInv /\ ListInv /\ RoundInv /\ CoreInv BY DEF ObserverInv
<1> DEFINE p == Head(results)  n == p.target.ns  d == p.target.name
<1>1. /\ pc = "select" /\ results # <<>> /\ results' = Tail(results) /\ pc' \in {"loop", "stop"}
      /\ UNCHANGED <<hist, versions, listed, round, known, probes, stream, faults, pending, view, at>>
      /\ result' = result \/ (link = "down" /\ result' = events)
      /\ UNCHANGED health \/ (link = "up" /\ Current(p) /\ health' = [health EXCEPT ![n][d] = p.rv])
  BY DEF SelectHealth, Send, Goto, Exit, core
<1>2. /\ p \in [target : Targets, rv : 1..MaxVersion] /\ results' \in Seq([target : Targets, rv : 1..MaxVersion])
      /\ Len(results') <= Cardinality(Targets)
  <2> DEFINE R == [target : Targets, rv : 1..MaxVersion]
  <2>1. results \in Seq(R) /\ Len(results) <= Cardinality(Targets) BY <1>0 DEF TypeOK
  <2> HIDE DEF R
  <2>2. p \in R /\ results' \in Seq(R) /\ Len(results') <= Cardinality(Targets) BY <1>1, <2>1, Facts
  <2> QED BY <2>2 DEF R
<1>3. p.target \in Targets /\ n \in Namespaces /\ d \in Names /\ p.rv \in 1..MaxVersion BY <1>2, Facts
<1> HIDE DEF p, n, d
<1>4. health' \in [Namespaces -> [Names -> 0..MaxVersion]]
  <2>1. health \in [Namespaces -> [Names -> 0..MaxVersion]] /\ p.rv \in 0..MaxVersion BY <1>0, <1>3, Facts DEF TypeOK
  <2> QED BY SMTT(40), <1>1, <1>3, <2>1, HealthType
<1>5. result' \in {"none", "unavailable", "invalid"} BY <1>0, <1>1 DEF TypeOK, ListInv, InSession
<1>6. TypeOK' BY <1>0, <1>1, <1>2, <1>4, <1>5 DEF TypeOK, round, stream
<1>7. ListInv' BY <1>0, <1>1 DEF ListInv, round, stream, InSession
<1>8. RoundInv' BY <1>0, <1>1, RoundRests DEF round, stream
<1>9. CoreInv'
  <2>1. CASE UNCHANGED health BY <1>0, <1>1, <2>1, CoreRests
  <2>2. CASE link = "up" /\ Current(p) /\ health' = [health EXCEPT ![n][d] = p.rv]
    <3>1. PICK cur, last \in [Namespaces -> 1..MaxVersion] : Follows(cur, last) BY <1>0, <1>1 DEF RoundInv
    <3>2. view[n] = known[n]
      <4>1. at = cur /\ known[n] = hist[n][cur[n]] /\ cur[n] # 0 BY <1>3, <2>2, <3>1, Facts DEF Follows
      <4> QED BY <1>0, <1>3, <4>1 DEF CoreInv, ConsistentView
    <3>3. view[n][d].uid = p.target.uid /\ view[n][d].fit /\ view[n][d].rv = p.rv
      BY <2>2, <3>2 DEF Current, Eligible, n, d
    <3>4. p.target.ns = n /\ p.target.name = d BY DEF n, d
    <3>5. \A m \in Namespaces, e \in Names : health'[m][e] = IF m = n /\ e = d THEN p.rv ELSE health[m][e]
      BY <1>0, <1>3, <2>2 DEF TypeOK
    <3>6. \A m \in Namespaces, e \in Names : health'[m][e] # 0 =>
            /\ view[m][e].rv = health'[m][e] /\ view[m][e].fit
            /\ \E t \in Targets : t.ns = m /\ t.name = e /\ t.uid = view[m][e].uid
      BY SMTT(40), <1>0, <1>3, <3>3, <3>4, <3>5 DEF CoreInv, ConsistentView
    <3> QED BY <1>0, <1>1, <3>6 DEF CoreInv, ConsistentView, Empty
  <2> QED BY <1>1, <2>1, <2>2
<1> QED BY <1>0, <1>1, <1>6, <1>7, <1>8, <1>9, HistRests DEF ObserverInv

--------------------------------------------------------------------------------
(* Theorems                                                                 *)

LEMMA ObserverInit == Init => ObserverInv
<1> SUFFICES ASSUME Init PROVE ObserverInv OBVIOUS
<1> DEFINE first(S) == [d \in Names |-> IF d \in S THEN [uid |-> 1, rv |-> 1, fit |-> TRUE] ELSE Absent]
<1>1. [uid |-> 1, rv |-> 1, fit |-> TRUE] \in Deployment BY Facts DEF Deployment
<1>2. \A S : first(S) \in Inventory BY <1>1, Facts DEF Inventory
<1>3. ASSUME NEW n \in Namespaces
      PROVE  /\ hist[n] \in Seq(Inventory) /\ Len(hist[n]) = 1
             /\ \A d \in Names : Dated(hist[n][1][d], 1)
  <2>1. PICK S \in SUBSET Names : hist[n] = <<first(S)>> BY DEF Init
  <2>2. \A d \in Names : Dated(first(S)[d], 1) BY Facts DEF Dated
  <2>3. first(S) \in Inventory BY <1>2
  <2> HIDE DEF first
  <2> QED BY <2>1, <2>2, <2>3
<1>4. hist \in [Namespaces -> Seq(Inventory)]
  <2>1. hist = [n \in Namespaces |-> hist[n]] BY DEF Init
  <2> QED BY <1>3, <2>1
<1>5. HistInv
  <2>1. 1..1 = {1} /\ 2..1 = {} /\ 1 \in 1..MaxVersion BY Facts
  <2> QED BY <1>3, <2>1 DEF HistInv
<1>6. TypeOK
  <2>1. \A S : <<>> \in Seq(S) /\ Len(<<>>) = 0 OBVIOUS
  <2>2. Len(updates) <= QueueCap /\ Len(results) <= Cardinality(Targets) BY <2>1, Facts DEF Init
  <2>3. /\ versions \in [Namespaces -> 0..MaxVersion] /\ pos \in [Namespaces -> 0..MaxVersion]
        /\ at \in [Namespaces -> 0..MaxVersion] /\ health \in [Namespaces -> [Names -> 0..MaxVersion]]
        /\ faults \in 0..MaxFaults
    BY Facts DEF Init
  <2>4. /\ listed = Empty /\ known = Empty /\ pending = Empty /\ view = Empty
        /\ updates \in Seq([ns : Namespaces, version : 1..MaxVersion])
        /\ results \in Seq([target : Targets, rv : 1..MaxVersion])
    BY <2>1 DEF Init
  <2>5. /\ pc = "closed" /\ result = "none" /\ watching = {} /\ failed = FALSE /\ overdue = FALSE /\ probes = {}
        /\ link = "down" /\ events = "empty"
    BY DEF Init
  <2> QED BY <1>4, <2>2, <2>3, <2>4, <2>5, Facts DEF TypeOK
<1>7. ListInv BY DEF Init, ListInv, InSession
<1>8. RoundInv BY DEF Init, RoundInv
<1>9. CoreInv BY <1>3 DEF Init, CoreInv, ConsistentView
<1> QED BY <1>5, <1>6, <1>7, <1>8, <1>9 DEF ObserverInv

LEMMA ObserverNext == ObserverInv /\ [Next]_vars => ObserverInv'
<1> SUFFICES ASSUME ObserverInv, [Next]_vars PROVE ObserverInv' OBVIOUS
<1>1. ASSUME Session PROVE ObserverInv'
  BY <1>1, OpenStep, ListStep, ExitStep, SnapshotStep, WatchStep, SelectStep, UpdateStep, HealthStep, StopStep
     DEF Session, Select
<1> QED BY <1>1, ClusterStep, DeliverStep, ProbeStep, WorldStep, RestartStep DEF Next

\* The inductive invariant of the observer: versions change one Deployment each, a listing is
\* of versions that Core is not ahead of, and in a round the updates channel holds what
\* leads from what was applied to what was delivered.
THEOREM ObserverInvariant == Spec => []ObserverInv
<1>1. ObserverInv /\ [Next]_vars => ObserverInv' BY ObserverNext
<1> QED BY <1>1, ObserverInit, PTL DEF Spec

\* The session, the channels, which never exceed their capacity, and Core's knowledge keep
\* their types.
THEOREM ObserverTypes == Spec => []TypeOK
<1>1. ObserverInv => TypeOK BY DEF ObserverInv
<1> QED BY <1>1, ObserverInvariant, PTL

\* Whatever namespaces, targets, queue and faults, Core knows of a namespace one of its
\* versions as a whole, and a health it holds is of the version it knows.
THEOREM ViewIsConsistent == Spec => []ConsistentView
<1>1. ObserverInv => ConsistentView BY DEF ObserverInv, CoreInv
<1> QED BY <1>1, ObserverInvariant, PTL

LEMMA ForwardStep ==
    ASSUME ObserverInv, [Next]_vars
    PROVE  \A n \in Namespaces : at'[n] >= at[n] \/ faults' # faults
<1>0. TypeOK /\ HistInv /\ ListInv /\ RoundInv /\ CoreInv BY DEF ObserverInv
<1>1. at \in [Namespaces -> 0..MaxVersion] /\ versions \in [Namespaces -> 0..MaxVersion] /\ faults \in Nat
  BY <1>0, Facts DEF TypeOK
<1>2. CASE UNCHANGED at BY <1>1, <1>2, Facts
<1>3. CASE SnapshotEnd
  <2>1. at' = versions \/ UNCHANGED at BY <1>3 DEF SnapshotEnd, Send, core
  <2>2. \A n \in Namespaces : at[n] <= versions[n] BY <1>0, <1>3 DEF SnapshotEnd, ListInv
  <2> QED BY <1>1, <2>1, <2>2, Facts
<1>4. CASE SelectUpdate
  <2> DEFINE n == Head(updates).ns  v == Head(updates).version
  <2>1. UNCHANGED at \/ (link = "up" /\ at' = [at EXCEPT ![n] = v]) BY <1>4 DEF SelectUpdate, Send, core
  <2>2. PICK cur, last \in [Namespaces -> 1..MaxVersion] : Follows(cur, last) BY <1>0, <1>4 DEF RoundInv, SelectUpdate
  <2>3. n \in Namespaces /\ v = cur[n] + 1 BY <1>4, <2>2, UpdateFacts
  <2>4. link = "up" => at = cur BY <2>2 DEF Follows
  <2> HIDE DEF n, v
  <2> QED BY <1>1, <2>1, <2>3, <2>4, Facts
<1>5. CASE CoreRestart BY <1>1, <1>5 DEF CoreRestart, Fault
<1>6. CASE Session
  <2>1. SnapshotEnd \/ SelectUpdate \/ UNCHANGED at
    BY <1>6 DEF Session, Open, List, ListFails, TooLarge, SnapshotBegin, SnapshotObjects, Watch, WatchFails, Check, Select,
                Stop, SelectFailure, SelectTimer, SelectEvent, SelectHeartbeat, SelectHealth, Send, core
  <2> QED BY <1>2, <1>3, <1>4, <2>1
<1>7. ASSUME NEW n \in Namespaces, (\E d \in Names : Cluster(n, d)) \/ Deliver(n) \/ WatchEnds(n) PROVE UNCHANGED at
  BY <1>7 DEF Cluster, ChangeTo, Deliver, WatchEnds, core
<1>8. CASE (\E t \in Targets : BeginProbe(t)) \/ (\E p \in probes : EndProbe(p)) \/ Minute \/ Hint \/ ReadEnds \/ Cut \/ UNCHANGED vars
  BY <1>2, <1>8 DEF BeginProbe, EndProbe, Minute, Hint, ReadEnds, Cut, vars, core
<1> QED BY <1>2, <1>5, <1>6, <1>7, <1>8 DEF Next

\* Across rounds and sessions Core's knowledge of a namespace never goes back to an earlier
\* version, except when Core itself restarts.
THEOREM ViewNeverBack == Spec => NeverBack
<1>1. ObserverInv /\ [Next]_vars => [\A n \in Namespaces : at'[n] >= at[n] \/ faults' # faults]_vars BY ForwardStep
<1>2. Spec => [][\A n \in Namespaces : at'[n] >= at[n] \/ faults' # faults]_vars BY <1>1, ObserverInvariant, PTL DEF Spec
<1> QED BY <1>2 DEF NeverBack
================================================================================
