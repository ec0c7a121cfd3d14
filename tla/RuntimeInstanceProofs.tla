------------------------- MODULE RuntimeInstanceProofs -------------------------
(***************************************************************************)
(* Proofs about RuntimeInstance: types, one Pod on the volume, nothing     *)
(* left at rest, and a seal that stays true.                               *)
(*                                                                         *)
(* The argument has one idea.  At every moment the row of the newest       *)
(* operation accounts for at most one name whose Pod or Service may be     *)
(* there (Active), and a call may only make objects under the name that    *)
(* both its old and its new row account for (Permitted).  A row that gives *)
(* up a name, or that ends at rest, is committed only by the transaction   *)
(* that holds the instance's lock, after a read that found nothing under   *)
(* that name.  Calls that lost their transaction still send requests, but  *)
(* those only remove (Harmless): this is where requests that make objects  *)
(* and arrive late, the fault "late", have to be excluded.                 *)
(***************************************************************************)
EXTENDS RuntimeInstance, FiniteSetTheorems, TLAPS

--------------------------------------------------------------------------------
(* The inductive invariant                                                  *)

Removals == {"delete_svc", "delete_pod"}
Creations == {"create_svc", "create_pod"}
Named == {e \in Effect : e.do \in Removals \cup Creations => e.name \in Names}
Harmless == {e \in Named : e.do \in Removals \cup {"claim", "delete_secret"}}

\* The names that a row r of operation o accounts for.
Active(o, r) ==
    IF o \in Starts
      THEN IF r.recovery # None THEN {r.recovery}
           ELSE IF r.stage \in {"observing", "removing_helper"} THEN {Reader} ELSE {o}
      ELSE IF o \in Destroys \/ r.status = "succeeded" THEN {}
           ELSE IF o = Create THEN {Prepare} ELSE {r.of}

\* What a call that found row old and will commit row new may still do.
Permitted(o, old, new) ==
    {e \in Named : /\ e.do \in Creations => o \notin Stops /\ e.name \in Active(o, old) \cap Active(o, new)
                   /\ e.do = "secret" => o = Create}

Live == {n \in Names : There(n) \/ svcs[n].live}

\* Types, with what the shape of a call's row owes to its operation.
CallType == [op : Ops \cup {None}, row : Row, todo : Seq(Named)]
TypeInv ==
    /\ rows \in [Ops -> Row] /\ order \in Seq(Ops)
    /\ binding \in {"none", "held", "retained"}
    /\ claimed \in BOOLEAN /\ secret \in Object
    /\ pods \in [Names -> Pod] /\ svcs \in [Names -> Object]
    /\ content \in Contents /\ node \in BOOLEAN
    /\ lock \in Callers \cup {None}
    /\ pc \in [Callers -> {"idle", "read", "act"}]
    /\ loc \in [Callers -> CallType]
    /\ faults \in 0..MaxFaults /\ spoilt \in BOOLEAN
    /\ \A n \in Names : (There(n) => pods[n].uid # 0) /\ (svcs[n].live => svcs[n].uid # 0)
    /\ \A t \in Stops : rows[t].status # "none" => rows[t].of \in Starts
    /\ \A c \in Callers :
        /\ pc[c] # "idle" => loc[c].op \in Ops
        /\ pc[c] = "read" => loc[c].row.status = "running"
        /\ pc[c] # "idle" /\ loc[c].op \in Stops => loc[c].row.of \in Starts

\* What row r says of the cluster when it is the row of the newest operation o.
Kept(o, r) ==
    /\ r.status \in {"running", "succeeded"}
    /\ Live \subseteq Active(o, r)
    /\ o \in Starts /\ r.status = "succeeded" => r.recovery = None /\ r.stage \in {"none", "ready"}
    /\ o \in Destroys /\ r.status = "succeeded" => ~secret.live /\ r.phase = "deleted"
    /\ o \in Stops /\ r.phase \in {"removing", "stopped"} =>
         content = r.saved /\ \A s \in Starts : There(s) => pods[s].frozen # None

LedgerInv ==
    /\ \A o \in Ops : rows[o].status = "running" => o = LastOp
    /\ LastOp = None => Live = {}
    /\ LastOp # None => Kept(LastOp, rows[LastOp])
    /\ LastOp \in Destroys /\ Succeeded(LastOp) => binding = "retained"

CallInv(c) ==
    /\ pc[c] = "read" => lock = c /\ loc[c].row = rows[loc[c].op]
    /\ pc[c] = "act" /\ lock = c =>
         /\ rows[loc[c].op].status = "running" /\ Kept(loc[c].op, loc[c].row)
         /\ loc[c].todo \in Seq(Permitted(loc[c].op, rows[loc[c].op], loc[c].row))
    /\ pc[c] = "act" /\ lock # c => loc[c].todo \in Seq(Harmless)

InstanceInv == TypeInv /\ LedgerInv /\ \A c \in Callers : CallInv(c)

--------------------------------------------------------------------------------
(* Constants, sequences and the pieces of a plan                            *)

LEMMA Facts ==
    /\ MaxUid \in Nat /\ MaxContent \in Nat /\ MaxFaults \in Nat
    /\ None \notin Ops /\ None \notin Callers /\ Create \in Ops /\ Starts \subseteq Ops /\ Stops \subseteq Ops
    /\ Destroys \subseteq Ops /\ Starts \subseteq Names /\ Prepare \in Names /\ Reader \in Names
    /\ Create \notin Starts /\ Create \notin Stops /\ Create \notin Destroys /\ Prepare \notin Starts /\ Reader \notin Starts
    /\ \A o \in Starts : o \notin Stops /\ o \notin Destroys
    /\ \A o \in Stops : o \notin Destroys
    /\ \A o \in Ops : o \in Starts \/ o \in Stops \/ o \in Destroys \/ o = Create
  BY BoundsAssumption, OperationsAssumption DEF Ops, Names

LEMMA NoRowType == NoRow \in Row /\ NoRow.status = "none" /\ NoRow.recovery = None /\ NoRow.stage = "none"
<1>1. NoUids \in Pair BY Facts DEF NoUids, Pair, Uids
<1>2. 0 \in Contents /\ 0 \in Uids BY Facts DEF Contents, Uids
<1> QED BY <1>1, <1>2 DEF NoRow, Row

LEMMA NoPodType ==
    /\ NoPod \in Pod
    /\ \A u \in Uids : [NoPod EXCEPT !.uid = u] \in Pod /\ [NoPod EXCEPT !.uid = u].state = "absent"
    /\ \A u \in Uids, v \in Contents :
         /\ [NoPod EXCEPT !.uid = u, !.state = "starting", !.source = v] \in Pod
         /\ [NoPod EXCEPT !.uid = u, !.state = "starting", !.source = v].state = "starting"
<1>1. 0 \in Contents /\ 0 \in Uids BY Facts DEF Contents, Uids
<1> QED BY <1>1 DEF NoPod, Pod

LEMMA SeqFacts ==
    ASSUME NEW S
    PROVE  /\ <<>> \in Seq(S)
           /\ \A s, t \in Seq(S) : s \o t \in Seq(S)
           /\ \A s \in Seq(S) : s # <<>> => Head(s) \in S /\ Tail(s) \in Seq(S)
           /\ \A e \in S : <<e>> \in Seq(S)
           /\ \A s \in Seq(S) : \A i \in DOMAIN s : s[i] \in S
  OBVIOUS

LEMMA SeqWiden ==
    ASSUME NEW A, NEW B, NEW s \in Seq(A), \A i \in DOMAIN s : s[i] \in B
    PROVE  s \in Seq(B)
  OBVIOUS

\* The last element of an order that grew by one.
LEMMA LastAppended ==
    ASSUME TypeInv, NEW o \in Ops, order' = Append(order, o)
    PROVE  LastOp' = o /\ order' \in Seq(Ops)
<1>1. order \in Seq(Ops) BY DEF TypeInv
<1>2. order' \in Seq(Ops) /\ Len(order') = Len(order) + 1 /\ order'[Len(order')] = o /\ order' # <<>> BY <1>1
<1> QED BY <1>2 DEF LastOp

LEMMA LastOpType == TypeInv => LastOp \in Ops \cup {None}
<1> SUFFICES ASSUME TypeInv PROVE LastOp \in Ops \cup {None} OBVIOUS
<1>1. order \in Seq(Ops) BY DEF TypeInv
<1>2. order # <<>> => order[Len(order)] \in Ops BY <1>1
<1> QED BY <1>2 DEF LastOp

LEMMA MakeType ==
    ASSUME TypeInv, NEW n \in Names \cup {None},
           NEW kind \in {"claim", "secret", "create_svc", "create_pod", "delete_svc", "delete_pod", "delete_secret"},
           NEW u \in Uids
    PROVE  [do |-> kind, name |-> n, uid |-> u, rv |-> Version(n)] \in Effect
<1>1. Version(n) \in {"absent", "starting", "ready", "exited", "deleting"}
  <2>1. CASE n = None \/ n \notin Mounting BY <2>1 DEF Version
  <2>2. CASE n # None /\ n \in Mounting
    <3>1. n \in Names /\ pods[n] \in Pod /\ pods[n].state # "absent" BY <2>2 DEF Mounting, There, TypeInv
    <3> QED BY <2>2, <3>1 DEF Version, Pod
  <2> QED BY <2>1, <2>2
<1> QED BY <1>1 DEF Effect

LEMMA CreatesType ==
    ASSUME TypeInv, NEW n \in Names, NEW S, \A e \in Effect : e.do \in Creations /\ e.name = n => e \in S
    PROVE  Creates(n) \in Seq(S)
<1>0. 0 \in Uids BY Facts DEF Uids
<1>1. [do |-> "create_svc", name |-> n, uid |-> 0, rv |-> Version(n)] \in S BY <1>0, MakeType DEF Creations
<1>2. [do |-> "create_pod", name |-> n, uid |-> 0, rv |-> Version(n)] \in S BY <1>0, MakeType DEF Creations
<1>3. Make("create_svc", n) \in Seq(S) /\ Make("create_pod", n) \in Seq(S) /\ <<>> \in Seq(S)
  BY <1>1, <1>2, SeqFacts DEF Make
<1> QED BY <1>3, SeqFacts DEF Creates

LEMMA DeletesType ==
    ASSUME TypeInv, NEW n \in Names, NEW S, \A e \in Effect : e.do \in Removals /\ e.name = n => e \in S
    PROVE  Deletes(n) \in Seq(S)
<1>0. Seen(n).pod \in Uids /\ Seen(n).svc \in Uids
  <2>1. pods[n].uid \in Uids /\ svcs[n].uid \in Uids /\ 0 \in Uids BY Facts DEF TypeInv, Pod, Object, Uids
  <2> QED BY <2>1 DEF Seen
<1>1. [do |-> "delete_svc", name |-> n, uid |-> Seen(n).svc, rv |-> Version(n)] \in S BY <1>0, MakeType DEF Removals
<1>2. [do |-> "delete_pod", name |-> n, uid |-> Seen(n).pod, rv |-> Version(n)] \in S BY <1>0, MakeType DEF Removals
<1>3. Drop("delete_svc", n, Seen(n).svc) \in Seq(S) /\ Drop("delete_pod", n, Seen(n).pod) \in Seq(S)
  BY <1>1, <1>2, SeqFacts DEF Drop
<1> QED BY <1>3, SeqFacts DEF Deletes

LEMMA SeenType == ASSUME TypeInv, NEW n \in Names PROVE Seen(n) \in Pair
<1>1. pods[n].uid \in Uids /\ svcs[n].uid \in Uids /\ 0 \in Uids BY Facts DEF TypeInv, Pod, Object, Uids
<1> QED BY <1>1 DEF Seen, Pair

LEMMA EffectiveType == ASSUME NEW r \in Row PROVE Effective(r) \in Contents
  BY DEF Effective, Row

\* Nothing under a name that a read found gone.
LEMMA GoneFacts == ASSUME TypeInv, NEW n \in Names, Gone(n) PROVE n \notin Live /\ Deletes(n) = <<>>
<1>1. Seen(n).pod = 0 /\ Seen(n).svc = 0 BY DEF Gone, NoUids
<1>2. ~There(n) /\ ~svcs[n].live BY <1>1 DEF Seen, TypeInv
<1>3. Deletes(n) = <<>> \o <<>> BY <1>1 DEF Deletes, Drop
<1> QED BY <1>2, <1>3 DEF Live

--------------------------------------------------------------------------------
(* What a read leads to                                                     *)

\* The row a call will commit and its effects fit the row it found.
Fits(o, old, row, todo) ==
    /\ row \in Row /\ todo \in Seq(Permitted(o, old, row))
    /\ row.of = old.of /\ row.status \in {"running", "succeeded"}
    /\ Kept(o, old) => Kept(o, row)
Planned(c) == \E row, todo : Proceed(c, row, todo) /\ Fits(loc[c].op, loc[c].row, row, todo)

LEMMA ReadingFacts ==
    ASSUME TypeInv, NEW c \in Callers, NEW ops, Reading(c, ops)
    PROVE  /\ loc[c].op \in ops /\ loc[c].op \in Ops /\ loc[c].row \in Row /\ loc[c].row.status = "running"
           /\ loc[c].op \in Stops => loc[c].row.of \in Starts
<1>1. pc[c] = "read" /\ loc[c].op \in ops BY DEF Reading
<1>2. loc[c] \in CallType BY DEF TypeInv
<1> QED BY <1>1, <1>2 DEF TypeInv, CallType

\* A row that keeps its status and stages accounts for the same name.
LEMMA SameShape ==
    ASSUME NEW o, NEW old, NEW row, old.status = "running", row.status = "running",
           row.recovery = old.recovery, row.stage = old.stage, row.of = old.of, row.saved = old.saved,
           o \in Stops => row.phase = old.phase
    PROVE  Active(o, row) = Active(o, old) /\ (Kept(o, old) => Kept(o, row))
<1>1. Active(o, row) = Active(o, old) BY DEF Active
<1> QED BY <1>1 DEF Kept

\* A removal is always permitted, a creation under a name both rows account for.
LEMMA PermittedFacts ==
    ASSUME NEW o, NEW old, NEW new
    PROVE  /\ \A e \in Effect : e.do \in Removals /\ e.name \in Names => e \in Permitted(o, old, new)
           /\ \A e \in Effect : e.do \in {"claim", "delete_secret"} => e \in Permitted(o, old, new)
           /\ o \notin Stops =>
                \A e \in Effect : e.do \in Creations /\ e.name \in Names /\ e.name \in Active(o, old) /\ e.name \in Active(o, new)
                     => e \in Permitted(o, old, new)
           /\ o = Create => \A e \in Effect : e.do = "secret" => e \in Permitted(o, old, new)
  BY DEF Permitted, Named, Removals, Creations

LEMMA ReservePlan == ASSUME TypeInv, NEW c \in Callers, Reserve(c) PROVE Planned(c)
<1> DEFINE o == loc[c].op  old == loc[c].row  row == [old EXCEPT !.phase = "reserved"]
<1>1. Reading(c, {Create}) /\ Proceed(c, row, <<>>) BY DEF Reserve
<1>2. o = Create /\ old \in Row /\ old.status = "running" BY <1>1, ReadingFacts
<1>3. /\ row \in Row /\ row.status = old.status /\ row.recovery = old.recovery /\ row.stage = old.stage
      /\ row.of = old.of /\ row.saved = old.saved
  BY <1>2 DEF Row
<1>4. o \notin Stops BY <1>2, Facts
<1>5. <<>> \in Seq(Permitted(o, old, row)) BY SeqFacts
<1> HIDE DEF row, old, o
<1>6. Fits(o, old, row, <<>>) BY <1>2, <1>3, <1>4, <1>5, SameShape DEF Fits
<1> QED BY <1>1, <1>6 DEF Planned, old, o

LEMMA ClaimPlan == ASSUME TypeInv, NEW c \in Callers, ClaimVolume(c) PROVE Planned(c)
<1> DEFINE o == loc[c].op  old == loc[c].row
           row == [old EXCEPT !.phase = "claimed", !.secret = IF secret.live THEN secret.uid ELSE 0]
           todo == Claim \o (IF secret.live THEN <<>> ELSE Make("secret", None))
<1>1. Reading(c, {Create}) /\ Proceed(c, row, todo) BY DEF ClaimVolume
<1>2. o = Create /\ old \in Row /\ old.status = "running" BY <1>1, ReadingFacts
<1>3. /\ row \in Row /\ row.status = old.status /\ row.recovery = old.recovery /\ row.stage = old.stage
      /\ row.of = old.of /\ row.saved = old.saved
  <2>1. (IF secret.live THEN secret.uid ELSE 0) \in Uids BY Facts DEF TypeInv, Object, Uids
  <2> QED BY <1>2, <2>1 DEF Row
<1>4. o \notin Stops BY <1>2, Facts
<1> HIDE DEF row, old, o
<1>5. todo \in Seq(Permitted(o, old, row))
  <2>1. 0 \in Uids BY Facts DEF Uids
  <2>2. [do |-> "claim", name |-> None, uid |-> 0, rv |-> Version(None)] \in Permitted(o, old, row)
    BY <2>1, MakeType, PermittedFacts
  <2>3. [do |-> "secret", name |-> None, uid |-> 0, rv |-> Version(None)] \in Permitted(o, old, row)
    BY <1>2, <2>1, MakeType, PermittedFacts
  <2>4. Claim \in Seq(Permitted(o, old, row)) /\ Make("secret", None) \in Seq(Permitted(o, old, row))
    BY <2>2, <2>3, SeqFacts DEF Claim, Make
  <2> QED BY <2>4, SeqFacts
<1> HIDE DEF todo
<1>6. Fits(o, old, row, todo) BY <1>2, <1>3, <1>4, <1>5, SameShape DEF Fits
<1> QED BY <1>1, <1>6 DEF Planned, old, o

LEMMA PreparePlan == ASSUME TypeInv, NEW c \in Callers, PrepareContent(c) PROVE Planned(c)
<1> DEFINE o == loc[c].op  old == loc[c].row
           row == [old EXCEPT !.helper = Seen(Prepare),
                              !.phase = IF Prepared THEN "removing"
                                        ELSE IF pods[Prepare].state = "ready" THEN "awaiting_content" ELSE "preparing"]
<1>1. Reading(c, {Create}) /\ Proceed(c, row, Creates(Prepare)) BY DEF PrepareContent
<1>2. o = Create /\ old \in Row /\ old.status = "running" BY <1>1, ReadingFacts
<1>3. /\ row \in Row /\ row.status = old.status /\ row.recovery = old.recovery /\ row.stage = old.stage
      /\ row.of = old.of /\ row.saved = old.saved
  <2>1. Seen(Prepare) \in Pair BY SeenType, Facts
  <2> QED BY <1>2, <2>1 DEF Row
<1>4. o \notin Stops /\ o \notin Starts /\ o \notin Destroys BY <1>2, Facts
<1> HIDE DEF row, old, o
<1>5. Active(o, old) = {Prepare} /\ Active(o, row) = {Prepare} BY <1>2, <1>3, <1>4 DEF Active
<1>6. Creates(Prepare) \in Seq(Permitted(o, old, row))
  <2>1. \A e \in Effect : e.do \in Creations /\ e.name = Prepare => e \in Permitted(o, old, row)
    BY <1>4, <1>5, PermittedFacts, Facts
  <2> QED BY <2>1, CreatesType, Facts
<1>7. Fits(o, old, row, Creates(Prepare)) BY <1>2, <1>3, <1>4, <1>6, SameShape DEF Fits
<1> QED BY <1>1, <1>7 DEF Planned, old, o

LEMMA RemovePreparerPlan == ASSUME TypeInv, NEW c \in Callers, RemovePreparer(c) PROVE Planned(c)
<1> DEFINE o == loc[c].op  old == loc[c].row
           row == IF Gone(Prepare) THEN [old EXCEPT !.status = "succeeded", !.phase = "stopped"] ELSE old
<1>1. Reading(c, {Create}) /\ Proceed(c, row, Deletes(Prepare)) BY DEF RemovePreparer
<1>2. o = Create /\ old \in Row /\ old.status = "running" BY <1>1, ReadingFacts
<1>3. /\ row \in Row /\ row.of = old.of /\ row.status \in {"running", "succeeded"}
      /\ ~Gone(Prepare) => row = old
      /\ Gone(Prepare) => row.status = "succeeded"
  BY <1>2 DEF Row
<1>4. o \notin Stops /\ o \notin Starts /\ o \notin Destroys BY <1>2, Facts
<1> HIDE DEF row, old, o
<1>5. Kept(o, old) => Kept(o, row)
  <2>1. Active(o, old) = {Prepare} /\ (Gone(Prepare) => Active(o, row) = {}) BY <1>2, <1>3, <1>4 DEF Active
  <2>2. Gone(Prepare) => Prepare \notin Live BY GoneFacts, Facts
  <2> QED BY <1>3, <1>4, <2>1, <2>2 DEF Kept
<1>6. Deletes(Prepare) \in Seq(Permitted(o, old, row)) BY PermittedFacts, DeletesType, Facts
<1>7. Fits(o, old, row, Deletes(Prepare)) BY <1>3, <1>5, <1>6 DEF Fits
<1> QED BY <1>1, <1>7 DEF Planned, old, o

\* A start gives up the name n once a read found nothing under it.
LEMMA GiveUp ==
    ASSUME TypeInv, NEW o \in Starts, NEW old, NEW row, NEW n \in Names, Gone(n), Active(o, old) = {n},
           row.status = "running"
    PROVE  Kept(o, old) => Kept(o, row)
<1>1. n \notin Live BY GoneFacts
<1>2. o \notin Stops /\ o \notin Destroys BY Facts
<1> QED BY <1>1, <1>2 DEF Kept

LEMMA RemoveFailedPlan == ASSUME TypeInv, NEW c \in Callers, RemoveFailed(c) PROVE Planned(c)
<1> DEFINE o == loc[c].op  old == loc[c].row  p == old.recovery
           row == IF Gone(p) THEN [old EXCEPT !.recovery = None] ELSE old
<1>1. Reading(c, Starts) /\ p # None /\ Proceed(c, row, Deletes(p)) BY DEF RemoveFailed
<1>2. o \in Starts /\ old \in Row /\ old.status = "running" BY <1>1, ReadingFacts
<1>3. /\ row \in Row /\ row.of = old.of /\ row.status = "running" /\ (~Gone(p) => row = old) BY <1>2 DEF Row
<1>4. p \in Starts /\ p \in Names BY <1>1, <1>2, Facts DEF Row
<1>5. Active(o, old) = {p} BY <1>1, <1>2 DEF Active
<1> HIDE DEF row, p, old, o
<1>6. Kept(o, old) => Kept(o, row) BY <1>2, <1>3, <1>4, <1>5, GiveUp
<1>7. Deletes(p) \in Seq(Permitted(o, old, row)) BY <1>4, PermittedFacts, DeletesType
<1>8. Fits(o, old, row, Deletes(p)) BY <1>3, <1>6, <1>7 DEF Fits
<1> QED BY <1>1, <1>8 DEF Planned, old, o

LEMMA LaunchPlan == ASSUME TypeInv, NEW c \in Callers, Launch(c) PROVE Planned(c)
<1> DEFINE o == loc[c].op  old == loc[c].row
           row == [old EXCEPT !.worker = Seen(o), !.status = IF LoadProof(o) THEN "succeeded" ELSE "running",
                              !.phase = IF LoadProof(o) THEN "running"
                                        ELSE IF pods[o].state = "ready" THEN "loading" ELSE "launching"]
<1>1. /\ Reading(c, Starts) /\ old.recovery = None /\ old.stage \in {"none", "ready"} /\ Proceed(c, row, Creates(o))
  BY DEF Launch
<1>2. o \in Starts /\ old \in Row /\ old.status = "running" BY <1>1, ReadingFacts
<1>3. /\ row \in Row /\ row.status \in {"running", "succeeded"} /\ row.recovery = old.recovery
      /\ row.stage = old.stage /\ row.of = old.of
  <2>1. Seen(o) \in Pair BY <1>2, SeenType, Facts
  <2> QED BY ZenonT(60), <1>2, <2>1 DEF Row
<1> HIDE DEF row
<1>4. Active(o, old) = {o} /\ Active(o, row) = {o} BY <1>1, <1>2, <1>3 DEF Active
<1> HIDE DEF old, o
<1>5. Kept(o, old) => Kept(o, row)
  <2>1. o \notin Stops /\ o \notin Destroys BY <1>2, Facts
  <2> QED BY <1>1, <1>3, <1>4, <2>1 DEF Kept
<1>6. Creates(o) \in Seq(Permitted(o, old, row))
  <2>1. o \in Names /\ o \notin Stops BY <1>2, Facts
  <2>2. \A e \in Effect : e.do \in Creations /\ e.name = o => e \in Permitted(o, old, row)
    BY <1>4, <2>1, PermittedFacts
  <2> QED BY <2>1, <2>2, CreatesType
<1>7. Fits(o, old, row, Creates(o)) BY <1>3, <1>5, <1>6 DEF Fits
<1> QED BY <1>1, <1>7 DEF Planned, old, o

LEMMA EnterPlan == ASSUME TypeInv, NEW c \in Callers, EnterSavedRecovery(c) PROVE Planned(c)
<1> DEFINE o == loc[c].op  old == loc[c].row
           row == [old EXCEPT !.worker = Seen(o), !.stage = "removing_worker", !.phase = "recovering"]
<1>1. Reading(c, Starts) /\ old.recovery = None /\ old.stage = "none" /\ Proceed(c, row, <<>>)
  BY DEF EnterSavedRecovery
<1>2. o \in Starts /\ old \in Row /\ old.status = "running" BY <1>1, ReadingFacts
<1>3. /\ row \in Row /\ row.status = "running" /\ row.recovery = old.recovery /\ row.stage = "removing_worker"
      /\ row.of = old.of
  <2>1. Seen(o) \in Pair BY <1>2, SeenType, Facts
  <2> QED BY <1>2, <2>1 DEF Row
<1> HIDE DEF row
<1>4. Active(o, old) = {o} /\ Active(o, row) = {o} BY <1>1, <1>2, <1>3 DEF Active
<1>5. <<>> \in Seq(Permitted(o, old, row)) BY SeqFacts
<1> HIDE DEF old, o
<1>6. Kept(o, old) => Kept(o, row)
  <2>1. o \notin Stops /\ o \notin Destroys BY <1>2, Facts
  <2> QED BY <1>3, <1>4, <2>1 DEF Kept
<1>7. Fits(o, old, row, <<>>) BY <1>3, <1>5, <1>6 DEF Fits
<1> QED BY <1>1, <1>7 DEF Planned, old, o

LEMMA RemoveExitedPlan == ASSUME TypeInv, NEW c \in Callers, RemoveExited(c) PROVE Planned(c)
<1> DEFINE o == loc[c].op  old == loc[c].row
           row == IF Gone(o) THEN [old EXCEPT !.stage = "observing", !.worker = NoUids] ELSE old
<1>1. Reading(c, Starts) /\ old.recovery = None /\ old.stage = "removing_worker" /\ Proceed(c, row, Deletes(o))
  BY DEF RemoveExited
<1>2. o \in Starts /\ old \in Row /\ old.status = "running" BY <1>1, ReadingFacts
<1>3. /\ row \in Row /\ row.of = old.of /\ row.status = "running" /\ (~Gone(o) => row = old)
  <2>1. NoUids \in Pair BY Facts DEF NoUids, Pair, Uids
  <2> QED BY <1>2, <2>1 DEF Row
<1>4. o \in Names BY <1>2, Facts
<1>5. Active(o, old) = {o} BY <1>1, <1>2 DEF Active
<1> HIDE DEF row, old, o
<1>6. Kept(o, old) => Kept(o, row) BY <1>2, <1>3, <1>4, <1>5, GiveUp
<1>7. Deletes(o) \in Seq(Permitted(o, old, row)) BY <1>4, PermittedFacts, DeletesType
<1>8. Fits(o, old, row, Deletes(o)) BY <1>3, <1>6, <1>7 DEF Fits
<1> QED BY <1>1, <1>8 DEF Planned, old, o

LEMMA ObservePlan == ASSUME TypeInv, NEW c \in Callers, ObserveCopy(c) PROVE Planned(c)
<1> DEFINE o == loc[c].op  old == loc[c].row
           seen == [old EXCEPT !.helper = Seen(Reader), !.copy = WorkingCopy, !.stage = "removing_helper"]
           made == [old EXCEPT !.helper = Seen(Reader)]
<1>1. /\ Reading(c, Starts) /\ old.recovery = None /\ old.stage = "observing"
      /\ Proceed(c, seen, <<>>) \/ Proceed(c, made, Creates(Reader))
  BY DEF ObserveCopy
<1>2. o \in Starts /\ old \in Row /\ old.status = "running" BY <1>1, ReadingFacts
<1>3. /\ seen \in Row /\ seen.status = "running" /\ seen.recovery = old.recovery /\ seen.stage = "removing_helper"
      /\ seen.of = old.of
      /\ made \in Row /\ made.status = "running" /\ made.recovery = old.recovery /\ made.stage = old.stage
      /\ made.of = old.of
  <2>1. Seen(Reader) \in Pair /\ WorkingCopy \in Contents BY SeenType, Facts DEF WorkingCopy, TypeInv
  <2>2. seen \in Row /\ seen.status = "running" /\ seen.recovery = old.recovery /\ seen.stage = "removing_helper"
        /\ seen.of = old.of
    BY <1>2, <2>1 DEF Row
  <2>3. made \in Row /\ made.status = "running" /\ made.recovery = old.recovery /\ made.stage = old.stage
        /\ made.of = old.of
    BY <1>2, <2>1 DEF Row
  <2> QED BY <2>2, <2>3
<1> HIDE DEF seen, made
<1>4. Active(o, old) = {Reader} /\ Active(o, seen) = {Reader} /\ Active(o, made) = {Reader}
  BY <1>1, <1>2, <1>3 DEF Active
<1>5. <<>> \in Seq(Permitted(o, old, seen)) BY SeqFacts
<1> HIDE DEF old, o
<1>6. (Kept(o, old) => Kept(o, seen)) /\ (Kept(o, old) => Kept(o, made))
  <2>1. o \notin Stops /\ o \notin Destroys BY <1>2, Facts
  <2> QED BY <1>3, <1>4, <2>1 DEF Kept
<1>7. Creates(Reader) \in Seq(Permitted(o, old, made))
  <2>1. \A e \in Effect : e.do \in Creations /\ e.name = Reader => e \in Permitted(o, old, made)
    BY <1>2, <1>4, PermittedFacts, Facts
  <2> QED BY <2>1, CreatesType, Facts
<1>8. Fits(o, old, seen, <<>>) /\ Fits(o, old, made, Creates(Reader)) BY <1>3, <1>5, <1>6, <1>7 DEF Fits
<1> QED BY <1>1, <1>8 DEF Planned, old, o

LEMMA RemoveReaderPlan == ASSUME TypeInv, NEW c \in Callers, RemoveReader(c) PROVE Planned(c)
<1> DEFINE o == loc[c].op  old == loc[c].row
           row == IF Gone(Reader) THEN [old EXCEPT !.stage = "ready"] ELSE old
<1>1. Reading(c, Starts) /\ old.recovery = None /\ old.stage = "removing_helper" /\ Proceed(c, row, Deletes(Reader))
  BY DEF RemoveReader
<1>2. o \in Starts /\ old \in Row /\ old.status = "running" BY <1>1, ReadingFacts
<1>3. /\ row \in Row /\ row.of = old.of /\ row.status = "running" /\ (~Gone(Reader) => row = old) BY <1>2 DEF Row
<1>4. Active(o, old) = {Reader} BY <1>1, <1>2 DEF Active
<1> HIDE DEF row, old, o
<1>5. Kept(o, old) => Kept(o, row) BY <1>2, <1>3, <1>4, GiveUp, Facts
<1>6. Deletes(Reader) \in Seq(Permitted(o, old, row)) BY PermittedFacts, DeletesType, Facts
<1>7. Fits(o, old, row, Deletes(Reader)) BY <1>3, <1>5, <1>6 DEF Fits
<1> QED BY <1>1, <1>7 DEF Planned, old, o

\* The seal: the worker the stop names is frozen for it, no other Pod is there, and the volume holds what it names.
LEMMA SealPlan == ASSUME TypeInv, NEW c \in Callers, Seal(c) PROVE Planned(c)
<1> DEFINE o == loc[c].op  old == loc[c].row  s == old.of  row == [old EXCEPT !.phase = "removing"]
<1>1. /\ Reading(c, Stops) /\ Inspect({s}) /\ DrainProof(s, o, old.saved) /\ Proceed(c, row, <<>>) BY DEF Seal
<1>2. o \in Stops /\ o \in Ops /\ old \in Row /\ old.status = "running" /\ s \in Starts BY <1>1, ReadingFacts
<1>3. row \in Row /\ row.of = s /\ row.status = "running" /\ row.saved = old.saved BY <1>2 DEF Row
<1>4. <<>> \in Seq(Permitted(o, old, row)) BY SeqFacts
<1>5. content = old.saved /\ pods[s].frozen = o /\ o # None /\ \A n \in Starts : There(n) => n = s
  <2>1. \A n \in Starts : There(n) => n \in Mounting BY Facts DEF Mounting
  <2> QED BY <1>1, <1>2, <2>1, Facts DEF DrainProof, Inspect
<1> HIDE DEF row
<1>6. o \notin Starts /\ o \notin Destroys /\ o # Create BY <1>2, Facts
<1>7. Active(o, row) = Active(o, old) BY <1>2, <1>3, <1>6 DEF Active
<1> HIDE DEF s, old, o
<1>8. Kept(o, old) => Kept(o, row) BY <1>3, <1>5, <1>6, <1>7 DEF Kept
<1>9. Fits(o, old, row, <<>>) BY <1>3, <1>4, <1>8 DEF Fits, s
<1> QED BY <1>1, <1>9 DEF Planned, old, o

LEMMA RemoveStoppedPlan == ASSUME TypeInv, NEW c \in Callers, RemoveStopped(c) PROVE Planned(c)
<1> DEFINE o == loc[c].op  old == loc[c].row  s == old.of
           row == IF Gone(s) THEN [old EXCEPT !.status = "succeeded", !.phase = "stopped"] ELSE old
<1>1. Reading(c, Stops) /\ old.phase = "removing" /\ Proceed(c, row, Deletes(s)) BY DEF RemoveStopped
<1>2. o \in Stops /\ o \in Ops /\ old \in Row /\ old.status = "running" /\ s \in Starts BY <1>1, ReadingFacts
<1>3. /\ row \in Row /\ row.of = s /\ row.saved = old.saved /\ row.status \in {"running", "succeeded"}
      /\ ~Gone(s) => row = old
      /\ Gone(s) => row.status = "succeeded"
  BY <1>2 DEF Row
<1> HIDE DEF row
<1>4. o \notin Starts /\ o \notin Destroys /\ o # Create /\ s \in Names BY <1>2, Facts
<1>5. Active(o, old) = {s} /\ (Gone(s) => Active(o, row) = {}) BY <1>2, <1>3, <1>4 DEF Active
<1> HIDE DEF s, old, o
<1>6. Kept(o, old) => Kept(o, row)
  <2>1. Gone(s) => s \notin Live BY <1>4, GoneFacts
  <2> QED BY <1>1, <1>3, <1>4, <1>5, <2>1 DEF Kept
<1>7. Deletes(s) \in Seq(Permitted(o, old, row)) BY <1>4, PermittedFacts, DeletesType
<1>8. Fits(o, old, row, Deletes(s)) BY <1>3, <1>6, <1>7 DEF Fits, s
<1> QED BY <1>1, <1>8 DEF Planned, old, o

LEMMA RevokePlan == ASSUME TypeInv, NEW c \in Callers, Revoke(c) PROVE Planned(c)
<1> DEFINE o == loc[c].op  old == loc[c].row
           begun == [old EXCEPT !.phase = "revoking"]
           ended == [old EXCEPT !.status = "succeeded", !.phase = "deleted"]
           todo == Drop("delete_secret", None, secret.uid)
<1>1. /\ Reading(c, Destroys)
      /\ \/ Proceed(c, begun, <<>>)
         \/ Proceed(c, old, todo)
         \/ ~secret.live /\ Proceed(c, ended, <<>>)
  BY DEF Revoke
<1>2. o \in Destroys /\ old \in Row /\ old.status = "running" BY <1>1, ReadingFacts
<1>3. /\ begun \in Row /\ begun.of = old.of /\ begun.status = "running"
      /\ ended \in Row /\ ended.of = old.of /\ ended.status = "succeeded" /\ ended.phase = "deleted"
  BY <1>2 DEF Row
<1>4. <<>> \in Seq(Permitted(o, old, begun)) /\ <<>> \in Seq(Permitted(o, old, ended)) BY SeqFacts
<1> HIDE DEF begun, ended
<1>5. o \notin Starts /\ o \notin Stops BY <1>2, Facts
<1>6. Active(o, old) = {} /\ Active(o, begun) = {} /\ Active(o, ended) = {} BY <1>2, <1>5 DEF Active
<1>7. todo \in Seq(Permitted(o, old, old))
  <2>1. secret.uid \in Uids BY DEF TypeInv, Object
  <2>2. [do |-> "delete_secret", name |-> None, uid |-> secret.uid, rv |-> Version(None)] \in Permitted(o, old, old)
    BY <2>1, MakeType, PermittedFacts
  <2> QED BY <2>2, SeqFacts DEF Drop
<1> HIDE DEF todo, old, o
<1>8. (Kept(o, old) => Kept(o, begun)) /\ (~secret.live /\ Kept(o, old) => Kept(o, ended))
  BY <1>2, <1>3, <1>5, <1>6 DEF Kept
<1>9. /\ Fits(o, old, begun, <<>>) /\ Fits(o, old, old, todo) /\ (~secret.live => Fits(o, old, ended, <<>>))
  BY <1>2, <1>3, <1>4, <1>7, <1>8 DEF Fits
<1> QED BY <1>1, <1>9 DEF Planned, old, o

LEMMA ReadPlan == ASSUME TypeInv, NEW c \in Callers, Read(c) PROVE Planned(c)
  BY ReservePlan, ClaimPlan, PreparePlan, RemovePreparerPlan, RemoveFailedPlan, LaunchPlan, EnterPlan, RemoveExitedPlan,
     ObservePlan, RemoveReaderPlan, SealPlan, RemoveStoppedPlan, RevokePlan
  DEF Read

--------------------------------------------------------------------------------
(* Types                                                                    *)

LEMMA NoCallType == NoCall \in CallType /\ NoCall.todo = <<>>
<1>1. <<>> \in Seq(Named) BY SeqFacts
<1> QED BY <1>1, NoRowType DEF NoCall, CallType

LEMMA InitTypes == Init => TypeInv
<1> SUFFICES ASSUME Init PROVE TypeInv OBVIOUS
<1>1. rows \in [Ops -> Row] /\ \A t \in Stops : rows[t].status = "none" BY NoRowType, Facts DEF Init
<1>2. order \in Seq(Ops) BY SeqFacts DEF Init
<1>3. secret \in Object /\ svcs \in [Names -> Object] /\ \A n \in Names : ~svcs[n].live BY Facts DEF Init, Object, Uids
<1>4. pods \in [Names -> Pod] /\ \A n \in Names : ~There(n) BY NoPodType DEF Init, There, NoPod
<1>5. content \in Contents /\ faults \in 0..MaxFaults BY Facts DEF Init, Contents
<1>6. loc \in [Callers -> CallType] /\ pc \in [Callers -> {"idle", "read", "act"}] /\ \A c \in Callers : pc[c] = "idle"
  BY NoCallType DEF Init
<1> QED BY <1>1, <1>2, <1>3, <1>4, <1>5, <1>6 DEF Init, TypeInv

LEMMA InsertTypes ==
    ASSUME TypeInv, NEW o \in Ops, NEW r \in Row, o \in Stops => r.of \in Starts, Insert(o, r), spoilt' \in BOOLEAN
    PROVE  TypeInv'
<1> DEFINE row == [r EXCEPT !.status = "running", !.phase = "accepted"]
<1>1. row \in Row /\ row.of = r.of BY DEF Row
<1>2. /\ rows' = [rows EXCEPT ![o] = row] /\ order' = Append(order, o)
      /\ UNCHANGED <<binding, claimed, secret, pods, svcs, content, node, lock, pc, loc, faults>>
  BY DEF Insert, cluster, world, calls
<1> HIDE DEF row
<1>3. rows' \in [Ops -> Row] BY <1>1, <1>2 DEF TypeInv
<1>4. order' \in Seq(Ops) BY <1>2, LastAppended
<1>5. \A t \in Stops : rows'[t].status # "none" => rows'[t].of \in Starts BY <1>1, <1>2, Facts DEF TypeInv
<1> QED BY <1>2, <1>3, <1>4, <1>5 DEF TypeInv, There

LEMMA AcceptTypes == ASSUME TypeInv, Accept PROVE TypeInv'
<1>0. spoilt \in BOOLEAN BY DEF TypeInv
<1>1. CASE AcceptCreate
  <2>1. Insert(Create, NoRow) /\ spoilt' = spoilt BY <1>1 DEF AcceptCreate
  <2> QED BY <1>0, <2>1, NoRowType, InsertTypes, Facts
<1>2. ASSUME NEW s \in Starts, AcceptStart(s) PROVE TypeInv'
  <2> DEFINE row == [NoRow EXCEPT !.secret = rows[Create].secret]
             after == [row EXCEPT !.source = rows[LastOp].saved]
             again == [row EXCEPT !.source = Effective(rows[LastOp]), !.recovery = LastOp]
  <2>1. /\ \/ Insert(s, row)
           \/ LastOp \in Stops /\ Insert(s, after)
           \/ LastOp \in Starts /\ Insert(s, again)
        /\ spoilt' = spoilt
    BY <1>2 DEF AcceptStart
  <2>2. rows[Create] \in Row /\ (LastOp \in Stops \cup Starts => rows[LastOp] \in Row) BY Facts DEF TypeInv
  <2>3. row \in Row BY <2>2, NoRowType DEF Row
  <2>4. LastOp \in Stops => after \in Row
    <3>1. LastOp \in Stops => rows[LastOp].saved \in Contents BY <2>2 DEF Row
    <3> HIDE DEF row
    <3> QED BY <2>3, <3>1 DEF Row
  <2>5. LastOp \in Starts => again \in Row
    <3>1. LastOp \in Starts => Effective(rows[LastOp]) \in Contents BY <2>2, EffectiveType
    <3> HIDE DEF row
    <3> QED BY <2>3, <3>1 DEF Row
  <2>6. s \in Ops /\ s \notin Stops BY Facts
  <2> HIDE DEF row, after, again
  <2> QED BY <1>0, <2>1, <2>3, <2>4, <2>5, <2>6, InsertTypes
<1>3. ASSUME NEW t \in Stops, NEW v \in 0..MaxContent, AcceptStop(t, v) PROVE TypeInv'
  <2> DEFINE row == [NoRow EXCEPT !.of = LastOp, !.saved = v, !.worker = rows[LastOp].worker, !.secret = rows[LastOp].secret]
             wrong == v # content \/ pods[LastOp].frozen # t \/ pods[LastOp].state # "loaded" \/ pods[LastOp].deleting
  <2>1. LastOp \in Starts /\ Insert(t, row) /\ spoilt' = (spoilt \/ wrong) BY <1>3 DEF AcceptStop
  <2>2. rows[LastOp] \in Row /\ LastOp \in Ops BY <2>1, Facts DEF TypeInv
  <2>3. rows[LastOp].worker \in Pair /\ rows[LastOp].secret \in Uids BY <2>2 DEF Row
  <2>4. v \in Contents BY Facts DEF Contents
  <2>5. row \in Row /\ row.of = LastOp BY <2>2, <2>3, <2>4, NoRowType DEF Row
  <2> HIDE DEF row
  <2>6. spoilt' \in BOOLEAN BY <2>1, Zenon
  <2> QED BY <2>1, <2>5, <2>6, InsertTypes, Facts
<1>4. ASSUME NEW d \in Destroys, AcceptDestroy(d) PROVE TypeInv'
  <2> DEFINE row == [NoRow EXCEPT !.of = LastOp, !.secret = rows[Create].secret]
  <2>1. LastOp \in {Create} \cup Stops /\ Insert(d, row) /\ spoilt' = spoilt BY <1>4 DEF AcceptDestroy
  <2>2. rows[Create].secret \in Uids /\ LastOp \in Ops BY <2>1, Facts DEF TypeInv, Row
  <2>3. row \in Row BY <2>2, NoRowType DEF Row
  <2>4. d \in Ops /\ d \notin Stops BY Facts
  <2> HIDE DEF row
  <2> QED BY <1>0, <2>1, <2>3, <2>4, InsertTypes
<1> QED BY <1>1, <1>2, <1>3, <1>4 DEF Accept

LEMMA BeginTypes == ASSUME TypeInv, NEW c \in Callers, NEW o \in Ops, Begin(c, o) PROVE TypeInv'
<1> DEFINE call == [NoCall EXCEPT !.op = o, !.row = rows[o]]
<1>1. rows[o].status = "running" /\ lock' = c /\ pc' = [pc EXCEPT ![c] = "read"] /\ loc' = [loc EXCEPT ![c] = call]
      /\ UNCHANGED <<rows, order, binding, claimed, secret, pods, svcs, content, node, faults, spoilt>>
  BY DEF Begin, ledger, cluster, world
<1>2. rows[o] \in Row /\ (o \in Stops => rows[o].of \in Starts) BY <1>1 DEF TypeInv
<1>3. call \in CallType /\ call.op = o /\ call.row = rows[o] BY <1>2, NoCallType DEF CallType
<1> HIDE DEF call
<1>4. loc' \in [Callers -> CallType] /\ pc' \in [Callers -> {"idle", "read", "act"}] BY <1>1, <1>3 DEF TypeInv
<1>5. \A k \in Callers :
        /\ pc'[k] # "idle" => loc'[k].op \in Ops
        /\ pc'[k] = "read" => loc'[k].row.status = "running"
        /\ pc'[k] # "idle" /\ loc'[k].op \in Stops => loc'[k].row.of \in Starts
  BY <1>1, <1>2, <1>3 DEF TypeInv
<1> QED BY <1>1, <1>4, <1>5 DEF TypeInv, There

LEMMA PlannedTypes == ASSUME TypeInv, NEW c \in Callers, Read(c) PROVE TypeInv'
<1>0. pc[c] = "read"
  BY DEF Read, Reserve, ClaimVolume, PrepareContent, RemovePreparer, RemoveFailed, Launch, EnterSavedRecovery, RemoveExited,
         ObserveCopy, RemoveReader, Seal, RemoveStopped, Revoke, Reading
<1>1. PICK row, todo : Proceed(c, row, todo) /\ Fits(loc[c].op, loc[c].row, row, todo) BY ReadPlan DEF Planned
<1>2. row \in Row /\ todo \in Seq(Named) /\ row.of = loc[c].row.of
  <2>1. todo \in Seq(Permitted(loc[c].op, loc[c].row, row)) BY <1>1 DEF Fits
  <2>2. \A i \in DOMAIN todo : todo[i] \in Named BY <2>1, SeqFacts DEF Permitted
  <2> QED BY <1>1, <2>1, <2>2, SeqWiden DEF Fits
<1>3. pc' = [pc EXCEPT ![c] = "act"] /\ loc' = [loc EXCEPT ![c].row = row, ![c].todo = todo]
      /\ UNCHANGED <<rows, order, binding, claimed, secret, pods, svcs, content, node, lock, faults, spoilt>>
  BY <1>1 DEF Proceed, ledger, cluster, world
<1>4. loc[c] \in CallType /\ loc[c].op \in Ops /\ (loc[c].op \in Stops => loc[c].row.of \in Starts) BY <1>0 DEF TypeInv
<1>5. /\ loc'[c] \in CallType /\ loc'[c].op = loc[c].op /\ loc'[c].row = row /\ pc'[c] = "act"
      /\ \A k \in Callers : k # c => loc'[k] = loc[k] /\ pc'[k] = pc[k]
      /\ pc' \in [Callers -> {"idle", "read", "act"}]
  BY <1>2, <1>3, <1>4 DEF TypeInv, CallType
<1>6. loc' \in [Callers -> CallType] BY <1>3, <1>5 DEF TypeInv
<1>7. \A k \in Callers :
        /\ pc'[k] # "idle" => loc'[k].op \in Ops
        /\ pc'[k] = "read" => loc'[k].row.status = "running"
        /\ pc'[k] # "idle" /\ loc'[k].op \in Stops => loc'[k].row.of \in Starts
  BY <1>2, <1>4, <1>5 DEF TypeInv
<1> QED BY <1>3, <1>5, <1>6, <1>7 DEF TypeInv, There

\* A call that ends leaves a well-typed nothing.
LEMMA EndTypes ==
    ASSUME TypeInv, NEW c \in Callers, End(c), UNCHANGED <<cluster, world, order, spoilt>>, faults' \in 0..MaxFaults,
           rows' \in [Ops -> Row], binding' \in {"none", "held", "retained"},
           \A t \in Stops : rows'[t].status # "none" => rows'[t].of \in Starts
    PROVE  TypeInv'
<1>1. pc' = [pc EXCEPT ![c] = "idle"] /\ loc' = [loc EXCEPT ![c] = NoCall] /\ lock' \in {lock, None} BY DEF End
<1>2. UNCHANGED <<claimed, secret, pods, svcs, content, node>> BY DEF cluster, world
<1>3. loc' \in [Callers -> CallType] /\ pc' \in [Callers -> {"idle", "read", "act"}] /\ lock' \in Callers \cup {None}
  BY <1>1, NoCallType DEF TypeInv
<1>4. \A k \in Callers :
        /\ pc'[k] # "idle" => loc'[k].op \in Ops
        /\ pc'[k] = "read" => loc'[k].row.status = "running"
        /\ pc'[k] # "idle" /\ loc'[k].op \in Stops => loc'[k].row.of \in Starts
  BY <1>1 DEF TypeInv
<1> QED BY <1>2, <1>3, <1>4 DEF TypeInv, There

LEMMA CommitTypes == ASSUME TypeInv, NEW c \in Callers, Commit(c) PROVE TypeInv'
<1> DEFINE o == loc[c].op
<1>1. /\ pc[c] = "act" /\ End(c) /\ UNCHANGED <<order, cluster, world, faults, spoilt>>
      /\ rows' \in {rows, [rows EXCEPT ![o] = loc[c].row]} /\ binding' \in {binding, "held", "retained"}
  BY DEF Commit
<1>2. loc[c] \in CallType /\ o \in Ops /\ (o \in Stops => loc[c].row.of \in Starts) BY <1>1 DEF TypeInv
<1>3. rows' \in [Ops -> Row] BY <1>1, <1>2 DEF TypeInv, CallType
<1>4. \A t \in Stops : rows'[t].status # "none" => rows'[t].of \in Starts BY <1>1, <1>2, Facts DEF TypeInv
<1>5. faults' \in 0..MaxFaults /\ binding' \in {"none", "held", "retained"} BY <1>1 DEF TypeInv
<1> QED BY <1>1, <1>3, <1>4, <1>5, EndTypes

LEMMA OverTypes ==
    ASSUME TypeInv, NEW c \in Callers, Refuse(c) \/ Rejected(c) \/ Interrupt(c) PROVE TypeInv'
<1>1. End(c) /\ UNCHANGED <<ledger, cluster, world, spoilt>> /\ faults' \in 0..MaxFaults
  BY Facts DEF Refuse, Rejected, Interrupt, Fault, TypeInv
<1>2. UNCHANGED <<rows, order, binding>> BY <1>1 DEF ledger
<1> QED BY <1>1, <1>2, EndTypes DEF TypeInv

--------------------------------------------------------------------------------
(* Effects                                                                  *)

\* An effect changes nothing in the row but the UIDs it records.
Reshaped(old, new) ==
    /\ new \in Row /\ new.status = old.status /\ new.phase = old.phase /\ new.of = old.of /\ new.saved = old.saved
    /\ new.recovery = old.recovery /\ new.stage = old.stage /\ new.source = old.source /\ new.copy = old.copy

LEMMA RecordUid ==
    ASSUME NEW r \in Row, NEW u \in Uids, NEW f \in {"worker", "helper"}
    PROVE  /\ Reshaped(r, [r EXCEPT ![f].svc = u]) /\ Reshaped(r, [r EXCEPT ![f].pod = u])
           /\ Reshaped(r, [r EXCEPT !.secret = u]) /\ Reshaped(r, r)
<1>1. r.worker \in Pair /\ r.helper \in Pair BY DEF Row
<1>2. /\ [r.worker EXCEPT !.svc = u] \in Pair /\ [r.worker EXCEPT !.pod = u] \in Pair
      /\ [r.helper EXCEPT !.svc = u] \in Pair /\ [r.helper EXCEPT !.pod = u] \in Pair
  BY <1>1 DEF Pair
<1>3. CASE f = "worker"
  <2>1. Reshaped(r, [r EXCEPT !.worker.svc = u]) BY <1>2 DEF Row, Reshaped
  <2>2. Reshaped(r, [r EXCEPT !.worker.pod = u]) BY <1>2 DEF Row, Reshaped
  <2> QED BY <1>3, <2>1, <2>2 DEF Row, Reshaped
<1>4. CASE f = "helper"
  <2>1. Reshaped(r, [r EXCEPT !.helper.svc = u]) BY <1>2 DEF Row, Reshaped
  <2>2. Reshaped(r, [r EXCEPT !.helper.pod = u]) BY <1>2 DEF Row, Reshaped
  <2> QED BY <1>4, <2>1, <2>2 DEF Row, Reshaped
<1> QED BY <1>3, <1>4

\* What effect e of call c does: row is the call's row after it.
Performed(c, e, row) ==
    /\ Reshaped(loc[c].row, row) /\ loc' = [loc EXCEPT ![c].row = row, ![c].todo = Tail(@)]
    /\ claimed' \in BOOLEAN /\ secret' \in Object /\ pods' \in [Names -> Pod] /\ svcs' \in [Names -> Object]
    /\ secret'.live => secret.live \/ e.do = "secret"
    /\ \A n \in Names : svcs'[n].live => svcs'[n].uid # 0 /\ (svcs[n].live \/ (e.do \in Creations /\ e.name = n))
    /\ \A n \in Names : pods'[n].state # "absent" =>
         /\ pods'[n].uid # 0
         /\ (There(n) /\ pods'[n].frozen = pods[n].frozen) \/ (e.do \in Creations /\ e.name = n)

LEMMA PerformFacts ==
    ASSUME TypeInv, NEW c \in Callers, Perform(c)
    PROVE  /\ pc[c] = "act" /\ loc[c].todo # <<>> /\ loc[c].todo \in Seq(Named)
           /\ UNCHANGED <<rows, order, binding, content, node, lock, pc, faults, spoilt>>
           /\ \E row : Performed(c, Head(loc[c].todo), row)
<1> DEFINE e == Head(loc[c].todo)  n == e.name  r == loc[c].row
<1>0. /\ pc[c] = "act" /\ loc[c].todo # <<>>
      /\ \/ e.do = "claim" /\ claimed' = TRUE /\ Done(c, r) /\ UNCHANGED <<secret, pods, svcs>>
         \/ /\ e.do = "secret" /\ ~secret.live /\ secret.uid < MaxUid
            /\ secret' = [uid |-> secret.uid + 1, live |-> TRUE] /\ Done(c, [r EXCEPT !.secret = secret.uid + 1])
            /\ UNCHANGED <<claimed, pods, svcs>>
         \/ /\ e.do = "create_svc" /\ ~svcs[n].live /\ svcs[n].uid < MaxUid
            /\ svcs' = [svcs EXCEPT ![n] = [uid |-> @.uid + 1, live |-> TRUE]]
            /\ Done(c, [r EXCEPT ![Field(n)].svc = svcs[n].uid + 1]) /\ UNCHANGED <<claimed, secret, pods>>
         \/ /\ e.do = "create_pod" /\ ~There(n) /\ pods[n].uid < MaxUid
            /\ pods' = [pods EXCEPT ![n] = [NoPod EXCEPT !.uid = pods[n].uid + 1, !.state = "starting",
                                                         !.source = IF n \in Starts THEN Effective(r) ELSE 0]]
            /\ Done(c, [r EXCEPT ![Field(n)].pod = pods[n].uid + 1]) /\ UNCHANGED <<claimed, secret, svcs>>
         \/ /\ e.do = "delete_svc" /\ svcs' = [svcs EXCEPT ![n].live = FALSE] /\ Done(c, r) /\ UNCHANGED <<claimed, secret, pods>>
         \/ /\ e.do = "delete_pod" /\ pods' = [pods EXCEPT ![n].deleting = There(n)] /\ Done(c, r)
            /\ UNCHANGED <<claimed, secret, svcs>>
         \/ /\ e.do = "delete_secret" /\ secret' = [secret EXCEPT !.live = FALSE] /\ Done(c, r) /\ UNCHANGED <<claimed, pods, svcs>>
      /\ UNCHANGED <<ledger, world, faults, spoilt>>
  BY ZenonT(60) DEF Perform
<1>1. UNCHANGED <<rows, order, binding, content, node, faults, spoilt>> BY ZenonT(60), <1>0 DEF ledger, world
<1>2. UNCHANGED <<lock, pc>> BY <1>0 DEF Done
<1>3. loc[c] \in CallType BY DEF TypeInv
<1>4. r \in Row /\ loc[c].todo \in Seq(Named) BY SMTT(40), <1>3 DEF CallType
<1>5. e \in Named BY <1>0, <1>4, SeqFacts
<1>6. e.do \in Removals \cup Creations => n \in Names BY <1>5 DEF Named
<1>7. /\ claimed \in BOOLEAN /\ secret \in Object /\ pods \in [Names -> Pod] /\ svcs \in [Names -> Object]
      /\ \A m \in Names : (There(m) => pods[m].uid # 0) /\ (svcs[m].live => svcs[m].uid # 0)
  BY DEF TypeInv
<1>8. Reshaped(r, r) BY SMTT(40), <1>4 DEF Reshaped
<1> HIDE DEF e, r
<1>9. CASE e.do \in {"claim", "delete_secret"}
  <2>1. Done(c, r) /\ claimed' \in BOOLEAN /\ pods' = pods /\ svcs' = svcs BY <1>0, <1>7, <1>9
  <2>2. secret' = secret \/ secret' = [secret EXCEPT !.live = FALSE] BY <1>0, <1>9
  <2>3. secret' \in Object /\ (secret'.live => secret.live) BY <1>7, <2>2 DEF Object
  <2> QED BY <1>0, <1>1, <1>2, <1>4, <1>7, <1>8, <2>1, <2>3 DEF Performed, Done, There, e, r
<1>10. CASE e.do = "secret"
  <2> DEFINE row == [r EXCEPT !.secret = secret.uid + 1]
  <2>1. /\ secret.uid < MaxUid /\ secret' = [uid |-> secret.uid + 1, live |-> TRUE] /\ Done(c, row)
        /\ UNCHANGED <<claimed, pods, svcs>>
    BY <1>0, <1>10
  <2>2. secret.uid + 1 \in Uids BY <1>7, <2>1, Facts DEF Object, Uids
  <2>3. Reshaped(r, row) /\ secret' \in Object BY <1>4, <2>1, <2>2, RecordUid DEF Object
  <2> HIDE DEF row
  <2>4. Performed(c, e, row) BY <1>7, <1>10, <2>1, <2>3 DEF Performed, Done, There, r
  <2> QED BY <1>0, <1>1, <1>2, <1>4, <2>4 DEF e
<1>11. CASE e.do = "create_svc"
  <2> DEFINE u == svcs[n].uid + 1  row == [r EXCEPT ![Field(n)].svc = u]
  <2>0. n \in Names BY <1>6, <1>11 DEF Creations
  <2>1. /\ svcs[n].uid < MaxUid /\ svcs' = [svcs EXCEPT ![n] = [uid |-> u, live |-> TRUE]]
        /\ Done(c, row) /\ UNCHANGED <<claimed, secret, pods>>
    BY <1>0, <1>7, <1>11, <2>0
  <2>2. u \in Uids /\ u # 0 BY <1>7, <2>0, <2>1, Facts DEF Object, Uids
  <2>3. Reshaped(r, row) BY <1>4, <2>2, RecordUid DEF Field
  <2> HIDE DEF row, u
  <2>4. svcs' \in [Names -> Object] /\ \A m \in Names : svcs'[m] = IF m = n THEN [uid |-> u, live |-> TRUE] ELSE svcs[m]
    BY <1>7, <2>0, <2>1, <2>2 DEF Object
  <2>5. \A m \in Names : svcs'[m].live => svcs'[m].uid # 0 /\ (svcs[m].live \/ (e.do \in Creations /\ n = m))
    BY <1>7, <1>11, <2>2, <2>4 DEF Creations
  <2>6. Performed(c, e, row) BY <1>7, <2>1, <2>3, <2>4, <2>5 DEF Performed, Done, There, r
  <2> QED BY <1>0, <1>1, <1>2, <1>4, <2>6 DEF e
<1>12. CASE e.do = "create_pod"
  <2> DEFINE u == pods[n].uid + 1  row == [r EXCEPT ![Field(n)].pod = u]
             v == IF n \in Starts THEN Effective(r) ELSE 0
             pod == [NoPod EXCEPT !.uid = u, !.state = "starting", !.source = v]
  <2>0. n \in Names BY <1>6, <1>12 DEF Creations
  <2>1. /\ pods[n].uid < MaxUid /\ pods' = [pods EXCEPT ![n] = pod]
        /\ Done(c, row) /\ UNCHANGED <<claimed, secret, svcs>>
    BY <1>0, <1>7, <1>12, <2>0
  <2>2. u \in Uids /\ u # 0 BY <1>7, <2>0, <2>1, Facts DEF Pod, Uids
  <2>3. Reshaped(r, row) BY <1>4, <2>2, RecordUid DEF Field
  <2>4. v \in Contents BY <1>4, EffectiveType, Facts DEF Contents
  <2> HIDE DEF row, u, v
  <2>5. pod \in Pod /\ pod.uid = u BY <2>2, <2>4, NoPodType DEF NoPod
  <2> HIDE DEF pod
  <2>6. pods' \in [Names -> Pod] /\ \A m \in Names : pods'[m] = IF m = n THEN pod ELSE pods[m]
    BY <1>7, <2>0, <2>1, <2>5
  <2>7. \A m \in Names : pods'[m].state # "absent" =>
          pods'[m].uid # 0 /\ ((There(m) /\ pods'[m].frozen = pods[m].frozen) \/ (e.do \in Creations /\ n = m))
    BY <1>7, <1>12, <2>2, <2>5, <2>6 DEF Creations, There
  <2>8. Performed(c, e, row) BY SMTT(40), <1>7, <2>1, <2>3, <2>6, <2>7 DEF Performed, Done, r
  <2> QED BY <1>0, <1>1, <1>2, <1>4, <2>8 DEF e
<1>13. CASE e.do = "delete_svc"
  <2>0. n \in Names BY <1>6, <1>13 DEF Removals
  <2>1. svcs' = [svcs EXCEPT ![n].live = FALSE] /\ Done(c, r) /\ UNCHANGED <<claimed, secret, pods>> BY <1>0, <1>13
  <2>2. svcs' \in [Names -> Object] /\ \A m \in Names : svcs'[m].live => svcs[m].live /\ svcs'[m].uid = svcs[m].uid
    BY <1>7, <2>0, <2>1 DEF Object
  <2>3. Performed(c, e, r) BY <1>7, <1>8, <2>1, <2>2 DEF Performed, Done, There, r
  <2> QED BY <1>0, <1>1, <1>2, <1>4, <2>3 DEF e
<1>14. CASE e.do = "delete_pod"
  <2>0. n \in Names BY <1>6, <1>14 DEF Removals
  <2>1. pods' = [pods EXCEPT ![n].deleting = There(n)] /\ Done(c, r) /\ UNCHANGED <<claimed, secret, svcs>> BY <1>0, <1>14
  <2>2. There(n) \in BOOLEAN BY DEF There
  <2>3. /\ pods' \in [Names -> Pod]
        /\ \A m \in Names : pods'[m].state = pods[m].state /\ pods'[m].uid = pods[m].uid /\ pods'[m].frozen = pods[m].frozen
    BY <1>7, <2>0, <2>1, <2>2 DEF Pod
  <2>4. Performed(c, e, r) BY <1>7, <1>8, <2>1, <2>3 DEF Performed, Done, There, r
  <2> QED BY <1>0, <1>1, <1>2, <1>4, <2>4 DEF e
<1> QED BY SMTT(40), <1>0, <1>9, <1>10, <1>11, <1>12, <1>13, <1>14

LEMMA PerformTypes == ASSUME TypeInv, NEW c \in Callers, Perform(c) PROVE TypeInv'
<1>1. /\ pc[c] = "act" /\ loc[c].todo # <<>> /\ loc[c].todo \in Seq(Named)
      /\ UNCHANGED <<rows, order, binding, content, node, lock, pc, faults, spoilt>>
  BY PerformFacts
<1>2. PICK row : Performed(c, Head(loc[c].todo), row) BY PerformFacts
<1>3. /\ Reshaped(loc[c].row, row) /\ loc' = [loc EXCEPT ![c].row = row, ![c].todo = Tail(@)]
      /\ claimed' \in BOOLEAN /\ secret' \in Object /\ pods' \in [Names -> Pod] /\ svcs' \in [Names -> Object]
      /\ \A n \in Names : (pods'[n].state # "absent" => pods'[n].uid # 0) /\ (svcs'[n].live => svcs'[n].uid # 0)
  BY <1>2 DEF Performed
<1>4. Tail(loc[c].todo) \in Seq(Named) BY <1>1, SeqFacts
<1>5. loc[c] \in CallType /\ loc[c].op \in Ops /\ (loc[c].op \in Stops => loc[c].row.of \in Starts) BY <1>1 DEF TypeInv
<1>6. /\ loc'[c] \in CallType /\ loc'[c].op = loc[c].op /\ loc'[c].row = row
      /\ \A k \in Callers : k # c => loc'[k] = loc[k]
  BY <1>3, <1>4, <1>5 DEF TypeInv, CallType, Reshaped
<1>7. loc' \in [Callers -> CallType] BY <1>3, <1>6 DEF TypeInv
<1>8. \A k \in Callers :
        /\ pc'[k] # "idle" => loc'[k].op \in Ops
        /\ pc'[k] = "read" => loc'[k].row.status = "running"
        /\ pc'[k] # "idle" /\ loc'[k].op \in Stops => loc'[k].row.of \in Starts
  BY <1>1, <1>3, <1>5, <1>6 DEF TypeInv, Reshaped
<1> QED BY <1>1, <1>3, <1>7, <1>8 DEF TypeInv, There

--------------------------------------------------------------------------------
(* The world around                                                         *)

\* The cluster and the node change Pods: they make none, and change no freeze but to set one.
WorldStep ==
    /\ External /\ pods' \in [Names -> Pod]
    /\ \A n \in Names : pods'[n].state # "absent" =>
         /\ There(n) /\ pods'[n].uid = pods[n].uid
         /\ pods'[n].frozen = pods[n].frozen \/ pods'[n].frozen # None
    /\ content' \in Contents /\ node' \in BOOLEAN /\ faults' \in 0..MaxFaults /\ spoilt' \in BOOLEAN

LEMMA WorldTypes == ASSUME TypeInv, WorldStep PROVE TypeInv'
<1>1. UNCHANGED <<rows, order, binding, claimed, secret, svcs, lock, pc, loc>>
  BY DEF WorldStep, External, ledger, calls
<1>2. \A n \in Names : (pods'[n].state # "absent" => pods'[n].uid # 0) BY DEF WorldStep, TypeInv
<1> QED BY <1>1, <1>2 DEF TypeInv, WorldStep, There

\* A Pod that is there moves to another state of being there.
LEMMA RunFacts ==
    ASSUME TypeInv, NEW n \in Names, NEW state \in {"ready", "loaded", "exited"}, There(n), Run(n, state)
    PROVE  /\ pods' \in [Names -> Pod]
           /\ \A m \in Names : pods'[m].state # "absent" =>
                There(m) /\ pods'[m].uid = pods[m].uid /\ pods'[m].frozen = pods[m].frozen
<1>1. pods \in [Names -> Pod] /\ pods' = [pods EXCEPT ![n].state = state] BY DEF TypeInv, Run
<1>2. [pods[n] EXCEPT !.state = state] \in Pod BY <1>1 DEF Pod
<1>3. pods' \in [Names -> Pod] /\ \A m \in Names : pods'[m].uid = pods[m].uid /\ pods'[m].frozen = pods[m].frozen
      /\ (m # n => pods'[m] = pods[m])
  BY <1>1, <1>2 DEF Pod
<1> QED BY <1>3 DEF There

LEMMA AroundWorld ==
    ASSUME TypeInv, Around \/ (\E n \in Names : Exit(n) \/ Evict(n)) \/ NodeLost
    PROVE  WorldStep
<1>0. /\ pods \in [Names -> Pod] /\ content \in Contents /\ node \in BOOLEAN /\ faults \in 0..MaxFaults /\ spoilt \in BOOLEAN
  BY DEF TypeInv
<1>1. \A n \in Names : pods[n].state # "absent" => There(n) BY DEF There
<1>2. ASSUME NEW n \in Names, PodReady(n) PROVE WorldStep
  <2>1. There(n) /\ Run(n, "ready") /\ External /\ UNCHANGED <<content, node, faults, spoilt>>
    BY <1>2 DEF PodReady, There, world
  <2> QED BY <1>0, <2>1, RunFacts DEF WorldStep
<1>3. ASSUME NEW n \in Names, PodGone(n) PROVE WorldStep
  <2> DEFINE gone == [NoPod EXCEPT !.uid = pods[n].uid]
  <2>1. pods' = [pods EXCEPT ![n] = gone] /\ External /\ UNCHANGED <<content, node, faults, spoilt>>
    BY <1>3 DEF PodGone, world
  <2>2. pods[n].uid \in Uids BY <1>0 DEF Pod
  <2>3. gone \in Pod /\ gone.state = "absent" BY <2>2, NoPodType
  <2> HIDE DEF gone
  <2>4. pods' \in [Names -> Pod] /\ \A m \in Names : pods'[m].state # "absent" => pods'[m] = pods[m] /\ There(m)
    BY <1>0, <2>1, <2>3 DEF There
  <2> QED BY <1>0, <2>1, <2>4 DEF WorldStep
<1>4. ASSUME NEW s \in Starts, Load(s) PROVE WorldStep
  <2>1. /\ s \in Names /\ There(s) /\ (Run(s, "loaded") \/ Run(s, "exited")) /\ External
        /\ UNCHANGED <<content, node, faults, spoilt>>
    BY <1>4, Facts DEF Load, There, world
  <2> QED BY <1>0, <2>1, RunFacts DEF WorldStep
<1>5. ASSUME NEW s \in Starts, Save(s) PROVE WorldStep
  <2>1. content' = content + 1 /\ content < MaxContent /\ External /\ UNCHANGED <<pods, node, faults, spoilt>>
    BY <1>5 DEF Save
  <2>2. content' \in Contents BY <1>0, <2>1, Facts DEF Contents
  <2> QED BY <1>0, <1>1, <2>1, <2>2 DEF WorldStep
<1>6. ASSUME NEW s \in Starts, NEW t \in Stops, Freeze(s, t) PROVE WorldStep
  <2>1. s \in Names /\ t # None /\ pods' = [pods EXCEPT ![s].frozen = t] /\ External /\ UNCHANGED <<content, node, faults, spoilt>>
    BY <1>6, Facts DEF Freeze, world
  <2>2. [pods[s] EXCEPT !.frozen = t] \in Pod BY <1>0, <2>1 DEF Pod
  <2>3. /\ pods' \in [Names -> Pod]
        /\ \A m \in Names : /\ pods'[m].state = pods[m].state /\ pods'[m].uid = pods[m].uid
                            /\ pods'[m].frozen \in {pods[m].frozen, t}
    BY <1>0, <2>1, <2>2 DEF Pod
  <2> QED BY <1>0, <1>1, <2>1, <2>3 DEF WorldStep
<1>7. CASE Upload
  <2>1. content' = 0 /\ External /\ UNCHANGED <<pods, node, faults, spoilt>> BY <1>7 DEF Upload
  <2>2. content' \in Contents BY <2>1, Facts DEF Contents
  <2> QED BY <1>0, <1>1, <2>1, <2>2 DEF WorldStep
<1>8. CASE NodeBack
  <2>1. node' = TRUE /\ External /\ UNCHANGED <<pods, content, faults, spoilt>> BY <1>8 DEF NodeBack
  <2> QED BY <1>0, <1>1, <2>1 DEF WorldStep
<1>9. ASSUME NEW n \in Names, Exit(n) PROVE WorldStep
  <2>1. There(n) /\ Run(n, "exited") /\ External /\ UNCHANGED <<content, node>> /\ faults' = faults + 1 /\ faults < MaxFaults
    BY <1>9 DEF Exit, Fault, There, world
  <2>2. spoilt' = (spoilt \/ ~(Recoverable(n) \/ Sealed(n))) BY <1>9 DEF Exit
  <2>3. spoilt' \in BOOLEAN BY <2>2, Zenon
  <2>4. faults' \in 0..MaxFaults BY <1>0, <2>1, Facts
  <2> QED BY <1>0, <2>1, <2>3, <2>4, RunFacts DEF WorldStep
<1>10. ASSUME NEW n \in Names, Evict(n) PROVE WorldStep
  <2>1. pods' = [pods EXCEPT ![n].deleting = TRUE] /\ External /\ UNCHANGED <<content, node>> /\ spoilt' = TRUE
        /\ faults' = faults + 1 /\ faults < MaxFaults
    BY <1>10 DEF Evict, Fault, world
  <2>2. [pods[n] EXCEPT !.deleting = TRUE] \in Pod BY <1>0 DEF Pod
  <2>3. /\ pods' \in [Names -> Pod]
        /\ \A m \in Names : pods'[m].state = pods[m].state /\ pods'[m].uid = pods[m].uid /\ pods'[m].frozen = pods[m].frozen
    BY <1>0, <2>1, <2>2 DEF Pod
  <2>4. faults' \in 0..MaxFaults BY <1>0, <2>1, Facts
  <2> QED BY <1>0, <1>1, <2>1, <2>3, <2>4 DEF WorldStep
<1>11. CASE NodeLost
  <2>1. node' = FALSE /\ External /\ UNCHANGED <<pods, content, spoilt>> /\ faults' = faults + 1 /\ faults < MaxFaults
    BY <1>11 DEF NodeLost, Fault
  <2>2. faults' \in 0..MaxFaults BY <1>0, <2>1, Facts
  <2> QED BY <1>0, <1>1, <2>1, <2>2 DEF WorldStep
<1> QED BY <1>2, <1>3, <1>4, <1>5, <1>6, <1>7, <1>8, <1>9, <1>10, <1>11 DEF Around

LEMMA LossTypes == ASSUME TypeInv, NEW c \in Callers, SessionLoss(c) PROVE TypeInv'
<1>1. /\ lock' = None /\ faults' \in 0..MaxFaults
      /\ UNCHANGED <<rows, order, binding, claimed, secret, pods, svcs, content, node, pc, loc, spoilt>>
  BY Facts DEF SessionLoss, Fault, ledger, cluster, world, TypeInv
<1> QED BY <1>1 DEF TypeInv, There

LEMMA StutterTypes == ASSUME TypeInv, UNCHANGED vars PROVE TypeInv'
  BY DEF TypeInv, There, vars, ledger, cluster, world, calls

LEMMA NextTypes == ASSUME TypeInv, [Next]_vars PROVE TypeInv'
<1>1. CASE Accept BY <1>1, AcceptTypes
<1>2. ASSUME NEW c \in Callers, Work(c) PROVE TypeInv'
  BY <1>2, BeginTypes, PlannedTypes, OverTypes, PerformTypes, CommitTypes DEF Work
<1>3. CASE Around BY <1>3, AroundWorld, WorldTypes
<1>4. CASE Disturb BY <1>4, AroundWorld, WorldTypes, OverTypes, LossTypes DEF Disturb
<1>5. CASE UNCHANGED vars BY <1>5, StutterTypes
<1> QED BY <1>1, <1>2, <1>3, <1>4, <1>5 DEF Next

LEMMA TypesAlways == Spec => []TypeInv
<1>1. Init => TypeInv BY InitTypes
<1>2. TypeInv /\ [Next]_vars => TypeInv' BY NextTypes
<1> QED BY <1>1, <1>2, PTL DEF Spec

\* Every variable of the instances service's model keeps its type, whatever fails: rows, Pods, calls and their
\* effects are well formed, and no UID, content or fault count leaves its bounds (RuntimeInstance!TypeOK).
THEOREM InstanceTypes == Spec => []TypeOK
<1>1. TypeInv => TypeOK
  <2> SUFFICES ASSUME TypeInv PROVE TypeOK OBVIOUS
  <2>1. \A i \in DOMAIN order : order[i] \in Ops BY SeqFacts DEF TypeInv
  <2>2. ASSUME NEW c \in Callers
        PROVE  /\ loc[c].op \in Ops \cup {None} /\ loc[c].row \in Row
               /\ \A i \in DOMAIN loc[c].todo : loc[c].todo[i] \in Effect
    <3>1. loc[c] \in CallType BY DEF TypeInv
    <3>2. loc[c].todo \in Seq(Named) BY <3>1 DEF CallType
    <3>3. \A i \in DOMAIN loc[c].todo : loc[c].todo[i] \in Named BY <3>2, SeqFacts
    <3> QED BY <3>1, <3>3 DEF CallType, Named
  <2> QED BY <2>1, <2>2 DEF TypeInv, TypeOK
<1> QED BY <1>1, TypesAlways, PTL

--------------------------------------------------------------------------------
(* What the newest row says stays true                                      *)

\* Nothing new in the cluster, and no change of content after a seal.
LEMMA KeptStays ==
    ASSUME NEW o, NEW r, Kept(o, r), secret'.live => secret.live, \A n \in Names : svcs'[n].live => svcs[n].live,
           \A n \in Names : pods'[n].state # "absent" =>
             There(n) /\ (pods'[n].frozen = pods[n].frozen \/ pods'[n].frozen # None),
           o \in Stops /\ r.phase \in {"removing", "stopped"} => content' = content
    PROVE  Kept(o, r)'
<1>1. Live' \subseteq Live BY DEF Live, There
<1>2. \A s \in Starts : (There(s) => pods[s].frozen # None) => (There(s)' => pods'[s].frozen # None) BY Facts DEF There
<1> QED BY <1>1, <1>2 DEF Kept

\* An effect that the row permits, or a harmless one.
LEMMA PerformKept ==
    ASSUME NEW o, NEW r, NEW c \in Callers, NEW e, NEW row, Kept(o, r), Performed(c, e, row), content' = content,
           e.do \in Creations => o \notin Stops /\ e.name \in Active(o, r), e.do = "secret" => o = Create
    PROVE  Kept(o, r)'
<1>1. /\ \A n \in Names : svcs'[n].live => svcs[n].live \/ (e.do \in Creations /\ e.name = n)
      /\ \A n \in Names : pods'[n].state # "absent" =>
           (There(n) /\ pods'[n].frozen = pods[n].frozen) \/ (e.do \in Creations /\ e.name = n)
      /\ secret'.live => secret.live \/ e.do = "secret"
  BY DEF Performed
<1>2. Live' \subseteq Active(o, r)
  <2> SUFFICES ASSUME NEW n \in Names, There(n)' \/ svcs'[n].live PROVE n \in Active(o, r) BY DEF Live
  <2>1. CASE e.do \in Creations /\ e.name = n BY <2>1
  <2>2. CASE ~(e.do \in Creations /\ e.name = n)
    <3>1. There(n) \/ svcs[n].live BY <1>1, <2>2 DEF There
    <3> QED BY <3>1 DEF Kept, Live
  <2> QED BY <2>1, <2>2
<1>3. o \in Destroys /\ ~secret.live => ~secret'.live BY <1>1, Facts
<1>4. o \in Stops => \A s \in Starts : (There(s) => pods[s].frozen # None) => (There(s)' => pods'[s].frozen # None)
  BY <1>1, Facts DEF There
<1> QED BY <1>2, <1>3, <1>4 DEF Kept

\* Between a seal and the next start nothing writes to the volume: there is no preparer, and the worker is frozen.
LEMMA SealedContent ==
    ASSUME TypeInv, Around \/ (\E n \in Names : Exit(n) \/ Evict(n)) \/ NodeLost,
           NEW o \in Stops, NEW r, Kept(o, r), r.of \in Starts, r.phase \in {"removing", "stopped"}
    PROVE  content' = content
<1>1. ~Upload
  <2>1. o \notin Starts /\ o \notin Destroys /\ o # Create /\ Prepare \in Names /\ Prepare \notin Starts BY Facts
  <2>2. Prepare \notin Active(o, r) BY <2>1 DEF Active
  <2>3. ~There(Prepare) BY <2>1, <2>2 DEF Kept, Live
  <2> QED BY <2>3 DEF Upload, There
<1>2. \A s \in Starts : ~Save(s)
  <2>1. \A s \in Starts : There(s) => pods[s].frozen # None BY DEF Kept
  <2> QED BY <2>1 DEF Save, There
<1> QED BY <1>1, <1>2 DEF Around, PodReady, PodGone, Load, Freeze, NodeBack, Exit, Evict, NodeLost, world

\* Only the newest operation runs; the holder of the lock works on it.
LEMMA HolderFacts ==
    ASSUME InstanceInv, NEW c \in Callers, pc[c] = "read" \/ (pc[c] = "act" /\ lock = c)
    PROVE  /\ loc[c].op \in Ops /\ loc[c].op = LastOp /\ LastOp # None /\ rows[LastOp].status = "running"
           /\ Kept(LastOp, rows[LastOp]) /\ lock = c
<1>1. loc[c].op \in Ops /\ CallInv(c) /\ LedgerInv /\ (pc[c] = "read" => loc[c].row.status = "running")
  BY DEF InstanceInv, TypeInv
<1>2. rows[loc[c].op].status = "running" /\ lock = c BY <1>1 DEF CallInv
<1>3. loc[c].op = LastOp /\ LastOp # None BY <1>1, <1>2, Facts DEF LedgerInv
<1> QED BY <1>1, <1>2, <1>3 DEF LedgerInv

\* While nobody holds the lock, what is left of calls is harmless.
LEMMA FreeLock ==
    ASSUME InstanceInv, lock = None, NEW k \in Callers
    PROVE  pc[k] # "read" /\ (pc[k] = "act" => loc[k].todo \in Seq(Harmless))
<1>1. CallInv(k) /\ lock # k BY Facts DEF InstanceInv
<1> QED BY <1>1 DEF CallInv

LEMMA InsertLedger ==
    ASSUME InstanceInv, TypeInv', lock = None, NEW o \in Ops, NEW r \in Row, Insert(o, r),
           \A p \in Ops : rows[p].status # "running",
           Live \subseteq Active(o, [r EXCEPT !.status = "running", !.phase = "accepted"])
    PROVE  InstanceInv'
<1>0. TypeInv /\ LedgerInv BY DEF InstanceInv
<1>1. PICK row : row = [r EXCEPT !.status = "running", !.phase = "accepted"] OBVIOUS
<1>2. row \in Row /\ row.status = "running" /\ row.phase = "accepted" BY <1>1 DEF Row
<1>3. /\ rows' = [rows EXCEPT ![o] = row] /\ order' = Append(order, o)
      /\ UNCHANGED <<binding, claimed, secret, pods, svcs, content, node, lock, pc, loc, faults>>
  BY <1>1 DEF Insert, cluster, world, calls
<1>4. LastOp' = o /\ rows'[o] = row BY <1>0, <1>3, LastAppended DEF TypeInv
<1>5. Live' = Live BY <1>3 DEF Live, There
<1>6. Kept(o, row)'
  <2>1. Live \subseteq Active(o, row) BY <1>1
  <2> QED BY <1>2, <1>5, <2>1 DEF Kept
<1>7. LedgerInv'
  <2>1. \A p \in Ops : rows'[p].status = "running" => p = o BY <1>0, <1>3 DEF TypeInv
  <2>2. o # None BY Facts
  <2>3. Kept(LastOp, rows[LastOp])' BY <1>4, <1>6
  <2> QED BY <1>2, <1>4, <2>1, <2>2, <2>3 DEF LedgerInv, Succeeded
<1>8. \A k \in Callers : CallInv(k)'
  <2> SUFFICES ASSUME NEW k \in Callers PROVE CallInv(k)' OBVIOUS
  <2>1. pc'[k] = pc[k] /\ loc'[k] = loc[k] /\ lock' = lock /\ lock # k BY <1>3, Facts
  <2> QED BY <2>1, FreeLock DEF CallInv
<1> QED BY <1>7, <1>8 DEF InstanceInv

LEMMA AcceptStep == ASSUME InstanceInv, TypeInv', Accept PROVE InstanceInv'
<1>0. TypeInv /\ LedgerInv BY DEF InstanceInv
<1>1. LastOp # None /\ Succeeded(LastOp) => \A p \in Ops : rows[p].status # "running" BY <1>0 DEF LedgerInv, Succeeded
<1>2. LastOp # None /\ Succeeded(LastOp) => Kept(LastOp, rows[LastOp]) /\ rows[LastOp].status = "succeeded"
  BY <1>0 DEF LedgerInv, Succeeded
<1>3. LastOp \in {Create} \cup Stops /\ Succeeded(LastOp) => Live = {}
  <2> SUFFICES ASSUME LastOp \in {Create} \cup Stops, Succeeded(LastOp) PROVE Live = {} OBVIOUS
  <2>1. LastOp \in Ops /\ LastOp # None /\ LastOp \notin Starts BY Facts
  <2>2. Active(LastOp, rows[LastOp]) = {} BY <1>2, <2>1 DEF Active
  <2> QED BY <1>2, <2>1, <2>2 DEF Kept
<1>4. CASE AcceptCreate
  <2>1. Insert(Create, NoRow) /\ lock = None /\ LastOp = None BY <1>4 DEF AcceptCreate, Fresh, LastOp
  <2>2. Live = {} /\ \A p \in Ops : rows[p].status # "running" BY <1>0, <2>1, Facts DEF LedgerInv
  <2> QED BY <2>1, <2>2, NoRowType, InsertLedger, Facts
<1>5. ASSUME NEW s \in Starts, AcceptStart(s) PROVE InstanceInv'
  <2> DEFINE row == [NoRow EXCEPT !.secret = rows[Create].secret]
             after == [row EXCEPT !.source = rows[LastOp].saved]
             again == [row EXCEPT !.source = Effective(rows[LastOp]), !.recovery = LastOp]
  <2>1. /\ lock = None /\ Succeeded(Create)
        /\ \/ LastOp = Create /\ Insert(s, row)
           \/ LastOp \in Stops /\ Succeeded(LastOp) /\ Insert(s, after)
           \/ LastOp \in Starts /\ Succeeded(LastOp) /\ Insert(s, again)
    BY <1>5 DEF AcceptStart, Fresh
  <2>2. Succeeded(LastOp) /\ LastOp \in Ops /\ LastOp # None BY <2>1, Facts
  <2>3. rows[Create] \in Row /\ rows[LastOp] \in Row /\ s \in Ops BY <1>0, <2>2, Facts DEF TypeInv
  <2>4. row \in Row BY <2>3, NoRowType DEF Row
  <2>5. CASE LastOp \in {Create} \cup Stops
    <3>1. after \in Row
      <4>1. rows[LastOp].saved \in Contents BY <2>3 DEF Row
      <4> HIDE DEF row
      <4> QED BY <2>4, <4>1 DEF Row
    <3>2. Insert(s, row) \/ Insert(s, after) BY <2>1, <2>5, Facts
    <3> HIDE DEF row, after
    <3> QED BY <1>1, <1>3, <2>1, <2>2, <2>3, <2>4, <2>5, <3>1, <3>2, InsertLedger
  <2>6. CASE LastOp \in Starts
    <3>1. again \in Row /\ again.recovery = LastOp
      <4>1. Effective(rows[LastOp]) \in Contents BY <2>3, EffectiveType
      <4> HIDE DEF row
      <4> QED BY <2>4, <2>6, <4>1 DEF Row
    <3>2. Insert(s, again) BY <2>1, <2>6, Facts
    <3> HIDE DEF row, again
    <3>3. Active(s, [again EXCEPT !.status = "running", !.phase = "accepted"]) = {LastOp}
      <4>1. [again EXCEPT !.status = "running", !.phase = "accepted"].recovery = LastOp BY <3>1 DEF Row
      <4> QED BY <2>2, <4>1 DEF Active
    <3>4. Live \subseteq {LastOp}
      <4>1. Active(LastOp, rows[LastOp]) = {LastOp} BY <1>2, <2>2, <2>6 DEF Kept, Active
      <4> QED BY <1>2, <2>2, <4>1 DEF Kept
    <3> QED BY <1>1, <2>1, <2>2, <2>3, <3>1, <3>2, <3>3, <3>4, InsertLedger
  <2> QED BY <2>1, <2>5, <2>6
<1>6. ASSUME NEW t \in Stops, NEW v \in 0..MaxContent, AcceptStop(t, v) PROVE InstanceInv'
  <2> DEFINE row == [NoRow EXCEPT !.of = LastOp, !.saved = v, !.worker = rows[LastOp].worker, !.secret = rows[LastOp].secret]
  <2>1. lock = None /\ LastOp \in Starts /\ Succeeded(LastOp) /\ Insert(t, row) BY <1>6 DEF AcceptStop, Fresh
  <2>2. rows[LastOp] \in Row /\ LastOp \in Ops /\ LastOp # None BY <1>0, <2>1, Facts DEF TypeInv
  <2>3. rows[LastOp].worker \in Pair /\ rows[LastOp].secret \in Uids BY <2>2 DEF Row
  <2>4. v \in Contents BY Facts DEF Contents
  <2>5. row \in Row /\ row.of = LastOp BY <2>2, <2>3, <2>4, NoRowType DEF Row
  <2> HIDE DEF row
  <2>6. Active(t, [row EXCEPT !.status = "running", !.phase = "accepted"]) = {LastOp}
    <3>1. /\ [row EXCEPT !.status = "running", !.phase = "accepted"].of = LastOp
          /\ [row EXCEPT !.status = "running", !.phase = "accepted"].status = "running"
      BY <2>5 DEF Row
    <3>2. t \notin Starts /\ t \notin Destroys /\ t # Create BY Facts
    <3> QED BY <3>1, <3>2 DEF Active
  <2>7. Live \subseteq {LastOp}
    <3>1. Active(LastOp, rows[LastOp]) = {LastOp} BY <1>2, <2>1, <2>2 DEF Kept, Active
    <3> QED BY <1>2, <2>1, <2>2, <3>1 DEF Kept
  <2> QED BY <1>1, <2>1, <2>2, <2>5, <2>6, <2>7, InsertLedger, Facts
<1>7. ASSUME NEW d \in Destroys, AcceptDestroy(d) PROVE InstanceInv'
  <2> DEFINE row == [NoRow EXCEPT !.of = LastOp, !.secret = rows[Create].secret]
  <2>1. lock = None /\ LastOp \in {Create} \cup Stops /\ Succeeded(LastOp) /\ Insert(d, row) BY <1>7 DEF AcceptDestroy, Fresh
  <2>2. rows[Create].secret \in Uids /\ LastOp \in Ops /\ LastOp # None BY <1>0, <2>1, Facts DEF TypeInv, Row
  <2>3. row \in Row BY <2>2, NoRowType DEF Row
  <2>4. d \in Ops BY Facts
  <2> HIDE DEF row
  <2> QED BY <1>1, <1>3, <2>1, <2>2, <2>3, <2>4, InsertLedger
<1> QED BY <1>4, <1>5, <1>6, <1>7 DEF Accept

--------------------------------------------------------------------------------
(* The steps of a call                                                      *)

LEMMA LedgerRests == ASSUME LedgerInv, UNCHANGED <<rows, order, binding, secret, pods, svcs, content>> PROVE LedgerInv'
<1>1. LastOp' = LastOp BY DEF LastOp
<1>2. PICK o, r : o = LastOp /\ r = rows[LastOp] OBVIOUS
<1>3. Live' = Live BY DEF Live, There
<1>4. Kept(o, r) => Kept(o, r)' BY <1>3 DEF Kept, There
<1>5. LastOp # None => Kept(LastOp, rows[LastOp])' BY <1>1, <1>2, <1>4 DEF LedgerInv
<1> QED BY <1>1, <1>3, <1>5 DEF LedgerInv, Succeeded

\* A call is not disturbed by a step that touches neither it nor the cluster, and takes its lock from nobody.
LEMMA CallRests ==
    ASSUME NEW k \in Callers, CallInv(k), pc'[k] = pc[k], loc'[k] = loc[k], lock = k <=> lock' = k,
           lock = k => UNCHANGED <<rows, secret, pods, svcs, content>>
    PROVE  CallInv(k)'
<1>1. CASE pc[k] = "act" /\ lock = k
  <2>1. PICK o, r, old : o = loc[k].op /\ r = loc[k].row /\ old = rows[loc[k].op] OBVIOUS
  <2>2. old.status = "running" /\ Kept(o, r) /\ loc[k].todo \in Seq(Permitted(o, old, r)) BY <1>1, <2>1 DEF CallInv
  <2>3. UNCHANGED <<rows, secret, pods, svcs, content>> BY <1>1
  <2>4. Kept(o, r)' BY <2>2, <2>3 DEF Kept, Live, There
  <2>5. loc'[k].op = o /\ loc'[k].row = r /\ rows'[o] = old BY <2>1, <2>3
  <2>6. Kept(loc[k].op, loc[k].row)' BY <2>4, <2>5
  <2> QED BY <1>1, <2>2, <2>5, <2>6 DEF CallInv
<1>2. CASE ~(pc[k] = "act" /\ lock = k) BY <1>2 DEF CallInv
<1> QED BY <1>1, <1>2

LEMMA BeginStep == ASSUME InstanceInv, TypeInv', NEW c \in Callers, NEW o \in Ops, Begin(c, o) PROVE InstanceInv'
<1> DEFINE call == [NoCall EXCEPT !.op = o, !.row = rows[o]]
<1>1. /\ lock = None /\ lock' = c /\ pc' = [pc EXCEPT ![c] = "read"] /\ loc' = [loc EXCEPT ![c] = call]
      /\ UNCHANGED <<rows, order, binding, secret, pods, svcs, content>>
  BY DEF Begin, ledger, cluster, world
<1>2. LedgerInv' BY <1>1, LedgerRests DEF InstanceInv
<1>3. call.op = o /\ call.row = rows[o] BY NoCallType DEF CallType
<1> HIDE DEF call
<1>4. pc'[c] = "read" /\ loc'[c] = call BY <1>1 DEF InstanceInv, TypeInv
<1>5. CallInv(c)' BY <1>1, <1>3, <1>4 DEF CallInv
<1>6. ASSUME NEW k \in Callers, k # c PROVE CallInv(k)'
  <2>1. pc'[k] = pc[k] /\ loc'[k] = loc[k] /\ lock # k /\ lock' # k BY <1>1, <1>6, Facts
  <2> QED BY <2>1, CallRests DEF InstanceInv
<1> QED BY <1>2, <1>5, <1>6 DEF InstanceInv

LEMMA ReadStep == ASSUME InstanceInv, TypeInv', NEW c \in Callers, Read(c) PROVE InstanceInv'
<1>0. pc[c] = "read" /\ TypeInv
  BY DEF Read, Reserve, ClaimVolume, PrepareContent, RemovePreparer, RemoveFailed, Launch, EnterSavedRecovery, RemoveExited,
         ObserveCopy, RemoveReader, Seal, RemoveStopped, Revoke, Reading, InstanceInv
<1>1. PICK row, todo : Proceed(c, row, todo) /\ Fits(loc[c].op, loc[c].row, row, todo) BY <1>0, ReadPlan DEF Planned
<1>2. PICK o, old : o = loc[c].op /\ old = loc[c].row OBVIOUS
<1>3. o \in Ops /\ o = LastOp /\ lock = c /\ rows[o].status = "running" /\ Kept(o, rows[o]) BY <1>0, <1>2, HolderFacts
<1>4. old = rows[o] BY <1>0, <1>2 DEF InstanceInv, CallInv
<1>5. pc' = [pc EXCEPT ![c] = "act"] /\ loc' = [loc EXCEPT ![c].row = row, ![c].todo = todo]
      /\ UNCHANGED <<rows, order, binding, secret, pods, svcs, content, lock>>
  BY <1>1 DEF Proceed, ledger, cluster, world
<1>6. LedgerInv' BY <1>5, LedgerRests DEF InstanceInv
<1>7. Kept(o, row) /\ todo \in Seq(Permitted(o, old, row)) BY <1>1, <1>2, <1>3, <1>4 DEF Fits
<1>8. Kept(o, row)' BY <1>5, <1>7 DEF Kept, Live, There
<1>9. loc[c] \in CallType BY <1>0 DEF TypeInv
<1>10. pc'[c] = "act" /\ loc'[c].op = o /\ loc'[c].row = row /\ loc'[c].todo = todo
  BY <1>0, <1>2, <1>5, <1>9 DEF TypeInv, CallType
<1>11. CallInv(c)'
  <2>1. Kept(loc[c].op, loc[c].row)' BY <1>8, <1>10
  <2>2. rows'[o] = old BY <1>4, <1>5
  <2> QED BY <1>3, <1>4, <1>5, <1>7, <1>10, <2>1, <2>2 DEF CallInv
<1>12. ASSUME NEW k \in Callers, k # c PROVE CallInv(k)'
  <2>0. loc \in [Callers -> CallType] /\ pc'[k] = pc[k] /\ lock # k /\ lock' # k BY <1>0, <1>3, <1>5, <1>12 DEF TypeInv
  <2>1. loc'[k] = loc[k] BY <1>5, <1>12, <2>0
  <2> QED BY <2>0, <2>1, CallRests DEF InstanceInv
<1> QED BY <1>6, <1>11, <1>12 DEF InstanceInv

\* The calls after one of them ended, with or without a commit.
LEMMA EndCalls ==
    ASSUME InstanceInv, NEW c \in Callers, End(c), UNCHANGED <<secret, pods, svcs, content>>, lock # c => UNCHANGED rows
    PROVE  \A k \in Callers : CallInv(k)'
<1>1. /\ pc' = [pc EXCEPT ![c] = "idle"] /\ loc' = [loc EXCEPT ![c] = NoCall]
      /\ lock' = IF lock = c THEN None ELSE lock
  BY DEF End
<1>2. pc'[c] = "idle" BY <1>1 DEF InstanceInv, TypeInv
<1>3. CallInv(c)' BY <1>2 DEF CallInv
<1>4. ASSUME NEW k \in Callers, k # c PROVE CallInv(k)'
  <2>1. pc'[k] = pc[k] /\ loc'[k] = loc[k] /\ (lock = k <=> lock' = k) BY <1>1, <1>4, Facts
  <2> QED BY <1>4, <2>1, CallRests DEF InstanceInv
<1> QED BY <1>3, <1>4

LEMMA OverStep ==
    ASSUME InstanceInv, TypeInv', NEW c \in Callers, Refuse(c) \/ Rejected(c) \/ Interrupt(c) PROVE InstanceInv'
<1>1. End(c) /\ UNCHANGED <<rows, order, binding, secret, pods, svcs, content>>
  BY DEF Refuse, Rejected, Interrupt, ledger, cluster, world
<1>2. LedgerInv' BY <1>1, LedgerRests DEF InstanceInv
<1>3. \A k \in Callers : CallInv(k)' BY <1>1, EndCalls
<1> QED BY <1>2, <1>3 DEF InstanceInv

LEMMA CommitStep == ASSUME InstanceInv, TypeInv', NEW c \in Callers, Commit(c) PROVE InstanceInv'
<1>0. TypeInv /\ LedgerInv /\ CallInv(c) BY DEF InstanceInv
<1>1. PICK o, r : o = loc[c].op /\ r = loc[c].row OBVIOUS
<1>2. /\ pc[c] = "act" /\ End(c) /\ UNCHANGED <<order, secret, pods, svcs, content>>
      /\ lock = c => /\ rows' = [rows EXCEPT ![o] = r]
                     /\ binding' = IF o = Create /\ binding = "none" THEN "held"
                                   ELSE IF r.phase = "deleted" THEN "retained" ELSE binding
      /\ lock # c => UNCHANGED <<rows, binding>>
  BY <1>1 DEF Commit, cluster, world
<1>3. \A k \in Callers : CallInv(k)' BY <1>2, EndCalls
<1>4. LedgerInv'
  <2>1. CASE lock # c BY <1>0, <1>2, <2>1, LedgerRests
  <2>2. CASE lock = c
    <3>1. o \in Ops /\ o = LastOp /\ LastOp # None BY <1>1, <1>2, <2>2, HolderFacts
    <3>2. Kept(o, r) BY <1>0, <1>1, <1>2, <2>2 DEF CallInv
    <3>3. LastOp' = o BY <1>2, <3>1 DEF LastOp
    <3>4. rows' = [rows EXCEPT ![o] = r] /\ rows \in [Ops -> Row] BY <1>0, <1>2, <2>2 DEF TypeInv
    <3>5. Kept(o, r)' BY <1>2, <3>2 DEF Kept, Live, There
    <3>6. rows'[o] = r /\ \A p \in Ops : rows'[p].status = "running" => p = o
      BY <1>0, <3>1, <3>4 DEF LedgerInv
    <3>7. Kept(LastOp, rows[LastOp])' BY <3>3, <3>5, <3>6
    <3>8. o \in Destroys /\ r.status = "succeeded" => binding' = "retained" BY <1>2, <2>2, <3>2, Facts DEF Kept
    <3> QED BY <3>1, <3>3, <3>6, <3>7, <3>8 DEF LedgerInv, Succeeded
  <2> QED BY <2>1, <2>2
<1> QED BY <1>3, <1>4 DEF InstanceInv

LEMMA PerformStep == ASSUME InstanceInv, TypeInv', NEW c \in Callers, Perform(c) PROVE InstanceInv'
<1>0. TypeInv /\ LedgerInv /\ CallInv(c) BY DEF InstanceInv
<1>1. /\ pc[c] = "act" /\ loc[c].todo # <<>>
      /\ UNCHANGED <<rows, order, binding, content, lock, pc>>
  BY <1>0, PerformFacts
<1>2. PICK e : e = Head(loc[c].todo) OBVIOUS
<1>3. PICK row : Performed(c, e, row) BY <1>0, <1>2, PerformFacts
<1>4. PICK o, r, old : o = loc[c].op /\ r = loc[c].row /\ old = rows[loc[c].op] OBVIOUS
<1>5. lock # c => e \in Harmless BY <1>0, <1>1, <1>2, SeqFacts DEF CallInv
<1>6. lock = c => /\ o = LastOp /\ old = rows[LastOp] /\ Kept(o, r) /\ old.status = "running"
                  /\ e \in Permitted(o, old, r) /\ Tail(loc[c].todo) \in Seq(Permitted(o, old, r))
  BY <1>0, <1>1, <1>2, <1>4, SeqFacts, HolderFacts DEF CallInv
<1>7. lock # c => e.do \notin Creations /\ e.do # "secret" BY <1>5 DEF Harmless, Removals, Creations
<1>8. lock = c => /\ e.do \in Creations => o \notin Stops /\ e.name \in Active(o, old) /\ e.name \in Active(o, r)
                  /\ e.do = "secret" => o = Create
  BY <1>6 DEF Permitted
<1>9. LedgerInv'
  <2>1. PICK lo, lr : lo = LastOp /\ lr = rows[LastOp] OBVIOUS
  <2>2. LastOp' = LastOp BY <1>1 DEF LastOp
  <2>3. LastOp # None => Kept(lo, lr)' BY <1>0, <1>1, <1>3, <1>4, <1>6, <1>7, <1>8, <2>1, PerformKept DEF LedgerInv
  <2>4. LastOp = None => Live' = {}
    <3> SUFFICES ASSUME LastOp = None PROVE Live' = {} OBVIOUS
    <3>1. lock # c
      <4>1. o \in Ops BY <1>0, <1>1, <1>4 DEF TypeInv
      <4> QED BY <1>6, <4>1, Facts
    <3>2. \A n \in Names : ~There(n) /\ ~svcs[n].live BY <1>0 DEF LedgerInv, Live
    <3> QED BY <1>3, <1>7, <3>1, <3>2 DEF Performed, Live, There
  <2>5. LastOp # None => Kept(LastOp, rows[LastOp])' BY <1>1, <2>1, <2>2, <2>3
  <2> QED BY <1>0, <1>1, <2>2, <2>4, <2>5 DEF LedgerInv, Succeeded
<1>10. loc' = [loc EXCEPT ![c].row = row, ![c].todo = Tail(@)] /\ loc[c] \in CallType /\ Reshaped(r, row)
  BY <1>0, <1>3, <1>4 DEF Performed, TypeInv
<1>11. loc'[c].op = o /\ loc'[c].row = row /\ loc'[c].todo = Tail(loc[c].todo) BY <1>0, <1>4, <1>10 DEF TypeInv, CallType
<1>12. CallInv(c)'
  <2>1. CASE lock # c
    <3>1. Tail(loc[c].todo) \in Seq(Harmless) BY <1>0, <1>1, <2>1, SeqFacts DEF CallInv
    <3> QED BY <1>1, <1>11, <2>1, <3>1 DEF CallInv
  <2>2. CASE lock = c
    <3>1. Kept(o, r)' BY <1>1, <1>3, <1>6, <1>8, <2>2, PerformKept
    <3>2. Active(o, row) = Active(o, r) BY <1>10 DEF Reshaped, Active
    <3>3. Kept(o, row)' BY <1>10, <3>1, <3>2 DEF Kept, Reshaped
    <3>4. Permitted(o, old, row) = Permitted(o, old, r) BY <3>2 DEF Permitted
    <3>5. Kept(loc[c].op, loc[c].row)' BY <1>11, <3>3
    <3>6. rows'[o] = old BY <1>1, <1>4
    <3> QED BY <1>1, <1>6, <1>11, <2>2, <3>4, <3>5, <3>6 DEF CallInv
  <2> QED BY <2>1, <2>2
<1>13. ASSUME NEW k \in Callers, k # c PROVE CallInv(k)'
  <2>0. loc \in [Callers -> CallType] /\ pc'[k] = pc[k] /\ CallInv(k) BY <1>0, <1>1 DEF InstanceInv, TypeInv
  <2>1. pc'[k] = pc[k] /\ loc'[k] = loc[k] /\ CallInv(k) BY <1>10, <1>13, <2>0
  <2>2. CASE lock # k BY <1>1, <2>1, <2>2, CallRests
  <2>3. CASE lock = k
    <3>1. PICK ko, kr, kold : ko = loc[k].op /\ kr = loc[k].row /\ kold = rows[loc[k].op] OBVIOUS
    <3>2. pc[k] = "act" => Kept(ko, kr)'
      <4>1. pc[k] = "act" => Kept(ko, kr) BY <2>1, <2>3, <3>1 DEF CallInv
      <4> QED BY <1>1, <1>3, <1>7, <1>13, <2>3, <4>1, PerformKept
    <3>3. pc[k] = "act" => Kept(loc[k].op, loc[k].row)' BY <2>1, <3>1, <3>2
    <3> QED BY <1>1, <2>1, <2>3, <3>3 DEF CallInv
  <2> QED BY <2>2, <2>3
<1> QED BY <1>9, <1>12, <1>13 DEF InstanceInv

LEMMA WorldInv ==
    ASSUME InstanceInv, TypeInv', Around \/ (\E n \in Names : Exit(n) \/ Evict(n)) \/ NodeLost
    PROVE  InstanceInv'
<1>0. TypeInv /\ LedgerInv BY DEF InstanceInv
<1>1. WorldStep BY <1>0, AroundWorld
<1>2. UNCHANGED <<rows, order, binding, secret, svcs, lock, pc, loc>> BY <1>1 DEF WorldStep, External, ledger, calls
<1>3. ASSUME NEW o, NEW r, Kept(o, r), o \in Stops => r.of \in Starts PROVE Kept(o, r)'
  <2>1. o \in Stops /\ r.phase \in {"removing", "stopped"} => content' = content BY <1>0, <1>3, SealedContent
  <2>2. \A n \in Names : pods'[n].state # "absent" =>
          There(n) /\ (pods'[n].frozen = pods[n].frozen \/ pods'[n].frozen # None)
    BY <1>1 DEF WorldStep
  <2> QED BY <1>2, <1>3, <2>1, <2>2, KeptStays
<1>4. LedgerInv'
  <2>1. PICK o, r : o = LastOp /\ r = rows[LastOp] OBVIOUS
  <2>2. LastOp' = LastOp BY <1>2 DEF LastOp
  <2>3. LastOp # None => Kept(o, r) BY <1>0, <2>1 DEF LedgerInv
  <2>4. o \in Stops /\ LastOp # None => r.of \in Starts BY <1>0, <2>1, <2>3 DEF TypeInv, Kept
  <2>5. LastOp # None => Kept(o, r)' BY <1>3, <2>3, <2>4
  <2>6. LastOp # None => Kept(LastOp, rows[LastOp])' BY <1>2, <2>1, <2>2, <2>5
  <2>7. Live = {} => Live' = {} BY <1>1, <1>2 DEF WorldStep, Live, There
  <2> QED BY <1>0, <1>2, <2>2, <2>6, <2>7 DEF LedgerInv, Succeeded
<1>5. ASSUME NEW k \in Callers PROVE CallInv(k)'
  <2>1. CallInv(k) BY DEF InstanceInv
  <2>2. CASE lock # k BY <1>2, <2>1, <2>2, CallRests
  <2>3. CASE lock = k
    <3>1. PICK o, r, old : o = loc[k].op /\ r = loc[k].row /\ old = rows[loc[k].op] OBVIOUS
    <3>2. pc[k] = "act" => Kept(o, r) /\ (o \in Stops => r.of \in Starts) BY <1>0, <2>1, <2>3, <3>1 DEF CallInv, TypeInv
    <3>3. pc[k] = "act" => Kept(o, r)' BY <1>3, <3>2
    <3>4. pc[k] = "act" => Kept(loc[k].op, loc[k].row)' BY <1>2, <3>1, <3>3
    <3> QED BY <1>2, <2>1, <2>3, <3>4 DEF CallInv
  <2> QED BY <2>2, <2>3
<1> QED BY <1>4, <1>5 DEF InstanceInv

\* A call that loses its transaction has only harmless effects to come.
LEMMA LossStep ==
    ASSUME InstanceInv, TypeInv', "late" \notin Faults, NEW c \in Callers, SessionLoss(c) PROVE InstanceInv'
<1>0. TypeInv /\ LedgerInv /\ CallInv(c) BY DEF InstanceInv
<1>1. /\ \A i \in DOMAIN loc[c].todo : ~Making(loc[c].todo[i])
      /\ pc[c] = "act" /\ lock = c /\ lock' = None
      /\ UNCHANGED <<rows, order, binding, secret, pods, svcs, content, pc, loc>>
  BY DEF SessionLoss, Fault, ledger, cluster, world
<1>2. LedgerInv' BY <1>0, <1>1, LedgerRests
<1>3. loc[c].todo \in Seq(Harmless)
  <2>1. loc[c].todo \in Seq(Named) BY <1>0 DEF TypeInv, CallType
  <2>2. \A i \in DOMAIN loc[c].todo : loc[c].todo[i] \in Named BY <2>1, SeqFacts
  <2>3. \A e \in Named : ~Making(e) => e \in Harmless BY DEF Named, Effect, Making, Harmless, Removals, Creations
  <2>4. \A i \in DOMAIN loc[c].todo : loc[c].todo[i] \in Harmless BY <1>1, <2>2, <2>3
  <2> QED BY <2>1, <2>4, SeqWiden
<1>4. CallInv(c)'
  <2>1. lock' # c BY <1>1, Facts
  <2> QED BY <1>1, <1>3, <2>1 DEF CallInv
<1>5. ASSUME NEW k \in Callers, k # c PROVE CallInv(k)'
  <2>1. lock # k /\ lock' # k BY <1>1, <1>5, Facts
  <2> QED BY <1>1, <2>1, CallRests DEF InstanceInv
<1> QED BY <1>2, <1>4, <1>5 DEF InstanceInv

LEMMA InitInv == Init => InstanceInv
<1> SUFFICES ASSUME Init PROVE InstanceInv OBVIOUS
<1>1. TypeInv BY InitTypes
<1>2. LastOp = None /\ \A o \in Ops : rows[o].status = "none" BY NoRowType DEF Init, LastOp
<1>3. Live = {} BY DEF Init, Live, There, NoPod
<1>4. LedgerInv BY <1>2, <1>3, Facts DEF LedgerInv
<1>5. \A c \in Callers : CallInv(c) BY DEF Init, CallInv
<1> QED BY <1>1, <1>4, <1>5 DEF InstanceInv

LEMMA NextInv == ASSUME InstanceInv, "late" \notin Faults, [Next]_vars PROVE InstanceInv'
<1>0. TypeInv' BY NextTypes DEF InstanceInv
<1>1. CASE Accept BY <1>0, <1>1, AcceptStep
<1>2. ASSUME NEW c \in Callers, Work(c) PROVE InstanceInv'
  BY <1>0, <1>2, BeginStep, ReadStep, OverStep, PerformStep, CommitStep DEF Work
<1>3. CASE Around BY <1>0, <1>3, WorldInv
<1>4. CASE Disturb BY <1>0, <1>4, WorldInv, OverStep, LossStep DEF Disturb
<1>5. CASE UNCHANGED vars
  <2>1. UNCHANGED <<rows, order, binding, secret, pods, svcs, content, lock, pc, loc>>
    BY <1>5 DEF vars, ledger, cluster, world, calls
  <2>2. LedgerInv' BY <2>1, LedgerRests DEF InstanceInv
  <2>3. \A k \in Callers : CallInv(k)' BY <2>1, CallRests DEF InstanceInv
  <2> QED BY <1>0, <2>2, <2>3 DEF InstanceInv
<1> QED BY <1>1, <1>2, <1>3, <1>4, <1>5 DEF Next

--------------------------------------------------------------------------------
(* The theorems                                                             *)

\* The rows, the calls and the cluster stay in agreement: what may be there is what the newest row accounts for,
\* as long as no request that makes an object arrives after its transaction was lost.
THEOREM InstanceInvariant == ASSUME "late" \notin Faults PROVE Spec => []InstanceInv
<1>1. Init => InstanceInv BY InitInv
<1>2. InstanceInv /\ [Next]_vars => InstanceInv' BY NextInv
<1> QED BY <1>1, <1>2, PTL DEF Spec

LEMMA ActiveSingle == ASSUME NEW o, NEW r PROVE \E n : Active(o, r) \subseteq {n}
<1>1. CASE o \in Starts
  <2>1. Active(o, r) \in {{r.recovery}, {Reader}, {o}} BY <1>1 DEF Active
  <2> QED BY <2>1
<1>2. CASE o \notin Starts
  <2>1. Active(o, r) \in {{}, {Prepare}, {r.of}} BY <1>2 DEF Active
  <2> QED BY <2>1
<1> QED BY <1>1, <1>2

\* At most one Pod has the instance's volume: a worker never runs beside another worker, the preparer or the
\* recovery reader, through every interruption, lost session, eviction and node failure (EnsureWorker, EnsureHelper,
\* removeWorker), for any number of starts, stops and callers (RuntimeInstance!OneMounter).
THEOREM OneMounterAlways == ASSUME "late" \notin Faults PROVE Spec => []OneMounter
<1>1. InstanceInv => OneMounter
  <2> SUFFICES ASSUME InstanceInv PROVE OneMounter OBVIOUS
  <2> DEFINE there == {n \in Names : pods[n].state # "absent"}
  <2>1. there \subseteq Live BY DEF Live, There
  <2>2. \E n : Live \subseteq {n}
    <3>1. CASE LastOp = None BY <3>1 DEF InstanceInv, LedgerInv
    <3>2. CASE LastOp # None
      <4>1. Live \subseteq Active(LastOp, rows[LastOp]) BY <3>2 DEF InstanceInv, LedgerInv, Kept
      <4> QED BY <4>1, ActiveSingle
    <3> QED BY <3>1, <3>2
  <2>3. PICK n : there \subseteq {n} BY <2>1, <2>2
  <2>4. there = {} \/ there = {n} BY <2>3
  <2>5. Cardinality({}) = 0 /\ Cardinality({n}) = 1 BY FS_EmptySet, FS_Singleton
  <2>6. Cardinality(there) <= 1 BY SMTT(40), <2>4, <2>5
  <2> QED BY <2>6 DEF OneMounter
<1> QED BY <1>1, InstanceInvariant, PTL

\* An operation that ended at rest left no Pod and no Service of the instance, and a destroy no Secret either, with the
\* volume retained; nothing comes back afterwards (RemoveHelper, removeWorker, Destroy; RuntimeInstance!RestLeavesNothing).
THEOREM RestIsEmpty == ASSUME "late" \notin Faults PROVE Spec => []RestLeavesNothing
<1>1. InstanceInv => RestLeavesNothing
  <2> SUFFICES ASSUME InstanceInv, LastOp # None, LastOp \notin Starts, Succeeded(LastOp)
               PROVE  /\ \A n \in Names : pods[n].state = "absent"
                      /\ \A n \in Names : ~svcs[n].live
                      /\ LastOp \in Destroys => ~secret.live /\ binding = "retained"
    BY DEF RestLeavesNothing
  <2>1. Kept(LastOp, rows[LastOp]) /\ (LastOp \in Destroys => binding = "retained") BY DEF InstanceInv, LedgerInv
  <2>2. rows[LastOp].status = "succeeded" BY DEF Succeeded
  <2>3. Active(LastOp, rows[LastOp]) = {} BY <2>2 DEF Active
  <2>4. Live = {} BY <2>1, <2>3 DEF Kept
  <2> QED BY <2>1, <2>2, <2>4 DEF Live, There, Kept
<1> QED BY <1>1, InstanceInvariant, PTL

\* From its seal on a stop's source is what the volume holds: neither a worker's late save nor an upload changes it
\* before the next operation (the drain proof of Stop; RuntimeInstance!SavedIsOnVolume).
THEOREM SealIsKept == ASSUME "late" \notin Faults PROVE Spec => []SavedIsOnVolume
<1>1. InstanceInv => SavedIsOnVolume
  <2> SUFFICES ASSUME InstanceInv, LastOp \in Stops, rows[LastOp].phase \in {"removing", "stopped"}
               PROVE  content = rows[LastOp].saved
    BY DEF SavedIsOnVolume
  <2>1. LastOp # None BY Facts
  <2> QED BY <2>1 DEF InstanceInv, LedgerInv, Kept
<1> QED BY <1>1, InstanceInvariant, PTL
================================================================================
