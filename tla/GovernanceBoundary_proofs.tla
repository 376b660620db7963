---------------------- MODULE GovernanceBoundary_proofs ----------------------
(***************************************************************************)
(* Proofs about GovernanceBoundary, for every set of callers, requests and *)
(* atoms: that the fence around the real mutations is the fence that       *)
(* RequestFence describes, with what follows for them; that receipts tell  *)
(* the truth about the revision history; and that a compensation restores  *)
(* what its call found, when calls take turns.                             *)
(***************************************************************************)
EXTENDS GovernanceBoundary, RequestFence_proofs, SequenceTheorems

-----------------------------------------------------------------------------
(* The fence.                                                              *)

\* Every step of the boundary is a step of the fence, or does not touch it.
LEMMA StepsOfTheFence == BoundaryNext => [Next]_vars
<1>1. ASSUME NEW w \in Workers, NEW k \in Keys, BeginCall(w, k) PROVE Next
  BY <1>1, RequestAssumption DEF BeginCall, Next
<1>2. ASSUME NEW w \in Workers, ClaimStep(w) PROVE Next
  BY <1>2 DEF ClaimStep, Next, Step
<1>3. ASSUME NEW w \in Workers,
             CommitMutation(w) \/ RefuseMutation(w) \/ RecordReceipt(w) \/ LoseReceipt(w) \/ EndCompensation(w) \/ FailCall(w)
      PROVE  Next
  BY <1>3 DEF CommitMutation, RefuseMutation, RecordReceipt, LoseReceipt, EndCompensation, FailCall, Next, Step
<1>4. ASSUME NEW w \in Workers, EndCall(w) PROVE Next
  BY <1>4 DEF EndCall, Next
<1>5. ASSUME NEW w \in Workers, ReadBefore(w) \/ \E d \in Atoms : CompensateAtom(w, d) PROVE UNCHANGED vars
  BY <1>5 DEF ReadBefore, CompensateAtom
<1>6. ASSUME ProjectAll PROVE UNCHANGED vars
  BY <1>6 DEF ProjectAll
<1> QED
  BY <1>1, <1>2, <1>3, <1>4, <1>5, <1>6 DEF BoundaryNext

\* The boundary with its mutations, their failures and their compensations still
\* is the fence of _claim_request, _record and _fail_request.
THEOREM BoundaryIsFenced == BoundarySpec => FencesRequests
<1>1. BoundaryInit => Init
  BY DEF BoundaryInit
<1>2. [BoundaryNext]_boundaryVars => [Next]_vars
  BY StepsOfTheFence DEF boundaryVars, vars
<1> QED
  BY <1>1, <1>2, PTL DEF BoundarySpec, FencesRequests, Spec

\* So what holds of the fence holds of the memory mutations behind it: a request
\* commits at most once, and its receipt means that it did and was not undone.
THEOREM MutationsAreFenced == BoundarySpec => [](AtMostOneMutation /\ ReceiptMeansMutated) /\ ImplementsPromise
  BY BoundaryIsFenced, MutatesAtMostOnce, ReceiptsAreHonest, FenceImplementsPromise, PTL DEF FencesRequests

-----------------------------------------------------------------------------
(* What a ledger tells of an atom, and what keeps it.                      *)

TellsBody(s, b) == \E n \in 1..Len(s) : s[n].row.body = b
TellsStatus(s, x) == \E n \in 1..Len(s) : s[n].row.status = x
Tells(s, row) == TellsBody(s, row.body) /\ TellsStatus(s, row.status)

Continues(s, t) == Len(s) <= Len(t) /\ \A n \in 1..Len(s) : t[n] = s[n]

\* A longer ledger tells what the shorter one told.
LEMMA ToldStays ==
  ASSUME NEW s \in Seq(Revision), NEW t \in Seq(Revision), Continues(s, t)
  PROVE  /\ \A b : TellsBody(s, b) => TellsBody(t, b)
         /\ \A x : TellsStatus(s, x) => TellsStatus(t, x)
<1>1. \A n \in 1..Len(s) : n \in 1..Len(t) /\ t[n] = s[n]
  BY DEF Continues
<1> QED
  BY <1>1 DEF TellsBody, TellsStatus

\* An appended revision is told of.
LEMMA AppendTells ==
  ASSUME NEW s \in Seq(Revision), NEW e \in Revision, Len(s) < MaxRev
  PROVE  /\ Append(s, e) \in Seq(Revision) /\ Len(Append(s, e)) <= MaxRev
         /\ Continues(s, Append(s, e)) /\ Tells(Append(s, e), e.row)
<1> DEFINE t == Append(s, e)
<1>1. t \in Seq(Revision) /\ Len(t) = Len(s) + 1 /\ t[Len(s) + 1] = e /\ \A n \in 1..Len(s) : t[n] = s[n]
  OBVIOUS
<1> HIDE DEF t
<1>2. Len(s) + 1 \in 1..Len(t)
  BY <1>1
<1>3. Tells(t, e.row)
  BY <1>1, <1>2 DEF Tells, TellsBody, TellsStatus
<1>4. Len(t) <= MaxRev /\ Continues(s, t)
  BY <1>1, MaxRevAssumption DEF Continues
<1> QED
  BY <1>1, <1>3, <1>4 DEF t

\* Rows and revisions have their types, and the row of an atom, but for its lock,
\* visibility and links, is put together from revisions of its ledger.
StoreGood ==
    /\ atoms \in [Atoms -> Row \cup {None}] /\ ledger \in [Atoms -> Seq(Revision)]
    /\ \A a \in Atoms : Len(ledger[a]) <= MaxRev
    /\ \A a \in Atoms : Exists(a) => Tells(ledger[a], atoms[a])

\* No step rewrites a revision or removes a row.
Follows == \A a \in Atoms : Continues(ledger[a], ledger'[a]) /\ (Exists(a) => atoms'[a] # None)

\* A step that leaves the rows and the ledgers alone.
LEMMA StoreStays ==
  ASSUME StoreGood, UNCHANGED <<atoms, ledger>>
  PROVE  StoreGood' /\ Follows
<1>1. \A a \in Atoms : ledger[a] \in Seq(Revision)
  BY DEF StoreGood
<1> QED
  BY <1>1 DEF StoreGood, Follows, Continues, Exists

\* put_atom records what it was given, even when it changes nothing.
LEMMA PutTells ==
  ASSUME StoreGood, NEW a \in Atoms, NEW item \in Row, NEW evidenced \in BOOLEAN, PutAtom(a, item, evidenced)
  PROVE  StoreGood' /\ Follows /\ Tells(ledger'[a], item) /\ atoms'[a] # None
<1>1. ledger[a] \in Seq(Revision) /\ Len(ledger[a]) \in Nat /\ Len(ledger[a]) <= MaxRev
  BY DEF StoreGood
<1>2. CASE SamePayload(a, item, evidenced)
  <2>1. UNCHANGED <<atoms, ledger>>
    BY <1>2 DEF PutAtom, memoryVars
  <2>2. Exists(a) /\ atoms[a] \in Row
    BY <1>2 DEF SamePayload, StoreGood, Exists
  <2>3. item.body = atoms[a].body /\ item.status = atoms[a].status
    BY <1>2, <2>2 DEF SamePayload, Row
  <2>4. Tells(ledger'[a], item)
    BY <2>1, <2>2, <2>3 DEF StoreGood, Tells
  <2> QED
    BY <2>1, <2>2, <2>4, StoreStays DEF Exists
<1>3. CASE ~ SamePayload(a, item, evidenced)
  <2> DEFINE stored == Stored(a, item, evidenced)
             entry == [row |-> stored, delta |-> IF Staged(a, evidenced) THEN "staged" ELSE "put"]
  <2>1. /\ Len(ledger[a]) < MaxRev
        /\ atoms' = IF Staged(a, evidenced) THEN atoms ELSE [atoms EXCEPT ![a] = stored]
        /\ ledger' = [ledger EXCEPT ![a] = Append(@, entry)]
    BY <1>3 DEF PutAtom, LastRevision
  <2>2. stored \in Row /\ stored.body = item.body /\ stored.status = item.status
    <3>1. Len(ledger[a]) + 1 \in 1..MaxRev
      BY <1>1, <2>1, MaxRevAssumption
    <3>2. "building" \in Visibilities
      BY DEF Visibilities
    <3> QED
      BY <3>1, <3>2 DEF Stored, LastRevision, Row
  <2>3. entry \in Revision /\ entry.row = stored
    BY <2>2 DEF Revision
  <2> HIDE DEF stored, entry
  <2>4. /\ Append(ledger[a], entry) \in Seq(Revision) /\ Len(Append(ledger[a], entry)) <= MaxRev
        /\ Continues(ledger[a], Append(ledger[a], entry)) /\ Tells(Append(ledger[a], entry), entry.row)
    BY <1>1, <2>1, <2>3, AppendTells
  <2>5. ledger'[a] = Append(ledger[a], entry) /\ \A d \in Atoms : d # a => ledger'[d] = ledger[d]
    BY <2>1 DEF StoreGood
  <2>6. Tells(ledger'[a], stored) /\ Tells(ledger'[a], item)
    BY <2>2, <2>3, <2>4, <2>5 DEF Tells
  <2>7. /\ ledger' \in [Atoms -> Seq(Revision)] /\ \A d \in Atoms : Len(ledger'[d]) <= MaxRev
        /\ \A d \in Atoms : Continues(ledger[d], ledger'[d])
    <3>1. \A d \in Atoms : Continues(ledger[d], ledger[d])
      BY DEF StoreGood, Continues
    <3> QED
      BY <2>1, <2>4, <2>5, <3>1 DEF StoreGood
  <2>8. stored # None
    BY <2>2, NoneAssumption
  <2>9. CASE Staged(a, evidenced)
    <3>1. atoms' = atoms /\ Exists(a)
      BY <2>1, <2>9 DEF Staged, IsShown
    <3>2. Tells(ledger'[a], atoms[a])
      <4>1. Tells(ledger[a], atoms[a])
        BY <3>1 DEF StoreGood
      <4>2. /\ TellsBody(ledger[a], atoms[a].body) => TellsBody(ledger'[a], atoms[a].body)
            /\ TellsStatus(ledger[a], atoms[a].status) => TellsStatus(ledger'[a], atoms[a].status)
        <5>1. ledger'[a] \in Seq(Revision) /\ Continues(ledger[a], ledger'[a])
          BY <2>4, <2>5
        <5>2. /\ \A b : TellsBody(ledger[a], b) => TellsBody(ledger'[a], b)
              /\ \A x : TellsStatus(ledger[a], x) => TellsStatus(ledger'[a], x)
          BY <1>1, <5>1, ToldStays
        <5> QED
          BY <5>2
      <4> QED
        BY <4>1, <4>2 DEF Tells
    <3> QED
      BY <2>5, <2>6, <2>7, <3>1, <3>2 DEF StoreGood, Follows, Exists
  <2>10. CASE ~ Staged(a, evidenced)
    <3>1. atoms'[a] = stored /\ \A d \in Atoms : d # a => atoms'[d] = atoms[d]
      BY <2>1, <2>10 DEF StoreGood
    <3>2. atoms' \in [Atoms -> Row \cup {None}]
      BY <2>1, <2>2, <2>10 DEF StoreGood
    <3> QED
      BY <2>5, <2>6, <2>7, <2>8, <3>1, <3>2 DEF StoreGood, Follows, Exists
  <2> QED
    BY <2>9, <2>10
<1> QED
  BY <1>2, <1>3

\* A restored atom has an active revision.
LEMMA RestoreTells ==
  ASSUME StoreGood, NEW a \in Atoms, Exists(a), Restore(a)
  PROVE  StoreGood' /\ Follows /\ TellsStatus(ledger'[a], "active")
<1> DEFINE changed == {d \in Descendants(a) : atoms[d].status = "active"}
                        \cup {d \in {a} : atoms[a].status # "active" \/ ~ atoms[a].locked}
           entry(d) == [row |-> RestoredRow(a, d), delta |-> "put"]
<1>1. /\ \A d \in changed : Len(ledger[d]) < MaxRev
      /\ atoms' = [d \in Atoms |-> IF d \in changed THEN RestoredRow(a, d) ELSE atoms[d]]
      /\ ledger' = [d \in Atoms |-> IF d \in changed THEN Append(ledger[d], entry(d)) ELSE ledger[d]]
  BY DEF Restore, LastRevision
<1>2. \A d \in changed : d \in Atoms /\ Exists(d)
  BY DEF Descendants
<1>3. a \notin changed => atoms[a].status = "active"
  OBVIOUS
<1> HIDE DEF changed
<1>4. ASSUME NEW d \in changed
      PROVE  RestoredRow(a, d) \in Row /\ entry(d) \in Revision /\ (d = a => RestoredRow(a, d).status = "active")
  <2>1. atoms[d] \in Row /\ Len(ledger[d]) + 1 \in 1..MaxRev
    BY <1>1, <1>2, MaxRevAssumption DEF StoreGood, Exists
  <2>2. RestoredRow(a, d) \in Row /\ (d = a => RestoredRow(a, d).status = "active")
    BY <2>1 DEF RestoredRow, LastRevision, Row
  <2> QED
    BY <2>2 DEF Revision
<1>5. ASSUME NEW d \in changed
      PROVE  /\ Append(ledger[d], entry(d)) \in Seq(Revision) /\ Len(Append(ledger[d], entry(d))) <= MaxRev
             /\ Continues(ledger[d], Append(ledger[d], entry(d)))
             /\ Tells(Append(ledger[d], entry(d)), RestoredRow(a, d))
  <2>1. ledger[d] \in Seq(Revision) /\ Len(ledger[d]) < MaxRev /\ entry(d).row = RestoredRow(a, d)
    BY <1>1, <1>2 DEF StoreGood
  <2> HIDE DEF entry
  <2> QED
    BY <1>4, <2>1, AppendTells
<1> HIDE DEF entry
<1>6. \A d \in Atoms : Continues(ledger[d], ledger[d])
  BY DEF StoreGood, Continues
<1>7. atoms' \in [Atoms -> Row \cup {None}] /\ ledger' \in [Atoms -> Seq(Revision)]
  BY <1>1, <1>4, <1>5 DEF StoreGood
<1>8. ASSUME NEW d \in Atoms
      PROVE  /\ Len(ledger'[d]) <= MaxRev /\ Continues(ledger[d], ledger'[d])
             /\ Exists(d) => atoms'[d] # None
             /\ atoms'[d] # None => Tells(ledger'[d], atoms'[d])
  BY <1>1, <1>4, <1>5, <1>6, NoneAssumption DEF StoreGood, Exists
<1>9. TellsStatus(ledger'[a], "active")
  <2>1. CASE a \in changed
    BY <1>1, <1>4, <1>5, <2>1 DEF Tells
  <2>2. CASE a \notin changed
    BY <1>1, <1>3, <2>2 DEF StoreGood, Tells
  <2> QED
    BY <2>1, <2>2
<1> QED
  BY <1>7, <1>8, <1>9 DEF StoreGood, Follows, Exists

\* A projection publishes what the ledger tells.
LEMMA MarkTells ==
  ASSUME StoreGood, NEW B, MarkBatch(B)
  PROVE  StoreGood' /\ Follows
<1>1. PICK settled \in SUBSET Atoms :
        /\ \A a \in settled : Exists(a)
        /\ atoms' = [a \in Atoms |-> IF a \in settled THEN PublishedRow(a, Links(B)) ELSE atoms[a]]
  BY DEF MarkBatch
<1>2. ledger' = ledger
  BY DEF MarkBatch
<1>3. ASSUME NEW a \in settled
      PROVE  PublishedRow(a, Links(B)) \in Row /\ Tells(ledger[a], PublishedRow(a, Links(B)))
  <2>1. /\ atoms[a] \in Row /\ Tells(ledger[a], atoms[a]) /\ ledger[a] \in Seq(Revision)
        /\ Len(ledger[a]) \in Nat /\ Len(ledger[a]) <= MaxRev
    BY <1>1 DEF StoreGood, Exists
  <2>2. CurrentRevision(a) \in Row /\ Tells(ledger[a], CurrentRevision(a))
    <3>1. CASE Len(ledger[a]) > atoms[a].revision
      <4> DEFINE n == Len(ledger[a])
      <4>1. n \in 1..Len(ledger[a]) /\ n \in 1..MaxRev
        BY <2>1, <3>1, MaxRevAssumption DEF Row
      <4>2. ledger[a][n] \in Revision
        BY <2>1, <4>1
      <4>3. ledger[a][n].row \in Row
        BY <4>2 DEF Revision
      <4>4. AppliedRevision(a) \in Row /\ AppliedRevision(a).body = ledger[a][n].row.body
            /\ AppliedRevision(a).status = ledger[a][n].row.status
        BY <2>1, <4>1, <4>3 DEF AppliedRevision, LastRevision, Row
      <4>5. TellsBody(ledger[a], ledger[a][n].row.body) /\ TellsStatus(ledger[a], ledger[a][n].row.status)
        BY <4>1 DEF TellsBody, TellsStatus
      <4> QED
        BY <3>1, <4>4, <4>5 DEF CurrentRevision, LastRevision, Tells
    <3>2. CASE ~ (Len(ledger[a]) > atoms[a].revision)
      BY <2>1, <3>2 DEF CurrentRevision, LastRevision
    <3> QED
      BY <3>1, <3>2
  <2>3. Shown \subseteq Visibilities
    BY DEF Visibilities
  <2>4. /\ PublishedRow(a, Links(B)) \in Row
        /\ PublishedRow(a, Links(B)).body = CurrentRevision(a).body
        /\ PublishedRow(a, Links(B)).status = CurrentRevision(a).status
    BY <2>2, <2>3 DEF PublishedRow, Row
  <2> QED
    BY <2>2, <2>4 DEF Tells
<1>4. atoms' \in [Atoms -> Row \cup {None}]
  BY <1>1, <1>3 DEF StoreGood
<1>5. \A a \in Atoms : Continues(ledger[a], ledger[a])
  BY DEF StoreGood, Continues
<1>6. ASSUME NEW a \in Atoms
      PROVE  /\ Exists(a) => atoms'[a] # None
             /\ atoms'[a] # None => Tells(ledger[a], atoms'[a])
  BY <1>1, <1>3, NoneAssumption DEF StoreGood, Exists
<1> QED
  BY <1>2, <1>4, <1>5, <1>6 DEF StoreGood, Follows, Exists

-----------------------------------------------------------------------------
(* What each call may rely on.                                             *)

\* What the ledger s tells when request r is done.
Told(s, r) ==
    CASE r.op = "put"       -> TellsBody(s, r.body)
      [] r.op = "tombstone" -> TellsStatus(s, "deleted")
      [] r.op = "restore"   -> TellsStatus(s, "active")
      [] r.op = "supersede" -> TellsStatus(s, "superseded")

\* A call knows its request and atoms that are still there.  It compensates rows
\* that exist, and past its mutation the ledger tells of it.
CallerInv(w) ==
    /\ call[w] # NoRow => Intent(w) = Request[Key(w)]
    /\ before[w] # None => \A d \in Atoms : before[w][d] # None => Exists(d)
    /\ todo[w] # {} => pc[w] \in {"compensate", "fail"} /\ before[w] # None
    /\ \A d \in todo[w] : Exists(d)
    /\ pc[w] = "mutated" => Exists(Target(w)) /\ Told(ledger[Target(w)], Request[Key(w)])

ReceiptsTold == \A k \in Keys : Applied(k) => Told(ledger[Request[k].atom], Request[k])

Befores == [Atoms -> Row \cup {None}] \cup {None}

BoundaryInv ==
    /\ StoreGood
    /\ before \in [Workers -> Befores] /\ todo \in [Workers -> SUBSET Atoms]
    /\ \A w \in Workers : CallerInv(w)
    /\ ReceiptsTold

\* The parts of a request.
LEMMA RequestFields ==
  ASSUME NEW k \in Keys
  PROVE  /\ Request[k].op \in {"put", "tombstone", "restore", "supersede"}
         /\ Request[k].atom \in Atoms /\ Request[k].other \in Atoms /\ Request[k].body \in Bodies
  BY RequestAssumption DEF Requests

\* What is told stays told.
LEMMA ToldFollows ==
  ASSUME StoreGood, StoreGood', Follows, NEW a \in Atoms
  PROVE  \A k \in Keys : Told(ledger[a], Request[k]) => Told(ledger'[a], Request[k])
<1>1. ledger[a] \in Seq(Revision) /\ ledger'[a] \in Seq(Revision) /\ Continues(ledger[a], ledger'[a])
  BY DEF StoreGood, Follows
<1>2. /\ \A b : TellsBody(ledger[a], b) => TellsBody(ledger'[a], b)
      /\ \A x : TellsStatus(ledger[a], x) => TellsStatus(ledger'[a], x)
  BY <1>1, ToldStays
<1> SUFFICES ASSUME NEW k \in Keys, Told(ledger[a], Request[k]) PROVE Told(ledger'[a], Request[k])
  OBVIOUS
<1>3. CASE Request[k].op = "put"
  BY <1>2, <1>3 DEF Told
<1>4. CASE Request[k].op = "tombstone"
  BY <1>2, <1>4 DEF Told
<1>5. CASE Request[k].op = "restore"
  BY <1>2, <1>5 DEF Told
<1>6. CASE Request[k].op = "supersede"
  BY <1>2, <1>6 DEF Told
<1> QED
  BY <1>3, <1>4, <1>5, <1>6, RequestFields

\* The call of a worker that is not idle.
LEMMA CallFields ==
  ASSUME TypeOK, BoundaryInv, NEW w \in Workers, pc[w] # "idle"
  PROVE  /\ call[w] # NoRow /\ Key(w) \in Keys /\ Intent(w) = Request[Key(w)]
         /\ Target(w) = Request[Key(w)].atom /\ Target(w) \in Atoms /\ Other(w) \in Atoms
         /\ Op(w) = Request[Key(w)].op /\ Intent(w).body \in Bodies
<1>1. call[w] # NoRow /\ call[w] \in Call
  BY DEF TypeOK
<1>2. Key(w) \in Keys /\ Intent(w) = Request[Key(w)]
  BY <1>1 DEF Call, Key, BoundaryInv, CallerInv
<1> QED
  BY <1>1, <1>2, RequestFields DEF Target, Other, Op

\* One worker moves, the store follows, and at most its own request is applied.
Moves(w) ==
    /\ before' \in [Workers -> Befores] /\ todo' \in [Workers -> SUBSET Atoms]
    /\ \A v \in Workers \ {w} : /\ pc'[v] = pc[v] /\ call'[v] = call[v]
                                /\ before'[v] = before[v] /\ todo'[v] = todo[v]
    /\ \A k \in Keys : Applied(k)' => Applied(k) \/ (pc[w] = "mutated" /\ k = Key(w))

\* What the moved worker does not touch stays: the others' atoms and histories, and
\* the receipts there are.
LEMMA MovesKeep ==
  ASSUME TypeOK, BoundaryInv, NEW w \in Workers, StoreGood', Follows, Moves(w), CallerInv(w)'
  PROVE  BoundaryInv'
<1>1. \A a \in Atoms : Exists(a) => Exists(a)'
  BY DEF Follows, Exists
<1>2. \A a \in Atoms : \A k \in Keys : Told(ledger[a], Request[k]) => Told(ledger'[a], Request[k])
  BY ToldFollows DEF BoundaryInv
<1>3. ASSUME NEW v \in Workers, v # w PROVE CallerInv(v)'
  <2>1. /\ pc'[v] = pc[v] /\ call'[v] = call[v] /\ before'[v] = before[v] /\ todo'[v] = todo[v]
        /\ todo[v] \subseteq Atoms /\ CallerInv(v)
    BY <1>3 DEF Moves, BoundaryInv
  <2>2. Key(v)' = Key(v) /\ Intent(v)' = Intent(v) /\ Target(v)' = Target(v)
    BY <2>1 DEF Key, Intent, Target
  <2>3. pc[v] = "mutated" => Target(v) \in Atoms /\ Key(v) \in Keys
    BY CallFields
  <2>4. pc'[v] = "mutated" => Exists(Target(v))' /\ Told(ledger[Target(v)], Request[Key(v)])'
    <3> SUFFICES ASSUME pc[v] = "mutated" PROVE Exists(Target(v))' /\ Told(ledger[Target(v)], Request[Key(v)])'
      BY <2>1
    <3>1. Exists(Target(v)) /\ Told(ledger[Target(v)], Request[Key(v)])
      BY <2>1 DEF CallerInv
    <3>2. Told(ledger'[Target(v)], Request[Key(v)])
      BY <1>2, <2>3, <3>1
    <3>3. atoms'[Target(v)] # None
      BY <2>3, <3>1 DEF Follows, Exists
    <3> QED
      BY <2>2, <3>2, <3>3 DEF Exists
  <2>5. /\ (call[v] # NoRow => Intent(v) = Request[Key(v)])'
        /\ (before[v] # None => \A d \in Atoms : before[v][d] # None => Exists(d))'
        /\ (todo[v] # {} => pc[v] \in {"compensate", "fail"} /\ before[v] # None)'
        /\ (\A d \in todo[v] : Exists(d))'
    BY <1>1, <2>1, <2>2 DEF CallerInv
  <2> QED
    BY <2>4, <2>5 DEF CallerInv
<1>4. ReceiptsTold'
  <2> SUFFICES ASSUME NEW k \in Keys, Applied(k)' PROVE Told(ledger'[Request[k].atom], Request[k])
    BY DEF ReceiptsTold
  <2>1. Told(ledger[Request[k].atom], Request[k])
    <3>1. CASE Applied(k)
      BY <3>1 DEF BoundaryInv, ReceiptsTold
    <3>2. CASE pc[w] = "mutated" /\ k = Key(w)
      BY <3>2, CallFields DEF BoundaryInv, CallerInv
    <3> QED
      BY <3>1, <3>2 DEF Moves
  <2> QED
    BY <1>2, <2>1, RequestFields
<1>5. \A v \in Workers : CallerInv(v)'
  BY <1>3
<1> QED
  BY <1>4, <1>5 DEF BoundaryInv, Moves

-----------------------------------------------------------------------------
(* Each action.                                                            *)

\* Only the record of a decision applies a request.
LEMMA AppliedByRecord ==
  ASSUME TypeOK, NEW w \in Workers
  PROVE  /\ UNCHANGED requestLedger => \A k \in Keys : Applied(k)' => Applied(k)
         /\ \A t \in Tokens : ClaimNew(w, t) => \A k \in Keys : Applied(k)' => Applied(k)
         /\ Record(w) => \A k \in Keys : Applied(k)' => Applied(k) \/ (pc[w] = "mutated" /\ k = Key(w))
         /\ Fail(w) => \A k \in Keys : Applied(k)' => Applied(k)
<1> USE DEF Applied
<1>1. requestLedger \in [Keys -> Claim \cup {NoRow}]
  BY DEF TypeOK
<1>2. ASSUME NEW t \in Tokens, ClaimNew(w, t) PROVE \A k \in Keys : Applied(k)' => Applied(k)
  <2>1. requestLedger' = [requestLedger EXCEPT ![Key(w)] = [intent |-> Intent(w), state |-> "claimed", token |-> t]]
    BY <1>2 DEF ClaimNew, InsertClaim
  <2> QED
    BY <1>1, <2>1
<1>3. ASSUME Record(w) PROVE \A k \in Keys : Applied(k)' => Applied(k) \/ (pc[w] = "mutated" /\ k = Key(w))
  <2>1. requestLedger' = [requestLedger EXCEPT ![Key(w)] = Sealed(Key(w), "applied")] /\ pc[w] = "mutated"
    BY <1>3 DEF Record, RecordDecision
  <2> QED
    BY <1>1, <2>1
<1>4. ASSUME Fail(w) PROVE \A k \in Keys : Applied(k)' => Applied(k)
  <2>1. CASE UNCHANGED requestLedger
    BY <2>1
  <2>2. CASE requestLedger' = [requestLedger EXCEPT ![Key(w)] = Sealed(Key(w), "failed")]
    BY <1>1, <2>2 DEF Sealed
  <2> QED
    BY <1>4, <2>1, <2>2 DEF Fail, SealFailed, fenceVars
<1> QED
  BY <1>2, <1>3, <1>4

\* A step of w alone: its place and its call.
Alone(w) == \A v \in Workers \ {w} : pc'[v] = pc[v] /\ call'[v] = call[v]

\* A worker that goes on keeps its call.
LEMMA GotoAlone ==
  ASSUME TypeOK, NEW w \in Workers, NEW p, Goto(w, p)
  PROVE  Alone(w) /\ pc'[w] = p /\ call' = call
  BY DEF TypeOK, Goto, Alone

\* put_atom may read the atom before it claims.
LEMMA BeginKeeps ==
  ASSUME TypeOK, BoundaryInv, NEW w \in Workers, NEW k \in Keys, BeginCall(w, k)
  PROVE  BoundaryInv'
<1>1. /\ pc[w] = "idle" /\ pc'[w] = "claim" /\ Alone(w) /\ UNCHANGED requestLedger
      /\ call'[w] = [key |-> k, intent |-> Request[k], token |-> NoRow]
  BY DEF BeginCall, Begin, fenceVars, TypeOK, Alone
<1>2. StoreGood' /\ Follows /\ UNCHANGED <<atoms, ledger, todo>>
  BY StoreStays DEF BeginCall, storeVars, BoundaryInv
<1>3. PICK was \in {atoms, None} : before' = [before EXCEPT ![w] = was]
  BY DEF BeginCall
<1>4. was \in Befores
  BY <1>3 DEF BoundaryInv, StoreGood, Befores
<1>5. Moves(w)
  BY <1>1, <1>2, <1>3, <1>4, AppliedByRecord DEF BoundaryInv, Alone, Moves
<1>6. todo[w] = {}
  BY <1>1 DEF BoundaryInv, CallerInv
<1>7. before'[w] # None => \A d \in Atoms : before'[w][d] # None => Exists(d)'
  BY <1>2, <1>3 DEF BoundaryInv, Exists
<1>8. call'[w].intent = Request[call'[w].key]
  BY <1>1
<1>9. CallerInv(w)'
  BY <1>1, <1>2, <1>6, <1>7, <1>8 DEF CallerInv, Key, Intent
<1> QED
  BY <1>2, <1>5, <1>9, MovesKeep

\* The claim looks at the request ledger only.
LEMMA ClaimKeeps ==
  ASSUME TypeOK, BoundaryInv, NEW w \in Workers, ClaimStep(w)
  PROVE  BoundaryInv'
<1>1. /\ pc[w] = "claim" /\ pc'[w] # "mutated" /\ Alone(w)
      /\ call'[w].key = call[w].key /\ call'[w].intent = call[w].intent
  <2>1. CASE \E t \in Tokens : ClaimNew(w, t)
    BY <2>1 DEF ClaimNew, TypeOK, Alone, Key, Intent
  <2>2. CASE ClaimConflict(w) \/ ClaimReplay(w) \/ ClaimRejected(w) \/ ClaimTimeout(w)
    BY <2>2, GotoAlone DEF ClaimConflict, ClaimReplay, ClaimRejected, ClaimTimeout
  <2> QED
    BY <2>1, <2>2 DEF ClaimStep
<1>2. StoreGood' /\ Follows /\ UNCHANGED <<atoms, ledger, before, todo>>
  BY StoreStays DEF ClaimStep, storeVars, BoundaryInv
<1>3. \A k \in Keys : Applied(k)' => Applied(k)
  <2>1. CASE \E t \in Tokens : ClaimNew(w, t)
    BY <2>1, AppliedByRecord
  <2>2. CASE ClaimConflict(w) \/ ClaimReplay(w) \/ ClaimRejected(w) \/ ClaimTimeout(w)
    BY <2>2, AppliedByRecord DEF ClaimConflict, ClaimReplay, ClaimRejected, ClaimTimeout, fenceVars
  <2> QED
    BY <2>1, <2>2 DEF ClaimStep
<1>4. Moves(w)
  BY <1>1, <1>2, <1>3 DEF BoundaryInv, Alone, Moves
<1>5. todo[w] = {} /\ call[w].intent = Request[call[w].key]
  BY <1>1, CallFields DEF BoundaryInv, CallerInv, Key, Intent
<1>6. before[w] # None => \A d \in Atoms : before[w][d] # None => Exists(d)
  BY DEF BoundaryInv, CallerInv
<1>7. CallerInv(w)'
  BY <1>1, <1>2, <1>5, <1>6 DEF CallerInv, Key, Intent, Exists
<1> QED
  BY <1>2, <1>4, <1>7, MovesKeep

\* What a call reads is there.
LEMMA ReadKeeps ==
  ASSUME TypeOK, BoundaryInv, NEW w \in Workers, ReadBefore(w)
  PROVE  BoundaryInv'
<1>1. /\ pc[w] = "claimed" /\ UNCHANGED <<pc, call, requestLedger>> /\ UNCHANGED <<atoms, ledger, todo>>
      /\ before' = [before EXCEPT ![w] = atoms]
  BY DEF ReadBefore, vars, storeVars
<1>2. StoreGood' /\ Follows
  BY <1>1, StoreStays DEF BoundaryInv
<1>3. atoms \in Befores
  BY DEF BoundaryInv, StoreGood, Befores
<1>4. Moves(w)
  BY <1>1, <1>3, AppliedByRecord DEF BoundaryInv, Moves
<1>5. before'[w] = atoms /\ todo[w] = {} /\ (call[w] # NoRow => call[w].intent = Request[call[w].key])
  BY <1>1 DEF BoundaryInv, CallerInv, Key, Intent
<1>6. CallerInv(w)'
  BY <1>1, <1>5 DEF CallerInv, Key, Intent, Exists
<1> QED
  BY <1>2, <1>4, <1>6, MovesKeep

\* The rows that a call writes are rows.
LEMMA ItemsAreRows ==
  ASSUME TypeOK, BoundaryInv, NEW w \in Workers, pc[w] # "idle", before[w] # None
  PROVE  /\ Op(w) = "put" => PutItem(w) \in Row /\ PutItem(w).body = Intent(w).body
         /\ \A row \in Row : /\ [row EXCEPT !.status = "deleted"] \in Row
                             /\ [row EXCEPT !.status = "deleted"].status = "deleted"
         /\ \A d \in Atoms : Exists(d) => RowBefore(w, d) \in Row
<1>1. before[w] \in [Atoms -> Row \cup {None}] /\ Target(w) \in Atoms /\ Intent(w).body \in Bodies
  BY CallFields DEF BoundaryInv, Befores
<1>2. SeedRow \in Row
  BY SeedAssumption, MaxRevAssumption DEF SeedRow, Row, Visibilities, Shown
<1>3. "ready" \in Visibilities
  BY DEF Visibilities, Shown
<1>4. Op(w) = "put" => PutItem(w) \in Row /\ PutItem(w).body = Intent(w).body
  <2>1. CASE before[w][Target(w)] = None
    BY <1>1, <1>2, <1>3, <2>1 DEF PutItem, Row
  <2>2. CASE before[w][Target(w)] # None
    BY <1>1, <2>2 DEF PutItem, Row
  <2> QED
    BY <2>1, <2>2
<1>5. \A row \in Row : /\ [row EXCEPT !.status = "deleted"] \in Row
                       /\ [row EXCEPT !.status = "deleted"].status = "deleted"
  BY DEF Row
<1>6. ASSUME NEW d \in Atoms, Exists(d) PROVE RowBefore(w, d) \in Row
  <2>1. atoms[d] \in Row /\ before[w][d] \in Row \cup {None}
    BY <1>1, <1>6 DEF BoundaryInv, StoreGood, Exists
  <2>2. CASE before[w][d] = None
    BY <1>5, <2>1, <2>2 DEF RowBefore
  <2>3. CASE before[w][d] # None
    BY <2>1, <2>3 DEF RowBefore, Row
  <2> QED
    BY <2>2, <2>3
<1> QED
  BY <1>4, <1>5, <1>6

\* A mutation does what its request says, and its ledger tells it.
MutationTold(w) == StoreGood' /\ Follows /\ atoms'[Target(w)] # None /\ Told(ledger'[Target(w)], Request[Key(w)])

LEMMA MutationTells ==
  ASSUME TypeOK, BoundaryInv, NEW w \in Workers, pc[w] # "idle", before[w] # None, Mutation(w), Op(w) # "supersede"
  PROVE  MutationTold(w)
<1> USE DEF MutationTold
<1>1. /\ Target(w) \in Atoms /\ Op(w) = Request[Key(w)].op /\ Intent(w) = Request[Key(w)] /\ Key(w) \in Keys
      /\ before[w][Target(w)] # None => Exists(Target(w))
  BY CallFields DEF BoundaryInv, CallerInv
<1>2. StoreGood
  BY DEF BoundaryInv
<1>3. CASE Op(w) = "put"
  <2>1. PutAtom(Target(w), PutItem(w), TRUE) /\ PutItem(w) \in Row /\ PutItem(w).body = Request[Key(w)].body
    BY <1>1, <1>3, ItemsAreRows DEF Mutation
  <2>2. StoreGood' /\ Follows /\ Tells(ledger'[Target(w)], PutItem(w)) /\ atoms'[Target(w)] # None
    BY <1>1, <1>2, <2>1, PutTells
  <2> QED
    BY <1>1, <1>3, <2>1, <2>2 DEF Told, Tells
<1>4. CASE Op(w) = "tombstone"
  <2>1. PICK row \in {before[w][Target(w)], atoms[Target(w)]} :
          before[w][Target(w)] # None /\ PutAtom(Target(w), [row EXCEPT !.status = "deleted"], FALSE)
    BY <1>4 DEF Mutation
  <2>2. row \in Row
    BY <1>1, <1>2, <2>1 DEF BoundaryInv, Befores, StoreGood, Exists
  <2> DEFINE item == [row EXCEPT !.status = "deleted"]
  <2>3. item \in Row /\ item.status = "deleted"
    BY <2>2, ItemsAreRows
  <2>4. PutAtom(Target(w), item, FALSE)
    BY <2>1
  <2> HIDE DEF item
  <2>5. StoreGood' /\ Follows /\ Tells(ledger'[Target(w)], item) /\ atoms'[Target(w)] # None
    BY <1>1, <1>2, <2>3, <2>4, PutTells
  <2> QED
    BY <1>1, <1>4, <2>3, <2>5 DEF Told, Tells
<1>5. CASE Op(w) = "restore"
  <2>1. Exists(Target(w)) /\ Restore(Target(w))
    BY <1>1, <1>5 DEF Mutation
  <2>2. StoreGood' /\ Follows /\ TellsStatus(ledger'[Target(w)], "active")
    BY <1>1, <1>2, <2>1, RestoreTells
  <2> QED
    BY <1>1, <1>5, <2>1, <2>2 DEF Told, Follows
<1> QED
  BY <1>1, <1>3, <1>4, <1>5, RequestFields

\* The mutation commits: from here on the ledger tells of the request.
LEMMA CommitKeeps ==
  ASSUME TypeOK, BoundaryInv, NEW w \in Workers, CommitMutation(w), MutationTold(w)
  PROVE  BoundaryInv'
<1>1. /\ pc[w] = "claimed" /\ pc'[w] = "mutated" /\ call' = call /\ Alone(w) /\ UNCHANGED <<requestLedger, before, todo>>
      /\ before[w] # None /\ Mutation(w)
  BY GotoAlone DEF CommitMutation, Mutate, fenceVars
<1>3. StoreGood' /\ Follows /\ atoms'[Target(w)] # None /\ Told(ledger'[Target(w)], Request[Key(w)])
  BY DEF MutationTold
<1>4. Moves(w)
  BY <1>1, AppliedByRecord DEF BoundaryInv, Alone, Moves
<1>5. todo[w] = {} /\ call[w].intent = Request[call[w].key]
  BY <1>1, CallFields DEF BoundaryInv, CallerInv, Key, Intent
<1>6. \A d \in Atoms : before[w][d] # None => atoms'[d] # None
  BY <1>1, <1>3 DEF BoundaryInv, CallerInv, Follows
<1>7. Key(w)' = Key(w) /\ Intent(w)' = Intent(w) /\ Target(w)' = Target(w)
  BY <1>1 DEF Key, Intent, Target
<1>8. CallerInv(w)'
  BY <1>1, <1>3, <1>5, <1>6, <1>7 DEF CallerInv, Key, Intent, Exists
<1> QED
  BY <1>3, <1>4, <1>8, MovesKeep

\* What a compensation will write exists.
LEMMA CompensatedExist ==
  ASSUME TypeOK, BoundaryInv, NEW w \in Workers, pc[w] # "idle",
         pc[w] = "mutated" \/ Op(w) \in {"restore", "supersede"}
  PROVE  /\ Compensated(w) \in SUBSET Atoms /\ \A d \in Compensated(w) : Exists(d)
         /\ Compensated(w) # {} => before[w] # None
<1>1. Target(w) \in Atoms /\ CallerInv(w)
  BY CallFields DEF BoundaryInv
<1>2. ASSUME NEW d \in Compensated(w) PROVE d \in Atoms /\ Exists(d) /\ before[w] # None
  <2>1. before[w] # None /\ ~ (before[w][Target(w)] = None /\ Op(w) # "put")
    BY <1>2 DEF Compensated
  <2>2. d = Target(w) \/ (d \in Atoms /\ before[w][d] # None)
    BY <1>2, <2>1 DEF Compensated
  <2>3. CASE d = Target(w)
    BY <1>1, <2>1, <2>3 DEF CallerInv
  <2>4. CASE d \in Atoms /\ before[w][d] # None
    BY <1>1, <2>1, <2>4 DEF CallerInv
  <2> QED
    BY <2>1, <2>2, <2>3, <2>4
<1> QED
  BY <1>2

\* A step that goes on with the same call, and leaves the atoms alone.
LEMMA GoOnKeeps ==
  ASSUME TypeOK, BoundaryInv, NEW w \in Workers, NEW p, Goto(w, p), p # "mutated", pc[w] # "idle",
         UNCHANGED <<atoms, ledger, before>>,
         NEW left \in SUBSET Atoms, todo' = [todo EXCEPT ![w] = left],
         left # {} => p \in {"compensate", "fail"} /\ before[w] # None, \A d \in left : Exists(d),
         \A k \in Keys : Applied(k)' => Applied(k) \/ (pc[w] = "mutated" /\ k = Key(w))
  PROVE  BoundaryInv'
<1>1. StoreGood' /\ Follows
  BY StoreStays DEF BoundaryInv
<1>2. Alone(w) /\ pc'[w] = p /\ call' = call
  BY GotoAlone
<1>3. Moves(w)
  BY <1>2 DEF BoundaryInv, Alone, Moves
<1>4. call[w].intent = Request[call[w].key] /\ todo'[w] = left
  BY CallFields DEF BoundaryInv, Key, Intent
<1>5. before[w] # None => \A d \in Atoms : before[w][d] # None => Exists(d)
  BY DEF BoundaryInv, CallerInv
<1>6. CallerInv(w)'
  BY <1>2, <1>4, <1>5 DEF CallerInv, Key, Intent, Exists
<1> QED
  BY <1>1, <1>3, <1>6, MovesKeep

\* Refusal, record, loss of the record, and the end of a compensation.
LEMMA FenceMovesKeep ==
  ASSUME TypeOK, BoundaryInv, NEW w \in Workers,
         RefuseMutation(w) \/ RecordReceipt(w) \/ LoseReceipt(w) \/ EndCompensation(w) \/ FailCall(w)
  PROVE  BoundaryInv'
<1>1. todo \in [Workers -> SUBSET Atoms] /\ CallerInv(w)
  BY DEF BoundaryInv
<1>2. todo' = todo => todo' = [todo EXCEPT ![w] = todo[w]]
  BY <1>1
<1>3. CASE RefuseMutation(w)
  <2> DEFINE left == IF Op(w) \in {"restore", "supersede"} THEN Compensated(w) ELSE {}
  <2>1. /\ pc[w] = "claimed" /\ Goto(w, "fail") /\ UNCHANGED <<atoms, ledger, before>> /\ UNCHANGED requestLedger
        /\ todo' = [todo EXCEPT ![w] = left]
    BY <1>3 DEF RefuseMutation, MutateFails, fenceVars, storeVars
  <2>2. left \in SUBSET Atoms /\ (left # {} => before[w] # None) /\ \A d \in left : Exists(d)
    BY <2>1, CompensatedExist
  <2> HIDE DEF left
  <2>3. \A k \in Keys : Applied(k)' => Applied(k)
    BY <2>1, AppliedByRecord
  <2> QED
    BY <2>1, <2>2, <2>3, GoOnKeeps
<1>4. CASE RecordReceipt(w)
  <2>1. pc[w] = "mutated" /\ Goto(w, "receipt") /\ UNCHANGED <<atoms, ledger, before>> /\ todo' = todo /\ Record(w)
    BY <1>4 DEF RecordReceipt, Record, storeVars
  <2>2. todo[w] = {}
    BY <1>1, <2>1 DEF CallerInv
  <2>3. \A k \in Keys : Applied(k)' => Applied(k) \/ (pc[w] = "mutated" /\ k = Key(w))
    BY <2>1, AppliedByRecord
  <2> QED
    BY <1>1, <1>2, <2>1, <2>2, <2>3, GoOnKeeps
<1>5. CASE LoseReceipt(w)
  <2>1. /\ pc[w] = "mutated" /\ Goto(w, "compensate") /\ UNCHANGED <<atoms, ledger, before>> /\ UNCHANGED requestLedger
        /\ todo' = [todo EXCEPT ![w] = Compensated(w)]
    BY <1>5 DEF LoseReceipt, RecordFails, fenceVars, storeVars
  <2>2. /\ Compensated(w) \in SUBSET Atoms /\ (Compensated(w) # {} => before[w] # None)
        /\ \A d \in Compensated(w) : Exists(d)
    BY <2>1, CompensatedExist
  <2>3. \A k \in Keys : Applied(k)' => Applied(k)
    BY <2>1, AppliedByRecord
  <2> QED
    BY <2>1, <2>2, <2>3, GoOnKeeps
<1>6. CASE EndCompensation(w)
  <2>1. /\ pc[w] = "compensate" /\ Goto(w, "fail") /\ UNCHANGED <<atoms, ledger, before>> /\ UNCHANGED requestLedger
        /\ todo' = todo
    BY <1>6 DEF EndCompensation, Compensate, fenceVars, storeVars
  <2>2. \A k \in Keys : Applied(k)' => Applied(k)
    BY <2>1, AppliedByRecord
  <2>3. (todo[w] # {} => before[w] # None) /\ \A d \in todo[w] : Exists(d)
    BY <1>1 DEF CallerInv
  <2> QED
    BY <1>1, <1>2, <2>1, <2>2, <2>3, GoOnKeeps
<1>7. CASE FailCall(w)
  <2>1. /\ pc[w] = "fail" /\ Goto(w, "error") /\ UNCHANGED <<atoms, ledger, before>> /\ Fail(w)
        /\ todo' = [todo EXCEPT ![w] = {}]
    BY <1>7 DEF FailCall, Fail, storeVars
  <2>2. \A k \in Keys : Applied(k)' => Applied(k)
    BY <2>1, AppliedByRecord
  <2> QED
    BY <2>1, <2>2, GoOnKeeps
<1> QED
  BY <1>3, <1>4, <1>5, <1>6, <1>7

\* A compensation adds a revision and takes none away.
LEMMA CompensationKeeps ==
  ASSUME TypeOK, BoundaryInv, NEW w \in Workers, NEW d \in Atoms, CompensateAtom(w, d)
  PROVE  BoundaryInv'
<1>1. /\ pc[w] \in {"compensate", "fail"} /\ d \in todo[w] /\ PutAtom(d, RowBefore(w, d), FALSE)
      /\ todo' = [todo EXCEPT ![w] = @ \ {d}] /\ UNCHANGED <<pc, call, requestLedger, before>>
  BY DEF CompensateAtom, vars
<1>2. CallerInv(w) /\ StoreGood
  BY DEF BoundaryInv
<1>3. before[w] # None /\ Exists(d) /\ todo[w] \subseteq Atoms /\ \A e \in todo[w] : Exists(e)
  BY <1>1, <1>2 DEF BoundaryInv, CallerInv
<1>4. RowBefore(w, d) \in Row
  BY <1>1, <1>3, ItemsAreRows
<1>5. StoreGood' /\ Follows
  BY <1>1, <1>2, <1>4, PutTells
<1>6. Moves(w)
  BY <1>1, AppliedByRecord DEF BoundaryInv, Moves
<1>7. todo'[w] \subseteq todo[w]
  BY <1>1 DEF BoundaryInv
<1>8. \A e \in Atoms : Exists(e) => atoms'[e] # None
  BY <1>5 DEF Follows
<1>9. call[w] # NoRow => call[w].intent = Request[call[w].key]
  BY <1>2 DEF CallerInv, Key, Intent
<1>10. \A e \in Atoms : before[w][e] # None => Exists(e)
  BY <1>2, <1>3 DEF CallerInv
<1>11. CallerInv(w)'
  BY <1>1, <1>3, <1>7, <1>8, <1>9, <1>10 DEF CallerInv, Key, Intent, Exists
<1> QED
  BY <1>5, <1>6, <1>11, MovesKeep

\* A call that returns or dies leaves nothing to do.
LEMMA EndKeeps ==
  ASSUME TypeOK, BoundaryInv, NEW w \in Workers, EndCall(w)
  PROVE  BoundaryInv'
<1>1. /\ Leave(w) /\ UNCHANGED requestLedger /\ UNCHANGED <<atoms, ledger>>
      /\ before' = [before EXCEPT ![w] = None] /\ todo' = [todo EXCEPT ![w] = {}]
  BY DEF EndCall, Return, Crash, fenceVars, storeVars
<1>2. Alone(w) /\ pc'[w] = "idle" /\ call'[w] = NoRow
  BY <1>1 DEF Leave, TypeOK, Alone
<1>3. StoreGood' /\ Follows
  BY <1>1, StoreStays DEF BoundaryInv
<1>4. Moves(w)
  BY <1>1, <1>2, AppliedByRecord DEF BoundaryInv, Befores, Alone, Moves
<1>5. before'[w] = None /\ todo'[w] = {}
  BY <1>1 DEF BoundaryInv
<1>6. CallerInv(w)'
  BY <1>2, <1>5 DEF CallerInv
<1> QED
  BY <1>3, <1>4, <1>6, MovesKeep

\* A projection, and a step in which nothing happens.
LEMMA QuietKeeps ==
  ASSUME TypeOK, BoundaryInv, ProjectAll \/ UNCHANGED boundaryVars
  PROVE  BoundaryInv'
<1>1. UNCHANGED <<pc, call, requestLedger, before, todo>>
  BY DEF ProjectAll, boundaryVars, vars
<1>2. StoreGood' /\ Follows
  <2>1. CASE ProjectAll
    BY <2>1, MarkTells DEF ProjectAll, BoundaryInv
  <2>2. CASE UNCHANGED boundaryVars
    BY <2>2, StoreStays DEF boundaryVars, storeVars, BoundaryInv
  <2> QED
    BY <2>1, <2>2
<1>3. \A k \in Keys : Applied(k)' => Applied(k)
  BY <1>1 DEF Applied
<1>4. CASE Workers = {}
  <2>1. ReceiptsTold'
    <3> SUFFICES ASSUME NEW k \in Keys, Applied(k)' PROVE Told(ledger'[Request[k].atom], Request[k])
      BY DEF ReceiptsTold
    <3>1. Told(ledger[Request[k].atom], Request[k])
      BY <1>3 DEF BoundaryInv, ReceiptsTold
    <3> QED
      BY <1>2, <3>1, ToldFollows, RequestFields DEF BoundaryInv
  <2> QED
    BY <1>1, <1>2, <1>4, <2>1 DEF BoundaryInv
<1>5. ASSUME NEW w \in Workers PROVE BoundaryInv'
  <2>1. Moves(w)
    BY <1>1, <1>3 DEF BoundaryInv, Moves
  <2>2. CallerInv(w)'
    <3>1. CallerInv(w) /\ \A d \in Atoms : Exists(d) => atoms'[d] # None
      BY <1>2 DEF BoundaryInv, Follows
    <3>2. Key(w)' = Key(w) /\ Intent(w)' = Intent(w) /\ Target(w)' = Target(w)
      BY <1>1 DEF Key, Intent, Target
    <3>3. todo[w] \subseteq Atoms
      BY DEF BoundaryInv
    <3>4. pc[w] = "mutated" => atoms'[Target(w)] # None /\ Told(ledger'[Target(w)], Request[Key(w)])
      <4> SUFFICES ASSUME pc[w] = "mutated" PROVE atoms'[Target(w)] # None /\ Told(ledger'[Target(w)], Request[Key(w)])
        OBVIOUS
      <4>1. Target(w) \in Atoms /\ Key(w) \in Keys /\ Exists(Target(w)) /\ Told(ledger[Target(w)], Request[Key(w)])
        BY <3>1, CallFields DEF CallerInv
      <4> QED
        BY <1>2, <3>1, <4>1, ToldFollows DEF BoundaryInv
    <3> QED
      BY <1>1, <3>1, <3>2, <3>3, <3>4 DEF CallerInv, Exists
  <2> QED
    BY <1>2, <2>1, <2>2, MovesKeep
<1> QED
  BY <1>4, <1>5

\* The seeded state.
LEMMA InitKeeps == BoundaryInit => BoundaryInv
<1> SUFFICES ASSUME BoundaryInit PROVE BoundaryInv
  OBVIOUS
<1>1. SeedRow \in Row /\ [row |-> SeedRow, delta |-> "put"] \in Revision
  BY SeedAssumption, MaxRevAssumption DEF SeedRow, Row, Visibilities, Shown, Revision
<1> DEFINE first == <<[row |-> SeedRow, delta |-> "put"]>>
<1>2. first \in Seq(Revision) /\ Len(first) = 1 /\ first[1].row = SeedRow
  BY <1>1
<1>3. /\ atoms = [a \in Atoms |-> IF a \in Seeded THEN SeedRow ELSE None]
      /\ ledger = [a \in Atoms |-> IF a \in Seeded THEN first ELSE <<>>]
  BY DEF BoundaryInit
<1> HIDE DEF first
<1>4. Tells(first, SeedRow)
  BY <1>2 DEF Tells, TellsBody, TellsStatus
<1>5. StoreGood
  <2>1. <<>> \in Seq(Revision) /\ Len(<<>>) <= MaxRev /\ Len(first) <= MaxRev
    BY <1>2, MaxRevAssumption
  <2> QED
    BY <1>1, <1>2, <1>3, <1>4, <2>1 DEF StoreGood, Exists
<1>6. before \in [Workers -> Befores] /\ todo \in [Workers -> SUBSET Atoms]
  BY DEF BoundaryInit, Befores
<1>7. \A w \in Workers : before[w] = None /\ todo[w] = {} /\ pc[w] = "idle" /\ call[w] = NoRow
  BY DEF BoundaryInit, Init
<1>8. \A w \in Workers : CallerInv(w)
  BY <1>7 DEF CallerInv
<1>9. ReceiptsTold
  BY DEF BoundaryInit, Init, ReceiptsTold, Applied
<1> QED
  BY <1>5, <1>6, <1>8, <1>9 DEF BoundaryInv

\* The invariant is inductive over the types of the fence.
LEMMA NextKeeps ==
  ASSUME BoundaryInv, TypeOK, [BoundaryNext]_boundaryVars,
         \A w \in Workers : CommitMutation(w) => MutationTold(w)
  PROVE  BoundaryInv'
<1>1. ASSUME NEW w \in Workers, NEW k \in Keys, BeginCall(w, k) PROVE BoundaryInv'
  BY <1>1, BeginKeeps
<1>2. ASSUME NEW w \in Workers, ClaimStep(w) PROVE BoundaryInv'
  BY <1>2, ClaimKeeps
<1>3. ASSUME NEW w \in Workers, ReadBefore(w) PROVE BoundaryInv'
  BY <1>3, ReadKeeps
<1>4. ASSUME NEW w \in Workers, CommitMutation(w) PROVE BoundaryInv'
  BY <1>4, CommitKeeps
<1>5. ASSUME NEW w \in Workers,
             RefuseMutation(w) \/ RecordReceipt(w) \/ LoseReceipt(w) \/ EndCompensation(w) \/ FailCall(w)
      PROVE  BoundaryInv'
  BY <1>5, FenceMovesKeep
<1>6. ASSUME NEW w \in Workers, NEW d \in Atoms, CompensateAtom(w, d) PROVE BoundaryInv'
  BY <1>6, CompensationKeeps
<1>7. ASSUME NEW w \in Workers, EndCall(w) PROVE BoundaryInv'
  BY <1>7, EndKeeps
<1>8. ASSUME ProjectAll \/ UNCHANGED boundaryVars PROVE BoundaryInv'
  BY <1>8, QuietKeeps
<1> QED
  BY <1>1, <1>2, <1>3, <1>4, <1>5, <1>6, <1>7, <1>8 DEF BoundaryNext

\* Told, in the words of ReceiptsAreRecorded.
LEMMA ToldIsRecorded == BoundaryInv => ReceiptsAreRecorded
<1> SUFFICES ASSUME BoundaryInv, NEW k \in Keys, Applied(k)
             PROVE  \E n \in 1..LastRevision(Request[k].atom) :
                      LET row == ledger[Request[k].atom][n].row
                      IN CASE Request[k].op = "put"       -> row.body = Request[k].body
                           [] Request[k].op = "tombstone" -> row.status = "deleted"
                           [] Request[k].op = "restore"   -> row.status = "active"
                           [] Request[k].op = "supersede" -> row.status = "superseded"
  BY DEF ReceiptsAreRecorded
<1>1. Told(ledger[Request[k].atom], Request[k])
  BY DEF BoundaryInv, ReceiptsTold
<1>2. CASE Request[k].op = "put"
  BY <1>1, <1>2 DEF Told, TellsBody, LastRevision
<1>3. CASE Request[k].op = "tombstone"
  BY <1>1, <1>3 DEF Told, TellsStatus, LastRevision
<1>4. CASE Request[k].op = "restore"
  BY <1>1, <1>4 DEF Told, TellsStatus, LastRevision
<1>5. CASE Request[k].op = "supersede"
  BY <1>1, <1>5 DEF Told, TellsStatus, LastRevision
<1> QED
  BY <1>2, <1>3, <1>4, <1>5, RequestFields

\* Without supersessions, which rewrite revisions: whatever has a receipt is in the
\* revision history of its atom, through stale reads, no-op writes, compensations
\* and projections (boundary.py put_atom, tombstone, restore).
THEOREM ReceiptsTellTheHistory ==
  ASSUME \A k \in Keys : Request[k].op # "supersede"
  PROVE  BoundarySpec => []ReceiptsAreRecorded
<1>1. BoundarySpec => []TypeOK
  BY BoundaryIsFenced, TypeCorrect, PTL DEF FencesRequests
<1>2. BoundaryInv /\ TypeOK /\ [BoundaryNext]_boundaryVars => BoundaryInv'
  <2> SUFFICES ASSUME BoundaryInv, TypeOK, [BoundaryNext]_boundaryVars PROVE BoundaryInv'
    OBVIOUS
  <2>1. ASSUME NEW w \in Workers, CommitMutation(w) PROVE MutationTold(w)
    <3>1. pc[w] = "claimed" /\ before[w] # None /\ Mutation(w)
      BY <2>1 DEF CommitMutation, Mutate
    <3>2. Op(w) # "supersede"
      BY <3>1, CallFields
    <3> QED
      BY <3>1, <3>2, MutationTells
  <2> QED
    BY <2>1, NextKeeps
<1> QED
  BY <1>1, <1>2, InitKeeps, ToldIsRecorded, PTL DEF BoundarySpec

-----------------------------------------------------------------------------
(* What a compensation restores, when calls take turns.  As long as nothing  *)
(* is staged the row of an atom is its newest revision, so a projection      *)
(* changes visibilities only; and a call finds the atoms as it read them.    *)

Alike(r, s) == r.body = s.body /\ r.status = s.status /\ r.locked = s.locked

StoreSound ==
    /\ atoms \in [Atoms -> Row \cup {None}] /\ ledger \in [Atoms -> Seq(Revision)]
    /\ \A a \in Atoms : Exists(a) => LastRevision(a) <= atoms[a].revision

\* A write that is not staged: the row is the item, but for revision and visibility.
LEMMA PutInPlace ==
  ASSUME StoreSound, NEW a \in Atoms, NEW item \in Row, NEW evidenced \in BOOLEAN,
         PutAtom(a, item, evidenced), ~ Staged(a, evidenced)
  PROVE  /\ StoreSound' /\ atoms'[a] # None /\ Alike(atoms'[a], item)
         /\ \A d \in Atoms \ {a} : atoms'[d] = atoms[d]
<1>1. CASE SamePayload(a, item, evidenced)
  <2>1. UNCHANGED <<atoms, ledger>>
    BY <1>1 DEF PutAtom, memoryVars
  <2>2. Exists(a) /\ atoms[a] \in Row
    BY <1>1 DEF SamePayload, StoreSound, Exists
  <2>3. Alike(atoms[a], item)
    BY <1>1, <2>2 DEF SamePayload, Alike, Row
  <2> QED
    BY <2>1, <2>2, <2>3 DEF StoreSound, Exists, LastRevision
<1>2. CASE ~ SamePayload(a, item, evidenced)
  <2> DEFINE stored == Stored(a, item, evidenced)
             entry == [row |-> stored, delta |-> "put"]
  <2>1. /\ LastRevision(a) < MaxRev
        /\ atoms' = [atoms EXCEPT ![a] = stored]
        /\ ledger' = [ledger EXCEPT ![a] = Append(@, entry)]
    BY <1>2 DEF PutAtom
  <2>2. ledger[a] \in Seq(Revision) /\ LastRevision(a) + 1 \in 1..MaxRev
    BY <2>1, MaxRevAssumption DEF StoreSound, LastRevision
  <2>3. stored \in Row /\ stored.revision = LastRevision(a) + 1 /\ Alike(stored, item)
    BY <2>2 DEF Stored, Row, Visibilities, Alike
  <2>4. entry \in Revision
    BY <2>3 DEF Revision
  <2> HIDE DEF stored, entry
  <2>5. Append(ledger[a], entry) \in Seq(Revision) /\ Len(Append(ledger[a], entry)) = LastRevision(a) + 1
    BY <2>2, <2>4 DEF LastRevision
  <2>6. /\ atoms'[a] = stored /\ ledger'[a] = Append(ledger[a], entry)
        /\ \A d \in Atoms \ {a} : atoms'[d] = atoms[d] /\ ledger'[d] = ledger[d]
    BY <2>1 DEF StoreSound
  <2>7. atoms' \in [Atoms -> Row \cup {None}] /\ ledger' \in [Atoms -> Seq(Revision)]
    BY <2>1, <2>3, <2>5 DEF StoreSound
  <2>8. stored # None
    BY <2>3, NoneAssumption
  <2>9. ASSUME NEW d \in Atoms, atoms'[d] # None PROVE Len(ledger'[d]) <= atoms'[d].revision
    <3>1. CASE d = a
      BY <2>2, <2>3, <2>5, <2>6, <3>1
    <3>2. CASE d # a
      BY <2>6, <2>9, <3>2 DEF StoreSound, Exists, LastRevision
    <3> QED
      BY <3>1, <3>2
  <2> QED
    BY <2>3, <2>6, <2>7, <2>8, <2>9 DEF StoreSound, Exists, LastRevision
<1> QED
  BY <1>1, <1>2

\* A revision counted from the row that is there is a new one.
LEMMA UpsertAppends ==
  ASSUME StoreSound, NEW a \in Atoms, Exists(a), NEW row \in Row, row.revision = atoms[a].revision + 1
  PROVE  /\ UpsertRevision(a, row) \in Seq(Revision) /\ Len(UpsertRevision(a, row)) <= row.revision
         /\ RowAfterSupersede(a, row) \in Row /\ RowAfterSupersede(a, row).revision = row.revision
         /\ UpsertRevision(a, row) = Append(ledger[a], [row |-> row, delta |-> "supersede"])
<1>1. /\ atoms[a] \in Row /\ ledger[a] \in Seq(Revision) /\ Len(ledger[a]) \in Nat
      /\ Len(ledger[a]) <= atoms[a].revision /\ atoms[a].revision \in Nat
  BY DEF StoreSound, Exists, LastRevision, Row
<1> DEFINE entry == [row |-> row, delta |-> "supersede"]
<1>2. entry \in Revision
  BY DEF Revision
<1>3. UpsertRevision(a, row) = Append(ledger[a], entry)
  BY <1>1 DEF UpsertRevision, LastRevision
<1> HIDE DEF entry
<1>4. UpsertRevision(a, row) \in Seq(Revision) /\ Len(UpsertRevision(a, row)) <= row.revision
  BY <1>1, <1>2, <1>3
<1>5. RowAfterSupersede(a, row) \in Row /\ RowAfterSupersede(a, row).revision = row.revision
  BY <1>1 DEF RowAfterSupersede, Row
<1> QED
  BY <1>3, <1>4, <1>5 DEF entry

\* A supersession of rows that are as they were read.
LEMMA SupersedeInPlace ==
  ASSUME StoreSound, NEW old \in Atoms, NEW new \in Atoms, Exists(old), Exists(new),
         NEW oldRead \in Row, NEW newRead \in Row, Supersede(old, new, oldRead, newRead),
         oldRead.revision = atoms[old].revision, newRead.revision = atoms[new].revision
  PROVE  /\ StoreSound' /\ atoms'[old] # None /\ atoms'[new] # None
         /\ \A d \in Atoms \ {old, new} : atoms'[d] = atoms[d]
<1>1. CASE <<old, new>> \in edges
  BY <1>1 DEF Supersede, memoryVars, StoreSound, Exists, LastRevision
<1>2. CASE <<old, new>> \notin edges
  <2> DEFINE oldRow == [oldRead EXCEPT !.status = "superseded", !.revision = @ + 1]
             newRow == [newRead EXCEPT !.supersedes = @ \cup {old}, !.revision = @ + 1]
  <2>1. /\ oldRow.revision <= MaxRev /\ newRow.revision <= MaxRev
        /\ atoms' = [atoms EXCEPT ![old] = RowAfterSupersede(old, oldRow), ![new] = RowAfterSupersede(new, newRow)]
        /\ ledger' = [ledger EXCEPT ![old] = UpsertRevision(old, oldRow), ![new] = UpsertRevision(new, newRow)]
    BY <1>2 DEF Supersede
  <2>2. oldRow \in Row /\ oldRow.revision = atoms[old].revision + 1
    <3>1. oldRead.revision + 1 \in 1..MaxRev
      BY <2>1, MaxRevAssumption DEF Row
    <3> QED
      BY <3>1 DEF Row
  <2>3. newRow \in Row /\ newRow.revision = atoms[new].revision + 1
    <3>1. newRead.revision + 1 \in 1..MaxRev
      BY <2>1, MaxRevAssumption DEF Row
    <3> QED
      BY <3>1 DEF Row
  <2> HIDE DEF oldRow, newRow
  <2>4. /\ UpsertRevision(old, oldRow) \in Seq(Revision) /\ Len(UpsertRevision(old, oldRow)) <= oldRow.revision
        /\ RowAfterSupersede(old, oldRow) \in Row /\ RowAfterSupersede(old, oldRow).revision = oldRow.revision
    BY <2>2, UpsertAppends
  <2>5. /\ UpsertRevision(new, newRow) \in Seq(Revision) /\ Len(UpsertRevision(new, newRow)) <= newRow.revision
        /\ RowAfterSupersede(new, newRow) \in Row /\ RowAfterSupersede(new, newRow).revision = newRow.revision
    BY <2>3, UpsertAppends
  <2>6. /\ atoms'[new] = RowAfterSupersede(new, newRow) /\ ledger'[new] = UpsertRevision(new, newRow)
        /\ old # new => atoms'[old] = RowAfterSupersede(old, oldRow) /\ ledger'[old] = UpsertRevision(old, oldRow)
        /\ \A d \in Atoms \ {old, new} : atoms'[d] = atoms[d] /\ ledger'[d] = ledger[d]
    BY <2>1 DEF StoreSound
  <2>7. atoms' \in [Atoms -> Row \cup {None}] /\ ledger' \in [Atoms -> Seq(Revision)]
    BY <2>1, <2>4, <2>5 DEF StoreSound
  <2>8. atoms'[old] # None /\ atoms'[new] # None
    BY <2>4, <2>5, <2>6, NoneAssumption
  <2>9. ASSUME NEW d \in Atoms, atoms'[d] # None PROVE Len(ledger'[d]) <= atoms'[d].revision
    <3>1. CASE d = new
      BY <2>5, <2>6, <3>1
    <3>2. CASE d = old /\ d # new
      BY <2>4, <2>6, <3>2
    <3>3. CASE d \notin {old, new}
      BY <2>6, <2>9, <3>3 DEF StoreSound, Exists, LastRevision
    <3> QED
      BY <3>1, <3>2, <3>3
  <2> QED
    BY <2>6, <2>7, <2>8, <2>9 DEF StoreSound, Exists, LastRevision
<1> QED
  BY <1>1, <1>2

\* A restoration writes its target and atoms that were active, and no body.
LEMMA RestoreInPlace ==
  ASSUME StoreSound, NEW a \in Atoms, Exists(a), Restore(a)
  PROVE  /\ StoreSound'
         /\ \A d \in Atoms : Exists(d) => atoms'[d] # None /\ atoms'[d].body = atoms[d].body
         /\ \A d \in Atoms : atoms'[d] = atoms[d] \/ (Exists(d) /\ (d = a \/ atoms[d].status = "active"))
<1> DEFINE changed == {d \in Descendants(a) : atoms[d].status = "active"}
                        \cup {d \in {a} : atoms[a].status # "active" \/ ~ atoms[a].locked}
           entry(d) == [row |-> RestoredRow(a, d), delta |-> "put"]
<1>1. /\ \A d \in changed : LastRevision(d) < MaxRev
      /\ atoms' = [d \in Atoms |-> IF d \in changed THEN RestoredRow(a, d) ELSE atoms[d]]
      /\ ledger' = [d \in Atoms |-> IF d \in changed THEN Append(ledger[d], entry(d)) ELSE ledger[d]]
  BY DEF Restore
<1>2. \A d \in changed : d \in Atoms /\ Exists(d) /\ (d = a \/ atoms[d].status = "active")
  BY DEF Descendants
<1> HIDE DEF changed
<1>3. ASSUME NEW d \in changed
      PROVE  /\ RestoredRow(a, d) \in Row /\ RestoredRow(a, d).body = atoms[d].body
             /\ RestoredRow(a, d).revision = LastRevision(d) + 1
             /\ Append(ledger[d], entry(d)) \in Seq(Revision)
             /\ Len(Append(ledger[d], entry(d))) = LastRevision(d) + 1
  <2>1. atoms[d] \in Row /\ ledger[d] \in Seq(Revision) /\ LastRevision(d) + 1 \in 1..MaxRev
    BY <1>1, <1>2, MaxRevAssumption DEF StoreSound, Exists, LastRevision
  <2>2. /\ RestoredRow(a, d) \in Row /\ RestoredRow(a, d).body = atoms[d].body
        /\ RestoredRow(a, d).revision = LastRevision(d) + 1
    BY <2>1 DEF RestoredRow, Row
  <2>3. entry(d) \in Revision
    BY <2>2 DEF Revision
  <2> HIDE DEF entry
  <2>4. Append(ledger[d], entry(d)) \in Seq(Revision) /\ Len(Append(ledger[d], entry(d))) = LastRevision(d) + 1
    BY <2>1, <2>3 DEF LastRevision
  <2> QED
    BY <2>2, <2>4
<1> HIDE DEF entry
<1>4. atoms' \in [Atoms -> Row \cup {None}] /\ ledger' \in [Atoms -> Seq(Revision)]
  BY <1>1, <1>3 DEF StoreSound
<1>5. ASSUME NEW d \in Atoms
      PROVE  /\ Exists(d) => atoms'[d] # None /\ atoms'[d].body = atoms[d].body
             /\ atoms'[d] = atoms[d] \/ (Exists(d) /\ (d = a \/ atoms[d].status = "active"))
             /\ atoms'[d] # None => Len(ledger'[d]) <= atoms'[d].revision
  <2>1. CASE d \in changed
    <3>1. atoms'[d] = RestoredRow(a, d) /\ ledger'[d] = Append(ledger[d], entry(d))
      BY <1>1, <2>1
    <3>2. LastRevision(d) + 1 \in Nat
      BY DEF StoreSound, LastRevision
    <3> QED
      BY <1>2, <1>3, <2>1, <3>1, <3>2, NoneAssumption
  <2>2. CASE d \notin changed
    BY <1>1, <2>2 DEF StoreSound, Exists, LastRevision
  <2> QED
    BY <2>1, <2>2
<1> QED
  BY <1>4, <1>5 DEF StoreSound, Exists, LastRevision

\* A projection has nothing to promote.
LEMMA ProjectInPlace ==
  ASSUME StoreSound, NEW B, MarkBatch(B)
  PROVE  /\ StoreSound'
         /\ \A d \in Atoms : Exists(d)' <=> Exists(d)
         /\ \A d \in Atoms : Exists(d) => Alike(atoms'[d], atoms[d]) /\ atoms'[d].revision = atoms[d].revision
<1>1. PICK settled \in SUBSET Atoms :
        /\ \A a \in settled : Exists(a)
        /\ atoms' = [a \in Atoms |-> IF a \in settled THEN PublishedRow(a, Links(B)) ELSE atoms[a]]
  BY DEF MarkBatch
<1>2. ledger' = ledger
  BY DEF MarkBatch
<1>3. ASSUME NEW a \in settled
      PROVE  /\ PublishedRow(a, Links(B)) \in Row /\ Alike(PublishedRow(a, Links(B)), atoms[a])
             /\ PublishedRow(a, Links(B)).revision = atoms[a].revision
  <2>1. /\ atoms[a] \in Row /\ Len(ledger[a]) \in Nat /\ atoms[a].revision \in Nat
        /\ Len(ledger[a]) <= atoms[a].revision
    BY <1>1 DEF StoreSound, Exists, LastRevision, Row
  <2>2. CurrentRevision(a) = atoms[a]
    BY <2>1 DEF CurrentRevision, LastRevision
  <2>3. Shown \subseteq Visibilities
    BY DEF Visibilities
  <2> QED
    BY <2>1, <2>2, <2>3 DEF PublishedRow, Row, Alike
<1>4. atoms' \in [Atoms -> Row \cup {None}]
  BY <1>1, <1>3 DEF StoreSound
<1>5. ASSUME NEW d \in Atoms
      PROVE  /\ atoms'[d] # None <=> Exists(d)
             /\ Exists(d) => Alike(atoms'[d], atoms[d]) /\ atoms'[d].revision = atoms[d].revision
  <2>1. CASE d \in settled
    BY <1>1, <1>3, <2>1, NoneAssumption
  <2>2. CASE d \notin settled
    BY <1>1, <2>2 DEF Exists, Alike
  <2> QED
    BY <2>1, <2>2
<1> QED
  BY <1>2, <1>4, <1>5 DEF StoreSound, Exists, LastRevision

\* No two calls are under way.
TakeTurns == \A v, w \in Workers : pc[v] # "idle" /\ pc[w] # "idle" => v = w

\* A put imports: its atom is not there before, and no other request puts it.
OnlyImports ==
    \A k \in Keys : Request[k].op = "put" =>
        /\ Request[k].atom \notin Seeded
        /\ \A l \in Keys : Request[l].op = "put" /\ Request[l].atom = Request[k].atom => l = k

Imported == \A k \in Keys : Request[k].op = "put" /\ Exists(Request[k].atom) => commits[k] > 0

\* The atom is as the call found it; or what is left to do makes it so.
AsBefore(w, d) ==
    IF before[w][d] = None THEN Exists(d) => atoms[d].status = "deleted"
    ELSE Exists(d) /\ Alike(atoms[d], before[w][d])
Undoable(w, d) ==
    /\ Exists(d)
    /\ Op(w) = "restore" => before[w][d] # None /\ atoms[d].body = before[w][d].body
AllBut(w, S) ==
    before[w] # None /\ \A d \in Atoms : IF d \in S THEN Undoable(w, d) ELSE AsBefore(w, d)

\* Nothing but visibilities moved since the call read the atoms.
Unmoved(w) == \A d \in Atoms :
    IF before[w][d] = None THEN ~ Exists(d)
    ELSE Exists(d) /\ Alike(atoms[d], before[w][d]) /\ before[w][d].revision = atoms[d].revision

TurnInv(w) ==
    /\ call[w] # NoRow => Intent(w) = Request[Key(w)]
    /\ pc[w] \in {"claim", "claimed"} /\ before[w] # None => Unmoved(w)
    /\ pc[w] = "mutated" => AllBut(w, Compensated(w))
    /\ pc[w] = "compensate" => AllBut(w, todo[w])
    /\ pc[w] = "fail" => \A d \in todo[w] : before[w] # None /\ Undoable(w, d)
    /\ pc[w] = "fail" /\ Key(w) \in undone => todo[w] = {}
    /\ pc[w] \in {"fail", "error"} /\ Key(w) \in undone => AllBut(w, {})

SoleInv ==
    /\ StoreSound
    /\ before \in [Workers -> Befores] /\ todo \in [Workers -> SUBSET Atoms]
    /\ Imported
    /\ \A w \in Workers : TurnInv(w)

\* While one call is under way the others rest.
LEMMA OthersRest ==
  ASSUME IInv', TakeTurns', StoreSound', Imported',
         before' \in [Workers -> Befores], todo' \in [Workers -> SUBSET Atoms],
         NEW w \in Workers, pc'[w] # "idle", TurnInv(w)'
  PROVE  SoleInv'
<1>1. ASSUME NEW v \in Workers, v # w PROVE TurnInv(v)'
  <2>1. pc'[v] = "idle" /\ call'[v] = NoRow
    BY <1>1 DEF TakeTurns, IInv, TypeOK
  <2> QED
    BY <2>1 DEF TurnInv
<1> QED
  BY <1>1 DEF SoleInv

\* The call that is under way, and what it compensates.
LEMMA TurnFields ==
  ASSUME TypeOK, SoleInv, NEW w \in Workers, pc[w] # "idle"
  PROVE  /\ call[w] # NoRow /\ Key(w) \in Keys /\ Intent(w) = Request[Key(w)]
         /\ Target(w) = Request[Key(w)].atom /\ Target(w) \in Atoms /\ Other(w) \in Atoms
         /\ Op(w) = Request[Key(w)].op /\ Op(w) \in {"put", "tombstone", "restore", "supersede"}
         /\ Intent(w).body \in Bodies
<1>1. call[w] # NoRow /\ call[w] \in Call
  BY DEF TypeOK
<1>2. Key(w) \in Keys /\ Intent(w) = Request[Key(w)]
  BY <1>1 DEF Call, Key, SoleInv, TurnInv
<1> QED
  BY <1>1, <1>2, RequestFields DEF Target, Other, Op

\* A step that leaves the atoms, and what calls read of them, alone.
LEMMA AtomsStay ==
  ASSUME SoleInv, UNCHANGED <<atoms, ledger, commits>>
  PROVE  StoreSound' /\ Imported'
  BY DEF SoleInv, StoreSound, Imported, Exists, LastRevision

\* What is unmoved is as before; and what would be compensated can be.
LEMMA UnmovedIsAsBefore ==
  ASSUME TypeOK, SoleInv, NEW w \in Workers, pc[w] # "idle", before[w] # None, Unmoved(w),
         Op(w) # "put"
  PROVE  /\ Compensated(w) \subseteq Atoms
         /\ \A d \in Compensated(w) : before[w][d] # None /\ Undoable(w, d)
<1>1. ASSUME NEW d \in Compensated(w) PROVE d \in Atoms /\ before[w][d] # None
  <2>1. before[w][Target(w)] # None
    BY <1>1 DEF Compensated
  <2>2. d = Target(w) \/ (d \in Atoms /\ before[w][d] # None)
    BY <1>1, <2>1 DEF Compensated
  <2> QED
    BY <2>1, <2>2, TurnFields
<1> QED
  BY <1>1 DEF Unmoved, Undoable, Alike

LEMMA AsBeforeThere ==
  ASSUME NEW w \in Workers, Unmoved(w), NEW d \in Atoms
  PROVE  /\ AsBefore(w, d)
         /\ atoms'[d] = atoms[d] /\ before' = before => AsBefore(w, d)'
  BY DEF Unmoved, AsBefore, Alike, Exists

\* What a mutation changes its compensation writes, and can.
LEMMA MutationUndoable ==
  ASSUME IInv, SoleInv, NEW w \in Workers, pc[w] = "claimed", before[w] # None, Mutation(w)
  PROVE  /\ StoreSound'
         /\ \A d \in Atoms : \/ d \notin Compensated(w) /\ atoms'[d] = atoms[d]
                             \/ /\ d \in Compensated(w) /\ atoms'[d] # None
                                /\ Op(w) = "restore" =>
                                     before[w][d] # None /\ atoms'[d].body = before[w][d].body
         /\ \A d \in Atoms : atoms'[d] # None => Exists(d) \/ (Op(w) = "put" /\ d = Target(w))
<1>1. /\ TypeOK /\ StoreSound /\ Unmoved(w) /\ commits[Key(w)] = 0 /\ Imported
      /\ before[w] \in [Atoms -> Row \cup {None}]
  BY DEF IInv, HistoryInv, SoleInv, TurnInv, Befores
<1>2. /\ Target(w) \in Atoms /\ Other(w) \in Atoms /\ Key(w) \in Keys
      /\ Op(w) = Request[Key(w)].op /\ Target(w) = Request[Key(w)].atom /\ Intent(w).body \in Bodies
      /\ Op(w) \in {"put", "tombstone", "restore", "supersede"}
  BY <1>1, TurnFields
<1>3. CASE Op(w) = "put"
  <2>1. ~ Exists(Target(w)) /\ before[w][Target(w)] = None
    <3>1. ~ (commits[Key(w)] > 0)
      BY <1>1
    <3>2. ~ Exists(Target(w))
      BY <1>1, <1>2, <1>3, <3>1 DEF Imported
    <3> QED
      BY <1>1, <1>2, <3>2 DEF Unmoved
  <2>2. PutItem(w) \in Row
    <3>1. SeedRow \in Row /\ "ready" \in Visibilities
      BY SeedAssumption, MaxRevAssumption DEF SeedRow, Row, Visibilities, Shown
    <3> QED
      BY <1>2, <2>1, <3>1 DEF PutItem, Row
  <2>3. PutAtom(Target(w), PutItem(w), TRUE) /\ ~ Staged(Target(w), TRUE)
    BY <1>3, <2>1 DEF Mutation, Staged, IsShown
  <2>4. StoreSound' /\ atoms'[Target(w)] # None /\ \A d \in Atoms \ {Target(w)} : atoms'[d] = atoms[d]
    BY <1>1, <1>2, <2>2, <2>3, PutInPlace
  <2>5. Compensated(w) = {Target(w)}
    BY <1>3 DEF Compensated
  <2> QED
    BY <1>3, <2>4, <2>5 DEF Exists
<1>4. CASE Op(w) = "tombstone"
  <2>1. PICK row \in {before[w][Target(w)], atoms[Target(w)]} :
          before[w][Target(w)] # None /\ PutAtom(Target(w), [row EXCEPT !.status = "deleted"], FALSE)
    BY <1>4 DEF Mutation
  <2>2. row \in Row /\ Exists(Target(w))
    BY <1>1, <1>2, <2>1 DEF Unmoved, StoreSound, Exists
  <2>3. [row EXCEPT !.status = "deleted"] \in Row /\ ~ Staged(Target(w), FALSE)
    BY <2>2 DEF Row, Staged
  <2>4. StoreSound' /\ atoms'[Target(w)] # None /\ \A d \in Atoms \ {Target(w)} : atoms'[d] = atoms[d]
    BY <1>1, <1>2, <2>1, <2>3, PutInPlace
  <2>5. Compensated(w) = {Target(w)}
    BY <1>4, <2>1 DEF Compensated
  <2> QED
    BY <1>4, <2>2, <2>4, <2>5 DEF Exists
<1>5. CASE Op(w) = "restore"
  <2>1. before[w][Target(w)] # None /\ Restore(Target(w)) /\ Exists(Target(w))
    BY <1>1, <1>2, <1>5 DEF Mutation, Unmoved
  <2>2. /\ StoreSound'
        /\ \A d \in Atoms : Exists(d) => atoms'[d] # None /\ atoms'[d].body = atoms[d].body
        /\ \A d \in Atoms : atoms'[d] = atoms[d]
             \/ (Exists(d) /\ (d = Target(w) \/ atoms[d].status = "active"))
    BY <1>1, <1>2, <2>1, RestoreInPlace
  <2>3. ASSUME NEW d \in Atoms, Exists(d)
        PROVE  before[w][d] # None /\ atoms[d].status = before[w][d].status /\ atoms[d].body = before[w][d].body
    BY <1>1, <2>3 DEF Unmoved, Alike
  <2>4. \A d \in Atoms : d \in Compensated(w) <=>
          d = Target(w) \/ (before[w][d] # None /\ before[w][d].status = "active")
    BY <1>2, <1>5, <2>1 DEF Compensated
  <2>5. \A d \in Atoms : d \in Compensated(w) => Exists(d)
    BY <1>1, <2>1, <2>4 DEF Unmoved
  <2>6. \A d \in Atoms : d \notin Compensated(w) => atoms'[d] = atoms[d]
    BY <2>2, <2>3, <2>4
  <2> QED
    BY <2>2, <2>3, <2>5, <2>6 DEF Exists
<1>6. CASE Op(w) = "supersede"
  <2>1. PICK rows \in {before[w], atoms} :
          /\ before[w][Target(w)] # None /\ before[w][Other(w)] # None
          /\ Supersede(Target(w), Other(w), rows[Target(w)], rows[Other(w)])
    BY <1>6 DEF Mutation
  <2>2. /\ Exists(Target(w)) /\ Exists(Other(w))
        /\ rows[Target(w)] \in Row /\ rows[Target(w)].revision = atoms[Target(w)].revision
        /\ rows[Other(w)] \in Row /\ rows[Other(w)].revision = atoms[Other(w)].revision
    BY <1>1, <1>2, <2>1 DEF Unmoved, StoreSound, Exists
  <2>3. /\ StoreSound' /\ atoms'[Target(w)] # None /\ atoms'[Other(w)] # None
        /\ \A d \in Atoms \ {Target(w), Other(w)} : atoms'[d] = atoms[d]
    BY <1>1, <1>2, <2>1, <2>2, SupersedeInPlace
  <2>4. Compensated(w) = {Target(w), Other(w)}
    BY <1>2, <1>6, <2>1 DEF Compensated
  <2> QED
    BY <1>6, <2>2, <2>3, <2>4 DEF Exists
<1> QED
  BY <1>2, <1>3, <1>4, <1>5, <1>6

\* A call begins, and is answered or claims its request.
LEMMA BeginTurn ==
  ASSUME IInv, IInv', SoleInv, TakeTurns', NEW w \in Workers, NEW k \in Keys, BeginCall(w, k)
  PROVE  SoleInv'
<1>1. /\ pc[w] = "idle" /\ pc'[w] = "claim" /\ call'[w] = [key |-> k, intent |-> Request[k], token |-> NoRow]
      /\ before' = [before EXCEPT ![w] = IF Request[k].op = "put" THEN atoms ELSE None]
      /\ UNCHANGED <<atoms, ledger, commits, todo>>
  BY DEF BeginCall, Begin, IInv, TypeOK, storeVars
<1>2. StoreSound' /\ Imported'
  BY <1>1, AtomsStay
<1>3. before' \in [Workers -> Befores] /\ todo' \in [Workers -> SUBSET Atoms]
  BY <1>1 DEF SoleInv, StoreSound, Befores
<1>4. before'[w] = None \/ before'[w] = atoms
  BY <1>1 DEF SoleInv
<1>5. Unmoved(w)' \/ before'[w] = None
  BY <1>1, <1>4 DEF Unmoved, Alike, Exists
<1>6. Intent(w)' = Request[Key(w)']
  BY <1>1 DEF Intent, Key
<1>7. TurnInv(w)'
  BY <1>1, <1>5, <1>6 DEF TurnInv
<1> QED
  BY <1>1, <1>2, <1>3, <1>7, OthersRest

LEMMA ClaimTurn ==
  ASSUME IInv, IInv', SoleInv, TakeTurns', NEW w \in Workers, ClaimStep(w)
  PROVE  SoleInv'
<1>1. /\ pc[w] = "claim" /\ pc'[w] \in {"claimed", "conflict", "replay", "error", "rejected", "in_flight"}
      /\ call'[w].key = call[w].key /\ call'[w].intent = call[w].intent
      /\ UNCHANGED <<atoms, ledger, commits, before, todo, undone>>
      /\ pc'[w] = "error" => requestLedger[Key(w)] # NoRow /\ requestLedger[Key(w)].state = "applied"
  <2>1. call[w] # NoRow /\ TypeOK
    BY DEF ClaimStep, ClaimNew, ClaimConflict, ClaimReplay, ClaimRejected, ClaimTimeout, IInv, TypeOK
  <2>2. ASSUME NEW t \in Tokens, ClaimNew(w, t)
        PROVE  /\ pc[w] = "claim" /\ pc'[w] = "claimed" /\ UNCHANGED <<commits, undone>>
               /\ call'[w].key = call[w].key /\ call'[w].intent = call[w].intent
    BY <2>1, <2>2 DEF ClaimNew, TypeOK, Key, Intent
  <2>3. CASE ClaimConflict(w)
    BY <2>1, <2>3, GotoAlone DEF ClaimStep, ClaimConflict, storeVars
  <2>4. CASE ClaimReplay(w)
    BY <2>1, <2>4, GotoAlone DEF ClaimStep, ClaimReplay, SameRequest, storeVars
  <2>5. CASE ClaimRejected(w)
    BY <2>1, <2>5, GotoAlone DEF ClaimStep, ClaimRejected, storeVars
  <2>6. CASE ClaimTimeout(w)
    BY <2>1, <2>6, GotoAlone DEF ClaimStep, ClaimTimeout, storeVars
  <2> QED
    BY <2>2, <2>3, <2>4, <2>5, <2>6 DEF ClaimStep, storeVars
<1>2. StoreSound' /\ Imported'
  BY <1>1, AtomsStay
<1>3. Key(w)' = Key(w) /\ Intent(w)' = Intent(w) /\ Key(w) \in Keys /\ Intent(w) = Request[Key(w)]
  BY <1>1, TurnFields DEF Key, Intent, IInv
<1>4. pc'[w] = "error" => Key(w) \notin undone
  BY <1>1, <1>3 DEF IInv, ReceiptMeansMutated
<1>5. before[w] # None => Unmoved(w)'
  BY <1>1 DEF SoleInv, TurnInv, Unmoved, Exists
<1>6. TurnInv(w)'
  BY <1>1, <1>3, <1>4, <1>5 DEF TurnInv
<1> QED
  BY <1>1, <1>2, <1>6, OthersRest DEF SoleInv

LEMMA ReadTurn ==
  ASSUME IInv, IInv', SoleInv, TakeTurns', NEW w \in Workers, ReadBefore(w)
  PROVE  SoleInv'
<1>1. /\ pc[w] = "claimed" /\ pc' = pc /\ call' = call /\ before' = [before EXCEPT ![w] = atoms]
      /\ UNCHANGED <<atoms, ledger, commits, todo>>
  BY DEF ReadBefore, vars, storeVars
<1>2. StoreSound' /\ Imported'
  BY <1>1, AtomsStay
<1>3. before' \in [Workers -> Befores] /\ before'[w] = atoms
  BY <1>1 DEF SoleInv, StoreSound, Befores
<1>4. Unmoved(w)'
  BY <1>1, <1>3 DEF Unmoved, Alike, Exists
<1>5. call'[w] # NoRow => Intent(w)' = Request[Key(w)']
  BY <1>1 DEF SoleInv, TurnInv, Intent, Key
<1>6. TurnInv(w)'
  BY <1>1, <1>4, <1>5 DEF TurnInv
<1> QED
  BY <1>1, <1>2, <1>3, <1>6, OthersRest DEF SoleInv

\* The mutation commits.
LEMMA CommitTurn ==
  ASSUME IInv, IInv', SoleInv, TakeTurns', OnlyImports, NEW w \in Workers, CommitMutation(w)
  PROVE  SoleInv'
<1>1. /\ pc[w] = "claimed" /\ pc'[w] = "mutated" /\ call' = call /\ UNCHANGED <<before, todo>>
      /\ commits' = [commits EXCEPT ![Key(w)] = @ + 1] /\ before[w] # None /\ Mutation(w)
  BY GotoAlone DEF CommitMutation, Mutate, IInv
<1>2. /\ StoreSound'
      /\ \A d \in Atoms : \/ d \notin Compensated(w) /\ atoms'[d] = atoms[d]
                          \/ /\ d \in Compensated(w) /\ atoms'[d] # None
                             /\ Op(w) = "restore" => before[w][d] # None /\ atoms'[d].body = before[w][d].body
      /\ \A d \in Atoms : atoms'[d] # None => Exists(d) \/ (Op(w) = "put" /\ d = Target(w))
  BY <1>1, MutationUndoable
<1>3. /\ Key(w) \in Keys /\ Intent(w) = Request[Key(w)] /\ Target(w) = Request[Key(w)].atom
      /\ Op(w) = Request[Key(w)].op
  BY <1>1, TurnFields DEF IInv
<1>4. Imported'
  <2> SUFFICES ASSUME NEW k \in Keys, Request[k].op = "put", atoms'[Request[k].atom] # None
               PROVE  commits'[k] > 0
    BY DEF Imported, Exists
  <2>1. commits \in [Keys -> Nat]
    BY DEF IInv, TypeOK
  <2>2. CASE k = Key(w)
    BY <1>1, <1>3, <2>1, <2>2
  <2>3. CASE k # Key(w)
    <3>1. Request[k].atom \in Atoms
      BY RequestFields
    <3>2. Exists(Request[k].atom)
      BY <1>2, <1>3, <2>3, <3>1 DEF OnlyImports
    <3>3. commits[k] > 0
      BY <3>2 DEF SoleInv, Imported
    <3> QED
      BY <1>1, <2>1, <2>3, <3>3
  <2> QED
    BY <2>2, <2>3
<1>5. Op(w)' = Op(w) /\ Compensated(w)' = Compensated(w) /\ Key(w)' = Key(w) /\ Intent(w)' = Intent(w)
  BY <1>1 DEF Op, Compensated, Key, Intent, Target, Other
<1>6. Unmoved(w)
  BY <1>1 DEF SoleInv, TurnInv
<1>7. AllBut(w, Compensated(w))'
  <2>1. ASSUME NEW d \in Atoms, d \in Compensated(w) PROVE Undoable(w, d)'
    BY <1>1, <1>2, <1>5, <2>1 DEF Undoable, Exists
  <2>2. ASSUME NEW d \in Atoms, d \notin Compensated(w) PROVE AsBefore(w, d)'
    BY <1>1, <1>2, <1>6, <2>2, AsBeforeThere
  <2> QED
    BY <1>1, <1>5, <2>1, <2>2 DEF AllBut
<1>8. TurnInv(w)'
  BY <1>1, <1>3, <1>5, <1>7 DEF TurnInv
<1> QED
  BY <1>1, <1>2, <1>4, <1>8, OthersRest DEF SoleInv

\* The mutation or its record is refused, or the receipt is written.
LEMMA RefusalTurn ==
  ASSUME IInv, IInv', SoleInv, TakeTurns', NEW w \in Workers,
         RefuseMutation(w) \/ RecordReceipt(w) \/ LoseReceipt(w)
  PROVE  SoleInv'
<1>1. /\ UNCHANGED <<atoms, ledger, commits, undone, before, call>>
      /\ pc[w] # "idle" /\ TypeOK
  BY GotoAlone DEF RefuseMutation, MutateFails, RecordReceipt, Record, LoseReceipt, RecordFails, storeVars, IInv
<1>2. StoreSound' /\ Imported'
  BY <1>1, AtomsStay
<1>3. /\ Op(w)' = Op(w) /\ Key(w)' = Key(w) /\ Intent(w)' = Intent(w) /\ Compensated(w)' = Compensated(w)
      /\ Intent(w) = Request[Key(w)] /\ call[w] # NoRow /\ Target(w) \in Atoms
      /\ Op(w) \in {"put", "tombstone", "restore", "supersede"}
  BY <1>1, TurnFields DEF Op, Compensated, Key, Intent, Target, Other
<1>4. \A d \in Atoms : (Undoable(w, d)' <=> Undoable(w, d)) /\ (AsBefore(w, d)' <=> AsBefore(w, d))
  BY <1>1, <1>3 DEF Undoable, AsBefore, Exists
<1>5. todo \in [Workers -> SUBSET Atoms] /\ TurnInv(w) /\ HistoryInv
  BY DEF SoleInv, IInv
<1>6. CASE RefuseMutation(w)
  <2> DEFINE left == IF Op(w) \in {"restore", "supersede"} THEN Compensated(w) ELSE {}
  <2>1. pc[w] = "claimed" /\ pc'[w] = "fail" /\ todo' = [todo EXCEPT ![w] = left]
    BY <1>1, <1>6, GotoAlone DEF RefuseMutation, MutateFails
  <2>2. Key(w) \notin undone
    BY <1>5, <2>1 DEF HistoryInv
  <2>3. ASSUME NEW d \in left PROVE d \in Atoms /\ before[w] # None /\ Undoable(w, d)
    <3>1. before[w] # None /\ d \in Compensated(w) /\ Op(w) # "put"
      BY <2>3 DEF Compensated
    <3>2. Unmoved(w)
      BY <1>5, <2>1, <3>1 DEF TurnInv
    <3> QED
      BY <1>1, <3>1, <3>2, UnmovedIsAsBefore
  <2> HIDE DEF left
  <2>4. todo' \in [Workers -> SUBSET Atoms] /\ todo'[w] = left
    BY <1>5, <2>1, <2>3
  <2>5. TurnInv(w)'
    BY <1>1, <1>3, <1>4, <2>1, <2>2, <2>3, <2>4 DEF TurnInv
  <2> QED
    BY <1>1, <1>2, <2>1, <2>4, <2>5, OthersRest DEF SoleInv
<1>7. CASE RecordReceipt(w)
  <2>1. pc'[w] = "receipt" /\ todo' = todo
    BY <1>1, <1>7, GotoAlone DEF RecordReceipt, Record
  <2>2. TurnInv(w)'
    BY <1>3, <2>1 DEF TurnInv
  <2> QED
    BY <1>1, <1>2, <2>1, <2>2, OthersRest DEF SoleInv
<1>8. CASE LoseReceipt(w)
  <2>1. pc[w] = "mutated" /\ pc'[w] = "compensate" /\ todo' = [todo EXCEPT ![w] = Compensated(w)]
    BY <1>1, <1>8, GotoAlone DEF LoseReceipt, RecordFails
  <2>2. Compensated(w) \subseteq Atoms
    BY <1>3 DEF Compensated
  <2>3. todo' \in [Workers -> SUBSET Atoms] /\ todo'[w] = Compensated(w)
    BY <1>5, <2>1, <2>2
  <2>4. AllBut(w, todo[w])'
    BY <1>1, <1>4, <1>5, <2>1, <2>3 DEF TurnInv, AllBut
  <2>5. TurnInv(w)'
    BY <1>3, <2>1, <2>4 DEF TurnInv
  <2> QED
    BY <1>1, <1>2, <2>1, <2>3, <2>5, OthersRest DEF SoleInv
<1> QED
  BY <1>6, <1>7, <1>8

\* One atom of a compensation is written back.
LEMMA CompensateTurn ==
  ASSUME IInv, IInv', SoleInv, TakeTurns', NEW w \in Workers, NEW d \in Atoms, CompensateAtom(w, d)
  PROVE  SoleInv'
<1>1. /\ pc[w] \in {"compensate", "fail"} /\ d \in todo[w] /\ PutAtom(d, RowBefore(w, d), FALSE)
      /\ todo' = [todo EXCEPT ![w] = @ \ {d}] /\ UNCHANGED <<pc, call, commits, undone, before>>
  BY DEF CompensateAtom, vars
<1>2. TurnInv(w) /\ StoreSound /\ before \in [Workers -> Befores] /\ todo \in [Workers -> SUBSET Atoms]
  BY DEF SoleInv
<1>3. before[w] # None /\ Undoable(w, d) /\ (pc[w] = "fail" => Key(w) \notin undone)
  BY <1>1, <1>2 DEF TurnInv, AllBut
<1>4. before[w] \in [Atoms -> Row \cup {None}] /\ atoms[d] \in Row
  BY <1>2, <1>3 DEF Befores, StoreSound, Undoable, Exists
<1>5. RowBefore(w, d) \in Row
  <2>1. CASE before[w][d] = None
    BY <1>4, <2>1 DEF RowBefore, Row
  <2>2. CASE before[w][d] # None
    BY <1>4, <2>2 DEF RowBefore, Row
  <2> QED
    BY <2>1, <2>2
<1>6. /\ before[w][d] = None => RowBefore(w, d).status = "deleted"
      /\ before[w][d] # None => Alike(RowBefore(w, d), before[w][d])
  <2>1. CASE before[w][d] = None
    BY <1>4, <2>1 DEF RowBefore, Row
  <2>2. CASE before[w][d] # None
    BY <1>3, <1>4, <2>2 DEF RowBefore, Row, Alike, Undoable
  <2> QED
    BY <2>1, <2>2
<1>7. /\ StoreSound' /\ atoms'[d] # None /\ Alike(atoms'[d], RowBefore(w, d))
      /\ \A e \in Atoms \ {d} : atoms'[e] = atoms[e]
  <2>1. ~ Staged(d, FALSE)
    BY DEF Staged
  <2> QED
    BY <1>1, <1>2, <1>5, <2>1, PutInPlace
<1>8. Imported'
  <2>1. \A k \in Keys : atoms'[Request[k].atom] # None => Exists(Request[k].atom)
    BY <1>3, <1>7, RequestFields DEF Undoable, Exists
  <2> QED
    BY <1>1, <2>1 DEF SoleInv, Imported, Exists
<1>9. todo' \in [Workers -> SUBSET Atoms] /\ todo'[w] = todo[w] \ {d}
  BY <1>1, <1>2
<1>10. Op(w)' = Op(w) /\ Key(w)' = Key(w) /\ Intent(w)' = Intent(w) /\ pc[w] # "idle"
  BY <1>1 DEF Op, Key, Intent
<1>11. AsBefore(w, d)'
  BY <1>1, <1>6, <1>7 DEF AsBefore, Alike, Exists
<1>12. \A e \in Atoms \ {d} : (Undoable(w, e)' <=> Undoable(w, e)) /\ (AsBefore(w, e)' <=> AsBefore(w, e))
  BY <1>1, <1>7, <1>10 DEF Undoable, AsBefore, Exists
<1>13. CASE pc[w] = "compensate"
  <2>1. AllBut(w, todo[w])
    BY <1>2, <1>13 DEF TurnInv
  <2>2. AllBut(w, todo[w])'
    BY <1>1, <1>9, <1>11, <1>12, <2>1 DEF AllBut
  <2>3. TurnInv(w)'
    BY <1>1, <1>2, <1>10, <1>13, <2>2 DEF TurnInv
  <2> QED
    BY <1>1, <1>2, <1>7, <1>8, <1>9, <1>10, <2>3, OthersRest
<1>14. CASE pc[w] = "fail"
  <2>1. \A e \in todo[w] : e \in Atoms /\ Undoable(w, e)
    BY <1>2, <1>14 DEF TurnInv
  <2>2. \A e \in todo'[w] : Undoable(w, e)'
    BY <1>9, <1>12, <2>1
  <2>3. TurnInv(w)'
    BY <1>1, <1>2, <1>3, <1>10, <1>14, <2>2 DEF TurnInv
  <2> QED
    BY <1>1, <1>2, <1>7, <1>8, <1>9, <1>10, <2>3, OthersRest
<1> QED
  BY <1>1, <1>13, <1>14

\* The compensation is done or given up, and the caller is told.
LEMMA FailureTurn ==
  ASSUME IInv, IInv', SoleInv, TakeTurns', NEW w \in Workers, EndCompensation(w) \/ FailCall(w)
  PROVE  SoleInv'
<1>1. UNCHANGED <<atoms, ledger, commits, before, call>> /\ pc[w] # "idle" /\ TypeOK
  BY GotoAlone DEF EndCompensation, Compensate, FailCall, Fail, storeVars, IInv
<1>2. StoreSound' /\ Imported'
  BY <1>1, AtomsStay
<1>3. /\ Op(w)' = Op(w) /\ Key(w)' = Key(w) /\ Intent(w)' = Intent(w)
      /\ Intent(w) = Request[Key(w)] /\ Key(w) \in Keys
  BY <1>1, TurnFields DEF Op, Key, Intent
<1>4. \A d \in Atoms : (Undoable(w, d)' <=> Undoable(w, d)) /\ (AsBefore(w, d)' <=> AsBefore(w, d))
  BY <1>1, <1>3 DEF Undoable, AsBefore, Exists
<1>5. todo \in [Workers -> SUBSET Atoms] /\ TurnInv(w) /\ HistoryInv
  BY DEF SoleInv, IInv
<1>6. CASE EndCompensation(w)
  <2>1. /\ pc[w] = "compensate" /\ pc'[w] = "fail" /\ todo' = todo
        /\ undone' = IF todo[w] = {} THEN undone \cup {Key(w)} ELSE undone
    BY <1>1, <1>6, GotoAlone DEF EndCompensation, Compensate
  <2>2. AllBut(w, todo[w]) /\ Key(w) \notin undone
    BY <1>5, <2>1 DEF TurnInv, HistoryInv
  <2>3. Key(w) \in undone' => todo[w] = {}
    BY <2>1, <2>2
  <2>4. todo[w] = {} => AllBut(w, {})'
    BY <1>1, <1>4, <2>2 DEF AllBut
  <2>5. \A d \in todo[w] : before[w] # None /\ Undoable(w, d)'
    BY <1>4, <1>5, <2>2 DEF AllBut
  <2>6. TurnInv(w)'
    BY <1>1, <1>3, <2>1, <2>3, <2>4, <2>5 DEF TurnInv
  <2> QED
    BY <1>1, <1>2, <2>1, <2>6, OthersRest DEF SoleInv
<1>7. CASE FailCall(w)
  <2>1. pc[w] = "fail" /\ pc'[w] = "error" /\ todo' = [todo EXCEPT ![w] = {}] /\ undone' = undone
    BY <1>1, <1>7, GotoAlone DEF FailCall, Fail
  <2>2. Key(w) \in undone => AllBut(w, {})'
    BY <1>1, <1>4, <1>5, <2>1 DEF TurnInv, AllBut
  <2>3. todo' \in [Workers -> SUBSET Atoms]
    BY <1>5, <2>1
  <2>4. TurnInv(w)'
    BY <1>3, <2>1, <2>2 DEF TurnInv
  <2> QED
    BY <1>1, <1>2, <2>1, <2>3, <2>4, OthersRest DEF SoleInv
<1> QED
  BY <1>6, <1>7

\* The call returns or dies, and no other is under way.
LEMMA EndTurn ==
  ASSUME IInv, IInv', SoleInv, TakeTurns, NEW w \in Workers, EndCall(w)
  PROVE  SoleInv'
<1>1. /\ pc[w] # "idle" /\ pc' = [pc EXCEPT ![w] = "idle"] /\ UNCHANGED <<atoms, ledger, commits>>
      /\ before' = [before EXCEPT ![w] = None] /\ todo' = [todo EXCEPT ![w] = {}]
  BY DEF EndCall, Return, Crash, Leave, storeVars, Finished, Holding
<1>2. StoreSound' /\ Imported'
  BY <1>1, AtomsStay
<1>3. before' \in [Workers -> Befores] /\ todo' \in [Workers -> SUBSET Atoms]
  BY <1>1 DEF SoleInv, Befores
<1>4. ASSUME NEW v \in Workers PROVE TurnInv(v)'
  <2>1. pc'[v] = "idle"
    BY <1>1 DEF TakeTurns, IInv, TypeOK
  <2>2. call'[v] = NoRow
    BY <2>1 DEF IInv, TypeOK
  <2> QED
    BY <2>1, <2>2 DEF TurnInv
<1> QED
  BY <1>2, <1>3, <1>4 DEF SoleInv

\* The projector, and a step in which nothing happens: visibilities only.
LEMMA ProjectTurn ==
  ASSUME IInv, IInv', SoleInv, ProjectAll \/ UNCHANGED boundaryVars
  PROVE  SoleInv'
<1>1. UNCHANGED <<pc, call, commits, undone, before, todo>>
  BY DEF ProjectAll, boundaryVars, vars
<1>2. /\ StoreSound' /\ \A d \in Atoms : Exists(d)' <=> Exists(d)
      /\ \A d \in Atoms : Exists(d) => Alike(atoms'[d], atoms[d]) /\ atoms'[d].revision = atoms[d].revision
  <2>1. CASE ProjectAll
    BY <2>1, ProjectInPlace DEF ProjectAll, SoleInv
  <2>2. CASE UNCHANGED boundaryVars
    BY <2>2 DEF boundaryVars, storeVars, SoleInv, StoreSound, Exists, LastRevision, Alike
  <2> QED
    BY <2>1, <2>2
<1>3. Imported'
  BY <1>1, <1>2, RequestFields DEF SoleInv, Imported
<1>4. ASSUME NEW w \in Workers PROVE TurnInv(w)'
  <2>1. TurnInv(w) /\ todo[w] \subseteq Atoms
    BY DEF SoleInv
  <2>2. /\ Op(w)' = Op(w) /\ Key(w)' = Key(w) /\ Intent(w)' = Intent(w)
        /\ Compensated(w)' = Compensated(w)
    BY <1>1 DEF Op, Compensated, Key, Intent, Target, Other
  <2>3. ASSUME NEW d \in Atoms
        PROVE  (Undoable(w, d) => Undoable(w, d)') /\ (AsBefore(w, d) => AsBefore(w, d)')
    BY <1>1, <1>2, <2>2 DEF Undoable, AsBefore, Alike
  <2>4. Unmoved(w) => Unmoved(w)'
    BY <1>1, <1>2 DEF Unmoved, Alike
  <2>5. /\ AllBut(w, Compensated(w)) => AllBut(w, Compensated(w))'
        /\ AllBut(w, todo[w]) => AllBut(w, todo[w])'
        /\ AllBut(w, {}) => AllBut(w, {})'
    BY <1>1, <2>2, <2>3 DEF AllBut
  <2> QED
    BY <1>1, <2>1, <2>2, <2>3, <2>4, <2>5 DEF TurnInv
<1> QED
  BY <1>1, <1>2, <1>3, <1>4 DEF SoleInv

LEMMA InitTurn ==
  ASSUME OnlyImports, BoundaryInit
  PROVE  SoleInv
<1>1. SeedRow \in Row /\ SeedRow.revision = 1 /\ [row |-> SeedRow, delta |-> "put"] \in Revision
  BY SeedAssumption, MaxRevAssumption DEF SeedRow, Row, Visibilities, Shown, Revision
<1> DEFINE first == <<[row |-> SeedRow, delta |-> "put"]>>
<1>2. first \in Seq(Revision) /\ Len(first) = 1
  BY <1>1
<1>3. /\ atoms = [a \in Atoms |-> IF a \in Seeded THEN SeedRow ELSE None]
      /\ ledger = [a \in Atoms |-> IF a \in Seeded THEN first ELSE <<>>]
  BY DEF BoundaryInit
<1> HIDE DEF first
<1>4. StoreSound
  <2>1. <<>> \in Seq(Revision)
    OBVIOUS
  <2>2. ASSUME NEW a \in Atoms, Exists(a) PROVE LastRevision(a) <= atoms[a].revision
    <3>1. atoms[a] = SeedRow /\ ledger[a] = first
      BY <1>3, <2>2 DEF Exists
    <3>2. LastRevision(a) = 1 /\ atoms[a].revision = 1
      <4>1. LastRevision(a) = Len(first)
        BY <3>1 DEF LastRevision
      <4> QED
        BY <1>1, <1>2, <3>1, <4>1
    <3> QED
      BY <3>2
  <2> QED
    BY <1>1, <1>2, <1>3, <2>1, <2>2 DEF StoreSound
<1>5. Imported
  BY <1>3, RequestFields DEF Imported, OnlyImports, Exists
<1>6. /\ before \in [Workers -> Befores] /\ todo \in [Workers -> SUBSET Atoms]
      /\ \A w \in Workers : pc[w] = "idle" /\ call[w] = NoRow
  BY DEF BoundaryInit, Init, Befores
<1>7. \A w \in Workers : TurnInv(w)
  BY <1>6 DEF TurnInv
<1> QED
  BY <1>4, <1>5, <1>6, <1>7 DEF SoleInv

LEMMA NextTurn ==
  ASSUME OnlyImports
  PROVE  IInv /\ IInv' /\ TakeTurns /\ TakeTurns' /\ SoleInv /\ [BoundaryNext]_boundaryVars => SoleInv'
<1> SUFFICES ASSUME IInv, IInv', TakeTurns, TakeTurns', SoleInv, [BoundaryNext]_boundaryVars
             PROVE  SoleInv'
  OBVIOUS
<1>1. ASSUME NEW w \in Workers, NEW k \in Keys, BeginCall(w, k) PROVE SoleInv'
  BY <1>1, BeginTurn
<1>2. ASSUME NEW w \in Workers, ClaimStep(w) PROVE SoleInv'
  BY <1>2, ClaimTurn
<1>3. ASSUME NEW w \in Workers, ReadBefore(w) PROVE SoleInv'
  BY <1>3, ReadTurn
<1>4. ASSUME NEW w \in Workers, CommitMutation(w) PROVE SoleInv'
  BY <1>4, CommitTurn
<1>5. ASSUME NEW w \in Workers, RefuseMutation(w) \/ RecordReceipt(w) \/ LoseReceipt(w) PROVE SoleInv'
  BY <1>5, RefusalTurn
<1>6. ASSUME NEW w \in Workers, NEW d \in Atoms, CompensateAtom(w, d) PROVE SoleInv'
  BY <1>6, CompensateTurn
<1>7. ASSUME NEW w \in Workers, EndCompensation(w) \/ FailCall(w) PROVE SoleInv'
  BY <1>7, FailureTurn
<1>8. ASSUME NEW w \in Workers, EndCall(w) PROVE SoleInv'
  BY <1>8, EndTurn
<1>9. ASSUME ProjectAll \/ UNCHANGED boundaryVars PROVE SoleInv'
  BY <1>9, ProjectTurn
<1> QED
  BY <1>1, <1>2, <1>3, <1>4, <1>5, <1>6, <1>7, <1>8, <1>9 DEF BoundaryNext

LEMMA SoleInvRestores == SoleInv => CompensationRestores
<1> SUFFICES ASSUME SoleInv, NEW w \in Workers, pc[w] = "error", Key(w) \in undone, NEW d \in Atoms
             PROVE  AsBefore(w, d)
  BY DEF CompensationRestores, AsBefore, Alike
<1>1. AllBut(w, {})
  BY DEF SoleInv, TurnInv
<1> QED
  BY <1>1 DEF AllBut

\* _compensate_atom_failure and its kin in restore and supersede: when calls take
\* turns and puts import, whoever is told "error" after a finished compensation finds
\* every atom as it was before, whatever was projected meanwhile and whichever calls
\* died before.  That puts import is needed: a correction of a shown atom is staged.
THEOREM CompensationUndoes ==
  ASSUME OnlyImports
  PROVE  BoundarySpec /\ []TakeTurns => []CompensationRestores
<1>1. BoundarySpec => []IInv
  BY BoundaryIsFenced, Inductive, PTL DEF FencesRequests
<1>2. IInv /\ IInv' /\ TakeTurns /\ TakeTurns' /\ SoleInv /\ [BoundaryNext]_boundaryVars => SoleInv'
  BY NextTurn
<1>3. BoundaryInit => SoleInv
  BY InitTurn
<1> QED
  BY <1>1, <1>2, <1>3, SoleInvRestores, PTL DEF BoundarySpec

-----------------------------------------------------------------------------
(* When calls take turns a supersession appends, too, and receipts of it     *)
(* tell the truth; a repeated one finds its edge, which the ledger tells of. *)

EdgesTold == \A a, b \in Atoms : <<a, b>> \in edges => TellsStatus(ledger[a], "superseded")

LEMMA EdgesStayTold ==
  ASSUME StoreGood, StoreGood', Follows, EdgesTold, UNCHANGED edges
  PROVE  EdgesTold'
<1> SUFFICES ASSUME NEW a \in Atoms, TellsStatus(ledger[a], "superseded") PROVE TellsStatus(ledger'[a], "superseded")
  BY DEF EdgesTold
<1>1. ledger[a] \in Seq(Revision) /\ ledger'[a] \in Seq(Revision) /\ Continues(ledger[a], ledger'[a])
  BY DEF StoreGood, Follows
<1> QED
  BY <1>1, ToldStays

LEMMA UpsertTells ==
  ASSUME StoreGood, StoreSound, NEW a \in Atoms, Exists(a), NEW row \in Row, row.revision = atoms[a].revision + 1
  PROVE  /\ UpsertRevision(a, row) \in Seq(Revision) /\ Len(UpsertRevision(a, row)) <= MaxRev
         /\ Continues(ledger[a], UpsertRevision(a, row))
         /\ TellsStatus(UpsertRevision(a, row), row.status)
         /\ RowAfterSupersede(a, row) \in Row /\ Tells(UpsertRevision(a, row), RowAfterSupersede(a, row))
<1> DEFINE entry == [row |-> row, delta |-> "supersede"]
           longer == UpsertRevision(a, row)
<1>1. /\ atoms[a] \in Row /\ ledger[a] \in Seq(Revision) /\ Tells(ledger[a], atoms[a])
      /\ Len(ledger[a]) \in Nat /\ Len(ledger[a]) <= atoms[a].revision
      /\ atoms[a].revision \in Nat /\ row.revision \in Nat /\ row.revision <= MaxRev
  BY MaxRevAssumption DEF StoreGood, StoreSound, Exists, LastRevision, Row
<1>2. entry \in Revision /\ entry.row = row
  BY DEF Revision
<1>3. longer = Append(ledger[a], entry) /\ RowAfterSupersede(a, row) \in Row
  BY UpsertAppends
<1> HIDE DEF entry, longer
<1>4. Len(ledger[a]) < MaxRev
  BY <1>1, MaxRevAssumption
<1>5. longer \in Seq(Revision) /\ Len(longer) <= MaxRev /\ Continues(ledger[a], longer) /\ Tells(longer, row)
  BY <1>1, <1>2, <1>3, <1>4, AppendTells
<1>6. TellsBody(longer, atoms[a].body)
  <2>1. TellsBody(ledger[a], atoms[a].body)
    BY <1>1 DEF Tells
  <2> QED
    BY <1>1, <1>5, <2>1, ToldStays
<1>7. RowAfterSupersede(a, row).body = atoms[a].body /\ RowAfterSupersede(a, row).status = row.status
  BY <1>1 DEF RowAfterSupersede, Row
<1> QED
  BY <1>3, <1>5, <1>6, <1>7 DEF Tells, longer

LEMMA SupersedeTells ==
  ASSUME StoreGood, StoreSound, EdgesTold, NEW old \in Atoms, NEW new \in Atoms, old # new, Exists(old), Exists(new),
         NEW oldRead \in Row, NEW newRead \in Row, Supersede(old, new, oldRead, newRead),
         oldRead.revision = atoms[old].revision, newRead.revision = atoms[new].revision
  PROVE  StoreGood' /\ Follows /\ EdgesTold' /\ atoms'[old] # None /\ TellsStatus(ledger'[old], "superseded")
<1>1. CASE <<old, new>> \in edges
  <2>1. UNCHANGED <<atoms, ledger, edges>>
    BY <1>1 DEF Supersede, memoryVars
  <2> QED
    BY <1>1, <2>1, StoreStays, EdgesStayTold DEF EdgesTold, Exists
<1>2. CASE <<old, new>> \notin edges
  <2> DEFINE oldRow == [oldRead EXCEPT !.status = "superseded", !.revision = @ + 1]
             newRow == [newRead EXCEPT !.supersedes = @ \cup {old}, !.revision = @ + 1]
  <2>1. /\ oldRow.revision <= MaxRev /\ newRow.revision <= MaxRev
        /\ atoms' = [atoms EXCEPT ![old] = RowAfterSupersede(old, oldRow), ![new] = RowAfterSupersede(new, newRow)]
        /\ ledger' = [ledger EXCEPT ![old] = UpsertRevision(old, oldRow), ![new] = UpsertRevision(new, newRow)]
        /\ edges' = edges \cup {<<old, new>>}
    BY <1>2 DEF Supersede
  <2>2. oldRow \in Row /\ oldRow.revision = atoms[old].revision + 1 /\ oldRow.status = "superseded"
    <3>1. oldRead.revision + 1 \in 1..MaxRev
      BY <2>1, MaxRevAssumption DEF Row
    <3> QED
      BY <3>1 DEF Row
  <2>3. newRow \in Row /\ newRow.revision = atoms[new].revision + 1
    <3>1. newRead.revision + 1 \in 1..MaxRev
      BY <2>1, MaxRevAssumption DEF Row
    <3> QED
      BY <3>1 DEF Row
  <2> HIDE DEF oldRow, newRow
  <2>4. /\ UpsertRevision(old, oldRow) \in Seq(Revision) /\ Len(UpsertRevision(old, oldRow)) <= MaxRev
        /\ Continues(ledger[old], UpsertRevision(old, oldRow))
        /\ TellsStatus(UpsertRevision(old, oldRow), "superseded")
        /\ RowAfterSupersede(old, oldRow) \in Row
        /\ Tells(UpsertRevision(old, oldRow), RowAfterSupersede(old, oldRow))
    BY <2>2, UpsertTells
  <2>5. /\ UpsertRevision(new, newRow) \in Seq(Revision) /\ Len(UpsertRevision(new, newRow)) <= MaxRev
        /\ Continues(ledger[new], UpsertRevision(new, newRow))
        /\ RowAfterSupersede(new, newRow) \in Row
        /\ Tells(UpsertRevision(new, newRow), RowAfterSupersede(new, newRow))
    BY <2>3, UpsertTells
  <2>6. /\ atoms'[new] = RowAfterSupersede(new, newRow) /\ ledger'[new] = UpsertRevision(new, newRow)
        /\ atoms'[old] = RowAfterSupersede(old, oldRow) /\ ledger'[old] = UpsertRevision(old, oldRow)
        /\ \A d \in Atoms \ {old, new} : atoms'[d] = atoms[d] /\ ledger'[d] = ledger[d]
    BY <2>1 DEF StoreGood
  <2>7. atoms' \in [Atoms -> Row \cup {None}] /\ ledger' \in [Atoms -> Seq(Revision)]
    BY <2>1, <2>4, <2>5 DEF StoreGood
  <2>8. \A d \in Atoms : Continues(ledger[d], ledger[d])
    BY DEF StoreGood, Continues
  <2>9. ASSUME NEW d \in Atoms
        PROVE  /\ Len(ledger'[d]) <= MaxRev /\ Continues(ledger[d], ledger'[d])
               /\ Exists(d) => atoms'[d] # None
               /\ atoms'[d] # None => Tells(ledger'[d], atoms'[d])
    <3>1. CASE d \in {old, new}
      BY <2>4, <2>5, <2>6, <3>1, NoneAssumption
    <3>2. CASE d \notin {old, new}
      BY <2>6, <2>8, <3>2 DEF StoreGood, Exists
    <3> QED
      BY <3>1, <3>2
  <2>10. StoreGood' /\ Follows
    BY <2>7, <2>9 DEF StoreGood, Follows, Exists
  <2>11. ASSUME NEW a \in Atoms, NEW b \in Atoms, <<a, b>> \in edges' PROVE TellsStatus(ledger'[a], "superseded")
    <3>1. CASE a = old
      BY <2>4, <2>6, <3>1
    <3>2. CASE a # old
      <4>1. TellsStatus(ledger[a], "superseded")
        BY <2>1, <2>11, <3>2 DEF EdgesTold
      <4>2. ledger[a] \in Seq(Revision) /\ ledger'[a] \in Seq(Revision) /\ Continues(ledger[a], ledger'[a])
        BY <2>7, <2>9 DEF StoreGood
      <4> QED
        BY <4>1, <4>2, ToldStays
    <3> QED
      BY <3>1, <3>2
  <2> QED
    BY <2>4, <2>6, <2>9, <2>10, <2>11 DEF EdgesTold, Exists
<1> QED
  BY <1>1, <1>2

\* No atom is asked to supersede itself.
NoSelfSupersession == \A k \in Keys : Request[k].op = "supersede" => Request[k].atom # Request[k].other

LEMMA MutationTellsInTurn ==
  ASSUME TypeOK, BoundaryInv, SoleInv, EdgesTold, NoSelfSupersession,
         NEW w \in Workers, CommitMutation(w)
  PROVE  MutationTold(w) /\ EdgesTold'
<1>1. pc[w] = "claimed" /\ before[w] # None /\ Mutation(w)
  BY DEF CommitMutation, Mutate
<1>2. /\ Target(w) \in Atoms /\ Other(w) \in Atoms /\ Key(w) \in Keys /\ Op(w) = Request[Key(w)].op
      /\ Target(w) = Request[Key(w)].atom /\ Intent(w) = Request[Key(w)]
  BY <1>1, CallFields
<1>3. CASE Op(w) # "supersede"
  <2>1. MutationTold(w)
    BY <1>1, <1>3, MutationTells
  <2>2. edges' = edges
    BY <1>1, <1>3 DEF Mutation, PutAtom, Restore, memoryVars
  <2> QED
    BY <2>1, <2>2, EdgesStayTold DEF MutationTold, BoundaryInv
<1>4. CASE Op(w) = "supersede"
  <2>1. PICK rows \in {before[w], atoms} :
          /\ before[w][Target(w)] # None /\ before[w][Other(w)] # None
          /\ Supersede(Target(w), Other(w), rows[Target(w)], rows[Other(w)])
    BY <1>1, <1>4 DEF Mutation
  <2>2. Unmoved(w) /\ StoreSound /\ before[w] \in [Atoms -> Row \cup {None}] /\ StoreGood
    BY <1>1 DEF SoleInv, TurnInv, Befores, BoundaryInv
  <2>3. /\ Exists(Target(w)) /\ Exists(Other(w)) /\ Target(w) # Other(w)
        /\ rows[Target(w)] \in Row /\ rows[Target(w)].revision = atoms[Target(w)].revision
        /\ rows[Other(w)] \in Row /\ rows[Other(w)].revision = atoms[Other(w)].revision
    BY <1>2, <1>4, <2>1, <2>2 DEF Unmoved, StoreSound, Exists, NoSelfSupersession, Other
  <2>4. /\ StoreGood' /\ Follows /\ EdgesTold' /\ atoms'[Target(w)] # None
        /\ TellsStatus(ledger'[Target(w)], "superseded")
    BY <1>2, <2>1, <2>2, <2>3, SupersedeTells
  <2> QED
    BY <1>2, <1>4, <2>4 DEF MutationTold, Told
<1> QED
  BY <1>3, <1>4

LEMMA NextTells ==
  ASSUME TypeOK, BoundaryInv, SoleInv, EdgesTold, NoSelfSupersession, [BoundaryNext]_boundaryVars
  PROVE  BoundaryInv' /\ EdgesTold'
<1>1. BoundaryInv'
  BY MutationTellsInTurn, NextKeeps
<1>2. ASSUME NEW w \in Workers, CommitMutation(w) PROVE EdgesTold'
  BY <1>2, MutationTellsInTurn
<1>3. ASSUME NEW w \in Workers, NEW d \in Atoms, CompensateAtom(w, d) PROVE EdgesTold'
  <2>1. /\ pc[w] \in {"compensate", "fail"} /\ d \in todo[w] /\ PutAtom(d, RowBefore(w, d), FALSE)
    BY <1>3 DEF CompensateAtom
  <2>2. before[w] # None /\ Exists(d)
    BY <2>1 DEF BoundaryInv, CallerInv
  <2>3. RowBefore(w, d) \in Row
    BY <2>1, <2>2, ItemsAreRows
  <2>4. StoreGood' /\ Follows
    BY <2>1, <2>3, PutTells DEF BoundaryInv
  <2>5. edges' = edges
    BY <2>1 DEF PutAtom, memoryVars
  <2> QED
    BY <2>4, <2>5, EdgesStayTold DEF BoundaryInv
<1>4. ASSUME ledger' = ledger, edges' = edges PROVE EdgesTold'
  BY <1>4 DEF EdgesTold
<1>5. ASSUME NEW w \in Workers,
             \/ \E k \in Keys : BeginCall(w, k)
             \/ ClaimStep(w) \/ ReadBefore(w) \/ RefuseMutation(w) \/ RecordReceipt(w) \/ LoseReceipt(w)
             \/ EndCompensation(w) \/ FailCall(w) \/ EndCall(w)
      PROVE  EdgesTold'
  BY <1>4, <1>5 DEF BeginCall, ClaimStep, ReadBefore, RefuseMutation, RecordReceipt, LoseReceipt,
     EndCompensation, FailCall, EndCall, storeVars
<1>6. ASSUME ProjectAll \/ UNCHANGED boundaryVars PROVE EdgesTold'
  BY <1>4, <1>6 DEF ProjectAll, MarkBatch, boundaryVars, storeVars
<1> QED
  BY <1>1, <1>2, <1>3, <1>5, <1>6 DEF BoundaryNext

\* With supersessions, when calls take turns: a receipt's tombstone, restoration,
\* import or supersession is in the revision history (boundary.py supersede reads its
\* atoms outside of the transaction that writes them).
THEOREM ReceiptsInTurnTellTheHistory ==
  ASSUME OnlyImports, NoSelfSupersession
  PROVE  BoundarySpec /\ []TakeTurns => []ReceiptsAreRecorded
<1>1. BoundarySpec => []IInv
  BY BoundaryIsFenced, Inductive, PTL DEF FencesRequests
<1>2. /\ IInv /\ IInv' /\ TakeTurns /\ TakeTurns' /\ SoleInv /\ BoundaryInv /\ EdgesTold
      /\ [BoundaryNext]_boundaryVars
      => SoleInv' /\ BoundaryInv' /\ EdgesTold'
  BY NextTurn, NextTells DEF IInv
<1>3. BoundaryInit => SoleInv /\ BoundaryInv /\ EdgesTold
  BY InitTurn, InitKeeps DEF BoundaryInit, EdgesTold
<1> QED
  BY <1>1, <1>2, <1>3, ToldIsRecorded, PTL DEF BoundarySpec
=============================================================================
