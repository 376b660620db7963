---------------------- MODULE MemoryPublication_proofs ----------------------
(***************************************************************************)
(* Proofs about MemoryPublication, for every set of atoms, bodies, clients *)
(* and projectors.  The inductive invariant says of the store that the     *)
(* ledger of an atom numbers its revisions from 1 on and that its row is   *)
(* one of them (StoreInv); of a client that what it is about to write was  *)
(* such a row, and that it shows nothing that has no receipt (ClientInv);  *)
(* of a projector that between its two commits the evidence is durable.    *)
(* The row of an atom that no supersession has written is the revision of  *)
(* the ledger that it names, and the newest unless evidence is outstanding *)
(* (Aligned); and where content changes by imports and merges alone, the   *)
(* evidence of each body in the ledger is durable or queued, and of a      *)
(* shown one durable (BodyInv).                                            *)
(***************************************************************************)
EXTENDS MemoryPublication, TLAPS

GoodLedger(s) == Len(s) <= MaxRev /\ \A n \in 1..Len(s) : s[n].row.revision = n

StoreInv ==
    /\ atoms \in [Atoms -> Row \cup {None}]
    /\ ledger \in [Atoms -> Seq(Revision)]
    /\ \A a \in Atoms : GoodLedger(ledger[a])
    /\ \A a \in Atoms : Exists(a) => atoms[a].revision <= LastRevision(a)
    /\ edges \subseteq Atoms \X Atoms
    /\ outstanding \subseteq Event /\ receipts \subseteq Event /\ evidence \subseteq Event

HasReceipt(a) == \E e \in receipts : e.atom = a

\* What the actions of HistoryIsAppendOnly and RevisionsAdvance say of a step.
Appends ==
    \A a \in Atoms : \A n \in 1..LastRevision(a) :
        n <= Len(ledger'[a]) /\ ledger'[a][n] = ledger[a][n]
Advances == \A a \in Atoms : Exists(a) => atoms'[a].revision >= atoms[a].revision

\* No step shortens a ledger, deletes a row or takes a receipt back.
Grows ==
    /\ \A a \in Atoms : LastRevision(a) <= Len(ledger'[a])
    /\ \A a \in Atoms : Exists(a) => atoms'[a] # None
    /\ receipts \subseteq receipts'

-----------------------------------------------------------------------------
(* put_atom.                                                               *)

LEMMA Lengths ==
  ASSUME StoreInv, NEW a \in Atoms
  PROVE  LastRevision(a) \in Nat /\ LastRevision(a) <= MaxRev /\ ledger[a] \in Seq(Revision)
  BY DEF StoreInv, GoodLedger, LastRevision

LEMMA GoodAppend ==
  ASSUME NEW s \in Seq(Revision), NEW e \in Revision, GoodLedger(s),
         e.row.revision = Len(s) + 1, Len(s) < MaxRev
  PROVE  /\ Append(s, e) \in Seq(Revision) /\ GoodLedger(Append(s, e))
         /\ Len(Append(s, e)) = Len(s) + 1
         /\ \A n \in 1..Len(s) : Append(s, e)[n] = s[n]
  BY MaxRevAssumption DEF GoodLedger

LEMMA ShownVisible == Shown \subseteq Visibilities /\ "building" \in Visibilities /\ "building" \notin Shown
  BY DEF Shown, Visibilities

LEMMA StoredRow ==
  ASSUME StoreInv, NEW a \in Atoms, NEW item \in Row, NEW evidenced \in BOOLEAN,
         LastRevision(a) < MaxRev
  PROVE  /\ Stored(a, item, evidenced) \in Row
         /\ Stored(a, item, evidenced).revision = LastRevision(a) + 1
         /\ Publication(a, item, evidenced) \in Shown \cup {""}
<1>1. LastRevision(a) + 1 \in 1..MaxRev
  BY Lengths, MaxRevAssumption
<1>2. Publication(a, item, evidenced) \in Shown \cup {""}
  BY DEF Publication, Staged, IsShown
<1> QED
  BY <1>1, <1>2, ShownVisible DEF Stored, Row

LEMMA PutKeepsStore ==
  ASSUME StoreInv, NEW a \in Atoms, NEW item \in Row, NEW evidenced \in BOOLEAN,
         PutAtom(a, item, evidenced), UNCHANGED evidence
  PROVE  StoreInv'
<1>1. CASE SamePayload(a, item, evidenced)
  BY <1>1 DEF PutAtom, memoryVars, StoreInv, Exists, LastRevision, GoodLedger
<1>2. CASE ~ SamePayload(a, item, evidenced)
  <2> DEFINE stored == Stored(a, item, evidenced)
             staged == Staged(a, evidenced)
             entry == [row |-> stored, delta |-> IF staged THEN "staged" ELSE "put"]
  <2>1. /\ LastRevision(a) < MaxRev
        /\ atoms' = IF staged THEN atoms ELSE [atoms EXCEPT ![a] = stored]
        /\ ledger' = [ledger EXCEPT ![a] = Append(@, entry)]
        /\ outstanding' = outstanding \cup (IF evidenced THEN {LinkEvent(a, item, evidenced)} ELSE {})
        /\ UNCHANGED <<edges, receipts>>
    BY <1>2 DEF PutAtom
  <2>2. stored \in Row /\ stored.revision = LastRevision(a) + 1
    BY <2>1, StoredRow
  <2>3. entry \in Revision /\ entry.row.revision = LastRevision(a) + 1
    BY <2>2 DEF Revision
  <2> HIDE DEF stored, entry
  <2>4. /\ Append(ledger[a], entry) \in Seq(Revision) /\ GoodLedger(Append(ledger[a], entry))
        /\ Len(Append(ledger[a], entry)) = Len(ledger[a]) + 1
    BY <2>1, <2>3, GoodAppend, Lengths DEF StoreInv, LastRevision
  <2>5. ledger' \in [Atoms -> Seq(Revision)] /\ \A d \in Atoms : GoodLedger(ledger'[d])
    BY <2>1, <2>4 DEF StoreInv
  <2>6. atoms' \in [Atoms -> Row \cup {None}]
    BY <2>1, <2>2 DEF StoreInv
  <2>7. \A d \in Atoms : atoms'[d] # None => atoms'[d].revision <= Len(ledger'[d])
    <3> TAKE d \in Atoms
    <3>1. CASE d = a
      <4>1. ledger'[d] = Append(ledger[a], entry)
        BY <2>1, <3>1 DEF StoreInv
      <4>2. Len(ledger'[d]) = Len(ledger[a]) + 1 /\ Len(ledger[a]) \in Nat
        BY <4>1, <2>4, Lengths DEF LastRevision
      <4>3. CASE staged
        BY <2>1, <3>1, <4>2, <4>3 DEF StoreInv, Exists, LastRevision, Row
      <4>4. CASE ~ staged
        BY <2>1, <2>2, <3>1, <4>2, <4>4 DEF StoreInv, LastRevision
      <4> QED
        BY <4>3, <4>4
    <3>2. CASE d # a
      BY <2>1, <3>2 DEF StoreInv, Exists, LastRevision
    <3> QED
      BY <3>1, <3>2
  <2>8. outstanding' \subseteq Event
    <3>1. LinkEvent(a, item, evidenced) \in Event
      BY <2>1, StoredRow, Lengths, MaxRevAssumption DEF LinkEvent, Event, Row
    <3> QED
      BY <2>1, <3>1 DEF StoreInv
  <2> QED
    BY <2>1, <2>5, <2>6, <2>7, <2>8 DEF StoreInv, Exists, LastRevision, GoodLedger
<1> QED
  BY <1>1, <1>2

\* A written item is shown only if it was shown before or nothing is left to prove.
LEMMA PutKeepsShown ==
  ASSUME StoreInv, ShownHasReceipt, NEW a \in Atoms, NEW item \in Row, NEW evidenced \in BOOLEAN,
         PutAtom(a, item, evidenced),
         item.visibility \in Shown /\ (~ evidenced \/ item.status # "active") => HasReceipt(a)
  PROVE  ShownHasReceipt'
<1>1. CASE SamePayload(a, item, evidenced)
  BY <1>1 DEF PutAtom, memoryVars, ShownHasReceipt, IsShown, Exists
<1>2. CASE ~ SamePayload(a, item, evidenced)
  <2>1. /\ LastRevision(a) < MaxRev
        /\ atoms' = IF Staged(a, evidenced) THEN atoms
                     ELSE [atoms EXCEPT ![a] = Stored(a, item, evidenced)]
        /\ UNCHANGED receipts
    BY <1>2 DEF PutAtom
  <2>2. CASE Staged(a, evidenced)
    BY <2>1, <2>2 DEF ShownHasReceipt, IsShown, Exists
  <2>3. CASE ~ Staged(a, evidenced)
    <3>1. ASSUME Stored(a, item, evidenced).visibility \in Shown PROVE HasReceipt(a)
      <4>1. Publication(a, item, evidenced) = ""
        BY <2>3, <3>1, ShownVisible DEF Stored, Row
      <4>2. Stored(a, item, evidenced).visibility = item.visibility
        BY <4>1 DEF Stored, Row
      <4>3. ~ (evidenced /\ item.visibility \in Shown /\ item.status = "active")
        BY <2>3, <4>1 DEF Publication, Shown
      <4> QED
        BY <3>1, <4>2, <4>3
    <3> QED
      BY <2>1, <2>3, <3>1 DEF StoreInv, ShownHasReceipt, IsShown, Exists, HasReceipt
  <2> QED
    BY <2>2, <2>3
<1> QED
  BY <1>1, <1>2

LEMMA PutAppends ==
  ASSUME StoreInv, NEW a \in Atoms, NEW item \in Row, NEW evidenced \in BOOLEAN,
         PutAtom(a, item, evidenced)
  PROVE  Appends /\ Advances /\ Grows
<1> USE Lengths
<1>1. CASE SamePayload(a, item, evidenced)
  BY <1>1 DEF PutAtom, memoryVars, StoreInv, Appends, Advances, Grows, Exists, LastRevision, Row
<1>2. CASE ~ SamePayload(a, item, evidenced)
  <2>1. PICK e : ledger' = [ledger EXCEPT ![a] = Append(@, e)]
    BY <1>2 DEF PutAtom
  <2>2. /\ LastRevision(a) < MaxRev
        /\ atoms' = IF Staged(a, evidenced) THEN atoms
                     ELSE [atoms EXCEPT ![a] = Stored(a, item, evidenced)]
        /\ UNCHANGED receipts
    BY <1>2 DEF PutAtom
  <2>3. Stored(a, item, evidenced).revision = LastRevision(a) + 1
    BY <2>2, StoredRow
  <2>4. Stored(a, item, evidenced) # None
    BY <2>2, StoredRow, NoneAssumption
  <2>5. Appends /\ Grows
    BY <2>1, <2>2, <2>4 DEF StoreInv, Appends, Grows, LastRevision, Exists
  <2>6. Advances
    BY <2>2, <2>3 DEF StoreInv, Advances, Exists, Row
  <2> QED
    BY <2>5, <2>6
<1> QED
  BY <1>1, <1>2

-----------------------------------------------------------------------------
(* supersede.                                                              *)

LEMMA RowFields ==
  ASSUME NEW row \in Row
  PROVE  /\ row.revision \in 1..MaxRev /\ row.body \in Bodies
         /\ row.visibility \in Visibilities /\ row.supersedes \subseteq Atoms
  BY DEF Row

LEMMA SupersededRow ==
  ASSUME NEW row \in Row, row.revision + 1 <= MaxRev
  PROVE  [row EXCEPT !.status = "superseded", !.revision = @ + 1] \in Row
<1>1. row.revision + 1 \in 1..MaxRev
  BY RowFields, MaxRevAssumption
<1> QED
  BY <1>1 DEF Row

LEMMA SupersedingRow ==
  ASSUME NEW row \in Row, NEW old \in Atoms, row.revision + 1 <= MaxRev
  PROVE  [row EXCEPT !.supersedes = @ \cup {old}, !.revision = @ + 1] \in Row
<1>1. row.revision + 1 \in 1..MaxRev /\ row.supersedes \cup {old} \subseteq Atoms
  BY RowFields, MaxRevAssumption
<1> QED
  BY <1>1 DEF Row

\* The rows a client read before it supersedes, old and new.
ReadRow(a, row) ==
    /\ Exists(a)
    /\ row \in Row /\ row.revision <= LastRevision(a)
    /\ row.visibility \in Shown => HasReceipt(a)

LEMMA UpsertKeepsLedger ==
  ASSUME StoreInv, NEW a \in Atoms, NEW row \in Row, row.revision <= LastRevision(a) + 1
  PROVE  /\ UpsertRevision(a, row) \in Seq(Revision) /\ GoodLedger(UpsertRevision(a, row))
         /\ LastRevision(a) <= Len(UpsertRevision(a, row))
         /\ row.revision <= Len(UpsertRevision(a, row))
<1> DEFINE entry == [row |-> row, delta |-> "supersede"]
<1>1. entry \in Revision /\ entry.row.revision = row.revision /\ row.revision \in 1..MaxRev
  BY DEF Revision, Row
<1>2. ledger[a] \in Seq(Revision) /\ GoodLedger(ledger[a]) /\ Len(ledger[a]) \in Nat
  BY Lengths DEF StoreInv, LastRevision
<1>3. UpsertRevision(a, row) = IF row.revision <= Len(ledger[a])
                               THEN [ledger[a] EXCEPT ![row.revision] = entry]
                               ELSE Append(ledger[a], entry)
  BY DEF UpsertRevision, LastRevision
<1> HIDE DEF entry
<1>4. CASE row.revision <= Len(ledger[a])
  BY <1>1, <1>2, <1>3, <1>4 DEF GoodLedger, LastRevision
<1>5. CASE ~ (row.revision <= Len(ledger[a]))
  <2>1. row.revision = Len(ledger[a]) + 1 /\ Len(ledger[a]) < MaxRev
    BY <1>1, <1>2, <1>5, MaxRevAssumption DEF LastRevision
  <2> QED
    BY <1>1, <1>2, <1>3, <1>5, <2>1, GoodAppend DEF LastRevision
<1> QED
  BY <1>4, <1>5

LEMMA SupersedeKeepsStore ==
  ASSUME StoreInv, ShownHasReceipt, NEW old \in Atoms, NEW new \in Atoms, old # new,
         NEW oldRead, NEW newRead, ReadRow(old, oldRead), ReadRow(new, newRead),
         Supersede(old, new, oldRead, newRead), UNCHANGED evidence
  PROVE  StoreInv' /\ ShownHasReceipt' /\ Grows
<1>1. CASE <<old, new>> \in edges
  BY <1>1, Lengths DEF Supersede, memoryVars, StoreInv, ShownHasReceipt, IsShown, Exists,
     LastRevision, GoodLedger, Grows
<1>2. CASE <<old, new>> \notin edges
  <2> DEFINE oldRow == [oldRead EXCEPT !.status = "superseded", !.revision = @ + 1]
             newRow == [newRead EXCEPT !.supersedes = @ \cup {old}, !.revision = @ + 1]
  <2>1. /\ oldRow.revision <= MaxRev /\ newRow.revision <= MaxRev
        /\ atoms' = [atoms EXCEPT ![old] = RowAfterSupersede(old, oldRow),
                                  ![new] = RowAfterSupersede(new, newRow)]
        /\ ledger' = [ledger EXCEPT ![old] = UpsertRevision(old, oldRow),
                                    ![new] = UpsertRevision(new, newRow)]
        /\ edges' = edges \cup {<<old, new>>}
        /\ outstanding' = outstanding \cup {LocalEvent(oldRow, old), LocalEvent(newRow, new)}
        /\ UNCHANGED receipts
    BY <1>2 DEF Supersede
  <2>2. /\ oldRow \in Row /\ oldRow.revision <= LastRevision(old) + 1
        /\ oldRow.visibility = oldRead.visibility
    <3>1. oldRead \in Row /\ oldRead.revision <= LastRevision(old) /\ LastRevision(old) \in Nat
      BY Lengths DEF ReadRow
    <3>2. oldRow.revision = oldRead.revision + 1 /\ oldRow.visibility = oldRead.visibility
      BY <3>1 DEF Row
    <3>3. oldRead.revision + 1 <= MaxRev
      BY <2>1, <3>2
    <3>4. oldRow \in Row
      BY <3>1, <3>3, SupersededRow
    <3>5. oldRow.revision <= LastRevision(old) + 1
      BY <3>1, <3>2, RowFields, MaxRevAssumption
    <3> QED
      BY <3>2, <3>4, <3>5
  <2>3. /\ newRow \in Row /\ newRow.revision <= LastRevision(new) + 1
        /\ newRow.visibility = newRead.visibility
    <3>1. newRead \in Row /\ newRead.revision <= LastRevision(new) /\ LastRevision(new) \in Nat
      BY Lengths DEF ReadRow
    <3>2. newRow.revision = newRead.revision + 1 /\ newRow.visibility = newRead.visibility
      BY <3>1 DEF Row
    <3>3. newRead.revision + 1 <= MaxRev
      BY <2>1, <3>2
    <3>4. newRow \in Row
      BY <3>1, <3>3, SupersedingRow
    <3>5. newRow.revision <= LastRevision(new) + 1
      BY <3>1, <3>2, RowFields, MaxRevAssumption
    <3> QED
      BY <3>2, <3>4, <3>5
  <2> HIDE DEF oldRow, newRow
  <2>4. atoms[old] \in Row /\ atoms[new] \in Row
    BY DEF StoreInv, Exists, ReadRow
  <2>5. /\ RowAfterSupersede(old, oldRow) \in Row
        /\ RowAfterSupersede(old, oldRow).revision = oldRow.revision
        /\ RowAfterSupersede(old, oldRow).visibility = oldRow.visibility
    BY <2>2, <2>4 DEF RowAfterSupersede, Row
  <2>6. /\ RowAfterSupersede(new, newRow) \in Row
        /\ RowAfterSupersede(new, newRow).revision = newRow.revision
        /\ RowAfterSupersede(new, newRow).visibility = newRow.visibility
    BY <2>3, <2>4 DEF RowAfterSupersede, Row
  <2>7. /\ UpsertRevision(old, oldRow) \in Seq(Revision) /\ GoodLedger(UpsertRevision(old, oldRow))
        /\ LastRevision(old) <= Len(UpsertRevision(old, oldRow))
        /\ oldRow.revision <= Len(UpsertRevision(old, oldRow))
    BY <2>2, UpsertKeepsLedger
  <2>8. /\ UpsertRevision(new, newRow) \in Seq(Revision) /\ GoodLedger(UpsertRevision(new, newRow))
        /\ LastRevision(new) <= Len(UpsertRevision(new, newRow))
        /\ newRow.revision <= Len(UpsertRevision(new, newRow))
    BY <2>3, UpsertKeepsLedger
  <2>9. atoms' \in [Atoms -> Row \cup {None}] /\ ledger' \in [Atoms -> Seq(Revision)]
    BY <2>1, <2>5, <2>6, <2>7, <2>8 DEF StoreInv
  <2>10. \A a \in Atoms : GoodLedger(ledger'[a]) /\ LastRevision(a) <= Len(ledger'[a])
    BY <2>1, <2>7, <2>8, Lengths DEF StoreInv, LastRevision
  <2>11. \A a \in Atoms : atoms'[a] # None => atoms'[a].revision <= Len(ledger'[a])
    <3> TAKE a \in Atoms
    <3>1. CASE a = old
      <4>1. atoms'[a] = RowAfterSupersede(old, oldRow) /\ ledger'[a] = UpsertRevision(old, oldRow)
        BY <2>1, <3>1 DEF StoreInv
      <4> QED
        BY <2>5, <2>7, <4>1
    <3>2. CASE a = new
      <4>1. atoms'[a] = RowAfterSupersede(new, newRow) /\ ledger'[a] = UpsertRevision(new, newRow)
        BY <2>1, <3>2 DEF StoreInv
      <4> QED
        BY <2>6, <2>8, <4>1
    <3>3. CASE a # old /\ a # new
      BY <2>1, <3>3 DEF StoreInv, Exists, LastRevision
    <3> QED
      BY <3>1, <3>2, <3>3
  <2>12. edges' \subseteq Atoms \X Atoms /\ outstanding' \subseteq Event
    <3>1. LocalEvent(oldRow, old) \in Event /\ LocalEvent(newRow, new) \in Event
      BY <2>2, <2>3, RowFields DEF LocalEvent, Event
    <3> QED
      BY <2>1, <3>1 DEF StoreInv
  <2>13. ShownHasReceipt'
    <3>1. ASSUME NEW a \in Atoms, atoms'[a].visibility \in Shown, atoms'[a] # None
          PROVE  HasReceipt(a)
      <4>1. CASE a = old
        BY <2>1, <2>2, <2>5, <3>1, <4>1 DEF StoreInv, ReadRow
      <4>2. CASE a = new
        BY <2>1, <2>3, <2>6, <3>1, <4>2 DEF StoreInv, ReadRow
      <4>3. CASE a # old /\ a # new
        BY <2>1, <3>1, <4>3 DEF StoreInv, ShownHasReceipt, IsShown, Exists, HasReceipt
      <4> QED
        BY <4>1, <4>2, <4>3
    <3> QED
      BY <2>1, <3>1 DEF ShownHasReceipt, IsShown, Exists, HasReceipt
  <2>14. \A a \in Atoms : Exists(a) => atoms'[a] # None
    BY <2>1, <2>5, <2>6, NoneAssumption DEF StoreInv, Exists
  <2> QED
    BY <2>1, <2>9, <2>10, <2>11, <2>12, <2>13, <2>14 DEF StoreInv, Exists, LastRevision, GoodLedger, Grows
<1> QED
  BY <1>1, <1>2

-----------------------------------------------------------------------------
(* restore.                                                                *)

LEMMA RestoredRows ==
  ASSUME StoreInv, NEW a \in Atoms, NEW d \in Atoms, Exists(d), LastRevision(d) < MaxRev
  PROVE  /\ RestoredRow(a, d) \in Row
         /\ RestoredRow(a, d).revision = LastRevision(d) + 1
         /\ RestoredRow(a, d).visibility = atoms[d].visibility
<1>1. LastRevision(d) + 1 \in 1..MaxRev
  BY Lengths, MaxRevAssumption
<1>2. atoms[d] \in Row
  BY DEF StoreInv, Exists
<1> QED
  BY <1>1, <1>2 DEF RestoredRow, Row

LEMMA RestoreKeepsStore ==
  ASSUME StoreInv, ShownHasReceipt, NEW a \in Atoms, Exists(a), Restore(a), UNCHANGED evidence
  PROVE  StoreInv' /\ ShownHasReceipt' /\ Appends /\ Advances /\ Grows
<1> DEFINE shadowed == {d \in Descendants(a) : atoms[d].status = "active"}
           restored == {d \in {a} : atoms[a].status # "active" \/ ~ atoms[a].locked}
           changed == shadowed \cup restored
           entry(d) == [row |-> RestoredRow(a, d), delta |-> "put"]
<1>1. /\ \A d \in changed : LastRevision(d) < MaxRev
      /\ atoms' = [d \in Atoms |-> IF d \in changed THEN RestoredRow(a, d) ELSE atoms[d]]
      /\ ledger' = [d \in Atoms |-> IF d \in changed THEN Append(ledger[d], entry(d)) ELSE ledger[d]]
      /\ outstanding' = outstanding \cup {LocalEvent(RestoredRow(a, d), d) : d \in changed}
      /\ UNCHANGED <<edges, receipts>>
  BY DEF Restore
<1>2. \A d \in changed : d \in Atoms /\ Exists(d)
  BY DEF Descendants
<1> HIDE DEF changed
<1>3. \A d \in changed :
        /\ RestoredRow(a, d) \in Row /\ RestoredRow(a, d).revision = LastRevision(d) + 1
        /\ RestoredRow(a, d).visibility = atoms[d].visibility
  BY <1>1, <1>2, RestoredRows
<1>4. ASSUME NEW d \in changed
      PROVE  /\ Append(ledger[d], entry(d)) \in Seq(Revision)
             /\ GoodLedger(Append(ledger[d], entry(d)))
             /\ Len(Append(ledger[d], entry(d))) = Len(ledger[d]) + 1
             /\ \A n \in 1..Len(ledger[d]) : Append(ledger[d], entry(d))[n] = ledger[d][n]
  <2>1. entry(d) \in Revision /\ entry(d).row.revision = Len(ledger[d]) + 1
    BY <1>3 DEF Revision, LastRevision
  <2>2. ledger[d] \in Seq(Revision) /\ GoodLedger(ledger[d]) /\ Len(ledger[d]) < MaxRev
    BY <1>1, <1>2 DEF StoreInv, LastRevision
  <2> HIDE DEF entry
  <2> QED
    BY <2>1, <2>2, GoodAppend
<1> HIDE DEF entry
<1>5. atoms' \in [Atoms -> Row \cup {None}] /\ ledger' \in [Atoms -> Seq(Revision)]
  BY <1>1, <1>3, <1>4 DEF StoreInv
<1>6. \A d \in Atoms : GoodLedger(ledger'[d])
  BY <1>1, <1>4 DEF StoreInv
<1>7. \A d \in Atoms : Exists(d) => atoms'[d] # None /\ atoms'[d].revision >= atoms[d].revision
  <2> SUFFICES ASSUME NEW d \in Atoms, Exists(d)
               PROVE  atoms'[d] # None /\ atoms'[d].revision >= atoms[d].revision
    OBVIOUS
  <2>1. atoms[d] \in Row /\ atoms[d].revision <= LastRevision(d)
    BY DEF StoreInv, Exists
  <2>2. atoms[d].revision \in Nat /\ LastRevision(d) \in Nat
    BY <2>1, RowFields, Lengths
  <2>3. CASE d \in changed
    <3>1. atoms'[d] = RestoredRow(a, d)
      BY <1>1, <2>3
    <3>2. RestoredRow(a, d) # None
      BY <1>3, <2>3, NoneAssumption
    <3>3. RestoredRow(a, d).revision = LastRevision(d) + 1
      BY <1>3, <2>3
    <3> QED
      BY <2>1, <2>2, <3>1, <3>2, <3>3
  <2>4. CASE d \notin changed
    BY <1>1, <2>2, <2>4 DEF Exists
  <2> QED
    BY <2>3, <2>4
<1>8. \A d \in Atoms : atoms'[d] # None => atoms'[d].revision <= Len(ledger'[d])
  <2> TAKE d \in Atoms
  <2>1. CASE d \in changed
    <3>1. atoms'[d] = RestoredRow(a, d) /\ ledger'[d] = Append(ledger[d], entry(d))
      BY <1>1, <2>1
    <3>2. RestoredRow(a, d).revision = Len(ledger[d]) + 1
      BY <1>3, <2>1 DEF LastRevision
    <3>3. Len(Append(ledger[d], entry(d))) = Len(ledger[d]) + 1 /\ Len(ledger[d]) \in Nat
      BY <1>4, <2>1, Lengths DEF LastRevision
    <3> QED
      BY <3>1, <3>2, <3>3
  <2>2. CASE d \notin changed
    BY <1>1, <2>2 DEF StoreInv, Exists, LastRevision
  <2> QED
    BY <2>1, <2>2
<1>9. Appends /\ \A d \in Atoms : LastRevision(d) <= Len(ledger'[d])
  BY <1>1, <1>4, Lengths DEF Appends, LastRevision
<1>10. outstanding' \subseteq Event
  <2>1. ASSUME NEW d \in changed PROVE LocalEvent(RestoredRow(a, d), d) \in Event
    BY <1>2, <1>3, RowFields DEF LocalEvent, Event
  <2> QED
    BY <1>1, <2>1 DEF StoreInv
<1>11. ShownHasReceipt'
  BY <1>1, <1>2, <1>3 DEF ShownHasReceipt, IsShown, Exists
<1> QED
  BY <1>1, <1>5, <1>6, <1>7, <1>8, <1>9, <1>10, <1>11
  DEF StoreInv, Exists, LastRevision, GoodLedger, Advances, Grows

-----------------------------------------------------------------------------
(* The projection of evidence, and exposure.                               *)

LEMMA CurrentRow ==
  ASSUME StoreInv, NEW a \in Atoms, Exists(a)
  PROVE  /\ CurrentRevision(a) \in Row
         /\ CurrentRevision(a).revision >= atoms[a].revision
         /\ CurrentRevision(a).revision <= LastRevision(a)
<1>1. /\ atoms[a] \in Row /\ atoms[a].revision \in 1..MaxRev
      /\ atoms[a].revision <= LastRevision(a) /\ LastRevision(a) \in Nat
      /\ LastRevision(a) <= MaxRev
  BY Lengths, RowFields DEF StoreInv, Exists
<1>2. CASE LastRevision(a) > atoms[a].revision
  <2>1. LastRevision(a) \in 1..Len(ledger[a]) /\ LastRevision(a) \in 1..MaxRev
    BY <1>1, <1>2, MaxRevAssumption DEF LastRevision
  <2>2. /\ ledger[a][LastRevision(a)] \in Revision
        /\ ledger[a][LastRevision(a)].row.revision = LastRevision(a)
    BY <2>1 DEF StoreInv, GoodLedger
  <2>3. ledger[a][LastRevision(a)].row \in Row
    BY <2>2 DEF Revision
  <2>4. AppliedRevision(a) \in Row /\ AppliedRevision(a).revision = LastRevision(a)
    BY <1>1, <2>1, <2>2, <2>3 DEF AppliedRevision, Row
  <2> QED
    BY <1>1, <1>2, <2>4 DEF CurrentRevision
<1>3. CASE ~ (LastRevision(a) > atoms[a].revision)
  BY <1>1, <1>3 DEF CurrentRevision
<1> QED
  BY <1>2, <1>3

LEMMA PublishedRows ==
  ASSUME StoreInv, NEW a \in Atoms, NEW links, Exists(a)
  PROVE  /\ PublishedRow(a, links) \in Row
         /\ PublishedRow(a, links).revision >= atoms[a].revision
         /\ PublishedRow(a, links).revision <= LastRevision(a)
<1>1. /\ CurrentRevision(a) \in Row
      /\ PublishedRow(a, links) \in Row
      /\ PublishedRow(a, links).revision = CurrentRevision(a).revision
  BY CurrentRow, ShownVisible DEF PublishedRow, Row
<1> QED
  BY <1>1, CurrentRow

LEMMA MarkKeepsStore ==
  ASSUME StoreInv, ShownHasReceipt, NEW B \in SUBSET Event, MarkBatch(B), UNCHANGED evidence
  PROVE  StoreInv' /\ ShownHasReceipt' /\ Appends /\ Advances /\ Grows
         /\ receipts' = receipts \cup Links(B)
<1> DEFINE links == Links(B)
           left == outstanding \ B
           settled == {a \in Atoms : /\ \E e \in links : e.atom = a
                                     /\ \A e \in Links(left) : e.atom # a
                                     /\ Exists(a)}
<1>1. /\ receipts' = receipts \cup links /\ outstanding' = left
      /\ atoms' = [a \in Atoms |-> IF a \in settled THEN PublishedRow(a, links) ELSE atoms[a]]
      /\ UNCHANGED <<ledger, edges>>
  BY DEF MarkBatch
<1>2. links \subseteq Event /\ left \subseteq Event
  BY DEF StoreInv, Links
<1>3. \A a \in settled : Exists(a) /\ \E e \in links : e.atom = a
  OBVIOUS
<1>4. settled \subseteq Atoms
  OBVIOUS
<1> HIDE DEF settled, links, left
<1>5. \A a \in settled :
        /\ PublishedRow(a, links) \in Row /\ PublishedRow(a, links) # None
        /\ PublishedRow(a, links).revision >= atoms[a].revision
        /\ PublishedRow(a, links).revision <= LastRevision(a)
  BY <1>3, <1>4, PublishedRows, NoneAssumption
<1>6. atoms' \in [Atoms -> Row \cup {None}]
  BY <1>1, <1>5 DEF StoreInv
<1>7. \A a \in Atoms : atoms'[a] # None => atoms'[a].revision <= Len(ledger'[a])
  BY <1>1, <1>5 DEF StoreInv, Exists, LastRevision
<1>8. ASSUME NEW a \in Atoms, Exists(a)
      PROVE  atoms'[a] # None /\ atoms'[a].revision >= atoms[a].revision
  <2>1. atoms[a].revision \in Nat
    BY <1>8, RowFields DEF StoreInv, Exists
  <2> QED
    BY <1>1, <1>5, <1>8, <2>1 DEF Exists
<1>9. ShownHasReceipt'
  BY <1>1, <1>3 DEF ShownHasReceipt, IsShown, Exists
<1>10. Appends /\ \A a \in Atoms : LastRevision(a) <= Len(ledger'[a])
  BY <1>1, Lengths DEF Appends, LastRevision
<1>11. receipts' = receipts \cup Links(B)
  BY <1>1 DEF links
<1> QED
  BY <1>1, <1>2, <1>6, <1>7, <1>8, <1>9, <1>10, <1>11
  DEF StoreInv, Exists, LastRevision, GoodLedger, Advances, Grows

LEMMA MarkFailedKeepsStore ==
  ASSUME StoreInv, ShownHasReceipt, NEW B \in SUBSET Event, MarkFailedBatch(B), UNCHANGED evidence
  PROVE  StoreInv' /\ ShownHasReceipt' /\ Appends /\ Advances /\ Grows
<1>1. \A a \in Atoms : Exists(a) => atoms[a].revision \in Nat
  BY RowFields DEF StoreInv, Exists
<1> QED
  BY <1>1, Lengths DEF MarkFailedBatch, StoreInv, ShownHasReceipt, Appends, Advances, Grows,
     Exists, IsShown, LastRevision, GoodLedger

LEMMA ExposeKeepsStore ==
  ASSUME StoreInv, ShownHasReceipt, NEW a \in Atoms, Expose(a), UNCHANGED evidence
  PROVE  StoreInv' /\ ShownHasReceipt' /\ Appends /\ Advances /\ Grows
<1> DEFINE shown == [atoms[a] EXCEPT !.visibility = "active"]
<1>1. /\ Exists(a) /\ HasReceipt(a)
      /\ atoms' = [atoms EXCEPT ![a] = shown]
      /\ UNCHANGED <<ledger, edges, outstanding, receipts>>
  BY DEF Expose, HasReceipt
<1>2. shown \in Row /\ shown.revision = atoms[a].revision
  BY <1>1 DEF StoreInv, Exists, Row, Visibilities, Shown
<1> HIDE DEF shown
<1>3. shown # None
  BY <1>2, NoneAssumption
<1>4. \A d \in Atoms : Exists(d) => atoms[d].revision \in Nat
  BY RowFields DEF StoreInv, Exists
<1>5. ShownHasReceipt'
  BY <1>1 DEF StoreInv, ShownHasReceipt, IsShown, Exists, HasReceipt
<1>6. \A d \in Atoms : Exists(d) => atoms'[d] # None /\ atoms'[d].revision >= atoms[d].revision
  BY <1>1, <1>2, <1>3, <1>4 DEF StoreInv, Exists
<1>7. atoms' \in [Atoms -> Row \cup {None}]
      /\ \A d \in Atoms : atoms'[d] # None => atoms'[d].revision <= Len(ledger'[d])
  BY <1>1, <1>2 DEF StoreInv, Exists, LastRevision
<1>8. Appends /\ \A d \in Atoms : LastRevision(d) <= Len(ledger'[d])
  BY <1>1, Lengths DEF Appends, LastRevision
<1> QED
  BY <1>1, <1>5, <1>6, <1>7, <1>8
  DEF StoreInv, Exists, LastRevision, GoodLedger, Advances, Grows

-----------------------------------------------------------------------------
(* The invariant.                                                          *)

\* An item that the put would show was shown, and has its receipt.
PutReady(i) ==
    /\ i \in PutIntention
    /\ i.item.visibility \in Shown /\ (~ i.evidenced \/ i.item.status # "active")
            => HasReceipt(i.atom)

SupersedeReady(i) ==
    /\ i \in SupersedeIntention /\ i.old # i.new /\ "supersede" \in Workload
    /\ ReadRow(i.old, i.oldRead) /\ ReadRow(i.new, i.newRead)

Ready(i) == PutReady(i) \/ SupersedeReady(i)

ClientInv == \A c \in Clients : intention[c] # None => Ready(intention[c])

\* Between its two commits a projector's evidence is durable.
ProjectorInv == \A p \in Projectors : projector[p] = "committed" => Links(batch[p]) \subseteq evidence

ControlInv ==
    /\ DOMAIN intention = Clients
    /\ batch \in [Projectors -> SUBSET Event]
    /\ projector \in [Projectors -> {"idle", "read", "committed", "failed"}]

IInv == StoreInv /\ ShownHasReceipt /\ ReceiptsAreBacked /\ ControlInv /\ ClientInv /\ ProjectorInv

LEMMA InitIInv == Init => IInv
<1> SUFFICES ASSUME Init PROVE IInv
  OBVIOUS
<1>1. /\ <<>> \in Seq(Revision) /\ GoodLedger(<<>>)
      /\ \A a \in Atoms : ledger[a] = <<>> /\ ~ Exists(a)
  BY MaxRevAssumption DEF GoodLedger, Init, StoreInit, Exists
<1>2. StoreInv /\ ShownHasReceipt
  BY <1>1 DEF Init, StoreInit, StoreInv, ShownHasReceipt, IsShown
<1> QED
  BY <1>2 DEF Init, StoreInit, IInv, ReceiptsAreBacked, ControlInv, ClientInv, ProjectorInv

LEMMA ReadyStays ==
  ASSUME StoreInv, StoreInv', Grows, NEW i, Ready(i)
  PROVE  Ready(i)'
<1>1. \A a \in Atoms : HasReceipt(a) => HasReceipt(a)'
  BY DEF Grows, HasReceipt
<1>2. CASE PutReady(i)
  <2>1. i.atom \in Atoms
    BY <1>2 DEF PutReady, PutIntention
  <2> QED
    BY <1>1, <1>2, <2>1 DEF Ready, PutReady
<1>3. CASE SupersedeReady(i)
  <2>1. i.old \in Atoms /\ i.new \in Atoms
    BY <1>3 DEF SupersedeReady, SupersedeIntention
  <2>2. ASSUME NEW a \in Atoms, NEW row, ReadRow(a, row) PROVE ReadRow(a, row)'
    <3>1. row.revision \in Nat /\ LastRevision(a) \in Nat /\ LastRevision(a)' \in Nat
      BY <2>2, RowFields DEF ReadRow, StoreInv, LastRevision
    <3>2. row.revision <= LastRevision(a)'
      BY <2>2, <3>1 DEF ReadRow, Grows, LastRevision
    <3> QED
      BY <1>1, <2>2, <3>2 DEF ReadRow, Grows, Exists
  <2> QED
    BY <1>3, <2>1, <2>2 DEF Ready, SupersedeReady
<1> QED
  BY <1>2, <1>3 DEF Ready

\* A client notes what it will write.
LEMMA IntendStep ==
  ASSUME IInv, NEW c \in Clients, NEW i, Intend(c, i), Ready(i)
  PROVE  IInv'
<1>1. /\ intention' = [intention EXCEPT ![c] = i]
      /\ UNCHANGED <<storeVars, batch, projector>>
  BY DEF Intend
<1>2. StoreInv' /\ ShownHasReceipt' /\ ReceiptsAreBacked' /\ ControlInv' /\ ProjectorInv'
  BY <1>1 DEF IInv, StoreInv, ShownHasReceipt, ReceiptsAreBacked, ControlInv, ProjectorInv, storeVars,
     IsShown, Exists, LastRevision, GoodLedger
<1>3. \A j : Ready(j) => Ready(j)'
  BY <1>1 DEF Ready, PutReady, SupersedeReady, ReadRow, HasReceipt, Exists, LastRevision, storeVars
<1>4. ClientInv'
  BY <1>1, <1>3 DEF IInv, ControlInv, ClientInv
<1> QED
  BY <1>2, <1>4 DEF IInv

\* A client writes, or gives up, and its intention is gone.
LEMMA ClientStep ==
  ASSUME IInv, StoreInv', ShownHasReceipt', Grows,
         UNCHANGED <<receipts, evidence, batch, projector>>,
         NEW c \in Clients, intention' \in {intention, [intention EXCEPT ![c] = None]}
  PROVE  IInv'
<1>1. StoreInv /\ ClientInv /\ DOMAIN intention = Clients
  BY DEF IInv, ControlInv
<1>2. \A i : Ready(i) => Ready(i)'
  BY <1>1, ReadyStays
<1>3. ClientInv'
  BY <1>1, <1>2 DEF ClientInv
<1> QED
  BY <1>3 DEF IInv, ReceiptsAreBacked, ControlInv, ProjectorInv

LEMMA ReadyToPut ==
  ASSUME NEW a \in Atoms, NEW item \in Row, NEW evidenced \in BOOLEAN,
         item.visibility \in Shown /\ (~ evidenced \/ item.status # "active") => HasReceipt(a)
  PROVE  Ready([op |-> "put", atom |-> a, item |-> item, evidenced |-> evidenced])
  BY DEF Ready, PutReady, PutIntention

\* Whatever keeps the visibility of the row it read may be put.
LEMMA ReadyToEdit ==
  ASSUME IInv, NEW a \in Atoms, Exists(a), NEW item \in Row, NEW evidenced \in BOOLEAN,
         item.visibility = atoms[a].visibility
  PROVE  Ready([op |-> "put", atom |-> a, item |-> item, evidenced |-> evidenced])
<1>1. item.visibility \in Shown => HasReceipt(a)
  BY DEF IInv, ShownHasReceipt, IsShown, HasReceipt
<1> QED
  BY <1>1, ReadyToPut

LEMMA NextIInv == IInv /\ [Next]_vars => IInv'
<1> SUFFICES ASSUME IInv, [Next]_vars PROVE IInv'
  OBVIOUS
<1>0. /\ StoreInv /\ ShownHasReceipt /\ ClientInv /\ ControlInv
      /\ \A a \in Atoms : Exists(a) => atoms[a] \in Row
  BY DEF IInv, StoreInv, Exists
<1>1. ASSUME NEW c \in Clients, NEW a \in Atoms, NEW b \in Bodies, NEW v \in {"building", "ready"},
             Import(c, a, b, v)
      PROVE  IInv'
  <2>1. FreshItem(b, v) \in Row /\ FreshItem(b, v).status = "active"
    BY MaxRevAssumption DEF FreshItem, Row, Visibilities, Shown
  <2>2. Ready([op |-> "put", atom |-> a, item |-> FreshItem(b, v), evidenced |-> TRUE])
    BY <2>1, ReadyToPut
  <2> QED
    BY <1>1, <2>2, IntendStep DEF Import, IntendPut
<1>2. ASSUME NEW c \in Clients, NEW a \in Atoms, NEW b \in Bodies, Merge(c, a, b) \/ Update(c, a, b) \/ Enrich(c, a, b)
      PROVE  IInv'
  <2> DEFINE item == [atoms[a] EXCEPT !.body = b]
  <2>1. Exists(a) /\ item \in Row /\ item.visibility = atoms[a].visibility
    BY <1>0, <1>2 DEF Merge, Update, Enrich, Row
  <2>2. PICK evidenced \in BOOLEAN : IntendPut(c, a, item, evidenced)
    BY <1>2 DEF Merge, Update, Enrich
  <2>3. PICK i : i = [op |-> "put", atom |-> a, item |-> item, evidenced |-> evidenced]
    OBVIOUS
  <2>4. Ready(i)
    BY <2>1, <2>3, ReadyToEdit
  <2> QED
    BY <2>2, <2>3, <2>4, IntendStep DEF IntendPut
<1>3. ASSUME NEW c \in Clients, NEW a \in Atoms, Lock(c, a) \/ Delete(c, a)
      PROVE  IInv'
  <2>1. PICK item : /\ item \in {[atoms[a] EXCEPT !.locked = TRUE], [atoms[a] EXCEPT !.status = "deleted"]}
                    /\ Exists(a) /\ IntendPut(c, a, item, FALSE)
    BY <1>3 DEF Lock, Delete
  <2>2. item \in Row /\ item.visibility = atoms[a].visibility
    BY <1>0, <2>1 DEF Row
  <2>3. Ready([op |-> "put", atom |-> a, item |-> item, evidenced |-> FALSE])
    BY <2>1, <2>2, ReadyToEdit
  <2> QED
    BY <2>1, <2>3, IntendStep DEF IntendPut
<1>4. ASSUME NEW c \in Clients, NEW a \in Atoms, NEW n \in 1..MaxRev, Rollback(c, a, n)
      PROVE  IInv'
  <2>1. PICK item : item = Replayed(a, n)
    OBVIOUS
  <2>2. Exists(a) /\ n <= atoms[a].revision /\ IntendPut(c, a, item, FALSE)
    BY <1>4, <2>1 DEF Rollback, IsShown
  <2>3. n \in 1..Len(ledger[a])
    BY <1>0, <2>2, Lengths, RowFields DEF StoreInv, Exists, LastRevision
  <2>4. ledger[a][n].row \in Row
    <3>1. ledger[a] \in Seq(Revision)
      BY <1>0 DEF StoreInv
    <3>2. ledger[a][n] \in Revision
      BY <2>3, <3>1
    <3> QED
      BY <3>2 DEF Revision
  <2>5. item \in Row /\ item.visibility = atoms[a].visibility
    BY <1>0, <2>1, <2>2, <2>4 DEF Replayed, Row
  <2>6. Ready([op |-> "put", atom |-> a, item |-> item, evidenced |-> FALSE])
    BY <2>2, <2>5, ReadyToEdit
  <2> QED
    BY <2>2, <2>6, IntendStep DEF IntendPut
<1>5. ASSUME NEW c \in Clients, NEW old \in Atoms, NEW new \in Atoms, ReadToSupersede(c, old, new)
      PROVE  IInv'
  <2>1. ASSUME NEW a \in Atoms, Exists(a) PROVE ReadRow(a, atoms[a])
    BY <1>0, <2>1 DEF StoreInv, ShownHasReceipt, ReadRow, IsShown, HasReceipt
  <2>2. PICK i : i = [op |-> "supersede", old |-> old, new |-> new,
                      oldRead |-> atoms[old], newRead |-> atoms[new]]
    OBVIOUS
  <2>3. Ready(i) /\ Intend(c, i)
    BY <1>0, <1>5, <2>1, <2>2 DEF ReadToSupersede, Ready, SupersedeReady, SupersedeIntention
  <2> QED
    BY <2>3, IntendStep
<1>6. ASSUME NEW c \in Clients, WritePut(c) PROVE IInv'
  <2>1. PICK i : i = intention[c]
    OBVIOUS
  <2>2. /\ i # None /\ i.op = "put" /\ PutAtom(i.atom, i.item, i.evidenced)
        /\ intention' = [intention EXCEPT ![c] = None]
        /\ UNCHANGED <<evidence, batch, projector>>
    BY <1>6, <2>1 DEF WritePut
  <2>3. PutReady(i)
    BY <1>0, <2>1, <2>2 DEF ClientInv, Ready, SupersedeReady, SupersedeIntention
  <2>4. i.atom \in Atoms /\ i.item \in Row /\ i.evidenced \in BOOLEAN
    BY <2>3 DEF PutReady, PutIntention
  <2>5. StoreInv' /\ ShownHasReceipt' /\ Grows
    BY <1>0, <2>2, <2>3, <2>4, PutKeepsStore, PutKeepsShown, PutAppends DEF PutReady
  <2>6. UNCHANGED receipts
    BY <2>2 DEF PutAtom, memoryVars
  <2> QED
    BY <2>2, <2>5, <2>6, ClientStep
<1>7. ASSUME NEW c \in Clients, WriteSupersede(c) PROVE IInv'
  <2>1. PICK i : i = intention[c]
    OBVIOUS
  <2>2. /\ i # None /\ i.op = "supersede" /\ Supersede(i.old, i.new, i.oldRead, i.newRead)
        /\ intention' = [intention EXCEPT ![c] = None]
        /\ UNCHANGED <<evidence, batch, projector>>
    BY <1>7, <2>1 DEF WriteSupersede
  <2>3. SupersedeReady(i)
    BY <1>0, <2>1, <2>2 DEF ClientInv, Ready, PutReady, PutIntention
  <2>4. i.old \in Atoms /\ i.new \in Atoms
    BY <2>3 DEF SupersedeReady, SupersedeIntention
  <2>5. StoreInv' /\ ShownHasReceipt' /\ Grows
    BY <1>0, <2>2, <2>3, <2>4, SupersedeKeepsStore DEF SupersedeReady
  <2>6. UNCHANGED receipts
    BY <2>2 DEF Supersede, memoryVars
  <2> QED
    BY <2>2, <2>5, <2>6, ClientStep
<1>8. ASSUME NEW c \in Clients, NEW a \in Atoms, RestoreAtom(c, a) PROVE IInv'
  <2>1. StoreInv' /\ ShownHasReceipt' /\ Grows
    BY <1>0, <1>8, RestoreKeepsStore DEF RestoreAtom
  <2>2. UNCHANGED <<receipts, evidence, intention, batch, projector>>
    BY <1>8 DEF RestoreAtom, Restore
  <2> QED
    BY <2>1, <2>2, ClientStep
<1>9. ASSUME NEW c \in Clients, NEW a \in Atoms, ExposeAtom(c, a) PROVE IInv'
  <2>1. StoreInv' /\ ShownHasReceipt' /\ Grows
    BY <1>0, <1>9, ExposeKeepsStore DEF ExposeAtom
  <2>2. UNCHANGED <<receipts, evidence, intention, batch, projector>>
    BY <1>9 DEF ExposeAtom, Expose
  <2> QED
    BY <2>1, <2>2, ClientStep
<1>10. ASSUME NEW c \in Clients, Abandon(c) PROVE IInv'
  <2>1. StoreInv' /\ ShownHasReceipt' /\ Grows
    BY <1>0, <1>10, Lengths DEF Abandon, storeVars, StoreInv, ShownHasReceipt, Grows, IsShown, Exists,
       LastRevision, GoodLedger
  <2> QED
    BY <1>10, <2>1, ClientStep DEF Abandon, storeVars
<1>11. ASSUME NEW p \in Projectors, Projector(p) PROVE IInv'
  <2>1. UNCHANGED intention
    BY <1>11 DEF Projector, ReadOutbox, CommitEvidence, EvidenceFails, RecordFailure, RecordReceipts,
       ProjectorDies
  <2>2. batch[p] \in SUBSET Event /\ Links(batch[p]) \in SUBSET Event
    BY <1>0 DEF ControlInv, Links
  <2>3. StoreInv' /\ ShownHasReceipt' /\ Grows
    <3>1. CASE ReadOutbox(p) \/ ProjectorDies(p)
      BY <1>0, <3>1, Lengths DEF ReadOutbox, ProjectorDies, storeVars, StoreInv, ShownHasReceipt, Grows,
         IsShown, Exists, LastRevision, GoodLedger
    <3>2. CASE CommitEvidence(p)
      BY <1>0, <2>2, <3>2, Lengths DEF CommitEvidence, memoryVars, StoreInv, ShownHasReceipt, Grows,
         IsShown, Exists, LastRevision, GoodLedger
    <3>3. CASE EvidenceFails(p)
      <4>1. batch[p] \ Links(batch[p]) \in SUBSET Event
        BY <2>2
      <4> QED
        BY <1>0, <3>3, <4>1, MarkKeepsStore DEF EvidenceFails
    <3>4. CASE RecordFailure(p)
      BY <1>0, <2>2, <3>4, MarkFailedKeepsStore DEF RecordFailure
    <3>5. CASE RecordReceipts(p)
      BY <1>0, <2>2, <3>5, MarkKeepsStore DEF RecordReceipts
    <3> QED
      BY <1>11, <3>1, <3>2, <3>3, <3>4, <3>5 DEF Projector
  <2>4. ControlInv'
    <3>1. outstanding \in SUBSET Event
      BY <1>0 DEF StoreInv
    <3> QED
      BY <1>0, <1>11, <3>1 DEF Projector, ReadOutbox, CommitEvidence, EvidenceFails, RecordFailure,
         RecordReceipts, ProjectorDies, Rest, ControlInv
  <2>5. evidence \subseteq evidence' /\ ReceiptsAreBacked' /\ ProjectorInv'
    <3>1. CASE ReadOutbox(p) \/ ProjectorDies(p)
      BY <1>0, <3>1 DEF ReadOutbox, ProjectorDies, Rest, storeVars, IInv, ReceiptsAreBacked, ProjectorInv,
         ControlInv
    <3>2. CASE CommitEvidence(p)
      BY <1>0, <3>2 DEF CommitEvidence, memoryVars, IInv, ReceiptsAreBacked, ProjectorInv, ControlInv
    <3>3. CASE EvidenceFails(p)
      <4>1. Links(batch[p] \ Links(batch[p])) = {}
        BY DEF Links
      <4>2. UNCHANGED receipts
        BY <3>3, <4>1 DEF EvidenceFails, MarkBatch
      <4> QED
        BY <1>0, <3>3, <4>2 DEF EvidenceFails, IInv, ReceiptsAreBacked, ProjectorInv, ControlInv
    <3>4. CASE RecordFailure(p)
      BY <1>0, <3>4 DEF RecordFailure, MarkFailedBatch, Rest, IInv, ReceiptsAreBacked, ProjectorInv,
         ControlInv
    <3>5. CASE RecordReceipts(p)
      <4>1. receipts' = receipts \cup Links(batch[p]) /\ Links(batch[p]) \subseteq evidence
        BY <3>5 DEF RecordReceipts, MarkBatch, IInv, ProjectorInv
      <4> QED
        BY <1>0, <3>5, <4>1 DEF RecordReceipts, Rest, IInv, ReceiptsAreBacked, ProjectorInv, ControlInv
    <3> QED
      BY <1>11, <3>1, <3>2, <3>3, <3>4, <3>5 DEF Projector
  <2>6. ClientInv'
    <3>1. \A i : Ready(i) => Ready(i)'
      BY <1>0, <2>3, ReadyStays
    <3> QED
      BY <1>0, <2>1, <3>1 DEF ClientInv
  <2> QED
    BY <2>3, <2>4, <2>5, <2>6 DEF IInv
<1>12. CASE UNCHANGED vars
  BY <1>12 DEF vars, storeVars, IInv, StoreInv, ShownHasReceipt, ReceiptsAreBacked, ControlInv, ClientInv,
     ProjectorInv, Ready, PutReady, SupersedeReady, ReadRow, HasReceipt, IsShown, Exists, LastRevision,
     GoodLedger
<1> QED
  BY <1>1, <1>2, <1>3, <1>4, <1>5, <1>6, <1>7, <1>8, <1>9, <1>10, <1>11, <1>12
  DEF Next, Client

LEMMA SpecIInv == Spec => []IInv
  BY InitIInv, NextIInv, PTL DEF Spec

-----------------------------------------------------------------------------

\* Every table of the store keeps its type, and so does what the clients and the
\* projectors carry from one transaction to the next.
THEOREM MemoryTypeCorrect == Spec => []TypeOK
<1>1. IInv => TypeOK
  <2> SUFFICES ASSUME IInv PROVE TypeOK
    OBVIOUS
  <2>1. \A a \in Atoms : atoms[a] \in Row \cup {None}
    BY DEF IInv, StoreInv
  <2>2. \A a \in Atoms : \A n \in 1..LastRevision(a) : ledger[a][n] \in Revision
    BY DEF IInv, StoreInv, LastRevision
  <2>3. \A c \in Clients : intention[c] \in PutIntention \cup SupersedeIntention \cup {None}
    BY DEF IInv, ClientInv, Ready, PutReady, SupersedeReady
  <2> QED
    BY <2>1, <2>2, <2>3 DEF IInv, StoreInv, ControlInv, TypeOK
<1> QED
  BY <1>1, SpecIInv, PTL

\* project_evidence commits evidence.db before memory.db: whatever dies or fails
\* in between, a receipt has its evidence.
THEOREM EvidenceBeforeReceipts == Spec => []ReceiptsAreBacked
<1>1. IInv => ReceiptsAreBacked
  BY DEF IInv
<1> QED
  BY <1>1, SpecIInv, PTL

\* put_atom, supersede, restore, set_visibility and the projector: no atom is
\* shown before evidence of it was projected, whatever stale rows are written.
THEOREM NothingShownUnprojected == Spec => []ShownHasReceipt
<1>1. IInv => ShownHasReceipt
  BY DEF IInv
<1> QED
  BY <1>1, SpecIInv, PTL
-----------------------------------------------------------------------------
(* History.                                                                *)

\* What every step leaves to the atoms that it does not supersede.
Kept ==
    \A a \in Atoms : ~ SupersededNow(a) =>
        /\ \A n \in 1..LastRevision(a) : n <= Len(ledger'[a]) /\ ledger'[a][n] = ledger[a][n]
        /\ Exists(a) => atoms'[a].revision >= atoms[a].revision

LEMMA AllKept ==
  ASSUME Appends, Advances
  PROVE  Kept
  BY DEF Appends, Advances, Kept

\* A supersession writes the two atoms of its edge and no other.
LEMMA SupersedeTouches ==
  ASSUME StoreInv, NEW old, NEW new, NEW oldRead, NEW newRead,
         Supersede(old, new, oldRead, newRead)
  PROVE  /\ \A a \in Atoms : ~ SupersededNow(a) => atoms'[a] = atoms[a] /\ ledger'[a] = ledger[a]
         /\ edges \subseteq edges' /\ Links(outstanding) \subseteq Links(outstanding')
<1>1. CASE <<old, new>> \in edges
  BY <1>1 DEF Supersede, memoryVars
<1>2. CASE <<old, new>> \notin edges
  <2>1. edges' = edges \cup {<<old, new>>} /\ outstanding \subseteq outstanding'
    BY <1>2 DEF Supersede
  <2>2. \A a : ~ SupersededNow(a) => a # old /\ a # new
    <3>1. <<old, new>> \in edges' \ edges
      BY <1>2, <2>1
    <3> QED
      BY <3>1 DEF SupersededNow
  <2>3. \A a \in Atoms : a # old /\ a # new => atoms'[a] = atoms[a] /\ ledger'[a] = ledger[a]
    BY <1>2 DEF Supersede, StoreInv
  <2> QED
    BY <2>1, <2>2, <2>3 DEF Links
<1> QED
  BY <1>1, <1>2

LEMMA SupersedeKeepsOthers ==
  ASSUME StoreInv, NEW old, NEW new, NEW oldRead, NEW newRead,
         Supersede(old, new, oldRead, newRead)
  PROVE  Kept
<1>1. \A a \in Atoms : ~ SupersededNow(a) => atoms'[a] = atoms[a] /\ ledger'[a] = ledger[a]
  BY SupersedeTouches
<1>2. \A a \in Atoms : Exists(a) => atoms[a].revision \in Nat
  BY RowFields DEF StoreInv, Exists
<1>3. \A a \in Atoms : LastRevision(a) \in Nat
  BY Lengths
<1> QED
  BY <1>1, <1>2, <1>3 DEF Kept, LastRevision

LEMMA StepKeepsHistory ==
  ASSUME IInv, [Next]_vars
  PROVE  Kept
<1>0. StoreInv /\ ShownHasReceipt /\ ControlInv
  BY DEF IInv
<1>1. ASSUME UNCHANGED <<atoms, ledger>> PROVE Kept
  <2>1. \A a \in Atoms : Exists(a) => atoms[a].revision \in Nat
    BY <1>0, RowFields DEF StoreInv, Exists
  <2>2. \A a \in Atoms : LastRevision(a) \in Nat
    BY <1>0, Lengths
  <2> QED
    BY <1>1, <2>1, <2>2 DEF Kept, LastRevision
<1>2. ASSUME NEW c \in Clients, Client(c) PROVE Kept
  <2>1. CASE WritePut(c)
    <3>1. PICK i : i = intention[c]
      OBVIOUS
    <3>2. i # None /\ i.op = "put" /\ PutAtom(i.atom, i.item, i.evidenced)
      BY <2>1, <3>1 DEF WritePut
    <3>3. i.atom \in Atoms /\ i.item \in Row /\ i.evidenced \in BOOLEAN
      BY <3>1, <3>2 DEF IInv, ClientInv, Ready, PutReady, PutIntention, SupersedeReady,
         SupersedeIntention
    <3> QED
      BY <1>0, <3>2, <3>3, PutAppends, AllKept
  <2>2. CASE WriteSupersede(c)
    <3>1. PICK i : i = intention[c]
      OBVIOUS
    <3>2. i # None /\ i.op = "supersede" /\ Supersede(i.old, i.new, i.oldRead, i.newRead)
      BY <2>2, <3>1 DEF WriteSupersede
    <3> QED
      BY <1>0, <3>2, SupersedeKeepsOthers DEF Kept
  <2>3. CASE \E a \in Atoms : RestoreAtom(c, a)
    <3>1. PICK a \in Atoms : Exists(a) /\ Restore(a) /\ UNCHANGED evidence
      BY <2>3 DEF RestoreAtom
    <3> QED
      BY <1>0, <3>1, RestoreKeepsStore, AllKept
  <2>4. CASE \E a \in Atoms : ExposeAtom(c, a)
    <3>1. PICK a \in Atoms : Expose(a) /\ UNCHANGED evidence
      BY <2>4 DEF ExposeAtom
    <3> QED
      BY <1>0, <3>1, ExposeKeepsStore, AllKept
  <2>5. CASE \/ Abandon(c)
             \/ \E a \in Atoms :
                  \/ \E b \in Bodies, v \in {"building", "ready"} : Import(c, a, b, v)
                  \/ \E b \in Bodies : Merge(c, a, b) \/ Update(c, a, b) \/ Enrich(c, a, b)
                  \/ Lock(c, a) \/ Delete(c, a)
                  \/ \E n \in 1..MaxRev : Rollback(c, a, n)
                  \/ \E new \in Atoms : ReadToSupersede(c, a, new)
    BY <1>1, <2>5 DEF Abandon, Import, Merge, Update, Enrich, Lock, Delete, Rollback, ReadToSupersede,
       IntendPut, Intend, storeVars
  <2> QED
    BY <1>2, <2>1, <2>2, <2>3, <2>4, <2>5 DEF Client
<1>3. ASSUME NEW p \in Projectors, Projector(p) PROVE Kept
  <2>1. batch[p] \in SUBSET Event /\ batch[p] \ Links(batch[p]) \in SUBSET Event
    BY <1>0 DEF ControlInv
  <2>2. CASE EvidenceFails(p) \/ RecordReceipts(p)
    BY <1>0, <2>1, <2>2, MarkKeepsStore, AllKept DEF EvidenceFails, RecordReceipts
  <2>3. CASE ReadOutbox(p) \/ CommitEvidence(p) \/ RecordFailure(p) \/ ProjectorDies(p)
    BY <1>1, <2>3 DEF ReadOutbox, CommitEvidence, RecordFailure, ProjectorDies, MarkFailedBatch,
       storeVars, memoryVars
  <2> QED
    BY <1>3, <2>2, <2>3 DEF Projector
<1>4. CASE UNCHANGED vars
  BY <1>1, <1>4 DEF vars, storeVars
<1> QED
  BY <1>2, <1>3, <1>4 DEF Next

\* put_atom, restore and the projector: no step but the supersession of an atom
\* rewrites or drops a revision of it (store.py:2017), whatever was superseded before.
THEOREM HistoryKept == Spec => HistoryIsKept
<1>1. IInv /\ [Next]_vars =>
        \A a \in Atoms : ~ SupersededNow(a) => \A n \in 1..LastRevision(a) :
            n <= Len(ledger'[a]) /\ ledger'[a][n] = ledger[a][n]
  BY StepKeepsHistory DEF Kept
<1>2. IInv /\ [Next]_vars =>
        [\A a \in Atoms : ~ SupersededNow(a) => \A n \in 1..LastRevision(a) :
            n <= Len(ledger'[a]) /\ ledger'[a][n] = ledger[a][n]]_vars
  BY <1>1
<1> QED
  BY <1>2, SpecIInv, PTL DEF Spec, HistoryIsKept

\* Neither a stale write nor a late promotion takes the committed revision of an atom
\* back: only a supersession of that atom can.
THEOREM RevisionsGrow == Spec => RevisionsAdvance
<1>1. IInv /\ [Next]_vars =>
        \A a \in Atoms : Exists(a) /\ ~ SupersededNow(a) =>
            atoms'[a].revision >= atoms[a].revision
  BY StepKeepsHistory DEF Kept
<1>2. IInv /\ [Next]_vars =>
        [\A a \in Atoms : Exists(a) /\ ~ SupersededNow(a) =>
            atoms'[a].revision >= atoms[a].revision]_vars
  BY <1>1
<1> QED
  BY <1>2, SpecIInv, PTL DEF Spec, RevisionsAdvance
-----------------------------------------------------------------------------
(* The row and its ledger.  For the atoms that no supersession has written *)
(* the two halves below are inductive together with StoreInv: a row is     *)
(* written with its revision, and a staged revision waits for an event     *)
(* that is still in the outbox.                                            *)

Aligned == LedgerAgreesWithRow /\ NothingStagedBehind

LEMMA LedgerElement ==
  ASSUME StoreInv, NEW a \in Atoms, NEW n \in 1..LastRevision(a)
  PROVE  /\ ledger[a][n] \in Revision /\ ledger[a][n].row \in Row
         /\ ledger[a][n].row.revision = n
<1>1. ledger[a] \in Seq(Revision) /\ GoodLedger(ledger[a]) /\ n \in 1..Len(ledger[a])
  BY DEF StoreInv, LastRevision
<1>2. ledger[a][n] \in Revision
  BY <1>1
<1>3. ledger[a][n].row \in Row
  BY <1>2 DEF Revision
<1> QED
  BY <1>1, <1>2, <1>3 DEF GoodLedger

LEMMA RowRevision ==
  ASSUME StoreInv, NEW a \in Atoms, Exists(a)
  PROVE  atoms[a] \in Row /\ atoms[a].revision \in 1..LastRevision(a)
<1>1. atoms[a] \in Row /\ atoms[a].revision <= LastRevision(a)
  BY DEF StoreInv, Exists
<1> QED
  BY <1>1, RowFields, Lengths

\* Appending to a ledger changes none of the revisions in it.
LEMMA Appended ==
  ASSUME StoreInv, NEW a \in Atoms, NEW e
  PROVE  /\ Len(Append(ledger[a], e)) = LastRevision(a) + 1
         /\ Append(ledger[a], e)[LastRevision(a) + 1] = e
         /\ \A n \in 1..LastRevision(a) : Append(ledger[a], e)[n] = ledger[a][n]
<1>1. ledger[a] \in Seq(Revision)
  BY Lengths
<1> QED
  BY <1>1 DEF LastRevision

LEMMA StillAligned ==
  ASSUME Aligned, edges \subseteq edges', Links(outstanding) \subseteq Links(outstanding'),
         \A a \in Atoms : ~ SupersededNow(a) => atoms'[a] = atoms[a] /\ ledger'[a] = ledger[a]
  PROVE  Aligned'
<1>1. \A a \in Atoms : Untouched(a)' => Untouched(a) /\ ~ SupersededNow(a)
  BY DEF Untouched, SupersededNow
<1>2. LedgerAgreesWithRow'
  BY <1>1 DEF Aligned, LedgerAgreesWithRow, Exists
<1>3. NothingStagedBehind'
  BY <1>1 DEF Aligned, NothingStagedBehind, Exists, LastRevision
<1> QED
  BY <1>2, <1>3 DEF Aligned

LEMMA PutKeepsAligned ==
  ASSUME StoreInv, Aligned, NEW a \in Atoms, NEW item \in Row, NEW evidenced \in BOOLEAN,
         PutAtom(a, item, evidenced)
  PROVE  Aligned'
<1>1. CASE SamePayload(a, item, evidenced)
  BY <1>1, StillAligned DEF PutAtom, memoryVars
<1>2. CASE ~ SamePayload(a, item, evidenced)
  <2> DEFINE stored == Stored(a, item, evidenced)
             staged == Staged(a, evidenced)
             entry == [row |-> stored, delta |-> IF staged THEN "staged" ELSE "put"]
  <2>1. /\ LastRevision(a) < MaxRev
        /\ atoms' = IF staged THEN atoms ELSE [atoms EXCEPT ![a] = stored]
        /\ ledger' = [ledger EXCEPT ![a] = Append(@, entry)]
        /\ outstanding' = outstanding \cup (IF evidenced THEN {LinkEvent(a, item, evidenced)} ELSE {})
        /\ UNCHANGED edges
    BY <1>2 DEF PutAtom
  <2>2. stored \in Row /\ stored.revision = LastRevision(a) + 1
    BY <2>1, StoredRow
  <2>3. entry.row = stored
    OBVIOUS
  <2> HIDE DEF stored, entry
  <2>4. ledger'[a] = Append(ledger[a], entry) /\ \A d \in Atoms \ {a} : ledger'[d] = ledger[d]
    BY <2>1 DEF StoreInv
  <2>5. Links(outstanding) \subseteq Links(outstanding')
    BY <2>1 DEF Links
  <2>6. ASSUME NEW d \in Atoms, d # a
        PROVE  atoms'[d] = atoms[d] /\ ledger'[d] = ledger[d]
    BY <2>1, <2>4, <2>6 DEF StoreInv
  <2>7. \A d : Untouched(d)' <=> Untouched(d)
    BY <2>1 DEF Untouched
  <2>8. CASE staged
    <3>1. evidenced /\ Exists(a) /\ atoms' = atoms
      BY <2>1, <2>8 DEF Staged, IsShown
    <3>2. \E e \in Links(outstanding') : e.atom = a
      <4>1. LinkEvent(a, item, evidenced) \in outstanding'
        BY <2>1, <3>1
      <4>2. /\ LinkEvent(a, item, evidenced).kind = "link"
            /\ LinkEvent(a, item, evidenced).atom = a
        BY DEF LinkEvent
      <4> QED
        BY <4>1, <4>2 DEF Links
    <3>3. ledger'[a][atoms[a].revision] = ledger[a][atoms[a].revision]
      <4>1. atoms[a].revision \in 1..LastRevision(a)
        BY <3>1, RowRevision
      <4>2. \A n \in 1..LastRevision(a) : Append(ledger[a], entry)[n] = ledger[a][n]
        BY Appended
      <4>3. Append(ledger[a], entry)[atoms[a].revision] = ledger[a][atoms[a].revision]
        BY <4>1, <4>2
      <4> HIDE DEF entry
      <4> QED
        BY <2>4, <4>3
    <3>4. LedgerAgreesWithRow'
      BY <2>6, <2>7, <3>1, <3>3 DEF Aligned, LedgerAgreesWithRow, Exists
    <3>5. NothingStagedBehind'
      BY <2>5, <2>6, <2>7, <3>1, <3>2 DEF Aligned, NothingStagedBehind, Exists, LastRevision
    <3> QED
      BY <3>4, <3>5 DEF Aligned
  <2>9. CASE ~ staged
    <3>1. atoms'[a] = stored
      BY <2>1, <2>9 DEF StoreInv
    <3>2. ledger'[a][stored.revision].row = stored /\ stored.revision = Len(ledger'[a])
      BY <2>2, <2>3, <2>4, Appended
    <3>3. LedgerAgreesWithRow'
      BY <2>6, <2>7, <3>1, <3>2 DEF Aligned, LedgerAgreesWithRow, Exists
    <3>4. NothingStagedBehind'
      BY <2>5, <2>6, <2>7, <3>1, <3>2 DEF Aligned, NothingStagedBehind, Exists, LastRevision
    <3> QED
      BY <3>3, <3>4 DEF Aligned
  <2> QED
    BY <2>8, <2>9
<1> QED
  BY <1>1, <1>2

LEMMA RestoreKeepsAligned ==
  ASSUME StoreInv, Aligned, NEW a \in Atoms, Exists(a), Restore(a)
  PROVE  Aligned'
<1> DEFINE shadowed == {d \in Descendants(a) : atoms[d].status = "active"}
           restored == {d \in {a} : atoms[a].status # "active" \/ ~ atoms[a].locked}
           changed == shadowed \cup restored
           entry(d) == [row |-> RestoredRow(a, d), delta |-> "put"]
<1>1. /\ \A d \in changed : LastRevision(d) < MaxRev
      /\ atoms' = [d \in Atoms |-> IF d \in changed THEN RestoredRow(a, d) ELSE atoms[d]]
      /\ ledger' = [d \in Atoms |-> IF d \in changed THEN Append(ledger[d], entry(d)) ELSE ledger[d]]
      /\ outstanding' = outstanding \cup {LocalEvent(RestoredRow(a, d), d) : d \in changed}
      /\ UNCHANGED edges
  BY DEF Restore
<1>2. \A d \in changed : d \in Atoms /\ Exists(d)
  BY DEF Descendants
<1> HIDE DEF changed
<1>3. Links(outstanding) \subseteq Links(outstanding')
  BY <1>1 DEF Links
<1>4. ASSUME NEW d \in changed
      PROVE  /\ atoms'[d].revision = Len(ledger'[d])
             /\ ledger'[d][atoms'[d].revision].row = atoms'[d]
  <2>1. RestoredRow(a, d).revision = LastRevision(d) + 1
    BY <1>1, <1>2, RestoredRows
  <2>2. atoms'[d] = RestoredRow(a, d) /\ ledger'[d] = Append(ledger[d], entry(d))
    BY <1>1, <1>2
  <2>3. entry(d).row = RestoredRow(a, d)
    OBVIOUS
  <2> HIDE DEF entry
  <2> QED
    BY <1>2, <2>1, <2>2, <2>3, Appended
<1>5. ASSUME NEW d \in Atoms, d \notin changed
      PROVE  atoms'[d] = atoms[d] /\ ledger'[d] = ledger[d]
  BY <1>1, <1>5
<1>6. LedgerAgreesWithRow'
  BY <1>1, <1>4, <1>5 DEF Aligned, LedgerAgreesWithRow, Exists, Untouched
<1>7. NothingStagedBehind'
  BY <1>1, <1>3, <1>4, <1>5 DEF Aligned, NothingStagedBehind, Exists, LastRevision, Untouched
<1> QED
  BY <1>6, <1>7 DEF Aligned

LEMMA ExposeKeepsAligned ==
  ASSUME StoreInv, Aligned, NEW a \in Atoms, Expose(a)
  PROVE  Aligned'
<1>1. /\ atoms' = [atoms EXCEPT ![a] = [@ EXCEPT !.visibility = "active"]]
      /\ UNCHANGED <<ledger, edges, outstanding>> /\ Exists(a)
  BY DEF Expose
<1>2. \A d \in Atoms : Exists(d)' => /\ Exists(d) /\ atoms'[d].revision = atoms[d].revision
                                     /\ atoms'[d].body = atoms[d].body
                                     /\ atoms'[d].status = atoms[d].status
  BY <1>1 DEF StoreInv, Exists, Row
<1>3. LedgerAgreesWithRow'
  BY <1>1, <1>2 DEF Aligned, LedgerAgreesWithRow, Untouched
<1>4. NothingStagedBehind'
  BY <1>1, <1>2 DEF Aligned, NothingStagedBehind, LastRevision, Untouched
<1> QED
  BY <1>3, <1>4 DEF Aligned

\* The row that a settled atom gets is the newest revision of its ledger.
LEMMA PublishedIsNewest ==
  ASSUME StoreInv, Aligned, NEW a \in Atoms, NEW links, Exists(a), Untouched(a)
  PROVE  LET row == PublishedRow(a, links)
         IN /\ row.revision = LastRevision(a)
            /\ row.body = ledger[a][LastRevision(a)].row.body
            /\ row.status = ledger[a][LastRevision(a)].row.status
<1>1. /\ atoms[a] \in Row /\ atoms[a].revision \in 1..LastRevision(a)
      /\ LastRevision(a) \in Nat /\ LastRevision(a) \in 1..LastRevision(a)
  BY RowRevision, Lengths
<1>2. /\ PublishedRow(a, links).revision = CurrentRevision(a).revision
      /\ PublishedRow(a, links).body = CurrentRevision(a).body
      /\ PublishedRow(a, links).status = CurrentRevision(a).status
  BY CurrentRow DEF PublishedRow, Row
<1>3. CASE LastRevision(a) > atoms[a].revision
  <2>1. /\ ledger[a][LastRevision(a)].row \in Row
        /\ ledger[a][LastRevision(a)].row.revision = LastRevision(a)
    BY <1>1, LedgerElement
  <2>2. /\ AppliedRevision(a).revision = LastRevision(a)
        /\ AppliedRevision(a).body = ledger[a][LastRevision(a)].row.body
        /\ AppliedRevision(a).status = ledger[a][LastRevision(a)].row.status
    BY <1>1, <2>1 DEF AppliedRevision, Row
  <2> QED
    BY <1>2, <1>3, <2>2 DEF CurrentRevision
<1>4. CASE ~ (LastRevision(a) > atoms[a].revision)
  <2>1. atoms[a].revision = LastRevision(a) /\ CurrentRevision(a) = atoms[a]
    BY <1>1, <1>4 DEF CurrentRevision
  <2> QED
    BY <1>2, <2>1 DEF Aligned, LedgerAgreesWithRow
<1> QED
  BY <1>3, <1>4

LEMMA MarkKeepsAligned ==
  ASSUME StoreInv, Aligned, NEW B \in SUBSET Event, MarkBatch(B)
  PROVE  Aligned'
<1> DEFINE links == Links(B)
           left == outstanding \ B
           settled == {a \in Atoms : /\ \E e \in links : e.atom = a
                                     /\ \A e \in Links(left) : e.atom # a
                                     /\ Exists(a)}
<1>1. /\ outstanding' = left
      /\ atoms' = [a \in Atoms |-> IF a \in settled THEN PublishedRow(a, links) ELSE atoms[a]]
      /\ UNCHANGED <<ledger, edges>>
  BY DEF MarkBatch
<1>2. \A a \in settled : Exists(a) /\ a \in Atoms
  OBVIOUS
<1>3. ASSUME NEW a \in Atoms, a \notin settled, Exists(a), \A e \in Links(left) : e.atom # a
      PROVE  \A e \in Links(outstanding) : e.atom # a
  BY <1>3 DEF Links
<1> HIDE DEF settled, links, left
<1>4. \A a \in settled : Untouched(a) =>
        /\ atoms'[a].revision = LastRevision(a)
        /\ atoms'[a].body = ledger[a][LastRevision(a)].row.body
        /\ atoms'[a].status = ledger[a][LastRevision(a)].row.status
  BY <1>1, <1>2, PublishedIsNewest
<1>5. \A a \in Atoms \ settled : atoms'[a] = atoms[a]
  BY <1>1
<1>6. LedgerAgreesWithRow'
  BY <1>1, <1>4, <1>5 DEF Aligned, LedgerAgreesWithRow, Exists, Untouched
<1>7. NothingStagedBehind'
  BY <1>1, <1>3, <1>4, <1>5 DEF Aligned, NothingStagedBehind, Exists, LastRevision, Untouched
<1> QED
  BY <1>6, <1>7 DEF Aligned

LEMMA InitAligned == Init => Aligned
  BY DEF Init, StoreInit, Aligned, LedgerAgreesWithRow, NothingStagedBehind, Exists

LEMMA NextAligned ==
  ASSUME IInv, Aligned, [Next]_vars
  PROVE  Aligned'
<1>0. StoreInv /\ ControlInv
  BY DEF IInv
<1>1. ASSUME UNCHANGED <<atoms, ledger, edges, outstanding>> PROVE Aligned'
  BY <1>1, StillAligned
<1>2. ASSUME NEW c \in Clients, WritePut(c) PROVE Aligned'
  <2>1. PICK i : i = intention[c]
    OBVIOUS
  <2>2. i # None /\ i.op = "put" /\ PutAtom(i.atom, i.item, i.evidenced)
    BY <1>2, <2>1 DEF WritePut
  <2>3. i.atom \in Atoms /\ i.item \in Row /\ i.evidenced \in BOOLEAN
    BY <2>1, <2>2 DEF IInv, ClientInv, Ready, PutReady, PutIntention, SupersedeReady,
       SupersedeIntention
  <2> QED
    BY <1>0, <2>2, <2>3, PutKeepsAligned
<1>3. ASSUME NEW c \in Clients, WriteSupersede(c) PROVE Aligned'
  <2>1. PICK i : Supersede(i.old, i.new, i.oldRead, i.newRead)
    BY <1>3 DEF WriteSupersede
  <2> QED
    BY <1>0, <2>1, SupersedeTouches, StillAligned
<1>4. ASSUME NEW c \in Clients, NEW a \in Atoms, RestoreAtom(c, a) PROVE Aligned'
  BY <1>0, <1>4, RestoreKeepsAligned DEF RestoreAtom
<1>5. ASSUME NEW c \in Clients, NEW a \in Atoms, ExposeAtom(c, a) PROVE Aligned'
  BY <1>0, <1>5, ExposeKeepsAligned DEF ExposeAtom
<1>6. ASSUME NEW c \in Clients,
             \/ Abandon(c)
             \/ \E a \in Atoms :
                  \/ \E b \in Bodies, v \in {"building", "ready"} : Import(c, a, b, v)
                  \/ \E b \in Bodies : Merge(c, a, b) \/ Update(c, a, b) \/ Enrich(c, a, b)
                  \/ Lock(c, a) \/ Delete(c, a)
                  \/ \E n \in 1..MaxRev : Rollback(c, a, n)
                  \/ \E new \in Atoms : ReadToSupersede(c, a, new)
      PROVE  Aligned'
  BY <1>1, <1>6 DEF Abandon, Import, Merge, Update, Enrich, Lock, Delete, Rollback, ReadToSupersede,
     IntendPut, Intend, storeVars
<1>7. ASSUME NEW p \in Projectors, Projector(p) PROVE Aligned'
  <2>1. batch[p] \in SUBSET Event /\ batch[p] \ Links(batch[p]) \in SUBSET Event
    BY <1>0 DEF ControlInv
  <2>2. CASE EvidenceFails(p) \/ RecordReceipts(p)
    BY <1>0, <2>1, <2>2, MarkKeepsAligned DEF EvidenceFails, RecordReceipts
  <2>3. CASE RecordFailure(p)
    BY <2>3, StillAligned DEF RecordFailure, MarkFailedBatch, Links
  <2>4. CASE ReadOutbox(p) \/ CommitEvidence(p) \/ ProjectorDies(p)
    BY <1>1, <2>4 DEF ReadOutbox, CommitEvidence, ProjectorDies, storeVars, memoryVars
  <2> QED
    BY <1>7, <2>2, <2>3, <2>4 DEF Projector
<1>8. CASE UNCHANGED vars
  BY <1>1, <1>8 DEF vars, storeVars
<1>9. ASSUME NEW c \in Clients, Client(c) PROVE Aligned'
  BY <1>2, <1>3, <1>4, <1>5, <1>6, <1>9 DEF Client
<1> QED
  BY <1>7, <1>8, <1>9 DEF Next

LEMMA SpecAligned == Spec => []Aligned
<1>1. IInv /\ Aligned /\ [Next]_vars => Aligned'
  BY NextAligned
<1> QED
  BY <1>1, InitAligned, SpecIInv, PTL DEF Spec

\* replay_revision serves the committed revision from the ledger: it is the content
\* of the row, whatever stale rows are written and whichever revision is promoted,
\* of every atom that no supersession has written.
THEOREM LedgerHoldsTheRow == Spec => []LedgerAgreesWithRow
<1>1. Aligned => LedgerAgreesWithRow
  BY DEF Aligned
<1> QED
  BY <1>1, SpecAligned, PTL

\* _publish_evidenced_atoms, with any number of projectors on overlapping batches:
\* once no evidence of an atom is outstanding its newest revision is the row, unless
\* a supersession has written the atom.
THEOREM NewestIsPromoted == Spec => []NothingStagedBehind
<1>1. Aligned => NothingStagedBehind
  BY DEF Aligned
<1> QED
  BY <1>1, SpecAligned, PTL
-----------------------------------------------------------------------------
(* The content that is shown.  Content is written with evidence, which is  *)
(* queued in the same transaction, or it is the content of a row that was  *)
(* read: so it is queued or durable (Queued), and what is shown, or was    *)
(* shown when it was read, is durable (Evidenced).                         *)

Evidenced(a, b) == \E e \in evidence : e.atom = a /\ e.body = b
Queued(a, b) == \E e \in Links(outstanding) \cup evidence : e.atom = a /\ e.body = b

\* What a client is about to put: new content with its evidence in an active item,
\* or content that it has read.
PutBacked(i) ==
    \/ i.evidenced /\ i.item.status = "active"
    \/ /\ ~ i.evidenced /\ Queued(i.atom, i.item.body)
       /\ i.item.visibility \in Shown => Evidenced(i.atom, i.item.body)

LedgerBacked == \A a \in Atoms : \A n \in 1..LastRevision(a) : Queued(a, ledger[a][n].row.body)
RowsBacked == \A a \in Atoms : Exists(a) => Queued(a, atoms[a].body)
IntentionsBacked == \A c \in Clients : intention[c] # None => PutBacked(intention[c])

BodyInv == ShownBodyIsEvidenced /\ LedgerBacked /\ RowsBacked /\ IntentionsBacked

\* No step takes evidence back, or an event from the outbox whose evidence is not
\* durable.
Backs == /\ evidence \subseteq evidence'
         /\ Links(outstanding) \cup evidence \subseteq Links(outstanding') \cup evidence'

OnlyImportsAndMerges == Workload \cap {"update", "enrich", "rollback", "supersede"} = {}

LEMMA BackingStays ==
  ASSUME Backs, NEW a, NEW b
  PROVE  (Evidenced(a, b) => Evidenced(a, b)') /\ (Queued(a, b) => Queued(a, b)')
  BY DEF Backs, Evidenced, Queued

LEMMA IntentionsStayBacked ==
  ASSUME Backs, IntentionsBacked, UNCHANGED intention
  PROVE  IntentionsBacked'
<1>1. ASSUME NEW i, PutBacked(i) PROVE PutBacked(i)'
  BY <1>1, BackingStays DEF PutBacked
<1> QED
  BY <1>1 DEF IntentionsBacked

LEMMA StillBacked ==
  ASSUME BodyInv, Backs, UNCHANGED <<atoms, ledger>>
  PROVE  ShownBodyIsEvidenced' /\ LedgerBacked' /\ RowsBacked'
<1>1. ShownBodyIsEvidenced'
  BY DEF BodyInv, Backs, ShownBodyIsEvidenced, IsShown, Exists
<1>2. LedgerBacked'
  BY BackingStays DEF BodyInv, LedgerBacked, LastRevision
<1>3. RowsBacked'
  BY BackingStays DEF BodyInv, RowsBacked, Exists
<1> QED
  BY <1>1, <1>2, <1>3

LEMMA PutKeepsBacked ==
  ASSUME StoreInv, BodyInv, NEW a \in Atoms, NEW item \in Row, NEW evidenced \in BOOLEAN,
         PutAtom(a, item, evidenced), UNCHANGED evidence,
         \/ evidenced /\ item.status = "active"
         \/ /\ ~ evidenced /\ Queued(a, item.body)
            /\ item.visibility \in Shown => Evidenced(a, item.body)
  PROVE  ShownBodyIsEvidenced' /\ LedgerBacked' /\ RowsBacked' /\ Backs
<1>1. CASE SamePayload(a, item, evidenced)
  <2>1. Backs /\ UNCHANGED <<atoms, ledger>>
    BY <1>1 DEF PutAtom, memoryVars, Backs
  <2> QED
    BY <2>1, StillBacked
<1>2. CASE ~ SamePayload(a, item, evidenced)
  <2> DEFINE stored == Stored(a, item, evidenced)
             staged == Staged(a, evidenced)
             entry == [row |-> stored, delta |-> IF staged THEN "staged" ELSE "put"]
  <2>1. /\ LastRevision(a) < MaxRev
        /\ atoms' = IF staged THEN atoms ELSE [atoms EXCEPT ![a] = stored]
        /\ ledger' = [ledger EXCEPT ![a] = Append(@, entry)]
        /\ outstanding' = outstanding \cup (IF evidenced THEN {LinkEvent(a, item, evidenced)} ELSE {})
    BY <1>2 DEF PutAtom
  <2>2. stored \in Row /\ stored.body = item.body /\ entry.row = stored
    <3>1. stored \in Row
      BY <2>1, StoredRow
    <3>2. stored.body = item.body
      BY DEF Stored, Row
    <3>3. entry.row = stored
      OBVIOUS
    <3> QED
      BY <3>1, <3>2, <3>3
  <2>3. Backs
    BY <2>1 DEF Backs, Links
  <2>4. Queued(a, item.body)'
    <3>1. CASE evidenced
      <4>1. LinkEvent(a, item, evidenced) \in outstanding'
        BY <2>1, <3>1
      <4>2. /\ LinkEvent(a, item, evidenced).kind = "link"
            /\ LinkEvent(a, item, evidenced).atom = a
            /\ LinkEvent(a, item, evidenced).body = item.body
        BY DEF LinkEvent
      <4> QED
        BY <4>1, <4>2 DEF Queued, Links
    <3>2. CASE ~ evidenced
      BY <2>3, <3>2, BackingStays
    <3> QED
      BY <3>1, <3>2
  <2>5. ~ staged /\ stored.visibility \in Shown => Evidenced(a, item.body)
    <3> SUFFICES ASSUME ~ staged, stored.visibility \in Shown PROVE Evidenced(a, item.body)
      OBVIOUS
    <3>1. Publication(a, item, evidenced) = ""
      BY <2>1, ShownVisible DEF Stored, Row
    <3>2. stored.visibility = item.visibility
      BY <3>1 DEF Stored, Row
    <3>3. ~ (evidenced /\ item.visibility \in Shown /\ item.status = "active")
      BY <3>1 DEF Publication, Shown
    <3> QED
      BY <3>2, <3>3
  <2> HIDE DEF stored, entry
  <2>6. ledger'[a] = Append(ledger[a], entry)
    BY <2>1 DEF StoreInv
  <2>7. ASSUME NEW d \in Atoms, d # a
        PROVE  atoms'[d] = atoms[d] /\ ledger'[d] = ledger[d]
    BY <2>1, <2>7 DEF StoreInv
  <2>8. atoms'[a] = IF staged THEN atoms[a] ELSE stored
    BY <2>1 DEF StoreInv
  <2>9. ShownBodyIsEvidenced'
    <3> SUFFICES ASSUME NEW d \in Atoms, IsShown(d)' PROVE Evidenced(d, atoms'[d].body)
      BY DEF ShownBodyIsEvidenced, Evidenced
    <3>1. CASE d # a \/ staged
      BY <2>7, <2>8, <3>1 DEF BodyInv, ShownBodyIsEvidenced, Evidenced, IsShown, Exists
    <3>2. CASE d = a /\ ~ staged
      BY <2>2, <2>5, <2>8, <3>2 DEF IsShown
    <3> QED
      BY <3>1, <3>2
  <2>10. RowsBacked'
    <3> SUFFICES ASSUME NEW d \in Atoms, Exists(d)' PROVE Queued(d, atoms[d].body)'
      BY DEF RowsBacked
    <3>1. CASE d # a \/ staged
      <4>1. Queued(d, atoms[d].body) /\ atoms'[d] = atoms[d]
        BY <2>7, <2>8, <3>1 DEF BodyInv, RowsBacked, Exists
      <4> QED
        BY <2>3, <4>1, BackingStays
    <3>2. CASE d = a /\ ~ staged
      BY <2>2, <2>4, <2>8, <3>2
    <3> QED
      BY <3>1, <3>2
  <2>11. LedgerBacked'
    <3> SUFFICES ASSUME NEW d \in Atoms, NEW n \in 1..LastRevision(d)'
                 PROVE  Queued(d, ledger[d][n].row.body)'
      BY DEF LedgerBacked
    <3>1. CASE d # a
      <4>1. ledger'[d] = ledger[d] /\ n \in 1..LastRevision(d)
        BY <2>7, <3>1 DEF LastRevision
      <4>2. Queued(d, ledger[d][n].row.body)
        BY <4>1 DEF BodyInv, LedgerBacked
      <4> QED
        BY <2>3, <4>1, <4>2, BackingStays
    <3>2. CASE d = a
      <4>1. /\ Len(Append(ledger[a], entry)) = LastRevision(a) + 1
            /\ Append(ledger[a], entry)[LastRevision(a) + 1] = entry
            /\ \A m \in 1..LastRevision(a) : Append(ledger[a], entry)[m] = ledger[a][m]
        BY Appended
      <4>2. CASE n \in 1..LastRevision(a)
        <5>1. ledger'[a][n] = ledger[a][n] /\ Queued(a, ledger[a][n].row.body)
          BY <2>6, <4>1, <4>2 DEF BodyInv, LedgerBacked
        <5> QED
          BY <2>3, <3>2, <5>1, BackingStays
      <4>3. CASE n \notin 1..LastRevision(a)
        <5>1. n = LastRevision(a) + 1
          BY <2>6, <3>2, <4>1, <4>3, Lengths DEF LastRevision
        <5>2. ledger'[a][n] = entry
          BY <2>6, <4>1, <5>1
        <5> QED
          BY <2>2, <2>4, <3>2, <5>2
      <4> QED
        BY <4>2, <4>3
    <3> QED
      BY <3>1, <3>2
  <2> QED
    BY <2>3, <2>9, <2>10, <2>11
<1> QED
  BY <1>1, <1>2

LEMMA RestoreKeepsBacked ==
  ASSUME StoreInv, BodyInv, NEW a \in Atoms, Exists(a), Restore(a), UNCHANGED evidence
  PROVE  ShownBodyIsEvidenced' /\ LedgerBacked' /\ RowsBacked' /\ Backs
<1> DEFINE shadowed == {d \in Descendants(a) : atoms[d].status = "active"}
           restored == {d \in {a} : atoms[a].status # "active" \/ ~ atoms[a].locked}
           changed == shadowed \cup restored
           entry(d) == [row |-> RestoredRow(a, d), delta |-> "put"]
<1>1. /\ \A d \in changed : LastRevision(d) < MaxRev
      /\ atoms' = [d \in Atoms |-> IF d \in changed THEN RestoredRow(a, d) ELSE atoms[d]]
      /\ ledger' = [d \in Atoms |-> IF d \in changed THEN Append(ledger[d], entry(d)) ELSE ledger[d]]
      /\ outstanding' = outstanding \cup {LocalEvent(RestoredRow(a, d), d) : d \in changed}
  BY DEF Restore
<1>2. \A d \in changed : d \in Atoms /\ Exists(d)
  BY DEF Descendants
<1>3. \A d \in changed : entry(d).row = RestoredRow(a, d)
  OBVIOUS
<1> HIDE DEF changed, entry
<1>4. Backs
  BY <1>1 DEF Backs, Links
<1>5. \A d \in changed : /\ RestoredRow(a, d).body = atoms[d].body
                         /\ RestoredRow(a, d).visibility = atoms[d].visibility
  BY <1>2 DEF StoreInv, Exists, RestoredRow, Row
<1>6. \A d \in Atoms : Exists(d)' => /\ Exists(d) /\ atoms'[d].body = atoms[d].body
                                     /\ atoms'[d].visibility = atoms[d].visibility
  BY <1>1, <1>2, <1>5 DEF Exists
<1>7. ShownBodyIsEvidenced'
  BY <1>6 DEF BodyInv, ShownBodyIsEvidenced, IsShown
<1>8. RowsBacked'
  <2> SUFFICES ASSUME NEW d \in Atoms, Exists(d)' PROVE Queued(d, atoms[d].body)'
    BY DEF RowsBacked
  <2>1. Queued(d, atoms[d].body) /\ atoms'[d].body = atoms[d].body
    BY <1>6 DEF BodyInv, RowsBacked
  <2> QED
    BY <1>4, <2>1, BackingStays
<1>9. LedgerBacked'
  <2> SUFFICES ASSUME NEW d \in Atoms, NEW n \in 1..LastRevision(d)'
               PROVE  Queued(d, ledger[d][n].row.body)'
    BY DEF LedgerBacked
  <2>1. ASSUME n \in 1..LastRevision(d), ledger'[d][n] = ledger[d][n]
        PROVE  Queued(d, ledger[d][n].row.body)'
    <3>1. Queued(d, ledger[d][n].row.body)
      BY <2>1 DEF BodyInv, LedgerBacked
    <3> QED
      BY <1>4, <2>1, <3>1, BackingStays
  <2>2. CASE d \notin changed
    <3>1. ledger'[d] = ledger[d]
      BY <1>1, <2>2
    <3> QED
      BY <2>1, <3>1 DEF LastRevision
  <2>3. CASE d \in changed
    <3>1. ledger'[d] = Append(ledger[d], entry(d))
      BY <1>1, <2>3
    <3>2. /\ Len(Append(ledger[d], entry(d))) = LastRevision(d) + 1
          /\ Append(ledger[d], entry(d))[LastRevision(d) + 1] = entry(d)
          /\ \A m \in 1..LastRevision(d) : Append(ledger[d], entry(d))[m] = ledger[d][m]
      BY Appended
    <3>3. CASE n \in 1..LastRevision(d)
      BY <2>1, <3>1, <3>2, <3>3
    <3>4. CASE n \notin 1..LastRevision(d)
      <4>1. n = LastRevision(d) + 1
        BY <3>1, <3>2, <3>4, Lengths DEF LastRevision
      <4>2. ledger'[d][n].row.body = atoms[d].body
        BY <1>3, <1>5, <2>3, <3>1, <3>2, <4>1
      <4>3. Queued(d, atoms[d].body)
        BY <1>2, <2>3 DEF BodyInv, RowsBacked
      <4> QED
        BY <1>4, <4>2, <4>3, BackingStays
    <3> QED
      BY <3>3, <3>4
  <2> QED
    BY <2>2, <2>3
<1> QED
  BY <1>4, <1>7, <1>8, <1>9

\* set_visibility asks for an empty outbox: then all that was queued is durable.
LEMMA ExposeKeepsBacked ==
  ASSUME StoreInv, BodyInv, NEW a \in Atoms, Expose(a), UNCHANGED evidence
  PROVE  ShownBodyIsEvidenced' /\ LedgerBacked' /\ RowsBacked' /\ Backs
<1>1. /\ atoms' = [atoms EXCEPT ![a] = [@ EXCEPT !.visibility = "active"]]
      /\ UNCHANGED <<ledger, outstanding>> /\ Exists(a) /\ outstanding = {}
  BY DEF Expose
<1>2. \A d \in Atoms : Exists(d)' => Exists(d) /\ atoms'[d].body = atoms[d].body
  BY <1>1 DEF StoreInv, Exists, Row
<1>3. Backs
  BY <1>1 DEF Backs
<1>4. ShownBodyIsEvidenced'
  <2> SUFFICES ASSUME NEW d \in Atoms, Exists(d)' PROVE Evidenced(d, atoms'[d].body)
    BY DEF ShownBodyIsEvidenced, Evidenced, IsShown
  <2>1. Queued(d, atoms'[d].body)
    BY <1>2 DEF BodyInv, RowsBacked
  <2>2. Links(outstanding) = {}
    BY <1>1 DEF Links
  <2> QED
    BY <2>1, <2>2 DEF Queued, Evidenced
<1>5. RowsBacked'
  BY <1>2, <1>3, BackingStays DEF BodyInv, RowsBacked
<1>6. LedgerBacked'
  BY <1>1, <1>3, BackingStays DEF BodyInv, LedgerBacked, LastRevision
<1> QED
  BY <1>3, <1>4, <1>5, <1>6

\* The batch is durable; where it settles an atom, all of its content is.
LEMMA MarkKeepsBacked ==
  ASSUME StoreInv, BodyInv, Aligned, edges = {}, NEW B \in SUBSET Event, Links(B) \subseteq evidence,
         MarkBatch(B), UNCHANGED evidence
  PROVE  ShownBodyIsEvidenced' /\ LedgerBacked' /\ RowsBacked' /\ Backs
<1> DEFINE links == Links(B)
           left == outstanding \ B
           settled == {a \in Atoms : /\ \E e \in links : e.atom = a
                                     /\ \A e \in Links(left) : e.atom # a
                                     /\ Exists(a)}
<1>1. /\ outstanding' = left
      /\ atoms' = [a \in Atoms |-> IF a \in settled THEN PublishedRow(a, links) ELSE atoms[a]]
      /\ UNCHANGED ledger
  BY DEF MarkBatch
<1>2. \A a \in settled : /\ a \in Atoms /\ Exists(a)
                         /\ \A e \in Links(left) : e.atom # a
  OBVIOUS
<1>3. Links(outstanding) \subseteq Links(left) \cup evidence
  BY DEF Links
<1> HIDE DEF settled, links, left
<1>4. Backs
  BY <1>1, <1>3 DEF Backs
<1>5. ASSUME NEW a \in settled
      PROVE  /\ Queued(a, atoms'[a].body)
             /\ Evidenced(a, atoms'[a].body)
  <2>1. atoms'[a].body = ledger[a][LastRevision(a)].row.body
    BY <1>1, <1>2, PublishedIsNewest DEF Untouched
  <2>2. LastRevision(a) \in 1..LastRevision(a)
    BY <1>2, RowRevision, Lengths
  <2>3. Queued(a, atoms'[a].body)
    BY <1>2, <2>1, <2>2 DEF BodyInv, LedgerBacked
  <2>4. Evidenced(a, atoms'[a].body)
    BY <1>2, <1>3, <2>3 DEF Queued, Evidenced
  <2> QED
    BY <2>3, <2>4
<1>6. \A a \in Atoms \ settled : atoms'[a] = atoms[a]
  BY <1>1
<1>7. ShownBodyIsEvidenced'
  BY <1>5, <1>6 DEF BodyInv, ShownBodyIsEvidenced, Evidenced, IsShown, Exists
<1>8. RowsBacked'
  <2> SUFFICES ASSUME NEW a \in Atoms, Exists(a)' PROVE Queued(a, atoms[a].body)'
    BY DEF RowsBacked
  <2>1. Queued(a, atoms'[a].body)
    BY <1>5, <1>6 DEF BodyInv, RowsBacked, Exists
  <2> QED
    BY <1>4, <2>1, BackingStays
<1>9. LedgerBacked'
  BY <1>1, <1>4, BackingStays DEF BodyInv, LedgerBacked, LastRevision
<1> QED
  BY <1>4, <1>7, <1>8, <1>9

LEMMA InitBody == Init => BodyInv
  BY DEF Init, StoreInit, BodyInv, ShownBodyIsEvidenced, LedgerBacked, RowsBacked, IntentionsBacked,
     Exists, IsShown, LastRevision

\* What a client notes, without edits that bring content of their own and no evidence.
LEMMA NotedIsBacked ==
  ASSUME StoreInv, BodyInv, OnlyImportsAndMerges, NEW c \in Clients, DOMAIN intention = Clients,
         NEW a \in Atoms,
         \/ \E b \in Bodies, v \in {"building", "ready"} : Import(c, a, b, v)
         \/ \E b \in Bodies : Merge(c, a, b) \/ Update(c, a, b) \/ Enrich(c, a, b)
         \/ Lock(c, a) \/ Delete(c, a)
         \/ \E n \in 1..MaxRev : Rollback(c, a, n)
         \/ \E new \in Atoms : ReadToSupersede(c, a, new)
  PROVE  BodyInv'
<1>1. PICK i : Intend(c, i) /\ PutBacked(i)
  <2>1. CASE \E b \in Bodies, v \in {"building", "ready"} : Import(c, a, b, v)
    <3>1. PICK b \in Bodies, v \in {"building", "ready"} : Import(c, a, b, v)
      BY <2>1
    <3>2. FreshItem(b, v).status = "active"
      BY DEF FreshItem
    <3> QED
      BY <3>1, <3>2 DEF Import, IntendPut, PutBacked
  <2>2. CASE \E b \in Bodies : Merge(c, a, b)
    <3>1. PICK b \in Bodies : Merge(c, a, b)
      BY <2>2
    <3>2. atoms[a] \in Row
      BY <3>1 DEF Merge, StoreInv, Exists
    <3>3. PICK item : item = [atoms[a] EXCEPT !.body = b]
      OBVIOUS
    <3>4. item.status = "active"
      BY <3>1, <3>2, <3>3 DEF Merge, Row
    <3>5. PICK i : i = [op |-> "put", atom |-> a, item |-> item, evidenced |-> TRUE]
      OBVIOUS
    <3>6. Intend(c, i)
      BY <3>1, <3>3, <3>5 DEF Merge, IntendPut
    <3>7. PutBacked(i)
      BY <3>4, <3>5 DEF PutBacked
    <3> QED
      BY <3>6, <3>7
  <2>3. CASE Lock(c, a) \/ Delete(c, a)
    <3>1. PICK item : /\ item \in {[atoms[a] EXCEPT !.locked = TRUE],
                                   [atoms[a] EXCEPT !.status = "deleted"]}
                      /\ Exists(a) /\ IntendPut(c, a, item, FALSE)
      BY <2>3 DEF Lock, Delete
    <3>2. item.body = atoms[a].body /\ item.visibility = atoms[a].visibility
      BY <3>1 DEF StoreInv, Exists, Row
    <3>3. Queued(a, item.body) /\ (item.visibility \in Shown => Evidenced(a, item.body))
      BY <3>1, <3>2 DEF BodyInv, RowsBacked, ShownBodyIsEvidenced, Evidenced, IsShown
    <3> QED
      BY <3>1, <3>3 DEF IntendPut, PutBacked
  <2> QED
    BY <2>1, <2>2, <2>3 DEF OnlyImportsAndMerges, Update, Enrich, Rollback, ReadToSupersede
<1>2. /\ intention' = [intention EXCEPT ![c] = i]
      /\ UNCHANGED <<storeVars, batch, projector>>
  BY <1>1 DEF Intend
<1>3. Backs /\ UNCHANGED <<atoms, ledger>>
  BY <1>2 DEF Backs, storeVars
<1>4. \A j : PutBacked(j) => PutBacked(j)'
  BY <1>3, BackingStays DEF PutBacked
<1>5. IntentionsBacked'
  BY <1>1, <1>2, <1>4 DEF BodyInv, IntentionsBacked
<1> QED
  BY <1>3, <1>5, StillBacked DEF BodyInv

\* Without supersessions no atom is ever named by an edge.
NothingSuperseded == edges = {}

LEMMA NextUnsuperseded ==
  ASSUME IInv, NothingSuperseded, [Next]_vars, OnlyImportsAndMerges
  PROVE  NothingSuperseded'
<1>1. ASSUME NEW c \in Clients, WriteSupersede(c) PROVE FALSE
  BY <1>1 DEF OnlyImportsAndMerges, WriteSupersede, IInv, ClientInv, Ready, PutReady, PutIntention,
     SupersedeReady
<1>2. ASSUME NEW c \in Clients, WritePut(c) PROVE UNCHANGED edges
  BY <1>2 DEF WritePut, PutAtom, memoryVars
<1>3. ASSUME NEW c \in Clients, NEW a \in Atoms, RestoreAtom(c, a) \/ ExposeAtom(c, a)
      PROVE  UNCHANGED edges
  BY <1>3 DEF RestoreAtom, Restore, ExposeAtom, Expose
<1>4. ASSUME NEW c \in Clients, Client(c) PROVE UNCHANGED edges
  BY <1>1, <1>2, <1>3, <1>4 DEF Client, Abandon, Import, Merge, Update, Enrich, Lock, Delete, Rollback,
     ReadToSupersede, IntendPut, Intend, storeVars
<1>5. ASSUME NEW p \in Projectors, Projector(p) PROVE UNCHANGED edges
  BY <1>5 DEF Projector, ReadOutbox, CommitEvidence, EvidenceFails, RecordFailure, RecordReceipts,
     ProjectorDies, MarkBatch, MarkFailedBatch, memoryVars, storeVars
<1> QED
  BY <1>4, <1>5 DEF Next, vars, storeVars, NothingSuperseded

LEMMA NextBody ==
  ASSUME IInv, Aligned, BodyInv, NothingSuperseded, [Next]_vars, OnlyImportsAndMerges
  PROVE  BodyInv'
<1>0. StoreInv /\ ControlInv /\ ClientInv /\ ProjectorInv /\ IntentionsBacked
  BY DEF IInv, BodyInv
<1>1. ASSUME UNCHANGED <<atoms, ledger>>, Backs, UNCHANGED intention PROVE BodyInv'
  BY <1>0, <1>1, StillBacked, IntentionsStayBacked DEF BodyInv
<1>2. ASSUME NEW c \in Clients, Backs, intention' = [intention EXCEPT ![c] = None]
      PROVE  IntentionsBacked'
  <2>1. \A j : PutBacked(j) => PutBacked(j)'
    BY <1>2, BackingStays DEF PutBacked
  <2> QED
    BY <1>0, <1>2, <2>1 DEF ControlInv, IntentionsBacked
<1>3. ASSUME NEW c \in Clients, WritePut(c) PROVE BodyInv'
  <2>1. PICK i : i = intention[c]
    OBVIOUS
  <2>2. /\ i # None /\ i.op = "put" /\ PutAtom(i.atom, i.item, i.evidenced)
        /\ intention' = [intention EXCEPT ![c] = None] /\ UNCHANGED evidence
    BY <1>3, <2>1 DEF WritePut
  <2>3. i.atom \in Atoms /\ i.item \in Row /\ i.evidenced \in BOOLEAN
    BY <1>0, <2>1, <2>2 DEF ClientInv, Ready, PutReady, PutIntention, SupersedeReady,
       SupersedeIntention
  <2>4. PutBacked(i)
    BY <1>0, <2>1, <2>2 DEF IntentionsBacked
  <2>5. ShownBodyIsEvidenced' /\ LedgerBacked' /\ RowsBacked' /\ Backs
    BY <1>0, <2>2, <2>3, <2>4, PutKeepsBacked DEF PutBacked
  <2> QED
    BY <1>2, <2>2, <2>5 DEF BodyInv
<1>4. ASSUME NEW c \in Clients, WriteSupersede(c) PROVE FALSE
  BY <1>4 DEF OnlyImportsAndMerges, WriteSupersede, IInv, ClientInv, Ready, PutReady, PutIntention,
     SupersedeReady
<1>5. ASSUME NEW c \in Clients, NEW a \in Atoms, RestoreAtom(c, a) PROVE BodyInv'
  <2>1. ShownBodyIsEvidenced' /\ LedgerBacked' /\ RowsBacked' /\ Backs
    BY <1>0, <1>5, RestoreKeepsBacked DEF RestoreAtom
  <2> QED
    BY <1>0, <1>5, <2>1, IntentionsStayBacked DEF RestoreAtom, BodyInv
<1>6. ASSUME NEW c \in Clients, NEW a \in Atoms, ExposeAtom(c, a) PROVE BodyInv'
  <2>1. ShownBodyIsEvidenced' /\ LedgerBacked' /\ RowsBacked' /\ Backs
    BY <1>0, <1>6, ExposeKeepsBacked DEF ExposeAtom
  <2> QED
    BY <1>0, <1>6, <2>1, IntentionsStayBacked DEF ExposeAtom, BodyInv
<1>7. ASSUME NEW c \in Clients, Abandon(c) PROVE BodyInv'
  <2>1. Backs /\ UNCHANGED <<atoms, ledger>>
    BY <1>7 DEF Abandon, storeVars, Backs
  <2> QED
    BY <1>2, <1>7, <2>1, StillBacked DEF Abandon, BodyInv
<1>8. ASSUME NEW c \in Clients, Client(c) PROVE BodyInv'
  <2>1. DOMAIN intention = Clients
    BY <1>0 DEF ControlInv
  <2> QED
    BY <1>0, <1>3, <1>4, <1>5, <1>6, <1>7, <1>8, <2>1, NotedIsBacked DEF Client
<1>9. ASSUME NEW p \in Projectors, Projector(p) PROVE BodyInv'
  <2>1. UNCHANGED intention
    BY <1>9 DEF Projector, ReadOutbox, CommitEvidence, EvidenceFails, RecordFailure, RecordReceipts,
       ProjectorDies
  <2>2. batch[p] \in SUBSET Event
    BY <1>0 DEF ControlInv
  <2>3. CASE ReadOutbox(p) \/ CommitEvidence(p) \/ RecordFailure(p) \/ ProjectorDies(p)
    <3>1. Backs /\ UNCHANGED <<atoms, ledger>>
      BY <2>3 DEF ReadOutbox, CommitEvidence, RecordFailure, ProjectorDies, MarkFailedBatch, Links,
         Backs, storeVars, memoryVars
    <3> QED
      BY <1>1, <2>1, <3>1
  <2>4. CASE EvidenceFails(p)
    <3>1. PICK B \in SUBSET Event : B = batch[p] \ Links(batch[p])
      BY <2>2
    <3>2. Links(B) \subseteq evidence
      BY <3>1 DEF Links
    <3>3. MarkBatch(B) /\ UNCHANGED evidence
      BY <2>4, <3>1 DEF EvidenceFails
    <3> QED
      BY <1>0, <2>1, <3>2, <3>3, MarkKeepsBacked, IntentionsStayBacked
      DEF BodyInv, NothingSuperseded
  <2>5. CASE RecordReceipts(p)
    <3>1. Links(batch[p]) \subseteq evidence /\ MarkBatch(batch[p]) /\ UNCHANGED evidence
      BY <1>0, <2>5 DEF RecordReceipts, ProjectorInv
    <3> QED
      BY <1>0, <2>1, <2>2, <3>1, MarkKeepsBacked, IntentionsStayBacked
      DEF BodyInv, NothingSuperseded
  <2> QED
    BY <1>9, <2>3, <2>4, <2>5 DEF Projector
<1>10. CASE UNCHANGED vars
  BY <1>1, <1>10 DEF vars, storeVars, Backs
<1> QED
  BY <1>8, <1>9, <1>10 DEF Next

\* put_atom, set_visibility and the projector: the content that is shown has its own
\* evidence in evidence.db, whatever rows are written late, where content changes by
\* imports and merges alone: an update brings evidence too, but breaks it (MemoryLeak.cfg).
THEOREM ShownContentIsEvidenced ==
  ASSUME OnlyImportsAndMerges
  PROVE  Spec => []ShownBodyIsEvidenced
<1>1. Init => NothingSuperseded
  BY DEF Init, StoreInit, NothingSuperseded
<1>2. IInv /\ Aligned /\ BodyInv /\ NothingSuperseded /\ [Next]_vars =>
        BodyInv' /\ NothingSuperseded'
  BY NextBody, NextUnsuperseded
<1>3. BodyInv => ShownBodyIsEvidenced
  BY DEF BodyInv
<1> QED
  BY <1>1, <1>2, <1>3, InitBody, SpecAligned, SpecIInv, PTL DEF Spec
=============================================================================
