---------------------------- MODULE MemoryStore ----------------------------
(***************************************************************************)
(* The tables of memory.db and evidence.db and the transactions of         *)
(* memory/store.py on them: put, supersede, restore, expose and the        *)
(* projection of queued evidence.  Each operator here is one BEGIN         *)
(* IMMEDIATE ... COMMIT; who runs them, on what it read before, is in      *)
(* MemoryPublication.                                                      *)
(*                                                                         *)
(* The columns of an atom that nothing here tells apart (kind, priority,   *)
(* provenance, metadata, owner) stand behind its body.  A row of           *)
(* atom_revisions and the row of atom_deltas that leads to it are one      *)
(* element of ledger[a], at the revision's index.                          *)
(***************************************************************************)
EXTENDS Naturals, Sequences

CONSTANTS Atoms,      \* logical atoms (one physical row each)
          Bodies,     \* contents; every content comes with evidence of its own
          None,       \* no such row
          MaxRev      \* bound on the revisions of an atom

ASSUME MaxRevAssumption == MaxRev \in Nat \ {0}

VARIABLES atoms,          \* table atoms: row or None
          ledger,         \* atom_revisions and atom_deltas: a sequence per atom
          edges,          \* supersession_edges, pairs <<old, new>>
          outstanding,    \* domain_outbox events that are pending or failed
          receipts,       \* evidence_projection_receipts, by event
          evidence        \* evidence.db: events whose evidence and link exist

memoryVars == <<atoms, ledger, edges, outstanding, receipts>>
storeVars == <<atoms, ledger, edges, outstanding, receipts, evidence>>

Shown == {"ready", "active"}
Visibilities == {"building"} \cup Shown

Row == [body: Bodies, status: {"active", "superseded", "shadowed", "deleted"}, locked: BOOLEAN,
        visibility: Visibilities, revision: 1..MaxRev, supersedes: SUBSET Atoms]

\* A revision with the kind of its delta: a put writes the changed columns, a
\* staged put the whole atom, a supersession neither body nor lock.
Revision == [row: Row, delta: {"put", "staged", "supersede"}]

\* An event asks for one piece of evidence to be linked ("link") or only
\* announces a lifecycle change ("local").
Event == [kind: {"link", "local"}, atom: Atoms, revision: 1..MaxRev, body: Bodies,
          publication: Shown \cup {""}]

ASSUME NoneAssumption == None \notin Row

StoreInit ==
    /\ atoms = [a \in Atoms |-> None]
    /\ ledger = [a \in Atoms |-> <<>>]
    /\ edges = {} /\ outstanding = {} /\ receipts = {} /\ evidence = {}

Exists(a) == atoms[a] # None
IsShown(a) == Exists(a) /\ atoms[a].visibility \in Shown
LastRevision(a) == Len(ledger[a])
Links(events) == {e \in events : e.kind = "link"}

-----------------------------------------------------------------------------
(* put_atom.                                                               *)

\* A replayed write: nothing differs but revision and, for evidenced writes
\* that would only publish a building row, visibility.
SamePayload(a, item, evidenced) ==
    /\ Exists(a)
    /\ item = [atoms[a] EXCEPT !.visibility = item.visibility, !.revision = item.revision]
    /\ \/ atoms[a].visibility = item.visibility
       \/ /\ atoms[a].visibility = "building" /\ item.visibility \in Shown
          /\ evidenced /\ atoms[a].status = "active"

\* An evidenced update of a shown atom leaves the row as it is until its
\* evidence is projected.
Staged(a, evidenced) == evidenced /\ IsShown(a)

\* Mutant: a staged write asks for the visibility of the item, shown or not.
PublicationOfItem(a, item, evidenced) ==
    IF evidenced /\ (IsShown(a) \/ item.visibility \in Shown) THEN item.visibility ELSE ""

\* The visibility the projector gives the atom once the evidence is there.
Publication(a, item, evidenced) ==
    IF Staged(a, evidenced)
    THEN IF item.visibility \in Shown THEN item.visibility ELSE atoms[a].visibility
    ELSE IF evidenced /\ item.visibility \in Shown /\ item.status = "active"
    THEN item.visibility ELSE ""

\* Mutant: a new atom is written with the visibility its caller asked for.
StoredAtOnce(a, item, evidenced) == [item EXCEPT !.revision = LastRevision(a) + 1]

\* The item as it is written: its revision follows the row and the ledger, and
\* a new evidenced atom waits in building.
Stored(a, item, evidenced) ==
    [item EXCEPT !.revision = LastRevision(a) + 1,
                 !.visibility = IF Publication(a, item, evidenced) # "" /\ ~ Staged(a, evidenced)
                                THEN "building" ELSE item.visibility]

LinkEvent(a, item, evidenced) ==
    [kind |-> "link", atom |-> a, revision |-> LastRevision(a) + 1, body |-> item.body,
     publication |-> Publication(a, item, evidenced)]

\* Mutant: the next revision is counted from the row alone.
PutAtomOverLedger(a, item, evidenced) ==
    IF SamePayload(a, item, evidenced) THEN UNCHANGED memoryVars
    ELSE LET next == IF Exists(a) THEN atoms[a].revision + 1 ELSE 1
             stored == [Stored(a, item, evidenced) EXCEPT !.revision = next]
             entry == [row |-> stored, delta |-> IF Staged(a, evidenced) THEN "staged" ELSE "put"]
         IN /\ next <= MaxRev
            /\ atoms' = IF Staged(a, evidenced) THEN atoms ELSE [atoms EXCEPT ![a] = stored]
            /\ ledger' = [ledger EXCEPT ![a] =
                 IF next <= Len(@) THEN [@ EXCEPT ![next] = entry] ELSE Append(@, entry)]
            /\ outstanding' = outstanding \cup
                 (IF evidenced THEN {LinkEvent(a, item, evidenced)} ELSE {})
            /\ UNCHANGED <<edges, receipts>>

PutAtom(a, item, evidenced) ==
    IF SamePayload(a, item, evidenced) THEN UNCHANGED memoryVars
    ELSE LET stored == Stored(a, item, evidenced)
             staged == Staged(a, evidenced)
         IN /\ LastRevision(a) < MaxRev
            /\ atoms' = IF staged THEN atoms ELSE [atoms EXCEPT ![a] = stored]
            /\ ledger' = [ledger EXCEPT ![a] =
                 Append(@, [row |-> stored, delta |-> IF staged THEN "staged" ELSE "put"])]
            /\ outstanding' = outstanding \cup
                 (IF evidenced THEN {LinkEvent(a, item, evidenced)} ELSE {})
            /\ UNCHANGED <<edges, receipts>>

-----------------------------------------------------------------------------
(* supersede and restore.                                                  *)

LocalEvent(row, a) ==
    [kind |-> "local", atom |-> a, revision |-> row.revision, body |-> row.body,
     publication |-> ""]

\* INSERT ... ON CONFLICT(atom_id, revision) DO UPDATE.
UpsertRevision(a, row) ==
    LET entry == [row |-> row, delta |-> "supersede"]
    IN IF row.revision <= LastRevision(a)
       THEN [ledger[a] EXCEPT ![row.revision] = entry]
       ELSE Append(ledger[a], entry)

\* _write_atom_row: every column but these keeps what is in the table.
RowAfterSupersede(a, row) ==
    [atoms[a] EXCEPT !.status = row.status, !.supersedes = row.supersedes,
                     !.revision = row.revision, !.visibility = row.visibility]

\* The two rows were read before the transaction began.
Supersede(old, new, oldRead, newRead) ==
    IF <<old, new>> \in edges THEN UNCHANGED memoryVars
    ELSE LET oldRow == [oldRead EXCEPT !.status = "superseded", !.revision = @ + 1]
             newRow == [newRead EXCEPT !.supersedes = @ \cup {old}, !.revision = @ + 1]
         IN /\ oldRow.revision <= MaxRev /\ newRow.revision <= MaxRev
            /\ atoms' = [atoms EXCEPT ![old] = RowAfterSupersede(old, oldRow),
                                      ![new] = RowAfterSupersede(new, newRow)]
            /\ ledger' = [ledger EXCEPT ![old] = UpsertRevision(old, oldRow),
                                        ![new] = UpsertRevision(new, newRow)]
            /\ edges' = edges \cup {<<old, new>>}
            /\ outstanding' = outstanding \cup {LocalEvent(oldRow, old), LocalEvent(newRow, new)}
            /\ UNCHANGED receipts

\* Whatever supersedes a, and whatever supersedes that.
Descendants(a) ==
    LET closed == {S \in SUBSET Atoms : \A e \in edges : e[1] \in S \cup {a} => e[2] \in S}
    IN {d \in Atoms \ {a} : Exists(d) /\ \A S \in closed : d \in S}

\* The restored atom is active and locked; active descendants are shadowed.
RestoredRow(a, d) ==
    [atoms[d] EXCEPT !.status = IF d = a THEN "active" ELSE "shadowed",
                     !.locked = IF d = a THEN TRUE ELSE @,
                     !.revision = LastRevision(d) + 1]

Restore(a) ==
    LET shadowed == {d \in Descendants(a) : atoms[d].status = "active"}
        restored == {d \in {a} : atoms[a].status # "active" \/ ~ atoms[a].locked}
        changed == shadowed \cup restored
    IN /\ \A d \in changed : LastRevision(d) < MaxRev
       /\ atoms' = [d \in Atoms |-> IF d \in changed THEN RestoredRow(a, d) ELSE atoms[d]]
       /\ ledger' = [d \in Atoms |->
            IF d \in changed
            THEN Append(ledger[d], [row |-> RestoredRow(a, d), delta |-> "put"])
            ELSE ledger[d]]
       /\ outstanding' = outstanding \cup {LocalEvent(RestoredRow(a, d), d) : d \in changed}
       /\ UNCHANGED <<edges, receipts>>

-----------------------------------------------------------------------------
(* The projection of evidence, and exposure.                               *)

\* Mutant: a staged revision is promoted without its body.
AppliedStatusOnly(a) ==
    [atoms[a] EXCEPT !.status = ledger[a][LastRevision(a)].row.status,
                     !.revision = LastRevision(a)]

\* _apply_staged_revision on the newest revision of the ledger.
AppliedRevision(a) ==
    LET last == ledger[a][LastRevision(a)]
    IN IF last.delta = "staged" THEN last.row
       ELSE [atoms[a] EXCEPT !.body = last.row.body, !.status = last.row.status,
                             !.locked = IF last.delta = "put" THEN last.row.locked ELSE @,
                             !.revision = LastRevision(a)]

\* Mutant: publication opens the row and forgets the staged revision.
CurrentRevisionKept(a) == atoms[a]

CurrentRevision(a) ==
    IF LastRevision(a) > atoms[a].revision THEN AppliedRevision(a) ELSE atoms[a]

\* What the first link event of the batch asked for.
Intended(a, links) ==
    (CHOOSE e \in links : e.atom = a /\ \A f \in links : f.atom = a => e.revision <= f.revision)
        .publication

\* Mutant: the revision of the event is applied, newest or not.
PublishedRowOfEvent(a, links) ==
    ledger[a][(CHOOSE e \in links : e.atom = a).revision].row

PublishedRow(a, links) ==
    LET row == CurrentRevision(a)
        wanted == Intended(a, links)
    IN [row EXCEPT !.visibility =
            IF wanted \in Shown /\ @ = "building" THEN wanted ELSE @]

\* Mutant: receipts are written, the status of the events is not.
MarkBatchReceiptsOnly(batch) ==
    /\ receipts' = receipts \cup Links(batch)
    /\ UNCHANGED <<atoms, ledger, edges, outstanding>>

\* _mark_projected_batch: receipts and statuses of the batch, then the atoms
\* none of whose link events is outstanding any more.
MarkBatch(batch) ==
    LET links == Links(batch)
        left == outstanding \ batch
        settled == {a \in Atoms : /\ \E e \in links : e.atom = a
                                  /\ \A e \in Links(left) : e.atom # a
                                  /\ Exists(a)}
    IN /\ receipts' = receipts \cup links
       /\ outstanding' = left
       /\ atoms' = [a \in Atoms |-> IF a \in settled THEN PublishedRow(a, links) ELSE atoms[a]]
       /\ UNCHANGED <<ledger, edges>>

\* _mark_failed_batch has no guard on the status of the events it marks.
MarkFailedBatch(links) ==
    /\ outstanding' = outstanding \cup links
    /\ UNCHANGED <<atoms, ledger, edges, receipts>>

\* Mutant: exposure asks for a receipt and not for an empty outbox.
ExposeUnsettled(a) ==
    /\ Exists(a) /\ atoms[a].visibility # "active"
    /\ \E e \in receipts : e.atom = a
    /\ atoms' = [atoms EXCEPT ![a] = [@ EXCEPT !.visibility = "active"]]
    /\ UNCHANGED <<ledger, edges, outstanding, receipts>>

\* set_visibility("active", atom_ids=[a]).
Expose(a) ==
    /\ Exists(a) /\ atoms[a].visibility # "active"
    /\ outstanding = {}
    /\ \E e \in receipts : e.atom = a
    /\ atoms' = [atoms EXCEPT ![a] = [@ EXCEPT !.visibility = "active"]]
    /\ UNCHANGED <<ledger, edges, outstanding, receipts>>
=============================================================================
