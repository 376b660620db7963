------------------------- MODULE MemoryPublication -------------------------
(***************************************************************************)
(* Processes on one memory.db and evidence.db: clients that read an atom,  *)
(* build what they will write and write it in a later transaction, and     *)
(* projectors that carry queued evidence to evidence.db and its receipts   *)
(* back, any of which may die between two transactions.                    *)
(***************************************************************************)
EXTENDS MemoryStore

CONSTANTS Clients,      \* governed callers
          Projectors,   \* callers of project_evidence
          Workload      \* the mutations the clients perform

ASSUME WorkloadAssumption ==
    Workload \subseteq {"put", "update", "lock", "delete", "enrich", "rollback", "restore", "supersede"}

VARIABLES intention,    \* what each client is about to write, or None
          batch,        \* what each projector read from the outbox
          projector     \* where each projector stands

vars == <<storeVars, intention, batch, projector>>

\* A put of one atom, or a supersession with the two rows as they were read.
PutIntention == [op: {"put"}, atom: Atoms, item: Row, evidenced: BOOLEAN]
SupersedeIntention == [op: {"supersede"}, old: Atoms, new: Atoms, oldRead: Row, newRead: Row]

Init ==
    /\ StoreInit
    /\ intention = [c \in Clients |-> None]
    /\ batch = [p \in Projectors |-> {}]
    /\ projector = [p \in Projectors |-> "idle"]

-----------------------------------------------------------------------------
(* Clients.                                                                *)

Intend(c, i) ==
    /\ intention[c] = None
    /\ intention' = [intention EXCEPT ![c] = i]
    /\ UNCHANGED <<storeVars, batch, projector>>

IntendPut(c, a, item, evidenced) ==
    Intend(c, [op |-> "put", atom |-> a, item |-> item, evidenced |-> evidenced])

\* A new atom of an import, an approval or an extraction.
FreshItem(b, v) == [body |-> b, status |-> "active", locked |-> FALSE, visibility |-> v,
                    revision |-> 1, supersedes |-> {}]

Import(c, a, b, v) ==
    /\ "put" \in Workload
    /\ IntendPut(c, a, FreshItem(b, v), TRUE)

\* The organizer merges new content into an atom that it has read, unless that was
\* locked or put away (organizer.py:1439).
Merge(c, a, b) ==
    /\ "put" \in Workload /\ Exists(a)
    /\ atoms[a].status = "active" /\ ~ atoms[a].locked
    /\ IntendPut(c, a, [atoms[a] EXCEPT !.body = b], TRUE)

\* An edit that names its atom is made whatever the status of the atom, and so are
\* some corrections.
Update(c, a, b) ==
    /\ "update" \in Workload /\ Exists(a)
    /\ IntendPut(c, a, [atoms[a] EXCEPT !.body = b], TRUE)

\* A lifecycle edit writes the atom that was read, without new evidence.
Lock(c, a) ==
    /\ "lock" \in Workload /\ Exists(a)
    /\ IntendPut(c, a, [atoms[a] EXCEPT !.locked = TRUE], FALSE)

Delete(c, a) ==
    /\ "delete" \in Workload /\ Exists(a)
    /\ IntendPut(c, a, [atoms[a] EXCEPT !.status = "deleted"], FALSE)

\* A host enrichment writes new content without evidence of its own.
Enrich(c, a, b) ==
    /\ "enrich" \in Workload /\ Exists(a)
    /\ IntendPut(c, a, [atoms[a] EXCEPT !.body = b], FALSE)

\* replay_revision: a revision at or below the committed one of a shown atom.
Replayed(a, n) == [atoms[a] EXCEPT !.body = ledger[a][n].row.body,
                                   !.status = ledger[a][n].row.status,
                                   !.revision = n]

Rollback(c, a, n) ==
    /\ "rollback" \in Workload
    /\ IsShown(a) /\ n <= atoms[a].revision
    /\ IntendPut(c, a, Replayed(a, n), FALSE)

ReadToSupersede(c, old, new) ==
    /\ "supersede" \in Workload
    /\ old # new /\ Exists(old) /\ Exists(new)
    /\ Intend(c, [op |-> "supersede", old |-> old, new |-> new,
                  oldRead |-> atoms[old], newRead |-> atoms[new]])

WritePut(c) ==
    /\ intention[c] # None /\ intention[c].op = "put"
    /\ PutAtom(intention[c].atom, intention[c].item, intention[c].evidenced)
    /\ intention' = [intention EXCEPT ![c] = None]
    /\ UNCHANGED <<evidence, batch, projector>>

WriteSupersede(c) ==
    /\ intention[c] # None /\ intention[c].op = "supersede"
    /\ Supersede(intention[c].old, intention[c].new, intention[c].oldRead, intention[c].newRead)
    /\ intention' = [intention EXCEPT ![c] = None]
    /\ UNCHANGED <<evidence, batch, projector>>

\* Restore reads and writes in one transaction.
RestoreAtom(c, a) ==
    /\ "restore" \in Workload
    /\ intention[c] = None /\ Exists(a)
    /\ Restore(a)
    /\ UNCHANGED <<evidence, intention, batch, projector>>

\* The last step of a public write.
ExposeAtom(c, a) ==
    /\ intention[c] = None
    /\ Expose(a)
    /\ UNCHANGED <<evidence, intention, batch, projector>>

\* A client dies, or its transaction raises, before it writes.
Abandon(c) ==
    /\ intention[c] # None
    /\ intention' = [intention EXCEPT ![c] = None]
    /\ UNCHANGED <<storeVars, batch, projector>>

Client(c) ==
    \/ \E a \in Atoms :
        \/ \E b \in Bodies, v \in {"building", "ready"} : Import(c, a, b, v)
        \/ \E b \in Bodies : Merge(c, a, b) \/ Update(c, a, b) \/ Enrich(c, a, b)
        \/ Lock(c, a) \/ Delete(c, a)
        \/ \E n \in 1..MaxRev : Rollback(c, a, n)
        \/ \E new \in Atoms : ReadToSupersede(c, a, new)
        \/ RestoreAtom(c, a) \/ ExposeAtom(c, a)
    \/ WritePut(c) \/ WriteSupersede(c) \/ Abandon(c)

-----------------------------------------------------------------------------
(* Projectors: project_evidence.                                           *)

ReadOutbox(p) ==
    /\ projector[p] = "idle" /\ outstanding # {}
    /\ batch' = [batch EXCEPT ![p] = outstanding]
    /\ projector' = [projector EXCEPT ![p] = "read"]
    /\ UNCHANGED <<storeVars, intention>>

\* Mutant: a failed evidence transaction goes unnoticed.
CommitEvidenceUnnoticed(p) ==
    /\ projector[p] = "read"
    /\ projector' = [projector EXCEPT ![p] = "committed"]
    /\ UNCHANGED <<memoryVars, evidence, intention, batch>>

\* evidence.db commits first.
CommitEvidence(p) ==
    /\ projector[p] = "read"
    /\ evidence' = evidence \cup Links(batch[p])
    /\ projector' = [projector EXCEPT ![p] = "committed"]
    /\ UNCHANGED <<memoryVars, intention, batch>>

\* The evidence transaction rolled back: local events are marked projected, ...
EvidenceFails(p) ==
    /\ projector[p] = "read" /\ Links(batch[p]) # {}
    /\ MarkBatch(batch[p] \ Links(batch[p]))
    /\ projector' = [projector EXCEPT ![p] = "failed"]
    /\ UNCHANGED <<evidence, intention, batch>>

Rest(p) ==
    /\ projector' = [projector EXCEPT ![p] = "idle"]
    /\ batch' = [batch EXCEPT ![p] = {}]

\* ... and the evidence events failed, in a transaction of their own.
RecordFailure(p) ==
    /\ projector[p] = "failed"
    /\ MarkFailedBatch(Links(batch[p]))
    /\ Rest(p)
    /\ UNCHANGED <<evidence, intention>>

RecordReceipts(p) ==
    /\ projector[p] = "committed"
    /\ MarkBatch(batch[p])
    /\ Rest(p)
    /\ UNCHANGED <<evidence, intention>>

\* A projector dies, or its memory transaction raises: the events stay as they are.
ProjectorDies(p) ==
    /\ projector[p] # "idle"
    /\ Rest(p)
    /\ UNCHANGED <<storeVars, intention>>

Projector(p) == ReadOutbox(p) \/ CommitEvidence(p) \/ EvidenceFails(p) \/ RecordFailure(p)
                \/ RecordReceipts(p) \/ ProjectorDies(p)

Next == (\E c \in Clients : Client(c)) \/ (\E p \in Projectors : Projector(p))

\* Callers keep projecting, and a sink that fails does not fail forever: "a later
\* invocation may safely retry after a transient sink/schema failure".
Fairness == \A p \in Projectors :
    /\ WF_vars(ReadOutbox(p)) /\ WF_vars(RecordFailure(p))
    /\ SF_vars(CommitEvidence(p)) /\ SF_vars(RecordReceipts(p))

Spec == Init /\ [][Next]_vars
FairSpec == Spec /\ Fairness

-----------------------------------------------------------------------------
(* Properties.                                                             *)

TypeOK ==
    /\ \A a \in Atoms : atoms[a] \in Row \cup {None}
    /\ \A a \in Atoms : \A n \in 1..LastRevision(a) : ledger[a][n] \in Revision
    /\ edges \subseteq Atoms \X Atoms
    /\ outstanding \subseteq Event /\ receipts \subseteq Event /\ evidence \subseteq Event
    /\ \A c \in Clients : intention[c] \in PutIntention \cup SupersedeIntention \cup {None}
    /\ \A p \in Projectors : batch[p] \subseteq Event
    /\ projector \in [Projectors -> {"idle", "read", "committed", "failed"}]

\* Evidence is durable before memory.db says so: a crash between the two
\* databases never leaves a receipt without its evidence.
ReceiptsAreBacked == receipts \subseteq evidence

\* No atom is shown before evidence of it was projected.
ShownHasReceipt == \A a \in Atoms : IsShown(a) => \E e \in receipts : e.atom = a

\* tests/test_evidence_publication_atomicity.py:1 "Evidence publication must not leak
\* un-evidenced atoms": the content that is shown has evidence of its own in
\* evidence.db.  It holds where content changes by imports and merges alone; an update
\* that names an atom which was put away breaks it, although it brings evidence, and so
\* do enrichment, rollback and supersession.
ShownBodyIsEvidenced ==
    \A a \in Atoms : IsShown(a) => \E e \in evidence : e.atom = a /\ e.body = atoms[a].body

\* No supersession has written the atom.
Untouched(a) == \A e \in edges : a # e[1] /\ a # e[2]

\* Once its evidence is projected no revision stays staged behind the row of an atom
\* that no supersession has written.
NothingStagedBehind ==
    \A a \in Atoms :
        Exists(a) /\ Untouched(a) /\ (\A e \in Links(outstanding) : e.atom # a) =>
            atoms[a].revision = LastRevision(a)

\* The committed revision in the ledger is the row, of an atom that no supersession
\* has written: replaying it changes nothing.
LedgerAgreesWithRow ==
    \A a \in Atoms : Exists(a) /\ Untouched(a) =>
        LET committed == ledger[a][atoms[a].revision].row
        IN committed.body = atoms[a].body /\ committed.status = atoms[a].status

\* What this step does to a is a supersession.
SupersededNow(a) == \E e \in edges' \ edges : a = e[1] \/ a = e[2]

\* store.py:2017 "Revision history is append-only V2 state".
HistoryIsAppendOnly ==
    [][\A a \in Atoms : \A n \in 1..LastRevision(a) :
        n <= Len(ledger'[a]) /\ ledger'[a][n] = ledger[a][n]]_vars

\* No step but the supersession of an atom rewrites a revision of it, whatever stale
\* rows are written and whatever was superseded before.
HistoryIsKept ==
    [][\A a \in Atoms : ~ SupersededNow(a) => \A n \in 1..LastRevision(a) :
        n <= Len(ledger'[a]) /\ ledger'[a][n] = ledger[a][n]]_vars

\* Nor does any other step take the committed revision of an atom back.
RevisionsAdvance ==
    [][\A a \in Atoms : Exists(a) /\ ~ SupersededNow(a) =>
        atoms'[a].revision >= atoms[a].revision]_vars

\* A queued event is projected in the end, whatever dies on the way.
EvidenceIsProjected == \A a \in Atoms :
    (\E e \in outstanding : e.atom = a) ~> (\A e \in outstanding : e.atom # a)
=============================================================================
