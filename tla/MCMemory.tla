------------------------------ MODULE MCMemory ------------------------------
(***************************************************************************)
(* Three instances of MemoryPublication side by side, chosen at the start: *)
(* two clients on one atom, two atoms, and two projectors.  An instance    *)
(* is a part of the state space: the others' clients and projectors rest.  *)
(***************************************************************************)
EXTENDS MemoryPublication

CONSTANTS a1, b1, c1, p1

VARIABLE instance
mcVars == <<vars, instance>>

\* The lifecycle of an atom, and the edits that change content.
Lifecycle == INSTANCE MemoryPublication WITH Workload <- {"put", "lock", "delete", "restore"}
Content == INSTANCE MemoryPublication
           WITH Workload <- {"put", "update", "enrich", "rollback", "supersede"}

OneAtom == \A a \in Atoms \ {a1} : atoms'[a] = None
                /\ \A c \in Clients : intention'[c] # None /\ intention'[c].op = "put" =>
                        intention'[c].atom # a
OneBody == \A c \in Clients : intention'[c] # None /\ intention'[c].op = "put" =>
                intention'[c].item.body = b1
OneClient == \A c \in Clients \ {c1} : intention'[c] = None
OneProjector == \A p \in Projectors \ {p1} : projector'[p] = "idle"
TwoRevisions == \A a \in Atoms : Len(ledger'[a]) <= 2

\* Contents may be renamed: the first one that is written is b1.
FirstBody == \A a \in Atoms : ledger'[a] # <<>> => ledger'[a][1].row.body = b1

ClientsNext == instance = "clients" /\ Lifecycle!Next /\ OneAtom /\ OneProjector /\ FirstBody
AtomsNext == instance = "atoms" /\ Content!Next /\ OneClient /\ OneProjector /\ OneBody /\ TwoRevisions
ProjectorsNext == instance = "projectors" /\ Content!Next /\ OneClient /\ OneAtom /\ OneBody
                  /\ TwoRevisions

\* Fairness of the projectors' own steps, which no bound refuses.
Projecting(A) == instance = "projectors" /\ A /\ UNCHANGED instance

MCFairness == \A p \in Projectors :
    /\ WF_mcVars(Projecting(ReadOutbox(p))) /\ WF_mcVars(Projecting(RecordFailure(p)))
    /\ SF_mcVars(Projecting(CommitEvidence(p))) /\ SF_mcVars(Projecting(RecordReceipts(p)))

MCInit == Init /\ instance \in {"clients", "atoms", "projectors"}

MCSpec == /\ MCInit
          /\ [][(ClientsNext \/ AtomsNext \/ ProjectorsNext) /\ UNCHANGED instance]_mcVars
          /\ MCFairness

-----------------------------------------------------------------------------
\* ShownBodyIsEvidenced, where content is imported and merged, and atoms are locked,
\* deleted and restored by rows that were read before.
ImportedBodyIsEvidenced == instance = "clients" => ShownBodyIsEvidenced

\* EvidenceIsProjected, of the overlapping projectors.
OverlapIsProjected == instance = "projectors" => EvidenceIsProjected
=============================================================================
