------------------------- MODULE GovernanceBoundary -------------------------
(***************************************************************************)
(* governance_v2/boundary.py over memory/store.py: every step of a fenced  *)
(* request (RequestFence) joined with what it does to the atoms            *)
(* (MemoryStore).  What is new here is the content of the mutation and of  *)
(* its compensation: the rows a call read before, and the rows it writes   *)
(* back, one transaction each, when the ledger refuses its decision.       *)
(*                                                                         *)
(* Other projectors than one that never fails are in MemoryPublication.    *)
(***************************************************************************)
EXTENDS RequestFence, MemoryStore

CONSTANTS Request,      \* the request behind each idempotency key
          SeedBody      \* content of the atoms there are at the start

Requests == [op: {"put", "tombstone", "restore", "supersede"},
             atom: Atoms,       \* its target; the old atom of a supersession
             other: Atoms,      \* the new atom of a supersession
             body: Bodies]      \* the content of a put

ASSUME RequestAssumption == Request \in [Keys -> Requests]
                            /\ \A k \in Keys : Request[k] \in Intents

CONSTANTS Seeded,       \* atoms that exist and are shown at the start
          Serial        \* requests that are made while no other call is under way

ASSUME SeedAssumption == Seeded \subseteq Atoms /\ SeedBody \in Bodies
ASSUME SerialAssumption == Serial \subseteq Keys

VARIABLES before,       \* the atoms as each call read them, or None
          todo          \* atoms whose compensation each call still has to write

boundaryVars == <<vars, storeVars, before, todo>>

SeedRow == [body |-> SeedBody, status |-> "active", locked |-> FALSE,
            visibility |-> "active", revision |-> 1, supersedes |-> {}]
SeedEvent(a) == [kind |-> "link", atom |-> a, revision |-> 1, body |-> SeedBody,
                 publication |-> ""]

\* The state after the seeded atoms were put, projected and exposed.
BoundaryInit ==
    /\ Init
    /\ atoms = [a \in Atoms |-> IF a \in Seeded THEN SeedRow ELSE None]
    /\ ledger = [a \in Atoms |->
         IF a \in Seeded THEN <<[row |-> SeedRow, delta |-> "put"]>> ELSE <<>>]
    /\ edges = {} /\ outstanding = {}
    /\ receipts = {SeedEvent(a) : a \in Seeded}
    /\ evidence = {SeedEvent(a) : a \in Seeded}
    /\ before = [w \in Workers |-> None]
    /\ todo = [w \in Workers |-> {}]

Op(w)     == Intent(w).op
Target(w) == Intent(w).atom
Other(w)  == Intent(w).other

-----------------------------------------------------------------------------
(* The calls.                                                              *)

\* put_atom resolves the atom it will replace before it claims the request.
BeginCall(w, k) ==
    /\ Begin(w, k, Request[k])
    /\ before' = [before EXCEPT ![w] = IF Request[k].op = "put" THEN atoms ELSE None]
    /\ UNCHANGED <<storeVars, todo>>

\* The steps of the fence that do not look at the atoms.
ClaimStep(w) ==
    /\ (\E t \in Tokens : ClaimNew(w, t)) \/ ClaimConflict(w) \/ ClaimReplay(w)
          \/ ClaimRejected(w) \/ ClaimTimeout(w)
    /\ UNCHANGED <<storeVars, before, todo>>

\* The other calls read what is there after the claim.
ReadBefore(w) ==
    /\ pc[w] = "claimed" /\ before[w] = None
    /\ before' = [before EXCEPT ![w] = atoms]
    /\ UNCHANGED <<vars, storeVars, todo>>

\* Mutant: an update of a row that moved since it was read gives way.
PutItemUnlessMoved(w) ==
    IF atoms[Target(w)] # None /\ atoms[Target(w)] # before[w][Target(w)] THEN atoms[Target(w)]
    ELSE IF before[w][Target(w)] = None
    THEN [SeedRow EXCEPT !.body = Intent(w).body, !.visibility = "ready"]
    ELSE [before[w][Target(w)] EXCEPT !.body = Intent(w).body]

PutItem(w) ==
    IF before[w][Target(w)] = None
    THEN [SeedRow EXCEPT !.body = Intent(w).body, !.visibility = "ready"]
    ELSE [before[w][Target(w)] EXCEPT !.body = Intent(w).body]

\* memory.delete and memory.supersede read the rows once more, at any moment
\* between the first read and the write.
Mutation(w) ==
    \/ Op(w) = "put" /\ PutAtom(Target(w), PutItem(w), TRUE)
    \/ /\ Op(w) = "tombstone" /\ before[w][Target(w)] # None
       /\ \E row \in {before[w][Target(w)], atoms[Target(w)]} :
             PutAtom(Target(w), [row EXCEPT !.status = "deleted"], FALSE)
    \/ Op(w) = "restore" /\ before[w][Target(w)] # None /\ Restore(Target(w))
    \/ /\ Op(w) = "supersede"
       /\ before[w][Target(w)] # None /\ before[w][Other(w)] # None
       /\ \E rows \in {before[w], atoms} :
             Supersede(Target(w), Other(w), rows[Target(w)], rows[Other(w)])

CommitMutation(w) ==
    /\ before[w] # None
    /\ Mutate(w)
    /\ Mutation(w)
    /\ UNCHANGED <<evidence, before, todo>>

\* Mutant: a failed restore is undone for its target only.
CompensatedTargetOnly(w) ==
    IF before[w] = None \/ (before[w][Target(w)] = None /\ Op(w) # "put") THEN {} ELSE {Target(w)}

\* The atoms a compensation writes: for a restore, its target and every atom
\* that was active before.
Compensated(w) ==
    IF before[w] = None \/ (before[w][Target(w)] = None /\ Op(w) # "put") THEN {}
    ELSE {Target(w)} \cup {d \in Atoms : before[w][d] # None /\
             \/ Op(w) = "supersede" /\ d = Other(w)
             \/ Op(w) = "restore" /\ before[w][d].status = "active"}

\* restore and supersede compensate even what did not commit.
RefuseMutation(w) ==
    /\ MutateFails(w)
    /\ todo' = [todo EXCEPT ![w] = IF Op(w) \in {"restore", "supersede"} THEN Compensated(w) ELSE {}]
    /\ UNCHANGED <<storeVars, before>>

RecordReceipt(w) ==
    /\ Record(w)
    /\ UNCHANGED <<storeVars, before, todo>>

\* Mutant: a ledger failure retries the mutation under the same claim.
LoseReceiptRetried(w) ==
    /\ pc[w] = "mutated"
    /\ Goto(w, "claimed")
    /\ UNCHANGED <<fenceVars, commits, undone, storeVars, before, todo>>

LoseReceipt(w) ==
    /\ RecordFails(w)
    /\ todo' = [todo EXCEPT ![w] = Compensated(w)]
    /\ UNCHANGED <<storeVars, before>>

\* The row a compensation writes for d; it reads the row it changes just before.
RowBefore(w, d) ==
    LET was == before[w][d]
    IN IF was = None THEN [atoms[d] EXCEPT !.status = "deleted"]
       ELSE IF Op(w) = "restore"
       THEN [atoms[d] EXCEPT !.status = was.status, !.locked = was.locked,
                             !.supersedes = IF was.supersedes = {} THEN @ ELSE was.supersedes,
                             !.visibility = was.visibility]
       ELSE was

CompensateAtom(w, d) ==
    /\ pc[w] \in {"compensate", "fail"} /\ d \in todo[w]
    /\ d = Target(w) \/ Target(w) \notin todo[w]
    /\ PutAtom(d, RowBefore(w, d), FALSE)
    /\ todo' = [todo EXCEPT ![w] = @ \ {d}]
    /\ UNCHANGED <<vars, evidence, before>>

\* Done, or given up: the exception of a compensation is swallowed.
EndCompensation(w) ==
    /\ Compensate(w)
    /\ undone' = IF todo[w] = {} THEN undone \cup {Key(w)} ELSE undone
    /\ UNCHANGED <<storeVars, before, todo>>

FailCall(w) ==
    /\ Fail(w)
    /\ todo' = [todo EXCEPT ![w] = {}]
    /\ UNCHANGED <<storeVars, before>>

EndCall(w) ==
    /\ Return(w) \/ Crash(w)
    /\ before' = [before EXCEPT ![w] = None]
    /\ todo' = [todo EXCEPT ![w] = {}]
    /\ UNCHANGED storeVars

\* project_evidence, undisturbed.
ProjectAll ==
    /\ outstanding # {}
    /\ evidence' = evidence \cup Links(outstanding)
    /\ MarkBatch(outstanding)
    /\ UNCHANGED <<vars, before, todo>>

BoundaryNext ==
    \/ \E w \in Workers :
        \/ \E k \in Keys : BeginCall(w, k)
        \/ ClaimStep(w) \/ ReadBefore(w) \/ CommitMutation(w) \/ RefuseMutation(w)
        \/ RecordReceipt(w) \/ LoseReceipt(w)
        \/ \E d \in Atoms : CompensateAtom(w, d)
        \/ EndCompensation(w) \/ FailCall(w) \/ EndCall(w)
    \/ ProjectAll

BoundarySpec == BoundaryInit /\ [][BoundaryNext]_boundaryVars

-----------------------------------------------------------------------------
(* Properties.                                                             *)

Applied(k) == requestLedger[k] # NoRow /\ requestLedger[k].state = "applied"

\* What a receipt says happened is in the revision history: the content of a
\* put, the tombstone, the restored atom.
ReceiptsAreRecorded ==
    \A k \in Keys : Applied(k) => \E n \in 1..LastRevision(Request[k].atom) :
        LET row == ledger[Request[k].atom][n].row
        IN CASE Request[k].op = "put"       -> row.body = Request[k].body
             [] Request[k].op = "tombstone" -> row.status = "deleted"
             [] Request[k].op = "restore"   -> row.status = "active"
             [] Request[k].op = "supersede" -> row.status = "superseded"

\* boundary.py:420 "Undo a fact mutation when the independent decision ledger
\* fails": a call that is told "error" after its compensation left every atom as it
\* found it, or deleted when there was none.  Callers that run beside it may
\* rightly write in between, so this is said of the Serial requests, none of them the
\* correction of an atom that is shown, which is staged (RefusedContentIsNotShown).
CompensationRestores ==
    \A w \in Workers : pc[w] = "error" /\ Key(w) \in Serial \cap undone => \A d \in Atoms :
        IF before[w][d] = None THEN Exists(d) => atoms[d].status = "deleted"
        ELSE /\ atoms[d].body = before[w][d].body
             /\ atoms[d].status = before[w][d].status
             /\ atoms[d].locked = before[w][d].locked

\* The fence of the composed system is the fence that RequestFence describes.
FencesRequests == Spec

\* boundary.py:420 "Undo a fact mutation when the independent decision ledger
\* fails": what a refused and compensated put wrote is not shown later.
RefusedContentIsNotShown ==
    \A k \in undone : Request[k].op = "put" =>
        ~ (IsShown(Request[k].atom) /\ atoms[Request[k].atom].body = Request[k].body
                                    /\ atoms[Request[k].atom].status = "active")
=============================================================================
