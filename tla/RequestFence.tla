---------------------------- MODULE RequestFence ----------------------------
(***************************************************************************)
(* The durable request fence of governance_v2/boundary.py.                 *)
(*                                                                         *)
(* Every governed mutation (put, tombstone, restore, supersede, unlink,    *)
(* deduplicate) runs as                                                    *)
(*                                                                         *)
(*    claim the request in decisions.db      (_claim_request)              *)
(*    mutate memory.db or evidence.db        (a transaction of its own)    *)
(*    record the decision in decisions.db    (_record)                     *)
(*                                                                         *)
(* and, when a step raises, compensates the mutation and seals the request *)
(* as failed (_fail_request).  The two databases share no transaction, and *)
(* a process may die between any two steps.  This module models the fence  *)
(* for any mutation; what the mutation does is in MemoryStore.             *)
(*                                                                         *)
(* A worker is one call of a boundary method in one process.  A key is the *)
(* pair (actor, idempotency_key); an intent stands for the operation, the  *)
(* context and the request fingerprint the claim compares.                 *)
(***************************************************************************)
EXTENDS Naturals

CONSTANTS Workers,      \* concurrent callers of the boundary
          Keys,         \* (actor, idempotency_key) pairs
          Intents,      \* operation + context + fingerprint of a request
          Tokens,       \* claim tokens (secrets.token_hex(16))
          NoRow,        \* "the ledger has no such row"
          MaxCommits    \* bound on the commits counted per key

ASSUME MaxCommitsAssumption == MaxCommits \in Nat /\ MaxCommits >= 2

VARIABLES requestLedger,    \* table request_ledger, by key
          decisions,        \* table decisions, by key
          decisionOutbox,   \* keys whose decision has a decision_outbox row
          pc,               \* where each caller stands
          call,             \* key, intent and claim token of each caller
          commits,          \* history: domain mutations committed, by key
          undone            \* history: keys whose mutation was compensated

fenceVars == <<requestLedger, decisions, decisionOutbox>>
vars == <<requestLedger, decisions, decisionOutbox, pc, call, commits, undone>>

Claim == [intent: Intents, state: {"claimed", "applied", "failed"}, token: Tokens]

\* Where a boundary call stands: "claim" polls the ledger, the Holding points
\* run between the claim and the seal of the request, the Finished points are
\* what the caller is told.
Holding  == {"claimed", "mutated", "compensate", "fail"}
Finished == {"receipt", "replay", "conflict", "rejected", "in_flight", "error"}
Points   == {"idle", "claim"} \cup Holding \cup Finished

Call == [key: Keys, intent: Intents, token: Tokens \cup {NoRow}]

ASSUME NoRowAssumption == NoRow \notin Intents /\ NoRow \notin Tokens /\ NoRow \notin Claim
                          /\ NoRow \notin Call

Init ==
    /\ requestLedger = [k \in Keys |-> NoRow]
    /\ decisions = [k \in Keys |-> NoRow]
    /\ decisionOutbox = {}
    /\ pc = [w \in Workers |-> "idle"]
    /\ call = [w \in Workers |-> NoRow]
    /\ commits = [k \in Keys |-> 0]
    /\ undone = {}

-----------------------------------------------------------------------------
(* The ledger's transactions, each one BEGIN IMMEDIATE ... commit.         *)

\* secrets.token_hex(16): no row carries the token yet.
Fresh(t) == \A k \in Keys : requestLedger[k] # NoRow => requestLedger[k].token # t

\* A row of the same operation, context and fingerprint.
SameRequest(k, i) == requestLedger[k] # NoRow /\ requestLedger[k].intent = i

\* The row is claimed and carries the caller's token.
HoldsClaim(k, t) == requestLedger[k] # NoRow /\ requestLedger[k].state = "claimed"
                                             /\ requestLedger[k].token = t

\* Mutant: an abandoned claim is taken over.
InsertClaimTakeover(k, i, t) ==
    /\ requestLedger[k] = NoRow \/ (SameRequest(k, i) /\ requestLedger[k].state = "claimed")
    /\ requestLedger' = [requestLedger EXCEPT ![k] =
                            [intent |-> i, state |-> "claimed", token |-> t]]
    /\ UNCHANGED <<decisions, decisionOutbox>>

InsertClaim(k, i, t) ==
    /\ requestLedger[k] = NoRow
    /\ requestLedger' = [requestLedger EXCEPT ![k] =
                            [intent |-> i, state |-> "claimed", token |-> t]]
    /\ UNCHANGED <<decisions, decisionOutbox>>

\* Mutant: sealing a request clears its claim token.
SealedTokenless(k, s) == [intent |-> requestLedger[k].intent, state |-> s, token |-> NoRow]

\* The row of k with its final state.
Sealed(k, s) == [intent |-> requestLedger[k].intent, state |-> s,
                 token |-> requestLedger[k].token]

\* INSERT ... ON CONFLICT(decision_id) DO NOTHING, compared with what is there,
\* then the guarded UPDATE of the claim, all in one transaction.
RecordDecision(k, i, t) ==
    /\ decisions[k] \in {NoRow, i}
    /\ HoldsClaim(k, t)
    /\ decisions' = [decisions EXCEPT ![k] = i]
    /\ decisionOutbox' = decisionOutbox \cup {k}
    /\ requestLedger' = [requestLedger EXCEPT ![k] = Sealed(k, "applied")]

SealFailed(k, t) ==
    /\ HoldsClaim(k, t)
    /\ requestLedger' = [requestLedger EXCEPT ![k] = Sealed(k, "failed")]
    /\ UNCHANGED <<decisions, decisionOutbox>>

-----------------------------------------------------------------------------
(* A boundary call.                                                        *)

Key(w)     == call[w].key
Intent(w)  == call[w].intent
Token(w)   == call[w].token
Goto(w, p) == pc' = [pc EXCEPT ![w] = p] /\ UNCHANGED call

\* A caller enters a boundary method.
Begin(w, k, i) ==
    /\ pc[w] = "idle"
    /\ pc' = [pc EXCEPT ![w] = "claim"]
    /\ call' = [call EXCEPT ![w] = [key |-> k, intent |-> i, token |-> NoRow]]
    /\ UNCHANGED <<fenceVars, commits, undone>>

ClaimNew(w, t) ==
    /\ pc[w] = "claim"
    /\ Fresh(t)
    /\ InsertClaim(Key(w), Intent(w), t)
    /\ pc' = [pc EXCEPT ![w] = "claimed"]
    /\ call' = [call EXCEPT ![w] = [key |-> Key(w), intent |-> Intent(w), token |-> t]]
    /\ UNCHANGED <<commits, undone>>

\* The key was used by another operation, context or fingerprint.
ClaimConflict(w) ==
    /\ pc[w] = "claim"
    /\ requestLedger[Key(w)] # NoRow
    /\ ~ SameRequest(Key(w), Intent(w))
    /\ Goto(w, "conflict")
    /\ UNCHANGED <<fenceVars, commits, undone>>

\* An applied request answers with its receipt.
ClaimReplay(w) ==
    /\ pc[w] = "claim"
    /\ SameRequest(Key(w), Intent(w))
    /\ requestLedger[Key(w)].state = "applied"
    /\ Goto(w, IF decisions[Key(w)] = NoRow THEN "error" ELSE "replay")
    /\ UNCHANGED <<fenceVars, commits, undone>>

ClaimRejected(w) ==
    /\ pc[w] = "claim"
    /\ SameRequest(Key(w), Intent(w))
    /\ requestLedger[Key(w)].state = "failed"
    /\ Goto(w, "rejected")
    /\ UNCHANGED <<fenceVars, commits, undone>>

\* Mutant: the wait for another owner has no deadline.
ClaimTimeoutNever(w) ==
    /\ pc[w] = "claim"
    /\ UNCHANGED vars

\* Polling a claimed row gives up after two seconds: "in flight".
ClaimTimeout(w) ==
    /\ pc[w] = "claim"
    /\ SameRequest(Key(w), Intent(w))
    /\ requestLedger[Key(w)].state = "claimed"
    /\ Goto(w, "in_flight")
    /\ UNCHANGED <<fenceVars, commits, undone>>

\* The domain store commits the mutation in its own database.
Mutate(w) ==
    /\ pc[w] = "claimed"
    /\ commits[Key(w)] < MaxCommits
    /\ Goto(w, "mutated")
    /\ commits' = [commits EXCEPT ![Key(w)] = @ + 1]
    /\ UNCHANGED <<fenceVars, undone>>

\* Mutant: a failed mutation is recorded all the same.
MutateFailsUnnoticed(w) ==
    /\ pc[w] = "claimed"
    /\ Goto(w, "mutated")
    /\ UNCHANGED <<fenceVars, commits, undone>>

\* The mutation raises before it commits: there is nothing to compensate.
MutateFails(w) ==
    /\ pc[w] = "claimed"
    /\ Goto(w, "fail")
    /\ UNCHANGED <<fenceVars, commits, undone>>

Record(w) ==
    /\ pc[w] = "mutated"
    /\ RecordDecision(Key(w), Intent(w), Token(w))
    /\ Goto(w, "receipt")
    /\ UNCHANGED <<commits, undone>>

\* Mutant: the decision is committed before the claim is checked.
RecordFailsHalfway(w) ==
    /\ pc[w] = "mutated"
    /\ Goto(w, "compensate")
    /\ decisions' = [decisions EXCEPT ![Key(w)] = Intent(w)]
    /\ UNCHANGED <<requestLedger, decisionOutbox, commits, undone>>

\* Mutant: a ledger failure retries the mutation under the same claim.
RecordFailsRetried(w) ==
    /\ pc[w] = "mutated"
    /\ Goto(w, "claimed")
    /\ UNCHANGED <<fenceVars, commits, undone>>

\* The ledger raises (a full disk, a locked database, a refused fence).
RecordFails(w) ==
    /\ pc[w] = "mutated"
    /\ Goto(w, "compensate")
    /\ UNCHANGED <<fenceVars, commits, undone>>

\* The compensation is best effort: its own exception is swallowed.
Compensate(w) ==
    /\ pc[w] = "compensate"
    /\ Goto(w, "fail")
    /\ undone' \in {undone, undone \cup {Key(w)}}
    /\ UNCHANGED <<fenceVars, commits>>

\* _fail_request, whose exception is swallowed too: the row then stays claimed.
Fail(w) ==
    /\ pc[w] = "fail"
    /\ \/ SealFailed(Key(w), Token(w))
       \/ UNCHANGED fenceVars
    /\ Goto(w, "error")
    /\ UNCHANGED <<commits, undone>>

Leave(w) == pc' = [pc EXCEPT ![w] = "idle"] /\ call' = [call EXCEPT ![w] = NoRow]

Return(w) ==
    /\ pc[w] \in Finished
    /\ Leave(w)
    /\ UNCHANGED <<fenceVars, commits, undone>>

\* The process dies; the databases keep what was committed.
Crash(w) ==
    /\ pc[w] \in {"claim"} \cup Holding
    /\ Leave(w)
    /\ UNCHANGED <<fenceVars, commits, undone>>

Step(w) ==
    \/ \E t \in Tokens : ClaimNew(w, t)
    \/ ClaimConflict(w) \/ ClaimReplay(w) \/ ClaimRejected(w) \/ ClaimTimeout(w)
    \/ Mutate(w) \/ MutateFails(w)
    \/ Record(w) \/ RecordFails(w)
    \/ Compensate(w) \/ Fail(w)

Next == \E w \in Workers :
    \/ \E k \in Keys, i \in Intents : Begin(w, k, i)
    \/ Step(w)
    \/ Return(w)
    \/ Crash(w)

\* A thread that is alive keeps running: the polls are bounded by a deadline
\* and every other step is straight-line code.
Fairness == \A w \in Workers : WF_vars(Step(w))

Spec == Init /\ [][Next]_vars
FairSpec == Spec /\ Fairness

-----------------------------------------------------------------------------
(* Properties.                                                             *)

TypeOK ==
    /\ requestLedger \in [Keys -> Claim \cup {NoRow}]
    /\ decisions \in [Keys -> Intents \cup {NoRow}]
    /\ decisionOutbox \in SUBSET Keys
    /\ pc \in [Workers -> Points]
    /\ call \in [Workers -> Call \cup {NoRow}]
    /\ \A w \in Workers : pc[w] = "idle" <=> call[w] = NoRow
    /\ \A w \in Workers : pc[w] \in Holding => Token(w) \in Tokens
    /\ commits \in [Keys -> 0..MaxCommits]
    /\ undone \in SUBSET Keys

\* boundary.py:106 "retries fail closed instead of mutating twice": whatever
\* callers crash, retry or race, one request commits at most one mutation.
AtMostOneMutation == \A k \in Keys : commits[k] <= 1

\* A receipt is durable only together with its mutation: the decision, its
\* outbox row and the applied request appear together, after the mutation
\* committed, and that mutation is never compensated afterwards.
ReceiptMeansMutated ==
    \A k \in Keys :
        requestLedger[k] # NoRow /\ requestLedger[k].state = "applied" =>
            /\ decisions[k] = requestLedger[k].intent
            /\ k \in decisionOutbox
            /\ commits[k] = 1 /\ k \notin undone

\* A request that was refused leaves no decision behind for the audit trail.
NoReceiptForRefused ==
    \A k \in Keys : decisions[k] # NoRow \/ k \in decisionOutbox =>
        requestLedger[k] # NoRow /\ requestLedger[k].state = "applied"

\* Only one caller at a time stands between the claim and the seal of a key.
OneHolder ==
    \A v, w \in Workers :
        pc[v] \in Holding /\ pc[w] \in Holding /\ Key(v) = Key(w) => v = w

\* A claim is never taken over and a sealed request never reopened: the intent
\* and the token of a row are written once, applied and failed are final.
ClaimsAreFinal ==
    [][\A k \in Keys : requestLedger[k] # NoRow =>
        /\ requestLedger'[k] # NoRow
        /\ requestLedger'[k].intent = requestLedger[k].intent
        /\ requestLedger'[k].token = requestLedger[k].token
        /\ requestLedger[k].state # "claimed" => requestLedger'[k] = requestLedger[k]]_vars

\* The ledger implements the promise of GovernedRequest: phases and intents are
\* read off request_ledger, the mutation off the domain database's history.
PhaseOf(k) ==
    IF requestLedger[k] = NoRow THEN "new"
    ELSE IF requestLedger[k].state = "claimed" THEN "open"
    ELSE IF requestLedger[k].state = "applied" THEN "applied"
    ELSE "refused"
IntentOf(k) == IF requestLedger[k] = NoRow THEN NoRow ELSE requestLedger[k].intent
MutationOf(k) ==
    IF k \in undone THEN "undone"
    ELSE IF commits[k] = 0 THEN "none"
    ELSE IF commits[k] = 1 THEN "committed"
    ELSE "repeated"

Promise == INSTANCE GovernedRequest WITH
    None <- NoRow,
    phase <- [k \in Keys |-> PhaseOf(k)],
    intent <- [k \in Keys |-> IntentOf(k)],
    mutation <- [k \in Keys |-> MutationOf(k)]

ImplementsPromise == Promise!Spec

\* Every call ends, whatever the other callers do: a retry of a request whose
\* owner died is refused rather than left waiting.
EveryCallReturns ==
    \A w \in Workers : pc[w] = "claim" ~> pc[w] \in Finished \cup {"idle"}
=============================================================================
