------------------------ MODULE RequestFence_proofs ------------------------
(***************************************************************************)
(* Proofs about RequestFence, for every set of callers, keys, intents and  *)
(* tokens.  The inductive invariant says, beyond the types, what a caller  *)
(* between the claim and the seal may rely on (HolderInv), what the        *)
(* history of a key is at each point of its holder (HistoryInv), and what  *)
(* a finished row guarantees.                                              *)
(***************************************************************************)
EXTENDS RequestFence, TLAPS

\* A caller past its claim owns the claimed row of its key: the row carries
\* the caller's own intent and token.
HolderInv ==
    \A w \in Workers : pc[w] \in Holding =>
        requestLedger[Key(w)] =
            [intent |-> Intent(w), state |-> "claimed", token |-> Token(w)]

\* The domain commits only under a claim, once per claim, and only a claim
\* that was not applied is compensated.
HistoryInv ==
    /\ \A k \in Keys : requestLedger[k] = NoRow => commits[k] = 0 /\ k \notin undone
    /\ \A w \in Workers :
          /\ pc[w] = "claimed" => commits[Key(w)] = 0
          /\ pc[w] \in {"claimed", "mutated", "compensate"} => Key(w) \notin undone
          /\ pc[w] \in {"mutated", "compensate"} => commits[Key(w)] = 1

IInv ==
    /\ TypeOK
    /\ HolderInv
    /\ OneHolder
    /\ HistoryInv
    /\ AtMostOneMutation
    /\ ReceiptMeansMutated
    /\ NoReceiptForRefused

-----------------------------------------------------------------------------

LEMMA InitIInv == Init => IInv
  BY MaxCommitsAssumption
  DEF Init, IInv, TypeOK, HolderInv, OneHolder, HistoryInv, AtMostOneMutation,
      ReceiptMeansMutated, NoReceiptForRefused, Points, Holding

\* A caller that is not idle works on a key and an intent.
LEMMA Busy ==
  ASSUME TypeOK, NEW w \in Workers, pc[w] # "idle"
  PROVE  call[w] \in Call /\ Key(w) \in Keys /\ Intent(w) \in Intents
                          /\ Token(w) \in Tokens \cup {NoRow}
  BY DEF TypeOK, Call, Key, Intent, Token

\* The row a holder claimed is there.
LEMMA HeldRow ==
  ASSUME IInv, NEW w \in Workers, pc[w] \in Holding
  PROVE  requestLedger[Key(w)] # NoRow
<1>1. Intent(w) \in Intents /\ Token(w) \in Tokens
  BY Busy DEF IInv, TypeOK, Holding
<1>2. [intent |-> Intent(w), state |-> "claimed", token |-> Token(w)] \in Claim
  BY <1>1 DEF Claim
<1> QED
  BY <1>2, NoRowAssumption DEF IInv, HolderInv

LEMMA HeldClaimed ==
  ASSUME IInv, NEW w \in Workers, pc[w] \in Holding
  PROVE  requestLedger[Key(w)].state = "claimed"
<1>1. requestLedger[Key(w)] = [intent |-> Intent(w), state |-> "claimed", token |-> Token(w)]
  BY DEF IInv, HolderInv
<1> QED
  BY <1>1

\* Type correctness is preserved by every step, on its own.
LEMMA TypeStep == TypeOK /\ [Next]_vars => TypeOK'
<1> SUFFICES ASSUME TypeOK, [Next]_vars PROVE TypeOK'
  OBVIOUS
<1> USE NoRowAssumption DEF Points, Holding, Finished, Goto, Token
<1>1. ASSUME NEW w \in Workers, NEW k \in Keys, NEW i \in Intents, Begin(w, k, i)
      PROVE  TypeOK'
  BY <1>1 DEF Begin, TypeOK, Call, fenceVars
<1>2. ASSUME NEW w \in Workers, NEW t \in Tokens, ClaimNew(w, t)
      PROVE  TypeOK'
  <2>1. Key(w) \in Keys /\ Intent(w) \in Intents
    BY <1>2, Busy DEF ClaimNew
  <2>2. requestLedger' \in [Keys -> Claim \cup {NoRow}]
    BY <1>2, <2>1 DEF ClaimNew, InsertClaim, TypeOK, Claim
  <2>3. call' \in [Workers -> Call \cup {NoRow}] /\ call'[w] # NoRow
    BY <1>2, <2>1 DEF ClaimNew, TypeOK, Call
  <2> QED
    BY <1>2, <2>2, <2>3 DEF ClaimNew, InsertClaim, TypeOK
<1>3. ASSUME NEW w \in Workers, ClaimConflict(w) \/ ClaimReplay(w) \/ ClaimRejected(w) \/ ClaimTimeout(w)
      PROVE  TypeOK'
  BY <1>3 DEF ClaimConflict, ClaimReplay, ClaimRejected, ClaimTimeout, TypeOK, fenceVars
<1>4. ASSUME NEW w \in Workers, Mutate(w)
      PROVE  TypeOK'
  <2>1. Key(w) \in Keys /\ commits[Key(w)] \in 0..MaxCommits
    BY <1>4, Busy DEF Mutate, TypeOK
  <2>2. commits[Key(w)] + 1 \in 0..MaxCommits
    BY <1>4, <2>1, MaxCommitsAssumption DEF Mutate
  <2> QED
    BY <1>4, <2>2 DEF Mutate, TypeOK, fenceVars
<1>5. ASSUME NEW w \in Workers, MutateFails(w) \/ RecordFails(w)
      PROVE  TypeOK'
  BY <1>5 DEF MutateFails, RecordFails, TypeOK, fenceVars
<1>6. ASSUME NEW w \in Workers, Compensate(w)
      PROVE  TypeOK'
  BY <1>6, Busy DEF Compensate, TypeOK, fenceVars
<1>7. ASSUME NEW w \in Workers, Record(w)
      PROVE  TypeOK'
  <2>1. Key(w) \in Keys /\ Intent(w) \in Intents
    BY <1>7, Busy DEF Record
  <2>2. requestLedger[Key(w)] \in Claim
    BY <1>7, <2>1 DEF Record, RecordDecision, HoldsClaim, TypeOK
  <2>3. requestLedger' \in [Keys -> Claim \cup {NoRow}]
    BY <1>7, <2>1, <2>2 DEF Record, RecordDecision, TypeOK, Claim, Sealed
  <2> QED
    BY <1>7, <2>1, <2>3 DEF Record, RecordDecision, TypeOK
<1>8. ASSUME NEW w \in Workers, Fail(w)
      PROVE  TypeOK'
  <2>1. Key(w) \in Keys
    BY <1>8, Busy DEF Fail
  <2>2. ASSUME SealFailed(Key(w), Token(w))
        PROVE  requestLedger' \in [Keys -> Claim \cup {NoRow}]
    <3>1. requestLedger[Key(w)] \in Claim
      BY <2>1, <2>2 DEF SealFailed, HoldsClaim, TypeOK
    <3> QED
      BY <2>1, <2>2, <3>1 DEF SealFailed, TypeOK, Claim, Sealed
  <2> QED
    BY <1>8, <2>2 DEF Fail, SealFailed, TypeOK, fenceVars
<1>9. ASSUME NEW w \in Workers, Return(w) \/ Crash(w)
      PROVE  TypeOK'
  BY <1>9 DEF Return, Crash, Leave, TypeOK, fenceVars
<1>10. CASE UNCHANGED vars
  BY <1>10 DEF vars, TypeOK
<1> QED
  BY <1>1, <1>2, <1>3, <1>4, <1>5, <1>6, <1>7, <1>8, <1>9, <1>10 DEF Next, Step

\* Type correctness of every reachable state.
THEOREM TypeCorrect == Spec => []TypeOK
<1>1. Init => TypeOK
  BY InitIInv DEF IInv
<1> QED
  BY <1>1, TypeStep, PTL DEF Spec

\* A step that leaves the ledger and the histories alone, and moves a caller
\* to a point that claims nothing new, preserves the invariant.
LEMMA QuietStep ==
  ASSUME IInv, TypeOK', NEW w \in Workers, NEW p \in {"fail"} \cup Finished,
         pc[w] \in {"claim"} \cup Holding, pc[w] = "claim" => p # "fail",
         Goto(w, p), UNCHANGED <<fenceVars, commits, undone>>
  PROVE  IInv'
<1> USE DEF Holding, Finished, Goto, fenceVars, Key, Intent, Token
<1>1. HolderInv'
  BY DEF IInv, HolderInv, TypeOK
<1>2. OneHolder'
  BY DEF IInv, OneHolder, TypeOK
<1>3. HistoryInv'
  BY DEF IInv, HistoryInv, TypeOK
<1>4. AtMostOneMutation' /\ ReceiptMeansMutated' /\ NoReceiptForRefused'
  BY DEF IInv, AtMostOneMutation, ReceiptMeansMutated, NoReceiptForRefused
<1> QED
  BY <1>1, <1>2, <1>3, <1>4 DEF IInv

\* The inductive step.
LEMMA InvStep == IInv /\ [Next]_vars => IInv'
<1> SUFFICES ASSUME IInv, [Next]_vars PROVE IInv'
  OBVIOUS
<1>0. TypeOK /\ TypeOK'
  BY TypeStep DEF IInv
<1> USE <1>0
<1>1. ASSUME NEW w \in Workers, NEW k \in Keys, NEW i \in Intents, Begin(w, k, i)
      PROVE  IInv'
  BY <1>1 DEF Begin, fenceVars, IInv, HolderInv, OneHolder, HistoryInv, TypeOK, Holding,
      AtMostOneMutation, ReceiptMeansMutated, NoReceiptForRefused, Key, Intent, Token
<1>2. ASSUME NEW w \in Workers, NEW t \in Tokens, ClaimNew(w, t)
      PROVE  IInv'
  <2>1. /\ Key(w) \in Keys /\ Intent(w) \in Intents /\ requestLedger[Key(w)] = NoRow
        /\ Key(w)' = Key(w) /\ Intent(w)' = Intent(w) /\ Token(w)' = t
        /\ \A v \in Workers \ {w} : pc'[v] = pc[v] /\ call'[v] = call[v]
        /\ requestLedger' = [requestLedger EXCEPT ![Key(w)] =
                               [intent |-> Intent(w), state |-> "claimed", token |-> t]]
        /\ pc'[w] = "claimed"
    BY <1>2, Busy DEF ClaimNew, InsertClaim, TypeOK, Key, Intent, Token
  <2>2. \A v \in Workers : pc[v] \in Holding => Key(v) # Key(w)
    BY <2>1, HeldRow
  <2>3. HolderInv'
    BY <2>1, <2>2 DEF IInv, HolderInv, TypeOK, Key, Intent, Token
  <2>4. OneHolder'
    BY <2>1, <2>2 DEF IInv, OneHolder, Key
  <2>5. UNCHANGED <<commits, undone, decisions, decisionOutbox>>
    BY <1>2 DEF ClaimNew, InsertClaim
  <2>6. HistoryInv'
    BY <2>1, <2>2, <2>5 DEF IInv, HistoryInv, TypeOK, Key, Holding
  <2>7. AtMostOneMutation' /\ ReceiptMeansMutated' /\ NoReceiptForRefused'
    BY <2>1, <2>5 DEF IInv, AtMostOneMutation, ReceiptMeansMutated, NoReceiptForRefused, TypeOK
  <2> QED
    BY <2>3, <2>4, <2>6, <2>7 DEF IInv
<1>3. ASSUME NEW w \in Workers,
             \/ ClaimConflict(w) \/ ClaimReplay(w) \/ ClaimRejected(w) \/ ClaimTimeout(w)
             \/ MutateFails(w)
      PROVE  IInv'
  BY <1>3, QuietStep DEF ClaimConflict, ClaimReplay, ClaimRejected, ClaimTimeout, MutateFails,
      Holding, Finished
<1>4. ASSUME NEW w \in Workers, Mutate(w)
      PROVE  IInv'
  <2>1. /\ Key(w) \in Keys /\ commits[Key(w)] = 0 /\ pc[w] = "claimed" /\ pc[w] \in Holding
        /\ pc' = [pc EXCEPT ![w] = "mutated"] /\ UNCHANGED call
        /\ commits' = [commits EXCEPT ![Key(w)] = 1]
        /\ UNCHANGED <<requestLedger, decisions, decisionOutbox, undone>>
    <3>1. pc[w] = "claimed" /\ Key(w) \in Keys
      BY <1>4, Busy DEF Mutate
    <3>2. commits[Key(w)] = 0
      BY <3>1 DEF IInv, HistoryInv
    <3> QED
      BY <1>4, <3>1, <3>2 DEF Mutate, Goto, fenceVars, Holding
  <2>2. requestLedger[Key(w)] = [intent |-> Intent(w), state |-> "claimed", token |-> Token(w)]
    BY <2>1 DEF IInv, HolderInv
  <2>3. requestLedger[Key(w)] # NoRow
    BY <2>1, HeldRow
  <2>4. HolderInv' /\ OneHolder'
    BY <2>1 DEF IInv, HolderInv, OneHolder, TypeOK, Holding, Key, Intent, Token
  <2>5. \A v \in Workers : pc[v] \in Holding /\ v # w => Key(v) # Key(w)
    BY <2>1 DEF IInv, OneHolder
  <2>6. HistoryInv'
    BY <2>1, <2>3, <2>5 DEF IInv, HistoryInv, TypeOK, Holding, Key
  <2>7. AtMostOneMutation' /\ ReceiptMeansMutated' /\ NoReceiptForRefused'
    BY <2>1, <2>2 DEF IInv, AtMostOneMutation, ReceiptMeansMutated, NoReceiptForRefused, TypeOK
  <2> QED
    BY <2>4, <2>6, <2>7 DEF IInv
<1>5. ASSUME NEW w \in Workers, RecordFails(w)
      PROVE  IInv'
  BY <1>5 DEF RecordFails, Goto, fenceVars, IInv, HolderInv, OneHolder, HistoryInv, TypeOK, Holding,
      AtMostOneMutation, ReceiptMeansMutated, NoReceiptForRefused, Key, Intent, Token
<1>6. ASSUME NEW w \in Workers, Compensate(w)
      PROVE  IInv'
  <2>1. /\ Key(w) \in Keys /\ pc[w] = "compensate" /\ pc[w] \in Holding
        /\ pc' = [pc EXCEPT ![w] = "fail"] /\ UNCHANGED call
        /\ undone' \in {undone, undone \cup {Key(w)}}
        /\ UNCHANGED <<requestLedger, decisions, decisionOutbox, commits>>
    BY <1>6, Busy DEF Compensate, Goto, fenceVars, Holding
  <2>2. requestLedger[Key(w)] = [intent |-> Intent(w), state |-> "claimed", token |-> Token(w)]
    BY <2>1 DEF IInv, HolderInv
  <2>3. requestLedger[Key(w)] # NoRow
    BY <2>1, HeldRow
  <2>4. HolderInv' /\ OneHolder'
    BY <2>1 DEF IInv, HolderInv, OneHolder, TypeOK, Holding, Key, Intent, Token
  <2>5. \A v \in Workers : pc[v] \in Holding /\ v # w => Key(v) # Key(w)
    BY <2>1 DEF IInv, OneHolder
  <2>6. HistoryInv'
    BY <2>1, <2>3, <2>5 DEF IInv, HistoryInv, TypeOK, Holding, Key
  <2>7. AtMostOneMutation' /\ ReceiptMeansMutated' /\ NoReceiptForRefused'
    BY <2>1, <2>2 DEF IInv, AtMostOneMutation, ReceiptMeansMutated, NoReceiptForRefused, TypeOK
  <2> QED
    BY <2>4, <2>6, <2>7 DEF IInv
<1>7. ASSUME NEW w \in Workers, Record(w)
      PROVE  IInv'
  <2>1. /\ Key(w) \in Keys /\ Intent(w) \in Intents /\ pc[w] = "mutated" /\ pc[w] \in Holding
        /\ pc' = [pc EXCEPT ![w] = "receipt"] /\ UNCHANGED call
        /\ UNCHANGED <<commits, undone>>
        /\ decisions' = [decisions EXCEPT ![Key(w)] = Intent(w)]
        /\ decisionOutbox' = decisionOutbox \cup {Key(w)}
    BY <1>7, Busy DEF Record, RecordDecision, Goto, Holding
  <2>2. requestLedger[Key(w)] = [intent |-> Intent(w), state |-> "claimed", token |-> Token(w)]
    BY <2>1 DEF IInv, HolderInv
  <2>3. requestLedger' = [requestLedger EXCEPT ![Key(w)] =
                            [intent |-> Intent(w), state |-> "applied", token |-> Token(w)]]
    BY <1>7, <2>2 DEF Record, RecordDecision, Sealed
  <2>4. requestLedger[Key(w)] # NoRow /\ requestLedger'[Key(w)] # NoRow
    <3>1. [intent |-> Intent(w), state |-> "applied", token |-> Token(w)] \in Claim
      BY <2>1 DEF TypeOK, Claim
    <3> QED
      BY <2>1, <2>3, <3>1, HeldRow, NoRowAssumption DEF IInv, TypeOK
  <2>5. \A v \in Workers : pc'[v] \in Holding => v # w /\ pc[v] = pc'[v] /\ Key(v) # Key(w)
    BY <2>1 DEF IInv, OneHolder, TypeOK, Holding
  <2>6. HolderInv'
    BY <2>1, <2>3, <2>5 DEF IInv, HolderInv, TypeOK, Key, Intent, Token
  <2>7. OneHolder'
    BY <2>1, <2>5 DEF IInv, OneHolder, Key
  <2>8. HistoryInv'
    BY <2>1, <2>3, <2>4, <2>5 DEF IInv, HistoryInv, TypeOK, Holding, Key
  <2>9. commits[Key(w)] = 1 /\ Key(w) \notin undone
    BY <2>1 DEF IInv, HistoryInv
  <2>10. AtMostOneMutation' /\ ReceiptMeansMutated' /\ NoReceiptForRefused'
    BY <2>1, <2>3, <2>4, <2>9
    DEF IInv, AtMostOneMutation, ReceiptMeansMutated, NoReceiptForRefused, TypeOK
  <2> QED
    BY <2>6, <2>7, <2>8, <2>10 DEF IInv
<1>8. ASSUME NEW w \in Workers, Fail(w)
      PROVE  IInv'
  <2>1. /\ Key(w) \in Keys /\ pc[w] = "fail" /\ pc[w] \in Holding
        /\ Goto(w, "error") /\ UNCHANGED <<commits, undone>>
    BY <1>8, Busy DEF Fail, Holding
  <2>2. CASE UNCHANGED fenceVars
    BY <2>1, <2>2, QuietStep DEF Holding, Finished
  <2>3. CASE SealFailed(Key(w), Token(w))
    <3>1. requestLedger[Key(w)] = [intent |-> Intent(w), state |-> "claimed", token |-> Token(w)]
      BY <2>1 DEF IInv, HolderInv
    <3>2. /\ requestLedger' = [requestLedger EXCEPT ![Key(w)] =
                               [intent |-> Intent(w), state |-> "failed", token |-> Token(w)]]
          /\ UNCHANGED <<decisions, decisionOutbox>>
      BY <2>3, <3>1 DEF SealFailed, Sealed
    <3>3. requestLedger[Key(w)] # NoRow /\ requestLedger'[Key(w)] # NoRow
      <4>1. [intent |-> Intent(w), state |-> "failed", token |-> Token(w)] \in Claim
        BY <2>1, Busy DEF TypeOK, Claim, Holding
      <4> QED
        BY <2>1, <3>2, <4>1, HeldRow, NoRowAssumption DEF IInv, TypeOK
    <3>4. \A v \in Workers : pc'[v] \in Holding => v # w /\ pc[v] = pc'[v] /\ Key(v) # Key(w)
      BY <2>1 DEF IInv, OneHolder, TypeOK, Holding, Goto
    <3>5. HolderInv' /\ OneHolder'
      BY <2>1, <3>2, <3>4 DEF IInv, HolderInv, OneHolder, TypeOK, Key, Intent, Token, Goto
    <3>6. HistoryInv'
      BY <2>1, <3>2, <3>3, <3>4 DEF IInv, HistoryInv, TypeOK, Holding, Key, Goto
    <3>7. AtMostOneMutation' /\ ReceiptMeansMutated' /\ NoReceiptForRefused'
      BY <2>1, <3>1, <3>2, <3>3
      DEF IInv, AtMostOneMutation, ReceiptMeansMutated, NoReceiptForRefused, TypeOK
    <3> QED
      BY <3>5, <3>6, <3>7 DEF IInv
  <2> QED
    BY <1>8, <2>2, <2>3 DEF Fail
<1>9. ASSUME NEW w \in Workers, Return(w) \/ Crash(w)
      PROVE  IInv'
  BY <1>9 DEF Return, Crash, Leave, fenceVars, IInv, HolderInv, OneHolder, HistoryInv, TypeOK, Holding,
      AtMostOneMutation, ReceiptMeansMutated, NoReceiptForRefused, Key, Intent, Token
<1>10. CASE UNCHANGED vars
  BY <1>10 DEF vars, IInv, HolderInv, OneHolder, HistoryInv, TypeOK,
      AtMostOneMutation, ReceiptMeansMutated, NoReceiptForRefused, Key, Intent, Token
<1> QED
  BY <1>1, <1>2, <1>3, <1>4, <1>5, <1>6, <1>7, <1>8, <1>9, <1>10 DEF Next, Step

\* The inductive invariant: a caller between its claim and its seal owns the
\* claimed row of its key, and the history of the key is the one its step in
\* put_atom, tombstone, restore or supersede implies.
THEOREM Inductive == Spec => []IInv
  BY InitIInv, InvStep, PTL DEF Spec

\* One request commits at most one mutation, however its callers crash, retry
\* and race (boundary.py, _claim_request).
THEOREM MutatesAtMostOnce == Spec => []AtMostOneMutation
  BY Inductive, PTL DEF IInv

\* A request that was refused leaves no decision behind (boundary.py, _call).
THEOREM RefusedHaveNoReceipt == Spec => []NoReceiptForRefused
  BY Inductive, PTL DEF IInv

\* A durable receipt and its mutation come together, and neither goes away.
THEOREM ReceiptsAreHonest == Spec => []ReceiptMeansMutated
  BY Inductive, PTL DEF IInv

\* Between the claim and the seal of a key there is one caller at a time.
THEOREM HoldersAreAlone == Spec => []OneHolder
  BY Inductive, PTL DEF IInv

-----------------------------------------------------------------------------

\* The rows a step writes: an absent row becomes claimed, a claimed row keeps
\* its intent and token, a sealed row is never written again.
LEMMA FinalStep ==
  ASSUME TypeOK, [Next]_vars, NEW k \in Keys, requestLedger[k] # NoRow
  PROVE  /\ requestLedger'[k] # NoRow
         /\ requestLedger'[k].intent = requestLedger[k].intent
         /\ requestLedger'[k].token = requestLedger[k].token
         /\ requestLedger[k].state # "claimed" => requestLedger'[k] = requestLedger[k]
<1>1. CASE requestLedger'[k] = requestLedger[k]
  BY <1>1
<1>2. CASE requestLedger'[k] # requestLedger[k]
  <2>1. PICK w \in Workers : Record(w) \/ (Fail(w) /\ SealFailed(Key(w), Token(w)))
                             \/ \E t \in Tokens : ClaimNew(w, t)
    BY <1>2 DEF Next, Step, Begin, ClaimConflict, ClaimReplay, ClaimRejected, ClaimTimeout,
        Mutate, MutateFails, RecordFails, Compensate, Fail, Return, Crash, fenceVars, vars
  <2>2. CASE \E t \in Tokens : ClaimNew(w, t)
    BY <1>2, <2>2 DEF ClaimNew, InsertClaim, TypeOK
  <2>3. CASE Record(w) \/ (Fail(w) /\ SealFailed(Key(w), Token(w)))
    <3>1. PICK s \in {"applied", "failed"} :
            requestLedger' = [requestLedger EXCEPT ![Key(w)] = Sealed(Key(w), s)]
      BY <2>3 DEF Record, RecordDecision, SealFailed
    <3>2. k = Key(w) /\ requestLedger[k].state = "claimed"
      BY <1>2, <2>3, <3>1 DEF Record, RecordDecision, SealFailed, HoldsClaim, TypeOK
    <3>3. requestLedger[k] \in Claim
      BY DEF TypeOK
    <3>4. requestLedger'[k] = Sealed(k, s)
      BY <3>1, <3>2 DEF TypeOK
    <3>5. Sealed(k, s) \in Claim
      BY <3>3 DEF Sealed, Claim
    <3> QED
      BY <3>2, <3>4, <3>5, NoRowAssumption DEF Sealed
  <2> QED
    BY <2>1, <2>2, <2>3
<1> QED
  BY <1>1, <1>2

\* Claims are never taken over and sealed requests never reopened.
THEOREM ClaimsStayFinal == Spec => ClaimsAreFinal
<1>1. TypeOK /\ [Next]_vars =>
        [\A k \in Keys : requestLedger[k] # NoRow =>
            /\ requestLedger'[k] # NoRow
            /\ requestLedger'[k].intent = requestLedger[k].intent
            /\ requestLedger'[k].token = requestLedger[k].token
            /\ requestLedger[k].state # "claimed" => requestLedger'[k] = requestLedger[k]]_vars
  BY FinalStep
<1> QED
  BY <1>1, TypeCorrect, PTL DEF Spec, ClaimsAreFinal

-----------------------------------------------------------------------------
(* RequestFence implements GovernedRequest.                                *)

LEMMA PromiseInit == Init => Promise!Init
  BY DEF Init, Promise!Init, PhaseOf, IntentOf, MutationOf

\* A step that writes neither ledger rows nor histories is a stutter.
LEMMA PromiseStutter ==
  ASSUME UNCHANGED <<requestLedger, commits, undone>>
  PROVE  UNCHANGED Promise!vars
  BY DEF Promise!vars, PhaseOf, IntentOf, MutationOf

\* What is read of one key changes, what is read of the others does not: the
\* steps of GovernedRequest, key by key.
OthersKept(k) == \A j \in Keys \ {k} :
    PhaseOf(j)' = PhaseOf(j) /\ IntentOf(j)' = IntentOf(j) /\ MutationOf(j)' = MutationOf(j)

LEMMA OpenAt ==
  ASSUME NEW k \in Keys, NEW i \in Intents, OthersKept(k),
         PhaseOf(k) = "new", PhaseOf(k)' = "open", IntentOf(k)' = i,
         MutationOf(k)' = MutationOf(k)
  PROVE  Promise!Next
<1>1. Promise!Open(k, i)
  BY DEF Promise!Open, OthersKept
<1> QED
  BY <1>1 DEF Promise!Next

LEMMA CommitAt ==
  ASSUME NEW k \in Keys, OthersKept(k), PhaseOf(k) = "open", PhaseOf(k)' = PhaseOf(k),
         IntentOf(k)' = IntentOf(k), MutationOf(k) = "none", MutationOf(k)' = "committed"
  PROVE  Promise!Next
<1>1. Promise!Commit(k)
  BY DEF Promise!Commit, OthersKept
<1> QED
  BY <1>1 DEF Promise!Next

LEMMA UndoAt ==
  ASSUME NEW k \in Keys, OthersKept(k), PhaseOf(k) = "open", PhaseOf(k)' = PhaseOf(k),
         IntentOf(k)' = IntentOf(k), MutationOf(k) = "committed", MutationOf(k)' = "undone"
  PROVE  Promise!Next
<1>1. Promise!Undo(k)
  BY DEF Promise!Undo, OthersKept
<1> QED
  BY <1>1 DEF Promise!Next

LEMMA ApplyAt ==
  ASSUME NEW k \in Keys, OthersKept(k), PhaseOf(k) = "open", PhaseOf(k)' = "applied",
         IntentOf(k)' = IntentOf(k), MutationOf(k) = "committed",
         MutationOf(k)' = MutationOf(k)
  PROVE  Promise!Next
<1>1. Promise!Apply(k)
  BY DEF Promise!Apply, OthersKept
<1> QED
  BY <1>1 DEF Promise!Next

LEMMA RefuseAt ==
  ASSUME NEW k \in Keys, OthersKept(k), PhaseOf(k) = "open", PhaseOf(k)' = "refused",
         IntentOf(k)' = IntentOf(k), MutationOf(k)' = MutationOf(k)
  PROVE  Promise!Next
<1>1. Promise!Refuse(k)
  BY DEF Promise!Refuse, OthersKept
<1> QED
  BY <1>1 DEF Promise!Next

LEMMA PromiseStep == IInv /\ IInv' /\ [Next]_vars => [Promise!Next]_(Promise!vars)
<1> SUFFICES ASSUME IInv, IInv', [Next]_vars PROVE [Promise!Next]_(Promise!vars)
  OBVIOUS
<1>0. TypeOK /\ TypeOK'
  BY DEF IInv
<1>1. ASSUME NEW w \in Workers, NEW t \in Tokens, ClaimNew(w, t)
      PROVE  Promise!Next
  <2>1. Key(w) \in Keys /\ Intent(w) \in Intents
    BY <1>0, <1>1, Busy DEF ClaimNew
  <2>2. PICK k \in Keys, i \in Intents : k = Key(w) /\ i = Intent(w)
    BY <2>1
  <2>3. /\ requestLedger[k] = NoRow
        /\ requestLedger' = [requestLedger EXCEPT ![k] = [intent |-> i, state |-> "claimed", token |-> t]]
        /\ UNCHANGED <<commits, undone>>
    BY <1>1, <2>2 DEF ClaimNew, InsertClaim
  <2>4. [intent |-> i, state |-> "claimed", token |-> t] # NoRow
    BY NoRowAssumption DEF Claim
  <2>5. requestLedger'[k] = [intent |-> i, state |-> "claimed", token |-> t]
    BY <1>0, <2>3 DEF TypeOK
  <2>6. OthersKept(k) /\ MutationOf(k)' = MutationOf(k)
    <3>1. \A j \in Keys \ {k} : requestLedger'[j] = requestLedger[j]
      BY <1>0, <2>3 DEF TypeOK
    <3>2. commits' = commits /\ undone' = undone
      BY <1>0, <2>3
    <3>3. \A j \in Keys : MutationOf(j)' = MutationOf(j)
      BY <3>2 DEF MutationOf
    <3>4. \A j \in Keys \ {k} : PhaseOf(j)' = PhaseOf(j) /\ IntentOf(j)' = IntentOf(j)
      BY <3>1 DEF PhaseOf, IntentOf
    <3> QED
      BY <3>3, <3>4 DEF OthersKept
  <2>7. PhaseOf(k) = "new" /\ PhaseOf(k)' = "open" /\ IntentOf(k)' = i
    BY <2>3, <2>4, <2>5 DEF PhaseOf, IntentOf
  <2> QED
    BY <2>6, <2>7, OpenAt
<1>2. ASSUME NEW w \in Workers, Mutate(w)
      PROVE  Promise!Next
  <2>1. Key(w) \in Keys /\ pc[w] = "claimed" /\ pc[w] \in Holding
    BY <1>0, <1>2, Busy DEF Mutate, Holding
  <2>2. PICK k \in Keys : k = Key(w)
    BY <2>1
  <2>3. commits[k] = 0 /\ k \notin undone
    BY <2>1, <2>2 DEF IInv, HistoryInv
  <2>4. requestLedger[k] # NoRow /\ requestLedger[k].state = "claimed"
    BY <2>1, <2>2, HeldRow, HeldClaimed
  <2>5. commits' = [commits EXCEPT ![k] = 1] /\ UNCHANGED <<requestLedger, undone>>
    BY <1>2, <2>2, <2>3 DEF Mutate, fenceVars
  <2>6. OthersKept(k)
    BY <1>0, <2>5 DEF OthersKept, PhaseOf, IntentOf, MutationOf, TypeOK
  <2>7. PhaseOf(k) = "open" /\ PhaseOf(k)' = PhaseOf(k) /\ IntentOf(k)' = IntentOf(k)
    BY <2>4, <2>5 DEF PhaseOf, IntentOf
  <2>8. MutationOf(k) = "none" /\ MutationOf(k)' = "committed"
    BY <1>0, <2>3, <2>5 DEF MutationOf, TypeOK
  <2> QED
    BY <2>6, <2>7, <2>8, CommitAt
<1>3. ASSUME NEW w \in Workers, Compensate(w)
      PROVE  [Promise!Next]_(Promise!vars)
  <2>1. Key(w) \in Keys /\ pc[w] = "compensate" /\ pc[w] \in Holding
    BY <1>0, <1>3, Busy DEF Compensate, Holding
  <2>2. PICK k \in Keys : k = Key(w)
    BY <2>1
  <2>3. commits[k] = 1 /\ k \notin undone
    BY <2>1, <2>2 DEF IInv, HistoryInv
  <2>4. requestLedger[k] # NoRow /\ requestLedger[k].state = "claimed"
    BY <2>1, <2>2, HeldRow, HeldClaimed
  <2>5. UNCHANGED <<requestLedger, commits>>
    BY <1>3 DEF Compensate, fenceVars
  <2>6. CASE undone' = undone
    BY <2>5, <2>6, PromiseStutter
  <2>7. CASE undone' = undone \cup {k}
    <3>1. OthersKept(k)
      BY <2>5, <2>7 DEF OthersKept, PhaseOf, IntentOf, MutationOf
    <3>2. PhaseOf(k) = "open" /\ PhaseOf(k)' = PhaseOf(k) /\ IntentOf(k)' = IntentOf(k)
      BY <2>4, <2>5 DEF PhaseOf, IntentOf
    <3>3. MutationOf(k) = "committed" /\ MutationOf(k)' = "undone"
      BY <2>3, <2>7 DEF MutationOf
    <3> QED
      BY <3>1, <3>2, <3>3, UndoAt
  <2> QED
    BY <1>3, <2>2, <2>6, <2>7 DEF Compensate
<1>4. ASSUME NEW w \in Workers, NEW s \in {"applied", "failed"},
             pc[w] \in Holding, HoldsClaim(Key(w), Token(w)),
             s = "applied" => pc[w] = "mutated",
             requestLedger' = [requestLedger EXCEPT ![Key(w)] = Sealed(Key(w), s)],
             UNCHANGED <<commits, undone>>
      PROVE  Promise!Next
  <2>1. Key(w) \in Keys
    BY <1>0, <1>4, Busy DEF Holding
  <2>2. PICK k \in Keys : k = Key(w)
    BY <2>1
  <2>3. requestLedger[k] \in Claim /\ requestLedger[k].state = "claimed"
    BY <1>0, <1>4, <2>2 DEF TypeOK, HoldsClaim
  <2>4. /\ Sealed(k, s) \in Claim
        /\ Sealed(k, s).state = s /\ Sealed(k, s).intent = requestLedger[k].intent
    BY <2>3 DEF Sealed, Claim
  <2>5. requestLedger'[k] = Sealed(k, s)
    BY <1>0, <1>4, <2>2 DEF TypeOK
  <2>6. OthersKept(k) /\ MutationOf(k)' = MutationOf(k)
    <3>1. \A j \in Keys \ {k} : requestLedger'[j] = requestLedger[j]
      BY <1>0, <1>4, <2>2 DEF TypeOK
    <3>2. commits' = commits /\ undone' = undone
      BY <1>0, <1>4, <2>2
    <3>3. \A j \in Keys : MutationOf(j)' = MutationOf(j)
      BY <3>2 DEF MutationOf
    <3>4. \A j \in Keys \ {k} : PhaseOf(j)' = PhaseOf(j) /\ IntentOf(j)' = IntentOf(j)
      BY <3>1 DEF PhaseOf, IntentOf
    <3> QED
      BY <3>3, <3>4 DEF OthersKept
  <2>7. PhaseOf(k) = "open" /\ IntentOf(k)' = IntentOf(k)
    BY <2>3, <2>4, <2>5, NoRowAssumption DEF PhaseOf, IntentOf
  <2>8. CASE s = "applied"
    <3>1. PhaseOf(k)' = "applied"
      BY <2>4, <2>5, <2>8, NoRowAssumption DEF PhaseOf
    <3>2. commits[k] = 1 /\ k \notin undone
      BY <1>4, <2>2, <2>8 DEF IInv, HistoryInv
    <3>3. MutationOf(k) = "committed"
      BY <3>2 DEF MutationOf
    <3> QED
      BY <2>6, <2>7, <3>1, <3>3, ApplyAt
  <2>9. CASE s = "failed"
    <3>1. PhaseOf(k)' = "refused"
      BY <2>4, <2>5, <2>9, NoRowAssumption DEF PhaseOf
    <3> QED
      BY <2>6, <2>7, <3>1, RefuseAt
  <2> QED
    BY <2>8, <2>9
<1>5. ASSUME NEW w \in Workers, Record(w) \/ Fail(w)
      PROVE  [Promise!Next]_(Promise!vars)
  <2>1. CASE Record(w)
    BY <1>4, <2>1 DEF Record, RecordDecision, Holding
  <2>2. CASE Fail(w) /\ SealFailed(Key(w), Token(w))
    BY <1>4, <2>2 DEF Fail, SealFailed, Holding
  <2>3. CASE Fail(w) /\ UNCHANGED fenceVars
    BY <2>3, PromiseStutter DEF Fail, fenceVars
  <2> QED
    BY <1>5, <2>1, <2>2, <2>3 DEF Fail
<1>6. ASSUME UNCHANGED <<requestLedger, commits, undone>>
      PROVE  [Promise!Next]_(Promise!vars)
  BY <1>6, PromiseStutter
<1> QED
  BY <1>1, <1>2, <1>3, <1>5, <1>6
  DEF Next, Step, Begin, ClaimConflict, ClaimReplay, ClaimRejected, ClaimTimeout,
      MutateFails, RecordFails, Return, Crash, fenceVars, vars

\* The fence keeps the promise: every behaviour of the detailed protocol is one
\* of GovernedRequest under the refinement mapping.
THEOREM FenceImplementsPromise == Spec => ImplementsPromise
  BY PromiseInit, PromiseStep, Inductive, PTL DEF Spec, ImplementsPromise, Promise!Spec
=============================================================================
