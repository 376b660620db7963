-------------------------- MODULE GovernedRequest --------------------------
(***************************************************************************)
(* What a governed mutation request promises its callers, with no ledger,  *)
(* token, worker or crash in sight: a request is opened once, with one     *)
(* intent; while it is open its mutation commits at most once and may be   *)
(* undone; it ends applied, with the mutation in place, or refused.  Ended *)
(* requests never change.  RequestFence implements this specification.     *)
(***************************************************************************)
CONSTANTS Keys, Intents, None

VARIABLES phase,       \* "new", "open", "applied" or "refused", by key
          intent,      \* the intent the request was opened with
          mutation     \* "none", "committed" or "undone", by key

vars == <<phase, intent, mutation>>

Init ==
    /\ phase = [k \in Keys |-> "new"]
    /\ intent = [k \in Keys |-> None]
    /\ mutation = [k \in Keys |-> "none"]

Open(k, i) ==
    /\ phase[k] = "new"
    /\ phase' = [phase EXCEPT ![k] = "open"]
    /\ intent' = [intent EXCEPT ![k] = i]
    /\ UNCHANGED mutation

Commit(k) ==
    /\ phase[k] = "open" /\ mutation[k] = "none"
    /\ mutation' = [mutation EXCEPT ![k] = "committed"]
    /\ UNCHANGED <<phase, intent>>

Undo(k) ==
    /\ phase[k] = "open" /\ mutation[k] = "committed"
    /\ mutation' = [mutation EXCEPT ![k] = "undone"]
    /\ UNCHANGED <<phase, intent>>

Apply(k) ==
    /\ phase[k] = "open" /\ mutation[k] = "committed"
    /\ phase' = [phase EXCEPT ![k] = "applied"]
    /\ UNCHANGED <<intent, mutation>>

Refuse(k) ==
    /\ phase[k] = "open"
    /\ phase' = [phase EXCEPT ![k] = "refused"]
    /\ UNCHANGED <<intent, mutation>>

Next == \E k \in Keys :
    \/ \E i \in Intents : Open(k, i)
    \/ Commit(k) \/ Undo(k) \/ Apply(k) \/ Refuse(k)

Spec == Init /\ [][Next]_vars
=============================================================================
