------------------------ MODULE MCGovernanceBoundary ------------------------
(* Two instances in one run: one caller with three requests that build on  *)
(* each other, or two callers that race on one atom.                       *)
EXTENDS GovernanceBoundary, TLC

CONSTANTS a1, a2, a3, b0, b1, k1, k2, k3, k4, k5, t1, t2, t3, w2

R(op, atom, other, body) == [op |-> op, atom |-> atom, other |-> other, body |-> body]

AllRequests == Requests

\* An import, a supersession and a restore that may undo it.
SequentialRequests == k1 :> R("put", a3, a3, b1)
                      @@ k2 :> R("supersede", a1, a2, b0)
                      @@ k3 :> R("restore", a1, a1, b0)

\* A correction and a tombstone of the same atom.
RacingRequests == k4 :> R("put", a1, a1, b1) @@ k5 :> R("tombstone", a1, a1, b0)

EitherRequests == SequentialRequests @@ RacingRequests

\* A correction of an atom that is shown.
CorrectionRequest == k1 :> R("put", a1, a1, b1)

\* A key is claimed at most once, so the token that it draws may be fixed.
Draws == k1 :> t1 @@ k2 :> t2 @@ k3 :> t3 @@ k4 :> t1 @@ k5 :> t2

VARIABLE instance

mcVars == <<boundaryVars, instance>>

Within ==
    /\ instance' = instance
    /\ \A w \in Workers : call'[w] # NoRow =>
         /\ IF instance = "sequential" THEN w # w2 /\ call'[w].key \in {k1, k2, k3}
            ELSE call'[w].key \in {k4, k5}
         /\ call'[w].token \in {NoRow, Draws[call'[w].key]}

MCInit == BoundaryInit /\ instance \in {"sequential", "races"}
MCSpec == MCInit /\ [][BoundaryNext /\ Within]_mcVars
=============================================================================
