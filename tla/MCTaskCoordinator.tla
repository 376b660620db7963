------------------------- MODULE MCTaskCoordinator -------------------------
(* One process is asked for everything, another starts exclusive runs.     *)
EXTENDS TaskCoordinator, TLC

CONSTANTS p1, p2

TwoWindows == p1 :> {"start", "exclusive", "cancel", "shutdown"} @@ p2 :> {"exclusive"}

OneWindow == p1 :> {"exclusive"} @@ p2 :> {}
=============================================================================
