------------------------ MODULE MCActivationManifest ------------------------
EXTENDS ActivationManifest, TLC

CONSTANTS d1, d2

Operators == d1 :> {"prepare", "activate"} @@ d2 :> {"prepare", "rollback"}

Reruns == d1 :> {"prepare", "activate"} @@ d2 :> {"prepare"}
=============================================================================
