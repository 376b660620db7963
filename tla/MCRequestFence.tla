--------------------------- MODULE MCRequestFence ---------------------------
(* RequestFence on a small instance: two callers, of which either may die  *)
(* and come back, two keys, two intents, as many tokens as there are keys. *)
EXTENDS RequestFence, TLC
=============================================================================
