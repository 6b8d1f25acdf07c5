-------------------------- MODULE MCModelExecutor --------------------------
(* ModelExecutor has only bounds as constants; the configurations give them. *)
EXTENDS ModelExecutor
=============================================================================
