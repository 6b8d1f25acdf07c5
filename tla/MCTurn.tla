------------------------------- MODULE MCTurn -------------------------------
(* Turn has only bounds as constants; the configurations give them. *)
EXTENDS Turn
=============================================================================
