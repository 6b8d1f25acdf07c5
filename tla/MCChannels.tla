----------------------------- MODULE MCChannels -----------------------------
(* An instance of Channels for TLC: the producers are interchangeable, but   *)
(* liveness is checked, so there is no symmetry.                             *)
EXTENDS Channels
=============================================================================
