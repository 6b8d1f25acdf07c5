--------------------------- MODULE MCEndOfSpeech ---------------------------
(* The detector: each configuration names its own queue and bounds.         *)
EXTENDS EndOfSpeech
=============================================================================
