--------------------------- MODULE MCRegistration ---------------------------
(* The instances play the same role: safety runs take one of each class of  *)
(* states that differ by swapping them, liveness runs do not.               *)
EXTENDS Registration, TLC

Swaps == Permutations(Instances)
=============================================================================
