------------------------- MODULE MCSessionManager -------------------------
(* SessionManager for TLC: requests, sessions and patches are model values, *)
(* interchangeable in the runs that check no liveness.                      *)
EXTENDS SessionManager, TLC

Symmetry == Permutations(Posts) \cup Permutations(Sessions) \cup Permutations(Patches)
===========================================================================
