------------------------------- MODULE MCChat -------------------------------
(* Call lists and chunks for TLC. *)
EXTENDS Chat

MCCallLists == {<<"x", "y">>}
MCChunks == {<<"a">>, <<".">>, <<".", " ">>}
=============================================================================
