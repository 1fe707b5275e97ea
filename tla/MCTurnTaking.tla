---------------------------- MODULE MCTurnTaking ----------------------------
(* Utterances for TLC: an acknowledgement, an unfinished request and        *)
(* nothing, with the confidence the provider reports.                       *)
EXTENDS TurnTaking

MCFinals == {<<<<"yeah", ".">>, "high">>, <<<<"book", "and">>, "low">>,
             <<<<>>, "unknown">>}
MCPartials == {<<"yeah">>, <<"stop">>, <<"wait">>}
=============================================================================
