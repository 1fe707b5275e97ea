------------------------------ MODULE MCReflex ------------------------------
(* The arm's brake and pick, and transcripts that revise one another. *)
EXTENDS Reflex

MCNames == {"stop", "pick"}

NoPhrases == [match |-> {}, starts |-> {}, after |-> {}, capture |-> FALSE,
              settle |-> FALSE, once |-> FALSE]
stopTool ==
    [name |-> "stop", topic |-> "arm", props |-> {}, gated |-> FALSE,
     internal |-> FALSE, requires |-> FALSE,
     on |-> [NoPhrases EXCEPT !.match = {<<"stop">>}, !.starts = {<<"wait">>},
                              !.once = TRUE]]
pickTool == [stopTool EXCEPT !.name = "pick", !.props = {"label"},
    !.on = [NoPhrases EXCEPT !.capture = TRUE, !.settle = TRUE,
              !.after = {<<"grab">>, <<"grab", "the">>, <<"no", "the">>}]]

MCContents == {[kind |-> "manifest", named |-> TRUE, fields |-> None,
                tools |-> <<stopTool, pickTool>>, exec |-> FALSE,
                language |-> "none", events |-> FALSE, enabled |-> "on"]}
MCDeclared == {<<>>}

MCArgs == {NoArgs, [label |-> <<"red">>, n |-> 0], [label |-> <<"mug">>, n |-> 0]}
MCTopics == {"arm"}
MCTexts == {<<"wait">>, <<"grab", "the">>, <<"grab", "the", "red">>,
            <<"grab", "the", "red", "no", "the", "mug">>,
            <<"grab", "the", "red", "stop">>}
==============================================================================
