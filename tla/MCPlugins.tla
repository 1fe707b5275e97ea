------------------------------ MODULE MCPlugins ------------------------------
(* Manifests small enough for TLC to try every directory made of them. *)
EXTENDS Plugins, TLC

MCNames == {"stop", "pay", "look"}

Tool(name, topic) ==
    [name |-> name, topic |-> topic, props |-> {"n"}, gated |-> FALSE,
     internal |-> FALSE, requires |-> FALSE, on |-> None]

\* A packet, a tool behind the gate, an internal one that needs a frame, and a
\* dispatch block that names no topic
stopTool == Tool("stop", "arm")
payTool == [Tool("pay", "none") EXCEPT !.gated = TRUE]
lookTool == [Tool("look", "none") EXCEPT !.internal = TRUE, !.requires = TRUE]
blankTool == Tool("stop", "blank")

Plain == [kind |-> "manifest", named |-> TRUE, fields |-> None, tools |-> <<>>,
          exec |-> FALSE, language |-> "none", events |-> FALSE, enabled |-> "unset"]

MCContents == {
    [Plain EXCEPT !.tools = <<stopTool>>],
    [Plain EXCEPT !.tools = <<payTool, lookTool>>, !.exec = TRUE, !.events = TRUE],
    [Plain EXCEPT !.fields = payTool, !.language = "known", !.enabled = "off"],
    [Plain EXCEPT !.tools = <<lookTool>>, !.language = "unknown"],
    [kind |-> "nothing"], [kind |-> "unreadable"]}

MCDeclared == {<<>>, <<lookTool, blankTool>>}

MCArgs == {[label |-> <<>>, n |-> i] : i \in {1, 2, 3}}
MCTopics == {"arm"}

Symmetry == Permutations(Sessions) \cup Permutations(Pipes) \cup Permutations(Callers)
==============================================================================
