------------------------------- MODULE Reflex -------------------------------
(***************************************************************************)
(* Firing a tool from a half-spoken sentence (pipeline/partial.go), on top *)
(* of the tools that Plugins registers: partials matched against phrases   *)
(* and anchors, captures that wait for the words to stop changing, the     *)
(* packet sent ahead of the model, and the record by which runTool does    *)
(* not send it twice.                                                      *)
(*                                                                         *)
(* Three kinds of goroutine meet: the STT callback, which handles one      *)
(* result at a time, the timers of captures, and the tool calls of         *)
(* Plugins.  A transcript is a sequence of words, as NormalizePartial      *)
(* leaves it.  The registry no longer changes once a pipeline exists, so   *)
(* the entries newPartialReflex takes from it are read from it directly.   *)
(***************************************************************************)
EXTENDS Plugins, FiniteSetsExt

CONSTANT Texts   \* partial transcripts

ASSUME ReflexAssumption == \A t \in Texts : t \in Seq(STRING)

VARIABLES
    reflex,    \* per pipeline: fired, firedAnchors, and the settling captures
    timers,    \* capture timers; one that went off cannot be stopped any more
    firing,    \* packets on their way out of fireReflex
    shots, heard  \* history, per tool and utterance: firings and anchors

reflexVars == <<reflex, timers, firing>>
uttVars == <<shots, heard>>
vars == <<pluginVars, reflexVars, uttVars>>

---------------------------------------------------------------------------
(* Matching *)

\* phrase occurs in text from word i on
occursAt(text, phrase, i) ==
    /\ i + Len(phrase) - 1 <= Len(text)
    /\ SubSeq(text, i, i + Len(phrase) - 1) = phrase

containsPhrase(text, phrases) ==
    \E ph \in phrases, i \in 1..Len(text) : occursAt(text, ph, i)

hasPrefixPhrase(text, phrases) == \E ph \in phrases : occursAt(text, ph, 1)

\* Where an anchor starts, and where the last one ends
anchorsIn(text, after) ==
    {i \in 1..Len(text) : \E ph \in after : occursAt(text, ph, i)}
lastEnd(text, after) ==
    Max({x[1] + Len(x[2]) - 1 : x \in
          {y \in (1..Len(text)) \X after : occursAt(text, y[2], y[1])}})

\* captureAfterAnchor
captured(text, after) == SubSeq(text, lastEnd(text, after) + 1, Len(text))

---------------------------------------------------------------------------
(* observe and endUtterance *)

PartialTools == {plugins[n] : n \in {m \in Names : plugins[m] # None
                                       /\ plugins[m].host = 0
                                       /\ plugins[m].spec.on # None}}
Listening(p) == {t.spec : t \in PartialTools} \
                {s \in {t.spec : t \in PartialTools} :
                   s.on.once /\ s.name \in reflex[p].fired}

sttIdle(p) == \A f \in firing : f.pipe = p => f.from # "stt"

Hit(p, spec, args, from, id) ==
    [pipe |-> p, packet |-> packet(spec, args), from |-> from, id |-> id,
     sent |-> FALSE]

hits(p, text) ==
    {s \in Listening(p) : /\ ~s.on.capture
                          /\ \/ containsPhrase(text, s.on.match)
                             \/ hasPrefixPhrase(text, s.on.starts)}

capture(s, text) == [text |-> captured(text, s.on.after),
                     anchors |-> Cardinality(anchorsIn(text, s.on.after)),
                     id |-> inputs]

\* stageLocked: the captures this partial replaces; a partial without an
\* anchor, or with nothing after the last one, leaves a settling capture alone
staged(p, text) ==
    {s \in Listening(p) :
       /\ s.on.capture
       /\ anchorsIn(text, s.on.after) # {}
       /\ captured(text, s.on.after) # <<>>
       /\ \A old \in reflex[p].pending[s.name] :
            \/ old.text # capture(s, text).text
            \/ old.anchors # capture(s, text).anchors}

\* time.Timer.Stop: only a timer that has not gone off yet
stopped(p, names) == {t \in timers : t.pipe = p /\ t.spec.name \in names /\ ~t.off}

observe(p, text) ==
    LET new == staged(p, text)
        names == {s.name : s \in new}
    IN
    /\ pipe[p].st = "running" /\ sttIdle(p)
    /\ reflex' = [reflex EXCEPT ![p] =
         [fired |-> @.fired \cup {s.name : s \in {h \in hits(p, text) : h.on.once}},
          firedAnchors |-> @.firedAnchors,
          pending |-> [n \in Names |->
            IF n \in names THEN {capture(CHOOSE s \in new : s.name = n, text)}
            ELSE @.pending[n]]]]
    /\ timers' = (timers \ stopped(p, names)) \cup
                 {[pipe |-> p, spec |-> s, cap |-> capture(s, text), off |-> FALSE] :
                    s \in new}
    /\ firing' = firing \cup {Hit(p, s, NoArgs, "stt", inputs) : s \in hits(p, text)}
    /\ shots' = [shots EXCEPT ![p] = [n \in Names |->
         IF n \in {s.name : s \in hits(p, text)} THEN @[n] + 1 ELSE @[n]]]
    /\ heard' = [heard EXCEPT ![p] = [n \in Names |->
         IF plugins[n] = None \/ plugins[n].spec.on = None THEN @[n]
         ELSE Max({@[n], Cardinality(anchorsIn(text, plugins[n].spec.on.after))})]]
    /\ UNCHANGED sentVars

\* A tool has at most one capture settling
NoUtterance == [fired |-> {}, firedAnchors |-> [n \in Names |-> 0],
                pending |-> [n \in Names |-> {}]]

\* A final arrived
endUtterance(p) ==
    /\ pipe[p].st = "running" /\ sttIdle(p)
    /\ reflex' = [reflex EXCEPT ![p] = NoUtterance]
    /\ timers' = timers \ stopped(p, {n \in Names : reflex[p].pending[n] # {}})
    /\ shots' = [shots EXCEPT ![p] = [n \in Names |-> 0]]
    /\ heard' = [heard EXCEPT ![p] = [n \in Names |-> 0]]
    /\ UNCHANGED <<firing, sentVars>>

---------------------------------------------------------------------------
(* A capture settles *)

timerGoesOff(t) ==
    /\ ~t.off
    /\ timers' = (timers \ {t}) \cup {[t EXCEPT !.off = TRUE]}
    /\ UNCHANGED <<reflex, firing, uttVars, sentVars>>

\* Mutant: the timer trusts its own capture instead of looking it up
settledBlindly(t) ==
    LET p == t.pipe
        n == t.spec.name
        acts == t.cap.anchors > reflex[p].firedAnchors[n]
    IN
    /\ t.off
    /\ timers' = timers \ {t}
    /\ reflex' = [reflex EXCEPT
         ![p].pending[n] = {},
         ![p].firedAnchors[n] = IF acts THEN t.cap.anchors ELSE @]
    /\ firing' = IF ~acts THEN firing ELSE firing \cup
         {Hit(p, t.spec, [NoArgs EXCEPT !.label = t.cap.text], "timer", t.cap.id)}
    /\ shots' = [shots EXCEPT ![p][n] = IF acts THEN @ + 1 ELSE @]
    /\ UNCHANGED <<heard, sentVars>>

\* Nothing fires when the capture was replaced or its utterance ended before
\* the lock was taken, or when its anchor has been acted on
settled(t) ==
    LET p == t.pipe
        n == t.spec.name
        acts == t.cap.anchors > reflex[p].firedAnchors[n]
    IN
    /\ t.off
    /\ timers' = timers \ {t}
    /\ IF reflex[p].pending[n] # {t.cap} THEN UNCHANGED <<reflex, firing, uttVars>>
       ELSE /\ reflex' = [reflex EXCEPT ![p] =
                 [fired |-> IF acts /\ t.spec.on.once THEN @.fired \cup {n} ELSE @.fired,
                  firedAnchors |-> IF acts THEN [@.firedAnchors EXCEPT ![n] = t.cap.anchors]
                                   ELSE @.firedAnchors,
                  pending |-> [@.pending EXCEPT ![n] = {}]]]
            /\ firing' = IF ~acts THEN firing ELSE firing \cup
                 {Hit(p, t.spec, [NoArgs EXCEPT !.label = t.cap.text], "timer", t.cap.id)}
            /\ shots' = [shots EXCEPT ![p][n] = IF acts THEN @ + 1 ELSE @]
            /\ UNCHANGED heard
    /\ UNCHANGED sentVars

---------------------------------------------------------------------------
(* fireReflex *)

\* The STT callback fires its hits one after the other
turnOf(f) == f.from = "stt" =>
    \A g \in firing : g.pipe = f.pipe /\ g.from = "stt" => ~g.sent

\* emit: the data channel takes the packet, or is not open
emit(f, ok) ==
    /\ ~f.sent /\ turnOf(f)
    /\ firing' = (firing \ {f}) \cup (IF ok THEN {[f EXCEPT !.sent = TRUE]} ELSE {})
    /\ credit' = [credit EXCEPT ![f.pipe] = IF ok THEN Add(@, f.packet, 1) ELSE @]
    /\ UNCHANGED <<reflex, timers, reflexSent, uttVars>>

\* The record replaces what was sent on the topic before, and expired ones
rememberReflexEmission(f) ==
    /\ f.sent
    /\ firing' = firing \ {f}
    /\ reflexSent' = [reflexSent EXCEPT ![f.pipe] =
         [tp \in Topics |->
            IF tp = f.packet.topic THEN [packet |-> f.packet, old |-> FALSE]
            ELSE IF @[tp] # None /\ @[tp].old THEN None ELSE @[tp]]]
    /\ UNCHANGED <<reflex, timers, credit, uttVars>>

\* reflexDedupTTL passes for every packet sent so far; emit and the record of
\* it are far less than that apart
dedupLapses(p) ==
    /\ \A f \in firing : f.pipe = p => ~f.sent
    /\ \E tp \in Topics : reflexSent[p][tp] # None /\ ~reflexSent[p][tp].old
    /\ reflexSent' = [reflexSent EXCEPT ![p] =
         [tp \in Topics |-> IF @[tp] = None THEN None ELSE [@[tp] EXCEPT !.old = TRUE]]]
    /\ credit' = [credit EXCEPT ![p] = [k \in DOMAIN @ |-> 0]]
    /\ UNCHANGED <<reflexVars, uttVars>>

---------------------------------------------------------------------------
ReflexInit ==
    /\ Init
    /\ reflex = [p \in Pipes |-> NoUtterance]
    /\ timers = {} /\ firing = {}
    /\ shots = [p \in Pipes |-> [n \in Names |-> 0]]
    /\ heard = [p \in Pipes |-> [n \in Names |-> 0]]

sttResult ==
    /\ inputArrives
    /\ \E p \in Pipes : endUtterance(p) \/ \E text \in Texts : observe(p, text)
    /\ UNCHANGED <<loadVars, sessionVars, gateVars>>

reflexStep ==
    /\ \/ \E t \in timers : timerGoesOff(t) \/ settled(t)
       \/ \E f \in firing : \/ \E ok \in BOOLEAN : emit(f, ok)
                            \/ rememberReflexEmission(f)
       \/ \E p \in Pipes : dedupLapses(p)
    /\ UNCHANGED <<loadVars, sessionVars, gateVars, inputs>>

Next == \/ PluginNext /\ UNCHANGED <<reflexVars, uttVars>>
        \/ sttResult
        \/ reflexStep

Spec == ReflexInit /\ [][Next]_vars

---------------------------------------------------------------------------
(* Properties *)

\* runTool may drop the packet of a model's call only because the device has
\* it already: every call that is suppressed is paid for by an identical
\* packet of its own that a partial delivered within reflexDedupTTL, so a
\* command the data channel refused, or a deliberate repeat, goes out.
NothingSwallowed ==
    \A p \in Pipes : \A k \in DOMAIN credit[p] : credit[p][k] >= 0

\* One instruction, one packet: within an utterance a capturing tool fires at
\* most once per anchor that was heard, however often STT revises the words
\* and whatever timer is late, and never for the utterance before; a
\* once-per-turn tool fires once.
OncePerInstruction ==
    \A p \in Pipes, n \in Names :
        plugins[n] # None /\ plugins[n].spec.on # None =>
            /\ plugins[n].spec.on.capture => shots[p][n] <= heard[p][n]
            /\ plugins[n].spec.on.once => shots[p][n] <= 1
==============================================================================
