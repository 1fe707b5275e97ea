----------------------------- MODULE TurnTaking -----------------------------
(***************************************************************************)
(* How the caller takes the floor in the cascaded pipeline: voice activity *)
(* and the echo guard (internal/vad), the barge-in detector with its duck  *)
(* (inbound.go, duck.go), the turn buffer that merges finals               *)
(* (turnbuffer.go), retrieval prefetched while it waits (rag_prefetch.go), *)
(* and runAgent's decision to answer a turn, ignore it or be interrupted.  *)
(*                                                                         *)
(* Three goroutines share this state: the STT callback, the frame loop of  *)
(* runInbound and the turn buffer; runAgent and the current response are a *)
(* fourth and a fifth.  A text is a sequence of words, each standing for   *)
(* its class in the vocabularies of bargein.go; "." is punctuation.        *)
(* Retired responses are ResponseOwnership's subject and take no step here.*)
(***************************************************************************)
EXTENDS Integers, Sequences, FiniteSetsExt, SequencesExt

CONSTANTS
    Finals,        \* <<text, confidence>> of the finals the provider may send
    Partials,      \* texts of its partials
    EmitsPartials, \* stt.PartialsEmitter
    Guards,        \* the guards switched on: "readback", "echo"
    MaxFinals,     \* bound on the finals of a call
    ChanSize,      \* transcriptChSize
    Onset, Offset, \* frames of NewBargeIn
    Window,        \* backchannelWindow, in ticks
    Grace,         \* backchannelGrace
    EchoWindow,    \* EchoGuard.window
    Base, Incomplete, MergeMax  \* TurnMergeMs and the turn buffer's constants

Words == {"stop", "wait", "yeah", "and", "book", "dot", "."}
Texts == {f[1] : f \in Finals} \cup Partials
Confidences == {"unknown", "low", "high"}

ASSUME TurnAssumption ==
    /\ \A t \in Texts : t \in Seq(Words)
    /\ \A f \in Finals : f[2] \in Confidences
    /\ EmitsPartials \in BOOLEAN
    /\ Guards \subseteq {"readback", "echo"}
    /\ {MaxFinals, ChanSize, Onset, Offset, Window, Grace, EchoWindow, Base,
        Incomplete} \subseteq Nat \ {0}
    /\ MergeMax \in Nat /\ MergeMax > Incomplete /\ MergeMax > Base

NoText == <<>>
Nobody == [text |-> NoText, over |-> FALSE]   \* no pending turn; a partial
Off == -1                                     \* a timer that is not armed

VARIABLES
    up,             \* runInbound is running
    vad,            \* the barge-in Detector
    echoLeft,       \* how long the last sent frame stays in the echo window
    bargeInPending, bargeInAge, hasPartialText, latestPartial,
    audioMuted,     \* the duck
    interruptCh,
    outgoing,       \* what the STT callback is about to send, and where
    finalCh, pending, turnAge, timer, prefetched, transcriptCh,
    ragPrefetch,    \* query of the prefetch in the slot
    speaking, graceLeft,   \* the flag, and the time left of backchannelGrace
    lastAgentText, interruptedText,
    response,       \* the current response: its phase and text
    userConfidence, misunderstandingStreak,
    nFinals,
    freshWords, unheard  \* history, for the properties

vadVars == <<up, vad, echoLeft>>
bargeVars == <<bargeInPending, bargeInAge, audioMuted, interruptCh>>
partVars == <<hasPartialText, latestPartial, freshWords>>
queueVars == <<finalCh, pending, turnAge, timer, prefetched, transcriptCh>>
bufVars == <<queueVars, outgoing, ragPrefetch, unheard>>
agentVars == <<speaking, graceLeft, lastAgentText, interruptedText, response>>
sttVars == <<userConfidence, misunderstandingStreak, nFinals>>
vars == <<vadVars, bargeVars, partVars, bufVars, agentVars, sttVars>>

---------------------------------------------------------------------------
(* The predicates on texts *)

normalizedTranscriptText(t) == SelectSeq(t, LAMBDA w : w # ".")
lastWord(t) == LET n == normalizedTranscriptText(t)
               IN  IF n = NoText THEN "" ELSE n[Len(n)]

backchannelWordTokens == {"yeah"}
bargeInCommandTokens == {"stop", "wait"}
bargeInWeakTokens == {"yeah", "and"}
fillerWords == {"yeah", "and"}
incompleteTailWords == {"and"}
dictationTailWords == {"dot"}

isBackchannelOnly(tokens) ==
    tokens # NoText /\ ToSet(tokens) \subseteq backchannelWordTokens

isMeaningfulBargeInTranscript(t) ==
    LET tokens == normalizedTranscriptText(t) IN
    \/ ToSet(tokens) \cap bargeInCommandTokens # {}
    \/ /\ ~isBackchannelOnly(tokens)
       /\ ToSet(tokens) \ bargeInWeakTokens # {}
       /\ Len(tokens) >= 2

isAcknowledgementOnly(t) == isBackchannelOnly(normalizedTranscriptText(t))
isStrongBargeInCommand(t) == "stop" \in ToSet(t)
endsTerminal(t) == t # NoText /\ t[Len(t)] = "."
endsIncomplete(t) == lastWord(t) \in incompleteTailWords
endsDictation(t) == lastWord(t) \in dictationTailWords

mergeWait(t) ==
    IF ~endsTerminal(t) /\ (endsIncomplete(t) \/ endsDictation(t))
    THEN Incomplete ELSE Base

shouldSkipRAG(t) == ToSet(normalizedTranscriptText(t)) \subseteq fillerWords

---------------------------------------------------------------------------
(* Voice activity.  A frame's energy is silence, the agent's own voice     *)
(* coming back, or the caller; the learned noise floor lies below both.    *)

Silence == 0
NoiseThreshold == 1
Echo == 2
Caller == 3
Energies == {Silence, Echo, Caller}

EchoThreshold == IF "echo" \in Guards /\ echoLeft > 0 THEN Echo ELSE 0

Process(energy) ==
    LET above == energy > Max({NoiseThreshold, EchoThreshold})
        speech == IF above THEN Min({vad.speech + 1, Onset}) ELSE 0
        silent == IF above THEN 0 ELSE Min({vad.silent + 1, Offset})
    IN  [speech |-> speech, silent |-> silent,
         on |-> IF vad.on THEN silent < Offset ELSE speech >= Onset]

Reset == [speech |-> 0, silent |-> 0, on |-> FALSE]

---------------------------------------------------------------------------
(* The frame loop of runInbound *)

\* The non-blocking send on a channel of one.
signalInterrupt == interruptCh' = TRUE

maybeRestoreDuck == audioMuted' = FALSE
maybeStartDuck == audioMuted' = (audioMuted \/ speaking)

readbackInProgress == speaking /\ lastAgentText = "readback"

\* Speech continued past the suppression window.
confirmBargeIn ==
    /\ bargeInPending /\ bargeInAge >= Window
    /\ bargeInPending' = FALSE
    /\ maybeRestoreDuck
    /\ vad' = Reset
    /\ signalInterrupt
    /\ UNCHANGED <<bargeInAge, partVars>>

heldByGuard ==
    "readback" \in Guards /\ readbackInProgress /\ ~isStrongBargeInCommand(latestPartial)

\* The burst ended inside the window, and is a backchannel or held.
suppressBargeIn(v) ==
    /\ bargeInPending /\ bargeInAge < Window /\ ~v.on
    /\ ~isMeaningfulBargeInTranscript(latestPartial) \/ heldByGuard
    /\ bargeInPending' = FALSE
    /\ hasPartialText' = FALSE
    /\ maybeRestoreDuck
    /\ vad' = v
    /\ UNCHANGED <<bargeInAge, latestPartial, freshWords, interruptCh>>

\* Short but not a backchannel: the duck is left as it is.
shortBargeIn(v) ==
    /\ bargeInPending /\ bargeInAge < Window /\ ~v.on
    /\ isMeaningfulBargeInTranscript(latestPartial) /\ ~heldByGuard
    /\ bargeInPending' = FALSE
    /\ vad' = Reset
    /\ signalInterrupt
    /\ UNCHANGED <<bargeInAge, partVars, audioMuted>>

openBargeIn(v) == v.on /\ speaking /\ (~EmitsPartials \/ hasPartialText)

bargeInCandidate(v) ==
    /\ ~bargeInPending
    /\ openBargeIn(v)
    /\ bargeInPending' = TRUE
    /\ bargeInAge' = 0
    /\ hasPartialText' = FALSE
    /\ maybeStartDuck
    /\ vad' = v
    /\ UNCHANGED <<latestPartial, freshWords, interruptCh>>

nothingToDecide(v) ==
    /\ IF bargeInPending THEN bargeInAge < Window /\ v.on ELSE ~openBargeIn(v)
    /\ vad' = v
    /\ UNCHANGED <<bargeVars, partVars>>

inboundFrame ==
    /\ up
    /\ \E energy \in Energies :
         LET v == Process(energy) IN
         /\ \/ confirmBargeIn
            \/ suppressBargeIn(v)
            \/ shortBargeIn(v)
            \/ bargeInCandidate(v)
            \/ nothingToDecide(v)
    /\ UNCHANGED <<up, echoLeft, bufVars, agentVars, sttVars>>

\* SendAudio failed: the loop returns and closes the STT client.  An open
\* candidate is a local of the loop and dead with it; the duck stays as it is.
inboundFails ==
    /\ up
    /\ up' = FALSE
    /\ UNCHANGED <<vad, echoLeft, bargeVars, partVars, bufVars, agentVars,
                   sttVars>>

---------------------------------------------------------------------------
(* sttCallback *)

agentSpeechRecent == speaking \/ graceLeft > 0

Sent == [to |-> "nowhere", ev |-> Nobody]

\* Mutant: a final does not withdraw the words of its partials.
withdrawPartialKeeps == UNCHANGED <<hasPartialText, latestPartial>>

withdrawPartial == hasPartialText' = FALSE /\ latestPartial' = NoText

\* The callbacks of a provider come one after the other.
sttFinal ==
    /\ up /\ nFinals < MaxFinals
    /\ outgoing = Sent
    /\ \E f \in Finals :
         /\ outgoing' = [to |-> "finalCh",
                         ev |-> [text |-> f[1], over |-> agentSpeechRecent]]
         /\ unheard' = unheard \o f[1]
         /\ userConfidence' = f[2]
    /\ nFinals' = nFinals + 1
    /\ withdrawPartial
    /\ freshWords' = FALSE
    /\ UNCHANGED <<vadVars, bargeVars, queueVars, ragPrefetch, agentVars,
                   misunderstandingStreak>>

sttPartial ==
    /\ up /\ EmitsPartials
    /\ outgoing = Sent
    /\ outgoing' = [to |-> "transcriptCh", ev |-> Nobody]
    /\ \E t \in Partials :
         /\ latestPartial' = t
         /\ hasPartialText' = (hasPartialText \/ t # NoText)
         /\ freshWords' = (freshWords \/ t # NoText)
    /\ UNCHANGED <<vadVars, bargeVars, queueVars, ragPrefetch, unheard, agentVars,
                   sttVars>>

\* The send that ends the callback waits for room, also after runInbound.
sttSends ==
    /\ \/ /\ outgoing.to = "finalCh"
          /\ Len(finalCh) < ChanSize
          /\ finalCh' = Append(finalCh, outgoing.ev)
          /\ UNCHANGED transcriptCh
       \/ /\ outgoing.to = "transcriptCh"
          /\ Len(transcriptCh) < ChanSize
          /\ transcriptCh' = Append(transcriptCh, outgoing.ev)
          /\ UNCHANGED finalCh
    /\ outgoing' = Sent
    /\ UNCHANGED <<vadVars, bargeVars, partVars, pending, turnAge, timer,
                   prefetched, ragPrefetch, unheard, agentVars, sttVars>>

---------------------------------------------------------------------------
(* runTurnBuffer *)

\* Mutant: a continuation always gets its full wait.
clippedWaitFull(t, age) == mergeWait(t)

\* The timer for a turn of this age, or Off when no time remains.
clippedWait(t, age) ==
    IF age + mergeWait(t) <= MergeMax THEN mergeWait(t)
    ELSE IF age < MergeMax THEN MergeMax - age ELSE Off

startRAGPrefetch(t) == ragPrefetch' = IF shouldSkipRAG(t) THEN ragPrefetch ELSE t

\* Mutant: the buffer forgets to forget the turn.
flushKeeps(turn) ==
    /\ Len(transcriptCh) < ChanSize
    /\ transcriptCh' = Append(transcriptCh, turn)
    /\ timer' = Off
    /\ UNCHANGED <<pending, prefetched, turnAge>>

flush(turn) ==
    /\ Len(transcriptCh) < ChanSize
    /\ transcriptCh' = Append(transcriptCh, turn)
    /\ pending' = Nobody
    /\ prefetched' = FALSE
    /\ timer' = Off
    /\ turnAge' = 0

mergeInto(turn, ev) ==
    [text |-> turn.text \o ev.text, over |-> turn.over \/ ev.over]

bufferFinal ==
    /\ finalCh # <<>>
    /\ finalCh' = Tail(finalCh)
    /\ LET ev == Head(finalCh)
           merged == mergeInto(pending, ev)
           age == IF pending = Nobody THEN 0 ELSE turnAge
           wait == clippedWait(merged.text, age)
       IN  \/ /\ ev.text = NoText
              /\ UNCHANGED <<pending, turnAge, timer, prefetched, transcriptCh,
                             ragPrefetch>>
           \/ /\ ev.text # NoText /\ wait = Off
              /\ flush(merged)
              /\ UNCHANGED ragPrefetch
           \/ /\ ev.text # NoText /\ wait # Off
              /\ pending' = merged
              /\ turnAge' = age
              /\ timer' = wait
              /\ prefetched' = TRUE
              /\ IF prefetched THEN UNCHANGED ragPrefetch
                               ELSE startRAGPrefetch(merged.text)
              /\ UNCHANGED transcriptCh
    /\ UNCHANGED <<vadVars, bargeVars, partVars, outgoing, unheard, agentVars,
                   sttVars>>

\* Mutant: the timer of an unfinished text waits for the next final.
bufferTimerWaits ==
    /\ timer = 0 /\ ~endsIncomplete(pending.text)
    /\ flush(pending)
    /\ UNCHANGED <<vadVars, bargeVars, partVars, outgoing, finalCh, ragPrefetch,
                   unheard, agentVars, sttVars>>

bufferTimer ==
    /\ timer = 0
    /\ flush(pending)
    /\ UNCHANGED <<vadVars, bargeVars, partVars, outgoing, finalCh, ragPrefetch,
                   unheard, agentVars, sttVars>>

---------------------------------------------------------------------------
(* runAgent and the current response *)

Idle == [at |-> "idle", text |-> NoText]

isPassiveAcknowledgement(ev) ==
    ev.over /\ isAcknowledgementOnly(ev.text) /\ interruptedText = "none"

\* setSpeaking(false)
stopSpeaking ==
    /\ speaking' = FALSE
    /\ graceLeft' = IF speaking THEN Grace ELSE graceLeft

supersedeResponse(next) == stopSpeaking /\ response' = next

heardFrom(ev) ==
    /\ transcriptCh' = Tail(transcriptCh)
    /\ unheard' = SubSeq(unheard, Len(ev.text) + 1, Len(unheard))

\* To the client, for display.
forwardPartial ==
    /\ transcriptCh # <<>>
    /\ Head(transcriptCh) = Nobody
    /\ transcriptCh' = Tail(transcriptCh)
    /\ UNCHANGED <<vadVars, bargeVars, partVars, outgoing, finalCh, pending,
                   turnAge, timer, prefetched, ragPrefetch, unheard, agentVars,
                   sttVars>>

ignoreTurn ==
    /\ transcriptCh # <<>>
    /\ isPassiveAcknowledgement(Head(transcriptCh))
    /\ heardFrom(Head(transcriptCh))
    /\ UNCHANGED <<vadVars, bargeVars, partVars, outgoing, finalCh, pending,
                   turnAge, timer, prefetched, ragPrefetch, agentVars, sttVars>>

takeTurn ==
    /\ transcriptCh # <<>>
    /\ LET ev == Head(transcriptCh) IN
         /\ ev # Nobody /\ ~isPassiveAcknowledgement(ev)
         /\ heardFrom(ev)
         /\ supersedeResponse([at |-> "start", text |-> ev.text])
    /\ UNCHANGED <<vadVars, bargeVars, partVars, outgoing, finalCh, pending,
                   turnAge, timer, prefetched, ragPrefetch, lastAgentText,
                   interruptedText, sttVars>>

takeInterrupt ==
    /\ interruptCh
    /\ interruptCh' = FALSE
    /\ interruptedText' = IF lastAgentText = "none" THEN interruptedText
                                                    ELSE lastAgentText
    /\ supersedeResponse(Idle)
    /\ UNCHANGED <<vadVars, bargeInPending, bargeInAge, audioMuted,
                   partVars, bufVars, lastAgentText, sttVars>>

\* Used if its query is this turn's text; the slot is cleared in any case.
takeRAGPrefetch == ragPrefetch' = NoText

isLowConfidenceTurn(t) == userConfidence = "low" /\ ~endsIncomplete(t)

\* What the stored confidence of the last final does to the ladder.  Whether
\* the agent had asked for a value, and this reads as one, is left open.
misunderstandingNote(t) ==
    \E collected \in BOOLEAN :
        misunderstandingStreak' =
            IF collected THEN 0
            ELSE IF isLowConfidenceTurn(t) THEN Min({misunderstandingStreak + 1, 3})
            ELSE IF userConfidence = "low" THEN misunderstandingStreak ELSE 0

\* respond, up to the call of Chat.
prepareResponse ==
    /\ response.at = "start"
    /\ interruptedText' = "none"
    /\ lastAgentText' = "none"
    /\ response' = [response EXCEPT !.at = "chat"]
    /\ IF shouldSkipRAG(response.text) THEN UNCHANGED ragPrefetch ELSE takeRAGPrefetch
    /\ misunderstandingNote(response.text)
    /\ UNCHANGED <<vadVars, bargeVars, partVars, outgoing, finalCh, pending,
                   turnAge, timer, prefetched, transcriptCh, unheard, speaking,
                   graceLeft, userConfidence, nFinals>>

\* The first frame of the answer is queued and sent.
agentSpeaks ==
    /\ response.at = "chat"
    /\ response' = [response EXCEPT !.at = "speaking"]
    /\ \E saying \in {"plain", "readback"} : lastAgentText' = saying
    /\ speaking' = TRUE
    /\ echoLeft' = EchoWindow
    /\ UNCHANGED <<up, vad, bargeVars, partVars, bufVars, graceLeft,
                   interruptedText, sttVars>>

\* The answer has been played out, or there was none.
finishResponse ==
    /\ response.at \in {"chat", "speaking"}
    /\ response' = Idle
    /\ stopSpeaking
    /\ UNCHANGED <<vadVars, bargeVars, partVars, bufVars, lastAgentText,
                   interruptedText, sttVars>>

---------------------------------------------------------------------------
(* Time, in one unit for every timer; each counter stops at its limit. *)

Down(left) == IF left > 0 THEN left - 1 ELSE left

Tick ==
    /\ bargeInAge' = IF bargeInPending THEN Min({bargeInAge + 1, Window}) ELSE 0
    /\ turnAge' = IF pending = Nobody THEN 0 ELSE Min({turnAge + 1, MergeMax})
    /\ timer' = Down(timer)
    /\ graceLeft' = Down(graceLeft)
    /\ echoLeft' = IF speaking THEN echoLeft ELSE Down(echoLeft)
    /\ UNCHANGED <<up, vad, bargeInPending, audioMuted, interruptCh,
                   partVars, outgoing, finalCh, pending, prefetched, transcriptCh,
                   ragPrefetch, unheard, speaking, lastAgentText,
                   interruptedText, response, sttVars>>

Init ==
    /\ up = TRUE
    /\ vad = Reset
    /\ echoLeft = 0 /\ graceLeft = 0
    /\ bargeInPending = FALSE /\ bargeInAge = 0
    /\ hasPartialText = FALSE /\ latestPartial = NoText
    /\ audioMuted = FALSE /\ interruptCh = FALSE
    /\ outgoing = Sent
    /\ finalCh = <<>> /\ transcriptCh = <<>>
    /\ pending = Nobody /\ turnAge = 0 /\ timer = Off /\ prefetched = FALSE
    /\ ragPrefetch = NoText
    /\ speaking = FALSE
    /\ lastAgentText = "none" /\ interruptedText = "none"
    /\ response = Idle
    /\ userConfidence = "unknown" /\ misunderstandingStreak = 0
    /\ nFinals = 0
    /\ freshWords = FALSE /\ unheard = NoText

bufferStep == bufferFinal \/ bufferTimer
agentStep == forwardPartial \/ ignoreTurn \/ takeTurn \/ takeInterrupt

Next ==
    \/ inboundFrame \/ inboundFails
    \/ sttFinal \/ sttPartial \/ sttSends
    \/ bufferStep
    \/ agentStep
    \/ prepareResponse \/ agentSpeaks \/ finishResponse
    \/ Tick

Safety == Init /\ [][Next]_vars

\* The goroutines keep running, time keeps passing, and a channel serves the
\* senders it has blocked in turn: the partials do not keep the turn buffer out
\* for ever.  Nothing is assumed of the caller, the provider or the length of an
\* answer.
Fairness ==
    /\ WF_vars(sttSends) /\ SF_vars(bufferStep) /\ WF_vars(agentStep)
    /\ WF_vars(Tick)

Spec == Safety /\ Fairness

---------------------------------------------------------------------------
(* Properties *)

Phases == {"idle", "start", "chat", "speaking"}
Sayings == {"none", "plain", "readback"}
Turns == [text : Seq(Words), over : BOOLEAN]

\* Every variable has its type, and every counter stays within its limit.
TypeOK ==
    /\ vad \in [speech : 0 .. Onset, silent : 0 .. Offset, on : BOOLEAN]
    /\ bargeInAge \in 0 .. Window
    /\ echoLeft \in 0 .. EchoWindow /\ graceLeft \in 0 .. Grace
    /\ {up, bargeInPending, hasPartialText, audioMuted, interruptCh, prefetched,
        speaking, freshWords} \subseteq BOOLEAN
    /\ {latestPartial, ragPrefetch, unheard} \subseteq Seq(Words)
    /\ outgoing \in [to : {"nowhere", "finalCh", "transcriptCh"}, ev : Turns]
    /\ finalCh \in Seq(Turns) /\ Len(finalCh) <= ChanSize
    /\ transcriptCh \in Seq(Turns) /\ Len(transcriptCh) <= ChanSize
    /\ pending \in Turns /\ turnAge \in 0 .. MergeMax
    /\ timer \in Off .. MergeMax
    /\ {lastAgentText, interruptedText} \subseteq Sayings
    /\ response \in [at : Phases, text : Seq(Words)]
    /\ userConfidence \in Confidences
    /\ misunderstandingStreak \in 0 .. 3 /\ nFinals \in 0 .. MaxFinals

queuedText(ch) == FlattenSeq([i \in DOMAIN ch |-> ch[i].text])

\* Finals on their way to the turn buffer.
sentText == queuedText(finalCh) \o outgoing.ev.text

\* The turn buffer neither loses, repeats nor reorders what the caller said:
\* the words the agent has yet to see are those of the queued turns, of the
\* pending turn and of the finals not yet merged, the one the callback is
\* blocked on included, in that order.
WordsKept ==
    /\ TypeOK
    /\ unheard = queuedText(transcriptCh) \o pending.text \o sentText

\* However often a turn is continued, its timer never runs past turnMergeMax
\* from the turn's first final, and a pending turn always has a timer.
HoldIsBounded ==
    /\ pending # Nobody => timer # Off
    /\ timer > 0 => turnAge + timer <= MergeMax

\* A provider that emits partials opens a candidate only on words recognised
\* since its last final, never on those of an utterance already ended.
FreshCandidate ==
    [][bargeInPending' /\ ~bargeInPending /\ EmitsPartials => freshWords]_vars

\* Everything the caller said reaches runAgent, however the timers fall.
EveryTurnTaken == unheard # NoText ~> unheard = NoText
=============================================================================
