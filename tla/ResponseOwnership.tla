------------------------ MODULE ResponseOwnership ------------------------
(***************************************************************************)
(* Who owns the agent's audio path (internal/pipeline/agent.go).           *)
(*                                                                         *)
(* runAgent retires the current response on every answered turn and on     *)
(* every barge-in (supersedeResponse), and starts the next one in a        *)
(* goroutine of its own (respond).  A retired response unwinds later, on   *)
(* its own schedule, while its successor is already running.  The module   *)
(* interleaves the agent goroutine, the response goroutines with their     *)
(* synthesizer and tool-sound goroutines, the outbound sender, the         *)
(* barge-in detector and the end of the call, one shared access per step.  *)
(***************************************************************************)
EXTENDS Integers, Sequences, FiniteSets

CONSTANTS
    MaxGen,        \* bound on responseGen: turns and barge-ins explored
    OutCap,        \* outPCMChSize
    MaxFrames,     \* bound on the speech frames of one response
    SentenceCap,   \* capacity of respond's sentences channel
    MaxSentences,  \* bound on the sentences of one response
    TtsFails,      \* a TTS stream may fail
    Greeting,      \* the call opens with a greeting
    LateGreeting,  \* the greeting goroutine may still be unscheduled when
                   \* the first turn is answered
    ToolCalls,     \* responses call tools that have a thinking sound
    CallEnds       \* the pipeline may be stopped

ASSUME ConstantsAssumption ==
    /\ MaxGen \in Nat
    /\ OutCap \in Nat \ {0}
    /\ MaxFrames \in Nat \ {0}
    /\ SentenceCap \in Nat \ {0}
    /\ MaxSentences \in Nat
    /\ TtsFails \in BOOLEAN
    /\ Greeting \in BOOLEAN
    /\ LateGreeting \in BOOLEAN
    /\ ToolCalls \in BOOLEAN
    /\ CallEnds \in BOOLEAN

\* Response 0 is the greeting, response r > 0 answers the turn that moved
\* responseGen to r.  A generation opened by a barge-in has no response.
Greet == 0
Responses == 0 .. MaxGen
None == -1

VARIABLES
    responseGen,        \* Pipeline.responseGen
    responseCancel,     \* the response whose cancel func is installed
    responseCancelGen,  \* Pipeline.responseCancelGen
    outPCMCh,           \* queued frames, tagged with who produced them
    speaking,           \* Pipeline.speaking
    clientState,        \* the last "state" event sent to the client
    agent,              \* where runAgent is
    agentTurn,          \* supersedeResponse was called for a turn
    bargeInPending,     \* runInbound's suppression window is open
    interruptCh,        \* the one-slot interrupt channel is full
    pc,                 \* where each response goroutine is
    chat,               \* where each response's LLM stream is
    sentences,          \* length of each response's sentences channel
    produced,           \* sentences each LLM stream has produced
    synth,              \* where each response's synthesizer is
    frames,             \* speech frames each response has queued so far
    tool,               \* each response's tool call
    tone,               \* responses whose thinking-sound goroutine is alive
    cancelled,          \* responses whose context is done
    gaveUp,             \* responses whose drain wait hit its deadline
    greetGen,           \* the generation greet loaded
    sender,             \* runSender is running
    stopped             \* the pipeline context is done

ownerVars == <<responseGen, responseCancel, responseCancelGen>>
agentVars == <<agent, agentTurn>>
inboundVars == <<bargeInPending, interruptCh>>
chatVars == <<chat, sentences, produced>>
workVars == <<chatVars, synth, frames, tool, tone>>
endVars == <<sender, stopped>>
pathVars == <<ownerVars, outPCMCh, speaking, clientState, agentVars,
              inboundVars, pc, cancelled, gaveUp, greetGen, endVars>>
vars == <<pathVars, workVars>>

GenOf(r) == IF r = Greet THEN greetGen ELSE r

Frame == [of : Responses, kind : {"speech", "sound"}]
Room == Len(outPCMCh) < OutCap

Busy(r) == tool[r] \in {"busy", "returned"}

\* A response is live while it may still produce audio: it has registered,
\* has not unwound and nobody has cancelled its context.
Live(r) == pc[r] = "running" /\ r \notin cancelled

--------------------------------------------------------------------------
(* runAgent and supersedeResponse *)

\* A barge-in or a turn opens the next generation.  Partials and passive
\* acknowledgements leave all of this state alone.  Unless LateGreeting, the
\* greeting goroutine has loaded its generation before the first turn.
openGeneration(turn) ==
    /\ agent = "select"
    /\ responseGen < MaxGen
    /\ LateGreeting \/ pc[Greet] # "load"
    /\ responseGen' = responseGen + 1
    /\ agent' = "cancel"
    /\ agentTurn' = turn

takeTurn ==
    /\ openGeneration(TRUE)
    /\ UNCHANGED <<responseCancel, responseCancelGen, outPCMCh, speaking,
                   clientState, inboundVars, pc, workVars, cancelled, gaveUp,
                   greetGen, endVars>>

takeInterrupt ==
    /\ interruptCh
    /\ openGeneration(FALSE)
    /\ interruptCh' = FALSE
    /\ UNCHANGED <<responseCancel, responseCancelGen, outPCMCh, speaking,
                   clientState, bargeInPending, pc, workVars, cancelled,
                   gaveUp, greetGen, endVars>>

cancelInstalled == cancelled' = cancelled \cup ({responseCancel} \ {None})

cancelResponse ==
    /\ agent = "cancel"
    /\ cancelInstalled
    /\ responseCancel' = None
    /\ agent' = "drain"
    /\ UNCHANGED <<responseGen, responseCancelGen, outPCMCh, speaking,
                   clientState, agentTurn, inboundVars, pc, workVars, gaveUp,
                   greetGen, endVars>>

drainOutbound ==
    /\ agent = "drain"
    /\ IF outPCMCh = <<>>
       THEN agent' = "unspeak" /\ UNCHANGED outPCMCh
       ELSE outPCMCh' = Tail(outPCMCh) /\ UNCHANGED agent
    /\ UNCHANGED <<ownerVars, speaking, clientState, agentTurn, inboundVars,
                   pc, workVars, cancelled, gaveUp, greetGen, endVars>>

supersedeUnspeak ==
    /\ agent = "unspeak"
    /\ speaking' = FALSE
    /\ agent' = IF agentTurn THEN "answer" ELSE "select"
    /\ UNCHANGED <<ownerVars, outPCMCh, clientState, agentTurn, inboundVars,
                   pc, workVars, cancelled, gaveUp, greetGen, endVars>>

startRespond ==
    /\ agent = "answer"
    /\ clientState' = "thinking"
    /\ pc' = [pc EXCEPT ![responseGen] = "spawned"]
    /\ agent' = "select"
    /\ UNCHANGED <<ownerVars, outPCMCh, speaking, agentTurn, inboundVars,
                   workVars, cancelled, gaveUp, greetGen, endVars>>

agentExit ==
    /\ stopped
    /\ agent = "select"
    /\ agent' = "exit"
    /\ UNCHANGED <<ownerVars, outPCMCh, speaking, clientState, agentTurn,
                   inboundVars, pc, workVars, cancelled, gaveUp, greetGen,
                   endVars>>

--------------------------------------------------------------------------
(* respond and greet: registration *)

greetLoad ==
    /\ pc[Greet] = "load"
    /\ greetGen' = responseGen
    /\ pc' = [pc EXCEPT ![Greet] = "spawned"]
    /\ UNCHANGED <<ownerVars, outPCMCh, speaking, clientState, agentVars,
                   inboundVars, workVars, cancelled, gaveUp, endVars>>

registerUngated(r) ==
    /\ pc[r] = "spawned"
    /\ cancelInstalled
    /\ responseCancel' = r
    /\ responseCancelGen' = GenOf(r)
    /\ pc' = [pc EXCEPT ![r] = "running"]
    /\ chat' = [chat EXCEPT ![r] = IF r = Greet THEN "closed" ELSE "run"]
    /\ sentences' = [sentences EXCEPT ![r] = IF r = Greet THEN 1 ELSE 0]
    /\ synth' = [synth EXCEPT ![r] = "wait"]
    /\ UNCHANGED <<responseGen, outPCMCh, speaking, clientState, agentVars,
                   inboundVars, produced, frames, tool, tone, gaveUp, greetGen,
                   endVars>>

registerResponse(r) ==
    /\ responseGen = GenOf(r)
    /\ registerUngated(r)

\* Superseded before the goroutine was scheduled: respond cancels and returns.
registerRefused(r) ==
    /\ pc[r] = "spawned"
    /\ responseGen # GenOf(r)
    /\ pc' = [pc EXCEPT ![r] = "refused"]
    /\ cancelled' = cancelled \cup {r}
    /\ UNCHANGED <<ownerVars, outPCMCh, speaking, clientState, agentVars,
                   inboundVars, workVars, gaveUp, greetGen, endVars>>

--------------------------------------------------------------------------
(* respond: the LLM stream.  onSentence sends on the sentences channel, with *)
(* the response's context as the only way out of a full one.               *)

chatProduces(r) ==
    /\ chat[r] = "run"
    /\ ~Busy(r)
    /\ produced[r] < MaxSentences
    /\ produced' = [produced EXCEPT ![r] = @ + 1]
    /\ chat' = [chat EXCEPT ![r] = "send"]
    /\ UNCHANGED <<ownerVars, outPCMCh, speaking, clientState, agentVars,
                   inboundVars, pc, sentences, synth, frames, tool, tone,
                   cancelled, gaveUp, greetGen, endVars>>

chatSends(r) ==
    /\ chat[r] = "send"
    /\ sentences[r] < SentenceCap
    /\ sentences' = [sentences EXCEPT ![r] = @ + 1]
    /\ chat' = [chat EXCEPT ![r] = "run"]
    /\ UNCHANGED <<ownerVars, outPCMCh, speaking, clientState, agentVars,
                   inboundVars, pc, produced, synth, frames, tool, tone,
                   cancelled, gaveUp, greetGen, endVars>>

sendAborts(r) == chat[r] = "send" /\ r \in cancelled

chatDrops(r) ==
    /\ sendAborts(r)
    /\ chat' = [chat EXCEPT ![r] = "run"]
    /\ UNCHANGED <<ownerVars, outPCMCh, speaking, clientState, agentVars,
                   inboundVars, pc, sentences, produced, synth, frames, tool,
                   tone, cancelled, gaveUp, greetGen, endVars>>

\* Chat returns, with or without an error; respond closes the channel.
chatReturns(r) ==
    /\ chat[r] = "run"
    /\ ~Busy(r)
    /\ chat' = [chat EXCEPT ![r] = "closed"]
    /\ UNCHANGED <<ownerVars, outPCMCh, speaking, clientState, agentVars,
                   inboundVars, pc, sentences, produced, synth, frames, tool,
                   tone, cancelled, gaveUp, greetGen, endVars>>

--------------------------------------------------------------------------
(* synthesizeSentences *)

takeSentence(r) ==
    /\ synth[r] = "wait"
    /\ sentences[r] > 0
    /\ sentences' = [sentences EXCEPT ![r] = @ - 1]
    /\ synth' = [synth EXCEPT ![r] = IF r \in cancelled THEN "done" ELSE "loop"]
    /\ UNCHANGED <<ownerVars, outPCMCh, speaking, clientState, agentVars,
                   inboundVars, pc, chat, produced, frames, tool, tone,
                   cancelled, gaveUp, greetGen, endVars>>

NoMoreSentences(r) == chat[r] = "closed" /\ sentences[r] = 0

\* A frame of a new chunk passes the context check; the later frames of one
\* chunk, and the padded tail after the last sentence, follow without another.
nextFrame(r) ==
    /\ \/ synth[r] = "loop" /\ r \notin cancelled
       \/ synth[r] = "chunk"
       \/ synth[r] = "wait" /\ NoMoreSentences(r)
    /\ frames[r] < MaxFrames
    /\ synth' = [synth EXCEPT ![r] = "emit"]
    /\ UNCHANGED <<ownerVars, outPCMCh, speaking, clientState, agentVars,
                   inboundVars, pc, chatVars, frames, tool, tone, cancelled,
                   gaveUp, greetGen, endVars>>

\* emitFrame's select: with room in the channel and the context done at the
\* same time, either case may be chosen.
emitFrame(r) ==
    /\ synth[r] = "emit"
    /\ Room
    /\ outPCMCh' = Append(outPCMCh, [of |-> r, kind |-> "speech"])
    /\ frames' = [frames EXCEPT ![r] = @ + 1]
    /\ synth' = [synth EXCEPT ![r] = IF frames[r] = 0 THEN "raise" ELSE "chunk"]
    /\ UNCHANGED <<ownerVars, speaking, clientState, agentVars, inboundVars,
                   pc, chatVars, tool, tone, cancelled, gaveUp, greetGen,
                   endVars>>

synthAborts_IgnoresContext(r) == FALSE

synthAborts(r) == synth[r] = "emit" /\ r \in cancelled

\* emitFrame's other case.
emitAborted(r) ==
    /\ synthAborts(r)
    /\ synth' = [synth EXCEPT ![r] = "done"]
    /\ UNCHANGED <<ownerVars, outPCMCh, speaking, clientState, agentVars,
                   inboundVars, pc, chatVars, frames, tool, tone, cancelled,
                   gaveUp, greetGen, endVars>>

\* One sentence's stream is exhausted.
sentenceEnds(r) ==
    /\ synth[r] \in {"loop", "chunk"}
    /\ synth' = [synth EXCEPT ![r] = "wait"]
    /\ UNCHANGED <<ownerVars, outPCMCh, speaking, clientState, agentVars,
                   inboundVars, pc, chatVars, frames, tool, tone, cancelled,
                   gaveUp, greetGen, endVars>>

\* The stream fails, or the context is done: return, sentences left or not.
streamFails(r) ==
    /\ synth[r] \in {"loop", "chunk"}
    /\ TtsFails \/ r \in cancelled
    /\ synth' = [synth EXCEPT ![r] = "done"]
    /\ UNCHANGED <<ownerVars, outPCMCh, speaking, clientState, agentVars,
                   inboundVars, pc, chatVars, frames, tool, tone, cancelled,
                   gaveUp, greetGen, endVars>>

synthEnds(r) ==
    /\ synth[r] = "wait"
    /\ NoMoreSentences(r)
    /\ synth' = [synth EXCEPT ![r] = "done"]
    /\ UNCHANGED <<ownerVars, outPCMCh, speaking, clientState, agentVars,
                   inboundVars, pc, chatVars, frames, tool, tone, cancelled,
                   gaveUp, greetGen, endVars>>

raiseSpeaking(r) ==
    /\ synth[r] = "raise"
    /\ speaking' = TRUE
    /\ synth' = [synth EXCEPT ![r] = "announce"]
    /\ UNCHANGED <<ownerVars, outPCMCh, clientState, agentVars, inboundVars,
                   pc, chatVars, frames, tool, tone, cancelled, gaveUp,
                   greetGen, endVars>>

announceSpeaking(r) ==
    /\ synth[r] = "announce"
    /\ clientState' = "speaking"
    /\ synth' = [synth EXCEPT ![r] = "chunk"]
    /\ UNCHANGED <<ownerVars, outPCMCh, speaking, agentVars, inboundVars, pc,
                   chatVars, frames, tool, tone, cancelled, gaveUp, greetGen,
                   endVars>>

--------------------------------------------------------------------------
(* Tool calls: the thinking sound and the sent chime *)

startTool(r) ==
    /\ ToolCalls
    /\ r # Greet
    /\ chat[r] = "run"
    /\ tool[r] = "none"
    /\ tool' = [tool EXCEPT ![r] = "busy"]
    /\ tone' = tone \cup {r}
    /\ UNCHANGED <<ownerVars, outPCMCh, speaking, clientState, agentVars,
                   inboundVars, pc, chatVars, synth, frames, cancelled,
                   gaveUp, greetGen, endVars>>

toolReturns(r) ==
    /\ tool[r] = "busy"
    /\ tool' = [tool EXCEPT ![r] = "returned"]
    /\ UNCHANGED <<ownerVars, outPCMCh, speaking, clientState, agentVars,
                   inboundVars, pc, chatVars, synth, frames, tone, cancelled,
                   gaveUp, greetGen, endVars>>

\* The tone watches its tool and the pipeline, not the response's context.
playThinkingSound(r) ==
    /\ r \in tone
    /\ Room
    /\ outPCMCh' = Append(outPCMCh, [of |-> r, kind |-> "sound"])
    /\ UNCHANGED <<ownerVars, speaking, clientState, agentVars, inboundVars,
                   pc, workVars, cancelled, gaveUp, greetGen, endVars>>

thinkingSoundEnds(r) ==
    /\ r \in tone
    /\ tool[r] # "busy" \/ stopped
    /\ tone' = tone \ {r}
    /\ UNCHANGED <<ownerVars, outPCMCh, speaking, clientState, agentVars,
                   inboundVars, pc, chatVars, synth, frames, tool, cancelled,
                   gaveUp, greetGen, endVars>>

\* The tool succeeded: the chime is queued, as one frame here.
playSentSound(r) ==
    /\ tool[r] = "returned"
    /\ Room
    /\ outPCMCh' = Append(outPCMCh, [of |-> r, kind |-> "sound"])
    /\ tool' = [tool EXCEPT ![r] = "done"]
    /\ UNCHANGED <<ownerVars, speaking, clientState, agentVars, inboundVars,
                   pc, chatVars, synth, frames, tone, cancelled, gaveUp,
                   greetGen, endVars>>

\* The tool failed, or the pipeline stopped before the chime.
noSentSound(r) ==
    /\ tool[r] = "returned"
    /\ tool' = [tool EXCEPT ![r] = "done"]
    /\ UNCHANGED <<ownerVars, outPCMCh, speaking, clientState, agentVars,
                   inboundVars, pc, chatVars, synth, frames, tone, cancelled,
                   gaveUp, greetGen, endVars>>

--------------------------------------------------------------------------
(* The end of a response: the deferred cancel and finishResponse *)

\* Chat and the synthesizer have returned; their locals go with them.
respondReturns(r) ==
    /\ pc[r] = "running"
    /\ chat[r] = "closed"
    /\ synth[r] = "done"
    /\ pc' = [pc EXCEPT ![r] = "finish"]
    /\ chat' = [chat EXCEPT ![r] = "idle"]
    /\ sentences' = [sentences EXCEPT ![r] = 0]
    /\ produced' = [produced EXCEPT ![r] = 0]
    /\ synth' = [synth EXCEPT ![r] = "idle"]
    /\ frames' = [frames EXCEPT ![r] = 0]
    /\ tool' = [tool EXCEPT ![r] = "none"]
    /\ cancelled' = cancelled \cup {r}
    /\ UNCHANGED <<ownerVars, outPCMCh, speaking, clientState, agentVars,
                   inboundVars, tone, gaveUp, greetGen, endVars>>

ownsCancel_Always(r) == TRUE

ownsCancel(r) == responseCancelGen = GenOf(r)

\* The section under responseMu: release the cancel func, decide staleness.
finishRelease(r) ==
    /\ pc[r] = "finish"
    /\ responseCancel' = IF ownsCancel(r) THEN None ELSE responseCancel
    /\ pc' = [pc EXCEPT ![r] =
                 IF responseGen # GenOf(r) THEN "done" ELSE "unspeak"]
    /\ UNCHANGED <<responseGen, responseCancelGen, outPCMCh, speaking,
                   clientState, agentVars, inboundVars, workVars, cancelled,
                   gaveUp, greetGen, endVars>>

finishUnspeak(r) ==
    /\ pc[r] = "unspeak"
    /\ speaking' = FALSE
    /\ pc' = [pc EXCEPT ![r] = "draining"]
    /\ UNCHANGED <<ownerVars, outPCMCh, clientState, agentVars, inboundVars,
                   workVars, cancelled, gaveUp, greetGen, endVars>>

drained_NoWait(r) == TRUE
drained_OnlySuperseded(r) == responseGen # GenOf(r)

drained(r) == outPCMCh = <<>> \/ responseGen # GenOf(r)

waitOutboundEmpty(r) ==
    /\ pc[r] = "draining"
    /\ drained(r)
    /\ pc' = [pc EXCEPT ![r] = "recheck"]
    /\ UNCHANGED <<ownerVars, outPCMCh, speaking, clientState, agentVars,
                   inboundVars, workVars, cancelled, gaveUp, greetGen,
                   endVars>>

\* The five-second deadline.  A full channel is two seconds of audio, so it
\* passes only with no sender left or with a tone refilling the channel.
drainDeadline(r) ==
    /\ pc[r] = "draining"
    /\ outPCMCh # <<>>
    /\ ~sender \/ tone # {}
    /\ pc' = [pc EXCEPT ![r] = "recheck"]
    /\ gaveUp' = gaveUp \cup {r}
    /\ UNCHANGED <<ownerVars, outPCMCh, speaking, clientState, agentVars,
                   inboundVars, workVars, cancelled, greetGen, endVars>>

finishRecheck(r) ==
    /\ pc[r] = "recheck"
    /\ pc' = [pc EXCEPT ![r] =
                 IF responseGen # GenOf(r) THEN "done" ELSE "listening"]
    /\ UNCHANGED <<ownerVars, outPCMCh, speaking, clientState, agentVars,
                   inboundVars, workVars, cancelled, gaveUp, greetGen,
                   endVars>>

sendListening(r) ==
    /\ pc[r] = "listening"
    /\ clientState' = "listening"
    /\ pc' = [pc EXCEPT ![r] = "done"]
    /\ gaveUp' = gaveUp \ {r}
    /\ UNCHANGED <<ownerVars, outPCMCh, speaking, agentVars, inboundVars,
                   workVars, cancelled, greetGen, endVars>>

--------------------------------------------------------------------------
(* runSender, the barge-in window of runInbound, and the end of the call *)

sendFrame ==
    /\ sender
    /\ outPCMCh # <<>>
    /\ outPCMCh' = Tail(outPCMCh)
    /\ UNCHANGED <<ownerVars, speaking, clientState, agentVars, inboundVars,
                   pc, workVars, cancelled, gaveUp, greetGen, endVars>>

senderExit ==
    /\ sender
    /\ stopped
    /\ sender' = FALSE
    /\ UNCHANGED <<ownerVars, outPCMCh, speaking, clientState, agentVars,
                   inboundVars, pc, workVars, cancelled, gaveUp, greetGen,
                   stopped>>

bargeInCandidate ==
    /\ ~bargeInPending
    /\ speaking
    /\ bargeInPending' = TRUE
    /\ UNCHANGED <<ownerVars, outPCMCh, speaking, clientState, agentVars,
                   interruptCh, pc, workVars, cancelled, gaveUp, greetGen,
                   endVars>>

\* The window elapsed, or a short utterance that is no backchannel ended it.
\* The send on interruptCh never blocks: a full slot swallows it.
bargeInFires ==
    /\ bargeInPending
    /\ bargeInPending' = FALSE
    /\ interruptCh' = TRUE
    /\ UNCHANGED <<ownerVars, outPCMCh, speaking, clientState, agentVars, pc,
                   workVars, cancelled, gaveUp, greetGen, endVars>>

bargeInSuppressed ==
    /\ bargeInPending
    /\ bargeInPending' = FALSE
    /\ UNCHANGED <<ownerVars, outPCMCh, speaking, clientState, agentVars,
                   interruptCh, pc, workVars, cancelled, gaveUp, greetGen,
                   endVars>>

\* The peer closes or a goroutine panics: every response context derives from
\* the pipeline's and is done with it.
Stop ==
    /\ CallEnds
    /\ ~stopped
    /\ stopped' = TRUE
    /\ cancelled' = Responses
    /\ UNCHANGED <<ownerVars, outPCMCh, speaking, clientState, agentVars,
                   inboundVars, pc, workVars, gaveUp, greetGen, sender>>

--------------------------------------------------------------------------

Init ==
    /\ responseGen = 0
    /\ responseCancel = None
    /\ responseCancelGen = 0
    /\ outPCMCh = <<>>
    /\ speaking = FALSE
    /\ clientState = "none"
    /\ agent = "select"
    /\ agentTurn = FALSE
    /\ bargeInPending = FALSE
    /\ interruptCh = FALSE
    /\ pc = [r \in Responses |->
                IF r = Greet /\ Greeting THEN "load" ELSE "idle"]
    /\ chat = [r \in Responses |-> "idle"]
    /\ sentences = [r \in Responses |-> 0]
    /\ produced = [r \in Responses |-> 0]
    /\ synth = [r \in Responses |-> "idle"]
    /\ frames = [r \in Responses |-> 0]
    /\ tool = [r \in Responses |-> "none"]
    /\ tone = {}
    /\ cancelled = {}
    /\ gaveUp = {}
    /\ greetGen = 0
    /\ sender = TRUE
    /\ stopped = FALSE

supersedeStep ==
    cancelResponse \/ drainOutbound \/ supersedeUnspeak \/ startRespond

chatStep(r) == chatProduces(r) \/ chatSends(r) \/ chatDrops(r) \/ chatReturns(r)

synthStep(r) ==
    \/ takeSentence(r) \/ sentenceEnds(r) \/ streamFails(r) \/ synthEnds(r)
    \/ nextFrame(r) \/ emitFrame(r) \/ emitAborted(r)
    \/ raiseSpeaking(r) \/ announceSpeaking(r)

toolStep(r) ==
    \/ startTool(r) \/ toolReturns(r) \/ playThinkingSound(r)
    \/ thinkingSoundEnds(r) \/ playSentSound(r) \/ noSentSound(r)

respondStep(r) ==
    \/ registerResponse(r) \/ registerRefused(r)
    \/ respondReturns(r) \/ finishRelease(r) \/ finishUnspeak(r)
    \/ waitOutboundEmpty(r) \/ drainDeadline(r) \/ finishRecheck(r)
    \/ sendListening(r)
    \/ r = Greet /\ greetLoad

Next ==
    \/ takeTurn \/ takeInterrupt \/ supersedeStep \/ agentExit
    \/ \E r \in Responses : \/ respondStep(r) \/ chatStep(r)
                            \/ synthStep(r) \/ toolStep(r)
    \/ sendFrame \/ senderExit
    \/ bargeInCandidate \/ bargeInFires \/ bargeInSuppressed
    \/ Stop

Safety == Init /\ [][Next]_vars

\* Goroutines keep running, the providers' streams end and tools return (both
\* are bounded by request contexts and timeouts); callers owe us nothing, so
\* turns, barge-ins and the end of the call carry no fairness.  Senders blocked
\* on a full channel are woken in order, hence SF for the two that can block.
Fairness ==
    /\ WF_vars(supersedeStep \/ agentExit)
    /\ WF_vars(sendFrame \/ senderExit)
    /\ \A r \in Responses :
          /\ WF_vars(respondStep(r)) /\ WF_vars(chatStep(r))
          /\ WF_vars(synthStep(r)) /\ SF_vars(emitFrame(r))
          /\ ToolCalls => /\ WF_vars(toolReturns(r) \/ (stopped /\ noSentSound(r)))
                          /\ WF_vars(thinkingSoundEnds(r))
                          /\ SF_vars(playSentSound(r))

Spec == Safety /\ Fairness

--------------------------------------------------------------------------
(* Properties *)

PathTypeOK ==
    /\ responseGen \in 0 .. MaxGen
    /\ responseCancel \in Responses \cup {None}
    /\ responseCancelGen \in 0 .. MaxGen
    /\ outPCMCh \in Seq(Frame) /\ Len(outPCMCh) <= OutCap
    /\ speaking \in BOOLEAN
    /\ clientState \in {"none", "thinking", "speaking", "listening"}
    /\ agent \in {"select", "cancel", "drain", "unspeak", "answer", "exit"}
    /\ agentTurn \in BOOLEAN
    /\ bargeInPending \in BOOLEAN
    /\ interruptCh \in BOOLEAN
    /\ pc \in [Responses -> {"idle", "load", "spawned", "refused", "running",
                             "finish", "unspeak", "draining", "recheck",
                             "listening", "done"}]
    /\ cancelled \subseteq Responses
    /\ gaveUp \subseteq Responses
    /\ greetGen \in 0 .. MaxGen
    /\ sender \in BOOLEAN
    /\ stopped \in BOOLEAN

WorkTypeOK ==
    /\ chat \in [Responses -> {"idle", "run", "send", "closed"}]
    /\ sentences \in [Responses -> 0 .. SentenceCap]
    /\ produced \in [Responses -> Nat]
    /\ synth \in [Responses -> {"idle", "wait", "loop", "chunk", "emit",
                                "raise", "announce", "done"}]
    /\ frames \in [Responses -> Nat]
    /\ tool \in [Responses -> {"none", "busy", "returned", "done"}]
    /\ tone \subseteq Responses

TypeOK == PathTypeOK /\ WorkTypeOK

\* The next barge-in reaches whatever is still producing audio: a live
\* response is the one whose cancel func is installed.  A late unwind that
\* cleared its successor's cancel func would break it (finishResponse).
LiveIsCancellable == \A r \in Responses : Live(r) => responseCancel = r

\* Why LiveIsCancellable holds, as an inductive invariant: generations name
\* responses uniquely, the installed cancel func belongs to a response that is
\* registered under the recorded generation, and outside the two steps that
\* open a generation and cancel its predecessor that generation is current.
OwnerInv ==
    /\ greetGen = 0
    /\ pc[Greet] = "load" => responseGen = 0
    /\ \A r \in Responses : r # Greet /\ pc[r] # "idle" => r <= responseGen
    /\ agent \notin {"select", "exit"} =>
          responseGen > 0 /\ pc[responseGen] = "idle"
    /\ LiveIsCancellable
    /\ responseCancel # None =>
          /\ pc[responseCancel] \in {"running", "finish"}
          /\ responseCancelGen = responseCancel
          /\ agent # "cancel" => responseCancelGen = responseGen

\* "listening" is announced after the agent's own speech has left the queue
\* (waitOutboundDrain before the final sendEvent of finishResponse).
ListeningAfterSpeech ==
    \A r \in Responses : pc[r] = "listening" /\ r \notin gaveUp
        => \A i \in DOMAIN outPCMCh : outPCMCh[i] # [of |-> r, kind |-> "speech"]

\* Who holds the audio path, and who has ever held it.
Holders == {r \in Responses : Live(r)}
Granted == {r \in Responses : pc[r] \notin {"idle", "load", "spawned", "refused"}}

\* The audio path is granted to one response at a time, at most once each,
\* and is free in between (registerResponse, supersedeResponse).
Floor == INSTANCE AudioFloor WITH holders <- Holders, granted <- Granted
FloorSafety == Floor!Spec

\* A failed synthesizer has left the reply in the middle: runLLM waits to send
\* into a full sentences channel that nobody reads any more, and only respCtx
\* ends the wait.
Stranded(r) ==
    chat[r] = "send" /\ synth[r] = "done" /\ sentences[r] = SentenceCap

\* A response that keeps the floor tells the client it is listening again, its
\* synthesizer failing or not; a newer generation or the end of the call
\* releases it from that, and a reply with more sentences to send than its
\* channel holds after the failure may be stranded instead (finishResponse).
FloorReturned ==
    \A r \in Responses :
        pc[r] = "running" /\ responseGen = GenOf(r)
            ~> clientState = "listening" \/ responseGen # GenOf(r) \/ stopped
               \/ Stranded(r)

\* Once the call ends every goroutine of the pipeline ends, with the outbound
\* queue full or not (the ctx.Done cases of agent.go, thinking.go, outbound.go).
WindsDown ==
    stopped ~> /\ agent = "exit" /\ ~sender /\ tone = {}
               /\ \A r \in Responses : pc[r] \in {"idle", "refused", "done"}
==========================================================================
