--------------------- MODULE ResponseOwnershipProofs ---------------------
(***************************************************************************)
(* Proofs about ResponseOwnership, for every bound on turns, frames and    *)
(* channel size.                                                           *)
(***************************************************************************)
EXTENDS ResponseOwnership, TLAPS

\* The audio path's variables keep their types, the outbound queue its
\* capacity included.
LEMMA PathInductive == PathTypeOK /\ [Next]_vars => PathTypeOK'
<1> SUFFICES ASSUME PathTypeOK, [Next]_vars PROVE PathTypeOK'
  OBVIOUS
<1> USE ConstantsAssumption DEF Responses, Greet, None
<1>0. ASSUME UNCHANGED pathVars PROVE PathTypeOK'
  BY <1>0 DEF PathTypeOK, pathVars, ownerVars, agentVars, inboundVars, endVars
<1>1. CASE takeTurn
  BY <1>1 DEF PathTypeOK, takeTurn, openGeneration, inboundVars, endVars
<1>2. CASE takeInterrupt
  <2>1. /\ interruptCh' \in BOOLEAN /\ agentTurn' \in BOOLEAN /\ agent' = "cancel"
        /\ responseGen < MaxGen /\ responseGen' = responseGen + 1
        /\ UNCHANGED <<responseCancel, responseCancelGen, outPCMCh, speaking,
                       clientState, bargeInPending, pc, cancelled, gaveUp,
                       greetGen, endVars>>
    BY <1>2 DEF takeInterrupt, openGeneration
  <2> QED BY <2>1 DEF PathTypeOK, endVars
<1>3. CASE cancelResponse
  BY <1>3 DEF PathTypeOK, cancelResponse, cancelInstalled, inboundVars, endVars
<1>4. CASE drainOutbound
  <2>1. CASE outPCMCh = <<>>
    BY <1>4, <2>1 DEF PathTypeOK, drainOutbound, ownerVars, inboundVars, endVars
  <2>2. CASE outPCMCh # <<>>
    <3>1. Tail(outPCMCh) \in Seq(Frame) /\ Len(Tail(outPCMCh)) <= OutCap
      BY <2>2 DEF PathTypeOK
    <3> QED
      BY <1>4, <2>2, <3>1 DEF PathTypeOK, drainOutbound, ownerVars, inboundVars, endVars
  <2> QED BY <2>1, <2>2
<1>5. CASE supersedeUnspeak
  BY <1>5 DEF PathTypeOK, supersedeUnspeak, ownerVars, inboundVars, endVars
<1>6. CASE startRespond
  BY <1>6 DEF PathTypeOK, startRespond, ownerVars, inboundVars, endVars
<1>7. CASE agentExit
  BY <1>7 DEF PathTypeOK, agentExit, ownerVars, inboundVars, endVars
<1>8. ASSUME NEW r \in Responses, respondStep(r) PROVE PathTypeOK'
  <2>1. CASE registerResponse(r)
    BY <2>1 DEF PathTypeOK, registerResponse, registerUngated, cancelInstalled, GenOf,
                agentVars, inboundVars, endVars
  <2>2. CASE registerRefused(r)
    BY <2>2 DEF PathTypeOK, registerRefused, ownerVars, agentVars, inboundVars, endVars
  <2>3. CASE respondReturns(r)
    BY <2>3 DEF PathTypeOK, respondReturns, ownerVars, agentVars, inboundVars, endVars
  <2>4. CASE finishRelease(r)
    BY <2>4 DEF PathTypeOK, finishRelease, ownerVars, agentVars, inboundVars, endVars
  <2>5. CASE finishUnspeak(r)
    BY <2>5 DEF PathTypeOK, finishUnspeak, ownerVars, agentVars, inboundVars, endVars
  <2>6. CASE waitOutboundEmpty(r)
    BY <2>6 DEF PathTypeOK, waitOutboundEmpty, ownerVars, agentVars, inboundVars, endVars
  <2>7. CASE drainDeadline(r)
    BY <2>7 DEF PathTypeOK, drainDeadline, ownerVars, agentVars, inboundVars, endVars
  <2>8. CASE finishRecheck(r)
    BY <2>8 DEF PathTypeOK, finishRecheck, ownerVars, agentVars, inboundVars, endVars
  <2>9. CASE sendListening(r)
    BY <2>9 DEF PathTypeOK, sendListening, ownerVars, agentVars, inboundVars, endVars
  <2>10. CASE greetLoad
    BY <2>10 DEF PathTypeOK, greetLoad, ownerVars, agentVars, inboundVars, endVars
  <2> QED
    BY <1>8, <2>1, <2>2, <2>3, <2>4, <2>5, <2>6, <2>7, <2>8, <2>9, <2>10 DEF respondStep
<1>9. ASSUME NEW r \in Responses, chatStep(r) PROVE PathTypeOK'
  BY <1>0, <1>9 DEF chatStep, chatProduces, chatSends, chatDrops, chatReturns, pathVars
<1>10. ASSUME NEW r \in Responses, NEW k \in {"speech", "sound"}, Room,
              outPCMCh' = Append(outPCMCh, [of |-> r, kind |-> k])
       PROVE  outPCMCh' \in Seq(Frame) /\ Len(outPCMCh') <= OutCap
  <2>1. [of |-> r, kind |-> k] \in Frame
    BY DEF Frame
  <2> QED BY <1>10, <2>1 DEF PathTypeOK, Room
<1>11. ASSUME NEW r \in Responses, synthStep(r) PROVE PathTypeOK'
  <2>1. CASE emitFrame(r)
    <3>1. outPCMCh' \in Seq(Frame) /\ Len(outPCMCh') <= OutCap
      BY <1>10, <2>1 DEF emitFrame
    <3> QED
      BY <2>1, <3>1 DEF PathTypeOK, emitFrame, ownerVars, agentVars, inboundVars, endVars
  <2>2. CASE raiseSpeaking(r)
    BY <2>2 DEF PathTypeOK, raiseSpeaking, ownerVars, agentVars, inboundVars, endVars
  <2>3. CASE announceSpeaking(r)
    BY <2>3 DEF PathTypeOK, announceSpeaking, ownerVars, agentVars, inboundVars, endVars
  <2> QED
    BY <1>0, <1>11, <2>1, <2>2, <2>3
       DEF synthStep, takeSentence, sentenceEnds, streamFails, synthEnds, nextFrame,
           emitAborted, pathVars
<1>12. ASSUME NEW r \in Responses, toolStep(r) PROVE PathTypeOK'
  <2>1. CASE playThinkingSound(r) \/ playSentSound(r)
    <3>1. outPCMCh' \in Seq(Frame) /\ Len(outPCMCh') <= OutCap
      BY <1>10, <2>1 DEF playThinkingSound, playSentSound
    <3>2. UNCHANGED <<ownerVars, speaking, clientState, agentVars, inboundVars,
                      pc, cancelled, gaveUp, greetGen, endVars>>
      BY <2>1 DEF playThinkingSound, playSentSound
    <3> QED
      BY <3>1, <3>2 DEF PathTypeOK, ownerVars, agentVars, inboundVars, endVars
  <2> QED
    BY <1>0, <1>12, <2>1 DEF toolStep, startTool, toolReturns, thinkingSoundEnds,
                             noSentSound, pathVars
<1>13. CASE sendFrame
  <2>1. Tail(outPCMCh) \in Seq(Frame) /\ Len(Tail(outPCMCh)) <= OutCap
    BY <1>13 DEF PathTypeOK, sendFrame
  <2> QED
    BY <1>13, <2>1 DEF PathTypeOK, sendFrame, ownerVars, agentVars, inboundVars, endVars
<1>14. CASE senderExit
  BY <1>14 DEF PathTypeOK, senderExit, ownerVars, agentVars, inboundVars
<1>15. CASE bargeInCandidate \/ bargeInFires \/ bargeInSuppressed
  <2>1. /\ bargeInPending' \in BOOLEAN
        /\ interruptCh' \in BOOLEAN
        /\ UNCHANGED <<ownerVars, outPCMCh, speaking, clientState, agentVars,
                       pc, cancelled, gaveUp, greetGen, endVars>>
    BY <1>15 DEF PathTypeOK, bargeInCandidate, bargeInFires, bargeInSuppressed
  <2> QED BY <2>1 DEF PathTypeOK, ownerVars, agentVars, endVars
<1>16. CASE Stop
  BY <1>16 DEF PathTypeOK, Stop, ownerVars, agentVars, inboundVars
<1>17. CASE UNCHANGED vars
  BY <1>0, <1>17 DEF vars
<1> QED
  BY <1>1, <1>2, <1>3, <1>4, <1>5, <1>6, <1>7, <1>8, <1>9, <1>11, <1>12, <1>13,
     <1>14, <1>15, <1>16, <1>17 DEF Next, supersedeStep

\* The variables of the response goroutines keep their types, the sentences
\* channel its capacity included.
LEMMA WorkInductive == WorkTypeOK /\ [Next]_vars => WorkTypeOK'
<1> SUFFICES ASSUME WorkTypeOK, [Next]_vars PROVE WorkTypeOK'
  OBVIOUS
<1> USE ConstantsAssumption DEF Responses, Greet
<1>0. ASSUME UNCHANGED workVars PROVE WorkTypeOK'
  BY <1>0 DEF WorkTypeOK, workVars, chatVars
<1>1. ASSUME NEW r \in Responses, respondStep(r) PROVE WorkTypeOK'
  <2>1. CASE registerResponse(r)
    <3>1. chat' \in [Responses -> {"idle", "run", "send", "closed"}]
      BY <2>1 DEF WorkTypeOK, registerResponse, registerUngated
    <3>2. sentences' \in [Responses -> 0 .. SentenceCap]
      BY <2>1 DEF WorkTypeOK, registerResponse, registerUngated
    <3>3. synth' \in [Responses -> {"idle", "wait", "loop", "chunk", "emit",
                                 "raise", "announce", "done"}]
      BY <2>1 DEF WorkTypeOK, registerResponse, registerUngated
    <3>4. UNCHANGED <<produced, frames, tool, tone>>
      BY <2>1 DEF registerResponse, registerUngated, chatVars
    <3> QED BY <3>1, <3>2, <3>3, <3>4 DEF WorkTypeOK
  <2>2. CASE respondReturns(r)
    <3>1. chat' \in [Responses -> {"idle", "run", "send", "closed"}]
      BY <2>2 DEF WorkTypeOK, respondReturns
    <3>2. sentences' \in [Responses -> 0 .. SentenceCap]
      BY <2>2 DEF WorkTypeOK, respondReturns
    <3>3. produced' \in [Responses -> Nat]
      BY <2>2 DEF WorkTypeOK, respondReturns
    <3>4. synth' \in [Responses -> {"idle", "wait", "loop", "chunk", "emit",
                                 "raise", "announce", "done"}]
      BY <2>2 DEF WorkTypeOK, respondReturns
    <3>5. frames' \in [Responses -> Nat]
      BY <2>2 DEF WorkTypeOK, respondReturns
    <3>6. tool' \in [Responses -> {"none", "busy", "returned", "done"}]
      BY <2>2 DEF WorkTypeOK, respondReturns
    <3>7. UNCHANGED <<tone>>
      BY <2>2 DEF respondReturns, chatVars
    <3> QED BY <3>1, <3>2, <3>3, <3>4, <3>5, <3>6, <3>7 DEF WorkTypeOK
  <2> QED
    BY <1>0, <1>1, <2>1, <2>2
       DEF respondStep, registerRefused, finishRelease, finishUnspeak, waitOutboundEmpty,
           drainDeadline, finishRecheck, sendListening, greetLoad
<1>2. ASSUME NEW r \in Responses, chatStep(r) PROVE WorkTypeOK'
  <2>1. CASE chatProduces(r)
    <3>1. chat' \in [Responses -> {"idle", "run", "send", "closed"}]
      BY <2>1 DEF WorkTypeOK, chatProduces
    <3>2. produced' \in [Responses -> Nat]
      BY <2>1 DEF WorkTypeOK, chatProduces
    <3>3. UNCHANGED <<sentences, synth, frames, tool, tone>>
      BY <2>1 DEF chatProduces, chatVars
    <3> QED BY <3>1, <3>2, <3>3 DEF WorkTypeOK
  <2>2. CASE chatSends(r)
    <3>1. chat' \in [Responses -> {"idle", "run", "send", "closed"}]
      BY <2>2 DEF WorkTypeOK, chatSends
    <3>2. sentences' \in [Responses -> 0 .. SentenceCap]
      BY <2>2 DEF WorkTypeOK, chatSends
    <3>3. UNCHANGED <<produced, synth, frames, tool, tone>>
      BY <2>2 DEF chatSends, chatVars
    <3> QED BY <3>1, <3>2, <3>3 DEF WorkTypeOK
  <2>3. CASE chatDrops(r)
    BY <2>3 DEF WorkTypeOK, chatDrops, chatVars
  <2>4. CASE chatReturns(r)
    BY <2>4 DEF WorkTypeOK, chatReturns, chatVars
  <2> QED
    BY <1>2, <2>1, <2>2, <2>3, <2>4 DEF chatStep
<1>3. ASSUME NEW r \in Responses, synthStep(r) PROVE WorkTypeOK'
  <2>1. CASE takeSentence(r)
    <3>1. sentences' \in [Responses -> 0 .. SentenceCap]
      BY <2>1 DEF WorkTypeOK, takeSentence
    <3>2. synth' \in [Responses -> {"idle", "wait", "loop", "chunk", "emit",
                                 "raise", "announce", "done"}]
      BY <2>1 DEF WorkTypeOK, takeSentence
    <3>3. UNCHANGED <<chat, produced, frames, tool, tone>>
      BY <2>1 DEF takeSentence, chatVars
    <3> QED BY <3>1, <3>2, <3>3 DEF WorkTypeOK
  <2>2. CASE sentenceEnds(r)
    BY <2>2 DEF WorkTypeOK, sentenceEnds, chatVars
  <2>3. CASE streamFails(r)
    BY <2>3 DEF WorkTypeOK, streamFails, chatVars
  <2>4. CASE synthEnds(r)
    BY <2>4 DEF WorkTypeOK, synthEnds, chatVars
  <2>5. CASE nextFrame(r)
    BY <2>5 DEF WorkTypeOK, nextFrame, chatVars
  <2>6. CASE emitFrame(r)
    <3>1. synth' \in [Responses -> {"idle", "wait", "loop", "chunk", "emit",
                                 "raise", "announce", "done"}]
      BY <2>6 DEF WorkTypeOK, emitFrame
    <3>2. frames' \in [Responses -> Nat]
      <4>1. frames' = [frames EXCEPT ![r] = frames[r] + 1]
        BY <2>6 DEF emitFrame
      <4>2. frames \in [Responses -> Nat]
        BY DEF WorkTypeOK
      <4> QED BY <4>1, <4>2
    <3>3. UNCHANGED <<chat, sentences, produced, tool, tone>>
      BY <2>6 DEF emitFrame, chatVars
    <3> QED BY <3>1, <3>2, <3>3 DEF WorkTypeOK
  <2>7. CASE emitAborted(r)
    BY <2>7 DEF WorkTypeOK, emitAborted, chatVars
  <2>8. CASE raiseSpeaking(r)
    BY <2>8 DEF WorkTypeOK, raiseSpeaking, chatVars
  <2>9. CASE announceSpeaking(r)
    BY <2>9 DEF WorkTypeOK, announceSpeaking, chatVars
  <2> QED
    BY <1>3, <2>1, <2>2, <2>3, <2>4, <2>5, <2>6, <2>7, <2>8, <2>9 DEF synthStep
<1>4. ASSUME NEW r \in Responses, toolStep(r) PROVE WorkTypeOK'
  <2>1. CASE startTool(r)
    BY <2>1 DEF WorkTypeOK, startTool, chatVars
  <2>2. CASE toolReturns(r)
    BY <2>2 DEF WorkTypeOK, toolReturns, chatVars
  <2>3. CASE playThinkingSound(r)
    BY <2>3 DEF WorkTypeOK, playThinkingSound, chatVars, workVars
  <2>4. CASE thinkingSoundEnds(r)
    BY <2>4 DEF WorkTypeOK, thinkingSoundEnds, chatVars
  <2>5. CASE playSentSound(r)
    BY <2>5 DEF WorkTypeOK, playSentSound, chatVars
  <2>6. CASE noSentSound(r)
    BY <2>6 DEF WorkTypeOK, noSentSound, chatVars
  <2> QED
    BY <1>4, <2>1, <2>2, <2>3, <2>4, <2>5, <2>6 DEF toolStep
<1>5. CASE takeTurn \/ takeInterrupt \/ supersedeStep \/ agentExit
  BY <1>0, <1>5 DEF takeTurn, takeInterrupt, supersedeStep, cancelResponse, drainOutbound,
                    supersedeUnspeak, startRespond, agentExit
<1>6. CASE \/ sendFrame \/ senderExit \/ bargeInCandidate \/ bargeInFires
           \/ bargeInSuppressed \/ Stop
  BY <1>0, <1>6 DEF sendFrame, senderExit, bargeInCandidate, bargeInFires,
                    bargeInSuppressed, Stop
<1>7. CASE UNCHANGED vars
  BY <1>0, <1>7 DEF vars
<1> QED
  BY <1>1, <1>2, <1>3, <1>4, <1>5, <1>6, <1>7 DEF Next

\* Both halves together.
LEMMA TypeInductive == TypeOK /\ [Next]_vars => TypeOK'
  BY PathInductive, WorkInductive DEF TypeOK

\* The initial state is well typed.
LEMMA TypeInitial == Init => TypeOK
<1>1. Init => PathTypeOK
  BY ConstantsAssumption DEF Init, PathTypeOK, Responses, Greet, None
<1>2. Init => WorkTypeOK
  BY ConstantsAssumption DEF Init, WorkTypeOK, Responses
<1> QED BY <1>1, <1>2 DEF TypeOK

\* ResponseOwnership is type correct, whatever the bounds.
THEOREM TypeCorrect == Safety => []TypeOK
  BY TypeInitial, TypeInductive, PTL DEF Safety

--------------------------------------------------------------------------

\* The state OwnerInv speaks of.
ownerState == <<ownerVars, agent, pc, cancelled, greetGen>>

\* A step outside the state OwnerInv speaks of preserves it.
LEMMA OwnerFrame == OwnerInv /\ UNCHANGED ownerState => OwnerInv'
  BY DEF OwnerInv, ownerState, ownerVars, LiveIsCancellable, Live

\* Before the first turn nobody owns the audio path.
LEMMA OwnerInitial == Init => OwnerInv
  BY ConstantsAssumption
     DEF Init, OwnerInv, LiveIsCancellable, Live, Responses, Greet, None

\* The argument for the fix in finishResponse.  A generation names one
\* response, so a late unwind finds its own generation recorded only if the
\* installed cancel func is its own; and a generation is opened before its
\* predecessor is cancelled and answered after, so a registering response
\* finds nobody live.
LEMMA OwnerInductive ==
    ASSUME LateGreeting = FALSE
    PROVE  TypeOK /\ OwnerInv /\ [Next]_vars => OwnerInv'
<1> SUFFICES ASSUME TypeOK, OwnerInv, [Next]_vars PROVE OwnerInv'
  OBVIOUS
<1> USE ConstantsAssumption DEF Responses, Greet, None
<1>1. CASE takeTurn \/ takeInterrupt
  <2>1. /\ responseGen' = responseGen + 1 /\ agent' = "cancel"
        /\ agent = "select" /\ responseGen < MaxGen /\ pc[0] # "load"
        /\ UNCHANGED <<responseCancel, responseCancelGen, pc, cancelled, greetGen>>
    BY <1>1 DEF takeTurn, takeInterrupt, openGeneration
  <2>2. pc[responseGen + 1] = "idle"
    BY <2>1 DEF OwnerInv, TypeOK, PathTypeOK
  <2> QED
    BY <2>1, <2>2 DEF OwnerInv, TypeOK, PathTypeOK, LiveIsCancellable, Live
<1>2. CASE cancelResponse
  BY <1>2 DEF cancelResponse, cancelInstalled, OwnerInv, TypeOK, PathTypeOK, LiveIsCancellable, Live
<1>3. CASE drainOutbound
  BY <1>3 DEF drainOutbound, OwnerInv, TypeOK, PathTypeOK, LiveIsCancellable, Live, ownerVars
<1>4. CASE supersedeUnspeak
  BY <1>4 DEF supersedeUnspeak, OwnerInv, TypeOK, PathTypeOK, LiveIsCancellable, Live, ownerVars
<1>5. CASE startRespond
  BY <1>5 DEF startRespond, OwnerInv, TypeOK, PathTypeOK, LiveIsCancellable, Live, ownerVars
<1>6. CASE agentExit
  BY <1>6 DEF agentExit, OwnerInv, TypeOK, PathTypeOK, LiveIsCancellable, Live, ownerVars
<1>7. ASSUME NEW r \in Responses, respondStep(r) PROVE OwnerInv'
  <2> USE DEF OwnerInv, TypeOK, PathTypeOK, LiveIsCancellable, Live
  <2>1. CASE registerResponse(r)
    BY <2>1 DEF registerResponse, registerUngated, cancelInstalled, GenOf, agentVars
  <2>2. CASE registerRefused(r)
    BY <2>2 DEF registerRefused, ownerVars, agentVars
  <2>3. CASE respondReturns(r)
    BY <2>3 DEF respondReturns, ownerVars, agentVars
  <2>4. CASE finishRelease(r)
    BY <2>4 DEF finishRelease, ownsCancel, GenOf, agentVars
  <2>5. CASE finishUnspeak(r)
    BY <2>5 DEF finishUnspeak, ownerVars, agentVars
  <2>6. CASE waitOutboundEmpty(r)
    BY <2>6 DEF waitOutboundEmpty, ownerVars, agentVars
  <2>7. CASE drainDeadline(r)
    BY <2>7 DEF drainDeadline, ownerVars, agentVars
  <2>8. CASE finishRecheck(r)
    BY <2>8 DEF finishRecheck, ownerVars, agentVars
  <2>9. CASE sendListening(r)
    BY <2>9 DEF sendListening, ownerVars, agentVars
  <2>10. CASE greetLoad
    BY <2>10 DEF greetLoad, ownerVars, agentVars
  <2> QED
    BY <1>7, <2>1, <2>2, <2>3, <2>4, <2>5, <2>6, <2>7, <2>8, <2>9, <2>10 DEF respondStep
<1>8. ASSUME NEW r \in Responses, chatStep(r) \/ synthStep(r) \/ toolStep(r) PROVE OwnerInv'
  <2>1. UNCHANGED ownerState
    BY <1>8 DEF chatStep, chatProduces, chatSends, chatDrops, chatReturns, synthStep,
                takeSentence, sentenceEnds, streamFails,
                nextFrame, emitFrame, emitAborted, synthEnds, raiseSpeaking,
                announceSpeaking, toolStep, startTool, toolReturns, playThinkingSound,
                thinkingSoundEnds, playSentSound, noSentSound, ownerState, ownerVars, agentVars
  <2> QED BY <2>1, OwnerFrame
<1>9. CASE sendFrame \/ senderExit \/ bargeInCandidate \/ bargeInFires \/ bargeInSuppressed
  <2>1. UNCHANGED ownerState
    BY <1>9 DEF sendFrame, senderExit, bargeInCandidate, bargeInFires, bargeInSuppressed,
                ownerState, ownerVars, agentVars
  <2> QED BY <2>1, OwnerFrame
<1>10. CASE Stop
  BY <1>10 DEF Stop, OwnerInv, TypeOK, PathTypeOK, LiveIsCancellable, Live, ownerVars, agentVars
<1>11. CASE UNCHANGED vars
  <2>1. UNCHANGED ownerState
    BY <1>11 DEF vars, pathVars, ownerState, ownerVars, agentVars
  <2> QED BY <2>1, OwnerFrame
<1> QED
  BY <1>1, <1>2, <1>3, <1>4, <1>5, <1>6, <1>7, <1>8, <1>9, <1>10, <1>11
     DEF Next, supersedeStep

\* The inductive invariant of response ownership.
THEOREM OwnerCorrect ==
    ASSUME LateGreeting = FALSE
    PROVE  Safety => []OwnerInv
<1>1. TypeOK /\ OwnerInv /\ [Next]_vars => OwnerInv'
  BY OwnerInductive
<1> QED BY OwnerInitial, <1>1, TypeCorrect, PTL DEF Safety

\* Every response that can still produce audio can be cut off by the next
\* barge-in or turn, provided the greeting starts before the first turn.
THEOREM LiveCancellable ==
    ASSUME LateGreeting = FALSE
    PROVE  Safety => []LiveIsCancellable
<1>1. OwnerInv => LiveIsCancellable
  BY DEF OwnerInv
<1> QED BY <1>1, OwnerCorrect, PTL

--------------------------------------------------------------------------

\* The floor starts out free.
LEMMA FloorInitial == Init => Floor!Init
  BY DEF Init, Floor!Init, Holders, Granted, Live

\* One step of the pipeline is a step of the floor, or leaves it alone.
LEMMA FloorStep ==
    TypeOK /\ OwnerInv /\ [Next]_vars => [Floor!Next]_<<Holders, Granted>>
<1> SUFFICES ASSUME TypeOK, OwnerInv, [Next]_vars
             PROVE  [Floor!Next]_<<Holders, Granted>>
  OBVIOUS
<1> USE ConstantsAssumption DEF Responses, Greet, None
<1>1. ASSUME UNCHANGED <<pc, cancelled>>
      PROVE  UNCHANGED <<Holders, Granted>>
  BY <1>1 DEF Holders, Granted, Live
<1>2. \A r \in Holders : Holders = {r}
  BY DEF OwnerInv, LiveIsCancellable, Holders
<1>3. ASSUME Granted' = Granted, Holders' \subseteq Holders
      PROVE  [Floor!Next]_<<Holders, Granted>>
  BY <1>2, <1>3 DEF Floor!Next, Floor!Leave
<1>4. CASE takeTurn \/ takeInterrupt \/ drainOutbound \/ supersedeUnspeak \/ agentExit
  BY <1>1, <1>4 DEF takeTurn, takeInterrupt, openGeneration, drainOutbound,
                    supersedeUnspeak, agentExit
<1>5. CASE cancelResponse
  BY <1>3, <1>5 DEF cancelResponse, cancelInstalled, Holders, Granted, Live, TypeOK, PathTypeOK
<1>6. CASE startRespond
  <2>1. pc[responseGen] = "idle" /\ responseGen \in Responses
    BY <1>6 DEF startRespond, OwnerInv, TypeOK, PathTypeOK
  <2> QED
    BY <1>3, <1>6, <2>1 DEF startRespond, Holders, Granted, Live, TypeOK, PathTypeOK
<1>7. ASSUME NEW r \in Responses, respondStep(r)
      PROVE  [Floor!Next]_<<Holders, Granted>>
  <2>1. CASE registerResponse(r)
    <3>1. pc[r] = "spawned" /\ pc' = [pc EXCEPT ![r] = "running"] /\ responseGen = r
      BY <2>1 DEF registerResponse, registerUngated, GenOf, OwnerInv
    <3>2. Holders = {}
      BY <3>1 DEF Holders, Live, LiveIsCancellable, OwnerInv, TypeOK, PathTypeOK
    <3>3. r \notin Granted /\ Granted' = Granted \cup {r}
      BY <3>1 DEF Granted, TypeOK, PathTypeOK
    <3>4. responseCancel # r
      BY <3>1 DEF OwnerInv
    <3>5. Holders' = IF r \in cancelled THEN {} ELSE {r}
      <4>1. \A s \in Responses : s # r => ~Live(s)'
        BY <2>1, <3>1, <3>2 DEF registerResponse, registerUngated, cancelInstalled,
                                Holders, Live, TypeOK, PathTypeOK
      <4>2. Live(r)' <=> r \notin cancelled
        BY <2>1, <3>1, <3>4 DEF registerResponse, registerUngated, cancelInstalled, Live, TypeOK, PathTypeOK
      <4> QED BY <4>1, <4>2 DEF Holders
    <3> QED
      BY <3>2, <3>3, <3>5 DEF Floor!Next, Floor!Take, Floor!Forfeit
  <2>2. CASE registerRefused(r) \/ greetLoad
    BY <1>3, <2>2 DEF registerRefused, greetLoad, Holders, Granted, Live, TypeOK, PathTypeOK
  <2>3. CASE respondReturns(r)
    BY <1>3, <2>3 DEF respondReturns, Holders, Granted, Live, TypeOK, PathTypeOK
  <2>4. CASE \/ finishRelease(r) \/ finishUnspeak(r) \/ waitOutboundEmpty(r)
             \/ drainDeadline(r) \/ finishRecheck(r) \/ sendListening(r)
    BY <1>3, <2>4 DEF finishRelease, finishUnspeak, waitOutboundEmpty, drainDeadline,
                      finishRecheck, sendListening, Holders, Granted, Live, TypeOK, PathTypeOK
  <2> QED BY <1>7, <2>1, <2>2, <2>3, <2>4 DEF respondStep
<1>8. ASSUME NEW r \in Responses, chatStep(r) \/ synthStep(r) \/ toolStep(r)
      PROVE  [Floor!Next]_<<Holders, Granted>>
  BY <1>1, <1>8 DEF chatStep, chatProduces, chatSends, chatDrops, chatReturns, synthStep,
      takeSentence, sentenceEnds, streamFails,
      nextFrame, emitFrame, emitAborted, synthEnds, raiseSpeaking,
      announceSpeaking, toolStep, startTool, toolReturns, playThinkingSound,
      thinkingSoundEnds, playSentSound, noSentSound
<1>9. CASE sendFrame \/ senderExit \/ bargeInCandidate \/ bargeInFires \/ bargeInSuppressed
  BY <1>1, <1>9 DEF sendFrame, senderExit, bargeInCandidate, bargeInFires, bargeInSuppressed
<1>10. CASE Stop
  BY <1>3, <1>10 DEF Stop, Holders, Granted, Live, TypeOK, PathTypeOK
<1>11. CASE UNCHANGED vars
  BY <1>1, <1>11 DEF vars, pathVars
<1> QED
  BY <1>4, <1>5, <1>6, <1>7, <1>8, <1>9, <1>10, <1>11 DEF Next, supersedeStep

\* Response ownership implements the audio floor: one holder at a time, the
\* path free in between, nobody holding it twice.
THEOREM FloorRefined ==
    ASSUME LateGreeting = FALSE
    PROVE  Safety => FloorSafety
<1>1. TypeOK /\ OwnerInv /\ [Next]_vars => [Floor!Next]_<<Holders, Granted>>
  BY FloorStep
<1> QED
  BY <1>1, FloorInitial, TypeCorrect, OwnerCorrect, PTL
     DEF Safety, FloorSafety, Floor!Spec
--------------------------------------------------------------------------

SpeechGone(r) == \A i \in DOMAIN outPCMCh : outPCMCh[i] # [of |-> r, kind |-> "speech"]

\* Generations only grow, and a generation being answered is nobody's yet.
GenInv ==
    /\ greetGen <= responseGen
    /\ \A r \in Responses : r # Greet /\ pc[r] # "idle" => r <= responseGen
    /\ agent \notin {"select", "exit"} => responseGen > 0 /\ pc[responseGen] = "idle"

\* A response that is not running has no synthesizer left.
SynthInv == \A r \in Responses : pc[r] # "running" => synth[r] = "idle"

\* Past its drain wait a response has no speech in the queue, or it gave up,
\* or its generation is over and the recheck will say so.
DrainedInv ==
    \A r \in Responses :
        pc[r] \in {"recheck", "listening"} /\ r \notin gaveUp =>
            SpeechGone(r) \/ (pc[r] = "recheck" /\ responseGen # GenOf(r))

\* What makes ListeningAfterSpeech inductive.
ListenInv == GenInv /\ SynthInv /\ DrainedInv

\* Taking a frame off the queue, or adding another's, brings no speech back.
LEMMA SpeechStaysGone ==
    ASSUME TypeOK, NEW r \in Responses, SpeechGone(r),
           \/ outPCMCh' = outPCMCh
           \/ outPCMCh # <<>> /\ outPCMCh' = Tail(outPCMCh)
           \/ \E f \in Frame : f # [of |-> r, kind |-> "speech"] /\ outPCMCh' = Append(outPCMCh, f)
    PROVE  SpeechGone(r)'
<1>1. outPCMCh \in Seq(Frame)
  BY DEF TypeOK, PathTypeOK
<1>2. CASE outPCMCh' = outPCMCh
  BY <1>2 DEF SpeechGone
<1>3. CASE outPCMCh # <<>> /\ outPCMCh' = Tail(outPCMCh)
  <2>1. \A i \in DOMAIN Tail(outPCMCh) : i + 1 \in DOMAIN outPCMCh /\ Tail(outPCMCh)[i] = outPCMCh[i + 1]
    BY <1>1, <1>3
  <2> QED BY <1>3, <2>1 DEF SpeechGone
<1>4. ASSUME NEW f \in Frame, f # [of |-> r, kind |-> "speech"], outPCMCh' = Append(outPCMCh, f)
      PROVE  SpeechGone(r)'
  <2>1. \A i \in DOMAIN Append(outPCMCh, f) :
           \/ i \in DOMAIN outPCMCh /\ Append(outPCMCh, f)[i] = outPCMCh[i]
           \/ Append(outPCMCh, f)[i] = f
    BY <1>1
  <2> QED BY <1>4, <2>1 DEF SpeechGone
<1> QED BY <1>2, <1>3, <1>4

\* A step that lets the responses be, and queues no speech of one that has
\* finished.
LEMMA ListenFrame ==
    ASSUME TypeOK, ListenInv,
           UNCHANGED <<responseGen, greetGen, agent, pc, gaveUp>>,
           \A r \in Responses : pc[r] # "running" => synth'[r] = synth[r],
           \/ outPCMCh' = outPCMCh
           \/ outPCMCh # <<>> /\ outPCMCh' = Tail(outPCMCh)
           \/ \E f \in Frame : outPCMCh' = Append(outPCMCh, f)
                               /\ (f.kind = "speech" => pc[f.of] = "running")
    PROVE  ListenInv'
<1>1. ASSUME NEW r \in Responses, pc[r] # "running", SpeechGone(r) PROVE SpeechGone(r)'
  <2>1. \A f \in Frame : (f.kind = "speech" => pc[f.of] = "running") =>
           f # [of |-> r, kind |-> "speech"]
    BY <1>1
  <2> QED BY <1>1, <2>1, SpeechStaysGone
<1>2. GenInv' /\ SynthInv'
  BY DEF ListenInv, GenInv, SynthInv
<1>3. DrainedInv'
  BY <1>1 DEF ListenInv, DrainedInv, GenOf
<1> QED BY <1>2, <1>3 DEF ListenInv

\* Each step preserves ListenInv.
LEMMA ListenInductive == TypeOK /\ ListenInv /\ [Next]_vars => ListenInv'
<1> SUFFICES ASSUME TypeOK, ListenInv, [Next]_vars PROVE ListenInv'
  OBVIOUS
<1> USE ConstantsAssumption DEF Responses, Greet
<1>1. CASE takeTurn \/ takeInterrupt
  <2>1. /\ responseGen' = responseGen + 1 /\ agent' = "cancel"
        /\ UNCHANGED <<outPCMCh, pc, synth, gaveUp, greetGen>>
        /\ responseGen < MaxGen /\ responseGen \in Nat /\ greetGen \in Nat
    BY <1>1 DEF takeTurn, takeInterrupt, openGeneration, workVars, TypeOK, PathTypeOK
  <2>2. GenInv'
    BY <2>1 DEF ListenInv, GenInv
  <2>3. SynthInv'
    BY <2>1 DEF ListenInv, SynthInv
  <2>4. \A r \in Responses : pc[r] = "recheck" => responseGen' # GenOf(r)
    BY <2>1 DEF ListenInv, GenInv, GenOf
  <2>5. DrainedInv'
    BY <2>1, <2>4 DEF ListenInv, DrainedInv, SpeechGone, GenOf
  <2> QED BY <2>2, <2>3, <2>5 DEF ListenInv
<1>2. ASSUME agent' \in {"drain", "unspeak", "answer", "select", "exit"},
             agent \in {"select", "exit"} => agent' = "exit",
             UNCHANGED <<responseGen, greetGen, pc, gaveUp, synth>>,
             outPCMCh' = outPCMCh \/ (outPCMCh # <<>> /\ outPCMCh' = Tail(outPCMCh))
      PROVE  ListenInv'
  <2>1. GenInv' /\ SynthInv'
    BY <1>2 DEF ListenInv, GenInv, SynthInv
  <2>2. \A r \in Responses : SpeechGone(r) => SpeechGone(r)'
    BY <1>2, SpeechStaysGone
  <2>3. DrainedInv'
    BY <1>2, <2>2 DEF ListenInv, DrainedInv, GenOf
  <2> QED BY <2>1, <2>3 DEF ListenInv
<1>3. CASE cancelResponse \/ drainOutbound \/ supersedeUnspeak \/ agentExit
  BY <1>2, <1>3 DEF cancelResponse, drainOutbound, supersedeUnspeak, agentExit, ownerVars, workVars
<1>4. CASE startRespond
  <2>1. /\ agent = "answer" /\ agent' = "select" /\ responseGen \in Responses
        /\ responseGen > 0 /\ pc[responseGen] = "idle"
        /\ pc' = [pc EXCEPT ![responseGen] = "spawned"]
        /\ UNCHANGED <<responseGen, outPCMCh, synth, gaveUp, greetGen>>
    BY <1>4 DEF startRespond, ownerVars, workVars, TypeOK, PathTypeOK, ListenInv, GenInv
  <2> QED BY <2>1 DEF ListenInv, GenInv, SynthInv, DrainedInv, SpeechGone, GenOf, TypeOK, PathTypeOK
<1>5. ASSUME NEW r \in Responses, NEW at, pc' = [pc EXCEPT ![r] = at],
             pc[r] # "idle", pc[r] = "load" => r = Greet,
             synth' = [synth EXCEPT ![r] = synth'[r]], at # "running" => synth'[r] = "idle",
             at \in {"recheck", "listening"} /\ r \notin gaveUp' =>
                SpeechGone(r) \/ (at = "recheck" /\ responseGen # GenOf(r)),
             \A q \in Responses : q # r => (q \in gaveUp' <=> q \in gaveUp),
             UNCHANGED <<responseGen, greetGen, agent, outPCMCh>>
      PROVE  ListenInv'
  <2>1. /\ pc'[r] = at /\ \A q \in Responses : q # r => pc'[q] = pc[q]
        /\ \A q \in Responses : q # r => synth'[q] = synth[q]
    BY <1>5 DEF TypeOK, PathTypeOK, WorkTypeOK
  <2>2. GenInv'
    BY <1>5, <2>1 DEF ListenInv, GenInv, TypeOK, PathTypeOK
  <2>3. SynthInv'
    BY <1>5, <2>1 DEF ListenInv, SynthInv
  <2>4. DrainedInv'
    BY <1>5, <2>1 DEF ListenInv, DrainedInv, SpeechGone, GenOf
  <2> QED BY <2>2, <2>3, <2>4 DEF ListenInv
<1>6. ASSUME NEW r \in Responses, respondStep(r) PROVE ListenInv'
  <2> USE DEF ownerVars, agentVars, workVars
  <2>1. CASE registerResponse(r)
    <3>1. /\ pc[r] = "spawned" /\ pc' = [pc EXCEPT ![r] = "running"]
          /\ synth' = [synth EXCEPT ![r] = synth'[r]]
          /\ UNCHANGED <<responseGen, greetGen, agent, outPCMCh, gaveUp>>
      BY <2>1 DEF registerResponse, registerUngated, TypeOK, WorkTypeOK
    <3> QED BY <1>5, <3>1
  <2>2. ASSUME UNCHANGED synth, pc[r] # "running"
        PROVE  synth' = [synth EXCEPT ![r] = synth'[r]] /\ synth'[r] = "idle"
    BY <2>2 DEF TypeOK, WorkTypeOK, ListenInv, SynthInv
  <2>3. CASE registerRefused(r)
    BY <1>5, <2>2, <2>3 DEF registerRefused
  <2>4. CASE respondReturns(r)
    <3>1. /\ pc[r] = "running" /\ pc' = [pc EXCEPT ![r] = "finish"]
          /\ synth' = [synth EXCEPT ![r] = synth'[r]] /\ synth'[r] = "idle"
          /\ UNCHANGED <<responseGen, greetGen, agent, outPCMCh, gaveUp>>
      BY <2>4 DEF respondReturns, TypeOK, WorkTypeOK
    <3> QED BY <1>5, <3>1
  <2>5. CASE finishRelease(r)
    BY <1>5, <2>2, <2>5 DEF finishRelease
  <2>6. CASE finishUnspeak(r)
    BY <1>5, <2>2, <2>6 DEF finishUnspeak
  <2>7. CASE waitOutboundEmpty(r)
    <3>1. SpeechGone(r) \/ responseGen # GenOf(r)
      BY <2>7 DEF waitOutboundEmpty, drained, SpeechGone
    <3> QED BY <1>5, <2>2, <2>7, <3>1 DEF waitOutboundEmpty
  <2>8. CASE drainDeadline(r)
    BY <1>5, <2>2, <2>8 DEF drainDeadline
  <2>9. CASE finishRecheck(r)
    <3>1. responseGen # GenOf(r) \/ r \in gaveUp \/ SpeechGone(r)
      BY <2>9 DEF finishRecheck, ListenInv, DrainedInv
    <3> QED BY <1>5, <2>2, <2>9, <3>1 DEF finishRecheck
  <2>10. CASE sendListening(r)
    BY <1>5, <2>2, <2>10 DEF sendListening
  <2>11. CASE greetLoad
    <3>1. /\ pc[Greet] = "load" /\ pc' = [pc EXCEPT ![Greet] = "spawned"]
          /\ greetGen' = responseGen /\ responseGen \in Nat
          /\ UNCHANGED <<responseGen, agent, outPCMCh, gaveUp, synth>>
      BY <2>11 DEF greetLoad, TypeOK, PathTypeOK
    <3>2. pc'[Greet] = "spawned" /\ \A q \in Responses : q # Greet => pc'[q] = pc[q]
      BY <3>1 DEF TypeOK, PathTypeOK
    <3> QED BY <3>1, <3>2 DEF ListenInv, GenInv, SynthInv, DrainedInv, SpeechGone, GenOf
  <2> QED
    BY <1>6, <2>1, <2>3, <2>4, <2>5, <2>6, <2>7, <2>8, <2>9, <2>10, <2>11 DEF respondStep
<1>7. ASSUME NEW r \in Responses, chatStep(r) PROVE ListenInv'
  BY <1>7, ListenFrame DEF chatStep, chatProduces, chatSends, chatDrops, chatReturns,
     ownerVars, agentVars
<1>8. ASSUME NEW r \in Responses, synthStep(r) PROVE ListenInv'
  <2>1. synth[r] # "idle" /\ \A q \in Responses : q # r => synth'[q] = synth[q]
    BY <1>8 DEF synthStep, takeSentence, sentenceEnds, streamFails, synthEnds, nextFrame,
         emitFrame, emitAborted, synthAborts, raiseSpeaking, announceSpeaking, TypeOK, WorkTypeOK
  <2>2. pc[r] = "running"
    BY <2>1 DEF ListenInv, SynthInv
  <2>3. UNCHANGED <<responseGen, greetGen, agent, pc, gaveUp>>
    BY <1>8 DEF synthStep, takeSentence, sentenceEnds, streamFails, synthEnds, nextFrame,
         emitFrame, emitAborted, raiseSpeaking, announceSpeaking, ownerVars, agentVars
  <2>4. \/ outPCMCh' = outPCMCh
        \/ \E f \in Frame : outPCMCh' = Append(outPCMCh, f)
                            /\ (f.kind = "speech" => pc[f.of] = "running")
    <3>1. CASE emitFrame(r)
      <4>1. [of |-> r, kind |-> "speech"] \in Frame
        BY DEF Frame
      <4> QED BY <2>2, <3>1, <4>1 DEF emitFrame
    <3> QED BY <1>8, <3>1 DEF synthStep, takeSentence, sentenceEnds, streamFails, synthEnds,
         nextFrame, emitAborted, raiseSpeaking, announceSpeaking
  <2> QED BY <2>1, <2>2, <2>3, <2>4, ListenFrame
<1>9. ASSUME NEW r \in Responses, toolStep(r) PROVE ListenInv'
  <2>1. UNCHANGED <<responseGen, greetGen, agent, pc, gaveUp, synth>>
    BY <1>9 DEF toolStep, startTool, toolReturns, playThinkingSound, thinkingSoundEnds,
         playSentSound, noSentSound, ownerVars, agentVars, workVars
  <2>2. \/ outPCMCh' = outPCMCh
        \/ outPCMCh' = Append(outPCMCh, [of |-> r, kind |-> "sound"])
    BY <1>9 DEF toolStep, startTool, toolReturns, playThinkingSound, thinkingSoundEnds,
         playSentSound, noSentSound
  <2>3. [of |-> r, kind |-> "sound"] \in Frame
    BY DEF Frame
  <2> QED BY <2>1, <2>2, <2>3, ListenFrame
<1>10. CASE \/ sendFrame \/ senderExit \/ bargeInCandidate \/ bargeInFires
            \/ bargeInSuppressed \/ Stop
  BY <1>10, ListenFrame DEF sendFrame, senderExit, bargeInCandidate, bargeInFires,
     bargeInSuppressed, Stop, ownerVars, agentVars, workVars
<1>11. CASE UNCHANGED vars
  BY <1>11, ListenFrame DEF vars, pathVars, ownerVars, agentVars, workVars
<1> QED
  BY <1>1, <1>3, <1>4, <1>6, <1>7, <1>8, <1>9, <1>10, <1>11 DEF Next, supersedeStep

\* "listening" comes after the agent's own words have left the queue, for every
\* greeting, late or not, and every queue: a finished response queues nothing
\* more, and one that was superseded while it waited is found out by the
\* second look at the generation, which never comes back.
THEOREM ListeningCorrect == Safety => []ListeningAfterSpeech
<1>1. Init => ListenInv
  BY ConstantsAssumption DEF Init, ListenInv, GenInv, SynthInv, DrainedInv, Responses, Greet
<1>2. ListenInv => ListeningAfterSpeech
  BY DEF ListenInv, DrainedInv, SpeechGone, ListeningAfterSpeech
<1> QED BY <1>1, <1>2, ListenInductive, TypeCorrect, PTL DEF Safety
==========================================================================
