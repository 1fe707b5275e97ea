-------------------------- MODULE TurnTakingProofs --------------------------
(***************************************************************************)
(* Theorems about how the caller takes the floor, for any utterances, any  *)
(* windows and any length of a call: the buffer never holds a turn beyond  *)
(* turnMergeMax, stale words open no barge-in, and the words the agent has *)
(* yet to see are those queued, pending or not yet merged: none is lost,   *)
(* repeated or moved.                                                      *)
(***************************************************************************)
EXTENDS TurnTaking, SequenceFacts

\* What Min and Max make of a pair
LEMMA PairFacts ==
    ASSUME NEW a \in Int, NEW b \in Int
    PROVE  /\ Min({a, b}) = IF a <= b THEN a ELSE b
           /\ Max({a, b}) = IF a >= b THEN a ELSE b
BY DEF Min, Max

\* Every bound of the module is positive
LEMMA Positive ==
    /\ \A x \in {MaxFinals, ChanSize, Onset, Offset, Window, Grace, EchoWindow, Base,
                 Incomplete} : x \in Nat /\ x > 0
    /\ MergeMax \in Nat /\ MergeMax > Incomplete /\ MergeMax > Base
<1>1. {MaxFinals, ChanSize, Onset, Offset, Window, Grace, EchoWindow, Base,
       Incomplete} \subseteq Nat \ {0}
    BY TurnAssumption
<1>2. \A x \in Nat \ {0} : x > 0
    OBVIOUS
<1> QED
    BY <1>1, <1>2, TurnAssumption

---------------------------------------------------------------------------
(* The turn buffer *)

HoldType == turnAge \in 0 .. MergeMax /\ timer \in Off .. MergeMax
HoldInv == HoldType /\ HoldIsBounded

\* The wait a turn is given ends within turnMergeMax of its first final
LEMMA WaitIsClipped ==
    ASSUME NEW t, NEW age \in 0 .. MergeMax
    PROVE  \/ clippedWait(t, age) = Off
           \/ clippedWait(t, age) \in 1 .. MergeMax /\ age + clippedWait(t, age) <= MergeMax
<1>1. mergeWait(t) \in Nat /\ mergeWait(t) > 0
    BY Positive DEF mergeWait
<1> QED
    BY <1>1, Positive DEF clippedWait, Off

\* The steps that touch the timer are those of the buffer and of time
LEMMA HoldInductive == HoldInv /\ [Next]_vars => HoldInv'
<1> SUFFICES ASSUME HoldInv, [Next]_vars PROVE HoldInv'
    OBVIOUS
<1> USE DEF HoldInv, HoldType, HoldIsBounded
<1>1. CASE UNCHANGED <<pending, turnAge, timer>>
    BY <1>1
<1>2. CASE /\ pending' = Nobody /\ timer' = Off /\ turnAge' = 0
    BY <1>2, Positive DEF Off
<1>3. CASE bufferFinal
  <2> DEFINE merged == mergeInto(pending, Head(finalCh))
             age == IF pending = Nobody THEN 0 ELSE turnAge
             wait == clippedWait(merged.text, age)
  <2>1. age \in 0 .. MergeMax
      BY Positive
  <2>2. wait = Off \/ (wait \in 1 .. MergeMax /\ age + wait <= MergeMax)
      BY <2>1, WaitIsClipped
  <2>3. \/ UNCHANGED <<pending, turnAge, timer>>
        \/ pending' = Nobody /\ timer' = Off /\ turnAge' = 0
        \/ wait # Off /\ turnAge' = age /\ timer' = wait
      BY <1>3 DEF bufferFinal, flush
  <2> HIDE DEF wait, age, merged
  <2>4. CASE wait # Off /\ turnAge' = age /\ timer' = wait
      BY <2>1, <2>2, <2>4 DEF Off
  <2> QED
      BY <1>1, <1>2, <2>3, <2>4
<1>4. CASE bufferTimer
    BY <1>2, <1>4 DEF bufferTimer, flush
<1>5. CASE Tick
  <2>1. /\ turnAge' = IF pending = Nobody THEN 0 ELSE Min({turnAge + 1, MergeMax})
        /\ timer' = IF timer > 0 THEN timer - 1 ELSE timer
        /\ pending' = pending
      BY <1>5 DEF Tick, Down
  <2>2. Min({turnAge + 1, MergeMax}) =
            IF turnAge + 1 <= MergeMax THEN turnAge + 1 ELSE MergeMax
      BY PairFacts, Positive
  <2> QED
      BY <2>1, <2>2, Positive DEF Off
<1>6. CASE inboundFrame \/ inboundFails \/ sttFinal \/ sttPartial \/ sttSends \/ agentStep
           \/ prepareResponse \/ agentSpeaks \/ finishResponse
    BY <1>1, <1>6 DEF inboundFrame, inboundFails, sttFinal, sttPartial, sttSends, agentStep,
        forwardPartial, ignoreTurn, takeTurn, takeInterrupt, prepareResponse, agentSpeaks,
        finishResponse, bufVars, queueVars
<1>7. CASE UNCHANGED vars
    BY <1>1, <1>7 DEF vars, bufVars, queueVars
<1> QED
    BY <1>3, <1>4, <1>5, <1>6, <1>7 DEF Next, bufferStep

\* However the caller keeps going, runTurnBuffer's timer is armed for every
\* pending turn and never runs past turnMergeMax from its first final.
THEOREM HoldCorrect == Spec => []HoldIsBounded
<1>1. Init => HoldInv
    BY Positive DEF Init, HoldInv, HoldType, HoldIsBounded, Off
<1>2. HoldInv => HoldIsBounded
    BY DEF HoldInv
<1> QED
    BY <1>1, <1>2, HoldInductive, PTL DEF Spec, Safety

---------------------------------------------------------------------------
(* The detector *)

VoiceType == vad.speech \in 0 .. Onset /\ vad.silent \in 0 .. Offset

\* What Process makes of a frame
LEMMA ProcessFacts ==
    ASSUME VoiceType, NEW energy \in Energies
    PROVE  Process(energy).speech \in 0 .. Onset /\ Process(energy).silent \in 0 .. Offset
<1> DEFINE above == energy > Max({NoiseThreshold, EchoThreshold})
           speech == IF above THEN Min({vad.speech + 1, Onset}) ELSE 0
           silent == IF above THEN 0 ELSE Min({vad.silent + 1, Offset})
<1>1. Process(energy) = [speech |-> speech, silent |-> silent,
                         on |-> IF vad.on THEN silent < Offset ELSE speech >= Onset]
    BY DEF Process
<1>2. Onset \in Nat /\ Onset > 0 /\ Offset \in Nat /\ Offset > 0
    BY Positive
<1>3. speech \in 0 .. Onset /\ silent \in 0 .. Offset
    BY <1>2, PairFacts DEF VoiceType
<1> HIDE DEF above, speech, silent
<1> QED
    BY <1>1, <1>3

---------------------------------------------------------------------------
(* The words of a candidate *)

\* A barge-in candidate's words are of the utterance that is still going on
WordsAreFresh == hasPartialText => freshWords

\* No step breaks it
LEMMA FreshInductive == WordsAreFresh /\ [Next]_vars => WordsAreFresh'
<1> SUFFICES ASSUME WordsAreFresh, [Next]_vars PROVE WordsAreFresh'
    OBVIOUS
<1> USE DEF WordsAreFresh
<1>1. CASE inboundFrame
  <2>1. PICK v : \/ confirmBargeIn \/ suppressBargeIn(v) \/ shortBargeIn(v)
                 \/ bargeInCandidate(v) \/ nothingToDecide(v)
      BY <1>1 DEF inboundFrame
  <2> QED
      BY <2>1 DEF confirmBargeIn, suppressBargeIn, shortBargeIn, bargeInCandidate,
          nothingToDecide, partVars
<1>2. CASE sttFinal
    BY <1>2 DEF sttFinal, withdrawPartial
<1>3. CASE sttPartial
  <2>1. PICK t : /\ hasPartialText' = (hasPartialText \/ t # NoText)
                 /\ freshWords' = (freshWords \/ t # NoText)
      BY <1>3 DEF sttPartial
  <2> QED
      BY <2>1
<1>4. CASE UNCHANGED partVars
    BY <1>4 DEF partVars
<1>5. CASE inboundFails \/ sttSends \/ bufferStep \/ agentStep \/ prepareResponse
           \/ agentSpeaks \/ finishResponse \/ Tick \/ UNCHANGED vars
    BY <1>4, <1>5 DEF inboundFails, sttSends, bufferStep, bufferFinal, bufferTimer, agentStep,
        forwardPartial, ignoreTurn, takeTurn, takeInterrupt, prepareResponse, agentSpeaks,
        finishResponse, Tick, vars
<1> QED
    BY <1>1, <1>2, <1>3, <1>5 DEF Next

\* With a provider that emits partials, a barge-in candidate is only opened by
\* words recognised since the last final.
THEOREM CandidatesAreFresh == Spec => FreshCandidate
<1>1. WordsAreFresh /\ [Next]_vars =>
          [bargeInPending' /\ ~bargeInPending /\ EmitsPartials => freshWords]_vars
  <2> SUFFICES ASSUME WordsAreFresh, [Next]_vars, bargeInPending', ~bargeInPending, EmitsPartials
               PROVE  freshWords
      OBVIOUS
  <2>1. CASE inboundFrame
    <3>1. PICK v : \/ confirmBargeIn \/ suppressBargeIn(v) \/ shortBargeIn(v)
                   \/ bargeInCandidate(v) \/ nothingToDecide(v)
        BY <2>1 DEF inboundFrame
    <3> QED
        BY <3>1 DEF confirmBargeIn, suppressBargeIn, shortBargeIn, bargeInCandidate, openBargeIn,
            nothingToDecide, bargeVars, WordsAreFresh
  <2>2. CASE UNCHANGED bargeInPending
      BY <2>2
  <2>3. CASE inboundFails \/ sttFinal \/ sttPartial \/ sttSends \/ bufferStep \/ agentStep \/ prepareResponse
             \/ agentSpeaks \/ finishResponse \/ Tick \/ UNCHANGED vars
      BY <2>2, <2>3 DEF inboundFails, sttFinal, sttPartial, sttSends, bufferStep, bufferFinal, bufferTimer,
          agentStep, forwardPartial, ignoreTurn, takeTurn, takeInterrupt, prepareResponse, agentSpeaks,
          finishResponse, Tick, vars, bargeVars
  <2> QED
      BY <2>1, <2>3 DEF Next
<1>2. Init => WordsAreFresh
    BY DEF Init, WordsAreFresh
<1> QED
    BY <1>1, <1>2, FreshInductive, PTL DEF Spec, Safety, FreshCandidate

---------------------------------------------------------------------------
(* The words of the turn buffer *)

\* The texts of a queue of turns: nothing in an empty one, one more at the end
\* when a turn is sent, one less in front when it is received
LEMMA QueueFacts ==
    ASSUME NEW q \in Seq(Turns)
    PROVE  /\ queuedText(q) \in Seq(Words)
           /\ q = <<>> => queuedText(q) = <<>>
           /\ \A ev \in Turns : /\ Append(q, ev) \in Seq(Turns)
                                /\ Len(Append(q, ev)) = Len(q) + 1
                                /\ queuedText(Append(q, ev)) = queuedText(q) \o ev.text
           /\ q # <<>> => /\ Head(q) \in Turns /\ Tail(q) \in Seq(Turns)
                          /\ Len(Tail(q)) = Len(q) - 1 /\ Len(q) \in Nat
                          /\ queuedText(q) = Head(q).text \o queuedText(Tail(q))
<1> DEFINE T(s) == [i \in DOMAIN s |-> s[i].text]
<1>1. \A ev \in Turns : ev.text \in Seq(Words)
    BY DEF Turns
<1>2. ASSUME NEW s \in Seq(Turns)
      PROVE  /\ T(s) \in Seq(Seq(Words)) /\ Len(T(s)) = Len(s)
             /\ \A i \in 1 .. Len(s) : T(s)[i] = s[i].text
  <2>1. DOMAIN s = 1 .. Len(s) /\ Len(s) \in Nat /\ \A i \in 1 .. Len(s) : s[i] \in Turns
      OBVIOUS
  <2>2. \A i \in 1 .. Len(s) : s[i].text \in Seq(Words)
      BY <1>1, <2>1
  <2>3. T(s) = [i \in 1 .. Len(s) |-> s[i].text]
      BY <2>1
  <2> QED
      BY <2>1, <2>2, <2>3
<1>3. NoText \in Seq(Words) /\ T(q) \in Seq(Seq(Words))
  <2>1. T(q) \in Seq(Seq(Words))
      BY <1>2
  <2> QED
      BY <2>1 DEF NoText
<1>4. queuedText(q) \in Seq(Words) /\ (q = <<>> => queuedText(q) = <<>>)
  <2>1. q = <<>> => T(q) = <<>>
    <3>1. q = <<>> => Len(T(q)) = 0
        BY <1>2
    <3> QED
        BY <1>3, <3>1, EmptySeq
  <2> HIDE DEF T
  <2>2. FlattenSeq(T(q)) \in Seq(Words) /\ (T(q) = <<>> => FlattenSeq(T(q)) = <<>>)
      BY <1>3, FlattenAppend
  <2> QED
      BY <2>1, <2>2 DEF queuedText, T
<1>5. ASSUME NEW ev \in Turns
      PROVE  /\ Append(q, ev) \in Seq(Turns) /\ Len(Append(q, ev)) = Len(q) + 1
             /\ queuedText(Append(q, ev)) = queuedText(q) \o ev.text
  <2>1. /\ Append(q, ev) \in Seq(Turns) /\ Len(Append(q, ev)) = Len(q) + 1 /\ Len(q) \in Nat
        /\ Append(q, ev)[Len(q) + 1] = ev
        /\ \A i \in 1 .. Len(q) : Append(q, ev)[i] = q[i]
      OBVIOUS
  <2>2. ev.text \in Seq(Words)
      BY <1>1
  <2>3. T(Append(q, ev)) = Append(T(q), ev.text)
    <3> DEFINE a == T(Append(q, ev))
               c == Append(T(q), ev.text)
    <3>1. /\ a \in Seq(Seq(Words)) /\ Len(a) = Len(q) + 1
          /\ \A i \in 1 .. Len(q) + 1 : a[i] = Append(q, ev)[i].text
        BY <1>2, <2>1
    <3>2. /\ T(q) \in Seq(Seq(Words)) /\ Len(T(q)) = Len(q)
          /\ \A i \in 1 .. Len(q) : T(q)[i] = q[i].text
        BY <1>2
    <3> HIDE DEF T
    <3>3. /\ c \in Seq(Seq(Words)) /\ Len(c) = Len(q) + 1 /\ c[Len(q) + 1] = ev.text
          /\ \A i \in 1 .. Len(q) : c[i] = T(q)[i]
        BY <2>1, <2>2, <3>2
    <3> HIDE DEF a, c
    <3>4. ASSUME NEW i \in 1 .. Len(a) PROVE a[i] = c[i]
      <4>1. i = Len(q) + 1 \/ i \in 1 .. Len(q)
          BY <2>1, <3>1
      <4> QED
          BY <2>1, <3>1, <3>2, <3>3, <4>1
    <3>5. a = c
        BY <3>1, <3>3, <3>4, SeqEqual
    <3> QED
        BY <3>5 DEF a, c
  <2> HIDE DEF T
  <2>4. FlattenSeq(Append(T(q), ev.text)) = FlattenSeq(T(q)) \o ev.text
      BY <1>3, <2>2, FlattenAppend
  <2> QED
      BY <2>1, <2>3, <2>4 DEF queuedText, T
<1>6. ASSUME q # <<>>
      PROVE  /\ Head(q) \in Turns /\ Tail(q) \in Seq(Turns)
             /\ Len(Tail(q)) = Len(q) - 1 /\ Len(q) \in Nat
             /\ queuedText(q) = Head(q).text \o queuedText(Tail(q))
  <2>1. /\ Head(q) \in Turns /\ Tail(q) \in Seq(Turns) /\ Head(q) = q[1]
        /\ Len(Tail(q)) = Len(q) - 1 /\ Len(q) \in Nat /\ Len(q) >= 1
        /\ \A i \in 1 .. Len(q) - 1 : Tail(q)[i] = q[i + 1]
      BY <1>6
  <2>2. /\ T(q) # <<>> /\ Head(T(q)) = Head(q).text /\ Tail(T(q)) = T(Tail(q))
    <3>1. /\ T(q) \in Seq(Seq(Words)) /\ Len(T(q)) = Len(q)
          /\ \A i \in 1 .. Len(q) : T(q)[i] = q[i].text
        BY <1>2
    <3> DEFINE a == T(Tail(q))
               c == Tail(T(q))
    <3>2. /\ a \in Seq(Seq(Words)) /\ Len(a) = Len(q) - 1
          /\ \A i \in 1 .. Len(q) - 1 : a[i] = Tail(q)[i].text
        BY <1>2, <2>1
    <3> HIDE DEF T
    <3>3. /\ T(q) # <<>> /\ Head(T(q)) = T(q)[1]
          /\ c \in Seq(Seq(Words)) /\ Len(c) = Len(q) - 1
          /\ \A i \in 1 .. Len(q) - 1 : c[i] = T(q)[i + 1]
        BY <2>1, <3>1
    <3> HIDE DEF a, c
    <3>4. ASSUME NEW i \in 1 .. Len(a) PROVE a[i] = c[i]
      <4>1. i \in 1 .. Len(q) - 1 /\ i + 1 \in 1 .. Len(q)
          BY <2>1, <3>2
      <4> QED
          BY <2>1, <3>1, <3>2, <3>3, <4>1
    <3>5. a = c
        BY <3>2, <3>3, <3>4, SeqEqual
    <3>6. T(q)[1] = q[1].text
        BY <2>1, <3>1
    <3> QED
        BY <2>1, <3>3, <3>5, <3>6 DEF a, c
  <2> HIDE DEF T
  <2>3. FlattenSeq(T(q)) = Head(T(q)) \o FlattenSeq(Tail(T(q)))
      BY <1>3, <2>2, FlattenTail
  <2> QED
      BY <2>1, <2>2, <2>3 DEF queuedText, T
<1> QED
    BY <1>4, <1>5, <1>6

\* Both channels and the pending turn hold turns, and the words not yet seen by
\* runAgent are theirs, in order
WordsInv ==
    /\ finalCh \in Seq(Turns) /\ Len(finalCh) <= ChanSize
    /\ transcriptCh \in Seq(Turns) /\ Len(transcriptCh) <= ChanSize
    /\ pending \in Turns /\ unheard \in Seq(Words)
    /\ outgoing \in [to : {"nowhere", "finalCh", "transcriptCh"}, ev : Turns]
    /\ outgoing.to # "finalCh" => outgoing.ev = Nobody
    /\ unheard = queuedText(transcriptCh) \o pending.text \o sentText

\* What a final carries
LEMMA FinalFacts == \A f \in Finals : f[1] \in Seq(Words) /\ f[2] \in Confidences
BY TurnAssumption DEF Texts

\* The words a turn took with it, off the front
LEMMA DropFront ==
    ASSUME NEW S, NEW x \in Seq(S), NEW y \in Seq(S)
    PROVE  SubSeq(x \o y, Len(x) + 1, Len(x \o y)) = y
<1> DEFINE c == x \o y
           d == SubSeq(c, Len(x) + 1, Len(c))
<1>1. /\ c \in Seq(S) /\ Len(c) = Len(x) + Len(y) /\ Len(x) \in Nat /\ Len(y) \in Nat
      /\ \A i \in 1 .. Len(y) : c[Len(x) + i] = y[i]
    OBVIOUS
<1> HIDE DEF c
<1>2. d \in Seq(S) /\ Len(d) = Len(y) /\ \A i \in 1 .. Len(y) : d[i] = c[Len(x) + i]
  <2>1. /\ Len(x) + 1 \in 1 .. Len(c) + 1 /\ Len(c) \in Len(x) .. Len(c)
        /\ Len(c) - (Len(x) + 1) + 1 = Len(y)
      BY <1>1
  <2>2. ASSUME NEW i \in 1 .. Len(y) PROVE (Len(x) + 1) + i - 1 = Len(x) + i
      BY <1>1
  <2>3. /\ d \in Seq(S) /\ Len(d) = Len(c) - (Len(x) + 1) + 1
        /\ \A i \in 1 .. Len(c) - (Len(x) + 1) + 1 : d[i] = c[(Len(x) + 1) + i - 1]
      BY <1>1, <2>1
  <2> QED
      BY <2>1, <2>2, <2>3
<1> HIDE DEF d
<1>3. d = y
    BY <1>1, <1>2, SeqEqual
<1> QED
    BY <1>3 DEF c, d

\* Moving the first final into the pending turn, or the pending turn into the
\* queue, only moves a bracket
LEMMA WordsInductive == WordsInv /\ [Next]_vars => WordsInv'
<1> SUFFICES ASSUME WordsInv, [Next]_vars PROVE WordsInv'
    OBVIOUS
<1> DEFINE said == queuedText(transcriptCh)
           held == pending.text
           queued == queuedText(finalCh)
           out == outgoing.ev.text
           sent == sentText
<1>0. /\ said \in Seq(Words) /\ held \in Seq(Words) /\ sent \in Seq(Words)
      /\ queued \in Seq(Words) /\ out \in Seq(Words) /\ sent = queued \o out
      /\ unheard = said \o held \o sent
  <2>1. said \in Seq(Words) /\ queued \in Seq(Words)
      BY QueueFacts DEF WordsInv
  <2>2. held \in Seq(Words) /\ outgoing.ev \in Turns /\ out \in Seq(Words)
      BY DEF WordsInv, Turns
  <2>3. sent = queued \o out
      BY DEF sentText
  <2> HIDE DEF queued, out
  <2>4. queued \o out \in Seq(Words)
      BY <2>1, <2>2
  <2> QED
      BY <2>1, <2>2, <2>3, <2>4 DEF WordsInv
<1>1. \A x, y, z \in Seq(Words) :
          /\ (x \o y) \o z = x \o (y \o z) /\ x \o <<>> = x /\ <<>> \o x = x /\ x \o y \in Seq(Words)
    BY Joined
<1>assoc. \A x, y, z \in Seq(Words) : (x \o y) \o z = x \o (y \o z)
    BY Joined
<1>2. Nobody \in Turns /\ Nobody.text = <<>>
    BY DEF Nobody, Turns, NoText
<1>3. ChanSize \in Nat
    BY Positive
<1>4. CASE UNCHANGED <<outgoing, finalCh, transcriptCh, pending, unheard>>
    BY <1>4 DEF WordsInv, sentText
<1>5. CASE sttFinal
  <2> DEFINE ev(f) == [text |-> f[1], over |-> agentSpeechRecent]
  <2>1. PICK f \in Finals : /\ outgoing' = [to |-> "finalCh", ev |-> ev(f)]
                            /\ unheard' = unheard \o f[1]
      BY <1>5 DEF sttFinal
  <2>2. outgoing.ev = Nobody /\ UNCHANGED <<finalCh, transcriptCh, pending>>
      BY <1>5 DEF sttFinal, Sent, queueVars
  <2>3. f[1] \in Seq(Words)
      BY FinalFacts
  <2>4. ev(f) \in Turns /\ ev(f).text = f[1]
    <3>1. agentSpeechRecent \in BOOLEAN
        BY DEF agentSpeechRecent
    <3> QED
        BY <2>3, <3>1 DEF Turns
  <2> HIDE DEF ev
  <2>5. /\ outgoing' \in [to : {"nowhere", "finalCh", "transcriptCh"}, ev : Turns]
        /\ outgoing'.to = "finalCh" /\ outgoing'.ev.text = f[1]
      BY <2>1, <2>4
  <2>6. sent = queued /\ sentText' = queued \o f[1]
    <3>1. sentText' = queued \o f[1]
        BY <2>2, <2>5 DEF sentText
    <3> HIDE DEF queued, sent
    <3> QED
        BY <1>0, <1>1, <1>2, <2>2, <3>1
  <2>7. unheard' \in Seq(Words) /\ unheard' = said \o held \o sentText'
    <3> HIDE DEF said, held, sent, queued
    <3>1. said \o held \in Seq(Words)
        BY <1>0, <1>1
    <3>2. unheard' = ((said \o held) \o queued) \o f[1]
        BY <1>0, <2>1, <2>6
    <3>3. ((said \o held) \o queued) \o f[1] = (said \o held) \o (queued \o f[1])
      <4> DEFINE near == said \o held
      <4>1. near \in Seq(Words) /\ queued \in Seq(Words) /\ f[1] \in Seq(Words)
          BY <1>0, <2>3, <3>1
      <4> HIDE DEF near
      <4>2. (near \o queued) \o f[1] = near \o (queued \o f[1])
          BY <1>assoc, <4>1, Zenon
      <4> QED
          BY <4>2 DEF near
    <3>4. unheard' \in Seq(Words)
      <4>1. unheard \in Seq(Words)
          BY DEF WordsInv
      <4> QED
          BY <1>1, <2>1, <2>3, <4>1, Zenon
    <3> QED
        BY <2>6, <3>2, <3>3, <3>4
  <2> QED
      BY <2>2, <2>5, <2>7 DEF WordsInv
<1>partial. CASE sttPartial
  <2>1. outgoing.ev = Nobody /\ outgoing' = [to |-> "transcriptCh", ev |-> Nobody]
        /\ UNCHANGED <<finalCh, transcriptCh, pending, unheard>>
      BY <1>partial DEF sttPartial, Sent, queueVars
  <2>2. sentText' = sentText
      BY <2>1 DEF sentText
  <2> QED
      BY <1>2, <2>1, <2>2 DEF WordsInv
<1>send. CASE sttSends
  <2>1. outgoing' = Sent /\ UNCHANGED <<pending, unheard>>
      BY <1>send DEF sttSends
  <2>2. /\ outgoing' \in [to : {"nowhere", "finalCh", "transcriptCh"}, ev : Turns]
        /\ outgoing'.ev = Nobody /\ outgoing.ev \in Turns
      BY <1>2, <2>1 DEF Sent, WordsInv
  <2>3. finalCh \in Seq(Turns) /\ transcriptCh \in Seq(Turns) /\ Len(finalCh) \in Nat
        /\ Len(transcriptCh) \in Nat
      BY DEF WordsInv
  <2>4. CASE /\ Len(finalCh) < ChanSize /\ finalCh' = Append(finalCh, outgoing.ev)
             /\ UNCHANGED transcriptCh
    <3>1. /\ finalCh' \in Seq(Turns) /\ Len(finalCh') = Len(finalCh) + 1
          /\ queuedText(finalCh') = queued \o out
        BY <2>2, <2>3, <2>4, QueueFacts
    <3>2. Len(finalCh') <= ChanSize
        BY <1>3, <2>3, <2>4, <3>1
    <3>3. sentText' = (queued \o out) \o <<>>
        BY <1>2, <2>2, <3>1 DEF sentText
    <3>4. sentText' = sentText
      <4> HIDE DEF queued, out, sent
      <4>1. sentText' = sent
          BY <1>0, <1>1, <3>3
      <4> QED
          BY <4>1 DEF sent
    <3> QED
        BY <2>1, <2>2, <2>4, <3>1, <3>2, <3>4 DEF WordsInv
  <2>5. CASE /\ outgoing.to = "transcriptCh"
             /\ Len(transcriptCh) < ChanSize /\ transcriptCh' = Append(transcriptCh, outgoing.ev)
             /\ UNCHANGED finalCh
    <3>0. outgoing.ev = Nobody
        BY <2>5 DEF WordsInv
    <3>1. /\ transcriptCh' \in Seq(Turns) /\ Len(transcriptCh') = Len(transcriptCh) + 1
          /\ queuedText(transcriptCh') = said \o out
        BY <2>2, <2>3, <2>5, QueueFacts
    <3>2. Len(transcriptCh') <= ChanSize
        BY <1>3, <2>3, <2>5, <3>1
    <3>3. queuedText(transcriptCh') = queuedText(transcriptCh)
      <4>1. out = <<>>
          BY <1>2, <3>0
      <4> HIDE DEF out, said
      <4>2. said \o out = said
          BY <1>0, <1>1, <4>1
      <4> QED
          BY <3>1, <4>2 DEF said
    <3>4. sentText' = sentText
        BY <2>2, <2>5, <3>0 DEF sentText
    <3> QED
        BY <2>1, <2>2, <2>5, <3>1, <3>2, <3>3, <3>4 DEF WordsInv
  <2> QED
      BY <1>send, <2>4, <2>5 DEF sttSends
<1>6. CASE bufferFinal
  <2> DEFINE ev == Head(finalCh)
             merged == mergeInto(pending, ev)
  <2>1. /\ finalCh # <<>> /\ finalCh' = Tail(finalCh) /\ UNCHANGED <<unheard, outgoing>>
        /\ \/ ev.text = NoText /\ UNCHANGED <<pending, transcriptCh>>
           \/ flush(merged)
           \/ pending' = merged /\ UNCHANGED transcriptCh
      BY <1>6 DEF bufferFinal
  <2>2. /\ ev \in Turns /\ finalCh' \in Seq(Turns) /\ Len(finalCh') = Len(finalCh) - 1
        /\ Len(finalCh) \in Nat /\ queued = ev.text \o queuedText(finalCh')
        /\ queuedText(finalCh') \in Seq(Words)
    <3>1. finalCh \in Seq(Turns)
        BY DEF WordsInv
    <3>2. finalCh' \in Seq(Turns)
        BY <2>1, <3>1, QueueFacts
    <3> QED
        BY <2>1, <3>1, <3>2, QueueFacts
  <2>3. ev.text \in Seq(Words) /\ merged \in Turns /\ merged.text = held \o ev.text
    <3>1. ev.text \in Seq(Words) /\ pending.text \in Seq(Words)
        BY <1>0, <2>2 DEF Turns
    <3>2. merged.text = held \o ev.text
        BY DEF mergeInto
    <3>3. merged \in Turns
      <4>1. held \o ev.text \in Seq(Words)
          BY <3>1
      <4>2. (pending.over \/ ev.over) \in BOOLEAN
          OBVIOUS
      <4> QED
          BY <4>1, <4>2 DEF mergeInto, Turns
    <3> QED
        BY <3>1, <3>2, <3>3
  <2> HIDE DEF ev, merged
  <2>4. Len(finalCh') <= ChanSize
      BY <1>3, <2>2 DEF WordsInv
  <2> DEFINE rest == sentText'
             left == queuedText(finalCh')
  <2>rest. rest = left \o out
      BY <2>1 DEF sentText
  <2> HIDE DEF said, held, sent, queued, out, rest, left
  <2>5. unheard = said \o (held \o ev.text) \o rest
    <3>1. rest \in Seq(Words) /\ sent = ev.text \o rest
      <4>1. left \in Seq(Words) /\ queued = ev.text \o left
          BY <2>2 DEF left
      <4>0. out \in Seq(Words) /\ ev.text \in Seq(Words)
          BY <1>0, <2>3
      <4>2. (ev.text \o left) \o out = ev.text \o (left \o out)
          BY <1>assoc, <4>0, <4>1, ZenonT(30)
      <4>3. left \o out \in Seq(Words)
          BY <1>0, <1>1, <4>1, Zenon
      <4> QED
          BY <1>0, <2>rest, <4>1, <4>2, <4>3
    <3>2. said \o held \in Seq(Words) /\ held \o ev.text \in Seq(Words)
        BY <1>0, <1>1, <2>3, Zenon
    <3>3. (said \o held) \o (ev.text \o rest) = ((said \o held) \o ev.text) \o rest
        BY <1>assoc, <2>3, <3>1, <3>2, Zenon
    <3>0. said \in Seq(Words) /\ held \in Seq(Words) /\ ev.text \in Seq(Words)
        BY <1>0, <2>3
    <3>4. (said \o held) \o ev.text = said \o (held \o ev.text)
        BY <1>assoc, <3>0, ZenonT(30)
    <3> QED
        BY <1>0, <3>1, <3>3, <3>4
  <2>6. CASE ev.text = NoText /\ UNCHANGED <<pending, transcriptCh>>
    <3>1. held \o ev.text = held
        BY <1>0, <1>1, <2>6 DEF NoText
    <3>2. unheard = said \o held \o rest
        BY <2>5, <3>1
    <3> QED
        BY <2>1, <2>2, <2>4, <2>6, <3>2 DEF WordsInv, said, held, rest
  <2>7. CASE pending' = merged /\ UNCHANGED transcriptCh
      BY <2>1, <2>2, <2>3, <2>4, <2>5, <2>7 DEF WordsInv, said, rest
  <2>8. CASE flush(merged)
    <3>1. /\ Len(transcriptCh) < ChanSize /\ transcriptCh' = Append(transcriptCh, merged)
          /\ pending' = Nobody
        BY <2>8 DEF flush
    <3>2. /\ transcriptCh' \in Seq(Turns) /\ Len(transcriptCh') = Len(transcriptCh) + 1
          /\ Len(transcriptCh) \in Nat /\ queuedText(transcriptCh') = said \o merged.text
      <4>1. transcriptCh \in Seq(Turns)
          BY DEF WordsInv
      <4>2. Len(transcriptCh) \in Nat
          BY <4>1
      <4> QED
          BY <2>3, <3>1, <4>1, <4>2, QueueFacts DEF said
    <3>3. Len(transcriptCh') <= ChanSize
        BY <1>3, <3>1, <3>2
    <3>4. unheard = queuedText(transcriptCh') \o pending'.text \o sentText'
      <4>1. held \o ev.text \in Seq(Words)
          BY <1>0, <1>1, <2>3, Zenon
      <4>2. said \o (held \o ev.text) \in Seq(Words)
          BY <1>0, <1>1, <4>1, Zenon
      <4>3. (said \o (held \o ev.text)) \o <<>> = said \o (held \o ev.text)
          BY <1>1, <4>2, Zenon
      <4> QED
          BY <1>2, <2>3, <2>5, <3>1, <3>2, <4>3 DEF rest
    <3> QED
        BY <1>2, <2>1, <2>2, <2>4, <3>1, <3>2, <3>3, <3>4 DEF WordsInv
  <2> QED
      BY <2>1, <2>6, <2>7, <2>8
<1>7. CASE bufferTimer
  <2>1. /\ Len(transcriptCh) < ChanSize /\ transcriptCh' = Append(transcriptCh, pending)
        /\ pending' = Nobody /\ UNCHANGED <<finalCh, outgoing, unheard>>
      BY <1>7 DEF bufferTimer, flush
  <2>2. /\ transcriptCh' \in Seq(Turns) /\ Len(transcriptCh') = Len(transcriptCh) + 1
        /\ Len(transcriptCh) \in Nat /\ queuedText(transcriptCh') = said \o held
    <3>1. transcriptCh \in Seq(Turns) /\ pending \in Turns
        BY DEF WordsInv
    <3>2. Len(transcriptCh) \in Nat
        BY <3>1
    <3> QED
        BY <2>1, <3>1, <3>2, QueueFacts
  <2>3. Len(transcriptCh') <= ChanSize
      BY <1>3, <2>1, <2>2
  <2>same. sentText' = sent
      BY <2>1 DEF sentText
  <2> HIDE DEF said, held, sent
  <2>4. (said \o held) \o <<>> = said \o held
    <3>1. said \o held \in Seq(Words)
        BY <1>0, <1>1, Zenon
    <3> QED
        BY <1>1, <3>1, Zenon
  <2>5. unheard' = queuedText(transcriptCh') \o pending'.text \o sentText'
      BY <1>0, <1>2, <2>1, <2>2, <2>4, <2>same
  <2> QED
      BY <1>2, <2>1, <2>2, <2>3, <2>5 DEF WordsInv
<1>8. CASE ignoreTurn \/ takeTurn
  <2>1. /\ transcriptCh # <<>> /\ heardFrom(Head(transcriptCh))
        /\ UNCHANGED <<outgoing, finalCh, pending>>
      BY <1>8 DEF ignoreTurn, takeTurn
  <2> DEFINE ev == Head(transcriptCh)
             rest == queuedText(transcriptCh')
  <2>2. transcriptCh' = Tail(transcriptCh)
        /\ unheard' = SubSeq(unheard, Len(ev.text) + 1, Len(unheard))
      BY <2>1 DEF heardFrom
  <2>3. /\ ev.text \in Seq(Words) /\ transcriptCh' \in Seq(Turns)
        /\ Len(transcriptCh') = Len(transcriptCh) - 1 /\ Len(transcriptCh) \in Nat
        /\ said = ev.text \o rest /\ rest \in Seq(Words)
    <3>1. transcriptCh \in Seq(Turns)
        BY DEF WordsInv
    <3>2. transcriptCh' \in Seq(Turns) /\ Head(transcriptCh) \in Turns
        BY <2>1, <2>2, <3>1, QueueFacts
    <3> QED
        BY <2>1, <2>2, <3>1, <3>2, QueueFacts DEF Turns
  <2>same. sentText' = sent
      BY <2>1 DEF sentText
  <2> HIDE DEF ev, rest, said, held, sent
  <2>4. rest \o held \in Seq(Words) /\ (rest \o held) \o sent \in Seq(Words)
    <3>1. rest \o held \in Seq(Words)
        BY <1>0, <1>1, <2>3, Zenon
    <3> QED
        BY <1>0, <1>1, <3>1, Zenon
  <2>5. unheard = ev.text \o ((rest \o held) \o sent)
    <3>0. ev.text \in Seq(Words) /\ rest \in Seq(Words) /\ held \in Seq(Words)
        BY <1>0, <2>3
    <3>1. (ev.text \o rest) \o held = ev.text \o (rest \o held)
        BY <1>assoc, <3>0, ZenonT(30)
    <3>2. (ev.text \o (rest \o held)) \o sent = ev.text \o ((rest \o held) \o sent)
      <4> DEFINE mid == rest \o held
      <4>1. mid \in Seq(Words) /\ sent \in Seq(Words)
          BY <1>0, <2>4
      <4> HIDE DEF mid
      <4>2. (ev.text \o mid) \o sent = ev.text \o (mid \o sent)
          BY <1>assoc, <3>0, <4>1, Zenon
      <4> QED
          BY <4>2 DEF mid
    <3> QED
        BY <1>0, <2>3, <3>1, <3>2
  <2>6. unheard' = (rest \o held) \o sent
    <3> DEFINE y == (rest \o held) \o sent
    <3> HIDE DEF y
    <3>1. SubSeq(ev.text \o y, Len(ev.text) + 1, Len(ev.text \o y)) = y
      <4>1. y \in Seq(Words)
          BY <2>4 DEF y
      <4> QED
          BY <2>3, <4>1, DropFront
    <3> QED
        BY <2>2, <2>5, <3>1 DEF y
  <2>7. Len(transcriptCh') <= ChanSize
      BY <1>3, <2>3 DEF WordsInv
  <2> QED
      BY <2>1, <2>3, <2>4, <2>6, <2>7, <2>same DEF WordsInv, rest, held
<1>forward. CASE forwardPartial
  <2>1. /\ transcriptCh # <<>> /\ Head(transcriptCh) = Nobody
        /\ transcriptCh' = Tail(transcriptCh) /\ UNCHANGED <<outgoing, finalCh, pending, unheard>>
      BY <1>forward DEF forwardPartial
  <2>2. transcriptCh \in Seq(Turns)
      BY DEF WordsInv
  <2>3. transcriptCh' \in Seq(Turns)
      BY <2>1, <2>2, QueueFacts
  <2>4. /\ Len(transcriptCh') = Len(transcriptCh) - 1 /\ Len(transcriptCh) \in Nat
        /\ queuedText(transcriptCh) = <<>> \o queuedText(transcriptCh')
        /\ queuedText(transcriptCh') \in Seq(Words)
      BY <1>2, <2>1, <2>2, <2>3, QueueFacts
  <2>5. queuedText(transcriptCh) = queuedText(transcriptCh')
      BY <1>1, <2>4
  <2>6. Len(transcriptCh') <= ChanSize
      BY <1>3, <2>4 DEF WordsInv
  <2>7. sentText' = sentText
      BY <2>1 DEF sentText
  <2> QED
      BY <2>1, <2>3, <2>5, <2>6, <2>7 DEF WordsInv
<1>9. CASE inboundFrame \/ inboundFails \/ takeInterrupt
           \/ prepareResponse \/ agentSpeaks \/ finishResponse \/ Tick \/ UNCHANGED vars
    BY <1>4, <1>9 DEF inboundFrame, inboundFails, takeInterrupt, prepareResponse,
        agentSpeaks, finishResponse, Tick, vars, bufVars, queueVars
<1> QED
    BY <1>5, <1>partial, <1>send, <1>6, <1>7, <1>8, <1>forward, <1>9 DEF Next, bufferStep, agentStep

\* The other variables of the type invariant, in four groups
VadType == vad \in [speech : 0 .. Onset, silent : 0 .. Offset, on : BOOLEAN]
CounterType ==
    /\ bargeInAge \in 0 .. Window /\ echoLeft \in 0 .. EchoWindow /\ graceLeft \in 0 .. Grace
    /\ misunderstandingStreak \in 0 .. 3 /\ nFinals \in 0 .. MaxFinals
FlagType ==
    /\ up \in BOOLEAN /\ bargeInPending \in BOOLEAN /\ hasPartialText \in BOOLEAN
    /\ audioMuted \in BOOLEAN /\ interruptCh \in BOOLEAN /\ prefetched \in BOOLEAN
    /\ speaking \in BOOLEAN /\ freshWords \in BOOLEAN
TextType ==
    /\ latestPartial \in Seq(Words) /\ ragPrefetch \in Seq(Words)
    /\ lastAgentText \in Sayings /\ interruptedText \in Sayings
    /\ response \in [at : Phases, text : Seq(Words)]
    /\ userConfidence \in Confidences

KindInv == VadType /\ CounterType /\ FlagType /\ TextType

\* The detector counts up to its limits
LEMMA VadInductive == VadType /\ [Next]_vars => VadType'
<1> SUFFICES ASSUME VadType, [Next]_vars PROVE VadType'
    OBVIOUS
<1>1. CASE UNCHANGED vad
    BY <1>1 DEF VadType
<1>2. CASE inboundFrame
  <2>1. PICK energy \in Energies :
            \/ confirmBargeIn \/ suppressBargeIn(Process(energy))
            \/ shortBargeIn(Process(energy)) \/ bargeInCandidate(Process(energy))
            \/ nothingToDecide(Process(energy))
      BY <1>2 DEF inboundFrame
  <2>2. vad' = Reset \/ vad' = Process(energy)
      BY <2>1 DEF confirmBargeIn, suppressBargeIn, shortBargeIn, bargeInCandidate, nothingToDecide
  <2>3. Process(energy).speech \in 0 .. Onset /\ Process(energy).silent \in 0 .. Offset
      BY ProcessFacts DEF VadType, VoiceType
  <2>4. Process(energy) = [speech |-> Process(energy).speech, silent |-> Process(energy).silent,
                           on |-> Process(energy).on]
      BY DEF Process
  <2>5. Process(energy).on \in BOOLEAN
    <3> DEFINE silent == Process(energy).silent
               speech == Process(energy).speech
    <3>1. Process(energy).on = IF vad.on THEN silent < Offset ELSE speech >= Onset
        BY DEF Process
    <3> HIDE DEF silent, speech
    <3>2. (silent < Offset) \in BOOLEAN /\ (speech >= Onset) \in BOOLEAN
        OBVIOUS
    <3> QED
        BY <3>1, <3>2
  <2>6. Reset \in [speech : 0 .. Onset, silent : 0 .. Offset, on : BOOLEAN]
      BY Positive DEF Reset
  <2>7. Process(energy) \in [speech : 0 .. Onset, silent : 0 .. Offset, on : BOOLEAN]
      BY <2>3, <2>4, <2>5
  <2> QED
      BY <2>2, <2>6, <2>7 DEF VadType
<1>3. CASE inboundFails \/ sttFinal \/ sttPartial \/ sttSends \/ bufferStep \/ agentStep \/ prepareResponse
           \/ agentSpeaks \/ finishResponse \/ Tick \/ UNCHANGED vars
    BY <1>1, <1>3 DEF inboundFails, sttFinal, sttPartial, sttSends, bufferStep, bufferFinal, bufferTimer,
        agentStep, forwardPartial, ignoreTurn, takeTurn, takeInterrupt, prepareResponse, agentSpeaks,
        finishResponse, Tick, vars, vadVars
<1> QED
    BY <1>2, <1>3 DEF Next

\* No counter passes its limit
LEMMA CountersInductive == CounterType /\ [Next]_vars => CounterType'
<1> SUFFICES ASSUME CounterType, [Next]_vars PROVE CounterType'
    OBVIOUS
<1>0. /\ Window \in Nat /\ EchoWindow \in Nat /\ Grace \in Nat /\ MaxFinals \in Nat
    BY Positive
<1>1. CASE UNCHANGED <<bargeInAge, echoLeft, graceLeft, misunderstandingStreak, nFinals>>
    BY <1>1 DEF CounterType
<1>2. CASE inboundFrame
  <2>1. PICK v : \/ confirmBargeIn \/ suppressBargeIn(v) \/ shortBargeIn(v)
                 \/ bargeInCandidate(v) \/ nothingToDecide(v)
      BY <1>2 DEF inboundFrame
  <2>2. bargeInAge' \in {bargeInAge, 0}
      BY <2>1 DEF confirmBargeIn, suppressBargeIn, shortBargeIn, bargeInCandidate,
          nothingToDecide, bargeVars
  <2>3. UNCHANGED <<echoLeft, graceLeft, misunderstandingStreak, nFinals>>
      BY <1>2 DEF inboundFrame, agentVars, sttVars
  <2> QED
      BY <1>0, <2>2, <2>3 DEF CounterType
<1>3. CASE sttFinal
    BY <1>0, <1>3 DEF sttFinal, CounterType, vadVars, bargeVars, agentVars
<1>4. CASE takeTurn \/ takeInterrupt \/ finishResponse
  <2>1. graceLeft' \in {Grace, graceLeft}
      BY <1>4 DEF takeTurn, takeInterrupt, finishResponse, supersedeResponse, stopSpeaking
  <2>2. UNCHANGED <<bargeInAge, echoLeft, misunderstandingStreak, nFinals>>
      BY <1>4 DEF takeTurn, takeInterrupt, finishResponse, vadVars, bargeVars, sttVars
  <2> QED
      BY <1>0, <2>1, <2>2 DEF CounterType
<1>5. CASE prepareResponse
  <2>1. misunderstandingNote(response.text)
        /\ UNCHANGED <<bargeInAge, echoLeft, graceLeft, nFinals>>
      BY <1>5 DEF prepareResponse, vadVars, bargeVars
  <2>2. misunderstandingStreak' \in {0, Min({misunderstandingStreak + 1, 3}), misunderstandingStreak}
      BY <2>1 DEF misunderstandingNote
  <2>3. misunderstandingStreak \in 0 .. 3
      BY DEF CounterType
  <2>4. Min({misunderstandingStreak + 1, 3}) =
            IF misunderstandingStreak + 1 <= 3 THEN misunderstandingStreak + 1 ELSE 3
      BY <2>3, PairFacts
  <2>5. misunderstandingStreak' \in 0 .. 3
      BY <2>2, <2>3, <2>4
  <2> QED
      BY <2>1, <2>5 DEF CounterType
<1>6. CASE agentSpeaks
  <2>1. echoLeft' = EchoWindow /\ UNCHANGED <<bargeInAge, graceLeft, misunderstandingStreak, nFinals>>
      BY <1>6 DEF agentSpeaks, bargeVars, sttVars
  <2> QED
      BY <1>0, <2>1 DEF CounterType
<1>7. CASE Tick
  <2>1. /\ bargeInAge' \in {0, Min({bargeInAge + 1, Window})}
        /\ graceLeft' = IF graceLeft > 0 THEN graceLeft - 1 ELSE graceLeft
        /\ echoLeft' = echoLeft \/ echoLeft' = IF echoLeft > 0 THEN echoLeft - 1 ELSE echoLeft
        /\ UNCHANGED <<misunderstandingStreak, nFinals>>
      BY <1>7 DEF Tick, Down, sttVars
  <2>2. bargeInAge \in 0 .. Window
      BY DEF CounterType
  <2>3. Min({bargeInAge + 1, Window}) = IF bargeInAge + 1 <= Window THEN bargeInAge + 1 ELSE Window
      BY <1>0, <2>2, PairFacts
  <2>4. bargeInAge' \in 0 .. Window
      BY <1>0, <2>1, <2>2, <2>3
  <2> QED
      BY <1>0, <2>1, <2>4 DEF CounterType
<1>8. CASE inboundFails \/ sttPartial \/ sttSends \/ bufferStep \/ forwardPartial \/ ignoreTurn
           \/ UNCHANGED vars
    BY <1>1, <1>8 DEF inboundFails, sttPartial, sttSends, bufferStep, bufferFinal, bufferTimer,
        forwardPartial, ignoreTurn, vars, vadVars, bargeVars, agentVars, sttVars
<1> QED
    BY <1>2, <1>3, <1>4, <1>5, <1>6, <1>7, <1>8 DEF Next, agentStep

\* A flag stays a flag
LEMMA FlagsInductive == FlagType /\ [Next]_vars => FlagType'
<1> SUFFICES ASSUME FlagType, [Next]_vars PROVE FlagType'
    OBVIOUS
<1> USE DEF FlagType
<1>1. CASE inboundFrame
  <2>1. PICK v : \/ confirmBargeIn \/ suppressBargeIn(v) \/ shortBargeIn(v)
                 \/ bargeInCandidate(v) \/ nothingToDecide(v)
      BY <1>1 DEF inboundFrame
  <2>2. bargeInPending' \in BOOLEAN /\ hasPartialText' \in BOOLEAN /\ audioMuted' \in BOOLEAN
        /\ interruptCh' \in BOOLEAN /\ freshWords' \in BOOLEAN
      BY <2>1 DEF confirmBargeIn, suppressBargeIn, shortBargeIn, bargeInCandidate,
          nothingToDecide, maybeRestoreDuck, maybeStartDuck, signalInterrupt, bargeVars, partVars
  <2>3. UNCHANGED <<up, prefetched, speaking>>
      BY <1>1 DEF inboundFrame, bufVars, queueVars, agentVars
  <2> QED
      BY <2>1, <2>2, <2>3
<1>2. CASE sttPartial
  <2>1. PICK t : /\ hasPartialText' = (hasPartialText \/ t # NoText)
                 /\ freshWords' = (freshWords \/ t # NoText)
      BY <1>2 DEF sttPartial
  <2> QED
      BY <1>2, <2>1 DEF sttPartial, vadVars, bargeVars, bufVars, queueVars, agentVars
<1>3. CASE sttFinal
    BY <1>3 DEF sttFinal, withdrawPartial, vadVars, bargeVars, queueVars, agentVars
<1>4. CASE bufferFinal \/ bufferTimer
  <2>1. prefetched' \in BOOLEAN
    <3>1. CASE bufferFinal
      <4>1. prefetched' = prefetched \/ prefetched' = FALSE \/ prefetched' = TRUE
          BY <3>1 DEF bufferFinal, flush
      <4> QED
          BY <4>1
    <3>2. CASE bufferTimer
        BY <3>2 DEF bufferTimer, flush
    <3> QED
        BY <1>4, <3>1, <3>2
  <2> QED
      BY <1>4, <2>1 DEF bufferFinal, bufferTimer, vadVars, bargeVars, partVars, agentVars
<1>5. CASE takeTurn \/ takeInterrupt \/ finishResponse
  <2>1. speaking' = FALSE /\ (interruptCh' = FALSE \/ UNCHANGED interruptCh)
      BY <1>5 DEF takeTurn, takeInterrupt, finishResponse, supersedeResponse, stopSpeaking, bargeVars
  <2>2. UNCHANGED <<up, bargeInPending, hasPartialText, audioMuted, prefetched,
                    freshWords>>
      BY <1>5 DEF takeTurn, takeInterrupt, finishResponse, vadVars, bargeVars, partVars, bufVars, queueVars
  <2> QED
      BY <2>1, <2>2
<1>6. CASE inboundFails
    BY <1>6 DEF inboundFails, bargeVars, partVars, bufVars, queueVars, agentVars
<1>7. CASE agentSpeaks
    BY <1>7 DEF agentSpeaks, bargeVars, partVars, bufVars, queueVars
<1>8. CASE sttSends \/ forwardPartial \/ ignoreTurn \/ prepareResponse \/ Tick \/ UNCHANGED vars
  <2>1. UNCHANGED <<up, bargeInPending, hasPartialText, audioMuted, interruptCh, prefetched,
                    speaking, freshWords>>
      BY <1>8 DEF sttSends, forwardPartial, ignoreTurn, prepareResponse, Tick, vars, vadVars,
          bargeVars, partVars, bufVars, queueVars, agentVars
  <2> QED
      BY <2>1
<1> QED
    BY <1>1, <1>2, <1>3, <1>4, <1>5, <1>6, <1>7, <1>8 DEF Next, bufferStep, agentStep

\* Texts are made of words, and a response is in one of its phases
LEMMA TextsInductive == WordsInv /\ TextType /\ [Next]_vars => TextType'
<1> SUFFICES ASSUME WordsInv, TextType, [Next]_vars PROVE TextType'
    OBVIOUS
<1> USE DEF TextType
<1>0. NoText \in Seq(Words) /\ \A t \in Partials : t \in Seq(Words)
    BY TurnAssumption DEF NoText, Texts
<1>1. CASE UNCHANGED <<latestPartial, ragPrefetch, lastAgentText, interruptedText, response,
                       userConfidence>>
    BY <1>1
<1>2. CASE inboundFrame
  <2>1. PICK v : \/ confirmBargeIn \/ suppressBargeIn(v) \/ shortBargeIn(v)
                 \/ bargeInCandidate(v) \/ nothingToDecide(v)
      BY <1>2 DEF inboundFrame
  <2>2. UNCHANGED latestPartial
      BY <2>1 DEF confirmBargeIn, suppressBargeIn, shortBargeIn, bargeInCandidate,
          nothingToDecide, partVars
  <2> QED
      BY <1>1, <1>2, <2>2 DEF inboundFrame, bufVars, agentVars, sttVars
<1>3. CASE sttFinal
  <2>1. PICK f \in Finals : userConfidence' = f[2]
      BY <1>3 DEF sttFinal
  <2>2. latestPartial' = NoText
        /\ UNCHANGED <<ragPrefetch, lastAgentText, interruptedText, response>>
      BY <1>3 DEF sttFinal, withdrawPartial, agentVars
  <2> QED
      BY <1>0, <2>1, <2>2, FinalFacts
<1>4. CASE sttPartial
    BY <1>0, <1>4 DEF sttPartial, bufVars, agentVars, sttVars
<1>5. CASE bufferFinal
  <2> DEFINE merged == mergeInto(pending, Head(finalCh))
  <2>1. UNCHANGED ragPrefetch \/ startRAGPrefetch(merged.text)
      BY <1>5 DEF bufferFinal
  <2>2. merged.text \in Seq(Words)
    <3>1. Head(finalCh) \in Turns /\ pending \in Turns
      <4>1. finalCh \in Seq(Turns) /\ finalCh # <<>> /\ pending \in Turns
          BY <1>5 DEF WordsInv, bufferFinal
      <4> QED
          BY <4>1, QueueFacts
    <3>2. merged.text = pending.text \o Head(finalCh).text
        BY DEF mergeInto
    <3>3. pending.text \in Seq(Words) /\ Head(finalCh).text \in Seq(Words)
        BY <3>1 DEF Turns
    <3>4. pending.text \o Head(finalCh).text \in Seq(Words)
        BY <3>3
    <3> QED
        BY <3>2, <3>4
  <2>3. ragPrefetch' \in Seq(Words)
      BY <2>1, <2>2 DEF startRAGPrefetch
  <2>4. UNCHANGED <<latestPartial, lastAgentText, interruptedText, response, userConfidence>>
      BY <1>5 DEF bufferFinal, partVars, agentVars, sttVars
  <2> QED
      BY <2>3, <2>4
<1>6. CASE takeTurn
  <2>1. Head(transcriptCh).text \in Seq(Words)
    <3>1. transcriptCh \in Seq(Turns) /\ transcriptCh # <<>>
        BY <1>6 DEF WordsInv, takeTurn
    <3>2. Head(transcriptCh) \in Turns
        BY <3>1
    <3> QED
        BY <3>2 DEF Turns
  <2>2. response' = [at |-> "start", text |-> Head(transcriptCh).text]
      BY <1>6 DEF takeTurn, supersedeResponse
  <2>3. response' \in [at : Phases, text : Seq(Words)]
      BY <1>0, <2>1, <2>2 DEF Phases
  <2>4. UNCHANGED <<latestPartial, ragPrefetch, lastAgentText, interruptedText, userConfidence>>
      BY <1>6 DEF takeTurn, partVars, sttVars
  <2> QED
      BY <2>3, <2>4
<1>7. CASE takeInterrupt \/ finishResponse
  <2>1. response' \in [at : Phases, text : Seq(Words)]
      BY <1>0, <1>7 DEF takeInterrupt, finishResponse, supersedeResponse, Idle, Phases
  <2> QED
      BY <1>7, <2>1 DEF takeInterrupt, finishResponse, partVars, bufVars, sttVars
<1>8. CASE prepareResponse
  <2>1. /\ interruptedText' = "none" /\ lastAgentText' = "none"
        /\ UNCHANGED <<latestPartial, userConfidence>>
        /\ response' = [response EXCEPT !.at = "chat"]
        /\ ragPrefetch' \in {NoText, ragPrefetch}
      BY <1>8 DEF prepareResponse, takeRAGPrefetch, partVars
  <2> QED
      BY <1>0, <2>1 DEF Sayings, Phases
<1>9. CASE agentSpeaks
  <2>1. /\ response' = [response EXCEPT !.at = "speaking"] /\ lastAgentText' \in {"plain", "readback"}
        /\ UNCHANGED <<latestPartial, ragPrefetch, interruptedText, userConfidence>>
      BY <1>9 DEF agentSpeaks, partVars, bufVars, sttVars
  <2> QED
      BY <2>1 DEF Sayings, Phases
<1>10. CASE inboundFails \/ sttSends \/ bufferTimer \/ forwardPartial \/ ignoreTurn \/ Tick
            \/ UNCHANGED vars
    BY <1>1, <1>10 DEF inboundFails, sttSends, bufferTimer, forwardPartial, ignoreTurn, Tick, vars, partVars, bufVars,
        agentVars, sttVars
<1> QED
    BY <1>2, <1>3, <1>4, <1>5, <1>6, <1>7, <1>8, <1>9, <1>10 DEF Next, bufferStep, agentStep

\* However the finals and the timers fall, and however long the call, the turn
\* buffer neither loses, repeats nor reorders a word on its way to runAgent, and
\* every variable keeps its type.
THEOREM WordsCorrect == Spec => []WordsKept
<1> DEFINE Inv == HoldInv /\ WordsInv /\ KindInv
<1>1. Init => Inv
  <2> SUFFICES ASSUME Init PROVE Inv
      OBVIOUS
  <2>1. HoldInv
      BY Positive DEF Init, HoldInv, HoldType, HoldIsBounded, Off
  <2>2. WordsInv
    <3>1. /\ finalCh = <<>> /\ transcriptCh = <<>> /\ pending = Nobody /\ unheard = <<>>
          /\ outgoing = [to |-> "nowhere", ev |-> Nobody]
        BY DEF Init, NoText, Sent
    <3>2. <<>> \in Seq(Turns) /\ <<>> \in Seq(Words) /\ Len(<<>>) = 0
        OBVIOUS
    <3>3. queuedText(<<>>) = <<>> /\ Nobody \in Turns /\ Nobody.text = <<>>
        BY <3>2, QueueFacts DEF Nobody, Turns, NoText
    <3>4. <<>> = <<>> \o <<>> \o (<<>> \o <<>>)
        OBVIOUS
    <3>5. sentText = <<>> \o <<>>
        BY <3>1, <3>3 DEF sentText
    <3>6. /\ finalCh \in Seq(Turns) /\ Len(finalCh) <= ChanSize
          /\ transcriptCh \in Seq(Turns) /\ Len(transcriptCh) <= ChanSize
          /\ pending \in Turns /\ unheard \in Seq(Words)
        BY <3>1, <3>2, <3>3, Positive
    <3>7. outgoing \in [to : {"nowhere", "finalCh", "transcriptCh"}, ev : Turns]
        BY <3>1, <3>3
    <3>8. outgoing.ev = Nobody
        BY <3>1
    <3>9. unheard = queuedText(transcriptCh) \o pending.text \o sentText
        BY <3>1, <3>3, <3>4, <3>5
    <3> QED
        BY <3>6, <3>7, <3>8, <3>9 DEF WordsInv
  <2>3. VadType /\ CounterType /\ TextType
      BY Positive DEF Init, VadType, CounterType, TextType, Reset, Idle, Sayings, Phases,
          Confidences, NoText
  <2>4. FlagType
      BY DEF Init, FlagType
  <2> QED
      BY <2>1, <2>2, <2>3, <2>4 DEF KindInv
<1>2. Inv /\ [Next]_vars => Inv'
    BY HoldInductive, WordsInductive, VadInductive, CountersInductive, FlagsInductive,
        TextsInductive DEF KindInv
<1>3. Inv => WordsKept
  <2> SUFFICES ASSUME Inv PROVE WordsKept
      OBVIOUS
  <2>1. {up, bargeInPending, hasPartialText, audioMuted, interruptCh, prefetched,
         speaking, freshWords} \subseteq BOOLEAN
      BY DEF KindInv, FlagType
  <2>2. {latestPartial, ragPrefetch, unheard} \subseteq Seq(Words)
        /\ {lastAgentText, interruptedText} \subseteq Sayings
      BY DEF KindInv, TextType, WordsInv
  <2> QED
      BY <2>1, <2>2 DEF KindInv, VadType, CounterType, TextType, HoldInv, HoldType, WordsInv,
          WordsKept, TypeOK
<1> QED
    BY <1>1, <1>2, <1>3, PTL DEF Spec, Safety
=============================================================================
