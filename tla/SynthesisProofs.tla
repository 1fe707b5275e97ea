-------------------------- MODULE SynthesisProofs ---------------------------
(***************************************************************************)
(* Theorems about the text-to-speech clients, for every number of streams, *)
(* connections and limiter slots: a live Cartesia websocket is always the  *)
(* one the client would write to, the limiter's slots are exactly the      *)
(* streams that hold one, and the caller hears the service's audio in      *)
(* order, whatever the sizes of the frames and the length of the filter.   *)
(*                                                                         *)
(* The last rests on what is on its way.  For a client that dials per      *)
(* sentence, what was heard, what is in the channel and what is being sent *)
(* make up the firm part of the sentence, the part no later frame changes; *)
(* the converter's state says which part that is, and the flush at the end *)
(* of the stream brings the rest.  For Cartesia, what was heard, relayed,  *)
(* bridged and handed over by the read loop is in the order it was sent,   *)
(* with gaps where a reply was dropped.                                    *)
(***************************************************************************)
EXTENDS Synthesis, SequenceFacts

---------------------------------------------------------------------------
(* The shared websocket *)

ConnType ==
    /\ conn \in 0 .. MaxConns
    /\ sock \in [Conns -> {"none", "up", "down"}]
    /\ loop \in [Conns -> {"none", "reading", "cleanup", "done"}]

\* A read loop that left its loop has seen its connection die, so clearing the
\* pointer it still finds to itself cannot orphan a live one.
LoopsOutlive == \A k \in Conns : loop[k] \in {"cleanup", "done"} => sock[k] = "down"

ConnInv == ConnType /\ ConnectionOwned /\ LoopsOutlive

\* The actions that touch the connection; every other one leaves it alone.
ConnAction ==
    \/ \E r \in Streams : ensureConnected(r) \/ writeRequest(r) \/ sendCancel(r)
    \/ \E k \in Conns : connectionDrops(k) \/ notifyAllError(k) \/ readLoopEnds(k)

\* Every step is one of those or leaves the client's connections as they are.
LEMMA ConnFrame ==
    [Next]_vars => ConnAction \/ UNCHANGED <<conn, sock, loop>>
<1> SUFFICES ASSUME [Next]_vars PROVE ConnAction \/ UNCHANGED <<conn, sock, loop>>
    OBVIOUS
<1>1. CASE UNCHANGED vars
    BY <1>1 DEF vars, wsVars
<1>2. ASSUME NEW r \in Streams,
             \/ nextSentence(r) \/ dial(r) \/ expect(r) \/ watch(r) \/ readFrame(r)
             \/ endOfBody(r) \/ readFails(r) \/ streamWhole(r) \/ emit(r) \/ closeStream(r)
             \/ acquire(r) \/ relayEnds(r)
             \/ consume(r) \/ abandon(r) \/ consumed(r) \/ bargeIn(r)
      PROVE  UNCHANGED <<conn, sock, loop>>
    BY <1>2 DEF nextSentence, dial, expect, watch, readFrame, endOfBody, readFails,
        streamWhole, emit, closeStream, acquire, relayEnds, consume, abandon, consumed,
        bargeIn, wsVars
<1>3. ASSUME NEW r \in Streams, relayChunk(r) \/ bridgeReceives(r) \/ bridgeSends(r)
      PROVE  UNCHANGED <<conn, sock, loop>>
    BY <1>3 DEF relayChunk, bridgeReceives, bridgeSends, bridgeVars
<1>4. ASSUME NEW k \in Conns, readMessage(k)
      PROVE  UNCHANGED <<conn, sock, loop>>
    BY <1>4 DEF readMessage
<1> QED
    BY <1>1, <1>2, <1>3, <1>4 DEF Next, ConnAction

\* No step breaks the ownership of the connection.
LEMMA ConnInductive == ConnInv /\ [Next]_vars => ConnInv'
<1> SUFFICES ASSUME ConnInv, [Next]_vars PROVE ConnInv'
    OBVIOUS
<1> USE DEF ConnInv, ConnType, ConnectionOwned, LoopsOutlive, Conns
<1>0. MaxConns \in Nat \ {0}
    BY SynthesisAssumption
<1>1. CASE UNCHANGED <<conn, sock, loop>>
    BY <1>1
<1>2. ASSUME NEW r \in Streams, ensureConnected(r) PROVE ConnInv'
  <2>1. CASE UNCHANGED <<conn, sock, loop>>
      BY <1>1, <2>1
  <2>2. ASSUME NEW k \in Conns, conn = 0, sock[k] = "none", conn' = k,
               sock' = [sock EXCEPT ![k] = "up"], loop' = [loop EXCEPT ![k] = "reading"]
        PROVE  ConnInv'
      BY <1>0, <2>2
  <2> QED
      BY <1>2, <2>1, <2>2 DEF ensureConnected
<1>3. ASSUME writeBreaks, UNCHANGED loop PROVE ConnInv'
    BY <1>0, <1>3 DEF writeBreaks
<1>4. ASSUME NEW r \in Streams, writeRequest(r) PROVE ConnInv'
    BY <1>1, <1>3, <1>4 DEF writeRequest
<1>5. ASSUME NEW r \in Streams, sendCancel(r) PROVE ConnInv'
    BY <1>1, <1>3, <1>5 DEF sendCancel, bridgeVars
<1>6. ASSUME NEW k \in Conns, connectionDrops(k) PROVE ConnInv'
    BY <1>0, <1>6 DEF connectionDrops
<1>7. ASSUME NEW k \in Conns, notifyAllError(k) PROVE ConnInv'
    BY <1>0, <1>7 DEF notifyAllError
<1>8. ASSUME NEW k \in Conns, readLoopEnds(k) PROVE ConnInv'
    BY <1>0, <1>8 DEF readLoopEnds
<1> QED
    BY <1>1, <1>2, <1>4, <1>5, <1>6, <1>7, <1>8, ConnFrame DEF ConnAction

\* Initially nothing was dialled
LEMMA ConnInitial == Init => ConnInv
BY SynthesisAssumption DEF Init, ConnInv, ConnType, ConnectionOwned, LoopsOutlive, Conns

\* A websocket that is up is c.conn: however a dropped connection, a failed
\* write, a redial and the late end of the old read loop interleave, readLoop's
\* deferred c.conn == conn test never clears the pointer of its successor.
THEOREM ConnectionCorrect == Spec => []ConnectionOwned
<1>1. ConnInv => ConnectionOwned
    BY DEF ConnInv
<1> QED
    BY <1>1, ConnInitial, ConnInductive, PTL DEF Spec, Safety

---------------------------------------------------------------------------
(* The channels never overflow *)

IsSeq(s) == \E S : s \in Seq(S)

\* One channel per stream, none beyond its capacity
FitsIn(ch, cap) ==
    /\ ch = [r \in Streams |-> ch[r]]
    /\ \A r \in Streams : IsSeq(ch[r]) /\ Len(ch[r]) <= cap

\* What a send and a receive do to a sequence over some set
LEMMA QueueFacts ==
    ASSUME NEW s, IsSeq(s), NEW x
    PROVE  /\ Len(s) \in Nat
           /\ IsSeq(Append(s, x)) /\ Len(Append(s, x)) = Len(s) + 1
           /\ s # <<>> => IsSeq(Tail(s)) /\ Len(Tail(s)) = Len(s) - 1
<1>1. PICK S : s \in Seq(S)
    BY DEF IsSeq
<1>2. s \in [1 .. Len(s) -> S \cup {x}] /\ Len(s) \in Nat
    BY <1>1
<1>3. s \in Seq(S \cup {x})
    BY <1>2
<1>4. Append(s, x) \in Seq(S \cup {x}) /\ Len(Append(s, x)) = Len(s) + 1
    BY <1>3
<1>5. s # <<>> => Tail(s) \in Seq(S) /\ Len(Tail(s)) = Len(s) - 1
    BY <1>1
<1> QED
    BY <1>2, <1>4, <1>5 DEF IsSeq

\* A send on a channel with room, a receive, and a channel nobody looks at
LEMMA ChannelFacts ==
    ASSUME NEW ch, NEW cap \in Nat, FitsIn(ch, cap), NEW r \in Streams, NEW x
    PROVE  /\ Len(ch[r]) < cap => FitsIn([ch EXCEPT ![r] = Append(@, x)], cap)
           /\ ch[r] # <<>> => FitsIn([ch EXCEPT ![r] = Tail(@)], cap)
           /\ FitsIn([ch EXCEPT ![r] = <<>>], cap)
<1>1. IsSeq(<<>>) /\ Len(<<>>) = 0
  <2>1. <<>> \in Seq({})
      OBVIOUS
  <2> QED
      BY <2>1 DEF IsSeq
<1>2. IsSeq(ch[r])
    BY DEF FitsIn
<1>3. /\ Len(ch[r]) \in Nat
      /\ IsSeq(Append(ch[r], x)) /\ Len(Append(ch[r], x)) = Len(ch[r]) + 1
      /\ ch[r] # <<>> => IsSeq(Tail(ch[r])) /\ Len(Tail(ch[r])) = Len(ch[r]) - 1
    BY <1>2, QueueFacts
<1>4. ASSUME NEW v, IsSeq(v), Len(v) <= cap PROVE FitsIn([ch EXCEPT ![r] = v], cap)
    BY <1>4 DEF FitsIn
<1>5. ASSUME Len(ch[r]) < cap PROVE FitsIn([ch EXCEPT ![r] = Append(ch[r], x)], cap)
  <2>1. Len(Append(ch[r], x)) <= cap
      BY <1>3, <1>5
  <2> QED
      BY <1>3, <1>4, <2>1
<1>6. ASSUME ch[r] # <<>> PROVE FitsIn([ch EXCEPT ![r] = Tail(ch[r])], cap)
  <2>1. Len(ch[r]) <= cap
      BY DEF FitsIn
  <2>2. Len(Tail(ch[r])) <= cap
      BY <1>3, <1>6, <2>1
  <2> QED
      BY <1>3, <1>4, <1>6, <2>2
<1>7. FitsIn([ch EXCEPT ![r] = <<>>], cap)
    BY <1>1, <1>4
<1> QED
    BY <1>5, <1>6, <1>7

QueueInv == FitsIn(out, OutCap) /\ FitsIn(inner, OutCap) /\ FitsIn(respCh, PendingBuf)

\* Initially every channel is empty
LEMMA QueueInitial == Init => QueueInv
<1> SUFFICES ASSUME Init PROVE QueueInv
    OBVIOUS
<1>0. OutCap \in Nat /\ PendingBuf \in Nat
    BY SynthesisAssumption
<1>1. IsSeq(<<>>) /\ Len(<<>>) = 0
  <2>1. <<>> \in Seq({})
      OBVIOUS
  <2> QED
      BY <2>1 DEF IsSeq
<1> QED
    BY <1>0, <1>1 DEF Init, QueueInv, FitsIn

\* No step fills a channel beyond its capacity
LEMMA QueueInductive == QueueInv /\ pending \subseteq Streams /\ [Next]_vars => QueueInv'
<1> SUFFICES ASSUME QueueInv, pending \subseteq Streams, [Next]_vars PROVE QueueInv'
    OBVIOUS
<1> USE DEF QueueInv
<1>0. OutCap \in Nat /\ PendingBuf \in Nat
    BY SynthesisAssumption
<1>1. CASE UNCHANGED <<out, inner, respCh>>
    BY <1>1 DEF FitsIn
<1>2. CASE UNCHANGED vars
    BY <1>1, <1>2 DEF vars, wsVars
<1>3. ASSUME NEW r \in Streams,
             \/ nextSentence(r) \/ dial(r) \/ expect(r) \/ watch(r) \/ readFrame(r)
             \/ endOfBody(r) \/ readFails(r) \/ streamWhole(r) \/ closeStream(r)
             \/ acquire(r) \/ relayEnds(r) \/ ensureConnected(r) \/ writeRequest(r)
             \/ abandon(r) \/ consumed(r) \/ bargeIn(r)
      PROVE  QueueInv'
    BY <1>1, <1>3 DEF nextSentence, dial, expect, watch, readFrame, endOfBody, readFails,
        streamWhole, closeStream, acquire, relayEnds, ensureConnected, writeRequest,
        abandon, consumed, bargeIn, wsVars
<1>4. ASSUME NEW r \in Streams, emit(r) PROVE QueueInv'
  <2>1. /\ UNCHANGED <<inner, respCh>>
        /\ \/ Len(out[r]) < OutCap /\ out' = [out EXCEPT ![r] = Append(@, hold[r])]
           \/ out' = out
      BY <1>4 DEF emit, wsVars
  <2>2. FitsIn(out, OutCap)'
    <3>1. CASE out' = out
        BY <3>1 DEF FitsIn
    <3>2. CASE Len(out[r]) < OutCap /\ out' = [out EXCEPT ![r] = Append(@, hold[r])]
        BY <1>0, <3>2, ChannelFacts
    <3> QED
        BY <2>1, <3>1, <3>2
  <2>3. FitsIn(inner, OutCap)' /\ FitsIn(respCh, PendingBuf)'
      BY <2>1 DEF FitsIn
  <2> QED
      BY <2>2, <2>3
<1>5. ASSUME NEW r \in Streams, relayChunk(r) PROVE QueueInv'
  <2>1. /\ UNCHANGED respCh
        /\ Len(out[r]) < OutCap /\ out' = [out EXCEPT ![r] = Append(@, Head(inner[r]))]
        /\ inner[r] # <<>> /\ inner' = [inner EXCEPT ![r] = Tail(@)]
      BY <1>5 DEF relayChunk
  <2>2. FitsIn(out, OutCap)' /\ FitsIn(inner, OutCap)'
      BY <1>0, <2>1, ChannelFacts
  <2> QED
      BY <2>1, <2>2
<1>6. ASSUME NEW k \in Conns, readMessage(k) PROVE QueueInv'
  <2>1. UNCHANGED <<out, inner>>
      BY <1>6 DEF readMessage
  <2>2. PICK r \in pending : \E msg :
            respCh' = IF Len(respCh[r]) < PendingBuf
                      THEN [respCh EXCEPT ![r] = Append(@, msg)] ELSE respCh
      BY <1>6 DEF readMessage
  <2>3. FitsIn(respCh, PendingBuf)'
    <3>1. CASE Len(respCh[r]) < PendingBuf
      <4>1. r \in Streams
          OBVIOUS
      <4>2. PICK msg : respCh' = [respCh EXCEPT ![r] = Append(@, msg)]
          BY <2>2, <3>1
      <4> QED
          BY <1>0, <3>1, <4>1, <4>2, ChannelFacts
    <3>2. CASE ~(Len(respCh[r]) < PendingBuf)
        BY <2>2, <3>2 DEF FitsIn
    <3> QED
        BY <3>1, <3>2
  <2> QED
      BY <2>1, <2>3
<1>7. ASSUME NEW k \in Conns, notifyAllError(k) PROVE QueueInv'
  <2>1. UNCHANGED <<out, inner>>
      BY <1>7 DEF notifyAllError
  <2>2. respCh' = [r \in Streams |->
                    IF r \in pending /\ Len(respCh[r]) < PendingBuf
                    THEN Append(respCh[r], lost(r)) ELSE respCh[r]]
      BY <1>7 DEF notifyAllError
  <2>3. \A r \in Streams : IsSeq(respCh'[r]) /\ Len(respCh'[r]) <= PendingBuf
    <3> TAKE r \in Streams
    <3>1. IsSeq(respCh[r]) /\ Len(respCh[r]) <= PendingBuf
        BY DEF FitsIn
    <3>2. /\ IsSeq(Append(respCh[r], lost(r)))
          /\ Len(Append(respCh[r], lost(r))) = Len(respCh[r]) + 1 /\ Len(respCh[r]) \in Nat
        BY <3>1, QueueFacts
    <3> QED
        BY <1>0, <2>2, <3>1, <3>2
  <2>4. FitsIn(respCh, PendingBuf)'
      BY <2>2, <2>3 DEF FitsIn
  <2> QED
      BY <2>1, <2>4
<1>8. ASSUME NEW k \in Conns, connectionDrops(k) \/ readLoopEnds(k) PROVE QueueInv'
    BY <1>1, <1>8 DEF connectionDrops, readLoopEnds
<1>9. ASSUME NEW r \in Streams, bridgeReceives(r) PROVE QueueInv'
  <2>1. /\ UNCHANGED <<out, inner>> /\ respCh[r] # <<>>
        /\ \/ respCh' = [respCh EXCEPT ![r] = <<>>]
           \/ respCh' = [respCh EXCEPT ![r] = Tail(@)]
      BY <1>9 DEF bridgeReceives, bridgeVars, bridgeEnds
  <2>2. FitsIn(respCh, PendingBuf)'
      BY <1>0, <2>1, ChannelFacts
  <2> QED
      BY <2>1, <2>2
<1>10. ASSUME NEW r \in Streams, bridgeSends(r) PROVE QueueInv'
  <2>1. /\ UNCHANGED out
        /\ Len(inner[r]) < OutCap /\ inner' = [inner EXCEPT ![r] = Append(@, carried[r])]
        /\ respCh' = [respCh EXCEPT ![r] = <<>>] \/ UNCHANGED respCh
      BY <1>10 DEF bridgeSends, bridgeVars, bridgeEnds
  <2>2. FitsIn(inner, OutCap)' /\ FitsIn(respCh, PendingBuf)'
      BY ZenonT(40), <1>0, <2>1, ChannelFacts
  <2> QED
      BY <2>1, <2>2
<1>11. ASSUME NEW r \in Streams, sendCancel(r) PROVE QueueInv'
  <2>1. UNCHANGED <<out, inner>> /\ respCh' = [respCh EXCEPT ![r] = <<>>]
      BY <1>11 DEF sendCancel, bridgeVars, bridgeEnds
  <2>2. FitsIn(respCh, PendingBuf)'
      BY <1>0, <2>1, ChannelFacts
  <2> QED
      BY <2>1, <2>2
<1>12. ASSUME NEW r \in Streams, consume(r) PROVE QueueInv'
  <2>1. UNCHANGED <<inner, respCh>> /\ out[r] # <<>> /\ out' = [out EXCEPT ![r] = Tail(@)]
      BY <1>12 DEF consume, wsVars
  <2>2. FitsIn(out, OutCap)'
      BY <1>0, <2>1, ChannelFacts
  <2> QED
      BY <2>1, <2>2
<1> QED
    BY <1>2, <1>3, <1>4, <1>5, <1>6, <1>7, <1>8, <1>9, <1>10, <1>11, <1>12 DEF Next
---------------------------------------------------------------------------
(* Which way a stream takes *)

StreamType ==
    /\ provider \in Providers
    /\ at \in [Streams -> {"idle", "dial", "expect", "pump", "last", "error", "closed", "broken",
                           "acquire", "connect", "write", "relay", "failed"}]
    /\ cancelled \in [Streams -> BOOLEAN] /\ closed \in [Streams -> BOOLEAN]
    /\ awaiting \in [Streams -> 0 .. 2]
    /\ sent \in [Streams -> Nat]
    /\ reading \in [Streams -> {"no", "yes", "done", "gone"}]
    /\ pending \subseteq Streams
    /\ gen \in [Streams -> 0 .. MaxConns]
    /\ bridge \in [Streams -> {"none", "receive", "send", "ended"}]

\* A stream of Cartesia passes the limiter and never pumps a connection of its
\* own; a stream of any other provider never holds a slot.
OwnWay(r) ==
    /\ at[r] = "expect" => awaiting[r] # 0
    /\ IF provider = "cartesia"
       THEN /\ at[r] \notin {"dial", "expect", "pump", "last", "error"}
            /\ hold[r] = Nothing
            /\ \E m \in 0 .. MaxChunks : sent[r] = 2 * m
       ELSE /\ at[r] \notin {"acquire", "connect", "write", "relay"}
            /\ r \notin pending
            /\ sent[r] <= MaxBytes

StreamInv == StreamType /\ \A r \in Streams : OwnWay(r)

\* Initially no stream was asked for
LEMMA StreamInitial == Init => StreamInv
<1> SUFFICES ASSUME Init PROVE StreamInv
    OBVIOUS
<1>0. MaxConns \in Nat /\ MaxBytes \in Nat /\ MaxChunks \in Nat
    BY SynthesisAssumption
<1>1. StreamType
    BY <1>0 DEF Init, StreamType
<1>2. 0 \in 0 .. MaxChunks /\ 0 = 2 * 0
    BY <1>0
<1>3. \A r \in Streams : OwnWay(r)
    BY <1>0, <1>2 DEF Init, OwnWay
<1> QED
    BY <1>1, <1>3 DEF StreamInv

\* No step takes a stream off its way
LEMMA StreamInductive == StreamInv /\ ConnInv /\ [Next]_vars => StreamInv'
<1> SUFFICES ASSUME StreamInv, ConnInv, [Next]_vars PROVE StreamInv'
    OBVIOUS
<1> USE DEF StreamInv, StreamType, OwnWay
<1>0. MaxConns \in Nat /\ MaxBytes \in Nat /\ MaxChunks \in Nat
    BY SynthesisAssumption
<1>1. CASE UNCHANGED vars
    BY <1>1 DEF vars, wsVars, streamVars
<1>2. ASSUME NEW r \in Streams, nextSentence(r) PROVE StreamInv'
    BY <1>2 DEF nextSentence, PerSentence, wsVars, streamVars
<1>3. ASSUME NEW r \in Streams, dial(r) PROVE StreamInv'
    BY <1>3 DEF dial, fail, handshake, wsVars
<1>4. ASSUME NEW r \in Streams, expect(r) PROVE StreamInv'
  <2>1. CASE /\ awaiting' = [awaiting EXCEPT ![r] = @ - 1]
             /\ at' = [at EXCEPT ![r] = IF awaiting[r] = 1 THEN "pump" ELSE "expect"]
             /\ UNCHANGED <<reading, closed>>
    <3>1. awaiting[r] \in 1 .. 2
        BY <1>4 DEF expect
    <3> QED
        BY <1>4, <2>1, <3>1 DEF expect, wsVars
  <2>2. CASE fail(r) /\ closed' = [closed EXCEPT ![r] = TRUE] /\ UNCHANGED awaiting
      BY <1>4, <2>2 DEF expect, fail, wsVars
  <2> QED
      BY <1>4, <2>1, <2>2 DEF expect
<1>5. ASSUME NEW r \in Streams, watch(r) PROVE StreamInv'
    BY <1>5 DEF watch, wsVars
<1>6. ASSUME NEW r \in Streams, readFrame(r) PROVE StreamInv'
  <2>1. provider # "cartesia" /\ at[r] = "pump"
      BY <1>6 DEF readFrame, Pumping
  <2>2. /\ UNCHANGED <<provider, cancelled, awaiting, closed, reading, wsVars>>
        /\ at' = at \/ at' = [at EXCEPT ![r] = "last"] \/ at' = [at EXCEPT ![r] = "error"]
        /\ \/ sent' = sent
           \/ \E n \in FrameSizes : sent[r] + n <= MaxBytes /\ sent' = [sent EXCEPT ![r] = @ + n]
      BY <1>6 DEF readFrame, audioFrame, endOfStream, summaryFrame, failedStream
  <2>3. FrameSizes \subseteq Nat
      BY SynthesisAssumption DEF FrameSizes
  <2> QED
      BY <1>0, <2>1, <2>2, <2>3 DEF wsVars
<1>7. ASSUME NEW r \in Streams, endOfBody(r) \/ readFails(r) PROVE StreamInv'
    BY <1>7 DEF endOfBody, readFails, endOfStream, failedStream, Pumping, wsVars
<1>8. ASSUME NEW r \in Streams, streamWhole(r) PROVE StreamInv'
    BY <1>0, <1>8 DEF streamWhole, Pumping, wsVars, streamVars
<1>9. ASSUME NEW r \in Streams, emit(r) \/ closeStream(r) PROVE StreamInv'
    BY ZenonT(40), <1>9 DEF emit, closeStream, wsVars, streamVars
<1>10. ASSUME NEW r \in Streams, acquire(r) \/ relayEnds(r) PROVE StreamInv'
  <2>1. CASE acquire(r)
      BY <2>1 DEF acquire, fail, rest, wsVars, streamVars
  <2>2. CASE relayEnds(r)
      BY <2>2 DEF relayEnds, rest, wsVars, streamVars
  <2> QED
      BY <1>10, <2>1, <2>2
<1>11. ASSUME NEW r \in Streams, relayChunk(r) PROVE StreamInv'
    BY <1>11 DEF relayChunk, rest, streamVars
<1>12. ASSUME NEW r \in Streams, ensureConnected(r) PROVE StreamInv'
    BY <1>12 DEF ensureConnected, startFails, fail, rest, streamVars
<1>13. ASSUME NEW r \in Streams, writeRequest(r) PROVE StreamInv'
    BY <1>0, <1>13 DEF writeRequest, startFails, fail, rest, streamVars, ConnInv, ConnType
<1>14. ASSUME NEW r \in Streams, bridgeReceives(r) \/ bridgeSends(r) \/ sendCancel(r)
      PROVE StreamInv'
  <2>1. /\ UNCHANGED <<rest, at, reading>>
        /\ \E b \in {"receive", "send", "ended"} : bridge' = [bridge EXCEPT ![r] = b]
        /\ pending' \subseteq pending
        /\ gen' = gen \/ gen' = [gen EXCEPT ![r] = 0]
      BY <1>14 DEF bridgeReceives, bridgeSends, sendCancel, bridgeEnds, bridgeVars
  <2> QED
      BY <1>0, <2>1 DEF rest, streamVars
<1>15. ASSUME NEW r \in Streams, consume(r) \/ abandon(r) \/ consumed(r) \/ bargeIn(r)
      PROVE StreamInv'
  <2>1. /\ UNCHANGED <<provider, at, streamVars, sent, hold, wsVars>>
        /\ cancelled' = cancelled \/ cancelled' = [cancelled EXCEPT ![r] = TRUE]
        /\ \/ reading' = reading
           \/ \E x \in {"yes", "done", "gone"} : reading' = [reading EXCEPT ![r] = x]
    <3>1. CASE consume(r)
      <4>1. PICK x \in {"yes", "gone"} : reading' = [reading EXCEPT ![r] = x]
          BY <3>1 DEF consume
      <4> QED
          BY <3>1, <4>1 DEF consume
    <3>2. CASE abandon(r) \/ consumed(r) \/ bargeIn(r)
        BY <3>2 DEF abandon, consumed, bargeIn, rest
    <3> QED
        BY <1>15, <3>1, <3>2
  <2>2. cancelled' \in [Streams -> BOOLEAN]
      BY <2>1
  <2>3. reading' \in [Streams -> {"no", "yes", "done", "gone"}]
      BY <2>1
  <2> QED
      BY <2>1, <2>2, <2>3 DEF wsVars, streamVars
<1>16. ASSUME NEW k \in Conns, connectionDrops(k) \/ notifyAllError(k) \/ readLoopEnds(k)
      PROVE StreamInv'
    BY <1>16 DEF connectionDrops, notifyAllError, readLoopEnds, rest, streamVars
<1>17. ASSUME NEW k \in Conns, readMessage(k) PROVE StreamInv'
  <2>1. PICK r \in pending : \E msg \in Messages(r) :
            /\ sent' = [sent EXCEPT ![r] = IF msg.kind = "audio" THEN @ + 2 ELSE @]
            /\ gen' = [gen EXCEPT ![r] = IF msg.kind = "audio" THEN @ ELSE 0]
      BY <1>17 DEF readMessage
  <2>2. PICK msg \in Messages(r) :
            /\ sent' = [sent EXCEPT ![r] = IF msg.kind = "audio" THEN @ + 2 ELSE @]
            /\ gen' = [gen EXCEPT ![r] = IF msg.kind = "audio" THEN @ ELSE 0]
      BY <2>1
  <2>3. UNCHANGED <<provider, at, cancelled, streamVars, hold, reading, pending, bridge>>
      BY <1>17 DEF readMessage
  <2>4. provider = "cartesia" /\ r \in Streams
      OBVIOUS
  <2>5. PICK m \in 0 .. MaxChunks : sent[r] = 2 * m
      BY <2>4
  <2>6. msg.kind = "audio" => sent[r] < 2 * MaxChunks
      BY DEF Messages
  <2>7. msg.kind = "audio" => m + 1 \in 0 .. MaxChunks /\ sent[r] + 2 = 2 * (m + 1)
      BY <1>0, <2>5, <2>6
  <2>8. StreamType'
      BY <1>0, <2>2, <2>3, <2>4 DEF streamVars
  <2>9. \E l \in 0 .. MaxChunks : sent'[r] = 2 * l
    <3>1. CASE msg.kind = "audio"
        BY <2>2, <2>4, <2>7, <3>1
    <3>2. CASE msg.kind # "audio"
        BY <2>2, <2>4, <2>5, <3>2
    <3> QED
        BY <3>1, <3>2
  <2>10. \A q \in Streams : OwnWay(q)'
      BY <2>2, <2>3, <2>4, <2>9 DEF streamVars
  <2> QED
      BY <2>8, <2>10
<1> QED
    BY <1>1, <1>2, <1>3, <1>4, <1>5, <1>6, <1>7, <1>8, <1>9, <1>10, <1>11, <1>12, <1>13,
       <1>14, <1>15, <1>16, <1>17 DEF Next

---------------------------------------------------------------------------
(* The limiter *)

\* A step takes a slot for a stream that holds none, gives back the slot of one
\* that does, or changes neither the slots nor who holds them.
TakesSlot(r) ==
    /\ r \notin Holders /\ Holders' = Holders \cup {r}
    /\ slots < Limit /\ slots' = slots + 1

ReturnsSlot(r) == r \in Holders /\ Holders' = Holders \ {r} /\ slots' = slots - 1

KeepsSlots == Holders' = Holders /\ slots' = slots

\* Whatever fails on the way, a slot and its holder go together
LEMMA SlotSteps ==
    StreamInv /\ [Next]_vars => KeepsSlots \/ \E r \in Streams : TakesSlot(r) \/ ReturnsSlot(r)
<1> SUFFICES ASSUME StreamInv, [Next]_vars
             PROVE  KeepsSlots \/ \E r \in Streams : TakesSlot(r) \/ ReturnsSlot(r)
    OBVIOUS
<1> USE DEF KeepsSlots, Holders
<1>0. /\ at \in [Streams -> {"idle", "dial", "expect", "pump", "last", "error", "closed", "broken",
                           "acquire", "connect", "write", "relay", "failed"}]
      /\ \A r \in Streams : hold[r] # Nothing => at[r] \notin {"connect", "write", "relay"}
    BY DEF StreamInv, StreamType, OwnWay
<1>1. CASE UNCHANGED vars
    BY <1>1 DEF vars
<1>2. ASSUME NEW r \in Streams,
             \/ nextSentence(r) \/ dial(r) \/ expect(r) \/ watch(r) \/ endOfBody(r)
             \/ readFails(r) \/ streamWhole(r) \/ closeStream(r)
      PROVE  KeepsSlots
    BY <1>0, <1>2 DEF nextSentence, PerSentence, dial, expect, watch, endOfBody, readFails,
        endOfStream, failedStream, streamWhole, closeStream, Pumping, fail
<1>3. ASSUME NEW r \in Streams, readFrame(r) PROVE KeepsSlots
  <2>1. /\ at[r] = "pump" /\ slots' = slots
        /\ at' = at \/ at' = [at EXCEPT ![r] = "last"] \/ at' = [at EXCEPT ![r] = "error"]
      BY <1>3 DEF readFrame, Pumping, endOfStream, summaryFrame, failedStream
  <2> QED
      BY <1>0, <2>1
<1>4. ASSUME NEW r \in Streams, emit(r) PROVE KeepsSlots
    BY <1>0, <1>4 DEF emit
<1>5. ASSUME NEW r \in Streams, acquire(r) PROVE TakesSlot(r) \/ KeepsSlots
    BY <1>0, <1>5 DEF acquire, fail, TakesSlot
<1>6. ASSUME NEW r \in Streams, relayEnds(r) PROVE ReturnsSlot(r)
    BY <1>0, <1>6 DEF relayEnds, ReturnsSlot
<1>7. ASSUME NEW r \in Streams, startFails(r), at[r] \in {"connect", "write"} PROVE ReturnsSlot(r)
    BY <1>0, <1>7 DEF startFails, fail, ReturnsSlot
<1>8. ASSUME NEW r \in Streams, ensureConnected(r) PROVE ReturnsSlot(r) \/ KeepsSlots
  <2>1. /\ at[r] = "connect"
        /\ startFails(r) \/ (at' = [at EXCEPT ![r] = "write"] /\ slots' = slots)
      BY <1>8 DEF ensureConnected
  <2> QED
      BY <1>0, <1>7, <2>1
<1>9. ASSUME NEW r \in Streams, writeRequest(r) PROVE ReturnsSlot(r) \/ KeepsSlots
  <2>1. /\ at[r] = "write"
        /\ startFails(r) \/ (at' = [at EXCEPT ![r] = "relay"] /\ slots' = slots)
      BY <1>9 DEF writeRequest
  <2> QED
      BY <1>0, <1>7, <2>1
<1>10. ASSUME NEW r \in Streams,
              \/ relayChunk(r) \/ bridgeReceives(r) \/ bridgeSends(r) \/ sendCancel(r)
              \/ consume(r) \/ abandon(r) \/ consumed(r) \/ bargeIn(r)
      PROVE  KeepsSlots
    BY <1>10 DEF relayChunk, bridgeReceives, bridgeSends, sendCancel, bridgeVars, consume,
        abandon, consumed, bargeIn
<1>11. ASSUME NEW k \in Conns,
              connectionDrops(k) \/ readMessage(k) \/ notifyAllError(k) \/ readLoopEnds(k)
      PROVE  KeepsSlots
    BY <1>11 DEF connectionDrops, readMessage, notifyAllError, readLoopEnds
<1> QED
    BY <1>1, <1>2, <1>3, <1>4, <1>5, <1>6, <1>8, <1>9, <1>10, <1>11 DEF Next

SlotInv == slots \in 0 .. Limit /\ slots = Cardinality(Holders)

\* The count of the slots stays the number of their holders
LEMMA SlotInductive == SlotInv /\ StreamInv /\ [Next]_vars => SlotInv'
<1> SUFFICES ASSUME SlotInv, StreamInv, [Next]_vars PROVE SlotInv'
    OBVIOUS
<1>0. Limit \in Nat /\ MaxStreams \in Nat
    BY SynthesisAssumption
<1>1. IsFiniteSet(Holders)
  <2>1. IsFiniteSet(Streams)
      BY <1>0, FS_Interval DEF Streams
  <2> QED
      BY <2>1, FS_Subset DEF Holders
<1>2. Cardinality(Holders) \in Nat
    BY <1>1, FS_CardinalityType
<1>3. CASE KeepsSlots
    BY <1>3 DEF SlotInv, KeepsSlots
<1>4. ASSUME NEW r \in Streams, TakesSlot(r) PROVE SlotInv'
  <2>1. Cardinality(Holders \cup {r}) = Cardinality(Holders) + 1
      BY <1>1, <1>4, FS_AddElement DEF TakesSlot
  <2> QED
      BY <1>0, <1>4, <2>1 DEF SlotInv, TakesSlot
<1>5. ASSUME NEW r \in Streams, ReturnsSlot(r) PROVE SlotInv'
  <2>1. Cardinality(Holders \ {r}) = Cardinality(Holders) - 1
      BY <1>1, <1>5, FS_RemoveElement DEF ReturnsSlot
  <2>2. Cardinality(Holders) # 0
      BY <1>1, <1>5, FS_EmptySet DEF ReturnsSlot
  <2> QED
      BY <1>0, <1>2, <1>5, <2>1, <2>2 DEF SlotInv, ReturnsSlot
<1> QED
    BY <1>3, <1>4, <1>5, SlotSteps

LimiterInv == ConnInv /\ QueueInv /\ StreamInv /\ SlotInv

\* The bound on the bytes of a sentence, whoever synthesises it
LEMMA SentBound ==
    ASSUME StreamInv
    PROVE  sent \in [Streams -> 0 .. Max({MaxBytes, 2 * MaxChunks})]
<1>0. MaxBytes \in Nat /\ MaxChunks \in Nat
    BY SynthesisAssumption
<1> DEFINE top == Max({MaxBytes, 2 * MaxChunks})
<1>1. top \in Nat /\ MaxBytes <= top /\ 2 * MaxChunks <= top
  <2>1. ASSUME NEW a \in Nat, NEW b \in Nat
        PROVE  Max({a, b}) \in Nat /\ a <= Max({a, b}) /\ b <= Max({a, b})
      BY DEF Max
  <2>2. 2 * MaxChunks \in Nat
      BY <1>0
  <2> QED
      BY <1>0, <2>1, <2>2
<1> HIDE DEF top
<1>2. ASSUME NEW r \in Streams PROVE sent[r] \in 0 .. top
    BY <1>0, <1>1, <1>2 DEF StreamInv, StreamType, OwnWay
<1> QED
    BY <1>2 DEF StreamInv, StreamType, top

\* The limiter's slots are exactly the streams that are starting or relayed: an
\* acquire given up, a failed dial, a failed write, the end of the service's
\* audio and a barge-in each return the slot they hold, once (limitedStream).
THEOREM LimiterCorrect == Spec => []SlotsHeld
<1>1. Init => LimiterInv
  <2> SUFFICES ASSUME Init PROVE LimiterInv
      OBVIOUS
  <2>1. Holders = {}
      BY DEF Init, Holders
  <2>2. SlotInv
      BY <2>1, FS_EmptySet, SynthesisAssumption DEF Init, SlotInv
  <2> QED
      BY <2>2, ConnInitial, QueueInitial, StreamInitial DEF LimiterInv
<1>2. LimiterInv /\ [Next]_vars => LimiterInv'
  <2>1. StreamInv => pending \subseteq Streams
      BY DEF StreamInv, StreamType
  <2> QED
      BY <2>1, ConnInductive, QueueInductive, StreamInductive, SlotInductive DEF LimiterInv
<1>3. LimiterInv => SlotsHeld
  <2> SUFFICES ASSUME LimiterInv PROVE SlotsHeld
      OBVIOUS
  <2>1. sent \in [Streams -> 0 .. Max({MaxBytes, 2 * MaxChunks})]
      BY SentBound DEF LimiterInv
  <2>2. TypeOK
      BY <2>1 DEF LimiterInv, ConnInv, ConnType, QueueInv, FitsIn, StreamInv, StreamType,
          SlotInv, TypeOK
  <2> QED
      BY <2>2 DEF LimiterInv, SlotInv, SlotsHeld
<1> QED
    BY <1>1, <1>2, <1>3, PTL DEF Spec, Safety

---------------------------------------------------------------------------
(* Pieces of audio *)

Sounds == Int \cup (Int \X Int)

\* s is how t starts
Starts(s, t) == \E u \in Seq(Sounds) : t = s \o u

\* Longer and longer starts, and what the module SequencesExt calls a prefix
LEMMA StartFacts ==
    ASSUME NEW a \in Seq(Sounds), NEW b \in Seq(Sounds), NEW c \in Seq(Sounds)
    PROVE  /\ a \o b \in Seq(Sounds) /\ Starts(a, a) /\ Starts(a, a \o b)
           /\ Starts(a, b) /\ Starts(b, c) => Starts(a, c)
           /\ Starts(a, b) => IsPrefix(a, b)
<1>1. a \o b \in Seq(Sounds) /\ <<>> \in Seq(Sounds) /\ a \o <<>> = a
    BY Joined
<1>2. Starts(a, a) /\ Starts(a, a \o b)
    BY <1>1 DEF Starts
<1>3. ASSUME Starts(a, b), Starts(b, c) PROVE Starts(a, c)
  <2>1. PICK u \in Seq(Sounds) : b = a \o u
      BY <1>3 DEF Starts
  <2>2. PICK v \in Seq(Sounds) : c = b \o v
      BY <1>3 DEF Starts
  <2>3. c = a \o (u \o v) /\ u \o v \in Seq(Sounds)
      BY <2>1, <2>2, Joined
  <2> QED
      BY <2>3 DEF Starts
<1>4. ASSUME Starts(a, b) PROVE IsPrefix(a, b)
  <2>1. PICK u \in Seq(Sounds) : b = a \o u
      BY <1>4 DEF Starts
  <2>2. /\ Len(a) \in Nat /\ Len(u) \in Nat /\ Len(b) = Len(a) + Len(u)
        /\ \A i \in 1 .. Len(a) : b[i] = a[i] /\ a[i] \in Sounds
      BY <2>1
  <2>3. SubSeq(a, 1, Len(a)) = SubSeq(b, 1, Len(a))
    <3> DEFINE x == SubSeq(a, 1, Len(a))
               y == SubSeq(b, 1, Len(a))
    <3>1. /\ x \in Seq(Sounds) /\ Len(x) = Len(a)
          /\ \A i \in 1 .. Len(a) : x[i] = a[i]
        BY <2>2
    <3>2. /\ y \in Seq(Sounds) /\ Len(y) = Len(a)
          /\ \A i \in 1 .. Len(a) : y[i] = b[i]
        BY <2>2
    <3> HIDE DEF x, y
    <3>3. \A i \in 1 .. Len(x) : x[i] = y[i]
        BY <2>2, <3>1, <3>2
    <3>4. x = y
        BY <3>1, <3>2, <3>3, SeqEqual
    <3> QED
        BY <3>4 DEF x, y
  <2> QED
      BY <2>2, <2>3 DEF IsPrefix
<1> QED
    BY <1>1, <1>2, <1>3, <1>4

\* The audio in a channel
Queued(q) == FlattenSeq([i \in DOMAIN q |-> q[i].pcm])

\* A channel gains its audio at the end and loses it at the front
LEMMA QueuedFacts ==
    ASSUME NEW S, \A x \in S : x.pcm \in Seq(Sounds), NEW q \in Seq(S)
    PROVE  /\ Queued(q) \in Seq(Sounds)
           /\ q = <<>> => Queued(q) = <<>>
           /\ \A x \in S : Queued(Append(q, x)) = Queued(q) \o x.pcm
           /\ q # <<>> => Head(q) \in S /\ Tail(q) \in Seq(S) /\ Queued(q) = Head(q).pcm \o Queued(Tail(q))
<1> DEFINE T(s) == [i \in DOMAIN s |-> s[i].pcm]
<1>2. ASSUME NEW s \in Seq(S)
      PROVE  /\ T(s) \in Seq(Seq(Sounds)) /\ Len(T(s)) = Len(s)
             /\ \A i \in 1 .. Len(s) : T(s)[i] = s[i].pcm
  <2>1. DOMAIN s = 1 .. Len(s) /\ Len(s) \in Nat /\ \A i \in 1 .. Len(s) : s[i] \in S
      OBVIOUS
  <2>2. \A i \in 1 .. Len(s) : s[i].pcm \in Seq(Sounds)
      BY <2>1
  <2>3. T(s) = [i \in 1 .. Len(s) |-> s[i].pcm]
      BY <2>1
  <2> QED
      BY <2>1, <2>2, <2>3
<1>3. T(q) \in Seq(Seq(Sounds)) /\ <<>> \in Seq(Sounds)
  <2>1. T(q) \in Seq(Seq(Sounds))
      BY <1>2
  <2>2. <<>> \in Seq(Sounds)
      BY EmptySeq
  <2> QED
      BY <2>1, <2>2
<1>4. Queued(q) \in Seq(Sounds) /\ (q = <<>> => Queued(q) = <<>>)
  <2>1. q = <<>> => T(q) = <<>>
    <3>1. q = <<>> => Len(T(q)) = 0
        BY <1>2
    <3> QED
        BY <1>3, <3>1, EmptySeq
  <2> HIDE DEF T
  <2>2. FlattenSeq(T(q)) \in Seq(Sounds) /\ (T(q) = <<>> => FlattenSeq(T(q)) = <<>>)
      BY <1>3, FlattenAppend
  <2> QED
      BY <2>1, <2>2 DEF Queued, T
<1>5. ASSUME NEW x \in S PROVE Queued(Append(q, x)) = Queued(q) \o x.pcm
  <2> DEFINE a == Append(q, x)
  <2>1. a \in Seq(S) /\ Len(a) = Len(q) + 1 /\ Len(q) \in Nat /\ a[Len(q) + 1] = x
        /\ \A i \in 1 .. Len(q) : a[i] = q[i]
      OBVIOUS
  <2> HIDE DEF a
  <2>2. T(a) = Append(T(q), x.pcm)
    <3> DEFINE u == T(a)
               v == Append(T(q), x.pcm)
    <3>1. u \in Seq(Seq(Sounds)) /\ Len(u) = Len(q) + 1 /\ \A i \in 1 .. Len(q) + 1 : u[i] = a[i].pcm
        BY <1>2, <2>1
    <3>2. T(q) \in Seq(Seq(Sounds)) /\ Len(T(q)) = Len(q) /\ \A i \in 1 .. Len(q) : T(q)[i] = q[i].pcm
        BY <1>2
    <3> HIDE DEF T
    <3>3. /\ v \in Seq(Seq(Sounds)) /\ Len(v) = Len(q) + 1 /\ v[Len(q) + 1] = x.pcm
          /\ \A i \in 1 .. Len(q) : v[i] = q[i].pcm
      <4>1. x.pcm \in Seq(Sounds)
          OBVIOUS
      <4> DEFINE tq == T(q)
                 xp == x.pcm
      <4> HIDE DEF tq, xp
      <4>2. /\ Append(tq, xp) \in Seq(Seq(Sounds)) /\ Len(Append(tq, xp)) = Len(tq) + 1
            /\ Append(tq, xp)[Len(tq) + 1] = xp
            /\ \A i \in 1 .. Len(tq) : Append(tq, xp)[i] = tq[i]
          BY <3>2, <4>1, AppendProperties DEF tq, xp
      <4> QED
          BY <3>2, <4>2 DEF tq, xp
    <3> HIDE DEF u, v
    <3>4. ASSUME NEW i \in 1 .. Len(u) PROVE u[i] = v[i]
      <4>1. i = Len(q) + 1 \/ i \in 1 .. Len(q)
          BY <2>1, <3>1
      <4> QED
          BY <2>1, <3>1, <3>3, <4>1
    <3>5. u = v
        BY <3>1, <3>3, <3>4, SeqEqual
    <3> QED
        BY <3>5 DEF u, v
  <2> HIDE DEF T
  <2>3. FlattenSeq(Append(T(q), x.pcm)) = FlattenSeq(T(q)) \o x.pcm
      BY <1>3, FlattenAppend
  <2> QED
      BY <2>2, <2>3 DEF Queued, T, a
<1>6. ASSUME q # <<>>
      PROVE  Head(q) \in S /\ Tail(q) \in Seq(S) /\ Queued(q) = Head(q).pcm \o Queued(Tail(q))
  <2> DEFINE a == Tail(q)
  <2>1. a \in Seq(S) /\ Len(a) = Len(q) - 1 /\ Head(q) \in S
        /\ \A i \in 1 .. Len(a) : a[i] = q[i + 1]
      BY <1>6, HeadTailProperties
  <2>2. Len(q) \in Nat /\ Len(q) >= 1 /\ Head(q) = q[1]
      BY <1>6
  <2> HIDE DEF a
  <2>3. T(q) # <<>> /\ Head(T(q)) = Head(q).pcm /\ Tail(T(q)) = T(a)
    <3> DEFINE u == T(q)
               v == T(a)
    <3>1. u \in Seq(Seq(Sounds)) /\ Len(u) = Len(q) /\ \A i \in 1 .. Len(q) : u[i] = q[i].pcm
        BY <1>2
    <3>2. v \in Seq(Seq(Sounds)) /\ Len(v) = Len(a) /\ \A i \in 1 .. Len(a) : v[i] = a[i].pcm
        BY <1>2, <2>1
    <3> HIDE DEF u, v
    <3>3. u # <<>> /\ Head(u) = u[1]
        BY <2>2, <3>1
    <3>4. Tail(u) \in Seq(Seq(Sounds)) /\ Len(Tail(u)) = Len(u) - 1 /\ \A i \in 1 .. Len(Tail(u)) : Tail(u)[i] = u[i + 1]
        BY <3>1, <3>3, HeadTailProperties
    <3>5. Len(Tail(u)) = Len(v)
        BY <2>1, <3>1, <3>2, <3>4
    <3>6. ASSUME NEW i \in 1 .. Len(Tail(u)) PROVE Tail(u)[i] = v[i]
      <4>1. i \in 1 .. Len(a) /\ i + 1 \in 1 .. Len(q)
          BY <2>1, <2>2, <3>2, <3>5
      <4> QED
          BY <2>1, <3>1, <3>2, <3>4, <4>1
    <3>7. Tail(u) = v
        BY <3>2, <3>4, <3>5, <3>6, SeqEqual
    <3>8. Head(u) = Head(q).pcm
        BY <2>2, <3>1, <3>3
    <3> QED
        BY <3>3, <3>7, <3>8 DEF u, v
  <2> HIDE DEF T
  <2>4. FlattenSeq(T(q)) = Head(T(q)) \o FlattenSeq(Tail(T(q)))
      BY <1>3, <2>3, FlattenTail
  <2> QED
      BY <2>1, <2>3, <2>4 DEF Queued, T, a
<1> QED
    BY <1>4, <1>5, <1>6

\* The positions of l bytes from a on
Run(x, a, l) ==
    /\ a \in Nat /\ l \in Nat
    /\ x \in Seq(Sounds) /\ Len(x) = l /\ \A i \in 1 .. l : x[i] = a + i - 1

\* The bytes from one number to another are consecutive
LEMMA BytesRun ==
    ASSUME NEW a \in Nat, NEW b \in Nat, a <= b + 1
    PROVE  Run(Bytes(a, b), a, b - a + 1)
<1>1. b - a + 1 \in Nat
    OBVIOUS
<1>2. \A i \in 1 .. b - a + 1 : a + i - 1 \in Sounds
    BY DEF Sounds
<1> QED
    BY <1>1, <1>2 DEF Bytes, Run

\* Two runs from the same byte and of the same length are one
LEMMA SameRun ==
    ASSUME NEW x, NEW y, NEW a, NEW l, Run(x, a, l), Run(y, a, l)
    PROVE  x = y
<1>1. x \in Seq(Sounds) /\ y \in Seq(Sounds) /\ Len(x) = Len(y) /\ \A i \in 1 .. Len(x) : x[i] = y[i]
    BY DEF Run
<1> QED
    BY <1>1, SeqEqual

\* A run followed by the run that continues it
LEMMA RunJoin ==
    ASSUME NEW x, NEW y, NEW a, NEW l, NEW b, NEW m, Run(x, a, l), Run(y, b, m), b = a + l
    PROVE  Run(x \o y, a, l + m)
<1>1. /\ a \in Nat /\ l \in Nat /\ m \in Nat
      /\ x \in Seq(Sounds) /\ Len(x) = l /\ \A i \in 1 .. l : x[i] = a + i - 1
      /\ y \in Seq(Sounds) /\ Len(y) = m /\ \A i \in 1 .. m : y[i] = b + i - 1
    BY DEF Run
<1>2. /\ x \o y \in Seq(Sounds) /\ Len(x \o y) = Len(x) + Len(y)
      /\ \A i \in 1 .. Len(x) + Len(y) : (x \o y)[i] = IF i <= Len(x) THEN x[i] ELSE y[i - Len(x)]
    BY <1>1, ConcatProperties
<1>3. ASSUME NEW i \in 1 .. l + m PROVE (x \o y)[i] = a + i - 1
  <2>1. CASE i <= l
    <3>1. i \in 1 .. l
        BY <1>1, <2>1
    <3> QED
        BY <1>1, <1>2, <2>1, <3>1
  <2>2. CASE ~(i <= l)
    <3>1. i - l \in 1 .. m /\ b + (i - l) - 1 = a + i - 1
        BY <1>1, <2>2
    <3>2. (x \o y)[i] = y[i - l]
        BY <1>1, <1>2, <2>2
    <3> QED
        BY <1>1, <3>1, <3>2
  <2> QED
      BY <2>1, <2>2
<1>4. l + m \in Nat
    BY <1>1
<1> QED
    BY <1>1, <1>2, <1>3, <1>4 DEF Run

\* A run cut in two
LEMMA RunCut ==
    ASSUME NEW w, NEW a, NEW l, Run(w, a, l), NEW k \in 0 .. l
    PROVE  /\ Run(SubSeq(w, 1, k), a, k)
           /\ Run(SubSeq(w, k + 1, l), a + k, l - k)
<1>1. /\ a \in Nat /\ l \in Nat /\ w \in Seq(Sounds) /\ Len(w) = l
      /\ \A i \in 1 .. l : w[i] = a + i - 1 /\ w[i] \in Sounds
    BY DEF Run
<1>2. Run(SubSeq(w, 1, k), a, k)
  <2> DEFINE x == SubSeq(w, 1, k)
  <2>1. \A i \in 1 .. k : w[i] \in Sounds /\ w[i] = a + i - 1
      BY <1>1
  <2>2. /\ x \in Seq(Sounds) /\ Len(x) = IF 1 <= k THEN k - 1 + 1 ELSE 0
        /\ \A i \in 1 .. k - 1 + 1 : x[i] = w[1 + i - 1]
      BY <1>1, <2>1, SubSeqProperties
  <2> HIDE DEF x
  <2>3. k \in Nat /\ (IF 1 <= k THEN k - 1 + 1 ELSE 0) = k
      BY <1>1
  <2>4. ASSUME NEW i \in 1 .. k PROVE x[i] = a + i - 1
    <3>1. i \in 1 .. k - 1 + 1 /\ 1 + i - 1 = i
        BY <2>3
    <3> QED
        BY <2>1, <2>2, <3>1
  <2>5. Run(x, a, k)
      BY <1>1, <2>2, <2>3, <2>4 DEF Run
  <2> QED
      BY <2>5 DEF x
<1>3. Run(SubSeq(w, k + 1, l), a + k, l - k)
  <2> DEFINE x == SubSeq(w, k + 1, l)
  <2>1. \A i \in k + 1 .. l : w[i] \in Sounds
      BY <1>1
  <2>2. /\ x \in Seq(Sounds) /\ Len(x) = IF k + 1 <= l THEN l - (k + 1) + 1 ELSE 0
        /\ \A i \in 1 .. l - (k + 1) + 1 : x[i] = w[(k + 1) + i - 1]
    <3>1. k + 1 \in Int /\ l \in Int
        BY <1>1
    <3> QED
        BY <2>1, <3>1, SubSeqProperties
  <2> HIDE DEF x
  <2>3. k \in Nat /\ (IF k + 1 <= l THEN l - (k + 1) + 1 ELSE 0) = l - k /\ l - k \in Nat /\ a + k \in Nat
      BY <1>1
  <2>4. ASSUME NEW i \in 1 .. l - k PROVE x[i] = a + k + i - 1
    <3>1. i \in 1 .. l - (k + 1) + 1 /\ (k + 1) + i - 1 \in 1 .. l /\ a + ((k + 1) + i - 1) - 1 = a + k + i - 1
        BY <1>1, <2>3
    <3> QED
        BY <1>1, <2>2, <3>1
  <2>5. Run(x, a + k, l - k)
      BY <1>1, <2>2, <2>3, <2>4 DEF Run
  <2> QED
      BY <2>5 DEF x
<1> QED
    BY <1>2, <1>3

\* An even part is at most one short of the whole
LEMMA EvenFacts ==
    ASSUME NEW n \in Nat
    PROVE  /\ Even(n) \in Nat /\ Even(n) <= n /\ n <= Even(n) + 1 /\ Even(Even(n)) = Even(n)
           /\ \A m \in Nat : /\ Even(n) <= Even(n + m)
                             /\ Even(n + m - Even(n)) = Even(n + m) - Even(n)
                             /\ Even(Even(n + m) - Even(n)) = Even(n + m) - Even(n)
           /\ \A m \in Nat : m % 2 = 0 => Even(m) = m /\ (Even(n) = n => Even(n + m) = n + m)
    BY DEF Even

\* What pcmAligner carries over is the half sample at the end of what arrived
Carried(n) == Bytes(Even(n) + 1, n)

\* The aligner: whatever the sizes of the chunks, the samples it lets through
\* follow the last one, and it keeps back the odd byte
LEMMA TakeFacts ==
    ASSUME NEW s \in Nat, NEW n \in Nat
    PROVE  LET t == take(Carried(s), Bytes(s + 1, s + n)) IN
           /\ t.carry = Carried(s + n)
           /\ t.pcm \in Seq(Sounds) /\ t.carry \in Seq(Sounds)
           /\ Even(Len(t.pcm)) = Len(t.pcm)
           /\ Bytes(1, Even(s)) \o t.pcm = Bytes(1, Even(s + n))
<1> DEFINE z == s + n
           e == Even(s)
           f == Even(z)
           c == Carried(s)
           b == Bytes(s + 1, z)
           all == c \o b
           k == f - e
           p == SubSeq(all, 1, k)
           q == SubSeq(all, k + 1, z - e)
<1>0. z \in Nat /\ s <= z /\ z - s = n
    OBVIOUS
<1>1. /\ e \in Nat /\ e <= s /\ e <= f /\ Even(z - e) = k /\ Even(k) = k
  <2>1. /\ Even(s) \in Nat /\ Even(s) <= s /\ Even(s) <= Even(s + n)
        /\ Even(s + n - Even(s)) = Even(s + n) - Even(s)
        /\ Even(Even(s + n) - Even(s)) = Even(s + n) - Even(s)
      BY EvenFacts
  <2> QED
      BY <2>1
<1> HIDE DEF z
<1>2. f \in Nat /\ f <= z
    BY <1>0, EvenFacts
<1>3. Run(c, e + 1, s - e)
  <2> HIDE DEF e
  <2>1. e + 1 \in Nat /\ e + 1 <= s + 1 /\ s - (e + 1) + 1 = s - e
      BY <1>1
  <2>2. Run(Bytes(e + 1, s), e + 1, s - (e + 1) + 1)
      BY <2>1, BytesRun
  <2> QED
      BY <2>1, <2>2 DEF Carried, e
<1> HIDE DEF c, e, f
<1>4. Run(b, s + 1, z - s)
  <2>1. s + 1 \in Nat /\ s + 1 <= z + 1 /\ z - (s + 1) + 1 = z - s
      BY <1>0
  <2>2. Run(Bytes(s + 1, z), s + 1, z - (s + 1) + 1)
      BY <1>0, <2>1, BytesRun
  <2> QED
      BY <2>1, <2>2
<1> HIDE DEF b
<1>5. Run(all, e + 1, z - e)
  <2>1. s + 1 = (e + 1) + (s - e) /\ (s - e) + (z - s) = z - e
      BY <1>0, <1>1
  <2>2. Run(all, e + 1, (s - e) + (z - s))
      BY <1>3, <1>4, <2>1, RunJoin
  <2> QED
      BY <2>1, <2>2
<1>6. Len(all) = z - e
    BY <1>5 DEF Run
<1> HIDE DEF all
<1>7. k \in 0 .. z - e /\ k \in Nat
    BY <1>0, <1>1, <1>2
<1>8. Run(p, e + 1, k) /\ Run(q, e + 1 + k, z - e - k)
  <2> HIDE DEF k
  <2> QED
      BY <1>5, <1>7, RunCut
<1> HIDE DEF p, q
<1>9. q = Carried(z)
  <2>1. f + 1 \in Nat /\ f + 1 <= z + 1 /\ z - (f + 1) + 1 = z - e - k /\ f + 1 = e + 1 + k
      BY <1>0, <1>1, <1>2
  <2>2. Run(Bytes(f + 1, z), f + 1, z - (f + 1) + 1)
      BY <1>0, <2>1, BytesRun
  <2>3. Run(Bytes(f + 1, z), e + 1 + k, z - e - k)
      BY <2>1, <2>2
  <2> DEFINE y == Bytes(f + 1, z)
  <2> HIDE DEF y, k
  <2>4. Run(y, e + 1 + k, z - e - k)
      BY <2>3 DEF y
  <2>5. q = y
      BY <1>8, <2>4, SameRun
  <2> QED
      BY <2>5 DEF y, Carried, f
<1>10. Bytes(1, e) \o p = Bytes(1, f)
  <2> DEFINE x == Bytes(1, e)
             y == Bytes(1, f)
  <2>1. Run(x, 1, e - 1 + 1) /\ Run(y, 1, f - 1 + 1)
    <3>1. 1 <= e + 1 /\ 1 <= f + 1 /\ 1 \in Nat
        BY <1>1, <1>2
    <3> QED
        BY <1>1, <1>2, <3>1, BytesRun
  <2> HIDE DEF x, y
  <2>2. e - 1 + 1 = e /\ f - 1 + 1 = f /\ e + k = f /\ e + 1 = 1 + e
      BY <1>1, <1>2
  <2> HIDE DEF k
  <2>3. Run(x, 1, e) /\ Run(y, 1, f)
      BY <2>1, <2>2
  <2>4. Run(x \o p, 1, e + k)
      BY <1>8, <2>2, <2>3, RunJoin
  <2>5. x \o p = y
    <3> DEFINE w == x \o p
    <3> HIDE DEF w
    <3>1. Run(w, 1, f)
        BY <2>2, <2>4 DEF w
    <3>2. w = y
        BY <2>3, <3>1, SameRun
    <3> QED
        BY <3>2 DEF w
  <2> QED
      BY <2>5 DEF x, y
<1>11. take(c, b) = [pcm |-> p, carry |-> q]
  <2>1. take(c, b) = [pcm |-> SubSeq(all, 1, Even(Len(all))),
                      carry |-> SubSeq(all, Even(Len(all)) + 1, Len(all))]
      BY DEF take, all
  <2> HIDE DEF k
  <2> QED
      BY <1>1, <1>6, <2>1 DEF p, q
<1>12. p \in Seq(Sounds) /\ Len(p) = k /\ q \in Seq(Sounds)
    BY <1>8 DEF Run
<1>13. Even(Len(p)) = Len(p)
    BY <1>1, <1>12
<1>14. take(c, b).pcm = p /\ take(c, b).carry = q
    BY <1>11
<1> HIDE DEF k
<1> QED
    BY Zenon, <1>9, <1>10, <1>12, <1>13, <1>14 DEF c, b, e, f, z

---------------------------------------------------------------------------
(* The resampler *)

\* The greater and the smaller of two
LEMMA TwoFacts ==
    ASSUME NEW a \in Int, NEW b \in Int
    PROVE  Max({a, b}) = (IF a >= b THEN a ELSE b) /\ Min({a, b}) = (IF a <= b THEN a ELSE b)
<1>1. ASSUME NEW m \in {a, b}, \A x \in {a, b} : m >= x PROVE Max({a, b}) = m
    BY <1>1 DEF Max
<1>2. ASSUME NEW m \in {a, b}, \A x \in {a, b} : m <= x PROVE Min({a, b}) = m
    BY <1>2 DEF Min
<1>3. CASE a >= b
    BY <1>1, <1>2, <1>3
<1>4. CASE ~(a >= b)
    BY <1>1, <1>2, <1>4
<1> QED
    BY <1>3, <1>4

\* Where the window of an output sample lies
LEMMA WindowFacts ==
    ASSUME NEW m \in Nat
    PROVE  /\ center(m) \in Nat /\ center(m) \div 2 \in Nat /\ windowLo(m) \in Nat
           /\ (center(m) - Taps + 1) \div 2 \in Int /\ (center(m) - Taps + 1) \div 2 <= windowLo(m)
           /\ \A k \in Nat : m <= k => windowLo(m) <= windowLo(k) /\ center(m) \div 2 <= center(k) \div 2
<1>0. Taps \in Nat /\ Taps >= 1
    BY SynthesisAssumption
<1>1. half \in Nat
    BY <1>0 DEF half
<1> DEFINE keep(x) == (center(x) - Taps + 1) \div 2
<1>2. ASSUME NEW x \in Nat
      PROVE  /\ center(x) \in Nat /\ center(x) \div 2 \in Nat /\ keep(x) \in Int
             /\ windowLo(x) = IF 0 >= keep(x) THEN 0 ELSE keep(x)
  <2>1. center(x) \in Nat
      BY <1>1 DEF center
  <2> HIDE DEF center
  <2>2. center(x) \div 2 \in Nat /\ keep(x) \in Int
      BY <1>0, <2>1
  <2> HIDE DEF keep
  <2>3. windowLo(x) = Max({0, keep(x)})
      BY DEF windowLo, keep
  <2> QED
      BY <2>1, <2>2, <2>3, TwoFacts
<1>3. ASSUME NEW k \in Nat, m <= k PROVE keep(m) <= keep(k) /\ center(m) \div 2 <= center(k) \div 2
  <2>1. center(m) <= center(k)
      BY <1>1, <1>3 DEF center
  <2>2. center(m) \in Nat /\ center(k) \in Nat
      BY <1>2
  <2> HIDE DEF center
  <2>3. \A a, b \in Int : a <= b => a \div 2 <= b \div 2
      OBVIOUS
  <2>4. center(m) - Taps + 1 \in Int /\ center(k) - Taps + 1 \in Int
        /\ center(m) - Taps + 1 <= center(k) - Taps + 1
      BY <1>0, <2>1, <2>2
  <2> QED
      BY <2>1, <2>2, <2>3, <2>4
<1>4. center(m) \in Nat /\ center(m) \div 2 \in Nat /\ keep(m) \in Int
      /\ windowLo(m) = IF 0 >= keep(m) THEN 0 ELSE keep(m)
    BY <1>2
<1>5. \A k \in Nat : keep(k) \in Int /\ windowLo(k) = IF 0 >= keep(k) THEN 0 ELSE keep(k)
    BY <1>2
<1>6. /\ windowLo(m) \in Nat /\ keep(m) <= windowLo(m)
  <2> HIDE DEF keep
  <2> QED
      BY <1>4
<1>7. ASSUME NEW k \in Nat, m <= k PROVE windowLo(m) <= windowLo(k) /\ center(m) \div 2 <= center(k) \div 2
  <2>1. keep(m) <= keep(k) /\ center(m) \div 2 <= center(k) \div 2
      BY <1>3, <1>7
  <2> HIDE DEF keep
  <2> QED
      BY <1>4, <1>5, <2>1
<1> QED
    BY <1>4, <1>6, <1>7

\* Two sequences make the third when its elements are theirs
LEMMA JoinIs ==
    ASSUME NEW S, NEW x \in Seq(S), NEW y \in Seq(S), NEW w \in Seq(S), Len(w) = Len(x) + Len(y),
           \A i \in 1 .. Len(x) : w[i] = x[i], \A i \in 1 .. Len(y) : w[Len(x) + i] = y[i]
    PROVE  x \o y = w
<1>1. /\ x \o y \in Seq(S) /\ Len(x \o y) = Len(x) + Len(y) /\ Len(x) \in Nat /\ Len(y) \in Nat
      /\ \A i \in 1 .. Len(x) + Len(y) : (x \o y)[i] = IF i <= Len(x) THEN x[i] ELSE y[i - Len(x)]
  <2>1. Len(x) \in Nat /\ Len(y) \in Nat
      OBVIOUS
  <2> QED
      BY <2>1, ConcatProperties
<1>2. ASSUME NEW i \in 1 .. Len(x \o y) PROVE (x \o y)[i] = w[i]
  <2>1. CASE i <= Len(x)
    <3>1. i \in 1 .. Len(x) /\ i \in 1 .. Len(x) + Len(y)
        BY <1>1, <2>1
    <3> QED
        BY <1>1, <2>1, <3>1
  <2>2. CASE ~(i <= Len(x))
    <3>1. i - Len(x) \in 1 .. Len(y) /\ Len(x) + (i - Len(x)) = i /\ i \in 1 .. Len(x) + Len(y)
        BY <1>1, <2>2
    <3> QED
        BY <1>1, <2>2, <3>1
  <2> QED
      BY <2>1, <2>2
<1> QED
    BY <1>1, <1>2, SeqEqual

\* The input samples of the output samples, all of them there; and of the first
\* k outputs of an input of n samples
Windows(m) == [i \in 1 .. m |-> <<windowLo(i - 1), center(i - 1) \div 2>>]
Window(n, j) == <<windowLo(j), Min({center(j) \div 2, n - 1})>>
Windowed(n, k) == [i \in 1 .. k |-> Window(n, i - 1)]

\* f is the outputs from the m-th on, up to the k-th
Outputs(f, n, m, k) == f = [i \in 1 .. k - m |-> Window(n, m + i - 1)]

\* More outputs behind those made so far
LEMMA WindowsJoin ==
    ASSUME NEW n \in Int, NEW m \in Nat, NEW k \in Nat, m <= k, NEW f, Outputs(f, n, m, k)
    PROVE  /\ f \in Seq(Sounds) /\ Windowed(n, m) \in Seq(Sounds) /\ Windowed(n, k) \in Seq(Sounds)
           /\ Windowed(n, m) \o f = Windowed(n, k)
<1>1. ASSUME NEW j \in Nat PROVE Window(n, j) \in Sounds
  <2>0. windowLo(j) \in Nat /\ center(j) \div 2 \in Nat
      BY WindowFacts
  <2>1. windowLo(j) \in Int /\ center(j) \div 2 \in Int
    <3>1. \A x \in Nat : x \in Int
        OBVIOUS
    <3> QED
        BY <2>0, <3>1
  <2>2. Min({center(j) \div 2, n - 1}) \in Int
    <3> DEFINE a == center(j) \div 2
               b == n - 1
    <3>1. a \in Int /\ b \in Int
        BY <2>1
    <3> HIDE DEF a, b
    <3>2. Min({a, b}) = IF a <= b THEN a ELSE b
        BY <3>1, TwoFacts
    <3>3. Min({a, b}) \in Int
        BY <3>1, <3>2
    <3> QED
        BY <3>3 DEF a, b
  <2> QED
      BY <2>1, <2>2 DEF Window, Sounds
<1> HIDE DEF Window
<1>2. ASSUME NEW l \in Nat
      PROVE  /\ Windowed(n, l) \in Seq(Sounds) /\ Len(Windowed(n, l)) = l
             /\ \A i \in 1 .. l : Windowed(n, l)[i] = Window(n, i - 1)
  <2>1. \A i \in 1 .. l : Window(n, i - 1) \in Sounds
      BY <1>1
  <2> QED
      BY <2>1 DEF Windowed
<1>3. f \in Seq(Sounds) /\ Len(f) = k - m /\ \A i \in 1 .. k - m : f[i] = Window(n, m + i - 1)
  <2>1. k - m \in Nat /\ \A i \in 1 .. k - m : Window(n, m + i - 1) \in Sounds
      BY <1>1
  <2> QED
      BY <2>1 DEF Outputs
<1> DEFINE x == Windowed(n, m)
           w == Windowed(n, k)
<1>4. x \in Seq(Sounds) /\ Len(x) = m /\ \A i \in 1 .. m : x[i] = Window(n, i - 1)
    BY <1>2
<1>5. w \in Seq(Sounds) /\ Len(w) = k /\ \A i \in 1 .. k : w[i] = Window(n, i - 1)
    BY <1>2
<1> HIDE DEF x, w
<1>6. Len(w) = Len(x) + Len(f)
    BY <1>3, <1>4, <1>5
<1>7. \A i \in 1 .. Len(x) : w[i] = x[i]
    BY <1>4, <1>5
<1>8. ASSUME NEW i \in 1 .. Len(f) PROVE w[Len(x) + i] = f[i]
  <2>1. i \in 1 .. k - m /\ m + i \in 1 .. k
      BY <1>3
  <2> QED
      BY <1>3, <1>4, <1>5, <2>1
<1>9. x \o f = w
    BY <1>3, <1>4, <1>5, <1>6, <1>7, <1>8, JoinIs
<1> QED
    BY <1>3, <1>4, <1>5, <1>9 DEF x, w

\* Outputs whose whole window has arrived do not depend on what comes later
LEMMA WindowsAre ==
    ASSUME NEW n \in Int, NEW m \in Nat, \A j \in 0 .. m - 1 : center(j) \div 2 <= n - 1
    PROVE  Windows(m) = Windowed(n, m)
<1>1. ASSUME NEW i \in 1 .. m PROVE Window(n, i - 1) = <<windowLo(i - 1), center(i - 1) \div 2>>
  <2> DEFINE j == i - 1
             a == center(j) \div 2
  <2>1. j \in Nat /\ j \in 0 .. m - 1
      OBVIOUS
  <2> HIDE DEF j
  <2>2. a \in Int /\ a <= n - 1 /\ n - 1 \in Int
      BY <2>1, WindowFacts
  <2> HIDE DEF a
  <2>3. Min({a, n - 1}) = a
      BY <2>2, TwoFacts
  <2> QED
      BY <2>3 DEF Window, a, j
<1> QED
    BY <1>1 DEF Windows, Windowed

Resamplers == [n : Nat, m : Nat, base : Nat, len : Nat, carry : {0, 1}]

\* The buffer is the end of the input, no window of an output to come begins
\* before it, and the windows of the outputs already made were all there
Resampling(q) ==
    /\ q.base + q.len = q.n /\ (q.len = 0 => q.n = 0)
    /\ q.base <= windowLo(q.m)
    /\ \A j \in 0 .. q.m - 1 : center(j) \div 2 <= q.n - 1

\* The output at which unresolved stops
LEMMA UnresolvedFacts ==
    ASSUME NEW q \in Resamplers, Resampling(q)
    PROVE  LET u == unresolved(q) IN
           /\ u \in Nat /\ u >= q.m
           /\ \A j \in q.m .. u - 1 : center(j) \div 2 <= q.n - 1
<1> DEFINE top == q.m + q.n + 1
           I == {m \in q.m .. top : center(m) \div 2 > q.base + q.len - 1}
           u == Min(I)
<1>1. /\ q.m \in Nat /\ q.n \in Nat /\ top \in Nat /\ q.base + q.len - 1 = q.n - 1 /\ q.m <= top
    BY DEF Resamplers, Resampling
<1>2. top \in I
  <2>1. half \in Nat
    <3>1. Taps \in Nat /\ Taps >= 1
        BY SynthesisAssumption
    <3> QED
        BY <3>1 DEF half
  <2>2. \A m, n, h \in Nat : (3 * (m + n + 1) + h) \div 2 > n - 1
      OBVIOUS
  <2>3. center(top) \div 2 > q.n - 1
      BY <1>1, <2>1, <2>2 DEF center
  <2> HIDE DEF top
  <2> QED
      BY <1>1, <2>3
<1>3. I \in SUBSET (0 .. top) /\ I # {}
    BY <1>1, <1>2
<1>4. u \in I /\ \A j \in I : u <= j
  <2> HIDE DEF I, top
  <2> QED
      BY <1>1, <1>3, MinFacts
<1>5. u \in q.m .. top /\ u \in Nat /\ u >= q.m
    BY <1>1, <1>4
<1>6. ASSUME NEW j \in q.m .. u - 1 PROVE center(j) \div 2 <= q.n - 1
  <2> HIDE DEF u
  <2>1. j \in q.m .. top /\ j \in Nat /\ ~(u <= j)
      BY <1>1, <1>5
  <2>2. ~(center(j) \div 2 > q.base + q.len - 1)
      BY <1>4, <2>1
  <2>3. center(j) \div 2 \in Nat
      BY <2>1, WindowFacts
  <2> QED
      BY <1>1, <2>2, <2>3
<1>7. unresolved(q) = u
    BY DEF unresolved
<1> HIDE DEF u
<1> QED
    BY <1>5, <1>6, <1>7

\* The windows of emitSamples are cut by the end of the input alone
LEMMA EmittedWindows ==
    ASSUME NEW q \in Resamplers, Resampling(q), NEW j \in Nat, j >= q.m
    PROVE  <<Max({windowLo(j), q.base}), Min({center(j) \div 2, q.base + q.len - 1})>> = Window(q.n, j)
<1>1. /\ q.m \in Nat /\ q.base \in Nat /\ q.base + q.len - 1 = q.n - 1 /\ q.base <= windowLo(q.m)
    BY DEF Resamplers, Resampling
<1>2. windowLo(j) \in Nat /\ windowLo(q.m) \in Nat /\ windowLo(q.m) <= windowLo(j)
    BY <1>1, WindowFacts
<1> DEFINE a == windowLo(j)
           b == q.base
<1>3. a \in Int /\ b \in Int /\ a >= b
    BY <1>1, <1>2
<1> HIDE DEF a, b
<1>4. Max({a, b}) = a
    BY <1>3, TwoFacts
<1> QED
    BY <1>1, <1>4 DEF Window, a, b

\* What trim leaves
LEMMA TrimFacts ==
    ASSUME NEW q \in Resamplers, Resampling(q)
    PROVE  /\ trim(q) \in Resamplers /\ Resampling(trim(q))
           /\ trim(q).n = q.n /\ trim(q).m = q.m /\ trim(q).carry = q.carry
<1> DEFINE keep == (center(q.m) - Taps + 1) \div 2
           drop == keep - q.base
           p == [q EXCEPT !.base = keep, !.len = q.len - drop]
<1>1. /\ q.m \in Nat /\ q.n \in Nat /\ q.base \in Nat /\ q.len \in Nat /\ q.base + q.len = q.n
    BY DEF Resamplers, Resampling
<1>2. keep \in Int /\ keep <= windowLo(q.m)
    BY <1>1, WindowFacts
<1>3. trim(q) = IF drop > 0 /\ drop < q.len THEN p ELSE q
    BY DEF trim, Resamplers
<1> HIDE DEF keep
<1>4. CASE drop > 0 /\ drop < q.len
  <2>1. keep \in Nat /\ q.len - drop \in Nat /\ keep + (q.len - drop) = q.n /\ q.len - drop # 0
      BY <1>1, <1>2, <1>4
  <2> HIDE DEF drop
  <2>2. p.base = keep /\ p.len = q.len - drop /\ p.n = q.n /\ p.m = q.m /\ p.carry = q.carry
      BY DEF Resamplers
  <2>3. p \in Resamplers
      BY <2>1 DEF Resamplers
  <2> HIDE DEF p
  <2>4. Resampling(p)
      BY <1>2, <2>1, <2>2 DEF Resampling
  <2> QED
      BY <1>3, <1>4, <2>2, <2>3, <2>4
<1>5. CASE ~(drop > 0 /\ drop < q.len)
    BY <1>3, <1>5
<1> QED
    BY <1>4, <1>5

\* Enough outputs exist for those already made, and none is made twice
LEMMA OutputFacts ==
    ASSUME NEW q \in Resamplers, Resampling(q)
    PROVE  outN(q.n) \in Nat /\ q.m <= outN(q.n)
<1>1. q.m \in Nat /\ q.n \in Nat
    BY DEF Resamplers
<1>2. outN(q.n) \in Nat
    BY <1>1 DEF outN
<1>3. half \in Nat
  <2>1. Taps \in Nat /\ Taps >= 1
      BY SynthesisAssumption
  <2> QED
      BY <2>1 DEF half
<1>4. CASE q.m = 0
    BY <1>2, <1>4
<1>5. CASE q.m # 0
  <2>1. q.m - 1 \in Nat /\ q.m - 1 \in 0 .. q.m - 1
      BY <1>1, <1>5
  <2>2. center(q.m - 1) \div 2 <= q.n - 1
      BY <2>1 DEF Resampling
  <2>3. \A m, n, h \in Nat : (3 * m + h) \div 2 <= n - 1 => m + 1 <= (2 * n + 2) \div 3
      OBVIOUS
  <2>4. (q.m - 1) + 1 <= (2 * q.n + 2) \div 3
      BY <1>1, <1>3, <2>1, <2>2, <2>3 DEF center
  <2> QED
      BY <1>1, <2>4 DEF outN
<1> QED
    BY <1>2, <1>4, <1>5

\* What a resampler has put out so far
LEMMA WindowsStart ==
    ASSUME NEW q \in Resamplers, Resampling(q)
    PROVE  Windows(q.m) \in Seq(Sounds) /\ Windows(q.m) = Windowed(q.n, q.m)
<1>1. q.m \in Nat /\ q.n \in Nat /\ q.n \in Int /\ q.m <= q.m
    BY DEF Resamplers
<1>2. \A j \in 0 .. q.m - 1 : center(j) \div 2 <= q.n - 1
    BY DEF Resampling
<1>3. Windows(q.m) = Windowed(q.n, q.m)
    BY <1>1, <1>2, WindowsAre
<1> DEFINE f == [i \in 1 .. q.m - q.m |-> Window(q.n, q.m + i - 1)]
<1> HIDE DEF f
<1>4. Outputs(f, q.n, q.m, q.m)
    BY DEF f, Outputs
<1>5. Windowed(q.n, q.m) \in Seq(Sounds)
    BY <1>1, <1>4, WindowsJoin
<1> QED
    BY <1>3, <1>5

\* The outputs a write makes continue those already made
LEMMA EmitFacts ==
    ASSUME NEW q \in Resamplers, Resampling(q), NEW e, e = emitSamples(q, FALSE)
    PROVE  /\ e.state \in Resamplers /\ Resampling(e.state)
           /\ e.state.n = q.n /\ e.state.carry = q.carry
           /\ e.pcm \in Seq(Sounds) /\ Windows(e.state.m) = Windows(q.m) \o e.pcm
<1>1. CASE q.len = 0
  <2>1. e.pcm = <<>> /\ e.state = q
      BY <1>1 DEF emitSamples
  <2>2. Windows(q.m) \in Seq(Sounds)
      BY WindowsStart
  <2> DEFINE w == Windows(q.m)
  <2> HIDE DEF w
  <2>3. w \o <<>> = w /\ <<>> \in Seq(Sounds)
    <3>1. w \in Seq(Sounds)
        BY <2>2 DEF w
    <3> QED
        BY <3>1, Joined, EmptySeq
  <2> QED
      BY Zenon, <2>1, <2>3 DEF w
<1>2. CASE q.len # 0
  <2> DEFINE u == unresolved(q)
             p == [q EXCEPT !.m = u]
             g == [i \in 1 .. (u - q.m) |-> <<Max({windowLo(q.m + i - 1), q.base}),
                                              Min({center(q.m + i - 1) \div 2, q.base + q.len - 1})>>]
  <2>1. u \in Nat /\ u >= q.m /\ \A j \in q.m .. u - 1 : center(j) \div 2 <= q.n - 1
      BY UnresolvedFacts
  <2>2. e.pcm = g /\ e.state = trim(p)
      BY <1>2 DEF emitSamples
  <2> HIDE DEF u
  <2>3. q.m \in Nat /\ q.n \in Nat /\ q.n \in Int /\ q.base \in Nat
      BY DEF Resamplers
  <2>4. p \in Resamplers /\ p.m = u /\ p.n = q.n /\ p.base = q.base /\ p.len = q.len /\ p.carry = q.carry
      BY <2>1 DEF Resamplers
  <2>5. Resampling(p)
    <3>1. windowLo(q.m) \in Nat /\ windowLo(u) \in Nat /\ windowLo(q.m) <= windowLo(u)
        BY <2>1, <2>3, WindowFacts
    <3>2. q.base <= windowLo(u)
        BY <2>3, <3>1 DEF Resampling
    <3>3. ASSUME NEW j \in 0 .. u - 1 PROVE center(j) \div 2 <= q.n - 1
      <4>1. j \in 0 .. q.m - 1 \/ j \in q.m .. u - 1
          BY <2>1, <2>3
      <4> QED
          BY <2>1, <4>1 DEF Resampling
    <3> HIDE DEF p
    <3> QED
        BY <2>4, <3>2, <3>3 DEF Resampling
  <2>6. Outputs(g, q.n, q.m, u)
    <3>1. ASSUME NEW i \in 1 .. u - q.m
          PROVE  <<Max({windowLo(q.m + i - 1), q.base}),
                   Min({center(q.m + i - 1) \div 2, q.base + q.len - 1})>> = Window(q.n, q.m + i - 1)
      <4> DEFINE j == q.m + i - 1
      <4>1. j \in Nat /\ j >= q.m
          BY <2>1, <2>3
      <4> HIDE DEF j
      <4>2. <<Max({windowLo(j), q.base}), Min({center(j) \div 2, q.base + q.len - 1})>> = Window(q.n, j)
          BY <4>1, EmittedWindows
      <4> QED
          BY <4>2 DEF j
    <3> QED
        BY <3>1 DEF Outputs
  <2> HIDE DEF g, p
  <2>7. g \in Seq(Sounds) /\ Windowed(q.n, q.m) \o g = Windowed(q.n, u)
    <3>1. q.m <= u
        BY <2>1, <2>3
    <3> DEFINE n == q.n
               m == q.m
    <3>2. n \in Int /\ m \in Nat /\ u \in Nat /\ m <= u /\ Outputs(g, n, m, u)
        BY <2>1, <2>3, <2>6, <3>1
    <3> HIDE DEF n, m
    <3>3. g \in Seq(Sounds) /\ Windowed(n, m) \o g = Windowed(n, u)
        BY <3>2, WindowsJoin
    <3> QED
        BY <3>3 DEF n, m
  <2>8. Windows(q.m) = Windowed(q.n, q.m) /\ Windows(u) = Windowed(q.n, u)
    <3>1. Windows(p.m) = Windowed(p.n, p.m)
        BY <2>4, <2>5, WindowsStart
    <3> QED
        BY <2>4, <3>1, WindowsStart
  <2>9. trim(p) \in Resamplers /\ Resampling(trim(p)) /\ trim(p).n = q.n /\ trim(p).m = u
        /\ trim(p).carry = q.carry
      BY <2>4, <2>5, TrimFacts
  <2> QED
      BY Zenon, <2>2, <2>7, <2>8, <2>9
<1> QED
    BY <1>1, <1>2

\* s bytes were written to it
Written(q, s) == s = 2 * q.n + q.carry

\* What a write makes of n bytes
LEMMA WriteFacts ==
    ASSUME NEW q \in Resamplers, Resampling(q), NEW s \in Nat, Written(q, s), NEW n \in Nat,
           NEW w, w = Write(q, n)
    PROVE  /\ w.state \in Resamplers /\ Resampling(w.state) /\ Written(w.state, s + n)
           /\ w.pcm \in Seq(Sounds) /\ Windows(w.state.m) = Windows(q.m) \o w.pcm
<1> DEFINE k == (q.carry + n) \div 2
           c == (q.carry + n) % 2
           p == [q EXCEPT !.n = @ + k, !.len = @ + k, !.carry = c]
<1>1. /\ q.n \in Nat /\ q.m \in Nat /\ q.base \in Nat /\ q.len \in Nat /\ q.carry \in {0, 1}
    BY DEF Resamplers
<1>2. k \in Nat /\ c \in {0, 1} /\ s + n = 2 * (q.n + k) + c
  <2> DEFINE z == q.carry + n
  <2>1. z \in Nat
      BY <1>1
  <2>2. k = z \div 2 /\ c = z % 2
      OBVIOUS
  <2> HIDE DEF z, k, c
  <2>3. z \div 2 \in Nat /\ z % 2 \in {0, 1}
      BY <2>1
  <2>4. z % 2 = 0 => z = 2 * (z \div 2)
      BY <2>1
  <2>5. z % 2 = 1 => z = 2 * (z \div 2) + 1
      BY <2>1
  <2>6. k \in Nat /\ c \in {0, 1} /\ (c = 0 => z = 2 * k) /\ (c = 1 => z = 2 * k + 1)
      BY <2>2, <2>3, <2>4, <2>5
  <2>7. z = 2 * k + c
      BY <2>6
  <2>8. s + n = 2 * q.n + z
      BY <1>1 DEF z, Written
  <2> QED
      BY <1>1, <2>6, <2>7, <2>8
<1>3. w = emitSamples(p, FALSE)
    BY DEF Write
<1> HIDE DEF k, c
<1>4. /\ p \in Resamplers /\ p.n = q.n + k /\ p.m = q.m /\ p.base = q.base /\ p.len = q.len + k
      /\ p.carry = c
  <2> DEFINE x == q.n + k
             y == q.len + k
  <2>1. x \in Nat /\ y \in Nat
      BY <1>1, <1>2
  <2>2. p = [q EXCEPT !.n = x, !.len = y, !.carry = c]
      OBVIOUS
  <2> HIDE DEF x, y, p
  <2>3. p \in Resamplers /\ p.n = x /\ p.m = q.m /\ p.base = q.base /\ p.len = y /\ p.carry = c
      BY <1>2, <2>1, <2>2 DEF Resamplers
  <2> QED
      BY <2>3 DEF x, y
<1> HIDE DEF p
<1>5. Resampling(p)
  <2>1. p.base + p.len = p.n /\ (p.len = 0 => p.n = 0)
    <3>1. q.base + q.len = q.n /\ (q.len = 0 => q.n = 0)
        BY DEF Resampling
    <3>2. p.base = q.base /\ p.len = q.len + k /\ p.n = q.n + k /\ k \in Nat
        BY <1>2, <1>4
    <3>3. p.base + p.len = p.n
        BY <1>1, <3>1, <3>2
    <3>4. p.len = 0 => q.len = 0 /\ k = 0
        BY <1>1, <3>2
    <3> QED
        BY <1>1, <3>1, <3>2, <3>3, <3>4
  <2>2. p.base <= windowLo(p.m)
      BY <1>4 DEF Resampling
  <2>3. ASSUME NEW j \in 0 .. p.m - 1 PROVE center(j) \div 2 <= p.n - 1
    <3>1. j \in 0 .. q.m - 1 /\ j \in Nat
        BY <1>1, <1>4
    <3>2. center(j) \div 2 <= q.n - 1
        BY <3>1 DEF Resampling
    <3>3. center(j) \div 2 \in Nat
        BY <3>1, WindowFacts
    <3> QED
        BY <1>1, <1>2, <1>4, <3>2, <3>3
  <2> QED
      BY <2>1, <2>2, <2>3 DEF Resampling
<1>6. /\ w.state \in Resamplers /\ Resampling(w.state)
      /\ w.state.n = p.n /\ w.state.carry = p.carry
      /\ w.pcm \in Seq(Sounds) /\ Windows(w.state.m) = Windows(p.m) \o w.pcm
    BY <1>3, <1>4, <1>5, EmitFacts
<1>7. Written(w.state, s + n)
    BY <1>2, <1>4, <1>6 DEF Written
<1> QED
    BY Zenon, <1>4, <1>6, <1>7

\* The chunks of a sentence and its flush are resample24kTo16k of the whole
LEMMA FlushFacts ==
    ASSUME NEW q \in Resamplers, Resampling(q)
    PROVE  /\ Flush(q).pcm \in Seq(Sounds) /\ resample24kTo16k(q.n) \in Seq(Sounds)
           /\ Windows(q.m) \o Flush(q).pcm = resample24kTo16k(q.n)
<1> DEFINE u == outN(q.n)
           g == [i \in 1 .. (u - q.m) |-> <<Max({windowLo(q.m + i - 1), q.base}),
                                            Min({center(q.m + i - 1) \div 2, q.base + q.len - 1})>>]
<1>1. u \in Nat /\ q.m <= u
    BY OutputFacts
<1>2. q.m \in Nat /\ q.n \in Nat /\ q.n \in Int /\ q.len \in Nat
    BY DEF Resamplers
<1>3. Max({q.m, u}) = u
  <2> HIDE DEF u
  <2>1. q.m \in Int /\ u \in Int
      BY <1>1, <1>2
  <2>2. Max({q.m, u}) = IF q.m >= u THEN q.m ELSE u
      BY <2>1, TwoFacts
  <2> QED
      BY <1>1, <1>2, <2>2
<1>4. Flush(q).pcm = g
  <2>1. CASE q.len = 0
    <3>1. q.n = 0
        BY <2>1 DEF Resampling
    <3>2. u = 0 /\ q.m = 0
        BY <1>1, <1>2, <3>1 DEF outN
    <3>3. g = <<>>
      <4>1. 1 .. u - q.m = {}
          BY <3>2
      <4> QED
          BY <4>1
    <3>4. Flush(q).pcm = <<>>
        BY <2>1 DEF Flush, emitSamples
    <3> QED
        BY <3>3, <3>4
  <2>2. CASE q.len # 0
    <3>1. emitSamples(q, TRUE) = [pcm |-> g, state |-> trim([q EXCEPT !.m = u])]
        BY <1>3, <2>2 DEF emitSamples
    <3> HIDE DEF g, u
    <3> QED
      <4>1. ASSUME NEW e, NEW x, NEW y, NEW z, e = [pcm |-> x, state |-> y]
            PROVE  [e EXCEPT !.state = z].pcm = x
          BY <4>1
      <4> QED
          BY <3>1, <4>1 DEF Flush
  <2> QED
      BY <2>1, <2>2
<1> HIDE DEF u
<1>6. Outputs(g, q.n, q.m, u)
  <2>1. ASSUME NEW i \in 1 .. u - q.m
        PROVE  <<Max({windowLo(q.m + i - 1), q.base}),
                 Min({center(q.m + i - 1) \div 2, q.base + q.len - 1})>> = Window(q.n, q.m + i - 1)
    <3> DEFINE j == q.m + i - 1
    <3>1. j \in Nat /\ j >= q.m
        BY <1>1, <1>2
    <3> HIDE DEF j
    <3>2. <<Max({windowLo(j), q.base}), Min({center(j) \div 2, q.base + q.len - 1})>> = Window(q.n, j)
        BY <3>1, EmittedWindows
    <3> QED
        BY <3>2 DEF j
  <2> QED
      BY <2>1 DEF Outputs
<1> HIDE DEF g
<1>7. g \in Seq(Sounds) /\ Windowed(q.n, u) \in Seq(Sounds) /\ Windowed(q.n, q.m) \o g = Windowed(q.n, u)
  <2> DEFINE n == q.n
             m == q.m
  <2>1. n \in Int /\ m \in Nat /\ u \in Nat /\ m <= u /\ Outputs(g, n, m, u)
      BY <1>1, <1>2, <1>6
  <2> HIDE DEF n, m
  <2>2. g \in Seq(Sounds) /\ Windowed(n, u) \in Seq(Sounds) /\ Windowed(n, m) \o g = Windowed(n, u)
      BY <2>1, WindowsJoin
  <2> QED
      BY <2>2 DEF n, m
<1>8. Windows(q.m) = Windowed(q.n, q.m)
    BY WindowsStart
<1>9. resample24kTo16k(q.n) = Windowed(q.n, u)
    BY DEF resample24kTo16k, Windowed, Window, u
<1> QED
    BY Zenon, <1>4, <1>7, <1>8, <1>9

---------------------------------------------------------------------------
(* What is on its way to the consumer *)

Pieces == [pcm : Seq(Sounds), err : BOOLEAN]

\* The bytes of a chunk make whole samples, so the consumer's conversion drops
\* none of them; a resampled chunk is one of samples.
Chunks ==
    IF provider \in {"mimo", "whole"} THEN Pieces
    ELSE {x \in Pieces : Even(Len(x.pcm)) = Len(x.pcm)}

Replies ==
    {x \in [to : Streams, kind : {"audio", "done", "failed"}, pcm : Seq(Sounds)] :
        /\ Even(Len(x.pcm)) = Len(x.pcm)
        /\ x.kind # "audio" => x.pcm = <<>>}

AudioType ==
    /\ hold \in [Streams -> Chunks] /\ carried \in [Streams -> Chunks]
    /\ out \in [Streams -> Seq(Chunks)] /\ inner \in [Streams -> Seq(Chunks)]
    /\ respCh \in [Streams -> Seq(Replies)]
    /\ heard \in [Streams -> Seq(Sounds)]
    /\ align \in [Streams -> Seq(Sounds)] /\ rs \in [Streams -> Resamplers]

\* What channels carry: audio that is a sequence of sounds, or nothing
LEMMA ChunkFacts ==
    /\ \A x \in Chunks : x \in Pieces /\ x.pcm \in Seq(Sounds) /\ x.err \in BOOLEAN
    /\ \A x \in Replies : x.pcm \in Seq(Sounds) /\ Audio(x.pcm) \in Chunks
                          /\ (x.kind # "audio" => x.pcm = <<>>)
    /\ Nothing \in Chunks /\ Err \in Chunks /\ Nothing.pcm = <<>> /\ Err.pcm = <<>>
    /\ \A p \in Seq(Sounds) : /\ Audio(p).pcm = p
                              /\ Even(Len(p)) = Len(p) => Audio(p) \in Chunks
                              /\ provider \in {"mimo", "whole"} => Audio(p) \in Chunks
<1>1. \A x \in Chunks : x \in Pieces /\ x.pcm \in Seq(Sounds) /\ x.err \in BOOLEAN
    BY DEF Chunks, Pieces
<1>2. \A p \in Seq(Sounds) : Audio(p) \in Pieces /\ Audio(p).pcm = p
    BY DEF Audio, Pieces
<1>3. \A p \in Seq(Sounds) : /\ Even(Len(p)) = Len(p) => Audio(p) \in Chunks
                             /\ provider \in {"mimo", "whole"} => Audio(p) \in Chunks
    BY <1>2 DEF Chunks
<1>4. <<>> \in Seq(Sounds) /\ Even(Len(<<>>)) = Len(<<>>)
  <2>1. <<>> \in Seq(Sounds) /\ Len(<<>>) = 0
      BY EmptySeq
  <2> QED
      BY <2>1 DEF Even
<1>5. Nothing \in Chunks /\ Nothing.pcm = <<>>
    BY <1>2, <1>3, <1>4 DEF Nothing
<1>6. Err \in Chunks /\ Err.pcm = <<>>
  <2>1. Err \in Pieces /\ Err.pcm = <<>>
      BY <1>4 DEF Err, Pieces
  <2> QED
      BY <1>4, <2>1 DEF Chunks
<1>7. \A x \in Replies : x.pcm \in Seq(Sounds) /\ Audio(x.pcm) \in Chunks
                         /\ (x.kind # "audio" => x.pcm = <<>>)
  <2>1. \A x \in Replies : x.pcm \in Seq(Sounds) /\ Even(Len(x.pcm)) = Len(x.pcm)
                           /\ (x.kind # "audio" => x.pcm = <<>>)
      BY DEF Replies
  <2> QED
      BY <1>3, <2>1
<1> QED
    BY <1>1, <1>2, <1>3, <1>5, <1>6, <1>7

\* Heard, in the channel, or being sent
Trail(h, q, x) == h \o (Queued(q) \o x.pcm)

\* A chunk moves on without changing what is heard in the end; a new one comes last
LEMMA TrailFacts ==
    ASSUME NEW h \in Seq(Sounds), NEW q \in Seq(Chunks), NEW x \in Chunks
    PROVE  /\ Trail(h, q, x) \in Seq(Sounds)
           /\ Starts(h, Trail(h, q, x))
           /\ Starts(Trail(h, q, Nothing), Trail(h, q, x))
           /\ Trail(h, q, x) = Trail(h, q, Nothing) \o x.pcm
           /\ Trail(h, Append(q, x), Nothing) = Trail(h, q, x)
           /\ q # <<>> => Trail(h \o Head(q).pcm, Tail(q), x) = Trail(h, q, x)
           /\ q = <<>> => Trail(h, q, Nothing) = h
           /\ x.pcm = <<>> => Trail(h, q, x) = Trail(h, q, Nothing)
<1> DEFINE Q == Queued(q)
           p == x.pcm
<1>1. /\ \A y \in Chunks : y.pcm \in Seq(Sounds)
      /\ Nothing \in Chunks /\ Nothing.pcm = <<>> /\ <<>> \in Seq(Sounds)
    BY ChunkFacts, EmptySeq
<1>2. /\ Q \in Seq(Sounds) /\ (q = <<>> => Q = <<>>)
      /\ Queued(Append(q, x)) = Q \o p
      /\ q # <<>> => /\ Head(q) \in Chunks /\ Tail(q) \in Seq(Chunks)
                     /\ Q = Head(q).pcm \o Queued(Tail(q))
    BY <1>1, QueuedFacts
<1>3. p \in Seq(Sounds)
    BY <1>1
<1> HIDE DEF Q, p
<1>4. /\ Q \o p \in Seq(Sounds) /\ h \o Q \in Seq(Sounds) /\ h \o (Q \o p) \in Seq(Sounds)
      /\ Q \o <<>> = Q /\ (Q \o p) \o <<>> = Q \o p /\ (h \o Q) \o p = h \o (Q \o p)
      /\ h \o <<>> = h
  <2>1. Q \o p \in Seq(Sounds) /\ h \o Q \in Seq(Sounds)
      BY <1>2, <1>3, Joined
  <2>2. h \o (Q \o p) \in Seq(Sounds) /\ (Q \o p) \o <<>> = Q \o p
      BY <2>1, Joined
  <2> QED
      BY SMTT(30), <1>1, <1>2, <1>3, <2>1, <2>2, Joined
<1>5. Trail(h, q, x) = h \o (Q \o p) /\ Trail(h, q, Nothing) = h \o Q
    BY Zenon, <1>1, <1>4 DEF Trail, Q, p
<1>6. Starts(h, h \o (Q \o p)) /\ Starts(h \o Q, (h \o Q) \o p)
    BY <1>2, <1>3, <1>4, StartFacts
<1>7. Trail(h, Append(q, x), Nothing) = h \o (Q \o p)
  <2>1. Trail(h, Append(q, x), Nothing) = h \o (Queued(Append(q, x)) \o <<>>)
      BY Zenon, <1>1 DEF Trail
  <2> QED
      BY Zenon, <1>2, <1>4, <2>1
<1>8. ASSUME q # <<>> PROVE Trail(h \o Head(q).pcm, Tail(q), x) = h \o (Q \o p)
  <2> DEFINE a == Head(q).pcm
             b == Queued(Tail(q))
  <2>1. a \in Seq(Sounds) /\ b \in Seq(Sounds) /\ Q = a \o b
    <3>1. Head(q) \in Chunks /\ Tail(q) \in Seq(Chunks) /\ Q = Head(q).pcm \o Queued(Tail(q))
        BY <1>2, <1>8
    <3>2. Queued(Tail(q)) \in Seq(Sounds)
        BY <1>1, <3>1, QueuedFacts
    <3> QED
        BY <1>1, <3>1, <3>2
  <2>2. Trail(h \o Head(q).pcm, Tail(q), x) = (h \o a) \o (b \o p)
      BY Zenon DEF Trail, a, b, p
  <2> HIDE DEF a, b
  <2>3. (h \o a) \o (b \o p) = h \o ((a \o b) \o p)
    <3>1. b \o p \in Seq(Sounds) /\ (a \o b) \o p = a \o (b \o p)
        BY SMTT(30), <1>3, <2>1, Joined
    <3> DEFINE c == b \o p
    <3>2. c \in Seq(Sounds)
        BY <3>1
    <3> HIDE DEF c
    <3>3. (h \o a) \o c = h \o (a \o c)
        BY SMTT(30), <2>1, <3>2, Joined
    <3> QED
        BY Zenon, <3>1, <3>3 DEF c
  <2> QED
      BY Zenon, <2>1, <2>2, <2>3
<1>9. q = <<>> => h \o Q = h
    BY Zenon, <1>2, <1>4
<1>10. x.pcm = <<>> => h \o (Q \o p) = h \o Q
    BY Zenon, <1>4 DEF p
<1>11. /\ Trail(h, q, x) \in Seq(Sounds)
       /\ Trail(h, q, x) = Trail(h, q, Nothing) \o x.pcm
    BY Zenon, <1>4, <1>5 DEF p
<1>12. Starts(h, Trail(h, q, x)) /\ Starts(Trail(h, q, Nothing), Trail(h, q, x))
    BY Zenon, <1>4, <1>5, <1>6
<1> QED
    BY Zenon, <1>5, <1>7, <1>8, <1>9, <1>10, <1>11, <1>12

---------------------------------------------------------------------------
(* What a frame adds *)

\* The state of the converters agrees with what the service has sent
Source(r) ==
    /\ provider = "mimo" => Resampling(rs[r]) /\ Written(rs[r], sent[r])
    /\ provider \in {"http", "minimax"} => align[r] = Carried(sent[r])
    /\ provider \in Sockets => Even(sent[r]) = sent[r]

\* The part of the sentence that no later frame can change
Firm(r) ==
    CASE provider = "mimo" -> Windows(rs[r].m)
      [] provider = "whole" -> <<>>
      [] OTHER -> Bytes(1, Even(sent[r]))

\* A resampled sentence is a sequence of sounds
LEMMA ResampledFacts ==
    ASSUME NEW n \in Nat
    PROVE  resample24kTo16k(n) \in Seq(Sounds)
<1> DEFINE u == outN(n)
           f == [i \in 1 .. u - u |-> Window(n, u + i - 1)]
<1>1. u \in Nat /\ n \in Int
    BY DEF outN
<1>2. Outputs(f, n, u, u)
    BY DEF Outputs
<1>3. resample24kTo16k(n) = Windowed(n, u)
    BY DEF resample24kTo16k, Windowed, Window, u
<1> HIDE DEF u, f
<1>4. Windowed(n, u) \in Seq(Sounds)
  <2>1. u <= u
      BY <1>1
  <2> QED
      BY <1>1, <1>2, <2>1, WindowsJoin
<1> QED
    BY <1>3, <1>4

\* Bytes from the first on
LEMMA BytesFacts ==
    ASSUME NEW s \in Nat
    PROVE  /\ Bytes(1, s) \in Seq(Sounds)
           /\ \A n \in Nat : /\ Bytes(s + 1, s + n) \in Seq(Sounds) /\ Len(Bytes(s + 1, s + n)) = n
                             /\ Bytes(1, s) \o Bytes(s + 1, s + n) = Bytes(1, s + n)
<1>1. ASSUME NEW t \in Nat PROVE Run(Bytes(1, t), 1, t)
  <2>1. 1 \in Nat /\ 1 <= t + 1 /\ t - 1 + 1 = t
      OBVIOUS
  <2>2. Run(Bytes(1, t), 1, t - 1 + 1)
      BY <2>1, BytesRun
  <2> QED
      BY <2>1, <2>2
<1>2. ASSUME NEW n \in Nat
      PROVE  /\ Bytes(s + 1, s + n) \in Seq(Sounds) /\ Len(Bytes(s + 1, s + n)) = n
             /\ Bytes(1, s) \o Bytes(s + 1, s + n) = Bytes(1, s + n)
  <2> DEFINE a == s + 1
             b == s + n
             x == Bytes(1, s)
             y == Bytes(a, b)
             z == Bytes(1, b)
             w == x \o y
  <2>1. a \in Nat /\ b \in Nat /\ a <= b + 1 /\ b - a + 1 = n /\ a = 1 + s
      OBVIOUS
  <2>2. Run(x, 1, s) /\ Run(z, 1, b)
      BY <1>1, <2>1
  <2>3. b = s + n
      OBVIOUS
  <2> HIDE DEF a, b
  <2>4. Run(y, a, n)
    <3>1. Run(Bytes(a, b), a, b - a + 1)
        BY <2>1, BytesRun
    <3> QED
        BY <2>1, <3>1
  <2> HIDE DEF x, y, z
  <2>5. Run(w, 1, b)
    <3>1. Run(x \o y, 1, s + n)
        BY <2>1, <2>2, <2>4, RunJoin
    <3> QED
        BY <2>3, <3>1
  <2> HIDE DEF w
  <2>6. w = z
      BY <2>2, <2>5, SameRun
  <2>7. y \in Seq(Sounds) /\ Len(y) = n
      BY <2>4 DEF Run
  <2> QED
      BY Zenon, <2>6, <2>7 DEF w, x, y, z, a, b
<1>3. Bytes(1, s) \in Seq(Sounds)
    BY <1>1 DEF Run
<1> QED
    BY <1>2, <1>3

\* At the end of the stream what is missing is what the flush brings
LEMMA FirmFacts ==
    ASSUME AudioType, StreamInv, NEW r \in Streams, Source(r), provider # "cartesia"
    PROVE  /\ Firm(r) \in Seq(Sounds) /\ Sentence(r) \in Seq(Sounds)
           /\ Starts(Firm(r), Sentence(r))
           /\ provider # "whole" => /\ flushAtEnd(r) \in Chunks
                                    /\ Firm(r) \o flushAtEnd(r).pcm = Sentence(r)
<1> DEFINE s == sent[r]
<1>1. s \in Nat /\ rs[r] \in Resamplers
    BY DEF StreamInv, StreamType, AudioType
<1>2. <<>> \in Seq(Sounds) /\ Nothing \in Chunks /\ Nothing.pcm = <<>>
    BY ChunkFacts, EmptySeq
<1>3. CASE provider = "mimo"
  <2> DEFINE q == rs[r]
             f == Flush(q).pcm
             w == Windows(q.m)
             t == resample24kTo16k(q.n)
  <2>1. q \in Resamplers /\ Resampling(q) /\ s = 2 * q.n + q.carry
      BY <1>1, <1>3 DEF Source, Written
  <2>2. s \div 2 = q.n
    <3>1. \A n \in Nat, c \in {0, 1} : (2 * n + c) \div 2 = n
        OBVIOUS
    <3>2. q.n \in Nat /\ q.carry \in {0, 1}
        BY <2>1 DEF Resamplers
    <3> QED
        BY <2>1, <3>1, <3>2
  <2>3. f \in Seq(Sounds) /\ t \in Seq(Sounds) /\ w \o f = t
      BY <2>1, FlushFacts
  <2>4. w \in Seq(Sounds)
      BY <2>1, WindowsStart
  <2>5. Firm(r) = w /\ Sentence(r) = t
      BY <1>3, <2>2 DEF Firm, Sentence
  <2>6. flushAtEnd(r) = Audio(f)
      BY <1>3 DEF flushAtEnd
  <2> HIDE DEF f, t, w, q
  <2>7. Audio(f) \in Chunks /\ Audio(f).pcm = f
      BY <1>3, <2>3, ChunkFacts
  <2>8. Starts(w, t)
      BY <2>3 DEF Starts
  <2> QED
      BY Zenon, <2>3, <2>4, <2>5, <2>6, <2>7, <2>8
<1>4. CASE provider = "whole"
  <2> DEFINE t == resample24kTo16k(s \div 2)
  <2>1. s \div 2 \in Nat
      BY <1>1
  <2>2. t \in Seq(Sounds)
      BY <2>1, ResampledFacts
  <2>3. Firm(r) = <<>> /\ Sentence(r) = t
      BY <1>4 DEF Firm, Sentence
  <2> HIDE DEF t
  <2>4. t = <<>> \o t
      BY <1>2, <2>2, Joined
  <2>5. Starts(<<>>, t)
      BY <2>2, <2>4 DEF Starts
  <2> QED
      BY <1>2, <1>4, <2>2, <2>3, <2>5
<1>5. CASE provider \notin {"mimo", "whole"}
  <2> DEFINE b == Bytes(1, Even(s))
  <2>1. b \in Seq(Sounds)
      BY <1>1, EvenFacts, BytesFacts
  <2>2. Firm(r) = b /\ Sentence(r) = b /\ flushAtEnd(r) = Nothing
      BY <1>5 DEF Firm, Sentence, flushAtEnd
  <2> HIDE DEF b
  <2>3. b \o <<>> = b /\ Starts(b, b)
      BY <2>1, Joined, StartFacts
  <2> QED
      BY Zenon, <1>2, <2>1, <2>2, <2>3
<1> QED
    BY <1>3, <1>4, <1>5

\* Each frame of audio adds to the firm part exactly the chunk it becomes
LEMMA FrameFacts ==
    ASSUME AudioType, StreamInv, NEW r \in Streams, Source(r), provider \notin {"cartesia", "whole"},
           NEW n \in FrameSizes, audioFrame(r, n), provider' = provider
    PROVE  /\ Source(r)'
           /\ rs' \in [Streams -> Resamplers] /\ align' \in [Streams -> Seq(Sounds)]
           /\ \A q \in Streams : q # r => rs'[q] = rs[q] /\ align'[q] = align[q]
           /\ \E x \in Chunks : hold' = [hold EXCEPT ![r] = x] /\ Firm(r)' = Firm(r) \o x.pcm
<1> DEFINE s == sent[r]
           chunk == Bytes(s + 1, s + n)
<1>1. /\ s \in Nat /\ sent \in [Streams -> Nat]
      /\ rs \in [Streams -> Resamplers] /\ align \in [Streams -> Seq(Sounds)]
    BY DEF StreamInv, StreamType, AudioType
<1>2. n \in Nat /\ (provider \in Sockets => n % 2 = 0)
    BY SynthesisAssumption DEF FrameSizes
<1>3. sent' = [sent EXCEPT ![r] = s + n] /\ sent'[r] = s + n
    BY <1>1 DEF audioFrame
<1>4. CASE provider = "mimo"
  <2> DEFINE q == rs[r]
             w == Write(q, n)
  <2>1. hold' = [hold EXCEPT ![r] = Audio(w.pcm)] /\ rs' = [rs EXCEPT ![r] = w.state] /\ align' = align
      BY <1>4 DEF audioFrame
  <2>2. q \in Resamplers /\ Resampling(q) /\ Written(q, s)
      BY <1>1, <1>4 DEF Source
  <2> HIDE DEF q
  <2>3. w = Write(q, n)
      OBVIOUS
  <2> HIDE DEF w
  <2>4. /\ w.state \in Resamplers /\ Resampling(w.state)
        /\ Written(w.state, s + n)
        /\ w.pcm \in Seq(Sounds) /\ Windows(w.state.m) = Windows(q.m) \o w.pcm
    <3> HIDE DEF s
    <3> QED
        BY <1>1, <1>2, <2>2, <2>3, WriteFacts
  <2>5. rs'[r] = w.state
      BY <1>1, <2>1
  <2>6. Source(r)'
      BY <1>3, <1>4, <2>4, <2>5 DEF Source, Sockets
  <2>7. Firm(r) = Windows(q.m) /\ Firm(r)' = Windows(w.state.m)
      BY <1>4, <2>5 DEF Firm, q
  <2> DEFINE x == Audio(w.pcm)
  <2>8. x \in Chunks /\ x.pcm = w.pcm
      BY <1>4, <2>4, ChunkFacts
  <2>9. hold' = [hold EXCEPT ![r] = x]
      BY <2>1
  <2> HIDE DEF x
  <2>10. Firm(r)' = Firm(r) \o x.pcm
      BY Zenon, <2>4, <2>7, <2>8
  <2>11. rs' \in [Streams -> Resamplers] /\ \A p \in Streams : p # r => rs'[p] = rs[p] /\ align'[p] = align[p]
      BY <1>1, <2>1, <2>4
  <2> QED
      BY <1>1, <2>1, <2>6, <2>8, <2>9, <2>10, <2>11
<1>5. CASE provider \in {"http", "minimax"}
  <2> DEFINE t == take(align[r], chunk)
  <2>1. hold' = [hold EXCEPT ![r] = Audio(t.pcm)] /\ align' = [align EXCEPT ![r] = t.carry] /\ rs' = rs
      BY <1>5 DEF audioFrame
  <2>2. t = take(Carried(s), Bytes(s + 1, s + n))
      BY <1>5 DEF Source
  <2>3. /\ t.carry = Carried(s + n)
        /\ t.pcm \in Seq(Sounds) /\ t.carry \in Seq(Sounds)
        /\ Even(Len(t.pcm)) = Len(t.pcm)
        /\ Bytes(1, Even(s)) \o t.pcm = Bytes(1, Even(s + n))
      BY Zenon, <1>1, <1>2, <2>2, TakeFacts
  <2> HIDE DEF t
  <2>4. Source(r)'
    <3>1. align'[r] = Carried(s + n)
        BY <1>1, <2>1, <2>3
    <3> QED
        BY <1>3, <1>5, <3>1 DEF Source, Sockets
  <2>5. Firm(r) = Bytes(1, Even(s)) /\ Firm(r)' = Bytes(1, Even(s + n))
      BY <1>3, <1>5 DEF Firm
  <2> DEFINE x == Audio(t.pcm)
  <2>6. x \in Chunks /\ x.pcm = t.pcm
      BY <2>3, ChunkFacts
  <2>7. hold' = [hold EXCEPT ![r] = x]
      BY <2>1
  <2> HIDE DEF x
  <2>8. Firm(r)' = Firm(r) \o x.pcm
      BY Zenon, <2>3, <2>5, <2>6
  <2>9. align' \in [Streams -> Seq(Sounds)]
        /\ \A p \in Streams : p # r => rs'[p] = rs[p] /\ align'[p] = align[p]
      BY <1>1, <2>1, <2>3
  <2> QED
      BY <1>1, <2>1, <2>4, <2>6, <2>7, <2>8, <2>9
<1>6. CASE provider \notin {"mimo", "http", "minimax"}
  <2>1. hold' = [hold EXCEPT ![r] = Audio(chunk)] /\ align' = align /\ rs' = rs
      BY <1>6 DEF audioFrame
  <2>2. provider \in Sockets /\ Even(s) = s /\ n % 2 = 0
      BY <1>2, <1>6, SynthesisAssumption DEF StreamInv, StreamType, AllProviders, Events, Source
  <2>3. Even(s + n) = s + n /\ Even(n) = n
      BY <1>1, <1>2, <2>2, EvenFacts
  <2>4. Source(r)'
      BY <1>3, <1>6, <2>2, <2>3 DEF Source
  <2>5. Firm(r) = Bytes(1, s) /\ Firm(r)' = Bytes(1, s + n)
      BY <1>3, <1>6, <2>2, <2>3 DEF Firm
  <2>6. chunk \in Seq(Sounds) /\ Len(chunk) = n /\ Bytes(1, s) \o chunk = Bytes(1, s + n)
      BY <1>1, <1>2, BytesFacts
  <2> DEFINE x == Audio(chunk)
  <2>7. hold' = [hold EXCEPT ![r] = x]
      BY <2>1
  <2> HIDE DEF chunk
  <2>8. x \in Chunks /\ x.pcm = chunk
      BY <2>3, <2>6, ChunkFacts
  <2> HIDE DEF x
  <2>9. Firm(r)' = Firm(r) \o x.pcm
      BY Zenon, <2>5, <2>6, <2>8
  <2> QED
      BY <1>1, <2>1, <2>4, <2>7, <2>8, <2>9
<1> QED
    BY <1>4, <1>5, <1>6

\* What the read loop hands to a stream
LEMMA MessagesTyped ==
    ASSUME NEW r \in Streams
    PROVE  /\ lost(r) \in Replies /\ lost(r).pcm = <<>>
           /\ sent[r] \in Nat => \A x \in Messages(r) :
                /\ x \in Replies
                /\ x.kind = "audio" => x.pcm = Bytes(sent[r] + 1, sent[r] + 2)
<1>1. <<>> \in Seq(Sounds) /\ Even(Len(<<>>)) = Len(<<>>)
  <2>1. <<>> \in Seq(Sounds) /\ Len(<<>>) = 0
      BY EmptySeq
  <2> QED
      BY <2>1 DEF Even
<1>2. lost(r) \in Replies /\ lost(r).pcm = <<>>
    BY <1>1 DEF lost, Replies
<1>3. ASSUME sent[r] \in Nat, NEW x \in Messages(r)
      PROVE  x \in Replies /\ (x.kind = "audio" => x.pcm = Bytes(sent[r] + 1, sent[r] + 2))
  <2> DEFINE b == Bytes(sent[r] + 1, sent[r] + 2)
  <2>1. b \in Seq(Sounds) /\ Len(b) = 2
      BY <1>3, BytesFacts
  <2>2. \/ x = [to |-> r, kind |-> "audio", pcm |-> b]
        \/ \E k \in {"done", "failed"} : x = [to |-> r, kind |-> k, pcm |-> <<>>]
    <3> HIDE DEF b
    <3>1. Messages(r) = {[to |-> r, kind |-> "audio", pcm |-> b] : y \in {z \in {1} : sent[r] < 2 * MaxChunks}}
                        \cup {[to |-> r, kind |-> k, pcm |-> <<>>] : k \in {"done", "failed"}}
        BY DEF Messages, b
    <3> QED
        BY Zenon, <1>3, <3>1
  <2> HIDE DEF b
  <2>3. Even(Len(b)) = Len(b)
    <3>1. Even(2) = 2
        BY DEF Even
    <3> QED
        BY <2>1, <3>1
  <2>4. CASE x = [to |-> r, kind |-> "audio", pcm |-> b]
      BY <2>1, <2>3, <2>4 DEF Replies, b
  <2>5. ASSUME NEW k \in {"done", "failed"}, x = [to |-> r, kind |-> k, pcm |-> <<>>]
        PROVE  x \in Replies /\ x.kind # "audio"
      BY <1>1, <2>5 DEF Replies
  <2> QED
      BY <2>2, <2>4, <2>5
<1> QED
    BY <1>2, <1>3

---------------------------------------------------------------------------
(* A sentence of a provider that dials per sentence *)

Track(r) == Trail(heard[r], out[r], hold[r])

\* A consumer that left has heard a part of what was on its way
Spoken(r) == IF reading[r] = "gone" THEN heard[r] ELSE Track(r)

Early == {"idle", "dial", "expect", "pump"}

Voice(r) ==
    /\ Source(r)
    /\ at[r] \in Early => /\ Starts(Spoken(r), Firm(r))
                          /\ reading[r] # "gone" => Track(r) = Firm(r)
    /\ at[r] \notin Early => Starts(Spoken(r), Sentence(r))
    /\ at[r] \in {"last", "closed"} /\ ~cancelled[r] /\ reading[r] # "gone" => Track(r) = Sentence(r)
    /\ at[r] \notin {"pump", "last", "error"} => hold[r] = Nothing
    /\ reading[r] = "done" => Closed(r) /\ out[r] = <<>>
    /\ at[r] = "idle" => reading[r] = "no"

\* Where a pump can be, and that it is not Cartesia's
LEMMA PumpFacts ==
    ASSUME StreamInv, NEW r \in Streams, Pumping(r)
    PROVE  provider # "cartesia" /\ at[r] = "pump" /\ hold[r] = Nothing
    BY DEF StreamInv, OwnWay, Pumping

\* The four things a frame can be
LEMMA ReadFrameFacts ==
    ASSUME StreamInv, NEW r \in Streams, readFrame(r)
    PROVE  \/ /\ provider \notin {"cartesia", "whole"} /\ at' = at
              /\ \E n \in FrameSizes : audioFrame(r, n)
           \/ provider \notin {"cartesia", "whole"} /\ endOfStream(r)
           \/ failedStream(r)
<1>1. provider # "cartesia"
    BY PumpFacts DEF readFrame
<1>2. CASE /\ frame("audio") = "audio"
           /\ \E n \in FrameSizes : sent[r] + n <= MaxBytes /\ audioFrame(r, n)
           /\ UNCHANGED at
  <2>1. provider # "whole"
      BY <1>2 DEF frame
  <2> QED
      BY <1>1, <1>2, <2>1
<1>3. CASE provider \in Sockets \cup {"mimo"} /\ frame("end") = "end" /\ endOfStream(r)
    BY <1>3 DEF Sockets
<1>4. CASE provider = "minimax" /\ sent[r] > 0 /\ summaryFrame(r)
  <2>1. frame("summary") = "end"
      BY <1>4 DEF frame, minimaxEvent
  <2>2. endOfStream(r)
      BY <1>4, <2>1 DEF summaryFrame
  <2> QED
      BY <1>4, <2>2
<1>5. CASE provider # "http" /\ frame("failed") = "failed" /\ failedStream(r)
    BY <1>5
<1> QED
    BY <1>2, <1>3, <1>4, <1>5 DEF readFrame

\* The audio in the channels is what it should be, whatever step is taken
LEMMA AudioTyped ==
    ASSUME StreamInv, AudioType, \A r \in Streams : provider # "cartesia" => Source(r), [Next]_vars
    PROVE  AudioType' /\ provider' = provider
<1> USE DEF AudioType
<1>0. /\ Nothing \in Chunks /\ Err \in Chunks
      /\ \A x \in Chunks : x.pcm \in Seq(Sounds)
      /\ \A x \in Replies : Audio(x.pcm) \in Chunks
    BY ChunkFacts
<1>1. provider' = provider => Chunks' = Chunks
    BY DEF Chunks, Pieces
<1>2. Replies' = Replies
    BY DEF Replies
<1>3. CASE UNCHANGED vars
    BY <1>1, <1>2, <1>3 DEF vars, wsVars
<1>4. ASSUME NEW r \in Streams, nextSentence(r) \/ dial(r) \/ expect(r) \/ watch(r) \/ closeStream(r)
      PROVE  AudioType' /\ provider' = provider
  <2>1. UNCHANGED <<provider, hold, out, heard, align, rs, carried, inner, respCh>>
      BY <1>4 DEF nextSentence, dial, expect, watch, closeStream, streamVars, wsVars
  <2> QED
      BY <1>1, <1>2, <2>1
<1>5. ASSUME NEW r \in Streams, endOfStream(r), provider \notin {"cartesia", "whole"},
             UNCHANGED <<provider, out, heard, carried, inner, respCh>>
      PROVE  AudioType'
  <2>1. flushAtEnd(r) \in Chunks
      BY <1>5, FirmFacts
  <2>2. hold' \in [Streams -> Chunks] /\ UNCHANGED <<align, rs>>
      BY <1>5, <2>1 DEF endOfStream
  <2> QED
      BY <1>1, <1>2, <1>5, <2>2
<1>6. ASSUME NEW r \in Streams, failedStream(r),
             UNCHANGED <<provider, out, heard, carried, inner, respCh>>
      PROVE  AudioType'
  <2>1. hold' \in [Streams -> Chunks] /\ UNCHANGED <<align, rs>>
      BY <1>0, <1>6 DEF failedStream
  <2> QED
      BY <1>1, <1>2, <1>6, <2>1
<1>7. ASSUME NEW r \in Streams, readFrame(r) PROVE AudioType' /\ provider' = provider
  <2>1. UNCHANGED <<provider, out, heard, carried, inner, respCh>>
      BY <1>7 DEF readFrame, wsVars
  <2>2. ASSUME provider \notin {"cartesia", "whole"}, NEW n \in FrameSizes, audioFrame(r, n)
        PROVE  AudioType'
    <3>1. /\ rs' \in [Streams -> Resamplers] /\ align' \in [Streams -> Seq(Sounds)]
          /\ \E x \in Chunks : hold' = [hold EXCEPT ![r] = x]
        BY <2>1, <2>2, FrameFacts
    <3>2. hold' \in [Streams -> Chunks]
        BY <3>1
    <3> QED
        BY <1>1, <1>2, <2>1, <3>1, <3>2
  <2> QED
      BY <1>5, <1>6, <1>7, <2>1, <2>2, ReadFrameFacts
<1>8. ASSUME NEW r \in Streams, endOfBody(r) PROVE AudioType' /\ provider' = provider
  <2>1. UNCHANGED <<provider, out, heard, carried, inner, respCh>> /\ endOfStream(r)
      BY <1>8 DEF endOfBody, wsVars
  <2>2. provider \notin {"cartesia", "whole"}
      BY <1>8 DEF endOfBody, Events
  <2> QED
      BY <1>5, <2>1, <2>2
<1>9. ASSUME NEW r \in Streams, readFails(r) PROVE AudioType' /\ provider' = provider
  <2>1. UNCHANGED <<provider, out, heard, carried, inner, respCh>>
      BY <1>9 DEF readFails, wsVars
  <2>2. UNCHANGED <<hold, align, rs>> \/ failedStream(r)
      BY <1>9 DEF readFails
  <2>3. CASE UNCHANGED <<hold, align, rs>>
      BY <1>1, <1>2, <2>1, <2>3
  <2> QED
      BY <1>6, <2>1, <2>2, <2>3
<1>10. ASSUME NEW r \in Streams, streamWhole(r) PROVE AudioType' /\ provider' = provider
  <2>1. UNCHANGED <<provider, out, heard, align, rs, carried, inner, respCh>> /\ provider = "whole"
      BY <1>10 DEF streamWhole, streamVars, wsVars
  <2>2. PICK x : hold' = [hold EXCEPT ![r] = x] /\ (x = Err \/ \E n \in 1 .. MaxBytes : x = Audio(resample24kTo16k(n \div 2)))
      BY <1>10 DEF streamWhole
  <2>3. ASSUME NEW n \in 1 .. MaxBytes PROVE Audio(resample24kTo16k(n \div 2)) \in Chunks
    <3>1. n \div 2 \in Nat
        BY SMTT(30), SynthesisAssumption
    <3>2. resample24kTo16k(n \div 2) \in Seq(Sounds)
        BY <3>1, ResampledFacts
    <3> QED
        BY <2>1, <3>2, ChunkFacts
  <2>4. x \in Chunks
      BY <1>0, <2>2, <2>3
  <2>5. hold' \in [Streams -> Chunks]
      BY <2>2, <2>4
  <2> QED
      BY <1>1, <1>2, <2>1, <2>5
<1>11. ASSUME NEW r \in Streams, emit(r) PROVE AudioType' /\ provider' = provider
  <2>1. UNCHANGED <<provider, heard, align, rs, carried, inner, respCh>>
        /\ hold' = [hold EXCEPT ![r] = Nothing]
        /\ (out' = out \/ out' = [out EXCEPT ![r] = Append(out[r], hold[r])])
      BY <1>11 DEF emit, streamVars, wsVars
  <2>2. hold' \in [Streams -> Chunks]
      BY <1>0, <2>1
  <2>3. out' \in [Streams -> Seq(Chunks)]
    <3>1. Append(out[r], hold[r]) \in Seq(Chunks)
        OBVIOUS
    <3> QED
        BY <2>1, <3>1
  <2> QED
      BY <1>1, <1>2, <2>1, <2>2, <2>3
<1>12. ASSUME NEW r \in Streams, acquire(r) \/ relayEnds(r) \/ ensureConnected(r) \/ writeRequest(r)
       PROVE  AudioType' /\ provider' = provider
  <2>1. UNCHANGED <<provider, hold, out, heard, align, rs, carried, inner, respCh>>
      BY <1>12 DEF acquire, relayEnds, ensureConnected, writeRequest, rest, streamVars, wsVars
  <2> QED
      BY <1>1, <1>2, <2>1
<1>13. ASSUME NEW r \in Streams, relayChunk(r) PROVE AudioType' /\ provider' = provider
  <2>1. UNCHANGED <<provider, hold, heard, align, rs, carried, respCh>>
        /\ inner[r] # <<>>
        /\ out' = [out EXCEPT ![r] = Append(out[r], Head(inner[r]))]
        /\ inner' = [inner EXCEPT ![r] = Tail(inner[r])]
      BY <1>13 DEF relayChunk, rest, streamVars
  <2>2. Head(inner[r]) \in Chunks /\ Tail(inner[r]) \in Seq(Chunks)
    <3>1. inner[r] \in Seq(Chunks)
        OBVIOUS
    <3> QED
        BY <2>1, <3>1
  <2>3. Append(out[r], Head(inner[r])) \in Seq(Chunks)
      BY <2>2
  <2>4. out' \in [Streams -> Seq(Chunks)] /\ inner' \in [Streams -> Seq(Chunks)]
      BY <2>1, <2>2, <2>3
  <2> QED
      BY <1>1, <1>2, <2>1, <2>4
<1>14. ASSUME NEW r \in Streams, bridgeReceives(r) PROVE AudioType' /\ provider' = provider
  <2> DEFINE msg == Head(respCh[r])
  <2>1. UNCHANGED <<provider, hold, out, heard, align, rs, inner>> /\ respCh[r] # <<>>
      BY <1>14 DEF bridgeReceives, bridgeVars, rest, streamVars
  <2>2. msg \in Replies /\ Tail(respCh[r]) \in Seq(Replies) /\ <<>> \in Seq(Replies)
    <3>1. respCh[r] \in Seq(Replies)
        OBVIOUS
    <3> QED
        BY <2>1, <3>1, EmptySeq
  <2>3. \/ carried' = carried /\ respCh' = [respCh EXCEPT ![r] = <<>>]
        \/ /\ carried' = [carried EXCEPT ![r] = IF msg.kind = "audio" THEN Audio(msg.pcm) ELSE Err]
           /\ respCh' = [respCh EXCEPT ![r] = Tail(respCh[r])]
      BY <1>14 DEF bridgeReceives, bridgeEnds
  <2> HIDE DEF msg
  <2>4. (IF msg.kind = "audio" THEN Audio(msg.pcm) ELSE Err) \in Chunks
      BY <1>0, <2>2
  <2> DEFINE x == IF msg.kind = "audio" THEN Audio(msg.pcm) ELSE Err
             t == Tail(respCh[r])
  <2>5. carried' \in [Streams -> Chunks] /\ respCh' \in [Streams -> Seq(Replies)]
    <3>1. \/ carried' = carried /\ respCh' = [respCh EXCEPT ![r] = <<>>]
          \/ carried' = [carried EXCEPT ![r] = x] /\ respCh' = [respCh EXCEPT ![r] = t]
        BY Zenon, <2>3
    <3>2. x \in Chunks /\ t \in Seq(Replies) /\ <<>> \in Seq(Replies)
        BY <2>2, <2>4
    <3> HIDE DEF x, t
    <3> QED
        BY <3>1, <3>2
  <2> QED
      BY <1>1, <1>2, <2>1, <2>5
<1>15. ASSUME NEW r \in Streams, bridgeSends(r) PROVE AudioType' /\ provider' = provider
  <2>1. UNCHANGED <<provider, hold, out, heard, align, rs>>
        /\ inner' = [inner EXCEPT ![r] = Append(inner[r], carried[r])]
        /\ carried' = [carried EXCEPT ![r] = Nothing]
        /\ (respCh' = respCh \/ respCh' = [respCh EXCEPT ![r] = <<>>])
      BY <1>15 DEF bridgeSends, bridgeEnds, bridgeVars, rest, streamVars
  <2>2. Append(inner[r], carried[r]) \in Seq(Chunks) /\ <<>> \in Seq(Replies)
      BY EmptySeq
  <2>3. carried' \in [Streams -> Chunks] /\ respCh' \in [Streams -> Seq(Replies)]
        /\ inner' \in [Streams -> Seq(Chunks)]
      BY <1>0, <2>1, <2>2
  <2> QED
      BY <1>1, <1>2, <2>1, <2>3
<1>16. ASSUME NEW r \in Streams, sendCancel(r) PROVE AudioType' /\ provider' = provider
  <2>1. UNCHANGED <<provider, hold, out, heard, align, rs, carried, inner>>
        /\ respCh' = [respCh EXCEPT ![r] = <<>>]
      BY <1>16 DEF sendCancel, bridgeEnds, bridgeVars, rest, streamVars
  <2>2. respCh' \in [Streams -> Seq(Replies)]
      BY <2>1, EmptySeq
  <2> QED
      BY <1>1, <1>2, <2>1, <2>2
<1>17. ASSUME NEW r \in Streams, consume(r) PROVE AudioType' /\ provider' = provider
  <2> DEFINE x == Head(out[r])
             w == IF provider \in {"mimo", "whole"} THEN Len(x.pcm) ELSE Even(Len(x.pcm))
             h == heard[r] \o SubSeq(x.pcm, 1, w)
  <2>1. UNCHANGED <<provider, hold, align, rs, carried, inner, respCh>> /\ out[r] # <<>>
        /\ out' = [out EXCEPT ![r] = Tail(out[r])]
        /\ (heard' = heard \/ heard' = [heard EXCEPT ![r] = h])
    <3>1. UNCHANGED <<provider, hold, align, rs, carried, inner, respCh>> /\ out[r] # <<>>
          /\ out' = [out EXCEPT ![r] = Tail(out[r])]
        BY <1>17 DEF consume, streamVars, wsVars
    <3>2. heard' = [heard EXCEPT ![r] = IF cancelled[r] \/ x.err THEN heard[r] ELSE h]
        BY <1>17 DEF consume
    <3> HIDE DEF h, x
    <3>3. [heard EXCEPT ![r] = heard[r]] = heard
        OBVIOUS
    <3> QED
        BY <3>1, <3>2, <3>3
  <2>2. x \in Chunks /\ Tail(out[r]) \in Seq(Chunks)
    <3>1. out[r] \in Seq(Chunks)
        OBVIOUS
    <3> QED
        BY <2>1, <3>1
  <2> HIDE DEF x
  <2>3. SubSeq(x.pcm, 1, w) = x.pcm /\ x.pcm \in Seq(Sounds)
    <3>1. w = Len(x.pcm)
        BY <2>2 DEF Chunks
    <3>2. x.pcm \in Seq(Sounds)
        BY <1>0, <2>2
    <3> QED
        BY <3>1, <3>2
  <2>4. h \in Seq(Sounds)
    <3>1. heard[r] \in Seq(Sounds)
        OBVIOUS
    <3> DEFINE y == SubSeq(x.pcm, 1, w)
    <3>2. y \in Seq(Sounds)
        BY <2>3
    <3> HIDE DEF y
    <3>3. heard[r] \o y \in Seq(Sounds)
        BY <3>1, <3>2, Joined
    <3> QED
        BY <3>3 DEF y
  <2> HIDE DEF h
  <2>5. out' \in [Streams -> Seq(Chunks)] /\ heard' \in [Streams -> Seq(Sounds)]
      BY <2>1, <2>2, <2>4
  <2> QED
      BY <1>1, <1>2, <2>1, <2>5
<1>18. ASSUME NEW r \in Streams, abandon(r) \/ consumed(r) \/ bargeIn(r)
       PROVE  AudioType' /\ provider' = provider
  <2>1. UNCHANGED <<provider, hold, out, heard, align, rs, carried, inner, respCh>>
      BY <1>18 DEF abandon, consumed, bargeIn, rest, streamVars, wsVars
  <2> QED
      BY <1>1, <1>2, <2>1
<1>19. ASSUME NEW k \in Conns, connectionDrops(k) \/ readLoopEnds(k)
       PROVE  AudioType' /\ provider' = provider
  <2>1. UNCHANGED <<provider, hold, out, heard, align, rs, carried, inner, respCh>>
      BY <1>19 DEF connectionDrops, readLoopEnds, rest, streamVars
  <2> QED
      BY <1>1, <1>2, <2>1
<1>20. ASSUME NEW k \in Conns, readMessage(k) PROVE AudioType' /\ provider' = provider
  <2>1. UNCHANGED <<provider, hold, out, heard, align, rs, carried, inner>>
      BY <1>20 DEF readMessage, streamVars
  <2>0. PICK r \in pending : \E msg \in Messages(r) :
          respCh' = IF Len(respCh[r]) < PendingBuf THEN [respCh EXCEPT ![r] = Append(respCh[r], msg)] ELSE respCh
      BY <1>20 DEF readMessage
  <2>2. PICK msg \in Messages(r) :
          respCh' = IF Len(respCh[r]) < PendingBuf THEN [respCh EXCEPT ![r] = Append(respCh[r], msg)] ELSE respCh
      BY <2>0
  <2>3. r \in Streams /\ sent[r] \in Nat
      BY DEF StreamInv, StreamType
  <2>4. msg \in Replies
      BY <2>3, MessagesTyped
  <2>5. Append(respCh[r], msg) \in Seq(Replies)
      BY <2>3, <2>4
  <2>6. respCh' \in [Streams -> Seq(Replies)]
      BY <2>2, <2>3, <2>5
  <2> QED
      BY <1>1, <1>2, <2>1, <2>6
<1>21. ASSUME NEW k \in Conns, notifyAllError(k) PROVE AudioType' /\ provider' = provider
  <2>1. UNCHANGED <<provider, hold, out, heard, align, rs, carried, inner>>
        /\ respCh' = [r \in Streams |-> IF r \in pending /\ Len(respCh[r]) < PendingBuf
                                        THEN Append(respCh[r], lost(r)) ELSE respCh[r]]
      BY <1>21 DEF notifyAllError, rest, streamVars
  <2>2. ASSUME NEW r \in Streams
        PROVE (IF r \in pending /\ Len(respCh[r]) < PendingBuf
               THEN Append(respCh[r], lost(r)) ELSE respCh[r]) \in Seq(Replies)
    <3>1. respCh[r] \in Seq(Replies) /\ lost(r) \in Replies
        BY MessagesTyped
    <3> QED
        BY <3>1
  <2>3. respCh' \in [Streams -> Seq(Replies)]
      BY <2>1, <2>2
  <2> QED
      BY <1>1, <1>2, <2>1, <2>3
<1> QED
    BY <1>3, <1>4, <1>7, <1>8, <1>9, <1>10, <1>11, <1>12, <1>13, <1>14, <1>15, <1>16, <1>17,
       <1>18, <1>19, <1>20, <1>21 DEF Next

\* What the step leaves alone of a stream's audio, and all of a stream
Still(r) ==
    /\ provider' = provider /\ sent'[r] = sent[r] /\ align'[r] = align[r] /\ rs'[r] = rs[r]
    /\ hold'[r] = hold[r] /\ out'[r] = out[r] /\ heard'[r] = heard[r]

Same(r) ==
    Still(r) /\ at'[r] = at[r] /\ cancelled'[r] = cancelled[r] /\ reading'[r] = reading[r]

\* A stream whose audio is left alone keeps what is derived from it
LEMMA StillFacts ==
    ASSUME NEW r, Still(r)
    PROVE  /\ Track(r)' = Track(r) /\ Firm(r)' = Firm(r) /\ Sentence(r)' = Sentence(r)
           /\ Source(r) => Source(r)'
<1>1. Track(r)' = Track(r)
    BY DEF Still, Track, Trail, Queued
<1>2. Firm(r)' = Firm(r)
    BY DEF Still, Firm, Windows, windowLo, center
<1>3. Sentence(r)' = Sentence(r)
    BY DEF Still, Sentence
<1>4. Source(r) => Source(r)'
    BY DEF Still, Source
<1> QED
    BY <1>1, <1>2, <1>3, <1>4

\* A stream the step does not touch keeps its part of the invariant
LEMMA VoiceSame ==
    ASSUME NEW r, Voice(r), Same(r)
    PROVE  Voice(r)'
<1>1. /\ Track(r)' = Track(r) /\ Firm(r)' = Firm(r) /\ Sentence(r)' = Sentence(r) /\ Source(r)'
    BY StillFacts DEF Same, Voice
<1>2. Spoken(r)' = Spoken(r)
    BY <1>1 DEF Same, Still, Spoken
<1>3. /\ Starts(Spoken(r), Firm(r)) => Starts(Spoken(r), Firm(r))'
      /\ Starts(Spoken(r), Sentence(r)) => Starts(Spoken(r), Sentence(r))'
    BY <1>1, <1>2 DEF Starts
<1> QED
    BY <1>1, <1>2, <1>3 DEF Voice, Same, Still, Closed

\* What is heard, on its way, firm and whole, for the steps of one stream
LEMMA VoiceFacts ==
    ASSUME StreamInv, AudioType, NEW r \in Streams, Source(r), provider # "cartesia"
    PROVE  /\ heard[r] \in Seq(Sounds) /\ Track(r) \in Seq(Sounds) /\ Spoken(r) \in Seq(Sounds)
           /\ Firm(r) \in Seq(Sounds) /\ Sentence(r) \in Seq(Sounds)
           /\ Starts(heard[r], Track(r)) /\ Starts(Firm(r), Sentence(r))
           /\ \A s, t, u \in Seq(Sounds) : Starts(s, t) /\ Starts(t, u) => Starts(s, u)
           /\ \A s \in Seq(Sounds) : Starts(s, s)
<1>1. heard[r] \in Seq(Sounds) /\ out[r] \in Seq(Chunks) /\ hold[r] \in Chunks
    BY DEF AudioType
<1>2. Track(r) \in Seq(Sounds) /\ Starts(heard[r], Track(r))
    BY <1>1, TrailFacts DEF Track
<1>3. Spoken(r) \in Seq(Sounds)
    BY <1>1, <1>2 DEF Spoken
<1>4. Firm(r) \in Seq(Sounds) /\ Sentence(r) \in Seq(Sounds) /\ Starts(Firm(r), Sentence(r))
    BY FirmFacts
<1>5. \A s, t, u \in Seq(Sounds) : Starts(s, t) /\ Starts(t, u) => Starts(s, u)
    BY StartFacts
<1>6. \A s \in Seq(Sounds) : Starts(s, s)
    BY StartFacts
<1> QED
    BY <1>1, <1>2, <1>3, <1>4, <1>5, <1>6

\* Steps of one stream that move no audio
LEMMA VoiceQuiet ==
    ASSUME StreamInv, AudioType, NEW r \in Streams, Voice(r), provider # "cartesia", Still(r),
           \/ /\ at[r] = "idle" /\ at'[r] = "dial" /\ cancelled'[r] = cancelled[r] /\ reading'[r] = "yes"
           \/ /\ at[r] \in {"dial", "expect"} /\ at'[r] \in {"expect", "pump"}
              /\ cancelled'[r] = cancelled[r] /\ reading'[r] = reading[r]
           \/ /\ at[r] \in {"dial", "expect"} /\ at'[r] = "failed"
              /\ cancelled'[r] = cancelled[r] /\ reading'[r] = "gone"
           \/ /\ at[r] = "last" /\ at'[r] = "closed" /\ hold[r] = Nothing
              /\ cancelled'[r] = cancelled[r] /\ reading'[r] = reading[r]
           \/ /\ at[r] = "error" /\ at'[r] = "broken" /\ hold[r] = Nothing
              /\ cancelled'[r] = cancelled[r] /\ reading'[r] = reading[r]
           \/ /\ at[r] = "pump" /\ at'[r] = "last" /\ cancelled[r]
              /\ cancelled'[r] = cancelled[r] /\ reading'[r] = reading[r]
           \/ /\ at'[r] = at[r] /\ cancelled'[r] = cancelled[r]
              /\ reading[r] = "yes" /\ reading'[r] = "gone"
           \/ /\ at'[r] = at[r] /\ cancelled'[r] = cancelled[r] /\ reading[r] = "yes"
              /\ reading'[r] = "done" /\ Closed(r) /\ out[r] = <<>>
           \/ /\ at'[r] = at[r] /\ cancelled'[r] = TRUE /\ reading'[r] = reading[r]
    PROVE  Voice(r)'
<1> DEFINE h == heard[r]
           T == Track(r)
           P == Spoken(r)
           F == Firm(r)
           S == Sentence(r)
<1>1. /\ Track(r)' = T /\ Firm(r)' = F /\ Sentence(r)' = S /\ Source(r)' /\ heard'[r] = h
      /\ hold'[r] = hold[r] /\ out'[r] = out[r]
    BY StillFacts DEF Still, Voice
<1>2. /\ h \in Seq(Sounds) /\ T \in Seq(Sounds) /\ P \in Seq(Sounds)
      /\ F \in Seq(Sounds) /\ S \in Seq(Sounds)
      /\ Starts(h, T) /\ Starts(F, S)
      /\ \A s, t, u \in Seq(Sounds) : Starts(s, t) /\ Starts(t, u) => Starts(s, u)
      /\ \A s \in Seq(Sounds) : Starts(s, s)
    BY VoiceFacts DEF Voice
<1>3. P = (IF reading[r] = "gone" THEN h ELSE T) /\ Spoken(r)' = (IF reading'[r] = "gone" THEN h ELSE T)
    BY <1>1 DEF Spoken
<1>4. /\ at[r] \in Early => Starts(P, F) /\ (reading[r] # "gone" => T = F)
      /\ at[r] \notin Early => Starts(P, S)
      /\ at[r] \in {"last", "closed"} /\ ~cancelled[r] /\ reading[r] # "gone" => T = S
      /\ at[r] \notin {"pump", "last", "error"} => hold[r] = Nothing
      /\ reading[r] = "done" => Closed(r) /\ out[r] = <<>>
      /\ at[r] = "idle" => reading[r] = "no"
    BY DEF Voice
<1> HIDE DEF h, T, P, F, S
<1>5. Starts(h, P)
    BY <1>2, <1>3
<1>6. Starts(P, S)
    BY <1>2, <1>4
<1> DEFINE Q == IF reading'[r] = "gone" THEN h ELSE T
<1>7. reading'[r] # "gone" => reading[r] # "gone"
    BY <1>4
<1>8. Q \in Seq(Sounds) /\ Starts(Q, P)
    BY <1>2, <1>3, <1>5, <1>7
<1>9. Starts(Q, S) /\ (at[r] \in Early => Starts(Q, F))
    BY <1>2, <1>4, <1>6, <1>8
<1> HIDE DEF Q
<1>10. at'[r] \in Early => at[r] \in Early
    BY DEF Early
<1>11. /\ at'[r] \in Early => Starts(Q, F) /\ (reading'[r] # "gone" => T = F)
       /\ at'[r] \notin Early => Starts(Q, S)
       /\ at'[r] \in {"last", "closed"} /\ ~cancelled'[r] /\ reading'[r] # "gone" => T = S
    BY <1>4, <1>7, <1>9, <1>10 DEF Early
<1>12. at'[r] \notin {"pump", "last", "error"} => hold[r] = Nothing
    BY <1>4
<1>13. (reading'[r] = "done" => at'[r] \in {"closed", "broken"} /\ out[r] = <<>>)
    BY <1>4 DEF Closed
<1>14. at'[r] = "idle" => reading'[r] = "no"
    BY <1>4, <1>13 DEF Closed
<1>15. /\ Starts(Q, F) => Starts(Spoken(r), Firm(r))'
       /\ Starts(Q, S) => Starts(Spoken(r), Sentence(r))'
    BY <1>1, <1>3 DEF Starts, Q
<1> QED
    BY <1>1, <1>11, <1>12, <1>13, <1>14, <1>15 DEF Voice, Closed

\* The whole sentence is one of samples after a step too
LEMMA SentenceAfter ==
    ASSUME StreamInv', NEW r \in Streams
    PROVE  Sentence(r)' \in Seq(Sounds)
<1> DEFINE s == sent'[r]
<1>1. s \in Nat
    BY DEF StreamInv, StreamType
<1>2. Sentence(r)' = IF provider' \in {"mimo", "whole"} THEN resample24kTo16k(s \div 2) ELSE Bytes(1, Even(s))
    BY DEF Sentence
<1> HIDE DEF s
<1>3. s \div 2 \in Nat
    BY <1>1
<1>4. resample24kTo16k(s \div 2) \in Seq(Sounds)
    BY <1>3, ResampledFacts
<1>5. Bytes(1, Even(s)) \in Seq(Sounds)
    BY <1>1, EvenFacts, BytesFacts
<1> QED
    BY <1>2, <1>4, <1>5

\* The pump gets a new chunk to send
LEMMA VoiceGains ==
    ASSUME StreamInv, AudioType, NEW r \in Streams, Voice(r), provider # "cartesia",
           StreamInv', AudioType', provider' = provider, Source(r)',
           at[r] = "pump", hold[r] = Nothing, at'[r] \in {"pump", "last", "error"},
           NEW x \in Chunks, hold'[r] = x, out'[r] = out[r], heard'[r] = heard[r],
           reading'[r] = reading[r],
           at'[r] = "pump" => Firm(r)' = Firm(r) \o x.pcm,
           at'[r] = "last" => Sentence(r)' = Firm(r) \o x.pcm,
           at'[r] = "error" => x.pcm = <<>> /\ Starts(Firm(r), Sentence(r)')
    PROVE  Voice(r)'
<1> DEFINE h == heard[r]
           T == Track(r)
           P == Spoken(r)
           F == Firm(r)
           G == Firm(r)'
           S == Sentence(r)'
           p == x.pcm
           U == F \o p
<1>1. /\ h \in Seq(Sounds) /\ T \in Seq(Sounds) /\ P \in Seq(Sounds) /\ F \in Seq(Sounds)
      /\ Starts(h, T)
      /\ \A s, t, u \in Seq(Sounds) : Starts(s, t) /\ Starts(t, u) => Starts(s, u)
      /\ \A s \in Seq(Sounds) : Starts(s, s)
    BY VoiceFacts DEF Voice
<1>2. p \in Seq(Sounds) /\ h \in Seq(Sounds) /\ out[r] \in Seq(Chunks)
    BY ChunkFacts DEF AudioType
<1>3. T = Trail(h, out[r], Nothing) /\ Track(r)' = Trail(h, out[r], x)
    BY Zenon DEF Track
<1>4. Trail(h, out[r], x) = Trail(h, out[r], Nothing) \o p
    BY <1>2, TrailFacts
<1>5. Starts(P, F) /\ (reading[r] # "gone" => T = F) /\ (P = IF reading[r] = "gone" THEN h ELSE T)
    BY DEF Voice, Early, Spoken
<1>6. S \in Seq(Sounds) /\ (at'[r] = "pump" => G = U) /\ (at'[r] = "last" => S = U)
      /\ (at'[r] = "error" => p = <<>> /\ Starts(F, S))
  <2>1. S \in Seq(Sounds)
      BY SentenceAfter
  <2> QED
      BY <2>1
<1>7. Spoken(r)' = (IF reading[r] = "gone" THEN h ELSE Track(r)')
    BY DEF Spoken
<1>8. reading[r] # "done"
    BY DEF Voice, Closed
<1> HIDE DEF h, T, P, F, G, S, p
<1>9. Track(r)' = T \o p
    BY Zenon, <1>3, <1>4
<1>10. reading[r] # "gone" => Track(r)' = U
    BY Zenon, <1>5, <1>9
<1>11. U \in Seq(Sounds) /\ Starts(F, U)
    BY <1>1, <1>2, StartFacts
<1>12. p = <<>> => U = F
    BY <1>1, Joined
<1> HIDE DEF U
<1>13. Starts(h, F) \/ reading[r] # "gone"
    BY <1>5
<1> DEFINE Q == IF reading[r] = "gone" THEN h ELSE U
<1>14. Q \in Seq(Sounds) /\ Starts(Q, U)
    BY <1>1, <1>11, <1>13
<1>15. at'[r] = "error" => Starts(Q, S)
    BY <1>1, <1>6, <1>12, <1>14
<1>16. Spoken(r)' = Q
    BY <1>7, <1>10
<1> HIDE DEF Q
<1>17. at'[r] = "pump" => Starts(Q, G)
    BY <1>6, <1>14
<1>18. at'[r] # "pump" => Starts(Q, S)
    BY <1>6, <1>14, <1>15
<1>19. /\ Starts(Q, G) => Starts(Spoken(r), Firm(r))'
       /\ Starts(Q, S) => Starts(Spoken(r), Sentence(r))'
    BY <1>16 DEF Starts, G, S
<1>20. /\ at'[r] = "pump" /\ reading[r] # "gone" => Track(r)' = Firm(r)'
       /\ at'[r] = "last" /\ reading[r] # "gone" => Track(r)' = Sentence(r)'
    BY <1>6, <1>10 DEF G, S
<1> QED
    BY <1>8, <1>17, <1>18, <1>19, <1>20 DEF Voice, Early

\* The pump hands its chunk over, or gives up when the turn is cancelled
LEMMA VoiceSends ==
    ASSUME StreamInv, AudioType, NEW r \in Streams, Voice(r), provider # "cartesia",
           provider' = provider, sent'[r] = sent[r], align'[r] = align[r], rs'[r] = rs[r],
           heard'[r] = heard[r], reading'[r] = reading[r], cancelled'[r] = cancelled[r],
           hold[r] # Nothing, hold'[r] = Nothing,
           \/ out'[r] = Append(out[r], hold[r]) /\ at'[r] = at[r]
           \/ out'[r] = out[r] /\ cancelled[r] /\ at'[r] = "last"
    PROVE  Voice(r)'
<1> DEFINE h == heard[r]
           T == Track(r)
           P == Spoken(r)
           F == Firm(r)
           S == Sentence(r)
           V == Track(r)'
<1>1. /\ h \in Seq(Sounds) /\ T \in Seq(Sounds) /\ P \in Seq(Sounds)
      /\ F \in Seq(Sounds) /\ S \in Seq(Sounds)
      /\ Starts(h, T) /\ Starts(F, S)
      /\ \A s, t, u \in Seq(Sounds) : Starts(s, t) /\ Starts(t, u) => Starts(s, u)
      /\ \A s \in Seq(Sounds) : Starts(s, s)
    BY VoiceFacts DEF Voice
<1>2. /\ at[r] \in Early => Starts(P, F) /\ (reading[r] # "gone" => T = F)
      /\ at[r] \notin Early => Starts(P, S)
      /\ at[r] \in {"last", "closed"} /\ ~cancelled[r] /\ reading[r] # "gone" => T = S
      /\ at[r] \in {"pump", "last", "error"}
      /\ reading[r] = "done" => Closed(r) /\ out[r] = <<>>
      /\ P = (IF reading[r] = "gone" THEN h ELSE T)
    BY DEF Voice, Spoken
<1>3. reading[r] # "done"
    BY <1>2 DEF Closed
<1>4. /\ Firm(r)' = F /\ Sentence(r)' = S /\ Source(r)'
  <2>1. Firm(r)' = F
      BY DEF Firm, Windows, windowLo, center
  <2>2. Sentence(r)' = S
      BY DEF Sentence
  <2>3. Source(r)'
      BY DEF Source, Voice
  <2> QED
      BY <2>1, <2>2, <2>3
<1>5. V \in Seq(Sounds) /\ Starts(V, T) /\ (out'[r] = Append(out[r], hold[r]) => V = T)
  <2>1. h \in Seq(Sounds) /\ out[r] \in Seq(Chunks) /\ hold[r] \in Chunks /\ Nothing \in Chunks
      BY ChunkFacts DEF AudioType
  <2>2. T = Trail(h, out[r], hold[r]) /\ V = Trail(h, out'[r], Nothing)
      BY Zenon DEF Track
  <2>3. /\ Trail(h, out[r], Nothing) \in Seq(Sounds) /\ Starts(Trail(h, out[r], Nothing), Trail(h, out[r], hold[r]))
        /\ Trail(h, Append(out[r], hold[r]), Nothing) = Trail(h, out[r], hold[r])
      BY <2>1, TrailFacts
  <2> HIDE DEF T, V, h
  <2>4. CASE out'[r] = Append(out[r], hold[r])
      BY <1>1, <2>2, <2>3, <2>4
  <2>5. CASE out'[r] = out[r]
    <3>1. V = Trail(h, out[r], Nothing)
        BY <2>2, <2>5
    <3>2. V = T \/ out'[r] # Append(out[r], hold[r])
        BY Zenon, <2>2, <2>3
    <3> QED
        BY <2>2, <2>3, <3>1, <3>2
  <2> QED
      BY <2>4, <2>5
<1>6. Spoken(r)' = (IF reading[r] = "gone" THEN h ELSE V)
    BY DEF Spoken
<1> HIDE DEF h, T, P, F, S, V
<1> DEFINE Q == IF reading[r] = "gone" THEN h ELSE V
<1>7. Q \in Seq(Sounds) /\ Starts(Q, P)
    BY <1>1, <1>2, <1>5
<1>8. Starts(P, S)
    BY <1>1, <1>2
<1>9. Starts(Q, S) /\ (at[r] \in Early => Starts(Q, F))
    BY <1>1, <1>2, <1>7, <1>8
<1> HIDE DEF Q
<1>10. at'[r] \in {"pump", "last", "error"} /\ (at'[r] \in Early => at[r] \in Early)
    BY <1>2 DEF Early
<1>11. /\ at'[r] \in Early => Starts(Q, F) /\ (reading[r] # "gone" => V = F)
       /\ at'[r] \notin Early => Starts(Q, S)
       /\ at'[r] \in {"last", "closed"} /\ ~cancelled[r] /\ reading[r] # "gone" => V = S
    BY <1>2, <1>5, <1>9, <1>10 DEF Early
<1>12. /\ Starts(Q, F) => Starts(Spoken(r), Firm(r))'
       /\ Starts(Q, S) => Starts(Spoken(r), Sentence(r))'
    BY <1>4, <1>6 DEF Starts, Q
<1> QED
    BY <1>3, <1>4, <1>10, <1>11, <1>12 DEF Voice, V

\* The consumer takes a chunk, whole, or leaves
LEMMA VoiceHeard ==
    ASSUME StreamInv, AudioType, NEW r \in Streams, Voice(r), provider # "cartesia", consume(r)
    PROVE  Voice(r)'
<1> DEFINE h == heard[r]
           T == Track(r)
           F == Firm(r)
           S == Sentence(r)
           x == Head(out[r])
           w == IF provider \in {"mimo", "whole"} THEN Len(x.pcm) ELSE Even(Len(x.pcm))
<1>1. /\ h \in Seq(Sounds) /\ T \in Seq(Sounds) /\ F \in Seq(Sounds) /\ S \in Seq(Sounds)
      /\ Starts(h, T) /\ Starts(F, S)
      /\ \A s, t, u \in Seq(Sounds) : Starts(s, t) /\ Starts(t, u) => Starts(s, u)
      /\ \A s \in Seq(Sounds) : Starts(s, s)
    BY VoiceFacts DEF Voice
<1>2. /\ provider' = provider /\ sent'[r] = sent[r] /\ align'[r] = align[r] /\ rs'[r] = rs[r]
      /\ at'[r] = at[r] /\ cancelled'[r] = cancelled[r] /\ hold'[r] = hold[r]
      /\ reading[r] = "yes" /\ out[r] # <<>>
    BY DEF consume, streamVars
<1>3. out'[r] = Tail(out[r])
    BY DEF consume, AudioType
<1>4. heard'[r] = (IF cancelled[r] \/ x.err THEN h ELSE h \o SubSeq(x.pcm, 1, w))
    BY DEF consume, AudioType
<1>5. reading'[r] = (IF cancelled[r] \/ x.err THEN "gone" ELSE "yes")
    BY DEF consume, StreamInv, StreamType
<1>6. Starts(T, S) /\ (at[r] \in Early => T = F /\ Starts(T, F))
  <2>1. Spoken(r) = T
      BY <1>2 DEF Spoken
  <2>2. (at[r] \in Early => T = F /\ Starts(T, F)) /\ (at[r] \notin Early => Starts(T, S))
      BY <1>2, <2>1 DEF Voice
  <2> HIDE DEF T, F, S
  <2> QED
      BY <1>1, <2>2
<1>7. /\ at[r] \in {"last", "closed"} /\ ~cancelled[r] => T = S
      /\ at[r] \notin {"pump", "last", "error"} => hold[r] = Nothing
      /\ at[r] # "idle"
    BY <1>2 DEF Voice
<1>8. /\ Firm(r)' = F /\ Sentence(r)' = S /\ Source(r)'
  <2>1. Firm(r)' = F
      BY <1>2 DEF Firm, Windows, windowLo, center
  <2>2. Sentence(r)' = S
      BY <1>2 DEF Sentence
  <2>3. Source(r)'
      BY <1>2 DEF Source, Voice
  <2> QED
      BY <2>1, <2>2, <2>3
<1>9. CASE cancelled[r] \/ x.err
  <2>1. reading'[r] = "gone" /\ heard'[r] = h
      BY <1>4, <1>5, <1>9
  <2>2. Spoken(r)' = h
      BY <2>1 DEF Spoken
  <2> HIDE DEF h, T, F, S
  <2>3. Starts(h, S) /\ (at[r] \in Early => Starts(h, F))
      BY <1>1, <1>6
  <2>4. /\ Starts(h, F) => Starts(Spoken(r), Firm(r))'
        /\ Starts(h, S) => Starts(Spoken(r), Sentence(r))'
      BY <1>8, <2>2 DEF Starts
  <2> QED
      BY <1>2, <1>7, <1>8, <2>1, <2>3, <2>4 DEF Voice
<1>10. CASE ~(cancelled[r] \/ x.err)
  <2>1. h \in Seq(Sounds) /\ out[r] \in Seq(Chunks) /\ hold[r] \in Chunks
      BY DEF AudioType
  <2>2. x \in Chunks /\ x.pcm \in Seq(Sounds)
    <3>1. x \in Chunks
        BY <1>2, <2>1
    <3> HIDE DEF x
    <3> QED
        BY <3>1, ChunkFacts
  <2>3. SubSeq(x.pcm, 1, w) = x.pcm
    <3> HIDE DEF x
    <3>1. w = Len(x.pcm)
        BY <2>2 DEF Chunks
    <3> QED
        BY <2>2, <3>1
  <2>4. reading'[r] = "yes" /\ heard'[r] = h \o x.pcm
      BY <1>4, <1>5, <1>10, <2>3
  <2>5. Track(r)' = Trail(h \o x.pcm, Tail(out[r]), hold[r]) /\ T = Trail(h, out[r], hold[r])
      BY Zenon, <1>2, <1>3, <2>4 DEF Track
  <2>6. Trail(h \o Head(out[r]).pcm, Tail(out[r]), hold[r]) = Trail(h, out[r], hold[r])
      BY <1>2, <2>1, TrailFacts
  <2>7. Track(r)' = T
      BY Zenon, <2>5, <2>6
  <2>8. Spoken(r)' = T
      BY <2>4, <2>7 DEF Spoken
  <2> HIDE DEF h, T, F, S, x
  <2>9. /\ Starts(T, F) => Starts(Spoken(r), Firm(r))'
        /\ Starts(T, S) => Starts(Spoken(r), Sentence(r))'
      BY <1>8, <2>8 DEF Starts
  <2> QED
      BY <1>2, <1>6, <1>7, <1>8, <2>4, <2>7, <2>9 DEF Voice
<1> QED
    BY <1>9, <1>10

\* Every step of such a client keeps each stream's audio in order
LEMMA VoiceInductive ==
    ASSUME StreamInv, AudioType, provider # "cartesia", \A r \in Streams : Voice(r), [Next]_vars,
           StreamInv', AudioType', provider' = provider
    PROVE  \A r \in Streams : Voice(r)'
<1>0. /\ at \in [Streams -> {"idle", "dial", "expect", "pump", "last", "error", "closed", "broken",
                             "acquire", "connect", "write", "relay", "failed"}]
      /\ cancelled \in [Streams -> BOOLEAN] /\ sent \in [Streams -> Nat]
      /\ reading \in [Streams -> {"no", "yes", "done", "gone"}]
      /\ hold \in [Streams -> Chunks] /\ out \in [Streams -> Seq(Chunks)]
      /\ heard \in [Streams -> Seq(Sounds)]
      /\ align \in [Streams -> Seq(Sounds)] /\ rs \in [Streams -> Resamplers]
    BY DEF StreamInv, StreamType, AudioType
<1>1. ASSUME NEW r \in Streams, \A q \in Streams \ {r} : Same(q), Voice(r)'
      PROVE  \A q \in Streams : Voice(q)'
    BY <1>1, VoiceSame
<1>2. ASSUME UNCHANGED <<provider, at, cancelled, sent, align, rs, hold, out, heard, reading>>
      PROVE  \A r \in Streams : Voice(r)'
  <2>1. \A q \in Streams : Same(q)
      BY <1>2 DEF Same, Still
  <2> QED
      BY <2>1, VoiceSame
<1>3. CASE UNCHANGED vars
    BY <1>2, <1>3 DEF vars
<1>4. ASSUME NEW r \in Streams, nextSentence(r) PROVE \A q \in Streams : Voice(q)'
  <2>1. /\ UNCHANGED <<cancelled, sent, align, rs, hold, out, heard>>
        /\ at[r] = "idle" /\ at' = [at EXCEPT ![r] = "dial"] /\ reading' = [reading EXCEPT ![r] = "yes"]
      BY <1>4 DEF nextSentence, PerSentence, streamVars
  <2>2. \A q \in Streams \ {r} : Same(q)
      BY <1>0, <2>1 DEF Same, Still
  <2>3. Still(r) /\ at'[r] = "dial" /\ cancelled'[r] = cancelled[r] /\ reading'[r] = "yes"
      BY <1>0, <2>1 DEF Still
  <2>4. Voice(r)'
      BY <2>1, <2>3, VoiceQuiet
  <2> QED
      BY <1>1, <2>2, <2>4
<1>5. ASSUME NEW r \in Streams, dial(r) \/ expect(r) PROVE \A q \in Streams : Voice(q)'
  <2>1. /\ UNCHANGED <<cancelled, sent, align, rs, hold, out, heard>>
        /\ at[r] \in {"dial", "expect"}
        /\ \/ /\ reading' = reading
              /\ at' = [at EXCEPT ![r] = "expect"] \/ at' = [at EXCEPT ![r] = "pump"]
           \/ at' = [at EXCEPT ![r] = "failed"] /\ reading' = [reading EXCEPT ![r] = "gone"]
    <3>1. CASE dial(r)
        BY <3>1 DEF dial, fail
    <3>2. CASE expect(r)
        BY <3>2 DEF expect, fail
    <3> QED
        BY <1>5, <3>1, <3>2
  <2>2. \A q \in Streams \ {r} : Same(q)
      BY <1>0, <2>1 DEF Same, Still
  <2>3. /\ Still(r) /\ cancelled'[r] = cancelled[r]
        /\ \/ at'[r] \in {"expect", "pump"} /\ reading'[r] = reading[r]
           \/ at'[r] = "failed" /\ reading'[r] = "gone"
      BY <1>0, <2>1 DEF Still
  <2>4. Voice(r)'
      BY <2>1, <2>3, VoiceQuiet
  <2> QED
      BY <1>1, <2>2, <2>4
<1>6. ASSUME NEW r \in Streams, watch(r) PROVE \A q \in Streams : Voice(q)'
    BY <1>2, <1>6 DEF watch
<1>7. ASSUME NEW r \in Streams, closeStream(r) PROVE \A q \in Streams : Voice(q)'
  <2>1. /\ UNCHANGED <<cancelled, sent, align, rs, hold, out, heard, reading>>
        /\ at[r] \in {"last", "error"} /\ hold[r] = Nothing
        /\ at' = [at EXCEPT ![r] = IF at[r] = "last" THEN "closed" ELSE "broken"]
      BY <1>7 DEF closeStream
  <2>2. \A q \in Streams \ {r} : Same(q)
      BY <1>0, <2>1 DEF Same, Still
  <2>3. /\ Still(r) /\ cancelled'[r] = cancelled[r] /\ reading'[r] = reading[r]
        /\ \/ at[r] = "last" /\ at'[r] = "closed"
           \/ at[r] = "error" /\ at'[r] = "broken"
      BY <1>0, <2>1 DEF Still
  <2>4. Voice(r)'
      BY <2>1, <2>3, VoiceQuiet
  <2> QED
      BY <1>1, <2>2, <2>4
<1>8. ASSUME NEW r \in Streams, NEW n \in FrameSizes, audioFrame(r, n), Pumping(r), provider # "whole",
             UNCHANGED <<at, cancelled, out, heard, reading>>
      PROVE  \A q \in Streams : Voice(q)'
  <2>1. Source(r) /\ Source(r)'
        /\ (\A q \in Streams : q # r => rs'[q] = rs[q] /\ align'[q] = align[q])
        /\ \E x \in Chunks : hold' = [hold EXCEPT ![r] = x] /\ Firm(r)' = Firm(r) \o x.pcm
    <3>1. Source(r)
        BY DEF Voice
    <3> QED
        BY <1>8, <3>1, FrameFacts
  <2>2. PICK x \in Chunks : hold' = [hold EXCEPT ![r] = x] /\ Firm(r)' = Firm(r) \o x.pcm
      BY <2>1
  <2>3. sent' = [sent EXCEPT ![r] = sent[r] + n]
      BY <1>8 DEF audioFrame
  <2>4. \A q \in Streams \ {r} : Same(q)
      BY <1>0, <1>8, <2>1, <2>2, <2>3 DEF Same, Still
  <2>5. /\ at[r] = "pump" /\ hold[r] = Nothing /\ at'[r] = "pump" /\ hold'[r] = x
        /\ out'[r] = out[r] /\ heard'[r] = heard[r] /\ reading'[r] = reading[r]
      BY <1>0, <1>8, <2>2 DEF Pumping
  <2>6. Voice(r)'
      BY <2>1, <2>2, <2>5, VoiceGains
  <2> QED
      BY <1>1, <2>4, <2>6
<1>9. ASSUME NEW r \in Streams, endOfStream(r), Pumping(r), provider # "whole",
             UNCHANGED <<cancelled, out, heard, reading>>
      PROVE  \A q \in Streams : Voice(q)'
  <2> DEFINE x == flushAtEnd(r)
  <2>1. Source(r)
      BY DEF Voice
  <2>2. x \in Chunks /\ Firm(r) \o x.pcm = Sentence(r)
      BY <1>9, <2>1, FirmFacts
  <2>3. hold' = [hold EXCEPT ![r] = x] /\ at' = [at EXCEPT ![r] = "last"] /\ UNCHANGED <<sent, align, rs>>
      BY <1>9 DEF endOfStream
  <2> HIDE DEF x
  <2>4. \A q \in Streams \ {r} : Same(q)
      BY <1>0, <1>9, <2>3 DEF Same, Still
  <2>5. /\ at[r] = "pump" /\ hold[r] = Nothing /\ at'[r] = "last" /\ hold'[r] = x
        /\ out'[r] = out[r] /\ heard'[r] = heard[r] /\ reading'[r] = reading[r]
      BY <1>0, <1>9, <2>3 DEF Pumping
  <2>6. Source(r)'
      BY <2>1, <2>3 DEF Source
  <2>7. Sentence(r)' = Sentence(r)
      BY <2>3 DEF Sentence
  <2>8. Sentence(r)' = Firm(r) \o x.pcm
      BY Zenon, <2>2, <2>7
  <2>9. Voice(r)'
      BY <2>2, <2>5, <2>6, <2>8, VoiceGains
  <2> QED
      BY <1>1, <2>4, <2>9
<1>10. ASSUME NEW r \in Streams, Pumping(r), hold' = [hold EXCEPT ![r] = Err],
              at' = [at EXCEPT ![r] = "error"],
              UNCHANGED <<sent, align, rs, cancelled, out, heard, reading>>
       PROVE  \A q \in Streams : Voice(q)'
  <2>1. Source(r) /\ Err \in Chunks /\ Err.pcm = <<>>
      BY ChunkFacts DEF Voice
  <2>2. Starts(Firm(r), Sentence(r))
      BY <2>1, FirmFacts
  <2>3. Source(r)'
      BY <1>10, <2>1 DEF Source
  <2>4. \A q \in Streams \ {r} : Same(q)
      BY <1>0, <1>10 DEF Same, Still
  <2>5. /\ at[r] = "pump" /\ hold[r] = Nothing /\ at'[r] = "error" /\ hold'[r] = Err
        /\ out'[r] = out[r] /\ heard'[r] = heard[r] /\ reading'[r] = reading[r]
      BY <1>0, <1>10 DEF Pumping
  <2>6. Sentence(r)' = Sentence(r)
      BY <1>10 DEF Sentence
  <2>7. Starts(Firm(r), Sentence(r)')
      BY Zenon, <2>2, <2>6
  <2>8. Voice(r)'
      BY <2>1, <2>3, <2>5, <2>7, VoiceGains
  <2> QED
      BY <1>1, <2>4, <2>8
<1>11. ASSUME NEW r \in Streams, readFrame(r) PROVE \A q \in Streams : Voice(q)'
  <2>1. Pumping(r) /\ UNCHANGED <<cancelled, out, heard, reading>>
      BY <1>11 DEF readFrame
  <2>2. CASE provider # "whole" /\ at' = at /\ \E n \in FrameSizes : audioFrame(r, n)
      BY <1>8, <2>1, <2>2
  <2>3. CASE provider # "whole" /\ endOfStream(r)
      BY <1>9, <2>1, <2>3
  <2>4. CASE failedStream(r)
      BY <1>10, <2>1, <2>4 DEF failedStream
  <2> QED
      BY <1>11, <2>2, <2>3, <2>4, ReadFrameFacts
<1>12. ASSUME NEW r \in Streams, endOfBody(r) PROVE \A q \in Streams : Voice(q)'
    BY <1>9, <1>12 DEF endOfBody, Events
<1>13. ASSUME NEW r \in Streams, readFails(r) PROVE \A q \in Streams : Voice(q)'
  <2>1. Pumping(r) /\ UNCHANGED <<cancelled, out, heard, reading>>
      BY <1>13 DEF readFails
  <2>2. CASE cancelled[r]
    <3>1. at' = [at EXCEPT ![r] = "last"] /\ UNCHANGED <<hold, sent, align, rs>>
        BY <1>13, <2>2 DEF readFails
    <3>2. \A q \in Streams \ {r} : Same(q)
        BY <1>0, <2>1, <3>1 DEF Same, Still
    <3>3. /\ Still(r) /\ at[r] = "pump" /\ at'[r] = "last"
          /\ cancelled'[r] = cancelled[r] /\ reading'[r] = reading[r]
        BY <1>0, <2>1, <3>1 DEF Still, Pumping
    <3>4. Voice(r)'
        BY <2>2, <3>3, VoiceQuiet
    <3> QED
        BY <1>1, <3>2, <3>4
  <2>3. CASE ~cancelled[r]
    <3>1. failedStream(r)
        BY <1>13, <2>3 DEF readFails
    <3> QED
        BY <1>10, <2>1, <3>1 DEF failedStream
  <2> QED
      BY <2>2, <2>3
<1>14. ASSUME NEW r \in Streams, streamWhole(r) PROVE \A q \in Streams : Voice(q)'
  <2>1. Pumping(r) /\ provider = "whole" /\ UNCHANGED <<align, rs, cancelled, out, heard, reading>>
      BY <1>14 DEF streamWhole, streamVars
  <2>2. ASSUME NEW n \in 1 .. MaxBytes, sent' = [sent EXCEPT ![r] = n],
               hold' = [hold EXCEPT ![r] = Audio(resample24kTo16k(n \div 2))],
               at' = [at EXCEPT ![r] = "last"]
        PROVE  \A q \in Streams : Voice(q)'
    <3> DEFINE w == resample24kTo16k(n \div 2)
               x == Audio(w)
    <3>1. w \in Seq(Sounds)
      <4>1. n \div 2 \in Nat
          BY SynthesisAssumption
      <4> QED
          BY <4>1, ResampledFacts
    <3>2. Sentence(r)' = w /\ Firm(r) = <<>>
      <4>1. sent'[r] = n
          BY <1>0, <2>2
      <4> QED
          BY <2>1, <4>1 DEF Sentence, Firm
    <3>3. hold' = [hold EXCEPT ![r] = x]
        BY <2>2
    <3> HIDE DEF w
    <3>4. x \in Chunks /\ x.pcm = w
        BY <2>1, <3>1, ChunkFacts
    <3> HIDE DEF x
    <3>5. Sentence(r)' = Firm(r) \o x.pcm
      <4>1. <<>> \o w = w
          BY <3>1, Joined
      <4> QED
          BY Zenon, <3>2, <3>4, <4>1
    <3>6. \A q \in Streams \ {r} : Same(q)
        BY <1>0, <2>1, <2>2, <3>3 DEF Same, Still
    <3>7. /\ at[r] = "pump" /\ hold[r] = Nothing /\ at'[r] = "last" /\ hold'[r] = x
          /\ out'[r] = out[r] /\ heard'[r] = heard[r] /\ reading'[r] = reading[r]
        BY <1>0, <2>1, <2>2, <3>3 DEF Pumping
    <3>8. Source(r)'
        BY <2>1 DEF Source, Sockets
    <3>9. Voice(r)'
        BY <3>4, <3>5, <3>7, <3>8, VoiceGains
    <3> QED
        BY <1>1, <3>6, <3>9
  <2>3. CASE hold' = [hold EXCEPT ![r] = Err] /\ at' = [at EXCEPT ![r] = "error"] /\ UNCHANGED sent
      BY <1>10, <2>1, <2>3
  <2> QED
      BY <1>14, <2>2, <2>3 DEF streamWhole
<1>15. ASSUME NEW r \in Streams, emit(r) PROVE \A q \in Streams : Voice(q)'
  <2>1. /\ UNCHANGED <<cancelled, sent, align, rs, heard, reading>>
        /\ hold[r] # Nothing /\ hold' = [hold EXCEPT ![r] = Nothing]
        /\ \/ out' = [out EXCEPT ![r] = Append(out[r], hold[r])] /\ at' = at
           \/ out' = out /\ cancelled[r] /\ at' = [at EXCEPT ![r] = "last"]
      BY <1>15 DEF emit, streamVars
  <2>2. \A q \in Streams \ {r} : Same(q)
      BY <1>0, <2>1 DEF Same, Still
  <2>3. /\ hold'[r] = Nothing /\ cancelled'[r] = cancelled[r] /\ reading'[r] = reading[r]
        /\ \/ out'[r] = Append(out[r], hold[r]) /\ at'[r] = at[r]
           \/ out'[r] = out[r] /\ cancelled[r] /\ at'[r] = "last"
      BY <1>0, <2>1
  <2>4. Voice(r)'
      BY <2>1, <2>3, VoiceSends
  <2> QED
      BY <1>1, <2>2, <2>4
<1>16. ASSUME NEW r \in Streams, consume(r) PROVE \A q \in Streams : Voice(q)'
  <2>1. \A q \in Streams \ {r} : Same(q)
    <3> DEFINE h == IF cancelled[r] \/ Head(out[r]).err THEN heard[r]
                    ELSE heard[r] \o SubSeq(Head(out[r]).pcm, 1,
                           IF provider \in {"mimo", "whole"} THEN Len(Head(out[r]).pcm)
                           ELSE Even(Len(Head(out[r]).pcm)))
               g == IF cancelled[r] \/ Head(out[r]).err THEN "gone" ELSE "yes"
               t == Tail(out[r])
    <3>1. /\ UNCHANGED <<at, cancelled, sent, align, rs, hold>> /\ out' = [out EXCEPT ![r] = t]
          /\ heard' = [heard EXCEPT ![r] = h] /\ reading' = [reading EXCEPT ![r] = g]
        BY <1>16 DEF consume, streamVars
    <3> HIDE DEF h, g, t
    <3> QED
        BY <1>0, <3>1 DEF Same, Still
  <2>2. Voice(r)'
      BY <1>16, VoiceHeard
  <2> QED
      BY <1>1, <2>1, <2>2
<1>17. ASSUME NEW r \in Streams, abandon(r) \/ consumed(r) \/ bargeIn(r)
       PROVE  \A q \in Streams : Voice(q)'
  <2>1. /\ UNCHANGED <<at, sent, align, rs, hold, out, heard>> /\ reading[r] = "yes"
        /\ \/ reading' = [reading EXCEPT ![r] = "gone"] /\ cancelled' = cancelled
           \/ reading' = [reading EXCEPT ![r] = "done"] /\ cancelled' = cancelled /\ Closed(r) /\ out[r] = <<>>
           \/ reading' = reading /\ cancelled' = [cancelled EXCEPT ![r] = TRUE]
      BY <1>17 DEF abandon, consumed, bargeIn, rest, streamVars
  <2>2. \A q \in Streams \ {r} : Same(q)
      BY <1>0, <2>1 DEF Same, Still
  <2>3. /\ Still(r) /\ at'[r] = at[r]
        /\ \/ reading'[r] = "gone" /\ cancelled'[r] = cancelled[r]
           \/ reading'[r] = "done" /\ cancelled'[r] = cancelled[r] /\ Closed(r) /\ out[r] = <<>>
           \/ reading'[r] = reading[r] /\ cancelled'[r] = TRUE
      BY <1>0, <2>1 DEF Still
  <2>4. Voice(r)'
      BY <2>1, <2>3, VoiceQuiet
  <2> QED
      BY <1>1, <2>2, <2>4
<1>18. ASSUME NEW r \in Streams,
              acquire(r) \/ relayChunk(r) \/ relayEnds(r) \/ ensureConnected(r) \/ writeRequest(r)
       PROVE  FALSE
  <2>1. at[r] \in {"acquire", "relay", "connect", "write"}
      BY <1>18 DEF acquire, relayChunk, relayEnds, ensureConnected, writeRequest
  <2> QED
      BY <2>1 DEF StreamInv, OwnWay
<1>19. ASSUME NEW r \in Streams, bridgeReceives(r) \/ bridgeSends(r) \/ sendCancel(r)
       PROVE  \A q \in Streams : Voice(q)'
  <2>1. UNCHANGED <<provider, at, cancelled, sent, align, rs, hold, out, heard, reading>>
      BY <1>19 DEF bridgeReceives, bridgeSends, sendCancel, bridgeVars, rest, streamVars
  <2> QED
      BY <1>2, <2>1
<1>20. ASSUME NEW k \in Conns, connectionDrops(k) \/ notifyAllError(k) \/ readLoopEnds(k)
       PROVE  \A q \in Streams : Voice(q)'
  <2>1. UNCHANGED <<provider, at, cancelled, sent, align, rs, hold, out, heard, reading>>
      BY <1>20 DEF connectionDrops, notifyAllError, readLoopEnds, rest, streamVars
  <2> QED
      BY <1>2, <2>1
<1>21. ASSUME NEW k \in Conns, readMessage(k) PROVE FALSE
  <2>1. \E r \in pending : TRUE
      BY <1>21 DEF readMessage
  <2> QED
      BY <2>1 DEF StreamInv, StreamType, OwnWay
<1> QED
    BY <1>3, <1>4, <1>5, <1>6, <1>7, <1>11, <1>12, <1>13, <1>14, <1>15, <1>16, <1>17, <1>18,
       <1>19, <1>20, <1>21 DEF Next

---------------------------------------------------------------------------
(* A sentence of Cartesia *)

\* Heard, relayed, bridged, and handed over by the read loop
Way(h, q, i, x, m) == h \o (Queued(q) \o (Queued(i) \o (x.pcm \o Queued(m))))

\* Bytes among the first n, none twice and none before one that came earlier
Ordered(w, n) ==
    /\ w \in Seq(Sounds)
    /\ \A i \in 1 .. Len(w) : w[i] \in 1 .. n
    /\ \A i \in 1 .. Len(w) - 1 : w[i] < w[i + 1]

\* Concatenation under a name of its own, known by its laws alone
Cat(a, b) == a \o b

\* Concatenation is a monoid
LEMMA CatLaws ==
    ASSUME NEW S
    PROVE  /\ <<>> \in Seq(S)
           /\ \A u \in Seq(S) : Cat(u, <<>>) = u /\ Cat(<<>>, u) = u
           /\ \A u, v \in Seq(S) : Cat(u, v) \in Seq(S)
           /\ \A u, v, z \in Seq(S) : Cat(Cat(u, v), z) = Cat(u, Cat(v, z))
<1>1. <<>> \in Seq(S)
    BY EmptySeq
<1>2. ASSUME NEW u \in Seq(S) PROVE Cat(u, <<>>) = u /\ Cat(<<>>, u) = u
  <2>1. u \o <<>> = u /\ <<>> \o u = u
      BY ConcatEmptySeq
  <2> QED
      BY Zenon, <2>1 DEF Cat
<1>3. ASSUME NEW u \in Seq(S), NEW v \in Seq(S) PROVE Cat(u, v) \in Seq(S)
    BY DEF Cat
<1>4. ASSUME NEW u \in Seq(S), NEW v \in Seq(S), NEW z \in Seq(S)
      PROVE  Cat(Cat(u, v), z) = Cat(u, Cat(v, z))
  <2>1. (u \o v) \o z = u \o (v \o z)
      OBVIOUS
  <2> QED
      BY Zenon, <2>1 DEF Cat
<1> QED
    BY <1>1, <1>2, <1>3, <1>4

\* The stations a reply passes, none of them changing what is heard in the end
LEMMA WayFacts ==
    ASSUME NEW h \in Seq(Sounds), NEW q \in Seq(Chunks), NEW i \in Seq(Chunks), NEW x \in Chunks,
           NEW m \in Seq(Replies)
    PROVE  /\ Way(h, q, i, x, m) \in Seq(Sounds) /\ Starts(h, Way(h, q, i, x, m))
           /\ q # <<>> => Way(h \o Head(q).pcm, Tail(q), i, x, m) = Way(h, q, i, x, m)
           /\ i # <<>> => Way(h, Append(q, Head(i)), Tail(i), x, m) = Way(h, q, i, x, m)
           /\ Way(h, q, Append(i, x), Nothing, m) = Way(h, q, i, x, m)
           /\ m # <<>> /\ x.pcm = <<>> => \A y \in Chunks :
                y.pcm = Head(m).pcm => Way(h, q, i, y, Tail(m)) = Way(h, q, i, x, m)
           /\ Starts(Way(h, q, i, x, <<>>), Way(h, q, i, x, m))
           /\ \A y \in Replies : Way(h, q, i, x, Append(m, y)) = Way(h, q, i, x, m) \o y.pcm
<1> DEFINE Q == Queued(q)
           I == Queued(i)
           M == Queued(m)
           p == x.pcm
<1>1. /\ \A y \in Chunks : y.pcm \in Seq(Sounds)
      /\ \A y \in Replies : y.pcm \in Seq(Sounds)
      /\ Nothing \in Chunks /\ Nothing.pcm = <<>> /\ <<>> \in Seq(Sounds) /\ <<>> \in Seq(Replies)
    BY ChunkFacts, EmptySeq
<1>2. ASSUME NEW s \in Seq(Chunks)
      PROVE  /\ Queued(s) \in Seq(Sounds)
             /\ \A y \in Chunks : Queued(Append(s, y)) = Queued(s) \o y.pcm
             /\ s # <<>> => /\ Head(s) \in Chunks /\ Tail(s) \in Seq(Chunks)
                            /\ Queued(s) = Head(s).pcm \o Queued(Tail(s))
    BY <1>1, QueuedFacts
<1>3. ASSUME NEW s \in Seq(Replies)
      PROVE  /\ Queued(s) \in Seq(Sounds) /\ (s = <<>> => Queued(s) = <<>>)
             /\ \A y \in Replies : Queued(Append(s, y)) = Queued(s) \o y.pcm
             /\ s # <<>> => /\ Head(s) \in Replies /\ Tail(s) \in Seq(Replies)
                            /\ Queued(s) = Head(s).pcm \o Queued(Tail(s))
    BY <1>1, QueuedFacts
<1>4. Q \in Seq(Sounds) /\ I \in Seq(Sounds) /\ M \in Seq(Sounds) /\ p \in Seq(Sounds)
    BY <1>1, <1>2, <1>3
<1>5. ASSUME NEW g, NEW s, NEW t, NEW y, NEW u
      PROVE  Way(g, s, t, y, u) = Cat(g, Cat(Queued(s), Cat(Queued(t), Cat(y.pcm, Queued(u)))))
    BY Zenon DEF Way, Cat
<1>6. /\ <<>> \in Seq(Sounds)
      /\ \A u \in Seq(Sounds) : Cat(u, <<>>) = u /\ Cat(<<>>, u) = u
      /\ \A u, v \in Seq(Sounds) : Cat(u, v) \in Seq(Sounds)
      /\ \A u, v, z \in Seq(Sounds) : Cat(Cat(u, v), z) = Cat(u, Cat(v, z))
    BY CatLaws
<1> DEFINE R3 == Cat(p, M)
           R2 == Cat(I, R3)
           R1 == Cat(Q, R2)
           W == Cat(h, R1)
<1>7. Way(h, q, i, x, m) = W
    BY <1>5
<1> HIDE DEF Q, I, M, p
<1>8. R3 \in Seq(Sounds) /\ R2 \in Seq(Sounds) /\ R1 \in Seq(Sounds) /\ W \in Seq(Sounds)
    BY <1>4, <1>6
<1>9. Starts(h, W)
    BY <1>8 DEF Starts, Cat
<1>10. ASSUME q # <<>> PROVE Way(h \o Head(q).pcm, Tail(q), i, x, m) = W
  <2> DEFINE a == Head(q).pcm
             b == Queued(Tail(q))
  <2>1. a \in Seq(Sounds) /\ b \in Seq(Sounds) /\ Q = Cat(a, b)
    <3>1. Head(q) \in Chunks /\ Tail(q) \in Seq(Chunks) /\ Q = Head(q).pcm \o Queued(Tail(q))
        BY <1>2, <1>10 DEF Q
    <3> QED
        BY <1>1, <1>2, <3>1 DEF Cat
  <2>2. Way(h \o Head(q).pcm, Tail(q), i, x, m) = Cat(Cat(h, a), Cat(b, R2))
      BY Zenon DEF Way, Cat, I, M, p
  <2> HIDE DEF a, b, R2
  <2>3. Cat(Cat(h, a), Cat(b, R2)) = Cat(h, Cat(Cat(a, b), R2))
      BY <1>6, <1>8, <2>1
  <2> QED
      BY <2>1, <2>2, <2>3
<1>11. ASSUME i # <<>> PROVE Way(h, Append(q, Head(i)), Tail(i), x, m) = W
  <2> DEFINE a == Head(i).pcm
             b == Queued(Tail(i))
             c == Queued(Append(q, Head(i)))
  <2>1. a \in Seq(Sounds) /\ b \in Seq(Sounds) /\ I = Cat(a, b) /\ c = Cat(Q, a)
    <3>1. Head(i) \in Chunks /\ Tail(i) \in Seq(Chunks) /\ I = Head(i).pcm \o Queued(Tail(i))
        BY <1>2, <1>11 DEF I
    <3>2. Queued(Append(q, Head(i))) = Q \o Head(i).pcm
        BY <1>2, <3>1 DEF Q
    <3> QED
        BY <1>1, <1>2, <3>1, <3>2 DEF Cat
  <2>2. Way(h, Append(q, Head(i)), Tail(i), x, m) = Cat(h, Cat(c, Cat(b, R3)))
      BY Zenon DEF Way, Cat, M, p
  <2> HIDE DEF a, b, c, R3
  <2>3. Cat(Cat(Q, a), Cat(b, R3)) = Cat(Q, Cat(Cat(a, b), R3))
      BY <1>4, <1>6, <1>8, <2>1
  <2> QED
      BY <2>1, <2>2, <2>3
<1>12. Way(h, q, Append(i, x), Nothing, m) = W
  <2> DEFINE c == Queued(Append(i, x))
  <2>1. c = Cat(I, p)
      BY <1>2 DEF I, p, Cat
  <2>2. Way(h, q, Append(i, x), Nothing, m) = Cat(h, Cat(Q, Cat(c, Cat(<<>>, M))))
      BY Zenon, <1>1 DEF Way, Cat, Q, M
  <2> HIDE DEF c
  <2>3. Cat(<<>>, M) = M /\ Cat(Cat(I, p), M) = Cat(I, R3)
      BY <1>4, <1>6
  <2> QED
      BY <2>1, <2>2, <2>3
<1>13. ASSUME m # <<>>, x.pcm = <<>>, NEW y \in Chunks, y.pcm = Head(m).pcm
       PROVE  Way(h, q, i, y, Tail(m)) = W
  <2>1. M = Cat(y.pcm, Queued(Tail(m)))
      BY <1>3, <1>13 DEF M, Cat
  <2>2. Way(h, q, i, y, Tail(m)) = Cat(h, Cat(Q, Cat(I, Cat(y.pcm, Queued(Tail(m))))))
      BY Zenon DEF Way, Cat, Q, I
  <2>3. p = <<>>
      BY <1>13 DEF p
  <2>4. R3 = M
      BY <1>4, <1>6, <2>3
  <2> QED
      BY Zenon, <2>1, <2>2, <2>4
<1>14. ASSUME NEW y \in Seq(Sounds), NEW z \in Seq(Sounds)
       PROVE  Cat(Cat(h, Cat(Q, Cat(I, Cat(p, y)))), z) = Cat(h, Cat(Q, Cat(I, Cat(p, Cat(y, z)))))
  <2> DEFINE k == Cat(p, y)
             l == Cat(I, k)
             o == Cat(Q, l)
  <2>1. k \in Seq(Sounds) /\ l \in Seq(Sounds) /\ o \in Seq(Sounds)
      BY <1>4, <1>6
  <2>2. Cat(k, z) = Cat(p, Cat(y, z))
      BY <1>4, <1>6
  <2> HIDE DEF k
  <2>3. Cat(l, z) = Cat(I, Cat(k, z))
      BY <1>4, <1>6, <2>1
  <2> HIDE DEF l
  <2>4. Cat(o, z) = Cat(Q, Cat(l, z))
      BY <1>4, <1>6, <2>1
  <2> HIDE DEF o
  <2>5. Cat(Cat(h, o), z) = Cat(h, Cat(o, z))
      BY <1>6, <2>1
  <2> QED
      BY Zenon, <2>2, <2>3, <2>4, <2>5 DEF k, l, o
<1>15. Starts(Way(h, q, i, x, <<>>), W)
  <2>1. Way(h, q, i, x, <<>>) = Cat(h, Cat(Q, Cat(I, Cat(p, <<>>))))
    <3>1. Queued(<<>>) = <<>>
        BY <1>1, <1>3
    <3> QED
        BY Zenon, <3>1 DEF Way, Cat, Q, I, p
  <2>2. Cat(Cat(h, Cat(Q, Cat(I, Cat(p, <<>>)))), M) = Cat(h, Cat(Q, Cat(I, Cat(p, Cat(<<>>, M)))))
      BY <1>4, <1>6, <1>14
  <2>3. Cat(<<>>, M) = M
      BY <1>4, <1>6
  <2>4. W = Cat(Way(h, q, i, x, <<>>), M)
      BY Zenon, <2>1, <2>2, <2>3
  <2> HIDE DEF W
  <2> QED
      BY <1>4, <2>4 DEF Starts, Cat
<1>16. ASSUME NEW y \in Replies PROVE Way(h, q, i, x, Append(m, y)) = W \o y.pcm
  <2> DEFINE z == y.pcm
  <2>1. z \in Seq(Sounds)
      BY <1>1
  <2>2. Queued(Append(m, y)) = Cat(M, z)
      BY <1>3 DEF M, Cat
  <2>3. Way(h, q, i, x, Append(m, y)) = Cat(h, Cat(Q, Cat(I, Cat(p, Queued(Append(m, y))))))
      BY Zenon DEF Way, Cat, Q, I, p
  <2> HIDE DEF z
  <2>4. Cat(Cat(h, Cat(Q, Cat(I, Cat(p, M)))), z) = Cat(h, Cat(Q, Cat(I, Cat(p, Cat(M, z)))))
      BY <1>4, <1>14, <2>1
  <2>5. Way(h, q, i, x, Append(m, y)) = Cat(W, z)
      BY Zenon, <2>2, <2>3, <2>4
  <2> HIDE DEF W
  <2> QED
      BY Zenon, <2>5 DEF z, Cat
<1> HIDE DEF W
<1> QED
    BY Zenon, <1>7, <1>8, <1>9, <1>10, <1>11, <1>12, <1>13, <1>15, <1>16

\* A start of ordered bytes is ordered, and so is what two fresh ones extend
LEMMA OrderFacts ==
    ASSUME NEW w, NEW n \in Nat, Ordered(w, n)
    PROVE  /\ Increasing(w)
           /\ \A a \in Seq(Sounds) : Starts(a, w) => Ordered(a, n)
           /\ Ordered(w, n + 2)
           /\ Ordered(w \o Bytes(n + 1, n + 2), n + 2)
<1>1. /\ w \in Seq(Sounds) /\ Len(w) \in Nat
      /\ \A i \in 1 .. Len(w) : w[i] \in 1 .. n
      /\ \A i \in 1 .. Len(w) - 1 : w[i] < w[i + 1]
    BY DEF Ordered
<1>2. Increasing(w)
    BY <1>1 DEF Increasing
<1>3. ASSUME NEW a \in Seq(Sounds), Starts(a, w) PROVE Ordered(a, n)
  <2>1. PICK u \in Seq(Sounds) : w = a \o u
      BY <1>3 DEF Starts
  <2>2. Len(a) \in Nat /\ Len(u) \in Nat /\ Len(w) = Len(a) + Len(u)
        /\ \A i \in 1 .. Len(a) : w[i] = a[i]
      BY <2>1
  <2>3. \A i \in 1 .. Len(a) : a[i] \in 1 .. n
    <3> TAKE i \in 1 .. Len(a)
    <3>1. i \in 1 .. Len(w)
        BY <2>2
    <3> QED
        BY <1>1, <2>2, <3>1
  <2>4. \A i \in 1 .. Len(a) - 1 : a[i] < a[i + 1]
    <3> TAKE i \in 1 .. Len(a) - 1
    <3>1. i \in 1 .. Len(w) - 1 /\ i \in 1 .. Len(a) /\ i + 1 \in 1 .. Len(a)
        BY <2>2
    <3> QED
        BY <1>1, <2>2, <3>1
  <2> QED
      BY <2>3, <2>4 DEF Ordered
<1>4. Ordered(w, n + 2)
  <2>1. 1 .. n \subseteq 1 .. n + 2
      OBVIOUS
  <2> QED
      BY <1>1, <2>1 DEF Ordered
<1>5. Ordered(w \o Bytes(n + 1, n + 2), n + 2)
  <2> DEFINE b == Bytes(n + 1, n + 2)
             v == w \o b
             l == Len(w)
  <2>1. b \in Seq(Sounds) /\ Len(b) = 2 /\ \A i \in 1 .. 2 : b[i] = n + i
    <3>1. n + 1 \in Nat /\ n + 2 \in Nat /\ n + 1 <= n + 2 + 1 /\ (n + 2) - (n + 1) + 1 = 2
        OBVIOUS
    <3>2. Run(Bytes(n + 1, n + 2), n + 1, (n + 2) - (n + 1) + 1)
        BY <3>1, BytesRun
    <3>3. Run(b, n + 1, 2)
        BY <3>1, <3>2
    <3> HIDE DEF b
    <3>4. b \in Seq(Sounds) /\ Len(b) = 2 /\ \A i \in 1 .. 2 : b[i] = (n + 1) + i - 1
        BY <3>3 DEF Run
    <3>5. \A i \in 1 .. 2 : (n + 1) + i - 1 = n + i
        OBVIOUS
    <3> QED
        BY <3>4, <3>5
  <2> HIDE DEF b
  <2>2. v \in Seq(Sounds) /\ Len(v) = l + 2
        /\ \A i \in 1 .. l + 2 : v[i] = IF i <= l THEN w[i] ELSE b[i - l]
    <3>1. Len(w) + Len(b) = l + 2
        BY <2>1
    <3> QED
      <4>1. /\ w \o b \in Seq(Sounds) /\ Len(w \o b) = Len(w) + Len(b)
            /\ \A i \in 1 .. Len(w) + Len(b) : (w \o b)[i] = IF i <= Len(w) THEN w[i] ELSE b[i - Len(w)]
          BY <1>1, <2>1, ConcatProperties
      <4> QED
          BY Zenon, <3>1, <4>1
  <2> HIDE DEF v
  <2>3. \A i \in 1 .. l : i \in 1 .. l + 2 /\ v[i] = w[i] /\ v[i] \in 1 .. n
      BY <1>1, <2>2
  <2>4. v[l + 1] = n + 1 /\ v[l + 2] = n + 2
    <3>1. l + 1 \in 1 .. l + 2 /\ l + 2 \in 1 .. l + 2 /\ ~(l + 1 <= l) /\ ~(l + 2 <= l)
          /\ l + 1 - l = 1 /\ l + 2 - l = 2 /\ l \in Nat
        BY <1>1
    <3>2. v[l + 1] = b[1] /\ v[l + 2] = b[2]
        BY <2>2, <3>1
    <3> QED
        BY <2>1, <3>2
  <2> HIDE DEF l
  <2>5. l \in Nat
      BY <1>1 DEF l
  <2>6. \A i \in 1 .. l + 2 : v[i] \in 1 .. n + 2
    <3> TAKE i \in 1 .. l + 2
    <3>1. i \in 1 .. l \/ i = l + 1 \/ i = l + 2
        BY <2>5
    <3> QED
        BY <2>3, <2>4, <3>1
  <2>7. \A i \in 1 .. l + 2 - 1 : v[i] < v[i + 1]
    <3> TAKE i \in 1 .. l + 2 - 1
    <3>1. CASE i \in 1 .. l - 1
      <4>1. i \in 1 .. l /\ i + 1 \in 1 .. l /\ i \in 1 .. Len(w) - 1
          BY <2>5, <3>1 DEF l
      <4> QED
          BY <1>1, <2>3, <4>1
    <3>2. CASE i = l
      <4>1. i \in 1 .. l
          BY <2>5, <3>2
      <4> QED
          BY <2>3, <2>4, <3>2, <4>1
    <3>3. CASE i = l + 1
      <4>1. i + 1 = l + 2
          BY <2>5, <3>3
      <4> QED
          BY <2>4, <3>3, <4>1
    <3> QED
        BY <2>5, <3>1, <3>2, <3>3
  <2>8. Ordered(v, n + 2)
    <3>1. Len(v) - 1 = l + 2 - 1
        BY <2>2, <2>5
    <3> QED
        BY Zenon, <2>2, <2>6, <2>7, <3>1 DEF Ordered
  <2> QED
      BY <2>8 DEF v, b
<1> QED
    BY <1>2, <1>3, <1>4, <1>5

Line(r) == Way(heard[r], out[r], inner[r], carried[r], respCh[r])

Before == {"idle", "acquire", "connect", "write"}

\* A stream's bytes are in order wherever they are, for as long as somebody
\* reads it; the bridge holds a chunk only while it sends.
Wire(r) ==
    /\ at[r] \in Before => bridge[r] = "none"
    /\ bridge[r] # "send" => carried[r] = Nothing
    /\ Increasing(heard[r])
    /\ reading[r] # "gone" => Ordered(Line(r), sent[r])
    /\ at[r] = "idle" => reading[r] = "no"

Alike(r) ==
    /\ at'[r] = at[r] /\ bridge'[r] = bridge[r] /\ carried'[r] = carried[r] /\ heard'[r] = heard[r]
    /\ reading'[r] = reading[r] /\ sent'[r] = sent[r] /\ out'[r] = out[r] /\ inner'[r] = inner[r]
    /\ respCh'[r] = respCh[r]

\* The same for a stream of Cartesia
LEMMA WireAlike ==
    ASSUME NEW r, Wire(r), Alike(r)
    PROVE  Wire(r)'
<1>1. Line(r)' = Line(r)
    BY Zenon DEF Line, Alike
<1>2. Increasing(heard[r]) => Increasing(heard[r])'
    BY DEF Increasing, Alike
<1>3. Ordered(Line(r), sent[r]) => Ordered(Line(r), sent[r])'
    BY <1>1 DEF Ordered, Alike
<1> QED
    BY <1>2, <1>3 DEF Wire, Alike

\* What a step has to leave behind
LEMMA WireKept ==
    ASSUME StreamInv', AudioType', NEW r \in Streams, Wire(r),
           at'[r] \in Before => bridge'[r] = "none",
           bridge'[r] # "send" => carried'[r] = Nothing,
           at'[r] = "idle" => reading'[r] = "no",
           \/ reading'[r] = "gone" /\ heard'[r] = heard[r]
           \/ Ordered(Way(heard'[r], out'[r], inner'[r], carried'[r], respCh'[r]), sent'[r])
    PROVE  Wire(r)'
<1> DEFINE h == heard'[r]
           n == sent'[r]
           W == Way(heard'[r], out'[r], inner'[r], carried'[r], respCh'[r])
<1>0. Line(r)' = W
    BY Zenon DEF Line
<1>1. n \in Nat
    BY DEF StreamInv, StreamType
<1>2. h \in Seq(Sounds) /\ Starts(h, W)
  <2>1. \E C, P : /\ out'[r] \in Seq(C) /\ inner'[r] \in Seq(C) /\ carried'[r] \in C
                  /\ respCh'[r] \in Seq(P) /\ h \in Seq(Sounds)
                  /\ (\A y \in C : y.pcm \in Seq(Sounds)) /\ (\A y \in P : y.pcm \in Seq(Sounds))
    <3>1. \A y \in Chunks' : y.pcm \in Seq(Sounds)
        BY DEF Chunks, Pieces
    <3>2. \A y \in Replies' : y.pcm \in Seq(Sounds)
        BY DEF Replies
    <3>3. /\ out'[r] \in Seq(Chunks') /\ inner'[r] \in Seq(Chunks') /\ carried'[r] \in Chunks'
          /\ respCh'[r] \in Seq(Replies') /\ h \in Seq(Sounds)
        BY DEF AudioType
    <3> QED
        BY Zenon, <3>1, <3>2, <3>3
  <2>2. PICK C, P : /\ out'[r] \in Seq(C) /\ inner'[r] \in Seq(C) /\ carried'[r] \in C
                    /\ respCh'[r] \in Seq(P) /\ h \in Seq(Sounds)
                    /\ (\A y \in C : y.pcm \in Seq(Sounds)) /\ (\A y \in P : y.pcm \in Seq(Sounds))
      BY Zenon, <2>1
  <2> DEFINE a == Queued(out'[r])
             b == Queued(inner'[r])
             c == carried'[r].pcm
             d == Queued(respCh'[r])
  <2>3. a \in Seq(Sounds) /\ b \in Seq(Sounds) /\ c \in Seq(Sounds) /\ d \in Seq(Sounds)
    <3>1. a \in Seq(Sounds) /\ b \in Seq(Sounds)
        BY <2>2, QueuedFacts
    <3>2. d \in Seq(Sounds)
        BY <2>2, QueuedFacts
    <3> QED
        BY <2>2, <3>1, <3>2
  <2>4. W = Cat(h, Cat(a, Cat(b, Cat(c, d))))
      BY Zenon DEF Way, Cat
  <2> HIDE DEF W, a, b, c, d
  <2>5. Cat(a, Cat(b, Cat(c, d))) \in Seq(Sounds)
    <3>1. \A u, v \in Seq(Sounds) : Cat(u, v) \in Seq(Sounds)
        BY CatLaws
    <3> QED
        BY <2>3, <3>1
  <2> QED
      BY <2>2, <2>4, <2>5 DEF Starts, Cat
<1>3. Increasing(heard[r])
    BY DEF Wire
<1>4. Increasing(heard[r]) => (h = heard[r] => Increasing(heard[r])')
    BY DEF Increasing
<1>5. Increasing(h) => Increasing(heard[r])'
    BY DEF Increasing
<1>6. Ordered(W, n) => Ordered(Line(r), sent[r])'
    BY <1>0 DEF Ordered
<1>7. Ordered(W, n) => Increasing(heard[r])'
  <2> HIDE DEF h, W, n
  <2>1. Ordered(W, n) => Ordered(h, n)
      BY <1>1, <1>2, OrderFacts
  <2>2. Ordered(h, n) => Increasing(h)
      BY <1>1, OrderFacts
  <2> QED
      BY <1>5, <2>1, <2>2
<1>8. (reading'[r] = "gone" /\ h = heard[r]) \/ Ordered(W, n)
    OBVIOUS
<1> HIDE DEF h, W, n
<1>9. Increasing(heard[r])' /\ (reading'[r] # "gone" => Ordered(Line(r), sent[r])')
    BY <1>3, <1>4, <1>6, <1>7, <1>8
<1> QED
    BY <1>9 DEF Wire

\* Every step of the Cartesia client keeps each stream's bytes in order
LEMMA WireInductive ==
    ASSUME StreamInv, AudioType, provider = "cartesia", \A r \in Streams : Wire(r), [Next]_vars,
           StreamInv', AudioType'
    PROVE  \A r \in Streams : Wire(r)'
<1>0. /\ at \in [Streams -> {"idle", "dial", "expect", "pump", "last", "error", "closed", "broken",
                             "acquire", "connect", "write", "relay", "failed"}]
      /\ sent \in [Streams -> Nat]
      /\ reading \in [Streams -> {"no", "yes", "done", "gone"}]
      /\ bridge \in [Streams -> {"none", "receive", "send", "ended"}]
      /\ carried \in [Streams -> Chunks] /\ out \in [Streams -> Seq(Chunks)]
      /\ inner \in [Streams -> Seq(Chunks)] /\ respCh \in [Streams -> Seq(Replies)]
      /\ heard \in [Streams -> Seq(Sounds)] /\ pending \subseteq Streams
    BY DEF StreamInv, StreamType, AudioType
<1>1. ASSUME NEW r \in Streams, \A q \in Streams \ {r} : Alike(q), Wire(r)'
      PROVE  \A q \in Streams : Wire(q)'
    BY <1>1, WireAlike
<1>2. ASSUME UNCHANGED <<at, sent, out, heard, reading, respCh, bridge, carried, inner>>
      PROVE  \A r \in Streams : Wire(r)'
  <2>1. \A q \in Streams : Alike(q)
      BY <1>2 DEF Alike
  <2> QED
      BY <2>1, WireAlike
<1>3. ASSUME NEW r \in Streams
      PROVE  LET W == Way(heard[r], out[r], inner[r], carried[r], respCh[r]) IN
             /\ at[r] \in Before => bridge[r] = "none"
             /\ bridge[r] # "send" => carried[r] = Nothing
             /\ reading[r] # "gone" => Ordered(W, sent[r])
             /\ at[r] = "idle" => reading[r] = "no"
             /\ sent[r] \in Nat /\ heard[r] \in Seq(Sounds) /\ W \in Seq(Sounds)
             /\ Ordered(W, sent[r]) =>
                  /\ \A a \in Seq(Sounds) : Starts(a, W) => Ordered(a, sent[r])
                  /\ Ordered(W, sent[r] + 2)
                  /\ Ordered(W \o Bytes(sent[r] + 1, sent[r] + 2), sent[r] + 2)
  <2> DEFINE W == Way(heard[r], out[r], inner[r], carried[r], respCh[r])
  <2>1. /\ at[r] \in Before => bridge[r] = "none"
        /\ bridge[r] # "send" => carried[r] = Nothing
        /\ reading[r] # "gone" => Ordered(W, sent[r])
        /\ at[r] = "idle" => reading[r] = "no"
      BY DEF Wire, Line
  <2>2. sent[r] \in Nat /\ heard[r] \in Seq(Sounds) /\ out[r] \in Seq(Chunks) /\ inner[r] \in Seq(Chunks)
        /\ carried[r] \in Chunks /\ respCh[r] \in Seq(Replies)
      BY <1>0
  <2>3. W \in Seq(Sounds)
      BY <2>2, WayFacts
  <2> HIDE DEF W
  <2>4. Ordered(W, sent[r]) =>
                  /\ \A a \in Seq(Sounds) : Starts(a, W) => Ordered(a, sent[r])
                  /\ Ordered(W, sent[r] + 2)
                  /\ Ordered(W \o Bytes(sent[r] + 1, sent[r] + 2), sent[r] + 2)
      BY <2>2, OrderFacts
  <2> QED
      BY Zenon, <2>1, <2>2, <2>3, <2>4 DEF W
<1>4. CASE UNCHANGED vars
    BY <1>2, <1>4 DEF vars, wsVars
\* Steps that move no audio: a reader that leaves keeps what it heard
<1>5. ASSUME NEW r \in Streams,
             UNCHANGED <<sent, out, heard, respCh, carried, inner>>,
             \A q \in Streams \ {r} : at'[q] = at[q] /\ reading'[q] = reading[q] /\ bridge'[q] = bridge[q],
             at'[r] \in Before => bridge'[r] = "none",
             bridge'[r] # "send" => carried[r] = Nothing,
             at'[r] = "idle" => reading'[r] = "no",
             reading[r] = "gone" => reading'[r] = "gone"
      PROVE  \A q \in Streams : Wire(q)'
  <2>1. \A q \in Streams \ {r} : Alike(q)
      BY <1>5 DEF Alike
  <2>2. \/ reading'[r] = "gone" /\ heard'[r] = heard[r]
        \/ Ordered(Way(heard'[r], out'[r], inner'[r], carried'[r], respCh'[r]), sent'[r])
    <3>1. reading[r] # "gone" => Ordered(Way(heard[r], out[r], inner[r], carried[r], respCh[r]), sent[r])
        BY <1>3
    <3> QED
        BY Zenon, <1>5, <3>1
  <2>3. bridge'[r] # "send" => carried'[r] = Nothing
      BY <1>5
  <2>4. Wire(r)'
      BY <1>5, <2>2, <2>3, WireKept
  <2> QED
      BY <1>1, <2>1, <2>4
<1>6. ASSUME NEW r \in Streams, nextSentence(r) PROVE \A q \in Streams : Wire(q)'
  <2>1. /\ UNCHANGED <<sent, out, heard, respCh, bridge, carried, inner>>
        /\ at[r] = "idle" /\ at' = [at EXCEPT ![r] = "acquire"] /\ reading' = [reading EXCEPT ![r] = "yes"]
      BY <1>6 DEF nextSentence, PerSentence, wsVars
  <2>2. \A q \in Streams \ {r} : at'[q] = at[q] /\ reading'[q] = reading[q] /\ bridge'[q] = bridge[q]
      BY <1>0, <2>1
  <2>3. at'[r] = "acquire" /\ bridge'[r] = "none" /\ carried[r] = Nothing /\ reading[r] # "gone"
    <3>1. bridge[r] = "none" /\ reading[r] = "no"
        BY <1>3, <2>1 DEF Before
    <3> QED
        BY <1>0, <1>3, <2>1, <3>1
  <2> QED
      BY <1>5, <2>1, <2>2, <2>3
<1>7. ASSUME NEW r \in Streams, dial(r) \/ expect(r) \/ watch(r) \/ readFrame(r) \/ endOfBody(r)
                 \/ readFails(r) \/ streamWhole(r) \/ emit(r) \/ closeStream(r)
      PROVE  FALSE
  <2>1. at[r] \in {"dial", "expect", "pump", "last", "error"} \/ hold[r] # Nothing
      BY <1>7 DEF dial, expect, watch, readFrame, endOfBody, readFails, streamWhole, emit, closeStream,
          Pumping
  <2> QED
      BY <2>1 DEF StreamInv, OwnWay
<1>8. ASSUME NEW r \in Streams, acquire(r) \/ ensureConnected(r) PROVE \A q \in Streams : Wire(q)'
  <2>1. /\ UNCHANGED <<sent, out, heard, respCh, bridge, carried, inner>>
        /\ at[r] \in {"acquire", "connect"}
        /\ \/ /\ reading' = reading
              /\ at' = [at EXCEPT ![r] = "connect"] \/ at' = [at EXCEPT ![r] = "write"]
           \/ at' = [at EXCEPT ![r] = "failed"] /\ reading' = [reading EXCEPT ![r] = "gone"]
    <3>1. CASE acquire(r)
        BY <3>1 DEF acquire, fail, rest, wsVars
    <3>2. CASE ensureConnected(r)
        BY <3>2 DEF ensureConnected, startFails, fail, rest
    <3> QED
        BY <1>8, <3>1, <3>2
  <2>2. \A q \in Streams \ {r} : at'[q] = at[q] /\ reading'[q] = reading[q] /\ bridge'[q] = bridge[q]
      BY <1>0, <2>1
  <2>3. /\ at'[r] # "idle" /\ bridge'[r] = "none" /\ carried[r] = Nothing
        /\ reading[r] = "gone" => reading'[r] = "gone"
    <3>1. bridge[r] = "none"
        BY <1>3, <2>1 DEF Before
    <3> QED
        BY <1>0, <1>3, <2>1, <3>1
  <2> QED
      BY <1>5, <2>1, <2>2, <2>3
<1>9. ASSUME NEW r \in Streams, writeRequest(r) PROVE \A q \in Streams : Wire(q)'
  <2>1. /\ UNCHANGED <<sent, out, heard, respCh, carried, inner>>
        /\ at[r] = "write"
        /\ \/ /\ reading' = reading /\ at' = [at EXCEPT ![r] = "relay"]
              /\ bridge' = [bridge EXCEPT ![r] = "receive"]
           \/ /\ at' = [at EXCEPT ![r] = "failed"] /\ reading' = [reading EXCEPT ![r] = "gone"]
              /\ bridge' = bridge
      BY <1>9 DEF writeRequest, startFails, fail, rest
  <2>2. \A q \in Streams \ {r} : at'[q] = at[q] /\ reading'[q] = reading[q] /\ bridge'[q] = bridge[q]
      BY <1>0, <2>1
  <2>3. /\ at'[r] \notin Before /\ at'[r] # "idle" /\ carried[r] = Nothing
        /\ reading[r] = "gone" => reading'[r] = "gone"
    <3>1. bridge[r] = "none"
        BY <1>3, <2>1 DEF Before
    <3> QED
        BY <1>0, <1>3, <2>1, <3>1 DEF Before
  <2> QED
      BY <1>5, <2>1, <2>2, <2>3
<1>10. ASSUME NEW r \in Streams, relayEnds(r) PROVE \A q \in Streams : Wire(q)'
  <2>1. /\ UNCHANGED <<sent, out, heard, respCh, bridge, carried, inner, reading>>
        /\ at' = [at EXCEPT ![r] = "closed"]
      BY <1>10 DEF relayEnds, rest, wsVars
  <2>2. \A q \in Streams \ {r} : at'[q] = at[q] /\ reading'[q] = reading[q] /\ bridge'[q] = bridge[q]
      BY <1>0, <2>1
  <2>3. at'[r] \notin Before /\ at'[r] # "idle"
      BY <1>0, <2>1 DEF Before
  <2> QED
      BY <1>3, <1>5, <2>1, <2>2, <2>3
<1>11. ASSUME NEW r \in Streams, abandon(r) \/ consumed(r) \/ bargeIn(r)
       PROVE  \A q \in Streams : Wire(q)'
  <2>1. /\ UNCHANGED <<at, sent, out, heard, respCh, bridge, carried, inner>> /\ reading[r] = "yes"
        /\ \/ reading' = [reading EXCEPT ![r] = "gone"]
           \/ reading' = [reading EXCEPT ![r] = "done"]
           \/ reading' = reading
      BY <1>11 DEF abandon, consumed, bargeIn, rest, wsVars
  <2>2. \A q \in Streams \ {r} : at'[q] = at[q] /\ reading'[q] = reading[q] /\ bridge'[q] = bridge[q]
      BY <1>0, <2>1
  <2>3. at[r] # "idle"
      BY <1>3, <2>1
  <2> QED
      BY <1>3, <1>5, <2>1, <2>2, <2>3
\* Steps that move audio along the way of one stream that keeps its reader
<1>12. ASSUME NEW r \in Streams, \A q \in Streams \ {r} : Alike(q), at'[r] = at[r], reading'[r] = reading[r],
              at'[r] \in Before => bridge'[r] = "none",
              bridge'[r] # "send" => carried'[r] = Nothing,
              reading[r] = "gone" => heard'[r] = heard[r],
              reading[r] # "gone" =>
                Ordered(Way(heard'[r], out'[r], inner'[r], carried'[r], respCh'[r]), sent'[r])
       PROVE  \A q \in Streams : Wire(q)'
  <2>1. at'[r] = "idle" => reading'[r] = "no"
      BY <1>3, <1>12
  <2>2. Wire(r)'
      BY <1>12, <2>1, WireKept
  <2> QED
      BY <1>1, <1>12, <2>2
<1>13. ASSUME NEW r \in Streams, relayChunk(r) PROVE \A q \in Streams : Wire(q)'
  <2> DEFINE a == Append(out[r], Head(inner[r]))
             b == Tail(inner[r])
  <2>1. /\ UNCHANGED <<at, sent, heard, reading, respCh, bridge, carried>> /\ inner[r] # <<>>
        /\ out' = [out EXCEPT ![r] = a] /\ inner' = [inner EXCEPT ![r] = b] /\ at[r] = "relay"
      BY <1>13 DEF relayChunk, rest
  <2>2. Way(heard[r], a, b, carried[r], respCh[r]) = Way(heard[r], out[r], inner[r], carried[r], respCh[r])
    <3>1. /\ heard[r] \in Seq(Sounds) /\ out[r] \in Seq(Chunks) /\ inner[r] \in Seq(Chunks)
          /\ carried[r] \in Chunks /\ respCh[r] \in Seq(Replies)
        BY <1>0
    <3> QED
        BY <2>1, <3>1, WayFacts
  <2> HIDE DEF a, b
  <2>3. out'[r] = a /\ inner'[r] = b /\ \A q \in Streams \ {r} : Alike(q)
      BY <1>0, <2>1 DEF Alike
  <2>4. reading[r] # "gone" =>
          Ordered(Way(heard'[r], out'[r], inner'[r], carried'[r], respCh'[r]), sent'[r])
    <3>1. reading[r] # "gone" => Ordered(Way(heard[r], out[r], inner[r], carried[r], respCh[r]), sent[r])
        BY <1>3
    <3> QED
        BY Zenon, <2>1, <2>2, <2>3, <3>1
  <2>5. at[r] \notin Before
      BY <2>1 DEF Before
  <2> QED
      BY <1>3, <1>12, <2>1, <2>3, <2>4, <2>5
<1>14. ASSUME NEW r \in Streams, bridgeSends(r) PROVE \A q \in Streams : Wire(q)'
  <2> DEFINE a == Append(inner[r], carried[r])
  <2>1. /\ UNCHANGED <<at, sent, heard, reading, out>> /\ bridge[r] = "send"
        /\ inner' = [inner EXCEPT ![r] = a] /\ carried' = [carried EXCEPT ![r] = Nothing]
        /\ \/ bridge' = [bridge EXCEPT ![r] = "receive"] /\ respCh' = respCh
           \/ bridge' = [bridge EXCEPT ![r] = "ended"] /\ respCh' = [respCh EXCEPT ![r] = <<>>]
      BY <1>14 DEF bridgeSends, bridgeEnds, bridgeVars, rest
  <2>2. /\ Way(heard[r], out[r], a, Nothing, respCh[r]) = Way(heard[r], out[r], inner[r], carried[r], respCh[r])
        /\ Starts(Way(heard[r], out[r], a, Nothing, <<>>), Way(heard[r], out[r], a, Nothing, respCh[r]))
        /\ Way(heard[r], out[r], a, Nothing, <<>>) \in Seq(Sounds)
    <3>1. /\ heard[r] \in Seq(Sounds) /\ out[r] \in Seq(Chunks) /\ inner[r] \in Seq(Chunks)
          /\ carried[r] \in Chunks /\ respCh[r] \in Seq(Replies) /\ <<>> \in Seq(Replies)
          /\ a \in Seq(Chunks) /\ Nothing \in Chunks
        BY <1>0, ChunkFacts, EmptySeq
    <3>2. Way(heard[r], out[r], a, Nothing, respCh[r]) = Way(heard[r], out[r], inner[r], carried[r], respCh[r])
        BY <3>1, WayFacts
    <3> HIDE DEF a
    <3>3. Starts(Way(heard[r], out[r], a, Nothing, <<>>), Way(heard[r], out[r], a, Nothing, respCh[r]))
          /\ Way(heard[r], out[r], a, Nothing, <<>>) \in Seq(Sounds)
        BY <3>1, WayFacts
    <3> QED
        BY <3>2, <3>3
  <2> HIDE DEF a
  <2>3. /\ inner'[r] = a /\ carried'[r] = Nothing /\ (respCh'[r] = respCh[r] \/ respCh'[r] = <<>>)
        /\ \A q \in Streams \ {r} : Alike(q)
      BY <1>0, <2>1 DEF Alike
  <2>4. reading[r] # "gone" =>
          Ordered(Way(heard'[r], out'[r], inner'[r], carried'[r], respCh'[r]), sent'[r])
    <3> DEFINE W == Way(heard[r], out[r], inner[r], carried[r], respCh[r])
               V == Way(heard[r], out[r], a, Nothing, <<>>)
               U == Way(heard'[r], out'[r], inner'[r], carried'[r], respCh'[r])
    <3>1. reading[r] # "gone" => Ordered(W, sent[r])
        BY <1>3
    <3>2. Ordered(W, sent[r]) => \A s \in Seq(Sounds) : Starts(s, W) => Ordered(s, sent[r])
        BY <1>3
    <3>3. Starts(V, W) /\ V \in Seq(Sounds)
        BY Zenon, <2>2
    <3>4. U = W \/ U = V
        BY Zenon, <2>1, <2>2, <2>3
    <3>5. sent'[r] = sent[r]
        BY <2>1
    <3> HIDE DEF U, V, W
    <3>6. reading[r] # "gone" => Ordered(U, sent'[r])
        BY <3>1, <3>2, <3>3, <3>4, <3>5
    <3> QED
        BY <3>6 DEF U
  <2>5. at[r] \notin Before
      BY <1>3, <2>1
  <2> QED
      BY <1>12, <2>1, <2>3, <2>4, <2>5
<1>15. ASSUME NEW r \in Streams, bridge[r] = "receive", bridge' = [bridge EXCEPT ![r] = "ended"],
              respCh' = [respCh EXCEPT ![r] = <<>>],
              UNCHANGED <<at, sent, out, heard, reading, carried, inner>>
       PROVE  \A q \in Streams : Wire(q)'
  <2>1. /\ heard[r] \in Seq(Sounds) /\ out[r] \in Seq(Chunks) /\ inner[r] \in Seq(Chunks)
        /\ carried[r] \in Chunks /\ respCh[r] \in Seq(Replies) /\ <<>> \in Seq(Replies)
      BY <1>0, EmptySeq
  <2> DEFINE W == Way(heard[r], out[r], inner[r], carried[r], respCh[r])
             V == Way(heard[r], out[r], inner[r], carried[r], <<>>)
  <2>2. Starts(V, W) /\ V \in Seq(Sounds)
      BY <2>1, WayFacts
  <2>3. respCh'[r] = <<>> /\ \A q \in Streams \ {r} : Alike(q)
      BY <1>0, <1>15 DEF Alike
  <2>4. Way(heard'[r], out'[r], inner'[r], carried'[r], respCh'[r]) = V
      BY Zenon, <1>15, <2>3
  <2>5. (reading[r] # "gone" => Ordered(W, sent[r]))
        /\ (Ordered(W, sent[r]) => \A s \in Seq(Sounds) : Starts(s, W) => Ordered(s, sent[r]))
      BY <1>3
  <2> HIDE DEF V, W
  <2>6. reading[r] # "gone" => Ordered(V, sent[r])
      BY <2>2, <2>5
  <2>7. reading[r] # "gone" =>
          Ordered(Way(heard'[r], out'[r], inner'[r], carried'[r], respCh'[r]), sent'[r])
      BY Zenon, <1>15, <2>4, <2>6
  <2>8. carried[r] = Nothing /\ at[r] \notin Before
      BY <1>3, <1>15
  <2> QED
      BY <1>12, <1>15, <2>3, <2>7, <2>8
<1>16. ASSUME NEW r \in Streams, bridgeReceives(r) PROVE \A q \in Streams : Wire(q)'
  <2> DEFINE msg == Head(respCh[r])
             x == IF msg.kind = "audio" THEN Audio(msg.pcm) ELSE Err
             t == Tail(respCh[r])
  <2>1. UNCHANGED <<at, sent, out, heard, reading, inner>> /\ bridge[r] = "receive" /\ respCh[r] # <<>>
      BY <1>16 DEF bridgeReceives, bridgeVars, rest
  <2>2. \/ /\ bridge' = [bridge EXCEPT ![r] = "ended"] /\ respCh' = [respCh EXCEPT ![r] = <<>>]
           /\ carried' = carried
        \/ /\ carried' = [carried EXCEPT ![r] = x] /\ bridge' = [bridge EXCEPT ![r] = "send"]
           /\ respCh' = [respCh EXCEPT ![r] = t]
      BY <1>16 DEF bridgeReceives, bridgeEnds
  <2>3. /\ heard[r] \in Seq(Sounds) /\ out[r] \in Seq(Chunks) /\ inner[r] \in Seq(Chunks)
        /\ carried[r] \in Chunks /\ respCh[r] \in Seq(Replies) /\ msg \in Replies
    <3>1. respCh[r] \in Seq(Replies)
        BY <1>0
    <3> QED
        BY <1>0, <2>1, <3>1
  <2>4. carried[r] = Nothing /\ carried[r].pcm = <<>> /\ at[r] \notin Before
    <3>1. carried[r] = Nothing /\ at[r] \notin Before
        BY <1>3, <2>1
    <3> QED
        BY <3>1, ChunkFacts
  <2>5. x \in Chunks /\ x.pcm = Head(respCh[r]).pcm
    <3> HIDE DEF msg
    <3>1. x \in Chunks /\ x.pcm = msg.pcm
        BY <2>3, ChunkFacts
    <3> QED
        BY <3>1 DEF msg
  <2> HIDE DEF x
  <2>6. Way(heard[r], out[r], inner[r], x, Tail(respCh[r])) = Way(heard[r], out[r], inner[r], carried[r], respCh[r])
    <3>1. respCh[r] # <<>> /\ carried[r].pcm = <<>> => \A y \in Chunks :
            y.pcm = Head(respCh[r]).pcm =>
              Way(heard[r], out[r], inner[r], y, Tail(respCh[r]))
                = Way(heard[r], out[r], inner[r], carried[r], respCh[r])
      <4>1. /\ heard[r] \in Seq(Sounds) /\ out[r] \in Seq(Chunks) /\ inner[r] \in Seq(Chunks)
            /\ carried[r] \in Chunks /\ respCh[r] \in Seq(Replies)
          BY <2>3
      <4> QED
          BY ZenonT(30), <4>1, WayFacts
    <3> QED
        BY Zenon, <2>1, <2>4, <2>5, <3>1
  <2> HIDE DEF t, msg
  <2>7. CASE /\ carried' = [carried EXCEPT ![r] = x] /\ bridge' = [bridge EXCEPT ![r] = "send"]
             /\ respCh' = [respCh EXCEPT ![r] = t]
    <3>1. carried'[r] = x /\ respCh'[r] = t /\ bridge'[r] = "send" /\ \A q \in Streams \ {r} : Alike(q)
        BY <1>0, <2>1, <2>7 DEF Alike
    <3>2. reading[r] # "gone" => Ordered(Way(heard[r], out[r], inner[r], carried[r], respCh[r]), sent[r])
        BY <1>3
    <3>3. Way(heard'[r], out'[r], inner'[r], carried'[r], respCh'[r])
             = Way(heard[r], out[r], inner[r], x, Tail(respCh[r]))
        BY Zenon, <2>1, <3>1 DEF t
    <3>4. reading[r] # "gone" =>
            Ordered(Way(heard'[r], out'[r], inner'[r], carried'[r], respCh'[r]), sent'[r])
        BY Zenon, <2>1, <2>6, <3>2, <3>3
    <3> QED
        BY <1>12, <2>1, <2>4, <3>1, <3>4
  <2> QED
      BY <1>15, <2>1, <2>2, <2>7
<1>17. ASSUME NEW r \in Streams, sendCancel(r) PROVE \A q \in Streams : Wire(q)'
    BY <1>15, <1>17 DEF sendCancel, bridgeEnds, bridgeVars, rest
<1>18. ASSUME NEW r \in Streams, consume(r) PROVE \A q \in Streams : Wire(q)'
  <2> DEFINE x == Head(out[r])
             t == Tail(out[r])
             h == heard[r] \o SubSeq(x.pcm, 1, Even(Len(x.pcm)))
  <2>1. UNCHANGED <<at, sent, inner, respCh, bridge, carried>> /\ reading[r] = "yes" /\ out[r] # <<>>
        /\ out' = [out EXCEPT ![r] = t]
      BY <1>18 DEF consume, wsVars
  <2>2. \/ heard' = heard /\ reading' = [reading EXCEPT ![r] = "gone"]
        \/ heard' = [heard EXCEPT ![r] = h] /\ reading' = [reading EXCEPT ![r] = "yes"]
    <3>1. heard' = [heard EXCEPT ![r] = IF cancelled[r] \/ x.err THEN heard[r] ELSE h]
          /\ reading' = [reading EXCEPT ![r] = IF cancelled[r] \/ x.err THEN "gone" ELSE "yes"]
        BY <1>18 DEF consume
    <3> HIDE DEF h, x
    <3>2. [heard EXCEPT ![r] = heard[r]] = heard
        BY <1>0
    <3> QED
        BY <3>1, <3>2
  <2>3. /\ heard[r] \in Seq(Sounds) /\ out[r] \in Seq(Chunks) /\ inner[r] \in Seq(Chunks)
        /\ carried[r] \in Chunks /\ respCh[r] \in Seq(Replies) /\ x \in Chunks
    <3>1. out[r] \in Seq(Chunks)
        BY <1>0
    <3> QED
        BY <1>0, <2>1, <3>1
  <2>4. SubSeq(x.pcm, 1, Even(Len(x.pcm))) = x.pcm
    <3> HIDE DEF x
    <3>1. Even(Len(x.pcm)) = Len(x.pcm) /\ x.pcm \in Seq(Sounds)
        BY <2>3, ChunkFacts DEF Chunks
    <3> QED
        BY <3>1
  <2>5. h = heard[r] \o x.pcm
      BY Zenon, <2>4
  <2>6. Way(heard[r] \o Head(out[r]).pcm, Tail(out[r]), inner[r], carried[r], respCh[r])
          = Way(heard[r], out[r], inner[r], carried[r], respCh[r])
      BY ZenonT(40), <2>1, <2>3, WayFacts
  <2>7. Way(h, t, inner[r], carried[r], respCh[r]) = Way(heard[r], out[r], inner[r], carried[r], respCh[r])
      BY Zenon, <2>5, <2>6
  <2>8. Ordered(Way(heard[r], out[r], inner[r], carried[r], respCh[r]), sent[r])
      BY <1>3, <2>1
  <2>9. at[r] # "idle"
      BY <1>3, <2>1
  <2> HIDE DEF h, t, x
  <2>10. \A q \in Streams \ {r} : Alike(q)
      BY <1>0, <2>1, <2>2 DEF Alike
  <2>11. out'[r] = t /\ ((reading'[r] = "gone" /\ heard'[r] = heard[r]) \/ heard'[r] = h)
      BY <1>0, <2>1, <2>2
  <2>12. \/ reading'[r] = "gone" /\ heard'[r] = heard[r]
         \/ Ordered(Way(heard'[r], out'[r], inner'[r], carried'[r], respCh'[r]), sent'[r])
      BY Zenon, <2>1, <2>7, <2>8, <2>11
  <2>13. (at'[r] \in Before => bridge'[r] = "none") /\ (bridge'[r] # "send" => carried'[r] = Nothing)
         /\ at'[r] # "idle"
      BY <1>3, <2>1, <2>9
  <2>14. Wire(r)'
      BY <2>12, <2>13, WireKept
  <2> QED
      BY <1>1, <2>10, <2>14
<1>19. ASSUME NEW k \in Conns, connectionDrops(k) \/ readLoopEnds(k) PROVE \A q \in Streams : Wire(q)'
  <2>1. UNCHANGED <<at, sent, out, heard, reading, respCh, bridge, carried, inner>>
      BY <1>19 DEF connectionDrops, readLoopEnds, rest
  <2> QED
      BY <1>2, <2>1
<1>20. ASSUME NEW k \in Conns, readMessage(k) PROVE \A q \in Streams : Wire(q)'
  <2>1. UNCHANGED <<at, out, heard, reading, bridge, carried, inner>>
      BY <1>20 DEF readMessage
  <2>2. PICK r \in pending : \E msg \in Messages(r) :
          /\ respCh' = IF Len(respCh[r]) < PendingBuf THEN [respCh EXCEPT ![r] = Append(respCh[r], msg)] ELSE respCh
          /\ sent' = [sent EXCEPT ![r] = IF msg.kind = "audio" THEN sent[r] + 2 ELSE sent[r]]
      BY <1>20 DEF readMessage
  <2>3. PICK msg \in Messages(r) :
          /\ respCh' = IF Len(respCh[r]) < PendingBuf THEN [respCh EXCEPT ![r] = Append(respCh[r], msg)] ELSE respCh
          /\ sent' = [sent EXCEPT ![r] = IF msg.kind = "audio" THEN sent[r] + 2 ELSE sent[r]]
      BY <2>2
  <2>4. r \in Streams /\ sent[r] \in Nat
      BY <1>0
  <2>5. msg \in Replies /\ (msg.kind = "audio" => msg.pcm = Bytes(sent[r] + 1, sent[r] + 2))
      BY <2>4, MessagesTyped
  <2> DEFINE W == Way(heard[r], out[r], inner[r], carried[r], respCh[r])
             a == Append(respCh[r], msg)
             n == IF msg.kind = "audio" THEN sent[r] + 2 ELSE sent[r]
             b == Bytes(sent[r] + 1, sent[r] + 2)
  <2>6. Way(heard[r], out[r], inner[r], carried[r], a) = W \o msg.pcm
    <3>1. /\ heard[r] \in Seq(Sounds) /\ out[r] \in Seq(Chunks) /\ inner[r] \in Seq(Chunks)
          /\ carried[r] \in Chunks /\ respCh[r] \in Seq(Replies)
        BY <1>0, <2>4
    <3> QED
        BY ZenonT(40), <2>5, <3>1, WayFacts
  <2>7. /\ reading[r] # "gone" => Ordered(W, sent[r])
        /\ W \in Seq(Sounds)
        /\ Ordered(W, sent[r]) => Ordered(W, sent[r] + 2) /\ Ordered(W \o b, sent[r] + 2)
      BY <1>3, <2>4
  <2>8. /\ respCh' = (IF Len(respCh[r]) < PendingBuf THEN [respCh EXCEPT ![r] = a] ELSE respCh)
        /\ sent' = [sent EXCEPT ![r] = n]
      BY <2>3
  <2>9. msg.kind # "audio" => msg.pcm = <<>>
      BY <2>5, ChunkFacts
  <2> HIDE DEF a, b
  <2>10. /\ sent'[r] = n /\ (respCh'[r] = a \/ respCh'[r] = respCh[r])
         /\ \A q \in Streams \ {r} : Alike(q)
      BY <1>0, <2>1, <2>4, <2>8 DEF Alike
  <2> DEFINE U == Way(heard'[r], out'[r], inner'[r], carried'[r], respCh'[r])
  <2>11. U = W \/ U = W \o msg.pcm
      BY Zenon, <2>1, <2>6, <2>10
  <2> HIDE DEF W, U
  <2>12. reading[r] # "gone" => Ordered(U, n)
    <3> DEFINE V == W \o msg.pcm
    <3>1. msg.kind = "audio" => V = W \o b
        BY Zenon, <2>5 DEF b
    <3>2. msg.kind # "audio" => V = W
      <4>1. W \o <<>> = W
          BY <2>7, Joined
      <4> QED
          BY Zenon, <2>9, <4>1
    <3>3. U = W \/ U = V
        BY <2>11
    <3> HIDE DEF V
    <3>4. CASE msg.kind = "audio"
        BY <2>7, <3>1, <3>3, <3>4
    <3>5. CASE msg.kind # "audio"
        BY <2>7, <3>2, <3>3, <3>5
    <3> QED
        BY <3>4, <3>5
  <2> HIDE DEF n
  <2>13. reading[r] # "gone" =>
           Ordered(Way(heard'[r], out'[r], inner'[r], carried'[r], respCh'[r]), sent'[r])
      BY Zenon, <2>10, <2>12 DEF U
  <2> QED
      BY <1>3, <1>12, <2>1, <2>4, <2>10, <2>13
<1>21. ASSUME NEW k \in Conns, notifyAllError(k) PROVE \A q \in Streams : Wire(q)'
  <2>1. UNCHANGED <<at, sent, out, heard, reading, bridge, carried, inner>>
        /\ respCh' = [r \in Streams |-> IF r \in pending /\ Len(respCh[r]) < PendingBuf
                                        THEN Append(respCh[r], lost(r)) ELSE respCh[r]]
      BY <1>21 DEF notifyAllError, rest
  <2> TAKE r \in Streams
  <2> DEFINE W == Way(heard[r], out[r], inner[r], carried[r], respCh[r])
             a == Append(respCh[r], lost(r))
             U == Way(heard'[r], out'[r], inner'[r], carried'[r], respCh'[r])
  <2>2. respCh'[r] = a \/ respCh'[r] = respCh[r]
      BY <2>1
  <2>3. lost(r) \in Replies /\ lost(r).pcm = <<>>
      BY MessagesTyped
  <2>4. Way(heard[r], out[r], inner[r], carried[r], a) = W \o lost(r).pcm
    <3>1. /\ heard[r] \in Seq(Sounds) /\ out[r] \in Seq(Chunks) /\ inner[r] \in Seq(Chunks)
          /\ carried[r] \in Chunks /\ respCh[r] \in Seq(Replies)
        BY <1>0
    <3> QED
        BY ZenonT(40), <2>3, <3>1, WayFacts
  <2>5. W \in Seq(Sounds) /\ (reading[r] # "gone" => Ordered(W, sent[r]))
      BY <1>3
  <2> HIDE DEF a
  <2>6. U = W \/ U = W \o lost(r).pcm
      BY Zenon, <2>1, <2>2, <2>4
  <2> HIDE DEF W, U
  <2>7. U = W
    <3>1. W \o <<>> = W
        BY <2>5, Joined
    <3> QED
        BY Zenon, <2>3, <2>6, <3>1
  <2>8. reading[r] # "gone" => Ordered(U, sent'[r])
      BY Zenon, <2>1, <2>5, <2>7
  <2>9. \/ reading'[r] = "gone" /\ heard'[r] = heard[r]
        \/ Ordered(Way(heard'[r], out'[r], inner'[r], carried'[r], respCh'[r]), sent'[r])
      BY Zenon, <2>1, <2>8 DEF U
  <2>10. /\ at'[r] \in Before => bridge'[r] = "none"
         /\ bridge'[r] # "send" => carried'[r] = Nothing
         /\ at'[r] = "idle" => reading'[r] = "no"
      BY <1>3, <2>1
  <2> QED
      BY <2>9, <2>10, WireKept
<1> QED
    BY <1>4, <1>6, <1>7, <1>8, <1>9, <1>10, <1>11, <1>13, <1>14, <1>16, <1>17, <1>18, <1>19,
       <1>20, <1>21 DEF Next

---------------------------------------------------------------------------
(* What the caller hears *)

AudioInv ==
    /\ StreamInv /\ ConnInv /\ AudioType
    /\ \A r \in Streams : IF provider = "cartesia" THEN Wire(r) ELSE Voice(r)

\* Nothing is on its way at first
LEMMA AudioInitial == Init => AudioInv
<1> SUFFICES ASSUME Init PROVE AudioInv
    OBVIOUS
<1>1. StreamInv /\ ConnInv
    BY StreamInitial, ConnInitial
<1>2. /\ Nothing \in Chunks /\ Nothing.pcm = <<>>
      /\ <<>> \in Seq(Sounds) /\ <<>> \in Seq(Chunks) /\ <<>> \in Seq(Replies)
    BY ChunkFacts, EmptySeq
<1>3. NewResampler \in Resamplers /\ Resampling(NewResampler) /\ Written(NewResampler, 0)
      /\ NewResampler.m = 0
  <2>1. NewResampler.n = 0 /\ NewResampler.m = 0 /\ NewResampler.base = 0 /\ NewResampler.len = 0
        /\ NewResampler.carry = 0 /\ NewResampler \in Resamplers
      BY DEF NewResampler, Resamplers
  <2>2. windowLo(0) \in Nat
      BY WindowFacts
  <2>3. Resampling(NewResampler)
      BY <2>1, <2>2 DEF Resampling
  <2>4. Written(NewResampler, 0)
      BY <2>1 DEF Written
  <2> QED
      BY <2>1, <2>3, <2>4
<1>4. AudioType
    BY <1>2, <1>3 DEF Init, AudioType
<1>5. ASSUME NEW r \in Streams
      PROVE  /\ at[r] = "idle" /\ reading[r] = "no" /\ sent[r] = 0 /\ align[r] = <<>>
             /\ rs[r] = NewResampler /\ hold[r] = Nothing /\ out[r] = <<>> /\ heard[r] = <<>>
             /\ respCh[r] = <<>> /\ bridge[r] = "none" /\ carried[r] = Nothing /\ inner[r] = <<>>
    BY DEF Init
<1>6. Even(0) = 0 /\ Bytes(1, 0) = <<>> /\ Carried(0) = <<>> /\ Windows(0) = <<>>
  <2>1. Even(0) = 0
      BY DEF Even
  <2>2. Bytes(1, 0) = <<>>
    <3>1. 1 .. (0 - 1 + 1) = {}
        OBVIOUS
    <3> QED
        BY <3>1 DEF Bytes
  <2>3. Carried(0) = <<>>
    <3>1. Even(0) + 1 = 1
        BY <2>1
    <3> QED
        BY Zenon, <2>2, <3>1 DEF Carried
  <2>4. Windows(0) = <<>>
    <3>1. 1 .. 0 = {}
        OBVIOUS
    <3> QED
        BY <3>1 DEF Windows
  <2> QED
      BY <2>1, <2>2, <2>3, <2>4
<1>7. ASSUME NEW r \in Streams, provider = "cartesia" PROVE Wire(r)
  <2>1. Line(r) = <<>>
    <3> DEFINE e == <<>>
    <3>1. Way(e, e, e, Nothing, e) = <<>>
      <4>1. Queued(e) = <<>>
          BY <1>2, ChunkFacts, QueuedFacts
      <4>2. <<>> \o <<>> = <<>>
          BY <1>2, Joined
      <4> QED
          BY Zenon, <1>2, <4>1, <4>2 DEF Way
    <3> QED
        BY Zenon, <1>5, <3>1 DEF Line
  <2>2. Ordered(<<>>, 0) /\ Increasing(<<>>)
    <3>1. Len(<<>>) = 0
        BY EmptySeq
    <3> QED
        BY <1>2, <3>1 DEF Ordered, Increasing
  <2> QED
      BY <1>5, <2>1, <2>2 DEF Wire
<1>8. ASSUME NEW r \in Streams, provider # "cartesia" PROVE Voice(r)
  <2>1. Source(r)
      BY <1>3, <1>5, <1>6 DEF Source
  <2>2. Firm(r) = <<>>
      BY <1>3, <1>5, <1>6 DEF Firm
  <2>3. Track(r) = <<>>
    <3>1. Trail(<<>>, <<>>, Nothing) = <<>>
        BY <1>2, TrailFacts
    <3> QED
        BY Zenon, <1>5, <3>1 DEF Track
  <2>4. Spoken(r) = <<>>
      BY <1>5, <2>3 DEF Spoken
  <2>5. Starts(<<>>, <<>>)
      BY <1>2, StartFacts
  <2>6. at[r] = "idle" /\ reading[r] = "no" /\ hold[r] = Nothing
      BY <1>5
  <2>7. at[r] \in Early
      BY <2>6 DEF Early
  <2>8. Starts(Spoken(r), Firm(r)) /\ Track(r) = Firm(r)
      BY Zenon, <2>2, <2>3, <2>4, <2>5
  <2> QED
      BY <2>1, <2>6, <2>7, <2>8 DEF Voice
<1> QED
    BY <1>1, <1>4, <1>7, <1>8 DEF AudioInv

\* The parts of the invariant, each with what it needs of the others
LEMMA AudioInductive == AudioInv /\ [Next]_vars => AudioInv'
<1> SUFFICES ASSUME AudioInv, [Next]_vars PROVE AudioInv'
    OBVIOUS
<1>1. StreamInv /\ ConnInv /\ AudioType
    BY DEF AudioInv
<1>2. StreamInv' /\ ConnInv'
    BY <1>1, StreamInductive, ConnInductive
<1>3. \A r \in Streams : provider # "cartesia" => Voice(r) /\ Source(r)
    BY DEF AudioInv, Voice
<1>4. AudioType' /\ provider' = provider
    BY <1>1, <1>3, AudioTyped
<1>5. CASE provider = "cartesia"
  <2>1. \A r \in Streams : Wire(r)
      BY <1>5 DEF AudioInv
  <2>2. \A r \in Streams : Wire(r)'
      BY <1>1, <1>2, <1>4, <1>5, <2>1, WireInductive
  <2> QED
      BY <1>2, <1>4, <1>5, <2>2 DEF AudioInv
<1>6. CASE provider # "cartesia"
  <2>1. \A r \in Streams : Voice(r)'
      BY <1>1, <1>2, <1>3, <1>4, <1>6, VoiceInductive
  <2> QED
      BY <1>2, <1>4, <1>6, <2>1 DEF AudioInv
<1> QED
    BY <1>5, <1>6

\* What is heard starts what is on its way, and that starts the sentence
LEMMA AudioSafe == AudioInv => AudioFaithful
<1> SUFFICES ASSUME AudioInv, NEW r \in Streams
             PROVE  IF provider = "cartesia" THEN Increasing(heard[r])
                    ELSE /\ IsPrefix(heard[r], Sentence(r))
                         /\ reading[r] = "done" /\ at[r] = "closed" /\ ~cancelled[r]
                              => heard[r] = Sentence(r)
    BY DEF AudioFaithful
<1>1. CASE provider = "cartesia"
    BY <1>1 DEF AudioInv, Wire
<1>2. CASE provider # "cartesia"
  <2>1. Voice(r) /\ Source(r) /\ StreamInv /\ AudioType
      BY <1>2 DEF AudioInv, Voice
  <2>2. /\ heard[r] \in Seq(Sounds) /\ Track(r) \in Seq(Sounds) /\ Spoken(r) \in Seq(Sounds)
        /\ Firm(r) \in Seq(Sounds) /\ Sentence(r) \in Seq(Sounds)
        /\ Starts(heard[r], Track(r)) /\ Starts(Firm(r), Sentence(r))
        /\ \A s, t, u \in Seq(Sounds) : Starts(s, t) /\ Starts(t, u) => Starts(s, u)
        /\ \A s \in Seq(Sounds) : Starts(s, s)
      BY <1>2, <2>1, VoiceFacts
  <2>3. Starts(heard[r], Spoken(r))
      BY <2>2 DEF Spoken
  <2>4. Starts(Spoken(r), Sentence(r))
    <3>1. Starts(Spoken(r), Firm(r)) \/ Starts(Spoken(r), Sentence(r))
        BY <2>1 DEF Voice
    <3> QED
        BY <2>2, <3>1
  <2>5. Starts(heard[r], Sentence(r))
      BY <2>2, <2>3, <2>4
  <2>6. IsPrefix(heard[r], Sentence(r))
      BY <2>2, <2>5, StartFacts
  <2>7. ASSUME reading[r] = "done", at[r] = "closed", ~cancelled[r] PROVE heard[r] = Sentence(r)
    <3>1. Track(r) = Sentence(r) /\ hold[r] = Nothing /\ out[r] = <<>>
        BY <2>1, <2>7 DEF Voice
    <3>2. <<>> \in Seq(Chunks) /\ Nothing \in Chunks
        BY EmptySeq, ChunkFacts
    <3>3. Trail(heard[r], <<>>, Nothing) = heard[r]
        BY <2>2, <3>2, TrailFacts
    <3> QED
        BY Zenon, <3>1, <3>3 DEF Track
  <2> QED
      BY <1>2, <2>6, <2>7
<1> QED
    BY <1>1, <1>2

\* The caller hears the service's audio in order, nothing twice and nothing torn
\* between two chunks, whatever the sizes of the frames, the number of filter
\* taps and the length of the channels; and a stream that closed without an
\* error has delivered all of it (pcmAligner, streamResampler24to16, minimax's
\* summary, and for Cartesia readLoop, the bridge and the limiter's relay).
THEOREM AudioCorrect == Spec => []AudioFaithful
<1> QED
    BY AudioInitial, AudioInductive, AudioSafe, PTL DEF Spec, Safety
=============================================================================
