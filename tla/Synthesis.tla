----------------------------- MODULE Synthesis ------------------------------
(***************************************************************************)
(* The text-to-speech clients of internal/tts.  One sentence is one        *)
(* stream: a goroutine that turns the frames of a remote service into      *)
(* chunks on a channel, read by synthesizeSentences until the channel      *)
(* closes, an error chunk arrives or the turn is cancelled.                *)
(*                                                                         *)
(* All providers but Cartesia open a connection per sentence.  Cartesia's  *)
(* streams share one websocket, whose read loop routes replies through the *)
(* pending map to a bridge goroutine per stream, and a process-wide        *)
(* limiter, whose relay goroutine holds a slot while the stream lives.     *)
(* The services are external: they send what they like, fall silent or     *)
(* drop the connection.  Audio is the sequence of its byte positions.      *)
(***************************************************************************)
EXTENDS Integers, Sequences, FiniteSetsExt, SequencesExt

CONSTANTS
    Providers,      \* the providers considered
    Limit,          \* cartesia.max_concurrency
    MaxStreams,     \* bound on the sentences of a Cartesia client
    MaxConns,       \* bound on its dials
    MaxBytes,       \* bound on the audio of a sentence
    MaxChunks,      \* bound on the audio messages of a Cartesia sentence
    OutCap,         \* capacity of a stream's channel (8 or 16 in the code)
    PendingBuf,     \* cartesiaWSPendingBuf
    Taps            \* resampleTaps, odd

Sockets == {"volcengine", "aliyun", "telnyx"}
Events == {"minimax", "mimo"}
AllProviders == Sockets \cup Events \cup {"cartesia", "http", "whole"}

ASSUME SynthesisAssumption ==
    /\ Providers \subseteq AllProviders
    /\ {Limit, MaxStreams, MaxConns, MaxBytes, MaxChunks, OutCap, PendingBuf, Taps} \subseteq Nat \ {0}
    /\ Taps % 2 = 1

Streams == 1 .. MaxStreams
Conns == 1 .. MaxConns

VARIABLES
    provider,
    at,         \* where the caller of a stream, then its producer, is
    cancelled,  \* the turn's context is done
    awaiting,   \* acceptances the handshake still waits for
    closed,     \* the stream's own connection was closed
    sent,       \* bytes the service has sent
    align,      \* pcmAligner: the byte carried over
    rs,         \* streamResampler24to16
    hold,       \* the chunk the producer is sending
    out,        \* the channel the consumer reads
    heard,      \* what the consumer took
    reading,    \* "yes", "done" after the channel closed, "gone" when it left early
    slots,      \* the limiter
    conn, sock, loop,   \* c.conn; each dialled connection and its readLoop
    pending, respCh,    \* c.pending and the channels in it
    gen,        \* the connection on which the service generates for a stream, or 0
    bridge, carried, inner      \* the bridge goroutine and its channel

streamVars == <<awaiting, closed, align, rs>>
wsVars == <<conn, sock, loop, pending, respCh, gen, bridge, carried, inner>>
vars == <<provider, at, cancelled, awaiting, closed, sent, align, rs, hold, out,
          heard, reading, slots, wsVars>>

Audio(pcm) == [pcm |-> pcm, err |-> FALSE]
Nothing == Audio(<<>>)
Err == [pcm |-> <<>>, err |-> TRUE]
Even(n) == 2 * (n \div 2)
Bytes(lo, hi) == [i \in 1 .. (hi - lo + 1) |-> lo + i - 1]

---------------------------------------------------------------------------
(* The aligner and the resampler *)

\* Mutant: the odd byte is dropped instead of carried.
takeDropping(c, chunk) == [pcm |-> SubSeq(chunk, 1, Even(Len(chunk))), carry |-> <<>>]

take(c, chunk) ==
    LET all == c \o chunk
        whole == Even(Len(all))
    IN  [pcm |-> SubSeq(all, 1, whole), carry |-> SubSeq(all, whole + 1, Len(all))]

half == (Taps - 1) \div 2
center(m) == 3 * m + half
outN(n) == (2 * n + 2) \div 3
windowLo(m) == Max({0, (center(m) - Taps + 1) \div 2})

\* resample24kTo16k: the input samples each output sample is made of.
resample24kTo16k(n) ==
    [i \in 1 .. outN(n) |-> <<windowLo(i - 1), Min({center(i - 1) \div 2, n - 1})>>]

NewResampler == [n |-> 0, m |-> 0, base |-> 0, len |-> 0, carry |-> 0]

\* The next output the buffered input does not resolve yet.
unresolved(r) ==
    Min({m \in r.m .. (r.m + r.n + 1) : center(m) \div 2 > r.base + r.len - 1})

trim(r) ==
    LET keepFrom == (center(r.m) - Taps + 1) \div 2
        drop == keepFrom - r.base
    IN  IF drop > 0 /\ drop < r.len
        THEN [r EXCEPT !.base = keepFrom, !.len = @ - drop] ELSE r

emitSamples(r, final) ==
    LET last == r.base + r.len - 1
        next == IF final THEN Max({r.m, outN(r.n)}) ELSE unresolved(r)
        window(m) == <<Max({windowLo(m), r.base}), Min({center(m) \div 2, last})>>
    IN  IF r.len = 0 THEN [pcm |-> <<>>, state |-> r]
        ELSE [pcm |-> [i \in 1 .. (next - r.m) |-> window(r.m + i - 1)],
              state |-> trim([r EXCEPT !.m = next])]

Write(r, n) ==
    LET samples == (r.carry + n) \div 2
    IN  emitSamples([r EXCEPT !.n = @ + samples, !.len = @ + samples,
                              !.carry = (r.carry + n) % 2], FALSE)

Flush(r) == [emitSamples(r, TRUE) EXCEPT !.state = NewResampler]

---------------------------------------------------------------------------
(* What each client makes of a frame: nothing, audio, a failure, the end *)

volcPump(kind) ==
    CASE kind = "audio" -> "audio" [] kind = "end" -> "end"
      [] kind = "failed" -> "failed" [] OTHER -> "skip"

aliyunPump(kind) ==
    CASE kind = "audio" -> "audio" [] kind = "failed" -> "failed"
      [] kind = "end" -> "end" [] OTHER -> "skip"

routeTelnyxFrame(kind) ==
    CASE kind = "failed" -> "failed" [] kind = "end" -> "end"
      [] kind = "audio" -> "audio" [] OTHER -> "skip"

\* The last event repeats the whole utterance; [DONE] means nothing.
minimaxEvent(kind) ==
    CASE kind = "failed" -> "failed" [] kind = "summary" -> "end"
      [] kind = "audio" -> "audio" [] OTHER -> "skip"

mimoEvent(kind) ==
    CASE kind = "end" -> "end" [] kind = "failed" -> "failed"
      [] kind = "audio" -> "audio" [] OTHER -> "skip"

pumpPCMStream(kind) == IF kind = "audio" THEN "audio" ELSE "skip"

frame(kind) ==
    CASE provider = "volcengine" -> volcPump(kind)
      [] provider = "aliyun" -> aliyunPump(kind)
      [] provider = "telnyx" -> routeTelnyxFrame(kind)
      [] provider = "minimax" -> minimaxEvent(kind)
      [] provider = "mimo" -> mimoEvent(kind)
      [] provider = "http" -> pumpPCMStream(kind)
      [] OTHER -> "skip"

\* Byte streams and events break anywhere; socket frames hold whole samples.
FrameSizes == {n \in 1 .. MaxBytes : provider \in Sockets => n % 2 = 0}

---------------------------------------------------------------------------
(* Opening a stream of a provider that dials per sentence *)

PerSentence == provider # "cartesia"

\* The acceptances open waits for: the connection's and the session's, the
\* task's, none.
handshake == CASE provider = "volcengine" -> 2 [] provider = "aliyun" -> 1 [] OTHER -> 0

\* synthesizeSentences asks for the next sentence when it is done with the last.
nextSentence(r) ==
    /\ at[r] = "idle" /\ ~cancelled[r]
    /\ r > 1 => provider = "cartesia" /\ reading[r - 1] # "yes"
    /\ at' = [at EXCEPT ![r] = IF PerSentence THEN "dial" ELSE "acquire"]
    /\ reading' = [reading EXCEPT ![r] = "yes"]
    /\ UNCHANGED <<provider, cancelled, streamVars, sent, hold, out, heard, slots, wsVars>>

fail(r) ==
    /\ at' = [at EXCEPT ![r] = "failed"]
    /\ reading' = [reading EXCEPT ![r] = "gone"]

dial(r) ==
    /\ at[r] = "dial"
    /\ \/ /\ at' = [at EXCEPT ![r] = IF handshake = 0 THEN "pump" ELSE "expect"]
          /\ awaiting' = [awaiting EXCEPT ![r] = handshake]
          /\ UNCHANGED <<reading, closed>>
       \/ fail(r) /\ UNCHANGED <<awaiting, closed>>
    /\ UNCHANGED <<provider, cancelled, sent, align, rs, hold, out, heard, slots, wsVars>>

\* expect: the service accepts, says something else, or rejects; or the
\* connection fails.  The context is not watched here.
expect(r) ==
    /\ at[r] = "expect"
    /\ \/ /\ awaiting' = [awaiting EXCEPT ![r] = @ - 1]
          /\ at' = [at EXCEPT ![r] = IF awaiting[r] = 1 THEN "pump" ELSE "expect"]
          /\ UNCHANGED <<reading, closed>>
       \/ /\ fail(r)
          /\ closed' = [closed EXCEPT ![r] = TRUE]
          /\ UNCHANGED awaiting
    /\ UNCHANGED <<provider, cancelled, sent, align, rs, hold, out, heard, slots, wsVars>>

---------------------------------------------------------------------------
(* The pump *)

Pumping(r) == at[r] = "pump" /\ hold[r] = Nothing

\* The second goroutine of a socket's pump; the context of an HTTP request
\* breaks the read by itself.
watch(r) ==
    /\ at[r] = "pump" /\ cancelled[r] /\ ~closed[r]
    /\ closed' = [closed EXCEPT ![r] = TRUE]
    /\ UNCHANGED <<provider, at, cancelled, awaiting, sent, align, rs, hold, out, heard,
                   reading, slots, wsVars>>

\* The chunk a frame of n bytes becomes.
audioFrame(r, n) ==
    LET chunk == Bytes(sent[r] + 1, sent[r] + n)
    IN  /\ sent' = [sent EXCEPT ![r] = @ + n]
        /\ CASE provider = "mimo" ->
                  LET w == Write(rs[r], n)
                  IN  /\ hold' = [hold EXCEPT ![r] = Audio(w.pcm)]
                      /\ rs' = [rs EXCEPT ![r] = w.state]
                      /\ UNCHANGED align
             [] provider \in {"http", "minimax"} ->
                  LET t == take(align[r], chunk)
                  IN  /\ hold' = [hold EXCEPT ![r] = Audio(t.pcm)]
                      /\ align' = [align EXCEPT ![r] = t.carry]
                      /\ UNCHANGED rs
             [] OTHER -> /\ hold' = [hold EXCEPT ![r] = Audio(chunk)]
                         /\ UNCHANGED <<align, rs>>

flushAtEnd(r) == IF provider = "mimo" THEN Audio(Flush(rs[r]).pcm) ELSE Nothing

endOfStream(r) ==
    /\ hold' = [hold EXCEPT ![r] = flushAtEnd(r)]
    /\ at' = [at EXCEPT ![r] = "last"]
    /\ UNCHANGED <<sent, align, rs>>

failedStream(r) ==
    /\ hold' = [hold EXCEPT ![r] = Err]
    /\ at' = [at EXCEPT ![r] = "error"]
    /\ UNCHANGED <<sent, align, rs>>

\* An event repeats the utterance from its first byte.
summaryFrame(r) ==
    IF frame("summary") = "end" THEN endOfStream(r)
    ELSE /\ hold' = [hold EXCEPT ![r] = Audio(Bytes(1, Even(sent[r])))]
         /\ UNCHANGED <<at, sent, align, rs>>

readFrame(r) ==
    /\ Pumping(r) /\ ~closed[r]
    /\ \/ /\ frame("audio") = "audio"
          /\ \E n \in FrameSizes : sent[r] + n <= MaxBytes /\ audioFrame(r, n)
          /\ UNCHANGED at
       \/ provider \in Sockets \cup {"mimo"} /\ frame("end") = "end" /\ endOfStream(r)
       \/ provider = "minimax" /\ sent[r] > 0 /\ summaryFrame(r)
       \/ provider # "http" /\ frame("failed") = "failed" /\ failedStream(r)
    /\ UNCHANGED <<provider, cancelled, awaiting, closed, out, heard, reading, slots, wsVars>>

\* The body ends: for a response body that is the end of the audio.
endOfBody(r) ==
    /\ Pumping(r) /\ provider \in Events \cup {"http"}
    /\ endOfStream(r)
    /\ UNCHANGED <<provider, cancelled, awaiting, closed, out, heard, reading, slots, wsVars>>

\* ReadMessage or Read fails: after a cancellation that is the expected end.
readFails(r) ==
    /\ Pumping(r)
    /\ IF cancelled[r] THEN /\ at' = [at EXCEPT ![r] = "last"]
                            /\ UNCHANGED <<hold, sent, align, rs>>
       ELSE failedStream(r)
    /\ UNCHANGED <<provider, cancelled, awaiting, closed, out, heard, reading, slots, wsVars>>

\* streamWhole: one chunk, or one error, on a channel that holds one.
streamWhole(r) ==
    /\ Pumping(r) /\ provider = "whole"
    /\ \/ \E n \in 1 .. MaxBytes :
            /\ sent' = [sent EXCEPT ![r] = n]
            /\ hold' = [hold EXCEPT ![r] = Audio(resample24kTo16k(n \div 2))]
            /\ at' = [at EXCEPT ![r] = "last"]
       \/ /\ hold' = [hold EXCEPT ![r] = Err]
          /\ at' = [at EXCEPT ![r] = "error"]
          /\ UNCHANGED sent
    /\ UNCHANGED <<provider, cancelled, streamVars, out, heard, reading, slots, wsVars>>

\* emit: the send gives up when the context is done.
emit(r) ==
    /\ hold[r] # Nothing
    /\ \/ /\ Len(out[r]) < OutCap
          /\ out' = [out EXCEPT ![r] = Append(@, hold[r])]
          /\ UNCHANGED at
       \/ /\ cancelled[r] /\ provider # "whole"
          /\ at' = [at EXCEPT ![r] = "last"]
          /\ UNCHANGED out
    /\ hold' = [hold EXCEPT ![r] = Nothing]
    /\ UNCHANGED <<provider, cancelled, streamVars, sent, heard, reading, slots, wsVars>>

closeStream(r) ==
    /\ at[r] \in {"last", "error"} /\ hold[r] = Nothing
    /\ at' = [at EXCEPT ![r] = IF at[r] = "last" THEN "closed" ELSE "broken"]
    /\ closed' = [closed EXCEPT ![r] = TRUE]
    /\ UNCHANGED <<provider, cancelled, awaiting, sent, align, rs, hold, out, heard, reading,
                   slots, wsVars>>

---------------------------------------------------------------------------
(* The limiter *)

rest == <<provider, cancelled, streamVars, sent, hold, heard>>

\* acquire: a free slot is taken although the context may be done; a full
\* limiter is waited for, or given up.
acquire(r) ==
    /\ at[r] = "acquire"
    /\ \/ /\ slots < Limit
          /\ slots' = slots + 1
          /\ at' = [at EXCEPT ![r] = "connect"]
          /\ UNCHANGED reading
       \/ /\ slots = Limit /\ cancelled[r]
          /\ fail(r)
          /\ UNCHANGED slots
    /\ UNCHANGED <<rest, out, wsVars>>

\* Mutant: a stream that could not start keeps its slot.
startKeepsSlot(r) == fail(r) /\ UNCHANGED slots

\* limitedStream when start returned an error.
startFails(r) == fail(r) /\ slots' = slots - 1

\* limitedStream's relay: a chunk at a time, until the stream or the turn ends.
relayChunk(r) ==
    /\ at[r] = "relay" /\ inner[r] # <<>> /\ Len(out[r]) < OutCap
    /\ out' = [out EXCEPT ![r] = Append(@, Head(inner[r]))]
    /\ inner' = [inner EXCEPT ![r] = Tail(@)]
    /\ UNCHANGED <<rest, at, reading, slots, conn, sock, loop, pending,
                   respCh, gen, bridge, carried>>

\* Mutant: the relay only ends with the stream.
relayEndsWithStream(r) ==
    /\ at[r] = "relay" /\ bridge[r] = "ended" /\ inner[r] = <<>>
    /\ at' = [at EXCEPT ![r] = "closed"]
    /\ slots' = slots - 1
    /\ UNCHANGED <<rest, out, reading, wsVars>>

relayEnds(r) ==
    /\ at[r] = "relay"
    /\ cancelled[r] \/ (bridge[r] = "ended" /\ inner[r] = <<>>)
    /\ at' = [at EXCEPT ![r] = "closed"]
    /\ slots' = slots - 1
    /\ UNCHANGED <<rest, out, reading, wsVars>>

---------------------------------------------------------------------------
(* Cartesia's shared websocket *)

\* ensureConnected: one dial at a time under connMu.
ensureConnected(r) ==
    /\ at[r] = "connect"
    /\ \/ /\ conn # 0
          /\ at' = [at EXCEPT ![r] = "write"]
          /\ UNCHANGED <<conn, sock, loop, reading, slots>>
       \/ /\ conn = 0
          /\ \E k \in Conns :
               /\ sock[k] = "none" /\ (k > 1 => sock[k - 1] # "none")
               /\ conn' = k
               /\ sock' = [sock EXCEPT ![k] = "up"]
               /\ loop' = [loop EXCEPT ![k] = "reading"]
          /\ at' = [at EXCEPT ![r] = "write"]
          /\ UNCHANGED <<reading, slots>>
       \/ /\ conn = 0
          /\ startFails(r)
          /\ UNCHANGED <<conn, sock, loop>>
    /\ UNCHANGED <<rest, out, pending, respCh, gen, bridge, carried, inner>>

\* A write that fails closes the connection and forgets it.
writeBreaks ==
    /\ conn # 0
    /\ sock' = [sock EXCEPT ![conn] = "down"]
    /\ conn' = 0

\* registerPending, then writeJSON of the request, undone if that fails; what is
\* written to a dead connection is lost.
writeRequest(r) ==
    /\ at[r] = "write"
    /\ \/ /\ conn # 0
          /\ gen' = IF sock[conn] = "up" THEN [gen EXCEPT ![r] = conn] ELSE gen
          /\ at' = [at EXCEPT ![r] = "relay"]
          /\ bridge' = [bridge EXCEPT ![r] = "receive"]
          /\ pending' = pending \cup {r}
          /\ UNCHANGED <<conn, sock, reading, slots>>
       \/ /\ IF conn = 0 THEN UNCHANGED <<conn, sock>> ELSE writeBreaks
          /\ startFails(r)
          /\ UNCHANGED <<gen, bridge, pending>>
    /\ UNCHANGED <<rest, out, loop, respCh, carried, inner>>

\* The network or the service ends a connection.
connectionDrops(k) ==
    /\ sock[k] = "up"
    /\ sock' = [sock EXCEPT ![k] = "down"]
    /\ UNCHANGED <<rest, at, out, reading, slots, conn, loop, pending,
                   respCh, gen, bridge, carried, inner>>

Messages(r) ==
    {[to |-> r, kind |-> "audio", pcm |-> Bytes(sent[r] + 1, sent[r] + 2)] :
        x \in {y \in {1} : sent[r] < 2 * MaxChunks}}
    \cup {[to |-> r, kind |-> k, pcm |-> <<>>] : k \in {"done", "failed"}}

\* readLoop hands a message to its stream, or drops it after three seconds
\* without room; a reply for a stream that is gone changes nothing.
readMessage(k) ==
    /\ loop[k] = "reading" /\ sock[k] = "up"
    /\ \E r \in pending : \E msg \in Messages(r) :
         /\ gen[r] = k
         /\ respCh' = IF Len(respCh[r]) < PendingBuf
                      THEN [respCh EXCEPT ![r] = Append(@, msg)] ELSE respCh
         /\ sent' = [sent EXCEPT ![r] = IF msg.kind = "audio" THEN @ + 2 ELSE @]
         /\ gen' = [gen EXCEPT ![r] = IF msg.kind = "audio" THEN @ ELSE 0]
    /\ UNCHANGED <<provider, at, cancelled, streamVars, hold, out, heard, reading, slots,
                   conn, sock, loop, pending, bridge, carried, inner>>

lost(r) == [to |-> r, kind |-> "failed", pcm |-> <<>>]

\* Every stream in the map is told, if its channel has room, and forgotten:
\* those of a younger connection too.
notifyAllError(k) ==
    /\ loop[k] = "reading" /\ sock[k] = "down"
    /\ respCh' = [r \in Streams |->
                    IF r \in pending /\ Len(respCh[r]) < PendingBuf
                    THEN Append(respCh[r], lost(r)) ELSE respCh[r]]
    /\ pending' = {}
    /\ loop' = [loop EXCEPT ![k] = "cleanup"]
    /\ UNCHANGED <<rest, at, out, reading, slots, conn, sock, gen, bridge,
                   carried, inner>>

\* Mutant: the shared pointer is cleared whoever owns it.
readLoopEndsBlindly(k) ==
    /\ loop[k] = "cleanup"
    /\ conn' = 0
    /\ loop' = [loop EXCEPT ![k] = "done"]
    /\ UNCHANGED <<rest, at, out, reading, slots, sock, pending, respCh, gen,
                   bridge, carried, inner>>

readLoopEnds(k) ==
    /\ loop[k] = "cleanup"
    /\ conn' = IF conn = k THEN 0 ELSE conn
    /\ loop' = [loop EXCEPT ![k] = "done"]
    /\ UNCHANGED <<rest, at, out, reading, slots, sock, pending, respCh, gen,
                   bridge, carried, inner>>

---------------------------------------------------------------------------
(* The bridge goroutine *)

bridgeVars == <<rest, at, out, reading, slots, loop>>

\* It unregisters; what is still sent to the stream is looked at by nobody.
bridgeEnds(r) ==
    /\ bridge' = [bridge EXCEPT ![r] = "ended"]
    /\ pending' = pending \ {r}
    /\ respCh' = [respCh EXCEPT ![r] = <<>>]
    /\ gen' = [gen EXCEPT ![r] = 0]

bridgeReceives(r) ==
    /\ bridge[r] = "receive" /\ respCh[r] # <<>>
    /\ LET msg == Head(respCh[r])
       IN  \/ /\ msg.kind = "done"
              /\ bridgeEnds(r)
              /\ UNCHANGED carried
           \/ /\ msg.kind # "done"
              /\ carried' = [carried EXCEPT ![r] = IF msg.kind = "audio" THEN Audio(msg.pcm) ELSE Err]
              /\ bridge' = [bridge EXCEPT ![r] = "send"]
              /\ respCh' = [respCh EXCEPT ![r] = Tail(@)]
              /\ UNCHANGED <<pending, gen>>
    /\ UNCHANGED <<bridgeVars, conn, sock, inner>>

\* outCh <- chunk does not watch the context.
bridgeSends(r) ==
    /\ bridge[r] = "send" /\ Len(inner[r]) < OutCap
    /\ inner' = [inner EXCEPT ![r] = Append(@, carried[r])]
    /\ carried' = [carried EXCEPT ![r] = Nothing]
    /\ IF carried[r].err THEN bridgeEnds(r)
       ELSE bridge' = [bridge EXCEPT ![r] = "receive"] /\ UNCHANGED <<pending, respCh, gen>>
    /\ UNCHANGED <<bridgeVars, conn, sock>>

\* sendCancel's write may fail, and then takes the connection with it.
sendCancel(r) ==
    /\ bridge[r] = "receive" /\ cancelled[r]
    /\ UNCHANGED <<conn, sock>> \/ writeBreaks
    /\ bridgeEnds(r)
    /\ UNCHANGED <<bridgeVars, carried, inner>>

---------------------------------------------------------------------------
(* The consumer, and the turn *)

Closed(r) == at[r] \in {"closed", "broken"}

\* Linear16BytesToPCM drops half a sample; an error or a cancelled turn ends
\* the reading.
consume(r) ==
    /\ reading[r] = "yes" /\ out[r] # <<>>
    /\ LET chunk == Head(out[r])
           whole == IF provider \in {"mimo", "whole"} THEN Len(chunk.pcm) ELSE Even(Len(chunk.pcm))
           gone == cancelled[r] \/ chunk.err
       IN  /\ heard' = [heard EXCEPT ![r] = IF gone THEN @ ELSE @ \o SubSeq(chunk.pcm, 1, whole)]
           /\ reading' = [reading EXCEPT ![r] = IF gone THEN "gone" ELSE "yes"]
    /\ out' = [out EXCEPT ![r] = Tail(@)]
    /\ UNCHANGED <<provider, at, cancelled, streamVars, sent, hold, slots, wsVars>>

\* Blocked in emitFrame, it leaves the stream when the turn is cancelled.
abandon(r) ==
    /\ reading[r] = "yes" /\ cancelled[r]
    /\ reading' = [reading EXCEPT ![r] = "gone"]
    /\ UNCHANGED <<rest, at, out, slots, wsVars>>

consumed(r) ==
    /\ reading[r] = "yes" /\ Closed(r) /\ out[r] = <<>>
    /\ reading' = [reading EXCEPT ![r] = "done"]
    /\ UNCHANGED <<rest, at, out, slots, wsVars>>

\* A barge-in or the end of the call.
bargeIn(r) ==
    /\ reading[r] = "yes" /\ ~cancelled[r]
    /\ cancelled' = [cancelled EXCEPT ![r] = TRUE]
    /\ UNCHANGED <<provider, streamVars, sent, hold, heard, at, out, reading, slots, wsVars>>

---------------------------------------------------------------------------

Init ==
    /\ provider \in Providers
    /\ at = [r \in Streams |-> "idle"]
    /\ cancelled = [r \in Streams |-> FALSE]
    /\ awaiting = [r \in Streams |-> 0]
    /\ closed = [r \in Streams |-> FALSE]
    /\ sent = [r \in Streams |-> 0]
    /\ align = [r \in Streams |-> <<>>]
    /\ rs = [r \in Streams |-> NewResampler]
    /\ hold = [r \in Streams |-> Nothing]
    /\ out = [r \in Streams |-> <<>>]
    /\ heard = [r \in Streams |-> <<>>]
    /\ reading = [r \in Streams |-> "no"]
    /\ slots = 0
    /\ conn = 0
    /\ sock = [k \in Conns |-> "none"]
    /\ loop = [k \in Conns |-> "none"]
    /\ pending = {}
    /\ respCh = [r \in Streams |-> <<>>]
    /\ gen = [r \in Streams |-> 0]
    /\ bridge = [r \in Streams |-> "none"]
    /\ carried = [r \in Streams |-> Nothing]
    /\ inner = [r \in Streams |-> <<>>]

\* What the program does by itself with a stream that is being cancelled.
winds(r) ==
    \/ dial(r) \/ watch(r) \/ emit(r) \/ closeStream(r) \/ streamWhole(r)
    \/ (closed[r] \/ (cancelled[r] /\ provider \notin Sockets)) /\ readFails(r)
    \/ acquire(r) \/ ensureConnected(r) \/ writeRequest(r) \/ relayEnds(r)

Next ==
    \/ \E r \in Streams :
         \/ nextSentence(r) \/ dial(r) \/ expect(r) \/ watch(r) \/ readFrame(r) \/ endOfBody(r)
         \/ readFails(r) \/ streamWhole(r) \/ emit(r) \/ closeStream(r)
         \/ acquire(r) \/ relayChunk(r) \/ relayEnds(r) \/ ensureConnected(r)
         \/ writeRequest(r)
         \/ bridgeReceives(r) \/ bridgeSends(r) \/ sendCancel(r)
         \/ consume(r) \/ abandon(r) \/ consumed(r) \/ bargeIn(r)
    \/ \E k \in Conns :
         \/ connectionDrops(k) \/ readMessage(k) \/ notifyAllError(k)
         \/ readLoopEnds(k)

Safety == Init /\ [][Next]_vars

\* The goroutines run, and a dial and a request end with their context; what the
\* service says, a handshake or a frame, is not promised.
Fairness == \A r \in Streams : WF_vars(winds(r))

Spec == Safety /\ Fairness

---------------------------------------------------------------------------
(* Properties *)

TypeOK ==
    /\ provider \in Providers
    /\ at \in [Streams -> {"idle", "dial", "expect", "pump", "last", "error", "closed", "broken",
                           "acquire", "connect", "write", "relay", "failed"}]
    /\ cancelled \in [Streams -> BOOLEAN] /\ closed \in [Streams -> BOOLEAN]
    /\ awaiting \in [Streams -> 0 .. 2]
    /\ sent \in [Streams -> 0 .. Max({MaxBytes, 2 * MaxChunks})]
    /\ reading \in [Streams -> {"no", "yes", "done", "gone"}]
    /\ slots \in 0 .. Limit
    /\ conn \in 0 .. MaxConns
    /\ sock \in [Conns -> {"none", "up", "down"}]
    /\ loop \in [Conns -> {"none", "reading", "cleanup", "done"}]
    /\ pending \subseteq Streams
    /\ gen \in [Streams -> 0 .. MaxConns]
    /\ bridge \in [Streams -> {"none", "receive", "send", "ended"}]
    /\ \A r \in Streams : /\ Len(out[r]) <= OutCap /\ Len(inner[r]) <= OutCap
                          /\ Len(respCh[r]) <= PendingBuf

\* The audio of the sentence, whole: what the service has sent, as samples.
Sentence(r) ==
    IF provider \in {"mimo", "whole"} THEN resample24kTo16k(sent[r] \div 2)
    ELSE Bytes(1, Even(sent[r]))

Increasing(s) == \A i \in 1 .. Len(s) - 1 : s[i] < s[i + 1]

\* The caller hears the service's audio in order, nothing twice and nothing
\* torn between two chunks, as if it had arrived in one piece; and a stream
\* that closed without an error has delivered all of it.  Only Cartesia's read
\* loop may leave a gap, when it drops a reply nobody takes (pcmAligner,
\* streamResampler24to16, minimax's summary, readLoop's timeout).
AudioFaithful ==
    \A r \in Streams :
        IF provider = "cartesia" THEN Increasing(heard[r])
        ELSE /\ IsPrefix(heard[r], Sentence(r))
             /\ reading[r] = "done" /\ at[r] = "closed" /\ ~cancelled[r] => heard[r] = Sentence(r)

\* A websocket that is up is the one the client would use, so the next write
\* error or drop finds it: a retired read loop never orphans its successor's
\* connection (the c.conn == conn test of readLoop).
ConnectionOwned == \A k \in Conns : sock[k] = "up" => conn = k

Holders == {r \in Streams : at[r] \in {"connect", "write", "relay"}}

\* The limiter's slots are exactly the streams that are starting or relayed,
\* whatever failed on the way: none is lost, none returned twice (acquire and
\* release of limitedStream).
SlotsHeld == TypeOK /\ slots = Cardinality(Holders)

Over(r) == at[r] \in {"closed", "broken", "failed"}

\* A cancelled turn gets its stream closed and its slot back, although the
\* consumer has stopped reading and the service has fallen silent (the
\* watchers of the socket clients, the relay's select).  Only a handshake, which
\* is read before there is a watcher and without a deadline, may hold it up for
\* as long as the service says nothing.
CancelledEnds == \A r \in Streams : cancelled[r] ~> Over(r) \/ at[r] = "expect"
=============================================================================
