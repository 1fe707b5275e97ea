# Verification of streamcore-server

TLA+ modules for the concurrent core of the voice-agent server, the TLC runs that
check them on small instances, and TLAPS proofs of what matters most for every
instance. `PROJECT.json` holds the index: which definition models which lines, which
run checks which property, which hazards of the code the properties are for.

## 1. Inventory

The server answers WHIP requests with WebRTC peers. Each call has a session (which a
client may resume with a token), a peer, and a pipeline that turns speech into text,
text into an LLM reply, and the reply into speech. Plugins are subprocesses that
provide tools to the LLM.

| Component (package) | State | Operations | Hard behaviour |
|---|---|---|---|
| Response ownership (`pipeline/agent.go`, `thinking.go`, `outbound.go`) | `responseGen`, `responseCancel`, `outPCMCh`, `speaking` | `runAgent`, `respond`, `greet`, `synthesizeSentences`, `supersede`/`register`/`finishResponse`, sender | A retired response unwinds while its successor runs; everybody shares one bounded queue; the call ends anywhere |
| Session manager (`session`) | sessions, resume tokens, peers, `idleSince`, `etag`, conversation | `GetOrCreate`, `Resume`, `IssueResumeToken`, `AddPeer`, `evictPeers`, `removePeer`, `Remove`, `reap`, `CloseAll` | POST, PATCH, DELETE, the reaper, shutdown and peer teardown interleave between critical sections |
| WHIP signalling (`signaling`) | rate limiter, identities | POST, PATCH, DELETE handlers | One step of several failing; If-Match and restart are separate sections |
| Peer (`peer`) | connection state, closed flag, data channel queues | `New`, `HandleOffer`, `RestartICE`, `Close` | Close is idempotent, slow and called from several places |
| External plugin (`plugin/external.go`) | process, pipes, pending calls, `running`, `stopping` | `Start`, `call`, `readLoop`, `restart`, `Stop` | Crashes at any moment, replies racing deadlines, restart racing shutdown |
| Plugin manager, manifests, sessions, confirmations (`plugin`, `pipeline/toolgate.go`) | registry of tools, hosts, bound sessions, pending tokens | `LoadAll`, `announceReady`, `Close`, `BindSession`, `Gate`, `CallTool`, `runTool` | Calls of several sessions and of plugins share one store of tokens; processes die and re-declare; ABA on a session ID |
| Reflex on partials (`pipeline/partial.go`) | fired tools, settling captures, record of packets | `observe`, capture timers, `endUtterance`, `fireReflex` | A timer waits for the lock while its utterance ends; the model sends the same command a moment later |
| Turn taking (`pipeline/turnbuffer.go`, `inbound.go`, `bargein.go`, `duck.go`, `turnquality.go`, `rag_prefetch.go`, `misunderstanding.go`, `vad`) | merge window, barge-in window, VAD, duck, prefetch slot | STT callback, frame loop, turn buffer, agent | A continuation racing a timer; flags restored on some paths only; results for the turn before |
| LLM clients (`llm`) | history, tool rounds | `Chat`, `reconcileHistory`, `pruneHistory`, sentence cutting | Cancelled in the middle of tool calls; budget; pruning at a boundary |
| TTS limiter and streams (`tts`) | slots, one shared websocket, aligner, resampler | `limitedStream`, `readLoop`, bridges, provider pumps | Abandoned and cancelled streams, reconnects, chunks cut anywhere |
| Background jobs (`rolling_summary.go`, `transcript.go`, `conversation.go`, `lifecycle.go`) | summary, turn counter | goroutines per turn | Results arriving after the turn they are for |
| Realtime mode (`realtime`, `pipeline/realtime*.go`) | audio queue, item being played | event loop | Truncation on barge-in |
| Other providers, RAG, codecs, configuration, bundled plugins | little | adapters, parsing, signal processing | I/O |

They interact through: the handler's calls into `Manager` and `Session`;
`Session.AddPeer`, which starts a goroutine that waits for the track and runs the
pipeline; the peer's `OnClose` callback back into the session; channels inside the
pipeline (turns, interrupts, sentences, outbound frames); tool calls from `Chat`
through the plugin manager to the plugin process.

What makes the parts correct:

* ownership: one response produces audio at a time, and it is the one the next
  barge-in would cancel; a reply ends with "listening"; nothing outlives the call;
* sessions: one client carries a conversation, its owner does not change, the cap
  holds, an evicted connection is not revived, an abandoned session is collected;
* plugins: one process at a time, none left by a shutdown that is remembered or by a
  Stop that returned, calls accepted only while they can be failed; a tool behind the confirmation gate runs once per approval; the manager's tables
  name nothing dead; a half-spoken instruction is sent once;
* turn taking: no word of the caller is lost or answered twice, a turn is held for a
  bounded time, old words do not interrupt the agent;
* chat and speech: every request is well formed, the tool loop ends, audio arrives
  whole and in order, slots and connections are accounted for, a cancelled sentence
  past its handshake ends.

Some of this the code keeps only in part, and section 6 says where: a session may be
served by two connections and reaped under a call, a call to a plugin and a Stop may
hang, the duck may stay on.

## 2. Modules

| Module | What it is |
|---|---|
| `ResponseOwnership` | The audio path of one pipeline: agent loop, response goroutines with their LLM stream, synthesizer and tool sounds, sender, barge-in window, Stop |
| `AudioFloor` | The abstract promise of response ownership, which `ResponseOwnership` implements |
| `ResponseOwnershipProofs` | Its theorems |
| `SessionManager` | Manager, sessions, tokens, peers, the WHIP handlers, reaper and shutdown |
| `MCSessionManager` | Model values and symmetry for TLC |
| `SessionManagerProofs` | Its theorems |
| `ExternalPlugin` | One plugin subprocess: Start, calls, read loop, restart, Stop |
| `ExternalPluginProofs` | Its theorems |
| `TurnTaking`, `MCTurnTaking` | Voice activity, barge-in candidates, duck, turn buffer, prefetch and the agent's decision about a turn |
| `TurnTakingProofs` | Its theorems |
| `Chat`, `MCChat` | The three chat clients: history, tool loop, repair, pruning, sentences |
| `ChatProofs` | The theorems about the cutting of sentences and the requests |
| `Synthesis` | The TTS clients: one stream per sentence, Cartesia's shared websocket, the limiter |
| `SynthesisProofs` | The theorems about its connection, its limiter and the audio |
| `Plugins`, `MCPlugins` | Manifests, loading, the registry, the confirmation gate, session binding, calls of models and plugins |
| `Reflex`, `MCReflex` | Partials that fire tools, on top of `Plugins` (EXTENDS) |
| `ReflexProofs` | The theorems about `Plugins` and about `Reflex` |
| `SequenceFacts` | What the proofs share about sequences: induction over lengths, `FlattenSeq`, `Max` and `Min` of a finite set |

Definitions that end in a suffix after an underscore, such as `spend_Never` or
`confirm_NoRecheck`, and those introduced by a comment "Mutant", such as
`consumeKeeps`, are plausible wrong versions of the operator that follows them. No
specification uses them: each shows that a property would notice that mistake.

### ResponseOwnership

Response 0 is the greeting and response *r* > 0 answers the turn that moved
`responseGen` to *r*; a generation opened by a barge-in has no response. Each access
to shared state is a step. `agent` is runAgent's position: `takeTurn` and
`takeInterrupt` increment the generation, then `cancelResponse`, `drainOutbound` and
`supersedeUnspeak` run as three steps (`supersedeResponse`), then `startRespond`
spawns the goroutine. `pc[r]` is the response's position: `registerResponse` or
`registerRefused`, running, and the steps of `finishResponse` (`finishRelease`,
`finishUnspeak`, `waitOutboundEmpty` or `drainDeadline`, `finishRecheck`,
`sendListening`). `chat[r]` is the LLM stream, `synth[r]` the synthesizer
(`takeSentence`, `nextFrame`, `emitFrame`, `raiseSpeaking`, `announceSpeaking`), and
`tool[r]`, `tone` the tool handler with its thinking sound and chime. Frames are
tagged with their producer, text is not modelled. Where Go's select may choose, the
model may: `emitFrame` needs room in the queue, `emitAborted` a cancelled context,
and with both either happens. A barge-in is a window that opens, and fires or is
suppressed; what the transcript said is the choice.

### SessionManager

A POST makes at most one peer and at most one resume token and is their name in the
model; a peer's ID is its session's, so a session's peer map has one slot. Every
critical section of `Manager.mu` or `Session.mu` is one step. `Remove` and `CloseAll`
keep `Manager.mu` while they close sessions, so `mu` names who has it. `pc[q]` is the
position of a POST (`GetOrCreate` or `Resume`, `resumeRotates`, `SetResourceID`,
`AddPeer`, `HandleOffer`, `rotateResumeToken`, `IssueResumeToken`); `drain` and
`victim` are the loop of `evictPeers` and `Close`; `peer` and `track` are the
connection and the goroutine AddPeer started; `patch` is the PATCH handler. A
connection may stay in `pc.Close` for as long as it likes, and nobody waits for it.
Time is the order zero, within the grace, expired.

### ExternalPlugin

Each launch of the process has a number, which also names its read loop, its
`sync.Once`, its initialize call and the restart goroutine its read loop may start.
`hostAt[h]` is where a Start is, and the restart around it: host 0 is
`Manager.load`. `stopAt[s]` is where a caller of Stop is: `Manager.Close`, a failing
Start, or a restart that honours a shutdown. `callAt[c]` is the position of a call;
`reply[c]` its one-slot channel; `pendingMu` is held across steps only by the read
loop that fails the waiters, `writeMu` by a call in `Encode`. The plugin process is
external: it takes a request from its stdin pipe when it likes (`takesRequest`),
answers at most once or not at all, with a result or an error, at any time, also when
the call has timed out, and dies at any time. The steps of Start
after a crash take well under the one-second backoff, so a restart leaves its backoff
only when no other Start is still unwinding (`backoffEnds`).

### TurnTaking

Five goroutines: the STT callback (`sttPartial`, `sttFinal`, and `sttSends`, the send
that may block on a full channel), the frame loop of `runInbound`, the turn buffer, `runAgent` and the current response. A text is a
sequence of words, each of which stands for its class in the vocabularies of
`bargein.go`; the predicates on transcripts are translated over those classes. A frame
is an energy class compared with the noise and the echo threshold; any class may come
in any state. Time is counted in
ticks of one shared `Tick`, which the timers and windows count down. `unheard` is
history: what the caller said and the agent has not taken yet.

### Chat

`at[t]` is the position of a turn's `Chat`. A turn starts wherever the `Chat` of the
one before is, whose context is then cancelled (`Superseded`); `late` notes that a
superseded turn has written to the history behind its successor. Messages keep their role, calls and call
ID, not their text. The OpenAI client repairs and prunes around calls, Ollama's cuts
where the window falls, the external-agent client keeps no history. The text being
streamed is a sequence of characters of four classes, and `cuts` the places where a
sentence was handed on.

### Synthesis

Audio is the sequence of byte positions the service sent, so loss, repetition and
reordering are visible. `at[r]` is the caller of a stream and then its producer. One
provider is chosen per behaviour. The per-sentence clients share `handshake`, `watch`,
`readFrame` and their own classification of events; `take` is the aligner and
`Write`/`Flush` the streaming resampler, checked against the one-shot
`resample24kTo16k` with positions instead of amplitudes. Cartesia's client adds the
connection (`conn`, `sock`, `loop`), the pending map, the bridges and the limiter.

### Plugins and Reflex

A manifest is a record of what the loader looks at; `Contents` is what a folder may
hold, so TLC loads every directory made of them. `at` and `next` are `LoadAll`'s
position; between two of its steps a started process may already die or call back. A
token is the index of its challenge in `asked`; `pending` and `lapsed` are the store
and the clock. `call[c]` is a call that passed the gate and has not run yet, the window
in which everything else may happen. `ran` is history: the gated runs with the token
each spent. Arguments are a label and an integer that is exact up to `Exact`, the
model's 2^53, because `hashArgs` decodes numbers as float64.

`Reflex` adds per pipeline the fired tools, the settling captures with their timers (a
timer that went off can no longer be stopped), and packets between `emit` and the
record of them. The phrase matching is translated over words. `credit` is history:
packets a partial delivered minus calls suppressed on their account.

## 3. Runs

| Run | Bounds | What it shows |
|---|---|---|
| `ownership` | greeting, 2 generations, queue of 1, 2 frames, 1 sentence, TTS may fail | `OwnerInv`, `LiveIsCancellable`, `ListeningAfterSpeech`, and `AudioFloor` is implemented (`FloorSafety`) |
| `pipeline_ends` | 1 generation, 3 sentences, tool calls, TTS may fail, call may end | `FloorReturned`: a reply that keeps its generation ends in "listening" or is stranded by a failed synthesizer (section 6); `WindsDown`: after Stop everything ends, thinking sound and chime included; `ListeningAfterSpeech` with those sounds in the queue |
| `sessions` | 3 POSTs, 1 session | `OneCarrier`, `NoLostSession`, `ConversationOwner` |
| `restarts` | 2 POSTs, 1 PATCH, 2 sessions, cap 1 | `CapHolds`, `RestartsSkipEvicted`: a PATCH that looked its peer up long ago never restarts one that was evicted since |
| `sessions_end` | 2 POSTs, 1 session, shutdown | `AbandonedIsReaped`, `ClosedWindsDown` |
| `plugin` | 2 launches, 1 tool call, 2 restart attempts, shutdown | `OneProcess`, `StopHonoured`: with `stopping` set and nobody at work no process is left; `StopWaits`: a Stop that returned leaves its process dead; `RunningIsServed`; `TypeOK` |
| `turn_taking` | 2 finals of 3 kinds, 3 partials, channels of 1, both guards | `WordsKept`, `HoldIsBounded`, `FreshCandidate`, `EveryTurnTaken` |
| `chat` | 2 turns of each client, 2 rounds of 2 calls, window of 4, texts of 3 characters | `RequestsWellFormed`, `TokensWhole`, `ToolLoopEnds` |
| `tool_budget` | as `chat`, 1 turn | violated: see section 6 |
| `synthesis` | 8 kinds of provider, 13 bytes; Cartesia: 2 sentences, 2 dials, 1 slot | `AudioFaithful`, `ConnectionOwned`, `SlotsHeld`, `CancelledEnds`: a cancelled stream ends, or waits for the answer to its handshake |
| `registry` | 2 folders of 6 kinds, 2 sessions, 2 pipelines, 1 call at a time, 3 inputs | `ConfirmedOnce`, `RegistrySound` |
| `reflex` | 2 tools (a brake and a pick with a capture), 5 transcripts, 4 inputs | `NothingSwallowed`, `OncePerInstruction` |

Why the bounds are enough to be interesting. Ownership goes wrong between a response
and its successor, and with a third party to the race when the successor is retired
too: a greeting and two generations give three responses. A queue of one frame is
both full and empty within a reply of two. The sentences channel of one is full at the
second sentence. For sessions the third POST is the one that presents a token already
spent, or that redials while the second is attaching. Two sessions and a cap of one
put a POST at the limit. A second launch is the restart; a crash of that one too is a
restart during a restart. Two finals are a turn and its continuation, or two turns with
a channel of one between buffer and agent. Two chat turns are one that is cancelled
between its calls, or leaves forced calls behind, and one that starts beside it,
repairs and prunes: two rounds already fill a window of four. Thirteen bytes are six and a half
samples, more than the resampler's window of five taps. Three inputs are a challenge,
an approval and a replay; the single call slot frees itself in between, and `GateSafe`
covers any number. Four inputs of `reflex` are an instruction, its revision, a final
and the model's own call. The proofs remove the bounds for the properties they cover;
type correctness of `ResponseOwnership` and `SessionManager` is proved and no longer
repeated by a run.

Deadlock is checked in `turn_taking`, where frames and ticks never stop; the other
systems may stop (calls end, requests run out, plugins are shut down).

Switches in the constants. `LateGreeting` and `OverlongLines` open windows in which the
code breaks the property at hand; the passing runs keep them closed and section 6 says
what happens when they are open. The greeting is in the `ownership` run, not in
`pipeline_ends`.

## 4. Fairness

* Goroutines that can run do run: weak fairness for every step of a handler,
  response, synthesizer, read loop, restart and Stop.
* A sender blocked on a full Go channel is woken in order, so a producer that competes
  with others for the queue gets strong fairness (`emitFrame`, `playSentSound`).
* The reaper's ticker comes again and `Manager.mu` is handed on in order: strong
  fairness for `reap`.
* Provider streams end, tools return and `pc.Close` is bounded, because request contexts
  and timeouts bound them in the code. A TTS stream that fails is a choice, not owed.
* The turn buffer, the agent and time go on (`TurnTaking`); the turn buffer, which
  competes with the STT callback for the agent's channel, gets strong fairness for the
  same reason as above. A turn's `Chat` goes on (`Chat`): OpenAI's and the agent's HTTP
  clients and plugin calls have timeouts, and an Ollama service is assumed to answer.
* The goroutines of a stream go on (`Synthesis`, `winds`). Services owe nothing, neither
  audio nor the answer to a handshake, which `CancelledEnds` therefore sets apart.
* Clients, callers and plugins owe nothing: no turn, barge-in, request, DELETE, crash,
  answer, shutdown or end of call is made to happen by fairness.

## 5. Proofs

All theorems hold for every value of the constants that the modules' named assumptions
allow: any number of requests, sessions, streams, calls and utterances. The runs keep
the instance small; a theorem removes the bound. A hypothesis on a switch is named
with the theorem, and section 6 says what the code does when the switch is open.

`ResponseOwnershipProofs`

* `TypeCorrect`.
* `OwnerCorrect` proves `OwnerInv`, which is inductive together with `TypeOK`.
  `LiveIsCancellable` alone is not inductive: a response that unwinds clears the
  installed cancel func if the recorded generation is its own, so one has to know that
  generations name responses uniquely and that the installed func, the recorded
  generation and the current generation agree except between opening a generation and
  cancelling its predecessor. `LiveCancellable` follows; `FloorRefined` shows that every
  step is a step of `AudioFloor` or leaves it alone. These three assume
  `LateGreeting = FALSE`.
* `ListeningCorrect` has no hypothesis. `ListenInv` says that generations only grow and
  one that is being answered is nobody's yet (`GenInv`), that a response which is not
  running has no synthesizer left (`SynthInv`), and that past its drain wait it has no
  speech in the queue, or ran into the deadline, or its generation is over and the
  recheck will say so (`DrainedInv`). Speech that is gone stays gone because only a
  synthesizer at work queues a frame.

`SessionManagerProofs`

* `TypeCorrect`. `OneCarrierCorrect` rests on `CarrierInv`, which adds that an indexed
  token belongs to an answered POST and that every session a POST names has been drawn:
  only a fresh session and a resume make a carrier, the first of a session nobody names,
  the second by spending the token of the carrier before. `ConversationKept`,
  `CapCorrect` and `NoSessionLost` are inductive with `TypeOK`. All hold however long
  `pc.Close` takes.
* `RestartsCorrect` proves the action property `RestartsSkipEvicted`. A restart is
  admitted by the state of its peer, so what has to be known is that whoever an eviction
  took out of a map and got past is closing or closed (`EvictInv`), and stays so. That
  needs that a session is closed once, so no second Close replaces the victim of the
  first in the middle of its work (`DrainInv`).

`ExternalPluginProofs`

* `TypeCorrect`. `OneProcessCorrect` rests on `RecoveryInv`: a Start is alone until its
  read loop runs; a restart that waits without having been told to stop is the only one
  and its process is gone; only the latest read loop is at work; a failed handshake
  leaves `stopping` set, which is what keeps the restart that ran it and the one its read
  loop may have started from going on together. It assumes that the scanner's buffer
  holds every line. `RunningServed` is inductive with `TypeOK`.
* `StopWaitsCorrect` has no hypothesis. `TearInv` says that nobody names a process that
  was never launched (`KnownProcs`), and that a teardown which is over has left no
  process and a Stop returns after it (`TornDown`).
* `StopCorrect` proves `StopHonoured` with `HonourInv`: nobody stops a plugin whose first
  Start is under way (`LoaderUntold`), a Start or restart that calls Stop tears down the
  latest process (`OwnStop`), and while `stopping` is set a process that runs is being
  torn down, is about to be found by a Stop, or belongs to a Start or restart that has
  yet to look at `stopping` (`StopPending`). A shutdown may land anywhere; it assumes `OverlongLines = FALSE`.

`TurnTakingProofs`

* `HoldCorrect`: the wait a turn is given is clipped to what is left of `turnMergeMax`
  (`WaitIsClipped`), and time takes from the timer what it adds to the turn's age.
* `CandidatesAreFresh`: the partial text kept since the last final is of fresh words
  (`WordsAreFresh`), so the action property holds of every step that opens a candidate.
* `WordsCorrect` proves `WordsKept`, the module's `TypeOK` included. The equation between
  the words not yet seen and the two channels with the pending turn between them is
  inductive (`WordsInv`): a final goes in at the far end, a merge moves the boundary
  between `finalCh`, with the final its sender is blocked on, and the pending turn, a flush the one between it and `transcriptCh`,
  and the agent takes from the near end. Each is an identity about `queuedText`, which
  flattens a channel (`QueueFacts`).

`ChatProofs`

* `CutsCorrect`: a cut is behind a "!" or behind a dot whose successor had arrived and
  is no part of the token (`CutInv`). Text only grows at its end, so what
  followed a dot when it was cut follows it for ever; the property alone would be lost
  when the chunk behind a dot at the end of the buffer arrives.
* `RequestsCorrect` proves `RequestsWellFormed` with `TypeOK`, without a hypothesis.
  `HistoryInv` says what a history is at each point of the turn that is not superseded,
  until a superseded one writes behind it. Each message has all its results right behind
  it or the first few (`Settled`), wherever a turn was cancelled; while tools run, the
  last message with calls has those of its first *k* and the turn has the others to do
  (`Open`); when a request goes out every message has all of them (`Tidy`). The repair
  makes a settled history tidy, and pruning keeps it tidy because it cuts where a message
  that is no result begins. Both need that ids differ (`Distinct`), which holds because a
  turn, its completion and the call's index make the id and a turn moves its completion
  on before it draws new ones (`Used`). The repaired history is a flattened sequence of
  pieces, one per message; `FlattenPieces` says where each piece lands.

`SynthesisProofs`

* `ConnectionCorrect`: a read loop that left its loop has seen its connection die
  (`LoopsOutlive`), so clearing the client's pointer cannot orphan a live connection.
* `LimiterCorrect` proves `SlotsHeld`, the module's `TypeOK` included. `LimiterInv` has
  four parts: the connection, the bound of every channel (`QueueInv`), the shape of each
  stream with the positions only Cartesia's client takes (`OwnWay` in `StreamInv`), and
  the count of holders (`SlotInv`).
* `AudioCorrect` proves `AudioFaithful`, with `AudioInv`. It has an equation for each stream
  of a client that dials per sentence (`Voice`): what was heard, what is in the channel and
  the chunk being sent make up the *firm* part of the sentence, the part no later frame can
  change (`Firm`). `Source` ties the converter's state to the bytes read: the aligner
  carries the odd byte (`TakeFacts`); the streaming resampler has put out exactly the
  windows that lie within the samples it has seen and its buffer still holds every sample
  a later window needs (`Resampling`, `WriteFacts`). So a frame adds to the firm part the
  very chunk it becomes (`FrameFacts`), and the flush adds the windows that the end of the
  input cuts short, which together are `resample24kTo16k` of the whole (`FlushFacts`).
  A consumer that left has heard a start of it; one that reached the end of a stream which
  closed has heard all. Frames may have any size, of whole samples on the sockets, and the
  filter any odd number of taps. For Cartesia (`Wire`), what was heard, relayed, bridged,
  carried and handed over by the read loop is increasing and among what was sent, as long
  as somebody reads; a dropped reply leaves a gap there and nothing out of order. A reply
  of Cartesia's is one sample in the model.

`ReflexProofs`

* `GateSafe` proves `ConfirmedOnce` for any manifests, sessions and calls in flight.
  Alone it is not inductive: `GateInv` adds that a token is in the store, or held by
  exactly one call that the gate let through, or spent by one run, never two of these,
  and that a held token is the one its holder was challenged with. The step that matters
  is `consume`, which takes the token out of the store before it compares it, and
  `toolRuns`, which moves it from the call to the history. A pipeline keeps its session
  once it has one, which is why a held challenge stays true while sessions come and go.
* `RegistryCorrect` proves `RegistrySound`. `LoadInv` says that no host `LoadAll` has
  yet to reach is one Close knows (`InOrder`) and that the process of a registered tool is
  kept, or about to be, and dead after Close (`ToolOk`), `SinkInv` that a bound sink is a
  running pipeline of its session, and `CountInv` bounds the clock and the inputs. `ToolsAssumption` says that the lists a
  manifest or a process may give are sequences of tools with topics of the model.
* `InstructionsCorrect` proves `OncePerInstruction`. `BaseInv` carries over what
  the registry's proof knows and adds that a tool is registered under its own name and that
  loading is over before anybody speaks, so a tool does not change within an utterance.
  `UttInv` relates three counts for each pipeline and capturing tool: shots are at most
  the anchors it acted on, and those at most the anchors heard. A tool that may fire once
  is silenced by firing, a settling capture belongs to a tool that may still fire, and a
  timer to one that captures and is still registered.
* `SuppressionCorrect` proves `NothingSwallowed`. A packet is sent in one step and
  recorded in a later one, so `SentInv` counts both: what has been sent and not yet
  recorded, together with what is recorded, never exceeds the credit.

`SequenceFacts` is where the proofs about sequences rest. The library's induction theorems
take an operator and cannot be used, so `Induction` is stated for a set: one that has zero
and, below *n*, the successor of each of its members has every number up to *n*. It comes
from `LastIndex` (a finite, nonempty set of integers has a greatest element), and that from
the well-foundedness of strict inclusion on finite sets. `FlattenSeq`, a fold, is then
unrolled at its end (`FlattenAppend`), at its front (`FlattenTail`) and piece by piece
(`FlattenPieces`), and computed where the pieces are empty or single (`FlattenRest`).

Only model-checked is everything under fairness, out of the prover's reach:
`FloorReturned`, `WindsDown`, `AbandonedIsReaped`, `ClosedWindsDown`, `EveryTurnTaken`,
`ToolLoopEnds` and `CancelledEnds`. Every invariant and every action property of a
passing run is a theorem.

## 6. Where the code disagrees with its own statements

With a run:

* `tool_budget`: `streamCompletion` has appended the assistant message with its calls when
  `Chat` finds the rounds used up, and the forced request goes out with those calls
  unanswered (`openai.go:182`); the repair, which says that OpenAI rejects such a history
  (`openai.go:146`), runs only when the next turn starts.

Shown by TLC when a switch is set in the cfg of the run named:

* `plugin`, with `OverlongLines`: `OneProcess` fails. A line longer than the scanner's
  buffer ends the read loop with the process alive, and restart launches a second one
  (`external.go:464`).
* `ownership`, with `LateGreeting`: `LiveIsCancellable` fails. A greeting goroutine that
  runs after the first turn loads that turn's generation, and its unwind clears the
  answer's cancel func (`agent.go:537`).

In the model, and the reason why a property is no stronger:

* A reply may be stranded. The synthesizer returns on a TTS error while `Chat` keeps
  producing; once the sentences channel is full `onSentence` blocks until the reply is
  cancelled (`agent.go:238`; the exception in `FloorReturned`).
* A session may have two live connections, and be reaped under a call. `removePeer`
  deletes by ID and all peers of a session have one ID, while `AddPeer` does not wait for
  a predecessor that is still in `pc.Close` (`session.go:116`). Its late OnClose takes the
  successor out of the map and starts the idle clock (`session.go:216`); a third POST then
  finds nobody to evict, and a PATCH finds no peer. So there is no property that a
  session is served by one connection or that a call stops the clock.
* A plugin call and the read loop may wait for each other. `readLoop` fails the waiters
  with `pendingMu` held, one send into a one-slot channel each (`external.go:467`); a call
  that timed out with its answer buffered does not empty its slot and waits for
  `pendingMu` to leave. So there is no property that calls return.
* A Stop may hang. `write` encodes into the stdin pipe with `writeMu` held and no deadline
  (`external.go:408`); if the plugin does not read, teardown waits for `writeMu` at
  `external.go:575`, before it signals the process. `StopWaits` is about a Stop that
  returned.
* A shutdown between restart's second look at `stopping` and Start's `Store(false)` is
  forgotten, and the process started then outlives `Close` (`external.go:498` and `134`).
  `StopHonoured` is about a shutdown that `stopping` remembers.
* The duck may stay on. The short-utterance barge-in interrupts without restoring it
  (`inbound.go:204`), and neither the agent nor the end of the frame loop does: only the
  end of another candidate restores `audioMuted`, so what the agent says until then is
  attenuated. `duck.go:5` and `outbound.go:79` ("the duck lifts as soon as the caller
  stops") say otherwise. An STT send error also ends the loop with the duck as it
  is (`inbound.go:159`).
* A superseded turn may spoil its successor's requests: a tool that ignores its context,
  or a turn between a stream and its next write, appends a result or a message after the
  next turn repaired the history (`openai.go:142`). `RequestsWellFormed` ends where `late`
  begins.
* A cancelled stream may hang in its handshake: Volcengine's and Aliyun's clients read the
  service's answer with neither a deadline nor a watch on the context
  (`volcengine.go:300`, `aliyun.go:181`; the exception in `CancelledEnds`).
* A sink that a plugin's request looked up may be used after the conversation's Start has
  returned: `session.go:97` takes it under the lock and uses it later. `RegistrySound` is
  about the lookup.

Met while modelling; in the model, where a property states the exception or is silent:

* Start's cleanup sets `stopping`, so a restart whose handshake fails ends after one
  attempt (`external.go:494`);
* a cancelled response may queue one more frame after `drainOutbound`, because
  `emitFrame`'s select has two ready cases (`agent.go:279`);
* a response retired between queueing its first frame and `setSpeaking(true)` raises
  `speaking` after `supersedeResponse` lowered it (`agent.go:294`);
* `IssueResumeToken` indexes a token for a session that was deleted while its POST was
  being answered (`manager.go:66`);
* two PATCHes that name one ETag both pass the check and both restart
  (`handler.go:268`);
* the misunderstanding ladder reads the confidence of the latest final, which may belong
  to the next turn (`misunderstanding.go:79`);
* an interrupt before the agent said anything leaves an interruption with no text, and an
  "okay" after it is taken for an acknowledgement and ignored;
* Cartesia's bridge sends to its channel without watching the context: cancelled with the
  channel full it stays for ever, never unregisters and never sends the cancel, and the
  read loop then waits three seconds for every message to it (`cartesia_ws.go:338`);
* an old read loop's `notifyAllError` fails streams of the connection dialled after it
  (`cartesia_ws.go:216`), and a final message is dropped when its channel stays full
  (`cartesia_ws.go:236`);
* `registerHostTools` may fail after Start: the process is in no list and Close, which
  "stops every plugin process", does not stop it (`manager.go:368`);
* a list revised at ready, or a restart, leaves the host's dispatch tools of the old list
  registered, although "a revised list at ready does not leave the old one behind"
  (`manager.go:383`); a list declared at a restart is adopted but not registered, so
  `ownsTool` no longer tells which tools are the plugin's (`callbacks.go:145`);
* lists declared at initialize or ready are not validated as manifests are;
* `UnbindSession` drops whatever is bound under the session's ID, a successor's sink
  included (`session.go:37`, `pipeline.go:428`);
* a tool with both `on_partial` and `confirmation_required` passes `Validate`, and
  `fireReflex` runs it without the gate (`partial.go:340`), against
  `docs/agent-runtime.md:66`; `ConfirmedOnce` is about calls of models and plugins;
* integers above 2^53 that differ have one hash (`confirm.go:192`), so `ConfirmedOnce` is
  stated up to `hashArgs`;
* a dispatch tool called by another plugin returns its envelope and sends no packet
  (`session.go:75`);
* two firings on one topic may send in one order and record in the other, so the record
  of the older command survives (`partial.go:346`);
* a revision that drops an anchor leaves the older capture settling (`partial.go:184`).

## 7. Not modelled

Prompt assembly, retrieval backends, SDP and ICE text, JSON and provider wire formats,
signal processing, the level of the echo against the threshold that follows it,
configuration and logging: no state that the properties tell apart.
STT clients are adapters whose output, partials and finals in any order, is an input
here. The delivery of lifecycle events to plugins; the closing of a TTS client, which the pipeline never does, and other calls that
share the limiter. Realtime mode, the rolling summary, vision's chunk reassembly, the
rate limiter and the data channel's queue are still open. The socket TTS clients do not
align samples; the model assumes that those services send whole ones, as the code does.
Memory-model effects weaker than interleaving: the code uses atomics, mutexes and
channels for what is modelled.

## 8. Plan

Done: `ResponseOwnership`, `SessionManager`, `ExternalPlugin`, `TurnTaking`, `Chat`,
`Synthesis`, `Plugins` and `Reflex` with their runs, and theorems for each of them
(section 5). Next, in this order:

1. Realtime mode: audio queue, truncation on barge-in, reconnects.
2. The conversation shared by resumed pipelines: rolling summary, transcript log,
   lifecycle events.
3. `TurnTaking` composed with `ResponseOwnership` through the turn and interrupt
   channels, with a queue of utterances answered in order as its abstract
   specification.
4. The signalling rate limiter and the peer's data-channel queue.
