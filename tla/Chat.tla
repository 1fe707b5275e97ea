-------------------------------- MODULE Chat --------------------------------
(***************************************************************************)
(* The chat clients of internal/llm: the shared history, the tool-call     *)
(* loop around the streamed completion, the repair of a history left       *)
(* behind by a cancelled turn, pruning, and the cutting of the stream into *)
(* sentences.  OpenAI's client and Ollama's differ in budget, repair and   *)
(* pruning; the external-agent client keeps no history and has only the    *)
(* stream.  A turn is a goroutine in Chat.  The next turn cancels it and   *)
(* starts at once: the superseded Chat unwinds beside it, and what it      *)
(* still writes lands in the same history.                                 *)
(* The model behind the endpoint is external: it answers or calls tools as *)
(* it likes, and its stream may fail.                                      *)
(***************************************************************************)
EXTENDS Integers, Sequences, FiniteSetsExt, SequencesExt

CONSTANTS
    Providers,  \* the clients considered
    MaxTurns,   \* bound on the turns
    MaxRounds,  \* maxToolRounds
    HistoryWindow,
    CallLists,  \* the lists of call signatures the model may ask for at once
    Chunks,     \* the chunks of a streamed text, as sequences of characters
    MaxText     \* bound on the text being streamed, all turns together

Chars == {"a", ".", "!", " "}   \* "a" stands for a letter or a digit

ASSUME ChatAssumption ==
    /\ Providers \subseteq {"openai", "ollama", "agent"}
    /\ {MaxTurns, MaxRounds, HistoryWindow} \subseteq Nat \ {0}
    /\ MaxText \in Nat
    /\ \A l \in CallLists : l \in Seq(STRING) /\ l # <<>>
    /\ \A c \in Chunks : c \in Seq(Chars)

Turns == 1 .. MaxTurns

VARIABLES
    provider,
    handler,    \* a tool handler is set
    history,    \* c.history
    at,         \* where each turn's Chat is
    round, todo, \* its round, and the calls it has yet to answer
    seen,       \* seenCalls: signatures that have succeeded in the turn
    repeated,   \* repeatedAll
    budget,     \* the turn was forced to answer because its rounds ran out
    text, cuts, \* its stream so far, and where its sentences were cut
    late        \* a superseded turn has written to the history

setup == <<provider, handler>>
turnVars == <<at, round, todo, seen, repeated, budget>>
textVars == <<text, cuts>>
vars == <<setup, history, turnVars, textVars, late>>

---------------------------------------------------------------------------
(* Messages *)

Message(role) == [role |-> role, calls |-> <<>>, id |-> <<>>]
Asks(calls) == [role |-> "assistant", calls |-> calls, id |-> <<>>]
Result(id) == [role |-> "tool", calls |-> <<>>, id |-> id]

\* The model numbers its calls: the n-th of a completion of a turn, the forced
\* one being the last.
Calls(t, sigs) ==
    LET completion == IF at[t] = "forceStream" THEN round[t] + 1 ELSE round[t]
    IN  [n \in DOMAIN sigs |-> [id |-> <<t, completion, n>>, sig |-> sigs[n]]]

Answered(h) == {h[i].id : i \in {j \in DOMAIN h : h[j].role = "tool"}}

\* A result for each call of the message that has none.
placeholders(h, msg) ==
    FlattenSeq([n \in DOMAIN msg.calls |->
        IF msg.calls[n].id \in Answered(h) THEN <<>> ELSE <<Result(msg.calls[n].id)>>])

\* Mutant: nothing is repaired.
reconcileNothing(h) == h

\* Every unanswered call gets a result right after the message that made it.
reconcileHistory(h) ==
    FlattenSeq([i \in DOMAIN h |-> <<h[i]>> \o placeholders(h, h[i])])

\* Ollama's client repairs nothing and cuts where the window falls.
ollamaPrune(h) ==
    IF Len(h) <= HistoryWindow + 1 THEN h
    ELSE <<h[1]>> \o SubSeq(h, Len(h) - HistoryWindow + 1, Len(h))

pruneHistory(h) ==
    IF Len(h) <= HistoryWindow + 1 THEN h
    ELSE LET tail == SubSeq(h, Len(h) - HistoryWindow + 1, Len(h))
             starts == {i \in DOMAIN tail : tail[i].role # "tool"}
         IN  <<h[1]>> \o IF starts = {} THEN <<>>
                         ELSE SubSeq(tail, Min(starts), Len(tail))

\* What a turn's start and a text answer do to the history, per client.
openaiStart(h) == Append(reconcileHistory(h), Message("user"))
ollamaStart(h) == Append(h, Message("user"))
agentStart(h) == h

openaiAnswer(h) == pruneHistory(Append(h, Message("assistant")))
ollamaAnswer(h) == ollamaPrune(Append(h, Message("assistant")))

---------------------------------------------------------------------------
(* Sentences *)

\* The last character of s that ends a sentence, or 0.
SentenceEnds(s) ==
    {i \in DOMAIN s : \/ s[i] = "!"
                      \/ s[i] = "." /\ i < Len(s) /\ s[i + 1] # "a"}

\* Mutant: a dot at the end of what has arrived ends the sentence.
findSentenceEndEager(s) ==
    LET ends == {i \in DOMAIN s : s[i] = "!" \/ (s[i] = "." /\ (i = Len(s) \/ s[i + 1] # "a"))}
    IN  IF ends = {} THEN 0 ELSE Max(ends)

findSentenceEnd(s) == IF SentenceEnds(s) = {} THEN 0 ELSE Max(SentenceEnds(s))

sentenceBuf(t) == SubSeq(text[t], Max(cuts[t]) + 1, Len(text[t]))

noText(t) == text' = [text EXCEPT ![t] = <<>>] /\ cuts' = [cuts EXCEPT ![t] = {0}]

---------------------------------------------------------------------------
(* Chat *)

\* A later turn has begun: the turn's context is cancelled.
Superseded(t) == \E u \in Turns : u > t /\ at[u] # "idle"

\* Notes whether the turn that writes to the history is superseded.
writes(t) == late' = (late \/ Superseded(t))

\* The turns start in order, wherever the Chat of an earlier one is.
startChat(t) ==
    /\ at[t] = "idle"
    /\ \A u \in Turns : u < t => at[u] # "idle"
    /\ history' = CASE provider = "openai" -> openaiStart(history)
                    [] provider = "ollama" -> ollamaStart(history)
                    [] provider = "agent" -> agentStart(history)
    /\ at' = [at EXCEPT ![t] = "ask"]
    /\ UNCHANGED <<setup, round, todo, seen, repeated, budget, textVars, late>>

\* The request carries a copy of the history; with a cancelled context there
\* is none.
sendRequest(t) ==
    /\ at[t] \in {"ask", "forceAsk"}
    /\ ~Superseded(t)
    /\ at' = [at EXCEPT ![t] = IF at[t] = "ask" THEN "stream" ELSE "forceStream"]
    /\ UNCHANGED <<setup, history, round, todo, seen, repeated, budget, textVars, late>>

\* Chat returns; its local variables are gone.
returns(t) ==
    /\ at' = [at EXCEPT ![t] = "done"]
    /\ round' = [round EXCEPT ![t] = 0]
    /\ todo' = [todo EXCEPT ![t] = <<>>]
    /\ seen' = [seen EXCEPT ![t] = {}]
    /\ repeated' = [repeated EXCEPT ![t] = FALSE]
    /\ budget' = [budget EXCEPT ![t] = FALSE]

Streaming(t) == at[t] \in {"stream", "forceStream"}

\* A chunk arrives; a sentence that is complete goes to the synthesiser.
emitChunk(t) ==
    /\ Streaming(t)
    /\ \E c \in Chunks :
         /\ MapThenSumSet(LAMBDA u : Len(text[u]), Turns) + Len(c) <= MaxText
         /\ text' = [text EXCEPT ![t] = @ \o c]
         /\ LET end == findSentenceEnd(sentenceBuf(t) \o c) IN
              cuts' = [cuts EXCEPT ![t] = IF end = 0 THEN @ ELSE @ \cup {Max(@) + end}]
    /\ UNCHANGED <<setup, history, turnVars, late>>

openaiChunk(t) == provider = "openai" /\ emitChunk(t)
ollamaChunk(t) == provider = "ollama" /\ emitChunk(t)

\* From an event stream, a plain-text stream or one JSON document.
agentChunk(t) == provider = "agent" /\ emitChunk(t)

\* The stream ends with a text: what is left is the last sentence.
answerText(t) ==
    /\ Streaming(t)
    /\ history' = CASE provider = "openai" -> openaiAnswer(history)
                    [] provider = "ollama" -> ollamaAnswer(history)
                    [] provider = "agent" -> history
    /\ writes(t)
    /\ returns(t)
    /\ noText(t)
    /\ UNCHANGED setup

\* The request or the stream fails, as it does once the turn is cancelled.
streamFails(t) ==
    /\ at[t] \in {"ask", "forceAsk"} \/ Streaming(t)
    /\ returns(t)
    /\ noText(t)
    /\ UNCHANGED <<setup, history, late>>

exhausted(t) == round[t] >= MaxRounds

\* The calls are recorded and then run, one by one.
beginCalls(t, sigs) ==
    /\ at' = [at EXCEPT ![t] = "tools"]
    /\ todo' = [todo EXCEPT ![t] = Calls(t, sigs)]
    /\ repeated' = [repeated EXCEPT ![t] = TRUE]
    /\ UNCHANGED <<budget, round, seen>>

\* Mutant: a forced turn that calls tools all the same is forced again.
openaiCallsInsist(t) ==
    /\ Streaming(t) /\ provider = "openai"
    /\ \E sigs \in CallLists :
         /\ history' = pruneHistory(Append(history, Asks(Calls(t, sigs))))
         /\ \/ /\ at[t] = "forceStream" \/ exhausted(t)
               /\ at' = [at EXCEPT ![t] = "force"]
               /\ budget' = [budget EXCEPT ![t] = TRUE]
               /\ UNCHANGED <<todo, repeated, round, seen>>
            \/ /\ at[t] = "stream" /\ ~exhausted(t) /\ ~handler
               /\ returns(t)
            \/ /\ at[t] = "stream" /\ ~exhausted(t) /\ handler
               /\ beginCalls(t, sigs)
    /\ writes(t)
    /\ noText(t)
    /\ UNCHANGED setup

\* The stream ends with tool calls, which are recorded.  A forced turn drops
\* them, as does one without a handler; a turn whose rounds are used up is
\* told to answer.
openaiCalls(t) ==
    /\ Streaming(t) /\ provider = "openai"
    /\ \E sigs \in CallLists :
         /\ history' = pruneHistory(Append(history, Asks(Calls(t, sigs))))
         /\ \/ /\ at[t] = "stream" /\ exhausted(t)
               /\ at' = [at EXCEPT ![t] = "force"]
               /\ budget' = [budget EXCEPT ![t] = TRUE]
               /\ UNCHANGED <<todo, repeated, round, seen>>
            \/ /\ at[t] = "forceStream" \/ (~exhausted(t) /\ ~handler)
               /\ returns(t)
            \/ /\ at[t] = "stream" /\ ~exhausted(t) /\ handler
               /\ beginCalls(t, sigs)
    /\ writes(t)
    /\ noText(t)
    /\ UNCHANGED setup

\* The instruction to answer in plain text, and the request that follows it.
forceTextResponse(t) ==
    /\ at[t] = "force"
    /\ history' = Append(history, Message("system"))
    /\ at' = [at EXCEPT ![t] = "forceAsk"]
    /\ writes(t)
    /\ UNCHANGED <<setup, round, todo, seen, repeated, budget, textVars>>

\* Ollama's loop just returns when its rounds are used up.
ollamaCalls(t) ==
    /\ Streaming(t) /\ provider = "ollama"
    /\ \E sigs \in CallLists :
         /\ history' = Append(history, Asks(Calls(t, sigs)))
         /\ IF exhausted(t) \/ ~handler THEN returns(t) ELSE beginCalls(t, sigs)
    /\ writes(t)
    /\ noText(t)
    /\ UNCHANGED setup

\* After a round's last call the model is asked again.
afterCall(t, whenAll) ==
    LET last == Len(todo[t]) = 1 IN
    /\ todo' = [todo EXCEPT ![t] = Tail(@)]
    /\ round' = [round EXCEPT ![t] = IF last THEN Min({@ + 1, MaxRounds}) ELSE @]
    /\ at' = [at EXCEPT ![t] = IF last THEN whenAll ELSE "tools"]

\* The handler returned, or the call repeats one that has succeeded; only
\* success is remembered.  A round that was all repetition forces an answer.
openaiRunCall(t) ==
    /\ at[t] = "tools" /\ provider = "openai"
    /\ LET call == Head(todo[t])
           again == call.sig \in seen[t]
           all == repeated[t] /\ again
       IN  /\ \E ok \in BOOLEAN :
                seen' = [seen EXCEPT ![t] = IF ok /\ ~again THEN @ \cup {call.sig} ELSE @]
           /\ repeated' = [repeated EXCEPT ![t] = all]
           /\ history' = Append(history, Result(call.id))
           /\ afterCall(t, IF all THEN "force" ELSE "ask")
    /\ writes(t)
    /\ UNCHANGED <<setup, budget, textVars>>

ollamaRunCall(t) ==
    /\ at[t] = "tools" /\ provider = "ollama"
    /\ history' = Append(history, Result(Head(todo[t]).id))
    /\ afterCall(t, "ask")
    /\ writes(t)
    /\ UNCHANGED <<setup, seen, repeated, budget, textVars>>

Init ==
    /\ provider \in Providers
    /\ handler \in IF provider = "agent" THEN {FALSE} ELSE BOOLEAN
    /\ history = <<Message("system")>>
    /\ at = [t \in Turns |-> "idle"]
    /\ round = [t \in Turns |-> 0]
    /\ todo = [t \in Turns |-> <<>>]
    /\ seen = [t \in Turns |-> {}]
    /\ repeated = [t \in Turns |-> FALSE]
    /\ budget = [t \in Turns |-> FALSE]
    /\ text = [t \in Turns |-> <<>>] /\ cuts = [t \in Turns |-> {0}]
    /\ late = FALSE

chatStep(t) ==
    \/ sendRequest(t) \/ answerText(t) \/ streamFails(t)
    \/ openaiCalls(t) \/ ollamaCalls(t) \/ forceTextResponse(t)
    \/ openaiRunCall(t) \/ ollamaRunCall(t)

Next ==
    \E t \in Turns :
        \/ startChat(t)
        \/ openaiChunk(t) \/ ollamaChunk(t) \/ agentChunk(t)
        \/ chatStep(t)

Safety == Init /\ [][Next]_vars

\* A request and a tool call end.  OpenAI's HTTP client, the agent's and a
\* plugin call have timeouts; Ollama's client has none, and there it is the
\* service that owes an answer until the turn is cancelled.
Fairness == \A t \in Turns : WF_vars(chatStep(t))

Spec == Safety /\ Fairness

---------------------------------------------------------------------------
(* Properties *)

Places == {"idle", "ask", "stream", "tools", "force", "forceAsk", "forceStream", "done"}

\* Every variable has its type; the system prompt stays first.
TypeOK ==
    /\ provider \in Providers /\ handler \in BOOLEAN /\ late \in BOOLEAN
    /\ history # <<>> /\ history[1] = Message("system")
    /\ at \in [Turns -> Places]
    /\ round \in [Turns -> 0 .. MaxRounds]
    /\ \A t \in Turns : (at[t] = "tools") = (todo[t] # <<>>)
    /\ repeated \in [Turns -> BOOLEAN] /\ budget \in [Turns -> BOOLEAN]
    /\ text \in [Turns -> Seq(Chars)]
    /\ \A t \in Turns : cuts[t] \subseteq 0 .. Len(text[t])

\* The results that directly follow the message at i.
resultsAfter(h, i) ==
    LET stop == {j \in i + 1 .. Len(h) : h[j].role # "tool"}
        end == IF stop = {} THEN Len(h) ELSE Min(stop) - 1
    IN  SubSeq(h, i + 1, end)

\* What the API accepts: the calls of every message are answered, once each,
\* by the results that follow it, and there are no other results.
WellFormed(h) ==
    \A i \in DOMAIN h : h[i].role # "tool" =>
        /\ Len(resultsAfter(h, i)) = Len(h[i].calls)
        /\ {h[i].calls[n].id : n \in DOMAIN h[i].calls} = Answered(resultsAfter(h, i))

\* The requests a turn is about to make: the one forced because the rounds are
\* used up is set apart.
asksFreely(t) ==
    /\ ~Superseded(t)
    /\ at[t] = "ask" \/ (at[t] = "forceAsk" /\ ~budget[t])

\* A request never carries a call without its result or a result without its
\* call, although a turn may be cancelled between two of its calls and the next
\* begin beside it, wherever pruning cuts and whatever forced answers left; the
\* exceptions are the request forced when the rounds are used up, and requests
\* after a superseded turn wrote to the history behind its successor.
RequestsWellFormed ==
    /\ TypeOK
    /\ provider = "openai" /\ ~late =>
        \A t \in Turns : asksFreely(t) => WellFormed(history)

\* A sentence is never cut inside an address or a number, however the stream
\* was divided into chunks.
TokensWhole ==
    \A t \in Turns : \A p \in cuts[t] \ {0} :
        p < Len(text[t]) => ~(text[t][p] = "." /\ text[t][p + 1] = "a")

\* A model that keeps calling tools is stopped: every turn returns.
ToolLoopEnds == \A t \in Turns : at[t] = "ask" ~> at[t] = "done"

\* The claim that a history is repaired so that it stays valid, for every
\* request of a turn that no other turn disturbs.
EveryRequestValid ==
    provider = "openai" /\ ~late =>
        \A t \in Turns : at[t] \in {"ask", "forceAsk"} /\ ~Superseded(t) => WellFormed(history)
=============================================================================
