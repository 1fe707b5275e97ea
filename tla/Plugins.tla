------------------------------- MODULE Plugins -------------------------------
(***************************************************************************)
(* The plugin manager and everything that reaches a tool through it:       *)
(* loading manifests, starting plugin processes and registering what they  *)
(* advertise (manager.go, manifest.go), the ready pass, the two-call       *)
(* confirmation gate (confirm.go), the model's tool calls (pipeline.go,    *)
(* toolgate.go), a plugin's own requests (callbacks.go) and the table that *)
(* routes them to a live conversation (session.go).                        *)
(*                                                                         *)
(* A plugin process is up or not: ExternalPlugin is the model of how it    *)
(* starts, dies and is stopped.  Loading happens before the server         *)
(* listens, but a process that is up may call back at any time.            *)
(***************************************************************************)
EXTENDS Integers, Sequences, FiniteSets

CONSTANTS
    None,          \* nil
    Names,         \* tool names
    Folders,       \* number of entries of the plugins directory
    Contents,      \* what an entry may hold: see Manifest
    Overrides,     \* the `enabled` an operator may set: "unset", "on", "off"
    Declared,      \* tool lists a process may declare; <<>> declares nothing
    Emits,         \* packets the result of an external tool may carry
    Sessions, Pipes, Callers, \* conversations, their pipelines, tool calls at once
    Topics,        \* topics of packets
    Args,          \* arguments of a call: a label and an integer
    Exact,         \* the largest integer up to which float64 is exact
    MaxInputs      \* bound on what models, callers and plugins send

Tokens == 1..MaxInputs
NoArgs == [label |-> <<>>, n |-> 0]

ASSUME PluginsAssumption ==
    /\ Folders \in Nat \ {0} /\ MaxInputs \in Nat /\ Exact \in Nat
    /\ Overrides \subseteq {"unset", "on", "off"}
    /\ \A a \in Args : a.n \in 0..(Exact + 1)
    /\ None \notin Pipes /\ None \notin Tokens

VARIABLES
    at, next,      \* LoadAll's program counter and directory entry
    host,          \* the plugin of an entry: its process, ExternalPlugin.tools,
                   \* whether Manager.hosts has it
    plugins,       \* the registry: name -> [spec, host], host 0 for a DispatchTool
    pipe, sinks,   \* pipelines, and Manager.sinks
    asked,         \* the challenges issued; a token is an index into it
    pending,       \* tokens in ConfirmationStore.pending
    lapsed,        \* tokens older than the ttl
    call,          \* calls the gate let through and that have not run yet
    reflexSent,    \* per pipeline and topic, the packet a partial sent
    inputs,        \* inputs so far
    ran, credit    \* history: gated runs, and packets partials sent

loadVars == <<at, next, host, plugins>>
sessionVars == <<pipe, sinks>>
gateVars == <<asked, pending, lapsed, call, ran>>
sentVars == <<reflexSent, credit>>
pluginVars == <<loadVars, sessionVars, gateVars, sentVars, inputs>>

---------------------------------------------------------------------------
(* Manifests.  A tool's topic is "none" without a dispatch block and       *)
(* "blank" when the block names no topic; `on` is its on_partial block.    *)

Specs(list) == {list[i] : i \in 1..Len(list)}
NamesOf(list) == {t.name : t \in Specs(list)}

\* Manifest.Normalize: the single-tool form, and language with entrypoint
describesTool(m) == m.fields # None
Tools(m) == IF m.tools = <<>> /\ m.named /\ describesTool(m)
            THEN <<m.fields>> ELSE m.tools
NeedsProcess(m) == m.exec \/ m.language = "known"

\* PartialSpec.validate
validate(t) ==
    t.on # None =>
      /\ t.topic # "none"
      /\ t.on.match # {} \/ t.on.starts # {} \/ t.on.capture
      /\ t.on.capture => t.on.after # {} /\ <<>> \notin t.on.after
      /\ t.on.settle => t.on.capture
      /\ <<>> \notin t.on.match \cup t.on.starts

Validate(m) ==
    LET list == Tools(m) IN
    /\ m.named
    /\ list # <<>> \/ m.events \/ NeedsProcess(m)
    /\ \A i, j \in 1..Len(list) : list[i].name = list[j].name => i = j
    /\ \A t \in Specs(list) : t.topic # "blank" /\ validate(t)
    /\ \/ NeedsProcess(m)
       \/ /\ \A t \in Specs(list) : t.topic # "none"
          /\ ~m.events
          /\ m.language = "none"

\* A list of tools, as a manifest or a process gives it; Topics has every topic
ToolList(list) ==
    /\ list \in Seq(Specs(list))
    /\ \A t \in Specs(list) : t.topic \in Topics \cup {"none", "blank"}

ASSUME ToolsAssumption ==
    /\ \A c \in Contents : c.kind = "manifest" => ToolList(Tools(c))
    /\ \A d \in Declared : ToolList(d)
    /\ \A e \in Emits : e.topic \in Topics

IsEnabled(m, o) == IF o # "unset" THEN o = "on" ELSE m.enabled # "off"

Loads(c, o) == c.kind = "manifest" /\ Validate(c) /\ IsEnabled(c, o)

---------------------------------------------------------------------------
(* LoadAll *)

NoHost == [proc |-> "none", tools |-> <<>>, kept |-> FALSE]

\* NewDispatchTool refuses a dispatch block without a topic
Registrable(list) == \A t \in Specs(list) : t.topic # "blank"

newTool(h, t) == [spec |-> t, host |-> IF t.topic = "none" THEN h ELSE 0]

\* registerHostTools: this host's external tools go, the list comes in, the
\* last entry of a name and the last plugin to register it win; register (h = 0)
\* only adds
registered(h, list) ==
    [n \in Names |->
       IF n \in NamesOf(list)
       THEN newTool(h, list[CHOOSE i \in 1..Len(list) :
                              /\ list[i].name = n
                              /\ \A j \in (i + 1)..Len(list) : list[j].name # n])
       ELSE IF plugins[n] # None /\ h # 0 /\ plugins[n].host = h THEN None
       ELSE plugins[n]]

\* No plugin.yaml, bad YAML, a manifest Validate refuses, a disabled plugin,
\* or a process that could not be started
skipFolder(c, o) ==
    /\ at = "scan" /\ next <= Folders
    /\ c.kind = "nothing" \/ (c.kind = "manifest" /\ (~Loads(c, o) \/ NeedsProcess(c)))
    /\ next' = next + 1
    /\ UNCHANGED <<at, host, plugins>>

\* loadPlugins returns the error, and main serves with what is loaded
readFails(c) ==
    /\ at = "scan" /\ next <= Folders
    /\ c.kind = "unreadable"
    /\ at' = "serving"
    /\ UNCHANGED <<next, host, plugins>>

loadDispatch(c, o) ==
    /\ at = "scan" /\ next <= Folders
    /\ Loads(c, o) /\ ~NeedsProcess(c)
    /\ plugins' = registered(0, Tools(c))
    /\ next' = next + 1
    /\ UNCHANGED <<at, host>>

\* host.Start: the process is up and may already call back
startHost(c, o, declared) ==
    /\ at = "scan" /\ next <= Folders
    /\ Loads(c, o) /\ NeedsProcess(c)
    /\ host' = [host EXCEPT ![next] =
                  [proc |-> "up", kept |-> FALSE,
                   tools |-> IF declared = <<>> THEN Tools(c) ELSE declared]]
    /\ at' = "register"
    /\ UNCHANGED <<next, plugins>>

\* An unusable list skips the plugin, whose process stays up
registerHostTools ==
    /\ at = "register"
    /\ LET list == host[next].tools IN
       IF Registrable(list)
       THEN plugins' = registered(next, list) /\ at' = "append" /\ next' = next
       ELSE plugins' = plugins /\ at' = "scan" /\ next' = next + 1
    /\ UNCHANGED host

appendHost ==
    /\ at = "append"
    /\ host' = [host EXCEPT ![next].kept = TRUE]
    /\ at' = "scan" /\ next' = next + 1
    /\ UNCHANGED plugins

\* loadSkills; a SKILL.md that cannot be read ends LoadAll before the ready pass
loadSkills(ok) ==
    /\ at = "scan" /\ next > Folders
    /\ at' = IF ok THEN "ready" ELSE "serving"
    /\ next' = 1
    /\ UNCHANGED <<host, plugins>>

\* One host of the ready pass; a list is adopted before it is registered
announceReady(declared) ==
    /\ at = "ready"
    /\ declared # <<>> => host[next].kept /\ host[next].proc = "up"
    /\ IF declared = <<>> THEN UNCHANGED <<host, plugins>>
       ELSE /\ host' = [host EXCEPT ![next].tools = declared]
            /\ plugins' = IF Registrable(declared) THEN registered(next, declared)
                          ELSE plugins
    /\ at' = IF next = Folders THEN "serving" ELSE "ready"
    /\ next' = IF next = Folders THEN 1 ELSE next + 1

\* The process dies.  Restarted, it initializes again and its list is adopted,
\* not registered; or the restart fails
processExits(h, declared, restarted) ==
    /\ host[h].proc = "up"
    /\ host' = [host EXCEPT ![h] =
                  [proc |-> IF restarted THEN "up" ELSE "dead", kept |-> @.kept,
                   tools |-> IF restarted /\ declared # <<>> THEN declared ELSE @.tools]]
    /\ UNCHANGED <<at, next, plugins>>

\* Close stops the hosts it knows, at once, and waits for them
Close ==
    /\ at = "serving"
    /\ at' = "closing"
    /\ UNCHANGED <<next, host, plugins>>

stopHost(h) ==
    /\ at = "closing"
    /\ host[h].kept /\ host[h].proc = "up"
    /\ host' = [host EXCEPT ![h].proc = "dead"]
    /\ UNCHANGED <<at, next, plugins>>

closed ==
    /\ at = "closing"
    /\ \A h \in 1..Folders : host[h].kept => host[h].proc = "dead"
    /\ at' = "closed"
    /\ UNCHANGED <<next, host, plugins>>

---------------------------------------------------------------------------
(* Sessions *)

Serving == at \in {"serving", "closing"}

BindSession(p, s) ==
    /\ Serving /\ pipe[p].st = "none"
    /\ pipe' = [pipe EXCEPT ![p] = [st |-> "running", session |-> s]]
    /\ sinks' = [sinks EXCEPT ![s] = p]

\* Mutant: Start forgets to defer it
neverUnbinds(p) ==
    /\ pipe[p].st = "running"
    /\ pipe' = [pipe EXCEPT ![p].st = "ended"]
    /\ UNCHANGED sinks

\* Deferred by Start: it drops whatever is bound under the session's id
UnbindSession(p) ==
    /\ pipe[p].st = "running"
    /\ pipe' = [pipe EXCEPT ![p].st = "ended"]
    /\ sinks' = [sinks EXCEPT ![pipe[p].session] = None]

---------------------------------------------------------------------------
(* The confirmation gate *)

\* hashArgs decodes numbers as float64
hashArgs(a) == [a EXCEPT !.n = IF @ = Exact + 1 THEN Exact ELSE @]

swept == pending \ lapsed

Challenge(p, tool, args) ==
    [session |-> pipe[p].session, tool |-> tool.spec.name, args |-> hashArgs(args)]

issue(p, tool, args) ==
    /\ asked' = Append(asked, Challenge(p, tool, args))
    /\ pending' = swept \cup {Len(asked) + 1}

\* Mutant: a valid token is not burned
consumeKeeps(t) == pending' = swept

\* consume burns the token before it compares what the token is bound to
consume(t) == pending' = swept \ {t}

authorises(t, p, tool, args) ==
    t \in swept /\ asked[t] = Challenge(p, tool, args)

\* A DispatchTool has no Internal method: it is never internal
isInternal(tool) == tool.host # 0 /\ tool.spec.internal
GetTool(name) == IF plugins[name] # None /\ isInternal(plugins[name]) THEN None
                 ELSE plugins[name]

admitted(p, tool, args, t) ==
    [pipe |-> p, tool |-> tool, args |-> args, token |-> t, late |-> t \in lapsed]

\* The model calls a tool, with a confirm_token (t) or without (None)
gateToolCall(c, p, name, args, t) ==
    LET tool == GetTool(name) IN
    /\ Serving /\ pipe[p].st = "running" /\ call[c] = None
    /\ tool # None
    /\ IF ~tool.spec.gated
       THEN /\ call' = [call EXCEPT ![c] = admitted(p, tool, args, None)]
            /\ UNCHANGED <<asked, pending>>
       ELSE IF t = None THEN issue(p, tool, args) /\ UNCHANGED call
       ELSE /\ consume(t)
            /\ call' = IF authorises(t, p, tool, args)
                       THEN [call EXCEPT ![c] = admitted(p, tool, args, t)] ELSE call
            /\ UNCHANGED asked
    /\ UNCHANGED <<lapsed, ran>>

tokenLapses(t) ==
    /\ t \in pending \ lapsed
    /\ lapsed' = lapsed \cup {t}
    /\ UNCHANGED <<asked, pending, call, ran>>

---------------------------------------------------------------------------
(* Running a tool *)

\* DispatchTool.Execute: applySchema drops arguments that were not advertised
packet(spec, args) ==
    [topic |-> spec.topic, tool |-> spec.name,
     label |-> IF "label" \in spec.props THEN args.label ELSE <<>>,
     n |-> IF "n" \in spec.props THEN args.n ELSE 0]

Results(tool, args) == IF tool.host = 0 THEN {packet(tool.spec, args)}
                       ELSE Emits \cup {None}

\* ExecuteInSession: a capability the tool requires comes from the client of
\* the session's sink, and the process has to be up
Executes(tool, s) ==
    tool.host # 0 => /\ tool.spec.requires => sinks[s] # None
                     /\ host[tool.host].proc = "up"

ranTool(spec, s, args, t, late) ==
    ran' = IF spec.gated
           THEN Append(ran, [session |-> s, tool |-> spec.name, args |-> args,
                             token |-> t, late |-> late])
           ELSE ran

Count(f, k) == IF k \in DOMAIN f THEN f[k] ELSE 0
Add(f, k, d) == [x \in DOMAIN f \cup {k} |-> IF x = k THEN Count(f, k) + d ELSE f[x]]

\* reflexAlreadySent: the record is spent
alreadySent(p, e) ==
    /\ reflexSent[p][e.topic] # None
    /\ reflexSent[p][e.topic].packet = e
    /\ ~reflexSent[p][e.topic].old

\* Mutant: the record is kept
suppressKeeps(p, e) ==
    /\ credit' = [credit EXCEPT ![p] = Add(@, e, -1)]
    /\ UNCHANGED reflexSent

suppress(p, e) ==
    /\ reflexSent' = [reflexSent EXCEPT ![p][e.topic] = None]
    /\ credit' = [credit EXCEPT ![p] = Add(@, e, -1)]

\* runTool: the packet of the result goes out unless a partial sent it already
runTool(c, e) ==
    LET k == call[c] IN
    /\ k # None
    /\ call' = [call EXCEPT ![c] = None]
    /\ \/ /\ Executes(k.tool, pipe[k.pipe].session)
          /\ e \in Results(k.tool, k.args)
          /\ ranTool(k.tool.spec, pipe[k.pipe].session, k.args, k.token, k.late)
          /\ IF e # None /\ alreadySent(k.pipe, e)
             THEN suppress(k.pipe, e) ELSE UNCHANGED sentVars
       \/ \* the process is down, answers an error or is too slow, or the
          \* client has no camera frame to give
          /\ k.tool.host # 0 /\ e = None
          /\ UNCHANGED <<ran, sentVars>>
    /\ UNCHANGED <<asked, pending, lapsed>>

---------------------------------------------------------------------------
(* What a plugin asks of the server *)

ownsTool(h, name) == name \in NamesOf(host[h].tools)

\* serveToolCall and Manager.CallTool: internal tools are reachable, a tool
\* behind the gate is refused
CallTool(h, s, name, args) ==
    /\ host[h].proc = "up" /\ ~ownsTool(h, name)
    /\ plugins[name] # None
    /\ ~plugins[name].spec.gated
    /\ Executes(plugins[name], s)
    /\ ranTool(plugins[name].spec, s, args, None, FALSE)
    /\ UNCHANGED <<asked, pending, lapsed, call>>

\* serveEmit, serveComplete, serveSearch: the session's sink is looked up.  It is
\* used once the lock is released, when its pipeline may already have ended
callSink(h, s) == host[h].proc = "up" /\ sinks[s] # None

---------------------------------------------------------------------------
Init ==
    /\ at = "scan" /\ next = 1
    /\ host = [h \in 1..Folders |-> NoHost]
    /\ plugins = [n \in Names |-> None]
    /\ pipe = [p \in Pipes |-> [st |-> "none", session |-> None]]
    /\ sinks = [s \in Sessions |-> None]
    /\ asked = <<>> /\ pending = {} /\ lapsed = {}
    /\ call = [c \in Callers |-> None]
    /\ reflexSent = [p \in Pipes |-> [tp \in Topics |-> None]]
    /\ inputs = 0
    /\ ran = <<>> /\ credit = [p \in Pipes |-> <<>>]

load ==
    /\ \/ \E c \in Contents : readFails(c)
       \/ \E c \in Contents, o \in Overrides :
            \/ skipFolder(c, o)
            \/ loadDispatch(c, o)
            \/ \E d \in Declared : startHost(c, o, d)
       \/ registerHostTools
       \/ appendHost
       \/ \E ok \in BOOLEAN : loadSkills(ok)
       \/ \E d \in Declared : announceReady(d)
       \/ Close
       \/ \E h \in 1..Folders : stopHost(h)
       \/ closed
    /\ UNCHANGED <<sessionVars, gateVars, sentVars, inputs>>

sessionStep ==
    /\ \E p \in Pipes : \/ \E s \in Sessions : BindSession(p, s)
                        \/ UnbindSession(p)
    /\ UNCHANGED <<loadVars, gateVars, sentVars, inputs>>

inputArrives == inputs < MaxInputs /\ inputs' = inputs + 1

modelCalls ==
    /\ inputArrives
    /\ \E c \in Callers, p \in Pipes, n \in Names, a \in Args :
         \E t \in (1..Len(asked)) \cup {None} : gateToolCall(c, p, n, a, t)
    /\ UNCHANGED <<loadVars, sessionVars, sentVars>>

toolRuns ==
    /\ \E c \in Callers : call[c] # None /\
         \E e \in Results(call[c].tool, call[c].args) \cup {None} : runTool(c, e)
    /\ UNCHANGED <<loadVars, sessionVars, inputs>>

tokenAges ==
    /\ \E t \in pending : tokenLapses(t)
    /\ UNCHANGED <<loadVars, sessionVars, sentVars, inputs>>

pluginAsks ==
    /\ UNCHANGED inputs
    /\ \E h \in 1..Folders, s \in Sessions :
         \/ \E n \in Names, a \in Args :
              CallTool(h, s, n, a) /\ UNCHANGED <<loadVars, sessionVars, sentVars>>
         \/ callSink(h, s) /\ UNCHANGED <<loadVars, sessionVars, gateVars, sentVars>>

pluginExits ==
    /\ \E h \in 1..Folders, d \in Declared, r \in BOOLEAN : processExits(h, d, r)
    /\ UNCHANGED <<sessionVars, gateVars, sentVars, inputs>>

PluginNext == load \/ sessionStep \/ modelCalls \/ toolRuns \/ tokenAges
              \/ pluginAsks \/ pluginExits

PluginSpec == Init /\ [][PluginNext]_pluginVars

---------------------------------------------------------------------------
(* Properties *)

TypeOK ==
    /\ at \in {"scan", "register", "append", "ready", "serving", "closing", "closed"}
    /\ next \in 1..(Folders + 1)
    /\ \A h \in 1..Folders : host[h].proc \in {"none", "up", "dead"}
    /\ \A n \in Names : plugins[n] = None \/ plugins[n].host \in 0..Folders
    /\ \A s \in Sessions : sinks[s] \in Pipes \cup {None}
    /\ pending \cup lapsed \subseteq 1..Len(asked)
    /\ inputs \in 0..MaxInputs

\* "Only a second call carrying that token runs" (confirm.go): every run of a
\* tool behind the gate, whichever model or plugin asked for it, spent a token
\* of its own that the same session was challenged with, for that tool and
\* those arguments (as far as hashArgs tells them apart), within its lifetime.
\* A tool a partial fires is not asked for by either (Reflex).
ConfirmedOnce ==
    /\ \A i \in 1..Len(ran) :
         /\ ran[i].token \in 1..Len(asked)
         /\ asked[ran[i].token] = [session |-> ran[i].session, tool |-> ran[i].tool,
                                   args |-> hashArgs(ran[i].args)]
         /\ ~ran[i].late
    /\ \A i, j \in 1..Len(ran) : ran[i].token = ran[j].token => i = j

\* Why ConfirmedOnce holds: a token is in the store, or held by one call the
\* gate let through, or spent by one run, and never two of these; whoever holds
\* it is who it was issued to.
Holds(c) == call[c] # None /\ call[c].tool.spec.gated
GateInv ==
    /\ pending \subseteq 1..Len(asked)
    /\ \A c \in Callers : Holds(c) =>
         /\ call[c].pipe \in Pipes /\ pipe[call[c].pipe].st # "none"
         /\ call[c].token \in (1..Len(asked)) \ pending
         /\ asked[call[c].token] = Challenge(call[c].pipe, call[c].tool, call[c].args)
         /\ ~call[c].late
         /\ \A i \in 1..Len(ran) : ran[i].token # call[c].token
    /\ \A c, d \in Callers :
         Holds(c) /\ Holds(d) /\ call[c].token = call[d].token => c = d
    /\ \A i \in 1..Len(ran) : ran[i].token \notin pending
    /\ ConfirmedOnce

\* What the tables of the manager name is alive: a bound sink is a running
\* pipeline of that session, so a plugin that looks up a conversation whose
\* Start has returned finds none (UnbindSession); a registered tool of a process
\* is one Close will stop, so a plugin that load skips leaves no tool behind;
\* and when Close returns, so it is for every one of them.
RegistrySound ==
    /\ TypeOK
    /\ \A s \in Sessions : sinks[s] # None =>
         pipe[sinks[s]] = [st |-> "running", session |-> s]
    /\ \A n \in Names : plugins[n] # None /\ plugins[n].host # 0 =>
         LET h == plugins[n].host IN
         /\ host[h].kept \/ (h = next /\ at = "append")
         /\ at = "closed" => host[h].proc = "dead"
==============================================================================
