---------------------------- MODULE ReflexProofs ----------------------------
(***************************************************************************)
(* The plugins, for any manifests, tools, phrases, transcripts, sessions,  *)
(* pipelines and number of calls in flight: the confirmation gate and the  *)
(* registry, the tools fired from partials, and what the model's own calls *)
(* then leave out.                                                         *)
(***************************************************************************)
EXTENDS Reflex, SequenceFacts

---------------------------------------------------------------------------
(* The confirmation gate and the registry *)

\* The shape of the variables the argument reads
GateType ==
    /\ pipe \in [Pipes -> [st : {"none", "running", "ended"},
                           session : Sessions \cup {None}]]
    /\ call = [c \in Callers |-> call[c]]
    /\ \E S : asked \in Seq(S)
    /\ \E S : ran \in Seq(S)

GateIInv == GateType /\ GateInv

\* What GateInv says of the token of a gated call that has not run yet
HeldRightly(c) ==
    /\ call[c].pipe \in Pipes /\ pipe[call[c].pipe].st # "none"
    /\ call[c].token \in (1..Len(asked)) \ pending
    /\ asked[call[c].token] = Challenge(call[c].pipe, call[c].tool, call[c].args)
    /\ ~call[c].late
    /\ \A i \in 1..Len(ran) : ran[i].token # call[c].token

\* What Append does to a sequence over some set
LEMMA AppendFacts ==
    ASSUME NEW S, NEW s \in Seq(S), NEW x
    PROVE  /\ Append(s, x) \in Seq(S \cup {x})
           /\ Len(Append(s, x)) = Len(s) + 1 /\ Len(s) \in Nat
           /\ \A i \in 1..Len(s) : Append(s, x)[i] = s[i]
           /\ Append(s, x)[Len(s) + 1] = x
<1>1. s \in Seq(S \cup {x}) /\ x \in S \cup {x}
  <2>1. Len(s) \in Nat /\ DOMAIN s = 1..Len(s) /\ \A i \in 1..Len(s) : s[i] \in S
    OBVIOUS
  <2>2. s \in [1..Len(s) -> S \cup {x}]
    BY <2>1
  <2> QED BY <2>1, <2>2
<1> QED BY <1>1

\* Initially nothing is asked, pending, called or run
LEMMA GateInit == Init => GateIInv
<1> SUFFICES ASSUME Init PROVE GateIInv
  OBVIOUS
<1>1. GateType
  <2>1. <<>> \in Seq({})
    OBVIOUS
  <2>2. pipe \in [Pipes -> [st : {"none", "running", "ended"},
                            session : Sessions \cup {None}]]
    BY DEF Init
  <2>3. call = [c \in Callers |-> call[c]]
    BY DEF Init
  <2> QED BY <2>1, <2>2, <2>3 DEF Init, GateType
<1>2. GateInv
  BY DEF Init, GateInv, ConfirmedOnce, Holds
<1> QED BY <1>1, <1>2 DEF GateIInv

\* A step that leaves the gate's variables and the pipelines alone
LEMMA GateStutter ==
    ASSUME GateIInv, UNCHANGED <<pipe, gateVars>>
    PROVE  GateIInv'
<1>1. UNCHANGED <<pipe, asked, pending, lapsed, call, ran>>
  BY DEF gateVars
<1>2. GateType'
  BY <1>1 DEF GateIInv, GateType
<1>3. ConfirmedOnce'
  BY <1>1 DEF GateIInv, GateInv, ConfirmedOnce
<1>4. GateInv'
  BY <1>1, <1>3 DEF GateIInv, GateInv, Holds, Challenge
<1> QED BY <1>2, <1>4 DEF GateIInv

\* A pipeline that starts is no call's, and one that ends keeps its session
LEMMA GateSession ==
    ASSUME GateIInv, sessionStep
    PROVE  GateIInv'
<1>1. UNCHANGED <<asked, pending, lapsed, call, ran>>
  BY DEF sessionStep, gateVars
<1>2. /\ pipe' \in [Pipes -> [st : {"none", "running", "ended"},
                              session : Sessions \cup {None}]]
      /\ \A p \in Pipes : pipe[p].st # "none" =>
           pipe'[p].st # "none" /\ pipe'[p].session = pipe[p].session
  <2>0. pipe \in [Pipes -> [st : {"none", "running", "ended"},
                            session : Sessions \cup {None}]]
    BY DEF GateIInv, GateType
  <2>1. PICK p \in Pipes : (\E s \in Sessions : BindSession(p, s)) \/ UnbindSession(p)
    BY DEF sessionStep
  <2>2. CASE \E s \in Sessions : BindSession(p, s)
    BY <2>0, <2>2 DEF BindSession
  <2>3. CASE UnbindSession(p)
    BY <2>0, <2>3 DEF UnbindSession
  <2> QED BY <2>1, <2>2, <2>3
<1>3. GateType'
  BY <1>1, <1>2 DEF GateIInv, GateType
<1>4. ConfirmedOnce'
  BY <1>1 DEF GateIInv, GateInv, ConfirmedOnce
<1>5. ASSUME NEW c \in Callers, Holds(c)
      PROVE  Challenge(call[c].pipe, call[c].tool, call[c].args)'
               = Challenge(call[c].pipe, call[c].tool, call[c].args)
  BY <1>1, <1>2, <1>5 DEF GateIInv, GateInv, Challenge
<1>6. GateInv'
  BY <1>1, <1>2, <1>4, <1>5 DEF GateIInv, GateInv, Holds
<1> QED BY <1>3, <1>6 DEF GateIInv

\* The gate: a tool it does not guard passes, a first call is challenged with
\* a fresh token, and a second one burns the token it carries
LEMMA GateCalls ==
    ASSUME GateIInv, modelCalls
    PROVE  GateIInv'
<1> DEFINE Gets(c, p, tool, args, t) ==
             call' = [call EXCEPT ![c] = admitted(p, tool, args, t)]
<1>1. PICK c \in Callers, p \in Pipes, n \in Names, a \in Args,
           t \in (1..Len(asked)) \cup {None} : gateToolCall(c, p, n, a, t)
  BY DEF modelCalls
<1> DEFINE tool == GetTool(n)
<1>2. /\ UNCHANGED <<pipe, lapsed, ran>>
      /\ pipe[p].st = "running" /\ call[c] = None
  BY <1>1 DEF modelCalls, sessionVars, gateToolCall
<1>3. PICK S : asked \in Seq(S)
  BY DEF GateIInv, GateType
<1>4. call = [d \in Callers |-> call[d]]
  BY DEF GateIInv, GateType
<1>5. CASE ~tool.spec.gated
  <2>1. UNCHANGED <<asked, pending>> /\ Gets(c, p, tool, a, None)
    BY <1>1, <1>5 DEF gateToolCall
  <2>2. GateType'
    BY <1>2, <2>1, <1>4 DEF GateIInv, GateType
  <2>3. \A d \in Callers : Holds(d)' => d # c /\ Holds(d) /\ call'[d] = call[d]
    BY <1>4, <1>5, <2>1 DEF Holds, admitted
  <2>4. ConfirmedOnce'
    BY <1>2, <2>1 DEF GateIInv, GateInv, ConfirmedOnce
  <2>5. GateInv'
    BY <1>2, <2>1, <2>3, <2>4 DEF GateIInv, GateInv, Challenge
  <2> QED BY <2>2, <2>5 DEF GateIInv
<1>6. CASE tool.spec.gated /\ t = None
  <2>1. issue(p, tool, a) /\ UNCHANGED call
    BY <1>1, <1>6 DEF gateToolCall
  <2>2. /\ asked' \in Seq(S \cup {Challenge(p, tool, a)})
        /\ Len(asked') = Len(asked) + 1 /\ Len(asked) \in Nat
        /\ \A i \in 1..Len(asked) : asked'[i] = asked[i]
    BY <1>3, <2>1, AppendFacts DEF issue
  <2>3. pending' = (pending \ lapsed) \cup {Len(asked) + 1}
    BY <2>1 DEF issue, swept
  <2>4. GateType'
    BY <1>2, <2>1, <2>2 DEF GateIInv, GateType
  <2>5. \A i \in 1..Len(ran) : ran[i].token \in 1..Len(asked)
    BY DEF GateIInv, GateInv, ConfirmedOnce
  <2>6. ConfirmedOnce'
    BY <1>2, <2>2, <2>5 DEF GateIInv, GateInv, ConfirmedOnce
  <2>7. pending' \subseteq 1..Len(asked')
    <3>1. \A i \in 1..Len(asked) : i \in 1..Len(asked')
      BY <2>2
    <3>2. Len(asked) + 1 \in 1..Len(asked')
      BY <2>2
    <3>3. pending \subseteq 1..Len(asked)
      BY DEF GateIInv, GateInv
    <3> QED BY <2>3, <3>1, <3>2, <3>3
  <2>8. ASSUME NEW d \in Callers, Holds(d)
        PROVE  HeldRightly(d)'
    <3>1. HeldRightly(d)
      BY <2>8 DEF GateIInv, GateInv, HeldRightly
    <3>2. call[d].token \in 1..Len(asked) /\ call[d].token # Len(asked) + 1
      BY <2>2, <3>1 DEF HeldRightly
    <3>3. call[d].token \in (1..Len(asked')) \ pending'
      BY <2>2, <2>3, <3>1, <3>2 DEF HeldRightly
    <3> QED BY <1>2, <2>1, <2>2, <3>1, <3>2, <3>3 DEF HeldRightly, Challenge
  <2>9. \A i \in 1..Len(ran) : ran[i].token \notin pending'
    BY <2>2, <2>3, <2>5 DEF GateIInv, GateInv
  <2>10. \A d \in Callers : Holds(d)' <=> Holds(d)
    BY <2>1 DEF Holds
  <2>11. \A d, e \in Callers :
           (Holds(d) /\ Holds(e) /\ call[d].token = call[e].token => d = e)'
    BY <2>1, <2>10 DEF GateIInv, GateInv
  <2>12. GateInv'
    BY <1>2, <2>1, <2>6, <2>7, <2>8, <2>9, <2>10, <2>11 DEF GateInv, HeldRightly
  <2> QED BY <2>4, <2>12 DEF GateIInv
<1>7. CASE tool.spec.gated /\ t # None
  <2>1. /\ UNCHANGED asked
        /\ pending' = (pending \ lapsed) \ {t}
        /\ IF authorises(t, p, tool, a) THEN Gets(c, p, tool, a, t) ELSE call' = call
    BY <1>1, <1>7 DEF gateToolCall, consume, swept
  <2>2. GateType'
    BY <1>2, <1>4, <2>1 DEF GateIInv, GateType
  <2>3. ConfirmedOnce'
    BY <1>2, <2>1 DEF GateIInv, GateInv, ConfirmedOnce
  <2>4. CASE ~authorises(t, p, tool, a)
    <3>1. call' = call /\ \A d \in Callers : Holds(d)' <=> Holds(d)
      BY <2>1, <2>4 DEF Holds
    <3>2. ASSUME NEW d \in Callers, Holds(d)
          PROVE  HeldRightly(d)'
      <4>1. HeldRightly(d)
        BY <3>2 DEF GateIInv, GateInv, HeldRightly
      <4> QED BY <1>2, <2>1, <3>1, <4>1 DEF HeldRightly, Challenge
    <3>3. \A d, e \in Callers :
            (Holds(d) /\ Holds(e) /\ call[d].token = call[e].token => d = e)'
      BY <3>1 DEF GateIInv, GateInv
    <3>4. /\ pending' \subseteq 1..Len(asked')
          /\ \A i \in 1..Len(ran') : ran'[i].token \notin pending'
      BY <1>2, <2>1 DEF GateIInv, GateInv
    <3>5. GateInv'
      BY <2>3, <3>1, <3>2, <3>3, <3>4 DEF GateInv, HeldRightly
    <3> QED BY <2>2, <3>5 DEF GateIInv
  <2>5. CASE authorises(t, p, tool, a)
    <3>1. t \in pending \ lapsed /\ asked[t] = Challenge(p, tool, a)
      BY <2>5 DEF authorises, swept
    <3>2. call'[c] = [pipe |-> p, tool |-> tool, args |-> a, token |-> t,
                      late |-> t \in lapsed]
      BY <1>4, <2>1, <2>5 DEF admitted
    <3>3. \A d \in Callers : d # c => call'[d] = call[d]
      BY <1>4, <2>1, <2>5
    <3>4. ASSUME NEW d \in Callers, Holds(d)'
          PROVE  HeldRightly(d)'
      <4>1. CASE d = c
        <5>1. t \in 1..Len(asked) /\ t \notin pending' /\ t \notin lapsed
          BY <2>1, <3>1 DEF GateIInv, GateInv
        <5>2. \A i \in 1..Len(ran') : ran'[i].token # t
          BY <1>2, <3>1 DEF GateIInv, GateInv
        <5>3. Challenge(call[d].pipe, call[d].tool, call[d].args)' = Challenge(p, tool, a)
          BY <1>2, <3>2, <4>1 DEF Challenge
        <5>4. call'[d].pipe = p /\ call'[d].token = t /\ call'[d].late = (t \in lapsed)
          BY <3>2, <4>1
        <5> QED BY <1>2, <2>1, <3>1, <5>1, <5>2, <5>3, <5>4 DEF HeldRightly
      <4>2. CASE d # c
        <5>1. Holds(d)
          BY <3>3, <3>4, <4>2 DEF Holds
        <5>2. HeldRightly(d)
          BY <5>1 DEF GateIInv, GateInv, HeldRightly
        <5> QED BY <1>2, <2>1, <3>3, <4>2, <5>2 DEF HeldRightly, Challenge
      <4> QED BY <4>1, <4>2
    <3>5. ASSUME NEW d \in Callers, NEW e \in Callers, Holds(d)', Holds(e)',
                 call'[d].token = call'[e].token
          PROVE  d = e
      BY <3>1, <3>2, <3>3, <3>5 DEF GateIInv, GateInv, Holds
    <3>6. \A i \in 1..Len(ran') : ran'[i].token \notin pending'
      BY <1>2, <2>1 DEF GateIInv, GateInv
    <3>7. pending' \subseteq 1..Len(asked')
      BY <2>1 DEF GateIInv, GateInv
    <3>8. GateInv'
      BY <2>3, <3>4, <3>5, <3>6, <3>7 DEF GateInv, HeldRightly
    <3> QED BY <2>2, <3>8 DEF GateIInv
  <2> QED BY <2>4, <2>5
<1> QED BY <1>5, <1>6, <1>7

\* A token that has aged out was neither spent nor held: only the store loses it
LEMMA GateAges ==
    ASSUME GateIInv, tokenAges
    PROVE  GateIInv'
<1>1. UNCHANGED <<pipe, asked, pending, call, ran>>
  BY DEF tokenAges, tokenLapses, sessionVars
<1>2. GateType'
  BY <1>1 DEF GateIInv, GateType
<1>3. ConfirmedOnce'
  BY <1>1 DEF GateIInv, GateInv, ConfirmedOnce
<1>4. GateInv'
  BY <1>1, <1>3 DEF GateIInv, GateInv, Holds, Challenge
<1> QED BY <1>2, <1>4 DEF GateIInv

\* A plugin's own call never reaches a tool behind the gate
LEMMA GatePlugin ==
    ASSUME GateIInv, pluginAsks
    PROVE  GateIInv'
<1>1. UNCHANGED <<pipe, gateVars>>
  <2>1. PICK h \in 1..Folders, s \in Sessions :
          \/ \E n \in Names, a \in Args :
               CallTool(h, s, n, a) /\ UNCHANGED <<loadVars, sessionVars, sentVars>>
          \/ callSink(h, s) /\ UNCHANGED <<loadVars, sessionVars, gateVars, sentVars>>
    BY DEF pluginAsks
  <2>2. CASE callSink(h, s) /\ UNCHANGED <<loadVars, sessionVars, gateVars, sentVars>>
    BY <2>2 DEF sessionVars
  <2>3. ASSUME NEW n \in Names, NEW a \in Args, CallTool(h, s, n, a),
               UNCHANGED <<loadVars, sessionVars, sentVars>>
        PROVE  UNCHANGED <<pipe, gateVars>>
    BY <2>3 DEF CallTool, ranTool, sessionVars, gateVars
  <2> QED BY <2>1, <2>2, <2>3
<1> QED BY <1>1, GateStutter

\* A call that runs, or fails, gives up the token it holds; a run of a tool
\* behind the gate takes that token into the history
LEMMA GateRuns ==
    ASSUME GateIInv, toolRuns
    PROVE  GateIInv'
<1>1. PICK c \in Callers : call[c] # None /\ \E e : runTool(c, e)
  BY DEF toolRuns
<1>2. UNCHANGED <<pipe, asked, pending, lapsed>>
  BY <1>1 DEF toolRuns, runTool, sessionVars
<1>3. call = [d \in Callers |-> call[d]]
  BY DEF GateIInv, GateType
<1>4. /\ call' = [call EXCEPT ![c] = None]
      /\ \/ ran' = ran
         \/ ranTool(call[c].tool.spec, pipe[call[c].pipe].session,
                    call[c].args, call[c].token, call[c].late)
  BY <1>1 DEF runTool
<1>5. \A d \in Callers : Holds(d)' => d # c /\ Holds(d) /\ call'[d] = call[d]
  BY <1>3, <1>4 DEF Holds
<1>6. PICK R : ran \in Seq(R)
  BY DEF GateIInv, GateType
<1>7. pending' \subseteq 1..Len(asked')
  BY <1>2 DEF GateIInv, GateInv
<1>8. \A d, e \in Callers :
        (Holds(d) /\ Holds(e) /\ call[d].token = call[e].token => d = e)'
  BY <1>5 DEF GateIInv, GateInv
<1>9. ASSUME NEW d \in Callers, Holds(d)
      PROVE  HeldRightly(d)
  BY <1>9 DEF GateIInv, GateInv, HeldRightly
<1>10. CASE ran' = ran
  <2>1. GateType'
    BY <1>2, <1>3, <1>4, <1>10 DEF GateIInv, GateType
  <2>2. ConfirmedOnce'
    BY <1>2, <1>10 DEF GateIInv, GateInv, ConfirmedOnce
  <2>3. ASSUME NEW d \in Callers, Holds(d)'
        PROVE  HeldRightly(d)'
    <3>1. HeldRightly(d) /\ call'[d] = call[d]
      BY <1>5, <1>9, <2>3
    <3> QED BY <1>2, <1>10, <3>1 DEF HeldRightly, Challenge
  <2>4. \A i \in 1..Len(ran') : ran'[i].token \notin pending'
    BY <1>2, <1>10 DEF GateIInv, GateInv
  <2>5. GateInv'
    BY <1>7, <1>8, <2>2, <2>3, <2>4 DEF GateInv, HeldRightly
  <2> QED BY <2>1, <2>5 DEF GateIInv
<1>11. CASE ran' # ran
  <2> DEFINE k == call[c]
             x == [session |-> pipe[k.pipe].session, tool |-> k.tool.spec.name,
                   args |-> k.args, token |-> k.token, late |-> k.late]
  <2>1. k.tool.spec.gated /\ ran' = Append(ran, x)
    BY <1>4, <1>11 DEF ranTool
  <2>2. Holds(c) /\ HeldRightly(c)
    BY <1>1, <1>9, <2>1 DEF Holds
  <2>3. /\ ran' \in Seq(R \cup {x})
        /\ Len(ran') = Len(ran) + 1 /\ Len(ran) \in Nat
        /\ \A i \in 1..Len(ran) : ran'[i] = ran[i]
        /\ ran'[Len(ran) + 1] = x
    BY <1>6, <2>1, AppendFacts
  <2>4. \A i \in 1..Len(ran') : i \in 1..Len(ran) \/ i = Len(ran) + 1
    BY <2>3
  <2>5. GateType'
    BY <1>2, <1>3, <1>4, <2>3 DEF GateIInv, GateType
  <2>6. /\ k.token \in 1..Len(asked) /\ k.token \notin pending /\ ~k.late
        /\ asked[k.token] = Challenge(k.pipe, k.tool, k.args)
        /\ \A i \in 1..Len(ran) : ran[i].token # k.token
    BY <2>2 DEF HeldRightly
  <2>7. ConfirmedOnce'
    <3> DEFINE Good(r) ==
          /\ r.token \in 1..Len(asked)
          /\ asked[r.token] = [session |-> r.session, tool |-> r.tool,
                               args |-> hashArgs(r.args)]
          /\ ~r.late
    <3>1. \A i \in 1..Len(ran) : Good(ran[i])
      BY DEF GateIInv, GateInv, ConfirmedOnce
    <3>2. Good(x)
      BY <2>6 DEF Challenge
    <3>3. \A i \in 1..Len(ran') : Good(ran'[i])
      <4> HIDE DEF Good, x
      <4> QED BY <2>3, <2>4, <3>1, <3>2
    <3>4. \A i, j \in 1..Len(ran) : ran[i].token = ran[j].token => i = j
      BY DEF GateIInv, GateInv, ConfirmedOnce
    <3>5. x.token = k.token
      OBVIOUS
    <3>6. \A i, j \in 1..Len(ran') : ran'[i].token = ran'[j].token => i = j
      <4> HIDE DEF x
      <4> QED BY <2>3, <2>4, <2>6, <3>4, <3>5
    <3> QED BY <1>2, <3>3, <3>6 DEF ConfirmedOnce
  <2>8. ASSUME NEW d \in Callers, Holds(d)'
        PROVE  HeldRightly(d)'
    <3>1. HeldRightly(d) /\ call'[d] = call[d] /\ d # c /\ Holds(d)
      BY <1>5, <1>9, <2>8
    <3>2. call[d].token # k.token
      BY <2>2, <3>1 DEF GateIInv, GateInv
    <3>3. x.token = k.token
      OBVIOUS
    <3>4. \A i \in 1..Len(ran') : ran'[i].token # call'[d].token
      <4> HIDE DEF x
      <4> QED BY <2>3, <2>4, <3>1, <3>2, <3>3 DEF HeldRightly
    <3> QED BY <1>2, <3>1, <3>4 DEF HeldRightly, Challenge
  <2>9. \A i \in 1..Len(ran') : ran'[i].token \notin pending'
    <3>1. x.token \notin pending
      BY <2>6
    <3>2. \A i \in 1..Len(ran) : ran[i].token \notin pending
      BY DEF GateIInv, GateInv
    <3> HIDE DEF x
    <3> QED BY <1>2, <2>3, <2>4, <3>1, <3>2
  <2>10. GateInv'
    BY <1>7, <1>8, <2>7, <2>8, <2>9 DEF GateInv, HeldRightly
  <2> QED BY <2>5, <2>10 DEF GateIInv
<1> QED BY <1>10, <1>11

\* No step of the manager, of a model or of a plugin gets past the gate
LEMMA GateInductive == GateIInv /\ [PluginNext]_pluginVars => GateIInv'
<1> SUFFICES ASSUME GateIInv, [PluginNext]_pluginVars
             PROVE  GateIInv'
  OBVIOUS
<1>1. CASE load
  BY <1>1, GateStutter DEF load, sessionVars
<1>2. CASE sessionStep
  BY <1>2, GateSession
<1>3. CASE modelCalls
  BY <1>3, GateCalls
<1>4. CASE toolRuns
  BY <1>4, GateRuns
<1>5. CASE tokenAges
  BY <1>5, GateAges
<1>6. CASE pluginAsks
  BY <1>6, GatePlugin
<1>7. CASE pluginExits
  BY <1>7, GateStutter DEF pluginExits, sessionVars
<1>8. CASE UNCHANGED pluginVars
  BY <1>8, GateStutter DEF pluginVars, sessionVars
<1> QED BY <1>1, <1>2, <1>3, <1>4, <1>5, <1>6, <1>7, <1>8 DEF PluginNext

\* Nobody gets past the gate: every run of a tool that needs a confirmation,
\* asked for by a model or by a plugin, spent a token of its own, issued to the
\* same session for the same tool and arguments and not yet expired, with any
\* number of sessions and calls, whatever the manifests and the processes say.
THEOREM GateSafe == PluginSpec => []ConfirmedOnce
<1>1. GateIInv => ConfirmedOnce
  BY DEF GateIInv, GateInv
<1> QED BY <1>1, GateInit, GateInductive, PTL DEF PluginSpec

---------------------------------------------------------------------------
(* The registry *)

HostType ==
    host = [h \in 1..Folders |-> [proc |-> host[h].proc, tools |-> host[h].tools,
                                  kept |-> host[h].kept]]

PluginType == plugins = [n \in Names |-> plugins[n]]

LoadType ==
    /\ at \in {"scan", "register", "append", "ready", "serving", "closing", "closed"}
    /\ next \in 1..(Folders + 1)
    /\ HostType /\ PluginType
    /\ \A h \in 1..Folders : host[h].proc \in {"none", "up", "dead"}

\* LoadAll works on an entry of the directory, and what it has yet to reach is
\* not one of the hosts Close knows
InOrder ==
    /\ at \in {"register", "append", "ready"} => next <= Folders
    /\ at \in {"scan", "register", "append"} =>
         \A h \in 1..Folders : host[h].kept => h < next

\* The part of RegistrySound about tools and their processes
ToolOk(n) ==
    plugins[n] # None =>
      /\ plugins[n].host \in 0..Folders
      /\ plugins[n].host # 0 =>
           /\ host[plugins[n].host].kept \/ (plugins[n].host = next /\ at = "append")
           /\ at = "closed" => host[plugins[n].host].proc = "dead"

LoadInv == LoadType /\ InOrder /\ \A n \in Names : ToolOk(n)

\* A registered list brings tools of its own host, or of none, and leaves the
\* rest of the registry as it was
LEMMA RegisteredFacts ==
    ASSUME NEW h, NEW list, NEW n \in Names
    PROVE  \/ registered(h, list)[n] \in {None, plugins[n]}
           \/ registered(h, list)[n].host \in {0, h}
<1>1. ASSUME NEW t PROVE newTool(h, t).host \in {0, h}
  BY DEF newTool
<1> QED BY <1>1 DEF registered

\* One host changes, the others stay
ChangesHost(h, proc, tools, kept) ==
    host' = [host EXCEPT ![h] = [proc |-> proc, tools |-> tools, kept |-> kept]]

\* What a changed host reads as
LEMMA HostFacts ==
    ASSUME HostType, NEW h \in 1..Folders, NEW proc, NEW tools, NEW kept,
           ChangesHost(h, proc, tools, kept)
    PROVE  /\ HostType'
           /\ host'[h].proc = proc /\ host'[h].kept = kept
           /\ \A g \in 1..Folders : g # h => host'[g] = host[g]
<1>1. DOMAIN host = 1..Folders
  BY DEF HostType
<1>2. host' = [g \in 1..Folders |-> IF g = h THEN [proc |-> proc, tools |-> tools, kept |-> kept]
                                     ELSE host[g]]
  BY <1>1 DEF ChangesHost
<1>3. \A g \in 1..Folders :
         host[g] = [proc |-> host[g].proc, tools |-> host[g].tools, kept |-> host[g].kept]
  BY DEF HostType
<1>4. \A g \in 1..Folders :
         host'[g] = [proc |-> host'[g].proc, tools |-> host'[g].tools, kept |-> host'[g].kept]
  BY <1>2, <1>3
<1>5. HostType'
  BY <1>2, <1>4 DEF HostType
<1> QED BY <1>2, <1>5

\* What the update of one field of a host comes to
LEMMA HostFields ==
    ASSUME HostType, NEW h \in 1..Folders, NEW x
    PROVE  /\ [host EXCEPT ![h].kept = x]
                = [host EXCEPT ![h] = [proc |-> host[h].proc, tools |-> host[h].tools, kept |-> x]]
           /\ [host EXCEPT ![h].tools = x]
                = [host EXCEPT ![h] = [proc |-> host[h].proc, tools |-> x, kept |-> host[h].kept]]
           /\ [host EXCEPT ![h].proc = x]
                = [host EXCEPT ![h] = [proc |-> x, tools |-> host[h].tools, kept |-> host[h].kept]]
<1>1. /\ DOMAIN host = 1..Folders
      /\ host[h] = [proc |-> host[h].proc, tools |-> host[h].tools, kept |-> host[h].kept]
  BY DEF HostType
<1>2. ASSUME NEW a, NEW b, NEW c, NEW r, r = [proc |-> a, tools |-> b, kept |-> c]
      PROVE  /\ [r EXCEPT !.kept = x] = [proc |-> a, tools |-> b, kept |-> x]
             /\ [r EXCEPT !.tools = x] = [proc |-> a, tools |-> x, kept |-> c]
             /\ [r EXCEPT !.proc = x] = [proc |-> x, tools |-> b, kept |-> c]
  BY <1>2
<1>3. /\ [host[h] EXCEPT !.kept = x] = [proc |-> host[h].proc, tools |-> host[h].tools, kept |-> x]
      /\ [host[h] EXCEPT !.tools = x] = [proc |-> host[h].proc, tools |-> x, kept |-> host[h].kept]
      /\ [host[h] EXCEPT !.proc = x] = [proc |-> x, tools |-> host[h].tools, kept |-> host[h].kept]
  BY <1>1, <1>2
<1> QED BY <1>1, <1>3

\* A step that keeps the hosts and adds only tools of h to the registry
RegistersFor(h) ==
    /\ PluginType'
    /\ \A n \in Names : plugins'[n] \in {None, plugins[n]} \/ plugins'[n].host \in {0, h}

LEMMA RegistersFacts ==
    ASSUME NEW h, NEW list, plugins' = registered(h, list)
    PROVE  RegistersFor(h)
<1>1. PluginType'
  BY DEF PluginType, registered
<1> QED BY <1>1, RegisteredFacts DEF RegistersFor

\* Loading, restarting and closing keep every registered process stoppable
LEMMA LoadInductive ==
    ASSUME LoadInv, load \/ pluginExits
    PROVE  LoadInv'
<1> USE DEF LoadInv, LoadType, InOrder
<1>0. Folders \in Nat \ {0}
  BY PluginsAssumption
<1>a. ASSUME UNCHANGED host PROVE HostType'
  BY <1>a DEF HostType
<1>b. ASSUME UNCHANGED plugins PROVE PluginType'
  BY <1>b DEF PluginType
<1>c. ASSUME NEW h \in 0..Folders, RegistersFor(h), at # "append", at' # "closed",
             \A g \in 1..Folders : host'[g].kept = host[g].kept,
             h # 0 => host'[h].kept \/ (h = next' /\ at' = "append")
      PROVE  \A n \in Names : ToolOk(n)'
  <2> TAKE n \in Names
  <2>1. CASE plugins'[n] = None
    BY <2>1 DEF ToolOk
  <2>2. CASE plugins'[n] = plugins[n]
    BY <1>0, <1>c, <2>2 DEF ToolOk
  <2>3. CASE plugins'[n].host \in {0, h}
    BY <1>0, <1>c, <2>3 DEF ToolOk
  <2> QED BY <1>c, <2>1, <2>2, <2>3 DEF RegistersFor
<1>1. ASSUME NEW c, NEW o, skipFolder(c, o) PROVE LoadInv'
  BY <1>0, <1>1, <1>a, <1>b DEF skipFolder, ToolOk
<1>2. ASSUME NEW c, readFails(c) PROVE LoadInv'
  BY <1>0, <1>2, <1>a, <1>b DEF readFails, ToolOk
<1>3. ASSUME NEW c, NEW o, loadDispatch(c, o) PROVE LoadInv'
  <2>1. /\ at = "scan" /\ next <= Folders /\ at' = at /\ host' = host /\ next' = next + 1
        /\ RegistersFor(0)
    BY <1>3, RegistersFacts DEF loadDispatch
  <2>2. LoadType' /\ InOrder'
    BY <1>0, <1>a, <2>1 DEF RegistersFor
  <2> QED BY <1>0, <1>c, <2>1, <2>2
<1>4. ASSUME NEW c, NEW o, NEW d, startHost(c, o, d) PROVE LoadInv'
  <2>1. /\ at = "scan" /\ next \in 1..Folders /\ at' = "register"
        /\ UNCHANGED <<next, plugins>>
        /\ ChangesHost(next, "up", IF d = <<>> THEN Tools(c) ELSE d, FALSE)
    BY <1>0, <1>4 DEF startHost, ChangesHost
  <2>2. /\ HostType' /\ host'[next].proc = "up" /\ host'[next].kept = FALSE
        /\ \A g \in 1..Folders : g # next => host'[g] = host[g]
    BY <2>1, HostFacts
  <2>3. LoadType' /\ InOrder'
    BY <1>0, <1>b, <2>1, <2>2
  <2>4. ~host[next].kept
    BY <1>0, <2>1
  <2> QED BY <2>1, <2>2, <2>3, <2>4 DEF ToolOk
<1>5. CASE registerHostTools
  <2>1. /\ at = "register" /\ host' = host
        /\ \/ RegistersFor(next) /\ at' = "append" /\ next' = next
           \/ plugins' = plugins /\ at' = "scan" /\ next' = next + 1
    BY <1>5, RegistersFacts DEF registerHostTools
  <2>2. CASE plugins' = plugins /\ at' = "scan" /\ next' = next + 1
    BY <1>0, <1>a, <1>b, <2>1, <2>2 DEF ToolOk
  <2>3. CASE RegistersFor(next) /\ at' = "append" /\ next' = next
    <3>1. LoadType' /\ InOrder'
      BY <1>0, <1>a, <2>1, <2>3 DEF RegistersFor
    <3>2. next \in 1..Folders
      BY <1>0, <2>1
    <3> QED BY <1>0, <1>c, <2>1, <2>3, <3>1, <3>2
  <2> QED BY <2>1, <2>2, <2>3
<1>6. CASE appendHost
  <2>1. /\ at = "append" /\ next \in 1..Folders /\ at' = "scan" /\ next' = next + 1
        /\ plugins' = plugins
    BY <1>0, <1>6 DEF appendHost
  <2>2. ChangesHost(next, host[next].proc, host[next].tools, TRUE)
    BY <1>6, <2>1, HostFields DEF appendHost, ChangesHost
  <2>3. /\ HostType' /\ host'[next].proc = host[next].proc /\ host'[next].kept = TRUE
        /\ \A g \in 1..Folders : g # next => host'[g] = host[g]
    BY <2>1, <2>2, HostFacts
  <2>4. LoadType' /\ InOrder'
    BY <1>0, <1>b, <2>1, <2>3
  <2> QED BY <2>1, <2>3, <2>4 DEF ToolOk
<1>7. ASSUME NEW ok, loadSkills(ok) PROVE LoadInv'
  BY <1>0, <1>7, <1>a, <1>b DEF loadSkills, ToolOk
<1>8. ASSUME NEW d, announceReady(d) PROVE LoadInv'
  <2>1. /\ at = "ready" /\ next \in 1..Folders
        /\ at' = IF next = Folders THEN "serving" ELSE "ready"
        /\ next' = IF next = Folders THEN 1 ELSE next + 1
    BY <1>0, <1>8 DEF announceReady
  <2>2. CASE d = <<>>
    BY <1>0, <1>8, <1>a, <1>b, <2>1, <2>2 DEF announceReady, ToolOk
  <2>3. CASE d # <<>>
    <3>1. host[next].kept /\ ChangesHost(next, host[next].proc, d, host[next].kept)
      BY <1>8, <2>1, <2>3, HostFields DEF announceReady, ChangesHost
    <3>2. /\ HostType' /\ host'[next].proc = host[next].proc
          /\ host'[next].kept = host[next].kept
          /\ \A g \in 1..Folders : g # next => host'[g] = host[g]
      BY <2>1, <3>1, HostFacts
    <3>3. RegistersFor(next)
      <4>1. CASE plugins' = plugins
        BY <1>b, <4>1 DEF RegistersFor
      <4>2. CASE plugins' = registered(next, d)
        BY <4>2, RegistersFacts
      <4> QED BY <1>8, <2>3, <4>1, <4>2 DEF announceReady
    <3>4. LoadType' /\ InOrder'
      BY <1>0, <2>1, <3>2, <3>3 DEF RegistersFor
    <3>5. \A n \in Names : ToolOk(n)'
      <4>1. at # "append" /\ at' # "closed" /\ next \in 0..Folders
        BY <1>0, <2>1
      <4>2. \A g \in 1..Folders : host'[g].kept = host[g].kept
        BY <3>2
      <4>3. host'[next].kept
        BY <2>1, <3>1, <4>2
      <4> QED BY <1>c, <3>3, <4>1, <4>2, <4>3
    <3> QED BY <3>4, <3>5
  <2> QED BY <2>2, <2>3
<1>9. CASE Close
  BY <1>0, <1>9, <1>a, <1>b DEF Close, ToolOk
<1>10. ASSUME NEW h \in 1..Folders, UNCHANGED <<at, next, plugins>>,
              NEW x \in {"up", "dead"}, NEW y, ChangesHost(h, x, y, host[h].kept),
              host[h].proc = "up"
       PROVE  LoadInv'
  <2>1. /\ HostType' /\ host'[h].proc = x /\ host'[h].kept = host[h].kept
        /\ \A g \in 1..Folders : g # h => host'[g] = host[g]
    BY <1>10, HostFacts
  <2>2. LoadType' /\ InOrder'
    BY <1>0, <1>10, <1>b, <2>1
  <2> QED BY <1>10, <2>1, <2>2 DEF ToolOk
<1>11. ASSUME NEW h \in 1..Folders, stopHost(h) PROVE LoadInv'
  <2>1. ChangesHost(h, "dead", host[h].tools, host[h].kept)
    BY <1>11, HostFields DEF stopHost, ChangesHost
  <2> QED BY <1>10, <1>11, <2>1 DEF stopHost
<1>12. ASSUME NEW h \in 1..Folders, NEW d, NEW r, processExits(h, d, r) PROVE LoadInv'
  <2> DEFINE x == IF r THEN "up" ELSE "dead"
             y == IF r /\ d # <<>> THEN d ELSE host[h].tools
  <2>1. x \in {"up", "dead"} /\ ChangesHost(h, x, y, host[h].kept)
    BY <1>12 DEF processExits, ChangesHost
  <2> HIDE DEF x, y
  <2> QED BY <1>10, <1>12, <2>1 DEF processExits
<1>13. CASE closed
  BY <1>0, <1>13, <1>a, <1>b DEF closed, ToolOk
<1> QED
  BY <1>1, <1>2, <1>3, <1>4, <1>5, <1>6, <1>7, <1>8, <1>9, <1>11, <1>12, <1>13
  DEF load, pluginExits

\* The part of RegistrySound about conversations
SinkInv ==
    /\ sinks \in [Sessions -> Pipes \cup {None}]
    /\ \A s \in Sessions : sinks[s] # None =>
         pipe[sinks[s]] = [st |-> "running", session |-> s]

\* A pipeline is bound once, and unbinding it leaves nobody's sink behind
LEMMA SinkInductive ==
    ASSUME SinkInv, GateType, sessionStep
    PROVE  SinkInv'
<1>0. None \notin Pipes
  BY PluginsAssumption
<1>1. PICK p \in Pipes : (\E s \in Sessions : BindSession(p, s)) \/ UnbindSession(p)
  BY DEF sessionStep
<1>2. ASSUME NEW s \in Sessions, BindSession(p, s) PROVE SinkInv'
  BY <1>0, <1>2 DEF BindSession, SinkInv, GateType
<1>3. CASE UnbindSession(p)
  <2>1. /\ pipe[p].st = "running" /\ \A q \in Pipes : q # p => pipe'[q] = pipe[q]
        /\ sinks' = [sinks EXCEPT ![pipe[p].session] = None]
    BY <1>3 DEF UnbindSession, GateType
  <2>2. sinks' \in [Sessions -> Pipes \cup {None}]
    BY <2>1 DEF SinkInv
  <2>3. ASSUME NEW s \in Sessions, sinks'[s] # None
        PROVE  pipe'[sinks'[s]] = [st |-> "running", session |-> s]
    <3>1. s # pipe[p].session /\ sinks'[s] = sinks[s]
      BY <2>1, <2>3 DEF SinkInv
    <3>2. sinks[s] # p
      <4>1. pipe[sinks[s]] = [st |-> "running", session |-> s]
        BY <2>3, <3>1 DEF SinkInv
      <4>2. pipe[sinks[s]].session = s
        BY <4>1
      <4> QED BY <3>1, <4>2
    <3> QED BY <2>1, <2>3, <3>1, <3>2 DEF SinkInv
  <2> QED BY <2>2, <2>3 DEF SinkInv
<1> QED BY <1>1, <1>2, <1>3

CountInv == lapsed \subseteq 1..Len(asked) /\ inputs \in 0..MaxInputs

RegistryInv == GateIInv /\ LoadInv /\ SinkInv /\ CountInv

\* Only tokens that were issued lapse
LEMMA CountInductive ==
    ASSUME GateIInv, CountInv, [PluginNext]_pluginVars
    PROVE  CountInv'
<1> USE DEF CountInv
<1>0. MaxInputs \in Nat
  BY PluginsAssumption
<1>1. CASE modelCalls
  <2>1. inputs' \in 0..MaxInputs
    BY <1>0, <1>1 DEF modelCalls, inputArrives
  <2>2. PICK c \in Callers, p \in Pipes, n \in Names, a \in Args,
             t \in (1..Len(asked)) \cup {None} : gateToolCall(c, p, n, a, t)
    BY <1>1 DEF modelCalls
  <2>3. lapsed' = lapsed /\ (asked' = asked \/ \E x : asked' = Append(asked, x))
    BY <2>2 DEF gateToolCall, issue
  <2>4. PICK S : asked \in Seq(S)
    BY DEF GateIInv, GateType
  <2>5. \A x : Len(Append(asked, x)) = Len(asked) + 1 /\ Len(asked) \in Nat
    BY <2>4, AppendFacts
  <2>6. lapsed' \subseteq 1..Len(asked')
    <3>1. CASE asked' = asked
      BY <2>3, <3>1
    <3>2. CASE \E x : asked' = Append(asked, x)
      BY <2>3, <2>5, <3>2
    <3> QED BY <2>3, <3>1, <3>2
  <2> QED BY <2>1, <2>6
<1>2. CASE tokenAges
  BY <1>2 DEF tokenAges, tokenLapses, GateIInv, GateInv
<1>3. CASE toolRuns \/ pluginAsks
  BY <1>3 DEF toolRuns, runTool, pluginAsks, CallTool, gateVars
<1>4. CASE load \/ sessionStep \/ pluginExits \/ UNCHANGED pluginVars
  BY <1>4 DEF load, sessionStep, pluginExits, pluginVars, gateVars
<1> QED BY <1>1, <1>2, <1>3, <1>4 DEF PluginNext

\* The manager's tables never name the dead: a bound sink is a running pipeline
\* of its session, and a registered tool's process is one Close stops and has
\* stopped when it returns, whatever the plugins directory holds, whatever the
\* processes declare and whenever they die.
THEOREM RegistryCorrect == PluginSpec => []RegistrySound
<1>1. Init => RegistryInv
  <2> SUFFICES ASSUME Init PROVE RegistryInv
    OBVIOUS
  <2>0. Folders \in Nat \ {0} /\ MaxInputs \in Nat /\ None \notin Pipes
    BY PluginsAssumption
  <2>1. LoadInv
    BY <2>0 DEF Init, NoHost, LoadInv, LoadType, HostType, PluginType, InOrder, ToolOk
  <2>2. SinkInv
    BY DEF Init, SinkInv
  <2>3. CountInv
    BY <2>0 DEF Init, CountInv
  <2> QED BY <2>1, <2>2, <2>3, GateInit DEF RegistryInv
<1>2. RegistryInv /\ [PluginNext]_pluginVars => RegistryInv'
  <2> SUFFICES ASSUME RegistryInv, [PluginNext]_pluginVars
               PROVE  RegistryInv'
    OBVIOUS
  <2>1. GateIInv' /\ CountInv'
    BY GateInductive, CountInductive DEF RegistryInv
  <2>2. LoadInv'
    <3>1. CASE load \/ pluginExits
      BY <3>1, LoadInductive DEF RegistryInv
    <3>2. CASE UNCHANGED loadVars
      BY <3>2 DEF RegistryInv, LoadInv, LoadType, HostType, PluginType, InOrder, ToolOk,
         loadVars
    <3>3. CASE sessionStep \/ modelCalls \/ toolRuns \/ tokenAges \/ pluginAsks
               \/ UNCHANGED pluginVars
      BY <3>2, <3>3 DEF sessionStep, modelCalls, toolRuns, tokenAges, pluginAsks, pluginVars
    <3> QED BY <3>1, <3>3 DEF PluginNext
  <2>3. SinkInv'
    <3>1. CASE sessionStep
      BY <3>1, SinkInductive DEF RegistryInv, GateIInv
    <3>2. CASE UNCHANGED sessionVars
      BY <3>2 DEF RegistryInv, SinkInv, sessionVars
    <3>3. CASE load \/ modelCalls \/ toolRuns \/ tokenAges \/ pluginAsks \/ pluginExits
               \/ UNCHANGED pluginVars
      BY <3>2, <3>3 DEF load, modelCalls, toolRuns, tokenAges, pluginAsks, pluginExits,
         pluginVars
    <3> QED BY <3>1, <3>3 DEF PluginNext
  <2> QED BY <2>1, <2>2, <2>3 DEF RegistryInv
<1>3. RegistryInv => RegistrySound
  <2> SUFFICES ASSUME RegistryInv PROVE RegistrySound
    OBVIOUS
  <2>1. TypeOK
    BY DEF RegistryInv, LoadInv, LoadType, ToolOk, SinkInv, CountInv, GateIInv, GateInv, TypeOK
  <2> QED BY <2>1 DEF RegistryInv, LoadInv, ToolOk, SinkInv, RegistrySound
<1> QED BY <1>1, <1>2, <1>3, PTL DEF PluginSpec

---------------------------------------------------------------------------
(* The last entry of a name *)

\* What a name of the list is registered as: an entry that has the name
LEMMA RegisteredEntry ==
    ASSUME NEW h, NEW list, ToolList(list), NEW n \in Names, n \in NamesOf(list)
    PROVE  \E t \in Specs(list) : t.name = n /\ registered(h, list)[n] = newTool(h, t)
<1> DEFINE I == {i \in 1..Len(list) : list[i].name = n}
           LastAt(i) == list[i].name = n /\ \A j \in (i + 1)..Len(list) : list[j].name # n
<1>1. Len(list) \in Nat
  BY DEF ToolList
<1>2. I # {} /\ I \in SUBSET (1..Len(list)) /\ IsFiniteSet(I)
  <2>1. IsFiniteSet(1..Len(list))
    BY <1>1, FS_Interval
  <2>2. I # {} /\ I \in SUBSET (1..Len(list))
    BY DEF NamesOf, Specs
  <2> QED BY <2>1, <2>2, FS_Subset
<1>3. PICK i \in I : \A j \in I : j <= i
  <2> HIDE DEF I
  <2> QED BY <1>1, <1>2, LastIndex
<1>4. \A j \in (i + 1)..Len(list) : list[j].name # n
  BY <1>1, <1>3
<1>5. \E k \in 1..Len(list) : LastAt(k)
  BY <1>3, <1>4
<1> DEFINE l == CHOOSE k \in 1..Len(list) : LastAt(k)
<1>6. l \in 1..Len(list) /\ LastAt(l)
  <2> HIDE DEF LastAt
  <2> QED BY <1>5
<1>7. registered(h, list)[n] = newTool(h, list[l])
  BY DEF registered
<1>8. list[l] \in Specs(list) /\ list[l].name = n
  <2> HIDE DEF l
  <2> QED BY <1>6 DEF Specs
<1> HIDE DEF l
<1> QED BY <1>7, <1>8

---------------------------------------------------------------------------
(* The registry a partial reads *)

\* A tool is registered under its own name, and one that needs no process
\* sends on a topic
KeyOk(n) ==
    plugins[n] # None =>
      /\ plugins[n].spec.name = n
      /\ plugins[n].host = 0 => plugins[n].spec.topic \in Topics

\* Loading is over before there is a conversation
Late ==
    \A p \in Pipes : pipe[p].st # "none" => at \in {"serving", "closing", "closed"}

KeyInv ==
    /\ \A h \in 1..Folders : ToolList(host[h].tools)
    /\ \A n \in Names : KeyOk(n)

BaseInv == GateIInv /\ LoadInv /\ KeyInv /\ Late

\* What registering a list for an entry of the directory, or for none when all
\* of it dispatches, does to the keys
LEMMA RegisterKeys ==
    ASSUME KeyInv, NEW h, NEW list, ToolList(list), Registrable(list),
           plugins' = registered(h, list),
           h = 0 => \A t \in Specs(list) : t.topic # "none"
    PROVE  \A n \in Names : KeyOk(n)'
<1> TAKE n \in Names
<1>1. CASE n \in NamesOf(list)
  <2>1. PICK t \in Specs(list) : t.name = n /\ plugins'[n] = newTool(h, t)
    BY <1>1, RegisteredEntry
  <2>2. /\ plugins'[n].spec = t
        /\ plugins'[n].host = IF t.topic = "none" THEN h ELSE 0
    BY <2>1 DEF newTool
  <2>3. t.topic \in Topics \cup {"none"}
    BY <2>1 DEF ToolList, Registrable
  <2> QED BY <2>1, <2>2, <2>3 DEF KeyOk
<1>2. CASE n \notin NamesOf(list)
  BY <1>2 DEF registered, KeyInv, KeyOk
<1> QED BY <1>1, <1>2

LEMMA HostTools ==
    ASSUME HostType, NEW h \in 1..Folders, NEW x, NEW y, NEW z, ChangesHost(h, x, y, z)
    PROVE  host'[h].tools = y /\ \A g \in 1..Folders : g # h => host'[g] = host[g]
<1>1. DOMAIN host = 1..Folders
  BY DEF HostType
<1> QED BY <1>1 DEF ChangesHost

\* Loading and restarting keep the registry's keys right
LEMMA KeyInductive ==
    ASSUME LoadInv, KeyInv, load \/ pluginExits
    PROVE  KeyInv'
<1>0. Folders \in Nat \ {0}
  BY PluginsAssumption
<1>1. ASSUME NEW h \in 1..Folders, NEW x, NEW y, NEW z, ChangesHost(h, x, y, z), ToolList(y)
      PROVE  \A g \in 1..Folders : ToolList(host'[g].tools)
  <2>1. host'[h].tools = y /\ \A g \in 1..Folders : g # h => host'[g] = host[g]
    BY <1>1, HostTools DEF LoadInv, LoadType
  <2> QED BY <1>1, <2>1 DEF KeyInv
<1>2. ASSUME UNCHANGED plugins
      PROVE  \A n \in Names : KeyOk(n)'
  BY <1>2 DEF KeyInv, KeyOk
<1>3. ASSUME UNCHANGED host
      PROVE  \A g \in 1..Folders : ToolList(host'[g].tools)
  BY <1>3 DEF KeyInv
<1>4. ASSUME UNCHANGED <<host, plugins>> PROVE KeyInv'
  BY <1>2, <1>3, <1>4 DEF KeyInv
<1>5. ASSUME NEW c \in Contents, NEW o, loadDispatch(c, o) PROVE KeyInv'
  <2>1. /\ c.kind = "manifest" /\ plugins' = registered(0, Tools(c)) /\ UNCHANGED host
        /\ \A t \in Specs(Tools(c)) : t.topic # "blank" /\ t.topic # "none"
    BY <1>5 DEF loadDispatch, Loads, Validate
  <2>2. ToolList(Tools(c)) /\ Registrable(Tools(c))
    BY <2>1, ToolsAssumption DEF Registrable
  <2>3. \A n \in Names : KeyOk(n)'
    BY <2>1, <2>2, RegisterKeys
  <2> QED BY <1>3, <2>1, <2>3 DEF KeyInv
<1>6. ASSUME NEW c \in Contents, NEW o, NEW d \in Declared, startHost(c, o, d) PROVE KeyInv'
  <2> DEFINE y == IF d = <<>> THEN Tools(c) ELSE d
  <2>1. next \in 1..Folders /\ UNCHANGED plugins /\ ChangesHost(next, "up", y, FALSE)
    BY <1>0, <1>6 DEF startHost, ChangesHost, LoadInv, LoadType
  <2>2. ToolList(y)
    BY <1>6, ToolsAssumption DEF startHost, Loads
  <2> HIDE DEF y
  <2> QED BY <1>1, <1>2, <2>1, <2>2 DEF KeyInv
<1>7. CASE registerHostTools
  <2> DEFINE list == host[next].tools
  <2>1. next \in 1..Folders /\ next # 0 /\ UNCHANGED host
    BY <1>0, <1>7 DEF registerHostTools, LoadInv, LoadType, InOrder
  <2>2. ToolList(list)
    BY <2>1 DEF KeyInv
  <2>3. CASE Registrable(list)
    <3>1. plugins' = registered(next, list)
      BY <1>7, <2>3 DEF registerHostTools
    <3> HIDE DEF list
    <3>2. \A n \in Names : KeyOk(n)'
      BY <2>1, <2>2, <2>3, <3>1, RegisterKeys
    <3> QED BY <1>3, <2>1, <3>2 DEF KeyInv
  <2>4. CASE ~Registrable(list)
    BY <1>4, <1>7, <2>1, <2>4 DEF registerHostTools
  <2> QED BY <2>3, <2>4
<1>8. CASE appendHost
  <2>0. next \in 1..Folders /\ UNCHANGED plugins /\ HostType
    BY <1>0, <1>8 DEF appendHost, LoadInv, LoadType, InOrder
  <2>1. ChangesHost(next, host[next].proc, host[next].tools, TRUE)
    BY <1>8, <2>0, HostFields, Zenon DEF appendHost, ChangesHost
  <2>2. ToolList(host[next].tools)
    BY <2>0 DEF KeyInv
  <2> QED BY <1>1, <1>2, <2>0, <2>1, <2>2 DEF KeyInv
<1>9. ASSUME NEW d \in Declared, announceReady(d) PROVE KeyInv'
  <2>1. next \in 1..Folders /\ next # 0
    BY <1>0, <1>9 DEF announceReady, LoadInv, LoadType, InOrder
  <2>2. CASE d = <<>>
    BY <1>4, <1>9, <2>2 DEF announceReady
  <2>3. CASE d # <<>>
    <3>1. ToolList(d)
      BY ToolsAssumption
    <3>2. ChangesHost(next, host[next].proc, d, host[next].kept)
      BY <1>9, <2>1, <2>3, HostFields DEF announceReady, ChangesHost, LoadInv, LoadType
    <3>3. \A n \in Names : KeyOk(n)'
      <4>1. CASE Registrable(d)
        <5>1. plugins' = registered(next, d)
          BY <1>9, <2>3, <4>1 DEF announceReady
        <5> QED BY <2>1, <3>1, <4>1, <5>1, RegisterKeys
      <4>2. CASE ~Registrable(d)
        BY <1>2, <1>9, <2>3, <4>2 DEF announceReady
      <4> QED BY <4>1, <4>2
    <3> QED BY <1>1, <2>1, <3>1, <3>2, <3>3 DEF KeyInv
  <2> QED BY <2>2, <2>3
<1>10. ASSUME NEW h \in 1..Folders, stopHost(h) PROVE KeyInv'
  <2>1. UNCHANGED plugins /\ ChangesHost(h, "dead", host[h].tools, host[h].kept)
    BY <1>10, HostFields DEF stopHost, ChangesHost, LoadInv, LoadType
  <2>2. ToolList(host[h].tools)
    BY DEF KeyInv
  <2> QED BY <1>1, <1>2, <2>1, <2>2 DEF KeyInv
<1>11. ASSUME NEW h \in 1..Folders, NEW d \in Declared, NEW r, processExits(h, d, r)
       PROVE  KeyInv'
  <2> DEFINE x == IF r THEN "up" ELSE "dead"
             y == IF r /\ d # <<>> THEN d ELSE host[h].tools
  <2>1. UNCHANGED plugins /\ ChangesHost(h, x, y, host[h].kept)
    BY <1>11 DEF processExits, ChangesHost
  <2>2. ToolList(y)
    BY ToolsAssumption DEF KeyInv
  <2> HIDE DEF x, y
  <2> QED BY <1>1, <1>2, <2>1, <2>2 DEF KeyInv
<1>12. ASSUME \/ \E c \in Contents, o \in Overrides : skipFolder(c, o)
              \/ \E c \in Contents : readFails(c)
              \/ \E ok \in BOOLEAN : loadSkills(ok)
              \/ Close \/ closed
       PROVE  KeyInv'
  BY <1>4, <1>12 DEF readFails, skipFolder, loadSkills, Close, closed
<1> QED
  BY <1>5, <1>6, <1>7, <1>8, <1>9, <1>10, <1>11, <1>12 DEF load, pluginExits

LEMMA BaseInit == Init => BaseInv
<1> SUFFICES ASSUME Init PROVE BaseInv
  OBVIOUS
<1>0. Folders \in Nat \ {0}
  BY PluginsAssumption
<1>1. LoadInv
  BY <1>0 DEF Init, NoHost, LoadInv, LoadType, HostType, PluginType, InOrder, ToolOk
<1>2. ToolList(<<>>)
  BY DEF ToolList, Specs
<1>3. KeyInv
  BY <1>2 DEF Init, NoHost, KeyInv, KeyOk
<1> QED BY <1>1, <1>3, GateInit DEF BaseInv, Late, Init

\* The registry stands still, or there is no conversation before the step and
\* none after it
LEMMA BaseInductive ==
    ASSUME BaseInv, [Next]_vars
    PROVE  /\ BaseInv'
           /\ \/ UNCHANGED plugins
              \/ \A p \in Pipes : pipe[p].st = "none" /\ pipe'[p].st = "none"
<1>1. CASE load \/ pluginExits
  <2>1. LoadInv' /\ KeyInv'
    BY <1>1, LoadInductive, KeyInductive DEF BaseInv
  <2>2. UNCHANGED <<pipe, gateVars>>
    BY <1>1 DEF load, pluginExits, sessionVars
  <2>3. GateIInv'
    BY <2>2, GateStutter DEF BaseInv
  <2>4. CASE at \in {"serving", "closing", "closed"}
    <3>1. UNCHANGED plugins /\ at' \in {"serving", "closing", "closed"}
      BY <1>1, <2>4 DEF load, pluginExits, readFails, skipFolder, loadDispatch, startHost,
         registerHostTools, appendHost, loadSkills, announceReady, Close, stopHost, closed,
         processExits
    <3> QED BY <2>1, <2>2, <2>3, <3>1 DEF BaseInv, Late
  <2>5. CASE at \notin {"serving", "closing", "closed"}
    BY <2>1, <2>2, <2>3, <2>5 DEF BaseInv, Late
  <2> QED BY <2>4, <2>5
<1>2. CASE UNCHANGED loadVars /\ sessionStep
  <2>1. GateIInv'
    BY <1>2, GateSession DEF BaseInv
  <2>2. LoadInv' /\ KeyInv'
    BY <1>2 DEF BaseInv, loadVars, LoadInv, LoadType, HostType, PluginType, InOrder, ToolOk,
       KeyInv, KeyOk
  <2>3. Late'
    <3> SUFFICES ASSUME NEW p \in Pipes, pipe'[p].st # "none"
                 PROVE  at \in {"serving", "closing", "closed"}
      BY <1>2 DEF Late, loadVars
    <3>1. PICK q \in Pipes : (\E s \in Sessions : BindSession(q, s)) \/ UnbindSession(q)
      BY <1>2 DEF sessionStep
    <3>2. CASE \E s \in Sessions : BindSession(q, s)
      BY <3>2 DEF BindSession, Serving
    <3>3. CASE UnbindSession(q)
      BY <3>3 DEF UnbindSession, BaseInv, Late
    <3> QED BY <3>1, <3>2, <3>3
  <2> QED BY <1>2, <2>1, <2>2, <2>3 DEF BaseInv, loadVars
<1>3. CASE /\ UNCHANGED <<loadVars, sessionVars>>
           /\ modelCalls \/ toolRuns \/ tokenAges \/ pluginAsks \/ UNCHANGED gateVars
  <2>1. GateIInv'
    BY <1>3, GateStutter, GateCalls, GateRuns, GateAges, GatePlugin DEF BaseInv, sessionVars
  <2>2. LoadInv' /\ KeyInv' /\ Late'
    BY <1>3 DEF BaseInv, loadVars, sessionVars, LoadInv, LoadType, HostType, PluginType,
       InOrder, ToolOk, KeyInv, KeyOk, Late
  <2> QED BY <1>3, <2>1, <2>2 DEF BaseInv, loadVars
<1>4. ASSUME PluginNext PROVE load \/ pluginExits \/ (UNCHANGED loadVars /\ sessionStep)
        \/ (UNCHANGED <<loadVars, sessionVars>>
              /\ (modelCalls \/ toolRuns \/ tokenAges \/ pluginAsks))
  BY <1>4 DEF PluginNext, sessionStep, modelCalls, toolRuns, tokenAges, pluginAsks
<1>5. ASSUME sttResult \/ reflexStep \/ UNCHANGED vars
      PROVE  UNCHANGED <<loadVars, sessionVars, gateVars>>
  BY <1>5 DEF sttResult, reflexStep, vars, pluginVars
<1> QED BY <1>1, <1>2, <1>3, <1>4, <1>5 DEF Next

---------------------------------------------------------------------------
(* One instruction, one packet *)

UttType ==
    /\ shots = [p \in Pipes |-> [n \in Names |-> shots[p][n]]]
    /\ heard = [p \in Pipes |-> [n \in Names |-> heard[p][n]]]
    /\ reflex = [p \in Pipes |->
         [fired |-> reflex[p].fired,
          firedAnchors |-> [n \in Names |-> reflex[p].firedAnchors[n]],
          pending |-> [n \in Names |-> reflex[p].pending[n]]]]

\* A tool that partials may fire, and how
Fires(n) == plugins[n] # None /\ plugins[n].spec.on # None
Captures(n) == Fires(n) /\ plugins[n].spec.on.capture
Once(n) == Fires(n) /\ plugins[n].spec.on.once

\* A capturing tool fires only for an anchor beyond the last it acted on, and
\* acts only on anchors that were heard; one that may fire once is silenced by
\* firing; a settling capture belongs to a tool that may still fire; and no
\* conversation has an utterance before it starts
UttOk(p, n) ==
    /\ shots[p][n] \in Nat /\ heard[p][n] \in Nat /\ reflex[p].firedAnchors[n] \in Nat
    /\ Captures(n) => /\ shots[p][n] <= reflex[p].firedAnchors[n]
                      /\ reflex[p].firedAnchors[n] <= heard[p][n]
    /\ Once(n) => /\ shots[p][n] <= 1
                  /\ n \notin reflex[p].fired => shots[p][n] = 0
    /\ \A c \in reflex[p].pending[n] :
         /\ Captures(n) /\ c.anchors \in Nat /\ c.anchors <= heard[p][n]
         /\ Once(n) => n \notin reflex[p].fired
    /\ pipe[p].st = "none" => /\ shots[p][n] = 0 /\ heard[p][n] = 0
                              /\ reflex[p].firedAnchors[n] = 0
                              /\ reflex[p].pending[n] = {}

\* A timer is of a tool that captures, and the tool is still registered
TimerOk(t) ==
    /\ t = [pipe |-> t.pipe, spec |-> t.spec, cap |-> t.cap, off |-> t.off]
    /\ t.pipe \in Pipes /\ pipe[t.pipe].st # "none"
    /\ t.spec.name \in Names /\ Captures(t.spec.name)
    /\ plugins[t.spec.name].spec = t.spec

UttInv == /\ UttType /\ \A t \in timers : TimerOk(t)
          /\ \A p \in Pipes : \A n \in Names : UttOk(p, n)

\* The anchors of a transcript can be counted
LEMMA AnchorCount ==
    ASSUME NEW text \in Texts, NEW after
    PROVE  Cardinality(anchorsIn(text, after)) \in Nat
<1>1. Len(text) \in Nat
  BY ReflexAssumption
<1>2. IsFiniteSet(1..Len(text))
  BY <1>1, FS_Interval
<1>3. anchorsIn(text, after) \subseteq 1..Len(text)
  BY DEF anchorsIn
<1> QED BY <1>2, <1>3, FS_Subset, FS_CardinalityType

LEMMA MaxOfTwo ==
    ASSUME NEW a \in Nat, NEW b \in Nat
    PROVE  Max({a, b}) \in Nat /\ Max({a, b}) >= a /\ Max({a, b}) >= b
<1>1. \E x \in {a, b} : \A y \in {a, b} : x >= y
  OBVIOUS
<1> DEFINE m == CHOOSE x \in {a, b} : \A y \in {a, b} : x >= y
<1>2. m \in {a, b} /\ \A y \in {a, b} : m >= y
  BY <1>1
<1> HIDE DEF m
<1>3. m \in Nat /\ m >= a /\ m >= b
  BY <1>2
<1> QED BY <1>3 DEF Max, m

\* Which tools a partial may fire
LEMMA ListeningFacts ==
    ASSUME KeyInv, NEW p, NEW s \in Listening(p)
    PROVE  /\ s.name \in Names /\ Fires(s.name) /\ plugins[s.name].spec = s
           /\ s.on.once => s.name \notin reflex[p].fired
           /\ plugins[s.name].host = 0
<1>1. PICK n \in Names : plugins[n] # None /\ plugins[n].spec.on # None
                         /\ plugins[n].spec = s /\ plugins[n].host = 0
  BY DEF Listening, PartialTools
<1>2. s.name = n
  BY <1>1 DEF KeyInv, KeyOk
<1>3. s.on.once => s.name \notin reflex[p].fired
  BY DEF Listening
<1> QED BY <1>1, <1>2, <1>3 DEF Fires

\* A step of Plugins, and of fireReflex, leaves the utterances alone
LEMMA UttStutter ==
    ASSUME UttInv, BaseInv, BaseInv', UNCHANGED <<reflex, timers, uttVars>>,
           \/ UNCHANGED plugins
           \/ \A p \in Pipes : pipe[p].st = "none" /\ pipe'[p].st = "none",
           \A p \in Pipes : pipe[p].st # "none" => pipe'[p].st # "none"
    PROVE  UttInv'
<1>1. UNCHANGED <<reflex, timers, shots, heard>>
  BY DEF uttVars
<1>2. UttType'
  <2>1. shots' = [p \in Pipes |-> [n \in Names |-> shots'[p][n]]]
    BY <1>1 DEF UttInv, UttType
  <2>2. heard' = [p \in Pipes |-> [n \in Names |-> heard'[p][n]]]
    BY <1>1 DEF UttInv, UttType
  <2>3. reflex' = [p \in Pipes |->
         [fired |-> reflex'[p].fired,
          firedAnchors |-> [n \in Names |-> reflex'[p].firedAnchors[n]],
          pending |-> [n \in Names |-> reflex'[p].pending[n]]]]
    BY <1>1 DEF UttInv, UttType
  <2> QED BY <2>1, <2>2, <2>3 DEF UttType
<1>3. CASE UNCHANGED plugins
  <2>1. \A n : Fires(n)' <=> Fires(n)
    BY <1>3 DEF Fires
  <2>2. \A n : (Captures(n)' <=> Captures(n)) /\ (Once(n)' <=> Once(n))
    BY <1>3, <2>1 DEF Captures, Once
  <2>3. ASSUME NEW t \in timers PROVE TimerOk(t)'
    <3>1. TimerOk(t)
      BY <2>3 DEF UttInv
    <3> QED BY <1>3, <2>2, <3>1 DEF TimerOk
  <2>4. ASSUME NEW p \in Pipes, NEW n \in Names PROVE UttOk(p, n)'
    <3>1. UttOk(p, n)
      BY <2>4 DEF UttInv
    <3>2. pipe'[p].st = "none" => pipe[p].st = "none"
      BY <2>4
    <3> QED BY <1>1, <2>2, <3>1, <3>2 DEF UttOk
  <2> QED BY <1>1, <1>2, <2>3, <2>4 DEF UttInv
<1>4. CASE \A p \in Pipes : pipe[p].st = "none" /\ pipe'[p].st = "none"
  <2>1. \A t \in timers : FALSE
    BY <1>4 DEF UttInv, TimerOk
  <2>2. ASSUME NEW p \in Pipes, NEW n \in Names PROVE UttOk(p, n)'
    <3>1. /\ shots[p][n] = 0 /\ heard[p][n] = 0
          /\ reflex[p].firedAnchors[n] = 0 /\ reflex[p].pending[n] = {}
      BY <1>4, <2>2 DEF UttInv, UttOk
    <3> QED BY <1>1, <3>1 DEF UttOk
  <2> QED BY <1>1, <1>2, <2>1, <2>2 DEF UttInv
<1> QED BY <1>3, <1>4

\* What the registry says of a tool is the same after a step that keeps it
LEMMA SameTools ==
    ASSUME UNCHANGED plugins, NEW n
    PROVE  /\ Fires(n)' <=> Fires(n)
           /\ Captures(n)' <=> Captures(n)
           /\ Once(n)' <=> Once(n)
<1>1. Fires(n)' <=> Fires(n)
  BY DEF Fires
<1> QED BY <1>1 DEF Captures, Once

\* A step of one conversation replaces the whole of its utterance
UttBecomes(p, F, A, P, S, H) ==
    /\ reflex' = [reflex EXCEPT ![p] = [fired |-> F, firedAnchors |-> A, pending |-> P]]
    /\ shots' = [shots EXCEPT ![p] = S]
    /\ heard' = [heard EXCEPT ![p] = H]

LEMMA UttUpdate ==
    ASSUME UttType, NEW p \in Pipes, NEW F, NEW A, NEW P, NEW S, NEW H,
           A = [n \in Names |-> A[n]], P = [n \in Names |-> P[n]],
           S = [n \in Names |-> S[n]], H = [n \in Names |-> H[n]],
           UttBecomes(p, F, A, P, S, H)
    PROVE  /\ UttType'
           /\ reflex'[p].fired = F /\ reflex'[p].firedAnchors = A /\ reflex'[p].pending = P
           /\ shots'[p] = S /\ heard'[p] = H
           /\ \A q \in Pipes : q # p => /\ reflex'[q] = reflex[q]
                                        /\ shots'[q] = shots[q] /\ heard'[q] = heard[q]
<1>1. DOMAIN reflex = Pipes /\ DOMAIN shots = Pipes /\ DOMAIN heard = Pipes
  BY DEF UttType
<1>2. /\ reflex' = [q \in Pipes |->
           IF q = p THEN [fired |-> F, firedAnchors |-> A, pending |-> P] ELSE reflex[q]]
      /\ shots' = [q \in Pipes |-> IF q = p THEN S ELSE shots[q]]
      /\ heard' = [q \in Pipes |-> IF q = p THEN H ELSE heard[q]]
  BY <1>1 DEF UttBecomes
<1>3. shots' = [q \in Pipes |-> [n \in Names |-> shots'[q][n]]]
  <2>1. \A q \in Pipes : shots[q] = [n \in Names |-> shots[q][n]]
    BY DEF UttType
  <2>2. \A q \in Pipes : shots'[q] = [n \in Names |-> shots'[q][n]]
    BY <1>2, <2>1
  <2> QED BY <1>2, <2>2
<1>4. heard' = [q \in Pipes |-> [n \in Names |-> heard'[q][n]]]
  <2>1. \A q \in Pipes : heard[q] = [n \in Names |-> heard[q][n]]
    BY DEF UttType
  <2>2. \A q \in Pipes : heard'[q] = [n \in Names |-> heard'[q][n]]
    BY <1>2, <2>1
  <2> QED BY <1>2, <2>2
<1>5. reflex' = [q \in Pipes |->
         [fired |-> reflex'[q].fired,
          firedAnchors |-> [n \in Names |-> reflex'[q].firedAnchors[n]],
          pending |-> [n \in Names |-> reflex'[q].pending[n]]]]
  <2>1. \A q \in Pipes : reflex[q] = [fired |-> reflex[q].fired,
             firedAnchors |-> [n \in Names |-> reflex[q].firedAnchors[n]],
             pending |-> [n \in Names |-> reflex[q].pending[n]]]
    BY DEF UttType
  <2>2. \A q \in Pipes : reflex'[q] = [fired |-> reflex'[q].fired,
             firedAnchors |-> [n \in Names |-> reflex'[q].firedAnchors[n]],
             pending |-> [n \in Names |-> reflex'[q].pending[n]]]
    <3> TAKE q \in Pipes
    <3>1. CASE q = p
      BY <1>2, <3>1
    <3>2. CASE q # p
      <4>1. reflex'[q] = reflex[q]
        BY <1>2, <3>2
      <4> QED BY <2>1, <4>1
    <3> QED BY <3>1, <3>2
  <2> QED BY <1>2, <2>2
<1> QED BY <1>2, <1>3, <1>4, <1>5 DEF UttType

\* What the other conversations heard is still right
LEMMA UttOthers ==
    ASSUME UNCHANGED plugins, NEW q, NEW n, UttOk(q, n), reflex'[q] = reflex[q],
           shots'[q] = shots[q], heard'[q] = heard[q], pipe'[q] = pipe[q]
    PROVE  UttOk(q, n)'
BY SameTools DEF UttOk

\* A partial
LEMMA UttObserve ==
    ASSUME UttInv, BaseInv, NEW p \in Pipes, NEW text \in Texts, observe(p, text),
           UNCHANGED <<plugins, pipe>>
    PROVE  UttInv'
<1> DEFINE new == staged(p, text)
           names == {s.name : s \in new}
           struck == {s.name : s \in hits(p, text)}
           fired2 == reflex[p].fired \cup {s.name : s \in {h \in hits(p, text) : h.on.once}}
           pend(n) == IF n \in names THEN {capture(CHOOSE s \in new : s.name = n, text)}
                      ELSE reflex[p].pending[n]
           shots2(n) == IF n \in struck THEN shots[p][n] + 1 ELSE shots[p][n]
           heard2(n) == IF plugins[n] = None \/ plugins[n].spec.on = None THEN heard[p][n]
                        ELSE Max({heard[p][n],
                                  Cardinality(anchorsIn(text, plugins[n].spec.on.after))})
<1>k. KeyInv /\ pipe[p].st = "running"
  BY DEF BaseInv, observe
<1>1. UttBecomes(p, fired2, reflex[p].firedAnchors, [n \in Names |-> pend(n)],
                [n \in Names |-> shots2(n)], [n \in Names |-> heard2(n)])
  BY DEF observe, UttBecomes
<1>2. timers' = (timers \ stopped(p, names)) \cup
         {[pipe |-> p, spec |-> s, cap |-> capture(s, text), off |-> FALSE] : s \in new}
  BY DEF observe
<1>3. \A s \in new : /\ s \in Listening(p) /\ s.on.capture
  BY DEF staged
<1>4. \A s \in hits(p, text) : s \in Listening(p) /\ ~s.on.capture
  BY DEF hits
<1> HIDE DEF new
<1>5. ASSUME NEW n \in struck
      PROVE  n \in Names /\ Fires(n) /\ ~Captures(n) /\ (Once(n) => n \notin reflex[p].fired)
  <2>1. PICK s \in hits(p, text) : s.name = n
    BY <1>5
  <2> QED BY <1>k, <1>4, <2>1, ListeningFacts DEF Captures, Once
<1>6. ASSUME NEW n \in struck, Once(n) PROVE n \in fired2
  <2>1. PICK s \in hits(p, text) : s.name = n
    BY <1>6
  <2>2. s.on.once
    BY <1>k, <1>4, <1>6, <2>1, ListeningFacts DEF Once
  <2> QED BY <2>1, <2>2
<1>7. fired2 \subseteq reflex[p].fired \cup struck /\ reflex[p].fired \subseteq fired2
  OBVIOUS
<1>8. ASSUME NEW n \in names
      PROVE  /\ n \in Names /\ Captures(n) /\ (Once(n) => n \notin reflex[p].fired)
             /\ pend(n) = {capture(plugins[n].spec, text)}
  <2> DEFINE s == CHOOSE x \in new : x.name = n
  <2>1. s \in new /\ s.name = n
    BY <1>8
  <2>2. pend(n) = {capture(s, text)}
    BY <1>8
  <2> HIDE DEF s, names, pend
  <2>3. n \in Names /\ Fires(n) /\ plugins[n].spec = s /\ s.on.capture
        /\ (s.on.once => n \notin reflex[p].fired)
    BY <1>k, <1>3, <2>1, ListeningFacts
  <2> QED BY <2>2, <2>3 DEF Captures, Once
<1>9. ASSUME NEW n \in Names
      PROVE  /\ heard2(n) \in Nat /\ heard2(n) >= heard[p][n]
             /\ Fires(n) => heard2(n) >= Cardinality(anchorsIn(text, plugins[n].spec.on.after))
             /\ Cardinality(anchorsIn(text, plugins[n].spec.on.after)) \in Nat
  <2>1. heard[p][n] \in Nat
    BY <1>9 DEF UttInv, UttOk
  <2>2. Cardinality(anchorsIn(text, plugins[n].spec.on.after)) \in Nat
    BY AnchorCount
  <2> QED BY <2>1, <2>2, MaxOfTwo DEF Fires
<1> HIDE DEF names, struck, fired2, pend, shots2, heard2
<1>10. /\ UttType'
       /\ reflex'[p].fired = fired2 /\ reflex'[p].firedAnchors = reflex[p].firedAnchors
       /\ reflex'[p].pending = [n \in Names |-> pend(n)]
       /\ shots'[p] = [n \in Names |-> shots2(n)]
       /\ heard'[p] = [n \in Names |-> heard2(n)]
       /\ \A q \in Pipes : q # p => /\ reflex'[q] = reflex[q]
                                    /\ shots'[q] = shots[q] /\ heard'[q] = heard[q]
  <2> DEFINE P == [n \in Names |-> pend(n)]
             S == [n \in Names |-> shots2(n)]
             H == [n \in Names |-> heard2(n)]
  <2>1. /\ reflex[p].firedAnchors = [n \in Names |-> reflex[p].firedAnchors[n]]
        /\ P = [n \in Names |-> P[n]] /\ S = [n \in Names |-> S[n]] /\ H = [n \in Names |-> H[n]]
    BY DEF UttInv, UttType
  <2>2. UttBecomes(p, fired2, reflex[p].firedAnchors, P, S, H) /\ UttType
    BY <1>1 DEF UttInv
  <2> HIDE DEF P, S, H
  <2>3. /\ UttType'
        /\ reflex'[p].fired = fired2 /\ reflex'[p].firedAnchors = reflex[p].firedAnchors
        /\ reflex'[p].pending = P /\ shots'[p] = S /\ heard'[p] = H
        /\ \A q \in Pipes : q # p => /\ reflex'[q] = reflex[q]
                                     /\ shots'[q] = shots[q] /\ heard'[q] = heard[q]
    BY <2>1, <2>2, UttUpdate
  <2> QED BY <2>3 DEF P, S, H
<1>11. ASSUME NEW n \in Names PROVE UttOk(p, n)'
  <2>0. UttOk(p, n)
    BY DEF UttInv
  <2>1. /\ reflex'[p].firedAnchors[n] = reflex[p].firedAnchors[n]
        /\ reflex'[p].pending[n] = pend(n)
        /\ shots'[p][n] = shots2(n) /\ heard'[p][n] = heard2(n)
    BY <1>10
  <2>2. shots2(n) \in Nat /\ heard2(n) \in Nat /\ reflex[p].firedAnchors[n] \in Nat
    BY <1>9, <2>0 DEF shots2, UttOk
  <2>3. Captures(n) => /\ shots2(n) <= reflex[p].firedAnchors[n]
                       /\ reflex[p].firedAnchors[n] <= heard2(n)
    BY <1>5, <1>9, <2>0, <2>2 DEF shots2, UttOk
  <2>4. ASSUME Once(n)
        PROVE  shots2(n) <= 1 /\ (n \notin fired2 => shots2(n) = 0)
    <3>1. CASE n \in struck
      BY <1>5, <1>6, <2>0, <2>4, <3>1 DEF shots2, UttOk
    <3>2. CASE n \notin struck
      BY <1>7, <2>0, <2>4, <3>2 DEF shots2, UttOk
    <3> QED BY <3>1, <3>2
  <2>5. ASSUME NEW c \in pend(n)
        PROVE  /\ Captures(n) /\ c.anchors \in Nat /\ c.anchors <= heard2(n)
               /\ Once(n) => n \notin fired2
    <3>1. CASE n \in names
      <4>1. c = capture(plugins[n].spec, text)
        BY <1>8, <2>5, <3>1
      <4>2. c.anchors = Cardinality(anchorsIn(text, plugins[n].spec.on.after))
        BY <4>1 DEF capture
      <4>3. Captures(n) /\ (Once(n) => n \notin fired2)
        BY <1>5, <1>7, <1>8, <3>1
      <4> QED BY <1>9, <4>2, <4>3 DEF Captures
    <3>2. CASE n \notin names
      <4>1. c \in reflex[p].pending[n]
        BY <2>5, <3>2 DEF pend
      <4> QED BY <1>5, <1>7, <1>9, <2>0, <4>1 DEF UttOk
    <3> QED BY <3>1, <3>2
  <2> QED BY <1>k, <1>10, <2>1, <2>2, <2>3, <2>4, <2>5, SameTools DEF UttOk
<1>12. ASSUME NEW t \in timers' PROVE TimerOk(t)'
  <2>1. CASE t \in timers
    <3>1. TimerOk(t)
      BY <2>1 DEF UttInv
    <3> QED BY <3>1, SameTools DEF TimerOk
  <2>2. CASE t \notin timers
    <3>1. PICK s \in new :
            t = [pipe |-> p, spec |-> s, cap |-> capture(s, text), off |-> FALSE]
      BY <1>2, <1>12, <2>2
    <3>2. t.pipe = p /\ t.spec = s
      BY <3>1
    <3>3. t = [pipe |-> t.pipe, spec |-> t.spec, cap |-> t.cap, off |-> t.off]
      BY <3>1
    <3>4. s.name \in Names /\ Captures(s.name) /\ plugins[s.name].spec = s
      BY <1>k, <1>3, ListeningFacts DEF Captures
    <3> QED BY <1>k, <3>2, <3>3, <3>4, SameTools DEF TimerOk
  <2> QED BY <2>1, <2>2
<1>13. ASSUME NEW q \in Pipes, NEW n \in Names PROVE UttOk(q, n)'
  <2>1. CASE q = p
    BY <1>11, <2>1
  <2>2. CASE q # p
    BY <1>10, <2>2, UttOthers DEF UttInv
  <2> QED BY <2>1, <2>2
<1> QED BY <1>10, <1>12, <1>13 DEF UttInv

\* A final: whatever timers are late, there is nothing left to settle
LEMMA UttEnds ==
    ASSUME UttInv, NEW p \in Pipes, endUtterance(p), UNCHANGED <<plugins, pipe>>
    PROVE  UttInv'
<1> DEFINE Z == [n \in Names |-> 0]
           E == [n \in Names |-> {}]
<1>1. pipe[p].st = "running" /\ timers' \subseteq timers /\ UttBecomes(p, {}, Z, E, Z, Z)
  BY DEF endUtterance, NoUtterance, UttBecomes
<1>2. Z = [n \in Names |-> Z[n]] /\ E = [n \in Names |-> E[n]]
  OBVIOUS
<1>3. \A n \in Names : Z[n] = 0 /\ E[n] = {}
  OBVIOUS
<1> HIDE DEF Z, E
<1>4. /\ UttType'
      /\ reflex'[p].fired = {} /\ reflex'[p].firedAnchors = Z /\ reflex'[p].pending = E
      /\ shots'[p] = Z /\ heard'[p] = Z
      /\ \A q \in Pipes : q # p => /\ reflex'[q] = reflex[q]
                                   /\ shots'[q] = shots[q] /\ heard'[q] = heard[q]
  BY <1>1, <1>2, UttUpdate DEF UttInv
<1>5. ASSUME NEW q \in Pipes, NEW n \in Names PROVE UttOk(q, n)'
  <2>1. CASE q = p
    BY <1>3, <1>4, <2>1 DEF UttOk
  <2>2. CASE q # p
    BY <1>4, <2>2, UttOthers DEF UttInv
  <2> QED BY <2>1, <2>2
<1>6. ASSUME NEW t \in timers' PROVE TimerOk(t)'
  <2>1. TimerOk(t)
    BY <1>1, <1>6 DEF UttInv
  <2> QED BY <2>1, SameTools DEF TimerOk
<1> QED BY <1>4, <1>5, <1>6 DEF UttInv

\* A timer goes off
LEMMA UttTimer ==
    ASSUME UttInv, NEW t \in timers, timerGoesOff(t), UNCHANGED <<plugins, pipe>>
    PROVE  UttInv'
<1>1. UNCHANGED <<reflex, shots, heard>> /\ timers' = (timers \ {t}) \cup {[t EXCEPT !.off = TRUE]}
  BY DEF timerGoesOff, uttVars
<1>2. UttType'
  <2>1. shots' = [p \in Pipes |-> [n \in Names |-> shots'[p][n]]]
    BY <1>1 DEF UttInv, UttType
  <2>2. heard' = [p \in Pipes |-> [n \in Names |-> heard'[p][n]]]
    BY <1>1 DEF UttInv, UttType
  <2>3. reflex' = [p \in Pipes |->
         [fired |-> reflex'[p].fired,
          firedAnchors |-> [n \in Names |-> reflex'[p].firedAnchors[n]],
          pending |-> [n \in Names |-> reflex'[p].pending[n]]]]
    BY <1>1 DEF UttInv, UttType
  <2> QED BY <2>1, <2>2, <2>3 DEF UttType
<1>3. ASSUME NEW q \in Pipes, NEW n \in Names PROVE UttOk(q, n)'
  BY <1>1, <1>3, UttOthers DEF UttInv
<1>4. ASSUME NEW u \in timers' PROVE TimerOk(u)'
  <2> DEFINE v == IF u \in timers THEN u ELSE t
  <2>1. TimerOk(v)
    BY <1>4 DEF UttInv
  <2>2. /\ u.pipe = v.pipe /\ u.spec = v.spec
        /\ u = [pipe |-> u.pipe, spec |-> u.spec, cap |-> u.cap, off |-> u.off]
    <3>1. CASE u \in timers
      BY <2>1, <3>1 DEF TimerOk
    <3>2. CASE u \notin timers
      <4>1. u = [t EXCEPT !.off = TRUE] /\ TimerOk(t)
        BY <1>1, <1>4, <3>2 DEF UttInv
      <4>2. u = [pipe |-> t.pipe, spec |-> t.spec, cap |-> t.cap, off |-> TRUE]
        BY <4>1 DEF TimerOk
      <4> QED BY <3>2, <4>2
    <3> QED BY <3>1, <3>2
  <2> HIDE DEF v
  <2> QED BY <2>1, <2>2, SameTools DEF TimerOk
<1> QED BY <1>2, <1>3, <1>4 DEF UttInv

\* A capture settles, or its timer finds that it has been replaced
LEMMA UttSettles ==
    ASSUME UttInv, NEW t \in timers, settled(t), UNCHANGED <<plugins, pipe>>
    PROVE  UttInv'
<1> DEFINE p == t.pipe
           n == t.spec.name
           acts == t.cap.anchors > reflex[p].firedAnchors[n]
           fired2 == IF acts /\ t.spec.on.once THEN reflex[p].fired \cup {n} ELSE reflex[p].fired
           A == IF acts THEN [reflex[p].firedAnchors EXCEPT ![n] = t.cap.anchors]
                ELSE reflex[p].firedAnchors
           P == [reflex[p].pending EXCEPT ![n] = {}]
           S == [shots[p] EXCEPT ![n] = IF acts THEN shots[p][n] + 1 ELSE shots[p][n]]
<1>1. TimerOk(t) /\ UttType /\ timers' \subseteq timers
  BY DEF UttInv, settled
<1>2. p \in Pipes /\ n \in Names /\ Captures(n) /\ plugins[n].spec = t.spec
  BY <1>1 DEF TimerOk
<1>3. \A u \in timers' : TimerOk(u)'
  <2> TAKE u \in timers'
  <2>1. TimerOk(u)
    BY <1>1 DEF UttInv
  <2> QED BY <2>1, SameTools DEF TimerOk
<1>4. CASE reflex[p].pending[n] # {t.cap}
  <2>1. UNCHANGED <<reflex, shots, heard>>
    BY <1>4 DEF settled, uttVars
  <2>2. UttType'
    <3>1. shots' = [q \in Pipes |-> [m \in Names |-> shots'[q][m]]]
      BY <2>1 DEF UttInv, UttType
    <3>2. heard' = [q \in Pipes |-> [m \in Names |-> heard'[q][m]]]
      BY <2>1 DEF UttInv, UttType
    <3>3. reflex' = [q \in Pipes |->
           [fired |-> reflex'[q].fired,
            firedAnchors |-> [m \in Names |-> reflex'[q].firedAnchors[m]],
            pending |-> [m \in Names |-> reflex'[q].pending[m]]]]
      BY <2>1 DEF UttInv, UttType
    <3> QED BY <3>1, <3>2, <3>3 DEF UttType
  <2>3. ASSUME NEW q \in Pipes, NEW m \in Names PROVE UttOk(q, m)'
    BY <2>1, <2>3, UttOthers DEF UttInv
  <2> QED BY <1>3, <2>2, <2>3 DEF UttInv
<1>5. CASE reflex[p].pending[n] = {t.cap}
  <2>1. /\ shots[p] = [m \in Names |-> shots[p][m]] /\ heard[p] = [m \in Names |-> heard[p][m]]
        /\ reflex[p].firedAnchors = [m \in Names |-> reflex[p].firedAnchors[m]]
        /\ reflex[p].pending = [m \in Names |-> reflex[p].pending[m]]
        /\ DOMAIN heard = Pipes /\ DOMAIN shots = Pipes
    <3> HIDE DEF p
    <3>1. /\ shots[p] = [m \in Names |-> shots[p][m]] /\ heard[p] = [m \in Names |-> heard[p][m]]
          /\ DOMAIN heard = Pipes /\ DOMAIN shots = Pipes
      BY <1>2 DEF UttInv, UttType
    <3>2. reflex[p] = [fired |-> reflex[p].fired,
             firedAnchors |-> [m \in Names |-> reflex[p].firedAnchors[m]],
             pending |-> [m \in Names |-> reflex[p].pending[m]]]
      BY <1>2 DEF UttInv, UttType
    <3> QED BY <3>1, <3>2
  <2>2. UttBecomes(p, fired2, A, P, S, heard[p])
    <3>1. reflex' = [reflex EXCEPT ![p] = [fired |-> fired2, firedAnchors |-> A, pending |-> P]]
      BY <1>5 DEF settled
    <3>2. shots' = [shots EXCEPT ![p] = S]
      BY <1>5, <2>1, <1>2 DEF settled
    <3>3. heard' = [heard EXCEPT ![p] = heard[p]]
      BY <1>5, <1>1, <1>2 DEF settled, UttType
    <3> QED BY <3>1, <3>2, <3>3 DEF UttBecomes
  <2>3. A = [m \in Names |-> A[m]] /\ P = [m \in Names |-> P[m]] /\ S = [m \in Names |-> S[m]]
    BY <2>1
  <2>4. \A m \in Names : m # n => A[m] = reflex[p].firedAnchors[m] /\ S[m] = shots[p][m]
                                  /\ P[m] = reflex[p].pending[m]
    BY <2>1
  <2>5. /\ A[n] = IF acts THEN t.cap.anchors ELSE reflex[p].firedAnchors[n]
        /\ S[n] = IF acts THEN shots[p][n] + 1 ELSE shots[p][n]
        /\ P[n] = {}
    BY <1>2, <2>1
  <2>6. /\ \A m \in Names : m # n => (m \in fired2 <=> m \in reflex[p].fired)
        /\ acts /\ t.spec.on.once => n \in fired2
        /\ reflex[p].fired \subseteq fired2
    OBVIOUS
  <2>7. UttOk(p, n) /\ t.cap \in reflex[p].pending[n]
    BY <1>2, <1>5 DEF UttInv
  <2>8. pipe[p].st # "none"
    BY <1>1 DEF TimerOk
  <2> HIDE DEF A, P, S, fired2
  <2>9. /\ UttType'
        /\ reflex'[p].fired = fired2 /\ reflex'[p].firedAnchors = A /\ reflex'[p].pending = P
        /\ shots'[p] = S /\ heard'[p] = heard[p]
        /\ \A q \in Pipes : q # p => /\ reflex'[q] = reflex[q]
                                     /\ shots'[q] = shots[q] /\ heard'[q] = heard[q]
    BY <1>1, <1>2, <2>1, <2>2, <2>3, UttUpdate
  <2>10. UttOk(p, n)'
    <3>1. /\ S[n] \in Nat /\ A[n] \in Nat /\ heard[p][n] \in Nat
          /\ S[n] <= A[n] /\ A[n] <= heard[p][n]
      <4>1. /\ shots[p][n] \in Nat /\ heard[p][n] \in Nat /\ reflex[p].firedAnchors[n] \in Nat
            /\ shots[p][n] <= reflex[p].firedAnchors[n]
            /\ reflex[p].firedAnchors[n] <= heard[p][n]
            /\ t.cap.anchors \in Nat /\ t.cap.anchors <= heard[p][n]
        BY <1>2, <2>7 DEF UttOk
      <4> QED BY <2>5, <4>1
    <3>2. ASSUME Once(n)
          PROVE  S[n] <= 1 /\ (n \notin fired2 => S[n] = 0)
      <4>1. shots[p][n] = 0 /\ t.spec.on.once
        BY <1>2, <2>7, <3>2 DEF UttOk, Once
      <4> QED BY <2>5, <2>6, <4>1
    <3> QED BY <1>2, <2>5, <2>8, <2>9, <3>1, <3>2, SameTools DEF UttOk
  <2>11. ASSUME NEW m \in Names, m # n PROVE UttOk(p, m)'
    <3>1. UttOk(p, m)
      BY <1>2 DEF UttInv
    <3> QED BY <2>4, <2>6, <2>8, <2>9, <2>11, <3>1, SameTools DEF UttOk
  <2>12. ASSUME NEW q \in Pipes, NEW m \in Names PROVE UttOk(q, m)'
    <3>1. CASE q = p
      BY <2>10, <2>11, <3>1
    <3>2. CASE q # p
      BY <2>9, <3>2, UttOthers DEF UttInv
    <3> QED BY <3>1, <3>2
  <2> QED BY <1>3, <2>9, <2>12 DEF UttInv
<1> QED BY <1>4, <1>5

\* A conversation that has started is never back where it was before
LEMMA PipesGoOn ==
    ASSUME BaseInv, sessionStep, NEW p \in Pipes, pipe[p].st # "none"
    PROVE  pipe'[p].st # "none"
<1>0. pipe \in [Pipes -> [st : {"none", "running", "ended"}, session : Sessions \cup {None}]]
  BY DEF BaseInv, GateIInv, GateType
<1>1. PICK q \in Pipes : (\E s \in Sessions : BindSession(q, s)) \/ UnbindSession(q)
  BY DEF sessionStep
<1>2. ASSUME NEW s \in Sessions, BindSession(q, s) PROVE pipe'[p].st # "none"
  BY <1>0, <1>2 DEF BindSession
<1>3. CASE UnbindSession(q)
  BY <1>0, <1>3 DEF UnbindSession
<1> QED BY <1>1, <1>2, <1>3

LEMMA UttInductive ==
    ASSUME BaseInv, UttInv, [Next]_vars
    PROVE  UttInv'
<1>1. /\ BaseInv'
      /\ \/ UNCHANGED plugins
         \/ \A p \in Pipes : pipe[p].st = "none" /\ pipe'[p].st = "none"
  BY BaseInductive
<1>2. CASE (PluginNext \/ UNCHANGED pluginVars) /\ UNCHANGED <<reflexVars, uttVars>>
  <2>1. \A p \in Pipes : pipe[p].st # "none" => pipe'[p].st # "none"
    <3>1. sessionStep \/ UNCHANGED pipe
      BY <1>2 DEF PluginNext, load, modelCalls, toolRuns, tokenAges, pluginAsks, pluginExits,
         pluginVars, sessionVars
    <3> QED BY <3>1, PipesGoOn
  <2>2. UNCHANGED <<reflex, timers, uttVars>>
    BY <1>2 DEF reflexVars
  <2> QED BY <1>1, <2>1, <2>2, UttStutter
<1>3. CASE sttResult
  BY <1>3, UttObserve, UttEnds DEF sttResult, loadVars, sessionVars
<1>4. CASE reflexStep
  <2>1. UNCHANGED <<plugins, pipe>>
    BY <1>4 DEF reflexStep, loadVars, sessionVars
  <2>2. ASSUME NEW t \in timers, timerGoesOff(t) \/ settled(t) PROVE UttInv'
    BY <2>1, <2>2, UttTimer, UttSettles
  <2>3. CASE UNCHANGED <<reflex, timers, uttVars>>
    BY <1>1, <2>1, <2>3, UttStutter
  <2> QED BY <1>4, <2>2, <2>3 DEF reflexStep, emit, rememberReflexEmission, dedupLapses, reflexVars
<1> QED BY <1>2, <1>3, <1>4 DEF Next, vars

LEMMA UttInit == ReflexInit => UttInv
<1> SUFFICES ASSUME ReflexInit PROVE UttInv
  OBVIOUS
<1>1. \A p \in Pipes : \A n \in Names : UttOk(p, n)
  BY DEF ReflexInit, NoUtterance, UttOk
<1>2. UttType
  BY DEF ReflexInit, NoUtterance, UttType
<1> QED BY <1>1, <1>2 DEF ReflexInit, UttInv

\* One instruction, one packet (settled, stageLocked, endUtterance): however
\* STT revises a sentence, whichever timers run late and whenever the final
\* comes between, a capturing tool fires at most once per anchor heard in the
\* utterance and a once-per-turn tool at most once, for any tools and phrases.
THEOREM InstructionsCorrect == Spec => []OncePerInstruction
<1> DEFINE Inv == BaseInv /\ UttInv
<1>1. ReflexInit => Inv
  BY BaseInit, UttInit DEF ReflexInit
<1>2. Inv /\ [Next]_vars => Inv'
  BY BaseInductive, UttInductive
<1>3. Inv => OncePerInstruction
  BY DEF UttInv, UttOk, Captures, Once, Fires, OncePerInstruction
<1> QED BY <1>1, <1>2, <1>3, PTL DEF Spec

---------------------------------------------------------------------------
(* What runTool leaves out was sent *)

\* The packets that went out and are not recorded yet, and the one that is
Out(p, k) == {f \in firing : f.pipe = p /\ f.packet = k /\ f.sent}
Recorded(p, k) == k.topic \in Topics /\ alreadySent(p, k)

SentType ==
    /\ credit = [p \in Pipes |-> credit[p]]
    /\ \A p \in Pipes : \A k \in DOMAIN credit[p] : credit[p][k] \in Int
    /\ reflexSent = [p \in Pipes |-> [tp \in Topics |-> reflexSent[p][tp]]]
    /\ \A p \in Pipes : \A tp \in Topics : reflexSent[p][tp] # None =>
         reflexSent[p][tp] = [packet |-> reflexSent[p][tp].packet, old |-> reflexSent[p][tp].old]

FiringOk(f) ==
    /\ f = [pipe |-> f.pipe, packet |-> f.packet, from |-> f.from, id |-> f.id, sent |-> f.sent]
    /\ f.pipe \in Pipes

\* A call that may be left out is one of a live registry, on a known topic
CallOk(c) ==
    call[c] # None => /\ call[c].pipe \in Pipes
                      /\ call[c].tool.host = 0 => call[c].tool.spec.topic \in Topics

\* Every packet that may still be taken for already sent has been paid for
Paid(p, k) ==
    /\ IsFiniteSet(Out(p, k))
    /\ Cardinality(Out(p, k)) + (IF Recorded(p, k) THEN 1 ELSE 0) <= Count(credit[p], k)

SentInv ==
    /\ SentType
    /\ \A f \in firing : FiringOk(f)
    /\ \A c \in Callers : CallOk(c)
    /\ \A p \in Pipes : \A k : Paid(p, k)

LEMMA CountFacts ==
    ASSUME NEW f, NEW k, NEW d \in Int, \A x \in DOMAIN f : f[x] \in Int
    PROVE  /\ \A x : Count(f, x) \in Int
           /\ \A x \in DOMAIN Add(f, k, d) : Add(f, k, d)[x] \in Int
           /\ Count(Add(f, k, d), k) = Count(f, k) + d
           /\ \A x : x # k => Count(Add(f, k, d), x) = Count(f, x)
BY DEF Count, Add

\* The calls, after a step that only removes some or admits one
LEMMA CallsStay ==
    ASSUME SentInv, UNCHANGED call
    PROVE  \A c \in Callers : CallOk(c)'
BY DEF SentInv, CallOk

\* Neither the records nor the packets on their way change
LEMMA SentStutter ==
    ASSUME SentInv, UNCHANGED <<sentVars, firing>>, \A c \in Callers : CallOk(c)'
    PROVE  SentInv'
<1>1. UNCHANGED <<reflexSent, credit, firing>>
  BY DEF sentVars
<1>2. SentType'
  <2>1. credit' = [p \in Pipes |-> credit'[p]]
    BY <1>1 DEF SentInv, SentType
  <2>2. reflexSent' = [p \in Pipes |-> [tp \in Topics |-> reflexSent'[p][tp]]]
    BY <1>1 DEF SentInv, SentType
  <2>3. \A p \in Pipes : \A tp \in Topics : reflexSent'[p][tp] # None =>
         reflexSent'[p][tp] = [packet |-> reflexSent'[p][tp].packet, old |-> reflexSent'[p][tp].old]
    BY <1>1 DEF SentInv, SentType
  <2> QED BY <1>1, <2>1, <2>2, <2>3 DEF SentInv, SentType
<1>3. \A p, k : Out(p, k)' = Out(p, k) /\ (Recorded(p, k)' <=> Recorded(p, k))
  BY <1>1 DEF Out, Recorded, alreadySent
<1>4. \A p \in Pipes : \A k : Paid(p, k)'
  BY <1>1, <1>3 DEF SentInv, Paid
<1> QED BY <1>1, <1>2, <1>4 DEF SentInv, FiringOk

\* The gate admits a call of a registered tool
LEMMA CallsAdmitted ==
    ASSUME BaseInv, SentInv, modelCalls
    PROVE  \A c \in Callers : CallOk(c)'
<1>1. PICK b \in Callers, p \in Pipes, n \in Names, a \in Args,
           t \in (1..Len(asked)) \cup {None} : gateToolCall(b, p, n, a, t)
  BY DEF modelCalls
<1> DEFINE tool == GetTool(n)
<1>2. tool # None /\ tool = plugins[n]
  BY <1>1 DEF gateToolCall, GetTool
<1>3. tool.host = 0 => tool.spec.topic \in Topics
  BY <1>2 DEF BaseInv, KeyInv, KeyOk
<1>4. call' = call \/ \E u : call' = [call EXCEPT ![b] = admitted(p, tool, a, u)]
  BY <1>1 DEF gateToolCall
<1>5. call = [c \in Callers |-> call[c]]
  BY DEF BaseInv, GateIInv, GateType
<1> HIDE DEF tool
<1>6. ASSUME NEW u, call' = [call EXCEPT ![b] = admitted(p, tool, a, u)], NEW c \in Callers
      PROVE  CallOk(c)'
  <2>1. CASE c = b
    <3>1. call'[c] = admitted(p, tool, a, u)
      BY <1>5, <1>6, <2>1
    <3>2. call'[c].pipe = p /\ call'[c].tool = tool
      BY <3>1 DEF admitted
    <3> QED BY <1>3, <3>2 DEF CallOk
  <2>2. CASE c # b
    <3>1. call'[c] = call[c]
      BY <1>5, <1>6, <2>2
    <3> QED BY <3>1 DEF SentInv, CallOk
  <2> QED BY <2>1, <2>2
<1> QED BY <1>4, <1>6, CallsStay

\* A call runs: its packet is left out against the record, which is spent
LEMMA SentRuns ==
    ASSUME BaseInv, SentInv, toolRuns, UNCHANGED firing
    PROVE  SentInv'
<1>1. PICK c \in Callers : call[c] # None /\
           \E e \in Results(call[c].tool, call[c].args) \cup {None} : runTool(c, e)
  BY DEF toolRuns
<1>2. PICK e \in Results(call[c].tool, call[c].args) \cup {None} : runTool(c, e)
  BY <1>1
<1> DEFINE p == call[c].pipe
<1>3. CallOk(c) /\ call = [b \in Callers |-> call[b]]
  BY DEF SentInv, BaseInv, GateIInv, GateType
<1>4. \A b \in Callers : CallOk(b)'
  <2> TAKE b \in Callers
  <2>1. call'[b] = IF b = c THEN None ELSE call[b]
    BY <1>2, <1>3 DEF runTool
  <2>2. CallOk(b)
    BY DEF SentInv
  <2> QED BY <2>1, <2>2 DEF CallOk
<1>5. CASE UNCHANGED sentVars
  BY <1>4, <1>5, SentStutter
<1>6. CASE e # None /\ alreadySent(p, e) /\ suppress(p, e)
           /\ e \in Results(call[c].tool, call[c].args)
  <2>1. p \in Pipes
    BY <1>1, <1>3 DEF CallOk
  <2>2. e.topic \in Topics
    <3>1. CASE call[c].tool.host = 0
      <4>1. e = packet(call[c].tool.spec, call[c].args)
        BY <1>6, <3>1 DEF Results
      <4>2. e.topic = call[c].tool.spec.topic
        BY <4>1 DEF packet
      <4> QED BY <1>1, <1>3, <3>1, <4>2 DEF CallOk
    <3>2. CASE call[c].tool.host # 0
      BY <1>6, <3>2, ToolsAssumption DEF Results
    <3> QED BY <3>1, <3>2
  <2> HIDE DEF p
  <2>3. /\ reflexSent' = [reflexSent EXCEPT ![p][e.topic] = None]
        /\ credit' = [credit EXCEPT ![p] = Add(credit[p], e, -1)]
    BY <1>6 DEF suppress
  <2>4. /\ DOMAIN credit = Pipes /\ DOMAIN reflexSent = Pipes
        /\ \A q \in Pipes : DOMAIN reflexSent[q] = Topics
    BY DEF SentInv, SentType
  <2>5. /\ credit'[p] = Add(credit[p], e, -1) /\ DOMAIN credit' = Pipes
        /\ \A q \in Pipes : q # p => credit'[q] = credit[q]
    BY <2>1, <2>3, <2>4
  <2>6. reflexSent' = [q \in Pipes |-> [tp \in Topics |->
           IF q = p /\ tp = e.topic THEN None ELSE reflexSent[q][tp]]]
    BY <2>1, <2>2, <2>3, <2>4 DEF SentInv, SentType
  <2>7. SentType'
    <3>1. credit' = [q \in Pipes |-> credit'[q]]
      BY <2>3, <2>4
    <3>2. \A q \in Pipes : \A k \in DOMAIN credit'[q] : credit'[q][k] \in Int
      BY <2>1, <2>5, CountFacts DEF SentInv, SentType
    <3>3. reflexSent' = [q \in Pipes |-> [tp \in Topics |-> reflexSent'[q][tp]]]
      BY <2>6
    <3>4. \A q \in Pipes : \A tp \in Topics : reflexSent'[q][tp] # None =>
             reflexSent'[q][tp] = reflexSent[q][tp]
      BY <2>6
    <3>5. \A q \in Pipes : \A tp \in Topics : reflexSent'[q][tp] # None =>
             reflexSent'[q][tp] = [packet |-> reflexSent'[q][tp].packet,
                                   old |-> reflexSent'[q][tp].old]
      BY <3>4 DEF SentInv, SentType
    <3> QED BY <3>1, <3>2, <3>3, <3>5 DEF SentType
  <2>8. ASSUME NEW q \in Pipes, NEW k PROVE Paid(q, k)'
    <3>1. Out(q, k)' = Out(q, k)
      BY DEF Out
    <3>2. Paid(q, k) /\ Cardinality(Out(q, k)) \in Nat
      BY FS_CardinalityType DEF SentInv, Paid
    <3>3. Recorded(q, k)' => Recorded(q, k) /\ ~(q = p /\ k = e)
      BY <2>6 DEF Recorded, alreadySent
    <3>4. CASE q = p /\ k = e
      <4>1. Recorded(q, k)
        BY <1>6, <2>2, <3>4 DEF Recorded, p
      <4>2. Count(credit'[q], k) = Count(credit[q], k) - 1 /\ Count(credit[q], k) \in Int
        <5>1. /\ -1 \in Int /\ credit'[q] = Add(credit[q], k, -1)
              /\ \A x \in DOMAIN credit[q] : credit[q][x] \in Int
          BY <2>1, <2>5, <3>4 DEF SentInv, SentType
        <5> QED BY <5>1, CountFacts
      <4> QED BY <3>1, <3>2, <3>3, <3>4, <4>1, <4>2 DEF Paid
    <3>5. CASE ~(q = p /\ k = e)
      <4>1. Count(credit'[q], k) = Count(credit[q], k) /\ Count(credit[q], k) \in Int
        <5>1. \A x \in DOMAIN credit[q] : credit[q][x] \in Int
          BY DEF SentInv, SentType
        <5>2. CASE q = p
          <6>1. -1 \in Int /\ credit'[q] = Add(credit[q], e, -1) /\ k # e
            BY <2>5, <3>5, <5>2
          <6> QED BY <5>1, <6>1, CountFacts
        <5>3. CASE q # p
          BY <2>5, <5>1, <5>3 DEF Count
        <5> QED BY <5>2, <5>3
      <4> QED BY <3>1, <3>2, <3>3, <4>1 DEF Paid
    <3> QED BY <3>4, <3>5
  <2>9. \A f \in firing' : FiringOk(f)
    BY DEF SentInv
  <2> QED BY <1>4, <2>7, <2>8, <2>9 DEF SentInv, FiringOk
<1> QED BY <1>2, <1>5, <1>6 DEF runTool

\* More packets are on their way; none of them has been sent
LEMMA SentFires ==
    ASSUME SentInv, UNCHANGED <<sentVars, call>>, NEW New, firing' = firing \cup New,
           \A f \in New : FiringOk(f) /\ ~f.sent
    PROVE  SentInv'
<1>1. UNCHANGED <<reflexSent, credit>>
  BY DEF sentVars
<1>2. SentType'
  <2>1. credit' = [p \in Pipes |-> credit'[p]]
    BY <1>1 DEF SentInv, SentType
  <2>2. reflexSent' = [p \in Pipes |-> [tp \in Topics |-> reflexSent'[p][tp]]]
    BY <1>1 DEF SentInv, SentType
  <2>3. \A p \in Pipes : \A tp \in Topics : reflexSent'[p][tp] # None =>
         reflexSent'[p][tp] = [packet |-> reflexSent'[p][tp].packet, old |-> reflexSent'[p][tp].old]
    BY <1>1 DEF SentInv, SentType
  <2> QED BY <1>1, <2>1, <2>2, <2>3 DEF SentInv, SentType
<1>3. \A p, k : Out(p, k)' = Out(p, k)
  BY DEF Out
<1>4. \A p, k : Recorded(p, k)' <=> Recorded(p, k)
  BY <1>1 DEF Recorded, alreadySent
<1>5. \A p \in Pipes : \A k : Paid(p, k)'
  BY <1>1, <1>3, <1>4 DEF SentInv, Paid
<1>6. \A f \in firing' : FiringOk(f)'
  BY DEF SentInv, FiringOk
<1> QED BY <1>2, <1>5, <1>6, CallsStay DEF SentInv

\* emit: a packet that goes out is one more on the credit
LEMMA SentEmits ==
    ASSUME SentInv, NEW f \in firing, NEW ok \in BOOLEAN, emit(f, ok), UNCHANGED call
    PROVE  SentInv'
<1> DEFINE g == [f EXCEPT !.sent = TRUE]
           p == f.pipe
           k == f.packet
<1>0. FiringOk(f) /\ p \in Pipes /\ ~f.sent
  BY DEF SentInv, FiringOk, emit
<1>1. /\ firing' = (firing \ {f}) \cup (IF ok THEN {g} ELSE {})
      /\ credit' = [credit EXCEPT ![p] = IF ok THEN Add(credit[p], k, 1) ELSE credit[p]]
      /\ UNCHANGED reflexSent
  BY DEF emit
<1>2. g = [pipe |-> p, packet |-> k, from |-> f.from, id |-> f.id, sent |-> TRUE]
  <2>1. ASSUME NEW a, NEW b, NEW c, NEW d, NEW e, NEW x,
               f = [pipe |-> a, packet |-> b, from |-> c, id |-> d, sent |-> e]
        PROVE  [f EXCEPT !.sent = x] = [pipe |-> a, packet |-> b, from |-> c, id |-> d, sent |-> x]
    BY <2>1
  <2> QED BY <1>0, <2>1 DEF FiringOk
<1>3. FiringOk(g) /\ g.pipe = p /\ g.packet = k /\ g.sent
  BY <1>0, <1>2 DEF FiringOk
<1> HIDE DEF g, p, k
<1>4. \A h \in firing' : FiringOk(h)'
  BY <1>1, <1>3 DEF SentInv, FiringOk
<1>5. \A q, x : Recorded(q, x)' <=> Recorded(q, x)
  BY <1>1 DEF Recorded, alreadySent
<1>6. /\ DOMAIN credit' = Pipes
      /\ credit'[p] = IF ok THEN Add(credit[p], k, 1) ELSE credit[p]
      /\ \A q \in Pipes : q # p => credit'[q] = credit[q]
  BY <1>0, <1>1 DEF SentInv, SentType
<1>7. \A q \in Pipes : \A x \in DOMAIN credit[q] : credit[q][x] \in Int
  BY DEF SentInv, SentType
<1>8. SentType'
  <2>1. credit' = [q \in Pipes |-> credit'[q]]
    BY <1>1 DEF SentInv, SentType
  <2>2. \A q \in Pipes : \A x \in DOMAIN credit'[q] : credit'[q][x] \in Int
    <3> TAKE q \in Pipes
    <3>1. 1 \in Int /\ \A x \in DOMAIN credit[q] : credit[q][x] \in Int
      BY <1>7
    <3>2. \A x \in DOMAIN Add(credit[q], k, 1) : Add(credit[q], k, 1)[x] \in Int
      BY <3>1, CountFacts
    <3>3. credit'[q] = credit[q] \/ credit'[q] = Add(credit[q], k, 1)
      BY <1>6
    <3> QED BY <3>1, <3>2, <3>3
  <2>3. reflexSent' = [q \in Pipes |-> [tp \in Topics |-> reflexSent'[q][tp]]]
    BY <1>1 DEF SentInv, SentType
  <2>4. \A q \in Pipes : \A tp \in Topics : reflexSent'[q][tp] # None =>
         reflexSent'[q][tp] = [packet |-> reflexSent'[q][tp].packet, old |-> reflexSent'[q][tp].old]
    BY <1>1 DEF SentInv, SentType
  <2> QED BY <2>1, <2>2, <2>3, <2>4 DEF SentType
<1>9. ASSUME NEW q \in Pipes, NEW x PROVE Paid(q, x)'
  <2>0. /\ Paid(q, x) /\ Cardinality(Out(q, x)) \in Nat
        /\ Count(credit[q], x) \in Int
    <3>1. Paid(q, x) /\ Cardinality(Out(q, x)) \in Nat
      BY FS_CardinalityType DEF SentInv, Paid
    <3>2. Count(credit[q], x) \in Int
      BY <1>7 DEF Count
    <3> QED BY <3>1, <3>2
  <2>1. CASE ok /\ q = p /\ x = k
    <3>1. Out(q, x)' = Out(q, x) \cup {g}
      BY <1>0, <1>1, <1>3, <2>1 DEF Out
    <3>2. /\ IsFiniteSet(Out(q, x)')
          /\ Cardinality(Out(q, x)') <= Cardinality(Out(q, x)) + 1
          /\ Cardinality(Out(q, x)') \in Nat
      <4>1. CASE g \in Out(q, x)
        <5>1. Out(q, x)' = Out(q, x)
          BY <3>1, <4>1
        <5> QED BY <2>0, <5>1 DEF Paid
      <4>2. CASE g \notin Out(q, x)
        BY <2>0, <3>1, <4>2, FS_AddElement DEF Paid
      <4> QED BY <4>1, <4>2
    <3>3. Count(credit'[q], x) = Count(credit[q], x) + 1
      <4>1. 1 \in Int /\ credit'[q] = Add(credit[q], x, 1)
            /\ \A y \in DOMAIN credit[q] : credit[q][y] \in Int
        BY <1>6, <1>7, <2>1
      <4> QED BY <4>1, CountFacts
    <3> QED BY <1>5, <2>0, <3>2, <3>3 DEF Paid
  <2>2. CASE ~(ok /\ q = p /\ x = k)
    <3>1. Out(q, x)' = Out(q, x)
      BY <1>0, <1>1, <1>3, <2>2 DEF Out
    <3>2. Count(credit'[q], x) = Count(credit[q], x)
      <4>1. CASE ok /\ q = p
        <5>1. 1 \in Int /\ credit'[q] = Add(credit[q], k, 1) /\ x # k
              /\ \A y \in DOMAIN credit[q] : credit[q][y] \in Int
          BY <1>6, <1>7, <2>2, <4>1
        <5> QED BY <5>1, CountFacts
      <4>2. CASE ~(ok /\ q = p)
        BY <1>6, <4>2
      <4> QED BY <4>1, <4>2
    <3> QED BY <1>5, <2>0, <3>1, <3>2 DEF Paid
  <2> QED BY <2>1, <2>2
<1> QED BY <1>4, <1>8, <1>9, CallsStay DEF SentInv

\* The record takes over from the packet it is of
LEMMA SentRecords ==
    ASSUME SentInv, NEW f \in firing, rememberReflexEmission(f), UNCHANGED call
    PROVE  SentInv'
<1> DEFINE p == f.pipe
           k == f.packet
           r == [packet |-> k, old |-> FALSE]
<1>0. p \in Pipes /\ f.sent
  BY DEF SentInv, FiringOk, rememberReflexEmission
<1>1. /\ firing' = firing \ {f} /\ UNCHANGED credit
      /\ reflexSent' = [reflexSent EXCEPT ![p] = [tp \in Topics |->
            IF tp = k.topic THEN r
            ELSE IF @[tp] # None /\ @[tp].old THEN None ELSE @[tp]]]
  BY DEF rememberReflexEmission
<1>2. r.packet = k /\ r = [packet |-> r.packet, old |-> r.old]
  OBVIOUS
<1> HIDE DEF p, k, r
<1>3. /\ reflexSent' = [q \in Pipes |-> reflexSent'[q]]
      /\ reflexSent'[p] = [tp \in Topics |->
            IF tp = k.topic THEN r
            ELSE IF reflexSent[p][tp] # None /\ reflexSent[p][tp].old THEN None
            ELSE reflexSent[p][tp]]
      /\ \A q \in Pipes : q # p => reflexSent'[q] = reflexSent[q]
  BY <1>0, <1>1 DEF SentInv, SentType
<1>4. \A q \in Pipes : \A tp \in Topics :
         \/ q = p /\ tp = k.topic /\ reflexSent'[q][tp] = r
         \/ ~(q = p /\ tp = k.topic) /\ reflexSent'[q][tp] \in {None, reflexSent[q][tp]}
  BY <1>3
<1>5. SentType'
  <2>1. credit' = [q \in Pipes |-> credit'[q]]
    BY <1>1 DEF SentInv, SentType
  <2>2. \A q \in Pipes : \A x \in DOMAIN credit'[q] : credit'[q][x] \in Int
    BY <1>1 DEF SentInv, SentType
  <2>3. \A q \in Pipes : reflexSent'[q] = [tp \in Topics |-> reflexSent'[q][tp]]
    <3> TAKE q \in Pipes
    <3>1. CASE q = p
      BY <1>3, <3>1
    <3>2. CASE q # p
      BY <1>3, <3>2 DEF SentInv, SentType
    <3> QED BY <3>1, <3>2
  <2>4. reflexSent' = [q \in Pipes |-> [tp \in Topics |-> reflexSent'[q][tp]]]
    BY <1>3, <2>3
  <2>5. \A q \in Pipes : \A tp \in Topics : reflexSent'[q][tp] # None =>
         reflexSent'[q][tp] = [packet |-> reflexSent'[q][tp].packet, old |-> reflexSent'[q][tp].old]
    BY <1>2, <1>4 DEF SentInv, SentType
  <2> QED BY <2>1, <2>2, <2>4, <2>5 DEF SentType
<1>6. ASSUME NEW q \in Pipes, NEW x PROVE Paid(q, x)'
  <2>0. /\ Paid(q, x) /\ Cardinality(Out(q, x)) \in Nat /\ Count(credit[q], x) \in Int
    <3>1. Paid(q, x) /\ Cardinality(Out(q, x)) \in Nat
      BY FS_CardinalityType DEF SentInv, Paid
    <3>2. Count(credit[q], x) \in Int
      BY DEF SentInv, SentType, Count
    <3> QED BY <3>1, <3>2
  <2>1. CASE q = p /\ x = k
    <3>1. f \in Out(q, x) /\ Out(q, x)' = Out(q, x) \ {f}
      BY <1>0, <1>1, <2>1 DEF Out, p, k
    <3>2. IsFiniteSet(Out(q, x)') /\ Cardinality(Out(q, x)') = Cardinality(Out(q, x)) - 1
      BY <2>0, <3>1, FS_RemoveElement DEF Paid
    <3> QED BY <1>1, <2>0, <3>2 DEF Paid
  <2>2. CASE ~(q = p /\ x = k)
    <3>1. Out(q, x)' = Out(q, x)
      BY <1>1, <2>2 DEF Out, p, k
    <3>2. Recorded(q, x)' => Recorded(q, x)
      <4> SUFFICES ASSUME Recorded(q, x)' PROVE Recorded(q, x)
        OBVIOUS
      <4>1. /\ x.topic \in Topics /\ reflexSent'[q][x.topic] # None
            /\ reflexSent'[q][x.topic].packet = x /\ ~reflexSent'[q][x.topic].old
        BY DEF Recorded, alreadySent
      <4>2. reflexSent'[q][x.topic] = reflexSent[q][x.topic]
        BY <1>2, <1>4, <2>2, <4>1
      <4> QED BY <4>1, <4>2 DEF Recorded, alreadySent
    <3> QED BY <1>1, <2>0, <3>1, <3>2 DEF Paid
  <2> QED BY <2>1, <2>2
<1>7. \A h \in firing' : FiringOk(h)'
  BY <1>1 DEF SentInv, FiringOk
<1> QED BY <1>5, <1>6, <1>7, CallsStay DEF SentInv

\* reflexDedupTTL passes: nothing sent before it is taken for sent any more
LEMMA SentLapses ==
    ASSUME SentInv, NEW p \in Pipes, dedupLapses(p), UNCHANGED call
    PROVE  SentInv'
<1>1. /\ UNCHANGED firing /\ \A f \in firing : f.pipe = p => ~f.sent
      /\ reflexSent' = [reflexSent EXCEPT ![p] = [tp \in Topics |->
            IF @[tp] = None THEN None ELSE [@[tp] EXCEPT !.old = TRUE]]]
      /\ credit' = [credit EXCEPT ![p] = [k \in DOMAIN credit[p] |-> 0]]
  BY DEF dedupLapses, reflexVars
<1> DEFINE R(tp) == IF reflexSent[p][tp] = None THEN None ELSE [reflexSent[p][tp] EXCEPT !.old = TRUE]
<1>2. /\ reflexSent' = [q \in Pipes |-> reflexSent'[q]]
      /\ reflexSent'[p] = [tp \in Topics |-> R(tp)]
      /\ \A q \in Pipes : q # p => reflexSent'[q] = reflexSent[q]
  BY <1>1 DEF SentInv, SentType
<1>3. \A tp \in Topics : R(tp) = None \/ R(tp) = [packet |-> reflexSent[p][tp].packet, old |-> TRUE]
  <2>1. ASSUME NEW a, NEW b, NEW r, NEW x, r = [packet |-> a, old |-> b]
        PROVE  [r EXCEPT !.old = x] = [packet |-> a, old |-> x]
    BY <2>1
  <2> TAKE tp \in Topics
  <2>2. reflexSent[p][tp] # None => reflexSent[p][tp] =
          [packet |-> reflexSent[p][tp].packet, old |-> reflexSent[p][tp].old]
    BY DEF SentInv, SentType
  <2> QED BY <2>1, <2>2
<1>4. \A tp \in Topics : R(tp) # None =>
         R(tp).old /\ R(tp) = [packet |-> R(tp).packet, old |-> R(tp).old]
  BY <1>3
<1> HIDE DEF R
<1>5. /\ credit' = [q \in Pipes |-> credit'[q]]
      /\ credit'[p] = [k \in DOMAIN credit[p] |-> 0]
      /\ \A q \in Pipes : q # p => credit'[q] = credit[q]
  BY <1>1 DEF SentInv, SentType
<1>6. SentType'
  <2>2. \A q \in Pipes : \A x \in DOMAIN credit'[q] : credit'[q][x] \in Int
    <3> TAKE q \in Pipes
    <3>1. CASE q = p
      BY <1>5, <3>1
    <3>2. CASE q # p
      BY <1>5, <3>2 DEF SentInv, SentType
    <3> QED BY <3>1, <3>2
  <2>3. \A q \in Pipes : reflexSent'[q] = [tp \in Topics |-> reflexSent'[q][tp]]
    <3> TAKE q \in Pipes
    <3>1. CASE q = p
      BY <1>2, <3>1
    <3>2. CASE q # p
      BY <1>2, <3>2 DEF SentInv, SentType
    <3> QED BY <3>1, <3>2
  <2>4. reflexSent' = [q \in Pipes |-> [tp \in Topics |-> reflexSent'[q][tp]]]
    BY <1>2, <2>3
  <2>5. \A q \in Pipes : \A tp \in Topics : reflexSent'[q][tp] # None =>
         reflexSent'[q][tp] = [packet |-> reflexSent'[q][tp].packet, old |-> reflexSent'[q][tp].old]
    <3> TAKE q \in Pipes
    <3> TAKE tp \in Topics
    <3>1. CASE q = p
      BY <1>2, <1>4, <3>1
    <3>2. CASE q # p
      BY <1>2, <3>2 DEF SentInv, SentType
    <3> QED BY <3>1, <3>2
  <2> QED BY <1>5, <2>2, <2>4, <2>5 DEF SentType
<1>7. ASSUME NEW q \in Pipes, NEW x PROVE Paid(q, x)'
  <2>0. Paid(q, x) /\ Out(q, x)' = Out(q, x)
    BY <1>1 DEF SentInv, Out
  <2>1. CASE q = p
    <3>1. Out(q, x) = {}
      BY <1>1, <2>1 DEF Out
    <3>2. ~Recorded(q, x)'
      BY <1>2, <1>4, <2>1 DEF Recorded, alreadySent
    <3>3. Count(credit'[q], x) = 0
      BY <1>5, <2>1 DEF Count
    <3> QED BY <2>0, <3>1, <3>2, <3>3, FS_EmptySet DEF Paid
  <2>2. CASE q # p
    <3>1. credit'[q] = credit[q] /\ (Recorded(q, x)' <=> Recorded(q, x))
      BY <1>2, <1>5, <2>2 DEF Recorded, alreadySent
    <3> QED BY <2>0, <3>1 DEF Paid
  <2> QED BY <2>1, <2>2
<1>8. \A f \in firing' : FiringOk(f)'
  BY <1>1 DEF SentInv, FiringOk
<1> QED BY <1>6, <1>7, <1>8, CallsStay DEF SentInv

LEMMA SentInductive ==
    ASSUME BaseInv, SentInv, UttInv, [Next]_vars
    PROVE  SentInv'
<1>1. CASE PluginNext /\ UNCHANGED <<reflexVars, uttVars>>
  <2>0. UNCHANGED firing
    BY <1>1 DEF reflexVars
  <2>1. CASE toolRuns
    BY <2>0, <2>1, SentRuns
  <2>2. CASE modelCalls
    BY <2>0, <2>2, CallsAdmitted, SentStutter DEF modelCalls
  <2>3. CASE load \/ sessionStep \/ tokenAges \/ pluginAsks \/ pluginExits
    <3>1. UNCHANGED <<sentVars, call>>
      BY <2>3 DEF load, sessionStep, tokenAges, tokenLapses, pluginAsks, CallTool, pluginExits,
         gateVars
    <3> QED BY <2>0, <3>1, CallsStay, SentStutter
  <2> QED BY <1>1, <2>1, <2>2, <2>3 DEF PluginNext
<1>2. CASE sttResult
  <2>1. UNCHANGED call
    BY <1>2 DEF sttResult, gateVars
  <2>2. ASSUME NEW p \in Pipes, NEW text \in Texts, observe(p, text) PROVE SentInv'
    <3> DEFINE New == {Hit(p, s, NoArgs, "stt", inputs) : s \in hits(p, text)}
    <3>1. firing' = firing \cup New /\ UNCHANGED sentVars
      BY <2>2 DEF observe
    <3>2. \A f \in New : FiringOk(f) /\ ~f.sent
      BY <2>2 DEF Hit, FiringOk
    <3> HIDE DEF New
    <3> QED BY <2>1, <3>1, <3>2, SentFires
  <2>3. ASSUME NEW p \in Pipes, endUtterance(p) PROVE SentInv'
    BY <2>1, <2>3, CallsStay, SentStutter DEF endUtterance
  <2> QED BY <1>2, <2>2, <2>3 DEF sttResult
<1>3. CASE reflexStep
  <2>1. UNCHANGED call
    BY <1>3 DEF reflexStep, gateVars
  <2>2. ASSUME NEW t \in timers, timerGoesOff(t) PROVE SentInv'
    BY <2>1, <2>2, CallsStay, SentStutter DEF timerGoesOff
  <2>3. ASSUME NEW t \in timers, settled(t) PROVE SentInv'
    <3> DEFINE h == Hit(t.pipe, t.spec, [NoArgs EXCEPT !.label = t.cap.text], "timer", t.cap.id)
    <3>1. firing' = firing \/ firing' = firing \cup {h}
      BY <2>3 DEF settled
    <3>2. UNCHANGED sentVars
      BY <2>3 DEF settled
    <3>3. FiringOk(h) /\ ~h.sent
      <4>1. t.pipe \in Pipes
        BY <2>3 DEF UttInv, TimerOk
      <4> QED BY <4>1 DEF Hit, FiringOk
    <3> HIDE DEF h
    <3> QED BY <2>1, <3>1, <3>2, <3>3, CallsStay, SentStutter, SentFires
  <2>4. ASSUME NEW f \in firing, (\E ok \in BOOLEAN : emit(f, ok)) \/ rememberReflexEmission(f)
        PROVE  SentInv'
    BY <2>1, <2>4, SentEmits, SentRecords
  <2>5. ASSUME NEW p \in Pipes, dedupLapses(p) PROVE SentInv'
    BY <2>1, <2>5, SentLapses
  <2> QED BY <1>3, <2>2, <2>3, <2>4, <2>5 DEF reflexStep
<1>4. CASE UNCHANGED vars
  <2>1. UNCHANGED <<sentVars, firing, call>>
    BY <1>4 DEF vars, pluginVars, gateVars, reflexVars
  <2> QED BY <2>1, CallsStay, SentStutter
<1> QED BY <1>1, <1>2, <1>3, <1>4 DEF Next

\* runTool leaves a packet out only when it is on the device (alreadySent,
\* rememberReflexEmission): whatever the data channel refuses, whenever a
\* record lapses or is overwritten, and however firings and calls interleave,
\* each packet that is left out was sent by a firing of its own within
\* reflexDedupTTL, for any tools and topics.
THEOREM SuppressionCorrect == Spec => []NothingSwallowed
<1> DEFINE Inv == BaseInv /\ UttInv /\ SentInv
<1>1. ReflexInit => Inv
  <2> SUFFICES ASSUME ReflexInit PROVE Inv
    OBVIOUS
  <2>1. BaseInv /\ UttInv
    BY BaseInit, UttInit DEF ReflexInit
  <2>2. SentType /\ \A c \in Callers : CallOk(c)
    BY DEF ReflexInit, Init, SentType, CallOk
  <2>3. ASSUME NEW p \in Pipes, NEW k PROVE Paid(p, k)
    <3>1. Out(p, k) = {} /\ ~Recorded(p, k) /\ Count(credit[p], k) = 0
      BY DEF ReflexInit, Init, Out, Recorded, alreadySent, Count
    <3> QED BY <3>1, FS_EmptySet DEF Paid
  <2> QED BY <2>1, <2>2, <2>3 DEF SentInv, ReflexInit
<1>2. Inv /\ [Next]_vars => Inv'
  BY BaseInductive, UttInductive, SentInductive
<1>3. Inv => NothingSwallowed
  <2> SUFFICES ASSUME Inv, NEW p \in Pipes, NEW k \in DOMAIN credit[p] PROVE credit[p][k] >= 0
    BY DEF NothingSwallowed
  <2>1. credit[p][k] \in Int /\ Count(credit[p], k) = credit[p][k]
    BY DEF SentInv, SentType, Count
  <2>2. Cardinality(Out(p, k)) \in Nat /\ Paid(p, k)
    BY FS_CardinalityType DEF SentInv, Paid
  <2> QED BY <2>1, <2>2 DEF Paid
<1> QED BY <1>1, <1>2, <1>3, PTL DEF Spec
==============================================================================
