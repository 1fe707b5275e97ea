---------------------- MODULE ExternalPluginProofs ----------------------
(***************************************************************************)
(* Proofs about ExternalPlugin, for any number of launches, requests and   *)
(* restart attempts, whatever the plugin process does.                     *)
(***************************************************************************)
EXTENDS ExternalPlugin, TLAPS

\* Every variable keeps its type; a read loop that delivers has a call, a Start
\* past its launch and a Stop past its fetch have a process.
LEMMA TypeInductive == TypeOK /\ [Next]_vars => TypeOK'
<1> SUFFICES ASSUME TypeOK, [Next]_vars PROVE TypeOK'
  OBVIOUS
<1> USE PluginAssumption DEF None, Launches, Requests, Calls, Loader, Hosts, Closer,
    Stoppers, Ended
<1>1. ASSUME NEW c \in Calls, beginCall(c) PROVE TypeOK'
  BY <1>1 DEF TypeOK, beginCall, flagVars, procVars, pipeVars, readVars, pendVars,
      callVars, hostVars, stopVars
<1>2. ASSUME NEW c \in Calls, callStep(c) PROVE TypeOK'
  <2>1. CASE registerCall(c)
    BY <2>1 DEF TypeOK, registerCall, flagVars, procVars, pipeVars, readVars,
        pendVars, callVars, hostVars, stopVars
  <2>2. CASE writeCall(c)
    BY <2>2 DEF TypeOK, writeCall, flagVars, procVars, readVars, pendVars, hostVars,
        stopVars
  <2>6. CASE writeFails(c)
    BY <2>6 DEF TypeOK, writeFails, flagVars, procVars, readVars, pendVars, hostVars,
        stopVars
  <2>3. CASE receiveReply(c)
    <3>1. got' \in [Launches -> {"nothing", "result", "error"}]
      BY <2>3 DEF TypeOK, receiveReply, ResultOf
    <3> QED BY <2>3, <3>1 DEF TypeOK, receiveReply, flagVars, procVars, pipeVars,
        readVars, pendVars, hostVars, stopVars
  <2>4. CASE callTimesOut(c)
    BY <2>4 DEF TypeOK, callTimesOut, flagVars, procVars, pipeVars, readVars,
        pendVars, callVars, hostVars, stopVars
  <2>5. CASE leaveCall(c)
    BY <2>5 DEF TypeOK, leaveCall, flagVars, procVars, pipeVars, readVars, pendVars,
        callVars, hostVars, stopVars
  <2> QED BY <1>2, <2>1, <2>2, <2>3, <2>4, <2>5, <2>6 DEF callStep
<1>3. ASSUME NEW i \in Launches, readStep(i) PROVE TypeOK'
  <2>1. ASSUME NEW c \in Calls, readReply(i, c) PROVE TypeOK'
    <3>1. CASE c \in pending
      <4>1. stdout' \subseteq Launches \X Calls
        BY <2>1 DEF TypeOK, readReply
      <4>2. /\ reader' = [reader EXCEPT ![i] = "deliver"]
            /\ target' = [target EXCEPT ![i] = c]
        BY <2>1, <3>1 DEF readReply
      <4>3. /\ target' \in [Launches -> Calls \cup {None}]
            /\ \A j \in Launches : reader'[j] = "deliver" => target'[j] \in Calls
        BY <4>2 DEF TypeOK
      <4> QED BY <2>1, <4>1, <4>2, <4>3 DEF TypeOK, readReply, flagVars, procVars,
          pendVars, callVars, hostVars, stopVars
    <3>2. CASE c \notin pending
      BY <2>1, <3>2 DEF TypeOK, readReply, flagVars, procVars, readVars, pendVars,
          callVars, hostVars, stopVars
    <3> QED BY <3>1, <3>2
  <2>2. ASSUME NEW c \in Calls, failWaiter(i, c) PROVE TypeOK'
    BY <2>2 DEF TypeOK, failWaiter, flagVars, procVars, pipeVars, readVars, pendVars,
        callVars, hostVars, stopVars
  <2>3. CASE deliverReply(i)
    <3>1. /\ reader' = [reader EXCEPT ![i] = "scan"]
          /\ target' = [target EXCEPT ![i] = None]
          /\ reply' = [reply EXCEPT ![target[i]] = "answer"]
          /\ reader[i] = "deliver"
      BY <2>3 DEF deliverReply
    <3>2. /\ reader' \in [Launches -> {"none", "scan", "deliver", "eof", "failing",
                                        "decide", "done"}]
          /\ target' \in [Launches -> Calls \cup {None}]
          /\ \A j \in Launches : reader'[j] = "deliver" => target'[j] \in Calls
      BY <3>1 DEF TypeOK
    <3>3. reply' \in [Calls -> {"empty", "answer", "exited"}]
      BY <3>1 DEF TypeOK
    <3> QED BY <2>3, <3>2, <3>3 DEF TypeOK, deliverReply, flagVars, procVars, pipeVars,
        callVars, hostVars, stopVars
  <2>4. CASE readEOF(i)
    BY <2>4 DEF TypeOK, readEOF, flagVars, procVars, pipeVars, readVars, pendVars,
        callVars, hostVars, stopVars
  <2>5. CASE failWaiters(i)
    BY <2>5 DEF TypeOK, failWaiters, flagVars, procVars, pipeVars, readVars, pendVars,
        callVars, hostVars, stopVars
  <2>6. CASE waitersFailed(i)
    BY <2>6 DEF TypeOK, waitersFailed, flagVars, procVars, pipeVars, readVars,
        pendVars, callVars, hostVars, stopVars
  <2>7. CASE decideRestart(i)
    BY <2>7 DEF TypeOK, decideRestart, flagVars, procVars, pipeVars, readVars,
        pendVars, callVars, hostVars, stopVars
  <2> QED BY <1>3, <2>1, <2>2, <2>3, <2>4, <2>5, <2>6, <2>7 DEF readStep
<1>4. ASSUME NEW i \in Launches, processStep(i) PROVE TypeOK'
  <2>1. CASE processDies(i)
    BY <2>1 DEF TypeOK, processDies, processGone, flagVars, procVars, pipeVars,
        readVars, pendVars, callVars, hostVars, stopVars
  <2>2. ASSUME NEW c \in Calls, answer(i, c) PROVE TypeOK'
    BY <2>2 DEF TypeOK, answer, flagVars, procVars, pipeVars, readVars, pendVars,
        callVars, hostVars, stopVars
  <2>3. ASSUME NEW c \in Calls, takesRequest(i, c) PROVE TypeOK'
    <3>1. <<i, c>> \in Launches \X Calls
      OBVIOUS
    <3>2. sent' \subseteq Launches \X Calls
      BY <2>3, <3>1 DEF TypeOK, takesRequest
    <3> QED BY <2>3, <3>2 DEF TypeOK, takesRequest, flagVars, procVars, readVars,
        pendVars, hostVars, stopVars
  <2> QED BY <1>4, <2>1, <2>2, <2>3 DEF processStep
<1>5. ASSUME NEW h \in Hosts, hostStep(h) PROVE TypeOK'
  <2>1. CASE restartChecks(h)
    BY <2>1 DEF TypeOK, restartChecks, hostMoves, hostOnly, flagVars, procVars,
        pipeVars, readVars, pendVars, callVars, hostVars, stopVars
  <2>2. CASE backoffEnds(h)
    BY <2>2 DEF TypeOK, backoffEnds, hostMoves, hostOnly, flagVars, procVars,
        pipeVars, readVars, pendVars, callVars, hostVars, stopVars
  <2>3. CASE clearStopping(h)
    BY <2>3 DEF TypeOK, clearStopping, hostMoves, flagVars, procVars, pipeVars,
        readVars, pendVars, callVars, hostVars, stopVars
  <2>4. CASE launch(h)
    <3>1. /\ launched' \in Launches /\ launched' \in 0 .. MaxLaunch
          /\ alive' \subseteq 1 .. launched'
      BY <2>4 DEF TypeOK, launch
    <3>2. /\ hostProc' \in [Hosts -> Launches \cup {None}]
          /\ \A g \in Hosts : hostAt'[g] \in {"install", "open", "run", "init"} =>
                hostProc'[g] \in Launches
      BY <2>4, <3>1 DEF TypeOK, launch, hostMoves
    <3> QED BY <2>4, <3>1, <3>2 DEF TypeOK, launch, hostMoves, flagVars, procVars,
        pipeVars, readVars, pendVars, callVars, stopVars
  <2>5. CASE launchFails(h)
    <3>1. attempt' \in [Hosts -> 1 .. Attempts]
      BY <2>5 DEF TypeOK, launchFails, startFailed
    <3> QED BY <2>5, <3>1 DEF TypeOK, launchFails, hostMoves, hostOnly, startFailed,
        flagVars, procVars, pipeVars, readVars, pendVars, callVars, stopVars
  <2>6. CASE installCmd(h)
    BY <2>6 DEF TypeOK, installCmd, hostMoves, flagVars, procVars, pipeVars, readVars,
        pendVars, callVars, hostVars, stopVars
  <2>7. CASE openStdin(h)
    BY <2>7 DEF TypeOK, openStdin, hostMoves, flagVars, procVars, pipeVars, readVars,
        pendVars, callVars, hostVars, stopVars
  <2>8. CASE setRunning(h)
    BY <2>8 DEF TypeOK, setRunning, hostMoves, flagVars, procVars, pipeVars, readVars,
        pendVars, callVars, hostVars, stopVars
  <2>9. CASE initialized(h)
    BY <2>9 DEF TypeOK, initialized, hostMoves, hostOnly, flagVars, procVars,
        pipeVars, readVars, pendVars, callVars, hostVars, stopVars
  <2>10. CASE initFails(h)
    BY <2>10 DEF TypeOK, initFails, hostMoves, hostOnly, flagVars, procVars, pipeVars,
        readVars, pendVars, callVars, hostVars, stopVars
  <2>11. CASE initStopped(h)
    <3>1. attempt' \in [Hosts -> 1 .. Attempts]
      BY <2>11 DEF TypeOK, initStopped, startFailed
    <3> QED BY <2>11, <3>1 DEF TypeOK, initStopped, hostMoves, hostOnly, startFailed,
        flagVars, procVars, pipeVars, readVars, pendVars, callVars, stopVars
  <2>12. CASE confirm(h)
    BY <2>12 DEF TypeOK, confirm, hostMoves, hostOnly, flagVars, procVars, pipeVars,
        readVars, pendVars, callVars, hostVars, stopVars
  <2>13. CASE restartStopped(h)
    BY <2>13 DEF TypeOK, restartStopped, hostMoves, hostOnly, flagVars, procVars,
        pipeVars, readVars, pendVars, callVars, hostVars, stopVars
  <2> QED BY <1>5, <2>1, <2>2, <2>3, <2>4, <2>5, <2>6, <2>7, <2>8, <2>9, <2>10, <2>11,
      <2>12, <2>13 DEF hostStep
<1>6. ASSUME NEW s \in Stoppers, stopStep(s) PROVE TypeOK'
  <2>1. CASE setStopping(s)
    BY <2>1 DEF TypeOK, setStopping, flagVars, procVars, pipeVars, readVars, pendVars,
        callVars, hostVars, stopVars
  <2>2. CASE fetchCmd(s)
    BY <2>2 DEF TypeOK, fetchCmd, hostOnly, flagVars, procVars, pipeVars, readVars,
        pendVars, callVars, hostVars, stopVars
  <2>3. CASE onceDo(s)
    BY <2>3 DEF TypeOK, onceDo, flagVars, procVars, pipeVars, readVars, pendVars,
        callVars, hostVars, stopVars
  <2>4. CASE teardownUnruns(s)
    BY <2>4 DEF TypeOK, teardownUnruns, flagVars, procVars, pipeVars, readVars,
        pendVars, callVars, hostVars, stopVars
  <2>5. CASE teardownCloses(s)
    BY <2>5 DEF TypeOK, teardownCloses, flagVars, procVars, pipeVars, readVars,
        pendVars, callVars, hostVars, stopVars
  <2>6. CASE teardownEnds(s)
    <3>1. stopProc[s] \in Launches
      BY <2>6 DEF TypeOK, teardownEnds
    <3>2. alive' \subseteq 1 .. launched
      BY <2>6 DEF TypeOK, teardownEnds, processGone
    <3>3. sent' \subseteq Launches \X Calls /\ stdout' \subseteq Launches \X Calls
      BY <2>6 DEF TypeOK, teardownEnds, processGone
    <3>4. once' \in [Launches -> {"new", "busy", "done"}]
      BY <2>6, <3>1 DEF TypeOK, teardownEnds
    <3>5. /\ stopAt' \in [Stoppers -> {"no", "flag", "fetch", "once", "unrun", "close",
                                        "reap", "returned"}]
          /\ \A t \in Stoppers : stopAt'[t] \in {"once", "unrun", "close", "reap"} =>
                stopProc[t] \in Launches
      BY <2>6 DEF TypeOK, teardownEnds
    <3> QED BY <2>6, <3>2, <3>3, <3>4, <3>5 DEF TypeOK, teardownEnds, flagVars, readVars,
        pendVars, callVars, hostVars
  <2> QED BY <1>6, <2>1, <2>2, <2>3, <2>4, <2>5, <2>6 DEF stopStep
<1>7. CASE Close
  BY <1>7 DEF TypeOK, Close, hostOnly, flagVars, procVars, pipeVars, readVars,
      pendVars, callVars, hostVars, stopVars
<1>8. CASE UNCHANGED vars
  BY <1>8 DEF TypeOK, vars, flagVars, procVars, pipeVars, readVars, pendVars,
      callVars, hostVars, stopVars
<1> QED BY <1>1, <1>2, <1>3, <1>4, <1>5, <1>6, <1>7, <1>8 DEF Next

\* Every variable of a plugin keeps its type, whatever the plugin process does
\* and however its callers interleave (Start, call, readLoop, restart, Stop).
THEOREM TypeCorrect == Safety => []TypeOK
<1>1. Init => TypeOK
  <2> SUFFICES ASSUME Init PROVE TypeOK
    OBVIOUS
  <2>1. 1 \in 1 .. Attempts /\ 0 \in 0 .. MaxLaunch /\ {} \subseteq 1 .. 0
    BY PluginAssumption
  <2> QED BY <2>1 DEF Init, TypeOK, None, Loader, Hosts, Ended
<1> QED BY <1>1, TypeInductive, PTL DEF Safety

---------------------------------------------------------------------------

Early == {"clear", "launch", "install", "open", "run"}
Late == {"init", "stopInit", "confirm", "stopNow"}
Waiting == {"check", "backoff"}
Quiet(i) == reader[i] \in {"none", "done"}

\* A Start is alone until its read loop runs.
StartAlone ==
    \A h \in Hosts : hostAt[h] \in Early =>
       /\ \A g \in Hosts \ {h} : hostAt[g] \in Ended \cup {"none"}
       /\ \A i \in Launches : Quiet(i)

OneHandshake ==
    \A g, h \in Hosts : hostAt[g] \in Late /\ hostAt[h] \in Late => g = h

\* A restart that waits and has not been told to stop is the only one, and the
\* process it replaces is gone.
WaitAlone ==
    \A h \in Hosts : hostAt[h] \in Waiting /\ ~stopping =>
       /\ alive = {}
       /\ \A i \in Launches : Quiet(i)
       /\ \A g \in Hosts \ {h} : hostAt[g] \notin Waiting

LaunchesOne == \A h \in Hosts : hostAt[h] \in {"clear", "launch"} => alive = {}

\* A failed handshake leaves stopping set.
FailStops ==
    \A h \in Hosts : hostAt[h] = "stopInit" /\ stopAt[h] # "flag" => stopping

\* Only the latest process runs, and only its read loop is at work.
OnlyLatest ==
    /\ alive \subseteq {launched}
    /\ \A i \in Launches : ~Quiet(i) => i = launched
    /\ \A i \in Launches : reader[i] \in {"eof", "failing", "decide"} => i \notin alive

InstallsLatest ==
    /\ \A h \in Hosts : hostAt[h] \in {"install", "open",
        "run"} => hostProc[h] = launched
    /\ (\A h \in Hosts : hostAt[h] # "install") => cmd = launched

\* What makes OneProcess inductive.
RecoveryInv ==
    /\ StartAlone
    /\ OneHandshake
    /\ WaitAlone
    /\ LaunchesOne
    /\ FailStops
    /\ OnlyLatest
    /\ InstallsLatest

LEMMA RecoveryInductive ==
    ASSUME ~OverlongLines
    PROVE  TypeOK /\ RecoveryInv /\ [Next]_vars => RecoveryInv'
<1> SUFFICES ASSUME TypeOK, RecoveryInv, [Next]_vars PROVE RecoveryInv'
  OBVIOUS
<1> USE PluginAssumption DEF None, Launches, Calls, Loader, Hosts, Closer, Stoppers,
    Ended, Early, Late, Waiting, Quiet
<1>1. ASSUME NEW c \in Calls, beginCall(c) PROVE RecoveryInv'
  BY <1>1 DEF TypeOK, RecoveryInv, StartAlone, OneHandshake, WaitAlone, LaunchesOne,
      FailStops, OnlyLatest, InstallsLatest, beginCall, flagVars, procVars, pipeVars,
      readVars, pendVars, callVars, hostVars, stopVars
<1>2. ASSUME NEW c \in Calls, callStep(c) PROVE RecoveryInv'
  <2>1. CASE registerCall(c)
    BY <2>1 DEF TypeOK, RecoveryInv, StartAlone, OneHandshake, WaitAlone, LaunchesOne,
        FailStops, OnlyLatest, InstallsLatest, registerCall, flagVars, procVars,
        pipeVars, readVars, pendVars, callVars, hostVars, stopVars
  <2>2. CASE writeCall(c)
    BY <2>2 DEF TypeOK, RecoveryInv, StartAlone, OneHandshake, WaitAlone, LaunchesOne,
        FailStops, OnlyLatest, InstallsLatest, writeCall, flagVars, procVars,
        pipeVars, readVars, pendVars, callVars, hostVars, stopVars
  <2>3. CASE receiveReply(c)
    BY <2>3 DEF TypeOK, RecoveryInv, StartAlone, OneHandshake, WaitAlone, LaunchesOne,
        FailStops, OnlyLatest, InstallsLatest, receiveReply, flagVars, procVars,
        pipeVars, readVars, pendVars, callVars, hostVars, stopVars
  <2>4. CASE callTimesOut(c)
    BY <2>4 DEF TypeOK, RecoveryInv, StartAlone, OneHandshake, WaitAlone, LaunchesOne,
        FailStops, OnlyLatest, InstallsLatest, callTimesOut, flagVars, procVars,
        pipeVars, readVars, pendVars, callVars, hostVars, stopVars
  <2>5. CASE leaveCall(c)
    BY <2>5 DEF TypeOK, RecoveryInv, StartAlone, OneHandshake, WaitAlone, LaunchesOne,
        FailStops, OnlyLatest, InstallsLatest, leaveCall, flagVars, procVars,
        pipeVars, readVars, pendVars, callVars, hostVars, stopVars
  <2>6. CASE writeFails(c)
    BY <2>6 DEF TypeOK, RecoveryInv, StartAlone, OneHandshake, WaitAlone, LaunchesOne,
        FailStops, OnlyLatest, InstallsLatest, writeFails, flagVars, procVars,
        pipeVars, readVars, pendVars, callVars, hostVars, stopVars
  <2> QED BY <1>2, <2>1, <2>2, <2>3, <2>4, <2>5, <2>6 DEF callStep
<1>3. ASSUME NEW i \in Launches, readStep(i) PROVE RecoveryInv'
  <2>1. ASSUME NEW c \in Calls, readReply(i, c) PROVE RecoveryInv'
    <3>1. StartAlone'
      BY <2>1 DEF TypeOK, RecoveryInv, StartAlone, OneHandshake, WaitAlone,
          LaunchesOne, FailStops, OnlyLatest, InstallsLatest, readReply, flagVars,
          procVars, pipeVars, readVars, pendVars, callVars, hostVars, stopVars
    <3>2. OneHandshake'
      BY <2>1 DEF TypeOK, RecoveryInv, StartAlone, OneHandshake, WaitAlone,
          LaunchesOne, FailStops, OnlyLatest, InstallsLatest, readReply, flagVars,
          procVars, pipeVars, readVars, pendVars, callVars, hostVars, stopVars
    <3>3. WaitAlone'
      BY <2>1 DEF TypeOK, RecoveryInv, StartAlone, OneHandshake, WaitAlone,
          LaunchesOne, FailStops, OnlyLatest, InstallsLatest, readReply, flagVars,
          procVars, pipeVars, readVars, pendVars, callVars, hostVars, stopVars
    <3>4. LaunchesOne'
      BY <2>1 DEF TypeOK, RecoveryInv, StartAlone, OneHandshake, WaitAlone,
          LaunchesOne, FailStops, OnlyLatest, InstallsLatest, readReply, flagVars,
          procVars, pipeVars, readVars, pendVars, callVars, hostVars, stopVars
    <3>5. FailStops'
      BY <2>1 DEF TypeOK, RecoveryInv, StartAlone, OneHandshake, WaitAlone,
          LaunchesOne, FailStops, OnlyLatest, InstallsLatest, readReply, flagVars,
          procVars, pipeVars, readVars, pendVars, callVars, hostVars, stopVars
    <3>6. OnlyLatest'
      BY SMTT(30), <2>1 DEF TypeOK, RecoveryInv, StartAlone, OneHandshake, WaitAlone,
          LaunchesOne, FailStops, OnlyLatest, InstallsLatest, readReply, flagVars,
          procVars, pipeVars, readVars, pendVars, callVars, hostVars, stopVars
    <3>7. InstallsLatest'
      BY <2>1 DEF TypeOK, RecoveryInv, StartAlone, OneHandshake, WaitAlone,
          LaunchesOne, FailStops, OnlyLatest, InstallsLatest, readReply, flagVars,
          procVars, pipeVars, readVars, pendVars, callVars, hostVars, stopVars
    <3> QED BY <3>1, <3>2, <3>3, <3>4, <3>5, <3>6, <3>7 DEF RecoveryInv
  <2>2. ASSUME NEW c \in Calls, failWaiter(i, c) PROVE RecoveryInv'
    BY <2>2 DEF TypeOK, RecoveryInv, StartAlone, OneHandshake, WaitAlone, LaunchesOne,
        FailStops, OnlyLatest, InstallsLatest, failWaiter, flagVars, procVars,
        pipeVars, readVars, pendVars, callVars, hostVars, stopVars
  <2>3. CASE deliverReply(i)
    <3>1. StartAlone'
      BY <2>3 DEF TypeOK, RecoveryInv, StartAlone, OneHandshake, WaitAlone,
          LaunchesOne, FailStops, OnlyLatest, InstallsLatest, deliverReply, flagVars,
          procVars, pipeVars, readVars, pendVars, callVars, hostVars, stopVars
    <3>2. OneHandshake'
      BY <2>3 DEF TypeOK, RecoveryInv, StartAlone, OneHandshake, WaitAlone,
          LaunchesOne, FailStops, OnlyLatest, InstallsLatest, deliverReply, flagVars,
          procVars, pipeVars, readVars, pendVars, callVars, hostVars, stopVars
    <3>3. WaitAlone'
      BY <2>3 DEF TypeOK, RecoveryInv, StartAlone, OneHandshake, WaitAlone,
          LaunchesOne, FailStops, OnlyLatest, InstallsLatest, deliverReply, flagVars,
          procVars, pipeVars, readVars, pendVars, callVars, hostVars, stopVars
    <3>4. LaunchesOne'
      BY <2>3 DEF TypeOK, RecoveryInv, StartAlone, OneHandshake, WaitAlone,
          LaunchesOne, FailStops, OnlyLatest, InstallsLatest, deliverReply, flagVars,
          procVars, pipeVars, readVars, pendVars, callVars, hostVars, stopVars
    <3>5. FailStops'
      BY <2>3 DEF TypeOK, RecoveryInv, StartAlone, OneHandshake, WaitAlone,
          LaunchesOne, FailStops, OnlyLatest, InstallsLatest, deliverReply, flagVars,
          procVars, pipeVars, readVars, pendVars, callVars, hostVars, stopVars
    <3>6. OnlyLatest'
      BY <2>3 DEF TypeOK, RecoveryInv, StartAlone, OneHandshake, WaitAlone,
          LaunchesOne, FailStops, OnlyLatest, InstallsLatest, deliverReply, flagVars,
          procVars, pipeVars, readVars, pendVars, callVars, hostVars, stopVars
    <3>7. InstallsLatest'
      BY <2>3 DEF TypeOK, RecoveryInv, StartAlone, OneHandshake, WaitAlone,
          LaunchesOne, FailStops, OnlyLatest, InstallsLatest, deliverReply, flagVars,
          procVars, pipeVars, readVars, pendVars, callVars, hostVars, stopVars
    <3> QED BY <3>1, <3>2, <3>3, <3>4, <3>5, <3>6, <3>7 DEF RecoveryInv
  <2>4. CASE readEOF(i)
    <3>1. StartAlone'
      BY <2>4 DEF TypeOK, RecoveryInv, StartAlone, OneHandshake, WaitAlone,
          LaunchesOne, FailStops, OnlyLatest, InstallsLatest, readEOF, flagVars,
          procVars, pipeVars, readVars, pendVars, callVars, hostVars, stopVars
    <3>2. OneHandshake'
      BY <2>4 DEF TypeOK, RecoveryInv, StartAlone, OneHandshake, WaitAlone,
          LaunchesOne, FailStops, OnlyLatest, InstallsLatest, readEOF, flagVars,
          procVars, pipeVars, readVars, pendVars, callVars, hostVars, stopVars
    <3>3. WaitAlone'
      BY <2>4 DEF TypeOK, RecoveryInv, StartAlone, OneHandshake, WaitAlone,
          LaunchesOne, FailStops, OnlyLatest, InstallsLatest, readEOF, flagVars,
          procVars, pipeVars, readVars, pendVars, callVars, hostVars, stopVars
    <3>4. LaunchesOne'
      BY <2>4 DEF TypeOK, RecoveryInv, StartAlone, OneHandshake, WaitAlone,
          LaunchesOne, FailStops, OnlyLatest, InstallsLatest, readEOF, flagVars,
          procVars, pipeVars, readVars, pendVars, callVars, hostVars, stopVars
    <3>5. FailStops'
      BY <2>4 DEF TypeOK, RecoveryInv, StartAlone, OneHandshake, WaitAlone,
          LaunchesOne, FailStops, OnlyLatest, InstallsLatest, readEOF, flagVars,
          procVars, pipeVars, readVars, pendVars, callVars, hostVars, stopVars
    <3>6. OnlyLatest'
      BY <2>4 DEF TypeOK, RecoveryInv, StartAlone, OneHandshake, WaitAlone,
          LaunchesOne, FailStops, OnlyLatest, InstallsLatest, readEOF, flagVars,
          procVars, pipeVars, readVars, pendVars, callVars, hostVars, stopVars
    <3>7. InstallsLatest'
      BY <2>4 DEF TypeOK, RecoveryInv, StartAlone, OneHandshake, WaitAlone,
          LaunchesOne, FailStops, OnlyLatest, InstallsLatest, readEOF, flagVars,
          procVars, pipeVars, readVars, pendVars, callVars, hostVars, stopVars
    <3> QED BY <3>1, <3>2, <3>3, <3>4, <3>5, <3>6, <3>7 DEF RecoveryInv
  <2>5. CASE failWaiters(i)
    <3>1. StartAlone'
      BY <2>5 DEF TypeOK, RecoveryInv, StartAlone, OneHandshake, WaitAlone,
          LaunchesOne, FailStops, OnlyLatest, InstallsLatest, failWaiters, flagVars,
          procVars, pipeVars, readVars, pendVars, callVars, hostVars, stopVars
    <3>2. OneHandshake'
      BY <2>5 DEF TypeOK, RecoveryInv, StartAlone, OneHandshake, WaitAlone,
          LaunchesOne, FailStops, OnlyLatest, InstallsLatest, failWaiters, flagVars,
          procVars, pipeVars, readVars, pendVars, callVars, hostVars, stopVars
    <3>3. WaitAlone'
      BY <2>5 DEF TypeOK, RecoveryInv, StartAlone, OneHandshake, WaitAlone,
          LaunchesOne, FailStops, OnlyLatest, InstallsLatest, failWaiters, flagVars,
          procVars, pipeVars, readVars, pendVars, callVars, hostVars, stopVars
    <3>4. LaunchesOne'
      BY <2>5 DEF TypeOK, RecoveryInv, StartAlone, OneHandshake, WaitAlone,
          LaunchesOne, FailStops, OnlyLatest, InstallsLatest, failWaiters, flagVars,
          procVars, pipeVars, readVars, pendVars, callVars, hostVars, stopVars
    <3>5. FailStops'
      BY <2>5 DEF TypeOK, RecoveryInv, StartAlone, OneHandshake, WaitAlone,
          LaunchesOne, FailStops, OnlyLatest, InstallsLatest, failWaiters, flagVars,
          procVars, pipeVars, readVars, pendVars, callVars, hostVars, stopVars
    <3>6. OnlyLatest'
      BY <2>5 DEF TypeOK, RecoveryInv, StartAlone, OneHandshake, WaitAlone,
          LaunchesOne, FailStops, OnlyLatest, InstallsLatest, failWaiters, flagVars,
          procVars, pipeVars, readVars, pendVars, callVars, hostVars, stopVars
    <3>7. InstallsLatest'
      BY <2>5 DEF TypeOK, RecoveryInv, StartAlone, OneHandshake, WaitAlone,
          LaunchesOne, FailStops, OnlyLatest, InstallsLatest, failWaiters, flagVars,
          procVars, pipeVars, readVars, pendVars, callVars, hostVars, stopVars
    <3> QED BY <3>1, <3>2, <3>3, <3>4, <3>5, <3>6, <3>7 DEF RecoveryInv
  <2>6. CASE waitersFailed(i)
    <3>1. StartAlone'
      BY <2>6 DEF TypeOK, RecoveryInv, StartAlone, OneHandshake, WaitAlone,
          LaunchesOne, FailStops, OnlyLatest, InstallsLatest, waitersFailed, flagVars,
          procVars, pipeVars, readVars, pendVars, callVars, hostVars, stopVars
    <3>2. OneHandshake'
      BY <2>6 DEF TypeOK, RecoveryInv, StartAlone, OneHandshake, WaitAlone,
          LaunchesOne, FailStops, OnlyLatest, InstallsLatest, waitersFailed, flagVars,
          procVars, pipeVars, readVars, pendVars, callVars, hostVars, stopVars
    <3>3. WaitAlone'
      BY <2>6 DEF TypeOK, RecoveryInv, StartAlone, OneHandshake, WaitAlone,
          LaunchesOne, FailStops, OnlyLatest, InstallsLatest, waitersFailed, flagVars,
          procVars, pipeVars, readVars, pendVars, callVars, hostVars, stopVars
    <3>4. LaunchesOne'
      BY <2>6 DEF TypeOK, RecoveryInv, StartAlone, OneHandshake, WaitAlone,
          LaunchesOne, FailStops, OnlyLatest, InstallsLatest, waitersFailed, flagVars,
          procVars, pipeVars, readVars, pendVars, callVars, hostVars, stopVars
    <3>5. FailStops'
      BY <2>6 DEF TypeOK, RecoveryInv, StartAlone, OneHandshake, WaitAlone,
          LaunchesOne, FailStops, OnlyLatest, InstallsLatest, waitersFailed, flagVars,
          procVars, pipeVars, readVars, pendVars, callVars, hostVars, stopVars
    <3>6. OnlyLatest'
      BY <2>6 DEF TypeOK, RecoveryInv, StartAlone, OneHandshake, WaitAlone,
          LaunchesOne, FailStops, OnlyLatest, InstallsLatest, waitersFailed, flagVars,
          procVars, pipeVars, readVars, pendVars, callVars, hostVars, stopVars
    <3>7. InstallsLatest'
      BY <2>6 DEF TypeOK, RecoveryInv, StartAlone, OneHandshake, WaitAlone,
          LaunchesOne, FailStops, OnlyLatest, InstallsLatest, waitersFailed, flagVars,
          procVars, pipeVars, readVars, pendVars, callVars, hostVars, stopVars
    <3> QED BY <3>1, <3>2, <3>3, <3>4, <3>5, <3>6, <3>7 DEF RecoveryInv
  <2>7. CASE decideRestart(i)
    <3>1. StartAlone'
      BY <2>7 DEF TypeOK, RecoveryInv, StartAlone, OneHandshake, WaitAlone,
          LaunchesOne, FailStops, OnlyLatest, InstallsLatest, decideRestart, flagVars,
          procVars, pipeVars, readVars, pendVars, callVars, hostVars, stopVars
    <3>2. OneHandshake'
      BY <2>7 DEF TypeOK, RecoveryInv, StartAlone, OneHandshake, WaitAlone,
          LaunchesOne, FailStops, OnlyLatest, InstallsLatest, decideRestart, flagVars,
          procVars, pipeVars, readVars, pendVars, callVars, hostVars, stopVars
    <3>3. WaitAlone'
      <4> SUFFICES ASSUME ~stopping PROVE WaitAlone'
        BY <2>7 DEF decideRestart, flagVars, WaitAlone
      <4>1. i = launched /\ i \notin alive
        BY <2>7 DEF decideRestart, RecoveryInv, OnlyLatest
      <4>2. \A g \in Hosts : hostAt[g] \notin Waiting
        BY <2>7 DEF decideRestart, RecoveryInv, WaitAlone
      <4>3. alive' = {}
        BY <2>7, <4>1 DEF decideRestart, procVars, RecoveryInv, OnlyLatest
      <4>4. \A j \in Launches : Quiet(j)'
        BY <2>7, <4>1 DEF decideRestart, TypeOK, RecoveryInv, OnlyLatest
      <4>5. \A g \in Hosts \ {i} : hostAt'[g] = hostAt[g]
        BY <2>7 DEF decideRestart, TypeOK
      <4> QED BY <4>2, <4>3, <4>4, <4>5 DEF WaitAlone
    <3>4. LaunchesOne'
      BY <2>7 DEF TypeOK, RecoveryInv, StartAlone, OneHandshake, WaitAlone,
          LaunchesOne, FailStops, OnlyLatest, InstallsLatest, decideRestart, flagVars,
          procVars, pipeVars, readVars, pendVars, callVars, hostVars, stopVars
    <3>5. FailStops'
      BY <2>7 DEF TypeOK, RecoveryInv, StartAlone, OneHandshake, WaitAlone,
          LaunchesOne, FailStops, OnlyLatest, InstallsLatest, decideRestart, flagVars,
          procVars, pipeVars, readVars, pendVars, callVars, hostVars, stopVars
    <3>6. OnlyLatest'
      BY <2>7 DEF TypeOK, RecoveryInv, StartAlone, OneHandshake, WaitAlone,
          LaunchesOne, FailStops, OnlyLatest, InstallsLatest, decideRestart, flagVars,
          procVars, pipeVars, readVars, pendVars, callVars, hostVars, stopVars
    <3>7. InstallsLatest'
      BY <2>7 DEF TypeOK, RecoveryInv, StartAlone, OneHandshake, WaitAlone,
          LaunchesOne, FailStops, OnlyLatest, InstallsLatest, decideRestart, flagVars,
          procVars, pipeVars, readVars, pendVars, callVars, hostVars, stopVars
    <3> QED BY <3>1, <3>2, <3>3, <3>4, <3>5, <3>6, <3>7 DEF RecoveryInv
  <2> QED BY <1>3, <2>1, <2>2, <2>3, <2>4, <2>5, <2>6, <2>7 DEF readStep
<1>4. ASSUME NEW i \in Launches, processStep(i) PROVE RecoveryInv'
  <2>1. CASE processDies(i)
    BY <2>1 DEF TypeOK, RecoveryInv, StartAlone, OneHandshake, WaitAlone, LaunchesOne,
        FailStops, OnlyLatest, InstallsLatest, processDies, processGone, flagVars,
        procVars, pipeVars, readVars, pendVars, callVars, hostVars, stopVars
  <2>2. ASSUME NEW c \in Calls, answer(i, c) PROVE RecoveryInv'
    BY <2>2 DEF TypeOK, RecoveryInv, StartAlone, OneHandshake, WaitAlone, LaunchesOne,
        FailStops, OnlyLatest, InstallsLatest, answer, flagVars, procVars, pipeVars,
        readVars, pendVars, callVars, hostVars, stopVars
  <2>3. ASSUME NEW c \in Calls, takesRequest(i, c) PROVE RecoveryInv'
    BY <2>3 DEF TypeOK, RecoveryInv, StartAlone, OneHandshake, WaitAlone, LaunchesOne,
        FailStops, OnlyLatest, InstallsLatest, takesRequest, flagVars, procVars,
        pipeVars, readVars, pendVars, callVars, hostVars, stopVars
  <2> QED BY <1>4, <2>1, <2>2, <2>3 DEF processStep
<1>5. ASSUME NEW h \in Hosts, hostStep(h) PROVE RecoveryInv'
  <2>1. CASE restartChecks(h)
    BY ZenonT(40), <2>1 DEF TypeOK, RecoveryInv, StartAlone, OneHandshake, WaitAlone, LaunchesOne,
        FailStops, OnlyLatest, InstallsLatest, restartChecks, hostMoves, hostOnly,
        flagVars, procVars, pipeVars, readVars, pendVars, callVars, hostVars, stopVars
  <2>2. CASE backoffEnds(h)
    <3>a. UNCHANGED <<stopping, alive, reader>>
      BY <2>2 DEF backoffEnds, hostOnly, flagVars, procVars, readVars
    <3>b. ASSUME stopping PROVE StartAlone'
      <4>1. hostAt' = [hostAt EXCEPT ![h] = "stopped"]
        BY <2>2, <3>b DEF backoffEnds, hostMoves
      <4> QED BY <2>2, <4>1, <3>a DEF TypeOK, RecoveryInv, StartAlone
    <3>c. ASSUME ~stopping PROVE StartAlone'
      <4>1. hostAt' = [hostAt EXCEPT ![h] = "clear"]
        BY <2>2, <3>c DEF backoffEnds, hostMoves
      <4>2. \A i \in Launches : Quiet(i)'
        BY <2>2, <3>a, <3>c DEF backoffEnds, RecoveryInv, WaitAlone
      <4>3. \A g \in Hosts \ {h} : hostAt[g] \in Ended \cup {"none"}
        BY <2>2, <3>c DEF backoffEnds, RecoveryInv, WaitAlone
      <4> QED BY <4>1, <4>2, <4>3 DEF TypeOK, StartAlone
    <3>1. StartAlone'
      BY <3>b, <3>c
    <3>2. OneHandshake'
      BY <2>2 DEF TypeOK, RecoveryInv, StartAlone, OneHandshake, WaitAlone,
          LaunchesOne, FailStops, OnlyLatest, InstallsLatest, backoffEnds, hostMoves,
          hostOnly, flagVars, procVars, pipeVars, readVars, pendVars, callVars,
          hostVars, stopVars
    <3>3. WaitAlone'
      BY <2>2 DEF TypeOK, RecoveryInv, StartAlone, OneHandshake, WaitAlone,
          LaunchesOne, FailStops, OnlyLatest, InstallsLatest, backoffEnds, hostMoves,
          hostOnly, flagVars, procVars, pipeVars, readVars, pendVars, callVars,
          hostVars, stopVars
    <3>4. LaunchesOne'
      BY <2>2 DEF TypeOK, RecoveryInv, StartAlone, OneHandshake, WaitAlone,
          LaunchesOne, FailStops, OnlyLatest, InstallsLatest, backoffEnds, hostMoves,
          hostOnly, flagVars, procVars, pipeVars, readVars, pendVars, callVars,
          hostVars, stopVars
    <3>5. FailStops'
      BY <2>2 DEF TypeOK, RecoveryInv, StartAlone, OneHandshake, WaitAlone,
          LaunchesOne, FailStops, OnlyLatest, InstallsLatest, backoffEnds, hostMoves,
          hostOnly, flagVars, procVars, pipeVars, readVars, pendVars, callVars,
          hostVars, stopVars
    <3>6. OnlyLatest'
      BY <2>2 DEF TypeOK, RecoveryInv, StartAlone, OneHandshake, WaitAlone,
          LaunchesOne, FailStops, OnlyLatest, InstallsLatest, backoffEnds, hostMoves,
          hostOnly, flagVars, procVars, pipeVars, readVars, pendVars, callVars,
          hostVars, stopVars
    <3>7. InstallsLatest'
      BY <2>2 DEF TypeOK, RecoveryInv, StartAlone, OneHandshake, WaitAlone,
          LaunchesOne, FailStops, OnlyLatest, InstallsLatest, backoffEnds, hostMoves,
          hostOnly, flagVars, procVars, pipeVars, readVars, pendVars, callVars,
          hostVars, stopVars
    <3> QED BY <3>1, <3>2, <3>3, <3>4, <3>5, <3>6, <3>7 DEF RecoveryInv
  <2>3. CASE clearStopping(h)
    <3>1. StartAlone'
      BY <2>3 DEF TypeOK, RecoveryInv, StartAlone, OneHandshake, WaitAlone, LaunchesOne,
          FailStops, OnlyLatest, InstallsLatest, clearStopping, hostMoves, flagVars,
          procVars, pipeVars, readVars, pendVars, callVars, hostVars, stopVars
    <3>2. OneHandshake'
      BY <2>3 DEF TypeOK, RecoveryInv, StartAlone, OneHandshake, WaitAlone, LaunchesOne,
          FailStops, OnlyLatest, InstallsLatest, clearStopping, hostMoves, flagVars,
          procVars, pipeVars, readVars, pendVars, callVars, hostVars, stopVars
    <3>3. WaitAlone'
      BY <2>3 DEF TypeOK, RecoveryInv, StartAlone, OneHandshake, WaitAlone, LaunchesOne,
          FailStops, OnlyLatest, InstallsLatest, clearStopping, hostMoves, flagVars,
          procVars, pipeVars, readVars, pendVars, callVars, hostVars, stopVars
    <3>4. LaunchesOne'
      BY <2>3 DEF TypeOK, RecoveryInv, StartAlone, OneHandshake, WaitAlone, LaunchesOne,
          FailStops, OnlyLatest, InstallsLatest, clearStopping, hostMoves, flagVars,
          procVars, pipeVars, readVars, pendVars, callVars, hostVars, stopVars
    <3>5. FailStops'
      BY <2>3 DEF TypeOK, RecoveryInv, StartAlone, OneHandshake, WaitAlone, LaunchesOne,
          FailStops, OnlyLatest, InstallsLatest, clearStopping, hostMoves, flagVars,
          procVars, pipeVars, readVars, pendVars, callVars, hostVars, stopVars
    <3>6. OnlyLatest'
      BY <2>3 DEF TypeOK, RecoveryInv, StartAlone, OneHandshake, WaitAlone, LaunchesOne,
          FailStops, OnlyLatest, InstallsLatest, clearStopping, hostMoves, flagVars,
          procVars, pipeVars, readVars, pendVars, callVars, hostVars, stopVars
    <3>7. InstallsLatest'
      BY <2>3 DEF TypeOK, RecoveryInv, StartAlone, OneHandshake, WaitAlone, LaunchesOne,
          FailStops, OnlyLatest, InstallsLatest, clearStopping, hostMoves, flagVars,
          procVars, pipeVars, readVars, pendVars, callVars, hostVars, stopVars
    <3> QED BY <3>1, <3>2, <3>3, <3>4, <3>5, <3>6, <3>7 DEF RecoveryInv
  <2>4. CASE launch(h)
    <3>1. StartAlone'
      BY <2>4 DEF TypeOK, RecoveryInv, StartAlone, OneHandshake, WaitAlone, LaunchesOne,
          FailStops, OnlyLatest, InstallsLatest, launch, hostMoves, flagVars, procVars,
          pipeVars, readVars, pendVars, callVars, hostVars, stopVars
    <3>2. OneHandshake'
      BY <2>4 DEF TypeOK, RecoveryInv, StartAlone, OneHandshake, WaitAlone, LaunchesOne,
          FailStops, OnlyLatest, InstallsLatest, launch, hostMoves, flagVars, procVars,
          pipeVars, readVars, pendVars, callVars, hostVars, stopVars
    <3>3. WaitAlone'
      BY <2>4 DEF TypeOK, RecoveryInv, StartAlone, OneHandshake, WaitAlone, LaunchesOne,
          FailStops, OnlyLatest, InstallsLatest, launch, hostMoves, flagVars, procVars,
          pipeVars, readVars, pendVars, callVars, hostVars, stopVars
    <3>4. LaunchesOne'
      BY <2>4 DEF TypeOK, RecoveryInv, StartAlone, OneHandshake, WaitAlone, LaunchesOne,
          FailStops, OnlyLatest, InstallsLatest, launch, hostMoves, flagVars, procVars,
          pipeVars, readVars, pendVars, callVars, hostVars, stopVars
    <3>5. FailStops'
      BY <2>4 DEF TypeOK, RecoveryInv, StartAlone, OneHandshake, WaitAlone, LaunchesOne,
          FailStops, OnlyLatest, InstallsLatest, launch, hostMoves, flagVars, procVars,
          pipeVars, readVars, pendVars, callVars, hostVars, stopVars
    <3>6. OnlyLatest'
      BY <2>4 DEF TypeOK, RecoveryInv, StartAlone, OneHandshake, WaitAlone, LaunchesOne,
          FailStops, OnlyLatest, InstallsLatest, launch, hostMoves, flagVars, procVars,
          pipeVars, readVars, pendVars, callVars, hostVars, stopVars
    <3>7. InstallsLatest'
      BY <2>4 DEF TypeOK, RecoveryInv, StartAlone, OneHandshake, WaitAlone, LaunchesOne,
          FailStops, OnlyLatest, InstallsLatest, launch, hostMoves, flagVars, procVars,
          pipeVars, readVars, pendVars, callVars, hostVars, stopVars
    <3> QED BY <3>1, <3>2, <3>3, <3>4, <3>5, <3>6, <3>7 DEF RecoveryInv
  <2>5. CASE launchFails(h)
    BY ZenonT(40), <2>5 DEF TypeOK, RecoveryInv, StartAlone, OneHandshake, WaitAlone, LaunchesOne,
        FailStops, OnlyLatest, InstallsLatest, launchFails, hostMoves, hostOnly,
        startFailed, flagVars, procVars, pipeVars, readVars, pendVars, callVars,
        hostVars, stopVars
  <2>6. CASE installCmd(h)
    BY <2>6 DEF TypeOK, RecoveryInv, StartAlone, OneHandshake, WaitAlone, LaunchesOne,
        FailStops, OnlyLatest, InstallsLatest, installCmd, hostMoves, flagVars,
        procVars, pipeVars, readVars, pendVars, callVars, hostVars, stopVars
  <2>7. CASE openStdin(h)
    BY <2>7 DEF TypeOK, RecoveryInv, StartAlone, OneHandshake, WaitAlone, LaunchesOne,
        FailStops, OnlyLatest, InstallsLatest, openStdin, hostMoves, flagVars,
        procVars, pipeVars, readVars, pendVars, callVars, hostVars, stopVars
  <2>8. CASE setRunning(h)
    <3>a. hostAt'[h] = "init" /\ \A g \in Hosts \ {h} : hostAt'[g] \in Ended \cup {"none"}
      BY <2>8 DEF TypeOK, RecoveryInv, StartAlone, setRunning, hostMoves
    <3>1. StartAlone'
      BY <3>a DEF StartAlone
    <3>2. OneHandshake'
      BY <3>a DEF OneHandshake
    <3>3. WaitAlone'
      BY <3>a DEF WaitAlone
    <3>4. LaunchesOne'
      BY <2>8 DEF TypeOK, RecoveryInv, StartAlone, OneHandshake, WaitAlone,
          LaunchesOne, FailStops, OnlyLatest, InstallsLatest, setRunning, hostMoves,
          flagVars, procVars, pipeVars, readVars, pendVars, callVars, hostVars,
          stopVars
    <3>5. FailStops'
      BY <2>8 DEF TypeOK, RecoveryInv, StartAlone, OneHandshake, WaitAlone,
          LaunchesOne, FailStops, OnlyLatest, InstallsLatest, setRunning, hostMoves,
          flagVars, procVars, pipeVars, readVars, pendVars, callVars, hostVars,
          stopVars
    <3>6. OnlyLatest'
      BY <2>8 DEF TypeOK, RecoveryInv, StartAlone, OneHandshake, WaitAlone,
          LaunchesOne, FailStops, OnlyLatest, InstallsLatest, setRunning, hostMoves,
          flagVars, procVars, pipeVars, readVars, pendVars, callVars, hostVars,
          stopVars
    <3>7. InstallsLatest'
      BY <2>8 DEF TypeOK, RecoveryInv, StartAlone, OneHandshake, WaitAlone,
          LaunchesOne, FailStops, OnlyLatest, InstallsLatest, setRunning, hostMoves,
          flagVars, procVars, pipeVars, readVars, pendVars, callVars, hostVars,
          stopVars
    <3> QED BY <3>1, <3>2, <3>3, <3>4, <3>5, <3>6, <3>7 DEF RecoveryInv
  <2>9. CASE initialized(h)
    <3>1. StartAlone'
      BY <2>9 DEF TypeOK, RecoveryInv, StartAlone, OneHandshake, WaitAlone,
          LaunchesOne, FailStops, OnlyLatest, InstallsLatest, initialized, hostMoves,
          hostOnly, flagVars, procVars, pipeVars, readVars, pendVars, callVars,
          hostVars, stopVars
    <3>2. OneHandshake'
      BY <2>9 DEF TypeOK, RecoveryInv, StartAlone, OneHandshake, WaitAlone,
          LaunchesOne, FailStops, OnlyLatest, InstallsLatest, initialized, hostMoves,
          hostOnly, flagVars, procVars, pipeVars, readVars, pendVars, callVars,
          hostVars, stopVars
    <3>3. WaitAlone'
      BY <2>9 DEF TypeOK, RecoveryInv, StartAlone, OneHandshake, WaitAlone,
          LaunchesOne, FailStops, OnlyLatest, InstallsLatest, initialized, hostMoves,
          hostOnly, flagVars, procVars, pipeVars, readVars, pendVars, callVars,
          hostVars, stopVars
    <3>4. LaunchesOne'
      BY <2>9 DEF TypeOK, RecoveryInv, StartAlone, OneHandshake, WaitAlone,
          LaunchesOne, FailStops, OnlyLatest, InstallsLatest, initialized, hostMoves,
          hostOnly, flagVars, procVars, pipeVars, readVars, pendVars, callVars,
          hostVars, stopVars
    <3>5. FailStops'
      BY <2>9 DEF TypeOK, RecoveryInv, StartAlone, OneHandshake, WaitAlone,
          LaunchesOne, FailStops, OnlyLatest, InstallsLatest, initialized, hostMoves,
          hostOnly, flagVars, procVars, pipeVars, readVars, pendVars, callVars,
          hostVars, stopVars
    <3>6. OnlyLatest'
      BY <2>9 DEF TypeOK, RecoveryInv, StartAlone, OneHandshake, WaitAlone,
          LaunchesOne, FailStops, OnlyLatest, InstallsLatest, initialized, hostMoves,
          hostOnly, flagVars, procVars, pipeVars, readVars, pendVars, callVars,
          hostVars, stopVars
    <3>7. InstallsLatest'
      BY <2>9 DEF TypeOK, RecoveryInv, StartAlone, OneHandshake, WaitAlone,
          LaunchesOne, FailStops, OnlyLatest, InstallsLatest, initialized, hostMoves,
          hostOnly, flagVars, procVars, pipeVars, readVars, pendVars, callVars,
          hostVars, stopVars
    <3> QED BY <3>1, <3>2, <3>3, <3>4, <3>5, <3>6, <3>7 DEF RecoveryInv
  <2>10. CASE initFails(h)
    <3>1. /\ hostAt[h] = "init" /\ hostAt' = [hostAt EXCEPT ![h] = "stopInit"]
          /\ stopAt' = [stopAt EXCEPT ![h] = "flag"]
          /\ UNCHANGED <<stopping, cmd, launched, alive, reader, hostProc>>
      BY <2>10 DEF initFails, hostMoves, hostOnly, flagVars, procVars, readVars
    <3>2. /\ \A g \in Hosts : g # h => hostAt'[g] = hostAt[g] /\ stopAt'[g] = stopAt[g]
          /\ hostAt'[h] = "stopInit" /\ stopAt'[h] = "flag"
      BY <3>1 DEF TypeOK
    <3>3. StartAlone' /\ OneHandshake'
      BY <3>1, <3>2 DEF RecoveryInv, StartAlone, OneHandshake
    <3>4. WaitAlone' /\ LaunchesOne' /\ FailStops'
      BY <3>1, <3>2 DEF RecoveryInv, WaitAlone, LaunchesOne, FailStops
    <3>5. OnlyLatest' /\ InstallsLatest'
      BY <3>1, <3>2 DEF RecoveryInv, OnlyLatest, InstallsLatest
    <3> QED BY <3>3, <3>4, <3>5 DEF RecoveryInv
  <2>11. CASE initStopped(h)
    BY <2>11 DEF TypeOK, RecoveryInv, StartAlone, OneHandshake, WaitAlone,
        LaunchesOne, FailStops, OnlyLatest, InstallsLatest, initStopped, hostMoves,
        hostOnly, startFailed, flagVars, procVars, pipeVars, readVars, pendVars,
        callVars, hostVars, stopVars
  <2>12. CASE confirm(h)
    BY <2>12 DEF TypeOK, RecoveryInv, StartAlone, OneHandshake, WaitAlone,
        LaunchesOne, FailStops, OnlyLatest, InstallsLatest, confirm, hostMoves,
        hostOnly, flagVars, procVars, pipeVars, readVars, pendVars, callVars,
        hostVars, stopVars
  <2>13. CASE restartStopped(h)
    BY <2>13 DEF TypeOK, RecoveryInv, StartAlone, OneHandshake, WaitAlone,
        LaunchesOne, FailStops, OnlyLatest, InstallsLatest, restartStopped, hostMoves,
        hostOnly, flagVars, procVars, pipeVars, readVars, pendVars, callVars,
        hostVars, stopVars
  <2> QED BY <1>5, <2>1, <2>2, <2>3, <2>4, <2>5, <2>6, <2>7, <2>8, <2>9, <2>10, <2>11,
      <2>12, <2>13 DEF hostStep
<1>6. ASSUME NEW s \in Stoppers, stopStep(s) PROVE RecoveryInv'
  <2>1. CASE setStopping(s)
    BY <2>1 DEF TypeOK, RecoveryInv, StartAlone, OneHandshake, WaitAlone, LaunchesOne,
        FailStops, OnlyLatest, InstallsLatest, setStopping, flagVars, procVars,
        pipeVars, readVars, pendVars, callVars, hostVars, stopVars
  <2>2. CASE fetchCmd(s)
    BY <2>2 DEF TypeOK, RecoveryInv, StartAlone, OneHandshake, WaitAlone, LaunchesOne,
        FailStops, OnlyLatest, InstallsLatest, fetchCmd, hostOnly, flagVars, procVars,
        pipeVars, readVars, pendVars, callVars, hostVars, stopVars
  <2>3. CASE onceDo(s)
    BY <2>3 DEF TypeOK, RecoveryInv, StartAlone, OneHandshake, WaitAlone, LaunchesOne,
        FailStops, OnlyLatest, InstallsLatest, onceDo, flagVars, procVars, pipeVars,
        readVars, pendVars, callVars, hostVars, stopVars
  <2>4. CASE teardownUnruns(s)
    BY <2>4 DEF TypeOK, RecoveryInv, StartAlone, OneHandshake, WaitAlone, LaunchesOne,
        FailStops, OnlyLatest, InstallsLatest, teardownUnruns, flagVars, procVars,
        pipeVars, readVars, pendVars, callVars, hostVars, stopVars
  <2>5. CASE teardownCloses(s)
    BY <2>5 DEF TypeOK, RecoveryInv, StartAlone, OneHandshake, WaitAlone, LaunchesOne,
        FailStops, OnlyLatest, InstallsLatest, teardownCloses, flagVars, procVars,
        pipeVars, readVars, pendVars, callVars, hostVars, stopVars
  <2>6. CASE teardownEnds(s)
    <3>a. alive' \subseteq alive /\ UNCHANGED <<stopping, reader, hostAt>>
      BY <2>6 DEF teardownEnds, processGone, flagVars, readVars, hostVars
    <3>1. StartAlone'
      BY <2>6 DEF TypeOK, RecoveryInv, StartAlone, OneHandshake, WaitAlone,
          LaunchesOne, FailStops, OnlyLatest, InstallsLatest, teardownEnds,
          processGone, flagVars, procVars, pipeVars, readVars, pendVars,
          callVars, hostVars, stopVars
    <3>2. OneHandshake'
      BY <2>6 DEF TypeOK, RecoveryInv, StartAlone, OneHandshake, WaitAlone,
          LaunchesOne, FailStops, OnlyLatest, InstallsLatest, teardownEnds,
          processGone, flagVars, procVars, pipeVars, readVars, pendVars,
          callVars, hostVars, stopVars
    <3>3. WaitAlone'
      BY <3>a DEF RecoveryInv, WaitAlone
    <3>4. LaunchesOne'
      BY <3>a DEF RecoveryInv, LaunchesOne
    <3>5. FailStops'
      BY <2>6 DEF TypeOK, RecoveryInv, StartAlone, OneHandshake, WaitAlone,
          LaunchesOne, FailStops, OnlyLatest, InstallsLatest, teardownEnds,
          processGone, flagVars, procVars, pipeVars, readVars, pendVars,
          callVars, hostVars, stopVars
    <3>6. OnlyLatest'
      BY <2>6 DEF TypeOK, RecoveryInv, StartAlone, OneHandshake, WaitAlone,
          LaunchesOne, FailStops, OnlyLatest, InstallsLatest, teardownEnds,
          processGone, flagVars, procVars, pipeVars, readVars, pendVars,
          callVars, hostVars, stopVars
    <3>7. InstallsLatest'
      BY <2>6 DEF TypeOK, RecoveryInv, StartAlone, OneHandshake, WaitAlone,
          LaunchesOne, FailStops, OnlyLatest, InstallsLatest, teardownEnds,
          processGone, flagVars, procVars, pipeVars, readVars, pendVars,
          callVars, hostVars, stopVars
    <3> QED BY <3>1, <3>2, <3>3, <3>4, <3>5, <3>6, <3>7 DEF RecoveryInv
  <2> QED BY <1>6, <2>1, <2>2, <2>3, <2>4, <2>5, <2>6 DEF stopStep
<1>7. CASE Close
  BY <1>7 DEF TypeOK, RecoveryInv, StartAlone, OneHandshake, WaitAlone, LaunchesOne,
      FailStops, OnlyLatest, InstallsLatest, Close, hostOnly, flagVars, procVars,
      pipeVars, readVars, pendVars, callVars, hostVars, stopVars
<1>8. CASE UNCHANGED vars
  BY <1>8 DEF TypeOK, RecoveryInv, StartAlone, OneHandshake, WaitAlone, LaunchesOne,
      FailStops, OnlyLatest, InstallsLatest, vars, flagVars, procVars, pipeVars,
      readVars, pendVars, callVars, hostVars, stopVars
<1> QED BY <1>1, <1>2, <1>3, <1>4, <1>5, <1>6, <1>7, <1>8 DEF Next

\* Before the first Start there is nothing to recover.
LEMMA RecoveryInitial == Init => RecoveryInv
  BY PluginAssumption DEF Init, RecoveryInv, StartAlone, OneHandshake, WaitAlone,
      LaunchesOne, FailStops, OnlyLatest, InstallsLatest, None, Launches, Loader,
      Hosts, Ended, Early, Late, Waiting, Quiet

\* However a plugin crashes, fails its handshake and is restarted, two processes
\* of it never run side by side and the one that runs is the one Stop would tear
\* down: with RecoveryInv, because a Start alone is in its first half, and a
\* restart begins only after the last process is gone (Start, restart).
\* The scanner's buffer holds every line: a read loop that gives up on a longer
\* one leaves its process running and starts another.
THEOREM OneProcessCorrect ==
    ASSUME ~OverlongLines
    PROVE  Safety => []OneProcess
<1>1. TypeOK /\ RecoveryInv => OneProcess
  <2> SUFFICES ASSUME TypeOK, RecoveryInv PROVE OneProcess
    OBVIOUS
  <2>1. \A i, j \in alive : i = j
    BY DEF RecoveryInv, OnlyLatest
  <2>2. ASSUME NEW i \in alive
        PROVE cmd = i \/ \E h \in Hosts : hostAt[h] = "install" /\ hostProc[h] = i
    BY <2>2 DEF RecoveryInv, OnlyLatest, InstallsLatest
  <2> QED BY <2>1, <2>2 DEF OneProcess
<1> QED BY <1>1, RecoveryInitial, RecoveryInductive, TypeCorrect, PTL DEF Safety

---------------------------------------------------------------------------

LEMMA ServedInductive == TypeOK /\ RunningIsServed /\ [Next]_vars => RunningIsServed'
<1> SUFFICES ASSUME TypeOK, RunningIsServed, [Next]_vars PROVE RunningIsServed'
  OBVIOUS
<1>1. ASSUME NEW c \in Calls, beginCall(c) PROVE RunningIsServed'
  BY <1>1 DEF TypeOK, RunningIsServed, beginCall, flagVars, procVars, pipeVars,
      readVars, pendVars, callVars, hostVars, stopVars
<1>2. ASSUME NEW c \in Calls, callStep(c) PROVE RunningIsServed'
  <2>1. CASE registerCall(c)
    BY <2>1 DEF TypeOK, RunningIsServed, registerCall, flagVars, procVars, pipeVars,
        readVars, pendVars, callVars, hostVars, stopVars
  <2>2. CASE writeCall(c)
    BY <2>2 DEF TypeOK, RunningIsServed, writeCall, flagVars, procVars, pipeVars,
        readVars, pendVars, callVars, hostVars, stopVars
  <2>3. CASE receiveReply(c)
    BY <2>3 DEF TypeOK, RunningIsServed, receiveReply, flagVars, procVars, pipeVars,
        readVars, pendVars, callVars, hostVars, stopVars
  <2>4. CASE callTimesOut(c)
    BY <2>4 DEF TypeOK, RunningIsServed, callTimesOut, flagVars, procVars, pipeVars,
        readVars, pendVars, callVars, hostVars, stopVars
  <2>5. CASE leaveCall(c)
    BY <2>5 DEF TypeOK, RunningIsServed, leaveCall, flagVars, procVars, pipeVars,
        readVars, pendVars, callVars, hostVars, stopVars
  <2>6. CASE writeFails(c)
    BY <2>6 DEF TypeOK, RunningIsServed, writeFails, flagVars, procVars,
        pipeVars, readVars, pendVars, callVars, hostVars, stopVars
  <2> QED BY <1>2, <2>1, <2>2, <2>3, <2>4, <2>5, <2>6 DEF callStep
<1>3. ASSUME NEW i \in Launches, readStep(i) PROVE RunningIsServed'
  <2>1. ASSUME NEW c \in Calls, readReply(i, c) PROVE RunningIsServed'
    BY <2>1 DEF TypeOK, RunningIsServed, readReply, flagVars, procVars, pipeVars,
        readVars, pendVars, callVars, hostVars, stopVars
  <2>2. ASSUME NEW c \in Calls, failWaiter(i, c) PROVE RunningIsServed'
    BY <2>2 DEF TypeOK, RunningIsServed, failWaiter, flagVars, procVars, pipeVars,
        readVars, pendVars, callVars, hostVars, stopVars
  <2>3. CASE deliverReply(i)
    BY <2>3 DEF TypeOK, RunningIsServed, deliverReply, flagVars, procVars, pipeVars,
        readVars, pendVars, callVars, hostVars, stopVars
  <2>4. CASE readEOF(i)
    BY <2>4 DEF TypeOK, RunningIsServed, readEOF, flagVars, procVars, pipeVars,
        readVars, pendVars, callVars, hostVars, stopVars
  <2>5. CASE failWaiters(i)
    BY <2>5 DEF TypeOK, RunningIsServed, failWaiters, flagVars, procVars, pipeVars,
        readVars, pendVars, callVars, hostVars, stopVars
  <2>6. CASE waitersFailed(i)
    BY <2>6 DEF TypeOK, RunningIsServed, waitersFailed, flagVars, procVars, pipeVars,
        readVars, pendVars, callVars, hostVars, stopVars
  <2>7. CASE decideRestart(i)
    BY <2>7 DEF TypeOK, RunningIsServed, decideRestart, flagVars, procVars, pipeVars,
        readVars, pendVars, callVars, hostVars, stopVars
  <2> QED BY <1>3, <2>1, <2>2, <2>3, <2>4, <2>5, <2>6, <2>7 DEF readStep
<1>4. ASSUME NEW i \in Launches, processStep(i) PROVE RunningIsServed'
  <2>1. CASE processDies(i)
    BY <2>1 DEF TypeOK, RunningIsServed, processDies, processGone, flagVars, procVars,
        pipeVars, readVars, pendVars, callVars, hostVars, stopVars
  <2>2. ASSUME NEW c \in Calls, answer(i, c) PROVE RunningIsServed'
    BY <2>2 DEF TypeOK, RunningIsServed, answer, flagVars, procVars, pipeVars,
        readVars, pendVars, callVars, hostVars, stopVars
  <2>3. ASSUME NEW c \in Calls, takesRequest(i, c) PROVE RunningIsServed'
    BY <2>3 DEF TypeOK, RunningIsServed, takesRequest, flagVars, procVars,
        pipeVars, readVars, pendVars, callVars, hostVars, stopVars
  <2> QED BY <1>4, <2>1, <2>2, <2>3 DEF processStep
<1>5. ASSUME NEW h \in Hosts, hostStep(h) PROVE RunningIsServed'
  <2>1. CASE restartChecks(h)
    BY <2>1 DEF TypeOK, RunningIsServed, restartChecks, hostMoves, hostOnly, flagVars,
        procVars, pipeVars, readVars, pendVars, callVars, hostVars, stopVars
  <2>2. CASE backoffEnds(h)
    BY <2>2 DEF TypeOK, RunningIsServed, backoffEnds, hostMoves, hostOnly, flagVars,
        procVars, pipeVars, readVars, pendVars, callVars, hostVars, stopVars
  <2>3. CASE clearStopping(h)
    BY <2>3 DEF TypeOK, RunningIsServed, clearStopping, hostMoves, flagVars, procVars,
        pipeVars, readVars, pendVars, callVars, hostVars, stopVars
  <2>4. CASE launch(h)
    BY <2>4 DEF TypeOK, RunningIsServed, launch, hostMoves, flagVars, procVars,
        pipeVars, readVars, pendVars, callVars, hostVars, stopVars
  <2>5. CASE launchFails(h)
    BY <2>5 DEF TypeOK, RunningIsServed, launchFails, hostMoves, hostOnly,
        startFailed, flagVars, procVars, pipeVars, readVars, pendVars, callVars,
        hostVars, stopVars
  <2>6. CASE installCmd(h)
    BY <2>6 DEF TypeOK, RunningIsServed, installCmd, hostMoves, flagVars, procVars,
        pipeVars, readVars, pendVars, callVars, hostVars, stopVars
  <2>7. CASE openStdin(h)
    BY <2>7 DEF TypeOK, RunningIsServed, openStdin, hostMoves, flagVars, procVars,
        pipeVars, readVars, pendVars, callVars, hostVars, stopVars
  <2>8. CASE setRunning(h)
    BY <2>8 DEF TypeOK, RunningIsServed, setRunning, hostMoves, flagVars, procVars,
        pipeVars, readVars, pendVars, callVars, hostVars, stopVars
  <2>9. CASE initialized(h)
    BY <2>9 DEF TypeOK, RunningIsServed, initialized, hostMoves, hostOnly, flagVars,
        procVars, pipeVars, readVars, pendVars, callVars, hostVars, stopVars
  <2>10. CASE initFails(h)
    BY <2>10 DEF TypeOK, RunningIsServed, initFails, hostMoves, hostOnly, flagVars,
        procVars, pipeVars, readVars, pendVars, callVars, hostVars, stopVars
  <2>11. CASE initStopped(h)
    BY <2>11 DEF TypeOK, RunningIsServed, initStopped, hostMoves, hostOnly,
        startFailed, flagVars, procVars, pipeVars, readVars, pendVars, callVars,
        hostVars, stopVars
  <2>12. CASE confirm(h)
    BY <2>12 DEF TypeOK, RunningIsServed, confirm, hostMoves, hostOnly, flagVars,
        procVars, pipeVars, readVars, pendVars, callVars, hostVars, stopVars
  <2>13. CASE restartStopped(h)
    BY <2>13 DEF TypeOK, RunningIsServed, restartStopped, hostMoves, hostOnly,
        flagVars, procVars, pipeVars, readVars, pendVars, callVars, hostVars, stopVars
  <2> QED BY <1>5, <2>1, <2>2, <2>3, <2>4, <2>5, <2>6, <2>7, <2>8, <2>9, <2>10, <2>11,
      <2>12, <2>13 DEF hostStep
<1>6. ASSUME NEW s \in Stoppers, stopStep(s) PROVE RunningIsServed'
  <2>1. CASE setStopping(s)
    BY <2>1 DEF TypeOK, RunningIsServed, setStopping, flagVars, procVars, pipeVars,
        readVars, pendVars, callVars, hostVars, stopVars
  <2>2. CASE fetchCmd(s)
    BY <2>2 DEF TypeOK, RunningIsServed, fetchCmd, hostOnly, flagVars, procVars,
        pipeVars, readVars, pendVars, callVars, hostVars, stopVars
  <2>3. CASE onceDo(s)
    BY <2>3 DEF TypeOK, RunningIsServed, onceDo, flagVars, procVars, pipeVars,
        readVars, pendVars, callVars, hostVars, stopVars
  <2>4. CASE teardownUnruns(s)
    BY <2>4 DEF TypeOK, RunningIsServed, teardownUnruns, flagVars, procVars, pipeVars,
        readVars, pendVars, callVars, hostVars, stopVars
  <2>5. CASE teardownCloses(s)
    BY <2>5 DEF TypeOK, RunningIsServed, teardownCloses, flagVars, procVars, pipeVars,
        readVars, pendVars, callVars, hostVars, stopVars
  <2>6. CASE teardownEnds(s)
    BY <2>6 DEF TypeOK, RunningIsServed, teardownEnds, processGone,
        flagVars, procVars, pipeVars, readVars, pendVars, callVars, hostVars, stopVars
  <2> QED BY <1>6, <2>1, <2>2, <2>3, <2>4, <2>5, <2>6 DEF stopStep
<1>7. CASE Close
  BY <1>7 DEF TypeOK, RunningIsServed, Close, hostOnly, flagVars, procVars, pipeVars,
      readVars, pendVars, callVars, hostVars, stopVars
<1>8. CASE UNCHANGED vars
  BY <1>8 DEF TypeOK, RunningIsServed, vars, flagVars, procVars, pipeVars, readVars,
      pendVars, callVars, hostVars, stopVars
<1> QED BY <1>1, <1>2, <1>3, <1>4, <1>5, <1>6, <1>7, <1>8 DEF Next

\* A plugin accepts calls only while some read loop is there to fail them,
\* because running is raised with the loop and only the loop's end, which lowers
\* it, takes the loop away (Start, readLoop).
THEOREM RunningServed == Safety => []RunningIsServed
<1>1. Init => RunningIsServed
  BY DEF Init, RunningIsServed
<1> QED BY <1>1, ServedInductive, TypeCorrect, PTL DEF Safety
---------------------------------------------------------------------------

\* Nobody names a process that has not been launched.
KnownProcs ==
    /\ cmd <= launched
    /\ \A h \in Hosts : hostProc[h] <= launched
    /\ \A s \in Stoppers : stopProc[s] <= launched

\* A teardown that is over has left no process, and every Stop of that process
\* returns after it.
TornDown ==
    /\ \A i \in Launches : once[i] = "done" => i \notin alive
    /\ \A i \in Launches : i > launched => once[i] = "new"
    /\ \A s \in Stoppers :
          stopAt[s] = "returned" /\ stopProc[s] # None => once[stopProc[s]] = "done"

\* What makes StopWaits inductive.
TearInv == KnownProcs /\ TornDown

\* A step that launches, fetches and tears down nothing.
LEMMA TearFrame ==
    ASSUME TypeOK, TearInv,
           UNCHANGED <<cmd, launched, once, hostProc, stopProc>>, alive' \subseteq alive,
           \A s \in Stoppers : stopAt'[s] = "returned" => stopAt[s] = "returned"
    PROVE  TearInv'
  BY DEF TearInv, KnownProcs, TornDown

\* The numbers of processes.
LEMMA ProcsAreNat ==
    ASSUME TypeOK
    PROVE  /\ cmd \in Nat /\ launched \in Nat
           /\ \A s \in Stoppers : stopProc[s] \in Nat
           /\ \A h \in Hosts : hostProc[h] \in Nat
<1>1. \A x \in Launches \cup {None} : x \in Nat
  BY PluginAssumption DEF Launches, None
<1>2. /\ cmd \in Launches \cup {None} /\ launched \in 0 .. MaxLaunch
      /\ \A s \in Stoppers : stopProc[s] \in Launches \cup {None}
      /\ \A h \in Hosts : hostProc[h] \in Launches \cup {None}
  BY DEF TypeOK
<1> QED BY <1>1, <1>2

\* Each step preserves TearInv.
LEMMA TearInductive == TypeOK /\ TearInv /\ [Next]_vars => TearInv'
<1> SUFFICES ASSUME TypeOK, TearInv, [Next]_vars PROVE TearInv'
  OBVIOUS
<1> USE PluginAssumption DEF None, Launches, Loader, Hosts, Closer, Stoppers
<1>1. ASSUME NEW c \in Calls, beginCall(c) \/ callStep(c) PROVE TearInv'
  BY <1>1, TearFrame DEF beginCall, callStep, registerCall, writeCall, writeFails,
     receiveReply, callTimesOut, leaveCall, procVars, hostVars, stopVars
<1>2. ASSUME NEW i \in Launches, readStep(i) PROVE TearInv'
  BY <1>2, TearFrame DEF readStep, readReply, failWaiter, deliverReply, readEOF,
     failWaiters, waitersFailed, decideRestart, procVars, hostVars, stopVars
<1>3. ASSUME NEW i \in Launches, processStep(i) PROVE TearInv'
  <2>1. CASE processDies(i)
    BY <2>1, TearFrame DEF processDies, processGone, hostVars, stopVars
  <2> QED BY <1>3, <2>1, TearFrame DEF processStep, answer, takesRequest, procVars,
          hostVars, stopVars
<1>4. ASSUME NEW h \in Hosts, launch(h) PROVE TearInv'
  <2>1. /\ launched' = launched + 1 /\ launched < MaxLaunch
        /\ alive' = alive \cup {launched + 1}
        /\ hostProc' = [hostProc EXCEPT ![h] = launched + 1]
        /\ UNCHANGED <<cmd, once, stopAt, stopProc>>
    BY <1>4 DEF launch, stopVars
  <2>2. /\ cmd \in Nat /\ launched \in Nat
        /\ \A s \in Stoppers : stopProc[s] \in Nat
        /\ \A g \in Hosts : hostProc[g] \in Nat
    BY ProcsAreNat
  <2>3. KnownProcs'
    <3>1. hostProc'[h] = launched + 1 /\ \A g \in Hosts : g # h => hostProc'[g] = hostProc[g]
      BY <2>1 DEF TypeOK
    <3>2. \A g \in Hosts : hostProc'[g] <= launched + 1
      BY <2>2, <3>1 DEF TearInv, KnownProcs
    <3> QED BY <2>1, <2>2, <3>2 DEF TearInv, KnownProcs
  <2>4. \A i \in Launches : once[i] = "done" => i \in Nat /\ i <= launched
    BY <2>2 DEF TearInv, TornDown, TypeOK
  <2>5. TornDown'
    <3>1. \A i \in Launches : once'[i] = "done" => i \notin alive'
      BY <2>1, <2>2, <2>4 DEF TearInv, TornDown
    <3>2. \A i \in Launches : i > launched' => once'[i] = "new"
      BY <2>1, <2>2 DEF TearInv, TornDown
    <3> QED BY <2>1, <3>1, <3>2 DEF TearInv, TornDown
  <2> QED BY <2>3, <2>5 DEF TearInv
<1>5. ASSUME NEW h \in Hosts, installCmd(h) PROVE TearInv'
  <2>1. /\ cmd' = hostProc[h]
        /\ UNCHANGED <<launched, alive, once, hostProc, stopAt, stopProc>>
    BY <1>5 DEF installCmd, stopVars
  <2> QED BY <2>1 DEF TearInv, KnownProcs, TornDown
<1>6. ASSUME NEW h \in Hosts, NEW at \in {"flag"}, stopAt' = [stopAt EXCEPT ![h] = at],
             UNCHANGED <<procVars, hostProc, stopProc>>
      PROVE  TearInv'
  BY <1>6, TearFrame DEF procVars, TypeOK
<1>7. ASSUME NEW h \in Hosts, hostStep(h) PROVE TearInv'
  <2>1. CASE initFails(h)
    BY <2>1, <1>6 DEF initFails, hostOnly
  <2>2. CASE confirm(h)
    <3>1. CASE stopping
      BY <2>2, <3>1, <1>6 DEF confirm, hostOnly
    <3>2. CASE ~stopping
      <4>1. stopAt' = stopAt
        BY <2>2, <3>2 DEF confirm, TypeOK
      <4> QED BY <2>2, <4>1, TearFrame DEF confirm, hostOnly, procVars
    <3> QED BY <3>1, <3>2
  <2> QED BY <1>4, <1>5, <1>7, <2>1, <2>2, TearFrame DEF hostStep, restartChecks, backoffEnds,
       clearStopping, launchFails, openStdin, setRunning, initialized, initStopped,
       restartStopped, startFailed, hostMoves, hostOnly, procVars, stopVars
<1>8. ASSUME NEW s \in Stoppers, stopStep(s) PROVE TearInv'
  <2>1. CASE fetchCmd(s)
    <3>1. /\ stopAt[s] = "fetch" /\ stopProc' = [stopProc EXCEPT ![s] = cmd]
          /\ stopAt' = [stopAt EXCEPT ![s] = IF cmd = None THEN "returned" ELSE "once"]
          /\ UNCHANGED <<cmd, launched, alive, once, hostProc>>
      BY <2>1 DEF fetchCmd, hostOnly, procVars, hostVars
    <3> QED BY <3>1 DEF TearInv, KnownProcs, TornDown, TypeOK
  <2>2. CASE onceDo(s)
    <3>1. /\ stopAt[s] = "once" /\ stopProc[s] \in Launches
          /\ once[stopProc[s]] # "busy"
          /\ once' = [once EXCEPT ![stopProc[s]] = IF @ = "new" THEN "busy" ELSE @]
          /\ stopAt' = [stopAt EXCEPT ![s] =
                           IF once[stopProc[s]] = "new" THEN "unrun" ELSE "returned"]
          /\ UNCHANGED <<cmd, launched, alive, hostProc, stopProc>>
      BY <2>2 DEF onceDo, hostVars, TypeOK
    <3>2. stopAt'[s] = "returned" => once[stopProc[s]] = "done"
      BY <3>1 DEF TypeOK
    <3>3. \A r \in Stoppers : r # s => stopAt'[r] = stopAt[r]
      BY <3>1 DEF TypeOK
    <3>4. \A i \in Launches : once[i] = "done" <=> once'[i] = "done"
      BY <3>1 DEF TypeOK
    <3>5. TornDown'
      BY <3>1, <3>2, <3>3, <3>4 DEF TearInv, TornDown, KnownProcs, TypeOK
    <3> QED BY <3>1, <3>5 DEF TearInv, KnownProcs
  <2>3. CASE teardownEnds(s)
    <3>1. /\ stopAt[s] = "reap" /\ stopProc[s] \in Launches
          /\ once' = [once EXCEPT ![stopProc[s]] = "done"]
          /\ alive' = alive \ {stopProc[s]}
          /\ stopAt' = [stopAt EXCEPT ![s] = "returned"]
          /\ UNCHANGED <<cmd, launched, hostProc, stopProc>>
      BY <2>3 DEF teardownEnds, processGone, hostVars, TypeOK
    <3>2. TornDown'
      BY <3>1 DEF TearInv, TornDown, KnownProcs, TypeOK
    <3> QED BY <3>1, <3>2 DEF TearInv, KnownProcs
  <2>4. ASSUME NEW at \in {"fetch", "close", "reap"}, stopAt' = [stopAt EXCEPT ![s] = at],
               UNCHANGED <<cmd, launched, alive, once, hostProc, stopProc>>
        PROVE  TearInv'
    BY <2>4, TearFrame DEF TypeOK
  <2> QED BY <1>8, <2>1, <2>2, <2>3, <2>4 DEF stopStep, setStopping, teardownUnruns,
       teardownCloses, procVars, hostVars
<1>9. CASE Close
  <2>1. /\ stopAt' = [stopAt EXCEPT ![Closer] = "flag"]
        /\ UNCHANGED <<procVars, hostProc, stopProc>>
    BY <1>9 DEF Close, hostOnly, hostVars
  <2> QED BY <2>1, TearFrame DEF procVars, TypeOK
<1>10. CASE UNCHANGED vars
  BY <1>10, TearFrame DEF vars, procVars, hostVars, stopVars
<1> QED BY <1>1, <1>2, <1>3, <1>7, <1>8, <1>9, <1>10 DEF Next

LEMMA TearInitial == Init => TearInv
  BY PluginAssumption DEF Init, TearInv, KnownProcs, TornDown, None, Launches, Loader, Hosts,
     Closer, Stoppers

\* Whoever calls Stop, a failing Start, a restart or Manager.Close, several at
\* once on one process included, finds the process it fetched gone when Stop
\* returns: once.Do lets nobody past before the teardown is over.  It is proved
\* for every plugin, one that does not read or floods the scanner included.
THEOREM StopWaitsCorrect == Safety => []StopWaits
<1>1. TypeOK /\ TearInv => StopWaits
  BY DEF TypeOK, TearInv, TornDown, StopWaits
<1> QED BY <1>1, TearInitial, TearInductive, TypeCorrect, PTL DEF Safety

---------------------------------------------------------------------------

Working == {"install", "open", "run", "init", "stopInit", "confirm", "stopNow"}
Stopping == {"stopInit", "stopNow"}

\* Nobody stops a plugin whose first Start is under way, and that Start is not
\* tried again.
LoaderUntold ==
    /\ stopAt[Closer] # "no" => hostAt[Loader] = "ok"
    /\ hostAt[Loader] \notin Waiting
    /\ hostAt[Loader] \in Early \cup {"init"} =>
          ~stopping /\ \A s \in Stoppers : stopAt[s] = "no"

\* A Start or a restart that calls Stop tears down the latest process.
OwnStop ==
    \A h \in Hosts :
        hostAt[h] \in Stopping /\ stopAt[h] \notin {"no", "flag", "fetch"} =>
            stopProc[h] = launched

\* A process that runs with stopping set is about to be found or torn down by a
\* Stop, or belongs to a Start that has yet to look at stopping.
StopPending ==
    stopping /\ alive # {} =>
        \/ \E s \in Stoppers : stopAt[s] = "fetch"
        \/ \E s \in Stoppers : /\ stopAt[s] \in {"once", "unrun", "close", "reap"}
                               /\ stopProc[s] = launched
        \/ \E h \in Hosts : hostAt[h] \in Working

\* What makes StopHonoured inductive, with RecoveryInv and TearInv.
HonourInv == LoaderUntold /\ OwnStop /\ StopPending

\* A step that moves no host and no Stop and starts no process.
LEMMA HonourFrame ==
    ASSUME HonourInv, UNCHANGED <<stopping, launched, hostAt, stopVars>>,
           alive' \subseteq alive
    PROVE  HonourInv'
  BY DEF HonourInv, LoaderUntold, OwnStop, StopPending, stopVars

\* The steps of Start and restart: a host leaves its work with stopping set only
\* after its own Stop, when nothing is alive.
LEMMA HonourHost ==
    ASSUME TypeOK, RecoveryInv, TearInv, HonourInv, NEW h \in Hosts, hostStep(h)
    PROVE  HonourInv'
<1> USE PluginAssumption DEF None, Launches, Loader, Hosts, Closer, Stoppers, Ended, Early,
    Late, Waiting, Working, Stopping
<1> DEFINE Moves == \A g \in Hosts : g # h => hostAt'[g] = hostAt[g]
           Leaves == /\ hostAt[h] # "ok"
                     /\ hostAt'[h] \notin Stopping
                     /\ hostAt[h] \in Stopping => stopAt[h] = "returned"
                     /\ \/ hostAt'[h] \in Working \/ hostAt[h] \notin Working
                        \/ alive = {} \/ ~stopping'
                     /\ h = Loader => /\ hostAt'[h] \notin Waiting
                                      /\ \/ hostAt'[h] \notin Early \cup {"init"}
                                         \/ hostAt[h] \in Early
                     /\ stopping' => stopping
<1>1. ASSUME Moves, Leaves, UNCHANGED <<launched, alive, stopAt, stopProc>>
      PROVE  HonourInv'
  <2>1. /\ \A g \in Hosts : g # h => hostAt'[g] = hostAt[g]
        /\ stopAt' = stopAt /\ stopProc' = stopProc
    BY <1>1
  <2>3. LoaderUntold' /\ OwnStop'
    BY <1>1, <2>1 DEF HonourInv, LoaderUntold, OwnStop
  <2>4. StopPending'
    BY <1>1, <2>1 DEF HonourInv, StopPending
  <2> QED BY <2>3, <2>4 DEF HonourInv
<1>2. ASSUME NEW at \in Stopping, hostAt' = [hostAt EXCEPT ![h] = at], hostAt[h] \in Late,
             stopAt' = [stopAt EXCEPT ![h] = "flag"],
             UNCHANGED <<stopping, launched, alive, stopProc>>
      PROVE  HonourInv'
  <2>1. /\ \A g \in Hosts : g # h => hostAt'[g] = hostAt[g] /\ stopAt'[g] = stopAt[g]
        /\ hostAt'[h] = at /\ stopAt'[h] = "flag" /\ stopAt'[Closer] = stopAt[Closer]
    BY <1>2 DEF TypeOK
  <2>2. hostAt'[Loader] \notin Early \cup {"init"}
    BY <1>2, <2>1 DEF RecoveryInv, StartAlone, OneHandshake
  <2>3. LoaderUntold'
    BY <1>2, <2>1, <2>2 DEF HonourInv, LoaderUntold
  <2>4. OwnStop' /\ StopPending'
    BY <1>2, <2>1 DEF HonourInv, OwnStop, StopPending
  <2> QED BY <2>3, <2>4 DEF HonourInv
<1>3. CASE restartChecks(h)
  <2>1. Moves /\ UNCHANGED <<launched, alive, stopAt, stopProc>>
    BY <1>3 DEF restartChecks, hostMoves, hostOnly, flagVars, procVars, stopVars, TypeOK
  <2>2. Leaves
    BY <1>3 DEF restartChecks, hostMoves, hostOnly, flagVars, procVars, stopVars, TypeOK,
       HonourInv, LoaderUntold
  <2> QED BY <1>1, <2>1, <2>2
<1>4. CASE backoffEnds(h)
  <2>1. Moves /\ UNCHANGED <<launched, alive, stopAt, stopProc>>
    BY <1>4 DEF backoffEnds, hostMoves, hostOnly, flagVars, procVars, stopVars, TypeOK
  <2>2. Leaves
    BY <1>4 DEF backoffEnds, hostMoves, hostOnly, flagVars, procVars, stopVars, TypeOK,
       HonourInv, LoaderUntold
  <2> QED BY <1>1, <2>1, <2>2
<1>5. CASE clearStopping(h)
  <2>1. Moves /\ UNCHANGED <<launched, alive, stopAt, stopProc>>
    BY <1>5 DEF clearStopping, hostMoves, procVars, stopVars, TypeOK
  <2>2. Leaves
    BY <1>5 DEF clearStopping, hostMoves, procVars, stopVars, TypeOK
  <2> QED BY <1>1, <2>1, <2>2
<1>6. CASE launch(h)
  <2>1. /\ hostAt[h] = "launch" /\ hostAt' = [hostAt EXCEPT ![h] = "install"]
        /\ launched' = launched + 1
        /\ UNCHANGED <<stopping, stopAt, stopProc>>
    BY <1>6 DEF launch, hostMoves, flagVars, stopVars
  <2>2. \A g \in Hosts : hostAt'[g] \notin Stopping
    BY <2>1 DEF RecoveryInv, StartAlone, TypeOK
  <2>3. hostAt'[h] = "install" /\ \A g \in Hosts : g # h => hostAt'[g] = hostAt[g]
    BY <2>1 DEF TypeOK
  <2>4. LoaderUntold'
    BY <2>1, <2>3 DEF HonourInv, LoaderUntold
  <2> QED BY <2>2, <2>3, <2>4 DEF HonourInv, OwnStop, StopPending
<1>7. CASE launchFails(h)
  <2>1. Moves /\ UNCHANGED <<launched, alive, stopAt, stopProc>>
    BY <1>7 DEF launchFails, startFailed, hostMoves, hostOnly, flagVars, procVars, stopVars,
       TypeOK
  <2>2. alive = {} /\ hostAt[h] = "launch"
    BY <1>7 DEF launchFails, RecoveryInv, LaunchesOne
  <2>3. Leaves
    BY <1>7, <2>2 DEF launchFails, startFailed, hostMoves, hostOnly, flagVars, TypeOK
  <2> QED BY <1>1, <2>1, <2>3
<1>8. CASE installCmd(h)
  <2>1. Moves /\ UNCHANGED <<launched, alive, stopAt, stopProc>>
    BY <1>8 DEF installCmd, hostMoves, flagVars, stopVars, TypeOK
  <2>2. Leaves
    BY <1>8 DEF installCmd, hostMoves, flagVars, stopVars, TypeOK, HonourInv, LoaderUntold
  <2> QED BY <1>1, <2>1, <2>2
<1>9. CASE openStdin(h)
  <2>1. Moves /\ UNCHANGED <<launched, alive, stopAt, stopProc>>
    BY <1>9 DEF openStdin, hostMoves, flagVars, stopVars, TypeOK
  <2>2. Leaves
    BY <1>9 DEF openStdin, hostMoves, flagVars, stopVars, TypeOK, HonourInv, LoaderUntold
  <2> QED BY <1>1, <2>1, <2>2
<1>10. CASE setRunning(h)
  <2>1. Moves /\ UNCHANGED <<launched, alive, stopAt, stopProc>>
    BY <1>10 DEF setRunning, hostMoves, procVars, stopVars, TypeOK
  <2>2. Leaves
    BY <1>10 DEF setRunning, hostMoves, procVars, stopVars, TypeOK, HonourInv, LoaderUntold
  <2> QED BY <1>1, <2>1, <2>2
<1>11. CASE initialized(h)
  <2>1. Moves /\ UNCHANGED <<launched, alive, stopAt, stopProc>>
    BY <1>11 DEF initialized, hostMoves, hostOnly, flagVars, procVars, stopVars, TypeOK
  <2>2. Leaves
    BY <1>11 DEF initialized, hostMoves, hostOnly, flagVars, procVars, stopVars, TypeOK, HonourInv, LoaderUntold
  <2> QED BY <1>1, <2>1, <2>2
<1>12. CASE initFails(h)
  BY <1>2, <1>12 DEF initFails, hostMoves, hostOnly, flagVars, procVars
<1>13. ASSUME hostAt[h] \in Stopping, stopAt[h] = "returned" PROVE alive = {}
  <2>1. stopProc[h] = launched
    BY <1>13 DEF HonourInv, OwnStop
  <2>2. launched # None => launched \notin alive
    BY <1>13, <2>1 DEF TearInv, TornDown, TypeOK
  <2> QED BY <2>2 DEF RecoveryInv, OnlyLatest, TypeOK
<1>14. CASE initStopped(h)
  <2>1. Moves /\ UNCHANGED <<launched, alive, stopAt, stopProc>>
    BY <1>14 DEF initStopped, startFailed, hostMoves, hostOnly, flagVars, procVars, stopVars, TypeOK
  <2>2. Leaves
    BY <1>14, <1>13 DEF initStopped, startFailed, hostMoves, hostOnly, flagVars, procVars, stopVars, TypeOK
  <2> QED BY <1>1, <2>1, <2>2
<1>15. CASE confirm(h)
  <2>1. CASE stopping
    BY <1>2, <1>15, <2>1 DEF confirm, hostMoves, hostOnly, flagVars, procVars
  <2>2. CASE ~stopping
    <3>1. stopAt' = stopAt
      BY <1>15, <2>2 DEF confirm, TypeOK
    <3>2. Moves /\ Leaves /\ UNCHANGED <<launched, alive, stopProc>>
      BY <1>15, <2>2 DEF confirm, hostMoves, hostOnly, flagVars, procVars, TypeOK
    <3> QED BY <1>1, <3>1, <3>2
  <2> QED BY <2>1, <2>2
<1>16. CASE restartStopped(h)
  <2>1. Moves /\ UNCHANGED <<launched, alive, stopAt, stopProc>>
    BY <1>16 DEF restartStopped, hostMoves, hostOnly, flagVars, procVars, stopVars, TypeOK
  <2>2. Leaves
    BY <1>16, <1>13 DEF restartStopped, hostMoves, hostOnly, flagVars, procVars, stopVars, TypeOK
  <2> QED BY <1>1, <2>1, <2>2
<1> QED
  BY <1>3, <1>4, <1>5, <1>6, <1>7, <1>8, <1>9, <1>10, <1>11, <1>12, <1>14, <1>15, <1>16
     DEF hostStep

\* The steps of Stop.
LEMMA HonourStop ==
    ASSUME TypeOK, RecoveryInv, TearInv, HonourInv, NEW s \in Stoppers, stopStep(s)
    PROVE  HonourInv'
<1> USE PluginAssumption DEF None, Launches, Loader, Hosts, Closer, Stoppers, Ended, Early,
    Late, Waiting, Working, Stopping
<1>1. CASE setStopping(s)
  <2>1. /\ stopAt[s] = "flag" /\ stopAt' = [stopAt EXCEPT ![s] = "fetch"]
        /\ UNCHANGED <<hostAt, launched, alive, stopProc>>
    BY <1>1 DEF setStopping, procVars, hostVars
  <2>2. stopAt'[s] = "fetch" /\ \A r \in Stoppers : r # s => stopAt'[r] = stopAt[r]
    BY <2>1 DEF TypeOK
  <2>3. LoaderUntold'
    BY <2>1, <2>2 DEF HonourInv, LoaderUntold
  <2>4. OwnStop'
    BY <2>1, <2>2 DEF HonourInv, OwnStop
  <2> QED BY <2>1, <2>2, <2>3, <2>4 DEF HonourInv, StopPending
<1>2. CASE fetchCmd(s)
  <2>1. /\ stopAt[s] = "fetch" /\ stopProc' = [stopProc EXCEPT ![s] = cmd]
        /\ stopAt' = [stopAt EXCEPT ![s] = IF cmd = None THEN "returned" ELSE "once"]
        /\ UNCHANGED <<stopping, hostAt, launched, alive>>
    BY <1>2 DEF fetchCmd, hostOnly, flagVars, procVars, hostVars
  <2>2. /\ stopAt'[s] \in {"returned", "once"} /\ stopProc'[s] = cmd
        /\ cmd # None => stopAt'[s] = "once"
        /\ \A r \in Stoppers : r # s => stopAt'[r] = stopAt[r] /\ stopProc'[r] = stopProc[r]
    BY <2>1 DEF TypeOK
  <2>3. (\A h \in Hosts : hostAt[h] # "install") => cmd = launched
    BY DEF RecoveryInv, InstallsLatest
  <2>4. \A h \in Hosts : hostAt[h] \in Stopping => cmd = launched
    BY <2>3 DEF RecoveryInv, StartAlone
  <2>5. LoaderUntold'
    BY <2>1, <2>2 DEF HonourInv, LoaderUntold
  <2>6. OwnStop'
    BY <2>1, <2>2, <2>4 DEF HonourInv, OwnStop
  <2>7. StopPending'
    <3>1. CASE \E h \in Hosts : hostAt[h] = "install"
      BY <3>1, <2>1 DEF StopPending
    <3>2. CASE \A h \in Hosts : hostAt[h] # "install"
      <4>1. cmd = None => alive = {}
        BY <3>2, <2>3 DEF TypeOK
      <4> QED BY <3>2, <4>1, <2>1, <2>2, <2>3 DEF StopPending
    <3> QED BY <3>1, <3>2
  <2> QED BY <2>5, <2>6, <2>7 DEF HonourInv
<1>3. ASSUME NEW at \in {"unrun", "close", "reap", "returned"},
             stopAt[s] \in {"once", "unrun", "close", "reap"},
             stopAt' = [stopAt EXCEPT ![s] = at],
             at = "returned" => stopProc[s] # launched \/ alive' = {},
             alive' \subseteq alive,
             UNCHANGED <<stopping, hostAt, launched, stopProc>>
      PROVE  HonourInv'
  <2>1. stopAt'[s] = at /\ \A r \in Stoppers : r # s => stopAt'[r] = stopAt[r]
    BY <1>3 DEF TypeOK
  <2>2. LoaderUntold' /\ OwnStop'
    BY <1>3, <2>1 DEF HonourInv, LoaderUntold, OwnStop
  <2>3. StopPending'
    BY <1>3, <2>1 DEF HonourInv, StopPending
  <2> QED BY <2>2, <2>3 DEF HonourInv
<1>4. CASE onceDo(s)
  <2>1. CASE once[stopProc[s]] = "new"
    BY <1>3, <1>4, <2>1 DEF onceDo, flagVars, hostVars
  <2>2. CASE once[stopProc[s]] # "new"
    <3>1. stopProc[s] = launched => alive = {}
      BY <1>4, <2>2 DEF onceDo, TypeOK, TearInv, TornDown, RecoveryInv, OnlyLatest
    <3> QED BY <1>3, <1>4, <2>2, <3>1 DEF onceDo, flagVars, hostVars
  <2> QED BY <2>1, <2>2
<1>5. CASE teardownUnruns(s)
  BY <1>3, <1>5 DEF teardownUnruns, procVars, hostVars
<1>6. CASE teardownCloses(s)
  BY <1>3, <1>6 DEF teardownCloses, flagVars, hostVars
<1>7. CASE teardownEnds(s)
  <2>1. alive' = alive \ {stopProc[s]}
    BY <1>7 DEF teardownEnds, processGone
  <2>2. stopProc[s] = launched => alive' = {}
    BY <2>1 DEF RecoveryInv, OnlyLatest
  <2> QED BY <1>3, <1>7, <2>1, <2>2 DEF teardownEnds, flagVars, hostVars
<1> QED BY <1>1, <1>2, <1>4, <1>5, <1>6, <1>7 DEF stopStep

\* Each step preserves HonourInv.
LEMMA HonourInductive ==
    TypeOK /\ RecoveryInv /\ TearInv /\ HonourInv /\ [Next]_vars => HonourInv'
<1> SUFFICES ASSUME TypeOK, RecoveryInv, TearInv, HonourInv, [Next]_vars PROVE HonourInv'
  OBVIOUS
<1>1. ASSUME NEW c \in Calls, beginCall(c) \/ callStep(c) PROVE HonourInv'
  BY <1>1, HonourFrame DEF beginCall, callStep, registerCall, writeCall, writeFails,
     receiveReply, callTimesOut, leaveCall, flagVars, procVars, hostVars
<1>2. ASSUME NEW i \in Launches, decideRestart(i) PROVE HonourInv'
  <2>1. CASE stopping
    <3>1. hostAt' = hostAt
      BY <1>2, <2>1 DEF decideRestart, TypeOK
    <3> QED BY <1>2, <3>1, HonourFrame DEF decideRestart, flagVars, procVars
  <2>2. CASE ~stopping
    <3>1. /\ hostAt' = [hostAt EXCEPT ![i] = "check"] /\ ~stopping'
          /\ UNCHANGED <<launched, stopVars>>
      BY <1>2, <2>2 DEF decideRestart, flagVars, procVars, TypeOK
    <3>2. i \in Hosts /\ i # Loader
      BY PluginAssumption DEF Launches, Loader, Hosts
    <3> QED BY <3>1, <3>2 DEF TypeOK, HonourInv, LoaderUntold, OwnStop, StopPending, Stopping,
           stopVars
  <2> QED BY <2>1, <2>2
<1>3. ASSUME NEW i \in Launches, readStep(i) PROVE HonourInv'
  BY <1>2, <1>3, HonourFrame DEF readStep, readReply, failWaiter, deliverReply, readEOF,
     failWaiters, waitersFailed, flagVars, procVars, hostVars
<1>4. ASSUME NEW i \in Launches, processStep(i) PROVE HonourInv'
  <2>1. CASE processDies(i)
    BY <2>1, HonourFrame DEF processDies, processGone, flagVars, hostVars
  <2> QED BY <1>4, <2>1, HonourFrame DEF processStep, answer, takesRequest, flagVars, procVars,
          hostVars
<1>5. CASE Close
  <2>1. /\ stopAt[Closer] = "no" /\ stopAt' = [stopAt EXCEPT ![Closer] = "flag"]
        /\ hostAt[Loader] = "ok"
        /\ UNCHANGED <<stopping, hostAt, launched, alive, stopProc>>
    BY <1>5 DEF Close, hostOnly, flagVars, procVars, hostVars
  <2>2. Closer \in Stoppers /\ Closer \notin Hosts /\ Hosts \subseteq Stoppers
    BY PluginAssumption DEF Closer, Stoppers, Hosts, Loader, Launches
  <2>3. stopAt'[Closer] = "flag" /\ \A s \in Stoppers : s # Closer => stopAt'[s] = stopAt[s]
    BY <2>1, <2>2 DEF TypeOK
  <2>4. LoaderUntold'
    BY <2>1 DEF HonourInv, LoaderUntold, Early
  <2>5. OwnStop'
    BY <2>1, <2>2, <2>3 DEF HonourInv, OwnStop
  <2>6. StopPending'
    BY <2>1, <2>2, <2>3 DEF HonourInv, StopPending
  <2> QED BY <2>4, <2>5, <2>6 DEF HonourInv
<1>6. CASE UNCHANGED vars
  BY <1>6, HonourFrame DEF vars, flagVars, procVars, hostVars
<1> QED BY <1>1, <1>3, <1>4, <1>5, <1>6, HonourHost, HonourStop DEF Next

LEMMA HonourInitial == Init => HonourInv
  BY PluginAssumption DEF Init, HonourInv, LoaderUntold, OwnStop, StopPending,
     Stopping, Early, Waiting, None, Launches, Loader, Hosts, Closer, Stoppers

\* With stopping set, and nobody in restart or Stop, the plugin has no process:
\* a Stop tears down the process it finds, and a Start that it came too early
\* for looks at stopping when it is done and calls Stop itself.  The scanner's
\* buffer holds every line.
THEOREM StopCorrect ==
    ASSUME ~OverlongLines
    PROVE  Safety => []StopHonoured
<1>1. HonourInv => StopHonoured
  BY DEF HonourInv, StopPending, StopHonoured, Working, Ended
<1> QED BY <1>1, RecoveryInitial, TearInitial, HonourInitial, RecoveryInductive, TearInductive,
        HonourInductive, TypeCorrect, PTL DEF Safety
===========================================================================
