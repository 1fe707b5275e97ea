-------------------------- MODULE ExternalPlugin --------------------------
(***************************************************************************)
(* One plugin subprocess (internal/plugin/external.go): Start with its     *)
(* handshake, calls matched to replies by ID, the read loop, recovery from *)
(* a crash, and Stop from several callers at once.                         *)
(*                                                                         *)
(* Every launch of the process has a number, which also names its read     *)
(* loop, its sync.Once, its initialize call and the restart goroutine that *)
(* its read loop may start.  The plugin itself is external: it answers a   *)
(* request at most once, or not at all, and may die at any time.           *)
(***************************************************************************)
EXTENDS Integers, FiniteSets

CONSTANTS
    MaxLaunch,    \* bound on the processes launched
    MaxRequests,  \* bound on the tool calls, events and ready passes
    Attempts,     \* restartAttempts
    OverlongLines, \* the plugin may write a line the scanner cannot hold
    Shutdown      \* the server may be told to stop

ASSUME PluginAssumption ==
    /\ MaxLaunch \in Nat \ {0}
    /\ MaxRequests \in Nat
    /\ Attempts \in Nat \ {0}
    /\ OverlongLines \in BOOLEAN
    /\ Shutdown \in BOOLEAN

None == 0
Launches == 1 .. MaxLaunch
Requests == MaxLaunch + 1 .. MaxLaunch + MaxRequests
Calls == Launches \cup Requests    \* call i \in Launches is process i's initialize
Loader == 0                        \* Manager.load, which runs the first Start
Hosts == {Loader} \cup Launches
Closer == MaxLaunch + 1            \* Manager.Close
Stoppers == Hosts \cup {Closer}

VARIABLES
    stopping, running,
    cmd,          \* the process Stop would tear down
    stdin,        \* the process write would write to
    stdinClosed,  \* processes whose stdin has been closed
    writeMu,      \* the call that keeps writeMu while it encodes
    launched,     \* how many have been launched
    alive,        \* processes that are running
    once,         \* stopOnce of each process
    sent,         \* <<process, call>>: read by the process and unanswered
    stdout,       \* <<process, call>>: answers in the pipe
    reader,       \* where each read loop is
    target,       \* the call each read loop is about to answer
    pending,      \* the calls registered in p.pending
    pendingMu,    \* the read loop that keeps pendingMu while it sends
    left,         \* waiters it has yet to fail
    reply,        \* each call's one-slot reply channel
    callAt,       \* where each call is
    got,          \* what each initialize has returned
    hostAt, hostProc, attempt,  \* Start, and the restart around it
    stopAt, stopProc            \* Stop, for each of its callers

flagVars == <<stopping, running>>
procVars == <<cmd, stdin, stdinClosed, launched, alive, once>>
pipeVars == <<writeMu, sent, stdout>>
readVars == <<reader, target>>
pendVars == <<pending, pendingMu, left, reply>>
callVars == <<callAt, got>>
hostVars == <<hostAt, hostProc, attempt>>
stopVars == <<stopAt, stopProc>>
vars == <<flagVars, procVars, pipeVars, readVars, pendVars, callVars,
          hostVars, stopVars>>

---------------------------------------------------------------------------
(* call: Execute, HandleEvent and Ready for a request, initialize for Start *)

\* Tools are registered once the plugin has loaded; a plugin that is not
\* running refuses the call.
beginCall(c) ==
    /\ c \in Requests
    /\ callAt[c] = "idle"
    /\ hostAt[Loader] = "ok"
    /\ callAt' = [callAt EXCEPT ![c] = IF running THEN "register" ELSE "returned"]
    /\ UNCHANGED <<flagVars, procVars, pipeVars, readVars, pendVars, got,
                   hostVars, stopVars>>

registerCall(c) ==
    /\ callAt[c] = "register"
    /\ pendingMu = None
    /\ pending' = pending \cup {c}
    /\ callAt' = [callAt EXCEPT ![c] = "write"]
    /\ UNCHANGED <<flagVars, procVars, pipeVars, readVars, pendingMu, left,
                   reply, got, hostVars, stopVars>>

writeCall(c) ==
    /\ callAt[c] = "write"
    /\ writeMu = None
    /\ writeMu' = c
    /\ callAt' = [callAt EXCEPT ![c] = "encode"]
    /\ UNCHANGED <<flagVars, procVars, sent, stdout, readVars, pendVars, got,
                   hostVars, stopVars>>

\* Encode returns an error: never started, stdin closed, or the process gone.
writeFails(c) ==
    /\ callAt[c] = "encode"
    /\ stdin \notin alive \ stdinClosed
    /\ writeMu' = None
    /\ callAt' = [callAt EXCEPT ![c] = "leave"]
    /\ UNCHANGED <<flagVars, procVars, sent, stdout, readVars, pendVars, got,
                   hostVars, stopVars>>

\* The plugin may answer with an error; "plugin exited" is one.
ResultOf(resp) == IF resp = "answer" THEN {"result", "error"} ELSE {"error"}

receiveReply(c) ==
    /\ callAt[c] = "wait"
    /\ reply[c] # "empty"
    /\ IF c \in Launches
       THEN \E result \in ResultOf(reply[c]) : got' = [got EXCEPT ![c] = result]
       ELSE UNCHANGED got
    /\ reply' = [reply EXCEPT ![c] = "empty"]
    /\ callAt' = [callAt EXCEPT ![c] = "leave"]
    /\ UNCHANGED <<flagVars, procVars, pipeVars, readVars, pending, pendingMu,
                   left, hostVars, stopVars>>

\* The select's other case, also when both are ready.
callTimesOut(c) ==
    /\ callAt[c] = "wait"
    /\ callAt' = [callAt EXCEPT ![c] = "leave"]
    /\ UNCHANGED <<flagVars, procVars, pipeVars, readVars, pendVars, got,
                   hostVars, stopVars>>

\* The deferred delete.
leaveCall(c) ==
    /\ callAt[c] = "leave"
    /\ pendingMu = None
    /\ pending' = pending \ {c}
    /\ callAt' = [callAt EXCEPT ![c] = "returned"]
    /\ UNCHANGED <<flagVars, procVars, pipeVars, readVars, pendingMu, left,
                   reply, got, hostVars, stopVars>>

---------------------------------------------------------------------------
(* The plugin process *)

\* The pipe takes the request: it has room, or the plugin makes some.  A plugin
\* that does not read leaves the writer in Encode, with writeMu.
takesRequest(i, c) ==
    /\ i \in alive \ stdinClosed
    /\ stdin = i
    /\ callAt[c] = "encode"
    /\ writeMu' = None
    /\ sent' = sent \cup {<<i, c>>}
    /\ callAt' = [callAt EXCEPT ![c] = "wait"]
    /\ UNCHANGED <<flagVars, procVars, stdout, readVars, pendVars, got,
                   hostVars, stopVars>>

answer(i, c) ==
    /\ i \in alive
    /\ <<i, c>> \in sent
    /\ sent' = sent \ {<<i, c>>}
    /\ stdout' = stdout \cup {<<i, c>>}
    /\ UNCHANGED <<flagVars, procVars, writeMu, readVars, pendVars, callVars, hostVars,
                   stopVars>>

processGone(i) ==
    /\ alive' = alive \ {i}
    /\ sent' = {x \in sent : x[1] # i}

\* A crash, or its own exit once stdin is closed.
processDies(i) ==
    /\ i \in alive
    /\ processGone(i)
    /\ UNCHANGED <<flagVars, cmd, stdin, stdinClosed, launched, once, writeMu,
                   stdout, readVars, pendVars, callVars, hostVars, stopVars>>

---------------------------------------------------------------------------
(* readLoop *)

readReply(i, c) ==
    /\ reader[i] = "scan"
    /\ <<i, c>> \in stdout
    /\ pendingMu = None
    /\ stdout' = stdout \ {<<i, c>>}
    /\ IF c \in pending
       THEN /\ reader' = [reader EXCEPT ![i] = "deliver"]
            /\ target' = [target EXCEPT ![i] = c]
       ELSE UNCHANGED readVars
    /\ UNCHANGED <<flagVars, procVars, writeMu, sent, pendVars, callVars,
                   hostVars, stopVars>>

deliverReply(i) ==
    /\ reader[i] = "deliver"
    /\ reply[target[i]] = "empty"
    /\ reply' = [reply EXCEPT ![target[i]] = "answer"]
    /\ reader' = [reader EXCEPT ![i] = "scan"]
    /\ target' = [target EXCEPT ![i] = None]
    /\ UNCHANGED <<flagVars, procVars, pipeVars, pending, pendingMu, left,
                   callVars, hostVars, stopVars>>

\* stdout closed: the process is gone and everything it wrote is read.  The
\* scanner also stops at a line longer than its buffer.
readEOF(i) ==
    /\ reader[i] = "scan"
    /\ \/ i \notin alive /\ \A c \in Calls : <<i, c>> \notin stdout
       \/ OverlongLines
    /\ running' = FALSE
    /\ reader' = [reader EXCEPT ![i] = "eof"]
    /\ UNCHANGED <<stopping, procVars, pipeVars, target, pendVars, callVars,
                   hostVars, stopVars>>

failWaiters(i) ==
    /\ reader[i] = "eof"
    /\ pendingMu = None
    /\ pendingMu' = i
    /\ left' = pending
    /\ reader' = [reader EXCEPT ![i] = "failing"]
    /\ UNCHANGED <<flagVars, procVars, pipeVars, target, pending, reply,
                   callVars, hostVars, stopVars>>

\* A send on a one-slot channel, under pendingMu.
failWaiter(i, c) ==
    /\ reader[i] = "failing"
    /\ c \in left
    /\ reply[c] = "empty"
    /\ reply' = [reply EXCEPT ![c] = "exited"]
    /\ left' = left \ {c}
    /\ UNCHANGED <<flagVars, procVars, pipeVars, readVars, pending, pendingMu,
                   callVars, hostVars, stopVars>>

waitersFailed(i) ==
    /\ reader[i] = "failing"
    /\ left = {}
    /\ pending' = {}
    /\ pendingMu' = None
    /\ reader' = [reader EXCEPT ![i] = "decide"]
    /\ UNCHANGED <<flagVars, procVars, pipeVars, target, left, reply, callVars,
                   hostVars, stopVars>>

\* A crash starts a restart goroutine, a deliberate shutdown does not.
decideRestart(i) ==
    /\ reader[i] = "decide"
    /\ reader' = [reader EXCEPT ![i] = "done"]
    /\ hostAt' = [hostAt EXCEPT ![i] = IF stopping THEN @ ELSE "check"]
    /\ UNCHANGED <<flagVars, procVars, pipeVars, target, pendVars, callVars,
                   hostProc, attempt, stopVars>>

---------------------------------------------------------------------------
(* restart and Start *)

hostMoves(h, at) == hostAt' = [hostAt EXCEPT ![h] = at]
hostOnly == UNCHANGED <<flagVars, procVars, pipeVars, readVars, pendVars, callVars>>

Ended == {"ok", "failed", "stopped", "gaveUp"}

restartChecks(h) ==
    /\ hostAt[h] = "check"
    /\ hostMoves(h, IF stopping THEN "stopped" ELSE "backoff")
    /\ hostOnly /\ UNCHANGED <<hostProc, attempt, stopVars>>

\* A backoff lasts a second or more: a Start whose process died has run the few
\* instructions up to its Stop, and to its return, by then.
backoffEnds(h) ==
    /\ hostAt[h] = "backoff"
    /\ \A g \in Hosts \ {h} : hostAt[g] \in Ended \cup {"none", "backoff"}
    /\ hostMoves(h, IF stopping THEN "stopped" ELSE "clear")
    /\ hostOnly /\ UNCHANGED <<hostProc, attempt, stopVars>>

clearStopping(h) ==
    /\ hostAt[h] = "clear"
    /\ stopping' = FALSE
    /\ hostMoves(h, "launch")
    /\ UNCHANGED <<running, procVars, pipeVars, readVars, pendVars, callVars,
                   hostProc, attempt, stopVars>>

startFailed_OffByOne(h) ==
    /\ hostMoves(h, IF h = Loader THEN "failed"
                    ELSE IF attempt[h] > Attempts THEN "gaveUp" ELSE "check")
    /\ attempt' = [attempt EXCEPT ![h] =
                      IF h = Loader \/ @ > Attempts THEN @ ELSE @ + 1]

\* Start returned an error: the loader skips the plugin, a restart counts.
startFailed(h) ==
    /\ hostMoves(h, IF h = Loader THEN "failed"
                    ELSE IF attempt[h] = Attempts THEN "gaveUp" ELSE "check")
    /\ attempt' = [attempt EXCEPT ![h] =
                      IF h = Loader \/ @ = Attempts THEN @ ELSE @ + 1]

\* The build, the environment, a pipe or the exec fails.
launchFails(h) ==
    /\ hostAt[h] = "launch"
    /\ startFailed(h)
    /\ hostOnly /\ UNCHANGED <<hostProc, stopVars>>

launch(h) ==
    /\ hostAt[h] = "launch"
    /\ launched < MaxLaunch
    /\ launched' = launched + 1
    /\ alive' = alive \cup {launched'}
    /\ hostProc' = [hostProc EXCEPT ![h] = launched']
    /\ hostMoves(h, "install")
    /\ UNCHANGED <<flagVars, cmd, stdin, stdinClosed, once, pipeVars, readVars,
                   pendVars, callVars, attempt, stopVars>>

installCmd_FirstOnly(h) ==
    /\ hostAt[h] = "install"
    /\ cmd' = IF cmd = None THEN hostProc[h] ELSE cmd
    /\ hostMoves(h, "open")
    /\ UNCHANGED <<flagVars, stdin, stdinClosed, launched, alive, once, pipeVars,
                   readVars, pendVars, callVars, hostProc, attempt, stopVars>>

installCmd(h) ==
    /\ hostAt[h] = "install"
    /\ cmd' = hostProc[h]
    /\ hostMoves(h, "open")
    /\ UNCHANGED <<flagVars, stdin, stdinClosed, launched, alive, once, pipeVars,
                   readVars, pendVars, callVars, hostProc, attempt, stopVars>>

openStdin(h) ==
    /\ hostAt[h] = "open"
    /\ writeMu = None
    /\ stdin' = hostProc[h]
    /\ hostMoves(h, "run")
    /\ UNCHANGED <<flagVars, cmd, stdinClosed, launched, alive, once, pipeVars,
                   readVars, pendVars, callVars, hostProc, attempt, stopVars>>

setRunning_ReaderFirst(h) ==
    LET i == hostProc[h] IN
    /\ \/ /\ hostAt[h] = "run"
          /\ reader' = [reader EXCEPT ![i] = "scan"]
          /\ hostMoves(h, "init")
          /\ UNCHANGED <<running, callAt>>
       \/ /\ hostAt[h] = "init" /\ callAt[i] = "idle"
          /\ running' = TRUE
          /\ callAt' = [callAt EXCEPT ![i] = "register"]
          /\ UNCHANGED <<reader, hostAt>>
    /\ UNCHANGED <<stopping, procVars, pipeVars, target, pendVars, got, hostProc,
                   attempt, stopVars>>

\* The flag is raised before the read loop that will lower it exists.
setRunning(h) ==
    /\ hostAt[h] = "run"
    /\ running' = TRUE
    /\ reader' = [reader EXCEPT ![hostProc[h]] = "scan"]
    /\ callAt' = [callAt EXCEPT ![hostProc[h]] = "register"]
    /\ hostMoves(h, "init")
    /\ UNCHANGED <<stopping, procVars, pipeVars, target, pendVars, got, hostProc,
                   attempt, stopVars>>

\* restart looks at stopping once more: a shutdown may have landed meanwhile.
initialized(h) ==
    /\ hostAt[h] = "init"
    /\ callAt[hostProc[h]] = "returned"
    /\ got[hostProc[h]] = "result"
    /\ hostMoves(h, IF h = Loader THEN "ok" ELSE "confirm")
    /\ hostOnly /\ UNCHANGED <<hostProc, attempt, stopVars>>

\* The handshake failed: Start tears down what it launched.
initFails(h) ==
    /\ hostAt[h] = "init"
    /\ callAt[hostProc[h]] = "returned"
    /\ got[hostProc[h]] # "result"
    /\ hostMoves(h, "stopInit")
    /\ stopAt' = [stopAt EXCEPT ![h] = "flag"]
    /\ hostOnly /\ UNCHANGED <<hostProc, attempt, stopProc>>

initStopped(h) ==
    /\ hostAt[h] = "stopInit"
    /\ stopAt[h] = "returned"
    /\ startFailed(h)
    /\ hostOnly /\ UNCHANGED <<hostProc, stopVars>>

confirm_NoRecheck(h) ==
    /\ hostAt[h] = "confirm"
    /\ hostMoves(h, "ok")
    /\ hostOnly /\ UNCHANGED <<hostProc, attempt, stopVars>>

confirm(h) ==
    /\ hostAt[h] = "confirm"
    /\ hostMoves(h, IF stopping THEN "stopNow" ELSE "ok")
    /\ stopAt' = [stopAt EXCEPT ![h] = IF stopping THEN "flag" ELSE @]
    /\ hostOnly /\ UNCHANGED <<hostProc, attempt, stopProc>>

restartStopped(h) ==
    /\ hostAt[h] = "stopNow"
    /\ stopAt[h] = "returned"
    /\ hostMoves(h, "stopped")
    /\ hostOnly /\ UNCHANGED <<hostProc, attempt, stopVars>>

---------------------------------------------------------------------------
(* Stop *)

\* Manager.Close knows the plugins whose first Start succeeded.
Close ==
    /\ Shutdown
    /\ hostAt[Loader] = "ok"
    /\ stopAt[Closer] = "no"
    /\ stopAt' = [stopAt EXCEPT ![Closer] = "flag"]
    /\ hostOnly /\ UNCHANGED <<hostVars, stopProc>>

setStopping(s) ==
    /\ stopAt[s] = "flag"
    /\ stopping' = TRUE
    /\ stopAt' = [stopAt EXCEPT ![s] = "fetch"]
    /\ UNCHANGED <<running, procVars, pipeVars, readVars, pendVars, callVars,
                   hostVars, stopProc>>

fetchCmd(s) ==
    /\ stopAt[s] = "fetch"
    /\ stopProc' = [stopProc EXCEPT ![s] = cmd]
    /\ stopAt' = [stopAt EXCEPT ![s] = IF cmd = None THEN "returned" ELSE "once"]
    /\ hostOnly /\ UNCHANGED hostVars

onceDo_NoWait(s) ==
    /\ stopAt[s] = "once"
    /\ once' = [once EXCEPT ![stopProc[s]] = IF @ = "new" THEN "busy" ELSE @]
    /\ stopAt' = [stopAt EXCEPT ![s] =
                     IF once[stopProc[s]] = "new" THEN "unrun" ELSE "returned"]
    /\ UNCHANGED <<flagVars, cmd, stdin, stdinClosed, launched, alive, pipeVars,
                   readVars, pendVars, callVars, hostVars, stopProc>>

\* once.Do: the first caller tears down, the others wait for it to finish.
onceDo(s) ==
    /\ stopAt[s] = "once"
    /\ once[stopProc[s]] # "busy"
    /\ once' = [once EXCEPT ![stopProc[s]] = IF @ = "new" THEN "busy" ELSE @]
    /\ stopAt' = [stopAt EXCEPT ![s] =
                     IF once[stopProc[s]] = "new" THEN "unrun" ELSE "returned"]
    /\ UNCHANGED <<flagVars, cmd, stdin, stdinClosed, launched, alive, pipeVars,
                   readVars, pendVars, callVars, hostVars, stopProc>>

teardownUnruns(s) ==
    /\ stopAt[s] = "unrun"
    /\ running' = FALSE
    /\ stopAt' = [stopAt EXCEPT ![s] = "close"]
    /\ UNCHANGED <<stopping, procVars, pipeVars, readVars, pendVars, callVars,
                   hostVars, stopProc>>

\* Whatever stdin is installed by now, once no call is writing to it.
teardownCloses(s) ==
    /\ stopAt[s] = "close"
    /\ writeMu = None
    /\ stdinClosed' = stdinClosed \cup ({stdin} \ {None})
    /\ stopAt' = [stopAt EXCEPT ![s] = "reap"]
    /\ UNCHANGED <<flagVars, cmd, stdin, launched, alive, once, pipeVars,
                   readVars, pendVars, callVars, hostVars, stopProc>>

\* It exited by itself, or on SIGTERM, or it is killed.  Wait closes stdout, and
\* an answer the read loop has not taken by then may be lost.
teardownEnds(s) ==
    /\ stopAt[s] = "reap"
    /\ processGone(stopProc[s])
    /\ stdout' \in {stdout, {x \in stdout : x[1] # stopProc[s]}}
    /\ once' = [once EXCEPT ![stopProc[s]] = "done"]
    /\ stopAt' = [stopAt EXCEPT ![s] = "returned"]
    /\ UNCHANGED <<flagVars, cmd, stdin, stdinClosed, launched, writeMu, readVars,
                   pendVars, callVars, hostVars, stopProc>>

---------------------------------------------------------------------------

Init ==
    /\ stopping = FALSE
    /\ running = FALSE
    /\ cmd = None
    /\ stdin = None
    /\ stdinClosed = {}
    /\ writeMu = None
    /\ launched = 0
    /\ alive = {}
    /\ once = [i \in Launches |-> "new"]
    /\ sent = {}
    /\ stdout = {}
    /\ reader = [i \in Launches |-> "none"]
    /\ target = [i \in Launches |-> None]
    /\ pending = {}
    /\ pendingMu = None
    /\ left = {}
    /\ reply = [c \in Calls |-> "empty"]
    /\ callAt = [c \in Calls |-> "idle"]
    /\ got = [i \in Launches |-> "nothing"]
    /\ hostAt = [h \in Hosts |-> IF h = Loader THEN "clear" ELSE "none"]
    /\ hostProc = [h \in Hosts |-> None]
    /\ attempt = [h \in Hosts |-> 1]
    /\ stopAt = [s \in Stoppers |-> "no"]
    /\ stopProc = [s \in Stoppers |-> None]

callStep(c) ==
    \/ registerCall(c) \/ writeCall(c) \/ writeFails(c) \/ receiveReply(c)
    \/ callTimesOut(c) \/ leaveCall(c)

readStep(i) ==
    \/ \E c \in Calls : readReply(i, c) \/ failWaiter(i, c)
    \/ deliverReply(i) \/ readEOF(i) \/ failWaiters(i) \/ waitersFailed(i)
    \/ decideRestart(i)

hostStep(h) ==
    \/ restartChecks(h) \/ backoffEnds(h) \/ clearStopping(h)
    \/ launch(h) \/ launchFails(h) \/ installCmd(h) \/ openStdin(h)
    \/ setRunning(h) \/ initialized(h) \/ initFails(h) \/ initStopped(h)
    \/ confirm(h) \/ restartStopped(h)

stopStep(s) ==
    \/ setStopping(s) \/ fetchCmd(s) \/ onceDo(s) \/ teardownUnruns(s)
    \/ teardownCloses(s) \/ teardownEnds(s)

processStep(i) ==
    \/ processDies(i)
    \/ \E c \in Calls : takesRequest(i, c) \/ answer(i, c)

Next ==
    \/ \E c \in Calls : beginCall(c) \/ callStep(c)
    \/ \E i \in Launches : readStep(i) \/ processStep(i)
    \/ \E h \in Hosts : hostStep(h)
    \/ Close
    \/ \E s \in Stoppers : stopStep(s)

Safety == Init /\ [][Next]_vars

---------------------------------------------------------------------------
(* Properties *)

TypeOK ==
    /\ stopping \in BOOLEAN
    /\ running \in BOOLEAN
    /\ cmd \in Launches \cup {None}
    /\ stdin \in Launches \cup {None}
    /\ stdinClosed \subseteq Launches
    /\ writeMu \in Calls \cup {None}
    /\ launched \in 0 .. MaxLaunch
    /\ alive \subseteq 1 .. launched
    /\ once \in [Launches -> {"new", "busy", "done"}]
    /\ sent \subseteq Launches \X Calls
    /\ stdout \subseteq Launches \X Calls
    /\ reader \in [Launches -> {"none", "scan", "deliver", "eof", "failing",
                                "decide", "done"}]
    /\ target \in [Launches -> Calls \cup {None}]
    /\ \A i \in Launches : reader[i] = "deliver" => target[i] \in Calls
    /\ pending \subseteq Calls
    /\ pendingMu \in Launches \cup {None}
    /\ left \subseteq Calls
    /\ reply \in [Calls -> {"empty", "answer", "exited"}]
    /\ callAt \in [Calls -> {"idle", "register", "write", "encode", "wait", "leave",
                             "returned"}]
    /\ got \in [Launches -> {"nothing", "result", "error"}]
    /\ hostAt \in [Hosts -> {"none", "check", "backoff", "clear", "launch",
                             "install", "open", "run", "init", "stopInit",
                             "confirm", "stopNow"} \cup Ended]
    /\ hostProc \in [Hosts -> Launches \cup {None}]
    /\ \A h \in Hosts : hostAt[h] \in {"install", "open", "run", "init"} =>
          hostProc[h] \in Launches
    /\ attempt \in [Hosts -> 1 .. Attempts]
    /\ stopAt \in [Stoppers -> {"no", "flag", "fetch", "once", "unrun", "close",
                                "reap", "returned"}]
    /\ stopProc \in [Stoppers -> Launches \cup {None}]
    /\ \A s \in Stoppers : stopAt[s] \in {"once", "unrun", "close", "reap"} =>
          stopProc[s] \in Launches

\* Recovery never leaves two processes of one plugin behind, and the one that
\* runs is the one Stop would tear down (Start, restart).
OneProcess ==
    /\ \A i, j \in alive : i = j
    /\ \A i \in alive :
          cmd = i \/ \E h \in Hosts : hostAt[h] = "install" /\ hostProc[h] = i

\* A shutdown that is still remembered has been carried out: with stopping set
\* and neither a restart nor a Stop at work, no process is left.  restart looks at
\* stopping again after a Start that succeeded for this reason (restart, Stop).
StopHonoured ==
    (/\ stopping
     /\ \A h \in Hosts : hostAt[h] \in Ended \cup {"none"}
     /\ \A s \in Stoppers : stopAt[s] \in {"no", "returned"})
        => alive = {}

\* "Stop returned" means the same to every caller: the process it found is gone,
\* also if another caller was tearing it down (Stop, teardown).
StopWaits ==
    \A s \in Stoppers :
        stopAt[s] = "returned" /\ stopProc[s] # None => stopProc[s] \notin alive

\* Calls are accepted only while a read loop is there to fail them if the
\* process dies (Start, readLoop).
RunningIsServed ==
    running => \E i \in Launches : reader[i] \in {"scan", "deliver"}
===========================================================================
