-------------------------- MODULE SessionManager --------------------------
(***************************************************************************)
(* Sessions, resume tokens, peers and the reaper (internal/session,        *)
(* internal/signaling/handler.go, the life of a peer in internal/peer).    *)
(*                                                                         *)
(* WHIP requests run concurrently with each other, with the reaper, with   *)
(* the teardown of peers and with shutdown.  Each critical section of      *)
(* Manager.mu or Session.mu is a step; Remove and CloseAll keep Manager.mu *)
(* while they close sessions, so their sections span several steps.        *)
(*                                                                         *)
(* A POST makes at most one peer and at most one resume token, and the     *)
(* peer's ID is the session's: the POST names its peer and its token, and  *)
(* a session's peer map has one slot.                                      *)
(***************************************************************************)
EXTENDS Integers, FiniteSets

CONSTANTS
    Posts,         \* POST /whip requests
    Patches,       \* PATCH /whip/{id} requests
    Sessions,      \* session IDs GetOrCreate may draw
    MaxSessions,   \* server.max_sessions, 0 for no cap
    Shutdown,      \* the server may be told to stop
    None

ASSUME ManagerAssumption ==
    /\ MaxSessions \in Nat
    /\ Shutdown \in BOOLEAN
    /\ IsFiniteSet(Sessions)
    /\ Posts \cap Sessions = {}
    /\ None \notin Posts \cup Sessions
    /\ "notBuilt" \notin Posts

VARIABLES
    sessions,     \* Manager.sessions
    resumable,    \* Manager.resumable: the tokens it indexes
    mu,           \* who keeps Manager.mu across a blocking close
    shutdown,     \* CloseAll has been called
    reaping,      \* expired sessions reap has yet to close
    born,         \* session IDs drawn so far
    ctxDone,      \* sessions whose context is cancelled
    peers,        \* Session.peers
    idleSince,    \* Session.idleSince: zero, within the grace, or past it
    etag,         \* Session.etag, as the number of rotations
    resumeToken,  \* Session.resumeToken
    resourceID,   \* Session.resourceID: the POST whose identity was bound
    conv,         \* Session.conv: not built, or the identity it was built with
    pc,           \* where each POST is
    ses,          \* the session each POST is for
    old,          \* the token rotateResumeToken returned to each POST
    drain,        \* evictPeers of a POST, Close of a session
    victim,       \* the peer that drain took out of the map
    peer,         \* each POST's peer
    track,        \* the goroutine AddPeer started for it
    patch         \* each PATCH: its progress, session, If-Match and peer

mgrVars == <<sessions, resumable, mu, shutdown, reaping, born>>
sesVars == <<peers, idleSince, etag, resumeToken, resourceID, conv>>
postVars == <<pc, ses, old>>
drainVars == <<drain, victim>>
peerVars == <<peer, track>>
vars == <<mgrVars, ctxDone, sesVars, postVars, drainVars, peerVars, patch>>

NotBuilt == "notBuilt"
Of(p) == ses[p]

\* Peer.Close: the first caller wins, later calls return at once.
beginClose(p) ==
    peer' = [peer EXCEPT ![p] = IF @ = "open" THEN "closing" ELSE @]

---------------------------------------------------------------------------
(* POST: Resume or GetOrCreate *)

atCapacity_OffByOne == MaxSessions > 0 /\ Cardinality(sessions) > MaxSessions

atCapacity == MaxSessions > 0 /\ Cardinality(sessions) >= MaxSessions

\* Without a token, or with one the index does not know.
GetOrCreate(q, s) ==
    /\ pc[q] = "idle"
    /\ mu = "free"
    /\ s \notin born
    /\ ~atCapacity
    /\ sessions' = sessions \cup {s}
    /\ born' = born \cup {s}
    /\ idleSince' = [idleSince EXCEPT ![s] = "grace"]
    /\ ses' = [ses EXCEPT ![q] = s]
    /\ pc' = [pc EXCEPT ![q] = "bind"]
    /\ UNCHANGED <<resumable, mu, shutdown, reaping, ctxDone, peers, etag,
                   resumeToken, resourceID, conv, old, drainVars, peerVars,
                   patch>>

refusePost(q) ==
    /\ pc[q] = "idle"
    /\ mu = "free"
    /\ atCapacity
    /\ pc' = [pc EXCEPT ![q] = "refused"]
    /\ UNCHANGED <<mgrVars, ctxDone, sesVars, ses, old, drainVars, peerVars,
                   patch>>

spend_Never(t) == resumable

spend(t) == resumable \ {t}

\* The client holds token t: its POST has been answered.  evictPeers comes
\* first: the connection being resumed from may linger.
Resume(q, t) ==
    /\ pc[q] = "idle"
    /\ mu = "free"
    /\ t \in resumable
    /\ pc[t] = "done"
    /\ resumable' = spend(t)
    /\ ses' = [ses EXCEPT ![q] = Of(t)]
    /\ pc' = [pc EXCEPT ![q] = "evict"]
    /\ drain' = [drain EXCEPT ![q] = "collect"]
    /\ UNCHANGED <<sessions, mu, shutdown, reaping, born, ctxDone, sesVars,
                   old, victim, peerVars, patch>>

\* After evictPeers has returned: the resumed session is a new ICE session.
resumeRotates(q) ==
    /\ pc[q] = "evict"
    /\ drain[q] = "done"
    /\ etag' = [etag EXCEPT ![Of(q)] = @ + 1]
    /\ drain' = [drain EXCEPT ![q] = "no"]
    /\ pc' = [pc EXCEPT ![q] = "bind"]
    /\ UNCHANGED <<mgrVars, ctxDone, peers, idleSince, resumeToken,
                   resourceID, conv, ses, old, victim, peerVars, patch>>

---------------------------------------------------------------------------
(* POST: SetResourceID, AddPeer, HandleOffer, IssueResumeToken *)

bound_Overwrites(q, id) == IF id = None THEN resourceID[Of(q)] ELSE id

bound(q, id) == IF resourceID[Of(q)] = None THEN id ELSE resourceID[Of(q)]

SetResourceID(q) ==
    /\ pc[q] = "bind"
    /\ \E id \in {None, q} :
          resourceID' = [resourceID EXCEPT ![Of(q)] = bound(q, id)]
    /\ pc' = [pc EXCEPT ![q] = "addPeer"]
    /\ UNCHANGED <<mgrVars, ctxDone, peers, idleSince, etag, resumeToken,
                   conv, ses, old, drainVars, peerVars, patch>>

\* Whatever has become of the connection it replaces: pc.Close of that one may
\* take another three seconds, and its OnClose is still to come.
AddPeer(q) ==
    /\ pc[q] = "addPeer"
    /\ peers' = [peers EXCEPT ![Of(q)] = q]
    /\ idleSince' = [idleSince EXCEPT ![Of(q)] = "zero"]
    /\ peer' = [peer EXCEPT ![q] = "open"]
    /\ track' = [track EXCEPT ![q] = "waiting"]
    /\ pc' = [pc EXCEPT ![q] = "offer"]
    /\ UNCHANGED <<mgrVars, ctxDone, etag, resumeToken, resourceID, conv, ses,
                   old, drainVars, patch>>

addPeerFails(q) ==
    /\ pc[q] = "addPeer"
    /\ pc' = [pc EXCEPT ![q] = "failed"]
    /\ UNCHANGED <<mgrVars, ctxDone, sesVars, ses, old, drainVars, peerVars,
                   patch>>

HandleOffer(q) ==
    /\ pc[q] = "offer"
    /\ pc' = [pc EXCEPT ![q] = "rotate"]
    /\ UNCHANGED <<mgrVars, ctxDone, sesVars, ses, old, drainVars, peerVars,
                   patch>>

offerFails(q) ==
    /\ pc[q] = "offer"
    /\ beginClose(q)
    /\ pc' = [pc EXCEPT ![q] = "failed"]
    /\ UNCHANGED <<mgrVars, ctxDone, sesVars, ses, old, drainVars, track,
                   patch>>

\* A realtime session, or no randomness to be had: 201 without a token.
noToken(q) ==
    /\ pc[q] = "rotate"
    /\ pc' = [pc EXCEPT ![q] = "done"]
    /\ UNCHANGED <<mgrVars, ctxDone, sesVars, ses, old, drainVars, peerVars,
                   patch>>

rotateResumeToken(q) ==
    /\ pc[q] = "rotate"
    /\ old' = [old EXCEPT ![q] = resumeToken[Of(q)]]
    /\ resumeToken' = [resumeToken EXCEPT ![Of(q)] = q]
    /\ pc' = [pc EXCEPT ![q] = "index"]
    /\ UNCHANGED <<mgrVars, ctxDone, peers, idleSince, etag, resourceID, conv,
                   ses, drainVars, peerVars, patch>>

IssueResumeToken(q) ==
    /\ pc[q] = "index"
    /\ mu = "free"
    /\ resumable' = (resumable \ {old[q]}) \cup {q}
    /\ old' = [old EXCEPT ![q] = None]
    /\ pc' = [pc EXCEPT ![q] = "done"]
    /\ UNCHANGED <<sessions, mu, shutdown, reaping, born, ctxDone, sesVars,
                   ses, drainVars, peerVars, patch>>

---------------------------------------------------------------------------
(* evictPeers of a POST and Close of a session: the same drain *)

DrainOf(c) == IF c \in Sessions THEN c ELSE Of(c)

collectPeers(c) ==
    /\ drain[c] = "collect"
    /\ victim' = [victim EXCEPT ![c] = peers[DrainOf(c)]]
    /\ peers' = [peers EXCEPT ![DrainOf(c)] = None]
    /\ drain' = [drain EXCEPT ![c] =
                    IF peers[DrainOf(c)] = None THEN "done" ELSE "close"]
    /\ UNCHANGED <<mgrVars, ctxDone, idleSince, etag, resumeToken, resourceID,
                   conv, postVars, peerVars, patch>>

closeVictim(c) ==
    /\ drain[c] = "close"
    /\ beginClose(victim[c])
    /\ drain' = [drain EXCEPT ![c] =
                    IF peer[victim[c]] = "open" THEN "wait" ELSE "done"]
    /\ UNCHANGED <<mgrVars, ctxDone, sesVars, postVars, victim, track, patch>>

victimClosed(c) ==
    /\ drain[c] = "wait"
    /\ peer[victim[c]] = "closed"
    /\ drain' = [drain EXCEPT ![c] = "done"]
    /\ UNCHANGED <<mgrVars, ctxDone, sesVars, postVars, victim, peerVars,
                   patch>>

---------------------------------------------------------------------------
(* A peer and the goroutine AddPeer starts for it *)

\* The connection failed, or the client is gone: go p.Close().
peerFails(p) ==
    /\ peer[p] = "open"
    /\ beginClose(p)
    /\ UNCHANGED <<mgrVars, ctxDone, sesVars, postVars, drainVars, track,
                   patch>>

removePeer_NoStamp(s) == peers' = [peers EXCEPT ![s] = None] /\ UNCHANGED idleSince

\* By ID: whatever peer is registered, even a successor.
removePeer(s) ==
    /\ peers' = [peers EXCEPT ![s] = None]
    /\ idleSince' = [idleSince EXCEPT ![s] = "grace"]

\* pc.Close has returned or its three seconds are up; OnClose runs.
OnClose(p) ==
    /\ peer[p] = "closing"
    /\ peer' = [peer EXCEPT ![p] = "closed"]
    /\ removePeer(Of(p))
    /\ UNCHANGED <<mgrVars, ctxDone, etag, resumeToken, resourceID, conv,
                   postVars, drainVars, track, patch>>

\* The remote track arrives: conversation(), pipeline.New, Start.
startPipeline(p) ==
    /\ track[p] = "waiting"
    /\ conv' = [conv EXCEPT ![Of(p)] =
                   IF @ = NotBuilt THEN resourceID[Of(p)] ELSE @]
    /\ track' = [track EXCEPT ![p] = "running"]
    /\ UNCHANGED <<mgrVars, ctxDone, peers, idleSince, etag, resumeToken,
                   resourceID, postVars, drainVars, peer, patch>>

\* The conversation cannot be built.
startFails(p) ==
    /\ track[p] = "waiting"
    /\ beginClose(p)
    /\ track' = [track EXCEPT ![p] = "exit"]
    /\ UNCHANGED <<mgrVars, ctxDone, sesVars, postVars, drainVars, patch>>

trackWaitEnds_OnlyTrack(p) == FALSE

trackWaitEnds(p) == Of(p) \in ctxDone

trackCancelled(p) ==
    /\ track[p] = "waiting"
    /\ trackWaitEnds(p)
    /\ beginClose(p)
    /\ track' = [track EXCEPT ![p] = "exit"]
    /\ UNCHANGED <<mgrVars, ctxDone, sesVars, postVars, drainVars, patch>>

\* Start returns when the pipeline's context is done, or after a panic.
pipelineEnds(p) ==
    /\ track[p] = "running"
    /\ beginClose(p)
    /\ track' = [track EXCEPT ![p] = "exit"]
    /\ UNCHANGED <<mgrVars, ctxDone, sesVars, postVars, drainVars, patch>>

---------------------------------------------------------------------------
(* Remove, the reaper, CloseAll *)

\* Session.Close begins: s.cancel().
cancelSession(s) ==
    /\ ctxDone' = ctxDone \cup {s}
    /\ drain' = [drain EXCEPT ![s] = "collect"]

\* The URL of a session is known from a 201 on.
Known(s) == \E q \in Posts : Of(q) = s /\ pc[q] = "done"

\* DELETE.  Unknown and already removed sessions are a no-op.
Remove(s) ==
    /\ mu = "free"
    /\ s \in sessions
    /\ Known(s)
    /\ cancelSession(s)
    /\ mu' = "remove"
    /\ UNCHANGED <<sessions, resumable, shutdown, reaping, born, sesVars,
                   postVars, victim, peerVars, patch>>

removeReturns(s) ==
    /\ mu = "remove"
    /\ s \in sessions
    /\ drain[s] = "done"
    /\ sessions' = sessions \ {s}
    /\ resumable' = resumable \ {resumeToken[s]}
    /\ mu' = "free"
    /\ UNCHANGED <<shutdown, reaping, born, ctxDone, sesVars, postVars,
                   drainVars, peerVars, patch>>

\* A handler runs far shorter than the grace: a stamp taken while a POST was
\* at work does not expire before it is answered.  A resumed session may be at
\* the end of its grace until AddPeer.
MidPost(s) ==
    \E q \in Posts :
        /\ Of(q) = s
        /\ \/ pc[q] \in {"offer", "rotate", "index"}
           \/ pc[q] \in {"bind", "addPeer"} /\ resumeToken[s] = None

gracePasses(s) ==
    /\ s \in sessions
    /\ ~MidPost(s)
    /\ idleSince[s] = "grace"
    /\ idleSince' = [idleSince EXCEPT ![s] = "expired"]
    /\ UNCHANGED <<mgrVars, ctxDone, peers, etag, resumeToken, resourceID,
                   conv, postVars, drainVars, peerVars, patch>>

Expired == {s \in sessions : idleSince[s] = "expired"}

\* The section of reap under Manager.mu.
reap ==
    /\ mu = "free"
    /\ reaping = {}
    /\ Expired # {}
    /\ reaping' = Expired
    /\ sessions' = sessions \ Expired
    /\ resumable' = resumable \ {resumeToken[s] : s \in Expired}
    /\ UNCHANGED <<mu, shutdown, born, ctxDone, sesVars, postVars, drainVars,
                   peerVars, patch>>

\* One after the other, outside the lock.
reapCloses(s) ==
    /\ s \in reaping
    /\ \A x \in reaping : drain[x] = "no"
    /\ cancelSession(s)
    /\ UNCHANGED <<mgrVars, sesVars, postVars, victim, peerVars, patch>>

reapClosed(s) ==
    /\ s \in reaping
    /\ drain[s] = "done"
    /\ reaping' = reaping \ {s}
    /\ UNCHANGED <<sessions, resumable, mu, shutdown, born, ctxDone, sesVars,
                   postVars, drainVars, peerVars, patch>>

CloseAll ==
    /\ Shutdown
    /\ ~shutdown
    /\ mu = "free"
    /\ shutdown' = TRUE
    /\ mu' = "closeAll"
    /\ UNCHANGED <<sessions, resumable, reaping, born, ctxDone, sesVars,
                   postVars, drainVars, peerVars, patch>>

closeAllCloses(s) ==
    /\ mu = "closeAll"
    /\ s \in sessions
    /\ \A x \in sessions : drain[x] = "no"
    /\ cancelSession(s)
    /\ UNCHANGED <<mgrVars, sesVars, postVars, victim, peerVars, patch>>

closeAllClosed(s) ==
    /\ mu = "closeAll"
    /\ s \in sessions
    /\ drain[s] = "done"
    /\ sessions' = sessions \ {s}
    /\ UNCHANGED <<resumable, mu, shutdown, reaping, born, ctxDone, sesVars,
                   postVars, drainVars, peerVars, patch>>

closeAllReturns ==
    /\ mu = "closeAll"
    /\ sessions = {}
    /\ resumable' = {}
    /\ mu' = "free"
    /\ UNCHANGED <<sessions, shutdown, reaping, born, ctxDone, sesVars,
                   postVars, drainVars, peerVars, patch>>

---------------------------------------------------------------------------
(* PATCH: ICE restart.  If-Match is the ETag the client saw last, or absent *)

NoMatch == -1
NoPatch(at) == [at |-> at, ses |-> None, match |-> NoMatch, peer |-> None]
patchMoves(x, at) == patch' = [patch EXCEPT ![x].at = at]
patchOver(x) == patch' = [patch EXCEPT ![x] = NoPatch("over")]
patchOnly == UNCHANGED <<mgrVars, ctxDone, sesVars, postVars, drainVars, peerVars>>

sendPatch(x, s) ==
    /\ patch[x].at = "idle"
    /\ Known(s)
    /\ \E m \in {etag[s], NoMatch} :
          patch' = [patch EXCEPT ![x] =
                       [at |-> "check", ses |-> s, match |-> m, peer |-> None]]
    /\ patchOnly

matches(x) == patch[x].match \in {NoMatch, etag[patch[x].ses]}

checkPatch(x) ==
    /\ patch[x].at = "check"
    /\ mu = "free"
    /\ IF patch[x].ses \in sessions /\ matches(x)
       THEN patchMoves(x, "getPeer") ELSE patchOver(x)
    /\ patchOnly

getPeer(x) ==
    /\ patch[x].at = "getPeer"
    /\ LET p == peers[patch[x].ses] IN
          IF p = None THEN patchOver(x)
          ELSE patch' = [patch EXCEPT ![x].peer = p, ![x].at = "restart"]
    /\ patchOnly

Negotiated(p) == pc[p] \in {"rotate", "index", "done"}

restartable_AnyPeer(p) == Negotiated(p)

restartable(p) == peer[p] = "open" /\ Negotiated(p)

RestartICE(x) ==
    /\ patch[x].at = "restart"
    /\ restartable(patch[x].peer)
    /\ patchMoves(x, "rotate")
    /\ patchOnly

\* The peer is closed or not negotiated, or the fragment is no restart.
restartRefused(x) ==
    /\ patch[x].at = "restart"
    /\ patchOver(x)
    /\ patchOnly

RotateETag(x) ==
    /\ patch[x].at = "rotate"
    /\ etag' = [etag EXCEPT ![patch[x].ses] = @ + 1]
    /\ patchOver(x)
    /\ UNCHANGED <<mgrVars, ctxDone, peers, idleSince, resumeToken,
                   resourceID, conv, postVars, drainVars, peerVars>>

---------------------------------------------------------------------------

Init ==
    /\ sessions = {}
    /\ resumable = {}
    /\ mu = "free"
    /\ shutdown = FALSE
    /\ reaping = {}
    /\ born = {}
    /\ ctxDone = {}
    /\ peers = [s \in Sessions |-> None]
    /\ idleSince = [s \in Sessions |-> "zero"]
    /\ etag = [s \in Sessions |-> 0]
    /\ resumeToken = [s \in Sessions |-> None]
    /\ resourceID = [s \in Sessions |-> None]
    /\ conv = [s \in Sessions |-> NotBuilt]
    /\ pc = [q \in Posts |-> "idle"]
    /\ ses = [q \in Posts |-> None]
    /\ old = [q \in Posts |-> None]
    /\ drain = [c \in Posts \cup Sessions |-> "no"]
    /\ victim = [c \in Posts \cup Sessions |-> None]
    /\ peer = [p \in Posts |-> "none"]
    /\ track = [p \in Posts |-> "none"]
    /\ patch = [x \in Patches |-> NoPatch("idle")]

arrives(q) ==
    \/ refusePost(q)
    \/ \E s \in Sessions : GetOrCreate(q, s)
    \/ \E t \in Posts : Resume(q, t)

postStep(q) ==
    \/ resumeRotates(q) \/ SetResourceID(q) \/ AddPeer(q) \/ addPeerFails(q)
    \/ HandleOffer(q) \/ offerFails(q)
    \/ noToken(q) \/ rotateResumeToken(q) \/ IssueResumeToken(q)

drainStep(c) == collectPeers(c) \/ closeVictim(c) \/ victimClosed(c)

trackStep(p) == startPipeline(p) \/ startFails(p) \/ trackCancelled(p) \/ pipelineEnds(p)

lockedStep(s) == removeReturns(s) \/ closeAllCloses(s) \/ closeAllClosed(s)

reaperStep(s) == reapCloses(s) \/ reapClosed(s)

patchStep(x) ==
    \/ \E s \in Sessions : sendPatch(x, s)
    \/ checkPatch(x) \/ getPeer(x) \/ RestartICE(x) \/ restartRefused(x)
    \/ RotateETag(x)

Next ==
    \/ \E q \in Posts : \/ arrives(q) \/ postStep(q)
                        \/ peerFails(q) \/ OnClose(q) \/ trackStep(q)
    \/ \E c \in Posts \cup Sessions : drainStep(c)
    \/ \E s \in Sessions : \/ Remove(s) \/ lockedStep(s)
                           \/ gracePasses(s) \/ reaperStep(s)
    \/ reap \/ CloseAll \/ closeAllReturns
    \/ \E x \in Patches : patchStep(x)

Safety == Init /\ [][Next]_vars

\* Handlers, goroutines and the reaper's ticker keep running and pc.Close is
\* bounded by its timeout.  Clients owe us nothing: no request arrives, no
\* track shows up and no connection fails because of fairness.
Fairness ==
    /\ \A q \in Posts :
          /\ WF_vars(postStep(q)) /\ WF_vars(OnClose(q))
          /\ WF_vars(trackCancelled(q))
          /\ WF_vars((peer[q] # "open" \/ Of(q) \in ctxDone) /\ pipelineEnds(q))
    /\ \A c \in Posts \cup Sessions : WF_vars(drainStep(c))
    /\ \A s \in Sessions :
          WF_vars(lockedStep(s)) /\ WF_vars(gracePasses(s)) /\ WF_vars(reaperStep(s))
    /\ SF_vars(reap) /\ WF_vars(closeAllReturns)

Spec == Safety /\ Fairness

---------------------------------------------------------------------------
(* Properties *)

TypeOK ==
    /\ sessions \subseteq Sessions
    /\ resumable \subseteq Posts
    /\ mu \in {"free", "remove", "closeAll"}
    /\ shutdown \in BOOLEAN
    /\ reaping \subseteq Sessions
    /\ born \subseteq Sessions
    /\ ctxDone \subseteq Sessions
    /\ peers \in [Sessions -> Posts \cup {None}]
    /\ idleSince \in [Sessions -> {"zero", "grace", "expired"}]
    /\ etag \in [Sessions -> Nat]
    /\ resumeToken \in [Sessions -> Posts \cup {None}]
    /\ resourceID \in [Sessions -> Posts \cup {None}]
    /\ conv \in [Sessions -> Posts \cup {None, NotBuilt}]
    /\ pc \in [Posts -> {"idle", "refused", "evict", "bind", "addPeer",
                         "offer", "failed", "rotate", "index", "done"}]
    /\ ses \in [Posts -> Sessions \cup {None}]
    /\ \A q \in Posts : pc[q] \notin {"idle", "refused"} => ses[q] \in Sessions
    /\ old \in [Posts -> Posts \cup {None}]
    /\ drain \in [Posts \cup Sessions ->
                     {"no", "collect", "close", "wait", "done"}]
    /\ victim \in [Posts \cup Sessions -> Posts \cup {None}]
    /\ \A c \in Posts \cup Sessions : drain[c] \in {"close", "wait"} => victim[c] \in Posts
    /\ \A q \in Posts : drain[q] # "no" => pc[q] \notin {"idle", "refused"}
    /\ peer \in [Posts -> {"none", "open", "closing", "closed"}]
    /\ track \in [Posts -> {"none", "waiting", "running", "exit"}]
    /\ \A q \in Posts : peer[q] # "none" \/ track[q] # "none" => pc[q] \notin {"idle", "refused"}
    /\ patch \in [Patches ->
          [at : {"idle", "check", "getPeer", "restart", "rotate", "over"},
           ses : Sessions \cup {None}, match : Nat \cup {NoMatch},
           peer : Posts \cup {None}]]
    /\ \A x \in Patches : patch[x].at \notin {"idle", "over"} => patch[x].ses \in Sessions
    /\ \A x \in Patches : patch[x].at = "restart" => patch[x].peer \in Posts

\* server.max_sessions is never exceeded, however POSTs, DELETEs and the
\* reaper interleave (GetOrCreate).
CapHolds == MaxSessions > 0 => Cardinality(sessions) <= MaxSessions

\* A POST on its way to a token, or the token it left behind.
Carries(q, s) ==
    /\ Of(q) = s
    /\ \/ pc[q] \in {"evict", "bind", "addPeer", "offer", "rotate", "index"}
       \/ q \in resumable

\* A conversation has one carrier: while a POST attaches to it no token for
\* it is valid, and two clients never resume the same one (Resume,
\* IssueResumeToken).
OneCarrier ==
    \A s \in Sessions : \A q, r \in Posts :
        Carries(q, s) /\ Carries(r, s) => q = r

\* No session is lost to the reaper: one with a zero idleSince has a peer whose
\* OnClose is still to come (AddPeer, evictPeers, removePeer).
NoLostSession ==
    \A s \in sessions : idleSince[s] = "zero" =>
        \E p \in Posts : Of(p) = s /\ peer[p] \in {"open", "closing"}

\* A conversation built for a caller stays that caller's, whoever redials
\* (SetResourceID, conversation).
ConversationOwner ==
    \A s \in Sessions : conv[s] \in Posts => resourceID[s] = conv[s]

Abandoned(s) ==
    /\ s \in sessions
    /\ \A q \in Posts : Of(q) = s => pc[q] \in {"failed", "done"} /\ peer[q] # "open"

\* A session whose clients have vanished without DELETE is collected, unless
\* one of them comes back (StartReaper, reap).
AbandonedIsReaped == \A s \in Sessions : Abandoned(s) ~> ~Abandoned(s)

\* What a closed session started comes to its end: its peers close and their
\* goroutines return, also for a POST that was attaching meanwhile (AddPeer).
ClosedWindsDown ==
    \A p \in Posts :
        (peer[p] # "none" /\ Of(p) \in ctxDone)
            ~> peer[p] = "closed" /\ track[p] = "exit"

Restarts(x) == patch[x].at = "restart" /\ patch'[x].at = "rotate"

\* An evictPeers or a Close took the peer out of the map and has closed it.
Evicted(p) == \E c \in Posts \cup Sessions : victim[c] = p /\ drain[c] # "close"

\* An ICE restart never lands on a connection that a resume or the end of the
\* session has evicted, even if the PATCH looked its peer up before (RestartICE,
\* evictPeers, Close).
RestartsSkipEvicted ==
    [][\A x \in Patches : Restarts(x) => ~Evicted(patch[x].peer)]_vars
===========================================================================
