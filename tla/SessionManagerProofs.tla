---------------------- MODULE SessionManagerProofs ----------------------
(***************************************************************************)
(* Proofs about SessionManager, for any number of requests and sessions.   *)
(***************************************************************************)
EXTENDS SessionManager, FiniteSetTheorems, TLAPS

\* The part of TypeOK that speaks of a PATCH in progress.
PatchTyped ==
    /\ patch \in [Patches ->
          [at : {"idle", "check", "getPeer", "restart", "rotate", "over"},
           ses : Sessions \cup {None}, match : Nat \cup {NoMatch},
           peer : Posts \cup {None}]]
    /\ \A x \in Patches : patch[x].at \notin {"idle", "over"} => patch[x].ses \in Sessions
    /\ \A x \in Patches : patch[x].at = "restart" => patch[x].peer \in Posts

\* A PATCH in progress that moves on (anywhere but to the restart, which
\* getPeer alone reaches) keeps the session and the peer it has.
LEMMA PatchMoved ==
  ASSUME TypeOK, NEW x \in Patches, patch[x].at \notin {"idle", "over"},
         NEW at \in {"getPeer", "rotate"},
         patch' = [patch EXCEPT ![x].at = at]
  PROVE  PatchTyped'
<1>1. PatchTyped
  BY DEF TypeOK, PatchTyped
<1>2. \A y \in Patches : /\ patch'[y].ses = patch[y].ses
                         /\ patch'[y].peer = patch[y].peer
                         /\ patch'[y].match = patch[y].match
                         /\ patch'[y].at = IF y = x THEN at ELSE patch[y].at
  BY <1>1 DEF PatchTyped
<1> QED
  BY <1>1, <1>2 DEF PatchTyped

\* A PATCH that is over is about nothing.
LEMMA PatchEnded ==
  ASSUME TypeOK, NEW x \in Patches, patchOver(x)
  PROVE  PatchTyped'
<1>1. PatchTyped
  BY DEF TypeOK, PatchTyped
<1>2. /\ patch' = [patch EXCEPT ![x] = NoPatch("over")]
      /\ NoPatch("over") = [at |-> "over", ses |-> None, match |-> NoMatch, peer |-> None]
  BY DEF patchOver, NoPatch
<1> QED
  BY <1>1, <1>2 DEF PatchTyped

\* Every variable keeps its type; the sessions, victims and peers a request
\* is about exist once its progress says so.
LEMMA TypeInductive == TypeOK /\ [Next]_vars => TypeOK'
<1> SUFFICES ASSUME TypeOK, [Next]_vars PROVE TypeOK'
  OBVIOUS
<1> USE ManagerAssumption
<1>1. ASSUME NEW q \in Posts, arrives(q) PROVE TypeOK'
  <2>1. CASE refusePost(q)
    BY <2>1 DEF TypeOK, refusePost, mgrVars, sesVars, postVars, drainVars, peerVars
  <2>2. CASE \E s \in Sessions : GetOrCreate(q, s)
    BY <2>2 DEF TypeOK, GetOrCreate, mgrVars, sesVars, postVars, drainVars, peerVars
  <2>3. CASE \E t \in Posts : Resume(q, t)
    BY <2>3 DEF TypeOK, Resume, spend, Of, mgrVars, sesVars, postVars, drainVars, peerVars
  <2> QED BY <1>1, <2>1, <2>2, <2>3 DEF arrives
<1>2. ASSUME NEW q \in Posts, postStep(q) PROVE TypeOK'
  <2>1. CASE resumeRotates(q)
    BY <2>1 DEF TypeOK, resumeRotates, Of, mgrVars, sesVars, postVars, drainVars, peerVars
  <2>2. CASE SetResourceID(q)
    BY <2>2 DEF TypeOK, SetResourceID, bound, Of, mgrVars, sesVars, postVars, drainVars, peerVars
  <2>3. CASE AddPeer(q)
    BY <2>3 DEF TypeOK, AddPeer, Of, mgrVars, sesVars, postVars, drainVars, peerVars
  <2>4. CASE addPeerFails(q)
    BY <2>4 DEF TypeOK, addPeerFails, mgrVars, sesVars, postVars, drainVars, peerVars
  <2>5. CASE HandleOffer(q)
    BY <2>5 DEF TypeOK, HandleOffer, mgrVars, sesVars, postVars, drainVars, peerVars
  <2>6. CASE offerFails(q)
    BY <2>6 DEF TypeOK, offerFails, beginClose, mgrVars, sesVars, postVars, drainVars, peerVars
  <2>7. CASE noToken(q)
    BY <2>7 DEF TypeOK, noToken, mgrVars, sesVars, postVars, drainVars, peerVars
  <2>8. CASE rotateResumeToken(q)
    BY <2>8 DEF TypeOK, rotateResumeToken, Of, mgrVars, sesVars, postVars, drainVars, peerVars
  <2>9. CASE IssueResumeToken(q)
    BY <2>9 DEF TypeOK, IssueResumeToken, mgrVars, sesVars, postVars, drainVars, peerVars
  <2> QED BY <1>2, <2>1, <2>2, <2>3, <2>4, <2>5, <2>6, <2>7, <2>8, <2>9 DEF postStep
<1>3. ASSUME NEW q \in Posts, peerFails(q) \/ OnClose(q) PROVE TypeOK'
  <2>1. CASE peerFails(q)
    BY <2>1 DEF TypeOK, peerFails, beginClose, mgrVars, sesVars, postVars, drainVars, peerVars
  <2>2. CASE OnClose(q)
    BY <2>2 DEF TypeOK, OnClose, removePeer, Of, mgrVars, sesVars, postVars, drainVars, peerVars
  <2> QED BY <1>3, <2>1, <2>2
<1>4. ASSUME NEW q \in Posts, trackStep(q) PROVE TypeOK'
  <2>1. CASE startPipeline(q)
    BY <2>1 DEF TypeOK, startPipeline, NotBuilt, Of, mgrVars, sesVars, postVars, drainVars, peerVars
  <2>2. CASE startFails(q)
    BY <2>2 DEF TypeOK, startFails, beginClose, mgrVars, sesVars, postVars, drainVars, peerVars
  <2>3. CASE trackCancelled(q)
    BY <2>3 DEF TypeOK, trackCancelled, beginClose, mgrVars, sesVars, postVars, drainVars, peerVars
  <2>4. CASE pipelineEnds(q)
    BY <2>4 DEF TypeOK, pipelineEnds, beginClose, mgrVars, sesVars, postVars, drainVars, peerVars
  <2> QED BY <1>4, <2>1, <2>2, <2>3, <2>4 DEF trackStep
<1>5. ASSUME NEW c \in Posts \cup Sessions, drainStep(c) PROVE TypeOK'
  <2>1. CASE collectPeers(c)
    BY <2>1 DEF TypeOK, collectPeers, DrainOf, Of, mgrVars, sesVars, postVars, drainVars, peerVars
  <2>2. CASE closeVictim(c)
    BY <2>2 DEF TypeOK, closeVictim, beginClose, mgrVars, sesVars, postVars, drainVars, peerVars
  <2>3. CASE victimClosed(c)
    BY <2>3 DEF TypeOK, victimClosed, mgrVars, sesVars, postVars, drainVars, peerVars
  <2> QED BY <1>5, <2>1, <2>2, <2>3 DEF drainStep
<1>6. ASSUME NEW s \in Sessions, Remove(s) \/ lockedStep(s) PROVE TypeOK'
  <2>1. CASE Remove(s)
    BY <2>1 DEF TypeOK, Remove, cancelSession, mgrVars, sesVars, postVars, drainVars, peerVars
  <2>2. CASE removeReturns(s)
    BY <2>2 DEF TypeOK, removeReturns, mgrVars, sesVars, postVars, drainVars, peerVars
  <2>3. CASE closeAllCloses(s)
    BY <2>3 DEF TypeOK, closeAllCloses, cancelSession, mgrVars, sesVars, postVars, drainVars, peerVars
  <2>4. CASE closeAllClosed(s)
    BY <2>4 DEF TypeOK, closeAllClosed, mgrVars, sesVars, postVars, drainVars, peerVars
  <2> QED BY <1>6, <2>1, <2>2, <2>3, <2>4 DEF lockedStep
<1>7. ASSUME NEW s \in Sessions, gracePasses(s) \/ reaperStep(s) PROVE TypeOK'
  <2>1. CASE gracePasses(s)
    BY <2>1 DEF TypeOK, gracePasses, mgrVars, sesVars, postVars, drainVars, peerVars
  <2>2. CASE reapCloses(s)
    BY <2>2 DEF TypeOK, reapCloses, cancelSession, mgrVars, sesVars, postVars, drainVars, peerVars
  <2>3. CASE reapClosed(s)
    BY <2>3 DEF TypeOK, reapClosed, mgrVars, sesVars, postVars, drainVars, peerVars
  <2> QED BY <1>7, <2>1, <2>2, <2>3 DEF reaperStep
<1>8. ASSUME NEW x \in Patches, patchStep(x) PROVE TypeOK'
  <2>1. CASE \E s \in Sessions : sendPatch(x, s)
    BY <2>1 DEF TypeOK, sendPatch, patchOnly, NoMatch, mgrVars, sesVars, postVars, drainVars, peerVars
  <2>2. ASSUME PatchTyped', patchOnly PROVE TypeOK'
    BY <2>2 DEF TypeOK, PatchTyped, patchOnly, mgrVars, sesVars, postVars, drainVars, peerVars
  <2>3. CASE checkPatch(x)
    <3>1. patchOnly /\ patch[x].at \notin {"idle", "over"}
      BY <2>3 DEF checkPatch
    <3>2. CASE patchMoves(x, "getPeer")
      BY <2>2, <3>1, <3>2, PatchMoved DEF patchMoves
    <3> QED BY <2>2, <2>3, <3>1, <3>2, PatchEnded DEF checkPatch
  <2>4. CASE getPeer(x)
    <3>1. CASE patchOver(x)
      BY <2>2, <2>4, <3>1, PatchEnded DEF getPeer
    <3>2. CASE ~patchOver(x)
      <4>1. /\ patchOnly /\ patch[x].at = "getPeer"
            /\ peers[patch[x].ses] # None
            /\ patch' = [patch EXCEPT ![x].peer = peers[patch[x].ses], ![x].at = "restart"]
        BY <2>4, <3>2 DEF getPeer
      <4> QED BY <4>1 DEF TypeOK, patchOnly, mgrVars, sesVars, postVars, drainVars, peerVars
    <3> QED BY <3>1, <3>2
  <2>5. CASE RestartICE(x)
    <3>1. /\ patch' = [patch EXCEPT ![x].at = "rotate"]
          /\ patch[x].at \notin {"idle", "over"} /\ patchOnly
      BY <2>5 DEF RestartICE, patchMoves
    <3> QED BY <2>2, <3>1, PatchMoved
  <2>6. CASE restartRefused(x)
    BY <2>2, <2>6, PatchEnded DEF restartRefused
  <2>7. CASE RotateETag(x)
    <3>1. etag' \in [Sessions -> Nat]
      BY <2>7 DEF TypeOK, RotateETag
    <3>2. UNCHANGED <<mgrVars, ctxDone, peers, idleSince, resumeToken,
                      resourceID, conv, postVars, drainVars, peerVars>>
      BY <2>7 DEF RotateETag
    <3>3. PatchTyped'
      BY <2>7, PatchEnded DEF RotateETag
    <3> QED
      BY <3>1, <3>2, <3>3 DEF TypeOK, PatchTyped, mgrVars, postVars, drainVars, peerVars
  <2> QED BY <1>8, <2>1, <2>3, <2>4, <2>5, <2>6, <2>7 DEF patchStep
<1>9. CASE reap
  BY <1>9 DEF TypeOK, reap, Expired, mgrVars, sesVars, postVars, drainVars, peerVars
<1>10. CASE CloseAll
  BY <1>10 DEF TypeOK, CloseAll, mgrVars, sesVars, postVars, drainVars, peerVars
<1>11. CASE closeAllReturns
  BY <1>11 DEF TypeOK, closeAllReturns, mgrVars, sesVars, postVars, drainVars, peerVars
<1>12. CASE UNCHANGED vars
  BY <1>12 DEF TypeOK, vars, mgrVars, sesVars, postVars, drainVars, peerVars
<1> QED
  BY <1>1, <1>2, <1>3, <1>4, <1>5, <1>6, <1>7, <1>8, <1>9, <1>10, <1>11, <1>12 DEF Next

\* The initial state is well typed.
LEMMA TypeInitial == Init => TypeOK
<1> SUFFICES ASSUME Init PROVE TypeOK
  OBVIOUS
<1>1. \A x \in Patches : patch[x].at = "idle"
  BY DEF Init, NoPatch
<1>2. patch \in [Patches ->
          [at : {"idle", "check", "getPeer", "restart", "rotate", "over"},
           ses : Sessions \cup {None}, match : Nat \cup {NoMatch},
           peer : Posts \cup {None}]]
  BY DEF Init, NoPatch
<1> QED
  BY ManagerAssumption, <1>1, <1>2 DEF Init, TypeOK, NotBuilt

\* SessionManager is type correct.
THEOREM TypeCorrect == Safety => []TypeOK
  BY TypeInitial, TypeInductive, PTL DEF Safety

--------------------------------------------------------------------------

\* What keeps a conversation to one carrier: an indexed token belongs to an
\* answered POST, and every session a POST names has been drawn.
CarrierInv ==
    /\ OneCarrier
    /\ \A q \in Posts : q \in resumable => pc[q] = "done"
    /\ \A q \in Posts : ses[q] # None => ses[q] \in born

\* A step that makes nobody a carrier and draws no session leaves one carrier.
LEMMA CarrierFrame ==
    ASSUME CarrierInv,
           \A q \in Posts : ses'[q] = ses[q],
           \A q \in Posts : pc[q] = "done" => pc'[q] = "done",
           \A q \in Posts :
               /\ pc'[q] \in {"evict", "bind", "addPeer", "offer", "rotate", "index"}
                     => pc[q] \in {"evict", "bind", "addPeer", "offer", "rotate", "index"}
               /\ q \in resumable' => q \in resumable \/ (pc[q] = "index" /\ pc'[q] = "done"),
           born' = born
    PROVE  CarrierInv'
  BY DEF CarrierInv, OneCarrier, Carries, Of

\* Each step preserves CarrierInv.  Only a new session and a resume make a
\* carrier: the first of a session nobody names, the second by spending the
\* token whose POST was the carrier before.
LEMMA CarrierInductive == TypeOK /\ CarrierInv /\ [Next]_vars => CarrierInv'
<1> SUFFICES ASSUME TypeOK, CarrierInv, [Next]_vars PROVE CarrierInv'
  OBVIOUS
<1> USE ManagerAssumption
<1>1. ASSUME NEW q \in Posts, NEW s \in Sessions, GetOrCreate(q, s) PROVE CarrierInv'
  <2>1. /\ ses' = [ses EXCEPT ![q] = s] /\ pc' = [pc EXCEPT ![q] = "bind"]
        /\ born' = born \cup {s} /\ resumable' = resumable
        /\ s \notin born /\ pc[q] = "idle"
    BY <1>1 DEF GetOrCreate
  <2>2. \A r \in Posts : ~Carries(r, s)
    BY <2>1 DEF CarrierInv, Carries, Of
  <2>3. \A r \in Posts, x \in Sessions : Carries(r, x)' => Carries(r, x) \/ (r = q /\ x = s)
    BY <2>1 DEF TypeOK, CarrierInv, Carries, Of
  <2>4. OneCarrier'
    BY <2>2, <2>3 DEF CarrierInv, OneCarrier
  <2> QED BY <2>1, <2>4 DEF TypeOK, CarrierInv
<1>2. ASSUME NEW q \in Posts, NEW t \in Posts, Resume(q, t) PROVE CarrierInv'
  <2>1. /\ ses' = [ses EXCEPT ![q] = ses[t]] /\ pc' = [pc EXCEPT ![q] = "evict"]
        /\ born' = born /\ resumable' = resumable \ {t}
        /\ t \in resumable /\ pc[t] = "done" /\ pc[q] = "idle"
    BY <1>2 DEF Resume, spend, Of
  <2>2. Carries(t, ses[t]) /\ ses[t] \in Sessions /\ q # t
    BY <2>1 DEF TypeOK, Carries, Of
  <2>3. \A r \in Posts, x \in Sessions :
           Carries(r, x)' => (r # t /\ r # q /\ Carries(r, x)) \/ (r = q /\ x = ses[t])
    BY <2>1 DEF TypeOK, CarrierInv, Carries, Of
  <2>4. \A r \in Posts : r # t => ~Carries(r, ses[t])
    BY <2>2 DEF CarrierInv, OneCarrier
  <2>5. OneCarrier'
    BY <2>3, <2>4 DEF CarrierInv, OneCarrier
  <2> QED BY <2>1, <2>2, <2>5 DEF TypeOK, CarrierInv
<1>3. ASSUME NEW q \in Posts, refusePost(q) \/ postStep(q) PROVE CarrierInv'
  <2>1. CASE refusePost(q)
    BY <2>1, CarrierFrame DEF TypeOK, refusePost, mgrVars
  <2>2. CASE resumeRotates(q)
    BY <2>2, CarrierFrame DEF TypeOK, resumeRotates, mgrVars
  <2>3. CASE SetResourceID(q)
    BY <2>3, CarrierFrame DEF TypeOK, SetResourceID, mgrVars
  <2>4. CASE AddPeer(q)
    BY <2>4, CarrierFrame DEF TypeOK, AddPeer, mgrVars
  <2>5. CASE addPeerFails(q)
    BY <2>5, CarrierFrame DEF TypeOK, addPeerFails, mgrVars
  <2>6. CASE HandleOffer(q)
    BY <2>6, CarrierFrame DEF TypeOK, HandleOffer, mgrVars
  <2>7. CASE offerFails(q)
    BY <2>7, CarrierFrame DEF TypeOK, offerFails, mgrVars
  <2>8. CASE noToken(q)
    BY <2>8, CarrierFrame DEF TypeOK, noToken, mgrVars
  <2>9. CASE rotateResumeToken(q)
    BY <2>9, CarrierFrame DEF TypeOK, rotateResumeToken, mgrVars
  <2>10. CASE IssueResumeToken(q)
    BY <2>10, CarrierFrame DEF TypeOK, IssueResumeToken
  <2> QED
    BY <1>3, <2>1, <2>2, <2>3, <2>4, <2>5, <2>6, <2>7, <2>8, <2>9, <2>10 DEF postStep
<1>4. ASSUME UNCHANGED postVars, born' = born, resumable' \subseteq resumable
      PROVE  CarrierInv'
  BY <1>4, CarrierFrame DEF postVars
<1>5. ASSUME NEW q \in Posts, peerFails(q) \/ OnClose(q) \/ trackStep(q) PROVE CarrierInv'
  BY <1>4, <1>5 DEF peerFails, OnClose, trackStep, startPipeline, startFails,
                    trackCancelled, pipelineEnds, mgrVars
<1>6. ASSUME NEW c \in Posts \cup Sessions, drainStep(c) PROVE CarrierInv'
  BY <1>4, <1>6 DEF drainStep, collectPeers, closeVictim, victimClosed, mgrVars
<1>7. ASSUME NEW s \in Sessions, Remove(s) \/ lockedStep(s) PROVE CarrierInv'
  BY <1>4, <1>7 DEF Remove, lockedStep, removeReturns, closeAllCloses, closeAllClosed, mgrVars
<1>8. ASSUME NEW s \in Sessions, gracePasses(s) \/ reaperStep(s) PROVE CarrierInv'
  BY <1>4, <1>8 DEF gracePasses, reaperStep, reapCloses, reapClosed, mgrVars
<1>9. CASE reap \/ CloseAll \/ closeAllReturns
  BY <1>4, <1>9 DEF reap, CloseAll, closeAllReturns
<1>10. ASSUME NEW x \in Patches, patchStep(x) PROVE CarrierInv'
  BY <1>4, <1>10 DEF patchStep, sendPatch, checkPatch, getPeer, RestartICE, restartRefused,
                     RotateETag, patchOnly, mgrVars
<1>11. CASE UNCHANGED vars
  BY <1>4, <1>11 DEF vars, mgrVars
<1> QED
  BY <1>1, <1>2, <1>3, <1>5, <1>6, <1>7, <1>8, <1>9, <1>10, <1>11 DEF Next, arrives

\* Nobody carries a session before the first POST.
LEMMA CarrierInitial == Init => CarrierInv
  BY DEF Init, CarrierInv, OneCarrier, Carries, Of

\* At every moment one request or one token, and no more, leads to a
\* conversation, for any number of concurrent redials, DELETEs and reaps.
THEOREM OneCarrierCorrect == Safety => []OneCarrier
<1>1. Init => TypeOK /\ CarrierInv
  BY TypeInitial, CarrierInitial
<1>2. TypeOK /\ CarrierInv /\ [Next]_vars => (TypeOK /\ CarrierInv)'
  BY TypeInductive, CarrierInductive
<1>3. CarrierInv => OneCarrier
  BY DEF CarrierInv
<1> QED BY <1>1, <1>2, <1>3, PTL DEF Safety

--------------------------------------------------------------------------

\* Each step keeps a built conversation with the identity bound before it.
LEMMA ConversationInductive ==
    TypeOK /\ ConversationOwner /\ [Next]_vars => ConversationOwner'
<1> SUFFICES ASSUME TypeOK, ConversationOwner, [Next]_vars PROVE ConversationOwner'
  OBVIOUS
<1> USE ManagerAssumption
<1>1. ASSUME NEW q \in Posts, SetResourceID(q) PROVE ConversationOwner'
  BY <1>1 DEF TypeOK, ConversationOwner, SetResourceID, bound, Of
<1>2. ASSUME NEW q \in Posts, startPipeline(q) PROVE ConversationOwner'
  BY <1>2 DEF TypeOK, ConversationOwner, startPipeline, Of
<1>3. ASSUME UNCHANGED <<conv, resourceID>> PROVE ConversationOwner'
  BY <1>3 DEF ConversationOwner
<1>4. ASSUME NEW q \in Posts, arrives(q) PROVE ConversationOwner'
  BY <1>3, <1>4 DEF arrives, refusePost, GetOrCreate, Resume, sesVars
<1>5. ASSUME NEW q \in Posts, postStep(q) PROVE ConversationOwner'
  BY <1>1, <1>3, <1>5 DEF postStep, resumeRotates, AddPeer, addPeerFails, HandleOffer,
       offerFails, noToken, rotateResumeToken, IssueResumeToken, sesVars
<1>6. ASSUME NEW q \in Posts, peerFails(q) \/ OnClose(q) \/ trackStep(q)
      PROVE  ConversationOwner'
  BY <1>2, <1>3, <1>6 DEF peerFails, OnClose, trackStep, startFails, trackCancelled,
       pipelineEnds, sesVars
<1>7. ASSUME NEW c \in Posts \cup Sessions, drainStep(c) PROVE ConversationOwner'
  BY <1>3, <1>7 DEF drainStep, collectPeers, closeVictim, victimClosed, sesVars
<1>8. ASSUME NEW s \in Sessions, Remove(s) \/ lockedStep(s) \/ gracePasses(s) \/ reaperStep(s)
      PROVE  ConversationOwner'
  BY <1>3, <1>8 DEF Remove, lockedStep, removeReturns, closeAllCloses, closeAllClosed,
       gracePasses, reaperStep, reapCloses, reapClosed, sesVars
<1>9. CASE reap \/ CloseAll \/ closeAllReturns
  BY <1>3, <1>9 DEF reap, CloseAll, closeAllReturns, sesVars
<1>10. ASSUME NEW x \in Patches, patchStep(x) PROVE ConversationOwner'
  BY <1>3, <1>10 DEF patchStep, sendPatch, checkPatch, getPeer, RestartICE, restartRefused,
       RotateETag, patchOnly, sesVars
<1>11. CASE UNCHANGED vars
  BY <1>3, <1>11 DEF vars, sesVars
<1> QED
  BY <1>4, <1>5, <1>6, <1>7, <1>8, <1>9, <1>10, <1>11 DEF Next

\* No redial takes over a conversation that was built for somebody.
THEOREM ConversationKept == Safety => []ConversationOwner
<1>1. Init => ConversationOwner
  BY ManagerAssumption DEF Init, ConversationOwner, NotBuilt
<1> QED BY <1>1, TypeInitial, TypeInductive, ConversationInductive, PTL DEF Safety

--------------------------------------------------------------------------

\* A step that adds no session leaves the map within its cap.
LEMMA CapFrame ==
    ASSUME TypeOK, CapHolds, sessions' \subseteq sessions
    PROVE  CapHolds'
<1>1. IsFiniteSet(sessions)
  BY ManagerAssumption, FS_Subset DEF TypeOK
<1>2. Cardinality(sessions') <= Cardinality(sessions)
  BY <1>1, FS_Subset
<1>3. Cardinality(sessions') \in Nat /\ Cardinality(sessions) \in Nat
  BY <1>1, FS_Subset, FS_CardinalityType
<1> QED BY <1>2, <1>3, ManagerAssumption DEF CapHolds

\* GetOrCreate checks the cap under the lock that protects its insert.
LEMMA CapInductive == TypeOK /\ CapHolds /\ [Next]_vars => CapHolds'
<1> SUFFICES ASSUME TypeOK, CapHolds, [Next]_vars PROVE CapHolds'
  OBVIOUS
<1>1. ASSUME NEW q \in Posts, NEW s \in Sessions, GetOrCreate(q, s) PROVE CapHolds'
  <2>1. sessions' = sessions \cup {s} /\ ~atCapacity
    BY <1>1 DEF GetOrCreate
  <2>2. IsFiniteSet(sessions) /\ Cardinality(sessions) \in Nat
    BY ManagerAssumption, FS_Subset, FS_CardinalityType DEF TypeOK
  <2>3. Cardinality(sessions') \in {Cardinality(sessions), Cardinality(sessions) + 1}
    BY <2>1, <2>2, FS_AddElement
  <2> QED BY <2>1, <2>2, <2>3, ManagerAssumption DEF CapHolds, atCapacity
<1>2. ASSUME NEW q \in Posts,
             \/ refusePost(q) \/ \E t \in Posts : Resume(q, t)
             \/ postStep(q) \/ peerFails(q) \/ OnClose(q) \/ trackStep(q)
      PROVE  CapHolds'
  <2>1. sessions' = sessions
    BY <1>2 DEF refusePost, Resume, postStep, resumeRotates, SetResourceID, AddPeer,
         addPeerFails, HandleOffer, offerFails, noToken, rotateResumeToken,
         IssueResumeToken, peerFails, OnClose, trackStep, startPipeline, startFails,
         trackCancelled, pipelineEnds, mgrVars
  <2> QED BY <2>1, CapFrame
<1>3. ASSUME NEW c \in Posts \cup Sessions, drainStep(c) PROVE CapHolds'
  BY <1>3, CapFrame DEF drainStep, collectPeers, closeVictim, victimClosed, mgrVars
<1>4. ASSUME NEW s \in Sessions, Remove(s) \/ lockedStep(s) \/ gracePasses(s) \/ reaperStep(s)
      PROVE  CapHolds'
  BY <1>4, CapFrame DEF Remove, lockedStep, removeReturns, closeAllCloses, closeAllClosed,
       gracePasses, reaperStep, reapCloses, reapClosed, mgrVars
<1>5. CASE reap \/ CloseAll \/ closeAllReturns
  BY <1>5, CapFrame DEF reap, CloseAll, closeAllReturns
<1>6. ASSUME NEW x \in Patches, patchStep(x) PROVE CapHolds'
  BY <1>6, CapFrame DEF patchStep, sendPatch, checkPatch, getPeer, RestartICE,
       restartRefused, RotateETag, patchOnly, mgrVars
<1>7. CASE UNCHANGED vars
  BY <1>7, CapFrame DEF vars, mgrVars
<1> QED
  BY <1>1, <1>2, <1>3, <1>4, <1>5, <1>6, <1>7 DEF Next, arrives

\* The server never holds more sessions than server.max_sessions allows.
THEOREM CapCorrect == Safety => []CapHolds
<1>1. Init => CapHolds
  BY FS_EmptySet, ManagerAssumption DEF Init, CapHolds
<1> QED BY <1>1, TypeInitial, TypeInductive, CapInductive, PTL DEF Safety
--------------------------------------------------------------------------

\* No session is lost: whatever leaves idleSince at zero has made or kept a
\* peer, and the OnClose that ends the last one stamps it.
LEMMA NoLostInductive == TypeOK /\ NoLostSession /\ [Next]_vars => NoLostSession'
<1> SUFFICES ASSUME TypeOK, NoLostSession, [Next]_vars PROVE NoLostSession'
  OBVIOUS
<1> USE ManagerAssumption
<1>1. ASSUME ses' = ses, idleSince' = idleSince, sessions' \subseteq sessions,
             \A p \in Posts : peer[p] \in {"open", "closing"} => peer'[p] \in {"open", "closing"}
      PROVE  NoLostSession'
  BY <1>1 DEF NoLostSession, Of
<1>2. ASSUME NEW p \in Posts, beginClose(p)
      PROVE  \A r \in Posts : peer[r] \in {"open", "closing"} => peer'[r] \in {"open", "closing"}
  BY <1>2 DEF beginClose, TypeOK
<1>3. ASSUME NEW q \in Posts, NEW s \in Sessions, GetOrCreate(q, s) PROVE NoLostSession'
  BY <1>3 DEF GetOrCreate, NoLostSession, TypeOK, Of, peerVars
<1>4. ASSUME NEW q \in Posts, NEW t \in Posts, Resume(q, t) PROVE NoLostSession'
  <2>1. \A p \in Posts : peer[p] # "none" => ses'[p] = ses[p]
    BY <1>4 DEF Resume, TypeOK
  <2> QED BY <1>4, <2>1 DEF Resume, NoLostSession, Of, sesVars, peerVars
<1>5. ASSUME NEW q \in Posts, AddPeer(q) PROVE NoLostSession'
  <2>1. /\ ses' = ses /\ sessions' = sessions
        /\ peer' = [peer EXCEPT ![q] = "open"]
        /\ idleSince' = [idleSince EXCEPT ![ses[q]] = "zero"]
        /\ pc[q] = "addPeer"
    BY <1>5 DEF AddPeer, mgrVars, Of
  <2> QED BY <2>1 DEF NoLostSession, TypeOK, Of
<1>6. ASSUME NEW p \in Posts, OnClose(p) PROVE NoLostSession'
  <2>1. /\ ses' = ses /\ sessions' = sessions
        /\ peer' = [peer EXCEPT ![p] = "closed"]
        /\ idleSince' = [idleSince EXCEPT ![ses[p]] = "grace"]
        /\ ses[p] \in Sessions
    BY <1>6 DEF OnClose, removePeer, mgrVars, postVars, Of, TypeOK
  <2> QED BY <2>1 DEF NoLostSession, TypeOK, Of
<1>7. ASSUME NEW q \in Posts, refusePost(q) \/ postStep(q) PROVE NoLostSession'
  <2>1. CASE AddPeer(q)
    BY <2>1, <1>5
  <2>2. CASE offerFails(q)
    BY <2>2, <1>1, <1>2 DEF offerFails, mgrVars, sesVars
  <2> QED BY <1>1, <1>7, <2>1, <2>2 DEF refusePost, postStep, resumeRotates, SetResourceID,
       addPeerFails, HandleOffer, noToken, rotateResumeToken, IssueResumeToken,
       mgrVars, sesVars, peerVars
<1>8. ASSUME NEW q \in Posts, peerFails(q) \/ OnClose(q) \/ trackStep(q) PROVE NoLostSession'
  BY <1>1, <1>2, <1>6, <1>8 DEF peerFails, trackStep, startPipeline, startFails,
       trackCancelled, pipelineEnds, mgrVars, sesVars, postVars
<1>9. ASSUME NEW c \in Posts \cup Sessions, drainStep(c) PROVE NoLostSession'
  <2>1. CASE closeVictim(c)
    <3>1. victim[c] \in Posts
      BY <2>1 DEF closeVictim, TypeOK
    <3> QED BY <2>1, <3>1, <1>1, <1>2 DEF closeVictim, mgrVars, sesVars, postVars
  <2> QED BY <1>1, <1>9, <2>1 DEF drainStep, collectPeers, victimClosed, mgrVars, sesVars,
       postVars, peerVars
<1>10. ASSUME NEW s \in Sessions, gracePasses(s) PROVE NoLostSession'
  BY <1>10 DEF gracePasses, NoLostSession, TypeOK, Of, mgrVars, postVars, peerVars
<1>11. ASSUME NEW s \in Sessions, Remove(s) \/ lockedStep(s) \/ reaperStep(s) PROVE NoLostSession'
  BY <1>1, <1>11 DEF Remove, lockedStep, removeReturns, closeAllCloses, closeAllClosed,
       reaperStep, reapCloses, reapClosed, mgrVars, sesVars, postVars, peerVars
<1>12. CASE reap \/ CloseAll \/ closeAllReturns
  BY <1>1, <1>12 DEF reap, CloseAll, closeAllReturns, sesVars, postVars, peerVars
<1>13. ASSUME NEW x \in Patches, patchStep(x) PROVE NoLostSession'
  BY <1>1, <1>13 DEF patchStep, sendPatch, checkPatch, getPeer, RestartICE, restartRefused,
       RotateETag, patchOnly, mgrVars, sesVars, postVars, peerVars
<1>14. CASE UNCHANGED vars
  BY <1>1, <1>14 DEF vars, mgrVars, sesVars, postVars, peerVars
<1> QED
  BY <1>3, <1>4, <1>7, <1>8, <1>9, <1>10, <1>11, <1>12, <1>13, <1>14 DEF Next, arrives

\* Every session the reaper cannot see expire has a peer whose OnClose will
\* stamp it, however slowly connections are torn down.
THEOREM NoSessionLost == Safety => []NoLostSession
<1>1. Init => NoLostSession
  BY DEF Init, NoLostSession
<1> QED BY <1>1, TypeInitial, TypeInductive, NoLostInductive, PTL DEF Safety

--------------------------------------------------------------------------

\* A session is closed once: the drains of the sessions in the map wait for
\* Manager.mu, at most one of them is under way, and the reaper's are out of
\* the map.
DrainInv ==
    /\ sessions \cup reaping \subseteq born
    /\ sessions \cap reaping = {}
    /\ \A s \in Sessions : s \notin born => drain[s] = "no"
    /\ mu = "free" => \A s \in sessions : drain[s] = "no"
    /\ \A s, t \in sessions : drain[s] # "no" /\ drain[t] # "no" => s = t

\* A step that starts no drain of a session and adds no session.
LEMMA DrainFrame ==
    ASSUME TypeOK, DrainInv, born' = born, mu' = "free" => mu = "free",
           sessions' \subseteq sessions, reaping' \subseteq reaping,
           \A s \in Sessions : drain'[s] # "no" => drain[s] # "no"
    PROVE  DrainInv'
  BY DEF DrainInv, TypeOK

\* Each step preserves DrainInv.
LEMMA DrainInductive == TypeOK /\ DrainInv /\ [Next]_vars => DrainInv'
<1> SUFFICES ASSUME TypeOK, DrainInv, [Next]_vars PROVE DrainInv'
  OBVIOUS
<1> USE ManagerAssumption
<1>1. ASSUME UNCHANGED <<mgrVars, drain>> PROVE DrainInv'
  BY <1>1, DrainFrame DEF mgrVars
<1>2. ASSUME NEW q \in Posts, arrives(q) PROVE DrainInv'
  <2>1. ASSUME NEW s \in Sessions, GetOrCreate(q, s) PROVE DrainInv'
    BY <2>1 DEF GetOrCreate, DrainInv, TypeOK, drainVars
  <2>2. ASSUME NEW t \in Posts, Resume(q, t) PROVE DrainInv'
    BY <2>2, DrainFrame DEF Resume, TypeOK
  <2> QED BY <1>1, <1>2, <2>1, <2>2 DEF arrives, refusePost, drainVars
<1>3. ASSUME NEW q \in Posts, postStep(q) PROVE DrainInv'
  <2>1. CASE resumeRotates(q)
    BY <2>1, DrainFrame DEF resumeRotates, mgrVars, TypeOK
  <2>2. CASE IssueResumeToken(q)
    BY <2>2, DrainFrame DEF IssueResumeToken, drainVars
  <2> QED BY <1>1, <1>3, <2>1, <2>2 DEF postStep, SetResourceID, AddPeer, addPeerFails,
       HandleOffer, offerFails, noToken, rotateResumeToken, drainVars
<1>4. ASSUME NEW q \in Posts, peerFails(q) \/ OnClose(q) \/ trackStep(q) PROVE DrainInv'
  BY <1>1, <1>4 DEF peerFails, OnClose, trackStep, startPipeline, startFails, trackCancelled,
       pipelineEnds, drainVars
<1>5. ASSUME NEW c \in Posts \cup Sessions, drainStep(c) PROVE DrainInv'
  <2>1. \A s \in Sessions : drain'[s] # "no" => drain[s] # "no"
    BY <1>5 DEF drainStep, collectPeers, closeVictim, victimClosed, TypeOK
  <2> QED BY <1>5, <2>1, DrainFrame DEF drainStep, collectPeers, closeVictim, victimClosed,
       mgrVars
<1>6. ASSUME NEW s \in Sessions, Remove(s) PROVE DrainInv'
  BY <1>6 DEF Remove, cancelSession, DrainInv, TypeOK
<1>7. ASSUME NEW s \in Sessions, lockedStep(s) PROVE DrainInv'
  <2>1. CASE removeReturns(s)
    BY <2>1 DEF removeReturns, DrainInv, TypeOK, drainVars
  <2>2. CASE closeAllCloses(s)
    BY <2>2 DEF closeAllCloses, cancelSession, DrainInv, TypeOK, mgrVars
  <2>3. CASE closeAllClosed(s)
    BY <2>3, DrainFrame DEF closeAllClosed, drainVars
  <2> QED BY <1>7, <2>1, <2>2, <2>3 DEF lockedStep
<1>8. ASSUME NEW s \in Sessions, gracePasses(s) \/ reaperStep(s) PROVE DrainInv'
  <2>1. CASE reapCloses(s)
    BY <2>1 DEF reapCloses, cancelSession, DrainInv, TypeOK, mgrVars
  <2>2. CASE reapClosed(s)
    BY <2>2, DrainFrame DEF reapClosed, drainVars
  <2> QED BY <1>1, <1>8, <2>1, <2>2 DEF gracePasses, reaperStep, drainVars
<1>9. CASE reap
  BY <1>9 DEF reap, Expired, DrainInv, TypeOK, drainVars
<1>10. CASE CloseAll
  BY <1>10, DrainFrame DEF CloseAll, drainVars
<1>11. CASE closeAllReturns
  BY <1>11 DEF closeAllReturns, DrainInv, TypeOK, drainVars
<1>12. ASSUME NEW x \in Patches, patchStep(x) PROVE DrainInv'
  BY <1>1, <1>12 DEF patchStep, sendPatch, checkPatch, getPeer, RestartICE, restartRefused,
       RotateETag, patchOnly, drainVars
<1>13. CASE UNCHANGED vars
  BY <1>1, <1>13 DEF vars, drainVars
<1> QED
  BY <1>2, <1>3, <1>4, <1>5, <1>6, <1>7, <1>8, <1>9, <1>10, <1>11, <1>12, <1>13 DEF Next

\* Whoever a drain took out of a map has been created, and is closing or
\* closed once the drain has got past its Close.
EvictInv ==
    /\ \A c \in Posts \cup Sessions :
          victim[c] # None =>
             IF drain[c] = "close" THEN peer[victim[c]] # "none"
             ELSE peer[victim[c]] \in {"closing", "closed"}
    /\ \A s \in Sessions : peers[s] # None => peer[peers[s]] # "none"
    /\ \A q \in Posts :
          peer[q] # "none" => pc[q] \in {"offer", "failed", "rotate", "index", "done"}

\* A step that creates no peer, takes none out of a map for a drain and brings
\* none back.
LEMMA EvictFrame ==
    ASSUME TypeOK, EvictInv, victim' = victim,
           \A c \in Posts \cup Sessions : drain'[c] = "close" <=> drain[c] = "close",
           \A s \in Sessions : peers'[s] \in {peers[s], None},
           \A p \in Posts : \/ peer'[p] = peer[p]
                            \/ peer[p] \in {"open", "closing"} /\ peer'[p] \in {"closing", "closed"},
           \A q \in Posts :
              pc[q] \in {"offer", "failed", "rotate", "index", "done"} =>
                 pc'[q] \in {"offer", "failed", "rotate", "index", "done"}
    PROVE  EvictInv'
<1>1. \A p \in Posts : /\ peer[p] # "none" <=> peer'[p] # "none"
                       /\ peer[p] \in {"closing", "closed"} => peer'[p] \in {"closing", "closed"}
  BY DEF TypeOK
<1>2. \A c \in Posts \cup Sessions : victim[c] # None => victim[c] \in Posts
  BY DEF TypeOK
<1>3. \A s \in Sessions : peers[s] # None => peers[s] \in Posts
  BY DEF TypeOK
<1> QED BY <1>1, <1>2, <1>3 DEF EvictInv

\* Each step preserves EvictInv.
LEMMA EvictInductive == TypeOK /\ DrainInv /\ EvictInv /\ [Next]_vars => EvictInv'
<1> SUFFICES ASSUME TypeOK, DrainInv, EvictInv, [Next]_vars PROVE EvictInv'
  OBVIOUS
<1> USE ManagerAssumption
<1>1. ASSUME NEW p \in Posts, beginClose(p)
      PROVE  \A r \in Posts : peer'[r] = peer[r] \/ (peer[r] = "open" /\ peer'[r] = "closing")
  BY <1>1 DEF beginClose, TypeOK
<1>2. ASSUME NEW q \in Posts, arrives(q) PROVE EvictInv'
  BY <1>2, EvictFrame DEF arrives, refusePost, GetOrCreate, Resume, TypeOK, sesVars,
       drainVars, peerVars
<1>3. ASSUME NEW q \in Posts, AddPeer(q) PROVE EvictInv'
  <2>1. /\ pc[q] = "addPeer" /\ pc' = [pc EXCEPT ![q] = "offer"]
        /\ peers' = [peers EXCEPT ![ses[q]] = q]
        /\ peer' = [peer EXCEPT ![q] = "open"]
        /\ drain' = drain /\ victim' = victim /\ ses[q] \in Sessions
    BY <1>3 DEF AddPeer, drainVars, Of, TypeOK
  <2>2. peer[q] = "none"
    BY <2>1 DEF EvictInv
  <2>3. \A c \in Posts \cup Sessions : victim[c] # q
    BY <2>2 DEF EvictInv
  <2> QED BY <2>1, <2>3 DEF EvictInv, TypeOK
<1>4. ASSUME NEW q \in Posts, postStep(q) PROVE EvictInv'
  <2>1. CASE resumeRotates(q)
    BY <2>1, EvictFrame DEF resumeRotates, TypeOK, peerVars
  <2>2. CASE offerFails(q)
    BY <2>2, <1>1, EvictFrame DEF offerFails, TypeOK, sesVars, drainVars
  <2>3. CASE SetResourceID(q)
    BY <2>3, EvictFrame DEF SetResourceID, TypeOK, drainVars, peerVars
  <2>4. CASE rotateResumeToken(q)
    BY <2>4, EvictFrame DEF rotateResumeToken, TypeOK, drainVars, peerVars
  <2>5. CASE addPeerFails(q) \/ HandleOffer(q) \/ noToken(q) \/ IssueResumeToken(q)
    BY <2>5, EvictFrame DEF addPeerFails, HandleOffer, noToken, IssueResumeToken, TypeOK,
         sesVars, drainVars, peerVars
  <2> QED BY <1>3, <1>4, <2>1, <2>2, <2>3, <2>4, <2>5 DEF postStep
<1>5. ASSUME NEW q \in Posts, peerFails(q) \/ OnClose(q) \/ trackStep(q) PROVE EvictInv'
  <2>1. CASE OnClose(q)
    <3>1. /\ \A s \in Sessions : peers'[s] \in {peers[s], None}
          /\ \A p \in Posts : \/ peer'[p] = peer[p]
                              \/ peer[p] = "closing" /\ peer'[p] = "closed"
      BY <2>1 DEF OnClose, removePeer, Of, TypeOK
    <3> QED BY <2>1, <3>1, EvictFrame DEF OnClose, postVars, drainVars
  <2> QED BY <1>1, <1>5, <2>1, EvictFrame DEF peerFails, trackStep, startPipeline, startFails,
       trackCancelled, pipelineEnds, sesVars, postVars, drainVars
<1>6. ASSUME NEW c \in Posts \cup Sessions, drainStep(c) PROVE EvictInv'
  <2>1. CASE collectPeers(c)
    <3>0. DrainOf(c) \in Sessions
      BY <2>1 DEF collectPeers, DrainOf, Of, TypeOK
    <3>1. /\ victim' = [victim EXCEPT ![c] = peers[DrainOf(c)]]
          /\ peers' = [peers EXCEPT ![DrainOf(c)] = None]
          /\ drain' = [drain EXCEPT ![c] =
                          IF peers[DrainOf(c)] = None THEN "done" ELSE "close"]
          /\ pc' = pc /\ peer' = peer
      BY <2>1 DEF collectPeers, postVars, peerVars
    <3> QED BY <3>0, <3>1 DEF EvictInv, TypeOK
  <2>2. CASE closeVictim(c)
    <3>1. /\ drain[c] = "close" /\ victim[c] \in Posts
          /\ peer' = [peer EXCEPT ![victim[c]] = IF @ = "open" THEN "closing" ELSE @]
          /\ \A d \in Posts \cup Sessions : d # c => drain'[d] = drain[d]
          /\ drain'[c] # "close"
          /\ UNCHANGED <<peers, pc, victim>>
      BY <2>2 DEF closeVictim, beginClose, sesVars, postVars, TypeOK
    <3>2. \A p \in Posts : /\ peer[p] # "none" <=> peer'[p] # "none"
                           /\ peer[p] \in {"closing", "closed"} => peer'[p] \in {"closing", "closed"}
      BY <3>1 DEF TypeOK
    <3>3. peer'[victim[c]] \in {"closing", "closed"}
      BY <3>1 DEF EvictInv, TypeOK
    <3>4. /\ \A d \in Posts \cup Sessions : victim[d] # None => victim[d] \in Posts
          /\ \A s \in Sessions : peers[s] # None => peers[s] \in Posts
      BY DEF TypeOK
    <3> QED BY <3>1, <3>2, <3>3, <3>4 DEF EvictInv
  <2>3. CASE victimClosed(c)
    BY <2>3, EvictFrame DEF victimClosed, TypeOK, sesVars, postVars, peerVars
  <2> QED BY <1>6, <2>1, <2>2, <2>3 DEF drainStep
<1>7. ASSUME NEW s \in Sessions, cancelSession(s), drain[s] # "close",
             UNCHANGED <<sesVars, postVars, victim, peerVars>>
      PROVE  EvictInv'
  BY <1>7, EvictFrame DEF cancelSession, TypeOK, sesVars, postVars, peerVars
<1>8. ASSUME UNCHANGED <<peers, postVars, drainVars, peerVars>> PROVE EvictInv'
  BY <1>8, EvictFrame DEF postVars, drainVars, peerVars
<1>9. ASSUME NEW s \in Sessions, Remove(s) PROVE EvictInv'
  BY <1>7, <1>9 DEF Remove, DrainInv
<1>10. ASSUME NEW s \in Sessions, lockedStep(s) \/ gracePasses(s) \/ reaperStep(s)
      PROVE  EvictInv'
  <2>1. CASE closeAllCloses(s) \/ reapCloses(s)
    BY <1>7, <2>1 DEF closeAllCloses, reapCloses
  <2> QED BY <1>8, <1>10, <2>1 DEF lockedStep, removeReturns, closeAllClosed, gracePasses,
       reaperStep, reapClosed, sesVars
<1>11. CASE reap \/ CloseAll \/ closeAllReturns
  BY <1>8, <1>11 DEF reap, CloseAll, closeAllReturns, sesVars
<1>12. ASSUME NEW x \in Patches, patchStep(x) PROVE EvictInv'
  BY <1>8, <1>12 DEF patchStep, sendPatch, checkPatch, getPeer, RestartICE, restartRefused,
       RotateETag, patchOnly, sesVars
<1>13. CASE UNCHANGED vars
  BY <1>8, <1>13 DEF vars, sesVars
<1> QED
  BY <1>2, <1>4, <1>5, <1>6, <1>9, <1>10, <1>11, <1>12, <1>13 DEF Next

--------------------------------------------------------------------------

\* A step that is no PATCH's leaves every PATCH where it is.
LEMMA PatchUntouched ==
    ASSUME Next, \A x \in Patches : ~patchStep(x)
    PROVE  patch' = patch
<1>1. ASSUME NEW q \in Posts, arrives(q) PROVE patch' = patch
  BY <1>1 DEF arrives, refusePost, GetOrCreate, Resume
<1>2. ASSUME NEW q \in Posts, postStep(q) PROVE patch' = patch
  BY <1>2 DEF postStep, resumeRotates, SetResourceID, AddPeer, addPeerFails, HandleOffer,
       offerFails, noToken, rotateResumeToken, IssueResumeToken
<1>3. ASSUME NEW q \in Posts, peerFails(q) \/ OnClose(q) \/ trackStep(q) PROVE patch' = patch
  BY <1>3 DEF peerFails, OnClose, trackStep, startPipeline, startFails, trackCancelled,
       pipelineEnds
<1>4. ASSUME NEW c \in Posts \cup Sessions, drainStep(c) PROVE patch' = patch
  BY <1>4 DEF drainStep, collectPeers, closeVictim, victimClosed
<1>5. ASSUME NEW s \in Sessions, Remove(s) \/ lockedStep(s) \/ gracePasses(s) \/ reaperStep(s)
      PROVE  patch' = patch
  BY <1>5 DEF Remove, lockedStep, removeReturns, closeAllCloses, closeAllClosed,
       gracePasses, reaperStep, reapCloses, reapClosed
<1> QED BY <1>1, <1>2, <1>3, <1>4, <1>5 DEF Next, reap, CloseAll, closeAllReturns

\* A restart finds its peer open; an evicted one is not.
LEMMA RestartStep ==
    ASSUME TypeOK, EvictInv, [Next]_vars, NEW x \in Patches, Restarts(x)
    PROVE  ~Evicted(patch[x].peer)
<1>1. PICK y \in Patches : patchStep(y)
  BY PatchUntouched DEF Restarts, vars
<1>2. RestartICE(x)
  <2>1. y = x
    <3>1. \A z \in Patches : z # y => patch'[z] = patch[z]
      BY <1>1 DEF patchStep, sendPatch, checkPatch, getPeer, RestartICE, restartRefused,
           RotateETag, patchMoves, patchOver, TypeOK
    <3> QED BY <3>1 DEF Restarts
  <2>2. patchOver(x) => patch'[x].at # "rotate"
    BY DEF patchOver, NoPatch, TypeOK
  <2> QED
    BY <1>1, <2>1, <2>2 DEF Restarts, patchStep, sendPatch, checkPatch, getPeer, RestartICE,
       restartRefused, RotateETag, patchMoves, TypeOK
<1>3. peer[patch[x].peer] = "open" /\ patch[x].peer \in Posts
  BY <1>2 DEF RestartICE, restartable, TypeOK
<1> QED BY <1>3, ManagerAssumption DEF EvictInv, Evicted

\* No ICE restart lands on an evicted connection, however long ago the PATCH
\* looked its peer up and however slowly connections are torn down.
THEOREM RestartsCorrect == Safety => RestartsSkipEvicted
<1>1. Init => DrainInv /\ EvictInv
  BY ManagerAssumption DEF Init, DrainInv, EvictInv
<1>2. TypeOK /\ EvictInv /\ [Next]_vars =>
         [\A x \in Patches : Restarts(x) => ~Evicted(patch[x].peer)]_vars
  BY RestartStep
<1> QED BY <1>1, <1>2, TypeInitial, TypeInductive, DrainInductive, EvictInductive, PTL
        DEF Safety, RestartsSkipEvicted
=========================================================================
