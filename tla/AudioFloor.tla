--------------------------- MODULE AudioFloor ---------------------------
(***************************************************************************)
(* What response ownership promises: one response holds the audio path at  *)
(* a time, the path is free in between, and no response holds it twice.    *)
(***************************************************************************)
CONSTANT Responses
VARIABLES holders, granted

Init == holders = {} /\ granted = {}

\* A response takes the free floor.
Take(r) ==
    /\ r \notin granted
    /\ holders = {}
    /\ holders' = {r}
    /\ granted' = granted \cup {r}

\* A response that starts with its context already done holds nothing.
Forfeit(r) ==
    /\ r \notin granted
    /\ granted' = granted \cup {r}
    /\ UNCHANGED holders

\* The holder finishes or is cancelled.
Leave ==
    /\ holders # {}
    /\ holders' = {}
    /\ UNCHANGED granted

Next == Leave \/ \E r \in Responses : Take(r) \/ Forfeit(r)

Spec == Init /\ [][Next]_<<holders, granted>>
=========================================================================
