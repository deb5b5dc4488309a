----------------------------- MODULE SerialCalls -----------------------------
(***************************************************************************)
(* What internal/aqf promises those who share the Bluetooth session: each   *)
(* call runs at most once, one at a time; ordinary calls run in a session,  *)
(* exclusive ones without.  These may operate the radio themselves, and such *)
(* an operation may outlast its call; a session does not open before it has  *)
(* ended.  A call that is refused does not run.  While the daemon stops, what *)
(* is under way may overlap, but never two that have the radio.             *)
(***************************************************************************)
CONSTANTS Calls, Exclusives

VARIABLES
    state,     \* of each call
    session,   \* a session is open, or being opened or closed
    operating, \* an operation of an exclusive call has the radio
    stopping

serialVars == <<state, session, operating, stopping>>

Init ==
    /\ state = [c \in Calls |-> "waiting"]
    /\ session = FALSE /\ operating = FALSE /\ stopping = FALSE

Quiet == \A c \in Calls : state[c] # "running"

Open ==
    /\ ~session /\ ~operating /\ ~stopping /\ Quiet
    /\ session' = TRUE
    /\ UNCHANGED <<state, operating, stopping>>

Close ==
    /\ session /\ (stopping \/ Quiet)
    /\ session' = FALSE
    /\ UNCHANGED <<state, operating, stopping>>

Begin(c) ==
    /\ state[c] = "waiting"
    /\ stopping \/ Quiet
    /\ IF c \in Exclusives THEN stopping \/ ~session ELSE session
    /\ state' = [state EXCEPT ![c] = "running"]
    /\ UNCHANGED <<session, operating, stopping>>

End(c) ==
    /\ state[c] = "running"
    /\ state' = [state EXCEPT ![c] = "ran"]
    /\ UNCHANGED <<session, operating, stopping>>

\* Only a call that needs a session is refused, when there is none.
Refuse(c) ==
    /\ state[c] = "waiting" /\ c \notin Exclusives
    /\ state' = [state EXCEPT ![c] = "refused"]
    /\ UNCHANGED <<session, operating, stopping>>

Operate ==
    /\ \E c \in Exclusives : state[c] = "running"
    /\ ~session /\ ~operating
    /\ operating' = TRUE
    /\ UNCHANGED <<state, session, stopping>>

OperationEnds ==
    /\ operating
    /\ operating' = FALSE
    /\ UNCHANGED <<state, session, stopping>>

Stop ==
    /\ ~stopping
    /\ stopping' = TRUE
    /\ UNCHANGED <<state, session, operating>>

Next ==
    \/ Open \/ Close \/ Operate \/ OperationEnds \/ Stop
    \/ \E c \in Calls : Begin(c) \/ End(c) \/ Refuse(c)

Spec == Init /\ [][Next]_serialVars
=============================================================================
