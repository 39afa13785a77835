------------------------------ MODULE ParaExit ------------------------------
(***************************************************************************)
(* The para-exit client (src/para_exit.go): the loop that fetches the list *)
(* of exits every hour, one connecting goroutine per exit with its yamux   *)
(* session, the planned reconnect of each session, and Stop.               *)
(*                                                                         *)
(* The streams a session carries have no effect on its life and are left   *)
(* out.  Backoffs and timers end at any time.                              *)
(***************************************************************************)
EXTENDS FiniteSets

CONSTANT Exits

VARIABLES
    stopped,    \* Stop: "no", "closed" (stop is closed), "done" (it returned)
    childStop,  \* childStop of this round of the loop is closed
    loop,       \* "new", "top", "fetch", "wait", "hour", "join", "ended"
    conn,       \* connectToExit: "none", "top", "dialling", "dialled", "register",
                \* "accept", "backoff"
    session,    \* the yamux session of this goroutine: "none", "open", "closed"
    listed,     \* exits whose session is in c.sessions
    planned     \* its planned reconnect: "none", "waiting", "fired"

vars == <<stopped, childStop, loop, conn, session, listed, planned>>

Init ==
    /\ stopped = "no" /\ childStop = FALSE /\ loop = "new"
    /\ conn = [e \in Exits |-> "none"] /\ session = [e \in Exits |-> "none"]
    /\ listed = {} /\ planned = [e \in Exits |-> "none"]

stopClosed == stopped # "no"

-----------------------------------------------------------------------------
(* Start, Stop and the loop                                                *)

Start ==
    /\ loop = "new" /\ loop' = "top"
    /\ UNCHANGED <<stopped, childStop, conn, session, listed, planned>>

\* active is cleared and stop closed, then the listed sessions are closed.
Stop ==
    /\ loop # "new"
    /\ \/ /\ stopped = "no" /\ stopped' = "closed"
          /\ UNCHANGED <<session, listed>>
       \/ /\ stopped = "closed" /\ stopped' = "done"
          /\ session' = [e \in Exits |-> IF e \in listed THEN "closed" ELSE session[e]]
          /\ listed' = {}
    /\ UNCHANGED <<childStop, loop, conn, planned>>

LoopTop ==
    /\ loop = "top" /\ loop' = IF stopClosed THEN "ended" ELSE "fetch"
    /\ UNCHANGED <<stopped, childStop, conn, session, listed, planned>>

\* A list of exits starts a goroutine for each; none, or an error, a wait.
fetchExits(S) ==
    /\ loop = "fetch"
    /\ loop' = IF S = {} THEN "wait" ELSE "hour"
    /\ childStop' = FALSE
    /\ conn' = [e \in Exits |-> IF e \in S THEN "top" ELSE conn[e]]
    /\ UNCHANGED <<stopped, session, listed, planned>>

WaitOver ==
    /\ loop = "wait"
    /\ \/ stopClosed /\ loop' = "ended"
       \/ loop' = "top"
    /\ UNCHANGED <<stopped, childStop, conn, session, listed, planned>>

\* The hour is over, or stop was closed.
CloseChildren ==
    /\ loop = "hour" /\ loop' = "join" /\ childStop' = TRUE
    /\ UNCHANGED <<stopped, conn, session, listed, planned>>

\* wg.Wait.  After a stop the loop returns, here by way of its test of active.
Join ==
    /\ loop = "join" /\ \A e \in Exits : conn[e] = "none"
    /\ loop' = "top"
    /\ UNCHANGED <<stopped, childStop, conn, session, listed, planned>>

-----------------------------------------------------------------------------
(* connectToExit and runSession                                            *)

ToldToStop == childStop \/ stopClosed

ConnTop(e) ==
    /\ conn[e] = "top"
    /\ conn' = [conn EXCEPT ![e] = IF ToldToStop THEN "none" ELSE "dialling"]
    /\ UNCHANGED <<stopped, childStop, loop, session, listed, planned>>

\* Dial, TLS and the yamux session.
Dial(e) ==
    /\ conn[e] = "dialling"
    /\ \/ /\ conn' = [conn EXCEPT ![e] = "dialled"]
          /\ session' = [session EXCEPT ![e] = "open"]
       \/ /\ conn' = [conn EXCEPT ![e] = "backoff"]
          /\ UNCHANGED session
    /\ UNCHANGED <<stopped, childStop, loop, listed, planned>>

Append(e) ==
    /\ conn[e] = "dialled"
    /\ conn' = [conn EXCEPT ![e] = "register"]
    /\ listed' = listed \cup {e}
    /\ UNCHANGED <<stopped, childStop, loop, session, planned>>

\* The deferred calls of runSession.
Return(e, to) ==
    /\ conn' = [conn EXCEPT ![e] = to]
    /\ session' = [session EXCEPT ![e] = "none"]
    /\ listed' = listed \ {e}
    /\ planned' = [planned EXCEPT ![e] = "none"]
    /\ UNCHANGED <<stopped, childStop, loop>>

register(e) ==
    /\ conn[e] = "register"
    /\ \/ Return(e, "backoff")
       \/ /\ session[e] = "open"
          /\ conn' = [conn EXCEPT ![e] = "accept"]
          /\ planned' = [planned EXCEPT ![e] = "waiting"]
          /\ UNCHANGED <<stopped, childStop, loop, session, listed>>

\* AcceptStream returns an error once the session is closed.
AcceptFails(e) ==
    /\ conn[e] = "accept" /\ session[e] = "closed"
    /\ Return(e, IF planned[e] = "fired" THEN "top" ELSE "backoff")

BackoffOver(e) ==
    /\ conn[e] = "backoff"
    /\ conn' = [conn EXCEPT ![e] = IF ToldToStop THEN "none" ELSE "top"]
    /\ UNCHANGED <<stopped, childStop, loop, session, listed, planned>>

\* The goroutine of the planned reconnect: its time, or a stop.
PlannedReconnect(e) ==
    /\ planned[e] = "waiting"
    /\ \/ /\ planned' = [planned EXCEPT ![e] = "fired"]
          /\ session' = [session EXCEPT ![e] = "closed"]
       \/ /\ ToldToStop
          /\ planned' = [planned EXCEPT ![e] = "none"]
          /\ UNCHANGED session
    /\ UNCHANGED <<stopped, childStop, loop, conn, listed>>

\* The exit or the network ends the session.
PeerCloses(e) ==
    /\ session[e] = "open"
    /\ session' = [session EXCEPT ![e] = "closed"]
    /\ UNCHANGED <<stopped, childStop, loop, conn, listed, planned>>

Loop == LoopTop \/ (\E S \in SUBSET Exits : fetchExits(S)) \/ WaitOver \/ CloseChildren \/ Join
Conn(e) == ConnTop(e) \/ Dial(e) \/ Append(e) \/ register(e) \/ AcceptFails(e) \/ BackoffOver(e)

Next ==
    \/ Start \/ Stop \/ Loop
    \/ \E e \in Exits : Conn(e) \/ PlannedReconnect(e) \/ PeerCloses(e)

\* Every goroutine that is not blocked goes on, and Stop finishes.
Fairness ==
    /\ WF_vars(Loop) /\ WF_vars(stopClosed /\ Stop)
    /\ \A e \in Exits : WF_vars(Conn(e)) /\ WF_vars(PlannedReconnect(e))

Spec == Init /\ [][Next]_vars /\ Fairness

-----------------------------------------------------------------------------
(* Properties                                                              *)

\* Stop tears down all para-exit sessions: once it has been called, every
\* session is closed in the end, and so is one that runSession was opening.
StopTearsDown == stopClosed ~> \A e \in Exits : session[e] # "open"
=============================================================================
