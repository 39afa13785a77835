------------------------------ MODULE UDPAssoc ------------------------------
(***************************************************************************)
(* One SOCKS5 UDP ASSOCIATE session (src/udp_assoc.go): the relay loop,    *)
(* the fallback of a silent direct destination to the tunnel, one send     *)
(* queue with a worker and a circuit breaker per destination, one drain    *)
(* per destination, and the end of the session.                            *)
(*                                                                         *)
(* Datagrams are counted, not told apart.  PostUDPFrame, DrainUDPFrames    *)
(* and the sockets are choices among their outcomes.                       *)
(***************************************************************************)
EXTENDS Integers, FiniteSets

CONSTANTS
    Dsts,         \* IPv4 destinations
    DNS,          \* those on port 53, which have no statistics
    Bypass,       \* those tried directly first (LAN or ShouldBypass)
    QDepth,       \* tunnelWorkerQDepth
    FallbackSent, \* socks5UDPFallbackSent
    CBThreshold   \* tunnelCBThreshold

ASSUME UDPAssocAssumption ==
    /\ DNS \subseteq Dsts /\ Bypass \subseteq Dsts
    /\ {QDepth, FallbackSent, CBThreshold} \subseteq Nat \ {0}
    /\ {"top", "reading", "ended"} \cap Dsts = {}

VARIABLES
    stop,      \* stopCh is closed
    relay,     \* relayLoop: "top", "reading", "ended", or the Dst it queues for
    stats,     \* per Dst: sent, recv (a reply came), useTunnel, streak, blocked
    checking,  \* Dsts with a checkFallback goroutine
    worker, q, \* per Dst: runTunnelWorker and the length of its queue
    drain,     \* per Dst: drainLoop
    drainActive,
    burst      \* history, per Dst: sends started since the circuit opened

flow == <<worker, q, burst>>
vars == <<stop, relay, stats, checking, flow, drain, drainActive>>

NoStats == [sent |-> 0, recv |-> FALSE, useTunnel |-> FALSE, streak |-> 0, blocked |-> FALSE]

Init ==
    /\ stop = FALSE /\ relay = "top"
    /\ stats = [d \in Dsts |-> NoStats] /\ checking = {}
    /\ worker = [d \in Dsts |-> "none"] /\ q = [d \in Dsts |-> 0]
    /\ drain = [d \in Dsts |-> "none"] /\ drainActive = {}
    /\ burst = [d \in Dsts |-> 0]

\* The TCP control connection ends.
watchCtrl ==
    /\ ~stop /\ stop' = TRUE
    /\ UNCHANGED <<relay, stats, checking, flow, drain, drainActive>>

-----------------------------------------------------------------------------
(* relayLoop                                                               *)

\* Either the stop is seen, or the next read begins.
Top ==
    /\ relay = "top"
    /\ relay' = IF stop THEN "ended" ELSE "reading"
    /\ UNCHANGED <<stop, stats, checking, flow, drain, drainActive>>

\* A read ends with a timeout, or with an error that ends the loop.
ReadFails ==
    /\ relay = "reading"
    /\ relay' \in {"top", "ended"}
    /\ UNCHANGED <<stop, stats, checking, flow, drain, drainActive>>

recordRecv(d) == stats' = IF stats[d].sent > 0 THEN [stats EXCEPT ![d].recv = TRUE] ELSE stats

\* A datagram from a destination is passed on to the client.
Inbound(d) ==
    /\ relay = "reading" /\ relay' = "top"
    /\ recordRecv(d)
    /\ UNCHANGED <<stop, checking, flow, drain, drainActive>>

\* Mutant: a destination with an open circuit is queued all the same.
goSendViaTunnelAlways(d) ==
    /\ worker' = [worker EXCEPT ![d] = IF @ = "none" THEN "idle" ELSE @]
    /\ relay' = d

\* Dropped while the circuit is open; the first datagram starts the worker.
goSendViaTunnel(d) ==
    IF stats[d].blocked THEN relay' = "top" /\ UNCHANGED worker
    ELSE /\ worker' = [worker EXCEPT ![d] = IF @ = "none" THEN "idle" ELSE @]
         /\ relay' = d

\* Mutant: the threshold is one datagram later.
checkAtLate(sent) == sent = FallbackSent + 1

checkAt(sent) == sent = FallbackSent

\* A datagram of the client.  The count, which only matters for what is sent
\* directly, saturates above FallbackSent.
forwardOutbound(d) ==
    LET sent == IF stats[d].sent > FallbackSent THEN stats[d].sent ELSE stats[d].sent + 1 IN
    /\ relay = "reading"
    /\ IF d \in DNS \/ stats[d].useTunnel \/ d \notin Bypass
       THEN goSendViaTunnel(d) /\ UNCHANGED <<stats, checking>>
       ELSE /\ stats' = [stats EXCEPT ![d].sent = sent]
            /\ checking' = IF checkAt(sent) THEN checking \cup {d} ELSE checking
            /\ relay' = "top" /\ UNCHANGED worker
    /\ UNCHANGED <<stop, q, burst, drain, drainActive>>

\* Mutant: a full queue is waited for without an eye on stopCh.
GivesUpNever == FALSE

GivesUp == stop

Room(d) == q[d] < QDepth

\* The blocking send into the queue, or stopCh.
Enqueue ==
    /\ relay \in Dsts /\ relay' = "top"
    /\ \/ Room(relay) /\ q' = [q EXCEPT ![relay] = @ + 1]
       \/ GivesUp /\ UNCHANGED q
    /\ UNCHANGED <<stop, stats, checking, worker, burst, drain, drainActive>>

\* Three seconds after the third datagram.
checkFallback(d) ==
    /\ d \in checking /\ checking' = checking \ {d}
    /\ stats' = IF stats[d].recv THEN stats ELSE [stats EXCEPT ![d].useTunnel = TRUE]
    /\ UNCHANGED <<stop, relay, flow, drain, drainActive>>

-----------------------------------------------------------------------------
(* Workers and drains                                                      *)

Take(d) ==
    /\ worker[d] = "idle" /\ q[d] > 0
    /\ worker' = [worker EXCEPT ![d] = "sending"]
    /\ q' = [q EXCEPT ![d] = @ - 1]
    /\ burst' = IF stats[d].blocked /\ burst[d] < QDepth + 2
                THEN [burst EXCEPT ![d] = @ + 1] ELSE burst
    /\ UNCHANGED <<stop, relay, stats, checking, drain, drainActive>>

WorkerStops(d) ==
    /\ worker[d] = "idle" /\ stop
    /\ worker' = [worker EXCEPT ![d] = "ended"]
    /\ UNCHANGED <<stop, relay, stats, checking, q, burst, drain, drainActive>>

startTunnelDrain(d) ==
    /\ drainActive' = drainActive \cup {d}
    /\ drain' = IF d \in drainActive THEN drain ELSE [drain EXCEPT ![d] = "running"]

SendSucceeds(d) ==
    /\ worker[d] = "sending"
    /\ worker' = [worker EXCEPT ![d] = "idle"]
    /\ stats' = [stats EXCEPT ![d].streak = 0]
    /\ startTunnelDrain(d)
    /\ UNCHANGED <<stop, relay, checking, q, burst>>

\* No dialer, or an error.  Enough in a row open the circuit.
SendFails(d) ==
    /\ worker[d] = "sending"
    /\ worker' = [worker EXCEPT ![d] = "idle"]
    /\ stats' = IF d \in DNS THEN stats
                ELSE IF stats[d].streak + 1 < CBThreshold
                     THEN [stats EXCEPT ![d].streak = @ + 1]
                     ELSE [stats EXCEPT ![d].streak = 0, ![d].blocked = TRUE]
    /\ UNCHANGED <<stop, relay, checking, q, burst, drain, drainActive>>

\* tunnelCBCooldown is over.
Cooldown(d) ==
    /\ stats[d].blocked
    /\ stats' = [stats EXCEPT ![d].blocked = FALSE]
    /\ burst' = [burst EXCEPT ![d] = 0]
    /\ UNCHANGED <<stop, relay, checking, worker, q, drain, drainActive>>

\* DrainUDPFrames was cancelled: the loop returns, drainActive stays.
DrainCancelled(d) ==
    /\ drain[d] = "running"
    /\ drain' = [drain EXCEPT ![d] = "cancelled"]
    /\ UNCHANGED <<stop, relay, stats, checking, flow, drainActive>>

\* Every other outcome leads back to the test of stopCh.
DrainStops(d) ==
    /\ drain[d] = "running" /\ stop
    /\ drain' = [drain EXCEPT ![d] = "ended"]
    /\ UNCHANGED <<stop, relay, stats, checking, flow, drainActive>>

Relay == Top \/ ReadFails \/ Enqueue \/ \E d \in Dsts : Inbound(d) \/ forwardOutbound(d)

\* What the goroutines do by themselves.
Step ==
    \/ Relay
    \/ \E d \in Dsts : \/ Take(d) \/ WorkerStops(d) \/ SendSucceeds(d) \/ SendFails(d)
                       \/ DrainStops(d)

Next ==
    \/ watchCtrl \/ Step
    \/ \E d \in Dsts : checkFallback(d) \/ Cooldown(d) \/ DrainCancelled(d)

\* Reads time out after 100 ms, requests have timeouts, and sleeps end, so
\* that goroutines of an ended session go on to their next step.
Fairness == WF_vars(stop /\ Step) /\ \A d \in Dsts : WF_vars(checkFallback(d))

Spec == Init /\ [][Next]_vars /\ Fairness

-----------------------------------------------------------------------------
(* Properties                                                              *)

\* The types of the state; the queue has its depth.
TypeOK ==
    /\ stop \in BOOLEAN /\ relay \in {"top", "reading", "ended"} \cup Dsts
    /\ stats \in [Dsts -> [sent : 0..FallbackSent + 1, recv : BOOLEAN, useTunnel : BOOLEAN,
                           streak : 0..CBThreshold - 1, blocked : BOOLEAN]]
    /\ checking \subseteq Dsts /\ drainActive \subseteq Dsts
    /\ worker \in [Dsts -> {"none", "idle", "sending", "ended"}] /\ q \in [Dsts -> 0..QDepth]
    /\ drain \in [Dsts -> {"none", "running", "cancelled", "ended"}]
    /\ burst \in [Dsts -> 0..QDepth + 2]

\* While the circuit of a destination is open, the worker still sends what was
\* queued before, and the one datagram relayLoop was waiting to queue: never
\* more than that, although the doc of goSendViaTunnel says sends are suppressed.
BurstBounded == \A d \in Dsts : burst[d] <= QDepth + 1

\* After a successful send a drain is running for the destination until the
\* session ends, except when DrainUDPFrames was cancelled: drainLoop then
\* returns and leaves its entry, and no drain is started again.
DrainLostOnlyByCancel ==
    \A d \in drainActive : drain[d] = "running" \/ drain[d] = "cancelled" \/ stop

\* Queues, circuit breaker and drains stay within their limits: an open circuit
\* lets no more than the queue through, and a drain is missing only after a
\* cancelled one (goSendViaTunnel, sendViaTunnel, startTunnelDrain).
SessionSound == TypeOK /\ BurstBounded /\ DrainLostOnlyByCancel

\* When the control connection closes, relayLoop, every worker and every drain
\* end, even a relayLoop that waits on a full queue whose worker is gone.
SessionEnds ==
    stop ~> /\ relay = "ended"
            /\ \A d \in Dsts : worker[d] \in {"none", "ended"} /\ drain[d] # "running"

\* A directly tried destination that stays silent for FallbackSent datagrams
\* goes through the tunnel in the end: checkFallback is started once, by the
\* datagram that reaches the threshold, and is not missed.
SilentFallsBack ==
    \A d \in Bypass \ DNS :
        stats[d].sent >= FallbackSent ~> stats[d].recv \/ stats[d].useTunnel
=============================================================================
