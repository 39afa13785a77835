------------------------------ MODULE UDPRelay ------------------------------
(***************************************************************************)
(* One UDPRelayConn (src/udp_relay.go) and the peer it talks to: RoundTrip *)
(* with its retries, the read loop, serveRequest at the peer, the          *)
(* keepalive loop, the two ways to be marked failed, and Close.            *)
(*                                                                         *)
(* The network loses, delays, reorders and duplicates frames: a frame      *)
(* stays in flight until it is lost, so every resend and every copy is a   *)
(* further delivery.  RoundTrip draws a random 32-bit ID that is not       *)
(* pending; that the ID of a frame still in flight is not drawn again is   *)
(* an assumption of the model.                                             *)
(***************************************************************************)
EXTENDS Integers, FiniteSets

CONSTANTS
    Callers,     \* goroutines that call RoundTrip
    IDs,         \* request IDs
    NoID,        \* no request, or an empty channel
    Retries,     \* udpRelayRetries
    FailThresh,  \* udpRelayFailThresh
    KeepMiss     \* udpRelayKeepaliveMiss

ASSUME IDAssumption == NoID \notin IDs
ASSUME CallerAssumption == IsFiniteSet(Callers)
ASSUME LimitAssumption ==
    Retries \in Nat \ {0} /\ FailThresh \in Nat \ {0} /\ KeepMiss \in Nat \ {0}

VARIABLES
    pc,           \* each caller: idle, write, wait
    id,           \* the ID of its request
    attempt,      \* sends made so far
    got,          \* the response in its channel, named by its ID
    pending,      \* IDs in the pending map
    net,          \* request and response frames in flight
    failCount, failed, missedPongs,
    keepalive,    \* keepaliveLoop: ticker, count (after the ping), ended
    pong,         \* a ping or its pong is in flight and may still arrive
    peer,         \* up, silent, or refusing (its port answers unreachable)
    sock          \* open, stopping (stopCh closed), closed

calls == <<pc, id, attempt, got, pending>>
health == <<failCount, failed, missedPongs, keepalive, pong>>
vars == <<calls, net, health, peer, sock>>

Frame == [kind : {"req", "resp"}, id : IDs]

Init ==
    /\ pc = [c \in Callers |-> "idle"] /\ id = [c \in Callers |-> NoID]
    /\ attempt = [c \in Callers |-> 0] /\ got = [c \in Callers |-> NoID]
    /\ pending = {} /\ net = {}
    /\ failCount = 0 /\ failed = FALSE /\ missedPongs = 0
    /\ keepalive = "ticker" /\ pong = FALSE /\ peer = "up" /\ sock = "open"

-----------------------------------------------------------------------------
(* The socket and the failure counter                                      *)

CanWrite == sock # "closed"
WriteMayFail == sock = "closed" \/ peer = "refusing"

\* The FailThresh-th consecutive error marks the relay failed, for good.  The
\* counter saturates at the threshold.
recordFailure ==
    /\ failCount' = IF failCount < FailThresh THEN failCount + 1 ELSE failCount
    /\ failed' = (failed \/ failCount + 1 >= FailThresh)

-----------------------------------------------------------------------------
(* RoundTrip                                                               *)

\* Register a channel under a fresh ID.
RoundTrip(c) ==
    /\ pc[c] = "idle"
    /\ \E i \in IDs \ (pending \cup {f.id : f \in net}) :
         /\ id' = [id EXCEPT ![c] = i]
         /\ pending' = pending \cup {i}
    /\ pc' = [pc EXCEPT ![c] = "write"]
    /\ UNCHANGED <<attempt, got, net, health, peer, sock>>

\* The deferred delete.
Unregister(c) == pending' = pending \ {id[c]}

Return(c) ==
    /\ pc' = [pc EXCEPT ![c] = "idle"]
    /\ id' = [id EXCEPT ![c] = NoID]
    /\ attempt' = [attempt EXCEPT ![c] = 0]
    /\ got' = [got EXCEPT ![c] = NoID]
    /\ Unregister(c)

WriteFrame(c) ==
    /\ pc[c] = "write" /\ CanWrite
    /\ net' = net \cup {[kind |-> "req", id |-> id[c]]}
    /\ attempt' = [attempt EXCEPT ![c] = @ + 1]
    /\ pc' = [pc EXCEPT ![c] = "wait"]
    /\ UNCHANGED <<id, got, pending, health, peer, sock>>

WriteError(c) ==
    /\ pc[c] = "write" /\ WriteMayFail
    /\ recordFailure
    /\ Return(c)
    /\ UNCHANGED <<net, missedPongs, keepalive, pong, peer, sock>>

\* The channel has the response.
Receive(c) ==
    /\ pc[c] = "wait" /\ got[c] # NoID
    /\ failCount' = 0
    /\ Return(c)
    /\ UNCHANGED <<net, failed, missedPongs, keepalive, pong, peer, sock>>

AttemptsLeft(c) == attempt[c] < Retries

\* The attempt's timer fires first.  select picks either when a response is
\* there too, and after the last attempt that response is not looked at.
Timeout(c) ==
    /\ pc[c] = "wait"
    /\ \/ /\ AttemptsLeft(c)
          /\ pc' = [pc EXCEPT ![c] = "write"]
          /\ UNCHANGED <<id, attempt, got, pending, failCount, failed>>
       \/ ~AttemptsLeft(c) /\ recordFailure /\ Return(c)
    /\ UNCHANGED <<net, missedPongs, keepalive, pong, peer, sock>>

\* stopCh is closed: an error that is not counted.
Stopped(c) ==
    /\ pc[c] = "wait" /\ sock # "open"
    /\ Return(c)
    /\ UNCHANGED <<net, health, peer, sock>>

-----------------------------------------------------------------------------
(* readLoop, and the peer's readLoop and serveRequest                      *)

\* Mutant: a response goes to whoever waits, not to the ID's channel.
RegisteredAny(c, i) == pc[c] # "idle"

\* pending[reqID] is c's channel.
Registered(c, i) == i \in pending /\ id[c] = i

\* A response is put in its channel unless one is there already.  Without a
\* channel it is dropped, which changes nothing.
ReadResponse ==
    /\ sock = "open"
    /\ \E f \in net, c \in Callers :
         /\ f.kind = "resp" /\ Registered(c, f.id) /\ got[c] = NoID
         /\ got' = [got EXCEPT ![c] = f.id]
    /\ UNCHANGED <<pc, id, attempt, pending, net, health, peer, sock>>

\* serveRequest forwards every copy of a request and answers with the
\* control's status or 503; it does not remember IDs.
serveRequest ==
    /\ peer = "up"
    /\ \E f \in net : f.kind = "req" /\ net' = net \cup {[f EXCEPT !.kind = "resp"]}
    /\ UNCHANGED <<calls, health, peer, sock>>

Lose ==
    /\ \E f \in net : net' = net \ {f}
    /\ UNCHANGED <<calls, health, peer, sock>>

-----------------------------------------------------------------------------
(* keepaliveLoop                                                           *)

\* The ticker fires and the ping is written; a peer that is up answers it,
\* and the answer arrives at any later time or never.  With stopCh closed too,
\* select may still pick the ticker.
KeepaliveTick ==
    /\ keepalive = "ticker" /\ CanWrite
    /\ pong' = (pong \/ peer = "up")
    /\ keepalive' = "count"
    /\ UNCHANGED <<calls, net, failCount, failed, missedPongs, peer, sock>>

\* A write error counts as one failure and ends the loop.
KeepaliveWriteError ==
    /\ keepalive = "ticker" /\ WriteMayFail
    /\ recordFailure
    /\ keepalive' = "ended"
    /\ UNCHANGED <<calls, net, missedPongs, pong, peer, sock>>

\* Mutant: the loop ends on too many misses without marking the relay.
TooManyMissesQuiet == keepalive' = "ended" /\ UNCHANGED failed

TooManyMisses == keepalive' = "ended" /\ failed' = TRUE

\* missedPongs.Add(1), after the write: the pong may be there already.
KeepaliveCount ==
    /\ keepalive = "count"
    /\ missedPongs' = missedPongs + 1
    /\ IF missedPongs + 1 >= KeepMiss
       THEN TooManyMisses
       ELSE keepalive' = "ticker" /\ UNCHANGED failed
    /\ UNCHANGED <<calls, net, failCount, pong, peer, sock>>

KeepaliveStops ==
    /\ keepalive = "ticker" /\ sock # "open"
    /\ keepalive' = "ended"
    /\ UNCHANGED <<calls, net, failCount, failed, missedPongs, pong, peer, sock>>

ReadPong ==
    /\ sock = "open" /\ pong
    /\ pong' = FALSE /\ missedPongs' = 0
    /\ UNCHANGED <<calls, net, failCount, failed, keepalive, peer, sock>>

-----------------------------------------------------------------------------
PeerGone ==
    /\ peer = "up"
    /\ peer' \in {"silent", "refusing"}
    /\ UNCHANGED <<calls, net, health, sock>>

\* Close: close(stopCh), then conn.Close().
Close ==
    /\ \/ sock = "open" /\ sock' = "stopping"
       \/ sock = "stopping" /\ sock' = "closed"
    /\ UNCHANGED <<calls, net, health, peer>>

Caller(c) == WriteFrame(c) \/ WriteError(c) \/ Receive(c) \/ Timeout(c) \/ Stopped(c)
Keepalive == KeepaliveTick \/ KeepaliveWriteError \/ KeepaliveCount \/ KeepaliveStops

Next == \/ ReadResponse \/ serveRequest \/ Lose \/ Keepalive
        \/ ReadPong \/ PeerGone \/ Close
        \/ \E c \in Callers : RoundTrip(c) \/ Caller(c)

Spec == Init /\ [][Next]_vars

\* Timers fire and goroutines run; nothing makes the network deliver.
Fairness == WF_vars(Keepalive)

FairSpec == Spec /\ Fairness

-----------------------------------------------------------------------------
\* Every variable stays in its domain; attempt never passes udpRelayRetries
\* and missedPongs never passes udpRelayKeepaliveMiss.
TypeOK ==
    /\ pc \in [Callers -> {"idle", "write", "wait"}]
    /\ id \in [Callers -> IDs \cup {NoID}] /\ got \in [Callers -> IDs \cup {NoID}]
    /\ attempt \in [Callers -> 0..Retries]
    /\ pending \subseteq IDs /\ net \subseteq Frame
    /\ failCount \in 0..FailThresh /\ missedPongs \in 0..KeepMiss
    /\ failed \in BOOLEAN /\ keepalive \in {"ticker", "count", "ended"}
    /\ pong \in BOOLEAN
    /\ peer \in {"up", "silent", "refusing"} /\ sock \in {"open", "stopping", "closed"}

\* What a RoundTrip finds in its channel is the answer to its own request:
\* neither the late answer to a call that gave up nor another caller's answer
\* can get there, however the retries and the network multiply the frames.
AnswersOwnRequest == \A c \in Callers : got[c] \in {NoID, id[c]}

\* The pending map holds exactly the requests in progress, each under an ID
\* of its own: nothing leaks through an error return, a timeout or Close.
PendingExact ==
    /\ pending = {id[c] : c \in {d \in Callers : pc[d] # "idle"}}
    /\ Cardinality(pending) = Cardinality({c \in Callers : pc[c] # "idle"})

\* A peer that falls silent gets the relay marked failed even if nobody calls
\* RoundTrip, unless it is closed first.
SilentPeerMarked == peer = "silent" ~> failed \/ sock # "open"

\* Calls do not disturb one another: each finds only its own answer, is pending
\* exactly while it runs, and stays within udpRelayRetries (RoundTrip with
\* readLoop, the keepalive loop and Close beside it).
CallsSound == TypeOK /\ AnswersOwnRequest /\ PendingExact
=============================================================================
