------------------------------- MODULE Socks -------------------------------
(***************************************************************************)
(* The SOCKS5 front end (src/socks5.go) with what a CONNECT goes through:  *)
(* the bypass decision (src/bypass.go), the per-IP limiter, the dialer     *)
(* pool (src/dialer_pool.go) and the two copy goroutines of relayConns.    *)
(*                                                                         *)
(* Each element of Handlers is a goroutine running handle, again and again *)
(* for new clients, all from one source address.  Targets are addresses;   *)
(* LAN and Home say how isLANAddress and the country rules (TLD override,  *)
(* then CIDRs) classify them, Names those given as host names.             *)
(***************************************************************************)
EXTENDS Integers, FiniteSets

CONSTANTS
    Handlers,
    Targets, LAN, Home, Names,
    Dialers,
    PerIP,       \* socks5PerIPLimit
    FailTTL      \* ticks a failed bypass is remembered (30 minutes)

ASSUME TargetAssumption ==
    /\ Targets # {} /\ LAN \subseteq Targets /\ Home \subseteq Targets /\ Names \subseteq Targets
    /\ LAN \cap Names = {}
ASSUME SocksLimitAssumption == PerIP \in Nat \ {0} /\ FailTTL \in Nat \ {0}
ASSUME HandlerAssumption == IsFiniteSet(Handlers)
ASSUME RouteAssumption == {"none", "direct", "dialFn"} \cap Dialers = {}

NotRecorded == -1

VARIABLES
    mode,        \* how the server was built: pool, bypass (pool and bypass), dialFn
    pc,          \* idle, check, expired, direct, acquire, pick, dial, relay
    target,      \* what the handler's client asked for
    bypassFailed,
    via,         \* the dialer in use, or the direct route, or dialFn
    replies,     \* SOCKS replies to this client's request
    sem,         \* slots taken in the limiter's channel
    up, down,    \* relayConns: its goroutines, running or done
    clientGone, remoteGone,  \* that end of the relay has closed or failed
    cClosed, rClosed,        \* Close was called on c, on remote
    enabled, loaded,         \* BypassManager: switched on, country rules there
    failedIPs,   \* per target: ticks left, 0 when expired, or NotRecorded
    slots        \* the pool: the dialers that have a slot in it

conns == <<up, down, clientGone, remoteGone, cClosed, rClosed>>
request == <<pc, target, bypassFailed, via, replies>>
bypass == <<enabled, loaded, failedIPs>>
vars   == <<mode, request, conns, sem, bypass, slots>>

Routes == Dialers \cup {"none", "direct", "dialFn"}

Init ==
    /\ mode \in {"pool", "bypass", "dialFn"}
    /\ pc = [h \in Handlers |-> "idle"]
    /\ target \in [Handlers -> {CHOOSE t \in Targets : TRUE}]
    /\ bypassFailed = [h \in Handlers |-> FALSE]
    /\ via = [h \in Handlers |-> "none"]
    /\ replies = [h \in Handlers |-> 0]
    /\ sem = 0
    /\ up = [h \in Handlers |-> "done"] /\ down = [h \in Handlers |-> "done"]
    /\ clientGone = [h \in Handlers |-> FALSE] /\ remoteGone = [h \in Handlers |-> FALSE]
    /\ cClosed = [h \in Handlers |-> TRUE] /\ rClosed = [h \in Handlers |-> TRUE]
    /\ enabled = TRUE /\ loaded = FALSE
    /\ failedIPs = [t \in Targets |-> NotRecorded]
    /\ slots \in SUBSET Dialers \ {{}}

-----------------------------------------------------------------------------
(* handle                                                                  *)

Goto(h, label) == pc' = [pc EXCEPT ![h] = label]

\* The request is read: a CONNECT goes on.
Accept(h) ==
    /\ pc[h] = "idle"
    /\ \E t \in Targets : target' = [target EXCEPT ![h] = t]
    /\ Goto(h, IF mode = "bypass" THEN "check" ELSE "acquire")
    /\ bypassFailed' = [bypassFailed EXCEPT ![h] = FALSE]
    /\ replies' = [replies EXCEPT ![h] = 0]
    /\ cClosed' = [cClosed EXCEPT ![h] = FALSE]
    /\ clientGone' = [clientGone EXCEPT ![h] = FALSE]
    /\ UNCHANGED <<mode, via, up, down, remoteGone, rClosed, sem, bypass, slots>>

\* A malformed handshake, an unsupported command or a blocked BitTorrent port:
\* the connection is closed, with one reply or none.
Refuse(h) ==
    /\ pc[h] = "idle"
    /\ \E n \in {0, 1} : replies' = [replies EXCEPT ![h] = n]
    /\ UNCHANGED <<mode, pc, target, bypassFailed, via, conns, sem, bypass, slots>>

\* handleConnect returns: the deferred release and handle's deferred Close.
Finish(h) ==
    /\ Goto(h, "idle")
    /\ via' = [via EXCEPT ![h] = "none"]
    /\ cClosed' = [cClosed EXCEPT ![h] = TRUE]

Reply(h) == replies' = [replies EXCEPT ![h] = IF @ < 2 THEN @ + 1 ELSE @]

-----------------------------------------------------------------------------
(* ShouldBypass and the direct dial                                        *)

\* The country rules for a target whose failure is not remembered.
Decide(h) ==
    Goto(h, IF (loaded /\ target[h] \in Home) \/ target[h] \in LAN THEN "direct" ELSE "acquire")

\* enabled, and the failure record, are read.  A name may fail to resolve.
ShouldBypass(h) ==
    /\ pc[h] = "check"
    /\ \/ /\ ~enabled \/ failedIPs[target[h]] > 0 \/ target[h] \in Names
          /\ Goto(h, IF target[h] \in LAN THEN "direct" ELSE "acquire")
       \/ enabled /\ failedIPs[target[h]] = NotRecorded /\ Decide(h)
       \/ enabled /\ failedIPs[target[h]] = 0 /\ Goto(h, "expired")
    /\ UNCHANGED <<mode, target, bypassFailed, via, replies, conns, sem, bypass, slots>>

\* The record was found expired, and is deleted whatever it is now.  The rules
\* are those read before it: a record exists only once they are loaded.
DeleteExpired(h) ==
    /\ pc[h] = "expired"
    /\ failedIPs' = [failedIPs EXCEPT ![target[h]] = NotRecorded]
    /\ Decide(h)
    /\ UNCHANGED <<mode, target, bypassFailed, via, replies, conns, sem, enabled, loaded, slots>>

StartRelay(h) ==
    /\ Goto(h, "relay")
    /\ up' = [up EXCEPT ![h] = "running"] /\ down' = [down EXCEPT ![h] = "running"]
    /\ rClosed' = [rClosed EXCEPT ![h] = FALSE]
    /\ remoteGone' = [remoteGone EXCEPT ![h] = FALSE]

DirectConnected(h) ==
    /\ pc[h] = "direct"
    /\ Reply(h) /\ StartRelay(h)
    /\ via' = [via EXCEPT ![h] = "direct"]
    /\ UNCHANGED <<mode, target, bypassFailed, clientGone, cClosed, sem, bypass, slots>>

\* Mutant: the failure is answered before the tunnel is tried.
FallBackReplies(h) ==
    /\ Goto(h, "acquire") /\ bypassFailed' = [bypassFailed EXCEPT ![h] = TRUE]
    /\ Reply(h) /\ UNCHANGED <<via, cClosed>>

FallBack(h) ==
    /\ Goto(h, "acquire") /\ bypassFailed' = [bypassFailed EXCEPT ![h] = TRUE]
    /\ UNCHANGED <<replies, via, cClosed>>

\* Mutant: a LAN target falls back to the tunnel too.
MustBeDirectNever(t) == FALSE

MustBeDirect(t) == t \in LAN

DirectFailed(h) ==
    /\ pc[h] = "direct"
    /\ \/ MustBeDirect(target[h]) /\ Reply(h) /\ Finish(h) /\ UNCHANGED bypassFailed
       \/ ~MustBeDirect(target[h]) /\ FallBack(h)
    /\ UNCHANGED <<mode, target, up, down, clientGone, remoteGone, rClosed, sem, bypass, slots>>

-----------------------------------------------------------------------------
(* The tunnel                                                              *)

SlotLeft == sem < PerIP

acquire(h) ==
    /\ pc[h] = "acquire" /\ SlotLeft
    /\ sem' = sem + 1
    /\ Goto(h, IF mode = "dialFn" THEN "dial" ELSE "pick")
    /\ via' = [via EXCEPT ![h] = IF mode = "dialFn" THEN "dialFn" ELSE "none"]
    /\ UNCHANGED <<mode, target, bypassFailed, replies, conns, bypass, slots>>

\* Mutant: nothing gives the slot back.
releaseNever == UNCHANGED sem

release == sem' = sem - 1

\* Pick is weighted and random: any slot may be chosen, and nil only when
\* there is none.
Pick(h) ==
    /\ pc[h] = "pick"
    /\ \E d \in slots : via' = [via EXCEPT ![h] = d]
    /\ Goto(h, "dial")
    /\ UNCHANGED <<mode, target, bypassFailed, replies, conns, sem, bypass, slots>>

\* No dialer: the failed bypass is not recorded on this path.
PickNil(h) ==
    /\ pc[h] = "pick" /\ slots = {}
    /\ Reply(h) /\ Finish(h) /\ release
    /\ UNCHANGED <<mode, target, bypassFailed, up, down, clientGone, remoteGone, rClosed, bypass, slots>>

\* Only addresses are remembered, not host names.
RecordBypassFailure(h) ==
    failedIPs' = IF bypassFailed[h] /\ target[h] \notin Names
                 THEN [failedIPs EXCEPT ![target[h]] = FailTTL] ELSE failedIPs

DialOk(h) ==
    /\ pc[h] = "dial"
    /\ RecordBypassFailure(h) /\ Reply(h) /\ StartRelay(h)
    /\ UNCHANGED <<mode, target, bypassFailed, via, clientGone, cClosed, sem, enabled, loaded, slots>>

DialFailed(h) ==
    /\ pc[h] = "dial"
    /\ RecordBypassFailure(h) /\ Reply(h) /\ Finish(h) /\ release
    /\ UNCHANGED <<mode, target, bypassFailed, up, down, clientGone, remoteGone, rClosed,
                   enabled, loaded, slots>>

-----------------------------------------------------------------------------
(* relayConns                                                              *)

\* Mutant: the upload goroutine leaves the remote side open.
CloseRemoteNever(h) == UNCHANGED rClosed

CloseRemote(h) == rClosed' = [rClosed EXCEPT ![h] = TRUE]

EndUp(h) ==
    /\ up[h] = "running"
    /\ up' = [up EXCEPT ![h] = "done"]
    /\ CloseRemote(h)
    /\ UNCHANGED <<mode, request, down, clientGone, remoteGone, cClosed, sem, bypass, slots>>

EndDown(h) ==
    /\ down[h] = "running"
    /\ down' = [down EXCEPT ![h] = "done"]
    /\ cClosed' = [cClosed EXCEPT ![h] = TRUE]
    /\ UNCHANGED <<mode, request, up, clientGone, remoteGone, rClosed, sem, bypass, slots>>

\* io.Copy(remote, c) has nothing more to read from c.
UpEnds(h) == (clientGone[h] \/ cClosed[h]) /\ EndUp(h)

\* io.Copy(c, remote) has nothing more to read from remote.
DownEnds(h) == (remoteGone[h] \/ rClosed[h]) /\ EndDown(h)

\* A copy that writes to an end that is gone may fail there; it need not, when
\* it has nothing to write or the end is only half closed.
CopyWriteFails(h) ==
    \/ remoteGone[h] /\ EndUp(h)
    \/ clientGone[h] /\ EndDown(h)

\* Both goroutines have signalled done.  What is known of the ends is forgotten.
RelayReturns(h) ==
    /\ pc[h] = "relay" /\ up[h] = "done" /\ down[h] = "done"
    /\ Finish(h)
    /\ IF via[h] = "direct" THEN UNCHANGED sem ELSE release
    /\ clientGone' = [clientGone EXCEPT ![h] = FALSE]
    /\ remoteGone' = [remoteGone EXCEPT ![h] = FALSE]
    /\ UNCHANGED <<mode, target, bypassFailed, replies, up, down, rClosed, bypass, slots>>

\* The client closes its side, or the target does.
EndGone(h) ==
    /\ pc[h] = "relay"
    /\ \/ ~clientGone[h] /\ clientGone' = [clientGone EXCEPT ![h] = TRUE] /\ UNCHANGED remoteGone
       \/ ~remoteGone[h] /\ remoteGone' = [remoteGone EXCEPT ![h] = TRUE] /\ UNCHANGED clientGone
    /\ UNCHANGED <<mode, request, up, down, cClosed, rClosed, sem, bypass, slots>>

-----------------------------------------------------------------------------
(* BypassManager and DialerPool from outside                               *)

SetEnabled ==
    /\ enabled' = ~enabled
    /\ UNCHANGED <<mode, request, conns, sem, loaded, failedIPs, slots>>

refresh ==
    /\ ~loaded /\ loaded' = TRUE
    /\ UNCHANGED <<mode, request, conns, sem, enabled, failedIPs, slots>>

\* A tick is minutes, and decisions and dials are seconds: time passes between
\* them, and while handlers relay or wait for a slot.
Tick ==
    /\ \E t \in Targets : failedIPs[t] > 0
    /\ \A h \in Handlers : pc[h] \in {"idle", "relay"} \/ (pc[h] = "acquire" /\ ~SlotLeft)
    /\ failedIPs' = [t \in Targets |-> IF failedIPs[t] > 0 THEN failedIPs[t] - 1 ELSE failedIPs[t]]
    /\ UNCHANGED <<mode, request, conns, sem, enabled, loaded, slots>>

Add(d) ==
    /\ slots' = slots \cup {d}
    /\ UNCHANGED <<mode, request, conns, sem, bypass>>

\* Every slot of the dialer goes; connections that use it go on.
Evict(d) ==
    /\ slots' = slots \ {d}
    /\ UNCHANGED <<mode, request, conns, sem, bypass>>

Swap ==
    /\ slots' \in SUBSET Dialers
    /\ UNCHANGED <<mode, request, conns, sem, bypass>>

-----------------------------------------------------------------------------
Copies(h) == UpEnds(h) \/ DownEnds(h) \/ RelayReturns(h)

Handle(h) ==
    \/ Accept(h) \/ Refuse(h) \/ ShouldBypass(h) \/ DeleteExpired(h) \/ DirectConnected(h) \/ DirectFailed(h)
    \/ acquire(h) \/ Pick(h) \/ PickNil(h) \/ DialOk(h) \/ DialFailed(h)
    \/ Copies(h) \/ CopyWriteFails(h) \/ EndGone(h)

Next == \/ SetEnabled \/ refresh \/ Tick \/ Swap
        \/ \E d \in Dialers : Add(d) \/ Evict(d)
        \/ \E h \in Handlers : Handle(h)

Spec == Init /\ [][Next]_vars

\* A copy with nothing left to read returns, and so does relayConns: its last
\* Write is assumed not to block for ever on an end that does not read.  Nothing
\* else is assumed of clients, targets or dials.
Fairness == \A h \in Handlers : WF_vars(Copies(h))

FairSpec == Spec /\ Fairness

-----------------------------------------------------------------------------
\* Every variable stays in its domain; in particular the limiter never holds
\* more than socks5PerIPLimit.
TypeOK ==
    /\ mode \in {"pool", "bypass", "dialFn"}
    /\ pc \in [Handlers -> {"idle", "check", "expired", "direct", "acquire", "pick", "dial", "relay"}]
    /\ target \in [Handlers -> Targets] /\ bypassFailed \in [Handlers -> BOOLEAN]
    /\ via \in [Handlers -> Routes] /\ replies \in [Handlers -> 0..2]
    /\ sem \in 0..PerIP
    /\ up \in [Handlers -> {"running", "done"}] /\ down \in [Handlers -> {"running", "done"}]
    /\ clientGone \in [Handlers -> BOOLEAN] /\ remoteGone \in [Handlers -> BOOLEAN]
    /\ cClosed \in [Handlers -> BOOLEAN] /\ rClosed \in [Handlers -> BOOLEAN]
    /\ enabled \in BOOLEAN /\ loaded \in BOOLEAN
    /\ failedIPs \in [Targets -> NotRecorded..FailTTL]
    /\ slots \subseteq Dialers

Tunnelled(h) == pc[h] \in {"pick", "dial"} \/ (pc[h] = "relay" /\ via[h] # "direct")

\* The limiter counts exactly the tunnelled connections, from before the dial
\* until relayConns is over; "Bypass connections are not counted", and no early
\* return of handleConnect keeps a slot.
SlotsExact == sem = Cardinality({h \in Handlers : Tunnelled(h)})

\* A CONNECT is answered exactly once whichever route it ends up on: nothing
\* before a route is settled, one reply when it is over or relaying.
AnsweredOnce ==
    \A h \in Handlers :
        /\ pc[h] \in {"check", "expired", "direct", "acquire", "pick", "dial"} => replies[h] = 0
        /\ pc[h] = "relay" => replies[h] = 1
        /\ pc[h] = "idle" => replies[h] <= 1

\* "For LAN addresses the tunnel is never an option": with a bypass manager
\* no LAN target gets a tunnel slot, whatever is switched or refreshed between
\* the decision and the dial.  A server with a dial function never goes direct.
RouteRespected ==
    \A h \in Handlers :
        /\ mode = "bypass" /\ Tunnelled(h) => target[h] \notin LAN
        /\ mode = "dialFn" => via[h] # "direct"

\* No handler ends with a connection open: when it is idle both goroutines are
\* done, and client and remote side are closed.
NothingLeftOpen ==
    \A h \in Handlers :
        pc[h] = "idle" => up[h] = "done" /\ down[h] = "done" /\ cClosed[h] /\ rClosed[h]

\* No resource is leaked or taken twice on any path through handleConnect and
\* relayConns: slots are counted exactly and a finished handler has everything
\* closed.
ResourcesSound == TypeOK /\ SlotsExact /\ NothingLeftOpen

\* relayConns runs "until either side closes": when the client or the target
\* is gone the handler returns, with both sides closed and the slot free.
RelayUnwinds ==
    \A h \in Handlers : pc[h] = "relay" /\ (clientGone[h] \/ remoteGone[h]) ~> pc[h] = "idle"

\* RecordBypassFailure "marks addr as tunnel-preferred for 30 minutes": only
\* time ends a mark.
MarkLasts ==
    [][\A t \in Targets : failedIPs[t] > 1 => failedIPs'[t] > 0]_vars
=============================================================================
