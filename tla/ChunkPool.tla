------------------------------ MODULE ChunkPool ------------------------------
(***************************************************************************)
(* How the mirror gets one chunk (src/mirror.go, fetchChunk) over pooled,  *)
(* hole-punched UDP connections (src/mirror_transport.go, MirrorConn).     *)
(* Fetchers are the sync goroutines that run at the same time.  They share *)
(* the pool, and a connection is shared by all who found it there.  A      *)
(* chunk is named by its hash; bytes are the chunk they are the bytes of.  *)
(***************************************************************************)
EXTENDS Integers

CONSTANTS
    Fetchers, Peers,
    Hashes, Wants, \* Wants[f]: the chunk f asks for
    ReqIDs,        \* 32 bits in the code
    Retries,       \* mirrorRetries
    MaxFetches,    \* bound: chunks asked for
    MaxConns       \* bound: connections punched

ASSUME PoolAssumption == MaxConns \in Nat

Conns == 1..MaxConns

VARIABLES
    conn,      \* each MirrorConn: the peer it was punched to, and whether it is open
    pool,      \* peerConns: a connection for each peer, or 0
    fetch,     \* each goroutine in fetchChunk: where it is, its locals
    net,       \* requests whose frame or answer is under way; one that stays is lost
    fetches,   \* counts against MaxFetches
    seenDead   \* history: connections on which a request has failed

cvars == <<conn, pool, fetch, net, fetches, seenDead>>

Local == [pc |-> "done", todo |-> {}, peer |-> 0, conn |-> 0, req |-> 0,
          tries |-> 0, slot |-> "empty", got |-> 0]

CInit ==
    /\ conn = [c \in Conns |-> "none"] /\ pool = [p \in Peers |-> 0]
    /\ fetch = [f \in Fetchers |-> Local]
    /\ net = {} /\ fetches = 0 /\ seenDead = {}

Goes(f, label, locals) == fetch' = [fetch EXCEPT ![f] = [locals EXCEPT !.pc = label]]

-----------------------------------------------------------------------------
(* MirrorConn                                                              *)

\* Once only; closing the socket loses what has not been read.
Closed(C) ==
    /\ conn' = [c \in Conns |-> IF c \in C THEN "closed" ELSE conn[c]]
    /\ net' = {m \in net : m.conn \notin C}

Pending(c) == {f \in Fetchers : fetch[f].pc \in {"send", "wait"} /\ fetch[f].conn = c}

\* The bytes a peer, which runs the same code, finds for a hash.  It looks the
\* hash up in its index and then reads the file, which a newer sync may have
\* replaced meanwhile: they may be others, or none (0).
ServeChunk == Hashes \cup {0}

serveChunkRequest == {<<IF b = 0 THEN "miss" ELSE "found", b>> : b \in ServeChunk}

\* readLoop with deliver: an answer goes to the request pending under its id, if
\* there is one that has none yet.  Requests are sent again, so another answer
\* may follow.
deliver ==
    \E m \in net, a \in serveChunkRequest :
        /\ net' \in {net, net \ {m}}
        /\ fetch' = [f \in Fetchers |->
                IF f \in Pending(m.conn) /\ fetch[f].req = m.req /\ fetch[f].slot = "empty"
                THEN [fetch[f] EXCEPT !.slot = a[1], !.got = a[2]] ELSE fetch[f]]
        /\ UNCHANGED <<conn, pool, fetches, seenDead>>

\* readLoop: nothing was received for mirrorIdleTimeout.  Sending does not
\* count, so a request may be under way.  The pool is not told.
IdleClose(c) ==
    /\ conn[c] = "open"
    /\ Closed({c})
    /\ UNCHANGED <<pool, fetch, fetches, seenDead>>

-----------------------------------------------------------------------------
(* fetchChunk: peers first                                                 *)

\* Any peers may be known as complete.
peerCandidates(f) ==
    /\ fetch[f].pc = "done" /\ fetches < MaxFetches
    /\ \E todo \in SUBSET Peers : Goes(f, "next", [Local EXCEPT !.todo = todo])
    /\ fetches' = fetches + 1
    /\ UNCHANGED <<conn, pool, net, seenDead>>

\* Mutant: a peer that did not deliver is asked again.
PooledAgain(f) ==
    /\ fetch[f].pc = "next"
    /\ \E p \in fetch[f].todo :
        Goes(f, IF pool[p] # 0 THEN "request" ELSE "punch", [fetch[f] EXCEPT !.peer = p, !.conn = pool[p]])
    /\ UNCHANGED <<conn, pool, net, fetches, seenDead>>

\* The pooled connection, dead or alive.
Pooled(f) ==
    /\ fetch[f].pc = "next"
    /\ \E p \in fetch[f].todo :
        LET s == [fetch[f] EXCEPT !.todo = @ \ {p}, !.peer = p, !.conn = pool[p]] IN
        Goes(f, IF pool[p] # 0 THEN "request" ELSE "punch", s)
    /\ UNCHANGED <<conn, pool, net, fetches, seenDead>>

\* punchFn without the lock, then NewMirrorConn; or it fails.
Punch(f) ==
    /\ fetch[f].pc = "punch"
    /\ \/ \E c \in Conns :
            /\ conn[c] = "none" /\ \A d \in 1..(c - 1) : conn[d] # "none"
            /\ conn' = [conn EXCEPT ![c] = "open"]
            /\ Goes(f, "insert", [fetch[f] EXCEPT !.conn = c])
       \/ Goes(f, "next", fetch[f]) /\ UNCHANGED conn
    /\ UNCHANGED <<pool, net, fetches, seenDead>>

\* Another fetcher may have been quicker: its connection is kept, ours closed.
Insert(f) ==
    LET s == fetch[f] IN
    /\ s.pc = "insert"
    /\ IF pool[s.peer] = 0
       THEN /\ pool' = [pool EXCEPT ![s.peer] = s.conn]
            /\ Goes(f, "request", s) /\ UNCHANGED <<conn, net>>
       ELSE /\ Closed({s.conn})
            /\ Goes(f, "request", [s EXCEPT !.conn = pool[s.peer]]) /\ UNCHANGED pool
    /\ UNCHANGED <<fetches, seenDead>>

-----------------------------------------------------------------------------
(* RequestChunk, and what fetchChunkFromPeer does when it fails            *)

\* Ids of ended requests may come again, while their answers still travel.
FreeReqIDs(c) == ReqIDs \ {fetch[g].req : g \in Pending(c)}

Register(f) ==
    /\ fetch[f].pc = "request"
    /\ \E r \in FreeReqIDs(fetch[f].conn) : Goes(f, "send", [fetch[f] EXCEPT !.req = r, !.tries = 0])
    /\ UNCHANGED <<conn, pool, net, fetches, seenDead>>

\* Mutant: whatever connection the pool has by now is dropped.
DropAny(f) == pool' = [pool EXCEPT ![fetch[f].peer] = 0]

\* The connection leaves the pool, unless another one has replaced it.
Drop(f) ==
    LET s == fetch[f] IN
    pool' = [pool EXCEPT ![s.peer] = IF @ = s.conn THEN 0 ELSE @]

Unanswered(s) == [Local EXCEPT !.todo = s.todo]

Unreachable(f) ==
    /\ Drop(f)
    /\ Closed({fetch[f].conn})
    /\ Goes(f, "next", Unanswered(fetch[f]))
    /\ seenDead' = seenDead \cup {fetch[f].conn}
    /\ UNCHANGED fetches

Send(f) ==
    LET s == fetch[f] IN
    /\ s.pc = "send"
    /\ \/ /\ conn[s.conn] = "open"
          /\ net' = net \cup {[conn |-> s.conn, req |-> s.req]}
          /\ Goes(f, "wait", s)
          /\ UNCHANGED <<conn, pool, fetches, seenDead>>
       \/ conn[s.conn] = "closed" /\ Unreachable(f)

Timeout(f) ==
    LET s == [fetch[f] EXCEPT !.tries = @ + 1] IN
    /\ s.pc = "wait"
    /\ \/ s.tries < Retries /\ Goes(f, "send", s) /\ UNCHANGED <<conn, pool, net, fetches, seenDead>>
       \/ s.tries = Retries /\ Unreachable(f)

\* stopCh
Stopped(f) == fetch[f].pc = "wait" /\ conn[fetch[f].conn] = "closed" /\ Unreachable(f)

\* Mutant: the bytes are not hashed.
chunkHashMatchesAny(bytes, h) == TRUE

chunkHashMatches(bytes, h) == bytes = h

Returns(f, bytes) == Goes(f, "done", [Local EXCEPT !.got = bytes])

\* A miss, or bytes of another chunk: the next peer is tried.
Answered(f) ==
    LET s == fetch[f] IN
    /\ s.pc = "wait" /\ s.slot # "empty"
    /\ IF s.slot = "found" /\ chunkHashMatches(s.got, Wants[f])
       THEN Returns(f, s.got) ELSE Goes(f, "next", Unanswered(s))
    /\ UNCHANGED <<conn, pool, net, fetches, seenDead>>

-----------------------------------------------------------------------------
\* What the controls return, or an error: no control has it.
DefaultRelayChunkFetcher == Hashes \cup {0}

\* No peer is left: one control after another is asked.
relayFetch(f) ==
    /\ fetch[f].pc = "next" /\ fetch[f].todo = {}
    /\ \E bytes \in DefaultRelayChunkFetcher :
        Returns(f, IF chunkHashMatches(bytes, Wants[f]) THEN bytes ELSE 0)
    /\ UNCHANGED <<conn, pool, net, fetches, seenDead>>

\* MirrorManager.Close: fetches under way go on.
ClosePool ==
    /\ \E p \in Peers : pool[p] # 0
    /\ Closed({pool[p] : p \in Peers} \ {0})
    /\ pool' = [p \in Peers |-> 0]
    /\ UNCHANGED <<fetch, fetches, seenDead>>

Fetch(f) ==
    \/ Pooled(f) \/ Punch(f) \/ Insert(f) \/ Register(f) \/ Send(f) \/ Timeout(f)
    \/ Stopped(f) \/ Answered(f) \/ relayFetch(f)

CNext ==
    \/ \E f \in Fetchers : peerCandidates(f) \/ Fetch(f)
    \/ \E c \in Conns : IdleClose(c)
    \/ deliver \/ ClosePool

CSpec == CInit /\ [][CNext]_cvars

\* Goroutines run, timers fire, and punchFn and relayFetch return.  The read
\* deadline finds a connection idle some time after its last frame, and frames
\* end with the fetches.  The steps are finitely many, so that it is enough that
\* one of them is taken.
CFairness == WF_cvars((\E f \in Fetchers : Fetch(f)) \/ (\E c \in Conns : IdleClose(c)))

-----------------------------------------------------------------------------
\* "Verifies the returned bytes against hash regardless of source": whatever
\* late, repeated or mismatched answers arrive under whatever id, a fetch ends
\* with the chunk it was asked for, or with an error.
OnlyTheChunk == \A f \in Fetchers : fetch[f].pc = "done" => fetch[f].got \in {Wants[f], 0}

\* No socket is leaked: an open connection is in the pool, or in the hands of a
\* fetcher, whoever loses the race to insert one and whoever drops which.
NoOrphan ==
    \A c \in Conns : conn[c] = "open" =>
        (\E p \in Peers : pool[p] = c) \/ (\E f \in Fetchers : fetch[f].conn = c)

\* "so the next attempt re-punches instead of retrying a dead connection
\* forever": a connection that has failed one request is never in the pool.
PoolForgetsDead == \A p \in Peers : pool[p] \notin seenDead

\* The pool and the connections agree, although fetchers replace and drop a
\* shared connection at any time: what is open can be reached, what is known
\* to be dead cannot (peerConn with its drop function).
PoolSound == NoOrphan /\ PoolForgetsDead

\* Every fetch comes to an end, with answers lost or late, connections closed
\* under it by others, and the pool closed; and "an idle timeout is what actually
\* frees the socket": when no more chunks are asked for, every connection is
\* closed at last, the ones the pool still holds included.
FetchesEndSocketsFreed ==
    <>[]((\A f \in Fetchers : fetch[f].pc = "done") /\ (\A c \in Conns : conn[c] # "open"))
=============================================================================
