--------------------------- MODULE ClientProofs ----------------------------
(***************************************************************************)
(* Three bounded resources of a client: the pool of connections to its     *)
(* peers, the queues and circuits of a UDP session and the log ring.       *)
(***************************************************************************)
EXTENDS ChunkPool, UDPAssoc, LogRing, TLAPS

\* The backends, in the order in which a leaf that names none tries them.
USE SMT, ZenonT(20), Z3T(60), SMTT(60)

-----------------------------------------------------------------------------
(* The pool of peer connections, for any fetchers, peers and connections.  *)
(* A connection belongs to the fetcher that punched it until Insert pools  *)
(* or closes it, a pooled one is in the pool under one peer, which is the  *)
(* peer its users name when they drop it, and nobody puts a connection     *)
(* back.                                                                   *)

Using == {"request", "send", "wait"}

Rec == [pc : {"next", "punch", "insert", "request", "send", "wait", "done"},
        todo : SUBSET Peers, peer : Peers \cup {0}, conn : Conns \cup {0},
        req : ReqIDs \cup {0}, tries : Int, slot : {"empty", "miss", "found"},
        got : Hashes \cup {0}]

Types ==
    /\ conn \in [Conns -> {"none", "open", "closed"}]
    /\ pool \in [Peers -> Conns \cup {0}]
    /\ fetch \in [Fetchers -> Rec]
    /\ seenDead \subseteq Conns

\* A fetcher past Punch has a connection that was punched.
HasConn ==
    \A f \in Fetchers :
        /\ fetch[f].pc \in Using \cup {"insert"} =>
            fetch[f].conn \in Conns /\ conn[fetch[f].conn] # "none"
        /\ fetch[f].pc \in Using \cup {"insert", "punch"} => fetch[f].peer \in Peers

\* A pooled connection was punched, and is pooled for one peer.
PooledOnce ==
    /\ \A p \in Peers : pool[p] # 0 => conn[pool[p]] # "none"
    /\ \A p, p1 \in Peers : pool[p] # 0 /\ pool[p] = pool[p1] => p = p1

\* A fetcher that uses a pooled connection names the peer it is pooled for.
NamesPeer ==
    \A f \in Fetchers, p \in Peers :
        fetch[f].pc \in Using /\ pool[p] = fetch[f].conn => fetch[f].peer = p

\* Until Insert a connection is its puncher's only.
Private ==
    \A f \in Fetchers : fetch[f].pc = "insert" =>
        /\ fetch[f].conn \notin seenDead
        /\ \A p \in Peers : pool[p] # fetch[f].conn
        /\ \A g \in Fetchers \ {f} :
            fetch[g].pc \in Using \cup {"insert"} => fetch[g].conn # fetch[f].conn

DeadClosed == \A c \in seenDead : conn[c] = "closed"

OpenKept ==
    \A c \in Conns : conn[c] = "open" =>
        \/ \E p \in Peers : pool[p] = c
        \/ \E f \in Fetchers : fetch[f].pc = "insert" /\ fetch[f].conn = c

ChunkInv ==
    /\ Types /\ HasConn /\ PooledOnce /\ NamesPeer /\ Private
    /\ DeadClosed /\ PoolForgetsDead /\ OpenKept /\ OnlyTheChunk

-----------------------------------------------------------------------------
\* Nobody has a connection at first.
LEMMA ChunkStarts == CInit => ChunkInv
<1> SUFFICES ASSUME CInit PROVE ChunkInv
  OBVIOUS
<1>1. Local \in Rec /\ Local.pc = "done" /\ Local.got = 0
  BY DEF Local, Rec
<1>2. Types
  BY <1>1, PoolAssumption DEF CInit, Types
<1>3. \A f \in Fetchers : fetch[f].pc = "done" /\ fetch[f].got = 0
  BY <1>1, Zenon DEF CInit
<1>4. /\ \A c \in Conns : conn[c] = "none"
      /\ \A p \in Peers : pool[p] = 0
      /\ seenDead = {}
  BY DEF CInit
<1> QED
  BY <1>2, <1>3, <1>4 DEF ChunkInv, HasConn, PooledOnce, NamesPeer, Private, DeadClosed,
     PoolForgetsDead, OpenKept, OnlyTheChunk, Using

\* What Goes does to the fetchers.
LEMMA GoesEffect ==
    ASSUME fetch \in [Fetchers -> Rec], NEW f \in Fetchers, NEW s \in Rec,
           NEW l \in {"next", "punch", "insert", "request", "send", "wait", "done"},
           Goes(f, l, s)
    PROVE  /\ fetch' \in [Fetchers -> Rec]
           /\ \A g \in Fetchers \ {f} : fetch'[g] = fetch[g]
           /\ fetch'[f].pc = l /\ fetch'[f].conn = s.conn
           /\ fetch'[f].peer = s.peer /\ fetch'[f].got = s.got
<1>1. [s EXCEPT !.pc = l] \in Rec
  BY DEF Rec
<1>2. fetch' = [fetch EXCEPT ![f] = [s EXCEPT !.pc = l]]
  BY DEF Goes
<1>3. fetch'[f] = [s EXCEPT !.pc = l]
  BY <1>2
<1> QED
  BY <1>1, <1>2, <1>3 DEF Rec

\* What Register does to the locals of a fetcher.
LEMMA RegisterLocals ==
    ASSUME NEW t \in Rec, NEW r \in ReqIDs
    PROVE  LET s == [t EXCEPT !.req = r, !.tries = 0]
           IN s \in Rec /\ s.conn = t.conn /\ s.peer = t.peer
<1> DEFINE u == [t EXCEPT !.req = r]
<1>1. u \in Rec /\ u.conn = t.conn /\ u.peer = t.peer
  BY DEF Rec
<1>2. [t EXCEPT !.req = r, !.tries = 0] = [u EXCEPT !.tries = 0]
  BY DEF Rec
<1> HIDE DEF u
<1>3. [u EXCEPT !.tries = 0] \in Rec
  BY <1>1 DEF Rec
<1>4. [u EXCEPT !.tries = 0].conn = u.conn /\ [u EXCEPT !.tries = 0].peer = u.peer
  BY <1>1 DEF Rec
<1> QED
  BY <1>1, <1>2, <1>3, <1>4

\* Steps in which a fetcher is left without a connection, or with what it had,
\* and nothing else happens.
LEMMA NoConnKeeps ==
    ASSUME ChunkInv, NEW f \in Fetchers, UNCHANGED <<conn, pool, seenDead>>,
           fetch' \in [Fetchers -> Rec], \A g \in Fetchers \ {f} : fetch'[g] = fetch[g],
           fetch[f].pc # "insert", fetch'[f].pc \in {"next", "punch", "done"},
           fetch'[f].pc = "punch" => fetch'[f].peer \in Peers,
           fetch'[f].pc = "done" => fetch'[f].got \in {Wants[f], 0}
    PROVE  ChunkInv'
<1>1. Types'
  BY DEF ChunkInv, Types
<1>2. HasConn' /\ NamesPeer' /\ Private'
  BY DEF ChunkInv, HasConn, NamesPeer, Private, Using
<1>3. PooledOnce' /\ DeadClosed' /\ PoolForgetsDead'
  BY DEF ChunkInv, PooledOnce, DeadClosed, PoolForgetsDead
<1>4. OpenKept' /\ OnlyTheChunk'
  BY DEF ChunkInv, OpenKept, OnlyTheChunk
<1> QED
  BY <1>1, <1>2, <1>3, <1>4 DEF ChunkInv

\* Steps in which every fetcher keeps its connection, and nothing else happens.
LEMMA SameConnKeeps ==
    ASSUME ChunkInv, UNCHANGED <<conn, pool, seenDead>>, fetch' \in [Fetchers -> Rec],
           \A f \in Fetchers :
             \/ fetch'[f] = fetch[f]
             \/ /\ fetch[f].pc \in Using /\ fetch'[f].pc \in Using
                /\ fetch'[f].conn = fetch[f].conn /\ fetch'[f].peer = fetch[f].peer
    PROVE  ChunkInv'
<1>1. Types'
  BY DEF ChunkInv, Types
<1>2. HasConn' /\ NamesPeer'
  BY DEF ChunkInv, HasConn, NamesPeer, Using
<1>3. Private'
  BY DEF ChunkInv, Private, Using
<1>4. PooledOnce' /\ DeadClosed' /\ PoolForgetsDead'
  BY DEF ChunkInv, PooledOnce, DeadClosed, PoolForgetsDead
<1>5. OpenKept' /\ OnlyTheChunk'
  BY DEF ChunkInv, OpenKept, OnlyTheChunk, Using
<1> QED
  BY <1>1, <1>2, <1>3, <1>4, <1>5 DEF ChunkInv

-----------------------------------------------------------------------------
\* A fetcher takes the connection pooled for the peer it has come to.
LEMMA TakesPooledKeeps ==
    ASSUME ChunkInv, NEW f \in Fetchers, NEW p \in Peers, pool[p] # 0,
           UNCHANGED <<conn, pool, seenDead>>, fetch[f].pc # "insert",
           fetch' \in [Fetchers -> Rec], \A g \in Fetchers \ {f} : fetch'[g] = fetch[g],
           fetch'[f].pc = "request", fetch'[f].peer = p, fetch'[f].conn = pool[p]
    PROVE  ChunkInv'
<1>1. Types'
  BY DEF ChunkInv, Types
<1>2. HasConn'
  BY DEF ChunkInv, HasConn, Types, PooledOnce, Using
<1>3. NamesPeer'
  BY DEF ChunkInv, NamesPeer, PooledOnce, Using
<1>4. Private'
  BY DEF ChunkInv, Private, Using
<1>5. PooledOnce' /\ DeadClosed' /\ PoolForgetsDead'
  BY DEF ChunkInv, PooledOnce, DeadClosed, PoolForgetsDead
<1>6. OpenKept' /\ OnlyTheChunk'
  BY DEF ChunkInv, OpenKept, OnlyTheChunk
<1> QED
  BY <1>1, <1>2, <1>3, <1>4, <1>5, <1>6 DEF ChunkInv

\* A new connection is punched.
LEMMA PunchKeeps ==
    ASSUME ChunkInv, NEW f \in Fetchers, Punch(f)
    PROVE  ChunkInv'
<1>1. fetch \in [Fetchers -> Rec] /\ fetch[f] \in Rec /\ fetch[f].pc = "punch"
  BY DEF ChunkInv, Types, Punch
<1>2. ASSUME Goes(f, "next", fetch[f]), UNCHANGED conn PROVE ChunkInv'
  BY <1>1, <1>2, GoesEffect, NoConnKeeps DEF Punch
<1>3. ASSUME NEW c \in Conns, conn[c] = "none", conn' = [conn EXCEPT ![c] = "open"],
             Goes(f, "insert", [fetch[f] EXCEPT !.conn = c])
      PROVE  ChunkInv'
  <2>1. [fetch[f] EXCEPT !.conn = c] \in Rec
    BY <1>1 DEF Rec
  <2>2. /\ fetch' \in [Fetchers -> Rec]
        /\ \A g \in Fetchers \ {f} : fetch'[g] = fetch[g]
        /\ fetch'[f].pc = "insert" /\ fetch'[f].conn = c /\ fetch'[f].peer = fetch[f].peer
    BY <1>1, <1>3, <2>1, GoesEffect DEF Rec
  <2>3. /\ conn' \in [Conns -> {"none", "open", "closed"}]
        /\ conn'[c] = "open" /\ \A d \in Conns \ {c} : conn'[d] = conn[d]
        /\ UNCHANGED <<pool, seenDead>>
    BY <1>3 DEF ChunkInv, Types, Punch
  <2>4. c \notin seenDead /\ \A p \in Peers : pool[p] # c
    BY <1>3, PoolAssumption DEF ChunkInv, DeadClosed, PooledOnce, Conns
  <2>5. \A g \in Fetchers : fetch[g].pc \in Using \cup {"insert"} => fetch[g].conn # c
    BY <1>3 DEF ChunkInv, HasConn
  <2>6. Types'
    BY <2>2, <2>3 DEF ChunkInv, Types
  <2>7. HasConn'
    BY <1>1, <2>2, <2>3, <2>5 DEF ChunkInv, HasConn, Using
  <2>8. PooledOnce' /\ DeadClosed' /\ PoolForgetsDead'
    BY <2>3, <2>4 DEF ChunkInv, Types, PooledOnce, DeadClosed, PoolForgetsDead
  <2>9. NamesPeer' /\ Private'
    BY <2>2, <2>3, <2>4, <2>5 DEF ChunkInv, NamesPeer, Private, Using
  <2>10. OpenKept' /\ OnlyTheChunk'
    BY <1>1, <2>2, <2>3 DEF ChunkInv, OpenKept, OnlyTheChunk
  <2> QED
    BY <2>6, <2>7, <2>8, <2>9, <2>10 DEF ChunkInv
<1> QED
  BY <1>2, <1>3, Zenon DEF Punch

\* Connections in C are closed; no fetcher moves.  Those in C that are dropped
\* from the pool are not the concern of this lemma's users: pool is smaller.
LEMMA CloseKeeps ==
    ASSUME ChunkInv, NEW C \in SUBSET Conns, Closed(C), UNCHANGED <<fetch, seenDead>>,
           \A c \in C : conn[c] # "none",
           pool' \in [Peers -> Conns \cup {0}],
           \A p \in Peers : pool'[p] = pool[p] \/ (pool'[p] = 0 /\ pool[p] \in C \cup {0})
    PROVE  ChunkInv'
<1>1. /\ conn' \in [Conns -> {"none", "open", "closed"}]
      /\ \A c \in Conns : conn'[c] = IF c \in C THEN "closed" ELSE conn[c]
  BY DEF Closed, ChunkInv, Types
<1>2. Types'
  BY <1>1 DEF ChunkInv, Types
<1>3. HasConn'
  BY <1>1 DEF ChunkInv, HasConn
<1>4. PooledOnce'
  BY <1>1 DEF ChunkInv, PooledOnce, Types
<1>5. NamesPeer' /\ Private' /\ PoolForgetsDead'
  <2>1. \A f \in Fetchers : fetch[f].pc \in Using \cup {"insert"} => fetch[f].conn # 0
    BY PoolAssumption DEF ChunkInv, HasConn, Conns
  <2>2. 0 \notin seenDead
    BY PoolAssumption DEF ChunkInv, Types, Conns
  <2> QED
    BY <2>1, <2>2 DEF ChunkInv, NamesPeer, Private, PoolForgetsDead
<1>6. DeadClosed'
  BY <1>1 DEF ChunkInv, DeadClosed, Types
<1>7. OpenKept'
  <2> SUFFICES ASSUME NEW c \in Conns, conn'[c] = "open"
               PROVE  \/ \E p \in Peers : pool'[p] = c
                      \/ \E f \in Fetchers : fetch'[f].pc = "insert" /\ fetch'[f].conn = c
    BY DEF OpenKept
  <2>1. c \notin C /\ conn[c] = "open" /\ c # 0
    BY <1>1, PoolAssumption DEF Conns
  <2> QED
    BY <2>1 DEF ChunkInv, OpenKept
<1> QED
  BY <1>2, <1>3, <1>4, <1>5, <1>6, <1>7 DEF ChunkInv, OnlyTheChunk

-----------------------------------------------------------------------------
\* The new connection is pooled, or closed in favour of the one that is.
LEMMA InsertKeeps ==
    ASSUME ChunkInv, NEW f \in Fetchers, Insert(f)
    PROVE  ChunkInv'
<1> DEFINE c == fetch[f].conn
           p == fetch[f].peer
<1>1. /\ fetch \in [Fetchers -> Rec] /\ fetch[f] \in Rec /\ fetch[f].pc = "insert"
      /\ c \in Conns /\ conn[c] # "none" /\ p \in Peers /\ c # 0 /\ UNCHANGED seenDead
      /\ c \notin seenDead /\ \A p1 \in Peers : pool[p1] # c
      /\ \A g \in Fetchers \ {f} : fetch[g].pc \in Using \cup {"insert"} => fetch[g].conn # c
  BY PoolAssumption DEF ChunkInv, Types, HasConn, Private, Insert, Conns
<1>2. CASE pool[p] = 0
  <2>1. pool' = [pool EXCEPT ![p] = c] /\ Goes(f, "request", fetch[f]) /\ UNCHANGED conn
    BY <1>2 DEF Insert
  <2>2. /\ fetch' \in [Fetchers -> Rec]
        /\ \A g \in Fetchers \ {f} : fetch'[g] = fetch[g]
        /\ fetch'[f].pc = "request" /\ fetch'[f].conn = c /\ fetch'[f].peer = p
    BY <1>1, <2>1, GoesEffect
  <2>3. /\ pool' \in [Peers -> Conns \cup {0}]
        /\ pool'[p] = c /\ \A p1 \in Peers \ {p} : pool'[p1] = pool[p1]
    BY <1>1, <2>1 DEF ChunkInv, Types
  <2>4. Types' /\ PooledOnce' /\ DeadClosed' /\ PoolForgetsDead'
    BY <1>1, <2>1, <2>2, <2>3 DEF ChunkInv, Types, PooledOnce, DeadClosed, PoolForgetsDead
  <2>5. HasConn'
    BY <1>1, <2>1, <2>2 DEF ChunkInv, HasConn, Using
  <2>6. NamesPeer'
    BY <1>1, <2>2, <2>3 DEF ChunkInv, NamesPeer, Using
  <2>7. Private'
    BY <1>1, <2>2, <2>3 DEF ChunkInv, Private, Using
  <2>8. OpenKept'
    BY <1>1, <1>2, <2>1, <2>2, <2>3, PoolAssumption DEF ChunkInv, OpenKept, Conns
  <2>9. OnlyTheChunk'
    BY <2>2 DEF ChunkInv, OnlyTheChunk
  <2> QED
    BY <2>4, <2>5, <2>6, <2>7, <2>8, <2>9 DEF ChunkInv
<1>3. CASE pool[p] # 0
  <2>1. /\ Closed({c}) /\ UNCHANGED pool
        /\ Goes(f, "request", [fetch[f] EXCEPT !.conn = pool[p]])
    BY <1>3 DEF Insert
  <2>2. pool[p] \in Conns /\ [fetch[f] EXCEPT !.conn = pool[p]] \in Rec
    BY <1>1, <1>3 DEF ChunkInv, Types, Rec
  <2>3. /\ fetch' \in [Fetchers -> Rec]
        /\ \A g \in Fetchers \ {f} : fetch'[g] = fetch[g]
        /\ fetch'[f].pc = "request" /\ fetch'[f].conn = pool[p] /\ fetch'[f].peer = p
    BY <1>1, <2>1, <2>2, GoesEffect DEF Rec
  <2>4. /\ conn' \in [Conns -> {"none", "open", "closed"}]
        /\ conn'[c] = "closed" /\ \A d \in Conns \ {c} : conn'[d] = conn[d]
    BY <1>1, <2>1 DEF Closed, ChunkInv, Types
  <2>5. Types' /\ PooledOnce' /\ DeadClosed' /\ PoolForgetsDead'
    BY <1>1, <2>1, <2>3, <2>4 DEF ChunkInv, Types, PooledOnce, DeadClosed, PoolForgetsDead
  <2>6. HasConn'
    BY <1>1, <1>3, <2>2, <2>3, <2>4 DEF ChunkInv, HasConn, PooledOnce, Using
  <2>7. NamesPeer'
    BY <1>1, <1>3, <2>1, <2>3 DEF ChunkInv, NamesPeer, PooledOnce, Using
  <2>8. Private'
    BY <1>1, <2>1, <2>3 DEF ChunkInv, Private, Using
  <2>9. OpenKept' /\ OnlyTheChunk'
    BY <1>1, <2>1, <2>3, <2>4 DEF ChunkInv, OpenKept, OnlyTheChunk
  <2> QED
    BY <2>5, <2>6, <2>7, <2>8, <2>9 DEF ChunkInv
<1> QED
  BY <1>2, <1>3

\* A request has failed: the connection leaves the pool and is closed.  It was
\* pooled for the peer the fetcher names, if at all.
LEMMA UnreachableKeeps ==
    ASSUME ChunkInv, NEW f \in Fetchers, Unreachable(f), fetch[f].pc \in Using
    PROVE  ChunkInv'
<1> DEFINE c == fetch[f].conn
           p == fetch[f].peer
<1>1. /\ fetch \in [Fetchers -> Rec] /\ fetch[f] \in Rec
      /\ c \in Conns /\ conn[c] # "none" /\ p \in Peers /\ c # 0
      /\ seenDead' = seenDead \cup {c}
  BY PoolAssumption DEF ChunkInv, Types, HasConn, Unreachable, Conns
<1>2. /\ pool' \in [Peers -> Conns \cup {0}]
      /\ \A p1 \in Peers : pool'[p1] = IF pool[p1] = c THEN 0 ELSE pool[p1]
  BY <1>1 DEF Unreachable, Drop, ChunkInv, Types, NamesPeer
<1>3. /\ conn' \in [Conns -> {"none", "open", "closed"}]
      /\ conn'[c] = "closed" /\ \A d \in Conns \ {c} : conn'[d] = conn[d]
  BY <1>1 DEF Unreachable, Closed, ChunkInv, Types
<1>4. Unanswered(fetch[f]) \in Rec
  BY <1>1 DEF Unanswered, Local, Rec
<1>5. /\ fetch' \in [Fetchers -> Rec]
      /\ \A g \in Fetchers \ {f} : fetch'[g] = fetch[g]
      /\ fetch'[f].pc = "next"
  BY <1>1, <1>4, GoesEffect DEF Unreachable
<1>6. Types'
  BY <1>1, <1>2, <1>3, <1>5 DEF ChunkInv, Types
<1>7. HasConn'
  BY <1>1, <1>3, <1>5 DEF ChunkInv, HasConn, Using
<1>8. PooledOnce' /\ DeadClosed'
  BY <1>1, <1>2, <1>3 DEF ChunkInv, PooledOnce, DeadClosed, Types
<1>9. PoolForgetsDead'
  <2>1. 0 \notin seenDead'
    BY <1>1, PoolAssumption DEF ChunkInv, Types, Conns
  <2> QED
    BY <1>1, <1>2, <2>1 DEF ChunkInv, PoolForgetsDead
<1>10. \A g \in Fetchers : fetch[g].pc \in Using \cup {"insert"} => fetch[g].conn # 0
  BY PoolAssumption DEF ChunkInv, HasConn, Conns
<1>11. NamesPeer'
  BY <1>2, <1>5, <1>10 DEF ChunkInv, NamesPeer, Using
<1>12. Private'
  BY <1>1, <1>2, <1>5, <1>10 DEF ChunkInv, Private, Using
<1>13. OpenKept'
  BY <1>1, <1>2, <1>3, <1>5 DEF ChunkInv, OpenKept, Using
<1>14. OnlyTheChunk'
  BY <1>5 DEF ChunkInv, OnlyTheChunk
<1> QED
  BY <1>6, <1>7, <1>8, <1>9, <1>11, <1>12, <1>13, <1>14 DEF ChunkInv

-----------------------------------------------------------------------------
\* One step per action.
LEMMA ChunkStep == ChunkInv /\ [CNext]_cvars => ChunkInv'
<1> SUFFICES ASSUME ChunkInv, [CNext]_cvars PROVE ChunkInv'
  OBVIOUS
<1>0. fetch \in [Fetchers -> Rec] /\ \A f \in Fetchers : fetch[f] \in Rec
  BY DEF ChunkInv, Types
<1>1. ASSUME NEW f \in Fetchers, peerCandidates(f) PROVE ChunkInv'
  <2>1. PICK todo \in SUBSET Peers : Goes(f, "next", [Local EXCEPT !.todo = todo])
    BY <1>1 DEF peerCandidates
  <2>2. [Local EXCEPT !.todo = todo] \in Rec
    BY DEF Local, Rec
  <2> QED
    BY <1>0, <1>1, <2>1, <2>2, GoesEffect, NoConnKeeps DEF peerCandidates
<1>2. ASSUME NEW f \in Fetchers, Pooled(f) PROVE ChunkInv'
  <2>1. PICK p \in fetch[f].todo :
          Goes(f, IF pool[p] # 0 THEN "request" ELSE "punch",
               [fetch[f] EXCEPT !.todo = @ \ {p}, !.peer = p, !.conn = pool[p]])
    BY <1>2, Zenon DEF Pooled
  <2> DEFINE s == [fetch[f] EXCEPT !.todo = @ \ {p}, !.peer = p, !.conn = pool[p]]
  <2>2. p \in Peers /\ pool[p] \in Conns \cup {0}
    BY <1>0, <2>1 DEF Rec, ChunkInv, Types
  <2>3. s \in Rec /\ s.peer = p /\ s.conn = pool[p]
    BY <1>0, <2>2, ZenonT(60) DEF Rec
  <2>4. UNCHANGED <<conn, pool, seenDead>> /\ fetch[f].pc = "next"
    BY <1>2 DEF Pooled
  <2>5. CASE pool[p] # 0
    <3>1. Goes(f, "request", s)
      BY <2>1, <2>5
    <3> HIDE DEF s
    <3> QED
      BY <1>0, <2>2, <2>3, <2>4, <2>5, <3>1, GoesEffect, TakesPooledKeeps
  <2>6. CASE pool[p] = 0
    <3>1. Goes(f, "punch", s)
      BY <2>1, <2>6
    <3> HIDE DEF s
    <3> QED
      BY <1>0, <2>2, <2>3, <2>4, <3>1, GoesEffect, NoConnKeeps
  <2> QED
    BY <2>5, <2>6
<1>3. ASSUME NEW f \in Fetchers, Register(f) PROVE ChunkInv'
  <2>1. PICK r \in FreeReqIDs(fetch[f].conn) :
          Goes(f, "send", [fetch[f] EXCEPT !.req = r, !.tries = 0])
    BY <1>3, Zenon DEF Register
  <2> DEFINE s == [fetch[f] EXCEPT !.req = r, !.tries = 0]
  <2>2. r \in ReqIDs
    BY DEF FreeReqIDs
  <2>3. s \in Rec /\ s.conn = fetch[f].conn /\ s.peer = fetch[f].peer
    BY <1>0, <2>2, RegisterLocals, Zenon
  <2>4. UNCHANGED <<conn, pool, seenDead>> /\ fetch[f].pc = "request"
    BY <1>3 DEF Register
  <2>5. Goes(f, "send", s)
    BY <2>1
  <2> HIDE DEF s
  <2> QED
    BY <1>0, <2>3, <2>4, <2>5, GoesEffect, SameConnKeeps DEF Using
<1>4. ASSUME NEW f \in Fetchers, Send(f) PROVE ChunkInv'
  <2>1. CASE Unreachable(f)
    BY <1>4, <2>1, UnreachableKeeps DEF Send, Using
  <2>2. CASE Goes(f, "wait", fetch[f]) /\ UNCHANGED <<conn, pool, fetches, seenDead>>
    BY <1>0, <1>4, <2>2, GoesEffect, SameConnKeeps DEF Send, Using
  <2> QED
    BY <1>4, <2>1, <2>2 DEF Send
<1>5. ASSUME NEW f \in Fetchers, Timeout(f) PROVE ChunkInv'
  <2> DEFINE s == [fetch[f] EXCEPT !.tries = @ + 1]
  <2>1. s \in Rec /\ s.conn = fetch[f].conn /\ s.peer = fetch[f].peer /\ fetch[f].pc = "wait"
    BY <1>0, <1>5 DEF Rec, Timeout
  <2>2. CASE Unreachable(f)
    BY <2>1, <2>2, UnreachableKeeps DEF Using
  <2>3. CASE Goes(f, "send", s) /\ UNCHANGED <<conn, pool, net, fetches, seenDead>>
    <3> HIDE DEF s
    <3> QED
      BY <1>0, <2>1, <2>3, GoesEffect, SameConnKeeps DEF Using
  <2> QED
    BY <1>5, <2>2, <2>3 DEF Timeout
<1>6. ASSUME NEW f \in Fetchers, Stopped(f) PROVE ChunkInv'
  BY <1>6, UnreachableKeeps DEF Stopped, Using
<1>7. ASSUME NEW f \in Fetchers, NEW b \in Hashes \cup {0}, Returns(f, b), b \in {Wants[f], 0},
             fetch[f].pc # "insert", UNCHANGED <<conn, pool, seenDead>>
      PROVE  ChunkInv'
  <2>1. [Local EXCEPT !.got = b] \in Rec /\ [Local EXCEPT !.got = b].got = b
    BY DEF Local, Rec
  <2> QED
    BY <1>0, <1>7, <2>1, GoesEffect, NoConnKeeps, ZenonT(60) DEF Returns
<1>8. ASSUME NEW f \in Fetchers, Answered(f) PROVE ChunkInv'
  <2>1. fetch[f].pc = "wait" /\ fetch[f].got \in Hashes \cup {0} /\ UNCHANGED <<conn, pool, seenDead>>
    BY <1>0, <1>8 DEF Answered, Rec
  <2>2. CASE Returns(f, fetch[f].got) /\ chunkHashMatches(fetch[f].got, Wants[f])
    BY <1>7, <2>1, <2>2 DEF chunkHashMatches
  <2>3. CASE Goes(f, "next", Unanswered(fetch[f]))
    <3>1. Unanswered(fetch[f]) \in Rec
      BY <1>0 DEF Unanswered, Local, Rec
    <3> QED
      BY <1>0, <2>1, <2>3, <3>1, GoesEffect, NoConnKeeps
  <2> QED
    BY <1>8, <2>2, <2>3 DEF Answered
<1>9. ASSUME NEW f \in Fetchers, relayFetch(f) PROVE ChunkInv'
  BY <1>7, <1>9 DEF relayFetch, DefaultRelayChunkFetcher, chunkHashMatches
<1>10. ASSUME NEW c \in Conns, IdleClose(c) PROVE ChunkInv'
  BY <1>10, CloseKeeps DEF IdleClose, ChunkInv, Types
<1>11. ASSUME ClosePool PROVE ChunkInv'
  <2> DEFINE C == {pool[p] : p \in Peers} \ {0}
  <2>1. C \in SUBSET Conns /\ \A c \in C : conn[c] # "none"
    BY DEF ChunkInv, Types, PooledOnce
  <2>2. pool' \in [Peers -> Conns \cup {0}] /\ \A p \in Peers : pool'[p] = 0 /\ pool[p] \in C \cup {0}
    BY <1>11 DEF ClosePool
  <2>3. Closed(C) /\ UNCHANGED <<fetch, seenDead>>
    BY <1>11 DEF ClosePool
  <2> HIDE DEF C
  <2> QED
    BY <2>1, <2>2, <2>3, CloseKeeps
<1>12. ASSUME deliver PROVE ChunkInv'
  <2>1. PICK a \in serveChunkRequest, m \in net :
          fetch' = [f \in Fetchers |->
                IF f \in Pending(m.conn) /\ fetch[f].req = m.req /\ fetch[f].slot = "empty"
                THEN [fetch[f] EXCEPT !.slot = a[1], !.got = a[2]] ELSE fetch[f]]
    BY <1>12, Zenon DEF deliver
  <2>2. a[1] \in {"miss", "found"} /\ a[2] \in Hashes \cup {0}
    BY DEF serveChunkRequest, ServeChunk
  <2>3. ASSUME NEW f \in Fetchers
        PROVE  LET s == [fetch[f] EXCEPT !.slot = a[1], !.got = a[2]]
               IN s \in Rec /\ s.pc = fetch[f].pc /\ s.conn = fetch[f].conn /\ s.peer = fetch[f].peer
    BY <1>0, <2>2, ZenonT(60) DEF Rec
  <2>4. fetch' \in [Fetchers -> Rec]
    BY <1>0, <2>1, <2>3, Zenon
  <2>5. ASSUME NEW f \in Fetchers
        PROVE  \/ fetch'[f] = fetch[f]
               \/ /\ fetch[f].pc \in Using /\ fetch'[f].pc \in Using
                  /\ fetch'[f].conn = fetch[f].conn /\ fetch'[f].peer = fetch[f].peer
    BY <2>1, <2>3, Zenon DEF Pending, Using
  <2> QED
    BY <1>12, <2>4, <2>5, SameConnKeeps, Zenon DEF deliver
<1>13. ASSUME UNCHANGED cvars PROVE ChunkInv'
  BY <1>0, <1>13, SameConnKeeps DEF cvars
<1> QED
  BY <1>1, <1>2, <1>3, <1>4, <1>5, <1>6, <1>8, <1>9, <1>10, <1>11, <1>12, <1>13,
     PunchKeeps, InsertKeeps DEF CNext, Fetch

\* The invariant holds throughout.
LEMMA ChunkInvariant == CSpec => []ChunkInv
BY ChunkStarts, ChunkStep, PTL DEF CSpec

-----------------------------------------------------------------------------
\* fetchChunk returns the chunk it was asked for or an error, for any number of
\* fetchers, peers, connections, ids and retries.
THEOREM ChunkCorrect == CSpec => []OnlyTheChunk
BY ChunkInvariant, PTL DEF ChunkInv

\* The pool is sound.  No socket is leaked: an open connection is pooled or in
\* its puncher's hands.  And fetchChunkFromPeer's drop keeps a connection that
\* failed out of the pool for good, whichever fetchers replace or drop which
\* connection meanwhile.
THEOREM PoolCorrect == CSpec => []PoolSound
<1>1. ChunkInv => NoOrphan
  BY DEF ChunkInv, OpenKept, NoOrphan
<1>2. ChunkInv => PoolForgetsDead
  BY DEF ChunkInv
<1> QED
  BY <1>1, <1>2, ChunkInvariant, PTL DEF PoolSound

-----------------------------------------------------------------------------
(* The UDP session, for any destinations, queue depth and thresholds.      *)
(* What an open circuit still lets through is bounded by what was waiting. *)

\* What can still be sent to d while its circuit is open: the queue, and the
\* datagram relayLoop waits to put into it.
Waiting(d) == q[d] + (IF relay = d THEN 1 ELSE 0)

\* A closed circuit has no burst; an open one has room for what is waiting.
BurstInv ==
    \A d \in Dsts : IF stats[d].blocked THEN burst[d] + Waiting(d) <= QDepth + 1 ELSE burst[d] = 0

SessionInv == TypeOK /\ BurstInv /\ DrainLostOnlyByCancel

StatsType == [sent : 0..FallbackSent + 1, recv : BOOLEAN, useTunnel : BOOLEAN,
              streak : 0..CBThreshold - 1, blocked : BOOLEAN]

\* relayLoop outside of its queueing is at none of the destinations.
LEMMA RelayLabels == \A d \in Dsts : d # "top" /\ d # "reading" /\ d # "ended"
  BY UDPAssocAssumption

\* The flags of a destination's record.
LEMMA FlagType ==
  ASSUME NEW s \in StatsType
  PROVE  /\ [s EXCEPT !.recv = TRUE] \in StatsType
         /\ [s EXCEPT !.useTunnel = TRUE] \in StatsType
         /\ [s EXCEPT !.blocked = FALSE] \in StatsType
<1>1. [s EXCEPT !.recv = TRUE] \in StatsType
  BY Zenon DEF StatsType
<1>2. [s EXCEPT !.useTunnel = TRUE] \in StatsType
  BY Zenon DEF StatsType
<1>3. [s EXCEPT !.blocked = FALSE] \in StatsType
  BY Zenon DEF StatsType
<1> QED BY <1>1, <1>2, <1>3

\* A new session.
LEMMA SessionStarts == Init => SessionInv
<1> SUFFICES ASSUME Init PROVE SessionInv
  OBVIOUS
<1>1. NoStats \in StatsType
  BY UDPAssocAssumption DEF NoStats, StatsType
<1>2. stats \in [Dsts -> StatsType]
  BY <1>1 DEF Init
<1>5. stop \in BOOLEAN /\ relay \in {"top", "reading", "ended"} \cup Dsts
  BY Zenon DEF Init
<1>6. 0 \in 0..QDepth /\ 0 \in 0..QDepth + 2
  BY UDPAssocAssumption
<1>4. TypeOK
  BY <1>2, <1>5, <1>6, Zenon DEF Init, TypeOK, StatsType
<1>3. BurstInv
  BY DEF Init, BurstInv, NoStats
<1> QED BY <1>3, <1>4 DEF SessionInv, DrainLostOnlyByCancel, Init

\* A step that leaves q, burst and the circuits alone keeps BurstInv unless
\* relayLoop begins to wait for a destination whose circuit is open.
LEMMA BurstStays ==
  ASSUME SessionInv, UNCHANGED <<q, burst>>, \A d \in Dsts : stats'[d].blocked = stats[d].blocked,
         \A d \in Dsts : relay' = d => relay = d \/ ~stats[d].blocked
  PROVE  BurstInv'
  BY UDPAssocAssumption DEF SessionInv, TypeOK, BurstInv, Waiting

\* relayLoop.
LEMMA RelayKeeps ==
  ASSUME SessionInv, Relay
  PROVE  SessionInv'
<1>1. CASE Top \/ ReadFails
  <2>1. /\ UNCHANGED <<stop, stats, checking, worker, q, burst, drain, drainActive>>
        /\ relay' \in {"top", "reading", "ended"}
    BY <1>1 DEF Top, ReadFails, flow
  <2>2. BurstInv'
    BY <2>1, RelayLabels, BurstStays
  <2>3. TypeOK'
    BY <2>1 DEF SessionInv, TypeOK
  <2> QED BY <2>1, <2>2, <2>3 DEF SessionInv, DrainLostOnlyByCancel
<1>2. ASSUME NEW d \in Dsts, Inbound(d)
      PROVE  SessionInv'
  <2>1. /\ UNCHANGED <<stop, checking, worker, q, burst, drain, drainActive>>
        /\ relay' = "top" /\ (stats' = stats \/ stats' = [stats EXCEPT ![d].recv = TRUE])
    BY <1>2 DEF Inbound, recordRecv, flow
  <2>2. BurstInv'
    BY <2>1, RelayLabels, BurstStays DEF SessionInv, TypeOK
  <2>4. stats \in [Dsts -> StatsType] /\ stats[d] \in StatsType
    BY DEF SessionInv, TypeOK, StatsType
  <2>5. stats' \in [Dsts -> StatsType]
    BY <2>1, <2>4, FlagType, Zenon
  <2>3. TypeOK'
    BY <2>1, <2>5, UDPAssocAssumption DEF SessionInv, TypeOK, StatsType
  <2> QED BY <2>1, <2>2, <2>3 DEF SessionInv, DrainLostOnlyByCancel
<1>3. ASSUME NEW d \in Dsts, forwardOutbound(d)
      PROVE  SessionInv'
  <2>1. UNCHANGED <<stop, q, burst, drain, drainActive>>
    BY <1>3 DEF forwardOutbound
  <2>2. CASE goSendViaTunnel(d) /\ UNCHANGED <<stats, checking>>
    <3>1. /\ relay' \in {"top", d} /\ (relay' = d => ~stats[d].blocked)
          /\ worker' \in [Dsts -> {"none", "idle", "sending", "ended"}]
      BY <2>2, RelayLabels DEF goSendViaTunnel, SessionInv, TypeOK
    <3>2. BurstInv'
      BY <2>1, <2>2, <3>1, RelayLabels, BurstStays
    <3>3. TypeOK'
      BY <2>1, <2>2, <3>1 DEF SessionInv, TypeOK
    <3> QED BY <2>1, <3>2, <3>3 DEF SessionInv, DrainLostOnlyByCancel
  <2>3. CASE /\ stats' = [stats EXCEPT ![d].sent =
                            IF stats[d].sent > FallbackSent THEN stats[d].sent ELSE stats[d].sent + 1]
             /\ checking' \subseteq checking \cup {d} /\ relay' = "top" /\ UNCHANGED worker
    <3>1. BurstInv'
      BY <2>1, <2>3, RelayLabels, BurstStays DEF SessionInv, TypeOK
    <3>2. TypeOK'
      BY <2>1, <2>3, UDPAssocAssumption DEF SessionInv, TypeOK
    <3> QED BY <2>1, <3>1, <3>2 DEF SessionInv, DrainLostOnlyByCancel
  <2> QED BY <1>3, <2>2, <2>3 DEF forwardOutbound
<1>4. CASE Enqueue
  <2>1. /\ UNCHANGED <<stop, stats, checking, worker, burst, drain, drainActive>>
        /\ relay' = "top" /\ relay \in Dsts
        /\ q' = q \/ (Room(relay) /\ q' = [q EXCEPT ![relay] = @ + 1])
    BY <1>4 DEF Enqueue
  <2>2. BurstInv'
    BY <2>1, RelayLabels, UDPAssocAssumption DEF SessionInv, TypeOK, BurstInv, Waiting
  <2>3. TypeOK'
    BY <2>1, UDPAssocAssumption DEF SessionInv, TypeOK, Room
  <2> QED BY <2>1, <2>2, <2>3 DEF SessionInv, DrainLostOnlyByCancel
<1> QED BY <1>1, <1>2, <1>3, <1>4 DEF Relay

\* A worker.
LEMMA WorkerKeeps ==
  ASSUME SessionInv, NEW d \in Dsts, Take(d) \/ WorkerStops(d) \/ SendSucceeds(d) \/ SendFails(d)
  PROVE  SessionInv'
<1>1. CASE Take(d)
  <2>1. /\ UNCHANGED <<stop, relay, stats, checking, drain, drainActive>>
        /\ q[d] > 0 /\ worker' = [worker EXCEPT ![d] = "sending"] /\ q' = [q EXCEPT ![d] = @ - 1]
        /\ burst' = IF stats[d].blocked /\ burst[d] < QDepth + 2
                    THEN [burst EXCEPT ![d] = @ + 1] ELSE burst
    BY <1>1 DEF Take
  <2>2. BurstInv'
    BY <2>1, UDPAssocAssumption DEF SessionInv, TypeOK, BurstInv, Waiting
  <2>3. TypeOK'
    BY <2>1, UDPAssocAssumption DEF SessionInv, TypeOK
  <2> QED BY <2>1, <2>2, <2>3 DEF SessionInv, DrainLostOnlyByCancel
<1>2. CASE WorkerStops(d)
  <2>1. /\ UNCHANGED <<stop, relay, stats, checking, q, burst, drain, drainActive>>
        /\ worker' = [worker EXCEPT ![d] = "ended"]
    BY <1>2 DEF WorkerStops
  <2>2. BurstInv'
    BY <2>1, BurstStays
  <2>3. TypeOK'
    BY <2>1 DEF SessionInv, TypeOK
  <2> QED BY <2>1, <2>2, <2>3 DEF SessionInv, DrainLostOnlyByCancel
<1>3. CASE SendSucceeds(d)
  <2>1. /\ UNCHANGED <<stop, relay, checking, q, burst>>
        /\ worker' = [worker EXCEPT ![d] = "idle"] /\ stats' = [stats EXCEPT ![d].streak = 0]
        /\ drainActive' = drainActive \cup {d}
        /\ drain' = IF d \in drainActive THEN drain ELSE [drain EXCEPT ![d] = "running"]
    BY <1>3 DEF SendSucceeds, startTunnelDrain
  <2>2. BurstInv'
    BY <2>1, BurstStays DEF SessionInv, TypeOK
  <2>3. TypeOK'
    BY <2>1, UDPAssocAssumption DEF SessionInv, TypeOK
  <2>4. DrainLostOnlyByCancel'
    BY <2>1 DEF SessionInv, TypeOK, DrainLostOnlyByCancel
  <2> QED BY <2>2, <2>3, <2>4 DEF SessionInv
<1>4. CASE SendFails(d)
  <2>1. /\ UNCHANGED <<stop, relay, checking, q, burst, drain, drainActive>>
        /\ worker' = [worker EXCEPT ![d] = "idle"]
        /\ \/ stats' = stats
           \/ stats[d].streak + 1 < CBThreshold /\ stats' = [stats EXCEPT ![d].streak = @ + 1]
           \/ stats' = [stats EXCEPT ![d].streak = 0, ![d].blocked = TRUE]
    BY <1>4 DEF SendFails
  <2>2. BurstInv'
    BY <2>1, UDPAssocAssumption DEF SessionInv, TypeOK, BurstInv, Waiting
  <2>3. TypeOK'
    BY <2>1, UDPAssocAssumption DEF SessionInv, TypeOK
  <2> QED BY <2>1, <2>2, <2>3 DEF SessionInv, DrainLostOnlyByCancel
<1> QED BY <1>1, <1>2, <1>3, <1>4

\* Drains, timers and the end of the control connection.
LEMMA RestKeeps ==
  ASSUME SessionInv,
         watchCtrl \/ \E d \in Dsts : \/ DrainStops(d) \/ checkFallback(d)
                                      \/ Cooldown(d) \/ DrainCancelled(d)
  PROVE  SessionInv'
<1>1. CASE watchCtrl
  <2>1. stop' = TRUE /\ UNCHANGED <<relay, stats, checking, worker, q, burst, drain, drainActive>>
    BY <1>1 DEF watchCtrl, flow
  <2>2. BurstInv'
    BY <2>1, BurstStays
  <2>3. TypeOK' /\ DrainLostOnlyByCancel'
    BY <2>1 DEF SessionInv, TypeOK, DrainLostOnlyByCancel
  <2> QED BY <2>2, <2>3 DEF SessionInv
<1>2. ASSUME NEW d \in Dsts, DrainStops(d) \/ DrainCancelled(d)
      PROVE  SessionInv'
  <2>1. /\ UNCHANGED <<stop, relay, stats, checking, worker, q, burst, drainActive>>
        /\ \/ stop /\ drain' = [drain EXCEPT ![d] = "ended"]
           \/ drain' = [drain EXCEPT ![d] = "cancelled"]
    BY <1>2 DEF DrainStops, DrainCancelled, flow
  <2>2. BurstInv'
    BY <2>1, BurstStays
  <2>3. TypeOK' /\ DrainLostOnlyByCancel'
    BY <2>1 DEF SessionInv, TypeOK, DrainLostOnlyByCancel
  <2> QED BY <2>2, <2>3 DEF SessionInv
<1>3. ASSUME NEW d \in Dsts, checkFallback(d)
      PROVE  SessionInv'
  <2>1. /\ UNCHANGED <<stop, relay, worker, q, burst, drain, drainActive>>
        /\ checking' \subseteq checking
        /\ stats' = stats \/ stats' = [stats EXCEPT ![d].useTunnel = TRUE]
    BY <1>3 DEF checkFallback, flow
  <2>2. BurstInv'
    BY <2>1, BurstStays DEF SessionInv, TypeOK
  <2>4. stats \in [Dsts -> StatsType] /\ stats[d] \in StatsType
    BY DEF SessionInv, TypeOK, StatsType
  <2>5. stats' \in [Dsts -> StatsType]
    BY <2>1, <2>4, FlagType, Zenon
  <2>3. TypeOK'
    BY <2>1, <2>5, UDPAssocAssumption DEF SessionInv, TypeOK, StatsType
  <2> QED BY <2>1, <2>2, <2>3 DEF SessionInv, DrainLostOnlyByCancel
<1>4. ASSUME NEW d \in Dsts, Cooldown(d)
      PROVE  SessionInv'
  <2>1. /\ UNCHANGED <<stop, relay, checking, worker, q, drain, drainActive>>
        /\ stats' = [stats EXCEPT ![d].blocked = FALSE] /\ burst' = [burst EXCEPT ![d] = 0]
    BY <1>4 DEF Cooldown
  <2>2. BurstInv'
    BY <2>1 DEF SessionInv, TypeOK, BurstInv, Waiting
  <2>4. stats \in [Dsts -> StatsType] /\ stats[d] \in StatsType
    BY DEF SessionInv, TypeOK, StatsType
  <2>5. stats' \in [Dsts -> StatsType]
    BY <2>1, <2>4, FlagType, Zenon
  <2>3. TypeOK'
    BY <2>1, <2>5, UDPAssocAssumption DEF SessionInv, TypeOK, StatsType
  <2> QED BY <2>1, <2>2, <2>3 DEF SessionInv, DrainLostOnlyByCancel
<1> QED BY <1>1, <1>2, <1>3, <1>4

\* For any destinations, queue depth and thresholds: an open circuit lets at
\* most the queue and one waiting datagram through, queues keep their depth,
\* and a drain is missing only after a cancelled one (src/udp_assoc.go).
THEOREM SessionCorrect == Spec => []SessionSound
<1>1. SessionInv /\ [Next]_vars => SessionInv'
  <2> SUFFICES ASSUME SessionInv, [Next]_vars PROVE SessionInv'
    OBVIOUS
  <2>1. CASE UNCHANGED vars
    BY <2>1 DEF vars, flow, SessionInv, TypeOK, BurstInv, Waiting, DrainLostOnlyByCancel
  <2> QED BY <2>1, RelayKeeps, WorkerKeeps, RestKeeps DEF Next, Step
<1>2. SessionInv => SessionSound
  BY UDPAssocAssumption DEF SessionInv, SessionSound, TypeOK, BurstInv, BurstBounded, Waiting
<1> QED BY SessionStarts, <1>1, <1>2, PTL DEF Spec

-----------------------------------------------------------------------------
(* The log ring, for every capacity.  Below pos the buffer holds the last  *)
(* pos bytes logged, and from pos on, once the ring is full, those one     *)
(* round before.                                                           *)

RingInv ==
    /\ pos \in 0..(Capacity - 1) /\ full \in BOOLEAN /\ logged \in Nat
    /\ buf \in [0..(Capacity - 1) -> Int]
    /\ pos <= logged /\ (full => Capacity <= logged)
    /\ \A i \in 0..(Capacity - 1) :
         /\ i < pos => buf[i] = logged - pos + i + 1
         /\ full /\ pos <= i => buf[i] = logged - pos - Capacity + i + 1

\* The remainder of the end of a write that wraps at most once.
LEMMA WrapOnce ==
    ASSUME NEW c \in Nat \ {0}, NEW e \in 0..(2 * c - 1)
    PROVE  e % c = IF e < c THEN e ELSE e - c
<1>1. CASE e < c
  BY <1>1, SMT
<1>2. CASE e >= c
  <2>1. e = 1 * c + (e - c) /\ e - c \in 0..(c - 1)
    BY <1>2, SMT
  <2> QED
    BY <1>2, <2>1
<1> QED
  BY <1>1, <1>2

\* The empty buffer satisfies the invariant.
LEMMA RingStarts == RInit => RingInv
<1> SUFFICES ASSUME RInit PROVE RingInv
  OBVIOUS
<1>1. pos = 0 /\ full = FALSE /\ logged = 0 /\ buf \in [0..(Capacity - 1) -> Int]
  BY RingAssumption DEF RInit
<1>2. pos \in 0..(Capacity - 1) /\ logged \in Nat /\ pos <= logged
  BY <1>1, RingAssumption
<1>3. full \in BOOLEAN /\ (full => Capacity <= logged)
  BY <1>1, Zenon
<1>4. \A i \in 0..(Capacity - 1) : ~(i < pos)
  BY <1>1
<1> QED
  BY <1>1, <1>2, <1>3, <1>4, Zenon DEF RingInv

\* A Write of a bufferful or more.
LEMMA WriteAllKeeps ==
    ASSUME RingInv, NEW n \in Nat, WriteAll(n), logged' = logged + n
    PROVE  RingInv'
BY RingAssumption DEF RingInv, WriteAll, CopyTo

\* A shorter Write, in one piece or in two.
LEMMA WritePartKeeps ==
    ASSUME RingInv, NEW n \in Nat, WritePart(n), logged' = logged + n
    PROVE  RingInv'
<1> DEFINE end == pos + n
<1>0. n < Capacity /\ pos' = end % Capacity /\ end \in 0..(2 * Capacity - 1)
  BY RingAssumption DEF RingInv, WritePart
<1>1. pos' = IF end < Capacity THEN end ELSE end - Capacity
  BY <1>0, RingAssumption, WrapOnce
<1>2. pos' \in 0..(Capacity - 1) /\ logged' \in Nat
  BY <1>0, <1>1, RingAssumption DEF RingInv
<1>3. CASE end <= Capacity
  <2>1. buf' = CopyTo(buf, pos, logged, n) /\ full' = full
    BY <1>3 DEF WritePart
  <2>2. buf' \in [0..(Capacity - 1) -> Int]
    BY <2>1, <1>0, RingAssumption DEF RingInv, CopyTo
  <2>3. ASSUME NEW i \in 0..(Capacity - 1)
        PROVE  buf'[i] = IF pos <= i /\ i < end THEN logged + (i - pos) + 1 ELSE buf[i]
    BY <2>1 DEF CopyTo, RingInv
  <2>4. pos' <= logged' /\ (full' => Capacity <= logged')
    BY <1>0, <1>1, <1>3, <2>1, RingAssumption DEF RingInv
  <2>5. ASSUME NEW i \in 0..(Capacity - 1), i < pos'
        PROVE  buf'[i] = logged' - pos' + i + 1
    <3>1. CASE end < Capacity
      BY <1>1, <2>3, <2>5, <3>1, RingAssumption DEF RingInv
    <3>2. CASE end = Capacity
      BY <1>1, <2>5, <3>2, RingAssumption
    <3> QED
      BY <1>3, <3>1, <3>2, RingAssumption DEF RingInv
  <2>6. ASSUME NEW i \in 0..(Capacity - 1), full', pos' <= i
        PROVE  buf'[i] = logged' - pos' - Capacity + i + 1
    <3>1. full
      BY <2>1, <2>6
    <3>2. CASE end < Capacity
      BY <1>1, <2>3, <2>6, <3>1, <3>2, RingAssumption DEF RingInv
    <3>3. CASE end = Capacity
      <4>1. pos' = 0
        BY <1>1, <3>3, RingAssumption
      <4>2. CASE pos <= i
        BY <2>3, <3>3, <4>1, <4>2, RingAssumption DEF RingInv
      <4>3. CASE i < pos
        <5>1. buf'[i] = buf[i] /\ buf[i] = logged - pos + i + 1
          BY <2>3, <4>3 DEF RingInv
        <5>2. logged - pos = logged' - Capacity
          BY <3>3, RingAssumption DEF RingInv
        <5> QED
          BY <4>1, <5>1, <5>2, RingAssumption DEF RingInv
      <4> QED
        BY <4>2, <4>3, RingAssumption DEF RingInv
    <3> QED
      BY <1>3, <3>2, <3>3, RingAssumption DEF RingInv
  <2>7. full' \in BOOLEAN
    BY <2>1 DEF RingInv
  <2> QED
    BY <1>2, <2>2, <2>4, <2>5, <2>6, <2>7 DEF RingInv
<1>4. CASE end > Capacity
  <2>1. /\ buf' = CopyTo(CopyTo(buf, pos, logged, Capacity - pos), 0,
                         logged + (Capacity - pos), n - (Capacity - pos))
        /\ full' = TRUE
    BY <1>4, RingAssumption DEF WritePart, FirstPiece, RingInv
  <2>2. buf' \in [0..(Capacity - 1) -> Int]
    BY <2>1, <1>0, RingAssumption DEF RingInv, CopyTo
  <2>3. pos' = n - (Capacity - pos) /\ logged' = logged + n
    BY <1>1, <1>4, RingAssumption DEF RingInv
  <2>4. ASSUME NEW i \in 0..(Capacity - 1)
        PROVE  /\ i < pos' => buf'[i] = logged' - pos' + i + 1
               /\ pos' <= i => buf'[i] = logged' - pos' - Capacity + i + 1
    <3>1. buf'[i] = IF i < pos' THEN logged + (Capacity - pos) + i + 1
                    ELSE IF pos <= i THEN logged + (i - pos) + 1 ELSE buf[i]
      BY <1>0, <1>4, <2>1, <2>3, RingAssumption DEF RingInv, CopyTo
    <3>2. CASE i < pos'
      BY <2>3, <3>1, <3>2, RingAssumption DEF RingInv
    <3>3. CASE pos' <= i /\ pos <= i
      BY <2>3, <3>1, <3>3, RingAssumption DEF RingInv
    <3>4. CASE pos' <= i /\ i < pos
      BY <2>3, <3>1, <3>4, RingAssumption DEF RingInv
    <3> QED
      BY <1>2, <3>2, <3>3, <3>4, RingAssumption DEF RingInv
  <2>5. pos' <= logged' /\ Capacity <= logged'
    BY <1>0, <1>4, <2>3, RingAssumption DEF RingInv
  <2> QED
    BY <1>2, <2>1, <2>2, <2>4, <2>5 DEF RingInv
<1> QED
  BY <1>0, <1>3, <1>4, RingAssumption DEF RingInv

\* The invariant gives the property: Snapshot reads the cells in the order in
\* which they were written.
LEMMA RingInvSuffices == RingInv => SnapshotIsRecent
<1> SUFFICES ASSUME RingInv PROVE SnapshotIsRecent
  OBVIOUS
<1>1. CASE full
  <2>1. SnapshotLen = Capacity
    BY <1>1 DEF SnapshotLen
  <2>2. ASSUME NEW i \in 1..Capacity PROVE Snapshot[i] = logged - Capacity + i
    <3>1. CASE i <= Capacity - pos
      BY <1>1, <2>1, <3>1, RingAssumption DEF RingInv, Snapshot
    <3>2. CASE i > Capacity - pos
      BY <1>1, <2>1, <3>2, RingAssumption DEF RingInv, Snapshot
    <3> QED
      BY <3>1, <3>2, RingAssumption DEF RingInv
  <2> QED
    BY <1>1, <2>1, <2>2, RingAssumption DEF RingInv, SnapshotIsRecent
<1>2. CASE ~full
  <2>1. SnapshotLen = pos
    BY <1>2 DEF SnapshotLen
  <2>2. ASSUME NEW i \in 1..pos PROVE Snapshot[i] = logged - pos + i
    BY <1>2, <2>1, RingAssumption DEF RingInv, Snapshot
  <2> QED
    BY <1>2, <2>1, <2>2, RingAssumption DEF RingInv, SnapshotIsRecent
<1> QED
  BY <1>1, <1>2

\* ringBuffer.Snapshot is the end of the log, in order and without holes, for
\* every capacity and every sequence of writes, whatever their lengths.
THEOREM SnapshotCorrect == RSpec => []SnapshotIsRecent
<1>1. RingInv /\ [RNext]_rvars => RingInv'
  <2> SUFFICES ASSUME RingInv, [RNext]_rvars PROVE RingInv'
    OBVIOUS
  <2>1. CASE RNext
    <3>1. PICK n \in 1..MaxLogged : LogWrite(n)
      BY <2>1 DEF RNext
    <3>2. n \in Nat /\ logged' = logged + n
      BY <3>1, RingAssumption DEF LogWrite
    <3> QED
      BY <3>1, <3>2, WriteAllKeeps, WritePartKeeps DEF LogWrite
  <2>2. CASE UNCHANGED rvars
    BY <2>2 DEF RingInv, rvars
  <2> QED
    BY <2>1, <2>2
<1> QED
  BY RingStarts, <1>1, RingInvSuffices, PTL DEF RSpec
=============================================================================
