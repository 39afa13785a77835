--------------------------- MODULE ControlProofs ---------------------------
(***************************************************************************)
(* What a client knows of the controls and they of it: the token of its    *)
(* session, the list of control servers and the index of who has which     *)
(* version, for any posters, servers, nodes and numbers of them.           *)
(***************************************************************************)
EXTENDS TunnelPost, Discovery, Gossip, TLAPS

\* The backends, in the order in which a leaf that names none tries them.
USE SMT, ZenonT(20), Z3T(60), SMTT(60)

-----------------------------------------------------------------------------
(* Re-authentication: any posters, windows and number of tokens.  Who      *)
(* holds reAuthMu is who is logging in, and the token a poster logs in     *)
(* over is followed from the failed request to the retry.                  *)

\* Who holds reAuthMu is exactly who is logging in.
LockInv == \A p \in Posters : mu = p <=> pc[p] = "login"

\* Tokens only grow, so a rejected token never becomes current again: what a
\* goroutine remembers as bad is the current token or an older one.
TokenInv ==
    \A p \in Posters :
        /\ tok[p] <= token
        /\ badToken[p] <= token
        /\ pc[p] = "login" => token = badToken[p]
        /\ pc[p] = "resend" => badToken[p] < token
        /\ pc[p] \in {"sentTCP", "sentUDP"} /\ ~allowRetry[p] => badToken[p] < tok[p]

\* A goroutine that warned and whose token is still current has its warning on
\* display: only a login can clear it, and a login makes the token old.
WarnInv ==
    \A p \in Posters :
        pc[p] \in {"login", "sleep"} /\ warned[p] /\ badToken[p] = token => warningShown

IInv == TypeOK /\ LockInv /\ TokenInv /\ WarnInv /\ UDPFailedHookOnce

-----------------------------------------------------------------------------
\* The initial state satisfies the inductive invariant.
LEMMA InitIInv == Init => IInv
<1> SUFFICES ASSUME Init PROVE IInv
  OBVIOUS
<1>1. /\ token = 1 /\ valid = {1} /\ mu = NoPoster /\ relay = RelayAtStart
      /\ hookArmed = TRUE /\ udpHooks = 0 /\ warningShown = FALSE
      /\ fatals = 0
  BY DEF Init
<1>2. /\ pc \in [Posters -> PCs]
      /\ tok \in [Posters -> Nat] /\ badToken \in [Posters -> Nat]
      /\ rejectAge \in [Posters -> Nat \cup {Unset}]
      /\ serverAge \in [Posters -> Nat] /\ sleepLeft \in [Posters -> Nat]
      /\ backoff \in [Posters -> Nat \ {0}]
  BY TimeAssumption DEF Init, PCs
<1>3. /\ allowRetry \in [Posters -> BOOLEAN] /\ retryOn404 \in [Posters -> BOOLEAN]
      /\ warned \in [Posters -> BOOLEAN]
  BY DEF Init
<1>4. TypeOK
  <2>1. hookArmed \in BOOLEAN /\ warningShown \in BOOLEAN
    BY <1>1, Zenon
  <2>2. /\ token \in Nat \ {0} /\ valid \subseteq Nat /\ mu \in Posters \cup {NoPoster}
        /\ udpHooks \in Nat /\ fatals \in 0..2
    BY <1>1
  <2>3. relay \in {"none", "up", "failed"}
    BY <1>1, RelayAssumption
  <2> QED BY <2>1, <2>2, <2>3, <1>2, <1>3 DEF TypeOK
<1>5. LockInv /\ TokenInv /\ WarnInv
  BY PostersAssumption DEF Init, LockInv, TokenInv, WarnInv
<1>6. UDPFailedHookOnce
  BY <1>1 DEF UDPFailedHookOnce
<1> QED BY <1>4, <1>5, <1>6 DEF IInv

\* Putting a request on the wire keeps the invariant if the poster may send.
LEMMA SendIInv ==
  ASSUME IInv, NEW p \in Posters, NEW retry \in BOOLEAN, Send(p, retry),
         pc[p] \in {"idle", "resend"}, ~retry => pc[p] = "resend",
         retryOn404' \in [Posters -> BOOLEAN]
  PROVE  IInv'
<1> USE PostersAssumption DEF IInv, Send
<1>1. TypeOK'
  <2>1. hookArmed' \in BOOLEAN /\ udpHooks' \in Nat
    <3>1. hookArmed' \in BOOLEAN
      BY Zenon DEF TypeOK, TakeUDPHook
    <3>2. udpHooks' \in Nat
      BY DEF TypeOK, TakeUDPHook
    <3> QED BY <3>1, <3>2
  <2>2. /\ tok' \in [Posters -> Nat] /\ allowRetry' \in [Posters -> BOOLEAN]
        /\ pc' \in [Posters -> PCs]
    BY DEF TypeOK, PCs
  <2> QED BY <2>1, <2>2 DEF TypeOK, local, hooks
<1>2. LockInv'
  BY DEF TypeOK, LockInv
<1>3. TokenInv'
  BY DEF TypeOK, TokenInv
<1>4. WarnInv'
  BY DEF TypeOK, WarnInv, local, hooks
<1>5. UDPFailedHookOnce'
  BY DEF TypeOK, UDPFailedHookOnce, TakeUDPHook
<1> QED BY <1>1, <1>2, <1>3, <1>4, <1>5

\* An answer from the control keeps the invariant.
LEMMA ReplyIInv ==
  ASSUME IInv, NEW p \in Posters, Reply(p)
  PROVE  IInv'
<1> USE PostersAssumption DEF IInv, Reply
<1>1. TypeOK'
  BY DEF TypeOK, local, hooks, udp, PCs
<1>2. LockInv'
  BY DEF TypeOK, LockInv
<1>3. TokenInv'
  BY DEF TypeOK, TokenInv
<1>4. WarnInv'
  BY DEF TypeOK, WarnInv, local, hooks
<1>5. UDPFailedHookOnce'
  BY DEF UDPFailedHookOnce, udp
<1> QED BY <1>1, <1>2, <1>3, <1>4, <1>5

\* Taking the mutex, on entry or after a sleep, keeps the invariant.
LEMMA LockIInv ==
  ASSUME IInv, NEW p \in Posters, Lock(p) \/ Wake(p)
  PROVE  IInv'
<1> USE PostersAssumption DEF IInv, Lock, Wake, TokenReplaced
<1>1. TypeOK'
  <2>1. CASE Lock(p)
    BY <2>1, TimeAssumption DEF TypeOK, ResetLocals, hooks, udp, PCs, Unset
  <2>2. CASE Wake(p)
    <3>1. pc' \in [Posters -> PCs] /\ mu' \in Posters \cup {NoPoster}
      BY <2>2 DEF TypeOK, PCs
    <3>2. warned' \in [Posters -> BOOLEAN]
      BY <2>2, ZenonT(60) DEF TypeOK, ResetLocals
    <3>3. rejectAge' \in [Posters -> Nat \cup {Unset}]
      BY <2>2 DEF TypeOK, ResetLocals
    <3>4. serverAge' \in [Posters -> Nat] /\ sleepLeft' \in [Posters -> Nat]
      BY <2>2 DEF TypeOK, ResetLocals
    <3>5. backoff' \in [Posters -> Nat \ {0}]
      BY <2>2, TimeAssumption DEF TypeOK, ResetLocals
    <3> QED BY <2>2, <3>1, <3>2, <3>3, <3>4, <3>5 DEF TypeOK, hooks, udp
  <2> QED BY <2>1, <2>2
<1>2. LockInv'
  BY DEF TypeOK, LockInv
<1>3. TokenInv'
  BY DEF TypeOK, TokenInv
<1>4. WarnInv'
  BY DEF TypeOK, WarnInv, ResetLocals, hooks
<1>5. UDPFailedHookOnce'
  BY DEF UDPFailedHookOnce, udp
<1> QED BY <1>1, <1>2, <1>3, <1>4, <1>5

\* The return of a login, whatever it brings, keeps the invariant.
LEMMA LoginIInv ==
  ASSUME IInv, NEW p \in Posters, LoginReturn(p)
  PROVE  IInv'
<1> USE PostersAssumption DEF IInv
<1>0. /\ pc[p] = "login" /\ UNCHANGED <<tok, allowRetry, retryOn404, badToken, udp>>
      /\ LoginOk(p) \/ LoginRejected(p) \/ LoginUnavailable(p)
  BY DEF LoginReturn
<1>1. LoginOk(p) \/ GiveUp(p) \/ (LoginRejected(p) /\ ~GiveUp(p)) \/ (LoginUnavailable(p) /\ ~GiveUp(p))
  BY <1>0
<1>2. UDPFailedHookOnce'
  BY <1>0 DEF UDPFailedHookOnce, udp
<1>3. CASE LoginOk(p)
  <2> USE <1>3, <1>0 DEF LoginOk
  <2>1. TypeOK'
    BY TimeAssumption DEF TypeOK, ResetLocals, udp, PCs, Unset
  <2>2. LockInv'
    BY DEF TypeOK, LockInv
  <2>3. TokenInv'
    BY DEF TypeOK, TokenInv, LockInv
  <2>4. WarnInv'
    BY DEF TypeOK, WarnInv, TokenInv
  <2> QED BY <2>1, <2>2, <2>3, <2>4, <1>2
<1>4. CASE GiveUp(p)
  <2> USE <1>4, <1>0 DEF GiveUp
  <2>1. TypeOK'
    <3>1. pc' \in [Posters -> PCs] /\ mu' \in Posters \cup {NoPoster} /\ fatals' \in 0..2
      BY DEF TypeOK, PCs
    <3>2. warningShown' \in BOOLEAN
      BY DEF TypeOK, FireWarn
    <3>3. /\ warned' \in [Posters -> BOOLEAN]
          /\ rejectAge' \in [Posters -> Nat \cup {Unset}]
          /\ serverAge' \in [Posters -> Nat] /\ sleepLeft' \in [Posters -> Nat]
          /\ backoff' \in [Posters -> Nat \ {0}]
      BY TimeAssumption DEF TypeOK, ResetLocals
    <3> QED BY <3>1, <3>2, <3>3 DEF TypeOK, udp
  <2>2. LockInv'
    BY DEF TypeOK, LockInv
  <2>3. TokenInv'
    BY DEF TypeOK, TokenInv
  <2>4. WarnInv'
    BY DEF TypeOK, WarnInv, FireWarn, ResetLocals
  <2> QED BY <2>1, <2>2, <2>3, <2>4, <1>2
<1>5. CASE LoginRejected(p) /\ ~GiveUp(p)
  <2> USE <1>5, <1>0 DEF LoginRejected, Sleep
  <2>1. TypeOK'
    <3>1. ~(rejectAge[p] > RejectWindow)
      OBVIOUS
    <3>2. /\ pc' \in [Posters -> PCs] /\ mu' \in Posters \cup {NoPoster}
          /\ sleepLeft' \in [Posters -> Nat] /\ warned' \in [Posters -> BOOLEAN]
      BY <3>1, ZenonT(60) DEF TypeOK, PCs
    <3>3. rejectAge' \in [Posters -> Nat \cup {Unset}]
      BY <3>1 DEF TypeOK
    <3>4. warningShown' \in BOOLEAN
      BY <3>1 DEF TypeOK, FireWarn
    <3> QED BY <3>1, <3>2, <3>3, <3>4, Zenon DEF TypeOK, udp
  <2>2. LockInv'
    BY DEF TypeOK, LockInv
  <2>3. TokenInv'
    BY DEF TypeOK, TokenInv
  <2>4. WarnInv'
    BY Zenon DEF TypeOK, WarnInv, TokenInv, FireWarn
  <2> QED BY <2>1, <2>2, <2>3, <2>4, <1>2
<1>6. CASE LoginUnavailable(p) /\ ~GiveUp(p)
  <2> USE <1>6, <1>0 DEF LoginUnavailable, Sleep
  <2>1. TypeOK'
    BY ZenonT(60) DEF TypeOK, udp, PCs, Unset
  <2>2. LockInv'
    BY DEF TypeOK, LockInv
  <2>3. TokenInv'
    BY DEF TypeOK, TokenInv
  <2>4. WarnInv'
    BY DEF TypeOK, WarnInv
  <2> QED BY <2>1, <2>2, <2>3, <2>4, <1>2, Zenon
<1> QED BY <1>1, <1>3, <1>4, <1>5, <1>6

\* Time, session expiry and a failing relay keep the invariant.
LEMMA EnvironmentIInv ==
  ASSUME IInv, Tick \/ Expire \/ RelayFails
  PROVE  IInv'
<1> USE DEF IInv
<1>1. TypeOK'
  <2>1. CASE Tick
    BY <2>1, TimeAssumption DEF Tick, TypeOK, Older, CountDown, udp, hooks, Unset
  <2>2. CASE Expire
    BY <2>2 DEF Expire, TypeOK, local, udp, hooks
  <2>3. CASE RelayFails
    BY <2>3 DEF RelayFails, TypeOK, local, hooks
  <2> QED BY <2>1, <2>2, <2>3
<1>2. LockInv'
  BY DEF Tick, Expire, RelayFails, LockInv
<1>3. TokenInv'
  BY DEF Tick, Expire, RelayFails, TokenInv
<1>4. WarnInv'
  BY DEF Tick, Expire, RelayFails, WarnInv, local, hooks
<1>5. UDPFailedHookOnce'
  BY DEF Tick, Expire, RelayFails, UDPFailedHookOnce, udp
<1> QED BY <1>1, <1>2, <1>3, <1>4, <1>5

\* Every step, a stuttering one included, keeps the invariant.
LEMMA NextIInv == IInv /\ [Next]_vars => IInv'
<1> SUFFICES ASSUME IInv, [Next]_vars PROVE IInv'
  OBVIOUS
<1>1. CASE Tick \/ Expire \/ RelayFails
  BY <1>1, EnvironmentIInv
<1>2. ASSUME NEW p \in Posters, Step(p) PROVE IInv'
  <2>1. CASE Post(p)
    <3>1. pc[p] = "idle" /\ Send(p, TRUE)
      BY <2>1, Zenon DEF Post
    <3>2. retryOn404' \in [Posters -> BOOLEAN]
      BY <2>1 DEF Post, IInv, TypeOK
    <3> QED BY <3>1, <3>2, SendIInv, Zenon
  <2>2. CASE Resend(p)
    <3>1. pc[p] = "resend" /\ Send(p, FALSE)
      BY <2>2, Zenon DEF Resend
    <3>2. retryOn404' \in [Posters -> BOOLEAN]
      BY <2>2 DEF Resend, IInv, TypeOK
    <3> QED BY <3>1, <3>2, SendIInv, Zenon
  <2>3. CASE Reply(p)
    BY <2>3, ReplyIInv
  <2>4. CASE Lock(p) \/ Wake(p)
    BY <2>4, LockIInv
  <2>5. CASE LoginReturn(p)
    BY <2>5, LoginIInv
  <2> QED BY <1>2, <2>1, <2>2, <2>3, <2>4, <2>5 DEF Step
<1>3. CASE UNCHANGED vars
  BY <1>3 DEF vars, local, udp, hooks, IInv, TypeOK, LockInv, TokenInv, WarnInv, UDPFailedHookOnce
<1> QED BY <1>1, <1>2, <1>3 DEF Next

\* The inductive invariant holds in every reachable state.
LEMMA Inductive == Spec => []IInv
  BY InitIInv, NextIInv, PTL DEF Spec

-----------------------------------------------------------------------------
\* The types of all the state of doPost and refreshToken.
THEOREM TypeCorrect == Spec => []TypeOK
<1>1. IInv => TypeOK
  BY DEF IInv
<1> QED BY Inductive, <1>1, PTL

\* Whoever logs in holds reAuthMu and replaces exactly the token it was told
\* is bad, for any number of posters.
THEOREM LoginSafe == Spec => []LoginReplacesBadToken
<1>1. IInv => LoginReplacesBadToken
  BY DEF IInv, LockInv, TokenInv, LoginReplacesBadToken
<1> QED BY Inductive, <1>1, PTL

\* The single retry of doPost never repeats the token that was rejected.
THEOREM RetrySafe == Spec => []RetryUsesFreshToken
<1>1. IInv => RetryUsesFreshToken
  BY DEF IInv, TypeOK, TokenInv, RetryUsesFreshToken
<1> QED BY Inductive, <1>1, PTL

\* The onUDPFailed hook runs at most once.
THEOREM UDPHookSafe == Spec => []UDPFailedHookOnce
<1>1. IInv => UDPFailedHookOnce
  BY DEF IInv
<1> QED BY Inductive, <1>1, PTL

\* The fatal hook fires only over a token that is still current and with the
\* warning on display.
THEOREM FatalSafe == Spec => FatalOnlyOverDeadSession
<1>1. IInv /\ [Next]_vars =>
        [fatals' # fatals =>
           /\ warningShown'
           /\ \E p \in Posters : pc[p] = "login" /\ badToken[p] = token]_vars
  <2> SUFFICES ASSUME IInv, Next, fatals' # fatals
               PROVE  /\ warningShown'
                      /\ \E p \in Posters : pc[p] = "login" /\ badToken[p] = token
    OBVIOUS
  <2>1. PICK p \in Posters : LoginReturn(p)
    BY DEF Next, Step, Tick, Expire, RelayFails, Post, Resend, Send, Reply, Lock, Wake,
       hooks
  <2>2. pc[p] = "login" /\ GiveUp(p)
    BY <2>1 DEF LoginReturn, LoginOk, LoginRejected, LoginUnavailable, Sleep
  <2>3. badToken[p] = token
    BY <2>2 DEF IInv, TokenInv
  <2>4. warningShown'
    BY <2>2, <2>3, ZenonT(60) DEF GiveUp, FireWarn, IInv, WarnInv
  <2> QED BY <2>2, <2>3, <2>4
<1> QED BY Inductive, <1>1, PTL DEF Spec, FatalOnlyOverDeadSession

-----------------------------------------------------------------------------
(* The list of controls: every version that any step reads, holds in       *)
(* memory or on disk, or has under way to the disk, was verified, and the  *)
(* one in use is never empty.                                              *)

Usable(v) == v = 0 \/ verify(v)

DInv ==
    /\ serves \in [Servers -> 0..Newest]
    /\ cur \in 0..Newest /\ fetched \in 0..Newest /\ cacheFile \in 0..Newest
    /\ manifestTS \in 0..Newest /\ reported \in 0..Newest /\ reported <= manifestTS
    /\ toPersist \in [fetch : 0..Newest, inject : 0..Newest]
    /\ serverURLs \subseteq Servers /\ serverURLs # {}
    /\ Usable(cur) /\ Usable(cacheFile) /\ Usable(toPersist.fetch) /\ Usable(toPersist.inject)

\* Each step of the discoverer, of gossip and of a restart keeps it.
LEMMA DiscoveryStep ==
  ASSUME DInv, [DNext]_dvars
  PROVE  DInv'
<1> USE DiscoveryAssumption
<1>1. ASSUME NEW c \in Servers, Publish(c)
      PROVE  DInv'
  <2>1. serves' \in [Servers -> 0..Newest]
    BY <1>1 DEF Publish, DInv
  <2> QED BY <1>1, <2>1 DEF Publish, DInv, Usable, verify
<1>2. ASSUME NEW c \in Servers, fetch(c)
      PROVE  DInv'
  BY <1>2 DEF fetch, DInv, Usable, verify
<1>3. CASE fetchAndApply
  <2>1. CASE verify(fetched)
    <3>1. fetched \in Versions /\ Listed[fetched] \subseteq Servers /\ Listed[fetched] # {}
      BY <1>3, <2>1 DEF fetchAndApply, DInv, verify
    <3>2. /\ toPersist' \in [fetch : 0..Newest, inject : 0..Newest]
          /\ toPersist'.fetch = fetched /\ toPersist'.inject = toPersist.inject
      BY <1>3, <2>1 DEF fetchAndApply, DInv
    <3> QED BY <1>3, <2>1, <3>1, <3>2
       DEF fetchAndApply, setControls, DInv, Usable, verify
  <2>2. CASE ~verify(fetched)
    BY <1>3, <2>2 DEF fetchAndApply, DInv, Usable, verify
  <2> QED BY <2>1, <2>2
<1>4. CASE FetchDone
  <2>1. /\ toPersist' \in [fetch : 0..Newest, inject : 0..Newest]
        /\ toPersist'.fetch = 0 /\ toPersist'.inject = toPersist.inject
    BY <1>4 DEF FetchDone, DInv
  <2>2. manifestTS' \in 0..Newest /\ reported' \in 0..Newest /\ reported' <= manifestTS'
    BY <1>4 DEF FetchDone, SetManifest, DInv
  <2> QED BY <1>4, <2>1, <2>2 DEF FetchDone, persist, DInv, Usable, verify
<1>5. ASSUME NEW v \in Versions, handleManifestData(v)
      PROVE  DInv'
  <2>1. /\ toPersist' \in [fetch : 0..Newest, inject : 0..Newest]
        /\ toPersist'.inject = v /\ toPersist'.fetch = toPersist.fetch
    BY <1>5 DEF handleManifestData, DInv
  <2> QED BY <1>5, <2>1 DEF handleManifestData, setControls, DInv, Usable, verify
<1>6. CASE InjectDone
  <2>1. /\ toPersist' \in [fetch : 0..Newest, inject : 0..Newest]
        /\ toPersist'.inject = 0 /\ toPersist'.fetch = toPersist.fetch
    BY <1>6 DEF InjectDone, DInv
  <2> QED BY <1>6, <2>1 DEF InjectDone, persist, DInv, Usable, verify
<1>7. CASE LoadCached
  <2>1. /\ toPersist' \in [fetch : 0..Newest, inject : 0..Newest]
        /\ toPersist'.inject = 0 /\ toPersist'.fetch = 0
    BY <1>7 DEF LoadCached, NothingToPersist, DInv
  <2>2. cacheFile' = cacheFile \/ cacheFile' = 0
    BY <1>7 DEF LoadCached
  <2> QED BY <1>7, <2>1, <2>2 DEF LoadCached, DInv, Usable, verify
<1>8. CASE UNCHANGED dvars
  BY <1>8 DEF dvars, DInv, Usable, verify
<1> QED BY <1>1, <1>2, <1>3, <1>4, <1>5, <1>6, <1>7, <1>8, ZenonT(60) DEF DNext, Fetch, Gossip

\* For any manifests and any controls: the discoverer always has a server to
\* ask, and gossip never takes it back behind what it has reported
\* (src/discovery.go, src/dht/dht_node.go).
THEOREM ControlsCorrect == DSpec => ControlsSound
<1>1. DInit => DInv
  BY DiscoveryAssumption DEF DInit, DInv, NothingToPersist, Usable
<1>2. DInv /\ [DNext]_dvars => DInv'
  BY DiscoveryStep
<1>3. DInv => DTypeOK
  BY DEF DInv, DTypeOK, Usable, verify
<1>4. DInv => [\A v \in Versions : handleManifestData(v) => v > reported]_dvars
  BY DiscoveryAssumption DEF DInv, handleManifestData
<1> QED BY <1>1, <1>2, <1>3, <1>4, PTL DEF DSpec, ControlsSound, GossipNotOlderThanReported

-----------------------------------------------------------------------------
(* The index of who has a version: "complete" travels from a node's own    *)
(* record through an announcement under way into an index, and in all      *)
(* three places it stands only beside a version that the node has          *)
(* downloaded.                                                             *)

Stamps == 0..Latest
Claim == [ts : Stamps, complete : BOOLEAN]
Message == [type : {"none", "have", "want", "data"}, ts : Stamps, complete : BOOLEAN]

\* A claim of p is true: the version it names is complete at p.
True(p, m) == m.complete => m.ts \in downloaded[p]

NodesOK ==
    /\ content \in [Nodes -> Claim] /\ mirrorTS \in [Nodes -> Stamps]
    /\ stateFile \in [Nodes -> Stamps] /\ downloaded \in [Nodes -> SUBSET (1..Latest)]
    /\ \A n \in Nodes : content[n].ts <= mirrorTS[n] /\ stateFile[n] <= mirrorTS[n]
    /\ \A n \in Nodes : True(n, content[n])

IndexOK ==
    /\ index \in [Nodes -> [Nodes -> Claim]]
    /\ \A n, p \in Nodes : True(p, index[n][p])

LinkOK ==
    /\ link \in [Edges -> Message]
    /\ \A l \in Edges : True(l[1], link[l])

GossipInv == NodesOK /\ IndexOK /\ LinkOK

-----------------------------------------------------------------------------
\* An edge leads from a node to one of its contacts.
LEMMA EdgesOK == \A l \in Edges : l[1] \in Nodes /\ l[2] \in Nodes /\ l = <<l[1], l[2]>>
BY GossipAssumption DEF Edges

\* SetContent and SetContentComplete keep a record a record.
LEMMA ContentOK ==
  ASSUME NEW c \in Claim, NEW v \in Stamps
  PROVE  /\ Content(c, v) \in Claim /\ Completed(c, v) \in Claim
         /\ Content(c, v).ts = IF v > c.ts THEN v ELSE c.ts
         /\ Content(c, v).complete => c.complete /\ Content(c, v) = c
         /\ Completed(c, v).ts = c.ts
         /\ Completed(c, v).complete => c.complete \/ v = c.ts
<1>1. Content(c, v) \in Claim
  BY GossipAssumption DEF Content, Claim, Stamps
<1>2. Completed(c, v) \in Claim
  BY GossipAssumption, Zenon DEF Completed, Claim, Stamps
<1>3. Content(c, v).ts = IF v > c.ts THEN v ELSE c.ts
  BY GossipAssumption DEF Content, Claim, Stamps
<1>4. Content(c, v).complete => c.complete /\ Content(c, v) = c
  BY DEF Content
<1>5. Completed(c, v).ts = c.ts
  BY DEF Completed, Claim
<1>6. Completed(c, v).complete => c.complete \/ v = c.ts
  BY DEF Completed
<1> QED
  BY <1>1, <1>2, <1>3, <1>4, <1>5, <1>6

\* Before anything is announced.
LEMMA GossipInitOK == GInit => GossipInv
<1> SUFFICES ASSUME GInit PROVE GossipInv
  OBVIOUS
<1>1. 0 \in Stamps /\ [ts |-> 0, complete |-> FALSE] \in Claim /\ Nothing \in Message
  BY GossipAssumption DEF Stamps, Claim, Message, Nothing
<1>2. NodesOK
  BY <1>1 DEF GInit, NodesOK, True
<1>3. IndexOK
  BY <1>1 DEF GInit, IndexOK, True
<1>4. LinkOK
  BY <1>1, EdgesOK DEF GInit, LinkOK, True, Nothing
<1> QED
  BY <1>2, <1>3, <1>4 DEF GossipInv

-----------------------------------------------------------------------------
\* One node's record, its mirror's version and its file change together.
LEMMA NodeStepOK ==
  ASSUME NodesOK, NEW n \in Nodes, NEW c \in Claim, NEW v \in Stamps, NEW f \in Stamps,
         content' = [content EXCEPT ![n] = c], mirrorTS' = [mirrorTS EXCEPT ![n] = v],
         stateFile' = [stateFile EXCEPT ![n] = f],
         downloaded' \in [Nodes -> SUBSET (1..Latest)],
         \A p \in Nodes : downloaded[p] \subseteq downloaded'[p],
         c.ts <= v, f <= v, c.complete => c.ts \in downloaded'[n]
  PROVE  NodesOK'
<1>1. content' \in [Nodes -> Claim] /\ mirrorTS' \in [Nodes -> Stamps]
      /\ stateFile' \in [Nodes -> Stamps]
  BY DEF NodesOK
<1>2. \A p \in Nodes : content'[p].ts <= mirrorTS'[p] /\ stateFile'[p] <= mirrorTS'[p]
  BY DEF NodesOK
<1>3. \A p \in Nodes : True(p, content[p])'
  BY DEF NodesOK, True
<1> QED
  BY <1>1, <1>2, <1>3 DEF NodesOK

\* What was downloaded stays downloaded, so claims stay true.
LEMMA ClaimsStay ==
  ASSUME GossipInv, \A p \in Nodes : downloaded[p] \subseteq downloaded'[p]
  PROVE  /\ index' = index => IndexOK'
         /\ link' = link => LinkOK'
<1>1. ASSUME index' = index PROVE IndexOK'
  BY <1>1 DEF GossipInv, IndexOK, True
<1>2. ASSUME link' = link PROVE LinkOK'
  BY <1>2, EdgesOK DEF GossipInv, LinkOK, True
<1> QED
  BY <1>1, <1>2

\* A message that takes the place of another on a link.
LEMMA LinkStepOK ==
  ASSUME LinkOK, NEW l \in Edges, NEW m \in Message, link' = [link EXCEPT ![l] = m],
         downloaded' = downloaded, True(l[1], m)
  PROVE  LinkOK'
<1>1. link' \in [Edges -> Message]
  BY DEF LinkOK
<1>2. \A k \in Edges : link'[k] = IF k = l THEN m ELSE link[k]
  BY DEF LinkOK
<1> QED
  BY <1>1, <1>2 DEF LinkOK, True

\* The control's next version is not complete.
LEMMA PublishOK ==
  ASSUME GossipInv, PublishContent
  PROVE  GossipInv'
<1> DEFINE v == mirrorTS[Origin] + 1
<1>1. /\ Origin \in Nodes /\ v \in Stamps /\ content[Origin] \in Claim
      /\ content[Origin].ts <= mirrorTS[Origin] /\ mirrorTS[Origin] \in Stamps
      /\ stateFile[Origin] \in Stamps /\ stateFile[Origin] <= mirrorTS[Origin]
      /\ True(Origin, content[Origin])
  BY GossipAssumption DEF PublishContent, GossipInv, NodesOK, Stamps
<1>2. /\ content' = [content EXCEPT ![Origin] = Content(content[Origin], v)]
      /\ mirrorTS' = [mirrorTS EXCEPT ![Origin] = v]
      /\ stateFile' = [stateFile EXCEPT ![Origin] = stateFile[Origin]]
      /\ downloaded' = downloaded /\ index' = index /\ link' = link
  BY DEF PublishContent, hist, GossipInv, NodesOK
<1> HIDE DEF v
<1>3. Content(content[Origin], v) \in Claim /\ Content(content[Origin], v).ts <= v
      /\ stateFile[Origin] <= v
  <2>1. content[Origin].ts <= v /\ stateFile[Origin] <= v
    BY <1>1 DEF v, Stamps, Claim
  <2>2. Content(content[Origin], v) \in Claim
        /\ Content(content[Origin], v).ts \in {v, content[Origin].ts}
    BY <1>1, ContentOK, Zenon
  <2>3. v <= v
    BY <1>1 DEF Stamps
  <2> QED
    BY <2>1, <2>2, <2>3
<1>4. Content(content[Origin], v).complete => Content(content[Origin], v).ts \in downloaded'[Origin]
  BY <1>1, <1>2, ContentOK, Zenon DEF True
<1>5. NodesOK'
  BY <1>1, <1>2, <1>3, <1>4, NodeStepOK, Zenon DEF GossipInv, NodesOK
<1> QED
  BY <1>2, <1>5, ClaimsStay DEF GossipInv

\* gossipContentHave sends the node's own record.
LEMMA HaveSentOK ==
  ASSUME GossipInv, NEW n \in Nodes, gossipContentHave(n)
  PROVE  GossipInv'
<1> DEFINE m == [type |-> "have", ts |-> content[n].ts, complete |-> content[n].complete]
<1>1. content[n] \in Claim /\ True(n, content[n])
  BY DEF GossipInv, NodesOK
<1>2. m \in Message /\ True(n, m)
  BY <1>1 DEF Claim, Message, True
<1>3. /\ link' = [l \in Edges |-> IF l[1] = n /\ link[l] = Nothing THEN m ELSE link[l]]
      /\ UNCHANGED <<content, mirrorTS, stateFile, index, downloaded>>
  BY DEF gossipContentHave, hist
<1> HIDE DEF m
<1>4. link' \in [Edges -> Message]
  BY <1>2, <1>3 DEF GossipInv, LinkOK
<1>5. \A l \in Edges : True(l[1], link[l])'
  BY <1>2, <1>3 DEF GossipInv, LinkOK, True
<1>6. NodesOK' /\ IndexOK'
  BY <1>3 DEF GossipInv, NodesOK, IndexOK, True
<1> QED
  BY <1>4, <1>5, <1>6 DEF GossipInv, LinkOK

\* record writes into the index what was announced.
LEMMA HaveOK ==
  ASSUME GossipInv, NEW l \in Edges, handleContentHave(l[2], l[1])
  PROVE  GossipInv'
<1> DEFINE m == link[l]
           p == l[1]
           n == l[2]
           c == [ts |-> m.ts, complete |-> m.complete]
           a == IF m.ts > content[n].ts THEN [Nothing EXCEPT !.type = "want"] ELSE Nothing
<1>1. m \in Message /\ True(p, m) /\ p \in Nodes /\ n \in Nodes /\ l = <<p, n>>
  BY EdgesOK DEF GossipInv, LinkOK
<1>2. /\ index' = [index EXCEPT ![n][p] = c] /\ link' = [link EXCEPT ![l] = a]
      /\ UNCHANGED <<content, mirrorTS, stateFile, downloaded>>
  BY <1>1, Zenon DEF handleContentHave, Record, hist
<1>3. a \in Message /\ True(p, a)
  <2>1. a \in {Nothing, [Nothing EXCEPT !.type = "want"]}
    OBVIOUS
  <2>2. 0 \in Stamps
    BY GossipAssumption DEF Stamps
  <2>3. Nothing \in Message /\ ~Nothing.complete
    BY <2>2 DEF Message, Nothing
  <2>4. [Nothing EXCEPT !.type = "want"] \in Message /\ ~[Nothing EXCEPT !.type = "want"].complete
    BY <2>2, Zenon DEF Message, Nothing
  <2> HIDE DEF a
  <2> QED
    BY <2>1, <2>3, <2>4, Zenon DEF True
<1>4. c \in Claim /\ True(p, c)
  BY <1>1 DEF Message, Claim, True
<1> HIDE DEF m, p, n, c, a
<1>5. IndexOK'
  <2>1. index' \in [Nodes -> [Nodes -> Claim]]
    BY <1>1, <1>2, <1>4 DEF GossipInv, IndexOK
  <2>2. \A x, y \in Nodes : index'[x][y] = IF x = n /\ y = p THEN c ELSE index[x][y]
    BY <1>1, <1>2 DEF GossipInv, IndexOK
  <2>3. \A x, y \in Nodes : True(y, index[x][y])'
    BY <1>2, <1>4, <2>2 DEF GossipInv, IndexOK, True
  <2> QED
    BY <2>1, <2>3 DEF IndexOK
<1>6. LinkOK'
  <2>1. True(l[1], a)
    BY <1>3 DEF p
  <2> QED
    BY <1>2, <1>3, <2>1, LinkStepOK, Zenon DEF GossipInv
<1>7. NodesOK'
  BY <1>2 DEF GossipInv, NodesOK, True
<1> QED
  BY <1>5, <1>6, <1>7 DEF GossipInv

\* A manifest under way claims nothing.
LEMMA WantOK ==
  ASSUME GossipInv, NEW l \in Edges, handleContentWant(l[2], l[1])
  PROVE  GossipInv'
<1> DEFINE a == IF content[l[1]].ts = 0 THEN Nothing
                ELSE [Nothing EXCEPT !.type = "data", !.ts = content[l[1]].ts]
<1>1. l[1] \in Nodes /\ l = <<l[1], l[2]>> /\ content[l[1]].ts \in Stamps
  BY EdgesOK DEF GossipInv, NodesOK, Claim
<1>2. link' = [link EXCEPT ![l] = a] /\ UNCHANGED <<content, mirrorTS, stateFile, index, downloaded>>
  BY <1>1, Zenon DEF handleContentWant, hist
<1>3. a \in Message /\ True(l[1], a)
  BY <1>1, GossipAssumption, Zenon DEF Message, Nothing, Stamps, True
<1> HIDE DEF a
<1>4. LinkOK'
  BY <1>2, <1>3, LinkStepOK, Zenon DEF GossipInv
<1>5. NodesOK' /\ IndexOK'
  BY <1>2 DEF GossipInv, NodesOK, IndexOK, True
<1> QED
  BY <1>4, <1>5 DEF GossipInv

\* Who takes a newer manifest is not complete.
LEMMA DataOK ==
  ASSUME GossipInv, NEW l \in Edges, handleContentData(l[2], l[1])
  PROVE  GossipInv'
<1> DEFINE v == link[l].ts
           n == l[2]
<1>1. v \in Stamps /\ n \in Nodes /\ l = <<l[1], n>> /\ Nothing \in Message /\ True(l[1], Nothing)
  BY EdgesOK, GossipAssumption DEF GossipInv, LinkOK, Message, Nothing, True, Stamps
<1>2. /\ link' = [link EXCEPT ![l] = Nothing] /\ UNCHANGED <<stateFile, index, downloaded>>
      /\ \/ UNCHANGED <<mirrorTS, content>>
         \/ /\ v > mirrorTS[n] /\ mirrorTS' = [mirrorTS EXCEPT ![n] = v]
            /\ content' = [content EXCEPT ![n] = Content(content[n], v)]
  BY <1>1, Zenon DEF handleContentData, Accept, hist
<1> HIDE DEF v, n
<1>3. LinkOK' /\ IndexOK'
  BY <1>1, <1>2, LinkStepOK, ClaimsStay, Zenon DEF GossipInv
<1>4. NodesOK'
  <2>1. CASE UNCHANGED <<mirrorTS, content>>
    BY <1>2, <2>1 DEF GossipInv, NodesOK, True
  <2>2. CASE /\ v > mirrorTS[n] /\ mirrorTS' = [mirrorTS EXCEPT ![n] = v]
             /\ content' = [content EXCEPT ![n] = Content(content[n], v)]
    <3>1. /\ content[n] \in Claim /\ True(n, content[n]) /\ stateFile[n] \in Stamps
          /\ stateFile' = [stateFile EXCEPT ![n] = stateFile[n]]
      BY <1>1, <1>2 DEF GossipInv, NodesOK
    <3>2. content[n].ts <= v /\ stateFile[n] <= v
      BY <1>1, <2>2, GossipAssumption DEF GossipInv, NodesOK, Stamps, Claim
    <3>3. Content(content[n], v) \in Claim /\ Content(content[n], v).ts <= v
      <4>1. Content(content[n], v) \in Claim /\ Content(content[n], v).ts \in {v, content[n].ts}
        BY <1>1, <3>1, ContentOK, Zenon
      <4>2. v <= v
        BY <1>1 DEF Stamps
      <4> QED
        BY <3>2, <4>1, <4>2
    <3>4. Content(content[n], v).complete => Content(content[n], v).ts \in downloaded'[n]
      BY <1>1, <1>2, <3>1, ContentOK DEF True
    <3> QED
      BY <1>1, <1>2, <2>2, <3>1, <3>2, <3>3, <3>4, NodeStepOK, ZenonT(60) DEF GossipInv, NodesOK
  <2> QED
    BY <1>2, <2>1, <2>2
<1> QED
  BY <1>3, <1>4 DEF GossipInv

\* A sync that ends has downloaded what SetContentComplete is told about.
LEMMA SyncEndsOK ==
  ASSUME GossipInv, NEW n \in Nodes, SyncEnds(n)
  PROVE  GossipInv'
<1> DEFINE v == mirrorTS[n]
<1>1. v \in Stamps /\ v \in 1..Latest /\ content[n] \in Claim /\ content[n].ts <= v
      /\ True(n, content[n])
  BY GossipAssumption DEF SyncEnds, GossipInv, NodesOK, Stamps
<1>2. /\ downloaded' = [downloaded EXCEPT ![n] = downloaded[n] \cup {v}]
      /\ content' = [content EXCEPT ![n] = Completed(content[n], v)]
      /\ mirrorTS' = [mirrorTS EXCEPT ![n] = v] /\ stateFile' = [stateFile EXCEPT ![n] = v]
      /\ index' = index /\ link' = link
  BY DEF SyncEnds, GossipInv, NodesOK
<1> HIDE DEF v
<1>3. /\ downloaded' \in [Nodes -> SUBSET (1..Latest)] /\ downloaded'[n] = downloaded[n] \cup {v}
      /\ \A p \in Nodes : downloaded[p] \subseteq downloaded'[p]
  BY <1>1, <1>2 DEF GossipInv, NodesOK
<1>4. /\ Completed(content[n], v) \in Claim /\ Completed(content[n], v).ts <= v
      /\ Completed(content[n], v).complete => Completed(content[n], v).ts \in downloaded'[n]
  BY <1>1, <1>3, ContentOK DEF True
<1>5. v <= v
  BY <1>1 DEF Stamps
<1>6. NodesOK'
  BY <1>1, <1>2, <1>3, <1>4, <1>5, NodeStepOK, Zenon DEF GossipInv
<1> QED
  BY <1>2, <1>3, <1>6, ClaimsStay DEF GossipInv

\* A restart forgets claims and makes none.
LEMMA RestartOK ==
  ASSUME GossipInv, NEW n \in Nodes, RestartNode(n)
  PROVE  GossipInv'
<1> DEFINE c == [ts |-> 0, complete |-> FALSE]
<1>1. c \in Claim /\ c.ts = 0 /\ ~c.complete /\ stateFile[n] \in Stamps /\ 0 <= stateFile[n]
      /\ stateFile[n] <= stateFile[n]
  BY GossipAssumption DEF GossipInv, NodesOK, Claim, Stamps
<1>2. /\ content' = [content EXCEPT ![n] = c] /\ mirrorTS' = [mirrorTS EXCEPT ![n] = stateFile[n]]
      /\ stateFile' = [stateFile EXCEPT ![n] = stateFile[n]]
      /\ index' = [index EXCEPT ![n] = [p \in Nodes |-> c]]
      /\ link' = link /\ downloaded' = downloaded
  BY DEF RestartNode, GossipInv, NodesOK
<1> HIDE DEF c
<1>3. NodesOK'
  BY <1>1, <1>2, NodeStepOK, ZenonT(60) DEF GossipInv, NodesOK
<1>4. IndexOK'
  <2>1. index' \in [Nodes -> [Nodes -> Claim]]
    BY <1>1, <1>2 DEF GossipInv, IndexOK
  <2>2. \A x, y \in Nodes : index'[x][y] = IF x = n THEN c ELSE index[x][y]
    BY <1>2 DEF GossipInv, IndexOK
  <2> QED
    BY <1>1, <1>2, <2>1, <2>2 DEF GossipInv, IndexOK, True
<1> QED
  BY <1>2, <1>3, <1>4, ClaimsStay DEF GossipInv

\* A lost datagram claims nothing.
LEMMA LoseOK ==
  ASSUME GossipInv, NEW l \in Edges, Lose(l)
  PROVE  GossipInv'
<1>1. Nothing \in Message /\ True(l[1], Nothing)
  BY GossipAssumption DEF Message, Nothing, True, Stamps
<1>2. link' = [link EXCEPT ![l] = Nothing]
      /\ UNCHANGED <<content, mirrorTS, stateFile, index, downloaded>>
  BY DEF Lose
<1>3. LinkOK'
  BY <1>1, <1>2, LinkStepOK, ZenonT(60) DEF GossipInv
<1>4. NodesOK' /\ IndexOK'
  BY <1>2 DEF GossipInv, NodesOK, IndexOK, True
<1> QED
  BY <1>3, <1>4 DEF GossipInv

-----------------------------------------------------------------------------
\* Whatever datagrams are lost, overtaken or repeated and whoever restarts, a
\* peer that peersFor returns for a version has downloaded that version, and no
\* node announces what its mirror does not know.
THEOREM IndexCorrect == GSpec => []IndexSound
<1>1. ASSUME GossipInv, [GNext]_gvars
      PROVE  GossipInv'
  <2>1. CASE PublishContent
    BY <1>1, <2>1, PublishOK
  <2>2. ASSUME NEW n \in Nodes, gossipContentHave(n) \/ SyncEnds(n) \/ RestartNode(n)
        PROVE  GossipInv'
    BY <1>1, <2>2, HaveSentOK, SyncEndsOK, RestartOK
  <2>3. ASSUME NEW l \in Edges, Handle(l) \/ Lose(l)
        PROVE  GossipInv'
    BY <1>1, <2>3, HaveOK, WantOK, DataOK, LoseOK DEF Handle
  <2>4. CASE UNCHANGED gvars
    BY <1>1, <2>4 DEF gvars, GossipInv, NodesOK, IndexOK, LinkOK, True
  <2> QED
    BY <1>1, <2>1, <2>2, <2>3, <2>4 DEF GNext
<1>2. GossipInv => IndexSound
  <2> SUFFICES ASSUME GossipInv PROVE IndexSound
    OBVIOUS
  <2>1. \A n \in Nodes : /\ mirrorTS[n] \in 0..Latest /\ content[n].ts \in 0..mirrorTS[n]
                         /\ stateFile[n] \in 0..mirrorTS[n] /\ downloaded[n] \subseteq 1..Latest
    <3> SUFFICES ASSUME NEW n \in Nodes
                 PROVE  /\ mirrorTS[n] \in 0..Latest /\ content[n].ts \in 0..mirrorTS[n]
                        /\ stateFile[n] \in 0..mirrorTS[n] /\ downloaded[n] \subseteq 1..Latest
      BY Zenon
    <3>1. /\ mirrorTS[n] \in 0..Latest /\ stateFile[n] \in 0..Latest /\ content[n] \in Claim
          /\ content[n].ts <= mirrorTS[n] /\ stateFile[n] <= mirrorTS[n]
          /\ downloaded[n] \subseteq 1..Latest
      BY DEF GossipInv, NodesOK, Stamps
    <3>2. content[n].ts \in 0..Latest
      BY <3>1 DEF Claim, Stamps
    <3>3. content[n].ts \in 0..mirrorTS[n] /\ stateFile[n] \in 0..mirrorTS[n]
      BY <3>1, <3>2, GossipAssumption
    <3> QED BY <3>1, <3>3
  <2>2. \A l \in Edges : link[l].type \in {"none", "have", "want", "data"} /\ link[l].ts \in 0..Latest
    BY DEF GossipInv, LinkOK, Message, Stamps
  <2>3. IndexIsEarned
    BY DEF GossipInv, IndexOK, True, IndexIsEarned, peersFor
  <2> QED
    BY <2>1, <2>2, <2>3, Zenon DEF IndexSound, GTypeOK
<1> QED
  BY <1>1, <1>2, GossipInitOK, PTL DEF GSpec
=============================================================================
