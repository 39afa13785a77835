---------------------------- MODULE SocksProofs ----------------------------
(***************************************************************************)
(* Proof that a CONNECT keeps to its route, is answered once and leaves no *)
(* slot taken and no connection open, for any finite set of handlers, any  *)
(* targets and any pool.  What one handler does is seen in HandlerOK, which*)
(* speaks of its own variables only, so that a step of another leaves it;  *)
(* the limiter is the one thing they share, and it follows from comparing  *)
(* whether the stepping handler is tunnelled before and after.             *)
(***************************************************************************)
EXTENDS Socks, FiniteSetTheorems, TLAPS

\* The backends, in the order in which a leaf that names none tries them.
USE SMT, ZenonT(20), Z3T(60), SMTT(60)

\* Up to the relay nothing is open towards the target; the upload goroutine
\* closes that side when it ends.
OpenOK(h) ==
    /\ pc[h] # "relay" => up[h] = "done" /\ down[h] = "done"
    /\ up[h] = "done" => rClosed[h]
    /\ pc[h] = "idle" => cClosed[h]

RouteOK(h) ==
    /\ mode # "bypass" => pc[h] \notin {"check", "expired", "direct"} /\ via[h] # "direct"
    /\ mode = "bypass" /\ pc[h] \in {"acquire", "pick", "dial"} => target[h] \notin LAN
    /\ mode = "bypass" /\ pc[h] = "relay" /\ via[h] # "direct" => target[h] \notin LAN
    /\ pc[h] = "dial" => via[h] # "direct"

ReplyOK(h) ==
    /\ pc[h] \in {"check", "expired", "direct", "acquire", "pick", "dial"} => replies[h] = 0
    /\ pc[h] = "relay" => replies[h] = 1
    /\ pc[h] = "idle" => replies[h] <= 1

HandlerOK(h) == OpenOK(h) /\ RouteOK(h) /\ ReplyOK(h)

SocksInv == TypeOK /\ SlotsExact /\ \A h \in Handlers : HandlerOK(h)

\* A step of h leaves the others where they are.
OthersStay(h) ==
    \A g \in Handlers \ {h} :
        /\ pc'[g] = pc[g] /\ target'[g] = target[g] /\ via'[g] = via[g]
        /\ replies'[g] = replies[g] /\ up'[g] = up[g] /\ down'[g] = down[g]
        /\ cClosed'[g] = cClosed[g] /\ rClosed'[g] = rClosed[g]

\* The limiter is changed by the slot that h takes or gives back.
SlotStep(h) ==
    \/ (Tunnelled(h)' <=> Tunnelled(h)) /\ sem' = sem
    \/ ~Tunnelled(h) /\ Tunnelled(h)' /\ sem' = sem + 1
    \/ Tunnelled(h) /\ ~Tunnelled(h)' /\ sem' = sem - 1

\* What is shown of each step of a handler.
Keeps(h) == TypeOK' /\ mode' = mode /\ HandlerOK(h)' /\ OthersStay(h) /\ SlotStep(h)

-----------------------------------------------------------------------------
\* At the start every handler is idle and the limiter is empty.
LEMMA SocksInitOK == Init => SocksInv
<1> SUFFICES ASSUME Init PROVE SocksInv
  OBVIOUS
<1>1. TypeOK
  <2>1. (CHOOSE t \in Targets : TRUE) \in Targets
    BY TargetAssumption
  <2>2. target \in [Handlers -> Targets]
    BY <2>1 DEF Init
  <2>3. sem \in 0..PerIP /\ failedIPs \in [Targets -> NotRecorded..FailTTL]
    BY SocksLimitAssumption DEF Init, NotRecorded
  <2>4. via \in [Handlers -> Routes] /\ replies \in [Handlers -> 0..2] /\ slots \subseteq Dialers
    BY DEF Init, Routes
  <2>5. /\ bypassFailed \in [Handlers -> BOOLEAN] /\ clientGone \in [Handlers -> BOOLEAN]
        /\ remoteGone \in [Handlers -> BOOLEAN] /\ cClosed \in [Handlers -> BOOLEAN]
        /\ rClosed \in [Handlers -> BOOLEAN] /\ enabled \in BOOLEAN /\ loaded \in BOOLEAN
    BY Zenon DEF Init
  <2>6. /\ mode \in {"pool", "bypass", "dialFn"}
        /\ pc \in [Handlers -> {"idle", "check", "expired", "direct", "acquire", "pick", "dial", "relay"}]
        /\ up \in [Handlers -> {"running", "done"}] /\ down \in [Handlers -> {"running", "done"}]
    BY DEF Init
  <2> QED
    BY <2>2, <2>3, <2>4, <2>5, <2>6 DEF TypeOK
<1>2. {h \in Handlers : Tunnelled(h)} = {}
  BY DEF Init, Tunnelled
<1>3. SlotsExact
  BY <1>2, FS_EmptySet, Zenon DEF Init, SlotsExact
<1>4. \A h \in Handlers : HandlerOK(h)
  BY DEF Init, HandlerOK, OpenOK, RouteOK, ReplyOK
<1> QED
  BY <1>1, <1>3, <1>4 DEF SocksInv

\* Who does not step keeps its part of the invariant, and the limiter still
\* counts the tunnelled handlers.
LEMMA KeepsOK ==
  ASSUME SocksInv, NEW h \in Handlers, Keeps(h)
  PROVE  SocksInv'
<1> DEFINE T == {g \in Handlers : Tunnelled(g)}
<1>1. \A g \in Handlers \ {h} : HandlerOK(g)'
  BY DEF SocksInv, Keeps, OthersStay, HandlerOK, OpenOK, RouteOK, ReplyOK
<1>2. \A g \in Handlers \ {h} : Tunnelled(g)' <=> Tunnelled(g)
  BY DEF Keeps, OthersStay, Tunnelled
<1>3. IsFiniteSet(T)
  BY HandlerAssumption, FS_Subset
<1>4. sem = Cardinality(T) /\ Cardinality(T) \in Nat
  BY <1>3, FS_CardinalityType DEF SocksInv, SlotsExact
<1>5. sem' = Cardinality(T')
  <2>1. CASE (Tunnelled(h)' <=> Tunnelled(h)) /\ sem' = sem
    <3>1. T' = T
      BY <1>2, <2>1
    <3> QED
      BY <1>4, <2>1, <3>1
  <2>2. CASE ~Tunnelled(h) /\ Tunnelled(h)' /\ sem' = sem + 1
    <3>1. T' = T \cup {h} /\ h \notin T
      BY <1>2, <2>2
    <3> HIDE DEF T
    <3>2. Cardinality(T') = Cardinality(T) + 1
      BY <1>3, <3>1, FS_AddElement, Zenon
    <3> QED
      BY <1>4, <2>2, <3>2
  <2>3. CASE Tunnelled(h) /\ ~Tunnelled(h)' /\ sem' = sem - 1
    <3>1. T' = T \ {h} /\ h \in T
      BY <1>2, <2>3
    <3> HIDE DEF T
    <3>2. Cardinality(T') = Cardinality(T) - 1
      BY <1>3, <3>1, FS_RemoveElement, Zenon
    <3> QED
      BY <1>4, <2>3, <3>2
  <2> QED
    BY <2>1, <2>2, <2>3 DEF Keeps, SlotStep
<1> QED
  BY <1>1, <1>5 DEF SocksInv, Keeps, SlotsExact

\* A tunnelled handler has a slot to give back.
LEMMA SlotTaken ==
  ASSUME SocksInv, NEW h \in Handlers, Tunnelled(h)
  PROVE  sem - 1 \in 0..PerIP
<1> DEFINE T == {g \in Handlers : Tunnelled(g)}
<1>1. IsFiniteSet(T) /\ h \in T
  BY HandlerAssumption, FS_Subset
<1>2. sem = Cardinality(T) /\ sem \in 0..PerIP
  BY DEF SocksInv, SlotsExact, TypeOK
<1> HIDE DEF T
<1>3. Cardinality(T) # 0
  BY <1>1, FS_EmptySet
<1> QED
  BY <1>2, <1>3, SocksLimitAssumption

-----------------------------------------------------------------------------
\* handle reads a request, or refuses one.
LEMMA RequestOK ==
  ASSUME SocksInv, NEW h \in Handlers, Accept(h) \/ Refuse(h)
  PROVE  Keeps(h)
<1> USE DEF SocksInv, HandlerOK
<1>1. CASE Accept(h)
  <2>1. TypeOK' /\ mode' = mode
    BY <1>1 DEF Accept, Goto, TypeOK, bypass
  <2>2. HandlerOK(h)'
    BY <1>1 DEF Accept, Goto, TypeOK, OpenOK, RouteOK, ReplyOK, bypass
  <2>3. OthersStay(h) /\ SlotStep(h)
    BY <1>1 DEF Accept, Goto, TypeOK, OthersStay, SlotStep, Tunnelled
  <2> QED
    BY <2>1, <2>2, <2>3 DEF Keeps
<1>2. CASE Refuse(h)
  <2>1. TypeOK' /\ mode' = mode
    BY <1>2 DEF Refuse, TypeOK, bypass, conns
  <2>2. HandlerOK(h)'
    BY <1>2 DEF Refuse, TypeOK, OpenOK, RouteOK, ReplyOK, conns
  <2>3. OthersStay(h) /\ SlotStep(h)
    BY <1>2 DEF Refuse, TypeOK, OthersStay, SlotStep, Tunnelled, conns
  <2> QED
    BY <2>1, <2>2, <2>3 DEF Keeps
<1> QED
  BY <1>1, <1>2

\* ShouldBypass sends no LAN target to the tunnel, whatever it reads.
LEMMA DecisionOK ==
  ASSUME SocksInv, NEW h \in Handlers, ShouldBypass(h) \/ DeleteExpired(h)
  PROVE  Keeps(h)
<1> USE DEF SocksInv, HandlerOK
<1>1. /\ pc[h] \in {"check", "expired"}
      /\ \E l \in {"direct", "acquire", "expired"} :
            /\ pc' = [pc EXCEPT ![h] = l]
            /\ l = "acquire" => target[h] \notin LAN
      /\ UNCHANGED <<mode, target, bypassFailed, via, replies, conns, sem, slots, enabled, loaded>>
  BY DEF ShouldBypass, DeleteExpired, Decide, Goto, bypass
<1>2. failedIPs' \in [Targets -> NotRecorded..FailTTL]
  <2>1. NotRecorded \in NotRecorded..FailTTL
    BY SocksLimitAssumption DEF NotRecorded
  <2> QED
    BY <2>1 DEF ShouldBypass, DeleteExpired, bypass, TypeOK
<1>3. PICK l \in {"direct", "acquire", "expired"} :
        pc' = [pc EXCEPT ![h] = l] /\ (l = "acquire" => target[h] \notin LAN)
  BY <1>1, Zenon
<1>4. TypeOK' /\ mode' = mode
  BY <1>1, <1>2, <1>3 DEF TypeOK, conns
<1>5. HandlerOK(h)'
  BY <1>1, <1>3 DEF TypeOK, OpenOK, RouteOK, ReplyOK, conns
<1>6. OthersStay(h) /\ SlotStep(h)
  BY <1>1, <1>3 DEF TypeOK, OthersStay, SlotStep, Tunnelled, conns
<1> QED
  BY <1>4, <1>5, <1>6 DEF Keeps

\* The direct dial: a LAN target that cannot be reached is given up.
LEMMA DirectOK ==
  ASSUME SocksInv, NEW h \in Handlers, DirectConnected(h) \/ DirectFailed(h)
  PROVE  Keeps(h)
<1> USE DEF SocksInv, HandlerOK
<1>0. pc[h] = "direct" /\ replies[h] = 0 /\ mode = "bypass"
  BY DEF DirectConnected, DirectFailed, ReplyOK, RouteOK
<1>1. CASE DirectConnected(h)
  <2>1. TypeOK' /\ mode' = mode
    BY <1>0, <1>1 DEF DirectConnected, StartRelay, Reply, Goto, TypeOK, Routes, bypass
  <2>2. HandlerOK(h)'
    BY <1>0, <1>1 DEF DirectConnected, StartRelay, Reply, Goto, TypeOK, OpenOK, RouteOK, ReplyOK
  <2>3. OthersStay(h) /\ SlotStep(h)
    BY <1>0, <1>1 DEF DirectConnected, StartRelay, Reply, Goto, TypeOK, OthersStay, SlotStep,
       Tunnelled
  <2> QED
    BY <2>1, <2>2, <2>3 DEF Keeps
<1>2. CASE DirectFailed(h) /\ MustBeDirect(target[h])
  <2>0. /\ pc' = [pc EXCEPT ![h] = "idle"] /\ via' = [via EXCEPT ![h] = "none"]
        /\ cClosed' = [cClosed EXCEPT ![h] = TRUE] /\ replies' = [replies EXCEPT ![h] = 1]
        /\ UNCHANGED <<mode, target, bypassFailed, up, down, clientGone, remoteGone, rClosed, sem,
                       enabled, loaded, failedIPs, slots>>
    BY <1>0, <1>2 DEF DirectFailed, FallBack, Finish, Reply, Goto, TypeOK, bypass
  <2>1. TypeOK' /\ mode' = mode
    BY <2>0 DEF TypeOK, Routes
  <2>2. HandlerOK(h)'
    BY <1>0, <1>2 DEF DirectFailed, Finish, Reply, Goto, TypeOK, OpenOK, RouteOK, ReplyOK
  <2>3. OthersStay(h) /\ SlotStep(h)
    BY <1>0, <1>2 DEF DirectFailed, Finish, Reply, Goto, TypeOK, OthersStay, SlotStep, Tunnelled
  <2> QED
    BY <2>1, <2>2, <2>3 DEF Keeps
<1>3. CASE DirectFailed(h) /\ ~MustBeDirect(target[h])
  <2>1. TypeOK' /\ mode' = mode
    BY <1>0, <1>3, Zenon DEF DirectFailed, FallBack, Goto, TypeOK, bypass
  <2>2. HandlerOK(h)'
    BY <1>0, <1>3 DEF DirectFailed, FallBack, MustBeDirect, Goto, TypeOK, OpenOK, RouteOK, ReplyOK
  <2>3. OthersStay(h) /\ SlotStep(h)
    BY <1>0, <1>3 DEF DirectFailed, FallBack, Goto, TypeOK, OthersStay, SlotStep, Tunnelled
  <2> QED
    BY <2>1, <2>2, <2>3 DEF Keeps
<1> QED
  BY <1>1, <1>2, <1>3

\* A slot is taken while one is left, and a dialer is picked from the pool.
LEMMA SlotOK ==
  ASSUME SocksInv, NEW h \in Handlers, acquire(h) \/ Pick(h)
  PROVE  Keeps(h)
<1> USE DEF SocksInv, HandlerOK
<1>1. CASE acquire(h)
  <2>1. sem + 1 \in 0..PerIP
    BY <1>1, SocksLimitAssumption DEF acquire, SlotLeft, TypeOK
  <2>2. TypeOK' /\ mode' = mode
    BY <1>1, <2>1 DEF acquire, Goto, TypeOK, Routes, bypass, conns
  <2>3. HandlerOK(h)'
    BY <1>1 DEF acquire, Goto, TypeOK, OpenOK, RouteOK, ReplyOK, conns
  <2>4. OthersStay(h) /\ SlotStep(h)
    BY <1>1 DEF acquire, Goto, TypeOK, OthersStay, SlotStep, Tunnelled, conns
  <2> QED
    BY <2>2, <2>3, <2>4 DEF Keeps
<1>2. CASE Pick(h)
  <2>1. PICK d \in slots : via' = [via EXCEPT ![h] = d]
    BY <1>2, Zenon DEF Pick
  <2>2. d \in Routes /\ d # "direct"
    BY <2>1, RouteAssumption DEF TypeOK, Routes
  <2>3. TypeOK' /\ mode' = mode
    BY <1>2, <2>1, <2>2 DEF Pick, Goto, TypeOK, bypass, conns
  <2>4. HandlerOK(h)'
    BY <1>2, <2>1, <2>2 DEF Pick, Goto, TypeOK, OpenOK, RouteOK, ReplyOK, conns
  <2>5. OthersStay(h) /\ SlotStep(h)
    BY <1>2, <2>1, <2>2 DEF Pick, Goto, TypeOK, OthersStay, SlotStep, Tunnelled, conns
  <2> QED
    BY <2>3, <2>4, <2>5 DEF Keeps
<1> QED
  BY <1>1, <1>2

\* A handler that gives up gives its slot back; one that is connected keeps it.
LEMMA DialOutcomeOK ==
  ASSUME SocksInv, NEW h \in Handlers, PickNil(h) \/ DialOk(h) \/ DialFailed(h)
  PROVE  Keeps(h)
<1> USE DEF SocksInv, HandlerOK
<1>1. Tunnelled(h) /\ pc[h] \in {"pick", "dial"} /\ replies[h] = 0
  BY DEF PickNil, DialOk, DialFailed, Tunnelled, ReplyOK
<1>2. sem - 1 \in 0..PerIP
  BY <1>1, SlotTaken
<1>3. failedIPs' \in [Targets -> NotRecorded..FailTTL] /\ enabled' = enabled /\ loaded' = loaded
  <2>1. FailTTL \in NotRecorded..FailTTL
    BY SocksLimitAssumption DEF NotRecorded
  <2> QED
    BY <2>1 DEF PickNil, DialOk, DialFailed, RecordBypassFailure, bypass, TypeOK
<1>4. CASE PickNil(h) \/ DialFailed(h)
  <2>1. /\ pc' = [pc EXCEPT ![h] = "idle"] /\ via' = [via EXCEPT ![h] = "none"]
        /\ cClosed' = [cClosed EXCEPT ![h] = TRUE] /\ Reply(h) /\ sem' = sem - 1
        /\ UNCHANGED <<mode, target, bypassFailed, up, down, clientGone, remoteGone, rClosed, slots>>
    BY <1>4 DEF PickNil, DialFailed, Finish, Goto, release
  <2>2. TypeOK' /\ mode' = mode
    BY <1>1, <1>2, <1>3, <2>1 DEF Reply, TypeOK, Routes
  <2>3. HandlerOK(h)'
    BY <1>1, <2>1 DEF Reply, TypeOK, OpenOK, RouteOK, ReplyOK
  <2>4. OthersStay(h) /\ SlotStep(h)
    BY <1>1, <2>1 DEF Reply, TypeOK, OthersStay, SlotStep, Tunnelled
  <2> QED
    BY <2>2, <2>3, <2>4 DEF Keeps
<1>5. CASE DialOk(h)
  <2>1. TypeOK' /\ mode' = mode
    BY <1>1, <1>3, <1>5 DEF DialOk, StartRelay, Reply, Goto, TypeOK
  <2>2. HandlerOK(h)'
    BY <1>1, <1>5 DEF DialOk, StartRelay, Reply, Goto, TypeOK, OpenOK, RouteOK, ReplyOK
  <2>3. OthersStay(h) /\ SlotStep(h)
    BY <1>1, <1>5 DEF DialOk, StartRelay, Reply, Goto, TypeOK, OthersStay, SlotStep, Tunnelled,
       RouteOK
  <2> QED
    BY <2>1, <2>2, <2>3 DEF Keeps
<1> QED
  BY <1>4, <1>5

\* The goroutines of relayConns close the other's source, and relayConns
\* returns only when both are done.
LEMMA RelayOK ==
  ASSUME SocksInv, NEW h \in Handlers, Copies(h) \/ CopyWriteFails(h) \/ EndGone(h)
  PROVE  Keeps(h)
<1> USE DEF SocksInv, HandlerOK
<1>1. CASE EndUp(h)
  <2>1. TypeOK' /\ mode' = mode
    BY <1>1 DEF EndUp, CloseRemote, TypeOK, request, bypass
  <2>2. HandlerOK(h)'
    BY <1>1 DEF EndUp, CloseRemote, TypeOK, OpenOK, RouteOK, ReplyOK, request
  <2>3. OthersStay(h) /\ SlotStep(h)
    BY <1>1 DEF EndUp, CloseRemote, TypeOK, OthersStay, SlotStep, Tunnelled, request
  <2> QED
    BY <2>1, <2>2, <2>3 DEF Keeps
<1>2. CASE EndDown(h)
  <2>1. TypeOK' /\ mode' = mode
    BY <1>2 DEF EndDown, TypeOK, request, bypass
  <2>2. HandlerOK(h)'
    BY <1>2 DEF EndDown, TypeOK, OpenOK, RouteOK, ReplyOK, request
  <2>3. OthersStay(h) /\ SlotStep(h)
    BY <1>2 DEF EndDown, TypeOK, OthersStay, SlotStep, Tunnelled, request
  <2> QED
    BY <2>1, <2>2, <2>3 DEF Keeps
<1>3. CASE RelayReturns(h)
  <2>1. sem' \in 0..PerIP
    <3>1. CASE via[h] = "direct"
      BY <1>3, <3>1 DEF RelayReturns, TypeOK
    <3>2. CASE via[h] # "direct"
      <4>1. Tunnelled(h)
        BY <1>3, <3>2 DEF RelayReturns, Tunnelled
      <4> QED
        BY <1>3, <3>2, <4>1, SlotTaken DEF RelayReturns, release
    <3> QED
      BY <3>1, <3>2
  <2>2. TypeOK' /\ mode' = mode
    BY <1>3, <2>1 DEF RelayReturns, Finish, Goto, TypeOK, Routes, bypass
  <2>3. HandlerOK(h)'
    BY <1>3 DEF RelayReturns, Finish, Goto, TypeOK, OpenOK, RouteOK, ReplyOK
  <2>4. OthersStay(h) /\ SlotStep(h)
    BY <1>3 DEF RelayReturns, Finish, Goto, release, TypeOK, OthersStay, SlotStep, Tunnelled
  <2> QED
    BY <2>2, <2>3, <2>4 DEF Keeps
<1>4. CASE EndGone(h)
  <2>1. TypeOK' /\ mode' = mode
    BY <1>4, Zenon DEF EndGone, TypeOK, request, bypass
  <2>2. HandlerOK(h)'
    BY <1>4 DEF EndGone, OpenOK, RouteOK, ReplyOK, request
  <2>3. OthersStay(h) /\ SlotStep(h)
    BY <1>4 DEF EndGone, OthersStay, SlotStep, Tunnelled, request
  <2> QED
    BY <2>1, <2>2, <2>3 DEF Keeps
<1> QED
  BY <1>1, <1>2, <1>3, <1>4 DEF Copies, UpEnds, DownEnds, CopyWriteFails

\* The bypass manager, the clock and the pool touch no handler.
LEMMA OutsideOK ==
  ASSUME SocksInv,
         SetEnabled \/ refresh \/ Tick \/ Swap \/ (\E d \in Dialers : Add(d) \/ Evict(d))
  PROVE  SocksInv'
<1>1. UNCHANGED <<mode, request, conns, sem>>
  BY DEF SetEnabled, refresh, Tick, Swap, Add, Evict
<1>2. failedIPs' \in [Targets -> NotRecorded..FailTTL]
  <2>1. CASE Tick
    <3>1. \A t \in Targets : failedIPs[t] \in NotRecorded..FailTTL
      BY DEF SocksInv, TypeOK
    <3>2. \A n \in NotRecorded..FailTTL : (IF n > 0 THEN n - 1 ELSE n) \in NotRecorded..FailTTL
      BY SocksLimitAssumption DEF NotRecorded
    <3> QED
      BY <2>1, <3>1, <3>2 DEF Tick
  <2>2. CASE ~Tick
    BY <2>2 DEF SetEnabled, refresh, Swap, Add, Evict, bypass, SocksInv, TypeOK
  <2> QED
    BY <2>1, <2>2
<1>3. slots' \subseteq Dialers /\ enabled' \in BOOLEAN /\ loaded' \in BOOLEAN
  BY Zenon DEF SetEnabled, refresh, Tick, Swap, Add, Evict, bypass, SocksInv, TypeOK
<1>4. TypeOK'
  BY <1>1, <1>2, <1>3 DEF request, conns, SocksInv, TypeOK
<1>5. SlotsExact'
  BY <1>1 DEF request, SocksInv, SlotsExact, Tunnelled
<1>6. \A h \in Handlers : HandlerOK(h)'
  BY <1>1 DEF request, conns, SocksInv, HandlerOK, OpenOK, RouteOK, ReplyOK
<1> QED
  BY <1>4, <1>5, <1>6 DEF SocksInv

\* The invariant holds throughout.
LEMMA SocksInvariant == Spec => []SocksInv
<1>1. ASSUME SocksInv, [Next]_vars
      PROVE  SocksInv'
  <2>1. ASSUME NEW h \in Handlers, Handle(h)
        PROVE  SocksInv'
    <3>1. Keeps(h)
      BY <1>1, <2>1, RequestOK, DecisionOK, DirectOK, SlotOK, DialOutcomeOK, RelayOK DEF Handle
    <3> QED
      BY <1>1, <3>1, KeepsOK
  <2>2. CASE UNCHANGED vars
    <3>1. TypeOK'
      BY <1>1, <2>2 DEF vars, request, conns, bypass, SocksInv, TypeOK
    <3>2. SlotsExact'
      BY <1>1, <2>2 DEF vars, request, SocksInv, SlotsExact, Tunnelled
    <3>3. \A h \in Handlers : HandlerOK(h)'
      BY <1>1, <2>2 DEF vars, request, conns, SocksInv, HandlerOK, OpenOK, RouteOK, ReplyOK
    <3> QED
      BY <3>1, <3>2, <3>3 DEF SocksInv
  <2> QED
    BY <1>1, <2>1, <2>2, OutsideOK DEF Next
<1> QED
  BY <1>1, SocksInitOK, PTL DEF Spec

-----------------------------------------------------------------------------
\* For any handlers, targets, pool and limit: the limiter counts exactly the
\* tunnelled connections and never passes socks5PerIPLimit, and a handler that
\* is done has both copies ended and both sides closed.
THEOREM ResourcesCorrect == Spec => []ResourcesSound
<1>1. SocksInv => ResourcesSound
  BY DEF SocksInv, HandlerOK, OpenOK, ResourcesSound, NothingLeftOpen
<1> QED
  BY <1>1, SocksInvariant, PTL

\* handleConnect answers every CONNECT exactly once, also when the direct dial
\* fails and the tunnel is tried.
THEOREM AnswersCorrect == Spec => []AnsweredOnce
<1>1. SocksInv => AnsweredOnce
  BY DEF SocksInv, HandlerOK, ReplyOK, AnsweredOnce
<1> QED
  BY <1>1, SocksInvariant, PTL

\* No LAN target is ever tunnelled, and a server with a dial function never
\* goes direct, whatever is switched between the decision and the dial.
THEOREM RoutesCorrect == Spec => []RouteRespected
<1>1. SocksInv => RouteRespected
  BY DEF SocksInv, HandlerOK, RouteOK, RouteRespected, Tunnelled
<1> QED
  BY <1>1, SocksInvariant, PTL
=============================================================================
