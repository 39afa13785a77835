---------------------------- MODULE RelayProofs ----------------------------
(***************************************************************************)
(* The two request-and-reply transports: calls over one UDP relay, and a   *)
(* connection that polls its exit, whose replies carry bytes back.         *)
(***************************************************************************)
EXTENDS UDPRelay, TunnelConnPolling, FiniteSetTheorems, TLAPS

\* The backends, in the order in which a leaf that names none tries them.
USE SMT, ZenonT(20), Z3T(60), SMTT(60)

-----------------------------------------------------------------------------
(* Calls over one relay do not disturb one another, for any finite set of  *)
(* callers, any IDs and any limits.  The invariant adds to CallsSound that *)
(* two calls in progress have different IDs, that a call about to write    *)
(* has an attempt left, and that the keepalive loop runs only while a miss *)
(* may still be added.                                                     *)

Busy == {c \in Callers : pc[c] # "idle"}

CallTypes ==
    /\ pc \in [Callers -> {"idle", "write", "wait"}]
    /\ id \in [Callers -> IDs \cup {NoID}] /\ got \in [Callers -> IDs \cup {NoID}]
    /\ attempt \in [Callers -> 0..Retries]
    /\ pending \subseteq IDs

\* Each call in progress has an ID of its own, in pending, and pending holds
\* no other; who is idle has none.
OwnID ==
    /\ \A c \in Callers : pc[c] = "idle" => id[c] = NoID /\ attempt[c] = 0
    /\ \A c \in Busy : id[c] \in pending
    /\ \A i \in pending : \E c \in Busy : id[c] = i
    /\ \A c, d \in Busy : id[c] = id[d] => c = d

AttemptLeft == \A c \in Callers : pc[c] = "write" => attempt[c] < Retries

SameNumber == IsFiniteSet(pending) /\ Cardinality(pending) = Cardinality(Busy)

CallInv == CallTypes /\ OwnID /\ AttemptLeft /\ AnswersOwnRequest /\ SameNumber

HealthInv ==
    /\ failCount \in 0..FailThresh /\ missedPongs \in 0..KeepMiss
    /\ failed \in BOOLEAN /\ keepalive \in {"ticker", "count", "ended"}
    /\ pong \in BOOLEAN
    /\ keepalive # "ended" => missedPongs < KeepMiss

PeerInv ==
    /\ net \subseteq Frame
    /\ peer \in {"up", "silent", "refusing"} /\ sock \in {"open", "stopping", "closed"}

RelayInv == CallInv /\ HealthInv /\ PeerInv

-----------------------------------------------------------------------------
\* There are finitely many calls in progress.
LEMMA BusyFinite == IsFiniteSet(Busy)
<1>1. Busy \subseteq Callers
  BY DEF Busy
<1> QED
  BY <1>1, CallerAssumption, FS_Subset

\* The calls are empty and nothing is pending at the start.
LEMMA RelayInitOK == Init => RelayInv
<1> SUFFICES ASSUME Init PROVE RelayInv
  OBVIOUS
<1>1. Busy = {} /\ pending = {}
  BY DEF Init, Busy
<1>2. SameNumber
  BY <1>1, FS_EmptySet DEF SameNumber
<1>3. CallTypes /\ OwnID /\ AttemptLeft /\ AnswersOwnRequest
  BY <1>1, LimitAssumption DEF Init, CallTypes, OwnID, AttemptLeft, AnswersOwnRequest
<1>4. /\ failCount \in 0..FailThresh /\ missedPongs \in 0..KeepMiss
      /\ missedPongs < KeepMiss
  BY LimitAssumption DEF Init
<1>5. HealthInv /\ PeerInv
  BY <1>4, Zenon DEF Init, HealthInv, PeerInv
<1> QED
  BY <1>2, <1>3, <1>5 DEF RelayInv, CallInv

\* RoundTrip registers a call under an ID no other call has.
LEMMA RoundTripOK ==
  ASSUME CallInv, NEW c \in Callers, RoundTrip(c)
  PROVE  CallInv'
<1>1. PICK i \in IDs \ (pending \cup {f.id : f \in net}) :
        id' = [id EXCEPT ![c] = i] /\ pending' = pending \cup {i}
  BY Zenon DEF RoundTrip
<1>2. /\ pc[c] = "idle" /\ pc' = [pc EXCEPT ![c] = "write"]
      /\ attempt' = attempt /\ got' = got /\ i \in IDs /\ i \notin pending
  BY <1>1 DEF RoundTrip
<1>3. Busy' = Busy \cup {c} /\ c \notin Busy
  BY <1>2 DEF CallInv, CallTypes, Busy
<1>4. CallTypes' /\ AttemptLeft'
  BY <1>1, <1>2, LimitAssumption DEF CallInv, CallTypes, AttemptLeft, OwnID
<1>5. OwnID'
  BY <1>1, <1>2, <1>3 DEF CallInv, CallTypes, OwnID, Busy
<1>6. AnswersOwnRequest'
  BY <1>1, <1>2 DEF CallInv, CallTypes, OwnID, AnswersOwnRequest
<1>7. SameNumber'
  <2>1. IsFiniteSet(pending) /\ Cardinality(pending) = Cardinality(Busy)
    BY DEF CallInv, SameNumber
  <2>2. IsFiniteSet(pending') /\ Cardinality(pending') = Cardinality(pending) + 1
    BY <1>1, <1>2, <2>1, FS_AddElement
  <2>3. Cardinality(Busy') = Cardinality(Busy) + 1
    BY <1>3, BusyFinite, FS_AddElement
  <2> QED
    BY <2>1, <2>2, <2>3 DEF SameNumber
<1> QED
  BY <1>4, <1>5, <1>6, <1>7 DEF CallInv

\* The deferred delete of a call takes away its own entry and no other.
LEMMA ReturnOK ==
  ASSUME CallInv, NEW c \in Callers, pc[c] # "idle", Return(c)
  PROVE  CallInv'
<1>1. /\ pc' = [pc EXCEPT ![c] = "idle"] /\ id' = [id EXCEPT ![c] = NoID]
      /\ attempt' = [attempt EXCEPT ![c] = 0] /\ got' = [got EXCEPT ![c] = NoID]
      /\ pending' = pending \ {id[c]}
  BY DEF Return, Unregister
<1>2. c \in Busy /\ Busy' = Busy \ {c} /\ id[c] \in pending
  BY <1>1 DEF CallInv, CallTypes, OwnID, Busy
<1>3. CallTypes' /\ AttemptLeft' /\ AnswersOwnRequest'
  BY <1>1, LimitAssumption DEF CallInv, CallTypes, AttemptLeft, AnswersOwnRequest
<1>4. OwnID'
  <2>1. \A d \in Callers : pc'[d] = "idle" => id'[d] = NoID /\ attempt'[d] = 0
    BY <1>1 DEF CallInv, CallTypes, OwnID
  <2>2. \A d \in Busy' : d \in Busy /\ d # c /\ id'[d] = id[d]
    BY <1>1, <1>2 DEF CallInv, CallTypes, Busy
  <2>3. \A d \in Busy' : id'[d] \in pending'
    BY <1>1, <1>2, <2>2 DEF CallInv, OwnID
  <2>4. \A i \in pending' : \E d \in Busy' : id'[d] = i
    BY <1>1, <1>2, <2>2 DEF CallInv, OwnID
  <2>5. \A d, e \in Busy' : id'[d] = id'[e] => d = e
    BY <2>2 DEF CallInv, OwnID
  <2> QED
    BY <2>1, <2>3, <2>4, <2>5 DEF OwnID
<1>5. SameNumber'
  <2>1. IsFiniteSet(pending) /\ Cardinality(pending) = Cardinality(Busy)
    BY DEF CallInv, SameNumber
  <2>2. IsFiniteSet(pending') /\ Cardinality(pending') = Cardinality(pending) - 1
    BY <1>1, <1>2, <2>1, FS_RemoveElement, Zenon
  <2>3. Cardinality(Busy') = Cardinality(Busy) - 1
    BY <1>2, BusyFinite, FS_RemoveElement
  <2> QED
    BY <2>1, <2>2, <2>3 DEF SameNumber
<1> QED
  BY <1>3, <1>4, <1>5 DEF CallInv

\* Moving between writing and waiting changes neither IDs nor pending.
LEMMA SameCallsOK ==
  ASSUME CallInv, Busy' = Busy, id' = id, got' = got, pending' = pending,
         CallTypes', AttemptLeft',
         \A c \in Callers : pc'[c] = "idle" => pc[c] = "idle" /\ attempt'[c] = attempt[c]
  PROVE  CallInv'
<1>1. OwnID'
  BY DEF CallInv, OwnID
<1>2. AnswersOwnRequest' /\ SameNumber'
  BY DEF CallInv, AnswersOwnRequest, SameNumber
<1> QED
  BY <1>1, <1>2 DEF CallInv

\* A send uses up one attempt, and Timeout goes back to writing only while one
\* is left; otherwise it returns.
LEMMA CallerOK ==
  ASSUME CallInv, NEW c \in Callers, Caller(c)
  PROVE  CallInv'
<1>1. CASE WriteFrame(c)
  <2>1. /\ pc[c] = "write" /\ pc' = [pc EXCEPT ![c] = "wait"]
        /\ attempt' = [attempt EXCEPT ![c] = @ + 1]
        /\ id' = id /\ got' = got /\ pending' = pending
    BY <1>1 DEF WriteFrame
  <2>2. attempt[c] \in 0..Retries /\ attempt[c] < Retries
    BY <2>1 DEF CallInv, CallTypes, AttemptLeft
  <2>3. attempt[c] + 1 \in 0..Retries
    BY <2>2, LimitAssumption
  <2>4. CallTypes' /\ AttemptLeft' /\ Busy' = Busy
    BY <2>1, <2>3 DEF CallInv, CallTypes, AttemptLeft, Busy
  <2>5. \A d \in Callers : pc'[d] = "idle" => pc[d] = "idle" /\ attempt'[d] = attempt[d]
    BY <2>1 DEF CallInv, CallTypes
  <2> QED
    BY <2>1, <2>4, <2>5, SameCallsOK
<1>2. CASE WriteError(c)
  BY <1>2, ReturnOK DEF WriteError
<1>3. CASE Receive(c)
  BY <1>3, ReturnOK DEF Receive
<1>4. CASE Timeout(c)
  <2>1. CASE Return(c)
    BY <1>4, <2>1, ReturnOK DEF Timeout
  <2>2. CASE AttemptsLeft(c) /\ pc' = [pc EXCEPT ![c] = "write"]
             /\ UNCHANGED <<id, attempt, got, pending, failCount, failed>>
    <3>1. CallTypes' /\ AttemptLeft' /\ Busy' = Busy
      BY <1>4, <2>2 DEF Timeout, CallInv, CallTypes, AttemptLeft, AttemptsLeft, Busy
    <3>2. \A d \in Callers : pc'[d] = "idle" => pc[d] = "idle" /\ attempt'[d] = attempt[d]
      BY <2>2 DEF CallInv, CallTypes
    <3> QED
      BY <2>2, <3>1, <3>2, SameCallsOK
  <2> QED
    BY <1>4, <2>1, <2>2 DEF Timeout
<1>5. CASE Stopped(c)
  BY <1>5, ReturnOK DEF Stopped
<1> QED
  BY <1>1, <1>2, <1>3, <1>4, <1>5 DEF Caller

\* readLoop hands a response only to the call that is registered under its ID.
LEMMA ReadResponseOK ==
  ASSUME CallInv, ReadResponse
  PROVE  CallInv'
<1>1. PICK f \in net, c \in Callers :
        Registered(c, f.id) /\ got' = [got EXCEPT ![c] = f.id]
  BY Zenon DEF ReadResponse
<1>2. /\ id[c] = f.id /\ pc' = pc /\ id' = id /\ attempt' = attempt
      /\ pending' = pending /\ Busy' = Busy
  BY <1>1 DEF ReadResponse, Registered, Busy
<1>3. CallTypes' /\ AnswersOwnRequest'
  BY <1>1, <1>2 DEF CallInv, CallTypes, AnswersOwnRequest
<1>4. OwnID' /\ AttemptLeft' /\ SameNumber'
  BY <1>2 DEF CallInv, OwnID, AttemptLeft, SameNumber
<1> QED
  BY <1>3, <1>4 DEF CallInv

\* What leaves the calls alone keeps their invariant.
LEMMA CallsUnchanged ==
  ASSUME CallInv, UNCHANGED calls
  PROVE  CallInv'
<1>1. Busy' = Busy
  BY DEF calls, Busy
<1> QED
  BY <1>1 DEF calls, CallInv, CallTypes, OwnID, AttemptLeft, AnswersOwnRequest, SameNumber

-----------------------------------------------------------------------------
\* The failure counter saturates at its threshold.
LEMMA recordFailureOK ==
  ASSUME HealthInv, recordFailure
  PROVE  failCount' \in 0..FailThresh /\ failed' \in BOOLEAN
<1>1. failCount' \in 0..FailThresh
  BY LimitAssumption DEF HealthInv, recordFailure
<1>2. failed' \in BOOLEAN
  BY DEF recordFailure
<1> QED
  BY <1>1, <1>2

\* A caller touches the failure counter and nothing else of the health.
LEMMA CallerHealthOK ==
  ASSUME HealthInv, NEW c \in Callers, RoundTrip(c) \/ Caller(c)
  PROVE  HealthInv'
<1>1. UNCHANGED <<missedPongs, keepalive, pong>>
  BY DEF RoundTrip, Caller, WriteFrame, WriteError, Receive, Timeout, Stopped, health
<1>2. failCount' \in 0..FailThresh /\ failed' \in BOOLEAN
  <2>1. CASE recordFailure
    BY <2>1, recordFailureOK
  <2>2. CASE Receive(c)
    BY <2>2, LimitAssumption DEF Receive, HealthInv
  <2>3. CASE UNCHANGED <<failCount, failed>>
    BY <2>3 DEF HealthInv
  <2> QED
    BY <2>1, <2>2, <2>3 DEF RoundTrip, Caller, WriteFrame, WriteError, Timeout, Stopped, health
<1> QED
  BY <1>1, <1>2 DEF HealthInv

\* The keepalive loop ends with the last miss it may count.
LEMMA KeepaliveOK ==
  ASSUME HealthInv, Keepalive
  PROVE  HealthInv'
<1>1. CASE KeepaliveTick
  BY <1>1 DEF KeepaliveTick, HealthInv
<1>2. CASE KeepaliveWriteError
  BY <1>2, recordFailureOK DEF KeepaliveWriteError, HealthInv
<1>3. CASE KeepaliveCount
  <2>1. missedPongs \in 0..KeepMiss /\ missedPongs < KeepMiss
    BY <1>3 DEF KeepaliveCount, HealthInv
  <2>2. missedPongs' = missedPongs + 1 /\ missedPongs' \in 0..KeepMiss
    BY <1>3, <2>1, LimitAssumption DEF KeepaliveCount
  <2>3. CASE missedPongs + 1 >= KeepMiss
    BY <1>3, <2>2, <2>3 DEF KeepaliveCount, TooManyMisses, HealthInv
  <2>4. CASE ~(missedPongs + 1 >= KeepMiss)
    <3>1. missedPongs' < KeepMiss
      BY <2>1, <2>2, <2>4, LimitAssumption
    <3> QED
      BY <1>3, <2>2, <2>4, <3>1 DEF KeepaliveCount, HealthInv
  <2> QED
    BY <2>3, <2>4
<1>4. CASE KeepaliveStops
  BY <1>4 DEF KeepaliveStops, HealthInv
<1> QED
  BY <1>1, <1>2, <1>3, <1>4 DEF Keepalive

-----------------------------------------------------------------------------
\* Every step keeps the invariant.
LEMMA RelayStepOK ==
  ASSUME RelayInv, [Next]_vars
  PROVE  RelayInv'
<1> USE DEF RelayInv
<1>1. CASE ReadResponse
  <2>1. HealthInv' /\ PeerInv'
    BY <1>1 DEF ReadResponse, health, HealthInv, PeerInv
  <2> QED
    BY <1>1, <2>1, ReadResponseOK
<1>2. CASE serveRequest \/ Lose
  <2>1. UNCHANGED <<calls, health, peer, sock>>
    BY <1>2 DEF serveRequest, Lose
  <2>2. net' \subseteq Frame
    <3>1. CASE Lose
      BY <3>1 DEF Lose, PeerInv
    <3>2. CASE serveRequest
      <4>1. PICK f \in net : net' = net \cup {[f EXCEPT !.kind = "resp"]}
        BY <3>2 DEF serveRequest
      <4>2. [f EXCEPT !.kind = "resp"] \in Frame
        BY <4>1 DEF PeerInv, Frame
      <4> QED
        BY <4>1, <4>2 DEF PeerInv
    <3> QED
      BY <1>2, <3>1, <3>2
  <2>3. HealthInv' /\ PeerInv'
    BY <2>1, <2>2 DEF health, HealthInv, PeerInv
  <2> QED
    BY <2>1, <2>3, CallsUnchanged
<1>3. CASE Keepalive
  <2>1. UNCHANGED <<calls, net, peer, sock>>
    BY <1>3 DEF Keepalive, KeepaliveTick, KeepaliveWriteError, KeepaliveCount, KeepaliveStops
  <2>2. PeerInv'
    BY <2>1 DEF PeerInv
  <2> QED
    BY <1>3, <2>1, <2>2, KeepaliveOK, CallsUnchanged
<1>4. CASE ReadPong \/ PeerGone \/ Close
  <2>1. UNCHANGED <<calls, net>>
    BY <1>4 DEF ReadPong, PeerGone, Close
  <2>2. HealthInv'
    <3>1. CASE ReadPong
      <4>1. missedPongs' \in 0..KeepMiss /\ missedPongs' < KeepMiss
        BY <3>1, LimitAssumption DEF ReadPong
      <4> QED
        BY <3>1, <4>1, Zenon DEF ReadPong, HealthInv
    <3>2. CASE PeerGone \/ Close
      BY <3>2 DEF PeerGone, Close, health, HealthInv
    <3> QED
      BY <1>4, <3>1, <3>2
  <2>3. PeerInv'
    BY <1>4, <2>1 DEF ReadPong, PeerGone, Close, PeerInv
  <2> QED
    BY <2>1, <2>2, <2>3, CallsUnchanged
<1>5. ASSUME NEW c \in Callers, RoundTrip(c) \/ Caller(c)
      PROVE  RelayInv'
  <2>1. CallInv'
    BY <1>5, RoundTripOK, CallerOK
  <2>2. HealthInv'
    BY <1>5, CallerHealthOK
  <2>3. PeerInv'
    <3>1. CASE WriteFrame(c)
      <4>1. id[c] \in IDs
        BY <3>1, <1>5 DEF WriteFrame, CallInv, CallTypes, OwnID, Busy
      <4> QED
        BY <3>1, <4>1 DEF WriteFrame, PeerInv, Frame
    <3>2. CASE ~WriteFrame(c)
      BY <1>5, <3>2 DEF RoundTrip, Caller, WriteError, Receive, Timeout, Stopped, PeerInv
    <3> QED
      BY <3>1, <3>2
  <2> QED
    BY <2>1, <2>2, <2>3
<1>6. CASE UNCHANGED vars
  <2>1. UNCHANGED <<calls, net, health, peer, sock>>
    BY <1>6 DEF vars
  <2>2. HealthInv' /\ PeerInv'
    BY <2>1 DEF health, HealthInv, PeerInv
  <2> QED
    BY <2>1, <2>2, CallsUnchanged
<1> QED
  BY <1>1, <1>2, <1>3, <1>4, <1>5, <1>6 DEF Next

\* Calls over one relay do not disturb one another: for any number of callers,
\* any IDs, retries and thresholds, each RoundTrip finds only its own answer,
\* is pending exactly while it runs, and all counters keep their limits.
THEOREM CallsCorrect == Spec => []CallsSound
<1>1. RelayInv => CallsSound
  <2> SUFFICES ASSUME RelayInv PROVE CallsSound
    OBVIOUS
  <2>1. TypeOK
    BY DEF RelayInv, CallInv, CallTypes, HealthInv, PeerInv, TypeOK
  <2>2. pending = {id[c] : c \in Busy}
    BY DEF RelayInv, CallInv, OwnID
  <2>3. PendingExact
    BY <2>2 DEF RelayInv, CallInv, SameNumber, PendingExact, Busy
  <2> QED
    BY <2>1, <2>3 DEF RelayInv, CallInv, CallsSound
<1> QED
  BY <1>1, RelayInitOK, RelayStepOK, PTL DEF Spec

-----------------------------------------------------------------------------
(* Every byte the exit handed out is in exactly one place: a reply to a    *)
(* Write or to a Read under way, the read buffer, the application or lost  *)
(* with a reply that nobody took.  Each step moves a part from one place   *)
(* to another.                                                             *)

\* No byte twice in a buffer.
Once(s) == \A i, j \in 1..Len(s) : s[i] = s[j] => i = j

\* The five places share the bytes 1..h among them.
Shared(W, R, B, V, L, h) ==
    /\ W \cup R \cup B \cup V \cup L = 1..h
    /\ W \cap R = {} /\ W \cap B = {} /\ W \cap V = {} /\ W \cap L = {}
    /\ R \cap B = {} /\ R \cap V = {} /\ R \cap L = {}
    /\ B \cap V = {} /\ B \cap L = {} /\ V \cap L = {}

BufferTypes ==
    /\ wresp \in Seq(Nat) /\ rresp \in Seq(Nat) /\ readBuf \in Seq(Nat) /\ received \in Seq(Nat)
    /\ Once(wresp) /\ Once(rresp) /\ Once(readBuf) /\ Once(received)

\* An answer is there only while its goroutine takes it.
AnswerInv == (wpc # "answered" => wresp = <<>>) /\ (rpc # "answered" => rresp = <<>>)

PollControl ==
    /\ closed \in BOOLEAN
    /\ wpc \in {"idle", "sent", "answered"} /\ rpc \in {"idle", "sent", "answered", "back"}
    /\ writes \in 0..MaxWrites /\ emitted \in 0..MaxBytes /\ handed \in 0..emitted

SharedNow == Shared(Range(wresp), Range(rresp), Range(readBuf), Range(received), lost, handed)

PInv == PollControl /\ BufferTypes /\ AnswerInv /\ SharedNow

\* The empty buffer holds no byte.
LEMMA NoBytes == <<>> \in Seq(Nat) /\ Once(<<>>) /\ Range(<<>>) = {}
  BY DEF Once, Range

\* Buffers that share no byte can be joined.
LEMMA Joined ==
  ASSUME NEW s \in Seq(Nat), NEW t \in Seq(Nat)
  PROVE  /\ s \o t \in Seq(Nat) /\ Range(s \o t) = Range(s) \cup Range(t)
         /\ Once(s) /\ Once(t) /\ Range(s) \cap Range(t) = {} => Once(s \o t)
<1>1. /\ s \o t \in Seq(Nat) /\ Len(s \o t) = Len(s) + Len(t)
      /\ \A i \in 1..Len(s) : (s \o t)[i] = s[i]
      /\ \A i \in 1..Len(t) : (s \o t)[Len(s) + i] = t[i]
  OBVIOUS
<1>2. \A i \in 1..Len(s \o t) : i \in 1..Len(s) \/ (i - Len(s) \in 1..Len(t)
      /\ (s \o t)[i] = t[i - Len(s)])
  BY <1>1
<1>3. Range(s \o t) = Range(s) \cup Range(t)
  <2>1. DOMAIN s = 1..Len(s) /\ DOMAIN t = 1..Len(t) /\ DOMAIN (s \o t) = 1..Len(s \o t)
    BY <1>1
  <2>2. Range(s) \subseteq Range(s \o t)
    BY <1>1, <2>1 DEF Range
  <2>4. Range(t) \subseteq Range(s \o t)
    <3>1. \A i \in 1..Len(t) : Len(s) + i \in 1..Len(s \o t)
      BY <1>1
    <3> QED BY <1>1, <2>1, <3>1, ZenonT(60) DEF Range
  <2>3. Range(s \o t) \subseteq Range(s) \cup Range(t)
    BY <1>1, <1>2, <2>1 DEF Range
  <2> QED BY <2>2, <2>3, <2>4
<1>4. ASSUME Once(s), Once(t), Range(s) \cap Range(t) = {}
      PROVE  Once(s \o t)
  <2>1. \A i \in 1..Len(s), j \in 1..Len(t) : s[i] # t[j]
    <3>1. DOMAIN s = 1..Len(s) /\ DOMAIN t = 1..Len(t)
      OBVIOUS
    <3> QED BY <1>4, <3>1, Zenon DEF Range
  <2> SUFFICES ASSUME NEW i \in 1..Len(s \o t), NEW j \in 1..Len(s \o t), (s \o t)[i] = (s \o t)[j]
               PROVE  i = j
    BY Zenon DEF Once
  <2>2. CASE i \in 1..Len(s) /\ j \in 1..Len(s)
    BY <1>1, <1>4, <2>2 DEF Once
  <2>3. CASE i \in 1..Len(s) /\ j \notin 1..Len(s)
    BY <1>1, <1>2, <2>1, <2>3
  <2>4. CASE i \notin 1..Len(s) /\ j \in 1..Len(s)
    BY <1>1, <1>2, <2>1, <2>4
  <2>5. CASE i \notin 1..Len(s) /\ j \notin 1..Len(s)
    <3>1. /\ i - Len(s) \in 1..Len(t) /\ (s \o t)[i] = t[i - Len(s)]
          /\ j - Len(s) \in 1..Len(t) /\ (s \o t)[j] = t[j - Len(s)]
      BY <1>2, <2>5
    <3>2. i - Len(s) = j - Len(s)
      BY <1>4, <3>1, Zenon DEF Once
    <3> QED BY <1>1, <3>2
  <2> QED BY <2>2, <2>3, <2>4, <2>5
<1> QED BY <1>1, <1>3, <1>4

\* A buffer cut in two holds the same bytes, each on one side.
LEMMA CutInTwo ==
  ASSUME NEW s \in Seq(Nat), Once(s), NEW n \in 1..Len(s)
  PROVE  LET a == SubSeq(s, 1, n)
             b == SubSeq(s, n + 1, Len(s))
         IN /\ a \in Seq(Nat) /\ b \in Seq(Nat) /\ Once(a) /\ Once(b)
            /\ Range(a) \cup Range(b) = Range(s) /\ Range(a) \cap Range(b) = {}
<1> DEFINE a == SubSeq(s, 1, n)
           b == SubSeq(s, n + 1, Len(s))
<1>1. /\ a \in Seq(Nat) /\ Len(a) = n /\ b \in Seq(Nat) /\ Len(b) = Len(s) - n
      /\ \A i \in 1..n : a[i] = s[i] /\ i \in 1..Len(s)
      /\ \A i \in 1..(Len(s) - n) : b[i] = s[n + i] /\ n + i \in 1..Len(s)
  <2>1. a \in Seq(Nat) /\ Len(a) = n /\ \A i \in 1..n : a[i] = s[i] /\ i \in 1..Len(s)
    OBVIOUS
  <2>2. b \in Seq(Nat) /\ Len(b) = Len(s) - n
    OBVIOUS
  <2>3. ASSUME NEW i \in 1..(Len(s) - n) PROVE b[i] = s[n + i] /\ n + i \in 1..Len(s)
    <3>1. b[i] = s[n + 1 + i - 1]
      OBVIOUS
    <3>2. n + 1 + i - 1 = n + i /\ n + i \in 1..Len(s)
      OBVIOUS
    <3> QED BY <3>1, <3>2
  <2> QED BY <2>1, <2>2, <2>3
<1> HIDE DEF a, b
<1>2. DOMAIN s = 1..Len(s) /\ DOMAIN a = 1..n /\ DOMAIN b = 1..(Len(s) - n)
  BY <1>1
<1>3. Once(a) /\ Once(b)
  <2>1. Once(a)
    BY <1>1 DEF Once
  <2>2. ASSUME NEW i \in 1..(Len(s) - n), NEW j \in 1..(Len(s) - n), b[i] = b[j] PROVE i = j
    <3>1. n + i \in 1..Len(s) /\ n + j \in 1..Len(s) /\ s[n + i] = s[n + j]
      BY <1>1, <2>2, Zenon
    <3>2. n + i = n + j
      BY <3>1, Zenon DEF Once
    <3> QED BY <3>2
  <2> QED BY <1>1, <2>1, <2>2 DEF Once
<1>4. Range(a) \cup Range(b) = Range(s)
  <2>1. \A i \in 1..Len(s) : i \in 1..n \/ (i - n \in 1..(Len(s) - n) /\ b[i - n] = s[i])
    <3> SUFFICES ASSUME NEW i \in 1..Len(s), i \notin 1..n
                 PROVE  i - n \in 1..(Len(s) - n) /\ b[i - n] = s[i]
      OBVIOUS
    <3>1. i - n \in 1..(Len(s) - n) /\ n + (i - n) = i
      OBVIOUS
    <3>2. b[i - n] = s[n + (i - n)]
      BY <1>1, <3>1, Zenon
    <3> QED BY <3>1, <3>2, Zenon
  <2>2. Range(s) \subseteq Range(a) \cup Range(b)
    BY <1>1, <1>2, <2>1, ZenonT(60) DEF Range
  <2>3. Range(a) \cup Range(b) \subseteq Range(s)
    <3>1. \A i \in DOMAIN a : a[i] \in Range(s)
      BY <1>1, <1>2 DEF Range
    <3>2. \A i \in DOMAIN b : b[i] \in Range(s)
      BY <1>1, <1>2, Zenon DEF Range
    <3> QED BY <3>1, <3>2, Zenon DEF Range
  <2> QED BY <2>2, <2>3
<1>5. Range(a) \cap Range(b) = {}
  <2>1. \A i \in 1..n, j \in 1..(Len(s) - n) : a[i] # b[j]
    <3> SUFFICES ASSUME NEW i \in 1..n, NEW j \in 1..(Len(s) - n), a[i] = b[j] PROVE FALSE
      OBVIOUS
    <3>1. i \in 1..Len(s) /\ n + j \in 1..Len(s) /\ s[i] = s[n + j]
      BY <1>1
    <3>2. i = n + j
      BY <3>1, Zenon DEF Once
    <3> QED BY <3>2
  <2> QED BY <1>2, <2>1 DEF Range
<1> QED BY <1>1, <1>3, <1>4, <1>5 DEF a, b

\* The server's next n bytes.
LEMMA NextBytes ==
  ASSUME NEW h \in Nat, NEW n \in Nat
  PROVE  LET s == Bytes(h + 1, h + n)
         IN s \in Seq(Nat) /\ Once(s) /\ Range(s) = (h + 1)..(h + n)
<1> DEFINE s == Bytes(h + 1, h + n)
<1>1. s = [i \in 1..n |-> h + i]
  BY DEF Bytes
<1>2. s \in Seq(Nat) /\ Len(s) = n /\ DOMAIN s = 1..n
  BY <1>1
<1>3. \A x \in (h + 1)..(h + n) : x - h \in 1..n /\ s[x - h] = x
  BY <1>1
<1>4. Once(s)
  BY <1>1, <1>2 DEF Once
<1>5. Range(s) = (h + 1)..(h + n)
  BY <1>1, <1>2, <1>3 DEF Range
<1> QED BY <1>2, <1>4, <1>5

\* The first n numbers are n.
LEMMA CountUpTo ==
  ASSUME NEW n \in Nat
  PROVE  IsFiniteSet(1..n) /\ Cardinality(1..n) = n
<1>1. IsFiniteSet(1..n)
  BY FS_Interval
<1>2. Cardinality(1..n) = IF 1 > n THEN 0 ELSE n - 1 + 1
  BY FS_Interval
<1> QED BY <1>1, <1>2

\* Sets without a common element are counted apart.
LEMMA CountApart ==
  ASSUME NEW S, NEW T, IsFiniteSet(S), IsFiniteSet(T), S \cap T = {}
  PROVE  IsFiniteSet(S \cup T) /\ Cardinality(S \cup T) = Cardinality(S) + Cardinality(T)
<1>1. /\ IsFiniteSet(S \cup T)
      /\ Cardinality(S \cup T) = Cardinality(S) + Cardinality(T) - Cardinality(S \cap T)
  BY FS_Union, Zenon
<1>2. Cardinality(S \cap T) = 0 /\ Cardinality(S) \in Nat /\ Cardinality(T) \in Nat
  BY FS_EmptySet, FS_CardinalityType, Zenon
<1> QED BY <1>1, <1>2

\* As many bytes as the buffer is long.
LEMMA CountBytes ==
  ASSUME NEW s \in Seq(Nat), Once(s)
  PROVE  IsFiniteSet(Range(s)) /\ Cardinality(Range(s)) = Len(s)
<1>1. s \in Bijection(1..Len(s), Range(s))
  BY DEF Bijection, Injection, Surjection, IsInjective, Once, Range
<1>2. IsFiniteSet(1..Len(s)) /\ Cardinality(1..Len(s)) = Len(s)
  BY CountUpTo, Len(s) \in Nat
<1>3. ExistsBijection(1..Len(s), Range(s))
  BY <1>1 DEF ExistsBijection
<1> QED BY <1>2, <1>3, FS_Bijection

\* New bytes go to one of the places that can take them.
LEMMA SharedMore ==
  ASSUME NEW W, NEW R, NEW B, NEW V, NEW L, NEW h \in Nat, NEW n \in Nat,
         Shared(W, R, B, V, L, h)
  PROVE  LET N == (h + 1)..(h + n)
         IN /\ Shared(W \cup N, R, B, V, L, h + n) /\ Shared(W, R \cup N, B, V, L, h + n)
            /\ Shared(W, R, B, V, L \cup N, h + n)
<1> DEFINE N == (h + 1)..(h + n)
<1>1. 1..h \cap N = {} /\ (1..h) \cup N = 1..(h + n)
  OBVIOUS
<1> HIDE DEF N
<1> QED BY <1>1 DEF Shared, N

\* Every step keeps each byte in one place.
LEMMA PollStep ==
  ASSUME PInv, [PNext]_pvars
  PROVE  PInv'
<1> USE PollingBoundAssumption
<1>1. PollControl'
  <2>1. CASE Serve
    <3>1. PICK n \in 0..2 : handed + n <= emitted /\ handed' = handed + n
      BY <2>1 DEF Serve
    <3>2. handed' \in 0..emitted' /\ emitted' = emitted
      BY <2>1, <3>1 DEF Serve, PInv, PollControl
    <3> QED BY <2>1, <3>2 DEF Serve, PInv, PollControl
  <2>2. CASE PollClose
    <3>1. PICK n \in 0..(emitted - handed) : handed' = handed + n
      BY <2>2 DEF PollClose
    <3>2. handed' \in 0..emitted' /\ emitted' = emitted
      BY <2>2, <3>1 DEF PollClose, PInv, PollControl
    <3> QED BY <2>2, <3>2 DEF PollClose, PInv, PollControl
  <2>3. CASE ~Serve /\ ~PollClose
    BY <2>3 DEF PInv, PollControl, PNext, Reader, Write, WriteReturn, ReadBuffered, Poll,
       PollData,
       PollEmpty, PollBackoffOver, TargetSends, WriteFails, PollFails, pvars
  <2> QED BY <2>1, <2>2, <2>3
<1>2. CASE Write \/ Poll \/ PollEmpty \/ PollBackoffOver \/ TargetSends \/ UNCHANGED pvars
  <2>1. UNCHANGED <<wresp, rresp, readBuf, received, lost, handed>>
    BY <1>2 DEF Write, Poll, PollEmpty, PollBackoffOver, TargetSends, pvars
  <2>2. AnswerInv'
    BY <1>2, <2>1 DEF Write, Poll, PollEmpty, PollBackoffOver, TargetSends, pvars, PInv, AnswerInv
  <2> QED BY <1>1, <2>1, <2>2 DEF PInv, BufferTypes, SharedNow
<1>3. CASE WriteReturn
  <2>1. /\ wresp' = <<>> /\ readBuf' = readBuf \o wresp /\ wpc' = "idle"
        /\ UNCHANGED <<rpc, rresp, received, lost, handed>>
    BY <1>3 DEF WriteReturn, BufferInline
  <2>2. Range(readBuf) \cap Range(wresp) = {}
    BY DEF PInv, SharedNow, Shared
  <2>3. readBuf' \in Seq(Nat) /\ Once(readBuf') /\ Range(readBuf') = Range(readBuf) \cup Range(wresp)
    BY <2>1, <2>2, Joined DEF PInv, BufferTypes
  <2>4. SharedNow'
    BY <2>1, <2>3, NoBytes DEF PInv, SharedNow, Shared
  <2> QED BY <1>1, <2>1, <2>3, <2>4, NoBytes DEF PInv, BufferTypes, AnswerInv
<1>4. CASE ReadBuffered
  <2>1. PICK n \in 1..Len(readBuf) :
          /\ received' = received \o SubSeq(readBuf, 1, n)
          /\ readBuf' = SubSeq(readBuf, n + 1, Len(readBuf))
    BY <1>4 DEF ReadBuffered
  <2>2. UNCHANGED <<wpc, rpc, wresp, rresp, lost, handed>>
    BY <1>4 DEF ReadBuffered
  <2> DEFINE a == SubSeq(readBuf, 1, n)
  <2>3. /\ a \in Seq(Nat) /\ readBuf' \in Seq(Nat) /\ Once(a) /\ Once(readBuf')
        /\ Range(a) \cup Range(readBuf') = Range(readBuf) /\ Range(a) \cap Range(readBuf') = {}
    BY <2>1, CutInTwo DEF PInv, BufferTypes
  <2>4. Range(received) \cap Range(readBuf) = {}
    BY DEF PInv, SharedNow, Shared
  <2> HIDE DEF a
  <2>5. received' \in Seq(Nat) /\ Once(received') /\ Range(received') = Range(received) \cup Range(a)
    BY <2>1, <2>3, <2>4, Joined, ZenonT(60) DEF PInv, BufferTypes, a
  <2>6. SharedNow'
    BY <2>2, <2>3, <2>5 DEF PInv, SharedNow, Shared
  <2> QED BY <1>1, <2>2, <2>3, <2>5, <2>6 DEF PInv, BufferTypes, AnswerInv
<1>5. CASE PollData
  <2>1. PICK n \in 1..Len(rresp) :
          /\ received' = received \o SubSeq(rresp, 1, n)
          /\ readBuf' = readBuf \o SubSeq(rresp, n + 1, Len(rresp))
    BY <1>5, Zenon DEF PollData, ReturnPolled
  <2>2. rresp' = <<>> /\ rpc' = "idle" /\ UNCHANGED <<wpc, wresp, lost, handed>>
    BY <1>5 DEF PollData
  <2> DEFINE a == SubSeq(rresp, 1, n)
             b == SubSeq(rresp, n + 1, Len(rresp))
  <2>3. /\ a \in Seq(Nat) /\ b \in Seq(Nat) /\ Once(a) /\ Once(b)
        /\ Range(a) \cup Range(b) = Range(rresp) /\ Range(a) \cap Range(b) = {}
    BY <2>1, CutInTwo DEF PInv, BufferTypes
  <2>4. Range(received) \cap Range(rresp) = {} /\ Range(readBuf) \cap Range(rresp) = {}
    BY DEF PInv, SharedNow, Shared
  <2> HIDE DEF a, b
  <2>5. received' \in Seq(Nat) /\ Once(received') /\ Range(received') = Range(received) \cup Range(a)
    BY <2>1, <2>3, <2>4, Joined, Zenon DEF PInv, BufferTypes, a
  <2>6. readBuf' \in Seq(Nat) /\ Once(readBuf') /\ Range(readBuf') = Range(readBuf) \cup Range(b)
    BY <2>1, <2>3, <2>4, Joined, ZenonT(60) DEF PInv, BufferTypes, b
  <2>7. SharedNow'
    BY <2>2, <2>3, <2>5, <2>6, NoBytes DEF PInv, SharedNow, Shared
  <2> QED BY <1>1, <2>2, <2>5, <2>6, <2>7, NoBytes DEF PInv, BufferTypes, AnswerInv
<1>6. CASE Serve
  <2>1. PICK n \in 0..2 :
          /\ handed' = handed + n
          /\ \/ /\ wpc = "sent" /\ wpc' = "answered" /\ wresp' = Bytes(handed + 1, handed + n)
                /\ UNCHANGED <<rpc, rresp>>
             \/ /\ rpc = "sent" /\ rpc' = "answered" /\ rresp' = Bytes(handed + 1, handed + n)
                /\ UNCHANGED <<wpc, wresp>>
    BY <1>6 DEF Serve
  <2>2. UNCHANGED <<readBuf, received, lost>>
    BY <1>6 DEF Serve
  <2>3. handed \in Nat /\ n \in Nat
    BY DEF PInv, PollControl
  <2> DEFINE s == Bytes(handed + 1, handed + n)
  <2>4. s \in Seq(Nat) /\ Once(s) /\ Range(s) = (handed + 1)..(handed + n)
    BY <2>3, NextBytes
  <2> HIDE DEF s
  <2>5. /\ Shared(Range(wresp) \cup Range(s), Range(rresp), Range(readBuf), Range(received),
                  lost, handed + n)
        /\ Shared(Range(wresp), Range(rresp) \cup Range(s), Range(readBuf), Range(received),
                  lost, handed + n)
    BY <2>3, <2>4, SharedMore, Zenon DEF PInv, SharedNow
  <2>6. CASE wpc = "sent" /\ wpc' = "answered" /\ wresp' = s /\ UNCHANGED <<rpc, rresp>>
    <3>1. Range(wresp) \cup Range(s) = Range(wresp')
      BY <2>6, NoBytes DEF PInv, AnswerInv
    <3> QED BY <1>1, <2>1, <2>2, <2>4, <2>5, <2>6, <3>1, Zenon
       DEF PInv, BufferTypes, AnswerInv, SharedNow
  <2>7. CASE rpc = "sent" /\ rpc' = "answered" /\ rresp' = s /\ UNCHANGED <<wpc, wresp>>
    <3>1. Range(rresp) \cup Range(s) = Range(rresp')
      BY <2>7, NoBytes DEF PInv, AnswerInv
    <3> QED BY <1>1, <2>1, <2>2, <2>4, <2>5, <2>7, <3>1, ZenonT(60)
       DEF PInv, BufferTypes, AnswerInv, SharedNow
  <2> QED BY <2>1, <2>6, <2>7 DEF s
<1>7. CASE WriteFails
  <2>1. /\ wresp' = <<>> /\ wpc' = "idle" /\ lost' = lost \cup Range(wresp)
        /\ UNCHANGED <<rpc, rresp, readBuf, received, handed>>
    BY <1>7 DEF WriteFails
  <2>2. SharedNow'
    BY <2>1, NoBytes DEF PInv, SharedNow, Shared
  <2> QED BY <1>1, <2>1, <2>2, NoBytes DEF PInv, BufferTypes, AnswerInv
<1>8. CASE PollFails
  <2>1. /\ rresp' = <<>> /\ rpc' = "back" /\ lost' = lost \cup Range(rresp)
        /\ UNCHANGED <<wpc, wresp, readBuf, received, handed>>
    BY <1>8 DEF PollFails
  <2>2. SharedNow'
    BY <2>1, NoBytes DEF PInv, SharedNow, Shared
  <2> QED BY <1>1, <2>1, <2>2, NoBytes DEF PInv, BufferTypes, AnswerInv
<1>9. CASE PollClose
  <2>1. PICK n \in 0..(emitted - handed) :
          handed' = handed + n /\ lost' = lost \cup (handed + 1)..(handed + n)
    BY <1>9 DEF PollClose
  <2>2. UNCHANGED <<wpc, rpc, wresp, rresp, readBuf, received>>
    BY <1>9 DEF PollClose
  <2>3. handed \in Nat /\ n \in Nat
    BY DEF PInv, PollControl
  <2>4. SharedNow'
    BY <2>1, <2>2, <2>3, SharedMore, Zenon DEF PInv, SharedNow
  <2> QED BY <1>1, <2>2, <2>4 DEF PInv, BufferTypes, AnswerInv
<1> QED BY <1>2, <1>3, <1>4, <1>5, <1>6, <1>7, <1>8, <1>9 DEF PNext, Reader

\* Shared bytes, counted.
LEMMA SharedCounts ==
  ASSUME PInv
  PROVE  EachByteOnce
<1> DEFINE W == Range(wresp)
           R == Range(rresp)
           B == Range(readBuf)
           V == Range(received)
<1>1. /\ IsFiniteSet(W) /\ Cardinality(W) = Len(wresp) /\ IsFiniteSet(R) /\ Cardinality(R) = Len(rresp)
      /\ IsFiniteSet(B) /\ Cardinality(B) = Len(readBuf) /\ IsFiniteSet(V)
            /\ Cardinality(V) = Len(received)
  BY CountBytes DEF PInv, BufferTypes
<1>2. /\ Len(wresp) \in Nat /\ Len(rresp) \in Nat /\ Len(readBuf) \in Nat /\ Len(received) \in Nat
      /\ handed \in Nat
  BY DEF PInv, BufferTypes, PollControl
<1>3. Shared(W, R, B, V, lost, handed)
  BY DEF PInv, SharedNow
<1>4. Range(wresp \o rresp \o readBuf \o received) = W \cup R \cup B \cup V
  <2>1. wresp \o rresp \in Seq(Nat) /\ Range(wresp \o rresp) = W \cup R
    BY Joined DEF PInv, BufferTypes
  <2>2. wresp \o rresp \o readBuf \in Seq(Nat) /\ Range(wresp \o rresp \o readBuf) = W \cup R \cup B
    BY <2>1, Joined, Zenon DEF PInv, BufferTypes
  <2> QED BY <2>2, Joined, Zenon DEF PInv, BufferTypes
<1> HIDE DEF W, R, B, V
<1>5. IsFiniteSet(1..handed) /\ Cardinality(1..handed) = handed
  BY <1>2, CountUpTo
<1>6. IsFiniteSet(lost) /\ Cardinality(lost) \in Nat
  BY <1>3, <1>5, FS_Subset, FS_CardinalityType DEF Shared
<1>8. IsFiniteSet(W \cup R) /\ Cardinality(W \cup R) = Len(wresp) + Len(rresp)
  <2>1. W \cap R = {}
    BY <1>3 DEF Shared
  <2>2. IsFiniteSet(W \cup R) /\ Cardinality(W \cup R) = Cardinality(W) + Cardinality(R)
    BY <1>1, <2>1, CountApart, Zenon
  <2> QED BY <1>1, <2>2, Zenon
<1>9. IsFiniteSet(W \cup R \cup B)
      /\ Cardinality(W \cup R \cup B) = Len(wresp) + Len(rresp) + Len(readBuf)
  <2>1. (W \cup R) \cap B = {}
    BY <1>3 DEF Shared
  <2>2. IsFiniteSet(W \cup R \cup B)
        /\ Cardinality(W \cup R \cup B) = Cardinality(W \cup R) + Cardinality(B)
    BY <1>1, <1>8, <2>1, CountApart, Zenon
  <2> QED BY <1>1, <1>8, <2>2, Zenon
<1>10. /\ IsFiniteSet(W \cup R \cup B \cup V)
       /\ Cardinality(W \cup R \cup B \cup V) = Len(wresp) + Len(rresp) + Len(readBuf) + Len(received)
  <2>1. (W \cup R \cup B) \cap V = {}
    BY <1>3 DEF Shared
  <2>2. IsFiniteSet(W \cup R \cup B \cup V)
        /\ Cardinality(W \cup R \cup B \cup V) = Cardinality(W \cup R \cup B) + Cardinality(V)
    BY <1>1, <1>9, <2>1, CountApart, Zenon
  <2> QED BY <1>1, <1>9, <2>2, Zenon
<1>11. Cardinality(W \cup R \cup B \cup V \cup lost)
         = Len(wresp) + Len(rresp) + Len(readBuf) + Len(received) + Cardinality(lost)
  <2>1. (W \cup R \cup B \cup V) \cap lost = {}
    BY <1>3 DEF Shared
  <2> QED BY <1>6, <1>10, <2>1, CountApart, Zenon
<1> QED BY <1>3, <1>4, <1>5, <1>11, Zenon DEF EachByteOnce, Shared

\* For any number of writes and bytes: in polling mode no byte of the target is
\* doubled or dropped between an answer and the caller (src/session.go).
THEOREM PollingCorrect == PSpec => []BytesSound
<1>1. PInit => PInv
  <2> SUFFICES ASSUME PInit PROVE PInv
    OBVIOUS
  <2>1. emitted \in Nat /\ handed = emitted /\ handed \in 0..emitted /\ emitted \in 0..MaxBytes
    BY PollingBoundAssumption DEF PInit
  <2>2. readBuf = Bytes(0 + 1, 0 + emitted)
    BY <2>1 DEF PInit
  <2>3. readBuf \in Seq(Nat) /\ Once(readBuf) /\ Range(readBuf) = 1..handed
    <3>1. readBuf \in Seq(Nat) /\ Once(readBuf) /\ Range(readBuf) = (0 + 1)..(0 + emitted)
      BY <2>1, <2>2, NextBytes, Zenon
    <3> QED BY <2>1, <3>1
  <2>4. SharedNow
    BY <2>3, NoBytes DEF PInit, SharedNow, Shared
  <2>5. PollControl
    <3>1. writes \in 0..MaxWrites
      BY PollingBoundAssumption DEF PInit
    <3> QED BY <2>1, <3>1, Zenon DEF PInit, PollControl
  <2>6. BufferTypes /\ AnswerInv
    BY <2>3, NoBytes DEF PInit, BufferTypes, AnswerInv
  <2> QED BY <2>4, <2>5, <2>6 DEF PInv
<1>2. PInv /\ [PNext]_pvars => PInv'
  BY PollStep
<1>3. PInv => BytesSound
  <2> SUFFICES ASSUME PInv PROVE BytesSound
    OBVIOUS
  <2>1. /\ Range(wresp) \subseteq 1..handed /\ Range(rresp) \subseteq 1..handed
        /\ Range(readBuf) \subseteq 1..handed /\ Range(received) \subseteq 1..handed
        /\ lost \subseteq 1..handed
    BY DEF PInv, SharedNow, Shared
  <2>2. 1..handed \subseteq 1..MaxBytes
    BY PollingBoundAssumption DEF PInv, PollControl
  <2>3. PTypeOK
    BY <2>1, <2>2 DEF PInv, PollControl, PTypeOK
  <2> QED BY <2>3, SharedCounts DEF BytesSound
<1> QED BY <1>1, <1>2, <1>3, PTL DEF PSpec
=============================================================================
