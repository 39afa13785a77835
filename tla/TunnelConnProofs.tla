-------------------------- MODULE TunnelConnProofs --------------------------
(***************************************************************************)
(* Both halves of a TunnelConn are byte streams, its limits are kept, a    *)
(* failed send stops further Writes and the end of the stream comes last,  *)
(* for any pipeline width, channel depth, retry limits, number of Writes   *)
(* and number of bytes.                                                    *)
(***************************************************************************)
EXTENDS TunnelConn, FiniteSetTheorems, TLAPS

\* The backends, in the order in which a leaf that names none tries them.
USE SMT, ZenonT(20), Z3T(60), SMTT(60)

-----------------------------------------------------------------------------
(* Sequences                                                               *)

\* A sequence is a function on its indices, and its elements have its type.
LEMMA SeqLen ==
  ASSUME NEW T, NEW s \in Seq(T)
  PROVE  /\ Len(s) \in Nat /\ DOMAIN s = 1..Len(s) /\ s \in [1..Len(s) -> T]
         /\ \A k \in 1..Len(s) : s[k] \in T
  OBVIOUS

\* The empty sequence, and what differs from it.
LEMMA SeqEmpty ==
  ASSUME NEW T
  PROVE  Len(<<>>) = 0 /\ <<>> \in Seq(T) /\ \A s \in Seq(T) : s # <<>> <=> Len(s) >= 1
<1>1. Len(<<>>) = 0 /\ <<>> \in Seq(T) /\ \A s \in Seq(T) : s # <<>> => Len(s) >= 1
  OBVIOUS
<1> QED BY <1>1

\* Sequences of equal length and elements are equal.
LEMMA SeqSame ==
  ASSUME NEW T, NEW s \in Seq(T), NEW r \in Seq(T), Len(s) = Len(r),
         \A k \in 1..Len(s) : s[k] = r[k]
  PROVE  s = r
  OBVIOUS

\* Append.
LEMMA SeqAppend ==
  ASSUME NEW T, NEW s \in Seq(T), NEW e \in T
  PROVE  /\ Append(s, e) \in Seq(T) /\ Append(s, e) # <<>>
         /\ Len(Append(s, e)) = Len(s) + 1 /\ Append(s, e)[Len(s) + 1] = e
         /\ \A k \in 1..Len(s) : Append(s, e)[k] = s[k]
  OBVIOUS

\* Concatenation.
LEMMA SeqConcat ==
  ASSUME NEW T, NEW s \in Seq(T), NEW r \in Seq(T)
  PROVE  /\ s \o r \in Seq(T) /\ Len(s \o r) = Len(s) + Len(r)
         /\ \A k \in 1..Len(s) : (s \o r)[k] = s[k]
         /\ \A k \in 1..Len(r) : (s \o r)[Len(s) + k] = r[k]
<1>1. Len(s) \in Nat /\ Len(r) \in Nat
  OBVIOUS
<1>2. /\ s \o r \in Seq(T) /\ Len(s \o r) = Len(s) + Len(r)
      /\ \A k \in 1..(Len(s) + Len(r)) : (s \o r)[k] = IF k <= Len(s) THEN s[k] ELSE r[k - Len(s)]
  OBVIOUS
<1>3. ASSUME NEW k \in 1..Len(r) PROVE (s \o r)[Len(s) + k] = r[k]
  <2>1. Len(s) + k \in 1..(Len(s) + Len(r)) /\ ~(Len(s) + k <= Len(s)) /\ (Len(s) + k) - Len(s) = k
    BY <1>1
  <2>2. (s \o r)[Len(s) + k] = r[(Len(s) + k) - Len(s)]
    BY <1>2, <2>1
  <2> QED BY <2>1, <2>2
<1> QED BY <1>1, <1>2, <1>3

\* The elements from a to b.
LEMMA SeqSub ==
  ASSUME NEW T, NEW s \in Seq(T), NEW a \in Nat \ {0}, NEW b \in Nat, b <= Len(s), a <= b + 1
  PROVE  /\ SubSeq(s, a, b) \in Seq(T) /\ Len(SubSeq(s, a, b)) = b + 1 - a
         /\ \A k \in 1..(b + 1 - a) : SubSeq(s, a, b)[k] = s[a + k - 1]
<1>1. \A k \in a..b : s[k] \in T
  OBVIOUS
<1>2. /\ SubSeq(s, a, b) \in Seq(T)
      /\ Len(SubSeq(s, a, b)) = IF a <= b THEN b - a + 1 ELSE 0
      /\ \A k \in 1..(b - a + 1) : SubSeq(s, a, b)[k] = s[a + k - 1]
  BY <1>1, Z3
<1>3. b - a + 1 = b + 1 - a /\ (a <= b \/ b + 1 - a = 0)
  OBVIOUS
<1> QED BY <1>2, <1>3

\* Head and Tail.
LEMMA SeqTail ==
  ASSUME NEW T, NEW s \in Seq(T), s # <<>>
  PROVE  /\ Head(s) = s[1] /\ Head(s) \in T /\ Tail(s) \in Seq(T) /\ Len(Tail(s)) = Len(s) - 1
         /\ \A k \in 1..(Len(s) - 1) : Tail(s)[k] = s[k + 1]
<1>1. Head(s) \in T /\ Tail(s) \in Seq(T) /\ Len(Tail(s)) = Len(s) - 1
  OBVIOUS
<1>2. \A k \in 1..Len(Tail(s)) : Tail(s)[k] = s[k + 1]
  OBVIOUS
<1> QED BY <1>1, <1>2

-----------------------------------------------------------------------------
(* The upload                                                              *)

\* The payload that sequence number s carries: Close's frame takes a number
\* and moves the later payloads by one.
PayloadAt(s) ==
    IF closeSeq = 0 \/ s < closeSeq THEN s ELSE IF s = closeSeq THEN 0 ELSE s - 1

\* Close's frame has been numbered, and s has passed it.
Passed(s) == closeSeq # 0 /\ closeSeq < s

NumberInv ==
    /\ accepted \in Nat /\ closeSeq \in Nat
    /\ seq = IF closeSeq = 0 THEN accepted + 1 ELSE accepted + 2
    /\ closeSeq < seq
    /\ closeSeq # 0 <=> closePC \in {"sent", "done"}

FrameInv ==
    /\ \A f \in sending : f.seq \in 1..(seq - 1) /\ f.data = PayloadAt(f.seq)
    /\ \A s \in DOMAIN srvBuf : s \in 1..(seq - 1) /\ srvBuf[s] = PayloadAt(s)

ForwardInv ==
    /\ srvNext \in 1..seq
    /\ delivered \in Seq(Nat)
    /\ Len(delivered) = IF Passed(srvNext) THEN srvNext - 2 ELSE srvNext - 1
    /\ \A i \in 1..Len(delivered) : delivered[i] = i

UpInv == NumberInv /\ FrameInv /\ ForwardInv

\* The writer's half and Close's half of a step that leaves the upload alone.
UpFrame == UNCHANGED <<seq, accepted, sending, srvBuf, srvNext, delivered, closeSeq>>

-----------------------------------------------------------------------------
\* Nothing sent yet.
LEMMA InitUpInv == Init => UpInv
<1> SUFFICES ASSUME Init PROVE UpInv
  OBVIOUS
<1>1. seq = 1 /\ accepted = 0 /\ closeSeq = 0 /\ closePC = "open" /\ sending = {}
      /\ srvBuf = <<>> /\ srvNext = 1 /\ delivered = <<>>
  BY DEF Init
<1>2. NumberInv
  BY <1>1 DEF NumberInv
<1>3. FrameInv
  BY <1>1 DEF FrameInv
<1>4. delivered \in Seq(Nat) /\ Len(delivered) = 0
  BY <1>1, SeqEmpty
<1>5. ForwardInv
  BY <1>1, <1>4 DEF ForwardInv, Passed
<1> QED BY <1>2, <1>3, <1>5 DEF UpInv

\* A step that touches neither the frames nor Close's progress past its frame.
LEMMA FrameStep ==
  ASSUME UpInv, UpFrame,
         closePC' = closePC \/ (closePC = "open" /\ closePC' = "notify")
                            \/ (closePC = "sent" /\ closePC' = "done")
  PROVE  UpInv'
  BY DEF UpInv, UpFrame, NumberInv, FrameInv, ForwardInv, PayloadAt, Passed

\* WriteLaunch numbers the payload with the next sequence number.
LEMMA LaunchStep ==
  ASSUME UpInv, WriteLaunch
  PROVE  UpInv'
<1>1. CASE wpc' = "failed" /\ UNCHANGED <<seq, accepted, sending>>
  BY <1>1, FrameStep DEF WriteLaunch, UpFrame, closing
<1>2. CASE /\ sending' = sending \cup {[seq |-> seq, data |-> accepted + 1]}
           /\ seq' = seq + 1 /\ accepted' = accepted + 1
  <2>1. UNCHANGED <<srvBuf, srvNext, delivered, closeSeq, closePC>>
    BY DEF WriteLaunch, closing
  <2>2. NumberInv'
    BY <1>2, <2>1 DEF UpInv, NumberInv
  <2>3. PayloadAt(seq) = accepted + 1
    BY DEF UpInv, NumberInv, PayloadAt
  <2>4. FrameInv'
    BY <1>2, <2>1, <2>3 DEF UpInv, NumberInv, FrameInv, PayloadAt
  <2>5. ForwardInv'
    BY <1>2, <2>1 DEF UpInv, NumberInv, ForwardInv, Passed
  <2> QED BY <2>2, <2>4, <2>5 DEF UpInv
<1> QED BY <1>1, <1>2 DEF WriteLaunch, LaunchFrame

\* Close's frame takes a number no payload has, and moves no earlier one.
LEMMA NotifyStep ==
  ASSUME UpInv, CloseNotify
  PROVE  UpInv'
<1>1. /\ sending' = sending \cup {[seq |-> seq, data |-> 0]}
      /\ closePC = "notify" /\ closePC' = "sent"
      /\ closeSeq' = seq /\ seq' = seq + 1
      /\ UNCHANGED <<accepted, srvBuf, srvNext, delivered>>
  BY DEF CloseNotify
<1>2. closeSeq = 0
  BY <1>1 DEF UpInv, NumberInv
<1>3. NumberInv'
  BY <1>1, <1>2 DEF UpInv, NumberInv
<1>4. FrameInv'
  BY <1>1, <1>2 DEF UpInv, NumberInv, FrameInv, PayloadAt
<1>5. ForwardInv'
  BY <1>1, <1>2 DEF UpInv, NumberInv, ForwardInv, Passed
<1> QED BY <1>3, <1>4, <1>5 DEF UpInv

\* The server files a frame under its own number.
LEMMA ArriveStep ==
  ASSUME UpInv, Arrive
  PROVE  UpInv'
<1>1. PICK f \in sending :
        srvBuf' = [s \in DOMAIN srvBuf \cup {f.seq} |-> IF s = f.seq THEN f.data ELSE srvBuf[s]]
  BY DEF Arrive
<1>2. UNCHANGED <<seq, accepted, sending, srvNext, delivered, closeSeq, closePC>>
  BY DEF Arrive, closing
<1>3. FrameInv'
  BY <1>1, <1>2 DEF UpInv, FrameInv, PayloadAt
<1>4. NumberInv' /\ ForwardInv'
  BY <1>2 DEF UpInv, NumberInv, ForwardInv, Passed
<1> QED BY <1>3, <1>4 DEF UpInv

\* The frame the server forwards is the next payload, or Close's.
LEMMA ForwardStep ==
  ASSUME UpInv, Forward
  PROVE  /\ UpInv'
         /\ \/ delivered' = delivered
            \/ /\ delivered' = Append(delivered, Len(delivered) + 1)
               /\ Len(delivered) + 1 <= accepted
<1>1. UNCHANGED <<seq, accepted, sending, srvBuf, closeSeq, closePC>>
  BY DEF Forward, closing
<1>2. srvNext \in 1..(seq - 1) /\ srvBuf[srvNext] = PayloadAt(srvNext) /\ srvNext' = srvNext + 1
  BY DEF Forward, UpInv, FrameInv
<1>3. NumberInv' /\ FrameInv'
  BY <1>1 DEF UpInv, NumberInv, FrameInv, PayloadAt
<1>4. PICK n \in Nat : n = Len(delivered)
  BY SeqLen DEF UpInv, ForwardInv
<1>5. CASE PayloadAt(srvNext) = 0
  <2>1. delivered' = delivered /\ srvNext = closeSeq
    BY <1>2, <1>5 DEF Forward, PayloadAt, UpInv, NumberInv
  <2>2. Len(delivered') = IF Passed(srvNext)' THEN srvNext' - 2 ELSE srvNext' - 1
    BY <1>1, <1>2, <2>1 DEF UpInv, NumberInv, ForwardInv, Passed
  <2>3. ForwardInv'
    BY <1>1, <1>2, <2>1, <2>2 DEF UpInv, NumberInv, ForwardInv
  <2> QED BY <1>3, <2>1, <2>3 DEF UpInv
<1>6. CASE PayloadAt(srvNext) # 0
  <2>1. srvNext # closeSeq /\ closeSeq \in Nat /\ accepted \in Nat
    BY <1>2, <1>6 DEF PayloadAt, UpInv, NumberInv
  <2>2. PayloadAt(srvNext) = n + 1 /\ n + 1 <= accepted
    BY <1>2, <1>4, <2>1 DEF UpInv, NumberInv, ForwardInv, Passed, PayloadAt
  <2>3. delivered' = Append(delivered, n + 1)
    BY <1>2, <1>6, <2>2 DEF Forward
  <2>4. /\ delivered' \in Seq(Nat) /\ Len(delivered') = n + 1
        /\ \A i \in 1..n : delivered'[i] = delivered[i]
        /\ delivered'[n + 1] = n + 1
    BY <1>4, <2>3, SeqAppend DEF UpInv, ForwardInv
  <2>5. \A i \in 1..(n + 1) : delivered'[i] = i
    <3>1. \A i \in 1..n : delivered[i] = i
      BY <1>4 DEF UpInv, ForwardInv
    <3>2. SUFFICES ASSUME NEW i \in 1..(n + 1) PROVE delivered'[i] = i
      OBVIOUS
    <3>3. CASE i = n + 1
      BY <2>4, <3>3
    <3>4. CASE i # n + 1
      <4>1. i \in 1..n
        BY <3>4
      <4> QED BY <2>4, <3>1, <4>1
    <3> QED BY <3>3, <3>4
  <2>6. n + 1 = IF Passed(srvNext)' THEN srvNext' - 2 ELSE srvNext' - 1
    BY <1>1, <1>2, <1>4, <2>1 DEF UpInv, NumberInv, ForwardInv, Passed
  <2>7. srvNext' \in 1..seq'
    BY <1>1, <1>2 DEF UpInv, NumberInv
  <2>8. ForwardInv'
    BY <2>4, <2>5, <2>6, <2>7, Zenon DEF ForwardInv
  <2> QED BY <1>3, <1>4, <2>2, <2>3, <2>8 DEF UpInv
<1> QED BY <1>5, <1>6

\* A POST that ends takes its frame out of flight.
LEMMA SendDoneStep ==
  ASSUME UpInv, SendDone
  PROVE  UpInv' /\ UNCHANGED <<accepted, delivered>>
<1>1. sending' \subseteq sending
      /\ UNCHANGED <<seq, accepted, srvBuf, srvNext, delivered, closeSeq, closePC>>
  BY DEF SendDone, closing
<1> QED BY <1>1 DEF UpInv, NumberInv, FrameInv, ForwardInv, PayloadAt, Passed

\* Every other step leaves the upload where it is.
LEMMA OtherStep ==
  ASSUME UpInv,
         \/ WriteStart \/ WriteSlot \/ WriteFailed \/ StreamStep \/ TargetSends \/ ReadStep
         \/ CloseStart \/ CloseDone \/ UNCHANGED vars
  PROVE  UpInv' /\ UNCHANGED <<accepted, delivered>>
<1>1. CASE WriteStart \/ WriteSlot \/ WriteFailed
  BY <1>1, FrameStep DEF WriteStart, WriteSlot, WriteFailed, UpFrame, closing
<1>2. CASE StreamStep
  BY <1>2, FrameStep DEF StreamStep, StreamCheck, StreamOpen, StreamOpenError, StreamGone,
     StreamWait, StreamRead, StreamPush, StreamDies, UpFrame, closing, upload
<1>3. CASE TargetSends \/ ReadStep
  BY <1>3, FrameStep DEF TargetSends, ReadStep, ReadBuffered, ReadChunk, ReadEnd,
     UpFrame, closing, upload
<1>4. CASE CloseStart \/ CloseDone
  BY <1>4, FrameStep DEF CloseStart, CloseDone, UpFrame, upload
<1>5. CASE UNCHANGED vars
  BY <1>5, FrameStep DEF vars, UpFrame, closing, upload
<1> QED BY <1>1, <1>2, <1>3, <1>4, <1>5

\* Every step keeps the invariant and is a step of the abstract stream.
LEMMA NextUpInv ==
  ASSUME UpInv, [Next]_vars
  PROVE  UpInv' /\ [Up!Next]_<<accepted, delivered>>
<1>1. CASE WriteLaunch
  <2>1. UNCHANGED delivered /\ (accepted' = accepted + 1 \/ accepted' = accepted)
    BY <1>1 DEF WriteLaunch, LaunchFrame
  <2>2. [Up!Next]_<<accepted, delivered>>
    BY <2>1 DEF UpInv, NumberInv, Up!Next, Up!Accept
  <2> QED BY <1>1, <2>2, LaunchStep
<1>2. CASE CloseNotify
  BY <1>2, NotifyStep DEF CloseNotify
<1>3. CASE Arrive
  BY <1>3, ArriveStep DEF Arrive
<1>4. CASE Forward
  <2>1. UNCHANGED accepted /\ UpInv'
    BY <1>4, ForwardStep DEF Forward
  <2>2. CASE delivered' = delivered
    BY <2>1, <2>2
  <2>3. CASE /\ delivered' = Append(delivered, Len(delivered) + 1)
             /\ Len(delivered) + 1 <= accepted
    <3>1. PICK n \in Nat : n = Len(delivered)
      BY SeqLen DEF UpInv, ForwardInv
    <3>2. Len(delivered') = n + 1 /\ \A i \in 1..n : delivered'[i] = delivered[i]
      BY <2>3, <3>1, SeqAppend DEF UpInv, ForwardInv
    <3>3. \A i \in 1..Len(delivered') : delivered'[i] = i
      BY <2>1, Zenon DEF UpInv, ForwardInv
    <3>4. delivered' \in Seq(Nat) /\ delivered \in Seq(Nat)
      BY <2>1 DEF UpInv, ForwardInv
    <3>5. SubSeq(delivered', 1, Len(delivered)) = delivered
      <4>1. \A i \in 1..n : delivered'[i] \in Nat
        BY <3>2, <3>4, SeqLen
      <4>2. /\ SubSeq(delivered', 1, n) \in Seq(Nat)
            /\ Len(SubSeq(delivered', 1, n)) = IF 1 <= n THEN n - 1 + 1 ELSE 0
            /\ \A i \in 1..(n - 1 + 1) : SubSeq(delivered', 1, n)[i] = delivered'[1 + i - 1]
        BY <4>1, SeqSub
      <4>3. Len(SubSeq(delivered', 1, n)) = n
        BY <4>2
      <4>4. \A i \in 1..n : SubSeq(delivered', 1, n)[i] = delivered[i]
        BY <3>2, <4>2
      <4> QED BY <3>1, <3>4, <4>2, <4>3, <4>4, SeqSame
    <3>6. Up!Deliver
      BY <2>1, <2>3, <3>1, <3>2, <3>3, <3>5 DEF Up!Deliver, Up!InOrder
    <3> QED BY <2>1, <3>6 DEF Up!Next
  <2> QED BY <1>4, <2>2, <2>3, ForwardStep
<1>5. CASE SendDone
  BY <1>5, SendDoneStep
<1>6. CASE \/ WriteStart \/ WriteSlot \/ WriteFailed \/ StreamStep \/ TargetSends \/ ReadStep
           \/ CloseStart \/ CloseDone \/ UNCHANGED vars
  BY <1>6, OtherStep
<1> QED BY <1>1, <1>2, <1>3, <1>4, <1>5, <1>6 DEF Next, Write, Wire, Close

-----------------------------------------------------------------------------
\* The upload half implements ByteStream: for any pipeline width and any
\* interleaving of Writes, sends, failures and Close, the target gets the
\* accepted payloads in order, each once, without a gap.
THEOREM UploadCorrect == Spec => UploadIsByteStream
<1>1. Init => Up!Init
  BY DEF Init, Up!Init
<1>2. UpInv /\ [Next]_vars => UpInv' /\ [Up!Next]_<<accepted, delivered>>
  BY NextUpInv
<1>3. [Up!Next]_<<accepted, delivered>> => [Up!Next]_(Up!vars)
  BY DEF Up!vars
<1> QED BY InitUpInv, <1>1, <1>2, <1>3, PTL DEF Spec, UploadIsByteStream, Up!Spec

-----------------------------------------------------------------------------
\* No Write reports success once a pipeline send has failed, not even one
\* that held or waited for a slot when it failed.
THEOREM RefusalCorrect == Spec => NoWriteAcceptedAfterError
<1>1. [Next]_vars => [pipeErr => accepted' = accepted]_vars
  <2> SUFFICES ASSUME Next, pipeErr PROVE accepted' = accepted
    OBVIOUS
  <2>1. CASE Write
    BY <2>1, Zenon DEF Write, WriteStart, WriteSlot, WriteLaunch, WriteRefused, WriteFailed
  <2>2. CASE Wire \/ Close
    BY <2>2, Zenon DEF Wire, Arrive, Forward, SendDone, Close, CloseStart, CloseNotify, CloseDone,
       upload
  <2>3. CASE StreamStep
    BY <2>3, Zenon DEF StreamStep, StreamCheck, StreamOpen, StreamOpenError, StreamGone,
       StreamWait,
       StreamRead, StreamPush, StreamDies, upload
  <2>4. CASE TargetSends \/ ReadStep
    BY <2>4, Zenon DEF TargetSends, ReadStep, ReadBuffered, ReadChunk, ReadEnd, upload
  <2> QED BY <2>1, <2>2, <2>3, <2>4 DEF Next
<1> QED BY <1>1, PTL DEF Spec, NoWriteAcceptedAfterError

-----------------------------------------------------------------------------
\* The bytes Read has returned or keeps.
Got == Len(received) + Len(readBuf)

\* s continues a stream of which n bytes have been seen.
Continues(s, n) == \A i \in 1..Len(s) : s[i] = n + i

\* The position of the last byte of chunk s, and of the last one of queue c
\* of chunks when n bytes come before it.
Upto(s) == s[1] - 1 + Len(s)
LastOf(c, n) == IF c = <<>> THEN n ELSE Upto(c[Len(c)])

\* The chunks of queue c are one run of bytes from n + 1 on, none beyond h.
Chained(c, n, h) ==
    \A i \in 1..Len(c) :
        /\ Len(c[i]) >= 1 /\ Continues(c[i], c[i][1] - 1) /\ Upto(c[i]) <= h
        /\ c[i][1] = IF i = 1 THEN n + 1 ELSE Upto(c[i - 1]) + 1

\* What has been read, is kept, queued, and pushed next is one run of bytes.
\* Only a loop that Close interrupts drops the chunk in its hands.
BufferInv ==
    /\ received \in Seq(Nat) /\ Continues(received, 0)
    /\ readBuf \in Seq(Nat) /\ Continues(readBuf, Len(received))
    /\ Got <= handed

ChanInv == dataChan \in Seq(Seq(Nat)) /\ Chained(dataChan, Got, handed)

ChunkInv ==
    /\ chunk \in Seq(Nat) /\ Continues(chunk, handed - Len(chunk))
    /\ spc = "push" <=> chunk # <<>>
    /\ ~closed \/ spc # "done" => LastOf(dataChan, Got) = handed - Len(chunk)

DownInv == emitted \in Nat /\ handed \in 0..emitted /\ BufferInv /\ ChanInv /\ ChunkInv

\* The chunks of a queue.
LEMMA ChunksTyped ==
  ASSUME NEW c \in Seq(Seq(Nat)), NEW n \in Nat, NEW h \in Nat, Chained(c, n, h)
  PROVE  /\ Len(c) \in Nat
         /\ \A i \in 1..Len(c) : /\ c[i] \in Seq(Nat) /\ Len(c[i]) \in Nat
                                 /\ c[i][1] \in Nat /\ Upto(c[i]) \in Int
<1>1. Len(c) \in Nat
  BY SeqLen
<1>2. ASSUME NEW i \in 1..Len(c) 
      PROVE  c[i] \in Seq(Nat) /\ Len(c[i]) \in Nat /\ c[i][1] \in Nat /\ Upto(c[i]) \in Int
  <2>1. c[i] \in Seq(Nat) /\ Len(c[i]) \in Nat
    BY SeqLen
  <2>2. Len(c[i]) >= 1
    BY DEF Chained
  <2>3. c[i][1] \in Nat
    BY <2>1, <2>2, SeqLen
  <2> QED BY <2>1, <2>3 DEF Upto
<1> QED BY <1>1, <1>2

\* A later limit.
LEMMA ChainedLater ==
  ASSUME NEW c \in Seq(Seq(Nat)), NEW n \in Nat, NEW h \in Nat, NEW g \in Nat, h <= g,
         Chained(c, n, h)
  PROVE  Chained(c, n, g)
<1> SUFFICES ASSUME NEW i \in 1..Len(c) PROVE Upto(c[i]) <= g
  BY DEF Chained
<1>1. Upto(c[i]) \in Int /\ Upto(c[i]) <= h
  BY ChunksTyped, Zenon DEF Chained
<1> QED BY <1>1

\* The chunk that continues the queue at its end.
LEMMA ChainedAppend ==
  ASSUME NEW c \in Seq(Seq(Nat)), NEW n \in Nat, NEW h \in Nat, Chained(c, n, h),
         NEW s \in Seq(Nat), s # <<>>, LastOf(c, n) = h - Len(s), Continues(s, h - Len(s))
  PROVE  /\ Append(c, s) \in Seq(Seq(Nat)) /\ Chained(Append(c, s), n, h)
         /\ LastOf(Append(c, s), n) = h
<1> DEFINE d == Append(c, s)
           k == Len(c)
<1>1. /\ d \in Seq(Seq(Nat)) /\ Len(d) = k + 1 /\ k \in Nat
      /\ (\A i \in 1..k : d[i] = c[i]) /\ d[k + 1] = s /\ d # <<>>
  BY SeqAppend, SeqEmpty, SeqLen
<1>2. Len(s) \in Nat /\ Len(s) >= 1 /\ s[1] = h - Len(s) + 1
  BY SeqEmpty, SeqLen DEF Continues
<1>3. Upto(s) = h
  BY <1>2 DEF Upto
<1>4. \A i \in 1..k : Len(c[i]) \in Nat /\ c[i][1] \in Nat /\ Upto(c[i]) \in Int
  BY ChunksTyped
<1> HIDE DEF d, k
<1>5. ASSUME NEW i \in 1..(k + 1)
      PROVE  /\ Len(d[i]) >= 1 /\ Continues(d[i], d[i][1] - 1) /\ Upto(d[i]) <= h
             /\ d[i][1] = IF i = 1 THEN n + 1 ELSE Upto(d[i - 1]) + 1
  <2>1. CASE i \in 1..k
    <3>1. d[i] = c[i] /\ (i # 1 => d[i - 1] = c[i - 1])
      BY <1>1, <2>1
    <3> QED BY <2>1, <3>1 DEF Chained, k
  <2>2. CASE i = k + 1
    <3>1. d[i] = s /\ s[1] - 1 = h - Len(s)
      BY <1>1, <1>2, <2>2
    <3>2. k = 0 => h - Len(s) = n
      BY SeqEmpty DEF LastOf, k
    <3>3. k # 0 => h - Len(s) = Upto(c[k]) /\ d[k] = c[k] /\ Upto(c[k]) \in Int
      <4>1. ASSUME k # 0 PROVE c # <<>> /\ k \in 1..k
        BY <1>1, <4>1, SeqEmpty DEF k
      <4> QED BY <1>1, <1>4, <4>1 DEF LastOf, k
    <3>4. s[1] = IF i = 1 THEN n + 1 ELSE Upto(d[i - 1]) + 1
      <4>1. CASE k = 0
        BY <1>2, <2>2, <3>2, <4>1
      <4>2. CASE k # 0
        <5>1. i # 1 /\ i - 1 = k
          BY <1>1, <2>2, <4>2
        <5> QED BY <1>2, <3>3, <4>2, <5>1
      <4> QED BY <4>1, <4>2
    <3> QED BY <1>2, <1>3, <3>1, <3>4
  <2> QED BY <1>1, <2>1, <2>2
<1>6. Chained(d, n, h)
  BY <1>1, <1>5 DEF Chained
<1>7. LastOf(d, n) = h
  BY <1>1, <1>3 DEF LastOf
<1> QED BY <1>1, <1>6, <1>7 DEF d

\* The chunk that Read takes from the front.
LEMMA ChainedTail ==
  ASSUME NEW c \in Seq(Seq(Nat)), c # <<>>, NEW n \in Nat, NEW h \in Nat, Chained(c, n, h)
  PROVE  /\ Head(c) \in Seq(Nat) /\ Len(Head(c)) \in Nat /\ Continues(Head(c), n)
         /\ n + Len(Head(c)) <= h
         /\ Tail(c) \in Seq(Seq(Nat)) /\ Chained(Tail(c), n + Len(Head(c)), h)
         /\ LastOf(Tail(c), n + Len(Head(c))) = LastOf(c, n)
<1> DEFINE d == Tail(c)
           k == Len(c)
<1>1. /\ d \in Seq(Seq(Nat)) /\ Len(d) = k - 1 /\ k \in Nat /\ k >= 1
      /\ (\A i \in 1..(k - 1) : d[i] = c[i + 1]) /\ Head(c) = c[1]
  BY SeqTail, SeqEmpty, SeqLen
<1>2. \A i \in 1..k : c[i] \in Seq(Nat) /\ Len(c[i]) \in Nat /\ c[i][1] \in Nat /\ Upto(c[i]) \in Int
  BY ChunksTyped
<1>3. /\ c[1][1] = n + 1 /\ Len(c[1]) \in Nat /\ c[1] \in Seq(Nat)
      /\ Continues(c[1], c[1][1] - 1) /\ Upto(c[1]) <= h
  BY <1>1, <1>2 DEF Chained
<1>4. Upto(c[1]) = n + Len(c[1]) /\ c[1][1] - 1 = n
  BY <1>3 DEF Upto
<1> HIDE DEF d, k
<1>5. ASSUME NEW i \in 1..(k - 1)
      PROVE  /\ Len(d[i]) >= 1 /\ Continues(d[i], d[i][1] - 1) /\ Upto(d[i]) <= h
             /\ d[i][1] = IF i = 1 THEN n + Len(c[1]) + 1 ELSE Upto(d[i - 1]) + 1
  <2>1. i + 1 \in 1..k /\ i + 1 # 1 /\ (i + 1) - 1 = i /\ d[i] = c[i + 1]
    BY <1>1
  <2>2. /\ Len(c[i + 1]) >= 1 /\ Continues(c[i + 1], c[i + 1][1] - 1) /\ Upto(c[i + 1]) <= h
        /\ c[i + 1][1] = Upto(c[i]) + 1
    BY <2>1 DEF Chained, k
  <2>3. i # 1 => d[i - 1] = c[i]
    <3>1. ASSUME i # 1 PROVE i - 1 \in 1..(k - 1) /\ (i - 1) + 1 = i
      BY <1>1, <3>1
    <3> QED BY <1>1, <3>1
  <2> QED BY <1>4, <2>1, <2>2, <2>3, Zenon
<1>6. Chained(d, n + Len(c[1]), h)
  BY <1>1, <1>5 DEF Chained
<1>7. LastOf(d, n + Len(c[1])) = LastOf(c, n)
  <2>1. CASE k = 1
    BY <1>1, <1>4, <2>1, SeqEmpty DEF LastOf, k
  <2>2. CASE k # 1
    <3>1. d[k - 1] = c[k] /\ d # <<>>
      <4>1. k - 1 \in 1..(k - 1) /\ (k - 1) + 1 = k
        BY <1>1, <2>2
      <4> QED BY <1>1, <2>2, <4>1, SeqEmpty
    <3> QED BY <1>1, <3>1 DEF LastOf, k
  <2> QED BY <2>1, <2>2
<1> QED BY <1>1, <1>3, <1>4, <1>6, <1>7 DEF d

\* Read returns the next n bytes of s and keeps the others.
LEMMA TakeStep ==
  ASSUME received \in Seq(Nat), Continues(received, 0),
         NEW s \in Seq(Nat), Continues(s, Len(received)), NEW n \in 1..Len(s), Take(s, n)
  PROVE  /\ received' \in Seq(Nat) /\ Continues(received', 0)
         /\ Len(received') = Len(received) + n
         /\ SubSeq(received', 1, Len(received)) = received
         /\ readBuf' \in Seq(Nat) /\ Continues(readBuf', Len(received'))
         /\ Len(readBuf') = Len(s) - n
<1> DEFINE t == SubSeq(s, 1, n)
           u == SubSeq(s, n + 1, Len(s))
<1>1. received' = received \o t /\ readBuf' = u
  BY DEF Take
<1>2. Len(s) \in Nat /\ (\A i \in 1..Len(s) : s[i] \in Nat) /\ n \in 1..Len(s) /\ Len(received) \in Nat
  BY SeqLen
<1>3. /\ t \in Seq(Nat) /\ Len(t) = n
      /\ \A i \in 1..n : t[i] = s[i]
  <2>1. \A i \in 1..n : s[i] \in Nat
    BY <1>2
  <2> QED BY <1>2, <2>1, SeqSub, Z3
<1>4. /\ u \in Seq(Nat) /\ Len(u) = Len(s) - n
      /\ \A i \in 1..(Len(s) - n) : u[i] = s[n + i]
  <2>1. \A i \in (n + 1)..Len(s) : s[i] \in Nat
    BY <1>2
  <2> QED BY <1>2, <2>1, SeqSub, Z3
<1> HIDE DEF t, u
<1>5. /\ received' \in Seq(Nat) /\ Len(received') = Len(received) + n
      /\ \A i \in 1..Len(received) : received'[i] = received[i]
      /\ \A i \in 1..n : received'[Len(received) + i] = t[i]
  <2>1. /\ received \o t \in Seq(Nat) /\ Len(received \o t) = Len(received) + Len(t)
        /\ \A i \in 1..Len(received) : (received \o t)[i] = received[i]
        /\ \A i \in 1..Len(t) : (received \o t)[Len(received) + i] = t[i]
    BY <1>3, SeqConcat
  <2> QED BY <1>1, <1>3, <2>1, Zenon
<1>6. Continues(received', 0)
  <2>1. \A i \in 1..Len(received) : received[i] = i
    BY <1>2 DEF Continues
  <2>2. \A i \in 1..n : t[i] = Len(received) + i
    <3>1. \A i \in 1..n : i \in 1..Len(s) /\ t[i] = s[i]
      BY <1>2, <1>3
    <3>2. \A i \in 1..Len(s) : s[i] = Len(received) + i
      BY DEF Continues
    <3> QED BY <3>1, <3>2
  <2>3. \A i \in 1..(Len(received) + n) : received'[i] = i
    <3> TAKE i \in 1..(Len(received) + n)
    <3>1. CASE i <= Len(received)
      <4>1. i \in 1..Len(received)
        BY <1>2, <3>1
      <4> QED BY <1>5, <2>1, <4>1, Zenon
    <3>2. CASE ~(i <= Len(received))
      <4>1. i - Len(received) \in 1..n
        BY <1>2, <3>2
      <4>2. PICK k \in 1..n : i = Len(received) + k
        <5>1. i = Len(received) + (i - Len(received))
          BY <1>2
        <5> QED BY <4>1, <5>1, Zenon
      <4> QED BY <1>5, <2>2, <4>2, Zenon
    <3> QED BY <3>1, <3>2
  <2> QED BY <1>2, <1>5, <2>3 DEF Continues
<1>7. Continues(readBuf', Len(received'))
  BY <1>1, <1>2, <1>4, <1>5 DEF Continues
<1>8. SubSeq(received', 1, Len(received)) = received
  <2> DEFINE v == SubSeq(received', 1, Len(received))
  <2>1. \A i \in 1..Len(received) : received'[i] \in Nat
    BY <1>5, SeqLen, Zenon
  <2>2. /\ v \in Seq(Nat) /\ Len(v) = Len(received)
        /\ \A i \in 1..Len(received) : v[i] = received'[i]
    BY <1>2, <2>1, SeqSub, Z3
  <2> HIDE DEF v
  <2>3. \A i \in 1..Len(v) : v[i] = received[i]
    BY <1>2, <1>5, <2>2
  <2>4. v = received
    BY <2>2, <2>3, SeqSame
  <2> QED BY <2>4 DEF v
<1> QED BY <1>1, <1>4, <1>5, <1>6, <1>7, <1>8

\* A new connection: at most the byte of the first answer is there.
LEMMA DownStarts == Init => DownInv
<1> SUFFICES ASSUME Init PROVE DownInv
  OBVIOUS
<1>1. /\ emitted \in Nat /\ handed = emitted /\ chunk = <<>> /\ dataChan = <<>>
      /\ received = <<>> /\ spc = "check"
      /\ readBuf = [i \in 1..(emitted - 1 + 1) |-> 1 + i - 1]
  BY ConnBoundAssumption DEF Init, Bytes
<1>2. readBuf \in Seq(Nat) /\ Len(readBuf) = emitted /\ \A i \in 1..emitted : readBuf[i] = i
  BY <1>1
<1>3. /\ received \in Seq(Nat) /\ Len(received) = 0 /\ chunk \in Seq(Nat) /\ Len(chunk) = 0
      /\ dataChan \in Seq(Seq(Nat)) /\ Len(dataChan) = 0
  BY <1>1, SeqEmpty
<1>4. BufferInv
  BY <1>1, <1>2, <1>3 DEF BufferInv, Continues, Got
<1>5. ChanInv
  BY <1>3 DEF ChanInv, Chained
<1>6. ChunkInv
  BY <1>1, <1>2, <1>3 DEF ChunkInv, Continues, LastOf, Got
<1> QED BY <1>1, <1>4, <1>5, <1>6 DEF DownInv

\* The lengths and positions of the download.
LEMMA DownTyped ==
  ASSUME DownInv
  PROVE  /\ emitted \in Nat /\ handed \in Nat /\ handed <= emitted
         /\ Len(received) \in Nat /\ Len(readBuf) \in Nat /\ Len(chunk) \in Nat /\ Got \in Nat
         /\ received \in Seq(Nat) /\ readBuf \in Seq(Nat) /\ chunk \in Seq(Nat)
         /\ dataChan \in Seq(Seq(Nat)) /\ Chained(dataChan, Got, handed)
<1>1. /\ received \in Seq(Nat) /\ readBuf \in Seq(Nat) /\ chunk \in Seq(Nat)
      /\ dataChan \in Seq(Seq(Nat)) /\ Chained(dataChan, Got, handed)
      /\ emitted \in Nat /\ handed \in 0..emitted
  BY DEF DownInv, BufferInv, ChunkInv, ChanInv
<1>2. Len(received) \in Nat /\ Len(readBuf) \in Nat /\ Len(chunk) \in Nat
  BY <1>1, SeqLen
<1> QED BY <1>1, <1>2 DEF Got

\* A step that moves no byte and, unless it ends the loop, keeps the chunk.
LEMMA DownStays ==
  ASSUME DownInv, UNCHANGED <<handed, chunk, dataChan, readBuf, received>>,
         emitted' \in Nat, emitted' >= emitted, closed => closed',
         spc = "push" <=> spc' = "push", spc = "done" => spc' = "done"
  PROVE  DownInv'
<1>1. BufferInv' /\ ChanInv'
  BY DEF DownInv, BufferInv, ChanInv, Got, Chained, Continues, Upto
<1>2. LastOf(dataChan, Got)' = LastOf(dataChan, Got)
  BY DEF LastOf, Upto, Got
<1>3. ChunkInv'
  BY <1>2 DEF DownInv, ChunkInv, Continues
<1> QED BY <1>1, <1>3, DownTyped DEF DownInv

\* The stream loop takes the next bytes from a body.
LEMMA StreamReadStep ==
  ASSUME DownInv, StreamRead
  PROVE  DownInv'
<1>1. PICK n \in 1..2 : /\ handed + n <= emitted /\ handed' = handed + n
                        /\ chunk' = Bytes(handed + 1, handed + n)
  BY DEF StreamRead
<1>2. /\ spc = "reading" /\ spc' = "push"
      /\ UNCHANGED <<emitted, dataChan, readBuf, received, closed>>
  BY DEF StreamRead, closing
<1>3. emitted \in Nat /\ handed \in Nat /\ handed' \in 0..emitted' /\ handed' \in Nat
      /\ handed <= handed'
  BY <1>1, <1>2, DownTyped
<1>4. chunk' = [i \in 1..n |-> handed + i]
  BY <1>1, <1>3 DEF Bytes
<1>5. chunk' \in Seq(Nat) /\ Len(chunk') = n /\ \A i \in 1..n : chunk'[i] = handed + i
  BY <1>3, <1>4
<1>6. chunk = <<>> /\ Len(chunk) = 0 /\ chunk' # <<>>
  BY <1>2, <1>5, SeqEmpty DEF DownInv, ChunkInv
<1>7. Got' = Got /\ Got \in Nat
  BY <1>2, DownTyped DEF Got
<1>8. BufferInv'
  BY <1>2, <1>3, <1>7 DEF DownInv, BufferInv, Continues
<1>9. ChanInv'
  BY <1>2, <1>3, <1>7, DownTyped, ChainedLater DEF ChanInv
<1>10. LastOf(dataChan, Got) = handed
  BY <1>2, <1>3, <1>6 DEF DownInv, ChunkInv
<1>11. LastOf(dataChan, Got)' = handed' - Len(chunk')
  BY <1>1, <1>2, <1>3, <1>5, <1>7, <1>10 DEF LastOf, Upto
<1>12. ChunkInv'
  BY <1>1, <1>2, <1>3, <1>5, <1>6, <1>11 DEF ChunkInv, Continues
<1> QED BY <1>2, <1>3, <1>8, <1>9, <1>12 DEF DownInv

\* The chunk goes to the end of dataChan, or is dropped when Close interrupts.
LEMMA StreamPushStep ==
  ASSUME DownInv, StreamPush
  PROVE  DownInv'
<1>1. spc = "push" /\ chunk' = <<>> /\ UNCHANGED <<emitted, handed, readBuf, received, closed>>
  BY DEF StreamPush, closing
<1>2. Got' = Got /\ BufferInv' /\ chunk' \in Seq(Nat) /\ Len(chunk') = 0
  BY <1>1, SeqEmpty DEF DownInv, BufferInv, Got, Continues
<1>3. chunk # <<>> /\ LastOf(dataChan, Got) = handed - Len(chunk)
      /\ Continues(chunk, handed - Len(chunk))
  BY <1>1 DEF DownInv, ChunkInv
<1>4. CASE spc' = "reading" /\ dataChan' = Append(dataChan, chunk)
  <2>1. ChanInv' /\ LastOf(dataChan, Got)' = handed
    <3>1. /\ dataChan' \in Seq(Seq(Nat)) /\ Chained(dataChan', Got, handed)
          /\ LastOf(dataChan', Got) = handed
      BY <1>3, <1>4, DownTyped, ChainedAppend
    <3>2. LastOf(dataChan, Got)' = LastOf(dataChan', Got)
      BY <1>2 DEF LastOf, Upto
    <3> QED BY <1>1, <1>2, <3>1, <3>2 DEF ChanInv
  <2>2. ChunkInv'
    BY <1>1, <1>2, <1>4, <2>1, DownTyped DEF ChunkInv, Continues
  <2> QED BY <1>1, <1>2, <2>1, <2>2 DEF DownInv
<1>5. CASE closed /\ spc' = "done" /\ UNCHANGED dataChan
  <2>1. ChanInv'
    BY <1>1, <1>2, <1>5 DEF DownInv, ChanInv, Chained, Continues, Upto
  <2>2. ChunkInv'
    BY <1>1, <1>2, <1>5 DEF ChunkInv, Continues
  <2> QED BY <1>1, <1>2, <2>1, <2>2 DEF DownInv
<1> QED BY <1>4, <1>5 DEF StreamPush, PushChunk, PushAborted

\* Read hands the next bytes to its caller, from the rest of the last chunk
\* or from the next one.
LEMMA ReadStepDown ==
  ASSUME DownInv, ReadBuffered \/ ReadChunk
  PROVE  /\ DownInv' /\ UNCHANGED emitted
         /\ Len(received') > Len(received) /\ Len(received') <= emitted
         /\ SubSeq(received', 1, Len(received)) = received /\ Continues(received', 0)
<1>1. CASE ReadBuffered
  <2>1. PICK n \in 1..Len(readBuf) : Take(readBuf, n)
    BY <1>1 DEF ReadBuffered
  <2>2. UNCHANGED <<spc, closed, emitted, handed, chunk, dataChan>>
    BY <1>1 DEF ReadBuffered, closing
  <2>3. /\ received' \in Seq(Nat) /\ Continues(received', 0)
        /\ Len(received') = Len(received) + n
        /\ SubSeq(received', 1, Len(received)) = received
        /\ readBuf' \in Seq(Nat) /\ Continues(readBuf', Len(received'))
        /\ Len(readBuf') = Len(readBuf) - n
    BY <2>1, TakeStep, DownTyped DEF DownInv, BufferInv
  <2>4. Got' = Got /\ Got <= handed
    BY <2>3, DownTyped DEF Got, DownInv, BufferInv
  <2>5. BufferInv'
    BY <2>2, <2>3, <2>4 DEF BufferInv
  <2>6. ChanInv' /\ LastOf(dataChan, Got)' = LastOf(dataChan, Got)
    BY <2>2, <2>4 DEF DownInv, ChanInv, Chained, Continues, Upto, LastOf
  <2>7. ChunkInv'
    BY <2>2, <2>6 DEF DownInv, ChunkInv, Continues
  <2>8. DownInv'
    BY <2>2, <2>5, <2>6, <2>7 DEF DownInv
  <2>9. Len(received') > Len(received) /\ Len(received') <= emitted
    <3>1. /\ Len(received) \in Nat /\ Len(readBuf) \in Nat /\ handed \in Nat /\ emitted \in Nat
          /\ handed <= emitted /\ Len(received) + Len(readBuf) <= handed
      BY <2>4, DownTyped DEF Got
    <3>2. n \in Nat /\ n >= 1 /\ n <= Len(readBuf)
      BY <3>1
    <3> QED BY <2>3, <3>1, <3>2
  <2> QED BY <2>2, <2>3, <2>8, <2>9
<1>2. CASE ReadChunk
  <2>1. PICK n \in 1..Len(Head(dataChan)) : Take(Head(dataChan), n)
    BY <1>2 DEF ReadChunk, TakeFromChunk
  <2>2. /\ UNCHANGED <<spc, closed, emitted, handed, chunk>> /\ readBuf = <<>> /\ dataChan # <<>>
        /\ dataChan' = Tail(dataChan)
    BY <1>2 DEF ReadChunk, closing
  <2>3. Len(readBuf) = 0 /\ Got = Len(received)
    BY <2>2, SeqEmpty, DownTyped DEF Got
  <2>4. /\ Head(dataChan) \in Seq(Nat) /\ Len(Head(dataChan)) \in Nat /\ Continues(Head(dataChan), Got)
        /\ Got + Len(Head(dataChan)) <= handed
        /\ Tail(dataChan) \in Seq(Seq(Nat))
        /\ Chained(Tail(dataChan), Got + Len(Head(dataChan)), handed)
        /\ LastOf(Tail(dataChan), Got + Len(Head(dataChan))) = LastOf(dataChan, Got)
    BY <2>2, ChainedTail, DownTyped
  <2>5. /\ received' \in Seq(Nat) /\ Continues(received', 0)
        /\ Len(received') = Len(received) + n
        /\ SubSeq(received', 1, Len(received)) = received
        /\ readBuf' \in Seq(Nat) /\ Continues(readBuf', Len(received'))
        /\ Len(readBuf') = Len(Head(dataChan)) - n
    BY <2>1, <2>3, <2>4, TakeStep, DownTyped DEF DownInv, BufferInv
  <2>6. Got' = Got + Len(Head(dataChan))
    <3>1. Len(received) \in Nat
      BY DownTyped
    <3>2. n \in Nat /\ n >= 1 /\ n <= Len(Head(dataChan))
      BY <2>4
    <3>3. Got' = (Len(received) + n) + (Len(Head(dataChan)) - n)
      BY <2>5 DEF Got
    <3>4. \A l, h, m \in Nat : (l + m) + (h - m) = l + h
      OBVIOUS
    <3>5. Len(Head(dataChan)) \in Nat
      BY <2>4
    <3>6. (Len(received) + n) + (Len(Head(dataChan)) - n) = Len(received) + Len(Head(dataChan))
      BY <3>1, <3>2, <3>4, <3>5, Zenon
    <3> QED BY <2>3, <3>3, <3>6, Zenon
  <2>7. BufferInv'
    BY <2>2, <2>4, <2>5, <2>6 DEF BufferInv
  <2>8. ChanInv' /\ LastOf(dataChan, Got)' = LastOf(dataChan, Got)
    BY <2>2, <2>4, <2>6 DEF ChanInv, LastOf, Upto
  <2>9. ChunkInv'
    BY <2>2, <2>8 DEF DownInv, ChunkInv, Continues
  <2>10. DownInv'
    BY <2>2, <2>7, <2>8, <2>9 DEF DownInv
  <2>11. Len(received') > Len(received) /\ Len(received') <= emitted
    <3>1. Len(received) \in Nat /\ handed \in Nat /\ emitted \in Nat /\ handed <= emitted
      BY DownTyped
    <3>2. n \in Nat /\ n >= 1 /\ n <= Len(Head(dataChan))
      BY <2>4
    <3>3. Len(Head(dataChan)) \in Nat /\ Len(received) + Len(Head(dataChan)) <= handed
      BY <2>3, <2>4
    <3>4. Len(received') = Len(received) + n
      BY <2>5
    <3> QED BY <3>1, <3>2, <3>3, <3>4
  <2> QED BY <2>2, <2>5, <2>10, <2>11
<1> QED BY <1>1, <1>2

\* Every other step moves no byte of the download.
LEMMA OtherStepDown ==
  ASSUME DownInv,
         \/ Write \/ Wire \/ Close \/ StreamCheck \/ StreamOpen \/ StreamOpenError \/ StreamGone
         \/ StreamWait \/ StreamDies \/ ReadEnd \/ UNCHANGED vars
  PROVE  DownInv' /\ UNCHANGED <<emitted, received>>
<1>1. /\ UNCHANGED <<emitted, handed, chunk, dataChan, readBuf, received>>
      /\ closed' = closed \/ closed' = TRUE
      /\ spc' = spc \/ (spc \notin {"push", "done"} /\ spc' # "push")
  <2>1. CASE Write \/ Wire
    BY <2>1, ZenonT(60) DEF Write, WriteStart, WriteSlot, WriteLaunch, WriteFailed, Wire, Arrive,
       Forward,
       SendDone, closing, download
  <2>2. CASE Close \/ ReadEnd \/ UNCHANGED vars
    BY <2>2 DEF Close, CloseStart, CloseNotify, CloseDone, ReadEnd, vars, closing, download
  <2>3. CASE StreamCheck \/ StreamOpen \/ StreamOpenError \/ StreamGone \/ StreamWait \/ StreamDies
    BY <2>3, Zenon DEF StreamCheck, StreamOpen, StreamOpenError, StreamGone, StreamWait,
       StreamDies,
       RenewOrGiveUp, closing, download
  <2> QED BY <2>1, <2>2, <2>3, Zenon
<1>2. DownInv'
  BY <1>1, DownStays, DownTyped
<1> QED BY <1>1, <1>2

\* Every step keeps DownInv and is a step of ByteStream, or none.
LEMMA NextDownInv ==
  ASSUME DownInv, [Next]_vars
  PROVE  DownInv' /\ [Down!Next]_<<emitted, received>>
<1>1. CASE StreamRead
  BY <1>1, StreamReadStep DEF StreamRead
<1>2. CASE StreamPush
  BY <1>2, StreamPushStep DEF StreamPush
<1>3. CASE ReadBuffered \/ ReadChunk
  <2>1. Down!Deliver
    BY <1>3, ReadStepDown, DownTyped DEF Down!Deliver, Down!InOrder, Continues
  <2> QED BY <1>3, <2>1, ReadStepDown DEF Down!Next
<1>4. CASE TargetSends
  <2>1. /\ emitted' = emitted + 1
        /\ UNCHANGED <<handed, chunk, dataChan, readBuf, received, closed, spc>>
    BY <1>4 DEF TargetSends, closing
  <2>2. DownInv'
    BY <2>1, DownStays, DownTyped
  <2>3. Down!Accept
    BY <2>1, DownTyped DEF Down!Accept
  <2> QED BY <2>2, <2>3 DEF Down!Next
<1>5. CASE \/ Write \/ Wire \/ Close \/ StreamCheck \/ StreamOpen \/ StreamOpenError \/ StreamGone
           \/ StreamWait \/ StreamDies \/ ReadEnd \/ UNCHANGED vars
  BY <1>5, OtherStepDown
<1> QED BY <1>1, <1>2, <1>3, <1>4, <1>5 DEF Next, StreamStep, ReadStep

\* The download half implements ByteStream: for any channel depth, any number
\* of bytes and any interleaving of streams, renewals, partial Reads and Close,
\* Read returns the target's bytes in order, each once, without a gap.
THEOREM DownloadCorrect == Spec => DownloadIsByteStream
<1>1. Init => Down!Init
  BY ConnBoundAssumption DEF Init, Down!Init
<1>2. DownInv /\ [Next]_vars => DownInv' /\ [Down!Next]_<<emitted, received>>
  BY NextDownInv
<1>3. [Down!Next]_<<emitted, received>> => [Down!Next]_(Down!vars)
  BY DEF Down!vars
<1> QED BY DownStarts, <1>1, <1>2, <1>3, PTL DEF Spec, DownloadIsByteStream, Down!Spec

\* Read reports the end of a connection nobody closed only when it has
\* returned every byte the stream loop took from the server.
THEOREM EndOfStreamCorrect == Spec => EndOfStreamLosesNothing
<1>1. ASSUME DownInv, [Next]_vars
      PROVE  [readErr' /\ ~readErr /\ ~closed => received = Bytes(1, handed)]_vars
  <2> SUFFICES ASSUME Next, readErr', ~readErr, ~closed PROVE received = Bytes(1, handed)
    BY <1>1
  <2>1. ReadEnd
    <3>1. ~(Write \/ Wire \/ Close)
      BY Zenon DEF Write, WriteStart, WriteSlot, WriteLaunch, WriteFailed, Wire, Arrive, Forward,
         SendDone, Close, CloseStart, CloseNotify, CloseDone, download
    <3>2. ~(StreamStep \/ TargetSends \/ ReadBuffered \/ ReadChunk)
      BY Zenon DEF StreamStep, StreamCheck, StreamOpen, StreamOpenError, StreamGone, StreamWait,
         StreamRead, StreamPush, StreamDies, TargetSends, ReadBuffered, ReadChunk, download
    <3> QED BY <3>1, <3>2 DEF Next, ReadStep
  <2>2. spc = "done" /\ dataChan = <<>> /\ readBuf = <<>>
    BY <2>1 DEF ReadEnd, StreamEnded
  <2>3. chunk = <<>> /\ LastOf(dataChan, Got) = handed - Len(chunk)
    BY <1>1, <2>2 DEF DownInv, ChunkInv
  <2>4. Len(received) = handed /\ handed \in Nat /\ received \in Seq(Nat)
    BY <1>1, <2>2, <2>3, DownTyped, SeqEmpty DEF LastOf, Got
  <2>5. \A i \in 1..handed : received[i] = i
    BY <1>1, <2>4 DEF DownInv, BufferInv, Continues
  <2>6. Bytes(1, handed) = [i \in 1..handed |-> i]
    BY <2>4 DEF Bytes
  <2>7. [i \in 1..handed |-> i] \in Seq(Nat) /\ Len([i \in 1..handed |-> i]) = handed
    BY <2>4
  <2> QED BY <2>4, <2>5, <2>6, <2>7, SeqSame
<1>2. DownInv /\ [Next]_vars => DownInv'
  BY NextDownInv
<1> QED BY DownStarts, <1>1, <1>2, PTL DEF Spec, EndOfStreamLosesNothing

-----------------------------------------------------------------------------
(* Limits: slots of the pipeline, depth of the channel, counters, reports  *)

\* Reports and renewals go together until the loop gives up.
ReportInv ==
    /\ renewals \in 0..MaxRenewals /\ deadReports \in Nat
    /\ deadReports <= IF spc = "done" THEN renewals + 1 ELSE renewals

\* The reports of one connection, step by step.
LEMMA ReportStep ==
  ASSUME ReportInv, [Next]_vars
  PROVE  ReportInv'
<1>1. ASSUME RenewOrGiveUp, spc # "done" PROVE ReportInv'
  BY <1>1, StreamAssumption DEF RenewOrGiveUp, MayRenew, ReportInv
<1>2. CASE StreamOpenError
  BY <1>1, <1>2 DEF StreamOpenError, ReportInv
<1>3. CASE StreamDies
  BY <1>1, <1>3 DEF StreamDies, ReportInv
<1>4. CASE StreamCheck \/ StreamOpen \/ StreamGone \/ StreamWait \/ StreamRead \/ StreamPush
  <2>1. UNCHANGED <<renewals, deadReports>> /\ spc # "done"
    BY <1>4 DEF StreamCheck, StreamOpen, StreamGone, StreamWait, StreamRead, StreamPush, counters
  <2> QED BY <2>1, StreamAssumption DEF ReportInv
<1>5. CASE Write \/ Wire \/ TargetSends \/ ReadStep \/ Close \/ UNCHANGED vars
  <2>1. UNCHANGED <<renewals, deadReports, spc>>
    BY <1>5, Zenon DEF Write, WriteStart, WriteSlot, WriteLaunch, WriteFailed, Wire, Arrive, Forward,
       SendDone, TargetSends, ReadStep, ReadBuffered, ReadChunk, ReadEnd, Close, CloseStart,
       CloseNotify, CloseDone, counters, vars
  <2> QED BY <2>1 DEF ReportInv
<1> QED BY <1>2, <1>3, <1>4, <1>5 DEF Next, StreamStep

\* The POSTs that hold a slot, and the slot in the writer's hand.
Pipelined == sending \ {f \in sending : f.data = 0}
InHand == IF wpc = "launch" THEN 1 ELSE 0

UploadLimits ==
    /\ seq \in Nat \ {0} /\ accepted \in 0..MaxWrites /\ closeSeq \in Nat
    /\ wpc \in {"idle", "slot", "launch", "failed"}
    /\ wpc \in {"slot", "launch"} => accepted < MaxWrites
    /\ sending \subseteq [seq : Nat, data : Nat] /\ IsFiniteSet(sending)
    /\ Cardinality(Pipelined) + InHand <= PipeWidth
    /\ DOMAIN srvBuf \subseteq Nat /\ srvNext \in Nat

FlagLimits ==
    /\ pipeErr \in BOOLEAN /\ closed \in BOOLEAN /\ readErr \in BOOLEAN
    /\ closePC \in {"open", "notify", "sent", "done"}
    /\ active = IF closePC = "done" THEN 0 ELSE 1

StreamLimits ==
    /\ spc \in {"check", "opening", "reading", "push", "wait", "done"}
    /\ openErrors \in 0..MaxOpenErrors /\ flaps \in 0..MaxFlaps /\ ReportInv

DownLimits ==
    /\ emitted \in 0..MaxBytes /\ handed \in 0..emitted
    /\ dataChan \in Seq(Seq(Nat)) /\ Len(dataChan) <= ChanDepth /\ chunk \in Seq(Nat)

LimitInv == UploadLimits /\ FlagLimits /\ StreamLimits /\ DownLimits

\* A set of POSTs that is left alone, or loses one, takes no more slots.
LEMMA SlotsOfSubset ==
  ASSUME UploadLimits, NEW T, T \subseteq Pipelined
  PROVE  /\ Cardinality(T) \in Nat /\ Cardinality(T) <= Cardinality(Pipelined)
         /\ Cardinality(Pipelined) \in Nat /\ IsFiniteSet(Pipelined)
<1>1. IsFiniteSet(Pipelined)
  BY FS_Subset DEF UploadLimits, Pipelined
<1>2. IsFiniteSet(T) /\ Cardinality(T) <= Cardinality(Pipelined)
  BY <1>1, FS_Subset
<1> QED BY <1>1, <1>2, FS_CardinalityType

\* The upload's limits.
LEMMA UploadStep ==
  ASSUME UploadLimits, [Next]_vars
  PROVE  UploadLimits'
<1>1. CASE WriteStart \/ WriteSlot \/ WriteFailed
  <2>1. UNCHANGED <<seq, accepted, sending, srvBuf, srvNext, closeSeq>>
    BY <1>1 DEF WriteStart, WriteSlot, WriteFailed, closing
  <2>2. Pipelined' = Pipelined /\ Cardinality(Pipelined) \in Nat
    BY <2>1, SlotsOfSubset DEF Pipelined
  <2>3. /\ wpc' \in {"idle", "slot", "launch", "failed"}
        /\ wpc' \in {"slot", "launch"} => accepted < MaxWrites
        /\ Cardinality(Pipelined) + InHand' <= PipeWidth
    BY <1>1, <2>2, WidthAssumption DEF WriteStart, WriteSlot, WriteFailed, SlotFree, SlotsTaken,
       Pipelined, InHand, UploadLimits
  <2> QED BY <2>1, <2>2, <2>3 DEF UploadLimits
<1>2. CASE WriteLaunch
  <2>1. UNCHANGED <<srvBuf, srvNext, closeSeq>> /\ wpc = "launch"
    BY <1>2 DEF WriteLaunch, closing
  <2>2. CASE wpc' = "failed" /\ UNCHANGED <<seq, accepted, sending>>
    <3>1. Pipelined' = Pipelined /\ Cardinality(Pipelined) \in Nat
      BY <2>2, SlotsOfSubset DEF Pipelined
    <3>2. Cardinality(Pipelined) + InHand' <= PipeWidth
      BY <2>1, <2>2, <3>1, WidthAssumption DEF UploadLimits, InHand
    <3> QED BY <2>1, <2>2, <3>1, <3>2 DEF UploadLimits
  <2>3. CASE /\ sending' = sending \cup {[seq |-> seq, data |-> accepted + 1]}
             /\ seq' = seq + 1 /\ accepted' = accepted + 1 /\ wpc' = "idle"
    <3> DEFINE new == [seq |-> seq, data |-> accepted + 1]
    <3>1. new \in [seq : Nat, data : Nat] /\ new.data # 0
      BY ConnBoundAssumption DEF UploadLimits
    <3>2. Pipelined' = Pipelined \cup {new}
      BY <2>3, <3>1 DEF Pipelined
    <3>3. IsFiniteSet(sending')
      BY <2>3, FS_AddElement DEF UploadLimits
    <3>4. IsFiniteSet(Pipelined) /\ Cardinality(Pipelined) \in Nat
      BY SlotsOfSubset
    <3>5. Cardinality(Pipelined') <= Cardinality(Pipelined) + 1 /\ Cardinality(Pipelined') \in Nat
      <4> HIDE DEF new
      <4>1. IsFiniteSet(Pipelined \cup {new})
            /\ Cardinality(Pipelined \cup {new}) = IF new \in Pipelined THEN Cardinality(Pipelined)
                                                   ELSE Cardinality(Pipelined) + 1
        BY <3>4, FS_AddElement
      <4> QED BY <3>2, <3>4, <4>1
    <3>6. Cardinality(Pipelined') + InHand' <= PipeWidth
      BY <2>1, <2>3, <3>4, <3>5, WidthAssumption DEF UploadLimits, InHand
    <3>7. sending' \subseteq [seq : Nat, data : Nat] /\ seq' \in Nat \ {0} /\ accepted' \in 0..MaxWrites
      BY <2>1, <2>3, <3>1, ConnBoundAssumption DEF UploadLimits
    <3> QED BY <2>1, <2>3, <3>3, <3>6, <3>7 DEF UploadLimits
  <2> QED BY <1>2, <2>2, <2>3 DEF WriteLaunch, LaunchFrame
<1>3. CASE Arrive \/ Forward
  <2>1. /\ UNCHANGED <<seq, wpc, accepted, sending, closeSeq>>
        /\ DOMAIN srvBuf' \subseteq Nat /\ srvNext' \in Nat
    BY <1>3 DEF Arrive, Forward, closing, UploadLimits
  <2> QED BY <2>1 DEF UploadLimits, Pipelined, InHand
<1>4. CASE SendDone
  <2>1. sending' \subseteq sending /\ UNCHANGED <<seq, wpc, accepted, srvBuf, srvNext, closeSeq>>
    BY <1>4, Zenon DEF SendDone, closing
  <2>2. Pipelined' \subseteq Pipelined /\ IsFiniteSet(sending')
    BY <2>1, FS_Subset DEF Pipelined, UploadLimits
  <2>3. /\ Cardinality(Pipelined') \in Nat /\ Cardinality(Pipelined) \in Nat
        /\ Cardinality(Pipelined') <= Cardinality(Pipelined)
    BY <2>2, SlotsOfSubset
  <2>4. Cardinality(Pipelined') + InHand' <= PipeWidth
    BY <2>1, <2>3, WidthAssumption DEF UploadLimits, InHand
  <2> QED BY <2>1, <2>2, <2>4 DEF UploadLimits
<1>5. CASE CloseNotify
  <2> DEFINE new == [seq |-> seq, data |-> 0]
  <2>1. /\ sending' = sending \cup {new} /\ closeSeq' = seq /\ seq' = seq + 1
        /\ UNCHANGED <<wpc, accepted, srvBuf, srvNext>>
    BY <1>5 DEF CloseNotify
  <2>2. new \in [seq : Nat, data : Nat] /\ new.data = 0
    BY DEF UploadLimits
  <2>3. Pipelined' = Pipelined
    BY <2>1, <2>2 DEF Pipelined
  <2>4. IsFiniteSet(sending') /\ sending' \subseteq [seq : Nat, data : Nat]
    BY <2>1, <2>2, FS_AddElement DEF UploadLimits
  <2> QED BY <2>1, <2>3, <2>4 DEF UploadLimits, InHand
<1>6. CASE CloseStart \/ CloseDone \/ TargetSends \/ ReadStep \/ StreamStep \/ UNCHANGED vars
  <2>1. UNCHANGED <<upload, closeSeq>>
    <3>1. CASE StreamStep
      BY <3>1 DEF StreamStep, StreamCheck, StreamOpen, StreamOpenError, StreamGone, StreamWait,
         StreamRead, StreamPush, StreamDies, closing
    <3>2. CASE CloseStart \/ CloseDone \/ TargetSends \/ ReadStep \/ UNCHANGED vars
      BY <3>2 DEF CloseStart, CloseDone, TargetSends, ReadStep, ReadBuffered, ReadChunk, ReadEnd,
         closing, vars
    <3> QED BY <1>6, <3>1, <3>2
  <2> QED BY <2>1 DEF upload, UploadLimits, Pipelined, InHand
<1> QED BY <1>1, <1>2, <1>3, <1>4, <1>5, <1>6 DEF Next, Write, Wire, Close

\* The flags, and this connection's share of activeConns.
LEMMA FlagStep ==
  ASSUME FlagLimits, [Next]_vars
  PROVE  FlagLimits'
<1>1. CASE Write \/ TargetSends \/ UNCHANGED vars
  BY <1>1 DEF Write, WriteStart, WriteSlot, WriteLaunch, WriteFailed, TargetSends, vars, upload,
     closing, download, FlagLimits
<1>2. CASE Wire
  <2>1. UNCHANGED <<closed, readErr, closePC, active>>
    BY <1>2 DEF Wire, Arrive, Forward, SendDone, closing, download
  <2>2. pipeErr' \in BOOLEAN
    BY <1>2, Zenon DEF Wire, Arrive, Forward, SendDone, SendFails, FlagLimits
  <2> QED BY <2>1, <2>2 DEF FlagLimits
<1>3. CASE StreamStep
  BY <1>3 DEF StreamStep, StreamCheck, StreamOpen, StreamOpenError, StreamGone, StreamWait,
     StreamRead, StreamPush, StreamDies, upload, closing, download, FlagLimits
<1>4. CASE ReadStep
  <2>1. UNCHANGED <<pipeErr, closed, closePC, active>>
    BY <1>4 DEF ReadStep, ReadBuffered, ReadChunk, ReadEnd, closing, upload
  <2>2. readErr' = readErr \/ readErr' = TRUE
    BY <1>4 DEF ReadStep, ReadBuffered, ReadChunk, ReadEnd
  <2> QED BY <2>1, <2>2, Zenon DEF FlagLimits
<1>5. CASE Close
  <2>1. UNCHANGED <<pipeErr, readErr>>
    BY <1>5, Zenon DEF Close, CloseStart, CloseNotify, CloseDone, upload, download
  <2>2. closed' = closed \/ closed' = TRUE
    BY <1>5, Zenon DEF Close, CloseStart, CloseNotify, CloseDone
  <2>3. /\ closePC' \in {"open", "notify", "sent", "done"}
        /\ active' = IF closePC' = "done" THEN 0 ELSE 1
    <3>1. active = IF closePC = "done" THEN 0 ELSE 1
      BY Zenon DEF FlagLimits
    <3>2. \/ closePC = "open" /\ closePC' = "notify" /\ active' = active
          \/ closePC = "notify" /\ closePC' = "sent" /\ active' = active
          \/ closePC = "sent" /\ closePC' = "done" /\ active' = active - 1
      BY <1>5, Zenon DEF Close, CloseStart, CloseNotify, CloseDone
    <3> QED BY <3>1, <3>2
  <2> QED BY <2>1, <2>2, <2>3, ZenonT(60) DEF FlagLimits
<1> QED BY <1>1, <1>2, <1>3, <1>4, <1>5 DEF Next

\* The stream loop's counters.
LEMMA CounterStep ==
  ASSUME StreamLimits, [Next]_vars
  PROVE  StreamLimits'
<1>1. ReportInv'
  BY ReportStep DEF StreamLimits
<1>2. CASE StreamOpenError \/ StreamDies
  BY <1>1, <1>2, StreamAssumption DEF StreamOpenError, StreamDies, RenewOrGiveUp, StreamLimits
<1>3. CASE StreamCheck \/ StreamOpen \/ StreamGone \/ StreamWait \/ StreamRead \/ StreamPush
  BY <1>1, <1>3, StreamAssumption DEF StreamCheck, StreamOpen, StreamGone, StreamWait, StreamRead,
     StreamPush, PushChunk, PushAborted, counters, StreamLimits
<1>4. CASE Write \/ Wire \/ TargetSends \/ ReadStep \/ Close \/ UNCHANGED vars
  <2>1. UNCHANGED <<spc, counters>>
    BY <1>4, Zenon DEF Write, WriteStart, WriteSlot, WriteLaunch, WriteFailed, Wire, Arrive, Forward,
       SendDone, TargetSends, ReadStep, ReadBuffered, ReadChunk, ReadEnd, Close, CloseStart,
       CloseNotify, CloseDone, vars
  <2> QED BY <1>1, <2>1 DEF counters, StreamLimits
<1> QED BY <1>2, <1>3, <1>4 DEF Next, StreamStep

\* The download's limits.
LEMMA ChannelStep ==
  ASSUME DownLimits, [Next]_vars
  PROVE  DownLimits'
<1>1. CASE StreamRead
  <2>1. PICK n \in 1..2 : /\ handed + n <= emitted /\ handed' = handed + n
                          /\ chunk' = Bytes(handed + 1, handed + n)
    BY <1>1 DEF StreamRead
  <2>2. UNCHANGED <<emitted, dataChan>>
    BY <1>1 DEF StreamRead
  <2>3. handed' \in 0..emitted
    BY <2>1, ConnBoundAssumption DEF DownLimits
  <2>4. chunk' = [i \in 1..n |-> handed + i]
    BY <2>1, ConnBoundAssumption DEF DownLimits, Bytes
  <2>5. chunk' \in Seq(Nat)
    BY <2>4, ConnBoundAssumption DEF DownLimits
  <2> QED BY <2>2, <2>3, <2>5 DEF DownLimits
<1>2. CASE StreamPush
  <2>1. UNCHANGED <<emitted, handed>> /\ chunk' = <<>>
    BY <1>2 DEF StreamPush
  <2>2. dataChan' = dataChan \/ (Len(dataChan) < ChanDepth /\ dataChan' = Append(dataChan, chunk))
    BY <1>2 DEF StreamPush, PushChunk, PushAborted
  <2>3. dataChan' \in Seq(Seq(Nat)) /\ Len(dataChan') <= ChanDepth
    <3>1. Len(dataChan) \in Nat /\ Append(dataChan, chunk) \in Seq(Seq(Nat))
          /\ Len(Append(dataChan, chunk)) = Len(dataChan) + 1
      BY DEF DownLimits
    <3>2. CASE dataChan' = dataChan
      BY <3>2 DEF DownLimits
    <3>3. CASE Len(dataChan) < ChanDepth /\ dataChan' = Append(dataChan, chunk)
      <4>1. Len(dataChan) + 1 <= ChanDepth
        BY <3>1, <3>3, WidthAssumption
      <4> QED BY <3>1, <3>3, <4>1
    <3> QED BY <2>2, <3>2, <3>3
  <2> QED BY <2>1, <2>3 DEF DownLimits
<1>3. CASE ReadChunk
  <2>1. UNCHANGED <<emitted, handed, chunk>> /\ dataChan # <<>> /\ dataChan' = Tail(dataChan)
    BY <1>3 DEF ReadChunk
  <2>2. dataChan' \in Seq(Seq(Nat)) /\ Len(dataChan') <= ChanDepth
    BY <2>1, WidthAssumption DEF DownLimits
  <2> QED BY <2>1, <2>2 DEF DownLimits
<1>4. CASE TargetSends
  BY <1>4, ConnBoundAssumption DEF TargetSends, DownLimits
<1>5. CASE \/ StreamCheck \/ StreamOpen \/ StreamOpenError \/ StreamGone \/ StreamWait \/ StreamDies
           \/ ReadBuffered \/ ReadEnd \/ UNCHANGED vars
  BY <1>5 DEF StreamCheck, StreamOpen, StreamOpenError, StreamGone, StreamWait,
     StreamDies,
     ReadBuffered, ReadEnd, vars, download, DownLimits
<1>6. CASE Write \/ Wire \/ Close
  BY <1>6, Zenon DEF Write, WriteStart, WriteSlot, WriteLaunch, WriteFailed, Wire, Arrive, Forward,
     SendDone, Close, CloseStart, CloseNotify, CloseDone, download, DownLimits
<1> QED BY <1>1, <1>2, <1>3, <1>4, <1>5, <1>6 DEF Next, StreamStep, ReadStep

\* For any width, depth and retry limits, every counter of the connection
\* keeps its limit: no more POSTs in flight than pipeSem has slots, dataChan
\* within its capacity, and reports within the renewals (src/session.go).
THEOREM LimitsCorrect == Spec => []LimitsKept
<1>1. Init => LimitInv
  <2> SUFFICES ASSUME Init PROVE LimitInv
    OBVIOUS
  <2>1. Pipelined = {} /\ Cardinality({}) = 0 /\ IsFiniteSet(sending)
    BY FS_EmptySet DEF Init, Pipelined
  <2>2. UploadLimits
    BY <2>1, WidthAssumption, ConnBoundAssumption DEF Init, UploadLimits, InHand
  <2>3. FlagLimits
    BY Zenon DEF Init, FlagLimits
  <2>4. StreamLimits
    BY StreamAssumption DEF Init, StreamLimits, ReportInv
  <2>5. DownLimits
    BY ConnBoundAssumption, WidthAssumption DEF Init, DownLimits
  <2> QED BY <2>2, <2>3, <2>4, <2>5 DEF LimitInv
<1>2. LimitInv /\ [Next]_vars => LimitInv'
  BY UploadStep, FlagStep, CounterStep, ChannelStep DEF LimitInv
<1>3. LimitInv => LimitsKept
  <2> SUFFICES ASSUME LimitInv PROVE LimitsKept
    OBVIOUS
  <2>1. SlotsTaken <= PipeWidth
    BY DEF LimitInv, UploadLimits, SlotsTaken, Pipelined, InHand
  <2>2. TypeOK
    BY <2>1 DEF LimitInv, UploadLimits, FlagLimits, StreamLimits, DownLimits, ReportInv, TypeOK
  <2>3. ReportsBounded
    BY StreamAssumption DEF LimitInv, StreamLimits, ReportInv, ReportsBounded
  <2> QED BY <2>2, <2>3 DEF LimitsKept
<1> QED BY <1>1, <1>2, <1>3, PTL DEF Spec
=============================================================================
