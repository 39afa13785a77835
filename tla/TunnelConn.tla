----------------------------- MODULE TunnelConn -----------------------------
(***************************************************************************)
(* One TunnelConn in streaming mode (src/session.go): the pipelined Write, *)
(* Read, the stream loop that feeds dataChan, and Close.  The connection   *)
(* has been dialled: sequence number 0 is spent.                           *)
(*                                                                         *)
(* Upload units are Write payloads, download units are bytes; both are     *)
(* numbered in the order in which their source produced them.  The server  *)
(* (not in this repository) puts uploads back in sequence order, as        *)
(* tunnelPipelineWidth requires, and continues the download on the next    *)
(* stream after the last byte the client read from the previous one.       *)
(***************************************************************************)
EXTENDS Integers, Sequences, FiniteSets

CONSTANTS
    PipeWidth,       \* tunnelPipelineWidth, capacity of pipeSem
    ChanDepth,       \* capacity of dataChan
    MaxFlaps,        \* streamMaxFlaps
    MaxOpenErrors,   \* streamMaxOpenErrors
    MaxRenewals,     \* maxRenewals of Dial's renewStream
    MaxWrites,       \* bound: Write calls that are accepted
    MaxBytes         \* bound: bytes the target sends

ASSUME WidthAssumption == PipeWidth \in Nat \ {0} /\ ChanDepth \in Nat \ {0}
ASSUME StreamAssumption ==
    MaxFlaps \in Nat \ {0} /\ MaxOpenErrors \in Nat \ {0} /\ MaxRenewals \in Nat
ASSUME ConnBoundAssumption == MaxWrites \in Nat /\ MaxBytes \in Nat

VARIABLES
    seq,         \* next sequence number
    wpc,         \* the writer: idle, waiting for a slot, holding one, or failed
    accepted,    \* number of Writes that returned success
    sending,     \* in-flight POSTs, [seq, data]; data 0 is Close's empty frame
    pipeErr,     \* pipeErr is set
    srvBuf,      \* server: frames received, by sequence number
    srvNext,     \* server: the sequence number it forwards next
    delivered,   \* server: payloads forwarded to the target
    closed,      \* the closed channel is closed, and ctx is cancelled
    closePC,     \* Close: not called, notifying, done
    closeSeq,    \* the sequence number of Close's frame, 0 before
    active,      \* this connection's share of activeConns
    spc,         \* the stream loop
    openErrors, flaps, renewals,   \* its counters
    deadReports, \* recordStreamDead calls
    emitted,     \* bytes the target has sent
    handed,      \* bytes the client has read from stream bodies
    chunk,       \* the chunk being pushed into dataChan
    dataChan,    \* chunks, each a sequence of bytes
    readBuf,     \* bytes left over from the last chunk
    received,    \* bytes Read has returned
    readErr      \* Read has returned ErrClosed

upload   == <<seq, wpc, accepted, sending, pipeErr, srvBuf, srvNext, delivered>>
closing  == <<closed, closePC, closeSeq, active>>
counters == <<openErrors, flaps, renewals, deadReports>>
download == <<emitted, handed, chunk, dataChan, readBuf, received, readErr>>
vars == <<upload, closing, spc, counters, download>>

Bytes(from, to) == [i \in 1..(to - from + 1) |-> from + i - 1]

\* The answer to the initial request may already carry a byte.
Init ==
    /\ seq = 1 /\ wpc = "idle" /\ accepted = 0 /\ sending = {} /\ pipeErr = FALSE
    /\ srvBuf = <<>> /\ srvNext = 1 /\ delivered = <<>>
    /\ closed = FALSE /\ closePC = "open" /\ closeSeq = 0 /\ active = 1
    /\ spc = "check" /\ openErrors = 0 /\ flaps = 0 /\ renewals = 0 /\ deadReports = 0
    /\ emitted \in {0, 1} \cap 0..MaxBytes
    /\ handed = emitted
    /\ chunk = <<>> /\ dataChan = <<>> /\ readBuf = Bytes(1, emitted)
    /\ received = <<>> /\ readErr = FALSE

-----------------------------------------------------------------------------
(* Write                                                                   *)

\* The checks on entry: a pipeline error or a closed connection is returned.
WriteStart ==
    /\ wpc = "idle" /\ accepted < MaxWrites
    /\ wpc' = IF pipeErr \/ closed THEN "failed" ELSE "slot"
    /\ UNCHANGED <<seq, accepted, sending, pipeErr, srvBuf, srvNext, delivered, closing, spc, counters, download>>

SlotsTaken == Cardinality(sending \ {f \in sending : f.data = 0}) + (IF wpc = "launch" THEN 1 ELSE 0)

SlotFree == SlotsTaken < PipeWidth

\* select { pipeSem <- | <-closed }: either ready case may be chosen.
WriteSlot ==
    /\ wpc = "slot"
    /\ \/ SlotFree /\ wpc' = "launch"
       \/ closed /\ wpc' = "failed"
    /\ UNCHANGED <<seq, accepted, sending, pipeErr, srvBuf, srvNext, delivered, closing, spc, counters, download>>

\* Mutant: pipeErr is not looked at again once the slot is there.
WriteRefusedNever == FALSE

\* The second look at pipeErr, with the slot in hand.
WriteRefused == pipeErr

\* Mutant: the goroutines number their frames, in the order they get to run.
LaunchFrameLate(d) ==
    \E s \in 1..(seq + 1) :
        /\ \A f \in sending : f.seq # s
        /\ sending' = sending \cup {[seq |-> s, data |-> d]}

\* The frame is numbered before its goroutine starts.
LaunchFrame(d) == sending' = sending \cup {[seq |-> seq, data |-> d]}

\* Re-check, NextSeq, start the send and report success to the caller.
WriteLaunch ==
    /\ wpc = "launch"
    /\ IF WriteRefused
       THEN wpc' = "failed" /\ UNCHANGED <<seq, accepted, sending>>
       ELSE /\ LaunchFrame(accepted + 1)
            /\ seq' = seq + 1
            /\ accepted' = accepted + 1
            /\ wpc' = "idle"
    /\ UNCHANGED <<pipeErr, srvBuf, srvNext, delivered, closing, spc, counters, download>>

\* Write returned an error to its caller, which may try again.
WriteFailed ==
    /\ wpc = "failed"
    /\ wpc' = "idle"
    /\ UNCHANGED <<seq, accepted, sending, pipeErr, srvBuf, srvNext, delivered, closing, spc, counters, download>>

\* A POST reaches the server (and may still fail on its way back).
Arrive ==
    /\ \E f \in sending :
         /\ f.seq \notin DOMAIN srvBuf
         /\ srvBuf' = [s \in DOMAIN srvBuf \cup {f.seq} |-> IF s = f.seq THEN f.data ELSE srvBuf[s]]
    /\ UNCHANGED <<seq, wpc, accepted, sending, pipeErr, srvNext, delivered, closing, spc, counters, download>>

\* The server forwards frames in sequence order; Close's frame carries none.
Forward ==
    /\ srvNext \in DOMAIN srvBuf
    /\ srvNext' = srvNext + 1
    /\ delivered' = IF srvBuf[srvNext] = 0 THEN delivered
                                          ELSE Append(delivered, srvBuf[srvNext])
    /\ UNCHANGED <<seq, wpc, accepted, sending, pipeErr, srvBuf, closing, spc, counters, download>>

\* Mutant: a failed send is only logged.
SendFailsQuietly(f) == UNCHANGED pipeErr

\* The first error of any pipeline goroutine stays in pipeErr.
SendFails(f) == pipeErr' = (pipeErr \/ f.data # 0)

\* A POST ends: the slot is released, an error goes to pipeErr.  Close
\* ignores the outcome of its own frame.
SendDone ==
    /\ \E f \in sending :
         /\ sending' = sending \ {f}
         /\ \/ f.seq \in DOMAIN srvBuf /\ UNCHANGED pipeErr
            \/ SendFails(f)
    /\ UNCHANGED <<seq, wpc, accepted, srvBuf, srvNext, delivered, closing, spc, counters, download>>

-----------------------------------------------------------------------------
(* The stream loop                                                         *)

\* Top of the loop.
StreamCheck ==
    /\ spc = "check"
    /\ spc' = IF closed THEN "done" ELSE "opening"
    /\ UNCHANGED <<upload, closing, counters, download>>

MayRenew == renewals < MaxRenewals

\* Mutant: a renewal is not counted.
RenewUncounted ==
    /\ deadReports' = deadReports + 1
    /\ openErrors' = 0 /\ flaps' = 0
    /\ spc' = IF MayRenew THEN "check" ELSE "done"
    /\ UNCHANGED renewals

\* renewStream and, when it is used up, giveUp with controlFailure.  Both
\* report to the dialer; a renewal starts the counters afresh.
RenewOrGiveUp ==
    /\ deadReports' = deadReports + 1
    /\ IF MayRenew
       THEN /\ renewals' = renewals + 1
            /\ openErrors' = 0 /\ flaps' = 0
            /\ spc' = "check"
       ELSE /\ spc' = "done"
            /\ UNCHANGED <<openErrors, flaps, renewals>>

\* streamFn succeeds; not after Close, which cancels its context.
StreamOpen ==
    /\ spc = "opening" /\ ~closed
    /\ spc' = "reading"
    /\ openErrors' = 0
    /\ UNCHANGED <<upload, closing, flaps, renewals, deadReports, download>>

\* streamFn fails, for instance because Close cancelled it.
StreamOpenError ==
    /\ spc = "opening"
    /\ IF openErrors + 1 >= MaxOpenErrors
       THEN RenewOrGiveUp
       ELSE /\ openErrors' = openErrors + 1
            /\ flaps' = 0
            /\ spc' = "wait"
            /\ UNCHANGED <<renewals, deadReports>>
    /\ UNCHANGED <<upload, closing, download>>

\* The exit answers 404: it has closed the connection, and the loop ends
\* without a report.
StreamGone ==
    /\ spc = "opening" /\ ~closed
    /\ spc' = "done"
    /\ UNCHANGED <<upload, closing, counters, download>>

\* The backoff after an error or a flap, cut short by Close.
StreamWait ==
    /\ spc = "wait"
    /\ spc' = IF closed THEN "done" ELSE "check"
    /\ UNCHANGED <<upload, closing, counters, download>>

\* body.Read returns one or two bytes.
StreamRead ==
    /\ spc = "reading"
    /\ \E n \in 1..2 :
         /\ handed + n <= emitted
         /\ chunk' = Bytes(handed + 1, handed + n)
         /\ handed' = handed + n
    /\ spc' = "push"
    /\ UNCHANGED <<upload, closing, counters, emitted, dataChan, readBuf, received, readErr>>

\* dataChan <- chunk, which blocks while the channel is full.
PushChunk ==
    /\ Len(dataChan) < ChanDepth
    /\ dataChan' = Append(dataChan, chunk)
    /\ spc' = "reading"

\* Mutant: a loop blocked on a full channel does not look at closed.
PushAbortedNever == FALSE /\ spc' = "done" /\ UNCHANGED dataChan

\* <-closed wins the select: the chunk is dropped and the loop ends.
PushAborted == closed /\ spc' = "done" /\ UNCHANGED dataChan

StreamPush ==
    /\ spc = "push"
    /\ PushChunk \/ PushAborted
    /\ chunk' = <<>>
    /\ UNCHANGED <<upload, closing, counters, emitted, handed, readBuf, received, readErr>>

\* body.Read fails.  A stream that lived less than streamMinLifetime is a flap.
StreamDies ==
    /\ spc = "reading"
    /\ \/ IF flaps + 1 >= MaxFlaps
          THEN RenewOrGiveUp
          ELSE /\ flaps' = flaps + 1
               /\ spc' = "wait"
               /\ UNCHANGED <<openErrors, renewals, deadReports>>
       \/ /\ flaps' = 0
          /\ spc' = "check"
          /\ UNCHANGED <<openErrors, renewals, deadReports>>
    /\ UNCHANGED <<upload, closing, download>>

StreamStep ==
    \/ StreamCheck \/ StreamOpen \/ StreamOpenError \/ StreamGone \/ StreamWait
    \/ StreamRead \/ StreamPush \/ StreamDies

-----------------------------------------------------------------------------
(* Read, and the target that feeds it                                      *)

TargetSends ==
    /\ emitted < MaxBytes
    /\ emitted' = emitted + 1
    /\ UNCHANGED <<upload, closing, spc, counters, handed, chunk, dataChan, readBuf, received, readErr>>

\* Read hands n bytes of s to the caller and keeps the rest.
Take(s, n) ==
    /\ received' = received \o SubSeq(s, 1, n)
    /\ readBuf' = SubSeq(s, n + 1, Len(s))

\* Mutant: the rest that is kept begins one byte too early.
TakeFromChunkOverlap(n) ==
    /\ received' = received \o SubSeq(Head(dataChan), 1, n)
    /\ readBuf' = SubSeq(Head(dataChan), n, Len(Head(dataChan)))

TakeFromChunk(n) == Take(Head(dataChan), n)

ReadBuffered ==
    /\ ~readErr /\ readBuf # <<>>
    /\ \E n \in 1..Len(readBuf) : Take(readBuf, n)
    /\ UNCHANGED <<upload, closing, spc, counters, emitted, handed, chunk, dataChan, readErr>>

ReadChunk ==
    /\ ~readErr /\ readBuf = <<>> /\ dataChan # <<>>
    /\ \E n \in 1..Len(Head(dataChan)) : TakeFromChunk(n)
    /\ dataChan' = Tail(dataChan)
    /\ UNCHANGED <<upload, closing, spc, counters, emitted, handed, chunk, readErr>>

\* Mutant: the end is reported as soon as the loop has given up.
StreamEndedEarly == spc = "done"

\* A closed dataChan reports the end only once it has been drained.
StreamEnded == spc = "done" /\ dataChan = <<>>

ReadEnd ==
    /\ ~readErr /\ readBuf = <<>>
    /\ closed \/ StreamEnded
    /\ readErr' = TRUE
    /\ UNCHANGED <<upload, closing, spc, counters, emitted, handed, chunk, dataChan, readBuf, received>>

ReadStep == ReadBuffered \/ ReadChunk \/ ReadEnd

-----------------------------------------------------------------------------
(* Close, once                                                             *)

\* cancel() and close(closed), with nothing that blocks in between; a loop
\* that has only seen the cancellation is one in StreamOpenError.
CloseStart ==
    /\ closePC = "open"
    /\ closed' = TRUE
    /\ closePC' = "notify"
    /\ UNCHANGED <<closeSeq, active, upload, spc, counters, download>>

\* The best-effort final frame takes a sequence number of its own.
CloseNotify ==
    /\ closePC = "notify"
    /\ sending' = sending \cup {[seq |-> seq, data |-> 0]}
    /\ closeSeq' = seq
    /\ seq' = seq + 1
    /\ closePC' = "sent"
    /\ UNCHANGED <<closed, active, wpc, accepted, pipeErr, srvBuf, srvNext, delivered, spc, counters, download>>

\* onClose runs when the final frame has returned, successful or not.
CloseDone ==
    /\ closePC = "sent"
    /\ \A f \in sending : f.data # 0
    /\ closePC' = "done"
    /\ active' = active - 1
    /\ UNCHANGED <<closed, closeSeq, upload, spc, counters, download>>

-----------------------------------------------------------------------------
Write == WriteStart \/ WriteSlot \/ WriteLaunch \/ WriteFailed
Wire  == Arrive \/ Forward \/ SendDone
Close == CloseStart \/ CloseNotify \/ CloseDone

Next == Write \/ Wire \/ StreamStep \/ TargetSends \/ ReadStep \/ Close

Spec == Init /\ [][Next]_vars

\* The goroutines run, the HTTP client's timeouts end every POST and every
\* open, the caller keeps reading, and Close completes once called.  Nothing
\* makes the caller call Write or Close, or the target send.
Fairness ==
    /\ WF_vars(WriteSlot) /\ WF_vars(WriteLaunch) /\ WF_vars(WriteFailed)
    /\ WF_vars(Forward) /\ WF_vars(SendDone)
    /\ WF_vars(StreamCheck \/ StreamOpen \/ StreamOpenError \/ StreamGone \/ StreamWait)
    /\ WF_vars(StreamPush)
    /\ WF_vars(closed /\ StreamDies)
    /\ WF_vars(ReadStep)
    /\ WF_vars(CloseNotify) /\ WF_vars(CloseDone)

FairSpec == Spec /\ Fairness

-----------------------------------------------------------------------------
\* Every variable stays in its domain; in particular no more POSTs are in
\* flight than pipeSem has slots.
TypeOK ==
    /\ seq \in Nat \ {0} /\ accepted \in 0..MaxWrites /\ closeSeq \in Nat
    /\ wpc \in {"idle", "slot", "launch", "failed"}
    /\ sending \subseteq [seq : Nat, data : Nat]
    /\ SlotsTaken <= PipeWidth
    /\ DOMAIN srvBuf \subseteq Nat /\ srvNext \in Nat
    /\ pipeErr \in BOOLEAN /\ closed \in BOOLEAN /\ readErr \in BOOLEAN
    /\ closePC \in {"open", "notify", "sent", "done"} /\ active \in 0..1
    /\ spc \in {"check", "opening", "reading", "push", "wait", "done"}
    /\ openErrors \in 0..MaxOpenErrors /\ flaps \in 0..MaxFlaps
    /\ renewals \in 0..MaxRenewals /\ deadReports \in Nat
    /\ emitted \in 0..MaxBytes /\ handed \in 0..emitted
    /\ Len(dataChan) <= ChanDepth

Up   == INSTANCE ByteStream WITH written <- accepted, read <- delivered
Down == INSTANCE ByteStream WITH written <- emitted, read <- received

\* The upload is a byte stream: concurrent pipelined POSTs, failures and
\* Close never make the target see payloads out of order, twice or with a gap.
UploadIsByteStream == Up!Spec

\* The download is a byte stream across stream renewals, partial Reads and a
\* full channel.
DownloadIsByteStream == Down!Spec

\* Once any pipeline goroutine has failed no further Write reports success,
\* not even one that was already waiting for a slot.
NoWriteAcceptedAfterError == [][pipeErr => accepted' = accepted]_vars

\* A Write that reported success is forwarded to the target, or the failure
\* is latched for the next Write; a later Close does not cancel it.
AcceptedIsForwarded ==
    \A k \in 1..MaxWrites :
        accepted >= k /\ closeSeq = 0 ~> Len(delivered) >= k \/ pipeErr

\* When Read reports the end of a connection that nobody closed, every byte
\* the stream loop had taken from the server has been returned before.
EndOfStreamLosesNothing ==
    [][readErr' /\ ~readErr /\ ~closed => received = Bytes(1, handed)]_vars

\* One connection reports its control as failing at most once per renewal and
\* once for giving up, however its streams fail.
ReportsBounded == deadReports <= MaxRenewals + 1

\* Every limit of the connection holds however its goroutines interleave: the
\* slots of pipeSem, the depth of dataChan, flaps, open errors, renewals and
\* with them the reports against the control.
LimitsKept == TypeOK /\ ReportsBounded

\* Close ends the stream loop wherever it is blocked, makes Read return and
\* completes; a Write that waits for a slot returns.
CloseReleasesEveryone ==
    /\ closed ~> spc = "done" /\ readErr /\ closePC = "done"
    /\ wpc = "slot" ~> wpc = "idle"
=============================================================================
