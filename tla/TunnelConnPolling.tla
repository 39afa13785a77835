-------------------------- MODULE TunnelConnPolling --------------------------
(***************************************************************************)
(* One TunnelConn in polling mode (src/session.go with streamFn = nil), as *)
(* NewTunnelDialerPolling and NewUDPRelayDialer create it.  Write blocks   *)
(* for its POST and buffers the bytes its answer carries; Read drains the  *)
(* buffer or sends empty POSTs.  relayConns runs one goroutine of each, so *)
(* one Write and one poll can be in flight together.                       *)
(*                                                                         *)
(* Bytes from the target are numbered in order.  The server (external)     *)
(* answers a POST with the next bytes it holds, possibly none.             *)
(***************************************************************************)
EXTENDS Integers, Sequences, FiniteSets, Functions

CONSTANTS
    MaxWrites,  \* bound: Write calls
    MaxBytes    \* bound: bytes the target sends

ASSUME PollingBoundAssumption == MaxWrites \in Nat /\ MaxBytes \in Nat

VARIABLES
    closed,
    wpc, rpc,      \* each goroutine: idle, sent (POST at the server), answered, back (Read's 2 s wait)
    wresp, rresp,  \* the answer on its way to it
    writes,        \* Writes started
    emitted,       \* bytes the target has sent
    handed,        \* bytes the server has put into answers
    readBuf,
    received,      \* bytes Read has returned
    lost           \* bytes in answers that never arrived

pvars == <<closed, wpc, rpc, wresp, rresp, writes, emitted, handed, readBuf, received, lost>>

Bytes(from, to) == [i \in 1..(to - from + 1) |-> from + i - 1]

\* The initial answer of Dial may have left a byte in readBuf.
PInit ==
    /\ closed = FALSE /\ wpc = "idle" /\ rpc = "idle" /\ wresp = <<>> /\ rresp = <<>>
    /\ writes = 0 /\ emitted \in {0, 1} \cap 0..MaxBytes /\ handed = emitted
    /\ readBuf = Bytes(1, emitted) /\ received = <<>> /\ lost = {}

-----------------------------------------------------------------------------
(* Write: the synchronous branch                                           *)

Write ==
    /\ wpc = "idle" /\ ~closed /\ writes < MaxWrites
    /\ writes' = writes + 1
    /\ wpc' = "sent"
    /\ UNCHANGED <<closed, rpc, wresp, rresp, emitted, handed, readBuf, received, lost>>

\* Inline bytes go behind what is buffered already.
BufferInline(resp) == readBuf' = readBuf \o resp

WriteReturn ==
    /\ wpc = "answered"
    /\ BufferInline(wresp)
    /\ wpc' = "idle" /\ wresp' = <<>>
    /\ UNCHANGED <<closed, rpc, rresp, writes, emitted, handed, received, lost>>

-----------------------------------------------------------------------------
(* Read                                                                    *)

\* Locally buffered bytes first.
ReadBuffered ==
    /\ rpc = "idle" /\ readBuf # <<>>
    /\ \E n \in 1..Len(readBuf) :
         /\ received' = received \o SubSeq(readBuf, 1, n)
         /\ readBuf' = SubSeq(readBuf, n + 1, Len(readBuf))
    /\ UNCHANGED <<closed, wpc, rpc, wresp, rresp, writes, emitted, handed, lost>>

\* With an empty buffer the poll loop starts.
Poll ==
    /\ rpc = "idle" /\ ~closed /\ readBuf = <<>>
    /\ rpc' = "sent"
    /\ UNCHANGED <<closed, wpc, wresp, rresp, writes, emitted, handed, readBuf, received, lost>>

\* Mutant: the rest of an answer that does not fit is dropped.
ReturnPolledNoRest(resp, n) == received' = received \o SubSeq(resp, 1, n) /\ UNCHANGED readBuf

\* The answer goes straight to the caller; what does not fit is appended to
\* readBuf.
ReturnPolled(resp, n) ==
    /\ received' = received \o SubSeq(resp, 1, n)
    /\ readBuf' = readBuf \o SubSeq(resp, n + 1, Len(resp))

PollData ==
    /\ rpc = "answered" /\ rresp # <<>>
    /\ \E n \in 1..Len(rresp) : ReturnPolled(rresp, n)
    /\ rpc' = "idle" /\ rresp' = <<>>
    /\ UNCHANGED <<closed, wpc, wresp, writes, emitted, handed, lost>>

\* An empty answer: the loop polls again at once, without a look at readBuf.
PollEmpty ==
    /\ rpc = "answered" /\ rresp = <<>>
    /\ rpc' = IF closed THEN "idle" ELSE "sent"
    /\ UNCHANGED <<closed, wpc, wresp, rresp, writes, emitted, handed, readBuf, received, lost>>

\* After a failed poll Read waits two seconds or for Close, then returns.
PollBackoffOver ==
    /\ rpc = "back"
    /\ rpc' = "idle"
    /\ UNCHANGED <<closed, wpc, wresp, rresp, writes, emitted, handed, readBuf, received, lost>>

-----------------------------------------------------------------------------
(* The server and the network                                              *)

TargetSends ==
    /\ emitted < MaxBytes
    /\ emitted' = emitted + 1
    /\ UNCHANGED <<closed, wpc, rpc, wresp, rresp, writes, handed, readBuf, received, lost>>

\* The server answers the Write or the poll with up to two of its bytes.
Serve ==
    \E n \in 0..2 :
        /\ handed + n <= emitted
        /\ handed' = handed + n
        /\ \/ wpc = "sent" /\ wpc' = "answered" /\ wresp' = Bytes(handed + 1, handed + n)
              /\ UNCHANGED <<rpc, rresp>>
           \/ rpc = "sent" /\ rpc' = "answered" /\ rresp' = Bytes(handed + 1, handed + n)
              /\ UNCHANGED <<wpc, wresp>>
        /\ UNCHANGED <<closed, writes, emitted, readBuf, received, lost>>

\* A POST fails, before or after the server answered it: Write returns the
\* error, Read does after its wait.  The answer's bytes are gone.
WriteFails ==
    /\ wpc \in {"sent", "answered"}
    /\ wpc' = "idle" /\ wresp' = <<>>
    /\ lost' = lost \cup Range(wresp)
    /\ UNCHANGED <<closed, rpc, rresp, writes, emitted, handed, readBuf, received>>

PollFails ==
    /\ rpc \in {"sent", "answered"}
    /\ rpc' = "back" /\ rresp' = <<>>
    /\ lost' = lost \cup Range(rresp)
    /\ UNCHANGED <<closed, wpc, wresp, writes, emitted, handed, readBuf, received>>

\* Close stops new polls and Writes; its own frame's answer is discarded.
PollClose ==
    /\ ~closed
    /\ closed' = TRUE
    /\ \E n \in 0..(emitted - handed) :
         handed' = handed + n /\ lost' = lost \cup (handed + 1)..(handed + n)
    /\ UNCHANGED <<wpc, rpc, wresp, rresp, writes, emitted, readBuf, received>>

-----------------------------------------------------------------------------
Reader == ReadBuffered \/ Poll \/ PollData \/ PollEmpty \/ PollBackoffOver

PNext == \/ Write \/ WriteReturn \/ Reader \/ TargetSends
         \/ Serve \/ WriteFails \/ PollFails \/ PollClose

PSpec == PInit /\ [][PNext]_pvars

-----------------------------------------------------------------------------
\* Every variable stays in its domain.
PTypeOK ==
    /\ closed \in BOOLEAN
    /\ wpc \in {"idle", "sent", "answered"} /\ rpc \in {"idle", "sent", "answered", "back"}
    /\ writes \in 0..MaxWrites /\ emitted \in 0..MaxBytes /\ handed \in 0..emitted
    /\ lost \subseteq 1..MaxBytes
    /\ \A s \in {wresp, rresp, readBuf, received} : Range(s) \subseteq 1..handed

\* Every byte the server has handed out is in exactly one place: in an answer
\* under way, in readBuf, with the caller, or lost with a failed POST.
EachByteOnce ==
    /\ Len(wresp) + Len(rresp) + Len(readBuf) + Len(received) + Cardinality(lost) = handed
    /\ Range(wresp \o rresp \o readBuf \o received) \cup lost = 1..handed

\* Write and Read goroutines that both receive bytes of the target neither lose
\* nor double one: the buffers hold only what was handed out, each byte once.
BytesSound == PTypeOK /\ EachByteOnce

\* "TunnelConn is a net.Conn ... Callers use it like a regular TCP
\* connection": Read returns the bytes in the order the target sent them.
DownloadInOrder == \A i, j \in 1..Len(received) : i < j => received[i] < received[j]
=============================================================================
