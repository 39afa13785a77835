------------------------------ MODULE LogRing ------------------------------
(* The ring buffer that keeps the latest log output for upload              *)
(* (src/log_upload.go, type ringBuffer).  Write and Snapshot hold rb.mu, so *)
(* each is one step.  The bytes are numbered in the order they are logged.  *)
EXTENDS Integers

CONSTANTS
    Capacity,   \* len(rb.buf), logRingSize
    MaxLogged   \* bound of the model: bytes logged

ASSUME RingAssumption == Capacity \in Nat \ {0} /\ MaxLogged \in Nat

VARIABLES
    buf, pos, full,  \* the fields of ringBuffer; 0 is a byte never written
    logged           \* how many bytes have been logged

rvars == <<buf, pos, full, logged>>

RInit ==
    /\ buf = [i \in 0..(Capacity - 1) |-> 0] /\ pos = 0 /\ full = FALSE
    /\ logged = 0

\* copy(rb.buf[at:], p) for the n bytes p that follow the first `from` bytes
\* logged: what does not fit is left out.
CopyTo(b, at, from, n) ==
    [i \in DOMAIN b |-> IF at <= i /\ i < at + n THEN from + (i - at) + 1 ELSE b[i]]

\* A Write of at least the capacity keeps its end only.
WriteAll(n) ==
    /\ n >= Capacity
    /\ buf' = CopyTo(buf, 0, logged + n - Capacity, Capacity)
    /\ pos' = 0 /\ full' = TRUE

\* Mutant: the last byte of the buffer is skipped when a write wraps.
FirstPieceShort == Capacity - pos - 1

FirstPiece == Capacity - pos

\* A shorter Write goes on where the last one ended, in two pieces if it does
\* not fit.  One that ends with the buffer sets pos to 0 and leaves full.
WritePart(n) ==
    LET end == pos + n
        first == FirstPiece
    IN /\ n < Capacity
       /\ IF end <= Capacity
          THEN buf' = CopyTo(buf, pos, logged, n) /\ full' = full
          ELSE /\ buf' = CopyTo(CopyTo(buf, pos, logged, first), 0, logged + first, n - first)
               /\ full' = TRUE
       /\ pos' = end % Capacity

LogWrite(n) ==
    /\ logged + n <= MaxLogged
    /\ WriteAll(n) \/ WritePart(n)
    /\ logged' = logged + n

RNext == \E n \in 1..MaxLogged : LogWrite(n)

RSpec == RInit /\ [][RNext]_rvars

-----------------------------------------------------------------------------
\* What Snapshot returns: the oldest bytes are at pos once the ring is full.
SnapshotLen == IF full THEN Capacity ELSE pos

Snapshot ==
    [i \in 1..SnapshotLen |->
        IF ~full THEN buf[i - 1]
        ELSE IF i <= Capacity - pos THEN buf[pos + i - 1] ELSE buf[i - 1 - (Capacity - pos)]]

\* What is uploaded is the end of the log, each byte once and in order, and
\* once the ring has wrapped it is a whole bufferful: Write's pieces and
\* Snapshot's pieces fit together at every boundary.
SnapshotIsRecent ==
    /\ SnapshotLen \in 0..Capacity
    /\ SnapshotLen <= logged
    /\ \A i \in 1..SnapshotLen : Snapshot[i] = logged - SnapshotLen + i
=============================================================================
