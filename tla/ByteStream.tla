----------------------------- MODULE ByteStream -----------------------------
(***************************************************************************)
(* What one direction of a net.Conn promises (src/session.go: "Callers use *)
(* it like a regular TCP connection"): the reading end gets what the       *)
(* writing end accepted, in order, each unit once, with nothing missing in *)
(* between.  Units are numbered in the order they are accepted.            *)
(***************************************************************************)
EXTENDS Naturals, Sequences

VARIABLES
    written,   \* the number of units accepted from the writer
    read       \* the units handed to the reader

vars == <<written, read>>

InOrder(s) == \A i \in 1..Len(s) : s[i] = i

Init == written \in Nat /\ read = <<>>

Accept == written' > written /\ read' = read

\* The next units, one or more, reach the reader.
Deliver ==
    /\ written' = written
    /\ Len(read') > Len(read)
    /\ Len(read') <= written
    /\ SubSeq(read', 1, Len(read)) = read
    /\ InOrder(read')

Next == Accept \/ Deliver

Spec == Init /\ [][Next]_vars
=============================================================================
