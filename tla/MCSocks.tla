------------------------------ MODULE MCSocks ------------------------------
(* Two handlers behind a limiter of one slot, and one target of each kind.   *)
EXTENDS Socks
=============================================================================
