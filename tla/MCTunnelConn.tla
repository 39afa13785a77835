---------------------------- MODULE MCTunnelConn ----------------------------
(* A connection used for writing, with more Writes than slots while the      *)
(* stream is quiet until Close; for reading, with a stream that fails in     *)
(* every way; or for both, with one Write and one byte.  Only steps that     *)
(* nothing obliges the program to take are left out.                         *)
EXTENDS TunnelConn

VARIABLE load

MCInit == Init /\ load \in {"writes", "reads", "both"} /\ (load = "writes" => emitted = 0)

MCNext ==
    /\ Next /\ UNCHANGED load
    /\ load = "writes" => emitted' = 0 /\ (~closed => UNCHANGED counters)
    /\ load = "reads" => ~WriteStart
    /\ load = "both" => emitted' <= 1 /\ ~(accepted = 1 /\ WriteStart)

MCSpec == MCInit /\ [][MCNext]_<<vars, load>> /\ Fairness
=============================================================================
