------------------------------- MODULE MCNode -------------------------------
(* A dialer shared by two goroutines and a DHT node with three peers for a   *)
(* bucket of two, side by side: they share no state, so a behaviour is one   *)
(* of one of the two.                                                        *)
EXTENDS TunnelDialer, Dht, TLC

VARIABLE side

MCInit == Init /\ DhtInit /\ side \in {"dialer", "dht"}

MCNext ==
    \/ side = "dialer" /\ Next /\ UNCHANGED <<dhtvars, side>>
    \/ side = "dht" /\ DhtNext /\ UNCHANGED <<vars, side>>

MCSpec == MCInit /\ [][MCNext]_<<vars, dhtvars, side>>

MCSymmetry == {c @@ p : c \in Permutations(Conns), p \in Permutations(Peers)}
=============================================================================
