------------------------------ MODULE MCContent ------------------------------
(* The content mirror, the fetching of chunks and the gossip, side by side:  *)
(* they share no state here, so a behaviour is one of one of the three.      *)
EXTENDS Mirror, ChunkPool, Gossip

VARIABLE side

\* Two manifests over two files: one file changes, the other is dropped.
MCVersions  == 1..2
MCManifests == << [a |-> 1, b |-> 1], [a |-> 2, b |-> 0] >>

\* The fetchers ask for different chunks.
MCWants == [f \in Fetchers |-> IF f = "f1" THEN 1 ELSE 2]

\* The control tells a, a tells b.
MCNear == [n \in Nodes |-> CASE n = Origin -> {"a"} [] n = "a" -> {"b"} [] OTHER -> {}]

all == <<vars, cvars, gvars, side>>

MCInit == Init /\ CInit /\ GInit /\ side \in {"mirror", "pool", "gossip"}

MCNext ==
    \/ side = "mirror" /\ Next /\ UNCHANGED <<cvars, gvars, side>>
    \/ side = "pool" /\ CNext /\ UNCHANGED <<vars, gvars, side>>
    \/ side = "gossip" /\ GNext /\ UNCHANGED <<vars, cvars, side>>

MCSpec == MCInit /\ [][MCNext]_all /\ Fairness /\ CFairness /\ GFairness
=============================================================================
