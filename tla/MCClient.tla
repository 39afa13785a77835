------------------------------ MODULE MCClient ------------------------------
(* A UDP session with a directly tried destination and a DNS server, a       *)
(* polling connection, the decoding of frames, the log's ring buffer and the *)
(* discovery of controls, side by side: they share no state, so a behaviour  *)
(* is one of one of them.                                                    *)
EXTENDS UDPAssoc, TunnelConnPolling, Frames, LogRing, Discovery

VARIABLE side

MCParts == {<<>>, <<1>>, <<2, 0>>}

\* Manifest 2 excludes all it lists, manifest 3 drops the bootstrap control.
MCListed == << {"s1", "s2"}, {}, {"s2"} >>
MCServers == {"s1", "s2"}
MCBootstrap == {"s1"}

\* Where it does not move, the discoverer holds the latest manifest, so that
\* CatchesUp is about the behaviours in which it does.
Settled ==
    /\ serves = [c \in Servers |-> Newest]
    /\ cur = Newest /\ serverURLs = Listed[Newest]
    /\ fetched = 0 /\ toPersist = NothingToPersist
    /\ cacheFile = Newest /\ manifestTS = Newest /\ reported = Newest /\ restarts = 0

\* One frame and one connection stand for all where they do not matter.
MCInit ==
    /\ Init /\ PInit /\ FInit /\ RInit
    /\ side \in {"session", "polling", "frames", "log", "discovery"}
    /\ side # "frames" => kind = "chunk" /\ sent = << <<>> >>
    /\ side # "polling" => emitted = 0
    /\ IF side = "discovery" THEN DInit ELSE Settled

MCNext ==
    \/ side = "session" /\ Next /\ UNCHANGED <<pvars, fvars, rvars, dvars, side>>
    \/ side = "polling" /\ PNext /\ UNCHANGED <<vars, fvars, rvars, dvars, side>>
    \/ side = "frames" /\ FNext /\ UNCHANGED <<vars, pvars, rvars, dvars, side>>
    \/ side = "log" /\ RNext /\ UNCHANGED <<vars, pvars, fvars, dvars, side>>
    \/ side = "discovery" /\ DNext /\ UNCHANGED <<vars, pvars, fvars, rvars, side>>

MCSpec ==
    /\ MCInit /\ [][MCNext]_<<vars, pvars, fvars, rvars, dvars, side>>
    /\ Fairness /\ (side = "discovery" => DFairness)
=============================================================================
