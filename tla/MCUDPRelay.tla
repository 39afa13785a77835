----------------------------- MODULE MCUDPRelay -----------------------------
(* Two callers and as many request IDs: an ID is drawn again as soon as no   *)
(* frame carries it any more.                                               *)
EXTENDS UDPRelay
=============================================================================
