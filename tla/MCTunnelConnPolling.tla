------------------------ MODULE MCTunnelConnPolling ------------------------
(* A connection on which a Write and a poll can be in flight together.      *)
EXTENDS TunnelConnPolling
=============================================================================
