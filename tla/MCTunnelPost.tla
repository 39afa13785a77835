---------------------------- MODULE MCTunnelPost ----------------------------
(* Two posters of one dialer, with both auth methods configured.            *)
EXTENDS TunnelPost

MCMethods == {"key", "password"}
=============================================================================
