------------------------------ MODULE MCRouter ------------------------------
(* Three controls, two of them in the client's country, and one relay.       *)
EXTENDS Router
=============================================================================
