----------------------------- MODULE MCParaExit -----------------------------
(* Model checking ParaExit with one exit.                                  *)
EXTENDS ParaExit
=============================================================================
