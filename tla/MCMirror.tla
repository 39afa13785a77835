------------------------------ MODULE MCMirror ------------------------------
(* The same two files published twice.                                       *)
EXTENDS Mirror

MCVersions  == 1..2
MCManifests == << [a |-> 1, b |-> 1], [a |-> 1, b |-> 1] >>
=============================================================================
