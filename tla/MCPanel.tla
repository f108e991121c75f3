------------------------------- MODULE MCPanel --------------------------------
(* Instances of Panel for TLC.                                             *)
EXTENDS Panel

CONSTANTS w1, w2

MCWorkers == {w1, w2}
=============================================================================
