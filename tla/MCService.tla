------------------------------ MODULE MCService -------------------------------
(* Instances of Service for TLC.                                           *)
EXTENDS Service

CONSTANTS w1, w2, i1, i2, stubborn, hidden, nobody, brief, long

MCWorkers  == {w1, w2}
MCInsts    == {i1, i2}
MCOthers   == {stubborn, hidden}
MCStubborn == {stubborn}
MCHidden   == {hidden}
MCTexts    == {brief, long}
MCFaulty   == {}
MCSize     == [t \in MCTexts |-> IF t = brief THEN 1 ELSE 2]
=============================================================================
