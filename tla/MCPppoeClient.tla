--------------------------- MODULE MCPppoeClient ----------------------------
(* Instances of PppoeClient for TLC.  The threshold and the delays of      *)
(* RetryPolicy play no part in this mode.                                  *)
EXTENDS PppoeClient

MCGoodAnswer ==
  [k \in PppoeKinds |-> Plain(IF k = "ka2_file" THEN "file_ack" ELSE "alive")]

(* The answer hoped for, one with the right first byte only, and another.  *)
MCAnswers ==
  [k \in PppoeKinds |->
     {MCGoodAnswer[k], Plain(IF k = "challenge" THEN "file_ack" ELSE "alive_bad"),
      Plain("other")}]
=============================================================================
