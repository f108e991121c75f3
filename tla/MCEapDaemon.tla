----------------------------- MODULE MCEapDaemon -----------------------------
(* Three logins; one pid is longer than the others, so that what it wrote  *)
(* can stick out behind another one.                                       *)
EXTENDS EapDaemon

MCPids == {7, 8, 10}

MCDigits == [p \in MCPids |-> IF p = 10 THEN <<1, 0>> ELSE <<p>>]
=============================================================================
