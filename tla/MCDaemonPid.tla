---------------------------- MODULE MCDaemonPid ----------------------------
(* Three processes; one pid is longer than the others, so that what it     *)
(* wrote can stick out behind another one.                                 *)
EXTENDS DaemonPid, TLC

MCPids == {7, 8, 10}

MCDigits == [p \in MCPids |-> IF p = 10 THEN <<1, 0>> ELSE <<p>>]

(* The code tells files apart only by what is done to them.                *)
FileSymmetry == Permutations(Files)
=============================================================================
