---------------------------- MODULE MCDhcpClient ----------------------------
(***************************************************************************)
(* Instances of DhcpClient for TLC.  Each run picks, in its .cfg, what the *)
(* server may answer; the delays are those of the code, the threshold and  *)
(* the attempts are smaller.                                               *)
(***************************************************************************)
EXTENDS DhcpClient

Reject(code, short, after) ==
  [kind |-> "reject", code |-> code, short |-> short, after |-> after]

MCGoodAnswer ==
  [k \in DhcpKinds |->
     CASE k = "challenge" -> Plain("challenge")
       [] k = "login"     -> Plain("accept")
       [] k = "ka2_file"  -> Plain("file_ack")
       [] OTHER           -> Plain("alive")]

(* Every verdict the policy tells apart, also the short one that is not a  *)
(* WRONG_PASS and the WRONG_PASS that is not short.                        *)
Verdicts ==
  {Plain("accept"), Plain("other"), Reject("WRONG_PASS", TRUE, 0),
   Reject("WRONG_PASS", FALSE, 0), Reject("UPDATE_CLIENT", FALSE, 180),
   Reject("UPDATE_CLIENT", TRUE, 0), Reject("OTHER", FALSE, 180)}

MCAnswersLogin ==
  [k \in DhcpKinds |->
     IF k = "login" THEN Verdicts ELSE {MCGoodAnswer[k], Plain("other")}]

MCAnswersHeartbeat ==
  [k \in DhcpKinds |->
     CASE k = "challenge" -> {Plain("challenge")}
       [] k = "login"     -> {Plain("accept"), Reject("UPDATE_CLIENT", FALSE, 180)}
       [] k = "ka2_file"  -> {Plain("file_ack"), Plain("alive"), Plain("alive_bad")}
       [] OTHER           -> {Plain("alive"), Plain("alive_bad")}]

MCAnswersPlain ==
  [k \in DhcpKinds |->
     IF k = "login" THEN {Plain("accept"), Reject("UPDATE_CLIENT", FALSE, 180)}
     ELSE {MCGoodAnswer[k]}]
=============================================================================
