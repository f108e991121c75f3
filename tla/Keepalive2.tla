----------------------------- MODULE Keepalive2 -----------------------------
(***************************************************************************)
(* keepalive_2 of src/drcom/src/keepalive.c, the heartbeat both modes end  *)
(* with: a file packet on the first round, then packets A and C, each      *)
(* answered before the next is sent.  A client composes it: `again' names  *)
(* the request the client sends when keepalive_2 fails (both modes send    *)
(* one at once), `done' the place it goes to when keepalive_2 succeeds.    *)
(***************************************************************************)
EXTENDS UdpChannel

VARIABLES
  pc,    \* where the client is: the request it waits for, or a sleep
  first  \* *first: the file packet is still to be sent

Keepalive2Kinds == {"ka2_file", "ka2_first", "ka2_third"}

(* Done with what recvfrom gave, the client sends the next request and     *)
(* waits where the answer to it is read.                                   *)
Ask(kind) == pc' = kind /\ Transmit(Rest, kind)

(* The same out of a sleep: what came meanwhile is still in the buffer.    *)
AskAwake(kind) == pc' = kind /\ Transmit(queue, kind)

(* Done with what recvfrom gave, the client sleeps, ends, or waits on with *)
(* nothing asked.                                                          *)
SleepIn(place) == pc' = place /\ StopWaiting

(* Mutant: a 0x10 does not acknowledge the file packet.                    *)
FileRepliesAliveOnly == {"alive"}

(* A 0x07 with third byte 0x10 or 0x28 answers the file packet, one with   *)
(* 0x28 the others.                                                        *)
FileReplies == {"alive", "file_ack"}
BeatReplies == {"alive"}

(* Entry: the file packet if it is due, packet A otherwise (which clears   *)
(* first, here already clear).                                             *)
StartKeepalive2 ==
  /\ Ask(IF first THEN "ka2_file" ELSE "ka2_first")
  /\ UNCHANGED first

(* Packet A follows, and the file packet is not sent again.                *)
FileAcknowledged ==
  /\ pc = "ka2_file"
  /\ Arrived(FileReplies)
  /\ Ask("ka2_first")
  /\ first' = FALSE

FirstAnswered ==
  /\ pc = "ka2_first"
  /\ Arrived(BeatReplies)
  /\ Ask("ka2_third")
  /\ UNCHANGED first

Keepalive2Fails(again) ==
  /\ \/ pc = "ka2_file" /\ Missed(FileReplies)
     \/ pc \in {"ka2_first", "ka2_third"} /\ Missed(BeatReplies)
  /\ Ask(again)
  /\ UNCHANGED first

Keepalive2Succeeds(done) ==
  /\ pc = "ka2_third"
  /\ Arrived(BeatReplies)
  /\ SleepIn(done)
  /\ UNCHANGED first
=============================================================================
