----------------------------- MODULE PppoeClient ----------------------------
(***************************************************************************)
(* The client of src/drcom/src/auth.c in pppoe mode: the other loop of     *)
(* dogcom, with pppoe_challenge, pppoe_login and keepalive_2.  Here one    *)
(* round is challenge, login and heartbeat; a client that is online goes   *)
(* through all of it every ten seconds, and every answer it accepts starts *)
(* with the same byte 0x07.                                                *)
(*                                                                         *)
(* pc as in DhcpClient: the place the program is blocked in.  Encryption   *)
(* (encrypt_mode, encrypt_type, the checksums) is data computed from the   *)
(* challenge and is left out but for the question whose seed it is.        *)
(***************************************************************************)
EXTENDS Keepalive2

CONSTANT TryTimes  \* dogcom's argument (5)

PppoeKinds == {"challenge", "login"} \cup Keepalive2Kinds

(* Any 0x07.                                                               *)
Accepted == {"alive", "file_ack", "alive_bad"}

(* What a well-behaved server answers lets the client go on.               *)
ASSUME PppoeAssumption ==
  /\ RequestKinds = PppoeKinds
  /\ TryTimes \in Nat \ {0}
  /\ GoodAnswer["challenge"].kind \in Accepted /\ GoodAnswer["login"].kind \in Accepted
  /\ GoodAnswer["ka2_file"].kind \in {"alive", "file_ack"}
  /\ \A k \in {"ka2_first", "ka2_third"} : GoodAnswer[k].kind \in BeatReplies

VARIABLES
  eternal_flag,  \* as it was set before dogcom was called
  try_counter,   \* failed challenges since the program started
  login_first,   \* the next login is a first one (0x62, not 0x63)
  seed_current   \* history: seed and sip answer the last challenge

round == <<try_counter, login_first, seed_current>>
vars  == <<channel, pc, first, round, eternal_flag>>

Sleeping == {"boot", "pause", "idle", "exited"}
Waiting  == PppoeKinds \cup {"notice"}

(* Where a notice does no harm: only pppoe_login waits for one.            *)
NoticeExpected ==
  \/ pc = "notice" /\ queue = <<>>
  \/ pc = "login" /\ Len(queue) = 1 /\ Arrived(Accepted)

----------------------------------------------------------------------------
Init ==
  /\ ChannelInit
  /\ eternal_flag \in BOOLEAN
  /\ pc = "boot"
  /\ first = TRUE
  /\ try_counter = 0
  /\ login_first = TRUE
  /\ seed_current = FALSE

(* maybe_delay_initial_login, sleep(5) or sleep(10) is over.               *)
StartRound ==
  /\ pc \in {"boot", "pause", "idle"}
  /\ AskAwake("challenge")
  /\ seed_current' = FALSE
  /\ UNCHANGED <<first, try_counter, login_first>>

(* Mutant: the counter starts again when the limit is reached.             *)
CountChallengeAgain == IF eternal_flag THEN 0 ELSE (try_counter + 1) % TryTimes

CountChallenge == IF eternal_flag THEN 0 ELSE try_counter + 1

(* Mutant: one failure more than the limit is allowed.                     *)
ChallengeFailsLate ==
  /\ pc = "challenge"
  /\ Missed(Accepted)
  /\ login_first' = TRUE
  /\ try_counter' = CountChallenge
  /\ SleepIn(IF try_counter' > TryTimes THEN "exited" ELSE "pause")
  /\ UNCHANGED <<first, seed_current>>

(* The failures are never forgotten: a success does not reset the counter. *)
ChallengeFails ==
  /\ pc = "challenge"
  /\ Missed(Accepted)
  /\ login_first' = TRUE
  /\ try_counter' = CountChallenge
  /\ SleepIn(IF try_counter' >= TryTimes THEN "exited" ELSE "pause")
  /\ UNCHANGED <<first, seed_current>>

(* pppoe_login up to its first recvfrom.                                   *)
SendLogin ==
  /\ Ask("login")
  /\ UNCHANGED <<first, try_counter, login_first>>

(* Mutant: the seed is not copied out of the answer.                       *)
ChallengeAnsweredUncopied ==
  /\ pc = "challenge"
  /\ Arrived(Accepted)
  /\ SendLogin
  /\ UNCHANGED seed_current

ChallengeAnswered ==
  /\ pc = "challenge"
  /\ Arrived(Accepted)
  /\ seed_current' = Head(queue).fresh
  /\ SendLogin

(* A failed login is not counted and not paused for: the next round starts *)
(* at once.                                                                *)
LoginFails ==
  /\ pc = "login"
  /\ Missed(Accepted)
  /\ Ask("challenge")
  /\ seed_current' = FALSE
  /\ UNCHANGED <<first, try_counter, login_first>>

LoginAnswered ==
  /\ pc = "login"
  /\ Arrived(Accepted)
  /\ SleepIn("notice")
  /\ UNCHANGED <<first, round>>

(* Mutant: the extra datagram after the login is left in the buffer.       *)
LoggedInUnread ==
  /\ pc = "notice"
  /\ login_first' = FALSE
  /\ AskAwake(IF first THEN "ka2_file" ELSE "ka2_first")
  /\ UNCHANGED <<first, try_counter, seed_current>>

(* The extra recvfrom of pppoe_login is over, and keepalive_2 begins.      *)
LoggedIn ==
  /\ pc = "notice"
  /\ TimedOut \/ queue # <<>>
  /\ login_first' = FALSE
  /\ StartKeepalive2
  /\ UNCHANGED <<try_counter, seed_current>>

HeartbeatProceeds ==
  /\ FileAcknowledged \/ FirstAnswered \/ Keepalive2Succeeds("idle")
  /\ UNCHANGED round

(* keepalive_2 returns 1: the next round starts at once.                   *)
HeartbeatFails ==
  /\ Keepalive2Fails("challenge")
  /\ seed_current' = FALSE
  /\ UNCHANGED <<try_counter, login_first>>

----------------------------------------------------------------------------
Client ==
  /\ \/ StartRound \/ ChallengeFails \/ ChallengeAnswered
     \/ LoginFails \/ LoginAnswered \/ LoggedIn
     \/ HeartbeatProceeds \/ HeartbeatFails
  /\ UNCHANGED eternal_flag

AnswerComes ==
  (\E r \in net : Answer(r)) /\ UNCHANGED <<pc, first, round, eternal_flag>>

NoticeComes ==
  SendNotice(NoticeExpected) /\ UNCHANGED <<pc, first, round, eternal_flag>>

NetworkSettles == BecomeCalm /\ UNCHANGED <<pc, first, round, eternal_flag>>

(* The program returns from dogcom and ends.                               *)
Done == pc = "exited" /\ UNCHANGED vars

Next == Client \/ AnswerComes \/ NoticeComes \/ NetworkSettles \/ Done

Spec == Init /\ [][Next]_vars

(* The client is a running process: it wakes from every sleep, and every   *)
(* recvfrom returns or times out.  Nothing is assumed of the network.      *)
FairSpec == Spec /\ WF_vars(Client)

----------------------------------------------------------------------------
(* Correctness.                                                            *)

TypeOK ==
  /\ ChannelTypeOK
  /\ pc \in Waiting \cup Sleeping
  /\ eternal_flag \in BOOLEAN
  /\ first \in BOOLEAN
  /\ try_counter \in 0 .. TryTimes
  /\ login_first \in BOOLEAN
  /\ seed_current \in BOOLEAN

(***************************************************************************)
(* As long as no datagram came that the client does not expect, every      *)
(* reply it acts on answers the request it is waiting on, though all       *)
(* answers look alike to it (auth.c:525, 630, 651, keepalive.c:269, 325,   *)
(* 379).                                                                   *)
(***************************************************************************)
RepliesMatchRequests ==
  sync /\ pc \in PppoeKinds /\ queue # <<>> => Head(queue).fresh

(* Under the same condition the login and the heartbeat of a round are     *)
(* computed from the challenge of that round (auth.c:810, 827, 831).       *)
SeedCurrent ==
  sync /\ pc \in Waiting \ {"challenge"} => seed_current

(***************************************************************************)
(* When the network and the server behave from some point on, the client   *)
(* gets back in step by itself and stays there, whatever came before, or   *)
(* it ends: unlike the dhcp client it reads one datagram too many after    *)
(* each login (auth.c:651), so a surplus one does not stay in the buffer,  *)
(* and each heartbeat stands on the challenge of its own round again.      *)
(***************************************************************************)
RecoversByItself ==
  <>calm =>
    \/ <>(pc = "exited")
    \/ /\ []<>(pc = "idle")
       /\ <>[](pc = "idle" => queue = <<>> /\ seed_current)

(* When nothing at all arrives any more, a client with limited attempts    *)
(* ends (auth.c:820), and an eternal one asks for a challenge for ever.    *)
SilenceStops ==
  <>[](queue = <<>>) =>
    IF eternal_flag THEN []<>(pc = "challenge") ELSE <>(pc = "exited")
=============================================================================
