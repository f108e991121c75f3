----------------------------- MODULE DhcpClient -----------------------------
(***************************************************************************)
(* The client of src/drcom/src/auth.c in dhcp mode: the loop of dogcom     *)
(* with dhcp_challenge, dhcp_login, keepalive_1 and keepalive_2.           *)
(*                                                                         *)
(* The program is one thread that blocks in recvfrom and in sleep.  pc is  *)
(* the place it is blocked in; an action is everything from one such place *)
(* to the next.  Where it waits for an answer, pc is the kind of the       *)
(* request it sent last.                                                   *)
(***************************************************************************)
EXTENDS Keepalive2

CONSTANTS
  TryTimes,       \* dogcom's argument (5)
  Eternal,        \* eternal_flag
  Keepalive1Mod,  \* drcom_config.keepalive1_mod
  JluAfter        \* failed logins before the other template is tried (2)

DhcpKinds == {"challenge", "login", "ka1", "ka1_auth"} \cup Keepalive2Kinds

Alive == {"alive", "file_ack", "alive_bad"}  \* any 0x07

(* main calls dogcom with 5; an eternal client needs at least 2, because   *)
(* the loop tests the counter after the body has set it to 0 and the for   *)
(* has stepped it to 1.  With an odd JluAfter the first login after that   *)
(* many failures would use the standard template again.  What a            *)
(* well-behaved server answers is accepted where it is read.               *)
ASSUME DhcpAssumption ==
  /\ RequestKinds = DhcpKinds
  /\ GoodAnswer["challenge"].kind = "challenge"
  /\ GoodAnswer["ka1"].kind \in Alive /\ GoodAnswer["ka1_auth"].kind \in Alive
  /\ GoodAnswer["ka2_file"].kind \in {"alive", "file_ack"}
  /\ \A k \in {"ka2_first", "ka2_third"} : GoodAnswer[k].kind \in BeatReplies
  /\ TryTimes \in Nat \ {0, 1}
  /\ Eternal \in BOOLEAN
  /\ Keepalive1Mod \in BOOLEAN
  /\ JluAfter \in Nat /\ JluAfter % 2 = 0

VARIABLES
  try_counter,            \* attempts of this loop (0 in eternal mode)
  login_failed_attempts,  \* failed logins in a row (see NextFailedAttempts)
  try_JLUversion,         \* template of the last login
  login_retry_delay,      \* login_retry_delay_seconds
  keepalive_try_counter,  \* failed keepalive_1 since the last full heartbeat
  seed_current,           \* history: the seed answers the last challenge
  auth_current            \* history: auth_information answers the last login

login  == <<try_counter, login_failed_attempts, try_JLUversion,
            login_retry_delay, seed_current, auth_current>>
heart  == <<keepalive_try_counter, first>>
vars   == <<channel, pc, login, heart>>

Sleeping  == {"boot", "pause", "idle", "exited"}
Heartbeat == {"ka1", "ka1_auth"} \cup Keepalive2Kinds
Waiting   == DhcpKinds \cup {"notice"}

----------------------------------------------------------------------------
(* login_failed_attempts only ever meets "> 2" and "% 2", so above         *)
(* JluAfter it is kept at the two values that have the right parity.       *)
NextFailedAttempts(n) == IF n <= JluAfter + 1 THEN n + 1 ELSE n - 1

LoginTemplate(n) == n > JluAfter /\ n % 2 = 1

(* Where a notice does no harm: in the extra recvfrom of dhcp_login, also  *)
(* when it comes on the heels of the acceptance, and in the first wait of  *)
(* keepalive_1 as long as it comes before the answer.                      *)
NoticeExpected ==
  \/ pc = "notice" /\ queue = <<>>
  \/ pc = "login" /\ Len(queue) = 1 /\ Arrived({"accept"})
  \/ pc = "ka1" /\ ~FreshQueued

----------------------------------------------------------------------------
Init ==
  /\ ChannelInit
  /\ pc = "boot"
  /\ try_counter = 0
  /\ login_failed_attempts = 0
  /\ try_JLUversion = FALSE
  /\ login_retry_delay = DefaultDelay
  /\ keepalive_try_counter = 0
  /\ first = TRUE
  /\ seed_current = FALSE
  /\ auth_current = FALSE

(* Mutant: the delay set by the last rejection is not reset.               *)
SendChallengeKeepingDelay ==
  /\ AskAwake("challenge")
  /\ seed_current' = FALSE
  /\ UNCHANGED login_retry_delay

(* Mutant: the socket is drained before the challenge.                     *)
SendChallengeDrained ==
  /\ pc' = "challenge"
  /\ Transmit(<<>>, "challenge")
  /\ login_retry_delay' = DefaultDelay
  /\ seed_current' = FALSE

(* dhcp_challenge up to its recvfrom.                                      *)
SendChallenge ==
  /\ AskAwake("challenge")
  /\ login_retry_delay' = DefaultDelay
  /\ seed_current' = FALSE

(* maybe_delay_initial_login is over: the first attempt.                   *)
FirstAttempt ==
  /\ pc = "boot"
  /\ SendChallenge
  /\ UNCHANGED <<try_counter, login_failed_attempts, try_JLUversion,
                 auth_current, heart>>

(* The retry sleep is over: the for loop steps, and goes on or ends.  The  *)
(* step counts every attempt, also one that had been online.               *)
NextAttempt ==
  /\ pc = "pause"
  /\ try_counter + 1 < TryTimes
  /\ try_counter' = IF Eternal THEN 0 ELSE try_counter + 1
  /\ SendChallenge
  /\ UNCHANGED <<login_failed_attempts, try_JLUversion, auth_current, heart>>

GiveUp ==
  /\ pc = "pause"
  /\ try_counter + 1 >= TryTimes
  /\ try_counter' = try_counter + 1
  /\ pc' = "exited"
  /\ UNCHANGED <<channel, login_failed_attempts, try_JLUversion, login_retry_delay,
                 seed_current, auth_current, heart>>

(* Mutant: an unanswered challenge counts as a failed login.               *)
ChallengeFailsCounted ==
  /\ pc = "challenge"
  /\ Missed({"challenge"})
  /\ login_failed_attempts' = NextFailedAttempts(login_failed_attempts)
  /\ SleepIn("pause")
  /\ UNCHANGED <<try_counter, try_JLUversion, login_retry_delay,
                 seed_current, auth_current, heart>>

ChallengeFails ==
  /\ pc = "challenge"
  /\ Missed({"challenge"})
  /\ SleepIn("pause")
  /\ UNCHANGED <<login, heart>>

(* dhcp_login up to its recvfrom.                                          *)
SendLogin ==
  /\ Ask("login")
  /\ auth_current' = FALSE

(* The seed is taken, the template chosen, the login sent.                 *)
ChallengeAnswered ==
  /\ pc = "challenge"
  /\ Arrived({"challenge"})
  /\ seed_current' = Head(queue).fresh
  /\ try_JLUversion' = LoginTemplate(login_failed_attempts)
  /\ SendLogin
  /\ UNCHANGED <<try_counter, login_failed_attempts, login_retry_delay, heart>>

LoginRejected ==
  /\ pc = "login"
  /\ Arrived({"reject"})
  /\ login_retry_delay' = Normalize(DelayForLoginReply(Head(queue).body))
  /\ login_failed_attempts' = NextFailedAttempts(login_failed_attempts)
  /\ SleepIn("pause")
  /\ UNCHANGED <<try_counter, try_JLUversion, seed_current, auth_current, heart>>

LoginFails ==
  /\ pc = "login"
  /\ Missed({"accept", "reject"})
  /\ login_failed_attempts' = NextFailedAttempts(login_failed_attempts)
  /\ SleepIn("pause")
  /\ UNCHANGED <<try_counter, try_JLUversion, login_retry_delay,
                 seed_current, auth_current, heart>>

(* Mutant: auth_information is not copied out of the acceptance.           *)
LoginAcceptedUncopied ==
  /\ pc = "login"
  /\ Arrived({"accept"})
  /\ SleepIn("notice")
  /\ UNCHANGED <<login, heart>>

(* auth_information is taken; one more datagram is awaited, whatever it is.*)
LoginAccepted ==
  /\ pc = "login"
  /\ Arrived({"accept"})
  /\ auth_current' = Head(queue).fresh
  /\ SleepIn("notice")
  /\ UNCHANGED <<try_counter, login_failed_attempts, try_JLUversion,
                 login_retry_delay, seed_current, heart>>

----------------------------------------------------------------------------
(* Mutant: the missed heartbeats of the last session still count.          *)
SessionBeginsWithMisses ==
  /\ pc = "notice"
  /\ TimedOut \/ queue # <<>>
  /\ login_failed_attempts' = 0
  /\ login_retry_delay' = DefaultDelay
  /\ first' = TRUE
  /\ Ask("ka1")
  /\ UNCHANGED <<try_counter, try_JLUversion, seed_current, auth_current,
                 keepalive_try_counter>>

(* dhcp_login returns 0 and the session begins.                            *)
SessionBegins ==
  /\ pc = "notice"
  /\ TimedOut \/ queue # <<>>
  /\ login_failed_attempts' = 0
  /\ login_retry_delay' = DefaultDelay
  /\ keepalive_try_counter' = 0
  /\ first' = TRUE
  /\ Ask("ka1")
  /\ UNCHANGED <<try_counter, try_JLUversion, seed_current, auth_current>>

(* The loop of keepalive_1 skips notices, and only there.                  *)
SkipNotice ==
  /\ pc = "ka1"
  /\ Arrived({"notice"})
  /\ SkipOne
  /\ UNCHANGED <<pc, login, heart>>

(* keepalive1_mod: the answer holds a challenge, packet 2 follows.         *)
Keepalive1Challenged ==
  /\ pc = "ka1"
  /\ Keepalive1Mod
  /\ Arrived(Alive)
  /\ Ask("ka1_auth")
  /\ UNCHANGED <<login, heart>>

Keepalive1Succeeds ==
  /\ pc = IF Keepalive1Mod THEN "ka1_auth" ELSE "ka1"
  /\ Arrived(Alive)
  /\ StartKeepalive2
  /\ UNCHANGED <<login, keepalive_try_counter>>

(* Mutant: keepalive_1 takes a notice for a bad answer.                    *)
Keepalive1MissedByNotice ==
  \/ pc = "ka1" /\ Missed(Alive)
  \/ pc = "ka1_auth" /\ Missed(Alive)

Keepalive1Missed ==
  \/ pc = "ka1" /\ Missed(Alive \cup {"notice"})
  \/ pc = "ka1_auth" /\ Missed(Alive)

(* Mutant: a timeout does not count as a failure, only a bad answer does.  *)
Keepalive1FailsUncounted ==
  /\ Keepalive1Missed
  /\ keepalive_try_counter' =
       IF TimedOut THEN keepalive_try_counter
       ELSE NextKeepaliveFailureCount(keepalive_try_counter, FALSE)
  /\ IF ShouldReconnect(keepalive_try_counter')
     THEN login_retry_delay' = Normalize(DefaultDelay) /\ SleepIn("pause")
     ELSE Ask("ka1") /\ UNCHANGED login_retry_delay
  /\ UNCHANGED <<try_counter, login_failed_attempts, try_JLUversion,
                 seed_current, auth_current, first>>

(* keepalive_1 returns 1.  It is called again at once, until it has failed *)
(* ReconnectThreshold times without a full heartbeat in between.           *)
Keepalive1Fails ==
  /\ Keepalive1Missed
  /\ keepalive_try_counter' =
       NextKeepaliveFailureCount(keepalive_try_counter, FALSE)
  /\ IF ShouldReconnect(keepalive_try_counter')
     THEN login_retry_delay' = Normalize(DefaultDelay) /\ SleepIn("pause")
     ELSE Ask("ka1") /\ UNCHANGED login_retry_delay
  /\ UNCHANGED <<try_counter, login_failed_attempts, try_JLUversion,
                 seed_current, auth_current, first>>

(* keepalive_2 inside the session.  Its failure neither counts nor pauses: *)
(* the loop calls keepalive_1 again.                                       *)
Keepalive2Proceeds ==
  /\ FileAcknowledged \/ FirstAnswered \/ Keepalive2Fails("ka1")
  /\ UNCHANGED <<login, keepalive_try_counter>>

HeartbeatComplete ==
  /\ Keepalive2Succeeds("idle")
  /\ keepalive_try_counter' =
       NextKeepaliveFailureCount(keepalive_try_counter, TRUE)
  /\ UNCHANGED login

(* sleep(20) is over.                                                      *)
NextHeartbeat ==
  /\ pc = "idle"
  /\ AskAwake("ka1")
  /\ UNCHANGED <<login, heart>>

----------------------------------------------------------------------------
Client ==
  \/ FirstAttempt \/ NextAttempt \/ GiveUp
  \/ ChallengeFails \/ ChallengeAnswered
  \/ LoginRejected \/ LoginFails \/ LoginAccepted
  \/ SessionBegins \/ SkipNotice
  \/ Keepalive1Challenged \/ Keepalive1Succeeds \/ Keepalive1Fails
  \/ Keepalive2Proceeds \/ HeartbeatComplete \/ NextHeartbeat

AnswerComes == (\E r \in net : Answer(r)) /\ UNCHANGED <<pc, login, heart>>

(* A calm server sends no notice but the one that follows a login.         *)
NoticeComes ==
  /\ calm => pc # "ka1"
  /\ SendNotice(NoticeExpected)
  /\ UNCHANGED <<pc, login, heart>>

NetworkSettles == BecomeCalm /\ UNCHANGED <<pc, login, heart>>

(* The program returns from dogcom and ends.                               *)
Done == pc = "exited" /\ UNCHANGED vars

Next == Client \/ AnswerComes \/ NoticeComes \/ NetworkSettles \/ Done

Spec == Init /\ [][Next]_vars

(* The client is a running process: it wakes from every sleep, and every   *)
(* recvfrom returns or times out.  Nothing is assumed of the network.      *)
FairSpec == Spec /\ WF_vars(Client)

----------------------------------------------------------------------------
(* Correctness.                                                            *)

TypeOK ==
  /\ ChannelTypeOK
  /\ pc \in Waiting \cup Sleeping
  /\ try_counter \in 0 .. TryTimes
  /\ login_failed_attempts \in 0 .. JluAfter + 2
  /\ try_JLUversion \in BOOLEAN
  /\ login_retry_delay \in Nat \ {0}
  /\ keepalive_try_counter \in 0 .. ReconnectThreshold
  /\ first \in BOOLEAN
  /\ seed_current \in BOOLEAN
  /\ auth_current \in BOOLEAN

Online == Heartbeat \cup {"idle"}

(***************************************************************************)
(* The client reads replies in the order they come and looks at nothing    *)
(* but their first bytes.  As long as no datagram came that it does not    *)
(* expect, what it reads as the answer to a request is the answer to that  *)
(* request: a login is never judged by an old rejection, a heartbeat never *)
(* confirmed by the answer to another one.  (auth.c:172, 398, 489 and      *)
(* keepalive.c:39, 87, 140, 269, 325, 379: every recvfrom.)                *)
(***************************************************************************)
RepliesMatchRequests ==
  sync /\ pc \in DhcpKinds /\ queue # <<>> =>
    \/ Head(queue).fresh
    \/ pc = "ka1" /\ Head(queue).body = Notice

(***************************************************************************)
(* Under the same condition the login is computed from the seed of the     *)
(* challenge just answered, and every heartbeat from the seed and the      *)
(* auth_information of the login the session stands on (auth.c:741, 757,   *)
(* 764).                                                                   *)
(***************************************************************************)
CredentialsCurrent ==
  sync =>
    /\ pc \in {"login", "notice"} \cup Online => seed_current
    /\ pc \in {"notice"} \cup Online => auth_current

(***************************************************************************)
(* However the network behaves, the pause before an attempt is the one the *)
(* policy gives for the reply that ended the last attempt, and the default *)
(* one when no rejection ended it: no cooldown outlives its attempt, and   *)
(* none is forgotten (auth.c:170, 420, 742, 780, 792).                     *)
(***************************************************************************)
PauseFollowsVerdict ==
  [][pc # "pause" /\ pc' = "pause" =>
       login_retry_delay' =
         IF pc = "login" /\ Arrived({"reject"})
         THEN DelayForLoginReply(Head(queue).body)
         ELSE DefaultDelay]_vars

(***************************************************************************)
(* After JluAfter failed logins in a row each login uses the template the  *)
(* last one did not, whatever challenges fail in between; until then only  *)
(* the standard one is used (auth.c:746-756, 795).                         *)
(***************************************************************************)
TemplateAlternates ==
  [][pc # "login" /\ pc' = "login" =>
       IF login_failed_attempts > JluAfter
       THEN try_JLUversion' # try_JLUversion
       ELSE ~try_JLUversion']_vars

(***************************************************************************)
(* The client keeps the promises of AuthSession: an attempt is everything  *)
(* from the challenge to the retry sleep, and a session starts where the   *)
(* loop of keepalives does.                                                *)
(***************************************************************************)
Phase ==
  CASE pc = "boot" -> "boot"
    [] pc \in {"challenge", "login", "notice"} -> "connecting"
    [] pc \in Online -> "online"
    [] pc = "pause" -> "backoff"
    [] pc = "exited" -> "stopped"

FinishedAttempts ==
  IF Eternal THEN 0
  ELSE IF pc = "pause" THEN try_counter + 1 ELSE try_counter

Session ==
  INSTANCE AuthSession WITH
    Threshold <- ReconnectThreshold,
    Budget <- TryTimes,
    Unlimited <- Eternal,
    LostDelay <- DefaultDelay,
    phase <- Phase,
    misses <- IF pc \in Online THEN keepalive_try_counter ELSE 0,
    attempts <- FinishedAttempts,
    backoff <- IF pc = "pause" THEN login_retry_delay ELSE 0

ImplementsSession == Session!Spec

(***************************************************************************)
(* When nothing at all arrives any more, an eternal client does not sit in *)
(* a dead session: again and again it asks for a challenge (auth.c:779).   *)
(***************************************************************************)
SilenceLeadsToRelogin ==
  <>[](queue = <<>>) => []<>(pc = "challenge")

(* Under the same silence a client with limited attempts ends (auth.c:735).*)
SilenceStops ==
  <>[](queue = <<>>) => <>(pc = "exited")

(***************************************************************************)
(* When the network and the server behave from some point on, and nothing  *)
(* unexpected came before, an eternal client completes heartbeats again,   *)
(* whatever it was doing (auth.c:735-799).                                 *)
(***************************************************************************)
RecoversWhenInSync ==
  (calm /\ sync) ~> (pc = "idle")

(***************************************************************************)
(* The price of reading replies in order: nothing drains the socket before *)
(* a request, so one datagram too many in it when the client pauses on a   *)
(* calm network stays one too many.  Every challenge is answered by the    *)
(* reply to the request before it, every login by a challenge, and the     *)
(* client pauses and retries for ever against a server that accepts it.    *)
(***************************************************************************)
OutOfStep ==
  /\ calm
  /\ pc \in {"pause", "challenge", "login", "exited"}
  /\ Len(queue) = IF pc \in {"pause", "exited"} THEN 1 ELSE 2
  /\ pc = "login" => Head(queue).body.kind = "challenge"
  /\ pc = "challenge" => queue[2].body.kind = "challenge"

(* Being out of step on a calm network is for ever (nothing is drained at  *)
(* auth.c:154, 381).                                                       *)
NothingRealigns == [][OutOfStep => OutOfStep']_vars
=============================================================================
