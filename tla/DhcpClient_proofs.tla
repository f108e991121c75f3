-------------------------- MODULE DhcpClient_proofs -------------------------
(***************************************************************************)
(* The safety properties of DhcpClient, for every server, every buffer,    *)
(* every threshold and every number of attempts.                           *)
(*                                                                         *)
(* They all rest on one inductive invariant.  RepliesMatchRequests is not  *)
(* inductive: it looks at the head of the buffer only.  Aligned says what  *)
(* the whole buffer may hold at each place while nothing unexpected came,  *)
(* and FreshAwaited that nothing is fresh where no answer is awaited.      *)
(*                                                                         *)
(* Then a network that has become calm: a client in step stays in step,    *)
(* and one out of step stays out of step.                                  *)
(*                                                                         *)
(* The last part is about RetryAfter, the text dhcp_login reads: for texts *)
(* of any length, the loop finds the first number of seconds.              *)
(***************************************************************************)
EXTENDS DhcpClient, RetryAfter, UdpChannel_proofs

FreshAwaited == pc \in DhcpKinds \/ NothingFresh

Aligned ==
  sync => \A i \in DOMAIN queue :
    IF queue[i].fresh
    THEN i = IF pc = "login" THEN 1 ELSE Len(queue)
    ELSE /\ queue[i].body = Notice
         /\ \/ pc = "ka1"
            \/ pc = "notice" /\ i = 1
            \/ /\ pc = "login" /\ i = 2
               /\ queue[1].fresh
               /\ queue[1].body.kind = "accept"

(* dhcp_challenge resets the delay, and only the end of an attempt sets it.*)
DelayReset ==
  pc \in {"challenge", "login", "notice"} => login_retry_delay = DefaultDelay

(* Where the counters can be while the client runs.                        *)
CountersBounded ==
  /\ pc # "exited" => try_counter < TryTimes
  /\ Eternal => pc # "exited" /\ try_counter = 0
  /\ pc \in Online => keepalive_try_counter < ReconnectThreshold

ChannelInv == TypeOK /\ FreshOnce /\ FreshAwaited

IInv ==
  /\ ChannelInv
  /\ Aligned
  /\ CredentialsCurrent
  /\ DelayReset
  /\ CountersBounded

----------------------------------------------------------------------------
(* The three ways a client step uses the socket.                           *)

(* A request out of a wait: the client waits where its answer is read.     *)
LEMMA AskFacts ==
  ASSUME ChannelTypeOK, NEW kind \in DhcpKinds, Ask(kind)
  PROVE  /\ ChannelTypeOK' /\ FreshOnce' /\ FreshAwaited'
         /\ pc' = kind /\ sync' = sync
         /\ \/ queue' = AgeSeq(Rest)
            \/ queue' = Append(AgeSeq(Rest),
                               [body |-> GoodAnswer[kind], fresh |-> TRUE])
<1>1. kind \in RequestKinds
  BY DhcpAssumption
<1>2. Rest \in Seq(Datagrams)
  BY RestFacts
<1>3. pc' = kind /\ Transmit(Rest, kind)
  BY DEF Ask
<1> QED
  BY <1>1, <1>2, <1>3, TransmitFacts DEF FreshAwaited

(* A request out of a sleep: the same, with what came meanwhile before it. *)
LEMMA AskAwakeFacts ==
  ASSUME ChannelTypeOK, NEW kind \in DhcpKinds, AskAwake(kind)
  PROVE  /\ ChannelTypeOK' /\ FreshOnce' /\ FreshAwaited'
         /\ pc' = kind /\ sync' = sync
         /\ \/ queue' = AgeSeq(queue)
            \/ queue' = Append(AgeSeq(queue),
                               [body |-> GoodAnswer[kind], fresh |-> TRUE])
<1>1. kind \in RequestKinds
  BY DhcpAssumption
<1>2. queue \in Seq(Datagrams)
  BY DEF ChannelTypeOK
<1>3. pc' = kind /\ Transmit(queue, kind)
  BY DEF AskAwake
<1> QED
  BY <1>1, <1>2, <1>3, TransmitFacts DEF FreshAwaited

(* A client that goes to sleep leaves nothing fresh behind.                *)
LEMMA SleepFacts ==
  ASSUME ChannelTypeOK, NEW place, SleepIn(place)
  PROVE  /\ ChannelTypeOK' /\ FreshOnce' /\ FreshAwaited'
         /\ pc' = place /\ sync' = sync
         /\ queue' = AgeSeq(Rest)
<1>1. pc' = place /\ StopWaiting
  BY DEF SleepIn
<1> QED
  BY <1>1, StopWaitingFacts DEF FreshAwaited

(* The head of a buffer is a datagram with a well-formed body.             *)
LEMMA HeadFacts ==
  ASSUME ChannelTypeOK, queue # <<>>
  PROVE  /\ Head(queue) = queue[1] /\ 1 \in DOMAIN queue
         /\ Head(queue).fresh \in BOOLEAN
         /\ Head(queue).body \in Replies
<1>1. queue \in Seq(Datagrams)
  BY DEF ChannelTypeOK
<1>2. Head(queue) = queue[1] /\ 1 \in DOMAIN queue /\ queue[1] \in Datagrams
  BY <1>1
<1> QED
  BY <1>2 DEF Datagrams

(* The policy never yields a delay that is not positive.                   *)
LEMMA PolicyPositive ==
  ASSUME NEW body \in Replies
  PROVE  /\ DelayForLoginReply(body) \in Nat \ {0}
         /\ Normalize(DelayForLoginReply(body)) = DelayForLoginReply(body)
<1>1. body.after \in Nat
  BY DEF Replies
<1>2. DelayForLoginReply(body) \in Nat \ {0}
  BY <1>1, DelayAssumption DEF DelayForLoginReply
<1> QED
  BY <1>2 DEF Normalize

----------------------------------------------------------------------------
(* Types and the fresh bit.                                                *)

(* Counting a failed login keeps to the values the parity needs.           *)
LEMMA NextFailedAttemptsFacts ==
  ASSUME NEW n \in 0 .. JluAfter + 2
  PROVE  NextFailedAttempts(n) \in 0 .. JluAfter + 2
BY DhcpAssumption DEF NextFailedAttempts

(* Counting a missed heartbeat below the threshold reaches it at most.     *)
LEMMA FailureCountFacts ==
  ASSUME NEW n \in 0 .. ReconnectThreshold, n < ReconnectThreshold
  PROVE  /\ NextKeepaliveFailureCount(n, FALSE) = n + 1
         /\ NextKeepaliveFailureCount(n, FALSE) \in 0 .. ReconnectThreshold
         /\ NextKeepaliveFailureCount(n, TRUE) = 0
         /\ ShouldReconnect(n + 1) <=> n + 1 = ReconnectThreshold
BY ThresholdAssumption DEF NextKeepaliveFailureCount, ShouldReconnect

(* The part of TypeOK that is not the channel and pc.                      *)
LocalTypeOK ==
  /\ try_counter \in 0 .. TryTimes
  /\ login_failed_attempts \in 0 .. JluAfter + 2
  /\ try_JLUversion \in BOOLEAN
  /\ login_retry_delay \in Nat \ {0}
  /\ keepalive_try_counter \in 0 .. ReconnectThreshold
  /\ first \in BOOLEAN
  /\ seed_current \in BOOLEAN
  /\ auth_current \in BOOLEAN

(* Every step of the client keeps its own variables in their types.        *)
LEMMA ClientLocalTypes ==
  ASSUME TypeOK, CountersBounded, Client
  PROVE  LocalTypeOK'
<1> USE DEF TypeOK, LocalTypeOK, login, heart
<1>1. CASE FirstAttempt
  BY <1>1, DelayAssumption DEF FirstAttempt, SendChallenge
<1>2. CASE NextAttempt
  <2>1. try_counter' \in 0 .. TryTimes
    BY <1>2, DhcpAssumption DEF NextAttempt
  <2> QED
    BY <1>2, <2>1, DelayAssumption DEF NextAttempt, SendChallenge
<1>3. CASE GiveUp
  BY <1>3, DhcpAssumption DEF GiveUp, CountersBounded
<1>4. CASE ChallengeFails
  BY <1>4 DEF ChallengeFails
<1>5. CASE ChallengeAnswered
  BY <1>5, HeadFacts DEF ChallengeAnswered, SendLogin, Arrived, LoginTemplate
<1>6. CASE LoginRejected
  BY <1>6, HeadFacts, PolicyPositive, NextFailedAttemptsFacts
     DEF LoginRejected, Arrived
<1>7. CASE LoginFails
  BY <1>7, NextFailedAttemptsFacts DEF LoginFails
<1>8. CASE LoginAccepted
  BY <1>8, HeadFacts DEF LoginAccepted, Arrived
<1>9. CASE SessionBegins
  BY <1>9, DelayAssumption, DhcpAssumption, ThresholdAssumption DEF SessionBegins
<1>10. CASE SkipNotice
  BY <1>10 DEF SkipNotice
<1>11. CASE Keepalive1Challenged
  BY <1>11 DEF Keepalive1Challenged
<1>12. CASE Keepalive1Succeeds
  BY <1>12 DEF Keepalive1Succeeds, StartKeepalive2
<1>13. CASE Keepalive1Fails
  <2>1. pc \in Online
    BY <1>13 DEF Keepalive1Fails, Keepalive1Missed, Online, Heartbeat
  <2>2. keepalive_try_counter' \in 0 .. ReconnectThreshold
    BY <1>13, <2>1, FailureCountFacts DEF Keepalive1Fails, CountersBounded
  <2>3. login_retry_delay' \in Nat \ {0}
    BY <1>13, DelayAssumption DEF Keepalive1Fails, Normalize
  <2> QED
    BY <1>13, <2>2, <2>3 DEF Keepalive1Fails
<1>14. CASE Keepalive2Proceeds
  BY <1>14 DEF Keepalive2Proceeds, FileAcknowledged, FirstAnswered, Keepalive2Fails
<1>15. CASE HeartbeatComplete
  BY <1>15, ThresholdAssumption
     DEF HeartbeatComplete, Keepalive2Succeeds, NextKeepaliveFailureCount
<1>16. CASE NextHeartbeat
  BY <1>16 DEF NextHeartbeat
<1> QED
  BY <1>1, <1>2, <1>3, <1>4, <1>5, <1>6, <1>7, <1>8, <1>9, <1>10, <1>11,
     <1>12, <1>13, <1>14, <1>15, <1>16 DEF Client

(***************************************************************************)
(* What a client step does to the socket, whatever else it does: it asks   *)
(* or sleeps once it is done with what it read, asks after a sleep, takes  *)
(* an acceptance, skips a notice, or ends.                                 *)
(***************************************************************************)
ReadsAnswer ==
  /\ pc \in Waiting
  /\ ~(pc = "login" /\ Arrived({"accept"}))
  /\ ~(pc = "ka1" /\ Arrived({"notice"}))

(* Every step of the client sends one request, stops waiting, or skips a   *)
(* notice: there is no other use of the socket.                            *)
LEMMA ClientSocket ==
  ASSUME Client
  PROVE  \/ ReadsAnswer /\ \E kind \in DhcpKinds : Ask(kind)
         \/ ReadsAnswer /\ \E place \in {"pause", "idle"} : SleepIn(place)
         \/ pc \in Sleeping /\ \E kind \in DhcpKinds : AskAwake(kind)
         \/ pc = "login" /\ Arrived({"accept"}) /\ SleepIn("notice")
         \/ pc = "ka1" /\ Arrived({"notice"}) /\ SkipOne /\ pc' = pc
         \/ pc = "pause" /\ pc' = "exited" /\ UNCHANGED channel
<1> USE DEF ReadsAnswer, Waiting, Sleeping, DhcpKinds, Keepalive2Kinds
<1>1. CASE FirstAttempt \/ NextAttempt
  BY <1>1 DEF FirstAttempt, NextAttempt, SendChallenge
<1>2. CASE GiveUp
  BY <1>2 DEF GiveUp
<1>3. CASE ChallengeFails
  BY <1>3 DEF ChallengeFails
<1>4. CASE ChallengeAnswered
  BY <1>4 DEF ChallengeAnswered, SendLogin
<1>5. CASE LoginRejected
  BY <1>5 DEF LoginRejected, Arrived
<1>6. CASE LoginFails
  BY <1>6 DEF LoginFails, Missed, TimedOut, Arrived
<1>7. CASE LoginAccepted
  BY <1>7 DEF LoginAccepted
<1>8. CASE SessionBegins
  BY <1>8 DEF SessionBegins
<1>9. CASE SkipNotice
  BY <1>9 DEF SkipNotice
<1>10. CASE Keepalive1Challenged
  BY <1>10 DEF Keepalive1Challenged, Arrived, Alive
<1>11. CASE Keepalive1Succeeds
  BY <1>11 DEF Keepalive1Succeeds, StartKeepalive2, Arrived, Alive
<1>12. CASE Keepalive1Fails
  BY <1>12 DEF Keepalive1Fails, Keepalive1Missed, Missed, TimedOut, Arrived, Alive
<1>13. CASE Keepalive2Proceeds
  BY <1>13 DEF Keepalive2Proceeds, FileAcknowledged, FirstAnswered, Keepalive2Fails
<1>14. CASE HeartbeatComplete
  BY <1>14 DEF HeartbeatComplete, Keepalive2Succeeds
<1>15. CASE NextHeartbeat
  BY <1>15 DEF NextHeartbeat
<1> QED
  BY <1>1, <1>2, <1>3, <1>4, <1>5, <1>6, <1>7, <1>8, <1>9, <1>10, <1>11,
     <1>12, <1>13, <1>14, <1>15 DEF Client

(* Every step of the client keeps the channel in its types.                *)
LEMMA ClientChannel ==
  ASSUME ChannelInv, Client
  PROVE  ChannelTypeOK' /\ FreshOnce' /\ FreshAwaited'
         /\ pc' \in Waiting \cup Sleeping /\ sync' = sync
<1> USE DEF ChannelInv, TypeOK
<1>1. CASE \E kind \in DhcpKinds : Ask(kind)
  BY <1>1, AskFacts DEF Waiting
<1>2. CASE \E kind \in DhcpKinds : AskAwake(kind)
  BY <1>2, AskAwakeFacts DEF Waiting
<1>3. CASE \E place \in {"pause", "idle", "notice"} : SleepIn(place)
  BY <1>3, SleepFacts DEF Waiting, Sleeping
<1>4. CASE SkipOne /\ pc' = pc
  BY <1>4, SkipOneFacts DEF FreshAwaited
<1>5. CASE pc = "pause" /\ pc' = "exited" /\ UNCHANGED channel
  <2>1. NothingFresh
    BY <1>5 DEF FreshAwaited, DhcpKinds, Keepalive2Kinds
  <2> QED
    BY <1>5, <2>1 DEF channel, ChannelTypeOK, FreshOnce, FreshAwaited,
       NothingFresh, FreshQueued, Sleeping
<1> QED
  BY <1>1, <1>2, <1>3, <1>4, <1>5, ClientSocket

----------------------------------------------------------------------------
(* Alignment.                                                              *)

(* While the client is in step, a place that awaits no answer, except for  *)
(* the notice after a login, has an empty buffer.                          *)
LEMMA AsleepEmpty ==
  ASSUME ChannelInv, Aligned, sync, pc \in Sleeping
  PROVE  queue = <<>>
<1>1. queue \in Seq(Datagrams)
  BY DEF ChannelInv, TypeOK, ChannelTypeOK
<1>2. \A i \in DOMAIN queue : ~queue[i].fresh
  BY DEF ChannelInv, FreshAwaited, NothingFresh, FreshQueued, Sleeping,
     DhcpKinds, Keepalive2Kinds
<1>3. pc \notin {"ka1", "notice", "login"}
  BY DEF Sleeping
<1>4. \A i \in DOMAIN queue : FALSE
  BY <1>2, <1>3 DEF Aligned
<1>5. Len(queue) \in Nat /\ DOMAIN queue = 1 .. Len(queue)
  BY <1>1
<1>6. Len(queue) = 0
  <2>1. 1 \notin 1 .. Len(queue)
    BY <1>4, <1>5
  <2> QED
    BY <1>5, <2>1
<1> QED
  BY <1>1, <1>6, EmptySeq

(* While the client is in step, the datagram it reads as an answer is the  *)
(* fresh one, and nothing is behind it.                                    *)
LEMMA AnswerAlone ==
  ASSUME ChannelInv, Aligned, sync, ReadsAnswer
  PROVE  /\ Rest = <<>>
         /\ pc # "notice" /\ queue # <<>> => Head(queue).fresh
<1>1. queue \in Seq(Datagrams) /\ Len(queue) \in Nat
  BY DEF ChannelInv, TypeOK, ChannelTypeOK
<1>2. CASE queue = <<>>
  BY <1>2 DEF Rest
<1>3. CASE queue # <<>>
  <2>1. /\ 1 \in DOMAIN queue /\ Head(queue) = queue[1]
        /\ DOMAIN queue = 1 .. Len(queue)
    BY <1>1, <1>3
  <2>2. pc # "notice" => queue[1].fresh
    <3>1. queue[1].body = Notice => queue[1].body.kind = "notice"
      BY DEF Notice, Plain
    <3> QED
      BY <1>3, <2>1, <3>1 DEF Aligned, ReadsAnswer, Arrived
  <2>3. Len(queue) = 1
    <3>1. CASE pc = "login"
      <4>1. \A i \in DOMAIN queue : i # 1 => i = 2 /\ queue[1].body.kind = "accept"
        BY <3>1 DEF Aligned
      <4>2. queue[1].body.kind # "accept"
        BY <1>3, <2>1, <3>1 DEF ReadsAnswer, Arrived
      <4> QED
        BY <1>1, <2>1, <4>1, <4>2
    <3>2. CASE pc = "notice"
      <4>1. \A i \in DOMAIN queue : ~queue[i].fresh
        BY <3>2 DEF ChannelInv, FreshAwaited, NothingFresh, FreshQueued,
           DhcpKinds, Keepalive2Kinds
      <4>2. \A i \in DOMAIN queue : i = 1
        BY <3>2, <4>1 DEF Aligned
      <4> QED
        BY <1>1, <2>1, <4>2
    <3>3. CASE pc \notin {"login", "notice"}
      BY <2>1, <2>2, <3>3 DEF Aligned
    <3> QED
      BY <3>1, <3>2, <3>3
  <2>4. Rest = Tail(queue) /\ Len(Tail(queue)) = 0 /\ Tail(queue) \in Seq(Datagrams)
    BY <1>1, <1>3, <2>3, HeadTailProperties DEF Rest
  <2>5. Tail(queue) = <<>>
    BY <2>4, EmptySeq
  <2> QED
    BY <2>1, <2>2, <2>4, <2>5
<1> QED
  BY <1>2, <1>3

(* A buffer that is empty, or holds one fresh datagram, is aligned.        *)
LEMMA AlignedAfterAsk ==
  ASSUME NEW good \in Datagrams, good.fresh = TRUE,
         queue' = AgeSeq(<<>>) \/ queue' = Append(AgeSeq(<<>>), good)
  PROVE  Aligned'
<1>1. <<>> \in Seq(Datagrams) /\ Len(<<>>) = 0
  BY EmptySeq
<1>2. AgeSeq(<<>>) \in Seq(Datagrams) /\ Len(AgeSeq(<<>>)) = 0
  BY <1>1, AgeSeqFacts
<1>3. AgeSeq(<<>>) = <<>>
  BY <1>2, EmptySeq
<1>4. CASE queue' = AgeSeq(<<>>)
  BY <1>3, <1>4 DEF Aligned
<1>5. CASE queue' = Append(AgeSeq(<<>>), good)
  <2>1. DOMAIN queue' = 1 .. 1 /\ Len(queue') = 1 /\ queue'[1] = good
    BY <1>2, <1>5, AppendProperties
  <2> QED
    BY <2>1 DEF Aligned
<1> QED
  BY <1>4, <1>5

(* Every step of the client leaves buffer and requests aligned with it.    *)
LEMMA ClientAligned ==
  ASSUME ChannelInv, Aligned, Client
  PROVE  Aligned'
<1>1. ChannelTypeOK /\ sync' = sync
  BY ClientChannel DEF ChannelInv, TypeOK
<1> SUFFICES ASSUME sync PROVE Aligned'
  BY <1>1 DEF Aligned
<1>2. \A kind \in DhcpKinds :
        [body |-> GoodAnswer[kind], fresh |-> TRUE] \in Datagrams
  BY DhcpAssumption, ChannelAssumption DEF Datagrams
<1>3. CASE ReadsAnswer /\ \E kind \in DhcpKinds : Ask(kind)
  BY <1>1, <1>2, <1>3, AnswerAlone, AskFacts, AlignedAfterAsk
<1>4. CASE ReadsAnswer /\ \E place \in {"pause", "idle"} : SleepIn(place)
  <2>1. Rest = <<>> /\ queue' = AgeSeq(Rest)
    BY <1>1, <1>4, AnswerAlone, SleepFacts
  <2>2. PICK good \in Datagrams : good.fresh = TRUE
    <3>1. "login" \in DhcpKinds
      BY DEF DhcpKinds
    <3> QED
      BY <1>2, <3>1
  <2> QED
    BY <2>1, <2>2, AlignedAfterAsk
<1>5. CASE pc \in Sleeping /\ \E kind \in DhcpKinds : AskAwake(kind)
  BY <1>1, <1>2, <1>5, AsleepEmpty, AskAwakeFacts, AlignedAfterAsk
<1>6. CASE pc = "login" /\ Arrived({"accept"}) /\ SleepIn("notice")
  <2>1. /\ pc' = "notice" /\ queue' = AgeSeq(Rest)
        /\ Rest \in Seq(Datagrams) /\ queue \in Seq(Datagrams)
    BY <1>1, <1>6, SleepFacts, RestFacts DEF ChannelTypeOK
  <2>2. /\ queue # <<>> /\ Len(Rest) = Len(queue) - 1
        /\ \A i \in 1 .. Len(Rest) : Rest[i] = queue[i + 1]
    BY <1>1, <1>6, RestFacts DEF Arrived
  <2>3. /\ DOMAIN queue' = 1 .. Len(Rest)
        /\ \A i \in 1 .. Len(Rest) : /\ queue'[i].fresh = FALSE
                                     /\ queue'[i].body = queue[i + 1].body
    <3>1. DOMAIN Rest = 1 .. Len(Rest)
      BY <2>1
    <3>2. /\ DOMAIN queue' = DOMAIN Rest
          /\ \A i \in DOMAIN Rest : /\ queue'[i].fresh = FALSE
                                    /\ queue'[i].body = Rest[i].body
      BY <2>1, AgeSeqFacts
    <3> QED
      BY <2>2, <3>1, <3>2
  <2>4. \A i \in 1 .. Len(Rest) : i + 1 \in DOMAIN queue /\ i + 1 # 1
    BY <2>1, <2>2, LenProperties
  <2>5. \A i \in 1 .. Len(Rest) : i + 1 = 2 /\ queue[i + 1].body = Notice
    BY <1>6, <2>4 DEF Aligned
  <2> QED
    BY <2>1, <2>3, <2>5 DEF Aligned
<1>7. CASE pc = "ka1" /\ Arrived({"notice"}) /\ SkipOne /\ pc' = pc
  <2>1. /\ pc = "ka1" /\ pc' = "ka1" /\ queue' = Rest
        /\ Rest \in Seq(Datagrams) /\ queue \in Seq(Datagrams)
    BY <1>1, <1>7, RestFacts DEF SkipOne, ChannelTypeOK
  <2>2. /\ Len(Rest) = Len(queue) - 1
        /\ \A i \in 1 .. Len(Rest) : Rest[i] = queue[i + 1]
    BY <1>1, <1>7, RestFacts DEF Arrived
  <2>3. DOMAIN queue' = 1 .. Len(Rest) /\ Len(Rest) \in Nat /\ Len(queue) \in Nat
    BY <2>1, LenProperties
  <2>4. \A i \in 1 .. Len(Rest) : i + 1 \in DOMAIN queue
    BY <2>1, <2>2, LenProperties
  <2>5. \A i \in 1 .. Len(Rest) :
          IF queue[i + 1].fresh THEN i + 1 = Len(queue)
          ELSE queue[i + 1].body = Notice
    BY <2>1, <2>4 DEF Aligned
  <2>6. \A i \in 1 .. Len(Rest) :
          IF Rest[i].fresh THEN i = Len(Rest) ELSE Rest[i].body = Notice
    BY <2>2, <2>3, <2>5
  <2> QED
    BY <2>1, <2>3, <2>6 DEF Aligned
<1>8. CASE pc = "pause" /\ pc' = "exited" /\ UNCHANGED channel
  <2>1. queue = <<>>
    BY <1>8, AsleepEmpty DEF Sleeping
  <2> QED
    BY <1>8, <2>1 DEF channel, Aligned
<1> QED
  BY <1>3, <1>4, <1>5, <1>6, <1>7, <1>8, ClientSocket

(* What comes in while the client is in step goes where it is expected.    *)
LEMMA AnswerAligned ==
  ASSUME ChannelInv, Aligned, AnswerComes
  PROVE  Aligned'
<1>1. PICK r \in net : Answer(r)
  BY DEF AnswerComes
<1>2. pc' = pc
  BY DEF AnswerComes
<1>3. /\ queue \in Seq(Datagrams) /\ Len(queue) \in Nat
      /\ r.fresh \in BOOLEAN /\ sync \in BOOLEAN
  BY DEF ChannelInv, TypeOK, ChannelTypeOK, Requests
<1>4. /\ sync' = (sync /\ r.fresh)
      /\ r.fresh => ~FreshQueued
      /\ \/ queue' = queue
         \/ \E body \in Replies :
              queue' = Append(queue, [body |-> body, fresh |-> r.fresh])
  BY <1>1, AnswerFacts DEF ChannelInv, TypeOK
<1> SUFFICES ASSUME sync' PROVE Aligned'
  BY DEF Aligned
<1>5. sync /\ r.fresh /\ ~FreshQueued
  BY <1>3, <1>4
<1>6. CASE queue' = queue
  BY <1>2, <1>5, <1>6 DEF Aligned
<1>7. CASE \E body \in Replies :
             queue' = Append(queue, [body |-> body, fresh |-> r.fresh])
  <2>1. PICK body \in Replies :
          queue' = Append(queue, [body |-> body, fresh |-> r.fresh])
    BY <1>7
  <2>2. [body |-> body, fresh |-> r.fresh] \in Datagrams
    BY <1>3 DEF Datagrams
  <2>3. /\ DOMAIN queue' = 1 .. Len(queue) + 1 /\ Len(queue') = Len(queue) + 1
        /\ DOMAIN queue = 1 .. Len(queue)
        /\ \A i \in 1 .. Len(queue) : queue'[i] = queue[i]
        /\ queue'[Len(queue) + 1].fresh
    BY <1>3, <1>5, <2>1, <2>2, AppendProperties
  <2>4. \A i \in 1 .. Len(queue) : ~queue[i].fresh
    BY <1>5, <2>3 DEF FreshQueued
  <2>5. pc # "notice"
    BY <1>5 DEF ChannelInv, FreshAwaited, NothingFresh, DhcpKinds, Keepalive2Kinds
  <2>6. \A i \in 1 .. Len(queue) : /\ queue[i].body = Notice
                                   /\ \/ pc = "ka1"
                                      \/ pc = "login" /\ queue[1].fresh /\ i = 2
    BY <1>5, <2>3, <2>4, <2>5 DEF Aligned
  <2>7. pc # "ka1" => Len(queue) = 0
    <3>1. pc # "ka1" => 1 \notin 1 .. Len(queue)
      BY <2>6
    <3> QED
      BY <1>3, <3>1
  <2>8. \A i \in DOMAIN queue' :
          IF queue'[i].fresh
          THEN i = IF pc = "login" THEN 1 ELSE Len(queue')
          ELSE queue'[i].body = Notice /\ pc = "ka1"
    <3> SUFFICES ASSUME NEW i \in DOMAIN queue'
                 PROVE  IF queue'[i].fresh
                        THEN i = IF pc = "login" THEN 1 ELSE Len(queue')
                        ELSE queue'[i].body = Notice /\ pc = "ka1"
      OBVIOUS
    <3>1. CASE i \in 1 .. Len(queue)
      <4>1. pc = "ka1"
        BY <1>3, <2>7, <3>1
      <4>2. ~queue'[i].fresh /\ queue'[i].body = Notice
        BY <2>3, <2>4, <2>6, <3>1
      <4> QED
        BY <4>1, <4>2
    <3>2. CASE i = Len(queue) + 1
      BY <1>3, <2>3, <2>7, <3>2
    <3> QED
      BY <1>3, <2>3, <3>1, <3>2
  <2> QED
    BY <1>2, <2>8 DEF Aligned
<1> QED
  BY <1>4, <1>6, <1>7

(* A notice that is expected leaves the client aligned.                    *)
LEMMA NoticeAligned ==
  ASSUME ChannelInv, Aligned, NoticeComes
  PROVE  Aligned'
<1> DEFINE notice == [body |-> Notice, fresh |-> FALSE]
<1>1. SendNotice(NoticeExpected) /\ pc' = pc
  BY DEF NoticeComes
<1>2. NoticeExpected \in BOOLEAN
  BY DEF NoticeExpected
<1>3. /\ sync' = (sync /\ NoticeExpected)
      /\ queue' = queue \/ queue' = Append(queue, notice)
  BY <1>1, <1>2, SendNoticeFacts DEF ChannelInv, TypeOK
<1> SUFFICES ASSUME sync' PROVE Aligned'
  BY DEF Aligned
<1>4. /\ queue \in Seq(Datagrams) /\ Len(queue) \in Nat
      /\ notice \in Datagrams /\ sync \in BOOLEAN
  BY DEF ChannelInv, TypeOK, ChannelTypeOK, Datagrams, Notice, Plain, Replies,
     ReplyKinds, ReplyCodes
<1>5. sync /\ NoticeExpected
  BY <1>2, <1>3, <1>4
<1>6. CASE queue' = queue
  BY <1>1, <1>5, <1>6 DEF Aligned
<1>7. CASE queue' = Append(queue, notice)
  <2>1. /\ DOMAIN queue' = 1 .. Len(queue) + 1 /\ Len(queue') = Len(queue) + 1
        /\ DOMAIN queue = 1 .. Len(queue)
        /\ \A i \in 1 .. Len(queue) : queue'[i] = queue[i]
        /\ queue'[Len(queue) + 1] = notice
        /\ notice.fresh = FALSE /\ notice.body = Notice
    BY <1>4, <1>7, AppendProperties
  <2>2. CASE pc = "notice" /\ queue = <<>>
    BY <1>1, <2>1, <2>2 DEF Aligned
  <2>3. CASE pc = "login" /\ Len(queue) = 1 /\ Arrived({"accept"})
    <3>1. 1 \in DOMAIN queue /\ Head(queue) = queue[1]
      BY <1>4, <2>3
    <3>2. queue[1].fresh /\ queue[1].body.kind = "accept"
      BY <1>5, <2>3, <3>1 DEF Aligned, Arrived
    <3> QED
      BY <1>1, <2>1, <2>3, <3>2 DEF Aligned
  <2>4. CASE pc = "ka1" /\ ~FreshQueued
    <3>1. \A i \in 1 .. Len(queue) : ~queue[i].fresh /\ queue[i].body = Notice
      BY <1>5, <2>1, <2>4 DEF Aligned, FreshQueued
    <3>2. \A i \in DOMAIN queue' : ~queue'[i].fresh /\ queue'[i].body = Notice
      BY <1>4, <2>1, <3>1
    <3> QED
      BY <1>1, <2>4, <3>2 DEF Aligned
  <2> QED
    BY <1>5, <2>2, <2>3, <2>4 DEF NoticeExpected
<1> QED
  BY <1>3, <1>6, <1>7

----------------------------------------------------------------------------
(* Credentials, delays and counters.                                       *)

(* A client in step takes seed and auth_information from fresh replies.    *)
LEMMA ClientCredentials ==
  ASSUME ChannelInv, Aligned, CredentialsCurrent, Client
  PROVE  CredentialsCurrent'
<1>1. sync' = sync
  BY ClientChannel
<1> SUFFICES ASSUME sync PROVE CredentialsCurrent'
  BY <1>1 DEF CredentialsCurrent
<1>2. /\ pc \in {"login", "notice"} \cup Online => seed_current
      /\ pc \in {"notice"} \cup Online => auth_current
  BY DEF CredentialsCurrent
<1> USE DEF Online, Heartbeat, Keepalive2Kinds, login, heart, Ask, AskAwake, SleepIn
<1>3. CASE FirstAttempt \/ NextAttempt
  BY <1>3 DEF FirstAttempt, NextAttempt, SendChallenge, CredentialsCurrent
<1>4. CASE GiveUp
  BY <1>4 DEF GiveUp, CredentialsCurrent
<1>5. CASE ChallengeFails
  BY <1>5 DEF ChallengeFails, CredentialsCurrent
<1>6. CASE ChallengeAnswered
  <2>1. ReadsAnswer /\ queue # <<>> /\ pc # "notice"
    BY <1>6 DEF ChallengeAnswered, SendLogin, ReadsAnswer, Arrived, Waiting, DhcpKinds
  <2>2. Head(queue).fresh
    BY <2>1, AnswerAlone
  <2> QED
    BY <1>6, <2>2 DEF ChallengeAnswered, SendLogin, CredentialsCurrent
<1>7. CASE LoginRejected
  BY <1>7 DEF LoginRejected, CredentialsCurrent
<1>8. CASE LoginFails
  BY <1>8 DEF LoginFails, CredentialsCurrent
<1>9. CASE LoginAccepted
  <2>1. pc = "login" /\ queue # <<>>
    BY <1>9 DEF LoginAccepted, Arrived
  <2>2. Head(queue) = queue[1] /\ 1 \in DOMAIN queue
    BY <2>1, HeadFacts DEF ChannelInv, TypeOK
  <2>3. Head(queue).fresh
    BY <2>1, <2>2 DEF Aligned
  <2> QED
    BY <1>2, <1>9, <2>3 DEF LoginAccepted, CredentialsCurrent
<1>10. CASE SessionBegins
  BY <1>2, <1>10 DEF SessionBegins, CredentialsCurrent
<1>11. CASE SkipNotice
  BY <1>2, <1>11 DEF SkipNotice, CredentialsCurrent
<1>12. CASE Keepalive1Challenged
  BY <1>2, <1>12 DEF Keepalive1Challenged, CredentialsCurrent
<1>13. CASE Keepalive1Succeeds
  <2>1. pc \in Online
    BY <1>13 DEF Keepalive1Succeeds
  <2> QED
    BY <1>2, <1>13, <2>1 DEF Keepalive1Succeeds, StartKeepalive2, CredentialsCurrent
<1>14. CASE Keepalive1Fails
  <2>1. pc \in Online /\ pc' \in {"pause", "ka1"}
    BY <1>14 DEF Keepalive1Fails, Keepalive1Missed
  <2> QED
    BY <1>2, <1>14, <2>1 DEF Keepalive1Fails, CredentialsCurrent
<1>15. CASE Keepalive2Proceeds
  <2>1. pc \in Online
    BY <1>15 DEF Keepalive2Proceeds, FileAcknowledged, FirstAnswered, Keepalive2Fails
  <2> QED
    BY <1>2, <1>15, <2>1 DEF Keepalive2Proceeds, CredentialsCurrent
<1>16. CASE HeartbeatComplete
  BY <1>2, <1>16 DEF HeartbeatComplete, Keepalive2Succeeds, CredentialsCurrent
<1>17. CASE NextHeartbeat
  BY <1>2, <1>17 DEF NextHeartbeat, CredentialsCurrent
<1> QED
  BY <1>3, <1>4, <1>5, <1>6, <1>7, <1>8, <1>9, <1>10, <1>11, <1>12, <1>13,
     <1>14, <1>15, <1>16, <1>17 DEF Client

(* Every step of the client keeps what the refinement needs of its         *)
(* counters and of the delay.                                              *)
LEMMA ClientDelayAndCounters ==
  ASSUME ChannelInv, DelayReset, CountersBounded, Client
  PROVE  DelayReset' /\ CountersBounded'
<1> USE DEF ChannelInv, TypeOK, DelayReset, CountersBounded, Online, Heartbeat,
        Keepalive2Kinds, login, heart, Ask, AskAwake, SleepIn
<1>1. CASE FirstAttempt
  BY <1>1, DhcpAssumption DEF FirstAttempt, SendChallenge
<1>2. CASE NextAttempt
  BY <1>2, DhcpAssumption DEF NextAttempt, SendChallenge
<1>3. CASE GiveUp
  BY <1>3, DhcpAssumption DEF GiveUp
<1>4. CASE ChallengeFails
  BY <1>4 DEF ChallengeFails
<1>5. CASE ChallengeAnswered
  BY <1>5 DEF ChallengeAnswered, SendLogin
<1>6. CASE LoginRejected
  BY <1>6 DEF LoginRejected
<1>7. CASE LoginFails
  BY <1>7 DEF LoginFails
<1>8. CASE LoginAccepted
  BY <1>8 DEF LoginAccepted
<1>9. CASE SessionBegins
  BY <1>9, ThresholdAssumption DEF SessionBegins
<1>10. CASE SkipNotice
  BY <1>10 DEF SkipNotice
<1>11. CASE Keepalive1Challenged
  BY <1>11 DEF Keepalive1Challenged
<1>12. CASE Keepalive1Succeeds
  <2>1. pc \in Online /\ pc' \in {"ka2_file", "ka2_first"}
    BY <1>12 DEF Keepalive1Succeeds, StartKeepalive2
  <2> QED
    BY <1>12, <2>1 DEF Keepalive1Succeeds
<1>13. CASE Keepalive1Fails
  <2>1. pc \in Online
    BY <1>13 DEF Keepalive1Fails, Keepalive1Missed
  <2>2. keepalive_try_counter' = keepalive_try_counter + 1
    BY <1>13, <2>1, FailureCountFacts DEF Keepalive1Fails
  <2>3. pc' = "ka1" => keepalive_try_counter' < ReconnectThreshold
    <3>1. pc' = "ka1" => ~(keepalive_try_counter' >= ReconnectThreshold)
      BY <1>13 DEF Keepalive1Fails, ShouldReconnect
    <3> QED
      BY <2>2, <3>1, ThresholdAssumption
  <2>4. pc' \in {"pause", "ka1"} /\ try_counter' = try_counter
    BY <1>13 DEF Keepalive1Fails
  <2> QED
    BY <2>1, <2>3, <2>4
<1>14. CASE Keepalive2Proceeds
  <2>1. pc \in Online /\ pc' \in {"ka1", "ka2_first", "ka2_third"}
    BY <1>14 DEF Keepalive2Proceeds, FileAcknowledged, FirstAnswered, Keepalive2Fails
  <2> QED
    BY <1>14, <2>1 DEF Keepalive2Proceeds
<1>15. CASE HeartbeatComplete
  BY <1>15, ThresholdAssumption
     DEF HeartbeatComplete, Keepalive2Succeeds, NextKeepaliveFailureCount
<1>16. CASE NextHeartbeat
  BY <1>16 DEF NextHeartbeat
<1> QED
  BY <1>1, <1>2, <1>3, <1>4, <1>5, <1>6, <1>7, <1>8, <1>9, <1>10, <1>11,
     <1>12, <1>13, <1>14, <1>15, <1>16 DEF Client

----------------------------------------------------------------------------
(* The inductive invariant.                                                *)

(* The inductive invariant holds at the start.                             *)
LEMMA InitInv == Init => IInv
<1> SUFFICES ASSUME Init PROVE IInv
  OBVIOUS
<1>1. queue = <<>> /\ net = {} /\ pc = "boot"
  BY DEF Init, ChannelInit
<1>2. TypeOK
  <2>1. ChannelTypeOK
    BY EmptySeq DEF Init, ChannelInit, ChannelTypeOK
  <2>2. 0 \in 0 .. TryTimes /\ 0 \in 0 .. JluAfter + 2 /\ 0 \in 0 .. ReconnectThreshold
    BY DhcpAssumption, ThresholdAssumption
  <2> QED
    BY <2>1, <2>2, DelayAssumption DEF Init, TypeOK, Sleeping
<1>3. FreshOnce /\ FreshAwaited /\ Aligned
  BY <1>1 DEF FreshOnce, FreshAwaited, NothingFresh, FreshQueued, Aligned
<1>4. CredentialsCurrent
  BY <1>1 DEF CredentialsCurrent, Online, Heartbeat, Keepalive2Kinds
<1>5. DelayReset /\ CountersBounded
  BY <1>1, DhcpAssumption, ThresholdAssumption
     DEF Init, DelayReset, CountersBounded, Online, Heartbeat, Keepalive2Kinds
<1> QED
  BY <1>2, <1>3, <1>4, <1>5 DEF IInv, ChannelInv

(* The steps of the network leave the client alone.                        *)
LEMMA NetworkInv ==
  ASSUME IInv, AnswerComes \/ NoticeComes \/ NetworkSettles
  PROVE  IInv'
<1> USE DEF IInv, ChannelInv
<1>1. UNCHANGED <<pc, login, heart>>
  BY DEF AnswerComes, NoticeComes, NetworkSettles
<1>2. /\ ChannelTypeOK' /\ FreshOnce'
      /\ NothingFresh => NothingFresh'
      /\ sync' => sync
  <2>1. CASE AnswerComes
    <3>1. PICK r \in net : Answer(r)
      BY <2>1 DEF AnswerComes
    <3>2. r.fresh \in BOOLEAN /\ sync \in BOOLEAN
      BY DEF TypeOK, ChannelTypeOK, Requests
    <3> QED
      BY <3>1, <3>2, AnswerFacts DEF TypeOK
  <2>2. CASE NoticeComes
    <3>1. NoticeExpected \in BOOLEAN /\ sync \in BOOLEAN
      BY DEF TypeOK, ChannelTypeOK, NoticeExpected
    <3> QED
      BY <2>2, <3>1, SendNoticeFacts DEF NoticeComes, TypeOK
  <2>3. CASE NetworkSettles
    BY <2>3, BecomeCalmFacts DEF NetworkSettles, TypeOK
  <2> QED
    BY <2>1, <2>2, <2>3
<1>3. Aligned'
  <2>1. CASE NetworkSettles
    BY <1>1, <2>1 DEF NetworkSettles, BecomeCalm, Aligned
  <2> QED
    BY <2>1, AnswerAligned, NoticeAligned
<1>4. TypeOK'
  BY <1>1, <1>2 DEF TypeOK, login, heart
<1>5. FreshAwaited'
  BY <1>1, <1>2 DEF FreshAwaited
<1>6. CredentialsCurrent' /\ DelayReset' /\ CountersBounded'
  BY <1>1, <1>2 DEF CredentialsCurrent, DelayReset, CountersBounded, login, heart
<1> QED
  BY <1>2, <1>3, <1>4, <1>5, <1>6

(* Every step keeps the inductive invariant.                               *)
LEMMA NextInv == IInv /\ [Next]_vars => IInv'
<1> SUFFICES ASSUME IInv, [Next]_vars PROVE IInv'
  OBVIOUS
<1>1. CASE Client
  <2>1. ChannelTypeOK' /\ FreshOnce' /\ FreshAwaited' /\ pc' \in Waiting \cup Sleeping
    BY <1>1, ClientChannel DEF IInv
  <2>2. LocalTypeOK'
    BY <1>1, ClientLocalTypes DEF IInv, ChannelInv
  <2>3. TypeOK'
    BY <2>1, <2>2 DEF TypeOK, LocalTypeOK
  <2> QED
    BY <1>1, <2>1, <2>3, ClientAligned, ClientCredentials, ClientDelayAndCounters
       DEF IInv, ChannelInv
<1>2. CASE AnswerComes \/ NoticeComes \/ NetworkSettles
  BY <1>2, NetworkInv
<1>3. CASE UNCHANGED vars
  <2>1. /\ UNCHANGED <<net, queue, calm, sync, pc, first, try_counter>>
        /\ UNCHANGED <<login_failed_attempts, try_JLUversion, login_retry_delay>>
        /\ UNCHANGED <<keepalive_try_counter, seed_current, auth_current>>
    BY <1>3 DEF vars, channel, login, heart
  <2> QED
    BY <2>1 DEF IInv, ChannelInv, TypeOK, ChannelTypeOK, FreshOnce, FreshAwaited,
       NothingFresh, FreshQueued, Aligned, CredentialsCurrent, DelayReset,
       CountersBounded
<1> QED
  BY <1>1, <1>2, <1>3 DEF Next, Done

----------------------------------------------------------------------------
(* The theorems.                                                           *)

THEOREM Invariance == Spec => []IInv
<1>1. Init => IInv
  BY InitInv
<1>2. IInv /\ [Next]_vars => IInv'
  BY NextInv
<1> QED
  BY <1>1, <1>2, PTL DEF Spec

(* The state of the client keeps its types (auth.c:732-738, 760-765).      *)
THEOREM TypeCorrect == Spec => []TypeOK
<1>1. IInv => TypeOK
  BY DEF IInv, ChannelInv
<1> QED
  BY <1>1, Invariance, PTL

(* As long as nothing unexpected came, every reply the client acts on      *)
(* answers the request it is waiting on (every recvfrom of auth.c and      *)
(* keepalive.c), for any server and any number of lost datagrams.          *)
THEOREM InStep == Spec => []RepliesMatchRequests
<1>1. IInv => RepliesMatchRequests
  <2> SUFFICES ASSUME IInv, sync, pc \in DhcpKinds, queue # <<>>
               PROVE  \/ Head(queue).fresh
                      \/ pc = "ka1" /\ Head(queue).body = Notice
    BY DEF RepliesMatchRequests
  <2>1. Head(queue) = queue[1] /\ 1 \in DOMAIN queue
    BY HeadFacts DEF IInv, ChannelInv, TypeOK
  <2>2. pc # "notice"
    BY DEF DhcpKinds, Keepalive2Kinds
  <2>3. CASE queue[1].fresh
    BY <2>1, <2>3
  <2>4. CASE ~queue[1].fresh
    BY <2>1, <2>2, <2>4 DEF IInv, Aligned
  <2> QED
    BY <2>3, <2>4
<1> QED
  BY <1>1, Invariance, PTL

(* As long as nothing unexpected came, a session stands on the challenge   *)
(* and the login that were answered last (auth.c:741, 757, 764).           *)
THEOREM CurrentCredentials == Spec => []CredentialsCurrent
<1>1. IInv => CredentialsCurrent
  BY DEF IInv
<1> QED
  BY <1>1, Invariance, PTL

(* No cooldown outlives the attempt it was given for, none is forgotten,   *)
(* whatever the network does (auth.c:170, 420, 742, 780, 792, 796).        *)
THEOREM PauseIsVerdict == Spec => PauseFollowsVerdict
<1> DEFINE Pauses ==
      pc # "pause" /\ pc' = "pause" =>
        login_retry_delay' = IF pc = "login" /\ Arrived({"reject"})
                             THEN DelayForLoginReply(Head(queue).body)
                             ELSE DefaultDelay
<1>1. IInv /\ [Next]_vars => [Pauses]_vars
  <2> SUFFICES ASSUME IInv, Next, pc # "pause", pc' = "pause"
               PROVE  Pauses
    OBVIOUS
  <2>1. Client
    BY DEF Next, AnswerComes, NoticeComes, NetworkSettles, Done, vars
  <2>2. ChallengeFails \/ LoginRejected \/ LoginFails \/ Keepalive1Fails
    BY <2>1 DEF Client, FirstAttempt, NextAttempt, GiveUp, ChallengeAnswered, SendLogin,
       LoginAccepted, SessionBegins, SkipNotice, Keepalive1Challenged,
       Keepalive1Succeeds, Keepalive2Proceeds, HeartbeatComplete, NextHeartbeat,
       SendChallenge, StartKeepalive2, FileAcknowledged, FirstAnswered,
       Keepalive2Fails, Keepalive2Succeeds, Ask, AskAwake, SleepIn
  <2>3. CASE ChallengeFails
    BY <2>3 DEF ChallengeFails, IInv, DelayReset, login
  <2>4. CASE LoginRejected
    <3>1. queue # <<>> /\ pc = "login" /\ Arrived({"reject"})
      BY <2>4 DEF LoginRejected, Arrived
    <3>2. Head(queue).body \in Replies
      BY <3>1, HeadFacts DEF IInv, ChannelInv, TypeOK
    <3> QED
      BY <2>4, <3>1, <3>2, PolicyPositive DEF LoginRejected
  <2>5. CASE LoginFails
    BY <2>5 DEF LoginFails, Missed, TimedOut, Arrived, IInv, DelayReset
  <2>6. CASE Keepalive1Fails
    <3>1. pc # "login" /\ login_retry_delay' = Normalize(DefaultDelay)
      BY <2>6 DEF Keepalive1Fails, Keepalive1Missed, Ask
    <3> QED
      BY <3>1, DelayAssumption DEF Normalize
  <2> QED
    BY <2>2, <2>3, <2>4, <2>5, <2>6
<1> QED
  BY <1>1, Invariance, PTL DEF Spec, PauseFollowsVerdict

----------------------------------------------------------------------------
(* The template.                                                           *)

(* A login goes out with the template of its count.  Once a failure is     *)
(* counted that takes the count past JluAfter, the next login is to use    *)
(* another one than the last; a session has forgotten all failures.        *)
TemplateFollows ==
  /\ pc \in {"login", "notice"} => try_JLUversion = LoginTemplate(login_failed_attempts)
  /\ pc \in {"pause", "challenge"} /\ login_failed_attempts > JluAfter =>
       try_JLUversion # LoginTemplate(login_failed_attempts)
  /\ pc \in Online \cup {"boot"} => login_failed_attempts = 0

(* One more failure changes the template, once there are enough of them.   *)
LEMMA TemplateChanges ==
  ASSUME NEW n \in 0 .. JluAfter + 2
  PROVE  NextFailedAttempts(n) > JluAfter =>
           LoginTemplate(NextFailedAttempts(n)) # LoginTemplate(n)
<1>1. JluAfter \in Nat /\ JluAfter % 2 = 0
  BY DhcpAssumption
<1>2. CASE n < JluAfter
  BY <1>1, <1>2 DEF NextFailedAttempts
<1>3. CASE n \in {JluAfter, JluAfter + 1, JluAfter + 2}
  BY <1>1, <1>3 DEF NextFailedAttempts, LoginTemplate
<1> QED
  BY <1>1, <1>2, <1>3

LEMMA TemplateInit == Init => TemplateFollows
BY DEF Init, TemplateFollows

(* Every step keeps to it.                                                 *)
LEMMA TemplateStep ==
  ASSUME IInv, TemplateFollows, [Next]_vars
  PROVE  TemplateFollows'
<1> USE DEF TemplateFollows, login, Online, Heartbeat, Keepalive2Kinds, Ask, AskAwake,
            SleepIn
<1>0. login_failed_attempts \in 0 .. JluAfter + 2 /\ JluAfter \in Nat
  BY DhcpAssumption DEF IInv, ChannelInv, TypeOK
<1>1. CASE FirstAttempt \/ NextAttempt
  BY <1>0, <1>1 DEF FirstAttempt, NextAttempt, SendChallenge
<1>2. CASE GiveUp \/ ChallengeFails
  BY <1>2 DEF GiveUp, ChallengeFails
<1>3. CASE ChallengeAnswered
  BY <1>3 DEF ChallengeAnswered, SendLogin
<1>4. CASE LoginRejected \/ LoginFails
  <2>1. /\ pc = "login" /\ pc' = "pause" /\ UNCHANGED try_JLUversion
        /\ login_failed_attempts' = NextFailedAttempts(login_failed_attempts)
    BY <1>4 DEF LoginRejected, LoginFails
  <2>2. login_failed_attempts' > JluAfter =>
          LoginTemplate(login_failed_attempts') # LoginTemplate(login_failed_attempts)
    BY <1>0, <2>1, TemplateChanges
  <2> QED
    BY <2>1, <2>2
<1>5. CASE LoginAccepted
  BY <1>5 DEF LoginAccepted
<1>6. CASE SessionBegins
  BY <1>6 DEF SessionBegins
<1>7. CASE SkipNotice \/ NextHeartbeat \/ HeartbeatComplete \/ Keepalive2Proceeds
           \/ Keepalive1Challenged \/ Keepalive1Succeeds
  <2>1. pc \in Online /\ pc' \in Online /\ UNCHANGED login_failed_attempts
    BY <1>7
       DEF SkipNotice, NextHeartbeat, HeartbeatComplete, Keepalive2Proceeds,
           Keepalive1Challenged, Keepalive1Succeeds, StartKeepalive2, FileAcknowledged,
           FirstAnswered, Keepalive2Fails, Keepalive2Succeeds
  <2> QED
    BY <2>1
<1>8. CASE Keepalive1Fails
  <2>1. /\ pc \in Online /\ pc' \in {"ka1", "pause"}
        /\ UNCHANGED login_failed_attempts
    BY <1>8 DEF Keepalive1Fails, Keepalive1Missed
  <2> QED
    BY <1>0, <2>1
<1>9. CASE UNCHANGED <<pc, login>>
  BY <1>9
<1> QED
  BY <1>1, <1>2, <1>3, <1>4, <1>5, <1>6, <1>7, <1>8, <1>9
     DEF Next, Client, AnswerComes, NoticeComes, NetworkSettles, Done, vars

(* From the third failure on logins alternate between the templates, until *)
(* then they keep to the standard one (auth.c:746-756, 795).               *)
THEOREM TemplatesTakeTurns == Spec => TemplateAlternates
<1> DEFINE Turns ==
      pc # "login" /\ pc' = "login" =>
        IF login_failed_attempts > JluAfter
        THEN try_JLUversion' # try_JLUversion
        ELSE ~try_JLUversion'
<1>1. Init => IInv /\ TemplateFollows
  BY InitInv, TemplateInit
<1>2. IInv /\ TemplateFollows /\ [Next]_vars => (IInv /\ TemplateFollows)'
  BY NextInv, TemplateStep
<1>3. IInv /\ TemplateFollows /\ [Next]_vars => [Turns]_vars
  <2> SUFFICES ASSUME IInv, TemplateFollows, Next, pc # "login", pc' = "login"
               PROVE  Turns
    OBVIOUS
  <2>1. ChallengeAnswered
    BY DEF Next, AnswerComes, NoticeComes, NetworkSettles, Done, vars, Client,
       FirstAttempt, NextAttempt, GiveUp, ChallengeFails, LoginRejected, LoginFails,
       LoginAccepted, SessionBegins, SkipNotice, Keepalive1Challenged,
       Keepalive1Succeeds, Keepalive1Fails, Keepalive2Proceeds, HeartbeatComplete,
       NextHeartbeat, SendChallenge, StartKeepalive2, FileAcknowledged, FirstAnswered,
       Keepalive2Fails, Keepalive2Succeeds, Ask, AskAwake, SleepIn
  <2>2. pc = "challenge" /\ try_JLUversion' = LoginTemplate(login_failed_attempts)
    BY <2>1 DEF ChallengeAnswered
  <2> QED
    BY <2>2 DEF TemplateFollows, LoginTemplate
<1> QED
  BY <1>1, <1>2, <1>3, PTL DEF Spec, TemplateAlternates

----------------------------------------------------------------------------
(* The refinement of AuthSession.                                          *)

(* A client step that stays inside one phase and keeps its numbers is a    *)
(* stutter of the session.                                                 *)
LEMMA SessionStutter ==
  ASSUME Phase' = Phase, pc # "pause", pc' # "pause",
         UNCHANGED <<try_counter, keepalive_try_counter>>,
         pc \in Online <=> pc' \in Online
  PROVE  UNCHANGED Session!session
BY DEF Session!session, FinishedAttempts

(* A client that starts is a session that has not begun.                   *)
LEMMA SessionInit == Init => Session!Init
BY DEF Init, Session!Init, Phase, FinishedAttempts, Online, Heartbeat, Keepalive2Kinds

(* Every step of the client is a step of the session, or none.             *)
LEMMA SessionStep ==
  ASSUME IInv, Next
  PROVE  Session!Next \/ UNCHANGED Session!session
<1> USE DEF Online, Heartbeat, Keepalive2Kinds, login, heart, Ask, AskAwake, SleepIn
<1>0. /\ try_counter \in 0 .. TryTimes /\ TryTimes \in Nat \ {0, 1}
      /\ pc # "exited" => try_counter < TryTimes
      /\ Eternal => pc # "exited" /\ try_counter = 0
      /\ pc \in Online => keepalive_try_counter < ReconnectThreshold
      /\ keepalive_try_counter \in 0 .. ReconnectThreshold
      /\ Eternal \in BOOLEAN
  BY DhcpAssumption DEF IInv, ChannelInv, TypeOK, CountersBounded
<1>1. CASE FirstAttempt
  <2>1. /\ pc = "boot" /\ pc' = "challenge"
        /\ UNCHANGED <<try_counter, keepalive_try_counter>>
    BY <1>1 DEF FirstAttempt, SendChallenge
  <2>2. Session!Begin
    BY <1>0, <2>1 DEF Session!Begin, Phase, FinishedAttempts
  <2> QED
    BY <2>2 DEF Session!Next
<1>2. CASE NextAttempt
  <2>1. /\ pc = "pause" /\ pc' = "challenge"
        /\ try_counter + 1 < TryTimes
        /\ try_counter' = IF Eternal THEN 0 ELSE try_counter + 1
        /\ UNCHANGED keepalive_try_counter
    BY <1>2 DEF NextAttempt, SendChallenge
  <2>2. Session!Begin
    BY <1>0, <2>1 DEF Session!Begin, Phase, FinishedAttempts
  <2> QED
    BY <2>2 DEF Session!Next
<1>3. CASE GiveUp
  <2>1. /\ pc = "pause" /\ pc' = "exited"
        /\ try_counter + 1 >= TryTimes
        /\ try_counter' = try_counter + 1
        /\ UNCHANGED keepalive_try_counter
    BY <1>3 DEF GiveUp
  <2>2. ~Eternal /\ try_counter + 1 = TryTimes
    BY <1>0, <2>1
  <2>3. Session!Stop
    BY <1>0, <2>1, <2>2 DEF Session!Stop, Phase, FinishedAttempts
  <2> QED
    BY <2>3 DEF Session!Next
<1>4. CASE ChallengeFails \/ LoginRejected \/ LoginFails
  <2>1. /\ pc \in {"challenge", "login"} /\ pc' = "pause"
        /\ UNCHANGED try_counter
    BY <1>4 DEF ChallengeFails, LoginRejected, LoginFails
  <2>2. IInv'
    BY NextInv
  <2>3. login_retry_delay' \in Nat \ {0}
    BY <2>2 DEF IInv, ChannelInv, TypeOK
  <2>4. Session!Refused
    BY <1>0, <2>1, <2>3
       DEF Session!Refused, Session!FinishAttempt, Phase, FinishedAttempts
  <2> QED
    BY <2>4 DEF Session!Next
<1>5. CASE ChallengeAnswered \/ LoginAccepted
  <2>1. /\ pc \in {"challenge", "login"} /\ pc' \in {"login", "notice"}
        /\ UNCHANGED <<try_counter, keepalive_try_counter>>
    BY <1>5 DEF ChallengeAnswered, SendLogin, LoginAccepted
  <2> QED
    BY <2>1, SessionStutter DEF Phase
<1>6. CASE SessionBegins
  <2>1. /\ pc = "notice" /\ pc' = "ka1" /\ keepalive_try_counter' = 0
        /\ UNCHANGED try_counter
    BY <1>6 DEF SessionBegins
  <2>2. Session!Established
    BY <2>1 DEF Session!Established, Phase, FinishedAttempts
  <2> QED
    BY <2>2 DEF Session!Next
<1>7. CASE SkipNotice
  BY <1>7, SessionStutter DEF SkipNotice, Phase
<1>8. CASE Keepalive1Challenged \/ Keepalive1Succeeds \/ Keepalive2Proceeds
           \/ NextHeartbeat
  <2>1. /\ pc \in Online /\ pc' \in Online
        /\ UNCHANGED <<try_counter, keepalive_try_counter>>
    BY <1>8 DEF Keepalive1Challenged, Keepalive1Succeeds, StartKeepalive2,
       Keepalive2Proceeds, FileAcknowledged, FirstAnswered, Keepalive2Fails,
       NextHeartbeat
  <2> QED
    BY <2>1, SessionStutter DEF Phase
<1>9. CASE Keepalive1Fails
  <2>1. pc \in {"ka1", "ka1_auth"} /\ UNCHANGED try_counter
    BY <1>9 DEF Keepalive1Fails, Keepalive1Missed
  <2>2. keepalive_try_counter' = keepalive_try_counter + 1
    BY <1>0, <1>9, <2>1, FailureCountFacts DEF Keepalive1Fails
  <2>3. CASE ShouldReconnect(keepalive_try_counter')
    <3>1. pc' = "pause" /\ login_retry_delay' = DefaultDelay
      BY <1>9, <2>3, DelayAssumption DEF Keepalive1Fails, Normalize
    <3>2. keepalive_try_counter + 1 = ReconnectThreshold
      BY <1>0, <2>1, <2>2, <2>3, FailureCountFacts
    <3>3. Session!Lost
      BY <2>1, <3>1, <3>2
         DEF Session!Lost, Session!FinishAttempt, Phase, FinishedAttempts
    <3> QED
      BY <3>3 DEF Session!Next
  <2>4. CASE ~ShouldReconnect(keepalive_try_counter')
    <3>1. pc' = "ka1"
      BY <1>9, <2>4 DEF Keepalive1Fails
    <3>2. keepalive_try_counter + 1 < ReconnectThreshold
      BY <1>0, <2>1, <2>2, <2>4, ThresholdAssumption DEF ShouldReconnect
    <3>3. Session!Missed
      BY <2>1, <2>2, <3>1, <3>2 DEF Session!Missed, Phase, FinishedAttempts
    <3> QED
      BY <3>3 DEF Session!Next
  <2> QED
    BY <2>3, <2>4
<1>10. CASE HeartbeatComplete
  <2>1. /\ pc \in Online /\ pc' = "idle" /\ keepalive_try_counter' = 0
        /\ UNCHANGED try_counter
    BY <1>10
       DEF HeartbeatComplete, Keepalive2Succeeds, NextKeepaliveFailureCount
  <2>2. Session!Confirmed
    BY <2>1 DEF Session!Confirmed, Phase, FinishedAttempts
  <2> QED
    BY <2>2 DEF Session!Next
<1>11. CASE AnswerComes \/ NoticeComes \/ NetworkSettles \/ Done
  <2>1. UNCHANGED <<pc, try_counter, keepalive_try_counter, login_retry_delay>>
    BY <1>11 DEF AnswerComes, NoticeComes, NetworkSettles, Done, vars
  <2> QED
    BY <2>1 DEF Session!session, Phase, FinishedAttempts
<1> QED
  BY <1>1, <1>2, <1>3, <1>4, <1>5, <1>6, <1>7, <1>8, <1>9, <1>10, <1>11
     DEF Next, Client

(* The dhcp client keeps the promises of AuthSession: it pauses before     *)
(* every new attempt, leaves a session only after ReconnectThreshold       *)
(* missed heartbeats, and stops only when its attempts are used up, never  *)
(* when it is eternal (auth.c:732-799).                                    *)
THEOREM Refinement == Spec => ImplementsSession
<1>1. Init => Session!Init
  BY SessionInit
<1>2. IInv /\ [Next]_vars => [Session!Next]_(Session!session)
  <2> SUFFICES ASSUME IInv, [Next]_vars
               PROVE  Session!Next \/ UNCHANGED Session!session
    OBVIOUS
  <2>1. CASE Next
    BY <2>1, SessionStep
  <2>2. CASE UNCHANGED vars
    BY <2>2 DEF vars, channel, login, heart, Session!session, Phase, FinishedAttempts
  <2> QED
    BY <2>1, <2>2
<1> QED
  BY <1>1, <1>2, Invariance, PTL DEF Spec, ImplementsSession, Session!Spec

----------------------------------------------------------------------------
(* Out of step.                                                            *)

(* On a calm network nothing is under way.                                 *)
LEMMA StaysPrompt ==
  ASSUME CalmIsPrompt, [Next]_vars
  PROVE  CalmIsPrompt'
<1>1. CASE \E rest : \E kind \in DhcpKinds : Transmit(rest, kind)
  BY <1>1 DEF Transmit, CalmIsPrompt
<1>2. CASE \E place : SleepIn(place)
  BY <1>2 DEF SleepIn, StopWaiting, Age, CalmIsPrompt
<1>3. CASE SkipOne \/ UNCHANGED channel
  BY <1>3 DEF SkipOne, channel, CalmIsPrompt
<1>4. CASE Client
  BY <1>1, <1>2, <1>3, <1>4, ClientSocket DEF Ask, AskAwake
<1>5. CASE AnswerComes
  BY <1>5 DEF AnswerComes, Answer, CalmIsPrompt
<1>6. CASE NoticeComes
  BY <1>6 DEF NoticeComes, SendNotice, CalmIsPrompt
<1>7. CASE NetworkSettles
  BY <1>7 DEF NetworkSettles, BecomeCalm, CalmIsPrompt
<1> QED
  BY <1>3, <1>4, <1>5, <1>6, <1>7 DEF Next, Done, vars

(* On a calm network a request finds its answer behind what was there.     *)
LEMMA AnsweredBehind ==
  ASSUME NEW rest \in Seq(Datagrams), Len(rest) = 1, QueueCap > 1, calm,
         NEW kind \in DhcpKinds, Transmit(rest, kind)
  PROVE  /\ calm' /\ Len(queue') = 2
         /\ Head(queue').body = rest[1].body
         /\ queue'[2].body = GoodAnswer[kind]
<1>1. /\ AgeSeq(rest) \in Seq(Datagrams) /\ Len(AgeSeq(rest)) = 1
      /\ AgeSeq(rest)[1].body = rest[1].body
  <2>1. 1 \in DOMAIN rest
    OBVIOUS
  <2> QED
    BY <2>1, AgeSeqFacts
<1>2. Len(AgeSeq(rest)) < QueueCap
  BY <1>1, ChannelAssumption
<1>3. /\ calm'
      /\ queue' = Append(AgeSeq(rest), [body |-> GoodAnswer[kind], fresh |-> TRUE])
  BY <1>2 DEF Transmit, Offer
<1> DEFINE aged == AgeSeq(rest)
           good == [body |-> GoodAnswer[kind], fresh |-> TRUE]
<1>4. aged \in Seq(Datagrams) /\ Len(aged) = 1 /\ queue' = Append(aged, good)
  BY <1>1, <1>3
<1>5. good.body = GoodAnswer[kind]
  OBVIOUS
<1> HIDE DEF aged, good
<1>6. Len(queue') = 2 /\ queue'[1] = aged[1] /\ queue'[2] = good /\ queue' # <<>>
  BY <1>4
<1>7. Head(queue') = queue'[1]
  BY <1>4
<1> QED
  BY <1>1, <1>3, <1>5, <1>6, <1>7 DEF aged

(* A client that pauses keeps the one datagram too many.                   *)
LEMMA PausesBehind ==
  ASSUME ChannelTypeOK, OutOfStep, pc \in {"challenge", "login"}, SleepIn("pause")
  PROVE  OutOfStep'
<1>1. Rest \in Seq(Datagrams) /\ Len(Rest) = 1
  <2>1. Len(queue) = 2
    BY DEF OutOfStep
  <2>2. queue # <<>>
    BY <2>1
  <2> QED
    BY <2>1, <2>2, RestFacts
<1>2. pc' = "pause" /\ calm' = calm /\ queue' = AgeSeq(Rest)
  BY DEF SleepIn, StopWaiting
<1>3. Len(queue') = 1
  BY <1>1, <1>2, AgeSeqFacts
<1> QED
  BY <1>2, <1>3 DEF OutOfStep

LEMMA ClientStaysBehind ==
  ASSUME TypeOK, OutOfStep, QueueCap > 1, Client
  PROVE  OutOfStep'
<1>1. /\ ChannelTypeOK /\ calm /\ queue \in Seq(Datagrams)
      /\ pc \in {"pause", "challenge", "login", "exited"}
      /\ GoodAnswer["challenge"].kind = "challenge"
  BY DhcpAssumption DEF TypeOK, ChannelTypeOK, OutOfStep
<1>2. CASE NextAttempt
  <2>1. Len(queue) = 1 /\ pc' = "challenge" /\ Transmit(queue, "challenge")
    BY <1>2 DEF NextAttempt, SendChallenge, AskAwake, OutOfStep
  <2>2. calm' /\ Len(queue') = 2 /\ queue'[2].body = GoodAnswer["challenge"]
    BY <1>1, <2>1, AnsweredBehind DEF DhcpKinds
  <2> QED
    BY <1>1, <2>1, <2>2 DEF OutOfStep
<1>3. CASE GiveUp
  BY <1>3 DEF GiveUp, channel, OutOfStep
<1>4. CASE ChallengeFails
  BY <1>1, <1>4, PausesBehind DEF ChallengeFails
<1>5. CASE ChallengeAnswered
  <2>1. /\ Len(queue) = 2 /\ queue[2].body.kind = "challenge" /\ queue # <<>>
        /\ pc' = "login" /\ Transmit(Rest, "login")
    BY <1>5 DEF ChallengeAnswered, SendLogin, Ask, OutOfStep, Arrived
  <2>2. Rest \in Seq(Datagrams) /\ Len(Rest) = 1 /\ Rest[1] = queue[2]
    <3>1. Rest \in Seq(Datagrams) /\ Len(Rest) = 1
      BY <1>1, <2>1, RestFacts
    <3>2. 1 \in 1 .. Len(Rest) /\ 1 + 1 = 2
      BY <3>1
    <3> QED
      BY <1>1, <2>1, <3>1, <3>2, RestFacts
  <2>3. calm' /\ Len(queue') = 2 /\ Head(queue').body = queue[2].body
    BY <1>1, <2>1, <2>2, AnsweredBehind DEF DhcpKinds
  <2> QED
    BY <2>1, <2>3 DEF OutOfStep
<1>6. CASE LoginFails
  BY <1>1, <1>6, PausesBehind DEF LoginFails
<1>7. ~LoginRejected /\ ~LoginAccepted
  BY DEF LoginRejected, LoginAccepted, Arrived, OutOfStep
<1> QED
  BY <1>1, <1>2, <1>3, <1>4, <1>5, <1>6, <1>7
     DEF Client, FirstAttempt, SessionBegins, SkipNotice, Keepalive1Challenged,
         Keepalive1Succeeds, Keepalive1Fails, Keepalive1Missed, Keepalive2Proceeds,
         FileAcknowledged, FirstAnswered, Keepalive2Fails, HeartbeatComplete,
         Keepalive2Succeeds, NextHeartbeat, Keepalive2Kinds

(* A client that paused with one datagram too many on a calm network never *)
(* gets online again, for every server and every number of attempts, if    *)
(* the buffer has room for two datagrams (auth.c:154, 381).                *)
THEOREM OutOfStepForEver ==
  ASSUME QueueCap > 1
  PROVE  Spec => NothingRealigns
<1>1. Init => CalmIsPrompt
  BY DEF Init, ChannelInit, CalmIsPrompt
<1>2. CalmIsPrompt /\ [Next]_vars => CalmIsPrompt'
  BY StaysPrompt
<1>3. TypeOK /\ CalmIsPrompt /\ [Next]_vars => [OutOfStep => OutOfStep']_vars
  <2> SUFFICES ASSUME TypeOK, CalmIsPrompt, Next, OutOfStep PROVE OutOfStep'
    OBVIOUS
  <2>1. ~AnswerComes /\ ~NetworkSettles
    BY DEF AnswerComes, NetworkSettles, BecomeCalm, CalmIsPrompt, OutOfStep
  <2>2. ~NoticeComes
    <3>1. pc \notin {"notice", "ka1"} /\ ~(pc = "login" /\ Len(queue) = 1)
      BY DEF OutOfStep
    <3>2. ~NoticeExpected
      BY <3>1, Zenon DEF NoticeExpected
    <3> QED
      BY <3>2 DEF NoticeComes, SendNotice, OutOfStep
  <2>3. CASE Done
    BY <2>3 DEF Done, vars, channel, OutOfStep
  <2> QED
    BY <2>1, <2>2, <2>3, ClientStaysBehind DEF Next
<1> QED
  BY <1>1, <1>2, <1>3, TypeCorrect, PTL DEF Spec, NothingRealigns
----------------------------------------------------------------------------
(* In step.                                                                *)

(***************************************************************************)
(* A session on a calm network, in step: asleep with nothing in the        *)
(* buffer, or waiting with the answer hoped for in it and nothing else.    *)
(***************************************************************************)
Hoped == [body |-> GoodAnswer[pc], fresh |-> TRUE]

InSession ==
  /\ calm
  /\ \/ pc = "idle" /\ queue = <<>>
     \/ pc \in Heartbeat /\ queue = <<Hoped>>
  /\ seed_current /\ auth_current

LEMMA ClientInSession ==
  ASSUME InSession, Client
  PROVE  InSession'
<1> USE DEF Heartbeat, Keepalive2Kinds
<1>1. /\ calm /\ pc \in Heartbeat \cup {"idle"} /\ seed_current /\ auth_current
      /\ pc = "idle" => queue = <<>>
      /\ pc # "idle" => queue = <<Hoped>>
  BY DEF InSession
<1>2. Rest = <<>>
  <2>1. CASE pc = "idle"
    BY <1>1, <2>1 DEF Rest
  <2>2. CASE pc # "idle"
    <3>1. queue = <<Hoped>>
      BY <1>1, <2>2
    <3> QED
      BY <3>1 DEF Rest
  <2> QED
    BY <2>1, <2>2
<1>3. ASSUME NEW kind \in Heartbeat, pc' = kind, Transmit(<<>>, kind),
             UNCHANGED <<seed_current, auth_current>>
      PROVE  InSession'
  <2>1. kind \in RequestKinds
    BY DhcpAssumption DEF DhcpKinds
  <2>2. calm' /\ queue' = <<Hoped'>>
    BY <1>1, <1>3, <2>1, AnsweredAtOnce DEF Hoped
  <2> QED
    BY <1>1, <1>3, <2>2 DEF InSession
<1>4. pc # "idle" => Head(queue).body.kind = GoodAnswer[pc].kind /\ queue # <<>>
  BY <1>1 DEF Hoped
<1>5. CASE NextHeartbeat
  BY <1>1, <1>3, <1>5 DEF NextHeartbeat, AskAwake, login
<1>6. CASE Keepalive1Challenged \/ Keepalive1Succeeds
  BY <1>2, <1>3, <1>6
     DEF Keepalive1Challenged, Keepalive1Succeeds, StartKeepalive2, Ask, login
<1>7. CASE Keepalive2Proceeds /\ (FileAcknowledged \/ FirstAnswered)
  BY <1>2, <1>3, <1>7 DEF FileAcknowledged, FirstAnswered, Keepalive2Proceeds, Ask, login
<1>8. CASE HeartbeatComplete
  <2>1. /\ pc' = "idle" /\ queue' = AgeSeq(Rest) /\ calm' = calm
        /\ UNCHANGED <<seed_current, auth_current>>
    BY <1>8 DEF HeartbeatComplete, Keepalive2Succeeds, SleepIn, StopWaiting, login
  <2>2. queue' = <<>>
    BY <1>2, <2>1 DEF AgeSeq
  <2> QED
    BY <1>1, <2>1, <2>2 DEF InSession
<1>9. ~SkipNotice /\ ~Keepalive1Fails /\ ~Keepalive2Fails("ka1")
  <2>1. \A k \in Heartbeat :
          /\ k \in {"ka1", "ka1_auth"} => GoodAnswer[k].kind \in Alive
          /\ k = "ka2_file" => GoodAnswer[k].kind \in FileReplies
          /\ k \in {"ka2_first", "ka2_third"} => GoodAnswer[k].kind \in BeatReplies
    BY DhcpAssumption DEF FileReplies
  <2> QED
    BY <1>1, <1>4, <2>1
       DEF SkipNotice, Keepalive1Fails, Keepalive1Missed, Keepalive2Fails, Missed,
           TimedOut, Arrived, Alive
<1> QED
  BY <1>1, <1>5, <1>6, <1>7, <1>8, <1>9
     DEF Client, FirstAttempt, NextAttempt, GiveUp, ChallengeFails, ChallengeAnswered,
         LoginRejected, LoginFails, LoginAccepted, SessionBegins, Keepalive2Proceeds

(***************************************************************************)
(* The other side of OutOfStepForEver: a session in step on a calm network *)
(* never ends, and no heartbeat in it fails (auth.c:758-799,               *)
(* keepalive.c:127-379).                                                   *)
(***************************************************************************)
THEOREM SessionHolds == Spec => [](InSession => []InSession)
<1>1. Init => CalmIsPrompt
  BY DEF Init, ChannelInit, CalmIsPrompt
<1>2. CalmIsPrompt /\ [Next]_vars => CalmIsPrompt'
  BY StaysPrompt
<1>3. CalmIsPrompt /\ [Next]_vars /\ InSession => InSession'
  <2> SUFFICES ASSUME CalmIsPrompt, [Next]_vars, InSession PROVE InSession'
    OBVIOUS
  <2>1. ~AnswerComes /\ ~NetworkSettles
    BY DEF AnswerComes, NetworkSettles, BecomeCalm, CalmIsPrompt, InSession
  <2>2. ~NoticeComes
    BY DEF NoticeComes, SendNotice, NoticeExpected, InSession, Heartbeat, Keepalive2Kinds
  <2>3. CASE UNCHANGED vars
    BY <2>3 DEF vars, channel, login, InSession, Hoped
  <2> QED
    BY <2>1, <2>2, <2>3, ClientInSession DEF Next, Done
<1> QED
  BY <1>1, <1>2, <1>3, PTL DEF Spec

----------------------------------------------------------------------------
(* The cooldown text.                                                      *)

(* The digits in the places begin .. last, read as a number step by step:  *)
(* what the recursive function in Number is, whichever it is.              *)
Reads(begin, last, upto) ==
  upto = [i \in begin - 1 .. last |->
            IF i < begin THEN 0 ELSE 10 * upto[i - 1] + packet[i]]

(* The value is the number read so far, or both are past the cap.          *)
ValueOf(begin, last) ==
  /\ \E upto : Reads(begin, last, upto)
  /\ \A upto : Reads(begin, last, upto) =>
       /\ upto[last] \in Nat
       /\ \/ value = upto[last]
          \/ value >= ValueCap /\ upto[last] >= ValueCap

(* The loop is in a number that begins at begin.                           *)
InNumber(begin) ==
  /\ begin \in 1 .. index - 1
  /\ \A i \in begin .. index - 1 : IsDigit(i)
  /\ ~IsDigit(begin - 1)
  /\ ValueOf(begin, index - 1)
  /\ \A s \in SecondsRuns : begin <= s[1]

(* No number of seconds lies wholly behind the loop.                       *)
LoopInv ==
  /\ \A j \in 1 .. index - 1 : packet[j] # Nul
  /\ value <= 10 * ValueCap
  /\ have_digits => \E begin \in Nat : InNumber(begin)
  /\ ~have_digits => /\ value = 0 /\ ~IsDigit(index - 1)
                     /\ \A s \in SecondsRuns : index <= s[1]

ScanInv == ScanTypeOK /\ (result = Scanning => LoopInv) /\ ReturnsFirstSeconds

LEMMA ByteFacts ==
  /\ \A d \in Digits : d \in 0 .. 9 /\ d # Nul /\ d # Space /\ d # LetterS
  /\ Nul # Space /\ Nul # LetterS
  /\ ValueCap \in Nat /\ MaxCooldown \in Nat /\ MaxLen \in Nat
  /\ IntMax \in Nat
  /\ MaxCooldown < ValueCap /\ 10 * ValueCap <= IntMax
BY RetryAfterAssumption DEF Nul, Space, LetterS

LEMMA RunFacts ==
  ASSUME ScanTypeOK, NEW s \in SecondsRuns
  PROVE  /\ s[1] \in 1 .. Len(packet) /\ s[2] \in 1 .. Len(packet) /\ s[1] <= s[2]
         /\ s = <<s[1], s[2]>>
         /\ \A i \in s[1] .. s[2] : IsDigit(i)
         /\ ~IsDigit(s[1] - 1) /\ ~IsDigit(s[2] + 1)
         /\ UnitFollows(s[2] + 1)
<1>1. DOMAIN packet = 1 .. Len(packet)
  BY DEF ScanTypeOK
<1> QED
  BY <1>1 DEF SecondsRuns

(* Every text with its end.                                                *)
LEMMA ScanStarts == ScanInit => ScanInv
<1> SUFFICES ASSUME ScanInit PROVE ScanInv
  OBVIOUS
<1>1. PICK n \in 0 .. MaxLen : packet \in [1 .. n -> Bytes]
  BY DEF ScanInit
<1>2. packet \in Seq(Bytes) /\ Len(packet) = n /\ n \in Nat /\ n <= MaxLen
  BY <1>1, ByteFacts
<1>3. index = 1 /\ value = 0 /\ ~have_digits /\ result = Scanning
  BY DEF ScanInit
<1>4. ScanTypeOK
  <2>1. have_digits = FALSE /\ 0 \in 0 .. IntMax /\ 1 \in 1 .. Len(packet) + 1
    BY <1>2, ByteFacts DEF ScanInit
  <2> QED
    BY <1>2, <1>3, <2>1 DEF ScanTypeOK
<1>5. ~IsDigit(index - 1)
  BY <1>2, <1>3 DEF IsDigit, InText
<1>6. \A s \in SecondsRuns : index <= s[1]
  BY <1>3, <1>4, RunFacts
<1>7. \A j \in 1 .. index - 1 : packet[j] # Nul
  BY <1>3
<1>8. value <= 10 * ValueCap
  BY <1>3, ByteFacts
<1>9. LoopInv
  BY <1>3, <1>5, <1>6, <1>7, <1>8 DEF LoopInv
<1> QED
  BY <1>3, <1>4, <1>9 DEF ScanInv, ReturnsFirstSeconds

(* One more digit.                                                         *)
LEMMA OneMoreDigit ==
  ASSUME NEW begin \in Nat, NEW last \in Nat, begin <= last + 1, ValueOf(begin, last),
         packet[last + 1] \in Digits, value \in Nat, packet' = packet,
         value' = AddDigit(value, packet[last + 1])
  PROVE  ValueOf(begin, last + 1)'
<1> DEFINE digit == packet[last + 1]
<1>1. digit \in 0 .. 9 /\ ValueCap \in Nat
  BY ByteFacts
<1>2. \E upto : Reads(begin, last + 1, upto)
  <2>1. PICK upto : Reads(begin, last, upto)
    BY DEF ValueOf
  <2> DEFINE longer == [i \in begin - 1 .. last + 1 |->
                          IF i = last + 1 THEN 10 * upto[last] + digit ELSE upto[i]]
  <2>2. \A i \in begin - 1 .. last :
          upto[i] = IF i < begin THEN 0 ELSE 10 * upto[i - 1] + packet[i]
    BY <2>1 DEF Reads
  <2>3. ASSUME NEW i \in begin - 1 .. last + 1
        PROVE  longer[i] = IF i < begin THEN 0 ELSE 10 * longer[i - 1] + packet[i]
    <3>1. CASE i = last + 1
      <4>1. i - 1 \in begin - 1 .. last + 1 /\ i - 1 = last /\ ~(i < begin)
        BY <3>1
      <4> QED
        BY <3>1, <4>1
    <3>2. CASE i # last + 1
      <4>1. i \in begin - 1 .. last /\ longer[i] = upto[i]
        BY <3>2
      <4>2. CASE i < begin
        BY <2>2, <4>1, <4>2
      <4>3. CASE ~(i < begin)
        <5>1. i - 1 \in begin - 1 .. last + 1 /\ i - 1 # last + 1
          BY <4>1, <4>3
        <5>2. longer[i - 1] = upto[i - 1]
          BY <5>1
        <5> QED
          BY <2>2, <4>1, <4>3, <5>2
      <4> QED
        BY <4>2, <4>3
    <3> QED
      BY <3>1, <3>2
  <2> HIDE DEF digit
  <2>4. longer = [i \in begin - 1 .. last + 1 |->
                    IF i < begin THEN 0 ELSE 10 * longer[i - 1] + packet[i]]
    BY <2>3
  <2>5. Reads(begin, last + 1, longer)
    BY <2>4 DEF Reads
  <2> QED
    BY <2>5
<1>3. ASSUME NEW upto, Reads(begin, last + 1, upto)
      PROVE  /\ upto[last + 1] \in Nat
             /\ \/ value' = upto[last + 1]
                \/ value' >= ValueCap /\ upto[last + 1] >= ValueCap
  <2> DEFINE shorter == [i \in begin - 1 .. last |-> upto[i]]
  <2>1. \A i \in begin - 1 .. last + 1 :
          upto[i] = IF i < begin THEN 0 ELSE 10 * upto[i - 1] + packet[i]
    BY <1>3 DEF Reads
  <2>2. ASSUME NEW i \in begin - 1 .. last
        PROVE  shorter[i] = IF i < begin THEN 0 ELSE 10 * shorter[i - 1] + packet[i]
    <3>1. i \in begin - 1 .. last + 1 /\ shorter[i] = upto[i]
      OBVIOUS
    <3>2. CASE i < begin
      BY <2>1, <3>1, <3>2
    <3>3. CASE ~(i < begin)
      <4>1. i - 1 \in begin - 1 .. last
        BY <3>3
      <4>2. shorter[i - 1] = upto[i - 1]
        BY <4>1
      <4> QED
        BY <2>1, <3>1, <3>3, <4>2
    <3> QED
      BY <3>2, <3>3
  <2>3. shorter = [i \in begin - 1 .. last |->
                     IF i < begin THEN 0 ELSE 10 * shorter[i - 1] + packet[i]]
    BY <2>2
  <2>4. Reads(begin, last, shorter)
    BY <2>3 DEF Reads
  <2>5. last \in begin - 1 .. last /\ last + 1 \in begin - 1 .. last + 1
        /\ ~(last + 1 < begin) /\ (last + 1) - 1 = last
    OBVIOUS
  <2>6. shorter[last] = upto[last]
    BY <2>5
  <2>7. upto[last + 1] = 10 * upto[last] + digit
    BY <2>1, <2>5
  <2>8. /\ upto[last] \in Nat
        /\ value = upto[last] \/ (value >= ValueCap /\ upto[last] >= ValueCap)
    BY <2>4, <2>6 DEF ValueOf
  <2> HIDE DEF digit
  <2>9. value' = IF value < ValueCap THEN 10 * value + digit ELSE value
    BY DEF AddDigit, digit
  <2> QED
    BY <1>1, <2>7, <2>8, <2>9
<1> QED
  BY <1>2, <1>3 DEF ValueOf, Reads

(* The first digit of a number.                                            *)
LEMMA FirstDigit ==
  ASSUME NEW last \in Nat, value = 0
  PROVE  ValueOf(last + 1, last)
<1> DEFINE upto == [i \in last + 1 - 1 .. last |-> 0]
<1>1. last + 1 - 1 .. last = {last} /\ \A i \in last + 1 - 1 .. last : i < last + 1
  OBVIOUS
<1>2. Reads(last + 1, last, upto)
  BY <1>1 DEF Reads
<1>3. ASSUME NEW g, Reads(last + 1, last, g) PROVE g[last] = 0
  BY <1>1, <1>3 DEF Reads
<1> QED
  BY <1>2, <1>3 DEF ValueOf

(* The text stays, and what it says.                                       *)
LEMMA SameText ==
  ASSUME packet' = packet
  PROVE  /\ SecondsRuns' = SecondsRuns
         /\ \A i : IsDigit(i)' <=> IsDigit(i)
         /\ \A r : Number(r)' = Number(r)
         /\ value' = value => \A begin, last : ValueOf(begin, last)' <=> ValueOf(begin, last)
<1>1. \A i : IsDigit(i)' <=> IsDigit(i)
  BY DEF IsDigit, InText
<1>2. \A i : UnitFollows(i)' <=> UnitFollows(i)
  BY DEF UnitFollows
<1>3. SecondsRuns' = SecondsRuns
  BY <1>1, <1>2 DEF SecondsRuns
<1>4. \A r : Number(r)' = Number(r)
  BY DEF Number
<1>5. value' = value => \A begin, last : ValueOf(begin, last)' <=> ValueOf(begin, last)
  BY DEF ValueOf, Reads
<1> QED
  BY <1>1, <1>3, <1>4, <1>5

(* What the loop believes is what the number says.                         *)
LEMMA NumberRead ==
  ASSUME NEW begin \in Nat, NEW last \in Nat, ValueOf(begin, last), value \in Nat
  PROVE  Believed(value) =
           IF Number(<<begin, last>>) \in 1 .. MaxCooldown THEN Number(<<begin, last>>) ELSE 0
<1> DEFINE upto == CHOOSE g : Reads(begin, last, g)
<1>1. Reads(begin, last, upto)
  BY DEF ValueOf
<1>2. Number(<<begin, last>>) = upto[last]
  BY DEF Number, Reads
<1>3. /\ upto[last] \in Nat
      /\ value = upto[last] \/ (value >= ValueCap /\ upto[last] >= ValueCap)
  BY <1>1 DEF ValueOf
<1> HIDE DEF upto
<1> QED
  BY <1>2, <1>3, ByteFacts DEF Believed

(* Where a number ends, it is the only one of those before.                *)
LEMMA EndsHere ==
  ASSUME ScanTypeOK, NEW begin \in Nat, InNumber(begin), ~IsDigit(index),
         NEW s \in SecondsRuns, s[1] <= index
  PROVE  s = <<begin, index - 1>> /\ UnitFollows(index)
<1>1. /\ s[1] \in Nat /\ s[2] \in Nat /\ s[1] <= s[2] /\ s = <<s[1], s[2]>>
      /\ \A i \in s[1] .. s[2] : IsDigit(i)
      /\ ~IsDigit(s[1] - 1) /\ ~IsDigit(s[2] + 1) /\ UnitFollows(s[2] + 1)
  BY RunFacts
<1>2. /\ index \in Nat /\ begin \in 1 .. index - 1 /\ begin <= s[1]
      /\ \A i \in begin .. index - 1 : IsDigit(i)
  BY DEF ScanTypeOK, InNumber
<1>3. s[1] # index
  BY <1>1
<1>4. s[1] = begin
  <2>1. SUFFICES ASSUME s[1] # begin PROVE FALSE
    OBVIOUS
  <2>2. s[1] - 1 \in begin .. index - 1
    BY <1>1, <1>2, <2>1
  <2> QED
    BY <1>1, <1>2, <2>2
<1>5. s[2] < index
  <2>1. SUFFICES ASSUME index <= s[2] PROVE FALSE
    BY <1>1, <1>2
  <2>2. index \in s[1] .. s[2]
    BY <1>1, <1>2, <2>1
  <2> QED
    BY <1>1, <2>2
<1>6. s[2] = index - 1
  <2>1. SUFFICES ASSUME s[2] # index - 1 PROVE FALSE
    OBVIOUS
  <2>2. s[2] + 1 \in begin .. index - 1
    BY <1>1, <1>2, <1>4, <1>5, <2>1
  <2> QED
    BY <1>1, <1>2, <2>2
<1>7. s[2] + 1 = index
  BY <1>2, <1>6
<1> QED
  BY <1>1, <1>4, <1>6, <1>7

LEMMA DigitStep ==
  ASSUME ScanInv, Digit
  PROVE  ScanInv'
<1>1. /\ result = Scanning /\ index \in 1 .. Len(packet) /\ Len(packet) \in Nat
      /\ packet \in Seq(Bytes) /\ packet[index] # Nul /\ packet[index] \in Digits
      /\ packet' = packet /\ result' = result /\ index' = index + 1 /\ have_digits' = TRUE
      /\ value' = AddDigit(value, packet[index]) /\ value \in Nat /\ LoopInv
  BY DEF Digit, More, ScanInv, ScanTypeOK
<1>2. \A j \in 1 .. index' - 1 : packet'[j] # Nul
  BY <1>1 DEF LoopInv
<1>3. value' \in 0 .. IntMax /\ value' <= 10 * ValueCap
  <2>1. packet[index] \in 0 .. 9 /\ value <= 10 * ValueCap
    BY <1>1, ByteFacts DEF LoopInv
  <2>2. value' = IF value < ValueCap THEN 10 * value + packet[index] ELSE value
    BY <1>1 DEF AddDigit
  <2> QED
    BY <1>1, <2>1, <2>2, ByteFacts
<1>4. ScanTypeOK'
  BY <1>1, <1>3 DEF ScanInv, ScanTypeOK
<1>5. IsDigit(index)
  BY <1>1, <1>2 DEF IsDigit, InText
<1>6. PICK place \in Nat : place = index - 1
  BY <1>1
<1>7. ASSUME NEW begin \in Nat, begin <= index, ~IsDigit(begin - 1),
             \A i \in begin .. index - 1 : IsDigit(i), ValueOf(begin, place),
             \A s \in SecondsRuns : begin <= s[1], begin > 0
      PROVE  InNumber(begin)'
  <2>1. ValueOf(begin, place + 1)'
    BY <1>1, <1>6, <1>7, OneMoreDigit
  <2>2. index' - 1 = place + 1 /\ place + 1 = index
    BY <1>1, <1>6
  <2>3. begin \in 1 .. index' - 1 /\ \A i \in begin .. index' - 1 : IsDigit(i)
    BY <1>1, <1>5, <1>7, <2>2
  <2> QED
    BY <1>1, <1>7, <2>1, <2>2, <2>3, SameText DEF InNumber
<1>8. \E begin \in Nat : InNumber(begin)'
  <2>1. CASE have_digits
    <3>1. PICK begin \in Nat : InNumber(begin)
      BY <1>1, <2>1 DEF LoopInv
    <3>2. begin > 0 /\ begin <= index
      BY <1>1, <3>1 DEF InNumber
    <3> QED
      BY <1>6, <1>7, <3>1, <3>2 DEF InNumber
  <2>2. CASE ~have_digits
    <3>1. value = 0 /\ ~IsDigit(index - 1) /\ \A s \in SecondsRuns : index <= s[1]
      BY <1>1, <2>2 DEF LoopInv
    <3>2. PICK begin \in Nat : begin = place + 1
      OBVIOUS
    <3>3. begin = index /\ begin > 0
      BY <1>1, <1>6, <3>2
    <3>4. ValueOf(begin, place)
      BY <3>1, <3>2, FirstDigit
    <3>5. \A i \in begin .. index - 1 : IsDigit(i)
      BY <1>1, <3>3
    <3> QED
      BY <1>1, <1>7, <3>1, <3>3, <3>4, <3>5
  <2> QED
    BY <2>1, <2>2
<1>9. LoopInv'
  BY <1>1, <1>2, <1>3, <1>8 DEF LoopInv
<1> QED
  BY <1>1, <1>4, <1>9 DEF ScanInv, ReturnsFirstSeconds

LEMMA ForgetNumberStep ==
  ASSUME ScanInv, ForgetNumber
  PROVE  ScanInv'
<1>1. /\ result = Scanning /\ index \in 1 .. Len(packet) /\ Len(packet) \in Nat
      /\ packet \in Seq(Bytes) /\ packet[index] # Nul /\ packet[index] \notin Digits
      /\ packet' = packet /\ result' = result /\ index' = index + 1
      /\ have_digits' = FALSE /\ value' = 0 /\ (have_digits => ~UnitFollows(index))
      /\ LoopInv /\ ScanTypeOK
  BY DEF ForgetNumber, More, ScanInv, ScanTypeOK
<1>2. ScanTypeOK'
  <2>1. 0 \in 0 .. IntMax /\ index' \in 1 .. Len(packet) + 1
    BY <1>1, ByteFacts
  <2> QED
    BY <1>1, <2>1 DEF ScanTypeOK
<1>3. \A j \in 1 .. index' - 1 : packet'[j] # Nul
  BY <1>1 DEF LoopInv
<1>4. ~IsDigit(index)
  BY <1>1 DEF IsDigit
<1>5. \A s \in SecondsRuns : index' <= s[1]
  <2> SUFFICES ASSUME NEW s \in SecondsRuns PROVE index + 1 <= s[1]
    BY <1>1
  <2>1. s[1] \in Nat /\ s[1] # index
    BY <1>1, <1>4, RunFacts
  <2>2. ~(s[1] <= index)
    <3>1. CASE have_digits
      <4>1. PICK begin \in Nat : InNumber(begin)
        BY <1>1, <3>1 DEF LoopInv
      <4> QED
        BY <1>1, <1>4, <3>1, <4>1, EndsHere
    <3>2. CASE ~have_digits
      BY <1>1, <2>1, <3>2 DEF LoopInv
    <3> QED
      BY <3>1, <3>2
  <2> QED
    BY <1>1, <2>1, <2>2
<1>6. PICK place \in Nat : place = index
  BY <1>1
<1>7. value' <= 10 * ValueCap
  BY <1>1, ByteFacts
<1>8. LoopInv'
  <2>1. ~IsDigit(place)' /\ \A t \in SecondsRuns' : index' <= t[1]
    BY <1>1, <1>4, <1>5, <1>6, SameText
  <2>2. \A i : i = place => ~IsDigit(i)'
    BY <2>1
  <2>3. (index - 1)' = place
    BY <1>1, <1>6
  <2>4. ~IsDigit(index - 1)'
    BY <2>1, <2>3 DEF IsDigit, InText
  <2> QED
    BY <1>1, <1>3, <1>7, <2>1, <2>4 DEF LoopInv
<1> QED
  BY <1>1, <1>2, <1>8 DEF ScanInv, ReturnsFirstSeconds

LEMMA FindSecondsStep ==
  ASSUME ScanInv, FindSeconds
  PROVE  ScanInv'
<1>1. /\ result = Scanning /\ index \in 1 .. Len(packet) /\ Len(packet) \in Nat
      /\ packet \in Seq(Bytes) /\ packet[index] \notin Digits
      /\ UNCHANGED <<packet, index, value, have_digits>>
      /\ have_digits /\ UnitFollows(index) /\ result' = Believed(value)
      /\ LoopInv /\ ScanTypeOK /\ value \in Nat
  BY DEF FindSeconds, More, ScanInv, ScanTypeOK
<1>2. result' \in 0 .. MaxCooldown
  BY <1>1, ByteFacts DEF Believed
<1>3. ScanTypeOK'
  BY <1>1, <1>2 DEF ScanTypeOK
<1>4. PICK begin \in Nat : InNumber(begin)
  BY <1>1 DEF LoopInv
<1>5. PICK last \in Nat : last = index - 1
  BY <1>1
<1>6. /\ begin \in 1 .. last /\ \A i \in begin .. last : IsDigit(i)
      /\ ~IsDigit(begin - 1) /\ ValueOf(begin, last) /\ last + 1 = index
      /\ ~IsDigit(last + 1) /\ \A s \in SecondsRuns : begin <= s[1]
  BY <1>1, <1>4, <1>5 DEF InNumber, IsDigit
<1> DEFINE r == <<begin, last>>
<1>7. r \in SecondsRuns
  <2>1. begin \in DOMAIN packet /\ last \in DOMAIN packet /\ begin <= last
    BY <1>1, <1>5, <1>6
  <2>2. r[1] = begin /\ r[2] = last /\ r \in (DOMAIN packet) \X (DOMAIN packet)
    BY <2>1
  <2> HIDE DEF r
  <2> QED
    BY <1>1, <1>6, <2>1, <2>2 DEF SecondsRuns
<1>8. result' = IF Number(r) \in 1 .. MaxCooldown THEN Number(r) ELSE 0
  BY <1>1, <1>6, NumberRead
<1>9. \A s \in SecondsRuns : r[1] <= s[1]
  BY <1>6
<1> HIDE DEF r
<1>10. ReturnsFirstSeconds'
  <2>1. SecondsRuns' = SecondsRuns /\ Number(r)' = Number(r)
    BY <1>1, SameText
  <2> QED
    BY <1>7, <1>8, <1>9, <2>1 DEF ReturnsFirstSeconds
<1>11. result' # Scanning
  BY <1>2, ByteFacts DEF Scanning
<1> QED
  BY <1>3, <1>10, <1>11 DEF ScanInv

(* Where the text ends nothing follows, so a number there is none of       *)
(* seconds.                                                                *)
LEMMA EndOfTextStep ==
  ASSUME ScanInv, EndOfText
  PROVE  ScanInv'
<1>1. /\ result = Scanning /\ result' = 0 /\ index \in 1 .. Len(packet) + 1
      /\ Len(packet) \in Nat /\ packet \in Seq(Bytes)
      /\ UNCHANGED <<packet, index, value, have_digits>>
      /\ index = Len(packet) + 1 \/ packet[index] = Nul
      /\ LoopInv /\ ScanTypeOK
  BY DEF EndOfText, More, ScanInv, ScanTypeOK
<1>2. ScanTypeOK'
  <2>1. 0 \in 0 .. MaxCooldown
    BY ByteFacts
  <2> QED
    BY <1>1, <2>1 DEF ScanTypeOK
<1>3. \A i \in Nat : index <= i => ~IsDigit(i)
  <2> SUFFICES ASSUME NEW i \in Nat, index <= i, IsDigit(i) PROVE FALSE
    OBVIOUS
  <2>1. i \in 1 .. Len(packet) /\ \A j \in 1 .. i : packet[j] # Nul
    BY <1>1 DEF IsDigit, InText
  <2>2. index \in 1 .. i /\ index # Len(packet) + 1
    BY <1>1, <2>1
  <2> QED
    BY <1>1, <2>1, <2>2
<1>4. ~UnitFollows(index)
  <2> SUFFICES ASSUME NEW k \in index .. Len(packet), packet[k] = LetterS,
                      \A j \in index .. k - 1 : packet[j] = Space
               PROVE  FALSE
    BY DEF UnitFollows
  <2>1. index \in 1 .. Len(packet) /\ packet[index] = Nul
    BY <1>1
  <2>2. k = index \/ index \in index .. k - 1
    BY <1>1
  <2> QED
    BY <2>1, <2>2, ByteFacts
<1>5. SecondsRuns = {}
  <2> SUFFICES ASSUME NEW s \in SecondsRuns PROVE FALSE
    OBVIOUS
  <2>1. s[1] \in Nat /\ IsDigit(s[1]) /\ index \in Nat
    BY <1>1, RunFacts
  <2>2. s[1] < index
    BY <1>3, <2>1
  <2>3. CASE have_digits
    <3>1. PICK begin \in Nat : InNumber(begin)
      BY <1>1, <2>3 DEF LoopInv
    <3>2. s[1] <= index /\ ~IsDigit(index)
      BY <1>3, <2>1, <2>2
    <3> QED
      BY <1>1, <1>4, <3>1, <3>2, EndsHere
  <2>4. CASE ~have_digits
    BY <1>1, <2>1, <2>2, <2>4 DEF LoopInv
  <2> QED
    BY <2>3, <2>4
<1>6. SecondsRuns' = {}
  BY <1>1, <1>5, SameText
<1>7. result' # Scanning
  BY <1>1 DEF Scanning
<1> QED
  BY <1>1, <1>2, <1>6, <1>7 DEF ScanInv, ReturnsFirstSeconds

LEMMA ScanInductive == ScanInv /\ [ScanNext]_scan => ScanInv'
<1> SUFFICES ASSUME ScanInv, UNCHANGED scan PROVE ScanInv'
  BY DigitStep, ForgetNumberStep, FindSecondsStep, EndOfTextStep DEF ScanNext, Returned
<1>1. UNCHANGED <<packet, index, value, have_digits, result>>
  BY DEF scan
<1>2. /\ SecondsRuns' = SecondsRuns
      /\ \A i : IsDigit(i)' <=> IsDigit(i)
      /\ \A r : Number(r)' = Number(r)
      /\ \A begin, last : ValueOf(begin, last)' <=> ValueOf(begin, last)
  BY <1>1, SameText
<1>3. ScanTypeOK' /\ ReturnsFirstSeconds'
  BY <1>1, <1>2 DEF ScanInv, ScanTypeOK, ReturnsFirstSeconds
<1>4. \A begin : InNumber(begin)' <=> InNumber(begin)
  BY <1>1, <1>2 DEF InNumber
<1>5. LoopInv' <=> LoopInv
  BY <1>1, <1>2, <1>4 DEF LoopInv
<1> QED
  BY <1>1, <1>3, <1>5 DEF ScanInv

LEMMA ScanAlways == ScanSpec => []ScanInv
<1> QED
  BY ScanStarts, ScanInductive, PTL DEF ScanSpec

(* The loop stays inside the text, and what it returns is no more than     *)
(* MaxCooldown (auth.c:106-143).                                           *)
THEOREM ScanTypeCorrect == ScanSpec => []ScanTypeOK
<1>1. ScanInv => ScanTypeOK
  BY DEF ScanInv
<1> QED
  BY <1>1, ScanAlways, PTL

(* In a text of any length the function finds the leftmost number of       *)
(* seconds, and believes it exactly when it is in the range (auth.c:106-   *)
(* 143).                                                                   *)
THEOREM FirstSecondsReturned == ScanSpec => []ReturnsFirstSeconds
<1>1. ScanInv => ReturnsFirstSeconds
  BY DEF ScanInv
<1> QED
  BY <1>1, ScanAlways, PTL
=============================================================================
