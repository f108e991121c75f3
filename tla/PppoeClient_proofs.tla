------------------------- MODULE PppoeClient_proofs -------------------------
(***************************************************************************)
(* The pppoe client acts on the answer to its last request only, for every *)
(* server and every buffer, though all answers look alike to it.           *)
(*                                                                         *)
(* Aligned says what the whole buffer may hold while nothing unexpected    *)
(* came: the fresh answer comes first, and only a login has a notice after *)
(* it.                                                                     *)
(*                                                                         *)
(* The last part is about a network that has become calm: a client that is *)
(* in step there stays in step, although it never looks for it.            *)
(***************************************************************************)
EXTENDS PppoeClient, UdpChannel_proofs

FreshAwaited == pc \in PppoeKinds \/ NothingFresh

Aligned ==
  sync => \A i \in DOMAIN queue :
    IF queue[i].fresh THEN i = 1
    ELSE /\ queue[i].body = Notice
         /\ \/ pc = "notice" /\ i = 1
            \/ /\ pc = "login" /\ i = 2
               /\ queue[1].fresh /\ queue[1].body.kind \in Accepted

TriesLeft == pc # "exited" => try_counter < TryTimes

ChannelInv == TypeOK /\ FreshOnce /\ FreshAwaited

IInv == ChannelInv /\ Aligned /\ SeedCurrent /\ TriesLeft

----------------------------------------------------------------------------
(* The socket.                                                             *)

(* A request after a wait or a sleep: the client waits for its answer.     *)
LEMMA AskFacts ==
  ASSUME ChannelTypeOK, NEW kind \in PppoeKinds, NEW rest \in {Rest, queue},
         pc' = kind, Transmit(rest, kind)
  PROVE  /\ ChannelTypeOK' /\ FreshOnce' /\ FreshAwaited' /\ sync' = sync
         /\ \/ queue' = AgeSeq(rest)
            \/ queue' = Append(AgeSeq(rest),
                               [body |-> GoodAnswer[kind], fresh |-> TRUE])
<1>1. kind \in RequestKinds
  BY PppoeAssumption
<1>2. rest \in Seq(Datagrams)
  BY RestFacts DEF ChannelTypeOK
<1> QED
  BY <1>1, <1>2, TransmitFacts DEF FreshAwaited

(* What a client step does to the socket: it asks or sleeps once it is     *)
(* done with what it read, or it asks after a sleep.                       *)
ReadsAnswer == pc \in Waiting /\ ~(pc = "login" /\ Arrived(Accepted))

LEMMA ClientSocket ==
  ASSUME Client
  PROVE  \/ ReadsAnswer /\ \E kind \in PppoeKinds : Ask(kind)
         \/ ReadsAnswer /\ \E place \in {"pause", "idle", "exited"} : SleepIn(place)
         \/ pc \in Sleeping /\ \E kind \in PppoeKinds : AskAwake(kind)
         \/ pc = "login" /\ Arrived(Accepted) /\ SleepIn("notice")
<1> USE DEF ReadsAnswer, Waiting, Sleeping, PppoeKinds, Keepalive2Kinds
<1>1. CASE StartRound
  BY <1>1 DEF StartRound
<1>2. CASE ChallengeFails
  BY <1>2 DEF ChallengeFails
<1>3. CASE ChallengeAnswered
  BY <1>3 DEF ChallengeAnswered, SendLogin
<1>4. CASE LoginFails
  BY <1>4 DEF LoginFails, Missed, TimedOut, Arrived
<1>5. CASE LoginAnswered
  BY <1>5 DEF LoginAnswered
<1>6. CASE LoggedIn
  BY <1>6 DEF LoggedIn, StartKeepalive2
<1>7. CASE HeartbeatProceeds
  BY <1>7 DEF HeartbeatProceeds, FileAcknowledged, FirstAnswered, Keepalive2Succeeds
<1>8. CASE HeartbeatFails
  BY <1>8 DEF HeartbeatFails, Keepalive2Fails
<1> QED
  BY <1>1, <1>2, <1>3, <1>4, <1>5, <1>6, <1>7, <1>8 DEF Client

LEMMA ClientChannel ==
  ASSUME ChannelInv, Client
  PROVE  ChannelTypeOK' /\ FreshOnce' /\ FreshAwaited'
         /\ pc' \in Waiting \cup Sleeping /\ sync' = sync
<1> USE DEF ChannelInv, TypeOK
<1>1. CASE \E kind \in PppoeKinds : Ask(kind)
  BY <1>1, AskFacts DEF Ask, Waiting
<1>2. CASE \E kind \in PppoeKinds : AskAwake(kind)
  BY <1>2, AskFacts DEF AskAwake, Waiting
<1>3. CASE \E place \in {"pause", "idle", "exited", "notice"} : SleepIn(place)
  BY <1>3, StopWaitingFacts DEF SleepIn, FreshAwaited, Waiting, Sleeping
<1> QED
  BY <1>1, <1>2, <1>3, ClientSocket

----------------------------------------------------------------------------
(* Alignment.                                                              *)

(* While the client is in step, the datagram it reads as an answer is the  *)
(* fresh one, nothing is behind it, and nothing comes while it sleeps.     *)
LEMMA AnswerAlone ==
  ASSUME ChannelInv, Aligned, sync
  PROVE  /\ ReadsAnswer => Rest = <<>>
         /\ pc \in Sleeping => queue = <<>>
         /\ pc \in PppoeKinds /\ queue # <<>> => Head(queue).fresh
<1>1. queue \in Seq(Datagrams) /\ Len(queue) \in Nat /\ DOMAIN queue = 1 .. Len(queue)
  BY DEF ChannelInv, TypeOK, ChannelTypeOK
<1>2. pc \notin PppoeKinds => \A i \in DOMAIN queue : ~queue[i].fresh
  BY DEF ChannelInv, FreshAwaited, NothingFresh, FreshQueued
<1>3. pc \in Sleeping => Len(queue) = 0
  <2>1. pc \in Sleeping => pc \notin PppoeKinds /\ pc \notin {"notice", "login"}
    BY DEF Sleeping, PppoeKinds, Keepalive2Kinds
  <2>2. pc \in Sleeping => 1 \notin DOMAIN queue
    BY <1>2, <2>1 DEF Aligned
  <2> QED
    BY <1>1, <2>2
<1>4. queue # <<>> => 1 \in DOMAIN queue /\ Head(queue) = queue[1]
  BY <1>1
<1>5. pc \in PppoeKinds /\ queue # <<>> => queue[1].fresh
  <2>1. pc \in PppoeKinds => pc # "notice"
    BY DEF PppoeKinds, Keepalive2Kinds
  <2> QED
    BY <1>4, <2>1 DEF Aligned
<1>6. ASSUME ReadsAnswer, queue # <<>> PROVE Len(queue) = 1
  <2>1. \A i \in DOMAIN queue : i = 1
    <3>1. CASE pc = "notice"
      <4>1. pc \notin PppoeKinds /\ pc # "login"
        BY <3>1 DEF PppoeKinds, Keepalive2Kinds
      <4> QED
        BY <1>2, <4>1 DEF Aligned
    <3>2. CASE pc = "login"
      <4>1. queue[1].body.kind \notin Accepted
        BY <1>4, <1>6, <3>2 DEF ReadsAnswer, Arrived
      <4> QED
        BY <4>1, <3>2 DEF Aligned
    <3>3. CASE pc \notin {"notice", "login"}
      BY <3>3 DEF Aligned
    <3> QED
      BY <3>1, <3>2, <3>3
  <2> QED
    BY <1>1, <1>4, <1>6, <2>1
<1>7. ReadsAnswer => Rest = <<>>
  <2>1. CASE queue = <<>>
    BY <2>1 DEF Rest
  <2>2. CASE queue # <<>> /\ ReadsAnswer
    <3>0. Len(queue) = 1
      BY <1>6, <2>2
    <3>1. Rest = Tail(queue) /\ Len(Tail(queue)) = 0 /\ Tail(queue) \in Seq(Datagrams)
      BY <1>1, <2>2, <3>0, HeadTailProperties DEF Rest
    <3> QED
      BY <3>1, EmptySeq
  <2> QED
    BY <2>1, <2>2
<1> QED
  BY <1>1, <1>3, <1>4, <1>5, <1>7, EmptySeq

(* A buffer that is empty, or holds one fresh datagram, is aligned.        *)
LEMMA AlignedAfterAsk ==
  ASSUME NEW good \in Datagrams, good.fresh = TRUE,
         queue' = AgeSeq(<<>>) \/ queue' = Append(AgeSeq(<<>>), good)
  PROVE  Aligned'
<1>1. <<>> \in Seq(Datagrams) /\ Len(<<>>) = 0
  BY EmptySeq
<1>2. AgeSeq(<<>>) \in Seq(Datagrams) /\ Len(AgeSeq(<<>>)) = 0
  BY <1>1, AgeSeqFacts
<1>3. AgeSeq(<<>>) = <<>>
  BY <1>2, EmptySeq
<1>4. CASE queue' = AgeSeq(<<>>)
  BY <1>3, <1>4 DEF Aligned
<1>5. CASE queue' = Append(AgeSeq(<<>>), good)
  <2>1. DOMAIN queue' = 1 .. 1 /\ queue'[1] = good
    BY <1>2, <1>5, AppendProperties
  <2> QED
    BY <2>1 DEF Aligned
<1> QED
  BY <1>4, <1>5

LEMMA ClientAligned ==
  ASSUME ChannelInv, Aligned, Client
  PROVE  Aligned'
<1>1. ChannelTypeOK /\ sync' = sync
  BY ClientChannel DEF ChannelInv, TypeOK
<1> SUFFICES ASSUME sync PROVE Aligned'
  BY <1>1 DEF Aligned
<1>2. \A kind \in PppoeKinds :
        [body |-> GoodAnswer[kind], fresh |-> TRUE] \in Datagrams
  BY PppoeAssumption, ChannelAssumption DEF Datagrams
<1>3. CASE ReadsAnswer /\ \E kind \in PppoeKinds : Ask(kind)
  <2>1. PICK kind \in PppoeKinds : Ask(kind)
    BY <1>3
  <2>2. Rest = <<>>
    BY <1>3, AnswerAlone
  <2>3. \/ queue' = AgeSeq(Rest)
        \/ queue' = Append(AgeSeq(Rest), [body |-> GoodAnswer[kind], fresh |-> TRUE])
    BY <1>1, <2>1, AskFacts DEF Ask
  <2> QED
    BY <1>2, <2>2, <2>3, AlignedAfterAsk
<1>4. CASE pc \in Sleeping /\ \E kind \in PppoeKinds : AskAwake(kind)
  <2>1. PICK kind \in PppoeKinds : AskAwake(kind)
    BY <1>4
  <2>2. queue = <<>>
    BY <1>4, AnswerAlone
  <2>3. \/ queue' = AgeSeq(queue)
        \/ queue' = Append(AgeSeq(queue), [body |-> GoodAnswer[kind], fresh |-> TRUE])
    BY <1>1, <2>1, AskFacts DEF AskAwake
  <2> QED
    BY <1>2, <2>2, <2>3, AlignedAfterAsk
<1>5. CASE ReadsAnswer /\ \E place \in {"pause", "idle", "exited"} : SleepIn(place)
  <2>1. Rest = <<>> /\ queue' = AgeSeq(Rest)
    BY <1>1, <1>5, AnswerAlone, StopWaitingFacts DEF SleepIn
  <2>2. "login" \in PppoeKinds
    BY DEF PppoeKinds
  <2> QED
    BY <1>2, <2>1, <2>2, AlignedAfterAsk
<1>6. CASE pc = "login" /\ Arrived(Accepted) /\ SleepIn("notice")
  <2>1. /\ pc' = "notice" /\ queue' = AgeSeq(Rest)
        /\ Rest \in Seq(Datagrams) /\ queue \in Seq(Datagrams)
    BY <1>1, <1>6, StopWaitingFacts, RestFacts DEF SleepIn, ChannelTypeOK
  <2>2. /\ Len(Rest) = Len(queue) - 1
        /\ \A i \in 1 .. Len(Rest) : Rest[i] = queue[i + 1]
    BY <1>1, <1>6, RestFacts DEF Arrived
  <2>3. /\ DOMAIN queue' = 1 .. Len(Rest)
        /\ \A i \in 1 .. Len(Rest) : /\ queue'[i].fresh = FALSE
                                     /\ queue'[i].body = queue[i + 1].body
    <3>1. DOMAIN Rest = 1 .. Len(Rest)
      BY <2>1
    <3>2. /\ DOMAIN queue' = DOMAIN Rest
          /\ \A i \in DOMAIN Rest : /\ queue'[i].fresh = FALSE
                                    /\ queue'[i].body = Rest[i].body
      BY <2>1, AgeSeqFacts
    <3> QED
      BY <2>2, <3>1, <3>2
  <2>4. \A i \in 1 .. Len(Rest) : i + 1 \in DOMAIN queue /\ i + 1 # 1
    BY <2>1, <2>2, LenProperties
  <2>5. \A i \in 1 .. Len(Rest) : i + 1 = 2 /\ queue[i + 1].body = Notice
    BY <1>6, <2>4 DEF Aligned
  <2> QED
    BY <2>1, <2>3, <2>5 DEF Aligned
<1> QED
  BY <1>3, <1>4, <1>5, <1>6, ClientSocket

(* An answer that comes while the client is in step finds the buffer       *)
(* empty.                                                                  *)
LEMMA AnswerAligned ==
  ASSUME ChannelInv, Aligned, AnswerComes
  PROVE  Aligned'
<1>1. PICK r \in net : Answer(r)
  BY DEF AnswerComes
<1>2. pc' = pc
  BY DEF AnswerComes
<1>3. /\ queue \in Seq(Datagrams) /\ Len(queue) \in Nat
      /\ r.fresh \in BOOLEAN /\ sync \in BOOLEAN
  BY DEF ChannelInv, TypeOK, ChannelTypeOK, Requests
<1>4. /\ sync' = (sync /\ r.fresh)
      /\ r.fresh => ~FreshQueued
      /\ \/ queue' = queue
         \/ \E body \in Replies :
              queue' = Append(queue, [body |-> body, fresh |-> r.fresh])
  BY <1>1, AnswerFacts DEF ChannelInv, TypeOK
<1> SUFFICES ASSUME sync' PROVE Aligned'
  BY DEF Aligned
<1>5. sync /\ r.fresh /\ ~FreshQueued
  BY <1>3, <1>4
<1>6. CASE queue' = queue
  BY <1>2, <1>5, <1>6 DEF Aligned
<1>7. CASE \E body \in Replies :
             queue' = Append(queue, [body |-> body, fresh |-> r.fresh])
  <2>1. PICK body \in Replies :
          queue' = Append(queue, [body |-> body, fresh |-> r.fresh])
    BY <1>7
  <2>2. pc \in PppoeKinds
    BY <1>5 DEF ChannelInv, FreshAwaited, NothingFresh
  <2>3. queue = <<>>
    <3>1. queue # <<>> => Head(queue) = queue[1] /\ 1 \in DOMAIN queue
      BY <1>3
    <3> QED
      BY <1>5, <2>2, <3>1, AnswerAlone DEF FreshQueued
  <2>4. [body |-> body, fresh |-> r.fresh] \in Datagrams
    BY <1>3 DEF Datagrams
  <2>5. Len(queue) = 0
    BY <2>3, EmptySeq
  <2>6. DOMAIN queue' = 1 .. 1 /\ queue'[1].fresh
    BY <1>3, <1>5, <2>1, <2>4, <2>5, AppendProperties
  <2> QED
    BY <2>6 DEF Aligned
<1> QED
  BY <1>4, <1>6, <1>7

(* A notice that is expected leaves the client aligned.                    *)
LEMMA NoticeAligned ==
  ASSUME ChannelInv, Aligned, NoticeComes
  PROVE  Aligned'
<1> DEFINE notice == [body |-> Notice, fresh |-> FALSE]
<1>1. SendNotice(NoticeExpected) /\ pc' = pc
  BY DEF NoticeComes
<1>2. NoticeExpected \in BOOLEAN
  BY DEF NoticeExpected
<1>3. /\ sync' = (sync /\ NoticeExpected)
      /\ queue' = queue \/ queue' = Append(queue, notice)
  BY <1>1, <1>2, SendNoticeFacts DEF ChannelInv, TypeOK
<1> SUFFICES ASSUME sync' PROVE Aligned'
  BY DEF Aligned
<1>4. /\ queue \in Seq(Datagrams) /\ Len(queue) \in Nat
      /\ notice \in Datagrams /\ sync \in BOOLEAN
  BY DEF ChannelInv, TypeOK, ChannelTypeOK, Datagrams, Notice, Plain, Replies,
     ReplyKinds, ReplyCodes
<1>5. sync /\ NoticeExpected
  BY <1>2, <1>3, <1>4
<1>6. CASE queue' = queue
  BY <1>1, <1>5, <1>6 DEF Aligned
<1>7. CASE queue' = Append(queue, notice)
  <2>1. /\ DOMAIN queue' = 1 .. Len(queue) + 1
        /\ DOMAIN queue = 1 .. Len(queue)
        /\ \A i \in 1 .. Len(queue) : queue'[i] = queue[i]
        /\ queue'[Len(queue) + 1] = notice
        /\ notice.fresh = FALSE /\ notice.body = Notice
    BY <1>4, <1>7, AppendProperties
  <2>2. CASE pc = "notice" /\ queue = <<>>
    BY <1>1, <2>1, <2>2 DEF Aligned
  <2>3. CASE pc = "login" /\ Len(queue) = 1 /\ Arrived(Accepted)
    <3>1. 1 \in DOMAIN queue /\ Head(queue) = queue[1]
      BY <1>4, <2>3
    <3>2. queue[1].fresh /\ queue[1].body.kind \in Accepted
      BY <1>5, <2>3, <3>1 DEF Aligned, Arrived
    <3> QED
      BY <1>1, <2>1, <2>3, <3>2 DEF Aligned
  <2> QED
    BY <1>5, <2>2, <2>3 DEF NoticeExpected
<1> QED
  BY <1>3, <1>6, <1>7

----------------------------------------------------------------------------
(* The seed and the counter.                                               *)

LEMMA ClientSeed ==
  ASSUME ChannelInv, Aligned, SeedCurrent, Client
  PROVE  SeedCurrent' /\ seed_current' \in BOOLEAN
<1> USE DEF Waiting, PppoeKinds, Keepalive2Kinds, round
<1>1. sync' = sync
  BY ClientChannel
<1>2. CASE StartRound \/ LoginFails \/ HeartbeatFails
  <2>1. pc' = "challenge" /\ seed_current' = FALSE
    BY <1>2 DEF StartRound, AskAwake, LoginFails, Ask, HeartbeatFails, Keepalive2Fails
  <2> QED
    BY <2>1 DEF SeedCurrent
<1>3. CASE ChallengeFails
  <2>1. pc' \in {"pause", "exited"} /\ seed_current' = seed_current
    BY <1>3 DEF ChallengeFails, SleepIn
  <2> QED
    BY <2>1 DEF SeedCurrent, ChannelInv, TypeOK
<1>4. CASE ChallengeAnswered
  <2>1. queue # <<>> /\ pc = "challenge" /\ seed_current' = Head(queue).fresh
    BY <1>4 DEF ChallengeAnswered, Arrived
  <2>2. Head(queue).fresh \in BOOLEAN
    <3>1. queue \in Seq(Datagrams)
      BY DEF ChannelInv, TypeOK, ChannelTypeOK
    <3>2. Head(queue) \in Datagrams
      BY <2>1, <3>1
    <3> QED
      BY <3>2 DEF Datagrams
  <2>3. sync => seed_current'
    BY <2>1, AnswerAlone
  <2> QED
    BY <1>1, <2>1, <2>2, <2>3 DEF SeedCurrent
<1>5. CASE LoginAnswered \/ LoggedIn \/ HeartbeatProceeds
  <2>1. pc \in Waiting \ {"challenge"} /\ seed_current' = seed_current
    BY <1>5 DEF LoginAnswered, LoggedIn, HeartbeatProceeds, FileAcknowledged,
       FirstAnswered, Keepalive2Succeeds
  <2> QED
    BY <1>1, <2>1 DEF SeedCurrent, ChannelInv, TypeOK
<1> QED
  BY <1>2, <1>3, <1>4, <1>5 DEF Client

LEMMA ClientCounter ==
  ASSUME ChannelInv, TriesLeft, Client
  PROVE  /\ TriesLeft' /\ try_counter' \in 0 .. TryTimes
         /\ first' \in BOOLEAN /\ login_first' \in BOOLEAN /\ eternal_flag' \in BOOLEAN
<1>0. try_counter \in 0 .. TryTimes /\ TryTimes \in Nat \ {0}
  BY PppoeAssumption DEF ChannelInv, TypeOK
<1>1. eternal_flag' \in BOOLEAN
  BY DEF Client, ChannelInv, TypeOK
<1>2. first' \in {first, FALSE} /\ login_first' \in {login_first, TRUE, FALSE}
  BY DEF Client, StartRound, ChallengeFails, ChallengeAnswered, SendLogin, LoginFails,
     LoginAnswered, LoggedIn, StartKeepalive2, HeartbeatProceeds, FileAcknowledged,
     FirstAnswered, Keepalive2Succeeds, HeartbeatFails, Keepalive2Fails, round
<1>3. first' \in BOOLEAN /\ login_first' \in BOOLEAN
  BY <1>2 DEF ChannelInv, TypeOK
<1>4. CASE ChallengeFails
  <2>1. /\ pc = "challenge" /\ try_counter' \in {0, try_counter + 1}
        /\ pc' = IF try_counter' >= TryTimes THEN "exited" ELSE "pause"
    BY <1>4 DEF ChallengeFails, CountChallenge, SleepIn
  <2>2. try_counter < TryTimes
    BY <2>1 DEF TriesLeft
  <2>3. try_counter' \in 0 .. TryTimes
    BY <1>0, <2>1, <2>2
  <2>4. TriesLeft'
    BY <1>0, <2>1, <2>3 DEF TriesLeft
  <2> QED
    BY <1>1, <1>3, <2>3, <2>4
<1>5. CASE ~ChallengeFails
  <2>1. try_counter' = try_counter
    BY <1>5 DEF Client, StartRound, ChallengeAnswered, SendLogin, LoginFails,
       LoginAnswered, LoggedIn, HeartbeatProceeds, HeartbeatFails, round
  <2>2. pc # "exited"
    BY DEF Client, StartRound, ChallengeFails, ChallengeAnswered, LoginFails,
       LoginAnswered, LoggedIn, HeartbeatProceeds, FileAcknowledged, FirstAnswered,
       Keepalive2Succeeds, HeartbeatFails, Keepalive2Fails
  <2> QED
    BY <1>0, <1>1, <1>3, <2>1, <2>2 DEF TriesLeft
<1> QED
  BY <1>4, <1>5

----------------------------------------------------------------------------
(* The inductive invariant.                                                *)

LEMMA InitInv == Init => IInv
<1> SUFFICES ASSUME Init PROVE IInv
  OBVIOUS
<1>1. queue = <<>> /\ net = {} /\ pc = "boot" /\ try_counter = 0
  BY DEF Init, ChannelInit
<1>2. ChannelTypeOK
  BY EmptySeq DEF Init, ChannelInit, ChannelTypeOK
<1>3. TypeOK
  <2>1. 0 \in 0 .. TryTimes
    BY PppoeAssumption
  <2> QED
    BY <1>2, <2>1 DEF Init, TypeOK, Sleeping
<1>4. FreshOnce /\ FreshAwaited /\ Aligned
  BY <1>1 DEF FreshOnce, FreshAwaited, NothingFresh, FreshQueued, Aligned
<1>5. SeedCurrent /\ TriesLeft
  BY <1>1, PppoeAssumption
     DEF SeedCurrent, TriesLeft, Waiting, PppoeKinds, Keepalive2Kinds
<1> QED
  BY <1>3, <1>4, <1>5 DEF IInv, ChannelInv

(* The steps of the network leave the client alone.                        *)
LEMMA NetworkInv ==
  ASSUME IInv, AnswerComes \/ NoticeComes \/ NetworkSettles
  PROVE  IInv'
<1> USE DEF IInv, ChannelInv
<1>1. UNCHANGED <<pc, first, try_counter, login_first, seed_current, eternal_flag>>
  BY DEF AnswerComes, NoticeComes, NetworkSettles, round
<1>2. /\ ChannelTypeOK' /\ FreshOnce'
      /\ NothingFresh => NothingFresh'
      /\ sync' => sync
  <2>1. CASE AnswerComes
    <3>1. PICK r \in net : Answer(r)
      BY <2>1 DEF AnswerComes
    <3>2. r.fresh \in BOOLEAN /\ sync \in BOOLEAN
      BY DEF TypeOK, ChannelTypeOK, Requests
    <3> QED
      BY <3>1, <3>2, AnswerFacts DEF TypeOK
  <2>2. CASE NoticeComes
    <3>1. NoticeExpected \in BOOLEAN /\ sync \in BOOLEAN
      BY DEF TypeOK, ChannelTypeOK, NoticeExpected
    <3> QED
      BY <2>2, <3>1, SendNoticeFacts DEF NoticeComes, TypeOK
  <2>3. CASE NetworkSettles
    BY <2>3, BecomeCalmFacts DEF NetworkSettles, TypeOK
  <2> QED
    BY <2>1, <2>2, <2>3
<1>3. Aligned'
  <2>1. CASE NetworkSettles
    BY <1>1, <2>1 DEF NetworkSettles, BecomeCalm, Aligned
  <2> QED
    BY <2>1, AnswerAligned, NoticeAligned
<1>4. TypeOK'
  BY <1>1, <1>2 DEF TypeOK
<1>5. FreshAwaited'
  BY <1>1, <1>2 DEF FreshAwaited
<1>6. SeedCurrent' /\ TriesLeft'
  BY <1>1, <1>2 DEF SeedCurrent, TriesLeft
<1> QED
  BY <1>2, <1>3, <1>4, <1>5, <1>6

LEMMA NextInv == IInv /\ [Next]_vars => IInv'
<1> SUFFICES ASSUME IInv, [Next]_vars PROVE IInv'
  OBVIOUS
<1>1. CASE Client
  <2>1. ChannelTypeOK' /\ FreshOnce' /\ FreshAwaited' /\ pc' \in Waiting \cup Sleeping
    BY <1>1, ClientChannel DEF IInv
  <2>2. SeedCurrent' /\ seed_current' \in BOOLEAN
    BY <1>1, ClientSeed DEF IInv
  <2>3. /\ TriesLeft' /\ try_counter' \in 0 .. TryTimes
        /\ first' \in BOOLEAN /\ login_first' \in BOOLEAN /\ eternal_flag' \in BOOLEAN
    BY <1>1, ClientCounter DEF IInv
  <2>4. TypeOK'
    BY <2>1, <2>2, <2>3 DEF TypeOK
  <2> QED
    BY <1>1, <2>1, <2>2, <2>3, <2>4, ClientAligned DEF IInv, ChannelInv
<1>2. CASE AnswerComes \/ NoticeComes \/ NetworkSettles
  BY <1>2, NetworkInv
<1>3. CASE UNCHANGED vars
  <2>1. /\ UNCHANGED <<net, queue, calm, sync, pc, first, try_counter>>
        /\ UNCHANGED <<login_first, seed_current, eternal_flag>>
    BY <1>3 DEF vars, channel, round
  <2> QED
    BY <2>1 DEF IInv, ChannelInv, TypeOK, ChannelTypeOK, FreshOnce, FreshAwaited,
       NothingFresh, FreshQueued, Aligned, SeedCurrent, TriesLeft
<1> QED
  BY <1>1, <1>2, <1>3 DEF Next, Done

LEMMA Always == Spec => []IInv
BY InitInv, NextInv, PTL DEF Spec

----------------------------------------------------------------------------

(* The state of the client keeps its types, and a limited client never     *)
(* counts past its limit (auth.c:810-826).                                 *)
THEOREM TypeCorrect == Spec => []TypeOK
<1>1. IInv => TypeOK
  BY DEF IInv, ChannelInv
<1> QED
  BY <1>1, Always, PTL

(* As long as nothing unexpected came, every reply the client acts on      *)
(* answers the request it waits on (auth.c:525, 630, keepalive.c:269).     *)
THEOREM InStep == Spec => []RepliesMatchRequests
<1>1. IInv => RepliesMatchRequests
  BY AnswerAlone DEF IInv, RepliesMatchRequests
<1> QED
  BY <1>1, Always, PTL

(* As long as nothing unexpected came, login and heartbeat are computed    *)
(* from the challenge of their round (auth.c:810, 827, 831).               *)
THEOREM SeedOfTheRound == Spec => []SeedCurrent
<1>1. IInv => SeedCurrent
  BY DEF IInv
<1> QED
  BY <1>1, Always, PTL

----------------------------------------------------------------------------
(* On a calm network.                                                      *)

Hoped  == [body |-> GoodAnswer[pc], fresh |-> TRUE]
Unread == [body |-> Notice, fresh |-> FALSE]

(***************************************************************************)
(* Where a client in step is on a calm network: it sleeps between rounds   *)
(* with nothing in the buffer, or waits with the answer hoped for at the   *)
(* head, and only a notice behind it that the login will read.             *)
(***************************************************************************)
OnCourse ==
  /\ calm
  /\ pc # "challenge" => seed_current
  /\ \/ pc = "idle" /\ queue = <<>>
     \/ pc = "notice" /\ queue \in {<<>>, <<Unread>>}
     \/ pc = "login" /\ queue \in {<<Hoped>>, <<Hoped, Unread>>}
     \/ pc \in PppoeKinds \ {"login"} /\ queue = <<Hoped>>

LEMMA StaysPrompt ==
  ASSUME ChannelInv, CalmIsPrompt, [Next]_vars
  PROVE  CalmIsPrompt'
<1>1. ASSUME NEW kind, NEW rest, Transmit(rest, kind) PROVE CalmIsPrompt'
  BY <1>1 DEF Transmit, CalmIsPrompt
<1>2. ASSUME NEW place, SleepIn(place) PROVE CalmIsPrompt'
  BY <1>2 DEF SleepIn, StopWaiting, Age, CalmIsPrompt
<1>3. CASE Client
  BY <1>1, <1>2, <1>3, ClientSocket DEF Ask, AskAwake
<1>4. CASE AnswerComes
  BY <1>4 DEF AnswerComes, Answer, CalmIsPrompt
<1>5. CASE NoticeComes
  BY <1>5 DEF NoticeComes, SendNotice, CalmIsPrompt
<1>6. CASE NetworkSettles
  BY <1>6 DEF NetworkSettles, BecomeCalm, CalmIsPrompt
<1>7. CASE UNCHANGED vars
  BY <1>7 DEF vars, channel, CalmIsPrompt
<1> QED
  BY <1>3, <1>4, <1>5, <1>6, <1>7 DEF Next, Done

(* One notice in the buffer is the same notice after aging.                *)
LEMMA UnreadAges ==
  /\ Unread \in Datagrams /\ <<Unread>> \in Seq(Datagrams)
  /\ AgeSeq(<<Unread>>) = <<Unread>> /\ AgeSeq(<<>>) = <<>>
<1>1. Unread \in Datagrams /\ <<Unread>> \in Seq(Datagrams) /\ Len(<<Unread>>) = 1
  BY DEF Unread, Datagrams, Notice, Plain, Replies, ReplyKinds, ReplyCodes
<1>2. /\ AgeSeq(<<Unread>>) \in Seq(Datagrams) /\ Len(AgeSeq(<<Unread>>)) = 1
      /\ AgeSeq(<<Unread>>)[1] = Stale(Unread)
  <2>1. 1 \in DOMAIN <<Unread>> /\ <<Unread>>[1] = Unread
    BY <1>1
  <2>2. AgeSeq(<<Unread>>)[1] = Stale(Unread)
    BY <2>1 DEF AgeSeq
  <2> QED
    BY <1>1, <2>2, AgeSeqFacts
<1>3. Stale(Unread) = Unread
  <2>1. /\ Stale(Unread) \in Datagrams /\ Stale(Unread).fresh = FALSE
        /\ Stale(Unread).body = Unread.body /\ Unread.fresh = FALSE
    BY <1>1, StaleDatagram DEF Unread
  <2> QED
    BY <1>1, <2>1 DEF Datagrams
<1>4. AgeSeq(<<Unread>>) = <<Unread>>
  <2>1. \A i \in 1 .. 1 : AgeSeq(<<Unread>>)[i] = <<Unread>>[i]
    BY <1>2, <1>3
  <2> QED
    BY <1>1, <1>2, <2>1, SeqEqual
<1>5. AgeSeq(<<>>) = <<>>
  BY DEF AgeSeq
<1> QED
  BY <1>1, <1>4, <1>5

(* What the client leaves in the buffer when it reads from it.             *)
LEMMA RestOnCourse ==
  ASSUME OnCourse
  PROVE  /\ pc \in PppoeKinds => queue # <<>> /\ Head(queue) = Hoped
         /\ pc # "login" => Rest = <<>>
         /\ AgeSeq(Rest) \in {<<>>, <<Unread>>}
<1>1. pc \in PppoeKinds => pc \notin {"idle", "notice"}
  BY DEF PppoeKinds, Keepalive2Kinds
<1>2. pc \in PppoeKinds => queue # <<>> /\ Head(queue) = Hoped
  BY <1>1 DEF OnCourse
<1>3. Rest \in {<<>>, <<Unread>>} /\ (pc # "login" => Rest = <<>>)
  <2>1. CASE queue = <<>>
    BY <2>1 DEF Rest
  <2>2. CASE queue = <<Unread>> /\ pc = "notice"
    BY <2>2 DEF Rest
  <2>3. CASE queue = <<Hoped>>
    BY <2>3 DEF Rest
  <2>4. CASE queue = <<Hoped, Unread>> /\ pc = "login"
    <3>1. Tail(queue) = <<Unread>>
      BY <2>4
    <3> QED
      BY <2>4, <3>1 DEF Rest
  <2> QED
    BY <2>1, <2>2, <2>3, <2>4 DEF OnCourse
<1> QED
  BY <1>2, <1>3, UnreadAges

(* Each step of the client leads to the next place on the course.          *)
LEMMA ClientOnCourse ==
  ASSUME OnCourse, Client
  PROVE  OnCourse'
<1> USE RestOnCourse
<1>1. /\ calm /\ pc \in PppoeKinds \cup {"notice", "idle"}
      /\ pc # "challenge" => seed_current
  BY DEF OnCourse, PppoeKinds
<1>2. /\ GoodAnswer["challenge"].kind \in Accepted /\ GoodAnswer["login"].kind \in Accepted
      /\ GoodAnswer["ka2_file"].kind \in FileReplies
      /\ GoodAnswer["ka2_first"].kind \in BeatReplies
      /\ GoodAnswer["ka2_third"].kind \in BeatReplies
  BY PppoeAssumption DEF FileReplies
<1>3. ASSUME NEW kind \in PppoeKinds, pc # "login", Ask(kind),
             kind = "challenge" \/ seed_current'
      PROVE  OnCourse'
  <2>1. calm' /\ pc' = kind /\ queue' = <<Hoped'>>
    BY <1>1, <1>3, PppoeAssumption, AnsweredAtOnce DEF Ask, Hoped
  <2> QED
    BY <1>3, <2>1 DEF OnCourse
<1>4. pc \in PppoeKinds => Head(queue).body = GoodAnswer[pc] /\ Head(queue).fresh = TRUE
  BY DEF Hoped
<1>5. CASE StartRound
  <2>1. pc = "idle" /\ queue = <<>>
    BY <1>5 DEF StartRound, OnCourse, PppoeKinds, Keepalive2Kinds
  <2>2. calm' /\ pc' = "challenge" /\ queue' = <<Hoped'>>
    BY <1>1, <1>5, <2>1, PppoeAssumption, AnsweredAtOnce
       DEF StartRound, AskAwake, PppoeKinds, Hoped
  <2> QED
    BY <2>2 DEF OnCourse, PppoeKinds
<1>6. CASE ChallengeAnswered
  BY <1>3, <1>4, <1>6 DEF ChallengeAnswered, SendLogin, PppoeKinds
<1>7. CASE LoginAnswered
  <2>1. pc' = "notice" /\ queue' = AgeSeq(Rest) /\ calm' = calm /\ seed_current' = seed_current
    BY <1>7 DEF LoginAnswered, SleepIn, StopWaiting, round
  <2> QED
    BY <1>1, <1>7, <2>1 DEF OnCourse, LoginAnswered, Unread
<1>8. CASE LoggedIn
  BY <1>1, <1>3, <1>8
     DEF LoggedIn, StartKeepalive2, PppoeKinds, Keepalive2Kinds
<1>9. CASE HeartbeatProceeds
  <2>1. CASE FileAcknowledged \/ FirstAnswered
    BY <1>1, <1>3, <1>9, <2>1
       DEF HeartbeatProceeds, FileAcknowledged, FirstAnswered, round, PppoeKinds,
           Keepalive2Kinds
  <2>2. CASE Keepalive2Succeeds("idle")
    <3>1. /\ pc = "ka2_third" /\ pc' = "idle" /\ queue' = AgeSeq(Rest) /\ calm' = calm
          /\ seed_current' = seed_current
      BY <1>9, <2>2
         DEF HeartbeatProceeds, Keepalive2Succeeds, SleepIn, StopWaiting, round
    <3>2. queue' = <<>>
      BY <3>1, UnreadAges
    <3> QED
      BY <1>1, <3>1, <3>2 DEF OnCourse
  <2> QED
    BY <1>9, <2>1, <2>2 DEF HeartbeatProceeds
<1>10. ~ChallengeFails /\ ~LoginFails /\ ~HeartbeatFails
  BY <1>2, <1>4 DEF ChallengeFails, LoginFails, HeartbeatFails, Keepalive2Fails,
     Missed, TimedOut, PppoeKinds, Keepalive2Kinds
<1> QED
  BY <1>5, <1>6, <1>7, <1>8, <1>9, <1>10 DEF Client

(* A calm server sends its notice only where the login will read it.       *)
LEMMA NoticeOnCourse ==
  ASSUME OnCourse, NoticeComes
  PROVE  OnCourse'
<1>1. /\ NoticeExpected /\ queue' = Offer(queue, Notice, FALSE)
      /\ UNCHANGED <<pc, calm, seed_current>>
  BY DEF NoticeComes, SendNotice, OnCourse, round
<1>2. queue' = queue \/ queue' = Append(queue, Unread)
  BY <1>1 DEF Offer, Unread
<1>3. CASE queue' = queue
  BY <1>1, <1>3 DEF OnCourse, Hoped
<1>4. CASE pc = "notice" /\ queue = <<>> /\ queue' = Append(queue, Unread)
  <2>1. queue' = <<Unread>> /\ Unread' = Unread
    BY <1>4 DEF Unread
  <2> QED
    BY <1>1, <1>4, <2>1 DEF OnCourse
<1>5. CASE pc = "login" /\ Len(queue) = 1 /\ queue' = Append(queue, Unread)
  <2>1. queue = <<Hoped>>
    BY <1>5 DEF OnCourse
  <2>2. queue' = <<Hoped, Unread>> /\ Hoped' = Hoped /\ Unread' = Unread
    <3>1. Append(<<Hoped>>, Unread) = <<Hoped, Unread>>
      <4> DEFINE both == {Hoped, Unread}
      <4>1. <<Hoped>> \in Seq(both) /\ Unread \in both /\ Len(<<Hoped>>) = 1
        OBVIOUS
      <4>2. <<Hoped, Unread>> \in Seq(both) /\ Len(<<Hoped, Unread>>) = 2
        OBVIOUS
      <4>3. /\ Append(<<Hoped>>, Unread) \in Seq(both)
            /\ Len(Append(<<Hoped>>, Unread)) = 2
            /\ Append(<<Hoped>>, Unread)[1] = Hoped
            /\ Append(<<Hoped>>, Unread)[2] = Unread
        BY <4>1, AppendProperties
      <4>4. \A i \in 1 .. 2 : Append(<<Hoped>>, Unread)[i] = <<Hoped, Unread>>[i]
        BY <4>3
      <4> QED
        BY <4>2, <4>3, <4>4, SeqEqual
    <3> QED
      BY <1>1, <1>5, <2>1, <3>1 DEF Hoped, Unread
  <2> QED
    BY <1>1, <1>5, <2>2 DEF OnCourse
<1> QED
  BY <1>1, <1>2, <1>3, <1>4, <1>5 DEF NoticeExpected

(***************************************************************************)
(* On a calm network nothing leads a pppoe client that is in step off its  *)
(* course, a notice after the login included: no round of it fails ever    *)
(* after (auth.c:525, 630, 651, keepalive.c:269, 325, 379).                *)
(***************************************************************************)
THEOREM KeepsCourse == Spec => [](OnCourse => []OnCourse)
<1>1. Init => CalmIsPrompt
  BY DEF Init, ChannelInit, CalmIsPrompt
<1>2. IInv /\ CalmIsPrompt /\ [Next]_vars => CalmIsPrompt'
  BY StaysPrompt DEF IInv
<1>3. IInv /\ CalmIsPrompt /\ [Next]_vars /\ OnCourse => OnCourse'
  <2> SUFFICES ASSUME IInv, CalmIsPrompt, [Next]_vars, OnCourse PROVE OnCourse'
    OBVIOUS
  <2>1. ~AnswerComes /\ ~NetworkSettles
    BY DEF AnswerComes, NetworkSettles, BecomeCalm, CalmIsPrompt, OnCourse
  <2>2. CASE UNCHANGED vars
    BY <2>2 DEF vars, channel, round, OnCourse, Hoped, Unread
  <2> QED
    BY <2>1, <2>2, ClientOnCourse, NoticeOnCourse DEF Next, Done
<1> QED
  BY <1>1, <1>2, <1>3, Always, PTL DEF Spec
=============================================================================
