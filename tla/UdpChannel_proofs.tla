-------------------------- MODULE UdpChannel_proofs -------------------------
(***************************************************************************)
(* What every client of UdpChannel may rely on, for all replies a server   *)
(* may give: the types, and the discipline of the fresh bit.               *)
(***************************************************************************)
EXTENDS UdpChannel, SequenceTheorems, TLAPS

(* At most one message is fresh: a request, or its answer.                 *)
FreshOnce ==
  /\ \A r, s \in net : r.fresh /\ s.fresh => r = s
  /\ (\E r \in net : r.fresh) => ~FreshQueued

(* Nothing is fresh: the client waits for no answer.                       *)
NothingFresh == (\A r \in net : ~r.fresh) /\ ~FreshQueued

----------------------------------------------------------------------------
(* Stale keeps everything of a datagram but the bit.                       *)
LEMMA StaleDatagram ==
  ASSUME NEW m \in Datagrams
  PROVE  /\ Stale(m) \in Datagrams
         /\ Stale(m).fresh = FALSE
         /\ Stale(m).body = m.body
BY DEF Stale, Datagrams

(* Aging keeps the datagrams of a buffer in place and clears their bit.    *)
LEMMA AgeSeqFacts ==
  ASSUME NEW q \in Seq(Datagrams)
  PROVE  /\ AgeSeq(q) \in Seq(Datagrams)
         /\ Len(AgeSeq(q)) = Len(q)
         /\ DOMAIN AgeSeq(q) = DOMAIN q
         /\ \A i \in DOMAIN q : /\ AgeSeq(q)[i].fresh = FALSE
                                /\ AgeSeq(q)[i].body = q[i].body
<1>1. q \in [1 .. Len(q) -> Datagrams] /\ Len(q) \in Nat
  OBVIOUS
<1>2. AgeSeq(q) \in [1 .. Len(q) -> Datagrams]
  BY <1>1, StaleDatagram DEF AgeSeq
<1>3. \A i \in DOMAIN q : /\ AgeSeq(q)[i].fresh = FALSE
                          /\ AgeSeq(q)[i].body = q[i].body
  BY <1>1, StaleDatagram DEF AgeSeq
<1> QED
  BY <1>1, <1>2, <1>3

(* Offering a datagram appends it or changes nothing.                      *)
LEMMA OfferFacts ==
  ASSUME NEW q \in Seq(Datagrams), NEW body \in Replies, NEW fresh \in BOOLEAN
  PROVE  /\ Offer(q, body, fresh) \in Seq(Datagrams)
         /\ \/ Offer(q, body, fresh) = q
            \/ Offer(q, body, fresh) =
                 Append(q, [body |-> body, fresh |-> fresh])
<1>1. [body |-> body, fresh |-> fresh] \in Datagrams
  BY DEF Datagrams
<1> QED
  BY <1>1 DEF Offer

(* What recvfrom leaves is the buffer without its oldest datagram.         *)
LEMMA RestFacts ==
  ASSUME ChannelTypeOK
  PROVE  /\ Rest \in Seq(Datagrams)
         /\ queue = <<>> => Rest = <<>>
         /\ queue # <<>> => /\ Len(Rest) = Len(queue) - 1
                            /\ \A i \in 1 .. Len(Rest) : Rest[i] = queue[i + 1]
<1>1. CASE queue = <<>>
  BY <1>1 DEF Rest, ChannelTypeOK
<1>2. CASE queue # <<>>
  <2>1. queue \in Seq(Datagrams) /\ Rest = Tail(queue)
    BY <1>2 DEF Rest, ChannelTypeOK
  <2> QED
    BY <1>2, <2>1, HeadTailProperties
<1> QED
  BY <1>1, <1>2

(* Aging makes every request stale and invents none.                       *)
LEMMA AgeFacts ==
  ASSUME NEW S \in SUBSET Requests
  PROVE  Age(S) \subseteq Requests /\ \A r \in Age(S) : r.fresh = FALSE
BY DEF Age, Stale, Requests

----------------------------------------------------------------------------
(* The client's steps.                                                     *)

(* Sending ages what was there, and leaves at most the request just sent,  *)
(* or on a calm network its answer, fresh.                                 *)
LEMMA TransmitFacts ==
  ASSUME ChannelTypeOK, NEW rest \in Seq(Datagrams),
         NEW kind \in RequestKinds, Transmit(rest, kind)
  PROVE  /\ ChannelTypeOK'
         /\ FreshOnce'
         /\ sync' = sync
         /\ \/ queue' = AgeSeq(rest)
            \/ queue' = Append(AgeSeq(rest),
                               [body |-> GoodAnswer[kind], fresh |-> TRUE])
<1> DEFINE aged == AgeSeq(rest)
           good == [body |-> GoodAnswer[kind], fresh |-> TRUE]
<1>1. /\ aged \in Seq(Datagrams)
      /\ \A i \in DOMAIN aged : aged[i].fresh = FALSE
  BY AgeSeqFacts
<1>2. GoodAnswer[kind] \in Replies
  BY ChannelAssumption
<1>3. sync' = sync /\ calm' = calm
  BY DEF Transmit
<1>4. CASE calm
  <2>1. net' = {} /\ queue' = Offer(aged, GoodAnswer[kind], TRUE)
    BY <1>4 DEF Transmit
  <2>2. queue' \in Seq(Datagrams) /\ (queue' = aged \/ queue' = Append(aged, good))
    BY <1>1, <1>2, <2>1, OfferFacts
  <2> QED
    BY <1>3, <2>1, <2>2 DEF ChannelTypeOK, FreshOnce
<1>5. CASE ~calm
  <2> DEFINE request == [kind |-> kind, fresh |-> TRUE]
  <2>1. queue' = aged
    BY <1>5 DEF Transmit
  <2>2. PICK late \in SUBSET Age(net), lost \in BOOLEAN :
          net' = late \cup (IF lost THEN {} ELSE {request})
    BY <1>5 DEF Transmit
  <2>3. late \subseteq Requests /\ \A r \in late : r.fresh = FALSE
    BY AgeFacts DEF ChannelTypeOK
  <2>4. request \in Requests
    BY DEF Requests
  <2>5. ChannelTypeOK'
    BY <1>1, <1>3, <2>1, <2>2, <2>3, <2>4 DEF ChannelTypeOK
  <2>6. ~FreshQueued'
    BY <1>1, <2>1 DEF FreshQueued
  <2>7. \A r, s \in net' : r.fresh /\ s.fresh => r = s
    BY <2>2, <2>3
  <2> QED
    BY <1>3, <2>1, <2>5, <2>6, <2>7 DEF FreshOnce
<1> QED
  BY <1>4, <1>5

(* A client that stops waiting leaves nothing fresh behind.                *)
LEMMA StopWaitingFacts ==
  ASSUME ChannelTypeOK, StopWaiting
  PROVE  /\ ChannelTypeOK'
         /\ NothingFresh'
         /\ FreshOnce'
         /\ sync' = sync
         /\ queue' = AgeSeq(Rest)
<1>1. Rest \in Seq(Datagrams)
  BY RestFacts
<1>2. /\ AgeSeq(Rest) \in Seq(Datagrams)
      /\ \A i \in DOMAIN AgeSeq(Rest) : AgeSeq(Rest)[i].fresh = FALSE
  BY <1>1, AgeSeqFacts
<1>3. /\ Age(net) \subseteq Requests
      /\ \A r \in Age(net) : r.fresh = FALSE
  BY AgeFacts DEF ChannelTypeOK
<1> QED
  BY <1>2, <1>3 DEF StopWaiting, ChannelTypeOK, NothingFresh, FreshOnce, FreshQueued

(* Skipping a datagram keeps everything else as it is.                     *)
LEMMA SkipOneFacts ==
  ASSUME ChannelTypeOK, FreshOnce, SkipOne
  PROVE  /\ ChannelTypeOK'
         /\ FreshOnce'
         /\ NothingFresh => NothingFresh'
         /\ sync' = sync
         /\ queue' = Rest
<1>1. /\ Rest \in Seq(Datagrams)
      /\ \A i \in DOMAIN Rest : \E j \in DOMAIN queue : Rest[i] = queue[j]
  <2>1. CASE queue = <<>>
    BY <2>1, RestFacts
  <2>2. CASE queue # <<>>
    <3>1. /\ Rest \in Seq(Datagrams) /\ queue \in Seq(Datagrams)
          /\ Len(Rest) = Len(queue) - 1
          /\ \A i \in 1 .. Len(Rest) : Rest[i] = queue[i + 1]
      BY <2>2, RestFacts DEF ChannelTypeOK
    <3>2. DOMAIN Rest = 1 .. Len(Rest) /\ DOMAIN queue = 1 .. Len(queue)
      BY <3>1
    <3>3. \A i \in 1 .. Len(Rest) : i + 1 \in 1 .. Len(queue)
      BY <3>1, LenProperties
    <3> QED
      BY <3>1, <3>2, <3>3
  <2> QED
    BY <2>1, <2>2
<1>2. net' = net /\ queue' = Rest /\ calm' = calm /\ sync' = sync
  BY DEF SkipOne
<1>3. FreshQueued' => FreshQueued
  BY <1>1, <1>2 DEF FreshQueued
<1> QED
  BY <1>1, <1>2, <1>3 DEF ChannelTypeOK, FreshOnce, NothingFresh

----------------------------------------------------------------------------
(* The steps of the network.                                               *)

(* An answer is as fresh as its request was, and takes the bit over.       *)
LEMMA AnswerFacts ==
  ASSUME ChannelTypeOK, FreshOnce,
         NEW r \in net, Answer(r)
  PROVE  /\ ChannelTypeOK'
         /\ FreshOnce'
         /\ NothingFresh => NothingFresh'
         /\ sync' = (sync /\ r.fresh)
         /\ r.fresh => ~FreshQueued
         /\ \/ queue' = queue
            \/ \E body \in Replies :
                 queue' = Append(queue, [body |-> body, fresh |-> r.fresh])
<1>1. PICK body \in Answers[r.kind], again \in BOOLEAN :
        /\ queue' = Offer(queue, body, r.fresh)
        /\ net' = (net \ {r}) \cup (IF again THEN {Stale(r)} ELSE {})
  BY DEF Answer
<1>2. /\ sync' = (sync /\ r.fresh) /\ calm' = calm
  BY DEF Answer
<1>3. r \in Requests /\ r.kind \in RequestKinds /\ r.fresh \in BOOLEAN
  BY DEF ChannelTypeOK, Requests
<1>4. body \in Replies
  BY <1>3, ChannelAssumption
<1>5. queue \in Seq(Datagrams) /\ sync \in BOOLEAN
  BY DEF ChannelTypeOK
<1>6. /\ queue' \in Seq(Datagrams)
      /\ queue' = queue \/ queue' = Append(queue, [body |-> body, fresh |-> r.fresh])
  BY <1>1, <1>3, <1>4, <1>5, OfferFacts
<1>7. Stale(r) \in Requests /\ Stale(r).fresh = FALSE
  BY <1>3 DEF Requests, Stale
<1>8. ChannelTypeOK'
  BY <1>1, <1>2, <1>3, <1>5, <1>6, <1>7 DEF ChannelTypeOK
<1>9. FreshQueued' => FreshQueued \/ r.fresh
  <2>1. CASE queue' = queue
    BY <2>1 DEF FreshQueued
  <2>2. CASE queue' = Append(queue, [body |-> body, fresh |-> r.fresh])
    <3>1. /\ DOMAIN queue' = 1 .. Len(queue) + 1
          /\ DOMAIN queue = 1 .. Len(queue)
          /\ \A i \in 1 .. Len(queue) : queue'[i] = queue[i]
          /\ queue'[Len(queue) + 1].fresh = r.fresh
      BY <1>5, <2>2, AppendProperties
    <3> QED
      BY <1>5, <3>1 DEF FreshQueued
  <2> QED
    BY <1>6, <2>1, <2>2
<1>10. \A s \in net' : s.fresh => s \in net /\ s # r
  BY <1>1, <1>7
<1>11. r.fresh => ~FreshQueued
  BY DEF FreshOnce
<1>12. FreshOnce'
  BY <1>9, <1>10 DEF FreshOnce
<1>13. NothingFresh => NothingFresh'
  BY <1>9, <1>10 DEF NothingFresh
<1> QED
  BY <1>2, <1>4, <1>6, <1>8, <1>11, <1>12, <1>13

(* A notice is never fresh.                                                *)
LEMMA SendNoticeFacts ==
  ASSUME ChannelTypeOK, FreshOnce, NEW expected \in BOOLEAN,
         SendNotice(expected)
  PROVE  /\ ChannelTypeOK'
         /\ FreshOnce'
         /\ NothingFresh => NothingFresh'
         /\ sync' = (sync /\ expected)
         /\ \/ queue' = queue
            \/ queue' = Append(queue, [body |-> Notice, fresh |-> FALSE])
<1> DEFINE notice == [body |-> Notice, fresh |-> FALSE]
<1>1. Notice \in Replies
  BY DEF Notice, Plain, Replies, ReplyKinds, ReplyCodes
<1>2. queue \in Seq(Datagrams) /\ sync \in BOOLEAN
  BY DEF ChannelTypeOK
<1>3. /\ queue' = Offer(queue, Notice, FALSE)
      /\ sync' = (sync /\ expected) /\ net' = net /\ calm' = calm
  BY DEF SendNotice
<1>4. /\ queue' \in Seq(Datagrams)
      /\ queue' = queue \/ queue' = Append(queue, notice)
  BY <1>1, <1>2, <1>3, OfferFacts
<1>5. FreshQueued' => FreshQueued
  <2>1. CASE queue' = queue
    BY <2>1 DEF FreshQueued
  <2>2. CASE queue' = Append(queue, notice)
    <3>1. /\ DOMAIN queue' = 1 .. Len(queue) + 1
          /\ DOMAIN queue = 1 .. Len(queue)
          /\ \A i \in 1 .. Len(queue) : queue'[i] = queue[i]
          /\ queue'[Len(queue) + 1].fresh = FALSE
      BY <1>2, <2>2, AppendProperties
    <3> QED
      BY <1>2, <3>1 DEF FreshQueued
  <2> QED
    BY <1>4, <2>1, <2>2
<1>6. ChannelTypeOK'
  BY <1>2, <1>3, <1>4 DEF ChannelTypeOK
<1> QED
  BY <1>3, <1>4, <1>5, <1>6 DEF FreshOnce, NothingFresh

(* A network that settles forgets the requests and keeps the buffer.       *)
LEMMA BecomeCalmFacts ==
  ASSUME ChannelTypeOK, FreshOnce, BecomeCalm
  PROVE  /\ ChannelTypeOK'
         /\ FreshOnce'
         /\ NothingFresh => NothingFresh'
         /\ sync' = sync /\ queue' = queue
BY DEF BecomeCalm, ChannelTypeOK, FreshOnce, NothingFresh, FreshQueued

----------------------------------------------------------------------------
(* On a calm network.                                                      *)

(* Nothing is under way there: what is answered is answered at once.       *)
CalmIsPrompt == calm => net = {}

(* A request sent with nothing left in the buffer finds its answer there.  *)
LEMMA AnsweredAtOnce ==
  ASSUME calm, NEW kind \in RequestKinds, Transmit(<<>>, kind)
  PROVE  calm' /\ queue' = <<[body |-> GoodAnswer[kind], fresh |-> TRUE]>>
<1>1. AgeSeq(<<>>) = <<>>
  BY DEF AgeSeq
<1>2. 0 < QueueCap
  BY ChannelAssumption
<1>3. queue' = Append(<<>>, [body |-> GoodAnswer[kind], fresh |-> TRUE]) /\ calm'
  BY <1>1, <1>2 DEF Transmit, Offer
<1> QED
  BY <1>3
=============================================================================
