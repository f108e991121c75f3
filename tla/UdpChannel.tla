----------------------------- MODULE UdpChannel -----------------------------
(***************************************************************************)
(* The client's UDP socket and the network behind it, as the client sees   *)
(* them: requests on their way to the server and a bounded FIFO of         *)
(* datagrams the kernel holds until the next recvfrom.  The protocol has   *)
(* no transaction numbers the client looks at, so a reply carries nothing  *)
(* that ties it to its request.  The model gives it that tie as a history  *)
(* bit: a message is "fresh" while it belongs to the request the client is *)
(* waiting on now, and grows stale when the client sends again or gives    *)
(* up.  No action of a client reads the bit.                               *)
(*                                                                         *)
(* The network loses, delays, duplicates and reorders, and the server may  *)
(* send a notice (0x4d) nobody asked for.                                  *)
(***************************************************************************)
EXTENDS Integers, Sequences, FiniteSets, RetryPolicy

CONSTANTS
  RequestKinds,  \* what a client sends, by the place that sends it
  Answers,       \* Answers[k]: the replies the server may give to a k
  GoodAnswer,    \* GoodAnswer[k]: the one that lets the client go on
  QueueCap,      \* datagrams the socket buffer holds; the rest is dropped
  MaxLate        \* requests given up on that may still be answered

(***************************************************************************)
(* Replies by first byte: challenge 0x02, accept 0x04, reject 0x05, notice *)
(* 0x4d, and 0x07 by its third byte: alive (0x28), file_ack (0x10) and     *)
(* alive_bad (any other value).  "other" is every other first byte.        *)
(***************************************************************************)
ReplyKinds == {"challenge", "accept", "reject", "alive", "file_ack",
               "alive_bad", "notice", "other"}

Replies == [kind : ReplyKinds, code : ReplyCodes, short : BOOLEAN, after : Nat]

Plain(kind) == [kind |-> kind, code |-> "OTHER", short |-> FALSE, after |-> 0]

Notice == Plain("notice")

ASSUME ChannelAssumption ==
  /\ \A k \in RequestKinds : Answers[k] \subseteq Replies
  /\ \A k \in RequestKinds : GoodAnswer[k] \in Answers[k]
  /\ QueueCap \in Nat \ {0}
  /\ MaxLate \in Nat

VARIABLES
  net,    \* requests the server may still answer
  queue,  \* datagrams in the socket buffer, oldest first
  calm,   \* from now on the network is prompt and lossless
  sync    \* history: so far nothing came that the client did not expect

channel == <<net, queue, calm, sync>>

Requests  == [kind : RequestKinds, fresh : BOOLEAN]
Datagrams == [body : Replies, fresh : BOOLEAN]

ChannelTypeOK ==
  /\ net \subseteq Requests
  /\ queue \in Seq(Datagrams)
  /\ calm \in BOOLEAN
  /\ sync \in BOOLEAN

ChannelInit ==
  /\ net = {}
  /\ queue = <<>>
  /\ calm = FALSE
  /\ sync = TRUE

Stale(m) == [m EXCEPT !.fresh = FALSE]

Age(S) == {Stale(m) : m \in S}

AgeSeq(q) == [i \in DOMAIN q |-> Stale(q[i])]

FreshQueued == \E i \in DOMAIN queue : queue[i].fresh

(* The kernel queues a datagram, or drops it when the buffer is full.      *)
Offer(q, body, fresh) ==
  IF Len(q) < QueueCap THEN Append(q, [body |-> body, fresh |-> fresh]) ELSE q

----------------------------------------------------------------------------
(* The client's side of the socket.                                        *)

(* What recvfrom leaves in the buffer, whether it returned or timed out.   *)
Rest == IF queue = <<>> THEN <<>> ELSE Tail(queue)

(* recvfrom returns a datagram of one of these kinds.                      *)
Arrived(kinds) == queue # <<>> /\ Head(queue).body.kind \in kinds

(* recvfrom fails after SO_RCVTIMEO.                                       *)
TimedOut == queue = <<>>

(* recvfrom fails, or returns something else than these kinds.             *)
Missed(kinds) ==
  \/ TimedOut
  \/ queue # <<>> /\ Head(queue).body.kind \notin kinds

(***************************************************************************)
(* sendto, with `rest' still in the buffer: whatever was outstanding is    *)
(* stale from here on.  The request itself or older ones may be lost       *)
(* (sendto's result is never checked, so a local failure is a loss too).   *)
(* On a calm network the answer is in the buffer at once, unless there is  *)
(* no room for it.                                                         *)
(***************************************************************************)
Transmit(rest, kind) ==
  /\ IF calm
     THEN /\ net' = {}
          /\ queue' = Offer(AgeSeq(rest), GoodAnswer[kind], TRUE)
     ELSE /\ queue' = AgeSeq(rest)
          /\ \E late \in SUBSET Age(net), lost \in BOOLEAN :
               /\ Cardinality(late) <= MaxLate
               /\ net' = late \cup (IF lost THEN {}
                                    ELSE {[kind |-> kind, fresh |-> TRUE]})
  /\ UNCHANGED <<calm, sync>>

(* The client stops waiting and sends nothing: it sleeps, or ends.         *)
StopWaiting ==
  /\ queue' = AgeSeq(Rest)
  /\ net' = Age(net)
  /\ UNCHANGED <<calm, sync>>

(* The client takes a datagram and keeps waiting for the same answer.      *)
SkipOne ==
  /\ queue' = Rest
  /\ UNCHANGED <<net, calm, sync>>

----------------------------------------------------------------------------
(* The network and the server.                                             *)

(***************************************************************************)
(* An answer reaches the socket, perhaps one to a request the client gave  *)
(* up on, and perhaps not for the last time.                               *)
(***************************************************************************)
Answer(r) ==
  /\ r \in net
  /\ \E body \in Answers[r.kind], again \in BOOLEAN :
       /\ queue' = Offer(queue, body, r.fresh)
       /\ net' = (net \ {r}) \cup (IF again THEN {Stale(r)} ELSE {})
  /\ sync' = (sync /\ r.fresh)
  /\ UNCHANGED calm

(***************************************************************************)
(* A notice comes.  The client copes with it in the places the caller says *)
(* it is expected in; a calm server sends it nowhere else.                 *)
(***************************************************************************)
SendNotice(expected) ==
  /\ calm => expected
  /\ queue' = Offer(queue, Notice, FALSE)
  /\ sync' = (sync /\ expected)
  /\ UNCHANGED <<net, calm>>

(* From the next request on the network and the server behave; what is     *)
(* under way now is lost.                                                  *)
BecomeCalm ==
  /\ ~calm
  /\ calm' = TRUE
  /\ net' = {}
  /\ UNCHANGED <<queue, sync>>
=============================================================================
