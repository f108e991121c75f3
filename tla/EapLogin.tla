------------------------------ MODULE EapLogin ------------------------------
(***************************************************************************)
(* eaplogin of src/drcom/src/eapol.c: the 802.1X login over a raw socket,  *)
(* against an authenticator (external: modelled from what the code expects *)
(* of it) that keeps one attempt, with an id, at a time.                   *)
(*                                                                         *)
(* The socket (ETH_P_ALL) sees every frame on the interface, the client's  *)
(* own among them, so traffic that is not for the login (noise) goes       *)
(* through the same buffer.  The buffer is global and overwritten by every *)
(* recvfrom, and a response sent again is built from whatever came last:   *)
(* with the byte that frame has in the place of an id, which can be any,   *)
(* and a digest of whatever it has in the place of a challenge.            *)
(* Responses are built in the step that reads, so that recvbuff (and       *)
(* recvethii, recveap) is the frame of that step.                          *)
(* (The names differ from those of EapDaemon, so that one module can hold  *)
(* the proofs about both.)                                                 *)
(***************************************************************************)
EXTENDS Integers, Sequences

CONSTANTS
  TryTimes,  \* TRY_TIMES (3)
  Timeout,   \* TIMEOUT (3)
  LinkCap    \* frames waiting in the client's socket; the rest is lost

LogoffId == 255   \* EAPOL_LOGOFF_ID
NoId     == 254   \* any other byte that no request of this login has for an id

(* The authenticator makes no more than TryTimes + 1 requests in a login;  *)
(* that their ids stay below the logoff's is what its answer is told by.   *)
ASSUME EapAssumption ==
  /\ TryTimes \in Nat \ {0} /\ TryTimes + 1 < NoId
  /\ Timeout \in Nat \ {0}
  /\ LinkCap \in Nat \ {0}

VARIABLES
  pc,        \* init, the filter the client is in, or done
  tries,     \* i, the requests of this stage that went unanswered
  waited,    \* seconds since this filter began, up to Timeout + 1
  sent,      \* what the send buffer holds
  result,    \* what eaplogin returns
  downlink,  \* frames in the client's socket, oldest first
  uplink,    \* frames to the authenticator, oldest first
  attempt,   \* the authenticator's: idle, identity, md5, granted, refused
  attempt_id, \* its id
  account,   \* good, unknown or bad_password
  judged     \* history: whose challenge the digest was of that it decided on

client == <<pc, tries, waited, sent, result>>
peer   == <<attempt, attempt_id, account, judged>>
login  == <<client, peer, downlink, uplink>>

Ids      == 0 .. TryTimes + 1
AnyId    == Ids \cup {LogoffId, NoId}
Unset    == 100

(* Frames the filters look into, and the rest; from is the source address. *)
Frames == [type : {"identity", "md5", "success", "fail", "noise"},
           id : AnyId, from : {"server", "other"}]

(* Frames no filter takes: any byte can be in the place of the id.         *)
NoiseFrames == [type : {"noise"}, id : AnyId, from : {"server", "other"}]

(* What the client sends; of tells which frame's challenge it digests.     *)
Requests == [type : {"logoff", "start", "identity", "md5"}, id : AnyId,
             to : {"all", "server", "other"}, of : AnyId]

LoginTypeOK ==
  /\ pc \in {"init", "identity", "md5", "success", "done"}
  /\ tries \in 0 .. TryTimes - 1
  /\ waited \in 0 .. Timeout + 1
  /\ sent \in Requests
  /\ result \in {0, 1, 4, -1, -2, Unset}
  /\ downlink \in Seq(Frames) /\ Len(downlink) <= LinkCap
  /\ uplink \in Seq(Requests)
  /\ attempt \in {"idle", "identity", "md5", "granted", "refused"}
  /\ attempt_id \in Ids
  /\ account \in {"good", "unknown", "bad_password"}
  /\ judged \in AnyId

LoginInit ==
  /\ pc = "init"
  /\ tries = 0
  /\ waited = 0
  /\ sent = [type |-> "start", id |-> NoId, to |-> "all", of |-> NoId]
  /\ result = Unset
  /\ downlink = <<>>
  /\ uplink = <<>>
  /\ attempt = "idle"
  /\ attempt_id = 0
  /\ account \in {"good", "unknown", "bad_password"}
  /\ judged = NoId

----------------------------------------------------------------------------
(* The client.                                                             *)

(* eapol_logoff and eapol_start are broadcast and keep the rest of the     *)
(* send buffer.                                                            *)
Broadcast(type, id) == [sent EXCEPT !.type = type, !.to = "all", !.id = id]

(* eap_res_identity: to the source and with the id of the frame read last. *)
IdentityResponse(frame) ==
  [sent EXCEPT !.type = "identity", !.to = frame.from, !.id = frame.id]

(* eap_md5_clg: with the id of the frame read last, whatever frame it is,  *)
(* a digest of what it has for a challenge, and to where the identity went.*)
Md5Response(frame) ==
  [sent EXCEPT !.type = "md5", !.id = frame.id,
               !.of = IF frame.type = "md5" THEN frame.id ELSE NoId]

Transmit(frame) == sent' = frame /\ uplink' = Append(uplink, frame)

Return(value) ==
  /\ pc' = "done"
  /\ result' = value
  /\ UNCHANGED <<tries, waited, sent, uplink>>

(* eapol_init fails: no such interface.                                    *)
NoInterface ==
  /\ pc = "init"
  /\ Return(-1)
  /\ UNCHANGED <<downlink, peer>>

(* A logoff first, then the first eapol-start.                             *)
Start ==
  /\ pc = "init"
  /\ LET logoff == Broadcast("logoff", LogoffId)
         start  == [logoff EXCEPT !.type = "start"]
     IN /\ sent' = start
        /\ uplink' = <<logoff, start>>
  /\ pc' = "identity"
  /\ UNCHANGED <<tries, waited, result, downlink, peer>>

(* Into the next stage, with its first request sent.                       *)
NextStage(stage, request) ==
  /\ pc' = stage
  /\ tries' = 0
  /\ waited' = 0
  /\ Transmit(request)
  /\ UNCHANGED result

Matches(frame) ==
  \/ pc = "identity" /\ frame.type = "identity"
  \/ pc = "md5" /\ frame.type = "md5"
  \/ pc = "success" /\ frame.type = "success" /\ frame.id = sent.id

Refuses(frame) ==
  pc \in {"md5", "success"} /\ frame.type = "fail" /\ frame.id = sent.id

(* Mutant: in the last stage any failure frame is taken for a refusal of   *)
(* the user name.                                                          *)
RefusedAsUnknown(frame) ==
  /\ Refuses(frame)
  /\ Return(1)

(* The authenticator refuses the response just sent.                       *)
Refused(frame) ==
  /\ Refuses(frame)
  /\ \/ pc = "md5" /\ Return(1)
     \/ pc = "success" /\ Return(4)

Answered(frame) ==
  /\ Matches(frame)
  /\ \/ pc = "identity" /\ NextStage("md5", IdentityResponse(frame))
     \/ pc = "md5" /\ NextStage("success", Md5Response(frame))
     \/ pc = "success" /\ Return(0)

(* Mutant: a frame that does not match starts the waiting time again.      *)
IgnoredRestarting(frame) ==
  /\ ~Matches(frame)
  /\ ~Refuses(frame)
  /\ waited' = 0
  /\ UNCHANGED <<pc, tries, sent, result, uplink>>

(* The frame is none of these, and there is time left for another one.     *)
Ignored(frame) ==
  /\ ~Matches(frame)
  /\ ~Refuses(frame)
  /\ waited <= Timeout
  /\ UNCHANGED <<pc, tries, waited, sent, result, uplink>>

(* What the next try of each stage sends.                                  *)
Request(frame) ==
  CASE pc = "identity" -> [sent EXCEPT !.type = "start", !.to = "all"]
    [] pc = "md5" -> IdentityResponse(frame)
    [] pc = "success" -> Md5Response(frame)

(* Mutant: one try more than TRY_TIMES.                                    *)
TimedOutLate(frame) ==
  /\ ~Matches(frame)
  /\ ~Refuses(frame)
  /\ waited > Timeout
  /\ IF tries >= TryTimes
     THEN Return(-2)
     ELSE /\ tries' = tries + 1
          /\ waited' = 0
          /\ Transmit(Request(frame))
          /\ UNCHANGED <<pc, result>>

(* The frame is none of these, and time is up: only now, with a frame in   *)
(* the buffer, does the loop look at the clock.  The request goes out      *)
(* again, built from that frame, or the login is given up.                 *)
TimedOut(frame) ==
  /\ ~Matches(frame)
  /\ ~Refuses(frame)
  /\ waited > Timeout
  /\ IF tries + 1 >= TryTimes
     THEN Return(-2)
     ELSE /\ tries' = tries + 1
          /\ waited' = 0
          /\ Transmit(Request(frame))
          /\ UNCHANGED <<pc, result>>

ReadFrame ==
  /\ pc \in {"identity", "md5", "success"}
  /\ downlink # <<>>
  /\ LET frame == Head(downlink)
     IN Answered(frame) \/ Refused(frame) \/ Ignored(frame) \/ TimedOut(frame)
  /\ downlink' = Tail(downlink)
  /\ UNCHANGED peer

Client == NoInterface \/ Start \/ ReadFrame

Tick ==
  /\ pc \in {"identity", "md5", "success"}
  /\ waited <= Timeout
  /\ waited' = waited + 1
  /\ UNCHANGED <<pc, tries, sent, result, peer, downlink, uplink>>

----------------------------------------------------------------------------
(* The link and the authenticator.                                         *)

Frame(type, id) == [type |-> type, id |-> id, from |-> "server"]

(* A frame for the client arrives in its socket or, always when that is    *)
(* full, is lost.                                                          *)
Send(frame) ==
  \/ Len(downlink) < LinkCap /\ downlink' = Append(downlink, frame)
  \/ UNCHANGED downlink

(* Any other traffic.                                                      *)
NoiseComes ==
  /\ \E frame \in NoiseFrames : Send(frame)
  /\ UNCHANGED <<client, peer, uplink>>

LinkLosesRequest ==
  /\ uplink # <<>>
  /\ uplink' = Tail(uplink)
  /\ UNCHANGED <<client, peer, downlink>>

ServerLogsOff(request) ==
  /\ request.type = "logoff"
  /\ Send(Frame("fail", LogoffId))
  /\ attempt' = "idle"
  /\ UNCHANGED <<attempt_id, judged>>

(* Every start begins a new attempt with a new id.                         *)
ServerAsksIdentity(request) ==
  /\ request.type = "start"
  /\ attempt' = "identity"
  /\ attempt_id' = attempt_id + 1
  /\ Send(Frame("identity", attempt_id'))
  /\ UNCHANGED judged

ServerAsksMd5(request) ==
  /\ request.type = "identity" /\ request.to = "server"
  /\ attempt = "identity" /\ request.id = attempt_id
  /\ IF account = "unknown"
     THEN /\ attempt' = "refused"
          /\ Send(Frame("fail", attempt_id))
          /\ UNCHANGED attempt_id
     ELSE /\ attempt' = "md5"
          /\ attempt_id' = attempt_id + 1
          /\ Send(Frame("md5", attempt_id'))
  /\ UNCHANGED judged

ServerDecides(request) ==
  /\ request.type = "md5" /\ request.to = "server"
  /\ attempt = "md5" /\ request.id = attempt_id
  /\ IF account = "good" /\ request.of = attempt_id
     THEN attempt' = "granted" /\ Send(Frame("success", attempt_id))
     ELSE attempt' = "refused" /\ Send(Frame("fail", attempt_id))
  /\ judged' = request.of
  /\ UNCHANGED attempt_id

ServerKnows(request) ==
  \/ request.type \in {"logoff", "start"}
  \/ request.to = "server" /\ request.id = attempt_id /\ request.type = attempt

ServerIgnores(request) ==
  /\ ~ServerKnows(request)
  /\ UNCHANGED <<attempt, attempt_id, judged, downlink>>

ServerReads ==
  /\ uplink # <<>>
  /\ LET request == Head(uplink)
     IN \/ ServerLogsOff(request) \/ ServerAsksIdentity(request)
        \/ ServerAsksMd5(request) \/ ServerDecides(request)
        \/ ServerIgnores(request)
  /\ uplink' = Tail(uplink)
  /\ UNCHANGED <<client, account>>

(* An authenticator without an answer asks again.                          *)
ServerAsksAgain ==
  /\ attempt \in {"identity", "md5"}
  /\ Send(Frame(attempt, attempt_id))
  /\ UNCHANGED <<client, peer, uplink>>

Done == pc = "done" /\ UNCHANGED login

LoginNext ==
  \/ Client \/ Tick
  \/ NoiseComes \/ LinkLosesRequest \/ ServerReads \/ ServerAsksAgain
  \/ Done

LoginSpec == LoginInit /\ [][LoginNext]_login

(* The client runs whenever recvfrom has a frame, and time goes by.        *)
LoginFairSpec == LoginSpec /\ WF_login(Client) /\ WF_login(Tick)

----------------------------------------------------------------------------
(* Correctness.                                                            *)

(***************************************************************************)
(* What eaplogin returns is what this attempt came to, in spite of the     *)
(* answer to the logoff, of requests asked again, of starts answered late  *)
(* and of responses built from other traffic: success only for a login     *)
(* that is granted, 1 only for an unknown name, and 4 only when a digest   *)
(* was refused: for a wrong password or, in a login that had to send its   *)
(* response again, because the digest was not of the attempt's challenge   *)
(* (eapol.c:152-154, 172-177, 233, 244, 418-419, 429-433).                 *)
(***************************************************************************)
VerdictIsOfThisLogin ==
  /\ result = 0 => attempt = "granted"
  /\ result = 1 => attempt = "refused" /\ account = "unknown"
  /\ result = 4 => /\ attempt = "refused" /\ account # "unknown"
                   /\ \/ account = "bad_password"
                      \/ judged # attempt_id /\ tries > 0

(* As long as frames keep coming, whoever they are for, a login ends       *)
(* (eapol.c:115, 134, 169).                                                *)
EndsUnderTraffic == []<>(downlink # <<>>) => <>(pc = "done")

(***************************************************************************)
(* The responses are "responses to request-identity" and "to md5clg"       *)
(* (eapol.c:227, 241): each goes to the server, with the id of a request   *)
(* the server made.                                                        *)
(***************************************************************************)
ResponsesAnswerRequests ==
  sent.type \in {"identity", "md5"} => sent.to = "server" /\ sent.id \in 1 .. attempt_id
=============================================================================
