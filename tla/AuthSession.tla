---------------------------- MODULE AuthSession -----------------------------
(***************************************************************************)
(* What the dhcp client promises its user and the server, without sockets: *)
(*  - every attempt to connect that fails, and every session that ends, is *)
(*    followed by a pause before the next attempt;                         *)
(*  - a session ends only when Threshold heartbeats have been missed since *)
(*    the last complete one;                                               *)
(*  - the program stops exactly when Budget attempts are used up, and an   *)
(*    unlimited client never stops.                                        *)
(* DhcpClient implements it (see Session there).                           *)
(***************************************************************************)
EXTENDS Integers

CONSTANTS Threshold, Budget, Unlimited, LostDelay

VARIABLES
  phase,     \* boot, connecting, online, backoff or stopped
  misses,    \* missed heartbeats since the last complete one
  attempts,  \* finished attempts, when they are limited
  backoff    \* seconds of the pause being made

session == <<phase, misses, attempts, backoff>>

Init ==
  /\ phase = "boot"
  /\ misses = 0
  /\ attempts = 0
  /\ backoff = 0

Begin ==
  /\ phase \in {"boot", "backoff"}
  /\ Unlimited \/ attempts < Budget
  /\ phase' = "connecting"
  /\ backoff' = 0
  /\ UNCHANGED <<misses, attempts>>

FinishAttempt ==
  /\ phase' = "backoff"
  /\ attempts' = IF Unlimited THEN 0 ELSE attempts + 1
  /\ misses' = 0

Refused ==
  /\ phase = "connecting"
  /\ FinishAttempt
  /\ backoff' \in Nat \ {0}

Established ==
  /\ phase = "connecting"
  /\ phase' = "online"
  /\ UNCHANGED <<misses, attempts, backoff>>

Missed ==
  /\ phase = "online"
  /\ misses + 1 < Threshold
  /\ misses' = misses + 1
  /\ UNCHANGED <<phase, attempts, backoff>>

Confirmed ==
  /\ phase = "online"
  /\ misses' = 0
  /\ UNCHANGED <<phase, attempts, backoff>>

Lost ==
  /\ phase = "online"
  /\ misses + 1 = Threshold
  /\ FinishAttempt
  /\ backoff' = LostDelay

Stop ==
  /\ phase = "backoff"
  /\ ~Unlimited
  /\ attempts = Budget
  /\ phase' = "stopped"
  /\ backoff' = 0
  /\ UNCHANGED <<misses, attempts>>

Next ==
  Begin \/ Refused \/ Established \/ Missed \/ Confirmed \/ Lost \/ Stop

Spec == Init /\ [][Next]_session
=============================================================================
