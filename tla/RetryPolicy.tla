---------------------------- MODULE RetryPolicy ----------------------------
(***************************************************************************)
(* The pure decisions of src/drcom/src/retry_policy.c: how long to wait    *)
(* before the next login, and when a run of failed heartbeats ends the     *)
(* session.  They have no state of their own; DhcpClient applies them.     *)
(***************************************************************************)
EXTENDS Integers

CONSTANTS
  DefaultDelay,       \* DRCOM_DEFAULT_LOGIN_RETRY_DELAY_SECONDS (60)
  ShortDelay,         \* DRCOM_SHORT_GENERIC_RETRY_DELAY_SECONDS (3)
  ReconnectThreshold  \* DRCOM_KEEPALIVE_FAILURE_RECONNECT_THRESHOLD (6)

ASSUME DelayAssumption ==
  /\ DefaultDelay \in Nat \ {0}
  /\ ShortDelay \in Nat \ {0}

ASSUME ThresholdAssumption == ReconnectThreshold \in Nat \ {0}

(* The reply codes the policy tells apart; every other code of auth.h is   *)
(* "OTHER".                                                                *)
ReplyCodes == {"WRONG_PASS", "UPDATE_CLIENT", "OTHER"}

(***************************************************************************)
(* What the policy reads of a login rejection: its code, whether the       *)
(* datagram is a short one (recv_length <= 5), and the cooldown in seconds *)
(* found in its text (0 when there is none).                               *)
(***************************************************************************)
Rejections == [code : ReplyCodes, short : BOOLEAN, after : Nat]

Normalize(seconds) == IF seconds > 0 THEN seconds ELSE DefaultDelay

DelayForLoginReply(rejection) ==
  IF rejection.code = "WRONG_PASS" /\ rejection.short
  THEN ShortDelay
  ELSE IF rejection.code = "UPDATE_CLIENT" /\ rejection.after > 0
       THEN rejection.after
       ELSE DefaultDelay

NextKeepaliveFailureCount(failures, succeeded) ==
  IF succeeded THEN 0 ELSE (IF failures < 0 THEN 0 ELSE failures) + 1

(* Mutant: the threshold is one too high.                                  *)
ShouldReconnectLate(failures) == failures > ReconnectThreshold

ShouldReconnect(failures) == failures >= ReconnectThreshold
=============================================================================
