----------------------------- MODULE RetryAfter -----------------------------
(***************************************************************************)
(* extract_retry_after_seconds of src/drcom/src/auth.c: the cooldown, in   *)
(* seconds, that the text of a rejection announces ("... 180 s ...").      *)
(*                                                                         *)
(* A step is one turn of the loop.  packet holds the bytes from offset 20  *)
(* on, told apart as far as the code does: digits, space, s (or S), NUL    *)
(* and any other.  (dhcp_login calls it; the names differ from those of    *)
(* DhcpClient, so that one module can hold the proofs about both.)         *)
(***************************************************************************)
EXTENDS Integers, Sequences

CONSTANTS
  Digits,       \* the digits texts are made of, a subset of 0..9
  MaxLen,       \* the longest text
  ValueCap,     \* no more digits are added from here on (100000)
  MaxCooldown,  \* the longest cooldown believed (1800)
  IntMax        \* the largest int

ASSUME RetryAfterAssumption ==
  /\ Digits \subseteq 0 .. 9
  /\ MaxLen \in Nat
  /\ ValueCap \in Nat /\ MaxCooldown \in Nat \ {0}
  /\ IntMax \in Nat
  /\ MaxCooldown < ValueCap /\ 10 * ValueCap <= IntMax

Space == 10
LetterS == 11
Nul == 12
OtherByte == 13
Bytes == Digits \cup {Space, LetterS, Nul, OtherByte}

VARIABLES packet, index, value, have_digits, result

scan == <<packet, index, value, have_digits, result>>

Scanning == -1  \* no result yet

ScanTypeOK ==
  /\ packet \in Seq(Bytes) /\ Len(packet) <= MaxLen
  /\ index \in 1 .. Len(packet) + 1
  /\ value \in 0 .. IntMax
  /\ have_digits \in BOOLEAN
  /\ result \in {Scanning} \cup 0 .. MaxCooldown

ScanInit ==
  /\ packet \in UNION {[1 .. n -> Bytes] : n \in 0 .. MaxLen}
  /\ index = 1
  /\ value = 0
  /\ have_digits = FALSE
  /\ result = Scanning

More == result = Scanning /\ index <= Len(packet) /\ packet[index] # Nul

(* Mutant: the digits are added without a limit.                           *)
AddDigitUncapped(v, d) == 10 * v + d

AddDigit(v, d) == IF v < ValueCap THEN 10 * v + d ELSE v

Digit ==
  /\ More
  /\ packet[index] \in Digits
  /\ value' = AddDigit(value, packet[index])
  /\ have_digits' = TRUE
  /\ index' = index + 1
  /\ UNCHANGED <<packet, result>>

(* The lookahead: spaces from here on, then an s.                          *)
UnitFollows(i) ==
  \E k \in i .. Len(packet) :
    packet[k] = LetterS /\ \A j \in i .. k - 1 : packet[j] = Space

(* Mutant: a text with two numbers keeps the first one's digits.           *)
ForgetNumberKept ==
  /\ More
  /\ packet[index] \notin Digits
  /\ have_digits => ~UnitFollows(index)
  /\ have_digits' = FALSE
  /\ index' = index + 1
  /\ UNCHANGED <<packet, value, result>>

(* A number that is no number of seconds is forgotten.                     *)
ForgetNumber ==
  /\ More
  /\ packet[index] \notin Digits
  /\ have_digits => ~UnitFollows(index)
  /\ value' = 0
  /\ have_digits' = FALSE
  /\ index' = index + 1
  /\ UNCHANGED <<packet, result>>

Believed(v) == IF v \in 1 .. MaxCooldown THEN v ELSE 0

FindSeconds ==
  /\ More
  /\ packet[index] \notin Digits
  /\ have_digits /\ UnitFollows(index)
  /\ result' = Believed(value)
  /\ UNCHANGED <<packet, index, value, have_digits>>

EndOfText ==
  /\ result = Scanning
  /\ ~More
  /\ result' = 0
  /\ UNCHANGED <<packet, index, value, have_digits>>

Returned == result # Scanning /\ UNCHANGED scan

ScanNext == Digit \/ ForgetNumber \/ FindSeconds \/ EndOfText \/ Returned

ScanSpec == ScanInit /\ [][ScanNext]_scan

----------------------------------------------------------------------------
(* What the function means, without the loop.                              *)

InText(i) == i \in DOMAIN packet /\ \A j \in 1 .. i : packet[j] # Nul

IsDigit(i) == InText(i) /\ packet[i] \in Digits

(* The places of the maximal runs of digits that an s follows.             *)
SecondsRuns ==
  {r \in (DOMAIN packet) \X (DOMAIN packet) :
     /\ r[1] <= r[2]
     /\ \A i \in r[1] .. r[2] : IsDigit(i)
     /\ ~IsDigit(r[1] - 1) /\ ~IsDigit(r[2] + 1)
     /\ UnitFollows(r[2] + 1)}

(* The number whose digits are in these places.                            *)
Number(r) ==
  LET upto[i \in r[1] - 1 .. r[2]] ==
        IF i < r[1] THEN 0 ELSE 10 * upto[i - 1] + packet[i]
  IN  upto[r[2]]

(***************************************************************************)
(* The function returns the leftmost number of the text that is followed   *)
(* by an s, when it is between 1 and MaxCooldown, and 0 otherwise: the cap *)
(* on the digits never turns a huge number into one that is believed, and  *)
(* no digits of another number get in (auth.c:115-140).                    *)
(***************************************************************************)
ReturnsFirstSeconds ==
  result # Scanning =>
    IF SecondsRuns = {} THEN result = 0
    ELSE \E r \in SecondsRuns :
           /\ \A s \in SecondsRuns : r[1] <= s[1]
           /\ result = IF Number(r) \in 1 .. MaxCooldown THEN Number(r) ELSE 0
=============================================================================
