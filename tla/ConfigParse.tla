------------------------------ MODULE ConfigParse ------------------------------
(***************************************************************************)
(* What src/drcom/src/configparse.c makes of one line of the configuration *)
(* file, and what the LuCI controller (drcom.lua) makes of the same line   *)
(* when it shows the configuration.                                        *)
(*                                                                         *)
(* A line is what fgets returns: a buffer full or less.  The rest of a     *)
(* longer line comes as a line of its own, `joined' to the one before.     *)
(* Blanks at the ends of keys and values are gone, and a letter stands for *)
(* both its cases, which the conversions below do not tell apart.          *)
(***************************************************************************)
EXTENDS Naturals, Sequences

CONSTANT Lines  \* lines that may be in a configuration file

ASSUME LinesAssumption ==
  \A l \in Lines :
    /\ l.sort \in {"blank", "bare", "pair"}  \* also comments; without =; key = text
    /\ l.key \in STRING
    /\ l.text \in Seq(STRING)
    /\ l.joined \in BOOLEAN

HexDigit == {"0", "1", "2", "3", "4", "5", "6", "7", "8", "9",
             "a", "b", "c", "d", "e", "f"}

(* Keys by what their value is, with the room for it in struct config:     *)
(* characters with the closing NUL, octets, truth values.                  *)
Capacity ==
  [server |-> 20, username |-> 36, password |-> 20, host_ip |-> 20,
   host_name |-> 20, PRIMARY_DNS |-> 20, dhcp_server |-> 20, host_os |-> 20,
   bind_ip |-> 20]
Octets ==
  [CONTROLCHECKSTATUS |-> 1, ADAPTERNUM |-> 1, IPDOG |-> 1, AUTH_VERSION |-> 2,
   KEEP_ALIVE_VERSION |-> 2, mac |-> 6, pppoe_flag |-> 1, keep_alive2_flag |-> 1]
Switches == {"ror_version", "keepalive1_mod", "eternal"}

Modes == {"dhcp", "pppoe"}

PppoeKeys == {"server", "pppoe_flag", "keep_alive2_flag"}

(* The keys read_d_config and read_p_config compare with.                  *)
KeysOf(mode) ==
  IF mode = "pppoe" THEN PppoeKeys
  ELSE (DOMAIN Capacity \cup DOMAIN Octets \cup Switches \cup {"log", "SECONDARY_DNS"})
         \ {"pppoe_flag", "keep_alive2_flag"}

(* What lines set: SECONDARY_DNS is read and forgotten.                    *)
Fields == DOMAIN Capacity \cup DOMAIN Octets \cup Switches \cup {"log"}

(* Fields outside drcom_config, which options may have set before.         *)
Globals == {"bind_ip", "log", "eternal"}

Yes == {<<"t", "r", "u", "e">>, <<"1">>}
No  == {<<"f", "a", "l", "s", "e">>, <<"0">>}

----------------------------------------------------------------------------
(* One layer of quotes of the same sort is taken off.                      *)
Quoted(text, quote) ==
  Len(text) >= 2 /\ text[1] = quote /\ text[Len(text)] = quote

Inside(text) == SubSeq(text, 2, Len(text) - 1)

StripMatchingQuotes(text) ==
  IF Quoted(text, "'") \/ Quoted(text, "\"") THEN Inside(text) ELSE text

(* Every hexadecimal digit counts, the 0 of a prefix 0x too; whatever else *)
(* is in the text is skipped.                                              *)
CollectHexDigits(text) == SelectSeq(text, LAMBDA c : c \in HexDigit)

(* Mutant: the value is stored with its quotes.                            *)
StoredQuoted(line) ==
  IF line.key \in DOMAIN Octets THEN CollectHexDigits(line.text)
  ELSE IF line.key \in Switches THEN StripMatchingQuotes(line.text) \in Yes
  ELSE line.text

(* What the field of a line's key becomes.                                 *)
Stored(line) ==
  LET value == StripMatchingQuotes(line.text)
  IN  IF line.key \in DOMAIN Octets THEN CollectHexDigits(value)
      ELSE IF line.key \in Switches THEN value \in Yes
      ELSE value

(* Mutant: the NUL is forgotten.                                           *)
TooLongLate(line) ==
  /\ line.key \in DOMAIN Capacity
  /\ Len(StripMatchingQuotes(line.text)) > Capacity[line.key]

(* copy_checked: snprintf wrote less than the text.                        *)
TooLong(line) ==
  /\ line.key \in DOMAIN Capacity
  /\ Len(StripMatchingQuotes(line.text)) >= Capacity[line.key]

(* The conversion of the value succeeds.                                   *)
Converts(line) ==
  LET value == StripMatchingQuotes(line.text)
  IN  /\ ~TooLong(line)
      /\ line.key \in DOMAIN Octets =>
           Len(CollectHexDigits(value)) = 2 * Octets[line.key]
      /\ line.key \in Switches => value \in Yes \cup No

(* read_d_config or read_p_config returns 0.  Blank lines and comments are *)
(* skipped, a line without = or without a key is an error.                 *)
Understood(mode, line) ==
  \/ line.sort = "blank"
  \/ line.sort = "pair" /\ line.key \in KeysOf(mode) /\ Converts(line)

Sets(line, field) == line.sort = "pair" /\ line.key = field

(* The configuration after a line that is understood.                      *)
After(config, line) ==
  [f \in Fields |-> IF Sets(line, f) THEN Stored(line) ELSE config[f]]

(* After one that is not: copy_checked has already filled the field.       *)
AfterError(config, line) ==
  [f \in Fields |->
     IF Sets(line, f) /\ TooLong(line)
     THEN SubSeq(Stored(line), 1, Capacity[f] - 1)
     ELSE config[f]]

(* Empty texts, no octets, 0.                                              *)
Zero == [f \in Fields |-> IF f \in Switches THEN FALSE ELSE <<>>]

(* Mutant: what the options have set is forgotten with the rest.           *)
ClearedAll(config) == Zero

(* memset of drcom_config.                                                 *)
Cleared(config) == [f \in Fields |-> IF f \in Globals THEN config[f] ELSE Zero[f]]

----------------------------------------------------------------------------
(* The controller.  Lines that are no pair are passed over; single quotes  *)
(* are taken off, then double ones.                                        *)
NormalizeConfValue(text) ==
  LET bare == IF Quoted(text, "'") THEN Inside(text) ELSE text
  IN  IF Quoted(bare, "\"") THEN Inside(bare) ELSE bare

(* conf.keys[key], empty when there is none; the last line counts.  Here   *)
(* lines are whole: what is joined is no line of its own.                  *)
ConfKey(lines, key) ==
  LET with == {i \in DOMAIN lines : Sets(lines[i], key) /\ ~lines[i].joined}
  IN  IF with = {} THEN <<>>
      ELSE NormalizeConfValue(lines[CHOOSE i \in with : \A j \in with : j <= i].text)

(* The forms of a mac it does not warn about.                              *)
MacFormat(text) ==
  \/ /\ Len(text) = 14 /\ text[1] = "0" /\ text[2] = "x"
     /\ \A i \in 3 .. 14 : text[i] \in HexDigit
  \/ /\ Len(text) = 17
     /\ \A i \in 1 .. 17 : IF i % 3 = 0 THEN text[i] = ":" ELSE text[i] \in HexDigit
=============================================================================
