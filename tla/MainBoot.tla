------------------------------- MODULE MainBoot -------------------------------
(***************************************************************************)
(* The start of the program (src/drcom/src/main.c): the options, the       *)
(* daemon, the configuration, the 802.1X login on the first interface that *)
(* grants one, and dogcom.  What the steps do is in DaemonPid, ConfigParse,*)
(* EapLogin and the udp clients; here is their order and what they hand to *)
(* each other.                                                             *)
(*                                                                         *)
(* A path is a sequence of names, the first of them "/" when it is         *)
(* absolute; the place it stands for depends on the working directory,     *)
(* which daemonise changes to /tmp.                                        *)
(***************************************************************************)
EXTENDS ConfigParse

CONSTANTS
  Home,      \* the directory the program is started in, as a place
  Paths,     \* arguments of -c and -l; the empty one cannot be resolved
  Addresses, \* arguments of -b
  FileSets,  \* the files there may be: sets of places
  IfsMax,    \* IFS_MAX: room in the list of interfaces (64)
  MaxLines   \* bound for TLC: lines of a configuration file

Tmp       == <<"tmp">>
DefaultIp == <<"0", ".", "0", ".", "0", ".", "0">>

ASSUME BootAssumption ==
  /\ {Home, Tmp, <<"/">>} \subseteq Seq(STRING) /\ Home # Tmp
  /\ Paths \subseteq Seq(STRING)
  /\ Addresses \subseteq Seq(STRING)
  /\ IfsMax \in Nat \ {0}
  /\ MaxLines \in Nat

VARIABLES
  pc,         \* the step main is in, or how it ended
  files,      \* the files there are
  cwd,        \* the working directory
  mode,       \* "" until it is given
  file_path,  \* the configuration file, <<>> until it is given
  flags,      \* of "d" (daemon) and "x" (802.1X), those that were given
  config,     \* drcom_config, bind_ip, log_path, eternal_flag
  given,      \* history: the globals as the options left them
  lines,      \* history: the lines read so far
  opened,     \* the place the configuration was read from
  list,       \* interfaces getall_ifs found, 802.1X is tried on in turn
  tried,      \* interfaces eaplogin was called for
  granted     \* what the last call came to

options  == <<mode, file_path, flags>>
paths    == <<files, cwd, opened>>
eap      == <<list, tried, granted>>
vars     == <<pc, options, paths, config, given, lines, eap>>

Ended == {"usage", "refused", "rejected", "unauthorized", "ended"}
Steps == {"options", "daemonise", "open", "read", "interfaces", "eap", "dogcom"}

Place(path, dir) == IF Head(path) = "/" THEN Tail(path) ELSE dir \o path

----------------------------------------------------------------------------
Init ==
  /\ pc = "options"
  /\ files \in FileSets
  /\ cwd = Home
  /\ mode = "" /\ file_path = <<>> /\ flags = {}
  /\ config = Zero
  /\ given = Zero
  /\ lines = <<>>
  /\ opened = <<>>
  /\ list = 0 /\ tried = 0 /\ granted = FALSE

(* Mutant: a relative path is kept as it is.                               *)
DuplicatePathUnresolved(path) == path

(* realpath; a path that leads nowhere is kept as it is.                   *)
DuplicatePathValue(path) ==
  IF Place(path, cwd) \in files THEN <<"/">> \o Place(path, cwd) ELSE path

OptMode ==
  /\ \/ mode' \in Modes /\ UNCHANGED pc
     \/ pc' = "usage" /\ UNCHANGED mode
  /\ UNCHANGED <<file_path, flags, config>>

OptConf(path) ==
  /\ IF path = <<>>
     THEN pc' = "usage" /\ UNCHANGED file_path
     ELSE file_path' = DuplicatePathValue(path) /\ UNCHANGED pc
  /\ UNCHANGED <<mode, flags, config>>

OptLog(path) ==
  /\ IF path = <<>>
     THEN pc' = "usage" /\ UNCHANGED config
     ELSE config' = [config EXCEPT !["log"] = DuplicatePathValue(path)] /\ UNCHANGED pc
  /\ UNCHANGED options

(* A long address fills bind_ip all the same, and ends the program.        *)
OptBind(address) ==
  LET fits == Len(address) < Capacity["bind_ip"]
  IN  /\ pc' = IF fits THEN pc ELSE "usage"
      /\ config' = [config EXCEPT !["bind_ip"] =
                      IF fits THEN address ELSE SubSeq(address, 1, Capacity["bind_ip"] - 1)]
      /\ UNCHANGED options

OptFlag ==
  \/ /\ flags' \in {flags \cup {"d"}, flags \cup {"x"}}
     /\ UNCHANGED <<pc, mode, file_path, config>>
  \/ /\ config' = [config EXCEPT !["eternal"] = TRUE]
     /\ UNCHANGED <<pc, options>>

(* -h, an unknown option, none at all, or no mode or file among them.      *)
Usage == pc' = "usage" /\ UNCHANGED <<options, config>>

Option ==
  /\ pc = "options"
  /\ OptMode \/ OptFlag \/ Usage \/ (\E p \in Paths : OptConf(p) \/ OptLog(p))
             \/ (\E a \in Addresses : OptBind(a))
  /\ UNCHANGED <<paths, given, lines, eap>>

OptionsDone ==
  /\ pc = "options"
  /\ mode # "" /\ file_path # <<>>
  /\ pc' = IF "d" \in flags THEN "daemonise" ELSE "open"
  /\ given' = config
  /\ UNCHANGED <<options, paths, config, lines, eap>>

(* To the background, to /tmp and past the lock of the pid file, or not.   *)
Daemonise ==
  /\ pc = "daemonise"
  /\ \/ pc' = "open" /\ cwd' = Tmp
     \/ pc' = "refused" /\ cwd' \in {cwd, Tmp}
  /\ UNCHANGED <<options, files, opened, config, given, lines, eap>>

(* config_parse: fopen and memset.                                         *)
OpenConfig ==
  /\ pc = "open"
  /\ IF Place(file_path, cwd) \in files
     THEN /\ pc' = "read"
          /\ opened' = Place(file_path, cwd)
          /\ config' = Cleared(config)
     ELSE pc' = "rejected" /\ UNCHANGED <<opened, config>>
  /\ UNCHANGED <<options, files, cwd, given, lines, eap>>

(* One turn of its loop.                                                   *)
ReadLine ==
  /\ pc = "read"
  /\ Len(lines) < MaxLines
  /\ \E line \in Lines :
       /\ line.joined => lines # <<>>
       /\ lines' = Append(lines, line)
       /\ IF Understood(mode, line)
          THEN config' = After(config, line) /\ UNCHANGED pc
          ELSE config' = AfterError(config, line) /\ pc' = "rejected"
  /\ UNCHANGED <<options, paths, given, eap>>

(* main, before dogcom.                                                    *)
WithDefaultIp ==
  [config EXCEPT !["bind_ip"] = IF @ = <<>> THEN DefaultIp ELSE @]

EndOfFile ==
  /\ pc = "read"
  /\ IF "x" \in flags
     THEN pc' = "interfaces" /\ UNCHANGED config
     ELSE pc' = "dogcom" /\ config' = WithDefaultIp
  /\ UNCHANGED <<options, paths, given, lines, eap>>

(* getall_ifs.  As many as there is room for are too many.                 *)
ListInterfaces ==
  /\ pc = "interfaces"
  /\ list' \in 0 .. IfsMax
  /\ pc' = IF list' \in 1 .. IfsMax - 1 THEN "eap" ELSE "unauthorized"
  /\ UNCHANGED <<options, paths, config, given, lines, tried, granted>>

(* Mutant: the last interface of the list is left out.                     *)
TryEapLoginShort ==
  /\ pc = "eap"
  /\ tried' = tried + 1
  /\ granted' \in BOOLEAN
  /\ IF granted'
     THEN pc' = "dogcom" /\ config' = WithDefaultIp
     ELSE pc' = (IF tried' < list - 1 THEN "eap" ELSE "unauthorized") /\ UNCHANGED config
  /\ UNCHANGED <<options, paths, given, lines, list>>

(* One call of eaplogin in try_smart_eaplogin.                             *)
TryEapLogin ==
  /\ pc = "eap"
  /\ tried' = tried + 1
  /\ granted' \in BOOLEAN
  /\ IF granted'
     THEN pc' = "dogcom" /\ config' = WithDefaultIp
     ELSE pc' = (IF tried' < list THEN "eap" ELSE "unauthorized") /\ UNCHANGED config
  /\ UNCHANGED <<options, paths, given, lines, list>>

(* dogcom returns, whatever it returns.                                    *)
DogcomReturns ==
  /\ pc = "dogcom"
  /\ pc' = "ended"
  /\ UNCHANGED <<options, paths, config, given, lines, eap>>

Done == pc \in Ended /\ UNCHANGED vars

Next ==
  \/ Option \/ OptionsDone \/ Daemonise \/ OpenConfig \/ ReadLine \/ EndOfFile
  \/ ListInterfaces \/ TryEapLogin \/ DogcomReturns \/ Done

Spec == Init /\ [][Next]_vars

----------------------------------------------------------------------------
(* Correctness.                                                            *)

(* In particular every text has room for the NUL that ends it.             *)
TypeOK ==
  /\ pc \in Steps \cup Ended
  /\ files \in FileSets
  /\ cwd \in {Home, Tmp}
  /\ mode \in Modes \cup {""}
  /\ flags \subseteq {"d", "x"}
  /\ file_path \in Seq(STRING) /\ opened \in Seq(STRING)
  /\ DOMAIN config = Fields /\ DOMAIN given = Fields
  /\ \A f \in DOMAIN Capacity : Len(config[f]) < Capacity[f]
  /\ lines \in Seq(Lines)
  /\ list \in 0 .. IfsMax /\ tried \in 0 .. IfsMax /\ granted \in BOOLEAN

Configured == pc \in {"interfaces", "eap", "dogcom"}

SaidIn(field) == {i \in DOMAIN lines : Sets(lines[i], field)}

(* What the last line for a field says, or else the options, or else zero. *)
LastWord(field, value) ==
  \/ \E i \in SaidIn(field) :
       /\ value = Stored(lines[i])
       /\ \A j \in SaidIn(field) : j <= i
  \/ /\ SaidIn(field) = {}
     /\ value = IF field \in Globals THEN given[field] ELSE Zero[field]

(***************************************************************************)
(* The program logs in with all of the configuration or not at all: every  *)
(* line was understood, and each field is what the last line for it says,  *)
(* before what an option says (configparse.c:240-280, main.c:195-215).     *)
(***************************************************************************)
SettingsInForce ==
  Configured =>
    /\ \A i \in DOMAIN lines : Understood(mode, lines[i])
    /\ \A f \in Fields :
         \/ LastWord(f, config[f])
         \/ /\ f = "bind_ip" /\ pc = "dogcom"
            /\ LastWord(f, <<>>) /\ config[f] = DefaultIp

(***************************************************************************)
(* The configuration is read from, and the log of -l is, where they were   *)
(* when the options were read, though the daemon has gone to /tmp since,   *)
(* provided they were there: a path that leads nowhere yet is looked for   *)
(* below /tmp later (main.c:53-65, 191, daemon.c:75).                      *)
(***************************************************************************)
PathsOutliveChdir ==
  /\ opened # <<>> /\ Place(file_path, Home) \in files =>
       opened = Place(file_path, Home)
  /\ pc = "dogcom" /\ given["log"] # <<>> /\ SaidIn("log") = {} =>
       LET asked == Place(given["log"], Home)
       IN  asked \in files => Place(config["log"], cwd) = asked

(***************************************************************************)
(* With -x the program goes on to dogcom as soon as one interface is       *)
(* authorized and not before, and it ends for want of one only after a     *)
(* login on each, unless there are as many as the list has room for        *)
(* (main.c:201-208, 245-258, common.c:152-156).                            *)
(***************************************************************************)
AuthorizedFirst ==
  "x" \in flags =>
    /\ pc = "dogcom" => granted
    /\ pc = "unauthorized" => ~granted /\ (tried = list \/ list = IfsMax)

(***************************************************************************)
(* What the LuCI page shows of the file of a running client is what the    *)
(* client uses, though each reads the file on its own (configparse.c:77-   *)
(* 105, drcom.lua:95-131): they differ only on a value in single and       *)
(* double quotes and on a line that is longer than the buffer.             *)
(***************************************************************************)
QuotedTwice(text) == Quoted(text, "'") /\ Quoted(Inside(text), "\"")

LuciShowsWhatRuns ==
  pc = "dogcom" /\ mode = "dhcp"
    /\ (\A i \in DOMAIN lines : ~lines[i].joined /\ ~QuotedTwice(lines[i].text)) =>
      /\ \A k \in {"server", "host_ip", "username"} : ConfKey(lines, k) = config[k]
      /\ LET mac == ConfKey(lines, "mac")
         IN  \/ CollectHexDigits(mac) = config["mac"]
             \/ mac = <<>> /\ config["mac"] = <<>>

(***************************************************************************)
(* A mac in one of the two forms the README and the page ask for is not    *)
(* what a configuration is rejected for (README.md:157-163).               *)
(***************************************************************************)
DocumentedMacAccepted ==
  ~ /\ pc = "rejected" /\ mode = "dhcp" /\ lines # <<>>
    /\ Sets(lines[Len(lines)], "mac") /\ MacFormat(lines[Len(lines)].text)
=============================================================================
