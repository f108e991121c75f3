---------------------------- MODULE MainBoot_proofs ----------------------------
(***************************************************************************)
(* What the program logs in with, where it found it and what it had before *)
(* it did, for every configuration file, every path and every number of    *)
(* interfaces.                                                             *)
(***************************************************************************)
EXTENDS MainBoot, TLAPS

Before == {"options", "daemonise", "open"}

Shape ==
  /\ cwd \in {Home, Tmp} /\ (pc = "options" => cwd = Home)
  /\ DOMAIN config = Fields
  /\ lines \in Seq(Lines)
  /\ pc \in Before => lines = <<>> /\ opened = <<>>
  /\ pc \in {"daemonise", "open"} => given = config

(* A path that is still relative leads nowhere from the directory of the   *)
(* start.                                                                  *)
AbsoluteOrLost(path) ==
  path # <<>> => Head(path) = "/" \/ Place(path, Home) \notin files

Resolved ==
  /\ AbsoluteOrLost(file_path)
  /\ pc = "options" => AbsoluteOrLost(config["log"])
  /\ pc \notin {"options", "usage"} => AbsoluteOrLost(given["log"])
  /\ opened # <<>> => file_path # <<>> /\ opened \in {Place(file_path, d) : d \in {Home, Tmp}}
  /\ pc \in {"daemonise", "open"} => file_path # <<>>

(* What has been read so far is in force.                                  *)
AllUnderstood == \A i \in DOMAIN lines : Understood(mode, lines[i])

InForce ==
  /\ pc \in {"read", "interfaces", "eap"} =>
       AllUnderstood /\ \A f \in Fields : LastWord(f, config[f])
  /\ SettingsInForce

(* Interfaces are tried in turn, the first that grants ends it.            *)
Turns ==
  /\ pc \in Before \cup {"read", "interfaces"} => tried = 0 /\ ~granted
  /\ pc = "eap" => list \in Nat /\ tried \in Nat /\ tried < list /\ ~granted
  /\ AuthorizedFirst

IInv == Shape /\ Resolved /\ InForce /\ Turns

----------------------------------------------------------------------------
(* Paths.                                                                  *)

(* An absolute path leads to the same place from everywhere.               *)
LEMMA AbsolutePlace ==
  ASSUME NEW path, Head(path) = "/", NEW d, NEW e
  PROVE  Place(path, d) = Place(path, e)
BY DEF Place

LEMMA PlaceIsPath ==
  ASSUME NEW Names, NEW path \in Seq(Names), path # <<>>, NEW dir \in Seq(Names)
  PROVE  Place(path, dir) \in Seq(Names)
BY DEF Place

(* realpath makes a path absolute, or it leads nowhere.                    *)
LEMMA RealPath ==
  ASSUME NEW path \in Seq(STRING), path # <<>>, cwd = Home
  PROVE  AbsoluteOrLost(DuplicatePathValue(path))
<1>1. Place(path, Home) \in Seq(STRING)
      BY BootAssumption, PlaceIsPath
<1>2. CASE Place(path, cwd) \in files
  <2>1. DuplicatePathValue(path) = <<"/">> \o Place(path, Home)
        BY <1>2 DEF DuplicatePathValue
  <2>2. Head(<<"/">> \o Place(path, Home)) = "/"
        BY <1>1
  <2> QED BY <2>1, <2>2 DEF AbsoluteOrLost
<1>3. CASE Place(path, cwd) \notin files
      BY <1>3 DEF DuplicatePathValue, AbsoluteOrLost
<1> QED BY <1>2, <1>3

(* Where a path led from the start it leads for ever.                      *)
LEMMA SamePlace ==
  ASSUME NEW path, path # <<>>, AbsoluteOrLost(path), Place(path, Home) \in files, NEW d
  PROVE  Place(path, d) = Place(path, Home)
BY AbsolutePlace DEF AbsoluteOrLost

----------------------------------------------------------------------------
(* Settings.                                                               *)

LEMMA KnownFields == "log" \in Fields /\ "bind_ip" \in Fields /\ "eternal" \in Fields
BY DEF Fields, Switches, Capacity

(* One more line is in force once the field it sets is set.                *)
LEMMA OneMoreLine ==
  ASSUME lines \in Seq(Lines), NEW line \in Lines, lines' = Append(lines, line),
         UNCHANGED <<mode, given>>, AllUnderstood, Understood(mode, line),
         config' = After(config, line), \A f \in Fields : LastWord(f, config[f])
  PROVE  AllUnderstood' /\ \A f \in Fields : LastWord(f, config[f])'
<1>1. /\ DOMAIN lines' = DOMAIN lines \cup {Len(lines) + 1}
      /\ \A i \in DOMAIN lines : lines'[i] = lines[i]
      /\ lines'[Len(lines) + 1] = line
      /\ DOMAIN lines = 1 .. Len(lines) /\ Len(lines) \in Nat
      OBVIOUS
<1>2. AllUnderstood'
      BY <1>1 DEF AllUnderstood
<1>3. SUFFICES ASSUME NEW f \in Fields PROVE LastWord(f, config[f])'
      BY <1>2
<1>4. config'[f] = IF Sets(line, f) THEN Stored(line) ELSE config[f]
      BY DEF After
<1>5. CASE Sets(line, f)
  <2>1. Len(lines) + 1 \in SaidIn(f)'
        BY <1>1, <1>5 DEF SaidIn
  <2>2. \A j \in SaidIn(f)' : j <= Len(lines) + 1
        BY <1>1 DEF SaidIn
  <2> QED BY <1>1, <1>4, <1>5, <2>1, <2>2 DEF LastWord
<1>6. CASE ~Sets(line, f)
  <2>1. SaidIn(f)' = SaidIn(f)
        BY <1>1, <1>6 DEF SaidIn
  <2>2. \A i \in SaidIn(f) : lines'[i] = lines[i]
        BY <1>1 DEF SaidIn
  <2>3. LastWord(f, config[f])
        OBVIOUS
  <2>4. config'[f] = config[f] /\ given' = given
        BY <1>4, <1>6
  <2> QED BY <2>1, <2>2, <2>3, <2>4 DEF LastWord
<1> QED BY <1>5, <1>6

(* The address of every interface stands for one nobody gave.              *)
LEMMA WithDefault ==
  ASSUME DOMAIN config = Fields, config' = WithDefaultIp, UNCHANGED <<mode, given, lines>>,
         AllUnderstood, \A f \in Fields : LastWord(f, config[f])
  PROVE  /\ DOMAIN config' = Fields
         /\ pc' = "dogcom" => SettingsInForce'
<1>1. /\ DOMAIN config' = Fields
      /\ \A f \in Fields : f # "bind_ip" => config'[f] = config[f]
      /\ config'["bind_ip"] = IF config["bind_ip"] = <<>> THEN DefaultIp ELSE config["bind_ip"]
      BY KnownFields DEF WithDefaultIp
<1>2. \A f, v : LastWord(f, v)' <=> LastWord(f, v)
      BY DEF LastWord, SaidIn
<1>3. ASSUME pc' = "dogcom", NEW f \in Fields
      PROVE  \/ LastWord(f, config[f])'
             \/ /\ f = "bind_ip" /\ pc' = "dogcom"
                /\ LastWord(f, <<>>)' /\ config'[f] = DefaultIp
      BY <1>1, <1>2, <1>3
<1>4. AllUnderstood'
      BY DEF AllUnderstood
<1> QED BY <1>1, <1>3, <1>4 DEF SettingsInForce, AllUnderstood

----------------------------------------------------------------------------
(* The start.                                                              *)

LEMMA Initially == Init => IInv
<1> SUFFICES ASSUME Init PROVE IInv
    OBVIOUS
<1>1. Shape
  <2>1. config = Zero /\ DOMAIN Zero = Fields
        BY DEF Init, Zero
  <2>2. lines \in Seq(Lines)
    <3>1. <<>> \in Seq(Lines)
          OBVIOUS
    <3>2. lines = <<>>
          BY DEF Init
    <3> QED BY <3>1, <3>2
  <2> QED BY <2>1, <2>2 DEF Init, Shape
<1>2. Resolved
      BY KnownFields DEF Init, Resolved, AbsoluteOrLost, Zero, Switches
<1>3. InForce
      BY DEF Init, InForce, SettingsInForce, Configured
<1>4. Turns
      BY DEF Init, Turns, AuthorizedFirst
<1> QED BY <1>1, <1>2, <1>3, <1>4 DEF IInv

LEMMA OptionStep ==
  ASSUME IInv, Option
  PROVE  IInv'
<1> USE DEF IInv
<1>1. /\ pc = "options" /\ pc' \in {"options", "usage"}
      /\ UNCHANGED <<files, cwd, opened, given, lines, list, tried, granted>>
      BY DEF Option, OptMode, OptFlag, Usage, OptConf, OptLog, OptBind, options, paths, eap
<1>2. /\ AbsoluteOrLost(file_path')
      /\ DOMAIN config' = Fields /\ AbsoluteOrLost(config'["log"])
  <2>1. /\ cwd = Home /\ DOMAIN config = Fields
        /\ AbsoluteOrLost(file_path) /\ AbsoluteOrLost(config["log"])
        BY <1>1 DEF Shape, Resolved
  <2>2. CASE UNCHANGED <<file_path, config>>
        BY <2>1, <2>2
  <2>3. CASE \E p \in Paths : OptConf(p)
    <3>1. PICK p \in Paths : OptConf(p)
          BY <2>3
    <3>2. p \in Seq(STRING)
          BY BootAssumption
    <3>3. config' = config /\ (p = <<>> => file_path' = file_path)
          /\ (p # <<>> => file_path' = DuplicatePathValue(p))
          BY <3>1 DEF OptConf
    <3> QED BY <2>1, <3>2, <3>3, RealPath
  <2>4. CASE \E p \in Paths : OptLog(p)
    <3>1. PICK p \in Paths : OptLog(p)
          BY <2>4
    <3>2. p \in Seq(STRING)
          BY BootAssumption
    <3>3. file_path' = file_path /\ (p = <<>> => config' = config)
          /\ (p # <<>> => config' = [config EXCEPT !["log"] = DuplicatePathValue(p)])
          BY <3>1 DEF OptLog, options
    <3>4. CASE p # <<>>
      <4>1. DOMAIN config' = Fields /\ config'["log"] = DuplicatePathValue(p)
            BY <2>1, <3>3, <3>4, KnownFields
      <4> QED BY <2>1, <3>2, <3>3, <3>4, <4>1, RealPath
    <3> QED BY <2>1, <3>3, <3>4
  <2>5. CASE \E a \in Addresses : OptBind(a)
    <3>1. file_path' = file_path
          /\ \E a : config' = [config EXCEPT !["bind_ip"] = a]
          BY <2>5 DEF OptBind, options
    <3>2. DOMAIN config' = Fields /\ config'["log"] = config["log"]
          BY <2>1, <3>1, KnownFields
    <3> QED BY <2>1, <3>1, <3>2
  <2>6. CASE OptFlag
    <3>1. file_path' = file_path
          /\ (config' = config \/ config' = [config EXCEPT !["eternal"] = TRUE])
          BY <2>6 DEF OptFlag, options
    <3>2. DOMAIN config' = Fields /\ config'["log"] = config["log"]
          BY <2>1, <3>1, KnownFields
    <3> QED BY <2>1, <3>1, <3>2
  <2> QED BY <2>2, <2>3, <2>4, <2>5, <2>6 DEF Option, OptMode, Usage, options
<1>3. Shape'
      BY <1>1, <1>2 DEF Shape, Before
<1>4. Resolved'
  <2>1. opened' = <<>>
        BY <1>1 DEF Shape, Before
  <2> QED BY <1>1, <1>2, <2>1 DEF Resolved, AbsoluteOrLost
<1>5. InForce'
      BY <1>1 DEF InForce, SettingsInForce, Configured
<1>6. Turns'
      BY <1>1 DEF Turns, AuthorizedFirst, Before
<1> QED BY <1>3, <1>4, <1>5, <1>6

LEMMA OptionsDoneStep ==
  ASSUME IInv, OptionsDone
  PROVE  IInv'
<1> USE DEF IInv
<1>1. /\ pc = "options" /\ pc' \in {"daemonise", "open"} /\ file_path # <<>>
      /\ given' = config
      /\ UNCHANGED <<mode, file_path, flags, files, cwd, opened, config, lines>>
      /\ UNCHANGED <<list, tried, granted>>
      BY DEF OptionsDone, options, paths, eap
<1>2. Shape' /\ opened' = <<>>
      BY <1>1 DEF Shape, Before
<1>3. Resolved'
      BY <1>1, <1>2 DEF Resolved, AbsoluteOrLost
<1>4. InForce'
      BY <1>1 DEF InForce, SettingsInForce, Configured
<1>5. Turns'
      BY <1>1 DEF Turns, AuthorizedFirst, Before
<1> QED BY <1>2, <1>3, <1>4, <1>5

LEMMA DaemoniseStep ==
  ASSUME IInv, Daemonise
  PROVE  IInv'
<1> USE DEF IInv
<1>1. /\ pc = "daemonise" /\ pc' \in {"open", "refused"} /\ cwd' \in {cwd, Tmp}
      /\ UNCHANGED <<mode, file_path, flags, files, opened, config, given, lines>>
      /\ UNCHANGED <<list, tried, granted>>
      BY DEF Daemonise, options, eap
<1>2. Shape' /\ opened' = <<>>
      BY <1>1 DEF Shape, Before
<1>3. Resolved'
      BY <1>1, <1>2 DEF Resolved, AbsoluteOrLost
<1>4. InForce'
      BY <1>1 DEF InForce, SettingsInForce, Configured
<1>5. Turns'
      BY <1>1 DEF Turns, AuthorizedFirst, Before
<1> QED BY <1>2, <1>3, <1>4, <1>5

----------------------------------------------------------------------------
(* The configuration.                                                      *)

LEMMA OpenConfigStep ==
  ASSUME IInv, OpenConfig
  PROVE  IInv'
<1> USE DEF IInv
<1>1. /\ pc = "open" /\ pc' \in {"read", "rejected"}
      /\ UNCHANGED <<mode, file_path, flags, files, cwd, given, lines>>
      /\ UNCHANGED <<list, tried, granted>>
      BY DEF OpenConfig, options, eap
<1>2. /\ pc' = "read" => config' = Cleared(config)
      /\ config' \in {config, Cleared(config)}
      /\ opened' \in {opened, Place(file_path, cwd)}
      BY DEF OpenConfig
<1>3. DOMAIN config' = Fields
      BY <1>2 DEF Shape, Cleared
<1>4. Shape'
      BY <1>1, <1>3 DEF Shape, Before
<1>5. Resolved'
  <2>1. opened = <<>> /\ cwd \in {Home, Tmp}
        BY <1>1 DEF Shape, Before
  <2> QED BY <1>1, <1>2, <2>1 DEF Resolved, AbsoluteOrLost
<1>6. InForce'
  <2>1. lines' = <<>> /\ given' = config
        BY <1>1 DEF Shape, Before
  <2>2. AllUnderstood'
        BY <2>1 DEF AllUnderstood
  <2>3. ASSUME pc' = "read", NEW f \in Fields PROVE LastWord(f, config[f])'
    <3>1. SaidIn(f)' = {}
          BY <2>1 DEF SaidIn
    <3>2. config'[f] = IF f \in Globals THEN given'[f] ELSE Zero[f]
          BY <1>2, <2>1, <2>3 DEF Cleared
    <3> QED BY <3>1, <3>2 DEF LastWord
  <2> QED BY <1>1, <2>2, <2>3 DEF InForce, SettingsInForce, Configured
<1>7. Turns'
      BY <1>1 DEF Turns, AuthorizedFirst, Before
<1> QED BY <1>4, <1>5, <1>6, <1>7

LEMMA ReadLineStep ==
  ASSUME IInv, ReadLine
  PROVE  IInv'
<1> USE DEF IInv
<1>1. /\ pc = "read" /\ pc' \in {"read", "rejected"}
      /\ UNCHANGED <<mode, file_path, flags, files, cwd, opened, given>>
      /\ UNCHANGED <<list, tried, granted>>
      BY DEF ReadLine, options, paths, eap
<1>2. PICK line \in Lines :
        /\ lines' = Append(lines, line)
        /\ IF Understood(mode, line)
           THEN config' = After(config, line) /\ pc' = pc
           ELSE config' = AfterError(config, line) /\ pc' = "rejected"
      BY DEF ReadLine
<1>3. DOMAIN config' = Fields /\ lines' \in Seq(Lines)
      BY <1>2 DEF Shape, After, AfterError
<1>4. Shape'
      BY <1>1, <1>3 DEF Shape, Before
<1>5. Resolved'
      BY <1>1 DEF Resolved, AbsoluteOrLost
<1>6. InForce'
  <2>1. CASE Understood(mode, line)
    <3>1. AllUnderstood' /\ \A f \in Fields : LastWord(f, config[f])'
          BY <1>1, <1>2, <2>1, OneMoreLine DEF Shape, InForce
    <3> QED BY <1>1, <3>1 DEF InForce, SettingsInForce, Configured
  <2>2. CASE ~Understood(mode, line)
        BY <1>2, <2>2 DEF InForce, SettingsInForce, Configured
  <2> QED BY <2>1, <2>2
<1>7. Turns'
      BY <1>1 DEF Turns, AuthorizedFirst, Before
<1> QED BY <1>4, <1>5, <1>6, <1>7

(* What the steps after the reading leave in force.                        *)
LEMMA StaysInForce ==
  ASSUME IInv, pc \in {"read", "interfaces", "eap"}, UNCHANGED <<mode, given, lines>>,
         \/ pc' \in {"interfaces", "eap", "unauthorized"} /\ config' = config
         \/ pc' = "dogcom" /\ config' = WithDefaultIp
  PROVE  InForce' /\ DOMAIN config' = Fields
<1>1. /\ AllUnderstood /\ \A f \in Fields : LastWord(f, config[f])
      /\ DOMAIN config = Fields
      BY DEF IInv, InForce, Shape
<1>2. CASE pc' = "dogcom" /\ config' = WithDefaultIp
      BY <1>1, <1>2, WithDefault DEF InForce
<1>3. CASE pc' \in {"interfaces", "eap", "unauthorized"} /\ config' = config
  <2>1. AllUnderstood'
        BY <1>1 DEF AllUnderstood
  <2>2. \A f \in Fields : LastWord(f, config[f])'
        BY <1>1, <1>3 DEF LastWord, SaidIn
  <2> QED BY <1>1, <1>3, <2>1, <2>2 DEF InForce, SettingsInForce, AllUnderstood
<1> QED BY <1>2, <1>3

LEMMA EndOfFileStep ==
  ASSUME IInv, EndOfFile
  PROVE  IInv'
<1> USE DEF IInv
<1>1. /\ pc = "read"
      /\ UNCHANGED <<mode, file_path, flags, files, cwd, opened, given, lines>>
      /\ UNCHANGED <<list, tried, granted>>
      /\ \/ "x" \in flags /\ pc' = "interfaces" /\ config' = config
         \/ "x" \notin flags /\ pc' = "dogcom" /\ config' = WithDefaultIp
      BY DEF EndOfFile, options, paths, eap
<1>2. InForce' /\ DOMAIN config' = Fields
      BY <1>1, StaysInForce
<1>3. Shape'
      BY <1>1, <1>2 DEF Shape, Before
<1>4. Resolved'
      BY <1>1 DEF Resolved, AbsoluteOrLost
<1>5. Turns'
      BY <1>1 DEF Turns, AuthorizedFirst, Before
<1> QED BY <1>2, <1>3, <1>4, <1>5

----------------------------------------------------------------------------
(* 802.1X.                                                                 *)

LEMMA ListInterfacesStep ==
  ASSUME IInv, ListInterfaces
  PROVE  IInv'
<1> USE DEF IInv
<1>1. /\ pc = "interfaces"
      /\ UNCHANGED <<mode, file_path, flags, files, cwd, opened, config, given, lines>>
      /\ UNCHANGED <<tried, granted>> /\ list' \in 0 .. IfsMax
      /\ pc' = IF list' \in 1 .. IfsMax - 1 THEN "eap" ELSE "unauthorized"
      BY DEF ListInterfaces, options, paths
<1>2. InForce' /\ DOMAIN config' = Fields
      BY <1>1, StaysInForce
<1>3. Shape'
      BY <1>1, <1>2 DEF Shape, Before
<1>4. Resolved'
      BY <1>1 DEF Resolved, AbsoluteOrLost
<1>5. tried' = 0 /\ granted' = granted /\ ~granted
      BY <1>1 DEF Turns
<1>6. Turns'
      BY <1>1, <1>5, BootAssumption DEF Turns, AuthorizedFirst, Before
<1> QED BY <1>2, <1>3, <1>4, <1>6

LEMMA TryEapLoginStep ==
  ASSUME IInv, TryEapLogin
  PROVE  IInv'
<1> USE DEF IInv
<1>1. /\ pc = "eap" /\ tried' = tried + 1
      /\ UNCHANGED <<mode, file_path, flags, files, cwd, opened, given, lines, list>>
      /\ \/ granted' /\ pc' = "dogcom" /\ config' = WithDefaultIp
         \/ ~granted' /\ tried' < list /\ pc' = "eap" /\ config' = config
         \/ ~granted' /\ ~(tried' < list) /\ pc' = "unauthorized" /\ config' = config
      BY DEF TryEapLogin, options, paths
<1>2. InForce' /\ DOMAIN config' = Fields
      BY <1>1, StaysInForce
<1>3. Shape'
      BY <1>1, <1>2 DEF Shape, Before
<1>4. Resolved'
      BY <1>1 DEF Resolved, AbsoluteOrLost
<1>5. list' \in Nat /\ tried' \in Nat /\ (tried' < list' \/ tried' = list')
      BY <1>1 DEF Turns
<1>6. Turns'
      BY <1>1, <1>5 DEF Turns, AuthorizedFirst, Before
<1> QED BY <1>2, <1>3, <1>4, <1>6

LEMMA Inductive == IInv /\ [Next]_vars => IInv'
<1> SUFFICES ASSUME IInv, [Next]_vars PROVE IInv'
    OBVIOUS
<1>1. CASE DogcomReturns
  <2>1. /\ pc' = "ended"
        /\ UNCHANGED <<mode, file_path, flags, files, cwd, opened, config, given, lines>>
        BY <1>1 DEF DogcomReturns, options, paths
  <2>2. pc = "dogcom"
        BY <1>1 DEF DogcomReturns
  <2>3. Shape' /\ Resolved'
        BY <2>1, <2>2 DEF IInv, Shape, Resolved, AbsoluteOrLost, Before
  <2>4. InForce' /\ Turns'
        BY <2>1 DEF InForce, SettingsInForce, Configured, Turns, AuthorizedFirst, Before
  <2> QED BY <2>3, <2>4 DEF IInv
<1>2. CASE UNCHANGED vars
  <2>1. /\ UNCHANGED <<pc, mode, file_path, flags, files, cwd, opened, config, given, lines>>
        /\ UNCHANGED <<list, tried, granted>>
        BY <1>2 DEF vars, options, paths, eap
  <2>2. Shape' /\ Resolved'
        BY <2>1 DEF IInv, Shape, Resolved, AbsoluteOrLost
  <2>3. Turns'
        BY <2>1 DEF IInv, Turns, AuthorizedFirst
  <2>4. \A f, v : LastWord(f, v)' <=> LastWord(f, v)
        BY <2>1 DEF LastWord, SaidIn
  <2>5. AllUnderstood' <=> AllUnderstood
        BY <2>1 DEF AllUnderstood
  <2>6. SettingsInForce'
        BY <2>1, <2>4, <2>5 DEF IInv, InForce, SettingsInForce, Configured, AllUnderstood
  <2>7. InForce'
        BY <2>1, <2>4, <2>5, <2>6 DEF IInv, InForce
  <2> QED BY <2>2, <2>3, <2>7 DEF IInv
<1> QED BY <1>1, <1>2, OptionStep, OptionsDoneStep, DaemoniseStep, OpenConfigStep,
           ReadLineStep, EndOfFileStep, ListInterfacesStep, TryEapLoginStep DEF Next, Done

LEMMA Always == Spec => []IInv
BY Initially, Inductive, PTL DEF Spec

----------------------------------------------------------------------------
(* Types, and the room for every text.                                     *)

Fits(c) == \A f \in DOMAIN Capacity : Len(c[f]) < Capacity[f]

LEMMA TextFields ==
  /\ DOMAIN Capacity \subseteq Fields
  /\ \A f \in DOMAIN Capacity :
       Capacity[f] \in Nat \ {0} /\ f \notin DOMAIN Octets /\ f \notin Switches /\ f # "log"
  /\ "bind_ip" \in DOMAIN Capacity /\ Capacity["bind_ip"] = 20
BY DEF Capacity, Octets, Switches, Fields

LEMMA ZeroFits == DOMAIN Zero = Fields /\ Fits(Zero)
<1>1. Len(<<>>) = 0
      OBVIOUS
<1>2. ASSUME NEW f \in DOMAIN Capacity PROVE Zero[f] = <<>>
  <2>1. f \in Fields /\ f \notin Switches
        BY TextFields
  <2> QED BY <2>1 DEF Zero
<1>3. DOMAIN Zero = Fields
      BY DEF Zero
<1> QED BY <1>1, <1>2, <1>3, TextFields DEF Fits

(* The start of a text that is too long fills its field.                   *)
LEMMA CutFits ==
  ASSUME NEW text, NEW Names, text \in Seq(Names), NEW n \in Nat \ {0}, Len(text) >= n
  PROVE  Len(SubSeq(text, 1, n - 1)) < n
OBVIOUS

LEMMA Unquoted ==
  ASSUME NEW text \in Seq(STRING)
  PROVE  StripMatchingQuotes(text) \in Seq(STRING)
<1>1. Len(text) >= 2 => Inside(text) \in Seq(STRING)
      BY DEF Inside
<1> QED BY <1>1 DEF StripMatchingQuotes, Quoted

(* A line fills no field over its room, understood or not.                 *)
LEMMA LineFits ==
  ASSUME NEW c, DOMAIN c = Fields, Fits(c), NEW line \in Lines
  PROVE  /\ DOMAIN After(c, line) = Fields /\ DOMAIN AfterError(c, line) = Fields
         /\ \A m : Understood(m, line) => Fits(After(c, line))
         /\ Fits(AfterError(c, line))
<1>1. StripMatchingQuotes(line.text) \in Seq(STRING)
      BY LinesAssumption, Unquoted
<1>2. ASSUME NEW m, Understood(m, line), NEW f \in DOMAIN Capacity
      PROVE  Len(After(c, line)[f]) < Capacity[f]
  <2>1. After(c, line)[f] = IF Sets(line, f) THEN Stored(line) ELSE c[f]
        BY TextFields DEF After
  <2>2. CASE Sets(line, f)
    <3>1. line.key = f /\ ~TooLong(line)
          BY <1>2, <2>2 DEF Sets, Understood, Converts
    <3>2. Len(StripMatchingQuotes(line.text)) < Capacity[f]
          BY <1>1, <3>1, TextFields DEF TooLong
    <3>3. Stored(line) = StripMatchingQuotes(line.text)
          BY <3>1, TextFields DEF Stored
    <3> QED BY <2>1, <2>2, <3>2, <3>3
  <2> QED BY <2>1, <2>2 DEF Fits
<1>3. ASSUME NEW f \in DOMAIN Capacity
      PROVE  Len(AfterError(c, line)[f]) < Capacity[f]
  <2>1. AfterError(c, line)[f] =
          IF Sets(line, f) /\ TooLong(line) THEN SubSeq(Stored(line), 1, Capacity[f] - 1)
          ELSE c[f]
        BY TextFields DEF AfterError
  <2>2. CASE Sets(line, f) /\ TooLong(line)
    <3>1. Stored(line) = StripMatchingQuotes(line.text)
          BY <2>2, TextFields DEF Sets, Stored
    <3>2. Len(Stored(line)) >= Capacity[f]
          BY <2>2, <3>1 DEF TooLong, Sets
    <3>3. Len(SubSeq(Stored(line), 1, Capacity[f] - 1)) < Capacity[f]
          BY <1>1, <3>1, <3>2, TextFields, CutFits
    <3> QED BY <2>1, <2>2, <3>3
  <2> QED BY <2>1, <2>2 DEF Fits
<1>4. DOMAIN After(c, line) = Fields /\ DOMAIN AfterError(c, line) = Fields
      BY DEF After, AfterError
<1> QED BY <1>2, <1>3, <1>4 DEF Fits

(* What an option puts into bind_ip has room there.                        *)
LEMMA AddressFits ==
  ASSUME NEW c, DOMAIN c = Fields, Fits(c), NEW a, Len(a) < 20
  PROVE  /\ DOMAIN [c EXCEPT !["bind_ip"] = a] = Fields
         /\ Fits([c EXCEPT !["bind_ip"] = a])
BY TextFields DEF Fits

(* A place is a sequence of names, and so is the path realpath makes of it.*)
LEMMA PathTypes ==
  ASSUME NEW path \in Seq(STRING), path # <<>>, cwd \in {Home, Tmp}
  PROVE  Place(path, cwd) \in Seq(STRING) /\ DuplicatePathValue(path) \in Seq(STRING)
<1>1. /\ Home \in Seq(STRING) /\ Tmp \in Seq(STRING)
      /\ <<"/">> \in Seq(STRING)
      BY BootAssumption
<1>2. Place(path, cwd) \in Seq(STRING)
      BY <1>1, PlaceIsPath
<1>3. <<"/">> \o Place(path, cwd) \in Seq(STRING)
      BY <1>1, <1>2
<1> QED BY <1>2, <1>3 DEF DuplicatePathValue

LEMMA TypesInitially == Init => TypeOK
<1>1. IfsMax \in Nat /\ 0 \in 0 .. IfsMax
      BY BootAssumption
<1>2. <<>> \in Seq(STRING) /\ <<>> \in Seq(Lines)
      OBVIOUS
<1> QED BY <1>1, <1>2, ZeroFits DEF Init, TypeOK, Fits, Steps

LEMMA OptionTypes ==
  ASSUME TypeOK, Option
  PROVE  TypeOK'
<1>1. /\ pc' \in Steps \cup Ended
      /\ UNCHANGED <<files, cwd, opened, given, lines, list, tried, granted>>
      BY DEF Option, OptMode, OptFlag, Usage, OptConf, OptLog, OptBind, paths, eap,
             Steps, Ended
<1>2. mode' \in Modes \cup {""} /\ flags' \subseteq {"d", "x"}
      BY DEF Option, OptMode, OptFlag, Usage, OptConf, OptLog, OptBind, options, TypeOK
<1>3. file_path' \in Seq(STRING)
  <2>1. CASE \E p \in Paths : OptConf(p)
    <3>1. PICK p \in Paths : OptConf(p)
          BY <2>1
    <3>2. p \in Seq(STRING)
          BY BootAssumption
    <3> QED BY <3>1, <3>2, PathTypes DEF OptConf, TypeOK
  <2> QED BY <2>1
          DEF Option, OptMode, OptFlag, Usage, OptLog, OptBind, options, TypeOK
<1>4. DOMAIN config' = Fields /\ Fits(config')
  <2>1. DOMAIN config = Fields /\ Fits(config)
        BY DEF TypeOK, Fits
  <2>2. CASE \E a \in Addresses : OptBind(a)
    <3>1. PICK a \in Addresses : OptBind(a)
          BY <2>2
    <3>2. a \in Seq(STRING)
          BY BootAssumption
    <3>3. CASE Len(a) < 20
          BY <2>1, <3>1, <3>3, TextFields, AddressFits DEF OptBind
    <3>4. CASE ~(Len(a) < 20)
      <4>1. Len(SubSeq(a, 1, 19)) < 20 /\ 20 - 1 = 19
            BY <3>2, <3>4
      <4>2. config' = [config EXCEPT !["bind_ip"] = SubSeq(a, 1, 19)]
            BY <3>1, <3>4, <4>1, TextFields DEF OptBind
      <4> QED BY <2>1, <4>1, <4>2, AddressFits
    <3> QED BY <3>3, <3>4
  <2>3. CASE \E f \in {"log", "eternal"} : \E v : config' = [config EXCEPT ![f] = v]
        BY <2>1, <2>3, TextFields DEF Fits, Switches
  <2>4. CASE config' = config
        BY <2>1, <2>4
  <2> QED BY <2>2, <2>3, <2>4
          DEF Option, OptMode, OptFlag, Usage, OptConf, OptLog, options
<1> QED BY <1>1, <1>2, <1>3, <1>4 DEF TypeOK, Fits

LEMMA ReadTypes ==
  ASSUME IInv, TypeOK, OpenConfig \/ ReadLine \/ EndOfFile \/ TryEapLogin
  PROVE  DOMAIN config' = Fields /\ Fits(config')
<1>1. DOMAIN config = Fields /\ Fits(config)
      BY DEF TypeOK, Fits
<1>2. DOMAIN WithDefaultIp = Fields /\ Fits(WithDefaultIp)
  <2>1. Len(DefaultIp) < 20
        BY DEF DefaultIp
  <2>2. PICK a : Len(a) < 20 /\ WithDefaultIp = [config EXCEPT !["bind_ip"] = a]
    <3>1. Len(config["bind_ip"]) < 20
          BY <1>1, TextFields DEF Fits
    <3>2. CASE config["bind_ip"] = <<>>
      <4>1. WithDefaultIp = [config EXCEPT !["bind_ip"] = DefaultIp]
            BY <3>2 DEF WithDefaultIp
      <4> QED BY <2>1, <4>1
    <3>3. CASE config["bind_ip"] # <<>>
      <4>1. WithDefaultIp = [config EXCEPT !["bind_ip"] = config["bind_ip"]]
            BY <3>3 DEF WithDefaultIp
      <4> QED BY <3>1, <4>1
    <3> QED BY <3>2, <3>3
  <2> QED BY <1>1, <2>1, <2>2, AddressFits
<1>3. DOMAIN Cleared(config) = Fields /\ Fits(Cleared(config))
  <2>1. ASSUME NEW f \in DOMAIN Capacity PROVE Len(Cleared(config)[f]) < Capacity[f]
        BY <1>1, ZeroFits, TextFields DEF Cleared, Fits
  <2> QED BY <2>1 DEF Cleared, Fits
<1>4. CASE ReadLine
  <2>1. PICK line \in Lines :
          \/ Understood(mode, line) /\ config' = After(config, line)
          \/ config' = AfterError(config, line)
        BY <1>4 DEF ReadLine
  <2>2. Understood(mode, line) => Fits(After(config, line))
        BY <1>1, LineFits
  <2> QED BY <1>1, <2>1, <2>2, LineFits
<1>5. CASE OpenConfig
      BY <1>1, <1>3, <1>5 DEF OpenConfig
<1>6. CASE EndOfFile \/ TryEapLogin
      BY <1>1, <1>2, <1>6 DEF EndOfFile, TryEapLogin
<1> QED BY <1>4, <1>5, <1>6

LEMMA TypesStep ==
  ASSUME IInv, TypeOK, [Next]_vars
  PROVE  TypeOK'
<1>1. CASE Option
      BY <1>1, OptionTypes
<1>2. CASE OptionsDone
      BY <1>2 DEF OptionsDone, TypeOK, options, paths, eap, Steps
<1>3. CASE Daemonise
      BY <1>3 DEF Daemonise, TypeOK, options, eap, Steps, Ended
<1>4. CASE OpenConfig
  <2>1. Place(file_path, cwd) \in Seq(STRING)
        BY <1>4, PathTypes DEF OpenConfig, IInv, Resolved, TypeOK
  <2>2. opened' \in Seq(STRING) /\ pc' \in Steps \cup Ended
        BY <1>4, <2>1 DEF OpenConfig, TypeOK, Steps, Ended
  <2> QED BY <1>4, <2>2, ReadTypes DEF OpenConfig, TypeOK, Fits, options, eap
<1>5. CASE ReadLine
  <2>1. lines \in Seq(Lines)
        BY DEF TypeOK
  <2>2. lines' \in Seq(Lines) /\ pc' \in Steps \cup Ended
    <3>1. PICK line \in Lines : lines' = Append(lines, line)
          BY <1>5 DEF ReadLine
    <3>2. pc' \in {"read", "rejected"}
          BY <1>5 DEF ReadLine
    <3> QED BY <2>1, <3>1, <3>2 DEF Steps, Ended
  <2> QED BY <1>5, <2>2, ReadTypes DEF ReadLine, TypeOK, Fits, options, paths, eap
<1>6. CASE EndOfFile
  <2>1. pc' \in Steps
        BY <1>6 DEF EndOfFile, Steps
  <2> QED BY <1>6, <2>1, ReadTypes DEF EndOfFile, TypeOK, Fits, options, paths, eap
<1>7. CASE ListInterfaces
      BY <1>7 DEF ListInterfaces, TypeOK, options, paths, Steps, Ended
<1>8. CASE TryEapLogin
  <2>1. /\ tried < list /\ tried' = tried + 1 /\ granted' \in BOOLEAN
        /\ pc' \in Steps \cup Ended /\ IfsMax \in Nat
        BY <1>8, BootAssumption DEF TryEapLogin, IInv, Turns, Steps, Ended
  <2>2. tried \in 0 .. IfsMax /\ list \in 0 .. IfsMax
        BY DEF TypeOK
  <2>3. tried' \in 0 .. IfsMax
        BY <2>1, <2>2
  <2> QED BY <1>8, <2>1, <2>3, ReadTypes DEF TryEapLogin, TypeOK, Fits, options, paths
<1>9. CASE DogcomReturns
      BY <1>9 DEF DogcomReturns, TypeOK, options, paths, eap, Ended
<1>10. CASE UNCHANGED vars
      BY <1>10 DEF vars, options, paths, eap, TypeOK
<1> QED BY <1>1, <1>2, <1>3, <1>4, <1>5, <1>6, <1>7, <1>8, <1>9, <1>10 DEF Next, Done

(* Every text in the configuration ends with a NUL inside its field, read  *)
(* or refused, from an option or the file (configparse.c:103-116,          *)
(* main.c:28-44, 146, 210).                                                *)
THEOREM TypeCorrect == Spec => []TypeOK
<1>1. Init => IInv /\ TypeOK
      BY Initially, TypesInitially
<1>2. IInv /\ TypeOK /\ [Next]_vars => (IInv /\ TypeOK)'
      BY Inductive, TypesStep
<1> QED BY <1>1, <1>2, PTL DEF Spec

----------------------------------------------------------------------------

(* The program logs in with every line of its file understood, and each    *)
(* field what the last line for it says (configparse.c:240-280).           *)
THEOREM AllSettingsInForce == Spec => []SettingsInForce
<1>1. IInv => SettingsInForce
      BY DEF IInv, InForce
<1> QED BY <1>1, Always, PTL

(* The daemon's chdir moves neither the configuration nor the log of -l,   *)
(* where they were there at the start (main.c:53-65, daemon.c:75).         *)
THEOREM PathsStay == Spec => []PathsOutliveChdir
<1>1. IInv => PathsOutliveChdir
  <2> SUFFICES ASSUME IInv PROVE PathsOutliveChdir
      OBVIOUS
  <2> USE DEF IInv
  <2>1. opened # <<>> /\ Place(file_path, Home) \in files =>
          opened = Place(file_path, Home)
        BY SamePlace DEF Resolved
  <2>2. ASSUME pc = "dogcom", given["log"] # <<>>, SaidIn("log") = {},
               Place(given["log"], Home) \in files
        PROVE  Place(config["log"], cwd) = Place(given["log"], Home)
    <3>1. LastWord("log", config["log"])
          BY <2>2, KnownFields DEF InForce, SettingsInForce, Configured
    <3>2. config["log"] = given["log"]
          BY <2>2, <3>1 DEF LastWord, Globals
    <3>3. AbsoluteOrLost(given["log"])
          BY <2>2 DEF Resolved
    <3> QED BY <2>2, <3>2, <3>3, SamePlace
  <2> QED BY <2>1, <2>2 DEF PathsOutliveChdir
<1> QED BY <1>1, Always, PTL

(* With -x nothing is sent over udp before an interface is authorized, and *)
(* none is left out (main.c:201-208, 245-258).                             *)
THEOREM AuthorizedBefore == Spec => []AuthorizedFirst
<1>1. IInv => AuthorizedFirst
      BY DEF IInv, Turns
<1> QED BY <1>1, Always, PTL

----------------------------------------------------------------------------
(* The page beside the program.                                            *)

(* On a value in at most one sort of quotes the two ways of taking them    *)
(* off agree.                                                              *)
LEMMA SameUnquoting ==
  ASSUME NEW text, ~QuotedTwice(text)
  PROVE  NormalizeConfValue(text) = StripMatchingQuotes(text)
BY DEF QuotedTwice, NormalizeConfValue, StripMatchingQuotes, Quoted

(* The last line for a field is one only, so what the page takes from it   *)
(* is what the program stored of it.                                       *)
LEMMA PageReadsLastWord ==
  ASSUME lines \in Seq(Lines), NEW field, NEW value, LastWord(field, value),
         \A i \in DOMAIN lines : ~lines[i].joined /\ ~QuotedTwice(lines[i].text)
  PROVE  \/ /\ SaidIn(field) = {}
            /\ ConfKey(lines, field) = <<>>
         \/ \E i \in SaidIn(field) :
              /\ value = Stored(lines[i])
              /\ ConfKey(lines, field) = StripMatchingQuotes(lines[i].text)
<1> DEFINE with == {i \in DOMAIN lines : Sets(lines[i], field) /\ ~lines[i].joined}
<1>1. with = SaidIn(field) /\ with \subseteq Nat
      BY DEF SaidIn
<1>2. CASE SaidIn(field) = {}
      BY <1>1, <1>2 DEF ConfKey
<1>3. CASE SaidIn(field) # {}
  <2>1. PICK i \in SaidIn(field) : value = Stored(lines[i]) /\ \A j \in SaidIn(field) : j <= i
        BY <1>3 DEF LastWord
  <2> DEFINE last == CHOOSE k \in with : \A j \in with : j <= k
  <2>2. last \in with /\ \A j \in with : j <= last
        BY <1>1, <2>1
  <2>3. last = i
        BY <1>1, <2>1, <2>2
  <2>4. ConfKey(lines, field) = NormalizeConfValue(lines[last].text)
        BY <1>1, <1>3 DEF ConfKey
  <2>5. i \in DOMAIN lines
        BY DEF SaidIn
  <2> QED BY <2>1, <2>3, <2>4, <2>5, SameUnquoting
<1> QED BY <1>2, <1>3

(* The page shows of the file of a running client what the client uses,    *)
(* values in two sorts of quotes and lines longer than the buffer apart    *)
(* (configparse.c:77-105, drcom.lua:95-131).                               *)
THEOREM PageShowsSettings == Spec => []LuciShowsWhatRuns
<1>1. IInv => LuciShowsWhatRuns
  <2> SUFFICES ASSUME IInv, pc = "dogcom",
                      \A i \in DOMAIN lines : ~lines[i].joined /\ ~QuotedTwice(lines[i].text)
               PROVE  /\ \A k \in {"server", "host_ip", "username"} : ConfKey(lines, k) = config[k]
                      /\ \/ CollectHexDigits(ConfKey(lines, "mac")) = config["mac"]
                         \/ ConfKey(lines, "mac") = <<>> /\ config["mac"] = <<>>
      BY DEF LuciShowsWhatRuns
  <2>1. lines \in Seq(Lines)
        BY DEF IInv, Shape
  <2>2. \A f \in Fields : f # "bind_ip" => LastWord(f, config[f])
        BY DEF IInv, InForce, SettingsInForce, Configured
  <2>3. ASSUME NEW f \in Fields \ (Globals \cup Switches), SaidIn(f) = {}, LastWord(f, config[f])
        PROVE  config[f] = <<>>
        BY <2>3 DEF LastWord, Zero
  <2>4. ASSUME NEW k \in {"server", "host_ip", "username"}
        PROVE  ConfKey(lines, k) = config[k]
    <3>1. /\ k \in Fields \ (Globals \cup Switches) /\ k \notin DOMAIN Octets
          /\ k # "bind_ip"
          BY <2>4 DEF Fields, Capacity, Octets, Switches, Globals
    <3>2. \A i \in SaidIn(k) : Stored(lines[i]) = StripMatchingQuotes(lines[i].text)
          BY <3>1 DEF SaidIn, Sets, Stored
    <3>3. LastWord(k, config[k])
          BY <2>2, <3>1
    <3> QED BY <2>1, <2>3, <3>1, <3>2, <3>3, PageReadsLastWord
  <2>5. \/ CollectHexDigits(ConfKey(lines, "mac")) = config["mac"]
        \/ ConfKey(lines, "mac") = <<>> /\ config["mac"] = <<>>
    <3>1. "mac" \in Fields \ (Globals \cup Switches) /\ "mac" \in DOMAIN Octets
          BY DEF Fields, Octets, Switches, Globals
    <3>2. \A i \in SaidIn("mac") :
            Stored(lines[i]) = CollectHexDigits(StripMatchingQuotes(lines[i].text))
          BY <3>1 DEF SaidIn, Sets, Stored
    <3>3. LastWord("mac", config["mac"])
          BY <2>2, <3>1
    <3> QED BY <2>1, <2>3, <3>1, <3>2, <3>3, PageReadsLastWord
  <2> QED BY <2>4, <2>5
<1> QED BY <1>1, Always, PTL
=============================================================================
