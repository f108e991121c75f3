--------------------------- MODULE EapDaemon_proofs ---------------------------
(***************************************************************************)
(* One heartbeat process, named by the file, for every number of logins    *)
(* and every pid they get; and a session it keeps up.                      *)
(*                                                                         *)
(* The last part is about EapLogin, the login before: what eaplogin        *)
(* returns is what the authenticator decided.                              *)
(***************************************************************************)
EXTENDS EapDaemon, EapLogin, SequenceTheorems, TLAPS

FilesOK ==
  /\ proc \in [Pids -> Starting \cup {"none", "running", "dead", "stranger"}]
  /\ pid_file \in Seq(0 .. 9) /\ exists \in BOOLEAN
  /\ overlapped \in BOOLEAN /\ crashed \in BOOLEAN /\ struck \in BOOLEAN

ClocksOK ==
  /\ since \in [Pids -> 0 .. Guard + 1]
  /\ authorized \in BOOLEAN
  /\ timer \in 0 .. Due
  /\ asks \in 0 .. MaxAsk /\ lost \in 0 .. MaxLost

Looking   == {"open", "create", "scan"}
Replacing == {"truncate", "write"}

(* The heartbeat that runs is the only one and the file names it, but      *)
(* while it is being replaced there is none.                               *)
InTurn == ~overlapped =>
  /\ \A p, q \in InStart : p = q
  /\ \A p \in Running : Running = {p} /\ pid_file = Digits[p]
  /\ \A p \in Pids : proc[p] \in Replacing => Running = {}
  /\ \A p \in Pids : proc[p] = "create" => ~exists
  /\ \A p \in Pids : proc[p] = "write" => pid_file = <<>>

NothingBefore == ~exists =>
  pid_file = <<>> /\ \A p \in Pids : proc[p] \notin {"scan", "truncate", "write"}

(* Whoever the file names is a heartbeat, until the next login has killed  *)
(* it.                                                                     *)
NamesHeartbeat == ~overlapped /\ ~crashed =>
  \/ pid_file = <<>>
  \/ \E q \in Running : pid_file = Digits[q]
  \/ \E p \in Pids : proc[p] = "truncate"

IInv == FilesOK /\ ClocksOK /\ InTurn /\ NothingBefore /\ NamesHeartbeat /\ StrangersSpared

----------------------------------------------------------------------------

LEMMA Pid ==
  /\ \A p \in Pids : Digits[p] \in Seq(0 .. 9) /\ Digits[p] # <<>>
  /\ \A p, q \in Pids : Digits[p] = Digits[q] => p = q
BY DaemonAssumption

LEMMA Bounds ==
  /\ Guard \in Nat /\ Period \in Nat /\ Repeat \in Nat /\ MaxAsk \in Nat /\ MaxLost \in Nat
  /\ 0 \in 0 .. Guard + 1 /\ 0 \in 0 .. MaxAsk /\ 0 \in 0 .. MaxLost
BY DaemonAssumption

(* A pid written over the start of the file; over an empty file it is all. *)
LEMMA WrittenOver ==
  ASSUME NEW d \in Seq(0 .. 9), NEW s \in Seq(0 .. 9)
  PROVE  /\ d \o SubSeq(s, Len(d) + 1, Len(s)) \in Seq(0 .. 9)
         /\ s = <<>> => d \o SubSeq(s, Len(d) + 1, Len(s)) = d
<1>1. Len(d) \in Nat /\ Len(s) \in Nat
      OBVIOUS
<1>2. SubSeq(s, Len(d) + 1, Len(s)) \in Seq(0 .. 9)
      BY <1>1
<1>3. ASSUME s = <<>>
      PROVE  SubSeq(s, Len(d) + 1, Len(s)) = <<>>
      BY <1>1, <1>3
<1>4. d \o <<>> = d
      OBVIOUS
<1> QED BY <1>2, <1>3, <1>4

LEMMA Initially == Init => IInv
<1> SUFFICES ASSUME Init PROVE IInv
    OBVIOUS
<1>1. <<>> \in Seq(0 .. 9)
      OBVIOUS
<1>2. FilesOK
      BY <1>1 DEF Init, FilesOK
<1>3. ClocksOK
  <2>1. 0 \in 0 .. Guard + 1 /\ 0 \in 0 .. Period /\ 0 \in 0 .. MaxAsk /\ 0 \in 0 .. MaxLost
        BY Bounds
  <2> QED BY <2>1 DEF Init, ClocksOK, Due
<1>4. \A p \in Pids : proc[p] = "none"
      BY DEF Init
<1>5. InTurn
      BY <1>4 DEF InTurn, InStart, Running, Starting, Replacing
<1> QED BY <1>2, <1>3, <1>5 DEF Init, IInv, NothingBefore, NamesHeartbeat, StrangersSpared

(* A process that starts goes its way, and nobody else moves.              *)
LEMMA LoginStep ==
  ASSUME IInv, NEW p \in Pids, Login(p)
  PROVE  IInv'
<1> USE DEF IInv
<1>1. /\ proc[p] = "none" /\ proc' = [proc EXCEPT ![p] = "open"]
      /\ overlapped' = (overlapped \/ InStart # {})
      /\ UNCHANGED <<since, pid_file, exists, crashed, struck>>
      BY DEF Login, Goes, file
<1>2. authorized' = TRUE /\ timer' \in 0 .. Period /\ asks' = 0 /\ lost' = 0
      BY DEF Login
<1>3. overlapped' \in BOOLEAN
      BY <1>1 DEF FilesOK
<1>4. FilesOK'
      BY <1>1, <1>3 DEF FilesOK, Starting
<1>5. ClocksOK'
  <2>1. Due' = Period
        BY <1>2 DEF Due
  <2> QED BY <1>1, <1>2, <2>1, Bounds DEF ClocksOK
<1>6. /\ proc'[p] = "open" /\ \A q \in Pids : q # p => proc'[q] = proc[q]
      BY <1>1 DEF FilesOK
<1>7. Running' = Running
      BY <1>1, <1>6 DEF Running
<1>8. InTurn'
  <2> SUFFICES ASSUME ~overlapped' PROVE InTurn'
      BY DEF InTurn
  <2>1. ~overlapped /\ InStart = {}
        BY <1>1, <1>3 DEF FilesOK
  <2>2. \A q \in Pids : proc'[q] \in Starting => q = p
        BY <1>6, <2>1 DEF InStart
  <2>3. \A q \in Pids : proc'[q] \notin {"create", "truncate", "write"}
        BY <1>6, <2>2 DEF Starting
  <2>4. \A q \in Running' : Running' = {q} /\ pid_file' = Digits[q]
        BY <1>1, <1>7, <2>1 DEF InTurn
  <2> QED BY <2>2, <2>3, <2>4 DEF InTurn, InStart, Replacing
<1>9. NamesHeartbeat' /\ NothingBefore' /\ StrangersSpared'
  <2>1. overlapped => overlapped'
        BY <1>1
  <2>2. \A q \in Pids : proc[q] = "truncate" => proc'[q] = "truncate"
        BY <1>1, <1>6
  <2>3. NothingBefore'
        BY <1>1, <1>6 DEF NothingBefore
  <2> QED BY <1>1, <1>7, <2>1, <2>2, <2>3 DEF NamesHeartbeat, StrangersSpared
<1> QED BY <1>4, <1>5, <1>8, <1>9

(* The other steps of eap_daemon leave the clocks alone.                   *)
LEMMA OpenFileStep ==
  ASSUME IInv, NEW p \in Pids, OpenFile(p)
  PROVE  IInv'
<1> USE DEF IInv
<1>1. /\ proc[p] = "open" /\ proc' = [proc EXCEPT ![p] = IF exists THEN "scan" ELSE "create"]
      /\ UNCHANGED <<pid_file, exists, overlapped, crashed, struck>>
      /\ UNCHANGED <<since, authorized, timer, asks, lost>>
      BY DEF OpenFile, Goes, file, server, ghosts
<1>2. /\ proc'[p] = IF exists THEN "scan" ELSE "create"
      /\ \A q \in Pids : q # p => proc'[q] = proc[q]
      BY <1>1 DEF FilesOK
<1>3. FilesOK' /\ ClocksOK'
      BY <1>1 DEF FilesOK, ClocksOK, Due, Starting
<1>4. InStart' = InStart /\ Running' = Running
      BY <1>1, <1>2 DEF InStart, Running, Starting
<1>5. \A q \in Pids : /\ proc'[q] \in Replacing => proc[q] \in Replacing
                      /\ proc'[q] = "write" => proc[q] = "write"
                      /\ proc'[q] = "create" => proc[q] = "create" \/ ~exists
                      /\ proc[q] = "truncate" => proc'[q] = "truncate"
      BY <1>1, <1>2 DEF Replacing
<1>6. InTurn'
      BY <1>1, <1>4, <1>5 DEF InTurn
<1>7. NothingBefore' /\ NamesHeartbeat' /\ StrangersSpared'
  <2>1. NothingBefore'
        BY <1>1, <1>2 DEF NothingBefore
  <2> QED BY <1>1, <1>4, <1>5, <2>1 DEF NamesHeartbeat, StrangersSpared
<1> QED BY <1>3, <1>6, <1>7

LEMMA CreateFileStep ==
  ASSUME IInv, NEW p \in Pids, CreateFile(p)
  PROVE  IInv'
<1> USE DEF IInv
<1>1. /\ proc[p] = "create" /\ proc' = [proc EXCEPT ![p] = "scan"]
      /\ exists' = TRUE /\ pid_file' = <<>>
      /\ UNCHANGED <<overlapped, crashed, struck>>
      /\ UNCHANGED <<since, authorized, timer, asks, lost>>
      BY DEF CreateFile, Goes, server, ghosts
<1>2. proc'[p] = "scan" /\ \A q \in Pids : q # p => proc'[q] = proc[q]
      BY <1>1 DEF FilesOK
<1>3. <<>> \in Seq(0 .. 9)
      OBVIOUS
<1>4. FilesOK' /\ ClocksOK'
      BY <1>1, <1>3 DEF FilesOK, ClocksOK, Due, Starting
<1>5. InStart' = InStart /\ Running' = Running
      BY <1>1, <1>2 DEF InStart, Running, Starting
<1>6. InTurn'
  <2> SUFFICES ASSUME ~overlapped PROVE InTurn'
      BY <1>1 DEF InTurn
  <2>1. p \in InStart
        BY <1>1 DEF InStart, Starting
  <2>2. \A q \in Pids : proc'[q] \notin {"create", "truncate", "write"}
        BY <1>2, <1>5, <2>1 DEF InTurn, InStart, Starting
  <2>3. pid_file = <<>>
        BY <1>1 DEF InTurn, NothingBefore
  <2>4. Running = {}
        BY <2>3, Pid DEF InTurn, Running
  <2> QED BY <1>5, <2>2, <2>4 DEF InTurn, Replacing
<1>7. NothingBefore' /\ NamesHeartbeat' /\ StrangersSpared'
      BY <1>1 DEF NothingBefore, NamesHeartbeat, StrangersSpared
<1> QED BY <1>4, <1>6, <1>7

(* Whoever it kills ends as dead, and it kills whom the file names.        *)
LEMMA KillOldStep ==
  ASSUME IInv, NEW p \in Pids, KillOld(p)
  PROVE  IInv'
<1> USE DEF IInv
<1>1. /\ proc[p] = "scan"
      /\ proc' = [q \in Pids |->
                    IF q = p THEN "truncate"
                    ELSE IF Named(q) /\ proc[q] # "none" THEN "dead" ELSE proc[q]]
      /\ UNCHANGED <<pid_file, exists, overlapped, crashed>>
      /\ UNCHANGED <<since, authorized, timer, asks, lost>>
      BY DEF KillOld, file, server
<1>2. struck' = \/ struck
                \/ \E q \in Pids : Named(q) /\ proc[q] = "stranger"
                \/ pid_file # <<>> /\ \A q \in Pids : ~Named(q)
      BY DEF KillOld
<1>3. /\ proc'[p] = "truncate"
      /\ \A q \in Pids : q # p => proc'[q] \in {proc[q], "dead"}
      /\ \A q \in Pids : q # p /\ Named(q) => proc'[q] # "running"
      BY <1>1
<1>4. struck' \in BOOLEAN
      BY <1>2
<1>5. proc' \in [Pids -> Starting \cup {"none", "running", "dead", "stranger"}]
      BY <1>1 DEF FilesOK, Starting
<1>6. FilesOK' /\ ClocksOK'
      BY <1>1, <1>4, <1>5 DEF FilesOK, ClocksOK, Due
<1>7. InTurn'
  <2> SUFFICES ASSUME ~overlapped PROVE InTurn'
      BY <1>1 DEF InTurn
  <2>1. p \in InStart
        BY <1>1 DEF InStart, Starting
  <2>2. \A q \in Pids : q # p => proc[q] \notin Starting
        BY <2>1 DEF InTurn, InStart
  <2>3. \A q \in Pids : q # p => proc'[q] \notin Starting
        BY <1>3, <2>2 DEF Starting
  <2>4. Running' = {}
    <3>1. \A q \in Pids : proc'[q] = "running" => proc[q] = "running" /\ ~Named(q)
          BY <1>3
    <3>2. \A q \in Pids : proc[q] = "running" => Named(q)
          BY DEF InTurn, Running, Named
    <3> QED BY <3>1, <3>2 DEF Running
  <2> QED BY <1>3, <2>3, <2>4 DEF InTurn, InStart, Starting
<1>8. NothingBefore' /\ NamesHeartbeat'
  <2>1. exists
        BY <1>1 DEF NothingBefore
  <2> QED BY <1>1, <1>3, <2>1 DEF NothingBefore, NamesHeartbeat
<1>9. StrangersSpared'
  <2> SUFFICES ASSUME ~overlapped, ~crashed PROVE ~struck'
      BY <1>1 DEF StrangersSpared
  <2>1. ~struck
        BY DEF StrangersSpared
  <2>2. \A q \in Pids : proc[q] # "truncate"
        BY <1>1 DEF InTurn, InStart, Starting
  <2>3. pid_file = <<>> \/ \E q \in Running : pid_file = Digits[q]
        BY <2>2 DEF NamesHeartbeat
  <2>4. \A q \in Pids : Named(q) => proc[q] = "running"
        BY <2>3, Pid DEF Named, Running
  <2>5. pid_file # <<>> => \E q \in Pids : Named(q)
        BY <2>3 DEF Named, Running
  <2> QED BY <1>2, <2>1, <2>4, <2>5
<1> QED BY <1>6, <1>7, <1>8, <1>9

LEMMA TruncateFileStep ==
  ASSUME IInv, NEW p \in Pids, TruncateFile(p)
  PROVE  IInv'
<1> USE DEF IInv
<1>1. /\ proc[p] = "truncate" /\ proc' = [proc EXCEPT ![p] = "write"] /\ pid_file' = <<>>
      /\ UNCHANGED <<exists, overlapped, crashed, struck>>
      /\ UNCHANGED <<since, authorized, timer, asks, lost>>
      BY DEF TruncateFile, Goes, server, ghosts
<1>2. proc'[p] = "write" /\ \A q \in Pids : q # p => proc'[q] = proc[q]
      BY <1>1 DEF FilesOK
<1>3. <<>> \in Seq(0 .. 9)
      OBVIOUS
<1>4. FilesOK' /\ ClocksOK'
      BY <1>1, <1>3 DEF FilesOK, ClocksOK, Due, Starting
<1>5. InStart' = InStart /\ Running' = Running
      BY <1>1, <1>2 DEF InStart, Running, Starting
<1>6. InTurn'
  <2> SUFFICES ASSUME ~overlapped PROVE InTurn'
      BY <1>1 DEF InTurn
  <2>1. Running = {}
        BY <1>1 DEF InTurn, Replacing
  <2>2. \A q \in Pids : proc'[q] # "create"
        BY <1>1, <1>2 DEF InTurn, InStart, Starting
  <2> QED BY <1>1, <1>5, <2>1, <2>2 DEF InTurn
<1>7. NothingBefore' /\ NamesHeartbeat' /\ StrangersSpared'
  <2>1. exists
        BY <1>1 DEF NothingBefore
  <2> QED BY <1>1, <2>1 DEF NothingBefore, NamesHeartbeat, StrangersSpared
<1> QED BY <1>4, <1>6, <1>7

LEMMA WritePidStep ==
  ASSUME IInv, NEW p \in Pids, WritePid(p)
  PROVE  IInv'
<1> USE DEF IInv
<1>1. /\ proc[p] = "write" /\ proc' = [proc EXCEPT ![p] = "running"]
      /\ pid_file' = Digits[p] \o SubSeq(pid_file, Len(Digits[p]) + 1, Len(pid_file))
      /\ since' = [since EXCEPT ![p] = 0]
      /\ UNCHANGED <<exists, overlapped, crashed, struck>>
      /\ UNCHANGED <<authorized, timer, asks, lost>>
      BY DEF WritePid, Goes, server, ghosts
<1>2. proc'[p] = "running" /\ \A q \in Pids : q # p => proc'[q] = proc[q]
      BY <1>1 DEF FilesOK
<1>3. /\ pid_file' \in Seq(0 .. 9)
      /\ pid_file = <<>> => pid_file' = Digits[p]
      BY <1>1, Pid, WrittenOver DEF FilesOK
<1>4. FilesOK'
      BY <1>1, <1>3 DEF FilesOK
<1>5. ClocksOK'
      BY <1>1, Bounds DEF ClocksOK, Due
<1>6. ASSUME ~overlapped
      PROVE  /\ Running' = {p} /\ pid_file' = Digits[p] /\ exists
             /\ \A q \in Pids : proc'[q] \notin Starting
  <2>1. Running = {} /\ pid_file = <<>> /\ exists
        BY <1>1, <1>6 DEF InTurn, Replacing, NothingBefore
  <2>2. Running' = {p}
        BY <1>2, <2>1 DEF Running
  <2>3. \A q \in Pids : proc'[q] \notin Starting
        BY <1>1, <1>2, <1>6 DEF InTurn, InStart, Starting
  <2> QED BY <1>3, <2>1, <2>2, <2>3
<1>7. InTurn'
      BY <1>1, <1>6 DEF InTurn, InStart, Starting, Replacing
<1>8. NothingBefore' /\ NamesHeartbeat' /\ StrangersSpared'
  <2>1. NothingBefore'
        BY <1>1 DEF NothingBefore
  <2>2. p \in Running'
        BY <1>2 DEF Running
  <2> QED BY <1>1, <1>6, <2>1, <2>2 DEF NamesHeartbeat, StrangersSpared
<1> QED BY <1>4, <1>5, <1>7, <1>8

(* A heartbeat dies, or a program gets a dead one's pid.                   *)
LEMMA CrashReuseStep ==
  ASSUME IInv, NEW p \in Pids, Crash(p) \/ Reuse(p)
  PROVE  IInv'
<1> USE DEF IInv
<1>1. /\ UNCHANGED <<pid_file, exists, overlapped, struck>>
      /\ UNCHANGED <<since, authorized, timer, asks, lost>>
      BY DEF Crash, Reuse, file, server, ghosts
<1>2. \/ proc[p] = "running" /\ proc' = [proc EXCEPT ![p] = "dead"] /\ crashed' = TRUE
      \/ proc[p] = "dead" /\ proc' = [proc EXCEPT ![p] = "stranger"] /\ crashed' = crashed
      BY DEF Crash, Reuse, Goes, ghosts
<1>3. \A q \in Pids : /\ proc'[q] \in Starting <=> proc[q] \in Starting
                      /\ proc[q] \in Starting => proc'[q] = proc[q]
                      /\ proc'[q] = "running" => proc[q] = "running"
                      /\ proc[q] = "running" /\ crashed' = crashed => proc'[q] = "running" \/ crashed
      BY <1>2 DEF FilesOK, Starting
<1>4. proc' \in [Pids -> Starting \cup {"none", "running", "dead", "stranger"}]
      BY <1>2 DEF FilesOK
<1>5. FilesOK'
      BY <1>1, <1>2, <1>4 DEF FilesOK
<1>6. ClocksOK'
      BY <1>1 DEF ClocksOK, Due
<1>7. InStart' = InStart /\ Running' \subseteq Running
      BY <1>3 DEF InStart, Running
<1>8. InTurn'
  <2> SUFFICES ASSUME ~overlapped PROVE InTurn'
      BY <1>1 DEF InTurn
  <2>1. \A q \in Running' : Running' = {q} /\ pid_file' = Digits[q]
        BY <1>1, <1>7 DEF InTurn
  <2>2. \A q \in Pids : proc'[q] \in Replacing => Running' = {}
        BY <1>3, <1>7 DEF InTurn, Replacing, Starting
  <2>3. \A q \in Pids : proc'[q] \in {"create", "write"} => proc'[q] = proc[q]
        BY <1>3 DEF Starting
  <2> QED BY <1>1, <1>7, <2>1, <2>2, <2>3 DEF InTurn
<1>9. NothingBefore'
      BY <1>1, <1>3 DEF NothingBefore, Starting
<1>10. NamesHeartbeat'
  <2> SUFFICES ASSUME ~overlapped, ~crashed, ~crashed' PROVE NamesHeartbeat'
      BY <1>1, <1>2 DEF NamesHeartbeat, FilesOK
  <2>1. Running' = Running
        BY <1>2, <1>3, <1>7 DEF Running
  <2>2. \A q \in Pids : proc[q] = "truncate" => proc'[q] = "truncate"
        BY <1>3 DEF Starting
  <2> QED BY <1>1, <2>1, <2>2 DEF NamesHeartbeat
<1>11. StrangersSpared'
      BY <1>1, <1>2 DEF StrangersSpared
<1> QED BY <1>5, <1>6, <1>8, <1>9, <1>10, <1>11

(* Time and the authenticator leave processes and file alone.              *)
LEMMA ClockStep ==
  ASSUME IInv, Second \/ ServerAsks \/ ServerEnds
  PROVE  IInv'
<1> USE DEF IInv
<1>1. UNCHANGED <<proc, pid_file, exists, overlapped, crashed, struck>>
      BY DEF Second, ServerAsks, ServerEnds, file, ghosts
<1>2. FilesOK' /\ NothingBefore' /\ StrangersSpared'
      BY <1>1 DEF FilesOK, NothingBefore, StrangersSpared
<1>3. InStart' = InStart /\ Running' = Running
      BY <1>1 DEF InStart, Running
<1>4. InTurn' /\ NamesHeartbeat'
      BY <1>1, <1>3 DEF InTurn, NamesHeartbeat
<1>5. authorized' \in BOOLEAN
      BY DEF Second, ServerAsks, ServerEnds, ClocksOK
<1>6. since' \in [Pids -> 0 .. Guard + 1]
  <2>1. CASE Second
    <3>1. \A p \in Pids : (IF proc[p] = "running" /\ since[p] <= Guard
                           THEN since[p] + 1 ELSE since[p]) \in 0 .. Guard + 1
          BY Bounds DEF ClocksOK
    <3> QED BY <2>1, <3>1 DEF Second
  <2>2. CASE ServerAsks
    <3>1. since' \in {since, [p \in Pids |-> IF proc[p] = "running" THEN 0 ELSE since[p]]}
          BY <2>2 DEF ServerAsks, RequestHeard, RequestLost
    <3>2. \A p \in Pids : (IF proc[p] = "running" THEN 0 ELSE since[p]) \in 0 .. Guard + 1
          BY Bounds DEF ClocksOK
    <3> QED BY <3>1, <3>2 DEF ClocksOK
  <2>3. CASE ServerEnds
        BY <2>3 DEF ServerEnds, ClocksOK
  <2> QED BY <2>1, <2>2, <2>3
<1>7. asks' \in 0 .. MaxAsk /\ lost' \in 0 .. MaxLost
  <2>1. CASE Second
        BY <2>1 DEF Second, ClocksOK
  <2>2. CASE ServerAsks
    <3>1. asks < MaxAsk
          BY <2>2 DEF ServerAsks
    <3>2. asks' \in {0, asks + 1} /\ (lost' \in {0, lost} \/ (lost < MaxLost /\ lost' = lost + 1))
          BY <2>2 DEF ServerAsks, RequestHeard, RequestLost
    <3> QED BY <3>1, <3>2, Bounds DEF ClocksOK
  <2>3. CASE ServerEnds
        BY <2>3, Bounds DEF ServerEnds
  <2> QED BY <2>1, <2>2, <2>3
<1>8. timer' \in 0 .. Due'
  <2>1. CASE Second
    <3>1. timer < Due /\ timer' = timer + 1 /\ Due' = Due /\ Due \in Nat
          BY <2>1, Bounds DEF Second, Due
    <3> QED BY <3>1 DEF ClocksOK
  <2>2. CASE ServerAsks \/ ServerEnds
    <3>1. timer' = 0 /\ Due' \in Nat
          BY <2>2, Bounds DEF ServerAsks, ServerEnds, Due
    <3> QED BY <3>1
  <2> QED BY <2>1, <2>2
<1>9. ClocksOK'
      BY <1>5, <1>6, <1>7, <1>8 DEF ClocksOK
<1> QED BY <1>2, <1>4, <1>9

----------------------------------------------------------------------------

LEMMA Inductive == IInv /\ [Next]_vars => IInv'
<1> SUFFICES ASSUME IInv, [Next]_vars PROVE IInv'
    OBVIOUS
<1>1. CASE UNCHANGED vars
  <2>1. /\ UNCHANGED <<proc, pid_file, exists, overlapped, crashed, struck>>
        /\ UNCHANGED <<since, authorized, timer, asks, lost>>
        BY <1>1 DEF vars, file, server, ghosts
  <2>2. FilesOK' /\ NothingBefore' /\ StrangersSpared' /\ ClocksOK'
        BY <2>1 DEF IInv, FilesOK, NothingBefore, StrangersSpared, ClocksOK, Due
  <2>3. InStart' = InStart /\ Running' = Running
        BY <2>1 DEF InStart, Running
  <2>4. InTurn' /\ NamesHeartbeat'
        BY <2>1, <2>3 DEF IInv, InTurn, NamesHeartbeat
  <2> QED BY <2>2, <2>4 DEF IInv
<1> QED BY <1>1, LoginStep, OpenFileStep, CreateFileStep, KillOldStep, TruncateFileStep,
           WritePidStep, CrashReuseStep, ClockStep DEF Next, Over

LEMMA Always == Spec => []IInv
BY Initially, Inductive, PTL DEF Spec

(* The file holds digits, and the clocks keep their bounds.                *)
THEOREM TypeCorrect == Spec => []TypeOK
<1>1. IInv => TypeOK
      BY DEF IInv, FilesOK, ClocksOK, TypeOK
<1> QED BY <1>1, Always, PTL

(* As long as no two programs log in at once at most one heartbeat runs,   *)
(* and the file names it (eapol.c:342-360).                                *)
THEOREM OnlyOneHeartbeat == Spec => []OneHeartbeat
<1>1. IInv => OneHeartbeat
      BY DEF IInv, InTurn, OneHeartbeat
<1> QED BY <1>1, Always, PTL

(* As long as no heartbeat dies by itself either, a login kills no other   *)
(* process than the heartbeat before it (eapol.c:342-345, 357-360).        *)
THEOREM NoStrangerStruck == Spec => []StrangersSpared
<1>1. IInv => StrangersSpared
      BY DEF IInv
<1> QED BY <1>1, Always, PTL

----------------------------------------------------------------------------
(* The session is kept.                                                    *)

(* While a process starts no time passes since the login.  Otherwise one   *)
(* runs, and all requests since the last answer but one at most were lost: *)
(* when one was left unanswered, that was when the process began to count, *)
(* and the guard time will be over when the next is due.                   *)
KeptUp == ~overlapped /\ ~crashed /\ authorized =>
  \/ InStart # {} /\ asks = 0 /\ lost = 0
  \/ /\ InStart = {} /\ Running # {}
     /\ \/ asks = lost
        \/ /\ asks = lost + 1
           /\ \A p \in Running : since[p] >= timer \/ since[p] > Guard

LEMMA KeptUpInitially == Init => KeptUp
BY DEF Init, KeptUp

(* A login, and its way to the first recvfrom.                             *)
LEMMA StartKeepsUp ==
  ASSUME IInv, KeptUp, NEW p \in Pids,
         Login(p) \/ OpenFile(p) \/ CreateFile(p) \/ KillOld(p) \/ TruncateFile(p) \/ WritePid(p)
  PROVE  KeptUp'
<1>1. proc' \in [Pids -> Starting \cup {"none", "running", "dead", "stranger"}]
      BY LoginStep, OpenFileStep, CreateFileStep, KillOldStep, TruncateFileStep, WritePidStep
         DEF IInv, FilesOK
<1>2. CASE Login(p)
  <2>1. p \in InStart' /\ asks' = 0 /\ lost' = 0
        BY <1>2 DEF Login, Goes, InStart, Starting, IInv, FilesOK
  <2> QED BY <2>1 DEF KeptUp
<1>3. CASE OpenFile(p) \/ CreateFile(p) \/ KillOld(p) \/ TruncateFile(p)
  <2>1. /\ proc[p] \in Starting /\ proc'[p] \in Starting
        /\ UNCHANGED <<authorized, asks, lost, overlapped, crashed>>
        BY <1>3 DEF OpenFile, CreateFile, KillOld, TruncateFile, Goes, Starting, server, ghosts,
                    IInv, FilesOK
  <2>2. InStart # {} /\ InStart' # {}
        BY <2>1 DEF InStart
  <2> QED BY <2>1, <2>2 DEF KeptUp
<1>4. CASE WritePid(p)
  <2> SUFFICES ASSUME ~overlapped, ~crashed, authorized PROVE KeptUp'
      BY <1>4 DEF WritePid, server, ghosts, KeptUp
  <2>1. /\ proc[p] \in Starting /\ proc'[p] = "running"
        /\ \A q \in Pids : q # p => proc'[q] = proc[q]
        /\ UNCHANGED <<authorized, asks, lost>>
        BY <1>4 DEF WritePid, Goes, Starting, server, IInv, FilesOK
  <2>2. InStart' = {} /\ p \in Running'
        BY <2>1 DEF IInv, InTurn, InStart, Running, Starting
  <2>3. asks = 0 /\ lost = 0
        BY <2>1 DEF KeptUp, InStart
  <2> QED BY <2>1, <2>2, <2>3 DEF KeptUp
<1> QED BY <1>2, <1>3, <1>4

LEMMA OthersKeepUp ==
  ASSUME IInv, KeptUp, NEW p \in Pids, Crash(p) \/ Reuse(p)
  PROVE  KeptUp'
<1> SUFFICES ASSUME ~crashed' PROVE KeptUp'
    BY DEF KeptUp
<1>1. /\ proc[p] = "dead" /\ proc' = [proc EXCEPT ![p] = "stranger"]
      /\ UNCHANGED <<since, authorized, timer, asks, lost, overlapped, crashed>>
      BY DEF Crash, Reuse, Goes, server, ghosts
<1>2. InStart' = InStart /\ Running' = Running
      BY <1>1 DEF InStart, Running, Starting, IInv, FilesOK
<1> QED BY <1>1, <1>2 DEF KeptUp

LEMMA SecondKeepsUp ==
  ASSUME IInv, KeptUp, Second
  PROVE  KeptUp'
<1>1. /\ timer' = timer + 1
      /\ UNCHANGED <<proc, authorized, asks, lost, overlapped, crashed>>
      BY DEF Second, ghosts
<1>2. InStart' = InStart /\ Running' = Running
      BY <1>1 DEF InStart, Running
<1>3. ASSUME NEW p \in Running, since[p] >= timer \/ since[p] > Guard
      PROVE  since'[p] >= timer' \/ since'[p] > Guard
  <2>1. p \in Pids /\ since'[p] = IF since[p] <= Guard THEN since[p] + 1 ELSE since[p]
        BY DEF Second, Running
  <2>2. since[p] \in Nat /\ timer \in Nat /\ Guard \in Nat
        BY <2>1, Bounds DEF IInv, ClocksOK, Due
  <2> QED BY <1>1, <1>3, <2>1, <2>2
<1> QED BY <1>1, <1>2, <1>3 DEF KeptUp

(* Only the request after an answer can come within the guard time.        *)
LEMMA ServerAsksKeepsUp ==
  ASSUME IInv, KeptUp, ServerAsks
  PROVE  KeptUp'
<1> SUFFICES ASSUME ~overlapped, ~crashed, authorized PROVE KeptUp'
    BY DEF ServerAsks, ghosts, KeptUp
<1>1. /\ timer = Due /\ timer' = 0 /\ InStart = {}
      /\ UNCHANGED <<proc, overlapped, crashed>>
      BY DEF ServerAsks, ghosts
<1>2. InStart' = {} /\ Running' = Running /\ Running # {}
      BY <1>1 DEF InStart, Running, KeptUp
<1>3. asks \in Nat /\ lost \in Nat /\ \A p \in Running : since[p] \in Nat
      BY Bounds DEF IInv, ClocksOK, Running
<1>4. CASE asks' = 0 /\ lost' = 0
      BY <1>2, <1>4 DEF KeptUp
<1>5. CASE RequestLost
  <2>1. asks' = asks + 1 /\ lost' = lost + 1 /\ since' = since
        BY <1>5 DEF RequestLost
  <2>2. \A p \in Running' : since'[p] >= timer'
        BY <1>1, <1>2, <1>3, <2>1
  <2> QED BY <1>1, <1>2, <1>3, <2>1, <2>2 DEF KeptUp
<1>6. CASE RequestHeard /\ asks' = asks + 1
  <2>1. \A p \in Running : since'[p] = 0
        BY <1>6 DEF RequestHeard, Running
  <2>2. \A p \in Running' : since'[p] >= timer'
        BY <1>1, <1>2, <2>1
  <2>3. CASE asks' = asks + 1 /\ lost' = lost + 1
        BY <1>1, <1>2, <1>3, <2>2, <2>3 DEF KeptUp
  <2>4. CASE asks' = asks + 1 /\ lost' = lost /\ \A p \in Running : ~Answers(p)
    <3>1. asks = lost
      <4>1. SUFFICES ASSUME asks = lost + 1 PROVE FALSE
            BY <1>1 DEF KeptUp
      <4>2. timer = Repeat
            BY <1>1, <1>3, <4>1 DEF Due
      <4>3. PICK p \in Running : since[p] >= timer \/ since[p] > Guard
            BY <1>1, <1>2, <1>3, <4>1 DEF KeptUp
      <4>4. since[p] > Guard
            BY <1>3, <4>2, <4>3, DaemonAssumption
      <4> QED BY <2>4, <4>4 DEF Answers
    <3> QED BY <1>2, <1>3, <2>2, <2>4, <3>1 DEF KeptUp
  <2> QED BY <1>3, <1>6, <2>3, <2>4 DEF RequestHeard
<1> QED BY <1>4, <1>5, <1>6 DEF ServerAsks, RequestHeard

(* Requests in a row without an answer are no more than the lost and one.  *)
LEMMA ServerEndsNot ==
  ASSUME IInv, KeptUp, ServerEnds
  PROVE  overlapped \/ crashed
<1> SUFFICES ASSUME ~overlapped, ~crashed PROVE FALSE
    BY DEF IInv, FilesOK
<1>1. authorized /\ asks = MaxAsk
      BY DEF ServerEnds
<1>2. lost \in 0 .. MaxLost /\ MaxLost \in Nat /\ MaxAsk \in Nat /\ MaxLost + 1 < MaxAsk
      BY DaemonAssumption DEF IInv, ClocksOK
<1>3. asks = 0 \/ asks = lost \/ asks = lost + 1
      BY <1>1 DEF KeptUp
<1> QED BY <1>1, <1>2, <1>3

LEMMA StaysKeptUp ==
  ASSUME IInv, KeptUp, [Next]_vars
  PROVE  KeptUp'
<1>1. CASE ServerEnds
      BY <1>1 DEF ServerEnds, KeptUp
<1>2. CASE UNCHANGED vars
  <2>1. UNCHANGED <<proc, since, authorized, timer, asks, lost, overlapped, crashed>>
        BY <1>2 DEF vars, server, ghosts
  <2>2. InStart' = InStart /\ Running' = Running
        BY <2>1 DEF InStart, Running
  <2> QED BY <2>1, <2>2 DEF KeptUp
<1> QED BY <1>1, <1>2, StartKeepsUp, OthersKeepUp, SecondKeepsUp, ServerAsksKeepsUp
        DEF Next, Over

(* A heartbeat that is alive keeps the session through any number of new   *)
(* logins, whenever the first request after one comes, and through MaxLost *)
(* losses in a row (eapol.c:271-299).                                      *)
THEOREM SessionKept == Spec => StaysAuthorized
<1>1. IInv /\ KeptUp /\ [Next]_vars =>
        [~overlapped /\ ~crashed => ~(authorized /\ ~authorized')]_vars
  <2> SUFFICES ASSUME IInv, KeptUp, Next, ~overlapped, ~crashed, authorized
               PROVE  authorized'
      OBVIOUS
  <2>1. ~ServerEnds
        BY ServerEndsNot
  <2> QED BY <2>1 DEF Next, Login, OpenFile, CreateFile, KillOld, TruncateFile, WritePid,
                      Crash, Reuse, Second, ServerAsks, Over, server, vars
<1>2. Spec => []KeptUp
  <2>1. IInv /\ KeptUp /\ [Next]_vars => KeptUp'
        BY StaysKeptUp
  <2> QED BY <2>1, KeptUpInitially, Always, PTL DEF Spec
<1> QED BY <1>1, <1>2, Always, PTL DEF Spec, StaysAuthorized
----------------------------------------------------------------------------
(* The login.                                                              *)

Early == {"logoff", "start"}
Late  == {"md5", "granted", "refused"}

FirstLogsOff == uplink # <<>> /\ uplink[1].type = "logoff"

(* The logoff first, then the starts, then the responses.                  *)
UplinkInOrder ==
  \A i \in DOMAIN uplink :
    /\ uplink[i].type = "logoff" => i = 1
    /\ uplink[i].type \in Early => \A j \in 1 .. i : uplink[j].type \in Early

(* No start comes after the authenticator has asked for the password, and  *)
(* no digest before.                                                       *)
StagesInStep ==
  /\ pc = "init" => uplink = <<>> /\ attempt = "idle" /\ attempt_id = 0
  /\ pc = "identity" => \A i \in DOMAIN uplink : uplink[i].type \in Early
  /\ attempt \in Late =>
       /\ pc \notin {"init", "identity"}
       /\ \A i \in DOMAIN uplink : uplink[i].type \notin Early
  /\ attempt \notin Late => pc # "success"
  /\ pc \in {"init", "identity", "md5"} \/ attempt \notin Late =>
       \A i \in DOMAIN uplink : uplink[i].type # "md5"
  /\ pc = "md5" /\ attempt = "refused" => account = "unknown"
  /\ pc = "success" => account # "unknown"
  /\ pc # "done" => result = Unset

(* How many starts the client has sent, at most.                           *)
Started ==
  CASE pc = "init" -> 0
    [] pc = "identity" -> tries + 1
    [] OTHER -> TryTimes

(* Each start that arrives is an attempt.                                  *)
AttemptsCounted ==
  /\ attempt_id <= IF attempt \in Late THEN TryTimes + 1 ELSE Started
  /\ \A i \in DOMAIN uplink :
       uplink[i].type = "start" =>
         attempt_id + i - (IF FirstLogsOff THEN 1 ELSE 0) <= Started

(* What a frame in the client's socket says of the attempt.                *)
TellsAttempt(frame) ==
  /\ frame.type = "identity" =>
       frame.id <= attempt_id /\ (attempt = "md5" => frame.id < attempt_id)
  /\ frame.type = "md5" =>
       frame.id <= attempt_id /\ attempt \in Late /\ account # "unknown"
  /\ frame.type = "success" => frame.id <= attempt_id /\ attempt = "granted"
  /\ frame.type = "fail" => frame.id = LogoffId \/ attempt = "refused"

FramesTellAttempt ==
  \A i \in DOMAIN downlink :
    /\ TellsAttempt(downlink[i])
    /\ downlink[i].type # "noise" => downlink[i].from = "server"

(* Only a response sent again can have a digest of another challenge.      *)
DigestsFit ==
  \A i \in DOMAIN uplink :
    uplink[i].type = "md5" => uplink[i].of = uplink[i].id \/ tries > 0

(* Nobody is asked for a password, or refused, but as the account or the   *)
(* digest says.                                                            *)
AccountFits ==
  /\ attempt = "md5" => account # "unknown"
  /\ attempt = "refused" /\ account = "good" => judged # attempt_id

(* When a good account is refused, the client is past its first response.  *)
RefusedLater == attempt = "refused" /\ account = "good" => tries > 0

LogoffAnswer(frame) == frame.type = "fail" /\ frame.id = LogoffId

(* The answer to the logoff comes before all that is asked, and so never   *)
(* when a failure frame could be taken for a refusal.                      *)
LogoffFirst ==
  /\ pc = "init" \/ FirstLogsOff => \A i \in DOMAIN downlink : downlink[i].type = "noise"
  /\ FirstLogsOff => attempt = "idle"
  /\ pc \in {"md5", "success"} => ~FirstLogsOff
  /\ \A i \in DOMAIN downlink : LogoffAnswer(downlink[i]) =>
       /\ pc \notin {"md5", "success"}
       /\ \A j \in 1 .. i - 1 : downlink[j].type = "noise"

LoginInv ==
  /\ LoginTypeOK
  /\ UplinkInOrder
  /\ StagesInStep
  /\ AttemptsCounted
  /\ FramesTellAttempt
  /\ DigestsFit
  /\ AccountFits
  /\ RefusedLater
  /\ LogoffFirst
  /\ VerdictIsOfThisLogin

LEMMA IdFacts ==
  /\ TryTimes \in Nat \ {0} /\ Timeout \in Nat \ {0} /\ LinkCap \in Nat \ {0}
  /\ LogoffId = 255 /\ NoId = 254 /\ Unset = 100 /\ TryTimes + 1 < 254
  /\ Ids = 0 .. TryTimes + 1 /\ AnyId = Ids \cup {254, 255}
BY EapAssumption DEF LogoffId, NoId, Unset, Ids, AnyId

LEMMA WithoutHead ==
  ASSUME NEW S, NEW q \in Seq(S), q # <<>>
  PROVE  /\ Head(q) = q[1] /\ q[1] \in S /\ 1 \in DOMAIN q
         /\ DOMAIN q = 1 .. Len(q) /\ Len(q) \in Nat \ {0}
         /\ Tail(q) \in Seq(S) /\ Len(Tail(q)) = Len(q) - 1
         /\ \A i \in DOMAIN Tail(q) :
              i \in Nat \ {0} /\ i + 1 \in DOMAIN q /\ Tail(q)[i] = q[i + 1]
<1>1. Len(q) \in Nat \ {0} /\ DOMAIN q = 1 .. Len(q)
  OBVIOUS
<1>2. Tail(q) \in Seq(S) /\ Len(Tail(q)) = Len(q) - 1
  OBVIOUS
<1>3. ASSUME NEW i \in DOMAIN Tail(q)
      PROVE  i \in Nat \ {0} /\ i + 1 \in DOMAIN q /\ Tail(q)[i] = q[i + 1]
  <2>1. i \in 1 .. Len(q) - 1
    BY <1>2
  <2> QED
    BY <1>1, <2>1
<1> QED
  BY <1>1, <1>2, <1>3

LEMMA WithLast ==
  ASSUME NEW S, NEW q \in Seq(S), NEW e \in S
  PROVE  /\ Append(q, e) \in Seq(S) /\ Len(Append(q, e)) = Len(q) + 1
         /\ Append(q, e) # <<>> /\ Len(q) \in Nat /\ DOMAIN q = 1 .. Len(q)
         /\ \A i \in DOMAIN Append(q, e) :
              \/ i \in DOMAIN q /\ Append(q, e)[i] = q[i]
              \/ i = Len(q) + 1 /\ Append(q, e)[i] = e
         /\ \A i \in DOMAIN q : Append(q, e)[i] = q[i]
<1>1. Append(q, e) \in Seq(S) /\ Len(Append(q, e)) = Len(q) + 1
  OBVIOUS
<1>2. \A i \in 1 .. Len(q) : Append(q, e)[i] = q[i]
  OBVIOUS
<1>3. Append(q, e)[Len(q) + 1] = e
  OBVIOUS
<1>4. Len(q) \in Nat /\ DOMAIN q = 1 .. Len(q) /\ Append(q, e) # <<>>
  OBVIOUS
<1>5. ASSUME NEW i \in DOMAIN Append(q, e)
      PROVE  \/ i \in DOMAIN q /\ Append(q, e)[i] = q[i]
             \/ i = Len(q) + 1 /\ Append(q, e)[i] = e
  <2>1. i \in 1 .. Len(q) + 1
    BY <1>1
  <2> QED
    BY <1>2, <1>3, <1>4, <2>1
<1> QED
  BY <1>1, <1>2, <1>4, <1>5

LEMMA LoginStarts == LoginInit => LoginInv
<1> SUFFICES ASSUME LoginInit PROVE LoginInv
  OBVIOUS
<1>1. /\ pc = "init" /\ tries = 0 /\ waited = 0 /\ result = Unset
      /\ sent = [type |-> "start", id |-> NoId, to |-> "all", of |-> NoId]
      /\ downlink = <<>> /\ uplink = <<>> /\ attempt = "idle" /\ attempt_id = 0
      /\ account \in {"good", "unknown", "bad_password"} /\ judged = NoId
  BY DEF LoginInit
<1>2. LoginTypeOK
  <2>1. sent \in Requests /\ judged \in AnyId
    BY <1>1, IdFacts DEF Requests
  <2>2. /\ 0 \in 0 .. TryTimes - 1 /\ 0 \in 0 .. Timeout + 1 /\ 0 \in Ids
        /\ Len(downlink) <= LinkCap
    BY <1>1, IdFacts
  <2> QED
    BY <1>1, <2>1, <2>2 DEF LoginTypeOK
<1>3. UplinkInOrder /\ StagesInStep /\ FramesTellAttempt /\ DigestsFit /\ AccountFits
      /\ RefusedLater
  BY <1>1 DEF UplinkInOrder, StagesInStep, FramesTellAttempt, DigestsFit, AccountFits, RefusedLater,
              Late
<1>4. AttemptsCounted
  BY <1>1 DEF AttemptsCounted, Started, Late
<1>5. LogoffFirst /\ VerdictIsOfThisLogin
  BY <1>1, IdFacts DEF LogoffFirst, VerdictIsOfThisLogin, FirstLogsOff
<1> QED
  BY <1>2, <1>3, <1>4, <1>5 DEF LoginInv

(* A frame is read: what is known of it, and of those behind it.           *)
LEMMA FrameRead ==
  ASSUME LoginInv, ReadFrame
  PROVE  /\ Head(downlink) \in Frames /\ TellsAttempt(Head(downlink))
         /\ Head(downlink).type # "noise" => Head(downlink).from = "server"
         /\ downlink' \in Seq(Frames) /\ Len(downlink') <= LinkCap
         /\ FramesTellAttempt' /\ AccountFits'
         /\ LogoffAnswer(Head(downlink)) => pc \notin {"md5", "success"}
         /\ FirstLogsOff => Head(downlink).type = "noise"
         /\ FirstLogsOff => \A i \in DOMAIN downlink' : downlink'[i].type = "noise"
         /\ \A i \in DOMAIN downlink' : LogoffAnswer(downlink'[i]) =>
              /\ pc \notin {"md5", "success"} /\ Head(downlink).type = "noise"
              /\ \A j \in 1 .. i - 1 : downlink'[j].type = "noise"
<1>1. /\ downlink \in Seq(Frames) /\ downlink # <<>> /\ downlink' = Tail(downlink)
      /\ Len(downlink) <= LinkCap
      /\ attempt' = attempt /\ attempt_id' = attempt_id /\ account' = account /\ judged' = judged
      /\ FramesTellAttempt /\ AccountFits /\ LogoffFirst
  BY DEF ReadFrame, LoginInv, LoginTypeOK, peer
<1>2. /\ Head(downlink) = downlink[1] /\ downlink[1] \in Frames /\ 1 \in DOMAIN downlink
      /\ downlink' \in Seq(Frames) /\ Len(downlink') = Len(downlink) - 1
      /\ Len(downlink) \in Nat
      /\ \A i \in DOMAIN downlink' :
           i \in Nat \ {0} /\ i + 1 \in DOMAIN downlink /\ downlink'[i] = downlink[i + 1]
  BY <1>1, WithoutHead
<1>3. FramesTellAttempt'
  BY <1>1, <1>2 DEF FramesTellAttempt, TellsAttempt
<1>4. AccountFits'
  BY <1>1 DEF AccountFits
<1>5. TellsAttempt(downlink[1]) /\ (downlink[1].type # "noise" => downlink[1].from = "server")
  BY <1>1, <1>2 DEF FramesTellAttempt
<1>6. Len(downlink') <= LinkCap
  BY <1>1, <1>2, IdFacts
<1>7. ASSUME NEW i \in DOMAIN downlink', LogoffAnswer(downlink'[i])
      PROVE  /\ pc \notin {"md5", "success"} /\ downlink[1].type = "noise"
             /\ \A j \in 1 .. i - 1 : downlink'[j].type = "noise"
  <2>1. /\ i \in Nat \ {0} /\ i + 1 \in DOMAIN downlink /\ LogoffAnswer(downlink[i + 1])
        /\ Len(downlink') \in Nat /\ DOMAIN downlink' = 1 .. Len(downlink')
    BY <1>2, <1>7
  <2>2. pc \notin {"md5", "success"} /\ \A j \in 1 .. i : downlink[j].type = "noise"
    BY <1>1, <2>1 DEF LogoffFirst
  <2>3. ASSUME NEW j \in 1 .. i - 1
        PROVE  downlink'[j].type = "noise"
    <3>1. j \in DOMAIN downlink' /\ j + 1 \in 1 .. i
      BY <1>7, <2>1
    <3> QED
      BY <1>2, <2>2, <3>1
  <2> QED
    BY <2>1, <2>2, <2>3
<1>8. /\ LogoffAnswer(downlink[1]) => pc \notin {"md5", "success"}
      /\ FirstLogsOff => downlink[1].type = "noise"
      /\ FirstLogsOff => \A i \in DOMAIN downlink' : downlink'[i].type = "noise"
  BY <1>1, <1>2 DEF LogoffFirst
<1> QED
  BY <1>1, <1>2, <1>3, <1>4, <1>5, <1>6, <1>7, <1>8

(* A request more behind the others.                                       *)
LEMMA RequestAdded ==
  ASSUME LoginInv, NEW request \in Requests, uplink' = Append(uplink, request),
         request.type # "logoff",
         request.type \in Early => \A i \in DOMAIN uplink : uplink[i].type \in Early
  PROVE  /\ uplink' \in Seq(Requests) /\ UplinkInOrder' /\ FirstLogsOff' = FirstLogsOff
         /\ Len(uplink) \in Nat
         /\ \A i \in DOMAIN uplink' :
              \/ i \in DOMAIN uplink /\ uplink'[i] = uplink[i]
              \/ i = Len(uplink) + 1 /\ uplink'[i] = request
<1>1. uplink \in Seq(Requests) /\ UplinkInOrder
  BY DEF LoginInv, LoginTypeOK
<1>2. /\ uplink' \in Seq(Requests) /\ Len(uplink') = Len(uplink) + 1
      /\ uplink' # <<>> /\ Len(uplink) \in Nat /\ DOMAIN uplink = 1 .. Len(uplink)
      /\ \A i \in DOMAIN uplink' :
           \/ i \in DOMAIN uplink /\ uplink'[i] = uplink[i]
           \/ i = Len(uplink) + 1 /\ uplink'[i] = request
      /\ \A i \in DOMAIN uplink : uplink'[i] = uplink[i]
  BY <1>1, WithLast
<1>3. FirstLogsOff' = FirstLogsOff
  <2>1. CASE uplink = <<>>
    <3>1. 1 \in DOMAIN uplink' /\ 1 \notin DOMAIN uplink
      BY <1>2, <2>1
    <3> QED
      BY <1>2, <2>1, <3>1 DEF FirstLogsOff
  <2>2. CASE uplink # <<>>
    <3>1. 1 \in DOMAIN uplink
      BY <1>1, <2>2, WithoutHead
    <3> QED
      BY <1>2, <2>2, <3>1 DEF FirstLogsOff
  <2> QED
    BY <2>1, <2>2
<1>4. UplinkInOrder'
  <2> SUFFICES ASSUME NEW i \in DOMAIN uplink'
               PROVE  /\ uplink'[i].type = "logoff" => i = 1
                      /\ uplink'[i].type \in Early =>
                           \A j \in 1 .. i : uplink'[j].type \in Early
    BY DEF UplinkInOrder
  <2>1. CASE i \in DOMAIN uplink /\ uplink'[i] = uplink[i]
    <3>1. \A j \in 1 .. i : j \in DOMAIN uplink
      BY <1>2, <2>1
    <3> QED
      BY <1>1, <1>2, <2>1, <3>1 DEF UplinkInOrder
  <2>2. CASE i = Len(uplink) + 1 /\ uplink'[i] = request
    <3>1. \A j \in 1 .. i : j \in DOMAIN uplink \/ j = i
      BY <1>2, <2>2
    <3> QED
      BY <1>2, <2>2, <3>1
  <2> QED
    BY <1>2, <2>1, <2>2
<1> QED
  BY <1>2, <1>3, <1>4

(* The requests the client can build are requests.                         *)
LEMMA RequestsBuilt ==
  ASSUME LoginTypeOK, NEW frame \in Frames
  PROVE  /\ IdentityResponse(frame) \in Requests
         /\ IdentityResponse(frame).type = "identity"
         /\ IdentityResponse(frame).id = frame.id
         /\ Md5Response(frame) \in Requests
         /\ Md5Response(frame).type = "md5" /\ Md5Response(frame).id = frame.id
         /\ frame.type = "md5" => Md5Response(frame).of = frame.id
         /\ [sent EXCEPT !.type = "start", !.to = "all"] \in Requests
         /\ [sent EXCEPT !.type = "start", !.to = "all"].type = "start"
         /\ \A type \in {"logoff", "start"} :
              /\ Broadcast(type, LogoffId) \in Requests
              /\ Broadcast(type, LogoffId).type = type
<1>1. sent \in Requests /\ frame.id \in AnyId /\ frame.from \in {"server", "other"}
  BY DEF LoginTypeOK, Frames
<1>2. NoId \in AnyId /\ LogoffId \in AnyId
  BY DEF AnyId
<1>3. /\ IdentityResponse(frame) \in Requests
      /\ IdentityResponse(frame).type = "identity"
      /\ IdentityResponse(frame).id = frame.id
  BY <1>1 DEF IdentityResponse, Requests
<1>4. /\ Md5Response(frame) \in Requests
      /\ Md5Response(frame).type = "md5" /\ Md5Response(frame).id = frame.id
      /\ frame.type = "md5" => Md5Response(frame).of = frame.id
  <2> DEFINE of == IF frame.type = "md5" THEN frame.id ELSE NoId
  <2>1. of \in AnyId /\ (frame.type = "md5" => of = frame.id)
    BY <1>1, <1>2
  <2>2. Md5Response(frame) = [sent EXCEPT !.type = "md5", !.id = frame.id, !.of = of]
    BY DEF Md5Response
  <2> HIDE DEF of
  <2> QED
    BY <1>1, <2>1, <2>2 DEF Requests
<1>5. /\ [sent EXCEPT !.type = "start", !.to = "all"] \in Requests
      /\ [sent EXCEPT !.type = "start", !.to = "all"].type = "start"
  BY <1>1 DEF Requests
<1>6. ASSUME NEW type \in {"logoff", "start"}
      PROVE  /\ Broadcast(type, LogoffId) \in Requests
             /\ Broadcast(type, LogoffId).type = type
  <2>1. type \in {"logoff", "start", "identity", "md5"}
    BY <1>6
  <2> QED
    BY <1>1, <1>2, <2>1 DEF Requests, Broadcast
<1> QED
  BY <1>3, <1>4, <1>5, <1>6

(* After a frame the client sends a request: the same one again or, with   *)
(* the frame that was waited for, the next.                                *)
LEMMA ReadSends ==
  ASSUME LoginInv, ReadFrame, NEW request \in Requests, Transmit(request),
         request.type \in {"start", "identity", "md5"},
         request.type = "start" => pc = "identity" /\ pc' = "identity",
         pc' = pc \/ Head(downlink).type # "noise",
         pc' \in {"identity", "md5", "success"}, tries' \in 0 .. TryTimes - 1,
         waited' = 0, result' = result
  PROVE  /\ LoginTypeOK' /\ UplinkInOrder' /\ FramesTellAttempt' /\ AccountFits'
         /\ LogoffFirst' /\ VerdictIsOfThisLogin'
         /\ FirstLogsOff' = FirstLogsOff /\ Len(uplink) \in Nat
         /\ \A i \in DOMAIN uplink' :
              \/ i \in DOMAIN uplink /\ uplink'[i] = uplink[i]
              \/ i = Len(uplink) + 1 /\ uplink'[i] = request
<1>1. /\ LoginTypeOK /\ StagesInStep /\ VerdictIsOfThisLogin /\ LogoffFirst
      /\ uplink' = Append(uplink, request) /\ sent' = request
      /\ attempt' = attempt /\ attempt_id' = attempt_id /\ account' = account /\ judged' = judged
      /\ downlink # <<>> /\ pc \in {"identity", "md5", "success"}
  BY DEF ReadFrame, LoginInv, Transmit, peer
<1>2. request.type \in Early => \A i \in DOMAIN uplink : uplink[i].type \in Early
  BY <1>1 DEF StagesInStep, Early
<1>3. /\ uplink' \in Seq(Requests) /\ UplinkInOrder' /\ FirstLogsOff' = FirstLogsOff
      /\ Len(uplink) \in Nat
      /\ \A i \in DOMAIN uplink' :
           \/ i \in DOMAIN uplink /\ uplink'[i] = uplink[i]
           \/ i = Len(uplink) + 1 /\ uplink'[i] = request
  BY <1>1, <1>2, RequestAdded
<1>4. LoginTypeOK'
  <2>1. waited' \in 0 .. Timeout + 1 /\ result' \in {0, 1, 4, -1, -2, Unset}
    BY <1>1, IdFacts DEF LoginTypeOK
  <2>2. downlink' \in Seq(Frames) /\ Len(downlink') <= LinkCap
    BY <1>1, FrameRead
  <2> QED
    BY <1>1, <1>3, <2>1, <2>2 DEF LoginTypeOK
<1>5. VerdictIsOfThisLogin'
  BY <1>1, IdFacts DEF StagesInStep, VerdictIsOfThisLogin
<1>6. LogoffFirst'
  BY <1>1, <1>3, FrameRead DEF LoginInv, LogoffFirst
<1> QED
  BY <1>3, <1>4, <1>5, <1>6, FrameRead

LEMMA AnsweredStep ==
  ASSUME LoginInv, ReadFrame, Answered(Head(downlink)), pc # "success"
  PROVE  LoginInv'
<1> DEFINE frame == Head(downlink)
<1>1. /\ LoginTypeOK /\ StagesInStep /\ AttemptsCounted /\ DigestsFit /\ RefusedLater
      /\ attempt' = attempt /\ attempt_id' = attempt_id /\ account' = account /\ judged' = judged
      /\ attempt_id \in 0 .. TryTimes + 1 /\ tries \in 0 .. TryTimes - 1
  BY IdFacts DEF ReadFrame, LoginInv, LoginTypeOK, peer
<1>2. frame \in Frames /\ TellsAttempt(frame)
  BY FrameRead
<1> HIDE DEF frame
<1>3. /\ Answered(frame) /\ frame = Head(downlink)
  BY DEF frame
<1>4. CASE pc = "identity"
  <2>1. /\ frame.type = "identity" /\ NextStage("md5", IdentityResponse(frame))
    BY <1>3, <1>4 DEF Answered, Matches
  <2>2. /\ pc' = "md5" /\ tries' = 0 /\ waited' = 0 /\ result' = result
        /\ Transmit(IdentityResponse(frame))
    BY <2>1 DEF NextStage
  <2> DEFINE request == IdentityResponse(frame)
  <2>3. request \in Requests /\ request.type = "identity" /\ request.id = frame.id
    BY <1>1, <1>2, RequestsBuilt
  <2> HIDE DEF request
  <2>4. Transmit(request)
    BY <2>2 DEF request
  <2>5. 0 \in 0 .. TryTimes - 1
    BY IdFacts
  <2>6. /\ LoginTypeOK' /\ UplinkInOrder' /\ FramesTellAttempt' /\ AccountFits'
        /\ LogoffFirst' /\ VerdictIsOfThisLogin'
        /\ FirstLogsOff' = FirstLogsOff /\ Len(uplink) \in Nat
        /\ \A i \in DOMAIN uplink' :
             \/ i \in DOMAIN uplink /\ uplink'[i] = uplink[i]
             \/ i = Len(uplink) + 1 /\ uplink'[i] = request
    BY <1>3, <2>1, <2>2, <2>3, <2>4, <2>5, ReadSends
  <2>7. attempt \notin Late /\ \A i \in DOMAIN uplink : uplink[i].type \in Early
    BY <1>1, <1>4 DEF StagesInStep
  <2>8. \A i \in DOMAIN uplink' : uplink'[i].type # "md5"
    BY <2>3, <2>6, <2>7 DEF Early
  <2>9. StagesInStep'
    BY <1>1, <1>4, <2>2, <2>7, <2>8 DEF StagesInStep, Late
  <2>10. AttemptsCounted'
    <3>1. Started <= Started' /\ Started \in Int /\ Started' \in Int
      BY <1>1, <1>4, <2>2, IdFacts DEF Started
    <3>2. \A i \in DOMAIN uplink' : uplink'[i].type = "start" =>
            i \in DOMAIN uplink /\ uplink'[i] = uplink[i]
      BY <2>3, <2>6
    <3>3. \A i \in DOMAIN uplink : i \in Nat
      BY <1>1 DEF LoginTypeOK
    <3> QED
      BY <1>1, <2>6, <2>7, <3>1, <3>2, <3>3 DEF AttemptsCounted
  <2>11. DigestsFit' /\ RefusedLater'
    BY <1>1, <2>7, <2>8 DEF DigestsFit, RefusedLater, Late
  <2> QED
    BY <2>6, <2>9, <2>10, <2>11 DEF LoginInv
<1>5. CASE pc = "md5"
  <2>1. /\ frame.type = "md5" /\ NextStage("success", Md5Response(frame))
    BY <1>3, <1>5 DEF Answered, Matches
  <2>2. /\ pc' = "success" /\ tries' = 0 /\ waited' = 0 /\ result' = result
        /\ Transmit(Md5Response(frame))
    BY <2>1 DEF NextStage
  <2> DEFINE request == Md5Response(frame)
  <2>3. request \in Requests /\ request.type = "md5" /\ request.id = frame.id /\ request.of = frame.id
    BY <1>1, <1>2, <2>1, RequestsBuilt
  <2> HIDE DEF request
  <2>4. Transmit(request)
    BY <2>2 DEF request
  <2>5. 0 \in 0 .. TryTimes - 1
    BY IdFacts
  <2>6. /\ LoginTypeOK' /\ UplinkInOrder' /\ FramesTellAttempt' /\ AccountFits'
        /\ LogoffFirst' /\ VerdictIsOfThisLogin'
        /\ FirstLogsOff' = FirstLogsOff /\ Len(uplink) \in Nat
        /\ \A i \in DOMAIN uplink' :
             \/ i \in DOMAIN uplink /\ uplink'[i] = uplink[i]
             \/ i = Len(uplink) + 1 /\ uplink'[i] = request
    BY <1>3, <2>1, <2>2, <2>3, <2>4, <2>5, ReadSends
  <2>7. attempt \in Late /\ account # "unknown"
    BY <1>2, <2>1 DEF TellsAttempt
  <2>8. \A i \in DOMAIN uplink' : uplink'[i].type \notin Early
    BY <1>1, <2>3, <2>6, <2>7 DEF StagesInStep, Early
  <2>9. StagesInStep'
    BY <1>1, <1>5, <2>2, <2>7, <2>8 DEF StagesInStep
  <2>10. AttemptsCounted'
    BY <1>1, <2>7, <2>8 DEF AttemptsCounted, Early
  <2>11. DigestsFit' /\ RefusedLater'
    BY <1>1, <1>5, <2>3, <2>6, <2>7 DEF StagesInStep, DigestsFit, RefusedLater
  <2> QED
    BY <2>6, <2>9, <2>10, <2>11 DEF LoginInv
<1> QED
  BY <1>3, <1>4, <1>5 DEF Answered, Matches

(* eaplogin returns.                                                       *)
LEMMA ReadReturns ==
  ASSUME LoginInv, ReadFrame, NEW value \in {0, 1, 4, -2}, Return(value),
         value = 0 => attempt = "granted",
         value = 1 => attempt = "refused" /\ account = "unknown",
         value = 4 => /\ attempt = "refused" /\ account # "unknown"
                      /\ account = "bad_password" \/ (judged # attempt_id /\ tries > 0)
  PROVE  LoginInv'
<1>1. /\ LoginTypeOK /\ StagesInStep /\ AttemptsCounted /\ DigestsFit /\ RefusedLater /\ UplinkInOrder
      /\ attempt' = attempt /\ attempt_id' = attempt_id /\ account' = account /\ judged' = judged
      /\ tries' = tries /\ waited' = waited /\ sent' = sent /\ uplink' = uplink
      /\ pc' = "done" /\ result' = value
      /\ pc # "init" /\ tries \in 0 .. TryTimes - 1
  BY DEF ReadFrame, LoginInv, LoginTypeOK, peer, Return
<1>2. LoginTypeOK'
  BY <1>1, FrameRead DEF LoginTypeOK
<1>3. UplinkInOrder' /\ FirstLogsOff' = FirstLogsOff
  BY <1>1 DEF UplinkInOrder, FirstLogsOff
<1>4. StagesInStep'
  BY <1>1 DEF StagesInStep
<1>5. AttemptsCounted'
  <2>1. Started <= Started' /\ Started \in Int /\ Started' \in Int
    BY <1>1, IdFacts DEF Started
  <2>2. attempt_id \in Nat /\ \A i \in DOMAIN uplink : i \in Nat
    BY <1>1, IdFacts DEF LoginTypeOK
  <2> QED
    BY <1>1, <1>3, <2>1, <2>2 DEF AttemptsCounted
<1>6. DigestsFit' /\ RefusedLater'
  BY <1>1 DEF DigestsFit, RefusedLater
<1>7. LogoffFirst'
  BY <1>1, <1>3, FrameRead DEF LoginInv, LogoffFirst
<1>8. VerdictIsOfThisLogin'
  BY <1>1 DEF VerdictIsOfThisLogin
<1> QED
  BY <1>2, <1>3, <1>4, <1>5, <1>6, <1>7, <1>8, FrameRead DEF LoginInv

(* A verdict is that of the attempt: the answer to the logoff cannot be    *)
(* taken for one, for it comes before.                                     *)
LEMMA VerdictStep ==
  ASSUME LoginInv, ReadFrame,
         \/ pc = "success" /\ Answered(Head(downlink))
         \/ Refused(Head(downlink))
  PROVE  LoginInv'
<1> DEFINE frame == Head(downlink)
<1>1. /\ TellsAttempt(frame) /\ (LogoffAnswer(frame) => pc \notin {"md5", "success"})
      /\ LoginTypeOK /\ StagesInStep /\ AccountFits /\ RefusedLater
  BY FrameRead DEF LoginInv
<1>2. CASE pc = "success" /\ Answered(frame)
  <2>1. frame.type = "success" /\ Return(0)
    BY <1>2 DEF Answered, Matches
  <2> QED
    BY <1>1, <2>1, ReadReturns DEF TellsAttempt
<1>3. CASE Refused(frame)
  <2>1. pc \in {"md5", "success"} /\ frame.type = "fail" /\ frame.id = sent.id
    BY <1>3 DEF Refused, Refuses
  <2>2. /\ attempt = "refused"
        /\ account = "good" => judged # attempt_id /\ tries > 0
    BY <1>1, <2>1 DEF LogoffAnswer, TellsAttempt, AccountFits, RefusedLater
  <2>3. CASE pc = "md5" /\ Return(1)
    BY <1>1, <2>2, <2>3, ReadReturns DEF StagesInStep
  <2>4. CASE pc = "success" /\ Return(4)
    <3>1. account # "unknown" /\ (account = "good" \/ account = "bad_password")
      BY <1>1, <2>4 DEF StagesInStep, LoginTypeOK
    <3> QED
      BY <2>2, <2>4, <3>1, ReadReturns
  <2> QED
    BY <1>3, <2>3, <2>4 DEF Refused
<1> QED
  BY <1>2, <1>3

LEMMA IgnoredStep ==
  ASSUME LoginInv, ReadFrame, Ignored(Head(downlink))
  PROVE  LoginInv'
<1>1. /\ LoginTypeOK /\ StagesInStep /\ AttemptsCounted /\ DigestsFit /\ RefusedLater /\ UplinkInOrder
      /\ LogoffFirst /\ VerdictIsOfThisLogin
      /\ attempt' = attempt /\ attempt_id' = attempt_id /\ account' = account /\ judged' = judged
      /\ tries' = tries /\ waited' = waited /\ sent' = sent /\ uplink' = uplink
      /\ pc' = pc /\ result' = result /\ pc # "init"
  BY DEF ReadFrame, LoginInv, peer, Ignored
<1>2. LoginTypeOK'
  BY <1>1, FrameRead DEF LoginTypeOK
<1>3. UplinkInOrder' /\ FirstLogsOff' = FirstLogsOff
  BY <1>1 DEF UplinkInOrder, FirstLogsOff
<1>4. StagesInStep'
  BY <1>1 DEF StagesInStep
<1>5. AttemptsCounted'
  BY <1>1, <1>3 DEF AttemptsCounted, Started
<1>6. DigestsFit' /\ RefusedLater' /\ VerdictIsOfThisLogin'
  BY <1>1 DEF DigestsFit, RefusedLater, VerdictIsOfThisLogin
<1>7. LogoffFirst'
  BY <1>1, <1>3, FrameRead DEF LoginInv, LogoffFirst
<1> QED
  BY <1>2, <1>3, <1>4, <1>5, <1>6, <1>7, FrameRead DEF LoginInv

(* A request goes out again.                                               *)
LEMMA AskedAgain ==
  ASSUME LoginInv, ReadFrame, pc \in {"identity", "md5", "success"},
         tries + 1 < TryTimes, tries' = tries + 1, waited' = 0,
         Transmit(Request(Head(downlink))), pc' = pc, result' = result
  PROVE  LoginInv'
<1> DEFINE frame   == Head(downlink)
           request == Request(frame)
<1>1. /\ LoginTypeOK /\ StagesInStep /\ AttemptsCounted /\ DigestsFit /\ RefusedLater /\ UplinkInOrder
      /\ attempt' = attempt /\ attempt_id' = attempt_id /\ account' = account /\ judged' = judged
      /\ attempt_id \in 0 .. TryTimes + 1 /\ tries \in 0 .. TryTimes - 1
      /\ uplink \in Seq(Requests)
  BY IdFacts DEF ReadFrame, LoginInv, LoginTypeOK, peer
<1>2. frame \in Frames /\ TellsAttempt(frame)
  BY FrameRead
<1>3. /\ request \in Requests
      /\ pc = "identity" => request.type = "start"
      /\ pc = "md5" => request.type = "identity"
      /\ pc = "success" => request.type = "md5"
  BY <1>1, <1>2, RequestsBuilt DEF Request
<1>4. tries' \in 0 .. TryTimes - 1 /\ Transmit(request)
  BY <1>1, IdFacts
<1> HIDE DEF request
<1>5. /\ LoginTypeOK' /\ UplinkInOrder' /\ FramesTellAttempt' /\ AccountFits'
      /\ LogoffFirst' /\ VerdictIsOfThisLogin'
      /\ FirstLogsOff' = FirstLogsOff /\ Len(uplink) \in Nat
      /\ \A i \in DOMAIN uplink' :
           \/ i \in DOMAIN uplink /\ uplink'[i] = uplink[i]
           \/ i = Len(uplink) + 1 /\ uplink'[i] = request
  BY <1>3, <1>4, ReadSends
<1> HIDE DEF frame
<1>6. StagesInStep'
  BY <1>1, <1>3, <1>5 DEF StagesInStep, Early, Late
<1>7. DigestsFit' /\ RefusedLater'
  <2>1. tries' > 0
    BY <1>1
  <2> QED
    BY <1>1, <2>1 DEF DigestsFit, RefusedLater
<1>8. AttemptsCounted'
  <2>1. \A i \in DOMAIN uplink : i \in Nat
    BY <1>1
  <2>2. CASE pc # "identity"
    BY <1>1, <1>3, <1>5, <2>2 DEF AttemptsCounted, Started
  <2>3. CASE pc = "identity"
    <3>1. Started = tries + 1 /\ Started' = tries + 2 /\ attempt \notin Late
      BY <1>1, <2>3 DEF Started, StagesInStep
    <3>2. attempt_id <= tries + 1
      BY <1>1, <3>1 DEF AttemptsCounted
    <3>3. attempt_id + Len(uplink) + 1 - (IF FirstLogsOff THEN 1 ELSE 0) <= tries + 2
      <4>1. CASE uplink = <<>>
        BY <1>1, <3>2, <4>1 DEF FirstLogsOff
      <4>2. CASE uplink # <<>>
        <5>1. Len(uplink) \in DOMAIN uplink /\ uplink[Len(uplink)].type \in Early
          BY <1>1, <2>3, <4>2 DEF StagesInStep
        <5>2. CASE uplink[Len(uplink)].type = "logoff"
          <6>1. Len(uplink) = 1 /\ FirstLogsOff
            BY <1>1, <4>2, <5>1, <5>2 DEF UplinkInOrder, FirstLogsOff
          <6> QED
            BY <1>1, <3>2, <6>1
        <5>3. CASE uplink[Len(uplink)].type = "start"
          BY <1>1, <1>5, <3>1, <5>1, <5>3 DEF AttemptsCounted
        <5> QED
          BY <5>1, <5>2, <5>3 DEF Early
      <4> QED
        BY <4>1, <4>2
    <3> QED
      BY <1>1, <1>5, <2>1, <3>1, <3>2, <3>3 DEF AttemptsCounted
  <2> QED
    BY <2>2, <2>3
<1> QED
  BY <1>5, <1>6, <1>7, <1>8 DEF LoginInv

LEMMA TimedOutStep ==
  ASSUME LoginInv, ReadFrame, TimedOut(Head(downlink))
  PROVE  LoginInv'
<1>1. tries \in 0 .. TryTimes - 1 /\ pc \in {"identity", "md5", "success"}
  BY DEF LoginInv, LoginTypeOK, ReadFrame
<1>2. CASE tries + 1 >= TryTimes
  <2>1. Return(-2)
    BY <1>2 DEF TimedOut
  <2> QED
    BY <2>1, ReadReturns
<1>3. CASE ~(tries + 1 >= TryTimes)
  <2>1. /\ tries' = tries + 1 /\ waited' = 0 /\ Transmit(Request(Head(downlink)))
        /\ pc' = pc /\ result' = result
    BY <1>3 DEF TimedOut
  <2>2. tries + 1 < TryTimes
    BY <1>1, <1>3, IdFacts
  <2> QED
    BY <1>1, <2>1, <2>2, AskedAgain
<1> QED
  BY <1>2, <1>3

LEMMA ReadStep == LoginInv /\ ReadFrame => LoginInv'
<1> SUFFICES ASSUME LoginInv, ReadFrame PROVE LoginInv'
  OBVIOUS
<1>1. \/ Answered(Head(downlink)) \/ Refused(Head(downlink))
      \/ Ignored(Head(downlink)) \/ TimedOut(Head(downlink))
  BY DEF ReadFrame
<1> QED
  BY <1>1, AnsweredStep, VerdictStep, IgnoredStep, TimedOutStep

(* The clock, and the ways to stand still.                                 *)
LEMMA TickStep == LoginInv /\ Tick => LoginInv'
<1> SUFFICES ASSUME LoginInv, Tick PROVE LoginInv'
  OBVIOUS
<1>1. /\ waited \in 0 .. Timeout /\ waited' = waited + 1
      /\ UNCHANGED <<pc, tries, sent, result, downlink, uplink>>
      /\ attempt' = attempt /\ attempt_id' = attempt_id /\ account' = account /\ judged' = judged
  BY IdFacts DEF LoginInv, LoginTypeOK, Tick, peer
<1>2. waited' \in 0 .. Timeout + 1
  BY <1>1, IdFacts
<1>3. LoginTypeOK' /\ UplinkInOrder' /\ StagesInStep' /\ DigestsFit' /\ RefusedLater'
  BY <1>1, <1>2 DEF LoginInv, LoginTypeOK, UplinkInOrder, StagesInStep, DigestsFit, RefusedLater
<1>4. AttemptsCounted' /\ LogoffFirst'
  BY <1>1 DEF LoginInv, AttemptsCounted, Started, LogoffFirst, FirstLogsOff
<1>5. FramesTellAttempt' /\ AccountFits' /\ VerdictIsOfThisLogin'
  BY <1>1 DEF LoginInv, FramesTellAttempt, TellsAttempt, AccountFits, VerdictIsOfThisLogin
<1> QED
  BY <1>3, <1>4, <1>5 DEF LoginInv

LEMMA StandStill == LoginInv /\ UNCHANGED login => LoginInv'
<1> SUFFICES ASSUME LoginInv, UNCHANGED login PROVE LoginInv'
  OBVIOUS
<1>1. /\ UNCHANGED <<pc, tries, waited, sent, result, downlink, uplink>>
      /\ attempt' = attempt /\ attempt_id' = attempt_id /\ account' = account /\ judged' = judged
  BY DEF login, client, peer
<1>2. LoginTypeOK' /\ UplinkInOrder' /\ StagesInStep' /\ DigestsFit' /\ RefusedLater'
  BY <1>1 DEF LoginInv, LoginTypeOK, UplinkInOrder, StagesInStep, DigestsFit, RefusedLater
<1>3. AttemptsCounted' /\ LogoffFirst'
  BY <1>1 DEF LoginInv, AttemptsCounted, Started, LogoffFirst, FirstLogsOff
<1>4. FramesTellAttempt' /\ AccountFits' /\ VerdictIsOfThisLogin'
  BY <1>1 DEF LoginInv, FramesTellAttempt, TellsAttempt, AccountFits, VerdictIsOfThisLogin
<1> QED
  BY <1>2, <1>3, <1>4 DEF LoginInv

(* The interface does not open, or the logoff and the first start go out.  *)
LEMMA BeginStep == LoginInv /\ (NoInterface \/ Start) => LoginInv'
<1> SUFFICES ASSUME LoginInv, NoInterface \/ Start PROVE LoginInv'
  OBVIOUS
<1>1. /\ pc = "init" /\ uplink = <<>> /\ attempt = "idle" /\ attempt_id = 0
      /\ downlink' = downlink /\ tries' = tries /\ waited' = waited
      /\ attempt' = attempt /\ attempt_id' = attempt_id /\ account' = account /\ judged' = judged
      /\ tries \in 0 .. TryTimes - 1
      /\ LoginTypeOK /\ UplinkInOrder /\ StagesInStep /\ FramesTellAttempt /\ AccountFits
      /\ VerdictIsOfThisLogin /\ LogoffFirst
  BY DEF LoginInv, LoginTypeOK, StagesInStep, NoInterface, Start, Return, peer
<1>2. FramesTellAttempt' /\ AccountFits' /\ RefusedLater'
  BY <1>1 DEF FramesTellAttempt, TellsAttempt, AccountFits, RefusedLater
<1>3. CASE NoInterface
  <2>1. pc' = "done" /\ result' = -1 /\ sent' = sent /\ uplink' = uplink
    BY <1>3 DEF NoInterface, Return
  <2>2. LoginTypeOK' /\ UplinkInOrder' /\ StagesInStep' /\ VerdictIsOfThisLogin'
    BY <1>1, <2>1 DEF LoginTypeOK, UplinkInOrder, StagesInStep, VerdictIsOfThisLogin, Late
  <2>5. DigestsFit'
    BY <1>1, <2>1 DEF DigestsFit
  <2>3. AttemptsCounted'
    BY <1>1, <2>1, IdFacts DEF AttemptsCounted, Started, Late
  <2>4. LogoffFirst'
    BY <1>1, <2>1 DEF LogoffFirst, FirstLogsOff
  <2> QED
    BY <1>2, <2>2, <2>3, <2>4, <2>5 DEF LoginInv
<1>4. CASE Start
  <2> DEFINE logoff == Broadcast("logoff", LogoffId)
             start  == [logoff EXCEPT !.type = "start"]
  <2>1. /\ pc' = "identity" /\ result' = result /\ sent' = start
        /\ uplink' = <<logoff, start>>
    BY <1>4 DEF Start
  <2>2. logoff \in Requests /\ logoff.type = "logoff"
    <3>1. sent \in Requests /\ LogoffId \in AnyId
      BY <1>1 DEF LoginTypeOK, AnyId
    <3> QED
      BY <3>1 DEF Broadcast, Requests
  <2>3. start \in Requests /\ start.type = "start"
    BY <2>2 DEF Requests
  <2> HIDE DEF logoff, start
  <2>4. /\ uplink' \in Seq(Requests) /\ uplink' # <<>> /\ uplink'[1] = logoff
        /\ \A i \in DOMAIN uplink' : \/ i = 1 /\ uplink'[1] = logoff
                                     \/ i = 2 /\ uplink'[2] = start
    <3>1. \A i \in 1 .. 2 : i = 1 \/ i = 2
      OBVIOUS
    <3>2. <<logoff, start>> \in Seq(Requests) /\ Len(<<logoff, start>>) = 2
      BY <2>2, <2>3
    <3>3. DOMAIN uplink' = 1 .. 2 /\ uplink'[1] = logoff /\ uplink'[2] = start
      BY <2>1
    <3>4. uplink' \in Seq(Requests) /\ uplink' # <<>>
      BY <2>1, <3>2
    <3>5. \A i \in DOMAIN uplink' : i = 1 \/ i = 2
      BY <3>1, <3>3
    <3> QED
      BY <3>3, <3>4, <3>5
  <2>5. LoginTypeOK' /\ VerdictIsOfThisLogin'
    BY <1>1, <2>1, <2>3, <2>4 DEF LoginTypeOK, VerdictIsOfThisLogin
  <2>6. UplinkInOrder'
    <3> SUFFICES ASSUME NEW i \in DOMAIN uplink'
                 PROVE  /\ uplink'[i].type = "logoff" => i = 1
                        /\ uplink'[i].type \in Early =>
                             \A j \in 1 .. i : uplink'[j].type \in Early
      BY DEF UplinkInOrder
    <3>1. \A j \in 1 .. i : j \in {1, 2}
      BY <2>4
    <3>2. uplink'[1] = logoff /\ uplink'[2] = start
      BY <2>1
    <3> QED
      BY <2>2, <2>3, <2>4, <3>1, <3>2 DEF Early
  <2>7. StagesInStep'
    BY <1>1, <2>1, <2>2, <2>3, <2>4 DEF StagesInStep, Early, Late
  <2>8. AttemptsCounted'
    <3>1. Started' = tries + 1 /\ FirstLogsOff'
      BY <1>1, <2>1, <2>2, <2>4 DEF Started, FirstLogsOff
    <3> QED
      BY <1>1, <2>2, <2>3, <2>4, <3>1 DEF AttemptsCounted, Late
  <2>9. LogoffFirst'
    BY <1>1, <2>1 DEF LogoffFirst, LogoffAnswer
  <2>10. DigestsFit'
    BY <2>2, <2>3, <2>4 DEF DigestsFit
  <2> QED
    BY <1>2, <2>5, <2>6, <2>7, <2>8, <2>9, <2>10 DEF LoginInv
<1> QED
  BY <1>3, <1>4

(* A frame arrives in the client's socket, or not.                         *)
LEMMA FrameComes ==
  ASSUME LoginInv, NEW frame \in Frames, Send(frame)
  PROVE  /\ downlink' \in Seq(Frames) /\ Len(downlink') <= LinkCap
         /\ Len(downlink) \in Nat /\ DOMAIN downlink = 1 .. Len(downlink)
         /\ \A i \in DOMAIN downlink' :
              \/ i \in DOMAIN downlink /\ downlink'[i] = downlink[i]
              \/ i = Len(downlink) + 1 /\ downlink'[i] = frame
<1>1. downlink \in Seq(Frames) /\ Len(downlink) <= LinkCap
  BY DEF LoginInv, LoginTypeOK
<1>2. Len(downlink) \in Nat /\ DOMAIN downlink = 1 .. Len(downlink)
  BY <1>1
<1>3. CASE Len(downlink) < LinkCap /\ downlink' = Append(downlink, frame)
  BY <1>1, <1>3, IdFacts, WithLast
<1>4. CASE UNCHANGED downlink
  BY <1>1, <1>2, <1>4
<1> QED
  BY <1>3, <1>4 DEF Send

(* The first request is taken off the link.                                *)
LEMMA RequestTaken ==
  ASSUME LoginInv, uplink # <<>>, uplink' = Tail(uplink)
  PROVE  /\ Head(uplink) = uplink[1] /\ uplink[1] \in Requests /\ 1 \in DOMAIN uplink
         /\ uplink' \in Seq(Requests) /\ UplinkInOrder' /\ ~FirstLogsOff'
         /\ \A i \in DOMAIN uplink' :
              i \in Nat \ {0} /\ i + 1 \in DOMAIN uplink /\ uplink'[i] = uplink[i + 1]
         /\ uplink[1].type \notin Early =>
              \A i \in DOMAIN uplink : uplink[i].type \notin Early
<1>1. uplink \in Seq(Requests) /\ UplinkInOrder
  BY DEF LoginInv, LoginTypeOK
<1>2. /\ Head(uplink) = uplink[1] /\ uplink[1] \in Requests /\ 1 \in DOMAIN uplink
      /\ DOMAIN uplink = 1 .. Len(uplink) /\ Len(uplink) \in Nat
      /\ uplink' \in Seq(Requests) /\ Len(uplink') = Len(uplink) - 1
      /\ \A i \in DOMAIN uplink' :
           i \in Nat \ {0} /\ i + 1 \in DOMAIN uplink /\ uplink'[i] = uplink[i + 1]
  BY <1>1, WithoutHead
<1>3. UplinkInOrder'
  <2> SUFFICES ASSUME NEW i \in DOMAIN uplink'
               PROVE  /\ uplink'[i].type = "logoff" => i = 1
                      /\ uplink'[i].type \in Early =>
                           \A j \in 1 .. i : uplink'[j].type \in Early
    BY DEF UplinkInOrder
  <2>1. i \in Nat \ {0} /\ i + 1 \in DOMAIN uplink /\ uplink'[i] = uplink[i + 1] /\ i + 1 # 1
    BY <1>2
  <2>2. uplink'[i].type # "logoff"
    BY <1>1, <2>1 DEF UplinkInOrder
  <2>3. ASSUME uplink'[i].type \in Early, NEW j \in 1 .. i
        PROVE  uplink'[j].type \in Early
    <3>1. j + 1 \in 1 .. i + 1 /\ uplink[j + 1].type \in Early
      BY <1>1, <2>1, <2>3 DEF UplinkInOrder
    <3>2. j \in DOMAIN uplink'
      BY <1>2, <2>1
    <3> QED
      BY <1>2, <3>1, <3>2
  <2> QED
    BY <2>2, <2>3
<1>4. ~FirstLogsOff'
  <2> SUFFICES ASSUME uplink' # <<>>, uplink'[1].type = "logoff" PROVE FALSE
    BY DEF FirstLogsOff
  <2>1. 1 \in DOMAIN uplink'
    BY <1>2, WithoutHead
  <2>2. 1 + 1 \in DOMAIN uplink /\ uplink[1 + 1].type = "logoff" /\ 1 + 1 # 1
    BY <1>2, <2>1
  <2> QED
    BY <1>1, <2>2 DEF UplinkInOrder
<1>5. ASSUME uplink[1].type \notin Early, NEW i \in DOMAIN uplink
      PROVE  uplink[i].type \notin Early
  <2>1. 1 \in 1 .. i
    BY <1>2
  <2> QED
    BY <1>1, <1>5, <2>1 DEF UplinkInOrder
<1> QED
  BY <1>2, <1>3, <1>4, <1>5

(* A frame that is not the logoff's answer leaves what is known of that.   *)
LEMMA OtherFrameComes ==
  ASSUME LoginInv, NEW frame \in Frames, Send(frame), ~LogoffAnswer(frame),
         pc' = pc, FirstLogsOff' => FirstLogsOff, FirstLogsOff' => attempt' = "idle",
         frame.type = "noise" \/ (pc # "init" /\ ~FirstLogsOff')
  PROVE  LogoffFirst'
<1>1. /\ Len(downlink) \in Nat /\ DOMAIN downlink = 1 .. Len(downlink) /\ LogoffFirst
      /\ Len(downlink') \in Nat /\ DOMAIN downlink' = 1 .. Len(downlink')
      /\ \A i \in DOMAIN downlink' :
           \/ i \in DOMAIN downlink /\ downlink'[i] = downlink[i]
           \/ i = Len(downlink) + 1 /\ downlink'[i] = frame
  BY FrameComes DEF LoginInv
<1>2. \A i \in DOMAIN downlink' : LogoffAnswer(downlink'[i]) =>
        /\ pc \notin {"md5", "success"}
        /\ \A j \in 1 .. i - 1 : downlink'[j].type = "noise"
  <2> SUFFICES ASSUME NEW i \in DOMAIN downlink', LogoffAnswer(downlink'[i])
               PROVE  /\ pc \notin {"md5", "success"}
                      /\ \A j \in 1 .. i - 1 : downlink'[j].type = "noise"
    OBVIOUS
  <2>1. i \in DOMAIN downlink /\ downlink'[i] = downlink[i]
    BY <1>1
  <2>2. \A j \in 1 .. i - 1 : j \in DOMAIN downlink /\ downlink'[j] = downlink[j]
    BY <1>1, <2>1
  <2> QED
    BY <1>1, <2>1, <2>2 DEF LogoffFirst
<1> QED
  BY <1>1, <1>2 DEF LogoffFirst

(* What the authenticator sends.                                           *)
LEMMA FramesBuilt ==
  ASSUME NEW type \in {"identity", "md5", "success", "fail"}, NEW id \in AnyId
  PROVE  /\ Frame(type, id) \in Frames
         /\ Frame(type, id).type = type /\ Frame(type, id).id = id
         /\ Frame(type, id).from = "server"
BY DEF Frame, Frames

LEMMA NoiseStep == LoginInv /\ NoiseComes => LoginInv'
<1> SUFFICES ASSUME LoginInv, NoiseComes PROVE LoginInv'
  OBVIOUS
<1>1. /\ pc' = pc /\ tries' = tries /\ waited' = waited
      /\ sent' = sent /\ result' = result /\ uplink' = uplink
      /\ attempt' = attempt /\ attempt_id' = attempt_id /\ account' = account /\ judged' = judged
  BY DEF NoiseComes, client, peer
<1>2. PICK noise \in NoiseFrames : Send(noise)
  BY DEF NoiseComes
<1>3. noise \in Frames /\ ~LogoffAnswer(noise) /\ TellsAttempt(noise) /\ noise.type = "noise"
  BY DEF NoiseFrames, Frames, TellsAttempt, LogoffAnswer
<1>4. FirstLogsOff' => FirstLogsOff
  BY <1>1 DEF FirstLogsOff
<1>5. LogoffFirst'
  BY <1>1, <1>2, <1>4, <1>3, OtherFrameComes DEF LoginInv, LogoffFirst
<1>6. /\ downlink' \in Seq(Frames) /\ Len(downlink') <= LinkCap
      /\ \A i \in DOMAIN downlink' :
           \/ i \in DOMAIN downlink /\ downlink'[i] = downlink[i]
           \/ i = Len(downlink) + 1 /\ downlink'[i] = noise
  BY <1>1, <1>2, <1>3, FrameComes
<1>7. FramesTellAttempt'
  BY <1>1, <1>6, <1>3 DEF LoginInv, FramesTellAttempt, TellsAttempt
<1>8. LoginTypeOK' /\ UplinkInOrder' /\ StagesInStep' /\ DigestsFit' /\ RefusedLater'
  BY <1>1, <1>6 DEF LoginInv, LoginTypeOK, UplinkInOrder, StagesInStep, DigestsFit, RefusedLater
<1>9. AttemptsCounted' /\ AccountFits' /\ VerdictIsOfThisLogin'
  BY <1>1 DEF LoginInv, AttemptsCounted, Started, FirstLogsOff, AccountFits, VerdictIsOfThisLogin
<1> QED
  BY <1>5, <1>7, <1>8, <1>9 DEF LoginInv

LEMMA AskAgainStep == LoginInv /\ ServerAsksAgain => LoginInv'
<1> SUFFICES ASSUME LoginInv, ServerAsksAgain PROVE LoginInv'
  OBVIOUS
<1> DEFINE frame == Frame(attempt, attempt_id)
<1>1. /\ pc' = pc /\ tries' = tries /\ waited' = waited
      /\ sent' = sent /\ result' = result /\ uplink' = uplink
      /\ attempt' = attempt /\ attempt_id' = attempt_id /\ account' = account /\ judged' = judged
      /\ Send(frame) /\ attempt \in {"identity", "md5"}
      /\ AccountFits /\ attempt_id \in 0 .. TryTimes + 1
  BY IdFacts DEF ServerAsksAgain, client, peer, LoginInv, LoginTypeOK
<1>2. /\ frame \in Frames /\ frame.id # LogoffId /\ frame.type = attempt
      /\ frame.id = attempt_id /\ frame.from = "server"
  <2>1. attempt_id \in AnyId /\ attempt_id # LogoffId
    BY <1>1, IdFacts
  <2> QED
    BY <1>1, <2>1, FramesBuilt
<1> HIDE DEF frame
<1>3. TellsAttempt(frame)
  BY <1>1, <1>2 DEF TellsAttempt, AccountFits, Late
<1>4. FirstLogsOff' => FirstLogsOff
  BY <1>1 DEF FirstLogsOff
<1>5. LogoffFirst'
  <2>1. pc # "init" /\ ~FirstLogsOff /\ ~LogoffAnswer(frame)
    BY <1>1, <1>2 DEF LoginInv, StagesInStep, LogoffFirst, LogoffAnswer
  <2> QED
    BY <1>1, <1>2, <1>4, <2>1, OtherFrameComes
<1>6. /\ downlink' \in Seq(Frames) /\ Len(downlink') <= LinkCap
      /\ \A i \in DOMAIN downlink' :
           \/ i \in DOMAIN downlink /\ downlink'[i] = downlink[i]
           \/ i = Len(downlink) + 1 /\ downlink'[i] = frame
  BY <1>1, <1>2, FrameComes
<1>7. FramesTellAttempt'
  BY <1>1, <1>2, <1>3, <1>6 DEF LoginInv, FramesTellAttempt, TellsAttempt
<1>8. LoginTypeOK' /\ UplinkInOrder' /\ StagesInStep' /\ DigestsFit' /\ RefusedLater'
  BY <1>1, <1>6 DEF LoginInv, LoginTypeOK, UplinkInOrder, StagesInStep, DigestsFit, RefusedLater
<1>9. AttemptsCounted' /\ AccountFits' /\ VerdictIsOfThisLogin'
  BY <1>1 DEF LoginInv, AttemptsCounted, Started, FirstLogsOff, AccountFits, VerdictIsOfThisLogin
<1> QED
  BY <1>5, <1>7, <1>8, <1>9 DEF LoginInv

(* A request that is lost, or that the authenticator makes nothing of.     *)
LEMMA RequestGone ==
  ASSUME LoginInv, uplink # <<>>, uplink' = Tail(uplink),
         UNCHANGED <<client, peer, downlink>>
  PROVE  LoginInv'
<1>1. /\ pc' = pc /\ tries' = tries /\ waited' = waited
      /\ sent' = sent /\ result' = result /\ downlink' = downlink
      /\ attempt' = attempt /\ attempt_id' = attempt_id /\ account' = account /\ judged' = judged
      /\ AttemptsCounted /\ LoginTypeOK /\ tries \in 0 .. TryTimes - 1
      /\ attempt_id \in 0 .. TryTimes + 1
  BY IdFacts DEF client, peer, LoginInv, LoginTypeOK
<1>2. /\ uplink' \in Seq(Requests) /\ UplinkInOrder' /\ ~FirstLogsOff'
      /\ \A i \in DOMAIN uplink' :
           i \in Nat \ {0} /\ i + 1 \in DOMAIN uplink /\ uplink'[i] = uplink[i + 1]
  BY RequestTaken
<1>3. LoginTypeOK'
  BY <1>1, <1>2 DEF LoginTypeOK
<1>4. StagesInStep'
  <2>1. pc # "init"
    BY <1>1 DEF LoginInv, StagesInStep
  <2> QED
    BY <1>1, <1>2, <2>1 DEF LoginInv, StagesInStep
<1>5. DigestsFit' /\ RefusedLater' /\ FramesTellAttempt' /\ AccountFits' /\ VerdictIsOfThisLogin'
  BY <1>1, <1>2 DEF LoginInv, DigestsFit, RefusedLater, FramesTellAttempt, TellsAttempt, AccountFits,
                    VerdictIsOfThisLogin
<1>6. LogoffFirst'
  BY <1>1, <1>2 DEF LoginInv, LogoffFirst
<1>7. AttemptsCounted'
  <2>1. Started' = Started /\ Started \in Int
    BY <1>1, IdFacts DEF Started
  <2>2. ASSUME NEW i \in DOMAIN uplink', uplink'[i].type = "start"
        PROVE  attempt_id + i <= Started
    <3>1. attempt_id + (i + 1) - (IF FirstLogsOff THEN 1 ELSE 0) <= Started
      BY <1>1, <1>2, <2>2 DEF AttemptsCounted
    <3>2. i \in Nat
      BY <1>2, <2>2
    <3> QED
      BY <1>1, <2>1, <3>1, <3>2
  <2>3. \A i \in DOMAIN uplink' : uplink'[i].type = "start" =>
          attempt_id' + i - (IF FirstLogsOff' THEN 1 ELSE 0) <= Started'
    <3> SUFFICES ASSUME NEW i \in DOMAIN uplink', uplink'[i].type = "start"
                 PROVE  attempt_id + i - 0 <= Started
      BY <1>1, <1>2, <2>1
    <3> QED
      BY <1>1, <1>2, <2>2
  <2> QED
    BY <1>1, <2>1, <2>3 DEF AttemptsCounted
<1> QED
  BY <1>2, <1>3, <1>4, <1>5, <1>6, <1>7 DEF LoginInv

(* The authenticator takes up a request; the client does nothing.          *)
LEMMA RequestRead ==
  ASSUME LoginInv, ServerReads
  PROVE  /\ pc' = pc /\ tries' = tries /\ waited' = waited
         /\ sent' = sent /\ result' = result /\ account' = account
         /\ uplink' \in Seq(Requests) /\ UplinkInOrder' /\ ~FirstLogsOff' /\ pc # "init"
         /\ \A i \in DOMAIN uplink' :
              i \in Nat \ {0} /\ i + 1 \in DOMAIN uplink /\ uplink'[i] = uplink[i + 1]
         /\ Head(uplink) = uplink[1] /\ uplink[1] \in Requests /\ 1 \in DOMAIN uplink
         /\ uplink[1].type \notin Early => \A i \in DOMAIN uplink : uplink[i].type \notin Early
         /\ LoginTypeOK /\ attempt_id \in 0 .. TryTimes + 1 /\ tries \in 0 .. TryTimes - 1
         /\ judged \in AnyId
         /\ Started' = Started /\ Started \in 0 .. TryTimes
<1>1. /\ pc' = pc /\ tries' = tries /\ waited' = waited
      /\ sent' = sent /\ result' = result /\ account' = account
      /\ uplink # <<>> /\ uplink' = Tail(uplink)
      /\ LoginTypeOK /\ attempt_id \in 0 .. TryTimes + 1 /\ tries \in 0 .. TryTimes - 1
      /\ judged \in AnyId
  BY IdFacts DEF ServerReads, client, LoginInv, LoginTypeOK
<1>2. pc # "init"
  BY <1>1 DEF LoginInv, StagesInStep
<1>3. Started' = Started /\ Started \in 0 .. TryTimes
  BY <1>1, IdFacts DEF Started
<1> QED
  BY <1>1, <1>2, <1>3, RequestTaken

(* What remains to be shown when the authenticator has taken a step.       *)
LEMMA AuthenticatorSends ==
  ASSUME LoginInv, ServerReads, NEW frame \in Frames, Send(frame),
         attempt' \in {"idle", "identity", "md5", "granted", "refused"},
         attempt_id' \in Ids, judged' \in AnyId,
         LogoffAnswer(frame) <=> FirstLogsOff
  PROVE  /\ LoginTypeOK' /\ LogoffFirst'
         /\ \A i \in DOMAIN downlink' :
              \/ i \in DOMAIN downlink /\ downlink'[i] = downlink[i]
              \/ i = Len(downlink) + 1 /\ downlink'[i] = frame
<1>1. /\ downlink' \in Seq(Frames) /\ Len(downlink') <= LinkCap
      /\ Len(downlink) \in Nat /\ DOMAIN downlink = 1 .. Len(downlink)
      /\ \A i \in DOMAIN downlink' :
           \/ i \in DOMAIN downlink /\ downlink'[i] = downlink[i]
           \/ i = Len(downlink) + 1 /\ downlink'[i] = frame
  BY FrameComes
<1>2. LoginTypeOK'
  BY <1>1, RequestRead DEF LoginTypeOK
<1>3. pc' = pc /\ sent' = sent /\ ~FirstLogsOff' /\ pc # "init"
  BY RequestRead
<1>4. LogoffFirst'
  <2>1. CASE ~LogoffAnswer(frame)
    BY <1>3, <2>1, OtherFrameComes
  <2>2. CASE LogoffAnswer(frame)
    <3>1. /\ \A i \in DOMAIN downlink : downlink[i].type = "noise"
          /\ pc \notin {"md5", "success"}
      BY <2>2 DEF LoginInv, LogoffFirst
    <3>2. \A i \in DOMAIN downlink' : \A j \in 1 .. i - 1 : j \in DOMAIN downlink' /\ j # Len(downlink) + 1
      BY <1>1
    <3> QED
      BY <1>1, <1>3, <3>1, <3>2 DEF LogoffFirst
  <2> QED
    BY <2>1, <2>2
<1> QED
  BY <1>1, <1>2, <1>4

LEMMA LogsOffStep ==
  ASSUME LoginInv, ServerReads, ServerLogsOff(Head(uplink))
  PROVE  LoginInv'
<1> DEFINE frame == Frame("fail", LogoffId)
<1>1. /\ uplink[1].type = "logoff" /\ Send(frame) /\ attempt' = "idle" /\ attempt_id' = attempt_id
      /\ judged' = judged
  BY RequestRead DEF ServerLogsOff
<1>2. frame \in Frames /\ frame.type = "fail" /\ frame.id = LogoffId /\ frame.from = "server"
  BY FramesBuilt, IdFacts
<1> HIDE DEF frame
<1>3. FirstLogsOff
  <2>1. uplink # <<>>
    BY DEF ServerReads
  <2> QED
    BY <1>1, <2>1 DEF FirstLogsOff
<1>4. /\ LoginTypeOK' /\ LogoffFirst'
      /\ \A i \in DOMAIN downlink' :
           \/ i \in DOMAIN downlink /\ downlink'[i] = downlink[i]
           \/ i = Len(downlink) + 1 /\ downlink'[i] = frame
  <2>1. attempt_id \in Ids
    BY DEF LoginInv, LoginTypeOK
  <2> QED
    BY <1>1, <1>2, <1>3, <2>1, RequestRead, AuthenticatorSends DEF LogoffAnswer
<1>5. attempt \notin Late
  BY <1>1, RequestRead DEF LoginInv, StagesInStep, Early
<1>6. FramesTellAttempt'
  BY <1>1, <1>2, <1>4, <1>5, RequestRead DEF LoginInv, FramesTellAttempt, TellsAttempt, Late
<1>7. UplinkInOrder' /\ StagesInStep'
  BY <1>1, <1>5, RequestRead DEF LoginInv, StagesInStep, Late
<1>8. AttemptsCounted'
  <2>1. AttemptsCounted /\ attempt' \notin Late
    BY <1>1 DEF LoginInv, Late
  <2>2. \A i \in DOMAIN uplink' : uplink'[i].type = "start" => attempt_id + i <= Started
    <3> SUFFICES ASSUME NEW i \in DOMAIN uplink', uplink'[i].type = "start"
                 PROVE  attempt_id + i <= Started
      OBVIOUS
    <3>1. /\ i \in Nat /\ attempt_id + (i + 1) - 1 <= Started
      BY <1>3, <2>1, RequestRead DEF AttemptsCounted
    <3> QED
      BY <3>1, RequestRead
  <2>3. \A i \in DOMAIN uplink' : uplink'[i].type = "start" => attempt_id + i - 0 <= Started
    BY <2>2, RequestRead
  <2> QED
    BY <1>1, <1>5, <2>1, <2>3, RequestRead DEF AttemptsCounted
<1>9. DigestsFit' /\ RefusedLater' /\ AccountFits' /\ VerdictIsOfThisLogin'
  BY <1>1, <1>5, RequestRead DEF LoginInv, DigestsFit, RefusedLater, AccountFits, VerdictIsOfThisLogin, Late
<1> QED
  BY <1>4, <1>6, <1>7, <1>8, <1>9 DEF LoginInv

LEMMA AsksIdentityStep ==
  ASSUME LoginInv, ServerReads, ServerAsksIdentity(Head(uplink))
  PROVE  LoginInv'
<1>1. /\ uplink[1].type = "start" /\ attempt' = "identity" /\ attempt_id' = attempt_id + 1
      /\ judged' = judged
      /\ Send(Frame("identity", attempt_id + 1))
  BY RequestRead DEF ServerAsksIdentity
<1>2. attempt \notin Late /\ ~FirstLogsOff
  BY <1>1, RequestRead DEF LoginInv, StagesInStep, Early, FirstLogsOff
<1>3. attempt_id + 1 <= Started
  <2>1. attempt_id + 1 - 0 <= Started
    BY <1>1, <1>2, RequestRead DEF LoginInv, AttemptsCounted
  <2> QED
    BY <2>1, RequestRead
<1>4. attempt_id + 1 \in Ids /\ attempt_id + 1 # LogoffId /\ attempt_id + 1 \in AnyId
  BY <1>3, IdFacts, RequestRead
<1> DEFINE frame == Frame("identity", attempt_id + 1)
<1>5. /\ frame \in Frames /\ frame.type = "identity" /\ frame.id = attempt_id + 1
      /\ frame.from = "server"
  BY <1>4, FramesBuilt
<1>6. Send(frame)
  BY <1>1
<1> HIDE DEF frame
<1>7. /\ LoginTypeOK' /\ LogoffFirst'
      /\ \A i \in DOMAIN downlink' :
           \/ i \in DOMAIN downlink /\ downlink'[i] = downlink[i]
           \/ i = Len(downlink) + 1 /\ downlink'[i] = frame
  BY <1>1, <1>2, <1>4, <1>5, <1>6, RequestRead, AuthenticatorSends DEF LogoffAnswer
<1>8. FramesTellAttempt'
  <2>1. \A i \in DOMAIN downlink' :
          /\ downlink'[i] \in Frames
          /\ downlink'[i].type # "noise" => downlink'[i].from = "server"
          /\ downlink'[i] = frame \/ TellsAttempt(downlink'[i])
    BY <1>5, <1>7 DEF LoginInv, FramesTellAttempt, LoginTypeOK
  <2>2. \A f \in Frames : f.type = "identity" => f.id \in AnyId
    BY DEF Frames
  <2>3. \A f \in Frames : f.type # "md5" /\ f.type # "success" /\ f.type # "identity"
                          => f.type \in {"fail", "noise"}
    BY DEF Frames
  <2>4. \A i \in DOMAIN downlink' :
          /\ downlink'[i].type = "identity" => downlink'[i].id <= attempt_id + 1
          /\ downlink'[i].type = "md5" => FALSE
          /\ downlink'[i].type = "success" => FALSE
          /\ downlink'[i].type = "fail" => downlink'[i].id = LogoffId
    <3> SUFFICES ASSUME NEW f \in Frames, f = frame \/ TellsAttempt(f)
                 PROVE  /\ f.type = "identity" => f.id <= attempt_id + 1
                        /\ f.type = "md5" => FALSE
                        /\ f.type = "success" => FALSE
                        /\ f.type = "fail" => f.id = LogoffId
      BY <2>1
    <3>1. CASE f = frame
      BY <1>4, <1>5, <3>1, IdFacts, RequestRead
    <3>2. CASE TellsAttempt(f)
      BY <1>2, <2>2, <3>2, IdFacts, RequestRead DEF TellsAttempt, Late
    <3> QED
      BY <3>1, <3>2
  <2> QED
    BY <1>1, <2>1, <2>4 DEF FramesTellAttempt, TellsAttempt
<1>9. UplinkInOrder' /\ StagesInStep'
  BY <1>1, <1>2, RequestRead DEF LoginInv, StagesInStep, Late
<1>10. AttemptsCounted'
  <2>1. \A i \in DOMAIN uplink' : uplink'[i].type = "start" => attempt_id + 1 + i - 0 <= Started
    <3> SUFFICES ASSUME NEW i \in DOMAIN uplink', uplink'[i].type = "start"
                 PROVE  attempt_id + 1 + i - 0 <= Started
      OBVIOUS
    <3>1. i \in Nat /\ attempt_id + (i + 1) - 0 <= Started
      BY <1>2, RequestRead DEF LoginInv, AttemptsCounted
    <3> QED
      BY <3>1, RequestRead
  <2>2. attempt' \notin Late
    BY <1>1 DEF Late
  <2> QED
    BY <1>1, <1>3, <2>1, <2>2, RequestRead DEF AttemptsCounted
<1>11. DigestsFit' /\ RefusedLater' /\ AccountFits' /\ VerdictIsOfThisLogin'
  BY <1>1, <1>2, RequestRead DEF LoginInv, DigestsFit, RefusedLater, AccountFits, VerdictIsOfThisLogin, Late
<1> QED
  BY <1>7, <1>8, <1>9, <1>10, <1>11 DEF LoginInv

LEMMA AsksMd5Step ==
  ASSUME LoginInv, ServerReads, ServerAsksMd5(Head(uplink))
  PROVE  LoginInv'
<1>1. uplink[1].type = "identity" /\ attempt = "identity" /\ judged' = judged
  BY RequestRead DEF ServerAsksMd5
<1>2. /\ \A i \in DOMAIN uplink : uplink[i].type \notin Early /\ uplink[i].type # "md5"
      /\ pc \notin {"init", "identity", "success"}
  BY <1>1, RequestRead DEF LoginInv, StagesInStep, Early, Late
<1>3. /\ \A i \in DOMAIN uplink' : uplink'[i].type \notin Early /\ uplink'[i].type # "md5"
      /\ pc' = pc /\ account' = account /\ result' = result /\ UplinkInOrder'
  BY <1>2, RequestRead
<1>4. Started = TryTimes /\ Started' = TryTimes /\ attempt_id <= TryTimes
  BY <1>1, <1>2, RequestRead DEF Started, LoginInv, AttemptsCounted, Late
<1>5. attempt_id \in Ids /\ attempt_id + 1 \in Ids /\ attempt_id # LogoffId
      /\ attempt_id + 1 # LogoffId /\ attempt_id \in AnyId /\ attempt_id + 1 \in AnyId
  BY <1>4, IdFacts, RequestRead
<1>6. \A i \in DOMAIN downlink :
        /\ downlink[i] \in Frames /\ TellsAttempt(downlink[i])
        /\ downlink[i].type # "noise" => downlink[i].from = "server"
  BY DEF LoginInv, FramesTellAttempt, LoginTypeOK
<1>7. \A f \in Frames : TellsAttempt(f) =>
        /\ f.type = "identity" => f.id <= attempt_id /\ f.id < attempt_id + 1
        /\ f.type # "md5" /\ f.type # "success"
        /\ f.type = "fail" => f.id = LogoffId
  <2> SUFFICES ASSUME NEW f \in Frames, TellsAttempt(f)
               PROVE  /\ f.type = "identity" => f.id <= attempt_id /\ f.id < attempt_id + 1
                      /\ f.type # "md5" /\ f.type # "success"
                      /\ f.type = "fail" => f.id = LogoffId
    OBVIOUS
  <2>1. f.id \in AnyId
    BY DEF Frames
  <2> QED
    BY <1>1, <2>1, IdFacts, RequestRead DEF TellsAttempt, Late
<1>8. ~FirstLogsOff
  BY <1>1 DEF LoginInv, LogoffFirst
<1>9. CASE account = "unknown"
  <2> DEFINE frame == Frame("fail", attempt_id)
  <2>1. attempt' = "refused" /\ attempt_id' = attempt_id /\ Send(frame)
    BY <1>9 DEF ServerAsksMd5
  <2>2. frame \in Frames /\ frame.type = "fail" /\ frame.id = attempt_id /\ frame.from = "server"
    BY <1>5, FramesBuilt
  <2> HIDE DEF frame
  <2>3. /\ LoginTypeOK' /\ LogoffFirst'
        /\ \A i \in DOMAIN downlink' :
             \/ i \in DOMAIN downlink /\ downlink'[i] = downlink[i]
             \/ i = Len(downlink) + 1 /\ downlink'[i] = frame
    BY <1>1, <1>5, <1>8, <2>1, <2>2, RequestRead, AuthenticatorSends DEF LogoffAnswer
  <2>4. FramesTellAttempt'
    BY <1>3, <1>6, <1>7, <2>1, <2>2, <2>3 DEF FramesTellAttempt, TellsAttempt
  <2>5. StagesInStep'
    BY <1>2, <1>3, <1>9, <2>1 DEF LoginInv, StagesInStep
  <2>6. AttemptsCounted'
    BY <1>3, <1>4, <2>1, IdFacts, RequestRead DEF AttemptsCounted, Late, Early
  <2>7. DigestsFit' /\ RefusedLater' /\ AccountFits' /\ VerdictIsOfThisLogin'
    BY <1>1, <1>3, <1>9, <2>1 DEF LoginInv, DigestsFit, RefusedLater, AccountFits, VerdictIsOfThisLogin
  <2> QED
    BY <1>3, <2>3, <2>4, <2>5, <2>6, <2>7 DEF LoginInv
<1>10. CASE account # "unknown"
  <2> DEFINE frame == Frame("md5", attempt_id + 1)
  <2>1. attempt' = "md5" /\ attempt_id' = attempt_id + 1 /\ Send(frame)
    BY <1>10 DEF ServerAsksMd5
  <2>2. frame \in Frames /\ frame.type = "md5" /\ frame.id = attempt_id + 1
        /\ frame.from = "server"
    BY <1>5, FramesBuilt
  <2> HIDE DEF frame
  <2>3. /\ LoginTypeOK' /\ LogoffFirst'
        /\ \A i \in DOMAIN downlink' :
             \/ i \in DOMAIN downlink /\ downlink'[i] = downlink[i]
             \/ i = Len(downlink) + 1 /\ downlink'[i] = frame
    BY <1>1, <1>5, <1>8, <2>1, <2>2, RequestRead, AuthenticatorSends DEF LogoffAnswer
  <2>4. FramesTellAttempt'
    <3>1. frame.id <= attempt_id + 1
      BY <2>2, RequestRead
    <3>2. ASSUME NEW i \in DOMAIN downlink'
          PROVE  /\ downlink'[i].type = "identity" => /\ downlink'[i].id <= attempt_id'
                                                     /\ downlink'[i].id < attempt_id'
                 /\ downlink'[i].type = "md5" => downlink'[i].id <= attempt_id'
                 /\ downlink'[i].type # "success"
                 /\ downlink'[i].type = "fail" => downlink'[i].id = LogoffId
                 /\ downlink'[i].type # "noise" => downlink'[i].from = "server"
      <4>1. CASE downlink'[i] = frame
        BY <2>1, <2>2, <3>1, <4>1
      <4>2. CASE i \in DOMAIN downlink /\ downlink'[i] = downlink[i]
        <5>1. \A id \in AnyId : id <= attempt_id /\ id < attempt_id + 1 => id <= attempt_id + 1
          BY IdFacts, RequestRead
        <5>2. downlink[i].id \in AnyId
          BY <1>6, <4>2 DEF Frames
        <5> QED
          BY <1>6, <1>7, <2>1, <4>2, <5>1, <5>2
      <4> QED
        BY <2>3, <4>1, <4>2
    <3>3. attempt' \in Late /\ attempt' # "granted" /\ account' # "unknown"
      BY <1>3, <1>10, <2>1 DEF Late
    <3> QED
      BY <3>2, <3>3 DEF FramesTellAttempt, TellsAttempt
  <2>5. StagesInStep'
    BY <1>2, <1>3, <2>1 DEF LoginInv, StagesInStep
  <2>6. AttemptsCounted'
    BY <1>3, <1>4, <2>1, IdFacts, RequestRead DEF AttemptsCounted, Late, Early
  <2>7. DigestsFit' /\ RefusedLater' /\ AccountFits' /\ VerdictIsOfThisLogin'
    BY <1>1, <1>3, <1>10, <2>1 DEF LoginInv, DigestsFit, RefusedLater, AccountFits, VerdictIsOfThisLogin
  <2> QED
    BY <1>3, <2>3, <2>4, <2>5, <2>6, <2>7 DEF LoginInv
<1> QED
  BY <1>9, <1>10

LEMMA DecidesStep ==
  ASSUME LoginInv, ServerReads, ServerDecides(Head(uplink))
  PROVE  LoginInv'
<1>1. /\ uplink[1].type = "md5" /\ uplink[1].id = attempt_id /\ attempt = "md5"
      /\ attempt_id' = attempt_id /\ judged' = uplink[1].of /\ judged' \in AnyId
  BY RequestRead DEF ServerDecides, Requests
<1>2. /\ \A i \in DOMAIN uplink : uplink[i].type \notin Early
      /\ pc \notin {"init", "identity", "md5"} /\ account # "unknown"
      /\ uplink[1].of = attempt_id \/ tries > 0
  BY <1>1, RequestRead
     DEF LoginInv, StagesInStep, Early, Late, DigestsFit, RefusedLater, AccountFits
<1>3. /\ \A i \in DOMAIN uplink' : uplink'[i].type \notin Early
      /\ pc' = pc /\ account' = account /\ result' = result /\ UplinkInOrder'
  BY <1>2, RequestRead
<1>4. attempt_id \in Ids /\ attempt_id # LogoffId /\ attempt_id \in AnyId
      /\ attempt_id <= TryTimes + 1 /\ attempt_id <= attempt_id
  BY IdFacts, RequestRead
<1>5. PICK verdict \in {"granted", "refused"}, type \in {"success", "fail"} :
        /\ attempt' = verdict /\ Send(Frame(type, attempt_id))
        /\ verdict = "granted" <=> type = "success"
        /\ verdict = "refused" /\ account = "good" => judged' # attempt_id /\ tries > 0
  <2>1. CASE account = "good" /\ uplink[1].of = attempt_id
    BY <2>1, RequestRead DEF ServerDecides
  <2>2. CASE ~(account = "good" /\ uplink[1].of = attempt_id)
    BY <1>2, <2>2, RequestRead DEF ServerDecides
  <2> QED
    BY <2>1, <2>2
<1> DEFINE frame == Frame(type, attempt_id)
<1>6. frame \in Frames /\ frame.type = type /\ frame.id = attempt_id /\ frame.from = "server"
  BY <1>4, FramesBuilt
<1>7. Send(frame)
  BY <1>5
<1> HIDE DEF frame
<1>8. /\ LoginTypeOK' /\ LogoffFirst'
      /\ \A i \in DOMAIN downlink' :
           \/ i \in DOMAIN downlink /\ downlink'[i] = downlink[i]
           \/ i = Len(downlink) + 1 /\ downlink'[i] = frame
  <2>1. ~FirstLogsOff /\ ~LogoffAnswer(frame)
    BY <1>1, <1>4, <1>6 DEF LoginInv, LogoffFirst, LogoffAnswer
  <2> QED
    BY <1>1, <1>4, <1>5, <1>6, <1>7, <2>1, AuthenticatorSends
<1>9. FramesTellAttempt'
  <2>1. \A i \in DOMAIN downlink :
          /\ TellsAttempt(downlink[i])
          /\ downlink[i].type # "noise" => downlink[i].from = "server"
    BY DEF LoginInv, FramesTellAttempt
  <2>2. /\ frame.type # "identity" /\ frame.type # "md5" /\ frame.type # "noise"
        /\ frame.type = "success" => attempt' = "granted"
        /\ frame.type = "fail" => attempt' = "refused"
    BY <1>5, <1>6
  <2>3. attempt' \in Late /\ attempt' # "md5"
    BY <1>5 DEF Late
  <2> QED
    BY <1>1, <1>2, <1>3, <1>4, <1>6, <1>8, <2>1, <2>2, <2>3 DEF FramesTellAttempt, TellsAttempt
<1>10. StagesInStep'
  BY <1>2, <1>3, <1>5 DEF LoginInv, StagesInStep, Late
<1>11. AttemptsCounted'
  BY <1>1, <1>3, <1>4, <1>5 DEF AttemptsCounted, Late, Early
<1>12. DigestsFit'
  BY <1>3, RequestRead DEF LoginInv, DigestsFit
<1>13. RefusedLater' /\ AccountFits'
  BY <1>1, <1>3, <1>5, RequestRead DEF RefusedLater, AccountFits
<1>14. VerdictIsOfThisLogin'
  BY <1>1, <1>3, <1>5, RequestRead DEF LoginInv, VerdictIsOfThisLogin
<1> QED
  BY <1>3, <1>8, <1>9, <1>10, <1>11, <1>12, <1>13, <1>14 DEF LoginInv

LEMMA LinkStep == LoginInv /\ (LinkLosesRequest \/ ServerReads) => LoginInv'
<1> SUFFICES ASSUME LoginInv, LinkLosesRequest \/ ServerReads PROVE LoginInv'
  OBVIOUS
<1>1. CASE LinkLosesRequest
  BY <1>1, RequestGone DEF LinkLosesRequest
<1>2. CASE ServerReads
  <2>1. CASE ServerIgnores(Head(uplink))
    BY <1>2, <2>1, RequestGone DEF ServerReads, ServerIgnores, peer
  <2> QED
    BY <1>2, <2>1, LogsOffStep, AsksIdentityStep, AsksMd5Step, DecidesStep DEF ServerReads
<1> QED
  BY <1>1, <1>2

LEMMA LoginInductive == LoginInv /\ [LoginNext]_login => LoginInv'
BY BeginStep, ReadStep, TickStep, NoiseStep, LinkStep, AskAgainStep, StandStill
   DEF LoginNext, Client, Done

LEMMA LoginAlways == LoginSpec => []LoginInv
<1> QED
  BY LoginStarts, LoginInductive, PTL DEF LoginSpec

(* The ids of the attempts stay below the logoff's, whatever the link      *)
(* loses and however often the client asks again (eapol.c:386-466).        *)
THEOREM LoginTypeCorrect == LoginSpec => []LoginTypeOK
<1>1. LoginInv => LoginTypeOK
  BY DEF LoginInv
<1> QED
  BY <1>1, LoginAlways, PTL

(* For any number of tries, any timeout, any socket and whatever other     *)
(* traffic holds in the place of an id, eaplogin returns what the          *)
(* authenticator decided of this login; it decides against a good account  *)
(* only when a response was sent again (eapol.c:152-154, 233, 244,         *)
(* 418-433).                                                               *)
THEOREM VerdictOfThisLogin == LoginSpec => []VerdictIsOfThisLogin
<1>1. LoginInv => VerdictIsOfThisLogin
  BY DEF LoginInv
<1> QED
  BY <1>1, LoginAlways, PTL
=============================================================================
