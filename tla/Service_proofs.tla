---------------------------- MODULE Service_proofs ----------------------------
(***************************************************************************)
(* The client runs with what was saved, and the state file tells what came *)
(* of the last start, for every number of requests, processes and texts.   *)
(***************************************************************************)
EXTENDS Service, TLAPS

(* A script runs for a request that asked for one.                         *)
Locked ==
  /\ runner = Nobody <=> step = "none"
  /\ runner # Nobody => request[runner] \in Verbs
  /\ step = "stop" => request[runner] # "start"

(* The client does not run with what is in the file.                       *)
Stale ==
  current # Nobody /\ proc[current] \in {"ready", "up"} /\ uses[current] # file

(* A request that will end the client before it is served itself.          *)
WillStop(w) ==
  \/ request[w] = "write"
  \/ request[w] = "restart" /\ (runner # w \/ step = "stop")

Pending == Stale => \E w \in Workers : WillStop(w)

Free == port_state \in {"free", "recovered"}

(* What the state file says between the script's steps.                    *)
Told ==
  /\ step \in {"none", "end"} => (registered <=> Free)
  /\ step = "open" => Free
  /\ step = "fail" => ~Free

IInv == TypeOK /\ Locked /\ Pending /\ Told

(* A file may be empty or hold a text, and what is written over it it      *)
(* holds.                                                                  *)
LEMMA FileContents ==
  /\ {} \in Contents
  /\ \A t \in Texts : {t} \in Contents
  /\ \A t \in Texts, c \in Contents : \A d \in SUBSET c : {t} \cup d \in Contents
BY DEF Contents

(* What nobody touches keeps its types.                                    *)
LEMMA Untouched ==
  /\ LuciOK /\ UNCHANGED luci => LuciOK'
  /\ ScriptOK /\ UNCHANGED script => ScriptOK'
  /\ ProcdOK /\ UNCHANGED procd => ProcdOK'
  /\ SystemOK /\ UNCHANGED system => SystemOK'
<1>1. LuciOK /\ UNCHANGED luci => LuciOK'
      BY DEF luci, LuciOK
<1>2. ScriptOK /\ UNCHANGED script => ScriptOK'
      BY DEF script, ScriptOK
<1>3. ProcdOK /\ UNCHANGED procd => ProcdOK'
      BY DEF procd, ProcdOK
<1>4. SystemOK /\ UNCHANGED system => SystemOK'
      BY DEF system, SystemOK
<1> QED BY <1>1, <1>2, <1>3, <1>4

LEMMA Initially == Init => IInv
<1> USE ServiceAssumption
<1> SUFFICES ASSUME Init PROVE IInv
    OBVIOUS
<1>1. {} \in Contents
      BY FileContents
<1>2. LuciOK
      BY FileContents DEF Init, LuciOK
<1>3. ScriptOK /\ ProcdOK
      BY <1>1 DEF Init, ScriptOK, ProcdOK
<1>4. SystemOK
      BY <1>1 DEF Init, SystemOK
<1>5. TypeOK
      BY <1>2, <1>3, <1>4 DEF Init, TypeOK
<1>6. Locked /\ Told
      BY DEF Init, Locked, Told, Free
<1>7. Pending
      BY DEF Init, Pending, Stale
<1> QED BY <1>5, <1>6, <1>7 DEF IInv

(* Signals leave processes where processes can be, and let none run that   *)
(* did not, nor with anything else.                                        *)
LEMMA Signals ==
  ASSUME SystemOK, NEW p \in Procs \cup {Nobody}, NEW term \in BOOLEAN,
         Signal(p, term) \/ UNCHANGED <<proc, uses>>
  PROVE  /\ proc' \in [Procs -> {"gone", "new", "ready", "up", "dying"}]
         /\ uses' \in [Procs -> Contents]
         /\ \A q \in Procs : proc'[q] \in {"ready", "up"} =>
              proc'[q] = proc[q] /\ uses'[q] = uses[q]
<1>1. CASE UNCHANGED <<proc, uses>>
      BY <1>1 DEF SystemOK
<1>2. CASE /\ p \in Procs
           /\ proc' = [proc EXCEPT ![p] = "dying"]
           /\ uses' = [uses EXCEPT ![p] = {}]
      BY <1>2, FileContents DEF SystemOK
<1> QED BY <1>1, <1>2 DEF Signal

(* A client that procd knows is a process.                                 *)
LEMMA CurrentIsProc == ProcdOK /\ current # Nobody => current \in Procs
BY DEF ProcdOK, Procs

(* What keeps the configuration a client runs with in order: steps that    *)
(* leave the file alone, let no client run that did not, and no request go *)
(* that would end it.                                                      *)
LEMMA StaysPending ==
  ASSUME Pending, ProcdOK, file' = file, current' \in {current, Nobody},
         \A p \in Procs : proc'[p] \in {"ready", "up"} =>
           proc[p] \in {"ready", "up"} /\ uses'[p] = uses[p],
         \A w \in Workers : WillStop(w) => WillStop(w)'
  PROVE  Pending'
BY CurrentIsProc DEF Pending, Stale

----------------------------------------------------------------------------
(* The requests.                                                           *)

LEMMA AskStep ==
  ASSUME IInv, NEW w \in Workers, Ask(w)
  PROVE  IInv'
<1> USE DEF IInv, TypeOK
<1>1. PICK r \in Verbs \cup {"save"} :
        /\ request' = [request EXCEPT ![w] = r]
        /\ \/ r # "save" /\ UNCHANGED text
           \/ \E t \in Texts : text' = [text EXCEPT ![w] = t]
      BY DEF Ask, Verbs
<1>2. request[w] = "none" /\ UNCHANGED <<file, script, procd, system, quiet>>
      BY DEF Ask
<1>3. \A v \in Workers : v # w => request'[v] = request[v]
      BY <1>1 DEF LuciOK
<1>4. /\ text' \in [Workers -> Texts \cup {Nobody}]
      /\ \A v \in Workers : v # w => text'[v] = text[v]
      /\ r = "save" => text'[w] \in Texts
      BY <1>1 DEF LuciOK
<1>5. LuciOK'
  <2>1. request'[w] = r /\ r # "write"
        BY <1>1 DEF LuciOK, Verbs
  <2> QED BY <1>1, <1>2, <1>3, <1>4, <2>1 DEF LuciOK
<1>6. ScriptOK' /\ ProcdOK' /\ SystemOK'
      BY <1>2, Untouched
<1>7. runner # w
      BY <1>2, ServiceAssumption DEF Locked, Verbs
<1>8. Locked'
      BY <1>2, <1>3, <1>7 DEF Locked, ScriptOK, script
<1>9. \A v \in Workers : WillStop(v) => WillStop(v)'
      BY <1>2, <1>3 DEF WillStop, script
<1>10. Pending'
      BY <1>2, <1>9, StaysPending DEF procd, system
<1>11. Told'
      BY <1>2 DEF Told, Free, script, procd
<1> QED BY <1>2, <1>5, <1>6, <1>8, <1>10, <1>11

LEMMA TruncateStep ==
  ASSUME IInv, NEW w \in Workers, Truncate(w)
  PROVE  IInv'
<1> USE DEF IInv, TypeOK
<1>1. /\ request[w] = "save" /\ request' = [request EXCEPT ![w] = "write"]
      /\ file' = {}
      BY DEF Truncate
<1>0. UNCHANGED <<text, script, procd, system, quiet>>
      BY DEF Truncate
<1>2. /\ request'[w] = "write"
      /\ \A v \in Workers : v # w => request'[v] = request[v]
      BY <1>1 DEF LuciOK
<1>3. file' \in Contents
      BY <1>1, FileContents
<1>4. LuciOK'
      BY <1>0, <1>1, <1>3 DEF LuciOK
<1>5. ScriptOK' /\ ProcdOK' /\ SystemOK'
      BY <1>0, Untouched
<1>6. runner # w
      BY <1>1, ServiceAssumption DEF Locked, Verbs
<1>7. Locked'
      BY <1>0, <1>1, <1>2, <1>6 DEF Locked, ScriptOK, script
<1>8. Pending'
      BY <1>2 DEF Pending, WillStop
<1>9. Told'
      BY <1>0 DEF Told, Free, script, procd
<1> QED BY <1>0, <1>1, <1>4, <1>5, <1>7, <1>8, <1>9

LEMMA WriteStep ==
  ASSUME IInv, NEW w \in Workers, Write(w)
  PROVE  IInv'
<1> USE DEF IInv, TypeOK
<1>1. /\ request[w] = "write" /\ request' = [request EXCEPT ![w] = "restart"]
      /\ file' = {text[w]} \cup {t \in file : Size[t] > Size[text[w]]}
      /\ text' = [text EXCEPT ![w] = Nobody]
      BY DEF Write, Store
<1>0. UNCHANGED <<script, procd, system, quiet>>
      BY DEF Write
<1>2. /\ request'[w] = "restart"
      /\ \A v \in Workers : v # w => request'[v] = request[v]
      BY <1>1 DEF LuciOK
<1>3. file' \in Contents
      BY <1>1, FileContents DEF LuciOK
<1>4. LuciOK'
      BY <1>1, <1>2, <1>3 DEF LuciOK, Verbs
<1>5. ScriptOK' /\ ProcdOK' /\ SystemOK'
      BY <1>0, Untouched
<1>6. runner # w
      BY <1>1, ServiceAssumption DEF Locked, Verbs
<1>7. Locked'
      BY <1>0, <1>1, <1>2, <1>6 DEF Locked, ScriptOK, script
<1>8. Pending'
      BY <1>0, <1>1, <1>2, <1>6 DEF Pending, WillStop, script
<1>9. Told'
      BY <1>0 DEF Told, Free, script, procd
<1> QED BY <1>0, <1>1, <1>4, <1>5, <1>7, <1>8, <1>9

LEMMA TakeLockStep ==
  ASSUME IInv, NEW w \in Workers, TakeLock(w)
  PROVE  IInv'
<1> USE DEF IInv, TypeOK
<1>1. /\ runner = Nobody /\ request[w] \in Verbs /\ runner' = w
      /\ step' = IF request[w] = "start" THEN "scan" ELSE "stop"
      /\ UNCHANGED <<luci, seen, port_state, procd, system, quiet>>
      BY DEF TakeLock
<1>2. LuciOK' /\ ProcdOK' /\ SystemOK'
      BY <1>1, Untouched
<1>3. ScriptOK'
      BY <1>1 DEF ScriptOK
<1>4. Locked'
      BY <1>1, ServiceAssumption DEF Locked, luci
<1>5. \A v \in Workers : WillStop(v) => WillStop(v)'
      BY <1>1 DEF WillStop, luci
<1>6. Pending'
      BY <1>1, <1>5, StaysPending DEF luci, procd, system
<1>7. Told'
      BY <1>1 DEF Told
<1> QED BY <1>1, <1>2, <1>3, <1>4, <1>6, <1>7

----------------------------------------------------------------------------
(* The script.  runner keeps its request until the end.                    *)

(* A step of the script that ends processes at most, and is not its stop.  *)
LEMMA ScriptStep ==
  ASSUME IInv, step \notin {"none", "stop"}, step' \notin {"none", "stop"},
         UNCHANGED <<luci, runner, quiet>>,
         current' \in {current, Nobody},
         \A p \in Procs : proc'[p] \in {"ready", "up"} =>
           proc[p] \in {"ready", "up"} /\ uses'[p] = uses[p]
  PROVE  LuciOK' /\ Locked' /\ Pending' /\ quiet' \in BOOLEAN
<1> USE DEF IInv, TypeOK
<1>1. LuciOK' /\ quiet' \in BOOLEAN
      BY Untouched
<1>2. Locked'
      BY DEF Locked, luci
<1>3. \A v \in Workers : WillStop(v) => WillStop(v)'
      BY DEF WillStop, luci
<1>4. Pending'
      BY <1>3, StaysPending DEF luci
<1> QED BY <1>1, <1>2, <1>4

LEMMA StopServiceStep ==
  ASSUME IInv, StopService
  PROVE  IInv'
<1> USE DEF IInv, TypeOK
<1>1. /\ step = "stop" /\ port_state' = ""
      /\ step' = IF request[runner] = "stop" THEN "end" ELSE "scan"
      /\ UNCHANGED <<luci, runner, seen, quiet>>
      BY DEF StopService
<1>2. /\ registered' = FALSE /\ watched' = {} /\ current' = Nobody /\ given_up' = FALSE
      /\ Signal(current, TRUE)
      /\ UNCHANGED <<holder, late>>
      BY DEF StopService, Unregister
<1>3. LuciOK'
      BY <1>1, Untouched
<1>4. ScriptOK'
      BY <1>1 DEF ScriptOK
<1>5. ProcdOK'
      BY <1>2, FileContents DEF ProcdOK
<1>6. SystemOK'
      BY <1>2, Signals DEF SystemOK, ProcdOK, Procs
<1>7. Locked'
      BY <1>1 DEF Locked, luci
<1>8. Pending'
      BY <1>2 DEF Pending, Stale
<1>9. Told'
      BY <1>1, <1>2 DEF Told, Free
<1> QED BY <1>1, <1>3, <1>4, <1>5, <1>6, <1>7, <1>8, <1>9

LEMMA ScanStep ==
  ASSUME IInv, Scan \/ Rescan \/ RescanAgain
  PROVE  IInv'
<1> USE DEF IInv, TypeOK
<1>1. /\ step \in {"scan", "rescan", "rescan again"}
      /\ UNCHANGED <<luci, runner, procd, proc, uses, holder, quiet>> /\ late' = FALSE
      BY DEF Scan, Rescan, RescanAgain, Looked, Goes
<1>2. /\ step' \in {"open", "fail", "term", "kill", "rescan again"}
      /\ seen' \in {seen, Nobody} \cup (Procs \ Hidden)
      /\ port_state' \in {port_state, "free", "busy", "recovered", "failed"}
      /\ step' = "open" => port_state' \in {"free", "recovered"}
      /\ step' = "fail" => port_state' \in {"busy", "failed"}
      BY DEF Scan, Rescan, RescanAgain, Looked, Goes
<1>3. ScriptOK'
      BY <1>1, <1>2 DEF ScriptOK
<1>4. ProcdOK' /\ SystemOK'
      BY <1>1, Untouched DEF SystemOK
<1>5. LuciOK' /\ Locked' /\ Pending' /\ quiet' \in BOOLEAN
      BY <1>1, <1>2, ScriptStep DEF procd
<1>6. Told'
      BY <1>2 DEF Told, Free
<1> QED BY <1>3, <1>4, <1>5, <1>6

LEMMA SignalStep ==
  ASSUME IInv, Term \/ Kill
  PROVE  IInv'
<1> USE DEF IInv, TypeOK
<1>1. /\ step \in {"term", "kill"} /\ step' \in {"rescan", "rescan again"}
      /\ seen' = Nobody
      /\ UNCHANGED <<luci, runner, port_state, procd, holder, late, quiet>>
      BY DEF Term, Kill, Goes
<1>2. PICK term \in BOOLEAN : Signal(seen, term)
      BY DEF Term, Kill
<1>3. /\ proc' \in [Procs -> {"gone", "new", "ready", "up", "dying"}]
      /\ uses' \in [Procs -> Contents]
      /\ \A q \in Procs : proc'[q] \in {"ready", "up"} =>
           proc'[q] = proc[q] /\ uses'[q] = uses[q]
      BY <1>2, Signals DEF ScriptOK
<1>4. ScriptOK'
      BY <1>1 DEF ScriptOK
<1>5. ProcdOK' /\ SystemOK'
      BY <1>1, <1>3, Untouched DEF SystemOK
<1>6. LuciOK' /\ Locked' /\ Pending' /\ quiet' \in BOOLEAN
      BY <1>1, <1>3, ScriptStep DEF procd
<1>7. Told'
      BY <1>1 DEF Told
<1> QED BY <1>4, <1>5, <1>6, <1>7

LEMMA OpenInstanceStep ==
  ASSUME IInv, OpenInstance
  PROVE  IInv'
<1> USE DEF IInv, TypeOK
<1>1. /\ step = "open" /\ step' = "end"
      /\ UNCHANGED <<luci, runner, port_state, current, holder, late, quiet>>
      /\ seen' = Nobody /\ registered' = TRUE /\ watched' = file /\ given_up' = FALSE
      BY DEF OpenInstance, Goes
<1>2. Signal(current, TRUE) \/ UNCHANGED <<proc, uses>>
      BY DEF OpenInstance
<1>3. current \in Procs \cup {Nobody}
      BY DEF ProcdOK, Procs
<1>4. /\ proc' \in [Procs -> {"gone", "new", "ready", "up", "dying"}]
      /\ uses' \in [Procs -> Contents]
      /\ \A q \in Procs : proc'[q] \in {"ready", "up"} =>
           proc'[q] = proc[q] /\ uses'[q] = uses[q]
      BY <1>2, <1>3, Signals
<1>5. ScriptOK' /\ ProcdOK' /\ SystemOK'
      BY <1>1, <1>4 DEF ScriptOK, ProcdOK, SystemOK, LuciOK
<1>6. LuciOK' /\ Locked' /\ Pending' /\ quiet' \in BOOLEAN
      BY <1>1, <1>4, ScriptStep
<1>7. Told'
      BY <1>1 DEF Told, Free
<1> QED BY <1>5, <1>6, <1>7

LEMMA NoInstanceStep ==
  ASSUME IInv, NoInstance
  PROVE  IInv'
<1> USE DEF IInv, TypeOK
<1>1. /\ step = "fail" /\ step' = "end"
      /\ seen' = Nobody /\ UNCHANGED <<luci, runner, port_state, quiet>>
      BY DEF NoInstance, Goes
<1>2. /\ registered' = FALSE /\ watched' = {} /\ current' = Nobody /\ given_up' = FALSE
      /\ Signal(current, TRUE)
      /\ UNCHANGED <<holder, late>>
      BY DEF NoInstance, Unregister
<1>3. current \in Procs \cup {Nobody}
      BY DEF ProcdOK, Procs
<1>4. /\ proc' \in [Procs -> {"gone", "new", "ready", "up", "dying"}]
      /\ uses' \in [Procs -> Contents]
      /\ \A q \in Procs : proc'[q] \in {"ready", "up"} =>
           proc'[q] = proc[q] /\ uses'[q] = uses[q]
      BY <1>2, <1>3, Signals
<1>5. ScriptOK' /\ SystemOK'
      BY <1>1, <1>2, <1>4 DEF ScriptOK, SystemOK
<1>6. ProcdOK'
      BY <1>2, FileContents DEF ProcdOK
<1>7. LuciOK' /\ Locked' /\ Pending' /\ quiet' \in BOOLEAN
      BY <1>1, <1>2, <1>4, ScriptStep
<1>8. Told'
      BY <1>1, <1>2 DEF Told, Free
<1> QED BY <1>5, <1>6, <1>7, <1>8

LEMMA EndScriptStep ==
  ASSUME IInv, EndScript
  PROVE  IInv'
<1> USE DEF IInv, TypeOK
<1>1. /\ step = "end" /\ request' = [request EXCEPT ![runner] = "none"]
      /\ runner' = Nobody /\ step' = "none"
      BY DEF EndScript
<1>2. UNCHANGED <<text, file, seen, port_state, procd, system, quiet>>
      BY DEF EndScript
<1>3. LuciOK'
      BY <1>1, <1>2, ServiceAssumption DEF LuciOK
<1>4. ScriptOK'
      BY <1>1, <1>2 DEF ScriptOK
<1>5. ProcdOK' /\ SystemOK'
      BY <1>2, Untouched
<1>6. Locked'
      BY <1>1 DEF Locked
<1>7. \A v \in Workers : WillStop(v) => WillStop(v)'
  <2> SUFFICES ASSUME NEW v \in Workers, WillStop(v) PROVE WillStop(v)'
      OBVIOUS
  <2>1. v # runner
        BY <1>1 DEF WillStop, Locked, Verbs
  <2> QED BY <1>1, <2>1, ServiceAssumption DEF WillStop, LuciOK
<1>8. Pending'
      BY <1>2, <1>7, StaysPending DEF procd, system
<1>9. Told'
      BY <1>1, <1>2 DEF Told, Free, procd
<1> QED BY <1>2, <1>3, <1>4, <1>5, <1>6, <1>8, <1>9

----------------------------------------------------------------------------
(* procd and the processes.                                                *)

(* None of them touches what the requests and the script keep.             *)
LEMMA ProcessStep ==
  ASSUME IInv, UNCHANGED <<luci, script>>, registered' = registered
  PROVE  LuciOK' /\ ScriptOK' /\ Locked' /\ Told'
         /\ (\A w \in Workers : WillStop(w) => WillStop(w)')
<1> USE DEF IInv, TypeOK
<1>1. LuciOK' /\ ScriptOK'
      BY Untouched
<1>2. Locked' /\ Told'
      BY DEF Locked, Told, Free, luci, script
<1>3. \A w \in Workers : WillStop(w) => WillStop(w)'
      BY DEF WillStop, luci, script
<1> QED BY <1>1, <1>2, <1>3

LEMMA SpawnStep ==
  ASSUME IInv, Spawn
  PROVE  IInv'
<1> USE DEF IInv, TypeOK
<1>1. UNCHANGED <<luci, script, registered, watched, given_up, uses, holder, late, quiet>>
      BY DEF Spawn
<1>2. PICK p \in Insts : current' = p /\ proc' = [proc EXCEPT ![p] = "new"]
      BY DEF Spawn
<1>3. ProcdOK' /\ SystemOK'
      BY <1>1, <1>2 DEF ProcdOK, SystemOK
<1>4. Pending'
      BY <1>2 DEF Pending, Stale, SystemOK, Procs
<1> QED BY <1>1, <1>3, <1>4, ProcessStep

LEMMA GiveUpStep ==
  ASSUME IInv, GiveUp
  PROVE  IInv'
<1> USE DEF IInv, TypeOK
<1>1. /\ UNCHANGED <<luci, script, registered, watched, current, system, quiet>>
      /\ given_up' = TRUE
      BY DEF GiveUp
<1>2. ProcdOK' /\ SystemOK'
      BY <1>1, Untouched DEF ProcdOK
<1>3. Pending'
      BY <1>1, ProcessStep, StaysPending DEF luci, system
<1> QED BY <1>1, <1>2, <1>3, ProcessStep

LEMMA ReadConfigStep ==
  ASSUME IInv, NEW p \in Insts, ReadConfig(p)
  PROVE  IInv'
<1> USE DEF IInv, TypeOK
<1>1. /\ UNCHANGED <<luci, script, procd, holder, late, quiet>>
      /\ uses' \in {uses, [uses EXCEPT ![p] = file]}
      BY DEF ReadConfig
<1>2. PICK q \in {"ready", "gone"} :
        /\ proc' = [proc EXCEPT ![p] = q]
        /\ q = "ready" => uses' = [uses EXCEPT ![p] = file]
      BY DEF ReadConfig
<1>3. p \in Procs
      BY DEF Procs
<1>4. ProcdOK'
      BY <1>1, Untouched
<1>5. SystemOK'
      BY <1>1, <1>2, <1>3 DEF SystemOK, LuciOK
<1>6. Pending'
  <2> SUFFICES ASSUME Stale' PROVE \E w \in Workers : WillStop(w)'
      BY DEF Pending
  <2>1. current \in Procs
        BY <1>1, CurrentIsProc DEF Stale, procd
  <2>2. current # p
        BY <1>1, <1>2, <1>3 DEF Stale, SystemOK, procd, luci
  <2>3. Stale
        BY <1>1, <1>2, <2>1, <2>2 DEF Stale, SystemOK, procd, luci
  <2> QED BY <1>1, <2>3, ProcessStep DEF Pending, procd
<1> QED BY <1>1, <1>4, <1>5, <1>6, ProcessStep DEF procd

(* A process binds the port, another program does, or it ends.             *)
LEMMA PortStep ==
  ASSUME IInv,
         \/ \E p \in Insts : Bind(p)
         \/ \E p \in Others : OtherBinds(p)
         \/ \E p \in Procs : Ends(p)
  PROVE  IInv'
<1> USE DEF IInv, TypeOK
<1>1. UNCHANGED <<luci, script, procd, quiet>>
      BY DEF Bind, OtherBinds, Ends
<1>2. PICK p \in Procs : Bind(p) \/ (p \in Others /\ OtherBinds(p)) \/ Ends(p)
      BY DEF Procs
<1>3. PICK q \in {"gone", "up"} : proc' = [proc EXCEPT ![p] = q]
      BY <1>2 DEF Bind, OtherBinds, Ends, Gone
<1>4. /\ uses' \in {uses, [uses EXCEPT ![p] = {}]}
      /\ holder' \in {holder, p, Nobody}
      /\ late' \in {late, TRUE, FALSE}
      BY <1>2 DEF Bind, OtherBinds, Ends, Gone
<1>5. ProcdOK'
      BY <1>1, Untouched
<1>6. SystemOK'
  <2>1. {} \in Contents
        BY FileContents
  <2>2. uses' \in [Procs -> Contents]
        BY <1>4, <2>1 DEF SystemOK
  <2> QED BY <1>3, <1>4, <2>2 DEF SystemOK
<1>7. Pending'
  <2> SUFFICES ASSUME Stale' PROVE \E w \in Workers : WillStop(w)'
      BY DEF Pending
  <2>1. current' = current /\ current \in Insts /\ file' = file
        BY <1>1, CurrentIsProc DEF Stale, procd, luci, ProcdOK
  <2>2. Stale
    <3>1. CASE current # p
          BY <1>3, <1>4, <2>1, <3>1 DEF Stale, SystemOK, Procs
    <3>2. CASE current = p
      <4>1. proc'[p] = "up"
            BY <1>3, <2>1, <3>2 DEF Stale, SystemOK
      <4>2. ~Ends(p) /\ p \notin Others
            BY <2>1, <3>2, <4>1, ServiceAssumption DEF Ends, Gone, SystemOK
      <4> QED BY <1>2, <1>3, <2>1, <3>2, <4>1, <4>2 DEF Bind, Gone, Stale, SystemOK
    <3> QED BY <3>1, <3>2
  <2> QED BY <1>1, <2>2, ProcessStep DEF Pending, procd
<1> QED BY <1>1, <1>5, <1>6, <1>7, ProcessStep DEF procd

----------------------------------------------------------------------------
(* The theorems.                                                           *)

LEMMA Inductive == IInv /\ [Next]_vars => IInv'
<1> SUFFICES ASSUME IInv, [Next]_vars PROVE IInv'
    OBVIOUS
<1>1. CASE Luci
      BY <1>1, TruncateStep, WriteStep, TakeLockStep DEF Luci
<1>2. CASE Script
      BY <1>2, StopServiceStep, ScanStep, SignalStep, OpenInstanceStep,
         NoInstanceStep, EndScriptStep DEF Script
<1>3. CASE \E w \in Workers : Ask(w)
      BY <1>3, AskStep
<1>4. CASE \E p \in Insts : ReadConfig(p)
      BY <1>4, ReadConfigStep
<1>5. CASE \/ \E p \in Insts : Bind(p)
           \/ \E p \in Others : OtherBinds(p)
           \/ \E p \in Procs : Ends(p)
      BY <1>5, PortStep
<1>6. CASE BecomeQuiet \/ UNCHANGED vars
  <2>1. UNCHANGED <<luci, script, procd, system>> /\ quiet' \in BOOLEAN
        BY <1>6 DEF BecomeQuiet, vars, IInv, TypeOK
  <2>2. LuciOK' /\ ScriptOK' /\ ProcdOK' /\ SystemOK'
        BY <2>1, Untouched DEF IInv, TypeOK
  <2>3. Locked' /\ Told' /\ \A w \in Workers : WillStop(w) => WillStop(w)'
        BY <2>1, ProcessStep DEF procd
  <2>4. Pending'
        BY <2>1, <2>3, StaysPending DEF IInv, TypeOK, luci, procd, system
  <2> QED BY <2>1, <2>2, <2>3, <2>4 DEF IInv, TypeOK
<1> QED BY <1>1, <1>2, <1>3, <1>4, <1>5, <1>6, SpawnStep, GiveUpStep DEF Next, Settled

(* The variables keep their types: the script never learns the pid of a    *)
(* process that ss and netstat do not tell, so it cannot signal it         *)
(* (init.d:76-94).                                                         *)
THEOREM TypeCorrect == Spec => []TypeOK
<1>1. IInv => TypeOK
      BY DEF IInv
<1> QED BY <1>1, Initially, Inductive, PTL DEF Spec

(* When all requests are served the client runs with what is in the file,  *)
(* whatever texts any number of concurrent saves wrote, in whatever order  *)
(* (drcom.lua:713-718, init.d:106-120).                                    *)
THEOREM SavedRuns == Spec => []RunsWhatIsSaved
<1>1. IInv => RunsWhatIsSaved
      BY DEF IInv, Pending, Stale, WillStop, RunsWhatIsSaved, Idle
<1> QED BY <1>1, Initially, Inductive, PTL DEF Spec

(* Between scripts the state file says whether procd has the service       *)
(* (init.d:66-126).                                                        *)
THEOREM StateFileTells == Spec => []StateFileAgrees
<1>1. IInv => StateFileAgrees
  <2> SUFFICES ASSUME IInv, Idle PROVE registered <=> Free
      BY DEF StateFileAgrees, Free
  <2>1. runner = Nobody
        BY DEF IInv, TypeOK, ScriptOK, Locked, Idle, Verbs
  <2> QED BY <2>1 DEF IInv, Locked, Told
<1> QED BY <1>1, Initially, Inductive, PTL DEF Spec
=============================================================================
