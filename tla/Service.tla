-------------------------------- MODULE Service --------------------------------
(***************************************************************************)
(* The program as a service of the router: the script                      *)
(* src/drcom/files/etc/init.d/drcom, which frees the port and hands the    *)
(* program to procd, the requests of the LuCI controller that save the     *)
(* configuration and run the script (drcom.lua), procd, which starts the   *)
(* program again whenever it ends, the program itself, which needs the     *)
(* port, and other programs that may hold it.                              *)
(*                                                                         *)
(* procd lets one script of the service run at a time; a script that opens *)
(* no instance leaves the service without one; an instance that ends again *)
(* and again may be given up until the script opens it again.  Signals are *)
(* obeyed some time after they are sent.                                   *)
(***************************************************************************)
EXTENDS Naturals

CONSTANTS
  Workers,   \* LuCI requests that may be served at the same time
  Insts,     \* processes procd may start the program as
  Others,    \* other programs that may bind the port
  Stubborn,  \* those of them that ignore TERM
  Hidden,    \* those whose pid ss and netstat do not tell
  Nobody,    \* no process, request or text
  Texts,     \* configurations that are saved
  Faulty,    \* those of them the program does not accept
  Size       \* how long each is

ASSUME ServiceAssumption ==
  /\ Stubborn \subseteq Others /\ Hidden \subseteq Others
  /\ Nobody \notin Insts \cup Others \cup Workers
  /\ Insts \cap Others = {}
  /\ Faulty \subseteq Texts
  /\ Size \in [Texts -> Nat]

Procs   == Insts \cup Others

(***************************************************************************)
(* What a file can hold: nothing between open and write, a text, or the    *)
(* start of one over the rest of longer ones.  The set of the texts says   *)
(* it all, for of two of them the shorter one is in front.                 *)
(***************************************************************************)
Contents == SUBSET Texts

Mixed(contents) == \E t, u \in contents : t # u

VARIABLES
  request,     \* what each LuCI request does
  text,        \* the configuration each of them is to save
  file,        \* what is in /etc/drcom.conf
  runner,      \* the request whose script runs
  step,        \* where the script is
  seen,        \* the pid its last look at the port gave
  port_state,  \* the status in /tmp/drcom-port-state, "" without the file
  registered,  \* procd has an instance of the service
  watched,     \* the file as it was when the instance was registered
  current,     \* its process
  given_up,    \* procd does not start it again any more
  proc,        \* where each process is
  uses,        \* what a process that is to go on has read in the file
  holder,      \* the process that has bound the port
  late,        \* it is another program, which came after the script's look
  quiet        \* from here on nobody asks, crashes or comes for the port

luci   == <<request, text, file>>
script == <<runner, step, seen, port_state>>
procd  == <<registered, watched, current, given_up>>
system == <<proc, uses, holder, late>>
vars   == <<luci, script, procd, system, quiet>>

Verbs == {"start", "stop", "restart"}

Init ==
  /\ request = [w \in Workers |-> "none"]
  /\ text = [w \in Workers |-> Nobody]
  /\ file \in {{t} : t \in Texts}
  /\ runner = Nobody /\ step = "none" /\ seen = Nobody /\ port_state = ""
  /\ registered = FALSE /\ watched = {} /\ current = Nobody /\ given_up = FALSE
  /\ proc = [p \in Procs |-> "gone"]
  /\ uses = [p \in Procs |-> {}]
  /\ holder = Nobody /\ late = FALSE
  /\ quiet = FALSE

----------------------------------------------------------------------------
(* LuCI.                                                                   *)

(* render_form with save_restart and a text, or run_service_action.        *)
Ask(w) ==
  /\ request[w] = "none" /\ ~quiet
  /\ \/ \E r \in Verbs : request' = [request EXCEPT ![w] = r] /\ UNCHANGED text
     \/ \E t \in Texts :
          /\ request' = [request EXCEPT ![w] = "save"]
          /\ text' = [text EXCEPT ![w] = t]
  /\ UNCHANGED <<file, script, procd, system, quiet>>

(* writefile opens the file, which empties it,                             *)
Truncate(w) ==
  /\ request[w] = "save"
  /\ request' = [request EXCEPT ![w] = "write"]
  /\ file' = {}
  /\ UNCHANGED <<text, script, procd, system, quiet>>

(* and writes the text of its own request from the start, over what        *)
(* another one may have written meanwhile.                                 *)
Store(w) ==
  /\ file' = {text[w]} \cup {t \in file : Size[t] > Size[text[w]]}
  /\ text' = [text EXCEPT ![w] = Nobody]

(* Mutant: the configuration is written while the service starts again.    *)
WriteUnseen(w) ==
  /\ request[w] = "write"
  /\ request' = [request EXCEPT ![w] = "none"]
  /\ Store(w)
  /\ UNCHANGED <<script, procd, system, quiet>>

(* The restart follows.                                                    *)
Write(w) ==
  /\ request[w] = "write"
  /\ request' = [request EXCEPT ![w] = "restart"]
  /\ Store(w)
  /\ UNCHANGED <<script, procd, system, quiet>>

----------------------------------------------------------------------------
(* The script.                                                             *)

(* The script has just seen who holds the port.                            *)
Looked == late' = FALSE /\ UNCHANGED <<proc, uses, holder>>

Goes(place) == step' = place /\ seen' = Nobody /\ UNCHANGED <<runner, port_state>>

(* TERM, or KILL, to a process.                                            *)
Signal(p, term) ==
  IF p = Nobody \/ proc[p] = "gone" \/ (term /\ p \in Stubborn)
  THEN UNCHANGED <<proc, uses>>
  ELSE proc' = [proc EXCEPT ![p] = "dying"] /\ uses' = [uses EXCEPT ![p] = {}]

TakeLock(w) ==
  /\ runner = Nobody /\ request[w] \in Verbs
  /\ runner' = w
  /\ step' = IF request[w] = "start" THEN "scan" ELSE "stop"
  /\ UNCHANGED <<luci, seen, port_state, procd, system, quiet>>

(* The instance is taken from procd, and its process ended.                *)
Unregister ==
  /\ registered' = FALSE /\ watched' = {} /\ current' = Nobody /\ given_up' = FALSE
  /\ Signal(current, TRUE)
  /\ UNCHANGED <<holder, late>>

(* Mutant: stop_service does not remove the state file.                    *)
StopKeepsState ==
  /\ step = "stop"
  /\ step' = IF request[runner] = "stop" THEN "end" ELSE "scan"
  /\ Unregister
  /\ UNCHANGED <<luci, runner, seen, port_state, quiet>>

(* stop_service.                                                           *)
StopService ==
  /\ step = "stop"
  /\ port_state' = ""
  /\ step' = IF request[runner] = "stop" THEN "end" ELSE "scan"
  /\ Unregister
  /\ UNCHANGED <<luci, runner, seen, quiet>>

(* Mutant: a port held by a process nobody knows is taken for free.        *)
ScanGoesOn ==
  /\ step = "scan"
  /\ \/ /\ holder = Nobody
        /\ step' = "open" /\ port_state' = "free" /\ UNCHANGED seen
     \/ /\ holder \in Hidden
        /\ step' = "open" /\ port_state' = "free" /\ UNCHANGED seen
     \/ /\ holder \in Procs \ Hidden
        /\ step' = "term" /\ seen' = holder /\ UNCHANGED port_state
  /\ Looked
  /\ UNCHANGED <<luci, runner, procd, quiet>>

(* ensure_bind_port_available: the first look at the port.                 *)
Scan ==
  /\ step = "scan"
  /\ \/ /\ holder = Nobody
        /\ step' = "open" /\ port_state' = "free" /\ UNCHANGED seen
     \/ /\ holder \in Hidden
        /\ step' = "fail" /\ port_state' = "busy" /\ UNCHANGED seen
     \/ /\ holder \in Procs \ Hidden
        /\ step' = "term" /\ seen' = holder /\ UNCHANGED port_state
  /\ Looked
  /\ UNCHANGED <<luci, runner, procd, quiet>>

Term ==
  /\ step = "term"
  /\ Signal(seen, TRUE)
  /\ Goes("rescan")
  /\ UNCHANGED <<luci, procd, holder, late, quiet>>

(* Mutant: the processes that remain are killed, known or not.             *)
RescanUnknown ==
  /\ step = "rescan"
  /\ \/ /\ holder = Nobody
        /\ step' = "open" /\ port_state' = "recovered" /\ UNCHANGED seen
     \/ /\ holder # Nobody
        /\ step' = "kill" /\ seen' = holder /\ UNCHANGED port_state
  /\ Looked
  /\ UNCHANGED <<luci, runner, procd, quiet>>

(* A second later.                                                         *)
Rescan ==
  /\ step = "rescan"
  /\ \/ /\ holder = Nobody
        /\ step' = "open" /\ port_state' = "recovered" /\ UNCHANGED seen
     \/ /\ holder \in Hidden
        /\ Goes("rescan again")
     \/ /\ holder \in Procs \ Hidden
        /\ step' = "kill" /\ seen' = holder /\ UNCHANGED port_state
  /\ Looked
  /\ UNCHANGED <<luci, runner, procd, quiet>>

Kill ==
  /\ step = "kill"
  /\ Signal(seen, FALSE)
  /\ Goes("rescan again")
  /\ UNCHANGED <<luci, procd, holder, late, quiet>>

(* Another second later.                                                   *)
RescanAgain ==
  /\ step = "rescan again"
  /\ IF holder = Nobody
     THEN step' = "open" /\ port_state' = "recovered"
     ELSE step' = "fail" /\ port_state' = "failed"
  /\ Looked
  /\ UNCHANGED <<luci, runner, seen, procd, quiet>>

(* procd_open_instance ... procd_close_instance: an instance that runs is  *)
(* started again when a file it depends on has changed.                    *)
OpenInstance ==
  /\ step = "open"
  /\ Goes("end")
  /\ registered' = TRUE /\ watched' = file /\ given_up' = FALSE
  /\ IF watched # file THEN Signal(current, TRUE) ELSE UNCHANGED <<proc, uses>>
  /\ UNCHANGED <<luci, current, holder, late, quiet>>

(* start_service returns 1: the service has no instance.                   *)
NoInstance ==
  /\ step = "fail"
  /\ Goes("end")
  /\ Unregister
  /\ UNCHANGED <<luci, quiet>>

EndScript ==
  /\ step = "end"
  /\ request' = [request EXCEPT ![runner] = "none"]
  /\ runner' = Nobody /\ step' = "none"
  /\ UNCHANGED <<text, file, seen, port_state, procd, system, quiet>>

----------------------------------------------------------------------------
(* procd and the processes.                                                *)

Spawn ==
  /\ registered /\ ~given_up
  /\ current # Nobody => proc[current] = "gone"
  /\ \E p \in Insts :
       /\ proc[p] = "gone"
       /\ current' = p
       /\ proc' = [proc EXCEPT ![p] = "new"]
  /\ UNCHANGED <<luci, script, registered, watched, given_up, uses, holder, late, quiet>>

(* An instance that has ended too often too soon.                          *)
GiveUp ==
  /\ registered /\ ~given_up /\ ~quiet
  /\ current # Nobody /\ proc[current] = "gone"
  /\ given_up' = TRUE
  /\ UNCHANGED <<luci, script, registered, watched, current, system, quiet>>

(* config_parse: an empty file is accepted, a mixed one perhaps not.       *)
MayRefuse(contents)  == Mixed(contents) \/ contents \cap Faulty # {}
MustRefuse(contents) == ~Mixed(contents) /\ contents \cap Faulty # {}

Gone(p) ==
  proc' = [proc EXCEPT ![p] = "gone"] /\ uses' = [uses EXCEPT ![p] = {}]

(* main up to dogcom.                                                      *)
ReadConfig(p) ==
  /\ proc[p] = "new"
  /\ \/ /\ ~MustRefuse(file)
        /\ proc' = [proc EXCEPT ![p] = "ready"]
        /\ uses' = [uses EXCEPT ![p] = file]
     \/ /\ MayRefuse(file)
        /\ proc' = [proc EXCEPT ![p] = "gone"]
        /\ UNCHANGED uses
  /\ UNCHANGED <<luci, script, procd, holder, late, quiet>>

(* dogcom returns when it cannot bind the port.                            *)
Bind(p) ==
  /\ proc[p] = "ready"
  /\ IF holder = Nobody
     THEN proc' = [proc EXCEPT ![p] = "up"] /\ holder' = p /\ UNCHANGED uses
     ELSE Gone(p) /\ UNCHANGED holder
  /\ UNCHANGED <<luci, script, procd, late, quiet>>

OtherBinds(p) ==
  /\ proc[p] = "gone" /\ ~quiet /\ holder = Nobody
  /\ proc' = [proc EXCEPT ![p] = "up"] /\ holder' = p /\ late' = TRUE
  /\ UNCHANGED <<luci, script, procd, uses, quiet>>

Ends(p) ==
  /\ proc[p] = "dying" \/ (proc[p] = "up" /\ ~quiet)
  /\ Gone(p)
  /\ holder' = IF holder = p THEN Nobody ELSE holder
  /\ late' = (late /\ holder # p)
  /\ UNCHANGED <<luci, script, procd, quiet>>

BecomeQuiet ==
  /\ ~quiet /\ quiet' = TRUE
  /\ UNCHANGED <<luci, script, procd, system>>

(* Nobody asks for anything any more.                                      *)
Settled == (\A w \in Workers : request[w] = "none") /\ quiet /\ UNCHANGED vars

Luci == \E w \in Workers : Truncate(w) \/ Write(w) \/ TakeLock(w)

Script ==
  \/ StopService \/ Scan \/ Term \/ Rescan \/ Kill \/ RescanAgain
  \/ OpenInstance \/ NoInstance \/ EndScript

Next ==
  \/ Luci \/ Script \/ Spawn \/ GiveUp \/ BecomeQuiet \/ Settled
  \/ \E w \in Workers : Ask(w)
  \/ \E p \in Insts : ReadConfig(p) \/ Bind(p)
  \/ \E p \in Others : OtherBinds(p)
  \/ \E p \in Procs : Ends(p)

Spec == Init /\ [][Next]_vars

(* Requests and scripts run on, procd starts what is registered, and       *)
(* processes go on and obey signals.                                       *)
FairSpec ==
  /\ Spec
  /\ WF_vars(Luci) /\ WF_vars(Script) /\ WF_vars(Spawn)
  /\ \A p \in Insts : WF_vars(ReadConfig(p) \/ Bind(p))
  /\ \A p \in Procs : WF_vars(proc[p] = "dying" /\ Ends(p))

----------------------------------------------------------------------------
(* Correctness.                                                            *)

LuciOK ==
  /\ request \in [Workers -> Verbs \cup {"none", "save", "write"}]
  /\ text \in [Workers -> Texts \cup {Nobody}]
  /\ \A w \in Workers : request[w] \in {"save", "write"} => text[w] \in Texts
  /\ file \in Contents

ScriptOK ==
  /\ runner \in Workers \cup {Nobody}
  /\ step \in {"none", "stop", "scan", "term", "rescan", "kill", "rescan again",
               "open", "fail", "end"}
  /\ seen \in (Procs \ Hidden) \cup {Nobody}
  /\ port_state \in {"", "free", "busy", "recovered", "failed"}

ProcdOK ==
  /\ registered \in BOOLEAN /\ given_up \in BOOLEAN
  /\ watched \in Contents
  /\ current \in Insts \cup {Nobody}

SystemOK ==
  /\ proc \in [Procs -> {"gone", "new", "ready", "up", "dying"}]
  /\ uses \in [Procs -> Contents]
  /\ holder \in Procs \cup {Nobody} /\ late \in BOOLEAN

(* What the variables hold; the script knows no process that is hidden.    *)
TypeOK == LuciOK /\ ScriptOK /\ ProcdOK /\ SystemOK /\ quiet \in BOOLEAN

Idle == \A w \in Workers : request[w] = "none"

(***************************************************************************)
(* When every request has been served, a client that runs does so with     *)
(* what is on the disk: in whatever order requests wrote texts of their    *)
(* own, one over the other, and started, and though procd may start it     *)
(* when the file is empty or another's text (drcom.lua:713-718,            *)
(* init.d:106-120).                                                        *)
(***************************************************************************)
RunsWhatIsSaved ==
  Idle /\ current # Nobody /\ proc[current] \in {"ready", "up"} => uses[current] = file

(***************************************************************************)
(* What the state file says of the last start is what came of it: the page *)
(* reports a failed recovery just when the service is not in procd's hands *)
(* (init.d:66-126, drcom.lua:339-394).                                     *)
(***************************************************************************)
StateFileAgrees ==
  Idle => (registered <=> port_state \in {"free", "recovered"})

(***************************************************************************)
(* A start is not lost: though the script kills whatever has the port, its *)
(* own client included, while procd starts that client again, in the end   *)
(* the registered client has the port, unless procd gave it up, another    *)
(* program took the port after the script had looked, or what is saved is  *)
(* no configuration (init.d:66-108).                                       *)
(***************************************************************************)
StartIsNotLost ==
  <>quiet =>
    \/ <>[](registered => current # Nobody /\ holder = current /\ proc[current] = "up")
    \/ <>[](given_up \/ late \/ MayRefuse(file))
=============================================================================
