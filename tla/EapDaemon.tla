------------------------------ MODULE EapDaemon ------------------------------
(***************************************************************************)
(* What happens after a login over 802.1X in src/drcom/src/eapol.c: each   *)
(* successful eaplogin leaves a process behind (eap_daemon) that kills the *)
(* one before it, by the pid in a file, writes its own pid there, and      *)
(* answers the identity requests of the authenticator (eap_keep_alive).    *)
(*                                                                         *)
(* The file is neither locked nor removed.  A step is what one process     *)
(* does to the file; two programs may be in here at once.  A process is    *)
(* named by its pid; digits are the characters it writes.                  *)
(*                                                                         *)
(* The authenticator (external) asks every Period seconds, every Repeat    *)
(* when it got no answer, and ends the session after MaxAsk such requests. *)
(***************************************************************************)
EXTENDS Integers, Sequences

CONSTANTS
  Pids,     \* the processes of all logins, each used once
  Digits,   \* Digits[p]: what p's pid looks like
  Guard,    \* seconds after a request in which no other is answered (10)
  Period,   \* the authenticator asks this often (60)
  Repeat,   \* and this often when it is not answered
  MaxAsk,   \* requests it makes before it ends the session
  MaxLost   \* requests or answers in a row the link may lose

ASSUME DaemonAssumption ==
  /\ \A p, q \in Pids : Digits[p] \in Seq(0 .. 9) /\ (Digits[p] = Digits[q] => p = q)
  /\ \A p \in Pids : Digits[p] # <<>>
  /\ Guard \in Nat /\ Period \in Nat /\ Repeat \in Nat
  /\ Guard < Repeat /\ Guard < Period
  /\ MaxAsk \in Nat /\ MaxLost \in Nat /\ MaxLost + 1 < MaxAsk

VARIABLES
  proc,        \* where each process is
  pid_file,    \* the characters of PID_FILE
  exists,      \* PID_FILE is there
  since,       \* stime: seconds since a process began or got a request
  authorized,  \* the authenticator's session
  timer,       \* seconds since it asked, or since the login
  asks,        \* requests it made since the last answer
  lost,        \* those of them the link lost, or whose answer it lost
  overlapped,  \* history: two processes were in eap_daemon's start at once
  crashed,     \* history: a heartbeat process died by itself
  struck       \* history: a process that is no heartbeat was killed

file   == <<pid_file, exists>>
server == <<authorized, timer, asks, lost>>
ghosts == <<overlapped, crashed, struck>>
vars   == <<proc, since, file, server, ghosts>>

Starting == {"open", "create", "scan", "truncate", "write"}

InStart == {p \in Pids : proc[p] \in Starting}
Running == {p \in Pids : proc[p] = "running"}

(* The time to the authenticator's next request.                           *)
Due == IF asks = 0 THEN Period ELSE Repeat

(***************************************************************************)
(* What the variables hold: the file only digits, the clocks their bounds. *)
(***************************************************************************)
TypeOK ==
  /\ proc \in [Pids -> Starting \cup {"none", "running", "dead", "stranger"}]
  /\ pid_file \in Seq(0 .. 9) /\ exists \in BOOLEAN
  /\ since \in [Pids -> 0 .. Guard + 1]
  /\ authorized \in BOOLEAN
  /\ timer \in 0 .. Due
  /\ asks \in 0 .. MaxAsk /\ lost \in 0 .. MaxLost
  /\ overlapped \in BOOLEAN /\ crashed \in BOOLEAN /\ struck \in BOOLEAN

(* No file, or one left from another time, with nothing in it to kill.     *)
Init ==
  /\ proc = [p \in Pids |-> "none"]
  /\ pid_file = <<>> /\ exists \in BOOLEAN
  /\ since = [p \in Pids |-> 0]
  /\ authorized = FALSE
  /\ timer = 0 /\ asks = 0 /\ lost = 0
  /\ overlapped = FALSE /\ crashed = FALSE /\ struck = FALSE

----------------------------------------------------------------------------
(* eap_daemon.                                                             *)

Goes(p, place) == proc' = [proc EXCEPT ![p] = place]

(* eaplogin succeeded and forks.  The authenticator asks by a clock of its *)
(* own: its next request may come at once.                                 *)
Login(p) ==
  /\ proc[p] = "none"
  /\ Goes(p, "open")
  /\ authorized' = TRUE /\ timer' \in 0 .. Period
  /\ asks' = 0 /\ lost' = 0
  /\ overlapped' = (overlapped \/ InStart # {})
  /\ UNCHANGED <<since, file, crashed, struck>>

OpenFile(p) ==
  /\ proc[p] = "open"
  /\ Goes(p, IF exists THEN "scan" ELSE "create")
  /\ UNCHANGED <<since, file, server, ghosts>>

(* The second fopen truncates, should the file have appeared meanwhile.    *)
CreateFile(p) ==
  /\ proc[p] = "create"
  /\ Goes(p, "scan")
  /\ exists' = TRUE /\ pid_file' = <<>>
  /\ UNCHANGED <<since, server, ghosts>>

Named(q) == pid_file = Digits[q]

(* Mutant: the old process is asked to end with a signal it ignores.       *)
KillOldIgnored(p) ==
  /\ proc[p] = "scan"
  /\ Goes(p, "truncate")
  /\ UNCHANGED <<since, file, server, ghosts>>

(* fscanf and kill.  What else the file can name is some other process.    *)
(* No pid is -1: eap_keep_alive does not return, so nobody writes that.    *)
KillOld(p) ==
  /\ proc[p] = "scan"
  /\ proc' = [q \in Pids |->
                IF q = p THEN "truncate"
                ELSE IF Named(q) /\ proc[q] # "none" THEN "dead" ELSE proc[q]]
  /\ struck' = \/ struck
               \/ \E q \in Pids : Named(q) /\ proc[q] = "stranger"
               \/ pid_file # <<>> /\ \A q \in Pids : ~Named(q)
  /\ UNCHANGED <<since, file, server, overlapped, crashed>>

(* Mutant: the file is not truncated before the pid is written.            *)
TruncateFileNot(p) ==
  /\ proc[p] = "truncate"
  /\ Goes(p, "write")
  /\ UNCHANGED <<since, file, server, ghosts>>

(* freopen with "w+".                                                      *)
TruncateFile(p) ==
  /\ proc[p] = "truncate"
  /\ Goes(p, "write")
  /\ pid_file' = <<>>
  /\ UNCHANGED <<since, exists, server, ghosts>>

(* Mutant: the pid is written as one character, not as a number.           *)
WritePidByte(p) ==
  /\ proc[p] = "write"
  /\ Goes(p, "running")
  /\ pid_file' = <<p>>
  /\ since' = [since EXCEPT ![p] = 0]
  /\ UNCHANGED <<exists, server, ghosts>>

(* fprintf and fflush, over whatever another process wrote meanwhile.      *)
WritePid(p) ==
  /\ proc[p] = "write"
  /\ Goes(p, "running")
  /\ pid_file' = Digits[p] \o
                 SubSeq(pid_file, Len(Digits[p]) + 1, Len(pid_file))
  /\ since' = [since EXCEPT ![p] = 0]
  /\ UNCHANGED <<exists, server, ghosts>>

(* A heartbeat process dies without having been killed by another one.     *)
Crash(p) ==
  /\ proc[p] = "running"
  /\ Goes(p, "dead")
  /\ crashed' = TRUE
  /\ UNCHANGED <<since, file, server, overlapped, struck>>

(* The system gives the pid of a dead process to another program.          *)
Reuse(p) ==
  /\ proc[p] = "dead"
  /\ Goes(p, "stranger")
  /\ UNCHANGED <<since, file, server, ghosts>>

----------------------------------------------------------------------------
(* eap_keep_alive and the authenticator.                                   *)

(* A second; from fork to the first recvfrom it takes none.                *)
Second ==
  /\ authorized /\ timer < Due
  /\ InStart = {}
  /\ timer' = timer + 1
  /\ since' = [p \in Pids |-> IF proc[p] = "running" /\ since[p] <= Guard
                              THEN since[p] + 1 ELSE since[p]]
  /\ UNCHANGED <<proc, file, authorized, asks, lost, ghosts>>

(* Mutant: the guard time is as long as the time between two repetitions.  *)
AnswersLater(p) == since[p] > Repeat

Answers(p) == since[p] > Guard

(* Every heartbeat process hears a request.  It answers, unless there was  *)
(* another one within Guard seconds; either way it counts from here.       *)
RequestHeard ==
  /\ since' = [p \in Pids |-> IF proc[p] = "running" THEN 0 ELSE since[p]]
  /\ \/ /\ \E p \in Running : Answers(p)
        /\ asks' = 0 /\ lost' = 0
     \/ /\ \E p \in Running : Answers(p)
        /\ lost < MaxLost
        /\ asks' = asks + 1 /\ lost' = lost + 1
     \/ /\ \A p \in Running : ~Answers(p)
        /\ asks' = asks + 1
        /\ UNCHANGED lost

RequestLost ==
  /\ lost < MaxLost
  /\ asks' = asks + 1 /\ lost' = lost + 1
  /\ UNCHANGED since

ServerAsks ==
  /\ authorized /\ timer = Due /\ asks < MaxAsk
  /\ InStart = {}
  /\ timer' = 0
  /\ RequestHeard \/ RequestLost
  /\ UNCHANGED <<proc, file, authorized, ghosts>>

ServerEnds ==
  /\ authorized /\ timer = Due /\ asks = MaxAsk
  /\ InStart = {}
  /\ authorized' = FALSE
  /\ timer' = 0 /\ asks' = 0 /\ lost' = 0
  /\ UNCHANGED <<proc, since, file, ghosts>>

(* Nothing is left to happen once every pid is used and the session over.  *)
Over ==
  /\ ~authorized /\ \A p \in Pids : proc[p] \in {"dead", "stranger"}
  /\ UNCHANGED vars

Next ==
  \/ \E p \in Pids :
       \/ Login(p) \/ OpenFile(p) \/ CreateFile(p) \/ KillOld(p)
       \/ TruncateFile(p) \/ WritePid(p) \/ Crash(p) \/ Reuse(p)
  \/ Second \/ ServerAsks \/ ServerEnds
  \/ Over

Spec == Init /\ [][Next]_vars

----------------------------------------------------------------------------
(* Correctness.                                                            *)

(***************************************************************************)
(* "If there is a keep alive process from before, kill it" (eapol.c:328):  *)
(* as long as no two programs log in at once, at most one heartbeat        *)
(* process runs when none is starting, and the file names it, for the next *)
(* login to find (eapol.c:342-360).                                        *)
(***************************************************************************)
OneHeartbeat ==
  ~overlapped /\ InStart = {} =>
    \A p \in Running : Running = {p} /\ pid_file = Digits[p]

(***************************************************************************)
(* A login kills no process but the heartbeat of the login before it,      *)
(* unless two programs logged in at once (then the file may hold the       *)
(* characters of two pids) or that heartbeat had died by itself and its    *)
(* pid may be another program's (eapol.c:342-345, 357-360).                *)
(***************************************************************************)
StrangersSpared == struck => overlapped \/ crashed

(***************************************************************************)
(* A heartbeat that is alive keeps the session: an authenticator whose     *)
(* requests are further apart than the guard time never ends it, however   *)
(* often a new login replaces the process, for which the first request may *)
(* come too early to be answered, and with up to MaxLost losses in a row   *)
(* (eapol.c:271-299).                                                      *)
(***************************************************************************)
StaysAuthorized ==
  [][~overlapped /\ ~crashed => ~(authorized /\ ~authorized')]_vars
=============================================================================
