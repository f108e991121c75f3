------------------------------ MODULE DaemonPid ------------------------------
(***************************************************************************)
(* The program started with -d (src/drcom/src/daemon.c and main.c): it     *)
(* leaves the terminal, locks /tmp/dogcom.pid, writes its pid there, and   *)
(* goes on to the configuration and the login.  A SIGTERM closes the file, *)
(* which lets the lock go, then removes the name, then ends the process.   *)
(*                                                                         *)
(* A process holds the file it opened, which need not be the one the name  *)
(* stands for any more.  Processes that end may be started again.          *)
(***************************************************************************)
EXTENDS Naturals, Sequences

CONSTANTS
  Pids,     \* process ids the program may be started under
  Digits,   \* Digits[p]: what p's pid looks like
  Newline,  \* the character that ends it
  NoOne,    \* no process
  Files,    \* what is behind the name, one after the other
  NoFile    \* none of them

ASSUME PidAssumption ==
  /\ NoOne \notin Pids /\ NoFile \notin Files
  /\ \A p, q \in Pids : Digits[p] \in Seq(0 .. 9) /\ (Digits[p] = Digits[q] => p = q)
  /\ Newline \notin 0 .. 9

VARIABLES
  proc,    \* where each process is
  name,    \* the file /tmp/dogcom.pid stands for
  opened,  \* opened[p]: the file behind p's pid_file_handle
  locker,  \* locker[f]: the process that holds the lock on f
  text,    \* text[f]: what is in f
  hasty    \* history: a SIGTERM was handled while some process was starting

vars == <<proc, name, opened, locker, text, hasty>>

Starting == {"open", "lock"}
HasLock  == {"write", "boot", "running"}
Alive    == Starting \cup HasLock \cup {"closed"}

In(places) == {p \in Pids : proc[p] \in places}

(***************************************************************************)
(* What the variables hold.                                                *)
(***************************************************************************)
TypeOK ==
  /\ proc \in [Pids -> Alive \cup {"gone"}]
  /\ name \in Files \cup {NoFile}
  /\ opened \in [Pids -> Files \cup {NoFile}]
  /\ locker \in [Files -> Pids \cup {NoOne}]
  /\ text \in [Files -> Seq((0 .. 9) \cup {Newline})]
  /\ hasty \in BOOLEAN

(* No file, or one that a process which was killed has left.               *)
Init ==
  /\ proc = [p \in Pids |-> "gone"]
  /\ name \in Files \cup {NoFile}
  /\ opened = [p \in Pids |-> NoFile]
  /\ locker = [f \in Files |-> NoOne]
  /\ \E p \in Pids :
       text = [f \in Files |-> IF f = name THEN Append(Digits[p], Newline) ELSE <<>>]
  /\ hasty = FALSE

Goes(p, place) == proc' = [proc EXCEPT ![p] = place]

LocksWithout(p) == [f \in Files |-> IF locker[f] = p THEN NoOne ELSE locker[f]]

(* What the system does for a process that ends: its file is closed.       *)
Ends(p) ==
  /\ Goes(p, "gone")
  /\ opened' = [opened EXCEPT ![p] = NoFile]
  /\ locker' = LocksWithout(p)

----------------------------------------------------------------------------
(* daemonise.                                                              *)

(* To the end of the second fork.  The signal handlers are set.            *)
Launch(p) ==
  /\ proc[p] = "gone"
  /\ Goes(p, "open")
  /\ hasty' = (hasty \/ In({"closed"}) # {})
  /\ UNCHANGED <<name, opened, locker, text>>

(* open with O_CREAT and without O_TRUNC.                                  *)
OpenFile(p) ==
  /\ proc[p] = "open"
  /\ Goes(p, "lock")
  /\ \/ /\ name # NoFile
        /\ opened' = [opened EXCEPT ![p] = name]
        /\ UNCHANGED <<name, text>>
     \/ /\ name = NoFile
        /\ \E f \in Files :
             /\ \A q \in Pids : opened[q] # f
             /\ name' = f
             /\ opened' = [opened EXCEPT ![p] = f]
             /\ text' = [text EXCEPT ![f] = <<>>]
  /\ UNCHANGED <<locker, hasty>>

(* Mutant: the result of lockf is not looked at.                           *)
LockFileAnyway(p) ==
  /\ proc[p] = "lock"
  /\ Goes(p, "write")
  /\ locker' = IF locker[opened[p]] = NoOne THEN [locker EXCEPT ![opened[p]] = p]
                                            ELSE locker
  /\ UNCHANGED <<name, opened, text, hasty>>

(* lockf with F_TLOCK.  A process that does not get the lock exits.        *)
LockFile(p) ==
  /\ proc[p] = "lock"
  /\ \/ /\ locker[opened[p]] = NoOne
        /\ Goes(p, "write")
        /\ locker' = [locker EXCEPT ![opened[p]] = p]
        /\ UNCHANGED opened
     \/ /\ locker[opened[p]] # NoOne
        /\ Ends(p)
  /\ UNCHANGED <<name, text, hasty>>

(* Mutant: the pid is written as bytes, not as a number.                   *)
WritePidBytes(p) ==
  /\ proc[p] = "write"
  /\ Goes(p, "boot")
  /\ text' = [text EXCEPT ![opened[p]] = <<1000 + p>>]
  /\ UNCHANGED <<name, opened, locker, hasty>>

(* Mutant: the pid is written without the end of the line.                 *)
LineBare(p) == Digits[p]

Line(p) == Append(Digits[p], Newline)

(* write, at the start of the file, over what it holds.                    *)
WritePid(p) ==
  /\ proc[p] = "write"
  /\ Goes(p, "boot")
  /\ text' = [text EXCEPT ![opened[p]] =
                Line(p) \o SubSeq(@, Len(Line(p)) + 1, Len(@))]
  /\ UNCHANGED <<name, opened, locker, hasty>>

(* main, after daemonise: config_parse, try_smart_eaplogin, the bind.      *)
Boot(p) ==
  /\ proc[p] = "boot"
  /\ Goes(p, "running")
  /\ UNCHANGED <<name, opened, locker, text, hasty>>

(* One of them fails, or dogcom returns.  The pid file stays.              *)
Exit(p) ==
  /\ proc[p] \in {"boot", "running"}
  /\ Ends(p)
  /\ UNCHANGED <<name, text, hasty>>

----------------------------------------------------------------------------
(* Signals.                                                                *)

(* kill_daemon: close.  It lets go of a lock the process holds.            *)
Terminate(p) ==
  /\ proc[p] \in Starting \cup HasLock
  /\ Goes(p, "closed")
  /\ opened' = [opened EXCEPT ![p] = NoFile]
  /\ locker' = LocksWithout(p)
  /\ hasty' = (hasty \/ In(Starting) # {})
  /\ UNCHANGED <<name, text>>

(* kill_daemon: remove, and exit.                                          *)
Remove(p) ==
  /\ proc[p] = "closed"
  /\ name' = NoFile
  /\ Ends(p)
  /\ UNCHANGED <<text, hasty>>

(* SIGKILL, at any time.                                                   *)
Kill(p) ==
  /\ proc[p] \in Alive
  /\ Ends(p)
  /\ UNCHANGED <<name, text, hasty>>

Daemon(p) ==
  \/ OpenFile(p) \/ LockFile(p) \/ WritePid(p) \/ Boot(p) \/ Exit(p) \/ Remove(p)

Next == \E p \in Pids : Launch(p) \/ Daemon(p) \/ Terminate(p) \/ Kill(p)

Spec == Init /\ [][Next]_vars

----------------------------------------------------------------------------
(* Correctness.                                                            *)

(***************************************************************************)
(* However many are started at once, and wherever they are killed, at most *)
(* one process gets past the lock (daemon.c:85-91), provided no SIGTERM is *)
(* handled while one is starting: its handler removes the name whoever     *)
(* holds the lock (daemon.c:16-19), and the next process locks a new file. *)
(***************************************************************************)
OneDaemon ==
  ~hasty => \A p, q \in In(HasLock) : p = q

(***************************************************************************)
(* Under the same proviso the name stands for the file the daemon holds,   *)
(* and the first line of it is its pid, whatever was in the file before:   *)
(* the file is not truncated (daemon.c:85, 93-95).                         *)
(***************************************************************************)
FileNamesDaemon ==
  ~hasty => \A p \in In({"boot", "running"}) :
              /\ name = opened[p]
              /\ \E n \in 1 .. Len(text[name]) :
                   /\ text[name][n] = Newline
                   /\ SubSeq(text[name], 1, n - 1) = Digits[p]
=============================================================================
