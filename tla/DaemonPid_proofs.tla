-------------------------- MODULE DaemonPid_proofs --------------------------
(***************************************************************************)
(* At most one daemon, named by the pid file, for every number of          *)
(* processes and of files that were behind the name.                       *)
(***************************************************************************)
EXTENDS DaemonPid, SequenceTheorems, TLAPS

(* A process past open holds a file, one past lockf the lock on it.        *)
FileHeld == \A p \in Pids :
  /\ proc[p] \in {"lock"} \cup HasLock => opened[p] \in Files
  /\ proc[p] \in HasLock => locker[opened[p]] = p

(* Nobody holds a file whose name is gone.                                 *)
AtName == ~hasty => \A p \in Pids :
  proc[p] \in {"lock"} \cup HasLock => opened[p] = name

(* While a SIGTERM is handled no other process is about.                   *)
Alone == ~hasty => \A p, q \in Pids :
  proc[p] = "closed" => proc[q] \notin Starting \cup HasLock

(* What a daemon wrote is in the file it holds.                            *)
IsNamed(s, p) ==
  \E n \in 1 .. Len(s) : s[n] = Newline /\ SubSeq(s, 1, n - 1) = Digits[p]

Written == ~hasty => \A p \in Pids :
  proc[p] \in {"boot", "running"} => IsNamed(text[opened[p]], p)

IInv == TypeOK /\ FileHeld /\ AtName /\ Alone /\ Written

(* The file starts without a daemon; a process that was killed may have    *)
(* left its line in it.                                                    *)
LEMMA Initially == Init => IInv
<1> SUFFICES ASSUME Init PROVE IInv
    OBVIOUS
<1>1. TypeOK
  <2>1. PICK p \in Pids :
          text = [f \in Files |-> IF f = name THEN Append(Digits[p], Newline) ELSE <<>>]
        BY DEF Init
  <2>2. Digits[p] \in Seq((0 .. 9) \cup {Newline})
        BY PidAssumption
  <2>3. Append(Digits[p], Newline) \in Seq((0 .. 9) \cup {Newline})
        BY <2>2
  <2>4. text \in [Files -> Seq((0 .. 9) \cup {Newline})]
        BY <2>1, <2>3
  <2> QED BY <2>4 DEF TypeOK, Init
<1>2. \A p \in Pids : proc[p] = "gone"
      BY DEF Init
<1>3. FileHeld /\ AtName /\ Alone /\ Written
      BY <1>2 DEF FileHeld, AtName, Alone, Written, HasLock
<1> QED BY <1>1, <1>3 DEF IInv

(* What is written at the start of a file can be read from its start.      *)
LEMMA WrittenOver ==
  ASSUME NEW C, NEW line \in Seq(C), NEW rest \in Seq(C),
         NEW d \in Seq(C), NEW c, line = Append(d, c)
  PROVE  /\ line \o rest \in Seq(C)
         /\ Len(d) + 1 \in 1 .. Len(line \o rest)
         /\ (line \o rest)[Len(d) + 1] = c
         /\ SubSeq(line \o rest, 1, Len(d)) = d
<1>1. /\ Len(line) = Len(d) + 1 /\ Len(d) \in Nat /\ Len(rest) \in Nat
      /\ \A i \in 1 .. Len(d) : line[i] = d[i]
      /\ line[Len(d) + 1] = c
      OBVIOUS
<1>2. /\ line \o rest \in Seq(C)
      /\ Len(line \o rest) = Len(line) + Len(rest)
      /\ \A i \in 1 .. Len(line) + Len(rest) :
           (line \o rest)[i] = IF i <= Len(line) THEN line[i] ELSE rest[i - Len(line)]
      BY ConcatProperties
<1> DEFINE t == line \o rest
<1>3. t \in Seq(C) /\ Len(d) + 1 \in 1 .. Len(t)
      BY <1>1, <1>2
<1>4. t[Len(d) + 1] = c /\ \A i \in 1 .. Len(d) : t[i] = d[i]
      BY <1>1, <1>2
<1> HIDE DEF t
<1>5. /\ SubSeq(t, 1, Len(d)) \in Seq(C)
      /\ Len(SubSeq(t, 1, Len(d))) = Len(d)
      /\ \A i \in 1 .. Len(d) : SubSeq(t, 1, Len(d))[i] = d[i]
      BY <1>1, <1>3, <1>4
<1>6. SubSeq(t, 1, Len(d)) = d
      BY <1>5, SeqEqual
<1> QED BY <1>3, <1>4, <1>6 DEF t

(* A line written over anything else is the first line.                    *)
LEMMA LineFirst ==
  ASSUME NEW p \in Pids, NEW s \in Seq((0 .. 9) \cup {Newline})
  PROVE  LET t == Line(p) \o SubSeq(s, Len(Line(p)) + 1, Len(s))
         IN  t \in Seq((0 .. 9) \cup {Newline}) /\ IsNamed(t, p)
<1> DEFINE C == (0 .. 9) \cup {Newline}
           rest == SubSeq(s, Len(Line(p)) + 1, Len(s))
           t == Line(p) \o rest
<1>1. Digits[p] \in Seq(C) /\ Len(Digits[p]) \in Nat
      BY PidAssumption
<1>2. Line(p) \in Seq(C) /\ Line(p) = Append(Digits[p], Newline)
      BY <1>1 DEF Line
<1>3. rest \in Seq(C)
      BY <1>2
<1> HIDE DEF C, rest
<1>4. /\ t \in Seq(C)
      /\ Len(Digits[p]) + 1 \in 1 .. Len(t)
      /\ t[Len(Digits[p]) + 1] = Newline
      /\ SubSeq(t, 1, Len(Digits[p])) = Digits[p]
  <2>1. ASSUME NEW line \in Seq(C), NEW d \in Seq(C), line = Append(d, Newline)
        PROVE  /\ line \o rest \in Seq(C)
               /\ Len(d) + 1 \in 1 .. Len(line \o rest)
               /\ (line \o rest)[Len(d) + 1] = Newline
               /\ SubSeq(line \o rest, 1, Len(d)) = d
        BY <2>1, <1>3, WrittenOver
  <2> HIDE DEF Line
  <2> QED BY <2>1, <1>1, <1>2
<1> HIDE DEF t
<1>5. (Len(Digits[p]) + 1) - 1 = Len(Digits[p])
      BY <1>1
<1>6. t \in Seq(C) /\ IsNamed(t, p)
      BY <1>4, <1>5 DEF IsNamed
<1> QED BY <1>6 DEF t, rest, C

----------------------------------------------------------------------------
(* The actions.                                                            *)

(* A start during a SIGTERM is hasty; any other finds nobody who leaves.   *)
LEMMA LaunchKeeps ==
  ASSUME IInv, NEW p \in Pids, Launch(p) PROVE IInv'
<1> USE DEF IInv, Launch, Goes, In, Starting, HasLock, Alive
<1>1. TypeOK'
      BY DEF TypeOK
<1>2. FileHeld' /\ AtName' /\ Written'
      BY DEF TypeOK, FileHeld, AtName, Written
<1>3. Alone'
      BY DEF TypeOK, Alone
<1> QED BY <1>1, <1>2, <1>3

(* open finds the file behind the name, or makes one nobody holds.         *)
LEMMA OpenFileKeeps ==
  ASSUME IInv, NEW p \in Pids, OpenFile(p) PROVE IInv'
<1> USE PidAssumption DEF IInv, Goes, Starting, HasLock, Alive
<1>1. CASE name # NoFile /\ opened' = [opened EXCEPT ![p] = name]
           /\ UNCHANGED <<name, text>>
  <2>1. TypeOK'
        BY <1>1 DEF TypeOK, OpenFile
  <2>2. FileHeld' /\ AtName' /\ Alone' /\ Written'
        BY <1>1 DEF TypeOK, OpenFile, FileHeld, AtName, Alone, Written
  <2> QED BY <2>1, <2>2
<1>2. CASE name = NoFile /\ \E f \in Files :
             /\ \A q \in Pids : opened[q] # f
             /\ name' = f
             /\ opened' = [opened EXCEPT ![p] = f]
             /\ text' = [text EXCEPT ![f] = <<>>]
  <2>1. PICK f \in Files :
             /\ \A q \in Pids : opened[q] # f
             /\ name' = f
             /\ opened' = [opened EXCEPT ![p] = f]
             /\ text' = [text EXCEPT ![f] = <<>>]
        BY <1>2
  <2>2. TypeOK'
        BY <2>1 DEF TypeOK, OpenFile
  <2>3. FileHeld'
        BY <2>1 DEF TypeOK, OpenFile, FileHeld
  <2>4. ~hasty => \A q \in Pids : proc[q] \notin {"lock"} \cup HasLock
        BY <1>2 DEF FileHeld, AtName
  <2>5. AtName' /\ Alone' /\ Written'
        BY <2>1, <2>4 DEF TypeOK, OpenFile, AtName, Alone, Written
  <2> QED BY <2>2, <2>3, <2>5
<1> QED BY <1>1, <1>2 DEF OpenFile

(* A process that ends leaves the others what they have.                   *)
LEMMA EndsKeeps ==
  ASSUME IInv, NEW p \in Pids, Ends(p), UNCHANGED <<name, text, hasty>>
  PROVE  IInv'
<1> USE PidAssumption DEF IInv, Ends, Goes, LocksWithout, Starting, HasLock, Alive
<1>1. TypeOK'
      BY DEF TypeOK
<1>2. FileHeld'
      BY DEF TypeOK, FileHeld
<1>3. AtName' /\ Alone' /\ Written'
      BY DEF TypeOK, AtName, Alone, Written
<1> QED BY <1>1, <1>2, <1>3

(* lockf succeeds where nobody has the lock, or the process ends.          *)
LEMMA LockFileKeeps ==
  ASSUME IInv, NEW p \in Pids, LockFile(p) PROVE IInv'
<1>1. CASE locker[opened[p]] # NoOne
      BY <1>1, EndsKeeps DEF LockFile
<1>2. CASE locker[opened[p]] = NoOne
  <2> USE PidAssumption DEF IInv, LockFile, Goes, Starting, HasLock, Alive
  <2>1. TypeOK'
    <3>1. locker' \in [Files -> Pids \cup {NoOne}]
          BY <1>2 DEF TypeOK
    <3>2. proc' \in [Pids -> Alive \cup {"gone"}]
          BY <1>2 DEF TypeOK
    <3>3. UNCHANGED <<name, opened, text, hasty>>
          BY <1>2
    <3> QED BY <3>1, <3>2, <3>3 DEF TypeOK
  <2>2. FileHeld'
        BY <1>2 DEF TypeOK, FileHeld
  <2>3. AtName' /\ Alone' /\ Written'
        BY <1>2 DEF TypeOK, AtName, Alone, Written
  <2> QED BY <2>1, <2>2, <2>3
<1> QED BY <1>1, <1>2

(* Only the holder of the lock writes, and only in the file it holds.      *)
LEMMA WritePidKeeps ==
  ASSUME IInv, NEW p \in Pids, WritePid(p) PROVE IInv'
<1> USE DEF IInv, Goes, HasLock
<1>1. opened[p] \in Files /\ locker[opened[p]] = p
      BY DEF WritePid, FileHeld
<1>2. text[opened[p]] \in Seq((0 .. 9) \cup {Newline})
      BY <1>1 DEF TypeOK
<1>3. text'[opened[p]] =
        Line(p) \o SubSeq(text[opened[p]], Len(Line(p)) + 1, Len(text[opened[p]]))
      BY <1>1 DEF WritePid, TypeOK
<1>4. text'[opened[p]] \in Seq((0 .. 9) \cup {Newline}) /\ IsNamed(text'[opened[p]], p)
      BY <1>2, <1>3, LineFirst
<1>5. text' = [text EXCEPT ![opened[p]] = text'[opened[p]]]
      BY <1>1 DEF WritePid, TypeOK
<1>6. TypeOK'
      BY <1>4, <1>5 DEF TypeOK, WritePid, Alive
<1>7. FileHeld' /\ AtName'
      BY DEF TypeOK, WritePid, FileHeld, AtName
<1>8. Alone'
      BY DEF TypeOK, WritePid, Alone, Starting
<1>9. Written'
  <2> SUFFICES ASSUME ~hasty', NEW q \in Pids, proc'[q] \in {"boot", "running"}
               PROVE  IsNamed(text'[opened'[q]], q)
      BY DEF Written
  <2>1. CASE q = p
        BY <2>1, <1>4 DEF WritePid
  <2>2. CASE q # p
    <3>1. proc[q] \in {"boot", "running"} /\ ~hasty /\ opened' = opened
          BY <2>2 DEF WritePid, TypeOK
    <3>2. locker[opened[q]] = q
          BY <3>1 DEF FileHeld
    <3>3. text'[opened[q]] = text[opened[q]]
          BY <3>2, <1>1, <2>2, <1>5, <3>1 DEF TypeOK, FileHeld
    <3> QED BY <3>1, <3>3 DEF Written
  <2> QED BY <2>1, <2>2
<1> QED BY <1>6, <1>7, <1>8, <1>9

(* What main does next leaves the pid file alone.                          *)
LEMMA BootKeeps ==
  ASSUME IInv, NEW p \in Pids, Boot(p) PROVE IInv'
<1> USE DEF IInv, Boot, Goes, Starting, HasLock, Alive
<1>1. TypeOK'
      BY DEF TypeOK
<1>2. FileHeld' /\ AtName' /\ Alone' /\ Written'
      BY DEF TypeOK, FileHeld, AtName, Alone, Written
<1> QED BY <1>1, <1>2

(* Two processes cannot hold the lock of the file behind the name.         *)
LEMMA LockIsExclusive ==
  ASSUME IInv PROVE OneDaemon
BY DEF IInv, FileHeld, AtName, OneDaemon, In, HasLock

(* A SIGTERM that is not hasty reaches the one daemon there is.            *)
LEMMA TerminateKeeps ==
  ASSUME IInv, NEW p \in Pids, Terminate(p) PROVE IInv'
<1> USE PidAssumption
        DEF IInv, Terminate, Goes, LocksWithout, In, Starting, HasLock, Alive
<1>1. TypeOK'
      BY DEF TypeOK
<1>2. FileHeld'
      BY DEF TypeOK, FileHeld
<1>3. AtName' /\ Written'
      BY DEF TypeOK, AtName, Written
<1>4. Alone'
  <2> SUFFICES ASSUME ~hasty', NEW x \in Pids, NEW q \in Pids, proc'[x] = "closed"
               PROVE  proc'[q] \notin Starting \cup HasLock
      BY DEF Alone
  <2>1. ~hasty /\ \A r \in Pids : proc[r] \notin Starting
        OBVIOUS
  <2>2. proc[p] \in HasLock
        BY <2>1
  <2>3. proc[q] \in HasLock => q = p
        BY <2>1, <2>2, LockIsExclusive DEF OneDaemon
  <2> QED BY <2>1, <2>3 DEF TypeOK
<1> QED BY <1>1, <1>2, <1>3, <1>4

(* The name goes away when nobody needs it, or the step before was hasty.  *)
LEMMA RemoveKeeps ==
  ASSUME IInv, NEW p \in Pids, Remove(p) PROVE IInv'
<1> USE PidAssumption
        DEF IInv, Remove, Ends, Goes, LocksWithout, Starting, HasLock, Alive
<1>1. TypeOK'
      BY DEF TypeOK
<1>2. FileHeld'
      BY DEF TypeOK, FileHeld
<1>3. AtName' /\ Alone' /\ Written'
      BY DEF TypeOK, AtName, Alone, Written
<1> QED BY <1>1, <1>2, <1>3

(* Every step keeps the invariant.                                         *)
LEMMA StepKeeps == IInv /\ [Next]_vars => IInv'
<1> SUFFICES ASSUME IInv, [Next]_vars PROVE IInv'
    OBVIOUS
<1>1. CASE UNCHANGED vars
      BY <1>1 DEF IInv, vars, TypeOK, FileHeld, AtName, Alone, Written
<1>2. CASE Next
  <2>1. PICK p \in Pids : Launch(p) \/ Daemon(p) \/ Terminate(p) \/ Kill(p)
        BY <1>2 DEF Next
  <2>2. CASE Launch(p)      BY <2>2, LaunchKeeps
  <2>3. CASE OpenFile(p)    BY <2>3, OpenFileKeeps
  <2>4. CASE LockFile(p)    BY <2>4, LockFileKeeps
  <2>5. CASE WritePid(p)    BY <2>5, WritePidKeeps
  <2>6. CASE Boot(p)        BY <2>6, BootKeeps
  <2>7. CASE Exit(p) \/ Kill(p)
        BY <2>7, EndsKeeps DEF Exit, Kill
  <2>8. CASE Remove(p)      BY <2>8, RemoveKeeps
  <2>9. CASE Terminate(p)   BY <2>9, TerminateKeeps
  <2> QED BY <2>1, <2>2, <2>3, <2>4, <2>5, <2>6, <2>7, <2>8, <2>9 DEF Daemon
<1> QED BY <1>1, <1>2

(* Hence it holds in every reachable state.                                *)
LEMMA Invariance == Spec => []IInv
BY Initially, StepKeeps, PTL DEF Spec

(* The variables hold what the code puts there (daemon.c:79-97).           *)
THEOREM TypeCorrect == Spec => []TypeOK
<1>1. IInv => TypeOK
      BY DEF IInv
<1> QED BY <1>1, Invariance, PTL

(* Unless a SIGTERM meets a start, only one process gets past lockf        *)
(* (daemon.c:85-91), however many there are.                               *)
THEOREM Exclusion == Spec => []OneDaemon
<1>1. IInv => OneDaemon
      BY LockIsExclusive
<1> QED BY <1>1, Invariance, PTL

(* Under the same proviso the name stands for the daemon's file, and its   *)
(* first line is the daemon's pid (daemon.c:85-95).                        *)
THEOREM NamesDaemon == Spec => []FileNamesDaemon
<1>1. IInv => FileNamesDaemon
      BY DEF IInv, AtName, Written, IsNamed, FileNamesDaemon, In, HasLock
<1> QED BY <1>1, Invariance, PTL
=============================================================================
