------------------------------ MODULE PidFile -------------------------------
(***************************************************************************)
(* src/filelock/create_pid_file.c, on top of region_locking.c: a daemon    *)
(* opens and locks its PID file to make sure that it is the only instance, *)
(* and writes its process ID there.  Its caller may delete the file before *)
(* it terminates, as the comment above createPidFile() asks.               *)
(***************************************************************************)
EXTENDS Naturals, Sequences

CONSTANTS Pids,
          Digits,     \* the decimal digits of each process ID
          MaxFiles,   \* files that may be created under the name
          Nobody

VARIABLES deletes,    \* whether callers delete the file at the end
          pc,         \* process -> where it is
          fd,         \* process -> the file it has open, or 0
          name,       \* the file that pidFile names, or 0
          created,    \* files created so far
          lock,       \* file -> the process that holds the write lock
          text        \* file -> its contents

vars == <<deletes, pc, fd, name, created, lock, text>>

Files == 1..MaxFiles
Goto(p, to) == pc' = [pc EXCEPT ![p] = to]

\* write() at offset 0.
Overwrite(old, new) == new \o SubSeq(old, Len(new) + 1, Len(old))

Init ==
  /\ deletes \in BOOLEAN
  /\ pc = [p \in Pids |-> "out"] /\ fd = [p \in Pids |-> 0]
  /\ name = 0 /\ created = 0
  /\ lock = [f \in Files |-> Nobody] /\ text = [f \in Files |-> <<>>]

\* open() with O_CREAT.
Open(p) ==
  /\ pc[p] = "out"
  /\ IF name # 0
     THEN UNCHANGED <<name, created>>
     ELSE created < MaxFiles /\ created' = created + 1 /\ name' = created'
  /\ fd' = [fd EXCEPT ![p] = name']
  /\ Goto(p, "lock")
  /\ UNCHANGED <<lock, text>>

\* Termination closes the descriptor, which releases the lock.
Released(p) == [f \in Files |-> IF lock[f] = p THEN Nobody ELSE lock[f]]

Terminate(p) ==
  /\ lock' = Released(p) /\ fd' = [fd EXCEPT ![p] = 0] /\ Goto(p, "out")
  /\ UNCHANGED <<name, created, text>>

\* F_SETLK of a write lock on the whole file.
CanLock(f) == lock[f] = Nobody
SetLock(f, p) == lock' = [lock EXCEPT ![f] = p]

\* Mutant of LockRegion: F_GETLK is believed without the lock being taken.
LockRegionTests(p) ==
  /\ pc[p] = "lock" /\ CanLock(fd[p])
  /\ Goto(p, "truncate") /\ UNCHANGED <<fd, name, created, lock, text>>

\* lockRegion() does not wait: the file is locked, or the program is running.
LockRegion(p) ==
  /\ pc[p] = "lock"
  /\ IF CanLock(fd[p])
     THEN /\ SetLock(fd[p], p)
          /\ Goto(p, "truncate") /\ UNCHANGED <<fd, name, created, text>>
     ELSE Terminate(p)

Truncate(p) ==
  /\ pc[p] = "truncate"
  /\ text' = [text EXCEPT ![fd[p]] = <<>>]
  /\ Goto(p, "write") /\ UNCHANGED <<fd, name, created, lock>>

\* createPidFile() returns and the daemon runs.
Write(p) ==
  /\ pc[p] = "write"
  /\ text' = [text EXCEPT ![fd[p]] = Overwrite(@, Digits[p])]
  /\ Goto(p, "run") /\ UNCHANGED <<fd, name, created, lock>>

\* The caller deletes the file "(just) before process termination".
Delete(p) ==
  /\ pc[p] = "run" /\ deletes
  /\ name' = 0 /\ Goto(p, "deleted") /\ UNCHANGED <<fd, created, lock, text>>

\* The caller terminates, or the process is killed at any moment.
Exit(p) == pc[p] # "out" /\ Terminate(p)

Next ==
  /\ \E p \in Pids : Open(p) \/ LockRegion(p) \/ Truncate(p) \/ Write(p) \/ Delete(p) \/ Exit(p)
  /\ UNCHANGED deletes

-----------------------------------------------------------------------------
TypeOK ==
  /\ created \in 0..MaxFiles /\ name \in 0..created
  /\ \A p \in Pids : /\ pc[p] \in {"out", "lock", "truncate", "write", "run", "deleted"}
                     /\ fd[p] \in 0..created /\ (fd[p] = 0 <=> pc[p] = "out")
  /\ \A f \in Files : lock[f] = Nobody \/ fd[lock[f]] = f

\* "ensure that only one instance of the program is running": so it is while no
\* instance deletes the file.
OneInstance == ~deletes => \A p, q \in Pids : pc[p] = "run" /\ pc[q] = "run" => p = q

\* While an instance runs, the file holds the digits of its process ID and
\* nothing that a killed instance with a longer process ID left there.
PidRecorded == \A p \in Pids : pc[p] = "run" => text[fd[p]] = Digits[p]

Assumption == MaxFiles \in Nat /\ Nobody \notin Pids /\ Digits \in [Pids -> Seq(Nat)]

States == {"out", "lock", "truncate", "write", "run", "deleted"}

\* A process past lockRegion() has the lock on the file that it has open, whose
\* contents nobody else changes; without deletions there is only one file.
IInv ==
  /\ pc \in [Pids -> States] /\ fd \in [Pids -> 0..MaxFiles]
  /\ created \in 0..MaxFiles /\ name \in 0..created
  /\ lock \in [Files -> Pids \cup {Nobody}] /\ text \in [Files -> Seq(Nat)]
  /\ \A p \in Pids : fd[p] <= created /\ (fd[p] = 0 <=> pc[p] = "out")
  /\ \A f \in Files : lock[f] = Nobody \/ fd[lock[f]] = f
  /\ \A p \in Pids : pc[p] \in {"truncate", "write", "run", "deleted"} => lock[fd[p]] = p
  /\ \A p \in Pids : /\ pc[p] = "write" => text[fd[p]] = <<>>
                     /\ pc[p] \in {"run", "deleted"} => text[fd[p]] = Digits[p]
  /\ ~deletes => name = created /\ created <= 1
=============================================================================
