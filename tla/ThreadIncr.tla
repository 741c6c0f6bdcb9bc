----------------------------- MODULE ThreadIncr -----------------------------
(***************************************************************************)
(* Threads that increment one global variable, one program (kind) of:      *)
(* src/threads/thread_incr.c, thread_incr_mutex.c, thread_incr_rwlock.c,   *)
(* thread_incr_spinlock.c, thread_lock_speed.c and                         *)
(* src/psem/thread_incr_psem.c.  An increment is a load and a store; glob  *)
(* is volatile, or the lock calls order the accesses.                      *)
(***************************************************************************)
EXTENDS Naturals, FiniteSets

CONSTANTS Loops,          \* num-loops, and num-outer-loops of thread_lock_speed
          Inner,          \* num-inner-loops of thread_lock_speed
          NumThreads      \* num-threads of thread_lock_speed

\* Two threads or more, which loop at least twice ("thread_incr 1" can print 1).
Assumption ==
  Loops \in Nat /\ Loops >= 2 /\ Inner \in Nat /\ Inner >= 1 /\ NumThreads \in Nat /\ NumThreads >= 2

VARIABLES kind, main, made, joined,  \* main(): where it is, threads created and joined
          tpc, turn, k, loc,         \* a thread: where, turns of its outer and inner loop, loc
          glob, avail                \* avail: 1 if the lock is free (the semaphore's value)

vars == <<kind, main, made, joined, tpc, turn, k, loc, glob, avail>>

Kinds == {"incr", "mutex", "rwlock", "spinlock", "psem", "speed"}
Threads == 1..NumThreads
Num == IF kind = "speed" THEN NumThreads ELSE 2
InnerLoops == IF kind = "speed" THEN Inner ELSE 1
Actors == {0} \cup Threads        \* 0 is the main thread
Running == main \notin {"done", "failed", "killed"}

\* The mutex of thread_incr_mutex is initialized statically; the other locks are
\* no locks yet.
Init ==
  /\ kind \in Kinds /\ main = (IF kind \in {"incr", "mutex"} THEN "threads" ELSE "init")
  /\ made = 0 /\ joined = 0
  /\ tpc = [t \in Threads |-> "none"] /\ turn = [t \in Threads |-> 0]
  /\ k = [t \in Threads |-> 0] /\ loc = [t \in Threads |-> 0]
  /\ glob = 0 /\ avail = IF kind = "mutex" THEN 1 ELSE 0
-----------------------------------------------------------------------------
(* main() *)

thread == <<tpc, turn, k, loc, glob>>

InitLock ==
  /\ main = "init" /\ \/ main' = "threads" /\ avail' = 1
                      \/ main' = "failed" /\ UNCHANGED avail
  /\ UNCHANGED <<kind, made, joined, thread>>

\* A failing pthread_create() ends the process, the threads that run with it.
Create ==
  /\ main = "threads" /\ made < Num
  /\ \/ /\ made' = made + 1 /\ tpc' = [tpc EXCEPT ![made + 1] = "loop"] /\ UNCHANGED main
     \/ main' = "failed" /\ UNCHANGED <<made, tpc>>
  /\ UNCHANGED <<kind, joined, turn, k, loc, glob, avail>>

Join ==
  /\ main = "threads" /\ made = Num /\ tpc[joined + 1] = "returned"
  /\ joined' = joined + 1 /\ main' = (IF joined' = Num THEN "done" ELSE main)
  /\ UNCHANGED <<kind, made, thread, avail>>

\* thread_lock_speed: nobody handles the SIGALRM of alarm(120).
Alarm == kind = "speed" /\ Running /\ main' = "killed" /\ UNCHANGED <<kind, made, joined, thread, avail>>

Main == InitLock \/ Create \/ Join
-----------------------------------------------------------------------------
(* threadFunc() *)

Goes(t, from, to) == Running /\ tpc[t] = from /\ tpc' = [tpc EXCEPT ![t] = to]
Rest == UNCHANGED <<kind, main, made, joined>>

Load(t) ==
  /\ Goes(t, "load", "store") /\ loc' = [loc EXCEPT ![t] = glob]
  /\ Rest /\ UNCHANGED <<turn, k, glob, avail>>

\* The last store of the inner loop leads to the unlock, or without a lock to the
\* next turn.
Store(t) ==
  /\ Goes(t, "store", IF k[t] + 1 < InnerLoops THEN "load" ELSE IF kind = "incr" THEN "loop" ELSE "unlock")
  /\ glob' = loc[t] + 1
  /\ k' = [k EXCEPT ![t] = IF @ + 1 < InnerLoops THEN @ + 1 ELSE 0]
  /\ turn' = [turn EXCEPT ![t] = @ + IF tpc'[t] = "loop" THEN 1 ELSE 0]
  /\ Rest /\ UNCHANGED <<loc, avail>>

Return(t) == turn[t] = Loops /\ Goes(t, "loop", "returned") /\ Rest /\ UNCHANGED <<turn, k, loc, glob, avail>>

Enter(t) == turn[t] < Loops /\ Goes(t, "loop", "load") /\ Rest /\ UNCHANGED <<turn, k, loc, glob, avail>>

\* pthread_mutex_lock(), pthread_rwlock_wrlock(), pthread_spin_lock(), sem_wait().
Lock(t) ==
  /\ turn[t] < Loops /\ avail > 0 /\ avail' = avail - 1
  /\ Goes(t, "loop", "load") /\ Rest /\ UNCHANGED <<turn, k, loc, glob>>

Unlock(t) ==
  /\ Goes(t, "unlock", "loop") /\ avail' = avail + 1
  /\ turn' = [turn EXCEPT ![t] = @ + 1]
  /\ Rest /\ UNCHANGED <<k, loc, glob>>

Unlocked(t) == Enter(t) \/ Load(t) \/ Store(t) \/ Return(t)
Locked(t) == Lock(t) \/ Load(t) \/ Store(t) \/ Unlock(t) \/ Return(t)
-----------------------------------------------------------------------------
(* The programs: a step of the actor a *)

Process(program, a, Body(_)) == kind = program /\ ((a = 0 /\ Main) \/ (a \in Threads /\ Body(a)))

\* Mutant of ThreadIncrRwlock: the lock is taken for the load only.
ReadLocked(t) ==
  \/ Lock(t)
  \/ /\ Goes(t, "load", "store") /\ loc' = [loc EXCEPT ![t] = glob] /\ avail' = avail + 1
     /\ Rest /\ UNCHANGED <<turn, k, glob>>
  \/ /\ Goes(t, "store", "loop") /\ glob' = loc[t] + 1 /\ turn' = [turn EXCEPT ![t] = @ + 1]
     /\ Rest /\ UNCHANGED <<k, loc, avail>>
  \/ Return(t)
ThreadIncrRdlock(a) == Process("rwlock", a, ReadLocked)

ThreadIncr(a) == Process("incr", a, Unlocked)
ThreadIncrMutex(a) == Process("mutex", a, Locked)
ThreadIncrRwlock(a) == Process("rwlock", a, Locked)
ThreadIncrSpinlock(a) == Process("spinlock", a, Locked)
ThreadIncrPsem(a) == Process("psem", a, Locked)
ThreadLockSpeed(a) == Process("speed", a, Locked)

Program(a) ==
  \/ ThreadIncr(a) \/ ThreadIncrMutex(a) \/ ThreadIncrRwlock(a) \/ ThreadIncrSpinlock(a)
  \/ ThreadIncrPsem(a) \/ ThreadLockSpeed(a)

Next == (\E a \in Actors : Program(a)) \/ Alarm

Spec == Init /\ [][Next]_vars
-----------------------------------------------------------------------------
\* The values of the variables: the lock is held by at most one thread.
TypeOK ==
  /\ main \in {"init", "threads", "done", "failed", "killed"} /\ joined \in 0..made /\ made \in 0..Num
  /\ turn \in [Threads -> 0..Loops] /\ avail \in 0..1

\* What main() prints: with a lock of any of the four kinds every increment of every
\* thread is in glob; without one ("updates are sometimes lost") at most as many
\* as were made, but never fewer than two, however often a stale loc is stored.
GlobPrinted ==
  main = "done" =>
    /\ kind # "incr" => glob = Num * Loops * InnerLoops
    /\ kind = "incr" => glob \in 2..Num * Loops
-----------------------------------------------------------------------------
(* The inductive invariant *)

\* Thread t has done the store of the turn n of its outer loop and the turn m of its inner one.
Stored(t, n, m) == n < turn[t] \/ (n = turn[t] /\ (m < k[t] \/ tpc[t] = "unlock"))

Increments == ((1..Num) \X (0..Loops-1)) \X (0..InnerLoops-1)
Stores == {s \in Increments : Stored(s[1][1], s[1][2], s[2])}

Inside == {"load", "store", "unlock"}

\* Where main() and the threads are.
Positions ==
  /\ kind \in Kinds /\ main \in {"init", "threads", "done", "failed", "killed"}
  /\ made \in 0..Num /\ joined \in 0..made /\ avail \in 0..1
  /\ tpc \in [Threads -> {"none", "loop", "returned"} \cup Inside] /\ turn \in [Threads -> 0..Loops]
  /\ k \in [Threads -> 0..InnerLoops-1] /\ loc \in [Threads -> Nat] /\ glob \in Nat
  /\ main = "init" => made = 0
  /\ main = "threads" => joined < Num
  /\ main = "done" => joined = Num
  /\ \A t \in Threads : /\ tpc[t] = "none" <=> t > made
                        /\ tpc[t] = "none" => turn[t] = 0
                        /\ tpc[t] = "returned" => turn[t] = Loops
                        /\ t <= joined => tpc[t] = "returned"
                        /\ tpc[t] \in Inside => turn[t] < Loops
                        /\ tpc[t] \notin {"load", "store"} => k[t] = 0

\* With a lock one thread at a time is inside, and glob counts the stores.
WithLock ==
  /\ \A t \in Threads : tpc[t] \in Inside => avail = 0
  /\ \A t, u \in Threads : tpc[t] \in Inside /\ tpc[u] \in Inside => t = u
  /\ \A t \in Threads : tpc[t] = "store" => loc[t] = glob
  /\ glob = Cardinality(Stores)

\* Without one the value in glob and in a loc is at most the number of stores, and a
\* thread that has stored before loads at least one: the last store of all writes at
\* least two.
WithoutLock ==
  /\ glob <= turn[1] + turn[2] /\ \A t \in Threads : tpc[t] # "unlock" /\ loc[t] <= turn[1] + turn[2]
  /\ (\E t \in 1..2 : turn[t] > 0) => glob >= 1
  /\ \A t \in 1..2 : tpc[t] = "store" /\ turn[t] > 0 => loc[t] >= 1
  /\ (\A t \in 1..2 : turn[t] = Loops) => glob >= 2

IInv == Positions /\ IF kind = "incr" THEN WithoutLock ELSE WithLock
=============================================================================
