----------------------------- MODULE MCThreads ------------------------------
(***************************************************************************)
(* The small thread programs, one of which each behaviour runs: the two    *)
(* producer programs, thread_multijoin, the barrier demo, one_time_init,   *)
(* the programs that count and those that cancel threads or use their own  *)
(* data.  The programs come first, each with the proof of its inductive    *)
(* invariant; the suite and its theorems follow.                           *)
(***************************************************************************)
EXTENDS Integers, FiniteSets, TLAPS

CONSTANTS Nobody, Producers, MaxCount, N, T, numBarriers, Calls,
          Loops, Inner, NumThreads

\* Finitely many threads, none of which is Nobody or main().
ASSUME ThreadsAssumption ==
  /\ IsFiniteSet(Producers) /\ "main" \notin Producers /\ Nobody \notin Producers \cup {"main"}
  /\ MaxCount \in Nat
  /\ N \in Nat /\ Nobody \notin 0..N
  /\ IsFiniteSet(T) /\ Nobody \notin T /\ numBarriers \in Nat /\ Calls \in Nat

VARIABLES program,
          mtx, waiters, pc,
          cnt, totRequired, avail, numConsumed, done,
          state, numLive, numUnjoined, idx,
          j, arrived, serial, joined,
          called, calls, begun, ended,
          kind, glob,
          main, made, tjoined, tpc, turn, k, loc, lock,
          mpc, opc, holder, request, end, block, text, str, key, freed
-----------------------------------------------------------------------------
(* thread_cleanup.c, thread_cancel.c and strerror_test.c *)

Life == INSTANCE ThreadLife WITH tpc <- opc, mtx <- holder

\* A step of thread_cleanup keeps the invariant.
LEMMA LifeCleanup ==
  ASSUME Life!IInv, kind \in Life!Cleanups, Life!CleanupThread \/ Life!CleanupMain \/ Life!Spurious
  PROVE  Life!IInv'
<1> USE DEF Life!IInv, Life!TypeOK, Life!CleanupInv, Life!Cleanups, Life!Strerrors, Life!Both,
            Life!M, Life!TGo, Life!cond, Life!err
<1>1. CASE Life!Spurious \/ Life!CleanupHandler
  BY <1>1 DEF Life!Spurious, Life!CleanupHandler
<1>2. CASE Life!CleanupThread /\ ~Life!CleanupHandler
  BY <1>2 DEF Life!CleanupThread, Life!Canceled
<1>3. CASE kind = "cleanup_cancel" /\ (Life!Create("malloc", "cancel") \/ Life!Cancel)
  <2>1. CASE Life!Cancel
    <3>1. /\ mpc = "cancel" /\ mpc' = "join" /\ request'
          /\ UNCHANGED <<kind, end, opc, holder, glob, block, text, str, key, freed>>
      BY <2>1, Zenon DEF Life!Cancel
    <3> QED
      BY <1>3, <3>1
  <2> QED
    BY <1>3, <2>1 DEF Life!Create
<1>4. CASE (kind = "cleanup_signal" /\ Life!Create("malloc", "lock")) \/ Life!Join
  BY <1>4 DEF Life!Create, Life!Join
<1>5. CASE Life!CleanupMain /\ mpc \in {"lock", "set", "unlock", "signal"}
  BY <1>5 DEF Life!CleanupMain, Life!Create, Life!Cancel, Life!Join
<1> QED
  BY <1>1, <1>2, <1>3, <1>4, <1>5 DEF Life!CleanupMain, Life!M

\* A step of thread_cancel keeps the invariant.
LEMMA LifeCancel ==
  ASSUME Life!IInv, kind = "cancel", Life!CancelThread \/ Life!CancelMain
  PROVE  Life!IInv'
<1> USE DEF Life!IInv, Life!TypeOK, Life!CancelInv, Life!Cleanups, Life!Strerrors, Life!Both,
            Life!M, Life!TGo, Life!cond, Life!err
<1>1. CASE Life!CancelThread
  BY <1>1 DEF Life!CancelThread, Life!Canceled
<1>2. CASE Life!Cancel
  <2>1. /\ mpc = "cancel" /\ mpc' = "join" /\ request'
        /\ UNCHANGED <<kind, end, opc, holder, glob, block, text, str, key, freed>>
    BY <1>2, Zenon DEF Life!Cancel
  <2> QED
    BY <2>1
<1>3. CASE Life!Create("printf", "cancel") \/ Life!Join
  BY <1>3 DEF Life!Create, Life!Join
<1> QED
  BY <1>1, <1>2, <1>3 DEF Life!CancelMain

\* A step of strerror_test, with any of the three implementations, keeps the invariant.
LEMMA LifeStrerror ==
  ASSUME Life!IInv, kind \in Life!Strerrors, Life!StrerrorTest
  PROVE  Life!IInv'
<1> USE DEF Life!IInv, Life!TypeOK, Life!StrerrorInv, Life!BufferOf, Life!Cleanups, Life!Strerrors, Life!Both,
            Life!M, Life!TGo, Life!cond, Life!err
<1>1. ASSUME NEW t \in Life!Both, NEW e, Life!Strerror(t, e)
      PROVE  /\ text' = [text EXCEPT ![Life!BufferOf(t)] = e] /\ str' = [str EXCEPT ![t] = Life!BufferOf(t)]
             /\ freed' = freed
  BY <1>1, Zenon DEF Life!Strerror, Life!StrerrorStatic, Life!StrerrorTsd, Life!StrerrorTls, Life!Buffer
<1>2. CASE Life!M("strerror", "create") /\ Life!Strerror("main", "EINVAL") /\ UNCHANGED <<opc, request, Life!cond>>
  <2>1. /\ text' = [text EXCEPT ![Life!BufferOf("main")] = "EINVAL"]
        /\ str' = [str EXCEPT !["main"] = Life!BufferOf("main")] /\ freed' = freed
    BY <1>1, <1>2
  <2> QED
    BY <1>2, <2>1
<1>3. CASE Life!TGo("strerror", "exit") /\ Life!Strerror("other", "EPERM") /\ UNCHANGED <<Life!cond, end>>
  <2>1. /\ text' = [text EXCEPT ![Life!BufferOf("other")] = "EPERM"]
        /\ str' = [str EXCEPT !["other"] = Life!BufferOf("other")] /\ freed' = freed
    BY <1>1, <1>3
  <2> QED
    BY <1>3, <2>1
<1>4. CASE Life!Create("strerror", "join") \/ Life!Join
  BY <1>4 DEF Life!Create, Life!Join
<1>5. CASE /\ Life!TGo("exit", "ended") /\ end' = "returned" /\ freed' = {str["other"]} \ {"buf"}
           /\ UNCHANGED <<Life!cond, text, str, key>>
  BY <1>5
<1> QED
  BY <1>2, <1>3, <1>4, <1>5 DEF Life!StrerrorTest

\* Every step keeps the invariant.
LEMMA LifeNext ==
  ASSUME Life!IInv, [Life!Next]_Life!vars
  PROVE  Life!IInv'
<1>1. CASE UNCHANGED Life!vars
  BY <1>1 DEF Life!vars, Life!IInv, Life!TypeOK, Life!CleanupInv, Life!CancelInv, Life!StrerrorInv, Life!BufferOf
<1>2. CASE Life!Spurious
  BY <1>2, LifeCleanup DEF Life!Spurious
<1> QED
  BY <1>1, <1>2, LifeCleanup, LifeCancel, LifeStrerror
     DEF Life!Next, Life!ThreadCleanup, Life!ThreadCancel, Life!StrerrorPrograms

\* The initial state satisfies the invariant.
LEMMA LifeInit ==
  ASSUME Life!Init
  PROVE  Life!IInv
BY DEF Life!Init, Life!IInv, Life!TypeOK, Life!CleanupInv, Life!CancelInv, Life!StrerrorInv, Life!BufferOf,
       Life!Cleanups, Life!Strerrors, Life!Both

\* The invariant implies that the thread leaves nothing behind, that its cleanup handler
\* runs with the mutex, and that main() keeps the text strerror() gave it.
LEMMA LifeHolds ==
  ASSUME Life!IInv
  PROVE  Life!TypeOK /\ Life!LeftBehind /\ Life!HandlerHasMutex
<1> USE DEF Life!IInv, Life!TypeOK, Life!CleanupInv, Life!CancelInv, Life!StrerrorInv, Life!BufferOf,
            Life!Cleanups, Life!Strerrors, Life!Both
<1>1. Life!LeftBehind
  BY DEF Life!LeftBehind
<1>2. Life!HandlerHasMutex
  BY DEF Life!HandlerHasMutex
<1> QED
  BY <1>1, <1>2
-----------------------------------------------------------------------------
(* one_time_init.c *)

Once == INSTANCE OneTimeInit WITH Threads <- T

\* Every step of a thread keeps the invariant.
LEMMA OnceStep ==
  ASSUME Nobody \notin T, Calls \in Nat, Once!IInv, NEW t \in T, Once!Step(t)
  PROVE  Once!IInv'
<1> USE DEF Once!IInv, Once!TypeOK, Once!Goto
<1>1. CASE Once!Lock(t)
  BY <1>1 DEF Once!Lock, Once!MutexLock
<1>2. CASE Once!Test(t)
  BY <1>2 DEF Once!Test
<1>3. CASE Once!InitFunc(t)
  BY <1>3 DEF Once!InitFunc
<1>4. CASE Once!SetCalled(t)
  BY <1>4 DEF Once!SetCalled
<1>5. CASE Once!Unlock(t)
  <2>1. /\ pc[t] = "unlock" /\ mtx = t /\ mtx' = Nobody /\ called
        /\ pc' = [pc EXCEPT ![t] = "call"] /\ calls' = [calls EXCEPT ![t] = @ + 1]
        /\ UNCHANGED <<called, begun, ended>>
    BY <1>5 DEF Once!Unlock, Once!MutexUnlock
  <2>2. calls[t] < Calls
    BY <2>1
  <2> QED
    BY <2>1, <2>2
<1> QED
  BY <1>1, <1>2, <1>3, <1>4, <1>5 DEF Once!Step

\* The initial state satisfies the invariant.
LEMMA OnceInit ==
  ASSUME Nobody \notin T, Calls \in Nat, Once!Init
  PROVE  Once!IInv
<1>1. Once!TypeOK
  <2>1. calls \in [T -> 0..Calls] /\ begun \in 0..1 /\ ended \in 0..begun
    BY DEF Once!Init
  <2>2. pc \in [T -> {"call", "test", "init", "set", "unlock"}]
    BY DEF Once!Init
  <2> QED
    BY <2>1, <2>2, Zenon DEF Once!Init, Once!TypeOK
<1>2. \A t \in T : pc[t] = "call" /\ calls[t] = 0 /\ mtx # t
  BY DEF Once!Init
<1> QED
  BY <1>1, <1>2 DEF Once!Init, Once!IInv

\* Every step keeps the invariant.
LEMMA OnceNext ==
  ASSUME Nobody \notin T, Calls \in Nat, Once!IInv, [Once!Next]_Once!vars
  PROVE  Once!IInv'
<1>1. CASE Once!Next
  BY <1>1, OnceStep DEF Once!Next
<1>2. CASE UNCHANGED Once!vars
  BY <1>2 DEF Once!vars, Once!IInv, Once!TypeOK
<1> QED
  BY <1>1, <1>2

\* What pthread_once() promises follows from the invariant.
LEMMA OnceHolds ==
  ASSUME Once!IInv
  PROVE  Once!TypeOK /\ Once!Once
BY DEF Once!IInv, Once!TypeOK, Once!Once
-----------------------------------------------------------------------------
(* Counting *)

INSTANCE FiniteSetTheorems

\* 1..n has n elements.
LEMMA UpTo ==
  ASSUME NEW n \in Nat
  PROVE  IsFiniteSet(1..n) /\ Cardinality(1..n) = n
<1>1. 1 \in Int /\ n \in Int /\ (IF 1 > n THEN 0 ELSE n - 1 + 1) = n
  OBVIOUS
<1>2. IsFiniteSet(1..n) /\ Cardinality(1..n) = IF 1 > n THEN 0 ELSE n - 1 + 1
  BY <1>1, FS_Interval, Zenon
<1> QED
  BY <1>1, <1>2
-----------------------------------------------------------------------------
(* thread_incr*.c, thread_lock_speed.c and thread_incr_psem.c *)

Incr == INSTANCE ThreadIncr WITH joined <- tjoined, avail <- lock

\* Cardinality is the same here and there.
LEMMA IncrCounting == \A S : Incr!Cardinality(S) = Cardinality(S)
BY DEF Cardinality, Incr!Cardinality

\* What the proofs use of the arguments: two or more threads, each of which loops.
LEMMA IncrNumbers ==
  ASSUME Incr!Assumption, Incr!Positions
  PROVE  /\ Incr!Num \in Nat /\ Incr!Num >= 2 /\ 1..Incr!Num \subseteq Incr!Threads
         /\ Incr!InnerLoops \in Nat /\ Incr!InnerLoops >= 1 /\ Loops \in Nat /\ Loops >= 2
         /\ kind = "incr" => Incr!Num = 2 /\ Incr!InnerLoops = 1
BY DEF Incr!Assumption, Incr!Num, Incr!InnerLoops, Incr!Threads

\* There are so many increments in all.
LEMMA IncrAll ==
  ASSUME Incr!Assumption, Incr!Positions
  PROVE  /\ IsFiniteSet(Incr!Increments)
         /\ Cardinality(Incr!Increments) = Incr!Num * Loops * Incr!InnerLoops
<1>1. ASSUME NEW n \in Nat PROVE IsFiniteSet(0..n-1) /\ Cardinality(0..n-1) = n
  <2>1. 0 \in Int /\ n - 1 \in Int /\ (IF 0 > n - 1 THEN 0 ELSE n - 1 - 0 + 1) = n
    OBVIOUS
  <2>2. IsFiniteSet(0..n-1) /\ Cardinality(0..n-1) = IF 0 > n - 1 THEN 0 ELSE n - 1 - 0 + 1
    BY <2>1, FS_Interval, Zenon
  <2> QED
    BY <2>1, <2>2
<1> DEFINE Turns == (1..Incr!Num) \X (0..Loops-1)
<1>2. IsFiniteSet(Turns) /\ Cardinality(Turns) = Incr!Num * Loops
  <2>1. IsFiniteSet(1..Incr!Num) /\ Cardinality(1..Incr!Num) = Incr!Num
    BY UpTo, IncrNumbers
  <2>2. IsFiniteSet(0..Loops-1) /\ Cardinality(0..Loops-1) = Loops
    BY <1>1, IncrNumbers
  <2>3. IsFiniteSet(Turns) /\ Cardinality(Turns) = Cardinality(1..Incr!Num) * Cardinality(0..Loops-1)
    BY <2>1, <2>2, FS_Product, Zenon
  <2> QED
    BY <2>1, <2>2, <2>3
<1>3. IsFiniteSet(0..Incr!InnerLoops-1) /\ Cardinality(0..Incr!InnerLoops-1) = Incr!InnerLoops
  BY <1>1, IncrNumbers
<1>4. Incr!Increments = Turns \X (0..Incr!InnerLoops-1)
  BY DEF Incr!Increments
<1> HIDE DEF Turns
<1>5. /\ IsFiniteSet(Incr!Increments)
      /\ Cardinality(Incr!Increments) = Cardinality(Turns) * Cardinality(0..Incr!InnerLoops-1)
  BY <1>2, <1>3, <1>4, FS_Product, Zenon
<1> QED
  BY <1>2, <1>3, <1>5

\* Of which finitely many are stored at any time.
LEMMA IncrFinite ==
  ASSUME Incr!Assumption, Incr!Positions
  PROVE  IsFiniteSet(Incr!Stores) /\ Cardinality(Incr!Stores) \in Nat
<1>1. Incr!Stores \in SUBSET Incr!Increments
  BY DEF Incr!Stores
<1> QED
  BY <1>1, IncrAll, FS_Subset, FS_CardinalityType

\* A step of main(), or the end of the process by SIGALRM.
LEMMA IncrMain ==
  ASSUME Incr!Assumption, Incr!IInv, Incr!Main \/ Incr!Alarm \/ UNCHANGED Incr!vars
  PROVE  Incr!IInv'
<1> USE DEF Incr!thread
<1>1. /\ UNCHANGED <<kind, turn, k, loc, glob>> /\ tpc' \in [Incr!Threads -> {"none", "loop", "returned"} \cup Incr!Inside]
      /\ \A t \in Incr!Threads : tpc'[t] = tpc[t] \/ (tpc[t] = "none" /\ tpc'[t] = "loop")
      /\ lock' = lock \/ (lock' = 1 /\ main = "init")
  BY IncrNumbers DEF Incr!Main, Incr!InitLock, Incr!Create, Incr!Join, Incr!Alarm, Incr!vars, Incr!IInv, Incr!Positions
<1>2. Incr!Num' = Incr!Num /\ Incr!InnerLoops' = Incr!InnerLoops
  BY <1>1 DEF Incr!Num, Incr!InnerLoops
<1>3. Incr!Positions'
  <2>1. CASE Incr!InitLock \/ Incr!Alarm \/ UNCHANGED Incr!vars
    BY <1>2, <2>1, IncrNumbers DEF Incr!InitLock, Incr!Alarm, Incr!vars, Incr!IInv, Incr!Positions, Incr!Running
  <2>2. CASE Incr!Create
    <3>1. CASE main' = "failed" /\ UNCHANGED <<made, tpc>>
      BY <1>1, <1>2, <2>2, <3>1, IncrNumbers DEF Incr!Create, Incr!IInv, Incr!Positions
    <3>2. CASE made' = made + 1 /\ tpc' = [tpc EXCEPT ![made + 1] = "loop"] /\ main' = main
      <4>1. main = "threads" /\ made < Incr!Num /\ UNCHANGED <<kind, tjoined, turn, k, loc, glob, lock>>
        BY <2>2 DEF Incr!Create
      <4>2. made \in Nat /\ made + 1 <= Incr!Num /\ tjoined \in 0..made /\ Incr!Num \in Nat /\ 1..Incr!Num \subseteq Incr!Threads
        BY <4>1, IncrNumbers DEF Incr!IInv, Incr!Positions
      <4>3. made' \in 0..Incr!Num /\ tjoined \in 0..made' /\ made + 1 \in Incr!Threads
        BY <3>2, <4>2
      <4>4. \A t \in Incr!Threads : tpc'[t] = IF t = made + 1 THEN "loop" ELSE tpc[t]
        BY <3>2 DEF Incr!IInv, Incr!Positions
      <4>5. \A t \in Incr!Threads : t > made' <=> t > made /\ t # made + 1
        BY <3>2, IncrNumbers DEF Incr!IInv, Incr!Positions, Incr!Threads
      <4>6. ~(made + 1 <= tjoined) /\ k[made + 1] = 0
        BY <4>2, IncrNumbers DEF Incr!IInv, Incr!Positions
      <4>7. \A t \in Incr!Threads : /\ tpc'[t] = "none" <=> t > made'
                                    /\ tpc'[t] = "none" => turn[t] = 0
                                    /\ tpc'[t] = "returned" => turn[t] = Loops
                                    /\ t <= tjoined => tpc'[t] = "returned"
                                    /\ tpc'[t] \in Incr!Inside => turn[t] < Loops
                                    /\ tpc'[t] \notin {"load", "store"} => k[t] = 0
        BY <4>4, <4>5, <4>6 DEF Incr!IInv, Incr!Positions, Incr!Inside
      <4> QED
        BY <1>1, <1>2, <3>2, <4>1, <4>3, <4>7 DEF Incr!IInv, Incr!Positions
    <3> QED
      BY <2>2, <3>1, <3>2, Zenon DEF Incr!Create
  <2>3. CASE Incr!Join
    BY <1>1, <1>2, <2>3, IncrNumbers DEF Incr!Join, Incr!IInv, Incr!Positions, Incr!Threads
  <2> QED
    BY <2>1, <2>2, <2>3 DEF Incr!Main
<1>4. Incr!Stores' = Incr!Stores
  <2>1. \A t \in 1..Incr!Num : tpc'[t] = "unlock" <=> tpc[t] = "unlock"
    BY <1>1, IncrNumbers DEF Incr!IInv
  <2> QED
    BY <1>1, <1>2, <2>1 DEF Incr!Stores, Incr!Increments, Incr!Stored
<1>5. CASE kind = "incr"
  BY <1>1, <1>3, <1>5, IncrNumbers DEF Incr!IInv, Incr!WithoutLock, Incr!Threads
<1>6. CASE kind # "incr"
  <2>1. main = "init" => \A t \in Incr!Threads : tpc[t] = "none"
    BY DEF Incr!IInv, Incr!Positions, Incr!Threads
  <2> QED
    BY <1>1, <1>3, <1>4, <1>6, <2>1, Zenon DEF Incr!IInv, Incr!WithLock, Incr!Inside
<1> QED
  BY <1>5, <1>6

\* Where the threads are after a step of one of them.
LEMMA IncrThread ==
  ASSUME Incr!Assumption, Incr!IInv, NEW t \in Incr!Threads,
         \/ kind = "incr" /\ Incr!Unlocked(t)
         \/ kind # "incr" /\ Incr!Locked(t)
  PROVE  Incr!Positions' /\ kind' = kind
<1> USE DEF Incr!Goes, Incr!Rest
<1>1. kind' = kind /\ Incr!Num' = Incr!Num /\ Incr!InnerLoops' = Incr!InnerLoops
  BY DEF Incr!Unlocked, Incr!Locked, Incr!Enter, Incr!Lock, Incr!Load, Incr!Store, Incr!Unlock, Incr!Return,
         Incr!Num, Incr!InnerLoops
<1>2. CASE Incr!Enter(t) \/ Incr!Lock(t) \/ Incr!Load(t) \/ Incr!Return(t)
  BY <1>1, <1>2, IncrNumbers DEF Incr!Enter, Incr!Lock, Incr!Load, Incr!Return, Incr!IInv, Incr!Positions, Incr!Inside
<1>3. CASE Incr!Store(t)
  <2>1. /\ tpc[t] = "store" /\ tpc' = [tpc EXCEPT ![t] = tpc'[t]] /\ UNCHANGED <<main, made, tjoined, loc, lock>>
        /\ k' = [k EXCEPT ![t] = k'[t]] /\ turn' = [turn EXCEPT ![t] = turn'[t]] /\ glob' \in Nat
        /\ tpc'[t] \in {"load", "loop", "unlock"} /\ k'[t] \in 0..Incr!InnerLoops-1
        /\ tpc'[t] # "load" => k'[t] = 0
        /\ turn'[t] = (IF tpc'[t] = "loop" THEN turn[t] + 1 ELSE turn[t])
    BY <1>3, IncrNumbers DEF Incr!Store, Incr!IInv, Incr!Positions
  <2> QED
    BY <1>1, <2>1, IncrNumbers DEF Incr!IInv, Incr!Positions, Incr!Inside
<1>4. CASE kind # "incr" /\ Incr!Unlock(t)
  BY <1>1, <1>4, IncrNumbers DEF Incr!Unlock, Incr!IInv, Incr!Positions, Incr!WithLock, Incr!Inside
<1> QED
  BY <1>1, <1>2, <1>3, <1>4 DEF Incr!Unlocked, Incr!Locked

\* thread_incr.c: a thread steps without a lock.
LEMMA IncrUnlocked ==
  ASSUME Incr!Assumption, Incr!IInv, kind = "incr", NEW t \in Incr!Threads, Incr!Unlocked(t)
  PROVE  Incr!IInv'
<1> USE DEF Incr!Goes, Incr!Rest
<1>1. Incr!Positions' /\ kind' = "incr" /\ Incr!Num = 2 /\ Incr!InnerLoops = 1 /\ 1..2 \subseteq Incr!Threads
  BY IncrThread, IncrNumbers DEF Incr!IInv
<1>2. t \in 1..2
  BY <1>1 DEF Incr!Unlocked, Incr!Enter, Incr!Load, Incr!Store, Incr!Return, Incr!IInv, Incr!Positions, Incr!Threads
<1>3. Incr!WithoutLock
  BY DEF Incr!IInv
<1>4. CASE Incr!Enter(t) \/ Incr!Load(t) \/ Incr!Return(t)
  BY <1>1, <1>2, <1>3, <1>4, SMTT(30) DEF Incr!Enter, Incr!Load, Incr!Return, Incr!IInv, Incr!Positions, Incr!WithoutLock
<1>5. CASE Incr!Store(t)
  <2>1. /\ tpc[t] = "store" /\ k[t] = 0 /\ tpc' = [tpc EXCEPT ![t] = "loop"] /\ loc' = loc
        /\ turn' = [turn EXCEPT ![t] = turn[t] + 1] /\ glob' = loc[t] + 1
    <3>1. k[t] = 0 /\ ~(k[t] + 1 < Incr!InnerLoops)
      BY <1>1 DEF Incr!IInv, Incr!Positions
    <3>2. tpc'[t] = "loop"
      BY <1>1, <1>5, <3>1 DEF Incr!Store, Incr!IInv, Incr!Positions
    <3> QED
      BY <1>1, <1>5, <3>1, <3>2, Zenon DEF Incr!Store
  <2>2. /\ turn[1] \in Nat /\ turn[2] \in Nat /\ turn'[1] + turn'[2] = turn[1] + turn[2] + 1
        /\ loc[t] \in Nat /\ \A u \in 1..2 : turn[u] <= Loops
    BY <1>1, <1>2, <2>1 DEF Incr!IInv, Incr!Positions
  <2>3. (\A u \in 1..2 : turn'[u] = Loops) => glob' >= 2
    BY <1>1, <1>2, <1>3, <2>1, <2>2, IncrNumbers, SMTT(30) DEF Incr!IInv, Incr!Positions, Incr!WithoutLock
  <2>4. \A u \in Incr!Threads : loc[u] \in Nat /\ loc[u] <= turn[1] + turn[2]
    BY <1>3 DEF Incr!IInv, Incr!Positions, Incr!WithoutLock
  <2> QED
    BY <1>1, <1>2, <1>3, <2>1, <2>2, <2>3, <2>4 DEF Incr!IInv, Incr!Positions, Incr!WithoutLock
<1> QED
  BY <1>4, <1>5 DEF Incr!Unlocked

\* The programs with a lock: a thread steps.
LEMMA IncrLocked ==
  ASSUME Incr!Assumption, Incr!IInv, kind # "incr", NEW t \in Incr!Threads, Incr!Locked(t)
  PROVE  Incr!IInv'
<1> USE DEF Incr!Goes, Incr!Rest
<1>1. Incr!Positions /\ Incr!Positions' /\ kind' = kind /\ kind' # "incr" /\ Incr!WithLock
  BY IncrThread DEF Incr!IInv
<1>2. Incr!Increments' = Incr!Increments
  BY <1>1 DEF Incr!Increments, Incr!Num, Incr!InnerLoops
<1>3. CASE Incr!Lock(t) \/ Incr!Load(t) \/ Incr!Return(t)
  <2>1. Incr!Stores' = Incr!Stores
    <3>1. /\ turn' = turn /\ k' = k /\ glob' = glob
          /\ \A u \in Incr!Threads : tpc'[u] = "unlock" <=> tpc[u] = "unlock"
      BY <1>1, <1>3 DEF Incr!Lock, Incr!Load, Incr!Return, Incr!Positions
    <3> QED
      BY <1>1, <1>2, <3>1, IncrNumbers, Zenon DEF Incr!Stores, Incr!Increments, Incr!Stored
  <2> QED
    BY <1>1, <1>3, <2>1, SMTT(30) DEF Incr!Lock, Incr!Load, Incr!Return, Incr!IInv, Incr!Positions, Incr!WithLock, Incr!Inside
<1>4. CASE Incr!Store(t)
  <2>1. /\ tpc[t] = "store" /\ tpc' = [tpc EXCEPT ![t] = IF k[t] + 1 < Incr!InnerLoops THEN "load" ELSE "unlock"]
        /\ k' = [k EXCEPT ![t] = IF k[t] + 1 < Incr!InnerLoops THEN k[t] + 1 ELSE 0]
        /\ turn' = turn /\ glob' = loc[t] + 1 /\ loc[t] = glob /\ lock' = lock /\ loc' = loc
    <3>1. tpc'[t] # "loop"
      BY <1>1, <1>4 DEF Incr!Store, Incr!Positions
    <3> QED
      BY <1>1, <1>4, <3>1 DEF Incr!Store, Incr!Positions, Incr!WithLock
  <2>2. t \in 1..Incr!Num /\ turn[t] \in 0..Loops-1 /\ k[t] \in 0..Incr!InnerLoops-1
    <3>1. t \in Nat /\ 1 <= t /\ t <= made /\ made \in 0..Incr!Num
      BY <1>1, <2>1 DEF Incr!Assumption, Incr!Positions, Incr!Threads
    <3>2. turn[t] \in 0..Loops /\ turn[t] < Loops /\ k[t] \in 0..Incr!InnerLoops-1
      BY <1>1, <2>1 DEF Incr!Positions, Incr!Inside
    <3> QED
      BY <1>1, <3>1, <3>2, IncrNumbers
  <2>3. ASSUME NEW u \in 1..Incr!Num, NEW n \in 0..Loops-1, NEW m \in 0..Incr!InnerLoops-1
        PROVE  Incr!Stored(u, n, m)' <=> Incr!Stored(u, n, m) \/ (u = t /\ n = turn[t] /\ m = k[t])
    BY <1>1, <2>1, <2>2, IncrNumbers DEF Incr!Stored, Incr!Positions
  <2>4. ~Incr!Stored(t, turn[t], k[t])
    BY <1>1, <2>1, <2>2 DEF Incr!Stored
  <2>5. /\ Incr!Stores' = Incr!Stores \cup {<<<<t, turn[t]>>, k[t]>>}
        /\ <<<<t, turn[t]>>, k[t]>> \notin Incr!Stores
    BY <1>2, <2>2, <2>3, <2>4 DEF Incr!Stores, Incr!Increments
  <2>6. Cardinality(Incr!Stores') = Cardinality(Incr!Stores) + 1
    BY <1>1, <2>5, IncrFinite, FS_AddElement, Zenon
  <2>7. glob' = Cardinality(Incr!Stores)'
    BY <1>1, <2>1, <2>6, IncrCounting DEF Incr!WithLock
  <2> QED
    BY <1>1, <2>1, <2>7, IncrCounting, Zenon DEF Incr!IInv, Incr!Positions, Incr!WithLock, Incr!Inside
<1>5. CASE Incr!Unlock(t)
  <2>1. /\ tpc[t] = "unlock" /\ k[t] = 0 /\ turn' = [turn EXCEPT ![t] = @ + 1] /\ tpc' = [tpc EXCEPT ![t] = "loop"]
        /\ k' = k /\ glob' = glob /\ turn[t] \in Nat
    BY <1>1, <1>5 DEF Incr!Unlock, Incr!Positions
  <2>2. ASSUME NEW u \in 1..Incr!Num, NEW n \in 0..Loops-1, NEW m \in 0..Incr!InnerLoops-1
        PROVE  Incr!Stored(u, n, m)' <=> Incr!Stored(u, n, m)
    BY <1>1, <2>1, IncrNumbers DEF Incr!Stored, Incr!Positions
  <2>3. Incr!Stores' = Incr!Stores
    BY <1>2, <2>2 DEF Incr!Stores, Incr!Increments
  <2> QED
    BY <1>1, <1>5, <2>1, <2>3, Zenon DEF Incr!Unlock, Incr!IInv, Incr!Positions, Incr!WithLock, Incr!Inside
<1> QED
  BY <1>3, <1>4, <1>5 DEF Incr!Locked

\* Every step keeps the invariant.
LEMMA IncrNext == Incr!Assumption /\ Incr!IInv /\ [Incr!Next]_Incr!vars => Incr!IInv'
<1> SUFFICES ASSUME Incr!Assumption, Incr!IInv, [Incr!Next]_Incr!vars PROVE Incr!IInv'
  OBVIOUS
<1>1. \/ Incr!Main \/ Incr!Alarm \/ UNCHANGED Incr!vars
      \/ \E t \in Incr!Threads : kind = "incr" /\ Incr!Unlocked(t)
      \/ \E t \in Incr!Threads : kind # "incr" /\ Incr!Locked(t)
  BY DEF Incr!Next, Incr!Program, Incr!ThreadIncr, Incr!ThreadIncrMutex, Incr!ThreadIncrRwlock,
         Incr!ThreadIncrSpinlock, Incr!ThreadIncrPsem, Incr!ThreadLockSpeed, Incr!Process
<1> QED
  BY <1>1, IncrMain, IncrUnlocked, IncrLocked

\* The initial state satisfies the invariant.
LEMMA IncrInit == Incr!Assumption /\ Incr!Init => Incr!IInv
<1> SUFFICES ASSUME Incr!Assumption, Incr!Init PROVE Incr!IInv
  OBVIOUS
<1>1. Incr!Positions
  BY DEF Incr!Assumption, Incr!Init, Incr!Positions, Incr!Kinds, Incr!Num, Incr!InnerLoops, Incr!Threads, Incr!Inside
<1>2. Incr!WithoutLock
  BY <1>1, IncrNumbers DEF Incr!Assumption, Incr!Init, Incr!WithoutLock, Incr!Threads
<1>3. Incr!Stores = {}
  BY <1>1, IncrNumbers DEF Incr!Init, Incr!Stores, Incr!Increments, Incr!Stored
<1>4. Incr!WithLock
  BY <1>3, FS_EmptySet, IncrCounting DEF Incr!Init, Incr!WithLock, Incr!Inside
<1> QED
  BY <1>1, <1>2, <1>4 DEF Incr!IInv

\* The invariant implies that with a lock no increment is missing from what main() prints,
\* and that without one at least two are there.
LEMMA IncrHolds == Incr!Assumption /\ Incr!IInv => Incr!TypeOK /\ Incr!GlobPrinted
<1> SUFFICES ASSUME Incr!Assumption, Incr!IInv PROVE Incr!TypeOK /\ Incr!GlobPrinted
  OBVIOUS
<1>1. Incr!Positions
  BY DEF Incr!IInv
<1>2. Incr!TypeOK
  BY <1>1 DEF Incr!Positions, Incr!TypeOK
<1>3. ASSUME main = "done" PROVE \A t \in 1..Incr!Num : turn[t] = Loops /\ tpc[t] = "returned"
  BY <1>1, <1>3, IncrNumbers DEF Incr!Positions, Incr!Threads
<1>4. ASSUME main = "done", kind = "incr" PROVE glob \in 2..Incr!Num * Loops
  BY <1>1, <1>3, <1>4, IncrNumbers DEF Incr!IInv, Incr!Positions, Incr!WithoutLock
<1>5. ASSUME main = "done", kind # "incr" PROVE glob = Incr!Num * Loops * Incr!InnerLoops
  <2>1. Incr!Stores = Incr!Increments
    BY <1>1, <1>3, <1>5, IncrNumbers DEF Incr!Stores, Incr!Increments, Incr!Stored
  <2> QED
    BY <1>1, <1>5, <2>1, IncrAll, IncrCounting DEF Incr!IInv, Incr!WithLock
<1> QED
  BY <1>2, <1>4, <1>5 DEF Incr!GlobPrinted
-----------------------------------------------------------------------------
(* thread_multijoin.c *)

Join == INSTANCE ThreadMultijoin

\* Cardinality is the same here and there.
LEMMA JoinCounting == \A S : Join!Cardinality(S) = Cardinality(S)
BY DEF Cardinality, Join!Cardinality

\* There are N threads.
LEMMA JoinFinite ==
  ASSUME N \in Nat
  PROVE  IsFiniteSet(Join!Idx) /\ Cardinality(Join!Idx) = N
BY FS_Interval DEF Join!Idx

\* So is every set of threads that the table shows in one state.
LEMMA JoinFiniteStates ==
  ASSUME N \in Nat, NEW s
  PROVE  IsFiniteSet(Join!InState(s)) /\ Cardinality(Join!InState(s)) \in Nat
BY JoinFinite, FS_Subset, FS_CardinalityType DEF Join!InState

\* A thread records its end and is counted.
LEMMA JoinRecord ==
  ASSUME N \in Nat, Nobody \notin Join!Threads, Join!IInv, NEW i \in Join!Idx, Join!TRecord(i)
  PROVE  Join!IInv'
<1>1. /\ pc[i] = "locked" /\ pc' = [pc EXCEPT ![i] = "unlock"]
      /\ state' = [state EXCEPT ![i] = "TS_TERMINATED"] /\ numUnjoined' = numUnjoined + 1
      /\ UNCHANGED <<mtx, waiters, numLive, idx>>
  BY DEF Join!TRecord, Join!Goto
<1>2. i # Join!Main /\ i \in Join!Threads /\ Join!Main \in Join!Threads /\ Join!Main \notin Join!Idx
  BY DEF Join!Idx, Join!Main, Join!Threads
<1>3. state[i] = "TS_ALIVE"
  BY <1>1 DEF Join!IInv, Join!Positions
<1>4. Join!Positions'
  BY <1>1, <1>2, <1>3 DEF Join!IInv, Join!Positions, Join!ThreadStates, Join!MainStates, Join!Idx, Join!Threads
<1>5. /\ Join!InState("TS_TERMINATED")' = Join!InState("TS_TERMINATED") \cup {i}
      /\ Join!InState("TS_JOINED")' = Join!InState("TS_JOINED") /\ i \notin Join!InState("TS_TERMINATED")
  BY <1>1, <1>3 DEF Join!IInv, Join!Positions, Join!InState
<1>6. Cardinality(Join!InState("TS_TERMINATED")') = Cardinality(Join!InState("TS_TERMINATED")) + 1
  BY <1>5, JoinFiniteStates, FS_AddElement
<1>7. pc'[Join!Main] = pc[Join!Main]
  BY <1>1, <1>2 DEF Join!IInv, Join!Positions
<1> QED
  BY <1>1, <1>4, <1>5, <1>6, <1>7, JoinCounting DEF Join!IInv, Join!Counters

\* main() joins a thread that has recorded its end, and counts it off.
LEMMA JoinScan ==
  ASSUME N \in Nat, Nobody \notin Join!Threads, Join!IInv, Join!MScan
  PROVE  Join!IInv'
<1>1. /\ pc[Join!Main] = "scan" /\ idx \in Join!Idx /\ idx' = idx + 1 /\ idx' \in 0..N
      /\ UNCHANGED <<mtx, waiters, pc>>
  BY DEF Join!MScan, Join!IInv, Join!Positions, Join!Idx
<1>2. CASE state[idx] = "TS_TERMINATED"
  <2>1. /\ pc[idx] = "returned" /\ state' = [state EXCEPT ![idx] = "TS_JOINED"]
        /\ numLive' = numLive - 1 /\ numUnjoined' = numUnjoined - 1
    BY <1>2 DEF Join!MScan
  <2>2. Join!Positions'
    BY <1>1, <1>2, <2>1 DEF Join!IInv, Join!Positions
  <2>3. /\ Join!InState("TS_TERMINATED")' = Join!InState("TS_TERMINATED") \ {idx} /\ idx \in Join!InState("TS_TERMINATED")
        /\ Join!InState("TS_JOINED")' = Join!InState("TS_JOINED") \cup {idx} /\ idx \notin Join!InState("TS_JOINED")
    BY <1>1, <1>2, <2>1 DEF Join!IInv, Join!Positions, Join!InState
  <2>4. Cardinality(Join!InState("TS_TERMINATED")') = Cardinality(Join!InState("TS_TERMINATED")) - 1
    BY <2>3, JoinFiniteStates, FS_RemoveElement
  <2>5. Cardinality(Join!InState("TS_JOINED")') = Cardinality(Join!InState("TS_JOINED")) + 1
    BY <2>3, JoinFiniteStates, FS_AddElement
  <2> QED
    BY <1>1, <2>1, <2>2, <2>4, <2>5, JoinFiniteStates, JoinCounting DEF Join!IInv, Join!Counters
<1>3. CASE state[idx] # "TS_TERMINATED"
  <2>1. UNCHANGED <<state, numLive, numUnjoined>>
    BY <1>3 DEF Join!MScan, Join!counts
  <2> QED
    BY <1>1, <2>1 DEF Join!IInv, Join!Positions, Join!Counters, Join!InState
<1> QED
  BY <1>2, <1>3

\* Every other step leaves the table alone.
LEMMA JoinOther ==
  ASSUME N \in Nat, Nobody \notin Join!Threads, Join!IInv, state' = state, numUnjoined' = numUnjoined,
         Join!Positions',
         \/ pc'[Join!Main] = pc[Join!Main] /\ numLive' = numLive
         \/ pc[Join!Main] = "create" /\ pc'[Join!Main] = "loop" /\ numLive' = N
         \/ pc[Join!Main] # "create" /\ pc'[Join!Main] \notin {"create", "exited"} /\ numLive' = numLive
         \/ /\ pc[Join!Main] # "create" /\ pc'[Join!Main] = "exited"
            /\ numLive' = numLive /\ ~(numLive > 0)
  PROVE  Join!IInv'
<1>1. Join!InState("TS_TERMINATED")' = Join!InState("TS_TERMINATED") /\ Join!InState("TS_JOINED")' = Join!InState("TS_JOINED")
  BY DEF Join!InState
<1>2. Cardinality({}) = 0
  BY FS_EmptySet
<1> QED
  BY <1>1, <1>2, JoinCounting DEF Join!IInv, Join!Counters

\* Every step keeps the invariant.
LEMMA JoinNext ==
  ASSUME N \in Nat, Nobody \notin Join!Threads, Join!IInv, [Join!Next]_Join!vars
  PROVE  Join!IInv'
<1> USE DEF Join!Goto, Join!counts
<1>1. Join!Main \notin Join!Idx /\ Join!Main \in Join!Threads /\ Join!Idx \subseteq Join!Threads
  BY DEF Join!Main, Join!Idx, Join!Threads
<1>2. ASSUME NEW i \in Join!Idx, Join!TLock(i) \/ Join!TUnlock(i) \/ Join!TSignal(i) PROVE Join!IInv'
  <2>1. Join!Positions' /\ UNCHANGED <<state, numLive, numUnjoined>> /\ pc'[Join!Main] = pc[Join!Main]
    BY <1>1, <1>2 DEF Join!TLock, Join!TUnlock, Join!TSignal, Join!MutexLock, Join!MutexUnlock, Join!CondSignal,
                      Join!IInv, Join!Positions, Join!ThreadStates, Join!MainStates
  <2> QED
    BY <2>1, JoinOther
<1>3. CASE Join!MCreate
  <2>1. CASE idx < N
    <3>1. /\ idx \in Join!Idx /\ pc' = [pc EXCEPT ![idx] = "work"] /\ idx' = idx + 1 /\ idx' \in 0..N
          /\ UNCHANGED <<mtx, waiters, state, numLive, numUnjoined>>
      BY <1>3, <2>1 DEF Join!MCreate, Join!IInv, Join!Positions, Join!Idx
    <3>2. pc[Join!Main] = "create" /\ pc[idx] = "none" /\ pc'[Join!Main] = pc[Join!Main] /\ pc'[idx] = "work"
          /\ \A i \in Join!Idx : i # idx => pc'[i] = pc[i]
      BY <1>1, <1>3, <3>1 DEF Join!MCreate, Join!IInv, Join!Positions, Join!Idx
    <3>3. \A i \in Join!Idx : i >= idx' <=> pc'[i] = "none"
      BY <3>1, <3>2 DEF Join!IInv, Join!Positions, Join!Idx
    <3>4. Join!Positions'
      BY <1>1, <3>1, <3>2, <3>3 DEF Join!IInv, Join!Positions, Join!ThreadStates, Join!MainStates
    <3> QED
      BY <3>1, <3>2, <3>4, JoinOther
  <2>2. CASE ~(idx < N)
    <3>1. /\ Join!Positions' /\ pc[Join!Main] = "create" /\ pc'[Join!Main] = "loop" /\ numLive' = N
          /\ UNCHANGED <<state, numUnjoined>>
      BY <1>1, <1>3, <2>2 DEF Join!MCreate, Join!IInv, Join!Positions, Join!ThreadStates, Join!MainStates
    <3> QED
      BY <3>1, JoinOther
  <2> QED
    BY <2>1, <2>2
<1>4. CASE Join!MLoop \/ Join!MTest \/ Join!MWake \/ Join!MUnlock
  <2>1. /\ UNCHANGED <<state, numLive, numUnjoined>> /\ pc[Join!Main] # "create"
        /\ \/ pc'[Join!Main] \notin {"create", "exited"}
           \/ pc'[Join!Main] = "exited" /\ ~(numLive > 0)
    BY <1>1, <1>4 DEF Join!MLoop, Join!MTest, Join!MWake, Join!MUnlock, Join!IInv, Join!Positions
  <2>2. Join!Positions'
    BY <1>1, <1>4 DEF Join!MLoop, Join!MTest, Join!MWake, Join!MUnlock, Join!MutexLock, Join!MutexUnlock,
                      Join!CondWait, Join!CondReturn, Join!IInv, Join!Positions, Join!ThreadStates, Join!MainStates
  <2> QED
    BY <2>1, <2>2, JoinOther
<1>5. CASE Join!Spurious \/ UNCHANGED Join!vars
  BY <1>5, Zenon DEF Join!Spurious, Join!SpuriousWakeup, Join!vars, Join!IInv, Join!Positions, Join!Counters, Join!InState
<1> QED
  BY <1>2, <1>3, <1>4, <1>5, JoinRecord, JoinScan DEF Join!Next, Join!MainThread, Join!Thread

\* The initial state satisfies the invariant.
LEMMA JoinInit ==
  ASSUME N \in Nat, Nobody \notin Join!Threads, Join!Init
  PROVE  Join!IInv
<1>1. Join!Main \notin Join!Idx /\ Join!Main \in Join!Threads /\ Join!Idx \subseteq Join!Threads
  BY DEF Join!Main, Join!Idx, Join!Threads
<1>2. Join!InState("TS_TERMINATED") = {} /\ Join!InState("TS_JOINED") = {} /\ Cardinality({}) = 0
  BY FS_EmptySet DEF Join!Init, Join!InState
<1>3. Join!Positions
  BY <1>1 DEF Join!Init, Join!Positions, Join!ThreadStates, Join!MainStates, Join!Idx
<1>4. Join!Counters
  BY <1>1, <1>2, JoinCounting DEF Join!Init, Join!Counters
<1> QED
  BY <1>3, <1>4 DEF Join!IInv

\* The invariant implies that the counters agree with the table, and that main() does not
\* end the process before each thread has returned and was joined.
LEMMA JoinHolds ==
  ASSUME N \in Nat, Nobody \notin Join!Threads, Join!IInv
  PROVE  Join!TypeOK /\ Join!CountsAgree /\ Join!AllReturned
<1>1. ASSUME NEW s PROVE Join!InState(s) \in SUBSET Join!Idx /\ Cardinality(Join!InState(s)) \in 0..N
  <2>1. Join!InState(s) \in SUBSET Join!Idx
    BY DEF Join!InState
  <2> QED
    BY <2>1, JoinFinite, JoinFiniteStates, FS_Subset
<1>2. Join!TypeOK
  <2>1. numLive \in 0..N /\ numUnjoined \in 0..N
    BY <1>1, JoinCounting DEF Join!IInv, Join!Counters
  <2> QED
    BY <2>1 DEF Join!IInv, Join!Positions, Join!TypeOK, Join!ThreadStates, Join!MainStates
<1>3. Join!CountsAgree
  BY DEF Join!IInv, Join!Counters, Join!CountsAgree
<1>4. ASSUME pc[Join!Main] = "exited" PROVE \A i \in Join!Idx : pc[i] = "returned"
  <2>1. Cardinality(Join!InState("TS_JOINED")) = N
    BY <1>1, <1>4, JoinCounting DEF Join!IInv, Join!Counters
  <2>2. Join!InState("TS_JOINED") = Join!Idx
    BY <1>1, <2>1, JoinFinite, FS_Subset
  <2> QED
    BY <2>2 DEF Join!InState, Join!IInv, Join!Positions
<1> QED
  BY <1>2, <1>3, <1>4 DEF Join!AllReturned
-----------------------------------------------------------------------------
(* prod_condvar.c and prod_no_condvar.c *)

Prod == INSTANCE ProdCondvar

\* Cardinality is the same here and there.
LEMMA ProdCounting == \A S : Prod!Cardinality(S) = Cardinality(S)
BY DEF Cardinality, Prod!Cardinality

\* Finitely many units are to be made.
LEMMA ProdFinite ==
  ASSUME IsFiniteSet(Producers), MaxCount \in Nat
  PROVE  /\ IsFiniteSet(Prod!ToMake) /\ Cardinality(Prod!ToMake) \in Nat
         /\ Prod!Remaining = Cardinality(Prod!ToMake)
<1>1. IsFiniteSet(Producers \X (1..MaxCount))
  BY UpTo, FS_Product, Zenon
<1>2. Prod!ToMake \in SUBSET (Producers \X (1..MaxCount))
  BY DEF Prod!ToMake
<1> QED
  BY <1>1, <1>2, FS_Subset, FS_CardinalityType, ProdCounting DEF Prod!Remaining

\* A producer makes one of its units.
LEMMA ProdProduce ==
  ASSUME IsFiniteSet(Producers), MaxCount \in Nat, "main" \notin Producers, Prod!IInv,
         NEW p \in Producers, Prod!PProduce(p)
  PROVE  Prod!IInv'
<1>1. /\ pc[p] = "produce" /\ cnt[p] \in 1..MaxCount /\ avail' = avail + 1
      /\ cnt' = [cnt EXCEPT ![p] = @ - 1] /\ pc' = [pc EXCEPT ![p] = "unlock"]
      /\ UNCHANGED <<mtx, waiters, totRequired, numConsumed, done>>
  BY DEF Prod!PProduce, Prod!Goto, Prod!IInv, Prod!Positions
<1>2. Prod!Positions'
  BY <1>1 DEF Prod!IInv, Prod!Positions, Prod!Threads, Prod!Main
<1>3. Prod!ToMake' = Prod!ToMake \ {<<p, cnt[p]>>} /\ <<p, cnt[p]>> \in Prod!ToMake
  <2>1. ASSUME NEW q \in Producers, NEW i \in 1..MaxCount
        PROVE  (pc'[q] # "none" /\ i <= cnt'[q]) <=> (pc[q] # "none" /\ i <= cnt[q] /\ <<q, i>> # <<p, cnt[p]>>)
    BY <1>1 DEF Prod!IInv, Prod!Positions, Prod!Threads
  <2> QED
    BY <1>1, <2>1 DEF Prod!ToMake
<1>4. Prod!Remaining' = Prod!Remaining - 1
  BY <1>3, ProdFinite, FS_RemoveElement, ProdCounting, Zenon DEF Prod!Remaining
<1>5. pc'[Prod!Main] = pc[Prod!Main]
  BY <1>1 DEF Prod!IInv, Prod!Positions, Prod!Threads, Prod!Main
<1> QED
  BY <1>1, <1>2, <1>4, <1>5, ProdFinite DEF Prod!IInv, Prod!Conserved

\* main() creates a producer, and adds its units to the total.
LEMMA ProdCreate ==
  ASSUME IsFiniteSet(Producers), MaxCount \in Nat, "main" \notin Producers, Prod!IInv,
         pc[Prod!Main] = "create", NEW p \in Producers, pc[p] = "none",
         totRequired' = totRequired + cnt[p], pc' = [pc EXCEPT ![p] = "loop"],
         UNCHANGED <<mtx, waiters, cnt, avail, numConsumed, done>>
  PROVE  Prod!IInv'
<1>1. cnt[p] \in 0..MaxCount /\ pc'[Prod!Main] = pc[Prod!Main]
  BY DEF Prod!IInv, Prod!Positions, Prod!Threads, Prod!Main
<1>2. Prod!Positions'
  BY DEF Prod!IInv, Prod!Positions, Prod!Threads, Prod!Main
<1> DEFINE New == {p} \X (1..cnt[p])
<1>3. IsFiniteSet(New) /\ Cardinality(New) = cnt[p]
  <2>1. IsFiniteSet(1..cnt[p]) /\ Cardinality(1..cnt[p]) = cnt[p]
    BY <1>1, UpTo
  <2>2. IsFiniteSet({p}) /\ Cardinality({p}) = 1
    BY FS_Singleton, Zenon
  <2>3. IsFiniteSet(New) /\ Cardinality(New) = Cardinality({p}) * Cardinality(1..cnt[p])
    BY <2>1, <2>2, FS_Product, Zenon
  <2> QED
    BY <1>1, <2>1, <2>2, <2>3
<1>4. Prod!ToMake' = Prod!ToMake \cup New /\ Prod!ToMake \cap New = {}
  <2>1. ASSUME NEW q \in Producers, NEW i \in 1..MaxCount
        PROVE  /\ (pc'[q] # "none" /\ i <= cnt'[q]) <=> (pc[q] # "none" /\ i <= cnt[q]) \/ <<q, i>> \in New
               /\ ~(pc[q] # "none" /\ <<q, i>> \in New)
    BY <1>1 DEF Prod!IInv, Prod!Positions, Prod!Threads
  <2>2. New \subseteq Producers \X (1..MaxCount)
    BY <1>1
  <2> QED
    BY <2>1, <2>2 DEF Prod!ToMake
<1>5. Prod!Remaining' = Prod!Remaining + cnt[p]
  <2>1. Cardinality(Prod!ToMake \cup New) = Cardinality(Prod!ToMake) + Cardinality(New) - Cardinality({})
    BY <1>3, <1>4, ProdFinite, FS_Union
  <2> QED
    BY <1>1, <1>3, <1>4, <2>1, ProdFinite, FS_EmptySet, ProdCounting DEF Prod!Remaining
<1> QED
  BY <1>1, <1>2, <1>5, ProdFinite DEF Prod!IInv, Prod!Conserved

\* A step that neither makes a unit nor creates a producer.
LEMMA ProdOther ==
  ASSUME IsFiniteSet(Producers), MaxCount \in Nat, Prod!IInv, Prod!Positions', cnt' = cnt,
         \A p \in Producers : pc'[p] = "none" <=> pc[p] = "none"
  PROVE  Prod!Remaining' = Prod!Remaining /\ Prod!Remaining \in Nat
<1>1. Prod!ToMake' = Prod!ToMake
  BY DEF Prod!ToMake
<1> QED
  BY <1>1, ProdFinite DEF Prod!Remaining

\* Every step keeps the invariant.
LEMMA ProdNext ==
  ASSUME IsFiniteSet(Producers), MaxCount \in Nat, "main" \notin Producers,
         Nobody \notin Producers \cup {"main"}, Prod!IInv, [Prod!Next]_Prod!vars
  PROVE  Prod!IInv'
<1> USE DEF Prod!Goto, Prod!counts, Prod!Main, Prod!Threads
<1>1. ASSUME NEW p \in Producers, Prod!PLock(p) \/ Prod!PUnlock(p) \/ Prod!PSignal(p) PROVE Prod!IInv'
  <2>1. /\ Prod!Positions' /\ UNCHANGED <<cnt, totRequired, avail, numConsumed, done>> /\ pc'["main"] = pc["main"]
        /\ \A q \in Producers : pc'[q] = "none" <=> pc[q] = "none"
    BY <1>1, Zenon DEF Prod!PLock, Prod!PUnlock, Prod!PSignal, Prod!MutexLock, Prod!MutexUnlock, Prod!CondSignal,
                Prod!IInv, Prod!Positions
  <2> QED
    BY <2>1, ProdOther DEF Prod!IInv, Prod!Conserved
<1>2. CASE Prod!MCreate
  <2>1. CASE \E p \in Producers : pc[p] = "none" /\ totRequired' = totRequired + cnt[p] /\ pc' = [pc EXCEPT ![p] = "loop"]
    BY <1>2, <2>1, ProdCreate, Zenon DEF Prod!MCreate
  <2>2. CASE (\A p \in Producers : pc[p] # "none") /\ pc' = [pc EXCEPT !["main"] = "lock"] /\ totRequired' = totRequired
    <3>1. /\ Prod!Positions' /\ UNCHANGED <<cnt, totRequired, avail, numConsumed, done>>
          /\ pc'["main"] = "lock" /\ ~done /\ \A q \in Producers : pc'[q] = "none" <=> pc[q] = "none"
      BY <1>2, <2>2 DEF Prod!MCreate, Prod!IInv, Prod!Positions
    <3> QED
      BY <3>1, ProdOther DEF Prod!IInv, Prod!Conserved
  <2> QED
    BY <1>2, <2>1, <2>2 DEF Prod!MCreate
<1>3. CASE Prod!MLock \/ Prod!MTest \/ Prod!MWake
  <2>1. /\ Prod!Positions' /\ UNCHANGED <<cnt, totRequired, avail, numConsumed, done>>
        /\ pc'["main"] \in {"test", "consume", "wait"} /\ ~done
        /\ \A q \in Producers : pc'[q] = "none" <=> pc[q] = "none"
    <3>1. "main" \in Prod!Threads /\ pc["main"] \in {"lock", "test", "wait"} /\ Prod!Positions /\ ~done
      BY <1>3 DEF Prod!MLock, Prod!MTest, Prod!MWake, Prod!IInv, Prod!Threads, Prod!Main
    <3>2. /\ UNCHANGED <<cnt, totRequired, avail, numConsumed, done>>
          /\ \E to \in {"test", "consume", "wait"} : pc' = [pc EXCEPT !["main"] = to]
          /\ mtx' \in Prod!Threads \cup {Nobody} /\ waiters' \subseteq {"main"}
          /\ "main" \in waiters' => pc'["main"] = "wait"
      BY <1>3, <3>1 DEF Prod!MLock, Prod!MTest, Prod!MWake, Prod!MutexLock, Prod!CondWait, Prod!CondReturn,
                Prod!Positions, Prod!Goto, Prod!Main, Prod!counts
    <3>3. PICK to \in {"test", "consume", "wait"} : pc' = [pc EXCEPT !["main"] = to]
      BY <3>2
    <3>4. /\ pc'["main"] = to /\ \A q \in Producers : pc'[q] = pc[q]
          /\ pc' \in [Prod!Threads -> {"none", "loop", "produce", "unlock", "signal", "create",
                                       "lock", "test", "wait", "consume", "exited"}]
      BY <3>1, <3>3, ThreadsAssumption DEF Prod!Positions, Prod!Threads
    <3>5. Prod!Positions'
      BY <3>1, <3>2, <3>4 DEF Prod!Positions, Prod!Main
    <3> QED
      BY <3>1, <3>2, <3>4, <3>5
  <2> QED
    BY <2>1, ProdOther DEF Prod!IInv, Prod!Conserved
<1>4. CASE Prod!MConsume
  <2>1. /\ Prod!Positions' /\ UNCHANGED <<cnt, totRequired>> /\ avail' = 0 /\ numConsumed' = numConsumed + avail
        /\ pc'["main"] = "unlock" /\ pc["main"] = "consume"
        /\ \A q \in Producers : pc'[q] = "none" <=> pc[q] = "none"
    BY <1>4 DEF Prod!MConsume, Prod!IInv, Prod!Positions
  <2>2. done' => numConsumed' >= totRequired'
    BY <1>4, <2>1, Zenon DEF Prod!MConsume, Prod!IInv
  <2> QED
    BY <2>1, <2>2, ProdOther DEF Prod!IInv, Prod!Conserved
<1>5. CASE Prod!MUnlock
  <2>1. /\ Prod!Positions' /\ UNCHANGED <<cnt, totRequired, avail, numConsumed, done>>
        /\ pc'["main"] = (IF done THEN "exited" ELSE "lock")
        /\ \A q \in Producers : pc'[q] = "none" <=> pc[q] = "none"
    BY <1>5 DEF Prod!MUnlock, Prod!MutexUnlock, Prod!IInv, Prod!Positions
  <2> QED
    BY <2>1, ProdOther DEF Prod!IInv, Prod!Conserved
<1>6. CASE Prod!Spurious \/ UNCHANGED Prod!vars
  <2>1. Prod!Positions' /\ UNCHANGED <<cnt, pc, totRequired, avail, numConsumed, done>>
    BY <1>6, Zenon DEF Prod!Spurious, Prod!SpuriousWakeup, Prod!vars, Prod!IInv, Prod!Positions
  <2> QED
    BY <2>1, ProdOther DEF Prod!IInv, Prod!Conserved
<1> QED
  BY <1>1, <1>2, <1>3, <1>4, <1>5, <1>6, ProdProduce DEF Prod!Next, Prod!MainThread, Prod!Producer

\* The initial state satisfies the invariant.
LEMMA ProdInit ==
  ASSUME IsFiniteSet(Producers), MaxCount \in Nat, "main" \notin Producers, Prod!Init
  PROVE  Prod!IInv
<1>1. Prod!Positions
  BY DEF Prod!Init, Prod!Positions, Prod!Threads, Prod!Main
<1>2. Prod!ToMake = {}
  BY DEF Prod!Init, Prod!ToMake, Prod!Threads, Prod!Main
<1>3. Prod!Remaining = 0
  BY <1>2, ProdFinite, FS_EmptySet
<1> QED
  BY <1>1, <1>3 DEF Prod!Init, Prod!IInv, Prod!Conserved, Prod!Threads, Prod!Main

\* The invariant implies that no unit goes missing and that no producer is cut off.
LEMMA ProdHolds ==
  ASSUME IsFiniteSet(Producers), MaxCount \in Nat, Prod!IInv
  PROVE  Prod!TypeOK /\ Prod!Conserved /\ Prod!NothingCutOff
<1>1. Prod!TypeOK
  BY DEF Prod!IInv, Prod!Positions, Prod!TypeOK
<1>2. Prod!NothingCutOff
  BY ProdFinite DEF Prod!IInv, Prod!Conserved, Prod!NothingCutOff
<1> QED
  BY <1>1, <1>2 DEF Prod!IInv
-----------------------------------------------------------------------------
(* pthread_barrier_demo.c *)

Bar == INSTANCE Barrier WITH Threads <- T

\* Cardinality is the same here and there.
LEMMA BarCounting == \A S : Bar!Cardinality(S) = Cardinality(S)
BY DEF Cardinality, Bar!Cardinality

\* The last thread to arrive finds all the others blocked at the barrier.
LEMMA BarLast ==
  ASSUME IsFiniteSet(T), Bar!IInv, NEW t \in T, t \notin arrived,
         Cardinality(arrived) + 1 = Bar!numThreads
  PROVE  arrived \cup {t} = T
<1>1. arrived \cup {t} \in SUBSET T /\ IsFiniteSet(arrived)
  BY FS_Subset DEF Bar!IInv
<1>2. Cardinality(arrived \cup {t}) = Cardinality(arrived) + 1
  BY <1>1, FS_AddElement
<1> QED
  BY <1>1, <1>2, FS_Subset, BarCounting DEF Bar!numThreads

\* A thread arrives and waits, or all of them are released.
LEMMA BarArrive ==
  ASSUME IsFiniteSet(T), numBarriers \in Nat, Bar!IInv, NEW t \in T, Bar!Arrive(t)
  PROVE  Bar!IInv'
<1>1. pc[t] = "run" /\ j[t] < numBarriers /\ UNCHANGED <<j, joined>> /\ t \notin arrived
  BY DEF Bar!Arrive, Bar!IInv
<1>2. CASE Cardinality(arrived) + 1 = Bar!numThreads
  <2>1. arrived \cup {t} = T
    BY <1>1, <1>2, BarLast, Zenon
  <2>2. PICK s \in T : /\ arrived' = {} /\ serial' = [serial EXCEPT ![j[t] + 1] = @ \cup {s}]
                       /\ pc' = [u \in T |-> "passed"]
    BY <1>2, <2>1, BarCounting DEF Bar!Arrive, Bar!BarrierWait
  <2>3. \A u \in T : Bar!Level(u) = j[u] /\ j[u] = j[t]
    BY <1>1, <2>1 DEF Bar!IInv, Bar!Level
  <2>4. \A u \in T : Bar!Level(u)' = j[t] + 1
    BY <1>1, <2>2, <2>3, Zenon DEF Bar!Level
  <2>5. j[t] + 1 \in 1..numBarriers /\ serial[j[t] + 1] = {}
    BY <1>1, <2>3 DEF Bar!IInv
  <2>6. \A n \in 1..numBarriers : serial'[n] = (IF n = j[t] + 1 THEN {s} ELSE serial[n])
    BY <2>2, <2>5 DEF Bar!IInv
  <2>7. \A n \in 1..numBarriers : IF n <= j[t] + 1 THEN \E v \in T : serial'[n] = {v} ELSE serial'[n] = {}
    BY <1>1, <2>3, <2>6, SMTT(30) DEF Bar!IInv
  <2>8. serial' \in [1..numBarriers -> SUBSET T] /\ pc' \in [T -> {"none", "run", "wait", "passed", "returned"}]
    BY <2>2, Zenon DEF Bar!IInv
  <2> QED
    BY <1>1, <2>2, <2>3, <2>4, <2>7, <2>8, SMTT(30) DEF Bar!IInv
<1>3. CASE Cardinality(arrived) + 1 # Bar!numThreads
  <2>1. arrived' = arrived \cup {t} /\ pc' = [pc EXCEPT ![t] = "wait"] /\ serial' = serial
    BY <1>3, BarCounting DEF Bar!Arrive, Bar!BarrierWait
  <2>2. \A u \in T : Bar!Level(u)' = Bar!Level(u)
    BY <1>1, <2>1 DEF Bar!IInv, Bar!Level
  <2> QED
    BY <1>1, <2>1, <2>2 DEF Bar!IInv
<1> QED
  BY <1>2, <1>3

\* Every step keeps the invariant.
LEMMA BarNext ==
  ASSUME IsFiniteSet(T), numBarriers \in Nat, Bar!IInv, [Bar!Next]_Bar!vars
  PROVE  Bar!IInv'
<1>1. ASSUME NEW t \in T, Bar!Create(t) \/ Bar!Pass(t) \/ Bar!Return(t) PROVE Bar!IInv'
  <2>1. /\ UNCHANGED <<arrived, serial, joined>> /\ pc[t] \notin {"wait"}
        /\ j' \in [T -> Nat] /\ pc' \in [T -> {"none", "run", "wait", "passed", "returned"}]
        /\ \A u \in T : u # t => j'[u] = j[u] /\ pc'[u] = pc[u]
        /\ pc'[t] \in {"run", "returned"} /\ j'[t] = Bar!Level(t)
    BY <1>1 DEF Bar!Create, Bar!Pass, Bar!Return, Bar!IInv, Bar!Level
  <2>2. \A u \in T : Bar!Level(u)' = Bar!Level(u)
    BY <2>1, Zenon DEF Bar!IInv, Bar!Level
  <2>3. j'[t] <= numBarriers
    BY <2>1 DEF Bar!IInv, Bar!Level
  <2> QED
    BY <2>1, <2>2, <2>3 DEF Bar!IInv
<1>2. ASSUME NEW t \in T, Bar!Join(t) PROVE Bar!IInv'
  BY <1>2 DEF Bar!Join, Bar!IInv, Bar!Level
<1>3. CASE UNCHANGED Bar!vars
  BY <1>3 DEF Bar!vars, Bar!IInv, Bar!Level
<1> QED
  BY <1>1, <1>2, <1>3, BarArrive DEF Bar!Next, Bar!Thread

\* The initial state satisfies the invariant.
LEMMA BarInit ==
  ASSUME numBarriers \in Nat, Bar!Init
  PROVE  Bar!IInv
BY DEF Bar!Init, Bar!IInv, Bar!Level

\* The invariant implies that the threads keep in step, and that one thread and no second
\* one is told that it is the serial thread of a barrier.
LEMMA BarHolds ==
  ASSUME numBarriers \in Nat, Bar!IInv
  PROVE  Bar!TypeOK /\ Bar!InStep /\ Bar!OneSerial
<1>1. Bar!TypeOK
  BY DEF Bar!IInv, Bar!TypeOK
<1>2. Bar!InStep
  BY DEF Bar!IInv, Bar!Level, Bar!InStep
<1>3. ASSUME NEW n \in 1..numBarriers
      PROVE  Bar!Cardinality(serial[n]) <= 1 /\ ((\E t \in T : j[t] >= n) => serial[n] # {})
  <2>1. CASE serial[n] = {}
    <3>1. \A t \in T : ~(j[t] >= n)
      BY <2>1 DEF Bar!IInv, Bar!Level
    <3>2. Bar!Cardinality(serial[n]) = 0
      BY <2>1, FS_EmptySet, BarCounting
    <3> QED
      BY <3>1, <3>2
  <2>2. CASE \E s \in T : serial[n] = {s}
    <3>1. Bar!Cardinality(serial[n]) = 1 /\ serial[n] # {}
      BY <2>2, FS_Singleton, BarCounting
    <3> QED
      BY <3>1
  <2>3. T = {} => serial[n] = {}
    BY DEF Bar!IInv
  <2> QED
    BY <2>1, <2>2, <2>3 DEF Bar!IInv
<1> QED
  BY <1>1, <1>2, <1>3 DEF Bar!OneSerial, Bar!IInv
-----------------------------------------------------------------------------
(* The suite *)

ASSUME IncrAssumption == Incr!Assumption

sync == <<mtx, waiters>>
prod == <<cnt, totRequired, avail, numConsumed, done>>
join == <<state, numLive, numUnjoined, idx>>
bar == <<j, arrived, serial, joined>>
calling == <<called, calls, begun, ended>>
incr == <<main, made, tjoined, tpc, turn, k, loc, lock>>
life == <<mpc, opc, holder, request, end, block, text, str, key, freed>>
groups == <<kind, glob, incr, life>>
vars == <<program, pc, sync, prod, join, bar, calling, groups>>

NoProd == cnt = 0 /\ totRequired = 0 /\ avail = 0 /\ numConsumed = 0 /\ done = 0
NoJoin == state = 0 /\ numLive = 0 /\ numUnjoined = 0 /\ idx = 0
NoBar == j = 0 /\ arrived = 0 /\ serial = 0 /\ joined = 0
NoCalls == called = 0 /\ calls = 0 /\ begun = 0 /\ ended = 0
NoIncr == main = 0 /\ made = 0 /\ tjoined = 0 /\ tpc = 0 /\ turn = 0 /\ k = 0 /\ loc = 0 /\ lock = 0
NoLife ==
  /\ mpc = 0 /\ opc = 0 /\ holder = 0 /\ request = 0 /\ end = 0 /\ block = 0 /\ text = 0 /\ str = 0
  /\ key = 0 /\ freed = 0
NoGroups == kind = 0 /\ glob = 0 /\ NoIncr /\ NoLife
NoThreads == pc = 0 /\ mtx = Nobody /\ waiters = {} /\ NoCalls /\ NoProd /\ NoJoin /\ NoBar

Programs == Prod!Programs \cup {"thread_multijoin", "barrier", "one_time_init", "incr", "life"}

Init ==
  \/ Prod!Init /\ NoJoin /\ NoBar /\ NoCalls /\ NoGroups
  \/ program = "thread_multijoin" /\ Join!Init /\ NoProd /\ NoBar /\ NoCalls /\ NoGroups
  \/ /\ program = "barrier" /\ Bar!Init /\ mtx = Nobody /\ waiters = {}
     /\ NoProd /\ NoJoin /\ NoCalls /\ NoGroups
  \/ program = "one_time_init" /\ Once!Init /\ NoProd /\ NoJoin /\ NoBar /\ NoGroups
  \/ program = "incr" /\ Incr!Init /\ NoThreads /\ NoLife
  \/ program = "life" /\ Life!Init /\ NoThreads /\ NoIncr

Runs(A, others) == A /\ UNCHANGED <<program, others>>
ProdRuns(A) == program \in Prod!Programs /\ Runs(A, <<join, bar, calling, groups>>)
CvRuns(A) == program = "prod_condvar" /\ ProdRuns(A)
JoinRuns(A) == program = "thread_multijoin" /\ Runs(A, <<prod, bar, calling, groups>>)
BarRuns(A) == program = "barrier" /\ Runs(A, <<sync, prod, join, calling, groups>>)
OnceRuns(A) == program = "one_time_init" /\ Runs(A, <<prod, join, bar, groups>>)
IncrRuns(A) == program = "incr" /\ Runs(A, <<pc, sync, prod, join, bar, calling, life>>)
LifeRuns(A) == program = "life" /\ Runs(A, <<pc, sync, prod, join, bar, calling, incr>>)

Next == \/ ProdRuns(Prod!Next) \/ JoinRuns(Join!Next) \/ BarRuns(Bar!Next)
        \/ OnceRuns(Once!Next) \/ IncrRuns(Incr!Next) \/ LifeRuns(Life!Next)

\* Every thread of the program runs.
Fairness ==
  /\ WF_vars(CvRuns(pc["main"] # "exited" /\ Prod!MainThread))
  /\ \A p \in Producers : WF_vars(CvRuns(pc["main"] # "exited" /\ Prod!Producer(p)))
  /\ WF_vars(JoinRuns(pc[N] # "exited" /\ Join!MainThread))
  /\ \A i \in 0..N-1 : WF_vars(JoinRuns(pc[N] # "exited" /\ Join!Thread(i)))
  /\ \A t \in T : WF_vars(BarRuns(Bar!Thread(t))) /\ WF_vars(BarRuns(Bar!Create(t) \/ Bar!Join(t)))
  /\ \A t \in T : WF_vars(OnceRuns(Once!Step(t)))
  /\ \A a \in 0..NumThreads : WF_vars(IncrRuns(Incr!Program(a)))
  /\ WF_vars(LifeRuns(Life!CleanupThread)) /\ WF_vars(LifeRuns(kind \in Life!Cleanups /\ Life!CleanupMain))
  /\ WF_vars(LifeRuns(Life!CancelThread)) /\ WF_vars(LifeRuns(kind = "cancel" /\ Life!CancelMain))
  /\ WF_vars(LifeRuns(Life!StrerrorPrograms))

FairSpec == Init /\ [][Next]_vars /\ Fairness
-----------------------------------------------------------------------------
\* The values of the variables of the program that runs.
TypeOK ==
  CASE program \in Prod!Programs -> Prod!TypeOK
    [] program = "thread_multijoin" -> Join!TypeOK
    [] program = "barrier" -> Bar!TypeOK
    [] program = "one_time_init" -> Once!TypeOK
    [] program = "incr" -> Incr!TypeOK
    [] program = "life" -> Life!TypeOK

\* Nothing that is counted goes missing.  prod_condvar and prod_no_condvar: every unit
\* asked for is still to be made, available or consumed, while main() still creates
\* producers too, and main() does not call exit() before every producer has made all its
\* units.  The counting programs print a sum that no increment is missing from if they
\* use a lock, and that is at least two if they do not.
UnitsCounted ==
  /\ program \in Prod!Programs => Prod!Conserved /\ Prod!NothingCutOff
  /\ program = "incr" => Incr!GlobPrinted

\* Threads meet as they should.  thread_multijoin: the counters agree with the table
\* whenever main reads them, and when main terminates the process every thread has
\* returned.  The barrier: no thread gets more than one barrier ahead of another,
\* although it is used again at once, and exactly one thread gets
\* PTHREAD_BARRIER_SERIAL_THREAD each time.  one_time_init(): init() runs once in all, and
\* no caller comes back before it has ended, not even one that did not run it.  A
\* thread that is canceled or ends leaves nothing locked, allocated or shared: the cleanup
\* handler runs with the mutex, and the text of strerror() is the caller's own.
ThreadsMeet ==
  /\ program = "thread_multijoin" => Join!CountsAgree /\ Join!AllReturned
  /\ program = "barrier" => Bar!InStep /\ Bar!OneSerial
  /\ program = "one_time_init" => Once!Once
  /\ program = "life" => Life!LeftBehind /\ Life!HandlerHasMutex

\* Every program ends, unless spurious wakeups go on for ever or prod_condvar has
\* nothing to consume: no signal sent after an unlock is lost, and a thread that
\* main joins never needs the mutex that main holds.  A locked counter is unlocked for the next
\* thread, and a canceled thread reaches a cancellation point and can be joined.
ProgramsEnd ==
  /\ (program = "prod_condvar" /\ \E p \in Producers : cnt[p] > 0) /\ <>[][~CvRuns(Prod!Spurious)]_vars
       => <>(program = "prod_condvar" /\ pc["main"] = "exited")
  /\ program = "thread_multijoin" /\ <>[][~JoinRuns(Join!Spurious)]_vars
       => <>(program = "thread_multijoin" /\ pc[N] = "exited")
  /\ program = "barrier" => <>(program = "barrier" /\ joined = T)
  /\ program = "one_time_init" => <>(program = "one_time_init" /\ \A t \in T : calls[t] = Calls)
  /\ program = "incr" => <>(program = "incr" /\ main \in {"done", "failed", "killed"})
  /\ program = "life" /\ <>[][~LifeRuns(Life!Spurious)]_vars => <>(program = "life" /\ mpc \in {"done", "failed"})
-----------------------------------------------------------------------------
(* The program that runs *)

\* It keeps its own invariant.
IInv ==
  /\ program \in Programs
  /\ program \in Prod!Programs => Prod!IInv
  /\ program = "thread_multijoin" => Join!IInv
  /\ program = "barrier" => Bar!IInv
  /\ program = "one_time_init" => Once!IInv
  /\ program = "incr" => Incr!IInv
  /\ program = "life" => Life!IInv

\* Nobody is a thread of thread_multijoin.
LEMMA JoinThreads == Nobody \notin Join!Threads
BY ThreadsAssumption DEF Join!Threads

\* A process starts as one of the programs.
LEMMA InitIInv == Init => IInv
<1> SUFFICES ASSUME Init PROVE IInv
  OBVIOUS
<1> USE DEF Programs, Prod!Programs
<1>1. CASE Prod!Init
  BY <1>1, ProdInit, ThreadsAssumption, Zenon DEF Prod!Init, IInv
<1>2. CASE program = "thread_multijoin" /\ Join!Init
  BY <1>2, JoinInit, JoinThreads, ThreadsAssumption DEF IInv
<1>3. CASE program = "barrier" /\ Bar!Init
  BY <1>3, BarInit, ThreadsAssumption DEF IInv
<1>4. CASE program = "one_time_init" /\ Once!Init
  BY <1>4, OnceInit, ThreadsAssumption DEF IInv
<1>5. CASE program = "incr" /\ Incr!Init
  BY <1>5, IncrInit, IncrAssumption DEF IInv
<1>6. CASE program = "life" /\ Life!Init
  BY <1>6, LifeInit DEF IInv
<1> QED
  BY <1>1, <1>2, <1>3, <1>4, <1>5, <1>6 DEF Init

\* A step is one of the program that runs.
LEMMA NextIInv == IInv /\ [Next]_vars => IInv'
<1> SUFFICES ASSUME IInv, [Next]_vars PROVE IInv'
  OBVIOUS
<1>1. program' = program /\ program \in Programs
  BY DEF IInv, Next, ProdRuns, JoinRuns, BarRuns, OnceRuns, IncrRuns, LifeRuns, Runs, vars
<1> USE DEF Programs, Prod!Programs
<1>2. CASE program \in Prod!Programs
  <2>1. [Prod!Next]_Prod!vars
    BY <1>2 DEF Next, ProdRuns, JoinRuns, BarRuns, OnceRuns, IncrRuns, LifeRuns, Runs, vars, sync, prod, Prod!vars, Prod!counts
  <2> QED
    BY <1>1, <1>2, <2>1, ProdNext, ThreadsAssumption DEF IInv
<1>3. CASE program = "thread_multijoin"
  <2>1. [Join!Next]_Join!vars
    BY <1>3 DEF Next, ProdRuns, JoinRuns, BarRuns, OnceRuns, IncrRuns, LifeRuns, Runs, vars, sync, join, Join!vars, Join!counts
  <2> QED
    BY <1>1, <1>3, <2>1, JoinNext, JoinThreads, ThreadsAssumption DEF IInv
<1>4. CASE program = "barrier"
  <2>1. [Bar!Next]_Bar!vars
    BY <1>4 DEF Next, ProdRuns, JoinRuns, BarRuns, OnceRuns, IncrRuns, LifeRuns, Runs, vars, bar, Bar!vars
  <2> QED
    BY <1>1, <1>4, <2>1, BarNext, ThreadsAssumption DEF IInv
<1>5. CASE program = "one_time_init"
  <2>1. [Once!Next]_Once!vars
    BY <1>5 DEF Next, ProdRuns, JoinRuns, BarRuns, OnceRuns, IncrRuns, LifeRuns, Runs, vars, sync, calling, Once!vars
  <2> QED
    BY <1>1, <1>5, <2>1, OnceNext, ThreadsAssumption DEF IInv
<1>6. CASE program = "incr"
  <2>1. [Incr!Next]_Incr!vars
    BY <1>6 DEF Next, ProdRuns, JoinRuns, BarRuns, OnceRuns, IncrRuns, LifeRuns, Runs, vars, groups, incr, Incr!vars
  <2> QED
    BY <1>1, <1>6, <2>1, IncrNext, IncrAssumption DEF IInv
<1>7. CASE program = "life"
  <2>1. [Life!Next]_Life!vars
    BY <1>7 DEF Next, ProdRuns, JoinRuns, BarRuns, OnceRuns, IncrRuns, LifeRuns, Runs, vars, groups, life, Life!vars
  <2> QED
    BY <1>1, <1>7, <2>1, LifeNext DEF IInv
<1> QED
  BY <1>1, <1>2, <1>3, <1>4, <1>5, <1>6, <1>7

\* The invariant implies all that is said of the programs.
LEMMA AllHold == IInv => TypeOK /\ UnitsCounted /\ ThreadsMeet
<1> SUFFICES ASSUME IInv PROVE TypeOK /\ UnitsCounted /\ ThreadsMeet
  OBVIOUS
<1>1. program \in Prod!Programs => Prod!TypeOK /\ Prod!Conserved /\ Prod!NothingCutOff
  BY ProdHolds, ThreadsAssumption DEF IInv
<1>2. program = "thread_multijoin" => Join!TypeOK /\ Join!CountsAgree /\ Join!AllReturned
  BY JoinHolds, JoinThreads, ThreadsAssumption DEF IInv
<1>3. program = "barrier" => Bar!TypeOK /\ Bar!InStep /\ Bar!OneSerial
  BY BarHolds, ThreadsAssumption DEF IInv
<1>4. program = "one_time_init" => Once!TypeOK /\ Once!Once
  BY OnceHolds, ThreadsAssumption DEF IInv
<1>5. program = "incr" => Incr!TypeOK /\ Incr!GlobPrinted
  BY IncrHolds, IncrAssumption DEF IInv
<1>6. program = "life" => Life!TypeOK /\ Life!LeftBehind /\ Life!HandlerHasMutex
  BY LifeHolds DEF IInv
<1> QED
  BY <1>1, <1>2, <1>3, <1>4, <1>5, <1>6, Zenon DEF IInv, TypeOK, UnitsCounted, ThreadsMeet, Programs, Prod!Programs

\* Each program's variables keep their values, for any number of threads, units, barriers,
\* calls and loops; among them that a lock is held by one thread at most.
THEOREM ThreadsTyped == FairSpec => []TypeOK
BY InitIInv, NextIInv, AllHold, PTL DEF FairSpec

\* prod_condvar.c and prod_no_condvar.c lose no unit and cut off no producer, for any
\* producers and counts; the counting programs print every increment if they use a lock, for
\* any number of threads and loops, and without one a number between two and all of them.
THEOREM NothingMissing == FairSpec => []UnitsCounted
BY InitIInv, NextIInv, AllHold, PTL DEF FairSpec

\* thread_multijoin.c joins every thread and its counters agree with its table; no thread is
\* two barriers ahead of another, and each barrier has one serial thread; one_time_init() runs
\* init() once and returns after it; a thread that was canceled or has ended leaves nothing
\* behind: for any number of threads, barriers and calls.
THEOREM ThreadsDoMeet == FairSpec => []ThreadsMeet
BY InitIInv, NextIInv, AllHold, PTL DEF FairSpec
=============================================================================
