---------------------------- MODULE ProdCondvar -----------------------------
(***************************************************************************)
(* src/threads/prod_condvar.c and prod_no_condvar.c: the main thread       *)
(* creates producers and consumes their units, waiting on a condition      *)
(* variable in the first program and polling in the second.                *)
(***************************************************************************)
EXTENDS Naturals, Pthreads

CONSTANTS Producers,
          MaxCount      \* largest command-line argument

Main == "main"
Threads == Producers \cup {Main}

VARIABLES program,      \* which of the two programs
          cnt,          \* producer -> units it still has to make
          totRequired,  \* what main() has summed up
          avail, numConsumed, done, pc

counts == <<totRequired, avail, numConsumed, done>>
vars == <<program, mtx, waiters, cnt, counts, pc>>

Programs == {"prod_condvar", "prod_no_condvar"}
UsesCondvar == program = "prod_condvar"

Goto(t, to) == pc' = [pc EXCEPT ![t] = to]

Init ==
  /\ program \in Programs
  /\ mtx = Nobody /\ waiters = {}
  /\ cnt \in [Producers -> 0..MaxCount]
  /\ totRequired = 0 /\ avail = 0 /\ numConsumed = 0 /\ done = FALSE
  /\ pc = [t \in Threads |-> IF t = Main THEN "create" ELSE "none"]

(* threadFunc(): a producer *)

PLock(p) ==
  /\ pc[p] = "loop" /\ cnt[p] > 0
  /\ MutexLock(p) /\ Goto(p, "produce") /\ UNCHANGED <<waiters, cnt, counts>>

PProduce(p) ==
  /\ pc[p] = "produce"
  /\ avail' = avail + 1 /\ cnt' = [cnt EXCEPT ![p] = @ - 1]
  /\ Goto(p, "unlock") /\ UNCHANGED <<mtx, waiters, totRequired, numConsumed, done>>

PUnlock(p) ==
  /\ pc[p] = "unlock"
  /\ MutexUnlock(p) /\ Goto(p, IF UsesCondvar THEN "signal" ELSE "loop")
  /\ UNCHANGED <<waiters, cnt, counts>>

PSignal(p) ==
  /\ pc[p] = "signal"
  /\ CondSignal /\ Goto(p, "loop") /\ UNCHANGED <<mtx, cnt, counts>>

(* main() *)

\* A thread may run as soon as it is created.
MCreate ==
  /\ pc[Main] = "create"
  /\ \/ \E p \in Producers :
          /\ pc[p] = "none"
          /\ totRequired' = totRequired + cnt[p]
          /\ pc' = [pc EXCEPT ![p] = "loop"]
     \/ /\ \A p \in Producers : pc[p] # "none"
        /\ Goto(Main, "lock") /\ UNCHANGED totRequired
  /\ UNCHANGED <<mtx, waiters, cnt, avail, numConsumed, done>>

MLock ==
  /\ pc[Main] = "lock"
  /\ MutexLock(Main) /\ Goto(Main, IF UsesCondvar THEN "test" ELSE "consume")
  /\ UNCHANGED <<waiters, cnt, counts>>

MTest ==
  /\ pc[Main] = "test"
  /\ IF avail = 0
     THEN CondWait(Main) /\ Goto(Main, "wait")
     ELSE Goto(Main, "consume") /\ UNCHANGED <<mtx, waiters>>
  /\ UNCHANGED <<cnt, counts>>

MWake ==
  /\ pc[Main] = "wait"
  /\ CondReturn(Main) /\ Goto(Main, "test") /\ UNCHANGED <<waiters, cnt, counts>>

Spurious == SpuriousWakeup(Main) /\ UNCHANGED <<mtx, cnt, counts, pc>>

\* Mutant of MConsume: the comparison is off by one.
MConsumeEarly ==
  /\ pc[Main] = "consume"
  /\ numConsumed' = numConsumed + avail /\ avail' = 0
  /\ done' = (avail > 0 /\ numConsumed' + 1 >= totRequired)
  /\ Goto(Main, "unlock") /\ UNCHANGED <<mtx, waiters, cnt, totRequired>>

\* The inner loop, under the mutex; done is assigned only in its body.
MConsume ==
  /\ pc[Main] = "consume"
  /\ numConsumed' = numConsumed + avail /\ avail' = 0
  /\ done' = IF avail > 0 THEN numConsumed' >= totRequired ELSE done
  /\ Goto(Main, "unlock") /\ UNCHANGED <<mtx, waiters, cnt, totRequired>>

MUnlock ==
  /\ pc[Main] = "unlock"
  /\ MutexUnlock(Main) /\ Goto(Main, IF done THEN "exited" ELSE "lock")
  /\ UNCHANGED <<waiters, cnt, counts>>

Producer(p) == PLock(p) \/ PProduce(p) \/ PUnlock(p) \/ PSignal(p)
MainThread == MCreate \/ MLock \/ MTest \/ MWake \/ MConsume \/ MUnlock

\* exit() ends every thread.
Next ==
  /\ pc[Main] # "exited" /\ (MainThread \/ Spurious \/ \E p \in Producers : Producer(p))
  /\ UNCHANGED program

Spec == Init /\ [][Next]_vars

-----------------------------------------------------------------------------
\* The units that the producers created so far still have to make.
ToMake == {u \in Producers \X (1..MaxCount) : pc[u[1]] # "none" /\ u[2] <= cnt[u[1]]}
Remaining == Cardinality(ToMake)

TypeOK ==
  /\ mtx \in Threads \cup {Nobody} /\ waiters \subseteq {Main}
  /\ \A p \in Producers : cnt[p] \in 0..MaxCount
  /\ \A t \in Threads : pc[t] \in {"none", "loop", "produce", "unlock", "signal", "create",
                                   "lock", "test", "wait", "consume", "exited"}
  /\ Main \in waiters => pc[Main] = "wait"

\* Every unit asked for is still to be made, available or consumed.
Conserved == totRequired = Remaining + avail + numConsumed

\* main() does not call exit() before every producer has made all its units.
NothingCutOff == pc[Main] = "exited" => numConsumed = totRequired /\ Remaining = 0
-----------------------------------------------------------------------------
(* The inductive invariant *)

\* Where the threads are.  A producer holds the mutex while it makes a unit that it still
\* has to make; main() holds it from the test to the unlock.
Positions ==
  /\ mtx \in Threads \cup {Nobody} /\ waiters \subseteq {Main}
  /\ cnt \in [Producers -> 0..MaxCount]
  /\ pc \in [Threads -> {"none", "loop", "produce", "unlock", "signal", "create",
                         "lock", "test", "wait", "consume", "exited"}]
  /\ Main \in waiters => pc[Main] = "wait"
  /\ pc[Main] \in {"create", "lock", "test", "wait", "consume", "unlock", "exited"}
  /\ \A p \in Producers : /\ pc[p] \in {"none", "loop", "produce", "unlock", "signal"}
                          /\ pc[p] = "produce" => cnt[p] > 0
  /\ pc[Main] # "create" => \A p \in Producers : pc[p] # "none"

\* The inductive invariant: once done is set there is nothing left to make or to consume.
IInv ==
  /\ Positions
  /\ avail \in Nat /\ numConsumed \in Nat /\ totRequired \in Nat /\ Conserved
  /\ done => /\ pc[Main] \in {"unlock", "exited"}
             /\ numConsumed >= totRequired
  /\ pc[Main] = "exited" => done
=============================================================================
