----------------------------- MODULE ProdConsCv -----------------------------
(***************************************************************************)
(* src/threads/prod_cons_cv.c: producer and consumer threads that share a  *)
(* count of available units under one mutex, consumers sleeping on a       *)
(* condition variable that every producer broadcasts.  The last consumer   *)
(* to finish terminates the process.                                       *)
(***************************************************************************)
EXTENDS Integers, Pthreads

CONSTANTS Producers, Consumers,   \* the threads main() creates
          TotalUnits              \* num-units on the command line

ASSUME ThreadsAssumption ==
  /\ Producers \cap Consumers = {}
  /\ Nobody \notin Producers \cup Consumers
  /\ IsFiniteSet(Consumers)
ASSUME UnitsAssumption == TotalUnits \in Nat
\* With no producer a consumer would wait for ever; main() does not check.
ASSUME ProducersAssumption == Producers # {}

VARIABLES avail, unitsProduced, unitsConsumed, numLiveCons,
          done,       \* the thread's local prodDone or consDone
          pc,         \* where each thread is
          exited      \* exit() has been called

Threads == Producers \cup Consumers
counters == <<avail, unitsProduced, unitsConsumed, numLiveCons>>
vars == <<mtx, waiters, counters, done, pc, exited>>

Goto(t, where) == pc' = [pc EXCEPT ![t] = where]

\* main(): the counters are set before the first thread is created.
Init ==
  /\ mtx = Nobody /\ waiters = {}
  /\ avail = 0 /\ unitsProduced = 0 /\ unitsConsumed = 0
  /\ numLiveCons = Cardinality(Consumers)
  /\ done = [t \in Threads |-> FALSE]
  /\ pc = [t \in Threads |-> "loop"]
  /\ exited = FALSE

-----------------------------------------------------------------------------
(* producer() *)

ProdLock(p) ==
  /\ pc[p] = "loop" /\ ~done[p]
  /\ MutexLock(p)
  /\ Goto(p, "locked")
  /\ UNCHANGED <<waiters, counters, done, exited>>

ProdProduce(p) ==
  /\ pc[p] = "locked"
  /\ done' = [done EXCEPT ![p] = unitsProduced >= TotalUnits]
  /\ IF unitsProduced >= TotalUnits
     THEN UNCHANGED counters
     ELSE /\ avail' = avail + 1
          /\ unitsProduced' = unitsProduced + 1
          /\ UNCHANGED <<unitsConsumed, numLiveCons>>
  /\ Goto(p, "unlock")
  /\ UNCHANGED <<mtx, waiters, exited>>

ProdUnlock(p) ==
  /\ pc[p] = "unlock"
  /\ MutexUnlock(p)
  /\ Goto(p, "broadcast")
  /\ UNCHANGED <<waiters, counters, done, exited>>

\* Mutant of ProdBroadcast: the signal the comment in producer() warns against.
ProdSignals(p) ==
  /\ pc[p] = "broadcast"
  /\ CondSignal
  /\ Goto(p, IF done[p] THEN "ended" ELSE "loop")
  /\ UNCHANGED <<mtx, counters, done, exited>>

ProdBroadcast(p) ==
  /\ pc[p] = "broadcast"
  /\ CondBroadcast
  /\ Goto(p, IF done[p] THEN "ended" ELSE "loop")
  /\ UNCHANGED <<mtx, counters, done, exited>>

-----------------------------------------------------------------------------
(* consumer() *)

ConsLock(c) ==
  /\ pc[c] = "loop" /\ ~done[c]
  /\ MutexLock(c)
  /\ Goto(c, "locked")
  /\ UNCHANGED <<waiters, counters, done, exited>>

\* Mutant of MustWait: the consumer only looks for available units.
MustWaitAvailOnly == avail = 0

\* The condition of the consumer's wait loop.
MustWait == avail = 0 /\ unitsConsumed < TotalUnits

ConsWait(c) ==
  /\ pc[c] = "locked" /\ MustWait
  /\ CondWait(c)
  /\ Goto(c, "waiting")
  /\ UNCHANGED <<counters, done, exited>>

ConsWake(c) ==
  /\ pc[c] = "waiting"
  /\ CondReturn(c)
  /\ Goto(c, "locked")
  /\ UNCHANGED <<waiters, counters, done, exited>>

\* Mutant of ConsConsume: an `if' instead of the `while' around the wait, so
\* that a woken consumer does not look again.
ConsConsumeUnchecked(c) ==
  /\ pc[c] = "locked" /\ unitsConsumed < TotalUnits
  /\ unitsConsumed' = unitsConsumed + 1
  /\ avail' = avail - 1
  /\ Goto(c, "unlock")
  /\ UNCHANGED <<mtx, waiters, unitsProduced, numLiveCons, done, exited>>

ConsConsume(c) ==
  /\ pc[c] = "locked" /\ ~MustWait
  /\ unitsConsumed < TotalUnits
  /\ unitsConsumed' = unitsConsumed + 1
  /\ avail' = avail - 1
  /\ Goto(c, "unlock")
  /\ UNCHANGED <<mtx, waiters, unitsProduced, numLiveCons, done, exited>>

\* Mutant of ConsFinish: the live-consumer test is off by one.
ConsFinishEarly(c) ==
  /\ pc[c] = "locked" /\ ~MustWait
  /\ unitsConsumed >= TotalUnits
  /\ numLiveCons' = numLiveCons - 1
  /\ done' = [done EXCEPT ![c] = TRUE]
  /\ exited' = (numLiveCons - 1 <= 1)
  /\ Goto(c, "unlock")
  /\ UNCHANGED <<mtx, waiters, avail, unitsProduced, unitsConsumed>>

\* Every unit is consumed: this consumer leaves, the last one calls exit().
ConsFinish(c) ==
  /\ pc[c] = "locked" /\ ~MustWait
  /\ unitsConsumed >= TotalUnits
  /\ numLiveCons' = numLiveCons - 1
  /\ done' = [done EXCEPT ![c] = TRUE]
  /\ exited' = (numLiveCons - 1 <= 0)
  /\ Goto(c, "unlock")
  /\ UNCHANGED <<mtx, waiters, avail, unitsProduced, unitsConsumed>>

ConsUnlock(c) ==
  /\ pc[c] = "unlock"
  /\ MutexUnlock(c)
  /\ Goto(c, IF done[c] THEN "ended" ELSE "loop")
  /\ UNCHANGED <<waiters, counters, done, exited>>

Spurious(c) == SpuriousWakeup(c) /\ UNCHANGED <<mtx, counters, done, pc, exited>>

-----------------------------------------------------------------------------
ProducerStep(p) == ProdLock(p) \/ ProdProduce(p) \/ ProdUnlock(p) \/ ProdBroadcast(p)

ConsumerStep(c) ==
  ConsLock(c) \/ ConsWait(c) \/ ConsWake(c) \/ ConsConsume(c) \/ ConsFinish(c) \/ ConsUnlock(c)

Terminated == exited /\ UNCHANGED vars

Next ==
  \/ \E p \in Producers : ~exited /\ ProducerStep(p)
  \/ \E c \in Consumers : ~exited /\ (ConsumerStep(c) \/ Spurious(c))
  \/ Terminated

Spec == Init /\ [][Next]_vars

\* The kernel runs every runnable thread; nothing is assumed about spurious
\* wakeups.
FairSpec ==
  /\ Spec
  /\ \A p \in Producers : WF_vars(~exited /\ ProducerStep(p))
  /\ \A c \in Consumers : WF_vars(~exited /\ ConsumerStep(c))

-----------------------------------------------------------------------------
TypeOK ==
  /\ mtx \in Threads \cup {Nobody}
  /\ waiters \subseteq Consumers
  /\ avail \in Nat /\ unitsProduced \in Nat /\ unitsConsumed \in Nat /\ numLiveCons \in Nat
  /\ done \in [Threads -> BOOLEAN]
  /\ pc \in [Threads -> {"loop", "locked", "waiting", "unlock", "broadcast", "ended"}]
  /\ exited \in BOOLEAN

\* A consumer asleep in pthread_cond_wait can always still be woken: some
\* producer has not returned, so one more broadcast is to come.  This is what
\* the unlocked broadcast of producer() and the two-part wait condition of
\* consumer() are for.
NoSleeperLeftBehind ==
  waiters # {} => \E p \in Producers : pc[p] # "ended"

\* Units are neither lost nor consumed twice, whatever the interleaving of the
\* threads, and the totals printed before exit() are both TotalUnits.
UnitsConserved ==
  /\ avail = unitsProduced - unitsConsumed
  /\ unitsConsumed <= unitsProduced /\ unitsProduced <= TotalUnits
  /\ exited => unitsProduced = TotalUnits /\ unitsConsumed = TotalUnits

\* exit() is called by the last consumer only: no other consumer is inside its
\* loop when the process terminates.
ExitByLast == exited => \A c \in Consumers : done[c]

\* With at least one producer and one consumer the process terminates, provided
\* spurious wakeups do not go on for ever.
Terminates == <>[][\A c \in Consumers : ~Spurious(c)]_vars => <>exited
=============================================================================
