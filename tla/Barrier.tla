------------------------------ MODULE Barrier -------------------------------
(***************************************************************************)
(* src/threads/pthread_barrier_demo.c: threads that meet at one barrier    *)
(* again and again.  pthread_barrier_wait() is external: the last thread   *)
(* to arrive releases all and resets the barrier, and one of them, it does *)
(* not matter which, gets PTHREAD_BARRIER_SERIAL_THREAD.                   *)
(***************************************************************************)
EXTENDS Naturals, FiniteSets

CONSTANTS Threads, numBarriers

numThreads == Cardinality(Threads)

VARIABLES j,          \* thread -> times it has passed the barrier
          pc,         \* thread -> "none", "run", "wait", "passed", "returned"
          arrived,    \* threads blocked at the barrier
          serial,     \* the threads that got the special value, per barrier
          joined      \* main(): threads joined

vars == <<j, pc, arrived, serial, joined>>

Init ==
  /\ j = [t \in Threads |-> 0] /\ pc = [t \in Threads |-> "none"]
  /\ arrived = {} /\ serial = [n \in 1..numBarriers |-> {}] /\ joined = {}

\* main(): pthread_create() of a thread, which runs at once.
Create(t) ==
  /\ pc[t] = "none" /\ pc' = [pc EXCEPT ![t] = "run"]
  /\ UNCHANGED <<j, arrived, serial, joined>>

\* pthread_barrier_wait() for a barrier of n threads.
BarrierWait(t, n) ==
  /\ arrived' = IF Cardinality(arrived) + 1 = n THEN {} ELSE arrived \cup {t}
  /\ IF arrived' = {}
     THEN \E s \in arrived \cup {t} :
            /\ serial' = [serial EXCEPT ![j[t] + 1] = @ \cup {s}]
            /\ pc' = [u \in Threads |-> IF u \in arrived \cup {t} THEN "passed" ELSE pc[u]]
     ELSE pc' = [pc EXCEPT ![t] = "wait"] /\ UNCHANGED serial

Arrive(t) ==
  /\ pc[t] = "run" /\ j[t] < numBarriers
  /\ BarrierWait(t, numThreads)
  /\ UNCHANGED <<j, joined>>

Pass(t) ==
  /\ pc[t] = "passed"
  /\ j' = [j EXCEPT ![t] = @ + 1] /\ pc' = [pc EXCEPT ![t] = "run"]
  /\ UNCHANGED <<arrived, serial, joined>>

Return(t) ==
  /\ pc[t] = "run" /\ j[t] = numBarriers /\ pc' = [pc EXCEPT ![t] = "returned"]
  /\ UNCHANGED <<j, arrived, serial, joined>>

Join(t) ==
  /\ \A u \in Threads : pc[u] # "none"
  /\ pc[t] = "returned" /\ t \notin joined /\ joined' = joined \cup {t}
  /\ UNCHANGED <<j, pc, arrived, serial>>

Thread(t) == Arrive(t) \/ Pass(t) \/ Return(t)
Next == \E t \in Threads : Thread(t) \/ Create(t) \/ Join(t)

Spec == Init /\ [][Next]_vars

-----------------------------------------------------------------------------
TypeOK ==
  /\ j \in [Threads -> 0..numBarriers] /\ arrived \subseteq Threads
  /\ joined \subseteq Threads
  /\ \A t \in Threads : pc[t] \in {"none", "run", "wait", "passed", "returned"}
                        /\ (pc[t] = "wait" <=> t \in arrived)

\* No thread gets more than one barrier ahead of another, and when it is ahead
\* the other one has been released from that barrier too.
InStep == \A t, u \in Threads : j[t] <= j[u] + 1 /\ (j[t] > j[u] => pc[u] = "passed")

\* Exactly one thread gets PTHREAD_BARRIER_SERIAL_THREAD at each barrier that
\* has been passed.
OneSerial ==
  \A n \in DOMAIN serial :
    /\ Cardinality(serial[n]) <= 1
    /\ (\E t \in Threads : j[t] >= n) => serial[n] # {}
-----------------------------------------------------------------------------
(* The inductive invariant *)

\* The barriers that a thread has been released from.
Level(t) == IF pc[t] = "passed" THEN j[t] + 1 ELSE j[t]

\* All threads have been released from the same barriers, because only the last
\* one to arrive releases them; each of these barriers has its serial thread.
IInv ==
  /\ j \in [Threads -> Nat] /\ pc \in [Threads -> {"none", "run", "wait", "passed", "returned"}]
  /\ arrived \subseteq Threads /\ joined \subseteq Threads /\ serial \in [1..numBarriers -> SUBSET Threads]
  /\ \A t \in Threads : (pc[t] = "wait" <=> t \in arrived) /\ j[t] <= numBarriers
                        /\ (pc[t] \in {"wait", "passed"} => j[t] < numBarriers)
  /\ \A t, u \in Threads : Level(t) = Level(u)
  /\ \A n \in 1..numBarriers : \A t \in Threads :
       IF n <= Level(t) THEN \E s \in Threads : serial[n] = {s} ELSE serial[n] = {}
=============================================================================
