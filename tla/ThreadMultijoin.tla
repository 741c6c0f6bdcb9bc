-------------------------- MODULE ThreadMultijoin ---------------------------
(***************************************************************************)
(* src/threads/thread_multijoin.c: the main thread joins its threads in    *)
(* the order in which they terminate.  A dying thread records that in the  *)
(* table, under the mutex, and signals the condition variable; main holds  *)
(* the mutex while it waits in pthread_join().                             *)
(***************************************************************************)
EXTENDS Integers, Pthreads

CONSTANT N               \* command-line arguments, at least one

Idx == 0..(N - 1)
Main == N
Threads == 0..N

VARIABLES state,         \* thread[].state
          numLive, numUnjoined,
          idx,           \* main()'s loop variable
          pc

counts == <<numLive, numUnjoined>>
vars == <<mtx, waiters, state, counts, idx, pc>>

Goto(t, to) == pc' = [pc EXCEPT ![t] = to]

Init ==
  /\ mtx = Nobody /\ waiters = {}
  /\ state = [i \in Idx |-> "TS_ALIVE"]
  /\ numLive = 0 /\ numUnjoined = 0 /\ idx = 0
  /\ pc = [t \in Threads |-> IF t = Main THEN "create" ELSE "none"]

(* threadFunc() *)

TLock(i) ==
  /\ pc[i] = "work"
  /\ MutexLock(i) /\ Goto(i, "locked") /\ UNCHANGED <<waiters, state, counts, idx>>

\* Mutant of TRecord: the state is written, the thread not counted.
TRecordState(i) ==
  /\ pc[i] = "locked"
  /\ state' = [state EXCEPT ![i] = "TS_TERMINATED"]
  /\ Goto(i, "unlock") /\ UNCHANGED <<mtx, waiters, counts, idx>>

TRecord(i) ==
  /\ pc[i] = "locked"
  /\ numUnjoined' = numUnjoined + 1
  /\ state' = [state EXCEPT ![i] = "TS_TERMINATED"]
  /\ Goto(i, "unlock") /\ UNCHANGED <<mtx, waiters, numLive, idx>>

TUnlock(i) ==
  /\ pc[i] = "unlock"
  /\ MutexUnlock(i) /\ Goto(i, "signal") /\ UNCHANGED <<waiters, state, counts, idx>>

\* Mutant of TSignal: a thread that takes the mutex again before it returns.
TSignalLocked(i) ==
  /\ pc[i] = "signal" /\ mtx = Nobody
  /\ CondSignal /\ Goto(i, "returned") /\ UNCHANGED <<mtx, state, counts, idx>>

TSignal(i) ==
  /\ pc[i] = "signal"
  /\ CondSignal /\ Goto(i, "returned") /\ UNCHANGED <<mtx, state, counts, idx>>

(* main() *)

MCreate ==
  /\ pc[Main] = "create"
  /\ IF idx < N
     THEN /\ pc' = [pc EXCEPT ![idx] = "work"] /\ idx' = idx + 1
          /\ UNCHANGED numLive
     ELSE numLive' = N /\ Goto(Main, "loop") /\ UNCHANGED idx
  /\ UNCHANGED <<mtx, waiters, state, numUnjoined>>

MLoop ==
  /\ pc[Main] = "loop"
  /\ IF numLive > 0
     THEN MutexLock(Main) /\ Goto(Main, "test")
     ELSE Goto(Main, "exited") /\ UNCHANGED mtx
  /\ UNCHANGED <<waiters, state, counts, idx>>

MTest ==
  /\ pc[Main] = "test"
  /\ IF numUnjoined = 0
     THEN CondWait(Main) /\ Goto(Main, "wait") /\ UNCHANGED idx
     ELSE Goto(Main, "scan") /\ idx' = 0 /\ UNCHANGED <<mtx, waiters>>
  /\ UNCHANGED <<state, counts>>

MWake ==
  /\ pc[Main] = "wait"
  /\ CondReturn(Main) /\ Goto(Main, "test") /\ UNCHANGED <<waiters, state, counts, idx>>

Spurious == SpuriousWakeup(Main) /\ UNCHANGED <<mtx, state, counts, idx, pc>>

\* Mutant of MScan: a thread that was joined stays TS_TERMINATED.
MScanAgain ==
  /\ pc[Main] = "scan" /\ idx < N
  /\ IF state[idx] = "TS_TERMINATED"
     THEN pc[idx] = "returned" /\ numLive' = numLive - 1 /\ numUnjoined' = numUnjoined - 1
     ELSE UNCHANGED counts
  /\ idx' = idx + 1 /\ UNCHANGED <<mtx, waiters, state, pc>>

\* One turn of the loop over the table; pthread_join() waits for the return.
MScan ==
  /\ pc[Main] = "scan" /\ idx < N
  /\ IF state[idx] = "TS_TERMINATED"
     THEN /\ pc[idx] = "returned"
          /\ state' = [state EXCEPT ![idx] = "TS_JOINED"]
          /\ numLive' = numLive - 1 /\ numUnjoined' = numUnjoined - 1
     ELSE UNCHANGED <<state, counts>>
  /\ idx' = idx + 1 /\ UNCHANGED <<mtx, waiters, pc>>

MUnlock ==
  /\ pc[Main] = "scan" /\ idx = N
  /\ MutexUnlock(Main) /\ Goto(Main, "loop") /\ UNCHANGED <<waiters, state, counts, idx>>

Thread(i) == TLock(i) \/ TRecord(i) \/ TUnlock(i) \/ TSignal(i)
MainThread == MCreate \/ MLoop \/ MTest \/ MWake \/ MScan \/ MUnlock

Next == pc[Main] # "exited" /\ (MainThread \/ Spurious \/ \E i \in Idx : Thread(i))

Spec == Init /\ [][Next]_vars

-----------------------------------------------------------------------------
InState(s) == {i \in Idx : state[i] = s}

TypeOK ==
  /\ mtx \in Threads \cup {Nobody} /\ waiters \subseteq {Main}
  /\ state \in [Idx -> {"TS_ALIVE", "TS_TERMINATED", "TS_JOINED"}]
  /\ numLive \in 0..N /\ numUnjoined \in 0..N /\ idx \in 0..N
  /\ pc \in [Threads -> {"none", "work", "locked", "unlock", "signal", "returned",
                         "create", "loop", "test", "wait", "scan", "exited"}]

\* The counters agree with the table whenever main reads them: numUnjoined is
\* the number of "terminated threads that have not yet been joined", numLive
\* that of threads "still alive or terminated but not yet joined".
CountsAgree ==
  /\ mtx \notin Idx => numUnjoined = Cardinality(InState("TS_TERMINATED"))
  /\ pc[Main] # "create" => numLive = N - Cardinality(InState("TS_JOINED"))

\* When main terminates the process every thread has returned.
AllReturned == pc[Main] = "exited" => \A i \in Idx : pc[i] = "returned"
-----------------------------------------------------------------------------
(* The inductive invariant *)

ThreadStates == {"none", "work", "locked", "unlock", "signal", "returned"}
MainStates == {"create", "loop", "test", "wait", "scan", "exited"}

\* Where the threads and main are, and what the table says of them.
Positions ==
  /\ mtx \in Threads \cup {Nobody} /\ waiters \subseteq {Main}
  /\ state \in [Idx -> {"TS_ALIVE", "TS_TERMINATED", "TS_JOINED"}] /\ idx \in 0..N
  /\ pc \in [Threads -> ThreadStates \cup MainStates]
  /\ pc[Main] \in MainStates /\ \A i \in Idx : pc[i] \in ThreadStates
  /\ \A i \in Idx : pc[i] \in {"locked", "unlock"} => mtx = i
  /\ pc[Main] \in {"test", "scan"} => mtx = Main
  /\ pc[Main] = "create" => \A i \in Idx : i >= idx <=> pc[i] = "none"
  /\ \A i \in Idx : /\ state[i] = "TS_ALIVE" <=> pc[i] \in {"none", "work", "locked"}
                    /\ state[i] = "TS_JOINED" => pc[i] = "returned"

\* The counters, which are 0 and N before and after the threads are created.
Counters ==
  /\ numLive \in Int /\ numUnjoined \in Int
  /\ numUnjoined = Cardinality(InState("TS_TERMINATED"))
  /\ pc[Main] # "create" => numLive = N - Cardinality(InState("TS_JOINED"))
  /\ pc[Main] = "create" => numLive = 0 /\ InState("TS_JOINED") = {}
  /\ pc[Main] = "exited" => numLive <= 0

IInv == Positions /\ Counters
=============================================================================
