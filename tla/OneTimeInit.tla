---------------------------- MODULE OneTimeInit -----------------------------
(***************************************************************************)
(* src/threads/one_time_init.c: pthread_once() built from a mutex and a    *)
(* flag.  Each thread calls one_time_init() a number of times; init() is   *)
(* not atomic.                                                             *)
(***************************************************************************)
EXTENDS Naturals, Pthreads

CONSTANTS Threads, Calls

VARIABLES called,     \* once_control->called
          calls,      \* thread -> calls that have returned
          pc,         \* thread -> where it is
          begun, ended   \* how often init() was entered and left

vars == <<mtx, waiters, called, calls, pc, begun, ended>>

Goto(t, to) == pc' = [pc EXCEPT ![t] = to]

Init ==
  /\ mtx = Nobody /\ waiters = {} /\ called = FALSE
  /\ calls = [t \in Threads |-> 0] /\ pc = [t \in Threads |-> "call"]
  /\ begun = 0 /\ ended = 0

\* Mutant of Lock: the flag is tested first, and the mutex taken only to set it.
LockAfterTest(t) ==
  /\ pc[t] = "call" /\ calls[t] < Calls
  /\ IF begun > 0
     THEN Goto(t, "call") /\ calls' = [calls EXCEPT ![t] = @ + 1] /\ UNCHANGED mtx
     ELSE MutexLock(t) /\ Goto(t, "test") /\ UNCHANGED calls
  /\ UNCHANGED <<waiters, called, begun, ended>>

Lock(t) ==
  /\ pc[t] = "call" /\ calls[t] < Calls
  /\ MutexLock(t) /\ Goto(t, "test")
  /\ UNCHANGED <<waiters, called, calls, begun, ended>>

Test(t) ==
  /\ pc[t] = "test"
  /\ IF called THEN Goto(t, "unlock") /\ UNCHANGED begun
               ELSE Goto(t, "init") /\ begun' = begun + 1
  /\ UNCHANGED <<mtx, waiters, called, calls, ended>>

InitFunc(t) ==
  /\ pc[t] = "init" /\ ended' = ended + 1 /\ Goto(t, "set")
  /\ UNCHANGED <<mtx, waiters, called, calls, begun>>

SetCalled(t) ==
  /\ pc[t] = "set" /\ called' = TRUE /\ Goto(t, "unlock")
  /\ UNCHANGED <<mtx, waiters, calls, begun, ended>>

Unlock(t) ==
  /\ pc[t] = "unlock"
  /\ MutexUnlock(t) /\ Goto(t, "call") /\ calls' = [calls EXCEPT ![t] = @ + 1]
  /\ UNCHANGED <<waiters, called, begun, ended>>

Step(t) == Lock(t) \/ Test(t) \/ InitFunc(t) \/ SetCalled(t) \/ Unlock(t)
Next == \E t \in Threads : Step(t)
Spec == Init /\ [][Next]_vars

-----------------------------------------------------------------------------
TypeOK ==
  /\ mtx \in Threads \cup {Nobody} /\ called \in BOOLEAN
  /\ calls \in [Threads -> 0..Calls]
  /\ pc \in [Threads -> {"call", "test", "init", "set", "unlock"}]
  /\ begun \in 0..1 /\ ended \in 0..begun

\* What pthread_once() promises: init() runs once in all, and no caller comes
\* back before it has ended, not even one that did not run it.
Once == begun <= 1 /\ \A t \in Threads : calls[t] > 0 => ended = 1
-----------------------------------------------------------------------------
(* The inductive invariant *)

\* The thread that holds the mutex is the one that is inside one_time_init(),
\* and the flag says that init() has ended, which nobody has begun otherwise
\* but that thread.
IInv ==
  /\ TypeOK
  /\ \A t \in Threads : (pc[t] # "call" <=> mtx = t) /\ (pc[t] # "call" => calls[t] < Calls)
  /\ \A t \in Threads : /\ pc[t] = "init" => begun = 1 /\ ended = 0 /\ ~called
                        /\ pc[t] = "set" => begun = 1 /\ ended = 1 /\ ~called
                        /\ pc[t] = "unlock" => called
                        /\ calls[t] > 0 => called
  /\ called => begun = 1 /\ ended = 1
  /\ begun = 1 => called \/ \E t \in Threads : pc[t] \in {"init", "set"}
=============================================================================
