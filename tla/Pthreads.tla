------------------------------ MODULE Pthreads ------------------------------
(***************************************************************************)
(* The part of the POSIX threads API the programs in src/threads use: one  *)
(* mutex and one condition variable.  The library is external; these       *)
(* actions say what its callers rely on.                                   *)
(***************************************************************************)
EXTENDS FiniteSets

CONSTANT Nobody      \* the value of mtx when the mutex is unlocked

VARIABLES mtx,       \* the thread that holds the mutex, or Nobody
          waiters    \* threads blocked inside pthread_cond_wait

\* pthread_mutex_lock by thread t: blocks until the mutex is free.
MutexLock(t) == mtx = Nobody /\ mtx' = t

\* pthread_mutex_unlock by thread t.
MutexUnlock(t) == mtx = t /\ mtx' = Nobody

\* pthread_cond_wait, first half: the mutex is released and t starts to wait
\* in one atomic step.
CondWait(t) ==
  /\ mtx = t
  /\ mtx' = Nobody
  /\ waiters' = waiters \cup {t}

\* pthread_cond_wait, second half: t was woken and has the mutex again.
CondReturn(t) ==
  /\ t \notin waiters
  /\ MutexLock(t)

\* pthread_cond_signal: wakes one of the waiters, if there are any.
CondSignal ==
  \/ waiters = {} /\ UNCHANGED waiters
  \/ \E w \in waiters : waiters' = waiters \ {w}

\* pthread_cond_broadcast: wakes every waiter.
CondBroadcast == waiters' = {}

\* POSIX allows a waiter to be woken without a signal.
SpuriousWakeup(t) == t \in waiters /\ waiters' = waiters \ {t}
=============================================================================
