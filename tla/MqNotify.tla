------------------------------ MODULE MqNotify ------------------------------
(***************************************************************************)
(* src/pmsg: programs that wait for messages on a POSIX message queue with *)
(* mq_notify(): by a signal (mq_notify_sig.c, mq_notify_sigwaitinfo.c,     *)
(* mq_notify_via_signal.c) or in a new thread (mq_notify_thread.c,         *)
(* mq_notify_via_thread.c).  The kernel notifies once, of a message that   *)
(* arrives on an empty queue, and forgets the registration.                *)
(***************************************************************************)
EXTENDS Naturals

CONSTANTS QMax,        \* mq_maxmsg
          Threads      \* bounds how many notification threads are there at a time

VARIABLES kind, pc, q, registered,
          signal,      \* the notification signal is pending
          gotSig,      \* of mq_notify_via_signal
          starting,    \* notifications for which no thread has been created yet
          tpc,
          early        \* messages were there before the program first registered

vars == <<kind, pc, q, registered, signal, gotSig, starting, tpc, early>>

ByThread == kind \in {"thread", "via_thread"}

Init ==
  /\ kind \in {"sig", "sigwaitinfo", "via_signal", "thread", "via_thread"}
  /\ pc = "open" /\ q \in 0..QMax /\ registered = FALSE /\ signal = FALSE /\ gotSig = TRUE
  /\ starting = 0 /\ tpc = [t \in Threads |-> "none"] /\ early = FALSE

\* mq_send() of pmsg_send.c: a notification if it is due.
Send ==
  /\ q < QMax /\ q' = q + 1
  /\ LET notify == q = 0 /\ registered IN
     /\ registered' = (registered /\ ~notify)
     /\ signal' = (signal \/ (notify /\ ~ByThread))
     /\ starting' = IF notify /\ ByThread THEN starting + 1 ELSE starting
  /\ UNCHANGED <<kind, pc, gotSig, tpc, early>>

\* mq_notify(): EBUSY if there is a registration.
Register(to, failed) ==
  IF registered THEN failed /\ UNCHANGED registered ELSE to /\ registered' = TRUE

\* One mq_receive() of the loop that empties the queue, or EAGAIN.
Drain(more, empty) == IF q > 0 THEN q' = q - 1 /\ more ELSE q' = q /\ empty

PcGoto(to) == pc' = to
-----------------------------------------------------------------------------
(* Notification by a signal *)

\* main() up to the first mq_notify(): the signal is blocked and the handler set.
SigSetup ==
  /\ kind \in {"sig", "sigwaitinfo"} /\ pc = "open"
  /\ Register(PcGoto("wait"), PcGoto("failed")) /\ early' = (q > 0)
  /\ UNCHANGED <<kind, q, signal, gotSig, starting, tpc>>

\* sigsuspend() or sigwaitinfo()
SigWait ==
  /\ kind \in {"sig", "sigwaitinfo"} /\ pc = "wait" /\ signal
  /\ signal' = FALSE /\ PcGoto("register")
  /\ UNCHANGED <<kind, q, registered, gotSig, starting, tpc, early>>

\* Mutant of SigRegister: the queue is emptied before the registration.
SigRegisterLate ==
  /\ kind \in {"sig", "sigwaitinfo"}
  /\ \/ pc = "register" /\ Drain(PcGoto("register"), PcGoto("empty")) /\ UNCHANGED registered
     \/ pc = "empty" /\ Register(PcGoto("wait"), PcGoto("failed")) /\ UNCHANGED q
  /\ UNCHANGED <<kind, signal, gotSig, starting, tpc, early>>

SigRegister ==
  /\ kind \in {"sig", "sigwaitinfo"} /\ pc = "register"
  /\ Register(PcGoto("drain"), PcGoto("failed"))
  /\ UNCHANGED <<kind, q, signal, gotSig, starting, tpc, early>>

SigDrain ==
  /\ kind \in {"sig", "sigwaitinfo"} /\ pc = "drain"
  /\ Drain(PcGoto("drain"), PcGoto("wait"))
  /\ UNCHANGED <<kind, registered, signal, gotSig, starting, tpc, early>>

\* The main() of mq_notify_sigwaitinfo.
SigProgram == SigSetup \/ SigWait \/ SigRegister \/ SigDrain

\* mq_notify_via_signal: the signal is not blocked; its handler sets gotSig.
Handler ==
  /\ kind = "via_signal" /\ signal /\ signal' = FALSE /\ gotSig' = TRUE
  /\ UNCHANGED <<kind, pc, q, registered, starting, tpc, early>>

ViaSignal ==
  /\ kind = "via_signal"
  /\ \/ /\ pc \in {"open", "sleep"} /\ gotSig /\ gotSig' = FALSE /\ PcGoto("register") /\ UNCHANGED <<q, registered>>
     \/ /\ pc = "register" /\ Register(PcGoto("drain"), PcGoto("failed")) /\ UNCHANGED <<q, gotSig>>
     \/ /\ pc = "drain" /\ Drain(PcGoto("drain"), PcGoto("sleep")) /\ UNCHANGED <<registered, gotSig>>
  /\ UNCHANGED <<kind, signal, starting, tpc, early>>
-----------------------------------------------------------------------------
(* Notification by a thread *)

\* main(): notifySetup(), and in mq_notify_via_thread drainQueue(); pause().
ThreadMain ==
  /\ ByThread
  /\ \/ /\ pc = "open" /\ early' = (q > 0) /\ UNCHANGED q
        /\ Register(PcGoto(IF kind = "thread" THEN "pause" ELSE "drain"), PcGoto("failed"))
     \/ /\ pc = "drain" /\ Drain(PcGoto("drain"), PcGoto("pause")) /\ UNCHANGED <<early, registered>>
  /\ UNCHANGED <<kind, signal, gotSig, starting, tpc>>

StartThread(t) ==
  /\ starting > 0 /\ tpc[t] = "none"
  /\ starting' = starting - 1 /\ tpc' = [tpc EXCEPT ![t] = "register"]
  /\ UNCHANGED <<kind, pc, q, registered, signal, gotSig, early>>

TGoto(t, to) == tpc' = [tpc EXCEPT ![t] = to]

\* threadFunc(): notifySetup(), then the messages; errExit() ends the process.
ThreadFunc(t) ==
  /\ \/ /\ tpc[t] = "register" /\ UNCHANGED q
        /\ Register(TGoto(t, "drain") /\ UNCHANGED pc, PcGoto("failed") /\ UNCHANGED tpc)
     \/ /\ tpc[t] = "drain" /\ Drain(UNCHANGED tpc, TGoto(t, "none")) /\ UNCHANGED <<registered, pc>>
  /\ UNCHANGED <<kind, signal, gotSig, starting, early>>

Main == SigProgram \/ ViaSignal \/ ThreadMain
Program == Main \/ Handler \/ \E t \in Threads : StartThread(t) \/ ThreadFunc(t)

Next == pc # "failed" /\ (Send \/ Program)

-----------------------------------------------------------------------------
\* Who has the right, or the duty, to register next, if there is no registration.
MainWill == pc \in {"open", "register"}
FlagSet == kind = "via_signal" /\ gotSig /\ pc # "open"
ThreadWill == \E t \in Threads : tpc[t] = "register"

\* There is exactly one of them or a registration: the kernel forgets it when it
\* notifies, and only who was notified registers again.
OneOfThem ==
  /\ registered \/ MainWill \/ signal \/ FlagSet \/ starting = 1 \/ ThreadWill
  /\ registered => ~(MainWill \/ signal \/ FlagSet \/ starting = 1 \/ ThreadWill)
  /\ MainWill => ~(signal \/ FlagSet \/ starting = 1 \/ ThreadWill)
  /\ signal => ~(FlagSet \/ starting = 1 \/ ThreadWill)
  /\ FlagSet => ~(starting = 1 \/ ThreadWill)
  /\ starting = 1 => ~ThreadWill
  /\ \A t, u \in Threads : tpc[t] = "register" /\ tpc[u] = "register" => t = u

\* The values of the variables: a registration, or one who is to make it, but not both.
TypeOK == q \in 0..QMax /\ starting \in 0..1 /\ OneOfThem

\* mq_notify() never returns EBUSY, which would end the program.
NeverBusy == pc # "failed"

\* No message is forgotten: while one is queued, a notification is on its way or
\* somebody is still going to call mq_receive().  "This program does not handle the
\* case where a message already exists on the queue by the time the first attempt
\* is made to register" excepts mq_notify_sig, mq_notify_sigwaitinfo and
\* mq_notify_thread, not the two others.
NoMessageForgotten ==
  q > 0 =>
    \/ pc \in {"open", "register", "drain"} \/ signal \/ (kind = "via_signal" /\ gotSig)
    \/ starting > 0 \/ \E t \in Threads : tpc[t] # "none"
    \/ early /\ kind \in {"sig", "sigwaitinfo", "thread"}
-----------------------------------------------------------------------------
Assumption == QMax \in Nat

IInv ==
  /\ kind \in {"sig", "sigwaitinfo", "via_signal", "thread", "via_thread"}
  /\ pc \in {"open", "wait", "register", "drain", "sleep", "pause"}
  /\ q \in 0..QMax /\ starting \in 0..1
  /\ registered \in BOOLEAN /\ signal \in BOOLEAN /\ gotSig \in BOOLEAN
  /\ tpc \in [Threads -> {"none", "register", "drain"}]
  /\ ByThread => pc \in {"open", "drain", "pause"} /\ ~signal
  /\ ~ByThread => starting = 0 /\ \A t \in Threads : tpc[t] = "none"
  /\ kind = "via_signal" /\ pc = "open" => gotSig
  /\ OneOfThem
  /\ NoMessageForgotten
=============================================================================
