------------------------------- MODULE Timers -------------------------------
(***************************************************************************)
(* The programs of src/timers, one of which (kind) runs: real_timer.c;     *)
(* ptmr_sigev_signal.c, ptmr_simple_sigev_signal.c, ptmr_null_evp.c;       *)
(* ptmr_sigev_thread.c, ptmr_simple_sigev_thread.c; demo_timerfd.c,        *)
(* timerfd_simple.c; timed_read.c (with and without the restart flag),     *)
(* simple_timed_read.c.  A timer expires at any time while it is armed,    *)
(* once or (interval) again and again; an expiration that finds the        *)
(* previous notification undelivered is an overrun.                        *)
(***************************************************************************)
EXTENDS Naturals

CONSTANTS MaxDue,      \* bound: expirations of a timer
          maxExp,      \* max-exp of demo_timerfd, num-expire of ptmr_simple_sigev_thread
          maxSigs      \* of real_timer with an interval

VARIABLES kind, pc, interval,
          armed,       \* timers that are running
          due,         \* expirations of each timer so far
          pend, over,  \* notification pending, expirations since
          last,        \* what timer_getoverrun() returns
          cnt,         \* expirations of each timer the program has counted
          flag,        \* gotAlarm; the alarm came before read(); main() has something to print
          hand,        \* the timer whose signal handler runs, or 0
          mtx,         \* of the SIGEV_THREAD programs: holder of the mutex
          thr,         \* and the notification threads
          overlap      \* a timer's notification came before the last one had been counted

vars == <<kind, pc, interval, armed, due, pend, over, last, cnt, flag, hand, mtx, thr, overlap>>

ByHandler == {"ptmr_sigev_signal", "ptmr_simple_sigev_signal", "ptmr_null_evp"}
ByThread == {"ptmr_sigev_thread", "ptmr_simple_sigev_thread"}
Timerfds == {"demo_timerfd", "timerfd_simple"}
Reads == {"timed_read", "timed_read_restart", "simple_timed_read"}
Kinds == {"real_timer"} \cup ByHandler \cup ByThread \cup Timerfds \cup Reads

Ids == {1, 2}
Used == IF kind \in {"ptmr_sigev_signal", "ptmr_sigev_thread"} THEN Ids ELSE {1}
Slots == {"n1", "n2"}            \* bound: notification threads at a time
Idle == [at |-> "none", id |-> 1]
Over == {"done", "failed"}

Init ==
  /\ kind \in Kinds /\ interval \in BOOLEAN /\ (kind \in Reads => ~interval)
  /\ pc = "start" /\ armed = {} /\ pend = {} /\ flag = FALSE /\ hand = 0 /\ overlap = FALSE
  /\ due = [i \in Ids |-> 0] /\ over = due /\ last = due /\ cnt = due
  /\ mtx = "nobody" /\ thr = [s \in Slots |-> Idle]

clock == <<armed, due, pend, over, last>>
threads == <<mtx, thr, overlap>>
Unread(i) == IF i \in pend THEN 1 + over[i] ELSE 0
-----------------------------------------------------------------------------
(* The kernel *)

\* The bound on expirations does not hold for real_timer, which counts signals.
Expire(i) ==
  /\ i \in armed /\ pc \notin Over /\ due[i] < (IF interval THEN MaxDue ELSE 1)
  /\ due' = [due EXCEPT ![i] = IF kind = "real_timer" /\ interval THEN @ ELSE @ + 1]
  /\ pend' = pend \cup {i}
  /\ over' = [over EXCEPT ![i] = IF i \in pend /\ kind # "real_timer" THEN @ + 1 ELSE 0]
  /\ UNCHANGED <<kind, pc, interval, armed, last, cnt, flag, hand, threads>>

\* A notification is taken: timer_getoverrun() tells its overruns from now on.
Taken(i) ==
  /\ i \in pend /\ pc \notin Over /\ pend' = pend \ {i}
  /\ last' = [last EXCEPT ![i] = over[i]] /\ over' = [over EXCEPT ![i] = 0]
  /\ UNCHANGED <<kind, interval, armed, due>>

P(k, from, to) == kind \in k /\ pc = from /\ pc' = to /\ UNCHANGED <<kind, interval>>

\* timer_create() and timer_settime() (setitimer(), alarm(), timerfd_*()) of the
\* next timer.  A value of zero does not arm it.
Arm(k, from, to) ==
  /\ \/ P(k, from, "failed") /\ UNCHANGED armed
     \/ P(k, from, to) /\ armed' \in {armed, armed \cup {IF from = "next" THEN 2 ELSE 1}}
  /\ UNCHANGED <<due, pend, over, last, cnt, flag, hand, threads>>
-----------------------------------------------------------------------------
(* real_timer.c *)

SigalrmHandler ==
  kind = "real_timer" /\ Taken(1) /\ flag' = TRUE /\ UNCHANGED <<pc, cnt, hand, threads>>

\* main(): it ends after three alarms it has seen, or one if there is no interval.
RealTimer ==
  \/ Arm({"real_timer"}, "start", "loop")
  \/ flag /\ P({"real_timer"}, "loop", "got") /\ flag' = FALSE /\ UNCHANGED <<clock, cnt, hand, threads>>
  \/ /\ P({"real_timer"}, "got", IF cnt[1] + 1 >= (IF interval THEN maxSigs ELSE 1) THEN "done" ELSE "loop")
     /\ cnt' = [cnt EXCEPT ![1] = @ + 1] /\ UNCHANGED <<clock, flag, hand, threads>>
-----------------------------------------------------------------------------
(* SIGEV_SIGNAL: the signal is blocked while its handler runs *)

\* Mutant of Handler: the overruns are not added.
HandlerCountsOne ==
  \/ \E i \in Ids : kind \in ByHandler /\ hand = 0 /\ Taken(i) /\ hand' = i /\ UNCHANGED <<pc, cnt, flag, threads>>
  \/ /\ hand # 0 /\ pc \notin Over /\ hand' = 0 /\ cnt' = [cnt EXCEPT ![hand] = @ + 1]
     /\ UNCHANGED <<kind, pc, interval, clock, flag, threads>>

Handler ==
  \/ \E i \in Ids : kind \in ByHandler /\ hand = 0 /\ Taken(i) /\ hand' = i /\ UNCHANGED <<pc, cnt, flag, threads>>
  \/ /\ hand # 0 /\ pc \notin Over /\ hand' = 0 /\ cnt' = [cnt EXCEPT ![hand] = @ + 1 + last[hand]]
     /\ UNCHANGED <<kind, pc, interval, clock, flag, threads>>

PtmrSigevSignal == Arm({"ptmr_sigev_signal"}, "start", "next") \/ Arm({"ptmr_sigev_signal"}, "next", "pause")
PtmrSimpleSigevSignal == Arm({"ptmr_simple_sigev_signal"}, "start", "pause")
PtmrNullEvp == Arm({"ptmr_null_evp"}, "start", "pause")
-----------------------------------------------------------------------------
(* SIGEV_THREAD: the C library starts a thread for each notification *)

Uncounted(i) == {s \in Slots : thr[s].id = i /\ thr[s].at \in {"lock", "add"}}

Notify(s, i) ==
  /\ kind \in ByThread /\ thr[s].at = "none" /\ Taken(i)
  /\ thr' = [thr EXCEPT ![s] = [at |-> "lock", id |-> i]]
  /\ overlap' = (overlap \/ Uncounted(i) # {})
  /\ UNCHANGED <<pc, cnt, flag, hand, mtx>>

\* A step of the thread in slot s, while the program runs, from one statement of threadFunc() to the next.
ThreadStep(s, from, to) == pc \notin Over /\ thr[s].at = from /\ thr' = [thr EXCEPT ![s].at = to] /\ UNCHANGED <<kind, interval, clock, hand, overlap>>

\* threadFunc(): count under the mutex, unlock, then signal.
ThreadFunc(s) ==
  \/ mtx = "nobody" /\ ThreadStep(s, "lock", "add") /\ mtx' = s /\ UNCHANGED <<pc, cnt, flag>>
  \/ /\ ThreadStep(s, "add", "unlock") /\ cnt' = [cnt EXCEPT ![thr[s].id] = @ + 1 + last[thr[s].id]]
     /\ flag' = (flag \/ pc \in {"wait", "woken"}) /\ UNCHANGED <<pc, mtx>>
  \/ ThreadStep(s, "unlock", "signal") /\ mtx' = "nobody" /\ UNCHANGED <<pc, cnt, flag>>
  \/ ThreadStep(s, "signal", "none") /\ pc' = (IF pc = "wait" THEN "woken" ELSE pc) /\ UNCHANGED <<cnt, flag, mtx>>

\* pthread_cond_wait() and the printf() after it, with the mutex; to is what follows.
WaitAndPrint(k, to) ==
  \/ mtx = "nobody" /\ P(k, "lock", to) /\ mtx' = "main" /\ UNCHANGED <<clock, cnt, flag, hand, thr, overlap>>
  \/ P(k, "call", "wait") /\ mtx' = "nobody" /\ UNCHANGED <<clock, cnt, flag, hand, thr, overlap>>
  \/ mtx = "nobody" /\ P(k, "woken", "print") /\ mtx' = "main" /\ UNCHANGED <<clock, cnt, flag, hand, thr, overlap>>
  \/ P(k, "print", to) /\ flag' = FALSE /\ UNCHANGED <<clock, cnt, hand, threads>>

Spurious == P(ByThread, "wait", "woken") /\ UNCHANGED <<clock, cnt, flag, hand, threads>>

\* main() waits without a test: a signal sent before its first wait is lost.
PtmrSigevThread ==
  \/ Arm({"ptmr_sigev_thread"}, "start", "next") \/ Arm({"ptmr_sigev_thread"}, "next", "lock")
  \/ WaitAndPrint({"ptmr_sigev_thread"}, "call")

PtmrSimpleSigevThread ==
  \/ Arm({"ptmr_simple_sigev_thread"}, "start", "lock")
  \/ WaitAndPrint({"ptmr_simple_sigev_thread"}, "test")
  \/ /\ P({"ptmr_simple_sigev_thread"}, "test", IF cnt[1] < maxExp THEN "call" ELSE "done")
     /\ UNCHANGED <<clock, cnt, flag, hand, threads>>
-----------------------------------------------------------------------------
(* timerfd: read() blocks until there is an expiration and returns all of them *)

Timerfd(k, from, to) ==
  /\ P(k, from, to) /\ 1 \in pend /\ cnt' = [cnt EXCEPT ![1] = @ + Unread(1)]
  /\ pend' = {} /\ over' = [over EXCEPT ![1] = 0] /\ UNCHANGED <<armed, due, last, flag, hand, threads>>

DemoTimerfd ==
  \/ Arm({"demo_timerfd"}, "start", "read")
  \/ Timerfd({"demo_timerfd"}, "read", IF cnt[1] + Unread(1) < maxExp THEN "read" ELSE "done")

\* The user presses a key before each read().
TimerfdSimple ==
  \/ Arm({"timerfd_simple"}, "start", "key")
  \/ P({"timerfd_simple"}, "key", "read") /\ UNCHANGED <<clock, cnt, flag, hand, threads>>
  \/ Timerfd({"timerfd_simple"}, "read", "key")
-----------------------------------------------------------------------------
(* A timeout on read() *)

\* handler(): a blocked read() fails with EINTR, unless it is restarted.
AlarmHandler ==
  /\ kind \in Reads /\ Taken(1) /\ flag' = (flag \/ pc = "calling")
  /\ pc' = (IF pc = "read" /\ kind # "timed_read_restart" THEN "timed_out" ELSE pc)
  /\ UNCHANGED <<cnt, hand, threads>>

\* Input arrives, or it never does.
Input(k) == P(k, "read", "success") /\ UNCHANGED <<clock, cnt, flag, hand, threads>>

\* alarm(0), then the report, "success" or "timed_out" (cnt[1] = 1).
AlarmOff(k) ==
  /\ P(k, pc, "done") /\ pc \in {"success", "timed_out"} /\ armed' = {}
  /\ cnt' = [cnt EXCEPT ![1] = IF pc = "timed_out" THEN 1 ELSE 0]
  /\ UNCHANGED <<due, pend, over, last, flag, hand, threads>>

ReadCall(k) == P(k, "calling", "read") /\ UNCHANGED <<clock, cnt, flag, hand, threads>>

SimpleTimedRead ==
  LET k == {"simple_timed_read"} IN Arm(k, "start", "calling") \/ ReadCall(k) \/ AlarmOff(k)

TimedRead ==
  LET k == {"timed_read", "timed_read_restart"} IN Arm(k, "start", "calling") \/ ReadCall(k) \/ AlarmOff(k)
-----------------------------------------------------------------------------
Main ==
  \/ RealTimer \/ PtmrSigevSignal \/ PtmrSimpleSigevSignal \/ PtmrNullEvp \/ PtmrSigevThread
  \/ PtmrSimpleSigevThread \/ DemoTimerfd \/ TimerfdSimple \/ SimpleTimedRead \/ TimedRead

Delivery == SigalrmHandler \/ Handler \/ AlarmHandler \/ \E s \in Slots, i \in Ids : Notify(s, i)

Next == Main \/ Delivery \/ Spurious \/ Input(Reads) \/ (\E s \in Slots : ThreadFunc(s)) \/ \E i \in Ids : Expire(i)

Spec == Init /\ [][Next]_vars
-----------------------------------------------------------------------------
\* The values of the variables: nothing expires before it is armed.
TypeOK ==
  /\ armed \subseteq Used /\ pend \subseteq (IF kind \in Reads THEN {1} ELSE armed)
  /\ mtx \in Slots \cup {"main", "nobody"} /\ hand \in 0..2

\* Expirations are counted once each: what the handler or the reader of the descriptor
\* has counted, with the overruns, and what is still to be notified make up what
\* expired.  The notification threads do as well as long as no two of one timer
\* overlap; timer_getoverrun() belongs to the last notification, not to the thread's.
ExpirationsCounted ==
  \A i \in Ids :
    /\ kind \in ByHandler => due[i] = cnt[i] + Unread(i) + (IF hand = i THEN 1 + last[i] ELSE 0)
    /\ kind \in Timerfds => due[i] = cnt[i] + Unread(i)
    /\ kind \in ByThread /\ ~overlap =>
         due[i] = cnt[i] + Unread(i) + (IF Uncounted(i) # {} THEN 1 + last[i] ELSE 0)

\* demo_timerfd and ptmr_simple_sigev_thread do not end before they have counted
\* enough; "Read timed out" is said just when the alarm came while read() blocked.
EndsRight ==
  /\ kind \in {"demo_timerfd", "ptmr_simple_sigev_thread"} /\ pc = "done" => cnt[1] >= maxExp
  /\ kind \in Reads /\ pc = "done" /\ cnt[1] = 1 => due[1] = 1 /\ ~flag /\ kind # "timed_read_restart"
=============================================================================
