------------------------------- MODULE Sleeps -------------------------------
(***************************************************************************)
(* Programs of src/timers that measure time, one of which (kind) runs:     *)
(* t_nanosleep.c, t_clock_nanosleep.c (relative, and absolute with a third *)
(* argument), t_clock_nanosleep_abstime.c, which sleep again after a       *)
(* signal, and cpu_burner.c, cpu_multi_burner.c, cpu_multithread_burner.c, *)
(* which report the CPU time they consume.  Time is counted in ticks, NANO *)
(* of which are a second.                                                  *)
(***************************************************************************)
EXTENDS Naturals

CONSTANTS NANO,       \* nanoseconds in a second
          MaxSec,     \* bound: seconds on the command line
          MaxInt,     \* bound: signals
          MaxTicks,   \* bound: ticks of the clock, and of the CPU clock of a burner
          period      \* of the burners, in ticks

VARIABLES kind, pc,
          req,        \* the request: [sec, nsec]
          length,     \* the time asked for
          begin, now, \* CLOCK_REALTIME when the program has started, and now
          gap, total, \* time between an interrupted sleep and the next: the last, all
          ints,
          bpc, cpu, prev, loops, run,  \* the burners: where, CPU time, prev_step, nloops
          children

vars == <<kind, pc, req, length, begin, now, gap, total, ints, bpc, cpu, prev, loops, run, children>>

Absolute == {"t_clock_nanosleep_abs", "t_clock_nanosleep_abstime"}
Sleepers == {"t_nanosleep", "t_clock_nanosleep"} \cup Absolute
Burners == {"cpu_burner", "cpu_multi_burner", "cpu_multithread_burner"}
B == {1, 2}
Over == {"done", "failed"}
Ticks(t) == t.sec * NANO + t.nsec

\* nloops of cpu_multithread_burner is not initialized.
Init ==
  /\ kind \in Sleepers \cup Burners /\ pc = "start" /\ req = [sec |-> 0, nsec |-> 0] /\ length = 0
  /\ begin \in (IF kind \in Absolute THEN 0..NANO - 1 ELSE {0}) /\ now = begin
  /\ gap = 0 /\ total = 0 /\ ints = 0
  /\ bpc = [b \in B |-> "none"] /\ cpu = [b \in B |-> 0] /\ prev = cpu /\ run = cpu /\ children = 0
  /\ loops \in (IF kind = "cpu_multithread_burner" THEN [B -> {0, MaxTicks + 1}] ELSE {[b \in B |-> 0]})

sleep == <<req, length, begin, now, gap, total, ints>>
burn == <<bpc, cpu, prev, loops, run, children>>
P(k, from, to) == kind \in k /\ pc = from /\ pc' = to /\ UNCHANGED kind
-----------------------------------------------------------------------------
(* Sleeping *)

\* Mutant of Normalize: a carry of at most one second.
NormalizeOnce(t) == IF t.nsec >= NANO THEN [sec |-> t.sec + 1, nsec |-> t.nsec - NANO] ELSE t

Normalize(t) == [sec |-> t.sec + t.nsec \div NANO, nsec |-> t.nsec % NANO]

\* The command line; an absolute time starts from the current one, normalized.
Request(k) ==
  /\ P(k, "start", "call")
  /\ \E s \in 0..MaxSec, n \in 0..2 * NANO :
       /\ length' = s * NANO + n
       /\ req' = IF k \subseteq Absolute
                 THEN Normalize([sec |-> now \div NANO + s, nsec |-> (now % NANO) + n])
                 ELSE [sec |-> s, nsec |-> n]
  /\ UNCHANGED <<begin, now, gap, total, ints, burn>>

Left == IF kind \in Absolute THEN Ticks(req) > now ELSE Ticks(req) > 0

\* The call: EINVAL for nanoseconds that make a second or more.
Call(k) ==
  /\ P(k, "call", IF req.nsec >= NANO THEN "failed" ELSE "asleep")
  /\ UNCHANGED <<sleep, burn>>

\* Time passes: a relative request shrinks while the program sleeps; between two
\* sleeps the gap grows.
Tick ==
  /\ kind \in Sleepers /\ now < MaxTicks /\ now' = now + 1
  /\ \/ /\ pc = "asleep" /\ Left /\ UNCHANGED <<gap, total>>
        /\ LET r == Ticks(req) - 1 IN
           req' = IF kind \in Absolute THEN req ELSE [sec |-> r \div NANO, nsec |-> r % NANO]
     \/ pc = "call" /\ ints > 0 /\ gap' = gap + 1 /\ total' = total + 1 /\ UNCHANGED req
  /\ UNCHANGED <<kind, pc, length, begin, ints, burn>>

\* SIGINT: the remaining time becomes the request, or the request stays as it is.
Interrupted ==
  /\ P(Sleepers, "asleep", "call") /\ Left /\ ints < MaxInt /\ ints' = ints + 1 /\ gap' = 0
  /\ UNCHANGED <<req, length, begin, now, total, burn>>

Complete(k) == ~Left /\ P(k, "asleep", "done") /\ UNCHANGED <<sleep, burn>>

TNanosleep == LET k == {"t_nanosleep"} IN Request(k) \/ Call(k) \/ Complete(k)
TClockNanosleep ==
  \E k \in {{"t_clock_nanosleep"}, {"t_clock_nanosleep_abs"}} : Request(k) \/ Call(k) \/ Complete(k)
TClockNanosleepAbstime == LET k == {"t_clock_nanosleep_abstime"} IN Request(k) \/ Call(k) \/ Complete(k)
-----------------------------------------------------------------------------
(* Burning CPU time *)

\* One turn of the loop of b, which may take more than a period.
Turn(b) ==
  /\ bpc[b] = "burn" /\ \E d \in 1..period + 1 : cpu[b] + d <= MaxTicks /\ cpu' = [cpu EXCEPT ![b] = @ + d]
  /\ loops' = [loops EXCEPT ![b] = @ + 1] /\ run' = [run EXCEPT ![b] = @ + 1]
  /\ bpc' = [bpc EXCEPT ![b] = "report"] /\ UNCHANGED <<kind, pc, sleep, prev, children>>

\* if (curr_step > prev_step) ...
Report(b) ==
  /\ bpc[b] = "report" /\ bpc' = [bpc EXCEPT ![b] = "burn"]
  /\ IF cpu[b] \div period > prev[b]
     THEN /\ prev' = [prev EXCEPT ![b] = cpu[b] \div period]
          /\ loops' = [loops EXCEPT ![b] = 0] /\ run' = [run EXCEPT ![b] = 0]
     ELSE UNCHANGED <<prev, loops, run>>
  /\ UNCHANGED <<kind, pc, sleep, cpu, children>>

BurnCPU(b) == kind = "cpu_multi_burner" /\ (Turn(b) \/ Report(b))
ThreadFunc(b) == kind = "cpu_multithread_burner" /\ pc \notin Over /\ (Turn(b) \/ Report(b))

\* fork() or pthread_create() for the next argument; then pause().  The children of
\* a parent that fails go on, the threads do not.
Start(k) ==
  /\ \/ /\ children < 2 /\ P(k, "start", "start") /\ children' = children + 1
        /\ bpc' = [bpc EXCEPT ![children + 1] = "burn"]
     \/ children < 2 /\ P(k, "start", "failed") /\ UNCHANGED <<children, bpc>>
     \/ children = 2 /\ P(k, "start", "pause") /\ UNCHANGED <<children, bpc>>
  /\ UNCHANGED <<sleep, cpu, prev, loops, run>>

CpuMultiBurner == Start({"cpu_multi_burner"})
CpuMultithreadBurner == Start({"cpu_multithread_burner"})

\* cpu_burner: the loop ends after a signal (ints), at its next test.
CpuBurner ==
  /\ kind = "cpu_burner"
  /\ \/ P({kind}, "start", "loop") /\ bpc' = [bpc EXCEPT ![1] = "burn"] /\ UNCHANGED <<sleep, cpu, prev, loops, run, children>>
     \/ pc = "loop" /\ ((ints = 0 /\ Turn(1)) \/ Report(1))
     \/ bpc[1] = "burn" /\ ints > 0 /\ P({kind}, "loop", "done") /\ UNCHANGED <<sleep, burn>>

Signal == kind = "cpu_burner" /\ pc = "loop" /\ ints = 0 /\ ints' = 1 /\ UNCHANGED <<kind, pc, req, length, begin, now, gap, total, burn>>
-----------------------------------------------------------------------------
Main == TNanosleep \/ TClockNanosleep \/ TClockNanosleepAbstime \/ CpuBurner \/ CpuMultiBurner \/ CpuMultithreadBurner

Next == Main \/ Tick \/ Interrupted \/ Signal \/ \E b \in B : BurnCPU(b) \/ ThreadFunc(b)

Spec == Init /\ [][Next]_vars
-----------------------------------------------------------------------------
\* The values of the variables.
TypeOK == begin <= now /\ gap <= total /\ ints \in 0..MaxInt /\ children \in 0..2

\* "We use TIMER_ABSTIME to avoid the 'creeping sleep' problem": however often it is
\* interrupted, an absolute sleep ends as late as its last restart at worst, and never
\* early; a relative one is late by the sum of all the times between two sleeps.  No
\* absolute time is refused for its nanoseconds, whatever has to be carried.
NoCreep ==
  /\ kind \in Absolute /\ pc = "done" => now - begin >= length /\ now - begin <= length + gap
  /\ kind \in Sleepers \ Absolute /\ pc = "done" => now - begin = length + total
  /\ kind \in Absolute => pc # "failed"

\* The reports keep up with the CPU clock even if a turn takes several periods, and
\* after the first report nloops is what was run since the last one.
ReportsCurrent ==
  \A b \in B : kind \in Burners /\ bpc[b] = "burn" =>
    /\ prev[b] * period <= cpu[b] /\ cpu[b] < (prev[b] + 1) * period
    /\ prev[b] > 0 => loops[b] = run[b]
=============================================================================
