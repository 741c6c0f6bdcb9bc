---------------------------- MODULE MCProcesses -----------------------------
(***************************************************************************)
(* Programs that create and supervise processes or wait for signals, one   *)
(* of which each behaviour runs: simple_init, with commands that leave     *)
(* processes behind and with commands that do not, userns_child_exec, and  *)
(* the programs of modules Signals, Timers, Sleeps, Children and Sessions. *)
(***************************************************************************)
EXTENDS Integers, Sequences, FiniteSets, TLAPS

CONSTANTS Procs, Me,
          UidMaps, GidMaps, NewUids, User, Unset,
          MaxSent, PipeSize,
          MaxDue, maxExp, maxSigs,
          NANO, MaxSec, MaxInt, MaxTicks, period,
          N, Bytes, BUF_SIZE, Capacity, Rounds, ArgvSize,
          MaxConf, MaxBytes

VARIABLES program,
          ipc, cur, state, fg, sigchld, inHandler, mounted,
          opts, uid, ppc, cpc, uidMap, gidMap, setgroups, writers, cuid, caps, inh, amb, secure,
          kind, pc,
          pending, rt, blocked, disp, flag, cnt, caught, pipe, input, read, sent,
          interval, armed, due, pend, over, last, count, gotAlarm, hand, mtx, thr, overlap,
          req, length, begin, now, gap, total, ints, bpc, cpu, prev, loops, run, children,
          kid, masked, sigpend, live, calls, env, status, changed, wr, rd, buf, back, left, out,
          tty, wish, saved, ours, ret, tdisp, tmask, tpend, hup, conf, asked, got, slept, session,
          eof, typed, toShell, fromShell, written, shown, script, shell, ready, fds, cfds, cpcPty,
          arg, member, orphaned

-----------------------------------------------------------------------------
(* The programs of module Sleeps *)

Nap == INSTANCE Sleeps

\* A second has nanoseconds, and a burner reports after some time.
ASSUME SleepsAssumption ==
  NANO \in Nat \ {0} /\ period \in Nat \ {0} /\ MaxInt \in Nat \ {0} /\ MaxTicks \in Nat

\* Division of naturals, as the timespec arithmetic of the sleepers uses it.
LEMMA DivMod ==
  ASSUME NEW a \in Nat, NEW b \in Nat \ {0}
  PROVE  a \div b \in Nat /\ a % b \in 0..b - 1 /\ (a \div b) * b + (a % b) = a
OBVIOUS

\* The quotient brackets the dividend between two multiples of the divisor.
LEMMA DivBounds ==
  ASSUME NEW a \in Nat, NEW b \in Nat \ {0}
  PROVE  a \div b \in Nat /\ (a \div b) * b <= a /\ a < ((a \div b) + 1) * b
BY DivMod

\* A notification moves 1 + o from the unread expirations to those being counted.
LEMMA Moved ==
  ASSUME NEW a \in Nat, NEW b \in Nat, NEW o \in Nat, a = b + (1 + o) + 0
  PROVE  a = b + 0 + (1 + o)
OBVIOUS

\* An index of a sequence that has grown by one is an old one or the last.
LEMMA LastOrBefore ==
  ASSUME NEW n \in Nat, NEW i \in 1..n + 1
  PROVE  i \in 1..n \/ i = n + 1
OBVIOUS

\* The index of an element of the tail, in the sequence.
LEMMA InTheTail ==
  ASSUME NEW n \in Nat, NEW i \in 1..n - 1
  PROVE  i + 1 \in 1..n
OBVIOUS

\* The request, the clock and the time asked for: a relative request shrinks with the clock
\* except between two sleeps; an absolute one stays, and the clock passes it only then.
NapSleep ==
  /\ kind \in Nap!Sleepers \cup Nap!Burners
  /\ req \in [sec : Nat, nsec : Nat] /\ {length, begin, now, gap, total} \subseteq Nat
  /\ ints \in 0..MaxInt /\ begin <= now /\ gap <= total
  /\ kind \in Nap!Sleepers =>
       /\ pc \in {"start", "call", "asleep", "done", "failed"}
       /\ pc = "start" => now = begin /\ gap = 0 /\ total = 0
       /\ pc = "done" => ~Nap!Left
  /\ kind \in Nap!Absolute /\ pc # "start" =>
       Nap!Ticks(req) = begin + length /\ req.nsec < NANO /\ pc # "failed" /\ now <= Nap!Ticks(req) + gap
  /\ kind \in Nap!Sleepers \ Nap!Absolute /\ pc # "start" => Nap!Ticks(req) + (now - begin) = length + total

\* A burner that has reported is in the period it has reported.
NapBurn ==
  /\ children \in 0..2 /\ bpc \in [Nap!B -> {"none", "burn", "report"}]
  /\ cpu \in [Nap!B -> Nat] /\ prev \in [Nap!B -> Nat] /\ loops \in [Nap!B -> Nat] /\ run \in [Nap!B -> Nat]
  /\ \A b \in Nap!B : /\ prev[b] * period <= cpu[b]
                      /\ bpc[b] # "report" => cpu[b] < (prev[b] + 1) * period
                      /\ prev[b] > 0 => loops[b] = run[b]
                      /\ bpc[b] = "none" => cpu[b] = 0
                      /\ IF kind = "cpu_burner" THEN pc = "start" => bpc[b] = "none"
                                                ELSE b > children => bpc[b] = "none"

\* The two halves of the inductive invariant imply the properties of the sleepers and the burners.
LEMMA NapHolds == NapSleep /\ NapBurn => Nap!TypeOK /\ Nap!NoCreep /\ Nap!ReportsCurrent
<1> SUFFICES ASSUME NapSleep, NapBurn
             PROVE  Nap!TypeOK /\ Nap!NoCreep /\ Nap!ReportsCurrent
  BY Zenon
<1>1. Nap!TypeOK
  BY Zenon DEF NapSleep, NapBurn, Nap!TypeOK
<1>2. Nap!ReportsCurrent
  BY Zenon DEF NapBurn, Nap!ReportsCurrent
<1>3. Nap!Ticks(req) \in Nat
  BY SleepsAssumption DEF NapSleep, Nap!Ticks
<1>4. Nap!NoCreep
  BY <1>3 DEF NapSleep, Nap!NoCreep, Nap!Left, Nap!Absolute, Nap!Sleepers
<1> QED
  BY <1>1, <1>2, <1>4, Zenon

\* Both halves hold when main() begins.
LEMMA NapInit == Nap!Init => NapSleep /\ NapBurn
<1> SUFFICES ASSUME Nap!Init
             PROVE  NapSleep /\ NapBurn
  BY Zenon
<1>1. begin \in Nat
  BY SleepsAssumption DEF Nap!Init
<1>2. NapSleep
  BY <1>1, SleepsAssumption DEF Nap!Init, NapSleep
<1>3. loops \in [Nap!B -> Nat]
  BY SleepsAssumption DEF Nap!Init
<1>4. NapBurn
  BY <1>3, SleepsAssumption DEF Nap!Init, NapBurn, Nap!B
<1> QED
  BY <1>2, <1>4, Zenon

\* The steps of the sleepers.
LEMMA NapRequest ==
  ASSUME NapSleep, NEW k \in {{x} : x \in Nap!Sleepers}, Nap!Request(k)
  PROVE  NapSleep'
<1> USE SleepsAssumption DEF Nap!P, Nap!Sleepers, Nap!Absolute, Nap!burn
<1>1. /\ kind \in k /\ kind' = kind /\ pc = "start" /\ pc' = "call"
      /\ UNCHANGED <<begin, now, gap, total, ints>>
  BY Zenon DEF Nap!Request
<1>2. PICK s \in 0..MaxSec, n \in 0..2 * NANO :
        /\ length' = s * NANO + n
        /\ req' = IF k \subseteq Nap!Absolute
                  THEN Nap!Normalize([sec |-> now \div NANO + s, nsec |-> (now % NANO) + n])
                  ELSE [sec |-> s, nsec |-> n]
  BY Zenon DEF Nap!Request
<1>3. now \in Nat /\ gap \in Nat /\ begin = now /\ gap = 0 /\ total = 0
  BY <1>1, Zenon DEF NapSleep
<1>4. s \in Nat /\ n \in Nat /\ s * NANO \in Nat /\ length' \in Nat
  BY <1>2
<1>5. CASE kind \in Nap!Absolute
  <2> DEFINE a == now \div NANO
             m == (now % NANO) + n
  <2>0. NANO \in Nat \ {0}
    BY Zenon
  <2>1. a \in Nat /\ m \in Nat /\ a * NANO + m = now + n
    <3>1. now \div NANO \in Nat /\ now % NANO \in 0..NANO - 1 /\ (now \div NANO) * NANO + (now % NANO) = now
      BY <1>3, <2>0, DivMod, Zenon
    <3> QED
      BY <1>4, <2>0, <3>1
  <2>2. m \div NANO \in Nat /\ m % NANO \in 0..NANO - 1 /\ (m \div NANO) * NANO + (m % NANO) = m
    BY <2>0, <2>1, DivMod, Zenon
  <2>3. req' = [sec |-> a + s + m \div NANO, nsec |-> m % NANO]
    BY <1>1, <1>2, <1>5, Zenon DEF Nap!Normalize
  <2> HIDE DEF a, m
  <2> DEFINE q == m \div NANO
             r == m % NANO
             aN == a * NANO
             sN == s * NANO
             qN == q * NANO
             all == (a + s + q) * NANO
  <2>4. all = aN + sN + qN /\ aN \in Nat /\ sN \in Nat /\ qN \in Nat
    BY <1>4, <2>0, <2>1, <2>2
  <2>5. aN + m = now + n /\ qN + r = m /\ length' = sN + n /\ r \in Nat /\ r < NANO /\ a + s + q \in Nat
    BY <1>2, <1>4, <2>0, <2>1, <2>2
  <2>6. all + r = begin + length'
    <3> HIDE DEF q, r, aN, sN, qN, all
    <3> QED
      BY <1>3, <1>4, <2>1, <2>4, <2>5
  <2>7. req' \in [sec : Nat, nsec : Nat] /\ req'.nsec < NANO /\ req'.sec * NANO + req'.nsec = begin + length'
    BY <2>3, <2>5, <2>6, Zenon
  <2> QED
    BY <1>1, <1>3, <1>4, <1>5, <2>7 DEF NapSleep, Nap!Ticks
<1>6. CASE kind \notin Nap!Absolute
  <2>1. req' = [sec |-> s, nsec |-> n]
    BY <1>1, <1>2, <1>6, Zenon
  <2> QED
    BY <1>1, <1>2, <1>3, <1>4, <1>6, <2>1 DEF NapSleep, Nap!Ticks
<1> QED
  BY <1>5, <1>6, Zenon

\* The clock moving on preserves the sleepers' half.
LEMMA NapTick ==
  ASSUME NapSleep, Nap!Tick
  PROVE  NapSleep'
<1> USE SleepsAssumption DEF Nap!Sleepers, Nap!Absolute
<1>1. /\ kind \in Nap!Sleepers /\ now' = now + 1 /\ UNCHANGED <<kind, pc, length, begin, ints>>
      /\ {now, begin, length, gap, total} \subseteq Nat /\ req \in [sec : Nat, nsec : Nat]
  BY Zenon DEF NapSleep, Nap!Tick
<1> DEFINE t == Nap!Ticks(req)
<1>2. t \in Nat
  BY <1>1 DEF Nap!Ticks
<1>3. CASE pc = "asleep" /\ Nap!Left /\ UNCHANGED <<gap, total>> /\ kind \in Nap!Absolute
  <2>1. UNCHANGED req /\ t > now
    BY <1>3, Zenon DEF Nap!Tick, Nap!Left
  <2>2. Nap!Ticks(req') = t
    BY <2>1, Zenon
  <2> HIDE DEF t
  <2> QED
    BY <1>1, <1>2, <1>3, <2>1, <2>2 DEF NapSleep, t
<1>4. CASE pc = "asleep" /\ Nap!Left /\ UNCHANGED <<gap, total>> /\ kind \notin Nap!Absolute
  <2>1. t > 0
    BY <1>4, Zenon DEF Nap!Left
  <2>2. req' = [sec |-> (t - 1) \div NANO, nsec |-> (t - 1) % NANO]
    BY <1>4, Zenon DEF Nap!Tick
  <2>3. t - 1 \in Nat /\ NANO \in Nat \ {0}
    BY <1>2, <2>1
  <2>4. /\ (t - 1) \div NANO \in Nat /\ (t - 1) % NANO \in Nat
        /\ ((t - 1) \div NANO) * NANO + ((t - 1) % NANO) = t - 1
    <3> HIDE DEF t
    <3> DEFINE r == t - 1
    <3> HIDE DEF r
    <3>1. r \in Nat /\ NANO \in Nat \ {0}
      BY <2>3, Zenon DEF r
    <3>2. r \div NANO \in Nat /\ r % NANO \in 0..NANO - 1 /\ (r \div NANO) * NANO + (r % NANO) = r
      BY <3>1, DivMod, Zenon
    <3> QED
      BY <3>1, <3>2 DEF r
  <2>5. req' \in [sec : Nat, nsec : Nat] /\ Nap!Ticks(req') = t - 1
    BY <2>2, <2>4, Zenon DEF Nap!Ticks
  <2> HIDE DEF t
  <2> QED
    BY <1>1, <1>2, <1>4, <2>5 DEF NapSleep, t
<1>5. CASE pc = "call" /\ gap' = gap + 1 /\ total' = total + 1 /\ UNCHANGED req
  <2>1. Nap!Ticks(req') = t
    BY <1>5, Zenon
  <2> HIDE DEF t
  <2> QED
    BY <1>1, <1>2, <1>5, <2>1 DEF NapSleep, t
<1> QED
  BY <1>3, <1>4, <1>5, Zenon DEF Nap!Tick

\* A call of nanosleep() or clock_nanosleep(), its interruption and its completion preserve the sleepers' half.
LEMMA NapSleeps ==
  ASSUME NapSleep, Nap!Interrupted \/ \E k \in {{x} : x \in Nap!Sleepers} : Nap!Call(k) \/ Nap!Complete(k)
  PROVE  NapSleep'
<1> USE SleepsAssumption DEF Nap!P, Nap!Sleepers, Nap!Absolute, Nap!sleep
<1>1. UNCHANGED <<kind, req, length, begin, now, total>>
  BY Zenon DEF Nap!Interrupted, Nap!Call, Nap!Complete
<1>2. Nap!Ticks(req') = Nap!Ticks(req) /\ Nap!Ticks(req) \in Nat /\ now \in Nat
  BY <1>1 DEF NapSleep, Nap!Ticks
<1>3. Nap!Left' = Nap!Left
  BY <1>1, Zenon DEF Nap!Left, Nap!Ticks
<1>4. CASE Nap!Interrupted
  BY <1>1, <1>2, <1>3, <1>4 DEF NapSleep, Nap!Interrupted, Nap!Left
<1>5. CASE \E k \in {{x} : x \in Nap!Sleepers} : Nap!Call(k)
  BY <1>1, <1>2, <1>3, <1>5 DEF NapSleep, Nap!Call
<1>6. CASE \E k \in {{x} : x \in Nap!Sleepers} : Nap!Complete(k)
  BY <1>1, <1>2, <1>3, <1>6, Zenon DEF NapSleep, Nap!Complete
<1> QED
  BY <1>4, <1>5, <1>6, Zenon

\* The steps of the burners.
LEMMA NapTurn ==
  ASSUME NapBurn, NEW b \in Nap!B, kind' = kind, UNCHANGED pc, Nap!Turn(b)
  PROVE  NapBurn'
<1>1. /\ bpc[b] = "burn" /\ bpc' = [bpc EXCEPT ![b] = "report"] /\ UNCHANGED <<prev, children>>
      /\ loops' = [loops EXCEPT ![b] = @ + 1] /\ run' = [run EXCEPT ![b] = @ + 1]
  BY Zenon DEF Nap!Turn
<1>2. PICK d \in 1..period + 1 : cpu' = [cpu EXCEPT ![b] = @ + d]
  BY Zenon DEF Nap!Turn
<1>3. d \in Nat
  BY <1>2
<1>4. /\ bpc' \in [Nap!B -> {"none", "burn", "report"}] /\ cpu' \in [Nap!B -> Nat] /\ prev' \in [Nap!B -> Nat]
      /\ loops' \in [Nap!B -> Nat] /\ run' \in [Nap!B -> Nat] /\ children' \in 0..2
  BY <1>1, <1>2, <1>3 DEF NapBurn
<1>5. ASSUME NEW c \in Nap!B
      PROVE  /\ prev'[c] * period <= cpu'[c]
             /\ bpc'[c] # "report" => cpu'[c] < (prev'[c] + 1) * period
             /\ prev'[c] > 0 => loops'[c] = run'[c]
             /\ bpc'[c] = "none" => cpu'[c] = 0
  <2>1. CASE c = b
    <3>1. cpu'[c] = cpu[c] + d /\ cpu[c] \in Nat /\ prev'[c] = prev[c] /\ prev[c] \in Nat /\ bpc'[c] = "report"
      BY <1>1, <1>2, <2>1, Zenon DEF NapBurn
    <3>2. prev[c] * period <= cpu[c] /\ prev[c] * period \in Nat
      BY <3>1, SleepsAssumption DEF NapBurn
    <3> QED
      BY <1>1, <1>3, <2>1, <3>1, <3>2 DEF NapBurn
  <2>2. CASE c # b
    <3>1. cpu'[c] = cpu[c] /\ prev'[c] = prev[c] /\ bpc'[c] = bpc[c] /\ loops'[c] = loops[c] /\ run'[c] = run[c]
      BY <1>1, <1>2, <2>2, Zenon DEF NapBurn
    <3> QED
      BY <3>1, Zenon DEF NapBurn
  <2> QED
    BY <2>1, <2>2, Zenon
<1>6. \A c \in Nap!B : IF kind' = "cpu_burner" THEN pc' = "start" => bpc'[c] = "none"
                                               ELSE c > children' => bpc'[c] = "none"
  BY <1>1, Zenon DEF NapBurn
<1> QED
  BY <1>4, <1>5, <1>6, Zenon DEF NapBurn

\* A burner that prints its CPU seconds preserves the burners' half.
LEMMA NapReport ==
  ASSUME NapBurn, NEW b \in Nap!B, kind' = kind, UNCHANGED pc, Nap!Report(b)
  PROVE  NapBurn'
<1>1. bpc[b] = "report" /\ bpc' = [bpc EXCEPT ![b] = "burn"] /\ UNCHANGED <<cpu, children>>
  BY Zenon DEF Nap!Report
<1>2. cpu[b] \in Nat /\ period \in Nat \ {0} /\ prev[b] \in Nat /\ prev[b] * period <= cpu[b]
  BY SleepsAssumption, Zenon DEF NapBurn
<1> DEFINE q == cpu[b] \div period
<1>3. q \in Nat /\ q * period <= cpu[b] /\ cpu[b] < (q + 1) * period
  BY <1>2, DivBounds, Zenon
<1> HIDE DEF q
<1>4. CASE /\ q > prev[b] /\ prev' = [prev EXCEPT ![b] = q]
           /\ loops' = [loops EXCEPT ![b] = 0] /\ run' = [run EXCEPT ![b] = 0]
  BY <1>1, <1>2, <1>3, <1>4, Zenon DEF NapBurn
<1>5. CASE ~(q > prev[b]) /\ UNCHANGED <<prev, loops, run>>
  <2>1. cpu[b] < (prev[b] + 1) * period
    BY <1>2, <1>3, <1>5, SMTT(30)
  <2> QED
    BY <1>1, <1>2, <1>5, <2>1, Zenon DEF NapBurn
<1> QED
  BY <1>4, <1>5, Zenon DEF Nap!Report, q

\* The start of the burners, by fork() or pthread_create(), preserves their half.
LEMMA NapStart ==
  ASSUME NapBurn, NEW k \in {"cpu_multi_burner", "cpu_multithread_burner"}, Nap!Start({k})
  PROVE  NapBurn'
<1>1. kind = k /\ kind' = kind /\ UNCHANGED <<cpu, prev, loops, run>>
  BY Zenon DEF Nap!Start, Nap!P
<1>2. CASE UNCHANGED <<children, bpc>>
  BY <1>1, <1>2, Zenon DEF NapBurn
<1>3. CASE children < 2 /\ children' = children + 1 /\ bpc' = [bpc EXCEPT ![children + 1] = "burn"]
  <2>1. children + 1 \in Nap!B /\ bpc[children + 1] = "none"
    BY <1>1, <1>3 DEF NapBurn, Nap!B
  <2> QED
    BY <1>1, <1>3, <2>1 DEF NapBurn, Nap!B
<1> QED
  BY <1>2, <1>3, Zenon DEF Nap!Start

\* Every step of these programs preserves both halves.
LEMMA NapStep ==
  ASSUME NapSleep, NapBurn, Nap!Next
  PROVE  NapSleep' /\ NapBurn'
<1> USE DEF Nap!P, Nap!Sleepers, Nap!Absolute, Nap!Burners
<1>1. ASSUME NEW k \in {{x} : x \in Nap!Sleepers}, Nap!Request(k) \/ Nap!Call(k) \/ Nap!Complete(k)
      PROVE  NapSleep' /\ NapBurn'
  <2>1. NapSleep'
    BY <1>1, NapRequest, NapSleeps, Zenon
  <2>2. kind \in k /\ UNCHANGED <<kind, bpc, cpu, prev, loops, run, children>>
    BY <1>1, Zenon DEF Nap!Request, Nap!Call, Nap!Complete, Nap!burn
  <2> QED
    BY <2>1, <2>2, Zenon DEF NapBurn
<1>2. CASE Nap!Tick \/ Nap!Interrupted
  <2>1. NapSleep'
    BY <1>2, NapTick, NapSleeps, Zenon
  <2>2. kind \in Nap!Sleepers /\ UNCHANGED <<kind, bpc, cpu, prev, loops, run, children>>
    BY <1>2, Zenon DEF Nap!Tick, Nap!Interrupted, Nap!burn
  <2> QED
    BY <2>1, <2>2, Zenon DEF NapBurn
<1>3. ASSUME kind \in Nap!Burners, UNCHANGED <<kind, req, length, begin, now, gap, total>>, ints' \in {ints, 1}
      PROVE  NapSleep'
  BY <1>3, SleepsAssumption, SMTT(30) DEF NapSleep
<1>4. ASSUME NEW b \in Nap!B, kind \in Nap!Burners, UNCHANGED kind, Nap!Turn(b) \/ Nap!Report(b)
      PROVE  NapSleep' /\ NapBurn'
  <2>1. UNCHANGED <<pc, req, length, begin, now, gap, total, ints>>
    BY <1>4, Zenon DEF Nap!Turn, Nap!Report, Nap!sleep
  <2> QED
    BY <1>3, <1>4, <2>1, NapTurn, NapReport, Zenon
<1>5. ASSUME NEW k \in {"cpu_multi_burner", "cpu_multithread_burner"}, Nap!Start({k})
      PROVE  NapSleep' /\ NapBurn'
  BY <1>3, <1>5, NapStart, Zenon DEF Nap!Start, Nap!sleep
<1>6. CASE Nap!CpuBurner
  <2>1. CASE \/ /\ pc = "start" /\ pc' = "loop" /\ bpc' = [bpc EXCEPT ![1] = "burn"] /\ UNCHANGED <<kind, Nap!sleep>>
                /\ UNCHANGED <<cpu, prev, loops, run, children>>
             \/ pc = "loop" /\ pc' = "done" /\ UNCHANGED <<kind, Nap!sleep, Nap!burn>>
    <3>1. NapSleep'
      BY <1>3, <1>6, <2>1, Zenon DEF Nap!CpuBurner, Nap!sleep
    <3>2. NapBurn'
      BY <1>6, <2>1, Zenon DEF NapBurn, Nap!B, Nap!burn, Nap!CpuBurner
    <3> QED
      BY <3>1, <3>2, Zenon
  <2>2. CASE Nap!Turn(1) \/ Nap!Report(1)
    BY <1>4, <1>6, <2>2, Zenon DEF Nap!CpuBurner, Nap!B, Nap!Turn, Nap!Report
  <2> QED
    BY <1>6, <2>1, <2>2, Zenon DEF Nap!CpuBurner
<1>7. CASE Nap!Signal
  BY <1>3, <1>7, Zenon DEF Nap!Signal, NapBurn, Nap!burn
<1>8. CASE \E b \in Nap!B : Nap!BurnCPU(b) \/ Nap!ThreadFunc(b)
  BY <1>4, <1>8, Zenon DEF Nap!BurnCPU, Nap!ThreadFunc, Nap!Turn, Nap!Report
<1>9. CASE Nap!TNanosleep \/ Nap!TClockNanosleep \/ Nap!TClockNanosleepAbstime
  BY <1>1, <1>9, Zenon DEF Nap!TNanosleep, Nap!TClockNanosleep, Nap!TClockNanosleepAbstime
<1> QED
  BY <1>2, <1>5, <1>6, <1>7, <1>8, <1>9, Zenon DEF Nap!Next, Nap!Main, Nap!CpuMultiBurner, Nap!CpuMultithreadBurner

NapInv == NapSleep /\ NapBurn

\* A step that leaves these programs alone preserves both halves.
LEMMA NapIdle ==
  ASSUME NapInv, UNCHANGED Nap!vars
  PROVE  NapInv'
<1>0. UNCHANGED <<kind, pc, req, length, begin, now, gap, total, ints, bpc, cpu, prev, loops, run, children>>
  BY Zenon DEF Nap!vars
<1>1. NapSleep'
  BY <1>0, Zenon DEF NapInv, NapSleep, Nap!Ticks, Nap!Left
<1>2. NapBurn'
  BY <1>0, Zenon DEF NapInv, NapBurn
<1> QED
  BY <1>1, <1>2, Zenon DEF NapInv

-----------------------------------------------------------------------------
(* The programs of module Timers *)

Time == INSTANCE Timers WITH cnt <- count, flag <- gotAlarm
ASSUME TimersAssumption == MaxDue \in Nat /\ maxExp \in Nat /\ maxSigs \in Nat

TimeValues ==
  /\ kind \in Time!Kinds /\ interval \in BOOLEAN /\ gotAlarm \in BOOLEAN /\ overlap \in BOOLEAN
  /\ armed \subseteq Time!Used /\ pend \subseteq (IF kind \in Time!Reads THEN {1} ELSE armed)
  /\ due \in [Time!Ids -> Nat] /\ over \in [Time!Ids -> Nat] /\ last \in [Time!Ids -> Nat]
  /\ count \in [Time!Ids -> Nat]
  /\ hand \in 0..2 /\ (hand # 0 => kind \in Time!ByHandler)
  /\ mtx \in Time!Slots \cup {"main", "nobody"}
  /\ thr \in [Time!Slots -> [at : {"none", "lock", "add", "unlock", "signal"}, id : Time!Ids]]
  /\ kind \in Time!ByThread \/ thr = [s \in Time!Slots |-> Time!Idle]

\* Without an overlap a timer has at most one notification thread that has still to count.
TimeAlone ==
  overlap = FALSE => \A i \in Time!Ids : \A s \in Time!Uncounted(i), t \in Time!Uncounted(i) : s = t

\* An alarm that comes before read() blocks is the only one.
TimeEnds ==
  /\ kind \in {"demo_timerfd", "ptmr_simple_sigev_thread"} /\ pc = "done" => count[1] >= maxExp
  /\ kind \in Time!Reads =>
       /\ interval = FALSE /\ due[1] <= 1
       /\ 1 \in pend => due[1] = 1 /\ gotAlarm = FALSE
       /\ gotAlarm = TRUE => due[1] = 1
       /\ pc = "timed_out" \/ (pc = "done" /\ count[1] = 1) =>
            due[1] = 1 /\ gotAlarm = FALSE /\ kind # "timed_read_restart"

TimeInv == TimeValues /\ Time!ExpirationsCounted /\ TimeAlone /\ TimeEnds

\* The inductive invariant of the timer programs implies their properties.
LEMMA TimeHolds == TimeInv => Time!TypeOK /\ Time!ExpirationsCounted /\ Time!EndsRight
<1> SUFFICES ASSUME TimeInv
             PROVE  Time!TypeOK /\ Time!EndsRight
  BY Zenon DEF TimeInv
<1>1. Time!TypeOK
  BY Zenon DEF TimeInv, TimeValues, Time!TypeOK
<1>2. Time!EndsRight
  BY Zenon DEF TimeInv, TimeEnds, Time!EndsRight
<1> QED
  BY <1>1, <1>2, Zenon

\* It holds when main() begins.
LEMMA TimeInit == Time!Init => TimeInv
<1> SUFFICES ASSUME Time!Init
             PROVE  TimeInv
  BY Zenon
<1>1. /\ \A s \in Time!Slots : thr[s] = Time!Idle
      /\ \A i \in Time!Ids : due[i] = 0 /\ count[i] = 0 /\ i \notin pend
  BY Zenon DEF Time!Init, Time!Ids
<1>2. TimeValues
  <2>1. 0 \in 0..2 /\ 0 \in Nat
    OBVIOUS
  <2>2. thr \in [Time!Slots -> [at : {"none", "lock", "add", "unlock", "signal"}, id : Time!Ids]]
    BY Zenon DEF Time!Init, Time!Idle, Time!Ids
  <2>3. due \in [Time!Ids -> Nat] /\ over \in [Time!Ids -> Nat] /\ last \in [Time!Ids -> Nat] /\ count \in [Time!Ids -> Nat]
    BY Zenon DEF Time!Init
  <2> QED
    BY <2>1, <2>2, <2>3, Zenon DEF Time!Init, TimeValues
<1>3. Time!ExpirationsCounted
  <2>1. \A i \in Time!Ids : Time!Unread(i) = 0 /\ Time!Uncounted(i) = {}
    BY <1>1 DEF Time!Unread, Time!Uncounted, Time!Idle
  <2> QED
    BY <1>1, <2>1 DEF Time!Init, Time!ExpirationsCounted, Time!Ids
<1>4. TimeAlone
  BY <1>1 DEF TimeAlone, Time!Uncounted, Time!Idle
<1>5. TimeEnds
  <2>1. due[1] <= 1 /\ count[1] = 0
    BY <1>1 DEF Time!Ids
  <2> QED
    BY <2>1, Zenon DEF Time!Init, TimeEnds
<1> QED
  BY <1>2, <1>3, <1>4, <1>5, Zenon DEF TimeInv

\* A step that neither expires, notifies nor counts.
LEMMA TimeQuiet ==
  ASSUME TimeInv, UNCHANGED <<kind, interval, due, pend, over, last, count, hand, thr, overlap>>,
         armed' \subseteq Time!Used, kind \in Time!Reads \/ armed \subseteq armed',
         gotAlarm' \in BOOLEAN, mtx' \in Time!Slots \cup {"main", "nobody"}, TimeEnds'
  PROVE  TimeInv'
<1>1. TimeValues'
  BY Zenon DEF TimeInv, TimeValues, Time!Used
<1>2. Time!ExpirationsCounted'
  BY Zenon DEF TimeInv, Time!ExpirationsCounted, Time!Unread, Time!Uncounted
<1>3. TimeAlone'
  <2>1. \A i \in Time!Ids : Time!Uncounted(i)' = Time!Uncounted(i)
    BY Zenon DEF Time!Uncounted
  <2> QED
    BY <2>1, Zenon DEF TimeInv, TimeAlone
<1> QED
  BY <1>1, <1>2, <1>3, Zenon DEF TimeInv

\* Arming the timers, whichever call does it, preserves it.
LEMMA TimeArm ==
  ASSUME TimeInv, NEW k, NEW from, NEW to, Time!Arm(k, from, to), to \notin {"done", "timed_out"},
         from = "next" => k \subseteq {"ptmr_sigev_signal", "ptmr_sigev_thread"}
  PROVE  TimeInv'
<1>1. /\ kind \in k /\ pc = from /\ pc' \in {to, "failed"} /\ UNCHANGED <<kind, interval>>
      /\ UNCHANGED <<due, pend, over, last, count, gotAlarm, hand, mtx, thr, overlap>>
      /\ armed' \in {armed, armed \cup {IF from = "next" THEN 2 ELSE 1}}
  BY Zenon DEF Time!Arm, Time!P, Time!threads
<1>2. armed' \subseteq Time!Used /\ armed \subseteq armed'
  BY <1>1, Zenon DEF TimeInv, TimeValues, Time!Used, Time!Ids
<1>3. TimeEnds'
  BY <1>1, Zenon DEF TimeInv, TimeEnds
<1> QED
  BY <1>1, <1>2, <1>3, TimeQuiet, Zenon DEF TimeInv, TimeValues

\* An expiration, first or overrun, preserves it.
LEMMA TimeExpire ==
  ASSUME TimeInv, NEW i \in Time!Ids, Time!Expire(i)
  PROVE  TimeInv'
<1>1. /\ i \in armed /\ pc \notin Time!Over /\ due[i] < (IF interval THEN MaxDue ELSE 1)
      /\ due' = [due EXCEPT ![i] = IF kind = "real_timer" /\ interval THEN @ ELSE @ + 1]
      /\ pend' = pend \cup {i}
      /\ over' = [over EXCEPT ![i] = IF i \in pend /\ kind # "real_timer" THEN @ + 1 ELSE 0]
      /\ UNCHANGED <<kind, pc, interval, armed, last, count, gotAlarm, hand, mtx, thr, overlap>>
  BY Zenon DEF Time!Expire, Time!threads
<1>2. /\ due \in [Time!Ids -> Nat] /\ over \in [Time!Ids -> Nat] /\ armed \subseteq Time!Used
  BY Zenon DEF TimeInv, TimeValues
<1>3. due' \in [Time!Ids -> Nat] /\ over' \in [Time!Ids -> Nat]
  BY <1>1, <1>2
<1>4. kind \in Time!Reads => i = 1
  BY <1>1, <1>2, Zenon DEF Time!Used, Time!Reads
<1>5. TimeValues'
  BY <1>1, <1>3, <1>4, ZenonT(60) DEF TimeInv, TimeValues, Time!Used
<1>6. TimeAlone'
  <2>1. \A j \in Time!Ids : Time!Uncounted(j)' = Time!Uncounted(j)
    BY <1>1, Zenon DEF Time!Uncounted
  <2> QED
    BY <1>1, <2>1, Zenon DEF TimeInv, TimeAlone
<1>7. TimeEnds'
  <2>1. CASE kind \in Time!Reads
    <3>1. i = 1 /\ interval = FALSE /\ due[1] = 0 /\ due'[1] = 1 /\ 1 \in Time!Ids
      <4>1. i = 1 /\ interval = FALSE
        BY <1>4, <2>1, Zenon DEF TimeInv, TimeEnds
      <4>2. kind # "real_timer" /\ 1 \in Time!Ids
        BY <2>1, <4>1, Zenon DEF Time!Reads
      <4>3. due[1] \in Nat /\ due[1] < 1
        BY <1>1, <1>2, <4>1, Zenon
      <4>4. due'[1] = due[1] + 1
        BY <1>1, <1>2, <4>1, <4>2, Zenon
      <4> QED
        BY <1>1, <4>1, <4>2, <4>3, <4>4
    <3>2. gotAlarm = FALSE /\ due'[1] <= 1
      BY <2>1, <3>1 DEF TimeInv, TimeEnds, TimeValues
    <3> QED
      BY <1>1, <2>1, <3>1, <3>2, Zenon DEF TimeInv, TimeEnds, Time!Over, Time!Reads
  <2>2. CASE kind \notin Time!Reads
    BY <1>1, <2>2, Zenon DEF TimeInv, TimeEnds
  <2> QED
    BY <2>1, <2>2, Zenon
<1>8. Time!ExpirationsCounted'
  <2> SUFFICES ASSUME kind # "real_timer"
               PROVE  Time!ExpirationsCounted'
    BY <1>1, Zenon DEF Time!ExpirationsCounted, Time!ByHandler, Time!Timerfds, Time!ByThread
  <2>1. \A j \in Time!Ids : /\ due'[j] = IF j = i THEN due[j] + 1 ELSE due[j]
                            /\ Time!Unread(j)' = IF j = i THEN Time!Unread(j) + 1 ELSE Time!Unread(j)
                            /\ Time!Unread(j) \in Nat /\ due[j] \in Nat
    BY <1>1, <1>2 DEF Time!Unread
  <2>2. \A j \in Time!Ids : Time!Uncounted(j)' = Time!Uncounted(j) /\ count[j] \in Nat /\ last[j] \in Nat
    BY <1>1, Zenon DEF Time!Uncounted, TimeInv, TimeValues
  <2> QED
    BY <1>1, <2>1, <2>2, SMTT(30) DEF TimeInv, Time!ExpirationsCounted
<1> QED
  BY <1>5, <1>6, <1>7, <1>8, Zenon DEF TimeInv

\* A notification is taken by a handler.
LEMMA TimeTaken ==
  ASSUME TimeInv, NEW i \in Time!Ids, Time!Taken(i)
  PROVE  /\ due' = due /\ pend' \subseteq pend /\ last' \in [Time!Ids -> Nat] /\ over' \in [Time!Ids -> Nat]
         /\ \A j \in Time!Ids : /\ last'[j] = IF j = i THEN over[j] ELSE last[j]
                                /\ Time!Unread(j)' = IF j = i THEN 0 ELSE Time!Unread(j)
                                /\ Time!Unread(j) \in Nat /\ due[j] \in Nat /\ count[j] \in Nat /\ last[j] \in Nat
         /\ Time!Unread(i) = 1 + over[i] /\ over[i] \in Nat
BY SMTT(30) DEF TimeInv, TimeValues, Time!Taken, Time!Unread

\* The SIGALRM handlers of real_timer.c and timed_read.c preserve it.
LEMMA TimeHandlers ==
  ASSUME TimeInv, Time!SigalrmHandler \/ Time!AlarmHandler
  PROVE  TimeInv'
<1>1. /\ Time!Taken(1) /\ 1 \in Time!Ids /\ kind \notin Time!ByHandler \cup Time!ByThread \cup Time!Timerfds
      /\ UNCHANGED <<kind, interval, armed, due, count, hand, mtx, thr, overlap>>
      /\ 1 \in pend /\ pc \notin Time!Over /\ pend' = pend \ {1}
  BY Zenon DEF Time!SigalrmHandler, Time!AlarmHandler, Time!Taken, Time!Ids, Time!Reads, Time!ByHandler, Time!ByThread,
         Time!Timerfds, Time!threads
<1>2. gotAlarm' \in BOOLEAN
  BY Zenon DEF TimeInv, TimeValues, Time!SigalrmHandler, Time!AlarmHandler
<1>3. TimeValues'
  <2>1. last' \in [Time!Ids -> Nat] /\ over' \in [Time!Ids -> Nat]
    BY <1>1, TimeTaken, Zenon
  <2> QED
    BY <1>1, <1>2, <2>1, Zenon DEF TimeInv, TimeValues, Time!Used
<1>4. Time!ExpirationsCounted'
  BY <1>1, Zenon DEF Time!ExpirationsCounted
<1>5. TimeAlone'
  <2>1. \A i \in Time!Ids : Time!Uncounted(i)' = Time!Uncounted(i)
    BY <1>1, Zenon DEF Time!Uncounted
  <2> QED
    BY <1>1, <2>1, Zenon DEF TimeInv, TimeAlone
<1>6. TimeEnds'
  <2>1. CASE Time!AlarmHandler
    <3>1. /\ kind \in Time!Reads /\ gotAlarm' = (gotAlarm \/ pc = "calling")
          /\ pc' = (IF pc = "read" /\ kind # "timed_read_restart" THEN "timed_out" ELSE pc)
      BY <2>1, Zenon DEF Time!AlarmHandler
    <3> QED
      BY <1>1, <3>1, Zenon DEF TimeInv, TimeEnds, Time!Over, Time!Reads
  <2>2. CASE Time!SigalrmHandler
    BY <2>2, Zenon DEF TimeEnds, Time!SigalrmHandler, Time!Taken, Time!Reads
  <2> QED
    BY <2>1, <2>2, Zenon
<1> QED
  BY <1>3, <1>4, <1>5, <1>6, Zenon DEF TimeInv

\* The handler of a SIGEV_SIGNAL program is called, and counts.
LEMMA TimeHandler ==
  ASSUME TimeInv, Time!Handler
  PROVE  TimeInv'
<1>1. ASSUME NEW i \in Time!Ids, kind \in Time!ByHandler, hand = 0, Time!Taken(i), hand' = i,
             UNCHANGED <<pc, count, gotAlarm, Time!threads>>
      PROVE  TimeInv'
  <2>1. /\ kind \notin Time!Reads \cup Time!ByThread \cup Time!Timerfds \cup {"demo_timerfd", "ptmr_simple_sigev_thread"}
        /\ UNCHANGED <<kind, interval, armed, due, mtx, thr, overlap>> /\ i \in 1..2
    BY <1>1 DEF Time!Taken, Time!Reads, Time!ByHandler, Time!ByThread, Time!Timerfds, Time!threads, Time!Ids
  <2>2. /\ pend' \subseteq pend /\ last' \in [Time!Ids -> Nat] /\ over' \in [Time!Ids -> Nat]
        /\ \A j \in Time!Ids : /\ last'[j] = IF j = i THEN over[j] ELSE last[j]
                               /\ Time!Unread(j)' = IF j = i THEN 0 ELSE Time!Unread(j)
                               /\ Time!Unread(j) \in Nat /\ due[j] \in Nat /\ count[j] \in Nat /\ last[j] \in Nat
        /\ Time!Unread(i) = 1 + over[i] /\ over[i] \in Nat
    BY <1>1, TimeTaken, Zenon
  <2>3. hand' \in 0..2
    BY <1>1, <2>1
  <2>4. TimeValues'
    BY <1>1, <2>1, <2>2, <2>3, Zenon DEF TimeInv, TimeValues, Time!Used
  <2>5. Time!ExpirationsCounted'
    <3>1. ASSUME NEW j \in Time!Ids
          PROVE  due'[j] = count'[j] + Time!Unread(j)' + (IF hand' = j THEN 1 + last'[j] ELSE 0)
      <4>1. j # 0 /\ hand = 0 /\ hand' = i /\ due' = due /\ count' = count
        BY <1>1, <2>1 DEF Time!Ids
      <4>2. due[j] = count[j] + Time!Unread(j) + (IF hand = j THEN 1 + last[j] ELSE 0)
        BY <1>1, Zenon DEF TimeInv, Time!ExpirationsCounted
      <4> QED
        BY <2>2, <4>1, <4>2
    <3> QED
      BY <2>1, <3>1, Zenon DEF Time!ExpirationsCounted
  <2>6. TimeAlone'
    <3>1. \A j \in Time!Ids : Time!Uncounted(j)' = Time!Uncounted(j)
      BY <2>1, Zenon DEF Time!Uncounted
    <3> QED
      BY <2>1, <3>1, Zenon DEF TimeInv, TimeAlone
  <2>7. TimeEnds'
    BY <2>1, Zenon DEF TimeEnds
  <2> QED
    BY <2>4, <2>5, <2>6, <2>7, Zenon DEF TimeInv
<1>2. ASSUME hand # 0, hand' = 0, count' = [count EXCEPT ![hand] = @ + 1 + last[hand]],
             UNCHANGED <<kind, pc, interval, Time!clock, gotAlarm, Time!threads>>
      PROVE  TimeInv'
  <2>1. /\ kind \in Time!ByHandler /\ hand \in Time!Ids
        /\ kind \notin Time!Reads \cup Time!ByThread \cup Time!Timerfds \cup {"demo_timerfd", "ptmr_simple_sigev_thread"}
        /\ UNCHANGED <<armed, due, pend, over, last, mtx, thr, overlap>>
    BY <1>2 DEF TimeInv, TimeValues, Time!Reads, Time!ByHandler, Time!ByThread, Time!Timerfds, Time!threads,
                Time!clock, Time!Ids
  <2>2. \A j \in Time!Ids : /\ count'[j] = IF j = hand THEN count[j] + 1 + last[j] ELSE count[j]
                            /\ Time!Unread(j)' = Time!Unread(j) /\ Time!Unread(j) \in Nat
                            /\ due[j] \in Nat /\ count[j] \in Nat /\ last[j] \in Nat
    BY <1>2, <2>1 DEF TimeInv, TimeValues, Time!Unread
  <2>3. count' \in [Time!Ids -> Nat] /\ 0 \in 0..2
    BY <1>2, <2>1 DEF TimeInv, TimeValues
  <2>4. TimeValues'
    BY <1>2, <2>1, <2>3, Zenon DEF TimeInv, TimeValues, Time!Used
  <2>5. Time!ExpirationsCounted'
    <3>1. ASSUME NEW j \in Time!Ids
          PROVE  due'[j] = count'[j] + Time!Unread(j)' + (IF hand' = j THEN 1 + last'[j] ELSE 0)
      <4>1. j # 0 /\ due' = due /\ last' = last
        BY <2>1 DEF Time!Ids
      <4>2. due[j] = count[j] + Time!Unread(j) + (IF hand = j THEN 1 + last[j] ELSE 0)
        BY <2>1, Zenon DEF TimeInv, Time!ExpirationsCounted
      <4>3. CASE j = hand
        <5>1. /\ due[j] = count[j] + Time!Unread(j) + (1 + last[j]) /\ count'[j] = count[j] + 1 + last[j]
              /\ Time!Unread(j) \in Nat /\ due[j] \in Nat /\ count[j] \in Nat /\ last[j] \in Nat
          BY <2>2, <4>2, <4>3, Zenon
        <5>2. due[j] = (count[j] + 1 + last[j]) + Time!Unread(j) + 0
          BY <5>1
        <5> QED
          BY <1>2, <2>2, <4>1, <5>1, <5>2, Zenon
      <4>4. CASE j # hand
        BY <1>2, <2>2, <4>1, <4>2, <4>4, Zenon
      <4> QED
        BY <4>3, <4>4, Zenon
    <3> QED
      BY <1>2, <2>1, <3>1, Zenon DEF Time!ExpirationsCounted
  <2>6. TimeAlone'
    <3>1. \A j \in Time!Ids : Time!Uncounted(j)' = Time!Uncounted(j)
      BY <2>1, Zenon DEF Time!Uncounted
    <3> QED
      BY <2>1, <3>1, Zenon DEF TimeInv, TimeAlone
  <2>7. TimeEnds'
    BY <1>2, <2>1, Zenon DEF TimeEnds
  <2> QED
    BY <2>4, <2>5, <2>6, <2>7, Zenon DEF TimeInv
<1> QED
  BY <1>1, <1>2, Zenon DEF Time!Handler

\* The C library starts a thread for a notification.
LEMMA TimeNotify ==
  ASSUME TimeInv, NEW s \in Time!Slots, NEW i \in Time!Ids, Time!Notify(s, i)
  PROVE  TimeInv'
<1>1. /\ kind \in Time!ByThread /\ kind \notin Time!Reads \cup Time!ByHandler \cup Time!Timerfds \cup {"demo_timerfd"}
      /\ thr[s].at = "none" /\ thr' = [thr EXCEPT ![s] = [at |-> "lock", id |-> i]]
      /\ overlap' = (overlap \/ Time!Uncounted(i) # {}) /\ Time!Taken(i)
      /\ UNCHANGED <<kind, pc, interval, armed, due, count, gotAlarm, hand, mtx>>
  BY Zenon DEF Time!Notify, Time!Taken, Time!Reads, Time!ByHandler, Time!ByThread, Time!Timerfds
<1>2. /\ pend' \subseteq pend /\ last' \in [Time!Ids -> Nat] /\ over' \in [Time!Ids -> Nat]
      /\ \A j \in Time!Ids : /\ last'[j] = IF j = i THEN over[j] ELSE last[j]
                             /\ Time!Unread(j)' = IF j = i THEN 0 ELSE Time!Unread(j)
                             /\ Time!Unread(j) \in Nat /\ due[j] \in Nat /\ count[j] \in Nat /\ last[j] \in Nat
      /\ Time!Unread(i) = 1 + over[i] /\ over[i] \in Nat
  BY <1>1, TimeTaken, Zenon
<1>3. /\ thr \in [Time!Slots -> [at : {"none", "lock", "add", "unlock", "signal"}, id : Time!Ids]]
      /\ thr' \in [Time!Slots -> [at : {"none", "lock", "add", "unlock", "signal"}, id : Time!Ids]]
  BY <1>1, Zenon DEF TimeInv, TimeValues
<1>4. TimeValues'
  <2>1. overlap' \in BOOLEAN
    BY <1>1, Zenon
  <2> QED
    BY <1>1, <1>2, <1>3, <2>1, Zenon DEF TimeInv, TimeValues, Time!Used
<1>5. \A j \in Time!Ids : Time!Uncounted(j)' = IF j = i THEN Time!Uncounted(j) \cup {s} ELSE Time!Uncounted(j)
  BY <1>1, <1>3, Zenon DEF Time!Uncounted
<1>6. overlap' = FALSE => overlap = FALSE /\ Time!Uncounted(i) = {}
  BY <1>1, Zenon DEF TimeInv, TimeValues
<1>7. TimeAlone'
  BY <1>5, <1>6, Zenon DEF TimeInv, TimeAlone
<1>8. Time!ExpirationsCounted'
  <2>1. ASSUME overlap' = FALSE, NEW j \in Time!Ids
        PROVE  due'[j] = count'[j] + Time!Unread(j)' + (IF Time!Uncounted(j)' # {} THEN 1 + last'[j] ELSE 0)
    <3>1. due[j] = count[j] + Time!Unread(j) + (IF Time!Uncounted(j) # {} THEN 1 + last[j] ELSE 0)
      BY <1>1, <1>6, <2>1, Zenon DEF TimeInv, Time!ExpirationsCounted
    <3>2. CASE j = i
      <4>1. Time!Uncounted(j) = {} /\ Time!Uncounted(j)' # {} /\ due' = due /\ count' = count
        BY <1>1, <1>5, <1>6, <2>1, <3>2, Zenon
      <4>2. /\ last'[j] = over[j] /\ Time!Unread(j)' = 0 /\ Time!Unread(j) = 1 + over[j] /\ over[j] \in Nat
            /\ due[j] \in Nat /\ count[j] \in Nat
        BY <1>2, <3>2, Zenon
      <4>3. due[j] = count[j] + (1 + over[j]) + 0
        BY <3>1, <4>1, <4>2, Zenon
      <4>4. due[j] = count[j] + 0 + (1 + over[j])
        BY <4>2, <4>3, Moved, Zenon
      <4> QED
        BY <4>1, <4>2, <4>4, Zenon
    <3>3. CASE j # i
      BY <1>1, <1>2, <1>5, <2>1, <3>1, <3>3, Zenon
    <3> QED
      BY <3>2, <3>3, Zenon
  <2>2. overlap' \in BOOLEAN
    BY <1>1, Zenon
  <2> QED
    BY <1>1, <2>1, <2>2, Zenon DEF Time!ExpirationsCounted
<1>9. TimeEnds'
  BY <1>1, Zenon DEF TimeInv, TimeEnds
<1> QED
  BY <1>4, <1>7, <1>8, <1>9, Zenon DEF TimeInv

\* A step of threadFunc() in any of its threads preserves it.
LEMMA TimeThreadFunc ==
  ASSUME TimeInv, NEW s \in Time!Slots, Time!ThreadFunc(s)
  PROVE  TimeInv'
<1> DEFINE At == {"none", "lock", "add", "unlock", "signal"}
           Thr == [Time!Slots -> [at : At, id : Time!Ids]]
<1>1. /\ pc \notin Time!Over /\ UNCHANGED <<kind, interval, armed, due, pend, over, last, hand, overlap>>
      /\ thr \in Thr /\ thr[s].at \in At /\ thr[s].id \in Time!Ids
      /\ mtx' \in {mtx, s, "nobody"} /\ pc' \in {pc, "woken"}
  BY Zenon DEF Time!ThreadFunc, Time!ThreadStep, Time!clock, TimeInv, TimeValues
<1>2. gotAlarm' \in BOOLEAN /\ (thr[s].at # "add" => gotAlarm' = gotAlarm)
  BY Zenon DEF Time!ThreadFunc, Time!ThreadStep, TimeInv, TimeValues
<1>3. kind \in Time!ByThread /\ kind \notin Time!Reads \cup Time!ByHandler \cup Time!Timerfds \cup {"demo_timerfd"}
  <2>1. thr[s].at # "none"
    BY Zenon DEF Time!ThreadFunc, Time!ThreadStep
  <2>2. kind \in Time!ByThread
    <3>1. kind \in Time!ByThread \/ thr = [t \in Time!Slots |-> Time!Idle]
      BY Zenon DEF TimeInv, TimeValues
    <3> QED
      BY <2>1, <3>1 DEF Time!Idle
  <2> QED
    BY <2>2, Zenon DEF Time!Reads, Time!ByHandler, Time!ByThread, Time!Timerfds
<1>4. TimeEnds'
  BY <1>1, <1>3, Zenon DEF TimeInv, TimeEnds, Time!Over
<1>5. \A j \in Time!Ids : Time!Unread(j)' = Time!Unread(j) /\ Time!Unread(j) \in Nat
  BY <1>1 DEF TimeInv, TimeValues, Time!Unread
<1>6. ASSUME thr' \in Thr, count' \in [Time!Ids -> Nat]
      PROVE  TimeValues'
  BY <1>1, <1>2, <1>3, <1>6, Zenon DEF TimeInv, TimeValues, Time!Used
<1>7. CASE thr[s].at # "add"
  <2>1. count' = count /\ thr' \in Thr /\ \A j \in Time!Ids : Time!Uncounted(j)' = Time!Uncounted(j)
    <3>1. CASE Time!ThreadStep(s, "lock", "add") /\ count' = count
      BY <1>1, <3>1, Zenon DEF Time!ThreadStep, Time!Uncounted
    <3>2. CASE Time!ThreadStep(s, "unlock", "signal") /\ count' = count
      BY <1>1, <3>2, Zenon DEF Time!ThreadStep, Time!Uncounted
    <3>3. CASE Time!ThreadStep(s, "signal", "none") /\ count' = count
      BY <1>1, <3>3, Zenon DEF Time!ThreadStep, Time!Uncounted
    <3> QED
      BY <1>7, <3>1, <3>2, <3>3, Zenon DEF Time!ThreadFunc, Time!ThreadStep
  <2>2. count' \in [Time!Ids -> Nat]
    BY <2>1, Zenon DEF TimeInv, TimeValues
  <2>3. Time!ExpirationsCounted'
    BY <1>1, <1>5, <2>1, Zenon DEF TimeInv, Time!ExpirationsCounted
  <2>4. TimeAlone'
    BY <1>1, <2>1, SMTT(30) DEF TimeInv, TimeAlone
  <2> QED
    BY <1>4, <1>6, <2>1, <2>2, <2>3, <2>4, Zenon DEF TimeInv
<1>8. CASE thr[s].at = "add"
  <2> DEFINE i == thr[s].id
  <2>1. /\ thr' = [thr EXCEPT ![s].at = "unlock"]
        /\ count' = [count EXCEPT ![i] = @ + 1 + last[i]] /\ i \in Time!Ids
    BY <1>1, <1>8, Zenon DEF Time!ThreadFunc, Time!ThreadStep
  <2>2. \A j \in Time!Ids : due[j] \in Nat /\ count[j] \in Nat /\ last[j] \in Nat
    BY Zenon DEF TimeInv, TimeValues
  <2>3. /\ thr' \in Thr /\ count' \in [Time!Ids -> Nat]
        /\ \A j \in Time!Ids : /\ Time!Uncounted(j)' = Time!Uncounted(j) \ {s}
                               /\ count'[j] = IF j = i THEN count[j] + 1 + last[j] ELSE count[j]
                               /\ s \in Time!Uncounted(j) <=> j = i
    <3>1. count \in [Time!Ids -> Nat]
      BY Zenon DEF TimeInv, TimeValues
    <3>2. thr' \in Thr
      BY <1>1, <2>1, Zenon
    <3>3. count' \in [Time!Ids -> Nat] /\ \A j \in Time!Ids : count'[j] = IF j = i THEN count[j] + 1 + last[j] ELSE count[j]
      BY <2>1, <2>2, <3>1
    <3>4. \A j \in Time!Ids : Time!Uncounted(j)' = Time!Uncounted(j) \ {s}
      BY <1>1, <2>1, Zenon DEF Time!Uncounted
    <3>5. \A j \in Time!Ids : s \in Time!Uncounted(j) <=> j = i
      BY <1>8, Zenon DEF Time!Uncounted
    <3> QED
      BY <3>2, <3>3, <3>4, <3>5, Zenon
  <2> HIDE DEF i
  <2>4. TimeAlone'
    BY <1>1, <2>3, SMTT(30) DEF TimeInv, TimeAlone
  <2>5. Time!ExpirationsCounted'
    <3>1. ASSUME overlap = FALSE, NEW j \in Time!Ids
          PROVE  due[j] = count'[j] + Time!Unread(j)' + (IF Time!Uncounted(j)' # {} THEN 1 + last[j] ELSE 0)
      <4>1. due[j] = count[j] + Time!Unread(j) + (IF Time!Uncounted(j) # {} THEN 1 + last[j] ELSE 0)
        BY <1>3, <3>1, Zenon DEF TimeInv, Time!ExpirationsCounted
      <4>2. CASE j = i
        <5>1. Time!Uncounted(j)' = {} /\ Time!Uncounted(j) # {}
          BY <2>3, <3>1, <4>2, Zenon DEF TimeInv, TimeAlone
        <5> QED
          BY <1>5, <2>2, <2>3, <4>1, <4>2, <5>1, SMTT(30)
      <4>3. CASE j # i
        <5>1. Time!Uncounted(j)' = Time!Uncounted(j)
          BY <2>3, <4>3, Zenon
        <5> QED
          BY <1>5, <2>3, <4>1, <4>3, <5>1, Zenon
      <4> QED
        BY <4>2, <4>3, Zenon
    <3> QED
      BY <1>1, <1>3, <3>1, Zenon DEF TimeInv, TimeValues, Time!ExpirationsCounted
  <2> QED
    BY <1>4, <1>6, <2>3, <2>4, <2>5, Zenon DEF TimeInv
<1> QED
  BY <1>7, <1>8, Zenon

\* read() of the descriptor counts all that has expired.
LEMMA TimeTimerfd ==
  ASSUME TimeInv, NEW k \in SUBSET Time!Timerfds, NEW from, NEW to, Time!Timerfd(k, from, to),
         kind = "demo_timerfd" /\ to = "done" => ~(count[1] + Time!Unread(1) < maxExp)
  PROVE  TimeInv'
<1>1. /\ kind \in Time!Timerfds /\ kind \notin Time!Reads \cup Time!ByHandler \cup Time!ByThread
      /\ kind # "ptmr_simple_sigev_thread" /\ pc' = to
      /\ 1 \in pend /\ count' = [count EXCEPT ![1] = @ + Time!Unread(1)]
      /\ pend' = {} /\ over' = [over EXCEPT ![1] = 0]
      /\ UNCHANGED <<kind, interval, armed, due, last, gotAlarm, hand, mtx, thr, overlap>>
  BY Zenon DEF Time!Timerfd, Time!P, Time!threads, Time!Reads, Time!ByHandler, Time!ByThread, Time!Timerfds
<1>2. /\ over \in [Time!Ids -> Nat] /\ count \in [Time!Ids -> Nat] /\ due \in [Time!Ids -> Nat]
      /\ 1 \in Time!Ids /\ pend \subseteq {1}
  BY <1>1, Zenon DEF TimeInv, TimeValues, Time!Used, Time!Ids, Time!Timerfds
<1>3. \A j \in Time!Ids : /\ Time!Unread(j)' = 0 /\ Time!Unread(j) \in Nat
                          /\ j # 1 => Time!Unread(j) = 0
  <2>1. pend' = {} /\ \A j \in Time!Ids : over[j] \in Nat /\ (j # 1 => j \notin pend)
    BY <1>1, <1>2, Zenon
  <2>2. \A j \in Time!Ids : Time!Unread(j)' = 0
    BY <2>1, Zenon DEF Time!Unread
  <2> QED
    BY <2>1, <2>2 DEF Time!Unread
<1>4. /\ over' \in [Time!Ids -> Nat] /\ count' \in [Time!Ids -> Nat]
      /\ \A j \in Time!Ids : count'[j] = count[j] + Time!Unread(j) /\ count'[j] \in Nat
  BY <1>1, <1>2, <1>3, SMTT(30)
<1>5. TimeValues'
  BY <1>1, <1>4, Zenon DEF TimeInv, TimeValues, Time!Used
<1>6. TimeAlone'
  <2>1. \A i \in Time!Ids : Time!Uncounted(i)' = Time!Uncounted(i)
    BY <1>1, Zenon DEF Time!Uncounted
  <2> QED
    BY <1>1, <2>1, Zenon DEF TimeInv, TimeAlone
<1>7. Time!ExpirationsCounted'
  <2>1. \A j \in Time!Ids : due[j] = count[j] + Time!Unread(j)
    BY <1>1, Zenon DEF TimeInv, Time!ExpirationsCounted
  <2>2. \A j \in Time!Ids : due'[j] = count'[j] + Time!Unread(j)'
    BY <1>1, <1>2, <1>3, <1>4, <2>1, SMTT(30)
  <2> QED
    BY <1>1, <2>2, Zenon DEF Time!ExpirationsCounted
<1>8. TimeEnds'
  <2>1. kind = "demo_timerfd" /\ to = "done" => count'[1] >= maxExp
    BY <1>2, <1>3, <1>4, TimersAssumption
  <2> QED
    BY <1>1, <2>1, Zenon DEF TimeEnds
<1> QED
  BY <1>5, <1>6, <1>7, <1>8, Zenon DEF TimeInv

\* alarm(0) after the timed read() preserves it.
LEMMA TimeAlarmOff ==
  ASSUME TimeInv, NEW k \in SUBSET Time!Reads, Time!AlarmOff(k)
  PROVE  TimeInv'
<1>1. /\ kind \in Time!Reads /\ kind \notin Time!ByHandler \cup Time!ByThread \cup Time!Timerfds
      /\ kind \notin {"demo_timerfd", "ptmr_simple_sigev_thread"}
      /\ pc \in {"success", "timed_out"} /\ pc' = "done" /\ armed' = {}
      /\ count' = [count EXCEPT ![1] = IF pc = "timed_out" THEN 1 ELSE 0]
      /\ UNCHANGED <<kind, interval, due, pend, over, last, gotAlarm, hand, mtx, thr, overlap>>
  BY Zenon DEF Time!AlarmOff, Time!P, Time!threads, Time!Reads, Time!ByHandler, Time!ByThread, Time!Timerfds
<1>2. /\ count' \in [Time!Ids -> Nat] /\ (count'[1] = 1 => pc = "timed_out")
  BY <1>1, SMTT(30) DEF TimeInv, TimeValues, Time!Ids
<1>3. TimeValues'
  BY <1>1, <1>2, Zenon DEF TimeInv, TimeValues, Time!Used
<1>4. TimeAlone'
  <2>1. \A i \in Time!Ids : Time!Uncounted(i)' = Time!Uncounted(i)
    BY <1>1, Zenon DEF Time!Uncounted
  <2> QED
    BY <1>1, <2>1, Zenon DEF TimeInv, TimeAlone
<1>5. Time!ExpirationsCounted'
  BY <1>1, Zenon DEF Time!ExpirationsCounted
<1>6. TimeEnds'
  BY <1>1, <1>2, Zenon DEF TimeInv, TimeEnds
<1> QED
  BY <1>3, <1>4, <1>5, <1>6, Zenon DEF TimeInv

\* A program that only goes on, possibly with the mutex.
LEMMA TimeMoves ==
  ASSUME TimeInv, NEW k, NEW from, NEW to, Time!P(k, from, to), UNCHANGED <<armed, due, pend, over, last, count, hand, thr, overlap>>,
         kind \in Time!Reads => gotAlarm' = gotAlarm /\ to \notin {"timed_out", "done"},
         gotAlarm' \in BOOLEAN, mtx' \in Time!Slots \cup {"main", "nobody"},
         kind \in {"demo_timerfd", "ptmr_simple_sigev_thread"} /\ to = "done" => count[1] >= maxExp
  PROVE  TimeInv'
<1>1. pc' = to /\ UNCHANGED <<kind, interval>> /\ armed \subseteq Time!Used
  BY Zenon DEF Time!P, TimeInv, TimeValues
<1>2. TimeEnds'
  BY <1>1, Zenon DEF TimeInv, TimeEnds
<1> QED
  BY <1>1, <1>2, TimeQuiet, Zenon DEF TimeInv

\* The main thread waking up and printing the count preserves it.
LEMMA TimeWaitAndPrint ==
  ASSUME TimeInv, NEW k \in SUBSET Time!ByThread, NEW to, to # "done", Time!WaitAndPrint(k, to)
  PROVE  TimeInv'
<1>1. PICK f, g : /\ Time!P(k, f, g) /\ g # "done" /\ UNCHANGED <<armed, due, pend, over, last, count, hand, thr, overlap>>
                  /\ gotAlarm' \in {gotAlarm, FALSE} /\ mtx' \in {mtx, "main", "nobody"}
  BY Zenon DEF Time!WaitAndPrint, Time!clock, Time!threads
<1>2. kind \notin Time!Reads
  BY <1>1, Zenon DEF Time!P, Time!ByThread, Time!Reads
<1>3. gotAlarm' \in BOOLEAN /\ mtx' \in Time!Slots \cup {"main", "nobody"}
  BY <1>1, Zenon DEF TimeInv, TimeValues
<1> QED
  BY <1>1, <1>2, <1>3, TimeMoves, Zenon

\* The loop of real_timer.c preserves it.
LEMMA TimeRealTimer == TimeInv /\ Time!RealTimer => TimeInv'
<1> SUFFICES ASSUME TimeInv, Time!RealTimer
             PROVE  TimeInv'
  BY Zenon
<1>1. CASE Time!Arm({"real_timer"}, "start", "loop")
  BY <1>1, TimeArm
<1>2. CASE Time!P({"real_timer"}, "loop", "got") /\ gotAlarm' = FALSE /\ UNCHANGED <<Time!clock, count, hand, Time!threads>>
  <2>1. kind = "real_timer" /\ kind \notin Time!Reads /\ UNCHANGED <<armed, due, pend, over, last, count, hand, mtx, thr, overlap>>
    BY <1>2, Zenon DEF Time!P, Time!Reads, Time!clock, Time!threads
  <2>2. gotAlarm' \in BOOLEAN /\ mtx' \in Time!Slots \cup {"main", "nobody"}
    BY <1>2, <2>1, Zenon DEF TimeInv, TimeValues
  <2> QED
    BY <1>2, <2>1, <2>2, TimeMoves, Zenon
<1>3. CASE /\ Time!P({"real_timer"}, "got", IF count[1] + 1 >= (IF interval THEN maxSigs ELSE 1) THEN "done" ELSE "loop")
           /\ count' = [count EXCEPT ![1] = @ + 1] /\ UNCHANGED <<Time!clock, gotAlarm, hand, Time!threads>>
  <2>1. /\ kind = "real_timer" /\ UNCHANGED <<kind, interval, armed, due, pend, over, last, gotAlarm, hand, mtx, thr, overlap>>
        /\ kind \notin Time!Reads \cup Time!ByHandler \cup Time!ByThread \cup Time!Timerfds \cup {"demo_timerfd", "ptmr_simple_sigev_thread"}
    BY <1>3, Zenon DEF Time!P, Time!Reads, Time!ByHandler, Time!ByThread, Time!Timerfds, Time!clock, Time!threads
  <2>2. count' \in [Time!Ids -> Nat]
    BY <1>3, SMTT(30) DEF TimeInv, TimeValues, Time!Ids
  <2>3. TimeValues'
    BY <2>1, <2>2, Zenon DEF TimeInv, TimeValues, Time!Used
  <2>4. TimeAlone'
    <3>1. \A i \in Time!Ids : Time!Uncounted(i)' = Time!Uncounted(i)
      BY <2>1, Zenon DEF Time!Uncounted
    <3> QED
      BY <2>1, <3>1, Zenon DEF TimeInv, TimeAlone
  <2> QED
    BY <2>1, <2>3, <2>4, Zenon DEF TimeInv, TimeEnds, Time!ExpirationsCounted
<1> QED
  BY <1>1, <1>2, <1>3, Zenon DEF Time!RealTimer

\* Every step of a main() preserves it.
LEMMA TimeMain == TimeInv /\ Time!Main => TimeInv'
<1> SUFFICES ASSUME TimeInv, Time!Main
             PROVE  TimeInv'
  BY Zenon
<1>1. CASE Time!PtmrSigevSignal \/ Time!PtmrSimpleSigevSignal \/ Time!PtmrNullEvp
  BY <1>1, TimeArm DEF Time!PtmrSigevSignal, Time!PtmrSimpleSigevSignal, Time!PtmrNullEvp
<1>2. CASE Time!PtmrSigevThread
  BY <1>2, TimeArm, TimeWaitAndPrint DEF Time!PtmrSigevThread, Time!ByThread
<1>3. CASE Time!PtmrSimpleSigevThread
  <2>1. CASE /\ Time!P({"ptmr_simple_sigev_thread"}, "test", IF count[1] < maxExp THEN "call" ELSE "done")
             /\ UNCHANGED <<Time!clock, count, gotAlarm, hand, Time!threads>>
    <3>1. /\ kind \notin Time!Reads /\ gotAlarm' \in BOOLEAN /\ mtx' \in Time!Slots \cup {"main", "nobody"}
          /\ UNCHANGED <<armed, due, pend, over, last, count, hand, thr, overlap>>
      BY <2>1, Zenon DEF Time!P, Time!Reads, Time!clock, Time!threads, TimeInv, TimeValues
    <3>2. count[1] < maxExp \/ count[1] >= maxExp
      BY TimersAssumption DEF TimeInv, TimeValues, Time!Ids
    <3> QED
      BY <2>1, <3>1, <3>2, TimeMoves, Zenon
  <2> QED
    BY <1>3, <2>1, TimeArm, TimeWaitAndPrint DEF Time!PtmrSimpleSigevThread, Time!ByThread
<1>4. CASE Time!DemoTimerfd
  BY <1>4, TimeArm, TimeTimerfd DEF Time!DemoTimerfd, Time!Timerfds
<1>5. CASE Time!TimerfdSimple
  <2>1. CASE Time!P({"timerfd_simple"}, "key", "read") /\ UNCHANGED <<Time!clock, count, gotAlarm, hand, Time!threads>>
    <3>1. /\ gotAlarm' = gotAlarm /\ gotAlarm' \in BOOLEAN /\ mtx' \in Time!Slots \cup {"main", "nobody"}
          /\ UNCHANGED <<armed, due, pend, over, last, count, hand, thr, overlap>>
      BY <2>1, Zenon DEF Time!clock, Time!threads, TimeInv, TimeValues
    <3> QED
      BY <2>1, <3>1, TimeMoves, Zenon
  <2>2. CASE Time!Timerfd({"timerfd_simple"}, "read", "key")
    BY <2>2, TimeTimerfd, Zenon DEF Time!Timerfds
  <2> QED
    BY <1>5, <2>1, <2>2, TimeArm DEF Time!TimerfdSimple
<1>6. CASE Time!SimpleTimedRead \/ Time!TimedRead
  <2>1. PICK k \in SUBSET Time!Reads : Time!Arm(k, "start", "calling") \/ Time!ReadCall(k) \/ Time!AlarmOff(k)
    BY <1>6, Zenon DEF Time!SimpleTimedRead, Time!TimedRead, Time!Reads
  <2>2. CASE Time!ReadCall(k)
    <3>1. /\ gotAlarm' = gotAlarm /\ gotAlarm' \in BOOLEAN /\ mtx' \in Time!Slots \cup {"main", "nobody"}
          /\ UNCHANGED <<armed, due, pend, over, last, count, hand, thr, overlap>> /\ Time!P(k, "calling", "read")
      BY <2>2, Zenon DEF Time!ReadCall, Time!clock, Time!threads, TimeInv, TimeValues
    <3> QED
      BY <3>1, TimeMoves, Zenon
  <2> QED
    BY <2>1, <2>2, TimeArm, TimeAlarmOff, Zenon
<1> QED
  BY <1>1, <1>2, <1>3, <1>4, <1>5, <1>6, TimeRealTimer, Zenon DEF Time!Main

\* Every step of the timer programs, and none at all, preserves it.
LEMMA TimeStep == TimeInv /\ [Time!Next]_Time!vars => TimeInv'
<1> SUFFICES ASSUME TimeInv, [Time!Next]_Time!vars
             PROVE  TimeInv'
  BY Zenon
<1>1. CASE UNCHANGED Time!vars
  <2>1. UNCHANGED <<kind, pc, interval, armed, due, pend, over, last, count, gotAlarm, hand, mtx, thr, overlap>>
    BY <1>1, Zenon DEF Time!vars
  <2>2. armed \subseteq Time!Used /\ gotAlarm \in BOOLEAN /\ mtx \in Time!Slots \cup {"main", "nobody"}
    BY Zenon DEF TimeInv, TimeValues
  <2>3. TimeEnds'
    BY <2>1, Zenon DEF TimeInv, TimeEnds
  <2> QED
    BY <2>1, <2>2, <2>3, TimeQuiet, Zenon
<1>2. CASE Time!Spurious \/ Time!Input(Time!Reads)
  <2>1. PICK k, f, g : /\ Time!P(k, f, g) /\ g \in {"woken", "success"}
                       /\ UNCHANGED <<Time!clock, count, gotAlarm, hand, Time!threads>>
    BY <1>2, Zenon DEF Time!Spurious, Time!Input
  <2>2. /\ gotAlarm' = gotAlarm /\ gotAlarm' \in BOOLEAN /\ mtx' \in Time!Slots \cup {"main", "nobody"}
        /\ UNCHANGED <<armed, due, pend, over, last, count, hand, thr, overlap>>
    BY <2>1, Zenon DEF Time!clock, Time!threads, TimeInv, TimeValues
  <2>3. g \notin {"timed_out", "done"}
    BY <2>1, Zenon
  <2> QED
    BY <2>1, <2>2, <2>3, TimeMoves, Zenon
<1>3. CASE Time!Delivery
  BY <1>3, TimeHandlers, TimeHandler, TimeNotify, Zenon DEF Time!Delivery
<1> QED
  BY <1>1, <1>2, <1>3, TimeMain, TimeThreadFunc, TimeExpire, Zenon DEF Time!Next

-----------------------------------------------------------------------------
(* The programs of module Signals *)

SigKinds == {"t_sigsuspend", "t_sigsuspend_pause", "sig_receiver", "catch_rtsigs", "ignore_pending_sig",
             "self_pipe", "demo_sigio"}
Sig == INSTANCE Signals WITH Kinds <- SigKinds

\* A signal can be written to the pipe of self_pipe.
ASSUME SignalsAssumption == MaxSent \in Nat /\ PipeSize \in Nat \ {0}

SigValues ==
  /\ kind \in SigKinds /\ pending \subseteq Sig!Standard /\ blocked \subseteq Sig!All
  /\ disp \in {"default", "handler", "ignore"} /\ flag \in BOOLEAN
  /\ cnt \in Nat /\ pipe \in Nat /\ sent \in [Sig!All \cup {"key"} -> Nat]
  /\ rt \in Seq(Nat) /\ caught \in Seq(Nat) /\ input \in Seq(Nat)
  /\ disp = "ignore" => kind = "ignore_pending_sig"
  /\ rt # <<>> => kind = "catch_rtsigs"

\* Where each program waits, and with which mask.
SigMask ==
  /\ pc = "sigsuspend" => kind = "t_sigsuspend" /\ blocked = {}
  /\ pc = "pause" => kind \in {"t_sigsuspend_pause", "catch_rtsigs"} /\ blocked = {}
  /\ kind = "t_sigsuspend_pause" /\ pc = "unblocked" => blocked = {}
  /\ kind = "catch_rtsigs" /\ pc \in {"start", "block", "test", "calling"} => blocked = {}

SigPending(s) == IF s \in pending THEN 1 ELSE 0

\* A signal that is caught or pending was sent.
SigCounted ==
  /\ kind = "sig_receiver" /\ pc # "killed" =>
       /\ cnt + SigPending("USR1") + SigPending("QUIT") <= sent["USR1"] + sent["QUIT"]
       /\ sent["USR1"] > 0 => cnt > 0 \/ "USR1" \in pending
  /\ kind = "ignore_pending_sig" =>
       /\ pc = "ignoring" => disp = "ignore" /\ "INT" \notin pending
       /\ pc \in {"again", "exit", "done"} => cnt + SigPending("INT") <= sent["INT"]

\* The realtime signals caught and those queued carry the data of t_sigqueue in its order.
SigQueued ==
  kind = "catch_rtsigs" /\ pc # "killed" =>
    /\ Len(caught) + Len(rt) = sent["RT"]
    /\ \A i \in 1..Len(caught) : caught[i] = i - 1
    /\ \A i \in 1..Len(rt) : rt[i] = Len(caught) + i - 1

\* What was caught can be read from the pipe; the input that is there will be looked for.
SigInput ==
  /\ kind = "self_pipe" =>
       /\ pc = "start" => cnt = 0 /\ pipe = 0 /\ disp = "default"
       /\ pc = "select" => (cnt > 0 <=> pipe > 0)
  /\ kind = "demo_sigio" =>
       /\ pc = "start" => input = <<>>
       /\ input # <<>> => flag = TRUE \/ "USR1" \in pending \/ pc \in {"read", "extra", "done", "killed"}

SigInv == SigValues /\ SigMask /\ SigCounted /\ SigQueued /\ SigInput

\* The inductive invariant of the signal programs implies their properties.
LEMMA SigHolds == SigInv => Sig!TypeOK /\ Sig!SignalsAccounted
<1> SUFFICES ASSUME SigInv
             PROVE  Sig!TypeOK /\ Sig!SignalsAccounted
  BY Zenon
<1>1. Sig!TypeOK
  BY Zenon DEF SigInv, SigValues, SigMask, Sig!TypeOK
<1>2. kind = "sig_receiver" /\ pc # "killed" =>
        cnt <= sent["USR1"] + sent["QUIT"] /\ (sent["USR1"] > 0 => cnt > 0 \/ "USR1" \in pending)
  BY DEF SigInv, SigValues, SigCounted, SigPending, Sig!All, Sig!Standard
<1>3. kind = "catch_rtsigs" /\ pc # "killed" => \A i \in 1..sent["RT"] : (caught \o rt)[i] = i - 1
  BY DEF SigInv, SigValues, SigQueued
<1>4. kind = "ignore_pending_sig" /\ pc \in {"again", "exit", "done"} => cnt <= sent["INT"]
  BY DEF SigInv, SigValues, SigCounted, SigPending, Sig!All, Sig!Standard
<1>5. /\ kind = "self_pipe" /\ pc = "select" => (cnt > 0 <=> pipe > 0)
      /\ kind = "demo_sigio" => (input # <<>> => flag \/ "USR1" \in pending \/ pc \in {"read", "extra", "done", "killed"})
  BY Zenon DEF SigInv, SigInput
<1> QED
  BY <1>1, <1>2, <1>3, <1>4, <1>5, Zenon DEF Sig!SignalsAccounted

\* It holds when main() begins.
LEMMA SigInit == Sig!Init => SigInv
<1> SUFFICES ASSUME Sig!Init
             PROVE  SigInv
  BY Zenon
<1>1. SigValues
  <2>1. flag \in BOOLEAN
    BY Zenon DEF Sig!Init
  <2>2. sent \in [Sig!All \cup {"key"} -> Nat] /\ rt \in Seq(Nat) /\ caught \in Seq(Nat) /\ input \in Seq(Nat)
    BY DEF Sig!Init
  <2> QED
    BY <2>1, <2>2, Zenon DEF Sig!Init, SigValues
<1>2. SigMask /\ SigInput
  BY Zenon DEF Sig!Init, SigMask, SigInput
<1>3. SigCounted /\ SigQueued
  BY DEF Sig!Init, SigCounted, SigQueued, SigPending, Sig!All, Sig!Standard
<1> QED
  BY <1>1, <1>2, <1>3, Zenon DEF SigInv

\* What the senders do.
LEMMA SigSender ==
  ASSUME SigInv, Sig!Sender
  PROVE  SigInv'
<1> USE DEF SigInv
<1>1. ASSUME NEW s \in Sig!Standard, kind # "demo_sigio", Sig!Kill(s)
      PROVE  SigInv'
  <2>1. /\ pc \notin Sig!Over /\ sent' = [sent EXCEPT ![s] = @ + 1] /\ pending' \in {pending, pending \cup {s}}
        /\ disp # "ignore" \/ s # "INT" => pending' = pending \cup {s}
        /\ disp = "ignore" /\ s = "INT" => pending' = pending
        /\ UNCHANGED <<kind, pc, rt, blocked, disp, flag, cnt, caught, pipe, input>>
    BY <1>1, Zenon DEF Sig!Kill, Sig!Count, Sig!io
  <2>2. /\ s \in DOMAIN sent /\ DOMAIN sent = Sig!All \cup {"key"}
        /\ sent' \in [Sig!All \cup {"key"} -> Nat] /\ sent'[s] = sent[s] + 1
        /\ \A x \in DOMAIN sent \ {s} : sent'[x] = sent[x]
    BY <1>1, <2>1, SMTT(30) DEF SigValues, Sig!All
  <2>3. SigValues'
    BY <1>1, <2>1, <2>2, Zenon DEF SigValues
  <2>4. SigMask' /\ SigInput'
    BY <1>1, <2>1, Zenon DEF SigMask, SigInput
  <2>5. SigCounted'
    <3>1. /\ sent["USR1"] \in Nat /\ sent["QUIT"] \in Nat /\ sent["INT"] \in Nat /\ cnt \in Nat
          /\ sent'["USR1"] = IF s = "USR1" THEN sent["USR1"] + 1 ELSE sent["USR1"]
          /\ sent'["QUIT"] = IF s = "QUIT" THEN sent["QUIT"] + 1 ELSE sent["QUIT"]
          /\ sent'["INT"] = IF s = "INT" THEN sent["INT"] + 1 ELSE sent["INT"]
      BY <2>2, Zenon DEF SigValues, Sig!All, Sig!Standard
    <3>2. CASE kind = "sig_receiver"
      <4>1. UNCHANGED <<kind, pc, cnt>> /\ pending' = pending \cup {s}
        BY <2>1, <3>2, Zenon DEF SigValues
      <4>2. /\ UNCHANGED <<kind, pc, cnt>> /\ ("USR1" \in pending' <=> s = "USR1" \/ "USR1" \in pending)
            /\ SigPending("USR1") \in 0..1 /\ SigPending("QUIT") \in 0..1
            /\ SigPending("USR1")' = IF s = "USR1" THEN 1 ELSE SigPending("USR1")
            /\ SigPending("QUIT")' = IF s = "QUIT" THEN 1 ELSE SigPending("QUIT")
        BY <4>1 DEF SigPending
      <4> QED
        BY <3>1, <3>2, <4>2 DEF SigCounted
    <3>3. CASE kind = "ignore_pending_sig"
      BY <2>1, <3>1, <3>3, SMTT(30) DEF SigCounted, SigPending
    <3>4. CASE kind \notin {"sig_receiver", "ignore_pending_sig"}
      BY <2>1, <3>4, Zenon DEF SigCounted
    <3> QED
      BY <3>2, <3>3, <3>4, Zenon
  <2>6. SigQueued'
    BY <1>1, <2>1, <2>2, Zenon DEF SigQueued, Sig!All, Sig!Standard
  <2> QED
    BY <2>3, <2>4, <2>5, <2>6, Zenon
<1>2. CASE Sig!SigQueue
  <2>1. /\ kind = "catch_rtsigs" /\ pc \notin Sig!Over /\ sent' = [sent EXCEPT !["RT"] = @ + 1]
        /\ rt' = Append(rt, sent["RT"])
        /\ UNCHANGED <<kind, pc, pending, blocked, disp, flag, cnt, caught, pipe, input>>
    BY <1>2, Zenon DEF Sig!SigQueue, Sig!Count, Sig!io
  <2>2. /\ sent' \in [Sig!All \cup {"key"} -> Nat] /\ sent'["RT"] = sent["RT"] + 1 /\ sent["RT"] \in Nat
        /\ rt' \in Seq(Nat)
    BY <2>1, SMTT(30) DEF SigValues, Sig!All
  <2>3. SigValues'
    BY <2>1, <2>2, Zenon DEF SigValues
  <2>4. SigMask' /\ SigInput' /\ SigCounted'
    BY <2>1, Zenon DEF SigMask, SigInput, SigCounted
  <2>5. SigQueued'
    BY <2>1, <2>2, SMTT(30) DEF SigQueued, SigValues, Sig!Over
  <2> QED
    BY <2>3, <2>4, <2>5, Zenon
<1>3. CASE Sig!Key
  <2>1. /\ kind = "demo_sigio" /\ pc \notin Sig!Over \cup {"start"} /\ sent' = [sent EXCEPT !["key"] = @ + 1]
        /\ pending' = pending \cup {"USR1"}
        /\ UNCHANGED <<kind, pc, rt, blocked, disp, flag, cnt, caught, pipe>>
    BY <1>3, Zenon DEF Sig!Key, Sig!Count
  <2>2. sent' \in [Sig!All \cup {"key"} -> Nat] /\ input' \in Seq(Nat)
    BY <1>3, <2>1, SMTT(30) DEF Sig!Key, Sig!Hash, SigValues
  <2>3. SigValues'
    BY <2>1, <2>2, Zenon DEF SigValues, Sig!Standard
  <2>4. SigMask' /\ SigInput' /\ SigCounted' /\ SigQueued'
    BY <2>1, Zenon DEF SigMask, SigInput, SigCounted, SigQueued, Sig!Over
  <2> QED
    BY <2>3, <2>4, Zenon
<1> QED
  BY <1>1, <1>2, <1>3, Zenon DEF Sig!Sender

\* sigsuspend() and pause() return, or nothing does.
LEMMA SigReturn ==
  ASSUME SigInv, UNCHANGED kind, Sig!Return \/ UNCHANGED <<pc, blocked>>
  PROVE  /\ SigMask' /\ blocked' \subseteq Sig!All
         /\ kind \in {"sig_receiver", "ignore_pending_sig", "self_pipe", "demo_sigio"} => pc' = pc
         /\ kind = "catch_rtsigs" /\ pc # "killed" => pc' # "killed"
BY Zenon DEF SigInv, SigValues, SigMask, Sig!Return, Sig!All, Sig!Standard

\* The delivery of a standard signal, with what its handler does, preserves it.
LEMMA SigDeliver ==
  ASSUME SigInv, NEW s \in Sig!Standard, Sig!Deliver(s)
  PROVE  SigInv'
<1> USE DEF SigInv
<1>1. /\ s \in pending /\ pc \notin Sig!Over /\ pending' = pending \ {s}
      /\ UNCHANGED <<kind, rt, disp, caught, input, sent>>
  BY Zenon DEF Sig!Deliver, Sig!Deliverable
<1>2. CASE disp = "default" \/ s \notin Sig!Handled
  <2>1. pc' = "killed" /\ UNCHANGED <<blocked, flag, cnt, pipe>>
    BY <1>2, Zenon DEF Sig!Deliver
  <2>2. SigValues'
    BY <1>1, <2>1, Zenon DEF SigValues
  <2>3. SigMask' /\ SigInput' /\ SigCounted' /\ SigQueued'
    BY <1>1, <2>1, Zenon DEF SigMask, SigInput, SigCounted, SigQueued
  <2> QED
    BY <2>2, <2>3, Zenon
<1>3. CASE ~(disp = "default" \/ s \notin Sig!Handled)
  <2>1. /\ flag' = (flag \/ s \in Sig!Flagging) /\ Sig!SelfPipeWrite
        /\ cnt' = (IF s \in Sig!Flagging THEN cnt ELSE cnt + 1)
    BY <1>3, Zenon DEF Sig!Deliver
  <2>2. Sig!Return \/ UNCHANGED <<pc, blocked>>
    BY <1>3, Zenon DEF Sig!Deliver
  <2>3. /\ SigMask' /\ blocked' \subseteq Sig!All
        /\ kind \in {"sig_receiver", "ignore_pending_sig", "self_pipe", "demo_sigio"} => pc' = pc
        /\ kind = "catch_rtsigs" /\ pc # "killed" => pc' # "killed"
    BY <1>1, <2>2, SigReturn, Zenon
  <2>4. cnt' \in Nat /\ pipe' \in Nat
    BY <2>1, SignalsAssumption, SMTT(30) DEF Sig!SelfPipeWrite, SigValues
  <2>5. SigValues'
    <3>1. flag' \in BOOLEAN
      BY <2>1, Zenon
    <3> QED
      BY <1>1, <2>3, <2>4, <3>1, Zenon DEF SigValues
  <2>6. SigCounted'
    <3>1. CASE kind = "sig_receiver"
      <4>1. Sig!Flagging = {"INT"}
        BY <3>1, Zenon DEF Sig!Flagging
      <4> QED
        BY <1>1, <2>1, <2>3, <3>1, <4>1, SMTT(30) DEF SigValues, SigCounted, SigPending, Sig!All, Sig!Standard, Sig!Over
    <3>2. CASE kind = "ignore_pending_sig"
      <4>1. Sig!Flagging = {} /\ s = "INT"
        BY <1>3, <3>2, Zenon DEF Sig!Flagging, Sig!Handled
      <4> QED
        BY <1>1, <2>1, <2>3, <3>2, <4>1, SMTT(30) DEF SigValues, SigCounted, SigPending, Sig!All, Sig!Standard, Sig!Over
    <3>3. CASE kind \notin {"sig_receiver", "ignore_pending_sig"}
      BY <1>1, <3>3, Zenon DEF SigCounted
    <3> QED
      BY <3>1, <3>2, <3>3, Zenon
  <2>7. SigQueued'
    BY <1>1, <2>3, Zenon DEF SigQueued, Sig!Over
  <2>8. SigInput'
    <3>1. CASE kind = "self_pipe"
      <4>1. Sig!Flagging = {}
        BY <3>1, Zenon DEF Sig!Flagging
      <4> QED
        BY <1>1, <1>3, <2>1, <2>3, <3>1, <4>1, SignalsAssumption, SMTT(30) DEF SigValues, SigInput, Sig!SelfPipeWrite
    <3>2. CASE kind = "demo_sigio"
      <4>1. s \in Sig!Flagging <=> s = "USR1"
        BY <3>2, Zenon DEF Sig!Flagging
      <4> QED
        BY <1>1, <2>1, <2>3, <3>2, <4>1, Zenon DEF SigInput
    <3>3. CASE kind \notin {"self_pipe", "demo_sigio"}
      BY <1>1, <3>3, Zenon DEF SigInput
    <3> QED
      BY <3>1, <3>2, <3>3, Zenon
  <2> QED
    BY <2>3, <2>5, <2>6, <2>7, <2>8, Zenon
<1> QED
  BY <1>2, <1>3, Zenon

\* The delivery of the first queued realtime signal preserves it.
LEMMA SigDeliverRt ==
  ASSUME SigInv, Sig!DeliverRt
  PROVE  SigInv'
<1> USE DEF SigInv
<1>1. /\ rt # <<>> /\ kind = "catch_rtsigs" /\ pc \notin Sig!Over /\ rt' = Tail(rt)
      /\ UNCHANGED <<kind, pending, disp, flag, pipe, input, sent>>
  BY Zenon DEF Sig!DeliverRt, Sig!io, SigValues
<1>2. rt' \in Seq(Nat) /\ Head(rt) \in Nat
  BY <1>1 DEF SigValues
<1>3. SigCounted' /\ SigInput'
  BY <1>1, Zenon DEF SigCounted, SigInput
<1>4. CASE pc' = "killed" /\ UNCHANGED <<blocked, caught, cnt>>
  BY <1>1, <1>2, <1>3, <1>4, Zenon DEF SigValues, SigMask, SigQueued
<1>5. CASE caught' = Append(caught, Head(rt)) /\ cnt' = cnt + 1 /\ (Sig!Return \/ UNCHANGED <<pc, blocked>>)
  <2>1. SigMask' /\ blocked' \subseteq Sig!All /\ pc' # "killed"
    BY <1>1, <1>5, SigReturn, Zenon DEF Sig!Over
  <2>2. cnt' \in Nat /\ caught' \in Seq(Nat)
    BY <1>2, <1>5 DEF SigValues
  <2>3. SigValues'
    BY <1>1, <1>2, <2>1, <2>2, Zenon DEF SigValues
  <2>4. SigQueued'
    <3>1. /\ caught \in Seq(Nat) /\ rt \in Seq(Nat) /\ Len(rt) > 0 /\ Len(caught) + Len(rt) = sent["RT"]
          /\ \A i \in 1..Len(caught) : caught[i] = i - 1
          /\ \A i \in 1..Len(rt) : rt[i] = Len(caught) + i - 1
      BY <1>1, SMTT(30) DEF SigValues, SigQueued, Sig!Over
    <3>2. /\ Len(caught') = Len(caught) + 1 /\ Len(rt') = Len(rt) - 1 /\ Len(caught) \in Nat /\ Len(rt) \in Nat
          /\ \A i \in 1..Len(caught) : caught'[i] = caught[i]
          /\ caught'[Len(caught) + 1] = rt[1]
          /\ \A i \in 1..Len(rt) - 1 : rt'[i] = rt[i + 1]
      BY <1>1, <1>5, <3>1, SMTT(30)
    <3>3. ASSUME NEW i \in 1..Len(caught')
          PROVE  caught'[i] = i - 1
      <4>1. i \in 1..Len(caught) \/ i = Len(caught) + 1
        BY <3>2, <3>3, LastOrBefore, Zenon
      <4>2. rt[1] = Len(caught)
        BY <3>1, <3>2
      <4> QED
        BY <3>1, <3>2, <4>1, <4>2
    <3>4. ASSUME NEW i \in 1..Len(rt')
          PROVE  rt'[i] = Len(caught') + i - 1
      <4>1. i \in 1..Len(rt) - 1 /\ i + 1 \in 1..Len(rt)
        BY <3>2, <3>4, InTheTail, Zenon
      <4>2. rt'[i] = rt[i + 1] /\ rt[i + 1] = Len(caught) + (i + 1) - 1
        BY <3>1, <3>2, <4>1, Zenon
      <4> QED
        BY <3>2, <4>1, <4>2
    <3>5. Len(caught') + Len(rt') = sent'["RT"]
      BY <1>1, <3>1, <3>2
    <3> QED
      BY <3>3, <3>4, <3>5, Zenon DEF SigQueued
  <2> QED
    BY <1>3, <2>1, <2>3, <2>4, Zenon
<1> QED
  BY <1>4, <1>5, Zenon DEF Sig!DeliverRt

\* A step of a program that neither counts nor queues anything.
LEMMA SigQuiet ==
  ASSUME SigInv, UNCHANGED <<kind, pending, rt, caught, sent, flag, cnt, pipe, input>>,
         pc \notin Sig!Over, pc' # "killed",
         disp' \in {disp, "handler"}, blocked' \subseteq Sig!All,
         SigMask', kind \notin {"ignore_pending_sig", "self_pipe", "demo_sigio"}
  PROVE  SigInv'
<1>1. SigValues'
  BY Zenon DEF SigInv, SigValues
<1>2. SigCounted' /\ SigInput'
  BY Zenon DEF SigInv, SigCounted, SigPending, SigInput, Sig!Over
<1>3. SigQueued'
  BY Zenon DEF SigInv, SigQueued, Sig!Over
<1> QED
  BY <1>1, <1>2, <1>3, Zenon DEF SigInv

\* Every step of a main() preserves it.
LEMMA SigPrograms ==
  ASSUME SigInv, Sig!Program
  PROVE  SigInv'
<1> USE DEF Sig!Step, Sig!Same, Sig!io
<1>1. CASE Sig!TSigsuspend
  <2>1. kind = "t_sigsuspend" /\ UNCHANGED <<kind, pending, rt, caught, sent, flag, cnt, pipe, input>>
    BY <1>1, Zenon DEF Sig!TSigsuspend
  <2>2. /\ pc \notin Sig!Over /\ pc' # "killed" /\ disp' \in {disp, "handler"}
        /\ blocked' \subseteq Sig!All
    BY <1>1, Zenon DEF Sig!TSigsuspend, Sig!Over, SigInv, SigValues, Sig!All, Sig!Standard
  <2>3. SigMask'
    BY <1>1, <2>1, Zenon DEF SigInv, SigMask, Sig!TSigsuspend
  <2> QED
    BY <2>1, <2>2, <2>3, SigQuiet, Zenon
<1>2. CASE Sig!TSigsuspendPause
  <2>1. kind = "t_sigsuspend_pause" /\ UNCHANGED <<kind, pending, rt, caught, sent, flag, pipe, input>> /\ cnt' \in {0, cnt}
    BY <1>2, Zenon DEF Sig!TSigsuspendPause
  <2>2. pc' # "killed" /\ disp' \in {disp, "handler"} /\ blocked' \in {{}, {"INT", "QUIT"}, blocked}
    BY <1>2, Zenon DEF Sig!TSigsuspendPause, Sig!Over
  <2>3. SigMask'
    BY <1>2, <2>1, Zenon DEF SigInv, SigMask, Sig!TSigsuspendPause
  <2>4. cnt' \in Nat
    BY <2>1, SMTT(30) DEF SigInv, SigValues
  <2>5. SigValues'
    BY <2>1, <2>2, <2>4, Zenon DEF SigInv, SigValues, Sig!All, Sig!Standard
  <2>6. SigCounted' /\ SigQueued' /\ SigInput'
    BY <2>1, Zenon DEF SigCounted, SigQueued, SigInput
  <2> QED
    BY <2>3, <2>5, <2>6, Zenon DEF SigInv
<1>3. CASE Sig!SigReceiver
  <2>1. kind = "sig_receiver" /\ UNCHANGED <<kind, pending, rt, caught, sent, flag, cnt, pipe, input>>
    BY <1>3, Zenon DEF Sig!SigReceiver
  <2>2. /\ pc \notin Sig!Over /\ pc' # "killed" /\ disp' \in {disp, "handler"}
        /\ blocked' \subseteq Sig!All
    BY <1>3, Zenon DEF Sig!SigReceiver, Sig!Over, SigInv, SigValues
  <2>3. SigMask'
    BY <1>3, <2>1, Zenon DEF SigInv, SigMask, Sig!SigReceiver
  <2> QED
    BY <2>1, <2>2, <2>3, SigQuiet, Zenon
<1>4. CASE Sig!CatchRtsigs
  <2>1. kind = "catch_rtsigs" /\ UNCHANGED <<kind, pending, rt, caught, sent, flag, cnt, pipe, input>>
    BY <1>4, Zenon DEF Sig!CatchRtsigs
  <2>2. /\ pc \notin Sig!Over /\ pc' # "killed" /\ disp' \in {disp, "handler"}
        /\ blocked' \subseteq Sig!All
    BY <1>4, Zenon DEF Sig!CatchRtsigs, Sig!Over, SigInv, SigValues
  <2>3. SigMask'
    BY <1>4, <2>1, Zenon DEF SigInv, SigMask, Sig!CatchRtsigs
  <2> QED
    BY <2>1, <2>2, <2>3, SigQuiet, Zenon
<1>5. CASE Sig!IgnorePendingSig
  <2>1. kind = "ignore_pending_sig" /\ UNCHANGED <<kind, rt, caught, flag, pipe, input>>
    BY <1>5, Zenon DEF Sig!IgnorePendingSig
  <2>2. SigMask'
    BY <1>5, <2>1, Zenon DEF SigInv, SigMask, Sig!IgnorePendingSig
  <2>3. SigQueued' /\ SigInput'
    BY <2>1, Zenon DEF SigQueued, SigInput
  <2>4. SigValues'
    <3>1. cnt' \in {cnt, 0} /\ (sent' = sent \/ sent' = [s \in DOMAIN sent |-> 0])
      BY <1>5, Zenon DEF Sig!IgnorePendingSig
    <3>2. cnt' \in Nat /\ sent' \in [Sig!All \cup {"key"} -> Nat]
      BY <3>1 DEF SigInv, SigValues
    <3>3. disp' \in {disp, "handler", "ignore"} /\ pending' \subseteq pending /\ blocked' \in {{}, {"INT"}, blocked}
      BY <1>5, Zenon DEF Sig!IgnorePendingSig
    <3> QED
      BY <2>1, <3>2, <3>3, Zenon DEF SigInv, SigValues, Sig!All, Sig!Standard
  <2>5. SigCounted'
    <3>1. "INT" \in DOMAIN sent /\ SigCounted
      BY Zenon DEF SigInv, SigValues, Sig!All, Sig!Standard
    <3>2. pc' = "ignoring" => disp' = "ignore" /\ "INT" \notin pending'
      BY <1>5, Zenon DEF Sig!IgnorePendingSig
    <3>3. pc' = "again" => pc = "ignoring" /\ pending' = pending /\ cnt' = 0 /\ sent' = [s \in DOMAIN sent |-> 0]
      BY <1>5, Zenon DEF Sig!IgnorePendingSig
    <3>4. pc' \in {"exit", "done"} => pc \in {"again", "exit"} /\ UNCHANGED <<pending, cnt, sent>>
      BY <1>5, Zenon DEF Sig!IgnorePendingSig
    <3> QED
      BY <2>1, <3>1, <3>2, <3>3, <3>4 DEF SigCounted, SigPending
  <2> QED
    BY <2>2, <2>3, <2>4, <2>5, Zenon DEF SigInv
<1>6. CASE Sig!SelfPipe
  <2>1. kind = "self_pipe" /\ UNCHANGED <<kind, pending, rt, caught, sent, blocked, flag, cnt, input>>
    BY <1>6, Zenon DEF Sig!SelfPipe
  <2>2. pipe \in Nat /\ pipe' \in Nat /\ disp' \in {disp, "handler"}
    BY <1>6, SMTT(30) DEF Sig!SelfPipe, SigInv, SigValues
  <2>3. SigMask'
    BY <1>6, <2>1, Zenon DEF SigInv, SigMask, Sig!SelfPipe
  <2>4. SigValues'
    BY <2>1, <2>2, Zenon DEF SigInv, SigValues
  <2>5. SigCounted' /\ SigQueued'
    BY <2>1, Zenon DEF SigCounted, SigQueued
  <2>6. SigInput'
    BY <1>6, <2>1, Zenon DEF SigInv, SigInput, Sig!SelfPipe
  <2> QED
    BY <2>3, <2>4, <2>5, <2>6, Zenon DEF SigInv
<1>7. CASE Sig!DemoSigio
  <2>1. kind = "demo_sigio" /\ UNCHANGED <<kind, pending, rt, caught, sent, blocked, cnt, pipe>>
    BY <1>7, Zenon DEF Sig!DemoSigio
  <2>2. disp' \in {disp, "handler"} /\ input' \in {input, Tail(input)} /\ (input' # input => input # <<>>)
    BY <1>7, Zenon DEF Sig!DemoSigio
  <2>3. flag' \in BOOLEAN
    BY <1>7, Zenon DEF Sig!DemoSigio, SigInv, SigValues
  <2>4. input' \in Seq(Nat)
    <3>1. input \in Seq(Nat) /\ (input # <<>> => Tail(input) \in Seq(Nat))
      BY DEF SigInv, SigValues
    <3> QED
      BY <2>2, <3>1, Zenon
  <2>5. SigValues'
    BY <2>1, <2>2, <2>3, <2>4, Zenon DEF SigInv, SigValues
  <2>6. SigMask'
    BY <1>7, <2>1, Zenon DEF SigInv, SigMask, Sig!DemoSigio
  <2>7. SigCounted' /\ SigQueued'
    BY <2>1, Zenon DEF SigCounted, SigQueued
  <2>8. SigInput'
    BY <1>7, <2>1, Zenon DEF SigInv, SigInput, Sig!DemoSigio
  <2> QED
    BY <2>5, <2>6, <2>7, <2>8, Zenon DEF SigInv
<1> QED
  BY <1>1, <1>2, <1>3, <1>4, <1>5, <1>6, <1>7, Zenon DEF Sig!Program

\* Every step, the senders' included, preserves it.
LEMMA SigStep ==
  ASSUME SigInv, Sig!Next
  PROVE  SigInv'
BY SigSender, SigDeliver, SigDeliverRt, SigPrograms, Zenon DEF Sig!Next, Sig!Delivery

\* A step that leaves these programs alone preserves it.
LEMMA SigIdle ==
  ASSUME SigInv, UNCHANGED Sig!vars
  PROVE  SigInv'
<1>0. UNCHANGED <<kind, pc, pending, rt, blocked, disp, flag, cnt, caught, pipe, input, read, sent>>
  BY Zenon DEF Sig!vars
<1>1. SigValues' /\ SigMask'
  BY <1>0, Zenon DEF SigInv, SigValues, SigMask
<1>2. SigCounted'
  BY <1>0, Zenon DEF SigInv, SigCounted, SigPending
<1>3. SigQueued' /\ SigInput'
  BY <1>0, Zenon DEF SigInv, SigQueued, SigInput
<1> QED
  BY <1>1, <1>2, <1>3, Zenon DEF SigInv

-----------------------------------------------------------------------------
(* userns_child_exec *)

Userns == INSTANCE UsernsExec
ASSUME UsernsAssumption == Userns!Assumption

\* The parent has the write end until it has written the maps; the child that has read
\* end of file finds them.  With the map of -z the child stays root of the namespace, and
\* before execvp() -a has made the ambient set what is permitted.
UsernsValues ==
  /\ opts \in Userns!Options /\ uid \in {0, User}
  /\ caps \in BOOLEAN /\ inh \in BOOLEAN /\ amb \in BOOLEAN /\ secure \subseteq opts.secbits
  /\ ppc \in {"parse", "clone", "uid_map", "setgroups", "gid_map", "release", "wait", "done", "failed"}

UsernsMaps ==
  /\ ppc \in {"parse", "clone", "uid_map"} => uidMap = Unset
  /\ ppc \in {"setgroups", "gid_map", "release", "wait", "done"} => uidMap = Userns!WantedUidMap
  /\ ppc \in {"parse", "clone", "uid_map", "setgroups", "gid_map"} => gidMap = Unset
  /\ ppc \in {"release", "wait", "done"} => gidMap = Userns!WantedGidMap

UsernsPipe ==
  /\ ppc \in {"parse", "clone"} => cpc = "none"
  /\ ppc \in {"uid_map", "setgroups", "gid_map", "release"} => "parent" \in writers
  /\ Userns!Released => writers = {}

UsernsRoot ==
  /\ ppc \notin {"parse", "failed"} => Userns!Usable(opts)
  /\ ppc # "failed" /\ opts.root /\ opts.newuid \in {-1, 0} => cuid = uid

UsernsIInv ==
  /\ UsernsValues /\ UsernsMaps /\ UsernsPipe /\ UsernsRoot
  /\ cpc = "exec" /\ opts.ambient => amb = caps
  /\ Userns!RootKeepsCaps

\* The inductive invariant holds before clone().
LEMMA UsernsInit == Userns!Init => UsernsIInv
BY Zenon DEF Userns!Init, UsernsIInv, UsernsValues, UsernsMaps, UsernsPipe, UsernsRoot, Userns!Released,
       Userns!RootKeepsCaps

\* It implies that the maps are in place when the child runs the command.
LEMMA UsernsMapped == UsernsIInv => Userns!MapsInPlace
BY Zenon DEF UsernsIInv, UsernsValues, UsernsMaps, UsernsPipe, Userns!Released, Userns!Mapped, Userns!MapsInPlace

\* A step of the parent after clone(): the child's part of the state stays.
LEMMA UsernsWrites ==
  ASSUME UsernsIInv,
         Userns!WriteUidMap \/ Userns!WriteSetgroups \/ Userns!WriteGidMap \/ Userns!Release \/ Userns!Wait
  PROVE  UsernsIInv'
<1> USE DEF Userns!ParentFails, Userns!creds
<1>1. /\ UNCHANGED <<opts, uid, cpc, cuid, caps, inh, amb, secure>>
      /\ ppc \in {"uid_map", "setgroups", "gid_map", "release", "wait"}
      /\ ppc' \in {"setgroups", "gid_map", "release", "wait", "done", "failed"}
  BY Zenon DEF Userns!WriteUidMap, Userns!WriteSetgroups, Userns!WriteGidMap, Userns!Release, Userns!Wait,
         Userns!proc_setgroups_write
<1>2. UsernsValues' /\ UsernsRoot'
  BY <1>1, ZenonT(60) DEF UsernsIInv, UsernsValues, UsernsRoot, Userns!Usable, Userns!Options
<1>3. UsernsMaps'
  BY Zenon DEF UsernsIInv, UsernsMaps, Userns!WantedUidMap, Userns!WantedGidMap, Userns!WriteUidMap,
         Userns!WriteSetgroups, Userns!WriteGidMap, Userns!Release, Userns!Wait, Userns!proc_setgroups_write
<1>4. UsernsPipe'
  BY Zenon DEF UsernsIInv, UsernsPipe, Userns!Released, Userns!WriteUidMap, Userns!WriteSetgroups,
         Userns!WriteGidMap, Userns!Release, Userns!Wait, Userns!proc_setgroups_write
<1>5. Userns!RootKeepsCaps' /\ (cpc = "exec" /\ opts.ambient => amb = caps)'
  BY <1>1, Zenon DEF UsernsIInv, Userns!RootKeepsCaps
<1> QED
  BY <1>2, <1>3, <1>4, <1>5, Zenon DEF UsernsIInv

\* A step of the parent, writing a map or closing the pipe, preserves it.
LEMMA UsernsParent ==
  ASSUME UsernsIInv, Userns!Parent
  PROVE  UsernsIInv'
<1> USE DEF UsernsIInv, UsernsValues, UsernsMaps, UsernsPipe, UsernsRoot, Userns!Released,
            Userns!RootKeepsCaps, Userns!Usable, Userns!Options, Userns!creds
<1>1. CASE Userns!Parse
  BY <1>1, ZenonT(60) DEF Userns!Parse
<1>2. CASE Userns!Clone
  BY <1>2, ZenonT(60) DEF Userns!Clone
<1> QED
  BY <1>1, <1>2, UsernsWrites, Zenon DEF Userns!Parent

\* A step of the child: the parent's part of the state stays.
LEMMA UsernsChildKeeps ==
  ASSUME UsernsIInv, NEW from, NEW to, Userns!ChildStep(from, to), from # "none",
         Userns!Released' => writers' = {}, writers' \in {writers, writers \ {"child"}}
  PROVE  UsernsMaps' /\ UsernsPipe' /\ (ppc \notin {"parse", "failed"} => Userns!Usable(opts))'
<1> USE DEF UsernsIInv, Userns!ChildStep, Userns!parent
<1>1. UsernsMaps'
  BY Zenon DEF UsernsMaps, Userns!WantedUidMap, Userns!WantedGidMap
<1>2. UsernsPipe'
  BY Zenon DEF UsernsPipe
<1> QED
  BY <1>1, <1>2, Zenon DEF UsernsRoot, Userns!Usable

\* The child that is root of the namespace because of -z keeps that ID.
LEMMA UsernsRootId ==
  ASSUME UsernsIInv, Userns!Released, ppc # "failed", opts.root
  PROVE  /\ opts.newuser /\ uidMap = [i \in {0} |-> uid] /\ uidMap # Unset
         /\ Userns!Inner(uid) = 0 /\ DOMAIN Userns!OuterIds = {0} /\ Userns!OuterIds[0] = uid
<1>1. uidMap = [i \in {0} |-> uid] /\ ppc \notin {"parse", "failed"}
  BY UsernsMapped, Zenon DEF Userns!MapsInPlace, Userns!Mapped, Userns!WantedUidMap, UsernsIInv, UsernsPipe, Userns!Released
<1>2. opts.newuser /\ uidMap # Unset
  BY <1>1, UsernsAssumption, Zenon DEF Userns!Assumption, UsernsIInv, UsernsRoot, UsernsValues, Userns!Usable
<1>3. Userns!Inner(uid) = 0
  <2>1. DOMAIN uidMap = {0} /\ uidMap[0] = uid
    BY <1>1, Zenon
  <2>2. (CHOOSE i \in DOMAIN uidMap : uidMap[i] = uid) = 0
    BY <2>1, Zenon
  <2> QED
    BY <1>2, <2>1, <2>2, Zenon DEF Userns!Inner
<1> QED
  BY <1>1, <1>2, <1>3, Zenon DEF Userns!OuterIds

\* A step of the child, from the read on the pipe to execvp(), preserves it.
LEMMA UsernsChild ==
  ASSUME UsernsIInv, Userns!Child
  PROVE  UsernsIInv'
<1> USE DEF Userns!creds, Userns!parent, Userns!ChildStep
<1>1. /\ UsernsMaps' /\ UsernsPipe' /\ (ppc \notin {"parse", "failed"} => Userns!Usable(opts))'
      /\ UNCHANGED <<opts, uid, ppc, uidMap, gidMap>>
  <2>1. PICK from, to :
          /\ Userns!ChildStep(from, to) /\ from # "none" /\ writers' \in {writers, writers \ {"child"}}
          /\ to \in {"read", "failed"} \/ writers = {} \/ from \in {"secbits", "setuid", "ambient", "exec", "running"}
    BY Zenon DEF Userns!Child, Userns!ChildClose, Userns!ChildRead, Userns!SetSecurebits, Userns!SetUid,
           Userns!raiseAmbientCaps, Userns!Exec, Userns!Command
  <2>2. Userns!Released' => writers' = {}
    BY <2>1, Zenon DEF UsernsIInv, UsernsPipe, Userns!Released
  <2> QED
    BY <2>1, <2>2, UsernsChildKeeps, Zenon
<1>2. CASE Userns!SetUid
  <2>1. ASSUME ppc # "failed", opts.root, opts.newuid \in {-1, 0}
        PROVE  cuid' = uid
    <3>1. Userns!Released /\ cuid = uid
      BY <1>2, <2>1, Zenon DEF Userns!SetUid, Userns!Released, UsernsIInv, UsernsRoot
    <3> QED
      BY <1>2, <2>1, <3>1, UsernsRootId, Zenon DEF Userns!SetUid, Userns!MaySetUid
  <2>2. UsernsValues'
    BY <1>2, Zenon DEF Userns!SetUid, UsernsIInv, UsernsValues
  <2> QED
    BY <1>1, <1>2, <2>1, <2>2, Zenon DEF Userns!SetUid, UsernsIInv, UsernsRoot, Userns!RootKeepsCaps
<1>3. CASE Userns!Exec
  <2>1. Userns!RootKeepsCaps'
    <3>1. SUFFICES ASSUME cpc' = "running", opts.root, ppc # "failed", opts.newuid \in {-1, 0}, "noroot" \notin opts.secbits
                   PROVE  caps'
      BY <1>1, Zenon DEF Userns!RootKeepsCaps
    <3>2. Userns!Released /\ cuid = uid /\ "noroot" \notin secure
      BY <1>3, <3>1, Zenon DEF Userns!Exec, Userns!Released, UsernsIInv, UsernsRoot, UsernsValues
    <3>3. Userns!Inner(cuid) = 0
      BY <3>1, <3>2, UsernsRootId, Zenon
    <3> QED
      BY <1>3, <3>1, <3>2, <3>3, Zenon DEF Userns!Exec
  <2>2. UsernsValues'
    BY <1>3, Zenon DEF Userns!Exec, UsernsIInv, UsernsValues
  <2> QED
    BY <1>1, <1>3, <2>1, <2>2, Zenon DEF Userns!Exec, UsernsIInv, UsernsRoot
<1> USE DEF UsernsIInv, UsernsValues, UsernsRoot, Userns!RootKeepsCaps
<1>4. CASE Userns!ChildClose \/ Userns!ChildRead
  BY <1>1, <1>4, Zenon DEF Userns!ChildClose, Userns!ChildRead
<1>5. CASE Userns!SetSecurebits
  BY <1>1, <1>5, Zenon DEF Userns!SetSecurebits
<1>6. CASE Userns!raiseAmbientCaps
  BY <1>1, <1>6, Zenon DEF Userns!raiseAmbientCaps, Userns!modifyCapSetting
<1>7. CASE Userns!Command
  BY <1>1, <1>7, Zenon DEF Userns!Command
<1> QED
  BY <1>2, <1>3, <1>4, <1>5, <1>6, <1>7, Zenon DEF Userns!Child

\* What execvp() does with the ambient set.
LEMMA UsernsExecKeeps ==
  ASSUME UsernsIInv, Userns!Exec
  PROVE  Userns!ExecKeepsCaps
BY Zenon DEF UsernsIInv, UsernsValues, Userns!Exec, Userns!ExecKeepsCaps, Userns!ChildStep

\* The values of the other variables: the child has the ID of a map.
UsernsTypes ==
  /\ cuid \in Int
  /\ cpc \in {"none", "close", "read", "secbits", "setuid", "ambient", "exec", "running", "failed", "done"}
  /\ uidMap \in {Unset, Userns!WantedUidMap} /\ gidMap \in {Unset, Userns!WantedGidMap}
  /\ setgroups \in {"allow", "deny", "absent"} /\ writers \subseteq {"parent", "child"}

\* The types of the parts make up the type invariant.
LEMMA UsernsTyped == UsernsValues /\ UsernsTypes => Userns!TypeOK
BY Zenon DEF UsernsValues, UsernsTypes, Userns!TypeOK

\* They hold before clone().
LEMMA UsernsInitTypes == Userns!Init => UsernsTypes
<1> SUFFICES ASSUME Userns!Init
             PROVE  UsernsTypes
  BY Zenon
<1>1. cuid \in Int
  BY UsernsAssumption DEF Userns!Assumption, Userns!Init
<1> QED
  BY <1>1, Zenon DEF Userns!Init, UsernsTypes

\* The id a map line names outside the namespace is a number.
LEMMA UsernsOuter ==
  ASSUME UsernsValues, UsernsTypes, NEW i \in DOMAIN Userns!OuterIds
  PROVE  Userns!OuterIds[i] \in Int
<1>1. CASE ~opts.newuser
  <2>1. Userns!OuterIds = [j \in {0, 1, User} |-> j]
    BY <1>1, Zenon DEF Userns!OuterIds
  <2> QED
    BY <2>1, UsernsAssumption DEF Userns!Assumption
<1>2. CASE opts.newuser /\ uidMap = Unset
  <2>1. Userns!OuterIds = <<>>
    BY <1>2, Zenon DEF Userns!OuterIds
  <2> QED
    BY <2>1
<1>3. CASE opts.newuser /\ uidMap # Unset
  <2>1. Userns!OuterIds = uidMap /\ uidMap = Userns!WantedUidMap
    BY <1>3, Zenon DEF Userns!OuterIds, UsernsTypes
  <2>2. CASE opts.root
    <3>1. uidMap = [j \in {0} |-> uid] /\ uid \in Int
      BY <2>1, <2>2, UsernsAssumption, SMTT(30) DEF Userns!Assumption, Userns!WantedUidMap, UsernsValues
    <3> QED
      BY <2>1, <3>1, Zenon
  <2>3. CASE ~opts.root
    <3>1. uidMap \in UidMaps
      BY <1>3, <2>1, <2>3, Zenon DEF Userns!WantedUidMap, UsernsValues, Userns!Options
    <3> QED
      BY <2>1, <3>1, UsernsAssumption, Zenon DEF Userns!Assumption
  <2> QED
    BY <2>2, <2>3, Zenon
<1> QED
  BY <1>1, <1>2, <1>3, Zenon

\* Every step preserves them.
LEMMA UsernsTypesStep ==
  ASSUME UsernsValues, UsernsTypes, Userns!Next
  PROVE  UsernsTypes'
<1> USE DEF Userns!creds, Userns!parent
<1>1. UNCHANGED <<opts, uid>>
  BY Zenon DEF Userns!Next, Userns!Parent, Userns!Child, Userns!Parse, Userns!Clone, Userns!WriteUidMap, Userns!WriteSetgroups,
     Userns!WriteGidMap, Userns!Release, Userns!Wait, Userns!ChildClose, Userns!ChildRead, Userns!SetSecurebits, Userns!SetUid,
     Userns!raiseAmbientCaps, Userns!Exec, Userns!Command, Userns!ChildStep
<1>2. Userns!WantedUidMap' = Userns!WantedUidMap /\ Userns!WantedGidMap' = Userns!WantedGidMap
  BY <1>1, Zenon DEF Userns!WantedUidMap, Userns!WantedGidMap
<1>3. cuid' \in Int
  <2>1. CASE Userns!SetUid
    BY <2>1, UsernsOuter, Zenon DEF Userns!SetUid, Userns!MaySetUid, UsernsTypes
  <2>2. CASE ~Userns!SetUid
    <3>1. cuid' = cuid
      BY <2>2, Zenon DEF Userns!Next, Userns!Parent, Userns!Child, Userns!Parse, Userns!Clone, Userns!WriteUidMap,
         Userns!WriteSetgroups, Userns!WriteGidMap, Userns!Release, Userns!Wait, Userns!ChildClose, Userns!ChildRead,
         Userns!SetSecurebits, Userns!raiseAmbientCaps, Userns!Exec, Userns!Command
    <3> QED
      BY <3>1, Zenon DEF UsernsTypes
  <2> QED
    BY <2>1, <2>2, Zenon
<1>4. CASE Userns!Parent
  BY <1>2, <1>3, <1>4, Zenon DEF UsernsTypes, Userns!Parent, Userns!Parse, Userns!Clone, Userns!WriteUidMap, Userns!WriteSetgroups,
     Userns!WriteGidMap, Userns!Release, Userns!Wait, Userns!ParentFails, Userns!proc_setgroups_write
<1>5. CASE Userns!Child
  BY <1>2, <1>3, <1>5, Zenon DEF UsernsTypes, Userns!Child, Userns!ChildClose, Userns!ChildRead, Userns!SetSecurebits, Userns!SetUid,
     Userns!raiseAmbientCaps, Userns!Exec, Userns!Command, Userns!ChildStep
<1> QED
  BY <1>4, <1>5, Zenon DEF Userns!Next

-----------------------------------------------------------------------------
(* simple_init, with commands that leave no process behind *)

Alone == INSTANCE SimpleInit WITH Orphans <- FALSE

\* At most the child that init has created last is alive, and only while init is on
\* its way into pause() or there; a SIGCHLD is pending or being handled only when
\* that child is gone, so none is left to come once init is past pause().
AloneIInv ==
  /\ Alone!TypeOK
  /\ \A p \in Procs : state[p] \in Alone!Living =>
       p = cur /\ ipc \in {"pause", "paused"} /\ ~sigchld /\ ~inHandler
  /\ ipc \in {"start", "foreground", "prompt"} => ~sigchld
  /\ Alone!PromptInForeground

\* The inductive invariant of simple_init.c holds when it begins.
LEMMA AloneInit == Alone!Init => AloneIInv
BY Zenon DEF Alone!Init, AloneIInv, Alone!TypeOK, Alone!Living, Alone!PromptInForeground

\* Every step of simple_init.c preserves it.
LEMMA AloneNext ==
  ASSUME AloneIInv, Alone!Next
  PROVE  AloneIInv'
<1> USE DEF AloneIInv, Alone!TypeOK, Alone!Living, Alone!PromptInForeground, Alone!ivars
<1>1. CASE Alone!Start
  BY <1>1, Zenon DEF Alone!Start
<1>2. CASE Alone!Pause
  BY <1>2, Zenon DEF Alone!Pause
<1>3. CASE Alone!Foreground
  BY <1>3, Zenon DEF Alone!Foreground
<1>4. CASE Alone!Deliver
  BY <1>4, Zenon DEF Alone!Deliver
<1>5. CASE Alone!ChildHandler
  BY <1>5, Zenon DEF Alone!ChildHandler, Alone!Zombies, Alone!Become
<1>6. CASE Alone!Command
  BY <1>6, Zenon DEF Alone!Command, Alone!Become
<1>7. CASE Alone!Exit
  BY <1>7, Zenon DEF Alone!Exit
<1>8. ASSUME NEW p \in Procs, Alone!Die(p)
      PROVE  AloneIInv'
  BY <1>8, Zenon DEF Alone!Die, Alone!Become
<1>9. ASSUME NEW p \in Procs, Alone!Exec(p)
      PROVE  AloneIInv'
  BY <1>9, Zenon DEF Alone!Exec, Alone!Become
<1>10. ASSUME NEW p \in Procs, Alone!Stop(p)
       PROVE  AloneIInv'
  BY <1>10, Zenon DEF Alone!Stop, Alone!Become
<1>11. ASSUME NEW p \in Procs, Alone!Orphan(p)
       PROVE  FALSE
  BY <1>11, Zenon DEF Alone!Orphan
<1> QED
  BY <1>1, <1>2, <1>3, <1>4, <1>5, <1>6, <1>7, <1>8, <1>9, <1>10, <1>11, Zenon DEF Alone!Next, Alone!InitStep

-----------------------------------------------------------------------------
(* simple_init, with commands that leave processes behind *)

Adopts == INSTANCE SimpleInit WITH Orphans <- TRUE

\* A state of simple_init.c on its own is one of the init that adopts orphans.
LEMMA AloneTypes == Alone!TypeOK => Adopts!TypeOK
BY Zenon DEF Alone!TypeOK, Alone!Living, Adopts!TypeOK, Adopts!Living

\* The types of the init that adopts orphans hold when it begins.
LEMMA AdoptsInit == Adopts!Init => Adopts!TypeOK
BY Zenon DEF Adopts!Init, Adopts!TypeOK, Adopts!Living

\* Every step of it preserves them.
LEMMA AdoptsNext ==
  ASSUME Adopts!TypeOK, Adopts!Next
  PROVE  Adopts!TypeOK'
<1> USE DEF Adopts!TypeOK, Adopts!Living, Adopts!ivars, Adopts!Become
<1>1. CASE Adopts!InitStep
  <2>1. CASE Adopts!Start \/ Adopts!Pause \/ Adopts!Foreground
    BY <2>1, Zenon DEF Adopts!Start, Adopts!Pause, Adopts!Foreground
  <2>2. CASE Adopts!Deliver
    BY <2>2, Zenon DEF Adopts!Deliver
  <2>3. CASE Adopts!ChildHandler
    BY <2>3, Zenon DEF Adopts!ChildHandler, Adopts!Zombies
  <2> QED
    BY <1>1, <2>1, <2>2, <2>3, Zenon DEF Adopts!InitStep
<1>2. CASE Adopts!Command
  BY <1>2, Zenon DEF Adopts!Command
<1>3. CASE Adopts!Exit
  BY <1>3, Zenon DEF Adopts!Exit
<1>4. ASSUME NEW p \in Procs, Adopts!Die(p) \/ Adopts!Exec(p) \/ Adopts!Stop(p) \/ Adopts!Orphan(p)
      PROVE  Adopts!TypeOK'
  <2>1. PICK s \in {"zombie"} \cup Adopts!Living : state' = [state EXCEPT ![p] = s]
    BY <1>4, Zenon DEF Adopts!Die, Adopts!Exec, Adopts!Stop, Adopts!Orphan
  <2>2. fg' \in Procs \cup {Me, "parent"} /\ sigchld' \in BOOLEAN /\ UNCHANGED <<ipc, cur, mounted, inHandler>>
    BY <1>4, Zenon DEF Adopts!Die, Adopts!Exec, Adopts!Stop, Adopts!Orphan
  <2> QED
    BY <2>1, <2>2, Zenon
<1> QED
  BY <1>1, <1>2, <1>3, <1>4, Zenon DEF Adopts!Next

-----------------------------------------------------------------------------
(* The programs of module Children *)

Kids == INSTANCE Children_proofs WITH blocked <- masked, pend <- sigpend, caught <- calls
ASSUME KidsAssumption == Kids!Assumption

-----------------------------------------------------------------------------
(* The programs of module Sessions *)

Tty == INSTANCE Sessions_proofs WITH cpc <- cpcPty
ASSUME TtyAssumption == Tty!Assumption

-----------------------------------------------------------------------------
(* The programs together *)

\* Maps of one and of two IDs, of the user's own ID and of subordinate ones.
SomeUidMaps == {[i \in {0} |-> 2], [i \in {1} |-> 2], [i \in {0, 1} |-> 3 - i], [i \in {0, 1} |-> 3 * i]}
SomeGidMaps == {[i \in {0} |-> 2]}
SomeNewUids == {-1, 0, 1}

init == <<ipc, cur, state, fg, sigchld, inHandler, mounted>>
userns == <<opts, uid, ppc, cpc, uidMap, gidMap, setgroups, writers, cuid, caps, inh, amb, secure>>
signals == <<pending, rt, blocked, disp, flag, cnt, caught, pipe, input, read, sent>>
timers == <<interval, armed, due, pend, over, last, count, gotAlarm, hand, mtx, thr, overlap>>
sleeps == <<req, length, begin, now, gap, total, ints, bpc, cpu, prev, loops, run, children>>
kids == <<kid, masked, sigpend, live, calls, env, status, changed, wr, rd, buf, back, left, out>>
sessions == <<tty, wish, saved, ours, ret, tdisp, tmask, tpend, hup, conf, asked, got, slept, session, eof,
              typed, toShell, fromShell, written, shown, script, shell, ready, fds, cfds, cpcPty, arg,
              member, orphaned>>
vars == <<program, init, userns, kind, pc, signals, timers, sleeps, kids, sessions>>

NoInit == ipc = 0 /\ cur = 0 /\ state = 0 /\ fg = 0 /\ sigchld = 0 /\ inHandler = 0 /\ mounted = 0
NoUserns == /\ opts = 0 /\ uid = 0 /\ ppc = 0 /\ cpc = 0 /\ uidMap = 0 /\ gidMap = 0 /\ setgroups = 0
            /\ writers = 0 /\ cuid = 0 /\ caps = 0 /\ inh = 0 /\ amb = 0 /\ secure = 0
NoKind == kind = 0 /\ pc = 0
NoSignals == /\ pending = 0 /\ rt = 0 /\ blocked = 0 /\ disp = 0 /\ flag = 0
             /\ cnt = 0 /\ caught = 0 /\ pipe = 0 /\ input = 0 /\ read = 0 /\ sent = 0
NoTimers == /\ interval = 0 /\ armed = 0 /\ due = 0 /\ pend = 0 /\ over = 0 /\ last = 0 /\ count = 0
            /\ gotAlarm = 0 /\ hand = 0 /\ mtx = 0 /\ thr = 0 /\ overlap = 0
NoSleeps == /\ req = 0 /\ length = 0 /\ begin = 0 /\ now = 0 /\ gap = 0 /\ total = 0 /\ ints = 0
            /\ bpc = 0 /\ cpu = 0 /\ prev = 0 /\ loops = 0 /\ run = 0 /\ children = 0
NoKids == /\ kid = 0 /\ masked = 0 /\ sigpend = 0 /\ live = 0 /\ calls = 0 /\ env = 0 /\ status = 0
          /\ changed = 0 /\ wr = 0 /\ rd = 0 /\ buf = 0 /\ back = 0 /\ left = 0 /\ out = 0
NoSessions == /\ tty = 0 /\ wish = 0 /\ saved = 0 /\ ours = 0 /\ ret = 0 /\ tdisp = 0 /\ tmask = 0
              /\ tpend = 0 /\ hup = 0 /\ conf = 0 /\ asked = 0 /\ got = 0 /\ slept = 0 /\ session = 0
              /\ eof = 0 /\ typed = 0 /\ toShell = 0 /\ fromShell = 0 /\ written = 0 /\ shown = 0
              /\ script = 0 /\ shell = 0 /\ ready = 0 /\ fds = 0 /\ cfds = 0 /\ cpcPty = 0 /\ arg = 0
              /\ member = 0 /\ orphaned = 0

Init ==
  \/ /\ program = "simple_init" /\ Adopts!Init
     /\ NoUserns /\ NoKind /\ NoSignals /\ NoTimers /\ NoSleeps /\ NoKids /\ NoSessions
  \/ /\ program = "simple_init_alone" /\ Alone!Init
     /\ NoUserns /\ NoKind /\ NoSignals /\ NoTimers /\ NoSleeps /\ NoKids /\ NoSessions
  \/ /\ program = "userns_child_exec" /\ Userns!Init
     /\ NoInit /\ NoKind /\ NoSignals /\ NoTimers /\ NoSleeps /\ NoKids /\ NoSessions
  \/ program = "signals" /\ Sig!Init /\ NoInit /\ NoUserns /\ NoTimers /\ NoSleeps /\ NoKids /\ NoSessions
  \/ program = "timers" /\ Time!Init /\ NoInit /\ NoUserns /\ NoSignals /\ NoSleeps /\ NoKids /\ NoSessions
  \/ program = "sleeps" /\ Nap!Init /\ NoInit /\ NoUserns /\ NoSignals /\ NoTimers /\ NoKids /\ NoSessions
  \/ program = "children" /\ Kids!Init /\ NoInit /\ NoUserns /\ NoSignals /\ NoTimers /\ NoSleeps /\ NoSessions
  \/ program = "sessions" /\ Tty!Init /\ NoInit /\ NoUserns /\ NoSignals /\ NoTimers /\ NoSleeps /\ NoKids

Runs(p, A, others) == program = p /\ A /\ UNCHANGED <<program, others>>
AdoptsRuns(A) == Runs("simple_init", A, <<userns, kind, pc, signals, timers, sleeps, kids, sessions>>)
AloneRuns(A) == Runs("simple_init_alone", A, <<userns, kind, pc, signals, timers, sleeps, kids, sessions>>)
UsernsRuns(A) == Runs("userns_child_exec", A, <<init, kind, pc, signals, timers, sleeps, kids, sessions>>)
SignalsRuns(A) == Runs("signals", A, <<init, userns, timers, sleeps, kids, sessions>>)
TimersRuns(A) == Runs("timers", A, <<init, userns, signals, sleeps, kids, sessions>>)
SleepsRuns(A) == Runs("sleeps", A, <<init, userns, signals, timers, kids, sessions>>)
KidsRuns(A) == Runs("children", A, <<init, userns, signals, timers, sleeps, sessions>>)
TtyRuns(A) == Runs("sessions", A, <<init, userns, signals, timers, sleeps, kids>>)

Next == \/ AdoptsRuns(Adopts!Next) \/ AloneRuns(Alone!Next) \/ UsernsRuns(Userns!Next)
        \/ SignalsRuns(Sig!Next) \/ TimersRuns(Time!Next) \/ SleepsRuns(Nap!Next)
        \/ KidsRuns(Kids!Next) \/ TtyRuns(Tty!Next)

\* Init runs, and its child gets as far as its command; so do the parent and the
\* child of userns_child_exec, and the programs that wait for signals, which are
\* delivered.  Programs, their threads and their children run, timers expire and their
\* notifications arrive.  No command need end, no signal need be sent, and nobody need type.
\* (One condition for the first actors of all programs is one for each: program never changes.)
First == \/ AdoptsRuns(Adopts!InitStep) \/ AloneRuns(Alone!InitStep) \/ UsernsRuns(Userns!Parent)
         \/ SignalsRuns(Sig!Program) \/ TimersRuns(Time!Main) \/ KidsRuns(Kids!Main) \/ TtyRuns(Tty!Main)
Second == \/ UsernsRuns(Userns!Child) \/ SignalsRuns(Sig!Delivery) \/ TimersRuns(Time!Delivery)
          \/ KidsRuns(Kids!Child)
Fairness ==
  /\ WF_vars(First) /\ WF_vars(Second)
  /\ \A p \in Procs : WF_vars(AdoptsRuns(Adopts!Exec(p)) \/ AloneRuns(Alone!Exec(p)))
  /\ \A s \in Time!Slots : WF_vars(TimersRuns(Time!ThreadFunc(s)))
  /\ \A i \in Time!Ids : WF_vars(TimersRuns(Time!Expire(i)))
  /\ \A m \in Tty!Members : WF_vars(TtyRuns(Tty!OrphanedMember(m) \/ Tty!DiscMember(m)))

FairSpec == Init /\ [][Next]_vars /\ Fairness
-----------------------------------------------------------------------------
IsInit == program \in {"simple_init", "simple_init_alone"}
IsUserns == program = "userns_child_exec"
IsSignals == program = "signals"
IsTimers == program = "timers"
IsSleeps == program = "sleeps"
IsKids == program = "children"
IsTty == program = "sessions"

\* The values of the variables of the program that runs.
TypeOK == CASE IsInit -> Adopts!TypeOK [] IsUserns -> Userns!TypeOK [] IsSignals -> Sig!TypeOK
            [] IsTimers -> Time!TypeOK [] IsSleeps -> Nap!TypeOK [] IsKids -> Kids!TypeOK [] IsTty -> Tty!TypeOK

\* "ensure that the 'init' program is the foreground process group": init does
\* not read a command while another process group has the terminal.  True only as
\* long as no other process of the namespace can end pause().
PromptInForeground == program = "simple_init_alone" => Alone!PromptInForeground

\* "pause(); /* Will be interrupted by signal handler */": init does not stay in
\* pause() when the child that it has created is gone.
PauseInterrupted ==
  (IsInit /\ ipc = "pause") ~>
    (IsInit /\ (ipc \notin {"pause", "paused"} \/ (cur \in Procs /\ state[cur] \in {"running", "stopped"})))

\* userns_child_exec: the pipe is there to "ensure that the parent sets the UID and
\* GID maps before the child calls execve()".  That is so unless the parent fails; and
\* then, the common case of the comment in main(), a command that is executed as root
\* of the new namespace has the capabilities of the namespace.  With -a, "preserve all
\* possible capabilities across execve()": it takes none away, whatever IDs and
\* securebits the child has set.
CommandEquipped ==
  /\ [](IsUserns => Userns!MapsInPlace /\ Userns!RootKeepsCaps)
  /\ [][UsernsRuns(Userns!Exec) => Userns!ExecKeepsCaps]_vars

\* What a program prints is true when it prints it, however signals, children and clocks
\* interleave with it: the signals caught are the signals sent, the timers' expirations are counted with their overruns, an absolute sleep
\* ends at its time and a relative one is late by the time between its parts, the burners
\* report the second that has passed; parents report the ends and the changes of their
\* children, an end of file means that the writers are done, execlp() gives the errno it
\* should; and script shows all the shell has written.
ReportsTrue ==
  /\ IsSignals => Sig!SignalsAccounted
  /\ IsTimers => Time!ExpirationsCounted /\ Time!EndsRight
  /\ IsSleeps => Nap!NoCreep /\ Nap!ReportsCurrent
  /\ IsKids => Kids!ReportsTrue /\ Kids!EndOfFileMeansDone /\ Kids!ExeclpErrno
  /\ IsTty => Tty!NothingUnseen

\* What a program changes for a while it puts back: system() the signal mask and the
\* dispositions of its caller, whose children it leaves alone; the programs that change the
\* settings of the terminal the user's settings, whenever the user has the terminal;
\* and ptyFork() closes the descriptors it does not return.
Restored ==
  /\ IsKids => Kids!SystemTransparent
  /\ IsTty => Tty!TtyRestored /\ Tty!PtyDescriptors

\* No wake-up is lost.  A signal that ends a loop does so, although it may arrive at any
\* point: t_sigsuspend unblocks it only in sigsuspend(), self_pipe turns it into input,
\* and demo_sigio clears its flag before it reads.  The programs that wait for children, for
\* an end of file, for an expiration or for the shell end when what they wait for
\* has happened (a timed read unless its alarm came before it blocked); a notification
\* counted while main() waits for one is printed; and a SIGHUP makes the daemon read the
\* configuration file as it was then, or later.  Every process of simple_init that ends
\* is reaped, adopted ones included, although SIGCHLD is not queued and children end while
\* child_handler() runs; and the child of userns_child_exec is never left waiting on
\* the pipe.
ProgramsEnd ==
  \A p \in Procs :
    (\/ IsInit /\ state[p] = "zombie"
     \/ IsUserns /\ cpc # "none"
     \/ IsSignals /\ kind \in {"t_sigsuspend", "sig_receiver"} /\ flag
     \/ IsSignals /\ kind = "self_pipe" /\ pc = "select" /\ cnt > 0
     \/ IsSignals /\ kind = "demo_sigio" /\ \E i \in 1..Len(input) : input[i] = Sig!Hash
     \/ IsKids /\ (kind # "child_status" \/ kid[1] = "zombie")
     \/ IsTty /\ kind = "daemon_SIGHUP" /\ got < asked
     \/ IsTty /\ kind \in Tty!Relays /\ shell = "gone"
     \/ IsTty /\ kind \in Tty!Groups /\ \E m \in Tty!Members : member[m] = "start"
     \/ IsTimers /\ 1 \in armed /\ (kind = "real_timer" \/ (kind = "demo_timerfd" /\ interval))
     \/ IsTimers /\ 1 \in armed /\ kind \in {"timed_read", "simple_timed_read"} /\ pc = "calling"
     \/ IsTimers /\ kind = "ptmr_sigev_thread" /\ gotAlarm)
    ~>
    (\/ IsInit /\ state[p] = "reaped"
     \/ IsUserns /\ cpc \in {"done", "failed"}
     \/ IsSignals /\ kind # "self_pipe" /\ pc \in Sig!Over
     \/ IsSignals /\ kind = "self_pipe" /\ pc \in {"report", "killed"}
     \/ IsKids /\ Kids!Ends
     \/ IsTty /\ kind = "daemon_SIGHUP" /\ (got >= asked \/ pc \in Tty!Over)
     \/ IsTty /\ kind \in Tty!Relays /\ pc \in Tty!Over
     \/ IsTty /\ kind \in Tty!Groups /\ \A m \in Tty!Members : member[m] \in {"none", "ended", "stopped late"}
     \/ IsTimers /\ pc \in Time!Over
     \/ IsTimers /\ kind \in {"timed_read", "simple_timed_read"} /\ gotAlarm
     \/ IsTimers /\ kind = "ptmr_sigev_thread" /\ ~gotAlarm)
-----------------------------------------------------------------------------
(* Proofs *)

\* One conjunct per program: each keeps its own, and the variables of the others stay.
IInv ==
  /\ program \in {"simple_init", "simple_init_alone", "userns_child_exec", "signals", "timers", "sleeps", "children",
                  "sessions"}
  /\ program = "simple_init" => Adopts!TypeOK
  /\ program = "simple_init_alone" => AloneIInv
  /\ program = "userns_child_exec" => UsernsIInv /\ UsernsTypes
  /\ program = "signals" => SigInv
  /\ program = "timers" => TimeInv
  /\ program = "sleeps" => NapInv
  /\ program = "children" => Kids!IInv
  /\ program = "sessions" => Tty!IInv

\* The invariant of the suite holds when the chosen program begins.
LEMMA InitIInv == Init => IInv
<1> SUFFICES ASSUME Init
             PROVE  IInv
  BY Zenon
<1>1. /\ program = "simple_init" => Adopts!Init
      /\ program = "simple_init_alone" => Alone!Init
      /\ program = "userns_child_exec" => Userns!Init
      /\ program = "signals" => Sig!Init
      /\ program = "timers" => Time!Init
      /\ program = "sleeps" => Nap!Init
      /\ program = "children" => Kids!Init
      /\ program = "sessions" => Tty!Init
      /\ program \in {"simple_init", "simple_init_alone", "userns_child_exec", "signals", "timers", "sleeps", "children",
                      "sessions"}
  BY Zenon DEF Init
<1> QED
  BY <1>1, AdoptsInit, AloneInit, UsernsInit, UsernsInitTypes, SigInit, TimeInit, NapInit, Kids!Starts, KidsAssumption, Tty!Starts,
     TtyAssumption, Zenon DEF IInv, NapInv

\* A step that is not one of a program leaves its variables alone.
LEMMA AdoptsStays ==
  ASSUME Adopts!TypeOK, UNCHANGED init
  PROVE  Adopts!TypeOK'
BY Zenon DEF init, Adopts!TypeOK, Adopts!Living

\* A step that leaves simple_init.c alone preserves its invariant.
LEMMA AloneStays ==
  ASSUME AloneIInv, UNCHANGED init
  PROVE  AloneIInv'
BY Zenon DEF init, AloneIInv, Alone!TypeOK, Alone!Living, Alone!PromptInForeground

\* A step that leaves userns_exec.c alone preserves its invariants.
LEMMA UsernsStays ==
  ASSUME UsernsIInv, UsernsTypes, UNCHANGED userns
  PROVE  UsernsIInv' /\ UsernsTypes'
<1>1. UNCHANGED <<opts, uid, ppc, cpc, uidMap, gidMap, setgroups, writers, cuid, caps, inh, amb, secure>>
  BY Zenon DEF userns
<1>2. UsernsValues' /\ UsernsMaps' /\ UsernsPipe'
  BY <1>1, Zenon DEF UsernsIInv, UsernsValues, UsernsMaps, UsernsPipe, Userns!Released, Userns!WantedUidMap,
              Userns!WantedGidMap
<1>3. UsernsRoot' /\ Userns!RootKeepsCaps'
  BY <1>1, Zenon DEF UsernsIInv, UsernsRoot, Userns!Usable, Userns!RootKeepsCaps
<1>4. UsernsIInv'
  BY <1>1, <1>2, <1>3, Zenon DEF UsernsIInv
<1>5. UsernsTypes'
  BY <1>1, Zenon DEF UsernsTypes, Userns!WantedUidMap, Userns!WantedGidMap
<1> QED
  BY <1>4, <1>5, Zenon

\* Nothing happening preserves the invariant of the suite.
LEMMA StutterIInv ==
  ASSUME IInv, UNCHANGED vars
  PROVE  IInv'
<1>1. UNCHANGED <<program, init, userns, kind, pc, sessions>>
  BY Zenon DEF vars
<1>2. UNCHANGED Sig!vars
  BY Zenon DEF vars, signals, Sig!vars
<1>3. UNCHANGED Time!vars
  BY Zenon DEF vars, timers, Time!vars
<1>4. UNCHANGED Nap!vars
  BY Zenon DEF vars, sleeps, Nap!vars
<1>5. UNCHANGED Kids!vars
  BY Zenon DEF vars, kids, Kids!vars, Kids!sig, Kids!rest, Kids!pipe
<1>6. program = "timers" => TimeInv'
  BY <1>3, TimeStep, Zenon DEF IInv
<1>7. program = "children" => Kids!IInv'
  BY <1>5, Kids!Steps, KidsAssumption, Zenon DEF IInv
<1>8. UNCHANGED Tty!vars
  BY Zenon DEF vars, sessions, Tty!vars, Tty!terminal, Tty!stopping, Tty!daemon, Tty!relay, Tty!descriptors, Tty!group
<1>9. program = "sessions" => Tty!IInv'
  BY <1>8, Tty!Steps, TtyAssumption, Zenon DEF IInv
<1> QED
  BY <1>1, <1>2, <1>4, <1>6, <1>7, <1>9, AdoptsStays, AloneStays, UsernsStays, SigIdle, NapIdle, Zenon DEF IInv

\* Every step of the chosen program preserves it.
LEMMA NextIInv ==
  ASSUME IInv, [Next]_vars
  PROVE  IInv'
<1>1. CASE UNCHANGED vars
  BY <1>1, StutterIInv, Zenon
<1>2. CASE Next
  <2>1. /\ program' = program
        /\ program = "simple_init" => Adopts!Next
        /\ program = "simple_init_alone" => Alone!Next
        /\ program = "userns_child_exec" => Userns!Next
        /\ program = "signals" => Sig!Next
        /\ program = "timers" => Time!Next
        /\ program = "sleeps" => Nap!Next
        /\ program = "children" => Kids!Next
        /\ program = "sessions" => Tty!Next
    BY <1>2, Zenon DEF Next, Runs, AdoptsRuns, AloneRuns, UsernsRuns, SignalsRuns, TimersRuns, SleepsRuns, KidsRuns, TtyRuns
  <2>2. program = "userns_child_exec" => UsernsIInv' /\ UsernsTypes'
    <3> SUFFICES ASSUME program = "userns_child_exec"
                 PROVE  UsernsIInv' /\ UsernsTypes'
      BY Zenon
    <3>1. UsernsIInv /\ UsernsTypes /\ UsernsValues /\ Userns!Next
      BY <2>1, Zenon DEF IInv, UsernsIInv
    <3> QED
      BY <3>1, UsernsParent, UsernsChild, UsernsTypesStep, Zenon DEF Userns!Next
  <2>3. program = "timers" => TimeInv'
    BY <2>1, TimeStep, Zenon DEF IInv
  <2>4. program = "sleeps" => NapInv'
    BY <2>1, NapStep, Zenon DEF IInv, NapInv
  <2>5. program = "children" => Kids!IInv'
    BY <2>1, Kids!Steps, KidsAssumption, Zenon DEF IInv
  <2>6. program = "sessions" => Tty!IInv'
    BY <2>1, Tty!Steps, TtyAssumption, Zenon DEF IInv
  <2> QED
    BY <2>1, <2>2, <2>3, <2>4, <2>5, <2>6, AdoptsNext, AloneNext, SigStep, Zenon DEF IInv
<1> QED
  BY <1>1, <1>2, Zenon

\* simple_init: whatever processes there are, and however their ends and the delivery of
\* SIGCHLD interleave with main(), init is the foreground process group whenever it reads a
\* command, as long as commands leave no process behind.
THEOREM ForegroundAtPrompt == FairSpec => []PromptInForeground
<1>1. IInv => PromptInForeground
  BY Zenon DEF IInv, AloneIInv, PromptInForeground
<1> QED
  BY InitIInv, NextIInv, <1>1, PTL DEF FairSpec

\* userns_child_exec: for all maps and IDs that the command line may give, the child that
\* goes on finds the maps in place, root of the namespace has its capabilities after
\* execvp(), and with -a no capability is lost in it.
THEOREM CommandsEquipped == FairSpec => CommandEquipped
<1>1. IInv => (IsUserns => Userns!MapsInPlace /\ Userns!RootKeepsCaps)
  BY UsernsMapped, Zenon DEF IInv, UsernsIInv, IsUserns
<1>2. IInv => [UsernsRuns(Userns!Exec) => Userns!ExecKeepsCaps]_vars
  BY UsernsExecKeeps, Zenon DEF IInv, UsernsRuns, Runs, IsUserns
<1> QED
  BY InitIInv, NextIInv, <1>1, <1>2, PTL DEF FairSpec, CommandEquipped

\* system() leaves its caller's mask, disposition and children as they were on every path
\* and for any number of children; the programs that change the terminal give it back as the user
\* wants it, however the signals come; and ptyFork() leaves no descriptor behind.
THEOREM WhatChangedIsRestored == FairSpec => []Restored
<1>1. IInv => Restored
  BY Kids!Holds, KidsAssumption, Tty!Holds, TtyAssumption, Zenon DEF IInv, Restored, IsKids, IsTty
<1> QED
  BY InitIInv, NextIInv, <1>1, PTL DEF FairSpec

\* For any number of signals, timers' expirations, ticks, children, bytes and arguments: every
\* program reports what has happened.  No signal is counted that was not sent and none sent is
\* lost, expirations are counted with their overruns, sleeps do not creep, parents
\* report the ends and the changes of their children, an end of file comes after the
\* last byte, execlp() reports the errno it should, and script shows all that the shell wrote.
THEOREM ReportsAreTrue == FairSpec => []ReportsTrue
<1>1. IInv => ReportsTrue
  BY SigHolds, TimeHolds, NapHolds, Kids!Holds, KidsAssumption, Tty!Holds, TtyAssumption, Zenon
  DEF IInv, NapInv, ReportsTrue, IsSignals, IsTimers, IsSleeps, IsKids, IsTty
<1> QED
  BY InitIInv, NextIInv, <1>1, PTL DEF FairSpec

\* The variables of every program have the values they should have: among others
\* numLiveChildren counts the children not yet waited for, buffers and pipes hold what
\* they can hold, and the procfs of simple_init is mounted only while it runs.
THEOREM ProcessesTyped == FairSpec => []TypeOK
<1>1. IInv => TypeOK
  <2> SUFFICES ASSUME IInv
               PROVE  TypeOK
    BY Zenon
  <2>1. /\ program \in {"simple_init", "simple_init_alone"} => Adopts!TypeOK
        /\ program = "userns_child_exec" => Userns!TypeOK
        /\ program = "signals" => Sig!TypeOK
        /\ program = "timers" => Time!TypeOK
        /\ program = "sleeps" => Nap!TypeOK
        /\ program = "children" => Kids!TypeOK
        /\ program = "sessions" => Tty!TypeOK
    BY AloneTypes, UsernsTyped, SigHolds, TimeHolds, NapHolds, Kids!Holds, KidsAssumption, Tty!Holds, TtyAssumption, Zenon DEF IInv, NapInv, AloneIInv, UsernsIInv
  <2> QED
    BY <2>1, Zenon DEF IInv, TypeOK, IsInit, IsUserns, IsSignals, IsTimers, IsSleeps, IsKids, IsTty
<1> QED
  BY InitIInv, NextIInv, <1>1, PTL DEF FairSpec
=============================================================================
