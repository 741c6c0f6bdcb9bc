------------------------------ MODULE Seccomp -------------------------------
(***************************************************************************)
(* The seccomp filters of src/seccomp: the BPF programs, the part of the    *)
(* BPF machine that they use, and the system calls that each main() makes   *)
(* under its filter.  A system call is the record seccomp_data: arch, nr    *)
(* and, for each argument, its low and its high 32 bits.                    *)
(***************************************************************************)
EXTENDS Naturals, Sequences, Bitwise

CONSTANTS NoValue,     \* the accumulator before the first load
          Archs, Numbers, OpenFlags, Offsets  \* for calls besides those of main()

\* Architectures (AUDIT_ARCH_*, without their flag bits) and system calls.
X86_64 == 62
I386 == 3
X32_SYSCALL_BIT == 1073741824
NR_read == 0
NR_open == 2
NR_lseek == 8
NR_getppid == 110
NR_mq_notify_x86_64 == 244
NR_openat == 257
NR_mq_notify_i386 == 281
NR_mq_notify_x32 == 527
O_WRONLY == 1
O_RDWR == 2
O_CREAT == 64

VARIABLES prog, todo, pc, acc, status, results
vars == <<prog, todo, pc, acc, status, results>>

-----------------------------------------------------------------------------
(* Instructions *)

Ins(op, k, jt, jf) == [op |-> op, k |-> k, jt |-> jt, jf |-> jf]
Ld(field) == Ins("ld", field, 0, 0)
Jump(op, k, jt, jf) == Ins(op, k, jt, jf)
Ret(v) == Ins("ret", v, 0, 0)
Kill == <<"kill">>
Allow == <<"allow">>
Trap == <<"trap">>
Log == <<"log">>
Errno(e) == <<"errno", e>>
ENOTSUP == 95

\* The value of a field of seccomp_data.
Field(d, f) == CASE f = "arch" -> d.arch [] f = "nr" -> d.nr
                 [] f[1] = "lo" -> d.args[f[2]][1] [] f[1] = "hi" -> d.args[f[2]][2]

-----------------------------------------------------------------------------
(* Filters *)

\* The check of the architecture and of the x32 bit with a single kill.
ArchX32 == <<Ld("arch"), Jump("jeq", X86_64, 0, 2), Ld("nr"),
             Jump("jge", X32_SYSCALL_BIT, 0, 1), Ret(Kill)>>

\* Mutant of ControlOpen: openat() jumps to the load of the flags of open().
ControlOpenArg ==
  ArchX32 \o
  <<Jump("jeq", NR_open, 2, 0), Jump("jeq", NR_openat, 1, 0), Ret(Allow),
    Ld(<<"lo", 2>>), Jump("ja", 1, 0, 0), Ld(<<"lo", 3>>),
    Jump("jset", O_CREAT, 0, 1), Ret(Kill),
    Jump("jset", O_WRONLY + O_RDWR, 0, 1), Ret(Errno(ENOTSUP)), Ret(Allow)>>

\* seccomp_control_open.c
ControlOpen ==
  ArchX32 \o
  <<Jump("jeq", NR_open, 2, 0), Jump("jeq", NR_openat, 3, 0), Ret(Allow),
    Ld(<<"lo", 2>>), Jump("ja", 1, 0, 0), Ld(<<"lo", 3>>),
    Jump("jset", O_CREAT, 0, 1), Ret(Kill),
    Jump("jset", O_WRONLY + O_RDWR, 0, 1), Ret(Errno(ENOTSUP)), Ret(Allow)>>

\* Mutant of DenyOpen: the jump for openat() leaves the program.
DenyOpenFar ==
  <<Ld("arch"), Jump("jeq", X86_64, 1, 0), Ret(Kill), Ld("nr"),
    Jump("jge", X32_SYSCALL_BIT, 0, 1), Ret(Kill),
    Jump("jeq", NR_open, 2, 0), Jump("jeq", NR_openat, 2, 0), Ret(Allow), Ret(Kill)>>

\* seccomp_deny_open.c
DenyOpen ==
  <<Ld("arch"), Jump("jeq", X86_64, 1, 0), Ret(Kill), Ld("nr"),
    Jump("jge", X32_SYSCALL_BIT, 0, 1), Ret(Kill),
    Jump("jeq", NR_open, 2, 0), Jump("jeq", NR_openat, 1, 0), Ret(Allow), Ret(Kill)>>

\* seccomp_arg64.c
Arg64 ==
  ArchX32 \o
  <<Jump("jeq", NR_lseek, 1, 0), Ret(Allow),
    Ld(<<"hi", 2>>), Jump("jeq", 0, 1, 0), Ret(Errno(2)),
    Ld(<<"lo", 2>>), Jump("jgt", 1000, 0, 1), Ret(Errno(1)), Ret(Allow)>>

\* seccomp_multiarch.c
MultiArch ==
  <<Ld("arch"), Jump("jeq", X86_64, 2, 0), Jump("jeq", I386, 1, 0), Ret(Kill), Ld("nr"),
    Jump("jeq", NR_mq_notify_x86_64, 0, 1), Ret(Errno(NR_mq_notify_x86_64)),
    Jump("jeq", NR_mq_notify_i386, 0, 1), Ret(Errno(NR_mq_notify_i386)),
    Jump("jeq", NR_mq_notify_x32 + X32_SYSCALL_BIT, 0, 1), Ret(Errno(NR_mq_notify_x32)),
    Ret(Allow)>>

\* seccomp_perf.c, seccomp_trap_sigsys.c, seccomp_logging.c
Perf == ArchX32 \o <<Jump("jeq", NR_open, 1, 0), Ret(Allow), Ret(Kill)>>
TrapSigsys ==
  <<Ld("arch"), Jump("jeq", X86_64, 1, 0), Ret(Kill), Ld("nr"),
    Jump("jeq", NR_getppid, 0, 1), Ret(Trap), Ret(Allow)>>
Logging == ArchX32 \o <<Ret(Log)>>

Filter == [control_open |-> ControlOpen, deny_open |-> DenyOpen, arg64 |-> Arg64,
           multiarch |-> MultiArch, perf |-> Perf, trap_sigsys |-> TrapSigsys, logging |-> Logging]

-----------------------------------------------------------------------------
(* The system calls of the programs *)

Call(arch, nr, args) == [arch |-> arch, nr |-> nr, args |-> args]
Low(n) == <<n, 0>>
Sys(nr) == Call(X86_64, nr, <<Low(0), Low(0), Low(0)>>)

\* The C library makes open() an openat(), or not.
OpenCalls(flags) == {Call(X86_64, NR_open, <<Low(7), Low(flags), Low(0)>>),
                     Call(X86_64, NR_openat, <<Low(7), Low(7), Low(flags)>>)}

ControlOpenMain == {<<c1, c2, c3, c4>> : c1 \in OpenCalls(0), c2 \in OpenCalls(O_WRONLY),
                                         c3 \in OpenCalls(O_RDWR), c4 \in OpenCalls(O_CREAT + O_RDWR)}
DenyOpenMain == {<<c>> : c \in OpenCalls(0)}
Seek(lo, hi) == Call(X86_64, NR_lseek, <<Low(3), <<lo, hi>>, Low(0)>>)
Arg64Main == {<<Seek(0, 0), Seek(10000, 0), Seek(1, 1)>>}
\* Binaries of different architectures, one after the other in one process.
MqNotify == {Sys(NR_mq_notify_x86_64), Call(I386, NR_mq_notify_i386, Sys(0).args),
             Sys(NR_mq_notify_x32 + X32_SYSCALL_BIT)}
MultiArchMain == {<<c1, c2>> : c1 \in MqNotify, c2 \in MqNotify}
PerfMain == {<<Sys(NR_getppid), Sys(NR_getppid)>>}
TrapSigsysMain == {<<Sys(NR_getppid), Sys(NR_read)>>}
LoggingMain == {<<Sys(107), Sys(NR_getppid)>>}

Main == [control_open |-> ControlOpenMain, deny_open |-> DenyOpenMain, arg64 |-> Arg64Main,
         multiarch |-> MultiArchMain, perf |-> PerfMain, trap_sigsys |-> TrapSigsysMain,
         logging |-> LoggingMain]

\* A program may make any other call under its filter.
Calls == {Call(a, n, Sys(0).args) : a \in Archs, n \in Numbers}
         \cup UNION {OpenCalls(f) : f \in OpenFlags}
         \cup {Seek(lo, hi) : lo \in Offsets, hi \in Offsets}

-----------------------------------------------------------------------------
(* Running a filter on each call in turn *)

Init ==
  /\ prog \in DOMAIN Filter
  /\ todo \in Main[prog] \cup {<<c>> : c \in Calls}
  /\ pc = 1 /\ acc = NoValue /\ status = "running" /\ results = <<>>

Data == todo[1]
I == Filter[prog][pc]
Running == status = "running" /\ todo # <<>> /\ pc \in DOMAIN Filter[prog]

Load ==
  /\ Running /\ I.op = "ld"
  /\ acc' = Field(Data, I.k) /\ pc' = pc + 1
  /\ UNCHANGED <<prog, todo, status, results>>

Holds == CASE I.op = "jeq" -> acc = I.k
           [] I.op = "jge" -> acc >= I.k
           [] I.op = "jgt" -> acc > I.k
           [] I.op = "jset" -> acc & I.k # 0

Test ==
  /\ Running /\ I.op \in {"jeq", "jge", "jgt", "jset"}
  /\ pc' = pc + 1 + IF Holds THEN I.jt ELSE I.jf
  /\ UNCHANGED <<prog, todo, acc, status, results>>

JumpAlways ==
  /\ Running /\ I.op = "ja"
  /\ pc' = pc + 1 + I.k /\ UNCHANGED <<prog, todo, acc, status, results>>

\* The verdict.  SECCOMP_RET_TRAP runs the handler and then the next call.
Return ==
  /\ Running /\ I.op = "ret"
  /\ results' = Append(results, I.k) /\ todo' = Tail(todo) /\ pc' = 1 /\ acc' = NoValue
  /\ status' = IF I.k = Kill THEN "killed" ELSE IF Tail(todo) = <<>> THEN "exited" ELSE "running"
  /\ UNCHANGED prog

Ended == status # "running" /\ UNCHANGED vars

Next == Load \/ Test \/ JumpAlways \/ Return \/ Ended

Spec == Init /\ [][Next]_vars

-----------------------------------------------------------------------------
\* The values of the variables: no jump leaves its filter, and no test is made
\* before a load.
TypeOK ==
  /\ prog \in DOMAIN Filter /\ status \in {"running", "killed", "exited"}
  /\ pc \in DOMAIN Filter[prog] /\ (I.op \in {"jeq", "jge", "jgt", "jset"} => acc # NoValue)

X32(d) == d.nr >= X32_SYSCALL_BIT
Foreign(d) == d.arch # X86_64 \/ X32(d)
Flags(d) == d.args[IF d.nr = NR_open THEN 2 ELSE 3][1]

\* What the comments say of the filters, multiarch's last rule apart.
Expected(d) ==
  CASE prog = "deny_open" -> IF Foreign(d) \/ d.nr \in {NR_open, NR_openat} THEN Kill ELSE Allow
    [] prog = "control_open" ->
         IF Foreign(d) THEN Kill ELSE IF d.nr \notin {NR_open, NR_openat} THEN Allow
         ELSE IF (Flags(d) \div O_CREAT) % 2 = 1 THEN Kill
         ELSE IF Flags(d) % 4 # 0 THEN Errno(ENOTSUP) ELSE Allow
    [] prog = "arg64" ->
         IF Foreign(d) THEN Kill ELSE IF d.nr # NR_lseek THEN Allow
         ELSE IF d.args[2][2] > 0 THEN Errno(2) ELSE IF d.args[2][1] > 1000 THEN Errno(1) ELSE Allow
    [] prog = "multiarch" ->
         IF d.arch \notin {X86_64, I386} THEN Kill
         ELSE IF d \in MqNotify THEN Errno(d.nr % X32_SYSCALL_BIT) ELSE Allow
    [] prog = "perf" -> IF Foreign(d) \/ d.nr = NR_open THEN Kill ELSE Allow
    [] prog = "trap_sigsys" -> IF d.arch # X86_64 THEN Kill ELSE IF d.nr = NR_getppid THEN Trap ELSE Allow
    [] prog = "logging" -> IF Foreign(d) THEN Kill ELSE Log

\* The filter returns what its comments say; those of seccomp_multiarch are right
\* for mq_notify() alone.
AsCommented == prog # "multiarch" \/ Data \in MqNotify => I.k = Expected(Data)

\* What becomes of each main(): seccomp_deny_open never prints "We shouldn't
\* see this message", seccomp_control_open ends at its last open() and not
\* before, and the others run to their ends.
Outcome ==
  /\ status = "exited" /\ prog = "deny_open" => results = <<Allow>>
  /\ status = "exited" /\ prog = "control_open" => Len(results) = 1
  /\ status = "killed" /\ prog = "control_open" /\ Len(results) > 1
       => results = <<Allow, Errno(ENOTSUP), Errno(ENOTSUP), Kill>>
  /\ status = "killed" /\ prog \in {"arg64", "multiarch", "perf", "trap_sigsys", "logging"}
       => Len(results) = 1
=============================================================================
