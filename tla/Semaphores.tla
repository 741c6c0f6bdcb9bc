----------------------------- MODULE Semaphores -----------------------------
(***************************************************************************)
(* Programs that share semaphores, one group of which (kind) runs, as      *)
(* three processes: src/svsem (svsem_good_init.c, svsem_bad_init.c,        *)
(* svsem_op.c with svsem_setall.c, svsem_demo.c and svsem_rm.c,            *)
(* svsem_create.c, event_flags.c), src/psem (psem_tty_lockstep_*.c and the *)
(* commands on a named semaphore) and the sequence number of               *)
(* src/pshm/pshm_seqnum_*.c.  A semaphore is an object (1, 2, ...) that a  *)
(* key or a name may lead to.                                              *)
(***************************************************************************)
EXTENDS Integers, FiniteSets, Sequences, SequencesExt

CONSTANTS MaxObj,      \* bound: objects created
          MAX_TRIES, MAX_SEMOPS,
          nloops,      \* of the lockstep programs
          MaxSets,     \* bound: changes of an event flag
          MaxIntr      \* bound: signals that interrupt a wait

VARIABLES kind,
          prog, at,    \* of each process: the program with its arguments, and where it is
          names,       \* object of each name
          made, dead,  \* objects created, objects removed
          sem, otime,  \* values; the objects with a sem_otime
          h,           \* the objects a process has opened
          cnt,         \* tries, arguments, loops, signals or changes of a process
          adj,         \* semadj
          ledger,      \* what the values should be: the operations completed so far
          seen,        \* waiters whose flag has been set since they wait
          sized, ready, early, num, cur  \* the sequence numbers

objects == <<names, made, dead, otime>>
notes == <<adj, ledger, seen>>
shm == <<sized, ready, early, num, cur>>
vars == <<kind, prog, at, objects, sem, h, cnt, notes, shm>>

Kinds == {"good_init", "bad_init", "svsem_op", "event_flags", "create", "lockstep", "psem", "pshm_seqnum"}
Procs == 1..3
Objs == 1..MaxObj
Ended == {"done", "failed", "killed"}
R(n, op) == [n |-> n, op |-> op, args |-> <<>>, flags |-> {}]
F(n, f) == [n |-> n, op |-> 1, args |-> <<>>, flags |-> f]
Rs(ns, ops) == {R(n, op) : n \in ns, op \in ops}

\* The arguments of svsem_op: lists of operations.  An operation is what its text says: the
\* semaphore, the sign, the value (-1: no digits), the flags; bad is a character after them.
T(s, sign, v, f) == [sem |-> s, sign |-> sign, val |-> v, flags |-> f, bad |-> FALSE]
Simple == {<<T(1, "+", 1, {})>>, <<T(1, "-", 1, {}), T(2, "+", 1, {"u"})>>}
Undone == {<<T(1, "=", 0, {}), T(1, "+", 1, {"u"})>>, <<T(2, "-", 1, {"n", "u"})>>}
Refused == {<<>>, <<T(1, "+", 1, {}), T(1, "+", -1, {})>>, <<T(2, "=", 1, {})>>,
            <<T(1, "+", 1, {}), T(2, "+", 1, {}), T(1, "+", 1, {})>>,
            <<[T(1, "+", 1, {}) EXCEPT !.bad = TRUE]>>, <<T(-1, "+", 1, {})>>, <<T(1, "", 1, {})>>}
A(args) == [R("op", 0) EXCEPT !.args = args]

Programs ==
  CASE kind = "good_init" -> {<<x, y, z>> : x, y \in Rs({"good"}, {-1, 0, 1}), z \in Rs({"good", "rm"}, {1})}
    [] kind = "bad_init" -> {<<R("bad", 1), R("bad", 1), R("rm", 1)>>}
    [] kind = "svsem_op" -> {<<A(<<x, y>>), A(<<z>>), w>> : x, y \in Simple, z \in Undone,
                             w \in {R("setall", 1), R("setall", 2), R("rm", 1), R("demo", -1), R("demo", 0), R("demo", 1)}}
                            \cup {<<A(<<x, y>>), A(<<z>>), R("rm", 1)>> : x \in Undone, y \in Simple \cup Refused, z \in Undone}
    [] kind = "event_flags" -> {<<R("waiter", 0), R("waiter", 0), R("setter", 0)>>}
    [] kind = "create" -> {<<F("svsem_create", f), F("svsem_create", g), F("rm", {})>> : f, g \in SUBSET {"c", "x", "p"}}
    [] kind = "lockstep" -> {<<R("init", 0), R("second", 0), R("none", 0)>>}
    [] kind = "psem" -> {<<F("psem_create", f), y, z>> : f \in SUBSET {"c", "x"},
                         y, z \in Rs({"create_simple", "wait", "trywait", "timedwait", "post", "unlink"}, {1})}
    [] kind = "pshm_seqnum" -> {<<x, y, z>> : x, y \in Rs({"get"}, {0, 1, 2}), z \in Rs({"seq_init"}, {0, 1})}

\* Objects may be left over by earlier runs: the set of svsem_op and of the flags is there,
\* and the names of the lockstep programs, of psem and of pshm_seqnum may be.
Init ==
  /\ kind \in Kinds /\ prog \in Programs
  /\ at = [p \in Procs |-> IF prog[p].n = "none" THEN "done" ELSE "start"]
  /\ made = (IF kind \in {"svsem_op", "lockstep"} THEN 2 ELSE IF kind \in {"event_flags", "psem", "pshm_seqnum"} THEN 1 ELSE 0)
  /\ names \in {[a |-> 0, b |-> 0]} \cup (IF made = 0 THEN {} ELSE {[a |-> 1, b |-> made]})
  /\ (kind \in {"svsem_op", "event_flags"} => names.a = 1)
  /\ dead = {} /\ otime = {} /\ sem = [o \in Objs |-> IF kind \in {"event_flags", "pshm_seqnum"} /\ o = 1 THEN 1 ELSE 0]
  /\ ledger = sem /\ h = [p \in Procs |-> IF made > 0 /\ kind \in {"svsem_op", "event_flags"} THEN <<1, made>> ELSE <<0, 0>>]
  /\ cnt = [p \in Procs |-> 0] /\ adj = [p \in Procs |-> [o \in Objs |-> 0]] /\ seen = {}
  /\ sized = 1..made /\ ready = 1..made /\ early = {} /\ num = [o \in Objs |-> 0] /\ cur = cnt

-----------------------------------------------------------------------------
Is(p, n) == prog[p].n \in n /\ UNCHANGED <<kind, prog>>
P(p, from, to) == at[p] = from /\ at' = [at EXCEPT ![p] = to]
Go(p, from, to) == P(p, from, to) /\ UNCHANGED <<objects, sem, h, cnt, notes, shm>>
Add(f, o, v) == [f EXCEPT ![o] = @ + v]

\* A new object for a name, with a value.
New(p, i, n, v) ==
  /\ made < MaxObj /\ made' = made + 1 /\ names' = [names EXCEPT ![n] = made']
  /\ sem' = [sem EXCEPT ![made'] = v] /\ ledger' = [ledger EXCEPT ![made'] = v]
  /\ h' = [h EXCEPT ![p][i] = made'] /\ UNCHANGED <<dead, otime, adj, seen>>

Open(p, i, n, from, to) ==
  \/ names[n] = 0 /\ Go(p, from, "failed")
  \/ /\ names[n] # 0 /\ P(p, from, to) /\ h' = [h EXCEPT ![p][i] = names[n]]
     /\ UNCHANGED <<objects, sem, cnt, notes, shm>>

Unlink(p, n, from, to) ==
  P(p, from, to) /\ names' = [names EXCEPT ![n] = 0] /\ UNCHANGED <<made, dead, otime, sem, h, cnt, notes, shm>>

\* An operation on one semaphore: it waits until it can be done.
SemopOne(p, o, v, from, to) ==
  \/ o \in dead /\ Go(p, from, "failed")
  \/ /\ o \notin dead /\ (IF v = 0 THEN sem[o] = 0 ELSE sem[o] + v >= 0) /\ P(p, from, to)
     /\ sem' = Add(sem, o, v) /\ ledger' = Add(ledger, o, v) /\ otime' = otime \cup {o}
     /\ UNCHANGED <<names, made, dead, h, cnt, adj, seen, shm>>

\* semctl(SETVAL): it clears the adjustments.
SetVal(p, o, v, from, to) ==
  \/ o \in dead /\ Go(p, from, "failed")
  \/ /\ o \notin dead /\ P(p, from, to) /\ sem' = [sem EXCEPT ![o] = v]
     /\ adj' = [q \in Procs |-> [adj[q] EXCEPT ![o] = 0]]
     /\ UNCHANGED <<objects, h, cnt, ledger, seen, shm>>
-----------------------------------------------------------------------------
(* Creating and removing System V semaphores *)

\* semget(key, 1, IPC_CREAT | IPC_EXCL)
Semget(p, created, exists) ==
  \/ names.a = 0 /\ P(p, "start", created) /\ New(p, 1, "a", 0) /\ UNCHANGED <<cnt, shm>>
  \/ names.a # 0 /\ Go(p, "start", exists)
  \/ Go(p, "start", "failed")

\* Mutant of Initialized: semget() is enough.
InitializedAnyway(o) == TRUE

Initialized(o) == o \in otime

\* The creator sets the value, then performs an operation for the others to see; they
\* look for it MAX_TRIES times.
SvsemGoodInit(p) ==
  /\ Is(p, {"good"})
  /\ \/ Semget(p, "created", "get")
     \/ SetVal(p, h[p][1], 0, "created", "dummy")
     \/ at[p] = "dummy" /\ SemopOne(p, h[p][1], 0, "dummy", "op")
     \/ Open(p, 1, "a", "get", "stat")
     \/ /\ P(p, "stat", IF h[p][1] \in dead THEN "failed"
                        ELSE IF Initialized(h[p][1]) THEN "op"
                        ELSE IF cnt[p] + 1 = MAX_TRIES THEN "failed" ELSE "stat")
        /\ cnt' = [cnt EXCEPT ![p] = @ + 1] /\ UNCHANGED <<objects, sem, h, notes, shm>>
     \/ at[p] = "op" /\ SemopOne(p, h[p][1], prog[p].op, "op", "done")

SvsemBadInit(p) ==
  /\ Is(p, {"bad"})
  /\ \/ Semget(p, "created", "get")
     \/ at[p] = "created" /\ SetVal(p, h[p][1], 0, "created", "op")
     \/ Open(p, 1, "a", "get", "op")
     \/ at[p] = "op" /\ SemopOne(p, h[p][1], 1, "op", "done")

\* IPC_RMID of the set (of the ID the user has learnt): who waits for it fails.
SvsemRm(p) ==
  /\ Is(p, {"rm"}) /\ names.a # 0 /\ P(p, "start", "done")
  /\ dead' = dead \cup (IF kind = "svsem_op" THEN {1, 2} ELSE {names.a}) /\ names' = [names EXCEPT !.a = 0]
  /\ UNCHANGED <<made, otime, sem, h, cnt, notes, shm>>

\* svsem_create: -p makes a private set, which no key leads to.
SvsemCreate(p) ==
  /\ Is(p, {"svsem_create"})
  /\ LET f == prog[p].flags IN
     \/ /\ "p" \in f /\ P(p, "start", "done") /\ made < MaxObj /\ made' = made + 1 /\ h' = [h EXCEPT ![p][1] = made']
        /\ UNCHANGED <<names, dead, otime, sem, cnt, notes, shm>>
     \/ "p" \notin f /\ names.a = 0 /\ "c" \in f /\ P(p, "start", "done") /\ New(p, 1, "a", 0) /\ UNCHANGED <<cnt, shm>>
     \/ "p" \notin f /\ names.a # 0 /\ ~({"c", "x"} \subseteq f) /\ Open(p, 1, "a", "start", "done")
     \/ Go(p, "start", "failed")
-----------------------------------------------------------------------------
(* svsem_op *)

\* One turn of the loop of parseOps(): r is what is read so far, t the text of the next operation.
ParseOp(r, t) ==
  IF r.err \/ Len(r.sops) >= MAX_SEMOPS \/ t.sem < 0 \/ t.sign = "" \/ t.val < 0
     \/ (t.sign = "=" /\ t.val # 0) \/ t.bad
  THEN [err |-> TRUE, sops |-> <<>>]
  ELSE [r EXCEPT !.sops = Append(@, [sem |-> t.sem, op |-> IF t.sign = "-" THEN -t.val ELSE t.val, flags |-> t.flags])]

parseOps(arg) == FoldLeft(ParseOp, [err |-> arg = <<>>, sops |-> <<>>], arg)

\* semop(): all of the operations, in order, or none.
Apply(r, o) ==
  IF r.st # "ok" THEN r
  ELSE IF (IF o.op = 0 THEN r.v[o.sem] = 0 ELSE r.v[o.sem] + o.op >= 0) THEN [r EXCEPT !.v[o.sem] = @ + o.op]
  ELSE [r EXCEPT !.st = IF "n" \in o.flags THEN "EAGAIN" ELSE "wait"]
Semop(sops) == FoldLeft(Apply, [st |-> "ok", v |-> sem], sops)
Undo(sops, o) == FoldLeft(LAMBDA n, x : IF x.sem = o /\ "u" \in x.flags THEN n + x.op ELSE n, 0, sops)

\* What an argument says, and whether it says anything.
Valid(arg) == /\ Len(arg) \in 1..MAX_SEMOPS
              /\ \A i \in 1..Len(arg) : /\ ~arg[i].bad /\ arg[i].sem > 0
                                        /\ \/ arg[i].sign \in {"+", "-"} /\ arg[i].val >= 0
                                           \/ arg[i].sign = "=" /\ arg[i].val = 0
Net(arg, o) == LET Of(sign) == FoldLeft(LAMBDA n, t : IF t.sem = o /\ t.sign = sign THEN n + t.val ELSE n, 0, arg)
               IN Of("+") - Of("-")

\* main(): argument after argument; when the process ends its adjustments are applied, as
\* far as they can be.
SvsemOp(p) ==
  /\ Is(p, {"op"})
  /\ LET arg == prog[p].args[cnt[p] + 1]
         r == parseOps(arg)
         s == Semop(r.sops)
         undone == [o \in Objs |-> sem[o] + adj[p][o]] IN
     \/ /\ at[p] = "start"
        /\ Go(p, "start", IF cnt[p] = Len(prog[p].args) THEN "exit" ELSE IF r.err THEN "exit" ELSE "semop")
     \/ /\ at[p] = "semop" /\ 1 \notin dead /\ s.st = "ok" /\ P(p, "semop", "start")
        /\ sem' = s.v /\ adj' = [adj EXCEPT ![p] = [o \in Objs |-> @[o] - Undo(r.sops, o)]]
        /\ ledger' = [o \in Objs |-> IF Valid(arg) THEN ledger[o] + Net(arg, o) ELSE ledger[o]]
        /\ cnt' = [cnt EXCEPT ![p] = @ + 1] /\ UNCHANGED <<objects, h, seen, shm>>
     \/ at[p] = "semop" /\ (1 \in dead \/ s.st = "EAGAIN") /\ Go(p, "semop", "exit")
     \/ /\ P(p, "exit", "done") /\ adj' = [adj EXCEPT ![p] = [o \in Objs |-> 0]]
        /\ sem' = [o \in Objs |-> IF undone[o] < 0 THEN 0 ELSE undone[o]]
        /\ ledger' = [o \in Objs |-> IF undone[o] < 0 THEN 0 ELSE ledger[o] + adj[p][o]]
        /\ UNCHANGED <<objects, h, cnt, seen, shm>>

\* svsem_setall: as many values (op) as the set has semaphores; SETALL clears the adjustments.
SvsemSetall(p) ==
  /\ Is(p, {"setall"})
  /\ \/ Go(p, "start", IF 1 \in dead \/ prog[p].op # 2 THEN "failed" ELSE "set")
     \/ 1 \in dead /\ Go(p, "set", "failed")
     \/ /\ 1 \notin dead /\ P(p, "set", "done") /\ \E v \in [{1, 2} -> 0..1] : sem' = [o \in Objs |-> IF o <= 2 THEN v[o] ELSE 0]
        /\ ledger' = sem' /\ adj' = [q \in Procs |-> [o \in Objs |-> 0]] /\ UNCHANGED <<objects, h, cnt, seen, shm>>

SvsemDemo(p) == Is(p, {"demo"}) /\ at[p] = "start" /\ SemopOne(p, 1, prog[p].op, "start", "done")
-----------------------------------------------------------------------------
(* event_flags: 0 is "set", 1 is "clear" *)

\* The retry of waitForEventFlag() after EINTR.
Interrupted == "wait"

waitForEventFlag(p) ==
  /\ Is(p, {"waiter"})
  /\ \/ /\ P(p, "start", "wait") /\ seen' = seen \cup (IF sem[1] = 0 THEN {p} ELSE {})
        /\ UNCHANGED <<objects, sem, h, cnt, adj, ledger, shm>>
     \/ at[p] = "wait" /\ (sem[1] = 0 \/ 1 \in dead) /\ Go(p, "wait", IF 1 \in dead THEN "failed" ELSE "done")
     \/ /\ at[p] = "wait" /\ sem[1] # 0 /\ cnt[p] < MaxIntr /\ P(p, "wait", Interrupted)
        /\ cnt' = [cnt EXCEPT ![p] = @ + 1] /\ UNCHANGED <<objects, sem, h, notes, shm>>

\* A process that sets and clears the flag.
SetFlag(p, v) ==
  /\ Is(p, {"setter"}) /\ cnt[p] < MaxSets /\ P(p, "start", "start") /\ sem' = [sem EXCEPT ![1] = v]
  /\ cnt' = [cnt EXCEPT ![p] = @ + 1]
  /\ seen' = seen \cup (IF v = 0 THEN {q \in Procs : at[q] = "wait"} ELSE {})
  /\ UNCHANGED <<objects, h, adj, ledger, shm>>
clearEventFlag(p) == SetFlag(p, 1)
setEventFlag(p) == SetFlag(p, 0)
-----------------------------------------------------------------------------
(* POSIX semaphores *)

SemWait(p, o, from, to) == o # 0 /\ sem[o] > 0 /\ P(p, from, to) /\ sem' = Add(sem, o, -1) /\ ledger' = Add(ledger, o, -1)
                           /\ UNCHANGED <<objects, h, cnt, adj, seen, shm>>
SemPost(p, o, from, to) == P(p, from, to) /\ sem' = Add(sem, o, 1) /\ ledger' = Add(ledger, o, 1)
                           /\ UNCHANGED <<objects, h, adj, seen, shm>>
Create(p, i, n, v, from, to) ==
  \/ names[n] # 0 /\ Go(p, from, "failed")
  \/ names[n] = 0 /\ P(p, from, to) /\ New(p, i, n, v) /\ UNCHANGED <<cnt, shm>>

\* Wait for one semaphore, print, post the other: cnt is j.
Loop(p, mine, other, to) ==
  \/ at[p] = "loop" /\ cnt[p] < nloops /\ SemWait(p, h[p][mine], "loop", "print")
  \/ at[p] = "print" /\ SemPost(p, h[p][other], "print", "loop") /\ cnt' = [cnt EXCEPT ![p] = @ + 1]
  \/ cnt[p] = nloops /\ Go(p, "loop", to)

\* Mutant of LockstepInit: both semaphores start at 1.
LockstepInitBoth(p) ==
  /\ Is(p, {"init"})
  /\ \/ Unlink(p, "a", "start", "unlink") \/ Unlink(p, "b", "unlink", "create")
     \/ Create(p, 1, "a", 1, "create", "create2") \/ Create(p, 2, "b", 1, "create2", "loop")
     \/ Loop(p, 1, 2, "end") \/ Unlink(p, "a", "end", "end2") \/ Unlink(p, "b", "end2", "done")

\* psem_tty_lockstep_init: old semaphores are unlinked, new ones made; the second process
\* has the first turn.
LockstepInit(p) ==
  /\ Is(p, {"init"})
  /\ \/ Unlink(p, "a", "start", "unlink") \/ Unlink(p, "b", "unlink", "create")
     \/ Create(p, 1, "a", 0, "create", "create2") \/ Create(p, 2, "b", 1, "create2", "loop")
     \/ Loop(p, 1, 2, "end") \/ Unlink(p, "a", "end", "end2") \/ Unlink(p, "b", "end2", "done")

LockstepSecond(p) ==
  /\ Is(p, {"second"})
  /\ Open(p, 1, "a", "start", "open") \/ Open(p, 2, "b", "open", "loop") \/ Loop(p, 2, 1, "done")

\* psem_create: O_CREAT (c) and O_EXCL (x).
PsemCreate(p) ==
  /\ Is(p, {"psem_create"})
  /\ LET f == prog[p].flags IN
     \/ "c" \in f /\ ("x" \in f \/ names.a = 0) /\ \E v \in {0, 1} : Create(p, 1, "a", v, "start", "done")
     \/ ~({"c", "x"} \subseteq f) /\ (names.a # 0 \/ "c" \notin f) /\ Open(p, 1, "a", "start", "done")

PsemCreateSimple(p) == Is(p, {"create_simple"}) /\ \E v \in {0, 1} : Create(p, 1, "a", v, "start", "done")
PsemOpen(p, n) == Is(p, {n}) /\ Open(p, 1, "a", "start", "opened")
PsemWait(p) == PsemOpen(p, "wait") \/ (Is(p, {"wait"}) /\ SemWait(p, h[p][1], "opened", "done"))
PsemTrywait(p) ==
  \/ PsemOpen(p, "trywait")
  \/ /\ Is(p, {"trywait"}) /\ at[p] = "opened"
     /\ SemWait(p, h[p][1], "opened", "done") \/ (sem[h[p][1]] = 0 /\ Go(p, "opened", "failed"))
\* The time passes, or the semaphore is posted.
PsemTimedwait(p) ==
  \/ PsemOpen(p, "timedwait")
  \/ /\ Is(p, {"timedwait"}) /\ at[p] = "opened"
     /\ SemWait(p, h[p][1], "opened", "done") \/ (sem[h[p][1]] = 0 /\ Go(p, "opened", "failed"))
PsemPost(p) == PsemOpen(p, "post") \/ (Is(p, {"post"}) /\ at[p] = "opened" /\ SemPost(p, h[p][1], "opened", "done") /\ UNCHANGED cnt)
PsemUnlink(p) == Is(p, {"unlink"}) /\ (IF names.a = 0 THEN Go(p, "start", "failed") ELSE Unlink(p, "a", "start", "done"))
-----------------------------------------------------------------------------
(* The sequence number in shared memory *)

semShm == <<names, made, dead, otime, h, cnt, adj, ledger, seen>>

\* pshm_seqnum_init: a new object, empty until it is sized; the semaphore is available
\* before the number is set.
PshmSeqnumInit(p) ==
  /\ Is(p, {"seq_init"})
  /\ LET o == h[p][1] IN
     \/ Unlink(p, "a", "start", "create") \/ Create(p, 1, "a", 0, "create", "size")
     \/ P(p, "size", "init") /\ sized' = sized \cup {o} /\ UNCHANGED <<sem, semShm, ready, early, num, cur>>
     \/ /\ P(p, "init", "number") /\ sem' = [sem EXCEPT ![o] = 1] /\ UNCHANGED <<semShm, shm>>
     \/ /\ P(p, "number", "done") /\ ready' = ready \cup {o}
        /\ num' = [num EXCEPT ![o] = IF prog[p].op > 0 THEN 1 ELSE @] /\ UNCHANGED <<sem, semShm, sized, early, cur>>

\* sem_wait() on the semaphore in the object.
Reserve(p) ==
  /\ sem[h[p][1]] > 0 /\ P(p, "wait", "read") /\ sem' = Add(sem, h[p][1], -1) /\ UNCHANGED <<semShm, shm>>

\* pshm_seqnum_get: SIGBUS in an object that is not sized yet; runLength is op.
PshmSeqnumGet(p) ==
  /\ Is(p, {"get"})
  /\ LET o == h[p][1] IN
     \/ names.a = 0 /\ Go(p, "start", "failed")
     \/ /\ names.a # 0 /\ P(p, "start", "wait") /\ h' = [h EXCEPT ![p][1] = names.a]
        /\ early' = early \cup ({names.a} \ ready) /\ UNCHANGED <<objects, sem, cnt, notes, sized, ready, num, cur>>
     \/ at[p] = "wait" /\ o \notin sized /\ Go(p, "wait", "killed")
     \/ at[p] = "wait" /\ o \in sized /\ Reserve(p)
     \/ /\ P(p, "read", IF prog[p].op > 0 THEN "add" ELSE "post") /\ cur' = [cur EXCEPT ![p] = num[o]]
        /\ UNCHANGED <<sem, semShm, sized, ready, early, num>>
     \/ P(p, "add", "post") /\ num' = Add(num, o, prog[p].op) /\ UNCHANGED <<sem, semShm, sized, ready, early, cur>>
     \/ P(p, "post", "done") /\ sem' = Add(sem, o, 1) /\ UNCHANGED <<semShm, shm>>
-----------------------------------------------------------------------------
Proc(p) ==
  \/ SvsemGoodInit(p) \/ SvsemBadInit(p) \/ SvsemOp(p) \/ SvsemSetall(p) \/ SvsemDemo(p) \/ SvsemCreate(p)
  \/ waitForEventFlag(p) \/ LockstepInit(p) \/ LockstepSecond(p) \/ PsemCreate(p) \/ PsemCreateSimple(p)
  \/ PsemWait(p) \/ PsemTrywait(p) \/ PsemTimedwait(p) \/ PsemPost(p) \/ PsemUnlink(p)
  \/ PshmSeqnumInit(p) \/ PshmSeqnumGet(p)

\* What need not happen: a removal, a change of a flag.
Other(p) == SvsemRm(p) \/ clearEventFlag(p) \/ setEventFlag(p)

Next == \E p \in Procs : Proc(p) \/ Other(p)

-----------------------------------------------------------------------------
\* The values of the variables; no semaphore is negative.
TypeOK ==
  /\ kind \in Kinds /\ made \in 0..MaxObj /\ \A o \in Objs : sem[o] \in Nat
  /\ \A n \in {"a", "b"} : names[n] \in 0..made

\* No completed operation is lost: with svsem_good_init the creator's initialization comes
\* before the operations of all others, although they may run before it does;
\* svsem_op does what each argument says, in one step, and undoes what is to be undone.
OperationsKept ==
  kind \in {"good_init", "svsem_op"} => \A o \in 1..made : o \in dead \/ sem[o] = ledger[o]

\* The lockstep programs take turns, the second one first, once they have opened the
\* same two semaphores; waitForEventFlag() returns only if the flag has been set.
Paired == h[1] = h[2] /\ h[1][1] # 0 /\ h[1][2] # 0
Turn(p) == cnt[p] + (IF at[p] = "print" THEN 1 ELSE 0)
InTurn ==
  /\ kind = "lockstep" /\ Paired => /\ Turn(2) - Turn(1) \in {0, 1}
                                    /\ ~(at[1] = "print" /\ at[2] = "print")
  /\ kind = "event_flags" => \A p \in Procs : at[p] = "done" => p \in seen

\* Two processes that reserve sequence numbers get different ones, if neither has opened
\* the object before it was initialized.
Reserved(p) == prog[p].op > 0 /\ at[p] \in {"post", "done"}
NumbersDistinct ==
  kind = "pshm_seqnum" =>
    \A p, q \in {1, 2} : p < q /\ Reserved(p) /\ Reserved(q) /\ h[p][1] = h[q][1] /\ h[p][1] \notin early =>
      cur[p] + prog[p].op <= cur[q] \/ cur[q] + prog[q].op <= cur[p]

\* The lockstep programs once they are paired, and who waits for a flag that stays set ...
Due ==
  \/ kind = "lockstep" /\ Paired
  \/ kind = "event_flags" /\ sem[1] = 0 /\ cnt[3] = MaxSets

\* ... both end.
DueDone == at[1] = "done" /\ at[2] = "done"
=============================================================================
