----------------------------- MODULE SharedFiles ----------------------------
(***************************************************************************)
(* Processes that share a file, a message queue or a shared memory object, *)
(* one group of which (kind) runs as up to three processes:                *)
(* src/filelock/i_fcntl_locking.c and t_flock.c; src/fileio/               *)
(* atomic_append.c, bad_exclusive_open.c, seek_io.c and ex.tee.c; the      *)
(* commands svmsg_*.c, pmsg_*.c, pshm_*.c and svshm_{create,attach,rm}.c;  *)
(* src/memfd; src/proc/setenv.c; src/fileio/copy.c and src/mmap/mmcopy.c.  *)
(***************************************************************************)
EXTENDS Integers, FiniteSets, Sequences, SequencesExt, FiniteSetsExt

CONSTANTS QMax,        \* messages that a queue holds
          BUF_SIZE     \* of ex.tee.c

VARIABLES kind,
          opt, at,     \* of each process: its program with its arguments, and where it is
          file,        \* what they share
          lock, told,  \* locks of each owner, and what the owner has been told about them
          off,         \* of each process: file offset, object opened or place in a loop
          out,         \* of each process: what it has displayed
          sent,        \* what has been written, in its order
          late         \* what happened that explains a difference

vars == <<kind, opt, at, file, lock, told, off, out, sent, late>>

Procs == 1..3
Over == {"done", "failed"}
Kinds == {"fcntl", "flock", "append", "bad_open", "svmsg", "pmsg", "seek_io", "tee", "setenv", "pshm",
          "svshm", "memfd", "copy"}
None == [n |-> "none", type |-> 0, len |-> 0, f |-> {}]
R(n, type, len, f) == [n |-> n, type |-> type, len |-> len, f |-> f]
Upto(s, k) == SubSeq(s, 1, IF k < Len(s) THEN k ELSE Len(s))
Rest(s, k) == SubSeq(s, k + 1, Len(s))
Zeros(n) == [i \in 1..n |-> 0]
-----------------------------------------------------------------------------
(* Programs, and what is there before they start *)

Bytes == {0, 1}
Owners == {<<1, "posix">>, <<1, "ofd">>, <<2, "posix">>}
Unlocked == [o \in Owners |-> [b \in Bytes |-> "u"]]

SvSenders == {R("svmsg_send", 1, l, f) : l \in {0, 2}, f \in {{}, {"n"}}} \cup {R("svmsg_send", 0, 0, {})}
SvOthers == {R("svmsg_receive", t, l, f) : t \in {-2, 0, 1}, l \in {1, 2}, f \in {{}, {"e", "n"}, {"x"}}}
            \cup {R("svmsg_create", 0, 0, f) : f \in SUBSET {"c", "x", "p"}} \cup {R("svmsg_rm", 0, 0, {})}
PmSenders == {R("pmsg_send", t, 1, f) : t \in 0..1, f \in {{}, {"n"}}}
PmOthers == {R("pmsg_receive", 0, 0, f) : f \in {{}, {"n"}}} \cup {R("pmsg_unlink", 0, 0, {})}
            \cup {R("pmsg_create", 0, 0, f) : f \in SUBSET {"c", "x"}}
Shms == {R("pshm_write", 0, l, {}) : l \in 0..2} \cup {R("pshm_read", 0, 0, {}), R("pshm_unlink", 0, 0, {})}
ShmCreates == {R("pshm_create", 0, 1, f) : f \in SUBSET {"c", "x"}} \cup {R("pshm_create_simple", 0, 2, {})}
Segments == {R("svshm_create", 0, l, f) : l \in {1, 3}, f \in SUBSET {"c", "x", "p"}}
            \cup {R("svshm_attach", 0, 0, {}), R("svshm_rm", 0, 0, {})}
Sealers == {R("t_add_seals", 0, 0, f) : f \in {{}, {"g"}, {"S"}}} \cup {R("t_get_seals", 0, 0, {})}
Memfds == {R("t_memfd_create", 0, 1, f) : f \in {{}, {"w"}, {"s", "S"}}} \cup {R("demo_file_seals", l, 1, {"g"}) : l \in {1, 2}}
SeekOps == {R("r", 0, 2, {}), R("w", 0, 2, {})} \cup {R("s", k, 0, {}) : k \in {1, 3}}
Entry(n, v) == [name |-> n, val |-> v]
\* An entry without '=' (val 0), which no name matches.
Entries == {Entry("A", 1), Entry("A", 2), Entry("AA", 1), Entry("A", 0)}
\* A name that is refused is "".
EnvCalls == {R("unsetenv", n, 0, {}) : n \in {"A", "B", ""}} \cup {R("setenv", n, 7, f) : n \in {"A", "B", ""}, f \in {{}, {"o"}}}

Programs ==
  CASE kind = "fcntl" -> {<<R("fcntl", 0, 0, {}), R("fcntl", 0, 0, {}), None>>}
    [] kind = "flock" -> [Procs -> {R("flock", m, 0, f) : m \in {"s", "x"}, f \in {{}, {"n"}}}]
    [] kind = "append" -> {<<R("append", 0, 2, f), R("append", 0, 2, g), None>> : f, g \in {{}, {"x"}}}
    [] kind = "bad_open" -> {<<R("bad_open", 0, 0, {}), R("bad_open", 0, 0, {}), R("bad_open", 0, 0, {})>>}
    [] kind = "svmsg" -> {<<x, y, z>> : x \in SvSenders, y \in {R("svmsg_send", 2, 1, {}), R("svmsg_receive", 0, 2, {})}, z \in SvOthers}
    [] kind = "pmsg" -> {<<x, y, z>> : x \in PmSenders, y \in {R("pmsg_send", 1, 1, {}), R("pmsg_receive", 0, 0, {})}, z \in PmOthers}
    [] kind = "pshm" -> {<<x, y, z>> : x \in {R("pshm_write", 0, 2, {}), R("pshm_read", 0, 0, {})}, y \in Shms \ {R("pshm_write", 0, l, {}) : l \in {0, 2}}, z \in Shms \cup ShmCreates}
    [] kind = "svshm" -> {<<x, R("svshm_attach", 0, 0, {}), z>> :
                           x \in {R("svshm_attach", 0, 0, {}), R("svshm_create", 0, 1, {"c"})}, z \in Segments}
    [] kind = "memfd" -> {<<x, y, z>> : x \in Memfds, y, z \in Sealers}
    [] kind = "copy" -> {<<R(n, 0, 0, f), None, None>> : n \in {"copy", "mmcopy"}, f \in {{}, {"same"}}}
    [] kind = "seek_io" -> {<<[R("seek_io", 0, 0, {}) EXCEPT !.f = s], None, None>> : s \in UNION {[1..n -> SeekOps] : n \in 1..4}}
    [] kind = "tee" -> {<<R("tee", 0, n, f), None, None>> : n \in 0..3, f \in {{}, {"a"}}}
    [] kind = "setenv" -> {<<c, None, None>> : c \in EnvCalls}

\* A queue with messages of earlier runs; a shared memory object, or none.
Old(l) == <<[n |-> 1, q |-> 1, type |-> 2, len |-> l], [n |-> 2, q |-> 1, type |-> 1, len |-> 1]>>
Object(there, q) == [name |-> IF there THEN 1 ELSE 0, made |-> IF there THEN 1 ELSE 0, gone |-> {}, q |-> [i \in 1..4 |-> IF i = 1 THEN q ELSE <<>>]]
Files ==
  CASE kind \in {"svmsg", "pmsg"} -> {Object(FALSE, <<>>), Object(TRUE, <<>>), Object(TRUE, Old(1)), Object(TRUE, Upto(Old(2), 1))}
    [] kind = "pshm" -> {Object(FALSE, <<>>), Object(TRUE, <<>>), Object(TRUE, <<9, 9>>)}
    [] kind = "svshm" -> {Object(FALSE, <<>>), Object(TRUE, Zeros(2))}
    [] kind = "memfd" -> {[size |-> -1, seals |-> {}]}
    [] kind = "copy" -> {[src |-> s, dst |-> <<9, 9>>] : s \in {<<>>, <<1, 2>>, <<1, 2, 3>>}}
    [] kind \in {"seek_io", "tee"} -> {<<>>, <<9, 9>>}
    [] kind = "setenv" -> UNION {[1..n -> Entries] : n \in 0..3}
    [] kind = "bad_open" -> {0, 1}
    [] OTHER -> {0}

Init ==
  /\ kind \in Kinds /\ opt \in Programs /\ file \in Files
  /\ at = [p \in Procs |-> IF opt[p].n = "none" THEN "done" ELSE "start"]
  /\ lock = (IF kind = "flock" THEN [p \in Procs |-> "u"] ELSE Unlocked) /\ told = lock
  /\ off = [p \in Procs |-> 0] /\ out = [p \in Procs |-> <<>>] /\ late = {}
  /\ sent = IF kind \in {"svmsg", "pmsg"} THEN file.q[1] ELSE IF kind = "setenv" THEN file
            ELSE IF kind = "copy" THEN file.src ELSE <<>>

P(p, n, from, to) == opt[p].n = n /\ at[p] = from /\ at' = [at EXCEPT ![p] = to] /\ UNCHANGED <<kind, opt>>
Go(p, n, from, to) == P(p, n, from, to) /\ UNCHANGED <<file, lock, told, off, out, sent, late>>
Out(p, x) == out' = [out EXCEPT ![p] = Append(@, x)]
-----------------------------------------------------------------------------
(* File locks *)

Conflict(o, t, bs) ==
  {x \in Owners \ {o} : \E b \in bs : lock[x][b] # "u" /\ t # "u" /\ (t = "w" \/ lock[x][b] = "w")}
Range3 == {{0}, {1}, {0, 1}}    \* start and length; a length of 0 is all that follows

\* The request that process p waits with is in off[p].
Request(c, l, bs) == [cmd |-> c, lock |-> l, bs |-> bs]
Owner(p, c) == IF c \in {"S", "W"} THEN <<p, "ofd">> ELSE <<p, "posix">>
Grant(p, r) ==
  LET o == Owner(p, r.cmd) Place(f, t) == [f EXCEPT ![o] = [b \in Bytes |-> IF b \in r.bs THEN t ELSE @[b]]] IN
  lock' = Place(lock, r.lock) /\ told' = Place(told, r.lock)
Blocks(p, r) == Conflict(Owner(p, r.cmd), r.lock, r.bs)
\* EDEADLK: another process waits, with a lock of the same kind, for one of p's.
Deadlock(p, r) ==
  /\ r.cmd = "w"
  /\ \E q \in {1, 2} \ {p} : /\ at[q] = "blocked" /\ off[q].cmd = "w" /\ <<q, "posix">> \in Blocks(p, r)
                             /\ <<p, "posix">> \in Blocks(q, off[q])

\* One turn of the loop of main(): 'g', an invalid line or a bad file number change nothing.
\* The locks of a process end with it.
FcntlCommand(p) ==
  \/ /\ P(p, "fcntl", "start", "start")
     /\ \E c \in {"s", "w", "S", "W"}, l \in {"r", "w", "u"}, bs \in Range3 :
          LET r == Request(c, l, bs) IN
          Owner(p, c) \in Owners /\ Blocks(p, r) = {} /\ Grant(p, r)
     /\ UNCHANGED <<file, off, out, sent, late>>
  \/ /\ P(p, "fcntl", "start", "blocked")
     /\ \E c \in {"w", "W"}, l \in {"r", "w"}, bs \in Range3 :
          LET r == Request(c, l, bs) IN
          Owner(p, c) \in Owners /\ Blocks(p, r) # {} /\ ~Deadlock(p, r) /\ off' = [off EXCEPT ![p] = r]
     /\ UNCHANGED <<file, lock, told, out, sent, late>>
  \/ /\ opt[p].n = "fcntl" /\ at[p] \in {"start", "blocked"} /\ at' = [at EXCEPT ![p] = "done"]
     /\ lock' = [o \in Owners |-> IF o[1] = p THEN [b \in Bytes |-> "u"] ELSE lock[o]]
     /\ told' = [o \in Owners |-> IF o[1] = p THEN [b \in Bytes |-> "u"] ELSE told[o]]
     /\ off' = [off EXCEPT ![p] = 0] /\ UNCHANGED <<kind, opt, file, out, sent, late>>

FcntlGranted(p) ==
  /\ P(p, "fcntl", "blocked", "start") /\ Blocks(p, off[p]) = {} /\ Grant(p, off[p])
  /\ off' = [off EXCEPT ![p] = 0] /\ UNCHANGED <<file, out, sent, late>>

FlockFree(p) == \A q \in Procs \ {p} : lock[q] = "u" \/ (lock[q] = "s" /\ opt[p].type = "s")
TFlock(p) ==
  \/ Go(p, "flock", "start", "request") \/ Go(p, "flock", "start", "failed")
  \/ /\ P(p, "flock", "request", "held") /\ FlockFree(p) /\ lock' = [lock EXCEPT ![p] = opt[p].type]
     /\ UNCHANGED <<file, told, off, out, sent, late>>
  \/ opt[p].n = "flock" /\ "n" \in opt[p].f /\ ~FlockFree(p) /\ Go(p, "flock", "request", "failed")
  \/ /\ \E end \in Over : P(p, "flock", "held", end)
     /\ lock' = [lock EXCEPT ![p] = "u"] /\ UNCHANGED <<file, told, off, out, sent, late>>
-----------------------------------------------------------------------------
(* atomic_append, bad_exclusive_open: file is the size, or whether it exists *)

\* With x, lseek() to the end and then write() at the offset; without, O_APPEND.
AtomicAppend(p) ==
  \/ Go(p, "append", "start", "failed")
  \/ Go(p, "append", "start", IF "x" \in opt[p].f THEN "seek" ELSE "write")
  \/ at[p] \in {"seek", "write"} /\ Go(p, "append", at[p], "failed")
  \/ P(p, "append", "seek", "write") /\ off' = [off EXCEPT ![p] = file] /\ UNCHANGED <<file, lock, told, out, sent, late>>
  \/ /\ at[p] = "write" /\ opt[p].n = "append"
     /\ P(p, "append", "write", IF Len(out[p]) + 1 = opt[p].len THEN "done" ELSE IF "x" \in opt[p].f THEN "seek" ELSE "write")
     /\ LET w == IF "x" \in opt[p].f THEN off[p] ELSE file IN
        file' = Max({file, w + 1}) /\ off' = [off EXCEPT ![p] = w + 1]
     /\ Out(p, "x") /\ UNCHANGED <<lock, told, sent, late>>

\* The second open() creates the file or finds the one that another process made (late).
BadExclusiveOpen(p) ==
  \/ Go(p, "bad_open", "start", "failed")
  \/ P(p, "bad_open", "start", "done") /\ file = 1 /\ Out(p, "exists") /\ UNCHANGED <<file, lock, told, off, sent, late>>
  \/ file = 0 /\ Go(p, "bad_open", "start", "create")
  \/ /\ P(p, "bad_open", "create", "done") /\ file' = 1 /\ Out(p, "created")
     /\ late' = (IF file = 1 THEN late \cup {p} ELSE late) /\ UNCHANGED <<lock, told, off, sent>>
-----------------------------------------------------------------------------
(* Message queues and shared memory: file.name is the object of the name, or 0 *)

Alive(i) == i \in 1..file.made /\ i \notin file.gone
New(named) == [file EXCEPT !.made = @ + 1, !.name = IF named THEN file.made + 1 ELSE @]
Fifth == file.made = 4    \* bound: objects

\* The outcome of an open() or get() call with flags f (c: create, x: exclusively).
Opens(f) == IF file.name = 0 THEN (IF "c" \in f THEN "new" ELSE "fails")
            ELSE IF {"c", "x"} \subseteq f THEN "fails" ELSE "old"
\* A command that creates or opens the object and has nothing else to do.
CreateOnly(p, n, f) ==
  \/ Opens(f) = "new" /\ ~Fifth /\ P(p, n, "start", "done") /\ file' = New(TRUE) /\ UNCHANGED <<lock, told, off, out, sent, late>>
  \/ Opens(f) = "old" /\ Go(p, n, "start", "done")
  \/ Opens(f) = "fails" /\ Go(p, n, "start", "failed")

SvmsgCreate(p) ==
  LET n == "svmsg_create" IN
  \/ "p" \notin opt[p].f /\ CreateOnly(p, n, opt[p].f)
  \/ /\ "p" \in opt[p].f /\ ~Fifth /\ P(p, n, "start", "done") /\ file' = New(FALSE)
     /\ UNCHANGED <<lock, told, off, out, sent, late>>

\* The commands know the queue by its ID.
ID == 1
Send(p, i, n, from) ==
  LET m == [n |-> Len(sent) + 1, q |-> i, type |-> opt[p].type, len |-> opt[p].len] IN
  \/ /\ Len(file.q[i]) < QMax /\ P(p, n, from, "done") /\ file' = [file EXCEPT !.q[i] = Append(@, m)]
     /\ sent' = Append(sent, m) /\ UNCHANGED <<lock, told, off, out, late>>
  \/ Len(file.q[i]) >= QMax /\ "n" \in opt[p].f /\ Go(p, n, from, "failed")

SvmsgSend(p) ==
  /\ opt[p].n = "svmsg_send"
  /\ IF ~Alive(ID) \/ opt[p].type < 1 THEN Go(p, "svmsg_send", "start", "failed") ELSE Send(p, ID, "svmsg_send", "start")

\* msgrcv(): the place of the message to be received, 0 if there is none.
Eligible(q, t, f) ==
  {i \in 1..Len(q) : \/ t = 0
                     \/ t > 0 /\ (q[i].type = t) # ("x" \in f)
                     \/ t < 0 /\ q[i].type <= -t /\ \A j \in 1..Len(q) : q[i].type <= q[j].type}
First(s) == IF s = {} THEN 0 ELSE Min(s)

\* A message that is longer than max-bytes stays on the queue, or is cut with -e.
SvmsgReceive(p) ==
  /\ opt[p].n = "svmsg_receive"
  /\ LET q == file.q[ID]
         i == First(Eligible(q, opt[p].type, opt[p].f))
         fits == i > 0 /\ (q[i].len <= opt[p].len \/ "e" \in opt[p].f) IN
     \/ /\ Alive(ID) /\ fits /\ P(p, "svmsg_receive", "start", "done")
        /\ file' = [file EXCEPT !.q[ID] = RemoveAt(@, i)]
        /\ Out(p, [q[i] EXCEPT !.len = Min({@, opt[p].len})]) /\ UNCHANGED <<lock, told, off, sent, late>>
     \/ (~Alive(ID) \/ (i = 0 /\ "n" \in opt[p].f) \/ (i > 0 /\ ~fits)) /\ Go(p, "svmsg_receive", "start", "failed")

SvmsgRm(p) ==
  /\ opt[p].n = "svmsg_rm"
  /\ \/ ~Alive(ID) /\ Go(p, "svmsg_rm", "start", "failed")
     \/ /\ Alive(ID) /\ P(p, "svmsg_rm", "start", "done")
        /\ file' = [file EXCEPT !.gone = @ \cup {ID}, !.name = IF @ = ID THEN 0 ELSE @]
        /\ UNCHANGED <<lock, told, off, out, sent, late>>

\* Opening by name; off[p] is the object.
OpenName(p, n) ==
  /\ opt[p].n = n
  /\ \/ file.name = 0 /\ Go(p, n, "start", "failed")
     \/ /\ file.name # 0 /\ P(p, n, "start", "opened") /\ off' = [off EXCEPT ![p] = file.name]
        /\ UNCHANGED <<file, lock, told, out, sent, late>>
UnlinkName(p, n) ==
  /\ opt[p].n = n
  /\ \/ file.name = 0 /\ Go(p, n, "start", "failed")
     \/ file.name # 0 /\ P(p, n, "start", "done") /\ file' = [file EXCEPT !.name = 0] /\ UNCHANGED <<lock, told, off, out, sent, late>>

PmsgCreate(p) == opt[p].n = "pmsg_create" /\ CreateOnly(p, "pmsg_create", opt[p].f)
PmsgSend(p) == OpenName(p, "pmsg_send") \/ (opt[p].n = "pmsg_send" /\ at[p] = "opened" /\ Send(p, off[p], "pmsg_send", "opened"))
PmsgReceive(p) ==
  \/ OpenName(p, "pmsg_receive")
  \/ /\ opt[p].n = "pmsg_receive" /\ at[p] = "opened"
     /\ LET q == file.q[off[p]]
            i == First({x \in 1..Len(q) : \A j \in 1..Len(q) : q[j].type <= q[x].type}) IN
        \/ /\ i > 0 /\ P(p, "pmsg_receive", "opened", "done") /\ file' = [file EXCEPT !.q[off[p]] = RemoveAt(@, i)]
           /\ Out(p, q[i]) /\ UNCHANGED <<lock, told, off, sent, late>>
        \/ i = 0 /\ "n" \in opt[p].f /\ Go(p, "pmsg_receive", "opened", "failed")
PmsgUnlink(p) == UnlinkName(p, "pmsg_unlink")

\* ftruncate() of the object, while others are at work with it or not.
Busy(p) == \E q \in Procs \ {p} : at[q] \in {"resized", "mapped"} /\ off[q] = off[p]
Resized(s, n) == Upto(s, n) \o Zeros(n - Len(Upto(s, n)))
Resize(p, n, from, to) ==
  /\ P(p, n, from, to) /\ file' = [file EXCEPT !.q[off[p]] = Resized(@, opt[p].len)]
  /\ late' = (IF Busy(p) \/ (n # "pshm_write" /\ file.q[off[p]] # <<>>) THEN late \cup {"overlap"} ELSE late)
  /\ UNCHANGED <<lock, told, off, out, sent>>

\* pshm_create sizes an object that was there already, or that was written to meanwhile, too.
CreateShm(p, n, f) ==
  \/ /\ Opens(f) = "new" /\ ~Fifth /\ P(p, n, "start", "opened") /\ file' = New(TRUE)
     /\ off' = [off EXCEPT ![p] = file'.name] /\ UNCHANGED <<lock, told, out, sent, late>>
  \/ Opens(f) = "old" /\ OpenName(p, n)
  \/ Opens(f) = "fails" /\ Go(p, n, "start", "failed")
  \/ at[p] = "opened" /\ Resize(p, n, "opened", "done")
PshmCreate(p) == opt[p].n = "pshm_create" /\ CreateShm(p, "pshm_create", opt[p].f)
PshmCreateSimple(p) == opt[p].n = "pshm_create_simple" /\ CreateShm(p, "pshm_create_simple", {"c", "x"})

\* mmap() of no bytes fails, after the object was resized; memcpy() into an object that has
\* become empty ends with SIGBUS.  The string of process p is p, p ...
PshmWrite(p) ==
  \/ OpenName(p, "pshm_write")
  \/ at[p] = "opened" /\ Resize(p, "pshm_write", "opened", IF opt[p].len = 0 THEN "failed" ELSE "resized")
  \/ /\ at[p] = "resized"
     /\ LET q == file.q[off[p]] IN
        /\ P(p, "pshm_write", "resized", IF q = <<>> THEN "failed" ELSE "done")
        /\ file' = [file EXCEPT !.q[off[p]] = [i \in 1..Len(q) |-> IF i <= opt[p].len THEN p ELSE q[i]]]
        /\ late' = IF Busy(p) THEN late \cup {"overlap"} ELSE late
     /\ UNCHANGED <<lock, told, off, out, sent>>

\* The size is what fstat() said; what is behind the end by now reads as zeros, and of an
\* object that is empty by now nothing is written.
PshmRead(p) ==
  \/ OpenName(p, "pshm_read")
  \/ /\ opt[p].n = "pshm_read" /\ at[p] = "opened"
     /\ P(p, "pshm_read", "opened", IF file.q[off[p]] = <<>> THEN "failed" ELSE "mapped")
     /\ Out(p, Len(file.q[off[p]])) /\ late' = (IF Busy(p) THEN late \cup {"overlap"} ELSE late)
     /\ UNCHANGED <<file, lock, told, off, sent>>
  \/ /\ P(p, "pshm_read", "mapped", "done")
     /\ LET q == file.q[off[p]] IN Out(p, IF q = <<>> THEN <<>> ELSE Resized(q, out[p][1]))
     /\ UNCHANGED <<file, lock, told, off, sent, late>>
PshmUnlink(p) == UnlinkName(p, "pshm_unlink")

\* shmget() of a segment that is smaller than asked for fails.
SvshmCreate(p) ==
  LET n == "svshm_create" f == opt[p].f IN
  /\ opt[p].n = n
  /\ \/ /\ ("p" \in f \/ Opens(f) = "new") /\ ~Fifth /\ P(p, n, "start", "done")
        /\ file' = [New("p" \notin f) EXCEPT !.q[file.made + 1] = Zeros(opt[p].len)] /\ UNCHANGED <<lock, told, off, out, sent, late>>
     \/ "p" \notin f /\ Opens(f) = "old" /\ Go(p, n, "start", IF opt[p].len > Len(file.q[file.name]) THEN "failed" ELSE "done")
     \/ "p" \notin f /\ Opens(f) = "fails" /\ Go(p, n, "start", "failed")

\* A segment is gone when it is marked and the last process is detached; until then it
\* can be attached by its ID.
Attached(i) == {p \in Procs : at[p] = "held" /\ off[p] = i}
Marked(i) == i \in file.gone
SegmentThere(i) == i \in 1..file.made /\ (Marked(i) => file.q[i] # <<>>)
SvshmAttach(p) ==
  LET n == "svshm_attach" IN
  /\ opt[p].n = n
  /\ \/ ~SegmentThere(ID) /\ Go(p, n, "start", "failed")
     \/ SegmentThere(ID) /\ P(p, n, "start", "held") /\ off' = [off EXCEPT ![p] = ID] /\ UNCHANGED <<file, lock, told, out, sent, late>>
     \/ /\ P(p, n, "held", "done") /\ UNCHANGED <<lock, told, off, out, sent, late>>
        /\ file' = IF Marked(ID) /\ Attached(ID) = {p} THEN [file EXCEPT !.q[ID] = <<>>] ELSE file
SvshmRm(p) ==
  LET n == "svshm_rm" IN
  /\ opt[p].n = n
  /\ \/ ~SegmentThere(ID) /\ Go(p, n, "start", "failed")
     \/ /\ SegmentThere(ID) /\ P(p, n, "start", "done") /\ UNCHANGED <<lock, told, off, out, sent, late>>
        /\ file' = [file EXCEPT !.gone = @ \cup {ID}, !.name = IF @ = ID THEN 0 ELSE @,
                                !.q[ID] = IF Attached(ID) = {} THEN <<>> ELSE @]

\* F_ADD_SEALS; late: t_memfd_create has lost its file to a seal that another process set first.
AddSeals(p, n, from, to) ==
  \/ /\ "S" \notin file.seals /\ P(p, n, from, to) /\ file' = [file EXCEPT !.seals = @ \cup opt[p].f]
     /\ UNCHANGED <<lock, told, off, out, sent, late>>
  \/ /\ "S" \in file.seals /\ P(p, n, from, "failed") /\ late' = late \cup {n}
     /\ UNCHANGED <<file, lock, told, off, out, sent>>
\* ftruncate() from no bytes.
SizeMemfd(p, n) ==
  /\ opt[p].n = n /\ at[p] = "opened"
  /\ \/ "g" \in file.seals /\ Go(p, n, "opened", "failed")
     \/ /\ "g" \notin file.seals /\ P(p, n, "opened", "resized") /\ file' = [file EXCEPT !.size = opt[p].len]
        /\ UNCHANGED <<lock, told, off, out, sent, late>>
CreateMemfd(p, n) == P(p, n, "start", "opened") /\ file' = [file EXCEPT !.size = 0] /\ UNCHANGED <<lock, told, off, out, sent, late>>
TMemfdCreate(p) ==
  LET n == "t_memfd_create" IN
  \/ CreateMemfd(p, n) \/ SizeMemfd(p, n)
  \/ opt[p].n = n /\ at[p] = "resized" /\ IF opt[p].f = {} THEN Go(p, n, "resized", "held") ELSE AddSeals(p, n, "resized", "held")
  \/ Go(p, n, "held", "done")    \* a signal ends pause()
\* The string of opt.type bytes is written at offset 0.
DemoFileSeals(p) ==
  LET n == "demo_file_seals" IN
  \/ CreateMemfd(p, n) \/ SizeMemfd(p, n)
  \/ opt[p].n = n /\ at[p] = "resized" /\ AddSeals(p, n, "resized", "write")
  \/ /\ opt[p].n = n /\ at[p] = "write"
     /\ LET grows == opt[p].type > file.size IN
        /\ P(p, n, "write", IF (grows /\ "g" \in file.seals) \/ "w" \in file.seals THEN "failed" ELSE "done")
        /\ IF at'[p] = "done" THEN Out(p, opt[p].type) /\ file' = [file EXCEPT !.size = Max({@, opt[p].type})]
           ELSE UNCHANGED <<file, out>>
     /\ UNCHANGED <<lock, told, off, sent, late>>
\* open() of /proc/PID/fd/FD, while the creator runs.
OpenMemfd(p, n) == Go(p, n, "start", IF at[1] \in Over \cup {"start"} THEN "failed" ELSE "opened")
TAddSeals(p) ==
  LET n == "t_add_seals" IN
  \/ OpenMemfd(p, n)
  \/ opt[p].n = n /\ at[p] = "opened" /\ IF opt[p].f = {} THEN Go(p, n, "opened", "done") ELSE AddSeals(p, n, "opened", "done")
TGetSeals(p) ==
  LET n == "t_get_seals" IN
  \/ OpenMemfd(p, n)
  \/ P(p, n, "opened", "done") /\ Out(p, file.seals) /\ UNCHANGED <<file, lock, told, off, sent, late>>
-----------------------------------------------------------------------------
(* seek_io, tee, copy, mmcopy, setenv: one process *)

Width == 2    \* of the strings that seek_io writes
\* The operation after those that are done: off is their number and the file offset.
SeekIo(p) ==
  LET n == "seek_io" ops == opt[p].f i == off[p][1] + 1 pos == off[p][2] op == ops[i]
      Seek(x) == off' = [off EXCEPT ![p] = <<i, x>>] IN
  \/ /\ P(p, n, "start", "loop") /\ off' = [off EXCEPT ![p] = <<0, 0>>]
     /\ sent' = IF file = <<>> THEN <<>> ELSE <<[pos |-> 0, v |-> 9]>>
     /\ UNCHANGED <<file, lock, told, out, late>>
  \/ /\ P(p, n, "loop", "loop") /\ i <= Len(ops) /\ UNCHANGED <<lock, told, late>>
     /\ \/ op.n = "s" /\ Seek(op.type) /\ UNCHANGED <<file, out, sent>>
        \/ /\ op.n = "r" /\ LET data == Upto(Rest(file, pos), op.len) IN
                            Seek(pos + Len(data)) /\ Out(p, [pos |-> pos, data |-> data, nw |-> Len(sent)])
           /\ UNCHANGED <<file, sent>>
        \/ /\ op.n = "w" /\ Seek(pos + Width)
           /\ file' = Resized(file, pos) \o [x \in 1..Width |-> i] \o Rest(file, pos + Width)
           /\ sent' = Append(sent, [pos |-> pos, v |-> i]) /\ UNCHANGED out
  \/ P(p, n, "loop", "failed") /\ UNCHANGED <<file, lock, told, off, out, sent, late>>
  \/ P(p, n, "loop", "done") /\ i = Len(ops) + 1 /\ UNCHANGED <<file, lock, told, off, out, sent, late>>

\* tee: what write() does not take is lost (late).  off: bytes read before, and this time.
Tee(p) ==
  LET n == "tee" from == off[p][1] k == off[p][2] data == [i \in 1..k |-> from + i] IN
  \/ /\ P(p, n, "start", "read") /\ off' = [off EXCEPT ![p] = <<0, 0>>] /\ sent' = file
     /\ file' = (IF "a" \in opt[p].f THEN file ELSE <<>>) /\ UNCHANGED <<lock, told, out, late>>
  \/ /\ P(p, n, "read", "stdout") /\ from < opt[p].len
     /\ \E m \in 1..Min({BUF_SIZE, opt[p].len - from}) : off' = [off EXCEPT ![p] = <<from, m>>]
     /\ UNCHANGED <<file, lock, told, out, sent, late>>
  \/ /\ P(p, n, "stdout", "file")
     /\ \E m \in 1..k : out' = [out EXCEPT ![p] = @ \o Upto(data, m)] /\ late' = IF m < k THEN late \cup {"stdout"} ELSE late
     /\ UNCHANGED <<file, lock, told, off, sent>>
  \/ /\ P(p, n, "file", "read") /\ off' = [off EXCEPT ![p] = <<from + k, 0>>]
     /\ \E m \in 1..k : file' = file \o Upto(data, m) /\ late' = IF m < k THEN late \cup {"file"} ELSE late
     /\ UNCHANGED <<lock, told, out, sent>>
  \/ P(p, n, "read", "done") /\ from = opt[p].len /\ UNCHANGED <<file, lock, told, off, out, sent, late>>
  \/ opt[p].n = n /\ at[p] \in {"start", "read", "stdout", "file"} /\ Go(p, n, at[p], "failed")

\* copy: the new file is emptied when it is opened; with "same" it is the old file.
Dst(p) == IF "same" \in opt[p].f THEN "src" ELSE "dst"
Copy(p) ==
  LET n == "copy" IN
  \/ P(p, n, "start", "read") /\ file' = [file EXCEPT ![Dst(p)] = <<>>] /\ UNCHANGED <<lock, told, off, out, sent, late>>
  \/ /\ opt[p].n = n /\ at[p] = "read" /\ off[p] < Len(file.src)
     /\ \E k \in 1..BUF_SIZE, short \in BOOLEAN :
          LET data == Upto(Rest(file.src, off[p]), k) IN
          /\ P(p, n, "read", IF short THEN "failed" ELSE "read") /\ off' = [off EXCEPT ![p] = @ + Len(data)]
          /\ file' = [file EXCEPT ![Dst(p)] = @ \o IF short THEN Tail(data) ELSE data]
     /\ UNCHANGED <<lock, told, out, sent, late>>
  \/ opt[p].n = n /\ at[p] = "read" /\ off[p] >= Len(file.src) /\ Go(p, n, "read", "done")
  \/ at[p] = "read" /\ Go(p, n, "read", "failed")

\* mmcopy: of an empty file nothing is copied, and the new file is not even opened.  The mapping
\* of the old file shows what the file holds when memcpy() reads it.
Mmcopy(p) ==
  LET n == "mmcopy" IN
  \/ opt[p].n = n /\ at[p] = "start" /\ file.src = <<>> /\ Go(p, n, "start", "done")
  \/ /\ opt[p].n = n /\ file.src # <<>> /\ P(p, n, "start", "resized") /\ file' = [file EXCEPT ![Dst(p)] = Zeros(Len(file.src))]
     /\ UNCHANGED <<lock, told, off, out, sent, late>>
  \/ P(p, n, "resized", "done") /\ file' = [file EXCEPT ![Dst(p)] = file.src] /\ UNCHANGED <<lock, told, off, out, sent, late>>

Matches(e, name) == e.name = name /\ e.val # 0
\* Mutant of AfterRemoval: ep++ after each entry.
AfterRemovalNext(ep) == ep + 1

\* Where the loop goes on when it has removed the entry at ep.
AfterRemoval(ep) == ep

\* unsetenv(): ep is off; the entries behind a match move back, and ep stays.
Unsetenv(p, n, to) ==
  \/ /\ at[p] = "scan" /\ P(p, n, "scan", "scan") /\ off[p] <= Len(file)
     /\ IF Matches(file[off[p]], opt[p].type) THEN file' = RemoveAt(file, off[p]) /\ off' = [off EXCEPT ![p] = AfterRemoval(@)]
        ELSE off' = [off EXCEPT ![p] = @ + 1] /\ UNCHANGED file
     /\ UNCHANGED <<lock, told, out, sent, late>>
  \/ at[p] = "scan" /\ off[p] > Len(file) /\ Go(p, n, "scan", to)
Starts(p, n) == P(p, n, "start", "scan") /\ off' = [off EXCEPT ![p] = 1] /\ UNCHANGED <<file, lock, told, out, sent, late>>
unsetenv(p) ==
  /\ opt[p].n = "unsetenv"
  /\ \/ opt[p].type = "" /\ Go(p, "unsetenv", "start", "failed")
     \/ opt[p].type # "" /\ Starts(p, "unsetenv")
     \/ Unsetenv(p, "unsetenv", "done")

\* setenv(): malloc() or putenv() may fail once the old value is removed (late).
setenv(p) ==
  LET n == "setenv" name == opt[p].type IN
  /\ opt[p].n = n
  /\ LET set == \E i \in 1..Len(file) : Matches(file[i], name) IN
     \/ name = "" /\ Go(p, n, "start", "failed")
     \/ name # "" /\ set /\ "o" \notin opt[p].f /\ Go(p, n, "start", "done")
     \/ name # "" /\ (~set \/ "o" \in opt[p].f) /\ Starts(p, n)
     \/ Unsetenv(p, n, "put")
     \/ P(p, n, "put", "done") /\ file' = Append(file, Entry(name, opt[p].len)) /\ UNCHANGED <<lock, told, off, out, sent, late>>
     \/ P(p, n, "put", "failed") /\ late' = {"unset"} /\ UNCHANGED <<file, lock, told, off, out, sent>>
-----------------------------------------------------------------------------
\* Arguments that are refused, calls that fail for other reasons: errExit() and usageError().
Refused(p) == at[p] \in {"start", "opened", "resized"} /\ Go(p, opt[p].n, at[p], "failed")

\* A process of the group that runs.
Proc(p) ==
  \/ kind = "fcntl" /\ FcntlGranted(p)
  \/ kind = "flock" /\ TFlock(p)
  \/ kind = "append" /\ AtomicAppend(p)
  \/ kind = "bad_open" /\ BadExclusiveOpen(p)
  \/ kind = "svmsg" /\ (SvmsgCreate(p) \/ SvmsgSend(p) \/ SvmsgReceive(p) \/ SvmsgRm(p))
  \/ kind = "pmsg" /\ (PmsgCreate(p) \/ PmsgSend(p) \/ PmsgReceive(p) \/ PmsgUnlink(p))
  \/ kind = "pshm" /\ (PshmCreate(p) \/ PshmCreateSimple(p) \/ PshmWrite(p) \/ PshmRead(p) \/ PshmUnlink(p))
  \/ kind \in {"svmsg", "pmsg", "pshm", "svshm", "memfd", "copy", "seek_io"} /\ Refused(p)
  \/ kind = "seek_io" /\ SeekIo(p)
  \/ kind = "svshm" /\ (SvshmCreate(p) \/ SvshmAttach(p) \/ SvshmRm(p))
  \/ kind = "memfd" /\ (TMemfdCreate(p) \/ DemoFileSeals(p) \/ TAddSeals(p) \/ TGetSeals(p))
  \/ kind = "tee" /\ Tee(p)
  \/ kind = "copy" /\ (Copy(p) \/ Mmcopy(p))
  \/ kind = "setenv" /\ (unsetenv(p) \/ setenv(p))

Next == \E p \in Procs : Proc(p) \/ (kind = "fcntl" /\ FcntlCommand(p))
-----------------------------------------------------------------------------
\* The values of the variables; no queue holds more than it can.
TypeOK ==
  /\ kind \in Kinds /\ \A p \in Procs : at[p] \in Over \cup {"start", "blocked", "request", "held", "seek", "write", "create",
       "opened", "resized", "mapped", "loop", "read", "stdout", "file", "scan", "put"}
  /\ kind \in {"svmsg", "pmsg"} => \A i \in 1..4 : Len(file.q[i]) <= QMax

\* i_fcntl_locking.c: no two owners have been told that they hold locks on the same byte of
\* which one is a write lock, and no two processes wait for each other's locks unless one of the
\* locks belongs to an open file description.  t_flock.c: an exclusive lock is held alone.
LocksHeld ==
  /\ kind = "fcntl" =>
       /\ \A o \in Owners, x \in Owners, b \in Bytes : o # x /\ told[o][b] = "w" => told[x][b] = "u"
       /\ at[1] = "blocked" /\ at[2] = "blocked" => off[1].cmd = "W" \/ off[2].cmd = "W" \/ ~(
            <<2, "posix">> \in Blocks(1, off[1]) /\ <<1, "posix">> \in Blocks(2, off[2]))
  /\ kind = "flock" => \A p, q \in Procs : p # q /\ at[p] = "held" /\ at[q] = "held" => opt[p].type = "s"

\* atomic_append.c: with O_APPEND nobody's bytes are lost; with lseek() and write() some may be.
\* bad_exclusive_open.c: a second process says that it created the file only if the first one
\* did so between the two open() calls.
NothingOverwritten ==
  /\ kind = "append" =>
       LET total == Len(out[1]) + Len(out[2]) IN
       /\ file <= total /\ (\A p \in {1, 2} : "x" \notin opt[p].f) => file = total
       /\ \A p \in {1, 2} : off[p] <= file
  /\ kind = "bad_open" =>
       LET claims == {p \in Procs : out[p] = <<"created">>} IN Cardinality(claims \ late) <= 1

Received == {out[p][1] : p \in {q \in Procs : out[q] # <<>>}}
\* svmsg_*.c, pmsg_*.c: every message that was sent is on a queue or was received once; messages
\* of one type (or priority) are received in the order in which they were sent.
MessagesKept ==
  kind \in {"svmsg", "pmsg"} =>
    LET got == {m.n : m \in Received}
        queued == UNION {{file.q[i][j].n : j \in 1..Len(file.q[i])} : i \in 1..4} IN
    /\ got \cup queued = 1..Len(sent) /\ got \cap queued = {}
    /\ Cardinality(got) = Cardinality({p \in Procs : out[p] # <<>>})
    /\ \A i \in 1..4 : \A j \in 1..Len(file.q[i]) : \A m \in Received :
         m.q = i /\ m.type = file.q[i][j].type => m.n < file.q[i][j].n

\* pshm_read.c displays a string as it was written, unless it overlaps with a program that
\* changes the object, such programs overlap, pshm_write.c fails half-way, or pshm_create.c has sized an
\* object in use.
StringWhole ==
  kind = "pshm" /\ late = {} /\ (\A p \in Procs : opt[p].n = "pshm_write" => at[p] # "failed") =>
    \A p \in Procs : opt[p].n = "pshm_read" /\ at[p] = "done" =>
      \/ out[p][2] \in {<<9, 9>>, Zeros(out[p][1])}
      \/ \E q \in Procs : opt[q].n = "pshm_write" /\ out[p][2] = [i \in 1..opt[q].len |-> q]

\* svshm_*.c: a segment exists as long as a process is attached to it, and no longer than that
\* once it is marked; no two segments have the key.  memfd: seals are not taken away, so that
\* what t_get_seals.c displays goes on being true, a file whose seals are sealed keeps those
\* that it had then, and F_SEAL_GROW keeps the string of demo_file_seals.c from growing it.
ObjectsKept ==
  /\ kind = "svshm" =>
       /\ \A i \in 1..4 : Attached(i) # {} => file.q[i] # <<>>
       /\ \A i \in file.gone : Attached(i) = {} => file.q[i] = <<>>
       /\ file.name \notin file.gone
  /\ kind = "memfd" =>
       /\ \A p \in Procs : opt[p].n = "t_get_seals" /\ at[p] = "done" =>
            out[p][1] \subseteq file.seals /\ ("S" \in out[p][1] => out[p][1] = file.seals)
       /\ "g" \in file.seals => file.size <= opt[1].len
       /\ at[1] = "held" => opt[1].f \subseteq file.seals
       /\ opt[1].n = "demo_file_seals" /\ at[1] = "done" => opt[1].type <= opt[1].len

Covering(x, nw) == {j \in 1..nw : x \in sent[j].pos..sent[j].pos + Width - 1}
\* seek_io.c: what is displayed at an offset is what was written there last, holes read as
\* zeros, and there is no more of it than up to the end.  ex.tee.c: both outputs are complete and in
\* order, unless a write() is short.  setenv.c: all the entries of the name, and no others, are
\* replaced by one; a failure for want of memory leaves none.  copy.c, mmcopy.c: success means that
\* the new file is the old one, but for an empty file in mmcopy, and a file that is copied
\* to itself, which copy empties and mmcopy fills with zeros.
ContentRight ==
  /\ kind = "seek_io" => \A i \in 1..Len(out[1]) :
       LET r == out[1][i] end == Max({0} \cup {sent[j].pos + Width : j \in 1..r.nw}) IN
       /\ Len(r.data) = Max({0, Min({2, end - r.pos})})
       /\ \A k \in 1..Len(r.data) :
            LET c == Covering(r.pos + k - 1, r.nw) IN r.data[k] = IF c = {} THEN 0 ELSE sent[Max(c)].v
  /\ kind = "tee" /\ at[1] = "done" =>
       LET all == [i \in 1..opt[1].len |-> i] IN
       /\ "stdout" \notin late => out[1] = all
       /\ "file" \notin late => file = (IF "a" \in opt[1].f THEN sent ELSE <<>>) \o all
  /\ kind = "copy" /\ at[1] = "done" =>
       IF "same" \in opt[1].f THEN file.src = IF opt[1].n = "copy" THEN <<>> ELSE Zeros(Len(sent))
       ELSE file.src = sent /\ file.dst = IF opt[1].n = "mmcopy" /\ sent = <<>> THEN <<9, 9>> ELSE sent
  /\ kind = "setenv" /\ at[1] \in Over =>
       LET name == opt[1].type
           others == SelectSeq(sent, LAMBDA e : ~Matches(e, name))
           set == others # sent
           new == <<Entry(name, opt[1].len)>> IN
       file = IF name = "" \/ (opt[1].n = "setenv" /\ set /\ "o" \notin opt[1].f) THEN sent
              ELSE IF opt[1].n = "setenv" /\ at[1] = "done" THEN others \o new ELSE others

\* t_flock gets its lock, or gives up: its rivals release theirs.
Due == kind = "flock" /\ \E p \in Procs : at[p] = "request"
DueDone == kind = "flock" /\ \A p \in Procs : at[p] # "request"
=============================================================================
