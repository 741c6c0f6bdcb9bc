------------------------------ MODULE Children ------------------------------
(***************************************************************************)
(* Programs of src/procexec and src/pipes that create children, one of     *)
(* which (kind) runs: those that collect the children's statuses, those    *)
(* that show what parent and child share, the two implementations of       *)
(* system(), and those that talk through pipes.  Process 0 is the parent.  *)
(***************************************************************************)
EXTENDS Integers, Sequences, FiniteSets

CONSTANTS N,          \* children of the programs that create as many as arguments
          Bytes,      \* bound: bytes (lines, chunks) that go through a pipe
          BUF_SIZE,   \* bytes of one read
          Capacity,   \* bytes (lines) a pipe holds
          Rounds,     \* bound: commands of t_system, patterns of popen_glob
          ArgvSize    \* arguments execlp() makes room for at a time

VARIABLES kind, pc, kid,
          blocked, pend,   \* SIGCHLD (SYNC_SIG) at the parent: blocked, pending
          live, caught,    \* numLiveChildren (numDead), sigCnt
          env,             \* the caller of system(), the flags of clone(), ...
          status,          \* what wait() told last
          changed,         \* attributes of the parent that the child has changed
          wr, rd,          \* who has the write and the read end of the pipe open
          buf, back, left, out   \* the pipe, the pipe back, what is still to write, output

sig == <<blocked, pend, live, caught>>
pipe == <<wr, rd, buf, back, left, out>>
rest == <<env, status, changed, pipe>>
vars == <<kind, pc, kid, sig, rest>>

Kids == 1..N
Reapers == {"multi_SIGCHLD", "multi_wait", "fork_whos_on_first", "make_zombie", "orphan",
            "child_status", "fork_sig_sync"}
Sharers == {"demo_clone", "t_clone", "fork_file_sharing", "footprint", "t_fork", "t_vfork",
            "vfork_fd_test"}
Systems == {"system", "simple_system"}
Pipers == {"pipe_sync", "pipe_ls_wc", "simple_pipe", "change_case", "popen_glob"}
Kinds == Reapers \cup Sharers \cup Systems \cup Pipers \cup {"execlp"}
Ended == {"zombie", "reaped", "gone"}
Over == {"done", "failed", "killed", "execed"}

\* The caller of system(): its disposition of SIGCHLD and SIGINT (chld, int), whether it
\* has SIGCHLD blocked, and what system() has saved.
Callers == [chld : {"dfl", "reaper", "ign"}, int : {"dfl", "ign"}, int0 : {"dfl", "ign"},
            blocked0 : BOOLEAN, cint : {"none"}, fork : {TRUE}, end : {-1}]

Init ==
  /\ kind \in Kinds /\ pc = "start"
  /\ CASE kind \in Systems -> env \in {c \in Callers : c.int0 = c.int}
       [] kind = "demo_clone" -> env \in [flags : SUBSET {"files", "fs", "sighand", "vm"}]
       [] kind = "t_clone" -> env \in [flags : SUBSET {"files"}]
       [] kind = "execlp" -> env \in [items : 1..2 * ArgvSize, prefixes : 0..2, argc : {0}, size : {0},
                                      cap : {0}, resized : {FALSE}, over : {FALSE}, errnos : {<<>>}]
       [] kind = "orphan" -> env \in [adopter : {1, 2}]   \* init, or a subreaper
       [] kind = "child_status" -> env \in [arg : {-1, 0, 3, 257}, report : {-1}]
       [] kind = "footprint" -> env \in [arg : {0, 3, 257}]
       [] kind \in Pipers -> env \in [total : 0..Bytes]
       [] OTHER -> env = [none |-> 0]
  /\ blocked = (kind \in Systems /\ env.blocked0) /\ pend = FALSE
  /\ kid \in IF kind \in Systems
             THEN {[k \in Kids |-> IF k = 2 THEN o ELSE "none"] : o \in {"none", "run"}}
             ELSE {[k \in Kids |-> "none"]}
  /\ live = 0 /\ caught = 0 /\ status = 0 /\ changed = {}
  /\ wr = {} /\ rd = {} /\ buf = 0 /\ back = 0 /\ out = 0
  /\ left = IF kind \in Pipers THEN env.total ELSE 0

P(k, from, to) == kind = k /\ pc = from /\ pc' = to /\ UNCHANGED kind
C(c, from, to) == kid[c] = from /\ kid' = [kid EXCEPT ![c] = to]
\* A child whose parent is gone, or ignores SIGCHLD, leaves no zombie.
Corpse == IF pc \in Over THEN "gone"
          ELSE IF kind \in Systems /\ env.chld = "ign" THEN "reaped" ELSE "zombie"
\* _exit() of a child: the parent gets SIGCHLD, and the pipe loses its ends.
Exit(c, from) ==
  /\ C(c, from, Corpse)
  /\ pend' = (pend \/ kind \in {"multi_SIGCHLD"} \cup Systems)
  /\ wr' = wr \ {c} /\ rd' = rd \ {c}
\* fork(): the child has every descriptor of the parent.
Fork(c) == /\ C(c, "none", "run")
           /\ wr' = wr \cup {x \in {c} : 0 \in wr} /\ rd' = rd \cup {x \in {c} : 0 \in rd}
-----------------------------------------------------------------------------
(* Collecting the children *)

\* One fork() per argument; errExit() when one fails.
ForkEach(k, after) ==
  \/ \E c \in Kids :
       /\ \A b \in 1..c - 1 : kid[b] # "none"
       /\ P(k, "fork", "fork") /\ Fork(c)
       /\ UNCHANGED <<sig, env, status, changed, buf, back, left, out>>
  \/ /\ P(k, "fork", "failed") /\ \E c \in Kids : kid[c] = "none"
     /\ wr' = wr \ {0} /\ rd' = rd \ {0} /\ UNCHANGED <<kid, sig, env, status, changed, buf, back, left, out>>
  \/ /\ \A c \in Kids : kid[c] # "none"
     /\ P(k, "fork", after) /\ UNCHANGED <<kid, sig, rest>>

\* Mutant of SigchldHandler: one waitpid() for one SIGCHLD.
SigchldHandlerOnce ==
  \/ /\ kind = "multi_SIGCHLD" /\ pc = "suspended" /\ pend /\ ~blocked
     /\ pc' = "handler" /\ pend' = FALSE /\ blocked' = TRUE
     /\ UNCHANGED <<kind, kid, live, caught, rest>>
  \/ \E c \in Kids : /\ P("multi_SIGCHLD", "handler", "returning") /\ C(c, "zombie", "reaped")
                     /\ live' = live - 1
                     /\ UNCHANGED <<blocked, pend, caught, rest>>
  \/ /\ P("multi_SIGCHLD", "returning", "suspend") /\ caught' = caught + 1
     /\ UNCHANGED <<kid, blocked, pend, live, rest>>

\* sigchldHandler(): SIGCHLD is blocked while it runs; it waits for children, one after the
\* other, until none is dead, and returns to sigsuspend(), which returns too.
SigchldHandler ==
  \/ /\ kind = "multi_SIGCHLD" /\ pc = "suspended" /\ pend /\ ~blocked
     /\ pc' = "handler" /\ pend' = FALSE /\ blocked' = TRUE
     /\ UNCHANGED <<kind, kid, live, caught, rest>>
  \/ \E c \in Kids : /\ P("multi_SIGCHLD", "handler", "handler") /\ C(c, "zombie", "reaped")
                     /\ live' = live - 1
                     /\ UNCHANGED <<blocked, pend, caught, rest>>
  \/ /\ P("multi_SIGCHLD", "handler", "suspend") /\ \A c \in Kids : kid[c] # "zombie"
     /\ caught' = caught + 1
     /\ UNCHANGED <<kid, blocked, pend, live, rest>>

\* main() of multi_SIGCHLD: SIGCHLD is blocked from before the first fork() until
\* sigsuspend(), which unblocks it and sleeps in one step.
MultiSIGCHLD ==
  \/ /\ P("multi_SIGCHLD", "start", "fork") /\ blocked' = TRUE /\ live' = N
     /\ UNCHANGED <<kid, pend, caught, rest>>
  \/ ForkEach("multi_SIGCHLD", "suspend")
  \/ /\ live > 0 /\ P("multi_SIGCHLD", "suspend", "suspended") /\ blocked' = FALSE
     /\ UNCHANGED <<kid, pend, live, caught, rest>>
  \/ /\ live = 0 /\ P("multi_SIGCHLD", "suspend", "done")
     /\ UNCHANGED <<kid, sig, rest>>

\* main() of multi_wait: wait() until ECHILD.
MultiWait ==
  \/ P("multi_wait", "start", "fork") /\ UNCHANGED <<kid, sig, rest>>
  \/ ForkEach("multi_wait", "wait")
  \/ \E c \in Kids : /\ P("multi_wait", "wait", "wait") /\ C(c, "zombie", "reaped")
                     /\ live' = live + 1
                     /\ UNCHANGED <<blocked, pend, caught, rest>>
  \/ /\ P("multi_wait", "wait", "done") /\ \A c \in Kids : kid[c] = "reaped"
     /\ UNCHANGED <<kid, sig, rest>>

\* main() of fork_whos_on_first: one child at a time, waited for before the next.
ForkWhosOnFirst ==
  LET k == "fork_whos_on_first" IN
  \/ P(k, "start", "fork") /\ UNCHANGED <<kid, sig, rest>>
  \/ \E c \in Kids : /\ \A b \in 1..c - 1 : kid[b] = "reaped"
                     /\ P(k, "fork", "wait") /\ Fork(c)
                     /\ UNCHANGED <<sig, env, status, changed, buf, back, left, out>>
  \/ /\ P(k, "fork", "failed") /\ \E c \in Kids : kid[c] = "none"
     /\ UNCHANGED <<kid, sig, rest>>
  \/ \E c \in Kids : /\ P(k, "wait", "fork") /\ C(c, "zombie", "reaped")
                     /\ UNCHANGED <<sig, rest>>
  \/ /\ P(k, "fork", "done") /\ \A c \in Kids : kid[c] = "reaped"
     /\ UNCHANGED <<kid, sig, rest>>

Fork1(k, to, failed) ==
  \/ P(k, "fork", to) /\ Fork(1) /\ UNCHANGED <<sig, env, status, changed, buf, back, left, out>>
  \/ P(k, "fork", failed) /\ UNCHANGED <<kid, sig, rest>>

\* make_zombie: SIGKILL finds a zombie, or a child that three seconds were not enough for;
\* ps (system()) waits for no child but its own.
MakeZombie ==
  \/ P("make_zombie", "start", "fork") /\ UNCHANGED <<kid, sig, rest>>
  \/ Fork1("make_zombie", "ps", "failed")
  \/ P("make_zombie", "ps", "kill") /\ UNCHANGED <<kid, sig, rest>>
  \/ /\ P("make_zombie", "kill", "ps2")
     /\ kid' = [kid EXCEPT ![1] = "zombie"] /\ UNCHANGED <<sig, rest>>
  \/ P("make_zombie", "ps2", "done") /\ UNCHANGED <<kid, sig, rest>>

\* orphan: the child looks at getppid() every second, until it is 1.
Orphan ==
  \/ P("orphan", "start", "fork") /\ UNCHANGED <<kid, sig, rest>>
  \/ Fork1("orphan", "sleep", "failed")
  \/ P("orphan", "sleep", "done") /\ UNCHANGED <<kid, sig, rest>>

\* fork_sig_sync: sigsuspend() takes the signal of the child, early or late.
ForkSigSync ==
  LET k == "fork_sig_sync" IN
  \/ P(k, "start", "fork") /\ blocked' = TRUE /\ UNCHANGED <<kid, pend, live, caught, rest>>
  \/ Fork1(k, "work", "failed")
  \/ P(k, "work", "suspended") /\ blocked' = FALSE /\ UNCHANGED <<kid, pend, live, caught, rest>>
  \/ /\ P(k, "suspended", "done") /\ pend /\ pend' = FALSE
     /\ UNCHANGED <<kid, blocked, live, caught, rest>>
-----------------------------------------------------------------------------
(* child_status, and the status words of wait(): the signal in the low byte, the exit *)
(* status or the stopping signal in the next *)

SIGKILL == 9
SIGSTOP == 19
Exited(e) == (e % 256) * 256
Stopped(s) == s * 256 + 127
Continued == 65535
WIFEXITED(s) == s % 128 = 0
WIFSIGNALED(s) == s % 128 \in 1..126
WIFSTOPPED(s) == s % 256 = 127

\* printWaitStatus()
PrintWaitStatus(s) == CASE WIFEXITED(s) -> "exited"
                        [] WIFSIGNALED(s) -> "killed"
                        [] WIFSTOPPED(s) -> "stopped"
                        [] s = Continued -> "continued"
                        [] OTHER -> "what happened to this child?"

\* What becomes of the child of child_status: it exits, or waits for signals.  A change
\* that has not been waited for gives way to the next.
ChildStatusChild ==
  /\ kind = "child_status" /\ UNCHANGED <<kind, pc, sig, status, changed, pipe>>
  /\ \/ env.arg >= 0 /\ C(1, "run", "zombie") /\ env' = [env EXCEPT !.report = Exited(env.arg)]
     \/ C(1, "run", "stopped") /\ env' = [env EXCEPT !.report = Stopped(SIGSTOP)]
     \/ C(1, "stopped", "run") /\ env' = [env EXCEPT !.report = Continued]
     \/ /\ \E from \in {"run", "stopped"} : C(1, from, "zombie")
        /\ env' = [env EXCEPT !.report = SIGKILL]

\* The parent waits with WUNTRACED and WCONTINUED until the child has exited or was killed.
ChildStatus ==
  LET k == "child_status" IN
  \/ P(k, "start", "fork") /\ UNCHANGED <<kid, sig, rest>>
  \/ Fork1(k, "wait", "failed")
  \/ /\ kind = k /\ env.report >= 0
     /\ P(k, "wait", IF WIFEXITED(env.report) \/ WIFSIGNALED(env.report) THEN "done" ELSE "wait")
     /\ kid' = IF kid[1] = "zombie" THEN [kid EXCEPT ![1] = "reaped"] ELSE kid
     /\ status' = env.report /\ env' = [env EXCEPT !.report = -1]
     /\ changed' = changed \cup {PrintWaitStatus(env.report)} /\ UNCHANGED <<sig, pipe>>
-----------------------------------------------------------------------------
(* What parent and child share *)

\* The attributes the child changes, and what of the process they belong to.
Changes ==
  [demo_clone        |-> {<<"umask", "fs">>, <<"fd", "files">>, <<"SIGTERM", "sighand">>},
   t_clone           |-> {<<"fd", "files">>},
   fork_file_sharing |-> {<<"offset", "open file">>, <<"O_APPEND", "open file">>},
   footprint         |-> {<<"break", "vm">>},
   t_fork            |-> {<<"idata", "vm">>, <<"istack", "vm">>},
   t_vfork           |-> {<<"istack", "vm">>},
   vfork_fd_test     |-> {<<"stdout", "files">>}]

Shared == CASE kind \in {"demo_clone", "t_clone"} -> env.flags
            [] kind = "t_vfork" -> {"vm", "open file"}
            [] OTHER -> {"open file"}

\* The child of a sharer makes its changes; an exit() follows.
Change ==
  /\ kind \in Sharers /\ C(1, "run", "worked")
  /\ changed' = changed \cup {a \in Changes[kind] : a[2] \in Shared}
  /\ UNCHANGED <<kind, pc, sig, env, status, pipe>>

Waited(k) == kid[1] = "zombie" /\ kid' = [kid EXCEPT ![1] = "reaped"]
Leave(k) == P(k, "start", "fork") /\ UNCHANGED <<kid, sig, rest>>

\* clone() wants CLONE_VM with CLONE_SIGHAND; the handler of CHILD_SIG restarts waitpid().
Cloned(k) ==
  \/ Leave(k)
  \/ /\ "sighand" \in Shared => "vm" \in Shared
     /\ Fork1(k, "wait", "failed")
  \/ /\ "sighand" \in Shared /\ "vm" \notin Shared
     /\ P(k, "fork", "failed") /\ UNCHANGED <<kid, sig, rest>>
  \/ P(k, "wait", "done") /\ Waited(k) /\ UNCHANGED <<sig, rest>>
DemoClone == Cloned("demo_clone")
TClone == Cloned("t_clone")

\* Mutant of ForkFileSharing: the parent does not wait for the child.
ForkFileSharingNoWait ==
  LET k == "fork_file_sharing" IN
  \/ Leave(k)
  \/ Fork1(k, "wait", "failed")
  \/ P(k, "wait", "done") /\ UNCHANGED <<kid, sig, rest>>
ForkFileSharing ==
  LET k == "fork_file_sharing" IN
  \/ Leave(k)
  \/ Fork1(k, "wait", "failed")
  \/ P(k, "wait", "done") /\ Waited(k) /\ UNCHANGED <<sig, rest>>
\* The child's status is the result of func().
Footprint ==
  LET k == "footprint" IN
  \/ Leave(k)
  \/ Fork1(k, "wait", "failed")
  \/ /\ P(k, "wait", "done") /\ Waited(k) /\ status' = Exited(env.arg)
     /\ UNCHANGED <<sig, env, changed, pipe>>
\* The parent sleeps; the child may still have everything to do.
TFork ==
  \/ Leave("t_fork")
  \/ Fork1("t_fork", "sleep", "failed")
  \/ P("t_fork", "sleep", "done") /\ UNCHANGED <<kid, sig, rest>>
\* vfork(): the parent goes on when the child has exited.
TVfork ==
  \/ Leave("t_vfork")
  \/ Fork1("t_vfork", "vfork", "failed")
  \/ P("t_vfork", "vfork", "done") /\ kid[1] \in Ended /\ UNCHANGED <<kid, sig, rest>>
\* caught counts the close() calls that fail.
VforkFdTest ==
  LET k == "vfork_fd_test" IN
  \/ Leave(k)
  \/ Fork1(k, "vfork", "failed")
  \/ /\ P(k, "vfork", "done") /\ kid[1] \in Ended
     /\ caught' = IF changed = {} THEN 1 ELSE 2
     /\ UNCHANGED <<kid, blocked, pend, live, rest>>
-----------------------------------------------------------------------------
-----------------------------------------------------------------------------
(* system(), simple and complete, and t_system, which calls it for each line.  Child 1 *)
(* is the shell, child 2 another child of the caller. *)

SetEnv(e) == env' = e /\ UNCHANGED <<status, changed, pipe>>

\* t_system: the prompt, system(), the status; errExit() when system() fails.
TSystem ==
  \/ /\ kind \in Systems /\ pc \in {"start", "returned"} /\ status # -1 /\ caught < Rounds
     /\ pc' = "call" /\ caught' = caught + 1
     /\ kid' = [kid EXCEPT ![1] = "none"] /\ env' = [env EXCEPT !.end = -1]
     /\ UNCHANGED <<kind, blocked, pend, live, status, changed, pipe>>
  \/ /\ kind \in Systems /\ pc \in {"start", "returned"}
     /\ pc' = IF status = -1 THEN "failed" ELSE "done"
     /\ UNCHANGED <<kind, kid, sig, rest>>

\* fork() of either; the child of system() still ignores SIGINT, like the caller.
ForkShell ==
  /\ kind \in Systems /\ pc = "fork" /\ UNCHANGED <<kind, sig, changed, pipe>>
  /\ \/ /\ pc' = "wait" /\ C(1, "none", IF kind = "system" THEN "born" ELSE "run")
        /\ env' = [env EXCEPT !.cint = env.int, !.fork = TRUE] /\ UNCHANGED status
     \/ /\ pc' = "restore" /\ status' = -1 /\ env' = [env EXCEPT !.fork = FALSE] /\ UNCHANGED kid

\* waitpid(childPid): the status, or ECHILD when something else has collected it.
WaitShell ==
  /\ kind \in Systems /\ pc = "wait" /\ pc' = "restore"
  /\ \/ C(1, "zombie", "reaped") /\ status' = env.end
     \/ kid[1] = "reaped" /\ status' = -1 /\ UNCHANGED kid
  /\ UNCHANGED <<kind, sig, env, changed, pipe>>

\* The shell: system() gives it the dispositions and the mask of the caller; then it cannot be
\* executed (127), or ends with the status of the command.
Shell ==
  \/ /\ kind = "system" /\ C(1, "born", "run")
     /\ SetEnv([env EXCEPT !.cint = env.int0]) /\ UNCHANGED <<kind, pc, sig>>
  \/ /\ kind \in Systems /\ Exit(1, "run")
     /\ \E e \in {0, 127} : env' = [env EXCEPT !.end = Exited(e)]
     /\ UNCHANGED <<kind, pc, blocked, live, caught, status, changed, buf, back, left, out>>

\* Mutant of System: SIGCHLD is left unblocked.
SystemUnblocked ==
  \/ /\ P("system", "call", "fork") /\ SetEnv([env EXCEPT !.int = "ign"]) /\ UNCHANGED <<kid, sig>>
  \/ kind = "system" /\ (ForkShell \/ WaitShell)
  \/ /\ P("system", "restore", "returned") /\ SetEnv([env EXCEPT !.int = env.int0])
     /\ UNCHANGED <<kid, sig>>

\* system(): SIGCHLD blocked, SIGINT ignored; fork, wait; everything as it was, also when
\* fork() has failed.
System ==
  \/ /\ P("system", "call", "fork") /\ blocked' = TRUE /\ SetEnv([env EXCEPT !.int = "ign"])
     /\ UNCHANGED <<kid, pend, live, caught>>
  \/ kind = "system" /\ (ForkShell \/ WaitShell)
  \/ /\ P("system", "restore", "returned") /\ blocked' = env.blocked0
     /\ SetEnv([env EXCEPT !.int = env.int0]) /\ UNCHANGED <<kid, pend, live, caught>>

SimpleSystem ==
  \/ P("simple_system", "call", "fork") /\ UNCHANGED <<kid, sig, rest>>
  \/ kind = "simple_system" /\ (ForkShell \/ WaitShell)
  \/ P("simple_system", "restore", "returned") /\ UNCHANGED <<kid, sig, rest>>

\* The caller's handler of SIGCHLD collects every dead child.
CallersReaper ==
  /\ kind \in Systems /\ env.chld = "reaper" /\ pend /\ ~blocked /\ pc \notin Over
  /\ kid' = [k \in Kids |-> IF kid[k] = "zombie" THEN "reaped" ELSE kid[k]]
  /\ pend' = FALSE /\ UNCHANGED <<kind, pc, blocked, live, caught, rest>>

\* ^C reaches the caller and the shell; the other child has a process group of its own.
Interrupt ==
  /\ kind \in Systems /\ pc \notin Over
  /\ pc' = IF env.int = "dfl" THEN "killed" ELSE pc
  /\ LET dies == kid[1] \in {"born", "run"} /\ env.cint = "dfl" IN
     /\ kid' = IF dies THEN [kid EXCEPT ![1] = Corpse] ELSE kid
     /\ pend' = (pend \/ dies) /\ env' = IF dies THEN [env EXCEPT !.end = 2] ELSE env
  /\ UNCHANGED <<kind, blocked, live, caught, status, changed, pipe>>
-----------------------------------------------------------------------------
(* Pipes *)

same == <<sig, env, status, changed>>
MakePipe(k, to) == P(k, "start", to) /\ wr' = {0} /\ rd' = {0}
                   /\ UNCHANGED <<kid, same, buf, back, left, out>>
CloseEnds(w, r) == wr' = wr \ w /\ rd' = rd \ r /\ UNCHANGED <<buf, back, left, out>>
EndOfFile == buf = 0 /\ wr = {}

\* pipe_sync: the parent, its own write end closed, waits for the end of file.
PipeSync ==
  LET k == "pipe_sync" IN
  \/ MakePipe(k, "fork")
  \/ ForkEach(k, "close")
  \/ P(k, "close", "read") /\ CloseEnds({0}, {}) /\ UNCHANGED <<kid, same>>
  \/ P(k, "read", "done") /\ EndOfFile /\ UNCHANGED <<kid, same, pipe>>

\* pipe_ls_wc: the parent closes both ends and waits twice.
PipeLsWc ==
  LET k == "pipe_ls_wc" IN
  \/ MakePipe(k, "fork")
  \/ \E c \in {1, 2} : /\ P(k, IF c = 1 THEN "fork" ELSE "fork2", IF c = 1 THEN "fork2" ELSE "close")
                       /\ Fork(c) /\ UNCHANGED <<same, buf, back, left, out>>
  \/ /\ kind = k /\ pc \in {"fork", "fork2"} /\ pc' = "failed"
     /\ CloseEnds({0}, {0}) /\ UNCHANGED <<kind, kid, same>>
  \/ P(k, "close", "wait") /\ CloseEnds({0}, {0}) /\ UNCHANGED <<kid, same>>
  \/ \E c \in {1, 2} :
       /\ P(k, "wait", IF kid[3 - c] = "reaped" THEN "done" ELSE "wait")
       /\ C(c, "zombie", "reaped") /\ UNCHANGED <<same, pipe>>

\* ls and wc: each closes the end it does not use and executes, or fails to; ls writes line
\* after line, and is killed by SIGPIPE when nobody can read; wc reads to the end of file.
LsWc ==
  /\ kind = "pipe_ls_wc" /\ UNCHANGED <<kind, pc, blocked, live, caught, env, status>>
  /\ \/ \E c \in {1, 2} : /\ C(c, "run", "worked") /\ CloseEnds({2} \cap {c}, {1} \cap {c})
                          /\ UNCHANGED <<pend, changed>>
     \/ \E c \in {1, 2} : /\ Exit(c, "run") /\ changed' = changed \cup {c}
                          /\ UNCHANGED <<buf, back, left, out>>
     \/ /\ kid[1] = "worked" /\ left > 0 /\ rd # {} /\ buf < Capacity
        /\ left' = left - 1 /\ buf' = buf + 1 /\ UNCHANGED <<kid, pend, changed, wr, rd, back, out>>
     \/ (left = 0 \/ rd = {}) /\ Exit(1, "worked") /\ UNCHANGED <<changed, buf, back, left, out>>
     \/ /\ kid[2] = "worked" /\ buf > 0
        /\ buf' = buf - 1 /\ out' = out + 1 /\ UNCHANGED <<kid, pend, changed, wr, rd, back, left>>
     \/ EndOfFile /\ Exit(2, "worked") /\ UNCHANGED <<changed, buf, back, left, out>>

\* simple_pipe: the parent writes its argument at once and closes the pipe; the child reads
\* at most BUF_SIZE bytes at a time, to the end of file.
SimplePipe ==
  LET k == "simple_pipe" IN
  \/ MakePipe(k, "fork")
  \/ Fork1(k, "write", "failed")
  \/ /\ P(k, "write", "close") /\ buf' = left /\ left' = 0 /\ rd' = rd \ {0}
     /\ UNCHANGED <<kid, same, wr, back, out>>
  \/ P(k, "close", "wait") /\ CloseEnds({0}, {}) /\ UNCHANGED <<kid, same>>
  \/ P(k, "wait", "done") /\ Waited(k) /\ UNCHANGED <<same, pipe>>

\* change_case: what the parent reads goes out and comes back before it reads again.
ChangeCase ==
  LET k == "change_case" IN
  \/ MakePipe(k, "fork")
  \/ Fork1(k, "close", "failed")
  \/ P(k, "close", "read") /\ CloseEnds({}, {0}) /\ UNCHANGED <<kid, same>>
  \/ /\ P(k, "read", "answer") /\ left > 0 /\ left' = left - 1 /\ buf' = buf + 1
     /\ UNCHANGED <<kid, same, wr, rd, back, out>>
  \/ /\ P(k, "answer", "read") /\ back > 0 /\ back' = back - 1 /\ out' = out + 1
     /\ UNCHANGED <<kid, same, wr, rd, buf, left>>
  \/ P(k, "read", "done") /\ left = 0 /\ CloseEnds({0}, {0}) /\ UNCHANGED <<kid, same>>

\* The child of simple_pipe and of change_case.
PipeReader ==
  /\ kind \in {"simple_pipe", "change_case"}
  /\ UNCHANGED <<kind, pc, blocked, live, caught, env, status, changed, left>>
  /\ \/ C(1, "run", "worked") /\ wr' = wr \ {1} /\ UNCHANGED <<pend, rd, buf, back, out>>
     \/ /\ kid[1] = "worked" /\ buf > 0
        /\ LET n == IF buf > BUF_SIZE THEN BUF_SIZE ELSE buf IN
           /\ buf' = buf - n
           /\ IF kind = "simple_pipe" THEN out' = out + n /\ UNCHANGED back
                                      ELSE back' = back + n /\ UNCHANGED out
        /\ UNCHANGED <<kid, pend, wr, rd>>
     \/ EndOfFile /\ Exit(1, "worked") /\ UNCHANGED <<buf, back, out>>

\* popen_glob: a line is skipped (empty, a bad character, popen() failed), or its names are
\* read to the end of file before pclose() waits for ls.
PopenGlob ==
  LET k == "popen_glob" IN
  \/ P(k, "start", "done") /\ UNCHANGED <<kid, same, pipe>>
  \/ /\ P(k, "start", "start") /\ caught < Rounds /\ caught' = caught + 1
     /\ UNCHANGED <<kid, blocked, pend, live, rest>>
  \/ /\ P(k, "start", "read") /\ caught < Rounds /\ caught' = caught + 1
     /\ kid' = [kid EXCEPT ![1] = "run"] /\ wr' = {1} /\ rd' = {0} /\ left' = env.total /\ out' = 0
     /\ UNCHANGED <<blocked, pend, live, env, status, changed, buf, back>>
  \/ /\ P(k, "read", "read") /\ buf > 0 /\ buf' = buf - 1 /\ out' = out + 1
     /\ UNCHANGED <<kid, same, wr, rd, back, left>>
  \/ P(k, "read", "pclose") /\ EndOfFile /\ CloseEnds({}, {0}) /\ UNCHANGED <<kid, same>>
  \/ P(k, "pclose", "start") /\ Waited(k) /\ UNCHANGED <<same, pipe>>

PopenLs ==
  /\ kind = "popen_glob" /\ UNCHANGED <<kind, pc, blocked, live, caught, env, status, changed>>
  /\ \/ /\ kid[1] = "run" /\ left > 0 /\ buf < Capacity /\ left' = left - 1 /\ buf' = buf + 1
        /\ UNCHANGED <<kid, pend, wr, rd, back, out>>
     \/ left = 0 /\ Exit(1, "run") /\ UNCHANGED <<buf, back, left, out>>
-----------------------------------------------------------------------------
(* execlp(): env.items arguments, the NULL included; no prefix when the name has a slash *)

Errnos == {"EACCES", "ENOENT", "ENOEXEC"}

\* argv grows by reallocation: to the size of a single pointer (line 90).
BuildArgv ==
  /\ kind = "execlp" /\ UNCHANGED <<kind, kid, sig, status, changed, pipe>>
  /\ \/ /\ pc = "start" /\ pc' = "argv"
        /\ env' = [env EXCEPT !.argc = 1, !.size = ArgvSize, !.cap = ArgvSize]
     \/ /\ pc = "argv" /\ env.argc < env.items
        /\ LET grow == env.argc + 1 >= env.size
               cap == IF grow THEN 1 ELSE env.cap IN
           /\ pc' = "argv"
           /\ env' = [env EXCEPT !.argc = env.argc + 1, !.cap = cap, !.resized = env.resized \/ grow,
                                 !.size = IF grow THEN env.size + ArgvSize ELSE env.size,
                                 !.over = env.over \/ env.argc >= cap]
     \/ pc = "argv" /\ env.argc + 1 >= env.size /\ env.argc < env.items /\ pc' = "failed" /\ UNCHANGED env
     \/ pc = "argv" /\ env.argc = env.items /\ pc' = "exec" /\ UNCHANGED env

\* execve() of each candidate; ENOEXEC tries the shell, whose vector is one element short
\* (line 44); in the end EACCES if there was one, or else the last error.
ExecPath ==
  /\ kind = "execlp" /\ pc = "exec" /\ UNCHANGED <<kind, kid, sig, status, pipe>>
  /\ \/ pc' = "execed" /\ UNCHANGED <<env, changed>>
     \/ \E e \in Errnos :
          LET tried == [env EXCEPT !.errnos = Append(env.errnos, e), !.over = env.over \/ e = "ENOEXEC"] IN
          /\ env' = tried
          /\ IF Len(tried.errnos) < env.prefixes
             THEN pc' = "exec" /\ UNCHANGED changed
             ELSE /\ pc' = "failed"
                  /\ changed' = {IF env.prefixes > 0 /\ "EACCES" \in {tried.errnos[i] : i \in 1..Len(tried.errnos)}
                                 THEN "EACCES" ELSE e}
     \/ /\ pc' = "execed" /\ UNCHANGED changed
        /\ env' = [env EXCEPT !.errnos = Append(env.errnos, "ENOEXEC"), !.over = TRUE]
Execlp == BuildArgv \/ ExecPath
-----------------------------------------------------------------------------
(* The children of the other programs *)

ChildWork ==
  /\ UNCHANGED <<kind, pc, blocked, live, caught, env, status, buf, back, left, out>>
  /\ \E c \in Kids :
       \/ /\ kind \in {"multi_SIGCHLD", "multi_wait", "fork_whos_on_first", "make_zombie"}
          /\ Exit(c, "run") /\ UNCHANGED changed
       \/ /\ kind = "orphan" /\ pc \in Over /\ env.adopter = 1
          /\ Exit(c, "run") /\ UNCHANGED changed
       \/ /\ kind = "fork_sig_sync" /\ C(c, "run", "worked") /\ pend' = (pc \notin Over)
          /\ UNCHANGED <<changed, wr, rd>>
       \/ kind = "pipe_sync" /\ C(c, "run", "worked") /\ wr' = wr \ {c} /\ rd' = rd \ {c} /\ UNCHANGED <<pend, changed>>
       \/ kind \in Systems /\ c = 2 /\ Exit(c, "run") /\ UNCHANGED changed
       \/ kind \in {"fork_sig_sync", "pipe_sync"} \cup Sharers /\ Exit(c, "worked") /\ UNCHANGED changed

Main == \/ MultiSIGCHLD \/ SigchldHandler \/ MultiWait \/ ForkWhosOnFirst \/ MakeZombie \/ Orphan
        \/ ForkSigSync \/ ChildStatus \/ DemoClone \/ TClone \/ ForkFileSharing \/ Footprint
        \/ TFork \/ TVfork \/ VforkFdTest \/ TSystem \/ System \/ SimpleSystem \/ PipeSync
        \/ PipeLsWc \/ SimplePipe \/ ChangeCase \/ PopenGlob \/ Execlp
Child == ChildWork \/ Change \/ Shell \/ LsWc \/ PipeReader \/ PopenLs
Next == Main \/ Child \/ ChildStatusChild \/ CallersReaper \/ Interrupt
Spec == Init /\ [][Next]_vars /\ WF_vars(Main) /\ WF_vars(Child)
-----------------------------------------------------------------------------
(* Properties *)

\* Every variable has its type, and numLiveChildren counts what is not yet waited for.
TypeOK ==
  /\ kind \in Kinds /\ kid \in [Kids -> {"none", "born", "run", "worked", "stopped"} \cup Ended]
  /\ blocked \in BOOLEAN /\ pend \in BOOLEAN /\ caught \in 0..N + Rounds
  /\ wr \subseteq 0..N /\ rd \subseteq 0..N
  /\ {buf, back, left, out} \subseteq 0..Bytes
  /\ kind = "multi_SIGCHLD" /\ pc # "start" => live = Cardinality({c \in Kids : kid[c] # "reaped"})

\* What a parent reports is true when it reports it: the programs that wait see every change
\* of the child that they share with it and none that they do not, footprint prints the result
\* of func(), only the second close() of vfork_fd_test fails, every status child_status prints
\* is one it knows, the last of them the end of the child, the parent of fork_sig_sync goes on
\* after the child's work, and "All %d children have terminated" is printed when they are.
ReportsTrue ==
  pc = "done" =>
    /\ kind \in Sharers => changed = {a \in Changes[kind] : a[2] \in Shared}
    /\ kind = "footprint" => status \div 256 = env.arg % 256
    /\ kind = "vfork_fd_test" => caught = 1
    /\ kind = "child_status" => /\ kid[1] = "reaped" /\ PrintWaitStatus(status) \in {"exited", "killed"}
                                /\ "what happened to this child?" \notin changed
    /\ kind = "fork_sig_sync" => kid[1] \notin {"none", "run"}
    /\ kind \in {"multi_SIGCHLD", "multi_wait", "fork_whos_on_first"} =>
         \A c \in Kids : kid[c] = "reaped"
    /\ kind = "multi_SIGCHLD" => caught <= N

\* system() keeps its promises whatever the caller does with SIGCHLD: the status is the
\* command's and -1 only when fork() failed or SIGCHLD is ignored; the mask and the disposition
\* of SIGINT are back on every path; a child of the caller is not collected; and ^C during the
\* command does not end the caller.
SystemTransparent ==
  kind = "system" =>
    /\ pc = "returned" =>
         /\ blocked = env.blocked0 /\ env.int = env.int0
         /\ status # env.end => status = -1 /\ (~env.fork \/ env.chld = "ign")
    /\ env.chld = "dfl" => kid[2] # "reaped"
    /\ pc = "killed" => kid[1] \in {"none", "reaped"}

\* An end of file comes when the work is done: pipe_sync goes on when every child has closed
\* the pipe, and the readers of the others have read all there was to read.
EndOfFileMeansDone ==
  /\ kind = "pipe_sync" /\ pc = "done" => \A c \in Kids : kid[c] \notin {"none", "run"}
  /\ kind \in {"simple_pipe", "change_case"} /\ pc = "done" => out = env.total
  /\ kind = "popen_glob" /\ pc = "pclose" => out = env.total
  /\ kind = "pipe_ls_wc" /\ pc = "done" /\ changed = {} => out = env.total

\* execlp() reports EACCES exactly when a candidate in PATH was refused, and otherwise the
\* last error; it writes past a vector only after a reallocation or when it runs the shell.
ExeclpErrno ==
  kind = "execlp" =>
    /\ pc = "failed" /\ env.errnos # <<>> =>
         changed = {IF \E i \in DOMAIN env.errnos : env.errnos[i] = "EACCES"
                    THEN "EACCES" ELSE env.errnos[Len(env.errnos)]}
    /\ env.over => env.resized \/ \E i \in DOMAIN env.errnos : env.errnos[i] = "ENOEXEC"

\* Every program comes to its end, and so do its children: no wake-up is lost, no reader waits
\* for an end of file that cannot come.  (An orphan whose adopter is not init asks for ever, and
\* the child of child_status waits for a signal.)
Ends == /\ pc \in Over
        /\ \A c \in Kids : kid[c] \in {"none"} \cup Ended \/ (kind = "orphan" /\ env.adopter # 1)
=============================================================================
