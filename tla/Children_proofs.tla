-------------------------- MODULE Children_proofs ---------------------------
(***************************************************************************)
(* The inductive invariant of the programs of Children: what each of them  *)
(* prints about its children is true, for any number of children and of    *)
(* bytes.                                                                  *)
(***************************************************************************)
EXTENDS Children, FiniteSetTheorems, TLAPS

\* The caller of system() may have a child besides the shell.
Assumption == N \in Nat /\ N >= 2 /\ {Bytes, BUF_SIZE, Rounds, ArgvSize} \subseteq Nat

\* The program never changes, and each has its own steps.
LEMMA KidsOnly ==
  ASSUME Next
  PROVE  /\ kind' = kind
         /\ kind = "multi_SIGCHLD" => MultiSIGCHLD \/ SigchldHandler \/ ChildWork
         /\ kind = "multi_wait" => MultiWait \/ ChildWork
         /\ kind = "fork_whos_on_first" => ForkWhosOnFirst \/ ChildWork
         /\ kind = "fork_sig_sync" => ForkSigSync \/ ChildWork
         /\ kind = "child_status" => ChildStatus \/ ChildStatusChild
         /\ kind \in Sharers =>
              \/ DemoClone \/ TClone \/ ForkFileSharing \/ Footprint \/ TFork
              \/ TVfork \/ VforkFdTest \/ Change \/ ChildWork
         /\ kind = "system" =>
              \/ TSystem \/ System \/ Shell \/ CallersReaper \/ Interrupt \/ ChildWork
         /\ kind = "pipe_sync" => PipeSync \/ ChildWork
         /\ kind = "pipe_ls_wc" => PipeLsWc \/ LsWc
         /\ kind = "simple_pipe" => SimplePipe \/ PipeReader
         /\ kind = "change_case" => ChangeCase \/ PipeReader
         /\ kind = "popen_glob" => PopenGlob \/ PopenLs
         /\ kind = "execlp" => Execlp
<1> USE DEF P, Sharers, Systems
<1>1. CASE \/ TSystem \/ Shell \/ CallersReaper \/ Interrupt \/ System
  BY <1>1 DEF TSystem, System, Shell, CallersReaper, Interrupt, ForkShell, WaitShell
<1>2. CASE \/ MultiSIGCHLD \/ SigchldHandler \/ MultiWait \/ ForkWhosOnFirst \/ MakeZombie
           \/ Orphan \/ ForkSigSync \/ ChildStatus
  <2>1. /\ kind' = kind /\ kind \in Reapers
        /\ kind = "multi_SIGCHLD" => MultiSIGCHLD \/ SigchldHandler
        /\ kind = "multi_wait" => MultiWait
        /\ kind = "fork_whos_on_first" => ForkWhosOnFirst
        /\ kind = "fork_sig_sync" => ForkSigSync
        /\ kind = "child_status" => ChildStatus
    BY <1>2, Zenon DEF MultiSIGCHLD, SigchldHandler, MultiWait, ForkWhosOnFirst, MakeZombie,
              Orphan, ForkSigSync, ChildStatus, ForkEach, Fork1, Reapers
  <2> QED
    BY <2>1 DEF Reapers
<1>3. CASE \/ DemoClone \/ TClone \/ ForkFileSharing \/ Footprint \/ TFork \/ TVfork
           \/ VforkFdTest \/ SimpleSystem
  <2>1. kind' = kind /\ kind \in Sharers \cup {"simple_system"} /\ (kind # "simple_system" => ~SimpleSystem)
    BY <1>3 DEF DemoClone, TClone, Cloned, ForkFileSharing, Footprint, TFork, TVfork,
              VforkFdTest, SimpleSystem, Leave, Fork1, ForkShell, WaitShell
  <2> QED
    BY <1>3, <2>1
<1>4. CASE \/ PipeSync \/ PipeLsWc \/ SimplePipe \/ ChangeCase \/ PopenGlob \/ Execlp
  <2>1. /\ kind' = kind
        /\ \/ kind = "pipe_sync" /\ PipeSync
           \/ kind = "pipe_ls_wc" /\ PipeLsWc
           \/ kind = "simple_pipe" /\ SimplePipe
           \/ kind = "change_case" /\ ChangeCase
           \/ kind = "popen_glob" /\ PopenGlob
           \/ kind = "execlp" /\ Execlp
    BY <1>4, Zenon DEF PipeSync, PipeLsWc, SimplePipe, ChangeCase, PopenGlob, Execlp,
              MakePipe, ForkEach, Fork1, BuildArgv, ExecPath
  <2> QED
    BY <2>1
<1>5. CASE Change \/ LsWc \/ PipeReader \/ PopenLs \/ ChildStatusChild
  BY <1>5 DEF Change, LsWc, PipeReader, PopenLs, ChildStatusChild
<1>6. CASE ChildWork
  BY <1>6 DEF ChildWork
<1> QED
  BY <1>1, <1>2, <1>3, <1>4, <1>5, <1>6 DEF Next, Main, Child

-----------------------------------------------------------------------------
KidStates == {"none", "born", "run", "worked", "stopped"} \cup Ended

\* caught counts the calls of the handler, the commands, or the close() calls that failed.
Values ==
  /\ kind \in Kinds /\ kid \in [Kids -> KidStates] /\ pend \in BOOLEAN
  /\ kind # "system" => blocked \in BOOLEAN
  /\ wr \subseteq 0..N /\ rd \subseteq 0..N
  /\ kind \notin Pipers => buf = 0 /\ back = 0 /\ left = 0 /\ out = 0
  /\ kind # "multi_SIGCHLD" => caught \in 0..N + Rounds

\* The types hold when main() begins.
LEMMA KidsInitValues ==
  ASSUME Assumption
  PROVE  Init => Values
<1> SUFFICES ASSUME Init
             PROVE  Values
  OBVIOUS
<1>1. kid \in [Kids -> KidStates]
  BY DEF Init, KidStates
<1>3. blocked \in BOOLEAN
  BY Zenon DEF Init
<1>5. caught \in 0..N + Rounds
  BY DEF Assumption, Init
<1> QED
  BY <1>1, <1>3, <1>5 DEF Init, Values

\* What a step does to a child, to the pipe and to the counters.
LEMMA KidsStay ==
  ASSUME Values, kind' = kind, kid' \in [Kids -> KidStates], pend' \in BOOLEAN,
         blocked' = blocked \/ (kind # "system" => blocked' \in BOOLEAN),
         wr' \subseteq 0..N, rd' \subseteq 0..N,
         kind \notin Pipers => UNCHANGED <<buf, back, left, out>>,
         caught' = caught \/ (kind # "multi_SIGCHLD" => caught' \in 0..N + Rounds)
  PROVE  Values'
BY Zenon DEF Values

\* fork() of one child or of the next one preserves the types.
LEMMA KidsForks ==
  ASSUME Assumption, Values,
         \/ \E c \in Kids : Fork(c)
         \/ \E k, after : ForkEach(k, after)
         \/ \E k, to, failed : Fork1(k, to, failed)
  PROVE  kid' \in [Kids -> KidStates] /\ wr' \subseteq 0..N /\ rd' \subseteq 0..N
<1>1. /\ kid \in [Kids -> KidStates] /\ 1 \in Kids /\ "run" \in KidStates
      /\ wr \subseteq 0..N /\ rd \subseteq 0..N /\ Kids \subseteq 0..N
  BY DEF Assumption, Values, KidStates, Kids
<1>2. ASSUME NEW c \in Kids, Fork(c)
      PROVE  kid' \in [Kids -> KidStates] /\ wr' \subseteq 0..N /\ rd' \subseteq 0..N
  BY <1>1, <1>2 DEF Fork, C
<1>3. (\E c \in Kids : Fork(c)) \/ (kid' = kid /\ wr' \in {wr, wr \ {0}} /\ rd' \in {rd, rd \ {0}})
  BY <1>1, Zenon DEF ForkEach, Fork1, rest, pipe
<1> QED
  BY <1>1, <1>2, <1>3

\* The programs that wait for children preserve the types.
LEMMA KidsReap ==
  ASSUME Assumption, Values, \/ MultiSIGCHLD \/ SigchldHandler \/ MultiWait \/ ForkWhosOnFirst
                     \/ MakeZombie \/ Orphan \/ ForkSigSync \/ ChildStatus \/ ChildStatusChild
  PROVE  Values'
<1> USE DEF P, sig, rest, pipe, MultiSIGCHLD, SigchldHandler, MultiWait,
            ForkWhosOnFirst, MakeZombie, Orphan, ForkSigSync, ChildStatus, ChildStatusChild
<1>1. /\ kid \in [Kids -> KidStates] /\ 1 \in Kids /\ {"run", "zombie", "reaped", "stopped"} \subseteq KidStates
      /\ wr \subseteq 0..N /\ rd \subseteq 0..N
  BY DEF Assumption, Values, KidStates, Ended, Kids
<1>2. kid' \in [Kids -> KidStates] /\ wr' \subseteq 0..N /\ rd' \subseteq 0..N
  <2>1. \/ \E c \in Kids : Fork(c)
        \/ \E k, after : ForkEach(k, after)
        \/ \E k, to, failed : Fork1(k, to, failed)
        \/ /\ wr' = wr /\ rd' = rd
           /\ kid' = kid \/ \E c \in Kids, to \in {"run", "zombie", "reaped", "stopped"} : kid' = [kid EXCEPT ![c] = to]
    BY <1>1, Zenon DEF C
  <2> QED
    BY <1>1, <2>1, KidsForks
<1> USE DEF C, ForkEach, Fork1, Fork
<1>3. (blocked' = blocked \/ blocked' \in BOOLEAN) /\ pend' \in BOOLEAN /\ kind' = kind
  BY Zenon DEF Values
<1>4. UNCHANGED <<buf, back, left, out>> /\ (kind # "multi_SIGCHLD" => caught' = caught) /\ kind # "system"
  OBVIOUS
<1> QED
  BY <1>2, <1>3, <1>4, Zenon DEF Values

\* The programs that share memory, files or the working directory with a child preserve them.
LEMMA KidsShare ==
  ASSUME Assumption, Values, \/ DemoClone \/ TClone \/ ForkFileSharing \/ Footprint \/ TFork
                     \/ TVfork \/ VforkFdTest \/ Change
  PROVE  Values'
<1> USE DEF P, C, sig, rest, pipe, Leave, Waited, DemoClone, TClone, Cloned,
            ForkFileSharing, Footprint, TFork, TVfork, VforkFdTest, Change, Fork1, Fork
<1>1. /\ kid \in [Kids -> KidStates] /\ 1 \in Kids /\ {"run", "worked", "reaped"} \subseteq KidStates
      /\ wr \subseteq 0..N /\ rd \subseteq 0..N /\ Kids \subseteq 0..N /\ 1 \in 0..N + Rounds /\ 2 \in 0..N + Rounds
  BY DEF Assumption, Values, KidStates, Ended, Kids
<1>2. kid' \in [Kids -> KidStates] /\ wr' \subseteq 0..N /\ rd' \subseteq 0..N
  <2>1. /\ kid' = kid \/ \E s \in {"run", "worked", "reaped"} : kid' = [kid EXCEPT ![1] = s]
        /\ wr' = wr \/ wr' = wr \cup {x \in {1} : 0 \in wr}
        /\ rd' = rd \/ rd' = rd \cup {x \in {1} : 0 \in rd}
    BY Zenon
  <2> HIDE DEF P, C, sig, rest, pipe, Leave, Waited, DemoClone, TClone, Cloned,
               ForkFileSharing, Footprint, TFork, TVfork, VforkFdTest, Change, Fork1, Fork
  <2> QED
    BY <1>1, <2>1
<1>3. /\ UNCHANGED <<kind, blocked, pend, buf, back, left, out>>
      /\ (caught' = caught \/ caught' \in {1, 2}) /\ kind # "system"
  BY DEF Sharers
<1> QED
  BY <1>1, <1>2, <1>3 DEF Values

\* The end of a child.
LEMMA KidsExits ==
  ASSUME Values, NEW c \in Kids, NEW from, Exit(c, from)
  PROVE  /\ kid' \in [Kids -> KidStates] /\ wr' \subseteq 0..N /\ rd' \subseteq 0..N /\ pend' \in BOOLEAN
         /\ Corpse \in Ended
<1>1. Corpse \in Ended /\ Ended \subseteq KidStates
  BY DEF Corpse, Ended, KidStates
<1>2. pend' \in BOOLEAN
  BY Zenon DEF Exit, Values
<1>3. kid' \in [Kids -> KidStates] /\ wr' \subseteq 0..N /\ rd' \subseteq 0..N
  BY <1>1 DEF Exit, C, Values
<1> QED
  BY <1>1, <1>2, <1>3

\* So do the callers of system(), its shell and the signals they get.
LEMMA KidsSystems ==
  ASSUME Assumption, Values, \/ TSystem \/ System \/ SimpleSystem \/ Shell \/ CallersReaper \/ Interrupt
  PROVE  Values'
<1> USE DEF P, sig, rest, pipe
<1>1. /\ kid \in [Kids -> KidStates] /\ 1 \in Kids /\ {"none", "born", "run", "zombie", "reaped"} \subseteq KidStates
      /\ wr \subseteq 0..N /\ rd \subseteq 0..N /\ Corpse \in KidStates
      /\ pend \in BOOLEAN
  BY DEF Assumption, Values, KidStates, Ended, Kids, Corpse
<1>2. kind \notin {"multi_SIGCHLD"} \cup Pipers /\ kind' = kind
  BY DEF TSystem, System, SimpleSystem, ForkShell, WaitShell, Shell, CallersReaper,
         Interrupt, Systems, Pipers
<1>3. CASE TSystem
  <2>1. /\ kid' \in [Kids -> KidStates] /\ UNCHANGED <<blocked, pend, wr, rd, buf, back, left, out>>
        /\ caught' = caught \/ (caught < Rounds /\ caught' = caught + 1)
    BY <1>1, <1>3, SMTT(30) DEF TSystem
  <2>2. caught' \in 0..N + Rounds
    BY <1>2, <2>1 DEF Assumption, Values
  <2> QED
    BY <1>1, <1>2, <2>1, <2>2, KidsStay, Zenon
<1>4. CASE ForkShell \/ WaitShell
  <2>1. /\ kid' \in [Kids -> KidStates] /\ UNCHANGED <<blocked, pend, caught, wr, rd, buf, back, left, out>>
    BY <1>1, <1>4 DEF ForkShell, WaitShell, C
  <2> QED
    BY <1>1, <1>2, <2>1, KidsStay, Zenon
<1>5. CASE System /\ ~(ForkShell \/ WaitShell)
  <2>1. /\ kid' = kid /\ UNCHANGED <<pend, caught, wr, rd, buf, back, left, out>> /\ kind = "system"
    BY <1>5 DEF System, SetEnv
  <2> QED
    BY <1>1, <1>2, <2>1, KidsStay, Zenon
<1>6. CASE SimpleSystem /\ ~(ForkShell \/ WaitShell)
  <2>1. kid' = kid /\ UNCHANGED <<blocked, pend, caught, env, wr, rd, buf, back, left, out>>
    BY <1>6 DEF SimpleSystem
  <2> QED
    BY <1>1, <1>2, <2>1, KidsStay, Zenon
<1>7. CASE Shell
  <2>1. /\ UNCHANGED <<blocked, caught, buf, back, left, out>>
    BY <1>7 DEF Shell, SetEnv
  <2>2. CASE Exit(1, "run")
    BY <1>1, <1>2, <2>1, <2>2, KidsExits, KidsStay, Zenon
  <2>3. CASE kid' = [kid EXCEPT ![1] = "run"] /\ UNCHANGED <<pend, wr, rd>>
    <3>1. kid' \in [Kids -> KidStates]
      BY <1>1, <2>3
    <3> QED
      BY <1>1, <1>2, <2>1, <2>3, <3>1, KidsStay, Zenon
  <2> QED
    BY <1>7, <2>2, <2>3, Zenon DEF Shell, SetEnv, C
<1>8. CASE CallersReaper
  <2>1. /\ kid' \in [Kids -> KidStates] /\ pend' = FALSE
        /\ UNCHANGED <<blocked, caught, env, wr, rd, buf, back, left, out>>
    BY <1>1, <1>8 DEF CallersReaper
  <2> QED
    BY <1>1, <1>2, <2>1, KidsStay, Zenon
<1>9. CASE Interrupt
  <2>1. /\ UNCHANGED <<blocked, caught, wr, rd, buf, back, left, out>>
        /\ kid' = kid \/ kid' = [kid EXCEPT ![1] = Corpse]
    BY <1>9, Zenon DEF Interrupt
  <2>2. kid' \in [Kids -> KidStates]
    BY <1>1, <2>1
  <2>3. pend' \in BOOLEAN
    BY <1>9, Zenon DEF Interrupt
  <2> QED
    BY <1>1, <1>2, <2>1, <2>2, <2>3, KidsStay, Zenon
<1> QED
  BY <1>3, <1>4, <1>5, <1>6, <1>7, <1>8, <1>9, Zenon DEF System, SimpleSystem

\* So does a child that works and ends.
LEMMA KidsWork ==
  ASSUME Values, ChildWork
  PROVE  Values'
<1>1. /\ UNCHANGED <<kind, blocked, caught, env, buf, back, left, out>>
      /\ kid \in [Kids -> KidStates] /\ "worked" \in KidStates /\ wr \subseteq 0..N /\ rd \subseteq 0..N /\ pend \in BOOLEAN
  BY DEF ChildWork, Values, KidStates
<1>2. PICK c \in Kids : \/ \E from : Exit(c, from)
                            \/ /\ kid' = [kid EXCEPT ![c] = "worked"] /\ wr' \in {wr, wr \ {c}} /\ rd' \in {rd, rd \ {c}}
                               /\ pend' = pend \/ pend' = (pc \notin Over)
  BY Zenon DEF ChildWork, C
<1>3. CASE \E from : Exit(c, from)
  BY <1>1, <1>3, KidsExits, KidsStay, Zenon
<1>4. CASE /\ kid' = [kid EXCEPT ![c] = "worked"] /\ wr' \in {wr, wr \ {c}} /\ rd' \in {rd, rd \ {c}}
           /\ pend' = pend \/ pend' = (pc \notin Over)
  <2>1. kid' \in [Kids -> KidStates] /\ wr' \subseteq 0..N /\ rd' \subseteq 0..N
    BY <1>1, <1>4
  <2>2. pend' \in BOOLEAN
    BY <1>1, <1>4, Zenon
  <2> QED
    BY <1>1, <2>1, <2>2, KidsStay, Zenon
<1> QED
  BY <1>2, <1>3, <1>4

\* So do the programs joined by a pipe, and execlp().
LEMMA KidsPipes ==
  ASSUME Assumption, Values,
         \/ PipeSync \/ PipeLsWc \/ LsWc \/ SimplePipe \/ ChangeCase \/ PipeReader
         \/ PopenGlob \/ PopenLs \/ Execlp
  PROVE  Values'
<1> USE DEF P, sig, same, rest, pipe
<1>1. /\ kid \in [Kids -> KidStates] /\ {1, 2} \subseteq Kids /\ {"run", "worked", "reaped"} \subseteq KidStates
      /\ wr \subseteq 0..N /\ rd \subseteq 0..N /\ {0, 1, 2} \subseteq 0..N /\ pend \in BOOLEAN
  BY DEF Assumption, Values, KidStates, Ended, Kids
<1>2. /\ UNCHANGED <<kind, blocked>> /\ kind \in Pipers \cup {"execlp"} /\ kind \notin {"multi_SIGCHLD", "system"}
      /\ kind = "execlp" => UNCHANGED <<buf, back, left, out>>
      /\ caught' = caught \/ (caught < Rounds /\ caught' = caught + 1)
  <2>1. CASE PipeSync \/ PipeLsWc \/ LsWc
    BY <2>1 DEF PipeSync, PipeLsWc, LsWc, MakePipe, ForkEach, CloseEnds, Pipers
  <2>2. CASE SimplePipe \/ ChangeCase \/ PipeReader
    BY <2>2 DEF SimplePipe, ChangeCase, PipeReader, MakePipe, Fork1, CloseEnds, Pipers
  <2>3. CASE PopenGlob \/ PopenLs
    BY <2>3 DEF PopenGlob, PopenLs, CloseEnds, Pipers
  <2>4. CASE Execlp
    BY <2>4 DEF Execlp, BuildArgv, ExecPath
  <2> QED
    BY <2>1, <2>2, <2>3, <2>4
<1>3. caught' \in 0..N + Rounds
  BY <1>2 DEF Assumption, Values
<1>4. \/ /\ pend' = pend
         /\ \/ \E c \in Kids : Fork(c)
            \/ \E k, after : ForkEach(k, after)
            \/ \E k, to, failed : Fork1(k, to, failed)
      \/ \E c \in Kids : \E from : Exit(c, from)
      \/ /\ kid' = kid \/ \E c \in Kids, to \in {"run", "worked", "reaped"} : kid' = [kid EXCEPT ![c] = to]
         /\ pend' = pend
         /\ wr' \in {wr, {0}, {1}} \/ \E x : wr' = wr \ x
         /\ rd' \in {rd, {0}} \/ \E x : rd' = rd \ x
  <2>1. CASE PipeSync \/ PipeLsWc \/ SimplePipe \/ ChangeCase
    BY <1>1, <2>1, Zenon DEF PipeSync, PipeLsWc, SimplePipe, ChangeCase, MakePipe, CloseEnds, C, Waited,
       ForkEach, Fork1
  <2>2. CASE LsWc \/ PipeReader \/ PopenLs
    BY <1>1, <2>2, Zenon DEF LsWc, PipeReader, PopenLs, CloseEnds, C
  <2>3. CASE PopenGlob \/ Execlp
    BY <1>1, <2>3, Zenon DEF PopenGlob, Execlp, BuildArgv, ExecPath, CloseEnds, Waited
  <2> QED
    BY <2>1, <2>2, <2>3
<1>5. kid' \in [Kids -> KidStates] /\ wr' \subseteq 0..N /\ rd' \subseteq 0..N /\ pend' \in BOOLEAN
  <2>1. CASE \/ \E c \in Kids : Fork(c)
             \/ \E k, after : ForkEach(k, after)
             \/ \E k, to, failed : Fork1(k, to, failed)
    BY <1>1, <1>4, <2>1, KidsForks, KidsExits, Zenon
  <2> QED
    BY <1>1, <1>4, <2>1, KidsExits
<1> QED
  BY <1>1, <1>2, <1>3, <1>5, KidsStay, Zenon

\* Every step preserves the types.
LEMMA KidsTyped ==
  ASSUME Assumption, Values, Next
  PROVE  Values'
BY KidsReap, KidsShare, KidsSystems, KidsWork, KidsPipes, Zenon DEF Next, Main, Child

-----------------------------------------------------------------------------
\* Parent and child that share: the changes are made, once, when the child has worked, and
\* those who wait find it ended.  t_fork, which does not wait, shares none of them.
Seen == {a \in Changes[kind] : a[2] \in Shared}
ShareInv ==
  kind \in Sharers =>
    /\ kid[1] \in {"none", "run", "worked"} \cup Ended
    /\ changed = IF kid[1] \in {"none", "run"} THEN {} ELSE Seen
    /\ pc \in {"start", "fork"} => kid[1] = "none"
    /\ pc = "done" /\ kind # "t_fork" => kid[1] \in Ended
    /\ kind = "footprint" => env.arg \in {0, 3, 257} /\ (pc = "done" => status = Exited(env.arg))
    /\ kind = "vfork_fd_test" /\ pc = "done" => caught = 1

\* t_fork and vfork_fd_test see no change their child makes.
LEMMA SeenNone == kind \in {"t_fork", "vfork_fd_test"} => Seen = {}
<1>1. ASSUME kind \in {"t_fork", "vfork_fd_test"}
      PROVE  Shared = {"open file"} /\ \A a \in Changes[kind] : a[2] \in {"vm", "files"}
  <2>1. Shared = {"open file"}
    BY <1>1 DEF Shared
  <2>2. CASE kind = "t_fork"
    <3>1. Changes[kind] = {<<"idata", "vm">>, <<"istack", "vm">>}
      BY <2>2 DEF Changes
    <3>2. \A a \in {<<"idata", "vm">>, <<"istack", "vm">>} : a[2] \in {"vm", "files"}
      OBVIOUS
    <3> QED
      BY <2>1, <3>1, <3>2, Zenon
  <2>3. CASE kind = "vfork_fd_test"
    <3>1. Changes[kind] = {<<"stdout", "files">>}
      BY <2>3 DEF Changes
    <3>2. \A a \in {<<"stdout", "files">>} : a[2] \in {"vm", "files"}
      OBVIOUS
    <3> QED
      BY <2>1, <3>1, <3>2, Zenon
  <2> QED
    BY <1>1, <2>2, <2>3
<1> QED
  BY <1>1 DEF Seen

\* At the end the parent has seen the changes it shares, and footprint has the status modulo 256.
LEMMA ShareHolds ==
  ASSUME ShareInv, pc = "done"
  PROVE  /\ kind \in Sharers => changed = Seen
         /\ kind = "footprint" => status \div 256 = env.arg % 256
         /\ kind = "vfork_fd_test" => caught = 1
<1>1. kind \in Sharers => changed = Seen
  BY SeenNone DEF ShareInv, Ended
<1>2. kind = "footprint" => status \div 256 = env.arg % 256
  BY DEF ShareInv, Exited, Sharers
<1> QED
  BY <1>1, <1>2 DEF ShareInv, Sharers

\* The invariant of the sharing programs holds when main() begins.
LEMMA ShareInit ==
  ASSUME Assumption
  PROVE  Init => ShareInv
<1> SUFFICES ASSUME Init, kind \in Sharers
             PROVE  ShareInv
  BY DEF ShareInv
<1>1. kid[1] = "none" /\ changed = {} /\ pc = "start"
  BY DEF Assumption, Init, Sharers, Systems, Kids
<1>2. kind = "footprint" => env.arg \in {0, 3, 257}
  BY DEF Init, Sharers, Systems, Pipers
<1> QED
  BY <1>1, <1>2 DEF ShareInv

\* Every step preserves it.
LEMMA ShareStep ==
  ASSUME Assumption, ShareInv, Values, Next
  PROVE  ShareInv'
<1> SUFFICES ASSUME kind \in Sharers
             PROVE  ShareInv'
  BY KidsOnly, Zenon DEF ShareInv
<1>1. /\ kind' = kind /\ env' = env /\ Corpse \in Ended /\ 1 \in Kids /\ kid \in [Kids -> KidStates]
  <2>1. Corpse \in Ended /\ 1 \in Kids /\ kid \in [Kids -> KidStates]
    BY DEF Assumption, Corpse, Ended, Kids, Values
  <2>2. env' = env
    BY KidsOnly DEF DemoClone, TClone, Cloned, ForkFileSharing, Footprint, TFork, TVfork,
       VforkFdTest, Change, ChildWork, Leave, Fork1, rest
  <2> QED
    BY <2>1, <2>2, KidsOnly
<1>2. Seen' = Seen
  BY <1>1 DEF Seen, Shared
<1>3. ASSUME NEW k, NEW to, NEW failed, to \notin {"start", "fork", "done"}, failed \notin {"start", "fork", "done"}, Fork1(k, to, failed)
      PROVE  ShareInv'
  BY <1>1, <1>2, <1>3 DEF ShareInv, Fork1, Fork, C, P, sig, rest
<1>4. ASSUME NEW k, Leave(k)
      PROVE  ShareInv'
  BY <1>1, <1>2, <1>4 DEF ShareInv, Leave, P, sig, rest
<1>5. CASE Change
  BY <1>1, <1>2, <1>5 DEF ShareInv, Change, C, sig, Seen, Ended
<1>6. CASE ChildWork
  <2>1. PICK c \in Kids : kid[c] = "worked" /\ kid' = [kid EXCEPT ![c] = Corpse] /\ UNCHANGED <<pc, caught, status, changed>>
    BY <1>6 DEF ChildWork, Exit, C, Sharers, Systems
  <2> QED
    BY <1>1, <1>2, <2>1 DEF ShareInv, Ended
<1>7. ASSUME NEW k, P(k, "wait", "done"), Waited(k), UNCHANGED <<caught, changed>>,
             kind \notin {"t_fork", "vfork_fd_test"}, kind = "footprint" => status' = Exited(env.arg)
      PROVE  ShareInv'
  BY <1>1, <1>2, <1>7 DEF ShareInv, P, Waited, Ended
<1>8. CASE DemoClone \/ TClone \/ ForkFileSharing \/ Footprint
  <2>1. PICK k : \/ Leave(k) \/ Fork1(k, "wait", "failed")
                 \/ P(k, "fork", "failed") /\ UNCHANGED <<kid, sig, rest>>
                 \/ /\ P(k, "wait", "done") /\ Waited(k) /\ UNCHANGED <<caught, changed>>
                    /\ kind \notin {"t_fork", "vfork_fd_test"} /\ (kind = "footprint" => status' = Exited(env.arg))
    BY <1>8 DEF DemoClone, TClone, Cloned, ForkFileSharing, Footprint, P, sig, rest
  <2>2. CASE P(k, "fork", "failed") /\ UNCHANGED <<kid, sig, rest>>
    BY <1>1, <1>2, <2>2 DEF ShareInv, P, sig, rest
  <2> QED
    BY <1>3, <1>4, <1>7, <2>1, <2>2
<1>9. CASE TFork \/ TVfork \/ VforkFdTest
  <2>1. ASSUME kind \in {"t_fork", "t_vfork", "vfork_fd_test"}, pc' = "done", kid' = kid, UNCHANGED <<changed, status>>,
               kind # "t_fork" => kid[1] \in Ended,
               kind = "vfork_fd_test" => caught' = IF changed = {} THEN 1 ELSE 2
        PROVE  ShareInv'
    BY <1>1, <1>2, <2>1, SeenNone DEF ShareInv
  <2> QED
    BY <1>1, <1>3, <1>4, <1>9, <2>1 DEF TFork, TVfork, VforkFdTest, P, sig, rest
<1> QED
  BY <1>5, <1>6, <1>8, <1>9, KidsOnly

-----------------------------------------------------------------------------
\* child_status: the last change of the child is its end just when the child is a zombie.
Deaths == {Exited(0), Exited(3), Exited(257), SIGKILL}
Known == {"exited", "killed", "stopped", "continued"}
StatusInv ==
  kind = "child_status" =>
    /\ kid[1] \in {"none", "run", "stopped", "zombie", "reaped"}
    /\ env \in [arg : {-1, 0, 3, 257}, report : {-1, Stopped(SIGSTOP), Continued} \cup Deaths]
    /\ env.report \in Deaths <=> kid[1] = "zombie"
    /\ changed \subseteq Known
    /\ pc = "done" => kid[1] = "reaped" /\ status \in Deaths

\* What printWaitStatus() makes of the words of wait().
LEMMA StatusWords ==
  /\ \A s \in Deaths : s >= 0 /\ s # -1 /\ PrintWaitStatus(s) \in {"exited", "killed"} /\ (WIFEXITED(s) \/ WIFSIGNALED(s))
  /\ \A s \in {Stopped(SIGSTOP), Continued} :
       s \notin Deaths /\ PrintWaitStatus(s) \in Known /\ ~(WIFEXITED(s) \/ WIFSIGNALED(s))
  /\ -1 \notin Deaths
<1> USE DEF Deaths, SIGKILL, SIGSTOP, Exited, Stopped, Continued, WIFEXITED, WIFSIGNALED,
       WIFSTOPPED
<1>1. Deaths = {0, 768, 256, 9} /\ Stopped(SIGSTOP) = 4991 /\ Continued = 65535
  OBVIOUS
<1>2. /\ \A s \in {0, 768, 256} : WIFEXITED(s)
      /\ ~WIFEXITED(9) /\ WIFSIGNALED(9)
      /\ ~WIFEXITED(4991) /\ ~WIFSIGNALED(4991) /\ WIFSTOPPED(4991)
      /\ ~WIFEXITED(65535) /\ ~WIFSIGNALED(65535) /\ ~WIFSTOPPED(65535)
  OBVIOUS
<1> QED
  BY <1>1, <1>2 DEF PrintWaitStatus, Known

\* The invariant of child_status holds when main() begins.
LEMMA StatusInit ==
  ASSUME Assumption
  PROVE  Init => StatusInv
<1> SUFFICES ASSUME Init, kind = "child_status"
             PROVE  StatusInv
  BY DEF StatusInv
<1>1. kid[1] = "none" /\ changed = {} /\ pc = "start"
  BY DEF Assumption, Init, Systems, Kids
<1>2. env \in [arg : {-1, 0, 3, 257}, report : {-1}]
  BY DEF Init, Systems, Pipers
<1> QED
  BY <1>1, <1>2, StatusWords DEF StatusInv

\* Every step preserves it.
LEMMA StatusStep ==
  ASSUME Assumption, StatusInv, Values, Next
  PROVE  StatusInv'
<1> SUFFICES ASSUME kind = "child_status"
             PROVE  StatusInv'
  BY KidsOnly, Zenon DEF StatusInv
<1>1. /\ kind' = kind /\ 1 \in Kids /\ kid \in [Kids -> KidStates]
      /\ ChildStatus \/ ChildStatusChild
  BY KidsOnly DEF Assumption, Kids, Values
<1> USE DEF StatusInv
<1>2. CASE ChildStatusChild
  <2>1. UNCHANGED <<pc, status, changed>>
    BY <1>2 DEF ChildStatusChild
  <2>2. ASSUME NEW r \in Deaths, NEW from \in {"run", "stopped"}, kid[1] = from, kid' = [kid EXCEPT ![1] = "zombie"],
               env' = [env EXCEPT !.report = r]
        PROVE  StatusInv'
    BY <1>1, <2>1, <2>2
  <2>3. ASSUME NEW r \in {Stopped(SIGSTOP), Continued}, NEW to \in {"run", "stopped"},
               kid[1] \in {"run", "stopped"}, kid' = [kid EXCEPT ![1] = to], env' = [env EXCEPT !.report = r]
        PROVE  StatusInv'
    BY <1>1, <2>1, <2>3, StatusWords
  <2>4. env.arg >= 0 => Exited(env.arg) \in Deaths
    BY DEF Deaths
  <2> QED
    BY <1>2, <2>2, <2>3, <2>4 DEF ChildStatusChild, C, Deaths
<1>3. CASE ChildStatus
  <2>1. CASE P("child_status", "start", "fork") /\ UNCHANGED <<kid, sig, rest>>
    BY <1>1, <2>1 DEF P, rest
  <2>2. CASE Fork1("child_status", "wait", "failed")
    BY <1>1, <2>2 DEF Fork1, Fork, C, P, rest
  <2>3. CASE /\ env.report >= 0
             /\ P("child_status", "wait", IF WIFEXITED(env.report) \/ WIFSIGNALED(env.report) THEN "done" ELSE "wait")
             /\ kid' = IF kid[1] = "zombie" THEN [kid EXCEPT ![1] = "reaped"] ELSE kid
             /\ status' = env.report /\ env' = [env EXCEPT !.report = -1]
             /\ changed' = changed \cup {PrintWaitStatus(env.report)}
    <3>1. CASE env.report \in Deaths
      <4>1. PrintWaitStatus(env.report) \in Known
        BY <3>1, StatusWords DEF Known
      <4> QED
        BY <1>1, <2>3, <3>1, <4>1, StatusWords DEF P
    <3>2. CASE env.report \in {Stopped(SIGSTOP), Continued}
      <4>1. /\ PrintWaitStatus(env.report) \in Known /\ env.report \notin Deaths
            /\ ~(WIFEXITED(env.report) \/ WIFSIGNALED(env.report))
        BY <3>2, StatusWords
      <4> QED
        BY <1>1, <2>3, <4>1, StatusWords DEF P
    <3> QED
      BY <2>3, <3>1, <3>2
  <2> QED
    BY <1>3, <2>1, <2>2, <2>3 DEF ChildStatus
<1> QED
  BY <1>1, <1>2, <1>3

-----------------------------------------------------------------------------
\* fork_sig_sync has one child, whose signal follows its work.
SyncInv ==
  kind = "fork_sig_sync" =>
    /\ \A c \in Kids \ {1} : kid[c] = "none"
    /\ pend = TRUE \/ pc = "done" => kid[1] \notin {"none", "run"}

\* The invariant of fork_sig_sync holds when main() begins.
LEMMA SyncInit ==
  ASSUME Assumption
  PROVE  Init => SyncInv
BY DEF Assumption, Init, SyncInv, Systems

\* Every step preserves it.
LEMMA SyncStep ==
  ASSUME Assumption, SyncInv, Values, Next
  PROVE  SyncInv'
<1> SUFFICES ASSUME kind = "fork_sig_sync"
             PROVE  SyncInv'
  BY KidsOnly, Zenon DEF SyncInv
<1>1. /\ kind' = kind /\ 1 \in Kids /\ kid \in [Kids -> KidStates] /\ pend \in BOOLEAN
      /\ ForkSigSync \/ ChildWork
  BY KidsOnly DEF Assumption, Kids, Values
<1> USE DEF SyncInv
<1>2. CASE ForkSigSync
  <2>1. CASE kid' = kid /\ pend' = pend /\ pc' # "done"
    BY <1>1, <2>1
  <2>2. CASE kid[1] = "none" /\ kid' = [kid EXCEPT ![1] = "run"] /\ pend' = pend /\ pc' # "done"
    BY <1>1, <2>2
  <2>3. CASE pend = TRUE /\ pend' = FALSE /\ kid' = kid
    BY <1>1, <2>3
  <2> QED
    BY <1>1, <1>2, <2>1, <2>2, <2>3 DEF ForkSigSync, Fork1, Fork, C, P, sig
<1>3. CASE ChildWork
  <2>1. PICK c \in Kids, to \in {"worked"} \cup Ended :
          /\ kid[c] \in {"run", "worked"} /\ kid' = [kid EXCEPT ![c] = to] /\ pc' = pc
          /\ kid[c] # "run" => pend' = (pend \/ FALSE)
    BY <1>1, <1>3 DEF ChildWork, Exit, C, Corpse, Ended, Systems, Sharers
  <2>2. c = 1 /\ kid'[1] \notin {"none", "run"} /\ \A d \in Kids \ {1} : kid'[d] = "none"
    BY <1>1, <2>1 DEF Ended
  <2> QED
    BY <1>1, <2>1, <2>2
<1> QED
  BY <1>1, <1>2, <1>3

\* multi_wait and fork_whos_on_first end when there is nothing left to wait for.
WaitInv == kind \in {"multi_wait", "fork_whos_on_first"} /\ pc = "done" => \A c \in Kids : kid[c] = "reaped"

\* The invariant of multi_wait and fork_whos_on_first holds when main() begins.
LEMMA WaitInit == Init => WaitInv
BY DEF Init, WaitInv

\* Every step preserves it.
LEMMA WaitStep ==
  ASSUME WaitInv, Next
  PROVE  WaitInv'
<1> SUFFICES ASSUME kind \in {"multi_wait", "fork_whos_on_first"}
             PROVE  WaitInv'
  BY KidsOnly, Zenon DEF WaitInv
<1>1. CASE ChildWork
  BY <1>1, KidsOnly DEF WaitInv, ChildWork, Exit, C, Systems, Sharers
<1>2. CASE MultiWait \/ ForkWhosOnFirst
  BY <1>2, KidsOnly DEF WaitInv, MultiWait, ForkWhosOnFirst, ForkEach, P
<1> QED
  BY <1>1, <1>2, KidsOnly

-----------------------------------------------------------------------------
\* Pipes: nothing is lost between the writer, the pipe and the reader.
Flow == {left, buf, back, out} \subseteq Nat /\ left + buf + back + out = env.total
Totals == [total : 0..Bytes]

\* pipe_sync: a child at work has the write end, and the parent closes its own after the last fork().
GateInv ==
  kind = "pipe_sync" =>
    /\ env \in Totals /\ left = env.total /\ buf = 0 /\ back = 0 /\ out = 0
    /\ pc = "fork" => 0 \in wr
    /\ \A c \in Kids : kid[c] = "run" => c \in wr
    /\ pc = "start" => \A c \in Kids : kid[c] = "none"
    /\ pc \in {"close", "read"} => \A c \in Kids : kid[c] # "none"
    /\ pc = "done" => \A c \in Kids : kid[c] \notin {"none", "run"}

\* The invariant of pipe_sync holds when main() begins.
LEMMA GateInit == Init => GateInv
<1> SUFFICES ASSUME Init, kind = "pipe_sync"
             PROVE  GateInv
  BY DEF GateInv
<1>1. env \in Totals /\ kid = [k \in Kids |-> "none"] /\ left = env.total
  BY DEF Init, Systems, Pipers, Totals
<1> QED
  BY <1>1 DEF GateInv, Init

\* Every step preserves it.
LEMMA GateStep ==
  ASSUME Assumption, GateInv, Values, Next
  PROVE  GateInv'
<1> SUFFICES ASSUME kind = "pipe_sync"
             PROVE  GateInv'
  BY KidsOnly, Zenon DEF GateInv
<1>1. /\ kind' = kind /\ kid \in [Kids -> KidStates] /\ 0 \notin Kids
      /\ PipeSync \/ ChildWork
  BY KidsOnly DEF Assumption, Values, Kids
<1>2. UNCHANGED <<env, left, buf, back, out>>
  BY <1>1 DEF PipeSync, MakePipe, ForkEach, CloseEnds, ChildWork, same, rest, pipe
<1>3. CASE ChildWork
  <2>1. PICK c \in Kids, to \in {"worked"} \cup Ended :
          kid[c] \in {"run", "worked"} /\ kid' = [kid EXCEPT ![c] = to] /\ pc' = pc /\ wr' = wr \ {c}
    BY <1>1, <1>3 DEF ChildWork, Exit, C, Corpse, Ended, Systems, Sharers
  <2>2. to \notin {"none", "run"} /\ c # 0
    BY <1>1 DEF Ended
  <2> QED
    BY <1>1, <1>2, <2>1, <2>2 DEF GateInv
<1>4. CASE PipeSync
  <2>1. CASE MakePipe("pipe_sync", "fork")
    BY <1>1, <1>2, <2>1 DEF GateInv, MakePipe, P
  <2>2. CASE ForkEach("pipe_sync", "close")
    <3>1. ASSUME NEW c \in Kids, pc = "fork", pc' = "fork", kid[c] = "none", kid' = [kid EXCEPT ![c] = "run"],
                 wr' = wr \cup {x \in {c} : 0 \in wr}
          PROVE  GateInv'
      BY <1>1, <1>2, <3>1 DEF GateInv
    <3>2. CASE pc' = "failed" /\ kid' = kid /\ wr' = wr \ {0}
      BY <1>1, <1>2, <3>2 DEF GateInv
    <3>3. CASE pc' = "close" /\ kid' = kid /\ wr' = wr /\ \A c \in Kids : kid[c] # "none"
      BY <1>1, <1>2, <3>3 DEF GateInv
    <3> QED
      BY <2>2, <3>1, <3>2, <3>3 DEF ForkEach, Fork, C, P, rest, pipe
  <2>3. CASE P("pipe_sync", "close", "read") /\ CloseEnds({0}, {}) /\ kid' = kid
    BY <1>1, <1>2, <2>3 DEF GateInv, P, CloseEnds
  <2>4. CASE P("pipe_sync", "read", "done") /\ EndOfFile /\ UNCHANGED <<kid, wr>>
    BY <1>1, <1>2, <2>4 DEF GateInv, P, EndOfFile
  <2> QED
    BY <1>4, <2>1, <2>2, <2>3, <2>4 DEF PipeSync, pipe
<1> QED
  BY <1>1, <1>3, <1>4

\* simple_pipe: the child sees the end of file when the parent has written and closed, and ends
\* when it has read everything.
WriteInv ==
  kind = "simple_pipe" =>
    /\ env \in Totals /\ Flow /\ back = 0 /\ pc \in {"start", "fork", "write", "close", "wait", "done", "failed"}
    /\ pc \in {"start", "fork", "write"} => buf = 0 /\ out = 0
    /\ pc \in {"start", "fork"} => kid[1] = "none"
    /\ pc \in {"fork", "write", "close"} => 0 \in wr
    /\ pc \in {"close", "wait", "done"} => left = 0
    /\ kid[1] \in Ended => buf = 0 /\ pc \in {"wait", "done", "failed"}
    /\ pc = "failed" => kid[1] = "none"
    /\ pc = "done" => kid[1] \in Ended

\* The invariant of simple_pipe holds when main() begins.
LEMMA WriteInit ==
  ASSUME Assumption
  PROVE  Init => WriteInv
<1> SUFFICES ASSUME Init, kind = "simple_pipe"
             PROVE  WriteInv
  BY DEF WriteInv
<1>1. env \in Totals /\ kid[1] = "none" /\ left = env.total
  BY DEF Assumption, Init, Systems, Pipers, Totals, Kids
<1>2. left \in Nat /\ buf = 0 /\ back = 0 /\ out = 0 /\ pc = "start"
  BY <1>1 DEF Assumption, Init, Totals
<1> QED
  BY <1>1, <1>2 DEF WriteInv, Flow, Ended

\* The child of simple_pipe and change_case.
LEMMA ReaderReads ==
  ASSUME Assumption, Values, Flow, PipeReader
  PROVE  /\ UNCHANGED <<kind, pc, env, left>> /\ Flow'
         /\ \/ kid[1] = "run" /\ kid' = [kid EXCEPT ![1] = "worked"] /\ wr' = wr \ {1} /\ UNCHANGED <<buf, back, out>>
            \/ /\ kid[1] = "worked" /\ buf > 0 /\ UNCHANGED <<kid, wr>>
               /\ IF kind = "simple_pipe" THEN back' = back ELSE out' = out
            \/ /\ kid[1] = "worked" /\ buf = 0 /\ wr = {} /\ wr' = {} /\ kid' = [kid EXCEPT ![1] = Corpse]
               /\ Corpse \in {"zombie", "gone"} /\ UNCHANGED <<buf, back, out>>
<1>1. UNCHANGED <<kind, pc, env, left>>
  BY DEF PipeReader
<1>2. CASE C(1, "run", "worked") /\ wr' = wr \ {1} /\ UNCHANGED <<pend, rd, buf, back, out>>
  BY <1>1, <1>2 DEF Flow, C
<1>3. CASE /\ kid[1] = "worked" /\ buf > 0
           /\ LET n == IF buf > BUF_SIZE THEN BUF_SIZE ELSE buf IN
              /\ buf' = buf - n
              /\ IF kind = "simple_pipe" THEN out' = out + n /\ UNCHANGED back
                                         ELSE back' = back + n /\ UNCHANGED out
           /\ UNCHANGED <<kid, pend, wr, rd>>
  <2> DEFINE n == IF buf > BUF_SIZE THEN BUF_SIZE ELSE buf
  <2>1. n \in Nat /\ n <= buf
    BY DEF Assumption, Flow
  <2>2. /\ buf' = buf - n
        /\ IF kind = "simple_pipe" THEN out' = out + n /\ back' = back ELSE back' = back + n /\ out' = out
    BY <1>3
  <2> HIDE DEF n
  <2>3. Flow'
    BY <1>1, <2>1, <2>2 DEF Flow
  <2> QED
    BY <1>1, <1>3, <2>2, <2>3
<1>4. CASE EndOfFile /\ Exit(1, "worked") /\ UNCHANGED <<buf, back, out>>
  <2>1. Corpse \in {"zombie", "gone"}
    BY DEF Corpse, PipeReader, Systems
  <2> QED
    BY <1>1, <1>4, <2>1 DEF Flow, EndOfFile, Exit, C
<1> QED
  BY <1>2, <1>3, <1>4 DEF PipeReader

\* Every step preserves it.
LEMMA WriteStep ==
  ASSUME Assumption, WriteInv, Values, Next
  PROVE  WriteInv'
<1> SUFFICES ASSUME kind = "simple_pipe"
             PROVE  WriteInv'
  BY KidsOnly, Zenon DEF WriteInv, Flow
<1>1. /\ kind' = kind /\ kid \in [Kids -> KidStates] /\ 1 \in Kids
      /\ SimplePipe \/ PipeReader
  BY KidsOnly DEF Assumption, Values, Kids
<1>2. CASE PipeReader
  <2>1. Flow /\ Flow' /\ UNCHANGED <<kind, pc, env, left>>
    BY <1>2, ReaderReads DEF WriteInv
  <2>2. CASE kid[1] = "run" /\ kid' = [kid EXCEPT ![1] = "worked"] /\ wr' = wr \ {1} /\ UNCHANGED <<buf, back, out>>
    BY <1>1, <2>1, <2>2 DEF WriteInv, Ended
  <2>3. CASE kid[1] = "worked" /\ buf > 0 /\ UNCHANGED <<kid, wr>> /\ back' = back
    <3>1. pc \notin {"start", "fork", "write"}
      BY <2>1, <2>3 DEF WriteInv, Flow
    <3> QED
      BY <1>1, <2>1, <2>3, <3>1 DEF WriteInv, Ended
  <2>4. CASE /\ kid[1] = "worked" /\ buf = 0 /\ wr = {} /\ wr' = {} /\ kid' = [kid EXCEPT ![1] = Corpse]
             /\ Corpse \in {"zombie", "gone"} /\ UNCHANGED <<buf, back, out>>
    BY <1>1, <2>1, <2>4 DEF WriteInv, Ended
  <2> QED
    BY <1>2, <2>1, <2>2, <2>3, <2>4, ReaderReads
<1>3. CASE SimplePipe
  <2>1. env' = env /\ back' = back /\ out' = out
    BY <1>3 DEF SimplePipe, MakePipe, Fork1, CloseEnds, same, rest, pipe
  <2>2. CASE MakePipe("simple_pipe", "fork")
    BY <1>1, <2>1, <2>2 DEF WriteInv, Flow, MakePipe, P, Ended
  <2>3. CASE Fork1("simple_pipe", "write", "failed")
    BY <1>1, <2>1, <2>3 DEF WriteInv, Flow, Fork1, Fork, C, P, rest, pipe, Ended
  <2>4. CASE P("simple_pipe", "write", "close") /\ buf' = left /\ left' = 0 /\ UNCHANGED <<kid, wr>>
    BY <1>1, <2>1, <2>4 DEF WriteInv, Flow, P
  <2>5. CASE P("simple_pipe", "close", "wait") /\ UNCHANGED <<kid, buf, left>>
    BY <1>1, <2>1, <2>5 DEF WriteInv, Flow, P
  <2>6. CASE P("simple_pipe", "wait", "done") /\ Waited("simple_pipe") /\ UNCHANGED <<buf, left>>
    BY <1>1, <2>1, <2>6 DEF WriteInv, Flow, P, Waited, Ended
  <2> QED
    BY <1>3, <2>2, <2>3, <2>4, <2>5, <2>6 DEF SimplePipe, CloseEnds, pipe
<1> QED
  BY <1>1, <1>2, <1>3

\* change_case: one chunk is under way while the parent waits for the answer, and none else.
TalkInv ==
  kind = "change_case" =>
    /\ env \in Totals /\ Flow
    /\ pc = "answer" => buf + back = 1
    /\ pc # "answer" => buf = 0 /\ back = 0
    /\ pc = "done" => left = 0

\* popen_glob: ls has the only write end, and what it has not written when it ends is nothing.
GlobInv ==
  kind = "popen_glob" =>
    /\ env \in Totals /\ Flow /\ back = 0 /\ pc \in {"start", "read", "pclose", "done"}
    /\ pc # "read" => buf = 0 /\ kid[1] # "run"
    /\ pc = "read" => (kid[1] = "run" /\ wr = {1}) \/ (kid[1] # "run" /\ left = 0)
    /\ pc = "pclose" => left = 0

\* pipe_ls_wc: each child has its end of the pipe as long as it runs.  When both were executed
\* ls has written everything when it ends, and wc ends after it and has read everything.
LsInv ==
  kind = "pipe_ls_wc" =>
    /\ env \in Totals /\ Flow /\ back = 0 /\ pc \in {"start", "fork", "fork2", "close", "wait", "done", "failed"}
    /\ \A c \in {1, 2} : kid[c] \in {"none", "run", "worked"} \cup Ended
    /\ pc \in {"fork", "fork2", "close"} => 0 \in wr /\ 0 \in rd
    /\ pc \in {"start", "fork"} => kid[1] = "none"
    /\ pc \in {"start", "fork", "fork2"} => kid[2] = "none"
    /\ pc = "fork2" => kid[1] # "none"
    /\ pc \in {"close", "wait", "done"} => kid[1] # "none" /\ kid[2] # "none"
    /\ kid[1] \in {"run", "worked"} => 1 \in wr
    /\ kid[2] \in {"run", "worked"} => 2 \in rd
    /\ changed = {} /\ pc # "failed" => /\ kid[1] \in Ended => left = 0
                                        /\ kid[2] \in Ended => buf = 0 /\ kid[1] \in Ended
    /\ pc = "done" => kid[1] \in Ended /\ kid[2] \in Ended

\* Those of change_case, popen_glob and pipe_ls_wc hold when main() begins.
LEMMA TalkInit ==
  ASSUME Assumption
  PROVE  Init => TalkInv /\ GlobInv /\ LsInv
<1> SUFFICES ASSUME Init, kind \in {"change_case", "popen_glob", "pipe_ls_wc"}
             PROVE  TalkInv /\ GlobInv /\ LsInv
  BY DEF TalkInv, GlobInv, LsInv
<1>1. kind \in Pipers /\ kind \notin Systems /\ {1, 2} \subseteq Kids
  BY DEF Assumption, Pipers, Systems, Kids
<1>a. env \in Totals /\ left = env.total
  BY <1>1 DEF Init, Totals
<1>b. kid[1] = "none" /\ kid[2] = "none"
  <2>1. kid = [k \in Kids |-> "none"]
    BY <1>1 DEF Init
  <2> QED
    BY <1>1, <2>1
<1>2. left \in Nat /\ buf = 0 /\ back = 0 /\ out = 0 /\ pc = "start"
  BY <1>a DEF Assumption, Init, Totals
<1>3. Flow
  BY <1>a, <1>2 DEF Flow
<1> QED
  BY <1>a, <1>b, <1>2, <1>3 DEF TalkInv, GlobInv, LsInv, Ended

\* Every step preserves that of change_case.
LEMMA TalkStep ==
  ASSUME Assumption, TalkInv, Values, Next
  PROVE  TalkInv'
<1> SUFFICES ASSUME kind = "change_case"
             PROVE  TalkInv'
  BY KidsOnly, Zenon DEF TalkInv, Flow
<1>1. kind' = kind /\ (ChangeCase \/ PipeReader)
  BY KidsOnly
<1>2. CASE PipeReader
  <2>1. /\ Flow /\ Flow' /\ UNCHANGED <<kind, pc, env, left>>
        /\ UNCHANGED <<buf, back, out>> \/ (buf > 0 /\ out' = out)
    BY <1>2, ReaderReads DEF TalkInv
  <2> QED
    BY <2>1 DEF TalkInv, Flow
<1>3. CASE ChangeCase
  <2>1. env' = env /\ env.total \in Nat
    BY <1>3 DEF Assumption, ChangeCase, MakePipe, Fork1, CloseEnds, same, rest, TalkInv, Totals
  <2>2. CASE /\ pc \in {"start", "fork", "close"} /\ pc' \in {"fork", "close", "read", "failed"} /\ UNCHANGED <<left, buf, back, out>>
    BY <1>1, <2>1, <2>2 DEF TalkInv, Flow
  <2>3. CASE pc = "read" /\ pc' = "answer" /\ left > 0 /\ left' = left - 1 /\ buf' = buf + 1 /\ UNCHANGED <<back, out>>
    BY <1>1, <2>1, <2>3 DEF TalkInv, Flow
  <2>4. CASE pc = "answer" /\ pc' = "read" /\ back > 0 /\ back' = back - 1 /\ out' = out + 1 /\ UNCHANGED <<buf, left>>
    <3>1. /\ Flow /\ {left, buf, back, out} \subseteq Nat /\ buf + back = 1
      BY <2>4 DEF TalkInv, Flow
    <3>2. buf = 0 /\ back = 1
      BY <2>4, <3>1
    <3>3. Flow' /\ buf' = 0 /\ back' = 0
      BY <1>1, <2>1, <2>4, <3>1, <3>2 DEF Flow
    <3> QED
      BY <1>1, <2>1, <2>4, <3>3 DEF TalkInv
  <2>5. CASE pc = "read" /\ pc' = "done" /\ left = 0 /\ UNCHANGED <<left, buf, back, out>>
    BY <1>1, <2>1, <2>5 DEF TalkInv, Flow
  <2> QED
    BY <1>3, <2>2, <2>3, <2>4, <2>5 DEF ChangeCase, MakePipe, Fork1, CloseEnds, P, rest, pipe
<1> QED
  BY <1>1, <1>2, <1>3

\* Every step preserves that of popen_glob.
LEMMA GlobStep ==
  ASSUME Assumption, GlobInv, Values, Next
  PROVE  GlobInv'
<1> SUFFICES ASSUME kind = "popen_glob"
             PROVE  GlobInv'
  BY KidsOnly, Zenon DEF GlobInv, Flow
<1>1. /\ kind' = kind /\ kid \in [Kids -> KidStates] /\ 1 \in Kids
      /\ PopenGlob \/ PopenLs
  BY KidsOnly DEF Assumption, Values, Kids
<1>2. env' = env /\ env.total \in Nat /\ back' = back
  BY <1>1 DEF Assumption, PopenGlob, PopenLs, CloseEnds, same, rest, pipe, GlobInv, Totals
<1>3. CASE PopenLs
  <2>1. CASE /\ kid[1] = "run" /\ left > 0 /\ left' = left - 1 /\ buf' = buf + 1 /\ UNCHANGED <<pc, kid, wr, out>>
    BY <1>1, <1>2, <2>1 DEF GlobInv, Flow
  <2>2. CASE left = 0 /\ kid' = [kid EXCEPT ![1] = Corpse] /\ UNCHANGED <<pc, buf, left, out>>
    <3>1. Corpse # "run"
      BY DEF Corpse
    <3> QED
      BY <1>1, <1>2, <2>2, <3>1 DEF GlobInv, Flow
  <2> QED
    BY <1>3, <2>1, <2>2 DEF PopenLs, Exit, C
<1>4. CASE PopenGlob
  <2>1. CASE pc = "start" /\ pc' \in {"start", "done"} /\ UNCHANGED <<kid, buf, left, out>>
    BY <1>1, <1>2, <2>1 DEF GlobInv, Flow
  <2>2. CASE pc = "start" /\ pc' = "read" /\ kid' = [kid EXCEPT ![1] = "run"] /\ wr' = {1} /\ left' = env.total /\ out' = 0 /\ buf' = buf
    BY <1>1, <1>2, <2>2 DEF GlobInv, Flow
  <2>3. CASE pc = "read" /\ pc' = "read" /\ buf > 0 /\ buf' = buf - 1 /\ out' = out + 1 /\ UNCHANGED <<kid, wr, left>>
    BY <1>1, <1>2, <2>3 DEF GlobInv, Flow
  <2>4. CASE pc = "read" /\ pc' = "pclose" /\ EndOfFile /\ UNCHANGED <<kid, buf, left, out>>
    BY <1>1, <1>2, <2>4 DEF GlobInv, Flow, EndOfFile
  <2>5. CASE pc = "pclose" /\ pc' = "start" /\ kid' = [kid EXCEPT ![1] = "reaped"] /\ UNCHANGED <<buf, left, out>>
    BY <1>1, <1>2, <2>5 DEF GlobInv, Flow
  <2> QED
    BY <1>4, <2>1, <2>2, <2>3, <2>4, <2>5 DEF PopenGlob, CloseEnds, Waited, P, rest, pipe
<1> QED
  BY <1>1, <1>3, <1>4

\* A step of the parent preserves that of pipe_ls_wc.
LEMMA LsParent ==
  ASSUME Assumption, LsInv, Values, kind = "pipe_ls_wc", PipeLsWc
  PROVE  LsInv'
<1>1. /\ kind' = kind /\ kid \in [Kids -> KidStates] /\ {1, 2} \subseteq Kids
      /\ UNCHANGED <<env, changed, left, buf, back, out>> /\ Flow'
  <2>1. kind' = kind /\ UNCHANGED <<env, changed, left, buf, back, out>>
    BY DEF PipeLsWc, MakePipe, CloseEnds, P, same, pipe
  <2> QED
    BY <2>1 DEF Assumption, Values, Kids, Flow, LsInv
<1>2. CASE MakePipe("pipe_ls_wc", "fork")
  BY <1>1, <1>2 DEF LsInv, MakePipe, P
<1>3. ASSUME NEW c \in {1, 2},
             P("pipe_ls_wc", IF c = 1 THEN "fork" ELSE "fork2", IF c = 1 THEN "fork2" ELSE "close"), Fork(c)
      PROVE  LsInv'
  <2>1. CASE c = 1
    BY <1>1, <1>3, <2>1 DEF LsInv, P, Fork, C, Ended
  <2>2. CASE c = 2
    <3>1. pc = "fork2" /\ pc' = "close" /\ kid' = [kid EXCEPT ![2] = "run"] /\ kid[2] = "none"
      BY <1>3, <2>2 DEF P, Fork, C
    <3>2. 0 \in wr /\ 0 \in rd
      BY <1>1, <3>1 DEF LsInv
    <3>3. wr' = wr \cup {2} /\ rd' = rd \cup {2}
      BY <1>3, <2>2, <3>2 DEF Fork
    <3> QED
      BY <1>1, <3>1, <3>2, <3>3 DEF LsInv, Ended
  <2> QED
    BY <2>1, <2>2
<1>4. CASE pc \in {"fork", "fork2"} /\ pc' = "failed" /\ wr' = wr \ {0} /\ rd' = rd \ {0} /\ kid' = kid
  BY <1>1, <1>4 DEF LsInv
<1>5. CASE pc = "close" /\ pc' = "wait" /\ wr' = wr \ {0} /\ rd' = rd \ {0} /\ kid' = kid
  BY <1>1, <1>5 DEF LsInv
<1>6. ASSUME NEW c \in {1, 2}, pc = "wait", pc' = IF kid[3 - c] = "reaped" THEN "done" ELSE "wait",
             kid[c] = "zombie", kid' = [kid EXCEPT ![c] = "reaped"], UNCHANGED <<wr, rd>>
      PROVE  LsInv'
  <2>1. CASE c = 1
    BY <1>1, <1>6, <2>1 DEF LsInv, Ended
  <2>2. CASE c = 2
    BY <1>1, <1>6, <2>2 DEF LsInv, Ended
  <2> QED
    BY <2>1, <2>2
<1> QED
  BY <1>2, <1>3, <1>4, <1>5, <1>6 DEF PipeLsWc, CloseEnds, P, C, pipe

\* A step of ls or wc preserves it.
LEMMA LsChildren ==
  ASSUME Assumption, LsInv, Values, LsWc
  PROVE  LsInv'
<1>1. /\ kind = "pipe_ls_wc" /\ kind' = kind /\ kid \in [Kids -> KidStates] /\ {1, 2} \subseteq Kids
      /\ UNCHANGED <<pc, env>> /\ Corpse \in {"zombie", "gone"} /\ env.total \in Nat
  BY DEF Assumption, LsWc, Values, Kids, Corpse, Systems, LsInv, Totals
<1>2. ASSUME NEW c \in {1, 2}, kid[c] = "run", kid' = [kid EXCEPT ![c] = "worked"], wr' = wr \ ({2} \cap {c}), rd' = rd \ ({1} \cap {c}),
             UNCHANGED <<changed, left, buf, back, out>>
      PROVE  LsInv'
  <2>1. Flow'
    BY <1>1, <1>2 DEF LsInv, Flow
  <2>2. CASE c = 1
    BY <1>1, <1>2, <2>1, <2>2 DEF LsInv, Ended
  <2>3. CASE c = 2
    BY <1>1, <1>2, <2>1, <2>3 DEF LsInv, Ended
  <2> QED
    BY <2>2, <2>3
<1>3. ASSUME NEW c \in {1, 2}, NEW from \in {"run", "worked"}, kid[c] = from, kid' = [kid EXCEPT ![c] = Corpse],
             wr' = wr \ {c}, rd' = rd \ {c}, UNCHANGED <<left, buf, back, out>>,
             \/ changed' = changed \cup {c}
             \/ changed' = changed /\ c = 1 /\ (left = 0 \/ rd = {})
             \/ changed' = changed /\ c = 2 /\ buf = 0 /\ wr = {}
      PROVE  LsInv'
  <2>1. Flow'
    BY <1>1, <1>3 DEF LsInv, Flow
  <2>2. CASE c = 1
    <3>1. changed' = {} /\ pc # "failed" => left = 0
      BY <1>1, <1>3, <2>2 DEF LsInv, Ended
    <3>2. changed' = {} => changed = {}
      BY <1>3
    <3> QED
      BY <1>1, <1>3, <2>1, <2>2, <3>1, <3>2 DEF LsInv, Ended
  <2>3. CASE c = 2
    <3>1. changed' = {} /\ pc # "failed" => buf = 0 /\ kid[1] \in Ended
      BY <1>1, <1>3, <2>3 DEF LsInv, Ended
    <3>2. changed' = {} => changed = {}
      BY <1>3
    <3> QED
      BY <1>1, <1>3, <2>1, <2>3, <3>1, <3>2 DEF LsInv, Ended
  <2> QED
    BY <2>2, <2>3
<1>4. CASE /\ kid[1] = "worked" /\ left > 0 /\ left' = left - 1 /\ buf' = buf + 1 /\ UNCHANGED <<kid, changed, wr, rd, back, out>>
  <2>1. Flow'
    BY <1>1, <1>4 DEF LsInv, Flow
  <2> QED
    BY <1>1, <1>4, <2>1 DEF LsInv, Ended
<1>5. CASE /\ kid[2] = "worked" /\ buf > 0 /\ buf' = buf - 1 /\ out' = out + 1 /\ UNCHANGED <<kid, changed, wr, rd, back, left>>
  <2>1. Flow'
    BY <1>1, <1>5 DEF LsInv, Flow
  <2> QED
    BY <1>1, <1>5, <2>1 DEF LsInv, Ended
<1> QED
  BY <1>2, <1>3, <1>4, <1>5 DEF LsWc, CloseEnds, Exit, C, EndOfFile

\* Every step preserves it.
LEMMA LsStep ==
  ASSUME Assumption, LsInv, Values, Next
  PROVE  LsInv'
<1>1. CASE kind = "pipe_ls_wc"
  BY <1>1, KidsOnly, LsParent, LsChildren
<1>2. CASE kind # "pipe_ls_wc"
  BY <1>2, KidsOnly DEF LsInv
<1> QED
  BY <1>1, <1>2

-----------------------------------------------------------------------------
\* execlp(): the vector has the room it is said to have as long as it was not reallocated, and
\* an errno is remembered for every candidate that could not be executed.
ExecEnvs == [items : Nat, prefixes : Nat, argc : Nat, size : Nat, cap : Nat, resized : BOOLEAN, over : BOOLEAN,
             errnos : Seq(Errnos)]
Worst(es) == IF \E i \in DOMAIN es : es[i] = "EACCES" THEN "EACCES" ELSE es[Len(es)]
ExecInv ==
  kind = "execlp" =>
    /\ env \in ExecEnvs /\ pc \in {"start", "argv", "exec", "execed", "failed"}
    /\ pc \in {"start", "argv"} => env.errnos = <<>>
    /\ pc = "exec" /\ env.prefixes = 0 => env.errnos = <<>>
    /\ pc # "start" /\ env.resized = FALSE => env.cap = env.size
    /\ pc = "failed" /\ env.errnos # <<>> => changed = {Worst(env.errnos)}
    /\ env.over = TRUE => env.resized = TRUE \/ \E i \in DOMAIN env.errnos : env.errnos[i] = "ENOEXEC"

\* The invariant of execlp() holds when it is called.
LEMMA ExecInit ==
  ASSUME Assumption
  PROVE  Init => ExecInv
<1> SUFFICES ASSUME Init, kind = "execlp"
             PROVE  ExecInv
  BY DEF ExecInv
<1>1. env \in [items : 1..2 * ArgvSize, prefixes : 0..2, argc : {0}, size : {0},
                cap : {0}, resized : {FALSE}, over : {FALSE}, errnos : {<<>>}]
  <2>1. kind \notin Systems /\ kind \notin Pipers
    BY DEF Systems, Pipers
  <2> QED
    BY <2>1 DEF Init
<1>2. /\ 1..2 * ArgvSize \subseteq Nat /\ 0..2 \subseteq Nat /\ {0} \subseteq Nat /\ {FALSE} \subseteq BOOLEAN
      /\ {<<>>} \subseteq Seq(Errnos)
  BY DEF Assumption 
<1>3. env \in ExecEnvs
  BY <1>1, <1>2, Zenon DEF ExecEnvs
<1> QED
  BY <1>1, <1>3 DEF ExecInv, Init

\* What one more errno changes.
LEMMA OneMoreErrno ==
  ASSUME NEW es \in Seq(Errnos), NEW e \in Errnos
  PROVE  /\ Append(es, e) \in Seq(Errnos) /\ Append(es, e) # <<>>
         /\ Len(Append(es, e)) = Len(es) + 1 /\ Append(es, e)[Len(Append(es, e))] = e
         /\ (\E i \in DOMAIN Append(es, e) : Append(es, e)[i] = "EACCES")
              <=> "EACCES" \in {Append(es, e)[i] : i \in 1..Len(Append(es, e))}
         /\ \A x : (\E i \in DOMAIN es : es[i] = x) \/ e = x => \E i \in DOMAIN Append(es, e) : Append(es, e)[i] = x
<1> DEFINE as == Append(es, e)
<1>1. /\ as \in Seq(Errnos) /\ as # <<>> /\ Len(as) = Len(es) + 1 /\ as[Len(as)] = e
      /\ \A i \in 1..Len(es) : as[i] = es[i]
  OBVIOUS
<1>2. DOMAIN as = 1..Len(as) /\ DOMAIN es = 1..Len(es) /\ Len(es) \in Nat
  BY <1>1
<1> HIDE DEF as
<1>3. \A x : (\E i \in DOMAIN es : es[i] = x) \/ e = x => \E i \in DOMAIN as : as[i] = x
  <2>1. 1..Len(es) \subseteq 1..Len(as) /\ Len(as) \in 1..Len(as)
    BY <1>1, <1>2
  <2> QED
    BY <1>1, <1>2, <2>1, Zenon
<1>4. (\E i \in DOMAIN as : as[i] = "EACCES") <=> "EACCES" \in {as[i] : i \in 1..Len(as)}
  BY <1>2
<1> QED
  BY <1>1, <1>3, <1>4 DEF as

\* Building the argument vector preserves it.
LEMMA ExecArgv ==
  ASSUME Assumption, ExecInv, BuildArgv
  PROVE  ExecInv'
<1>1. /\ kind = "execlp" /\ kind' = kind /\ env \in ExecEnvs /\ (env.errnos = <<>> \/ pc \notin {"start", "argv"})
      /\ changed' = changed /\ ArgvSize \in Nat
  BY DEF Assumption, ExecInv, BuildArgv
<1>2. CASE pc = "start" /\ pc' = "argv" /\ env' = [env EXCEPT !.argc = 1, !.size = ArgvSize, !.cap = ArgvSize]
  <2>1. /\ env' \in ExecEnvs /\ env'.cap = env'.size /\ env'.errnos = env.errnos
        /\ env'.over = env.over /\ env'.resized = env.resized
    BY <1>1, <1>2 DEF ExecEnvs
  <2> QED
    BY <1>1, <1>2, <2>1 DEF ExecInv
<1> DEFINE grow == env.argc + 1 >= env.size
           cap == IF grow THEN 1 ELSE env.cap
           resized == env.resized \/ grow
           past == env.over \/ env.argc >= cap
           size == IF grow THEN env.size + ArgvSize ELSE env.size
<1>3. CASE /\ pc = "argv" /\ pc' = "argv"
           /\ env' = [env EXCEPT !.argc = env.argc + 1, !.cap = cap, !.resized = resized, !.size = size, !.over = past]
  <2>1. /\ {env.argc, env.cap, env.size} \subseteq Nat /\ env.resized \in BOOLEAN /\ env.over \in BOOLEAN
        /\ env.errnos = <<>> /\ (env.resized = FALSE => env.cap = env.size) /\ (env.over = TRUE => env.resized = TRUE)
    BY <1>1, <1>3 DEF ExecEnvs, ExecInv
  <2>2. /\ env.argc + 1 \in Nat /\ cap \in Nat /\ size \in Nat
        /\ ~grow => cap = env.cap /\ size = env.size
        /\ ~grow /\ env.cap = env.size => ~(env.argc >= cap)
    BY <1>1, <2>1
  <2>3. resized \in BOOLEAN /\ past \in BOOLEAN
    OBVIOUS
  <2> HIDE DEF cap, resized, past, size
  <2>4. /\ env' \in ExecEnvs /\ env'.errnos = env.errnos /\ env'.cap = cap /\ env'.size = size
        /\ env'.resized = resized /\ env'.over = past
    BY <1>1, <1>3, <2>2, <2>3 DEF ExecEnvs
  <2>5. resized = FALSE => env.resized = FALSE /\ ~grow
    BY <2>1, Zenon DEF resized
  <2>6. resized = FALSE => cap = size
    BY <2>1, <2>2, <2>5, Zenon
  <2>7. past = TRUE => resized = TRUE
    <3>1. ASSUME resized = FALSE, past = TRUE
          PROVE  FALSE
      <4>1. env.resized = FALSE /\ ~grow /\ ~(env.argc >= cap) /\ env.over = FALSE
        BY <2>1, <2>2, <2>5, <3>1, Zenon
      <4> QED
        BY <3>1, <4>1, Zenon DEF past
    <3> QED
      BY <2>3, <3>1
  <2> QED
    BY <1>1, <1>3, <2>1, <2>4, <2>6, <2>7 DEF ExecInv
<1>4. CASE pc = "argv" /\ pc' \in {"failed", "exec"} /\ env' = env
  BY <1>1, <1>4 DEF ExecInv
<1> QED
  BY <1>2, <1>3, <1>4, Zenon DEF BuildArgv

\* Trying a candidate of the path preserves it.
LEMMA ExecTries ==
  ASSUME ExecInv, ExecPath
  PROVE  ExecInv'
<1>1. /\ kind = "execlp" /\ kind' = kind /\ env \in ExecEnvs /\ pc = "exec" /\ env.errnos \in Seq(Errnos)
      /\ env.prefixes \in Nat /\ env.over \in BOOLEAN
  BY DEF ExecInv, ExecPath, ExecEnvs
<1>2. ASSUME NEW e \in Errnos, NEW past \in BOOLEAN, past = TRUE => env.over = TRUE \/ e = "ENOEXEC",
             env' = [env EXCEPT !.errnos = Append(env.errnos, e), !.over = past]
      PROVE  /\ env' \in ExecEnvs /\ env'.errnos = Append(env.errnos, e) /\ env'.errnos # <<>>
             /\ env'.resized = FALSE => env'.cap = env'.size
             /\ env'.over = TRUE => env'.resized = TRUE \/ \E i \in DOMAIN env'.errnos : env'.errnos[i] = "ENOEXEC"
             /\ env'.prefixes = env.prefixes
  <2>1. Append(env.errnos, e) \in Seq(Errnos)
    BY <1>1, OneMoreErrno
  <2>2. /\ env' \in ExecEnvs /\ env'.errnos = Append(env.errnos, e) /\ env'.over = past
        /\ env'.resized = env.resized /\ env'.cap = env.cap /\ env'.size = env.size /\ env'.prefixes = env.prefixes
    BY <1>1, <1>2, <2>1 DEF ExecEnvs
  <2>3. (\E i \in DOMAIN env.errnos : env.errnos[i] = "ENOEXEC") \/ e = "ENOEXEC"
          => \E i \in DOMAIN Append(env.errnos, e) : Append(env.errnos, e)[i] = "ENOEXEC"
    BY <1>1, OneMoreErrno
  <2>4. Append(env.errnos, e) # <<>>
    BY <1>1, OneMoreErrno
  <2>5. env.resized = FALSE => env.cap = env.size
    BY <1>1 DEF ExecInv
  <2>6. env.over = TRUE => env.resized = TRUE \/ \E i \in DOMAIN env.errnos : env.errnos[i] = "ENOEXEC"
    BY <1>1 DEF ExecInv
  <2>7. past = TRUE => env.resized = TRUE \/ \E i \in DOMAIN Append(env.errnos, e) : Append(env.errnos, e)[i] = "ENOEXEC"
    BY <1>2, <2>3, <2>6, Zenon
  <2> QED
    BY <2>2, <2>4, <2>5, <2>7, Zenon
<1>3. CASE pc' = "execed" /\ env' = env
  BY <1>1, <1>3 DEF ExecInv
<1>4. CASE /\ pc' = "execed" /\ changed' = changed
           /\ env' = [env EXCEPT !.errnos = Append(env.errnos, "ENOEXEC"), !.over = TRUE]
  <2>1. "ENOEXEC" \in Errnos
    BY DEF Errnos
  <2> QED
    BY <1>1, <1>2, <1>4, <2>1, Zenon DEF ExecInv
<1> DEFINE Tried(e) == [env EXCEPT !.errnos = Append(env.errnos, e), !.over = env.over \/ e = "ENOEXEC"]
<1>5. ASSUME NEW e \in Errnos, env' = Tried(e),
             IF Len(Tried(e).errnos) < env.prefixes
             THEN pc' = "exec" /\ UNCHANGED changed
             ELSE /\ pc' = "failed"
                  /\ changed' = {IF env.prefixes > 0 /\ "EACCES" \in {Tried(e).errnos[i] : i \in 1..Len(Tried(e).errnos)}
                                 THEN "EACCES" ELSE e}
      PROVE  ExecInv'
  <2> DEFINE tried == Tried(e)
  <2>1. /\ env' \in ExecEnvs /\ env'.errnos = Append(env.errnos, e) /\ env'.errnos # <<>> /\ env'.prefixes = env.prefixes
        /\ env'.resized = FALSE => env'.cap = env'.size
        /\ env'.over = TRUE => env'.resized = TRUE \/ \E i \in DOMAIN env'.errnos : env'.errnos[i] = "ENOEXEC"
    <3>1. (env.over \/ e = "ENOEXEC") \in BOOLEAN /\ ((env.over \/ e = "ENOEXEC") = TRUE => env.over = TRUE \/ e = "ENOEXEC")
      BY <1>1, Zenon
    <3> QED
      BY <1>2, <1>5, <3>1, Zenon
  <2>2. tried.errnos = Append(env.errnos, e)
    BY <1>5, <2>1
  <2>3. CASE pc' = "exec" /\ Len(tried.errnos) < env.prefixes
    <3>1. env.prefixes # 0
      BY <1>1, <2>2, <2>3, OneMoreErrno
    <3> QED
      BY <1>1, <2>1, <2>3, <3>1 DEF ExecInv
  <2>4. CASE /\ pc' = "failed"
             /\ changed' = {IF env.prefixes > 0 /\ "EACCES" \in {tried.errnos[i] : i \in 1..Len(tried.errnos)}
                            THEN "EACCES" ELSE e}
    <3>1. env.prefixes = 0 => Append(env.errnos, e) = <<e>>
      <4>1. env.prefixes = 0 => env.errnos = <<>>
        BY <1>1 DEF ExecInv
      <4>2. Append(<<>>, e) = <<e>>
        OBVIOUS
      <4> QED
        BY <4>1, <4>2, Zenon
    <3>2. Worst(Append(env.errnos, e)) = IF "EACCES" \in {tried.errnos[i] : i \in 1..Len(tried.errnos)} THEN "EACCES" ELSE e
      BY <1>1, <2>2, OneMoreErrno DEF Worst
    <3>3. env.prefixes = 0 => ("EACCES" \in {tried.errnos[i] : i \in 1..Len(tried.errnos)} => e = "EACCES")
      BY <2>2, <3>1
    <3>4. env.prefixes > 0 \/ env.prefixes = 0
      BY <1>1
    <3>5. changed' = {Worst(env'.errnos)}
      BY <2>1, <2>4, <3>2, <3>3, <3>4
    <3> QED
      BY <1>1, <2>1, <2>4, <3>5 DEF ExecInv
  <2> QED
    BY <1>5, <2>3, <2>4
<1> QED
  <2>1. \/ pc' = "execed" /\ UNCHANGED <<env, changed>>
        \/ \E e \in Errnos :
             /\ env' = Tried(e)
             /\ IF Len(Tried(e).errnos) < env.prefixes
                THEN pc' = "exec" /\ UNCHANGED changed
                ELSE /\ pc' = "failed"
                     /\ changed' = {IF env.prefixes > 0 /\ "EACCES" \in {Tried(e).errnos[i] : i \in 1..Len(Tried(e).errnos)}
                                    THEN "EACCES" ELSE e}
        \/ /\ pc' = "execed" /\ UNCHANGED changed
           /\ env' = [env EXCEPT !.errnos = Append(env.errnos, "ENOEXEC"), !.over = TRUE]
    BY DEF ExecPath
  <2> HIDE DEF Tried
  <2> QED
    BY <1>3, <1>4, <1>5, <2>1, Zenon

\* Every step preserves it.
LEMMA ExecStep ==
  ASSUME Assumption, ExecInv, Next
  PROVE  ExecInv'
<1>1. CASE kind = "execlp"
  BY <1>1, KidsOnly, ExecArgv, ExecTries DEF Execlp
<1>2. CASE kind # "execlp"
  BY <1>2, KidsOnly DEF ExecInv
<1> QED
  BY <1>1, <1>2

\* It implies that the errno left is the one execlp() promises.
LEMMA ExecHolds == ExecInv => ExeclpErrno
BY DEF ExecInv, ExecEnvs, Worst, ExeclpErrno

-----------------------------------------------------------------------------
SystemEnvs == [chld : {"dfl", "reaper", "ign"}, int : {"dfl", "ign"}, int0 : {"dfl", "ign"},
               blocked0 : BOOLEAN, cint : {"none", "dfl", "ign"}, fork : BOOLEAN, end : Int]

\* Until system() restores them, SIGCHLD is blocked and SIGINT ignored, so nothing but
\* waitpid() collects the shell unless the caller ignores SIGCHLD, and ^C does not end the caller.
SystemInv ==
  kind = "system" =>
    /\ env \in SystemEnvs /\ DOMAIN kid = Kids /\ blocked \in BOOLEAN
    /\ pc \in {"start", "call", "fork", "wait", "restore", "returned", "done", "failed", "killed"}
    /\ pc \in {"start", "call", "returned"} => blocked = env.blocked0 /\ env.int = env.int0
    /\ pc \in {"fork", "wait", "restore"} => blocked = TRUE /\ env.int = "ign"
    /\ pc \in {"start", "call", "fork"} => kid[1] = "none"
    /\ pc = "wait" /\ kid[1] = "reaped" => env.chld = "ign"
    /\ pc \in {"restore", "returned", "done", "failed", "killed"} => kid[1] \in {"none", "reaped"}
    /\ pc \in {"restore", "returned"} /\ status # env.end => status = -1 /\ (env.fork = FALSE \/ env.chld = "ign")
    /\ env.chld = "dfl" => kid[2] # "reaped"

\* The invariant of system() implies that the caller sees nothing of it but the status.
LEMMA SystemHolds == SystemInv => SystemTransparent
BY DEF SystemInv, SystemEnvs, SystemTransparent

\* It holds when system() is called.
LEMMA SystemInit ==
  ASSUME Assumption, Init
  PROVE  SystemInv
<1> SUFFICES ASSUME kind = "system"
             PROVE  SystemInv
  BY Zenon DEF SystemInv
<1>1. pc = "start" /\ kind \in Systems
  BY DEF Init, Systems
<1>2. env \in Callers /\ env.int0 = env.int
  <2>1. env \in {c \in Callers : c.int0 = c.int}
    BY <1>1, Zenon DEF Init, Systems, Pipers
  <2> QED
    BY <2>1, Zenon
<1>3. env \in SystemEnvs
  <2>1. Callers \subseteq SystemEnvs
    <3>1. -1 \in Int
      OBVIOUS
    <3> QED
      BY <3>1, Zenon DEF Callers, SystemEnvs
  <2> QED
    BY <1>2, <2>1
<1>4. blocked = env.blocked0 /\ blocked \in BOOLEAN
  BY <1>1, <1>3 DEF Init, SystemEnvs
<1>5. DOMAIN kid = Kids /\ kid[1] = "none" /\ kid[2] # "reaped"
  <2>1. PICK o \in {"none", "run"} : kid = [k \in Kids |-> IF k = 2 THEN o ELSE "none"]
    BY <1>1 DEF Init
  <2> QED
    BY <2>1 DEF Assumption, Kids
<1> QED
  BY <1>1, <1>2, <1>3, <1>4, <1>5 DEF SystemInv

\* The shell or the other child ends.
LEMMA SystemExit ==
  ASSUME Assumption, SystemInv, kind = "system", kind' = kind, NEW c \in {1, 2}, NEW e \in Int,
         pc' = pc, blocked' = blocked, status' = status, Exit(c, "run"),
         env' = env \/ (c = 1 /\ env' = [env EXCEPT !.end = e])
  PROVE  SystemInv'
<1> USE DEF SystemInv, SystemEnvs
<1>1. /\ kid[c] = "run" /\ kid' = [kid EXCEPT ![c] = Corpse]
      /\ pc \notin Over => (Corpse = "reaped" => env.chld = "ign")
      /\ Corpse \in {"zombie", "reaped", "gone"} /\ (Corpse = "reaped" => env.chld = "ign")
  BY DEF Exit, C, Corpse
<1>2. 1 \in Kids /\ 2 \in Kids
  BY DEF Assumption, Kids
<1>3. CASE c = 1
  BY <1>1, <1>2, <1>3
<1>4. CASE c = 2
  BY <1>1, <1>2, <1>4
<1> QED
  BY <1>3, <1>4, Zenon

\* Every step preserves it.
LEMMA SystemStep ==
  ASSUME Assumption, SystemInv, Next
  PROVE  SystemInv'
<1> SUFFICES ASSUME kind = "system"
             PROVE  SystemInv'
  BY KidsOnly, Zenon DEF SystemInv
<1>0. kind' = kind /\ 1 \in Kids /\ 2 \in Kids
  BY KidsOnly DEF Assumption, Kids
<1> USE DEF SystemInv, SystemEnvs, P, SetEnv, C
<1>1. CASE TSystem
  BY <1>0, <1>1 DEF TSystem, sig, rest
<1>2. CASE System
  <2>1. CASE ForkShell
    BY <1>0, <2>1, Zenon DEF ForkShell, sig
  <2>2. CASE WaitShell
    BY <1>0, <2>2 DEF WaitShell, sig
  <2> QED
    BY <1>0, <1>2, <2>1, <2>2, Zenon DEF System
<1>3. CASE Shell
  <2>1. CASE C(1, "born", "run")
    BY <1>0, <1>3, <2>1 DEF Shell, sig, Exit
  <2>2. CASE Exit(1, "run")
    <3>1. PICK e \in {0, 127} : env' = [env EXCEPT !.end = Exited(e)]
      BY <1>3, <2>2 DEF Shell, Exit
    <3>2. Exited(e) \in Int
      BY DEF Exited
    <3>3. UNCHANGED <<pc, blocked, status>>
      BY <1>3 DEF Shell, sig
    <3> QED
      BY <1>0, <2>2, <3>1, <3>2, <3>3, SystemExit, Zenon
  <2> QED
    BY <1>3, <2>1, <2>2, Zenon DEF Shell
<1>4. CASE CallersReaper
  BY <1>0, <1>4 DEF CallersReaper, rest
<1>5. CASE Interrupt
  BY <1>0, <1>5 DEF Interrupt, Corpse, Over, Systems
<1>6. CASE ChildWork
  <2>1. Exit(2, "run") /\ UNCHANGED <<pc, blocked, env, status>>
    BY <1>6 DEF ChildWork, Sharers
  <2> QED
    BY <1>0, <2>1, SystemExit, Zenon
<1> QED
  BY <1>1, <1>2, <1>3, <1>4, <1>5, <1>6, KidsOnly, Zenon

(* All children are counted *)

\* multi_SIGCHLD: numLiveChildren counts the children not waited for, and every call of the
\* handler that is over, runs or is due goes back to a child that has ended and to no other call.
Unreaped == {c \in Kids : kid[c] # "reaped"}
Dead == {c \in Kids : kid[c] \in Ended}
ManyInv ==
  kind = "multi_SIGCHLD" =>
    /\ pc = "start" => kid = [c \in Kids |-> "none"]
    /\ pc # "start" => live = Cardinality(Unreaped)
    /\ pc = "done" => live = 0
    /\ caught \in Nat /\ caught + (IF pend THEN 1 ELSE 0) + (IF pc = "handler" THEN 1 ELSE 0) <= Cardinality(Dead)

\* The children not waited for, and those that ended, are finitely many.
LEMMA ManyFinite ==
  ASSUME Assumption
  PROVE  /\ IsFiniteSet(Unreaped) /\ IsFiniteSet(Dead) /\ Cardinality(Unreaped) \in Nat
         /\ Cardinality(Dead) \in Nat /\ Cardinality(Dead) <= N /\ Cardinality(Kids) = N
<1>1. IsFiniteSet(Kids) /\ Cardinality(Kids) = N
  <2>1. 1 \in Int /\ N \in Int /\ ~(1 > N) /\ N - 1 + 1 = N
    BY DEF Assumption 
  <2> QED
    BY <2>1, FS_Interval DEF Kids
<1>2. Unreaped \subseteq Kids /\ Dead \subseteq Kids
  BY DEF Unreaped, Dead
<1>3. IsFiniteSet(Unreaped) /\ IsFiniteSet(Dead) /\ Cardinality(Dead) <= N
  BY <1>1, <1>2, FS_Subset
<1> QED
  BY <1>1, <1>3, FS_CardinalityType

\* The invariant of multi_SIGCHLD implies what it reports.
LEMMA ManyHolds ==
  ASSUME Assumption, ManyInv, kind = "multi_SIGCHLD"
  PROVE  /\ pc = "done" => \A c \in Kids : kid[c] = "reaped"
         /\ caught \in 0..N /\ (pc # "start" => live = Cardinality({c \in Kids : kid[c] # "reaped"}))
<1>1. pc = "done" => Unreaped = {}
  BY ManyFinite, FS_EmptySet DEF ManyInv
<1>2. caught \in 0..N
  BY ManyFinite DEF Assumption, ManyInv
<1> QED
  BY <1>1, <1>2 DEF ManyInv, Unreaped

\* It holds when main() begins.
LEMMA ManyInit ==
  ASSUME Assumption
  PROVE  Init => ManyInv
<1> SUFFICES ASSUME Init, kind = "multi_SIGCHLD"
             PROVE  ManyInv
  BY DEF ManyInv
<1>1. kid = [c \in Kids |-> "none"] /\ pc = "start" /\ caught = 0 /\ pend = FALSE
  BY DEF Init, Systems
<1> QED
  BY <1>1, ManyFinite DEF ManyInv

\* A child changes its state.
LEMMA ManyMoved ==
  ASSUME Assumption, NEW c \in Kids, kid \in [Kids -> KidStates], NEW to \in KidStates, kid' = [kid EXCEPT ![c] = to],
         kid[c] # "reaped"
  PROVE  /\ Cardinality(Unreaped') = IF to = "reaped" THEN Cardinality(Unreaped) - 1 ELSE Cardinality(Unreaped)
         /\ Cardinality(Dead') = IF to \in Ended /\ kid[c] \notin Ended THEN Cardinality(Dead) + 1
                                 ELSE IF to \notin Ended /\ kid[c] \in Ended THEN Cardinality(Dead) - 1
                                 ELSE Cardinality(Dead)
<1>1. Unreaped' = IF to = "reaped" THEN Unreaped \ {c} ELSE Unreaped
  BY DEF Unreaped
<1>2. Dead' = IF to \in Ended THEN Dead \cup {c} ELSE Dead \ {c}
  BY DEF Dead
<1>3. c \in Unreaped /\ (c \in Dead <=> kid[c] \in Ended)
  BY DEF Unreaped, Dead
<1>4. /\ Cardinality(Unreaped \ {c}) = Cardinality(Unreaped) - 1
      /\ c \notin Dead => Cardinality(Dead \cup {c}) = Cardinality(Dead) + 1
      /\ c \in Dead => Cardinality(Dead \ {c}) = Cardinality(Dead) - 1
  BY <1>3, ManyFinite, FS_AddElement, FS_RemoveElement
<1>5. (c \in Dead => Dead \cup {c} = Dead) /\ (c \notin Dead => Dead \ {c} = Dead)
  OBVIOUS
<1> QED
  BY <1>1, <1>2, <1>3, <1>4, <1>5

\* Every step preserves it.
LEMMA ManyStep ==
  ASSUME Assumption, ManyInv, Values, Next
  PROVE  ManyInv'
<1> SUFFICES ASSUME kind = "multi_SIGCHLD"
             PROVE  ManyInv'
  BY KidsOnly, Zenon DEF ManyInv
<1>1. /\ kind' = kind /\ kid \in [Kids -> KidStates] /\ pend \in BOOLEAN
      /\ {"run", "zombie", "reaped", "gone"} \subseteq KidStates /\ Cardinality(Dead) \in Nat /\ Cardinality(Unreaped) \in Nat
      /\ MultiSIGCHLD \/ SigchldHandler \/ ChildWork
  BY KidsOnly, ManyFinite DEF Values, KidStates, Ended
<1> USE DEF ManyInv
<1>2. ASSUME kid' = kid
      PROVE  Unreaped' = Unreaped /\ Dead' = Dead
  BY <1>2 DEF Unreaped, Dead
<1>3. ASSUME NEW c \in Kids, kid[c] = "none", kid' = [kid EXCEPT ![c] = "run"], pc = "fork", pc' = "fork",
             UNCHANGED <<pend, live, caught>>
      PROVE  ManyInv'
  BY <1>1, <1>3, ManyMoved DEF Ended
<1>4. CASE MultiSIGCHLD
  <2>1. CASE pc = "start" /\ pc' = "fork" /\ live' = N /\ UNCHANGED <<kid, pend, caught>>
    <3>1. Unreaped = Kids
      BY <2>1 DEF Unreaped
    <3> QED
      BY <1>1, <1>2, <2>1, <3>1, ManyFinite
  <2>2. CASE pc \in {"fork", "suspend"} /\ pc' \in {"failed", "suspend", "suspended"} /\ UNCHANGED <<kid, pend, live, caught>>
    BY <1>1, <1>2, <2>2
  <2>3. CASE pc = "suspend" /\ pc' = "done" /\ live = 0 /\ UNCHANGED <<kid, pend, live, caught>>
    BY <1>1, <1>2, <2>3
  <2> QED
    BY <1>3, <1>4, <2>1, <2>2, <2>3 DEF MultiSIGCHLD, ForkEach, Fork, C, P, sig
<1>5. CASE SigchldHandler
  <2>1. CASE pc = "suspended" /\ pc' = "handler" /\ pend = TRUE /\ pend' = FALSE /\ UNCHANGED <<kid, live, caught>>
    BY <1>1, <1>2, <2>1
  <2>2. ASSUME NEW c \in Kids, kid[c] = "zombie", kid' = [kid EXCEPT ![c] = "reaped"], pc = "handler", pc' = "handler",
               live' = live - 1, UNCHANGED <<pend, caught>>
        PROVE  ManyInv'
    BY <1>1, <2>2, ManyMoved DEF Ended
  <2>3. CASE pc = "handler" /\ pc' = "suspend" /\ caught' = caught + 1 /\ UNCHANGED <<kid, pend, live>>
    BY <1>1, <1>2, <2>3
  <2> QED
    BY <1>1, <1>5, <2>1, <2>2, <2>3 DEF SigchldHandler, C, P
<1>6. CASE ChildWork
  <2>1. PICK c \in Kids : kid[c] = "run" /\ kid' = [kid EXCEPT ![c] = Corpse] /\ UNCHANGED <<pc, live, caught>>
    BY <1>6 DEF ChildWork, Exit, C, Systems, Sharers
  <2>2. Corpse \in {"zombie", "gone"}
    BY DEF Corpse, Systems
  <2>3. Cardinality(Unreaped') = Cardinality(Unreaped) /\ Cardinality(Dead') = Cardinality(Dead) + 1
    BY <1>1, <2>1, <2>2, ManyMoved DEF Ended
  <2>4. pc # "start"
    BY <2>1
  <2>5. (IF pend' THEN 1 ELSE 0) \in {0, 1} /\ (IF pend THEN 1 ELSE 0) \in {0, 1}
    OBVIOUS
  <2>6. (IF pc = "handler" THEN 1 ELSE 0) \in {0, 1}
    OBVIOUS
  <2> QED
    BY <1>1, <2>1, <2>3, <2>4, <2>5, <2>6
<1> QED
  BY <1>1, <1>4, <1>5, <1>6

IInv ==
  /\ Values /\ ShareInv /\ StatusInv /\ SyncInv /\ WaitInv /\ ManyInv
  /\ GateInv /\ WriteInv /\ TalkInv /\ GlobInv /\ LsInv /\ ExecInv /\ SystemInv

\* The whole invariant holds when main() begins.
LEMMA InitIInv ==
  ASSUME Assumption
  PROVE  Init => IInv
BY KidsInitValues, ShareInit, StatusInit, SyncInit, WaitInit, ManyInit, GateInit, WriteInit, TalkInit, ExecInit, SystemInit, Zenon
DEF IInv

\* Every step preserves it.
LEMMA NextIInv ==
  ASSUME Assumption, IInv, Next
  PROVE  IInv'
<1>1. Values' /\ ShareInv' /\ StatusInv' /\ SyncInv' /\ WaitInv' /\ ManyInv'
  BY KidsTyped, ShareStep, StatusStep, SyncStep, WaitStep, ManyStep, Zenon DEF IInv
<1>2. GateInv' /\ WriteInv' /\ TalkInv' /\ GlobInv' /\ LsInv' /\ ExecInv' /\ SystemInv'
  BY GateStep, WriteStep, TalkStep, GlobStep, LsStep, ExecStep, SystemStep, Zenon DEF IInv
<1> QED
  BY <1>1, <1>2, Zenon DEF IInv

\* So does nothing happening.
LEMMA StutterIInv ==
  ASSUME IInv, UNCHANGED vars
  PROVE  IInv'
<1>0. UNCHANGED <<kind, pc, kid, blocked, pend, live, caught, env, status, changed, wr, rd, buf, back, left, out>>
  BY Zenon DEF vars, sig, rest, pipe
<1>1. Values'
  BY <1>0 DEF IInv, Values
<1>2. ShareInv'
  <2>1. Seen' = Seen
    BY <1>0 DEF Seen, Shared, Changes
  <2> QED
    BY <1>0, <2>1 DEF IInv, ShareInv
<1>3. StatusInv' /\ SyncInv'
  BY <1>0 DEF IInv, StatusInv, SyncInv
<1>4. WaitInv'
  BY <1>0 DEF IInv, WaitInv
<1>5. ManyInv'
  BY <1>0, Zenon DEF IInv, ManyInv, Unreaped, Dead
<1>6. Flow' = Flow
  BY <1>0 DEF Flow
<1>7. GateInv' /\ WriteInv'
  BY <1>0, <1>6 DEF IInv, GateInv, WriteInv
<1>8. TalkInv' /\ GlobInv' /\ LsInv'
  BY <1>0, <1>6 DEF IInv, TalkInv, GlobInv, LsInv
<1>9. ExecInv' /\ SystemInv'
  BY <1>0, Zenon DEF IInv, ExecInv, SystemInv
<1> QED
  BY <1>1, <1>2, <1>3, <1>4, <1>5, <1>7, <1>8, <1>9, Zenon DEF IInv

\* The bytes on their way are never more than those there are.
LEMMA FlowBounds ==
  ASSUME Assumption, Flow, env \in Totals
  PROVE  {left, buf, back, out} \subseteq 0..Bytes
<1>1. env.total \in 0..Bytes
  BY DEF Totals
<1> QED
  BY <1>1 DEF Assumption, Flow

\* The invariant implies the types.
LEMMA KidsTypes ==
  ASSUME Assumption
  PROVE  IInv => TypeOK
<1> SUFFICES ASSUME IInv
             PROVE  TypeOK
  OBVIOUS
<1>1. kind \in Kinds /\ kid \in [Kids -> KidStates] /\ pend \in BOOLEAN /\ wr \subseteq 0..N /\ rd \subseteq 0..N
  BY Zenon DEF IInv, Values
<1>2. blocked \in BOOLEAN
  BY Zenon DEF IInv, Values, SystemInv
<1>3. caught \in 0..N + Rounds
  <2>1. CASE kind = "multi_SIGCHLD"
    <3>1. caught \in 0..N
      BY <2>1, ManyHolds, Zenon DEF IInv
    <3> QED
      BY <3>1 DEF Assumption
  <2>2. CASE kind # "multi_SIGCHLD"
    BY <2>2, Zenon DEF IInv, Values
  <2> QED
    BY <2>1, <2>2, Zenon
<1>4. {buf, back, left, out} \subseteq 0..Bytes
  <2>1. CASE kind \notin Pipers
    <3>1. buf = 0 /\ back = 0 /\ left = 0 /\ out = 0
      BY <2>1, Zenon DEF IInv, Values
    <3> QED
      BY <3>1 DEF Assumption
  <2>2. CASE kind \in Pipers
    <3>1. Flow /\ env \in Totals
      <4>1. kind \in {"simple_pipe", "change_case", "popen_glob", "pipe_ls_wc"} => Flow /\ env \in Totals
        BY Zenon DEF IInv, WriteInv, TalkInv, GlobInv, LsInv
      <4>2. kind = "pipe_sync" => Flow /\ env \in Totals
        <5> SUFFICES ASSUME kind = "pipe_sync"
                     PROVE  Flow /\ env \in Totals
          OBVIOUS
        <5>1. env \in Totals /\ left = env.total /\ buf = 0 /\ back = 0 /\ out = 0
          BY Zenon DEF IInv, GateInv
        <5> QED
          BY <5>1 DEF Assumption, Flow, Totals
      <4> QED
        BY <2>2, <4>1, <4>2 DEF Pipers
    <3> QED
      BY <3>1, FlowBounds
  <2> QED
    BY <2>1, <2>2, Zenon
<1>5. kind = "multi_SIGCHLD" /\ pc # "start" => live = Cardinality({c \in Kids : kid[c] # "reaped"})
  BY ManyHolds, Zenon DEF IInv
<1>6. kid \in [Kids -> {"none", "born", "run", "worked", "stopped"} \cup Ended]
  BY <1>1 DEF KidStates
<1> QED
  BY <1>1, <1>2, <1>3, <1>4, <1>5, <1>6, Zenon DEF TypeOK

\* It implies that the reports are true.
LEMMA KidsReports ==
  ASSUME Assumption
  PROVE  IInv => ReportsTrue
<1> SUFFICES ASSUME IInv, pc = "done"
             PROVE  ReportsTrue
  BY Zenon DEF ReportsTrue
<1>1. /\ kind \in Sharers => changed = {a \in Changes[kind] : a[2] \in Shared}
      /\ kind = "footprint" => status \div 256 = env.arg % 256
      /\ kind = "vfork_fd_test" => caught = 1
  BY ShareHolds, Zenon DEF IInv, Seen
<1>2. kind = "child_status" => /\ kid[1] = "reaped" /\ PrintWaitStatus(status) \in {"exited", "killed"}
                               /\ "what happened to this child?" \notin changed
  <2>1. kind = "child_status" => kid[1] = "reaped" /\ status \in Deaths /\ changed \subseteq Known
    BY Zenon DEF IInv, StatusInv
  <2>2. "what happened to this child?" \notin Known
    BY DEF Known
  <2> QED
    BY <2>1, <2>2, StatusWords, Zenon
<1>3. kind = "fork_sig_sync" => kid[1] \notin {"none", "run"}
  BY Zenon DEF IInv, SyncInv
<1>4. kind \in {"multi_SIGCHLD", "multi_wait", "fork_whos_on_first"} => \A c \in Kids : kid[c] = "reaped"
  BY ManyHolds, Zenon DEF IInv, WaitInv
<1>5. kind = "multi_SIGCHLD" => caught <= N
  <2>1. kind = "multi_SIGCHLD" => caught \in 0..N
    BY ManyHolds, Zenon DEF IInv
  <2> QED
    BY <2>1 DEF Assumption
<1> QED
  BY <1>1, <1>2, <1>3, <1>4, <1>5, Zenon DEF ReportsTrue

\* It implies that an end of file is seen only when the writers are done.
LEMMA KidsEndOfFile == IInv => EndOfFileMeansDone
<1> SUFFICES ASSUME IInv
             PROVE  EndOfFileMeansDone
  OBVIOUS
<1>1. kind = "pipe_sync" /\ pc = "done" => \A c \in Kids : kid[c] \notin {"none", "run"}
  BY Zenon DEF IInv, GateInv
<1>2. kind = "simple_pipe" /\ pc = "done" => out = env.total
  BY DEF IInv, WriteInv, Flow, Totals
<1>3. kind = "change_case" /\ pc = "done" => out = env.total
  BY DEF IInv, TalkInv, Flow, Totals
<1>4. kind = "popen_glob" /\ pc = "pclose" => out = env.total
  BY DEF IInv, GlobInv, Flow, Totals
<1>5. kind = "pipe_ls_wc" /\ pc = "done" /\ changed = {} => out = env.total
  BY DEF IInv, LsInv, Flow, Totals
<1> QED
  BY <1>1, <1>2, <1>3, <1>4, <1>5, Zenon DEF EndOfFileMeansDone

-----------------------------------------------------------------------------
(* What is proved about the programs *)

\* A program starts with the invariant.
LEMMA Starts == Assumption /\ Init => IInv
BY InitIInv

\* Every step keeps it.
LEMMA Steps == Assumption /\ IInv /\ [Next]_vars => IInv'
BY NextIInv, StutterIInv

\* It implies what the programs promise.
LEMMA Holds ==
  Assumption /\ IInv => TypeOK /\ ReportsTrue /\ SystemTransparent /\ EndOfFileMeansDone /\ ExeclpErrno
<1> SUFFICES ASSUME Assumption, IInv
             PROVE  TypeOK /\ ReportsTrue /\ SystemTransparent /\ EndOfFileMeansDone /\ ExeclpErrno
  OBVIOUS
<1> QED
  BY KidsTypes, KidsReports, SystemHolds, KidsEndOfFile, ExecHolds, Zenon DEF IInv
=============================================================================
