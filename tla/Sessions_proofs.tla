-------------------------- MODULE Sessions_proofs ---------------------------
(***************************************************************************)
(* The inductive invariant of the programs of Sessions: the terminal gets  *)
(* its settings back, ptyFork() leaves no descriptor behind and no byte of *)
(* the shell is lost, for any number of bytes and of edits.                *)
(***************************************************************************)
EXTENDS Sessions, TLAPS

Assumption == MaxConf \in Nat /\ MaxBytes \in Nat

\* Where the settings are the user's and where the saved ones are, for the programs of
\* test_tty_functions; in the handler of SIGTSTP the saved ones are stale from the stop on
\* until they are fetched.
TtyModes ==
  kind \in Ttys =>
    /\ pc \in {"start", "set", "loop", "restore", "h1", "h2", "h3", "stopped", "h4", "h5", "h6", "h7",
              "stopped early", "done", "killed", "overwritten"}
    /\ pc \in {"start", "h2", "h3", "stopped", "h4", "h5", "h6", "h7", "done"} => tty = wish
    /\ pc \in {"set", "loop", "restore", "h1", "stopped early"} => tty = "ours"
    /\ pc \in {"set", "loop", "restore", "h1", "stopped early", "h2", "h3", "h7"} => saved = wish
    /\ pc \in {"stopped", "h4", "h5", "h6"} => saved \in UserModes
    /\ pc \in {"h2", "h3", "stopped", "h4", "h5", "h6", "h7"} => ours = "ours"
    /\ pc = "overwritten" => tty \in UserModes

\* The handler of SIGTSTP and its mask.
TtyStops ==
  kind \in Stoppable =>
    /\ tpend \in BOOLEAN /\ tmask \in BOOLEAN
    /\ pc = "start" => tdisp \in {"dfl", "ign"}
    /\ pc = "set" => tdisp \in {"dfl", "ign"} /\ tmask = FALSE
    /\ pc = "stopped early" => tdisp = "dfl" /\ tmask = FALSE
    /\ pc = "start" => tmask = FALSE
    /\ pc \in {"loop", "restore"} => tdisp \in {"handler", "ign"} /\ tmask = FALSE
    /\ pc \in {"h1", "h2", "h6", "h7"} => tdisp = "handler"
    /\ pc \in {"h3", "stopped", "h4", "h5"} => tdisp = "dfl"
    /\ pc \in {"h1", "h2", "h3", "stopped", "h4", "h5", "h6", "h7"} => ret \in {"loop", "restore"}

TtyOthers ==
  /\ kind = "handling_SIGTSTP" => tty = wish
  /\ kind = "no_echo" => /\ pc \in {"start", "restore", "done", "killed"}
                         /\ pc \in {"start", "done"} => tty = wish
                         /\ pc = "restore" => saved = wish
  /\ kind \in Relays => /\ pc \in {"start", "raw", "done", "input ended"} => tty = wish
                        /\ pc \in {"atexit", "select", "in", "out"} => saved = wish
  /\ pc = "overwritten" => kind \in Ttys

TtyInv == kind \in Kinds /\ wish \in UserModes /\ TtyModes /\ TtyStops /\ TtyOthers

\* The invariant of the terminal modes implies that a program that stops or ends has restored them.
LEMMA TtyHolds == TtyInv => TtyRestored
BY Zenon DEF TtyInv, TtyModes, TtyStops, TtyOthers, TtyRestored, Ttys, Relays, Stoppable

\* It holds when main() begins.
LEMMA TtyInit == Init => TtyInv
BY Zenon DEF Init, TtyInv, TtyModes, TtyStops, TtyOthers, Ttys, Relays, Stoppable, UserModes

\* Every step preserves it.
LEMMA TtyStep ==
  ASSUME TtyInv, Next
  PROVE  TtyInv'
<1> USE DEF TtyInv, TtyModes, TtyStops, TtyOthers, P, Ttys, Relays, Stoppable, UserModes, Groups,
            Over, terminal, stopping
<1>1. CASE TestTty
  BY <1>1, Zenon DEF TestTty, TtySetCbreak, TtySetRaw, TtySet, Restore
<1>2. CASE NoEcho
  BY <1>2, Zenon DEF NoEcho, TtySet, Restore
<1>3. ASSUME NEW k \in {{"cbreak"}, {"handling_SIGTSTP"}}, TstpHandler(k)
      PROVE  TtyInv'
  BY <1>3, ZenonT(60) DEF TstpHandler, Fetched
<1>4. CASE HandlingSIGTSTP
  BY <1>3, <1>4, Zenon DEF HandlingSIGTSTP
<1>5. CASE Handler
  BY <1>5, Zenon DEF Handler, InHandler
<1>6. CASE Kill
  BY <1>6 DEF Kill
<1>7. CASE Sigtstp
  BY <1>7, Zenon DEF Sigtstp
<1>8. CASE SigtstpBlocked
  BY <1>8, Zenon DEF SigtstpBlocked, InHandler
<1>9. CASE UserSets
  BY <1>9 DEF UserSets
<1>10. CASE Sigcont
  BY <1>10, Zenon DEF Sigcont
<1>11. CASE DaemonSIGHUP \/ SighupHandler \/ Edit
  BY <1>11, Zenon DEF DaemonSIGHUP, BecomeDaemon, Reopen, Reread, D, rest, SighupHandler, Edit
<1>12. CASE Script \/ Unbuffer
  BY <1>12, Zenon DEF Script, Unbuffer, RelayStart, RelayLoop, ExitReset, alone
<1>13. CASE Typist \/ Shell
  BY <1>13, Zenon DEF Typist, Shell, alone
<1>14. CASE PtyFork \/ PtyForkChild
  BY <1>14, Zenon DEF PtyFork, PtyMasterOpen, PtyForkChild, unused
<1>15. CASE OrphanedPgrp \/ DiscSIGHUP \/ Disconnect
  BY <1>15, Zenon DEF OrphanedPgrp, DiscSIGHUP, Disconnect, ForkGroup, ParentEnds, noGroup
<1>16. CASE \E m \in Members : OrphanedMember(m) \/ DiscMember(m)
  BY <1>16, Zenon DEF OrphanedMember, DiscMember, M, noGroup
<1> QED
  BY <1>1, <1>2, <1>3, <1>4, <1>5, <1>6, <1>7, <1>8, <1>9, <1>10, <1>11, <1>12, <1>13, <1>14, <1>15, <1>16, Zenon
  DEF Next, Main

\* ptyFork(): a table of descriptors in which at most the standard ones are open, and one
\* with one more descriptor, the lowest that was free.
Std(t) == \A g \in Fds : t[g] \in {"free", "tty"} /\ (g > 2 => t[g] = "free")
OneMore(t, what) ==
  /\ t \in [Fds -> {"free", "tty", what}]
  /\ \E f \in Fds : /\ t[f] = what
                       /\ \A g \in Fds \ {f} : t[g] \in {"free", "tty"} /\ (g > 2 => t[g] = "free")

\* The child's table after dup2() and close().
PtySlave(t) ==
  LET slaveFd == CHOOSE f \in Fds : t[f] = "slave" IN
  [f \in Fds |-> IF f <= 2 THEN "slave" ELSE IF f = slaveFd THEN "free" ELSE t[f]]

PtyInv ==
  kind = "pty_fork" =>
    /\ DOMAIN fds = Fds /\ DOMAIN cfds = Fds
    /\ pc \in {"start", "grant", "fork", "done", "failed"}
    /\ pc \in {"start", "failed"} => Std(fds)
    /\ pc \in {"grant", "fork", "done"} => OneMore(fds, "master")
    /\ pc # "done" => cpc = "none"
    /\ cpc = "setsid" => OneMore(cfds, "master")
    /\ cpc = "slave" => Std(cfds)
    /\ cpc = "dup2" => OneMore(cfds, "slave")
    /\ cpc = "done" => \A f \in Fds : IF f <= 2 THEN cfds[f] = "slave" ELSE cfds[f] = "free"

\* The invariant of ptyFork() implies what it says of the descriptors.
LEMMA PtyHolds == PtyInv => PtyDescriptors
BY DEF PtyInv, Std, OneMore, PtyDescriptors

\* open() adds one descriptor to the standard ones that are open.
LEMMA PtyOpened ==
  ASSUME NEW t, DOMAIN t = Fds, Std(t), NEW what
  PROVE  OneMore(Opened(t, what), what)
<1>1. PICK f \in Fds : t[f] = "free" /\ \A g \in 0..f - 1 : t[g] # "free"
  <2>1. 3 \in Fds /\ t[3] = "free"
    BY DEF Std, Fds
  <2> QED
    BY <2>1 DEF Fds
<1>2. LowestFree(t) \in Fds
  BY <1>1 DEF LowestFree
<1> QED
  BY <1>2, Zenon DEF Std, OneMore, Opened

\* close() of it leaves those.
LEMMA PtyClosed ==
  ASSUME NEW t, NEW what \in {"master", "slave"}, OneMore(t, what)
  PROVE  Std(Closed(t, what)) /\ DOMAIN Closed(t, what) = Fds
BY DEF Std, OneMore, Closed

\* The invariant of ptyFork() holds when it is called.
LEMMA PtyInit == Init => PtyInv
BY DEF Init, PtyInv, Std, Fds

\* The program never changes, and only ptyFork() takes its steps.
LEMMA PtyOnly ==
  ASSUME Next
  PROVE  kind' = kind /\ (kind = "pty_fork" => PtyFork \/ PtyForkChild)
<1> USE DEF P, Ttys, Relays, Stoppable, Groups
<1>1. CASE TestTty \/ NoEcho \/ TstpHandler({"cbreak"}) \/ HandlingSIGTSTP
  BY <1>1 DEF TestTty, TtySetCbreak, TtySetRaw, TtySet, Restore, NoEcho, TstpHandler,
              HandlingSIGTSTP
<1>2. CASE \/ Handler \/ Kill \/ Sigtstp \/ SigtstpBlocked \/ UserSets \/ Sigcont
           \/ SighupHandler \/ Edit \/ Typist \/ Shell \/ Disconnect
  BY <1>2, Zenon DEF Handler, Kill, Sigtstp, SigtstpBlocked, UserSets, Sigcont,
              SighupHandler, Edit, Typist, Shell, Disconnect
<1>3. CASE DaemonSIGHUP
  BY <1>3 DEF DaemonSIGHUP, BecomeDaemon, Reopen, Reread, D
<1>4. CASE Script \/ Unbuffer
  BY <1>4, Zenon DEF Script, Unbuffer, RelayStart, RelayLoop, ExitReset
<1>5. CASE PtyFork \/ PtyForkChild
  BY <1>5 DEF PtyFork, PtyMasterOpen, PtyForkChild
<1>6. CASE OrphanedPgrp \/ DiscSIGHUP
  BY <1>6 DEF OrphanedPgrp, DiscSIGHUP, ForkGroup
<1>7. CASE \E m \in Members : OrphanedMember(m) \/ DiscMember(m)
  BY <1>7, Zenon DEF OrphanedMember, DiscMember, M
<1> QED
  BY <1>1, <1>2, <1>3, <1>4, <1>5, <1>6, <1>7 DEF Next, Main

\* Every step preserves it.
LEMMA PtyStep ==
  ASSUME PtyInv, Next
  PROVE  PtyInv'
<1> SUFFICES ASSUME kind = "pty_fork"
             PROVE  PtyInv'
  BY PtyOnly DEF PtyInv
<1>1. (PtyFork \/ PtyForkChild) /\ kind' = kind
  BY PtyOnly
<1> USE DEF PtyInv, P
<1>2. CASE PtyMasterOpen
  <2>1. CASE pc = "start" /\ pc' = "grant" /\ fds' = Opened(fds, "master") /\ UNCHANGED <<cfds, cpc>>
    BY <1>1, <2>1, PtyOpened, Zenon DEF Opened
  <2>2. CASE /\ <<pc, pc'>> \in {<<"start", "failed">>, <<"grant", "fork">>}
             /\ UNCHANGED <<fds, cfds, cpc>>
    BY <1>1, <2>2
  <2>3. CASE pc = "grant" /\ pc' = "failed" /\ fds' = Closed(fds, "master") /\ UNCHANGED <<cfds, cpc>>
    BY <1>1, <2>3, PtyClosed
  <2> QED
    BY <1>2, <2>1, <2>2, <2>3 DEF PtyMasterOpen
<1>3. CASE PtyFork /\ ~PtyMasterOpen
  BY <1>3, PtyClosed DEF PtyFork
<1>4. CASE PtyForkChild
  <2>0. UNCHANGED <<kind, pc, fds>>
    BY <1>4 DEF PtyForkChild
  <2>1. CASE cpc = "setsid" /\ cpc' = "slave" /\ cfds' = Closed(cfds, "master")
    BY <2>0, <2>1, PtyClosed
  <2>2. CASE cpc = "slave" /\ cpc' = "dup2" /\ cfds' = Opened(cfds, "slave")
    BY <2>0, <2>2, PtyOpened, Zenon DEF Opened
  <2>3. CASE cpc \in {"setsid", "slave"} /\ cpc' = "failed" /\ UNCHANGED cfds
    BY <2>0, <2>3
  <2>4. CASE cpc = "dup2" /\ cpc' = "done" /\ cfds' = PtySlave(cfds)
    <3>1. PICK s \in Fds : /\ cfds[s] = "slave"
                              /\ \A g \in Fds \ {s} : cfds[g] # "slave" /\ (g > 2 => cfds[g] = "free")
      BY <1>1, <2>4 DEF OneMore
    <3>2. (CHOOSE f \in Fds : cfds[f] = "slave") = s
      BY <3>1
    <3>3. DOMAIN cfds' = Fds /\ \A f \in Fds : IF f <= 2 THEN cfds'[f] = "slave" ELSE cfds'[f] = "free"
      BY <2>4, <3>1, <3>2 DEF PtySlave, Fds
    <3> QED
      BY <1>1, <2>0, <2>4, <3>3
  <2> QED
    BY <1>4, <2>1, <2>2, <2>3, <2>4 DEF PtyForkChild, PtySlave
<1> QED
  BY <1>1, <1>2, <1>3, <1>4

\* The settings themselves; what the daemon knows of its file, and its session; and the bytes
\* between the terminal and the shell, none of which is lost.
TtyValues ==
  /\ tty \in UserModes \cup {"ours"} /\ saved \in UserModes /\ ours = "ours"
  /\ {conf, asked, got} \subseteq 0..MaxConf
  /\ kind = "daemon_SIGHUP" /\ pc \in {"open", "sleep", "check", "reopen"} => session = "member"

RelayInv ==
  /\ kind \in Relays =>
       /\ {typed, toShell, fromShell, written, shown, script} \subseteq Nat
       /\ shown + fromShell = written /\ written <= MaxBytes /\ typed + toShell <= MaxBytes
       /\ pc = "done" => shell = "gone" /\ fromShell = 0
       /\ script = IF kind = "script" THEN shown ELSE 0
  /\ kind \notin Relays => typed = 0 /\ toShell = 0 /\ fromShell = 0 /\ shown = 0 /\ script = 0

\* The invariant of script and unbuffer implies that all the shell has written was shown.
LEMMA RelayHolds == RelayInv => NothingUnseen
BY DEF RelayInv, NothingUnseen, Relays

\* The invariants imply the types.
LEMMA TtyTypes ==
  ASSUME Assumption
  PROVE  TtyInv /\ TtyValues /\ RelayInv => TypeOK
<1> SUFFICES ASSUME TtyInv, TtyValues, RelayInv
             PROVE  TypeOK
  OBVIOUS
<1>1. {typed, toShell, fromShell, shown, script} \subseteq 0..MaxBytes
  BY DEF Assumption, RelayInv
<1>2. kind \in Kinds /\ wish \in UserModes
  BY DEF TtyInv
<1> QED
  BY <1>1, <1>2 DEF TtyValues, TypeOK

\* The types and the invariant of the relays hold when main() begins.
LEMMA TtyInitValues ==
  ASSUME Assumption
  PROVE  Init => TtyValues /\ RelayInv
<1> SUFFICES ASSUME Init
             PROVE  TtyValues /\ RelayInv
  OBVIOUS
<1>1. TtyValues
  BY DEF Assumption, Init, TtyValues, UserModes
<1>2. RelayInv
  BY DEF Assumption, Init, RelayInv
<1> QED
  BY <1>1, <1>2

\* Only the daemon changes what it knows, and only script and unbuffer relay.
LEMMA TtyFrames ==
  ASSUME Next
  PROVE  /\ kind' = kind
         /\ \/ UNCHANGED <<conf, asked, got, session>> /\ kind # "daemon_SIGHUP"
            \/ DaemonSIGHUP \/ SighupHandler \/ Edit
         /\ \/ UNCHANGED <<typed, toShell, fromShell, written, shown, script, shell>> /\ kind \notin Relays
            \/ Script \/ Unbuffer \/ Typist \/ Shell
<1> USE DEF P, Ttys, Relays, Stoppable, Groups, others, daemon, relay
<1>1. CASE TestTty \/ NoEcho
  BY <1>1 DEF TestTty, TtySetCbreak, TtySetRaw, TtySet, Restore, NoEcho
<1>2. ASSUME NEW k \in {{"cbreak"}, {"handling_SIGTSTP"}}, TstpHandler(k)
      PROVE  /\ kind' = kind /\ UNCHANGED <<conf, asked, got, session>> /\ kind # "daemon_SIGHUP"
             /\ UNCHANGED <<typed, toShell, fromShell, written, shown, script, shell>> /\ kind \notin Relays
  BY <1>2 DEF TstpHandler
<1>3. CASE HandlingSIGTSTP \/ TstpHandler({"cbreak"})
  BY <1>2, <1>3 DEF HandlingSIGTSTP
<1>4. CASE \/ Handler \/ Kill \/ Sigtstp \/ SigtstpBlocked \/ UserSets \/ Sigcont
  BY <1>4 DEF Handler, Kill, Sigtstp, SigtstpBlocked, UserSets, Sigcont
<1>5. CASE DaemonSIGHUP \/ SighupHandler \/ Edit
  BY <1>5, Zenon DEF DaemonSIGHUP, BecomeDaemon, Reopen, Reread, D, SighupHandler, Edit, rest
<1>6. CASE Script \/ Unbuffer \/ Typist \/ Shell
  BY <1>6, Zenon DEF Script, Unbuffer, RelayStart, RelayLoop, ExitReset, Typist, Shell, alone
<1>7. CASE PtyFork \/ PtyForkChild
  BY <1>7 DEF PtyFork, PtyMasterOpen, PtyForkChild, unused
<1>8. CASE OrphanedPgrp \/ DiscSIGHUP \/ Disconnect
  BY <1>8 DEF OrphanedPgrp, DiscSIGHUP, Disconnect, ForkGroup, ParentEnds, noGroup
<1>9. CASE \E m \in Members : OrphanedMember(m) \/ DiscMember(m)
  BY <1>9, Zenon DEF OrphanedMember, DiscMember, M, noGroup
<1> QED
  BY <1>1, <1>3, <1>4, <1>5, <1>6, <1>7, <1>8, <1>9, Zenon DEF Next, Main

\* The settings are the user's when they are saved, and the program's when it is stopped.
LEMMA TtySettings ==
  ASSUME TtyInv, TtyValues, Next
  PROVE  tty' \in UserModes \cup {"ours"} /\ saved' \in UserModes /\ ours' = "ours"
<1>0. tty \in UserModes \cup {"ours"} /\ saved \in UserModes /\ ours = "ours" /\ wish \in UserModes
  BY DEF TtyValues, TtyInv
<1> USE DEF P, terminal
<1>1. CASE TestTty \/ NoEcho
  <2>1. UNCHANGED <<tty, saved, ours>> \/ (tty' = saved /\ UNCHANGED <<saved, ours>>)
        \/ (saved' = tty /\ tty' = "ours" /\ ours' = ours /\ pc = "start" /\ kind \in {"cbreak", "raw", "no_echo"})
    BY <1>1 DEF TestTty, TtySetCbreak, TtySetRaw, TtySet, Restore, NoEcho
  <2> QED
    BY <1>0, <2>1 DEF TtyInv, TtyModes, TtyOthers, Ttys
<1>2. ASSUME NEW k \in {{"cbreak"}, {"handling_SIGTSTP"}}, TstpHandler(k)
      PROVE  tty' \in UserModes \cup {"ours"} /\ saved' \in UserModes /\ ours' = "ours"
  <2>1. \/ UNCHANGED <<tty, saved, ours>> \/ (tty' = ours /\ UNCHANGED <<saved, ours>>)
        \/ (kind \in Ttys /\ pc = "h1" /\ ours' = tty /\ tty' = saved /\ saved' = saved)
        \/ (kind \in Ttys /\ pc = "h6" /\ saved' = tty /\ UNCHANGED <<tty, ours>>)
    BY <1>2, Zenon DEF TstpHandler, Fetched
  <2> QED
    BY <1>0, <2>1 DEF TtyInv, TtyModes
<1>3. CASE HandlingSIGTSTP \/ TstpHandler({"cbreak"})
  BY <1>0, <1>2, <1>3 DEF HandlingSIGTSTP
<1>4. CASE \/ Handler \/ Kill \/ Sigtstp \/ SigtstpBlocked \/ UserSets \/ Sigcont
  BY <1>0, <1>4 DEF Handler, Kill, Sigtstp, SigtstpBlocked, UserSets, Sigcont
<1>5. CASE DaemonSIGHUP \/ SighupHandler \/ Edit
  <2>1. UNCHANGED <<tty, saved, ours>>
    BY <1>5, Zenon DEF DaemonSIGHUP, BecomeDaemon, Reopen, Reread, D, SighupHandler, Edit, rest
  <2> QED
    BY <1>0, <2>1
<1>6. CASE Script \/ Unbuffer \/ Typist \/ Shell
  <2>1. UNCHANGED <<tty, saved, ours>> \/ (tty' = saved /\ UNCHANGED <<saved, ours>>)
        \/ (saved' = tty /\ tty' = "ours" /\ ours' = ours /\ pc = "raw" /\ kind \in {"script", "unbuffer"})
    BY <1>6, Zenon DEF Script, Unbuffer, RelayStart, RelayLoop, ExitReset, Typist, Shell
  <2> QED
    BY <1>0, <2>1 DEF TtyInv, TtyOthers, Relays
<1>7. CASE PtyFork \/ PtyForkChild
  BY <1>0, <1>7 DEF PtyFork, PtyMasterOpen, PtyForkChild, unused
<1>8. CASE OrphanedPgrp \/ DiscSIGHUP \/ Disconnect
  BY <1>0, <1>8 DEF OrphanedPgrp, DiscSIGHUP, Disconnect, ForkGroup, ParentEnds, noGroup
<1>9. CASE \E m \in Members : OrphanedMember(m) \/ DiscMember(m)
  <2>1. UNCHANGED <<tty, saved, ours>>
    BY <1>9, Zenon DEF OrphanedMember, DiscMember, M, noGroup
  <2> QED
    BY <1>0, <2>1
<1> QED
  BY <1>1, <1>3, <1>4, <1>5, <1>6, <1>7, <1>8, <1>9, Zenon DEF Next, Main

\* Every step preserves the types.
LEMMA TtyValuesStep ==
  ASSUME Assumption, TtyInv, TtyValues, Next
  PROVE  TtyValues'
<1>1. tty' \in UserModes \cup {"ours"} /\ saved' \in UserModes /\ ours' = "ours"
  BY TtySettings
<1>2. CASE UNCHANGED <<conf, asked, got, session>> /\ kind # "daemon_SIGHUP"
  BY <1>1, <1>2, TtyFrames DEF TtyValues
<1>3. CASE DaemonSIGHUP
  <2>1. /\ conf' = conf /\ asked' = asked /\ got' \in {got, conf}
        /\ pc' \in {"child", "leader", "failed"} \/ session' = "member" \/ (pc \in {"open", "sleep", "check", "reopen"} /\ session' = session)
    BY <1>3 DEF DaemonSIGHUP, BecomeDaemon, Reopen, Reread, D, P
  <2>2. kind = "daemon_SIGHUP"
    BY <1>3 DEF DaemonSIGHUP, BecomeDaemon, Reopen, Reread, D, P
  <2> QED
    BY <1>1, <2>1, <2>2 DEF TtyValues
<1>4. CASE SighupHandler
  BY <1>1, <1>4 DEF SighupHandler, TtyValues, Over
<1>5. CASE Edit
  <2>1. conf' \in 0..MaxConf /\ UNCHANGED <<kind, pc, asked, got, session>>
    BY <1>5 DEF Assumption, Edit, TtyValues
  <2> QED
    BY <1>1, <2>1 DEF TtyValues
<1> QED
  BY <1>2, <1>3, <1>4, <1>5, TtyFrames, Zenon

\* Every step preserves the invariant of the relays.
LEMMA RelayStep ==
  ASSUME Assumption, RelayInv, Next
  PROVE  RelayInv'
<1>1. CASE UNCHANGED <<typed, toShell, fromShell, written, shown, script, shell>> /\ kind \notin Relays
  BY <1>1, TtyFrames, Zenon DEF RelayInv
<1>2. kind' = kind
  BY TtyFrames
<1>3. ASSUME NEW k \in Relays, RelayStart({k}) \/ RelayLoop({k})
      PROVE  RelayInv'
  <2>1. kind = k
    BY <1>3, Zenon DEF RelayStart, RelayLoop, P, ExitReset
  <2>2. CASE /\ UNCHANGED <<typed, toShell, fromShell, written, shown, script>>
             /\ pc' = "done" => shell' = "gone" /\ fromShell = 0
    BY <1>2, <2>1, <2>2 DEF RelayInv
  <2>3. CASE /\ UNCHANGED <<fromShell, written, shown, script, shell>> /\ pc' # "done"
             /\ typed > 0 /\ typed' = typed - 1 /\ toShell' = toShell + 1
    BY <1>2, <2>1, <2>3 DEF RelayInv
  <2>4. CASE /\ UNCHANGED <<typed, toShell, written, shell>> /\ pc' # "done" /\ fromShell > 0 /\ fromShell' = fromShell - 1
             /\ shown' = shown + 1 /\ script' = (IF k = "script" THEN script + 1 ELSE script)
    BY <1>2, <2>1, <2>4 DEF RelayInv, Relays
  <2>5. {k} = {"script"} <=> k = "script"
    OBVIOUS
  <2>6. CASE RelayStart({k})
    <3>1. UNCHANGED <<typed, toShell, fromShell, written, shown, script>> /\ pc' # "done"
      BY <2>6 DEF RelayStart, P
    <3> QED
      BY <2>2, <3>1
  <2>7. CASE RelayLoop({k})
    BY <2>2, <2>3, <2>4, <2>5, <2>7 DEF RelayLoop, P, ExitReset, relay, HungUp
  <2> QED
    BY <1>3, <2>6, <2>7
<1>4. CASE Script \/ Unbuffer
  BY <1>3, <1>4, Zenon DEF Script, Unbuffer, Relays
<1>5. CASE Typist
  <2>1. kind \in Relays /\ UNCHANGED <<pc, toShell, fromShell, written, shown, script, shell>>
        /\ (typed' = typed \/ (typed + toShell < MaxBytes /\ typed' = typed + 1))
    BY <1>5 DEF Typist
  <2> QED
    BY <1>2, <2>1 DEF Assumption, RelayInv
<1>6. CASE Shell
  <2>1. kind \in Relays /\ UNCHANGED <<pc, typed, shown, script>> /\ shell = "run"
    BY <1>6 DEF Shell
  <2>2. \/ toShell > 0 /\ toShell' = toShell - 1 /\ UNCHANGED <<fromShell, written, shell>>
        \/ written < MaxBytes /\ written' = written + 1 /\ fromShell' = fromShell + 1 /\ UNCHANGED <<toShell, shell>>
        \/ UNCHANGED <<toShell, fromShell, written>>
    BY <1>6 DEF Shell
  <2>3. pc # "done"
    BY <2>1 DEF RelayInv
  <2> QED
    BY <1>2, <2>1, <2>2, <2>3 DEF Assumption, RelayInv
<1> QED
  BY <1>1, <1>4, <1>5, <1>6, TtyFrames, Zenon

\* So does nothing happening, for all of them.
LEMMA TtyStays ==
  ASSUME TtyInv, PtyInv, TtyValues, RelayInv, UNCHANGED vars
  PROVE  TtyInv' /\ PtyInv' /\ TtyValues' /\ RelayInv'
<1> USE DEF vars, terminal, stopping, daemon, relay, descriptors, group
<1>1. TtyInv'
  <2>1. TtyModes'
    BY Zenon DEF TtyInv, TtyModes
  <2>2. TtyStops' /\ TtyOthers'
    BY Zenon DEF TtyInv, TtyStops, TtyOthers
  <2> QED
    BY <2>1, <2>2, Zenon DEF TtyInv
<1>2. PtyInv'
  BY DEF PtyInv, Std, OneMore, Fds
<1>3. TtyValues' /\ RelayInv'
  BY DEF TtyValues, RelayInv
<1> QED
  BY <1>1, <1>2, <1>3

-----------------------------------------------------------------------------
(* What is proved about the programs *)

IInv == TtyInv /\ PtyInv /\ TtyValues /\ RelayInv

\* A program starts with the invariant.
LEMMA Starts == Assumption /\ Init => IInv
BY TtyInit, PtyInit, TtyInitValues DEF IInv

\* Every step keeps it.
LEMMA Steps == Assumption /\ IInv /\ [Next]_vars => IInv'
BY TtyStep, PtyStep, TtyValuesStep, RelayStep, TtyStays DEF IInv

\* It implies what the programs promise.
LEMMA Holds == Assumption /\ IInv => TypeOK /\ TtyRestored /\ PtyDescriptors /\ NothingUnseen
BY TtyHolds, PtyHolds, TtyTypes, RelayHolds DEF IInv
=============================================================================
