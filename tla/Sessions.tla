------------------------------ MODULE Sessions ------------------------------
(***************************************************************************)
(* Programs about terminals, sessions and job control, one of which (kind) *)
(* runs: test_tty_functions.c (in cbreak and in raw mode) and no_echo.c of *)
(* src/tty, handling_SIGTSTP.c, orphaned_pgrp_SIGHUP.c and disc_SIGHUP.c   *)
(* of src/pgsjc, daemon_SIGHUP.c of src/daemons, script.c, unbuffer.c and  *)
(* ptyFork() of src/pty.  The settings of the terminal are the user's (two *)
(* of them, to tell a change) or "ours".                                   *)
(***************************************************************************)
EXTENDS Naturals

CONSTANTS MaxConf,    \* bound: edits of the configuration file
          MaxBytes    \* bound: bytes typed, and written by the shell

VARIABLES kind, pc,
          tty, wish,              \* the settings, and those the user has chosen last
          saved, ours,            \* userTermios (ttyOrig, save), ourTermios
          ret, tdisp, tmask, tpend,  \* where SIGTSTP came; disposition, blocked, pending
          hup, conf, asked, got, slept, session,   \* the daemon
          eof, typed, toShell, fromShell, written, shown, script, shell, ready,  \* a relay
          fds, cfds, cpc,         \* ptyFork(): descriptors of parent and child
          arg, member, orphaned   \* the process groups

terminal == <<tty, wish, saved, ours>>
stopping == <<ret, tdisp, tmask, tpend>>
daemon == <<hup, conf, asked, got, slept, session>>
relay == <<eof, typed, toShell, fromShell, written, shown, script, shell, ready>>
descriptors == <<fds, cfds, cpc>>
group == <<arg, member, orphaned>>
vars == <<kind, pc, terminal, stopping, daemon, relay, descriptors, group>>

UserModes == {"user1", "user2"}
Ttys == {"cbreak", "raw"}
Relays == {"script", "unbuffer"}
Groups == {"orphaned_pgrp_SIGHUP", "disc_SIGHUP"}
Kinds == Ttys \cup Relays \cup Groups \cup {"no_echo", "handling_SIGTSTP", "daemon_SIGHUP", "pty_fork"}
Members == {1, 2}
Fds == 0..4
Over == {"done", "failed", "killed", "overwritten", "input ended"}

Init ==
  /\ kind \in Kinds /\ pc = "start"
  /\ tty = "user1" /\ wish = "user1" /\ saved = "user1" /\ ours = "ours"
  /\ ret = "none" /\ tmask = FALSE /\ tpend = FALSE
  /\ tdisp \in (IF kind \in Ttys \cup {"handling_SIGTSTP"} THEN {"dfl", "ign"} ELSE {"dfl"})
  /\ hup = FALSE /\ conf = 0 /\ asked = 0 /\ got = 0 /\ slept = 0 /\ session = "shell's"
  /\ eof = FALSE /\ typed = 0 /\ toShell = 0 /\ fromShell = 0 /\ written = 0 /\ shown = 0 /\ script = 0
  /\ shell = "none" /\ ready = {}
  /\ fds \in (IF kind = "pty_fork"
              THEN {[f \in Fds |-> IF f \in std THEN "tty" ELSE "free"] : std \in SUBSET (0..2)}
              ELSE {[f \in Fds |-> "free"]})
  /\ cfds = fds /\ cpc = "none"
  /\ arg \in (CASE kind = "orphaned_pgrp_SIGHUP" -> [Members -> {"s", "p"}]
                [] kind = "disc_SIGHUP" -> [Members -> {"d", "s"}]
                [] OTHER -> {[m \in Members |-> "s"]})
  /\ member = [m \in Members |-> "none"] /\ orphaned = FALSE

P(k, from, to) == kind \in k /\ pc = from /\ pc' = to /\ UNCHANGED kind
-----------------------------------------------------------------------------
(* SIGTSTP and the settings of the terminal *)

others == <<daemon, relay, descriptors, group>>
Stoppable == {"cbreak", "handling_SIGTSTP"}

\* ttySetCbreak(), ttySetRaw(), and no_echo: the previous settings are kept.
TtySet(k, to) == /\ P(k, "start", to) /\ saved' = tty /\ tty' = "ours"
                 /\ UNCHANGED <<wish, ours, stopping, others>>
TtySetCbreak == TtySet({"cbreak"}, "set")
TtySetRaw == TtySet({"raw"}, "set")

Restore(k) == P(k, "restore", "done") /\ tty' = saved /\ UNCHANGED <<wish, saved, ours, stopping, others>>

\* main() of test_tty_functions: handlers, unless the signal is ignored; characters until
\* 'q' or the end of file; the settings of the user.
TestTty ==
  \/ TtySetCbreak \/ TtySetRaw
  \/ /\ P(Ttys, "set", "loop")
     /\ tdisp' = IF kind = "cbreak" /\ tdisp = "dfl" THEN "handler" ELSE tdisp
     /\ UNCHANGED <<terminal, ret, tmask, tpend, others>>
  \/ P(Ttys, "loop", "restore") /\ UNCHANGED <<terminal, stopping, others>>
  \/ Restore(Ttys)

NoEcho ==
  \/ TtySet({"no_echo"}, "restore")
  \/ Restore({"no_echo"})

InHandler == pc \in {"h1", "h2", "h3", "h4", "h5", "h6", "h7"}

\* handler(): SIGINT in cbreak mode, SIGTERM in both; without a handler they kill.
Handler ==
  /\ kind \in Ttys /\ (pc \in {"set", "loop", "restore"} \/ InHandler)
  /\ IF pc = "set" THEN pc' = "killed" /\ UNCHANGED tty
                   ELSE tty' = saved /\ pc' = IF pc \in {"h4", "h5", "h6"} THEN "overwritten" ELSE "done"
  /\ UNCHANGED <<kind, wish, saved, ours, stopping, others>>

\* ^C at no_echo, which has no handler.
Kill == /\ kind = "no_echo" /\ pc = "restore" /\ pc' = "killed"
        /\ UNCHANGED <<kind, terminal, stopping, others>>

\* SIGTSTP arrives: it stops the program, or waits, or calls the handler.
Sigtstp ==
  /\ kind \in Stoppable /\ pc \in {"set", "loop", "restore", "h4"} /\ tdisp # "ign"
  /\ \/ tdisp = "dfl" /\ pc' = (IF pc = "h4" THEN "stopped" ELSE "stopped early") /\ UNCHANGED <<ret, tmask>>
     \/ tdisp = "handler" /\ ~tmask /\ pc' = "h1" /\ ret' = pc /\ tmask' = TRUE
  /\ UNCHANGED <<kind, terminal, tdisp, tpend, others>>
SigtstpBlocked ==
  /\ kind \in Stoppable /\ tmask /\ tdisp = "handler" /\ InHandler /\ tpend' = TRUE
  /\ UNCHANGED <<kind, pc, terminal, ret, tdisp, tmask, others>>

\* "The user may have changed the terminal settings while we were stopped."
Fetched == tty

\* tstpHandler(): SIGTSTP is blocked while it runs, except from the moment the program stops
\* (h3) to the second sigprocmask() (h4); a SIGTSTP that waits calls it again when it returns.
TstpHandler(k) ==
  LET step(from, to) == P(k, from, to) /\ UNCHANGED <<ret, others>>
      quiet == UNCHANGED <<terminal>>
      own == kind \in Ttys IN
  \/ /\ step("h1", "h2") /\ UNCHANGED <<wish, saved, tdisp, tmask, tpend>>
     /\ IF own THEN ours' = tty /\ tty' = saved ELSE UNCHANGED <<ours, tty>>
  \/ step("h2", "h3") /\ tdisp' = "dfl" /\ tpend' = TRUE /\ UNCHANGED tmask /\ quiet
  \/ step("h3", "stopped") /\ tmask' = FALSE /\ tpend' = FALSE /\ UNCHANGED tdisp /\ quiet
  \/ step("h4", "h5") /\ tmask' = TRUE /\ UNCHANGED <<tdisp, tpend>> /\ quiet
  \/ step("h5", "h6") /\ tdisp' = "handler" /\ UNCHANGED <<tmask, tpend>> /\ quiet
  \/ /\ step("h6", "h7") /\ saved' = (IF own THEN Fetched ELSE saved)
     /\ UNCHANGED <<tty, wish, ours, tdisp, tmask, tpend>>
  \/ /\ P(k, "h7", IF tpend THEN "h1" ELSE ret) /\ tty' = (IF own THEN ours ELSE tty)
     /\ tmask' = tpend /\ tpend' = FALSE
     /\ UNCHANGED <<wish, saved, ours, ret, tdisp, others>>

HandlingSIGTSTP ==
  \/ /\ P({"handling_SIGTSTP"}, "start", "loop") /\ tdisp' = (IF tdisp = "dfl" THEN "handler" ELSE tdisp)
     /\ UNCHANGED <<terminal, ret, tmask, tpend, others>>
  \/ TstpHandler({"handling_SIGTSTP"})

\* While the program is stopped the user may change the settings; SIGCONT resumes it.
UserSets == /\ pc = "stopped" /\ kind \in Stoppable /\ wish' \in UserModes /\ tty' = wish'
            /\ UNCHANGED <<kind, pc, saved, ours, stopping, others>>
Sigcont == /\ kind \in Stoppable /\ pc \in {"stopped", "stopped early"}
           /\ pc' = (IF pc = "stopped" THEN "h4" ELSE "set") /\ UNCHANGED <<kind, terminal, stopping, others>>
-----------------------------------------------------------------------------
(* The daemon *)

rest == <<terminal, stopping, relay, descriptors, group>>
D(from, to) == P({"daemon_SIGHUP"}, from, to) /\ UNCHANGED <<conf, asked, rest>>

\* becomeDaemon(): a child of a child that leads the new session; any step may fail.
BecomeDaemon ==
  /\ UNCHANGED <<hup, got, slept>>
  /\ \/ D("start", "child") /\ UNCHANGED session
     \/ D("child", "leader") /\ session' = "leader"
     \/ D("leader", "open") /\ session' = "member"
     \/ (D("start", "failed") \/ D("child", "failed") \/ D("leader", "failed")) /\ UNCHANGED session

\* logOpen() and readConfigFile().
Reopen(from, to) ==
  \/ D(from, to) /\ got' = conf /\ UNCHANGED <<hup, session>>
  \/ D(from, "failed") /\ UNCHANGED <<hup, got, session>>

\* After a SIGHUP: hupReceived is cleared, and then the file is read.
Reread ==
  \/ hup /\ D("check", "reopen") /\ hup' = FALSE /\ UNCHANGED <<got, slept, session>>
  \/ Reopen("reopen", "sleep") /\ slept' = 1

\* main(): sleep() runs to its end, or a signal ends it (SighupHandler); the interval is
\* resumed unless it is over.
DaemonSIGHUP ==
  \/ BecomeDaemon
  \/ Reopen("open", "sleep") /\ slept' = 1
  \/ D("sleep", "check") /\ slept' = 0 /\ UNCHANGED <<hup, got, session>>
  \/ Reread
  \/ ~hup /\ D("check", "sleep") /\ slept' = 1 /\ UNCHANGED <<hup, got, session>>

SighupHandler ==
  /\ kind = "daemon_SIGHUP" /\ pc \notin Over /\ hup' = TRUE /\ asked' = conf
  /\ pc' = IF pc = "sleep" THEN "check" ELSE pc
  /\ UNCHANGED <<kind, conf, got, slept, session, rest>>
Edit == /\ kind = "daemon_SIGHUP" /\ conf < MaxConf /\ conf' = conf + 1
        /\ UNCHANGED <<kind, pc, hup, asked, got, slept, session, rest>>
-----------------------------------------------------------------------------
(* script and unbuffer *)

alone == <<stopping, daemon, descriptors, group>>

\* ptyFork(), the typescript, raw mode, and the exit handler; what fails before raw mode
\* leaves the terminal alone, and a failing atexit() leaves it raw.
RelayStart(k) ==
  /\ UNCHANGED <<alone, eof, typed, toShell, fromShell, written, shown, script, ready>>
  /\ \/ P(k, "start", "raw") /\ shell' = "run" /\ UNCHANGED terminal
     \/ P(k, "start", "failed") /\ UNCHANGED <<terminal, shell>>
     \/ k = {"script"} /\ P(k, "raw", "failed") /\ UNCHANGED <<terminal, shell>>
     \/ P(k, "raw", "atexit") /\ saved' = tty /\ tty' = "ours" /\ UNCHANGED <<wish, ours, shell>>
     \/ P(k, "atexit", "select") /\ UNCHANGED <<terminal, shell>>
     \/ P(k, "atexit", "killed") /\ UNCHANGED <<terminal, shell>>

\* exit(), with ttyReset().
ExitReset(k, from, to) == P(k, from, to) /\ tty' = saved /\ UNCHANGED <<wish, saved, ours, relay>>
InReady == typed > 0 \/ eof
OutReady == fromShell > 0 \/ shell = "gone"

\* read() from the master fails when the shell is gone and its output has been read.
HungUp == shell = "gone" /\ fromShell = 0

\* The loop: select() tells who has input; stdin first, then the master.
RelayLoop(k) ==
  LET step(from, to) == P(k, from, to) /\ UNCHANGED terminal IN
  /\ UNCHANGED alone
  /\ \/ /\ step("select", "in") /\ (InReady \/ OutReady)
        /\ ready' = {x \in {"stdin", "master"} : IF x = "stdin" THEN InReady ELSE OutReady}
        /\ UNCHANGED <<eof, typed, toShell, fromShell, written, shown, script, shell>>
     \/ "stdin" \notin ready /\ step("in", "out") /\ UNCHANGED relay
     \/ /\ "stdin" \in ready /\ typed > 0 /\ step("in", "out") /\ typed' = typed - 1 /\ toShell' = toShell + 1
        /\ UNCHANGED <<eof, fromShell, written, shown, script, shell, ready>>
     \/ "stdin" \in ready /\ typed = 0 /\ ExitReset(k, "in", "input ended")
     \/ "master" \notin ready /\ step("out", "select") /\ UNCHANGED relay
     \/ /\ "master" \in ready /\ fromShell > 0 /\ step("out", "select") /\ fromShell' = fromShell - 1
        /\ shown' = shown + 1 /\ script' = (IF k = {"script"} THEN script + 1 ELSE script)
        /\ UNCHANGED <<eof, typed, toShell, written, shell, ready>>
     \/ "master" \in ready /\ HungUp /\ ExitReset(k, "out", "done")

Script == RelayStart({"script"}) \/ RelayLoop({"script"})
Unbuffer == RelayStart({"unbuffer"}) \/ RelayLoop({"unbuffer"})

\* The user types, or ends the input; the shell reads, writes and ends.
Typist == /\ kind \in Relays /\ shell # "none" /\ ~eof
          /\ \/ typed + toShell < MaxBytes /\ typed' = typed + 1 /\ UNCHANGED eof
             \/ eof' = TRUE /\ UNCHANGED typed
          /\ UNCHANGED <<kind, pc, terminal, alone, toShell, fromShell, written, shown, script, shell, ready>>
Shell == /\ kind \in Relays /\ shell = "run"
         /\ \/ toShell > 0 /\ toShell' = toShell - 1 /\ UNCHANGED <<fromShell, written, shell>>
            \/ /\ written < MaxBytes /\ written' = written + 1 /\ fromShell' = fromShell + 1
               /\ UNCHANGED <<toShell, shell>>
            \/ shell' = "gone" /\ UNCHANGED <<toShell, fromShell, written>>
         /\ UNCHANGED <<kind, pc, terminal, alone, eof, typed, shown, script, ready>>
-----------------------------------------------------------------------------
(* ptyFork() *)

unused == <<terminal, stopping, daemon, relay, group>>
LowestFree(t) == CHOOSE f \in Fds : t[f] = "free" /\ \A g \in 0..f - 1 : t[g] # "free"
Opened(t, what) == [t EXCEPT ![LowestFree(t)] = what]
Closed(t, what) == [f \in Fds |-> IF t[f] = what THEN "free" ELSE t[f]]

\* ptyMasterOpen(): what fails once the master is open closes it.
PtyMasterOpen ==
  /\ UNCHANGED <<unused, cfds, cpc>>
  /\ \/ P({"pty_fork"}, "start", "grant") /\ fds' = Opened(fds, "master")
     \/ P({"pty_fork"}, "start", "failed") /\ UNCHANGED fds
     \/ P({"pty_fork"}, "grant", "fork") /\ UNCHANGED fds
     \/ P({"pty_fork"}, "grant", "failed") /\ fds' = Closed(fds, "master")

\* Mutant of PtyFork: the master stays open when fork() fails.
PtyForkLeaks ==
  \/ PtyMasterOpen
  \/ P({"pty_fork"}, "fork", "failed") /\ UNCHANGED <<unused, descriptors>>
  \/ P({"pty_fork"}, "fork", "done") /\ cfds' = fds /\ cpc' = "setsid" /\ UNCHANGED <<unused, fds>>

\* ptyFork() in the caller: the name does not fit, fork() fails, or there is a child.
PtyFork ==
  \/ PtyMasterOpen
  \/ P({"pty_fork"}, "fork", "failed") /\ fds' = Closed(fds, "master") /\ UNCHANGED <<unused, cfds, cpc>>
  \/ P({"pty_fork"}, "fork", "done") /\ cfds' = fds /\ cpc' = "setsid" /\ UNCHANGED <<unused, fds>>

\* ... and in the child: a new session, the slave, and the slave as standard input, output
\* and error; the descriptor it was opened on is closed unless it is one of these.
PtyForkChild ==
  /\ kind = "pty_fork" /\ UNCHANGED <<kind, pc, unused, fds>>
  /\ \/ cpc = "setsid" /\ cpc' = "slave" /\ cfds' = Closed(cfds, "master")
     \/ cpc = "slave" /\ cpc' = "dup2" /\ cfds' = Opened(cfds, "slave")
     \/ cpc \in {"setsid", "slave"} /\ cpc' = "failed" /\ UNCHANGED cfds
     \/ /\ cpc = "dup2" /\ cpc' = "done"
        /\ LET slaveFd == CHOOSE f \in Fds : cfds[f] = "slave" IN
           cfds' = [f \in Fds |-> IF f <= 2 THEN "slave" ELSE IF f = slaveFd THEN "free" ELSE cfds[f]]
-----------------------------------------------------------------------------
(* Process groups *)

noGroup == <<terminal, stopping, daemon, relay, descriptors>>
M(m, from, to) == member[m] = from /\ member' = [member EXCEPT ![m] = to] /\ UNCHANGED <<kind, pc, arg, orphaned, noGroup>>

\* The parent ends.  Its orphaned group gets SIGHUP and SIGCONT if a member is stopped; they
\* end pause() and the stop, and are lost on those that get there later.  The parent of
\* disc_SIGHUP was the controlling process of a terminal: the foreground group gets SIGHUP, which
\* kills a member without a handler, but not a child (d) that has left the group.
ParentEnds ==
  /\ orphaned' = TRUE /\ UNCHANGED <<arg, noGroup>>
  /\ IF kind = "disc_SIGHUP"
     THEN \E dead \in SUBSET {m \in Members : member[m] = "start"} :
            /\ \A m \in Members : member[m] = "start" /\ arg[m] = "s" => m \in dead
            /\ member' = [m \in Members |-> IF m \in dead THEN "ended" ELSE member[m]]
     ELSE member' = IF \E m \in Members : member[m] = "stopped"
                    THEN [m \in Members |-> IF member[m] \in {"stopped", "paused"} THEN "exit" ELSE member[m]]
                    ELSE member

\* The parent creates a child per argument.
ForkGroup(k, after) ==
  \/ \E m \in Members : /\ \A b \in 1..m - 1 : member[b] # "none"
                        /\ P(k, "start", "start") /\ member[m] = "none"
                        /\ member' = [member EXCEPT ![m] = "start"] /\ UNCHANGED <<arg, orphaned, noGroup>>
  \/ /\ P(k, "start", "failed") /\ (\E m \in Members : member[m] = "none") /\ ParentEnds
  \/ /\ \A m \in Members : member[m] # "none"
     /\ P(k, "start", after) /\ UNCHANGED <<group, noGroup>>

OrphanedPgrp ==
  \/ ForkGroup({"orphaned_pgrp_SIGHUP"}, "sleep")
  \/ P({"orphaned_pgrp_SIGHUP"}, "sleep", "done") /\ ParentEnds
OrphanedMember(m) ==
  /\ kind = "orphaned_pgrp_SIGHUP"
  /\ \/ arg[m] = "s" /\ M(m, "start", IF orphaned THEN "stopped late" ELSE "stopped")
     \/ arg[m] = "p" /\ M(m, "start", "paused")
     \/ M(m, "exit", "ended")
     \/ M(m, "paused", "ended")              \* alarm(60)

\* disc_SIGHUP: every process has set an alarm.
DiscSIGHUP ==
  \/ ForkGroup({"disc_SIGHUP"}, "pause")
  \/ P({"disc_SIGHUP"}, "pause", "done") /\ ParentEnds
DiscMember(m) ==
  /\ kind = "disc_SIGHUP"
  /\ \/ M(m, "start", "paused")
     \/ M(m, "paused", "ended")
\* The terminal is closed: SIGHUP kills the parent.
Disconnect == /\ kind = "disc_SIGHUP" /\ pc \notin Over /\ pc' = "killed" /\ ParentEnds /\ UNCHANGED kind
-----------------------------------------------------------------------------
Main == \/ TestTty \/ NoEcho \/ TstpHandler({"cbreak"}) \/ HandlingSIGTSTP \/ DaemonSIGHUP
        \/ Script \/ Unbuffer \/ PtyFork \/ PtyForkChild \/ OrphanedPgrp \/ DiscSIGHUP
        \/ \E m \in Members : OrphanedMember(m) \/ DiscMember(m)
Next == \/ Main \/ Handler \/ Kill \/ Sigtstp \/ SigtstpBlocked \/ UserSets \/ Sigcont
        \/ SighupHandler \/ Edit \/ Typist \/ Shell \/ Disconnect
Spec == Init /\ [][Next]_vars /\ WF_vars(Main) /\ \A m \in Members : WF_vars(OrphanedMember(m) \/ DiscMember(m))
-----------------------------------------------------------------------------
(* Properties *)

\* Every variable has its type; the daemon that runs is in a session that it does not lead.
TypeOK ==
  /\ kind \in Kinds /\ tty \in UserModes \cup {"ours"} /\ saved \in UserModes /\ wish \in UserModes
  /\ {conf, asked, got} \subseteq 0..MaxConf /\ {typed, toShell, fromShell, shown, script} \subseteq 0..MaxBytes
  /\ kind = "daemon_SIGHUP" /\ pc \in {"sleep", "check", "reopen"} => session = "member"

\* The terminal is as the user wants it whenever the user has it: when a program has ended
\* through its own code or a handler, and while it is stopped by its SIGTSTP handler; and it
\* is as the program wants it while the program reads.  A change made while the program
\* was stopped survives, unless a signal ends the program before it has fetched it.
TtyRestored ==
  /\ kind \in Ttys \cup Relays \cup {"no_echo"} /\ pc \in {"done", "input ended"} => tty = wish
  /\ kind \in Stoppable /\ pc = "stopped" => tty = wish
  /\ pc = "overwritten" => tty \in UserModes
  /\ kind \in Ttys /\ pc = "loop" => tty = "ours"
  /\ kind \in Stoppable /\ pc = "loop" => ~tmask /\ tdisp \in {"handler", "ign"}

\* script and unbuffer end with the shell only when everything it wrote has been shown; the
\* typescript holds what was shown.
NothingUnseen ==
  /\ kind \in Relays /\ pc = "done" => shown = written
  /\ kind = "script" /\ pc # "failed" => script = shown

\* ptyFork() leaks no descriptor on any error path; its caller gets the master and nothing else,
\* and the child the slave as its three standard descriptors and nothing else, whichever of
\* these were open before.
PtyDescriptors ==
  kind = "pty_fork" =>
    /\ pc = "failed" => \A f \in Fds : fds[f] \in {"free", "tty"}
    /\ pc = "done" => \E f \in Fds : fds[f] = "master" /\ \A g \in Fds \ {f} : fds[g] \in {"free", "tty"}
    /\ cpc = "done" => \A f \in Fds : IF f <= 2 THEN cfds[f] = "slave" ELSE cfds[f] = "free"

=============================================================================
