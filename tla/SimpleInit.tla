----------------------------- MODULE SimpleInit -----------------------------
(***************************************************************************)
(* src/namespaces/simple_init.c: the init program of a PID namespace,      *)
(* which runs commands one at a time in the foreground of its terminal and *)
(* reaps all processes of the namespace in its SIGCHLD handler.  Commands  *)
(* may leave processes behind; init adopts them.                           *)
(***************************************************************************)
EXTENDS Naturals, FiniteSets

CONSTANTS Procs,       \* processes that may be created in the namespace
          Me,          \* init itself, as a process group
          Orphans      \* TRUE: commands may leave processes behind

VARIABLES ipc,         \* where init is
          cur,         \* the child that it has created last
          state,       \* process -> its state
          fg,          \* foreground process group of the terminal
          sigchld,     \* SIGCHLD is pending for init
          inHandler,   \* child_handler() is running
          mounted      \* the procfs that -p asks for

ivars == <<ipc, cur, mounted>>
vars == <<ivars, state, fg, sigchld, inHandler>>

Zombies == {p \in Procs : state[p] = "zombie"}
Living == {"forked", "running", "stopped"}
Become(p, s) == state' = [state EXCEPT ![p] = s]

Init ==
  /\ ipc = "start" /\ cur = Me /\ mounted = FALSE
  /\ state = [p \in Procs |-> "none"]
  /\ fg = "parent" /\ sigchld = FALSE /\ inHandler = FALSE

\* setpgid(), tcsetpgrp() and, with -p, the mount of a procfs.
Start ==
  /\ ipc = "start"
  /\ fg' = Me /\ mounted' \in BOOLEAN /\ ipc' = "prompt"
  /\ UNCHANGED <<cur, state, sigchld, inHandler>>

\* A command is read and a child forked.
Command ==
  /\ ipc = "prompt" /\ ~inHandler
  /\ \E p \in Procs :
       /\ state[p] = "none"
       /\ Become(p, "forked") /\ cur' = p
  /\ ipc' = "pause"
  /\ UNCHANGED <<fg, sigchld, inHandler, mounted>>

Pause ==
  /\ ipc = "pause" /\ ~inHandler
  /\ ipc' = "paused" /\ UNCHANGED <<cur, mounted, state, fg, sigchld, inHandler>>

\* Mutant of Foreground: the terminal is not taken back.
ForegroundNot ==
  /\ ipc = "foreground" /\ ~inHandler
  /\ ipc' = "prompt" /\ UNCHANGED <<fg, cur, mounted, state, sigchld, inHandler>>

\* pause() has returned: init takes the terminal back.
Foreground ==
  /\ ipc = "foreground" /\ ~inHandler
  /\ fg' = Me /\ ipc' = "prompt" /\ UNCHANGED <<cur, mounted, state, sigchld, inHandler>>

\* Mutant of Exit: the procfs stays mounted.
ExitMounted ==
  /\ ipc = "prompt" /\ ~inHandler /\ ipc' = "exited"
  /\ state' = [p \in Procs |-> IF state[p] = "none" THEN "none" ELSE "reaped"]
  /\ UNCHANGED <<cur, fg, mounted, sigchld, inHandler>>

\* End of file, or fork() fails: the procfs is unmounted, and with init the
\* kernel kills the rest of the namespace.
Exit ==
  /\ ipc = "prompt" /\ ~inHandler
  /\ mounted' = FALSE /\ ipc' = "exited"
  /\ state' = [p \in Procs |-> IF state[p] = "none" THEN "none" ELSE "reaped"]
  /\ UNCHANGED <<cur, fg, sigchld, inHandler>>

\* SIGCHLD is delivered; pause() will return when the handler does.
Deliver ==
  /\ sigchld /\ ~inHandler /\ ipc \notin {"start", "exited"}
  /\ inHandler' = TRUE /\ sigchld' = FALSE
  /\ ipc' = IF ipc = "paused" THEN "foreground" ELSE ipc
  /\ UNCHANGED <<cur, mounted, state, fg>>

\* Mutant of ChildHandler: one waitpid() for each signal.
ChildHandlerOnce ==
  /\ inHandler /\ inHandler' = FALSE
  /\ IF Zombies = {} THEN UNCHANGED state ELSE \E p \in Zombies : Become(p, "reaped")
  /\ UNCHANGED <<ivars, fg, sigchld>>

\* One waitpid() of child_handler(); it ends when there is nothing to report.
ChildHandler ==
  /\ inHandler
  /\ \/ \E p \in Zombies : Become(p, "reaped") /\ UNCHANGED inHandler
     \/ Zombies = {} /\ inHandler' = FALSE /\ UNCHANGED state
  /\ UNCHANGED <<ivars, fg, sigchld>>

-----------------------------------------------------------------------------
(* Processes of the namespace *)

\* Termination: also when the expansion of the command or execvp() fails.
Die(p) ==
  /\ state[p] \in Living /\ ipc # "exited"
  /\ Become(p, "zombie") /\ sigchld' = TRUE
  /\ UNCHANGED <<ivars, fg, inHandler>>

\* The child takes the terminal and executes the command.
Exec(p) ==
  /\ state[p] = "forked"
  /\ Become(p, "running") /\ fg' = p
  /\ UNCHANGED <<ivars, sigchld, inHandler>>

\* The user stops the foreground job; SA_NOCLDSTOP: no SIGCHLD.
Stop(p) ==
  /\ state[p] = "running" /\ fg = p
  /\ Become(p, "stopped") /\ UNCHANGED <<ivars, fg, sigchld, inHandler>>

\* A command leaves a process of its own behind.
Orphan(p) ==
  /\ Orphans /\ state[p] = "none" /\ \E q \in Procs : state[q] = "running"
  /\ Become(p, "running") /\ UNCHANGED <<ivars, fg, sigchld, inHandler>>

-----------------------------------------------------------------------------
InitStep == Start \/ Pause \/ Foreground \/ Deliver \/ ChildHandler

Next ==
  \/ InitStep \/ Command \/ Exit
  \/ \E p \in Procs : Die(p) \/ Exec(p) \/ Stop(p) \/ Orphan(p)

Spec == Init /\ [][Next]_vars

-----------------------------------------------------------------------------
\* The values of the variables; the procfs is mounted only while init runs.
TypeOK ==
  /\ ipc \in {"start", "prompt", "pause", "paused", "foreground", "exited"}
  /\ state \in [Procs -> {"none", "zombie", "reaped"} \cup Living]
  /\ cur \in Procs \cup {Me} /\ fg \in Procs \cup {Me, "parent"}
  /\ sigchld \in BOOLEAN /\ inHandler \in BOOLEAN
  /\ mounted \in BOOLEAN /\ (mounted => ipc \notin {"start", "exited"})

\* "ensure that the 'init' program is the foreground process group": init does
\* not read a command while another process group has the terminal.  True only as
\* long as no other process of the namespace can end pause().
PromptInForeground == ipc = "prompt" => fg = Me
=============================================================================
