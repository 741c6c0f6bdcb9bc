--------------------------- MODULE MCInotifyDtree ---------------------------
(***************************************************************************)
(* inotify_dtree on small trees: one root "r", or two, and a directory "o" *)
(* that is not monitored.  A behaviour follows one of several scenarios,   *)
(* which differ in what the other processes do, and when.                  *)
(***************************************************************************)
EXTENDS InotifyDtree, TLC

CONSTANTS i0, i1, i2, i3, i4, i5, k1, k2

VARIABLE scenario
mcvars == <<vars, scenario>>

TwoRoots == <<<<"r">>, <<"s">>>>
OneRoot == <<<<"r">>>>
TopAndOut == <<>> :> i0 @@ <<"r">> :> i1 @@ <<"o">> :> i2
RootWithSub == TopAndOut @@ <<"r", "a">> :> i3
TwoRootTree == TopAndOut @@ <<"s">> :> i3

ProcSymmetry == Permutations(Procs)
NoPaths == {}

Never == [op \in {"mkdir", "rmdir", "rmroot", "rename", "mvroot", "unmount"} |-> "never"]
Anything == [op \in DOMAIN Never |-> "always"]

Follows(s, A) == scenario = s /\ A /\ UNCHANGED scenario
-----------------------------------------------------------------------------
(* Anything at any time, without a user at the keyboard and with one. *)

Typed == INSTANCE InotifyDtree WITH
  RootSeq <- OneRoot, InitTree <- RootWithSub, QMax <- 4, MaxOps <- 2, EarlyAlarm <- TRUE,
  Commands <- {"a", "z", "0", "q"}, CmdPaths <- {<<"r">>, <<"r", "a">>}

AnythingInit == (scenario = "anything" /\ Init) \/ (scenario = "commands" /\ Typed!Init)
AnythingNext == Follows("anything", Next) \/ Follows("commands", Typed!Next)
AnythingSpec == AnythingInit /\ [][AnythingNext]_mcvars
-----------------------------------------------------------------------------
(* What the program can keep track of: directories come at any time and go at *)
(* any time but during a traversal, with a long queue and with one that       *)
(* overflows; renames wait until the program has caught up.                   *)

CreateDelete == [Never EXCEPT !["mkdir"] = "always", !["rmdir"] = "noWalk"]
PacedRename == [Never EXCEPT !["mkdir"] = "always", !["rename"] = "idle"]

Created == INSTANCE InotifyDtree WITH When <- CreateDelete, InitTree <- TopAndOut, MaxOps <- 5, QMax <- 10
Lossy == INSTANCE InotifyDtree WITH When <- CreateDelete, InitTree <- TopAndOut, MaxOps <- 5, QMax <- 2
Renamed == INSTANCE InotifyDtree WITH When <- PacedRename, InitTree <- RootWithSub, MaxOps <- 4, QMax <- 10

TrackInit ==
  \/ scenario = "create_delete" /\ Created!Init
  \/ scenario = "overflow" /\ Lossy!Init
  \/ scenario = "paced_rename" /\ Renamed!Init

TrackNext ==
  Follows("create_delete", Created!Next) \/ Follows("overflow", Lossy!Next) \/ Follows("paced_rename", Renamed!Next)

\* As FairSpec of InotifyDtree: the program and the system calls of the other
\* processes make progress.
TrackSpec ==
  /\ TrackInit /\ [][TrackNext]_mcvars
  /\ WF_mcvars(Follows("create_delete", Created!Program)) /\ WF_mcvars(Follows("overflow", Lossy!Program))
  /\ WF_mcvars(Follows("paced_rename", Renamed!Program))
  /\ \A k \in Procs : WF_mcvars(Notify(k) /\ UNCHANGED scenario)

\* The program comes back from every read() on the inotify descriptor, so that
\* commands are served, and a MOVED_FROM at the end of the buffer is settled by the
\* second read() or by its timeout.
Responsive == HangingSettled /\ CommandsServed
-----------------------------------------------------------------------------
(* One user command while a directory is created. *)

MkdirOnly == [Never EXCEPT !["mkdir"] = "always"]
CommandSpec ==
  /\ scenario = "command" /\ Init /\ [][Follows("command", Next)]_mcvars
  /\ WF_mcvars(Follows("command", Program)) /\ \A k \in Procs : WF_mcvars(Follows("command", Notify(k)))
=============================================================================
