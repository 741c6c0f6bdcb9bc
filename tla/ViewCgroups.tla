---------------------------- MODULE ViewCgroups -----------------------------
(***************************************************************************)
(* src/cgroups/view_v2_cgroups.go: walk a cgroup v2 hierarchy and show for  *)
(* each cgroup its type, controllers, owner, member processes and threads,  *)
(* while cgroups are created and removed and threads move and end.  A path  *)
(* is a sequence of names.  The thread whose TID is its PID leads a process. *)
(***************************************************************************)
EXTENDS Naturals, Sequences, SequencesExt

CONSTANTS Paths,       \* paths below the command-line argument, itself <<>>
          Tids,        \* threads
          Tgid,        \* thread -> its process
          Realtime,    \* threads under a realtime policy
          Type,        \* path -> type of the cgroup
          Gone,        \* where a thread that has ended is
          Options      \* sets of the options in effect: "pids", "tids", "owner"

VARIABLES pc, opts,
          todo,        \* walk: the paths still to visit, deepest directory first
          cur, tids,   \* the cgroup shown now, and its threads still to look up
          shown,       \* the cgroups displayed, each with what was displayed
          dirs, at     \* the kernel: existing cgroups; thread -> cgroup
kvars == <<dirs, at>>
vars == <<pc, opts, todo, cur, tids, shown, kvars>>

Kids(p) == {q \in dirs : Len(q) = Len(p) + 1 /\ SubSeq(q, 1, Len(p)) = p}
Threads(p) == {t \in Tids : at[t] = p}
Procs(p) == {t \in Threads(p) : Tgid[t] = t}

\* Numbers and names stand for the entries of a directory in sorted order.
Sorted(S) == SetToSortSeq(S, LAMBDA p, q : p[Len(p)] < q[Len(q)])
SortedInts(S) == SetToSortSeq(S, <)

Init ==
  /\ pc = "walk" /\ opts \in Options /\ todo = <<<<>>>> /\ cur = <<>> /\ tids = <<>> /\ shown = <<>>
  /\ dirs \in {D \in SUBSET Paths : <<>> \in D /\ \A p \in D : p = <<>> \/ Front(p) \in D}
  /\ at \in [Tids -> dirs]

Fail == pc' = "failed" /\ UNCHANGED <<opts, todo, cur, tids, shown, kvars>>

\* filepath.Walk() finds the directory and reads its names.
Visit ==
  /\ pc = "walk" /\ todo # <<>> /\ todo[1] \in dirs
  /\ cur' = todo[1] /\ todo' = Sorted(Kids(todo[1])) \o Tail(todo)
  /\ pc' = "type" /\ UNCHANGED <<opts, tids, shown, kvars>>

\* Mutant of VisitGone: the error is ignored, and so is the rest of the list.
VisitGoneStop ==
  /\ pc = "walk" /\ todo # <<>> /\ todo[1] \notin dirs
  /\ todo' = <<>> /\ UNCHANGED <<pc, opts, cur, tids, shown, kvars>>

\* walkFn() returns the error of a directory that is gone.
VisitGone == pc = "walk" /\ todo # <<>> /\ todo[1] \notin dirs /\ Fail

\* displayCgroup(): a cgroup without a cgroup.type is taken for the root.
ReadType ==
  /\ pc = "type" /\ pc' = "controllers"
  /\ shown' = Append(shown, [path |-> cur, type |-> IF cur \in dirs THEN Type[cur] ELSE "root",
                             pids |-> <<>>, tids |-> <<>>])
  /\ UNCHANGED <<opts, todo, cur, tids, kvars>>

Finish == pc = "walk" /\ todo = <<>> /\ pc' = "done" /\ UNCHANGED <<opts, todo, cur, tids, shown, kvars>>

Proceed(from, to) == pc = from /\ cur \in dirs /\ pc' = to /\ UNCHANGED <<opts, todo, cur, tids, kvars>>
Put(field, v) == shown' = [shown EXCEPT ![Len(shown)][field] = v]

\* displayControllers() and displayCgroupOwnership(): the files must be there.
Controllers == Proceed("controllers", IF "owner" \in opts THEN "owner" ELSE "procs") /\ UNCHANGED shown
Owner == Proceed("owner", "procs") /\ UNCHANGED shown

\* displayProcesses(): not for a threaded cgroup.
Processes ==
  /\ Proceed("procs", "threads")
  /\ IF "pids" \in opts /\ shown[Len(shown)].type # "threaded"
     THEN Put("pids", SortedInts(Procs(cur))) ELSE UNCHANGED shown

\* displayThreads() reads cgroup.threads ...
ReadThreads ==
  /\ pc = "threads" /\ "tids" \in opts /\ cur \in dirs
  /\ tids' = SortedInts(Threads(cur)) /\ pc' = "thread"
  /\ UNCHANGED <<opts, todo, cur, shown, kvars>>

SkipThreads == pc = "threads" /\ "tids" \notin opts /\ pc' = "walk" /\ UNCHANGED <<opts, todo, cur, tids, shown, kvars>>

\* ... and asks for the process and the policy of each thread.
Lookup ==
  /\ pc = "thread" /\ tids # <<>> /\ at[tids[1]] # Gone
  /\ Put("tids", Append(shown[Len(shown)].tids, <<tids[1], Tgid[tids[1]], tids[1] \in Realtime>>))
  /\ tids' = Tail(tids) /\ UNCHANGED <<pc, opts, todo, cur, kvars>>

ThreadsDone == pc = "thread" /\ tids = <<>> /\ pc' = "walk" /\ UNCHANGED <<opts, todo, cur, tids, shown, kvars>>

\* A file of the cgroup, or a thread, is gone: the walk ends.
FileGone == pc \in {"controllers", "owner", "procs"} /\ cur \notin dirs /\ Fail
ThreadsGone == pc = "threads" /\ "tids" \in opts /\ cur \notin dirs /\ Fail
ThreadGone == pc = "thread" /\ tids # <<>> /\ at[tids[1]] = Gone /\ Fail

-----------------------------------------------------------------------------
(* The kernel and other processes *)
Busy == pc \notin {"done", "failed"}

Rmdir(p) ==
  /\ Busy /\ p \in dirs \ {<<>>} /\ Kids(p) = {} /\ Threads(p) = {}
  /\ dirs' = dirs \ {p} /\ UNCHANGED <<pc, opts, todo, cur, tids, shown, at>>

Move(t, p) ==
  /\ Busy /\ at[t] # Gone /\ p \in dirs \cup {Gone} /\ p # at[t]
  /\ at' = [at EXCEPT ![t] = p] /\ UNCHANGED <<pc, opts, todo, cur, tids, shown, dirs>>

Ended == ~Busy /\ UNCHANGED vars

Next ==
  \/ Visit \/ VisitGone \/ ReadType \/ Finish \/ Controllers \/ Owner \/ Processes \/ ReadThreads \/ SkipThreads
  \/ Lookup \/ ThreadsDone \/ FileGone \/ ThreadsGone \/ ThreadGone \/ Ended
  \/ \E p \in Paths : Rmdir(p)
  \/ \E t \in Tids : \E p \in Paths \cup {Gone} : Move(t, p)

Spec == Init /\ [][Next]_vars

-----------------------------------------------------------------------------
Displayed == {shown[i].path : i \in DOMAIN shown}

\* The values of the variables; a cgroup that is said to be the root is the
\* topmost one, or its removal has ended the walk.
TypeOK ==
  /\ opts \in Options /\ dirs \subseteq Paths /\ cur \in Paths
  /\ \A i \in DOMAIN shown : shown[i].path \in Paths /\
       (shown[i].type # Type[shown[i].path] => i = Len(shown) /\ pc # "done" /\ pc # "walk")

\* The cgroups appear in the order of the tree: each directly under its parent
\* or after the subtree of a sibling with a smaller name, and none twice.
TreeOrder ==
  \A i \in 2..Len(shown) :
    LET p == shown[i - 1].path  q == shown[i].path IN
      /\ q # <<>> /\ Len(q) <= Len(p) + 1 /\ SubSeq(p, 1, Len(q) - 1) = Front(q)
      /\ Len(q) <= Len(p) => p[Len(q)] < q[Len(q)]

\* After success every cgroup that still exists was displayed, although others
\* were removed during the walk.
Complete == pc = "done" => dirs \subseteq Displayed

\* A thread appears once in the listing of one cgroup and in ascending order,
\* with the process that it belongs to.
ThreadsSorted ==
  \A i \in DOMAIN shown : \A j, k \in DOMAIN shown[i].tids :
    /\ j < k => shown[i].tids[j][1] < shown[i].tids[k][1]
    /\ shown[i].tids[j][2] = Tgid[shown[i].tids[j][1]]
=============================================================================
