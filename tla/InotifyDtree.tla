---------------------------- MODULE InotifyDtree ----------------------------
(***************************************************************************)
(* src/inotify/inotify_dtree.c: a cache of the directories below some root *)
(* directories, kept up to date from inotify events.  The tree and inotify *)
(* are module InotifyKernel.  Every system call that looks at the tree is  *)
(* a step of its own, so that other processes can change the tree between  *)
(* any two of them.                                                        *)
(***************************************************************************)
EXTENDS InotifyKernel

CONSTANTS RootSeq,    \* the paths on the command line, in order
          BufMax,     \* events that fit the buffer of the first read() (option -b)
          MaxOps,     \* bound on the changes other processes make
          When,       \* operation -> when processes do it: see May
          Commands,   \* interactive commands the user gives
          CmdPaths,   \* their path arguments
          EarlyAlarm, \* may SIGALRM arrive before the read() it is to interrupt?
          InitTree    \* the tree before the program starts

\* The buffer takes at least one event: read() fails with EINVAL otherwise.
ASSUME BufMaxAssumption == BufMax \in Nat \ {0}

\* A path is a sequence of names, and the directory above it exists.
ClosedTree(paths) ==
  paths \subseteq Seq(STRING) /\ \A p \in paths : \A n \in 0..Len(p) : SubSeq(p, 1, n) \in paths
ASSUME InitTreeAssumption == IsFiniteSet(DOMAIN InitTree) /\ ClosedTree(DOMAIN InitTree) /\ Names \subseteq STRING

VARIABLES cache,      \* wlCache: the used slots, [wd, path]
          roots,      \* the entries of rootDirPaths that are not NULL
          buf,        \* events read and not yet processed
          firstTry,
          walk,       \* the nftw() in progress: what is left to do, in order
          rootsTodo,  \* root paths reinitialize() has still to walk
          zap,        \* [path, by]: the zapSubtree() in progress and its caller
          thenRead,   \* rfds says the inotify descriptor is readable
          pc,
          ops         \* changes made so far

loopVars == <<roots, buf, firstTry>>            \* of main() and processInotifyEvents()
walkVars == <<walk, rootsTodo>>
progVars == <<cache, loopVars, walkVars, zap, thenRead, pc>>
vars == <<kernelVars, progVars, ops>>

-----------------------------------------------------------------------------
(* The watch list cache *)

CachedWds == {e.wd : e \in cache}
CachedPaths == {e.path : e \in cache}

\* findWatch(): the path cached for a watch descriptor that is in the cache.
CachedPath(wd) == (CHOOSE e \in cache : e.wd = wd).path

WithoutWd(wd) == {e \in cache : e.wd # wd}

\* Mutant of Rewritten: only the renamed directory itself is fixed up.
RewrittenExact(old, new) ==
  {[wd |-> e.wd, path |-> IF old = e.path THEN new ELSE e.path] : e \in cache}

\* rewriteCachedPaths()
Rewritten(old, new) ==
  {[wd |-> e.wd, path |-> IF Below(old, e.path) THEN Moved(old, new, e.path) ELSE e.path] : e \in cache}

NoZap == [path |-> <<>>, by |-> "event"]

\* Back to the loop of processInotifyEvents() or to that of main().
Resume ==
  /\ pc' = IF buf # <<>> THEN "process" ELSE IF thenRead THEN "read" ELSE "select"
  /\ thenRead' = FALSE

-----------------------------------------------------------------------------
(* nftw() with traverseTree() *)

Visit(dir, p) == [do |-> "visit", dir |-> dir, path |-> p]
List(i, p) == [do |-> "list", dir |-> i, path |-> p]
Close(i) == [do |-> "close", dir |-> i, path |-> <<>>]
NoDir == "none"                      \* the top of a walk is found by its path

OpenDirs == {w.dir : w \in {x \in Range(walk) : x.do \in {"list", "close"}}}

\* The directory the walk finds for a visit: by name in the open parent.
Found(w) ==
  IF w.dir = NoDir
  THEN {tree[x] : x \in {y \in DOMAIN tree : y = w.path}}
  ELSE {tree[x] : x \in {y \in DOMAIN tree : y # <<>> /\ Name(y) = Name(w.path) /\ tree[Parent(y)] = w.dir}}

\* Mutant of TraverseTree: no findWatch() before the entry is added.
TraverseTreeUnchecked(p) ==
  IF ~Dir(p)
  THEN UNCHANGED <<watch, nextWd, cache>>
  ELSE /\ AddWatch(tree[p], p \in roots)
       /\ cache' = cache \cup {[wd |-> WatchedWd(tree[p]), path |-> p]}

\* traverseTree(): watch the directory now at path p and cache the watch.
TraverseTree(p) ==
  IF ~Dir(p)
  THEN UNCHANGED <<watch, nextWd, cache>>
  ELSE /\ AddWatch(tree[p], p \in roots)
       /\ cache' = IF WatchedWd(tree[p]) \in CachedWds THEN cache
                   ELSE cache \cup {[wd |-> WatchedWd(tree[p]), path |-> p]}

\* A directory is opened, watched, and then listed.
WalkVisit ==
  /\ pc = "walk" /\ walk # <<>> /\ Head(walk).do = "visit"
  /\ \E i \in Found(Head(walk)) :
       /\ TraverseTree(Head(walk).path)
       /\ walk' = <<List(i, Head(walk).path)>> \o Tail(walk)
  /\ UNCHANGED <<tree, queue, inflight, orphans, loopVars, rootsTodo, zap, thenRead, pc, ops>>

\* The directory is gone.  If it was gone before nftw() looked, its siblings are
\* visited; if it went between stat and open, nftw() fails and the walk ends.
WalkGone ==
  /\ pc = "walk" /\ walk # <<>> /\ Head(walk).do = "visit"
  /\ Found(Head(walk)) = {}
  /\ \/ walk' = Tail(walk)
     \/ walk' = SelectSeq(Tail(walk), LAMBDA w : w.do = "close")
  /\ UNCHANGED <<kernelVars, cache, loopVars, rootsTodo, zap, thenRead, pc, ops>>

WalkList ==
  /\ pc = "walk" /\ walk # <<>> /\ Head(walk).do = "list"
  /\ Head(walk).dir \notin Locked
  /\ LET i == Head(walk).dir
         names == {Name(x) : x \in {y \in DOMAIN tree : y # <<>> /\ tree[Parent(y)] = i}}
     IN \E s \in Orders(names) :
          walk' = [n \in DOMAIN s |-> Visit(i, Append(Head(walk).path, s[n]))] \o <<Close(i)>> \o Tail(walk)
  /\ UNCHANGED <<kernelVars, cache, loopVars, rootsTodo, zap, thenRead, pc, ops>>

\* closedir(); a directory removed in the meantime ceases to exist now.
WalkClose ==
  /\ pc = "walk" /\ walk # <<>> /\ Head(walk).do = "close"
  /\ walk' = Tail(walk)
  /\ IF Head(walk).dir \in orphans
     THEN /\ orphans' = orphans \ {Head(walk).dir}
          /\ queue' = Evicted(queue, Head(walk).dir, "DELETE_SELF")
          /\ watch' = WithoutWds(WdsOf(Head(walk).dir))
     ELSE UNCHANGED <<orphans, queue, watch>>
  /\ UNCHANGED <<tree, nextWd, inflight, cache, loopVars, rootsTodo, zap, thenRead, pc, ops>>

\* reinitialize() walks the next root.
WalkNextRoot ==
  /\ pc = "walk" /\ walk = <<>> /\ rootsTodo # <<>>
  /\ walk' = <<Visit(NoDir, Head(rootsTodo))>>
  /\ rootsTodo' = Tail(rootsTodo)
  /\ UNCHANGED <<kernelVars, cache, loopVars, zap, thenRead, pc, ops>>

\* Mutant of WalkDone: the loop condition of processInotifyEvents() is lost.
WalkDoneUntested ==
  /\ pc = "walk" /\ walk = <<>> /\ rootsTodo = <<>>
  /\ pc' = "process" /\ thenRead' = FALSE
  /\ UNCHANGED <<kernelVars, cache, loopVars, walkVars, zap, ops>>

WalkDone ==
  /\ pc = "walk" /\ walk = <<>> /\ rootsTodo = <<>>
  /\ Resume
  /\ UNCHANGED <<kernelVars, cache, loopVars, walkVars, zap, ops>>

-----------------------------------------------------------------------------
(* processNextInotifyEvent() *)

\* Mutant of Reinitialize: freeCache() is forgotten.
ReinitializeKeepingCache ==
  /\ NewInstance
  /\ buf' = <<>> /\ firstTry' = TRUE
  /\ rootsTodo' = SelectSeq(RootSeq, LAMBDA r : r \in roots')
  /\ pc' = "walk"
  /\ zap' = NoZap
  /\ UNCHANGED <<tree, inflight, orphans, walk, thenRead, cache>>

\* reinitialize(): a new inotify descriptor and an empty cache; the events left
\* in the read buffer are discarded and every root is walked again.
Reinitialize ==
  /\ NewInstance
  /\ cache' = {} /\ buf' = <<>> /\ firstTry' = TRUE
  /\ rootsTodo' = SelectSeq(RootSeq, LAMBDA r : r \in roots')
  /\ pc' = "walk"
  /\ zap' = NoZap
  /\ UNCHANGED <<tree, inflight, orphans, walk, thenRead>>

\* Go on with the events of the buffer, n of which have been dealt with.
Consume(n) ==
  /\ buf' = SubSeq(buf, n + 1, Len(buf))
  /\ firstTry' = TRUE
  /\ pc' = IF Len(buf) > n THEN "process" ELSE "select"
  /\ UNCHANGED <<walkVars, zap, thenRead>>

\* Start a walk at p before going on with the rest of the buffer.
ConsumeAndWatch(p) ==
  /\ buf' = Tail(buf) /\ firstTry' = TRUE
  /\ walk' = <<Visit(NoDir, p)>> /\ pc' = "walk"
  /\ UNCHANGED <<rootsTodo, zap, thenRead>>

Ev == Head(buf)
EvDir == CachedPath(Ev.wd)                 \* wlCache[evCacheSlot].path
EvPath == Append(EvDir, Ev.name)           \* fullPath
Processing(types) == pc = "process" /\ Ev.type \in types
Known == Ev.wd \in CachedWds

\* findWatchChecked() fails: the event is about a watch the cache lacks.
EvUnknown ==
  /\ pc = "process" /\ Ev.type \notin {"OVERFLOW", "IGNORED"} /\ ~Known
  /\ UNCHANGED <<roots, ops>>
  /\ Reinitialize

\* Mutant of EvOverflow: the overflow is only logged.
EvOverflowLogged ==
  /\ Processing({"OVERFLOW"})
  /\ Consume(1)
  /\ UNCHANGED <<kernelVars, cache, roots, ops>>

EvOverflow ==
  /\ Processing({"OVERFLOW"})
  /\ UNCHANGED <<roots, ops>>
  /\ Reinitialize

EvIgnored ==
  /\ Processing({"IGNORED"})
  /\ Consume(1)
  /\ UNCHANGED <<kernelVars, cache, roots, ops>>

EvCreate ==
  /\ Processing({"CREATE", "MOVED_TO"}) /\ Known
  /\ IF EvPath \in CachedPaths THEN Consume(1) ELSE ConsumeAndWatch(EvPath)
  /\ UNCHANGED <<kernelVars, cache, roots, ops>>

\* zapRootDirPath(), which ends the program when no root is left.
Exit == pc' = "exit" /\ UNCHANGED <<kernelVars, cache, buf, firstTry, walkVars, zap, thenRead>>

EvDeleteSelf ==
  /\ Processing({"DELETE_SELF"}) /\ Known
  /\ roots' = roots \ {EvDir}
  /\ IF roots' = {} THEN Exit
     ELSE Consume(1) /\ cache' = WithoutWd(Ev.wd) /\ UNCHANGED kernelVars
  /\ UNCHANGED ops

EvUnmount ==
  /\ Processing({"UNMOUNT"}) /\ Known
  /\ Consume(1)
  /\ cache' = WithoutWd(Ev.wd)
  /\ UNCHANGED <<kernelVars, roots, ops>>

\* The event is dealt with by zapSubtree(p).
ConsumeAndZap(p) ==
  /\ buf' = Tail(buf) /\ firstTry' = TRUE
  /\ zap' = [path |-> p, by |-> "event"] /\ pc' = "zap"
  /\ UNCHANGED <<kernelVars, cache, walkVars, thenRead>>

EvMoveSelf ==
  /\ Processing({"MOVE_SELF"}) /\ Known
  /\ roots' = roots \ {EvDir}
  /\ CASE EvDir \notin roots -> Consume(1) /\ UNCHANGED <<kernelVars, cache>>
       [] roots' = {} -> Exit
       [] OTHER -> ConsumeAndZap(EvDir)
  /\ UNCHANGED ops

HasNext == Len(buf) > 1
IsPair == HasNext /\ buf[2].type = "MOVED_TO" /\ buf[2].cookie = Ev.cookie

\* MOVED_FROM followed by its MOVED_TO: a rename inside the monitored trees.
EvRename ==
  /\ Processing({"MOVED_FROM"}) /\ Known /\ IsPair
  /\ UNCHANGED <<roots, ops>>
  /\ IF buf[2].wd \notin CachedWds THEN Reinitialize
     ELSE /\ cache' = Rewritten(EvPath, Append(CachedPath(buf[2].wd), buf[2].name))
          /\ Consume(2)
          /\ UNCHANGED kernelVars

\* MOVED_FROM on its own: a rename out of the monitored trees.
EvMovedOut ==
  /\ Processing({"MOVED_FROM"}) /\ Known /\ ~IsPair
  /\ HasNext \/ ~firstTry
  /\ UNCHANGED <<roots, ops>>
  /\ ConsumeAndZap(EvPath)

\* Mutant of EvHanging: firstTry is not cleared.
EvHangingAgain ==
  /\ Processing({"MOVED_FROM"}) /\ Known /\ ~HasNext /\ firstTry
  /\ pc' = "reread"
  /\ UNCHANGED <<kernelVars, cache, loopVars, walkVars, zap, thenRead, ops>>

\* MOVED_FROM at the end of the buffer: read once more, for at most 2 ms.
EvHanging ==
  /\ Processing({"MOVED_FROM"}) /\ Known /\ ~HasNext /\ firstTry
  /\ pc' = "reread" /\ firstTry' = FALSE
  /\ UNCHANGED <<kernelVars, cache, roots, buf, walkVars, zap, thenRead, ops>>

-----------------------------------------------------------------------------
(* zapSubtree() *)

\* The cache slots of the subtree that have not been visited yet.
Zapped == {e \in cache : Below(zap.path, e.path)}

\* Mutant of ZapSlot: the cache entry goes but the watch stays.
ZapSlotOnly ==
  /\ pc = "zap"
  /\ \E e \in Zapped : e.wd \in DOMAIN watch /\ cache' = cache \ {e}
  /\ UNCHANGED <<kernelVars, loopVars, walkVars, zap, thenRead, pc, ops>>

\* inotify_rm_watch() and markCacheSlotEmpty() for one slot.
ZapSlot ==
  /\ pc = "zap"
  /\ \E e \in Zapped : e.wd \in DOMAIN watch /\ RmWatch(e.wd) /\ cache' = cache \ {e}
  /\ UNCHANGED <<tree, nextWd, inflight, orphans, loopVars, walkVars, zap, thenRead, pc, ops>>

\* The caller goes on: command `a' walks the subtree again.
ZapReturn ==
  /\ IF zap.by = "a"
     THEN walk' = <<Visit(NoDir, zap.path)>> /\ pc' = "walk" /\ UNCHANGED thenRead
     ELSE Resume /\ UNCHANGED walk
  /\ zap' = NoZap
  /\ UNCHANGED <<kernelVars, cache, loopVars, rootsTodo, ops>>

\* inotify_rm_watch() fails: zapSubtree() returns -1, upon which the caller
\* reinitializes if it is handling an event and goes on if it is a command.
ZapFail ==
  /\ pc = "zap" /\ \E e \in Zapped : e.wd \notin DOMAIN watch
  /\ IF zap.by = "event" THEN UNCHANGED <<roots, ops>> /\ Reinitialize ELSE ZapReturn

ZapDone == pc = "zap" /\ Zapped = {} /\ ZapReturn

-----------------------------------------------------------------------------
(* processInotifyEvents() *)

ReadEvents ==
  /\ pc = "read" /\ queue # <<>>
  /\ LET n == IF Len(queue) < BufMax THEN Len(queue) ELSE BufMax
     IN buf' = SubSeq(queue, 1, n) /\ queue' = SubSeq(queue, n + 1, Len(queue))
  /\ firstTry' = TRUE /\ pc' = "process"
  /\ UNCHANGED <<tree, watch, nextWd, inflight, orphans, cache, roots, walkVars, zap, thenRead, ops>>

\* The second read() gets some events ...
RereadEvents ==
  /\ pc \in {"reread", "rereadUntimed"} /\ queue # <<>>
  /\ buf' = buf \o queue /\ queue' = <<>>
  /\ pc' = "process"
  /\ UNCHANGED <<tree, watch, nextWd, inflight, orphans, cache, roots, firstTry, walkVars, zap, thenRead, ops>>

\* ... or is interrupted by SIGALRM ...
RereadTimeout ==
  /\ pc = "reread" /\ queue = <<>>
  /\ pc' = "process"
  /\ UNCHANGED <<kernelVars, cache, loopVars, walkVars, zap, thenRead, ops>>

\* ... or is entered only after SIGALRM was handled.
RereadLate ==
  /\ EarlyAlarm /\ pc = "reread"
  /\ pc' = "rereadUntimed"
  /\ UNCHANGED <<kernelVars, cache, loopVars, walkVars, zap, thenRead, ops>>

-----------------------------------------------------------------------------
(* main() and executeCommand() *)

SelectEvents ==
  /\ pc = "select" /\ queue # <<>>
  /\ pc' = "read"
  /\ UNCHANGED <<kernelVars, cache, loopVars, walkVars, zap, thenRead, ops>>

\* A command is executed first; rfds keeps what select() said before it.
Commanded(c) ==
  /\ pc = "select" /\ c \in Commands /\ ops < MaxOps
  /\ ops' = ops + 1
  /\ UNCHANGED <<tree, inflight, orphans, loopVars>>

\* `a path' and `z path'
CmdZap(c) ==
  /\ Commanded(c)
  /\ \E p \in CmdPaths : zap' = [path |-> p, by |-> c]
  /\ thenRead' = (queue # <<>>) /\ pc' = "zap"
  /\ UNCHANGED <<watch, nextWd, queue, cache, walkVars>>

\* `0': the cache is rebuilt on a new descriptor, which gets the old one's number.
CmdRebuild ==
  /\ Commanded("0")
  /\ NewInstance /\ cache' = {}
  /\ rootsTodo' = SelectSeq(RootSeq, LAMBDA r : r \in roots)
  /\ thenRead' = (queue # <<>>) /\ pc' = "walk"
  /\ UNCHANGED <<walk, zap>>

CmdQuit ==
  /\ Commanded("q")
  /\ pc' = "exit"
  /\ UNCHANGED <<watch, nextWd, queue, cache, walkVars, zap, thenRead>>

-----------------------------------------------------------------------------
(* The other processes, and the whole system *)

\* When processes perform an operation: "always"; "noWalk", except during a
\* traversal; "idle", only when every earlier event has been processed.
May(op) ==
  /\ ops < MaxOps /\ pc # "exit"
  /\ \/ When[op] = "always"
     \/ When[op] = "noWalk" /\ pc # "walk"
     \/ When[op] = "idle" /\ pc = "select" /\ queue = <<>> /\ AllEmitted

RootPaths == Range(RootSeq)
Inner == {p \in DOMAIN tree : Len(p) > 1}

Change(k) ==
  /\ \/ May("mkdir") /\ \E p \in DOMAIN tree \ {<<>>}, n \in Names : Mkdir(k, p, n)
     \/ May("rmdir") /\ \E p \in Inner : Rmdir(k, p, OpenDirs)
     \/ May("rmroot") /\ \E p \in RootPaths : Rmdir(k, p, OpenDirs)
     \/ May("rename") /\ \E p \in Inner, d \in DOMAIN tree \ {<<>>}, n \in Names :
                            Rename(k, p, Append(d, n), ops + 1)
     \/ May("mvroot") /\ \E p \in RootPaths, d \in DOMAIN tree, n \in Names :
                            Rename(k, p, Append(d, n), ops + 1)
     \/ May("unmount") /\ \E p \in RootPaths : Unmount(k, p, OpenDirs)
  /\ ops' = ops + 1
  /\ UNCHANGED progVars

Notify(k) == Emit(k) /\ UNCHANGED <<progVars, ops>>

Walking == WalkVisit \/ WalkGone \/ WalkList \/ WalkClose \/ WalkNextRoot \/ WalkDone

ProcessNextInotifyEvent ==
  \/ EvUnknown \/ EvOverflow \/ EvIgnored \/ EvCreate \/ EvDeleteSelf \/ EvUnmount
  \/ EvMoveSelf \/ EvRename \/ EvMovedOut \/ EvHanging

ProcessInotifyEvents ==
  \/ ReadEvents \/ RereadEvents \/ RereadTimeout \/ RereadLate \/ ProcessNextInotifyEvent

Zapping == ZapSlot \/ ZapFail \/ ZapDone

Program == Walking \/ Zapping \/ SelectEvents \/ ProcessInotifyEvents

ExecuteCommand == CmdZap("a") \/ CmdZap("z") \/ CmdRebuild \/ CmdQuit

\* The program starts with reinitialize(-1).
Init ==
  /\ tree = InitTree
  /\ watch = <<>> /\ nextWd = 1 /\ queue = <<>> /\ orphans = {}
  /\ inflight = [k \in Procs |-> [locked |-> {}, notes |-> <<>>]]
  /\ cache = {} /\ roots = RootPaths /\ buf = <<>> /\ firstTry = TRUE
  /\ walk = <<>> /\ rootsTodo = RootSeq /\ zap = NoZap /\ thenRead = FALSE /\ pc = "walk"
  /\ ops = 0

Next == Program \/ ExecuteCommand \/ \E k \in Procs : Change(k) \/ Notify(k)

Spec == Init /\ [][Next]_vars

\* The program and the system calls of the other processes make progress; no
\* process need change the tree, no user need type a command.
FairSpec == Spec /\ WF_vars(Program) /\ \A k \in Procs : WF_vars(Notify(k))

-----------------------------------------------------------------------------
TypeOK ==
  /\ ClosedTree(DOMAIN tree) /\ \A p \in DOMAIN tree : tree[p] \in Inodes \cup Range(InitTree)
  /\ \A wd \in DOMAIN watch : wd \in 1..(nextWd - 1) /\ watch[wd].self \in BOOLEAN
  /\ \A e \in cache : e.wd \in 1..(nextWd - 1)
  /\ roots \subseteq RootPaths /\ firstTry \in BOOLEAN /\ thenRead \in BOOLEAN
  /\ pc \in {"walk", "zap", "select", "read", "process", "reread", "rereadUntimed", "exit"}
  /\ pc = "process" => buf # <<>>
  /\ pc # "walk" => walk = <<>> /\ rootsTodo = <<>>

\* No watch descriptor occupies two cache slots: what the test in traverseTree()
\* and the check of pathnameInCache() are for.
WdUnique == \A e, f \in cache : e.wd = f.wd => e = f

\* Every watch the kernel holds for the program has a cache entry, so that no
\* event can come from a directory the program has forgotten.
NoForgottenWatch == DOMAIN watch \subseteq CachedWds

\* A cache entry whose watch is gone is about to be cleared: the event that says
\* so, or the overflow event that replaced it, is still to be processed.
StaleExplained ==
  \A e \in cache : e.wd \notin DOMAIN watch =>
    \E ev \in Range(buf \o queue) :
      ev = Overflow \/ (ev.wd = e.wd /\ ev.type \in {"DELETE_SELF", "UNMOUNT"})

Monitored == {p \in DOMAIN tree : \E r \in roots : Below(r, p)}
Agrees ==
  /\ CachedPaths = Monitored
  /\ \A e \in cache : e.wd \in DOMAIN watch /\ watch[e.wd].ino = tree[e.path]
Quiet == pc = "select" /\ queue = <<>> /\ AllEmitted

\* When every event has been processed the cache is the monitored tree, and
\* every entry watches the directory it names: the promise in the comment that
\* heads inotify_dtree.c.
CacheConsistent == Quiet => Agrees

\* Once the tree stops changing, the program brings the cache to agree with it
\* (or has ended because no root is left).
Converges == <>[](Agrees \/ pc = "exit")

\* A MOVED_FROM at the end of the buffer is settled by the second read() or by
\* its timeout: the program gets back to select() or rebuilds its cache.
HangingSettled == pc = "reread" ~> pc \notin {"process", "reread", "rereadUntimed"}

\* The program comes back from every read() on the inotify descriptor, so that
\* keyboard commands are served: what select() is for.
CommandsServed == pc = "read" ~> pc # "read"
=============================================================================
