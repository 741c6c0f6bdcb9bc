--------------------------- MODULE InotifyKernel ----------------------------
(***************************************************************************)
(* What inotify_dtree.c relies on outside itself: a tree of directories    *)
(* that other processes change, and the inotify instance that reports the  *)
(* changes.  A path is a sequence of names; `tree' maps the path of every  *)
(* directory to its i-node.  The changes of the tree a process makes are   *)
(* atomic, the events of a rename() are queued one by one, so that events  *)
(* of other processes can come between them.                               *)
(***************************************************************************)
EXTENDS Naturals, FiniteSets, Sequences, Functions

CONSTANTS Names,      \* names a process may give to a directory
          Inodes,     \* i-nodes, a finite supply
          Procs,      \* processes that change the tree
          MaxDepth,   \* longest path a process creates
          QMax        \* max_queued_events of the inotify instance

VARIABLES tree,       \* path -> i-node
          watch,      \* wd -> [ino, self]: self says IN_MOVE_SELF is in the mask
          nextWd,     \* the next watch descriptor of this inotify instance
          queue,      \* events not yet read
          inflight,   \* process -> [locked, notes]: the rest of its rename() or umount()
          orphans     \* removed directories that are still open

kernelVars == <<tree, watch, nextWd, queue, inflight, orphans>>

None == 0                                       \* no wd, no cookie
Event(wd, type, name, cookie) == [wd |-> wd, type |-> type, name |-> name, cookie |-> cookie]
Overflow == Event(None, "OVERFLOW", "", None)

\* fsnotify_insert_event: a full queue gets one overflow event, an event equal
\* to the last one (cookies are not compared) is merged with it.
Post(q, e) ==
  CASE Len(q) >= QMax -> IF Overflow \in Range(q) THEN q ELSE Append(q, Overflow)
    [] q # <<>> /\ Len(q) < QMax /\ [q[Len(q)] EXCEPT !.cookie = e.cookie] = e -> q
    [] OTHER -> Append(q, e)

WdsOf(i) == {wd \in DOMAIN watch : watch[wd].ino = i}
WdOf(i) == CHOOSE wd \in WdsOf(i) : TRUE

\* The queue after the notification n = [ino, type, name, cookie].
Notified(q, n) ==
  IF WdsOf(n.ino) = {} \/ (n.type = "MOVE_SELF" /\ ~watch[WdOf(n.ino)].self)
  THEN q
  ELSE Post(q, Event(WdOf(n.ino), n.type, n.name, n.cookie))

WithoutWds(S) == Restrict(watch, DOMAIN watch \ S)

\* The i-node i ceases to exist: its watch goes, after the event that says why.
Evicted(q, i, why) ==
  IF WdsOf(i) = {} THEN q
  ELSE Post(Post(q, Event(WdOf(i), why, "", None)), Event(WdOf(i), "IGNORED", "", None))

\* inotify_add_watch on the i-node i: an existing watch gets the new mask.
WatchedWd(i) == IF WdsOf(i) # {} THEN WdOf(i) ELSE nextWd

AddWatch(i, self) ==
  /\ watch' = [wd \in DOMAIN watch \cup {WatchedWd(i)} |->
                 IF wd = WatchedWd(i) THEN [ino |-> i, self |-> self] ELSE watch[wd]]
  /\ nextWd' = IF WdsOf(i) # {} THEN nextWd ELSE nextWd + 1

\* inotify_rm_watch on a live wd.
RmWatch(wd) ==
  /\ watch' = WithoutWds({wd})
  /\ queue' = Post(queue, Event(wd, "IGNORED", "", None))

\* close() of the inotify descriptor followed by inotify_init().
NewInstance == watch' = <<>> /\ nextWd' = 1 /\ queue' = <<>>

-----------------------------------------------------------------------------
(* Directories *)

Name(p) == p[Len(p)]
Parent(p) == SubSeq(p, 1, Len(p) - 1)
Below(p, x) == Len(p) <= Len(x) /\ SubSeq(x, 1, Len(p)) = p
Orders(S) == {s \in [1..Cardinality(S) -> S] : Range(s) = S}

Dir(p) == p \in DOMAIN tree
Under(p) == {x \in DOMAIN tree : Below(p, x)}
Children(p) == {x \in Under(p) : Len(x) = Len(p) + 1}
Moved(p, q, x) == q \o SubSeq(x, Len(p) + 1, Len(x))      \* x below p, after p -> q
FreeInodes == Inodes \ (Range(tree) \cup orphans \cup {watch[wd].ino : wd \in DOMAIN watch})
Locked == UNION {inflight[k].locked : k \in Procs}
Busy(k) == inflight[k].notes # <<>>
AllEmitted == \A k \in Procs : ~Busy(k)

Mkdir(k, p, n) ==
  LET d == Append(p, n) IN
  /\ ~Busy(k) /\ Dir(p) /\ ~Dir(d) /\ Len(d) <= MaxDepth
  /\ tree[p] \notin Locked /\ FreeInodes # {}
  /\ tree' = [x \in DOMAIN tree \cup {d} |-> IF x = d THEN CHOOSE i \in FreeInodes : TRUE ELSE tree[x]]
  /\ queue' = Notified(queue, [ino |-> tree[p], type |-> "CREATE", name |-> n, cookie |-> None])
  /\ UNCHANGED <<watch, nextWd, inflight, orphans>>

\* rmdir() of p.  The i-node survives while somebody (open) has it open.
Rmdir(k, p, open) ==
  /\ ~Busy(k) /\ Dir(p) /\ Children(p) = {} /\ {tree[p], tree[Parent(p)]} \cap Locked = {}
  /\ tree' = Restrict(tree, DOMAIN tree \ {p})
  /\ IF tree[p] \in open
     THEN orphans' = orphans \cup {tree[p]} /\ UNCHANGED <<watch, queue>>
     ELSE /\ queue' = Evicted(queue, tree[p], "DELETE_SELF")
          /\ watch' = WithoutWds(WdsOf(tree[p]))
          /\ UNCHANGED orphans
  /\ UNCHANGED <<nextWd, inflight>>

\* rename() of p to a name q that does not exist.  Both parents stay locked
\* until the last event is queued.
Rename(k, p, q, cookie) ==
  LET Note(i, type, name) == [ino |-> i, type |-> type, name |-> name, cookie |-> cookie]
      parents == {tree[Parent(p)], tree[Parent(q)]}
  IN
  /\ ~Busy(k) /\ Dir(p) /\ Dir(Parent(q)) /\ ~Dir(q) /\ ~Below(p, q)
  /\ parents \cap Locked = {} /\ tree[p] \notin Locked
  /\ \A x \in Under(p) : Len(Moved(p, q, x)) <= MaxDepth
  /\ tree' = [x \in (DOMAIN tree \ Under(p)) \cup {Moved(p, q, y) : y \in Under(p)} |->
                IF Below(q, x) THEN tree[Moved(q, p, x)] ELSE tree[x]]
  /\ inflight' = [inflight EXCEPT ![k] =
       [locked |-> parents,
        notes |-> <<Note(tree[Parent(p)], "MOVED_FROM", Name(p)),
                    Note(tree[Parent(q)], "MOVED_TO", Name(q)),
                    Note(tree[p], "MOVE_SELF", "")>>]]
  /\ UNCHANGED <<watch, nextWd, queue, orphans>>

\* umount() of the filesystem mounted at r; the mount point shows again.
Unmount(k, r, open) ==
  LET gone == {tree[x] : x \in Under(r)} IN
  /\ ~Busy(k) /\ Dir(r) /\ gone \cap (open \cup Locked) = {} /\ FreeInodes # {}
  /\ tree' = [x \in (DOMAIN tree \ Under(r)) \cup {r} |->
                IF x = r THEN CHOOSE i \in FreeInodes : TRUE ELSE tree[x]]
  /\ \E s \in Orders(gone) :
       inflight' = [inflight EXCEPT ![k] =
         [locked |-> {},
          notes |-> [n \in DOMAIN s |->
                       [ino |-> s[n], type |-> "UNMOUNT", name |-> "", cookie |-> None]]]]
  /\ UNCHANGED <<watch, nextWd, queue, orphans>>

\* The next event of the rename() or umount() process k is in.
Emit(k) ==
  LET n == Head(inflight[k].notes)
      rest == Tail(inflight[k].notes)
  IN
  /\ Busy(k)
  /\ IF n.type = "UNMOUNT"
     THEN queue' = Evicted(queue, n.ino, "UNMOUNT") /\ watch' = WithoutWds(WdsOf(n.ino))
     ELSE queue' = Notified(queue, n) /\ UNCHANGED watch
  /\ inflight' = [inflight EXCEPT ![k] =
       [locked |-> IF rest = <<>> THEN {} ELSE @.locked, notes |-> rest]]
  /\ UNCHANGED <<tree, nextWd, orphans>>
=============================================================================
