------------------------ MODULE InotifyDtree_proofs -------------------------
(***************************************************************************)
(* Proofs about the watch list cache of inotify_dtree.c, for every tree,   *)
(* every set of processes and every way they interleave with the program.  *)
(***************************************************************************)
EXTENDS InotifyDtree, FiniteSetTheorems, TLAPS

Fatal == {"DELETE_SELF", "UNMOUNT"}

\* An event is handled only if there is one, commands and the first read() only if there
\* is none.
Phase(c, b) ==
  /\ c \in {"process", "reread", "rereadUntimed"} => b # <<>>
  /\ c \in {"select", "read"} => b = <<>>

NoteTypes == {"MOVED_FROM", "MOVED_TO", "MOVE_SELF", "UNMOUNT"}

\* s is a sequence, of whatever elements.
IsSeq(s) == s \in Seq(Range(s))

\* An event that says a watch is gone is true: the descriptor is not live, and
\* no later inotify_add_watch() can return it.
Truthful(ev) ==
  ev.type \in Fatal => ev.wd \notin DOMAIN watch /\ ev.wd \in Nat /\ ev.wd < nextWd

EventsTruthful ==
  /\ IsSeq(queue) /\ \A ev \in Range(queue) : Truthful(ev)
  /\ IsSeq(buf) /\ \A ev \in Range(buf) : Truthful(ev)
  /\ Phase(pc, buf)

WatchesNumbered ==
  /\ nextWd \in Nat
  /\ \A wd \in DOMAIN watch : wd \in Nat /\ wd < nextWd

NotesTyped ==
  /\ DOMAIN inflight = Procs
  /\ \A k \in Procs : /\ IsSeq(inflight[k].notes)
                      /\ \A n \in Range(inflight[k].notes) : n.type \in NoteTypes

IInv == WdUnique /\ NoForgottenWatch /\ EventsTruthful /\ WatchesNumbered /\ NotesTyped

-----------------------------------------------------------------------------
(* Sequences *)

USE DEF Phase

\* A sequence over S has its elements in S.
LEMMA SequenceElements ==
  ASSUME NEW S, NEW s \in Seq(S)
  PROVE  IsSeq(s) /\ Range(s) \subseteq S
<1>1. Len(s) \in Nat /\ DOMAIN s = 1..Len(s) /\ \A i \in 1..Len(s) : s[i] \in S
  OBVIOUS
<1>2. \A i \in 1..Len(s) : s[i] \in Range(s)
  BY <1>1 DEF Range
<1>3. s \in Seq(Range(s))
  BY <1>1, <1>2
<1> QED
  BY <1>1, <1>3 DEF IsSeq, Range

\* The empty sequence has none.
LEMMA NoElements == IsSeq(<<>>) /\ Range(<<>>) = {}
<1>1. Range(<<>>) = {}
  BY DEF Range
<1>2. <<>> \in Seq(Range(<<>>))
  OBVIOUS
<1> QED
  BY <1>1, <1>2 DEF IsSeq

\* Append adds no element but its own.
LEMMA AppendElements ==
  ASSUME NEW s, IsSeq(s), NEW e
  PROVE  IsSeq(Append(s, e)) /\ Range(Append(s, e)) \subseteq Range(s) \cup {e}
<1> DEFINE S == Range(s) \cup {e}
<1>1. s \in Seq(S)
  BY DEF IsSeq
<1>2. Append(s, e) \in Seq(S)
  BY <1>1
<1> QED
  BY <1>2, SequenceElements, Zenon

\* A part of a sequence has no other elements.
LEMMA SubSeqElements ==
  ASSUME NEW s, IsSeq(s), NEW m \in Nat \ {0}, NEW n \in Nat, n <= Len(s)
  PROVE  IsSeq(SubSeq(s, m, n)) /\ Range(SubSeq(s, m, n)) \subseteq Range(s)
<1>1. s \in Seq(Range(s))
  BY DEF IsSeq
<1>2. \A i \in m..n : s[i] \in Range(s)
  BY <1>1
<1>3. SubSeq(s, m, n) \in Seq(Range(s))
  BY <1>1, <1>2
<1> QED
  BY <1>3, SequenceElements, Zenon

\* Nor does its tail, and the head is one of them.
LEMMA TailElements ==
  ASSUME NEW s, IsSeq(s), s # <<>>
  PROVE  IsSeq(Tail(s)) /\ Range(Tail(s)) \subseteq Range(s) /\ Head(s) \in Range(s)
<1>1. s \in Seq(Range(s))
  BY DEF IsSeq
<1>2. Tail(s) \in Seq(Range(s)) /\ Head(s) \in Range(s)
  BY <1>1
<1> QED
  BY <1>2, SequenceElements, Zenon

\* A concatenation has those of its parts.
LEMMA ConcatElements ==
  ASSUME NEW s, IsSeq(s), NEW t, IsSeq(t)
  PROVE  IsSeq(s \o t) /\ Range(s \o t) \subseteq Range(s) \cup Range(t)
<1> DEFINE S == Range(s) \cup Range(t)
<1>1. s \in Seq(S) /\ t \in Seq(S)
  BY DEF IsSeq
<1>2. s \o t \in Seq(S)
  BY <1>1
<1> QED
  BY <1>2, SequenceElements, Zenon

\* Queueing an event adds it, or the overflow, and nothing else.
LEMMA PostElements ==
  ASSUME NEW q, IsSeq(q), NEW e
  PROVE  IsSeq(Post(q, e)) /\ Range(Post(q, e)) \subseteq Range(q) \cup {e, Overflow}
BY AppendElements DEF Post

-----------------------------------------------------------------------------
(* The kernel *)

\* The watches on an i-node, and that its chosen watch is one of them.
LEMMA ChosenWd ==
  ASSUME NEW i, WdsOf(i) # {}
  PROVE  WdOf(i) \in WdsOf(i) /\ WdOf(i) \in DOMAIN watch
BY DEF WdsOf, WdOf

\* Watches are taken away by their descriptors.
LEMMA WithoutDomain ==
  ASSUME NEW S
  PROVE  DOMAIN WithoutWds(S) = DOMAIN watch \ S
BY DEF WithoutWds, Restrict

\* The overflow event tells nothing that can be untrue.
LEMMA OverflowTruthful == Truthful(Overflow) /\ Truthful(Overflow)'
BY DEF Truthful, Overflow, Event, Fatal, None

\* inotify_add_watch() adds the descriptor it returns and makes no event untrue.
LEMMA AddWatchDomain ==
  ASSUME WatchesNumbered, NEW i, NEW self, AddWatch(i, self)
  PROVE  /\ DOMAIN watch' = DOMAIN watch \cup {WatchedWd(i)}
         /\ WatchesNumbered'
         /\ \A ev : Truthful(ev) => Truthful(ev)'
<1>1. CASE WdsOf(i) # {}
  <2>1. WatchedWd(i) \in DOMAIN watch /\ nextWd' = nextWd
    BY <1>1, ChosenWd DEF WatchedWd, AddWatch
  <2> QED
    BY <2>1 DEF AddWatch, WatchesNumbered, Truthful
<1>2. CASE WdsOf(i) = {}
  <2>1. WatchedWd(i) = nextWd /\ nextWd' = nextWd + 1
    BY <1>2 DEF WatchedWd, AddWatch
  <2> QED
    BY <2>1 DEF AddWatch, WatchesNumbered, Truthful
<1> QED
  BY <1>1, <1>2

\* Watches only go away: what was true of the events read and queued stays true.
LEMMA FewerWatches ==
  ASSUME WatchesNumbered, UNCHANGED nextWd, DOMAIN watch' \subseteq DOMAIN watch
  PROVE  WatchesNumbered' /\ \A ev : Truthful(ev) => Truthful(ev)'
BY DEF WatchesNumbered, Truthful

\* The i-node i is evicted: the events that say so are true.
LEMMA Eviction ==
  ASSUME IInv, NEW i, NEW why, UNCHANGED nextWd,
         queue' = Evicted(queue, i, why), watch' = WithoutWds(WdsOf(i))
  PROVE  /\ WatchesNumbered' /\ \A ev : Truthful(ev) => Truthful(ev)'
         /\ IsSeq(queue)' /\ \A ev \in Range(queue') : Truthful(ev)'
         /\ DOMAIN watch' \subseteq DOMAIN watch
<1>1. DOMAIN watch' = DOMAIN watch \ WdsOf(i)
  BY WithoutDomain
<1>2. WatchesNumbered' /\ \A ev : Truthful(ev) => Truthful(ev)'
  BY <1>1, FewerWatches DEF IInv
<1>3. IsSeq(queue) /\ \A ev \in Range(queue) : Truthful(ev)
  BY DEF IInv, EventsTruthful
<1>4. CASE WdsOf(i) = {}
  BY <1>1, <1>2, <1>3, <1>4 DEF Evicted
<1>5. CASE WdsOf(i) # {}
  <2> PICK wd : wd = WdOf(i)
    OBVIOUS
  <2> DEFINE e1 == Event(wd, why, "", None)
             e2 == Event(wd, "IGNORED", "", None)
             q1 == Post(queue, e1)
  <2>1. wd \in WdsOf(i) /\ wd \in Nat /\ wd < nextWd
    BY <1>5, ChosenWd DEF IInv, WatchesNumbered
  <2>2. Truthful(e1)' /\ Truthful(e2)'
    BY <1>1, <2>1 DEF Truthful, Event, Fatal
  <2>3. IsSeq(q1) /\ Range(q1) \subseteq Range(queue) \cup {e1, Overflow}
    BY <1>3, PostElements, Zenon
  <2>4. queue' = Post(q1, e2)
    BY <1>5, Zenon DEF Evicted
  <2> HIDE DEF q1, e2
  <2>a. IsSeq(Post(q1, e2)) /\ Range(Post(q1, e2)) \subseteq Range(q1) \cup {e2, Overflow}
    BY <2>3, PostElements, Zenon
  <2>5. IsSeq(queue') /\ Range(queue') \subseteq Range(q1) \cup {e2, Overflow}
    BY <2>a, <2>4
  <2>6. \A ev \in Range(queue') : Truthful(ev)'
    BY <2>2, <2>3, <2>5, <1>2, <1>3, OverflowTruthful, Zenon
  <2> QED
    BY <2>5, <2>6, <1>1, <1>2 DEF IsSeq
<1> QED
  BY <1>4, <1>5

\* A notification that is not about the end of a watch.
LEMMA Notification ==
  ASSUME IInv, NEW n, n.type \notin Fatal, UNCHANGED <<nextWd, watch>>,
         queue' = Notified(queue, n)
  PROVE  IsSeq(queue)' /\ \A ev \in Range(queue') : Truthful(ev)'
<1> DEFINE e == Event(WdOf(n.ino), n.type, n.name, n.cookie)
<1>1. IsSeq(queue) /\ \A ev \in Range(queue) : Truthful(ev)
  BY DEF IInv, EventsTruthful
<1>2. Truthful(e) /\ \A ev : Truthful(ev) => Truthful(ev)'
  BY DEF Truthful, Event
<1>3. CASE queue' = queue
  BY <1>1, <1>2, <1>3 DEF IsSeq
<1>4. CASE queue' = Post(queue, e)
  <2>1. IsSeq(queue') /\ Range(queue') \subseteq Range(queue) \cup {e, Overflow}
    BY <1>1, <1>4, PostElements
  <2> QED
    BY <2>1, <1>1, <1>2, OverflowTruthful DEF IsSeq
<1> QED
  BY <1>3, <1>4 DEF Notified

-----------------------------------------------------------------------------
(* The steps of the program *)

\* A step that leaves inotify alone and forgets only entries without a watch.
LEMMA ProgramFrame ==
  ASSUME IInv, UNCHANGED <<watch, nextWd, queue, inflight>>,
         IsSeq(buf'), Range(buf') \subseteq Range(buf), Phase(pc', buf'),
         WdUnique', NoForgottenWatch'
  PROVE  IInv'
<1>1. EventsTruthful'
  BY DEF IInv, EventsTruthful, Truthful, IsSeq
<1>2. WatchesNumbered' /\ NotesTyped'
  BY DEF IInv, WatchesNumbered, NotesTyped, IsSeq
<1> QED
  BY <1>1, <1>2 DEF IInv

\* A step that leaves inotify, the cache and the buffer alone.
LEMMA ControlStep ==
  ASSUME IInv, UNCHANGED <<watch, nextWd, queue, inflight, cache, buf>>,
         Phase(pc', buf)
  PROVE  IInv'
<1>1. WdUnique' /\ NoForgottenWatch'
  BY DEF IInv, WdUnique, NoForgottenWatch, CachedWds
<1>2. IsSeq(buf') /\ Range(buf') \subseteq Range(buf)
  BY DEF IInv, EventsTruthful, IsSeq
<1> QED
  BY <1>1, <1>2, ProgramFrame

\* An eviction, of which the program has yet to hear.
LEMMA EvictionStep ==
  ASSUME IInv, UNCHANGED <<nextWd, cache, buf, pc>>, NotesTyped', NEW i, NEW why,
         queue' = Evicted(queue, i, why), watch' = WithoutWds(WdsOf(i))
  PROVE  IInv'
<1>1. /\ WatchesNumbered' /\ \A ev : Truthful(ev) => Truthful(ev)'
      /\ IsSeq(queue)' /\ \A ev \in Range(queue') : Truthful(ev)'
      /\ DOMAIN watch' \subseteq DOMAIN watch
  BY Eviction
<1>2. EventsTruthful'
  BY <1>1 DEF IInv, EventsTruthful, IsSeq
<1>3. WdUnique' /\ NoForgottenWatch'
  BY <1>1 DEF IInv, WdUnique, NoForgottenWatch, CachedWds
<1> QED
  BY <1>1, <1>2, <1>3 DEF IInv

\* traverseTree() caches every watch it adds, and only if it is new.
LEMMA TraverseTreeStep ==
  ASSUME IInv, NEW p, TraverseTree(p)
  PROVE  /\ WdUnique' /\ NoForgottenWatch' /\ WatchesNumbered'
         /\ \A ev : Truthful(ev) => Truthful(ev)'
<1>1. CASE ~Dir(p)
  BY <1>1 DEF TraverseTree, IInv, WdUnique, NoForgottenWatch, CachedWds, WatchesNumbered, Truthful
<1>2. CASE Dir(p)
  <2>1. AddWatch(tree[p], p \in roots)
    BY <1>2 DEF TraverseTree
  <2>2. /\ DOMAIN watch' = DOMAIN watch \cup {WatchedWd(tree[p])}
        /\ WatchesNumbered' /\ \A ev : Truthful(ev) => Truthful(ev)'
    BY <2>1, AddWatchDomain DEF IInv
  <2>3. CASE WatchedWd(tree[p]) \in CachedWds
    BY <1>2, <2>2, <2>3 DEF TraverseTree, IInv, WdUnique, NoForgottenWatch, CachedWds
  <2>4. CASE WatchedWd(tree[p]) \notin CachedWds
    <3> DEFINE new == [wd |-> WatchedWd(tree[p]), path |-> p]
    <3>1. cache' = cache \cup {new} /\ new.wd = WatchedWd(tree[p])
      BY <1>2, <2>4 DEF TraverseTree
    <3>2. \A e \in cache : e.wd # new.wd
      BY <2>4, <3>1 DEF CachedWds
    <3> HIDE DEF new
    <3> QED
      BY <3>1, <3>2, <2>2 DEF IInv, WdUnique, NoForgottenWatch, CachedWds
  <2> QED
    BY <2>3, <2>4
<1> QED
  BY <1>1, <1>2

\* The walk of nftw() that adds the watches preserves the invariant.
LEMMA WalkStep == ASSUME IInv, Walking PROVE IInv'
<1>1. CASE WalkVisit
  <2>1. PICK p : TraverseTree(p)
    BY <1>1 DEF WalkVisit
  <2>2. /\ WdUnique' /\ NoForgottenWatch' /\ WatchesNumbered'
        /\ \A ev : Truthful(ev) => Truthful(ev)'
    BY <2>1, TraverseTreeStep
  <2>3. UNCHANGED <<queue, inflight, buf, pc>>
    BY <1>1 DEF WalkVisit, loopVars
  <2>4. EventsTruthful' /\ NotesTyped'
    BY <2>2, <2>3 DEF IInv, EventsTruthful, NotesTyped, IsSeq
  <2> QED
    BY <2>2, <2>4 DEF IInv
<1>2. CASE WalkGone
  BY <1>2, ControlStep DEF WalkGone, kernelVars, loopVars
<1>3. CASE WalkList
  BY <1>3, ControlStep DEF WalkList, kernelVars, loopVars
<1>4. CASE WalkClose
  <2>1. UNCHANGED <<nextWd, inflight, cache, buf, pc>>
    BY <1>4 DEF WalkClose, loopVars
  <2>2. PICK i : i = Head(walk).dir
    OBVIOUS
  <2>3. CASE i \in orphans
    <3>1. queue' = Evicted(queue, i, "DELETE_SELF") /\ watch' = WithoutWds(WdsOf(i))
      BY <1>4, <2>2, <2>3 DEF WalkClose
    <3>2. NotesTyped'
      BY <2>1 DEF IInv, NotesTyped, IsSeq
    <3> QED
      BY <2>1, <3>1, <3>2, EvictionStep
  <2>4. CASE i \notin orphans
    BY <1>4, <2>1, <2>2, <2>4, ControlStep DEF WalkClose, IInv, EventsTruthful
  <2> QED
    BY <2>3, <2>4
<1>5. CASE WalkNextRoot
  BY <1>5, ControlStep DEF WalkNextRoot, kernelVars, loopVars
<1>6. CASE WalkDone
  BY <1>6, ControlStep DEF WalkDone, Resume, kernelVars, loopVars
<1> QED
  BY <1>1, <1>2, <1>3, <1>4, <1>5, <1>6 DEF Walking

\* A new inotify instance preserves it.
LEMMA ReinitializeStep == ASSUME IInv, Reinitialize PROVE IInv'
<1>1. /\ watch' = <<>> /\ nextWd' = 1 /\ queue' = <<>> /\ buf' = <<>> /\ cache' = {}
      /\ pc' = "walk" /\ inflight' = inflight
  BY DEF Reinitialize, NewInstance
<1>2. EventsTruthful'
  BY <1>1, NoElements DEF EventsTruthful
<1>3. WdUnique' /\ NoForgottenWatch' /\ WatchesNumbered'
  BY <1>1 DEF WdUnique, NoForgottenWatch, WatchesNumbered
<1>4. NotesTyped'
  BY <1>1 DEF IInv, NotesTyped, IsSeq
<1> QED
  BY <1>2, <1>3, <1>4 DEF IInv

\* n events of the buffer are done with, and entries whose watch is gone.
LEMMA ConsumeStep ==
  ASSUME IInv, pc = "process", NEW n \in 1..2, n <= Len(buf), Consume(n),
         UNCHANGED <<watch, nextWd, queue, inflight>>, WdUnique', NoForgottenWatch'
  PROVE  IInv'
<1>1. IsSeq(buf) /\ buf \in Seq(Range(buf))
  BY DEF IInv, EventsTruthful, IsSeq
<1>2. buf' = SubSeq(buf, n + 1, Len(buf)) /\ pc' = IF Len(buf) > n THEN "process" ELSE "select"
  BY DEF Consume
<1>3. Len(buf) \in Nat /\ (Len(buf) > n => SubSeq(buf, n + 1, Len(buf)) # <<>>)
  <2>1. Len(buf) \in Nat /\ \A i \in 1..Len(buf) : buf[i] \in Range(buf)
    BY <1>1
  <2> DEFINE rest == SubSeq(buf, n + 1, Len(buf))
  <2>2. Len(buf) > n => Len(rest) = Len(buf) - n
    BY <2>1
  <2> HIDE DEF rest
  <2>3. Len(buf) > n => rest # <<>>
    BY <2>1, <2>2
  <2> QED
    BY <2>1, <2>3 DEF rest
<1>4. IsSeq(SubSeq(buf, n + 1, Len(buf))) /\ Range(SubSeq(buf, n + 1, Len(buf))) \subseteq Range(buf)
  BY <1>1, <1>3, SubSeqElements
<1> QED
  BY <1>2, <1>3, <1>4, ProgramFrame

\* The first event is done with and a walk or a zapSubtree() begins.
LEMMA TailStep ==
  ASSUME IInv, pc = "process", buf' = Tail(buf), pc' \in {"walk", "zap"},
         UNCHANGED <<watch, nextWd, queue, inflight, cache>>
  PROVE  IInv'
<1>1. IsSeq(buf') /\ Range(buf') \subseteq Range(buf)
  BY TailElements DEF IInv, EventsTruthful
<1>2. WdUnique' /\ NoForgottenWatch'
  BY DEF IInv, WdUnique, NoForgottenWatch, CachedWds
<1> QED
  BY <1>1, <1>2, ProgramFrame

\* The cache keeps its invariants when it is unchanged, when an entry without a
\* watch is dropped, and when rewriteCachedPaths() rewrites it.
LEMMA SameCache ==
  ASSUME IInv, UNCHANGED <<watch, cache>>
  PROVE  WdUnique' /\ NoForgottenWatch'
BY DEF IInv, WdUnique, NoForgottenWatch, CachedWds

\* Forgetting the slot of a watch that is gone keeps the cache right.
LEMMA WithoutWdCache ==
  ASSUME IInv, UNCHANGED watch, NEW wd, wd \notin DOMAIN watch, cache' = WithoutWd(wd)
  PROVE  WdUnique' /\ NoForgottenWatch'
BY DEF IInv, WdUnique, NoForgottenWatch, CachedWds, WithoutWd

\* rewriteCachedPaths() leaves the watch descriptors alone.
LEMMA RewrittenWds ==
  ASSUME NEW old, NEW new, cache' = Rewritten(old, new)
  PROVE  CachedWds' = CachedWds /\ (WdUnique => WdUnique')
<1> DEFINE path(e) == IF Below(old, e.path) THEN Moved(old, new, e.path) ELSE e.path
           image(e) == [wd |-> e.wd, path |-> path(e)]
<1>1. cache' = {image(e) : e \in cache}
  BY DEF Rewritten
<1> HIDE DEF path
<1>2. \A e : image(e).wd = e.wd
  OBVIOUS
<1> HIDE DEF image
<1>3. CachedWds' = CachedWds
  BY <1>1, <1>2 DEF CachedWds
<1>4. WdUnique => WdUnique'
  BY <1>1, <1>2 DEF WdUnique
<1> QED
  BY <1>3, <1>4

\* Rewriting path prefixes after a rename keeps the cache right.
LEMMA RewrittenCache ==
  ASSUME IInv, UNCHANGED watch, NEW old, NEW new, cache' = Rewritten(old, new)
  PROVE  WdUnique' /\ NoForgottenWatch'
BY RewrittenWds DEF IInv, NoForgottenWatch

\* Processing the next event preserves the invariant.
LEMMA EventStep == ASSUME IInv, ProcessNextInotifyEvent PROVE IInv'
<1>b. pc = "process" => /\ buf \in Seq(Range(buf)) /\ Len(buf) \in Nat /\ 1 <= Len(buf)
                        /\ Truthful(Ev)
  <2>1. pc = "process" => buf \in Seq(Range(buf)) /\ buf # <<>>
    BY DEF IInv, EventsTruthful, IsSeq
  <2>2. pc = "process" => Ev \in Range(buf)
    BY TailElements DEF IInv, EventsTruthful, Ev
  <2> QED
    BY <2>1, <2>2 DEF IInv, EventsTruthful
<1>1. CASE EvUnknown
  BY <1>1, ReinitializeStep DEF EvUnknown
<1>2. CASE EvOverflow
  BY <1>2, ReinitializeStep DEF EvOverflow
<1>3. CASE EvIgnored
  BY <1>3, <1>b, ConsumeStep, SameCache DEF EvIgnored, Processing, kernelVars
<1>4. CASE EvCreate
  <2>1. pc = "process" /\ UNCHANGED <<watch, nextWd, queue, inflight, cache>>
    BY <1>4 DEF EvCreate, Processing, kernelVars
  <2>2. CASE EvPath \in CachedPaths
    BY <1>4, <1>b, <2>1, <2>2, ConsumeStep, SameCache DEF EvCreate
  <2>3. CASE EvPath \notin CachedPaths
    BY <1>4, <1>b, <2>1, <2>3, TailStep DEF EvCreate, ConsumeAndWatch
  <2> QED
    BY <2>2, <2>3
<1>5. CASE EvDeleteSelf
  <2>1. pc = "process" /\ Ev.wd \notin DOMAIN watch
    BY <1>5, <1>b DEF EvDeleteSelf, Processing, Truthful, Fatal
  <2>2. CASE Exit
    BY <2>2, ControlStep DEF Exit, kernelVars
  <2>3. CASE Consume(1) /\ cache' = WithoutWd(Ev.wd) /\ UNCHANGED kernelVars
    BY <1>b, <2>1, <2>3, ConsumeStep, WithoutWdCache DEF kernelVars
  <2> QED
    BY <1>5, <2>2, <2>3 DEF EvDeleteSelf
<1>6. CASE EvUnmount
  <2>1. pc = "process" /\ Ev.wd \notin DOMAIN watch
    BY <1>6, <1>b DEF EvUnmount, Processing, Truthful, Fatal
  <2> QED
    BY <1>6, <1>b, <2>1, ConsumeStep, WithoutWdCache DEF EvUnmount, kernelVars
<1>7. CASE EvMoveSelf
  <2>1. pc = "process"
    BY <1>7 DEF EvMoveSelf, Processing
  <2>2. CASE Exit
    BY <2>2, ControlStep DEF Exit, kernelVars
  <2>3. CASE Consume(1) /\ UNCHANGED <<kernelVars, cache>>
    BY <1>b, <2>1, <2>3, ConsumeStep, SameCache DEF kernelVars
  <2>4. CASE ConsumeAndZap(EvDir)
    BY <1>b, <2>1, <2>4, TailStep DEF ConsumeAndZap, kernelVars
  <2> QED
    BY <1>7, <2>2, <2>3, <2>4 DEF EvMoveSelf
<1>8. CASE EvRename
  <2>1. pc = "process" /\ 2 <= Len(buf)
    BY <1>8, <1>b DEF EvRename, Processing, IsPair, HasNext
  <2>2. CASE Reinitialize
    BY <2>2, ReinitializeStep
  <2>3. CASE buf[2].wd \in CachedWds
    <3>1. /\ Consume(2) /\ UNCHANGED <<watch, nextWd, queue, inflight>>
          /\ \E old, new : cache' = Rewritten(old, new)
      BY <1>8, <2>3 DEF EvRename, kernelVars
    <3>2. WdUnique' /\ NoForgottenWatch'
      BY <3>1, RewrittenCache
    <3> QED
      BY <2>1, <3>1, <3>2, ConsumeStep
  <2> QED
    BY <1>8, <2>2, <2>3 DEF EvRename
<1>9. CASE EvMovedOut
  BY <1>9, <1>b, TailStep DEF EvMovedOut, Processing, ConsumeAndZap, kernelVars
<1>10. CASE EvHanging
  BY <1>10, ControlStep DEF EvHanging, Processing, kernelVars, IInv, EventsTruthful
<1> QED
  BY <1>1, <1>2, <1>3, <1>4, <1>5, <1>6, <1>7, <1>8, <1>9, <1>10 DEF ProcessNextInotifyEvent

\* zapSubtree() drops an entry only together with its watch.
LEMMA ZapStep == ASSUME IInv, Zapping PROVE IInv'
<1>r. ASSUME ZapReturn PROVE IInv'
  <2>1. CASE zap.by = "a"
    BY <1>r, <2>1, ControlStep DEF ZapReturn, kernelVars, loopVars
  <2>2. CASE zap.by # "a"
    BY <1>r, <2>2, ControlStep DEF ZapReturn, Resume, kernelVars, loopVars
  <2> QED
    BY <2>1, <2>2
<1>1. CASE ZapSlot
  <2>1. PICK e \in Zapped : e.wd \in DOMAIN watch /\ RmWatch(e.wd) /\ cache' = cache \ {e}
    BY <1>1 DEF ZapSlot
  <2>2. UNCHANGED <<nextWd, inflight, buf, pc>>
    BY <1>1 DEF ZapSlot, loopVars
  <2>3. DOMAIN watch' = DOMAIN watch \ {e.wd}
    BY <2>1, WithoutDomain, Zenon DEF RmWatch
  <2>4. WatchesNumbered' /\ \A ev : Truthful(ev) => Truthful(ev)'
    BY <2>2, <2>3, FewerWatches DEF IInv
  <2> DEFINE ig == Event(e.wd, "IGNORED", "", None)
  <2>5. IsSeq(Post(queue, ig)) /\ Range(Post(queue, ig)) \subseteq Range(queue) \cup {ig, Overflow}
    BY PostElements, Zenon DEF IInv, EventsTruthful
  <2>6. Truthful(ig)
    BY DEF Truthful, Event, Fatal
  <2> HIDE DEF ig
  <2>7. queue' = Post(queue, ig)
    BY <2>1, Zenon DEF RmWatch, ig
  <2>8. EventsTruthful'
    BY <2>2, <2>4, <2>5, <2>6, <2>7, OverflowTruthful DEF IInv, EventsTruthful, IsSeq
  <2>9. WdUnique' /\ NoForgottenWatch'
    BY <2>1, <2>3 DEF IInv, WdUnique, NoForgottenWatch, CachedWds
  <2>10. NotesTyped'
    BY <2>2 DEF IInv, NotesTyped, IsSeq
  <2> QED
    BY <2>4, <2>8, <2>9, <2>10 DEF IInv
<1>2. CASE ZapFail
  BY <1>2, <1>r, ReinitializeStep DEF ZapFail
<1>3. CASE ZapDone
  BY <1>3, <1>r DEF ZapDone
<1> QED
  BY <1>1, <1>2, <1>3 DEF Zapping

\* read(), and the second read() with its timeout, preserve it.
LEMMA ReadStep ==
  ASSUME IInv, ReadEvents \/ RereadEvents \/ RereadTimeout \/ RereadLate
  PROVE  IInv'
<1>q. IsSeq(queue) /\ IsSeq(buf) /\ Len(queue) \in Nat
  BY DEF IInv, EventsTruthful, IsSeq
<1>1. ASSUME UNCHANGED <<watch, nextWd, inflight, cache>>, IsSeq(buf'), IsSeq(queue'),
             Range(buf') \cup Range(queue') \subseteq Range(buf) \cup Range(queue),
             buf' # <<>>, pc' = "process"
      PROVE  IInv'
  <2>1. EventsTruthful'
    BY <1>1 DEF IInv, EventsTruthful, Truthful, IsSeq
  <2>2. WatchesNumbered' /\ NotesTyped'
    BY <1>1 DEF IInv, WatchesNumbered, NotesTyped, IsSeq
  <2> QED
    BY <1>1, <2>1, <2>2, SameCache DEF IInv
<1>2. CASE ReadEvents
  <2> DEFINE n == IF Len(queue) < BufMax THEN Len(queue) ELSE BufMax
  <2>1. n \in Nat \ {0} /\ n <= Len(queue)
    BY <1>2, <1>q, BufMaxAssumption DEF ReadEvents, IsSeq
  <2>2. buf' = SubSeq(queue, 1, n) /\ queue' = SubSeq(queue, n + 1, Len(queue))
    BY <1>2 DEF ReadEvents
  <2> HIDE DEF n
  <2>3. IsSeq(SubSeq(queue, 1, n)) /\ Range(SubSeq(queue, 1, n)) \subseteq Range(queue)
    BY <1>q, <2>1, SubSeqElements
  <2>4. /\ IsSeq(SubSeq(queue, n + 1, Len(queue)))
        /\ Range(SubSeq(queue, n + 1, Len(queue))) \subseteq Range(queue)
    BY <1>q, <2>1, SubSeqElements
  <2>5. SubSeq(queue, 1, n) # <<>>
    <3>1. queue \in Seq(Range(queue)) /\ \A i \in 1..Len(queue) : queue[i] \in Range(queue)
      BY <1>q DEF IsSeq
    <3>2. Len(SubSeq(queue, 1, n)) = n
      BY <3>1, <1>q, <2>1
    <3> QED
      BY <3>2, <2>1
  <2> QED
    BY <1>1, <1>2, <2>2, <2>3, <2>4, <2>5, Zenon DEF ReadEvents
<1>3. CASE RereadEvents
  <2>1. buf' = buf \o queue /\ queue' = <<>> /\ queue # <<>>
    BY <1>3 DEF RereadEvents
  <2>2. IsSeq(buf \o queue) /\ Range(buf \o queue) \subseteq Range(buf) \cup Range(queue)
    BY <1>q, ConcatElements
  <2>3. buf \o queue # <<>>
    <3>1. buf \in Seq(Range(buf)) /\ queue \in Seq(Range(queue)) /\ Len(queue) > 0
      BY <1>q, <2>1 DEF IsSeq
    <3>2. Len(buf \o queue) = Len(buf) + Len(queue) /\ Len(buf) \in Nat
      BY <3>1
    <3> QED
      BY <3>1, <3>2, <1>q
  <2> QED
    BY <1>1, <1>3, <2>1, <2>2, <2>3, NoElements DEF RereadEvents
<1>4. CASE RereadTimeout
  BY <1>4, ControlStep DEF RereadTimeout, kernelVars, loopVars, IInv, EventsTruthful
<1>5. CASE RereadLate
  BY <1>5, ControlStep DEF RereadLate, kernelVars, loopVars, IInv, EventsTruthful
<1> QED
  BY <1>2, <1>3, <1>4, <1>5

\* A command of the user preserves it.
LEMMA CommandStep == ASSUME IInv, ExecuteCommand PROVE IInv'
<1>1. ASSUME NEW c, CmdZap(c) PROVE IInv'
  BY <1>1, ControlStep DEF CmdZap, Commanded, loopVars
<1>2. CASE CmdRebuild
  <2>1. /\ watch' = <<>> /\ nextWd' = 1 /\ queue' = <<>> /\ cache' = {}
        /\ pc' = "walk" /\ UNCHANGED <<inflight, buf>>
    BY <1>2 DEF CmdRebuild, Commanded, NewInstance, loopVars
  <2>2. WdUnique' /\ NoForgottenWatch' /\ WatchesNumbered'
    BY <2>1 DEF WdUnique, NoForgottenWatch, WatchesNumbered
  <2>3. NotesTyped'
    BY <2>1 DEF IInv, NotesTyped, IsSeq
  <2>4. EventsTruthful'
    BY <2>1, <1>2, NoElements DEF CmdRebuild, Commanded, IInv, EventsTruthful
  <2> QED
    BY <2>2, <2>3, <2>4 DEF IInv
<1>3. CASE CmdQuit
  BY <1>3, ControlStep DEF CmdQuit, Commanded, loopVars
<1> QED
  BY <1>1, <1>2, <1>3 DEF ExecuteCommand

-----------------------------------------------------------------------------
(* The steps of the other processes *)

\* The step queues an event, or the notes of a rename() or umount().
LEMMA NoticeFrame ==
  ASSUME IInv, UNCHANGED <<watch, nextWd, cache, buf, pc>>, NotesTyped',
         IsSeq(queue)', \A ev \in Range(queue') : Truthful(ev)'
  PROVE  IInv'
<1>1. EventsTruthful'
  BY DEF IInv, EventsTruthful, Truthful, IsSeq
<1>2. WatchesNumbered'
  BY DEF IInv, WatchesNumbered
<1> QED
  BY <1>1, <1>2, SameCache DEF IInv

\* mkdir() by another process preserves it.
LEMMA MkdirStep ==
  ASSUME IInv, NEW k, NEW p, NEW n, Mkdir(k, p, n), UNCHANGED progVars
  PROVE  IInv'
<1> PICK note : note = [ino |-> tree[p], type |-> "CREATE", name |-> n, cookie |-> None]
  BY Zenon
<1>1. /\ UNCHANGED <<watch, nextWd, inflight, cache, buf, pc>>
      /\ queue' = Notified(queue, note)
  BY DEF Mkdir, progVars, loopVars
<1>2. note.type \notin Fatal
  BY DEF Fatal
<1>3. IsSeq(queue)' /\ \A ev \in Range(queue') : Truthful(ev)'
  BY <1>1, <1>2, Notification
<1>4. NotesTyped'
  BY <1>1 DEF IInv, NotesTyped, IsSeq
<1> QED
  BY <1>1, <1>3, <1>4, NoticeFrame

\* rmdir() by another process preserves it.
LEMMA RmdirStep ==
  ASSUME IInv, NEW k, NEW p, NEW open, Rmdir(k, p, open), UNCHANGED progVars
  PROVE  IInv'
<1>1. UNCHANGED <<nextWd, inflight, cache, buf, pc>>
  BY Zenon DEF Rmdir, progVars, loopVars
<1>2. NotesTyped'
  BY <1>1 DEF IInv, NotesTyped, IsSeq
<1>3. CASE tree[p] \in open
  BY <1>1, <1>2, <1>3, ControlStep, Zenon DEF Rmdir, IInv, EventsTruthful
<1>4. CASE tree[p] \notin open
  <2> PICK i : i = tree[p]
    OBVIOUS
  <2>1. queue' = Evicted(queue, i, "DELETE_SELF") /\ watch' = WithoutWds(WdsOf(i))
    BY <1>4, Zenon DEF Rmdir
  <2> QED
    BY <1>1, <1>2, <2>1, EvictionStep
<1> QED
  BY <1>3, <1>4

\* rename() and umount() leave notes for Emit.
LEMMA NotesStep ==
  ASSUME IInv, UNCHANGED <<watch, nextWd, queue, cache, buf, pc>>,
         NEW k, NEW locked, NEW notes, IsSeq(notes), \A n \in Range(notes) : n.type \in NoteTypes,
         inflight' = [inflight EXCEPT ![k] = [locked |-> locked, notes |-> notes]]
  PROVE  IInv'
<1>1. NotesTyped'
  BY DEF IInv, NotesTyped, IsSeq
<1>2. IsSeq(queue)' /\ \A ev \in Range(queue') : Truthful(ev)'
  BY DEF IInv, EventsTruthful, Truthful, IsSeq
<1> QED
  BY <1>1, <1>2, NoticeFrame

\* rename() by another process preserves it.
LEMMA RenameStep ==
  ASSUME IInv, NEW k, NEW p, NEW q, NEW cookie, Rename(k, p, q, cookie), UNCHANGED progVars
  PROVE  IInv'
<1> DEFINE Note(i, type, name) == [ino |-> i, type |-> type, name |-> name, cookie |-> cookie]
           a == Note(tree[Parent(p)], "MOVED_FROM", Name(p))
           b == Note(tree[Parent(q)], "MOVED_TO", Name(q))
           c == Note(tree[p], "MOVE_SELF", "")
           notes == <<a, b, c>>
<1>1. a.type = "MOVED_FROM" /\ b.type = "MOVED_TO" /\ c.type = "MOVE_SELF"
  OBVIOUS
<1>2. \E locked : inflight' = [inflight EXCEPT ![k] = [locked |-> locked, notes |-> notes]]
  BY Zenon DEF Rename
<1> HIDE DEF a, b, c
<1>3. notes \in Seq({a, b, c})
  OBVIOUS
<1> HIDE DEF notes
<1>4. IsSeq(notes) /\ Range(notes) \subseteq {a, b, c}
  BY <1>3, SequenceElements
<1>6. \A n \in Range(notes) : n.type \in NoteTypes
  BY <1>1, <1>4 DEF NoteTypes
<1>5. UNCHANGED <<watch, nextWd, queue, cache, buf, pc>>
  BY Zenon DEF Rename, progVars, loopVars
<1> QED
  BY <1>2, <1>4, <1>5, <1>6, NotesStep, Zenon

\* The kernel queueing a notification preserves it.
LEMMA EmitStep ==
  ASSUME IInv, NEW k \in Procs, Emit(k), UNCHANGED progVars
  PROVE  IInv'
<1> PICK n, rest : n = Head(inflight[k].notes) /\ rest = Tail(inflight[k].notes)
  BY Zenon
<1>1. UNCHANGED <<nextWd, cache, buf, pc>>
  BY DEF Emit, progVars, loopVars
<1>2. inflight[k].notes # <<>> /\ IsSeq(inflight[k].notes)
  BY DEF Emit, Busy, IInv, NotesTyped
<1>3. IsSeq(rest) /\ Range(rest) \subseteq Range(inflight[k].notes) /\ n \in Range(inflight[k].notes)
  BY <1>2, TailElements
<1>4. n.type \in NoteTypes /\ \A m \in Range(rest) : m.type \in NoteTypes
  BY <1>3 DEF IInv, NotesTyped
<1>5. NotesTyped'
  <2>1. \E locked : inflight' = [inflight EXCEPT ![k] = [locked |-> locked, notes |-> rest]]
    BY Zenon DEF Emit
  <2> QED
    BY <2>1, <1>3, <1>4 DEF IInv, NotesTyped, IsSeq
<1>6. CASE n.type = "UNMOUNT"
  <2> PICK i : i = n.ino
    OBVIOUS
  <2>1. queue' = Evicted(queue, i, "UNMOUNT") /\ watch' = WithoutWds(WdsOf(i))
    BY <1>6, Zenon DEF Emit
  <2> QED
    BY <1>1, <1>5, <2>1, EvictionStep
<1>7. CASE n.type # "UNMOUNT"
  <2>1. queue' = Notified(queue, n) /\ UNCHANGED watch
    BY <1>7 DEF Emit
  <2>2. n.type \notin Fatal
    BY <1>4, <1>7 DEF Fatal, NoteTypes
  <2>3. IsSeq(queue)' /\ \A ev \in Range(queue') : Truthful(ev)'
    BY <1>1, <2>1, <2>2, Notification
  <2> QED
    BY <1>1, <1>5, <2>1, <2>3, NoticeFrame
<1> QED
  BY <1>6, <1>7

-----------------------------------------------------------------------------
(* The tree stays finite, so that umount() has finitely many events *)

TreeFinite == IsFiniteSet(DOMAIN tree)

\* The image of a finite set is finite.
LEMMA FiniteImage ==
  ASSUME NEW S, IsFiniteSet(S), NEW T, NEW f \in [S -> T], \A t \in T : \E x \in S : f[x] = t
  PROVE  IsFiniteSet(T)
<1>1. f \in Surjection(S, T)
  BY DEF Surjection
<1> QED
  BY <1>1, FS_Surjection

\* A change by another process leaves the tree finite.
LEMMA ChangeFinite ==
  ASSUME TreeFinite, NEW k, Change(k)
  PROVE  TreeFinite'
<1>1. ASSUME NEW p, NEW n, Mkdir(k, p, n) PROVE TreeFinite'
  <2>1. DOMAIN tree' = DOMAIN tree \cup {Append(p, n)}
    BY <1>1 DEF Mkdir
  <2> QED
    BY <2>1, FS_AddElement DEF TreeFinite
<1>2. ASSUME NEW p, NEW open, Rmdir(k, p, open) PROVE TreeFinite'
  <2>1. DOMAIN tree' \subseteq DOMAIN tree
    BY <1>2 DEF Rmdir, Restrict
  <2> QED
    BY <2>1, FS_Subset DEF TreeFinite
<1>3. ASSUME NEW p, NEW q, NEW cookie, Rename(k, p, q, cookie) PROVE TreeFinite'
  <2> DEFINE D == DOMAIN tree
             new == {Moved(p, q, y) : y \in Under(p)}
  <2>1. DOMAIN tree' = (D \ Under(p)) \cup new
    BY <1>3, Zenon DEF Rename
  <2>2. IsFiniteSet(Under(p)) /\ IsFiniteSet(D \ Under(p))
    BY FS_Subset DEF TreeFinite, Under
  <2>3. IsFiniteSet(new)
    <3> DEFINE f == [y \in Under(p) |-> Moved(p, q, y)]
    <3>1. f \in [Under(p) -> new] /\ \A t \in new : \E x \in Under(p) : f[x] = t
      OBVIOUS
    <3> QED
      BY <3>1, <2>2, FiniteImage, Zenon
  <2> QED
    BY <2>1, <2>2, <2>3, FS_Union, Zenon DEF TreeFinite
<1>4. ASSUME NEW r, NEW open, Unmount(k, r, open) PROVE TreeFinite'
  <2>1. DOMAIN tree' = (DOMAIN tree \ Under(r)) \cup {r}
    BY <1>4, Zenon DEF Unmount
  <2>2. IsFiniteSet(DOMAIN tree \ Under(r))
    BY FS_Subset DEF TreeFinite
  <2> QED
    BY <2>1, <2>2, FS_AddElement DEF TreeFinite
<1> QED
  BY <1>1, <1>2, <1>3, <1>4, Zenon DEF Change

\* The program and the notifications change no directory.
LEMMA ProgramLeavesTree ==
  ASSUME Program \/ ExecuteCommand \/ \E k \in Procs : Notify(k)
  PROVE  UNCHANGED tree
<1>1. CASE Walking
  BY <1>1, Zenon DEF Walking, WalkVisit, WalkGone, WalkList, WalkClose, WalkNextRoot, WalkDone, kernelVars
<1>2. CASE Zapping
  BY <1>2, Zenon DEF Zapping, ZapSlot, ZapFail, ZapDone, ZapReturn, Reinitialize, kernelVars
<1>3. CASE SelectEvents
  BY <1>3 DEF SelectEvents, kernelVars
<1>4. CASE ReadEvents \/ RereadEvents \/ RereadTimeout \/ RereadLate
  BY <1>4 DEF ReadEvents, RereadEvents, RereadTimeout, RereadLate, kernelVars
<1>5. CASE ProcessNextInotifyEvent
  <2>1. CASE EvUnknown \/ EvOverflow \/ EvIgnored \/ EvCreate \/ EvUnmount \/ EvHanging
    BY <2>1 DEF EvUnknown, EvOverflow, EvIgnored, EvCreate, EvUnmount, EvHanging, Reinitialize, kernelVars
  <2>2. CASE EvDeleteSelf \/ EvRename \/ EvMovedOut
    BY <2>2, Zenon DEF EvDeleteSelf, EvRename, EvMovedOut, Exit, ConsumeAndZap, Reinitialize, kernelVars
  <2>3. CASE EvMoveSelf
    BY <2>3 DEF EvMoveSelf, Exit, ConsumeAndZap, kernelVars
  <2> QED
    BY <1>5, <2>1, <2>2, <2>3 DEF ProcessNextInotifyEvent
<1>6. CASE ExecuteCommand
  BY <1>6, Zenon DEF ExecuteCommand, CmdZap, CmdRebuild, CmdQuit, Commanded
<1>7. CASE \E k \in Procs : Notify(k)
  BY <1>7, Zenon DEF Notify, Emit
<1> QED
  BY <1>1, <1>2, <1>3, <1>4, <1>5, <1>6, <1>7 DEF Program, ProcessInotifyEvents

\* umount() preserves the invariant.
LEMMA UnmountStep ==
  ASSUME IInv, TreeFinite, NEW k, NEW r, NEW open, Unmount(k, r, open), UNCHANGED progVars
  PROVE  IInv'
<1> DEFINE gone == {tree[x] : x \in Under(r)}
           note(i) == [ino |-> i, type |-> "UNMOUNT", name |-> "", cookie |-> None]
<1>1. PICK s \in [1..Cardinality(gone) -> gone] :
        inflight' = [inflight EXCEPT ![k] = [locked |-> {}, notes |-> [n \in DOMAIN s |-> note(s[n])]]]
  BY Zenon DEF Unmount, Orders
<1>2. Cardinality(gone) \in Nat
  <2>1. IsFiniteSet(Under(r))
    BY FS_Subset, Zenon DEF TreeFinite, Under
  <2>2. IsFiniteSet(gone)
    <3> DEFINE f == [x \in Under(r) |-> tree[x]]
    <3>1. f \in [Under(r) -> gone] /\ \A t \in gone : \E x \in Under(r) : f[x] = t
      BY Zenon
    <3> QED
      BY <2>1, <3>1, FiniteImage, Zenon
  <2> QED
    BY <2>2, FS_CardinalityType, Zenon
<1> DEFINE notes == [n \in DOMAIN s |-> note(s[n])]
           S == {note(i) : i \in gone}
<1>3. \A n \in S : n.type \in NoteTypes
  <2>1. \A i : note(i).type = "UNMOUNT"
    BY Zenon
  <2> HIDE DEF note, gone
  <2> QED
    BY <2>1 DEF NoteTypes
<1> HIDE DEF gone, note
<1>4. notes \in Seq(S)
  BY <1>1, <1>2
<1> HIDE DEF notes, S
<1>5. IsSeq(notes) /\ Range(notes) \subseteq S
  BY <1>4, SequenceElements
<1>6. UNCHANGED <<watch, nextWd, queue, cache, buf, pc>>
  BY Zenon DEF Unmount, progVars, loopVars
<1>7. inflight' = [inflight EXCEPT ![k] = [locked |-> {}, notes |-> notes]]
  BY <1>1, Zenon DEF notes
<1> QED
  BY <1>3, <1>5, <1>6, <1>7, NotesStep, Zenon

-----------------------------------------------------------------------------
(* What becomes of entries whose watch is gone *)

\* An i-node has one watch at most: inotify_add_watch() returns the one that is there.
OneWatch == \A v, w \in DOMAIN watch : watch[v].ino = watch[w].ino => v = w

Stale == CachedWds \ DOMAIN watch
Told(wd) == \E ev \in Range(buf) \cup Range(queue) : ev = Overflow \/ (ev.wd = wd /\ ev.type \in Fatal)
StaleTold == \A wd \in Stale : Told(wd)

\* A concatenation has exactly the elements of its parts.
LEMMA ConcatRange ==
  ASSUME NEW s, IsSeq(s), NEW t, IsSeq(t)
  PROVE  Range(s \o t) = Range(s) \cup Range(t)
<1>1. s \in Seq(Range(s)) /\ t \in Seq(Range(t))
  BY DEF IsSeq
<1>2. Range(s) \subseteq Range(s \o t)
  <2> SUFFICES ASSUME NEW i \in DOMAIN s PROVE s[i] \in Range(s \o t)
    BY DEF Range
  <2>1. i \in DOMAIN (s \o t) /\ (s \o t)[i] = s[i]
    BY <1>1
  <2> QED
    BY <2>1 DEF Range
<1>3. Range(t) \subseteq Range(s \o t)
  <2> SUFFICES ASSUME NEW i \in DOMAIN t PROVE t[i] \in Range(s \o t)
    BY DEF Range
  <2>1. Len(s) + i \in DOMAIN (s \o t) /\ (s \o t)[Len(s) + i] = t[i]
    BY <1>1
  <2> QED
    BY <2>1 DEF Range
<1> QED
  BY <1>2, <1>3, ConcatElements

\* Told is what StaleExplained says, entry by entry.
LEMMA StaleToldIs ==
  ASSUME IInv
  PROVE  StaleExplained <=> StaleTold
<1>1. Range(buf \o queue) = Range(buf) \cup Range(queue)
  BY ConcatRange DEF IInv, EventsTruthful
<1> QED
  BY <1>1 DEF StaleExplained, StaleTold, Stale, Told, CachedWds, Fatal

\* Append keeps the elements and has the new one.
LEMMA AppendRange ==
  ASSUME NEW s, IsSeq(s), NEW e
  PROVE  Range(s) \subseteq Range(Append(s, e)) /\ e \in Range(Append(s, e))
<1>1. s \in Seq(Range(s) \cup {e}) /\ Len(s) \in Nat /\ DOMAIN s = 1..Len(s)
  BY DEF IsSeq
<1>2. \A i \in DOMAIN s : i \in DOMAIN Append(s, e) /\ Append(s, e)[i] = s[i]
  BY <1>1
<1>3. Len(s) + 1 \in DOMAIN Append(s, e) /\ Append(s, e)[Len(s) + 1] = e
  BY <1>1
<1> QED
  BY <1>2, <1>3 DEF Range

\* What is queued stays queued, and the event that is posted is there, or one like it with
\* another cookie, or the overflow event.
LEMMA PostRange ==
  ASSUME NEW q, IsSeq(q), NEW wd, NEW type, NEW name, NEW cookie
  PROVE  /\ Range(q) \subseteq Range(Post(q, Event(wd, type, name, cookie)))
         /\ \E ev \in Range(Post(q, Event(wd, type, name, cookie))) :
              ev = Overflow \/ (ev.wd = wd /\ ev.type = type)
<1> DEFINE e == Event(wd, type, name, cookie)
<1>1. e.wd = wd /\ e.type = type
  BY DEF Event
<1>2. CASE Post(q, e) = Append(q, e) \/ Post(q, e) = Append(q, Overflow)
  BY <1>1, <1>2, AppendRange, Zenon
<1>3. CASE Post(q, e) = q /\ Overflow \in Range(q)
  BY <1>3
<1>4. CASE q # <<>> /\ [q[Len(q)] EXCEPT !.cookie = e.cookie] = e /\ Post(q, e) = q
  <2>1. q[Len(q)] \in Range(q)
    BY <1>4 DEF IsSeq, Range
  <2>2. q[Len(q)].wd = wd /\ q[Len(q)].type = type
    BY <1>4 DEF Event
  <2> QED
    BY <1>4, <2>1, <2>2
<1>5. \/ Len(q) >= QMax /\ Post(q, e) = IF Overflow \in Range(q) THEN q ELSE Append(q, Overflow)
      \/ q # <<>> /\ [q[Len(q)] EXCEPT !.cookie = e.cookie] = e /\ Post(q, e) = q
      \/ Post(q, e) = Append(q, e)
  BY DEF Post
<1> QED
  BY <1>2, <1>3, <1>4, <1>5

\* No entry becomes stale and no event is dropped.
LEMMA StaleKept ==
  ASSUME StaleTold, Stale' \subseteq Stale,
         Range(buf) \cup Range(queue) \subseteq Range(buf') \cup Range(queue')
  PROVE  StaleTold'
BY DEF StaleTold, Told

\* A step that leaves watches, cache and events alone tells as much about stale slots.
LEMMA StaleSame ==
  ASSUME StaleTold, OneWatch, UNCHANGED <<watch, cache, buf, queue>>
  PROVE  StaleTold' /\ OneWatch'
BY StaleKept DEF Stale, CachedWds, OneWatch

\* An eviction makes one entry stale, of which an event tells.
LEMMA StaleEvicted ==
  ASSUME IInv, StaleTold, OneWatch, NEW i, NEW why \in Fatal, UNCHANGED <<cache, buf>>,
         queue' = Evicted(queue, i, why), watch' = WithoutWds(WdsOf(i))
  PROVE  StaleTold' /\ OneWatch'
<1>1. DOMAIN watch' = DOMAIN watch \ WdsOf(i) /\ \A w \in DOMAIN watch' : watch'[w] = watch[w]
  BY DEF WithoutWds, Restrict
<1>2. OneWatch'
  BY <1>1, Zenon DEF OneWatch
<1>3. IsSeq(queue)
  BY DEF IInv, EventsTruthful
<1>4. CASE WdsOf(i) = {}
  BY <1>1, <1>2, <1>4, StaleKept, Zenon DEF Evicted, Stale, CachedWds
<1>5. CASE WdsOf(i) # {}
  <2>1. WdsOf(i) = {WdOf(i)}
    BY <1>5, ChosenWd DEF OneWatch, WdsOf
  <2> DEFINE q1 == Post(queue, Event(WdOf(i), why, "", None))
  <2>2. IsSeq(q1)
    BY <1>3, PostElements, Zenon
  <2>3. Range(queue) \subseteq Range(q1) /\ \E ev \in Range(q1) : ev = Overflow \/ (ev.wd = WdOf(i) /\ ev.type = why)
    BY <1>3, PostRange, Zenon
  <2>4. queue' = Post(q1, Event(WdOf(i), "IGNORED", "", None))
    BY <1>5, Zenon DEF Evicted
  <2> HIDE DEF q1
  <2>5. Range(q1) \subseteq Range(queue')
    <3>1. Range(q1) \subseteq Range(Post(q1, Event(WdOf(i), "IGNORED", "", None)))
      BY <2>2, PostRange, Zenon
    <3> QED
      BY <2>4, <3>1, Zenon
  <2>6. Stale' \subseteq Stale \cup {WdOf(i)}
    BY <1>1, <2>1 DEF Stale, CachedWds
  <2>7. ASSUME NEW wd \in Stale' PROVE Told(wd)'
    BY <2>3, <2>5, <2>6, <2>7 DEF StaleTold, Told
  <2> QED
    BY <1>2, <2>7 DEF StaleTold
<1> QED
  BY <1>4, <1>5

\* reinitialize() and command `0' empty the cache.
LEMMA StaleNew ==
  ASSUME watch' = <<>>, cache' = {}
  PROVE  StaleTold' /\ OneWatch'
BY DEF StaleTold, Stale, CachedWds, OneWatch

\* The walk leaves every stale slot with the event that tells of it.
LEMMA StaleWalk ==
  ASSUME IInv, StaleTold, OneWatch, Walking
  PROVE  StaleTold' /\ OneWatch'
<1>1. CASE WalkVisit
  <2>1. PICK p : TraverseTree(p)
    BY <1>1 DEF WalkVisit
  <2>2. UNCHANGED <<queue, buf>>
    BY <1>1 DEF WalkVisit, loopVars
  <2>3. CASE ~Dir(p)
    BY <2>1, <2>2, <2>3, StaleSame DEF TraverseTree
  <2>4. CASE Dir(p)
    <3>1. AddWatch(tree[p], p \in roots)
      BY <2>1, <2>4 DEF TraverseTree
    <3>2. DOMAIN watch' = DOMAIN watch \cup {WatchedWd(tree[p])}
      BY <3>1, AddWatchDomain, Zenon DEF IInv
    <3>3. Stale' \subseteq Stale
      BY <2>1, <2>4, <3>2 DEF TraverseTree, Stale, CachedWds
    <3>4. OneWatch'
      <4>1. CASE WdsOf(tree[p]) = {}
        BY <3>1, <4>1, SMTT(30) DEF AddWatch, WatchedWd, WdsOf, OneWatch
      <4>2. CASE WdsOf(tree[p]) # {}
        <5>1. WdOf(tree[p]) \in DOMAIN watch /\ watch[WdOf(tree[p])].ino = tree[p]
          BY <4>2, ChosenWd DEF WdsOf
        <5>2. WatchedWd(tree[p]) = WdOf(tree[p])
          BY <4>2 DEF WatchedWd
        <5>3. /\ DOMAIN watch' = DOMAIN watch
              /\ \A w \in DOMAIN watch : watch'[w].ino = IF w = WdOf(tree[p]) THEN tree[p] ELSE watch[w].ino
          BY <3>1, <5>1, <5>2, Zenon DEF AddWatch
        <5>4. \A w \in DOMAIN watch : watch'[w].ino = watch[w].ino
          BY <5>1, <5>3, Zenon
        <5> QED
          BY <5>3, <5>4, Zenon DEF OneWatch
      <4> QED
        BY <4>1, <4>2
    <3> QED
      BY <2>2, <3>3, <3>4, StaleKept
  <2> QED
    BY <2>3, <2>4
<1>2. CASE WalkClose
  <2> PICK i : i = Head(walk).dir
    OBVIOUS
  <2>1. CASE i \in orphans
    <3>1. /\ queue' = Evicted(queue, i, "DELETE_SELF") /\ watch' = WithoutWds(WdsOf(i))
          /\ UNCHANGED <<cache, buf>>
      BY <1>2, <2>1, Zenon DEF WalkClose, loopVars
    <3> QED
      BY <3>1, StaleEvicted DEF Fatal
  <2>2. CASE i \notin orphans
    BY <1>2, <2>2, StaleSame DEF WalkClose, loopVars
  <2> QED
    BY <2>1, <2>2
<1>3. CASE WalkGone \/ WalkList \/ WalkNextRoot \/ WalkDone
  <2>1. UNCHANGED <<watch, cache, buf, queue>>
    BY <1>3, Zenon DEF WalkGone, WalkList, WalkNextRoot, WalkDone, kernelVars, loopVars
  <2> QED
    BY <2>1, StaleSame
<1> QED
  BY <1>1, <1>2, <1>3 DEF Walking

\* n events are done with, none of which told of a stale entry that is still cached.
LEMMA StaleConsume ==
  ASSUME IInv, StaleTold, OneWatch, UNCHANGED <<watch, queue>>, NEW n \in 1..2, n <= Len(buf),
         buf' = SubSeq(buf, n + 1, Len(buf)), Stale' \subseteq Stale,
         \A i \in 1..n : buf[i] # Overflow /\ (buf[i].type \in Fatal => buf[i].wd \notin Stale')
  PROVE  StaleTold' /\ OneWatch'
<1>1. buf \in Seq(Range(buf)) /\ Len(buf) \in Nat /\ DOMAIN buf = 1..Len(buf)
  BY DEF IInv, EventsTruthful, IsSeq
<1>2. OneWatch'
  BY DEF OneWatch
<1>3. ASSUME NEW j \in (n + 1)..Len(buf) PROVE buf[j] \in Range(buf')
  <2>1. \A i \in 1..Len(buf) : buf[i] \in Range(buf)
    BY <1>1
  <2>2. j - n \in DOMAIN buf' /\ buf'[j - n] = buf[j]
    BY <1>1, <1>3, <2>1
  <2> QED
    BY <2>2, Zenon DEF Range
<1>4. ASSUME NEW wd \in Stale' PROVE Told(wd)'
  <2>1. PICK ev \in Range(buf) \cup Range(queue) : ev = Overflow \/ (ev.wd = wd /\ ev.type \in Fatal)
    BY <1>4 DEF StaleTold, Told
  <2>2. CASE ev \in Range(queue)
    BY <2>1, <2>2 DEF Told
  <2>3. CASE ev \in Range(buf)
    <3>1. PICK j \in 1..Len(buf) : buf[j] = ev
      BY <1>1, <2>3 DEF Range
    <3>2. j \notin 1..n
      BY <1>4, <2>1, <3>1
    <3>3. ev \in Range(buf')
      BY <1>1, <1>3, <3>1, <3>2
    <3> QED
      BY <2>1, <3>3 DEF Told
  <2> QED
    BY <2>2, <2>3
<1> QED
  BY <1>2, <1>4 DEF StaleTold

\* The first event is done with, which told of no stale entry.
LEMMA StaleTail ==
  ASSUME IInv, StaleTold, OneWatch, pc = "process", UNCHANGED <<watch, queue, cache>>, buf' = Tail(buf),
         Ev # Overflow, Ev.type \notin Fatal
  PROVE  StaleTold' /\ OneWatch'
<1>1. buf \in Seq(Range(buf)) /\ Len(buf) \in Nat /\ buf # <<>>
  BY DEF IInv, EventsTruthful, IsSeq
<1>2. 1 <= Len(buf) /\ Tail(buf) = SubSeq(buf, 1 + 1, Len(buf)) /\ Ev = buf[1]
  BY <1>1 DEF Ev
<1>3. Stale' = Stale
  BY DEF Stale, CachedWds
<1>4. \A i \in 1..1 : buf[i] # Overflow /\ (buf[i].type \in Fatal => buf[i].wd \notin Stale')
  BY <1>2
<1> QED
  BY <1>1, <1>2, <1>3, <1>4, StaleConsume

\* The overflow event is of its own type.
LEMMA OverflowType == Overflow.type = "OVERFLOW"
BY DEF Overflow, Event

\* Processing an event consumes the one about a stale slot only with the slot.
LEMMA StaleEvent ==
  ASSUME IInv, StaleTold, OneWatch, ProcessNextInotifyEvent
  PROVE  StaleTold' /\ OneWatch'
<1>b. pc = "process" => buf \in Seq(Range(buf)) /\ Len(buf) \in Nat /\ 1 <= Len(buf) /\ Ev = buf[1]
  BY DEF IInv, EventsTruthful, IsSeq, Ev
<1>o. Ev.type # "OVERFLOW" => Ev # Overflow
  BY OverflowType
<1>r. ASSUME Reinitialize PROVE StaleTold' /\ OneWatch'
  BY <1>r, StaleNew DEF Reinitialize, NewInstance
<1>u. ASSUME UNCHANGED <<kernelVars, cache>>, pc = "process", Ev.type \notin Fatal \cup {"OVERFLOW"}, Consume(1)
      PROVE  StaleTold' /\ OneWatch'
  BY <1>u, <1>b, <1>o, StaleConsume, SMTT(30) DEF Consume, kernelVars, Stale, CachedWds
<1>f. ASSUME UNCHANGED kernelVars, pc = "process", Ev.type \in Fatal, Consume(1), cache' = WithoutWd(Ev.wd)
      PROVE  StaleTold' /\ OneWatch'
  <2>1. Stale' \subseteq Stale /\ Ev.wd \notin Stale'
    BY <1>f DEF kernelVars, Stale, CachedWds, WithoutWd
  <2> QED
    BY <1>f, <1>b, <1>o, <2>1, StaleConsume, SMTT(30) DEF Consume, kernelVars, Fatal
<1>1. CASE EvUnknown \/ EvOverflow
  BY <1>1, <1>r DEF EvUnknown, EvOverflow
<1>3. CASE EvIgnored
  BY <1>3, <1>u DEF EvIgnored, Processing, Fatal
<1>4. CASE EvCreate
  <2>1. pc = "process" /\ Ev.type \notin Fatal \cup {"OVERFLOW"} /\ UNCHANGED <<kernelVars, cache>>
    BY <1>4 DEF EvCreate, Processing, Fatal
  <2>2. CASE Consume(1)
    BY <1>u, <2>1, <2>2
  <2>3. CASE ConsumeAndWatch(EvPath)
    BY <1>o, <2>1, <2>3, StaleTail DEF ConsumeAndWatch, kernelVars
  <2> QED
    BY <1>4, <2>2, <2>3 DEF EvCreate
<1>5. ASSUME Exit PROVE StaleTold' /\ OneWatch'
  BY <1>5, StaleSame DEF Exit, kernelVars
<1>6. CASE EvDeleteSelf
  BY <1>6, <1>5, <1>f DEF EvDeleteSelf, Processing, Fatal
<1>7. CASE EvUnmount
  BY <1>7, <1>f DEF EvUnmount, Processing, Fatal
<1>8. CASE EvMoveSelf
  <2>1. pc = "process" /\ Ev.type \notin Fatal \cup {"OVERFLOW"}
    BY <1>8 DEF EvMoveSelf, Processing, Fatal
  <2>2. CASE ConsumeAndZap(EvDir)
    BY <1>o, <2>1, <2>2, StaleTail DEF ConsumeAndZap, kernelVars
  <2>3. CASE Consume(1) /\ UNCHANGED <<kernelVars, cache>>
    BY <1>u, <2>1, <2>3
  <2> QED
    BY <1>5, <1>8, <2>2, <2>3 DEF EvMoveSelf
<1>9. CASE EvRename
  <2>1. /\ pc = "process" /\ Ev.type = "MOVED_FROM" /\ Len(buf) > 1 /\ buf[2].type = "MOVED_TO"
    BY <1>9 DEF EvRename, Processing, IsPair, HasNext
  <2>2. CASE Reinitialize
    BY <1>r, <2>2
  <2>3. CASE ~Reinitialize
    <3>1. PICK old, new : cache' = Rewritten(old, new) /\ Consume(2) /\ UNCHANGED kernelVars
      BY <1>9, <2>3 DEF EvRename
    <3>2. CachedWds' \subseteq CachedWds
      BY <3>1, RewrittenWds
    <3>3. \A i \in 1..2 : buf[i] # Overflow /\ buf[i].type \notin Fatal
      BY <1>b, <2>1, OverflowType DEF Fatal
    <3> QED
      BY <1>b, <2>1, <3>1, <3>2, <3>3, StaleConsume, SMTT(30) DEF Consume, kernelVars, Stale
  <2> QED
    BY <2>2, <2>3
<1>10. CASE EvMovedOut
  <2>1. /\ pc = "process" /\ Ev.type \notin Fatal \cup {"OVERFLOW"} /\ buf' = Tail(buf)
        /\ UNCHANGED <<kernelVars, cache>>
    BY <1>10 DEF EvMovedOut, Processing, Fatal, ConsumeAndZap
  <2> QED
    BY <1>o, <2>1, StaleTail DEF kernelVars
<1>11. CASE EvHanging
  BY <1>11, StaleSame DEF EvHanging, kernelVars
<1> QED
  BY <1>1, <1>3, <1>4, <1>6, <1>7, <1>8, <1>9, <1>10, <1>11 DEF ProcessNextInotifyEvent

\* Removing the watches of a subtree leaves stale slots told of.
LEMMA StaleZap ==
  ASSUME IInv, StaleTold, OneWatch, Zapping
  PROVE  StaleTold' /\ OneWatch'
<1>r. ASSUME ZapReturn PROVE StaleTold' /\ OneWatch'
  BY <1>r, StaleSame DEF ZapReturn, kernelVars, loopVars
<1>1. CASE ZapSlot
  <2>1. PICK e \in cache : e.wd \in DOMAIN watch /\ RmWatch(e.wd) /\ cache' = cache \ {e} /\ buf' = buf
    BY <1>1 DEF ZapSlot, Zapped, loopVars
  <2>2. DOMAIN watch' = DOMAIN watch \ {e.wd} /\ \A w \in DOMAIN watch' : watch'[w] = watch[w]
    BY <2>1, Zenon DEF RmWatch, WithoutWds, Restrict
  <2>3. Stale' \subseteq Stale
    BY <2>1, <2>2 DEF Stale, CachedWds, IInv, WdUnique
  <2>4. Range(queue) \subseteq Range(queue')
    <3>1. Range(queue) \subseteq Range(Post(queue, Event(e.wd, "IGNORED", "", None)))
      BY PostRange, Zenon DEF IInv, EventsTruthful
    <3> QED
      BY <2>1, <3>1, Zenon DEF RmWatch
  <2> QED
    BY <2>1, <2>2, <2>3, <2>4, StaleKept DEF OneWatch
<1>2. CASE ZapFail
  BY <1>2, <1>r, StaleNew, Zenon DEF ZapFail, Reinitialize, NewInstance
<1>3. CASE ZapDone
  BY <1>3, <1>r DEF ZapDone
<1> QED
  BY <1>1, <1>2, <1>3 DEF Zapping

\* read() moves the events about stale slots and loses none.
LEMMA StaleRead ==
  ASSUME IInv, StaleTold, OneWatch, ReadEvents \/ RereadEvents \/ RereadTimeout \/ RereadLate
  PROVE  StaleTold' /\ OneWatch'
<1>q. /\ IsSeq(queue) /\ IsSeq(buf) /\ queue \in Seq(Range(queue)) /\ Len(queue) \in Nat
      /\ DOMAIN queue = 1..Len(queue) /\ \A i \in 1..Len(queue) : queue[i] \in Range(queue)
  BY DEF IInv, EventsTruthful, IsSeq, Range
<1>1. CASE ReadEvents
  <2> DEFINE n == IF Len(queue) < BufMax THEN Len(queue) ELSE BufMax
  <2>1. n \in Nat /\ n <= Len(queue)
    BY <1>q, BufMaxAssumption
  <2>2. buf' = SubSeq(queue, 1, n) /\ queue' = SubSeq(queue, n + 1, Len(queue)) /\ UNCHANGED <<watch, cache>>
    BY <1>1 DEF ReadEvents
  <2>3. Range(buf) = {}
    BY <1>1, NoElements DEF ReadEvents, IInv, EventsTruthful
  <2> HIDE DEF n
  <2>4. ASSUME NEW i \in 1..n PROVE queue[i] \in Range(buf')
    <3>1. i \in DOMAIN buf' /\ buf'[i] = queue[i]
      BY <1>q, <2>1, <2>2, <2>4
    <3> QED
      BY <3>1 DEF Range
  <2>5. ASSUME NEW i \in (n + 1)..Len(queue) PROVE queue[i] \in Range(queue')
    <3>1. i - n \in DOMAIN queue' /\ queue'[i - n] = queue[i]
      BY <1>q, <2>1, <2>2, <2>5
    <3> QED
      BY <3>1 DEF Range
  <2>6. Range(queue) \subseteq Range(buf') \cup Range(queue')
    <3> SUFFICES ASSUME NEW i \in 1..Len(queue) PROVE queue[i] \in Range(buf') \cup Range(queue')
      BY <1>q DEF Range
    <3>1. i \in 1..n \/ i \in (n + 1)..Len(queue)
      BY <1>q, <2>1
    <3> QED
      BY <2>4, <2>5, <3>1
  <2> QED
    BY <2>2, <2>3, <2>6, StaleKept DEF Stale, CachedWds, OneWatch
<1>2. CASE RereadEvents
  <2>1. buf' = buf \o queue /\ UNCHANGED <<watch, cache>>
    BY <1>2 DEF RereadEvents
  <2>2. Range(buf') = Range(buf) \cup Range(queue)
    BY <1>q, <2>1, ConcatRange
  <2> QED
    BY <2>1, <2>2, StaleKept DEF Stale, CachedWds, OneWatch
<1>3. CASE RereadTimeout \/ RereadLate
  BY <1>3, StaleSame DEF RereadTimeout, RereadLate, kernelVars, loopVars
<1> QED
  BY <1>1, <1>2, <1>3

\* A command leaves stale slots told of.
LEMMA StaleCommand ==
  ASSUME IInv, StaleTold, OneWatch, ExecuteCommand
  PROVE  StaleTold' /\ OneWatch'
<1>1. CASE CmdZap("a") \/ CmdZap("z") \/ CmdQuit
  BY <1>1, StaleSame DEF CmdZap, CmdQuit, Commanded, loopVars
<1>2. CASE CmdRebuild
  BY <1>2, StaleNew DEF CmdRebuild, NewInstance
<1> QED
  BY <1>1, <1>2 DEF ExecuteCommand

\* A notification is queued, and nothing is dropped from the queue.
LEMMA StaleNotified ==
  ASSUME IInv, StaleTold, OneWatch, UNCHANGED <<watch, cache, buf>>, NEW n, queue' = Notified(queue, n)
  PROVE  StaleTold' /\ OneWatch'
<1>1. CASE queue' = queue
  BY <1>1, StaleSame
<1>2. CASE queue' = Post(queue, Event(WdOf(n.ino), n.type, n.name, n.cookie))
  <2>1. Range(queue) \subseteq Range(Post(queue, Event(WdOf(n.ino), n.type, n.name, n.cookie)))
    BY PostRange, Zenon DEF IInv, EventsTruthful
  <2>2. Range(buf) \cup Range(queue) \subseteq Range(buf') \cup Range(queue')
    BY <1>2, <2>1
  <2> QED
    BY <2>2, StaleKept, Zenon DEF Stale, CachedWds, OneWatch
<1> QED
  BY <1>1, <1>2 DEF Notified

\* A change by another process that ends a watch queues the event that says so.
LEMMA StaleChange ==
  ASSUME IInv, StaleTold, OneWatch, NEW k \in Procs, Change(k)
  PROVE  StaleTold' /\ OneWatch'
<1>1. UNCHANGED <<cache, buf>>
  BY Zenon DEF Change, progVars, loopVars
<1>2. ASSUME NEW p, NEW n, Mkdir(k, p, n) PROVE StaleTold' /\ OneWatch'
  BY <1>1, <1>2, StaleNotified DEF Mkdir
<1>3. ASSUME NEW p, NEW open, Rmdir(k, p, open) PROVE StaleTold' /\ OneWatch'
  <2> PICK i : i = tree[p]
    OBVIOUS
  <2>1. CASE i \in open
    BY <1>1, <1>3, <2>1, StaleSame, Zenon DEF Rmdir
  <2>2. CASE i \notin open
    <3>1. queue' = Evicted(queue, i, "DELETE_SELF") /\ watch' = WithoutWds(WdsOf(i))
      BY <1>3, <2>2, Zenon DEF Rmdir
    <3> QED
      BY <1>1, <3>1, StaleEvicted DEF Fatal
  <2> QED
    BY <2>1, <2>2
<1>4. ASSUME NEW p, NEW q, NEW cookie, Rename(k, p, q, cookie) PROVE StaleTold' /\ OneWatch'
  <2>1. UNCHANGED <<watch, queue>>
    BY <1>4, Zenon DEF Rename
  <2> QED
    BY <1>1, <2>1, StaleSame
<1>5. ASSUME NEW r, NEW open, Unmount(k, r, open) PROVE StaleTold' /\ OneWatch'
  <2>1. UNCHANGED <<watch, queue>>
    BY <1>5, Zenon DEF Unmount
  <2> QED
    BY <1>1, <2>1, StaleSame
<1> QED
  BY <1>2, <1>3, <1>4, <1>5, Zenon DEF Change

\* A notification leaves stale slots told of.
LEMMA StaleNotify ==
  ASSUME IInv, StaleTold, OneWatch, NEW k \in Procs, Notify(k)
  PROVE  StaleTold' /\ OneWatch'
<1> PICK n : n = Head(inflight[k].notes)
  OBVIOUS
<1>1. UNCHANGED <<cache, buf>>
  BY DEF Notify, progVars, loopVars
<1>2. CASE n.type = "UNMOUNT"
  <2> PICK i : i = n.ino
    OBVIOUS
  <2>1. queue' = Evicted(queue, i, "UNMOUNT") /\ watch' = WithoutWds(WdsOf(i))
    BY <1>2, Zenon DEF Notify, Emit
  <2> QED
    BY <1>1, <2>1, StaleEvicted DEF Fatal
<1>3. CASE n.type # "UNMOUNT"
  <2>1. queue' = Notified(queue, n) /\ UNCHANGED watch
    BY <1>3 DEF Notify, Emit
  <2> QED
    BY <1>1, <2>1, StaleNotified
<1> QED
  BY <1>2, <1>3

\* Every step leaves stale slots told of.
LEMMA StaleStep ==
  ASSUME IInv, StaleTold, OneWatch, [Next]_vars
  PROVE  StaleTold' /\ OneWatch'
<1>1. CASE SelectEvents \/ UNCHANGED vars
  BY <1>1, StaleSame DEF SelectEvents, vars, progVars, kernelVars, loopVars
<1> QED
  BY <1>1, StaleWalk, StaleZap, StaleRead, StaleEvent, StaleCommand, StaleChange, StaleNotify
     DEF Next, Program, ProcessInotifyEvents
-----------------------------------------------------------------------------
(* The values of the variables *)

\* Watch descriptors are numbered from 1 on.
Numbered ==
  /\ nextWd \in Nat /\ nextWd >= 1
  /\ \A wd \in DOMAIN watch : wd \in 1..(nextWd - 1) /\ watch[wd].self \in BOOLEAN
  /\ CachedWds \subseteq 1..(nextWd - 1)

Controlled ==
  /\ roots \subseteq RootPaths /\ firstTry \in BOOLEAN /\ thenRead \in BOOLEAN
  /\ pc \in {"walk", "zap", "select", "read", "process", "reread", "rereadUntimed", "exit"}
  /\ pc # "walk" => walk = <<>> /\ rootsTodo = <<>>

TreeTyped == ClosedTree(DOMAIN tree) /\ \A p \in DOMAIN tree : tree[p] \in Inodes \cup Range(InitTree)

\* Watches and slots that go away leave the rest numbered.
LEMMA NumberedLess ==
  ASSUME Numbered, UNCHANGED nextWd, CachedWds' \subseteq CachedWds,
         \A wd \in DOMAIN watch' : wd \in DOMAIN watch /\ watch'[wd] = watch[wd]
  PROVE  Numbered'
BY DEF Numbered

\* So does a step that leaves them alone.
LEMMA NumberedSame ==
  ASSUME Numbered, UNCHANGED <<watch, nextWd, cache>>
  PROVE  Numbered'
BY DEF Numbered, CachedWds

\* A new instance has nothing to number.
LEMMA NumberedNew ==
  ASSUME NewInstance, cache' = {}
  PROVE  Numbered'
BY DEF NewInstance, Numbered, CachedWds

\* Watches taken away leave the rest numbered.
LEMMA NumberedWithout ==
  ASSUME Numbered, UNCHANGED nextWd, cache' \subseteq cache, NEW S, watch' = WithoutWds(S)
  PROVE  Numbered'
<1>1. \A wd \in DOMAIN watch' : wd \in DOMAIN watch /\ watch'[wd] = watch[wd]
  BY DEF WithoutWds, Restrict
<1> QED
  BY <1>1, NumberedLess DEF CachedWds

\* inotify_add_watch() keeps the masks of the watches typed.
LEMMA AddWatchSelf ==
  ASSUME NEW i, NEW self \in BOOLEAN, AddWatch(i, self), \A wd \in DOMAIN watch : watch[wd].self \in BOOLEAN
  PROVE  \A wd \in DOMAIN watch' : watch'[wd].self \in BOOLEAN
<1> SUFFICES ASSUME NEW wd \in DOMAIN watch' PROVE watch'[wd].self \in BOOLEAN
  OBVIOUS
<1>1. CASE wd = WatchedWd(i)
  <2>1. watch'[wd] = [ino |-> i, self |-> self]
    BY <1>1, Zenon DEF AddWatch
  <2>2. [ino |-> i, self |-> self].self = self
    BY Zenon
  <2> QED
    BY <2>1, <2>2, Zenon
<1>2. CASE wd # WatchedWd(i)
  <2>1. wd \in DOMAIN watch /\ watch'[wd] = watch[wd]
    BY <1>2, Zenon DEF AddWatch
  <2> QED
    BY <2>1, Zenon
<1> QED
  BY <1>1, <1>2

\* Every step of the program keeps watches and slots below the next descriptor.
LEMMA NumberedProgram ==
  ASSUME Numbered, Program \/ ExecuteCommand
  PROVE  Numbered'
<1>1. CASE WalkVisit
  <2>1. PICK p : TraverseTree(p)
    BY <1>1 DEF WalkVisit
  <2>2. CASE ~Dir(p)
    BY <2>1, <2>2, NumberedSame DEF TraverseTree
  <2>3. CASE Dir(p)
    <3>1. AddWatch(tree[p], p \in roots) /\ CachedWds' \subseteq CachedWds \cup {WatchedWd(tree[p])}
      BY <2>1, <2>3 DEF TraverseTree, CachedWds
    <3>2. WatchedWd(tree[p]) \in 1..(nextWd' - 1) /\ nextWd' \in Nat /\ nextWd' >= nextWd
      <4>1. nextWd \in Nat \ {0} /\ \A wd \in DOMAIN watch : wd \in 1..(nextWd - 1)
        BY DEF Numbered
      <4>2. CASE WdsOf(tree[p]) = {}
        BY <3>1, <4>1, <4>2, SMTT(30) DEF AddWatch, WatchedWd
      <4>3. CASE WdsOf(tree[p]) # {}
        <5>1. WatchedWd(tree[p]) \in DOMAIN watch /\ nextWd' = nextWd
          BY <3>1, <4>3, ChosenWd, Zenon DEF AddWatch, WatchedWd
        <5> QED
          BY <4>1, <5>1
      <4> QED
        BY <4>2, <4>3
    <3>3. \A wd \in DOMAIN watch' : wd \in 1..(nextWd' - 1) /\ watch'[wd].self \in BOOLEAN
      <4>1. DOMAIN watch' = DOMAIN watch \cup {WatchedWd(tree[p])}
        BY <3>1, Zenon DEF AddWatch
      <4>2. \A wd \in DOMAIN watch' : wd \in 1..(nextWd' - 1)
        BY <3>2, <4>1 DEF Numbered
      <4>3. \A wd \in DOMAIN watch' : watch'[wd].self \in BOOLEAN
        <5>1. \A wd \in DOMAIN watch : watch[wd].self \in BOOLEAN
          BY DEF Numbered
        <5>2. (p \in roots) \in BOOLEAN
          OBVIOUS
        <5> QED
          BY <3>1, <5>1, <5>2, AddWatchSelf, Zenon
      <4> QED
        BY <4>2, <4>3
    <3> QED
      BY <3>1, <3>2, <3>3 DEF Numbered
  <2> QED
    BY <2>2, <2>3
<1>2. CASE WalkClose
  <2>1. CASE Head(walk).dir \in orphans
    <3>1. watch' = WithoutWds(WdsOf(Head(walk).dir)) /\ UNCHANGED <<nextWd, cache>>
      BY <1>2, <2>1, Zenon DEF WalkClose
    <3> QED
      BY <3>1, NumberedWithout
  <2>2. CASE Head(walk).dir \notin orphans
    BY <1>2, <2>2, NumberedSame DEF WalkClose
  <2> QED
    BY <2>1, <2>2, Zenon
<1>3. CASE WalkGone \/ WalkList \/ WalkNextRoot \/ WalkDone
  BY <1>3, NumberedSame, Zenon DEF WalkGone, WalkList, WalkNextRoot, WalkDone, kernelVars
<1>4. CASE ZapSlot
  BY <1>4, NumberedWithout, Zenon DEF ZapSlot, RmWatch
<1>5. ASSUME Reinitialize PROVE Numbered'
  BY <1>5, NumberedNew DEF Reinitialize
<1>6. CASE ZapFail \/ ZapDone
  BY <1>5, <1>6, NumberedSame, Zenon DEF ZapFail, ZapDone, ZapReturn, kernelVars
<1>7. CASE SelectEvents \/ ReadEvents \/ RereadEvents \/ RereadTimeout \/ RereadLate
  BY <1>7, NumberedSame, Zenon DEF SelectEvents, ReadEvents, RereadEvents, RereadTimeout, RereadLate, kernelVars
<1>8. CASE EvUnknown \/ EvOverflow
  BY <1>5, <1>8 DEF EvUnknown, EvOverflow
<1>9. CASE EvIgnored \/ EvCreate \/ EvMovedOut \/ EvHanging
  BY <1>9, NumberedSame, Zenon DEF EvIgnored, EvCreate, EvMovedOut, EvHanging, ConsumeAndZap, kernelVars
<1>10. CASE EvMoveSelf
  BY <1>10, NumberedSame DEF EvMoveSelf, ConsumeAndZap, Exit, kernelVars
<1>11. CASE EvDeleteSelf \/ EvUnmount
  <2>1. UNCHANGED <<watch, nextWd>> /\ (UNCHANGED cache \/ cache' = WithoutWd(Ev.wd))
    BY <1>11 DEF EvDeleteSelf, EvUnmount, Exit, kernelVars
  <2>2. CachedWds' \subseteq CachedWds
    BY <2>1 DEF CachedWds, WithoutWd
  <2> QED
    BY <2>1, <2>2, NumberedLess
<1>12. CASE EvRename
  <2>1. CASE Reinitialize
    BY <1>5, <2>1
  <2>2. CASE ~Reinitialize
    <3>1. PICK old, new : cache' = Rewritten(old, new) /\ UNCHANGED <<watch, nextWd>>
      BY <1>12, <2>2 DEF EvRename, kernelVars
    <3>2. CachedWds' \subseteq CachedWds
      BY <3>1, RewrittenWds
    <3> QED
      BY <3>1, <3>2, NumberedLess
  <2> QED
    BY <2>1, <2>2
<1>13. CASE ExecuteCommand
  BY <1>13, NumberedSame, NumberedNew, Zenon DEF ExecuteCommand, CmdZap, CmdRebuild, CmdQuit
<1> QED
  BY <1>1, <1>2, <1>3, <1>4, <1>6, <1>7, <1>8, <1>9, <1>10, <1>11, <1>12, <1>13
     DEF Program, Walking, Zapping, ProcessInotifyEvents, ProcessNextInotifyEvent

\* What the loops of the program do to the other variables.
LEMMA ControlledProgram ==
  ASSUME IInv, Controlled, Program \/ ExecuteCommand
  PROVE  Controlled'
<1> USE DEF Controlled, loopVars, walkVars
<1>1. CASE Walking
  BY <1>1, Zenon DEF Walking, WalkVisit, WalkGone, WalkList, WalkClose, WalkNextRoot, WalkDone, Resume
<1>2. ASSUME Reinitialize, roots' = roots, pc # "walk" PROVE Controlled'
  BY <1>2 DEF Reinitialize
<1>3. CASE Zapping
  <2>1. CASE ZapSlot
    BY <2>1, Zenon DEF ZapSlot
  <2>2. ASSUME ZapReturn, pc = "zap" PROVE Controlled'
    BY <2>2, Zenon DEF ZapReturn, Resume
  <2> QED
    BY <1>2, <1>3, <2>1, <2>2, Zenon DEF Zapping, ZapFail, ZapDone
<1>4. CASE SelectEvents \/ ReadEvents \/ RereadEvents \/ RereadTimeout \/ RereadLate
  BY <1>4, Zenon DEF SelectEvents, ReadEvents, RereadEvents, RereadTimeout, RereadLate
<1>5. CASE EvUnknown \/ EvOverflow
  BY <1>2, <1>5 DEF EvUnknown, EvOverflow, Processing
<1>6. CASE EvIgnored \/ EvUnmount \/ EvHanging
  BY <1>6, Zenon DEF EvIgnored, EvUnmount, EvHanging, Processing, Consume
<1>7. CASE EvCreate \/ EvMovedOut
  BY <1>7, Zenon DEF EvCreate, EvMovedOut, Processing, Consume, ConsumeAndWatch, ConsumeAndZap
<1>8. CASE EvDeleteSelf
  BY <1>8, Zenon DEF EvDeleteSelf, Processing, Consume, Exit
<1>9. CASE EvMoveSelf
  BY <1>9, Zenon DEF EvMoveSelf, Processing, Consume, ConsumeAndZap, Exit
<1>10. CASE EvRename
  BY <1>2, <1>10, Zenon DEF EvRename, Processing, Consume
<1>11. CASE ExecuteCommand
  BY <1>11, Zenon DEF ExecuteCommand, CmdZap, CmdRebuild, CmdQuit, Commanded
<1> QED
  BY <1>1, <1>3, <1>4, <1>5, <1>6, <1>7, <1>8, <1>9, <1>10, <1>11, Zenon
     DEF Program, ProcessInotifyEvents, ProcessNextInotifyEvent
-----------------------------------------------------------------------------
(* The tree stays a tree *)

Paths == Seq(STRING)

\* What a prefix of a path is below, the path is below.
LEMMA BelowPrefix ==
  ASSUME NEW p \in Paths, NEW x \in Paths, NEW n \in 0..Len(x), Below(p, SubSeq(x, 1, n))
  PROVE  Below(p, x)
BY DEF Below, Paths

\* A path below p moves to one below q, and back.
LEMMA MovedPath ==
  ASSUME NEW p \in Paths, NEW q \in Paths, NEW y \in Paths, Below(p, y)
  PROVE  /\ Moved(p, q, y) \in Paths /\ Len(Moved(p, q, y)) = Len(q) + Len(y) - Len(p)
         /\ Below(q, Moved(p, q, y)) /\ Moved(q, p, Moved(p, q, y)) = y
<1>1. SubSeq(y, Len(p) + 1, Len(y)) \in Paths /\ Len(SubSeq(y, Len(p) + 1, Len(y))) = Len(y) - Len(p)
  BY DEF Below, Paths
<1>2. Moved(p, q, y) \in Paths /\ Len(Moved(p, q, y)) = Len(q) + Len(y) - Len(p)
  BY <1>1, SMTT(30) DEF Moved, Paths
<1>3. Below(q, Moved(p, q, y))
  BY <1>1 DEF Moved, Below, Paths
<1>4. Moved(q, p, Moved(p, q, y)) = y
  BY DEF Moved, Below, Paths
<1> QED
  BY <1>2, <1>3, <1>4

\* The prefixes of a moved path are prefixes of the target or moved prefixes.
LEMMA MovedPrefix ==
  ASSUME NEW p \in Paths, NEW q \in Paths, NEW y \in Paths, Below(p, y), NEW n \in 0..Len(Moved(p, q, y))
  PROVE  /\ n < Len(q) => SubSeq(Moved(p, q, y), 1, n) = SubSeq(q, 1, n)
         /\ n >= Len(q) => /\ Len(p) + n - Len(q) \in 0..Len(y)
                           /\ Below(p, SubSeq(y, 1, Len(p) + n - Len(q)))
                           /\ SubSeq(Moved(p, q, y), 1, n) = Moved(p, q, SubSeq(y, 1, Len(p) + n - Len(q)))
<1>1. Len(Moved(p, q, y)) = Len(q) + Len(y) - Len(p) /\ Len(p) <= Len(y)
  BY MovedPath DEF Below
<1>2. n < Len(q) => SubSeq(Moved(p, q, y), 1, n) = SubSeq(q, 1, n)
  BY <1>1 DEF Moved, Below, Paths
<1>3. ASSUME n >= Len(q)
      PROVE  /\ Len(p) + n - Len(q) \in 0..Len(y)
             /\ Below(p, SubSeq(y, 1, Len(p) + n - Len(q)))
  BY <1>1, <1>3 DEF Below, Paths
<1>4. ASSUME n >= Len(q)
      PROVE  SubSeq(Moved(p, q, y), 1, n) = Moved(p, q, SubSeq(y, 1, Len(p) + n - Len(q)))
  <2> DEFINE m == Len(p) + n - Len(q)
             rest == SubSeq(y, Len(p) + 1, Len(y))
  <2>1. m \in Len(p)..Len(y) /\ Len(p) \in Nat /\ Len(q) \in Nat /\ n - Len(q) \in 0..Len(y) - Len(p)
    BY <1>1, <1>3, <1>4 DEF Paths
  <2>2. SubSeq(y, 1, m) \in Paths /\ Len(SubSeq(y, 1, m)) = m
    BY <2>1 DEF Paths
  <2>3. SubSeq(SubSeq(y, 1, m), Len(p) + 1, m) = SubSeq(y, Len(p) + 1, m)
    BY <2>1, <2>2 DEF Paths
  <2>4. rest \in Paths /\ Len(rest) = Len(y) - Len(p)
    BY <2>1 DEF Paths
  <2>5. SubSeq(rest, 1, n - Len(q)) = SubSeq(y, Len(p) + 1, m)
    BY <2>1, <2>4 DEF Paths
  <2> HIDE DEF rest
  <2>6. SubSeq(q \o rest, 1, n) = q \o SubSeq(rest, 1, n - Len(q))
    BY <1>4, <2>1, <2>4 DEF Paths
  <2> QED
    BY <2>2, <2>3, <2>5, <2>6, Zenon DEF Moved, rest
<1> QED
  BY <1>2, <1>3, <1>4

\* The second half, for a prefix that reaches into what was moved.
LEMMA MovedTail ==
  ASSUME NEW p \in Paths, NEW q \in Paths, NEW y \in Paths, Below(p, y), NEW n \in 0..Len(Moved(p, q, y)), n >= Len(q)
  PROVE  /\ Len(p) + n - Len(q) \in 0..Len(y) /\ Below(p, SubSeq(y, 1, Len(p) + n - Len(q)))
         /\ SubSeq(Moved(p, q, y), 1, n) = Moved(p, q, SubSeq(y, 1, Len(p) + n - Len(q)))
  BY MovedPrefix, Zenon

\* Append leaves the prefixes of a sequence.
LEMMA AppendPrefix ==
  ASSUME NEW S, NEW p \in Seq(S), NEW n \in S
  PROVE  /\ Append(p, n) \in Seq(S) /\ Len(Append(p, n)) = Len(p) + 1
         /\ \A m \in 0..Len(p) : SubSeq(Append(p, n), 1, m) = SubSeq(p, 1, m)
OBVIOUS

\* A path with one more name is a path with the same prefixes.
LEMMA AppendPath ==
  ASSUME NEW p \in Paths, NEW n \in Names
  PROVE  /\ Append(p, n) \in Paths /\ Len(Append(p, n)) = Len(p) + 1
         /\ \A m \in 0..Len(p) : SubSeq(Append(p, n), 1, m) = SubSeq(p, 1, m)
<1>1. n \in STRING
  BY InitTreeAssumption, Zenon
<1> QED
  BY <1>1, AppendPrefix, Zenon DEF Paths

\* The inode chosen for a new directory is an inode.
LEMMA FreeInode ==
  ASSUME FreeInodes # {}
  PROVE  (CHOOSE i \in FreeInodes : TRUE) \in Inodes
<1>1. (CHOOSE i \in FreeInodes : TRUE) \in FreeInodes
  OBVIOUS
<1> QED
  BY <1>1 DEF FreeInodes

\* mkdir() leaves a tree.
LEMMA TreeMkdir ==
  ASSUME TreeTyped, NEW k, NEW p, NEW n \in Names, Mkdir(k, p, n)
  PROVE  TreeTyped'
<1> PICK d : d = Append(p, n)
  BY Zenon
<1>1. /\ p \in DOMAIN tree /\ DOMAIN tree' = DOMAIN tree \cup {d}
      /\ \A x \in DOMAIN tree' : tree'[x] = IF x = d THEN CHOOSE i \in FreeInodes : TRUE ELSE tree[x]
  BY DEF Mkdir, Dir
<1>2. p \in Paths /\ d \in Paths /\ Len(d) = Len(p) + 1
  <2>1. p \in Paths
    BY <1>1, Zenon DEF TreeTyped, ClosedTree, Paths
  <2> QED
    BY <2>1, AppendPath
<1>3. \A m \in 0..Len(d) : SubSeq(d, 1, m) \in DOMAIN tree'
  <2> SUFFICES ASSUME NEW m \in 0..Len(d) PROVE SubSeq(d, 1, m) \in DOMAIN tree'
    OBVIOUS
  <2>1. CASE m = Len(d)
    <3>1. SubSeq(d, 1, m) = d
      BY <1>2, <2>1 DEF Paths
    <3> QED
      BY <1>1, <3>1
  <2>2. CASE m # Len(d)
    <3>1. m \in 0..Len(p)
      BY <1>2, <2>2 DEF Paths
    <3>2. SubSeq(d, 1, m) = SubSeq(p, 1, m)
      BY <1>2, <3>1, AppendPath
    <3> QED
      BY <1>1, <3>1, <3>2, Zenon DEF TreeTyped, ClosedTree
  <2> QED
    BY <2>1, <2>2
<1>4. ClosedTree(DOMAIN tree')
  BY <1>1, <1>2, <1>3, Zenon DEF TreeTyped, ClosedTree, Paths
<1>5. \A x \in DOMAIN tree' : tree'[x] \in Inodes \cup Range(InitTree)
  BY <1>1, FreeInode, Zenon DEF Mkdir, TreeTyped
<1> QED
  BY <1>4, <1>5 DEF TreeTyped

\* rmdir() of an empty directory leaves a tree.
LEMMA TreeRmdir ==
  ASSUME TreeTyped, NEW k, NEW p, NEW open, Rmdir(k, p, open)
  PROVE  TreeTyped'
<1>1. /\ p \in DOMAIN tree /\ Children(p) = {} /\ DOMAIN tree' = DOMAIN tree \ {p}
      /\ \A x \in DOMAIN tree' : tree'[x] = tree[x]
  BY DEF Rmdir, Dir, Restrict
<1>2. ASSUME NEW x \in DOMAIN tree', NEW n \in 0..Len(x)
      PROVE  SubSeq(x, 1, n) \in DOMAIN tree'
  <2>1. x \in Paths /\ p \in Paths /\ SubSeq(x, 1, n) \in DOMAIN tree
    BY <1>1, Zenon DEF TreeTyped, ClosedTree, Paths
  <2>2. ASSUME SubSeq(x, 1, n) = p PROVE FALSE
    <3>1. Len(p) = n /\ n # Len(x)
      <4>1. x \in Seq(STRING) /\ n \in 0..Len(x)
        BY <1>2, <2>1 DEF Paths
      <4>2. Len(SubSeq(x, 1, n)) = n
        BY <4>1
      <4>3. n = Len(x) => SubSeq(x, 1, n) = x
        BY <4>1
      <4>4. x # p
        BY <1>1, <1>2, Zenon
      <4> QED
        BY <2>2, <4>2, <4>3, <4>4, Zenon
    <3>2. n + 1 \in 0..Len(x)
      BY <2>1, <3>1 DEF Paths
    <3>3. SubSeq(x, 1, n + 1) \in DOMAIN tree
      BY <1>1, <3>2, Zenon DEF TreeTyped, ClosedTree
    <3>4. Len(SubSeq(x, 1, n + 1)) = Len(p) + 1 /\ SubSeq(SubSeq(x, 1, n + 1), 1, Len(p)) = p
      BY <2>1, <2>2, <3>1, <3>2 DEF Paths
    <3>5. Len(p) <= Len(SubSeq(x, 1, n + 1))
      BY <2>1, <3>4 DEF Paths
    <3> QED
      BY <1>1, <3>3, <3>4, <3>5, Zenon DEF Children, Under, Below
  <2> QED
    BY <1>1, <2>1, <2>2
<1> QED
  BY <1>1, <1>2, Zenon DEF TreeTyped, ClosedTree

\* rename() leaves a tree.
LEMMA TreeRename ==
  ASSUME TreeTyped, NEW k, NEW p, NEW d \in DOMAIN tree, NEW n \in Names, NEW cookie,
         Rename(k, p, Append(d, n), cookie)
  PROVE  TreeTyped'
<1> PICK q : q = Append(d, n)
  BY Zenon
<1> DEFINE new == {Moved(p, q, y) : y \in Under(p)}
<1>1. /\ p \in DOMAIN tree /\ q \notin DOMAIN tree /\ ~Below(p, q)
      /\ DOMAIN tree' = (DOMAIN tree \ Under(p)) \cup new
      /\ \A x \in DOMAIN tree' : tree'[x] = IF Below(q, x) THEN tree[Moved(q, p, x)] ELSE tree[x]
  BY Zenon DEF Rename, Dir
<1>2. /\ DOMAIN tree \subseteq Paths /\ d \in Paths /\ q \in Paths /\ Len(q) = Len(d) + 1
      /\ \A m \in 0..Len(d) : SubSeq(q, 1, m) = SubSeq(d, 1, m)
  <2>1. DOMAIN tree \subseteq Paths
    BY DEF TreeTyped, ClosedTree, Paths
  <2> QED
    BY <2>1, AppendPath
<1>p. p \in Paths /\ q \in Paths
  BY <1>1, <1>2, Zenon
<1>3. \A y \in Under(p) : y \in DOMAIN tree /\ y \in Paths /\ Below(p, y)
  BY <1>2 DEF Under
<1>4. new \subseteq Paths
  <2>1. \A y \in Under(p) : Moved(p, q, y) \in Paths
    BY <1>p, <1>3, MovedPath, Zenon
  <2> QED
    BY <2>1, Zenon
<1>5. ASSUME NEW x \in DOMAIN tree \ Under(p), NEW m \in 0..Len(x)
      PROVE  SubSeq(x, 1, m) \in DOMAIN tree \ Under(p)
  <2>1. SubSeq(x, 1, m) \in DOMAIN tree /\ x \in Paths /\ ~Below(p, x)
    BY <1>2, <1>5 DEF TreeTyped, ClosedTree, Under
  <2> QED
    BY <1>1, <1>2, <2>1, BelowPrefix, Zenon DEF Under
<1>6. ASSUME NEW y \in Under(p), NEW m \in 0..Len(Moved(p, q, y))
      PROVE  SubSeq(Moved(p, q, y), 1, m) \in DOMAIN tree'
  <2>1. CASE m < Len(q)
    <3>1. SubSeq(Moved(p, q, y), 1, m) = SubSeq(q, 1, m)
      BY <1>p, <1>3, <1>6, <2>1, MovedPrefix, Zenon
    <3>2. m \in 0..Len(d) /\ m \in 0..Len(q)
      <4>1. Len(Moved(p, q, y)) \in Nat /\ Len(q) = Len(d) + 1 /\ Len(d) \in Nat
        <5>1. Moved(p, q, y) \in Paths
          BY <1>p, <1>3, MovedPath, Zenon
        <5> QED
          BY <1>2, <5>1 DEF Paths
      <4> QED
        BY <2>1, <4>1
    <3>3. SubSeq(q, 1, m) \in DOMAIN tree
      BY <1>2, <3>2, Zenon DEF TreeTyped, ClosedTree
    <3>4. ~Below(p, SubSeq(q, 1, m))
      BY <1>1, <1>2, <3>2, BelowPrefix, Zenon
    <3> QED
      BY <1>1, <3>1, <3>3, <3>4, Zenon DEF Under
  <2>2. CASE m >= Len(q)
    <3> PICK j : j = Len(p) + m - Len(q)
      OBVIOUS
    <3>1. /\ j \in 0..Len(y) /\ Below(p, SubSeq(y, 1, j))
          /\ SubSeq(Moved(p, q, y), 1, m) = Moved(p, q, SubSeq(y, 1, j))
      <4>1. y \in Paths /\ Below(p, y)
        BY <1>3, Zenon
      <4>2. /\ Len(p) + m - Len(q) \in 0..Len(y) /\ Below(p, SubSeq(y, 1, Len(p) + m - Len(q)))
            /\ SubSeq(Moved(p, q, y), 1, m) = Moved(p, q, SubSeq(y, 1, Len(p) + m - Len(q)))
        BY <1>p, <1>6, <2>2, <4>1, MovedTail, ZenonT(60)
      <4> QED
        BY <4>2, Zenon
    <3>2. SubSeq(y, 1, j) \in Under(p)
      <4>1. y \in DOMAIN tree
        BY <1>3, Zenon
      <4>2. SubSeq(y, 1, j) \in DOMAIN tree
        BY <3>1, <4>1, Zenon DEF TreeTyped, ClosedTree
      <4> QED
        BY <3>1, <4>2, Zenon DEF Under
    <3> QED
      BY <1>1, <3>1, <3>2, Zenon
  <2>3. m \in Nat /\ Len(q) \in Nat
    <3>1. Moved(p, q, y) \in Paths
      BY <1>p, <1>3, MovedPath, Zenon
    <3> QED
      BY <1>p, <1>6, <3>1 DEF Paths
  <2> QED
    BY <2>1, <2>2, <2>3
<1>7. ClosedTree(DOMAIN tree')
  <2>1. \A x \in DOMAIN tree' : \A m \in 0..Len(x) : SubSeq(x, 1, m) \in DOMAIN tree'
    BY <1>1, <1>5, <1>6, Zenon
  <2> QED
    BY <1>1, <1>2, <1>4, <2>1, Zenon DEF ClosedTree, Paths
<1>8. ASSUME NEW x \in DOMAIN tree' PROVE tree'[x] \in Inodes \cup Range(InitTree)
  <2>1. CASE x \in new
    <3>1. PICK y \in Under(p) : x = Moved(p, q, y)
      BY <2>1, Zenon
    <3>2. Below(q, x) /\ Moved(q, p, x) = y
      <4>1. y \in Paths /\ Below(p, y)
        BY <1>3, Zenon
      <4>2. Below(q, Moved(p, q, y)) /\ Moved(q, p, Moved(p, q, y)) = y
        BY <1>p, <4>1, MovedPath, Zenon
      <4> QED
        BY <3>1, <4>2, Zenon
    <3> QED
      BY <1>1, <1>3, <1>8, <3>2, Zenon DEF TreeTyped
  <2>2. CASE x \notin new
    <3>1. x \in DOMAIN tree /\ x \in Paths
      BY <1>1, <1>2, <1>8, <2>2, Zenon
    <3>2. ~Below(q, x)
      <4>1. ASSUME Below(q, x) PROVE Len(q) \in 0..Len(x) /\ SubSeq(x, 1, Len(q)) = q
        BY <1>2, <3>1, <4>1, SMTT(30) DEF Below, Paths
      <4> QED
        BY <1>1, <3>1, <4>1, Zenon DEF TreeTyped, ClosedTree
    <3> QED
      BY <1>1, <1>8, <3>1, <3>2, Zenon DEF TreeTyped
  <2> QED
    BY <2>1, <2>2
<1> QED
  BY <1>7, <1>8, Zenon DEF TreeTyped

\* umount() leaves a tree.
LEMMA TreeUnmount ==
  ASSUME TreeTyped, NEW k, NEW r, NEW open, Unmount(k, r, open)
  PROVE  TreeTyped'
<1>1. /\ r \in DOMAIN tree /\ FreeInodes # {} /\ DOMAIN tree' = (DOMAIN tree \ Under(r)) \cup {r}
      /\ \A x \in DOMAIN tree' : tree'[x] = IF x = r THEN CHOOSE i \in FreeInodes : TRUE ELSE tree[x]
  BY Zenon DEF Unmount, Dir
<1>2. DOMAIN tree \subseteq Paths /\ DOMAIN tree' \subseteq DOMAIN tree
  BY <1>1, Zenon DEF TreeTyped, ClosedTree, Paths
<1>3. ASSUME NEW x \in DOMAIN tree', NEW m \in 0..Len(x)
      PROVE  SubSeq(x, 1, m) \in DOMAIN tree'
  <2>1. SubSeq(x, 1, m) \in DOMAIN tree /\ x \in Paths /\ r \in Paths
    BY <1>1, <1>2, Zenon DEF TreeTyped, ClosedTree
  <2>2. CASE x # r
    <3>1. ~Below(r, SubSeq(x, 1, m))
      BY <1>1, <2>1, <2>2, BelowPrefix, Zenon DEF Under
    <3> QED
      BY <1>1, <2>1, <3>1, Zenon DEF Under
  <2>3. CASE x = r /\ m = Len(r)
    <3>1. SubSeq(x, 1, m) = r
      BY <2>1, <2>3 DEF Paths
    <3> QED
      BY <1>1, <3>1
  <2>4. CASE x = r /\ m # Len(r)
    <3>1. ~Below(r, SubSeq(x, 1, m))
      BY <2>1, <2>4 DEF Below, Paths
    <3> QED
      BY <1>1, <2>1, <3>1, Zenon DEF Under
  <2> QED
    BY <2>2, <2>3, <2>4
<1>4. \A x \in DOMAIN tree' : tree'[x] \in Inodes \cup Range(InitTree)
  BY <1>1, <1>2, FreeInode, Zenon DEF TreeTyped
<1> QED
  BY <1>2, <1>3, <1>4, Zenon DEF TreeTyped, ClosedTree, Paths

\* Every change leaves a tree.
LEMMA TreeChange ==
  ASSUME TreeTyped, NEW k \in Procs, Change(k)
  PROVE  TreeTyped'
BY TreeMkdir, TreeRmdir, TreeRename, TreeUnmount, Zenon DEF Change, Inner
-----------------------------------------------------------------------------
(* The theorems *)

\* Every step preserves the invariant.
LEMMA StepIInv == ASSUME IInv, TreeFinite, [Next]_vars PROVE IInv' /\ TreeFinite'
<1>1. CASE Program
  <2>1. ASSUME SelectEvents PROVE IInv'
    BY <2>1, ControlStep, Zenon DEF SelectEvents, kernelVars, loopVars, IInv, EventsTruthful
  <2>2. IInv'
    BY <1>1, <2>1, WalkStep, ZapStep, ReadStep, EventStep DEF Program, ProcessInotifyEvents
  <2>3. UNCHANGED tree
    BY <1>1, ProgramLeavesTree
  <2> QED
    BY <2>2, <2>3 DEF TreeFinite
<1>2. CASE ExecuteCommand
  BY <1>2, CommandStep, ProgramLeavesTree DEF TreeFinite
<1>3. ASSUME NEW k \in Procs, Change(k) PROVE IInv' /\ TreeFinite'
  <2>1. TreeFinite' /\ UNCHANGED progVars
    BY <1>3, ChangeFinite, Zenon DEF Change
  <2> QED
    BY <1>3, <2>1, MkdirStep, RmdirStep, RenameStep, UnmountStep, Zenon DEF Change
<1>4. ASSUME NEW k \in Procs, Notify(k) PROVE IInv' /\ TreeFinite'
  BY <1>4, EmitStep, ProgramLeavesTree DEF Notify, TreeFinite
<1>5. CASE UNCHANGED vars
  BY <1>5, ControlStep, Zenon DEF vars, kernelVars, progVars, loopVars, TreeFinite, IInv, EventsTruthful
<1> QED
  BY <1>1, <1>2, <1>3, <1>4, <1>5 DEF Next

\* It holds before the first walk.
LEMMA InitIInv == ASSUME Init PROVE IInv /\ TreeFinite
<1>1. EventsTruthful
  BY NoElements DEF Init, EventsTruthful
<1>2. NotesTyped
  BY NoElements DEF Init, NotesTyped
<1> QED
  BY <1>1, <1>2, InitTreeAssumption DEF Init, IInv, WdUnique, NoForgottenWatch, WatchesNumbered, TreeFinite

\* What is said of the values, and of stale entries, is kept too.
FullInv == IInv /\ TreeFinite /\ StaleTold /\ OneWatch /\ Numbered /\ Controlled /\ TreeTyped

\* Every step preserves the types.
LEMMA ValuesStep ==
  ASSUME IInv, Numbered, Controlled, TreeTyped, [Next]_vars
  PROVE  Numbered' /\ Controlled' /\ TreeTyped'
<1>1. CASE Program \/ ExecuteCommand
  BY <1>1, NumberedProgram, ControlledProgram, ProgramLeavesTree DEF TreeTyped
<1>2. ASSUME UNCHANGED <<progVars, nextWd>> \/ UNCHANGED vars,
             watch' = watch \/ \E S : watch' = WithoutWds(S)
      PROVE  Numbered' /\ Controlled'
  <2>1. UNCHANGED <<cache, roots, firstTry, thenRead, pc, walk, rootsTodo, nextWd>>
    BY <1>2 DEF vars, progVars, loopVars, walkVars, kernelVars
  <2>2. Controlled'
    BY <2>1 DEF Controlled
  <2> QED
    BY <1>2, <2>1, <2>2, NumberedSame, NumberedWithout
<1>3. ASSUME NEW k \in Procs, Change(k) PROVE Numbered' /\ Controlled' /\ TreeTyped'
  <2>1. UNCHANGED <<progVars, nextWd>>
    BY <1>3, Zenon DEF Change, Mkdir, Rmdir, Rename, Unmount
  <2>2. watch' = watch \/ \E S : watch' = WithoutWds(S)
    BY <1>3, Zenon DEF Change, Mkdir, Rmdir, Rename, Unmount
  <2> QED
    BY <1>2, <1>3, <2>1, <2>2, TreeChange
<1>4. ASSUME NEW k \in Procs, Notify(k) PROVE Numbered' /\ Controlled' /\ TreeTyped'
  <2>1. UNCHANGED <<progVars, nextWd, tree>> /\ (watch' = watch \/ \E S : watch' = WithoutWds(S))
    BY <1>4, Zenon DEF Notify, Emit
  <2> QED
    BY <1>2, <2>1 DEF TreeTyped
<1>5. CASE UNCHANGED vars
  <2>1. watch' = watch /\ tree' = tree
    BY <1>5 DEF vars, kernelVars
  <2> QED
    BY <1>2, <1>5, <2>1 DEF TreeTyped
<1> QED
  BY <1>1, <1>3, <1>4, <1>5 DEF Next

\* The whole invariant holds before the first walk.
LEMMA InitFull == ASSUME Init PROVE FullInv
<1>1. StaleTold /\ OneWatch /\ Numbered
  BY SMTT(30) DEF Init, StaleTold, Stale, CachedWds, OneWatch, Numbered
<1>2. Controlled
  BY Zenon DEF Init, Controlled
<1>3. TreeTyped
  BY InitTreeAssumption, Zenon DEF Init, TreeTyped, Range
<1> QED
  BY <1>1, <1>2, <1>3, InitIInv DEF FullInv

\* It holds always.
LEMMA Invariance == Spec => []FullInv
<1>1. Init => FullInv
  BY InitFull
<1>2. FullInv /\ [Next]_vars => FullInv'
  BY StepIInv, StaleStep, ValuesStep DEF FullInv
<1> QED
  BY <1>1, <1>2, PTL DEF Spec

\* Each variable of the program and of the kernel keeps its values: descriptors in the cache
\* were given out by this inotify instance, processNextInotifyEvent() is called only while
\* the buffer holds an event, and nothing is left to walk once a traversal is over.
THEOREM ValuesKept == Spec => []TypeOK
<1>1. FullInv => TypeOK
  BY Zenon DEF FullInv, TypeOK, IInv, EventsTruthful, Numbered, CachedWds, Controlled, TreeTyped
<1> QED
  BY <1>1, Invariance, PTL

\* An entry of wlCache whose watch the kernel has removed is never left behind: the
\* IN_DELETE_SELF or IN_UNMOUNT event that clears it, or the overflow that empties the
\* cache, is still in the queue or in the buffer.
THEOREM StaleEntriesExplained == Spec => []StaleExplained
<1>1. FullInv => StaleExplained
  BY StaleToldIs DEF FullInv
<1> QED
  BY <1>1, Invariance, PTL

\* No watch descriptor ever occupies two slots of wlCache, so that findWatch(),
\* which returns the first slot with the descriptor, returns the only one.
THEOREM WatchDescriptorsUnique == Spec => []WdUnique
<1>1. FullInv => WdUnique
  BY DEF FullInv, IInv
<1> QED
  BY <1>1, Invariance, PTL

\* Every watch the kernel holds for the program has its slot in wlCache: events
\* never come from a directory that markCacheSlotEmpty() has dropped.
THEOREM NoWatchIsForgotten == Spec => []NoForgottenWatch
<1>1. FullInv => NoForgottenWatch
  BY DEF FullInv, IInv
<1> QED
  BY <1>1, Invariance, PTL
=============================================================================
