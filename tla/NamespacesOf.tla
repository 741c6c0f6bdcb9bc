---------------------------- MODULE NamespacesOf ----------------------------
(***************************************************************************)
(* src/namespaces/namespaces_of.go: scan /proc/PID/ns/*, build the map of   *)
(* the namespaces with their owners (or, with --pidns, parents) and member  *)
(* processes, and display it as a tree.  pid_namespaces.go and              *)
(* userns_overview.go are earlier programs that build and display the map   *)
(* in the same way for one type of namespace.  The processes end and change *)
(* their namespaces while the programs scan.                                *)
(***************************************************************************)
EXTENDS Naturals, Sequences, FiniteSets, SequencesExt

CONSTANTS Pids,        \* processes with an entry in /proc, numbered
          Self,        \* the one that scans
          Namespaces,  \* all that exist, or may be created
          NsType,      \* namespace -> "user", "pid" or another type
          UserNs,      \* namespace -> what NS_GET_USERNS returns
          ParentNs,    \* PID namespace -> what NS_GET_PARENT returns
          EPERM,       \* ... which is this for one that is not visible
          Invis,       \* invisUserNS, the zero NamespaceID
          Memberships, \* what the symlinks may show at first
          NoPid, Options

VARIABLES pc, opts, todo, nsList, rootNS, output,
          alive, link,           \* the processes and their symlinks
          was                    \* history: <<process, namespace>> so far
pvars == <<alive, link, was>>
vars == <<pc, opts, todo, nsList, rootNS, output, pvars>>

\* The program that runs: "namespaces_of", "pid_namespaces", "userns_overview".
Prog == opts.prog

\* parseCmdLineOptions(): the combinations that it accepts.
Accepted(o) ==
  /\ o.pidns => o.namespaces = {"net", "pid", "user"}
  /\ o.subtree # NoPid => o.args = <<>>
  /\ o.prog # "namespaces_of" =>
       o.args = <<>> /\ o.subtree = NoPid /\ (o.pidns <=> o.prog = "pid_namespaces")

Members(l) == {<<p, l[p][f]>> : p \in Pids, f \in {"net", "pid", "user"}}

Init ==
  /\ pc = "start" /\ opts \in {o \in Options : Accepted(o)}
  /\ todo = <<>> /\ nsList = [n \in {} |-> 0] /\ rootNS = Invis /\ output = <<>>
  /\ alive = Pids /\ link \in Memberships /\ was = Members(link)

-----------------------------------------------------------------------------
(* The map *)

Entry == [children |-> <<>>, pids |-> <<>>]
WithEntry(list, n) == [m \in DOMAIN list \cup {n} |-> IF m \in DOMAIN list THEN list[m] ELSE Entry]
AppendTo(list, n, field, x) == [list EXCEPT ![n][field] = Append(@, x)]
\* The parents, as each program finds them.
PidParent(n) == ParentNs[n]
UserParent(n) == UserNs[n]
Parent(n) == IF opts.pidns THEN PidParent(n) ELSE UserParent(n)

\* Mutant of AddNamespaceToList: hidden owners are not treated apart.
AddNamespaceToListRoot(s, n) ==
  LET add[m \in Namespaces] ==
        IF m \in DOMAIN s.list THEN s
        ELSE IF Parent(m) # EPERM
        THEN [add[Parent(m)] EXCEPT !.list = AppendTo(WithEntry(@, m), Parent(m), "children", m)]
        ELSE [s EXCEPT !.list = WithEntry(@, m), !.root = m]
  IN  add[n]

\* addNamespaceToList(), if the map lacks the namespace: its entry, the entries
\* of its ancestors, and its place among its parent's children.  A namespace
\* without a visible parent is the root, or a child of Invis.
AddNamespaceToList(s, n) ==
  LET add[m \in Namespaces] ==
        IF m \in DOMAIN s.list THEN s
        ELSE IF Parent(m) # EPERM
        THEN [add[Parent(m)] EXCEPT !.list = AppendTo(WithEntry(@, m), Parent(m), "children", m)]
        ELSE IF NsType[m] = "user" \/ opts.pidns
        THEN [s EXCEPT !.list = WithEntry(@, m), !.root = m]
        ELSE [s EXCEPT !.list = AppendTo(WithEntry(WithEntry(@, m), Invis), Invis, "children", m)]
  IN  add[n]

\* addNamespace(): the namespace and its ancestors, then the member.
AddNamespace(n, p) ==
  LET s == AddNamespaceToList([list |-> nsList, root |-> rootNS], n)
  IN  nsList' = AppendTo(s.list, n, "pids", p) /\ rootNS' = s.root

-----------------------------------------------------------------------------
(* The program *)

\* The symlinks of the processes ps are to be looked at.
Begin(ps, links) ==
  /\ pc = "start"
  /\ todo' = FlattenSeq([i \in DOMAIN ps |-> [k \in DOMAIN links |-> <<ps[i], links[k]>>]])
  /\ pc' = "scan" /\ UNCHANGED <<opts, nsList, rootNS, output, pvars>>

ProcFiles == SetToSortSeq(alive, <)

\* The processes named on the command line, or all that /proc lists.
Start ==
  /\ Prog = "namespaces_of"
  /\ Begin(IF opts.args # <<>> THEN opts.args ELSE ProcFiles,
           IF opts.pidns THEN <<"pid">> ELSE <<"net", "pid", "user">>)

PidNamespacesStart == Prog = "pid_namespaces" /\ Begin(ProcFiles, <<"pid">>)
UsernsOverviewStart == Prog = "userns_overview" /\ Begin(ProcFiles, <<"user">>)

\* The symlink of a process is opened; it may be gone.
Open == pc = "scan" /\ todo # <<>> /\ todo[1][1] \in alive
Gone == pc = "scan" /\ todo # <<>> /\ todo[1][1] \notin alive

AddProcessNamespace ==
  /\ Open
  /\ AddNamespace(link[todo[1][1]][todo[1][2]], todo[1][1])
  /\ todo' = Tail(todo) /\ UNCHANGED <<pc, opts, output, pvars>>

\* namespaces_of ends if the process was named on the command line, and else
\* carries on with the next symlink.
CarryOn ==
  /\ Gone /\ Prog = "namespaces_of" /\ opts.args = <<>>
  /\ todo' = Tail(todo) /\ UNCHANGED <<pc, opts, nsList, rootNS, output, pvars>>

Fail == pc' = "failed" /\ UNCHANGED <<opts, todo, nsList, rootNS, output, pvars>>
ArgumentGone == Gone /\ Prog = "namespaces_of" /\ opts.args # <<>> /\ Fail
PidNamespacesGone == Gone /\ Prog = "pid_namespaces" /\ Fail
UsernsOverviewGone == Gone /\ Prog = "userns_overview" /\ Fail

Shown(n) == n = Invis \/ NsType[n] = "user" \/ NsType[n] \in opts.namespaces

\* displayNamespaceTree(): the namespaces below n with their levels.
DisplayNamespaceTree(n, level) ==
  LET display[m \in DOMAIN nsList, l \in level..level + Cardinality(DOMAIN nsList)] ==
        LET kids == nsList[m].children IN
        (IF Shown(m) THEN <<<<m, l>>>> ELSE <<>>)
        \o FlattenSeq([i \in DOMAIN kids |-> display[kids[i], l + 1]])
  IN  display[n, level]

\* A namespace that the map lacks is a nil dereference.
Show(n) ==
  /\ pc = "scan" /\ todo = <<>>
  /\ IF n \in DOMAIN nsList THEN pc' = "done" /\ output' = DisplayNamespaceTree(n, 0)
                             ELSE pc' = "panic" /\ UNCHANGED output
  /\ UNCHANGED <<opts, todo, nsList, rootNS, pvars>>

\* displayNamespaceHierarchies(): the tree of the root and that of Invis ...
Display ==
  /\ Prog = "namespaces_of" /\ opts.subtree = NoPid
  /\ IF Invis \notin DOMAIN nsList THEN Show(rootNS)
     ELSE /\ pc = "scan" /\ todo = <<>> /\ pc' = "done"
          /\ output' = DisplayNamespaceTree(rootNS, 0) \o DisplayNamespaceTree(Invis, 0)
          /\ UNCHANGED <<opts, todo, nsList, rootNS, pvars>>

\* ... or that of the namespace which the process of --subtree is in by now.
DisplaySubtree ==
  /\ Prog = "namespaces_of" /\ opts.subtree # NoPid
  /\ IF opts.subtree \in alive THEN Show(link[opts.subtree][IF opts.pidns THEN "pid" ELSE "user"])
     ELSE pc = "scan" /\ todo = <<>> /\ Fail

PidNamespacesDisplay == Prog = "pid_namespaces" /\ Show(rootNS)
UsernsOverviewDisplay == Prog = "userns_overview" /\ Show(rootNS)

-----------------------------------------------------------------------------
(* The processes *)

Exit(p) ==
  /\ p \in alive \ {Self} /\ pc \in {"start", "scan"}
  /\ alive' = alive \ {p}
  /\ UNCHANGED <<pc, opts, todo, nsList, rootNS, output, link, was>>

\* unshare() or setns(): into a user namespace below its own, or another
\* namespace that its user namespace owns.  The PID symlink never changes.
Enter(p, n) ==
  /\ p \in alive \ {Self} /\ pc \in {"start", "scan"}
  /\ NsType[n] # "pid" /\ UserNs[n] = link[p].user
  /\ link' = [link EXCEPT ![p][NsType[n]] = n] /\ was' = was \cup {<<p, n>>}
  /\ UNCHANGED <<pc, opts, todo, nsList, rootNS, output, alive>>

Ended == pc \in {"done", "failed", "panic"} /\ UNCHANGED vars

Next ==
  \/ Start \/ AddProcessNamespace \/ CarryOn \/ ArgumentGone \/ Display \/ DisplaySubtree
  \/ PidNamespacesStart \/ PidNamespacesGone \/ PidNamespacesDisplay
  \/ UsernsOverviewStart \/ UsernsOverviewGone \/ UsernsOverviewDisplay \/ Ended
  \/ \E p \in Pids : Exit(p) \/ \E n \in Namespaces : Enter(p, n)

Spec == Init /\ [][Next]_vars

-----------------------------------------------------------------------------
\* The values of the variables; the root and all children have entries.
TypeOK ==
  /\ pc \in {"start", "scan", "done", "failed", "panic"}
  /\ (opts.subtree # NoPid => opts.args = <<>>)
  /\ DOMAIN nsList \subseteq Namespaces \cup {Invis}
  /\ \A n \in DOMAIN nsList : Range(nsList[n].children) \subseteq DOMAIN nsList \ {Invis}

\* Between two symlinks the map is a forest: every namespace of the map is the
\* child of its owner or parent alone, once, or it is the root or Invis.
Forest ==
  /\ \A n, m \in DOMAIN nsList : \A i \in DOMAIN nsList[m].children :
       nsList[m].children[i] = n =>
         /\ m = IF Parent(n) = EPERM THEN Invis ELSE Parent(n)
         /\ \A k \in DOMAIN nsList[m].children \ {i} : nsList[m].children[k] # n
  /\ \A n \in DOMAIN nsList \ {rootNS, Invis} :
       \E m \in DOMAIN nsList : n \in Range(nsList[m].children)

\* Without --subtree, every namespace that was found is displayed exactly once,
\* if its type is to be shown; nothing is left out because it was met late.
DisplayedOnce ==
  pc = "done" /\ opts.subtree = NoPid =>
    /\ {output[i][1] : i \in DOMAIN output} = {n \in DOMAIN nsList : Shown(n)}
    /\ Len(output) = Cardinality({n \in DOMAIN nsList : Shown(n)})

\* A process is listed only in namespaces that it has been in, and one that
\* kept its namespaces to the end is listed in each of them.
MembersTrue ==
  /\ \A n \in DOMAIN nsList : \A p \in Range(nsList[n].pids) : <<p, n>> \in was
  /\ pc = "done" /\ opts.args = <<>> =>
       \A p \in alive, f \in {"net", "pid", "user"} : \A n \in {link[p][f]} :
         (opts.pidns => f = "pid") /\ (Prog = "userns_overview" => f = "user") /\
         (\A m \in Namespaces : <<p, m>> \in was /\ NsType[m] = NsType[n] => m = n)
           => n \in DOMAIN nsList /\ p \in Range(nsList[n].pids)

\* "the program shows the subtree [...] rooted at the namespace of the specified
\* PID": the namespace whose tree is displayed has an entry in the map.
NoPanic == pc # "panic"
=============================================================================
