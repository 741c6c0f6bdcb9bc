------------------------------ MODULE MCTools -------------------------------
(***************************************************************************)
(* Tools that read or change state of the kernel, one of which each        *)
(* behaviour runs: acl_update, the three Go programs on namespaces, the    *)
(* seccomp filters, view_v2_cgroups and the line breaking of the Go        *)
(* programs.                                                               *)
(***************************************************************************)
EXTENDS Naturals, Sequences, TLC

CONSTANTS Absent, Alice, Unknown, Commands, InitialAcls,
          EPERM, Invis, NoPid, Memberships,
          NoValue,
          Tids, NoCgroup

VARIABLES program, pc, opts, todo,
          cmd, aclist, j, en, acl, facl,
          nsList, rootNS, output, alive, link, was,
          prog, acc, status, results,
          cur, tids, shown, dirs, at,
          terminal, indent, prefix, words, width, col, lines

Full == {"net", "pid", "user"}
NamespaceOptions ==
  [prog : {"namespaces_of"}, pidns : BOOLEAN, subtree : {NoPid, 1, 2},
   args : {<<>>, <<3, 1>>, <<1, 1>>}, namespaces : {Full, {"net"}, {"user"}}]
  \cup [prog : {"pid_namespaces", "userns_overview"}, pidns : BOOLEAN, subtree : {NoPid},
        args : {<<>>}, namespaces : {Full}]

\* User namespaces u0 above u1 above u2, PID namespaces p0 above p1 above p2, and
\* network namespaces owned by u1, u2 and, out of sight, an ancestor of u0.
NsType == [u0 |-> "user", u1 |-> "user", u2 |-> "user", p0 |-> "pid", p1 |-> "pid",
           p2 |-> "pid", nx |-> "net", n1 |-> "net", n2 |-> "net"]
UserNs == [u0 |-> EPERM, u1 |-> "u0", u2 |-> "u1", p0 |-> EPERM, p1 |-> "u0",
           p2 |-> "u1", nx |-> EPERM, n1 |-> "u1", n2 |-> "u2"]
ParentNs == [p0 |-> EPERM, p1 |-> "p0", p2 |-> "p1"]

Paths == {<<>>, <<1>>, <<2>>, <<1, 3>>}

\* The system calls that the seccomp filters name, and others.
FilterNumbers == {0, 2, 8, 110, 244, 257, 281, 527}

Acl == INSTANCE AclUpdate WITH Files <- <<"f1", "f2">>, Ids <- {Alice}
Ns == INSTANCE NamespacesOf WITH Pids <- {1, 2, 3}, Self <- 2, Namespaces <- DOMAIN NsType,
                                 Options <- NamespaceOptions
Bpf == INSTANCE Seccomp WITH
         Archs <- {62, 3, 40}, Numbers <- FilterNumbers \cup {n + 2^30 : n \in FilterNumbers} \cup {2^30 - 1},
         OpenFlags <- {c + w : c \in {0, 32, 64, 192, 1024}, w \in 0..3},
         Offsets <- {0, 1, 999, 1000, 1001, 2147483647}
Cg == INSTANCE ViewCgroups WITH
        Gone <- NoCgroup,
        Tgid <- [t \in Tids |-> 5], Realtime <- {6},
        Type <- [p \in Paths |-> CASE p = <<>> -> "root" [] p = <<2>> -> "threaded" [] OTHER -> "domain"],
        Options <- {{"pids", "tids", "owner"}, {}}
Wrap == INSTANCE WrapText WITH
          TerminalWidths <- {3, 12, 13}, Indents <- {0, 3}, MinDisplayWidth <- 8, PrefixLengths <- {0, 3},
          WordLists <- UNION {[1..n -> {1, 2, 5}] : n \in 1..5}

aclVars == <<cmd, aclist, j, en, acl, facl>>
nsVars == <<nsList, rootNS, output, alive, link, was>>
bpfVars == <<prog, acc, status, results>>
cgVars == <<cur, tids, shown, dirs, at>>
wrapVars == <<terminal, indent, prefix, words, width, col, lines>>
vars == <<program, pc, opts, todo, aclVars, nsVars, bpfVars, cgVars, wrapVars>>

NoAcl == cmd = 0 /\ aclist = 0 /\ j = 0 /\ en = 0 /\ acl = 0 /\ facl = 0
NoNs == nsList = 0 /\ rootNS = 0 /\ output = 0 /\ alive = 0 /\ link = 0 /\ was = 0
NoBpf == prog = 0 /\ acc = 0 /\ status = 0 /\ results = 0
NoCg == cur = 0 /\ tids = 0 /\ shown = 0 /\ dirs = 0 /\ at = 0
NoWrap == terminal = 0 /\ indent = 0 /\ prefix = 0 /\ words = 0 /\ width = 0 /\ col = 0 /\ lines = 0

Init ==
  \/ program = "acl_update" /\ Acl!Init /\ opts = 0 /\ todo = 0 /\ NoNs /\ NoBpf /\ NoCg /\ NoWrap
  \/ program = "namespaces" /\ Ns!Init /\ NoAcl /\ NoBpf /\ NoCg /\ NoWrap
  \/ program = "seccomp" /\ Bpf!Init /\ opts = 0 /\ NoAcl /\ NoNs /\ NoCg /\ NoWrap
  \/ program = "view_v2_cgroups" /\ Cg!Init /\ NoAcl /\ NoNs /\ NoBpf /\ NoWrap
  \/ program = "wrap_text" /\ Wrap!Init /\ pc = 0 /\ opts = 0 /\ todo = 0 /\ NoAcl /\ NoNs /\ NoBpf /\ NoCg

Runs(p, A, others) == program = p /\ A /\ UNCHANGED <<program, others>>
BpfRuns(A) == Runs("seccomp", A, <<opts, aclVars, nsVars, cgVars, wrapVars>>)

Next ==
  \/ Runs("acl_update", Acl!Next, <<opts, todo, nsVars, bpfVars, cgVars, wrapVars>>)
  \/ Runs("namespaces", Ns!Next, <<aclVars, bpfVars, cgVars, wrapVars>>)
  \/ BpfRuns(Bpf!Next)
  \/ Runs("view_v2_cgroups", Cg!Next, <<aclVars, nsVars, bpfVars, wrapVars>>)
  \/ Runs("wrap_text", Wrap!Next, <<pc, opts, todo, aclVars, nsVars, bpfVars, cgVars>>)

Spec == Init /\ [][Next]_vars
-----------------------------------------------------------------------------
(* Instances *)

\* Up to two entries on a command line, good and bad; a minimal ACL and one with
\* named entries; no default ACL.
Minimal == <<"USER_OBJ", Absent>> :> {"r", "w"} @@ <<"GROUP_OBJ", Absent>> :> {"r"}
           @@ <<"OTHER", Absent>> :> {}
Extended == Minimal @@ <<"USER", Alice>> :> {"w"} @@ <<"MASK", Absent>> :> {"r", "w"}
MCInitialAcls == [access |-> {Minimal, Extended}, default |-> {[k \in {} |-> {}], Extended}]

Good == [tag : {"u", "g"}, qual : {Absent, Alice}, perms : {Absent, {"r"}, {"w"}}]
        \cup [tag : {"o", "m"}, qual : {Absent}, perms : {Absent, {"r"}}]
Bad == {[tag |-> "?", qual |-> Absent, perms |-> {"r"}], [tag |-> "u", qual |-> Unknown, perms |-> {"r"}]}
Lists == UNION {[1..n -> Good \cup Bad] : n \in 1..2}
MCCommands == [op : {"m", "x"}, list : Lists, default : BOOLEAN, recalc : BOOLEAN]
              \cup [op : {"V"}, list : Lists, default : {FALSE}, recalc : {TRUE}]
              \cup [op : {"k"}, list : {<<>>}, default : BOOLEAN, recalc : {TRUE}]

At(u, p, n) == [user |-> u, pid |-> p, net |-> n]
MCMemberships == {<<At("u0", "p0", "nx"), At("u0", "p1", "nx"), At("u2", "p2", "n1")>>,
                  <<At("u1", "p2", "n1"), At("u0", "p0", "nx"), At("u0", "p0", "nx")>>}
-----------------------------------------------------------------------------
(* Properties *)

IsAcl == program = "acl_update"
IsNs == program = "namespaces"
IsCg == program = "view_v2_cgroups"

\* The values of the variables of the program that runs.
TypeOK ==
  CASE IsAcl -> Acl!TypeOK [] IsNs -> Ns!TypeOK [] program = "seccomp" -> Bpf!TypeOK
    [] IsCg -> Cg!TypeOK [] OTHER -> TRUE

\* acl_update: what every file holds is a valid ACL, or no default ACL at all, also
\* when the program stops in the middle of a file.  After success each file has the
\* entries of -m, the mask aside, and none of those of -x, and, without -n, no entry
\* loses a permission to the mask.
AclsRight == IsAcl => Acl!FilesValid /\ Acl!Result /\ Acl!MaskCovers

\* displayNamespaceTree() "recursively displays the namespace subtree inside
\* 'nsi.nsList' that is rooted at 'ns'": there is an entry for 'ns'.
NoPanic == IsNs => Ns!NoPanic

\* The seccomp filters return what their comments say for every call (the jumps reach
\* the rules meant for them, and the rules apply in the order written), and so each
\* main(), whose own calls meet the filter it has installed, ends as its messages say.
Verdicts ==
  /\ [](program = "seccomp" => Bpf!Outcome)
  /\ [][BpfRuns(Bpf!Return) => Bpf!AsCommented]_vars

\* What a program lists is there, all of it and once.  namespaces_of, pid_namespaces
\* and userns_overview: the map is a forest in which every namespace is the child of its
\* owner or parent alone, each one that was found is displayed exactly once, and a process
\* is listed in the namespaces it was in.  view_v2_cgroups: the cgroups appear in the
\* order of the tree, none twice, and after success every one that still exists, although
\* others were removed during the walk; threads are sorted, with the processes that they
\* belong to.  In its lists of process IDs no line is longer than the width, unless it
\* is a single word, and a line is broken only where the next word does not fit.
Listed ==
  /\ IsNs => Ns!Forest /\ Ns!DisplayedOnce /\ Ns!MembersTrue
  /\ IsCg => Cg!TreeOrder /\ Cg!Complete /\ Cg!ThreadsSorted
  /\ program = "wrap_text" => Wrap!LinesFit /\ Wrap!NoEarlyBreak
=============================================================================
