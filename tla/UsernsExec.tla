----------------------------- MODULE UsernsExec -----------------------------
(***************************************************************************)
(* src/namespaces/userns_child_exec.c with userns_functions.c and          *)
(* src/cap/cap_functions.c: a parent clones a child into a new user        *)
(* namespace, writes the namespace's ID maps through /proc, and releases   *)
(* the child, which waits for end of file on a pipe, to change its         *)
(* credentials and to execute a command.  Capability sets are all-or-      *)
(* nothing: a set is TRUE when it holds the capabilities of the namespace. *)
(***************************************************************************)
EXTENDS Integers, FiniteSets, Functions

CONSTANTS UidMaps,     \* values of -M: functions from inner to outer IDs
          GidMaps,     \* values of -G
          NewUids,     \* values of -s, and -1
          User,        \* outer ID of an unprivileged user
          Unset        \* no map

VARIABLES opts,        \* the command line
          uid,         \* outer ID of the parent; 0 is privileged
          ppc, cpc,    \* where parent and child are
          uidMap, gidMap, \* the maps of the namespace
          setgroups,   \* /proc/PID/setgroups
          writers,     \* processes that have the pipe's write end open
          cuid,        \* outer ID of the child
          caps, inh, amb, \* permitted and effective, inheritable, ambient set
          secure       \* securebits of the child

parent == <<ppc, uidMap, gidMap, setgroups>>
creds == <<cuid, caps, inh, amb, secure>>
vars == <<opts, uid, cpc, writers, parent, creds>>

Options ==
  [newuser : BOOLEAN, uidMap : UidMaps \cup {Unset}, gidMap : GidMaps \cup {Unset},
   root : BOOLEAN, deny : BOOLEAN, ambient : BOOLEAN, newuid : NewUids,
   secbits : SUBSET {"noroot", "nofixup"}]

Init ==
  /\ opts \in Options /\ uid \in {0, User}
  /\ ppc = "parse" /\ cpc = "none" /\ writers = {}
  /\ uidMap = Unset /\ gidMap = Unset /\ setgroups \in {"allow", "absent"}
  /\ cuid = uid /\ caps = (uid = 0) /\ inh = FALSE /\ amb = FALSE /\ secure = {}

Usable(o) ==
  /\ o.uidMap # Unset \/ o.gidMap # Unset \/ o.root => o.newuser
  /\ ~(o.root /\ (o.uidMap # Unset \/ o.gidMap # Unset))

\* The command line is parsed and the pipe created, or a usage error ends the
\* parent.
Parse ==
  /\ ppc = "parse"
  /\ IF Usable(opts) THEN ppc' = "clone" /\ writers' = {"parent"}
                     ELSE ppc' = "failed" /\ UNCHANGED writers
  /\ UNCHANGED <<opts, uid, cpc, uidMap, gidMap, setgroups, creds>>

\* clone(): the child inherits the pipe and is given all capabilities in a new
\* user namespace.  Other namespaces need privilege; the call may fail.
Clone ==
  /\ ppc = "clone"
  /\ \/ /\ ppc' = "uid_map" /\ cpc' = "close" /\ writers' = {"parent", "child"}
        /\ caps' = (caps \/ opts.newuser)
     \/ ppc' = "failed" /\ writers' = {} /\ UNCHANGED <<cpc, caps>>
  /\ UNCHANGED <<opts, uid, uidMap, gidMap, setgroups, cuid, inh, amb, secure>>

\* errExit() in the parent: the exit closes its write end of the pipe.
ParentFails == ppc' = "failed" /\ writers' = writers \ {"parent"}

\* Does the write() of update_map() succeed?  The kernel lets an unprivileged
\* process map only its own ID.
update_map(m) == uid = 0 \/ Range(m) = {uid}

WantedUidMap == IF opts.root THEN [i \in {0} |-> uid] ELSE opts.uidMap
WantedGidMap == IF opts.root THEN [i \in {0} |-> uid] ELSE opts.gidMap

\* update_map() of /proc/PID/uid_map.
WriteUidMap ==
  /\ ppc = "uid_map"
  /\ IF WantedUidMap = Unset THEN ppc' = "setgroups" /\ UNCHANGED <<uidMap, writers>>
     ELSE \/ /\ update_map(WantedUidMap)
             /\ uidMap' = WantedUidMap /\ ppc' = "setgroups" /\ UNCHANGED writers
          \/ ParentFails /\ UNCHANGED uidMap
  /\ UNCHANGED <<opts, uid, cpc, gidMap, setgroups, creds>>

\* proc_setgroups_write(): a file that does not exist is no error.
proc_setgroups_write ==
  \/ setgroups' = (IF setgroups = "absent" THEN "absent" ELSE "deny") /\ ppc' = "gid_map" /\ UNCHANGED writers
  \/ setgroups # "absent" /\ ParentFails /\ UNCHANGED setgroups

WriteSetgroups ==
  /\ ppc = "setgroups"
  /\ IF WantedGidMap # Unset /\ opts.deny THEN proc_setgroups_write
                                          ELSE ppc' = "gid_map" /\ UNCHANGED <<setgroups, writers>>
  /\ UNCHANGED <<opts, uid, cpc, uidMap, gidMap, creds>>

\* update_map() of /proc/PID/gid_map, for which an unprivileged process must
\* have denied setgroups().
WriteGidMap ==
  /\ ppc = "gid_map"
  /\ IF WantedGidMap = Unset THEN ppc' = "release" /\ UNCHANGED <<gidMap, writers>>
     ELSE \/ /\ update_map(WantedGidMap) /\ (uid = 0 \/ setgroups # "allow")
             /\ gidMap' = WantedGidMap /\ ppc' = "release" /\ UNCHANGED writers
          \/ ParentFails /\ UNCHANGED gidMap
  /\ UNCHANGED <<opts, uid, cpc, uidMap, setgroups, creds>>

\* The write end is closed.
Release ==
  /\ ppc = "release"
  /\ writers' = writers \ {"parent"} /\ ppc' = "wait"
  /\ UNCHANGED <<opts, uid, cpc, uidMap, gidMap, setgroups, creds>>

\* waitpid() returns when the child has ended.
Wait ==
  /\ ppc = "wait" /\ cpc \in {"failed", "done"}
  /\ ppc' = "done"
  /\ UNCHANGED <<opts, uid, cpc, uidMap, gidMap, setgroups, writers, creds>>
-----------------------------------------------------------------------------
ChildStep(from, to) == cpc = from /\ cpc' = to /\ UNCHANGED <<opts, uid, parent>>

ChildClose == ChildStep("close", "read") /\ writers' = writers \ {"child"} /\ UNCHANGED creds

\* read() returns 0 once no process has the write end open; nothing is ever
\* written.
ChildRead == writers = {} /\ ChildStep("read", "secbits") /\ UNCHANGED <<writers, creds>>

\* The inner ID of an outer ID; -1 stands for the overflow ID.
Inner(u) ==
  CASE ~opts.newuser -> u
    [] opts.newuser /\ uidMap # Unset /\ (\E i \in DOMAIN uidMap : uidMap[i] = u) ->
         CHOOSE i \in DOMAIN uidMap : uidMap[i] = u
    [] OTHER -> -1

SetSecurebits ==
  /\ \/ opts.secbits = {} /\ ChildStep("secbits", "setuid") /\ UNCHANGED secure
     \/ /\ opts.secbits # {} /\ caps
        /\ ChildStep("secbits", "setuid") /\ secure' = opts.secbits
     \/ /\ opts.secbits # {} /\ ~caps
        /\ ChildStep("secbits", "failed") /\ UNCHANGED secure
  /\ UNCHANGED <<writers, cuid, caps, inh, amb>>

\* setresuid() to an ID with a mapping; giving up inner ID 0 clears the sets
\* unless SECBIT_NO_SETUID_FIXUP is set.
OuterIds == IF ~opts.newuser THEN [i \in {0, 1, User} |-> i]
            ELSE IF uidMap = Unset THEN <<>> ELSE uidMap
MaySetUid(i) == i \in DOMAIN OuterIds /\ (caps \/ OuterIds[i] = cuid)

SetUid ==
  \/ /\ opts.newuid = -1
     /\ ChildStep("setuid", "ambient") /\ UNCHANGED <<writers, creds>>
  \/ /\ MaySetUid(opts.newuid)
     /\ cuid' = OuterIds[opts.newuid]
     /\ caps' = (caps /\ ~(Inner(cuid) = 0 /\ opts.newuid # 0 /\ "nofixup" \notin secure))
     /\ ChildStep("setuid", "ambient") /\ UNCHANGED <<writers, inh, amb, secure>>
  \/ /\ opts.newuid # -1 /\ ~MaySetUid(opts.newuid)
     /\ ChildStep("setuid", "failed") /\ UNCHANGED <<writers, creds>>

\* Mutant of raiseAmbientCaps: the inheritable set is not raised first.
raiseAmbientCapsOnly ==
  /\ ChildStep("ambient", "exec")
  /\ inh' = inh /\ amb' = (IF opts.ambient THEN caps /\ inh ELSE amb)
  /\ UNCHANGED <<writers, cuid, caps, secure>>

\* modifyCapSetting() of the inheritable set: what is permitted can be added.
modifyCapSetting == inh' = (inh \/ caps)

\* The kernel raises in the ambient set what is permitted and inheritable.
raiseAmbientCaps ==
  /\ ChildStep("ambient", "exec")
  /\ IF opts.ambient THEN modifyCapSetting /\ amb' = (caps /\ inh')
                     ELSE UNCHANGED <<inh, amb>>
  /\ UNCHANGED <<writers, cuid, caps, secure>>

\* execvp(): inner root regains the sets unless SECBIT_NOROOT is set, others
\* keep their ambient set; or the program is not found.
Exec ==
  \/ /\ ChildStep("exec", "running")
     /\ caps' = (amb \/ (Inner(cuid) = 0 /\ "noroot" \notin secure))
     /\ UNCHANGED <<writers, cuid, inh, amb, secure>>
  \/ ChildStep("exec", "failed") /\ UNCHANGED <<writers, creds>>

Command == ChildStep("running", "done") /\ UNCHANGED <<writers, creds>>

Parent == Parse \/ Clone \/ WriteUidMap \/ WriteSetgroups \/ WriteGidMap \/ Release \/ Wait
Child == ChildClose \/ ChildRead \/ SetSecurebits \/ SetUid \/ raiseAmbientCaps \/ Exec \/ Command
Next == Parent \/ Child
Spec == Init /\ [][Next]_vars
-----------------------------------------------------------------------------
TypeOK ==
  /\ opts \in Options /\ uid \in {0, User} /\ cuid \in Int
  /\ ppc \in {"parse", "clone", "uid_map", "setgroups", "gid_map", "release", "wait", "done", "failed"}
  /\ cpc \in {"none", "close", "read", "secbits", "setuid", "ambient", "exec", "running", "failed", "done"}
  /\ uidMap \in {Unset, WantedUidMap} /\ gidMap \in {Unset, WantedGidMap}
  /\ setgroups \in {"allow", "deny", "absent"} /\ writers \subseteq {"parent", "child"}
  /\ <<caps, inh, amb>> \in BOOLEAN \X BOOLEAN \X BOOLEAN /\ secure \subseteq opts.secbits

Released == cpc \in {"secbits", "setuid", "ambient", "exec", "running", "done"}
Mapped == uidMap = WantedUidMap /\ gidMap = WantedGidMap

\* Unless the parent has failed, the child goes on only when the maps that
\* were asked for are in place.
MapsInPlace == Released /\ ppc # "failed" => Mapped

\* The common case of main()'s comment: a command that is executed as root of
\* the namespace has the capabilities of the namespace.
RootKeepsCaps ==
  cpc = "running" /\ opts.root /\ ppc # "failed" /\ opts.newuid \in {-1, 0} /\ "noroot" \notin opts.secbits
    => caps

\* A step of execvp() that takes no capability away, if -a was given.
ExecKeepsCaps == cpc' = "running" /\ opts.ambient /\ caps => caps'

\* No map is not a map, and IDs are numbers.
Assumption ==
  /\ \A u \in {0, User} : Unset # [i \in {0} |-> u]
  /\ User \in Int /\ \A m \in UidMaps : \A i \in DOMAIN m : m[i] \in Int
=============================================================================
