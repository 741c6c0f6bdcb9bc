----------------------------- MODULE AclUpdate ------------------------------
(***************************************************************************)
(* src/acl/acl_update.c: modify (-m), remove (-x) or check (-V) entries of  *)
(* the access or default ACLs of a list of files, or delete their default   *)
(* ACLs (-k).  An ACL is a function from keys (tag and qualifier) to sets   *)
(* of permissions; the ACL of a file that has none is the empty function.   *)
(* A command-line entry is the record of what parseEntrySpec() looks for:   *)
(* the tag, an optional qualifier, an optional permissions string.          *)
(***************************************************************************)
EXTENDS Naturals, Sequences, FiniteSets, Functions

CONSTANTS Files,       \* sequence of the file arguments
          Commands,    \* the command lines considered
          InitialAcls, \* the ACLs a file may have at first, by type
          Ids,         \* qualifiers that name a user or group
          Absent       \* no qualifier; no permissions

VARIABLES pc, cmd, aclist, j, en, acl, facl
vars == <<pc, cmd, aclist, j, en, acl, facl>>

NoAcl == [k \in {} |-> {}]
Key(tag, qual) == <<tag, IF tag \in {"USER", "GROUP"} THEN qual ELSE Absent>>
UserObj == Key("USER_OBJ", Absent)
GroupObj == Key("GROUP_OBJ", Absent)
Other == Key("OTHER", Absent)
Mask == Key("MASK", Absent)
Named(a) == {k \in DOMAIN a : k[1] \in {"USER", "GROUP"}}

-----------------------------------------------------------------------------
(* libacl *)

\* acl_calc_mask(): the union of what the mask limits; the entry is created.
AclCalcMask(a) ==
  [k \in DOMAIN a \cup {Mask} |->
     IF k = Mask THEN UNION {a[l] : l \in Named(a) \cup (DOMAIN a \cap {GroupObj})} ELSE a[k]]

AclValid(a) ==
  /\ {UserObj, GroupObj, Other} \subseteq DOMAIN a
  /\ Named(a) # {} => Mask \in DOMAIN a

-----------------------------------------------------------------------------
(* Parsing of the entries *)

Tag(spec) ==
  CASE spec.tag = "u" -> IF spec.qual # Absent THEN "USER" ELSE "USER_OBJ"
    [] spec.tag = "g" -> IF spec.qual # Absent THEN "GROUP" ELSE "GROUP_OBJ"
    [] spec.tag = "o" -> "OTHER"
    [] spec.tag = "m" -> "MASK"

\* Does parseEntrySpec() accept the entry?
ParseEntrySpec(spec, permsReqd) ==
  /\ permsReqd <=> spec.perms # Absent
  /\ spec.tag \in {"u", "g", "o", "m"}
  /\ Tag(spec) \in {"USER", "GROUP"} => spec.qual \in Ids

Ace(spec) == [key |-> Key(Tag(spec), spec.qual), perms |-> spec.perms]

-----------------------------------------------------------------------------
\* The command line: exactly one operation, no -d with -V.
Init ==
  /\ pc = "parse" /\ cmd \in Commands
  /\ aclist = <<>> /\ j = 1 /\ en = 1 /\ acl = NoAcl
  /\ facl \in [Range(Files) -> {[access |-> a, default |-> d] :
                                  a \in InitialAcls.access, d \in InitialAcls.default}]

Type == IF cmd.default THEN "default" ELSE "access"
Parses == \A i \in DOMAIN cmd.list : ParseEntrySpec(cmd.list[i], cmd.op # "x")

\* parseACL(), for all operations but -k.  The first bad entry ends the program.
Parse ==
  /\ pc = "parse"
  /\ IF cmd.op # "k" /\ ~Parses
     THEN pc' = "failed" /\ UNCHANGED aclist
     ELSE /\ aclist' = IF cmd.op = "k" THEN <<>> ELSE [i \in DOMAIN cmd.list |-> Ace(cmd.list[i])]
          /\ pc' = IF cmd.op = "V" THEN "done" ELSE "file"
  /\ UNCHANGED <<cmd, j, en, acl, facl>>

\* The next file: acl_delete_def_file() or acl_get_file(), which may fail.
File ==
  /\ pc = "file"
  /\ \/ j > Len(Files) /\ pc' = "done" /\ UNCHANGED <<j, en, acl, facl>>
     \/ /\ j <= Len(Files) /\ cmd.op = "k"
        /\ facl' = [facl EXCEPT ![Files[j]].default = NoAcl] /\ j' = j + 1
        /\ UNCHANGED <<pc, en, acl>>
     \/ /\ j <= Len(Files) /\ cmd.op # "k"
        /\ acl' = facl[Files[j]][Type] /\ en' = 1 /\ pc' = "entry"
        /\ UNCHANGED <<j, facl>>
     \/ j <= Len(Files) /\ pc' = "failed" /\ UNCHANGED <<j, en, acl, facl>>
  /\ UNCHANGED <<cmd, aclist>>

\* findEntry() and the deletion of the entry, or its creation and setPerms().
Applied(a, ace) ==
  IF cmd.op = "x" THEN Restrict(a, DOMAIN a \ {ace.key})
  ELSE [k \in DOMAIN a \cup {ace.key} |-> IF k = ace.key THEN ace.perms ELSE a[k]]

\* Mutant of Updated: the mask is recalculated before the change.
UpdatedEarly(a, ace) ==
  Applied(IF cmd.recalc THEN AclCalcMask(a) ELSE a, ace)

\* One entry, then acl_calc_mask() unless -n.
Updated(a, ace) ==
  LET b == Applied(a, ace) IN IF cmd.recalc THEN AclCalcMask(b) ELSE b

\* Each entry of aclist: change, recalculation, acl_valid(), acl_set_file().
\* An invalid ACL ends the program, and acl_set_file() may fail.
Entry ==
  /\ pc = "entry"
  /\ IF en > Len(aclist)
     THEN pc' = "file" /\ j' = j + 1 /\ UNCHANGED <<en, acl, facl>>
     ELSE /\ acl' = Updated(acl, aclist[en])
          /\ \/ /\ AclValid(acl') /\ en' = en + 1
                /\ facl' = [facl EXCEPT ![Files[j]][Type] = acl'] /\ UNCHANGED <<pc, j>>
             \/ pc' = "failed" /\ UNCHANGED <<j, en, facl>>
  /\ UNCHANGED <<cmd, aclist>>

Ended == pc \in {"done", "failed"} /\ UNCHANGED vars

Next == Parse \/ File \/ Entry \/ Ended

Spec == Init /\ [][Next]_vars


-----------------------------------------------------------------------------
\* The values of the variables; entries have permissions unless
\* they are to be removed.
TypeOK ==
  /\ pc \in {"parse", "file", "entry", "done", "failed"} /\ cmd \in Commands
  /\ j \in 1..Len(Files) + 1 /\ en \in 1..Len(cmd.list) + 1
  /\ \A i \in DOMAIN aclist : (cmd.op # "x") <=> (aclist[i].perms # Absent)

\* What every file holds is a valid ACL, or no default ACL at all, also when
\* the program stops in the middle of a file.
FilesValid ==
  \A f \in DOMAIN facl : AclValid(facl[f].access) /\ (facl[f].default # NoAcl => AclValid(facl[f].default))

\* The last entry for a key wins.
Wins(i) == \A i2 \in i + 1..Len(aclist) : aclist[i2].key # aclist[i].key

\* After success each file has the entries of -m, the mask aside, and none of
\* those of -x.
Result ==
  pc = "done" /\ cmd.op \in {"m", "x"} =>
    \A f \in DOMAIN facl : \A i \in DOMAIN aclist :
      LET k == aclist[i].key IN
        k # Mask /\ Wins(i) =>
          IF cmd.op = "x" THEN k \notin DOMAIN facl[f][Type]
          ELSE k \in DOMAIN facl[f][Type] /\ facl[f][Type][k] = aclist[i].perms

\* After success without -n, no entry that the mask limits loses a permission to it.
MaskCovers ==
  pc = "done" /\ cmd.op \in {"m", "x"} /\ cmd.recalc =>
    \A f \in DOMAIN facl :
      LET a == facl[f][Type] IN \A k \in Named(a) \cup {GroupObj} : a[k] \subseteq a[Mask]
=============================================================================
