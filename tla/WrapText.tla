------------------------------ MODULE WrapText ------------------------------
(***************************************************************************)
(* The lists of numbers in src/namespaces/namespaces_of.go and              *)
(* src/cgroups/view_v2_cgroups.go: the width of the display, and            *)
(* wrapText().  A word is its length.                                       *)
(***************************************************************************)
EXTENDS Naturals, Sequences, SequencesExt, FiniteSetsExt

CONSTANTS TerminalWidths, Indents, WordLists, MinDisplayWidth, PrefixLengths

VARIABLES terminal, indent, prefix, words, width, col, lines
vars == <<terminal, indent, prefix, words, width, col, lines>>

\* What is left of the terminal, but never less than minDisplayWidth.
OutputWidth == Max({terminal - indent, MinDisplayWidth})

\* The list that displayPIDsAsList() makes has no prefix; "[" and "]" are words.
NamespacesWords(ns) == <<1>> \o ns \o <<1>>

\* displayProcesses() and displayThreads() have a prefix, and add "}" to the
\* last number.
CgroupWords(ns) == [ns EXCEPT ![Len(ns)] = @ + 1]

Init ==
  /\ terminal \in TerminalWidths /\ indent \in {i \in Indents : i <= terminal} /\ prefix \in PrefixLengths
  /\ \E ns \in WordLists : words = IF prefix = 0 THEN NamespacesWords(ns) ELSE CgroupWords(ns)
  /\ width = 0 /\ col = 0 /\ lines = <<>>

\* The first word, after the prefix; then the prefix narrows every line.
FirstWord ==
  /\ lines = <<>>
  /\ lines' = <<<<words[1]>>>> /\ col' = prefix + words[1] /\ width' = OutputWidth - prefix
  /\ words' = Tail(words) /\ UNCHANGED <<terminal, indent, prefix>>

\* A word that would go beyond the width starts a new line.
NextWord ==
  /\ lines # <<>> /\ words # <<>>
  /\ IF col + words[1] + 1 > width
     THEN lines' = Append(lines, <<words[1]>>) /\ col' = words[1]
     ELSE /\ lines' = [lines EXCEPT ![Len(lines)] = Append(@, words[1])] /\ col' = col + 1 + words[1]
  /\ words' = Tail(words) /\ UNCHANGED <<terminal, indent, prefix, width>>

Ended == words = <<>> /\ UNCHANGED vars

Next == FirstWord \/ NextWord \/ Ended

Spec == Init /\ [][Next]_vars

-----------------------------------------------------------------------------
\* A line with the prefix (or the blanks under it) and one space between words.
Length(line) == prefix + FoldSeq(LAMBDA w, n : w + n, 0, line) + Len(line) - 1

\* No line is longer than the width, unless it is a single word, and so none
\* goes beyond a terminal that has room for minDisplayWidth.
LinesFit ==
  \A i \in DOMAIN lines :
    Len(lines[i]) > 1 =>
      /\ Length(lines[i]) <= OutputWidth
      /\ terminal - indent >= MinDisplayWidth => indent + Length(lines[i]) <= terminal

\* A line is broken only where the next word does not fit; with a prefix that is
\* true of the second line and those after it.
NoEarlyBreak ==
  \A i \in DOMAIN lines :
    i < Len(lines) /\ (i > 1 \/ prefix = 0) => Length(lines[i]) + 1 + lines[i + 1][1] > OutputWidth
=============================================================================
