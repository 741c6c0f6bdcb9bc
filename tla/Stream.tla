------------------------------- MODULE Stream -------------------------------
(***************************************************************************)
(* What the programs that carry data from one process to another promise:  *)
(* the blocks of the input come out once each, in order, at most Capacity  *)
(* of them are under way, and the end is announced after the last one.     *)
(***************************************************************************)
EXTENDS Naturals, Sequences

CONSTANTS Input,      \* the blocks, in order
          Capacity    \* blocks the transport can hold

VARIABLES taken,      \* number of blocks the sender has taken from the input
          out,        \* blocks the receiver has delivered
          closed      \* the receiver knows that there are no more

vars == <<taken, out, closed>>

Init == taken = 0 /\ out = <<>> /\ closed = FALSE

Take ==
  /\ taken < Len(Input) /\ taken - Len(out) < Capacity
  /\ taken' = taken + 1
  /\ UNCHANGED <<out, closed>>

Deliver ==
  /\ ~closed /\ Len(out) < taken
  /\ out' = Append(out, Input[Len(out) + 1])
  /\ UNCHANGED <<taken, closed>>

Finish ==
  /\ ~closed /\ out = Input
  /\ closed' = TRUE
  /\ UNCHANGED <<taken, out>>

Next == Take \/ Deliver \/ Finish

Spec == Init /\ [][Next]_vars
=============================================================================
