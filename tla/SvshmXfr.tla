------------------------------ MODULE SvshmXfr ------------------------------
(***************************************************************************)
(* src/svshm/svshm_xfr_writer.c and svshm_xfr_reader.c: a stream of blocks *)
(* through one System V shared memory segment, with two semaphores for     *)
(* alternating access.  A block is its size: what cnt says of it.          *)
(***************************************************************************)
EXTENDS Integers, Sequences

CONSTANTS Input,      \* the results of the writer's read() calls before EOF
          MaxStarts   \* bound on how often the reader is started

ASSUME InputAssumption == Input \in Seq(Nat \ {0})

WRITE_SEM == 0
READ_SEM == 1
EOF == 0              \* cnt after a read() at end of file
NoSeg == -1
ThreeBlocks == <<3, 1, 2>>    \* an Input of blocks of different sizes

VARIABLES sem,        \* the semaphore set: values by semaphore number, or NoSet
          shm,        \* shmp->cnt and the block in shmp->buf, or NoSeg
          pos,        \* blocks the writer has read
          wpc, wBytes, wXfrs,
          rpc, rBytes, rXfrs, starts,
          out,        \* what the reader has written
          ioError     \* a read() or write() failed and ended its program

writer == <<wpc, wBytes, wXfrs, pos>>
reader == <<rpc, rBytes, rXfrs, starts, out>>
xfrVars == <<sem, shm, writer, reader, ioError>>
-----------------------------------------------------------------------------
(* src/svsem/binary_sems.c.  A reserveSem() that is interrupted is retried  *)
(* (bsRetryOnEintr is TRUE), which is no step of the model; a call on a set *)
(* that has been removed fails.                                             *)

NoSet == [n \in {} |-> 0]
SetExists == sem # NoSet

\* semget() with IPC_CREAT: a new set starts with zeros, an old one is kept.
SemGet(nums) == sem' = IF SetExists THEN sem ELSE [n \in nums |-> 0]

\* semctl() with IPC_RMID.
SemRemove == sem' = NoSet

InitSemAvailable(n) == SetExists /\ sem' = [sem EXCEPT ![n] = 1]
InitSemInUse(n) == SetExists /\ sem' = [sem EXCEPT ![n] = 0]

\* Blocks until the value is positive.
ReserveSem(n) == SetExists /\ sem[n] > 0 /\ sem' = [sem EXCEPT ![n] = @ - 1]

ReleaseSem(n) == SetExists /\ sem' = [sem EXCEPT ![n] = @ + 1]
-----------------------------------------------------------------------------
XfrInit ==
  /\ sem = NoSet /\ shm = NoSeg /\ pos = 0 /\ out = <<>>
  /\ wpc = "semget" /\ wBytes = 0 /\ wXfrs = 0
  /\ rpc = "idle" /\ rBytes = 0 /\ rXfrs = 0 /\ starts = 0
  /\ ioError = FALSE

-----------------------------------------------------------------------------
(* The writer *)

WGoto(from, to) == wpc = from /\ wpc' = to

WSemget == WGoto("semget", "initWrite") /\ SemGet({WRITE_SEM, READ_SEM}) /\ UNCHANGED shm
WInitWrite == WGoto("initWrite", "initRead") /\ InitSemAvailable(WRITE_SEM) /\ UNCHANGED shm
WInitRead == WGoto("initRead", "shmget") /\ InitSemInUse(READ_SEM) /\ UNCHANGED shm
\* A new segment is zero, an existing one keeps its contents.
WShmget ==
  /\ WGoto("shmget", "reserve")
  /\ shm' = IF shm = NoSeg THEN 0 ELSE shm
  /\ UNCHANGED sem

WriterSetup == /\ WSemget \/ WInitWrite \/ WInitRead \/ WShmget
               /\ UNCHANGED <<wBytes, wXfrs, pos, reader, ioError>>

\* Mutant of WReserve: the first reserveSem() of the loop is missing.
WReserveNot == WGoto("reserve", "fill") /\ UNCHANGED <<sem, shm, wBytes, wXfrs, pos, reader, ioError>>

WReserve == WGoto("reserve", "fill") /\ ReserveSem(WRITE_SEM) /\ UNCHANGED <<shm, wBytes, wXfrs, pos, reader, ioError>>

WFill ==
  /\ WGoto("fill", "release")
  /\ IF pos < Len(Input)
     THEN shm' = Input[pos + 1] /\ pos' = pos + 1
     ELSE shm' = EOF /\ UNCHANGED pos
  /\ UNCHANGED <<sem, wBytes, wXfrs, reader, ioError>>

WFillError ==
  /\ WGoto("fill", "failed")
  /\ ioError' = TRUE
  /\ UNCHANGED <<sem, shm, wBytes, wXfrs, pos, reader>>

WRelease == WGoto("release", "test") /\ ReleaseSem(READ_SEM) /\ UNCHANGED <<shm, wBytes, wXfrs, pos, reader, ioError>>

\* cnt is looked at after the reader got its turn.
WTest ==
  /\ wpc = "test"
  /\ IF shm = EOF
     THEN wpc' = "last" /\ UNCHANGED <<wBytes, wXfrs>>
     ELSE wpc' = "reserve" /\ wXfrs' = wXfrs + 1 /\ wBytes' = wBytes + shm
  /\ UNCHANGED <<sem, shm, pos, reader, ioError>>

WLast == WGoto("last", "rmsem") /\ ReserveSem(WRITE_SEM) /\ UNCHANGED <<shm, wBytes, wXfrs, pos, reader, ioError>>
WRmsem == WGoto("rmsem", "rmshm") /\ SemRemove /\ UNCHANGED <<shm, wBytes, wXfrs, pos, reader, ioError>>
WRmshm == WGoto("rmshm", "done") /\ shm' = NoSeg /\ UNCHANGED <<sem, wBytes, wXfrs, pos, reader, ioError>>

Writer == WriterSetup \/ WReserve \/ WFill \/ WFillError \/ WRelease \/ WTest \/ WLast \/ WRmsem \/ WRmshm

-----------------------------------------------------------------------------
(* The reader *)

RGoto(from, to) == rpc = from /\ rpc' = to

\* The program is started (again) from the shell.
RStart ==
  /\ rpc \in {"idle", "failed"} /\ starts < MaxStarts
  /\ rpc' = "semget" /\ starts' = starts + 1 /\ rBytes' = 0 /\ rXfrs' = 0
  /\ UNCHANGED <<sem, shm, writer, out, ioError>>

\* semget() and shmget() without IPC_CREAT fail if the object is missing.
RSemget == rpc = "semget" /\ rpc' = (IF SetExists THEN "shmget" ELSE "failed") /\ UNCHANGED sem
RShmget == rpc = "shmget" /\ rpc' = (IF shm # NoSeg THEN "reserve" ELSE "failed") /\ UNCHANGED sem
RReserve == RGoto("reserve", "check") /\ ReserveSem(READ_SEM)

\* Mutant of RLast: the reader ends without giving the writer a last turn.
RLastNot == RGoto("last", "done") /\ UNCHANGED sem

\* Detach, then give the writer one more turn.
RLast == RGoto("last", "done") /\ ReleaseSem(WRITE_SEM)

ReaderControl ==
  /\ RSemget \/ RShmget \/ RReserve \/ RLast
  /\ UNCHANGED <<shm, writer, rBytes, rXfrs, starts, out, ioError>>

RCheck ==
  /\ rpc = "check"
  /\ IF shm = EOF
     THEN rpc' = "last" /\ UNCHANGED rBytes
     ELSE rpc' = "write" /\ rBytes' = rBytes + shm
  /\ UNCHANGED <<sem, shm, writer, rXfrs, starts, out, ioError>>

RWrite ==
  /\ RGoto("write", "release")
  /\ out' = Append(out, shm)
  /\ UNCHANGED <<sem, shm, writer, rBytes, rXfrs, starts, ioError>>

\* A partial or failed write() is fatal.
RWriteError ==
  /\ RGoto("write", "failed")
  /\ ioError' = TRUE
  /\ UNCHANGED <<sem, shm, writer, rBytes, rXfrs, starts, out>>

RRelease ==
  /\ RGoto("release", "reserve") /\ ReleaseSem(WRITE_SEM)
  /\ rXfrs' = rXfrs + 1
  /\ UNCHANGED <<shm, writer, rBytes, starts, out, ioError>>

Reader == ReaderControl \/ RCheck \/ RWrite \/ RWriteError \/ RRelease

-----------------------------------------------------------------------------
Finished == wpc = "done" /\ rpc = "done" /\ UNCHANGED xfrVars

XfrNext == Writer \/ Reader \/ RStart \/ Finished

XfrSpec == XfrInit /\ [][XfrNext]_xfrVars

\* Both processes run; the reader need not be started, nor started again.
XfrFairSpec == XfrSpec /\ WF_xfrVars(Writer) /\ WF_xfrVars(Reader)

-----------------------------------------------------------------------------
XfrTypeOK ==
  /\ SetExists => sem \in [{WRITE_SEM, READ_SEM} -> 0..1]
  /\ shm \in Nat \cup {NoSeg} /\ pos \in 0..Len(Input) /\ out \in Seq(Nat)
  /\ wBytes \in Nat /\ wXfrs \in Nat /\ rBytes \in Nat /\ rXfrs \in Nat /\ ioError \in BOOLEAN
  /\ wpc \in {"semget", "initWrite", "initRead", "shmget", "reserve", "fill", "release",
              "test", "last", "rmsem", "rmshm", "done", "failed"}
  /\ rpc \in {"idle", "semget", "shmget", "reserve", "check", "write", "release", "last", "done", "failed"}

\* The two processes have exclusive access to the segment: the writer never
\* fills it while the reader looks at cnt or copies buf, and the semaphores are
\* there whenever the reader makes a call on them (svshm_xfr_writer.c:21-25).
Exclusive ==
  /\ ~(wpc \in {"fill", "release"} /\ rpc \in {"check", "write", "release"})
  /\ rpc \in {"reserve", "check", "write", "release", "last"} => SetExists

\* What the two programs report at the end agrees: every byte and every
\* transfer sent was received.
ReportsAgree ==
  wpc = "done" /\ rpc = "done" => wBytes = rBytes /\ wXfrs = rXfrs /\ out = Input

\* The pair implements a stream with room for one block.
Transfer == INSTANCE Stream WITH Capacity <- 1, taken <- pos, closed <- (rpc \in {"last", "done"})
StreamSpec == Transfer!Spec

\* A reader that has got as far as its first reserveSem() brings the transfer
\* to its end, with the IPC objects removed, unless a read() or write() fails.
TransferEnds == rpc = "reserve" ~> (wpc = "done" /\ rpc = "done") \/ ioError
=============================================================================
