---------------------- MODULE ProducerConsumer_proofs -----------------------
(***************************************************************************)
(* Proofs about the programs in which one side hands units to the other:   *)
(* the writer and the reader of a shared memory segment, for every input   *)
(* and any number of starts of the reader, and the threads of              *)
(* prod_cons_cv.c, for every set of threads and every number of units.     *)
(***************************************************************************)
EXTENDS SvshmXfr, ProdConsCv, SequenceTheorems, FiniteSetTheorems, TLAPS

(***************************************************************************)
(* svshm_xfr_writer.c and svshm_xfr_reader.c                               *)
(***************************************************************************)

\* The reader does not have the turn and has not ended.
Away == rpc \in {"idle", "semget", "shmget", "reserve", "failed"}

\* The writer is between two turns of its own.
Between == wpc \in {"reserve", "test", "last"}

Sems(w, r) == sem \in [{WRITE_SEM, READ_SEM} -> 0..1] /\ sem[WRITE_SEM] = w /\ sem[READ_SEM] = r

\* The segment holds the last block read, which the reader has not written, or
\* tells of the end of the input.
Pending ==
  \/ shm # EOF /\ pos > 0 /\ shm = Input[pos] /\ Len(out) = pos - 1
  \/ shm = EOF /\ wpc # "reserve" /\ pos = Len(Input) /\ Len(out) = pos

AllWritten == Len(out) = pos

-----------------------------------------------------------------------------
(* The phases of a transfer *)

\* Neither side has a segment yet, and the set is as far as the writer has got.
Setup ==
  /\ shm = NoSeg /\ pos = 0 /\ out = <<>> /\ ~ioError
  /\ wBytes = 0 /\ wXfrs = 0 /\ rBytes = 0 /\ rXfrs = 0
  /\ rpc \in {"idle", "semget", "shmget", "failed"}
  /\ \/ wpc = "semget" /\ sem = NoSet
     \/ wpc = "initWrite" /\ Sems(0, 0)
     \/ wpc \in {"initRead", "shmget"} /\ Sems(1, 0)

\* One semaphore is available.
WriterNext ==
  /\ Sems(1, 0) /\ Between /\ ~ioError /\ AllWritten
  /\ \/ Away
     \/ rpc = "done" /\ wpc # "reserve" /\ shm = EOF /\ pos = Len(Input)
  /\ shm = EOF /\ wpc # "reserve" => rpc = "done"
ReaderNext == Sems(0, 1) /\ Between /\ ~ioError /\ Away /\ Pending

\* One side has reserved the semaphore that the other released.
WriterHas ==
  /\ Sems(0, 0) /\ ~ioError /\ Away
  /\ \/ wpc = "fill" /\ AllWritten
     \/ wpc = "release" /\ Pending
ReaderHas ==
  /\ Sems(0, 0) /\ ~ioError /\ Between
  /\ \/ rpc = "check" /\ Pending
     \/ rpc = "write" /\ Pending /\ shm # EOF
     \/ rpc = "release" /\ AllWritten /\ shm # EOF
     \/ rpc = "last" /\ Pending /\ shm = EOF

\* A failed read() or write() took the turn with it.
TurnLost == Sems(0, 0) /\ ioError /\ Away /\ (Between \/ wpc = "failed") /\ Len(out) <= pos

Loop ==
  /\ shm \in Nat
  /\ wpc = "last" => shm = EOF
  /\ WriterNext \/ ReaderNext \/ WriterHas \/ ReaderHas \/ TurnLost

\* After the reader's last turn the writer removes the set and the segment.
Removal ==
  /\ rpc = "done" /\ ~ioError /\ pos = Len(Input) /\ AllWritten
  /\ \/ wpc = "rmsem" /\ sem \in [{WRITE_SEM, READ_SEM} -> 0..1] /\ shm = EOF
     \/ wpc = "rmshm" /\ sem = NoSet /\ shm = EOF
     \/ wpc = "done" /\ sem = NoSet /\ shm = NoSeg

-----------------------------------------------------------------------------
(* The counters *)

Block == IF shm = NoSeg THEN 0 ELSE shm
One == IF Block = 0 THEN 0 ELSE 1

\* The block in the segment is already read and not yet counted by the writer,
\* or not yet counted by the reader in its bytes or its transfers.
WriterOwes == wpc \in {"release", "test"}
ReaderTurn == wpc = "release" \/ (SetExists /\ sem[READ_SEM] = 1)
ReaderOwes == ReaderTurn \/ rpc = "check"
ReaderOwesXfr == ReaderTurn \/ rpc \in {"check", "write", "release"}

Counted ==
  ~ioError =>
    /\ wBytes + (IF WriterOwes THEN Block ELSE 0) = rBytes + (IF ReaderOwes THEN Block ELSE 0)
    /\ wXfrs + (IF WriterOwes THEN One ELSE 0) = rXfrs + (IF ReaderOwesXfr THEN One ELSE 0)
    /\ rpc \in {"idle", "semget", "shmget", "failed"} => rBytes = 0 /\ rXfrs = 0

InOrder == \A i \in 1..Len(out) : out[i] = Input[i]

XfrIInv ==
  /\ pos \in 0..Len(Input) /\ out \in Seq(Nat) /\ ioError \in BOOLEAN
  /\ wBytes \in Nat /\ wXfrs \in Nat /\ rBytes \in Nat /\ rXfrs \in Nat
  /\ Setup \/ Loop \/ Removal
  /\ InOrder
  /\ Counted

-----------------------------------------------------------------------------
(* What the operations on the set do *)

\* A set with the two semaphores is not the missing set.
LEMMA SemsExist == \A f \in [{WRITE_SEM, READ_SEM} -> 0..1] : f # NoSet
<1> SUFFICES ASSUME NEW f \in [{WRITE_SEM, READ_SEM} -> 0..1] PROVE f # NoSet
  OBVIOUS
<1>1. DOMAIN f = {WRITE_SEM, READ_SEM}
  OBVIOUS
<1>2. DOMAIN NoSet = {}
  BY DEF NoSet
<1> QED
  BY <1>1, <1>2 DEF WRITE_SEM, READ_SEM

\* reserveSem() waits for a one and leaves a zero.
LEMMA Reserve ==
  ASSUME NEW w, NEW r, Sems(w, r)
  PROVE  /\ ReserveSem(WRITE_SEM) => w = 1 /\ Sems(0, r)'
         /\ ReserveSem(READ_SEM) => r = 1 /\ Sems(w, 0)'
BY DEF Sems, ReserveSem, WRITE_SEM, READ_SEM

\* releaseSem() on a zero leaves a one.
LEMMA Release ==
  ASSUME NEW w, NEW r, Sems(w, r)
  PROVE  /\ w = 0 /\ ReleaseSem(WRITE_SEM) => Sems(1, r)'
         /\ r = 0 /\ ReleaseSem(READ_SEM) => Sems(w, 1)'
BY DEF Sems, ReleaseSem, WRITE_SEM, READ_SEM

\* semget() creates a set of zeros, which the two calls of the writer initialize.
LEMMA Initialize ==
  /\ sem = NoSet /\ SemGet({WRITE_SEM, READ_SEM}) => Sems(0, 0)'
  /\ Sems(0, 0) /\ InitSemAvailable(WRITE_SEM) => Sems(1, 0)'
  /\ Sems(1, 0) /\ InitSemInUse(READ_SEM) => Sems(1, 0)'
BY DEF Sems, SemGet, SetExists, InitSemAvailable, InitSemInUse, WRITE_SEM, READ_SEM

\* A step that leaves the set alone.
LEMMA Unchanged ==
  ASSUME NEW w, NEW r, Sems(w, r), sem' = sem
  PROVE  Sems(w, r)'
BY DEF Sems

-----------------------------------------------------------------------------
(* The invariant *)

\* Before either program is started.
LEMMA InitXfrIInv == XfrInit => XfrIInv
<1> SUFFICES ASSUME XfrInit PROVE XfrIInv
  OBVIOUS
<1>1. out \in Seq(Nat) /\ Len(out) = 0 /\ pos \in 0..Len(Input)
  BY InputAssumption DEF XfrInit
<1>2. Setup
  BY DEF XfrInit, Setup
<1>3. InOrder
  BY <1>1 DEF InOrder
<1>4. Counted
  BY DEF XfrInit, Counted, WriterOwes, ReaderOwes, ReaderOwesXfr, ReaderTurn, SetExists, Block, One, NoSeg
<1> QED
  BY <1>1, <1>2, <1>3, <1>4 DEF XfrInit, XfrIInv

\* The writer creates and initializes the set, then the segment.
LEMMA SetupIInv == XfrIInv /\ WriterSetup => XfrIInv'
<1> SUFFICES ASSUME XfrIInv, WriterSetup PROVE XfrIInv'
  OBVIOUS
<1> USE DEF WGoto
<1>1. Setup
  BY DEF XfrIInv, WriterSetup, WSemget, WInitWrite, WInitRead, WShmget, Loop, Removal,
         WriterNext, ReaderNext, WriterHas, ReaderHas, TurnLost, Between
<1>2. UNCHANGED <<wBytes, wXfrs, pos, rpc, rBytes, rXfrs, starts, out, ioError>>
  BY DEF WriterSetup, reader
<1>3. CASE WSemget \/ WInitWrite \/ WInitRead
  <2>1. /\ shm' = NoSeg
        /\ \/ wpc' = "initWrite" /\ Sems(0, 0)'
           \/ wpc' \in {"initRead", "shmget"} /\ Sems(1, 0)'
    BY <1>1, <1>3, Initialize DEF WSemget, WInitWrite, WInitRead, Setup
  <2>2. Setup'
    BY <1>1, <1>2, <2>1 DEF Setup
  <2>3. Counted'
    BY <2>2 DEF Setup, Counted, Block, One
  <2> QED
    BY <1>2, <2>2, <2>3 DEF XfrIInv, InOrder
<1>4. CASE WShmget
  <2>1. Sems(1, 0)' /\ shm' = 0 /\ wpc' = "reserve"
    BY <1>1, <1>4, Unchanged DEF WShmget, Setup
  <2>2. Len(out) = 0
    BY <1>1 DEF Setup
  <2>3. WriterNext'
    BY <1>1, <1>2, <2>1, <2>2 DEF Setup, WriterNext, Between, Away, AllWritten
  <2>4. Counted'
    BY <1>1, <1>2, <2>1 DEF Setup, Counted, Block, One
  <2> QED
    BY <1>2, <2>1, <2>3, <2>4 DEF XfrIInv, InOrder, Loop
<1> QED
  BY <1>3, <1>4 DEF WriterSetup

\* The writer takes its turn.
LEMMA WReserveIInv == XfrIInv /\ WReserve => XfrIInv'
<1> SUFFICES ASSUME XfrIInv, WReserve PROVE XfrIInv'
  OBVIOUS
<1> USE DEF WGoto
<1>1. /\ wpc = "reserve" /\ wpc' = "fill" /\ sem[WRITE_SEM] > 0 /\ ReserveSem(WRITE_SEM)
      /\ UNCHANGED <<shm, wBytes, wXfrs, pos, rpc, rBytes, rXfrs, starts, out, ioError>>
  BY DEF WReserve, ReserveSem, reader
<1>2. Loop /\ WriterNext
  BY <1>1 DEF XfrIInv, Setup, Loop, Removal, ReaderNext, WriterHas, ReaderHas, TurnLost, Sems
<1>3. Sems(0, 0)'
  BY <1>1, <1>2, Reserve DEF WriterNext
<1>4. WriterHas'
  BY <1>1, <1>2, <1>3 DEF WriterNext, WriterHas, Away, AllWritten
<1>5. Counted'
  BY <1>1, <1>2, <1>3 DEF XfrIInv, WriterNext, Sems, Away, Counted, WriterOwes, ReaderOwes, ReaderOwesXfr, ReaderTurn, Block, One
<1> QED
  BY <1>1, <1>2, <1>4, <1>5 DEF XfrIInv, InOrder, Loop

\* It reads a block, or the end of the input, into the segment.
LEMMA WFillIInv == XfrIInv /\ WFill => XfrIInv'
<1> SUFFICES ASSUME XfrIInv, WFill PROVE XfrIInv'
  OBVIOUS
<1>1. /\ wpc = "fill" /\ wpc' = "release"
      /\ UNCHANGED <<sem, wBytes, wXfrs, rpc, rBytes, rXfrs, starts, out, ioError>>
  BY DEF WFill, WGoto, reader
<1>2. Loop /\ WriterHas /\ AllWritten
  BY <1>1 DEF XfrIInv, Setup, Loop, Removal, WriterNext, ReaderNext, WriterHas, ReaderHas, TurnLost, Between
<1>3. shm' \in Nat /\ pos' \in 0..Len(Input) /\ Pending'
  <2>1. CASE pos < Len(Input)
    <3>1. pos + 1 \in 1..Len(Input) /\ Input[pos + 1] \in Nat \ {0}
      BY <2>1, InputAssumption DEF XfrIInv
    <3> QED
      BY <1>1, <1>2, <2>1, <3>1 DEF XfrIInv, WFill, Pending, AllWritten, EOF
  <2>2. CASE ~(pos < Len(Input))
    BY <1>1, <1>2, <2>2, InputAssumption DEF XfrIInv, WFill, Pending, AllWritten, EOF
  <2> QED
    BY <2>1, <2>2
<1>4. Sems(0, 0)'
  BY <1>1, <1>2, Unchanged DEF WriterHas
<1>5. WriterHas'
  BY <1>1, <1>2, <1>3, <1>4 DEF WriterHas, Away
<1>6. Counted'
  <2>1. wBytes = rBytes /\ wXfrs = rXfrs /\ (rpc \in {"idle", "semget", "shmget", "failed"} => rBytes = 0 /\ rXfrs = 0)
    BY <1>1, <1>2 DEF XfrIInv, WriterHas, Sems, Away, Counted, WriterOwes, ReaderOwes, ReaderOwesXfr, ReaderTurn
  <2>2. WriterOwes' /\ ReaderOwes' /\ ReaderOwesXfr'
    BY <1>1 DEF WriterOwes, ReaderOwes, ReaderOwesXfr, ReaderTurn
  <2> QED
    BY <1>1, <2>1, <2>2 DEF Counted
<1> QED
  BY <1>1, <1>3, <1>5, <1>6 DEF XfrIInv, InOrder, Loop

\* Its read() fails.
LEMMA WFillErrorIInv == XfrIInv /\ WFillError => XfrIInv'
<1> SUFFICES ASSUME XfrIInv, WFillError PROVE XfrIInv'
  OBVIOUS
<1>1. /\ wpc = "fill" /\ wpc' = "failed" /\ ioError' = TRUE
      /\ UNCHANGED <<sem, shm, wBytes, wXfrs, pos, rpc, rBytes, rXfrs, starts, out>>
  BY DEF WFillError, WGoto, reader
<1>2. Loop /\ WriterHas /\ AllWritten
  BY <1>1 DEF XfrIInv, Setup, Loop, Removal, WriterNext, ReaderNext, WriterHas, ReaderHas, TurnLost, Between
<1>3. Sems(0, 0)'
  BY <1>1, <1>2, Unchanged DEF WriterHas
<1>4. TurnLost'
  BY <1>1, <1>2, <1>3 DEF XfrIInv, WriterHas, TurnLost, Away, AllWritten
<1> QED
  BY <1>1, <1>2, <1>4 DEF XfrIInv, InOrder, Counted, Loop

\* It gives the reader a turn.
LEMMA WReleaseIInv == XfrIInv /\ WRelease => XfrIInv'
<1> SUFFICES ASSUME XfrIInv, WRelease PROVE XfrIInv'
  OBVIOUS
<1>1. /\ wpc = "release" /\ wpc' = "test" /\ ReleaseSem(READ_SEM)
      /\ UNCHANGED <<shm, wBytes, wXfrs, pos, rpc, rBytes, rXfrs, starts, out, ioError>>
  BY DEF WRelease, WGoto, reader
<1>2. Loop /\ WriterHas /\ Pending
  BY <1>1 DEF XfrIInv, Setup, Loop, Removal, WriterNext, ReaderNext, WriterHas, ReaderHas, TurnLost, Between
<1>3. Sems(0, 1)'
  BY <1>1, <1>2, Release DEF WriterHas
<1>4. ReaderNext'
  BY <1>1, <1>2, <1>3 DEF WriterHas, ReaderNext, Between, Away, Pending
<1>5. Counted'
  <2>1. SetExists'
    BY <1>3, SemsExist DEF Sems, SetExists
  <2> QED
    BY <1>1, <1>2, <1>3, <2>1 DEF XfrIInv, WriterHas, Sems, Away, Counted, WriterOwes, ReaderOwes, ReaderOwesXfr, ReaderTurn, Block, One
<1> QED
  BY <1>1, <1>2, <1>4, <1>5 DEF XfrIInv, InOrder, Loop

\* It looks at cnt, while the reader may have its turn.
LEMMA WTestIInv == XfrIInv /\ WTest => XfrIInv'
<1> SUFFICES ASSUME XfrIInv, WTest PROVE XfrIInv'
  OBVIOUS
<1>1. /\ wpc = "test" /\ wpc' \in {"last", "reserve"} /\ (wpc' = "last" <=> shm = EOF)
      /\ UNCHANGED <<sem, shm, pos, rpc, rBytes, rXfrs, starts, out, ioError>>
  BY DEF WTest, reader
<1>2. Loop /\ (WriterNext \/ ReaderNext \/ ReaderHas \/ TurnLost)
  BY <1>1 DEF XfrIInv, Setup, Loop, Removal, WriterHas
<1>3. ASSUME NEW w, NEW r, Sems(w, r) PROVE Sems(w, r)'
  BY <1>1, <1>3, Unchanged
<1>4. (WriterNext \/ ReaderNext \/ ReaderHas \/ TurnLost)'
  BY <1>1, <1>2, <1>3 DEF WriterNext, ReaderNext, ReaderHas, TurnLost, Between, Away, Pending, AllWritten
<1>5. wBytes' \in Nat /\ wXfrs' \in Nat /\ Counted'
  BY <1>1, <1>2 DEF WTest, XfrIInv, Loop, Counted, WriterOwes, ReaderOwes, ReaderOwesXfr, ReaderTurn, SetExists, Block, One, EOF, NoSeg
<1> QED
  BY <1>1, <1>2, <1>4, <1>5 DEF XfrIInv, InOrder, Loop

\* It waits for the reader's last turn and removes the set and the segment.
LEMMA WRemoveIInv == XfrIInv /\ (WLast \/ WRmsem \/ WRmshm) => XfrIInv'
<1> SUFFICES ASSUME XfrIInv, WLast \/ WRmsem \/ WRmshm PROVE XfrIInv'
  OBVIOUS
<1>1. UNCHANGED <<wBytes, wXfrs, pos, rpc, rBytes, rXfrs, starts, out, ioError>>
  BY DEF WLast, WRmsem, WRmshm, reader
<1>2. CASE WLast
  <2>1. /\ wpc = "last" /\ wpc' = "rmsem" /\ shm' = shm
        /\ sem[WRITE_SEM] > 0 /\ ReserveSem(WRITE_SEM)
    BY <1>2 DEF WLast, WGoto, ReserveSem
  <2>2. Loop /\ WriterNext
    BY <2>1 DEF XfrIInv, Setup, Loop, Removal, ReaderNext, WriterHas, ReaderHas, TurnLost, Sems
  <2>3. Sems(0, 0)'
    BY <2>1, <2>2, Reserve DEF WriterNext
  <2>4. Removal'
    BY <1>1, <2>1, <2>2, <2>3 DEF Loop, WriterNext, Removal, Away, AllWritten, Sems
  <2>5. Counted'
    BY <1>1, <2>1, <2>2 DEF XfrIInv, Loop, Counted, Block, One, EOF, NoSeg, Removal, WriterNext
  <2> QED
    BY <1>1, <2>4, <2>5 DEF XfrIInv, InOrder
<1>3. CASE WRmsem \/ WRmshm
  <2>1. Removal /\ Removal' /\ Block = 0 /\ Block' = 0
    BY <1>1, <1>3 DEF WRmsem, WRmshm, WGoto, SemRemove, XfrIInv, Setup, Loop, Removal, WriterNext,
                      ReaderNext, WriterHas, ReaderHas, TurnLost, Between, AllWritten, Block, EOF, NoSeg
  <2>2. Counted'
    BY <1>1, <2>1 DEF XfrIInv, Counted, One, Removal
  <2> QED
    BY <1>1, <2>1, <2>2 DEF XfrIInv, InOrder
<1> QED
  BY <1>2, <1>3

\* The reader looks for the set and the segment, or is started: it stays away.
LEMMA RSearchIInv ==
  ASSUME XfrIInv,
         \/ RStart
         \/ (RSemget \/ RShmget) /\ UNCHANGED <<shm, writer, rBytes, rXfrs, starts, out, ioError>>
  PROVE  XfrIInv'
<1>1. /\ UNCHANGED <<sem, shm, wpc, wBytes, wXfrs, pos, out, ioError>>
      /\ rpc \in {"idle", "semget", "shmget", "failed"}
      /\ rpc' \in {"semget", "shmget", "failed", "reserve"} /\ (rpc' = "reserve" => shm # NoSeg)
  BY DEF RStart, RSemget, RShmget, writer
<1>2. /\ rBytes' \in Nat /\ rXfrs' \in Nat
      /\ ~ioError => rBytes = 0 /\ rXfrs = 0 /\ rBytes' = 0 /\ rXfrs' = 0
  BY <1>1 DEF RStart, XfrIInv, Counted
<1>3. Setup \/ (Loop /\ Away)
  BY <1>1 DEF XfrIInv, Loop, Removal, Away
<1>4. ASSUME NEW w, NEW r, Sems(w, r) PROVE Sems(w, r)'
  BY <1>1, <1>4, Unchanged
<1>5. Setup => Setup'
  <2>1. (sem = NoSet => sem' = NoSet) /\ (Sems(0, 0) => Sems(0, 0)') /\ (Sems(1, 0) => Sems(1, 0)')
    BY <1>1, <1>4
  <2> QED
    BY <1>1, <1>2, <2>1 DEF Setup
<1>6. Loop /\ Away => Loop'
  <2>1. (Sems(0, 0) => Sems(0, 0)') /\ (Sems(1, 0) => Sems(1, 0)') /\ (Sems(0, 1) => Sems(0, 1)')
    BY <1>4
  <2> QED
    BY <1>1, <2>1 DEF Loop, WriterNext, ReaderNext, WriterHas, ReaderHas, TurnLost, Between, Away, Pending, AllWritten
<1>7. Counted'
  BY <1>1, <1>2 DEF XfrIInv, Counted, WriterOwes, ReaderOwes, ReaderOwesXfr, ReaderTurn, SetExists, Block, One
<1> QED
  BY <1>1, <1>2, <1>3, <1>5, <1>6, <1>7 DEF XfrIInv, InOrder

\* The reader takes its turn.
LEMMA RReserveIInv ==
  ASSUME XfrIInv, RReserve, UNCHANGED <<shm, writer, rBytes, rXfrs, starts, out, ioError>>
  PROVE  XfrIInv'
<1>1. /\ rpc = "reserve" /\ rpc' = "check" /\ sem[READ_SEM] > 0 /\ ReserveSem(READ_SEM)
      /\ UNCHANGED <<shm, wpc, wBytes, wXfrs, pos, rBytes, rXfrs, out, ioError>>
  BY DEF RReserve, RGoto, ReserveSem, writer
<1>2. Loop /\ ReaderNext
  BY <1>1 DEF XfrIInv, Setup, Loop, Removal, WriterNext, WriterHas, ReaderHas, TurnLost, Sems
<1>3. Sems(0, 0)'
  BY <1>1, <1>2, Reserve DEF ReaderNext
<1>4. ReaderHas'
  BY <1>1, <1>2, <1>3 DEF ReaderNext, ReaderHas, Between, Pending
<1>5. Counted'
  <2>1. ReaderTurn /\ ~ReaderTurn'
    BY <1>1, <1>2, <1>3, SemsExist DEF ReaderNext, ReaderTurn, Sems, SetExists, Between
  <2> QED
    BY <1>1, <2>1 DEF XfrIInv, Counted, WriterOwes, ReaderOwes, ReaderOwesXfr, Block, One
<1> QED
  BY <1>1, <1>2, <1>4, <1>5 DEF XfrIInv, InOrder, Loop

\* It looks at cnt.
LEMMA RCheckIInv == XfrIInv /\ RCheck => XfrIInv'
<1> SUFFICES ASSUME XfrIInv, RCheck PROVE XfrIInv'
  OBVIOUS
<1>1. /\ rpc = "check" /\ rpc' \in {"last", "write"} /\ (rpc' = "last" <=> shm = EOF)
      /\ rBytes' = (IF shm = EOF THEN rBytes ELSE rBytes + shm)
      /\ UNCHANGED <<sem, shm, wpc, wBytes, wXfrs, pos, rXfrs, out, ioError>>
  BY DEF RCheck, writer
<1>2. Loop /\ ReaderHas /\ Pending
  BY <1>1 DEF XfrIInv, Setup, Loop, Removal, WriterNext, ReaderNext, WriterHas, ReaderHas, TurnLost, Away
<1>3. Sems(0, 0)'
  BY <1>1, <1>2, Unchanged DEF ReaderHas
<1>4. ReaderHas'
  BY <1>1, <1>2, <1>3 DEF ReaderHas, Between, Pending
<1>5. rBytes' \in Nat /\ Counted'
  <2>1. ~ReaderTurn /\ ~ReaderTurn'
    BY <1>1, <1>2, <1>3 DEF ReaderHas, ReaderTurn, Sems, Between
  <2> QED
    BY <1>1, <1>2, <2>1 DEF XfrIInv, Loop, Counted, WriterOwes, ReaderOwes, ReaderOwesXfr, Block, One, EOF, NoSeg
<1> QED
  BY <1>1, <1>2, <1>4, <1>5 DEF XfrIInv, InOrder, Loop

\* It writes the block, which is the next one of the input.
LEMMA RWriteIInv == XfrIInv /\ RWrite => XfrIInv'
<1> SUFFICES ASSUME XfrIInv, RWrite PROVE XfrIInv'
  OBVIOUS
<1>1. /\ rpc = "write" /\ rpc' = "release" /\ out' = Append(out, shm)
      /\ UNCHANGED <<sem, shm, wpc, wBytes, wXfrs, pos, rBytes, rXfrs, ioError>>
  BY DEF RWrite, RGoto, writer
<1>2. Loop /\ ReaderHas /\ Pending /\ shm # EOF
  BY <1>1 DEF XfrIInv, Setup, Loop, Removal, WriterNext, ReaderNext, WriterHas, ReaderHas, TurnLost, Away
<1>3. out' \in Seq(Nat) /\ InOrder' /\ AllWritten'
  <2>1. out \in Seq(Nat) /\ shm \in Nat /\ pos \in Nat /\ Len(out) = pos - 1 /\ shm = Input[pos]
    BY <1>2 DEF XfrIInv, Loop, Pending
  <2>2. /\ out' \in Seq(Nat) /\ Len(out') = Len(out) + 1 /\ out'[Len(out) + 1] = shm
        /\ \A i \in 1..Len(out) : out'[i] = out[i]
    BY <1>1, <2>1, AppendProperties
  <2> QED
    BY <1>1, <2>1, <2>2 DEF XfrIInv, InOrder, AllWritten
<1>4. Sems(0, 0)'
  BY <1>1, <1>2, Unchanged DEF ReaderHas
<1>5. ReaderHas'
  BY <1>1, <1>2, <1>3, <1>4 DEF ReaderHas, Between
<1>6. Counted'
  BY <1>1 DEF XfrIInv, Counted, WriterOwes, ReaderOwes, ReaderOwesXfr, ReaderTurn, SetExists, Block, One
<1> QED
  BY <1>1, <1>2, <1>3, <1>5, <1>6 DEF XfrIInv, Loop

\* Its write() fails.
LEMMA RWriteErrorIInv == XfrIInv /\ RWriteError => XfrIInv'
<1> SUFFICES ASSUME XfrIInv, RWriteError PROVE XfrIInv'
  OBVIOUS
<1>1. /\ rpc = "write" /\ rpc' = "failed" /\ ioError' = TRUE
      /\ UNCHANGED <<sem, shm, wpc, wBytes, wXfrs, pos, rBytes, rXfrs, out>>
  BY DEF RWriteError, RGoto, writer
<1>2. Loop /\ ReaderHas /\ Pending
  BY <1>1 DEF XfrIInv, Setup, Loop, Removal, WriterNext, ReaderNext, WriterHas, ReaderHas, TurnLost, Away
<1>3. Sems(0, 0)'
  BY <1>1, <1>2, Unchanged DEF ReaderHas
<1>4. TurnLost'
  BY <1>1, <1>2, <1>3 DEF XfrIInv, ReaderHas, TurnLost, Away, Between, Pending
<1> QED
  BY <1>1, <1>2, <1>4 DEF XfrIInv, InOrder, Counted, Loop

\* It gives the writer a turn.
LEMMA RReleaseIInv == XfrIInv /\ RRelease => XfrIInv'
<1> SUFFICES ASSUME XfrIInv, RRelease PROVE XfrIInv'
  OBVIOUS
<1>1. /\ rpc = "release" /\ rpc' = "reserve" /\ rXfrs' = rXfrs + 1 /\ ReleaseSem(WRITE_SEM)
      /\ UNCHANGED <<shm, wpc, wBytes, wXfrs, pos, rBytes, out, ioError>>
  BY DEF RRelease, RGoto, writer
<1>2. Loop /\ ReaderHas /\ AllWritten /\ shm # EOF
  BY <1>1 DEF XfrIInv, Setup, Loop, Removal, WriterNext, ReaderNext, WriterHas, ReaderHas, TurnLost, Away
<1>3. Sems(1, 0)'
  BY <1>1, <1>2, Release DEF ReaderHas
<1>4. WriterNext'
  BY <1>1, <1>2, <1>3 DEF ReaderHas, WriterNext, Between, Away, AllWritten
<1>5. Counted'
  <2>1. ~ReaderTurn /\ ~ReaderTurn'
    BY <1>1, <1>2, <1>3 DEF ReaderHas, ReaderTurn, Sems, Between
  <2> QED
    BY <1>1, <1>2, <2>1 DEF XfrIInv, Loop, Counted, WriterOwes, ReaderOwes, ReaderOwesXfr, Block, One, EOF, NoSeg
<1> QED
  BY <1>1, <1>2, <1>4, <1>5 DEF XfrIInv, InOrder, Loop

\* It gives the writer the last turn.
LEMMA RLastIInv ==
  ASSUME XfrIInv, RLast, UNCHANGED <<shm, writer, rBytes, rXfrs, starts, out, ioError>>
  PROVE  XfrIInv'
<1>1. /\ rpc = "last" /\ rpc' = "done" /\ ReleaseSem(WRITE_SEM)
      /\ UNCHANGED <<shm, wpc, wBytes, wXfrs, pos, rBytes, rXfrs, out, ioError>>
  BY DEF RLast, RGoto, writer
<1>2. Loop /\ ReaderHas /\ Pending /\ shm = EOF
  BY <1>1 DEF XfrIInv, Setup, Loop, Removal, WriterNext, ReaderNext, WriterHas, ReaderHas, TurnLost, Away
<1>3. Sems(1, 0)'
  BY <1>1, <1>2, Release DEF ReaderHas
<1>4. WriterNext'
  BY <1>1, <1>2, <1>3 DEF ReaderHas, WriterNext, Between, Pending, AllWritten
<1>5. Counted'
  <2>1. Block = 0 /\ Block' = 0 /\ One = 0 /\ One' = 0
    BY <1>1, <1>2 DEF Block, One, EOF, NoSeg
  <2> QED
    BY <1>1, <2>1 DEF XfrIInv, Counted
<1> QED
  BY <1>1, <1>2, <1>4, <1>5 DEF XfrIInv, InOrder, Loop

\* Every step of either program keeps the invariant.
LEMMA NextIInv == XfrIInv /\ [XfrNext]_xfrVars => XfrIInv'
<1> SUFFICES ASSUME XfrIInv, [XfrNext]_xfrVars PROVE XfrIInv'
  OBVIOUS
<1>1. CASE Writer
  BY <1>1, SetupIInv, WReserveIInv, WFillIInv, WFillErrorIInv, WReleaseIInv, WTestIInv, WRemoveIInv DEF Writer
<1>2. CASE ReaderControl
  BY <1>2, RSearchIInv, RReserveIInv, RLastIInv DEF ReaderControl
<1>3. CASE RCheck \/ RWrite \/ RWriteError \/ RRelease
  BY <1>3, RCheckIInv, RWriteIInv, RWriteErrorIInv, RReleaseIInv
<1>4. CASE RStart
  BY <1>4, RSearchIInv
<1>5. CASE UNCHANGED xfrVars
  <2>1. UNCHANGED <<sem, shm, wpc, wBytes, wXfrs, pos, rpc, rBytes, rXfrs, out, ioError>>
    BY <1>5 DEF xfrVars, writer, reader
  <2>2. /\ (Setup => Setup') /\ (Loop => Loop') /\ (Removal => Removal')
    BY <2>1 DEF Setup, Loop, Removal, WriterNext, ReaderNext, WriterHas, ReaderHas, TurnLost,
                Between, Away, Pending, AllWritten, Sems
  <2>3. Counted'
    BY <2>1 DEF XfrIInv, Counted, WriterOwes, ReaderOwes, ReaderOwesXfr, ReaderTurn, SetExists, Block, One
  <2> QED
    BY <2>1, <2>2, <2>3 DEF XfrIInv, InOrder
<1> QED
  BY <1>1, <1>2, <1>3, <1>4, <1>5 DEF XfrNext, Reader, Finished

\* The phases, the order of the blocks and the counters of the two programs
\* hold for every input.
THEOREM XfrInvariance == XfrSpec => []XfrIInv
BY InitXfrIInv, NextIInv, PTL DEF XfrSpec

\* Two sequences of the same length with the same elements are the same.
LEMMA Complete == XfrIInv /\ Len(out) = Len(Input) => out = Input
<1> SUFFICES ASSUME XfrIInv, Len(out) = Len(Input) PROVE out = Input
  OBVIOUS
<1>1. out \in Seq(Nat) /\ Input \in Seq(Nat)
  <2>1. Nat \ {0} \subseteq Nat
    OBVIOUS
  <2> QED
    BY <2>1, InputAssumption, SeqMonotonic DEF XfrIInv
<1>2. \A i \in 1..Len(out) : out[i] = Input[i]
  BY DEF XfrIInv, InOrder
<1> QED
  BY <1>1, <1>2, SeqEqual

-----------------------------------------------------------------------------
\* The variables of the two programs have their types (svshm_xfr_writer.c,
\* svshm_xfr_reader.c); the semaphores are never released twice.
THEOREM XfrTypeCorrect == XfrSpec => []XfrTypeOK
<1>1. XfrIInv => XfrTypeOK
  <2> SUFFICES ASSUME XfrIInv PROVE XfrTypeOK
    OBVIOUS
  <2>1. CASE Setup
    BY <2>1 DEF XfrIInv, Setup, XfrTypeOK, Sems, SetExists
  <2>2. CASE Loop
    BY <2>2 DEF XfrIInv, Loop, WriterNext, ReaderNext, WriterHas, ReaderHas, TurnLost, Between, Away, XfrTypeOK, Sems
  <2>3. CASE Removal
    BY <2>3 DEF XfrIInv, Removal, XfrTypeOK, SetExists, EOF
  <2> QED
    BY <2>1, <2>2, <2>3 DEF XfrIInv
<1> QED
  BY <1>1, XfrInvariance, PTL

\* For every input, writer and reader never work on the segment at the same time
\* and the reader never uses a removed semaphore set, however often it is started.
THEOREM ExclusiveAccess == XfrSpec => []Exclusive
<1>1. XfrIInv => Exclusive
  <2> SUFFICES ASSUME XfrIInv PROVE Exclusive
    OBVIOUS
  <2>1. CASE Setup
    BY <2>1 DEF Setup, Exclusive
  <2>2. CASE Loop
    <3>1. SetExists
      BY <2>2, SemsExist DEF Loop, WriterNext, ReaderNext, WriterHas, ReaderHas, TurnLost, Sems, SetExists
    <3> QED
      BY <2>2, <3>1 DEF Loop, WriterNext, ReaderNext, WriterHas, ReaderHas, TurnLost, Between, Away, Exclusive
  <2>3. CASE Removal
    BY <2>3 DEF Removal, Exclusive
  <2> QED
    BY <2>1, <2>2, <2>3 DEF XfrIInv
<1> QED
  BY <1>1, XfrInvariance, PTL

\* For every input, the totals that the two programs print are equal and the
\* output is the input.
THEOREM Totals == XfrSpec => []ReportsAgree
<1>1. XfrIInv => ReportsAgree
  <2> SUFFICES ASSUME XfrIInv, wpc = "done", rpc = "done"
               PROVE  wBytes = rBytes /\ wXfrs = rXfrs /\ out = Input
    BY DEF ReportsAgree
  <2>1. Removal /\ shm = NoSeg /\ ~ioError
    BY DEF XfrIInv, Setup, Loop, Removal, WriterNext, ReaderNext, WriterHas, ReaderHas, TurnLost, Between
  <2>2. out = Input
    BY <2>1, Complete DEF Removal, AllWritten
  <2> QED
    BY <2>1, <2>2 DEF XfrIInv, Counted, Block, One
<1> QED
  BY <1>1, XfrInvariance, PTL

\* For every input, the two programs implement a stream with room for one block:
\* reading a block is Take, writing it is Deliver, and seeing cnt = 0 is Finish.
THEOREM Refinement == XfrSpec => StreamSpec
<1>1. XfrInit => Transfer!Init
  BY DEF XfrInit, Transfer!Init
<1>2. XfrIInv /\ [XfrNext]_xfrVars => [Transfer!Next]_(Transfer!vars)
  <2> SUFFICES ASSUME XfrIInv, [XfrNext]_xfrVars PROVE Transfer!Next \/ UNCHANGED Transfer!vars
    OBVIOUS
  <2>1. CASE WFill
    <3>1. /\ wpc = "fill" /\ rpc' = rpc /\ out' = out /\ pos \in Nat
          /\ \/ pos < Len(Input) /\ pos' = pos + 1
             \/ pos' = pos
      BY <2>1 DEF WFill, WGoto, reader, XfrIInv
    <3>2. Len(out) = pos
      BY <3>1 DEF XfrIInv, Setup, Loop, Removal, WriterNext, ReaderNext, WriterHas, ReaderHas, TurnLost, Between, AllWritten
    <3> QED
      BY <3>1, <3>2 DEF Transfer!Next, Transfer!Take, Transfer!vars
  <2>2. CASE RWrite
    <3>1. rpc = "write" /\ rpc' = "release" /\ out' = Append(out, shm) /\ pos' = pos
      BY <2>2 DEF RWrite, RGoto, writer
    <3>2. Pending /\ shm # EOF /\ pos \in Nat
      BY <3>1 DEF XfrIInv, Setup, Loop, Removal, WriterNext, ReaderNext, WriterHas, ReaderHas, TurnLost, Away
    <3>3. Len(out) < pos /\ shm = Input[Len(out) + 1]
      BY <3>2 DEF Pending
    <3> QED
      BY <3>1, <3>3 DEF Transfer!Next, Transfer!Deliver
  <2>3. CASE RCheck
    <3>1. /\ rpc = "check" /\ UNCHANGED <<out, pos>>
          /\ \/ rpc' = "last" /\ shm = EOF
             \/ rpc' = "write"
      BY <2>3 DEF RCheck, writer
    <3>2. Pending
      BY <3>1 DEF XfrIInv, Setup, Loop, Removal, WriterNext, ReaderNext, WriterHas, ReaderHas, TurnLost, Away
    <3>3. shm = EOF => out = Input
      BY <3>2, Complete DEF Pending
    <3> QED
      BY <3>1, <3>3 DEF Transfer!Next, Transfer!Finish, Transfer!vars
  <2>4. CASE UNCHANGED <<pos, out>> /\ (rpc' \in {"last", "done"} <=> rpc \in {"last", "done"})
    <3>1. (rpc' \in {"last", "done"}) = (rpc \in {"last", "done"})
      BY <2>4
    <3>2. pos' = pos /\ out' = out
      BY <2>4
    <3> QED
      BY <3>1, <3>2, Zenon DEF Transfer!vars
  <2>5. WFill \/ RWrite \/ RCheck \/ (UNCHANGED <<pos, out>> /\ (rpc' \in {"last", "done"} <=> rpc \in {"last", "done"}))
    <3>1. ASSUME Writer PROVE WFill \/ UNCHANGED <<pos, out, rpc>>
      BY <3>1 DEF Writer, WriterSetup, WReserve, WFillError, WRelease, WTest, WLast, WRmsem, WRmshm, reader
    <3>2. ASSUME Reader \/ RStart
          PROVE  RWrite \/ RCheck \/ (UNCHANGED <<pos, out>> /\ (rpc' \in {"last", "done"} <=> rpc \in {"last", "done"}))
      BY <3>2 DEF Reader, ReaderControl, RSemget, RShmget, RReserve, RLast, RWriteError, RRelease, RStart, RGoto, writer
    <3> QED
      BY <3>1, <3>2 DEF XfrNext, Finished, xfrVars, writer, reader
  <2> QED
    BY <2>1, <2>2, <2>3, <2>4, <2>5
<1> QED
  BY <1>1, <1>2, XfrInvariance, PTL DEF XfrSpec, StreamSpec, Transfer!Spec

(***************************************************************************)
(* prod_cons_cv.c                                                          *)
(***************************************************************************)

\* The consumers that have not yet found all units consumed.
Live == {c \in Consumers : ~done[c]}

\* What the counters and the threads' local flags have to do with each other.
IInv ==
  /\ TypeOK
  /\ UnitsConserved
  /\ \A p \in Producers : done[p] => unitsProduced >= TotalUnits
  /\ \A p \in Producers : pc[p] = "ended" => done[p]
  /\ NoSleeperLeftBehind
  /\ \A c \in Consumers : done[c] => pc[c] \in {"unlock", "ended"}
  /\ numLiveCons = Cardinality(Live)
  /\ ExitByLast

USE DEF Threads

\* Cardinalities of sets of live consumers are naturals, and only the empty
\* set has none.
LEMMA LiveFinite ==
  ASSUME NEW S \in SUBSET Consumers
  PROVE  /\ IsFiniteSet(S)
         /\ Cardinality(S) \in Nat
         /\ Cardinality(S) = 0 <=> S = {}
         /\ \A c \in S : Cardinality(S \ {c}) = Cardinality(S) - 1
<1>1. IsFiniteSet(S)
  BY ThreadsAssumption, FS_Subset
<1>2. Cardinality(S) \in Nat
  BY <1>1, FS_CardinalityType
<1>3. Cardinality(S) = 0 <=> S = {}
  BY <1>1, FS_EmptySet
<1>4. \A c \in S : Cardinality(S \ {c}) = Cardinality(S) - 1
  BY <1>1, FS_RemoveElement
<1> QED
  BY <1>1, <1>2, <1>3, <1>4

\* main() starts the threads in a state that satisfies the invariant.
LEMMA InitIInv == Init => IInv
<1> SUFFICES ASSUME Init PROVE IInv
  OBVIOUS
<1>1. Live = Consumers
  BY ThreadsAssumption DEF Init, Live
<1>2. numLiveCons \in Nat
  BY LiveFinite DEF Init
<1>3. TypeOK
  BY <1>2, UnitsAssumption DEF Init, TypeOK
<1> QED
  BY <1>1, <1>3, UnitsAssumption, ThreadsAssumption
     DEF Init, IInv, UnitsConserved, NoSleeperLeftBehind, ExitByLast

\* A step that touches neither the counters nor the flags, moves no producer
\* to its end and only wakes sleepers, preserves the invariant.
LEMMA NeutralStep ==
  ASSUME IInv, TypeOK',
         UNCHANGED <<counters, done, exited>>,
         waiters' \subseteq waiters,
         \A p \in Producers : pc'[p] = "ended" => pc[p] = "ended",
         \A c \in Consumers : pc'[c] = pc[c] \/ ~done[c] \/ pc'[c] = "ended"
  PROVE  IInv'
<1>1. Live' = Live
  BY DEF Live
<1>2. NoSleeperLeftBehind'
  BY DEF IInv, NoSleeperLeftBehind
<1>3. UnitsConserved' /\ ExitByLast'
  BY DEF IInv, UnitsConserved, ExitByLast, counters
<1> QED
  BY <1>1, <1>2, <1>3 DEF IInv, counters

\* Every step of producer() keeps the invariant.
LEMMA ProducerIInv ==
  ASSUME IInv, NEW p \in Producers, ProducerStep(p), ~exited
  PROVE  IInv'
<1> USE UnitsAssumption, ThreadsAssumption
<1>1. CASE ProdLock(p)
  <2>1. TypeOK'
    BY <1>1 DEF ProdLock, MutexLock, Goto, IInv, TypeOK, counters
  <2> QED
    BY <1>1, <2>1, NeutralStep DEF ProdLock, Goto, IInv, TypeOK
<1>2. CASE ProdProduce(p)
  <2>1. TypeOK'
    BY <1>2 DEF ProdProduce, Goto, IInv, TypeOK, counters
  <2>2. Live' = Live
    BY <1>2 DEF ProdProduce, Live, IInv, TypeOK
  <2>3. UnitsConserved' /\ numLiveCons' = numLiveCons /\ exited' = exited
    BY <1>2 DEF ProdProduce, IInv, TypeOK, UnitsConserved, counters
  <2>4. \A q \in Producers : done'[q] => unitsProduced' >= TotalUnits
    BY <1>2 DEF ProdProduce, IInv, TypeOK, counters
  <2>5. \A q \in Threads : pc'[q] = pc[q] \/ pc'[q] = "unlock"
    BY <1>2 DEF ProdProduce, Goto, IInv, TypeOK
  <2>6. \A q \in Producers : pc'[q] = "ended" => done'[q]
    BY <1>2, <2>5 DEF ProdProduce, Goto, IInv, TypeOK
  <2>7. NoSleeperLeftBehind'
    BY <1>2, <2>5 DEF ProdProduce, IInv, NoSleeperLeftBehind
  <2>8. \A c \in Consumers : done'[c] = done[c]
    BY <1>2 DEF ProdProduce, IInv, TypeOK
  <2> QED
    BY <2>1, <2>2, <2>3, <2>4, <2>5, <2>6, <2>7, <2>8 DEF IInv, ExitByLast
<1>3. CASE ProdUnlock(p)
  <2>1. TypeOK'
    BY <1>3 DEF ProdUnlock, MutexUnlock, Goto, IInv, TypeOK, counters
  <2> QED
    BY <1>3, <2>1, NeutralStep DEF ProdUnlock, Goto, IInv, TypeOK
<1>4. CASE ProdBroadcast(p)
  <2>1. TypeOK'
    BY <1>4 DEF ProdBroadcast, CondBroadcast, Goto, IInv, TypeOK, counters
  <2>2. Live' = Live
    BY <1>4 DEF ProdBroadcast, Live
  <2>3. UnitsConserved' /\ ExitByLast' /\ NoSleeperLeftBehind'
    BY <1>4 DEF ProdBroadcast, CondBroadcast, IInv, UnitsConserved, ExitByLast,
                NoSleeperLeftBehind, counters
  <2>4. \A q \in Producers : pc'[q] = "ended" => done'[q]
    BY <1>4 DEF ProdBroadcast, Goto, IInv, TypeOK
  <2> QED
    BY <1>4, <2>1, <2>2, <2>3, <2>4 DEF ProdBroadcast, Goto, IInv, TypeOK, counters
<1> QED
  BY <1>1, <1>2, <1>3, <1>4 DEF ProducerStep

\* Every step of consumer() keeps the invariant, spurious wakeups included.
LEMMA ConsumerIInv ==
  ASSUME IInv, NEW c \in Consumers, ConsumerStep(c) \/ Spurious(c), ~exited
  PROVE  IInv'
<1> USE UnitsAssumption, ThreadsAssumption
<1>1. CASE ConsLock(c)
  <2>1. TypeOK'
    BY <1>1 DEF ConsLock, MutexLock, Goto, IInv, TypeOK, counters
  <2> QED
    BY <1>1, <2>1, NeutralStep DEF ConsLock, Goto, IInv, TypeOK
<1>2. CASE ConsWait(c)
  <2>1. TypeOK'
    BY <1>2 DEF ConsWait, CondWait, Goto, IInv, TypeOK, counters
  <2>2. Live' = Live
    BY <1>2 DEF ConsWait, Live
  <2>3. UnitsConserved' /\ ExitByLast'
    BY <1>2 DEF ConsWait, IInv, UnitsConserved, ExitByLast, counters
  <2>4. unitsProduced < TotalUnits
    BY <1>2 DEF ConsWait, MustWait, IInv, TypeOK, UnitsConserved
  <2>5. \A p \in Producers : ~done[p] /\ pc[p] # "ended"
    BY <2>4 DEF IInv, TypeOK
  <2>6. \A p \in Producers : pc'[p] = pc[p]
    BY <1>2 DEF ConsWait, Goto, IInv, TypeOK
  <2>7. NoSleeperLeftBehind'
    BY <2>5, <2>6, ProducersAssumption DEF NoSleeperLeftBehind
  <2> QED
    BY <1>2, <2>1, <2>2, <2>3, <2>6, <2>7 DEF ConsWait, Goto, IInv, TypeOK, counters
<1>3. CASE ConsWake(c)
  <2>1. TypeOK'
    BY <1>3 DEF ConsWake, CondReturn, MutexLock, Goto, IInv, TypeOK, counters
  <2> QED
    BY <1>3, <2>1, NeutralStep DEF ConsWake, Goto, IInv, TypeOK
<1>4. CASE ConsConsume(c)
  <2>1. avail > 0
    BY <1>4 DEF ConsConsume, MustWait, IInv, TypeOK
  <2>2. TypeOK'
    BY <1>4, <2>1 DEF ConsConsume, Goto, IInv, TypeOK
  <2>3. Live' = Live
    BY <1>4 DEF ConsConsume, Live
  <2>4. UnitsConserved' /\ ExitByLast'
    BY <1>4, <2>1 DEF ConsConsume, IInv, TypeOK, UnitsConserved, ExitByLast
  <2>5. NoSleeperLeftBehind'
    BY <1>4 DEF ConsConsume, Goto, IInv, TypeOK, NoSleeperLeftBehind
  <2> QED
    BY <1>4, <2>2, <2>3, <2>4, <2>5 DEF ConsConsume, Goto, IInv, TypeOK
<1>5. CASE ConsFinish(c)
  <2>1. c \in Live
    BY <1>5 DEF ConsFinish, Live, IInv
  <2>2. Live' = Live \ {c}
    BY <1>5 DEF ConsFinish, Live, IInv, TypeOK
  <2>3. /\ Cardinality(Live) \in Nat
        /\ Cardinality(Live') \in Nat
        /\ Cardinality(Live') = Cardinality(Live) - 1
        /\ Cardinality(Live') = 0 <=> Live' = {}
    BY <2>1, <2>2, LiveFinite DEF Live
  <2>4. numLiveCons' = Cardinality(Live')
    BY <1>5, <2>3 DEF ConsFinish, IInv
  <2>5. TypeOK'
    BY <1>5, <2>3, <2>4 DEF ConsFinish, Goto, IInv, TypeOK
  <2>6. ExitByLast'
    BY <1>5, <2>3, <2>4, <2>5 DEF ConsFinish, ExitByLast, Live, TypeOK
  <2>7. UnitsConserved'
    BY <1>5 DEF ConsFinish, IInv, TypeOK, UnitsConserved
  <2>8. NoSleeperLeftBehind'
    BY <1>5 DEF ConsFinish, Goto, IInv, TypeOK, NoSleeperLeftBehind
  <2>9. \A p \in Producers : done'[p] = done[p] /\ pc'[p] = pc[p]
    BY <1>5 DEF ConsFinish, Goto, IInv, TypeOK
  <2>10. \A d \in Consumers : done'[d] => pc'[d] \in {"unlock", "ended"}
    BY <1>5 DEF ConsFinish, Goto, IInv, TypeOK
  <2> QED
    BY <1>5, <2>4, <2>5, <2>6, <2>7, <2>8, <2>9, <2>10 DEF ConsFinish, IInv
<1>6. CASE ConsUnlock(c)
  <2>1. TypeOK'
    BY <1>6 DEF ConsUnlock, MutexUnlock, Goto, IInv, TypeOK, counters
  <2> QED
    BY <1>6, <2>1, NeutralStep DEF ConsUnlock, Goto, IInv, TypeOK
<1>7. CASE Spurious(c)
  <2>1. TypeOK'
    BY <1>7 DEF Spurious, SpuriousWakeup, IInv, TypeOK, counters
  <2> QED
    BY <1>7, <2>1, NeutralStep DEF Spurious, SpuriousWakeup, IInv, TypeOK
<1> QED
  BY <1>1, <1>2, <1>3, <1>4, <1>5, <1>6, <1>7 DEF ConsumerStep

\* So does every step of the process, and none follows exit().
LEMMA StepIInv == IInv /\ [Next]_vars => IInv'
<1> SUFFICES ASSUME IInv, [Next]_vars PROVE IInv'
  OBVIOUS
<1>1. CASE UNCHANGED vars
  <2>1. TypeOK'
    BY <1>1 DEF vars, counters, IInv, TypeOK
  <2> QED
    BY <1>1, <2>1, NeutralStep DEF vars
<1>2. CASE Next
  BY <1>1, <1>2, ProducerIInv, ConsumerIInv DEF Next, Terminated
<1> QED
  BY <1>1, <1>2

\* The invariant holds throughout.
LEMMA Invariance == Spec => []IInv
<1>1. Init => IInv
  BY InitIInv
<1>2. IInv /\ [Next]_vars => IInv'
  BY StepIInv
<1> QED
  BY <1>1, <1>2, PTL DEF Spec

\* The variables of prod_cons_cv.c keep their types; in particular `avail' and
\* `numLiveCons' never become negative.
THEOREM TypeCorrect == Spec => []TypeOK
<1>1. IInv => TypeOK
  BY DEF IInv
<1> QED
  BY <1>1, Invariance, PTL

\* consumer() never sleeps for ever: whoever waits, a producer is still due to
\* broadcast.
THEOREM WakeupPending == Spec => []NoSleeperLeftBehind
<1>1. IInv => NoSleeperLeftBehind
  BY DEF IInv
<1> QED
  BY <1>1, Invariance, PTL

\* The units are conserved, and the totals printed at exit are exact.
THEOREM UnitsAreConserved == Spec => []UnitsConserved
<1>1. IInv => UnitsConserved
  BY DEF IInv
<1> QED
  BY <1>1, Invariance, PTL

\* numLiveCons counts the live consumers, so only the last one calls exit().
THEOREM ExitIsLast == Spec => []ExitByLast
<1>1. IInv => ExitByLast
  BY DEF IInv
<1> QED
  BY <1>1, Invariance, PTL
=============================================================================
