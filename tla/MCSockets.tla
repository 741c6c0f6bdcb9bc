----------------------------- MODULE MCSockets ------------------------------
(***************************************************************************)
(* Programs that exchange data over sockets or share it, one of which      *)
(* each behaviour runs: the pairs that pass descriptors and credentials,   *)
(* the sequence-number servers, the stream servers, the datagram servers,  *)
(* the programs and functions that wait for, read and write data, and      *)
(* those that share files, queues and memory, or semaphores.               *)
(***************************************************************************)
EXTENDS Integers, Sequences, TLC

CONSTANTS c1, c2, Nobody, r1

VARIABLES program, kind, spc, rpc, printed, cfd, pending, cpc, buf,
          prog, owner, ropt, backlog, conn, box, got, held, sopt, link, msg,
          usable, bound, seqNum, line, try, arg, sent, answer,
          sigchld, reaping, kid, up, down, wpc, input, next, output,
          sbox, args, j, cbox, lost, dup,
          pc, opt, in, wr, fds, ev, cnt, at, rl, out, late,
          file, lock, told, off,
          names, made, dead, sem, otime, h, adj, ledger, seen, sized, ready, early, num, cur

Clients == {c1, c2}

\* Senders: stream and datagram; with and without data; with their own credentials,
\* with those of another process (privileged or not) and with none; 1 to 3 files.
Snd(d, dat, c, p, f) == [dgram |-> d, data |-> dat, creds |-> c, priv |-> p, files |-> f]
Rcv(d, l) == [dgram |-> d, limit |-> l]
Scm == INSTANCE ScmPassing WITH
  Senders <- Clients, Receivers <- {r1}, NoOne <- Nobody,
  SenderOptions <-
    [rights |-> {Snd(FALSE, TRUE, "none", FALSE, <<"a">>), Snd(TRUE, TRUE, "none", FALSE, <<"b">>)},
     multi |-> {Snd(FALSE, TRUE, "own", FALSE, <<"a", "b">>), Snd(FALSE, FALSE, "own", FALSE, <<"a">>),
                Snd(FALSE, TRUE, "other", TRUE, <<"b", "a", "c">>), Snd(TRUE, FALSE, "own", FALSE, <<"b", "c">>)},
     cred |-> {Snd(FALSE, TRUE, "none", FALSE, <<>>), Snd(TRUE, TRUE, "none", FALSE, <<>>),
               Snd(FALSE, TRUE, "other", FALSE, <<>>)}],
  ReceiverOptions <-
    [rights |-> {Rcv(FALSE, -1), Rcv(TRUE, -1)}, multi |-> {Rcv(TRUE, 52), Rcv(FALSE, -1), Rcv(FALSE, 27)},
     cred |-> {Rcv(FALSE, -1), Rcv(TRUE, -1)}]

\* Requests for no number, and one that is longer than the buffer.  bind() fails, or
\* succeeds for the second address only, or for both.
Seqnum == INSTANCE SeqnumServer WITH
  Requests <- {<<>>, <<3, 4, 5>>}, INT_LEN <- 3, Modulus <- 128, Addresses <- <<"v4", "v6">>,
  Usable <- {{}, {2}, {1, 2}}

\* One client whose input exceeds all the buffers together, or two short ones.
Echo == INSTANCE EchoServer WITH Loads <- {c1 :> 4 @@ c2 :> 0, c1 :> 1 @@ c2 :> 1}, Cap <- 1

\* A message that fits and one that is cut.
Dgram == INSTANCE DatagramServer WITH Args <- {<<1, 3>>}, BUF_SIZE <- 2, MaxDup <- 1

\* More bytes than one read() takes, a text longer than childMon() accepts.
Io == INSTANCE IoCalls WITH
  MaxBytes <- 2, MAX_EVENTS <- 2, MAX_BUF <- 1, RL_MAX_BUF <- 2, BUF_SIZE <- 2, FD_SETSIZE <- 3,
  PipeSize <- 3, MAX_MTEXT <- 1

\* Room for the messages of earlier runs and no more.
Shared == INSTANCE SharedFiles WITH QMax <- 2, BUF_SIZE <- 2

Sem == INSTANCE Semaphores WITH
  MaxObj <- 4, MAX_TRIES <- 2, MAX_SEMOPS <- 2, nloops <- 2, MaxSets <- 3, MaxIntr <- 1

scm == <<prog, owner, ropt, backlog, conn, box, got, held, sopt, link, msg>>
seqnum == <<usable, bound, seqNum, line, try, arg, sent, answer>>
echo == <<sigchld, reaping, kid, up, down, wpc, input, next, output>>
dgram == <<sbox, args, j, cbox, lost, dup>>
io == <<pc, opt, in, wr, fds, ev, cnt, at, rl, out, late>>
shared == <<file, lock, told, off>>
sems == <<names, made, dead, sem, otime, h, adj, ledger, seen, sized, ready, early, num, cur>>
vars == <<program, kind, spc, rpc, printed, cfd, pending, cpc, buf, scm, seqnum, echo, dgram, io, shared, sems>>

NoScm == /\ prog = 0 /\ owner = 0 /\ ropt = 0 /\ backlog = 0 /\ conn = 0 /\ box = 0
         /\ got = 0 /\ held = 0 /\ sopt = 0 /\ link = 0 /\ msg = 0
NoSeqnum == /\ usable = 0 /\ bound = 0 /\ seqNum = 0 /\ line = 0
            /\ try = 0 /\ arg = 0 /\ sent = 0 /\ answer = 0
NoEcho == /\ sigchld = 0 /\ reaping = 0 /\ kid = 0 /\ up = 0 /\ down = 0
          /\ wpc = 0 /\ input = 0 /\ next = 0 /\ output = 0
NoDgram == sbox = 0 /\ args = 0 /\ j = 0 /\ cbox = 0 /\ lost = 0 /\ dup = 0
NoIo == /\ pc = 0 /\ opt = 0 /\ in = 0 /\ wr = 0 /\ fds = 0 /\ ev = 0
        /\ cnt = 0 /\ at = 0 /\ rl = 0 /\ out = 0 /\ late = 0
NoShared == file = 0 /\ lock = 0 /\ told = 0 /\ off = 0
NoSems == /\ names = 0 /\ made = 0 /\ dead = 0 /\ sem = 0 /\ otime = 0 /\ h = 0 /\ adj = 0 /\ ledger = 0
          /\ seen = 0 /\ sized = 0 /\ ready = 0 /\ early = 0 /\ num = 0 /\ cur = 0

Init ==
  \/ /\ program = "scm" /\ Scm!Init /\ NoSeqnum /\ NoEcho /\ NoDgram /\ NoIo /\ NoShared /\ NoSems
     /\ kind = 0 /\ cfd = 0 /\ pending = 0 /\ cpc = 0 /\ buf = 0
  \/ /\ program = "seqnum" /\ Seqnum!Init /\ NoScm /\ NoEcho /\ NoDgram /\ NoIo /\ NoShared /\ NoSems
     /\ rpc = 0 /\ printed = 0 /\ buf = 0
  \/ /\ program = "echo" /\ Echo!Init /\ NoScm /\ NoSeqnum /\ NoDgram /\ NoIo /\ NoShared /\ NoSems
     /\ printed = 0 /\ cpc = 0
  \/ /\ program = "dgram" /\ Dgram!Init /\ NoScm /\ NoSeqnum /\ NoEcho /\ NoIo /\ NoShared /\ NoSems
     /\ rpc = 0 /\ cfd = 0 /\ pending = 0
  \/ /\ program = "io" /\ Io!Init /\ NoScm /\ usable = 0 /\ bound = 0 /\ seqNum = 0 /\ line = 0
     /\ try = 0 /\ arg = 0 /\ answer = 0 /\ NoEcho /\ NoDgram /\ NoShared /\ NoSems
     /\ spc = 0 /\ rpc = 0 /\ printed = 0 /\ cfd = 0 /\ pending = 0 /\ cpc = 0 /\ buf = 0
  \/ /\ program = "shared" /\ Shared!Init /\ NoScm /\ usable = 0 /\ bound = 0 /\ seqNum = 0 /\ line = 0
     /\ try = 0 /\ arg = 0 /\ answer = 0 /\ NoEcho /\ NoDgram /\ NoSems
     /\ pc = 0 /\ in = 0 /\ wr = 0 /\ fds = 0 /\ ev = 0 /\ cnt = 0 /\ rl = 0
     /\ spc = 0 /\ rpc = 0 /\ printed = 0 /\ cfd = 0 /\ pending = 0 /\ cpc = 0 /\ buf = 0
  \/ /\ program = "semaphores" /\ Sem!Init /\ owner = 0 /\ ropt = 0 /\ backlog = 0 /\ conn = 0 /\ box = 0
     /\ got = 0 /\ held = 0 /\ sopt = 0 /\ link = 0 /\ msg = 0 /\ NoSeqnum /\ NoEcho /\ NoDgram /\ NoShared
     /\ pc = 0 /\ opt = 0 /\ in = 0 /\ wr = 0 /\ fds = 0 /\ ev = 0 /\ rl = 0 /\ out = 0 /\ late = 0
     /\ spc = 0 /\ rpc = 0 /\ printed = 0 /\ cfd = 0 /\ pending = 0 /\ cpc = 0 /\ buf = 0

Runs(p, A, others) == program = p /\ A /\ UNCHANGED <<program, others>>
ScmRuns(A) == Runs("scm", A, <<seqnum, echo, dgram, io, shared, sems, kind, cfd, pending, cpc, buf>>)
SeqnumRuns(A) == Runs("seqnum", A, <<scm, echo, dgram, io, shared, sems, rpc, printed, buf>>)
EchoRuns(A) == Runs("echo", A, <<scm, seqnum, dgram, io, shared, sems, printed, cpc>>)
DgramRuns(A) == Runs("dgram", A, <<scm, seqnum, echo, io, shared, sems, rpc, cfd, pending>>)
IoRuns(A) == Runs("io", A, <<scm, usable, bound, seqNum, line, try, arg, answer, echo, dgram, shared, sems,
                             spc, rpc, printed, cfd, pending, cpc, buf>>)
SharedRuns(A) == Runs("shared", A, <<scm, usable, bound, seqNum, line, try, arg, answer, echo, dgram, sems,
                                     pc, in, wr, fds, ev, cnt, rl, spc, rpc, printed, cfd, pending, cpc, buf>>)
SemRuns(A) == Runs("semaphores", A, <<owner, ropt, backlog, conn, box, got, held, sopt, link, msg, seqnum, echo, dgram,
                                      shared, pc, opt, in, wr, fds, ev, rl, out, late,
                                      spc, rpc, printed, cfd, pending, cpc, buf>>)

Next == ScmRuns(Scm!Next) \/ SeqnumRuns(Seqnum!Next) \/ EchoRuns(Echo!Next) \/ DgramRuns(Dgram!Next)
        \/ IoRuns(Io!Next) \/ SharedRuns(Shared!Next) \/ SemRuns(Sem!Next)

Server == \/ ScmRuns(Scm!Receiver(r1)) \/ SeqnumRuns(Seqnum!Server) \/ EchoRuns(Echo!Server)
          \/ DgramRuns(Dgram!Server) \/ IoRuns(Io!Main) \/ SharedRuns(Shared!Proc(3)) \/ SemRuns(Sem!Proc(3))
Number(c) == IF c = c1 THEN 1 ELSE 2
Client(c) == \/ ScmRuns(Scm!Sender(c)) \/ SeqnumRuns(Seqnum!Client(c)) \/ EchoRuns(Echo!HandleRequest(c))
             \/ DgramRuns(Dgram!Client(c)) \/ IoRuns(Io!Child(Number(c)))
             \/ SharedRuns(Shared!Proc(Number(c))) \/ SemRuns(Sem!Proc(Number(c)))

\* Every process that runs goes on, and SIGCHLD is delivered.  Clients need not be
\* started, and nobody need fail or be killed, nor a semaphore be removed.  One program runs in a behaviour, so
\* that fairness of the disjunction is fairness of each program's process.
Fairness ==
  /\ WF_vars(Server) /\ \A c \in Clients : WF_vars(Client(c))
  /\ WF_vars(EchoRuns(Echo!Deliver))
  /\ \A c \in Clients : WF_vars(EchoRuns(Echo!Writer(c))) /\ WF_vars(EchoRuns(Echo!ReadSocket(c)))

FairSpec == Init /\ [][Next]_vars /\ Fairness
-----------------------------------------------------------------------------
IsScm == program = "scm"
IsSeqnum == program = "seqnum"
IsEcho == program = "echo"
IsDgram == program = "dgram"

\* The values of the variables of the program that runs.
TypeOK ==
  CASE IsScm -> Scm!TypeOK [] IsSeqnum -> Seqnum!TypeOK [] IsEcho -> Echo!TypeOK
    [] IsDgram -> Dgram!TypeOK [] program = "io" -> Io!TypeOK [] program = "shared" -> Shared!TypeOK
    [] OTHER -> Sem!TypeOK

\* What arrives is what was sent.  scm_*: the descriptors and credentials displayed
\* are those of the sender, as many as fit in the buffer.
\* Sequence-number servers: no number is displayed twice.  Stream servers: the data
\* of each client, complete and in order.  Datagram servers: response k answers
\* argument k.
Exchanged ==
  /\ IsScm => Scm!FdsDelivered /\ Scm!CredsTrue
  /\ IsSeqnum => Seqnum!NumbersUnique
  /\ IsEcho => Echo!DataInOrder
  /\ IsDgram => Dgram!ResponsesMatch

\* The programs that wait for input on several files report all of it, from the file it
\* came from and in order, whatever order the events come in; and the functions that
\* transfer data lose, repeat and misplace nothing however the calls divide it.
InputHandled ==
  program = "io" => Io!InputConsumed /\ Io!Relayed /\ Io!WokenRight /\ Io!ReadyReported /\ Io!Transferred

\* What processes share keeps what each of them was told about it: locks exclude each
\* other, appended bytes and queued messages are not lost, and what is read (from a file, a shared
\* memory object or the environment) is what was last written, but for the races
\* and the failures that the programs have.  Processes that share semaphores lose no
\* operation to the initialization (svsem_good_init.c) or to each other (svsem_op.c),
\* take turns in the order they are meant to (psem_tty_lockstep_*.c), pass a flag only if
\* it was set (event_flags.c), and reserve different sequence numbers (pshm_seqnum_get.c).
SharedKept ==
  /\ program = "shared" =>
       /\ Shared!LocksHeld /\ Shared!NothingOverwritten /\ Shared!MessagesKept
       /\ Shared!StringWhole /\ Shared!ObjectsKept /\ Shared!ContentRight
  /\ program = "semaphores" => Sem!OperationsKept /\ Sem!InTurn /\ Sem!NumbersDistinct

\* Nobody waits for ever.  A receiver of descriptors ends after the sender that is
\* connected to it; a client of a sequence-number server gets its answer or an end of
\* file; the writer and the reader of is_echo_cl never block each other through the
\* server, whatever the buffers hold; children are reaped; a datagram client waits
\* only if the network has lost a datagram or the server is gone; readers of several
\* files come to all the input there is; a lock that is waited for is released;
\* processes in lockstep both end, and who waits for a flag that stays set is woken.
Served ==
  \A c \in Clients :
    ( \/ IsScm /\ link[c] = r1 /\ spc[c] = "exited"
      \/ IsSeqnum /\ cpc[c] = "connect"
      \/ IsEcho /\ (wpc[c] = "write" \/ kid[c] = "zombie")
      \/ IsDgram /\ cpc[c] = "recv"
      \/ program = "io" /\ Io!Due
      \/ program = "shared" /\ Shared!Due
      \/ program = "semaphores" /\ Sem!Due )
    ~> ( \/ IsScm /\ rpc[r1] \in {"done", "failed"}
         \/ IsSeqnum /\ cpc[c] \in Seqnum!Ended
         \/ IsEcho /\ Echo!ClientGone(c) /\ (kid[c] # "zombie" \/ spc = "gone")
         \/ IsDgram /\ (cpc[c] \in Dgram!Over \/ c \in lost \/ spc = "gone")
         \/ program = "io" /\ Io!DueDone(Number(c))
         \/ program = "shared" /\ Shared!DueDone
         \/ program = "semaphores" /\ Sem!DueDone )
=============================================================================
