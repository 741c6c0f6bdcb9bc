----------------------------- MODULE ScmPassing -----------------------------
(***************************************************************************)
(* src/sockets/scm_rights_{send,recv}.c, scm_multi_{send,recv}.c and       *)
(* scm_cred_{send,recv}.c: file descriptors and credentials as ancillary   *)
(* data on a UNIX domain socket, stream or datagram.  Several senders and  *)
(* receivers of one pair of programs use the same well-known path.         *)
(***************************************************************************)
EXTENDS Integers, Sequences, FiniteSets

CONSTANTS Senders, Receivers,
          SenderOptions,     \* of each pair of programs: the command lines of senders
          ReceiverOptions,   \* and of receivers
          NoOne

VARIABLES prog,        \* the pair: "rights", "multi" or "cred"
          owner,       \* whose socket the path names; NoOne: it does not exist
          ropt, rpc, backlog, conn, box, got, printed, held,
          sopt, spc, link, msg
rvars == <<owner, ropt, rpc, backlog, conn, box, got, printed, held>>
svars == <<sopt, spc, link, msg>>
vars == <<prog, rvars, svars>>

None == [none |-> TRUE]
Stale == "stale"

\* A file may be left of an earlier receiver.  A receiver's options are the type of
\* its socket and the size that -n gives the control buffer (-1: none), a sender's
\* the type, real data or not, the credentials, the files; and its privilege.
Init ==
  /\ prog \in {"rights", "multi", "cred"} /\ owner \in {NoOne, Stale}
  /\ ropt \in [Receivers -> ReceiverOptions[prog]] /\ sopt \in [Senders -> SenderOptions[prog]]
  /\ rpc = [r \in Receivers |-> "start"] /\ spc = [s \in Senders |-> "start"]
  /\ backlog = [r \in Receivers |-> <<>>] /\ conn = [r \in Receivers |-> NoOne]
  /\ box = [r \in Receivers |-> <<>>] /\ got = [r \in Receivers |-> None]
  /\ printed = [r \in Receivers |-> <<>>] /\ held = [r \in Receivers |-> <<>>]
  /\ link = [s \in Senders |-> NoOne] /\ msg = [s \in Senders |-> None]

Open(r) == rpc[r] \notin {"start", "bind", "done", "failed"}
SGoto(s, to) == spc' = [spc EXCEPT ![s] = to]
RGoto(r, to) == rpc' = [rpc EXCEPT ![r] = to]

-----------------------------------------------------------------------------
(* Senders *)

\* The files are opened; any open() may fail.
OpenFiles(s) ==
  /\ spc[s] = "start"
  /\ \/ SGoto(s, "connect")
     \/ sopt[s].files # <<>> /\ SGoto(s, "failed")
  /\ UNCHANGED <<prog, rvars, sopt, link, msg>>

RightsSetup(s) == prog = "rights" /\ OpenFiles(s)
MultiSetup(s) == prog = "multi" /\ OpenFiles(s)
CredSetup(s) == prog = "cred" /\ OpenFiles(s)

Reachable(r, dgram) == r \in Receivers /\ Open(r) /\ rpc[r] # "listen" /\ ropt[r].dgram = dgram

\* unixConnect(): the socket that the path names now.
Connect(s) ==
  /\ spc[s] = "connect"
  /\ IF Reachable(owner, sopt[s].dgram)
     THEN /\ link' = [link EXCEPT ![s] = owner] /\ SGoto(s, "send")
          /\ backlog' = IF sopt[s].dgram THEN backlog ELSE [backlog EXCEPT ![owner] = Append(@, s)]
     ELSE SGoto(s, "failed") /\ UNCHANGED <<link, backlog>>
  /\ UNCHANGED <<prog, owner, ropt, rpc, conn, box, got, printed, held, sopt, msg>>

\* The kernel adds credentials for a socket with SO_PASSCRED, or not yet accepted.
PassCred(r) == prog # "rights" /\ rpc[r] # "opts"
Attached(s) ==
  CASE sopt[s].creds = "own" -> s
    [] sopt[s].creds = "other" -> "other"
    [] sopt[s].creds = "none" -> IF PassCred(link[s]) \/ (~sopt[s].dgram /\ conn[link[s]] # s) THEN s ELSE NoOne

\* sendmsg(): false credentials need privilege; SIGPIPE, or an error, if the
\* receiver is gone; without real data a stream socket transmits nothing.
SendMsg(s) ==
  /\ spc[s] = "send"
  /\ LET r == link[s] IN
     IF sopt[s].creds = "other" /\ ~sopt[s].priv THEN SGoto(s, "failed") /\ UNCHANGED <<msg, box>>
     ELSE IF ~Open(r) THEN SGoto(s, IF sopt[s].dgram THEN "failed" ELSE "killed") /\ UNCHANGED <<msg, box>>
     ELSE /\ SGoto(s, "exited")
          /\ msg' = IF sopt[s].data \/ sopt[s].dgram
                    THEN [msg EXCEPT ![s] = [files |-> sopt[s].files, creds |-> Attached(s)]] ELSE msg
          /\ box' = IF sopt[s].dgram THEN [box EXCEPT ![r] = Append(@, s)] ELSE box
  /\ UNCHANGED <<prog, owner, ropt, rpc, backlog, conn, got, printed, held, sopt, link>>

RightsSend(s) == prog = "rights" /\ SendMsg(s)
MultiSend(s) == prog = "multi" /\ SendMsg(s)
CredSend(s) == prog = "cred" /\ SendMsg(s)

Killed(s) ==
  /\ spc[s] \in {"connect", "send"} /\ SGoto(s, "killed")
  /\ UNCHANGED <<prog, rvars, sopt, link, msg>>

Sender(s) == RightsSetup(s) \/ MultiSetup(s) \/ CredSetup(s) \/ Connect(s)
             \/ RightsSend(s) \/ MultiSend(s) \/ CredSend(s)
-----------------------------------------------------------------------------
(* Receivers *)

\* remove() of the path, whoever uses it.
Remove(r) ==
  /\ rpc[r] = "start" /\ RGoto(r, "bind") /\ owner' = NoOne
  /\ UNCHANGED <<prog, ropt, backlog, conn, box, got, printed, held, svars>>

\* unixBind(): fails if another receiver has come in between.
Bind(r) ==
  /\ rpc[r] = "bind"
  /\ IF owner # NoOne THEN RGoto(r, "failed") /\ UNCHANGED owner
     ELSE /\ owner' = r
          /\ RGoto(r, IF ~ropt[r].dgram THEN "listen" ELSE IF prog = "rights" THEN "recv" ELSE "opts")
  /\ UNCHANGED <<prog, ropt, backlog, conn, box, got, printed, held, svars>>

Listen(r) ==
  /\ rpc[r] = "listen" /\ RGoto(r, "accept")
  /\ UNCHANGED <<prog, owner, ropt, backlog, conn, box, got, printed, held, svars>>

Accept(r) ==
  /\ rpc[r] = "accept" /\ backlog[r] # <<>>
  /\ conn' = [conn EXCEPT ![r] = Head(backlog[r])] /\ backlog' = [backlog EXCEPT ![r] = Tail(@)]
  /\ RGoto(r, IF prog = "rights" THEN "recv" ELSE "opts")
  /\ UNCHANGED <<prog, owner, ropt, box, got, printed, held, svars>>

\* setsockopt(SO_PASSCRED)
SetPassCred(r) ==
  /\ rpc[r] = "opts" /\ RGoto(r, "recv")
  /\ UNCHANGED <<prog, owner, ropt, backlog, conn, box, got, printed, held, svars>>

\* The sizes of headers, credentials and descriptors in ancillary data.
Align(n) == ((n + 7) \div 8) * 8
CMSG_LEN(n) == 16 + n
CMSG_SPACE(n) == Align(16 + n)
SizeofUcred == 12
SizeofInt == 4
MAX_FDS == 1024
Least(a, b) == IF a < b THEN a ELSE b

ControlMsgSize(r) ==
  CASE prog = "rights" -> CMSG_SPACE(SizeofInt)
    [] prog = "cred" -> CMSG_SPACE(SizeofUcred)
    [] prog = "multi" -> IF ropt[r].limit # -1 THEN ropt[r].limit
                         ELSE CMSG_SPACE(MAX_FDS * SizeofInt) + CMSG_SPACE(SizeofUcred)

\* What recvmsg() puts into a buffer of n bytes: the credentials, cut short if
\* need be, then as many descriptors as fit; the kernel closes the others.
CredLen(n) == IF prog = "rights" \/ n < CMSG_LEN(0) THEN 0 ELSE Least(n, CMSG_LEN(SizeofUcred))
FdMax(n) == IF n <= CMSG_LEN(0) THEN 0 ELSE (n - CMSG_LEN(0)) \div SizeofInt
Fitting(m, n) ==
  LET rest == IF CredLen(n) = 0 THEN n ELSE n - Least(n, CMSG_SPACE(SizeofUcred))
  IN  SubSeq(m.files, 1, Least(Len(m.files), FdMax(rest)))

Received(r, s) ==
  LET fds == Fitting(msg[s], ControlMsgSize(r)) IN
  /\ got' = [got EXCEPT ![r] = [from |-> s, credLen |-> CredLen(ControlMsgSize(r)), creds |-> msg[s].creds,
                                fdLen |-> IF fds = <<>> THEN 0 ELSE CMSG_LEN(Len(fds) * SizeofInt)]]
  /\ held' = [held EXCEPT ![r] = fds]

\* recvmsg(): a message, or the end of a connection whose sender sent none.  The
\* kernel may then still fill in credentials, of nobody.
Recv(r) ==
  /\ rpc[r] = "recv" /\ RGoto(r, "walk")
  /\ \/ /\ ropt[r].dgram /\ box[r] # <<>>
        /\ Received(r, Head(box[r])) /\ box' = [box EXCEPT ![r] = Tail(@)]
     \/ /\ ~ropt[r].dgram /\ msg[conn[r]] # None
        /\ Received(r, conn[r]) /\ UNCHANGED box
     \/ /\ ~ropt[r].dgram /\ msg[conn[r]] = None /\ spc[conn[r]] \in {"exited", "failed", "killed"}
        /\ \E l \in {0, CredLen(ControlMsgSize(r))} :
             got' = [got EXCEPT ![r] = [from |-> conn[r], credLen |-> l, creds |-> NoOne, fdLen |-> 0]]
        /\ UNCHANGED <<box, held>>
  /\ UNCHANGED <<prog, owner, ropt, backlog, conn, printed, svars>>

\* Contents of a received descriptor to standard output; read() may fail.
Display(r, f) == printed' = [printed EXCEPT ![r] = Append(@, f)]
Quiet(r, to) == RGoto(r, to) /\ UNCHANGED <<printed, held>>

\* scm_rights_recv: one header of the right length, or fatal().
RightsWalk(r) ==
  /\ prog = "rights" /\ rpc[r] = "walk"
  /\ \/ got[r].fdLen # CMSG_LEN(SizeofInt) /\ Quiet(r, "failed")
     \/ got[r].fdLen = CMSG_LEN(SizeofInt) /\ RGoto(r, "done") /\ Display(r, held[r][1]) /\ UNCHANGED held
     \/ got[r].fdLen = CMSG_LEN(SizeofInt) /\ Quiet(r, "failed")
  /\ UNCHANGED <<prog, owner, ropt, backlog, conn, box, got, svars>>

\* Mutant of FdCnt: the header is counted too.
FdCntHeader(len) == IF len = 0 THEN 0 ELSE len \div SizeofInt

FdCnt(len) == IF len = 0 THEN 0 ELSE (len - CMSG_LEN(0)) \div SizeofInt

\* scm_multi_recv, the loop over the headers: the length of the credentials ...
MultiWalk(r) ==
  /\ prog = "multi" /\ rpc[r] = "walk"
  /\ Quiet(r, IF got[r].credLen \in {0, CMSG_LEN(SizeofUcred)} THEN "fds" ELSE "failed")
  /\ UNCHANGED <<prog, owner, ropt, backlog, conn, box, got, svars>>

\* ... and each descriptor, which is displayed and closed.
MultiFd(r) ==
  /\ rpc[r] = "fds"
  /\ LET j == Len(printed[r]) IN
     \/ j < FdCnt(got[r].fdLen) /\ held[r] # <<>>
        /\ Display(r, Head(held[r])) /\ held' = [held EXCEPT ![r] = Tail(@)] /\ UNCHANGED rpc
     \/ j < FdCnt(got[r].fdLen) /\ Quiet(r, "failed")
     \/ j >= FdCnt(got[r].fdLen) /\ Quiet(r, "done")
  /\ UNCHANGED <<prog, owner, ropt, backlog, conn, box, got, svars>>

\* scm_cred_recv: the header, and SO_PEERCRED, which is for stream sockets.
CredWalk(r) ==
  /\ prog = "cred" /\ rpc[r] = "walk"
  /\ Quiet(r, IF got[r].credLen # CMSG_LEN(SizeofUcred) THEN "failed" ELSE "done")
  /\ UNCHANGED <<prog, owner, ropt, backlog, conn, box, got, svars>>

Receiver(r) == Remove(r) \/ Bind(r) \/ Listen(r) \/ Accept(r) \/ SetPassCred(r) \/ Recv(r)
               \/ RightsWalk(r) \/ MultiWalk(r) \/ MultiFd(r) \/ CredWalk(r)

Next == (\E s \in Senders : Sender(s) \/ Killed(s)) \/ \E r \in Receivers : Receiver(r)

Spec == Init /\ [][Next]_vars
-----------------------------------------------------------------------------
\* The values of the variables: a receiver reads as many descriptors as it got.
TypeOK ==
  /\ owner \in Receivers \cup {NoOne, Stale}
  /\ \A r \in Receivers : conn[r] \in Senders \cup {NoOne} /\ (rpc[r] = "fds" => Len(printed[r]) + Len(held[r]) = FdCnt(got[r].fdLen))
  /\ \A s \in Senders : link[s] \in Receivers \cup {NoOne}

\* What a receiver shows are the files of one sender, from the first on, and all of
\* them after success, unless -n leaves no room; no two receivers get one message.
FdsDelivered ==
  /\ \A r \in Receivers : got[r] # None =>
       LET files == sopt[got[r].from].files IN
       /\ printed[r] = SubSeq(files, 1, Len(printed[r]))
       /\ rpc[r] = "done" /\ ropt[r].limit = -1 /\ msg[got[r].from] # None => printed[r] = files
  /\ \A r, q \in Receivers : r # q /\ got[r] # None /\ got[q] # None => got[r].from # got[q].from

\* Credentials are those of the sender of the message, unless a privileged one
\* gave others; never another process's.  Those of a sender that leaves them to the
\* kernel are missing if it sent between accept() or bind() and setsockopt().
CredsTrue ==
  \A r \in Receivers : rpc[r] = "done" /\ prog # "rights" /\ msg[got[r].from] # None =>
    LET s == got[r].from IN
    CASE sopt[s].creds = "own" -> got[r].creds = s
      [] sopt[s].creds = "other" -> sopt[s].priv
      [] sopt[s].creds = "none" -> got[r].creds \in {s, NoOne}
=============================================================================
