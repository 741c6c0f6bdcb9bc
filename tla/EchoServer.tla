----------------------------- MODULE EchoServer -----------------------------
(***************************************************************************)
(* src/sockets: is_echo_sv.c and is_echo_v2_sv.c, the concurrent TCP echo  *)
(* servers (a child for each connection), and their client is_echo_cl.c,   *)
(* a writer and a reader; us_xfr_{sv,cl}.c and us_xfr_v2_*.c, an iterative *)
(* server that copies its clients' data to standard output.  Socket        *)
(* buffers hold Cap units of data.                                         *)
(***************************************************************************)
EXTENDS Naturals, Sequences, FiniteSets

CONSTANTS Clients,
          Loads,       \* how much each client reads from its standard input
          Cap, Nobody

VARIABLES kind,                              \* "echo" or "xfr"
          spc, cfd, pending, sigchld, reaping,
          kid, buf,                          \* the children of the echo server
          up, down,                          \* a connection: to the server, and back
          wpc, rpc, input, next, output      \* clients: writer and reader

server == <<spc, cfd, pending, sigchld, reaping>>
kids == <<kid, buf>>
client == <<wpc, rpc, input, next>>
vars == <<kind, server, kids, up, down, client, output>>

Init ==
  /\ kind \in {"echo", "xfr"} /\ input \in Loads
  /\ spc = "accept" /\ cfd = Nobody /\ pending = <<>> /\ sigchld = FALSE /\ reaping = FALSE
  /\ kid = [c \in Clients |-> "none"] /\ buf = [c \in Clients |-> <<>>]
  /\ up = [c \in Clients |-> <<>>] /\ down = [c \in Clients |-> <<>>]
  /\ wpc = [c \in Clients |-> "start"] /\ rpc = [c \in Clients |-> "none"]
  /\ next = [c \in Clients |-> 1] /\ output = [c \in Clients |-> <<>>]

Over == {"done", "failed", "killed"}
\* No process of the client can send any more; none is left at all.
NoMoreInput(c) == wpc[c] \in Over \cup {"exit"}
ClientGone(c) == wpc[c] \in Over /\ rpc[c] \in Over \cup {"none"}
\* The server's end of a connection.
Served(c) == \/ spc # "gone" /\ (cfd = c \/ \E i \in 1..Len(pending) : pending[i] = c)
             \/ kid[c] \in {"read", "write"}
-----------------------------------------------------------------------------
(* The servers *)

Accept ==
  /\ spc = "accept" /\ pending # <<>>
  /\ cfd' = Head(pending) /\ pending' = Tail(pending)
  /\ spc' = IF kind = "echo" THEN "fork" ELSE "read"
  /\ UNCHANGED <<kind, sigchld, reaping, kids, up, down, client, output>>

AcceptFails ==
  /\ spc = "accept" /\ spc' = "gone"
  /\ UNCHANGED <<kind, cfd, pending, sigchld, reaping, kids, up, down, client, output>>

\* fork(), or give up on this client; the parent closes the connected socket.
Fork ==
  /\ spc = "fork"
  /\ kid' \in {kid, [kid EXCEPT ![cfd] = "read"]}
  /\ cfd' = Nobody /\ spc' = "accept"
  /\ UNCHANGED <<kind, pending, sigchld, reaping, buf, up, down, client, output>>

\* handleRequest(), in the child: read() until end of file, write() back.
KidEnds(c) == kid' = [kid EXCEPT ![c] = "zombie"] /\ sigchld' = TRUE
HandleRequest(c) ==
  /\ \/ /\ kid[c] = "read" /\ up[c] # <<>>
        /\ buf' = [buf EXCEPT ![c] = <<Head(up[c])>>] /\ up' = [up EXCEPT ![c] = Tail(@)]
        /\ kid' = [kid EXCEPT ![c] = "write"] /\ UNCHANGED <<down, sigchld>>
     \/ /\ kid[c] = "read" /\ (up[c] = <<>> \/ ClientGone(c)) /\ NoMoreInput(c)
        /\ KidEnds(c) /\ UNCHANGED <<buf, up, down>>
     \/ /\ kid[c] = "write" /\ ~ClientGone(c) /\ Len(down[c]) < Cap
        /\ down' = [down EXCEPT ![c] = @ \o buf[c]] /\ buf' = [buf EXCEPT ![c] = <<>>]
        /\ kid' = [kid EXCEPT ![c] = "read"] /\ UNCHANGED <<up, sigchld>>
     \/ kid[c] = "write" /\ ClientGone(c) /\ KidEnds(c) /\ UNCHANGED <<buf, up, down>>
  /\ UNCHANGED <<kind, spc, cfd, pending, reaping, client, output>>

\* SIGCHLD: grimReaper() calls waitpid() as long as there is a zombie.
Deliver ==
  /\ sigchld /\ ~reaping /\ spc # "gone" /\ sigchld' = FALSE /\ reaping' = TRUE
  /\ UNCHANGED <<kind, spc, cfd, pending, kids, up, down, client, output>>

\* Mutant of GrimReaper: one waitpid() for each signal.
GrimReaperOnce ==
  /\ reaping /\ reaping' = FALSE
  /\ \E c \in Clients : kid[c] = "zombie" /\ kid' = [kid EXCEPT ![c] = "reaped"]
  /\ UNCHANGED <<kind, spc, cfd, pending, sigchld, buf, up, down, client, output>>

GrimReaper ==
  /\ reaping
  /\ \/ \E c \in Clients : kid[c] = "zombie" /\ kid' = [kid EXCEPT ![c] = "reaped"] /\ UNCHANGED reaping
     \/ (\A c \in Clients : kid[c] # "zombie") /\ reaping' = FALSE /\ UNCHANGED kid
  /\ UNCHANGED <<kind, spc, cfd, pending, sigchld, buf, up, down, client, output>>

\* us_xfr_sv: one read() and write() to standard output, or end of file and close().
Transfer ==
  /\ spc = "read"
  /\ \/ /\ up[cfd] # <<>>
        /\ output' = [output EXCEPT ![cfd] = Append(@, Head(up[cfd]))] /\ up' = [up EXCEPT ![cfd] = Tail(@)]
        /\ UNCHANGED <<spc, cfd>>
     \/ up[cfd] = <<>> /\ NoMoreInput(cfd) /\ spc' = "accept" /\ cfd' = Nobody /\ UNCHANGED <<output, up>>
  /\ UNCHANGED <<kind, pending, sigchld, reaping, kids, down, client>>

\* The loops in the main() of is_echo_v2_sv and of us_xfr_v2_sv.
EchoMain == kind = "echo" /\ (Accept \/ Fork)
XfrMain == kind = "xfr" /\ (Accept \/ Transfer)

Server == IF reaping THEN GrimReaper ELSE EchoMain \/ XfrMain
-----------------------------------------------------------------------------
(* The clients *)

\* inetConnect() or connect(); is_echo_cl then creates its reader, if fork() can.
Connect(c) ==
  /\ wpc[c] = "start"
  /\ pending' = IF spc = "gone" THEN pending ELSE Append(pending, c)
  /\ \/ spc # "gone" /\ wpc' = [wpc EXCEPT ![c] = "write"]
        /\ rpc' = [rpc EXCEPT ![c] = IF kind = "echo" THEN "read" ELSE @]
     \/ (spc = "gone" \/ kind = "echo") /\ wpc' = [wpc EXCEPT ![c] = "failed"] /\ UNCHANGED rpc
  /\ UNCHANGED <<kind, spc, cfd, sigchld, reaping, kids, up, down, input, next, output>>

\* The copy loop: a unit of standard input, SIGPIPE if nobody can read it, or the end.
WriteSocket(c) ==
  /\ wpc[c] = "write"
  /\ \/ /\ next[c] <= input[c] /\ Served(c) /\ Len(up[c]) < Cap
        /\ up' = [up EXCEPT ![c] = Append(@, next[c])] /\ next' = [next EXCEPT ![c] = @ + 1]
        /\ UNCHANGED wpc
     \/ next[c] <= input[c] /\ ~Served(c) /\ wpc' = [wpc EXCEPT ![c] = "killed"] /\ UNCHANGED <<up, next>>
     \/ next[c] > input[c] /\ wpc' = [wpc EXCEPT ![c] = "exit"] /\ UNCHANGED <<up, next>>
  /\ UNCHANGED <<kind, server, kids, down, rpc, input, output>>

\* After shutdown(SHUT_WR), and for us_xfr_cl the close on exit.
Exit(c) ==
  /\ wpc[c] = "exit" /\ wpc' = [wpc EXCEPT ![c] = "done"]
  /\ UNCHANGED <<kind, server, kids, up, down, rpc, input, next, output>>

\* The reader of is_echo_cl: until end of file.
ReadSocket(c) ==
  /\ rpc[c] = "read"
  /\ \/ /\ down[c] # <<>>
        /\ output' = [output EXCEPT ![c] = Append(@, Head(down[c]))] /\ down' = [down EXCEPT ![c] = Tail(@)]
        /\ UNCHANGED rpc
     \/ down[c] = <<>> /\ ~Served(c) /\ rpc' = [rpc EXCEPT ![c] = "done"] /\ UNCHANGED <<output, down>>
  /\ UNCHANGED <<kind, server, kids, up, wpc, input, next>>

\* The terminal's interrupt key: writer and reader die.
Killed(c) ==
  /\ wpc[c] # "start" /\ ~ClientGone(c)
  /\ wpc' = [wpc EXCEPT ![c] = IF @ \in Over THEN @ ELSE "killed"]
  /\ rpc' = [rpc EXCEPT ![c] = IF @ = "read" THEN "killed" ELSE @]
  /\ UNCHANGED <<kind, server, kids, up, down, input, next, output>>

Writer(c) == WriteSocket(c) \/ Exit(c)

\* The main() of is_echo_cl, and of us_xfr_v2_cl.
EchoClient(c) == kind = "echo" /\ (Connect(c) \/ Writer(c) \/ ReadSocket(c))
XfrClient(c) == kind = "xfr" /\ (Connect(c) \/ Writer(c))

Next == Server \/ AcceptFails \/ Deliver
        \/ \E c \in Clients : HandleRequest(c) \/ EchoClient(c) \/ XfrClient(c) \/ Killed(c)

Spec == Init /\ [][Next]_vars
-----------------------------------------------------------------------------
\* The values of the variables: no more data on the way than the buffers hold.
TypeOK ==
  /\ \A c \in Clients : Len(up[c]) <= Cap /\ Len(down[c]) <= Cap /\ next[c] <= input[c] + 1
  /\ spc \in {"fork", "read"} <=> spc # "gone" /\ cfd \in Clients

\* "copy socket input back to socket": what a client of the echo server displays is
\* what it read, from the beginning and in order, and all of it when both of its
\* processes ended by themselves and a server process served it to the end.  "copies
\* data sent from clients to stdout": the data of a client of us_xfr_sv that exits is
\* complete, nothing is left in the socket, before the server turns to another.
DataInOrder ==
  \A c \in Clients :
    /\ \A i \in 1..Len(output[c]) : output[c][i] = i
    /\ wpc[c] = "done" /\ ~Served(c) /\
         (IF kind = "echo" THEN rpc[c] = "done" /\ kid[c] # "none" ELSE spc # "gone") => Len(output[c]) = input[c]
=============================================================================
