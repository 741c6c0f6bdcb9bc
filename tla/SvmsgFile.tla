----------------------------- MODULE SvmsgFile ------------------------------
(***************************************************************************)
(* src/svmsg/svmsg_file_server.c and svmsg_file_client.c: a concurrent     *)
(* file server on System V message queues.  Every client has a private     *)
(* queue; the server forks a child per request and reaps the children in   *)
(* its SIGCHLD handler.                                                    *)
(***************************************************************************)
EXTENDS Naturals, Sequences, TLAPS

CONSTANTS Clients,
          Files,       \* pathname -> the blocks of the file, or NoFile
          NoFile,
          QMax,        \* data messages, or requests, that fit a queue
          NoQueue,     \* a queue that does not exist
          Nobody       \* no request is being handled

VARIABLES pathname,    \* the argument of each client
          cpc,         \* where each client is
          queue,       \* client -> its message queue, or NoQueue
          got,         \* client -> data blocks received
          serverQueue, \* requests (their clientId), or NoQueue
          spc,         \* where the server is
          req,         \* the request it has read
          inHandler,   \* grimReaper() is running
          sigchld,     \* SIGCHLD is pending
          child,       \* client -> where the child that serves it is
          pos,         \* client -> blocks its child has read
          readError    \* clients whose child got an error from read()

clientVars == <<pathname, cpc, got>>
serverVars == <<spc, req, inHandler>>
childVars == <<child, pos, readError>>
vars == <<clientVars, queue, serverQueue, serverVars, sigchld, childVars>>

FAILURE == <<"FAILURE", 0>>
END == <<"END", 0>>
DATA(b) == <<"DATA", b>>

Content(c) == Files[pathname[c]]

Init ==
  /\ pathname \in [Clients -> DOMAIN Files]
  /\ cpc = [c \in Clients |-> "start"] /\ got = [c \in Clients |-> <<>>]
  /\ queue = [c \in Clients |-> NoQueue]
  /\ serverQueue = NoQueue /\ spc = "msgget" /\ req = Nobody
  /\ inHandler = FALSE /\ sigchld = FALSE
  /\ child = [c \in Clients |-> "none"] /\ pos = [c \in Clients |-> 0] /\ readError = {}

-----------------------------------------------------------------------------
(* The client *)

\* exit() runs removeQueue().
CExit(c, how) ==
  /\ cpc' = [cpc EXCEPT ![c] = how]
  /\ queue' = [queue EXCEPT ![c] = NoQueue]

CMsgget(c) ==
  /\ cpc[c] = "start"
  /\ IF serverQueue = NoQueue
     THEN CExit(c, "failed")
     ELSE /\ queue' = [queue EXCEPT ![c] = <<>>]
          /\ cpc' = [cpc EXCEPT ![c] = "send"]
  /\ UNCHANGED <<pathname, got, serverQueue, serverVars, sigchld, childVars>>

\* msgsnd() blocks while the queue is full and fails once it is removed.
CSend(c) ==
  /\ cpc[c] = "send"
  /\ IF serverQueue = NoQueue
     THEN CExit(c, "failed") /\ UNCHANGED serverQueue
     ELSE /\ Len(serverQueue) < QMax
          /\ serverQueue' = Append(serverQueue, c)
          /\ cpc' = [cpc EXCEPT ![c] = "receive"]
          /\ UNCHANGED queue
  /\ UNCHANGED <<pathname, got, serverVars, sigchld, childVars>>

CReceive(c) ==
  /\ cpc[c] = "receive" /\ queue[c] # <<>>
  /\ LET m == Head(queue[c]) IN
     CASE m = FAILURE -> CExit(c, "failed") /\ UNCHANGED got
       [] m = END -> CExit(c, "done") /\ UNCHANGED got
       [] OTHER -> /\ got' = [got EXCEPT ![c] = Append(@, m[2])]
                   /\ queue' = [queue EXCEPT ![c] = Tail(@)]
                   /\ UNCHANGED cpc
  /\ UNCHANGED <<pathname, serverQueue, serverVars, sigchld, childVars>>

\* msgrcv() fails; errExit() calls exit().
CReceiveFails(c) ==
  /\ cpc[c] = "receive"
  /\ CExit(c, "failed")
  /\ UNCHANGED <<pathname, got, serverQueue, serverVars, sigchld, childVars>>

\* A killed client leaves its queue behind.
CKilled(c) ==
  /\ cpc[c] \in {"send", "receive"}
  /\ cpc' = [cpc EXCEPT ![c] = "killed"]
  /\ UNCHANGED <<pathname, queue, got, serverQueue, serverVars, sigchld, childVars>>

-----------------------------------------------------------------------------
(* The server *)

SMsgget ==
  /\ spc = "msgget"
  /\ serverQueue' = <<>> /\ spc' = "msgrcv"
  /\ UNCHANGED <<clientVars, queue, req, inHandler, sigchld, childVars>>

SMsgrcv ==
  /\ spc = "msgrcv" /\ ~inHandler /\ serverQueue # <<>>
  /\ req' = Head(serverQueue) /\ serverQueue' = Tail(serverQueue)
  /\ spc' = "fork"
  /\ UNCHANGED <<clientVars, queue, inHandler, sigchld, childVars>>

SFork ==
  /\ spc = "fork" /\ ~inHandler
  /\ child' = [child EXCEPT ![req] = "open"]
  /\ spc' = "msgrcv" /\ req' = Nobody
  /\ UNCHANGED <<clientVars, queue, serverQueue, inHandler, sigchld, pos, readError>>

\* fork() fails: the server removes its queue and exits.
SForkFails ==
  /\ spc = "fork" /\ ~inHandler
  /\ spc' = "gone" /\ serverQueue' = NoQueue
  /\ UNCHANGED <<clientVars, queue, req, inHandler, sigchld, childVars>>

\* SIGCHLD is delivered; it stays blocked while grimReaper() runs.
SHandler ==
  /\ sigchld /\ ~inHandler /\ spc # "gone"
  /\ inHandler' = TRUE /\ sigchld' = FALSE
  /\ UNCHANGED <<clientVars, queue, serverQueue, spc, req, childVars>>

Zombies == {c \in Clients : child[c] = "zombie"}

\* One waitpid() of the loop in grimReaper(), the last of which finds nothing.
GrimReaper ==
  /\ inHandler
  /\ \/ \E c \in Zombies : child' = [child EXCEPT ![c] = "reaped"] /\ UNCHANGED inHandler
     \/ Zombies = {} /\ inHandler' = FALSE /\ UNCHANGED child
  /\ UNCHANGED <<clientVars, queue, serverQueue, spc, req, sigchld, pos, readError>>

Server == SMsgget \/ SMsgrcv \/ SFork \/ SForkFails \/ SHandler \/ GrimReaper

-----------------------------------------------------------------------------
(* serveRequest(), in the child for client c *)

ChGoto(c, to) == child' = [child EXCEPT ![c] = to]
ChExit(c) == ChGoto(c, "zombie") /\ sigchld' = TRUE
\* A child that sends data has sent nothing else: a failure and the end come last.
Room(c) == Len(queue[c]) < QMax
Sent(c, m) == queue' = [queue EXCEPT ![c] = Append(@, m)]

ChOpen(c) ==
  /\ child[c] = "open"
  /\ ChGoto(c, IF Content(c) = NoFile THEN "fail" ELSE "read")
  /\ UNCHANGED <<clientVars, queue, serverQueue, serverVars, sigchld, pos, readError>>

\* The failure message, the only one this client gets.
ChFail(c) ==
  /\ child[c] = "fail"
  /\ IF queue[c] = NoQueue THEN UNCHANGED queue ELSE Sent(c, FAILURE)
  /\ ChExit(c)
  /\ UNCHANGED <<clientVars, serverQueue, serverVars, pos, readError>>

\* Mutant of ChRead: one block too many.
ChReadPast(c) ==
  /\ child[c] = "read"
  /\ IF pos[c] <= Len(Content(c))
     THEN pos' = [pos EXCEPT ![c] = @ + 1] /\ ChGoto(c, "send")
     ELSE ChGoto(c, "end") /\ UNCHANGED pos
  /\ UNCHANGED <<clientVars, queue, serverQueue, serverVars, sigchld, readError>>

\* read() delivers a block, or end of file, or an error that is not diagnosed.
ChRead(c) ==
  /\ child[c] = "read"
  /\ \/ /\ pos[c] < Len(Content(c))
        /\ pos' = [pos EXCEPT ![c] = @ + 1]
        /\ ChGoto(c, "send") /\ UNCHANGED readError
     \/ pos[c] = Len(Content(c)) /\ ChGoto(c, "end") /\ UNCHANGED <<pos, readError>>
     \/ readError' = readError \cup {c} /\ ChGoto(c, "end") /\ UNCHANGED pos
  /\ UNCHANGED <<clientVars, queue, serverQueue, serverVars, sigchld>>

\* Mutant of ChSend: IPC_NOWAIT, with the error ignored.
ChSendNowait(c) ==
  /\ child[c] = "send"
  /\ IF queue[c] # NoQueue /\ Room(c) THEN Sent(c, DATA(Content(c)[pos[c]])) ELSE UNCHANGED queue
  /\ ChGoto(c, "read")
  /\ UNCHANGED <<clientVars, serverQueue, serverVars, sigchld, pos, readError>>

ChSend(c) ==
  /\ child[c] = "send"
  /\ IF queue[c] = NoQueue
     THEN ChGoto(c, "end") /\ UNCHANGED queue
     ELSE Room(c) /\ Sent(c, DATA(Content(c)[pos[c]])) /\ ChGoto(c, "read")
  /\ UNCHANGED <<clientVars, serverQueue, serverVars, sigchld, pos, readError>>

\* The END message has no text, and so fits a queue full of data.
ChEnd(c) ==
  /\ child[c] = "end"
  /\ IF queue[c] = NoQueue THEN UNCHANGED queue ELSE Sent(c, END)
  /\ ChExit(c)
  /\ UNCHANGED <<clientVars, serverQueue, serverVars, pos, readError>>

Child(c) == ChOpen(c) \/ ChFail(c) \/ ChRead(c) \/ ChSend(c) \/ ChEnd(c)

-----------------------------------------------------------------------------
Client(c) == CMsgget(c) \/ CSend(c) \/ CReceive(c)

Next ==
  \/ Server
  \/ \E c \in Clients : Client(c) \/ CReceiveFails(c) \/ CKilled(c) \/ Child(c)

-----------------------------------------------------------------------------
Ended == {"failed", "done", "killed"}

TypeOK ==
  /\ \A c \in Clients :
       /\ cpc[c] \in {"start", "send", "receive"} \cup Ended
       /\ child[c] \in {"none", "open", "fail", "read", "send", "end", "zombie", "reaped"}
       /\ queue[c] # NoQueue => Len(queue[c]) <= QMax + 1
       /\ pos[c] > 0 => pos[c] <= Len(Content(c))
  /\ serverQueue = NoQueue \/ serverQueue \in Seq(Clients)
  /\ spc \in {"msgget", "msgrcv", "fork", "gone"} /\ (spc = "fork" <=> req # Nobody /\ spc # "gone")

\* A client that reports success has the whole file, in order, and nothing of
\* another client's file, except that an error of read() in the child shows as
\* an early end (the comment in serveRequest() says why it is not reported).
Delivered ==
  \A c \in Clients :
    /\ got[c] # <<>> => Len(got[c]) <= Len(Content(c)) /\ got[c] = SubSeq(Content(c), 1, Len(got[c]))
    /\ cpc[c] = "done" /\ c \notin readError => got[c] = Content(c)

\* A client that exits removes its queue, and no child keeps it from doing so
\* or writes to it afterwards.
NoQueueLeft == \A c \in Clients : cpc[c] \in {"failed", "done"} => queue[c] = NoQueue
-----------------------------------------------------------------------------
Messages == {"DATA", "END", "FAILURE"} \X Nat

Assumption ==
  /\ \A f \in DOMAIN Files : Files[f] = NoFile \/ Files[f] \in Seq(Nat)
  /\ QMax \in Nat \ {0} /\ Nobody \notin Clients
  /\ NoQueue \notin Seq(Messages) /\ NoQueue \notin Seq(Clients)

Values ==
  /\ pathname \in [Clients -> DOMAIN Files] /\ readError \in SUBSET Clients
  /\ cpc \in [Clients -> {"start", "send", "receive"} \cup Ended]
  /\ child \in [Clients -> {"none", "open", "fail", "read", "send", "end", "zombie", "reaped"}]
  /\ queue \in [Clients -> Seq(Messages) \cup {NoQueue}] /\ got \in [Clients -> Seq(Nat)]
  /\ serverQueue \in Seq(Clients) \cup {NoQueue} /\ spc \in {"msgget", "msgrcv", "fork", "gone"}
  /\ req \in Clients \cup {Nobody} /\ pos \in [Clients -> Nat]

\* A client has a queue from msgget() until it exits.
Queues ==
  \A c \in Clients : /\ cpc[c] \in {"start", "failed", "done"} => queue[c] = NoQueue
                     /\ cpc[c] \in {"send", "receive", "killed"} => queue[c] # NoQueue

\* A request is sent once and served once.
Asked(c) == cpc[c] \in {"receive"} \cup Ended /\ child[c] = "none"
Requested ==
  /\ spc \in {"msgget", "gone"} <=> serverQueue = NoQueue
  /\ spc \in {"msgget", "msgrcv"} => req = Nobody
  /\ spc = "fork" => /\ req \in Clients /\ Asked(req)
                    /\ \A i \in 1..Len(serverQueue) : serverQueue[i] # req
  /\ serverQueue # NoQueue =>
       /\ \A i \in 1..Len(serverQueue) : Asked(serverQueue[i])
       /\ \A i, j \in 1..Len(serverQueue) : serverQueue[i] = serverQueue[j] => i = j
  /\ \A c \in Clients : cpc[c] \in {"start", "send"} => child[c] = "none"

\* What is in the queue continues what the client has got.
DataFrom(c, len) == \A i \in 1..len : queue[c][i] = DATA(Content(c)[Len(got[c]) + i])
Nothing(c) == pos[c] = 0 /\ got[c] = <<>> /\ c \notin readError
AllRead(c) == pos[c] = Len(Content(c)) \/ c \in readError
Stream(c) ==
  /\ child[c] \in {"none", "open", "fail"} => Nothing(c) /\ (queue[c] # NoQueue => queue[c] = <<>>)
  /\ child[c] \in {"read", "send", "end"} => Content(c) \in Seq(Nat)
  /\ child[c] = "send" => pos[c] > 0
  /\ queue[c] # NoQueue /\ child[c] \in {"read", "send", "end"} =>
       /\ Len(queue[c]) <= QMax /\ DataFrom(c, Len(queue[c]))
       /\ child[c] = "send" => Len(got[c]) + Len(queue[c]) + 1 = pos[c]
       /\ child[c] # "send" => Len(got[c]) + Len(queue[c]) = pos[c]
       /\ child[c] = "end" => AllRead(c)
  /\ queue[c] # NoQueue /\ child[c] \in {"zombie", "reaped"} =>
       \/ Nothing(c) /\ queue[c] = <<FAILURE>>
       \/ /\ Content(c) \in Seq(Nat) /\ Len(queue[c]) \in 1..(QMax + 1)
          /\ queue[c][Len(queue[c])] = END /\ DataFrom(c, Len(queue[c]) - 1)
          /\ Len(got[c]) + Len(queue[c]) - 1 = pos[c] /\ AllRead(c)

\* What the client has got is the beginning of its file, or all of it.
Received(c) ==
  /\ pos[c] > 0 => Content(c) \in Seq(Nat) /\ pos[c] <= Len(Content(c))
  /\ Len(got[c]) <= pos[c] /\ \A i \in 1..Len(got[c]) : got[c][i] = Content(c)[i]
  /\ cpc[c] = "done" => /\ child[c] \in {"zombie", "reaped"}
                        /\ c \notin readError => Content(c) \in Seq(Nat) /\ Len(got[c]) = Len(Content(c))

IInv == Values /\ Queues /\ Requested /\ \A c \in Clients : Stream(c) /\ Received(c)
-----------------------------------------------------------------------------
(* Proof of the inductive invariant *)

\* What is assumed of the constants.
LEMMA ConstantFacts ==
  ASSUME Assumption
  PROVE  /\ \A f \in DOMAIN Files : Files[f] = NoFile \/ Files[f] \in Seq(Nat)
         /\ QMax \in Nat \ {0} /\ Nobody \notin Clients
         /\ NoQueue \notin Seq(Messages) /\ NoQueue \notin Seq(Clients)
BY DEF Assumption

\* The messages of the protocol are told apart.
LEMMA MessagesDiffer ==
  /\ FAILURE \in Messages /\ END \in Messages /\ FAILURE # END
  /\ \A b \in Nat : /\ DATA(b) \in Messages /\ DATA(b)[2] = b
                    /\ DATA(b) # FAILURE /\ DATA(b) # END
BY DEF FAILURE, END, DATA, Messages

\* msgrcv() in the client, by the type of the message.
LEMMA Receives ==
  ASSUME NEW c \in Clients, CReceive(c)
  PROVE  /\ cpc[c] = "receive" /\ queue[c] # <<>> /\ UNCHANGED <<pathname, serverQueue, spc, req, child, pos, readError>>
         /\ \/ Head(queue[c]) = FAILURE /\ CExit(c, "failed") /\ got' = got
            \/ Head(queue[c]) = END /\ CExit(c, "done") /\ got' = got
            \/ /\ Head(queue[c]) # FAILURE /\ Head(queue[c]) # END /\ cpc' = cpc
               /\ got' = [got EXCEPT ![c] = Append(@, Head(queue[c])[2])]
               /\ queue' = [queue EXCEPT ![c] = Tail(@)]
BY MessagesDiffer DEF CReceive, serverVars, childVars

\* msgget() and msgsnd() in the client: either the server's queue is not there or they succeed.
LEMMA Asks ==
  ASSUME NEW c \in Clients
  PROVE  /\ CMsgget(c) =>
              /\ cpc[c] = "start" /\ UNCHANGED <<pathname, got, serverQueue, spc, req, child, pos, readError>>
              /\ \/ CExit(c, "failed")
                 \/ queue' = [queue EXCEPT ![c] = <<>>] /\ cpc' = [cpc EXCEPT ![c] = "send"]
         /\ CSend(c) =>
              /\ cpc[c] = "send" /\ UNCHANGED <<pathname, got, spc, req, child, pos, readError>>
              /\ \/ serverQueue = NoQueue /\ serverQueue' = serverQueue /\ CExit(c, "failed")
                 \/ /\ serverQueue # NoQueue /\ serverQueue' = Append(serverQueue, c)
                    /\ cpc' = [cpc EXCEPT ![c] = "receive"] /\ queue' = queue
BY DEF CMsgget, CSend, serverVars, childVars

\* msgsnd() in the child: a queue that is there gets the message.
LEMMA Answers ==
  ASSUME NEW c \in Clients
  PROVE  /\ ChFail(c) =>
              /\ child[c] = "fail" /\ UNCHANGED <<pathname, cpc, got, serverQueue, spc, req, pos, readError>>
              /\ child' = [child EXCEPT ![c] = "zombie"]
              /\ \/ queue[c] = NoQueue /\ queue' = queue
                 \/ queue[c] # NoQueue /\ queue' = [queue EXCEPT ![c] = Append(@, FAILURE)]
         /\ ChEnd(c) =>
              /\ child[c] = "end" /\ UNCHANGED <<pathname, cpc, got, serverQueue, spc, req, pos, readError>>
              /\ child' = [child EXCEPT ![c] = "zombie"]
              /\ \/ queue[c] = NoQueue /\ queue' = queue
                 \/ queue[c] # NoQueue /\ queue' = [queue EXCEPT ![c] = Append(@, END)]
         /\ ChSend(c) =>
              /\ child[c] = "send" /\ UNCHANGED <<pathname, cpc, got, serverQueue, spc, req, pos, readError>>
              /\ \/ queue[c] = NoQueue /\ queue' = queue /\ child' = [child EXCEPT ![c] = "end"]
                 \/ /\ queue[c] # NoQueue /\ Room(c) /\ child' = [child EXCEPT ![c] = "read"]
                    /\ queue' = [queue EXCEPT ![c] = Append(@, DATA(Content(c)[pos[c]]))]
BY DEF ChFail, ChEnd, ChSend, ChExit, ChGoto, Sent, clientVars, serverVars

\* The block that a child is about to send.
LEMMA NextBlock ==
  ASSUME NEW c \in Clients, IInv, child[c] = "send"
  PROVE  /\ pos[c] \in Nat \ {0} /\ Content(c) \in Seq(Nat) /\ pos[c] <= Len(Content(c))
         /\ Content(c)[pos[c]] \in Nat /\ DATA(Content(c)[pos[c]]) \in Messages
<1>1. pos[c] \in Nat /\ Stream(c) /\ Received(c)
  BY DEF IInv, Values
<1>2. pos[c] > 0 /\ Content(c) \in Seq(Nat) /\ pos[c] <= Len(Content(c))
  BY <1>1 DEF Stream, Received
<1>3. Content(c)[pos[c]] \in Nat
  BY <1>1, <1>2
<1> QED
  BY <1>1, <1>2, <1>3, MessagesDiffer

\* The values of the variables.
LEMMA ValuesStep ==
  ASSUME IInv, Next
  PROVE  Values'
<1> USE DEF clientVars, serverVars, childVars
<1>1. Values
  BY DEF IInv
<1> DEFINE Steps == {"none", "open", "fail", "read", "send", "end", "zombie", "reaped"}
<1>2. CASE SMsgget \/ SMsgrcv \/ SForkFails
  <2>1. CASE SMsgrcv
    <3>1. serverQueue \in Seq(Clients) /\ serverQueue # <<>>
      BY <1>1, <2>1 DEF SMsgrcv, IInv, Requested, Values
    <3>2. Head(serverQueue) \in Clients /\ Tail(serverQueue) \in Seq(Clients)
      BY <3>1
    <3> QED
      BY <1>1, <2>1, <3>2 DEF Values, SMsgrcv
  <2>2. CASE SMsgget
    <3>1. <<>> \in Seq(Clients)
      OBVIOUS
    <3> QED
      BY <1>1, <2>2, <3>1 DEF Values, SMsgget
  <2>3. CASE SForkFails
    BY <1>1, <2>3 DEF Values, SForkFails
  <2> QED
    BY <1>2, <2>1, <2>2, <2>3
<1>3. CASE SFork \/ SHandler \/ GrimReaper
  BY <1>1, <1>3, Zenon DEF Values, SFork, SHandler, GrimReaper
<1>4. ASSUME NEW c \in Clients, CMsgget(c) \/ CReceiveFails(c) \/ CKilled(c) PROVE Values'
  <2>1. CASE CMsgget(c)
    <3>1. <<>> \in Seq(Messages)
      OBVIOUS
    <3>2. queue' \in [Clients -> Seq(Messages) \cup {NoQueue}]
      BY <1>1, <2>1, <3>1, Asks, Zenon DEF Values, CExit
    <3>3. cpc' \in [Clients -> {"start", "send", "receive"} \cup Ended]
      BY <1>1, <2>1, Asks, Zenon DEF Values, CExit, Ended
    <3> QED
      BY <1>1, <2>1, <3>2, <3>3, Asks DEF Values
  <2>2. CASE CReceiveFails(c)
    BY <1>1, <2>2 DEF Values, CReceiveFails, CExit, Ended
  <2>3. CASE CKilled(c)
    BY <1>1, <2>3 DEF Values, CKilled, Ended
  <2> QED
    BY <1>4, <2>1, <2>2, <2>3
<1>5. ASSUME NEW c \in Clients, CSend(c) PROVE Values'
  <2>1. queue' \in [Clients -> Seq(Messages) \cup {NoQueue}]
    BY <1>1, <1>5, Asks, Zenon DEF Values, CExit
  <2>2. cpc' \in [Clients -> {"start", "send", "receive"} \cup Ended]
    BY <1>1, <1>5, Asks, Zenon DEF Values, CExit, Ended
  <2>3. serverQueue' \in Seq(Clients) \cup {NoQueue}
    <3>1. serverQueue # NoQueue => Append(serverQueue, c) \in Seq(Clients)
      BY <1>1 DEF Values
    <3> QED
      BY <1>1, <1>5, <3>1, Asks, Zenon DEF Values
  <2> QED
    BY <1>1, <1>5, <2>1, <2>2, <2>3, Asks DEF Values
<1>6. ASSUME NEW c \in Clients, CReceive(c) PROVE Values'
  <2>1. /\ queue[c] \in Seq(Messages) /\ queue[c] # <<>> /\ got[c] \in Seq(Nat)
        /\ queue \in [Clients -> Seq(Messages) \cup {NoQueue}] /\ got \in [Clients -> Seq(Nat)]
    BY <1>1, <1>6, Receives DEF IInv, Queues, Values
  <2>2. Head(queue[c]) \in Messages /\ Tail(queue[c]) \in Seq(Messages)
    BY <2>1
  <2>3. Append(got[c], Head(queue[c])[2]) \in Seq(Nat)
    BY <2>1, <2>2 DEF Messages
  <2>4. got' \in [Clients -> Seq(Nat)]
    BY <1>6, <2>1, <2>3, Receives, Zenon
  <2>5. queue' \in [Clients -> Seq(Messages) \cup {NoQueue}]
    BY <1>6, <2>1, <2>2, Receives, Zenon DEF CExit
  <2>6. cpc' \in [Clients -> {"start", "send", "receive"} \cup Ended]
    BY <1>1, <1>6, Receives, Zenon DEF CExit, Values, Ended
  <2> QED
    BY <1>1, <1>6, <2>4, <2>5, <2>6, Receives DEF Values
<1>7. ASSUME NEW c \in Clients, Child(c) PROVE Values'
  <2>1. CASE ChOpen(c)
    BY <1>1, <2>1 DEF Values, ChOpen, ChGoto
  <2>2. CASE ChFail(c)
    <3>1. queue[c] # NoQueue => Append(queue[c], FAILURE) \in Seq(Messages)
      BY <1>1, MessagesDiffer DEF Values
    <3>2. queue' \in [Clients -> Seq(Messages) \cup {NoQueue}]
      BY <1>1, <2>2, <3>1, Answers, Zenon DEF Values
    <3>3. child' \in [Clients -> Steps]
      BY <1>1, <2>2, Answers, Zenon DEF Values
    <3> QED
      BY <1>1, <2>2, <3>2, <3>3, Answers DEF Values
  <2>3. CASE ChEnd(c)
    <3>1. queue[c] # NoQueue => Append(queue[c], END) \in Seq(Messages)
      BY <1>1, MessagesDiffer DEF Values
    <3>2. queue' \in [Clients -> Seq(Messages) \cup {NoQueue}]
      BY <1>1, <2>3, <3>1, Answers, Zenon DEF Values
    <3>3. child' \in [Clients -> Steps]
      BY <1>1, <2>3, Answers, Zenon DEF Values
    <3> QED
      BY <1>1, <2>3, <3>2, <3>3, Answers DEF Values
  <2>4. CASE ChRead(c)
    <3>1. child' \in [Clients -> Steps]
      BY <1>1, <2>4, Zenon DEF Values, ChRead, ChGoto
    <3>2. pos' \in [Clients -> Nat]
      BY <1>1, <2>4 DEF Values, ChRead
    <3>3. readError' \in SUBSET Clients
      BY <1>1, <2>4 DEF Values, ChRead
    <3> QED
      BY <1>1, <2>4, <3>1, <3>2, <3>3 DEF Values, ChRead
  <2>5. CASE ChSend(c)
    <3>3. DATA(Content(c)[pos[c]]) \in Messages
      BY <2>5, Answers, NextBlock
    <3>4. queue[c] # NoQueue => Append(queue[c], DATA(Content(c)[pos[c]])) \in Seq(Messages)
      BY <1>1, <3>3 DEF Values
    <3>5. queue' \in [Clients -> Seq(Messages) \cup {NoQueue}]
      BY <1>1, <2>5, <3>4, Answers, Zenon DEF Values
    <3>6. child' \in [Clients -> Steps]
      BY <1>1, <2>5, Answers, Zenon DEF Values
    <3> QED
      BY <1>1, <2>5, <3>5, <3>6, Answers DEF Values
  <2> QED
    BY <1>7, <2>1, <2>2, <2>3, <2>4, <2>5 DEF Child
<1> QED
  BY <1>2, <1>3, <1>4, <1>5, <1>6, <1>7 DEF Next, Server, Client

\* A step that leaves a client's queue, child and data alone.
LEMMA SameStream ==
  ASSUME NEW c \in Clients, Stream(c), Received(c), pathname' = pathname,
         child'[c] = child[c], queue'[c] = queue[c], got'[c] = got[c], pos'[c] = pos[c],
         c \in readError' <=> c \in readError, cpc'[c] = "done" => cpc[c] = "done"
  PROVE  Stream(c)' /\ Received(c)'
<1>1. /\ Content(c)' = Content(c) /\ (Nothing(c) <=> Nothing(c)')
      /\ \A len : DataFrom(c, len) => DataFrom(c, len)'
  BY DEF Content, Nothing, DataFrom
<1>2. AllRead(c) => AllRead(c)'
  BY <1>1 DEF AllRead
<1>3. Received(c)'
  BY <1>1 DEF Received
<1> QED
  BY <1>1, <1>2, <1>3, Zenon DEF Stream

\* A client has a queue while it uses it; a request is sent once and served once.
LEMMA ProtocolStep ==
  ASSUME Assumption, IInv, Next
  PROVE  Queues' /\ Requested'
<1>1. Values /\ Queues /\ Requested
  BY DEF IInv
<1>2. /\ cpc \in [Clients -> {"start", "send", "receive"} \cup Ended]
      /\ child \in [Clients -> {"none", "open", "fail", "read", "send", "end", "zombie", "reaped"}]
      /\ queue \in [Clients -> Seq(Messages) \cup {NoQueue}]
      /\ serverQueue \in Seq(Clients) \cup {NoQueue} /\ req \in Clients \cup {Nobody}
  BY <1>1 DEF Values
<1>3. serverQueue # NoQueue => Len(serverQueue) \in Nat /\ \A i \in 1..Len(serverQueue) : serverQueue[i] \in Clients
  BY <1>2
<1>4. ASSUME UNCHANGED <<serverQueue, spc, req>>,
             \A o \in Clients : /\ Asked(o) => Asked(o)'
                                /\ cpc'[o] \in {"start", "send"} => child'[o] = "none"
      PROVE  Requested'
  BY <1>1, <1>3, <1>4 DEF Requested
<1>5. ASSUME UNCHANGED <<cpc, serverQueue, spc, req>>,
             \A o \in Clients : (child'[o] = "none" <=> child[o] = "none") /\ (queue'[o] = NoQueue <=> queue[o] = NoQueue)
      PROVE  Queues' /\ Requested'
  <2>1. \A o \in Clients : Asked(o) => Asked(o)'
    BY <1>5 DEF Asked
  <2>2. \A o \in Clients : cpc'[o] \in {"start", "send"} => child'[o] = "none"
    BY <1>1, <1>5 DEF Requested
  <2>3. Queues'
    BY <1>1, <1>5 DEF Queues
  <2> QED
    BY <1>4, <1>5, <2>1, <2>2, <2>3
<1>6. CASE SHandler \/ GrimReaper
  <2>1. UNCHANGED <<cpc, serverQueue, spc, req, queue>> /\ \A o \in Clients : child'[o] = "none" <=> child[o] = "none"
    BY <1>2, <1>6 DEF SHandler, GrimReaper, Zombies, clientVars, childVars
  <2> QED
    BY <1>5, <2>1
<1>7. ASSUME NEW c \in Clients, Child(c) PROVE Queues' /\ Requested'
  <2>1. UNCHANGED <<cpc, serverQueue, spc, req>> /\ \A o \in Clients : child'[o] = "none" <=> child[o] = "none"
    <3>1. CASE ChOpen(c) \/ ChRead(c)
      BY <1>2, <3>1 DEF ChOpen, ChRead, ChGoto, clientVars, serverVars
    <3> QED
      BY <1>2, <1>7, <3>1, Answers DEF Child
  <2>2. \A o \in Clients : queue'[o] = NoQueue <=> queue[o] = NoQueue
    <3>1. queue[c] # NoQueue => \A m \in Messages : Append(queue[c], m) # NoQueue
      <4>1. ASSUME queue[c] # NoQueue, NEW m \in Messages PROVE Append(queue[c], m) # NoQueue
        <5>1. Append(queue[c], m) \in Seq(Messages)
          BY <1>2, <4>1
        <5> QED
          BY <5>1, ConstantFacts, Zenon
      <4> QED
        BY <4>1
    <3>3. child[c] = "send" => DATA(Content(c)[pos[c]]) \in Messages
      BY NextBlock
    <3>2. CASE ChOpen(c) \/ ChRead(c)
      BY <3>2 DEF ChOpen, ChRead
    <3> QED
      BY <1>2, <1>7, <3>1, <3>2, <3>3, Answers, MessagesDiffer DEF Child
  <2> QED
    BY <1>5, <2>1, <2>2
<1>8. CASE SMsgget \/ SForkFails
  <2>1. UNCHANGED <<cpc, queue, child>> /\ Queues'
    BY <1>1, <1>8 DEF SMsgget, SForkFails, clientVars, childVars, Queues
  <2>2. \A o \in Clients : cpc'[o] \in {"start", "send"} => child'[o] = "none"
    BY <1>1, <2>1 DEF Requested
  <2>3. CASE SMsgget
    <3>1. serverQueue' = <<>> /\ Len(serverQueue') = 0 /\ serverQueue' # NoQueue /\ spc' = "msgrcv" /\ req' = Nobody
      <4>1. <<>> \in Seq(Clients)
        OBVIOUS
      <4> QED
        BY <1>1, <2>3, <4>1, ConstantFacts, Zenon DEF SMsgget, Requested
    <3> QED
      BY <2>1, <2>2, <3>1 DEF Requested
  <2>4. CASE SForkFails
    BY <2>1, <2>2, <2>4 DEF SForkFails, Requested
  <2> QED
    BY <1>8, <2>3, <2>4
<1>9. CASE SMsgrcv
  <2>1. /\ spc = "msgrcv" /\ spc' = "fork" /\ serverQueue \in Seq(Clients) /\ serverQueue # NoQueue /\ serverQueue # <<>>
        /\ req' = Head(serverQueue) /\ serverQueue' = Tail(serverQueue) /\ UNCHANGED <<cpc, queue, child>>
    BY <1>1, <1>2, <1>9 DEF SMsgrcv, Requested, clientVars, childVars
  <2>2. /\ req' = serverQueue[1] /\ Len(serverQueue) \in Nat \ {0} /\ Len(serverQueue') = Len(serverQueue) - 1
        /\ serverQueue' \in Seq(Clients)
        /\ \A i \in 1..Len(serverQueue') : serverQueue'[i] = serverQueue[i + 1] /\ i + 1 \in 1..Len(serverQueue)
    BY <2>1
  <2>3. /\ \A i \in 1..Len(serverQueue) : Asked(serverQueue[i])
        /\ \A i, j \in 1..Len(serverQueue) : serverQueue[i] = serverQueue[j] => i = j
    BY <1>1, <2>1 DEF Requested
  <2> DEFINE Later(o) == cpc'[o] \in {"receive"} \cup Ended /\ child'[o] = "none"
  <2>4. \A o \in Clients : Asked(o) => Later(o)
    BY <2>1 DEF Asked
  <2> HIDE DEF Later
  <2>5. /\ req' \in Clients /\ Later(req') /\ \A i \in 1..Len(serverQueue') : serverQueue'[i] # req'
    BY <1>3, <2>1, <2>2, <2>3, <2>4
  <2>6. /\ \A i \in 1..Len(serverQueue') : Later(serverQueue'[i])
        /\ \A i, j \in 1..Len(serverQueue') : serverQueue'[i] = serverQueue'[j] => i = j
    BY <1>3, <2>1, <2>2, <2>3, <2>4
  <2>7. \A o \in Clients : cpc'[o] \in {"start", "send"} => child'[o] = "none"
    BY <1>1, <2>1 DEF Requested
  <2>8. Requested'
    BY <2>1, <2>2, <2>5, <2>6, <2>7, ConstantFacts DEF Requested, Asked, Later
  <2> QED
    BY <1>1, <2>1, <2>8 DEF Queues
<1>10. CASE SFork
  <2>1. /\ spc = "fork" /\ spc' = "msgrcv" /\ req' = Nobody /\ child' = [child EXCEPT ![req] = "open"]
        /\ UNCHANGED <<cpc, queue, serverQueue>>
    BY <1>10 DEF SFork, clientVars
  <2>2. /\ req \in Clients /\ Asked(req) /\ serverQueue # NoQueue /\ \A i \in 1..Len(serverQueue) : serverQueue[i] # req
    BY <1>1, <2>1 DEF Requested
  <2>3. \A o \in Clients : o # req => child'[o] = child[o]
    BY <1>2, <2>1
  <2>4. \A i \in 1..Len(serverQueue) : Asked(serverQueue[i])'
    BY <1>1, <1>3, <2>1, <2>2, <2>3 DEF Requested, Asked
  <2>5. \A o \in Clients : cpc'[o] \in {"start", "send"} => child'[o] = "none"
    BY <1>1, <2>1, <2>2, <2>3 DEF Requested, Asked, Ended
  <2>6. Requested'
    BY <1>1, <2>1, <2>2, <2>4, <2>5 DEF Requested
  <2> QED
    BY <1>1, <2>1, <2>6 DEF Queues
<1>11. ASSUME NEW c \in Clients, CMsgget(c) PROVE Queues' /\ Requested'
  <2>1. Queues'
    <3>1. <<>> \in Seq(Messages)
      OBVIOUS
    <3>2. <<>> # NoQueue
      BY <3>1, ConstantFacts, Zenon
    <3> QED
      BY <1>1, <1>2, <1>11, <3>2, Asks DEF Queues, CExit
  <2>2. child[c] = "none"
    BY <1>1, <1>11, Asks DEF Requested
  <2>3. \A o \in Clients : (Asked(o) => Asked(o)') /\ (cpc'[o] \in {"start", "send"} => child'[o] = "none")
    BY <1>1, <1>2, <1>11, <2>2, Asks DEF Asked, CExit, Ended, Requested
  <2> QED
    BY <1>4, <1>11, <2>1, <2>3, Asks
<1>12. ASSUME NEW c \in Clients, CReceive(c) \/ CReceiveFails(c) \/ CKilled(c)
       PROVE  Queues' /\ Requested'
  <2>1. UNCHANGED <<serverQueue, spc, req, child>>
    BY <1>12, Receives DEF CReceiveFails, CKilled, serverVars, childVars
  <2>2. \/ cpc' = cpc /\ cpc[c] = "receive" /\ queue' = [queue EXCEPT ![c] = Tail(@)] /\ queue[c] # <<>>
        \/ cpc[c] = "receive" /\ (CExit(c, "failed") \/ CExit(c, "done"))
        \/ cpc[c] \in {"send", "receive"} /\ cpc' = [cpc EXCEPT ![c] = "killed"] /\ queue' = queue
    BY <1>12, Receives DEF CReceiveFails, CKilled
  <2>3. \A o \in Clients : (Asked(o) => Asked(o)') /\ (cpc'[o] \in {"start", "send"} => child'[o] = "none")
    BY <1>1, <1>2, <2>1, <2>2 DEF Asked, CExit, Ended, Requested
  <2>4. Queues'
    <3>1. cpc[c] = "receive" /\ queue[c] # <<>> => Tail(queue[c]) \in Seq(Messages)
      BY <1>1, <1>2 DEF Queues
    <3> QED
      BY <1>1, <1>2, <2>2, <3>1, ConstantFacts, Zenon DEF Queues, CExit
  <2> QED
    BY <1>4, <2>1, <2>3, <2>4
<1>13. ASSUME NEW c \in Clients, CSend(c) PROVE Queues' /\ Requested'
  <2>1. /\ cpc[c] = "send" /\ child[c] = "none" /\ UNCHANGED <<spc, req, child>>
    BY <1>1, <1>13, Asks DEF Requested
  <2>2. Queues'
    BY <1>1, <1>2, <1>13, Asks DEF Queues, CExit
  <2>3. \A o \in Clients : (Asked(o) => Asked(o)') /\ (cpc'[o] \in {"start", "send"} => child'[o] = "none")
    BY <1>1, <1>2, <1>13, <2>1, Asks DEF Asked, CExit, Ended, Requested
  <2>4. CASE serverQueue' = serverQueue
    BY <1>4, <2>1, <2>2, <2>3, <2>4
  <2>5. CASE serverQueue # NoQueue /\ serverQueue' = Append(serverQueue, c) /\ cpc' = [cpc EXCEPT ![c] = "receive"]
    <3>1. /\ serverQueue' \in Seq(Clients) /\ Len(serverQueue') = Len(serverQueue) + 1 /\ serverQueue'[Len(serverQueue')] = c
          /\ \A i \in 1..Len(serverQueue) : serverQueue'[i] = serverQueue[i] /\ serverQueue[i] \in Clients
          /\ Len(serverQueue) \in Nat
      BY <1>2, <2>5
    <3>2. \A i \in 1..Len(serverQueue) : Asked(serverQueue[i])
      BY <1>1, <2>5 DEF Requested
    <3>3. ~Asked(c) /\ Asked(c)'
      BY <1>2, <2>1, <2>5 DEF Asked, Ended
    <3>4. \A i \in 1..Len(serverQueue) : serverQueue[i] # c
      BY <3>2, <3>3
    <3>5. \A i, j \in 1..Len(serverQueue') : serverQueue'[i] = serverQueue'[j] => i = j
      BY <1>1, <2>5, <3>1, <3>4 DEF Requested
    <3>6. spc = "fork" => /\ req \in Clients /\ Asked(req) /\ req # c
                          /\ \A i \in 1..Len(serverQueue') : serverQueue'[i] # req
      BY <1>1, <3>1, <3>3 DEF Requested
    <3> DEFINE Later(o) == cpc'[o] \in {"receive"} \cup Ended /\ child'[o] = "none"
    <3>7. Later(c) /\ \A o \in Clients : Asked(o) => Later(o)
      BY <2>3, <3>3 DEF Asked
    <3> HIDE DEF Later
    <3>8. \A i \in 1..Len(serverQueue') : Later(serverQueue'[i])
      BY <3>1, <3>2, <3>7
    <3>9. spc' = "fork" => Later(req')
      BY <2>1, <3>6, <3>7
    <3>10. Requested'
      BY <1>1, <2>1, <2>3, <2>5, <3>1, <3>5, <3>6, <3>8, <3>9, ConstantFacts, Zenon DEF Requested, Asked, Later
    <3> QED
      BY <2>2, <3>10
  <2> QED
    BY <1>13, <2>4, <2>5, Asks
<1> QED
  BY <1>6, <1>7, <1>8, <1>9, <1>10, <1>11, <1>12, <1>13 DEF Next, Server, Client

\* The variables of one client.
LEMMA OfClient ==
  ASSUME Assumption, NEW c \in Clients, IInv
  PROVE  /\ Stream(c) /\ Received(c)
         /\ got[c] \in Seq(Nat) /\ Len(got[c]) \in Nat /\ pos[c] \in Nat
         /\ queue[c] = NoQueue \/ (queue[c] \in Seq(Messages) /\ Len(queue[c]) \in Nat)
         /\ Content(c) = NoFile \/ (Content(c) \in Seq(Nat) /\ Len(Content(c)) \in Nat)
<1>1. Values /\ Stream(c) /\ Received(c)
  BY DEF IInv
<1>2. got[c] \in Seq(Nat) /\ pos[c] \in Nat /\ queue[c] \in Seq(Messages) \cup {NoQueue} /\ pathname[c] \in DOMAIN Files
  BY <1>1 DEF Values
<1>3. Content(c) = NoFile \/ Content(c) \in Seq(Nat)
  BY <1>2, ConstantFacts DEF Content
<1> QED
  BY <1>1, <1>2, <1>3

\* exit() of a client without success: its queue is gone.
LEMMA Leaves ==
  ASSUME Assumption, NEW c \in Clients, IInv, queue'[c] = NoQueue, cpc'[c] = "failed",
         UNCHANGED <<pathname, got, child, pos, readError>>
  PROVE  Stream(c)' /\ Received(c)'
BY OfClient, Zenon DEF Stream, Received, Nothing, Content

\* A data message: the next block of the file.
LEMMA Gets ==
  ASSUME Assumption, NEW c \in Clients, IInv, queue[c] # NoQueue, queue[c] # <<>>,
         Head(queue[c]) # FAILURE, Head(queue[c]) # END,
         got'[c] = Append(got[c], Head(queue[c])[2]), queue'[c] = Tail(queue[c]), cpc[c] = "receive",
         UNCHANGED <<pathname, cpc, child, pos, readError>>
  PROVE  Stream(c)' /\ Received(c)'
<1> DEFINE n == Len(got[c])
           len == Len(queue[c])
           content == Content(c)
<1>1. /\ Stream(c) /\ Received(c) /\ got[c] \in Seq(Nat) /\ n \in Nat /\ pos[c] \in Nat
      /\ queue[c] \in Seq(Messages) /\ len \in Nat \ {0} /\ Head(queue[c]) = queue[c][1]
      /\ n = Len(got[c]) /\ len = Len(queue[c])
  BY OfClient
<1>a. n \in Nat /\ len \in Nat \ {0} /\ pos[c] \in Nat
  BY <1>1
<1> HIDE DEF n, len
<1>2. child[c] \in {"read", "send", "end", "zombie", "reaped"}
  BY <1>1 DEF IInv, Values, Stream
<1>3. content \in Seq(Nat) /\ n + 1 <= pos[c] /\ pos[c] <= Len(content) /\ queue[c][1] = DATA(content[n + 1])
  <2>1. pos[c] > 0 => pos[c] <= Len(content)
    BY <1>1 DEF Received
  <2>2. CASE child[c] \in {"read", "send", "end"}
    <3>1. /\ content \in Seq(Nat) /\ DataFrom(c, len)
          /\ (child[c] = "send" => n + len + 1 = pos[c]) /\ (child[c] # "send" => n + len = pos[c])
      BY <1>1, <2>2, Zenon DEF Stream
    <3>2. n + 1 <= pos[c]
      BY <1>a, <3>1
    <3>3. 1 \in 1..len
      BY <1>a
    <3>4. queue[c][1] = DATA(content[n + 1])
      BY <1>1, <3>1, <3>3, Zenon DEF DataFrom
    <3> QED
      BY <1>1, <2>1, <3>1, <3>2, <3>4
  <2>3. CASE child[c] \in {"zombie", "reaped"}
    <3>1. queue[c] # <<FAILURE>>
      BY <1>1
    <3>2. /\ content \in Seq(Nat) /\ queue[c][len] = END /\ DataFrom(c, len - 1) /\ n + len - 1 = pos[c]
      BY <1>1, <2>3, <3>1, Zenon DEF Stream
    <3>3. len > 1
      BY <1>1, <3>2
    <3>4. n + 1 <= pos[c]
      BY <1>a, <3>2, <3>3
    <3>5. 1 \in 1..(len - 1)
      BY <1>a, <3>3
    <3>6. queue[c][1] = DATA(content[n + 1])
      BY <1>1, <3>2, <3>5 DEF DataFrom
    <3> QED
      BY <1>1, <2>1, <3>2, <3>4, <3>6
  <2> QED
    BY <1>2, <2>2, <2>3
<1>4. content[n + 1] \in Nat /\ got'[c] = Append(got[c], content[n + 1])
  <2>1. content[n + 1] \in Nat
    BY <1>1, <1>3
  <2> QED
    BY <1>1, <1>3, <2>1, MessagesDiffer
<1>5. /\ got'[c] \in Seq(Nat) /\ Len(got'[c]) = n + 1 /\ got'[c] # <<>>
      /\ \A i \in 1..Len(got'[c]) : got'[c][i] = content[i]
  <2>1. \A i \in 1..n : got[c][i] = content[i]
    BY <1>1, Zenon DEF Received
  <2>2. /\ got'[c] \in Seq(Nat) /\ Len(got'[c]) = n + 1 /\ got'[c][n + 1] = content[n + 1]
        /\ \A i \in 1..n : got'[c][i] = got[c][i]
    <3> HIDE DEF content
    <3> QED
      BY <1>1, <1>4
  <2>3. \A i \in 1..(n + 1) : i \in 1..n \/ i = n + 1
    BY <1>1
  <2>4. got'[c] # <<>>
    <3>1. Len(got'[c]) # 0
      BY <1>a, <2>2
    <3>2. Len(<<>>) = 0
      OBVIOUS
    <3> QED
      BY <3>1, <3>2, Zenon
  <2> QED
    BY <1>1, <2>1, <2>2, <2>3, <2>4
<1>6. /\ Len(queue'[c]) = len - 1 /\ queue'[c] \in Seq(Messages) /\ queue'[c] # NoQueue
      /\ \A i \in 1..(len - 1) : queue'[c][i] = queue[c][i + 1]
  <2>1. queue[c] \in Seq(Messages) /\ queue[c] # <<>> /\ queue'[c] = Tail(queue[c])
    BY <1>1
  <2>2. /\ Len(queue'[c]) = len - 1 /\ queue'[c] \in Seq(Messages)
        /\ \A i \in 1..(len - 1) : queue'[c][i] = queue[c][i + 1]
    BY <1>1, <2>1
  <2> QED
    BY <2>2, ConstantFacts, Zenon
<1>b. Len(got'[c]) = n + 1 /\ Len(queue'[c]) = len - 1
  BY <1>5, <1>6
<1>c. Len(got'[c]) + Len(queue'[c]) = n + len
  <2>1. (n + 1) + (len - 1) = n + len
    BY <1>a
  <2> QED
    BY <1>b, <2>1, Zenon
<1>7. Content(c)' = content
  BY DEF Content
<1> HIDE DEF content
<1>8. Received(c)'
  <2>1. cpc[c] # "done"
    BY DEF IInv, Queues
  <2>2. Len(got'[c]) <= pos[c]
    BY <1>3, <1>5
  <2> QED
    BY <1>3, <1>5, <1>7, <2>1, <2>2, Zenon DEF Received
<1>9. \A k \in 1..len : DataFrom(c, k) => DataFrom(c, k - 1)'
  BY <1>1, <1>5, <1>6, <1>7 DEF DataFrom, content
<1>10. Stream(c)'
  <2>1. CASE child[c] \in {"read", "send", "end"}
    <3>1. /\ len <= QMax /\ DataFrom(c, len)
          /\ (child[c] = "send" => n + len + 1 = pos[c]) /\ (child[c] # "send" => n + len = pos[c])
          /\ (child[c] = "end" => AllRead(c)) /\ (child[c] = "send" => pos[c] > 0)
      BY <1>1, <2>1, Zenon DEF Stream
    <3>2. DataFrom(c, Len(queue[c]))'
      BY <1>1, <1>6, <1>9, <3>1
    <3>3. child[c] = "end" => AllRead(c)'
      BY <1>7, <3>1 DEF AllRead, content
    <3>4. /\ (child[c] = "send" => Len(got'[c]) + Len(queue'[c]) + 1 = pos[c])
          /\ (child[c] # "send" => Len(got'[c]) + Len(queue'[c]) = pos[c])
      BY <1>c, <3>1, Zenon
    <3>5. Len(queue'[c]) <= QMax
      BY <1>1, <1>6, <3>1, ConstantFacts
    <3> QED
      BY <1>3, <1>7, <2>1, <3>1, <3>2, <3>3, <3>4, <3>5, Zenon DEF Stream
  <2>2. CASE child[c] \in {"zombie", "reaped"}
    <3>1. queue[c] # <<FAILURE>>
      BY <1>1
    <3>2. /\ queue[c][len] = END /\ DataFrom(c, len - 1) /\ n + len - 1 = pos[c] /\ AllRead(c) /\ len \in 1..(QMax + 1)
      BY <1>1, <2>2, <3>1, Zenon DEF Stream
    <3>3. len > 1
      BY <1>1, <3>2
    <3>4. DataFrom(c, Len(queue[c]) - 1)' /\ queue'[c][Len(queue'[c])] = END
      BY <1>1, <1>6, <1>9, <3>2, <3>3
    <3>5. AllRead(c)'
      BY <1>7, <3>2 DEF AllRead, content
    <3>6. Len(queue'[c]) \in 1..(QMax + 1) /\ Len(got'[c]) + Len(queue'[c]) - 1 = pos[c]
      <4>1. Len(queue'[c]) \in 1..(QMax + 1)
        BY <1>a, <1>b, <3>2, <3>3, ConstantFacts
      <4>2. (n + 1) + (len - 1) - 1 = n + len - 1
        BY <1>a
      <4> QED
        BY <1>b, <3>2, <4>1, <4>2, Zenon
    <3> QED
      BY <1>3, <1>7, <2>2, <3>4, <3>5, <3>6, Zenon DEF Stream
  <2> QED
    BY <1>2, <2>1, <2>2
<1> QED
  BY <1>8, <1>10

\* The END message: the client has all that the child has read.
LEMMA GetsEnd ==
  ASSUME Assumption, NEW c \in Clients, IInv, queue[c] # NoQueue, queue[c] # <<>>, Head(queue[c]) = END,
         queue'[c] = NoQueue, UNCHANGED <<pathname, got, child, pos, readError>>
  PROVE  Stream(c)' /\ Received(c)'
<1> DEFINE n == Len(got[c])
           len == Len(queue[c])
<1>1. /\ Stream(c) /\ Received(c) /\ got[c] \in Seq(Nat) /\ n \in Nat /\ pos[c] \in Nat
      /\ queue[c] \in Seq(Messages) /\ len \in Nat \ {0} /\ queue[c][1] = END
      /\ n = Len(got[c]) /\ len = Len(queue[c])
  BY OfClient
<1>a. n \in Nat /\ len \in Nat \ {0} /\ pos[c] \in Nat
  BY <1>1
<1> HIDE DEF n, len
<1>2. child[c] \in {"read", "send", "end", "zombie", "reaped"}
  BY <1>1 DEF IInv, Values, Stream
<1>3. Content(c) \in Seq(Nat) /\ n + 1 <= Len(Content(c)) => queue[c][1] # DATA(Content(c)[n + 1])
  <2>1. Content(c) \in Seq(Nat) /\ n + 1 <= Len(Content(c)) => Content(c)[n + 1] \in Nat
    BY <1>1
  <2> QED
    BY <1>1, <2>1, MessagesDiffer
<1>4. child[c] \in {"zombie", "reaped"}
  <2> SUFFICES ASSUME child[c] \in {"read", "send", "end"} PROVE FALSE
    BY <1>2
  <2>1. /\ Content(c) \in Seq(Nat) /\ DataFrom(c, len) 
        /\ (child[c] = "send" => n + len + 1 = pos[c]) /\ (child[c] # "send" => n + len = pos[c])
    BY <1>1, Zenon DEF Stream
  <2>2. n + 1 <= Len(Content(c))
    <3>1. pos[c] > 0 /\ n + 1 <= pos[c]
      BY <1>a, <2>1
    <3>2. pos[c] <= Len(Content(c))
      BY <1>1, <3>1 DEF Received
    <3> QED
      BY <1>1, <2>1, <3>1, <3>2
  <2>3. queue[c][1] = DATA(Content(c)[n + 1])
    <3>1. 1 \in 1..len
      BY <1>a
    <3> QED
      BY <1>1, <2>1, <3>1 DEF DataFrom
  <2> QED
    BY <1>3, <2>1, <2>2, <2>3
<1>5. Content(c) \in Seq(Nat) /\ n = pos[c] /\ AllRead(c)
  <2>1. queue[c] # <<FAILURE>>
    BY <1>1, MessagesDiffer
  <2>2. Content(c) \in Seq(Nat) /\ DataFrom(c, len - 1) /\ n + len - 1 = pos[c] /\ AllRead(c)
    BY <1>1, <1>4, <2>1, Zenon DEF Stream
  <2>3. len = 1
    <3> SUFFICES ASSUME len > 1 PROVE FALSE
      BY <1>a
    <3>1. queue[c][1] = DATA(Content(c)[n + 1])
      BY <1>1, <2>2 DEF DataFrom
    <3>2. n + 1 <= Len(Content(c))
      <4>1. pos[c] > 0 /\ n + 1 <= pos[c]
        BY <1>a, <2>2
      <4>2. pos[c] <= Len(Content(c))
        BY <1>1, <4>1 DEF Received
      <4> QED
        BY <1>1, <2>2, <4>1, <4>2
    <3> QED
      BY <1>3, <2>2, <3>1, <3>2
  <2> QED
    BY <1>1, <2>2, <2>3
<1>6. Stream(c)'
  BY <1>4 DEF Stream
<1>7. Received(c)'
  BY <1>1, <1>4, <1>5 DEF Received, AllRead, Content
<1> QED
  BY <1>6, <1>7

\* open() in the child: a file that is not there leads to a failure message.
LEMMA Opens ==
  ASSUME Assumption, NEW c \in Clients, IInv, ChOpen(c)
  PROVE  Stream(c)' /\ Received(c)'
<1>1. /\ child[c] = "open" /\ UNCHANGED <<pathname, cpc, got, queue, pos, readError>>
  BY DEF ChOpen, clientVars
<1>2. child'[c] = IF Content(c) = NoFile THEN "fail" ELSE "read"
  BY DEF ChOpen, ChGoto, IInv, Values
<1>3. Content(c)' = Content(c) /\ Nothing(c)' /\ Nothing(c)
  BY <1>1, OfClient, Zenon DEF Content, Nothing, Stream
<1>4. cpc[c] # "done"
  BY <1>1, OfClient DEF Received
<1>5. Received(c)'
  BY <1>1, <1>3, <1>4, OfClient DEF Received
<1>6. queue[c] # NoQueue => queue[c] = <<>>
  BY <1>1, OfClient, Zenon DEF Stream
<1>7. Len(<<>>) = 0 /\ Len(got'[c]) + 0 = pos'[c] /\ 0 <= QMax
  BY <1>3, ConstantFacts DEF Nothing
<1>8. queue[c] # NoQueue => DataFrom(c, Len(queue[c]))'
  BY <1>1, <1>6, <1>7 DEF DataFrom
<1>9. CASE Content(c) = NoFile
  <2>1. child'[c] = "fail"
    BY <1>2, <1>9
  <2>2. queue'[c] # NoQueue => queue'[c] = <<>>
    BY <1>1, <1>6
  <2> QED
    BY <1>3, <1>5, <2>1, <2>2 DEF Stream
<1>10. CASE Content(c) # NoFile
  <2>1. Content(c) \in Seq(Nat) /\ child'[c] = "read"
    BY <1>2, <1>10, OfClient
  <2>2. queue'[c] # NoQueue =>
          Len(queue'[c]) <= QMax /\ Len(got'[c]) + Len(queue'[c]) = pos'[c] /\ DataFrom(c, Len(queue[c]))'
    BY <1>1, <1>6, <1>7, <1>8, Zenon
  <2> QED
    BY <1>3, <1>5, <2>1, <2>2, Zenon DEF Stream
<1> QED
  BY <1>9, <1>10

\* The failure message is the first and the last.
LEMMA Fails ==
  ASSUME Assumption, NEW c \in Clients, IInv, ChFail(c)
  PROVE  Stream(c)' /\ Received(c)'
<1>1. /\ child[c] = "fail" /\ UNCHANGED <<pathname, cpc, got, pos, readError>>
      /\ child' = [child EXCEPT ![c] = "zombie"]
      /\ \/ queue[c] = NoQueue /\ queue' = queue
         \/ queue[c] # NoQueue /\ queue' = [queue EXCEPT ![c] = Append(@, FAILURE)]
  BY Answers
<1>2. child'[c] = "zombie" /\ (queue'[c] = NoQueue \/ (queue'[c] = Append(queue[c], FAILURE) /\ queue[c] # NoQueue))
  <2>1. /\ queue \in [Clients -> Seq(Messages) \cup {NoQueue}]
        /\ child \in [Clients -> {"none", "open", "fail", "read", "send", "end", "zombie", "reaped"}]
    BY DEF IInv, Values
  <2> QED
    BY <1>1, <2>1
<1>3. Nothing(c)' /\ (queue[c] # NoQueue => queue[c] = <<>>)
  BY <1>1, OfClient, Zenon DEF Nothing, Stream
<1>4. cpc[c] # "done" /\ Content(c)' = Content(c)
  BY <1>1, OfClient DEF Received, Content
<1>5. Received(c)'
  BY <1>1, <1>4, OfClient DEF Received
<1>6. queue'[c] = NoQueue \/ queue'[c] = <<FAILURE>>
  <2>1. Append(<<>>, FAILURE) = <<FAILURE>>
    OBVIOUS
  <2> QED
    BY <1>2, <1>3, <2>1
<1> QED
  BY <1>2, <1>3, <1>5, <1>6, Zenon DEF Stream

\* read() in the child: the next block, the end of the file or an error.
LEMMA Reads ==
  ASSUME Assumption, NEW c \in Clients, IInv, ChRead(c)
  PROVE  Stream(c)' /\ Received(c)'
<1>1. child[c] = "read" /\ UNCHANGED <<pathname, cpc, got, queue>>
  BY DEF ChRead, clientVars
<1>2. /\ pos \in [Clients -> Nat] /\ child \in [Clients -> {"none", "open", "fail", "read", "send", "end", "zombie", "reaped"}]
  BY DEF IInv, Values
<1>3. /\ Content(c) \in Seq(Nat) /\ cpc[c] # "done" /\ Content(c)' = Content(c)
      /\ queue[c] # NoQueue => Len(queue[c]) <= QMax /\ DataFrom(c, Len(queue[c])) /\ Len(got[c]) + Len(queue[c]) = pos[c]
  BY <1>1, OfClient, Zenon DEF Stream, Received, Content
<1>4. queue[c] # NoQueue => DataFrom(c, Len(queue[c]))'
  BY <1>1, <1>3, Zenon DEF DataFrom, Content
<1>5. /\ pos[c] \in Nat /\ Len(got[c]) \in Nat /\ Len(got[c]) <= pos[c] /\ Len(Content(c)) \in Nat
      /\ \A i \in 1..Len(got[c]) : got[c][i] = Content(c)[i]
      /\ pos[c] > 0 => pos[c] <= Len(Content(c))
  BY <1>3, OfClient DEF Received
<1>6. CASE pos[c] < Len(Content(c)) /\ pos' = [pos EXCEPT ![c] = @ + 1] /\ child' = [child EXCEPT ![c] = "send"]
  <2>1. pos'[c] = pos[c] + 1 /\ child'[c] = "send"
    BY <1>2, <1>6
  <2>2. pos'[c] > 0 /\ pos'[c] <= Len(Content(c)) /\ Len(got[c]) <= pos'[c]
    BY <1>5, <1>6, <2>1
  <2>3. queue[c] # NoQueue => Len(got[c]) + Len(queue[c]) + 1 = pos'[c]
    BY <1>3, <2>1, Zenon
  <2>4. Received(c)'
    BY <1>1, <1>3, <1>5, <2>2 DEF Received
  <2> QED
    BY <1>1, <1>3, <1>4, <2>1, <2>2, <2>3, <2>4, Zenon DEF Stream
<1>7. CASE /\ pos' = pos /\ child' = [child EXCEPT ![c] = "end"]
           /\ \/ pos[c] = Len(Content(c)) /\ readError' = readError
              \/ readError' = readError \cup {c}
  <2>1. child'[c] = "end" /\ AllRead(c)'
    BY <1>2, <1>3, <1>7 DEF AllRead
  <2>2. Received(c)'
    BY <1>1, <1>3, <1>5, <1>7 DEF Received
  <2> QED
    BY <1>1, <1>3, <1>4, <1>7, <2>1, <2>2, Zenon DEF Stream
<1> QED
  BY <1>6, <1>7 DEF ChRead, ChGoto

\* msgsnd() of a block: it continues the blocks before it.
LEMMA Sends ==
  ASSUME Assumption, NEW c \in Clients, IInv, ChSend(c)
  PROVE  Stream(c)' /\ Received(c)'
<1>1. child[c] = "send" /\ UNCHANGED <<pathname, cpc, got, pos, readError>>
  BY Answers
<1>2. /\ queue \in [Clients -> Seq(Messages) \cup {NoQueue}]
      /\ child \in [Clients -> {"none", "open", "fail", "read", "send", "end", "zombie", "reaped"}]
  BY DEF IInv, Values
<1>3. /\ Content(c) \in Seq(Nat) /\ cpc[c] # "done" /\ Content(c)' = Content(c)
      /\ queue[c] # NoQueue => DataFrom(c, Len(queue[c])) /\ Len(got[c]) + Len(queue[c]) + 1 = pos[c]
  BY <1>1, OfClient, Zenon DEF Stream, Received, Content
<1>4. Received(c)'
  BY <1>1, <1>3, OfClient DEF Received
<1>5. CASE queue[c] = NoQueue /\ queue' = queue /\ child' = [child EXCEPT ![c] = "end"]
  BY <1>2, <1>3, <1>4, <1>5 DEF Stream
<1>6. CASE /\ queue[c] # NoQueue /\ Room(c) /\ child' = [child EXCEPT ![c] = "read"]
           /\ queue' = [queue EXCEPT ![c] = Append(@, DATA(Content(c)[pos[c]]))]
  <2> DEFINE m == DATA(Content(c)[pos[c]])
             n == Len(got[c])
             len == Len(queue[c])
  <2>1. m \in Messages /\ queue[c] \in Seq(Messages) /\ child'[c] = "read" /\ queue'[c] = Append(queue[c], m)
    BY <1>1, <1>2, <1>6, NextBlock
  <2>2. /\ Len(queue'[c]) = len + 1 /\ queue'[c][len + 1] = m /\ len \in Nat
        /\ \A i \in 1..len : queue'[c][i] = queue[c][i]
    <3> HIDE DEF m
    <3> QED
      BY <2>1
  <2>3. len < QMax /\ n \in Nat /\ n + len + 1 = pos[c] /\ n = Len(got[c])
    BY <1>1, <1>3, <1>6, OfClient, Zenon DEF Room
  <2>a. n + (len + 1) = pos[c]
    <3> DEFINE p == pos[c]
    <3>1. n \in Nat /\ len \in Nat /\ n + len + 1 = p
      BY <2>2, <2>3, Zenon
    <3> HIDE DEF n, len, p
    <3>2. n + (len + 1) = p
      BY <3>1
    <3> QED
      BY <3>2, Zenon DEF p
  <2>4. m = DATA(Content(c)[n + (len + 1)])
    BY <2>a, Zenon
  <2>5. \A i \in 1..len : queue[c][i] = DATA(Content(c)[n + i])
    BY <1>3, <1>6, Zenon DEF DataFrom
  <2> HIDE DEF m, n, len
  <2>6. \A i \in 1..(len + 1) : queue'[c][i] = DATA(Content(c)[n + i])
    <3>1. \A i \in 1..(len + 1) : i \in 1..len \/ i = len + 1
      BY <2>2
    <3> QED
      BY <2>2, <2>4, <2>5, <3>1
  <2>7. DataFrom(c, Len(queue[c]))'
    BY <1>1, <1>3, <2>2, <2>3, <2>6, Zenon DEF DataFrom, DATA
  <2>8. Len(got'[c]) + Len(queue'[c]) = pos'[c] /\ Len(queue'[c]) <= QMax
    <3>1. len + 1 <= QMax
      BY <2>2, <2>3, ConstantFacts
    <3> QED
      BY <1>1, <2>2, <2>3, <2>a, <3>1, Zenon
  <2> QED
    BY <1>3, <1>4, <2>1, <2>7, <2>8, Zenon DEF Stream
<1> QED
  BY <1>5, <1>6, Answers

\* The END message comes last.
LEMMA Ends ==
  ASSUME Assumption, NEW c \in Clients, IInv, ChEnd(c)
  PROVE  Stream(c)' /\ Received(c)'
<1>1. child[c] = "end" /\ UNCHANGED <<pathname, cpc, got, pos, readError>> /\ child' = [child EXCEPT ![c] = "zombie"]
  BY Answers
<1>2. /\ queue \in [Clients -> Seq(Messages) \cup {NoQueue}]
      /\ child \in [Clients -> {"none", "open", "fail", "read", "send", "end", "zombie", "reaped"}]
  BY DEF IInv, Values
<1>3. /\ Content(c) \in Seq(Nat) /\ cpc[c] # "done" /\ Content(c)' = Content(c) /\ child'[c] = "zombie"
      /\ queue[c] # NoQueue => /\ DataFrom(c, Len(queue[c])) /\ Len(got[c]) + Len(queue[c]) = pos[c]
                               /\ Len(queue[c]) <= QMax /\ AllRead(c)
  BY <1>1, <1>2, OfClient DEF Stream, Received, Content
<1>4. Received(c)'
  BY <1>1, <1>3, OfClient DEF Received
<1>5. CASE queue[c] = NoQueue /\ queue' = queue
  BY <1>3, <1>4, <1>5, Zenon DEF Stream
<1>6. CASE queue[c] # NoQueue /\ queue' = [queue EXCEPT ![c] = Append(@, END)]
  <2> DEFINE n == Len(got[c])
             len == Len(queue[c])
  <2>1. queue[c] \in Seq(Messages) /\ queue'[c] = Append(queue[c], END) /\ END \in Messages
    BY <1>2, <1>6, MessagesDiffer
  <2>2. /\ Len(queue'[c]) = len + 1 /\ queue'[c][len + 1] = END /\ len \in Nat
        /\ \A i \in 1..len : queue'[c][i] = queue[c][i]
    BY <2>1
  <2>3. len <= QMax /\ n \in Nat /\ n + len = pos[c] /\ n = Len(got[c])
    BY <1>3, <1>6, OfClient, Zenon
  <2>4. \A i \in 1..len : queue[c][i] = DATA(Content(c)[n + i])
    BY <1>3, <1>6, Zenon DEF DataFrom
  <2> HIDE DEF n, len
  <2>5. (len + 1) - 1 = len /\ n + (len + 1) - 1 = n + len /\ len + 1 \in 1..(QMax + 1)
    BY <2>2, <2>3, ConstantFacts
  <2>6. DataFrom(c, Len(queue[c]) - 1)'
    BY <1>1, <1>3, <2>2, <2>3, <2>4, <2>5, Zenon DEF DataFrom, DATA
  <2>7. Len(got'[c]) + Len(queue'[c]) - 1 = pos'[c] /\ Len(queue'[c]) \in 1..(QMax + 1)
    BY <1>1, <2>2, <2>3, <2>5, Zenon
  <2>8. AllRead(c)'
    BY <1>1, <1>3, <1>6, Zenon DEF AllRead
  <2> QED
    BY <1>3, <1>4, <2>2, <2>6, <2>7, <2>8 DEF Stream
<1> QED
  BY <1>5, <1>6, Answers

\* Every step keeps every client's queue, child and data in agreement.
LEMMA StreamStep ==
  ASSUME Assumption, IInv, Next
  PROVE  \A o \in Clients : Stream(o)' /\ Received(o)'
<1> USE DEF clientVars, serverVars, childVars
<1>1. /\ cpc \in [Clients -> {"start", "send", "receive"} \cup Ended] /\ got \in [Clients -> Seq(Nat)]
      /\ child \in [Clients -> {"none", "open", "fail", "read", "send", "end", "zombie", "reaped"}]
      /\ queue \in [Clients -> Seq(Messages) \cup {NoQueue}] /\ pos \in [Clients -> Nat]
  BY DEF IInv, Values
<1>2. ASSUME NEW c \in Clients, Stream(c)' /\ Received(c)', pathname' = pathname,
             \A o \in Clients \ {c} : /\ child'[o] = child[o] /\ queue'[o] = queue[o] /\ got'[o] = got[o] /\ pos'[o] = pos[o]
                                      /\ o \in readError' <=> o \in readError
                                      /\ cpc'[o] = cpc[o]
      PROVE  \A o \in Clients : Stream(o)' /\ Received(o)'
  BY <1>2, SameStream, OfClient
<1>3. ASSUME UNCHANGED <<pathname, child, queue, got, pos, readError>>, \A o \in Clients : cpc'[o] = "done" => cpc[o] = "done"
      PROVE  \A o \in Clients : Stream(o)' /\ Received(o)'
  BY <1>3, SameStream, OfClient
<1>4. CASE SMsgget \/ SMsgrcv \/ SForkFails \/ SHandler
  BY <1>3, <1>4 DEF SMsgget, SMsgrcv, SForkFails, SHandler
<1>5. CASE SFork
  <2>1. child' = [child EXCEPT ![req] = "open"] /\ UNCHANGED <<pathname, cpc, got, queue, pos, readError>>
    BY <1>5 DEF SFork
  <2>2. req \in Clients /\ child[req] = "none"
    BY <1>5 DEF SFork, IInv, Requested, Asked
  <2>3. child'[req] = "open" /\ \A o \in Clients \ {req} : child'[o] = child[o]
    BY <1>1, <2>1, <2>2
  <2>4. \A c \in Clients : child[c] = "none" /\ child'[c] = "open" => Stream(c)' /\ Received(c)'
    BY <2>1, OfClient, Zenon DEF Stream, Received, Nothing, Content
  <2> QED
    BY <1>2, <2>1, <2>2, <2>3, <2>4
<1>6. CASE GrimReaper
  <2>1. UNCHANGED <<pathname, cpc, got, queue, pos, readError>>
    BY <1>6 DEF GrimReaper
  <2>2. CASE child' = child
    BY <1>3, <2>1, <2>2
  <2>3. ASSUME NEW c \in Zombies, child' = [child EXCEPT ![c] = "reaped"]
        PROVE  \A o \in Clients : Stream(o)' /\ Received(o)'
    <3>1. c \in Clients /\ child[c] = "zombie" /\ child'[c] = "reaped" /\ \A o \in Clients \ {c} : child'[o] = child[o]
      BY <1>1, <2>3 DEF Zombies
    <3>2. Received(c)'
      BY <2>1, <3>1, OfClient DEF Received, Content
    <3>3. Stream(c)'
      BY <2>1, <3>1, OfClient, Zenon DEF Stream, Nothing, Content, DataFrom, AllRead
    <3> QED
      BY <1>2, <2>1, <3>1, <3>2, <3>3
  <2> QED
    BY <1>6, <2>2, <2>3, Zenon DEF GrimReaper
<1>7. ASSUME NEW c \in Clients, CExit(c, "failed") \/ CExit(c, "done"),
             UNCHANGED <<pathname, got, child, pos, readError>>, Stream(c)' /\ Received(c)'
      PROVE  \A o \in Clients : Stream(o)' /\ Received(o)'
  <2>1. \A o \in Clients \ {c} : cpc'[o] = cpc[o] /\ queue'[o] = queue[o]
    BY <1>1, <1>7 DEF CExit
  <2> QED
    BY <1>2, <1>7, <2>1, Zenon
<1>8. ASSUME NEW c \in Clients, CExit(c, "failed"), UNCHANGED <<pathname, got, child, pos, readError>>
      PROVE  \A o \in Clients : Stream(o)' /\ Received(o)'
  <2>1. queue'[c] = NoQueue /\ cpc'[c] = "failed"
    BY <1>1, <1>8 DEF CExit, Ended
  <2> QED
    BY <1>7, <1>8, <2>1, Leaves
<1>9. ASSUME NEW c \in Clients, CMsgget(c) PROVE \A o \in Clients : Stream(o)' /\ Received(o)'
  <2>1. cpc[c] = "start" /\ UNCHANGED <<pathname, got, child, pos, readError>>
    BY <1>9, Asks
  <2>2. CASE queue' = [queue EXCEPT ![c] = <<>>] /\ cpc' = [cpc EXCEPT ![c] = "send"]
    <3>1. /\ queue'[c] = <<>> /\ cpc'[c] = "send" /\ child[c] = "none"
          /\ \A o \in Clients \ {c} : cpc'[o] = cpc[o] /\ queue'[o] = queue[o]
      BY <1>1, <2>1, <2>2 DEF IInv, Requested
    <3>2. Stream(c)' /\ Received(c)'
      BY <2>1, <3>1, OfClient, Zenon DEF Stream, Received, Nothing, Content
    <3> QED
      BY <1>2, <2>1, <3>1, <3>2
  <2> QED
    BY <1>8, <1>9, <2>1, <2>2, Asks
<1>10. ASSUME NEW c \in Clients, CSend(c) PROVE \A o \in Clients : Stream(o)' /\ Received(o)'
  <2>1. UNCHANGED <<pathname, got, child, pos, readError>>
    BY <1>10, Asks
  <2>2. CASE cpc' = [cpc EXCEPT ![c] = "receive"] /\ queue' = queue
    BY <1>1, <1>3, <2>1, <2>2
  <2> QED
    BY <1>8, <1>10, <2>1, <2>2, Asks
<1>11. ASSUME NEW c \in Clients, CReceive(c) PROVE \A o \in Clients : Stream(o)' /\ Received(o)'
  <2>1. cpc[c] = "receive" /\ queue[c] # <<>> /\ queue[c] # NoQueue /\ UNCHANGED <<pathname, child, pos, readError>>
    BY <1>11, Receives DEF IInv, Queues
  <2>2. CASE Head(queue[c]) = FAILURE /\ CExit(c, "failed") /\ got' = got
    BY <1>8, <2>1, <2>2
  <2>3. CASE Head(queue[c]) = END /\ CExit(c, "done") /\ got' = got
    <3>1. queue'[c] = NoQueue
      BY <1>1, <2>3 DEF CExit
    <3>2. Stream(c)' /\ Received(c)'
      BY <2>1, <2>3, <3>1, GetsEnd
    <3> QED
      BY <1>7, <2>1, <2>3, <3>2
  <2>4. CASE /\ Head(queue[c]) # FAILURE /\ Head(queue[c]) # END /\ cpc' = cpc
             /\ got' = [got EXCEPT ![c] = Append(@, Head(queue[c])[2])]
             /\ queue' = [queue EXCEPT ![c] = Tail(@)]
    <3>1. /\ got'[c] = Append(got[c], Head(queue[c])[2]) /\ queue'[c] = Tail(queue[c])
          /\ \A o \in Clients \ {c} : got'[o] = got[o] /\ queue'[o] = queue[o]
      BY <1>1, <2>4
    <3>2. Stream(c)' /\ Received(c)'
      BY <2>1, <2>4, <3>1, Gets
    <3> QED
      BY <1>2, <2>1, <2>4, <3>1, <3>2
  <2> QED
    BY <1>11, <2>2, <2>3, <2>4, Receives
<1>12. ASSUME NEW c \in Clients, CReceiveFails(c) \/ CKilled(c)
       PROVE  \A o \in Clients : Stream(o)' /\ Received(o)'
  <2>1. CASE CReceiveFails(c)
    BY <1>8, <2>1 DEF CReceiveFails
  <2>2. CASE CKilled(c)
    BY <1>1, <1>3, <2>2 DEF CKilled
  <2> QED
    BY <1>12, <2>1, <2>2
<1>13. ASSUME NEW c \in Clients, Child(c) PROVE \A o \in Clients : Stream(o)' /\ Received(o)'
  <2>1. Stream(c)' /\ Received(c)'
    BY <1>13, Opens, Fails, Reads, Sends, Ends DEF Child
  <2>2. UNCHANGED <<pathname, cpc, got>>
    BY <1>13, Answers DEF Child, ChOpen, ChRead
  <2>3. \A o \in Clients \ {c} : /\ child'[o] = child[o] /\ queue'[o] = queue[o] /\ pos'[o] = pos[o]
                                 /\ o \in readError' <=> o \in readError
    <3>1. CASE ChOpen(c) \/ ChRead(c)
      BY <1>1, <3>1 DEF ChOpen, ChRead, ChGoto
    <3> QED
      BY <1>1, <1>13, <3>1, Answers, Zenon DEF Child
  <2> QED
    BY <1>2, <2>1, <2>2, <2>3
<1> QED
  BY <1>4, <1>5, <1>6, <1>9, <1>10, <1>11, <1>12, <1>13 DEF Next, Server, Client

\* Every step of the clients, the server and its children keeps the invariant.
LEMMA Steps == Assumption /\ IInv /\ [Next]_vars => IInv'
<1> SUFFICES ASSUME Assumption, IInv, [Next]_vars PROVE IInv'
  OBVIOUS
<1>1. CASE UNCHANGED vars
  <2>1. UNCHANGED <<pathname, cpc, got, queue, serverQueue, spc, req, child, pos, readError>>
    BY <1>1 DEF vars, clientVars, serverVars, childVars
  <2>2. Values' /\ Queues'
    BY <2>1 DEF IInv, Values, Queues
  <2>3. Requested'
    BY <2>1 DEF IInv, Requested, Asked
  <2>4. \A c \in Clients : Stream(c)' /\ Received(c)'
    BY <2>1, SameStream, OfClient
  <2> QED
    BY <2>2, <2>3, <2>4 DEF IInv
<1>2. CASE Next
  BY <1>2, ValuesStep, ProtocolStep, StreamStep DEF IInv
<1> QED
  BY <1>1, <1>2

\* The invariant holds at the start.
LEMMA Starts == Init => IInv
<1> SUFFICES ASSUME Init PROVE IInv
  OBVIOUS
<1>1. Values
  BY DEF Init, Values, Ended
<1>2. Queues /\ Requested
  BY DEF Init, Queues, Requested
<1>3. \A c \in Clients : Stream(c) /\ Received(c)
  BY DEF Init, Stream, Received, Nothing
<1> QED
  BY <1>1, <1>2, <1>3 DEF IInv

\* Sequences of the same length with the same elements.
LEMMA SameSequence ==
  ASSUME NEW s \in Seq(Nat), NEW t \in Seq(Nat), Len(s) = Len(t), \A i \in 1..Len(s) : s[i] = t[i]
  PROVE  s = t
<1>1. s = [i \in 1..Len(s) |-> s[i]] /\ t = [i \in 1..Len(t) |-> t[i]]
  OBVIOUS
<1> QED
  BY <1>1

\* It says what the server promises.
LEMMA Holds == Assumption /\ IInv => TypeOK /\ Delivered /\ NoQueueLeft
<1> SUFFICES ASSUME Assumption, IInv PROVE TypeOK /\ Delivered /\ NoQueueLeft
  OBVIOUS
<1>1. NoQueueLeft
  BY DEF IInv, Queues, NoQueueLeft
<1>2. ASSUME NEW c \in Clients, got[c] # <<>>
      PROVE  Len(got[c]) <= Len(Content(c)) /\ got[c] = SubSeq(Content(c), 1, Len(got[c]))
  <2>1. /\ got[c] \in Seq(Nat) /\ Len(got[c]) \in Nat /\ pos[c] \in Nat /\ Len(got[c]) <= pos[c]
        /\ \A i \in 1..Len(got[c]) : got[c][i] = Content(c)[i]
        /\ pos[c] > 0 => Content(c) \in Seq(Nat) /\ pos[c] <= Len(Content(c))
    BY OfClient DEF Received
  <2>2. Len(got[c]) > 0
    BY <1>2, <2>1
  <2>3. Content(c) \in Seq(Nat) /\ Len(got[c]) <= Len(Content(c)) /\ Len(Content(c)) \in Nat
    <3>1. pos[c] > 0
      BY <2>1, <2>2
    <3> QED
      BY <2>1, <3>1
  <2>4. /\ SubSeq(Content(c), 1, Len(got[c])) \in Seq(Nat)
        /\ Len(SubSeq(Content(c), 1, Len(got[c]))) = Len(got[c])
        /\ \A i \in 1..Len(got[c]) : SubSeq(Content(c), 1, Len(got[c]))[i] = Content(c)[i]
    BY <2>1, <2>2, <2>3
  <2> QED
    BY <2>1, <2>3, <2>4, SameSequence
<1>3. ASSUME NEW c \in Clients, cpc[c] = "done", c \notin readError PROVE got[c] = Content(c)
  <2>1. /\ Content(c) \in Seq(Nat) /\ Len(got[c]) = Len(Content(c)) /\ got[c] \in Seq(Nat)
        /\ \A i \in 1..Len(got[c]) : got[c][i] = Content(c)[i]
    BY <1>3, OfClient DEF Received
  <2> QED
    BY <2>1, SameSequence
<1>4. TypeOK
  <2>1. Values /\ Requested
    BY DEF IInv
  <2>2. ASSUME NEW c \in Clients, queue[c] # NoQueue PROVE Len(queue[c]) <= QMax + 1
    <3>1. Len(queue[c]) \in Nat /\ QMax \in Nat \ {0} /\ Stream(c)
      BY <2>2, OfClient, ConstantFacts
    <3>2. CASE queue[c] = <<>> \/ queue[c] = <<FAILURE>>
      <4>1. Len(<<>>) = 0 /\ Len(<<FAILURE>>) = 1
        OBVIOUS
      <4>2. 0 <= QMax + 1 /\ 1 <= QMax + 1
        BY <3>1
      <4> QED
        BY <3>2, <4>1, <4>2, Zenon
    <3>3. CASE Len(queue[c]) <= QMax \/ Len(queue[c]) \in 1..(QMax + 1)
      BY <3>1, <3>3
    <3> QED
      BY <2>1, <2>2, <3>1, <3>2, <3>3 DEF Stream, Values
  <2>3. \A c \in Clients : pos[c] > 0 => pos[c] <= Len(Content(c))
    BY OfClient DEF Received
  <2>4. spc = "fork" <=> req # Nobody /\ spc # "gone"
    BY <2>1, ConstantFacts DEF Requested, Values
  <2> QED
    BY <2>1, <2>2, <2>3, <2>4 DEF TypeOK, Values
<1> QED
  BY <1>1, <1>2, <1>3, <1>4 DEF Delivered
=============================================================================
