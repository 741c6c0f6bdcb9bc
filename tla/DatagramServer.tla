--------------------------- MODULE DatagramServer ---------------------------
(***************************************************************************)
(* src/sockets: servers that answer each datagram, and clients that send   *)
(* one for each argument and wait for the answer: ud_ucase_{sv,cl}.c on    *)
(* UNIX domain sockets, which are reliable; i6d_ucase_{sv,cl}.c and        *)
(* id_echo_{sv,cl}.c on UDP, which loses, duplicates and reorders.         *)
(***************************************************************************)
EXTENDS Naturals, Sequences, FiniteSets

CONSTANTS Clients,
          Args,        \* the possible command lines: sequences of lengths of messages
          BUF_SIZE, MaxDup, Nobody

VARIABLES kind,        \* "ud_ucase", "i6d_ucase" or "id_echo"
          spc, buf, sbox,
          cpc, args, j, cbox, printed,
          lost, dup    \* what the network has done: clients bereft of a datagram; duplicates

vars == <<kind, spc, buf, sbox, cpc, args, j, cbox, printed, lost, dup>>

Unix == kind = "ud_ucase"
NoData == [n |-> 0, len |-> 0, upper |-> FALSE, from |-> Nobody]
Over == {"done", "failed", "killed"}
Truncated(len) == IF len > BUF_SIZE THEN BUF_SIZE ELSE len

Init ==
  /\ kind \in {"ud_ucase", "i6d_ucase", "id_echo"} /\ args \in [Clients -> Args]
  /\ spc = "recvfrom" /\ buf = NoData /\ sbox = <<>>
  /\ cpc = [c \in Clients |-> "start"] /\ j = [c \in Clients |-> 0]
  /\ cbox = [c \in Clients |-> <<>>] /\ printed = [c \in Clients |-> <<>>]
  /\ lost = {} /\ dup = 0

\* The datagrams that recvfrom() may return next.
Arriving(box) == IF Unix THEN (IF box = <<>> THEN {} ELSE {1}) ELSE 1..Len(box)
Without(box, i) == SubSeq(box, 1, i - 1) \o SubSeq(box, i + 1, Len(box))
-----------------------------------------------------------------------------
(* The servers *)

RecvFrom ==
  /\ spc = "recvfrom"
  /\ \E i \in Arriving(sbox) :
       /\ buf' = [sbox[i] EXCEPT !.len = Truncated(@)]
       /\ sbox' = Without(sbox, i)
  /\ spc' = "sendto"
  /\ UNCHANGED <<kind, cpc, args, j, cbox, printed, lost, dup>>

Answer(text) == cbox' = [cbox EXCEPT ![buf.from] = Append(@, text)]
Continue == spc' = "recvfrom" /\ buf' = NoData

\* ud_ucase_sv: toupper() and sendto(), which fails if the client is gone: fatal().
UdReply ==
  /\ Unix /\ spc = "sendto"
  /\ IF cpc[buf.from] \in Over THEN spc' = "gone" /\ UNCHANGED <<buf, cbox>>
     ELSE Answer([buf EXCEPT !.upper = TRUE]) /\ Continue
  /\ UNCHANGED <<kind, sbox, cpc, args, j, printed, lost, dup>>

\* i6d_ucase_sv: the same, but nothing tells the server of a client that is gone.
I6dReply ==
  /\ kind = "i6d_ucase" /\ spc = "sendto"
  /\ Answer([buf EXCEPT !.upper = TRUE]) /\ Continue
  /\ UNCHANGED <<kind, sbox, cpc, args, j, printed, lost, dup>>

\* id_echo_sv: a copy; an error of sendto() is only logged.
EchoReply ==
  /\ kind = "id_echo" /\ spc = "sendto"
  /\ Answer(buf) /\ Continue
  /\ UNCHANGED <<kind, sbox, cpc, args, j, printed, lost, dup>>

UdServer == Unix /\ (RecvFrom \/ UdReply)
I6dServer == kind = "i6d_ucase" /\ (RecvFrom \/ I6dReply)
IdEchoServer == kind = "id_echo" /\ (RecvFrom \/ EchoReply)

Server == UdServer \/ I6dServer \/ IdEchoServer

ServerKilled ==
  /\ spc # "gone" /\ spc' = "gone" /\ UNCHANGED <<kind, buf, sbox, cpc, args, j, cbox, printed, lost, dup>>
-----------------------------------------------------------------------------
(* The clients: a loop over the arguments *)

Start(c) ==
  /\ cpc[c] = "start" /\ cpc' = [cpc EXCEPT ![c] = "send"] /\ j' = [j EXCEPT ![c] = 1]
  /\ UNCHANGED <<kind, spc, buf, sbox, args, cbox, printed, lost, dup>>

\* A datagram for the server: an error on a UNIX domain socket if the server is
\* gone; otherwise it is just not delivered.
Send(c, to) ==
  /\ cpc[c] = "send"
  /\ cpc' = [cpc EXCEPT ![c] = IF spc = "gone" /\ Unix THEN "failed" ELSE to]
  /\ sbox' = IF spc = "gone" THEN sbox
             ELSE Append(sbox, [n |-> j[c], len |-> args[c][j[c]], upper |-> FALSE, from |-> c])
  /\ UNCHANGED <<kind, spc, buf, args, j, cbox, printed, lost, dup>>

Received(c, i) ==
  /\ printed' = [printed EXCEPT ![c] = Append(@, [cbox[c][i] EXCEPT !.len = Truncated(@)])]
  /\ cbox' = [cbox EXCEPT ![c] = Without(@, i)]
  /\ IF j[c] = Len(args[c])
     THEN cpc' = [cpc EXCEPT ![c] = "done"] /\ UNCHANGED j
     ELSE cpc' = [cpc EXCEPT ![c] = "send"] /\ j' = [j EXCEPT ![c] = @ + 1]

\* ud_ucase_cl
UdClient(c) ==
  /\ Unix
  /\ \/ Send(c, "recv")
     \/ /\ cpc[c] = "recv" /\ \E i \in Arriving(cbox[c]) : Received(c, i)
        /\ UNCHANGED <<kind, spc, buf, sbox, args, lost, dup>>

\* i6d_ucase_cl: no error ever arrives on its unconnected socket.
I6dClient(c) ==
  /\ kind = "i6d_ucase"
  /\ \/ Send(c, "recv")
     \/ /\ cpc[c] = "recv" /\ \E i \in Arriving(cbox[c]) : Received(c, i)
        /\ UNCHANGED <<kind, spc, buf, sbox, args, lost, dup>>

\* id_echo_cl: its socket is connected, so that it learns of a server that is gone.
EchoClient(c) ==
  /\ kind = "id_echo"
  /\ \/ Send(c, "recv")
     \/ /\ cpc[c] = "recv" /\ \E i \in Arriving(cbox[c]) : Received(c, i)
        /\ UNCHANGED <<kind, spc, buf, sbox, args, lost, dup>>
     \/ /\ cpc[c] \in {"send", "recv"} /\ spc = "gone" /\ cpc' = [cpc EXCEPT ![c] = "failed"]
        /\ UNCHANGED <<kind, spc, buf, sbox, args, j, cbox, printed, lost, dup>>

Client(c) == UdClient(c) \/ I6dClient(c) \/ EchoClient(c)

Killed(c) ==
  /\ cpc[c] \in {"send", "recv"} /\ cpc' = [cpc EXCEPT ![c] = "killed"]
  /\ UNCHANGED <<kind, spc, buf, sbox, args, j, cbox, printed, lost, dup>>
-----------------------------------------------------------------------------
(* The network *)

Lose ==
  /\ ~Unix
  /\ \/ \E i \in 1..Len(sbox) :
          sbox' = Without(sbox, i) /\ lost' = lost \cup {sbox[i].from} /\ UNCHANGED cbox
     \/ \E c \in Clients : \E i \in 1..Len(cbox[c]) :
          cbox' = [cbox EXCEPT ![c] = Without(@, i)] /\ lost' = lost \cup {c} /\ UNCHANGED sbox
  /\ UNCHANGED <<kind, spc, buf, cpc, args, j, printed, dup>>

Duplicate ==
  /\ ~Unix /\ dup < MaxDup /\ dup' = dup + 1
  /\ \/ \E i \in 1..Len(sbox) : sbox' = Append(sbox, sbox[i]) /\ UNCHANGED cbox
     \/ \E c \in Clients : \E i \in 1..Len(cbox[c]) :
          cbox' = [cbox EXCEPT ![c] = Append(@, cbox[c][i])] /\ UNCHANGED sbox
  /\ UNCHANGED <<kind, spc, buf, cpc, args, j, printed, lost>>

Next == Server \/ ServerKilled \/ Lose \/ Duplicate \/ \E c \in Clients : Start(c) \/ Client(c) \/ Killed(c)

Spec == Init /\ [][Next]_vars
-----------------------------------------------------------------------------
\* The values of the variables: a client has at most one request under way, and a
\* duplicate of it for each that the network made.
TypeOK ==
  \A c \in Clients :
    /\ j[c] \in 0..Len(args[c]) /\ Len(printed[c]) <= j[c]
    /\ Len(cbox[c]) + Cardinality({i \in 1..Len(sbox) : sbox[i].from = c}) <= 1 + dup

\* "displays the contents of the server's response datagram": response k is the
\* answer to argument k, converted and cut to BUF_SIZE bytes.  On UDP that takes a
\* network that does not duplicate: neither side numbers its datagrams, and what
\* holds then is only that it answers an argument sent so far.
ResponsesMatch ==
  \A c \in Clients : \A k \in 1..Len(printed[c]) :
    LET p == printed[c][k] IN
    /\ p.from = c /\ p.n <= k /\ (Unix \/ dup = 0 => p.n = k)
    /\ p.len = Truncated(args[c][p.n]) /\ p.upper = (kind # "id_echo")
=============================================================================
