---------------------------- MODULE SeqnumServer ----------------------------
(***************************************************************************)
(* src/sockets: the iterative stream servers that hand out sequence        *)
(* numbers, and their clients.  is_seqnum_{sv,cl}.c and is_seqnum_v2_*.c   *)
(* (on inet_sockets.c) read a line with the length wanted; in              *)
(* us_seqnum_single_{sv,cl}.c a connection alone is the request.           *)
(***************************************************************************)
EXTENDS Integers, Sequences, FiniteSets

CONSTANTS Clients,
          Requests,    \* command-line arguments: digits, and 11 for another character
          INT_LEN,     \* the size of the buffers for lines
          Modulus,     \* 2^32
          Addresses,   \* what getaddrinfo() returns, in the server's order
          Usable,      \* sets of positions in it at which bind() may succeed
          Nobody

VARIABLES kind,        \* "line": is_seqnum; "single": us_seqnum_single
          usable,      \* the addresses to which bind() succeeds
          bound,       \* the position of the server's address, or 0
          spc, cfd, pending, seqNum, line,
          cpc, try, arg, sent, answer

server == <<bound, spc, cfd, pending, seqNum, line>>
client == <<cpc, try, arg, sent, answer>>
vars == <<kind, usable, server, client>>

Newline == 10
NoAnswer == -Modulus
Ended == {"done", "failed", "killed"}
\* A UNIX domain socket has one address.
Tries == IF kind = "line" THEN Len(Addresses) ELSE 1

Init ==
  /\ kind \in {"line", "single"} /\ usable \in (IF kind = "line" THEN Usable ELSE {{}, {1}})
  /\ bound = 0 /\ spc = "bind" /\ cfd = Nobody /\ pending = <<>> /\ line = <<>>
  /\ seqNum \in (IF kind = "line" THEN {0, Modulus - 2} ELSE {0})
  /\ cpc = [c \in Clients |-> "start"] /\ try = [c \in Clients |-> 1]
  /\ arg \in [Clients -> IF kind = "line" THEN Requests ELSE {<<1>>}]
  /\ sent = [c \in Clients |-> <<>>] /\ answer = [c \in Clients |-> NoAnswer]

-----------------------------------------------------------------------------
(* The server *)

\* inetPassiveSocket(): the first address that can be bound to; listen().
Listen ==
  /\ spc = "bind"
  /\ IF usable = {} THEN spc' = "gone" /\ UNCHANGED bound
     ELSE spc' = "accept" /\ bound' \in {i \in usable : \A k \in usable : i <= k}
  /\ UNCHANGED <<kind, usable, cfd, pending, seqNum, line, client>>

Accept ==
  /\ spc = "accept" /\ pending # <<>>
  /\ cfd' = Head(pending) /\ pending' = Tail(pending)
  /\ spc' = IF kind = "line" THEN "read" ELSE "write"
  /\ UNCHANGED <<kind, usable, bound, seqNum, line, client>>

\* readLine(): the characters up to a newline or the end of the connection, of
\* which the first INT_LEN - 1 are kept.
Complete(c) == Newline \in {sent[c][i] : i \in 1..Len(sent[c])} \/ cpc[c] \in Ended
ReadLine(text) == SubSeq(text, 1, IF Len(text) < INT_LEN - 1 THEN Len(text) ELSE INT_LEN - 1)

\* atoi(): the value of the leading digits.
Atoi(text) ==
  LET value[i \in 0..Len(text)] == IF i = 0 THEN 0 ELSE 10 * value[i - 1] + text[i]
      digits == {i \in 0..Len(text) : \A k \in 1..i : text[k] \in 0..9}
  IN  value[CHOOSE i \in digits : \A k \in digits : k <= i]

Close == cfd' = Nobody /\ spc' = "accept"

\* The request: an empty one, or one for no number, is skipped.
ReadRequest ==
  /\ spc = "read" /\ Complete(cfd)
  /\ LET text == ReadLine(sent[cfd]) IN
     IF text = <<>> \/ Atoi(text) <= 0 THEN Close /\ UNCHANGED line
     ELSE line' = text /\ spc' = "write" /\ UNCHANGED cfd
  /\ UNCHANGED <<kind, usable, bound, pending, seqNum, client>>

\* What "%d" makes of an unsigned number.
Signed(n) == IF n >= Modulus \div 2 THEN n - Modulus ELSE n

\* Mutant of Amount: one number for any request.
AmountOne == 1

Amount == IF kind = "line" THEN Atoi(line) ELSE 1

\* write() of the number (SIGPIPE is ignored, an error only reported), and close().
Reply ==
  /\ spc = "write"
  /\ answer' = IF cpc[cfd] \in Ended THEN answer ELSE [answer EXCEPT ![cfd] = Signed(seqNum)]
  /\ seqNum' = (seqNum + Amount) % Modulus
  /\ line' = <<>> /\ Close
  /\ UNCHANGED <<kind, usable, bound, pending, cpc, try, arg, sent>>

\* The main() of is_seqnum_v2_sv and of us_seqnum_single_sv.
LineServer == kind = "line" /\ (Listen \/ Accept \/ ReadRequest \/ Reply)
SingleServer == kind = "single" /\ (Listen \/ Accept \/ Reply)

Server == LineServer \/ SingleServer

ServerKilled ==
  /\ spc # "gone" /\ spc' = "gone"
  /\ UNCHANGED <<kind, usable, bound, cfd, pending, seqNum, line, client>>
-----------------------------------------------------------------------------
(* The clients *)

Step(c, from, to) == cpc[c] = from /\ cpc' = [cpc EXCEPT ![c] = to]

\* inetConnect(): the addresses of the host, here in the opposite order, until a
\* connect() succeeds.
Start(c) ==
  /\ Step(c, "start", "connect")
  /\ UNCHANGED <<kind, usable, server, try, arg, sent, answer>>

Connect(c) ==
  /\ cpc[c] = "connect"
  /\ IF bound # 0 /\ spc # "gone" /\ try[c] = Tries + 1 - bound
     THEN Step(c, "connect", IF kind = "line" THEN "length" ELSE "read") /\ pending' = Append(pending, c) /\ UNCHANGED try
     ELSE /\ try' = [try EXCEPT ![c] = @ + 1] /\ UNCHANGED pending
          /\ IF try[c] = Tries THEN Step(c, "connect", "failed") ELSE UNCHANGED cpc
  /\ UNCHANGED <<kind, usable, bound, spc, cfd, seqNum, line, arg, sent, answer>>

\* Two write()s: the argument, then the newline.  SIGPIPE if the server is gone.
Write(c, from, to, text) ==
  /\ IF spc = "gone" THEN Step(c, from, "killed") /\ UNCHANGED sent
     ELSE Step(c, from, to) /\ sent' = [sent EXCEPT ![c] = @ \o text]
  /\ UNCHANGED <<kind, usable, server, try, arg, answer>>
WriteLength(c) == Write(c, "length", "newline", arg[c])
WriteNewline(c) == Write(c, "newline", "read", <<Newline>>)

\* readLine() or read(): the number, or end of file once the connection is closed.
Closed(c) == spc = "gone" \/ (cfd # c /\ \A i \in 1..Len(pending) : pending[i] # c)
Read(c) ==
  /\ \/ answer[c] # NoAnswer /\ Step(c, "read", "done")
     \/ answer[c] = NoAnswer /\ Closed(c) /\ Step(c, "read", "failed")
  /\ UNCHANGED <<kind, usable, server, try, arg, sent, answer>>

\* The main() of is_seqnum_v2_cl and of us_seqnum_single_cl.
LineClient(c) == kind = "line" /\ (Connect(c) \/ WriteLength(c) \/ WriteNewline(c) \/ Read(c))
SingleClient(c) == kind = "single" /\ (Connect(c) \/ Read(c))

Client(c) == LineClient(c) \/ SingleClient(c)

Killed(c) ==
  /\ cpc[c] \in {"connect", "length", "newline", "read"} /\ cpc' = [cpc EXCEPT ![c] = "killed"]
  /\ UNCHANGED <<kind, usable, server, try, arg, sent, answer>>

Next == Server \/ ServerKilled \/ \E c \in Clients : Start(c) \/ Client(c) \/ Killed(c)

Spec == Init /\ [][Next]_vars
-----------------------------------------------------------------------------
\* The values of the variables: only a client with a connection is served.
TypeOK ==
  /\ seqNum \in 0..Modulus-1 /\ bound \in {0} \cup usable
  /\ spc \in {"read", "write"} => cfd \in Clients /\ cpc[cfd] # "connect"

\* "provide unique sequence numbers to clients": the blocks of numbers given to two
\* clients that display them are disjoint, also where the counter wraps, although the
\* server counts on for clients that died and takes a line that has no end.
Shown(c) == {(answer[c] + k) % Modulus : k \in 0..(IF kind = "line" THEN Atoi(ReadLine(arg[c])) ELSE 1) - 1}
NumbersUnique ==
  \A c, d \in Clients : c # d /\ cpc[c] = "done" /\ cpc[d] = "done" => Shown(c) \cap Shown(d) = {}
=============================================================================
