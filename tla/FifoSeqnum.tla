----------------------------- MODULE FifoSeqnum -----------------------------
(***************************************************************************)
(* src/pipes/fifo_seqnum_server.c and fifo_seqnum_client.c: an iterative   *)
(* server that hands out sequence numbers over FIFOs.  A client is known   *)
(* by its process ID, which names its FIFO; a process ID may come back.    *)
(***************************************************************************)
EXTENDS Naturals, Sequences

CONSTANTS Pids,
          Lens,        \* values of the seq-len argument
          IntRange,    \* numbers that an int counts before it wraps
          MaxRuns,     \* clients that one process ID may get
          None

VARIABLES cpc,         \* pid -> where the client is
          runs,        \* pid -> clients it was given to
          seqLen,      \* pid -> its request
          fifo,        \* pid -> its FIFO (the run that made it), or 0
          reply,       \* pid -> what its FIFO holds, or None
          serverFifo,  \* the well-known FIFO exists
          requests,    \* what it holds
          spc, req,    \* where the server is, and the request it has read
          clientFifo,  \* the FIFO that its open() has found
          seqNum,
          wrapped,     \* seqNum has wrapped
          granted      \* the sequences that clients have displayed

cvars == <<cpc, runs, seqLen, granted>>
svars == <<spc, req, clientFifo, seqNum, wrapped, serverFifo>>
vars == <<cvars, fifo, reply, requests, svars>>

Sequence(first, len) == {(first + i) % IntRange : i \in 0..(len - 1)}

Init ==
  /\ cpc = [p \in Pids |-> "none"] /\ runs = [p \in Pids |-> 0]
  /\ seqLen = [p \in Pids |-> None]
  /\ fifo = [p \in Pids |-> 0] /\ reply = [p \in Pids |-> None]
  /\ serverFifo = FALSE /\ requests = <<>>
  /\ spc = "mkfifo" /\ req = None /\ clientFifo = 0 /\ seqNum = 0 /\ wrapped = FALSE
  /\ granted = {}

-----------------------------------------------------------------------------
(* The client *)

Goto(p, to) == cpc' = [cpc EXCEPT ![p] = to]

\* exit() runs removeFifo().
CExit(p, how) == Goto(p, how) /\ fifo' = [fifo EXCEPT ![p] = 0]

\* Mutant of CMkfifo: the FIFO is not there when the request is read.
CMkfifoLate(p) ==
  /\ cpc[p] = "none" /\ runs[p] < MaxRuns
  /\ runs' = [runs EXCEPT ![p] = @ + 1]
  /\ \E n \in Lens : seqLen' = [seqLen EXCEPT ![p] = n]
  /\ Goto(p, "connect")
  /\ UNCHANGED <<fifo, reply, requests, granted, svars>>

\* mkfifo() takes a FIFO that is there already.
CMkfifo(p) ==
  /\ cpc[p] \in {"none", "killed", "failed", "done"} /\ runs[p] < MaxRuns
  /\ runs' = [runs EXCEPT ![p] = @ + 1]
  /\ fifo' = [fifo EXCEPT ![p] = IF @ = 0 THEN runs'[p] ELSE @]
  /\ \E n \in Lens : seqLen' = [seqLen EXCEPT ![p] = n]
  /\ Goto(p, "connect")
  /\ UNCHANGED <<reply, requests, granted, svars>>

\* open() of the server's FIFO: it waits for a reader.
CConnect(p) ==
  /\ cpc[p] = "connect"
  /\ IF serverFifo THEN Goto(p, "connecting") /\ UNCHANGED fifo ELSE CExit(p, "failed")
  /\ UNCHANGED <<runs, seqLen, granted, reply, requests, svars>>

CWrite(p) ==
  /\ cpc[p] = "connecting" /\ spc \notin {"mkfifo", "open"}
  /\ requests' = Append(requests, [pid |-> p, seqLen |-> seqLen[p]])
  /\ Goto(p, "open")
  /\ UNCHANGED <<runs, seqLen, granted, fifo, reply, svars>>

\* open() of its own FIFO: the client is a reader from here on.
COpen(p) ==
  /\ cpc[p] = "open" /\ Goto(p, "read")
  /\ UNCHANGED <<runs, seqLen, granted, fifo, reply, requests, svars>>

\* open() fails and errExit() calls exit().
COpenFails(p) ==
  /\ cpc[p] = "open" /\ CExit(p, "failed")
  /\ UNCHANGED <<runs, seqLen, granted, reply, requests, svars>>

\* open() has found a writer and read() its response.
CRead(p) ==
  /\ cpc[p] = "read" /\ reply[p] # None
  /\ granted' = granted \cup {<<p, runs[p], Sequence(reply[p], seqLen[p])>>}
  /\ reply' = [reply EXCEPT ![p] = None]
  /\ CExit(p, "done")
  /\ UNCHANGED <<runs, seqLen, requests, svars>>

\* A client that a signal kills leaves its FIFO, and what it held is lost.
CKilled(p) ==
  /\ cpc[p] \in {"connect", "connecting", "open", "read"}
  /\ Goto(p, "killed") /\ reply' = [reply EXCEPT ![p] = None]
  /\ UNCHANGED <<runs, seqLen, granted, fifo, requests, svars>>

Client(p) == CConnect(p) \/ CWrite(p) \/ COpen(p) \/ CRead(p)

-----------------------------------------------------------------------------
(* The server *)

SMkfifo ==
  /\ spc = "mkfifo"
  /\ serverFifo' = TRUE /\ spc' = "open"
  /\ UNCHANGED <<cvars, fifo, reply, requests, req, clientFifo, seqNum, wrapped>>

\* open() waits for a first writer; a second descriptor then keeps the FIFO open.
SOpen ==
  /\ spc = "open" /\ \E p \in Pids : cpc[p] = "connecting"
  /\ spc' = "read"
  /\ UNCHANGED <<cvars, fifo, reply, requests, req, clientFifo, seqNum, wrapped, serverFifo>>

SRead ==
  /\ spc = "read" /\ requests # <<>>
  /\ req' = Head(requests) /\ requests' = Tail(requests)
  /\ spc' = "lookup"
  /\ UNCHANGED <<cvars, fifo, reply, clientFifo, seqNum, wrapped, serverFifo>>

\* open() of the client's FIFO, first half: does it exist?
SLookup ==
  /\ spc = "lookup"
  /\ clientFifo' = fifo[req.pid]
  /\ spc' = IF clientFifo' = 0 THEN "read" ELSE "wait"
  /\ UNCHANGED <<cvars, fifo, reply, requests, req, seqNum, wrapped, serverFifo>>

\* Second half: it waits until the FIFO has a reader.
SWait ==
  /\ spc = "wait" /\ fifo[req.pid] = clientFifo /\ cpc[req.pid] = "read"
  /\ spc' = "write"
  /\ UNCHANGED <<cvars, fifo, reply, requests, req, clientFifo, seqNum, wrapped, serverFifo>>

\* Mutant of SWrite: the counter is not advanced.
SWriteSame ==
  /\ spc = "write"
  /\ reply' = IF cpc[req.pid] = "read" THEN [reply EXCEPT ![req.pid] = seqNum] ELSE reply
  /\ spc' = "read"
  /\ UNCHANGED <<cvars, fifo, requests, req, clientFifo, seqNum, wrapped, serverFifo>>

\* The int wraps.  A write to a FIFO whose reader is gone fails, and the numbers are skipped.
SWrite ==
  /\ spc = "write"
  /\ reply' = IF cpc[req.pid] = "read" THEN [reply EXCEPT ![req.pid] = seqNum] ELSE reply
  /\ seqNum' = (seqNum + req.seqLen) % IntRange
  /\ wrapped' = (wrapped \/ seqNum + req.seqLen >= IntRange)
  /\ spc' = "read"
  /\ UNCHANGED <<cvars, fifo, requests, req, clientFifo, serverFifo>>

Server == SMkfifo \/ SOpen \/ SRead \/ SLookup \/ SWait \/ SWrite

-----------------------------------------------------------------------------
Next ==
  \/ Server
  \/ \E p \in Pids : Client(p) \/ CMkfifo(p) \/ COpenFails(p) \/ CKilled(p)

-----------------------------------------------------------------------------
TypeOK ==
  /\ \A p \in Pids : /\ cpc[p] \in {"none", "connect", "connecting", "open", "read",
                                    "killed", "failed", "done"}
                     /\ runs[p] \in 0..MaxRuns /\ fifo[p] \in 0..runs[p]
                     /\ reply[p] # None => cpc[p] = "read" /\ reply[p] \in 0..(IntRange - 1)
  /\ spc \in {"mkfifo", "open", "read", "lookup", "wait", "write"}
  /\ seqNum \in 0..(IntRange - 1)

\* "The "service" provided is the allocation of unique sequential numbers"
\* (fifo_seqnum_server.c): no number is displayed by two clients, as long as the
\* counter has not wrapped and no process ID has been used again.
Fresh == ~wrapped /\ \A p \in Pids : runs[p] <= 1
Disjoint == \A g, h \in granted : g = h \/ g[3] \cap h[3] = {}
Unique == Fresh => Disjoint

\* Clients that the server cannot answer: they ended between the request and
\* the moment they open their FIFO, or left no reader.
Deserted == \E p \in Pids : cpc[p] \in {"killed", "failed"} /\ spc = "wait" /\ req.pid = p
-----------------------------------------------------------------------------
Assumption == IntRange \in Nat \ {0} /\ MaxRuns \in Nat /\ Lens \subseteq Nat /\ None \notin Nat

Asking == {"open", "read", "killed", "failed", "done"}
Request == [pid : Pids, seqLen : Lens]
Serving == spc \in {"lookup", "wait", "write"}

\* The values of the variables, and where a response can be.
Values ==
  /\ cpc \in [Pids -> Asking \cup {"none", "connect", "connecting"}]
  /\ runs \in [Pids -> 0..MaxRuns] /\ fifo \in [Pids -> Nat] /\ \A p \in Pids : fifo[p] <= runs[p]
  /\ seqLen \in [Pids -> Lens \cup {None}] /\ reply \in [Pids -> 0..(IntRange - 1) \cup {None}]
  /\ requests \in Seq(Request) /\ req \in Request \cup {None}
  /\ spc \in {"mkfifo", "open", "read", "lookup", "wait", "write"} /\ seqNum \in 0..(IntRange - 1)
  /\ wrapped \in BOOLEAN /\ (Serving => req \in Request)
  /\ \A p \in Pids : /\ reply[p] # None => cpc[p] = "read"
                     /\ cpc[p] # "none" => runs[p] > 0 /\ seqLen[p] \in Lens

\* A request that the server has not answered: its client has no other, and no number.
Awaited(r) ==
  /\ cpc[r.pid] \in Asking /\ r.seqLen = seqLen[r.pid] /\ reply[r.pid] = None
  /\ \A g \in granted : g[1] # r.pid

Unanswered ==
  /\ \A i \in 1..Len(requests) : Awaited(requests[i])
  /\ \A i, j \in 1..Len(requests) : requests[i].pid = requests[j].pid => i = j
  /\ Serving => Awaited(req) /\ \A i \in 1..Len(requests) : requests[i].pid # req.pid

\* The numbers of responses and of displayed sequences are below the counter, and
\* nobody else's.
Apart(p, q) == reply[p] + seqLen[p] <= reply[q] \/ reply[q] + seqLen[q] <= reply[p]
Numbers ==
  /\ \A p \in Pids : reply[p] # None => reply[p] + seqLen[p] <= seqNum
  /\ \A p, q \in Pids : p # q /\ reply[p] # None /\ reply[q] # None => Apart(p, q)
  /\ \A g \in granted :
       /\ cpc[g[1]] = "done" /\ reply[g[1]] = None
       /\ \A n \in g[3] : n < seqNum
       /\ \A p \in Pids : reply[p] # None => g[3] \cap (reply[p]..(reply[p] + seqLen[p] - 1)) = {}

IInv ==
  /\ Values /\ granted \subseteq Pids \X Nat \X SUBSET Nat
  /\ Fresh => Unanswered /\ Numbers /\ Disjoint
=============================================================================
