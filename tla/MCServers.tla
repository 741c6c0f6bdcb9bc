----------------------------- MODULE MCServers ------------------------------
(***************************************************************************)
(* Servers and their clients, one program of which each behaviour runs:    *)
(* the FIFO sequence-number server, the System V message-queue file        *)
(* server, daemons that call createPidFile(), and the readers of a POSIX   *)
(* message queue that mq_notify() wakes.                                   *)
(* The programs come first, each with the proof of its inductive           *)
(* invariant; the suite and its theorems follow.                           *)
(***************************************************************************)
EXTENDS Naturals, Sequences, TLAPS

CONSTANTS Clients, Nobody,
          Lens, IntRange, MaxRuns, None,
          FileSystem, NoFile, QMax, NoQueue,
          Pids, Digits, MaxFiles,
          mq_maxmsg

VARIABLES program, cpc, spc, req,
          runs, seqLen, fifo, reply, serverFifo, requests, clientFifo, seqNum, wrapped, granted,
          pathname, queue, got, serverQueue, inHandler, sigchld, child, pos, readError,
          deletes, pc, fd, name, created, lock, text,
          kind, q, registered, signal, gotSig, starting, tpc, early

-----------------------------------------------------------------------------
(* pipes/fifo_seqnum_server.c and fifo_seqnum_client.c *)

Fifo == INSTANCE FifoSeqnum WITH Pids <- Clients
ASSUME FifoAssumption == Fifo!Assumption

\* What is assumed of the constants.
LEMMA FifoFacts == IntRange \in Nat \ {0} /\ MaxRuns \in Nat /\ Lens \subseteq Nat /\ None \notin Nat
  BY FifoAssumption DEF Fifo!Assumption

\* The numbers of a sequence that ends below the range of the counter.
LEMMA SequenceBelow ==
  ASSUME NEW first \in Nat, NEW len \in Nat, first + len <= IntRange
  PROVE  Fifo!Sequence(first, len) = first..(first + len - 1)
<1>1. \A i \in 0..(len - 1) : (first + i) % IntRange = first + i
  BY FifoFacts
<1>2. ASSUME NEW n \in first..(first + len - 1) PROVE n \in Fifo!Sequence(first, len)
  <2>1. n - first \in 0..(len - 1) /\ n = first + (n - first)
    OBVIOUS
  <2>2. n = (first + (n - first)) % IntRange
    BY <1>1, <2>1
  <2> QED
    BY <2>1, <2>2 DEF Fifo!Sequence
<1>3. ASSUME NEW n \in Fifo!Sequence(first, len) PROVE n \in first..(first + len - 1)
  <2>1. PICK i \in 0..(len - 1) : n = (first + i) % IntRange
    BY <1>3 DEF Fifo!Sequence
  <2> QED
    BY <1>1, <2>1
<1> QED
  BY <1>2, <1>3, Zenon

\* The values of the variables, whatever happens.
LEMMA FifoValues ==
  ASSUME Fifo!Values, Fifo!Next
  PROVE  Fifo!Values'
<1> USE FifoFacts DEF Fifo!Values, Fifo!Asking, Fifo!Serving, Fifo!cvars, Fifo!svars
<1>1. CASE Fifo!SMkfifo \/ Fifo!SOpen \/ Fifo!SLookup \/ Fifo!SWait
  BY <1>1 DEF Fifo!SMkfifo, Fifo!SOpen, Fifo!SLookup, Fifo!SWait
<1>2. CASE Fifo!SRead
  <2>1. requests \in Seq(Fifo!Request) /\ requests # <<>>
    BY <1>2 DEF Fifo!SRead
  <2>2. Head(requests) \in Fifo!Request /\ Tail(requests) \in Seq(Fifo!Request)
    BY <2>1
  <2> QED
    BY <1>2, <2>2 DEF Fifo!SRead
<1>3. CASE Fifo!SWrite
  <2>1. req \in Fifo!Request /\ req.pid \in Clients /\ req.seqLen \in Nat
    BY <1>3, Zenon DEF Fifo!SWrite, Fifo!Request
  <2>2. seqNum' \in 0..(IntRange - 1)
    <3>1. seqNum' = (seqNum + req.seqLen) % IntRange /\ seqNum \in Nat
      BY <1>3 DEF Fifo!SWrite
    <3> HIDE DEF Fifo!Values, Fifo!Serving
    <3>2. seqNum + req.seqLen \in Nat
      BY <2>1, <3>1
    <3> QED
      BY <3>1, <3>2
  <2>3. /\ reply' \in [Clients -> 0..(IntRange - 1) \cup {None}]
        /\ \A p \in Clients : reply'[p] # None => cpc[p] = "read"
    BY <1>3, <2>1 DEF Fifo!SWrite
  <2>4. wrapped' \in BOOLEAN
    BY <1>3, Zenon DEF Fifo!SWrite
  <2> QED
    BY <1>3, <2>2, <2>3, <2>4 DEF Fifo!SWrite
<1>4. ASSUME NEW p \in Clients, Fifo!CMkfifo(p) PROVE Fifo!Values'
  BY <1>4 DEF Fifo!CMkfifo, Fifo!Goto
<1>5. ASSUME NEW p \in Clients, Fifo!CConnect(p) \/ Fifo!COpen(p) \/ Fifo!COpenFails(p) \/ Fifo!CRead(p) \/ Fifo!CKilled(p)
      PROVE  Fifo!Values'
  <2>1. CASE Fifo!CConnect(p)
    <3>1. /\ cpc[p] = "connect" /\ UNCHANGED <<runs, seqLen, reply, requests, req, spc, seqNum, wrapped>>
          /\ \/ cpc' = [cpc EXCEPT ![p] = "connecting"] /\ fifo' = fifo
             \/ cpc' = [cpc EXCEPT ![p] = "failed"] /\ fifo' = [fifo EXCEPT ![p] = 0]
      BY <2>1 DEF Fifo!CConnect, Fifo!Goto, Fifo!CExit
    <3>2. CASE cpc' = [cpc EXCEPT ![p] = "connecting"] /\ fifo' = fifo
      BY <3>1, <3>2
    <3>3. CASE cpc' = [cpc EXCEPT ![p] = "failed"] /\ fifo' = [fifo EXCEPT ![p] = 0]
      <4>1. fifo' \in [Clients -> Nat] /\ \A r \in Clients : fifo'[r] <= runs[r]
        BY <3>3
      <4> QED
        BY <3>1, <3>3, <4>1
    <3> QED
      BY <3>1, <3>2, <3>3
  <2>2. CASE Fifo!COpen(p)
    BY <2>2 DEF Fifo!COpen, Fifo!Goto
  <2>3. CASE Fifo!COpenFails(p)
    BY <2>3 DEF Fifo!COpenFails, Fifo!Goto, Fifo!CExit
  <2>4. CASE Fifo!CRead(p)
    BY <2>4 DEF Fifo!CRead, Fifo!Goto, Fifo!CExit
  <2>5. CASE Fifo!CKilled(p)
    BY <2>5 DEF Fifo!CKilled, Fifo!Goto
  <2> QED
    BY <1>5, <2>1, <2>2, <2>3, <2>4, <2>5
<1>6. ASSUME NEW p \in Clients, Fifo!CWrite(p) PROVE Fifo!Values'
  <2>1. [pid |-> p, seqLen |-> seqLen[p]] \in Fifo!Request
    BY <1>6 DEF Fifo!CWrite, Fifo!Request
  <2>2. requests' \in Seq(Fifo!Request)
    BY <1>6, <2>1 DEF Fifo!CWrite
  <2> QED
    BY <1>6, <2>2 DEF Fifo!CWrite, Fifo!Goto
<1> QED
  BY <1>1, <1>2, <1>3, <1>4, <1>5, <1>6 DEF Fifo!Next, Fifo!Server, Fifo!Client

\* What is displayed: clients, with sets of numbers.
LEMMA FifoGranted ==
  ASSUME Fifo!Values, granted \subseteq Clients \X Nat \X SUBSET Nat, Fifo!Next
  PROVE  granted' \subseteq Clients \X Nat \X SUBSET Nat
<1>1. ASSUME NEW p \in Clients, Fifo!CRead(p) PROVE granted' \subseteq Clients \X Nat \X SUBSET Nat
  <2>1. granted' = granted \cup {<<p, runs[p], Fifo!Sequence(reply[p], seqLen[p])>>}
    BY <1>1 DEF Fifo!CRead
  <2>2. runs[p] \in Nat /\ reply[p] \in Nat /\ seqLen[p] \in Nat
    <3>1. cpc[p] = "read" /\ reply[p] # None
      BY <1>1 DEF Fifo!CRead
    <3>2. runs[p] \in 0..MaxRuns /\ reply[p] \in 0..(IntRange - 1) \cup {None} /\ seqLen[p] \in Lens
      BY <3>1 DEF Fifo!Values
    <3>3. reply[p] \in 0..(IntRange - 1)
      BY <3>1, <3>2
    <3>4. runs[p] \in Nat
      BY <3>2, FifoFacts
    <3>5. reply[p] \in Nat
      BY <3>3, FifoFacts
    <3> QED
      BY <3>2, <3>4, <3>5, FifoFacts, Zenon
  <2>3. Fifo!Sequence(reply[p], seqLen[p]) \in SUBSET Nat
    <3>1. \A i \in 0..(seqLen[p] - 1) : (reply[p] + i) % IntRange \in Nat
      BY <2>2, FifoFacts
    <3> QED
      BY <3>1 DEF Fifo!Sequence
  <2> QED
    BY <2>1, <2>2, <2>3
<1>2. (\A p \in Clients : ~Fifo!CRead(p)) => granted' = granted
  BY Zenon DEF Fifo!Next, Fifo!Server, Fifo!Client, Fifo!SMkfifo, Fifo!SOpen, Fifo!SRead, Fifo!SLookup, Fifo!SWait, Fifo!SWrite,
         Fifo!CMkfifo, Fifo!CConnect, Fifo!CWrite, Fifo!COpen, Fifo!COpenFails, Fifo!CKilled, Fifo!cvars
<1> QED
  BY <1>1, <1>2

\* Steps after which there are the same requests and sequences, and no other responses.
LEMMA FifoFrame ==
  ASSUME Fifo!IInv, Fifo!Fresh, UNCHANGED <<requests, req, granted, seqNum>>,
         Fifo!Serving' => Fifo!Serving,
         \A p \in Clients : /\ cpc[p] \in Fifo!Asking => cpc'[p] \in Fifo!Asking /\ seqLen'[p] = seqLen[p]
                            /\ cpc[p] = "done" => cpc'[p] = "done"
                            /\ reply'[p] = reply[p] \/ reply'[p] = None
  PROVE  (Fifo!Unanswered /\ Fifo!Numbers /\ Fifo!Disjoint)'
<1>1. Fifo!Unanswered /\ Fifo!Numbers /\ Fifo!Disjoint /\ granted \subseteq Clients \X Nat \X SUBSET Nat
  BY DEF Fifo!IInv
<1>2. requests \in Seq(Fifo!Request) /\ (Fifo!Serving => req \in Fifo!Request)
  BY DEF Fifo!IInv, Fifo!Values
<1>3. ASSUME NEW r \in Fifo!Request, Fifo!Awaited(r) PROVE Fifo!Awaited(r)'
  BY <1>3 DEF Fifo!Awaited, Fifo!Request
<1>4. \A i \in 1..Len(requests) : requests[i] \in Fifo!Request
  BY <1>2
<1>5. Fifo!Unanswered'
  BY <1>1, <1>2, <1>3, <1>4 DEF Fifo!Unanswered
<1>6. Fifo!Numbers'
  <2>1. \A p \in Clients : reply'[p] # None => reply'[p] = reply[p] /\ reply[p] # None /\ seqLen'[p] = seqLen[p]
    BY DEF Fifo!IInv, Fifo!Values, Fifo!Asking
  <2>2. \A g \in granted : g[1] \in Clients
    BY <1>1
  <2> QED
    BY <1>1, <2>1, <2>2, Zenon DEF Fifo!Numbers, Fifo!Apart
<1>7. Fifo!Disjoint'
  BY <1>1 DEF Fifo!Disjoint
<1> QED
  BY <1>5, <1>6, <1>7

\* read() of a request: the server serves it.
LEMMA FifoRead ==
  ASSUME Fifo!IInv, Fifo!Fresh, Fifo!SRead
  PROVE  (Fifo!Unanswered /\ Fifo!Numbers /\ Fifo!Disjoint)'
<1>1. Fifo!Unanswered /\ Fifo!Numbers /\ Fifo!Disjoint
  BY DEF Fifo!IInv
<1>2. requests \in Seq(Fifo!Request) /\ requests # <<>> /\ req' = Head(requests) /\ requests' = Tail(requests)
      /\ UNCHANGED <<cpc, seqLen, granted, reply, seqNum>>
  BY DEF Fifo!IInv, Fifo!Values, Fifo!SRead, Fifo!cvars
<1>3. /\ req' = requests[1] /\ Len(requests') = Len(requests) - 1 /\ Len(requests) \in Nat \ {0}
      /\ \A i \in 1..Len(requests') : requests'[i] = requests[i + 1] /\ i + 1 \in 1..Len(requests)
  BY <1>2
<1> DEFINE Later(r) == /\ cpc'[r.pid] \in Fifo!Asking /\ r.seqLen = seqLen'[r.pid] /\ reply'[r.pid] = None
                        /\ \A g \in granted' : g[1] # r.pid
<1>4. \A r : Fifo!Awaited(r) => Later(r)
  BY <1>2 DEF Fifo!Awaited
<1> HIDE DEF Later
<1>5. \A i \in 1..Len(requests') : Later(requests'[i])
  BY <1>1, <1>3, <1>4 DEF Fifo!Unanswered
<1>6. \A i, j \in 1..Len(requests') : requests'[i].pid = requests'[j].pid => i = j
  BY <1>1, <1>3 DEF Fifo!Unanswered
<1>7. Later(req') /\ \A i \in 1..Len(requests') : requests'[i].pid # req'.pid
  BY <1>1, <1>3, <1>4 DEF Fifo!Unanswered
<1>8. Fifo!Unanswered'
  BY <1>5, <1>6, <1>7 DEF Fifo!Unanswered, Fifo!Awaited, Later
<1> QED
  BY <1>1, <1>2, <1>8 DEF Fifo!Numbers, Fifo!Apart, Fifo!Disjoint

\* write() of a request to the server's FIFO.
LEMMA FifoAsk ==
  ASSUME Fifo!IInv, Fifo!Fresh, NEW p \in Clients, Fifo!CWrite(p)
  PROVE  (Fifo!Unanswered /\ Fifo!Numbers /\ Fifo!Disjoint)'
<1> DEFINE new == [pid |-> p, seqLen |-> seqLen[p]]
<1>1. Fifo!Unanswered /\ Fifo!Numbers /\ Fifo!Disjoint /\ granted \subseteq Clients \X Nat \X SUBSET Nat
  BY DEF Fifo!IInv
<1>2. /\ requests \in Seq(Fifo!Request) /\ requests' = Append(requests, new) /\ cpc[p] = "connecting"
      /\ cpc \in [Clients -> Fifo!Asking \cup {"none", "connect", "connecting"}]
      /\ cpc' = [cpc EXCEPT ![p] = "open"] /\ UNCHANGED <<spc, req, seqLen, granted, reply, seqNum>>
  BY DEF Fifo!IInv, Fifo!Values, Fifo!CWrite, Fifo!Goto, Fifo!svars
<1>3. new \in Fifo!Request /\ new.pid = p /\ new.seqLen = seqLen[p] /\ reply[p] = None
  BY <1>2 DEF Fifo!IInv, Fifo!Values, Fifo!Request
<1> HIDE DEF new
<1> DEFINE Later(r) == /\ cpc'[r.pid] \in Fifo!Asking /\ r.seqLen = seqLen'[r.pid] /\ reply'[r.pid] = None
                        /\ \A g \in granted' : g[1] # r.pid
<1>4. /\ Len(requests') = Len(requests) + 1 /\ Len(requests) \in Nat /\ requests'[Len(requests')] = new
      /\ \A i \in 1..Len(requests) : requests'[i] = requests[i] /\ requests[i] \in Fifo!Request
  BY <1>2, <1>3, SMTT(30)
<1>5. ASSUME NEW r \in Fifo!Request, Fifo!Awaited(r) PROVE Later(r) /\ r.pid # p
  BY <1>2, <1>5, Zenon DEF Fifo!Awaited, Fifo!Request, Fifo!Asking
<1>6. Later(new)
  <2>1. \A g \in granted : g[1] # p
    BY <1>1, <1>2 DEF Fifo!Numbers
  <2> QED
    BY <1>2, <1>3, <2>1 DEF Fifo!Asking
<1> HIDE DEF Later
<1>7. \A i \in 1..Len(requests) : Later(requests[i]) /\ requests[i].pid # p
  BY <1>1, <1>4, <1>5 DEF Fifo!Unanswered
<1>8. \A i \in 1..Len(requests') : Later(requests'[i])
  <2> SUFFICES ASSUME NEW i \in 1..Len(requests') PROVE Later(requests'[i])
    OBVIOUS
  <2>1. i \in 1..Len(requests) \/ i = Len(requests')
    BY <1>4
  <2> QED
    BY <2>1, <1>4, <1>6, <1>7
<1>9. \A i, j \in 1..Len(requests') : requests'[i].pid = requests'[j].pid => i = j
  BY <1>1, <1>3, <1>4, <1>7 DEF Fifo!Unanswered
<1>10. Fifo!Serving' => Later(req) /\ \A i \in 1..Len(requests') : requests'[i].pid # req.pid
  <2> SUFFICES ASSUME Fifo!Serving PROVE Later(req) /\ \A i \in 1..Len(requests') : requests'[i].pid # req.pid
    BY <1>2 DEF Fifo!Serving
  <2>1. req \in Fifo!Request /\ Fifo!Awaited(req) /\ \A i \in 1..Len(requests) : requests[i].pid # req.pid
    BY <1>1 DEF Fifo!Unanswered, Fifo!IInv, Fifo!Values
  <2>2. Later(req) /\ req.pid # p
    BY <1>5, <2>1
  <2> QED
    BY <1>3, <1>4, <2>1, <2>2
<1>11. Fifo!Unanswered'
  BY <1>2, <1>8, <1>9, <1>10 DEF Fifo!Unanswered, Fifo!Awaited, Later
<1>12. Fifo!Numbers'
  BY <1>1, <1>2 DEF Fifo!Numbers, Fifo!Apart
<1> QED
  BY <1>1, <1>2, <1>11, <1>12 DEF Fifo!Disjoint

\* write() of a response: it takes the numbers from the counter on.
LEMMA FifoRespond ==
  ASSUME Fifo!IInv, Fifo!Fresh, Fifo!Fresh', Fifo!SWrite
  PROVE  (Fifo!Unanswered /\ Fifo!Numbers /\ Fifo!Disjoint)'
<1>1. Fifo!Values /\ Fifo!Unanswered /\ Fifo!Numbers /\ Fifo!Disjoint /\ granted \subseteq Clients \X Nat \X SUBSET Nat
  BY DEF Fifo!IInv
<1>2. /\ spc = "write" /\ spc' = "read" /\ UNCHANGED <<cpc, seqLen, granted, requests, req>>
      /\ reply' = IF cpc[req.pid] = "read" THEN [reply EXCEPT ![req.pid] = seqNum] ELSE reply
      /\ seqNum' = (seqNum + req.seqLen) % IntRange /\ ~(seqNum + req.seqLen >= IntRange)
  BY Zenon DEF Fifo!SWrite, Fifo!cvars, Fifo!Fresh
<1>3. /\ req \in Fifo!Request /\ req.pid \in Clients /\ req.seqLen \in Nat /\ seqNum \in Nat
      /\ req.seqLen = seqLen[req.pid] /\ reply[req.pid] = None /\ (\A g \in granted : g[1] # req.pid)
      /\ \A i \in 1..Len(requests) : requests[i].pid # req.pid
  <2>1. req \in Fifo!Request /\ seqNum \in 0..(IntRange - 1)
    BY <1>1, <1>2 DEF Fifo!Values, Fifo!Serving
  <2>2. req.pid \in Clients /\ req.seqLen \in Nat /\ seqNum \in Nat
    <3>1. req.pid \in Clients /\ req.seqLen \in Lens
      BY <2>1 DEF Fifo!Request
    <3>2. seqNum \in Nat
      BY <2>1, FifoFacts
    <3> QED
      BY <3>1, <3>2, FifoFacts, Zenon
  <2>3. Fifo!Awaited(req) /\ \A i \in 1..Len(requests) : requests[i].pid # req.pid
    BY <1>1, <1>2 DEF Fifo!Unanswered, Fifo!Serving
  <2> QED
    BY <2>1, <2>2, <2>3 DEF Fifo!Awaited
<1>4. seqNum' = seqNum + req.seqLen
  <2>1. \A n \in 0..(IntRange - 1) : n % IntRange = n
    BY FifoFacts
  <2>2. seqNum + req.seqLen \in 0..(IntRange - 1)
    <3>1. seqNum \in Nat /\ req.seqLen \in Nat /\ ~(seqNum + req.seqLen >= IntRange)
      BY <1>2, <1>3
    <3> QED
      BY <3>1, FifoFacts
  <2> QED
    BY <1>2, <2>1, <2>2
<1>5. reply \in [Clients -> 0..(IntRange - 1) \cup {None}] /\ \A p \in Clients : reply[p] # None => seqLen[p] \in Nat
  BY <1>1, FifoFacts, Zenon DEF Fifo!Values
<1>6. \A p \in Clients : \/ reply'[p] = reply[p]
                         \/ p = req.pid /\ reply'[p] = seqNum
  BY <1>2, <1>3, <1>5
<1>7. Fifo!Unanswered'
  <2>1. \A i \in 1..Len(requests) : requests[i].pid \in Clients
    <3>1. requests \in Seq(Fifo!Request)
      BY <1>1 DEF Fifo!Values
    <3>2. \A i \in 1..Len(requests) : requests[i] \in Fifo!Request
      BY <3>1
    <3> QED
      BY <3>2 DEF Fifo!Request
  <2>2. \A i \in 1..Len(requests) : reply'[requests[i].pid] = None
    BY <1>1, <1>3, <1>6, <2>1 DEF Fifo!Unanswered, Fifo!Awaited
  <2> QED
    BY <1>1, <1>2, <2>2 DEF Fifo!Unanswered, Fifo!Awaited, Fifo!Serving
<1>8. \A p \in Clients : reply'[p] # None => reply'[p] \in Nat /\ seqLen[p] \in Nat /\ reply'[p] + seqLen[p] <= seqNum'
  BY <1>1, <1>3, <1>4, <1>5, <1>6, FifoFacts DEF Fifo!Numbers
<1>9. ASSUME NEW p \in Clients, NEW o \in Clients, p # o, reply'[p] # None, reply'[o] # None PROVE Fifo!Apart(p, o)'
  <2>1. reply[p] # None => reply[p] \in Nat /\ seqLen[p] \in Nat /\ reply[p] + seqLen[p] <= seqNum
    BY <1>1, <1>5, FifoFacts DEF Fifo!Numbers
  <2>2. reply[o] # None => reply[o] \in Nat /\ seqLen[o] \in Nat /\ reply[o] + seqLen[o] <= seqNum
    BY <1>1, <1>5, FifoFacts DEF Fifo!Numbers
  <2>3. reply[p] # None /\ reply[o] # None => Fifo!Apart(p, o)
    BY <1>1, <1>9 DEF Fifo!Numbers
  <2> QED
    BY <1>2, <1>6, <1>9, <2>1, <2>2, <2>3 DEF Fifo!Apart
<1>10. ASSUME NEW g \in granted
       PROVE  /\ cpc'[g[1]] = "done" /\ reply'[g[1]] = None /\ \A n \in g[3] : n < seqNum'
              /\ \A p \in Clients : reply'[p] # None => g[3] \cap (reply'[p]..(reply'[p] + seqLen[p] - 1)) = {}
  <2>1. /\ g[1] \in Clients /\ g[3] \subseteq Nat /\ cpc[g[1]] = "done" /\ reply[g[1]] = None
        /\ (\A n \in g[3] : n < seqNum)
        /\ \A p \in Clients : reply[p] # None => g[3] \cap (reply[p]..(reply[p] + seqLen[p] - 1)) = {}
    BY <1>1 DEF Fifo!Numbers
  <2>2. reply'[g[1]] = None
    BY <1>3, <1>6, <2>1
  <2>3. \A n \in g[3] : n < seqNum'
    BY <1>3, <1>4, <2>1
  <2>4. g[3] \cap (seqNum..(seqNum + seqLen[req.pid] - 1)) = {}
    BY <1>3, <2>1
  <2> QED
    BY <1>2, <1>6, <2>1, <2>2, <2>3, <2>4
<1>11. Fifo!Numbers'
  BY <1>2, <1>8, <1>9, <1>10, Zenon DEF Fifo!Numbers
<1> QED
  BY <1>1, <1>2, <1>7, <1>11 DEF Fifo!Disjoint

\* read() of the response: its numbers are below the counter and nobody else's.
LEMMA FifoDisplay ==
  ASSUME Fifo!IInv, Fifo!Fresh, NEW p \in Clients, Fifo!CRead(p)
  PROVE  (Fifo!Unanswered /\ Fifo!Numbers /\ Fifo!Disjoint)'
<1> DEFINE S == Fifo!Sequence(reply[p], seqLen[p])
           new == <<p, runs[p], S>>
<1>1. Fifo!Values /\ Fifo!Unanswered /\ Fifo!Numbers /\ Fifo!Disjoint /\ granted \subseteq Clients \X Nat \X SUBSET Nat
  BY DEF Fifo!IInv
<1>2. /\ cpc[p] = "read" /\ reply[p] # None /\ granted' = granted \cup {new}
      /\ reply' = [reply EXCEPT ![p] = None] /\ cpc' = [cpc EXCEPT ![p] = "done"]
      /\ UNCHANGED <<seqLen, requests, req, spc, seqNum>>
  BY Zenon DEF Fifo!CRead, Fifo!CExit, Fifo!Goto, Fifo!svars
<1>3. /\ reply \in [Clients -> 0..(IntRange - 1) \cup {None}] /\ cpc \in [Clients -> Fifo!Asking \cup {"none", "connect", "connecting"}]
      /\ seqNum \in 0..(IntRange - 1) /\ \A o \in Clients : reply[o] # None => seqLen[o] \in Lens
      /\ requests \in Seq(Fifo!Request) /\ (Fifo!Serving => req \in Fifo!Request)
  BY <1>1 DEF Fifo!Values
<1>4. /\ cpc'[p] = "done" /\ reply'[p] = None
      /\ \A o \in Clients : o # p => cpc'[o] = cpc[o] /\ reply'[o] = reply[o]
  BY <1>2, <1>3, Zenon
<1>5. \A o \in Clients : reply[o] # None => reply[o] \in Nat /\ seqLen[o] \in Nat /\ reply[o] + seqLen[o] <= seqNum
  <2> SUFFICES ASSUME NEW o \in Clients, reply[o] # None
               PROVE  reply[o] \in Nat /\ seqLen[o] \in Nat /\ reply[o] + seqLen[o] <= seqNum
    BY Zenon
  <2>1. reply[o] \in 0..(IntRange - 1)
    BY <1>3
  <2>2. reply[o] + seqLen[o] <= seqNum
    BY <1>1, Zenon DEF Fifo!Numbers
  <2>3. seqLen[o] \in Nat
    BY <1>3, FifoFacts
  <2> QED
    BY <2>1, <2>2, <2>3, FifoFacts
<1>6. S = reply[p]..(reply[p] + seqLen[p] - 1)
  <2>1. reply[p] \in Nat /\ seqLen[p] \in Nat /\ reply[p] + seqLen[p] <= IntRange
    BY <1>2, <1>3, <1>5, FifoFacts, SMTT(30)
  <2> QED
    BY <2>1, SequenceBelow, Zenon
<1>7. new[1] = p /\ new[3] = S
  OBVIOUS
<1> HIDE DEF new, S
<1>8. ASSUME NEW r \in Fifo!Request, Fifo!Awaited(r) PROVE Fifo!Awaited(r)'
  <2>1. r.pid \in Clients /\ r.pid # p
    BY <1>2, <1>8, Zenon DEF Fifo!Awaited, Fifo!Request
  <2> QED
    BY <1>2, <1>4, <1>7, <1>8, <2>1, Zenon DEF Fifo!Awaited
<1>9. Fifo!Unanswered'
  <2>1. \A i \in 1..Len(requests) : requests[i] \in Fifo!Request
    BY <1>3
  <2> QED
    BY <1>1, <1>2, <1>3, <1>8, <2>1, Zenon DEF Fifo!Unanswered, Fifo!Serving
<1>10. ASSUME NEW g \in granted'
       PROVE  /\ cpc'[g[1]] = "done" /\ reply'[g[1]] = None /\ \A n \in g[3] : n < seqNum
              /\ \A o \in Clients : reply'[o] # None => g[3] \cap (reply[o]..(reply[o] + seqLen[o] - 1)) = {}
  <2>1. CASE g \in granted
    <3>1. g[1] \in Clients
      BY <1>1, <2>1
    <3> QED
      BY <1>1, <1>2, <1>4, <2>1, <3>1 DEF Fifo!Numbers
  <2>2. CASE g = new
    <3>1. \A n \in S : n < seqNum
      BY <1>2, <1>3, <1>5, <1>6, FifoFacts
    <3>2. ASSUME NEW o \in Clients, reply'[o] # None PROVE S \cap (reply[o]..(reply[o] + seqLen[o] - 1)) = {}
      <4>1. o # p /\ reply[o] # None
        BY <1>4, <3>2
      <4>2. Fifo!Apart(p, o)
        BY <1>1, <1>2, <4>1 DEF Fifo!Numbers
      <4> QED
        BY <1>2, <1>5, <1>6, <4>1, <4>2 DEF Fifo!Apart
    <3> QED
      BY <1>4, <1>7, <2>2, <3>1, <3>2, Zenon
  <2> QED
    BY <1>2, <2>1, <2>2, Zenon
<1>11. Fifo!Numbers'
  <2>1. \A o \in Clients : reply'[o] # None => reply'[o] = reply[o] /\ o # p
    BY <1>4
  <2>2. \A o, r \in Clients : o # r /\ reply'[o] # None /\ reply'[r] # None => Fifo!Apart(o, r)'
    BY <1>1, <1>2, <2>1 DEF Fifo!Numbers, Fifo!Apart
  <2>3. \A o \in Clients : reply'[o] # None => reply'[o] + seqLen'[o] <= seqNum'
    BY <1>1, <1>2, <2>1 DEF Fifo!Numbers
  <2> QED
    BY <1>2, <1>10, <2>1, <2>2, <2>3, Zenon DEF Fifo!Numbers
<1>12. \A g \in granted : g[3] \cap S = {}
  BY <1>1, <1>2, <1>6 DEF Fifo!Numbers
<1>13. Fifo!Disjoint'
  <2>1. \A g, h \in granted' : g = h \/ g[3] \cap h[3] = {}
    BY <1>1, <1>2, <1>7, <1>12 DEF Fifo!Disjoint
  <2> QED
    BY <2>1 DEF Fifo!Disjoint
<1> QED
  BY <1>9, <1>11, <1>13

\* Every step of the clients and of the server keeps the invariant.
LEMMA FifoStep ==
  ASSUME Fifo!IInv, [Fifo!Next]_Fifo!vars
  PROVE  Fifo!IInv'
<1>1. CASE UNCHANGED Fifo!vars
  BY <1>1, Zenon DEF Fifo!IInv, Fifo!vars, Fifo!cvars, Fifo!svars, Fifo!Values, Fifo!Serving, Fifo!Fresh, Fifo!Unanswered, Fifo!Awaited,
              Fifo!Numbers, Fifo!Apart, Fifo!Disjoint
<1>2. CASE Fifo!Next
  <2>1. Fifo!Values' /\ granted' \subseteq Clients \X Nat \X SUBSET Nat
    BY <1>2, FifoValues, FifoGranted DEF Fifo!IInv
  <2> SUFFICES ASSUME Fifo!Fresh' PROVE (Fifo!Unanswered /\ Fifo!Numbers /\ Fifo!Disjoint)'
    BY <2>1, Zenon DEF Fifo!IInv
  <2>2. cpc \in [Clients -> Fifo!Asking \cup {"none", "connect", "connecting"}] /\ runs \in [Clients -> 0..MaxRuns]
        /\ seqLen \in [Clients -> Lens \cup {None}] /\ reply \in [Clients -> 0..(IntRange - 1) \cup {None}]
        /\ \A p \in Clients : cpc[p] # "none" => runs[p] > 0
    BY DEF Fifo!IInv, Fifo!Values
  <2>3. Fifo!Fresh
    <3>1. wrapped => wrapped'
      BY <1>2, Zenon DEF Fifo!Next, Fifo!Server, Fifo!Client, Fifo!SMkfifo, Fifo!SOpen, Fifo!SRead, Fifo!SLookup, Fifo!SWait, Fifo!SWrite,
                  Fifo!CMkfifo, Fifo!CConnect, Fifo!CWrite, Fifo!COpen, Fifo!COpenFails, Fifo!CKilled, Fifo!CRead, Fifo!svars
    <3>2. runs' = runs \/ \E p \in Clients : runs' = [runs EXCEPT ![p] = @ + 1]
      BY <1>2, Zenon DEF Fifo!Next, Fifo!Server, Fifo!Client, Fifo!SMkfifo, Fifo!SOpen, Fifo!SRead, Fifo!SLookup, Fifo!SWait, Fifo!SWrite,
                  Fifo!CMkfifo, Fifo!CConnect, Fifo!CWrite, Fifo!COpen, Fifo!COpenFails, Fifo!CKilled, Fifo!CRead, Fifo!cvars
    <3>3. \A p \in Clients : runs[p] <= runs'[p] /\ runs[p] \in Nat /\ runs'[p] \in Nat
      BY <2>2, <3>2, FifoFacts
    <3> QED
      BY <3>1, <3>3 DEF Fifo!Fresh
  <2>4. CASE Fifo!SMkfifo \/ Fifo!SOpen \/ Fifo!SLookup \/ Fifo!SWait
    BY <2>3, <2>4, FifoFrame, Zenon DEF Fifo!SMkfifo, Fifo!SOpen, Fifo!SLookup, Fifo!SWait, Fifo!cvars, Fifo!Serving
  <2>5. ASSUME NEW p \in Clients, Fifo!CConnect(p) \/ Fifo!COpen(p) \/ Fifo!COpenFails(p) \/ Fifo!CKilled(p)
        PROVE  (Fifo!Unanswered /\ Fifo!Numbers /\ Fifo!Disjoint)'
    <3>1. /\ cpc[p] \in {"connect", "connecting", "open", "read"} /\ UNCHANGED <<requests, req, granted, seqNum, seqLen, spc>>
          /\ \E to \in {"connecting", "failed", "read", "killed"} :
               cpc' = [cpc EXCEPT ![p] = to] /\ (to = "connecting" => cpc[p] = "connect")
          /\ reply' = reply \/ reply' = [reply EXCEPT ![p] = None]
      BY <2>5 DEF Fifo!CConnect, Fifo!COpen, Fifo!COpenFails, Fifo!CKilled, Fifo!CExit, Fifo!Goto, Fifo!svars
    <3>2. \A o \in Clients : /\ cpc[o] \in Fifo!Asking => cpc'[o] \in Fifo!Asking
                             /\ cpc[o] = "done" => cpc'[o] = "done"
                             /\ reply'[o] = reply[o] \/ reply'[o] = None
      BY <2>2, <3>1 DEF Fifo!Asking
    <3> QED
      BY <2>3, <3>1, <3>2, FifoFrame, Zenon DEF Fifo!Serving
  <2>6. ASSUME NEW p \in Clients, Fifo!CMkfifo(p) PROVE (Fifo!Unanswered /\ Fifo!Numbers /\ Fifo!Disjoint)'
    <3>1. /\ runs' = [runs EXCEPT ![p] = @ + 1] /\ UNCHANGED <<requests, req, granted, seqNum, spc, reply>>
          /\ cpc' = [cpc EXCEPT ![p] = "connect"] /\ \E n \in Lens : seqLen' = [seqLen EXCEPT ![p] = n]
      BY <2>6, Zenon DEF Fifo!CMkfifo, Fifo!Goto, Fifo!svars
    <3>2. cpc[p] = "none"
      <4>1. runs'[p] <= 1 /\ runs'[p] = runs[p] + 1 /\ runs[p] \in Nat
        BY <2>2, <3>1, FifoFacts DEF Fifo!Fresh
      <4> QED
        BY <2>2, <4>1
    <3>3. \A o \in Clients : /\ cpc[o] \in Fifo!Asking => cpc'[o] \in Fifo!Asking /\ seqLen'[o] = seqLen[o]
                             /\ cpc[o] = "done" => cpc'[o] = "done"
      BY <2>2, <3>1, <3>2 DEF Fifo!Asking
    <3> QED
      BY <2>3, <3>1, <3>3, FifoFrame, Zenon DEF Fifo!Serving
  <2> QED
    BY <1>2, <2>3, <2>4, <2>5, <2>6, FifoRead, FifoAsk, FifoRespond, FifoDisplay DEF Fifo!Next, Fifo!Server, Fifo!Client
<1> QED
  BY <1>1, <1>2

\* The invariant holds at the start.
LEMMA FifoStart ==
  ASSUME Fifo!Init
  PROVE  Fifo!IInv
<1>1. 0 \in 0..(IntRange - 1) /\ 0 \in 0..MaxRuns
  BY FifoFacts
<1>2. Fifo!Values
  <2>1. /\ cpc \in [Clients -> Fifo!Asking \cup {"none", "connect", "connecting"}] /\ seqLen \in [Clients -> Lens \cup {None}]
        /\ reply \in [Clients -> 0..(IntRange - 1) \cup {None}] /\ runs \in [Clients -> 0..MaxRuns]
    BY <1>1 DEF Fifo!Init
  <2>2. fifo \in [Clients -> Nat] /\ \A p \in Clients : fifo[p] <= runs[p]
    BY DEF Fifo!Init
  <2>3. \A p \in Clients : reply[p] = None /\ cpc[p] = "none"
    BY DEF Fifo!Init
  <2>4. requests \in Seq(Fifo!Request) /\ req = None /\ spc = "mkfifo" /\ seqNum = 0
    BY DEF Fifo!Init
  <2>5. wrapped \in BOOLEAN
    BY Zenon DEF Fifo!Init
  <2> QED
    BY <1>1, <2>1, <2>2, <2>3, <2>4, <2>5 DEF Fifo!Values, Fifo!Serving
<1>3. Fifo!Unanswered /\ Fifo!Numbers /\ Fifo!Disjoint
  BY SMTT(30) DEF Fifo!Init, Fifo!Serving, Fifo!Unanswered, Fifo!Numbers, Fifo!Disjoint
<1> QED
  BY <1>2, <1>3 DEF Fifo!Init, Fifo!IInv

\* It says what the server promises.
LEMMA FifoHolds ==
  ASSUME Fifo!IInv
  PROVE  Fifo!TypeOK /\ Fifo!Unique
<1>1. Fifo!TypeOK
  <2>1. Fifo!Values
    BY DEF Fifo!IInv
  <2>2. \A p \in Clients : /\ cpc[p] \in {"none", "connect", "connecting", "open", "read", "killed", "failed", "done"}
                           /\ runs[p] \in 0..MaxRuns /\ fifo[p] \in 0..runs[p]
    BY <2>1, FifoFacts DEF Fifo!Values, Fifo!Asking
  <2>3. \A p \in Clients : reply[p] # None => cpc[p] = "read" /\ reply[p] \in 0..(IntRange - 1)
    BY <2>1 DEF Fifo!Values
  <2> QED
    BY <2>1, <2>2, <2>3 DEF Fifo!TypeOK, Fifo!Values
<1> QED
  BY <1>1 DEF Fifo!IInv, Fifo!Unique

-----------------------------------------------------------------------------
(* filelock/create_pid_file.c *)

Pid == INSTANCE PidFile
ASSUME PidAssumption == Pid!Assumption

\* What is assumed of the constants.
LEMMA PidFacts == MaxFiles \in Nat /\ Nobody \notin Pids /\ Digits \in [Pids -> Seq(Nat)]
  BY PidAssumption DEF Pid!Assumption

\* What write() leaves in an empty file.
LEMMA OverwriteEmpty ==
  ASSUME NEW new \in Seq(Nat)
  PROVE  Pid!Overwrite(<<>>, new) = new
<1>1. SubSeq(<<>>, Len(new) + 1, Len(<<>>)) = <<>>
  OBVIOUS
<1>2. new \o <<>> = new
  OBVIOUS
<1> QED
  BY <1>1, <1>2 DEF Pid!Overwrite

\* Every step of a process keeps the invariant.
LEMMA PidStep ==
  ASSUME Pid!IInv, [Pid!Next]_Pid!vars
  PROVE  Pid!IInv'
<1> USE PidFacts
<1>1. ASSUME NEW p \in Pids, Pid!Open(p), UNCHANGED deletes PROVE Pid!IInv'
  <2>1. /\ pc[p] = "out" /\ pc' = [pc EXCEPT ![p] = "lock"] /\ fd' = [fd EXCEPT ![p] = name']
        /\ UNCHANGED <<lock, text>>
    BY <1>1 DEF Pid!Open, Pid!Goto
  <2>2. /\ created' \in 0..MaxFiles /\ created' >= created /\ name' \in 1..created'
        /\ ~deletes => name' = created' /\ created' <= 1
    BY <1>1 DEF Pid!Open, Pid!IInv
  <2>3. /\ pc' \in [Pids -> Pid!States] /\ fd' \in [Pids -> 0..MaxFiles] /\ pc'[p] = "lock" /\ fd'[p] = name'
        /\ \A r \in Pids : r # p => pc'[r] = pc[r] /\ fd'[r] = fd[r]
    BY <2>1, <2>2 DEF Pid!IInv, Pid!States
  <2>4. \A f \in Pid!Files : lock[f] # p
    <3>1. fd[p] = 0 /\ 0 \notin Pid!Files
      BY <2>1 DEF Pid!IInv, Pid!Files
    <3>2. \A f \in Pid!Files : lock[f] = Nobody \/ fd[lock[f]] = f
      BY DEF Pid!IInv
    <3> QED
      BY <3>1, <3>2
  <2>5. \A f \in Pid!Files : lock[f] = Nobody \/ fd'[lock[f]] = f
    BY <2>3, <2>4 DEF Pid!IInv
  <2> QED
    BY <1>1, <2>1, <2>2, <2>3, <2>5, SMTT(30) DEF Pid!IInv
<1>2. ASSUME NEW p \in Pids, Pid!Terminate(p), UNCHANGED deletes PROVE Pid!IInv'
  BY <1>2, SMTT(30) DEF Pid!Terminate, Pid!Released, Pid!Goto, Pid!IInv, Pid!Files, Pid!States
<1>3. ASSUME NEW p \in Pids, Pid!LockRegion(p), ~Pid!Terminate(p), UNCHANGED deletes PROVE Pid!IInv'
  <2>1. /\ pc[p] = "lock" /\ lock[fd[p]] = Nobody /\ lock' = [lock EXCEPT ![fd[p]] = p]
        /\ pc' = [pc EXCEPT ![p] = "truncate"] /\ UNCHANGED <<fd, name, created, text>>
    BY <1>3 DEF Pid!LockRegion, Pid!CanLock, Pid!SetLock, Pid!Goto
  <2>2. fd[p] \in Pid!Files /\ \A r \in Pids : pc[r] \in {"truncate", "write", "run", "deleted"} => fd[r] # fd[p]
    BY <2>1 DEF Pid!IInv, Pid!Files
  <2> QED
    BY <1>3, <2>1, <2>2, SMTT(30) DEF Pid!IInv, Pid!Files, Pid!States
<1>4. ASSUME NEW p \in Pids, Pid!Truncate(p), UNCHANGED deletes PROVE Pid!IInv'
  BY <1>4, SMTT(30) DEF Pid!Truncate, Pid!Goto, Pid!IInv, Pid!Files, Pid!States
<1>5. ASSUME NEW p \in Pids, Pid!Write(p), UNCHANGED deletes PROVE Pid!IInv'
  <2>1. /\ pc[p] = "write" /\ pc' = [pc EXCEPT ![p] = "run"] /\ UNCHANGED <<fd, name, created, lock>>
        /\ text' = [text EXCEPT ![fd[p]] = Pid!Overwrite(@, Digits[p])]
    BY <1>5, Zenon DEF Pid!Write, Pid!Goto
  <2>2. text[fd[p]] = <<>> /\ lock[fd[p]] = p /\ fd[p] \in Pid!Files /\ Digits[p] \in Seq(Nat)
    BY <2>1 DEF Pid!IInv, Pid!Files
  <2>3. text' = [text EXCEPT ![fd[p]] = Digits[p]]
    BY <2>1, <2>2, OverwriteEmpty, Zenon
  <2>4. \A r \in Pids : r # p /\ pc[r] \in {"write", "run", "deleted"} => fd[r] # fd[p]
    BY <2>2 DEF Pid!IInv
  <2>5. /\ pc' \in [Pids -> Pid!States] /\ pc'[p] = "run"
        /\ \A r \in Pids : r # p => pc'[r] = pc[r]
    BY <2>1 DEF Pid!IInv, Pid!States
  <2>6. /\ text' \in [Pid!Files -> Seq(Nat)] /\ text'[fd[p]] = Digits[p]
        /\ \A f \in Pid!Files : f # fd[p] => text'[f] = text[f]
    BY <2>2, <2>3 DEF Pid!IInv
  <2>7. \A r \in Pids : r # p /\ pc[r] \in {"write", "run", "deleted"} => text'[fd[r]] = text[fd[r]]
    <3> SUFFICES ASSUME NEW r \in Pids, r # p, pc[r] \in {"write", "run", "deleted"}
                 PROVE  text'[fd[r]] = text[fd[r]]
      BY Zenon
    <3>1. fd[r] \in Pid!Files
      BY DEF Pid!IInv, Pid!Files
    <3> QED
      BY <2>4, <2>6, <3>1, Zenon
  <2> QED
    BY <1>5, <2>1, <2>2, <2>5, <2>6, <2>7, SMTT(30) DEF Pid!IInv
<1>6. ASSUME NEW p \in Pids, Pid!Delete(p), UNCHANGED deletes PROVE Pid!IInv'
  BY <1>6, SMTT(30) DEF Pid!Delete, Pid!Goto, Pid!IInv, Pid!Files, Pid!States
<1>7. CASE UNCHANGED Pid!vars
  BY <1>7 DEF Pid!vars, Pid!IInv
<1> QED
  <2>1. CASE Pid!Next
    <3>1. PICK p \in Pids : Pid!Open(p) \/ Pid!LockRegion(p) \/ Pid!Truncate(p) \/ Pid!Write(p) \/ Pid!Delete(p) \/ Pid!Exit(p)
      BY <2>1 DEF Pid!Next
    <3>2. UNCHANGED deletes
      BY <2>1 DEF Pid!Next
    <3>3. Pid!Exit(p) => Pid!Terminate(p)
      BY DEF Pid!Exit
    <3> QED
      BY <1>1, <1>2, <1>3, <1>4, <1>5, <1>6, <3>1, <3>2, <3>3
  <2> QED
    BY <1>7, <2>1

\* No daemon has been started.
LEMMA PidStart == Pid!Init => Pid!IInv
  BY PidFacts DEF Pid!Init, Pid!IInv, Pid!Files, Pid!States

\* As long as no instance deletes the file there is one file, and its lock has one
\* holder: at most one instance runs.
LEMMA PidHolds ==
  ASSUME Pid!IInv
  PROVE  Pid!TypeOK /\ Pid!OneInstance /\ Pid!PidRecorded
<1>1. Pid!TypeOK
  BY PidFacts DEF Pid!IInv, Pid!TypeOK, Pid!States, Pid!Files
<1>2. Pid!PidRecorded
  BY Zenon DEF Pid!IInv, Pid!PidRecorded
<1>3. ASSUME NEW p \in Pids, NEW r \in Pids, pc[p] = "run", pc[r] = "run", ~deletes PROVE p = r
  <2>1. fd[p] = 1 /\ fd[r] = 1
    BY <1>3, PidFacts DEF Pid!IInv
  <2>2. lock[fd[p]] = p /\ lock[fd[r]] = r
    BY <1>3, Zenon DEF Pid!IInv
  <2> QED
    BY <2>1, <2>2, Zenon
<1> QED
  BY <1>1, <1>2, <1>3 DEF Pid!OneInstance

-----------------------------------------------------------------------------
(* pmsg/mq_notify_*.c *)

Mq == INSTANCE MqNotify WITH QMax <- mq_maxmsg, Threads <- Clients
ASSUME MqAssumption == Mq!Assumption

\* What is assumed of the constants.
LEMMA MqFacts == mq_maxmsg \in Nat
  BY MqAssumption DEF Mq!Assumption

\* Every step of the program, its handler and its threads, and every message
\* sent, keep the invariant.
LEMMA MqStep ==
  ASSUME Mq!IInv, [Mq!Next]_Mq!vars
  PROVE  Mq!IInv'
<1> USE MqFacts DEF Mq!IInv, Mq!OneOfThem, Mq!MainWill, Mq!FlagSet, Mq!ThreadWill, Mq!NoMessageForgotten, Mq!ByThread, Mq!Register, Mq!Drain, Mq!PcGoto, Mq!TGoto
<1>1. CASE Mq!Send
  BY <1>1, SMTT(30) DEF Mq!Send
<1>2. CASE Mq!SigSetup
  <2>1. /\ kind \in {"sig", "sigwaitinfo"} /\ pc = "open" /\ ~registered
        /\ pc' = "wait" /\ registered' = TRUE /\ UNCHANGED <<kind, q, signal, gotSig, starting, tpc>>
    BY <1>2 DEF Mq!SigSetup
  <2>2. early' = (q > 0)
    BY <1>2, Zenon DEF Mq!SigSetup
  <2>3. q > 0 => early'
    BY <2>2, Zenon
  <2> QED
    BY <2>1, <2>3, Zenon
<1>3. CASE Mq!SigWait
  BY <1>3, Zenon DEF Mq!SigWait
<1>4. CASE Mq!SigRegister
  BY <1>4, Zenon DEF Mq!SigRegister
<1>5. CASE Mq!SigDrain
  BY <1>5, SMTT(30) DEF Mq!SigDrain
<1>6. CASE Mq!Handler
  BY <1>6, Zenon DEF Mq!Handler
<1>7. CASE Mq!ViaSignal
  <2>1. kind = "via_signal" /\ UNCHANGED <<kind, signal, starting, tpc, early>>
    BY <1>7 DEF Mq!ViaSignal
  <2>2. CASE pc \in {"open", "sleep"}
    <3>1. gotSig /\ gotSig' = FALSE /\ pc' = "register" /\ UNCHANGED <<q, registered>>
      BY <1>7, <2>2 DEF Mq!ViaSignal
    <3> QED
      BY <2>1, <2>2, <3>1, Zenon
  <2>3. CASE pc = "register"
    <3>1. pc' = "drain" /\ registered' = TRUE /\ UNCHANGED <<q, gotSig>>
      BY <1>7, <2>3 DEF Mq!ViaSignal
    <3> QED
      BY <2>1, <2>3, <3>1, Zenon
  <2>4. CASE pc = "drain"
    <3>1. /\ UNCHANGED <<registered, gotSig>>
          /\ IF q > 0 THEN q' = q - 1 /\ pc' = "drain" ELSE q' = q /\ pc' = "sleep"
      BY <1>7, <2>4, Zenon DEF Mq!ViaSignal
    <3> QED
      BY <2>1, <2>4, <3>1, SMTT(30)
  <2>5. pc \in {"open", "sleep", "register", "drain"}
    BY <1>7, Zenon DEF Mq!ViaSignal
  <2> QED
    BY <2>2, <2>3, <2>4, <2>5, Zenon
<1>8. CASE Mq!ThreadMain
  <2>1. Mq!ByThread /\ UNCHANGED <<kind, signal, gotSig, starting, tpc>>
    BY <1>8, Zenon DEF Mq!ThreadMain
  <2>2. CASE pc = "open"
    <3>1. /\ ~registered /\ registered' = TRUE /\ q' = q
          /\ pc' = (IF kind = "thread" THEN "pause" ELSE "drain")
      BY <1>8, <2>2, Zenon DEF Mq!ThreadMain
    <3>2. early' = (q > 0)
      BY <1>8, <2>2, Zenon DEF Mq!ThreadMain
    <3>3. q > 0 => early'
      BY <3>2, Zenon
    <3> QED
      BY <2>1, <2>2, <3>1, <3>3, Zenon
  <2>3. CASE pc = "drain"
    BY <1>8, <2>1, <2>3, SMTT(30) DEF Mq!ThreadMain
  <2> QED
    BY <1>8, <2>2, <2>3, Zenon DEF Mq!ThreadMain
<1>9. ASSUME NEW t \in Clients, Mq!StartThread(t) PROVE Mq!IInv'
  <2>1. /\ starting > 0 /\ tpc[t] = "none" /\ starting' = starting - 1 /\ tpc' = [tpc EXCEPT ![t] = "register"]
        /\ UNCHANGED <<kind, pc, q, registered, signal, gotSig, early>>
    BY <1>9, Zenon DEF Mq!StartThread
  <2>2. starting = 1 /\ starting' = 0
    BY <2>1, SMTT(30)
  <2>3. /\ ~registered /\ ~Mq!MainWill /\ ~signal /\ ~Mq!FlagSet /\ Mq!ByThread
        /\ \A u \in Clients : tpc[u] # "register"
    BY <2>2, SMTT(30)
  <2>4. /\ tpc' \in [Clients -> {"none", "register", "drain"}] /\ tpc'[t] = "register"
        /\ \A u \in Clients : u # t => tpc'[u] # "register"
    BY <2>1, <2>3, Zenon
  <2>5. Mq!OneOfThem'
    BY <2>1, <2>2, <2>3, <2>4, SMTT(30)
  <2>6. Mq!NoMessageForgotten'
    BY <2>1, <2>4, Zenon
  <2>7. starting' \in 0..1 /\ (Mq!ByThread' <=> Mq!ByThread)
    BY <2>1, <2>2
  <2> HIDE DEF Mq!OneOfThem, Mq!NoMessageForgotten, Mq!ByThread
  <2> QED
    BY <2>1, <2>3, <2>4, <2>5, <2>6, <2>7, Zenon
<1>10. ASSUME NEW t \in Clients, Mq!ThreadFunc(t) PROVE Mq!IInv'
  <2>1. UNCHANGED <<kind, pc, signal, gotSig, starting, early>> /\ Mq!ByThread
    BY <1>10, Zenon DEF Mq!ThreadFunc
  <2>2. CASE tpc[t] = "register"
    <3>1. /\ ~registered /\ registered' = TRUE /\ q' = q /\ tpc' = [tpc EXCEPT ![t] = "drain"]
      BY <1>10, <2>2, Zenon DEF Mq!ThreadFunc
    <3> QED
      BY <2>1, <2>2, <3>1, Zenon
  <2>3. CASE tpc[t] = "drain" /\ q > 0
    <3>1. q' = q - 1 /\ tpc' = tpc /\ registered' = registered
      BY <1>10, <2>3, Zenon DEF Mq!ThreadFunc
    <3> QED
      BY <2>1, <2>3, <3>1, SMTT(30)
  <2>4. CASE tpc[t] = "drain" /\ q = 0
    <3>1. q' = q /\ tpc' = [tpc EXCEPT ![t] = "none"] /\ registered' = registered
      BY <1>10, <2>4, SMTT(30) DEF Mq!ThreadFunc
    <3> QED
      BY <2>1, <2>4, <3>1, SMTT(30)
  <2>5. tpc[t] \in {"register", "drain"}
    BY <1>10, Zenon DEF Mq!ThreadFunc
  <2>6. q > 0 \/ q = 0
    OBVIOUS
  <2> QED
    BY <2>2, <2>3, <2>4, <2>5, <2>6, Zenon
<1>11. CASE UNCHANGED Mq!vars
  BY <1>11, Zenon DEF Mq!vars
<1> QED
  BY <1>1, <1>2, <1>3, <1>4, <1>5, <1>6, <1>7, <1>8, <1>9, <1>10, <1>11, Zenon DEF Mq!Next, Mq!Program, Mq!Main, Mq!SigProgram

\* The initial states of the five programs satisfy the invariant.
LEMMA MqStart ==
  ASSUME Mq!Init
  PROVE  Mq!IInv
<1>1. /\ registered = FALSE /\ signal = FALSE /\ gotSig = TRUE /\ pc = "open" /\ q \in 0..mq_maxmsg /\ starting = 0
      /\ \A t \in Clients : tpc[t] = "none"
  BY DEF Mq!Init
<1>2. registered \in BOOLEAN /\ signal \in BOOLEAN /\ gotSig \in BOOLEAN
  BY <1>1, Zenon
<1>3. Mq!OneOfThem /\ Mq!NoMessageForgotten
  BY <1>1 DEF Mq!OneOfThem, Mq!MainWill, Mq!FlagSet, Mq!ThreadWill, Mq!NoMessageForgotten
<1> QED
  BY <1>1, <1>2, <1>3 DEF Mq!Init, Mq!IInv, Mq!ByThread

\* It says what the programs promise.
LEMMA MqHolds == Mq!IInv => Mq!TypeOK /\ Mq!NoMessageForgotten /\ Mq!NeverBusy
BY DEF Mq!IInv, Mq!TypeOK, Mq!NeverBusy

-----------------------------------------------------------------------------
(* svmsg/svmsg_file_server.c and svmsg_file_client.c *)

Msg == INSTANCE SvmsgFile WITH Files <- FileSystem
ASSUME MsgAssumption == Msg!Assumption

-----------------------------------------------------------------------------
(* The suite *)

both == <<cpc, spc, req>>
fifoVars == <<runs, seqLen, fifo, reply, serverFifo, requests, clientFifo, seqNum, wrapped, granted>>
msg == <<pathname, queue, got, serverQueue, inHandler, sigchld, child, pos, readError>>
pid == <<deletes, fd, name, created, lock, text>>
mq == <<kind, q, registered, signal, gotSig, starting, tpc, early>>
vars == <<program, both, fifoVars, msg, pc, pid, mq>>

NoBoth == cpc = 0 /\ spc = 0 /\ req = 0
NoFifo == /\ runs = 0 /\ seqLen = 0 /\ fifo = 0 /\ reply = 0 /\ serverFifo = 0
          /\ requests = 0 /\ clientFifo = 0 /\ seqNum = 0 /\ wrapped = 0 /\ granted = 0
NoMsg == /\ pathname = 0 /\ queue = 0 /\ got = 0 /\ serverQueue = 0 /\ inHandler = 0
         /\ sigchld = 0 /\ child = 0 /\ pos = 0 /\ readError = 0
NoPid == deletes = 0 /\ fd = 0 /\ name = 0 /\ created = 0 /\ lock = 0 /\ text = 0
NoMq == /\ kind = 0 /\ q = 0 /\ registered = 0 /\ signal = 0
        /\ gotSig = 0 /\ starting = 0 /\ tpc = 0 /\ early = 0

Init ==
  \/ program = "fifo_seqnum" /\ Fifo!Init /\ NoMsg /\ pc = 0 /\ NoPid /\ NoMq
  \/ program = "svmsg_file" /\ Msg!Init /\ NoFifo /\ pc = 0 /\ NoPid /\ NoMq
  \/ program = "pid_file" /\ Pid!Init /\ NoBoth /\ NoFifo /\ NoMsg /\ NoMq
  \/ program = "mq_notify" /\ Mq!Init /\ NoBoth /\ NoFifo /\ NoMsg /\ NoPid

Runs(p, A, others) == program = p /\ A /\ UNCHANGED <<program, others>>
FifoRuns(A) == Runs("fifo_seqnum", A, <<msg, pc, pid, mq>>)
MsgRuns(A) == Runs("svmsg_file", A, <<fifoVars, pc, pid, mq>>)
PidRuns(A) == Runs("pid_file", A, <<both, fifoVars, msg, mq>>)
MqRuns(A) == Runs("mq_notify", A, <<both, fifoVars, msg, pid>>)

Next == FifoRuns(Fifo!Next) \/ MsgRuns(Msg!Next) \/ PidRuns(Pid!Next) \/ MqRuns(Mq!Next)

\* Every process runs on; clients need not be started, and no process need fail
\* or be killed.  One program runs in a behaviour, so that fairness of the disjunction
\* is fairness of each program's process.
Server == FifoRuns(Fifo!Server) \/ MsgRuns(Msg!Server)
Client(c) == FifoRuns(Fifo!Client(c)) \/ MsgRuns(Msg!Client(c))
Fairness ==
  /\ WF_vars(Server)
  /\ \A c \in Clients : WF_vars(Client(c)) /\ WF_vars(MsgRuns(Msg!Child(c)))

FairSpec == Init /\ [][Next]_vars /\ Fairness

\* A file longer than the queue, an empty one and a missing one; process IDs of
\* different lengths.
MCFileSystem == [long |-> <<1, 2>>, empty |-> <<>>, missing |-> NoFile]
MCPids == {42, 7, 100}
MCDigits == [p \in MCPids |-> CASE p = 42 -> <<4, 2>> [] p = 7 -> <<7>> [] p = 100 -> <<1, 0, 0>>]
-----------------------------------------------------------------------------
IsFifo == program = "fifo_seqnum"
IsMsg == program = "svmsg_file"
IsPid == program = "pid_file"
IsMq == program = "mq_notify"

\* The values of the variables of the program that runs.
TypeOK ==
  CASE IsFifo -> Fifo!TypeOK [] IsMsg -> Msg!TypeOK [] IsPid -> Pid!TypeOK [] IsMq -> Mq!TypeOK

\* Clients get what is theirs.  "The "service" provided is the allocation of unique
\* sequential numbers" (fifo_seqnum_server.c): no number is displayed by two clients,
\* as long as the counter has not wrapped and no process ID has been used again.  A client
\* of the file server that reports success has the whole file, in order, and nothing of
\* another client's file, unless read() failed in the child; one that exits removes
\* its queue, and no child writes to it afterwards.  No message is forgotten on a queue
\* that mq_notify() watches.
Delivered ==
  /\ IsFifo => Fifo!Unique
  /\ IsMsg => Msg!Delivered /\ Msg!NoQueueLeft
  /\ IsMq => Mq!NoMessageForgotten

\* What is held by one is held by no other.  createPidFile() is there "to ensure that only
\* one instance of the program is running" (create_pid_file.c): so it is while no
\* instance deletes the file.  An instance that runs has its process ID in its file, and
\* nothing that a killed instance with a longer process ID left there.  And mq_notify()
\* never finds the registration of another process or thread of the program.
HeldAlone ==
  /\ IsPid => Pid!OneInstance /\ Pid!PidRecorded
  /\ IsMq => Mq!NeverBusy

\* A client of the FIFO server that has sent its request gets a number, unless it
\* ends itself or the server waits in open() for a client that is gone; a client
\* killed later does not stop the server.  Every client of the file server gets an
\* answer, as long as the server is there.  A child of the file server ends, unless its
\* client was killed and the queue it leaves is full; and no zombie stays, although
\* signals are not queued and children may end while grimReaper() runs.
Answered ==
  \A c \in Clients :
    /\ ((IsMsg /\ cpc[c] = "receive") \/ (IsFifo /\ spc = "write"))
       ~> ((IsMsg /\ (cpc[c] \in Msg!Ended \/ spc = "gone")) \/ (IsFifo /\ spc = "read"))
    /\ ((IsMsg /\ child[c] = "open") \/ (IsFifo /\ cpc[c] = "open"))
       ~> ( \/ IsMsg /\ (child[c] \in {"zombie", "reaped"} \/ cpc[c] = "killed")
            \/ IsFifo /\ (cpc[c] \in {"done", "killed", "failed"} \/ Fifo!Deserted) )
    /\ (IsMsg /\ child[c] = "zombie") ~> (IsMsg /\ (child[c] = "reaped" \/ spc = "gone"))
-----------------------------------------------------------------------------
(* Inductive invariant: that of the program that runs *)

IInv ==
  /\ IsFifo \/ IsMsg \/ IsPid \/ IsMq
  /\ (IsFifo => Fifo!IInv) /\ (IsMsg => Msg!IInv) /\ (IsPid => Pid!IInv) /\ (IsMq => Mq!IInv)
-----------------------------------------------------------------------------
(* The program that runs *)

\* A behaviour starts as one of the programs.
LEMMA InitIInv == Init => IInv
<1> SUFFICES ASSUME Init PROVE IInv
  OBVIOUS
<1> USE DEF IInv, IsFifo, IsMsg, IsPid, IsMq
<1>1. CASE program = "fifo_seqnum" /\ Fifo!Init
  BY <1>1, FifoStart
<1>2. CASE program = "svmsg_file" /\ Msg!Init
  BY <1>2, Msg!Starts
<1>3. CASE program = "pid_file" /\ Pid!Init
  BY <1>3, PidStart
<1>4. CASE program = "mq_notify" /\ Mq!Init
  BY <1>4, MqStart
<1> QED
  BY <1>1, <1>2, <1>3, <1>4 DEF Init

\* A step is one of the program that runs.
LEMMA NextIInv == IInv /\ [Next]_vars => IInv'
<1> SUFFICES ASSUME IInv, [Next]_vars PROVE IInv'
  OBVIOUS
<1> USE DEF IsFifo, IsMsg, IsPid, IsMq
<1>1. program' = program
  BY DEF Next, FifoRuns, MsgRuns, PidRuns, MqRuns, Runs, vars
<1>2. CASE IsFifo
  <2>1. [Fifo!Next]_Fifo!vars
    BY <1>2, Zenon DEF Next, FifoRuns, MsgRuns, PidRuns, MqRuns, Runs, vars, both, fifoVars, Fifo!vars, Fifo!cvars, Fifo!svars
  <2> QED
    BY <1>1, <1>2, <2>1, FifoStep DEF IInv
<1>3. CASE IsMsg
  <2>1. [Msg!Next]_Msg!vars
    BY <1>3, Zenon DEF Next, FifoRuns, MsgRuns, PidRuns, MqRuns, Runs, vars, both, msg, Msg!vars, Msg!clientVars, Msg!serverVars, Msg!childVars
  <2> QED
    BY <1>1, <1>3, <2>1, MsgAssumption, Msg!Steps DEF IInv
<1>4. CASE IsPid
  <2>1. [Pid!Next]_Pid!vars
    BY <1>4, Zenon DEF Next, FifoRuns, MsgRuns, PidRuns, MqRuns, Runs, vars, pid, Pid!vars
  <2> QED
    BY <1>1, <1>4, <2>1, PidStep DEF IInv
<1>5. CASE IsMq
  <2>1. [Mq!Next]_Mq!vars
    BY <1>5, Zenon DEF Next, FifoRuns, MsgRuns, PidRuns, MqRuns, Runs, vars, mq, Mq!vars
  <2> QED
    BY <1>1, <1>5, <2>1, MqStep DEF IInv
<1> QED
  BY <1>2, <1>3, <1>4, <1>5, Zenon DEF IInv

\* The invariant implies all that is said of the programs.
LEMMA AllHold == IInv => TypeOK /\ Delivered /\ HeldAlone
<1> SUFFICES ASSUME IInv PROVE TypeOK /\ Delivered /\ HeldAlone
  OBVIOUS
<1> USE DEF IInv, IsFifo, IsMsg, IsPid, IsMq, TypeOK, Delivered, HeldAlone
<1>1. CASE IsFifo
  BY <1>1, FifoHolds
<1>2. CASE IsMsg
  BY <1>2, MsgAssumption, Msg!Holds
<1>3. CASE IsPid
  BY <1>3, PidHolds
<1>4. CASE IsMq
  BY <1>4, MqHolds
<1> QED
  BY <1>1, <1>2, <1>3, <1>4, Zenon

\* Each program's variables keep their values, for any number of clients, process IDs and
\* threads and any queue sizes; among them that a client's queue holds one message more than
\* the data that fits it at most, and that one reader at most is about to register.
THEOREM ServersTyped == FairSpec => []TypeOK
BY InitIInv, NextIInv, AllHold, PTL DEF FairSpec

\* fifo_seqnum_server.c gives no number to two clients, for any clients, lengths and range of
\* the counter; svmsg_file_client.c that succeeds has its file, whatever the files and queue
\* sizes, and leaves no queue; no mq_notify() program forgets a message that it should read.
THEOREM ClientsServed == FairSpec => []Delivered
BY InitIInv, NextIInv, AllHold, PTL DEF FairSpec

\* One instance of a program that calls createPidFile() runs, with its process ID in the
\* file, for any process IDs and their digits; and mq_notify() never fails with EBUSY.
THEOREM HeldByOne == FairSpec => []HeldAlone
BY InitIInv, NextIInv, AllHold, PTL DEF FairSpec
=============================================================================
