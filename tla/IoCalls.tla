------------------------------- MODULE IoCalls ------------------------------
(***************************************************************************)
(* Programs and functions around read(), write() and the calls that wait   *)
(* for input, one of which (kind) runs.  src/altio: epoll_input.c,         *)
(* select_mq.c, epoll_flags_fork.c, multithread_epoll_wait.c, t_select.c,  *)
(* t_select_simple.c, poll_pipes.c.  src/sockets: rdwrn.c,                 *)
(* read_line_buf.c, sendfile.c, scm_functions.c.  Bytes and messages are   *)
(* numbered in the order in which they are written.                        *)
(***************************************************************************)
EXTENDS Integers, FiniteSets, Sequences, SequencesExt, FiniteSetsExt

CONSTANTS MaxBytes,    \* bound: bytes or messages written to one file
          MAX_EVENTS, MAX_BUF, RL_MAX_BUF, BUF_SIZE, FD_SETSIZE,
          PipeSize,    \* units that a pipe holds
          MAX_MTEXT

VARIABLES kind, pc,
          opt,         \* what the command line, or the caller, says
          in,          \* input that is not read yet, of each source
          sent,        \* how much was written to each source
          wr,          \* sources with a writer
          fds,         \* descriptors the program has open, or monitors
          ev,          \* the events or the data the program deals with
          cnt,         \* its counter
          at,          \* its children or threads
          rl,          \* epoll instances with an entry in the ready list
          out,         \* what it has reported, or where it has stored the data
          late         \* what happened that explains a loss

vars == <<kind, pc, opt, in, sent, wr, fds, ev, cnt, at, rl, out, late>>

Src == {1, 2}
Epolls == {"epoll_flags", "mt_epoll"}
Selects == {"t_select", "t_select_simple"}
Kinds == {"epoll_input", "select_mq", "poll_pipes", "readn", "writen", "read_line_buf", "sendfile",
          "scm_functions"} \cup Epolls \cup Selects
Over == {"done", "failed"}
Upto(s, k) == SubSeq(s, 1, IF k < Len(s) THEN k ELSE Len(s))
Rest(s, k) == SubSeq(s, k + 1, Len(s))
Lines == UNION {[1..n -> {"x", "nl"}] : n \in 0..4}

Options ==
  CASE kind = "epoll_flags" -> SUBSET {"e", "l", "o", "p", "r", "s", "x"}
    [] kind = "mt_epoll" -> {{"s"}, {"s", "e"}}
    [] kind \in Selects -> {a \o b : a, b \in {<<>>} \cup {<<[fd |-> f, how |-> m]>> :
                            f \in {0, 1, FD_SETSIZE - 1, FD_SETSIZE}, m \in SUBSET {"r", "w"}}}
    [] kind = "poll_pipes" -> 1..2 * PipeSize
    [] kind \in {"readn", "writen"} -> 0..3
    [] kind = "read_line_buf" -> 0..2
    [] kind = "sendfile" -> [offset : {-1, 0, 1}, count : 0..3]
    [] kind = "scm_functions" -> {"one", "two", "creds", "none"}
    [] OTHER -> {0}

Init ==
  /\ kind \in Kinds /\ pc = "start" /\ opt \in Options
  /\ (kind = "t_select_simple" => \A i \in 1..Len(opt) : opt[i].how = {"r"})
  /\ in \in IF kind = "read_line_buf" THEN {[f \in Src |-> l] : l \in Lines}
            ELSE IF kind \in {"readn", "sendfile"} THEN {[f \in Src |-> Upto(<<1, 2, 3>>, n)] : n \in 0..3}
            ELSE {[f \in Src |-> <<>>]}
  /\ sent = [f \in Src |-> 0] /\ wr = {} /\ fds = {} /\ ev = <<>> /\ cnt = 0
  /\ at = [c \in Src |-> "none"] /\ rl = {} /\ out = <<>> /\ late = {}

P(from, to) == pc = from /\ pc' = to /\ UNCHANGED <<kind, opt>>
-----------------------------------------------------------------------------
(* epoll_input: FIFOs, with writers that come and go *)

\* open() of the next FIFO waits for a writer.
EpollInputOpen ==
  /\ \/ /\ cnt < 2 /\ cnt + 1 \in wr /\ P("start", "start")
        /\ fds' = fds \cup {cnt + 1} /\ cnt' = cnt + 1
     \/ P("start", "failed") /\ UNCHANGED <<fds, cnt>>
     \/ cnt = 2 /\ P("start", "wait") /\ UNCHANGED <<fds, cnt>>
  /\ UNCHANGED <<in, sent, wr, ev, at, rl, out, late>>

Events(f) == (IF in[f] # <<>> THEN {"in"} ELSE {}) \cup (IF f \notin wr THEN {"hup"} ELSE {})

\* Mutant of Handle: the hang-up comes first.
HandleHupFirst(e) == IF "hup" \in e.what THEN "close" ELSE "read"

\* What is done about an event.
Handle(e) == IF "in" \in e.what THEN "read" ELSE "close"

\* epoll_wait(), which may return early with EINTR, and the loop over evlist.
EpollInput ==
  \/ EpollInputOpen
  \/ /\ P("wait", "events") /\ cnt > 0
     /\ \E s \in SUBSET {f \in fds : Events(f) # {}} :
          /\ Cardinality(s) \in 1..MAX_EVENTS
          /\ (Cardinality(s) < MAX_EVENTS => \A f \in fds : Events(f) # {} => f \in s)
          /\ \E o \in SetToSeqs(s) : ev' = [i \in 1..Len(o) |-> [fd |-> o[i], what |-> Events(o[i])]]
     /\ UNCHANGED <<in, sent, wr, fds, cnt, at, rl, out, late>>
  \/ P("wait", "failed") /\ UNCHANGED <<in, sent, wr, fds, ev, cnt, at, rl, out, late>>
  \/ /\ P("events", "events") /\ ev # <<>> /\ ev' = Tail(ev)
     /\ LET e == Head(ev) IN
        \/ /\ Handle(e) = "read" /\ in' = [in EXCEPT ![e.fd] = Rest(@, MAX_BUF)]
           /\ out' = out \o [i \in 1..Len(Upto(in[e.fd], MAX_BUF)) |-> [fd |-> e.fd, n |-> in[e.fd][i]]]
           /\ UNCHANGED <<fds, cnt>>
        \/ Handle(e) = "close" /\ fds' = fds \ {e.fd} /\ cnt' = cnt - 1 /\ UNCHANGED <<in, out>>
     /\ UNCHANGED <<sent, wr, at, rl, late>>
  \/ /\ ev = <<>> /\ P("events", IF cnt > 0 THEN "wait" ELSE "done")
     /\ UNCHANGED <<in, sent, wr, fds, ev, cnt, at, rl, out, late>>

\* The writers.  One that opens the FIFO again after its hang-up was returned is late.
Writer(f) ==
  /\ kind = "epoll_input" /\ pc \notin Over /\ UNCHANGED <<kind, pc, opt, fds, ev, cnt, at, rl, out>>
  /\ \/ /\ f \notin wr /\ (f \in fds \/ cnt + 1 = f) /\ sent[f] < MaxBytes /\ wr' = wr \cup {f}
        /\ late' = late \cup {x \in {f} : \E i \in 1..Len(ev) : ev[i].fd = f} /\ UNCHANGED <<in, sent>>
     \/ /\ f \in wr /\ f \in fds /\ sent[f] < MaxBytes /\ sent' = [sent EXCEPT ![f] = @ + 1]
        /\ in' = [in EXCEPT ![f] = Append(@, sent'[f])] /\ UNCHANGED <<wr, late>>
     \/ f \in wr /\ f \in fds /\ wr' = wr \ {f} /\ UNCHANGED <<in, sent, late>>
-----------------------------------------------------------------------------
(* select_mq: a child for each message queue; in[q] is the queue, ev the pipe *)

Terminal == 0
\* The record of a message on the pipe: the header, and len units of text.
Record(m) == <<[q |-> m.q, n |-> m.n, len |-> m.len]>> \o [i \in 1..m.len |-> [q |-> m.q, n |-> m.n, len |-> -i]]

\* Mutant of ChildMon: the header and the text are written one after the other.
ChildMonTwice(q) ==
  /\ kind = "select_mq" /\ UNCHANGED <<kind, pc, opt, sent, wr, fds, cnt, rl, out, late>>
  /\ \/ /\ at[q] = "run" /\ in[q] # <<>> /\ Head(in[q]).len <= MAX_MTEXT /\ Len(ev) < PipeSize
        /\ ev' = Append(ev, Record(Head(in[q]))[1]) /\ at' = [at EXCEPT ![q] = "text"] /\ UNCHANGED in
     \/ /\ at[q] = "text" /\ Len(ev) + Head(in[q]).len <= PipeSize
        /\ ev' = ev \o Tail(Record(Head(in[q]))) /\ at' = [at EXCEPT ![q] = "run"] /\ in' = [in EXCEPT ![q] = Tail(@)]

\* childMon(): one message after the other, each in one write().  msgrcv() fails for a longer one.
ChildMon(q) ==
  /\ kind = "select_mq" /\ at[q] = "run" /\ in[q] # <<>> /\ UNCHANGED <<kind, pc, opt, sent, wr, fds, cnt, rl, out, late>>
  /\ LET m == Head(in[q]) IN
     \/ /\ m.len <= MAX_MTEXT /\ Len(ev) + 1 + m.len <= PipeSize
        /\ ev' = ev \o Record(m) /\ in' = [in EXCEPT ![q] = Tail(@)] /\ UNCHANGED at
     \/ m.len > MAX_MTEXT /\ at' = [at EXCEPT ![q] = "failed"] /\ UNCHANGED <<in, ev>>

\* main(): children, then select(); the terminal first, then the header and the text.
\* A text of no bytes is taken for the end of file (late).
SelectMq ==
  \/ /\ cnt < 2 /\ P("start", "start") /\ at' = [at EXCEPT ![cnt + 1] = "run"] /\ cnt' = cnt + 1
     /\ UNCHANGED <<in, sent, wr, fds, ev, rl, out, late>>
  \/ /\ cnt < 2 /\ P("start", "failed") /\ at' = [c \in Src |-> IF at[c] = "run" THEN "failed" ELSE at[c]]
     /\ UNCHANGED <<in, sent, wr, fds, ev, cnt, rl, out, late>>
  \/ cnt = 2 /\ P("start", "select") /\ UNCHANGED <<in, sent, wr, fds, ev, cnt, at, rl, out, late>>
  \/ /\ P("select", IF Terminal \in wr THEN "tty" ELSE "pipe") /\ (ev # <<>> \/ Terminal \in wr)
     /\ fds' = {x \in {"pipe"} : ev # <<>>} /\ UNCHANGED <<in, sent, wr, ev, cnt, at, rl, out, late>>
  \/ /\ P("tty", IF fds = {} THEN "select" ELSE "pipe")
     /\ wr' \in {wr, wr \ {Terminal}} /\ UNCHANGED <<in, sent, fds, ev, cnt, at, rl, out, late>>
  \/ /\ P("pipe", "text") /\ out' = Append(out, [hdr |-> Head(ev), text |-> <<>>]) /\ ev' = Tail(ev)
     /\ UNCHANGED <<in, sent, wr, fds, cnt, at, rl, late>>
  \/ /\ pc = "text"
     /\ LET n == Last(out).hdr.len IN
        /\ P("text", IF n = 0 THEN "failed" ELSE "select") /\ (n = 0 \/ ev # <<>>)
        /\ out' = [out EXCEPT ![Len(out)].text = Upto(ev, n)] /\ ev' = Rest(ev, n)
        /\ late' = IF n = 0 THEN late \cup {"empty"} ELSE late
     /\ UNCHANGED <<in, sent, wr, fds, cnt, at, rl>>

\* Messages are sent; a line is typed, or the terminal is at its end and stays ready.
Sends(q, len) ==
  /\ kind = "select_mq" /\ pc \notin Over /\ sent[q] < MaxBytes /\ sent' = [sent EXCEPT ![q] = @ + 1]
  /\ in' = [in EXCEPT ![q] = Append(@, [q |-> q, n |-> sent'[q], len |-> len])]
  /\ UNCHANGED <<kind, pc, opt, wr, fds, ev, cnt, at, rl, out, late>>
Types == /\ kind = "select_mq" /\ pc = "select" /\ Terminal \notin wr /\ sent[1] = 1 /\ wr' = wr \cup {Terminal}
         /\ UNCHANGED <<kind, pc, opt, in, sent, fds, ev, cnt, at, rl, out, late>>
-----------------------------------------------------------------------------
(* epoll_flags_fork and multithread_epoll_wait: in[1] is the FIFO or pipe *)

Instance(c) == IF "s" \in opt THEN 0 ELSE c
\* Input, or the end of file after a writer that came since the file was opened (ev).
Ready(c) == in[1] # <<>> \/ (1 \notin wr /\ cnt > ev[c])
\* epoll_ctl(EPOLL_CTL_ADD) refuses EPOLLEXCLUSIVE with EPOLLONESHOT.
CtlRefuses == {"x", "o"} \subseteq opt

\* The parent's part: with -p and -s the descriptor that is added is not initialized, so
\* that the call fails, or another file is monitored (late).
EpollFlags ==
  \/ /\ P("start", "wait") /\ ev' = <<0, 0>> /\ at' = [c \in Src |-> "add"]
     /\ IF "s" \notin opt THEN UNCHANGED <<fds, late>>
        ELSE ~CtlRefuses /\ IF "p" \in opt THEN late' = {"other"} /\ UNCHANGED fds
                            ELSE fds' = {0} /\ UNCHANGED late
     /\ UNCHANGED <<in, sent, wr, cnt, rl, out>>
  \/ P("start", "failed") /\ UNCHANGED <<in, sent, wr, fds, ev, cnt, at, rl, out, late>>
  \/ /\ P("wait", "done") /\ \A c \in Src : at[c] \in Over
     /\ UNCHANGED <<in, sent, wr, fds, ev, cnt, at, rl, out, late>>

\* A child's own open() and epoll_ctl().
ChildAdd(c) ==
  /\ kind = "epoll_flags" /\ at[c] = "add" /\ UNCHANGED <<kind, pc, opt, in, sent, wr, cnt, out, late>>
  /\ \/ /\ "s" \in opt \/ ~CtlRefuses
        /\ at' = [at EXCEPT ![c] = "wait"]
        /\ ev' = IF "p" \in opt THEN [ev EXCEPT ![c] = cnt] ELSE ev
        /\ fds' = fds \cup ({c} \ {x \in {c} : "s" \in opt})
        /\ rl' = rl \cup {x \in {c} : "s" \notin opt /\ (in[1] # <<>> \/ (1 \notin wr /\ cnt > ev'[c]))}
     \/ ("p" \in opt \/ "s" \notin opt) /\ at' = [at EXCEPT ![c] = "failed"] /\ UNCHANGED <<ev, fds, rl>>

Leaves(c, i) == i = c /\ at'[c] = "done"

\* read() into a buffer that holds all that the FIFO does.
ReadAll(s) == <<>>

\* epoll_wait() of a child or a thread, and the loop or the end behind it.
WaitReturns(c) ==
  LET i == Instance(c) IN
  /\ at[c] = "wait" /\ pc \notin Over /\ (late = {"other"} \/ (i \in rl /\ Ready(c)))
  /\ at' = [at EXCEPT ![c] = IF "r" \in opt THEN "read" ELSE IF "l" \in opt THEN "wait" ELSE "done"]
  /\ fds' = {x \in fds : (x = i => "o" \notin opt) /\ ~Leaves(c, x)}
  /\ rl' = {x \in rl : (x = i => opt \cap {"e", "o"} = {}) /\ ~Leaves(c, x)}
  /\ out' = IF opt \cap {"e", "o"} # {} /\ late = {} THEN Append(out, i) ELSE out
  /\ UNCHANGED <<kind, pc, opt, in, sent, wr, ev, cnt, late>>

\* multithread_epoll_wait: the same call in a thread.
threadFunc(c) == kind = "mt_epoll" /\ WaitReturns(c)

\* The read() of -r, which does not block: the end of file ends the loop, EAGAIN does not.
ChildReads(c) ==
  /\ at[c] = "read" /\ kind = "epoll_flags" /\ in' = [in EXCEPT ![1] = ReadAll(@)]
  /\ at' = [at EXCEPT ![c] = IF "l" \notin opt \/ (in[1] = <<>> /\ 1 \notin wr) THEN "done" ELSE "wait"]
  /\ fds' = {x \in fds : ~Leaves(c, x)} /\ rl' = {x \in rl : ~Leaves(c, x)}
  /\ UNCHANGED <<kind, pc, opt, sent, wr, ev, cnt, out, late>>

\* An entry whose file is not ready any more leaves the ready list.
Drops(c) == /\ at[c] = "wait" /\ kind = "epoll_flags" /\ Instance(c) \in rl /\ ~Ready(c) /\ rl' = rl \ {Instance(c)}
            /\ UNCHANGED <<kind, pc, opt, in, sent, wr, fds, ev, cnt, at, out, late>>

\* What new input puts on the ready lists: of one instance at least if they are exclusive.
Notify == IF "x" \in opt /\ fds # {} THEN {rl \cup n : n \in SUBSET fds \ {{}}} ELSE {rl \cup fds}

\* A process that opens, writes to and closes the FIFO.
FifoWriter ==
  /\ kind = "epoll_flags" /\ UNCHANGED <<kind, pc, opt, fds, ev, at, out, late>>
  /\ pc = "wait" /\ ("p" \notin opt \/ \E c \in Src : at[c] \in {"wait", "read"})
  /\ \/ 1 \notin wr /\ cnt < MaxBytes /\ wr' = {1} /\ cnt' = cnt + 1 /\ UNCHANGED <<in, sent, rl>>
     \/ /\ 1 \in wr /\ sent[1] < MaxBytes /\ sent' = [sent EXCEPT ![1] = @ + 1]
        /\ in' = [in EXCEPT ![1] = Append(@, sent'[1])] /\ rl' \in Notify /\ UNCHANGED <<wr, cnt>>
     \/ 1 \in wr /\ wr' = {} /\ rl' \in Notify /\ sent' = [sent EXCEPT ![2] = @ + 1] /\ UNCHANGED <<in, cnt>>

\* multithread_epoll_wait: main() creates the threads, writes a byte, and exits with all of them.
MtEpoll ==
  \/ /\ cnt < 2 /\ P("start", "start") /\ cnt' = cnt + 1 /\ at' = [at EXCEPT ![cnt + 1] = "wait"]
     /\ fds' = {0} /\ ev' = <<2, 2>> /\ wr' = {1} /\ UNCHANGED <<in, sent, rl, out, late>>
  \/ P("start", "failed") /\ UNCHANGED <<in, sent, wr, fds, ev, cnt, at, rl, out, late>>
  \/ /\ cnt = 2 /\ P("start", "wrote") /\ in' = [in EXCEPT ![1] = <<1>>] /\ sent' = [sent EXCEPT ![1] = 1]
     /\ rl' = {0} /\ UNCHANGED <<wr, fds, ev, cnt, at, out, late>>
  \/ P("wrote", "done") /\ UNCHANGED <<in, sent, wr, fds, ev, cnt, at, rl, out, late>>
-----------------------------------------------------------------------------
(* t_select, t_select_simple and poll_pipes *)

\* Mutant of Nfds: the highest descriptor, not one more.
NfdsHighest(args) == Max({0} \cup {args[i].fd : i \in 1..Len(args)})

\* nfds: the highest descriptor that is given plus one.
Nfds(args) == Max({0} \cup {args[i].fd + 1 : i \in 1..Len(args)})

\* The arguments, refused one by one, and the descriptor sets (fds).
BuildSets ==
  LET bad == \E i \in 1..Len(opt) : opt[i].fd >= FD_SETSIZE \/ opt[i].how = {} IN
  /\ P("start", IF bad \/ (kind = "t_select_simple" /\ opt = <<>>) THEN "failed" ELSE "select")
  /\ IF bad THEN UNCHANGED <<fds, cnt>>
     ELSE cnt' = Nfds(opt) /\ fds' = UNION {{<<opt[i].fd, m>> : m \in opt[i].how} : i \in 1..Len(opt)}
  /\ UNCHANGED <<in, sent, wr, ev, at, rl, out, late>>

\* select(): some files are ready (late), or the time is over; it looks at those below nfds only.
SelectReturns ==
  \/ /\ P("select", "done") /\ late' \in SUBSET ({0, 1, FD_SETSIZE - 1} \X {"r", "w"})
     /\ fds' = {p \in fds : p[1] < cnt} \cap late'
     /\ out' = SetToSeq({p \in fds' : p[1] \in 0..cnt - 1})
     /\ rl' = fds /\ UNCHANGED <<in, sent, wr, ev, cnt, at>>
  \/ P("select", "failed") /\ UNCHANGED <<in, sent, wr, fds, ev, cnt, at, rl, out, late>>

TSelect == BuildSets \/ SelectReturns
TSelectSimple == BuildSets \/ SelectReturns

\* poll_pipes: a write() to a pipe that is full waits for ever.
PollPipes ==
  \/ /\ cnt < opt /\ P("start", "start") /\ cnt' = cnt + 1
     /\ \E f \in Src : Len(in[f]) < PipeSize /\ in' = [in EXCEPT ![f] = Append(@, cnt')]
     /\ UNCHANGED <<sent, wr, fds, ev, at, rl, out, late>>
  \/ /\ cnt = opt /\ P("start", "done") /\ out' = SetToSeq({f \in Src : in[f] # <<>>})
     /\ UNCHANGED <<in, sent, wr, fds, ev, cnt, at, rl, late>>
  \/ P("start", "failed") /\ UNCHANGED <<in, sent, wr, fds, ev, cnt, at, rl, out, late>>
-----------------------------------------------------------------------------
(* readn, writen, readLineBuf, sendfile, sendfd and recvfd.  in[2] keeps what in[1] held. *)

\* Mutant of Store: buf is not moved on.
StoreAtStart(buf, n, s) == s \o Rest(buf, Len(s))

\* s goes behind the n bytes that the buffer holds.
Store(buf, n, s) == Upto(buf, n) \o s

\* read() returns some of what is asked for; EINTR, which changes nothing, is a stuttering step.
readn ==
  /\ \/ /\ cnt < opt /\ in[1] # <<>> /\ P("start", "start")
        /\ \E k \in 1..Len(Upto(in[1], opt - cnt)) :
             in' = [in EXCEPT ![1] = Rest(@, k)] /\ cnt' = cnt + k /\ out' = Store(out, cnt, Upto(in[1], k))
     \/ (cnt = opt \/ in[1] = <<>>) /\ P("start", "done") /\ UNCHANGED <<in, cnt, out>>
     \/ cnt < opt /\ P("start", "failed") /\ UNCHANGED <<in, cnt, out>>
  /\ UNCHANGED <<sent, wr, fds, ev, at, rl, late>>

writen ==
  /\ \/ /\ cnt < opt /\ P("start", "start")
        /\ \E k \in 1..opt - cnt : cnt' = cnt + k /\ out' = out \o [i \in 1..k |-> cnt + i]
     \/ cnt = opt /\ P("start", "done") /\ UNCHANGED <<cnt, out>>
     \/ cnt < opt /\ P("start", "failed") /\ UNCHANGED <<cnt, out>>
  /\ UNCHANGED <<in, sent, wr, fds, ev, at, rl, late>>

\* Calls of readLineBuf() until one returns 0, with a buffer of opt characters; ev is the part
\* of rlbuf that is not used yet.  An error loses the characters of the line it interrupts (late).
readLineBuf ==
  LET n == Len(out) IN
  /\ \/ opt = 0 /\ P("start", "failed") /\ UNCHANGED <<in, ev, out, late>>
     \/ opt > 0 /\ P("start", "line") /\ out' = Append(out, <<>>) /\ UNCHANGED <<in, ev, late>>
     \/ /\ ev = <<>> /\ in[1] # <<>> /\ P("line", "line")
        /\ \E m \in 1..Len(Upto(in[1], RL_MAX_BUF)) : ev' = Upto(in[1], m) /\ in' = [in EXCEPT ![1] = Rest(@, m)]
        /\ UNCHANGED <<out, late>>
     \/ /\ ev = <<>> /\ late = {} /\ P("line", "start") /\ late' = {"error"} /\ out' = Front(out)
        /\ UNCHANGED <<in, ev>>
     \/ /\ P("line", "done") /\ ev = <<>> /\ in[1] = <<>> /\ out[n] = <<>> /\ out' = Front(out)
        /\ UNCHANGED <<in, ev, late>>
     \/ /\ P("line", "start") /\ ev = <<>> /\ in[1] = <<>> /\ out[n] # <<>> /\ UNCHANGED <<in, ev, out, late>>
     \/ /\ pc = "line" /\ ev # <<>> /\ P("line", IF Head(ev) = "nl" THEN "start" ELSE "line") /\ ev' = Tail(ev)
        /\ out' = IF Len(out[n]) < opt THEN [out EXCEPT ![n] = Append(@, Head(ev))] ELSE out
        /\ UNCHANGED <<in, late>>
  /\ UNCHANGED <<sent, wr, fds, cnt, at, rl>>

Orig == 1    \* the file offset at the call of sendfile()

\* The new offset is returned, and the file offset is what it was.
Finish == IF opt.offset = -1 THEN UNCHANGED <<cnt, ev>> ELSE ev' = <<cnt>> /\ cnt' = Orig

\* sendfile(): cnt is the offset of in_fd.  What write() does not take is lost (late), and an
\* error leaves the offset where it is.
sendfile ==
  LET left == opt.count - Len(out) data == Upto(Rest(in[1], cnt), Min({BUF_SIZE, left})) IN
  /\ \/ /\ P("start", "copy") /\ cnt' = IF opt.offset = -1 THEN Orig ELSE opt.offset
        /\ UNCHANGED <<ev, out, late>>
     \/ /\ left > 0 /\ data # <<>> /\ P("copy", "copy") /\ cnt' = cnt + Len(data) /\ UNCHANGED ev
        /\ \E m \in 1..Len(data) :
             out' = out \o Upto(data, m) /\ late' = IF m < Len(data) THEN {"short"} ELSE late
     \/ (left = 0 \/ data = <<>>) /\ P("copy", "done") /\ Finish /\ UNCHANGED <<out, late>>
     \/ left > 0 /\ P("copy", "failed") /\ cnt' \in {cnt, cnt + Len(data)} /\ UNCHANGED <<ev, out, late>>
     \/ P("start", "failed") /\ UNCHANGED <<cnt, ev, out, late>>
  /\ UNCHANGED <<in, sent, wr, fds, at, rl>>

\* sendfd(), or another sender's message; ev is what is on the socket.
Message == [type |-> IF opt \in {"one", "two"} THEN "SCM_RIGHTS" ELSE opt, len |-> IF opt = "two" THEN 2 ELSE 1]
sendfd ==
  /\ \/ P("start", "sent") /\ ev' = <<Message>>
     \/ P("start", "failed") /\ UNCHANGED ev
  /\ UNCHANGED <<in, sent, wr, fds, cnt, at, rl, out, late>>

\* The 'cmsghdr' that recvfd() accepts.
Valid(m) == m.type = "SCM_RIGHTS" /\ m.len = 1

\* recvfd(): recvmsg() has made the descriptors (CMSG_SPACE leaves room for a second one) before
\* the check; those of a message that is refused stay open.
recvfd ==
  /\ \/ /\ P("sent", IF Valid(Head(ev)) THEN "done" ELSE "failed")
        /\ ev' = <<>> /\ fds' = IF Head(ev).type = "SCM_RIGHTS" THEN 1..Head(ev).len ELSE {}
        /\ out' = IF Valid(Head(ev)) THEN <<1>> ELSE <<>>
        /\ late' = IF Valid(Head(ev)) \/ fds' = {} THEN {} ELSE {"left open"}
     \/ P("sent", "failed") /\ UNCHANGED <<ev, fds, out, late>>
  /\ UNCHANGED <<in, sent, wr, cnt, at, rl>>
-----------------------------------------------------------------------------
Main ==
  \/ kind = "epoll_input" /\ EpollInput
  \/ kind = "select_mq" /\ SelectMq
  \/ kind = "epoll_flags" /\ EpollFlags
  \/ kind = "mt_epoll" /\ MtEpoll
  \/ kind = "t_select" /\ TSelect
  \/ kind = "t_select_simple" /\ TSelectSimple
  \/ kind = "poll_pipes" /\ PollPipes
  \/ kind = "readn" /\ readn
  \/ kind = "writen" /\ writen
  \/ kind = "read_line_buf" /\ readLineBuf
  \/ kind = "sendfile" /\ sendfile
  \/ kind = "scm_functions" /\ (sendfd \/ recvfd)
Child(c) == ChildMon(c) \/ ChildAdd(c) \/ (kind = "epoll_flags" /\ WaitReturns(c)) \/ threadFunc(c) \/ ChildReads(c) \/ Drops(c)
Outside == (\E f \in Src : Writer(f)) \/ (\E q \in Src, len \in 0..MAX_MTEXT + 1 : Sends(q, len)) \/ Types \/ FifoWriter
Next == Main \/ (\E c \in Src : Child(c)) \/ Outside
-----------------------------------------------------------------------------
\* Every variable has its type; the counter and the sets stay in their bounds.
TypeOK ==
  /\ kind \in Kinds /\ pc \in Over \cup {"start", "wait", "events", "select", "tty", "pipe", "text", "wrote", "copy", "line", "sent"}
  /\ cnt \in 0..Max({MaxBytes, FD_SETSIZE, 2 * PipeSize, 6}) /\ wr \subseteq Src \cup {Terminal}
  /\ \A c \in Src : at[c] \in Over \cup {"none", "add", "run", "text", "wait", "read"}
  /\ kind \in Selects \/ rl \subseteq 0..2

Since(s, f) == SelectSeq(s, LAMBDA e : e.fd = f)
\* epoll_input.c: numOpenFds counts the open files, what is reported is what was written in its
\* order, and "all outstanding input ... is consumed ... before the file descriptor is closed"
\* unless a writer comes back after the event was returned.
InputConsumed ==
  kind = "epoll_input" =>
    /\ cnt = Cardinality(fds)
    /\ \A f \in Src :
         /\ LET r == Since(out, f) IN [i \in 1..Len(r) |-> r[i].n] \o in[f] = [i \in 1..sent[f] |-> i]
         /\ in[f] # <<>> => f \in fds \/ f \in late

Number(o) == o.hdr.n
\* select_mq.c: every message is reported whole, with its own text, and the messages of a
\* queue in the order in which they were sent, though the children share one pipe; the parent
\* takes the pipe to be at its end only after a message without text.
Relayed ==
  kind = "select_mq" =>
    /\ \A i \in 1..Len(out) : out[i].hdr.len >= 0 /\ (i < Len(out) \/ pc # "text" =>
         out[i].text = Tail(Record(out[i].hdr)))
    /\ \A q \in Src : LET r == SelectSeq(out, LAMBDA o : o.hdr.q = q) IN \A i \in 1..Len(r) : Number(r[i]) = i
    /\ pc = "failed" => cnt < 2 \/ "empty" \in late

\* epoll_flags_fork.c, multithread_epoll_wait.c: edge-triggered, an instance returns at most once
\* for each event, whoever waits on it, and with EPOLLONESHOT only once; children that read in a
\* loop (-l -r, no -o) are never all asleep while there is input.
WokenRight ==
  kind \in Epolls =>
    /\ \A i \in 0..2 : LET n == Len(SelectSeq(out, LAMBDA x : x = i)) IN
         n <= sent[1] + sent[2] /\ ("o" \in opt => n <= 1)
    /\ in[1] # <<>> /\ {"l", "r"} \subseteq opt /\ "o" \notin opt /\ late = {} /\ (\A c \in Src : at[c] \notin {"add", "failed"})
       /\ (\E c \in Src : at[c] # "done") => \E c \in Src : at[c] = "read" \/ (at[c] = "wait" /\ Instance(c) \in rl)

\* t_select.c, t_select_simple.c, poll_pipes.c: all the files that are monitored and ready are
\* reported, the highest descriptor included, and no others (rl keeps the sets of the call).
ReadyReported ==
  /\ kind \in Selects /\ pc = "done" => Range(out) = rl \cap late
  /\ kind = "poll_pipes" /\ pc = "done" => \A f \in Src : f \in Range(out) <=> in[f] # <<>>

NewLines(s) == {i \in 1..Len(s) : s[i] = "nl"}
LineFrom(s, a) == SubSeq(s, a, Min({Len(s)} \cup {i \in NewLines(s) : i >= a}))
LinesOf(s, n) == LET starts == SetToSortSeq({a \in 1..Len(s) : a = 1 \/ a - 1 \in NewLines(s)}, <)
                 IN [i \in 1..Len(starts) |-> Upto(LineFrom(s, starts[i]), n)]
\* rdwrn.c, read_line_buf.c, sendfile.c, scm_functions.c, however read() and write() divide the
\* data: readn() returns all n bytes or up to the end of file, each at its place; writen() writes
\* them once and in order; readLineBuf() returns the lines, without what exceeds the buffer;
\* sendfile() copies the range and leaves the offsets right, unless write() is short; recvfd()
\* returns a descriptor only if it is the one that arrived.
Transferred ==
  LET all == in[2] IN
  /\ kind = "readn" => /\ Upto(out, cnt) = Upto(all, cnt)
                       /\ pc = "done" => cnt = Min({opt, Len(all)})
  /\ kind = "writen" => out = [i \in 1..cnt |-> i] /\ (pc = "done" => cnt = opt)
  /\ kind = "read_line_buf" /\ late = {} /\ opt > 0 =>
       /\ pc = "start" => out = Upto(LinesOf(all, opt), Len(out))
       /\ pc = "done" => out = LinesOf(all, opt)
  /\ kind = "sendfile" /\ late = {} /\ pc = "done" =>
       LET from == IF opt.offset = -1 THEN Orig ELSE opt.offset IN
       /\ out = Upto(Rest(all, from), opt.count)
       /\ cnt = IF opt.offset = -1 THEN Orig + Len(out) ELSE Orig
       /\ opt.offset # -1 => ev = <<from + Len(out)>>
  /\ kind = "scm_functions" => (out # <<>> => fds = Range(out)) /\ (late # {} => opt = "two")

\* epoll_input once its writers have no more to write, select_mq with something in the pipe,
\* level-triggered waiters with input, poll_pipes unless a pipe can fill, and the functions
\* have something to come to ...
Due ==
  \/ kind = "epoll_input" /\ cnt = 2 /\ sent = [x \in Src |-> MaxBytes]
  \/ kind = "select_mq" /\ cnt = 2 /\ ev # <<>>
  \/ kind = "epoll_flags" /\ opt \in {{}, {"s"}} /\ in[1] # <<>>
  \/ kind = "poll_pipes" /\ opt <= PipeSize
  \/ kind \in {"readn", "writen", "read_line_buf", "sendfile"}

\* ... and this is it.
DueDone(f) ==
  \/ pc \in Over
  \/ kind = "select_mq" /\ ev = <<>>
  \/ kind = "epoll_input" /\ wr # {}
  \/ kind = "epoll_flags" /\ at[f] \in Over

=============================================================================
