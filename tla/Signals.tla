------------------------------ MODULE Signals -------------------------------
(***************************************************************************)
(* Programs that wait for signals, one of which (kind) runs:               *)
(* src/signals/t_sigsuspend.c (with sigsuspend(), and with pause() if      *)
(* USE_PAUSE is defined), sig_sender.c and sig_receiver.c, t_sigqueue.c    *)
(* and catch_rtsigs.c, ignore_pending_sig.c; src/altio/self_pipe.c and     *)
(* demo_sigio.c.  The kernel keeps one pending instance of a standard      *)
(* signal and queues realtime signals; it runs the handlers of all the     *)
(* signals that are pending and not blocked before the program goes on.    *)
(***************************************************************************)
EXTENDS Naturals, Sequences

CONSTANTS Kinds, MaxSent, PipeSize

VARIABLES kind, pc, pending, rt, blocked, disp,
          flag,        \* what a handler sets: gotSigquit, gotSigint, allDone, gotSigio
          cnt,         \* calls of the handler, for signals that do not set the flag
          caught,      \* values of the realtime signals caught
          pipe,        \* of self_pipe: bytes in the pipe
          input,       \* of demo_sigio: characters typed and not read
          read,        \* and those read
          sent         \* signals sent, and characters typed, so far

vars == <<kind, pc, pending, rt, blocked, disp, flag, cnt, caught, pipe, input, read, sent>>
io == <<pipe, input, read>>

Hash == 0
Standard == {"INT", "QUIT", "USR1"}
All == Standard \cup {"RT"}

Init ==
  /\ kind \in Kinds /\ pc = "start" /\ pending = {} /\ rt = <<>> /\ blocked = {} /\ disp = "default"
  /\ flag = FALSE /\ cnt = 0 /\ caught = <<>> /\ pipe = 0 /\ input = <<>> /\ read = <<>>
  /\ sent = [s \in All \cup {"key"} |-> 0]

Deliverable == pending \ blocked
Interrupted == Deliverable # {} \/ (rt # <<>> /\ "RT" \notin blocked)
Over == {"done", "killed"}
-----------------------------------------------------------------------------
(* Senders *)

Count(s) == sent[s] < MaxSent /\ sent' = [sent EXCEPT ![s] = @ + 1]

\* kill() by sig_sender, or a key of the terminal.
Kill(s) ==
  /\ pc \notin Over /\ Count(s)
  /\ pending' = IF disp = "ignore" /\ s = "INT" THEN pending ELSE pending \cup {s}
  /\ UNCHANGED <<kind, pc, rt, blocked, disp, flag, cnt, caught, io>>

\* One turn of the loop of t_sigqueue: the data goes up by one.
SigQueue ==
  /\ kind = "catch_rtsigs" /\ pc \notin Over /\ Count("RT")
  /\ rt' = Append(rt, sent["RT"])
  /\ UNCHANGED <<kind, pc, pending, blocked, disp, flag, cnt, caught, io>>

\* A character on the terminal of demo_sigio once O_ASYNC is set (one typed
\* earlier raises no signal and is read with the next one).
Key ==
  /\ kind = "demo_sigio" /\ pc \notin Over \cup {"start"} /\ Count("key")
  /\ \E c \in {Hash, sent["key"] + 1} : input' = Append(input, c)
  /\ pending' = pending \cup {"USR1"}
  /\ UNCHANGED <<kind, pc, rt, blocked, disp, flag, cnt, caught, pipe, read>>

Sender == (\E s \in Standard : kind # "demo_sigio" /\ Kill(s)) \/ SigQueue \/ Key
-----------------------------------------------------------------------------
(* Handlers.  SIGIO of demo_sigio stands as "USR1". *)

Flagging == CASE kind \in {"t_sigsuspend", "t_sigsuspend_pause"} -> {"QUIT"}
              [] kind \in {"sig_receiver", "catch_rtsigs"} -> {"INT"}
              [] kind = "demo_sigio" -> {"USR1"}
              [] OTHER -> {}
Handled == CASE kind \in {"t_sigsuspend", "t_sigsuspend_pause"} -> {"INT", "QUIT"}
             [] kind \in {"ignore_pending_sig", "self_pipe"} -> {"INT"}
             [] kind = "catch_rtsigs" -> {"INT", "USR1"}
             [] OTHER -> Standard

\* handler() of self_pipe writes a byte, unless the pipe is full (EAGAIN).
SelfPipeWrite == pipe' = IF kind = "self_pipe" /\ pipe < PipeSize THEN pipe + 1 ELSE pipe

\* sigsuspend() and pause() return once a handler has; the mask is restored.
Return == CASE pc = "sigsuspend" -> pc' = "test" /\ blocked' = {"INT", "QUIT"}
            [] pc = "pause" -> pc' = (IF kind = "catch_rtsigs" THEN "test" ELSE "count") /\ UNCHANGED blocked
            [] OTHER -> UNCHANGED <<pc, blocked>>

\* A signal is delivered: default action or handler.  The last one lets the
\* interrupted system call return.
Deliver(s) ==
  /\ s \in Deliverable /\ pc \notin Over /\ pending' = pending \ {s}
  /\ IF disp = "default" \/ s \notin Handled
     THEN pc' = "killed" /\ UNCHANGED <<blocked, flag, cnt, pipe>>
     ELSE /\ flag' = (flag \/ s \in Flagging) /\ cnt' = IF s \in Flagging THEN cnt ELSE cnt + 1
          /\ SelfPipeWrite
          /\ IF Deliverable = {s} /\ (rt = <<>> \/ "RT" \in blocked) THEN Return ELSE UNCHANGED <<pc, blocked>>
  /\ UNCHANGED <<kind, rt, disp, caught, input, read, sent>>

\* siginfoHandler() of catch_rtsigs for a realtime signal: in the order sent.
DeliverRt ==
  /\ rt # <<>> /\ "RT" \notin blocked /\ pc \notin Over /\ rt' = Tail(rt)
  /\ IF disp = "default"
     THEN pc' = "killed" /\ UNCHANGED <<blocked, caught, cnt>>
     ELSE /\ caught' = Append(caught, Head(rt)) /\ cnt' = cnt + 1
          /\ IF Deliverable = {} /\ Len(rt) = 1 THEN Return ELSE UNCHANGED <<pc, blocked>>
  /\ UNCHANGED <<kind, pending, disp, flag, io, sent>>

Delivery == DeliverRt \/ \E s \in Standard : Deliver(s)
-----------------------------------------------------------------------------
(* The programs.  A step is taken when no signal has to be delivered. *)

Step(k, from, to) == kind = k /\ pc = from /\ ~Interrupted /\ pc' = to
Same == UNCHANGED <<kind, pending, rt, caught, sent>>

\* Mutant of TSigsuspend: the mask is changed before pause() is called.
TSigsuspendSplit ==
  /\ \/ Step("t_sigsuspend", "start", "handlers") /\ blocked' = {"INT", "QUIT"} /\ UNCHANGED disp
     \/ Step("t_sigsuspend", "handlers", "test") /\ disp' = "handler" /\ UNCHANGED blocked
     \/ Step("t_sigsuspend", "test", IF flag THEN "restore" ELSE "critical") /\ UNCHANGED <<blocked, disp>>
     \/ Step("t_sigsuspend", "restore", "done") /\ blocked' = {} /\ UNCHANGED disp
     \/ Step("t_sigsuspend", "critical", "unblocked") /\ blocked' = {} /\ UNCHANGED disp
     \/ Step("t_sigsuspend", "unblocked", "sigsuspend") /\ UNCHANGED <<blocked, disp>>
  /\ Same /\ UNCHANGED <<flag, cnt, io>>

\* t_sigsuspend: block, establish handlers, loop with a critical section.
TSigsuspend ==
  /\ \/ Step("t_sigsuspend", "start", "handlers") /\ blocked' = {"INT", "QUIT"} /\ UNCHANGED disp
     \/ Step("t_sigsuspend", "handlers", "test") /\ disp' = "handler" /\ UNCHANGED blocked
     \/ Step("t_sigsuspend", "test", IF flag THEN "restore" ELSE "critical") /\ UNCHANGED <<blocked, disp>>
     \/ Step("t_sigsuspend", "restore", "done") /\ blocked' = {} /\ UNCHANGED disp
     \/ Step("t_sigsuspend", "critical", "sigsuspend") /\ blocked' = {} /\ UNCHANGED disp
  /\ Same /\ UNCHANGED <<flag, cnt, io>>

\* With USE_PAUSE: sigprocmask(), then pause(), and the count starts again.  The
\* signals stay unblocked from the first turn of the loop on.
TSigsuspendPause ==
  /\ \/ Step("t_sigsuspend_pause", "start", "handlers") /\ blocked' = {"INT", "QUIT"} /\ UNCHANGED disp
     \/ Step("t_sigsuspend_pause", "handlers", "test") /\ disp' = "handler" /\ UNCHANGED blocked
     \/ Step("t_sigsuspend_pause", "test", IF flag THEN "restore" ELSE "critical") /\ UNCHANGED <<blocked, disp>>
     \/ Step("t_sigsuspend_pause", "restore", "done") /\ blocked' = {} /\ UNCHANGED disp
     \/ Step("t_sigsuspend_pause", "critical", "unblocked") /\ blocked' = {} /\ UNCHANGED disp
     \/ Step("t_sigsuspend_pause", "unblocked", "pause") /\ UNCHANGED <<blocked, disp>>
     \/ Step("t_sigsuspend_pause", "count", "test") /\ UNCHANGED <<blocked, disp>>
  /\ cnt' = IF pc = "count" THEN 0 ELSE cnt
  /\ Same /\ UNCHANGED <<flag, io>>

\* sig_receiver: handlers, all signals blocked for a while, a loop until SIGINT.
SigReceiver ==
  /\ \/ Step("sig_receiver", "start", "block") /\ disp' = "handler" /\ UNCHANGED blocked
     \/ Step("sig_receiver", "block", "sleep") /\ blocked' = All /\ UNCHANGED disp
     \/ Step("sig_receiver", "block", "test") /\ UNCHANGED <<blocked, disp>>
     \/ Step("sig_receiver", "sleep", "test") /\ blocked' = {} /\ UNCHANGED disp
     \/ flag /\ Step("sig_receiver", "test", "done") /\ UNCHANGED <<blocked, disp>>
  /\ Same /\ UNCHANGED <<flag, cnt, io>>

\* catch_rtsigs: the same, but SIGINT is not blocked, and the loop calls pause().
CatchRtsigs ==
  /\ \/ Step("catch_rtsigs", "start", "block") /\ disp' = "handler" /\ UNCHANGED blocked
     \/ Step("catch_rtsigs", "block", "sleep") /\ blocked' = All \ {"INT"} /\ UNCHANGED disp
     \/ Step("catch_rtsigs", "block", "test") /\ UNCHANGED <<blocked, disp>>
     \/ Step("catch_rtsigs", "sleep", "test") /\ blocked' = {} /\ UNCHANGED disp
     \/ Step("catch_rtsigs", "test", IF flag THEN "done" ELSE "calling") /\ UNCHANGED <<blocked, disp>>
     \/ Step("catch_rtsigs", "calling", "pause") /\ UNCHANGED <<blocked, disp>>
  /\ Same /\ UNCHANGED <<flag, cnt, io>>

\* ignore_pending_sig: to ignore a signal discards the pending one.  cnt and sent
\* count again from where the handler is established the second time.
IgnorePendingSig ==
  /\ \/ Step("ignore_pending_sig", "start", "block") /\ disp' = "handler" /\ UNCHANGED <<blocked, pending, cnt, sent>>
     \/ Step("ignore_pending_sig", "block", "sleep") /\ blocked' = {"INT"} /\ UNCHANGED <<disp, pending, cnt, sent>>
     \/ Step("ignore_pending_sig", "sleep", "ignoring") /\ disp' = "ignore" /\ pending' = pending \ {"INT"} /\ UNCHANGED <<blocked, cnt, sent>>
     \/ /\ Step("ignore_pending_sig", "ignoring", "again") /\ disp' = "handler" /\ cnt' = 0
        /\ sent' = [s \in DOMAIN sent |-> 0] /\ UNCHANGED <<blocked, pending>>
     \/ Step("ignore_pending_sig", "again", "exit") /\ blocked' = {} /\ UNCHANGED <<disp, pending, cnt, sent>>
     \/ Step("ignore_pending_sig", "exit", "done") /\ UNCHANGED <<blocked, disp, pending, cnt, sent>>
  /\ UNCHANGED <<kind, rt, caught, flag, io>>

\* self_pipe: the pipe before the handler; select() again after EINTR, until the
\* pipe, or only another descriptor or the timeout ("quiet"), ends it; the bytes of
\* the pipe are read until EAGAIN.
SelfPipe ==
  /\ \/ Step("self_pipe", "start", "select") /\ disp' = "handler" /\ UNCHANGED pipe
     \/ pipe > 0 /\ Step("self_pipe", "select", "drain") /\ UNCHANGED <<disp, pipe>>
     \/ pipe = 0 /\ Step("self_pipe", "select", "quiet") /\ UNCHANGED <<disp, pipe>>
     \/ Step("self_pipe", "quiet", "done") /\ UNCHANGED <<disp, pipe>>
     \/ pipe > 0 /\ Step("self_pipe", "drain", "drain") /\ pipe' = pipe - 1 /\ UNCHANGED disp
     \/ pipe = 0 /\ Step("self_pipe", "drain", "report") /\ UNCHANGED <<disp, pipe>>
     \/ Step("self_pipe", "report", "done") /\ UNCHANGED <<disp, pipe>>
  /\ Same /\ UNCHANGED <<blocked, flag, cnt, input, read>>

\* demo_sigio: if the flag is set, clear it and read() until EAGAIN or a hash.  The
\* loop tests done only after the next read(), whose character is then dropped.
DemoSigio ==
  /\ \/ Step("demo_sigio", "start", "test") /\ disp' = "handler" /\ UNCHANGED <<flag, input, read>>
     \/ flag /\ Step("demo_sigio", "test", "read") /\ flag' = FALSE /\ UNCHANGED <<disp, input, read>>
     \/ /\ input # <<>> /\ Step("demo_sigio", "read", IF Head(input) = Hash THEN "extra" ELSE "read")
        /\ read' = Append(read, Head(input)) /\ input' = Tail(input) /\ UNCHANGED <<flag, disp>>
     \/ input = <<>> /\ Step("demo_sigio", "read", "test") /\ UNCHANGED <<flag, disp, input, read>>
     \/ /\ Step("demo_sigio", "extra", "done") /\ input' = (IF input = <<>> THEN input ELSE Tail(input))
        /\ UNCHANGED <<flag, disp, read>>
  /\ Same /\ UNCHANGED <<blocked, cnt, pipe>>

Program == TSigsuspend \/ TSigsuspendPause \/ SigReceiver \/ CatchRtsigs \/ IgnorePendingSig \/ SelfPipe \/ DemoSigio

Next == Sender \/ Delivery \/ Program

Spec == Init /\ [][Next]_vars
-----------------------------------------------------------------------------
\* The values of the variables: sigsuspend() and pause() wait with nothing blocked.
TypeOK ==
  /\ pending \subseteq Standard /\ blocked \subseteq All /\ disp \in {"default", "handler", "ignore"}
  /\ pc \in {"sigsuspend", "pause"} => blocked = {}

\* What each program reports agrees with what it was sent.  sig_receiver: a standard
\* signal is caught at most as often as it was sent, and not lost altogether.
\* catch_rtsigs: realtime signals are caught in the order and with the data of
\* t_sigqueue, none missing or twice.  ignore_pending_sig: a signal that was pending
\* when it was set to be ignored is never caught.  demo_sigio: no input is forgotten,
\* although the signal is not queued and the flag may be set while input is read.
\* self_pipe: a signal caught before select() returns makes the pipe readable, also
\* when the pipe was full.
SignalsAccounted ==
  /\ kind = "sig_receiver" /\ pc # "killed" =>
       cnt <= sent["USR1"] + sent["QUIT"] /\ (sent["USR1"] > 0 => cnt > 0 \/ "USR1" \in pending)
  /\ kind = "catch_rtsigs" /\ pc # "killed" => \A i \in 1..sent["RT"] : (caught \o rt)[i] = i - 1
  /\ kind = "ignore_pending_sig" /\ pc \in {"again", "exit", "done"} => cnt <= sent["INT"]
  /\ kind = "self_pipe" /\ pc = "select" => (cnt > 0 <=> pipe > 0)
  /\ kind = "demo_sigio" => (input # <<>> => flag \/ "USR1" \in pending \/ pc \in {"read", "extra", "done", "killed"})
=============================================================================
