----------------------------- MODULE ThreadLife -----------------------------
(***************************************************************************)
(* A main thread and one other thread, in one program (kind) of            *)
(* src/threads: thread_cleanup.c without an argument ("cleanup_cancel")    *)
(* and with one ("cleanup_signal"), thread_cancel.c ("cancel"), and        *)
(* strerror_test.c linked with strerror.c ("static"), strerror_tsd.c       *)
(* ("tsd") or strerror_tls.c ("tls").  sleep() orders nothing.             *)
(***************************************************************************)
EXTENDS Naturals

VARIABLES kind, mpc, tpc,  \* where the main thread and the other thread are
          mtx, glob,       \* holder of the mutex; the predicate variable
          request,         \* pthread_cancel() has been called
          end,             \* how the thread ended
          block,           \* the block of threadFunc() of thread_cleanup
          text, str,       \* strerror(): the text in each buffer, the buffer each thread got
          key, freed       \* of strerror_tsd: the key exists; buffers freed

vars == <<kind, mpc, tpc, mtx, glob, request, end, block, text, str, key, freed>>
cond == <<mtx, glob, block>>
err == <<text, str, key, freed>>

Cleanups == {"cleanup_cancel", "cleanup_signal"}
Strerrors == {"static", "tsd", "tls"}
Both == {"main", "other"}

Init ==
  /\ kind \in Cleanups \cup Strerrors \cup {"cancel"} /\ mpc = (IF kind \in Strerrors THEN "strerror" ELSE "create")
  /\ tpc = "none" /\ mtx = "nobody" /\ glob = 0 /\ request = FALSE /\ end = "no" /\ block = "none"
  /\ text = [b \in Both \cup {"buf"} |-> "none"] /\ str = [t \in Both |-> "none"] /\ key = FALSE /\ freed = {}

M(from, to) == mpc = from /\ mpc' = to /\ UNCHANGED <<kind, end>>
TGo(from, to) == mpc \notin {"done", "failed"} /\ tpc = from /\ tpc' = to /\ UNCHANGED <<kind, mpc, request>>
-----------------------------------------------------------------------------
(* What the programs have in common *)

Create(first, next) ==
  /\ \/ M("create", next) /\ tpc' = first
     \/ M("create", "failed") /\ UNCHANGED tpc
  /\ UNCHANGED <<request, cond, err>>

Join == M("join", "done") /\ end # "no" /\ UNCHANGED <<tpc, request, cond, err>>

Cancel == M("cancel", "join") /\ request' = TRUE /\ UNCHANGED <<tpc, cond, err>>

\* The thread acts on the request where it is, at a cancellation point.
Canceled(from) == request /\ TGo(from, "ended") /\ end' = IF from = "printf" THEN "canceled_in_printf" ELSE "canceled"
-----------------------------------------------------------------------------
(* thread_cleanup.c *)

\* Mutant of CleanupHandler: the mutex stays locked.
CleanupFreesOnly ==
  /\ TGo("free", "ended") /\ block' = "freed" /\ end' = (IF request THEN "canceled" ELSE "returned")
  /\ UNCHANGED <<mtx, glob, err>>

\* cleanupHandler(): the block is freed, then the mutex unlocked.
CleanupHandler ==
  \/ TGo("free", "unlock") /\ block' = "freed" /\ UNCHANGED <<mtx, glob, end, err>>
  \/ /\ TGo("unlock", "ended") /\ mtx' = "nobody" /\ end' = (IF request THEN "canceled" ELSE "returned")
     /\ UNCHANGED <<glob, block, err>>

\* A request wakes the thread for good.
Spurious == ~request /\ kind \in Cleanups /\ TGo("wait", "woken") /\ UNCHANGED <<cond, end, err>>

\* threadFunc(): pthread_cond_wait() has the mutex again when it returns and when
\* the cleanup handler of a canceled thread runs.  printf() may be a cancellation
\* point, before and after the handler is pushed.
CleanupThread ==
  \/ TGo("malloc", "printf") /\ block' = "allocated" /\ UNCHANGED <<mtx, glob, end, err>>
  \/ Canceled("printf") /\ UNCHANGED <<cond, err>>
  \/ TGo("printf", "lock") /\ UNCHANGED <<cond, end, err>>
  \/ mtx = "nobody" /\ TGo("lock", "test") /\ mtx' = "other" /\ UNCHANGED <<glob, block, end, err>>
  \/ glob = 0 /\ TGo("test", "wait") /\ mtx' = "nobody" /\ UNCHANGED <<glob, block, end, err>>
  \/ glob # 0 /\ TGo("test", "free") /\ UNCHANGED <<cond, end, err>>
  \/ mtx = "nobody" /\ TGo("woken", "test") /\ mtx' = "other" /\ UNCHANGED <<glob, block, end, err>>
  \/ request /\ mtx = "nobody" /\ TGo("wait", "free") /\ mtx' = "other" /\ UNCHANGED <<glob, block, end, err>>
  \/ CleanupHandler

\* main(): the predicate is set under the mutex, which is unlocked before the
\* condition variable is signaled.
CleanupMain ==
  \/ kind = "cleanup_cancel" /\ (Create("malloc", "cancel") \/ Cancel)
  \/ kind = "cleanup_signal" /\ Create("malloc", "lock")
  \/ mtx = "nobody" /\ M("lock", "set") /\ mtx' = "main" /\ UNCHANGED <<tpc, request, glob, block, err>>
  \/ M("set", "unlock") /\ glob' = 1 /\ UNCHANGED <<tpc, request, mtx, block, err>>
  \/ M("unlock", "signal") /\ mtx' = "nobody" /\ UNCHANGED <<tpc, request, glob, block, err>>
  \/ /\ M("signal", "join") /\ tpc' = (IF tpc = "wait" THEN "woken" ELSE tpc)
     /\ UNCHANGED <<request, cond, err>>
  \/ Join
-----------------------------------------------------------------------------
(* thread_cancel.c: sleep() is a cancellation point, printf() may be one *)

CancelThread ==
  \/ (Canceled("printf") \/ Canceled("sleep")) /\ UNCHANGED <<cond, err>>
  \/ TGo("printf", "sleep") /\ UNCHANGED <<cond, end, err>>
  \/ ~request /\ TGo("sleep", "printf") /\ UNCHANGED <<cond, end, err>>

CancelMain == Create("printf", "cancel") \/ Cancel \/ Join
-----------------------------------------------------------------------------
(* strerror() for the thread t *)

Buffer(t, b, e) == text' = [text EXCEPT ![b] = e] /\ str' = [str EXCEPT ![t] = b]

StrerrorStatic(t, e) == Buffer(t, "buf", e) /\ UNCHANGED <<key, freed>>

\* The first caller creates the key; the buffer is the thread's own.
StrerrorTsd(t, e) == key' = TRUE /\ Buffer(t, t, e) /\ UNCHANGED freed

StrerrorTls(t, e) == Buffer(t, t, e) /\ UNCHANGED <<key, freed>>

Strerror(t, e) == CASE kind = "static" -> StrerrorStatic(t, e)
                    [] kind = "tsd" -> StrerrorTsd(t, e)
                    [] kind = "tls" -> StrerrorTls(t, e)

\* strerror_test.c.  A thread's buffer goes with the thread: by destructor(), or
\* with the thread-local storage.
StrerrorTest ==
  \/ M("strerror", "create") /\ Strerror("main", "EINVAL") /\ UNCHANGED <<tpc, request, cond>>
  \/ Create("strerror", "join")
  \/ TGo("strerror", "exit") /\ Strerror("other", "EPERM") /\ UNCHANGED <<cond, end>>
  \/ /\ TGo("exit", "ended") /\ end' = "returned" /\ freed' = {str["other"]} \ {"buf"}
     /\ UNCHANGED <<cond, text, str, key>>
  \/ Join
-----------------------------------------------------------------------------
ThreadCleanup == kind \in Cleanups /\ (CleanupThread \/ CleanupMain)
ThreadCancel == kind = "cancel" /\ (CancelThread \/ CancelMain)
StrerrorPrograms == kind \in Strerrors /\ StrerrorTest

Next == Spurious \/ ThreadCleanup \/ ThreadCancel \/ StrerrorPrograms

Spec == Init /\ [][Next]_vars
-----------------------------------------------------------------------------
\* The values of the variables.
TypeOK ==
  /\ mtx \in Both \cup {"nobody"} /\ block \in {"none", "allocated", "freed"}
  /\ end \in {"no", "returned", "canceled", "canceled_in_printf"} /\ (end # "no" <=> tpc = "ended")

\* When main() has joined the thread: the mutex of thread_cleanup is free and the
\* block is, unless the thread was canceled in the printf() before its handler was
\* pushed; the thread was canceled just when main() asked for it; main()'s text is
\* its own, in a buffer that still exists, except with the static buffer.
LeftBehind ==
  mpc = "done" =>
    /\ kind \in Cleanups => mtx = "nobody" /\ (block = "freed" \/ end = "canceled_in_printf")
    /\ end # "returned" <=> kind \in {"cleanup_cancel", "cancel"}
    /\ kind \in Strerrors =>
         /\ str["main"] \notin freed
         /\ text[str["main"]] = IF kind = "static" THEN "EPERM" ELSE "EINVAL"

\* cleanupHandler() runs with the mutex and frees the block once.
HandlerHasMutex == tpc \in {"free", "unlock"} => mtx = "other" /\ block = (IF tpc = "free" THEN "allocated" ELSE "freed")
-----------------------------------------------------------------------------
(* The inductive invariant *)

\* thread_cleanup: the thread holds the mutex from its test to the end of the wait and in
\* the handler, main() holds it to set the predicate, and the handler frees the block.
CleanupInv ==
  /\ mpc \in {"create", "cancel", "lock", "set", "unlock", "signal", "join", "done", "failed"}
  /\ kind = "cleanup_cancel" => glob = 0 /\ mpc \in {"create", "cancel", "join", "done", "failed"}
  /\ kind = "cleanup_signal" => mpc # "cancel"
  /\ tpc \in {"none", "malloc", "printf", "lock", "test", "wait", "woken", "free", "unlock", "ended"}
  /\ mtx = "other" <=> tpc \in {"test", "free", "unlock"}
  /\ mtx = "main" <=> mpc \in {"set", "unlock"}
  /\ tpc \in {"none", "malloc"} <=> block = "none"
  /\ tpc \in {"printf", "lock", "test", "wait", "woken", "free"} => block = "allocated"
  /\ tpc = "unlock" => block = "freed"
  /\ tpc = "ended" => block = "freed" \/ end = "canceled_in_printf"
  /\ tpc \in {"free", "unlock"} /\ kind = "cleanup_cancel" => request

CancelInv ==
  /\ mpc \in {"create", "cancel", "join", "done", "failed"} /\ mtx = "nobody"
  /\ tpc \in {"none", "printf", "sleep", "ended"}

\* The buffer of strerror() that a thread is given, and what main()'s text becomes when
\* the other thread calls strerror() too.
BufferOf(t) == IF kind = "static" THEN "buf" ELSE t
StrerrorInv ==
  /\ mpc \in {"strerror", "create", "join", "done", "failed"} /\ tpc \in {"none", "strerror", "exit", "ended"}
  /\ mtx = "nobody" /\ freed \subseteq {"other"}
  /\ DOMAIN text = Both \cup {"buf"} /\ DOMAIN str = Both
  /\ tpc \in {"exit", "ended"} => str["other"] = BufferOf("other")
  /\ mpc # "strerror" =>
       /\ str["main"] = BufferOf("main")
       /\ text[BufferOf("main")] = IF kind = "static" /\ tpc \in {"exit", "ended"} THEN "EPERM" ELSE "EINVAL"

IInv ==
  /\ TypeOK /\ kind \in Cleanups \cup Strerrors \cup {"cancel"}
  /\ request => kind \in {"cleanup_cancel", "cancel"} /\ mpc \in {"join", "done"}
  /\ end \in {"canceled", "canceled_in_printf"} => request
  /\ end = "returned" => kind \notin {"cleanup_cancel", "cancel"}
  /\ mpc = "done" => end # "no"
  /\ mpc \in {"strerror", "create", "failed"} => tpc = "none"
  /\ kind \in Cleanups => CleanupInv
  /\ kind = "cancel" => CancelInv
  /\ kind \in Strerrors => StrerrorInv
=============================================================================
