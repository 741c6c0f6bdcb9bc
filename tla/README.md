# A verification project for the TLPI programs

`src/` holds the example programs of *The Linux Programming Interface*: about
600 programs in C and a few in Go, one directory per chapter.  Most show one
system call.  Some are real protocols between threads, processes, signals,
files and the kernel, and these are the ones a test hardly reaches.  This
project models them in TLA+, checks the models with TLC on small instances,
and proves the most important invariants with TLAPS for all instances.

What lies outside `src/` (mutexes, pipes, signals, inotify, libacl, the BPF
machine ...) is modelled from the way the programs use it and is marked
external in `PROJECT.json`.

## How it is built

* One module per program, or per group of programs that talk to each other.
  Variables are the program's state and the kernel's; one action per step
  between two points where another process or thread can intervene; guards
  are the code's conditions and early returns.
* The names of the source are kept where TLA+ allows it.
* Every error path that a program has is an action or a disjunct.  A system
  call that may fail fails nondeterministically where the program handles the
  failure.
* Operators whose comment begins with "Mutant of" are plausible mistakes.
  `PROJECT.json` says which property each one must break.
* *Groups.*  Small programs that work on the same kind of object share a module,
  with a variable `kind` that is chosen in `Init` and says which of them runs.
* *Suites.*  A run of TLC instantiates several programs side by side:
  `MCThreads`, `MCServers`, `MCProcesses`, `MCSockets` and `MCTools` have a variable
  `program`, chosen in `Init` and constant afterwards.  Each behaviour is a
  behaviour of one program; the variables of the others are 0.  The properties
  of a suite are conjunctions of `program = "..." => ...`.

## Modules

| module | models | kind |
|---|---|---|
| `Pthreads` | mutexes and condition variables | external |
| `ProdConsCv` | `threads/prod_cons_cv.c` | program |
| `ProdCondvar` | `threads/prod_condvar.c`, `prod_no_condvar.c` | program, in `MCThreads` |
| `ThreadMultijoin` | `threads/thread_multijoin.c` | program, in `MCThreads` |
| `Barrier` | `threads/pthread_barrier_demo.c` | program, in `MCThreads` |
| `OneTimeInit` | `threads/one_time_init.c` | program, in `MCThreads` |
| `ThreadIncr` | `threads/thread_incr.c`, `thread_incr_{mutex,rwlock,spinlock}.c`, `thread_lock_speed.c`, `psem/thread_incr_psem.c` | group, in `MCThreads` |
| `ThreadLife` | `threads/thread_cleanup.c`, `thread_cancel.c`, `strerror*.c` | group, in `MCThreads` |
| `InotifyKernel` | the directory tree, watches and the event queue | external |
| `InotifyDtree` | `inotify/inotify_dtree.c` | program |
| `InotifyDtree_proofs` | theorems about `InotifyDtree` | proofs |
| `SvshmXfr` | `svshm/svshm_xfr_writer.c`, `svshm_xfr_reader.c`, `svsem/binary_sems.c` | program |
| `Stream` | what a transfer promises: the abstract specification | abstract |
| `ProducerConsumer_proofs` | theorems about `SvshmXfr`, that it implements `Stream` included, and about `ProdConsCv` | proofs |
| `SvmsgFile` | `svmsg/svmsg_file_server.c`, `svmsg_file_client.c`; lemmas about them | programs, in `MCServers` |
| `FifoSeqnum` | `pipes/fifo_seqnum_server.c`, `fifo_seqnum_client.c` | programs, in `MCServers` |
| `PidFile` | `filelock/create_pid_file.c`, `region_locking.c` | program, in `MCServers` |
| `Semaphores` | `svsem/svsem_good_init.c`, `svsem_bad_init.c`, `svsem_op.c` and the other commands, `event_flags.c`; `psem/psem_tty_lockstep_*.c` and the commands on a named semaphore; `pshm/pshm_seqnum_*.c` | group, in `MCSockets` |
| `SimpleInit` | `namespaces/simple_init.c` | program, in `MCProcesses` |
| `UsernsExec` | `namespaces/userns_child_exec.c`, `userns_functions.c`, `cap/cap_functions.c` | program, in `MCProcesses` |
| `Signals` | `signals/t_sigsuspend.c`, `sig_sender.c`, `sig_receiver.c`, `t_sigqueue.c`, `catch_rtsigs.c`, `ignore_pending_sig.c`; `altio/self_pipe.c`, `demo_sigio.c` | programs, in `MCProcesses` |
| `Timers` | `timers/real_timer.c`, `ptmr_*.c`, `demo_timerfd.c`, `timerfd_simple.c`, `timed_read.c`, `simple_timed_read.c` | group, in `MCProcesses` |
| `Sleeps` | `timers/t_nanosleep.c`, `t_clock_nanosleep*.c`, `cpu_*burner.c` | group, in `MCProcesses` |
| `Children` | the programs of `procexec/` and `pipes/` that create children, both `system()`, `execlp()` | group, in `MCProcesses` |
| `Children_proofs` | lemmas about `Children` | proofs, used by `MCProcesses` |
| `Sessions` | `tty/test_tty_functions.c`, `no_echo.c`; `pgsjc/handling_SIGTSTP.c`, `orphaned_pgrp_SIGHUP.c`, `disc_SIGHUP.c`; `daemons/daemon_SIGHUP.c`; `pty/script.c`, `unbuffer.c`, `pty_fork.c` and what they call | group, in `MCProcesses` |
| `Sessions_proofs` | lemmas about `Sessions` | proofs, used by `MCProcesses` |
| `ScmPassing` | `sockets/scm_rights_*.c`, `scm_multi_*.c`, `scm_cred_*.c`, `unix_sockets.c` | programs, in `MCSockets` |
| `SeqnumServer` | `sockets/is_seqnum_*.c`, `is_seqnum_v2_*.c`, `us_seqnum_single_*.c`, `inet_sockets.c`, `read_line.c` | programs, in `MCSockets` |
| `EchoServer` | `sockets/is_echo_sv.c`, `is_echo_v2_sv.c`, `is_echo_cl.c`, `us_xfr_*.c`, `us_xfr_v2_*.c` | programs, in `MCSockets` |
| `DatagramServer` | `sockets/ud_ucase_*.c`, `i6d_ucase_*.c`, `id_echo_*.c` | programs, in `MCSockets` |
| `MqNotify` | `pmsg/mq_notify_*.c`, `pmsg_send.c` | programs, in `MCServers` |
| `IoCalls` | `altio/epoll_input.c`, `select_mq.c`, `epoll_flags_fork.c`, `multithread_epoll_wait.c`, `t_select*.c`, `poll_pipes.c`; `sockets/rdwrn.c`, `read_line_buf.c`, `sendfile.c`, `scm_functions.c` | group, in `MCSockets` |
| `SharedFiles` | `filelock/i_fcntl_locking.c`, `t_flock.c`; `fileio/atomic_append.c`, `bad_exclusive_open.c`, `seek_io.c`, `ex.tee.c`, `copy.c`; `mmap/mmcopy.c`; the commands `svmsg_*`, `pmsg_*`, `pshm_*`, `svshm_*`; `memfd/`; `proc/setenv.c` | group, in `MCSockets` |
| `AclUpdate` | `acl/acl_update.c` | program, in `MCTools` |
| `NamespacesOf` | `namespaces/namespaces_of.go`, `pid_namespaces.go`, `userns_overview.go` | programs, in `MCTools` |
| `Seccomp` | the seven filters of `seccomp/` and the calls of their programs | programs, in `MCTools` |
| `ViewCgroups` | `cgroups/view_v2_cgroups.go` | program, in `MCTools` |
| `WrapText` | the line breaking of the Go programs | operator loop, in `MCTools` |
| `MCThreads`, `MCServers`, `MCProcesses` | the suites, with their theorems | suites and proofs |
| `MCSockets`, `MCTools`, `MCInotifyDtree` | the other suites, and the instances of `InotifyDtree` | suites |

In the suites with theorems each program has a section: its `INSTANCE`, its inductive
invariant (if that is not in its own module) and the lemmas that its steps keep
it.  The suite itself, its properties and its theorems follow.

### How state and actions correspond to the code

* **`ProdConsCv`**: the counters are the globals of the program; `pc` of a
  thread is where it stands in `producer()` or `consumer()`.  A thread between
  two mutex operations is one step, because everything it touches there is
  protected; the `usleep()` calls are interleaving.
* **`InotifyDtree`**: `cache` is `wlCache`; `pc` says which of the walk
  (`nftw()`), the event loop, the second `read()` with its alarm, the removal
  of a subtree or the command loop runs.  Every `inotify_add_watch()`,
  `inotify_rm_watch()` and every directory read of a walk is a step of its
  own, since other processes change the tree between any two of them.
  `InotifyKernel` keeps watches on inodes, appends events, merges nothing and
  overflows at `QMax`.  The other processes first change the tree and then
  notify, as the kernel does.
* **`SvshmXfr`**: writer and reader with the two binary semaphores;
  the shared segment is a count and a block.  It implements `Stream` under the
  mapping given at the end of the module.
* **`SvmsgFile`**: server, its children, the clients, their message queues
  (`QMax` messages long) and SIGCHLD, which is pending or not.
* **`FifoSeqnum`**: `open()` of a FIFO has two halves, because it blocks until
  the other side opens; clients may be killed at any step.
* **`PidFile`**: a file is an identity, and the name refers to one or none; so
  a lock is on a file that may no longer have the name.
* **`SimpleInit`**: init, its children and the processes that it adopts; who
  has the terminal; SIGCHLD and its handler.
* **`UsernsExec`**: parent and child, the pipe as the number of its write
  ends, the two maps, `setgroups`, and the credentials of the child with the
  kernel's rules for `setuid()` and `execve()`.
* **`Signals`**: a signal is pending, blocked or being handled; real-time signals
  are queued, others are not.  A test of a flag and the wait after it are two
  steps unless the call makes them one (`sigsuspend()`).
* **`ScmPassing`**: a receiver binds a path that a sender resolves; ancillary data
  have sizes, since the programs size their buffers and derive counts from
  lengths.
* **`SeqnumServer`**: an iterative server, its backlog, the lines as sequences of
  digits, the counter modulo 2^32 and its `%d`.  `LineServer`, `SingleServer`
  and the like are the whole loops of the variants.
* **`EchoServer`**: server, a child per connection, SIGCHLD, and the client's
  writer and reader; each direction of a connection holds `Cap` units.
* **`DatagramServer`**: mailboxes; the network takes away, copies and reorders
  datagrams unless they are on UNIX domain sockets.
* **`MqNotify`**: the length of the queue, the registration that the kernel
  forgets when it notifies, and where the program or its threads stand.
* **`AclUpdate`**: an ACL is a function from (tag, qualifier) to permissions.
* **`NamespacesOf`**: the map of namespaces is a function; the processes that
  are scanned end and move meanwhile.
* **`Seccomp`**: the filters are sequences of instructions that a small machine
  interprets, so that the hand-counted jump offsets are what is checked.
* **`ViewCgroups`**: the walk holds a list of directories still to be visited,
  and cgroups are removed during the walk.
* **`ThreadIncr`**: an increment is a load into `loc` and a store of `loc + 1`; the
  four kinds of lock are one cell that is free or taken, initialised by main in all
  programs but the one with the static mutex.
* **`ThreadLife`**: cancellation takes effect at a cancellation point only
  (`pthread_cond_wait()`, `printf()`, `sleep()`); a cleanup handler runs after the
  mutex has been taken again.  The buffers of the three `strerror()` are
  one static buffer, one per thread until the destructor frees it, or one per
  thread as long as the thread exists.
* **`Timers`**: a timer that is armed expires at any time; an expiration that
  finds the last notification undelivered is an overrun.  Handlers run between
  any two steps of main; notification threads run beside each other.
* **`Sleeps`**: time is a number of ticks, so a sleep, an interruption and the gap
  before the next sleep have lengths.  Conversions between seconds and
  nanoseconds keep their carries.
* **`Children`**: each child is born, runs, stops and ends by its own steps; a
  pipe is its bytes and the sets of processes that have each end open, so an
  end of file comes only when the last write end is closed.  `system()` is
  modelled with the mask and the dispositions it sets, in an environment where
  the caller has a child of its own and SIGCHLD, SIGINT in any state.
* **`Sessions`**: the settings of the terminal with who has set them; SIGTSTP
  with its disposition, mask and pending state; the daemon's configuration as a
  version number; a relay's two directions as counters; `ptyFork()` as a table of
  descriptors in each process.
* **`Semaphores`**: an object is a number that a key or a name may lead to, so a
  process may hold one that has been removed and created again; `ledger` is what
  the values should be if no completed operation is lost.
* **`IoCalls`**: what is written is numbered, so that loss, repetition and order
  show; `rl` is the ready list of epoll, in which an edge-triggered entry is
  removed when it is returned.  `read()` and `write()` transfer any part.
* **`SharedFiles`**: `told` is what a process knows about its locks, `file` what
  the kernel has.  Each system call is a step, so that two processes interleave
  between `lseek()` and `write()`, `open()` and `open()`, `shm_open()` and
  `ftruncate()`.

## Runs

| run | properties | what it shows |
|---|---|---|
| `prod_cons_cv` | `TypeOK`, `NoSleeperLeftBehind`, `UnitsConserved`, `ExitByLast`, `Terminates` | 2 producers, 4 consumers, 3 units (more sleepers than broadcasts): no sleeper without a producer that will still broadcast, no unit lost, `exit()` by the last consumer only, termination |
| `svshm_xfr` | `XfrTypeOK`, `Exclusive`, `ReportsAgree`, `StreamSpec`, `TransferEnds` | 3 blocks, the reader started up to 3 times: exclusive access, both sides report the same totals, `Stream` is implemented, the transfer ends |
| `dtree` | `TypeOK`, `WdUnique`, `NoForgottenWatch`, `StaleExplained` | 2 processes, 3 operations of any kind at any time, queue of 3, two roots; and one root with user commands and early alarms: cache and kernel watches correspond one to one, and every stale entry is explained by an event still to be read or an overflow |
| `dtree_tracking` | `CacheConsistent`, `Converges`, `Responsive` | in the three situations that the program can follow, its cache equals the tree whenever it is idle, and it becomes idle again |
| `threads` | `TypeOK`, `UnitsCounted`, `ThreadsMeet`, `ProgramsEnd` | the smaller thread programs: counters agree with threads, no increment under a lock is lost, nothing is initialised twice, barriers keep step, a canceled thread leaves nothing locked or allocated, everything ends |
| `servers` | `TypeOK`, `Delivered`, `HeldAlone`, `Answered` | clients that are killed at any moment: unique numbers, whole files, no queue or zombie left, every request answered; one daemon per PID file; no message forgotten by a reader that `mq_notify()` wakes |
| `processes` | `TypeOK`, `PromptInForeground`, `ReportsTrue`, `Restored`, `CommandEquipped`, `ProgramsEnd` | what is reported about signals, timers, clocks, children and shells is true; masks, dispositions, descriptors and terminal settings are put back; commands of `userns_child_exec` have their maps and capabilities; every zombie is reaped and no wakeup is lost |
| `tools` | `TypeOK`, `AclsRight`, `Listed`, `Verdicts` | valid ACLs at every moment, complete namespace and cgroup listings with lines broken in the right places, filters that do what their comments say |
| `sockets` | `TypeOK`, `Exchanged`, `InputHandled`, `SharedKept`, `Served` | descriptors, credentials, sequence numbers, streams and datagrams arrive as sent; input on several files is all reported, partial transfers are completed; locks exclude each other and shared files, queues, segments, semaphores and the environment keep what was put there; nobody waits for ever |
| `dtree_stale_rfds` | `CommandsServed` | violation: after command `0` the program may block in `read()` |
| `simple_init_pause` | `PauseInterrupted` | violation: `pause()` may miss the signal that it waits for |
| `namespaces_of_subtree` | `NoPanic` | violation: `--subtree` may look up a namespace that the scan did not see |

The properties of a suite are conjunctions of properties of its modules, where each
is stated and explained beside the program: `SharedKept`, for example, is
`LocksHeld`, `NothingOverwritten`, `MessagesKept`, `StringWhole`, `ObjectsKept`
and `ContentRight` of `SharedFiles`.

### Bounds

The bounds are in the `.cfg` files and the `MC` modules.  They were chosen so
that the interesting case happens: in `prod_cons_cv` there are more consumers
than wakeups; the queue of the file server holds one message, so a child blocks;
the inotify queue of 3 overflows with 3 operations, and of 2 in the scenario
`overflow`; the directory tree has depth 3, so that a subtree with a subtree is
renamed; `numBarriers` is 3 for 3 threads, so a fast thread meets the barrier
twice; the counter of the FIFO server wraps after 4 numbers (`IntRange`), after which
`Unique` claims nothing, as it does when a process ID is used again (`MaxRuns` is 1).  The seccomp calls are all the numbers that
the filters mention, with and without the x32 bit, and their neighbours.
In `sockets` one client's input exceeds all the socket buffers together (`Cap` is
1, the input 4), a request is longer than the line buffer, control buffers of 27
and 52 bytes cut the credentials and the list of descriptors, and the 32-bit
counter is one of 7 bits that starts just below its end.  In the groups, buffers
are smaller than the data and data do not divide evenly into them: pipes hold 2
units of 3, reads take 2, a queue holds 2 messages and three processes use it;
an increment is repeated 3 times by each thread, so that a stale store can undo several
increments of the other one; a timer expires while its last notification is pending or being
handled, and `PipeSize` signals fill the pipe of `self_pipe`; `NANO` is 2, so that adding nanoseconds carries; there are 3 children, so that
two end while the handler for the first runs; a name may lead to an object
that was removed and created again (`MaxObj`).  `MaxOps`, `MaxRuns`,
`MaxStarts`, `MaxFiles`, `MaxDup`, `MaxDue`, `MaxInt`, `MaxTicks`, `MaxIntr`,
`MaxSets`, `MaxConf` and `MaxBytes` bound the environment only.

### Fairness

Weak fairness of each thread or process that the program itself runs: the
scheduler does not starve a runnable thread.  No fairness for what need not
happen: starting a client, failing calls, kills, the end of a user's command,
file-system operations, spurious wakeups.  `ProgramsEnd` excludes behaviours
with spurious wakeups for ever, since POSIX allows any number of them.  A timer that
is armed expires and what the network does not lose is delivered.  A mutex
is never requested for ever while it is released again and again except in the
polling program `prod_no_condvar`, about which no liveness is claimed.

`CHECK_DEADLOCK FALSE` is used where a program ends (a server suite is quiet
when no client is started) and nothing is left to do.

## Proofs

What is proved holds for every value of the constants that satisfies the named
assumptions: any number of threads, clients, processes, children, messages, any sizes of
queues and buffers, any input.  The shape is the same everywhere.  The invariants that the
runs check are not inductive, because they speak of what a user sees and not of where the
processes stand; so each program has an inductive invariant (`IInv`, or a name that ends in
`Inv`) that adds it.  TLC has checked it first.  There is a lemma per action or per
process, a lemma that the invariant implies what is claimed, and the theorem.  In a suite
`IInv` has one conjunct per program; the step of one program leaves the variables of the others.

* **`InotifyDtree_proofs`**: for every closed tree, any processes, any queue length and any
  interleaving, `TypeOK`, `WdUnique`, `NoForgottenWatch` and `StaleExplained`.
  `NoForgottenWatch` needs `EventsTruthful`: an event in the queue or in the buffer that
  says that a watch has ended is true, and stays true because descriptors are never
  used again (`WatchesNumbered`).  `StaleExplained` needs the converse (`StaleTold`): as
  long as a cached descriptor has no watch there is an event in the queue or the buffer
  that says so, or an overflow.  It needs `OneWatch`, since an inode that goes away
  is reported for one descriptor only, and `TreeFinite`, since `umount()` has an event for
  every directory.  The facts about sequences are stated once at the beginning.
* **`ProducerConsumer_proofs`**: of `SvshmXfr`, `XfrTypeOK`, `Exclusive`, `ReportsAgree`, and the two programs
  implement `Stream` with room for one block.  Who may touch the segment depends on both
  semaphores and both program counters: `XfrIInv` is a disjunction of three phases, `Setup`,
  `Loop` and `Removal`; in `Loop` one of five situations holds (either side's semaphore is
  available, either side has reserved it, or the turn was lost with a failed `read()` or
  `write()`).  `Counted` says what each side still has to add to its totals in each of them.
  `Refinement` maps each step to a step of `Stream` or a stutter.
  Of `ProdConsCv`: `TypeOK`, `NoSleeperLeftBehind`, `UnitsConserved` and
  `ExitByLast`.  That a producer will still broadcast follows only if `done` flags, totals
  and program counters agree, and `ExitByLast` needs `numLiveCons` to be the number of
  consumers whose `done` is false.  `IInv` adds these; `NeutralStep` is for the steps
  that only move a `pc`.
* **`MCThreads`**: `TypeOK`, `UnitsCounted` and `ThreadsMeet` of all
  six thread programs.  `ProdCondvar`: available and consumed units are the produced
  ones, and once `done` is set nothing is left.  `ThreadMultijoin`: the counters are
  cardinalities of sets of table entries, and the position in main's scan tells which are
  joined.  `Barrier`: all threads have the same `Level`, the barriers passed, where a
  thread released but not yet counted has passed one more.  `OneTimeInit`: the mutex belongs to the
  thread inside, and `called` to the counts of begun and ended calls.  `ThreadIncr`: with a
  lock, the number is the sum of the completed turns and the value loaded is current;
  without one it is at least 2.  `ThreadLife`: where the canceled thread stands, and
  who has the mutex and the block then.
* **`MCServers`** and **`SvmsgFile`**: `TypeOK`, `Delivered` and `HeldAlone`.
  `FifoSeqnum`: as long as neither the counter has wrapped nor a process ID was used again
  (`Fresh`), a request is in one place (`Unanswered`), every number given out is below
  `seqNum` (`Numbers`), and what was granted or is under way is disjoint (`Disjoint`).
  `SvmsgFile`: a request is sent and served once (`Requested`), the queue continues what
  the client has got (`Stream`) and that is a beginning of its file (`Received`).
  `PidFile`: the lock of a file belongs to a process that has that file open; without
  deletion there is one file.  `MqNotify`: of a registration, a pending signal, a flag set
  by the handler, a starting thread and a thread or a main about to register there is
  exactly one (`OneOfThem`).
* **`MCProcesses`**, **`Children_proofs`** and **`Sessions_proofs`**: `TypeOK`, `PromptInForeground`, `ReportsTrue`, `Restored` and
  `CommandEquipped`, which is an invariant and an action property.
  - `simple_init`: only the child created last is alive, and SIGCHLD is pending or handled only when it
    is gone (`AloneIInv`); with orphans only the types are claimed.
  - `userns_child_exec`: the parent has the write end until the maps are written, and the
    child past `read()` finds no writer (`UsernsIInv`).
  - `Signals`: where each program waits with which mask, that what is caught or pending was
    sent, and that the queue of `catch_rtsigs` continues what was caught (`SigInv`).
  - `Timers`: without an overlap a timer has one thread that has still to count, and the
    alarm of a timed read is the only one (`TimeInv`).
  - `Sleeps`: elapsed time is the requested time and the gaps, through the carries of the
    conversions (`NapSleep`); a burner that does not report is within the second it reported
    last (`NapBurn`).  The facts about `\div` and `%` are stated first (`DivMod`).
  - `Children` (in `Children_proofs`): one invariant per kind of program.  `ShareInv`: the child's changes show
    when it has worked, and those who wait find it ended.  `StatusInv`: the word that is
    to be reported is one of an end just if the child is a zombie.  `SyncInv`, `WaitInv`,
    `GateInv`: parents go on only after their children.  `ManyInv`: `numLiveChildren` is
    the number of children not waited for, and handler calls are no more than ended
    children.  `WriteInv`, `TalkInv`, `GlobInv`, `LsInv`: what is in the pipe, who has
    which end of it, and that nothing is left when the reader ends (`Flow`).  `ExecInv`:
    the array of `execlp()` is as large as the arguments said unless it was resized, and the error
    is `EACCES` if one attempt gave that.  `SystemInv`: from the call to the
    restoration SIGCHLD is blocked and SIGINT ignored, so only `waitpid()` collects the shell.
  - `Sessions` (in `Sessions_proofs`): at each point of the programs and of their SIGTSTP handlers, whose settings the terminal has
    and which are saved (`TtyModes`), with which disposition and mask a stop arrives (`TtyStops`);
    the descriptors of both processes after each call of `ptyFork()` (`PtyInv`); every byte
    of the shell is displayed or still to be read (`RelayInv`).

The assumptions are named in the modules, as weak as the programs need: numbers are natural,
sets of threads finite, `Nobody`, `None`, `NoQueue` and `Unset` are not values of the other kind,
queues and pipes hold something, a file is a sequence of numbers or absent, IDs are
integers, a second has nanoseconds, and the caller of `system()` may have a child besides
the shell (`N >= 2`).  TLC evaluates them in the runs.

Only model-checked, and why:

* liveness (`Terminates`, `TransferEnds`, `Converges`, `Responsive`, `ProgramsEnd`,
  `Answered`, `Served`), which the prover does not treat;
* `CacheConsistent` of `InotifyDtree`: it is claimed in three scenarios only, whose conditions
  are about the history of each process and the queue together;
* `MCTools` (`AclsRight`, `Listed`, `Verdicts`): the filters, the ACLs and the listings are
  inductions over data, through recursive operators;
* `MCSockets` (`Exchanged`, `InputHandled`, `SharedKept`): numbers go through the recursive
  `Atoi`, operations of `svsem_op` and transfers through folds and `SelectSeq`, whose results for every
  sequence need an induction over data.

## Findings

The three violation runs are in `PROJECT.json` with the lines that they
contradict.  Further disagreements met while modelling, which the passing runs
exclude by a stated condition:

* `inotify_dtree.c` loses a directory that is renamed before its creation event
  is read, and the rest of a subtree when a directory vanishes during `nftw()`
  (lines 847 and 594); hence the conditions of `dtree_tracking`.  A root moved
  below another root is not monitored there (1065).  `ualarm()` may fire before
  `read()` is entered (1182, `EarlyAlarm`).
* `fifo_seqnum_server.c` gives numbers twice when its `int` wraps (89), or when a
  process ID and its left-over FIFO are used again (74); `Unique` excludes both.
* `create_pid_file.c` admits two instances when an instance deletes the file as
  the comment at line 30 asks; `OneInstance` is claimed where none does.
* `pthread_barrier_demo.c` loops `num-barriers` times, not `num-threads` times as
  line 19 says.
* `simple_init.c`: an adopted process that ends may end `pause()` early (242), so
  `PromptInForeground` is claimed without orphans.
* `acl_update.c`: a mask given with `-m` is recalculated unless `-n` (433), and a
  default ACL cannot be built up from nothing because every single entry is
  validated (438).
* `userns_child_exec.c`: when the parent fails after `clone()` its exit closes the
  pipe, and the child goes on without maps (line 301); `CommandEquipped` claims
  the maps unless the parent fails.
* `catch_rtsigs.c` can be terminated "by typing control-C" (line 33) only if SIGINT
  does not come between the test of `allDone` and `pause()` (117); `ProgramsEnd`
  claims nothing for it.  `t_sigsuspend.c` compiled with `USE_PAUSE` has the
  same window and says so.
* `demo_sigio.c` is told of input only after it has set `O_ASYNC`; what was typed
  before stays unread until more arrives.
* `i6d_ucase_cl.c` takes a duplicated answer for the next one; `ResponsesMatch`
  excepts that.
* `timed_read.c`: an alarm that comes before `read()` blocks is lost, and the read is
  not timed (51); `ProgramsEnd` excepts it.
* `ptmr_sigev_thread.c`: `timer_getoverrun()` belongs to the last notification, which
  need not be the one of the thread that asks; `ExpirationsCounted` is claimed
  where notifications of a timer do not overlap.
* `thread_cleanup.c`: a thread canceled in the `printf()` before it pushes its handler
  does not free its block; `LeftBehind` excepts it.
* `pshm_read.c` may display a string that nobody wrote when it overlaps with a
  writer, when `pshm_write.c` fails between resizing and copying (40), or when
  `pshm_create.c` resizes an object in use; `StringWhole` excepts these.
* `atomic_append.c` with `x` loses bytes and `bad_exclusive_open.c` lets two processes
  claim the creation: both say so, and `NothingOverwritten` says when.
* `setenv.c`: when `malloc()` fails the old value is already gone (71).
* `copy.c` empties a file that is copied to itself; `mmcopy.c` fills it with zeros,
  and leaves what was there when the source is empty.
* `simple_system.c` neither blocks SIGCHLD nor ignores SIGINT, so `SystemTransparent` is
  claimed for `system.c` only.  `sendfile.c` drops the
  bytes that a short `write()` did not take (49); `Transferred` excepts that.
* `seccomp_multiarch.c` compares a number with those of all architectures (178).

## What is not modelled

`PROJECT.json` lists every file of `src/` under some component, with the reason if it is
not modelled.  In short:

* programs that make one call and print its result (most of `files`, `filesys`,
  `sysinfo`, `procres`, `users_groups`, `loginacct` ...): there is no state of
  their own and nothing to interleave;
* viewers and formatters: masks, signal information, addresses, colours, and
  `inetAddressStr()` of `inet_sockets.c`;
* tool-chain demonstrations (`shlibs`, `debug`, `vdso`, `strace` ...);
* 38 templates of exercises whose bodies are a `FIXME`;
* headers, and the functions of `lib/` that report errors or parse numbers: the
  models take the parsed value or the failure;
* `ns_capable.c`'s search, whose result is what the kernel says about each ancestor.

Two hazards are known and are not in the list, because the properties state
an exception for them: a FIFO that a killed client leaves is used again by a client
with the same process ID (`fifo_seqnum_client.c:51`), and the window before
`pause()` in `catch_rtsigs.c:117`.

## Plan

1. Algorithms: the search of `ns_capable`, the options of `get_num`.
2. Proofs: the groups of `MCSockets`, `SharedFiles` (`LocksHeld`, `ObjectsKept`) first;
   `CacheConsistent` of `InotifyDtree` in the scenario without renames.
