# TLA+ models of the TLPI programs

The repository is the code of *The Linux Programming Interface*: some 350 C files in
45 chapter directories under `src/tlpi-book/`, most of them complete small programs,
the rest library functions they share. There is no one system; there are many small
concurrent ones. What they have in common is that they are written against the same
kernel interface and that what is hard in them is the same: signals that merge, wakeups
that can be lost, ends of pipes that stay open, objects that are removed while somebody
uses them, calls that fail half-way.

This directory models code of 183 of those files, checks the models with TLC, and proves part of
what is checked with TLAPS for every value of the constants. Source names in the text
below are relative to `src/tlpi-book/`.

Contents:

1. [Inventory](#1-inventory)
2. [How the modules are built](#2-how-the-modules-are-built)
3. [The runs](#3-the-runs)
4. [The proofs](#4-the-proofs)
5. [Where the code and its comments disagree](#5-where-the-code-and-its-comments-disagree)
6. [What is not modelled](#6-what-is-not-modelled)
7. [Plan](#7-plan)

## 1. Inventory

For each component: the state it keeps, its operations, what is hard, and what makes it
correct. `PROJECT.json` lists the same components with their files, and the ones that are
left out with the reason.

### Streams between processes

| Component | Module | State | Hard part | Correct when |
|---|---|---|---|---|
| `svshm/svshm_xfr_*`, `svsem/binary_sems.c` | `ShmXfr` | two semaphores, a segment with `cnt` and `buf`, positions in the file and in the output | the two sides alternate on one buffer; `cnt` is read again after the turn was given away; the writer removes both objects | the output is a prefix of the file at all times, whole at the end; nobody uses a removed object |
| `sockets/us_xfr*` | `SockXfr` | socket pathname, listen queue, connection buffers | two servers take the pathname from each other; nobody listens between `bind()` and `listen()`; clients write before they are accepted; clients are killed; a server's call fails | the bytes of clients do not mix, those of a client that finished all arrive unless its server died |
| `sockets/rdwrn.c` | `Rdwrn` | `totRead`/`totWritten` | short, interrupted and failing calls | exactly the bytes asked for, in order; the return value counts them |

### Threads

| Component | Module | Hard part | Correct when |
|---|---|---|---|
| `threads/prod_condvar.c`, `prod_no_condvar.c` | `ProdCondvar` | the signal is sent after the mutex was released; spurious wakeups; polling | every unit is consumed once, and the program ends |
| `threads/thread_multijoin.c` | `ThreadMultijoin` | `main` joins while it holds the mutex; threads end while others are created | counters agree with the table, no deadlock, all threads joined |
| `threads/thread_incr*.c`, `psem/thread_incr_psem.c` | `ThreadIncr` | load and store of `glob` are two steps | exact under a lock; without one, what is the worst that can happen? |
| `threads/thread_cleanup.c`, `thread_cancel.c`, `pthread_barrier_demo.c`, `strerror*.c` | `ThreadWaits` | cancellation at any cancellation point; signal without the mutex; reuse of a barrier; a buffer of `strerror()` for all threads or for each | the mutex and the block are released, nobody passes a barrier early, the text of `main`'s error is still there |
| `threads/one_time_init.c` | `OneTimeInit` | test and call are two steps | called once, and finished when any caller returns |

### Doing something once

| Component | Module | Hard part | Correct when |
|---|---|---|---|
| `svsem/svsem_good_init.c`, `svsem_bad_init.c` | `SvsemInit` | creation and initialisation of a semaphore are two calls; the creator may die between them | no operation is overwritten by the initialisation (in `bad_init` those done before it are); nobody polls for ever |
| `filelock/create_pid_file.c` | `PidFile` | open, lock, truncate and write are four calls; process IDs differ in length; the file may be deleted | one instance, and the file holds its process ID |

### Message queues

| Component | Module | Hard part | Correct when |
|---|---|---|---|
| `svmsg/svmsg_file_*` | `SvmsgFile` | a child per request, merged SIGCHLD, clients that die and leave full queues, failing `msgrcv()` and `fork()` | whole files arrive, every request is served, every child reaped |
| `pmsg/mq_notify_*.c` | `MqNotify` | a notification is used up before the queue is drained; messages that are there at the start | a message that is there implies a notification to come |
| `altio/select_mq.c` | `SelectMq` | messages are relayed in two writes through a pipe | printed whole, in order |

### Processes and signals

| Component | Module | Hard part | Correct when |
|---|---|---|---|
| `procexec/multi_SIGCHLD.c` | `MultiSigchld` | merged signals; the last child dies before `sigsuspend()` | the count is exact and the parent ends |
| `daemons/become_daemon.c` | `BecomeDaemon` | two forks, each of which may fail; descriptors above a limit | one process stays, which can have no terminal and has nothing open |
| `daemons/daemon_SIGHUP.c` | `DaemonSighup` | SIGHUP between the test and `sleep()`, or in the middle of a second of it | none is lost, the delay is bounded, the interval loses only seconds that were cut |
| `namespaces/simple_init.c` | `SimpleInit` | adopted orphans, stopped commands, a test followed by `pause()` | everything is reaped, the prompt is in the foreground |
| `procexec/system.c` | `SystemCall` | the caller's own SIGCHLD handler and children; Ctrl-C at any point | the right status, everything restored |
| `pgsjc/catch_SIGHUP.c`, `disc_SIGHUP.c`, `orphaned_pgrp_SIGHUP.c`, `job_mon.c`, `namespaces/orphan.c`, `procexec/child_status.c` | `JobControl` | a hang-up, stop or continue at any moment; children that are orphaned while stopped; status words | the hang-up reaches the group it is meant for, every stopped orphan is resumed, the report is what happened |
| `namespaces/`: `userns_child_exec.c`, `ns_child_exec.c`, `multi_pidns.c`, `demo_*.c`, `ns_exec.c`, `ns_run.c`, `unshare.c` and others; `procexec/demo_clone.c`, `t_clone.c` | `Namespaces` | the child must wait until its parent has written the maps; a pipe inherited by both; killed processes; what is shared and what is copied | the command runs after its maps and in the namespaces asked for, nobody waits for the other |
| `timers/*.c` | `Timers` | signals between a test and `pause()`; merged notifications; an interrupted sleep; two threads of one timer | every expiration is counted, a timeout is a timeout, a sleep is as long as asked |

### Terminals and events

| Component | Module | Hard part | Correct when |
|---|---|---|---|
| `tty/test_tty_functions.c`, `tty_functions.c`, `no_echo.c`, `pgsjc/handling_SIGTSTP.c` | `TtyPrograms` | handlers interrupt `main` and each other; the settings change while the program is stopped or in the background | the terminal is the user's whenever the program is stopped or has ended |
| `pty/script.c`, `unbuffer.c`, `pty_fork.c`, `pty_master_open*.c` | `PtyRelay` | both directions through one `select()` loop with bounded buffers; partial writes and failing calls; hang-up with output pending; descriptors that must not be inherited | every byte once and in order, the typescript equals what was shown, the terminal is reset |
| `altio/epoll_input.c`, `demo_sigio.c`, `poll_pipes.c`, `t_select.c` | `InputEvents` | an event that is stale when it is acted on; one signal for many bytes | all input is read, nothing waits unnoticed |

### Servers

| Component | Module | Hard part | Correct when |
|---|---|---|---|
| `pipes/fifo_seqnum_*` | `FifoSeqnum` | FIFO opens are a rendezvous; clients die; `seqNum` is an `int` | no number twice until it overflows, no end-of-file loop, everyone answered |
| `sockets/is_seqnum*` | `SeqnumTcp` | two-part requests, bad requests, wrap-around, failing writes | the same, and what is printed is what was granted |
| `sockets/read_line*.c` | `ReadLine` | lines cut by buffers and by reads | every line exactly, cut at `n - 1` |
| `sockets/is_echo*` | `EchoServer` | bounded buffers in both directions, half-close, inherited descriptors | every byte comes back, nobody waits in a circle |
| `sockets/{ud,i6d}_ucase*`, `id_echo*` | `Datagrams` | loss, duplication, truncation, a client that is gone | response *n* answers request *n*; which faults end the server |
| `sockets/scm_{rights,cred}*` | `ScmMessages` | the offset is shared with the sender; credentials before `SO_PASSCRED` | the right file and the sender's own credentials |

### Sequential code with failing calls

`acl/acl_update.c` (`AclUpdate`), `procexec/execlp.c` (`Execlp`), `sockets/inet_sockets.c` and
`unix_sockets.c` (`SocketSetup`), `proc/setenv.c` (a section of `UnixProcesses`), and the BPF programs of
`seccomp/` with a machine that runs them (`Seccomp`). Each is compared with a reference
definition of its result, on all inputs up to a bound and with any call failing.

### Directory monitor

`inotify/inotify_dtree.c` (`InotifyDtree`), the largest program of the
repository: a cache from watch descriptors to pathnames that has to follow a tree which
other processes change at the same time. Its state is the cache, the list of roots, the
read buffer and the position of a tree walk; its operations are the walk, the handlers of
each kind of event, the second read for a rename, the rebuild after an overflow, and the
commands `a`, `z`, `0`, `q`. `rand_dtree.c` is the environment.

### Small programs and tools

36 programs on processes, pipes, files and signals (`UnixProcesses`, texts and interpreter) and the command-line tools on POSIX and System V IPC objects
(`IpcTools`).

## 2. How the modules are built

**One module per component.** Its variables are those of the code that other steps can
see, plus the kernel objects it uses. A process is a program counter; an action is one
system call together with the local code up to the next one, so that everything another
process can observe in between is a state. Where a step of C is visible in the middle
(`glob++` on a volatile variable, `memcpy()` into shared memory), it is split.

**Kernel and library.** `UnixProcesses` and parts of `InotifyDtree`, `IpcTools`, `Timers`,
`JobControl` and `Namespaces` model what the programs use of the kernel. Such definitions
are marked external in `PROJECT.json`.

**Faults** are actions outside the fairness conditions: a process is killed, a call
returns an error, a datagram is lost, a condition variable wakes up spuriously. Their
number is bounded by a constant (`MaxFaults`, `MaxKills`, `MaxInterrupts`).

**Abstract specifications.** `StreamCopy` (append a block of the input to the output, or
finish when all is there) is implemented by `ShmXfr` and by each client of `SockXfr`.
`UnitStream` (units are produced and consumed) is implemented by `ProdCondvar`. The
refinements are properties of the runs `transfer` (`CopySpec`, `CopiesEach`) and `threads`
(`UnitsConsumed`); those of `ShmXfr` and `ProdCondvar` are also proved.

**Properties.** A component states its properties one by one, as definitions with a comment
each (`NoLostOp`, `NeverEOF`, `WaitsEnd`). What a run checks is their conjunction: one
invariant for each component, with its type invariant, and one liveness property for
each run. Section 3 lists the parts. TLC reports the conjunction as violated; the trace, or a
run of the part alone, tells which part it was.

**Mutants.** A definition preceded by the comment `Mutant:` is a plausible mistake in the
definition that follows it (a dropped guard, a swapped order, a missing reset). It is not
part of the specification. For every property of every passing run `PROJECT.json` names
one with which TLC finds that property violated. A mutant breaks one part of a
conjunction; it says nothing of the sensitivity of the other parts.

**MC modules.** A run checks several components that do not interact: `MCTransfer`,
`MCThreads`, `MCProcesses`, `MCServers`, and the last section of `UnixProcesses`; `InotifyDtree` is run
by itself. Each of the five has, or takes from the modules of the proofs, an instance of every component over variables of
its own. The variable `program` selects in the initial state which of them runs; the others stay in
one initial state. The state space is therefore the sum of those of the components, not
the product, and a property of a component is checked on exactly its own behaviours.

**Texts of programs.** In `UnixProcesses` a small program is a sequence of instructions with
labels, each the call of one line of the C program; the second half of the module gives an instruction its
meaning (fork, wait, pipe, read, write, close, stdio output, signals and masks, open
files, flock). A scenario is a set of programs started together. This keeps each program
close to its source, and the part of the kernel they share is written once. In
`IpcTools` a shell runs a script of commands and several shells run at once.

### Correspondence of state

`PROJECT.json` maps each definition to its lines. Names are those of the source where TLA+
allows it (`hupReceived`, `numUnjoined`, `rewriteCachedPaths`, `zapSubtree`); pcs are named after the call
that is about to be made. Data are abstracted: a byte is a model value or a position, a
process ID is a number or a sequence of digits where its length matters, a pathname is
a sequence of names, a message is its type and its bytes.

## 3. The runs

Every passing run says `CHECK_DEADLOCK FALSE`, because the programs terminate or wait for
input; that they do not stop *too early* is what the liveness properties of each run
state.

| Run | Components | What it shows | Bounds |
|---|---|---|---|
| `transfer` | `ShmXfr`, `EchoServer`, `SockXfr`, `Rdwrn`, `PtyRelay`, `TtyPrograms`, `InputEvents` | nothing is lost, mixed, duplicated or stale; objects are not removed early; no input waits unnoticed; every byte echoed; the terminal is given back; both ends finish | blocks of 3 bytes and a file that is not a multiple of them; socket buffers of 1 with 4 bytes to echo; two servers, clients of 3 and 1 bytes with a buffer of 2, one client killed or server failing; 5 bytes in a pipe of 2; 3 bytes typed and 3 of output through a pseudoterminal that holds 2, buffers of 2; 2 settings and 2 signals of the user; 2 FIFOs, each with 2 writes and 2 opens, 2 pipes, FD_SETSIZE 4 |
| `threads` | `ThreadIncr`, `ProdCondvar`, `ThreadMultijoin`, `ThreadWaits`, `SvmsgFile`, `MqNotify`, `SelectMq` | updates lost and not lost; units consumed once; joins and waits end; files delivered, children reaped, no message without a notification | 3 loops; three producers, one with nothing to make; 3 threads; 2 barriers; 2 clients, files of several blocks, queues of one message; the main thread and 3 notified ones, 5 messages in a queue of 3; 2 queues |
| `processes` | `OneTimeInit`, `SvsemInit`, `PidFile`, `MultiSigchld`, `BecomeDaemon`, `DaemonSighup`, `SimpleInit`, `SystemCall`, `Timers`, `Namespaces`, `JobControl` | what happens once is seen complete; merged signals lose no child, request or expiration; status, dispositions, maps and reports are right | 3 threads, 2 calls; 4 processes with operations +1, +2, -1 and 0, 2 polls; 3 processes, IDs of 1 and 2 digits; 4 children; all flags and sets of 4 descriptors; 2 commands and an orphan; 2 interrupts; 2 timers, a second of 2 ticks, 4 ticks; 3 nested namespaces, one kill; 2 children and 4 signals, statuses 0, 7 and 259 |
| `servers` | `FifoSeqnum`, `SeqnumTcp`, `ReadLine`, `Datagrams`, `ScmMessages` | disjoint ranges, exact lines, answers to the right requests | 3 clients; 3-bit numbers that wrap, an `INT_MAX` of 4 that is exceeded; all inputs of 4 bytes; 2 faults |
| `inotify` | `InotifyDtree` | the cache owns exactly the kernel's watches, no root is forgotten, all events are processed; the cache follows the tree when it can | two names, depth 3, up to 4 operations, an event queue of 3 (it overflows), reads of 2 events (renames are split) |
| `programs` | `UnixProcesses`, `IpcTools`, `AclUpdate`, `Execlp`, `SocketSetup`, `Seccomp` | the output of each program is what the calls promise; IPC objects lose nothing; results equal the reference, whichever calls fail | 3 processes, one failing call, pipes of 3 bytes; ten scripts with two or three shells; 2 files, 2 ACL entries; 3 directories of PATH; 3 addresses; small environments with duplicates; the system calls of two architectures |
| `inotify_rename` | `InotifyDtree` | *violation*, see section 5 | one directory created and renamed |
| `simple_init_pause` | `SimpleInit` | *violation*, see section 5 | two commands |
| `execlp_args` | `Execlp` | *violation*, see section 5 | `argvSize` grows in steps of 3 |
| `expire_cnt` | `Timers` in `MCProcesses` | *violation*, see section 5 | as in `processes` |

The bounds are chosen so that each hard case happens: buffers are smaller than the data,
numbers wrap, queues fill and overflow, two actors compete and (where it matters) a third
comes late. That every disjunct of every next-state relation is taken was verified with TLC's
coverage.

### The parts of the properties

| Run | Property | Parts, besides the type invariants |
|---|---|---|
| `transfer` | `TransferSafe` | `SegmentExclusive`, `OutputIsPrefix`, `AllDelivered`, `RemovedOnlyAfterUse` |
| | `EchoSafe` | `Echoed`, `NoDescriptorLeak`, `NoForgottenChild` |
| | `StreamsWhole` | `NoInterleaving` (sockets); `BufferExact`, `CountsExact` (`readn`, `writen`) |
| | `TerminalSafe` | `StoppedAsUser`, `NeverLeftOurs`, `LatestRestored`, `HandlerTransparent`, `StaysIgnored` |
| | `PtySafe` | `RelayedExactly`, `TypescriptSame`, `HangupLosesNothing`, `TerminalReset`, `ProgramOnSlave`, `MasterExact` |
| | `InputSafe` | `InputConsumed`, `NeverStuck`, `PipesReported`, `NfdsExact` |
| | `CopySpec`, `CopiesEach` | refinements of `StreamCopy`, by `svshm_xfr` and for each client of `us_xfr` |
| | `TransfersEnd` | `TransferCompletes`; `ClientsEnd`; `SomeServer`, `Delivered`; `ReadReturnsAtLast`; `TermEnds`; `RelayEnds`; `InputEnds` |
| `threads` | `UpdatesExact` | `NoLostUpdate`, `AtLeastTwo` |
| | `ThreadsSafe` | `CountersMatchTable`, `JoinNeedsNoMutex`, `AnnouncedIsFree`, `Inv` (multijoin); `CleanedUp`, `BarrierHolds`, `OwnErrorKept` |
| | `FileServerSafe` | `Delivered`, `NoForgottenZombie` |
| | `NotifySafe` | `NotStuck`, `NeverBusy`, `OnePending`, `BacklogNeverRead`, `Inv` |
| | `RelayExact` | `Relayed`, `LongStops` |
| | `UnitsConsumed` | refinement of `UnitStream` |
| | `ThreadsAndQueuesServed` | `Termination` (producers), `AllJoined`, `WaitsEnd`; `Served`, `Reaped`; `Drained`; `AllPrinted` |
| `processes` | `OnceSafe` | `IInv`, `InitOnce`, `ReturnsAfterInit` |
| | `FirstOneSafe` | `NoLostOp`, `NullOpNeverWaits`; `OneInstance`, `PidOfRunner`, `OwnFileKept`, `Inv` (PID file) |
| | `ChildrenCounted` | `CountIsExact`, `AllReaped`, `NoForgottenChild`, `CaughtAtMostOnce`, `Inv` |
| | `DaemonDetached` | `NeverControlled`, `StdFdsNull`, `AllClosed` |
| | `HupSafe` | `NoLostHup`, `DelayBounded`, `CountExact`, `LogUsable` |
| | `InitSafe` | `NoForgottenZombie`, `PromptInForeground` |
| | `SystemSafe` | `StatusExact`, `CallerSurvives`, `Restored`, `CommandDispositions`, `NoForgottenChild` |
| | `TimersExact` | `TimedOutTruly`, `AlarmsNoticed`, `OverrunsExact`, `ExpireCntIfApart`, `PrintedLatest`, `TimerfdExact`, `SleepExact`, `SpecParsed` |
| | `NamespacesSafe` | `MapsBeforeExec`, `CommandPlaced`, `MountsRight`, `NamespacesApart`, `SharedExactly` |
| | `JobsSafe` | `HangupsPlaced`, `OrphansResumed`, `StatusTrue`, `PlacesCounted` |
| | `ProcessesSettle` | `AllJoined`; `Settles`, `FatalMeansLate`; `Terminates`; `OneProcess`; `HupHonoured`; `Reaped`; `Returns`; `TimersEnd`; `ChildrenWaitedFor`; `JobsEnd` |
| `servers` | `NumbersSafe` | `RangesDisjoint`, `NeverEOF`, `Inv` (FIFO); `RangesDisjoint`, `PrintedIsGranted`, `BadRequestsOnly` (TCP) |
| | `LinesExact` | `LinesExact`, `NoOverread`, `BufferedExact`, `BufferedTails` |
| | `DatagramsTrue` | `ResponsesMatch`, `ServerStays`, `Inv` |
| | `AncillaryTrue` | `FilePassed`, `CredentialsTrue`, `Inv` |
| | `ServersAnswer` | `Answered`; `Served`; `AllAnswered`; `Received` |
| `inotify` | `WatchesExact` | `CacheOwnsWatches`, `EventsOfThisInstance`, `RootsAccountedFor` |
| | `CacheFollowsTree` | see section 5 |
| | `EventsProcessed` | |
| `programs` | `ProgramsRight` | `PipeOutput`, `SyncOrder`, `CopiedOrShared`, `ChildrenSeen`, `SignalsAccounted`, `BlockedOrIgnored`, `HandlersInterrupt`, `FilesAsWritten`, `LocksExclude` |
| | `ToolsRight` | `SemaphoreConserved`, `OneCreator`, `MessagesExact`, `ReadBack`, `UndoRestores`, `RemovedIsGone` |
| | `AclExact` | `FilesAsSpecified`, `NothingMasked`, `ExitHonest`, `NoErrorsWithoutN` |
| | `LibraryExact` | `FirstExecutable`, `ErrnoRule` (`execlp`); `EnvironExact`; `FirstUsable`, `NoLeak` (sockets); `FiltersExact` (seccomp) |
| | `EverythingEnds` | `ProgramsEnd`; `ToolsEnd`; `FiltersEnd` |

An `Inv` is the inductive invariant of a proof (section 4); the run checks it on its
instance. In the liveness properties of `transfer`, `threads`, `processes` and `programs` a part is a
state predicate of one component, "in the end ...": the property says that the component
that runs is in such a state again and again, and so for ever once it has ended.

### Fairness

Weak fairness of each process, thread and signal delivery: the scheduler runs what can
run. It covers the process as a whole (`WF(Writer)`, `WF(Client(c))`), never the success
of a particular call. There is none for the environment: nothing forces a user to type,
a process to be killed or other processes to change a tree. In `svmsg_file` somebody
removes the queue of a killed client in the end (`svmsg_rm`), which is how the source
expects its child to be freed.

Strong fairness is used three times.
- A thread that waits for a mutex that is released again and again gets it
  (`ProducerLock`, `ThreadLock`). Without it the polling loop of `prod_no_condvar.c` could
  take the mutex for ever; POSIX does not promise this, but every scheduler with
  preemption provides it.
- A user who brings a stopped job back into the foreground (`Continue(TRUE)` of
  `TtyPrograms`) meets it stopped at last. Without it the program could be continued in the
  background for ever.
- A notification thread of `ptmr_sigev_thread.c` gets the mutex that the main thread takes
  again and again (`Notification` of `Timers`), for the same reason as the first.

### Premises of liveness properties

Some programs cannot keep a promise in every case, and the property says so in its
premise:

- `Answered` of the FIFO server has one exception, which it states itself: the server waits
  for ever for a client killed between its request and its `open()`;
- `Served` and `Reaped` of the file server exclude a failing `msgrcv()` or `fork()`, after which it exits;
- `SomeServer` and `Delivered` of `us_xfr` exclude a server that died: its pathname is left behind, and
  a client may not notice that nobody read what it wrote;
- `AllAnswered` holds without faults: a lost datagram is never sent again;
- `ThreadsAndQueuesServed` excludes the lost wakeup of `thread_cleanup.c` (`LostWakeup`);
- `ProgramsEnd` leaves out `catch_rtsigs.c`, whose test and `pause()` are not atomic;
- `EventsProcessed` excludes the alarm that comes before the second read;
- `OneInstance` and `PidOfRunner` hold so long as nobody deletes the PID file;
- `Drained` of the `mq_notify` programs holds if the queue was empty at the start, or in those
  that read after their first registration;
- `InputConsumed` excludes a FIFO that is opened again between the hang-up that `epoll_wait()`
  reports and the `close()` (`late` in `InputEvents`);
- `StoppedAsUser` and `LatestRestored` exclude settings the program could not know of: it was
  stopped without its handler, a handler was overtaken by another, or it was continued in
  the background (`raced` in `TtyPrograms`);
- `RelayEnds` excludes a `write()` into a full pseudoterminal whose program does not read, and a
  child that dies before it has opened the slave;
- `HangupsPlaced` excludes a hang-up before handler and group are set, `OrphansResumed` a child
  that is stopped after its parent's end (`early` and `late` in `JobControl`);
- `ExpireCntIfApart` holds so long as no two threads of one timer are under way at once.

## 4. The proofs

Eight modules contain theorems; `tlapm` checks all of them. They hold for every value of the
constants, under the named assumptions. A theorem says of the specification of a component that
it implies the very invariant that the run of its module checks (`Sys!Spec => []SystemSafe`), so
that TLC's instance and the proof speak of the same formula.

| Module | Sections | Theorems |
|---|---|---|
| `MCTransfer` | `ShmXfr`, `EchoServer` | `Safety` (`TransferSafe`) and its parts `TypeCorrect`, `Exclusion`, `PrefixOutput`, `Delivery`, `SafeRemoval`; `Refinement` (`CopySpec`); `EchoSafety` (`EchoSafe`) |
| `ThreadIncr` | itself | `Safety` (`UpdatesExact`) and its parts `TypeCorrect`, `Exactness`, `Survivors` |
| `ThreadProofs` | `SelectMq`, `ThreadWaits`, `ThreadMultijoin`, `ProdCondvar` | `RelaySafety` (`RelayExact`), `ThreadsSafety` (`ThreadsSafe`), `ProdUnits` (`UnitsConsumed`) |
| `QueueProofs` | `SvmsgFile`, `MqNotify` | `FileServerSafety` (`FileServerSafe`), `NotifySafety` (`NotifySafe`) |
| `MCProcesses` | `SystemCall`, `SimpleInit`, `BecomeDaemon`, `DaemonSighup`, `OneTimeInit`, `PidFile`, `SvsemInit`, `MultiSigchld` | `SysSafety` (`SystemSafe`), `InitProgSafety` (`InitSafe`), `DaemonSafety` (`DaemonDetached`), `HupSafety` (`HupSafe`), `OnceSafety` (`OnceSafe`), `FirstOneSafety` (`FirstOneSafe`), `MultiSafety` (`ChildrenCounted`), `SemFatal` (the action property `FatalMeansLate`) |
| `DatagramProofs` | `Datagrams` | `DatagramSafety` (`DatagramsTrue`) |
| `ServerProofs` | `SeqnumTcp`, `FifoSeqnum`, `ScmMessages` | `NumbersSafety` (`NumbersSafe`), `AncillarySafety` (`AncillaryTrue`) |
| `Sums` | | lemmas on sums over finite sets, used by the section on producers |

A section has the variables and the instance of one component, the assumption on its constants,
the property, a lemma for the initial states, one for the steps with one step for each action (in
the larger sections each action has a lemma of its own), and the theorem. The model-checked
specification follows all of them, at the end of the module.

**Along which argument.** None of the properties is inductive. The invariant `Inv` of a component
(`IInv` of `OneTimeInit`) follows its properties in its module, under the word *Why*; the run
checks it as a part of the property. What it adds:

- `ShmXfr`: `TurnInv`, for each place of the writer, where the reader may be and what the semaphores
  are: the two semaphores and the two pcs form one token. `ObjectInv`, when the objects exist.
  `DataInv`: output and pending block together are the part of the file read so far. `EOFInv`: a
  block of length 0 is in the segment only at the end of the file, which is needed because the
  writer tests `cnt` *after* it has given the turn away. `CountInv`: the totals that are printed.
  `Refinement` maps the reader's `write()` to a block, its exit to the end, all else to stuttering.
- `EchoServer`: what is printed, on its way back, in the child's buffer and on its way to the server
  are in this order the bytes sent, while the client lives (`Stream`); who holds the connection
  open follows from the place of child and parent (`Life`).
- `ThreadIncr`: a thread which has stored once never again loads 0 (`BoundInv`), so that the last
  store of the last thread is at least 2. One would expect `loops`.
- `SelectMq`: what the parent has read and not printed, and what is in the pipe, are headers followed
  by their texts; the messages of a queue come in order, after those printed, none missing.
- `ThreadWaits`: who holds the mutex, and whether the block is allocated, can be told from where the
  thread is, unless it was cancelled; all have passed the barrier equally often, and who waits at
  it has reached it once more; a buffer is there between call and return.
- `ThreadMultijoin`: table, counters and mutex follow the place of each thread; nothing is joined while
  threads are still created. `JoinNeedsNoMutex` speaks of ENABLED and stays with TLC; `AnnouncedIsFree`
  is the state predicate behind it.
- `ProdCondvar`: a unit is still to be made, available or consumed (a sum over all producers), and who
  holds the mutex is at a place that says so. `ProdUnits` maps the unlocked steps to stuttering.
- `SvmsgFile`: the one request of a client is in the queue, read, or has a child; the messages received
  and queued are the blocks of its file in order and an end message, and the byte counts follow from
  their number.
- `MqNotify`: from the first registration on there is one token: the registration, the notification
  that used it up, or the worker that is going to register again.
- `SystemCall`: SIGCHLD is blocked and the keys are ignored from before the child exists until it was
  waited for. `SimpleInit`: without orphans SIGCHLD means that the last command has ended.
- `BecomeDaemon`: who goes on after the second `fork()` is in the session of the first child and does
  not lead it. `DaemonSighup`: versions only grow; an unnoticed request waits no longer than the sleep.
  Time is counted in seconds: those slept to their end, and those that a SIGHUP cut short (`cut`), because
  `sleep()` returns whole seconds.
- `OneTimeInit`: the mutex is held from the test to the unlock, and flag, count and progress agree.
- `PidFile`: who is past `lockRegion()` has the lock of the file it has open, and nobody else changes
  that file; if nobody deletes the name, all have the same file open.
- `SvsemInit`: one creator at most; until it has finished the others stay before their `semop()`, and
  `sem_otime` tells them when it has; the value is the sum of the operations done. That sum is a history
  variable (`done`), as are the sum and the set of the operations that a `SETVAL` destroyed (`undone`, `lost`).
- `MultiSigchld`: only children that exist die, a child is reaped once, the handler runs only inside
  `sigsuspend()`; the numbers of live, dead and reaped children add up. Children differ in nothing the
  handler sees, so the model counts them.
- `Datagrams`: what is under way for a client that has not ended belongs to the message it waits for,
  or to an earlier one if a datagram was duplicated.
- `ScmMessages`: a sender sends once, and the message waits for the receiver; the credentials in it
  follow from the sender's options.
- `SeqnumTcp`: a client is accepted once and closed once; a range lies between the initial number and
  `handed`, the count of numbers handed out (a history variable), modulo `Modulus`. `RangesDisjoint`
  holds until `handed` exceeds `Modulus`, for any even modulus, 2^32 in the code.
- `FifoSeqnum`: the server holds its FIFO open for writing from its second `open()` on (`NeverEOF`); a
  client is at most once in the queue or being served; what was answered lies below the next free
  number, which between the `write()` and the increment is not `seqNum`. All this holds until the sum
  of the lengths exceeds `INT_MAX` (`wrapped`), which nothing in the code prevents.

**From which assumptions.** A finite set only where something is summed (the producers of
`ProdCondvar`); elsewhere the sets of clients, processes and threads are arbitrary. Sizes, counts
and limits are natural numbers, positive where the code needs it (block and buffer sizes, numbers
of loops and threads, `MAX_TRIES`, `Modulus`). The special values `None`, `NoClient` and `NoFile` are
none of the values they stand beside. Bounds on the environment (`MaxFaults`, `MaxVersion`) are
arbitrary.

**Induction over data.** The sums over producers are defined with the folds of the community modules.
`Sums` proves that a fold over a finite set does not depend on the order, by induction over
finite sets in the form that quantifies over a set of sets rather than over a predicate. Two lemmas are
then enough for the rest: the sum of nothing is zero, and one element more adds its value.

**Only model-checked.** All liveness (TLAPS does not reason about fairness or ENABLED), the
refinement of `SockXfr`, the components without a section above, and everything that is computed by
recursion over data (paths of a tree, lines of an input, texts of programs).

## 5. Where the code and its comments disagree

Four runs end in a violation, each of a property that a comment of the source states.

- `inotify_rename`: a subdirectory that is renamed while the first walk is under way is never watched.
  The walk (`inotify/inotify_dtree.c:564`) watches the root and has listed the subdirectory, finds nothing
  under its old name, and no `IN_CREATE` ever told of it. The two events of the rename match no cache
  entry (`rewriteCachedPaths()`, line 943), and nothing walks the new name. The comment at line 1062 says
  that the events keep the cache in sync. `CacheFollowsTree` in the run `inotify` shows in which
  environments the claim does hold.
- `simple_init_pause`: `namespaces/simple_init.c:234` says that `pause()` "will be interrupted by
  signal handler"; if the command ends first, it is not.
- `execlp_args`: `procexec/execlp.c:79` reallocates `argv` to the size of one pointer while
  `argvSize` grows.
- `expire_cnt`: `timers/ptmr_sigev_thread.c:44` adds `timer_getoverrun()`, which is the count of the
  notification accepted last. With two threads of one timer under way both add that of the
  second; line 23 calls `expireCnt` the "Number of expirations of all timers".

Other observations, which the properties of passing runs take into account:

- `altio/select_mq.c`: an empty message makes the parent end with "EOF on pipe".
- `svmsg/svmsg_file_server.c`: after a failing `read()` the end message follows as after a whole file.
- `daemons/become_daemon.c`: descriptors above the limit stay open.
- `procexec/execlp.c:35`: a script gets `argv[0]` as an argument, against the comment at line 25, and the
  shell is given `argv[0]`, not the pathname found in PATH. `shArgv` is written one item past its end.
- `acl/acl_update.c:423`: a mask given with `-m m::r` is recalculated unless `-n` is given.
- `inotify/inotify_dtree.c:1174` compares `errno` with -1, so that its EINTR branch is never taken; this is
  harmless. Line 1158: if the alarm comes before the read, the read blocks until another event.
- `pmsg/mq_notify_{sig,sigwaitinfo,thread}.c`: messages that are there when the program starts are
  never read (`BacklogNeverRead`); `mq_notify_via_*.c` read them.
- `altio/epoll_input.c`: a writer that opens the FIFO again after the hang-up was reported is cut off.
- `pty/script.c`, `unbuffer.c`: the relay is stuck in a `write()` to a program that does not read, and is
  never told of a child that dies before it has opened the slave.
- `svsem/svsem_bad_init.c`: the operations done before the `SETVAL` are lost, exactly those (`NoLostOp`).
- `signals/nonreentrant.c`, `sigmask_longjmp.c`: the result of `crypt()` is overwritten by the handler;
  `longjmp()` leaves the signal blocked where the C library does not save the mask (`HandlersInterrupt`).
- `threads/strerror.c`: the text of `main`'s error is overwritten by the other thread (`OwnErrorKept`).
- `sockets/inet_sockets.c`: `inetListen()` leaves the socket open when `listen()` fails (`NoLeak` names it).
- `sockets/read_line_buf.c`: characters are lost when `read()` is interrupted (`BufferedTails` bounds the loss).
- `proc/setenv.c`: the old definition is gone when `malloc()` fails.
- `sockets/ud_ucase_sv.c`: ends when it answers a client that was killed (`ServerStays` says exactly when).
  A failing `recvfrom()` ends each of the datagram servers.
- `pipes/fifo_seqnum_server.c:69`: nothing keeps `seqNum` from exceeding `INT_MAX`.
- `svmsg/svmsg_receive.c:81`: prints the body as a string; of a body that `-e` has cut short it also
  prints what is behind it in the buffer (`MessagesExact`).
- `daemons/daemon_SIGHUP.c`: each SIGHUP may cost the interval a part of a second (`CountExact`).
- `pgsjc/disc_SIGHUP.c:48`: a hang-up between `fork()` and the child's `setpgid()` or `sigaction()`
  meets a child that is not prepared for it (`HangupsPlaced` leaves such a child out).
- `acl/acl_update.c`: when a call fails, the files before are done and the one at hand has what the first
  part of the specification says (`FilesAsSpecified`).
- `threads/thread_cleanup.c:81`: sets the predicate and signals without the mutex. A cancellation honoured
  at the `printf()` after `malloc()` leaks the block.
- `svsem/svsem_op.c`: operands are truncated to 16 bits.
- `signals/sig_receiver.c` and others print their process ID before they install handlers.
- `svipc/svmsg_demo_server.c`: one server may remove the queue another has just created.

## 6. What is not modelled

`PROJECT.json` lists every source file in a component. Those without a module are
displays and conversions, single calls whose effect is in the kernel, and demos of the
C run-time. In particular:

- `filelock/i_fcntl_locking.c` passes a command on to `fcntl()`; conflicts and deadlock
  detection are the kernel's, and a model of them would say nothing of this code;
- `lib/get_num.c`, `error_functions.c`: parsing and formatting of text;
- the programs of `sysinfo/`, `users_groups/`, `time/`, `filesys/`, `xattr/`, `vmem/` and most of `files/` read or
  change one kernel value and print it.

Within modelled components:

- messages, logging, option parsing (except `acl_update`), permissions and times;
- error returns that end a program at once, where nothing depends on where it ended;
- `inotify_dtree`: `zapSubtree()` is one step; rename over an existing directory, nested roots,
  `PATH_MAX`, growth of the cache array and the commands that only display; files that are
  not directories, which the program ignores;
- `IpcTools`: one name or key for each kind of object, identifiers are not reused, no
  `IPC_PRIVATE`; `pshm_read`'s `write()` reads the memory in one step while `memcpy()` is byte by byte;
- `Datagrams`: addresses; a client's name stands for its socket;
- `Execlp`: `strdup()` is taken to succeed; `FifoSeqnum`: a request is at most `PIPE_BUF` bytes, so that
  a `read()` returns all of it or fails and changes nothing;
- `SocketSetup`: what `getaddrinfo()` returns is any list of addresses with any outcome each.

## 7. Plan

Theorems worth proving next, most important first:

- `BufferExact` and `CountsExact` of `Rdwrn` and `NoInterleaving` of `SockXfr`, for any buffer sizes;
- `OverrunsExact` of `Timers`, for any number of timers and ticks;
- `StoppedAsUser` and `NeverLeftOurs` of `TtyPrograms`;
- `MapsBeforeExec` of `Namespaces`, for any nesting.

Their modules use no RECURSIVE operator, and their actions are one per call, as in those
already proved. Of the code, the record-locking front end could still be modelled, over
a lock table that would be external.
