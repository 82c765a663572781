---------------------------- MODULE InputEvents -----------------------------
(***************************************************************************)
(* The programs of altio/ that wait for input: epoll_input.c (FIFOs),      *)
(* demo_sigio.c (signal-driven I/O on the terminal), poll_pipes.c and      *)
(* t_select.c.                                                             *)
(***************************************************************************)
EXTENDS Integers, Sequences, SequencesExt, FiniteSets, FiniteSetsExt

CONSTANTS
    Fifos,          \* the arguments of epoll_input: 1..n
    MAX_EVENTS, MAX_BUF,
    MaxWrites,      \* bound: bytes written to each FIFO
    MaxOpens,       \* bound: times that a writer opens each FIFO
    Keys,           \* what the user types: a sequence of characters, one of them '#'
    PipeCap,        \* what a pipe holds
    Arguments,      \* sequences of arguments of t_select: records [fd, modes]
    FD_SETSIZE

VARIABLES
    app, pc,
    fds, opens, writer, written, data, got,   \* of each FIFO; writer: somebody has it open
    evlist, numOpenFds, late,                 \* late: FIFOs opened again after epoll_wait()
    typed, queue, seen, gotSigio, pending, done, async, dropped,
    numPipes, numWrites, content, revents,
    args, nfds, readfds, writefds

fifoVars == <<fds, opens, writer, written, data, got, evlist, numOpenFds, late>>
sigioVars == <<typed, queue, seen, gotSigio, pending, done, async, dropped>>
pollVars == <<numPipes, numWrites, content, revents>>
selectVars == <<args, nfds, readfds, writefds>>
vars == <<app, pc, fifoVars, sigioVars, pollVars, selectVars>>

N == Cardinality(Fifos)
Apps == {"epoll_input", "demo_sigio", "poll_pipes", "t_select"}

Init ==
    /\ app \in Apps /\ pc = "begin"
    /\ fds = [f \in Fifos |-> "none"] /\ opens = [f \in Fifos |-> 0]
    /\ writer = [f \in Fifos |-> FALSE] /\ written = [f \in Fifos |-> 0]
    /\ data = [f \in Fifos |-> <<>>] /\ got = data /\ evlist = <<>> /\ numOpenFds = 0 /\ late = {}
    /\ typed = 0 /\ queue = <<>> /\ seen = <<>> /\ gotSigio = FALSE /\ pending = FALSE
    /\ done = FALSE /\ async = FALSE /\ dropped = <<>>
    /\ numPipes \in 1..2 /\ numWrites \in 1..(PipeCap + 1)
    /\ content = [f \in 1..2 |-> 0] /\ revents = {}
    /\ args \in Arguments /\ nfds = 0 /\ readfds = {} /\ writefds = {}

-----------------------------------------------------------------------------
(* epoll_input.c opens its FIFOs in turn, each together with a writer, and adds them to the
   interest list. *)
EpOpen(f) ==
    /\ app = "epoll_input" /\ pc = "begin" /\ fds[f] = "none" /\ \A g \in 1..(f - 1) : fds[g] # "none"
    /\ fds' = [fds EXCEPT ![f] = "open"] /\ writer' = [writer EXCEPT ![f] = TRUE]
    /\ opens' = [opens EXCEPT ![f] = 1]
    /\ numOpenFds' = IF f = N THEN N ELSE numOpenFds
    /\ pc' = IF f = N THEN "wait" ELSE pc
    /\ UNCHANGED <<app, written, data, got, evlist, late, sigioVars, pollVars, selectVars>>

Events(f) == (IF data[f] # <<>> THEN {"EPOLLIN"} ELSE {}) \cup (IF writer[f] THEN {} ELSE {"EPOLLHUP"})
Ready == {f \in Fifos : fds[f] = "open" /\ Events(f) # {}}

(* External: epoll_wait() returns some of the ready descriptors, MAX_EVENTS at most. *)
EpWait ==
    /\ pc = "wait" /\ numOpenFds > 0 /\ Ready # {}
    /\ \E chosen \in SUBSET Ready :
          /\ chosen # {} /\ Cardinality(chosen) = Min({MAX_EVENTS, Cardinality(Ready)})
          /\ evlist' = [i \in 1..Cardinality(chosen) |->
                           [fd |-> SetToSeq(chosen)[i], events |-> Events(SetToSeq(chosen)[i])]]
    /\ pc' = "events" /\ late' = {f \in late : fds[f] = "closed"}
    /\ UNCHANGED <<app, fds, opens, writer, written, data, got, numOpenFds, sigioVars, pollVars,
                   selectVars>>

(* Mutant: a descriptor with EPOLLHUP is closed although there is input. *)
EpEventHupFirst ==
    /\ pc = "events" /\ evlist # <<>> /\ evlist' = Tail(evlist)
    /\ LET f == Head(evlist).fd
           k == Min({MAX_BUF, Len(data[f])})
       IN \/ /\ "EPOLLHUP" \notin Head(evlist).events
             /\ got' = [got EXCEPT ![f] = @ \o SubSeq(data[f], 1, k)]
             /\ data' = [data EXCEPT ![f] = SubSeq(@, k + 1, Len(@))]
             /\ UNCHANGED <<fds, numOpenFds>>
          \/ /\ "EPOLLHUP" \in Head(evlist).events
             /\ fds' = [fds EXCEPT ![f] = "closed"] /\ numOpenFds' = numOpenFds - 1
             /\ UNCHANGED <<data, got>>
    /\ UNCHANGED <<app, pc, opens, writer, written, late, sigioVars, pollVars, selectVars>>

(* One entry of the list: input is read, MAX_BUF bytes at most; a hang-up without input
   closes the descriptor. *)
EpEvent ==
    /\ pc = "events" /\ evlist # <<>> /\ evlist' = Tail(evlist)
    /\ LET f == Head(evlist).fd
           k == Min({MAX_BUF, Len(data[f])})
       IN \/ /\ "EPOLLIN" \in Head(evlist).events
             /\ got' = [got EXCEPT ![f] = @ \o SubSeq(data[f], 1, k)]
             /\ data' = [data EXCEPT ![f] = SubSeq(@, k + 1, Len(@))]
             /\ UNCHANGED <<fds, numOpenFds>>
          \/ /\ "EPOLLIN" \notin Head(evlist).events
             /\ fds' = [fds EXCEPT ![f] = "closed"] /\ numOpenFds' = numOpenFds - 1
             /\ UNCHANGED <<data, got>>
    /\ UNCHANGED <<app, pc, opens, writer, written, late, sigioVars, pollVars, selectVars>>

EpLoop ==
    /\ pc = "events" /\ evlist = <<>> /\ pc' = IF numOpenFds > 0 THEN "wait" ELSE "done"
    /\ UNCHANGED <<app, fifoVars, sigioVars, pollVars, selectVars>>

epoll_input == EpWait \/ EpEvent \/ EpLoop \/ \E f \in Fifos : EpOpen(f)

(* External: writers of a FIFO, one at a time, while the program has it open. *)
FifoWrite(f) ==
    /\ writer[f] /\ fds[f] = "open" /\ written[f] < MaxWrites
    /\ written' = [written EXCEPT ![f] = @ + 1]
    /\ data' = [data EXCEPT ![f] = Append(@, written[f] + 1)]
    /\ UNCHANGED <<app, pc, fds, opens, writer, got, evlist, numOpenFds, late, sigioVars, pollVars,
                   selectVars>>
FifoClose(f) ==
    /\ writer[f] /\ writer' = [writer EXCEPT ![f] = FALSE]
    /\ UNCHANGED <<app, pc, fds, opens, written, data, got, evlist, numOpenFds, late, sigioVars,
                   pollVars, selectVars>>
FifoReopen(f) ==
    /\ ~writer[f] /\ fds[f] = "open" /\ opens[f] < MaxOpens
    /\ writer' = [writer EXCEPT ![f] = TRUE] /\ opens' = [opens EXCEPT ![f] = @ + 1]
    /\ late' = IF pc = "events" THEN late \cup {f} ELSE late
    /\ UNCHANGED <<app, pc, fds, written, data, got, evlist, numOpenFds, sigioVars, pollVars,
                   selectVars>>

-----------------------------------------------------------------------------
(* demo_sigio.c: the handler, the owner and O_ASYNC are set, then the terminal is put in
   cbreak mode, which discards what was typed before. *)
SigSetup ==
    /\ app = "demo_sigio" /\ pc = "begin"
    /\ \/ ~async /\ async' = TRUE /\ UNCHANGED <<pc, queue, dropped>>
       \/ async /\ pc' = "loop" /\ dropped' = dropped \o queue /\ queue' = <<>> /\ UNCHANGED async
    /\ UNCHANGED <<app, typed, seen, gotSigio, pending, done, fifoVars, pollVars, selectVars>>

(* External: a character is typed; with O_ASYNC there is a SIGIO. *)
Type ==
    /\ app = "demo_sigio" /\ typed < Len(Keys) /\ pc # "done"
    /\ typed' = typed + 1 /\ queue' = Append(queue, Keys[typed + 1]) /\ pending' = (pending \/ async)
    /\ UNCHANGED <<app, pc, seen, gotSigio, done, async, dropped, fifoVars, pollVars, selectVars>>

sigioHandler ==
    /\ pending /\ pending' = FALSE /\ gotSigio' = TRUE
    /\ UNCHANGED <<app, pc, typed, queue, seen, done, async, dropped, fifoVars, pollVars, selectVars>>

(* The main loop resets gotSigio, then reads; at the end what is left is discarded. *)
SigTest ==
    /\ pc = "loop"
    /\ \/ ~done /\ gotSigio /\ pc' = "read" /\ gotSigio' = FALSE /\ UNCHANGED <<queue, dropped>>
       \/ done /\ pc' = "done" /\ dropped' = dropped \o queue /\ queue' = <<>> /\ UNCHANGED gotSigio
    /\ UNCHANGED <<app, typed, seen, pending, done, async, fifoVars, pollVars, selectVars>>

(* The read() comes before the test of done: a character after '#' may be read and lost. *)
SigRead ==
    /\ pc = "read"
    /\ \/ queue = <<>> /\ pc' = "loop" /\ UNCHANGED <<queue, seen, done, dropped, gotSigio>>
       \/ /\ queue # <<>> /\ ~done /\ queue' = Tail(queue) /\ seen' = Append(seen, Head(queue))
          /\ done' = (Head(queue) = "#") /\ UNCHANGED <<pc, gotSigio, dropped>>
       \/ /\ queue # <<>> /\ done /\ queue' = Tail(queue) /\ dropped' = Append(dropped, Head(queue))
          /\ pc' = "loop" /\ UNCHANGED <<gotSigio, seen, done>>
    /\ UNCHANGED <<app, typed, pending, async, fifoVars, pollVars, selectVars>>

demo_sigio == SigSetup \/ sigioHandler \/ SigTest \/ SigRead

-----------------------------------------------------------------------------
(* poll_pipes.c writes to random pipes, which nobody reads: the write() to a full one waits
   for ever. *)
PollWrite ==
    /\ app = "poll_pipes" /\ pc = "begin" /\ content[1] + content[2] < numWrites
    /\ \E f \in 1..numPipes : content[f] < PipeCap /\ content' = [content EXCEPT ![f] = @ + 1]
    /\ UNCHANGED <<app, pc, numPipes, numWrites, revents, fifoVars, sigioVars, selectVars>>
Poll ==
    /\ app = "poll_pipes" /\ pc = "begin" /\ content[1] + content[2] = numWrites
    /\ revents' = {f \in 1..numPipes : content[f] > 0} /\ pc' = "done"
    /\ UNCHANGED <<app, numPipes, numWrites, content, fifoVars, sigioVars, selectVars>>

(* t_select.c: an argument at a time goes into the sets; one without a mode, or with a
   descriptor that is too large, is an error. *)
BadArgument == args # <<>> /\ (Head(args).modes = {} \/ Head(args).fd >= FD_SETSIZE)
SelectUsage ==
    /\ app = "t_select" /\ pc = "begin" /\ BadArgument /\ pc' = "usage"
    /\ UNCHANGED <<app, fifoVars, sigioVars, pollVars, selectVars>>
SelectArgument ==
    /\ app = "t_select" /\ pc = "begin" /\ args # <<>> /\ ~BadArgument /\ args' = Tail(args)
    /\ LET a == Head(args)
       IN /\ nfds' = IF a.fd >= nfds THEN a.fd + 1 ELSE nfds
          /\ readfds' = IF "r" \in a.modes THEN readfds \cup {a.fd} ELSE readfds
          /\ writefds' = IF "w" \in a.modes THEN writefds \cup {a.fd} ELSE writefds
    /\ UNCHANGED <<app, pc, fifoVars, sigioVars, pollVars>>

(* External: select() looks at the descriptors below nfds and leaves the ready ones. *)
Select ==
    /\ app = "t_select" /\ pc = "begin" /\ args = <<>> /\ pc' = "done"
    /\ readfds' \in SUBSET {f \in readfds : f < nfds}
    /\ writefds' \in SUBSET {f \in writefds : f < nfds}
    /\ UNCHANGED <<app, args, nfds, fifoVars, sigioVars, pollVars>>

-----------------------------------------------------------------------------
Next ==
    \/ epoll_input \/ \E f \in Fifos : FifoWrite(f) \/ FifoClose(f) \/ FifoReopen(f)
    \/ demo_sigio \/ Type
    \/ PollWrite \/ Poll \/ SelectUsage \/ SelectArgument \/ Select

Program == epoll_input \/ demo_sigio \/ PollWrite \/ Poll \/ SelectUsage \/ SelectArgument \/ Select

(* The programs run; the writers of the FIFOs and the user need not do anything. *)
Spec == Init /\ [][Next]_vars /\ WF_vars(Program)

TypeOK ==
    /\ pc \in {"begin", "wait", "events", "loop", "read", "done", "usage"}
    /\ fds \in [Fifos -> {"none", "open", "closed"}] /\ numOpenFds \in 0..N
    /\ Len(evlist) <= MAX_EVENTS /\ nfds \in Nat

(* epoll_input.c:85-90: a descriptor is closed only when all the input of its FIFO has been
   read, in order -- unless a writer opened the FIFO again between the epoll_wait() that
   reported the hang-up and the close(); and numOpenFds counts the open ones. *)
InputConsumed ==
    app = "epoll_input" =>
        /\ \A f \in Fifos :
              /\ got[f] \o data[f] = [i \in 1..written[f] |-> i]
              /\ fds[f] = "closed" => data[f] = <<>> \/ f \in late
        /\ pc # "begin" => numOpenFds = Cardinality({f \in Fifos : fds[f] = "open"})

(* demo_sigio.c:63-79: when the main loop sees no signal there is nothing to read: a
   character in the queue has its SIGIO pending or noted. And what is shown is what was
   typed, in order, as far as '#', but for what the change to cbreak mode discarded. *)
NeverStuck ==
    app = "demo_sigio" =>
        /\ pc = "loop" /\ ~done /\ queue # <<>> => gotSigio \/ pending
        /\ done <=> "#" \in ToSet(seen)
        /\ \A i \in 1..(Len(seen) - 1) : seen[i] # "#"
        /\ ~done => dropped \o seen \o queue = SubSeq(Keys, 1, typed)

(* poll_pipes.c:62-77: poll() reports a pipe exactly if one of the writes went to it. *)
PipesReported ==
    app = "poll_pipes" /\ pc = "done" =>
        revents # {} /\ \A f \in 1..numPipes : f \in revents <=> content[f] # 0

(* t_select.c:52-69: every descriptor of the arguments lies below nfds, and nfds is no
   larger than needed. *)
NfdsExact ==
    app = "t_select" /\ pc = "begin" /\ args = <<>> /\ readfds \cup writefds # {} =>
        nfds = Max(readfds \cup writefds) + 1

(* The programs of altio/ lose no input but where another opens what they are closing. *)
InputSafe == InputConsumed /\ NeverStuck /\ PipesReported /\ NfdsExact

(* In the end: epoll_input.c has ended if every FIFO was left by its writers, demo_sigio.c if
   '#' was typed after its set-up, poll_pipes.c unless it filled a pipe, t_select.c in any
   case. *)
InputEnds ==
    /\ app = "epoll_input" /\ (\A f \in Fifos : fds[f] # "none" /\ ~writer[f]) => pc = "done"
    /\ app = "demo_sigio" /\ "#" \in ToSet(queue) \cup ToSet(seen) => pc = "done"
    /\ app = "poll_pipes" => pc = "done" \/ \E f \in 1..2 : content[f] = PipeCap
    /\ app = "t_select" => pc \in {"done", "usage"}
=============================================================================
