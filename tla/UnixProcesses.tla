--------------------------- MODULE UnixProcesses ----------------------------
(***************************************************************************)
(* Processes, pipes, a file and signals, as the example programs use them: *)
(* every process executes a text, a sequence of instructions that each     *)
(* stand for a system call or a few lines of C. An instruction is a tuple  *)
(* of its label ("" if none), its name and its arguments. The texts of the *)
(* programs and what is to hold of each follow the instructions; then      *)
(* setenv(). The last part is the specification that is model checked, in  *)
(* which one of them is run, or a script of the tools on IPC objects       *)
(* (IpcTools), acl_update (AclUpdate), execlp() (Execlp), inetConnect()    *)
(* or one of its relatives (SocketSetup), or a program under a system call *)
(* filter (Seccomp).                                                       *)
(***************************************************************************)
EXTENDS Integers, Sequences, SequencesExt, FiniteSets

CONSTANTS
    Text,        \* program name -> text
    Scenarios,   \* scenario -> the programs that the shell starts, in the order of PIDs
    WithFile,    \* the scenarios in which the file exists at first
    Input,       \* what is on the standard input
    MaxProc,     \* bound: processes ever created
    MaxFaults,   \* bound: system calls that fail
    PIPE_SIZE    \* bytes that fit in a pipe

VARIABLES
    scenario,    \* what is run
    proc,        \* per process ID: the process
    pipes,       \* per pipe: the bytes in it
    disk,        \* the file: whether it exists, its contents, its open file descriptions
    input,       \* the rest of the standard input
    out,         \* what was printed: a sequence of tuples
    faults       \* system calls that have failed

vars == <<scenario, proc, pipes, disk, input, out, faults>>

SIGINT == 2
SIGQUIT == 3
SIGKILL == 9
SIGUSR1 == 10
SIGRTMIN == 34

AllSignals == {SIGINT, SIGQUIT, SIGUSR1, SIGRTMIN, SIGRTMIN + 1}
Registers == {"data", "j", "flag", "count", "offset"}

(* A process: its text and the index of its next instruction; its state; its parent (0:
   init); its descriptors, a set of <<name, pipe, end>> (pipe 0: the terminal; end "f":
   the number of an open file description instead of a pipe); its signal mask, the mask that a sigsuspend() will restore, the pending signals <<number, value>>
   and the dispositions; its memory, exit handlers and stdio buffer; its last child. *)
Started(name) ==
    [text |-> name, at |-> 1, st |-> "run", parent |-> 0,
     fds |-> {<<"stdin", 0, "r">>, <<"stdout", 0, "w">>},
     mask |-> {}, saved |-> {}, pend |-> << >>, disp |-> [s \in AllSignals |-> "default"],
     reg |-> [r \in Registers |-> IF r = "data" THEN << >> ELSE 0],
     atexit |-> << >>, stdio |-> << >>, child |-> 0]

Init ==
    /\ scenario \in DOMAIN Scenarios
    /\ proc = [p \in 1..Len(Scenarios[scenario]) |-> Started(Scenarios[scenario][p])]
    /\ pipes = << >> /\ disk = [exists |-> scenario \in WithFile, content |-> << >>, opens |-> << >>]
    /\ input = Input /\ out = << >> /\ faults = 0

Procs == DOMAIN proc
Alive(p) == proc[p].st \notin {"zombie", "gone"}
Children(p) == {c \in Procs : proc[c].parent = p /\ proc[c].st # "gone"}
I(p) == Text[proc[p].text][proc[p].at]
Running(p, op) == proc[p].st = "run" /\ I(p)[2] = op

LabelAt(r, l) == [r EXCEPT !.at = CHOOSE i \in DOMAIN Text[r.text] : Text[r.text][i][1] = l]
Next1(r) == [r EXCEPT !.at = @ + 1]
Set(r, x, v) == [r EXCEPT !.reg[x] = v]

(* p goes on as the process r, and nothing else changes. *)
Becomes(p, r) == proc' = [proc EXCEPT ![p] = r] /\ UNCHANGED <<scenario, faults>>
Only(p, r) == Becomes(p, r) /\ UNCHANGED <<pipes, disk, input, out>>

Holders(k, end) == {p \in Procs : \E d \in proc[p].fds : d[2] = k /\ d[3] = end}
Lines(s) == [n \in DOMAIN s |-> <<s[n]>>]
EndOf(p, fd) == CHOOSE d \in proc[p].fds : d[1] = fd
IsOpen(p, fd) == \E d \in proc[p].fds : d[1] = fd

-----------------------------------------------------------------------------
(* Computation *)

Upper(c) == CASE c = "a" -> "A" [] c = "b" -> "B" [] OTHER -> c

Compute(p) ==
    LET r == proc[p] i == I(p) IN
    \/ Running(p, "goto") /\ Only(p, LabelAt(r, i[3]))
    \/ Running(p, "if") /\ Only(p, IF r.reg[i[3]] = i[4] THEN LabelAt(r, i[5]) ELSE Next1(r))
    \/ Running(p, "set") /\ Only(p, Next1(Set(r, i[3], i[4])))
    \/ /\ Running(p, "again")     \* the end of a loop: again, as long as ++j < n
       /\ LET s == Set(r, i[3], r.reg[i[3]] + 1)
          IN  Only(p, IF s.reg[i[3]] < i[4] THEN LabelAt(s, i[5]) ELSE Next1(s))
    \/ Running(p, "toupper") /\ Only(p, Next1(Set(r, "data",
                                        [n \in DOMAIN r.reg["data"] |-> Upper(r.reg["data"][n])])))
    \/ Running(p, "ifppid") /\ Only(p, IF r.parent = 0 THEN LabelAt(r, i[3]) ELSE Next1(r))

(* Unbuffered output: a value, or the value of a register. *)
Output(p) ==
    LET r == proc[p] i == I(p) IN
    \/ /\ Running(p, "print")
       /\ out' = Append(out, <<i[3]>>)
       /\ Becomes(p, Next1(r)) /\ UNCHANGED <<pipes, disk, input>>
    \/ /\ Running(p, "show")
       /\ out' = Append(out, <<i[3], r.reg[i[4]]>>)
       /\ Becomes(p, Next1(r)) /\ UNCHANGED <<pipes, disk, input>>
    \/ /\ Running(p, "ps")       \* system("ps ..."): the state of the child
       /\ out' = Append(out, <<"child", proc[r.child].st>>)
       /\ Becomes(p, Next1(r)) /\ UNCHANGED <<pipes, disk, input>>
    \/ /\ Running(p, "sigpending")
       /\ out' = Append(out, <<"pending", {r.pend[n][1] : n \in DOMAIN r.pend}>>)
       /\ Becomes(p, Next1(r)) /\ UNCHANGED <<pipes, disk, input>>
    \/ /\ Running(p, "printSigMask")
       /\ out' = Append(out, <<i[3], r.mask>>)
       /\ Becomes(p, Next1(r)) /\ UNCHANGED <<pipes, disk, input>>
    \/ Running(p, "printf") /\ Only(p, [Next1(r) EXCEPT !.stdio = Append(@, i[3])])
    \/ Running(p, "atexit") /\ Only(p, [Next1(r) EXCEPT !.atexit = Append(@, i[3])])

-----------------------------------------------------------------------------
(* Processes *)

Fork(p) ==
    LET r == proc[p] c == Len(proc) + 1
        child == [LabelAt(r, I(p)[3]) EXCEPT !.parent = p, !.pend = << >>]
    IN  /\ Running(p, "fork") \/ Running(p, "vfork")
        /\ c <= MaxProc
        /\ proc' = Append([proc EXCEPT ![p] =
                      [Next1(r) EXCEPT !.child = c,
                                       !.st = IF I(p)[2] = "vfork" THEN "vfork" ELSE "run"]], child)
        /\ UNCHANGED <<scenario, pipes, disk, input, out, faults>>

(* The end of p, with what it still prints: its descriptors are closed, its children go to
   init, and it becomes a zombie unless init is its parent. A parent that waits in vfork()
   goes on, with the memory that its child has changed. *)
Ends(p, printed) ==
    /\ proc' = [q \in Procs |->
          IF q = p THEN [proc[p] EXCEPT !.st = IF proc[p].parent = 0 THEN "gone" ELSE "zombie",
                                        !.fds = {}, !.pend = << >>]
          ELSE IF proc[q].parent = p
          THEN [proc[q] EXCEPT !.parent = 0, !.st = IF @ = "zombie" THEN "gone" ELSE @]
          ELSE IF proc[q].st = "vfork" /\ proc[q].child = p
          THEN [proc[q] EXCEPT !.st = "run", !.reg = proc[p].reg]
          ELSE proc[q]]
    /\ out' = out \o Lines(printed)
    /\ UNCHANGED <<scenario, pipes, disk, input>>

(* exit() calls the exit handlers, the last registered first, and flushes stdio. *)
Exit(p) ==
    \/ Running(p, "exit") /\ Ends(p, Reverse(proc[p].atexit) \o proc[p].stdio) /\ UNCHANGED faults
    \/ Running(p, "_exit") /\ Ends(p, << >>) /\ UNCHANGED faults

(* A system call fails, and errExit() ends the process; make_zombie only reports that kill()
   has failed, with errMsg(). *)
CanFail == {"pipe", "fork", "vfork", "read", "write", "kill"}
Reported(p) == proc[p].text = "make_zombie" /\ I(p)[2] = "kill"
Fail(p) ==
    /\ proc[p].st = "run" /\ I(p)[2] \in CanFail
    /\ faults < MaxFaults /\ faults' = faults + 1
    /\ \/ ~Reported(p) /\ Ends(p, Reverse(proc[p].atexit) \o proc[p].stdio)
       \/ /\ Reported(p) /\ proc' = [proc EXCEPT ![p] = Next1(@)]
          /\ UNCHANGED <<scenario, pipes, disk, input, out>>

(* wait(): a dead child, or the label if there are no children. *)
Wait(p) ==
    /\ Running(p, "wait")
    /\ \/ Children(p) = {} /\ Only(p, LabelAt(proc[p], I(p)[3]))
       \/ \E c \in Children(p) :
             /\ proc[c].st = "zombie"
             /\ proc' = [proc EXCEPT ![p] = Next1(@), ![c].st = "gone"]
             /\ UNCHANGED <<scenario, pipes, disk, input, out, faults>>

Exec(p) ==
    Running(p, "exec") /\ Only(p, [proc[p] EXCEPT !.text = I(p)[3], !.at = 1])

-----------------------------------------------------------------------------
(* Pipes and the terminal *)

Pipe(p) ==
    LET k == Len(pipes) + 1 IN
    /\ Running(p, "pipe")
    /\ pipes' = Append(pipes, << >>)
    /\ Becomes(p, [Next1(proc[p]) EXCEPT
                      !.fds = @ \cup {<<I(p)[3], k, "r">>, <<I(p)[4], k, "w">>}])
    /\ UNCHANGED <<disk, input, out>>

(* close(), and close() whose failure is reported with errMsg(). *)
Close(p) ==
    LET r == proc[p] fd == I(p)[3] IN
    \/ /\ Running(p, "close") \/ Running(p, "closemsg")
       /\ IsOpen(p, fd)
       /\ Only(p, [Next1(r) EXCEPT !.fds = @ \ {EndOf(p, fd)}])
    \/ /\ Running(p, "closemsg") /\ ~IsOpen(p, fd)
       /\ out' = Append(out, <<"EBADF">>)
       /\ Becomes(p, Next1(r)) /\ UNCHANGED <<pipes, disk, input>>

Dup2(p) ==
    LET r == proc[p] from == EndOf(p, I(p)[3]) to == I(p)[4] IN
    /\ Running(p, "dup2")
    /\ Only(p, [Next1(r) EXCEPT !.fds = {d \in @ : d[1] # to} \cup {<<to, from[2], from[3]>>}])

Taken(s, n) == SubSeq(s, 1, IF Len(s) < n THEN Len(s) ELSE n)
Rest(s, n) == SubSeq(s, Len(Taken(s, n)) + 1, Len(s))

(* read() of at most n bytes: from the terminal, or from a pipe, where it waits while the
   pipe is empty and somebody could write to it. At end of file it goes to the label. *)
Read(p) ==
    LET r == proc[p] i == I(p) k == EndOf(p, i[3])[2] n == i[4] IN
    /\ Running(p, "read")
    /\ \/ /\ k = 0 /\ input # << >>
          /\ \E m \in 1..n :
                /\ m <= Len(input)
                /\ Becomes(p, Next1(Set(r, "data", Taken(input, m))))
                /\ input' = Rest(input, m)
          /\ UNCHANGED <<pipes, disk, out>>
       \/ /\ k # 0 /\ pipes[k] # << >>
          /\ pipes' = [pipes EXCEPT ![k] = Rest(@, n)]
          /\ Becomes(p, Next1(Set(r, "data", Taken(pipes[k], n))))
          /\ UNCHANGED <<disk, input, out>>
       \/ /\ IF k = 0 THEN input = << >> ELSE pipes[k] = << >> /\ Holders(k, "w") = {}
          /\ Only(p, LabelAt(r, i[5]))

(* write() of the register "data", in one piece: it waits for room in the pipe; without a
   reader the process dies of SIGPIPE. *)
Write(p) ==
    LET r == proc[p] data == r.reg["data"] k == EndOf(p, I(p)[3])[2] IN
    /\ Running(p, "write")
    /\ \/ /\ k = 0 /\ out' = out \o Lines(data)
          /\ Becomes(p, Next1(r)) /\ UNCHANGED <<pipes, disk, input>>
       \/ /\ k # 0 /\ Holders(k, "r") # {} /\ Len(pipes[k]) + Len(data) <= PIPE_SIZE
          /\ pipes' = [pipes EXCEPT ![k] = @ \o data]
          /\ Becomes(p, Next1(r)) /\ UNCHANGED <<disk, input, out>>
       \/ k # 0 /\ Holders(k, "r") = {} /\ Ends(p, << >>) /\ UNCHANGED faults

(* select() on the read end of a pipe, and the loop that drains it without blocking. *)
Select(p) ==
    LET r == proc[p] k == EndOf(p, I(p)[3])[2] IN
    \/ Running(p, "select") /\ pipes[k] # << >> /\ Only(p, Next1(r))
    \/ /\ Running(p, "drain")
       /\ pipes' = [pipes EXCEPT ![k] = << >>]
       /\ Becomes(p, Next1(r)) /\ UNCHANGED <<disk, input, out>>

-----------------------------------------------------------------------------
(* A file. An open file description has an offset, the flag O_APPEND and a lock. *)

Open(p) ==
    LET i == I(p) r == proc[p] flags == i[4] k == Len(disk.opens) + 1 IN
    /\ Running(p, "open")
    /\ IF ~disk.exists /\ "O_CREAT" \notin flags THEN Only(p, LabelAt(r, i[5]))
       ELSE /\ disk' = [exists |-> TRUE,
                        content |-> IF "O_TRUNC" \in flags THEN << >> ELSE disk.content,
                        opens |-> Append(disk.opens, [offset |-> 0, lock |-> "un",
                                                      append |-> "O_APPEND" \in flags])]
            /\ Becomes(p, [Next1(r) EXCEPT !.fds = @ \cup {<<i[3], k, "f">>}])
            /\ UNCHANGED <<pipes, input, out>>

(* Bytes written at an offset; a gap is filled with null bytes. *)
Overwrite(content, at, data) ==
    LET size == IF at + Len(data) > Len(content) THEN at + Len(data) ELSE Len(content) IN
    [n \in 1..size |-> IF n > at /\ n <= at + Len(data) THEN data[n - at]
                       ELSE IF n <= Len(content) THEN content[n] ELSE "nul"]

(* Two open file descriptions can both have their locks. *)
Compatible(x, y) == x = "un" \/ y = "un" \/ (x = "sh" /\ y = "sh")
Grantable(k, lock) ==
    \A m \in DOMAIN disk.opens :
       m = k \/ Holders(m, "f") = {} \/ Compatible(lock, disk.opens[m].lock)

Changes(p, new) ==
    disk' = new /\ Becomes(p, Next1(proc[p])) /\ UNCHANGED <<pipes, input, out>>

(* lseek() (to the end: -1); write() of the register "data", with O_APPEND at the end, in
   one step; F_SETFL; flock(), which waits, or with LOCK_NB goes to a label. *)
FileOp(p) ==
    LET i == I(p) r == proc[p] k == EndOf(p, i[3])[2] d == disk.opens[k] IN
    \/ /\ Running(p, "lseek")
       /\ Changes(p, [disk EXCEPT !.opens[k].offset = IF i[4] = -1 THEN Len(disk.content) ELSE i[4]])
    \/ /\ Running(p, "fwrite")
       /\ LET at == IF d.append THEN Len(disk.content) ELSE d.offset IN
          Changes(p, [disk EXCEPT !.content = Overwrite(@, at, r.reg["data"]),
                               !.opens[k].offset = at + Len(r.reg["data"])])
    \/ Running(p, "setfl") /\ Changes(p, [disk EXCEPT !.opens[k].append = TRUE])
    \/ Running(p, "flock") /\ Grantable(k, i[4]) /\ Changes(p, [disk EXCEPT !.opens[k].lock = i[4]])
    \/ /\ Running(p, "flock") /\ ~Grantable(k, i[4]) /\ Len(i) = 5
       /\ Only(p, LabelAt(r, i[5]))

(* lseek() and F_GETFL that show offset and flag, read() that shows what it has read, and
   system("cat"). *)
FileShow(p) ==
    LET i == I(p) r == proc[p] IN
    \/ /\ Running(p, "tell")
       /\ LET d == disk.opens[EndOf(p, i[3])[2]] IN out' = Append(out, <<"offset", d.offset, d.append>>)
       /\ Becomes(p, Next1(r)) /\ UNCHANGED <<pipes, disk, input>>
    \/ /\ Running(p, "fread")
       /\ LET k == EndOf(p, i[3])[2]
              got == Taken(Rest(disk.content, disk.opens[k].offset), i[4])
          IN  /\ out' = Append(out, <<"read", got>>)
              /\ disk' = [disk EXCEPT !.opens[k].offset = @ + Len(got)]
       /\ Becomes(p, Next1(r)) /\ UNCHANGED <<pipes, input>>
    \/ /\ Running(p, "cat")
       /\ out' = Append(out, <<"cat", disk.content>>)
       /\ Becomes(p, Next1(r)) /\ UNCHANGED <<pipes, disk, input>>

-----------------------------------------------------------------------------
(* Signals *)

(* A signal becomes pending; a standard signal is pending once, a realtime signal is
   queued. The dead do not notice, nor do those that ignore the signal, unless they block
   it. *)
Sent(q, sig, value) ==
    LET r == proc[q] IN
    IF ~Alive(q) \/ (sig \in AllSignals \ r.mask /\ r.disp[sig] = "ignore")
          \/ (sig < SIGRTMIN /\ \E n \in DOMAIN r.pend : r.pend[n][1] = sig)
    THEN r ELSE [r EXCEPT !.pend = Append(@, <<sig, value>>)]

Target(p) ==
    CASE I(p)[3] = "parent" -> proc[p].parent
      [] I(p)[3] = "child" -> proc[p].child
      [] I(p)[3] = "receiver" -> 1

(* kill() and sigqueue(), whose value is that of the register "j". A process that is not
   there, or is init, is an error. *)
Kill(p) ==
    /\ Running(p, "kill")
    /\ IF Target(p) = 0 \/ proc[Target(p)].st = "gone"
       THEN Ends(p, << >>) /\ UNCHANGED faults
       ELSE /\ proc' = [proc EXCEPT ![p] = Next1(@),
                             ![Target(p)] = Sent(Target(p), I(p)[4], proc[p].reg["j"])]
            /\ UNCHANGED <<scenario, pipes, disk, input, out, faults>>

(* sigaction(): ignoring a signal also discards it if it is pending. *)
Sigaction(p) ==
    /\ Running(p, "sigaction")
    /\ LET i == I(p) r == Next1(proc[p]) sigs == i[3]
           s == [r EXCEPT !.disp = [x \in AllSignals |-> IF x \in sigs THEN i[4] ELSE @[x]]]
       IN  Only(p, IF i[4] # "ignore" THEN s
                   ELSE [s EXCEPT !.pend = SelectSeq(@, LAMBDA e : e[1] \notin sigs)])

Deliverable(r) == {n \in DOMAIN r.pend : r.pend[n][1] \notin r.mask \/ r.pend[n][1] = SIGKILL}

(* On its way back from the kernel a process first takes all signals it can. *)
Back(r) == [r EXCEPT !.st = IF Deliverable(r) = {} THEN "run" ELSE "kernel"]

Sigprocmask(p) ==
    Running(p, "setmask") /\ Only(p, Back([Next1(proc[p]) EXCEPT !.mask = I(p)[3]]))

(* sigsuspend() and pause(): the mask is replaced and the process sleeps, in one step. *)
Suspend(p) ==
    LET r == proc[p] IN
    \/ Running(p, "sigsuspend") /\ Only(p, [r EXCEPT !.st = "suspended", !.saved = r.mask,
                                                     !.mask = I(p)[3]])
    \/ Running(p, "pause") /\ Only(p, [r EXCEPT !.st = "suspended", !.saved = r.mask])

Resume(p) ==
    /\ proc[p].st = "woken" /\ Deliverable(proc[p]) = {}
    /\ Only(p, Back([Next1(proc[p]) EXCEPT !.mask = proc[p].saved]))

(* What the handlers of the programs do: nothing; print the signal, with its value, and
   set a flag or count; write a byte to the pipe "w" unless it is full; overwrite the static
   buffer "data" of crypt(); or jump. *)
Handle(p, sig, value) ==
    LET h == proc[p].disp[sig] IN
    /\ out' = IF h \in {"caught", "intquit", "longjmp", "siglongjmp"} \/ (h = "report" /\ sig # SIGINT)
              THEN Append(out, <<"caught", sig, value>>) ELSE out
    /\ pipes' = IF h # "selfpipe" THEN pipes
                ELSE LET k == EndOf(p, "w")[2]
                     IN  IF Len(pipes[k]) >= PIPE_SIZE THEN pipes
                         ELSE [pipes EXCEPT ![k] = Append(@, "x")]

Handled(r, sig) ==
    CASE r.disp[sig] = "caught" /\ sig = SIGQUIT -> Set(r, "flag", sig)
      [] r.disp[sig] \in {"count", "report"} ->
            IF sig = SIGINT THEN Set(r, "flag", sig) ELSE Set(r, "count", r.reg["count"] + 1)
      [] r.disp[sig] = "crypt" -> Set(Set(r, "data", <<"crypt 2">>), "count", r.reg["count"] + 1)
      [] OTHER -> r

(* Once the flag canJump is set the handler of sigmask_longjmp leaves by a jump. The signal
   is blocked in the handler; longjmp() leaves it so, siglongjmp() restores the mask that
   sigsetjmp() has found, which is empty. *)
Jumps(r, sig) == r.disp[sig] \in {"longjmp", "siglongjmp"} /\ r.reg["flag"] = 1
Jumped(r, sig) ==
    [LabelAt(r, "jumped") EXCEPT
        !.mask = IF r.disp[sig] = "siglongjmp" THEN {} ELSE @ \cup {sig}]

(* The signal with the lowest number is delivered first, and of several the one that was
   sent first. *)
Deliver(p) ==
    /\ proc[p].st \in {"run", "kernel", "suspended", "woken"}
    /\ \E n \in Deliverable(proc[p]) :
          LET r == proc[p] sig == r.pend[n][1] value == r.pend[n][2]
              s == [r EXCEPT !.pend = RemoveAt(@, n)]
          IN  /\ \A m \in Deliverable(r) : r.pend[m][1] > sig \/ (r.pend[m][1] = sig /\ m >= n)
              /\ IF sig = SIGKILL \/ r.disp[sig] = "default"
                 THEN Ends(p, << >>) /\ UNCHANGED faults
                 ELSE IF sig = SIGQUIT /\ r.disp[sig] = "intquit"
                 THEN Ends(p, <<"that's all folks">>) /\ UNCHANGED faults
                 ELSE /\ Handle(p, sig, value)
                      /\ Becomes(p, IF Jumps(s, sig) THEN Back(Jumped(s, sig))
                                    ELSE IF r.st \in {"run", "kernel"} THEN Back(Handled(s, sig))
                                    ELSE [Handled(s, sig) EXCEPT !.st = "woken"])
                      /\ UNCHANGED <<disk, input>>

(* sigwaitinfo() and read() from a signalfd take a pending signal, blocked as it is. *)
Sigwaitinfo(p) ==
    /\ Running(p, "sigwaitinfo")
    /\ \E n \in DOMAIN proc[p].pend \ Deliverable(proc[p]) :
          LET r == proc[p] e == r.pend[n] IN
          /\ \A m \in DOMAIN r.pend \ Deliverable(r) : r.pend[m][1] > e[1] \/ (r.pend[m][1] = e[1] /\ m >= n)
          /\ Becomes(p, Next1([Set(r, "flag", e[1]) EXCEPT !.pend = RemoveAt(@, n)]))
          /\ out' = IF e[1] = SIGINT THEN out ELSE Append(out, <<"caught", e[1], e[2]>>)
    /\ UNCHANGED <<pipes, disk, input>>

-----------------------------------------------------------------------------
Step(p) ==
    \/ Compute(p) \/ Output(p) \/ Fork(p) \/ Exit(p) \/ Wait(p) \/ Exec(p)
    \/ Pipe(p) \/ Close(p) \/ Dup2(p) \/ Read(p) \/ Write(p) \/ Select(p)
    \/ Open(p) \/ FileOp(p) \/ FileShow(p)
    \/ Kill(p) \/ Sigaction(p) \/ Sigprocmask(p) \/ Suspend(p) \/ Resume(p) \/ Sigwaitinfo(p)

Next == \E p \in Procs : Step(p) \/ Deliver(p) \/ Fail(p)

Spec == Init /\ [][Next]_vars

-----------------------------------------------------------------------------
(* The programs. Sleeping leaves no trace in a text: any step of another process may come
   between two instructions. A loop over command-line arguments is run for two of them. *)

String == <<"a", "b", "1">>
BUF_SIZE == 2

-----------------------------------------------------------------------------
(* pipes/ *)

(* Mutant: the parent waits before it closes its write end. *)
simple_pipe_waits_first ==
    << <<"", "pipe", "r", "w">>, <<"", "fork", "child">>,
       <<"", "close", "r">>, <<"", "set", "data", String>>, <<"", "write", "w">>,
       <<"", "wait", "done">>, <<"done", "close", "w">>, <<"", "exit">>,
       <<"child", "close", "w">>,
       <<"loop", "read", "r", BUF_SIZE, "eof">>, <<"", "write", "stdout">>, <<"", "goto", "loop">>,
       <<"eof", "print", "newline">>, <<"", "close", "r">>, <<"", "_exit">> >>

simple_pipe ==
    << <<"", "pipe", "r", "w">>, <<"", "fork", "child">>,
       <<"", "close", "r">>, <<"", "set", "data", String>>, <<"", "write", "w">>,
       <<"", "close", "w">>, <<"", "wait", "done">>, <<"done", "exit">>,
       <<"child", "close", "w">>,
       <<"loop", "read", "r", BUF_SIZE, "eof">>, <<"", "write", "stdout">>, <<"", "goto", "loop">>,
       <<"eof", "print", "newline">>, <<"", "close", "r">>, <<"", "_exit">> >>

pipe_ls_wc ==
    << <<"", "pipe", "r", "w">>, <<"", "fork", "ls">>, <<"", "fork", "wc">>,
       <<"", "close", "r">>, <<"", "close", "w">>,
       <<"", "wait", "end">>, <<"", "wait", "end">>, <<"end", "exit">>,
       <<"ls", "close", "r">>, <<"", "dup2", "w", "stdout">>, <<"", "close", "w">>, <<"", "exec", "ls">>,
       <<"wc", "close", "w">>, <<"", "dup2", "r", "stdin">>, <<"", "close", "r">>, <<"", "exec", "wc">> >>

(* ls with two files, and wc -l. *)
ls == << <<"", "set", "data", <<"line">> >>, <<"loop", "write", "stdout">>,
         <<"", "again", "j", 2, "loop">>, <<"", "exit">> >>
wc == << <<"loop", "read", "stdin", 1, "eof">>, <<"", "again", "count", 99, "loop">>,
         <<"eof", "show", "lines", "count">>, <<"", "exit">> >>

(* Mutant: the child closes the pipe before it does its work. *)
pipe_sync_closes_first ==
    << <<"", "pipe", "r", "w">>,
       <<"loop", "fork", "child">>, <<"", "again", "j", 2, "loop">>,
       <<"", "close", "w">>, <<"", "read", "r", 1, "eof">>, <<"", "exit">>,
       <<"eof", "print", "ready">>, <<"", "exit">>,
       <<"child", "close", "r">>, <<"", "close", "w">>, <<"", "show", "done", "j">>, <<"", "_exit">> >>

pipe_sync ==
    << <<"", "pipe", "r", "w">>,
       <<"loop", "fork", "child">>, <<"", "again", "j", 2, "loop">>,
       <<"", "close", "w">>, <<"", "read", "r", 1, "eof">>, <<"", "exit">>,
       <<"eof", "print", "ready">>, <<"", "exit">>,
       <<"child", "close", "r">>, <<"", "show", "done", "j">>, <<"", "close", "w">>, <<"", "_exit">> >>

(* BUF_SIZE "should be <= PIPE_BUF bytes". *)
change_case ==
    << <<"", "pipe", "or", "ow">>, <<"", "pipe", "ir", "iw">>, <<"", "fork", "child">>,
       <<"", "close", "or">>, <<"", "close", "iw">>,
       <<"loop", "read", "stdin", BUF_SIZE, "eof">>, <<"", "write", "ow">>,
       <<"", "read", "ir", BUF_SIZE, "loop">>, <<"", "write", "stdout">>, <<"", "goto", "loop">>,
       <<"eof", "exit">>,
       <<"child", "close", "ow">>, <<"", "close", "ir">>,
       <<"conv", "read", "or", BUF_SIZE, "none">>, <<"", "toupper">>, <<"", "write", "iw">>,
       <<"", "goto", "conv">>, <<"none", "_exit">> >>

-----------------------------------------------------------------------------
(* procexec/ *)

t_fork ==
    << <<"", "set", "j", 111>>, <<"", "fork", "child">>,
       <<"", "show", "parent", "j">>, <<"", "exit">>,
       <<"child", "set", "j", 333>>, <<"", "show", "child", "j">>, <<"", "exit">> >>

t_vfork ==
    << <<"", "set", "j", 222>>, <<"", "vfork", "child">>,
       <<"", "print", "Parent executing">>, <<"", "show", "istack", "j">>, <<"", "exit">>,
       <<"child", "print", "Child executing">>, <<"", "set", "j", 666>>, <<"", "_exit">> >>

vfork_fd_test ==
    << <<"", "vfork", "child">>,
       <<"", "closemsg", "stdout">>, <<"", "closemsg", "stdout">>, <<"", "exit">>,
       <<"child", "closemsg", "stdout">>, <<"", "_exit">> >>

fork_stdio_buf ==
    << <<"", "printf", "Hello world">>, <<"", "set", "data", <<"Ciao">> >>, <<"", "write", "stdout">>,
       <<"", "fork", "both">>, <<"both", "exit">> >>

exit_handlers ==
    << <<"", "atexit", "onexit 10">>, <<"", "atexit", "atexit 1">>, <<"", "atexit", "atexit 2">>,
       <<"", "atexit", "onexit 20">>, <<"", "exit">> >>

fork_whos_on_first ==
    << <<"loop", "fork", "child">>, <<"", "show", "parent", "j">>, <<"", "wait", "next">>,
       <<"next", "again", "j", 2, "loop">>, <<"", "exit">>,
       <<"child", "show", "child", "j">>, <<"", "_exit">> >>

fork_sig_sync ==
    << <<"", "setmask", {SIGUSR1}>>, <<"", "sigaction", {SIGUSR1}, "nop">>, <<"", "fork", "child">>,
       <<"", "sigsuspend", {}>>, <<"", "print", "got signal">>, <<"", "setmask", {}>>, <<"", "exit">>,
       <<"child", "print", "work done">>, <<"", "kill", "parent", SIGUSR1>>, <<"", "_exit">> >>

multi_wait ==
    << <<"loop", "fork", "child">>, <<"", "again", "j", 2, "loop">>,
       <<"dead", "wait", "bye">>, <<"", "again", "count", 99, "dead">>,
       <<"bye", "show", "numDead", "count">>, <<"", "exit">>,
       <<"child", "_exit">> >>

make_zombie ==
    << <<"", "fork", "child">>, <<"", "ps">>, <<"", "kill", "child", SIGKILL>>, <<"", "ps">>, <<"", "exit">>,
       <<"child", "print", "exiting">>, <<"", "_exit">> >>

orphan ==
    << <<"", "fork", "child">>, <<"", "print", "exiting">>, <<"", "exit">>,
       <<"child", "ifppid", "orphaned">>, <<"", "goto", "child">>,
       <<"orphaned", "print", "orphaned">>, <<"", "_exit">> >>

-----------------------------------------------------------------------------
(* fileio/, procexec/fork_file_sharing.c and filelock/t_flock.c *)

(* With O_APPEND, or with the argument 'x'. *)
atomic_append ==
    << <<"", "open", "fd", {"O_CREAT", "O_APPEND"}>>, <<"", "set", "data", <<"x">> >>,
       <<"loop", "fwrite", "fd">>, <<"", "again", "j", 2, "loop">>, <<"", "exit">> >>
atomic_append_x ==
    << <<"", "open", "fd", {"O_CREAT"}>>, <<"", "set", "data", <<"x">> >>,
       <<"loop", "lseek", "fd", -1>>, <<"", "fwrite", "fd">>, <<"", "again", "j", 2, "loop">>,
       <<"", "exit">> >>

bad_exclusive_open ==
    << <<"", "open", "fd", {}, "none">>, <<"", "print", "already exists">>, <<"", "close", "fd">>,
       <<"", "exit">>,
       <<"none", "print", "doesn't exist yet">>, <<"", "open", "fd", {"O_CREAT"}>>,
       <<"", "print", "Created">>, <<"", "exit">> >>

(* Each write() is of one unit. *)
multi_descriptors ==
    << <<"", "open", "fd1", {"O_CREAT", "O_TRUNC"}>>, <<"", "dup2", "fd1", "fd2">>,
       <<"", "open", "fd3", {}, "none">>,
       <<"", "set", "data", <<"Hello,">> >>, <<"", "fwrite", "fd1">>, <<"", "cat">>,
       <<"", "set", "data", <<" world">> >>, <<"", "fwrite", "fd2">>, <<"", "cat">>,
       <<"", "lseek", "fd2", 0>>,
       <<"", "set", "data", <<"HELLO,">> >>, <<"", "fwrite", "fd1">>, <<"", "cat">>,
       <<"", "set", "data", <<"Gidday">> >>, <<"", "fwrite", "fd3">>, <<"", "cat">>,
       <<"", "close", "fd1">>, <<"", "close", "fd2">>, <<"", "close", "fd3">>, <<"none", "exit">> >>

(* seek_io file s2 wab s1 r2 R9 r9 *)
seek_io ==
    << <<"", "open", "fd", {"O_CREAT"}>>,
       <<"", "lseek", "fd", 2>>, <<"", "set", "data", <<"a", "b">> >>, <<"", "fwrite", "fd">>,
       <<"", "lseek", "fd", 1>>, <<"", "fread", "fd", 2>>, <<"", "fread", "fd", 9>>,
       <<"", "fread", "fd", 9>>, <<"", "close", "fd">>, <<"", "exit">> >>

fork_file_sharing ==
    << <<"", "open", "fd", {"O_CREAT"}>>, <<"", "tell", "fd">>, <<"", "fork", "child">>,
       <<"", "wait", "end">>, <<"", "tell", "fd">>, <<"end", "exit">>,
       <<"child", "lseek", "fd", 3>>, <<"", "setfl", "fd">>, <<"", "_exit">> >>

t_flock(lock, nb) ==
    << <<"", "open", "fd", {}, "bye">>,
       IF nb THEN <<"", "flock", "fd", lock, "bye">> ELSE <<"", "flock", "fd", lock>>,
       <<"", "print", <<"granted", lock>> >>,
       <<"", "print", <<"releasing", lock>> >>, <<"", "flock", "fd", "un">>, <<"bye", "exit">> >>

-----------------------------------------------------------------------------
(* signals/ and altio/self_pipe.c. The receivers are process 1; the user sends SIGINT and
   SIGQUIT from the terminal. *)

user == << <<"", "kill", "receiver", SIGINT>>, <<"", "exit">> >>
user_quits == << <<"", "kill", "receiver", SIGINT>>, <<"", "kill", "receiver", SIGQUIT>>, <<"", "exit">> >>

sig_sender ==
    << <<"loop", "kill", "receiver", SIGUSR1>>, <<"", "again", "j", 2, "loop">>,
       <<"", "kill", "receiver", SIGINT>>, <<"", "exit">> >>

sig_receiver ==
    << <<"", "sigaction", AllSignals, "count">>,
       <<"", "setmask", AllSignals>>, <<"", "sigpending">>, <<"", "setmask", {}>>,
       <<"loop", "if", "flag", SIGINT, "end">>, <<"", "goto", "loop">>,
       <<"end", "show", "caught", "count">>, <<"", "exit">> >>

sig_speed_sigsuspend ==
    << <<"", "sigaction", {SIGUSR1}, "nop">>, <<"", "setmask", {SIGUSR1}>>, <<"", "fork", "child">>,
       <<"parent", "sigsuspend", {}>>, <<"", "kill", "child", SIGUSR1>>,
       <<"", "again", "j", 2, "parent">>, <<"", "exit">>,
       <<"child", "kill", "parent", SIGUSR1>>, <<"", "sigsuspend", {}>>,
       <<"", "again", "j", 2, "child">>, <<"", "exit">> >>

t_sigsuspend ==
    << <<"", "setmask", {SIGINT, SIGQUIT}>>, <<"", "sigaction", {SIGINT, SIGQUIT}, "caught">>,
       <<"loop", "print", "critical">>, <<"", "print", "uncritical">>, <<"", "sigsuspend", {}>>,
       <<"", "if", "flag", SIGQUIT, "end">>, <<"", "goto", "loop">>,
       <<"end", "setmask", {}>>, <<"", "exit">> >>

ignore_pending_sig ==
    << <<"", "sigaction", {SIGINT}, "caught">>, <<"", "setmask", {SIGINT}>>, <<"", "sigpending">>,
       <<"", "sigaction", {SIGINT}, "ignore">>, <<"", "sigpending">>,
       <<"", "sigaction", {SIGINT}, "caught">>, <<"", "setmask", {}>>, <<"", "exit">> >>

t_sigqueue ==
    << <<"loop", "kill", "receiver", SIGRTMIN>>, <<"", "again", "j", 2, "loop">>, <<"", "exit">> >>

catch_rtsigs ==
    << <<"", "sigaction", AllSignals \ {SIGQUIT}, "report">>,
       <<"", "setmask", AllSignals \ {SIGINT}>>, <<"", "setmask", {}>>,
       <<"loop", "if", "flag", SIGINT, "end">>, <<"", "pause">>, <<"", "goto", "loop">>,
       <<"end", "show", "total", "count">>, <<"", "exit">> >>

t_sigwaitinfo ==
    << <<"", "setmask", AllSignals>>, <<"loop", "sigwaitinfo">>,
       <<"", "if", "flag", SIGINT, "end">>, <<"", "goto", "loop">>, <<"end", "exit">> >>

signalfd_sigval ==
    << <<"", "setmask", {SIGRTMIN}>>, <<"loop", "sigwaitinfo">>, <<"", "goto", "loop">> >>

intquit ==
    << <<"", "sigaction", {SIGINT}, "intquit">>, <<"", "sigaction", {SIGQUIT}, "intquit">>,
       <<"loop", "pause">>, <<"", "goto", "loop">> >>

(* One turn of the loop is one call of crypt() and strcmp(). *)
nonreentrant ==
    << <<"", "sigaction", {SIGINT}, "crypt">>,
       <<"loop", "set", "data", <<"crypt 1">> >>, <<"", "if", "data", <<"crypt 1">>, "loop">>,
       <<"", "show", "mismatch", "count">>, <<"", "goto", "loop">> >>

(* Without and with USE_SIGSETJMP; process 2 types control-C twice, then control-\. *)
sigmask_longjmp(jump) ==
    << <<"", "printSigMask", "startup">>, <<"", "sigaction", {SIGINT}, jump>>,
       <<"", "set", "flag", 1>>, <<"", "goto", "wait">>,
       <<"jumped", "printSigMask", "after jump">>, <<"wait", "pause">>, <<"", "goto", "wait">> >>
user_insists ==
    << <<"loop", "kill", "receiver", SIGINT>>, <<"", "again", "j", 2, "loop">>,
       <<"", "kill", "receiver", SIGQUIT>>, <<"", "exit">> >>

self_pipe ==
    << <<"", "pipe", "r", "w">>, <<"", "sigaction", {SIGINT}, "selfpipe">>,
       <<"", "select", "r">>, <<"", "print", "A signal was caught">>, <<"", "drain", "r">>, <<"", "exit">> >>

-----------------------------------------------------------------------------
Texts ==
    [ simple_pipe |-> simple_pipe, pipe_ls_wc |-> pipe_ls_wc, ls |-> ls, wc |-> wc,
      pipe_sync |-> pipe_sync, change_case |-> change_case,
      t_fork |-> t_fork, t_vfork |-> t_vfork, vfork_fd_test |-> vfork_fd_test,
      fork_stdio_buf |-> fork_stdio_buf, exit_handlers |-> exit_handlers,
      fork_whos_on_first |-> fork_whos_on_first, fork_sig_sync |-> fork_sig_sync,
      multi_wait |-> multi_wait, make_zombie |-> make_zombie, orphan |-> orphan,
      user |-> user, user_quits |-> user_quits, sig_sender |-> sig_sender,
      sig_receiver |-> sig_receiver, sig_speed_sigsuspend |-> sig_speed_sigsuspend,
      t_sigsuspend |-> t_sigsuspend, ignore_pending_sig |-> ignore_pending_sig,
      t_sigqueue |-> t_sigqueue, catch_rtsigs |-> catch_rtsigs,
      t_sigwaitinfo |-> t_sigwaitinfo, self_pipe |-> self_pipe,
      signalfd_sigval |-> signalfd_sigval, intquit |-> intquit,
      nonreentrant |-> nonreentrant, user_insists |-> user_insists,
      sigmask_longjmp |-> sigmask_longjmp("longjmp"),
      sigmask_siglongjmp |-> sigmask_longjmp("siglongjmp"),
      atomic_append |-> atomic_append, atomic_append_x |-> atomic_append_x,
      bad_exclusive_open |-> bad_exclusive_open, multi_descriptors |-> multi_descriptors,
      seek_io |-> seek_io, fork_file_sharing |-> fork_file_sharing,
      t_flock_x |-> t_flock("ex", FALSE), t_flock_s |-> t_flock("sh", FALSE),
      t_flock_xn |-> t_flock("ex", TRUE) ]

Alone == {"simple_pipe", "pipe_ls_wc", "pipe_sync", "change_case", "t_fork", "t_vfork",
          "vfork_fd_test", "fork_stdio_buf", "exit_handlers", "fork_whos_on_first",
          "fork_sig_sync", "multi_wait", "make_zombie", "orphan", "sig_speed_sigsuspend",
          "multi_descriptors", "seek_io", "fork_file_sharing"}
Twice == {"atomic_append", "atomic_append_x", "bad_exclusive_open"}

Interrupted == {"nonreentrant", "sigmask_longjmp", "sigmask_siglongjmp"}

ProgramScenarios ==
    [s \in Alone \cup Twice \cup Interrupted
           \cup {"t_flock", "signalfd_sigval", "intquit", "sig_receiver", "t_sigsuspend",
                 "ignore_pending_sig", "catch_rtsigs", "t_sigwaitinfo", "self_pipe"} |->
        CASE s \in Alone -> <<s>>
          [] s \in Twice -> <<s, s>>
          [] s = "t_flock" -> <<"t_flock_x", "t_flock_s", "t_flock_xn">>
          [] s \in Interrupted -> <<s, "user_insists">>
          [] s = "sig_receiver" -> <<s, "sig_sender">>
          [] s \in {"t_sigsuspend", "intquit"} -> <<s, "user_quits">>
          [] s \in {"catch_rtsigs", "t_sigwaitinfo", "signalfd_sigval"} -> <<s, "t_sigqueue", "user">>
          [] OTHER -> <<s, "user">>]

-----------------------------------------------------------------------------
TypeOK ==
    /\ \A p \in Procs :
          /\ proc[p].at \in DOMAIN Text[proc[p].text]
          /\ proc[p].st \in {"run", "kernel", "suspended", "woken", "vfork", "zombie", "gone"}
          /\ proc[p].st # "zombie" \/ proc[p].parent # 0
    /\ \A k \in DOMAIN pipes : Len(pipes[k]) <= PIPE_SIZE

Finished == \A p \in Procs : ~Alive(p)

(* x is printed only after y. *)
After(x, y) == \A n \in DOMAIN out : out[n] = x => \E m \in 1..(n - 1) : out[m] = y

(* What goes through a pipe comes out at the other end, in order; all of it, when the
   program has finished and no call has failed. *)
PipeOutput ==
    LET expected == CASE scenario = "simple_pipe" ->
                            Append([n \in DOMAIN String |-> <<String[n]>>], <<"newline">>)
                      [] scenario = "change_case" -> [n \in DOMAIN Input |-> <<Upper(Input[n])>>]
                      [] scenario = "pipe_ls_wc" -> << <<"lines", 2>> >>
                      [] OTHER -> out
    IN  /\ Finished /\ faults = 0 => out = expected
        /\ scenario = "change_case" => IsPrefix(out, expected)

(* The synchronisation that a program is about: the parent of pipe_sync is ready after its
   children have done their work, that of fork_sig_sync goes on after its child has, that
   of fork_whos_on_first starts a child after the one before has printed, and that of
   t_vfork goes on after its child. *)
SyncOrder ==
    CASE scenario = "pipe_sync" -> \A j \in 0..1 : After(<<"ready">>, <<"done", j>>)
      [] scenario = "fork_sig_sync" -> After(<<"got signal">>, <<"work done">>)
      [] scenario = "fork_whos_on_first" ->
            \A x, y \in {"parent", "child"} : After(<<x, 1>>, <<y, 0>>)
      [] scenario = "t_vfork" -> After(<<"Parent executing">>, <<"Child executing">>)
      [] OTHER -> TRUE

(* Memory, stdio buffers and descriptors are copied by fork(), memory is shared and
   descriptors are copied by vfork(), and exit handlers run in reverse order. *)
CopiedOrShared ==
    CASE scenario = "t_fork" -> \A n \in DOMAIN out : out[n] \in {<<"parent", 111>>, <<"child", 333>>}
      [] scenario = "t_vfork" -> \A n \in DOMAIN out : out[n] # <<"istack", 222>>
      [] scenario = "vfork_fd_test" -> Finished /\ faults = 0 => out = << <<"EBADF">> >>
      [] scenario = "fork_stdio_buf" ->
            Finished /\ faults = 0 => out = << <<"Ciao">>, <<"Hello world">>, <<"Hello world">> >>
      [] scenario = "exit_handlers" ->
            Finished => out = << <<"onexit 20">>, <<"atexit 2">>, <<"atexit 1">>, <<"onexit 10">> >>
      [] OTHER -> TRUE

(* multi_wait says good-bye when all its children have been waited for; the zombie of
   make_zombie survives SIGKILL and is gone with its parent; the child of orphan learns
   that its parent has died. *)
ChildrenSeen ==
    LET shown == SelectSeq(out, LAMBDA x : x[1] = "child") IN
    /\ \A n \in DOMAIN out : out[n][1] = "numDead" => out[n][2] = Len(proc) - 1
    /\ scenario = "make_zombie" /\ Len(shown) = 2 /\ shown[1] = <<"child", "zombie">> =>
          shown[2] = shown[1]
    /\ scenario = "orphan" => After(<<"orphaned">>, <<"exiting">>)
    /\ Finished => \A p \in Procs : proc[p].st = "gone"

Caught == SelectSeq(out, LAMBDA x : x[1] = "caught")

(* No signal is lost and none is seen twice. sig_receiver, which gets a standard signal
   twice while it may be blocked, catches it once or twice; the realtime signals that
   t_sigqueue sends are caught or taken in the order of their values. *)
SignalsAccounted ==
    /\ scenario = "sig_receiver" =>
          \A n \in DOMAIN out : out[n][1] = "caught" => out[n][2] \in {1, 2}
    /\ scenario = "intquit" => Len(Caught) <= 1
    /\ scenario \in {"catch_rtsigs", "t_sigwaitinfo", "signalfd_sigval"} =>
          /\ \A n \in DOMAIN Caught : Caught[n] = <<"caught", SIGRTMIN, n - 1>>
          /\ \A n \in DOMAIN out : out[n][1] = "total" => out[n][2] = n - 1

(* A blocked signal is not delivered: no handler of t_sigsuspend runs in its critical
   section; and a pending signal that ignore_pending_sig ignores is gone for good. *)
BlockedOrIgnored ==
    /\ scenario = "t_sigsuspend" =>
          \A n \in 2..Len(out) : out[n][1] = "caught" => out[n - 1] # <<"critical">>
    /\ scenario = "ignore_pending_sig" =>
          LET shown == SelectSeq(out, LAMBDA x : x[1] = "pending")
          IN  shown # << >> /\ shown[1][2] # {} =>
                 Caught = << >> /\ (Len(shown) = 2 => shown[2][2] = {})

(* A handler that interrupts: nonreentrant finds no more mismatches than signals it has
   handled; after siglongjmp() the mask is what it was, and after longjmp() the signal stays
   blocked, so that the handler, which jumps, runs no more. *)
HandlersInterrupt ==
    /\ scenario = "nonreentrant" => \A n \in DOMAIN out : out[n][1] = "mismatch" => n <= out[n][2]
    /\ scenario = "sigmask_siglongjmp" => \A n \in DOMAIN out : out[n][1] = "after jump" => out[n][2] = {}
    /\ scenario = "sigmask_longjmp" =>
          \A n \in DOMAIN out : out[n][1] = "after jump" => out[n][2] = {SIGINT} /\ n = Len(out)

(* What is written with O_APPEND is never overwritten; without it each process keeps as many
   bytes as one of them writes. Descriptors that dup() or fork() has made share an offset
   and O_APPEND, others do not. A file is created by one that did not find it. *)
FilesAsWritten ==
    LET size == Len(disk.content) IN
    Finished /\ faults = 0 =>
       CASE scenario = "atomic_append" -> size = 4
         [] scenario = "atomic_append_x" -> size \in 2..4
         [] scenario = "bad_exclusive_open" -> \E n \in DOMAIN out : out[n] = <<"Created">>
         [] scenario = "multi_descriptors" ->
               out = << <<"cat", <<"Hello,">> >>, <<"cat", <<"Hello,", " world">> >>,
                        <<"cat", <<"HELLO,", " world">> >>, <<"cat", <<"Gidday", " world">> >> >>
         [] scenario = "seek_io" ->
               out = << <<"read", <<"nul", "a">> >>, <<"read", <<"b">> >>, <<"read", << >> >> >>
         [] scenario = "fork_file_sharing" ->
               out = << <<"offset", 0, FALSE>>, <<"offset", 3, TRUE>> >>
         [] OTHER -> TRUE

(* While a t_flock has an exclusive lock no other has a lock. *)
LocksExclude ==
    LET Count(x) == Cardinality({n \in DOMAIN out : out[n] = <<x>>})
        held(lock) == Count(<<"granted", lock>>) - Count(<<"releasing", lock>>)
    IN  scenario = "t_flock" => held("ex") = 0 \/ (held("ex") = 1 /\ held("sh") = 0)

(* In the end every program has ended, those that only use pipes and wait() also when a call
   fails: no process misses its wakeup or an end of file. The loop of catch_rtsigs, which
   tests a flag and then calls pause(), is not covered. *)
NeedNoSignal == {"simple_pipe", "pipe_ls_wc", "pipe_sync", "change_case", "multi_wait",
                 "fork_whos_on_first", "orphan", "t_vfork"}
ProgramsEnd ==
    (scenario \in NeedNoSignal \/ (scenario # "catch_rtsigs" /\ faults = 0)) => Finished

-----------------------------------------------------------------------------
(* proc/setenv.c: setenv() and unsetenv() on the environment list. The list may define a
   name several times: execve() passes on what it is given. *)

CONSTANTS
    EnvNames, EnvValues,
    MaxEnv         \* the length of the list

(* NULL, empty, or containing an equals sign. *)
BadName == "="

VARIABLES
    environ,       \* a sequence of definitions <<name, value>>
    before,        \* the list when the call began
    efn, name, value, overwrite,   \* the call
    epc, ep, eret  \* where it is: "idle", "check", "scan", "add"; the pointer of the loop

envArgs == <<efn, name, value, overwrite>>
envVars == <<environ, before, envArgs, epc, ep, eret>>

EnvDefines(s, n) == {i \in DOMAIN s : s[i][1] = n}

(* The first definition counts. *)
getenv(s, n) == s[CHOOSE i \in EnvDefines(s, n) : \A j \in EnvDefines(s, n) : i <= j][2]

EnvInit ==
    /\ environ \in BoundedSeq(EnvNames \X EnvValues, MaxEnv) /\ before = environ
    /\ efn = "unsetenv" /\ name = BadName /\ value = "NULL" /\ overwrite = FALSE
    /\ epc = "idle" /\ ep = 1 /\ eret = 0

EnvCall ==
    /\ epc = "idle"
    /\ efn' \in {"setenv", "unsetenv"} /\ name' \in EnvNames \cup {BadName}
    /\ value' \in EnvValues \cup {"NULL"} /\ overwrite' \in BOOLEAN
    /\ efn' = "unsetenv" => value' = "NULL" /\ ~overwrite'
    /\ before' = environ
    /\ epc' = "check"
    /\ UNCHANGED <<environ, ep, eret>>

EnvReturn(r) == epc' = "idle" /\ eret' = r

(* EINVAL, or a variable that is not to be overwritten; else unsetenv() starts. *)
EnvCheck ==
    /\ epc = "check"
    /\ \/ /\ name = BadName \/ (efn = "setenv" /\ value = "NULL")
          /\ EnvReturn(-1)
       \/ /\ efn = "setenv" /\ value # "NULL" /\ name # BadName
          /\ EnvDefines(environ, name) # {} /\ ~overwrite
          /\ EnvReturn(0)
       \/ /\ name # BadName
          /\ efn = "unsetenv" \/ (value # "NULL" /\ (EnvDefines(environ, name) = {} \/ overwrite))
          /\ epc' = "scan" /\ UNCHANGED eret
    /\ ep' = 1
    /\ UNCHANGED <<environ, before, envArgs>>

(* One turn of the loop of unsetenv(): a definition of the name is removed by shifting
   all successive entries back one element, otherwise the pointer moves on. *)
EnvScan ==
    /\ epc = "scan" /\ ep <= Len(environ)
    /\ IF environ[ep][1] = name
       THEN environ' = RemoveAt(environ, ep) /\ UNCHANGED ep
       ELSE ep' = ep + 1 /\ UNCHANGED environ
    /\ UNCHANGED <<before, envArgs, epc, eret>>

EnvScanDone ==
    /\ epc = "scan" /\ ep > Len(environ)
    /\ IF efn = "unsetenv" THEN EnvReturn(0) ELSE epc' = "add" /\ UNCHANGED eret
    /\ UNCHANGED <<environ, before, envArgs, ep>>

(* malloc() of the string, and putenv(), either of which may fail: the old definition is
   gone by then. *)
EnvAdd ==
    /\ epc = "add"
    /\ \/ EnvReturn(-1) /\ UNCHANGED environ
       \/ /\ Len(environ) < MaxEnv
          /\ environ' = Append(environ, <<name, value>>)
          /\ EnvReturn(0)
    /\ UNCHANGED <<before, envArgs, ep>>

EnvNext == EnvCall \/ EnvCheck \/ EnvScan \/ EnvScanDone \/ EnvAdd

EnvTypeOK ==
    /\ environ \in BoundedSeq(EnvNames \X EnvValues, MaxEnv)
    /\ epc \in {"idle", "check", "scan", "add"} /\ ep \in 1..(MaxEnv + 1) /\ eret \in {0, -1}

EnvOthers(s) == SelectSeq(s, LAMBDA d : d[1] # name)

(* What a call leaves of the list: the definitions of other names, in their order, in
   every state of it, and on return exactly the definition asked for (or the old ones if
   it must not overwrite), none if unsetenv() succeeded, none if the storage ran out. *)
EnvironExact ==
    /\ EnvOthers(environ) = EnvOthers(before)
    /\ epc = "idle" /\ name # BadName =>
        CASE efn = "unsetenv" -> eret = 0 /\ environ = EnvOthers(before)
          [] efn = "setenv" /\ value = "NULL" -> eret = -1 /\ environ = before
          [] OTHER ->
               \/ /\ eret = 0 /\ ~overwrite /\ EnvDefines(before, name) # {}
                  /\ environ = before
               \/ /\ eret = 0 /\ environ = Append(EnvOthers(before), <<name, value>>)
                  /\ getenv(environ, name) = value
               \/ eret = -1 /\ environ = EnvOthers(before)
    /\ epc = "idle" /\ name = BadName => environ = before

-----------------------------------------------------------------------------
(* What is model checked *)

CONSTANTS None, f1, f2, joe, staff, nobody

VARIABLES
    program,
    scripts, at, ref, loc, res, objs,
    opts, acls, old, apc, j, en, acl, exit,
    nargs, slash, path, shell, xpc, argc, argvSize, allocated, k, prog, fndEACCES,
    savedErrno, errno,
    fn, lookup, addrs, spc, rp, open, ret, addrlen,
    sec_prog, sec_option, sec_pc, sec_todo, sec_installed, sec_noNewPrivs, sec_ip, sec_acc,
    sec_results, sec_status

toolVars == <<scripts, at, ref, loc, res, objs>>
aclVars == <<opts, acls, old, apc, j, en, acl, exit>>
execVars == <<nargs, slash, path, shell, xpc, argc, argvSize, allocated, k, prog, fndEACCES,
              savedErrno, errno>>
sockVars == <<fn, lookup, addrs, spc, rp, open, ret, addrlen>>
secVars == <<sec_prog, sec_option, sec_pc, sec_todo, sec_installed, sec_noNewPrivs, sec_ip, sec_acc,
            sec_results, sec_status>>
allVars == <<program, vars, toolVars, aclVars, execVars, sockVars, envVars, secVars>>

T == TRUE
F == FALSE
ToolScripts ==
    << << << <<"psem_create", T, T, 1>>, <<"psem_wait">>, <<"psem_post">> >>,
          << <<"psem_create", T, T, 0>>, <<"psem_post">>, <<"psem_wait">> >>,
          << <<"psem_trywait">>, <<"psem_unlink">>, <<"psem_create", T, F, 1>> >> >>,
       << << <<"psem_create", T, F, 2>>, <<"psem_post">>, <<"psem_timedwait">>, <<"psem_getvalue">>,
             <<"psem_timedwait">> >>,
          << <<"psem_wait">>, <<"psem_unlink">> >> >>,
       << << <<"pmsg_create", T, T, 1, 2>>, <<"pmsg_send", F, <<1>>, 0>>, <<"pmsg_send", T, <<2, 2>>, 1>> >>,
          << <<"pmsg_receive", F>>, <<"pmsg_receive", T>> >>,
          << <<"pmsg_getattr">>, <<"pmsg_unlink">>, <<"pmsg_create", T, F, 1, 1>>, <<"pmsg_send", F, <<3>>, 2>> >> >>,
       << << <<"pshm_create", T, F, 1>>, <<"pshm_write", <<1, 2>> >>, <<"pshm_read">> >>,
          << <<"pshm_read">>, <<"pshm_unlink">> >> >>,
       << << <<"pshm_create", T, T, 2>>, <<"pshm_write", <<1, 2>> >> >>,
          << <<"pshm_write", <<3>> >>, <<"pshm_read">> >>,
          << <<"pshm_create", F, F, 0>>, <<"pshm_write", << >> >> >> >>,
       << << <<"svsem_create", T, T, 2>>,
             <<"svsem_op", 1, << << <<1, "+", 65537, F, F>> >>, << <<1, "-", 1, F, T>>, <<2, "+", 1, F, F>> >> >> >> >>,
          << <<"svsem_create", F, F, 2>>,
             <<"svsem_op", 1, << << <<1, "-", 1, F, T>> >>, << <<2, "-", 1, T, F>> >>, << <<1, "=", 1, F, F>> >> >> >> >>,
          << <<"svsem_op", 1, << << <<2, "=", 0, F, F>>, <<1, "=", 0, F, F>> >> >> >>, <<"svsem_rm", <<1>> >> >> >>,
       << << <<"svsem_create", T, F, 1>>, <<"clearEventFlag", 1, 1>>, <<"waitForEventFlag", 1, 1>> >>,
          << <<"svsem_setall", 1, <<2>> >>, <<"svsem_op", 1, << << <<1, "-", 1, F, T>> >> >> >>, <<"setEventFlag", 1, 1>>, <<"svsem_rm", <<1>> >> >>,
          << <<"getFlagState", 1, 1>>, <<"svsem_setall", 1, <<1, 1>> >>, <<"svsem_rm", <<1>> >> >> >>,
       << << <<"svmsg_create", T, T>>, <<"svmsg_send", 1, F, 2, <<1, 1>> >>, <<"svmsg_send", 1, F, 1, <<2>> >>,
             <<"svmsg_send", 1, T, 3, << >> >> >>,
          << <<"svmsg_receive", 1, F, F, F, -2, 2>>, <<"svmsg_receive", 1, T, T, T, 1, 2>>, <<"svmsg_rm", <<1, 1>> >> >>,
          << <<"svmsg_chqbytes", 1, 5>>, <<"svmsg_receive", 1, F, F, F, 3, 9>> >> >>,
       << << <<"svmsg_demo_server">>, <<"svmsg_send", 1, F, 1, <<1>> >> >>,
          << <<"svmsg_demo_server">>, <<"svmsg_receive", 1, F, F, F, 0, 9>> >>,
          << <<"svmsg_create", F, F>>, <<"svmsg_create", T, F>>, <<"svmsg_rm", <<2>> >> >> >>,
       << << <<"svshm_create", T, T, 1>>, <<"svshm_attach", <<1, 1>> >> >>,
          << <<"svshm_create", T, F, 1>>, <<"svshm_attach", <<1, 2>> >> >>,
          << <<"svshm_create", F, F, 2>>, <<"svshm_rm", <<1>> >>, <<"svshm_rm", <<2, 1>> >> >> >> >>

Tools == INSTANCE IpcTools WITH Workloads <- ToolScripts, SEM_VALUE_MAX <- 2, PageSize <- 2

(* acl_update: two files, with a minimal or an extended access ACL, and specifications of
   one or two entries, good, bad and too long. *)
AclBase == {<<"user_obj", None>>, <<"group_obj", None>>, <<"other", None>>}
AclMask == <<"mask", None>>
EntrySpec(t, q, p) == [tag |-> t, qual |-> q, perms |-> p]
Additions == {EntrySpec("u", joe, {"r", "w"}), EntrySpec("u", joe, {}), EntrySpec("g", None, {"x"}),
            EntrySpec("m", None, {"r"})}
Removals == {EntrySpec("u", joe, None), EntrySpec("m", None, None), EntrySpec("u", None, None)}
Bad == {EntrySpec("u", nobody, {"r"}), EntrySpec("q", None, {"r"}),
        EntrySpec("g", staff, {"r", "bad"})}
SmallSpecs == {<<s>> : s \in Additions \cup Removals \cup Bad}
              \cup {<<s, t>> : s, t \in Additions} \cup {<<s, t>> : s, t \in Removals}
              \cup {<<s, t>> : s \in Additions, t \in Bad}
              \cup {<<s, s, s>> : s \in Additions}

Minimal == [e \in AclBase |-> IF e[1] = "user_obj" THEN {"r", "w"} ELSE {"r"}]
Extended == [e \in AclBase \cup {AclMask, <<"user", joe>>} |->
                IF e = AclMask THEN {"r"} ELSE IF e = <<"user", joe>> THEN {"x"} ELSE {"r", "w"}]

Acl == INSTANCE AclUpdate WITH
           pc <- apc, Users <- {joe}, Groups <- {staff}, Unknown <- {nobody}, Files <- <<f1, f2>>,
           Specs <- SmallSpecs, MAX_ENTRIES <- 2,
           Access <- {Minimal, Extended}, Default <- {<< >>, Extended}

(* Up to five arguments in a vector that grows by three, and three prefixes in PATH. *)
ExecP == INSTANCE Execlp WITH
            pc <- xpc, ArgvStep <- 3, MaxArgs <- 5, MaxPrefixes <- 3, NULL <- None

Sock == INSTANCE SocketSetup WITH pc <- spc, MaxAddrs <- 3

(* Before those of main() the C library makes any call, also one of another architecture. *)
LibraryCalls ==
    [arch : {"x86_64", "i386"}, nr : {"open", "read", "fork", "clone"},
     flags : {{}, {"wronly"}, {"rdwr"}, {"creat"}, {"rdwr", "creat"}}]

Sec == INSTANCE Seccomp WITH
           Calls <- LibraryCalls, MaxLoops <- 1, prog <- sec_prog, option <- sec_option,
           pc <- sec_pc, todo <- sec_todo, installed <- sec_installed, noNewPrivs <- sec_noNewPrivs,
           ip <- sec_ip, acc <- sec_acc, results <- sec_results, status <- sec_status

MCInit ==
    /\ program \in {"programs", "ipc_tools", "acl_update", "execlp", "socket", "setenv", "seccomp"}
    /\ \/ program = "programs"
       \/ program # "programs" /\ scenario = "simple_pipe"
    /\ \/ program = "ipc_tools"
       \/ program # "ipc_tools" /\ scripts = ToolScripts[1]
    /\ \/ program = "acl_update"
       \/ /\ program # "acl_update"
          /\ opts = [op |-> "k", n |-> FALSE, d |-> FALSE, spec |-> <<CHOOSE s \in Bad : TRUE>>]
          /\ acls = [f \in {f1, f2} |-> [access |-> Minimal, default |-> << >>]]
    /\ \/ program = "execlp"
       \/ /\ program # "execlp"
          /\ nargs = 1 /\ slash = FALSE /\ path = <<"ok">> /\ shell = "ok"
    /\ \/ program = "socket"
       \/ program # "socket" /\ fn = "unixBind" /\ lookup = "ok" /\ addrs = <<"none">>
    /\ \/ program = "setenv"
       \/ program # "setenv" /\ environ = << >>
    /\ \/ program = "seccomp"
       \/ program # "seccomp" /\ sec_prog = "deny_open" /\ sec_todo = <<Sec!Call("read"), Sec!Open({})>>
    /\ Init /\ Tools!Init /\ Acl!Init /\ ExecP!Init /\ Sock!Init /\ EnvInit /\ Sec!Init

MCNext ==
    \/ /\ program = "programs" /\ Next
       /\ UNCHANGED <<program, toolVars, aclVars, execVars, sockVars, envVars, secVars>>
    \/ /\ program = "ipc_tools" /\ Tools!Next
       /\ UNCHANGED <<program, vars, aclVars, execVars, sockVars, envVars, secVars>>
    \/ /\ program = "acl_update" /\ Acl!Next
       /\ UNCHANGED <<program, vars, toolVars, execVars, sockVars, envVars, secVars>>
    \/ /\ program = "execlp" /\ ExecP!Next
       /\ UNCHANGED <<program, vars, toolVars, aclVars, sockVars, envVars, secVars>>
    \/ /\ program = "socket" /\ Sock!Next
       /\ UNCHANGED <<program, vars, toolVars, aclVars, execVars, envVars, secVars>>
    \/ /\ program = "setenv" /\ EnvNext
       /\ UNCHANGED <<program, vars, toolVars, aclVars, execVars, sockVars, secVars>>
    \/ /\ program = "seccomp" /\ Sec!Next
       /\ UNCHANGED <<program, vars, toolVars, aclVars, execVars, sockVars, envVars>>

(* Processes are scheduled, and signals are delivered; calls need not fail. *)
MCSpec ==
    /\ MCInit /\ [][MCNext]_allVars
    /\ \A p \in 1..MaxProc : /\ WF_vars(program = "programs" /\ p \in Procs /\ Step(p))
                            /\ WF_vars(program = "programs" /\ p \in Procs /\ Deliver(p))
    /\ WF_toolVars(program = "ipc_tools" /\ Tools!Next)
    /\ WF_secVars(program = "seccomp" /\ Sec!Next)

-----------------------------------------------------------------------------
(* The programs print what the calls promise: what went into a pipe comes out of it, in the
   order that pipes, signals and waits impose; memory is copied by fork() and shared by
   vfork(), files are shared by both; every child is waited for; every signal is accounted
   for; bytes are appended and locks exclude. *)
ProgramsRight ==
    /\ TypeOK /\ PipeOutput /\ SyncOrder /\ CopiedOrShared /\ ChildrenSeen
    /\ SignalsAccounted /\ BlockedOrIgnored /\ HandlersInterrupt /\ FilesAsWritten /\ LocksExclude

(* The tools lose no unit of a semaphore and no message, also if names are unlinked and used
   again; those that create with O_EXCL have an object each; pshm_read prints what was
   written; SEM_UNDO leaves no trace; a removed object is gone unless it is in use. *)
ToolsRight ==
    /\ Tools!TypeOK /\ Tools!SemaphoreConserved /\ Tools!OneCreator /\ Tools!MessagesExact
    /\ Tools!ReadBack /\ Tools!UndoRestores /\ Tools!RemovedIsGone

(* acl_update gives every file it has come to the ACL its options describe, computed from
   what it was, and touches no other; nothing is masked unless -n asks for it; the exit
   status tells whether something failed. *)
AclExact ==
    /\ Acl!TypeOK /\ Acl!FilesAsSpecified /\ Acl!NothingMasked
    /\ Acl!ExitHonest /\ Acl!NoErrorsWithoutN

(* execlp() executes the first file in the order of PATH that can be executed; if none can
   it fails with EACCES if any prefix did, else with the error of the last one. setenv() and
   unsetenv() leave exactly the definition asked for and touch no other. The socket functions
   return a descriptor for the first address that works and leave no other open,
   inetListen() with a failing listen() excepted. Each system call filter returns for every
   call what the comments beside it say. *)
LibraryExact ==
    /\ ExecP!TypeOK /\ ExecP!FirstExecutable /\ ExecP!ErrnoRule
    /\ EnvTypeOK /\ EnvironExact
    /\ Sock!TypeOK /\ Sock!FirstUsable /\ Sock!NoLeak
    /\ Sec!TypeOK /\ Sec!FiltersExact

(* What the programs come to: their end, those that only use pipes and wait() also if a call
   fails; every tool ends, or waits for an object that is still there; every filter returns. *)
Settled ==
    /\ program = "programs" => ProgramsEnd
    /\ program = "ipc_tools" => Tools!ToolsEnd
    /\ program = "seccomp" => Sec!FiltersEnd

(* Every program, tool and filter comes to its end. *)
EverythingEnds == []<>Settled
=============================================================================
