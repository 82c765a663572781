------------------------------ MODULE PtyRelay ------------------------------
(***************************************************************************)
(* pty/script.c and pty/unbuffer.c with pty/pty_fork.c and the two         *)
(* versions of ptyMasterOpen(): pty/pty_master_open.c and                  *)
(* pty/pty_master_open_bsd.c. The parent relays bytes between the user's   *)
(* terminal and the master of a pseudoterminal; the child runs a program   *)
(* on the slave.                                                           *)
(***************************************************************************)
EXTENDS Integers, Sequences, SequencesExt, FiniteSetsExt

CONSTANTS
    None,
    Typed,       \* what the user types, a sequence of bytes
    Output,      \* what the program of the child writes, a sequence of bytes
    BUF_SIZE,
    PtyBuf,      \* what the pseudoterminal holds in each direction
    Devices      \* the BSD masters, in the order of X_RANGE and Y_RANGE: a number of names

VARIABLES
    prog, bsd,           \* script or unbuffer; which ptyMasterOpen()
    device,              \* the state of each BSD master: "free", "busy" or "absent"
    pc, fd,              \* the parent: where it is, and its descriptors
    dev,                 \* the BSD master tried, or the one opened
    slaveName,
    cpc, cfd, ctty,      \* the child: where it is, its descriptors, its controlling terminal
    opened,              \* the slave has been opened
    tty, atexit,         \* the user's terminal: "orig" or "raw"; ttyReset() is registered
    left, hungup,        \* what the user will type; the terminal has been hung up
    ready, buf,          \* what select() returned; what the parent has read and not written
    toSlave, toMaster,
    received, written,   \* what the child has read and written
    stdout, typescript,
    why                  \* why the parent ended

setupVars == <<prog, bsd, device, dev, slaveName>>
parentVars == <<pc, fd, tty, atexit, ready, buf, stdout, typescript, why>>
childVars == <<cpc, cfd, ctty, opened, received, written>>
ptyVars == <<left, hungup, toSlave, toMaster>>
vars == <<setupVars, parentVars, childVars, ptyVars>>

Fds == 0..4
Std == 0..2

(* The parent is started on a terminal, possibly with its standard error closed. *)
Init ==
    /\ prog \in {"script", "unbuffer"} /\ bsd \in BOOLEAN
    /\ device \in [1..Devices -> {"free", "busy", "absent"}]
    /\ fd \in {[f \in Fds |-> IF f \in s THEN "tty" ELSE None] : s \in {0..1, 0..2}}
    /\ pc = IF bsd THEN "scan" ELSE "openpt"
    /\ dev = 1 /\ slaveName = None
    /\ cpc = "none" /\ cfd = [f \in Fds |-> None] /\ ctty = None /\ opened = FALSE
    /\ tty = "orig" /\ atexit = FALSE
    /\ left = Typed /\ hungup = FALSE /\ ready = {} /\ buf = <<>>
    /\ toSlave = <<>> /\ toMaster = <<>> /\ received = <<>> /\ written = <<>>
    /\ stdout = <<>> /\ typescript = <<>> /\ why = None

LowestFree(d) == Min({f \in Fds : d[f] = None})
Open(d, what) == [d EXCEPT ![LowestFree(d)] = what]
Without(d, what) == [f \in Fds |-> IF d[f] = what THEN None ELSE d[f]]
AllClosed == [f \in Fds |-> None]

-----------------------------------------------------------------------------
(* exit() of the parent runs ttyReset() if that is registered; the kernel closes the
   descriptors, the last of the master among them. *)
Exit(reason) ==
    /\ pc' = "exited" /\ why' = reason /\ fd' = AllClosed /\ ready' = {}
    /\ tty' = IF atexit THEN "orig" ELSE tty

(* ptyMasterOpen() of pty_master_open.c: four calls and a copy, each of which may fail; the
   master is then closed. *)
Calls == <<"openpt", "grantpt", "unlockpt", "ptsname", "copy">>
Unix98Open ==
    \E i \in 1..Len(Calls) :
        /\ pc = Calls[i]
        /\ \/ /\ fd' = IF i = 1 THEN Open(fd, "master") ELSE fd
              /\ pc' = IF i = Len(Calls) THEN "fork" ELSE Calls[i + 1]
              /\ slaveName' = IF i = Len(Calls) THEN "slave" ELSE None
           \/ /\ fd' = Without(fd, "master")
              /\ pc' = "nopty" /\ UNCHANGED slaveName
        /\ UNCHANGED <<prog, bsd, device, dev, tty, atexit, ready, buf, stdout, typescript, why,
                       childVars, ptyVars>>

(* Past the last name the search ends as at a name that does not exist. *)
Tried == IF dev <= Devices THEN device[dev] ELSE "absent"

(* ptyMasterOpen() of pty_master_open_bsd.c: the names are tried in order, to the first that
   can be opened or that does not exist; the slave has the name of the master. *)
BsdOpen ==
    /\ pc = "scan"
    /\ \/ /\ Tried = "absent"
          /\ pc' = "nopty" /\ UNCHANGED <<dev, fd, slaveName>>
       \/ /\ Tried = "busy"
          /\ dev' = dev + 1 /\ UNCHANGED <<pc, fd, slaveName>>
       \/ /\ Tried = "free"
          /\ fd' = Open(fd, "master") /\ slaveName' = dev /\ pc' = "fork" /\ UNCHANGED dev
    /\ UNCHANGED <<prog, bsd, device, tty, atexit, ready, buf, stdout, typescript, why,
                   childVars, ptyVars>>

(* The fork() of ptyFork(), which closes the master when it fails. *)
Fork ==
    /\ pc = "fork"
    /\ \/ /\ cpc' = "setsid" /\ cfd' = fd /\ ctty' = "tty"
          /\ pc' = (IF prog = "script" THEN "typescript" ELSE "raw") /\ UNCHANGED fd
       \/ /\ fd' = Without(fd, "master") /\ pc' = "nopty" /\ UNCHANGED <<cpc, cfd, ctty>>
    /\ UNCHANGED <<setupVars, tty, atexit, ready, buf, stdout, typescript, why,
                   opened, received, written, ptyVars>>

NoPty ==
    /\ pc = "nopty" /\ Exit("ptyFork")
    /\ UNCHANGED <<setupVars, atexit, buf, stdout, typescript, childVars, ptyVars>>

-----------------------------------------------------------------------------
(* The parent of script opens its output file, if it can. *)
OpenTypescript ==
    /\ pc = "typescript"
    /\ \/ pc' = "raw" /\ fd' = Open(fd, "typescript") /\ UNCHANGED <<ready, tty, why>>
       \/ Exit("typescript")
    /\ UNCHANGED <<setupVars, atexit, buf, stdout, typescript, childVars, ptyVars>>

(* ttySetRaw(), whose failure goes unnoticed. *)
SetRaw ==
    /\ pc = "raw" /\ pc' = "atexit" /\ tty' \in {"raw", "orig"}
    /\ UNCHANGED <<setupVars, fd, atexit, ready, buf, stdout, typescript, why, childVars, ptyVars>>

Hook ==
    /\ pc = "atexit"
    /\ \/ pc' = "select" /\ atexit' = TRUE /\ UNCHANGED <<fd, ready, tty, why>>
       \/ Exit("atexit") /\ UNCHANGED atexit
    /\ UNCHANGED <<setupVars, buf, stdout, typescript, childVars, ptyVars>>

(* External: the master can be read when there is something, or when the slave was opened
   and is closed. It is not ready before the child has opened the slave. *)
SlaveOpen == \E f \in Fds : cfd[f] = "slave"
MasterReady == toMaster # <<>> \/ (opened /\ ~SlaveOpen)

(* The user may have typed something of what is left. *)
Select ==
    /\ pc = "select"
    /\ ready' \in SUBSET {"stdin", "master"} \ {{}}
    /\ "master" \in ready' <=> MasterReady
    /\ "stdin" \in ready' => left # <<>> \/ hungup
    /\ hungup => "stdin" \in ready'
    /\ pc' = IF "stdin" \in ready' THEN "stdin" ELSE "master"
    /\ UNCHANGED <<setupVars, fd, tty, atexit, buf, stdout, typescript, why, childVars, ptyVars>>

AfterStdin == IF "master" \in ready THEN "master" ELSE "select"

ReadStdin ==
    /\ pc = "stdin"
    /\ \/ /\ hungup /\ Exit("stdin") /\ UNCHANGED <<buf, left>>
       \/ /\ ~hungup
          /\ \E k \in 1..Min({BUF_SIZE, Len(left)}) :
                buf' = SubSeq(left, 1, k) /\ left' = SubSeq(left, k + 1, Len(left))
          /\ pc' = "toMaster" /\ UNCHANGED <<fd, ready, tty, why>>
    /\ UNCHANGED <<setupVars, atexit, stdout, typescript, childVars, hungup, toSlave, toMaster>>

(* The write() waits until the pseudoterminal has taken the whole buffer. *)
WriteMaster ==
    /\ pc = "toMaster" /\ Len(toSlave) < PtyBuf
    /\ toSlave' = Append(toSlave, Head(buf)) /\ buf' = Tail(buf)
    /\ pc' = IF buf' = <<>> THEN AfterStdin ELSE pc
    /\ UNCHANGED <<setupVars, fd, tty, atexit, ready, stdout, typescript, why, childVars, left,
                   hungup, toMaster>>

ReadMaster ==
    /\ pc = "master"
    /\ \/ /\ toMaster = <<>> /\ Exit("hangup") /\ UNCHANGED <<buf, toMaster>>
       \/ /\ toMaster # <<>>
          /\ LET k == Min({BUF_SIZE, Len(toMaster)}) IN
                /\ buf' = SubSeq(toMaster, 1, k)
                /\ toMaster' = SubSeq(toMaster, k + 1, Len(toMaster))
          /\ pc' = "stdout" /\ UNCHANGED <<fd, ready, tty, why>>
    /\ UNCHANGED <<setupVars, atexit, stdout, typescript, childVars, left, hungup, toSlave>>

(* What has been written when a failed or partial write() of buf ends the parent. *)
Parts(file) == {file \o SubSeq(buf, 1, k) : k \in 0..(Len(buf) - 1)}

WriteStdout ==
    /\ pc = "stdout"
    /\ \/ /\ stdout' = stdout \o buf
          /\ pc' = IF prog = "script" THEN "script" ELSE "select"
          /\ UNCHANGED <<fd, ready, tty, why>>
       \/ Exit("stdout") /\ stdout' \in Parts(stdout)
    /\ UNCHANGED <<setupVars, atexit, buf, typescript, childVars, ptyVars>>

WriteTypescript ==
    /\ pc = "script"
    /\ \/ typescript' = typescript \o buf /\ pc' = "select" /\ UNCHANGED <<fd, ready, tty, why>>
       \/ Exit("script") /\ typescript' \in Parts(typescript)
    /\ UNCHANGED <<setupVars, atexit, buf, stdout, childVars, ptyVars>>

(* select() fails, or the write() to the master, of which a part may have been taken. *)
RelayFails ==
    /\ pc \in {"select", "toMaster"} /\ Exit(pc)
    /\ UNCHANGED <<setupVars, atexit, buf, stdout, typescript, childVars, ptyVars>>

Relay == Select \/ ReadStdin \/ WriteMaster \/ ReadMaster \/ WriteStdout \/ WriteTypescript
Parent == Unix98Open \/ BsdOpen \/ Fork \/ NoPty \/ OpenTypescript \/ SetRaw \/ Hook \/ Relay

(* The user's terminal is hung up, or the parent is killed. *)
HangUp ==
    /\ ~hungup /\ pc # "exited" /\ hungup' = TRUE
    /\ UNCHANGED <<setupVars, parentVars, childVars, left, toSlave, toMaster>>
Kill ==
    /\ pc # "exited" /\ pc' = "exited" /\ why' = "killed" /\ fd' = AllClosed /\ ready' = {}
    /\ UNCHANGED <<setupVars, tty, atexit, buf, stdout, typescript, childVars, ptyVars>>

-----------------------------------------------------------------------------
ChildExit == cpc' = "exited" /\ cfd' = AllClosed /\ UNCHANGED <<ctty, opened>>

(* The child of ptyFork() starts a session and closes the master. *)
Setsid ==
    /\ cpc = "setsid" /\ cpc' = "open" /\ ctty' = None /\ cfd' = Without(cfd, "master")
    /\ UNCHANGED <<setupVars, parentVars, opened, received, written, ptyVars>>

(* The slave, once opened, is the controlling terminal of the session. It cannot be opened
   when the master has been closed. *)
OpenSlave ==
    /\ cpc = "open"
    /\ \/ /\ pc # "exited"
          /\ cfd' = Open(cfd, "slave") /\ ctty' = "slave" /\ opened' = TRUE /\ cpc' = "attrs"
       \/ ChildExit
    /\ UNCHANGED <<setupVars, parentVars, received, written, ptyVars>>

(* TIOCSCTTY, tcsetattr() and TIOCSWINSZ. *)
SetAttributes ==
    /\ cpc = "attrs"
    /\ \/ cpc' = "dup" /\ UNCHANGED <<cfd, ctty, opened>>
       \/ ChildExit
    /\ UNCHANGED <<setupVars, parentVars, received, written, ptyVars>>

slaveFd == CHOOSE f \in Fds : cfd[f] = "slave"

(* Mutant: the check of slaveFd is missing. *)
DupAlwaysCloses ==
    /\ cpc = "dup"
    /\ \/ /\ cfd' = [f \in Fds |-> IF f = slaveFd THEN None
                                   ELSE IF f \in Std THEN "slave" ELSE cfd[f]]
          /\ cpc' = "exec" /\ UNCHANGED <<ctty, opened>>
       \/ ChildExit
    /\ UNCHANGED <<setupVars, parentVars, received, written, ptyVars>>

(* The three dup2(), and the close() of slaveFd unless it is a standard descriptor. *)
Dup ==
    /\ cpc = "dup"
    /\ \/ /\ cfd' = [f \in Fds |-> IF f \in Std THEN "slave"
                                   ELSE IF f = slaveFd THEN None ELSE cfd[f]]
          /\ cpc' = "exec" /\ UNCHANGED <<ctty, opened>>
       \/ ChildExit
    /\ UNCHANGED <<setupVars, parentVars, received, written, ptyVars>>

(* execlp() or execvp(); the errExit() of a child that could not runs no ttyReset(). *)
Exec ==
    /\ cpc = "exec"
    /\ \/ cpc' = "running" /\ UNCHANGED <<cfd, ctty, opened>>
       \/ ChildExit
    /\ UNCHANGED <<setupVars, parentVars, received, written, ptyVars>>

ptyFork == Setsid \/ OpenSlave \/ SetAttributes \/ Dup \/ Exec

(* External: the program reads and writes as it likes; a write() waits for room. *)
ProgramReads ==
    /\ cpc = "running" /\ toSlave # <<>>
    /\ received' = Append(received, Head(toSlave)) /\ toSlave' = Tail(toSlave)
    /\ UNCHANGED <<setupVars, parentVars, cpc, cfd, ctty, opened, written, left, hungup, toMaster>>
ProgramWants ==
    /\ cpc = "running" /\ Len(written) < Len(Output) /\ cpc' = "writing"
    /\ UNCHANGED <<setupVars, parentVars, cfd, ctty, opened, received, written, ptyVars>>
ProgramWrites ==
    /\ cpc = "writing" /\ Len(toMaster) < PtyBuf
    /\ written' = Append(written, Output[Len(written) + 1])
    /\ toMaster' = Append(toMaster, Output[Len(written) + 1]) /\ cpc' = "running"
    /\ UNCHANGED <<setupVars, parentVars, cfd, ctty, opened, received, left, hungup, toSlave>>
ProgramExits ==
    /\ cpc = "running" /\ ChildExit
    /\ UNCHANGED <<setupVars, parentVars, received, written, ptyVars>>

(* External: the session on the slave gets a SIGHUP when the master is closed. *)
SlaveHup ==
    /\ pc = "exited" /\ SlaveOpen /\ ChildExit
    /\ UNCHANGED <<setupVars, parentVars, received, written, ptyVars>>

Program == ProgramReads \/ ProgramWants \/ ProgramWrites \/ ProgramExits

Next == Parent \/ RelayFails \/ ptyFork \/ Program \/ SlaveHup \/ HangUp \/ Kill

Spec == Init /\ [][Next]_vars

FairSpec ==
    /\ Spec /\ WF_vars(Parent) /\ WF_vars(ptyFork) /\ WF_vars(ProgramWrites) /\ WF_vars(SlaveHup)

-----------------------------------------------------------------------------
TypeOK ==
    /\ pc \in {"scan", "fork", "nopty", "typescript", "raw", "atexit", "select", "stdin",
               "toMaster", "master", "stdout", "script", "exited"} \cup ToSet(Calls)
    /\ cpc \in {"none", "setsid", "open", "attrs", "dup", "exec", "running", "writing", "exited"}
    /\ tty \in {"orig", "raw"} /\ ready \subseteq {"stdin", "master"}
    /\ Len(toSlave) <= PtyBuf /\ Len(toMaster) <= PtyBuf /\ Len(buf) <= BUF_SIZE

InHand(l) == IF pc = l THEN buf ELSE <<>>

(* While the parent relays, no byte is lost, repeated or reordered in either direction:
   what the program wrote is what was shown, then what the parent holds and then what the
   pseudoterminal holds, and the same for what the user typed. *)
RelayedExactly ==
    /\ IsPrefix(stdout, written)
    /\ pc # "exited" => /\ written = stdout \o InHand("stdout") \o toMaster
                        /\ Typed = received \o toSlave \o InHand("toMaster") \o left

(* The typescript is what was shown, except between the two write()s and after a failure of
   one of them or a kill between them. *)
TypescriptSame ==
    prog = "script" =>
        /\ IsPrefix(typescript, stdout)
        /\ pc # "script" /\ why \notin {"stdout", "script", "killed"} => typescript = stdout

(* The parent ends at the hang-up of the slave only when it has shown everything that the
   program wrote. *)
HangupLosesNothing == why = "hangup" => stdout = written /\ cpc = "exited"

(* A parent that ended has reset the user's terminal, unless it was killed, atexit() failed
   after ttySetRaw(), or the terminal is gone. *)
TerminalReset == pc = "exited" => tty = "orig" \/ why \in {"killed", "atexit"} \/ hungup

(* The program runs in a session of its own whose controlling terminal is the slave, with
   the slave as standard input, output and error and no other descriptor, also if the
   parent was started without a standard error. *)
ProgramOnSlave ==
    cpc \in {"running", "writing"} =>
        /\ ctty = "slave"
        /\ cfd = [f \in Fds |-> IF f \in Std THEN "slave" ELSE None]

(* A ptyMasterOpen() or ptyFork() that fails leaves no descriptor of the master. The search
   for a BSD master finds the first free one before the first that does not exist. *)
MasterExact ==
    /\ pc = "nopty" => \A f \in Fds : fd[f] # "master"
    /\ bsd /\ pc \notin {"scan", "nopty", "exited"} =>
           /\ slaveName = dev /\ device[dev] = "free"
           /\ \A d \in 1..(dev - 1) : device[d] = "busy"
    /\ bsd /\ pc = "nopty" /\ (\E d \in 1..Devices : device[d] = "free") /\ cpc = "none" =>
           \/ slaveName # None       \* the fork() failed
           \/ \E d, e \in 1..Devices : /\ d < e /\ device[d] = "absent" /\ device[e] = "free"

(* The parent waits to write while the pseudoterminal is full and nobody reads it. *)
Jammed == pc = "toMaster" /\ Len(toSlave) = PtyBuf

(* In the end what the program wrote is shown, and the parent has ended after the program,
   unless the parent is stuck in the write() of what the user typed and the program does not
   read. When the child dies before it has opened the slave, nothing tells the parent. The
   program ends after the parent. *)
RelayEnds ==
    /\ Len(stdout) >= Len(written) \/ pc = "exited" \/ Jammed
    /\ opened /\ cpc = "exited" => pc = "exited" \/ Jammed
    /\ pc = "exited" => cpc \in {"none", "exited"}
=============================================================================
