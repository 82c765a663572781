----------------------------- MODULE JobControl -----------------------------
(***************************************************************************)
(* Process groups, hang-ups and job control: pgsjc/catch_SIGHUP.c,         *)
(* disc_SIGHUP.c, orphaned_pgrp_SIGHUP.c and job_mon.c, namespaces/orphan.c *)
(* and procexec/child_status.c. A program is the text that each of its     *)
(* processes carries out; process 0 is the one that the shell started, but *)
(* for job_mon, whose processes 1..N are the pipeline.                     *)
(***************************************************************************)
EXTENDS Integers, Sequences, FiniteSets

CONSTANTS
    N,              \* children, or commands of the pipeline
    Statuses,       \* arguments of child_status
    MaxSent         \* bound: signals from outside, for each program

VARIABLES
    app, arg,       \* arg[p]: the argument that child p obeys
    text, state,    \* what each process has still to do; none, run, stopped, dead, gone
    pgrp, handled, pending, paused, alarmed, caught,
    end,            \* the status word of a dead process
    event,          \* what waitpid() has not yet told of child 1
    reports, cmdNum, pipe, sent,
    early, late     \* hung up before handler and group were set; stopped after the parent's end

vars == <<app, arg, text, state, pgrp, handled, pending, paused, alarmed, caught, end, event, reports,
          cmdNum, pipe, sent, early, late>>

SIGHUP == 1
SIGINT == 2
SIGQUIT == 3
SIGALRM == 14
SIGTERM == 15
SIGCONT == 18
SIGSTOP == 19
SIGTSTP == 20
Stops == {SIGSTOP, SIGTSTP}
Signals == {SIGHUP, SIGINT, SIGQUIT, SIGALRM, SIGTERM, SIGCONT} \cup Stops

Children == 1..N
Procs == 0..N

(* The programs: what the parent does, what a child does that obeys an argument, and the
   signals that "handle" catches. The commands of job_mon are created by the shell. *)
Forks == [i \in Children |-> "fork"]
catch_SIGHUP ==
    [main |-> <<"handle", "fork", "alarm", "pauses">>,
     child |-> [d |-> <<"setpgid", "alarm", "pauses">>, s |-> <<"alarm", "pauses">>],
     handles |-> {SIGHUP}]
disc_SIGHUP ==
    [main |-> Forks \o <<"alarm", "pauses">>,
     child |-> [d |-> <<"setpgid", "handle", "alarm", "pauses">>,
                s |-> <<"handle", "alarm", "pauses">>],
     handles |-> {SIGHUP}]
orphaned_pgrp_SIGHUP ==
    [main |-> <<"handle">> \o Forks \o <<"exit">>,
     child |-> [s |-> <<"stop", "exit">>, p |-> <<"alarm", "pause", "exit">>],
     handles |-> {SIGHUP, SIGCONT}]
job_mon ==
    [main |-> <<>>,
     child |-> [none |-> <<"handle", "read", "write", "pauses">>],
     handles |-> {SIGINT, SIGTSTP, SIGCONT}]
orphan ==
    [main |-> <<"fork", "exit">>, child |-> [none |-> <<"getppid", "exit">>], handles |-> {}]
child_status ==
    [main |-> <<"fork", "wait">>, child |-> [none |-> <<"pauses">>, exit |-> <<"exit">>],
     handles |-> {}]

Programs ==
    [catch_SIGHUP |-> catch_SIGHUP, disc_SIGHUP |-> disc_SIGHUP,
     orphaned_pgrp_SIGHUP |-> orphaned_pgrp_SIGHUP, job_mon |-> job_mon, orphan |-> orphan,
     child_status |-> child_status]
Apps == DOMAIN Programs

Init ==
    /\ app \in Apps /\ arg \in [Children -> DOMAIN Programs[app].child]
    /\ text = [p \in Procs |-> IF p = 0 THEN Programs[app].main ELSE Programs[app].child[arg[p]]]
    /\ state = [p \in Procs |-> IF (p = 0) = (app # "job_mon") THEN "run" ELSE "none"]
    /\ pgrp = [p \in Procs |-> 0] /\ handled = [p \in Procs |-> {}] /\ pending = [p \in Procs |-> {}]
    /\ paused = [p \in Procs |-> FALSE] /\ alarmed = [p \in Procs |-> FALSE]
    /\ caught = [p \in Procs |-> <<>>] /\ end = [p \in Procs |-> -1]
    /\ event = -1 /\ reports = <<>> /\ cmdNum = [p \in Procs |-> 0] /\ pipe = [p \in Procs |-> 0]
    /\ sent = 0 /\ early = {} /\ late = {}

-----------------------------------------------------------------------------
(* External: the kernel. A status word as waitpid() returns it. *)
Exited(n) == (n % 256) * 256
Killed(s) == s + (IF s = SIGQUIT THEN 128 ELSE 0)       \* SIGQUIT dumps core
Stopped(s) == 127 + 256 * s
Continued == 65535

(* printWaitStatus() and the W* macros of <sys/wait.h>. *)
WIFEXITED(w) == w % 128 = 0
WIFSIGNALED(w) == w % 128 # 0 /\ w % 128 # 127
WIFSTOPPED(w) == w % 256 = 127
printWaitStatus(w) ==
    IF WIFEXITED(w) THEN <<"exited", (w \div 256) % 256>>
    ELSE IF WIFSIGNALED(w) THEN <<IF (w \div 128) % 2 = 1 THEN "dumped" ELSE "killed", w % 128>>
    ELSE IF WIFSTOPPED(w) THEN <<"stopped", (w \div 256) % 256>>
    ELSE IF w = 65535 THEN <<"continued", 0>>
    ELSE <<"unknown", w>>

(* External: a signal is generated for a set of processes: SIGCONT resumes a process and
   takes the place of a stop signal, and the other way round. *)
Live(p) == state[p] \in {"run", "stopped"}
Generated(pend, s) == (IF s = SIGCONT THEN pend \ Stops ELSE IF s \in Stops THEN pend \ {SIGCONT} ELSE pend) \cup {s}
Resumed(ps) == [p \in Procs |-> IF p \in ps /\ state[p] = "stopped" THEN "run" ELSE state[p]]
Group(g) == {p \in Procs : Live(p) /\ pgrp[p] = g}

(* External: the parent's end leaves the group of its children without one from outside: a
   group with a stopped member gets SIGHUP and SIGCONT. *)
OrphanedGroup == IF \E p \in Children : state[p] = "stopped" /\ pgrp[p] = 0 THEN Group(0) \ {0} ELSE {}

(* External: a process ends with a status word; the end of child 1 is news for waitpid(). *)
Dies(p, w) ==
    /\ end' = [end EXCEPT ![p] = w] /\ event' = IF p = 1 THEN w ELSE event
    /\ LET orphans == IF p = 0 THEN OrphanedGroup ELSE {}
       IN /\ state' = [Resumed(orphans) EXCEPT ![p] = "dead"]
          /\ pending' = [q \in Procs |-> IF q \in orphans
                            THEN Generated(Generated(pending[q], SIGHUP), SIGCONT) ELSE pending[q]]

Stop(p, s) ==
    /\ state' = [state EXCEPT ![p] = "stopped"]
    /\ event' = IF p = 1 THEN Stopped(s) ELSE event
    /\ late' = IF app = "orphaned_pgrp_SIGHUP" /\ state[0] = "dead" THEN late \cup {p} ELSE late

-----------------------------------------------------------------------------
Does(p, op) == state[p] = "run" /\ ~paused[p] /\ text[p] # <<>> /\ Head(text[p]) = op
Advance(p) == text' = [text EXCEPT ![p] = Tail(@)]

Handle(p) ==
    /\ Does(p, "handle") /\ Advance(p) /\ handled' = [handled EXCEPT ![p] = Programs[app].handles]
    /\ UNCHANGED <<app, arg, state, pgrp, pending, paused, alarmed, caught, end, event, reports, cmdNum,
                   pipe, sent, early, late>>

(* The next child starts in its parent's group and with its handlers. *)
Fork(p) ==
    /\ Does(p, "fork") /\ Advance(p)
    /\ LET c == CHOOSE q \in Children : state[q] = "none" /\ \A r \in 1..(q - 1) : state[r] # "none"
       IN /\ state' = [state EXCEPT ![c] = "run"] /\ handled' = [handled EXCEPT ![c] = handled[p]]
    /\ UNCHANGED <<app, arg, pgrp, pending, paused, alarmed, caught, end, event, reports, cmdNum, pipe,
                   sent, early, late>>

Setpgid(p) ==
    /\ Does(p, "setpgid") /\ Advance(p) /\ pgrp' = [pgrp EXCEPT ![p] = p]
    /\ UNCHANGED <<app, arg, state, handled, pending, paused, alarmed, caught, end, event, reports, cmdNum,
                   pipe, sent, early, late>>

Alarm(p) ==
    /\ Does(p, "alarm") /\ Advance(p) /\ alarmed' = [alarmed EXCEPT ![p] = TRUE]
    /\ UNCHANGED <<app, arg, state, pgrp, handled, pending, paused, caught, end, event, reports, cmdNum,
                   pipe, sent, early, late>>

(* pause(), once or in a loop: only a signal that comes from now on ends it. *)
Pause(p) ==
    /\ Does(p, "pause") \/ Does(p, "pauses")
    /\ paused' = [paused EXCEPT ![p] = TRUE]
    /\ UNCHANGED <<app, arg, text, state, pgrp, handled, pending, alarmed, caught, end, event, reports,
                   cmdNum, pipe, sent, early, late>>

(* orphaned_pgrp_SIGHUP.c: raise(SIGSTOP). *)
RaiseStop(p) ==
    /\ Does(p, "stop") /\ Advance(p) /\ Stop(p, SIGSTOP)
    /\ UNCHANGED <<app, arg, pgrp, handled, pending, paused, alarmed, caught, end, reports, cmdNum, pipe,
                   sent, early>>

(* exit(): of child_status with the status of the command line. *)
Exit(p) ==
    /\ Does(p, "exit") /\ Advance(p)
    /\ \E n \in IF app = "child_status" THEN Statuses ELSE {0} : Dies(p, Exited(n))
    /\ UNCHANGED <<app, arg, pgrp, handled, paused, alarmed, caught, reports, cmdNum, pipe, sent, early,
                   late>>

(* orphan.c: until the parent is process 1. *)
Getppid(p) ==
    /\ Does(p, "getppid") /\ state[0] = "dead" /\ Advance(p)
    /\ UNCHANGED <<app, arg, state, pgrp, handled, pending, paused, alarmed, caught, end, event, reports,
                   cmdNum, pipe, sent, early, late>>

(* Mutant: the parent ends as soon as the child has not been stopped. *)
WaitAnyEnd(p) ==
    /\ Does(p, "wait") /\ event # -1
    /\ reports' = Append(reports, printWaitStatus(event)) /\ event' = -1
    /\ LET over == ~WIFSTOPPED(event)
       IN /\ text' = IF over THEN [text EXCEPT ![p] = Tail(@)] ELSE text
          /\ state' = [q \in Procs |-> IF q = p /\ over THEN "dead" ELSE state[q]]
          /\ end' = [end EXCEPT ![p] = IF over THEN 0 ELSE @]
    /\ UNCHANGED <<app, arg, pgrp, handled, pending, paused, alarmed, caught, cmdNum, pipe, sent, early,
                   late>>

(* child_status.c: waitpid() with WUNTRACED and WCONTINUED, until the child has ended. *)
Wait(p) ==
    /\ Does(p, "wait") /\ event # -1
    /\ reports' = Append(reports, printWaitStatus(event)) /\ event' = -1
    /\ LET over == WIFEXITED(event) \/ WIFSIGNALED(event)
       IN /\ text' = IF over THEN [text EXCEPT ![p] = Tail(@)] ELSE text
          /\ state' = [q \in Procs |-> IF q = p /\ over THEN "dead" ELSE state[q]]
          /\ end' = [end EXCEPT ![p] = IF over THEN 0 ELSE @]
    /\ UNCHANGED <<app, arg, pgrp, handled, pending, paused, alarmed, caught, cmdNum, pipe, sent, early,
                   late>>

(* job_mon.c: the first of the pipeline takes 0, another the number in its pipe. *)
Read(p) ==
    /\ Does(p, "read") /\ Advance(p)
    /\ \/ p = 1 /\ cmdNum' = [cmdNum EXCEPT ![p] = 1] /\ UNCHANGED <<state, pending, end, event>>
       \/ /\ p > 1 /\ pipe[p - 1] # 0 /\ cmdNum' = [cmdNum EXCEPT ![p] = pipe[p - 1] + 1]
          /\ UNCHANGED <<state, pending, end, event>>
       \/ /\ p > 1 /\ pipe[p - 1] = 0 /\ state[p - 1] = "dead"      \* end-of-file
          /\ Dies(p, Exited(1)) /\ UNCHANGED cmdNum
    /\ UNCHANGED <<app, arg, pgrp, handled, paused, alarmed, caught, reports, pipe, sent, early, late>>
Write(p) ==
    /\ Does(p, "write") /\ Advance(p)
    /\ pipe' = IF p < N THEN [pipe EXCEPT ![p] = cmdNum[p]] ELSE pipe
    /\ UNCHANGED <<app, arg, state, pgrp, handled, pending, paused, alarmed, caught, end, event, reports,
                   cmdNum, sent, early, late>>

(* The handlers; the one of job_mon stops the process. A pause() that a handler interrupts
   returns, and in a loop is called again. *)
handler(p, s) ==
    /\ caught' = [caught EXCEPT ![p] = Append(@, s)]
    /\ paused' = [paused EXCEPT ![p] = FALSE]
    /\ text' = IF paused[p] /\ Head(text[p]) = "pause" THEN [text EXCEPT ![p] = Tail(@)] ELSE text
    /\ \/ app = "job_mon" /\ s = SIGTSTP /\ Stop(p, SIGSTOP)
       \/ ~(app = "job_mon" /\ s = SIGTSTP) /\ UNCHANGED <<state, event, late>>

Deliver(p, s) ==
    /\ state[p] = "run" /\ s \in pending[p]
    /\ \/ /\ s \in handled[p] /\ handler(p, s)
          /\ pending' = [pending EXCEPT ![p] = @ \ {s}] /\ UNCHANGED end
       \/ /\ s \notin handled[p] /\ s \in Stops /\ Stop(p, s)
          /\ pending' = [pending EXCEPT ![p] = @ \ {s}] /\ UNCHANGED <<text, paused, caught, end>>
       \/ /\ s \notin handled[p] /\ s = SIGCONT
          /\ pending' = [pending EXCEPT ![p] = @ \ {s}]
          /\ UNCHANGED <<state, event, late, text, paused, caught, end>>
       \/ /\ s \notin handled[p] /\ s \notin Stops \cup {SIGCONT} /\ Dies(p, Killed(s))
          /\ UNCHANGED <<late, text, paused, caught>>
    /\ UNCHANGED <<app, arg, pgrp, handled, alarmed, reports, cmdNum, pipe, sent, early>>

-----------------------------------------------------------------------------
(* External: a signal from the terminal to the foreground group, or from somebody to the
   child of child_status. *)
Sendable(a) ==
    CASE a \in {"catch_SIGHUP", "disc_SIGHUP"} -> {SIGHUP}
      [] a = "job_mon" -> {SIGINT, SIGTSTP, SIGCONT}
      [] a = "child_status" -> {SIGSTOP, SIGCONT, SIGQUIT, SIGTERM}
      [] OTHER -> {}
Unready(p) == handled[p] = {} \/ \E i \in DOMAIN text[p] : text[p][i] = "setpgid"
Send(s) ==
    /\ sent < MaxSent[app] /\ sent' = sent + 1 /\ s \in Sendable(app)
    /\ LET to == IF app = "child_status" THEN {p \in {1} : Live(p)} ELSE Group(0)
       IN /\ to # {} /\ pending' = [p \in Procs |-> IF p \in to THEN Generated(pending[p], s) ELSE pending[p]]
          /\ state' = IF s = SIGCONT THEN Resumed(to) ELSE state
          /\ event' = IF s = SIGCONT /\ 1 \in to /\ state[1] = "stopped" THEN Continued ELSE event
          /\ early' = IF s = SIGHUP THEN early \cup {p \in to : Unready(p)} ELSE early
    /\ UNCHANGED <<app, arg, text, pgrp, handled, paused, alarmed, caught, end, reports, cmdNum, pipe, late>>

(* External: the sixty seconds of an alarm pass. *)
AlarmRings(p) ==
    /\ alarmed[p] /\ Live(p) /\ alarmed' = [alarmed EXCEPT ![p] = FALSE]
    /\ pending' = [pending EXCEPT ![p] = Generated(@, SIGALRM)]
    /\ UNCHANGED <<app, arg, text, state, pgrp, handled, paused, caught, end, event, reports, cmdNum, pipe,
                   sent, early, late>>

Step(p) ==
    \/ Handle(p) \/ Fork(p) \/ Setpgid(p) \/ Alarm(p) \/ Pause(p) \/ RaiseStop(p) \/ Exit(p) \/ Getppid(p)
    \/ Wait(p) \/ Read(p) \/ Write(p)

Next == \E p \in Procs : Step(p) \/ AlarmRings(p) \/ \E s \in Signals : Deliver(p, s) \/ Send(s)

(* While a process can run, a signal can arrive or an alarm is set, one of them happens: no
   process runs for ever without waiting. *)
Scheduled == \E p \in Procs : Step(p) \/ AlarmRings(p) \/ \E s \in Signals : Deliver(p, s)
Fairness == WF_vars(Scheduled)
Spec == Init /\ [][Next]_vars /\ Fairness

TypeOK ==
    /\ state \in [Procs -> {"none", "run", "stopped", "dead"}] /\ pgrp \in [Procs -> Procs]
    /\ \A p \in Procs : pending[p] \subseteq Signals /\ (state[p] = "dead") = (end[p] # -1)

(* catch_SIGHUP.c:41-43, disc_SIGHUP.c:48-59: a child in a group of its own meets the hang-up
   of the terminal only when it came before setpgid(), and no child dies of it but of
   one that came before it had its handler. *)
HangupsPlaced ==
    app \in {"catch_SIGHUP", "disc_SIGHUP"} =>
        \A p \in Children :
            /\ arg[p] = "d" /\ p \notin early => caught[p] = <<>>
            /\ end[p] = Killed(SIGHUP) => p \in early /\ app = "disc_SIGHUP"

(* orphaned_pgrp_SIGHUP.c:60-80: once the parent has ended, no child is left stopped but one
   that the sleep(3) gave too little time: the others were resumed by SIGHUP and SIGCONT. *)
OrphansResumed ==
    app = "orphaned_pgrp_SIGHUP" /\ state[0] = "dead" =>
        \A p \in Children : state[p] = "stopped" => p \in late

(* child_status.c:41-59: the parent ends after it has reported the child's end and not
   before, what it says of it is what happened, and no report came after that. *)
StatusTrue ==
    app = "child_status" =>
        /\ state[0] = "dead" =>
              /\ state[1] = "dead" /\ reports[Len(reports)] = printWaitStatus(end[1])
              /\ \A i \in 1..(Len(reports) - 1) : reports[i][1] \in {"stopped", "continued"}
        /\ \A i \in DOMAIN reports :
              /\ reports[i][1] = "exited" => \E n \in Statuses : reports[i][2] = n % 256
              /\ reports[i][1] # "unknown"
              /\ reports[i] = <<"continued", 0>> =>
                    i = 1 \/ reports[i - 1][1] \in {"stopped", "continued"}

(* job_mon.c:58-78: the command that has its number has its place in the pipeline. *)
PlacesCounted == app = "job_mon" => \A p \in Children : cmdNum[p] \in {0, p}

(* The programs about groups and job control do what their signals are to show. *)
JobsSafe == HangupsPlaced /\ OrphansResumed /\ StatusTrue /\ PlacesCounted

(* In the end the alarm has ended what nothing else did (catch_SIGHUP.c:48), an orphan has seen
   that it is one, the parent of child_status has ended if its child has, and no command of
   job_mon that runs has a SIGTSTP still to come. *)
JobsEnd ==
    /\ app \in {"catch_SIGHUP", "disc_SIGHUP", "orphan"} => \A p \in Procs : ~Live(p)
    /\ app = "orphaned_pgrp_SIGHUP" => \A p \in Procs : ~Live(p) \/ p \in late
    /\ app = "child_status" /\ state[1] = "dead" => state[0] = "dead"
    /\ app = "job_mon" => \A p \in Children : state[p] = "run" => SIGTSTP \notin pending[p]
=============================================================================
