---------------------------- MODULE BecomeDaemon ----------------------------
(***************************************************************************)
(* daemons/become_daemon.c: becomeDaemon(flags), two forks with a new      *)
(* session between them, then the process attributes and descriptors. The  *)
(* processes are numbered in the order of creation; the function returns   *)
(* in the last one.                                                        *)
(***************************************************************************)
EXTENDS Integers

CONSTANTS
    MaxFd,         \* descriptors are 0 .. MaxFd
    OpenMax,       \* values sysconf(_SC_OPEN_MAX) may return besides -1
    BD_MAX_CLOSE

Fds == 0 .. MaxFd
Flags == {"BD_NO_CHDIR", "BD_NO_CLOSE_FILES", "BD_NO_REOPEN_STD_FDS", "BD_NO_UMASK0"}

VARIABLES
    flags, maxfd,   \* the argument; the limit of the closing loop
    pc, ret,        \* of the process that runs the function: the last one
    alive,          \* the processes that have not terminated, a subset of 0..2
    last,           \* the last process created
    session,        \* per process: the leader of its session, -1 for the caller's
    ctty,           \* sessions that have a controlling terminal
    fds,            \* what the last process has open: "none", "file" or "null"
    mask0, root     \* its umask is 0; its directory is "/"

vars == <<flags, maxfd, pc, ret, alive, last, session, ctty, fds, mask0, root>>

Init ==
    /\ flags \in SUBSET Flags /\ maxfd \in OpenMax \cup {-1}
    /\ pc = "fork1" /\ ret = 1
    /\ alive = {0} /\ last = 0
    /\ session = [p \in 0 .. 2 |-> -1] /\ ctty = {-1}
    /\ fds \in [Fds -> {"none", "file"}]
    /\ mask0 = FALSE /\ root = FALSE

Goto(l) == pc' = l
Return(r) == pc' = "returned" /\ ret' = r

Fork(l) ==
    /\ last' = last + 1
    /\ alive' = alive \cup {last + 1}
    /\ session' = [session EXCEPT ![last + 1] = session[last]]
    /\ Goto(l) /\ UNCHANGED ret

Fork1 == /\ pc = "fork1"
         /\ Fork("setsid")
         /\ UNCHANGED <<flags, maxfd, ctty, fds, mask0, root>>

ForkFails == /\ pc \in {"fork1", "fork2"}
             /\ Return(-1)
             /\ UNCHANGED <<flags, maxfd, alive, last, session, ctty, fds, mask0, root>>

(* The parent of a fork calls _exit(). *)
ParentExits == \E p \in alive :
    /\ p < last
    /\ alive' = alive \ {p}
    /\ UNCHANGED <<flags, maxfd, pc, ret, last, session, ctty, fds, mask0, root>>

Setsid == /\ pc = "setsid"
          /\ session' = [session EXCEPT ![last] = last]
          /\ Goto("fork2")
          /\ UNCHANGED <<flags, maxfd, ret, alive, last, ctty, fds, mask0, root>>

(* Mutant: the session leader goes on. *)
NoFork2 == /\ pc = "fork2"
           /\ Goto("attributes")
           /\ UNCHANGED <<flags, maxfd, ret, alive, last, session, ctty, fds, mask0, root>>

Fork2 == /\ pc = "fork2"
         /\ Fork("attributes")
         /\ UNCHANGED <<flags, maxfd, ctty, fds, mask0, root>>

Attributes == /\ pc = "attributes"
              /\ mask0' = ("BD_NO_UMASK0" \notin flags)
              /\ root' = ("BD_NO_CHDIR" \notin flags)
              /\ Goto("close")
              /\ UNCHANGED <<flags, maxfd, ret, alive, last, session, ctty, fds>>

(* sysconf() may not know the limit. *)
Limit == IF maxfd = -1 THEN BD_MAX_CLOSE ELSE maxfd

CloseFiles ==
    /\ pc = "close"
    /\ fds' = [f \in Fds |-> IF "BD_NO_CLOSE_FILES" \notin flags /\ f < Limit
                             THEN "none" ELSE fds[f]]
    /\ Goto("reopen")
    /\ UNCHANGED <<flags, maxfd, ret, alive, last, session, ctty, mask0, root>>

(* close(0); open("/dev/null"), which takes the lowest descriptor, 0; dup2() *)
ReopenStdFds ==
    /\ pc = "reopen"
    /\ IF "BD_NO_REOPEN_STD_FDS" \in flags
       THEN Return(0) /\ UNCHANGED fds
       ELSE \/ /\ fds' = [f \in Fds |-> IF f \in 0 .. 2 THEN "null" ELSE fds[f]]
               /\ Return(0)
            \/ /\ fds' = [fds EXCEPT ![0] = "none"]
               /\ Return(-1)
    /\ UNCHANGED <<flags, maxfd, alive, last, session, ctty, mask0, root>>

(* The daemon opens a terminal: a session leader would acquire it. *)
OpenTerminal ==
    /\ pc = "returned" /\ ret = 0
    /\ ctty' = IF session[last] = last THEN ctty \cup {last} ELSE ctty
    /\ UNCHANGED <<flags, maxfd, pc, ret, alive, last, session, fds, mask0, root>>

Step == Fork1 \/ ForkFails \/ Setsid \/ Fork2 \/ Attributes \/ CloseFiles \/ ReopenStdFds
Next == Step \/ ParentExits \/ OpenTerminal
Spec == Init /\ [][Next]_vars

-----------------------------------------------------------------------------
TypeOK ==
    /\ flags \subseteq Flags /\ maxfd \in OpenMax \cup {-1}
    /\ pc \in {"fork1", "setsid", "fork2", "attributes", "close", "reopen", "returned"}
    /\ ret \in {1, 0, -1} /\ last \in 0 .. 2 /\ alive \subseteq 0 .. last
    /\ session \in [0 .. 2 -> -1 .. 2] /\ ctty \subseteq -1 .. 2
    /\ fds \in [Fds -> {"none", "file", "null"}]
    /\ mask0 \in BOOLEAN /\ root \in BOOLEAN

Success == pc = "returned" /\ ret = 0

(* The daemon's session never has a controlling terminal, not even after the daemon
   has opened one (setsid(), then the second fork()). *)
NeverControlled == Success => session[last] \notin ctty

(* After success the standard descriptors all refer to /dev/null, whichever of them
   were closed when the function was called, unless the flags say otherwise. *)
StdFdsNull ==
    Success /\ "BD_NO_REOPEN_STD_FDS" \notin flags => \A f \in 0 .. 2 : fds[f] = "null"

(* "Close all open files": nothing that the caller had open below the limit is left after
   success (above it something may be: a limit may be lowered while descriptors above it
   are open, and BD_MAX_CLOSE is a guess). *)
AllClosed ==
    Success /\ "BD_NO_CLOSE_FILES" \notin flags =>
        \A f \in Fds : f < Limit => fds[f] # "file"

(* Of the processes that took part, in the end only the one that returned stays. *)
OneProcess == alive = {last} /\ pc = "returned"

-----------------------------------------------------------------------------
(* Why: the process that goes on after the second fork() is in the session that the first
   child leads, and is not its leader, so it never gives it a terminal. *)
SessionInv ==
    /\ ctty = {-1}
    /\ pc # "returned" => ret = 1
    /\ pc = "fork1" => last = 0
    /\ pc \in {"setsid", "fork2"} => last = 1
    /\ pc = "fork2" => session[1] = 1
    /\ pc \in {"attributes", "close", "reopen"} \/ Success => last = 2 /\ session[2] = 1
FilesInv ==
    pc = "reopen" /\ "BD_NO_CLOSE_FILES" \notin flags => \A f \in Fds : f < Limit => fds[f] = "none"
Inv == TypeOK /\ SessionInv /\ FilesInv /\ NeverControlled /\ StdFdsNull /\ AllClosed
=============================================================================
