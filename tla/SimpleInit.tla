----------------------------- MODULE SimpleInit -----------------------------
(***************************************************************************)
(* namespaces/simple_init.c: the init of a PID namespace, a small shell    *)
(* that runs one command at a time in the foreground and reaps, in a       *)
(* SIGCHLD handler, its children and the orphans it adopts.                *)
(***************************************************************************)
EXTENDS Integers

CONSTANTS
    MaxCmds,     \* bound on the commands given
    Orphans      \* processes that init may adopt

Cmds == 1 .. MaxCmds
Init0 == 0       \* init itself, as a process group

VARIABLES
    pc,          \* of main()
    n,           \* commands forked so far
    st,          \* state of each child
    status,      \* a stopped child has not been waited for
    fg,          \* foreground process group of the terminal
    pending,     \* SIGCHLD is pending
    handler      \* child_handler() is running

vars == <<pc, n, st, status, fg, pending, handler>>

Init ==
    /\ pc = "setpgid" /\ n = 0
    /\ st = [c \in Cmds \cup Orphans |-> "none"] /\ status = {}
    /\ fg = -1 /\ pending = FALSE /\ handler = FALSE

-----------------------------------------------------------------------------
(* main() runs while its handler does not. *)

BecomeForeground == /\ pc = "setpgid"
                    /\ fg' = Init0
                    /\ pc' = "fgets"
                    /\ UNCHANGED <<n, st, status, pending, handler>>

(* An empty command changes nothing. *)
ReadCommand == /\ pc = "fgets" /\ ~handler /\ n < MaxCmds
               /\ pc' = "fork"
               /\ UNCHANGED <<n, st, status, fg, pending, handler>>

(* End of file, or fork() fails: init, and with it the namespace, ends. *)
ExitLoop == /\ pc \in {"fgets", "fork"} /\ ~handler
            /\ pc' = "exited"
            /\ UNCHANGED <<n, st, status, fg, pending, handler>>

Fork == /\ pc = "fork" /\ ~handler
        /\ n' = n + 1
        /\ st' = [st EXCEPT ![n + 1] = "forked"]
        /\ pc' = "created"
        /\ UNCHANGED <<status, fg, pending, handler>>

Pause == /\ pc = "created" /\ ~handler
         /\ pc' = "pause"
         /\ UNCHANGED <<n, st, status, fg, pending, handler>>

Retake == /\ pc = "retake" /\ ~handler
          /\ fg' = Init0
          /\ pc' = "fgets"
          /\ UNCHANGED <<n, st, status, pending, handler>>

-----------------------------------------------------------------------------
(* child_handler() *)

HandlerStarts == /\ pending /\ ~handler /\ pc # "exited"
                 /\ pending' = FALSE
                 /\ handler' = TRUE
                 /\ UNCHANGED <<pc, n, st, status, fg>>

Waitable == {c \in DOMAIN st : st[c] = "zombie"} \cup status

Wait(c) == /\ status' = status \ {c}
           /\ st' = [st EXCEPT ![c] = IF @ = "zombie" THEN "reaped" ELSE @]

(* Mutant: one waitpid() for each signal. *)
WaitOnce == /\ handler
            /\ \E c \in Waitable : Wait(c)
            /\ handler' = FALSE
            /\ pc' = IF pc = "pause" THEN "retake" ELSE pc
            /\ UNCHANGED <<n, fg, pending>>

(* waitpid(WNOHANG | WUNTRACED | WCONTINUED) finds a child. *)
WaitChild == /\ handler
             /\ \E c \in Waitable : Wait(c)
             /\ UNCHANGED <<pc, n, fg, pending, handler>>

(* It finds none; the handler returns, and pause() with it. *)
WaitNone == /\ handler /\ Waitable = {}
            /\ handler' = FALSE
            /\ pc' = IF pc = "pause" THEN "retake" ELSE pc
            /\ UNCHANGED <<n, st, status, fg, pending>>

-----------------------------------------------------------------------------
(* The children *)

Alive(c) == st[c] \in {"forked", "running"}

(* setpgid() and tcsetpgrp() in the child, then the command *)
ChildExec(c) == /\ st[c] = "forked" /\ pc # "exited"
                /\ fg' = c
                /\ st' = [st EXCEPT ![c] = "running"]
                /\ UNCHANGED <<pc, n, status, pending, handler>>

(* A command ends; word expansion fails; an orphan ends. *)
ChildExits(c) == /\ Alive(c) /\ pc # "exited"
                 /\ st' = [st EXCEPT ![c] = "zombie"]
                 /\ pending' = TRUE
                 /\ UNCHANGED <<pc, n, status, fg, handler>>

(* Control-Z. SA_NOCLDSTOP: no signal for a child that stops. *)
ChildStops(c) == /\ st[c] = "running" /\ fg = c /\ pc # "exited"
                 /\ st' = [st EXCEPT ![c] = "stopped"]
                 /\ status' = status \cup {c}
                 /\ UNCHANGED <<pc, n, fg, pending, handler>>

(* The parent of a process dies and init adopts it. *)
Adopt(c) == /\ st[c] = "none" /\ n > 0 /\ pc # "exited"
            /\ st' = [st EXCEPT ![c] = "running"]
            /\ UNCHANGED <<pc, n, status, fg, pending, handler>>

main == BecomeForeground \/ ReadCommand \/ Fork \/ Pause \/ Retake
child_handler == WaitChild \/ WaitNone

Next ==
    \/ main \/ ExitLoop \/ HandlerStarts \/ child_handler
    \/ \E c \in Cmds : ChildExec(c) \/ ChildStops(c)
    \/ \E c \in Cmds \cup Orphans : ChildExits(c)
    \/ \E c \in Orphans : Adopt(c)

Spec == Init /\ [][Next]_vars

(* Processes run, signals are delivered and every command ends unless stopped. *)
FairSpec ==
    /\ Spec
    /\ WF_vars(main) /\ WF_vars(HandlerStarts) /\ WF_vars(child_handler)
    /\ \A c \in Cmds \cup Orphans : WF_vars(ChildExits(c))

-----------------------------------------------------------------------------
TypeOK ==
    /\ pc \in {"setpgid", "fgets", "fork", "created", "pause", "retake", "exited"}
    /\ n \in 0 .. MaxCmds
    /\ st \in [Cmds \cup Orphans -> {"none", "forked", "running", "stopped", "zombie", "reaped"}]
    /\ status \subseteq Cmds /\ fg \in -1 .. MaxCmds
    /\ pending \in BOOLEAN /\ handler \in BOOLEAN

(* Init reaps everything that dies in its namespace: a dead child is waited for by
   the handler that runs or by the one that SIGCHLD will start. *)
NoForgottenZombie ==
    pc # "exited" /\ (\E c \in DOMAIN st : st[c] = "zombie") => pending \/ handler

(* While init waits for a command it is in the foreground ("ensure that the 'init'
   program is the foreground process group for the terminal"), so long as it has
   adopted no orphan, whose death may end a pause() that is meant for a command. *)
PromptInForeground ==
    pc = "fgets" /\ (\A c \in Orphans : st[c] = "none") => fg = Init0

(* In the end every child that died is reaped, whatever main() is doing, unless init ends. *)
Reaped == \A c \in Cmds \cup Orphans : st[c] # "zombie" \/ pc = "exited"

(* "Will be interrupted by signal handler", says the comment on pause(), here while
   no command is stopped from the terminal. *)
PauseInterrupted ==
    [](\A c \in Cmds : st[c] # "stopped") => (pc = "pause" ~> pc # "pause")

-----------------------------------------------------------------------------
(* Why: without orphans, SIGCHLD means that the last command has ended, so that main()
   leaves pause() only when no command is left that could take the terminal. *)
NoOrphans == \A c \in Orphans : st[c] = "none"
Gone(c) == st[c] \in {"none", "reaped"}
CommandsInv ==
    /\ pc = "fork" => n < MaxCmds
    /\ pc \in {"created", "pause"} => n > 0
    /\ NoOrphans /\ pc \in {"setpgid", "fgets", "fork", "retake"} =>
          ~pending /\ ~handler /\ \A c \in Cmds : Gone(c)
    /\ NoOrphans /\ pc \in {"created", "pause"} =>
          /\ \A c \in Cmds \ {n} : Gone(c)
          /\ st[n] \in {"forked", "running", "stopped"} => ~pending /\ ~handler
          /\ ~(pending /\ handler)
    /\ NoOrphans /\ pc = "fork" => fg = Init0
Inv == TypeOK /\ CommandsInv /\ NoForgottenZombie /\ PromptInForeground
=============================================================================
