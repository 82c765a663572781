----------------------------- MODULE SystemCall -----------------------------
(***************************************************************************)
(* procexec/system.c: system() with signals handled as POSIX asks, called  *)
(* by a program that has a SIGCHLD handler reaping all children and other  *)
(* children of its own, while the terminal may send SIGINT and SIGQUIT to  *)
(* the caller and the command. procexec/simple_system.c is the version     *)
(* without the signal handling.                                            *)
(***************************************************************************)
EXTENDS Integers

CONSTANTS
    Others,        \* children the caller created before, which end some day
    MaxInterrupts  \* SIGINT or SIGQUIT from the terminal

Keys == {"INT", "QUIT"}
Dispositions == {"DFL", "IGN", "handler"}

VARIABLES
    pc,          \* system(): "block", "ignINT", "ignQUIT", "fork", "wait",
                 \* "unblock", "restINT", "restQUIT", "returned"; or "killed"
    blocked,     \* SIGCHLD is blocked
    sigchld,     \* SIGCHLD is pending
    disp, orig,  \* the caller's dispositions now, and as they were when it called
    child,       \* "none", "setINT", "setQUIT", "exec", "run", "zombie", "reaped"
    cdisp,       \* the child's dispositions
    cstatus,     \* how the child ended: "none", "ok", "127", "signal"
    status,      \* what system() returns: "none", "-1", or the child's
    others,      \* per other child: "run", "zombie", "reaped"
    interrupts

callerVars == <<pc, blocked, disp, orig, status>>
childVars == <<child, cdisp, cstatus>>
vars == <<callerVars, childVars, sigchld, others, interrupts>>

Init ==
    /\ pc = "block" /\ blocked = FALSE /\ sigchld = FALSE
    /\ disp \in [Keys -> Dispositions] /\ orig = disp
    /\ child = "none" /\ cdisp = disp /\ cstatus = "none" /\ status = "none"
    /\ others = [o \in Others |-> "run"]
    /\ interrupts = 0

-----------------------------------------------------------------------------
(* The caller *)

(* Mutant: SIGCHLD stays unblocked, as in simple_system.c. *)
BlockNothing ==
    /\ pc = "block"
    /\ pc' = "ignINT"
    /\ UNCHANGED <<blocked, disp, orig, status, childVars, sigchld, others, interrupts>>

Block ==
    /\ pc = "block"
    /\ blocked' = TRUE /\ pc' = "ignINT"
    /\ UNCHANGED <<disp, orig, status, childVars, sigchld, others, interrupts>>

(* SIGINT, then SIGQUIT, is ignored; the old disposition is kept in orig. *)
IgnoreAt(at, k, to) ==
    /\ pc = at
    /\ disp' = [disp EXCEPT ![k] = "IGN"] /\ pc' = to
    /\ UNCHANGED <<blocked, orig, status, childVars, sigchld, others, interrupts>>

Ignore == IgnoreAt("ignINT", "INT", "ignQUIT") \/ IgnoreAt("ignQUIT", "QUIT", "fork")

(* fork() copies the dispositions as they are now. *)
Fork ==
    /\ pc = "fork"
    /\ child' = "setINT" /\ cdisp' = disp /\ pc' = "wait"
    /\ UNCHANGED <<blocked, disp, orig, status, cstatus, sigchld, others, interrupts>>

ForkFails ==
    /\ pc = "fork"
    /\ status' = "-1" /\ pc' = "unblock"
    /\ UNCHANGED <<blocked, disp, orig, childVars, sigchld, others, interrupts>>

(* waitpid(childPid), restarted after EINTR; ECHILD if somebody else reaped the child. *)
Wait ==
    /\ pc = "wait"
    /\ child \in {"zombie", "reaped"}
    /\ child' = "reaped"
    /\ status' = IF child = "zombie" THEN cstatus ELSE "-1"
    /\ pc' = "unblock"
    /\ UNCHANGED <<blocked, disp, orig, cdisp, cstatus, sigchld, others, interrupts>>

Unblock ==
    /\ pc = "unblock"
    /\ blocked' = FALSE /\ pc' = "restINT"
    /\ UNCHANGED <<disp, orig, status, childVars, sigchld, others, interrupts>>

RestoreAt(at, k, to) ==
    /\ pc = at
    /\ disp' = [disp EXCEPT ![k] = orig[k]] /\ pc' = to
    /\ UNCHANGED <<blocked, orig, status, childVars, sigchld, others, interrupts>>

Restore == RestoreAt("restINT", "INT", "restQUIT") \/ RestoreAt("restQUIT", "QUIT", "returned")

(* The caller's SIGCHLD handler: waitpid(-1, ..., WNOHANG) until nothing is left. *)
CallerReaps ==
    /\ sigchld /\ ~blocked /\ pc # "killed"
    /\ sigchld' = FALSE
    /\ others' = [o \in Others |-> IF others[o] = "zombie" THEN "reaped" ELSE others[o]]
    /\ child' = IF child = "zombie" THEN "reaped" ELSE child
    /\ UNCHANGED <<callerVars, cdisp, cstatus, interrupts>>

-----------------------------------------------------------------------------
(* The child *)

ChildSetAt(at, k, to) ==
    /\ child = at
    /\ cdisp' = IF orig[k] # "IGN" THEN [cdisp EXCEPT ![k] = "DFL"] ELSE cdisp
    /\ child' = to
    /\ UNCHANGED <<callerVars, cstatus, sigchld, others, interrupts>>

ChildSets == ChildSetAt("setINT", "INT", "setQUIT") \/ ChildSetAt("setQUIT", "QUIT", "exec")

ChildExec ==
    /\ child = "exec"
    /\ child' = "run"
    /\ UNCHANGED <<callerVars, cdisp, cstatus, sigchld, others, interrupts>>

ChildDies(how) ==
    /\ child' = "zombie" /\ cstatus' = how
    /\ sigchld' = TRUE

(* execl() fails: _exit(127); or the command ends. *)
ChildExits ==
    /\ \/ child = "exec" /\ ChildDies("127")
       \/ child = "run" /\ ChildDies("ok")
    /\ UNCHANGED <<callerVars, cdisp, others, interrupts>>

OtherExits(o) ==
    /\ others[o] = "run"
    /\ others' = [others EXCEPT ![o] = "zombie"]
    /\ sigchld' = TRUE
    /\ UNCHANGED <<callerVars, childVars, interrupts>>

(* The terminal sends a signal to the caller and to the child, if there is one. *)
Interrupt(k) ==
    /\ interrupts < MaxInterrupts /\ pc # "killed"
    /\ interrupts' = interrupts + 1
    /\ pc' = IF disp[k] = "DFL" THEN "killed" ELSE pc
    /\ IF child \in {"setINT", "setQUIT", "exec", "run"} /\ cdisp[k] = "DFL"
       THEN ChildDies("signal")
       ELSE UNCHANGED <<child, cstatus, sigchld>>
    /\ UNCHANGED <<blocked, disp, orig, status, cdisp, others>>

system == Block \/ Ignore \/ Fork \/ ForkFails \/ Wait \/ Unblock \/ Restore
Child == ChildSets \/ ChildExec \/ ChildExits

Next ==
    \/ system \/ CallerReaps \/ Child
    \/ \E o \in Others : OtherExits(o)
    \/ \E k \in Keys : Interrupt(k)

Spec == Init /\ [][Next]_vars

-----------------------------------------------------------------------------
TypeOK ==
    /\ pc \in {"block", "ignINT", "ignQUIT", "fork", "wait", "unblock", "restINT", "restQUIT",
              "returned", "killed"}
    /\ child \in {"none", "setINT", "setQUIT", "exec", "run", "zombie", "reaped"}
    /\ disp \in [Keys -> Dispositions] /\ cdisp \in [Keys -> Dispositions]
    /\ orig \in [Keys -> Dispositions] /\ blocked \in BOOLEAN /\ sigchld \in BOOLEAN
    /\ cstatus \in {"none", "ok", "127", "signal"}
    /\ status \in {"none", "-1", "ok", "127", "signal"}
    /\ others \in [Others -> {"run", "zombie", "reaped"}]

(* system() returns the command's status whenever it created a child: the caller's
   handler, which reaps every child it can, never takes it away. *)
StatusExact == pc = "returned" => status = IF child = "none" THEN "-1" ELSE cstatus

(* No key typed while the command exists kills the caller. *)
CallerSurvives == pc = "killed" => child \in {"none", "reaped"}

(* On return the signal mask and both dispositions are those of the call, also when
   fork() failed. *)
Restored == pc = "returned" => disp = orig /\ ~blocked

(* The command runs with the dispositions an exec() by the caller would have given it:
   ignored if the caller ignored the signal, the default otherwise. *)
Wanted(k) == IF orig[k] = "IGN" THEN "IGN" ELSE "DFL"
CommandDispositions == child = "run" => \A k \in Keys : cdisp[k] = Wanted(k)

(* Children of the caller that die meanwhile are noticed: SIGCHLD stays pending. *)
NoForgottenChild == \A o \in Others : others[o] = "zombie" => sigchld

(* In the end system() has returned, unless the caller is killed. *)
Returns == pc \in {"returned", "killed"}

-----------------------------------------------------------------------------
(* Why: SIGCHLD is blocked, and the keys are ignored, from before the child exists until
   it has been waited for. *)
Blocked == pc \in {"ignINT", "ignQUIT", "fork", "wait", "unblock"}
CallerInv ==
    /\ pc # "killed" => blocked = Blocked
    /\ pc \in {"block", "ignINT", "ignQUIT", "fork"} => child = "none"
    /\ pc = "wait" => child \notin {"none", "reaped"}
    /\ pc \in {"unblock", "restINT", "restQUIT", "returned", "killed"} => child \in {"none", "reaped"}
    /\ pc \in {"unblock", "restINT", "restQUIT"} => status = IF child = "none" THEN "-1" ELSE cstatus
DispositionsInv ==
    /\ pc \in {"ignQUIT", "fork", "wait", "unblock", "restINT"} => disp["INT"] = "IGN"
    /\ pc \in {"fork", "wait", "unblock", "restINT", "restQUIT"} => disp["QUIT"] = "IGN"
    /\ pc \in {"block", "ignINT", "restQUIT"} => disp["INT"] = orig["INT"]
    /\ pc \in {"block", "ignINT", "ignQUIT"} => disp["QUIT"] = orig["QUIT"]
ChildInv ==
    /\ child = "setINT" => cdisp["INT"] = "IGN" /\ cdisp["QUIT"] = "IGN"
    /\ child = "setQUIT" => cdisp["INT"] = Wanted("INT") /\ cdisp["QUIT"] = "IGN"
    /\ child \in {"exec", "run"} => \A k \in Keys : cdisp[k] = Wanted(k)
Inv ==
    /\ TypeOK /\ CallerInv /\ DispositionsInv /\ ChildInv
    /\ StatusExact /\ CallerSurvives /\ Restored /\ CommandDispositions /\ NoForgottenChild

=============================================================================
