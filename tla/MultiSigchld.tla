---------------------------- MODULE MultiSigchld ----------------------------
(***************************************************************************)
(* procexec/multi_SIGCHLD.c: a parent creates children and waits with      *)
(* sigsuspend() until its SIGCHLD handler has reaped them all. SIGCHLD is  *)
(* blocked except while the parent is suspended; signals are not queued.   *)
(***************************************************************************)
EXTENDS Integers

CONSTANT N     \* number of children, > 0

VARIABLES
    pc,               \* of main(): "fork", "test", "call", "sigsuspend", "exited", "failed"
    handler,          \* of the handler: "off", "waitpid", "sleep"
    j,                \* children created
    numLiveChildren, sigCnt,
    zombies, reaped,  \* how many children are dead and not waited for; waited for
    pending           \* SIGCHLD is pending

vars == <<pc, handler, j, numLiveChildren, sigCnt, zombies, reaped, pending>>

Init ==
    /\ pc = "fork" /\ handler = "off" /\ j = 0
    /\ numLiveChildren = N /\ sigCnt = 0
    /\ zombies = 0 /\ reaped = 0 /\ pending = FALSE

Fork == /\ pc = "fork"
        /\ j' = j + 1
        /\ pc' = IF j + 1 = N THEN "test" ELSE "fork"
        /\ UNCHANGED <<handler, numLiveChildren, sigCnt, zombies, reaped, pending>>

ForkFails == /\ pc = "fork"
             /\ pc' = "failed"
             /\ UNCHANGED <<handler, j, numLiveChildren, sigCnt, zombies, reaped, pending>>

(* A child has slept and exits. *)
ChildExits ==
    /\ zombies + reaped < j
    /\ zombies' = zombies + 1
    /\ pending' = TRUE
    /\ UNCHANGED <<pc, handler, j, numLiveChildren, sigCnt, reaped>>

Test == /\ pc = "test" /\ handler = "off"
        /\ pc' = IF numLiveChildren > 0 THEN "call" ELSE "exited"
        /\ UNCHANGED <<handler, j, numLiveChildren, sigCnt, zombies, reaped, pending>>

Suspend == /\ pc = "call" /\ handler = "off"
           /\ pc' = "sigsuspend"
           /\ UNCHANGED <<handler, j, numLiveChildren, sigCnt, zombies, reaped, pending>>

(* The mask of sigsuspend() is empty; before and after it SIGCHLD is blocked. *)
Delivers == pc = "sigsuspend"

HandlerStarts == /\ pending /\ handler = "off" /\ Delivers
                 /\ pending' = FALSE
                 /\ handler' = "waitpid"
                 /\ UNCHANGED <<pc, j, numLiveChildren, sigCnt, zombies, reaped>>

(* Mutant: one waitpid() for each signal. *)
ReapOne == /\ handler = "waitpid"
           /\ zombies > 0 /\ zombies' = zombies - 1 /\ reaped' = reaped + 1
           /\ numLiveChildren' = numLiveChildren - 1
           /\ handler' = "sleep"
           /\ UNCHANGED <<pc, j, sigCnt, pending>>

(* One turn of the loop of the handler. *)
Reap == /\ handler = "waitpid"
        /\ zombies > 0 /\ zombies' = zombies - 1 /\ reaped' = reaped + 1
        /\ numLiveChildren' = numLiveChildren - 1
        /\ UNCHANGED <<pc, handler, j, sigCnt, pending>>

(* waitpid() finds no dead child; the handler sleeps a while longer. *)
ReapDone == /\ handler = "waitpid" /\ zombies = 0
            /\ handler' = "sleep"
            /\ UNCHANGED <<pc, j, numLiveChildren, sigCnt, zombies, reaped, pending>>

(* The handler returns, and with it sigsuspend(). *)
HandlerReturns == /\ handler = "sleep"
                  /\ handler' = "off"
                  /\ IF pc = "sigsuspend"
                     THEN pc' = "test" /\ sigCnt' = sigCnt + 1
                     ELSE UNCHANGED <<pc, sigCnt>>
                  /\ UNCHANGED <<j, numLiveChildren, zombies, reaped, pending>>

Parent == Fork \/ Test \/ Suspend \/ HandlerStarts \/ Reap \/ ReapDone \/ HandlerReturns
Next == Parent \/ ForkFails \/ ChildExits
Spec == Init /\ [][Next]_vars

-----------------------------------------------------------------------------
TypeOK ==
    /\ pc \in {"fork", "test", "call", "sigsuspend", "exited", "failed"}
    /\ handler \in {"off", "waitpid", "sleep"}
    /\ j \in 0 .. N /\ numLiveChildren \in 0 .. N /\ sigCnt \in Nat
    /\ zombies \in 0 .. N /\ reaped \in 0 .. N /\ pending \in BOOLEAN

(* numLiveChildren is the number of children "started but not yet waited on", those
   still to be created included. *)
CountIsExact == numLiveChildren = N - reaped

(* The message at the end is true: all children have terminated and been reaped. *)
AllReaped == pc = "exited" => reaped = N

(* A dead child is never forgotten: SIGCHLD is pending or the handler is at work,
   although the signals of several children are merged. *)
NoForgottenChild == zombies > 0 /\ pc # "failed" => pending \/ handler = "waitpid"

(* SIGCHLD is caught at most once for each child that died. *)
CaughtAtMostOnce ==
    sigCnt + (IF handler = "off" THEN 0 ELSE 1) + (IF pending THEN 1 ELSE 0)
        <= zombies + reaped

(* All of this together. *)
ChildrenCounted == TypeOK /\ CountIsExact /\ AllReaped /\ NoForgottenChild /\ CaughtAtMostOnce

(* In the end the parent does not sleep. *)
Terminates == pc \in {"exited", "failed"}

-----------------------------------------------------------------------------
Created == pc \in {"test", "call", "sigsuspend", "exited"}

(* Why: only children that exist die, and the handler runs only inside sigsuspend(). *)
Inv ==
    /\ ChildrenCounted
    /\ zombies + reaped <= j
    /\ Created => j = N
    /\ pc = "fork" => j < N
    /\ handler # "off" => pc = "sigsuspend"
=============================================================================
