----------------------------- MODULE SvsemInit -----------------------------
(***************************************************************************)
(* svsem/svsem_good_init.c and svsem_bad_init.c: several processes race to *)
(* create and initialize one System V semaphore. Creation does not         *)
(* initialize; in svsem_good_init the creator sets the value and then does *)
(* a null semop(), and the others poll sem_otime to see that it did, at    *)
(* most MAX_TRIES times. svsem_bad_init does without the latter two.       *)
(***************************************************************************)
EXTENDS Integers

CONSTANTS
    Procs,
    SemOp,       \* the operation each svsem_good_init was asked to do
    MAX_TRIES,
    Garbage      \* values a new semaphore may have

VARIABLES
    good,        \* svsem_good_init is run
    exists,      \* the semaphore set exists
    semval,      \* its value
    sem_otime,   \* a semop() has been done on it: sem_otime # 0
    pc, j,       \* per process: where it is, polls done
    done,        \* the sum of the operations that have been done (history)
    lost, undone \* processes whose operation the initialization has undone, and their sum

histVars == <<done, lost, undone>>
vars == <<good, exists, semval, sem_otime, pc, j, histVars>>

Init ==
    /\ good \in BOOLEAN /\ lost = {} /\ done = 0 /\ undone = 0
    /\ exists = FALSE /\ semval = 0 /\ sem_otime = FALSE
    /\ pc = [p \in Procs |-> "semget"] /\ j = [p \in Procs |-> 0]

Goto(p, l) == pc' = [pc EXCEPT ![p] = l] /\ UNCHANGED good
Op(p) == IF good THEN SemOp[p] ELSE 1

(* semget(IPC_CREAT | IPC_EXCL) succeeds *)
Create(p) ==
    /\ pc[p] = "semget" /\ ~exists
    /\ exists' = TRUE
    /\ semval' \in Garbage
    /\ Goto(p, "setval")
    /\ UNCHANGED <<sem_otime, j, histVars>>

(* EEXIST: get the identifier. *)
Find(p) ==
    /\ pc[p] = "semget" /\ exists
    /\ Goto(p, IF good THEN "stat" ELSE "semop")
    /\ UNCHANGED <<exists, semval, sem_otime, j, histVars>>

SetVal(p) ==
    /\ pc[p] = "setval"
    /\ semval' = 0
    /\ lost' = {q \in Procs : pc[q] = "exit"} /\ undone' = done
    /\ Goto(p, IF good THEN "noop" ELSE "semop")
    /\ UNCHANGED <<exists, sem_otime, j, done>>

(* The null operation: waits for the value to be zero, sets sem_otime. *)
NullOp(p) ==
    /\ pc[p] = "noop" /\ semval = 0
    /\ sem_otime' = TRUE
    /\ Goto(p, "semop")
    /\ UNCHANGED <<exists, semval, j, histVars>>

(* Mutant: the identifier is enough. *)
StatIgnored(p) ==
    /\ pc[p] = "stat"
    /\ Goto(p, "semop")
    /\ UNCHANGED <<exists, semval, sem_otime, j, histVars>>

(* One turn of the polling loop. *)
Stat(p) ==
    /\ pc[p] = "stat"
    /\ IF sem_otime
       THEN Goto(p, "semop") /\ UNCHANGED j
       ELSE /\ j' = [j EXCEPT ![p] = @ + 1]
            /\ Goto(p, IF j[p] + 1 = MAX_TRIES THEN "fatal" ELSE "stat")
    /\ UNCHANGED <<exists, semval, sem_otime, histVars>>

(* The operation asked for: a negative one waits, zero waits for zero. *)
DoOp(p) ==
    /\ pc[p] = "semop"
    /\ IF Op(p) = 0 THEN semval = 0 ELSE semval + Op(p) >= 0
    /\ semval' = semval + Op(p) /\ done' = done + Op(p)
    /\ sem_otime' = TRUE
    /\ Goto(p, "exit")
    /\ UNCHANGED <<exists, j, lost, undone>>

(* The creator may be killed before it has initialized the semaphore. *)
Killed(p) ==
    /\ pc[p] \in {"setval", "noop"}
    /\ Goto(p, "killed")
    /\ UNCHANGED <<exists, semval, sem_otime, j, histVars>>

Step(p) == Create(p) \/ Find(p) \/ SetVal(p) \/ NullOp(p) \/ Stat(p) \/ DoOp(p)
Next == \E p \in Procs : Step(p) \/ Killed(p)
Spec == Init /\ [][Next]_vars

-----------------------------------------------------------------------------
TypeOK ==
    /\ exists \in BOOLEAN /\ semval \in Nat /\ sem_otime \in BOOLEAN
    /\ pc \in [Procs -> {"semget", "setval", "noop", "stat", "semop",
                         "exit", "fatal", "killed"}]
    /\ j \in [Procs -> 0 .. MAX_TRIES]
    /\ done \in Int /\ undone \in Int /\ lost \subseteq Procs

(* The value of the semaphore is the sum of the operations that were done: none is lost
   under a late SETVAL and none starts from the garbage of creation. With svsem_bad_init,
   where others go on before the creator reaches SETVAL, their operations are lost, and no
   others; a creator that is killed leaves the garbage. *)
NoLostOp ==
    /\ good /\ (\E p \in Procs : pc[p] \in {"semop", "exit"}) =>
          lost = {} /\ semval = done
    /\ ~good /\ exists /\ (\A p \in Procs : pc[p] \notin {"setval", "killed"}) =>
          semval = done - undone

(* The null operation of the creator never waits, since nobody can have changed
   the value that it has just set. *)
NullOpNeverWaits == \A p \in Procs : pc[p] = "noop" => semval = 0

(* In the end nobody polls: each process does its operation, reports the set as not
   initialized or is killed, also if the creator dies; a process may still wait
   in semop() for a value nobody provides. *)
Settles ==
    \A p \in Procs :
        pc[p] \in {"exit", "fatal", "killed"} \/ (pc[p] = "semop" /\ Op(p) <= 0)

(* A process gives up only when the creator has not finished, or was killed. *)
FatalMeansLate ==
    [][\A p \in Procs : pc[p] = "stat" /\ pc'[p] = "fatal" =>
          \E q \in Procs : pc[q] \in {"setval", "noop", "killed"}]_vars

-----------------------------------------------------------------------------
(* The creator, so long as it has not finished. *)
Initializing(p) == pc[p] \in {"setval", "noop", "killed"}

(* Why: there is one creator at most; until it has finished, the others of svsem_good_init
   stay before their semop(), and sem_otime tells them when it has. *)
CreatorInv ==
    /\ \A p \in lost : pc[p] = "exit"
    /\ ~exists => ~sem_otime /\ done = 0 /\ lost = {} /\ \A p \in Procs : pc[p] = "semget"
    /\ \A p, q \in Procs : Initializing(p) /\ Initializing(q) => p = q
    /\ \A p \in Procs : pc[p] \in {"semget", "stat"} => j[p] < MAX_TRIES
    /\ ~good => \A p \in Procs : pc[p] \notin {"noop", "stat", "fatal"}
    /\ good => /\ lost = {}
               /\ \A p \in Procs : Initializing(p) =>
                     /\ ~sem_otime /\ done = 0
                     /\ \A q \in Procs \ {p} : pc[q] \in {"semget", "stat", "fatal"}
               /\ exists /\ (\A p \in Procs : ~Initializing(p)) =>
                     sem_otime /\ semval = done
Inv == TypeOK /\ good \in BOOLEAN /\ CreatorInv /\ NoLostOp /\ NullOpNeverWaits
=============================================================================
