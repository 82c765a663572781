----------------------------- MODULE ThreadIncr -----------------------------
(***************************************************************************)
(* threads/thread_incr.c and its four corrected versions: two threads      *)
(* increment 'glob' in two steps, a load and a store, unprotected or under *)
(* a mutex, a read-write lock, a spin lock or a POSIX semaphore.           *)
(***************************************************************************)
EXTENDS Integers, TLAPS

CONSTANTS
    Programs,   \* the programs of this instance
    loops       \* command-line argument, > 0

Known == {"thread_incr", "thread_incr_mutex", "thread_incr_rwlock",
          "thread_incr_spinlock", "thread_incr_psem"}

ASSUME ProgramsAssumption == Programs \subseteq Known
ASSUME LoopsAssumption == loops \in Nat \ {0}

VARIABLES
    prog,       \* the program that runs
    glob,
    owner,      \* thread that holds the mutex or lock; 0 if it is free
    sem,        \* value of the semaphore of thread_incr_psem.c
    loc, j,     \* the local variables of each thread
    pc

vars == <<prog, glob, owner, sem, loc, j, pc>>

Threads == {1, 2}

At(t, l) == pc[t] = l /\ j[t] < loops
Goto(t, l) == pc' = [pc EXCEPT ![t] = l]

Init ==
    /\ prog \in Programs
    /\ glob = 0
    /\ owner = 0
    /\ sem = 1
    /\ loc = [t \in Threads |-> 0]
    /\ j = [t \in Threads |-> 0]
    /\ pc = [t \in Threads |-> "enter"]

-----------------------------------------------------------------------------
(* Entering and leaving the critical section *)

EnterUnprotected(t) ==
    /\ prog = "thread_incr"
    /\ At(t, "enter")
    /\ Goto(t, "load")
    /\ UNCHANGED <<prog, glob, owner, sem, loc, j>>

MutexLock(t) ==
    /\ prog = "thread_incr_mutex"
    /\ At(t, "enter") /\ owner = 0
    /\ owner' = t
    /\ Goto(t, "load")
    /\ UNCHANGED <<prog, glob, sem, loc, j>>

WrLock(t) ==
    /\ prog = "thread_incr_rwlock"
    /\ At(t, "enter") /\ owner = 0
    /\ owner' = t
    /\ Goto(t, "load")
    /\ UNCHANGED <<prog, glob, sem, loc, j>>

SpinLock(t) ==
    /\ prog = "thread_incr_spinlock"
    /\ At(t, "enter") /\ owner = 0
    /\ owner' = t
    /\ Goto(t, "load")
    /\ UNCHANGED <<prog, glob, sem, loc, j>>

SemWait(t) ==
    /\ prog = "thread_incr_psem"
    /\ At(t, "enter") /\ sem > 0
    /\ sem' = sem - 1
    /\ Goto(t, "load")
    /\ UNCHANGED <<prog, glob, owner, loc, j>>

(* Mutant: the lock covers only the load. *)
LoadAndUnlock(t) ==
    /\ At(t, "load")
    /\ loc' = [loc EXCEPT ![t] = glob]
    /\ owner' = 0
    /\ Goto(t, "store")
    /\ UNCHANGED <<prog, glob, sem, j>>

Load(t) ==
    /\ At(t, "load")
    /\ loc' = [loc EXCEPT ![t] = glob]
    /\ Goto(t, "store")
    /\ UNCHANGED <<prog, glob, owner, sem, j>>

Store(t) ==
    /\ At(t, "store")
    /\ glob' = loc[t] + 1
    /\ Goto(t, "leave")
    /\ UNCHANGED <<prog, owner, sem, loc, j>>

LeaveUnprotected(t) ==
    /\ prog = "thread_incr"
    /\ At(t, "leave")
    /\ j' = [j EXCEPT ![t] = @ + 1]
    /\ Goto(t, "enter")
    /\ UNCHANGED <<prog, glob, owner, sem, loc>>

(* pthread_mutex_unlock(), pthread_rwlock_unlock(), pthread_spin_unlock() *)
Unlock(t) ==
    /\ prog \in {"thread_incr_mutex", "thread_incr_rwlock", "thread_incr_spinlock"}
    /\ At(t, "leave")
    /\ owner' = 0
    /\ j' = [j EXCEPT ![t] = @ + 1]
    /\ Goto(t, "enter")
    /\ UNCHANGED <<prog, glob, sem, loc>>

SemPost(t) ==
    /\ prog = "thread_incr_psem"
    /\ At(t, "leave")
    /\ sem' = sem + 1
    /\ j' = [j EXCEPT ![t] = @ + 1]
    /\ Goto(t, "enter")
    /\ UNCHANGED <<prog, glob, owner, loc>>

-----------------------------------------------------------------------------
ThreadFunc(t) ==
    \/ EnterUnprotected(t) \/ MutexLock(t) \/ WrLock(t) \/ SpinLock(t) \/ SemWait(t)
    \/ Load(t) \/ Store(t)
    \/ LeaveUnprotected(t) \/ Unlock(t) \/ SemPost(t)

(* main() has joined both threads and prints glob. *)
Joined == \A t \in Threads : j[t] = loops

Next == (\E t \in Threads : ThreadFunc(t)) \/ (Joined /\ UNCHANGED vars)

Spec == Init /\ [][Next]_vars

-----------------------------------------------------------------------------
(* Types. *)
TypeOK ==
    /\ prog \in Programs
    /\ glob \in Nat
    /\ owner \in Threads \cup {0}
    /\ sem \in {0, 1}
    /\ loc \in [Threads -> Nat]
    /\ j \in [Threads -> 0..loops]
    /\ pc \in [Threads -> {"enter", "load", "store", "leave"}]

(* With any of the locks, no increment is lost: main prints 2 * loops. *)
NoLostUpdate == prog # "thread_incr" /\ Joined => glob = 2 * loops

(* Without one, updates are lost, and far more than intuition says: all but
   two may be, however large 'loops' is, but never more. *)
AtLeastTwo ==
    prog = "thread_incr" /\ Joined => glob >= (IF loops = 1 THEN 1 ELSE 2) /\ glob <= 2 * loops

(* What main() of the five programs prints: exact with a lock, at least two without. *)
UpdatesExact == TypeOK /\ NoLostUpdate /\ AtLeastTwo

-----------------------------------------------------------------------------
(* For every number of loops: no update is lost under a lock, and without one at least two
   survive. *)
InSection(t) == pc[t] \in {"load", "store", "leave"}

(* Stores made so far by one thread. *)
Stores(t) == j[t] + (IF pc[t] = "leave" THEN 1 ELSE 0)

(* A thread is in its loop only while j < loops. *)
LoopInv == \A t \in Threads : InSection(t) => j[t] < loops

(* What the lock in use says about who is in the critical section. *)
LockInv ==
    /\ prog \in {"thread_incr_mutex", "thread_incr_rwlock", "thread_incr_spinlock"} =>
          \A t \in Threads : InSection(t) => owner = t
    /\ prog = "thread_incr_psem" =>
          /\ \A t \in Threads : InSection(t) => sem = 0
          /\ ~(InSection(1) /\ InSection(2))

(* Under a lock, glob counts the stores, and a loaded value is current. *)
ExactInv ==
    prog \in Known \ {"thread_incr"} =>
        /\ glob = Stores(1) + Stores(2)
        /\ \A t \in Threads : pc[t] = "store" => loc[t] = glob

(* In every program, glob is at most the number of stores, and a thread that
   has stored once never again loads 0. *)
BoundInv ==
    /\ glob <= Stores(1) + Stores(2)
    /\ \A t \in Threads : pc[t] = "store" => loc[t] <= Stores(1) + Stores(2)
    /\ \A t \in Threads : Stores(t) > 0 => glob > 0
    /\ \A t \in Threads : pc[t] = "store" /\ j[t] > 0 => loc[t] > 0
    /\ loops > 1 /\ Stores(1) = loops /\ Stores(2) = loops => glob > 1

Inv == TypeOK /\ LoopInv /\ LockInv /\ ExactInv /\ BoundInv

(* The invariant holds initially. *)
LEMMA InitInv == Init => Inv
BY LoopsAssumption, ProgramsAssumption
   DEF Init, Inv, TypeOK, LoopInv, LockInv, ExactInv, BoundInv, Stores, InSection, Threads

(* Every step of a thread, and the end of main, preserves the invariant. *)
LEMMA StepInv == Inv /\ [Next]_vars => Inv'
<1> SUFFICES ASSUME Inv, [Next]_vars PROVE Inv'
    OBVIOUS
<1> USE LoopsAssumption, ProgramsAssumption
    DEF Inv, TypeOK, LoopInv, LockInv, ExactInv, BoundInv, Stores, InSection, Threads, Known,
        At, Goto
<1>1. ASSUME NEW t \in Threads, EnterUnprotected(t) PROVE Inv'
    BY <1>1 DEF EnterUnprotected
<1>2. ASSUME NEW t \in Threads, MutexLock(t) PROVE Inv'
    BY <1>2 DEF MutexLock
<1>3. ASSUME NEW t \in Threads, WrLock(t) PROVE Inv'
    BY <1>3 DEF WrLock
<1>4. ASSUME NEW t \in Threads, SpinLock(t) PROVE Inv'
    BY <1>4 DEF SpinLock
<1>5. ASSUME NEW t \in Threads, SemWait(t) PROVE Inv'
    BY <1>5 DEF SemWait
<1>6. ASSUME NEW t \in Threads, Load(t) PROVE Inv'
    BY <1>6 DEF Load
<1>7. ASSUME NEW t \in Threads, Store(t) PROVE Inv'
    BY <1>7 DEF Store
<1>8. ASSUME NEW t \in Threads, LeaveUnprotected(t) PROVE Inv'
    BY <1>8 DEF LeaveUnprotected
<1>9. ASSUME NEW t \in Threads, Unlock(t) PROVE Inv'
    BY <1>9 DEF Unlock
<1>10. ASSUME NEW t \in Threads, SemPost(t) PROVE Inv'
    BY <1>10 DEF SemPost
<1>11. CASE UNCHANGED vars
    BY <1>11 DEF vars
<1> QED
    BY <1>1, <1>2, <1>3, <1>4, <1>5, <1>6, <1>7, <1>8, <1>9, <1>10, <1>11
    DEF Next, ThreadFunc

(* The invariant holds throughout. *)
LEMMA InvAlways == Spec => []Inv
BY InitInv, StepInv, PTL DEF Spec

(* The variables of the five programs keep their types. *)
THEOREM TypeCorrect == Spec => []TypeOK
<1>1. Inv => TypeOK
    BY DEF Inv
<1> QED
    BY InvAlways, <1>1, PTL

(* With a mutex, read-write lock, spin lock or semaphore, main prints exactly
   2 * loops, for every value of loops. *)
THEOREM Exactness == Spec => []NoLostUpdate
<1>1. Inv => NoLostUpdate
    BY LoopsAssumption, ProgramsAssumption
    DEF Inv, TypeOK, LoopInv, ExactInv, NoLostUpdate, Joined, Stores, InSection, Threads, Known
<1> QED
    BY InvAlways, <1>1, PTL

(* Without a lock, at least two of the 2 * loops increments survive. *)
THEOREM Survivors == Spec => []AtLeastTwo
<1>1. Inv => AtLeastTwo
    BY LoopsAssumption
    DEF Inv, TypeOK, LoopInv, BoundInv, AtLeastTwo, Joined, Stores, InSection, Threads
<1> QED
    BY InvAlways, <1>1, PTL

(* What main() prints in each of the five programs, for every value of loops. *)
THEOREM Safety == Spec => []UpdatesExact
<1>1. TypeOK /\ NoLostUpdate /\ AtLeastTwo => UpdatesExact
    BY DEF UpdatesExact
<1> QED
    BY <1>1, TypeCorrect, Exactness, Survivors, PTL
=============================================================================
