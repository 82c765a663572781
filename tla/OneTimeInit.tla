---------------------------- MODULE OneTimeInit -----------------------------
(***************************************************************************)
(* threads/one_time_init.c: pthread_once() made from a mutex and a flag.   *)
(* Any number of threads call one_time_init() any number of times.         *)
(***************************************************************************)
EXTENDS Integers, FiniteSets

CONSTANTS
    Threads, None,
    Calls        \* calls of one_time_init() by each thread (2 in threadFunc())

VARIABLES
    mtx,         \* the thread that holds once.mtx, or None
    called,      \* once.called
    pc,          \* per thread: "ready", "test", "init", "set", "unlock", "joined"
    calls,       \* per thread: calls that have returned
    inits,       \* times init_func() was entered
    initDone     \* init_func() has returned

vars == <<mtx, called, pc, calls, inits, initDone>>

Init ==
    /\ mtx = None /\ called = FALSE
    /\ pc = [t \in Threads |-> "ready"] /\ calls = [t \in Threads |-> 0]
    /\ inits = 0 /\ initDone = FALSE

Lock(t) ==
    /\ pc[t] = "ready" /\ calls[t] < Calls
    /\ mtx = None
    /\ mtx' = t
    /\ pc' = [pc EXCEPT ![t] = "test"]
    /\ UNCHANGED <<called, calls, inits, initDone>>

Test(t) ==
    /\ pc[t] = "test"
    /\ pc' = [pc EXCEPT ![t] = IF called THEN "unlock" ELSE "init"]
    /\ UNCHANGED <<mtx, called, calls, inits, initDone>>

(* Mutant: the flag is set before the call of init. *)
CallInitFlagged(t) ==
    /\ pc[t] = "init"
    /\ inits' = inits + 1
    /\ called' = TRUE /\ mtx' = None
    /\ pc' = [pc EXCEPT ![t] = "set"]
    /\ UNCHANGED <<calls, initDone>>

(* init_func() starts; it returns at the next step. *)
CallInit(t) ==
    /\ pc[t] = "init"
    /\ inits' = inits + 1
    /\ pc' = [pc EXCEPT ![t] = "set"]
    /\ UNCHANGED <<mtx, called, calls, initDone>>

SetCalled(t) ==
    /\ pc[t] = "set"
    /\ initDone' = TRUE
    /\ called' = TRUE
    /\ pc' = [pc EXCEPT ![t] = "unlock"]
    /\ UNCHANGED <<mtx, calls, inits>>

Unlock(t) ==
    /\ pc[t] = "unlock"
    /\ mtx' = None
    /\ calls' = [calls EXCEPT ![t] = @ + 1]
    /\ pc' = [pc EXCEPT ![t] = "ready"]
    /\ UNCHANGED <<called, inits, initDone>>

(* pthread_join() by main(). *)
Join(t) ==
    /\ pc[t] = "ready" /\ calls[t] = Calls
    /\ pc' = [pc EXCEPT ![t] = "joined"]
    /\ UNCHANGED <<mtx, called, calls, inits, initDone>>

one_time_init(t) == Lock(t) \/ Test(t) \/ CallInit(t) \/ SetCalled(t) \/ Unlock(t)

Next == \E t \in Threads : one_time_init(t) \/ Join(t)

Spec == Init /\ [][Next]_vars

-----------------------------------------------------------------------------
TypeOK ==
    /\ mtx \in Threads \cup {None} /\ called \in BOOLEAN /\ initDone \in BOOLEAN
    /\ pc \in [Threads -> {"ready", "test", "init", "set", "unlock", "joined"}]
    /\ calls \in [Threads -> Nat] /\ inits \in Nat

(* "We should see this message only once, no matter how many times one_time_init() is
   called": init_func() is entered at most once. *)
InitOnce == inits <= 1

(* A call of one_time_init() that has returned, in whatever thread, finds the
   initialisation finished, not only begun. *)
ReturnsAfterInit == \A t \in Threads : calls[t] > 0 => initDone

(* In the end all threads have been joined. *)
AllJoined == \A t \in Threads : pc[t] = "joined"

-----------------------------------------------------------------------------
(* The invariant that is inductive: the mutex protects the region from the test to the
   unlock, and the flag, the count and the progress of init_func() agree. *)
InRegion(t) == pc[t] \in {"test", "init", "set", "unlock"}
MutexExact == \A t \in Threads : InRegion(t) <=> mtx = t
Progress ==
    /\ called <=> initDone
    /\ inits = IF called \/ \E t \in Threads : pc[t] = "set" THEN 1 ELSE 0
    /\ \A t \in Threads : pc[t] \in {"init", "set"} => ~called
    /\ \A t \in Threads : pc[t] = "unlock" \/ calls[t] > 0 => called

IInv == TypeOK /\ MutexExact /\ Progress
=============================================================================
