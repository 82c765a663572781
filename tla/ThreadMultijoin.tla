-------------------------- MODULE ThreadMultijoin --------------------------
(***************************************************************************)
(* threads/thread_multijoin.c: the main thread joins its threads in the    *)
(* order in which they terminate. A thread announces its termination under *)
(* the mutex, unlocks, signals 'threadDied' and returns; main joins with   *)
(* the announced threads while it holds the mutex.                         *)
(***************************************************************************)
EXTENDS Integers, FiniteSets

CONSTANT N      \* number of threads: argc - 1

VARIABLES
    threadMutex,    \* the thread holding it; Main; or Nobody
    signalled,      \* main waits on threadDied and has been woken
    numLive, numUnjoined,
    state,          \* thread[idx].state
    tpc,            \* where each thread is
    mpc, idx        \* where main is, and its loop variable

vars == <<threadMutex, signalled, numLive, numUnjoined, state, tpc, mpc, idx>>

Thread == 0..(N - 1)
Main == N
Nobody == N + 1

Lock(t) == threadMutex = Nobody /\ threadMutex' = t
Unlock(t) == threadMutex = t /\ threadMutex' = Nobody

Init ==
    /\ threadMutex = Nobody
    /\ signalled = FALSE
    /\ numLive = 0 /\ numUnjoined = 0
    /\ state = [t \in Thread |-> "none"]
    /\ tpc = [t \in Thread |-> "none"]
    /\ mpc = "create" /\ idx = 0

-----------------------------------------------------------------------------
(* threadFunc() *)

ThreadLock(t) ==
    /\ tpc[t] = "work"
    /\ Lock(t)
    /\ tpc' = [tpc EXCEPT ![t] = "announce"]
    /\ UNCHANGED <<signalled, numLive, numUnjoined, state, mpc, idx>>

(* Mutant: the mutex is still locked when the thread signals. *)
ThreadAnnounceLocked(t) ==
    /\ tpc[t] = "announce"
    /\ numUnjoined' = numUnjoined + 1
    /\ state' = [state EXCEPT ![t] = "TS_TERMINATED"]
    /\ tpc' = [tpc EXCEPT ![t] = "signal"]
    /\ UNCHANGED <<threadMutex, signalled, numLive, mpc, idx>>

ThreadAnnounce(t) ==
    /\ tpc[t] = "announce"
    /\ numUnjoined' = numUnjoined + 1
    /\ state' = [state EXCEPT ![t] = "TS_TERMINATED"]
    /\ Unlock(t)
    /\ tpc' = [tpc EXCEPT ![t] = "signal"]
    /\ UNCHANGED <<signalled, numLive, mpc, idx>>

ThreadSignal(t) ==
    /\ tpc[t] = "signal"
    /\ signalled' = (signalled \/ mpc = "waiting")
    /\ tpc' = [tpc EXCEPT ![t] = "returned"]
    /\ UNCHANGED <<threadMutex, numLive, numUnjoined, state, mpc, idx>>

-----------------------------------------------------------------------------
(* main() *)

Create ==
    /\ mpc = "create"
    /\ state' = [state EXCEPT ![idx] = "TS_ALIVE"]
    /\ tpc' = [tpc EXCEPT ![idx] = "work"]
    /\ idx' = idx + 1
    /\ mpc' = IF idx' = N THEN "loop" ELSE "create"
    /\ numLive' = IF idx' = N THEN N ELSE 0
    /\ UNCHANGED <<threadMutex, signalled, numUnjoined>>

MainLock ==
    /\ mpc = "loop" /\ numLive > 0
    /\ Lock(Main)
    /\ mpc' = "test"
    /\ UNCHANGED <<signalled, numLive, numUnjoined, state, tpc, idx>>

CondWait ==
    /\ mpc = "test" /\ numUnjoined = 0
    /\ Unlock(Main)
    /\ signalled' = FALSE
    /\ mpc' = "waiting"
    /\ UNCHANGED <<numLive, numUnjoined, state, tpc, idx>>

(* pthread_cond_wait() may also return without a signal. *)
SpuriousWakeup ==
    /\ mpc = "waiting" /\ ~signalled
    /\ signalled' = TRUE
    /\ UNCHANGED <<threadMutex, numLive, numUnjoined, state, tpc, mpc, idx>>

Relock ==
    /\ mpc = "waiting" /\ signalled
    /\ Lock(Main)
    /\ mpc' = "test"
    /\ UNCHANGED <<signalled, numLive, numUnjoined, state, tpc, idx>>

StartScan ==
    /\ mpc = "test" /\ numUnjoined > 0
    /\ mpc' = "scan"
    /\ idx' = 0
    /\ UNCHANGED <<threadMutex, signalled, numLive, numUnjoined, state, tpc>>

Skip ==
    /\ mpc = "scan" /\ idx < N /\ state[idx] # "TS_TERMINATED"
    /\ idx' = idx + 1
    /\ UNCHANGED <<threadMutex, signalled, numLive, numUnjoined, state, tpc, mpc>>

(* pthread_join() waits until the thread has returned. *)
Join ==
    /\ mpc = "scan" /\ idx < N /\ state[idx] = "TS_TERMINATED"
    /\ tpc[idx] = "returned"
    /\ state' = [state EXCEPT ![idx] = "TS_JOINED"]
    /\ numLive' = numLive - 1
    /\ numUnjoined' = numUnjoined - 1
    /\ idx' = idx + 1
    /\ UNCHANGED <<threadMutex, signalled, tpc, mpc>>

MainUnlock ==
    /\ mpc = "scan" /\ idx = N
    /\ Unlock(Main)
    /\ mpc' = "loop"
    /\ UNCHANGED <<signalled, numLive, numUnjoined, state, tpc, idx>>

Exit ==
    /\ mpc = "loop" /\ numLive = 0
    /\ mpc' = "exited"
    /\ UNCHANGED <<threadMutex, signalled, numLive, numUnjoined, state, tpc, idx>>

-----------------------------------------------------------------------------
MainThread ==
    \/ Create \/ MainLock \/ CondWait \/ Relock
    \/ StartScan \/ Skip \/ Join \/ MainUnlock \/ Exit

ThreadFunc(t) == ThreadLock(t) \/ ThreadAnnounce(t) \/ ThreadSignal(t)

Next ==
    \/ MainThread \/ SpuriousWakeup
    \/ \E t \in Thread : ThreadFunc(t)

Spec == Init /\ [][Next]_vars

-----------------------------------------------------------------------------
(* Types. *)
TypeOK ==
    /\ threadMutex \in Thread \cup {Main, Nobody}
    /\ signalled \in BOOLEAN
    /\ numLive \in 0..N /\ numUnjoined \in 0..N
    /\ state \in [Thread -> {"none", "TS_ALIVE", "TS_TERMINATED", "TS_JOINED"}]
    /\ tpc \in [Thread -> {"none", "work", "announce", "signal", "returned"}]
    /\ mpc \in {"create", "loop", "test", "waiting", "scan", "exited"}
    /\ idx \in 0..N

(* The counters agree with the thread table, at every step: the announced
   threads are the ones numUnjoined counts, and numLive the ones not joined.
   Were numUnjoined ever too large, main would spin; too small, it would wait
   for ever. *)
CountersMatchTable ==
    /\ numUnjoined = Cardinality({t \in Thread : state[t] = "TS_TERMINATED"})
    /\ mpc # "create" => numLive = Cardinality({t \in Thread : state[t] # "TS_JOINED"})

(* Joining while the mutex is locked is safe: main never waits in pthread_join() for a thread
   that still needs the mutex, since one it may join has announced itself and has given the
   mutex back. *)
AnnouncedIsFree ==
    \A t \in Thread : state[t] = "TS_TERMINATED" => tpc[t] \in {"signal", "returned"} /\ threadMutex # t

(* In the end every thread is joined, and the program has exited. *)
AllJoined == mpc = "exited" /\ \A t \in Thread : state[t] = "TS_JOINED"

-----------------------------------------------------------------------------
Terminated == {t \in Thread : state[t] = "TS_TERMINATED"}
Unjoined == {t \in Thread : state[t] # "TS_JOINED"}

(* Why: the state in the table follows the place of each thread, and so does the mutex. *)
TableInv ==
    \A t \in Thread :
        /\ tpc[t] = "none" <=> state[t] = "none"
        /\ tpc[t] \in {"work", "announce"} <=> state[t] = "TS_ALIVE"
        /\ tpc[t] = "signal" => state[t] = "TS_TERMINATED"
        /\ tpc[t] = "announce" <=> threadMutex = t
MutexInv == mpc \in {"test", "scan"} <=> threadMutex = Main
CreateInv ==
    mpc = "create" =>
        /\ idx < N /\ numLive = 0
        /\ \A t \in Thread : state[t] # "TS_JOINED" /\ (t >= idx => state[t] = "none")
Inv == TypeOK /\ CountersMatchTable /\ TableInv /\ MutexInv /\ CreateInv
=============================================================================
