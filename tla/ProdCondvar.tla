---------------------------- MODULE ProdCondvar ----------------------------
(***************************************************************************)
(* threads/prod_condvar.c: producer threads add units to 'avail' under a   *)
(* mutex and signal a condition variable after they have unlocked it; the  *)
(* main thread waits on the condition variable and consumes the units. In  *)
(* threads/prod_no_condvar.c it polls 'avail' instead.                     *)
(***************************************************************************)
EXTENDS Integers, FiniteSets, Functions

CONSTANTS
    Producers,  \* one thread per command-line argument
    Cnt,        \* units each producer makes (atoi of its argument)
    Main,       \* the consumer
    Nobody      \* the mutex is free

VARIABLES
    polls,          \* prod_no_condvar is the program that runs
    mtx,            \* the thread that has locked the mutex, or Nobody
    waiting,        \* main waits on 'cond'
    avail, numConsumed, done,
    left,           \* per producer: units still to make
    pc              \* where each thread is

units == <<avail, numConsumed, done, left>>
vars == <<polls, mtx, waiting, units, pc>>

Threads == Producers \cup {Main}

totRequired == SumFunctionOnSet(Cnt, Producers)

Init ==
    /\ polls \in BOOLEAN
    /\ mtx = Nobody /\ waiting = FALSE
    /\ avail = 0 /\ numConsumed = 0 /\ done = FALSE
    /\ left = Cnt
    /\ pc = [t \in Threads |-> IF t = Main THEN "create" ELSE "notCreated"]

Go(t, from, to) == pc[t] = from /\ pc' = [pc EXCEPT ![t] = to] /\ UNCHANGED polls

(* pthread_mutex_lock() and pthread_mutex_unlock() *)
Lock(t) == mtx = Nobody /\ mtx' = t
Unlock(t) == mtx = t /\ mtx' = Nobody

-----------------------------------------------------------------------------
(* threadFunc() *)

ProducerLock(p) ==
    /\ left[p] > 0 /\ Lock(p)
    /\ Go(p, "loop", "produce") /\ UNCHANGED <<waiting, units>>

ProducerProduce(p) ==
    /\ avail' = avail + 1
    /\ left' = [left EXCEPT ![p] = @ - 1]
    /\ Go(p, "produce", "unlock") /\ UNCHANGED <<mtx, waiting, numConsumed, done>>

ProducerUnlock(p) ==
    /\ Unlock(p) /\ ~polls
    /\ Go(p, "unlock", "signal") /\ UNCHANGED <<waiting, units>>

(* In prod_no_condvar nobody is signalled. *)
PolledProducerUnlock(p) ==
    /\ Unlock(p) /\ polls
    /\ Go(p, "unlock", "loop") /\ UNCHANGED <<waiting, units>>

(* Mutant: the consumer is not woken. *)
ProducerNoSignal(p) == Go(p, "signal", "loop") /\ UNCHANGED <<mtx, waiting, units>>

(* pthread_cond_signal() wakes main if it waits. *)
ProducerSignal(p) ==
    /\ waiting' = FALSE
    /\ Go(p, "signal", "loop") /\ UNCHANGED <<mtx, units>>

ProducerReturn(p) ==
    /\ left[p] = 0
    /\ Go(p, "loop", "returned") /\ UNCHANGED <<mtx, waiting, units>>

-----------------------------------------------------------------------------
(* main() *)

Create(p) ==
    /\ pc[Main] = "create" /\ pc[p] = "notCreated"
    /\ pc' = [pc EXCEPT ![p] = "loop",
                        ![Main] = IF \E q \in Producers \ {p} : pc[q] = "notCreated"
                                  THEN "create" ELSE "lock"]
    /\ UNCHANGED <<polls, mtx, waiting, units>>

ConsumerLock == Lock(Main) /\ Go(Main, "lock", "test") /\ UNCHANGED <<waiting, units>>

(* pthread_cond_wait() releases the mutex and waits, in one step. *)
ConsumerWait ==
    /\ avail = 0 /\ ~polls
    /\ Unlock(Main) /\ waiting' = TRUE
    /\ Go(Main, "test", "wait") /\ UNCHANGED units

(* The wait may also end without a signal. *)
SpuriousWakeup == waiting /\ waiting' = FALSE /\ UNCHANGED <<polls, mtx, units, pc>>

ConsumerRelock ==
    /\ ~waiting /\ Lock(Main)
    /\ Go(Main, "wait", "test") /\ UNCHANGED <<waiting, units>>

(* prod_no_condvar finds nothing to consume. *)
ConsumerPolls ==
    /\ avail = 0 /\ polls
    /\ Go(Main, "test", "unlock") /\ UNCHANGED <<mtx, waiting, units>>

(* Mutant: the last unit is not waited for. *)
ConsumerConsumeOffByOne ==
    /\ avail > 0
    /\ numConsumed' = numConsumed + 1 /\ avail' = avail - 1
    /\ done' = (numConsumed' >= totRequired - 1)
    /\ Go(Main, "test", IF avail' = 0 THEN "unlock" ELSE "test")
    /\ UNCHANGED <<mtx, waiting, left>>

ConsumerConsume ==
    /\ avail > 0
    /\ numConsumed' = numConsumed + 1 /\ avail' = avail - 1
    /\ done' = (numConsumed' >= totRequired)
    /\ Go(Main, "test", IF avail' = 0 THEN "unlock" ELSE "test")
    /\ UNCHANGED <<mtx, waiting, left>>

ConsumerUnlock ==
    /\ Unlock(Main)
    /\ Go(Main, "unlock", IF done THEN "exit" ELSE "lock") /\ UNCHANGED <<waiting, units>>

-----------------------------------------------------------------------------
Producer(p) ==
    \/ ProducerLock(p) \/ ProducerProduce(p) \/ ProducerUnlock(p)
    \/ PolledProducerUnlock(p) \/ ProducerSignal(p) \/ ProducerReturn(p)

Consumer ==
    \/ \E p \in Producers : Create(p)
    \/ ConsumerLock \/ ConsumerWait \/ ConsumerRelock \/ ConsumerPolls
    \/ ConsumerConsume \/ ConsumerUnlock

(* exit() ends the producers too. *)
Exited == pc[Main] = "exit"

Next == ~Exited /\ (Consumer \/ SpuriousWakeup \/ \E p \in Producers : Producer(p))

Spec == Init /\ [][Next]_vars

-----------------------------------------------------------------------------
(* Types, and the mutex is locked by the thread that is between lock and
   unlock, and by no other. *)
TypeOK ==
    /\ mtx \in Threads \cup {Nobody} /\ waiting \in BOOLEAN
    /\ avail \in Nat /\ numConsumed \in Nat /\ done \in BOOLEAN
    /\ left \in [Producers -> Nat]
    /\ \A t \in Threads : mtx = t <=> pc[t] \in {"produce", "unlock", "test"}

(* The program implements UnitStream: units are neither lost nor consumed
   twice, and the consumer ends its loop only when all have been consumed. *)
Stream == INSTANCE UnitStream WITH finished <- pc[Main] = "exit"
StreamSpec == Stream!Spec

(* No wakeup is lost: although the producers signal after they have unlocked
   the mutex, the consumer gets all the units and in the end the program has exited.
   (It does not end if no unit is asked for: 'done' is only set by consuming one.) *)
Termination == totRequired > 0 => Exited

-----------------------------------------------------------------------------
(* Why: a unit is still to be made, available or consumed, and 'done' means that all are
   consumed. *)
PlacesInv ==
    /\ pc \in [Threads -> {"create", "lock", "test", "wait", "unlock", "exit",
                           "notCreated", "loop", "produce", "signal", "returned"}]
    /\ \A p \in Producers : pc[p] = "produce" => left[p] > 0
UnitsInv ==
    /\ numConsumed + avail + SumFunctionOnSet(left, Producers) = totRequired
    /\ done => numConsumed >= totRequired
Inv == TypeOK /\ PlacesInv /\ UnitsInv
=============================================================================
