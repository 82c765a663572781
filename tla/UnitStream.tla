----------------------------- MODULE UnitStream -----------------------------
(***************************************************************************)
(* What threads/prod_condvar.c and threads/prod_no_condvar.c promise: the  *)
(* producers make the units asked for, the consumer takes each of them     *)
(* once, and the program ends when all the units have been consumed.       *)
(***************************************************************************)
EXTENDS Integers

CONSTANTS Producers, Cnt

VARIABLES
    left,           \* units each producer has still to make
    avail,          \* units made and not consumed
    numConsumed,
    finished

Init ==
    /\ left = Cnt
    /\ avail = 0
    /\ numConsumed = 0
    /\ finished = FALSE

Produce(p) ==
    /\ left[p] > 0
    /\ left' = [left EXCEPT ![p] = @ - 1]
    /\ avail' = avail + 1
    /\ UNCHANGED <<numConsumed, finished>>

Consume ==
    /\ avail > 0
    /\ avail' = avail - 1
    /\ numConsumed' = numConsumed + 1
    /\ UNCHANGED <<left, finished>>

Finish ==
    /\ avail = 0 /\ \A p \in Producers : left[p] = 0
    /\ finished' = TRUE
    /\ UNCHANGED <<left, avail, numConsumed>>

Next == (\E p \in Producers : Produce(p)) \/ Consume \/ Finish

Spec == Init /\ [][Next]_<<left, avail, numConsumed, finished>>
=============================================================================
