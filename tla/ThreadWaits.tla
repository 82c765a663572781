---------------------------- MODULE ThreadWaits -----------------------------
(***************************************************************************)
(* Threads that wait: for a condition until they are signalled or          *)
(* cancelled (threads/thread_cleanup.c), asleep until they are cancelled   *)
(* (threads/thread_cancel.c), at a barrier (threads/                       *)
(* pthread_barrier_demo.c); and main that waits for a thread while it uses *)
(* what strerror() has returned (threads/strerror_test.c with strerror.c,  *)
(* strerror_tsd.c or strerror_tls.c). One of the programs is run.          *)
(* Cancellation is deferred: it takes place in pthread_cond_wait() and     *)
(* sleep(), and perhaps in printf().                                       *)
(***************************************************************************)
EXTENDS Integers, Sequences, FiniteSets

CONSTANTS N, numBarriers    \* threads of the barrier demo, and how often they pass

VARIABLES
    app,         \* the program; thread_cleanup is run with and without an argument
    tpc,         \* per thread: its next step
    mpc, i,      \* main: its next step, and the thread it has come to
    canceled,    \* threads that pthread_cancel() has been called for
    mtx, glob,   \* thread_cleanup: who holds mtx (-1: nobody), and the predicate
    blocks,      \* thread_cleanup: blocks that are allocated
    arrived,     \* barrier: threads that wait at it
    reached,     \* barrier, per thread: how many times it has called pthread_barrier_wait()
    returns,     \* barrier, per thread: the values that the calls have returned
    bufs         \* strerror: the buffers that exist, with the error whose text is in each

vars == <<app, tpc, mpc, i, canceled, mtx, glob, blocks, arrived, reached, returns, bufs>>
sync == <<mtx, glob, blocks, bufs>>
barrier == <<arrived, reached, returns>>

Threads == 0..(N - 1)
Strerrors == {"strerror", "strerror_tsd", "strerror_tls"}
Apps == {"cancel", "cleanup", "cleanup-signal", "barrier"} \cup Strerrors
numThreads == IF app = "barrier" THEN N ELSE 1

Init ==
    /\ app \in Apps
    /\ tpc = [t \in Threads |-> "none"] /\ mpc = "create" /\ i = 0
    /\ canceled = {} /\ mtx = -1 /\ glob = 0 /\ blocks = 0
    /\ arrived = {} /\ reached = [t \in Threads |-> 0] /\ returns = [t \in Threads |-> << >>]
    /\ bufs = << >>

Goes(t, label) == tpc' = [tpc EXCEPT ![t] = label] /\ UNCHANGED <<app, mpc, i, canceled>>
Ended(t) == tpc[t] \in {"returned", "canceled"}

-----------------------------------------------------------------------------
(* thread_cleanup *)

cleanupHandler == blocks' = blocks - 1 /\ mtx' = -1 /\ UNCHANGED <<glob, bufs>>

(* pthread_cond_wait() unlocks and waits; whether woken or cancelled, it has the mutex
   again before anything else happens. *)
CondWait(t) ==
    /\ \/ tpc[t] = "wait" /\ t \notin canceled /\ mtx' = -1 /\ Goes(t, "waiting")
       \/ tpc[t] = "waiting" /\ t \in canceled /\ UNCHANGED mtx /\ Goes(t, "relock")
       \/ tpc[t] = "relock" /\ mtx = -1 /\ mtx' = t
          /\ Goes(t, IF t \in canceled THEN "cleanup" ELSE "test")
    /\ UNCHANGED <<glob, blocks, bufs>>

SpuriousWakeup(t) ==
    tpc[t] = "waiting" /\ Goes(t, "relock") /\ UNCHANGED <<sync, barrier>>

threadFunc_cleanup(t) ==
    /\ app \in {"cleanup", "cleanup-signal"} /\ UNCHANGED barrier
    /\ \/ tpc[t] = "start" /\ blocks' = blocks + 1 /\ UNCHANGED <<mtx, glob, bufs>> /\ Goes(t, "printf")
       \/ /\ tpc[t] = "printf" /\ UNCHANGED sync
          /\ \/ Goes(t, "lock")
             \/ t \in canceled /\ Goes(t, "canceled")
       \/ /\ tpc[t] = "lock" /\ mtx = -1 /\ mtx' = t
          /\ UNCHANGED <<glob, blocks, bufs>> /\ Goes(t, "test")
       \/ tpc[t] = "test" /\ UNCHANGED sync /\ Goes(t, IF glob = 0 THEN "wait" ELSE "pop")
       \/ CondWait(t)
       \/ tpc[t] = "wait" /\ t \in canceled /\ UNCHANGED sync /\ Goes(t, "cleanup")
       \/ tpc[t] = "cleanup" /\ cleanupHandler /\ Goes(t, "canceled")
       \/ tpc[t] = "pop" /\ cleanupHandler /\ Goes(t, "returned")

-----------------------------------------------------------------------------
(* thread_cancel *)

threadFunc_cancel(t) ==
    /\ app = "cancel" /\ UNCHANGED <<sync, barrier>>
    /\ \/ /\ tpc[t] = "start"
          /\ \/ Goes(t, "sleep")
             \/ t \in canceled /\ Goes(t, "canceled")
       \/ tpc[t] = "sleep" /\ Goes(t, IF t \in canceled THEN "canceled" ELSE "start")

-----------------------------------------------------------------------------
(* pthread_barrier_demo *)

(* The argument of pthread_barrier_init(). *)
Count == N

(* pthread_barrier_wait() returns PTHREAD_BARRIER_SERIAL_THREAD, -1, or 0. *)
Result(u, serial) == IF u = serial THEN -1 ELSE 0

(* pthread_barrier_wait(): the last thread to arrive releases all, one of which, any, is the
   serial thread, and the barrier is as it was at first. *)
BarrierWait(t) ==
    /\ tpc[t] = "start" /\ reached[t] < numBarriers
    /\ reached' = [reached EXCEPT ![t] = @ + 1]
    /\ IF Cardinality(arrived) + 1 < Count
       THEN arrived' = arrived \cup {t} /\ Goes(t, "blocked") /\ UNCHANGED returns
       ELSE \E serial \in arrived \cup {t} :
              /\ arrived' = {}
              /\ tpc' = [u \in Threads |-> IF u \in arrived \cup {t} THEN "released" ELSE tpc[u]]
              /\ returns' = [u \in Threads |->
                    IF u \in arrived \cup {t} THEN Append(returns[u], Result(u, serial)) ELSE returns[u]]
              /\ UNCHANGED <<app, mpc, i, canceled>>

threadFunc_barrier(t) ==
    /\ app = "barrier" /\ UNCHANGED sync
    /\ \/ BarrierWait(t)
       \/ tpc[t] = "released" /\ Goes(t, "start") /\ UNCHANGED barrier
       \/ tpc[t] = "start" /\ reached[t] = numBarriers /\ Goes(t, "returned") /\ UNCHANGED barrier

-----------------------------------------------------------------------------
(* strerror_test; main is thread -1 *)

(* The buffer that strerror() returns: a static one, or one for each thread, which with
   strerror_tsd is allocated at its first call under a key that the first caller creates. *)
Buffer(t) == IF app = "strerror" THEN "static" ELSE <<"thread", t>>

strerror(t, err) ==
    bufs' = [b \in DOMAIN bufs \cup {Buffer(t)} |-> IF b = Buffer(t) THEN err ELSE bufs[b]]

(* The buffers that go with a thread: with strerror_tsd its destructor frees one. *)
destructor(t) ==
    bufs' = [b \in DOMAIN bufs \ (IF app = "strerror" THEN {} ELSE {Buffer(t)}) |-> bufs[b]]

threadFunc_strerror(t) ==
    /\ app \in Strerrors /\ UNCHANGED <<mtx, glob, blocks, barrier>>
    /\ \/ tpc[t] = "start" /\ strerror(t, "EPERM") /\ Goes(t, "printf")
       \/ tpc[t] = "printf" /\ destructor(t) /\ Goes(t, "returned")

-----------------------------------------------------------------------------
(* main. A sleep() that is to let the thread get started guarantees nothing. *)

MainGoes(label) == mpc' = label /\ UNCHANGED <<app, arrived, reached, returns, mtx, blocks>>

(* main() of strerror_test calls strerror() before it creates the thread. *)
main_strerror == IF app \in Strerrors THEN strerror(-1, "EINVAL") ELSE UNCHANGED bufs

Create ==
    /\ mpc = "create" /\ tpc' = [tpc EXCEPT ![i] = "start"]
    /\ main_strerror
    /\ IF i + 1 < numThreads THEN i' = i + 1 /\ MainGoes("create")
       ELSE i' = 0 /\ MainGoes(CASE app \in Strerrors \cup {"barrier"} -> "join" [] app = "cleanup-signal" -> "glob"
                                 [] OTHER -> "cancel")
    /\ UNCHANGED <<canceled, glob>>

Cancel ==
    /\ mpc = "cancel" /\ canceled' = {i} /\ MainGoes("join")
    /\ UNCHANGED <<tpc, i, glob, bufs>>

(* The predicate is set, and signalled, without the mutex. *)
SetGlob ==
    \/ mpc = "glob" /\ glob' = 1 /\ MainGoes("signal") /\ UNCHANGED <<tpc, i, canceled, bufs>>
    \/ /\ mpc = "signal" /\ MainGoes("join")
       /\ tpc' = [t \in Threads |-> IF tpc[t] = "waiting" THEN "relock" ELSE tpc[t]]
       /\ UNCHANGED <<i, canceled, glob, bufs>>

Join ==
    /\ mpc = "join" /\ Ended(i)
    /\ IF i + 1 < numThreads THEN i' = i + 1 /\ MainGoes("join") ELSE i' = i /\ MainGoes("done")
    /\ UNCHANGED <<tpc, canceled, glob, bufs>>

Main == Create \/ Cancel \/ SetGlob \/ Join
ThreadFunc(t) ==
    \/ threadFunc_cleanup(t) \/ threadFunc_cancel(t) \/ threadFunc_barrier(t)
    \/ threadFunc_strerror(t)
Next == Main \/ \E t \in Threads : ThreadFunc(t) \/ SpuriousWakeup(t)

Spec == Init /\ [][Next]_vars

-----------------------------------------------------------------------------
TypeOK ==
    /\ tpc \in [Threads -> {"none", "start", "printf", "lock", "test", "wait", "waiting", "relock",
                            "cleanup", "pop", "sleep", "blocked", "released", "returned", "canceled"}]
    /\ mtx \in Threads \cup {-1} /\ glob \in {0, 1} /\ blocks \in {0, 1}
    /\ arrived = {t \in Threads : tpc[t] = "blocked"}
    /\ mpc = "done" => i = numThreads - 1

(* When main has joined it, the thread of thread_cleanup, cancelled or not, holds no mutex,
   and its block is free, unless it was cancelled before it had pushed its handler, that is
   in its first printf(). A thread that is cancelled has the mutex when the handler runs. *)
CleanedUp ==
    /\ mpc = "done" => mtx = -1
    /\ mpc = "done" /\ blocks = 1 => app = "cleanup" /\ tpc[0] = "canceled"
    /\ \A t \in Threads : tpc[t] \in {"cleanup", "pop", "test", "wait"} => mtx = t /\ blocks = 1

(* Nobody passes the barrier before all have reached it, also when it is used again while
   some have not yet returned; each time it is passed, one thread is told that it is the
   serial thread. *)
BarrierHolds ==
    /\ \A t, u \in Threads : Len(returns[t]) <= reached[u]
    /\ \A k \in 1..numBarriers :
          (\A t \in Threads : Len(returns[t]) >= k) =>
             Cardinality({t \in Threads : returns[t][k] = -1}) = 1

(* What main() prints after it has joined the other thread: the text of its own error, from
   a buffer that is still there, unless the buffer is static and holds the other's. No
   buffer of the other thread is left. *)
OwnErrorKept ==
    mpc = "done" /\ app \in Strerrors =>
        /\ DOMAIN bufs = {Buffer(-1)}
        /\ bufs[Buffer(-1)] = IF app = "strerror" THEN "EPERM" ELSE "EINVAL"

(* In the end every program is done, and thread_cancel has joined a thread that was
   cancelled ("Thread was not canceled (should not happen!)"). *)
WaitsEnd == mpc = "done" /\ (app = "cancel" => tpc[0] = "canceled")

(* main of thread_cleanup sets the predicate, without the mutex, between the thread's test and
   its wait: its signal may then come before the wait. *)
LostWakeup == glob = 1 /\ tpc[0] = "wait"

-----------------------------------------------------------------------------
(* Why: main creates its threads in order and joins them in order; a thread is only where its
   program puts it, and only what main has cancelled ends cancelled. *)
Cleanups == {"cleanup", "cleanup-signal"}
Labels ==
    CASE app = "cancel" -> {"none", "start", "sleep", "canceled"}
      [] app = "cleanup" -> {"none", "start", "printf", "lock", "test", "wait", "waiting",
                             "relock", "cleanup", "pop", "returned", "canceled"}
      [] app = "cleanup-signal" -> {"none", "start", "printf", "lock", "test", "wait",
                                    "waiting", "relock", "pop", "returned"}
      [] app = "barrier" -> {"none", "start", "blocked", "released", "returned"}
      [] OTHER -> {"none", "start", "printf", "returned"}
PlacesInv ==
    /\ app \in Apps /\ mpc \in {"create", "cancel", "glob", "signal", "join", "done"}
    /\ i \in Threads /\ i < numThreads
    /\ \A t \in Threads : /\ tpc[t] \in Labels
                          /\ t >= numThreads => tpc[t] = "none"
                          /\ t < numThreads => (tpc[t] = "none" <=> mpc = "create" /\ t >= i)
                          /\ mpc = "join" /\ t < i => Ended(t)
                          /\ mpc = "done" /\ t < numThreads => Ended(t)
    /\ mpc = "cancel" => app \in {"cancel", "cleanup"}
    /\ mpc \in {"glob", "signal"} => app = "cleanup-signal"
    /\ canceled \subseteq {0} /\ (app \notin {"cancel", "cleanup"} => canceled = {})

(* Why: who holds the mutex can be told from where it is, and so can whether the block is
   allocated, unless the thread has been cancelled. *)
CleanupInv ==
    /\ \A t \in Threads : mtx = t <=> tpc[t] \in {"test", "wait", "cleanup", "pop"}
    /\ app \notin Cleanups => blocks = 0
    /\ tpc[0] \in {"none", "start", "returned"} => blocks = 0
    /\ app \in Cleanups /\ tpc[0] \notin {"none", "start", "returned", "canceled"} => blocks = 1

(* Why: all have passed the barrier equally often, and who waits at it has reached it once
   more. *)
BarrierInv ==
    /\ reached \in [Threads -> Nat] /\ returns \in [Threads -> Seq({-1, 0})]
    /\ \A t, u \in Threads : Len(returns[t]) = Len(returns[u])
    /\ \A t \in Threads :
          /\ reached[t] = Len(returns[t]) + (IF tpc[t] = "blocked" THEN 1 ELSE 0)
          /\ \A k \in 1..Len(returns[t]) :
                \E serial \in Threads : \A u \in Threads : returns[u][k] = Result(u, serial)

(* Why: main's buffer is there once it has called strerror(), the other thread's between its
   call and its return. *)
BuffersInv ==
    app \in Strerrors =>
        /\ mpc = "create" => DOMAIN bufs = {}
        /\ tpc[0] \in {"start", "returned"} => DOMAIN bufs = {Buffer(-1)}
        /\ tpc[0] = "printf" => DOMAIN bufs = {Buffer(-1), Buffer(0)}
        /\ tpc[0] = "start" => bufs[Buffer(-1)] = "EINVAL"
        /\ tpc[0] \in {"printf", "returned"} =>
              bufs[Buffer(-1)] = IF app = "strerror" THEN "EPERM" ELSE "EINVAL"

Inv == TypeOK /\ PlacesInv /\ CleanupInv /\ BarrierInv /\ BuffersInv
=============================================================================
