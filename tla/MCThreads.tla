------------------------------ MODULE MCThreads -----------------------------
(***************************************************************************)
(* Programs of the chapters on threads and programs that use message       *)
(* queues, one of which is run: the                                        *)
(* thread_incr programs (ThreadIncr), prod_condvar and prod_no_condvar     *)
(* (ProdCondvar), thread_multijoin (ThreadMultijoin), thread_cleanup,      *)
(* thread_cancel and pthread_barrier_demo (ThreadWaits), the file server   *)
(* of svmsg/ (SvmsgFile), the mq_notify programs of pmsg/ (MqNotify) and   *)
(* altio/select_mq (SelectMq).                                             *)
(***************************************************************************)
EXTENDS ThreadIncr, ThreadProofs, QueueProofs

VARIABLE program

allVars == <<program, vars, prodVars, joinVars, waitVars, fileVars, notifyVars, selectVars>>

(* Of three producers one has nothing to make. *)
MCCnt == [p \in Producers |-> CASE p = "p1" -> 2 [] p = "p2" -> 1 [] OTHER -> 0]

(* A file of a full and a partial block, an empty one, and one that cannot be opened. *)
MCSizes == {-1, 0, 3}

(* The two clients. *)
One == CHOOSE c \in Clients : TRUE
Other == CHOOSE c \in Clients : c # One

MCInit ==
    /\ program \in {"thread_incr", "prod", "multijoin", "waits",
                   "svmsg_file", "mq_notify", "select_mq"}
    /\ Init /\ Prod!Init /\ Multijoin!Init /\ Waits!Init /\ File!Init /\ Notify!Init /\ Mux!Init
    /\ FileSize[One] = 3
    /\ program # "svmsg_file" => FileSize = [c \in Clients |-> 3]
    /\ program # "mq_notify" => ~threads /\ ~drains
    /\ program # "waits" => app = "barrier"
    /\ program # "thread_incr" => prog = "thread_incr"
    /\ program # "prod" => polls

MCNext ==
    \/ /\ program = "thread_incr" /\ Next
       /\ UNCHANGED <<program, prodVars, joinVars, waitVars, fileVars, notifyVars, selectVars>>
    \/ /\ program = "prod" /\ Prod!Next
       /\ UNCHANGED <<program, vars, joinVars, waitVars, fileVars, notifyVars, selectVars>>
    \/ /\ program = "multijoin" /\ Multijoin!Next
       /\ UNCHANGED <<program, vars, prodVars, waitVars, fileVars, notifyVars, selectVars>>
    \/ /\ program = "waits" /\ Waits!Next
       /\ UNCHANGED <<program, vars, prodVars, joinVars, fileVars, notifyVars, selectVars>>
    \/ /\ program = "svmsg_file" /\ File!Next
       /\ UNCHANGED <<program, vars, prodVars, joinVars, waitVars, notifyVars, selectVars>>
    \/ /\ program = "mq_notify" /\ Notify!Next
       /\ UNCHANGED <<program, vars, prodVars, joinVars, waitVars, fileVars, selectVars>>
    \/ /\ program = "select_mq" /\ Mux!Next
       /\ UNCHANGED <<program, vars, prodVars, joinVars, waitVars, fileVars, notifyVars>>

(* What is scheduled: every thread and process of a program, one in each set since only one
   program runs; the delivery of signals and notifications; and somebody removes the queue of
   a killed client (svmsg_rm). *)
Scheduled(k) ==
    UNCHANGED program /\
    CASE k = 1 -> \/ program = "prod" /\ ~Prod!Exited /\ Prod!Consumer
                  \/ program = "multijoin" /\ Multijoin!MainThread
                  \/ program = "waits" /\ Waits!Main
                  \/ program = "svmsg_file" /\ File!Server
                  \/ program = "mq_notify" /\ (Notify!Start \/ \E w \in Workers : Notify!Notified(w))
                  \/ program = "select_mq" /\ Mux!Parent
      [] k = 2 -> \/ program = "prod" /\ ~Prod!Exited /\ Prod!Producer("p1")
                  \/ program = "multijoin" /\ Multijoin!ThreadFunc(0)
                  \/ program = "waits" /\ Waits!ThreadFunc(0)
                  \/ program = "svmsg_file" /\ (File!HandlerStarts \/ File!grimReaper)
                  \/ program = "mq_notify" /\ Notify!Reads("main")
                  \/ program = "select_mq" /\ Mux!childMon("q1")
      [] k = 3 -> \/ program = "prod" /\ ~Prod!Exited /\ Prod!Producer("p2")
                  \/ program = "multijoin" /\ Multijoin!ThreadFunc(1)
                  \/ program = "waits" /\ Waits!ThreadFunc(1)
                  \/ program = "svmsg_file" /\ File!Child(One)
                  \/ program = "mq_notify" /\ Notify!Reads("t2")
                  \/ program = "select_mq" /\ Mux!childMon("q2")
      [] k = 4 -> \/ program = "prod" /\ ~Prod!Exited /\ Prod!Producer("p3")
                  \/ program = "multijoin" /\ Multijoin!ThreadFunc(2)
                  \/ program = "waits" /\ Waits!ThreadFunc(2)
                  \/ program = "svmsg_file" /\ (File!Client(One) \/ File!StaleQueueRemoved(One))
                  \/ program = "mq_notify" /\ Notify!Reads("t3")
      [] k = 5 -> \/ program = "svmsg_file" /\ File!Child(Other)
                  \/ program = "mq_notify" /\ Notify!Reads("t4")
      [] k = 6 -> program = "svmsg_file" /\ (File!Client(Other) \/ File!StaleQueueRemoved(Other))
runVars ==
    CASE program = "thread_incr" -> vars [] program = "prod" -> prodVars
      [] program = "multijoin" -> joinVars [] program = "waits" -> waitVars
      [] program = "svmsg_file" -> fileVars [] program = "mq_notify" -> notifyVars
      [] program = "select_mq" -> selectVars

(* A mutex does not starve those who want it although main takes it again and again: some
   producer, or some thread that ends, gets it in the end. *)
GetsMutex ==
    /\ UNCHANGED program
    /\ \/ program = "prod" /\ ~Prod!Exited /\ \E p \in Producers : Prod!ProducerLock(p)
       \/ program = "multijoin" /\ \E t \in 0..2 : Multijoin!ThreadLock(t)

MCSpec ==
    /\ MCInit /\ [][MCNext]_allVars
    /\ \A k \in 1..6 : WF_runVars(Scheduled(k))
    /\ SF_runVars(GetsMutex)

-----------------------------------------------------------------------------
(* What every program comes to: no wakeup is lost although producers signal after they have
   unlocked the mutex; every thread is joined; the programs of ThreadWaits are done. Every client of svmsg_file_server is answered and
   every child reaped, unless msgrcv() or fork() fails; a mq_notify program started with an empty queue,
   or that reads at its start, has read every message; select_mq has printed every message
   if none is empty or too long. *)
Settled ==
    CASE program = "thread_incr" -> TRUE
      [] program = "prod" -> Prod!Termination
      [] program = "multijoin" -> Multijoin!AllJoined
      [] program = "waits" -> Waits!WaitsEnd
      [] program = "svmsg_file" -> File!Served /\ File!Reaped
      [] program = "mq_notify" -> Notify!Drained
      [] program = "select_mq" -> Mux!AllPrinted

(* Every program settles, unless main of thread_cleanup comes between the test and the wait of
   its thread. *)
ThreadsAndQueuesServed == []<>Settled \/ <>Waits!LostWakeup
=============================================================================
