------------------------------ MODULE MqNotify ------------------------------
(***************************************************************************)
(* pmsg/mq_notify_sig.c, mq_notify_sigwaitinfo.c, mq_notify_thread.c,      *)
(* mq_notify_via_signal.c and mq_notify_via_thread.c: reading a message    *)
(* queue on notification. Whoever is notified, the main program by a       *)
(* signal or a new thread, registers again and then reads until the queue  *)
(* is empty; the last two also read after they first register. The         *)
(* programs with a signal have one worker; in the others any idle worker   *)
(* stands for the thread that is created.                                  *)
(***************************************************************************)
EXTENDS Integers, FiniteSets

CONSTANTS
    Workers, main,
    mq_maxmsg,    \* capacity of the queue
    MaxSent       \* bound on the messages sent

VARIABLES
    threads,      \* mq_notify_thread or _via_thread is the program that runs
    drains,       \* mq_notify_via_signal or _via_thread is
    q, sent,      \* messages in the queue; messages sent
    registered,   \* a notification is registered
    pending,      \* notifications sent and not yet received
    started,      \* "no", or how the first registration found the queue
    pc            \* per worker: "wait", "mq_notify" or "mq_receive"

vars == <<threads, drains, q, sent, registered, pending, started, pc>>

Init ==
    /\ threads \in BOOLEAN /\ drains \in BOOLEAN
    /\ q = 0 /\ sent = 0
    /\ registered = FALSE /\ pending = 0 /\ started = "no"
    /\ pc = [w \in Workers |-> "wait"]

(* A message arrives; in an empty queue it uses up the registration. *)
Send ==
    /\ sent < MaxSent /\ q < mq_maxmsg
    /\ sent' = sent + 1
    /\ q' = q + 1
    /\ IF q = 0 /\ registered
       THEN pending' = pending + 1 /\ registered' = FALSE
       ELSE UNCHANGED <<pending, registered>>
    /\ UNCHANGED <<threads, drains, started, pc>>

(* What follows the first registration: the via_ programs read. *)
FirstRead == pc' = IF drains THEN [pc EXCEPT ![main] = "mq_receive"] ELSE pc

(* mq_open() and the first mq_notify() *)
Start ==
    /\ started = "no"
    /\ started' = IF q = 0 THEN "empty" ELSE "backlog"
    /\ registered' = TRUE
    /\ FirstRead
    /\ UNCHANGED <<threads, drains, q, sent, pending>>

(* sigsuspend() or sigwaitinfo() returns, or gotSig is found set and cleared; a notification
   thread starts. *)
Notified(w) ==
    /\ pc[w] = "wait" /\ pending > 0 /\ (threads \/ w = main)
    /\ pending' = pending - 1
    /\ pc' = [pc EXCEPT ![w] = "mq_notify"]
    /\ UNCHANGED <<threads, drains, q, sent, registered, started>>

Reregister(w) ==
    /\ pc[w] = "mq_notify"
    /\ registered' = TRUE
    /\ pc' = [pc EXCEPT ![w] = "mq_receive"]
    /\ UNCHANGED <<threads, drains, q, sent, pending, started>>

(* Mutant: one message is read for each notification. *)
ReceiveOne(w) ==
    /\ pc[w] = "mq_receive" /\ q > 0
    /\ q' = q - 1
    /\ pc' = [pc EXCEPT ![w] = "wait"]
    /\ UNCHANGED <<threads, drains, sent, registered, pending, started>>

Receive(w) ==
    /\ pc[w] = "mq_receive" /\ q > 0
    /\ q' = q - 1
    /\ UNCHANGED <<threads, drains, sent, registered, pending, started, pc>>

(* EAGAIN *)
Empty(w) ==
    /\ pc[w] = "mq_receive" /\ q = 0
    /\ pc' = [pc EXCEPT ![w] = "wait"]
    /\ UNCHANGED <<threads, drains, q, sent, registered, pending, started>>

Reads(w) == Reregister(w) \/ Receive(w) \/ Empty(w)
Next == Send \/ Start \/ \E w \in Workers : Notified(w) \/ Reads(w)
Spec == Init /\ [][Next]_vars

-----------------------------------------------------------------------------
TypeOK ==
    /\ q \in 0 .. mq_maxmsg /\ sent \in 0 .. MaxSent
    /\ registered \in BOOLEAN /\ drains \in BOOLEAN /\ pending \in Nat /\ started \in {"no", "empty", "backlog"}
    /\ pc \in [Workers -> {"wait", "mq_notify", "mq_receive"}]

(* The program has started, with an empty queue or with a read after it registered. *)
Alive == started # "no" /\ (started = "empty" \/ drains)

(* Once the program is alive, a message in the queue is always on its way to be read: a
   notification is pending or somebody is between being notified and finding the queue
   empty. Registering again before reading, not after, is what makes this so. *)
NotStuck ==
    Alive /\ q > 0 => pending > 0 \/ \E w \in Workers : pc[w] # "wait"

(* mq_notify() never finds the queue already registered (EBUSY, which would end the
   program), also when threads overlap. *)
NeverBusy ==
    /\ \A w \in Workers : pc[w] = "mq_notify" => ~registered
    /\ Cardinality({w \in Workers : pc[w] = "mq_notify"}) <= 1

(* At most one notification is outstanding, so a standard signal, which is not
   queued, loses none. *)
OnePending == pending <= 1 /\ (registered => pending = 0)

(* After a start with an empty queue, and in the via_ programs after any start, the queue is
   empty in the end. *)
Drained == Alive => q = 0

(* If the first mq_notify() is not followed by a read, messages that are there when the
   program starts are never read, nor is any later one: the registration waits for a message
   in an empty queue, and nobody empties it. *)
BacklogNeverRead ==
    started = "backlog" /\ ~drains =>
        q > 0 /\ registered /\ pending = 0 /\ \A w \in Workers : pc[w] = "wait"

(* All of this together, but for Drained. *)
NotifySafe == TypeOK /\ NotStuck /\ NeverBusy /\ OnePending /\ BacklogNeverRead

-----------------------------------------------------------------------------
Notifying(w) == pc[w] = "mq_notify"

(* Why: from the first registration on there is one token: the registration, or the
   notification that used it up, or the worker that is going to register again. *)
TokenInv ==
    /\ started = "no" => ~registered /\ pending = 0 /\ \A w \in Workers : pc[w] = "wait"
    /\ started # "no" => registered \/ pending = 1 \/ \E w \in Workers : Notifying(w)
    /\ pending \in 0 .. 1
    /\ registered => pending = 0 /\ \A w \in Workers : ~Notifying(w)
    /\ pending = 1 => \A w \in Workers : ~Notifying(w)
    /\ \A v, w \in Workers : Notifying(v) /\ Notifying(w) => v = w
Inv == TypeOK /\ TokenInv /\ NotStuck /\ BacklogNeverRead
=============================================================================
