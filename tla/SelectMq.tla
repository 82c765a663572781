------------------------------ MODULE SelectMq ------------------------------
(***************************************************************************)
(* altio/select_mq.c: one child per System V message queue copies every    *)
(* message, with a header, to a pipe; the parent waits with select() for   *)
(* the terminal and the pipe, and reads the header and then the text.      *)
(***************************************************************************)
EXTENDS Integers, Sequences

CONSTANTS
    Queues,
    Lengths,     \* lengths of messages; more than MAX_MTEXT is refused by msgrcv()
    MAX_MTEXT,
    PipeSize,    \* pieces (headers and texts) that fit in the pipe
    MaxSent,     \* bound on the messages sent to each queue
    MaxLines     \* bound on the lines typed

VARIABLES
    sent,        \* per queue: lengths of the messages sent, in order
    taken,       \* per queue: messages its child has received
    alive,       \* children that run
    pipe,        \* what is in the pipe: headers and texts, [msqid, num]
    typed,       \* lines typed and not read
    ready,       \* the descriptors select() found ready
    pc, pmsg,    \* the parent, and the header it has read
    printed      \* the messages printed: [head, text]

vars == <<sent, taken, alive, pipe, typed, ready, pc, pmsg, printed>>

NoMsg == [msqid |-> "none", num |-> 0]

Init ==
    /\ sent = [q \in Queues |-> << >>] /\ taken = [q \in Queues |-> 0] /\ alive = Queues
    /\ pipe = << >> /\ typed = 0 /\ ready = {} /\ pc = "select" /\ pmsg = NoMsg /\ printed = << >>

Send(q) ==
    /\ Len(sent[q]) < MaxSent
    /\ \E len \in Lengths : sent' = [sent EXCEPT ![q] = Append(@, len)]
    /\ UNCHANGED <<taken, alive, pipe, typed, ready, pc, pmsg, printed>>

Type == /\ typed < MaxLines /\ typed' = typed + 1
        /\ UNCHANGED <<sent, taken, alive, pipe, ready, pc, pmsg, printed>>

(* A message as it is in the pipe: a header, and a text unless its length is 0. *)
Pieces(q, k) == LET m == [msqid |-> q, num |-> k]
                IN  IF sent[q][k] = 0 THEN <<m>> ELSE <<m, m>>

CanReceive(q) == q \in alive /\ taken[q] < Len(sent[q])

(* Mutant: header and text are written by two calls of write(). *)
childMonTwice(q) ==
    /\ CanReceive(q)
    /\ LET k == taken[q] + 1
           m == [msqid |-> q, num |-> k]
           half == Len(SelectSeq(pipe, LAMBDA x : x = m)) = 1 IN
       /\ sent[q][k] <= MAX_MTEXT /\ Len(pipe) < PipeSize
       /\ pipe' = Append(pipe, m)
       /\ taken' = [taken EXCEPT ![q] = IF half \/ sent[q][k] = 0 THEN k ELSE @]
    /\ UNCHANGED <<sent, alive, typed, ready, pc, pmsg, printed>>

(* msgrcv(), and one write(), which is atomic: it waits for room. *)
childMon(q) ==
    /\ CanReceive(q)
    /\ LET k == taken[q] + 1 IN
       /\ sent[q][k] <= MAX_MTEXT
       /\ Len(pipe) + Len(Pieces(q, k)) <= PipeSize
       /\ pipe' = pipe \o Pieces(q, k)
       /\ taken' = [taken EXCEPT ![q] = k]
    /\ UNCHANGED <<sent, alive, typed, ready, pc, pmsg, printed>>

(* msgrcv() fails (E2BIG): the child exits and the message stays in its queue. *)
childMonFails(q) ==
    /\ CanReceive(q) /\ sent[q][taken[q] + 1] > MAX_MTEXT
    /\ alive' = alive \ {q}
    /\ UNCHANGED <<sent, taken, pipe, typed, ready, pc, pmsg, printed>>

-----------------------------------------------------------------------------
(* The parent *)

Select ==
    /\ pc = "select"
    /\ ready' = (IF typed > 0 THEN {"stdin"} ELSE {}) \cup (IF pipe # << >> THEN {"pipe"} ELSE {})
    /\ ready' # {}
    /\ pc' = "stdin"
    /\ UNCHANGED <<sent, taken, alive, pipe, typed, pmsg, printed>>

(* The terminal, if it is ready. *)
ReadTerminal ==
    /\ pc = "stdin"
    /\ typed' = IF "stdin" \in ready THEN typed - 1 ELSE typed
    /\ pc' = IF "pipe" \in ready THEN "header" ELSE "select"
    /\ UNCHANGED <<sent, taken, alive, pipe, ready, pmsg, printed>>

ReadHeader ==
    /\ pc = "header" /\ pipe # << >>
    /\ pmsg' = Head(pipe) /\ pipe' = Tail(pipe)
    /\ pc' = "text"
    /\ UNCHANGED <<sent, taken, alive, typed, ready, printed>>

Length == sent[pmsg.msqid][pmsg.num]

ReadText ==
    /\ pc = "text" /\ Length > 0 /\ pipe # << >>
    /\ printed' = Append(printed, [head |-> pmsg, text |-> Head(pipe)])
    /\ pipe' = Tail(pipe)
    /\ pc' = "select"
    /\ UNCHANGED <<sent, taken, alive, typed, ready, pmsg>>

(* read() of 0 bytes returns 0, which is taken for the end of the pipe. *)
ReadEmptyText ==
    /\ pc = "text" /\ Length = 0
    /\ pc' = "fatal"
    /\ UNCHANGED <<sent, taken, alive, pipe, typed, ready, pmsg, printed>>

Parent == Select \/ ReadTerminal \/ ReadHeader \/ ReadText \/ ReadEmptyText

Next == \/ Type \/ Parent
        \/ \E q \in Queues : Send(q) \/ childMon(q) \/ childMonFails(q)

Spec == Init /\ [][Next]_vars

-----------------------------------------------------------------------------
(* The messages of a queue are printed in the order in which they were sent, each once
   and each with its own text, although the children write to one pipe and the parent
   reads in two steps: writes of at most PIPE_BUF bytes are atomic. *)
Relayed ==
    \A i \in DOMAIN printed :
        LET m == printed[i].head IN
        /\ printed[i].text = m
        /\ \A j \in 1 .. (i - 1) : printed[j].head.msqid = m.msqid => printed[j].head.num < m.num
        /\ \A k \in 1 .. (m.num - 1) :
              \E j \in 1 .. (i - 1) : printed[j].head = [msqid |-> m.msqid, num |-> k]

Printed(q) == {k \in DOMAIN sent[q] : \E i \in DOMAIN printed : printed[i].head = [msqid |-> q, num |-> k]}

(* In the end, if no message is empty or longer than MAX_MTEXT, every message is printed. *)
AllPrinted ==
    (\A q \in Queues : \A k \in DOMAIN sent[q] : sent[q][k] \in 1 .. MAX_MTEXT) =>
        \A q \in Queues : Printed(q) = DOMAIN sent[q]

(* A message longer than MAX_MTEXT is not printed, nor is any later one of its queue;
   the other queues are still served. *)
LongStops ==
    \A i \in DOMAIN printed :
        LET m == printed[i].head IN \A k \in 1 .. m.num : sent[m.msqid][k] <= MAX_MTEXT

-----------------------------------------------------------------------------
Msgs == [msqid : Queues, num : Nat]
TypeOK ==
    /\ sent \in [Queues -> Seq(Nat)] /\ taken \in [Queues -> Nat]
    /\ pipe \in Seq(Msgs) /\ printed \in Seq([head : Msgs, text : Msgs])
    /\ pc \in {"select", "stdin", "header", "text", "fatal"}
    /\ pc \in {"text", "fatal"} => pmsg \in Msgs

(* Why: what the parent has read and not yet printed and what is in the pipe are headers,
   each followed by its text if it has one; the messages of a queue come in order, after
   those that are printed, and none is missing. *)
First == IF pc \in {"text", "fatal"} THEN 0 ELSE 1
Items == First .. Len(pipe)
Item(i) == IF i = 0 THEN pmsg ELSE pipe[i]
HasText(m) == sent[m.msqid][m.num] > 0
TakenInv ==
    \A q \in Queues : taken[q] <= Len(sent[q]) /\ \A k \in 1 .. taken[q] : sent[q][k] <= MAX_MTEXT
ItemsInv ==
    \A i \in Items :
        /\ Item(i).num \in 1 .. taken[Item(i).msqid]
        /\ \A j \in Items : i < j /\ Item(j).msqid = Item(i).msqid =>
              \/ Item(i).num < Item(j).num
              \/ j = i + 1 /\ Item(j) = Item(i) /\ HasText(Item(i))
        /\ HasText(Item(i)) =>
              \/ i + 1 \in Items /\ Item(i + 1) = Item(i)
              \/ i - 1 \in Items /\ Item(i - 1) = Item(i)
PrintedInv ==
    /\ \A j \in DOMAIN printed :
          /\ printed[j].head.num \in 1 .. taken[printed[j].head.msqid]
          /\ \A i \in Items : Item(i).msqid = printed[j].head.msqid => printed[j].head.num < Item(i).num
    /\ \A q \in Queues : \A k \in 1 .. taken[q] :
          LET m == [msqid |-> q, num |-> k] IN
          (\E j \in DOMAIN printed : printed[j].head = m) \/ (\E i \in Items : Item(i) = m)
Inv == TypeOK /\ TakenInv /\ ItemsInv /\ PrintedInv /\ Relayed
=============================================================================
