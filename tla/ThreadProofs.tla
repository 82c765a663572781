---------------------------- MODULE ThreadProofs ----------------------------
(***************************************************************************)
(* What is proved of altio/select_mq (SelectMq) and of the programs with   *)
(* threads: thread_cleanup, thread_cancel, strerror_test and               *)
(* pthread_barrier_demo (ThreadWaits), thread_multijoin (ThreadMultijoin), *)
(* prod_condvar and prod_no_condvar (ProdCondvar). Each is an instance     *)
(* with variables of its own; the constants are arbitrary, but for what    *)
(* the assumptions say.                                                    *)
(***************************************************************************)
EXTENDS Integers, Sequences, TLAPS

CONSTANTS
    Queues, Lengths, MAX_MTEXT, PipeSize, MaxPerQueue, MaxLines,
    NumWaiting, numBarriers,
    NumJoined,
    Producers, Cnt, ProdMain, ProdNobody

-----------------------------------------------------------------------------
(* select_mq *)

VARIABLES qsent, taken, alive, pipe, typed, ready, selpc, pmsg, printed

selectVars == <<qsent, taken, alive, pipe, typed, ready, selpc, pmsg, printed>>
Mux == INSTANCE SelectMq WITH sent <- qsent, pc <- selpc, MaxSent <- MaxPerQueue
ASSUME MuxAssumption == Lengths \subseteq Nat /\ MAX_MTEXT \in Nat
(* select_mq prints the messages of a queue in order, each once and with its own text; one
   that is too long stops its queue. *)
RelayExact == Mux!Relayed /\ Mux!LongStops /\ Mux!Inv

(* It holds before the first message is sent. *)
LEMMA MuxInit == Mux!Init => Mux!Inv
<1> SUFFICES ASSUME Mux!Init PROVE Mux!Inv
  OBVIOUS
<1>1. Len(pipe) = 0 /\ pipe = << >> /\ Len(printed) = 0 /\ printed = << >> /\ DOMAIN printed = {}
  BY DEF Mux!Init
<1>2. Mux!TypeOK
  BY <1>1 DEF Mux!Init, Mux!TypeOK
<1>3. Mux!Items = {}
  BY <1>1 DEF Mux!Init, Mux!Items, Mux!First
<1>4. \A q \in Queues : 1 .. taken[q] = {} /\ taken[q] = 0 /\ Len(qsent[q]) = 0
  BY DEF Mux!Init
<1> QED
  BY <1>1, <1>2, <1>3, <1>4 DEF Mux!Inv, Mux!TakenInv, Mux!ItemsInv, Mux!PrintedInv, Mux!Relayed

(* What the parent has read and what is in the pipe are messages. *)
LEMMA MuxItem ==
    ASSUME Mux!TypeOK, NEW i \in Mux!Items
    PROVE  i \in Nat /\ Mux!Item(i) \in Mux!Msgs
<1>1. /\ pipe \in Seq(Mux!Msgs) /\ Len(pipe) \in Nat
      /\ selpc \in {"text", "fatal"} => pmsg \in Mux!Msgs
  BY DEF Mux!TypeOK
<1>2. i \in Nat /\ i <= Len(pipe) /\ (i = 0 => selpc \in {"text", "fatal"})
  BY <1>1 DEF Mux!Items, Mux!First
<1>3. CASE i = 0
  BY <1>1, <1>2, <1>3 DEF Mux!Item
<1>4. CASE i # 0
  <2>1. i \in 1 .. Len(pipe)
    BY <1>1, <1>2, <1>4
  <2>2. pipe[i] \in Mux!Msgs
    BY <1>1, <2>1
  <2> QED
    BY <1>2, <1>4, <2>2 DEF Mux!Item
<1> QED
  BY <1>3, <1>4

(* What is printed is messages of the queues. *)
LEMMA MuxPrinted ==
    ASSUME Mux!TypeOK, NEW j \in DOMAIN printed
    PROVE  printed[j].head.msqid \in Queues /\ printed[j].head.num \in Nat
<1>1. printed[j] \in [head : Mux!Msgs, text : Mux!Msgs]
  <2> DEFINE R == [head : Mux!Msgs, text : Mux!Msgs]
  <2>1. printed \in Seq(R)
    BY DEF Mux!TypeOK
  <2> HIDE DEF R
  <2>2. printed[j] \in R
    BY <2>1
  <2> QED
    BY <2>2 DEF R
<1>2. printed[j].head \in Mux!Msgs
  BY <1>1
<1> QED
  BY <1>2 DEF Mux!Msgs

(* A step that neither reads nor writes the pipe. *)
LEMMA MuxSame ==
    ASSUME Mux!Inv, Mux!TypeOK', Mux!First' = Mux!First,
           UNCHANGED <<taken, pipe, pmsg, printed>>,
           \A q \in Queues : /\ Len(qsent'[q]) >= Len(qsent[q])
                             /\ \A k \in 1 .. Len(qsent[q]) : qsent'[q][k] = qsent[q][k]
    PROVE  Mux!Inv'
<1>1. Mux!Items' = Mux!Items /\ \A i \in Mux!Items : Mux!Item(i)' = Mux!Item(i)
  BY DEF Mux!Items, Mux!Item
<1>2. Mux!TakenInv'
  <2> SUFFICES ASSUME NEW q \in Queues
               PROVE  taken[q] <= Len(qsent'[q]) /\ \A k \in 1 .. taken[q] : qsent'[q][k] <= MAX_MTEXT
    BY DEF Mux!TakenInv
  <2>1. /\ taken[q] \in Nat /\ Len(qsent[q]) \in Nat /\ Len(qsent'[q]) \in Nat
        /\ taken[q] <= Len(qsent[q]) /\ \A k \in 1 .. taken[q] : qsent[q][k] <= MAX_MTEXT
    BY DEF Mux!Inv, Mux!TypeOK, Mux!TakenInv
  <2> QED
    BY <2>1
<1>3. ASSUME NEW i \in Mux!Items PROVE Mux!HasText(Mux!Item(i))' <=> Mux!HasText(Mux!Item(i))
  <2>1. Mux!Item(i) \in Mux!Msgs
    BY MuxItem DEF Mux!Inv
  <2>2. Mux!Item(i).num \in 1 .. Len(qsent[Mux!Item(i).msqid])
    BY <2>1 DEF Mux!Inv, Mux!ItemsInv, Mux!TakenInv, Mux!TypeOK, Mux!Msgs
  <2> QED
    BY <1>1, <2>1, <2>2 DEF Mux!HasText, Mux!Msgs
<1>4. Mux!ItemsInv'
  BY <1>1, <1>3 DEF Mux!Inv, Mux!ItemsInv
<1>5. Mux!PrintedInv' /\ Mux!Relayed'
  BY <1>1 DEF Mux!Inv, Mux!PrintedInv, Mux!Relayed
<1> QED
  BY <1>2, <1>4, <1>5 DEF Mux!Inv

(* Messages sent, lines typed and read, select(), an empty text and a child that fails
   preserve it. *)
LEMMA MuxIdle ==
    ASSUME Mux!Inv, \/ Mux!Type \/ Mux!Select \/ Mux!ReadTerminal \/ Mux!ReadEmptyText
                    \/ \E q \in Queues : Mux!Send(q) \/ Mux!childMonFails(q)
                    \/ UNCHANGED selectVars
    PROVE  Mux!Inv'
<1>1. UNCHANGED <<taken, pipe, pmsg, printed>>
  BY DEF Mux!Type, Mux!Select, Mux!ReadTerminal, Mux!ReadEmptyText, Mux!Send, Mux!childMonFails, selectVars
<1>2. /\ selpc' \in {"select", "stdin", "header", "text", "fatal"}
      /\ selpc' \in {"text", "fatal"} <=> selpc \in {"text", "fatal"}
  BY DEF Mux!Type, Mux!Select, Mux!ReadTerminal, Mux!ReadEmptyText, Mux!Send, Mux!childMonFails,
         selectVars, Mux!Inv, Mux!TypeOK
<1>3. /\ qsent' \in [Queues -> Seq(Nat)]
      /\ \A q \in Queues : /\ Len(qsent'[q]) >= Len(qsent[q])
                           /\ \A k \in 1 .. Len(qsent[q]) : qsent'[q][k] = qsent[q][k]
  <2>0. qsent \in [Queues -> Seq(Nat)]
    BY DEF Mux!Inv, Mux!TypeOK
  <2>1. CASE UNCHANGED qsent
    BY <2>0, <2>1
  <2>2. ASSUME NEW r \in Queues, NEW len \in Nat, qsent' = [qsent EXCEPT ![r] = Append(@, len)]
        PROVE <1>3!:
    BY <2>0, <2>2
  <2> QED
    BY <2>1, <2>2, MuxAssumption DEF Mux!Type, Mux!Select, Mux!ReadTerminal, Mux!ReadEmptyText, Mux!Send,
       Mux!childMonFails, selectVars
<1>4. Mux!TypeOK' /\ Mux!First' = Mux!First
  BY <1>1, <1>2, <1>3 DEF Mux!Inv, Mux!TypeOK, Mux!First
<1> QED
  BY <1>1, <1>3, <1>4, MuxSame

(* The header that is read was the first item in the pipe. *)
LEMMA MuxHeader ==
    ASSUME Mux!Inv, Mux!ReadHeader PROVE Mux!Inv'
<1> USE DEF Mux!ReadHeader
<1>0. /\ Mux!TypeOK /\ Mux!TakenInv /\ Mux!ItemsInv /\ Mux!PrintedInv /\ Mux!Relayed
  BY DEF Mux!Inv
<1>1. /\ Mux!Items = 1 .. Len(pipe) /\ Mux!Items' = 0 .. (Len(pipe) - 1) /\ Len(pipe) \in Nat
      /\ Len(pipe') = Len(pipe) - 1
  BY <1>0 DEF Mux!Items, Mux!First, Mux!TypeOK
<1>2. ASSUME NEW i \in Mux!Items' PROVE Mux!Item(i)' = Mux!Item(i + 1) /\ i + 1 \in Mux!Items
  <2>1. i \in 0 .. (Len(pipe) - 1) /\ i + 1 \in 1 .. Len(pipe) /\ i + 1 # 0
    BY <1>1
  <2>2. CASE i = 0
    BY <1>1, <2>1, <2>2 DEF Mux!Item
  <2>3. CASE i # 0
    <3>1. pipe'[i] = pipe[i + 1]
      BY <1>0, <1>1, <2>1, <2>3 DEF Mux!TypeOK
    <3> QED
      BY <1>1, <2>1, <2>3, <3>1 DEF Mux!Item
  <2> QED
    BY <2>2, <2>3
<1>3. Mux!TypeOK'
  <2>1. Head(pipe) \in Mux!Msgs /\ Tail(pipe) \in Seq(Mux!Msgs)
    BY <1>0 DEF Mux!TypeOK
  <2> QED
    BY <1>0, <2>1 DEF Mux!TypeOK
<1>4. Mux!TakenInv' /\ Mux!Relayed'
  BY <1>0 DEF Mux!TakenInv, Mux!Relayed
<1>5. Mux!ItemsInv'
  <2> SUFFICES ASSUME NEW i \in Mux!Items'
               PROVE  /\ Mux!Item(i)'.num \in 1 .. taken'[Mux!Item(i)'.msqid]
                      /\ \A j \in Mux!Items' : i < j /\ Mux!Item(j)'.msqid = Mux!Item(i)'.msqid =>
                            \/ Mux!Item(i)'.num < Mux!Item(j)'.num
                            \/ j = i + 1 /\ Mux!Item(j)' = Mux!Item(i)' /\ Mux!HasText(Mux!Item(i))'
                      /\ Mux!HasText(Mux!Item(i))' =>
                            \/ i + 1 \in Mux!Items' /\ Mux!Item(i + 1)' = Mux!Item(i)'
                            \/ i - 1 \in Mux!Items' /\ Mux!Item(i - 1)' = Mux!Item(i)'
    BY DEF Mux!ItemsInv
  <2>1. Mux!HasText(Mux!Item(i))' <=> Mux!HasText(Mux!Item(i + 1))
    BY <1>2 DEF Mux!HasText
  <2>2. Mux!Item(i)'.num \in 1 .. taken'[Mux!Item(i)'.msqid]
    BY <1>0, <1>2 DEF Mux!ItemsInv
  <2>3. ASSUME NEW j \in Mux!Items', i < j, Mux!Item(j)'.msqid = Mux!Item(i)'.msqid
        PROVE  \/ Mux!Item(i)'.num < Mux!Item(j)'.num
               \/ j = i + 1 /\ Mux!Item(j)' = Mux!Item(i)' /\ Mux!HasText(Mux!Item(i))'
    BY <1>0, <1>1, <1>2, <2>1, <2>3 DEF Mux!ItemsInv
  <2>4. ASSUME Mux!HasText(Mux!Item(i))'
        PROVE  \/ i + 1 \in Mux!Items' /\ Mux!Item(i + 1)' = Mux!Item(i)'
               \/ i - 1 \in Mux!Items' /\ Mux!Item(i - 1)' = Mux!Item(i)'
    <3>1. \/ i + 2 \in Mux!Items /\ Mux!Item(i + 2) = Mux!Item(i + 1)
          \/ i \in Mux!Items /\ Mux!Item(i) = Mux!Item(i + 1)
      BY <1>0, <1>1, <1>2, <2>1, <2>4 DEF Mux!ItemsInv
    <3>2. i + 2 \in Mux!Items => i + 1 \in Mux!Items' /\ Mux!Item(i + 1)' = Mux!Item(i + 2)
      BY <1>1, <1>2
    <3>3. i \in Mux!Items => i - 1 \in Mux!Items' /\ Mux!Item(i - 1)' = Mux!Item(i)
      BY <1>1, <1>2
    <3> QED
      BY <1>2, <3>1, <3>2, <3>3
  <2> QED
    BY <2>2, <2>3, <2>4
<1>6. Mux!PrintedInv'
  <2>1. ASSUME NEW i \in Mux!Items PROVE i - 1 \in Mux!Items' /\ Mux!Item(i - 1)' = Mux!Item(i)
    BY <1>1, <1>2
  <2>2. \A j \in DOMAIN printed' :
          /\ printed'[j].head.num \in 1 .. taken'[printed'[j].head.msqid]
          /\ \A i \in Mux!Items' : Mux!Item(i)'.msqid = printed'[j].head.msqid => printed'[j].head.num < Mux!Item(i)'.num
    BY <1>0, <1>2 DEF Mux!PrintedInv
  <2>3. ASSUME NEW q \in Queues, NEW k \in 1 .. taken'[q]
        PROVE  \/ \E j \in DOMAIN printed' : printed'[j].head = [msqid |-> q, num |-> k]
               \/ \E i \in Mux!Items' : Mux!Item(i)' = [msqid |-> q, num |-> k]
    BY <1>0, <2>1 DEF Mux!PrintedInv
  <2> QED
    BY <2>2, <2>3 DEF Mux!PrintedInv
<1> QED
  BY <1>3, <1>4, <1>5, <1>6 DEF Mux!Inv

(* The text that is read belongs to the header, and all earlier messages of its queue are
   printed. *)
LEMMA MuxText ==
    ASSUME Mux!Inv, Mux!ReadText PROVE Mux!Inv'
<1> DEFINE q == pmsg.msqid
<1>0. /\ Mux!TypeOK /\ Mux!TakenInv /\ Mux!ItemsInv /\ Mux!PrintedInv /\ Mux!Relayed
  BY DEF Mux!Inv
<1>1. /\ Mux!Items = 0 .. Len(pipe) /\ Mux!Items' = 1 .. (Len(pipe) - 1) /\ Len(pipe) \in Nat \ {0}
      /\ Len(pipe') = Len(pipe) - 1
  BY <1>0 DEF Mux!Items, Mux!First, Mux!TypeOK, Mux!ReadText
<1>2. ASSUME NEW i \in Mux!Items' PROVE Mux!Item(i)' = Mux!Item(i + 1) /\ i + 1 \in Mux!Items /\ i >= 1
  <2>1. i \in 1 .. (Len(pipe) - 1) /\ i + 1 \in 1 .. Len(pipe) /\ i # 0 /\ i + 1 # 0
    BY <1>1
  <2>2. pipe'[i] = pipe[i + 1]
    BY <1>0, <1>1, <2>1 DEF Mux!TypeOK, Mux!ReadText
  <2> QED
    BY <1>1, <2>1, <2>2 DEF Mux!Item
<1>3. /\ pmsg \in Mux!Msgs /\ Head(pipe) \in Mux!Msgs /\ Tail(pipe) \in Seq(Mux!Msgs) /\ Head(pipe) = pipe[1]
      /\ q \in Queues /\ pmsg.num \in Nat /\ pmsg = [msqid |-> q, num |-> pmsg.num]
  <2>1. /\ pmsg \in Mux!Msgs /\ Head(pipe) \in Mux!Msgs /\ Tail(pipe) \in Seq(Mux!Msgs) /\ Head(pipe) = pipe[1]
    BY <1>0 DEF Mux!TypeOK, Mux!ReadText
  <2> QED
    BY <2>1 DEF Mux!Msgs
<1>4. Mux!Item(0) = pmsg /\ Mux!Item(1) = pipe[1] /\ 0 \in Mux!Items /\ 1 \in Mux!Items /\ -1 \notin Mux!Items
  BY <1>1 DEF Mux!Item
<1>5. pipe[1] = pmsg
  <2>1. Mux!HasText(Mux!Item(0))
    BY <1>4 DEF Mux!HasText, Mux!ReadText, Mux!Length
  <2> QED
    BY <1>0, <1>4, <2>1 DEF Mux!ItemsInv
<1>6. \A i \in Mux!Items : i > 1 /\ Mux!Item(i).msqid = q => pmsg.num < Mux!Item(i).num
  BY <1>0, <1>1, <1>4 DEF Mux!ItemsInv
<1>7. Mux!TypeOK'
  <2>1. [head |-> pmsg, text |-> Head(pipe)] \in [head : Mux!Msgs, text : Mux!Msgs]
    BY <1>3
  <2> HIDE DEF Mux!Msgs
  <2>2. printed' \in Seq([head : Mux!Msgs, text : Mux!Msgs])
    <3> DEFINE R == [head : Mux!Msgs, text : Mux!Msgs]
               r == [head |-> pmsg, text |-> Head(pipe)]
    <3>1. printed \in Seq(R) /\ r \in R /\ printed' = Append(printed, r)
      BY <1>0, <2>1 DEF Mux!TypeOK, Mux!ReadText
    <3> HIDE DEF R, r
    <3>2. printed' \in Seq(R)
      BY <3>1
    <3> QED
      BY <3>2 DEF R
  <2> QED
    BY <1>0, <1>3, <2>2 DEF Mux!TypeOK, Mux!ReadText
<1>8. Mux!TakenInv'
  BY <1>0 DEF Mux!TakenInv, Mux!ReadText
<1>9. Mux!ItemsInv'
  <2> SUFFICES ASSUME NEW i \in Mux!Items'
               PROVE  /\ Mux!Item(i)'.num \in 1 .. taken'[Mux!Item(i)'.msqid]
                      /\ \A j \in Mux!Items' : i < j /\ Mux!Item(j)'.msqid = Mux!Item(i)'.msqid =>
                            \/ Mux!Item(i)'.num < Mux!Item(j)'.num
                            \/ j = i + 1 /\ Mux!Item(j)' = Mux!Item(i)' /\ Mux!HasText(Mux!Item(i))'
                      /\ Mux!HasText(Mux!Item(i))' =>
                            \/ i + 1 \in Mux!Items' /\ Mux!Item(i + 1)' = Mux!Item(i)'
                            \/ i - 1 \in Mux!Items' /\ Mux!Item(i - 1)' = Mux!Item(i)'
    BY DEF Mux!ItemsInv
  <2>1. Mux!HasText(Mux!Item(i))' <=> Mux!HasText(Mux!Item(i + 1))
    BY <1>2 DEF Mux!HasText, Mux!ReadText
  <2>2. Mux!Item(i)'.num \in 1 .. taken'[Mux!Item(i)'.msqid]
    BY <1>0, <1>2 DEF Mux!ItemsInv, Mux!ReadText
  <2>3. ASSUME NEW j \in Mux!Items', i < j, Mux!Item(j)'.msqid = Mux!Item(i)'.msqid
        PROVE  \/ Mux!Item(i)'.num < Mux!Item(j)'.num
               \/ j = i + 1 /\ Mux!Item(j)' = Mux!Item(i)' /\ Mux!HasText(Mux!Item(i))'
    BY <1>0, <1>1, <1>2, <2>1, <2>3 DEF Mux!ItemsInv
  <2>4. ASSUME Mux!HasText(Mux!Item(i))'
        PROVE  \/ i + 1 \in Mux!Items' /\ Mux!Item(i + 1)' = Mux!Item(i)'
               \/ i - 1 \in Mux!Items' /\ Mux!Item(i - 1)' = Mux!Item(i)'
    <3>1. \/ i + 2 \in Mux!Items /\ Mux!Item(i + 2) = Mux!Item(i + 1)
          \/ i \in Mux!Items /\ Mux!Item(i) = Mux!Item(i + 1)
      BY <1>0, <1>1, <1>2, <2>1, <2>4 DEF Mux!ItemsInv
    <3>2. i + 2 \in Mux!Items => i + 1 \in Mux!Items' /\ Mux!Item(i + 1)' = Mux!Item(i + 2)
      BY <1>1, <1>2
    <3>3. i > 1 => i - 1 \in Mux!Items' /\ Mux!Item(i - 1)' = Mux!Item(i)
      BY <1>1, <1>2
    <3>4. i = 1 => Mux!Item(i + 1) # Mux!Item(i)
      <4>1. Mux!Item(2).msqid = q /\ 2 \in Mux!Items => pmsg.num < Mux!Item(2).num
        BY <1>6
      <4>2. i = 1 => 2 \in Mux!Items
        BY <1>2
      <4> QED
        BY <1>3, <1>4, <1>5, <4>1, <4>2
    <3>5. i = 1 \/ i > 1
      BY <1>1
    <3> QED
      BY <1>2, <3>1, <3>2, <3>3, <3>4, <3>5
  <2> QED
    BY <2>2, <2>3, <2>4
<1>10. /\ DOMAIN printed = 1 .. Len(printed) /\ DOMAIN printed' = 1 .. (Len(printed) + 1) /\ Len(printed) \in Nat
       /\ \A j \in DOMAIN printed : printed'[j] = printed[j]
       /\ printed'[Len(printed) + 1] = [head |-> pmsg, text |-> pmsg]
  BY <1>0, <1>3, <1>5 DEF Mux!TypeOK, Mux!ReadText
<1>11. \A j \in DOMAIN printed : printed[j].head.msqid = q => printed[j].head.num < pmsg.num
  BY <1>0, <1>4 DEF Mux!PrintedInv
<1>12. Mux!PrintedInv'
  <2>1. ASSUME NEW j \in DOMAIN printed'
        PROVE /\ printed'[j].head.num \in 1 .. taken'[printed'[j].head.msqid]
              /\ \A i \in Mux!Items' : Mux!Item(i)'.msqid = printed'[j].head.msqid => printed'[j].head.num < Mux!Item(i)'.num
    <3>1. CASE j \in DOMAIN printed
      BY <1>0, <1>2, <1>10, <3>1 DEF Mux!PrintedInv, Mux!ReadText
    <3>2. CASE j = Len(printed) + 1
      <4>1. printed'[j].head = pmsg /\ pmsg.num \in 1 .. taken[q]
        BY <1>0, <1>4, <1>10, <3>2 DEF Mux!ItemsInv
      <4>2. ASSUME NEW i \in Mux!Items', Mux!Item(i)'.msqid = q PROVE pmsg.num < Mux!Item(i)'.num
        BY <1>2, <1>6, <1>1, <4>2
      <4> QED
        BY <4>1, <4>2 DEF Mux!ReadText
    <3> QED
      BY <1>10, <3>1, <3>2
  <2>2. ASSUME NEW r \in Queues, NEW k \in 1 .. taken'[r]
        PROVE  \/ \E j \in DOMAIN printed' : printed'[j].head = [msqid |-> r, num |-> k]
               \/ \E i \in Mux!Items' : Mux!Item(i)' = [msqid |-> r, num |-> k]
    <3> DEFINE m == [msqid |-> r, num |-> k]
    <3>1. (\E j \in DOMAIN printed : printed[j].head = m) \/ (\E i \in Mux!Items : Mux!Item(i) = m)
      BY <1>0 DEF Mux!PrintedInv, Mux!ReadText
    <3> HIDE DEF m
    <3>2. ASSUME NEW i \in Mux!Items, Mux!Item(i) = m, i \in {0, 1} PROVE \E j \in DOMAIN printed' : printed'[j].head = m
      <4>1. m = pmsg
        BY <1>4, <1>5, <3>2
      <4>2. Len(printed) + 1 \in DOMAIN printed' /\ printed'[Len(printed) + 1].head = pmsg
        BY <1>10
      <4> QED
        BY <4>1, <4>2
    <3>3. ASSUME NEW i \in Mux!Items, i \notin {0, 1} PROVE i - 1 \in Mux!Items' /\ Mux!Item(i - 1)' = Mux!Item(i)
      <4>1. i - 1 \in Mux!Items' /\ (i - 1) + 1 = i
        BY <1>1, <3>3
      <4> QED
        BY <1>2, <4>1
    <3>4. ASSUME NEW j \in DOMAIN printed, printed[j].head = m PROVE \E l \in DOMAIN printed' : printed'[l].head = m
      BY <1>10, <3>4
    <3>5. (\E j \in DOMAIN printed' : printed'[j].head = m) \/ (\E i \in Mux!Items' : Mux!Item(i)' = m)
      BY <3>1, <3>2, <3>3, <3>4, Zenon
    <3> QED
      BY <3>5 DEF m
  <2> QED
    BY <2>1, <2>2 DEF Mux!PrintedInv
<1>13. Mux!Relayed'
  <2> SUFFICES ASSUME NEW n \in DOMAIN printed'
               PROVE  /\ printed'[n].text = printed'[n].head
                      /\ \A j \in 1 .. (n - 1) : printed'[j].head.msqid = printed'[n].head.msqid => printed'[j].head.num < printed'[n].head.num
                      /\ \A k \in 1 .. (printed'[n].head.num - 1) :
                            \E j \in 1 .. (n - 1) : printed'[j].head = [msqid |-> printed'[n].head.msqid, num |-> k]
    BY DEF Mux!Relayed
  <2>1. \A j \in 1 .. (n - 1) : j \in DOMAIN printed /\ printed'[j] = printed[j]
    BY <1>10
  <2>2. CASE n \in DOMAIN printed
    <3>1. printed'[n] = printed[n]
      BY <1>10, <2>2
    <3>2. /\ printed[n].text = printed[n].head
          /\ \A j \in 1 .. (n - 1) : printed[j].head.msqid = printed[n].head.msqid => printed[j].head.num < printed[n].head.num
          /\ \A k \in 1 .. (printed[n].head.num - 1) :
                \E j \in 1 .. (n - 1) : printed[j].head = [msqid |-> printed[n].head.msqid, num |-> k]
      BY <1>0, <2>2 DEF Mux!Relayed
    <3> QED
      BY <2>1, <3>1, <3>2
  <2>3. CASE n = Len(printed) + 1
    <3>1. printed'[n].text = pmsg /\ printed'[n].head = pmsg /\ 1 .. (n - 1) = DOMAIN printed
      BY <1>10, <2>3
    <3>2. ASSUME NEW k \in 1 .. (pmsg.num - 1)
          PROVE  \E j \in DOMAIN printed : printed[j].head = [msqid |-> q, num |-> k]
      <4>1. k \in 1 .. taken[q] /\ k < pmsg.num /\ k \in Nat
        <5>1. pmsg.num \in 1 .. taken[q] /\ taken[q] \in Nat
          BY <1>0, <1>3, <1>4, Zenon DEF Mux!ItemsInv, Mux!TypeOK
        <5> QED
          BY <5>1
      <4>2. ASSUME NEW i \in Mux!Items PROVE Mux!Item(i) # [msqid |-> q, num |-> k]
        <5>1. i \in {0, 1} \/ i > 1
          BY <1>1
        <5>2. i \in {0, 1} => Mux!Item(i) = pmsg
          BY <1>4, <1>5
        <5>3. Mux!Item(i) = [msqid |-> q, num |-> k] => Mux!Item(i).msqid = q /\ Mux!Item(i).num = k
          OBVIOUS
        <5>4. i \in {0, 1} => Mux!Item(i).num # k
          BY <1>3, <4>1, <5>2
        <5>5. i > 1 /\ Mux!Item(i).msqid = q => Mux!Item(i).num # k
          BY <1>3, <1>6, <4>1
        <5> QED
          BY <5>1, <5>3, <5>4, <5>5
      <4> QED
        BY <1>0, <1>3, <4>1, <4>2, Zenon DEF Mux!PrintedInv
    <3> QED
      BY <1>11, <2>1, <3>1, <3>2, ZenonT(30)
  <2> QED
    BY <1>10, <2>2, <2>3
<1> QED
  BY <1>7, <1>8, <1>9, <1>12, <1>13 DEF Mux!Inv

(* A child writes its next message behind the earlier ones. *)
LEMMA MuxChild ==
    ASSUME Mux!Inv, NEW q \in Queues, Mux!childMon(q) PROVE Mux!Inv'
<1>k. PICK k \in Nat : k = taken[q] + 1
  BY DEF Mux!Inv, Mux!TypeOK
<1>m. PICK m \in Mux!Msgs : m = [msqid |-> q, num |-> k]
  BY ZenonT(30) DEF Mux!Msgs
<1>L. PICK L \in Nat : L = Len(pipe)
  BY DEF Mux!Inv, Mux!TypeOK
<1>0. /\ Mux!TypeOK /\ Mux!TakenInv /\ Mux!ItemsInv /\ Mux!PrintedInv /\ Mux!Relayed
  BY DEF Mux!Inv
<1>1. PICK n \in {1, 2} : /\ Len(pipe') = L + n /\ pipe' \in Seq(Mux!Msgs)
                          /\ \A i \in 1 .. L : pipe'[i] = pipe[i]
                          /\ pipe'[L + 1] = m /\ (n = 2 => pipe'[L + 2] = m)
                          /\ n = 2 <=> qsent[q][k] # 0
  <2>1. m \in Mux!Msgs /\ pipe \in Seq(Mux!Msgs)
    BY <1>0 DEF Mux!TypeOK
  <2>2. pipe' = pipe \o (IF qsent[q][k] = 0 THEN <<m>> ELSE <<m, m>>)
    BY <1>k, <1>m, Zenon DEF Mux!childMon, Mux!Pieces
  <2>3. CASE qsent[q][k] = 0
    BY <1>L, <2>1, <2>2, <2>3
  <2>4. CASE qsent[q][k] # 0
    BY <1>L, <2>1, <2>2, <2>4
  <2> QED
    BY <2>3, <2>4
<1>2. /\ taken[q] \in Nat /\ k <= Len(qsent[q]) /\ qsent[q][k] \in Nat /\ qsent[q][k] <= MAX_MTEXT
      /\ taken' = [taken EXCEPT ![q] = k] /\ taken' \in [Queues -> Nat]
      /\ UNCHANGED <<qsent, selpc, pmsg, printed>>
  BY <1>0, <1>k DEF Mux!TypeOK, Mux!childMon, Mux!CanReceive
<1>3. Mux!TypeOK'
  BY <1>0, <1>1, <1>2 DEF Mux!TypeOK
<1>4. Mux!TakenInv'
  <2> SUFFICES ASSUME NEW r \in Queues
               PROVE  taken'[r] <= Len(qsent[r]) /\ \A l \in 1 .. taken'[r] : qsent[r][l] <= MAX_MTEXT
    BY <1>2, Zenon DEF Mux!TakenInv
  <2>1. CASE r = q
    BY <1>0, <1>2, <1>k, <2>1 DEF Mux!TakenInv, Mux!TypeOK
  <2>2. CASE r # q
    BY <1>0, <1>2, <2>2 DEF Mux!TakenInv, Mux!TypeOK
  <2> QED
    BY <2>1, <2>2
<1>5. /\ Mux!Items = Mux!First .. L /\ Mux!Items' = Mux!First .. (L + n) /\ Mux!First \in {0, 1}
      /\ Mux!First' = Mux!First
  BY <1>1, <1>2, <1>L DEF Mux!Items, Mux!First
<1>6. ASSUME NEW i \in Mux!Items' PROVE i \in Nat /\ (i \in Mux!Items \/ i = L + 1 \/ (n = 2 /\ i = L + 2))
  BY <1>1, <1>5
<1>7. ASSUME NEW i \in Mux!Items
      PROVE  /\ Mux!Item(i)' = Mux!Item(i) /\ i \in Mux!Items' /\ i <= L /\ i \in Nat
             /\ Mux!Item(i).msqid \in Queues /\ Mux!Item(i).num \in Nat
             /\ Mux!Item(i).num <= taken[Mux!Item(i).msqid] /\ Mux!Item(i).num >= 1
             /\ Mux!HasText(Mux!Item(i))' <=> Mux!HasText(Mux!Item(i))
  <2>1. i \in Nat /\ Mux!Item(i).msqid \in Queues /\ Mux!Item(i).num \in Nat
    BY <1>0, MuxItem DEF Mux!Msgs
  <2>2. i <= L /\ i \in Mux!Items' /\ (i = 0 \/ i \in 1 .. L)
    BY <1>1, <1>5, <2>1
  <2>3. Mux!Item(i)' = Mux!Item(i)
    BY <1>1, <1>2, <2>2 DEF Mux!Item
  <2>4. Mux!Item(i).num \in 1 .. taken[Mux!Item(i).msqid] /\ taken[Mux!Item(i).msqid] \in Nat
    BY <1>0, <2>1 DEF Mux!ItemsInv, Mux!TypeOK
  <2> QED
    BY <1>2, <2>1, <2>2, <2>3, <2>4 DEF Mux!HasText
<1>8. /\ Mux!Item(L + 1)' = m /\ L + 1 \in Mux!Items' /\ L + 1 \notin Mux!Items
      /\ n = 2 => Mux!Item(L + 2)' = m /\ L + 2 \in Mux!Items' /\ L + 2 \notin Mux!Items
      /\ Mux!HasText(m)' <=> n = 2
      /\ m.msqid = q /\ m.num = k
  <2>1. L + 1 # 0 /\ L + 2 # 0
    BY <1>1
  <2>2. m.msqid = q /\ m.num = k
    BY <1>m, Zenon
  <2>3. Mux!HasText(m)' <=> n = 2
    BY <1>1, <1>2, <2>2 DEF Mux!HasText
  <2>4. /\ L + 1 \in Mux!Items' /\ L + 1 \notin Mux!Items
        /\ n = 2 => L + 2 \in Mux!Items' /\ L + 2 \notin Mux!Items
    BY <1>1, <1>5
  <2> QED
    BY <1>1, <2>1, <2>2, <2>3, <2>4 DEF Mux!Item
<1>9. Mux!ItemsInv'
  <2> SUFFICES ASSUME NEW i \in Mux!Items'
               PROVE  /\ Mux!Item(i)'.num \in 1 .. taken'[Mux!Item(i)'.msqid]
                      /\ \A j \in Mux!Items' : i < j /\ Mux!Item(j)'.msqid = Mux!Item(i)'.msqid =>
                            \/ Mux!Item(i)'.num < Mux!Item(j)'.num
                            \/ j = i + 1 /\ Mux!Item(j)' = Mux!Item(i)' /\ Mux!HasText(Mux!Item(i))'
                      /\ Mux!HasText(Mux!Item(i))' =>
                            \/ i + 1 \in Mux!Items' /\ Mux!Item(i + 1)' = Mux!Item(i)'
                            \/ i - 1 \in Mux!Items' /\ Mux!Item(i - 1)' = Mux!Item(i)'
    BY DEF Mux!ItemsInv
  <2>1. CASE i \in Mux!Items
    <3>1. Mux!Item(i)'.num \in 1 .. taken'[Mux!Item(i)'.msqid]
      <4>1. taken'[Mux!Item(i).msqid] >= taken[Mux!Item(i).msqid] /\ taken'[Mux!Item(i).msqid] \in Nat /\ taken[Mux!Item(i).msqid] \in Nat
        BY <1>0, <1>2, <1>k, <1>7, <2>1, SMTT(30) DEF Mux!TypeOK
      <4> QED
        BY <1>7, <2>1, <4>1
    <3>2. ASSUME NEW j \in Mux!Items', i < j, Mux!Item(j)'.msqid = Mux!Item(i)'.msqid
          PROVE  \/ Mux!Item(i)'.num < Mux!Item(j)'.num
                 \/ j = i + 1 /\ Mux!Item(j)' = Mux!Item(i)' /\ Mux!HasText(Mux!Item(i))'
      <4>1. CASE j \in Mux!Items
        BY <1>0, <1>7, <2>1, <3>2, <4>1, Zenon DEF Mux!ItemsInv
      <4>2. CASE j \notin Mux!Items
        <5>1. Mux!Item(j)' = m
          BY <1>6, <1>8, <4>2, Zenon
        <5>2. Mux!Item(i).num <= taken[q]
          BY <1>7, <1>8, <2>1, <3>2, <5>1, ZenonT(30)
        <5> QED
          BY <1>2, <1>k, <1>7, <1>8, <2>1, <5>1, <5>2
      <4> QED
        BY <4>1, <4>2
    <3>3. ASSUME Mux!HasText(Mux!Item(i))'
          PROVE  \/ i + 1 \in Mux!Items' /\ Mux!Item(i + 1)' = Mux!Item(i)'
                 \/ i - 1 \in Mux!Items' /\ Mux!Item(i - 1)' = Mux!Item(i)'
      BY <1>0, <1>7, <2>1, <3>3 DEF Mux!ItemsInv
    <3> QED
      BY <3>1, <3>2, <3>3, Zenon
  <2>2. CASE i \notin Mux!Items
    <3>1. Mux!Item(i)' = m /\ (i = L + 1 \/ (n = 2 /\ i = L + 2))
      BY <1>6, <1>8, <2>2
    <3>2. Mux!Item(i)'.num \in 1 .. taken'[Mux!Item(i)'.msqid]
      <4>1. taken'[q] = k /\ k \in Nat /\ k >= 1
        BY <1>0, <1>2, <1>k DEF Mux!TypeOK
      <4> QED
        BY <1>8, <3>1, <4>1
    <3>3. Mux!HasText(Mux!Item(i))' <=> n = 2
      BY <1>8, <3>1, ZenonT(30)
    <3>4. ASSUME NEW j \in Mux!Items', i < j
          PROVE  j = i + 1 /\ Mux!Item(j)' = Mux!Item(i)' /\ n = 2
      BY <1>1, <1>6, <1>7, <1>8, <3>1, <3>4
    <3>5. n = 2 => \/ i + 1 \in Mux!Items' /\ Mux!Item(i + 1)' = Mux!Item(i)'
                   \/ i - 1 \in Mux!Items' /\ Mux!Item(i - 1)' = Mux!Item(i)'
      BY <1>1, <1>8, <3>1
    <3> QED
      BY <3>2, <3>3, <3>4, <3>5
  <2> QED
    BY <2>1, <2>2, Zenon
<1>10. Mux!PrintedInv'
  <2>1. ASSUME NEW j \in DOMAIN printed
        PROVE  /\ printed[j].head.msqid \in Queues /\ printed[j].head.num \in Nat
               /\ printed[j].head.num >= 1 /\ printed[j].head.num <= taken[printed[j].head.msqid]
    <3>1. printed[j].head.msqid \in Queues /\ printed[j].head.num \in Nat
      BY <1>0, MuxPrinted
    <3> QED
      BY <1>0, <3>1 DEF Mux!PrintedInv, Mux!TypeOK
  <2>2. ASSUME NEW j \in DOMAIN printed
        PROVE  printed[j].head.num \in 1 .. taken'[printed[j].head.msqid]
    <3>1. taken'[printed[j].head.msqid] >= taken[printed[j].head.msqid] /\ taken'[printed[j].head.msqid] \in Nat /\ taken[printed[j].head.msqid] \in Nat
      BY <1>0, <1>2, <1>k, <2>1 DEF Mux!TypeOK
    <3> QED
      BY <2>1, <3>1, SMTT(30)
  <2>3. ASSUME NEW j \in DOMAIN printed, NEW i \in Mux!Items', Mux!Item(i)'.msqid = printed[j].head.msqid
        PROVE  printed[j].head.num < Mux!Item(i)'.num
    <3>1. CASE i \in Mux!Items
      BY <1>0, <1>7, <2>3, <3>1, Zenon DEF Mux!PrintedInv
    <3>2. CASE i \notin Mux!Items
      <4>1. Mux!Item(i)' = m
        BY <1>6, <1>8, <3>2
      <4> QED
        BY <1>2, <1>k, <1>8, <2>1, <2>3, <4>1
    <3> QED
      BY <3>1, <3>2, Zenon
  <2>4. ASSUME NEW r \in Queues, NEW l \in 1 .. taken'[r]
        PROVE  \/ \E j \in DOMAIN printed : printed[j].head = [msqid |-> r, num |-> l]
               \/ \E i \in Mux!Items' : Mux!Item(i)' = [msqid |-> r, num |-> l]
    <3>1. CASE l \in 1 .. taken[r]
      BY <1>0, <1>7, <3>1, ZenonT(30) DEF Mux!PrintedInv
    <3>2. CASE l \notin 1 .. taken[r]
      <4>1. r = q /\ l = k
        BY <1>0, <1>2, <1>k, <3>2 DEF Mux!TypeOK
      <4> QED
        BY <1>8, <1>m, <4>1
    <3> QED
      BY <3>1, <3>2, Zenon
  <2> QED
    BY <1>2, <2>2, <2>3, <2>4, ZenonT(30) DEF Mux!PrintedInv
<1>11. Mux!Relayed'
  BY <1>0, <1>2 DEF Mux!Relayed
<1> QED
  BY <1>3, <1>4, <1>9, <1>10, <1>11 DEF Mux!Inv

(* Every step preserves it. *)
LEMMA MuxStep == Mux!Inv /\ [Mux!Next]_selectVars => Mux!Inv'
  BY MuxIdle, MuxHeader, MuxText, MuxChild DEF Mux!Next, Mux!Parent

(* For any queues, lengths of messages and sizes of the pipe and of a message: select_mq
   prints the messages of a queue in order, each once and each with its own text, and none
   after one that is too long. *)
THEOREM RelaySafety == Mux!Spec => []RelayExact
<1>1. Mux!Init => Mux!Inv
  BY MuxInit
<1>2. Mux!Inv /\ [Mux!Next]_(Mux!vars) => Mux!Inv'
  BY MuxStep DEF Mux!vars, selectVars
<1>3. ASSUME Mux!Inv PROVE Mux!LongStops
  <2> SUFFICES ASSUME NEW j \in DOMAIN printed, NEW k \in 1 .. printed[j].head.num
               PROVE  qsent[printed[j].head.msqid][k] <= MAX_MTEXT
    BY DEF Mux!LongStops
  <2>1. printed[j].head.msqid \in Queues /\ printed[j].head.num \in Nat
    BY <1>3, MuxPrinted, Zenon DEF Mux!Inv
  <2>2. printed[j].head.num \in 1 .. taken[printed[j].head.msqid] /\ taken[printed[j].head.msqid] \in Nat
    BY <1>3, <2>1, Zenon DEF Mux!Inv, Mux!PrintedInv, Mux!TypeOK
  <2>3. k \in 1 .. taken[printed[j].head.msqid]
    BY <2>1, <2>2
  <2> QED
    BY <1>3, <2>1, <2>3 DEF Mux!Inv, Mux!TakenInv
<1>4. Mux!Inv => RelayExact
  BY <1>3 DEF Mux!Inv, RelayExact
<1> QED
  BY <1>1, <1>2, <1>4, PTL DEF Mux!Spec

-----------------------------------------------------------------------------
(* thread_cleanup, thread_cancel, strerror_test, pthread_barrier_demo *)

INSTANCE Sums

VARIABLES app, wtpc, wmpc, wi, canceled, wmtx, wglob, blocks, arrived, reached, returns, bufs

waitVars == <<app, wtpc, wmpc, wi, canceled, wmtx, wglob, blocks, arrived, reached, returns, bufs>>
Waits == INSTANCE ThreadWaits WITH
             i <- wi, tpc <- wtpc, mpc <- wmpc, mtx <- wmtx, glob <- wglob, N <- NumWaiting
ASSUME WaitsAssumption == NumWaiting \in Nat \ {0} /\ numBarriers \in Nat

(* It holds before main has created a thread. *)
LEMMA WaitsInit == Waits!Init => Waits!Inv
<1> SUFFICES ASSUME Waits!Init PROVE Waits!Inv
  OBVIOUS
<1> USE WaitsAssumption DEF Waits!Init, Waits!Threads, Waits!numThreads
<1>1. Waits!TypeOK
  BY DEF Waits!TypeOK
<1>2. Waits!PlacesInv
  BY DEF Waits!PlacesInv, Waits!Labels, Waits!Apps, Waits!Strerrors, Waits!Ended
<1>3. Waits!CleanupInv /\ Waits!BuffersInv
  BY DEF Waits!CleanupInv, Waits!BuffersInv
<1>4. Waits!BarrierInv
  BY DEF Waits!BarrierInv
<1> QED
  BY <1>1, <1>2, <1>3, <1>4 DEF Waits!Inv

(* The invariant of the barrier depends on where a thread is only when it waits there. *)
LEMMA WaitsNoBarrier ==
    ASSUME Waits!Inv, UNCHANGED <<arrived, reached, returns>>,
           \A t \in Waits!Threads : wtpc'[t] = "blocked" <=> wtpc[t] = "blocked"
    PROVE  Waits!BarrierInv' /\ arrived' = {t \in Waits!Threads : wtpc'[t] = "blocked"}
  BY Zenon DEF Waits!Inv, Waits!TypeOK, Waits!BarrierInv

(* pthread_barrier_wait(): when as many threads have arrived as are counted, all have. *)
LEMMA WaitsAll ==
    ASSUME NEW S \in SUBSET Waits!Threads, NEW t \in Waits!Threads, t \notin S,
           ~(Waits!Cardinality(S) + 1 < NumWaiting)
    PROVE  S \cup {t} = Waits!Threads
<1>1. Waits!Cardinality(S) = Cardinality(S)
  BY SMTT(30) DEF Waits!Cardinality, Cardinality
<1>2. IsFiniteSet(Waits!Threads) /\ Cardinality(Waits!Threads) = NumWaiting
  <2>1. 0 \in Int /\ NumWaiting - 1 \in Int /\ ~(0 > NumWaiting - 1)
        /\ (NumWaiting - 1) - 0 + 1 = NumWaiting
    BY WaitsAssumption
  <2> QED
    BY <2>1, FS_Interval DEF Waits!Threads
<1>3. IsFiniteSet(S) /\ Cardinality(S) \in Nat
  BY <1>2, FS_Subset, FS_CardinalityType
<1>4. Cardinality(S \cup {t}) = Cardinality(S) + 1
  BY <1>3, FS_AddElement
<1>5. Cardinality(S \cup {t}) <= Cardinality(Waits!Threads)
      /\ (Cardinality(S \cup {t}) = Cardinality(Waits!Threads) => S \cup {t} = Waits!Threads)
  BY <1>2, FS_Subset
<1> QED
  BY <1>1, <1>2, <1>3, <1>4, <1>5, WaitsAssumption

(* A thread that calls pthread_barrier_wait() waits, or is the last and lets all go. *)
LEMMA WaitsPass ==
    ASSUME Waits!Inv, NEW t \in Waits!Threads, app = "barrier", Waits!BarrierWait(t),
           UNCHANGED Waits!sync
    PROVE  Waits!Inv'
<1> USE WaitsAssumption DEF Waits!sync, Waits!Goes
<1>1. CASE Waits!Cardinality(arrived) + 1 < Waits!Count
  <2>1. /\ wtpc' = [wtpc EXCEPT ![t] = "blocked"] /\ wtpc[t] = "start"
        /\ reached' = [reached EXCEPT ![t] = @ + 1] /\ arrived' = arrived \cup {t}
        /\ UNCHANGED <<app, wmpc, wi, canceled, returns>>
    BY <1>1 DEF Waits!BarrierWait
  <2>2. Waits!TypeOK' /\ Waits!PlacesInv' /\ Waits!CleanupInv' /\ Waits!BuffersInv'
    BY <2>1, ZenonT(30) DEF Waits!Inv, Waits!TypeOK, Waits!PlacesInv, Waits!CleanupInv, Waits!BuffersInv,
       Waits!Labels, Waits!Ended, Waits!Strerrors, Waits!Cleanups, Waits!Threads, Waits!numThreads
  <2>3. reached \in [Waits!Threads -> Nat] /\ DOMAIN wtpc = Waits!Threads
    BY Zenon DEF Waits!Inv, Waits!TypeOK, Waits!BarrierInv
  <2>4. \A u \in Waits!Threads :
           reached'[u] = Len(returns[u]) + (IF wtpc'[u] = "blocked" THEN 1 ELSE 0)
    BY <2>1, <2>3 DEF Waits!Inv, Waits!BarrierInv
  <2>5. Waits!BarrierInv'
    BY <2>1, <2>3, <2>4 DEF Waits!Inv, Waits!BarrierInv
  <2> QED
    BY <2>2, <2>5, Zenon DEF Waits!Inv
<1>2. CASE ~(Waits!Cardinality(arrived) + 1 < Waits!Count)
  <2>1. arrived \cup {t} = Waits!Threads
    BY <1>2, WaitsAll, Zenon DEF Waits!BarrierWait, Waits!Inv, Waits!TypeOK, Waits!Count
  <2>2. PICK serial \in Waits!Threads :
           /\ arrived' = {}
           /\ wtpc' = [u \in Waits!Threads |-> "released"]
           /\ returns' = [u \in Waits!Threads |-> Append(returns[u], Waits!Result(u, serial))]
           /\ UNCHANGED <<app, wmpc, wi, canceled>>
    BY <1>2, <2>1 DEF Waits!BarrierWait
  <2>3. reached' = [reached EXCEPT ![t] = @ + 1] /\ wtpc[t] = "start"
    BY Zenon DEF Waits!BarrierWait
  <2>4. \A u \in Waits!Threads : wtpc[u] = IF u = t THEN "start" ELSE "blocked"
    BY <2>1, <2>3 DEF Waits!Inv, Waits!TypeOK
  <2>5. Waits!TypeOK' /\ Waits!PlacesInv' /\ Waits!CleanupInv' /\ Waits!BuffersInv'
    BY <2>2, <2>4, ZenonT(30) DEF Waits!Inv, Waits!TypeOK, Waits!PlacesInv, Waits!CleanupInv, Waits!BuffersInv,
       Waits!Labels, Waits!Ended, Waits!Strerrors, Waits!Cleanups, Waits!Threads, Waits!numThreads
  <2>6. /\ reached \in [Waits!Threads -> Nat] /\ returns \in [Waits!Threads -> Seq({-1, 0})]
        /\ \A u, v \in Waits!Threads : Len(returns[u]) = Len(returns[v])
    BY Zenon DEF Waits!Inv, Waits!BarrierInv
  <2>7. \A u \in Waits!Threads :
           /\ Append(returns[u], Waits!Result(u, serial)) \in Seq({-1, 0})
           /\ returns'[u] \in Seq({-1, 0})
           /\ Len(returns'[u]) = Len(returns[u]) + 1
           /\ returns'[u][Len(returns[u]) + 1] = Waits!Result(u, serial)
           /\ \A k \in 1..Len(returns[u]) : returns'[u][k] = returns[u][k]
    <3> TAKE u \in Waits!Threads
    <3>1. returns[u] \in Seq({-1, 0}) /\ Waits!Result(u, serial) \in {-1, 0}
      BY <2>6, Zenon DEF Waits!Result
    <3> QED
      BY <2>2, <3>1
  <2>8. \A u \in Waits!Threads : reached'[u] = Len(returns'[u])
    <3> TAKE u \in Waits!Threads
    <3>1. reached[u] = Len(returns[u]) + (IF u = t THEN 0 ELSE 1) /\ Len(returns[u]) \in Nat
      BY <2>4, <2>6 DEF Waits!Inv, Waits!BarrierInv
    <3>2. reached'[u] = IF u = t THEN reached[u] + 1 ELSE reached[u]
      BY <2>3, <2>6, Zenon
    <3> QED
      BY <2>7, <3>1, <3>2
  <2>9. ASSUME NEW u \in Waits!Threads, NEW k \in 1..Len(returns'[u])
        PROVE  \E s \in Waits!Threads : \A v \in Waits!Threads : returns'[v][k] = Waits!Result(v, s)
    <3>1. CASE k = Len(returns[u]) + 1
      <4>1. \A v \in Waits!Threads : returns'[v][k] = Waits!Result(v, serial)
        BY <2>6, <2>7, <3>1, Zenon
      <4> QED
        BY <4>1, Zenon
    <3>2. CASE k \in 1..Len(returns[u])
      <4>1. PICK s \in Waits!Threads : \A v \in Waits!Threads : returns[v][k] = Waits!Result(v, s)
        <5>1. Waits!BarrierInv
          BY Zenon DEF Waits!Inv
        <5>2. \E s \in Waits!Threads : \A v \in Waits!Threads : returns[v][k] = Waits!Result(v, s)
          BY <3>2, <5>1, ZenonT(30) DEF Waits!BarrierInv
        <5> QED
          BY <5>2, Zenon
      <4>2. \A v \in Waits!Threads : returns'[v][k] = returns[v][k]
        BY <2>6, <2>7, <3>2, Zenon
      <4> QED
        BY <4>1, <4>2, Zenon
    <3>3. k \in 1..(Len(returns[u]) + 1) /\ Len(returns[u]) \in Nat
      BY <2>6, <2>7, <2>9, SMTT(30)
    <3> QED
      BY <3>1, <3>2, <3>3
  <2>10. returns' \in [Waits!Threads -> Seq({-1, 0})] /\ reached' \in [Waits!Threads -> Nat]
    BY <2>2, <2>3, <2>6, <2>7, SMTT(30)
  <2>11. /\ \A u, v \in Waits!Threads : Len(returns'[u]) = Len(returns'[v])
         /\ \A u \in Waits!Threads :
               /\ Len(returns'[u]) \in Nat
               /\ reached'[u] = Len(returns'[u]) + (IF wtpc'[u] = "blocked" THEN 1 ELSE 0)
    BY <2>2, <2>6, <2>7, <2>8
  <2>12. Waits!BarrierInv'
    BY <2>9, <2>10, <2>11, ZenonT(30) DEF Waits!BarrierInv, Waits!Threads
  <2> QED
    BY <2>5, <2>12, Zenon DEF Waits!Inv
<1> QED
  BY <1>1, <1>2

(* A step of thread_cleanup preserves it. *)
LEMMA WaitsCleanup ==
    ASSUME Waits!Inv, NEW t \in Waits!Threads, Waits!threadFunc_cleanup(t) \/ Waits!SpuriousWakeup(t)
    PROVE  Waits!Inv'
<1> USE WaitsAssumption DEF Waits!sync, Waits!barrier, Waits!Goes
<1>1. /\ app \in Waits!Cleanups /\ t = 0
      /\ UNCHANGED <<app, wmpc, wi, canceled, wglob, bufs, arrived, reached, returns>>
  BY SMTT(30), Zenon DEF Waits!threadFunc_cleanup, Waits!SpuriousWakeup, Waits!CondWait, Waits!cleanupHandler,
     Waits!Cleanups, Waits!Inv, Waits!TypeOK, Waits!PlacesInv, Waits!Labels, Waits!Threads, Waits!numThreads
<1>2. \E l : /\ wtpc' = [wtpc EXCEPT ![0] = l]
             /\ l \in Waits!Labels \ {"none", "start", "blocked"}
             /\ wtpc[0] \in Waits!Labels \ {"none", "blocked"}
             /\ ~Waits!Ended(0)
             /\ wmtx' \in {-1, 0} /\ (wmtx' = 0 <=> l \in {"test", "wait", "cleanup", "pop"})
             /\ blocks' \in {0, 1}
             /\ l = "returned" => blocks' = 0
             /\ l \notin {"returned", "canceled"} => blocks' = 1
  <2>1. CASE Waits!SpuriousWakeup(t)
    <3>1. /\ wtpc' = [wtpc EXCEPT ![0] = "relock"] /\ wtpc[0] = "waiting"
          /\ UNCHANGED <<wmtx, blocks>>
      BY <1>1, <2>1, ZenonT(30) DEF Waits!SpuriousWakeup
    <3>2. blocks = 1 /\ wmtx \in {-1, 0} /\ wmtx # 0
      BY <1>1, <3>1 DEF Waits!Cleanups, Waits!Inv, Waits!TypeOK, Waits!PlacesInv, Waits!CleanupInv,
         Waits!Threads, Waits!numThreads
    <3> WITNESS "relock"
    <3> QED
      BY <1>1, <3>1, <3>2, Zenon DEF Waits!Cleanups, Waits!Labels, Waits!Ended
  <2>2. CASE Waits!CondWait(t)
    BY <1>1, <2>2
       DEF Waits!CondWait, Waits!Cleanups, Waits!Inv, Waits!TypeOK, Waits!PlacesInv, Waits!Labels, Waits!Threads, Waits!numThreads, Waits!CleanupInv, Waits!Ended
  <2>3. CASE Waits!threadFunc_cleanup(t) /\ ~Waits!CondWait(t)
    BY <1>1, <2>3
       DEF Waits!threadFunc_cleanup, Waits!cleanupHandler, Waits!Cleanups, Waits!Inv, Waits!TypeOK, Waits!PlacesInv, Waits!Labels, Waits!Threads, Waits!numThreads, Waits!CleanupInv, Waits!Ended
  <2> QED
    BY <2>1, <2>2, <2>3
<1>3. Waits!BarrierInv' /\ Waits!TypeOK'
  BY <1>1, <1>2, WaitsNoBarrier DEF Waits!Inv, Waits!TypeOK, Waits!Labels, Waits!Cleanups, Waits!Threads, Waits!numThreads
<1>4. Waits!PlacesInv'
  BY <1>1, <1>2 DEF Waits!Inv, Waits!TypeOK, Waits!PlacesInv, Waits!Labels, Waits!Threads, Waits!numThreads, Waits!Ended, Waits!Cleanups
<1>5. Waits!CleanupInv' /\ Waits!BuffersInv'
  BY <1>1, <1>2 DEF Waits!Inv, Waits!TypeOK, Waits!PlacesInv, Waits!CleanupInv, Waits!BuffersInv, Waits!Labels,
    Waits!Threads, Waits!numThreads, Waits!Ended, Waits!Cleanups, Waits!Strerrors
<1> QED
  BY <1>3, <1>4, <1>5 DEF Waits!Inv

(* A step of thread_cancel preserves it. *)
LEMMA WaitsCancel ==
    ASSUME Waits!Inv, NEW t \in Waits!Threads, Waits!threadFunc_cancel(t)
    PROVE  Waits!Inv'
<1> USE WaitsAssumption DEF Waits!sync, Waits!barrier, Waits!Goes
<1>1. /\ app = "cancel" /\ t = 0 /\ wtpc[0] \in {"start", "sleep"}
      /\ UNCHANGED <<app, wmpc, wi, canceled, wmtx, wglob, blocks, bufs, arrived, reached, returns>>
  BY DEF Waits!threadFunc_cancel, Waits!Inv, Waits!PlacesInv, Waits!Threads, Waits!numThreads
<1>2. \E l \in {"start", "sleep", "canceled"} : wtpc' = [wtpc EXCEPT ![0] = l]
  BY <1>1, ZenonT(30) DEF Waits!threadFunc_cancel
<1>3. Waits!BarrierInv' /\ Waits!TypeOK'
  BY <1>1, <1>2, WaitsNoBarrier DEF Waits!Inv, Waits!TypeOK, Waits!Threads, Waits!numThreads
<1>4. Waits!PlacesInv' /\ Waits!CleanupInv' /\ Waits!BuffersInv'
  BY <1>1, <1>2 DEF Waits!Inv, Waits!TypeOK, Waits!PlacesInv, Waits!CleanupInv, Waits!BuffersInv,
     Waits!Labels, Waits!Threads, Waits!numThreads, Waits!Ended, Waits!Cleanups, Waits!Strerrors
<1> QED
  BY <1>3, <1>4, ZenonT(30) DEF Waits!Inv

(* A step of a thread of pthread_barrier_demo preserves it. *)
LEMMA WaitsBarrier ==
    ASSUME Waits!Inv, NEW t \in Waits!Threads, Waits!threadFunc_barrier(t)
    PROVE  Waits!Inv'
<1> USE WaitsAssumption DEF Waits!sync, Waits!barrier, Waits!Goes
<1>1. CASE Waits!BarrierWait(t)
  BY <1>1, WaitsPass, Zenon DEF Waits!threadFunc_barrier
<1>2. CASE ~Waits!BarrierWait(t)
  <2>1. /\ app = "barrier" /\ wtpc[t] \in {"start", "released"}
        /\ UNCHANGED <<app, wmpc, wi, canceled, wmtx, wglob, blocks, bufs, arrived, reached, returns>>
        /\ \E l \in {"start", "returned"} : wtpc' = [wtpc EXCEPT ![t] = l]
    BY <1>2, ZenonT(30) DEF Waits!threadFunc_barrier
  <2>2. Waits!BarrierInv' /\ Waits!TypeOK'
    BY <2>1, WaitsNoBarrier DEF Waits!Inv, Waits!TypeOK, Waits!numThreads
  <2>3. Waits!PlacesInv' /\ Waits!CleanupInv' /\ Waits!BuffersInv'
    BY <2>1 DEF Waits!Inv, Waits!TypeOK, Waits!PlacesInv, Waits!CleanupInv, Waits!BuffersInv,
       Waits!Labels, Waits!numThreads, Waits!Ended, Waits!Cleanups, Waits!Strerrors
  <2> QED
    BY <2>2, <2>3 DEF Waits!Inv
<1> QED
  BY <1>1, <1>2, Zenon

(* A step of the thread of strerror_test preserves it. *)
LEMMA WaitsStrerror ==
    ASSUME Waits!Inv, NEW t \in Waits!Threads, Waits!threadFunc_strerror(t)
    PROVE  Waits!Inv'
<1> USE WaitsAssumption DEF Waits!sync, Waits!barrier, Waits!Goes
<1>1. /\ app \in Waits!Strerrors /\ t = 0 /\ wtpc[0] \in {"start", "printf"}
      /\ UNCHANGED <<app, wmpc, wi, canceled, wmtx, wglob, blocks, arrived, reached, returns>>
      /\ wtpc' = [wtpc EXCEPT ![0] = IF wtpc[0] = "start" THEN "printf" ELSE "returned"]
  BY SMTT(30), Zenon DEF Waits!threadFunc_strerror, Waits!Inv, Waits!PlacesInv, Waits!Threads, Waits!numThreads,
     Waits!Strerrors
<1>2. Waits!BarrierInv' /\ Waits!TypeOK'
  BY <1>1, WaitsNoBarrier DEF Waits!Inv, Waits!TypeOK, Waits!Threads, Waits!numThreads
<1>3. Waits!PlacesInv' /\ Waits!CleanupInv'
  BY <1>1, ZenonT(30) DEF Waits!Inv, Waits!TypeOK, Waits!PlacesInv, Waits!CleanupInv,
     Waits!Labels, Waits!Threads, Waits!numThreads, Waits!Ended, Waits!Cleanups, Waits!Strerrors
<1>4. Waits!BuffersInv'
  <2>1. app = "strerror" => Waits!Buffer(0) = Waits!Buffer(-1)
    BY DEF Waits!Buffer
  <2>2. app # "strerror" => Waits!Buffer(0) # Waits!Buffer(-1)
    BY DEF Waits!Buffer
  <2>3. Waits!Buffer(-1)' = Waits!Buffer(-1) /\ Waits!Buffer(0)' = Waits!Buffer(0)
    BY <1>1, Zenon DEF Waits!Buffer
  <2>4. wmpc # "create" /\ DOMAIN wtpc = Waits!Threads /\ 0 \in Waits!Threads
    BY <1>1, SMTT(30) DEF Waits!Inv, Waits!TypeOK, Waits!PlacesInv, Waits!Threads, Waits!numThreads, Waits!Strerrors
  <2>5. CASE wtpc[0] = "start"
    <3>1. bufs' = [b \in DOMAIN bufs \cup {Waits!Buffer(0)} |-> IF b = Waits!Buffer(0) THEN "EPERM" ELSE bufs[b]]
      BY <1>1, <2>5, Zenon DEF Waits!threadFunc_strerror, Waits!strerror
    <3>2. DOMAIN bufs = {Waits!Buffer(-1)} /\ bufs[Waits!Buffer(-1)] = "EINVAL"
      BY <1>1, <2>5, ZenonT(30) DEF Waits!Inv, Waits!BuffersInv
    <3> QED
      BY <1>1, <2>1, <2>2, <2>3, <2>4, <2>5, <3>1, <3>2 DEF Waits!BuffersInv
  <2>6. CASE wtpc[0] = "printf"
    <3>1. bufs' = [b \in DOMAIN bufs \ (IF app = "strerror" THEN {} ELSE {Waits!Buffer(0)}) |-> bufs[b]]
      BY <1>1, <2>6, Zenon DEF Waits!threadFunc_strerror, Waits!destructor
    <3>2. /\ DOMAIN bufs = {Waits!Buffer(-1), Waits!Buffer(0)}
          /\ bufs[Waits!Buffer(-1)] = IF app = "strerror" THEN "EPERM" ELSE "EINVAL"
      BY <1>1, <2>6 DEF Waits!Inv, Waits!BuffersInv
    <3> QED
      BY <1>1, <2>1, <2>2, <2>3, <2>4, <2>6, <3>1, <3>2 DEF Waits!BuffersInv
  <2> QED
    BY <1>1, <2>5, <2>6
<1> QED
  BY <1>2, <1>3, <1>4, ZenonT(30) DEF Waits!Inv

(* A step of main preserves it. *)
LEMMA WaitsMain == ASSUME Waits!Inv, Waits!Main PROVE Waits!Inv'
<1> USE WaitsAssumption DEF Waits!MainGoes
<1>1. CASE Waits!Create
  <2>1. /\ wmpc = "create" /\ wtpc' = [wtpc EXCEPT ![wi] = "start"] /\ wtpc[wi] = "none" /\ wi \in Waits!Threads
        /\ UNCHANGED <<app, arrived, reached, returns, wmtx, blocks, canceled, wglob>>
        /\ wmpc' = "create" \/ wi' = 0
        /\ wmpc' \in {"create", "join", "glob", "cancel"}
    BY <1>1 DEF Waits!Create, Waits!Inv, Waits!PlacesInv, Waits!Threads, Waits!numThreads, Waits!Strerrors
  <2>2. /\ wi' \in Waits!Threads /\ wi' < Waits!numThreads /\ Waits!numThreads' = Waits!numThreads
        /\ wmpc' = "create" => wi' = wi + 1
        /\ wmpc' # "create" => wi + 1 = Waits!numThreads
        /\ wmpc' = "glob" => app = "cleanup-signal"
        /\ wmpc' = "cancel" => app \in {"cancel", "cleanup"}
    BY <1>1 DEF Waits!Create, Waits!Inv, Waits!PlacesInv, Waits!Threads, Waits!numThreads, Waits!Apps, Waits!Strerrors
  <2>3. Waits!BarrierInv' /\ Waits!TypeOK'
    BY <2>1, WaitsNoBarrier, Zenon DEF Waits!Inv, Waits!TypeOK
  <2>4. Waits!PlacesInv'
    <3>1. ASSUME NEW t \in Waits!Threads
          PROVE  /\ wtpc'[t] \in Waits!Labels'
                 /\ t >= Waits!numThreads => wtpc'[t] = "none"
                 /\ t < Waits!numThreads => (wtpc'[t] = "none" <=> wmpc' = "create" /\ t >= wi')
                 /\ ~(wmpc' = "join" /\ t < wi') /\ wmpc' # "done"
      <4>1. wtpc'[t] = IF t = wi THEN "start" ELSE wtpc[t]
        BY <2>1 DEF Waits!Inv, Waits!TypeOK
      <4>2. wtpc'[t] \in Waits!Labels'
        BY <2>1, <4>1, SMTT(30) DEF Waits!Inv, Waits!PlacesInv, Waits!Labels
      <4>3. t \in Int /\ wi \in Int /\ wi' \in Int /\ Waits!numThreads \in Int /\ t >= 0
        BY <2>1, <2>2 DEF Waits!Threads, Waits!numThreads
      <4> QED
        BY <2>1, <2>2, <4>1, <4>2, <4>3, SMTT(30) DEF Waits!Inv, Waits!PlacesInv
    <3> QED
      BY <2>1, <2>2, <3>1, ZenonT(30) DEF Waits!Inv, Waits!PlacesInv
  <2>5. Waits!CleanupInv'
    BY <2>1 DEF Waits!Inv, Waits!TypeOK, Waits!CleanupInv, Waits!Cleanups, Waits!PlacesInv, Waits!Labels
  <2>6. Waits!BuffersInv'
    <3>1. CASE app \in Waits!Strerrors
      <4>1. /\ wi = 0 /\ wmpc' # "create" /\ DOMAIN wtpc = Waits!Threads
            /\ bufs' = [b \in DOMAIN bufs \cup {Waits!Buffer(-1)} |-> IF b = Waits!Buffer(-1) THEN "EINVAL" ELSE bufs[b]]
        BY <1>1, <2>2, <3>1 DEF Waits!Create, Waits!main_strerror, Waits!strerror, Waits!Inv, Waits!TypeOK, Waits!PlacesInv,
           Waits!numThreads, Waits!Strerrors, Waits!Threads
      <4>2. DOMAIN bufs = {} /\ Waits!Buffer(-1)' = Waits!Buffer(-1)
        BY <2>1, <3>1, Zenon DEF Waits!Inv, Waits!BuffersInv, Waits!Buffer
      <4> QED
        BY <2>1, <4>1, <4>2 DEF Waits!BuffersInv
    <3>2. CASE app \notin Waits!Strerrors
      BY <2>1, <3>2 DEF Waits!BuffersInv, Waits!Strerrors
    <3> QED
      BY <3>1, <3>2, ZenonT(30)
  <2> QED
    BY <2>3, <2>4, <2>5, <2>6 DEF Waits!Inv
<1>2. CASE Waits!Cancel
  <2>1. /\ wmpc = "cancel" /\ wmpc' = "join" /\ canceled' = {wi} /\ wi = 0
        /\ UNCHANGED <<app, wtpc, wi, wglob, bufs, arrived, reached, returns, wmtx, blocks>>
    BY <1>2, SMTT(30) DEF Waits!Cancel, Waits!Inv, Waits!PlacesInv, Waits!numThreads, Waits!Threads
  <2>2. Waits!BarrierInv' /\ Waits!TypeOK'
    BY <2>1, WaitsNoBarrier DEF Waits!Inv, Waits!TypeOK
  <2>3. Waits!PlacesInv' /\ Waits!CleanupInv'
    BY <2>1, SMTT(30) DEF Waits!Inv, Waits!TypeOK, Waits!PlacesInv, Waits!CleanupInv, Waits!Labels, Waits!Ended, Waits!numThreads,
       Waits!Threads, Waits!Cleanups
  <2>4. Waits!BuffersInv'
    BY <2>1 DEF Waits!Inv, Waits!PlacesInv, Waits!BuffersInv, Waits!Strerrors
  <2> QED
    BY <2>2, <2>3, <2>4, ZenonT(30) DEF Waits!Inv
<1>3. CASE Waits!SetGlob
  <2>1. /\ wmpc \in {"glob", "signal"} /\ wmpc' \in {"signal", "join"} /\ app = "cleanup-signal" /\ wi = 0
        /\ wglob' \in {0, 1}
        /\ UNCHANGED <<app, wi, canceled, bufs, arrived, reached, returns, wmtx, blocks>>
    BY <1>3 DEF Waits!SetGlob, Waits!Inv, Waits!TypeOK, Waits!PlacesInv, Waits!numThreads, Waits!Threads
  <2>2. /\ wtpc \in [Waits!Threads -> {"none", "start", "printf", "lock", "test", "wait", "waiting", "relock",
                            "cleanup", "pop", "sleep", "blocked", "released", "returned", "canceled"}]
        /\ DOMAIN wtpc' = Waits!Threads /\ DOMAIN wtpc = Waits!Threads
        /\ \A t \in Waits!Threads : wtpc'[t] = wtpc[t] \/ (wtpc[t] = "waiting" /\ wtpc'[t] = "relock")
    BY <1>3, Zenon DEF Waits!SetGlob, Waits!Inv, Waits!TypeOK
  <2>3. wtpc' \in [Waits!Threads -> {"none", "start", "printf", "lock", "test", "wait", "waiting", "relock",
                            "cleanup", "pop", "sleep", "blocked", "released", "returned", "canceled"}]
    BY <1>3, <2>2, ZenonT(30) DEF Waits!SetGlob
  <2>4. Waits!BarrierInv' /\ Waits!TypeOK'
    BY <2>1, <2>2, <2>3, WaitsNoBarrier DEF Waits!Inv, Waits!TypeOK
  <2>5. Waits!PlacesInv'
    BY <2>1, <2>2, SMTT(30) DEF Waits!Inv, Waits!PlacesInv, Waits!Labels, Waits!Ended, Waits!numThreads, Waits!Threads
  <2>6. Waits!CleanupInv' /\ Waits!BuffersInv'
    BY <2>1, <2>2, SMTT(30) DEF Waits!Inv, Waits!CleanupInv, Waits!BuffersInv, Waits!Cleanups, Waits!Strerrors, Waits!Threads
  <2> QED
    BY <2>4, <2>5, <2>6, ZenonT(30) DEF Waits!Inv
<1>4. CASE Waits!Join
  <2>1. /\ wmpc = "join" /\ Waits!Ended(wi)
        /\ \/ wi + 1 < Waits!numThreads /\ wi' = wi + 1 /\ wmpc' = "join"
           \/ wi + 1 = Waits!numThreads /\ wi' = wi /\ wmpc' = "done"
        /\ UNCHANGED <<app, wtpc, canceled, wglob, bufs, arrived, reached, returns, wmtx, blocks>>
    BY <1>4, SMTT(30) DEF Waits!Join, Waits!Inv, Waits!PlacesInv, Waits!numThreads, Waits!Threads
  <2>2. Waits!BarrierInv' /\ Waits!TypeOK'
    BY <2>1, WaitsNoBarrier DEF Waits!Inv, Waits!TypeOK, Waits!PlacesInv, Waits!numThreads, Waits!Threads
  <2>3. Waits!PlacesInv'
    BY <2>1 DEF Waits!Inv, Waits!PlacesInv, Waits!Labels, Waits!Ended, Waits!numThreads, Waits!Threads
  <2>4. Waits!CleanupInv'
    BY <2>1, ZenonT(30) DEF Waits!Inv, Waits!CleanupInv, Waits!Cleanups
  <2>5. Waits!BuffersInv'
    BY <2>1 DEF Waits!Inv, Waits!BuffersInv, Waits!Buffer
  <2> QED
    BY <2>2, <2>3, <2>4, <2>5 DEF Waits!Inv
<1> QED
  BY <1>1, <1>2, <1>3, <1>4 DEF Waits!Main

(* Every step of main and of the threads preserves it. *)
LEMMA WaitsStep == ASSUME Waits!Inv, [Waits!Next]_waitVars PROVE Waits!Inv'
<1>1. CASE UNCHANGED waitVars
  <2>1. Waits!TypeOK' /\ Waits!PlacesInv'
    BY <1>1, ZenonT(30) DEF waitVars, Waits!Inv, Waits!TypeOK, Waits!PlacesInv, Waits!Labels, Waits!numThreads, Waits!Ended
  <2>2. Waits!CleanupInv' /\ Waits!BarrierInv'
    BY <1>1, SMTT(30) DEF waitVars, Waits!Inv, Waits!CleanupInv, Waits!BarrierInv
  <2>3. Waits!BuffersInv'
    BY <1>1 DEF waitVars, Waits!Inv, Waits!BuffersInv, Waits!Buffer
  <2> QED
    BY <2>1, <2>2, <2>3 DEF Waits!Inv
<1> QED
  BY <1>1, WaitsMain, WaitsCleanup, WaitsCancel, WaitsBarrier, WaitsStrerror DEF Waits!Next, Waits!ThreadFunc

(* What is said of the programs of ThreadWaits follows. *)
LEMMA WaitsSafe == ASSUME Waits!Inv PROVE Waits!CleanedUp /\ Waits!BarrierHolds /\ Waits!OwnErrorKept
<1> USE WaitsAssumption DEF Waits!Inv
<1>1. Waits!CleanedUp
  BY DEF Waits!CleanedUp, Waits!TypeOK, Waits!PlacesInv, Waits!CleanupInv, Waits!Labels, Waits!Ended, Waits!numThreads,
     Waits!Threads, Waits!Cleanups
<1>2. \A t, u \in Waits!Threads : Len(returns[t]) <= reached[u]
  BY DEF Waits!BarrierInv
<1>3. ASSUME NEW k \in 1..numBarriers, \A t \in Waits!Threads : Len(returns[t]) >= k
      PROVE  Waits!Cardinality({t \in Waits!Threads : returns[t][k] = -1}) = 1
  <2>1. 0 \in Waits!Threads /\ k \in 1..Len(returns[0])
    BY <1>3 DEF Waits!Threads, Waits!BarrierInv
  <2>2. PICK serial \in Waits!Threads : \A u \in Waits!Threads : returns[u][k] = Waits!Result(u, serial)
    BY <2>1 DEF Waits!BarrierInv
  <2>3. {t \in Waits!Threads : returns[t][k] = -1} = {serial}
    BY <2>2 DEF Waits!Result
  <2>4. Waits!Cardinality({serial}) = Cardinality({serial})
    BY Zenon DEF Waits!Cardinality, Cardinality
  <2> QED
    BY <2>3, <2>4, FS_Singleton, ZenonT(30)
<1>4. Waits!BarrierHolds
  BY <1>2, <1>3 DEF Waits!BarrierHolds
<1>5. Waits!OwnErrorKept
  BY DEF Waits!OwnErrorKept, Waits!BuffersInv, Waits!PlacesInv, Waits!Ended, Waits!Labels, Waits!Strerrors, Waits!numThreads,
     Waits!Threads
<1> QED
  BY <1>1, <1>4, <1>5

-----------------------------------------------------------------------------
(* thread_multijoin *)

VARIABLES threadMutex, signalled, numLive, numUnjoined, state, tpc, mpc, idx

joinVars == <<threadMutex, signalled, numLive, numUnjoined, state, tpc, mpc, idx>>
Multijoin == INSTANCE ThreadMultijoin WITH N <- NumJoined
ASSUME JoinAssumption == NumJoined \in Nat \ {0}

(* The cardinality of the thread table is the one the lemmas are about. *)
LEMMA JoinCardinality == ASSUME NEW S PROVE Multijoin!Cardinality(S) = Cardinality(S)
  BY Zenon DEF Multijoin!Cardinality, Cardinality

(* A set of threads has at most NumJoined members; all threads are NumJoined. *)
LEMMA JoinCount ==
    ASSUME NEW S \in SUBSET Multijoin!Thread
    PROVE  /\ IsFiniteSet(S) /\ Cardinality(S) \in 0..NumJoined
           /\ S = Multijoin!Thread => Cardinality(S) = NumJoined
<1>1. IsFiniteSet(Multijoin!Thread) /\ Cardinality(Multijoin!Thread) = NumJoined
  BY FS_Interval, JoinAssumption DEF Multijoin!Thread
<1>2. IsFiniteSet(S) /\ Cardinality(S) <= NumJoined
  BY <1>1, FS_Subset, Zenon
<1>3. Cardinality(S) \in Nat
  BY <1>2, FS_CardinalityType, Zenon
<1> QED
  BY <1>1, <1>2, <1>3

(* It holds before the first thread is created. *)
LEMMA JoinInit == Multijoin!Init => Multijoin!Inv
<1> SUFFICES ASSUME Multijoin!Init PROVE Multijoin!Inv
  OBVIOUS
<1> USE JoinAssumption, JoinCardinality
<1>1. Multijoin!Terminated = {}
  BY DEF Multijoin!Init, Multijoin!Terminated
<1>2. Cardinality(Multijoin!Terminated) = 0
  BY <1>1, FS_EmptySet, Zenon
<1>3. Multijoin!CountersMatchTable
  BY <1>2 DEF Multijoin!Init, Multijoin!CountersMatchTable, Multijoin!Terminated
<1>4. signalled \in BOOLEAN
  BY Zenon DEF Multijoin!Init
<1>5. Multijoin!TypeOK
  BY <1>4 DEF Multijoin!Init, Multijoin!TypeOK, Multijoin!Thread, Multijoin!Main, Multijoin!Nobody
<1> QED
  BY <1>3, <1>5 DEF Multijoin!Init, Multijoin!Inv, Multijoin!TableInv, Multijoin!MutexInv, Multijoin!CreateInv, Multijoin!Thread, Multijoin!Main, Multijoin!Nobody

(* Every step of main() and of a thread preserves it. *)
LEMMA JoinStep == ASSUME Multijoin!Inv, [Multijoin!Next]_joinVars PROVE Multijoin!Inv'
<1> USE JoinAssumption, JoinCardinality DEF Multijoin!Inv, Multijoin!TypeOK, Multijoin!TableInv, Multijoin!MutexInv, Multijoin!CreateInv, Multijoin!CountersMatchTable, Multijoin!Main, Multijoin!Nobody, Multijoin!Lock, Multijoin!Unlock
<1>0. /\ IsFiniteSet(Multijoin!Terminated) /\ Cardinality(Multijoin!Terminated) \in 0..NumJoined
      /\ IsFiniteSet(Multijoin!Unjoined) /\ Cardinality(Multijoin!Unjoined) \in 0..NumJoined
  BY JoinCount, ZenonT(30) DEF Multijoin!Terminated, Multijoin!Unjoined
<1>1. ASSUME NEW t \in Multijoin!Thread, Multijoin!ThreadLock(t) PROVE Multijoin!Inv'
  BY <1>1, SMTT(30) DEF Multijoin!ThreadLock, Multijoin!Thread
<1>2. ASSUME NEW t \in Multijoin!Thread, Multijoin!ThreadAnnounce(t) PROVE Multijoin!Inv'
  <2>1. Multijoin!Terminated' = Multijoin!Terminated \cup {t} /\ t \notin Multijoin!Terminated /\ Multijoin!Unjoined' = Multijoin!Unjoined
    BY <1>2 DEF Multijoin!ThreadAnnounce, Multijoin!Terminated, Multijoin!Unjoined
  <2>2. Cardinality(Multijoin!Terminated') = Cardinality(Multijoin!Terminated) + 1
    BY <1>0, <2>1, FS_AddElement, Zenon
  <2>3. Cardinality(Multijoin!Terminated') \in 0..NumJoined
    BY JoinCount, Zenon DEF Multijoin!Terminated
  <2>4. Multijoin!CountersMatchTable' /\ numUnjoined' \in 0..NumJoined
    BY <1>0, <1>2, <2>1, <2>2, <2>3, Zenon DEF Multijoin!ThreadAnnounce, Multijoin!Terminated, Multijoin!Unjoined
  <2> QED
    BY <1>2, <2>4 DEF Multijoin!ThreadAnnounce, Multijoin!Thread
<1>3. ASSUME NEW t \in Multijoin!Thread, Multijoin!ThreadSignal(t) PROVE Multijoin!Inv'
  BY <1>3, ZenonT(30) DEF Multijoin!ThreadSignal
<1>4. CASE Multijoin!Create
  <2>1. idx \in Multijoin!Thread /\ state[idx] = "none"
    BY <1>4 DEF Multijoin!Create, Multijoin!Thread
  <2>2. Multijoin!Terminated' = Multijoin!Terminated /\ Multijoin!Unjoined' = Multijoin!Thread
    BY <1>4, <2>1, Zenon DEF Multijoin!Create, Multijoin!Terminated, Multijoin!Unjoined
  <2>3. Cardinality(Multijoin!Thread) = NumJoined
    BY JoinCount, Zenon
  <2>4. Multijoin!CountersMatchTable'
    BY <1>4, <2>2, <2>3, ZenonT(30) DEF Multijoin!Create, Multijoin!Terminated, Multijoin!Unjoined
  <2> QED
    BY <1>4, <2>1, <2>4 DEF Multijoin!Create, Multijoin!Thread
<1>5. CASE Multijoin!MainLock
  BY <1>5, SMTT(30) DEF Multijoin!MainLock, Multijoin!Thread
<1>6. CASE Multijoin!CondWait
  <2>1. signalled' \in BOOLEAN
    BY <1>6, ZenonT(30) DEF Multijoin!CondWait
  <2> QED
    BY <1>6, <2>1 DEF Multijoin!CondWait, Multijoin!Thread
<1>7. CASE Multijoin!SpuriousWakeup
  <2>1. signalled' \in BOOLEAN
    BY <1>7, ZenonT(30) DEF Multijoin!SpuriousWakeup
  <2> QED
    BY <1>7, <2>1 DEF Multijoin!SpuriousWakeup
<1>8. CASE Multijoin!Relock
  BY <1>8, SMTT(30) DEF Multijoin!Relock, Multijoin!Thread
<1>9. CASE Multijoin!StartScan
  BY <1>9, SMTT(30) DEF Multijoin!StartScan
<1>10. CASE Multijoin!Skip
  BY <1>10, SMTT(30) DEF Multijoin!Skip
<1>11. CASE Multijoin!Join
  <2>1. idx \in Multijoin!Thread
    BY <1>11, SMTT(30) DEF Multijoin!Join, Multijoin!Thread
  <2>2. /\ Multijoin!Terminated' = Multijoin!Terminated \ {idx} /\ idx \in Multijoin!Terminated
        /\ Multijoin!Unjoined' = Multijoin!Unjoined \ {idx} /\ idx \in Multijoin!Unjoined
    BY <1>11, <2>1 DEF Multijoin!Join, Multijoin!Terminated, Multijoin!Unjoined
  <2>3. /\ Cardinality(Multijoin!Terminated') = Cardinality(Multijoin!Terminated) - 1
        /\ Cardinality(Multijoin!Unjoined') = Cardinality(Multijoin!Unjoined) - 1
    BY <1>0, <2>2, FS_RemoveElement, Zenon
  <2>4. Cardinality(Multijoin!Terminated') \in 0..NumJoined /\ Cardinality(Multijoin!Unjoined') \in 0..NumJoined
    BY JoinCount, Zenon DEF Multijoin!Terminated, Multijoin!Unjoined
  <2>5. Multijoin!CountersMatchTable' /\ numUnjoined' \in 0..NumJoined /\ numLive' \in 0..NumJoined
    BY <1>0, <1>11, <2>3, <2>4, ZenonT(30) DEF Multijoin!Join, Multijoin!Terminated, Multijoin!Unjoined
  <2> QED
    BY <1>11, <2>1, <2>5, SMTT(30) DEF Multijoin!Join, Multijoin!Thread
<1>12. CASE Multijoin!MainUnlock
  BY <1>12 DEF Multijoin!MainUnlock, Multijoin!Thread
<1>13. CASE Multijoin!Exit
  BY <1>13, Zenon DEF Multijoin!Exit
<1>14. CASE UNCHANGED joinVars
  BY <1>14, Zenon DEF joinVars
<1> QED
  BY <1>1, <1>2, <1>3, <1>4, <1>5, <1>6, <1>7, <1>8, <1>9, <1>10, <1>11, <1>12, <1>13, <1>14, Zenon
     DEF Multijoin!Next, Multijoin!MainThread, Multijoin!ThreadFunc

-----------------------------------------------------------------------------
(* prod_condvar and prod_no_condvar *)

VARIABLES polls, mtx, waiting, avail, numConsumed, done, left, ppc

prodVars == <<polls, mtx, waiting, avail, numConsumed, done, left, ppc>>
Prod == INSTANCE ProdCondvar WITH pc <- ppc, Main <- ProdMain, Nobody <- ProdNobody
ASSUME ProdAssumption ==
    /\ IsFiniteSet(Producers) /\ Cnt \in [Producers -> Nat]
    /\ ProdMain \notin Producers /\ ProdNobody \notin Producers \cup {ProdMain}

(* The sum of the units to make is the one the lemmas are about. *)
LEMMA ProdSum ==
    ASSUME NEW f, NEW S
    PROVE  Prod!SumFunctionOnSet(f, S) = SumFunctionOnSet(f, S)
  BY Zenon DEF Prod!SumFunctionOnSet, Prod!FoldFunctionOnSet, Prod!MapThenFoldSet,
         SumFunctionOnSet, FoldFunctionOnSet, MapThenFoldSet

(* What is left is a number, and a unit less when one has been made. *)
LEMMA LeftSum ==
    ASSUME NEW f \in [Producers -> Nat]
    PROVE  /\ SumFunctionOnSet(f, Producers) \in Nat
           /\ SumFunctionOnSet(f, Producers) = 0 => \A p \in Producers : f[p] = 0
           /\ \A p \in Producers :
                 SumFunctionOnSet([f EXCEPT ![p] = @ - 1], Producers) = SumFunctionOnSet(f, Producers) - 1
<1>1. /\ SumFunctionOnSet(f, Producers) \in Nat
      /\ \A x \in Producers : f[x] <= SumFunctionOnSet(f, Producers)
  BY SumNat, ProdAssumption, Zenon
<1>2. SumFunctionOnSet(f, Producers) = 0 => \A p \in Producers : f[p] = 0
  BY <1>1
<1>3. ASSUME NEW p \in Producers
      PROVE  SumFunctionOnSet([f EXCEPT ![p] = @ - 1], Producers) = SumFunctionOnSet(f, Producers) - 1
  <2> DEFINE e == [f EXCEPT ![p] = @ - 1]
  <2>1. e[p] = f[p] - 1 /\ e[p] \in Int /\ f[p] \in Int
    OBVIOUS
  <2>2. (\A y \in Producers : f[y] \in Int) /\ (\A y \in Producers \ {p} : e[y] = f[y])
    OBVIOUS
  <2> HIDE DEF e
  <2>3. SumFunctionOnSet(e, Producers) = SumFunctionOnSet(f, Producers) - f[p] + e[p]
    <3>1. IsFiniteSet(Producers)
      BY ProdAssumption, ZenonT(30)
    <3> QED
      BY <2>1, <2>2, <3>1, SumUpdate, SMT
  <2>4. SumFunctionOnSet(e, Producers) = SumFunctionOnSet(f, Producers) - 1
    BY <1>1, <2>1, <2>3
  <2> QED
    BY <2>4, Zenon DEF e
<1> QED
  BY <1>1, <1>2, <1>3, Zenon

(* It holds when no producer has been created. *)
LEMMA ProdInit == Prod!Init => Prod!Inv
<1> SUFFICES ASSUME Prod!Init PROVE Prod!Inv
  OBVIOUS
<1>1. waiting \in BOOLEAN /\ done \in BOOLEAN /\ ~done
  BY Zenon DEF Prod!Init
<1>2. Prod!TypeOK /\ Prod!PlacesInv
  BY <1>1, ProdAssumption, Zenon DEF Prod!Init, Prod!TypeOK, Prod!PlacesInv, Prod!Threads
<1>3. Prod!UnitsInv
  <2>1. SumFunctionOnSet(Cnt, Producers) \in Nat
    BY LeftSum, ProdAssumption
  <2> QED
    BY <1>1, <2>1, ProdSum DEF Prod!Init, Prod!UnitsInv, Prod!totRequired
<1> QED
  BY <1>2, <1>3 DEF Prod!Inv

(* Every step of a producer and of the consumer preserves it. *)
LEMMA ProdStep == ASSUME Prod!Inv, [Prod!Next]_prodVars PROVE Prod!Inv'
<1> USE ProdAssumption
    DEF Prod!Inv, Prod!TypeOK, Prod!PlacesInv, Prod!Threads, Prod!Go, Prod!Lock, Prod!Unlock, Prod!units
<1>0. /\ SumFunctionOnSet(left, Producers) \in Nat /\ Prod!totRequired \in Nat
      /\ Prod!SumFunctionOnSet(left, Producers) = SumFunctionOnSet(left, Producers)
  BY LeftSum, ProdSum, Zenon DEF Prod!totRequired
<1>1. ASSUME UNCHANGED <<avail, numConsumed, done, left>> PROVE Prod!UnitsInv'
  BY <1>1 DEF Prod!UnitsInv
<1>2. ASSUME NEW p \in Producers, Prod!Producer(p) PROVE Prod!Inv'
  <2>1. CASE Prod!ProducerLock(p)
    BY <1>1, <2>1, ZenonT(30) DEF Prod!ProducerLock
  <2>2. CASE Prod!ProducerProduce(p)
    <3>1. left' = [left EXCEPT ![p] = @ - 1] /\ left' \in [Producers -> Nat]
      BY <2>2 DEF Prod!ProducerProduce
    <3>2. Prod!SumFunctionOnSet(left', Producers) = SumFunctionOnSet(left, Producers) - 1
      BY <3>1, LeftSum, ProdSum, Zenon
    <3>3. avail' = avail + 1 /\ UNCHANGED <<numConsumed, done>>
      BY <2>2, ZenonT(30) DEF Prod!ProducerProduce
    <3>4. Prod!UnitsInv'
      BY <1>0, <3>2, <3>3 DEF Prod!UnitsInv
    <3> QED
      BY <2>2, <3>1, <3>4, SMTT(30) DEF Prod!ProducerProduce
  <2>3. CASE Prod!ProducerUnlock(p)
    BY <1>1, <2>3, Zenon DEF Prod!ProducerUnlock
  <2>4. CASE Prod!PolledProducerUnlock(p)
    BY <1>1, <2>4, ZenonT(30) DEF Prod!PolledProducerUnlock
  <2>5. CASE Prod!ProducerSignal(p)
    <3>1. waiting' \in BOOLEAN
      BY <2>5, Zenon DEF Prod!ProducerSignal
    <3> QED
      BY <1>1, <2>5, <3>1 DEF Prod!ProducerSignal
  <2>6. CASE Prod!ProducerReturn(p)
    BY <1>1, <2>6, Zenon DEF Prod!ProducerReturn
  <2> QED
    BY <1>2, <2>1, <2>2, <2>3, <2>4, <2>5, <2>6, Zenon DEF Prod!Producer
<1>3. ASSUME NEW p \in Producers, Prod!Create(p) PROVE Prod!Inv'
  BY <1>1, <1>3, Zenon DEF Prod!Create
<1>4. CASE Prod!ConsumerLock
  BY <1>1, <1>4, Zenon DEF Prod!ConsumerLock
<1>5. CASE Prod!ConsumerWait
  BY <1>1, <1>5, ZenonT(30) DEF Prod!ConsumerWait
<1>6. CASE Prod!SpuriousWakeup
  <2>1. waiting' \in BOOLEAN
    BY <1>6, Zenon DEF Prod!SpuriousWakeup
  <2> QED
    BY <1>1, <1>6, <2>1 DEF Prod!SpuriousWakeup
<1>7. CASE Prod!ConsumerRelock
  BY <1>1, <1>7, Zenon DEF Prod!ConsumerRelock
<1>8. CASE Prod!ConsumerPolls
  BY <1>1, <1>8, ZenonT(30) DEF Prod!ConsumerPolls
<1>9. CASE Prod!ConsumerConsume
  <2>1. /\ avail' = avail - 1 /\ numConsumed' = numConsumed + 1 /\ left' = left
        /\ done' <=> numConsumed' >= Prod!totRequired
    BY <1>9, ZenonT(30) DEF Prod!ConsumerConsume
  <2>2. Prod!UnitsInv'
    BY <1>0, <2>1 DEF Prod!UnitsInv
  <2> QED
    BY <1>0, <1>9, <2>2 DEF Prod!ConsumerConsume
<1>10. CASE Prod!ConsumerUnlock
  BY <1>1, <1>10, ZenonT(30) DEF Prod!ConsumerUnlock
<1>11. CASE UNCHANGED prodVars
  BY <1>1, <1>11 DEF prodVars
<1> QED
  BY <1>2, <1>3, <1>4, <1>5, <1>6, <1>7, <1>8, <1>9, <1>10, <1>11, Zenon DEF Prod!Next, Prod!Consumer

(* A step makes a unit, consumes one, ends the loop when none is left, or changes nothing
   that UnitStream knows of. *)
LEMMA ProdRefines ==
    ASSUME Prod!Inv, [Prod!Next]_prodVars
    PROVE  [Prod!Stream!Next]_(<<left, avail, numConsumed, ppc[ProdMain] = "exit">>)
<1> DEFINE abs == <<left, avail, numConsumed, ppc[ProdMain] = "exit">>
<1> USE ProdAssumption
    DEF Prod!Inv, Prod!TypeOK, Prod!PlacesInv, Prod!Threads, Prod!Go, Prod!Lock, Prod!Unlock, Prod!units
<1>0. /\ SumFunctionOnSet(left, Producers) \in Nat /\ Prod!totRequired \in Nat
      /\ SumFunctionOnSet(left, Producers) = 0 => \A p \in Producers : left[p] = 0
      /\ Prod!SumFunctionOnSet(left, Producers) = SumFunctionOnSet(left, Producers)
  BY LeftSum, ProdSum DEF Prod!totRequired
<1>1. ASSUME NEW p \in Producers, Prod!Producer(p) PROVE [Prod!Stream!Next]_abs
  <2>1. CASE Prod!ProducerProduce(p)
    <3>1. Prod!Stream!Produce(p)
      BY <2>1, Zenon DEF Prod!ProducerProduce, Prod!Stream!Produce
    <3> QED
      BY <3>1 DEF Prod!Stream!Next
  <2>2. CASE ~Prod!ProducerProduce(p)
    BY <1>1, <2>2, ZenonT(30) DEF Prod!Producer, Prod!ProducerLock, Prod!ProducerUnlock,
       Prod!PolledProducerUnlock, Prod!ProducerSignal, Prod!ProducerReturn
  <2> QED
    BY <2>1, <2>2, ZenonT(30)
<1>2. ASSUME NEW p \in Producers, Prod!Create(p) PROVE UNCHANGED abs
  BY <1>2 DEF Prod!Create
<1>3. CASE Prod!ConsumerConsume
  <2>1. Prod!Stream!Consume
    BY <1>3, Zenon DEF Prod!ConsumerConsume, Prod!Stream!Consume
  <2> QED
    BY <2>1, Zenon DEF Prod!Stream!Next
<1>4. CASE Prod!ConsumerUnlock
  <2>1. CASE done
    <3>1. avail = 0 /\ \A p \in Producers : left[p] = 0
      BY <1>0, <2>1 DEF Prod!UnitsInv
    <3>2. Prod!Stream!Finish
      BY <1>4, <2>1, <3>1, Zenon DEF Prod!ConsumerUnlock, Prod!Stream!Finish
    <3> QED
      BY <3>2, Zenon DEF Prod!Stream!Next
  <2>2. CASE ~done
    BY <1>4, <2>2, Zenon DEF Prod!ConsumerUnlock
  <2> QED
    BY <2>1, <2>2, Zenon
<1>5. CASE Prod!ConsumerLock \/ Prod!ConsumerWait \/ Prod!SpuriousWakeup \/ Prod!ConsumerRelock
           \/ Prod!ConsumerPolls
  BY <1>5, ZenonT(30) DEF Prod!ConsumerLock, Prod!ConsumerWait, Prod!SpuriousWakeup, Prod!ConsumerRelock,
     Prod!ConsumerPolls
<1>6. CASE UNCHANGED prodVars
  BY <1>6 DEF prodVars
<1> QED
  BY <1>1, <1>2, <1>3, <1>4, <1>5, <1>6, Zenon DEF Prod!Next, Prod!Consumer

(* prod_condvar and prod_no_condvar implement UnitStream: no unit is lost or consumed
   twice, and main ends its loop only when all have been consumed. *)
UnitsConsumed == Prod!StreamSpec

(* For any producers and counts: the counts of prod_condvar and prod_no_condvar are those of UnitStream, whose stream is
   finished when main has left its loop. *)
THEOREM ProdUnits == Prod!Spec => UnitsConsumed
<1>1. Prod!Init => Prod!Inv
  BY ProdInit
<1>2. Prod!Inv /\ [Prod!Next]_(Prod!vars) => Prod!Inv'
  BY ProdStep, Zenon DEF Prod!vars, Prod!units, prodVars
<1>3. Prod!Init => Prod!Stream!Init
  BY ProdAssumption, Zenon DEF Prod!Init, Prod!Stream!Init, Prod!Threads
<1>4. Prod!Inv /\ [Prod!Next]_(Prod!vars) =>
         [Prod!Stream!Next]_(<<left, avail, numConsumed, ppc[ProdMain] = "exit">>)
  BY ProdRefines DEF Prod!vars, Prod!units, prodVars
<1> QED
  BY <1>1, <1>2, <1>3, <1>4, PTL DEF Prod!Spec, UnitsConsumed, Prod!StreamSpec, Prod!Stream!Spec
-----------------------------------------------------------------------------
(* The three programs with threads and mutexes *)

(* The mutex of the producers is held by the thread between lock and unlock. The counters
   of thread_multijoin agree with its table, and the thread main joins no longer needs the
   mutex main holds. A cancelled thread of thread_cleanup leaves no mutex locked, and no
   block unless it had not yet pushed its handler. Nobody passes the barrier before all
   have reached it. What strerror() has returned to main is still there after another thread
   has called it, unless its buffer is static. *)
ThreadsSafe ==
    /\ Prod!Inv
    /\ Multijoin!Inv /\ Multijoin!AnnouncedIsFree
    /\ Waits!TypeOK /\ Waits!CleanedUp /\ Waits!BarrierHolds /\ Waits!OwnErrorKept /\ Waits!Inv

(* For any number of producers, units, joined and waiting threads and barriers. *)
THEOREM ThreadsSafety == Prod!Spec /\ Multijoin!Spec /\ Waits!Spec => []ThreadsSafe
<1>1. Prod!Init => Prod!Inv
  BY ProdInit
<1>2. Prod!Inv /\ [Prod!Next]_(Prod!vars) => Prod!Inv'
  BY ProdStep DEF Prod!vars, Prod!units, prodVars
<1>3. Multijoin!Init => Multijoin!Inv
  BY JoinInit
<1>4. Multijoin!Inv /\ [Multijoin!Next]_(Multijoin!vars) => Multijoin!Inv'
  BY JoinStep, Zenon DEF Multijoin!vars, joinVars
<1>5. Waits!Init => Waits!Inv
  BY WaitsInit
<1>6. Waits!Inv /\ [Waits!Next]_(Waits!vars) => Waits!Inv'
  BY WaitsStep DEF Waits!vars, waitVars
<1>7. Prod!Inv /\ Multijoin!Inv /\ Waits!Inv => ThreadsSafe
  <2>1. Multijoin!Inv => Multijoin!AnnouncedIsFree
    BY Zenon DEF Multijoin!Inv, Multijoin!TypeOK, Multijoin!TableInv, Multijoin!AnnouncedIsFree
  <2>2. Waits!Inv => Waits!TypeOK
    BY DEF Waits!Inv
  <2> QED
    BY <2>1, <2>2, WaitsSafe, Zenon DEF ThreadsSafe
<1> QED
  BY <1>1, <1>2, <1>3, <1>4, <1>5, <1>6, <1>7, PTL DEF Prod!Spec, Multijoin!Spec, Waits!Spec
=============================================================================
