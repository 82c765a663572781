----------------------------- MODULE MCTransfer -----------------------------
(***************************************************************************)
(* The programs that move a stream of bytes or wait for input, and those   *)
(* that change the terminal: svshm_xfr (ShmXfr), with the proofs about it, *)
(* the echo server (EchoServer), with those about it, us_xfr (SockXfr),    *)
(* readn() and writen() (Rdwrn), the programs of tty/ (TtyPrograms),       *)
(* script and unbuffer (PtyRelay) and those of altio/ (InputEvents).       *)
(***************************************************************************)
EXTENDS ShmXfr, TLAPS

-----------------------------------------------------------------------------
(* svshm_xfr, for every file and every buffer size. The safety properties are not inductive:
   they follow from Inv, which says who holds the single "turn" (a semaphore value or one of
   the programs), and where the bytes read so far are (in the output or in the segment). *)

ReaderStarting == rpc \in {"semget", "shmget", "failed"}

ReaderHolds == rpc \in {"test", "write", "release", "shmdt", "releaseLast", "fatal"}

ReaderSawEOF == rpc \in {"shmdt", "releaseLast", "done"}

(* Exactly one of the two semaphores, the reader and the writer has the turn. *)
TurnInv ==
    /\ wpc \in {"semget", "initSemAvailable"} =>
          ReaderStarting /\ sem[WRITE_SEM] = 0 /\ sem[READ_SEM] = 0
    /\ wpc \in {"initSemInUse", "shmget"} =>
          ReaderStarting /\ sem[WRITE_SEM] = 1 /\ sem[READ_SEM] = 0
    /\ wpc \in {"read", "release", "failed"} =>
          /\ ~ReaderHolds /\ rpc # "done"
          /\ sem[WRITE_SEM] = 0 /\ sem[READ_SEM] = 0
    /\ wpc \in {"reserve", "testEOF", "reserveLast"} =>
          \/ ReaderHolds /\ sem[WRITE_SEM] = 0 /\ sem[READ_SEM] = 0
          \/ ~ReaderHolds /\ rpc # "done" /\ sem[WRITE_SEM] = 0 /\ sem[READ_SEM] = 1
          \/ ~ReaderHolds /\ sem[WRITE_SEM] = 1 /\ sem[READ_SEM] = 0
    /\ wpc \in {"rmSem", "rmShm", "done"} => rpc = "done"

(* The objects exist from their creation to their removal. *)
ObjectInv ==
    /\ semExists <=> wpc \notin {"semget", "rmShm", "done"}
    /\ shmExists <=> wpc \notin {"semget", "initSemAvailable", "initSemInUse",
                                 "shmget", "done"}
    /\ ~ReaderStarting /\ rpc # "done" => shmExists

(* The segment holds a block that the reader has not written out. *)
BlockPending ==
    \/ wpc = "release"
    \/ sem[READ_SEM] = 1
    \/ rpc \in {"test", "write", "fatal"}

DataInv ==
    /\ \A i \in 1..Len(output) : output[i] = File[i]
    /\ wpc # "failed" => cnt >= 0
    /\ BlockPending =>
          /\ Len(output) + cnt = pos
          /\ \A i \in 1..cnt : buf[i] = File[Len(output) + i]
    /\ ~BlockPending => Len(output) = pos
    /\ rpc \in {"write", "release", "fatal"} => cnt > 0

(* A block of length 0 is in the segment only when the file is finished. *)
EOFInv ==
    /\ wpc \in {"release", "testEOF"} => (cnt = 0 => pos = Len(File))
    /\ wpc = "reserveLast" => cnt = 0 /\ pos = Len(File)
    /\ BlockPending /\ wpc = "reserve" => cnt > 0
    /\ wpc \in {"testEOF", "reserveLast"} /\ cnt = 0 /\ sem[WRITE_SEM] = 1
          => rpc = "done"
    /\ ReaderSawEOF =>
          /\ cnt = 0
          /\ pos = Len(File)
          /\ wpc \in {"testEOF", "reserveLast", "rmSem", "rmShm", "done"}

CountInv ==
    /\ wbytes = IF wpc \in {"release", "testEOF"} THEN pos - cnt ELSE pos
    /\ rbytes = IF rpc \in {"write", "fatal"} THEN Len(output) + cnt
                                              ELSE Len(output)

Inv == TypeOK /\ TurnInv /\ ObjectInv /\ DataInv /\ EOFInv /\ CountInv
-----------------------------------------------------------------------------
USE DEF WRITE_SEM, READ_SEM, semVars, shmVars, writerVars, readerVars

(* The initial state of the two programs satisfies the invariant. *)
LEMMA InitInv == Init => Inv
<1> SUFFICES ASSUME Init PROVE Inv
  OBVIOUS
<1>1. TypeOK
  <2>1. semExists \in BOOLEAN /\ shmExists \in BOOLEAN
    BY Zenon DEF Init
  <2>2. buf \in [1..BUF_SIZE -> Byte] /\ sem \in [{WRITE_SEM, READ_SEM} -> 0..1]
    BY ByteAssumption DEF Init
  <2>3. cnt \in -1..BUF_SIZE /\ pos \in 0..Len(File) /\ output \in Seq(Byte)
    BY BufAssumption, FileAssumption DEF Init
  <2> QED
    BY <2>1, <2>2, <2>3 DEF Init, TypeOK, WriterPCs, ReaderPCs
<1>2. TurnInv
  BY DEF Init, TurnInv, ReaderStarting, ReaderHolds, ReaderSawEOF, BlockPending
<1>3. ObjectInv /\ EOFInv
  BY FileAssumption DEF Init, ObjectInv, EOFInv, ReaderStarting, ReaderHolds, ReaderSawEOF, BlockPending
<1>4. DataInv /\ CountInv
  BY FileAssumption DEF Init, DataInv, CountInv, BlockPending
<1> QED
  BY <1>1, <1>2, <1>3, <1>4, ZenonT(30) DEF Inv

(* Every call of the writer and of the reader preserves the invariant. *)
LEMMA StepInv == Inv /\ [Next]_vars => Inv'
<1> SUFFICES ASSUME Inv, [Next]_vars PROVE Inv'
  OBVIOUS
<1> USE BufAssumption, ByteAssumption, FileAssumption
    DEF Inv, TypeOK, TurnInv, ObjectInv, DataInv, EOFInv, CountInv,
        ReaderStarting, ReaderHolds, ReaderSawEOF, BlockPending,
        WriterPCs, ReaderPCs, WriterAt, ReaderAt
<1>1. CASE WriterSemget
  BY <1>1 DEF WriterSemget
<1>2. CASE WriterInitSemAvailable
  BY <1>2 DEF WriterInitSemAvailable, initSemAvailable
<1>3. CASE WriterInitSemInUse
  BY <1>3 DEF WriterInitSemInUse, initSemInUse
<1>4. CASE WriterShmget
  BY <1>4 DEF WriterShmget
<1>5. CASE WriterReserve
  BY <1>5 DEF WriterReserve, reserveSem
<1>6. CASE WriterRead
  <2> PICK n \in 0..BUF_SIZE :
         /\ pos + n <= Len(File)
         /\ n = 0 <=> pos = Len(File)
         /\ cnt' = n
         /\ buf' = [i \in 1..BUF_SIZE |->
                       IF i <= n THEN File[pos + i] ELSE buf[i]]
         /\ pos' = pos + n
    BY <1>6 DEF WriterRead
  <2>1. /\ wpc = "read" /\ wpc' = "release"
        /\ UNCHANGED <<semVars, shmExists, wbytes, readerVars>>
    BY <1>6 DEF WriterRead
  <2>2. pos = Len(output)
    BY <2>1
  <2>3. TypeOK'
    <3>1. \A i \in 1..n : File[pos + i] \in Byte
      OBVIOUS
    <3>2. buf' \in [1..BUF_SIZE -> Byte]
      BY <3>1, SMTT(30)
    <3> QED
      BY <2>1, <3>2
  <2>4. DataInv'
    BY <2>1, <2>2
  <2>5. TurnInv' /\ ObjectInv' /\ EOFInv' /\ CountInv'
    BY <2>1
  <2> QED
    BY <2>3, <2>4, <2>5, SMTT(30)
<1>7. CASE WriterRelease
  BY <1>7 DEF WriterRelease, releaseSem
<1>8. CASE WriterTestEOF
  BY <1>8 DEF WriterTestEOF
<1>9. CASE WriterReserveLast
  BY <1>9 DEF WriterReserveLast, reserveSem
<1>10. CASE WriterRmSem
  BY <1>10, Zenon DEF WriterRmSem
<1>11. CASE WriterRmShm
  BY <1>11, Zenon DEF WriterRmShm
<1>12. CASE WriterReadFails
  BY <1>12 DEF WriterReadFails
<1>13. CASE ReaderSemget
  BY <1>13 DEF ReaderSemget
<1>14. CASE ReaderShmget
  BY <1>14 DEF ReaderShmget
<1>15. CASE ReaderRunAgain
  BY <1>15 DEF ReaderRunAgain
<1>16. CASE ReaderReserve
  BY <1>16 DEF ReaderReserve, reserveSem
<1>17. CASE ReaderTest
  BY <1>17 DEF ReaderTest
<1>18. CASE ReaderWrite
  BY <1>18 DEF ReaderWrite
<1>19. CASE ReaderRelease
  BY <1>19 DEF ReaderRelease, releaseSem
<1>20. CASE ReaderShmdt
  BY <1>20 DEF ReaderShmdt
<1>21. CASE ReaderReleaseLast
  BY <1>21 DEF ReaderReleaseLast, releaseSem
<1>22. CASE ReaderWriteFails
  BY <1>22 DEF ReaderWriteFails
<1>23. CASE UNCHANGED vars
  BY <1>23 DEF vars
<1> QED
  BY <1>1, <1>2, <1>3, <1>4, <1>5, <1>6, <1>7, <1>8, <1>9, <1>10, <1>11, <1>12, <1>13, <1>14, <1>15, <1>16, <1>17, <1>18, <1>19, <1>20, <1>21, <1>22, <1>23, ZenonT(30) DEF Next, Writer, Reader, Terminating

(* The invariant holds throughout. *)
LEMMA InvAlways == Spec => []Inv
BY InitInv, StepInv, PTL DEF Spec

(* Two sequences over Byte with the same length and the same elements are equal. *)
LEMMA SameBytes ==
    ASSUME NEW s \in Seq(Byte), Len(s) = Len(File),
           \A i \in 1..Len(s) : s[i] = File[i]
    PROVE  s = File
BY FileAssumption

(* The reader's output equals the file once it has seen end-of-file. *)
LEMMA EOFOutput == Inv /\ ReaderSawEOF => output = File
<1> SUFFICES ASSUME Inv, ReaderSawEOF PROVE output = File
  OBVIOUS
<1>1. ~BlockPending \/ cnt = 0
  BY DEF Inv, EOFInv, BlockPending
<1>2. output \in Seq(Byte) /\ Len(output) = Len(File)
  BY <1>1 DEF Inv, TypeOK, DataInv, EOFInv
<1> QED
  BY <1>2, SameBytes DEF Inv, DataInv

-----------------------------------------------------------------------------
(* The variables of both programs keep their types, and both semaphores stay
   binary. *)
THEOREM TypeCorrect == Spec => []TypeOK
BY InvAlways, PTL DEF Inv

(* The writer's read() into the segment and the reader's accesses exclude
   each other. *)
THEOREM Exclusion == Spec => []SegmentExclusive
<1>1. Inv => SegmentExclusive
  BY DEF Inv, TurnInv, SegmentExclusive, ReaderHolds
<1> QED
  BY <1>1, InvAlways, PTL

(* The output is a prefix of the file at all times, for every file, every
   buffer size and every sequence of short reads. *)
THEOREM PrefixOutput == Spec => []OutputIsPrefix
<1>1. Inv => OutputIsPrefix
  BY BufAssumption DEF Inv, TypeOK, DataInv, TurnInv, BlockPending, ReaderHolds, OutputIsPrefix
<1> QED
  BY <1>1, InvAlways, PTL

(* When the reader has seen end-of-file nothing is missing and both byte
   counts agree. *)
THEOREM Delivery == Spec => []AllDelivered
<1>1. Inv => AllDelivered
  BY EOFOutput, FileAssumption
     DEF Inv, TypeOK, EOFInv, CountInv, AllDelivered, ReaderSawEOF
<1> QED
  BY <1>1, InvAlways, PTL

(* The objects are removed only after their last use. *)
THEOREM SafeRemoval == Spec => []RemovedOnlyAfterUse
<1>1. Inv => RemovedOnlyAfterUse
  BY DEF Inv, ObjectInv, TurnInv, ReaderStarting, ReaderHolds, RemovedOnlyAfterUse,
         TypeOK, WriterPCs, ReaderPCs
<1> QED
  BY <1>1, InvAlways, PTL

(* The two programs implement the abstract copy of a byte stream: write() is
   its CopyBlock, seeing the empty block is its Finish, and every other call
   is a stuttering step. *)
THEOREM Refinement == Spec => CopySpec
<1>1. Init => Copy!Init
  BY DEF Init, Copy!Init
<1>2. Inv /\ [Next]_vars => [Copy!Next]_<<output, rpc \in {"shmdt", "releaseLast", "done"}>>
  <2> SUFFICES ASSUME Inv, [Next]_vars
               PROVE  [Copy!Next]_<<output, rpc \in {"shmdt", "releaseLast", "done"}>>
    OBVIOUS
  <2>1. CASE ReaderWrite
    <3>1. /\ rpc = "write" /\ rpc' = "release"
          /\ output' = output \o [i \in 1..cnt |-> buf[i]]
      BY <2>1 DEF ReaderWrite, ReaderAt
    <3>2. /\ cnt \in 1..BUF_SIZE
          /\ Len(output) + cnt <= Len(File)
          /\ output \in Seq(Byte)
          /\ \A i \in 1..cnt : buf[i] = File[Len(output) + i]
          /\ \A i \in 1..Len(output) : output[i] = File[i]
      BY <3>1, BufAssumption, FileAssumption DEF Inv, TypeOK, DataInv, BlockPending
    <3>3. output' = [i \in 1..(Len(output) + cnt) |-> File[i]]
      <4> DEFINE block == [i \in 1..cnt |-> buf[i]]
      <4>1. block \in Seq(Byte) /\ Len(block) = cnt
        BY <3>2, BufAssumption DEF Inv, TypeOK
      <4>2. /\ output' \in Seq(Byte)
            /\ Len(output') = Len(output) + cnt
            /\ \A i \in 1..Len(output') : output'[i] = File[i]
        BY <3>1, <3>2, <4>1
      <4> HIDE DEF block
      <4>3. output' = [i \in 1..Len(output') |-> output'[i]]
        BY <4>2
      <4> QED
        BY <4>2, <4>3
    <3>4. /\ ~(rpc \in {"shmdt", "releaseLast", "done"})
          /\ (rpc \in {"shmdt", "releaseLast", "done"})'
                = (rpc \in {"shmdt", "releaseLast", "done"})
      BY <3>1
    <3>5. \E n \in 1..BUF_SIZE :
             /\ Len(output) + n <= Len(File)
             /\ output' = [i \in 1..(Len(output) + n) |-> File[i]]
      BY <3>2, <3>3, Zenon
    <3> QED
      BY <3>4, <3>5, Zenon DEF Copy!Next, Copy!CopyBlock
  <2>2. CASE ReaderTest
    <3>1. CASE cnt = 0
      <4>1. /\ rpc = "test" /\ rpc' = "shmdt" /\ output' = output
        BY <2>2, <3>1 DEF ReaderTest, ReaderAt, readerVars, writerVars
      <4>2. output \in Seq(Byte) /\ Len(output) = Len(File)
        BY <3>1, <4>1, FileAssumption
           DEF Inv, TypeOK, DataInv, EOFInv, TurnInv, BlockPending, ReaderStarting,
               ReaderHolds, WriterPCs
      <4>3. output = File
        BY <4>2, SameBytes DEF Inv, DataInv
      <4> QED
        BY <4>1, <4>3 DEF Copy!Next, Copy!Finish
    <3>2. CASE cnt # 0
      BY <2>2, <3>2 DEF ReaderTest, ReaderAt
    <3> QED
      BY <3>1, <3>2
  <2>3. CASE Writer \/ WriterReadFails
    BY <2>3 DEF Writer, WriterReadFails, WriterSemget, WriterInitSemAvailable,
       WriterInitSemInUse, WriterShmget, WriterReserve, WriterRead, WriterRelease,
       WriterTestEOF, WriterReserveLast, WriterRmSem, WriterRmShm
  <2>4. CASE \/ ReaderSemget \/ ReaderShmget \/ ReaderRunAgain \/ ReaderReserve
             \/ ReaderRelease \/ ReaderShmdt \/ ReaderReleaseLast \/ ReaderWriteFails
    BY <2>4 DEF ReaderSemget, ReaderShmget, ReaderRunAgain, ReaderReserve, ReaderRelease,
       ReaderShmdt, ReaderReleaseLast, ReaderWriteFails, ReaderAt
  <2>5. CASE UNCHANGED vars
    BY <2>5 DEF vars
  <2> QED
    BY <2>1, <2>2, <2>3, <2>4, <2>5 DEF Next, Reader, Terminating
<1> QED
  BY <1>1, <1>2, InvAlways, PTL DEF Spec, CopySpec, Copy!Spec

(* All safety properties of svshm_xfr together. *)
THEOREM Safety == Spec => []TransferSafe
<1>1. TypeOK /\ SegmentExclusive /\ OutputIsPrefix /\ AllDelivered /\ RemovedOnlyAfterUse
         => TransferSafe
  BY DEF TransferSafe
<1> QED
  BY <1>1, TypeCorrect, Exclusion, PrefixOutput, Delivery, SafeRemoval, PTL

-----------------------------------------------------------------------------
(* The echo server, for any clients, any input and any size of the socket buffers. *)

CONSTANTS EchoClients, InputLen, EchoBuf, None

VARIABLES
    espc, ecfd, waiting, holders, child, cbuf, zombies, sigchld, toServer, toClient,
    shut, ewpc, esent, erpc, eout

echoVars == <<espc, ecfd, waiting, holders, child, cbuf, zombies, sigchld, toServer,
              toClient, shut, ewpc, esent, erpc, eout>>
Echo == INSTANCE EchoServer WITH
            spc <- espc, cfd <- ecfd, wpc <- ewpc, sent <- esent, rpc <- erpc, out <- eout,
            Clients <- EchoClients, SockBuf <- EchoBuf
ASSUME EchoAssumption ==
    None \notin EchoClients /\ InputLen \in [EchoClients -> Nat] /\ EchoBuf \in Nat

(* What Append, Tail and SubSeq leave where. *)
LEMMA AppendFacts ==
    ASSUME NEW S, NEW s \in Seq(S), NEW e \in S
    PROVE  /\ Append(s, e) \in Seq(S) /\ Len(s) \in Nat /\ Len(Append(s, e)) = Len(s) + 1
           /\ \A k \in DOMAIN Append(s, e) : \/ k \in DOMAIN s /\ Append(s, e)[k] = s[k]
                                             \/ k = Len(s) + 1 /\ Append(s, e)[k] = e
  OBVIOUS

LEMMA Member ==
    ASSUME NEW S, NEW s \in Seq(S), NEW n \in DOMAIN s
    PROVE  s[n] \in S
  OBVIOUS

LEMMA TailFacts ==
    ASSUME NEW S, NEW s \in Seq(S), s # << >>
    PROVE  /\ Head(s) \in S /\ Head(s) = s[1] /\ 1 \in DOMAIN s /\ Tail(s) \in Seq(S)
           /\ Len(s) \in Nat /\ Len(s) > 0 /\ Len(Tail(s)) = Len(s) - 1
           /\ \A k \in DOMAIN Tail(s) : k \in Nat /\ k + 1 \in DOMAIN s /\ Tail(s)[k] = s[k + 1]
  OBVIOUS

LEMMA SubSeqFacts ==
    ASSUME NEW S, NEW s \in Seq(S), NEW p \in Nat \ {0}, NEW q \in 0..Len(s)
    PROVE  /\ SubSeq(s, p, q) \in Seq(S) /\ (p <= q + 1 => Len(SubSeq(s, p, q)) = q - p + 1)
           /\ \A k \in 1..(q - p + 1) : SubSeq(s, p, q)[k] = s[p + k - 1]
<1>1. SubSeq(s, p, q) \in Seq(S)
  OBVIOUS
<1>2. p <= q + 1 => Len(SubSeq(s, p, q)) = q - p + 1
  OBVIOUS
<1>3. \A k \in 1..(q - p + 1) : SubSeq(s, p, q)[k] = s[p + k - 1]
  OBVIOUS
<1> QED
  BY <1>1, <1>2, <1>3, Zenon

(* What an echo client prints is the beginning of what it sent, and all of it when the
   child ended regularly; the parent keeps no connection open and forgets no child. *)
EchoSafe == Echo!TypeOK /\ Echo!Echoed /\ Echo!NoDescriptorLeak /\ Echo!NoForgottenChild
            /\ Echo!Inv

(* It holds before the server's first accept(). *)
LEMMA EchoInit == Echo!Init => Echo!Inv
<1> SUFFICES ASSUME Echo!Init PROVE Echo!Inv
  OBVIOUS
<1>1. sigchld \in BOOLEAN
  BY Zenon DEF Echo!Init
<1>2. Echo!TypeOK
  BY <1>1 DEF Echo!Init, Echo!TypeOK
<1>3. Echo!AcceptInv /\ Echo!Echoed /\ Echo!NoDescriptorLeak /\ Echo!NoForgottenChild
  BY DEF Echo!Init, Echo!AcceptInv, Echo!Echoed, Echo!NoDescriptorLeak, Echo!NoForgottenChild
<1>4. \A c \in EchoClients : Echo!Stream(c) /\ Echo!Life(c)
  BY DEF Echo!Init, Echo!Stream, Echo!Life, Echo!Taken
<1> QED
  BY <1>2, <1>3, <1>4 DEF Echo!Inv

(* A step that concerns another client, or the server's parent, leaves a client as it is. *)
LEMMA EchoOther ==
    ASSUME NEW d \in EchoClients, Echo!Stream(d), Echo!Life(d),
           eout'[d] = eout[d], toClient'[d] = toClient[d], toServer'[d] = toServer[d],
           cbuf'[d] = cbuf[d], esent'[d] = esent[d], child'[d] = child[d],
           ewpc'[d] = ewpc[d], erpc'[d] = erpc[d],
           d \in waiting' => d \in waiting, d \in shut' => d \in shut,
           espc = "exited" => espc' = "exited"
    PROVE  Echo!Stream(d)' /\ Echo!Life(d)'
<1>1. Echo!Taken(d)' = Echo!Taken(d)
  BY Zenon DEF Echo!Taken
<1>2. Echo!Stream(d)'
  BY <1>1 DEF Echo!Stream
<1>3. Echo!Life(d)'
  BY Zenon DEF Echo!Life
<1> QED
  BY <1>2, <1>3, Zenon

(* The server's parent. *)
LEMMA EchoParent ==
    ASSUME Echo!Inv, Echo!Accept \/ Echo!AcceptFails \/ Echo!CloseConnection \/ Echo!grimReaper
    PROVE  Echo!Inv'
<1>0. /\ Echo!TypeOK /\ Echo!AcceptInv /\ Echo!Echoed /\ Echo!NoDescriptorLeak /\ Echo!NoForgottenChild
      /\ \A c \in EchoClients : Echo!Stream(c) /\ Echo!Life(c)
  BY DEF Echo!Inv
<1> USE DEF Echo!serverVars, Echo!reapVars, Echo!sockVars, Echo!clientVars
<1>1. /\ UNCHANGED <<child, cbuf, toServer, toClient, shut, ewpc, esent, erpc, eout>>
      /\ waiting' \subseteq waiting /\ (espc = "exited" => espc' = "exited")
  BY <1>0, Zenon DEF Echo!Accept, Echo!AcceptFails, Echo!CloseConnection, Echo!grimReaper
<1>2. \A c \in EchoClients : Echo!Stream(c)' /\ Echo!Life(c)'
  BY <1>0, <1>1, EchoOther, Zenon
<1>3. Echo!Echoed'
  BY <1>0, <1>1 DEF Echo!Echoed
<1>4. sigchld' \in BOOLEAN /\ zombies' \in Nat /\ Echo!NoForgottenChild'
  <2>1. CASE Echo!grimReaper
    <3>1. sigchld' \in BOOLEAN
      BY <2>1, Zenon DEF Echo!grimReaper
    <3> QED
      BY <2>1, <3>1 DEF Echo!grimReaper, Echo!NoForgottenChild
  <2>2. CASE Echo!Accept \/ Echo!AcceptFails \/ Echo!CloseConnection
    <3>1. UNCHANGED <<sigchld, zombies>> /\ (espc' # "exited" => espc # "exited")
      BY <2>2 DEF Echo!Accept, Echo!AcceptFails, Echo!CloseConnection
    <3> QED
      BY <1>0, <3>1, Zenon DEF Echo!TypeOK, Echo!NoForgottenChild
  <2> QED
    BY <2>1, <2>2
<1>5. /\ espc' \in {"accept", "fork", "close", "exited"} /\ ecfd' \in EchoClients \cup {None} /\ waiting' \subseteq EchoClients
      /\ holders' \in [EchoClients -> SUBSET {"parent", "child"}] /\ Echo!AcceptInv' /\ Echo!NoDescriptorLeak'
  <2>1. CASE Echo!Accept
    <3>1. PICK c \in waiting : /\ ecfd' = c /\ waiting' = waiting \ {c} /\ espc = "accept" /\ espc' = "fork"
                               /\ holders' = [holders EXCEPT ![c] = {"parent"}]
      BY <2>1, Zenon DEF Echo!Accept
    <3>2. c \in EchoClients /\ child[c] = "none" /\ ewpc[c] # "connect"
      BY <1>0, <3>1 DEF Echo!TypeOK, Echo!Life
    <3> QED
      BY <1>0, <1>1, <3>1, <3>2 DEF Echo!TypeOK, Echo!AcceptInv, Echo!NoDescriptorLeak
  <2>2. CASE Echo!AcceptFails
    BY <1>0, <1>1, <2>2 DEF Echo!AcceptFails, Echo!TypeOK, Echo!AcceptInv, Echo!NoDescriptorLeak
  <2>3. CASE Echo!CloseConnection
    BY <1>0, <1>1, <2>3 DEF Echo!CloseConnection, Echo!TypeOK, Echo!AcceptInv, Echo!NoDescriptorLeak
  <2>4. CASE Echo!grimReaper
    BY <1>0, <1>1, <2>4 DEF Echo!grimReaper, Echo!TypeOK, Echo!AcceptInv, Echo!NoDescriptorLeak
  <2> QED
    BY <2>1, <2>2, <2>3, <2>4
<1>6. Echo!TypeOK'
  BY <1>0, <1>1, <1>4, <1>5, Zenon DEF Echo!TypeOK
<1> QED
  BY <1>2, <1>3, <1>4, <1>5, <1>6 DEF Echo!Inv

(* fork(), and its failure. *)
LEMMA EchoFork ==
    ASSUME Echo!Inv, Echo!Fork \/ Echo!ForkFails
    PROVE  Echo!Inv'
<1>0. /\ Echo!TypeOK /\ Echo!AcceptInv /\ Echo!Echoed /\ Echo!NoDescriptorLeak /\ Echo!NoForgottenChild
      /\ \A c \in EchoClients : Echo!Stream(c) /\ Echo!Life(c)
  BY DEF Echo!Inv
<1> USE DEF Echo!reapVars, Echo!sockVars, Echo!clientVars
<1>1. /\ espc = "fork" /\ espc' = "close" /\ UNCHANGED <<ecfd, waiting, cbuf, zombies, sigchld, toServer, toClient, shut, ewpc, esent, erpc, eout>>
      /\ \/ child' = [child EXCEPT ![ecfd] = "read"] /\ holders' = [holders EXCEPT ![ecfd] = {"parent", "child"}]
         \/ child' = [child EXCEPT ![ecfd] = "refused"] /\ UNCHANGED holders
  BY DEF Echo!Fork, Echo!ForkFails
<1>2. ecfd \in EchoClients \ waiting /\ ewpc[ecfd] # "connect" /\ child[ecfd] = "none"
  BY <1>0, <1>1 DEF Echo!AcceptInv
<1>3. child'[ecfd] \in {"read", "refused"} /\ \A d \in EchoClients : d # ecfd => child'[d] = child[d]
  BY <1>0, <1>1, <1>2 DEF Echo!TypeOK
<1>4. Echo!Stream(ecfd)' /\ Echo!Life(ecfd)'
  <2>1. Echo!Stream(ecfd) /\ Echo!Life(ecfd)
    BY <1>0, <1>2
  <2>2. Echo!Taken(ecfd)' = Echo!Taken(ecfd)
    BY <1>1, <1>2, <1>3, Zenon DEF Echo!Taken
  <2>3. Echo!Stream(ecfd)'
    BY <1>1, <1>2, <1>3, <2>1, <2>2, Zenon DEF Echo!Stream
  <2>4. erpc[ecfd] # "exited" /\ ewpc[ecfd] # "failed"
    BY <1>1, <1>2, <2>1, Zenon DEF Echo!Life
  <2>5. Echo!Life(ecfd)'
    BY <1>1, <1>2, <1>3, <2>1, <2>4, Zenon DEF Echo!Life
  <2> QED
    BY <2>3, <2>5
<1>5. \A d \in EchoClients : Echo!Stream(d)' /\ Echo!Life(d)'
  BY <1>0, <1>1, <1>3, <1>4, EchoOther, SMTT(30)
<1>6. Echo!Echoed'
  BY <1>0, <1>1, <1>3 DEF Echo!Echoed
<1>7. Echo!TypeOK'
  <2>1. child' \in [EchoClients -> {"none", "read", "write", "exited", "refused"}]
    BY <1>0, <1>1, <1>2, Zenon DEF Echo!TypeOK
  <2>2. holders' \in [EchoClients -> SUBSET {"parent", "child"}]
    BY <1>0, <1>1, <1>2, ZenonT(30) DEF Echo!TypeOK
  <2> QED
    BY <1>0, <1>1, <2>1, <2>2, Zenon DEF Echo!TypeOK
<1>8. Echo!AcceptInv' /\ Echo!NoDescriptorLeak' /\ Echo!NoForgottenChild'
  BY <1>0, <1>1, <1>2, <1>3, Zenon DEF Echo!TypeOK, Echo!AcceptInv, Echo!NoDescriptorLeak, Echo!NoForgottenChild
<1> QED
  BY <1>5, <1>6, <1>7, <1>8 DEF Echo!Inv

(* The parent's part of the invariant when the step is one of a child or a client. *)
LEMMA EchoAccepted ==
    ASSUME Echo!Inv, NEW c \in EchoClients, UNCHANGED <<espc, ecfd>>,
           \A d \in EchoClients : d # c => /\ eout'[d] = eout[d] /\ toClient'[d] = toClient[d] /\ toServer'[d] = toServer[d]
                                           /\ cbuf'[d] = cbuf[d] /\ esent'[d] = esent[d] /\ child'[d] = child[d]
                                           /\ ewpc'[d] = ewpc[d] /\ erpc'[d] = erpc[d] /\ holders'[d] = holders[d],
           "parent" \in holders'[c] => "parent" \in holders[c],
           waiting' \subseteq waiting \cup {c}, shut' \subseteq shut \cup {c},
           c \in waiting' => c \in waiting \/ ewpc[c] = "connect",
           ewpc'[c] = "connect" => ewpc[c] = "connect" /\ child'[c] = "none" /\ erpc'[c] = "none",
           child'[c] = child[c] \/ child[c] \in {"read", "write"},
           Echo!TypeOK', Echo!NoForgottenChild', Echo!Stream(c)', Echo!Life(c)',
           erpc'[c] = "exited" /\ child'[c] = "exited" => Len(eout'[c]) = InputLen[c]
    PROVE  Echo!Inv'
<1>0. /\ Echo!TypeOK /\ Echo!AcceptInv /\ Echo!Echoed /\ Echo!NoDescriptorLeak
      /\ \A d \in EchoClients : Echo!Stream(d) /\ Echo!Life(d)
  BY Zenon DEF Echo!Inv
<1>1. \A d \in EchoClients : d # c => Echo!Stream(d)' /\ Echo!Life(d)'
  <2> SUFFICES ASSUME NEW d \in EchoClients, d # c PROVE Echo!Stream(d)' /\ Echo!Life(d)'
    OBVIOUS
  <2>1. /\ Echo!Stream(d) /\ Echo!Life(d)
        /\ eout'[d] = eout[d] /\ toClient'[d] = toClient[d] /\ toServer'[d] = toServer[d]
        /\ cbuf'[d] = cbuf[d] /\ esent'[d] = esent[d] /\ child'[d] = child[d]
        /\ ewpc'[d] = ewpc[d] /\ erpc'[d] = erpc[d]
    BY <1>0, Zenon
  <2>2. (d \in waiting' => d \in waiting) /\ (d \in shut' => d \in shut) /\ (espc = "exited" => espc' = "exited")
    BY Zenon
  <2> QED
    BY <2>1, <2>2, EchoOther, Zenon
<1>2. Echo!Echoed'
  <2>1. \A k \in DOMAIN eout'[c] : eout'[c][k] = k
    BY Zenon DEF Echo!Stream
  <2>2. \A d \in EchoClients : d # c => eout'[d] = eout[d] /\ erpc'[d] = erpc[d] /\ child'[d] = child[d]
    BY Zenon
  <2> QED
    BY <1>0, <2>1, <2>2, ZenonT(30) DEF Echo!Echoed
<1>3. Echo!NoDescriptorLeak'
  BY <1>0, Zenon DEF Echo!NoDescriptorLeak
<1>4. Echo!AcceptInv'
  <2>1. espc' \in {"fork", "close"} => ecfd' \in EchoClients \ waiting' /\ ewpc'[ecfd'] # "connect"
    BY <1>0, Zenon DEF Echo!AcceptInv
  <2>2. espc' = "fork" => child'[ecfd'] = "none"
    BY <1>0, Zenon DEF Echo!AcceptInv
  <2>3. \A d \in EchoClients : ewpc'[d] = "connect" => child'[d] = "none" /\ erpc'[d] = "none"
    BY <1>0, ZenonT(30) DEF Echo!AcceptInv
  <2> QED
    BY <2>1, <2>2, <2>3, Zenon DEF Echo!AcceptInv
<1> QED
  BY <1>1, <1>2, <1>3, <1>4, Zenon DEF Echo!Inv

(* handleRequest(): a byte is read. *)
LEMMA EchoRead ==
    ASSUME Echo!Inv, NEW c \in EchoClients, Echo!Read(c)
    PROVE  Echo!Inv'
<1> USE DEF Echo!serverVars, Echo!reapVars, Echo!sockVars, Echo!clientVars
<1>0. Echo!TypeOK /\ Echo!Stream(c) /\ Echo!Life(c) /\ Echo!NoForgottenChild /\ Echo!Echoed /\ Echo!AcceptInv
  BY Zenon DEF Echo!Inv
<1>1. /\ child[c] = "read" /\ toServer[c] # << >> /\ cbuf' = [cbuf EXCEPT ![c] = Head(toServer[c])]
      /\ toServer' = [toServer EXCEPT ![c] = Tail(@)] /\ child' = [child EXCEPT ![c] = "write"]
      /\ UNCHANGED <<espc, ecfd, waiting, holders, zombies, sigchld, toClient, shut, ewpc, esent, erpc, eout>>
  BY DEF Echo!Read
<1>2. PICK s : s = toServer[c] /\ s \in Seq(Nat)
  BY <1>0 DEF Echo!TypeOK
<1>3. /\ Head(s) \in Nat /\ Head(s) = s[1] /\ 1 \in DOMAIN s /\ Tail(s) \in Seq(Nat) /\ Len(Tail(s)) = Len(s) - 1
      /\ Len(s) \in Nat /\ \A k \in DOMAIN Tail(s) : k \in Nat /\ k + 1 \in DOMAIN s /\ Tail(s)[k] = s[k + 1]
  BY <1>1, <1>2, TailFacts, Zenon
<1>4. /\ toServer'[c] = Tail(s) /\ cbuf'[c] = Head(s) /\ child'[c] = "write"
      /\ \A d \in EchoClients : d # c => toServer'[d] = toServer[d] /\ cbuf'[d] = cbuf[d] /\ child'[d] = child[d]
  BY <1>0, <1>1, <1>2 DEF Echo!TypeOK
<1>5. Echo!TypeOK'
  <2>1. /\ cbuf' \in [EchoClients -> Nat] /\ toServer' \in [EchoClients -> Seq(Nat)]
        /\ child' \in [EchoClients -> {"none", "read", "write", "exited", "refused"}]
    BY <1>0, <1>1, <1>2, <1>3, Zenon DEF Echo!TypeOK
  <2> QED
    BY <1>0, <1>1, <2>1, Zenon DEF Echo!TypeOK
<1>6. Echo!Taken(c) \in Nat /\ Echo!Taken(c)' = Echo!Taken(c) + 1
  BY <1>0, <1>1, <1>4 DEF Echo!Taken, Echo!TypeOK
<1>7. Echo!Stream(c)'
  <2>1. \A k \in DOMAIN eout'[c] : eout'[c][k] = k
    BY <1>0, <1>1 DEF Echo!Stream
  <2> SUFFICES ASSUME erpc'[c] # "killed" PROVE Echo!Stream(c)'
    BY <2>1, Zenon DEF Echo!Stream
  <2>2. /\ \A k \in DOMAIN toClient[c] : toClient[c][k] = Len(eout[c]) + k
        /\ \A k \in DOMAIN s : s[k] = Echo!Taken(c) + k
        /\ Echo!Taken(c) + Len(s) = esent[c]
    BY <1>0, <1>1, <1>2, ZenonT(30) DEF Echo!Stream
  <2>3. cbuf'[c] = Echo!Taken(c)'
    BY <1>3, <1>4, <1>6, <2>2
  <2>4. \A k \in DOMAIN toServer'[c] : toServer'[c][k] = Echo!Taken(c)' + k
    <3>1. \A k \in DOMAIN Tail(s) : k \in Nat /\ Tail(s)[k] = Echo!Taken(c) + (k + 1)
      BY <1>3, <2>2, Zenon
    <3>2. \A k \in Nat : Echo!Taken(c) + (k + 1) = (Echo!Taken(c) + 1) + k
      BY <1>6
    <3> QED
      BY <1>4, <1>6, <3>1, <3>2, Zenon
  <2>5. Echo!Taken(c)' + Len(toServer'[c]) = esent'[c]
    <3>1. PICK l \in Nat : Len(s) = l /\ Len(toServer'[c]) = l - 1 /\ esent'[c] = esent[c]
      BY <1>1, <1>3, <1>4, Zenon
    <3>2. Echo!Taken(c) + l = esent[c]
      BY <2>2, <3>1, Zenon
    <3>3. (Echo!Taken(c) + 1) + (l - 1) = Echo!Taken(c) + l
      BY <1>6, SMTT(30)
    <3> QED
      BY <1>6, <3>1, <3>2, <3>3, Zenon
  <2> QED
    BY <1>1, <2>1, <2>2, <2>3, <2>4, <2>5, ZenonT(30) DEF Echo!Stream
<1>8. Echo!Life(c)'
  BY <1>0, <1>1, <1>4 DEF Echo!Life
<1>9. Echo!NoForgottenChild' /\ ewpc[c] # "connect"
  BY <1>0, <1>1, Zenon DEF Echo!NoForgottenChild, Echo!AcceptInv
<1> QED
  BY <1>1, <1>4, <1>5, <1>7, <1>8, <1>9, EchoAccepted, SMTT(30)

(* handleRequest(): the byte is written. *)
LEMMA EchoWrite ==
    ASSUME Echo!Inv, NEW c \in EchoClients, Echo!Write(c)
    PROVE  Echo!Inv'
<1> USE DEF Echo!serverVars, Echo!reapVars, Echo!sockVars, Echo!clientVars
<1>0. Echo!TypeOK /\ Echo!Stream(c) /\ Echo!Life(c) /\ Echo!NoForgottenChild /\ Echo!Echoed /\ Echo!AcceptInv
  BY Zenon DEF Echo!Inv
<1>1. /\ child[c] = "write" /\ erpc[c] # "killed"
      /\ toClient' = [toClient EXCEPT ![c] = Append(@, cbuf[c])] /\ child' = [child EXCEPT ![c] = "read"]
      /\ UNCHANGED <<espc, ecfd, waiting, holders, cbuf, zombies, sigchld, toServer, shut, ewpc, esent, erpc, eout>>
  BY DEF Echo!Write
<1>2. PICK s, b : s = toClient[c] /\ b = cbuf[c] /\ s \in Seq(Nat) /\ b \in Nat
  BY <1>0 DEF Echo!TypeOK
<1>3. /\ Append(s, b) \in Seq(Nat) /\ Len(Append(s, b)) = Len(s) + 1 /\ Len(s) \in Nat
      /\ \A k \in DOMAIN Append(s, b) : \/ k \in DOMAIN s /\ Append(s, b)[k] = s[k]
                                        \/ k = Len(s) + 1 /\ Append(s, b)[k] = b
  BY <1>2, AppendFacts, Zenon
<1>4. /\ toClient'[c] = Append(s, b) /\ child'[c] = "read"
      /\ \A d \in EchoClients : d # c => toClient'[d] = toClient[d] /\ child'[d] = child[d]
  BY <1>0, <1>1, <1>2, Zenon DEF Echo!TypeOK
<1>5. Echo!TypeOK'
  <2>1. /\ toClient' \in [EchoClients -> Seq(Nat)]
        /\ child' \in [EchoClients -> {"none", "read", "write", "exited", "refused"}]
    BY <1>0, <1>1, <1>2, <1>3, ZenonT(30) DEF Echo!TypeOK
  <2> QED
    BY <1>0, <1>1, <2>1, Zenon DEF Echo!TypeOK
<1>6. Echo!Taken(c)' = Echo!Taken(c) /\ Echo!Taken(c) = Len(eout[c]) + Len(s) + 1 /\ Len(eout[c]) \in Nat
  BY <1>0, <1>1, <1>2, <1>3, <1>4 DEF Echo!Taken, Echo!TypeOK
<1>7. Echo!Stream(c)'
  <2>1. /\ \A k \in DOMAIN eout[c] : eout[c][k] = k
        /\ \A k \in DOMAIN s : s[k] = Len(eout[c]) + k
        /\ b = Echo!Taken(c)
        /\ \A k \in DOMAIN toServer[c] : toServer[c][k] = Echo!Taken(c) + k
        /\ Echo!Taken(c) + Len(toServer[c]) = esent[c]
    BY <1>0, <1>1, <1>2, Zenon DEF Echo!Stream
  <2>2. \A k \in DOMAIN toClient'[c] : toClient'[c][k] = Len(eout[c]) + k
    <3>1. PICK l \in Nat, m \in Nat : l = Len(eout[c]) /\ m = Len(s) /\ b = l + m + 1
      BY <1>3, <1>6, <2>1, Zenon
    <3>2. l + m + 1 = l + (m + 1)
      OBVIOUS
    <3> QED
      BY <1>3, <1>4, <2>1, <3>1, <3>2, Zenon
  <2> QED
    BY <1>1, <1>4, <1>6, <2>1, <2>2, Zenon DEF Echo!Stream
<1>8. Echo!Life(c)'
  BY <1>0, <1>1, <1>4, Zenon DEF Echo!Life
<1>9. Echo!NoForgottenChild' /\ ewpc[c] # "connect"
  BY <1>0, <1>1, Zenon DEF Echo!NoForgottenChild, Echo!AcceptInv
<1> QED
  BY <1>1, <1>4, <1>5, <1>7, <1>8, <1>9, EchoAccepted, Zenon

(* handleRequest(): the child ends. *)
LEMMA EchoChildExits ==
    ASSUME Echo!Inv, NEW c \in EchoClients, Echo!ChildExits(c)
    PROVE  Echo!Inv'
<1> USE DEF Echo!serverVars, Echo!reapVars, Echo!sockVars, Echo!clientVars
<1>0. Echo!TypeOK /\ Echo!Stream(c) /\ Echo!Life(c) /\ Echo!NoForgottenChild /\ Echo!Echoed /\ Echo!AcceptInv
  BY Zenon DEF Echo!Inv
<1>1. /\ child' = [child EXCEPT ![c] = "exited"] /\ holders' = [holders EXCEPT ![c] = @ \ {"child"}]
      /\ zombies' = (IF espc = "exited" THEN zombies ELSE zombies + 1) /\ sigchld' = TRUE
      /\ UNCHANGED <<espc, ecfd, waiting, cbuf, toServer, toClient, shut, ewpc, esent, erpc, eout>>
      /\ child[c] \in {"read", "write"}
      /\ erpc[c] # "killed" => child[c] = "read" /\ toServer[c] = << >> /\ c \in shut
  BY DEF Echo!ChildExits, Echo!ChildEnds
<1>2. sigchld' \in BOOLEAN /\ sigchld'
  BY <1>1, Zenon
<1>3. /\ child'[c] = "exited" /\ holders'[c] = holders[c] \ {"child"}
      /\ \A d \in EchoClients : d # c => child'[d] = child[d] /\ holders'[d] = holders[d]
  BY <1>0, <1>1 DEF Echo!TypeOK
<1>4. Echo!TypeOK'
  <2>1. /\ holders' \in [EchoClients -> SUBSET {"parent", "child"}] /\ zombies' \in Nat
        /\ child' \in [EchoClients -> {"none", "read", "write", "exited", "refused"}]
    BY <1>0, <1>1, SMTT(30) DEF Echo!TypeOK
  <2> QED
    BY <1>0, <1>1, <1>2, <2>1, Zenon DEF Echo!TypeOK
<1>5. Echo!Stream(c)'
  <2>1. erpc[c] # "killed" => Echo!Taken(c)' = Echo!Taken(c)
    BY <1>1, <1>3, ZenonT(30) DEF Echo!Taken
  <2> QED
    BY <1>0, <1>1, <1>3, <2>1 DEF Echo!Stream
<1>6. Echo!Life(c)'
  BY <1>0, <1>1, <1>3 DEF Echo!Life
<1>7. Echo!NoForgottenChild'
  BY <1>2, Zenon DEF Echo!NoForgottenChild
<1>8. erpc[c] # "exited" /\ ewpc[c] # "connect"
  BY <1>0, <1>1, ZenonT(30) DEF Echo!Life, Echo!AcceptInv
<1> QED
  BY <1>1, <1>3, <1>4, <1>5, <1>6, <1>7, <1>8, EchoAccepted, Zenon

(* The client connects, or finds no server. *)
LEMMA EchoConnect ==
    ASSUME Echo!Inv, NEW c \in EchoClients, Echo!Connect(c)
    PROVE  Echo!Inv'
<1> USE DEF Echo!serverVars, Echo!reapVars, Echo!sockVars, Echo!clientVars
<1>0. Echo!TypeOK /\ Echo!Stream(c) /\ Echo!Life(c) /\ Echo!NoForgottenChild /\ Echo!AcceptInv
  BY Zenon DEF Echo!Inv
<1>1. /\ ewpc[c] = "connect" /\ UNCHANGED <<espc, ecfd, holders, child, cbuf, zombies, sigchld, toServer, toClient, shut, esent, eout>>
      /\ \/ espc = "exited" /\ ewpc' = [ewpc EXCEPT ![c] = "failed"] /\ UNCHANGED <<erpc, waiting>>
         \/ /\ espc # "exited" /\ ewpc' = [ewpc EXCEPT ![c] = "copy"] /\ erpc' = [erpc EXCEPT ![c] = "read"]
            /\ waiting' = waiting \cup {c}
  BY DEF Echo!Connect
<1>2. child[c] = "none" /\ erpc[c] = "none"
  BY <1>0, <1>1, Zenon DEF Echo!AcceptInv
<1>3. /\ \A d \in EchoClients : d # c => ewpc'[d] = ewpc[d] /\ erpc'[d] = erpc[d]
      /\ \/ espc = "exited" /\ ewpc'[c] = "failed" /\ erpc'[c] = "none" /\ waiting' = waiting
         \/ espc # "exited" /\ ewpc'[c] = "copy" /\ erpc'[c] = "read" /\ waiting' = waiting \cup {c}
  BY <1>0, <1>1, <1>2 DEF Echo!TypeOK
<1>4. Echo!TypeOK'
  <2>1. /\ ewpc' \in [EchoClients -> {"connect", "copy", "exited", "failed", "killed"}]
        /\ erpc' \in [EchoClients -> {"none", "read", "exited", "killed"}] /\ waiting' \subseteq EchoClients
    BY <1>0, <1>1, ZenonT(30) DEF Echo!TypeOK
  <2> QED
    BY <1>0, <1>1, <2>1, Zenon DEF Echo!TypeOK
<1>5. Echo!Stream(c)'
  BY <1>0, <1>1, <1>2, <1>3, Zenon DEF Echo!Stream, Echo!Taken
<1>6. Echo!Life(c)'
  BY <1>0, <1>1, <1>2, <1>3, Zenon DEF Echo!Life
<1>7. Echo!NoForgottenChild'
  BY <1>0, <1>1, Zenon DEF Echo!NoForgottenChild
<1> QED
  BY <1>1, <1>2, <1>3, <1>4, <1>5, <1>6, <1>7, EchoAccepted

(* The client writes a byte. *)
LEMMA EchoSend ==
    ASSUME Echo!Inv, NEW c \in EchoClients, Echo!Send(c)
    PROVE  Echo!Inv'
<1> USE DEF Echo!serverVars, Echo!reapVars, Echo!sockVars, Echo!clientVars
<1>0. Echo!TypeOK /\ Echo!Stream(c) /\ Echo!Life(c) /\ Echo!NoForgottenChild /\ Echo!Echoed
  BY Zenon DEF Echo!Inv
<1>1. /\ ewpc[c] = "copy" /\ toServer' = [toServer EXCEPT ![c] = Append(@, esent[c] + 1)]
      /\ esent' = [esent EXCEPT ![c] = @ + 1]
      /\ UNCHANGED <<espc, ecfd, waiting, holders, child, cbuf, zombies, sigchld, toClient, shut, ewpc, erpc, eout>>
  BY Zenon DEF Echo!Send
<1>2. PICK s, b : s = toServer[c] /\ b = esent[c] + 1 /\ s \in Seq(Nat) /\ b \in Nat
  BY <1>0 DEF Echo!TypeOK
<1>3. /\ Append(s, b) \in Seq(Nat) /\ Len(Append(s, b)) = Len(s) + 1 /\ Len(s) \in Nat
      /\ \A k \in DOMAIN Append(s, b) : \/ k \in DOMAIN s /\ Append(s, b)[k] = s[k]
                                        \/ k = Len(s) + 1 /\ Append(s, b)[k] = b
  BY <1>2, AppendFacts, Zenon
<1>4. /\ toServer'[c] = Append(s, b) /\ esent'[c] = esent[c] + 1 /\ esent[c] \in Nat
      /\ \A d \in EchoClients : d # c => toServer'[d] = toServer[d] /\ esent'[d] = esent[d]
  BY <1>0, <1>1, <1>2 DEF Echo!TypeOK
<1>5. Echo!TypeOK'
  <2>1. /\ toServer' \in [EchoClients -> Seq(Nat)] /\ esent' \in [EchoClients -> Nat]
    BY <1>0, <1>1, <1>2, <1>3, Zenon DEF Echo!TypeOK
  <2> QED
    BY <1>0, <1>1, <2>1, Zenon DEF Echo!TypeOK
<1>6. Echo!Taken(c) \in Nat /\ Echo!Taken(c)' = Echo!Taken(c)
  BY <1>0, <1>1, SMTT(30) DEF Echo!Taken, Echo!TypeOK
<1>7. Echo!Stream(c)'
  <2>0. \A k \in DOMAIN eout[c] : eout[c][k] = k
    BY <1>0, Zenon DEF Echo!Stream
  <2> SUFFICES ASSUME erpc[c] # "killed" PROVE Echo!Stream(c)'
    BY <1>1, <2>0, Zenon DEF Echo!Stream
  <2>1. /\ \A k \in DOMAIN toClient[c] : toClient[c][k] = Len(eout[c]) + k
        /\ child[c] = "write" => cbuf[c] = Echo!Taken(c)
        /\ \A k \in DOMAIN s : s[k] = Echo!Taken(c) + k
        /\ Echo!Taken(c) + Len(s) = esent[c]
    BY <1>0, <1>2, Zenon DEF Echo!Stream
  <2>2. PICK l \in Nat, t \in Nat : l = Len(s) /\ t = Echo!Taken(c)
    BY <1>3, <1>6, Zenon
  <2>3. (t + l) + 1 = t + (l + 1)
    OBVIOUS
  <2>4. b = Echo!Taken(c) + (Len(s) + 1) /\ Echo!Taken(c) + Len(Append(s, b)) = esent[c] + 1
    BY <1>2, <1>3, <2>1, <2>2, <2>3, Zenon
  <2>5. \A k \in DOMAIN Append(s, b) : Append(s, b)[k] = Echo!Taken(c) + k
    BY <1>3, <2>1, <2>4, ZenonT(30)
  <2> QED
    BY <1>1, <1>4, <1>6, <2>0, <2>1, <2>4, <2>5, Zenon DEF Echo!Stream
<1>8. Echo!Life(c)'
  BY <1>0, <1>1, <1>4 DEF Echo!Life
<1>9. Echo!NoForgottenChild'
  BY <1>0, <1>1, Zenon DEF Echo!NoForgottenChild
<1>10. erpc[c] = "exited" /\ child[c] = "exited" => Len(eout[c]) = InputLen[c]
  BY <1>0, Zenon DEF Echo!Echoed
<1> QED
  BY <1>1, <1>4, <1>5, <1>7, <1>8, <1>9, <1>10, EchoAccepted, Zenon

(* The client's parent stops writing, or both its processes are killed. *)
LEMMA EchoShut ==
    ASSUME Echo!Inv, NEW c \in EchoClients, Echo!SendFails(c) \/ Echo!Shutdown(c) \/ Echo!Killed(c)
    PROVE  Echo!Inv'
<1> USE DEF Echo!serverVars, Echo!reapVars, Echo!sockVars, Echo!clientVars
<1>0. Echo!TypeOK /\ Echo!Stream(c) /\ Echo!Life(c) /\ Echo!NoForgottenChild /\ Echo!Echoed /\ Echo!AcceptInv
  BY Zenon DEF Echo!Inv
<1>1. /\ shut' = shut \cup {c}
      /\ UNCHANGED <<espc, ecfd, waiting, holders, child, cbuf, zombies, sigchld, toServer, toClient, esent, eout>>
      /\ \/ ewpc[c] = "copy" /\ Echo!Closed(c) /\ ewpc' = [ewpc EXCEPT ![c] = "failed"] /\ erpc' = erpc
         \/ ewpc[c] = "copy" /\ esent[c] = InputLen[c] /\ ewpc' = [ewpc EXCEPT ![c] = "exited"] /\ erpc' = erpc
         \/ erpc[c] = "read" /\ ewpc' = [ewpc EXCEPT ![c] = "killed"] /\ erpc' = [erpc EXCEPT ![c] = "killed"]
  BY ZenonT(30) DEF Echo!SendFails, Echo!Shutdown, Echo!Killed
<1>2. /\ \A d \in EchoClients : d # c => ewpc'[d] = ewpc[d] /\ erpc'[d] = erpc[d]
      /\ \/ ewpc[c] = "copy" /\ Echo!Closed(c) /\ ewpc'[c] = "failed" /\ erpc'[c] = erpc[c]
         \/ ewpc[c] = "copy" /\ esent[c] = InputLen[c] /\ ewpc'[c] = "exited" /\ erpc'[c] = erpc[c]
         \/ erpc[c] = "read" /\ ewpc'[c] = "killed" /\ erpc'[c] = "killed"
  BY <1>0, <1>1 DEF Echo!TypeOK
<1>3. Echo!TypeOK'
  <2>1. /\ ewpc' \in [EchoClients -> {"connect", "copy", "exited", "failed", "killed"}]
        /\ erpc' \in [EchoClients -> {"none", "read", "exited", "killed"}] /\ shut' \subseteq EchoClients
    BY <1>0, <1>1, ZenonT(30) DEF Echo!TypeOK
  <2> QED
    BY <1>0, <1>1, <2>1, Zenon DEF Echo!TypeOK
<1>4. Echo!Stream(c)'
  <2>1. Echo!Taken(c)' = Echo!Taken(c)
    BY <1>1, Zenon DEF Echo!Taken
  <2> QED
    BY <1>0, <1>1, <1>2, <2>1, Zenon DEF Echo!Stream
<1>5. Echo!Life(c)'
  BY <1>0, <1>1, <1>2, Zenon DEF Echo!Life, Echo!Closed
<1>6. Echo!NoForgottenChild'
  BY <1>0, <1>1, Zenon DEF Echo!NoForgottenChild
<1>7. erpc[c] = "exited" /\ child[c] = "exited" => Len(eout[c]) = InputLen[c]
  BY <1>0, ZenonT(30) DEF Echo!Echoed
<1> QED
  BY <1>1, <1>2, <1>3, <1>4, <1>5, <1>6, <1>7, EchoAccepted, ZenonT(30)

(* The client prints a byte. *)
LEMMA EchoReceive ==
    ASSUME Echo!Inv, NEW c \in EchoClients, Echo!Receive(c)
    PROVE  Echo!Inv'
<1> USE DEF Echo!serverVars, Echo!reapVars, Echo!sockVars, Echo!clientVars
<1>0. Echo!TypeOK /\ Echo!Stream(c) /\ Echo!Life(c) /\ Echo!NoForgottenChild /\ Echo!AcceptInv
  BY Zenon DEF Echo!Inv
<1>1. /\ erpc[c] = "read" /\ toClient[c] # << >> /\ eout' = [eout EXCEPT ![c] = Append(@, Head(toClient[c]))]
      /\ toClient' = [toClient EXCEPT ![c] = Tail(@)]
      /\ UNCHANGED <<espc, ecfd, waiting, holders, child, cbuf, zombies, sigchld, toServer, shut, ewpc, esent, erpc>>
  BY Zenon DEF Echo!Receive
<1>2. PICK s, u : s = toClient[c] /\ u = eout[c] /\ s \in Seq(Nat) /\ u \in Seq(Nat)
  BY <1>0 DEF Echo!TypeOK
<1>3. /\ Head(s) \in Nat /\ Head(s) = s[1] /\ 1 \in DOMAIN s /\ Tail(s) \in Seq(Nat)
      /\ Len(s) \in Nat /\ Len(s) > 0 /\ Len(Tail(s)) = Len(s) - 1
      /\ \A k \in DOMAIN Tail(s) : k \in Nat /\ k + 1 \in DOMAIN s /\ Tail(s)[k] = s[k + 1]
  BY <1>1, <1>2, TailFacts, Zenon
<1>4. PICK b : b = Head(s) /\ b \in Nat
  BY <1>3, Zenon
<1>5. /\ Append(u, b) \in Seq(Nat) /\ Len(Append(u, b)) = Len(u) + 1 /\ Len(u) \in Nat
      /\ \A k \in DOMAIN Append(u, b) : \/ k \in DOMAIN u /\ Append(u, b)[k] = u[k]
                                        \/ k = Len(u) + 1 /\ Append(u, b)[k] = b
  <2>1. u \in Seq(Nat) /\ b \in Nat
    BY <1>2, <1>4, Zenon
  <2> QED
    BY <2>1, AppendFacts, Zenon
<1>6. /\ toClient'[c] = Tail(s) /\ eout'[c] = Append(u, b)
      /\ \A d \in EchoClients : d # c => toClient'[d] = toClient[d] /\ eout'[d] = eout[d]
  BY <1>0, <1>1, <1>2, <1>4 DEF Echo!TypeOK
<1>7. Echo!TypeOK'
  <2>1. /\ toClient' \in [EchoClients -> Seq(Nat)] /\ eout' \in [EchoClients -> Seq(Nat)]
    BY <1>0, <1>1, <1>2, <1>3, <1>4, <1>5, SMTT(30) DEF Echo!TypeOK
  <2> QED
    BY <1>0, <1>1, <2>1, ZenonT(30) DEF Echo!TypeOK
<1>8. PICK l \in Nat, m \in Nat : l = Len(u) /\ m = Len(s)
  BY <1>3, <1>5, Zenon
<1>9. Echo!Taken(c)' = Echo!Taken(c)
  <2>1. PICK h \in Nat : h = IF child[c] = "write" THEN 1 ELSE 0
    OBVIOUS
  <2>2. (l + 1) + (m - 1) + h = l + m + h
    OBVIOUS
  <2>3. Echo!Taken(c) = l + m + h
    BY <1>2, <1>8, <2>1, Zenon DEF Echo!Taken
  <2>4. Echo!Taken(c)' = (l + 1) + (m - 1) + h
    BY <1>1, <1>3, <1>5, <1>6, <1>8, <2>1, Zenon DEF Echo!Taken
  <2> QED
    BY <2>2, <2>3, <2>4, Zenon
<1>10. Echo!Stream(c)'
  <2>1. /\ \A k \in DOMAIN u : u[k] = k
        /\ \A k \in DOMAIN s : s[k] = Len(u) + k
        /\ child[c] = "write" => cbuf[c] = Echo!Taken(c)
        /\ \A k \in DOMAIN toServer[c] : toServer[c][k] = Echo!Taken(c) + k
        /\ Echo!Taken(c) + Len(toServer[c]) = esent[c]
    <3>1. erpc[c] # "killed"
      BY <1>1
    <3> QED
      BY <1>0, <1>2, <3>1, Zenon DEF Echo!Stream
  <2>2. b = Len(u) + 1
    BY <1>3, <1>4, <2>1, Zenon
  <2>3. \A k \in DOMAIN Append(u, b) : Append(u, b)[k] = k
    BY <1>5, <2>1, <2>2, Zenon
  <2>4. \A k \in Nat : l + (k + 1) = (l + 1) + k
    OBVIOUS
  <2>5. \A k \in DOMAIN Tail(s) : Tail(s)[k] = Len(Append(u, b)) + k
    BY <1>3, <1>5, <1>8, <2>1, <2>4, ZenonT(30)
  <2> QED
    BY <1>1, <1>6, <1>9, <2>1, <2>3, <2>5, Zenon DEF Echo!Stream
<1>11. Echo!Life(c)'
  BY <1>0, <1>1, Zenon DEF Echo!Life
<1>12. Echo!NoForgottenChild' /\ ewpc[c] # "connect"
  BY <1>0, <1>1, Zenon DEF Echo!NoForgottenChild, Echo!AcceptInv
<1> QED
  BY <1>1, <1>6, <1>7, <1>10, <1>11, <1>12, EchoAccepted

(* The client sees the end of the connection: everything has come back if a child had it. *)
LEMMA EchoReceiveEOF ==
    ASSUME Echo!Inv, NEW c \in EchoClients, Echo!ReceiveEOF(c)
    PROVE  Echo!Inv'
<1> USE DEF Echo!serverVars, Echo!reapVars, Echo!sockVars, Echo!clientVars
<1>0. Echo!TypeOK /\ Echo!Stream(c) /\ Echo!Life(c) /\ Echo!NoForgottenChild /\ Echo!AcceptInv
  BY Zenon DEF Echo!Inv
<1>1. /\ erpc[c] = "read" /\ toClient[c] = << >> /\ Echo!Closed(c) /\ erpc' = [erpc EXCEPT ![c] = "exited"]
      /\ UNCHANGED <<espc, ecfd, waiting, holders, child, cbuf, zombies, sigchld, toServer, toClient, shut, ewpc, esent, eout>>
  BY Zenon DEF Echo!ReceiveEOF
<1>2. erpc'[c] = "exited" /\ \A d \in EchoClients : d # c => erpc'[d] = erpc[d]
  BY <1>0, <1>1, Zenon DEF Echo!TypeOK
<1>3. Echo!TypeOK'
  <2>1. erpc' \in [EchoClients -> {"none", "read", "exited", "killed"}]
    BY <1>0, <1>1, Zenon DEF Echo!TypeOK
  <2> QED
    BY <1>0, <1>1, <2>1, Zenon DEF Echo!TypeOK
<1>4. Echo!Stream(c)'
  <2>1. Echo!Taken(c)' = Echo!Taken(c)
    BY <1>1, Zenon DEF Echo!Taken
  <2> QED
    BY <1>0, <1>1, <1>2, <2>1 DEF Echo!Stream
<1>5. Echo!Life(c)' /\ ewpc[c] # "connect"
  BY <1>0, <1>1, <1>2, ZenonT(30) DEF Echo!Life, Echo!Closed, Echo!AcceptInv
<1>6. Echo!NoForgottenChild'
  BY <1>0, <1>1, Zenon DEF Echo!NoForgottenChild
<1>7. child[c] = "exited" => Len(eout[c]) = InputLen[c]
  <2> SUFFICES ASSUME child[c] = "exited" PROVE Len(eout[c]) = InputLen[c]
    OBVIOUS
  <2>1. toServer[c] = << >> /\ esent[c] = InputLen[c]
    BY <1>0, <1>1, Zenon DEF Echo!Life
  <2>2. Echo!Taken(c) + Len(toServer[c]) = esent[c] /\ Echo!Taken(c) = Len(eout[c]) + Len(toClient[c]) + 0
    BY <1>0, <1>1, ZenonT(30) DEF Echo!Stream, Echo!Taken
  <2>3. eout[c] \in Seq(Nat)
    BY <1>0 DEF Echo!TypeOK
  <2>4. Len(toServer[c]) = 0 /\ Len(toClient[c]) = 0 /\ Len(eout[c]) \in Nat
    BY <1>1, <2>1, <2>3
  <2> QED
    BY <2>1, <2>2, <2>4, SMTT(30)
<1> QED
  BY <1>1, <1>2, <1>3, <1>4, <1>5, <1>6, <1>7, EchoAccepted, Zenon

(* Every step preserves it. *)
LEMMA EchoStep == Echo!Inv /\ [Echo!Next]_(Echo!vars) => Echo!Inv'
<1> SUFFICES ASSUME Echo!Inv, [Echo!Next]_(Echo!vars) PROVE Echo!Inv'
  OBVIOUS
<1>1. CASE Echo!Accept \/ Echo!AcceptFails \/ Echo!CloseConnection \/ Echo!grimReaper
  BY <1>1, EchoParent
<1>2. CASE Echo!Fork \/ Echo!ForkFails
  BY <1>2, EchoFork
<1>3. ASSUME NEW c \in EchoClients, Echo!handleRequest(c) \/ Echo!Writer(c) \/ Echo!Reader(c) \/ Echo!Killed(c) PROVE Echo!Inv'
  BY <1>3, EchoRead, EchoWrite, EchoChildExits, EchoConnect, EchoSend, EchoShut, EchoReceive, EchoReceiveEOF,
     Zenon DEF Echo!handleRequest, Echo!Writer, Echo!Reader
<1>4. CASE UNCHANGED Echo!vars
  <2>1. UNCHANGED <<espc, ecfd, waiting, holders, child, cbuf, zombies, sigchld, toServer, toClient, shut, ewpc, esent, erpc, eout>>
    BY <1>4 DEF Echo!vars, Echo!serverVars, Echo!reapVars, Echo!sockVars, Echo!clientVars
  <2>2. Echo!TypeOK' /\ Echo!AcceptInv' /\ Echo!Echoed' /\ Echo!NoDescriptorLeak' /\ Echo!NoForgottenChild'
    BY <2>1, Zenon DEF Echo!Inv, Echo!TypeOK, Echo!AcceptInv, Echo!Echoed, Echo!NoDescriptorLeak, Echo!NoForgottenChild
  <2>3. \A c \in EchoClients : Echo!Stream(c)' /\ Echo!Life(c)'
    BY <2>1, ZenonT(30) DEF Echo!Inv, Echo!Stream, Echo!Life, Echo!Taken
  <2> QED
    BY <2>2, <2>3, Zenon DEF Echo!Inv
<1> QED
  BY <1>1, <1>2, <1>3, <1>4, Zenon DEF Echo!Next, Echo!Server

(* For any clients, inputs and sizes of the buffers, and whichever fork(), accept() or read()
   fails: what a client of is_echo_sv.c prints is the beginning of what it sent, and all of it
   when the child ended regularly; the parent leaves no connection open and forgets no child. *)
THEOREM EchoSafety == Echo!Spec => []EchoSafe
<1>1. Echo!Inv /\ [Echo!Next]_(Echo!vars) => Echo!Inv'
  BY EchoStep
<1>2. Echo!Inv => EchoSafe
  BY DEF Echo!Inv, EchoSafe
<1> QED
  BY EchoInit, <1>1, <1>2, PTL DEF Echo!Spec

-----------------------------------------------------------------------------
(* What is model checked: one of the programs is run. *)

CONSTANTS Servers, long, short

VARIABLES
    program,
    path, spc, cfd, backlog, stdout, cpc, sent, pipe, copied, ended,
    sender, wpos, totWritten, wret, n, receiver, buffer, totRead, rret, stream, errors,
    tty_app, tty_ign, tty_tty, tty_user, tty_hist, tty_userTermios, tty_frames, tty_disp, tty_mask,
    tty_pending, tty_errno, tty_status, tty_fg, tty_sent, tty_caught, tty_raced,
    pty_prog, pty_bsd, pty_device, pty_pc, pty_fd, pty_dev, pty_slaveName, pty_cpc, pty_cfd,
    pty_ctty, pty_opened, pty_tty, pty_atexit, pty_left, pty_hungup, pty_ready, pty_buf,
    pty_toSlave, pty_toMaster, pty_received, pty_written, pty_stdout, pty_typescript, pty_why,
    in_app, in_pc, in_fds, in_opens, in_writer, in_written, in_data, in_got, in_evlist,
    in_numOpenFds, in_late, in_typed, in_queue, in_seen, in_gotSigio, in_pending, in_done, in_async,
    in_dropped, in_numPipes, in_numWrites, in_content, in_revents, in_args, in_nfds, in_readfds,
    in_writefds

sockVars == <<path, spc, cfd, backlog, stdout, cpc, sent, pipe, copied, ended>>
rdwrnVars == <<sender, wpos, totWritten, wret, n, receiver, buffer, totRead, rret, stream,
               errors>>
ttyVars == <<tty_app, tty_ign, tty_tty, tty_user, tty_hist, tty_userTermios, tty_frames, tty_disp,
            tty_mask, tty_pending, tty_errno, tty_status, tty_fg, tty_sent, tty_caught, tty_raced>>
ptyVars == <<pty_prog, pty_bsd, pty_device, pty_pc, pty_fd, pty_dev, pty_slaveName, pty_cpc,
            pty_cfd, pty_ctty, pty_opened, pty_tty, pty_atexit, pty_left, pty_hungup, pty_ready,
            pty_buf, pty_toSlave, pty_toMaster, pty_received, pty_written, pty_stdout,
            pty_typescript, pty_why>>
inVars == <<in_app, in_pc, in_fds, in_opens, in_writer, in_written, in_data, in_got, in_evlist,
           in_numOpenFds, in_late, in_typed, in_queue, in_seen, in_gotSigio, in_pending, in_done,
           in_async, in_dropped, in_numPipes, in_numWrites, in_content, in_revents, in_args,
           in_nfds, in_readfds, in_writefds>>
allVars == <<program, vars, echoVars, sockVars, rdwrnVars, ttyVars, ptyVars, inVars>>

(* A client with more input than the buffers of its connection hold, and one with a
   single byte. *)
MCInputLen == [c \in {long, short} |-> IF c = long THEN 4 ELSE 1]

(* A file whose last block is short. *)
MCByte == {"0", "a", "b"}
MCFile == <<"a", "b", "b", "a", "b", "a", "b">>

(* Two clients, one of which needs two buffers; a byte is the client and a number. One of
   the clients may be killed. *)
Clients == {long, short}
Input == [c \in Clients |-> [i \in 1..(IF c = long THEN 3 ELSE 1) |-> <<c, i>>]]
Sock == INSTANCE SockXfr WITH pos <- sent, BUF_SIZE <- 2, SockBuf <- 2, MaxKills <- 1

(* Five bytes, of which the receiver wants up to one more than there are. *)
Rdwrn == INSTANCE Rdwrn WITH wpc <- sender, rpc <- receiver, Data <- <<1, 2, 3, 4, 5>>,
                             MaxN <- 6, Capacity <- 2, MaxErrors <- 1

(* A user with all the flags, or one without two of them. *)
Cooked == {"ICANON", "ECHO", "ISIG", "ICRNL", "OPOST"}
Tty == INSTANCE TtyPrograms WITH
           Settings <- {Cooked, Cooked \cup {"IXON", "IEXTEN"}}, MaxSignals <- 2, app <- tty_app,
           ign <- tty_ign, tty <- tty_tty, user <- tty_user, hist <- tty_hist,
           userTermios <- tty_userTermios, frames <- tty_frames, disp <- tty_disp, mask <- tty_mask,
           pending <- tty_pending, errno <- tty_errno, status <- tty_status, fg <- tty_fg,
           sent <- tty_sent, caught <- tty_caught, raced <- tty_raced

(* Both sides write more than the pseudoterminal holds; there are two BSD masters. *)
Pty == INSTANCE PtyRelay WITH
           Typed <- <<1, 2, 3>>, Output <- <<4, 5, 6>>, BUF_SIZE <- 2, PtyBuf <- 2, Devices <- 2,
           prog <- pty_prog, bsd <- pty_bsd, device <- pty_device, pc <- pty_pc, fd <- pty_fd,
           dev <- pty_dev, slaveName <- pty_slaveName, cpc <- pty_cpc, cfd <- pty_cfd,
           ctty <- pty_ctty, opened <- pty_opened, tty <- pty_tty, atexit <- pty_atexit,
           left <- pty_left, hungup <- pty_hungup, ready <- pty_ready, buf <- pty_buf,
           toSlave <- pty_toSlave, toMaster <- pty_toMaster, received <- pty_received,
           written <- pty_written, stdout <- pty_stdout, typescript <- pty_typescript,
           why <- pty_why

(* Two FIFOs that may be opened twice; a character behind '#'; a pipe of two bytes. *)
Arguments == {<<>>, <<[fd |-> 0, modes |-> {"r"}], [fd |-> 3, modes |-> {"w"}]>>,
              <<[fd |-> 3, modes |-> {"r", "w"}], [fd |-> 1, modes |-> {"w"}]>>,
              <<[fd |-> 2, modes |-> {"r"}], [fd |-> 4, modes |-> {"r"}]>>,
              <<[fd |-> 0, modes |-> {}]>>}
Altio == INSTANCE InputEvents WITH
           Fifos <- 1..2, MAX_EVENTS <- 2, MAX_BUF <- 1, MaxWrites <- 2, MaxOpens <- 2,
           Keys <- <<"a", "#", "b">>, PipeCap <- 2, FD_SETSIZE <- 4, app <- in_app, pc <- in_pc, fds <- in_fds,
           opens <- in_opens, writer <- in_writer, written <- in_written, data <- in_data,
           got <- in_got, evlist <- in_evlist, numOpenFds <- in_numOpenFds, late <- in_late,
           typed <- in_typed, queue <- in_queue, seen <- in_seen, gotSigio <- in_gotSigio,
           pending <- in_pending, done <- in_done, async <- in_async, dropped <- in_dropped,
           numPipes <- in_numPipes, numWrites <- in_numWrites, content <- in_content,
           revents <- in_revents, args <- in_args, nfds <- in_nfds, readfds <- in_readfds,
           writefds <- in_writefds

(* The program that runs is in one of its initial states, the others are in one only. A BSD
   pseudoterminal is tried with unbuffer, whose standard error may be closed. *)
MCInit ==
    /\ program \in {"svshm_xfr", "echo", "us_xfr", "rdwrn", "tty", "pty", "altio"}
    /\ tty_app \in IF program = "tty" THEN Tty!Apps ELSE {"no_echo"}
    /\ tty_ign \in IF program = "tty" THEN {{}, {"SIGINT"}, Tty!Keys} ELSE {{}}
    /\ tty_user = Cooked
    /\ pty_prog \in IF program = "pty" THEN {"script", "unbuffer"} ELSE {"script"}
    /\ pty_bsd \in IF pty_prog = "unbuffer" THEN BOOLEAN ELSE {FALSE}
    /\ pty_device \in IF pty_bsd THEN {<<"free", "free">>, <<"busy", "free">>, <<"absent", "free">>}
                                 ELSE {<<"free", "free">>}
    /\ in_app \in IF program = "altio" THEN Altio!Apps ELSE {"epoll_input"}
    /\ in_numPipes \in IF in_app = "poll_pipes" THEN 1..2 ELSE {1}
    /\ in_numWrites \in IF in_app = "poll_pipes" THEN 1..3 ELSE {1}
    /\ in_args \in IF in_app = "t_select" THEN Arguments ELSE {<<>>}
    /\ n \in IF program = "rdwrn" THEN 0..6 ELSE {0}
    /\ Pty!Init /\ (pty_fd[2] = "tty" <=> pty_prog = "script" \/ pty_bsd)
    /\ Init /\ Echo!Init /\ Sock!Init /\ Rdwrn!Init /\ Tty!Init /\ Altio!Init

MCNext ==
    \/ /\ program = "svshm_xfr" /\ Next
       /\ UNCHANGED <<program, echoVars, sockVars, rdwrnVars, ttyVars, ptyVars, inVars>>
    \/ /\ program = "echo" /\ Echo!Next
       /\ UNCHANGED <<program, vars, sockVars, rdwrnVars, ttyVars, ptyVars, inVars>>
    \/ /\ program = "us_xfr" /\ Sock!Next
       /\ UNCHANGED <<program, vars, echoVars, rdwrnVars, ttyVars, ptyVars, inVars>>
    \/ /\ program = "rdwrn" /\ Rdwrn!Next
       /\ UNCHANGED <<program, vars, echoVars, sockVars, ttyVars, ptyVars, inVars>>
    \/ /\ program = "tty" /\ Tty!Next
       /\ UNCHANGED <<program, vars, echoVars, sockVars, rdwrnVars, ptyVars, inVars>>
    \/ /\ program = "pty" /\ Pty!Next
       /\ UNCHANGED <<program, vars, echoVars, sockVars, rdwrnVars, ttyVars, inVars>>
    \/ /\ program = "altio" /\ Altio!Next
       /\ UNCHANGED <<program, vars, echoVars, sockVars, rdwrnVars, ttyVars, ptyVars>>

(* What is scheduled: every process of a program, one in each set since only one program runs,
   and the delivery of signals. Failures and kills are not forced, signals do not interrupt
   a call for ever, and a user who brings a stopped job back again and again meets it
   stopped at last. *)
Scheduled(i) ==
    UNCHANGED program /\
    CASE i = 1 -> \/ program = "svshm_xfr" /\ Writer
                  \/ program = "echo" /\ Echo!Server
                  \/ program = "us_xfr" /\ Sock!Client(long)
                  \/ program = "rdwrn" /\ Rdwrn!writen
                  \/ program = "tty" /\ Tty!Program
                  \/ program = "pty" /\ Pty!Parent
                  \/ program = "altio" /\ Altio!Program
      [] i = 2 -> \/ program = "svshm_xfr" /\ Reader
                  \/ program = "echo" /\ Echo!grimReaper
                  \/ program = "us_xfr" /\ Sock!Client(short)
                  \/ program = "rdwrn" /\ Rdwrn!readn
                  \/ program = "tty" /\ Tty!Deliver("SIGTERM")
                  \/ program = "pty" /\ Pty!ptyFork
      [] i = 3 -> \/ program = "tty" /\ Tty!Deliver("SIGTSTP")
                  \/ program = "pty" /\ Pty!ProgramWrites
      [] i = 4 -> \/ program = "tty" /\ Tty!Deliver("SIGINT")
                  \/ program = "pty" /\ Pty!SlaveHup
      [] i = 5 -> program = "tty" /\ Tty!Deliver("SIGQUIT")
runVars ==
    CASE program = "svshm_xfr" -> vars [] program = "echo" -> echoVars
      [] program = "us_xfr" -> sockVars [] program = "rdwrn" -> rdwrnVars
      [] program = "tty" -> ttyVars [] program = "pty" -> ptyVars [] program = "altio" -> inVars

MCSpec ==
    /\ MCInit /\ [][MCNext]_allVars
    /\ \A i \in 1..5 : WF_runVars(Scheduled(i))
    /\ \A s \in Servers : WF_sockVars(program = "us_xfr" /\ Sock!Server(s))
    /\ \A c \in EchoClients : /\ WF_echoVars(program = "echo" /\ Echo!handleRequest(c))
                             /\ WF_echoVars(program = "echo" /\ Echo!Writer(c))
                             /\ WF_echoVars(program = "echo" /\ Echo!Reader(c))
    /\ SF_ttyVars(program = "tty" /\ Tty!Continue(TRUE))

-----------------------------------------------------------------------------
(* The bytes of different clients never interleave in the output of a us_xfr_sv, and
   readn() stores the beginning of what writen() was given, with the count it returns. *)
StreamsWhole ==
    /\ Sock!TypeOK /\ Sock!NoInterleaving
    /\ Rdwrn!TypeOK /\ Rdwrn!BufferExact /\ Rdwrn!CountsExact

(* The terminal is the user's again whenever test_tty_functions.c is stopped or has ended, with
   the settings they chose last; tstpHandler() leaves no trace in errno and mask; a signal
   that the shell had ignored stays so. *)
TerminalSafe ==
    /\ Tty!TypeOK /\ Tty!StoppedAsUser /\ Tty!NeverLeftOurs /\ Tty!LatestRestored
    /\ Tty!HandlerTransparent /\ Tty!StaysIgnored

(* script.c and unbuffer.c relay every byte once and in order, and the typescript has what the
   terminal shows; the user's terminal is reset at every exit(); the program has the slave as
   its terminal and nothing else open; ptyMasterOpen() finds the first free master. *)
PtySafe ==
    /\ Pty!TypeOK /\ Pty!RelayedExactly /\ Pty!TypescriptSame /\ Pty!HangupLosesNothing
    /\ Pty!TerminalReset /\ Pty!ProgramOnSlave /\ Pty!MasterExact

(* The programs of altio/ read all the input of what they close, unless it is opened again
   meanwhile, are never without a signal for input that is there, and report the descriptors
   they were asked for. *)
InputSafe == Altio!TypeOK /\ Altio!InputSafe

LongStream == INSTANCE StreamCopy WITH
                  File <- Input[long], output <- copied[long], BUF_SIZE <- 2,
                  complete <- long \in ended /\ cpc[long] = "exited"
ShortStream == INSTANCE StreamCopy WITH
                  File <- Input[short], output <- copied[short], BUF_SIZE <- 2,
                  complete <- short \in ended /\ cpc[short] = "exited"

(* us_xfr_sv copies the bytes of each client as StreamCopy says: in order, a buffer at
   most at a time, and completely when it sees the end of file of one that exited. *)
CopiesEach == LongStream!Spec /\ ShortStream!Spec

(* What every program comes to: unless a read() or write() fails, svshm_xfr_writer and
   svshm_xfr_reader are done; every echo client has ended, also when fork() or accept()
   failed. Of several us_xfr_sv one is listening, or has died, and what a client that
   exited has written has reached a server's output, whoever took over the pathname, unless
   the server died. readn()
   has returned. SIGTERM has ended test_tty_functions; what the program in the
   pseudoterminal wrote is shown and the parent has ended after it, unless it is stuck in a
   write(); the programs of altio/ have ended when their input has. *)
Settled ==
    CASE program = "svshm_xfr" -> TransferCompletes
      [] program = "echo" -> Echo!ClientsEnd
      [] program = "us_xfr" -> Sock!SomeServer /\ Sock!Delivered
      [] program = "rdwrn" -> Rdwrn!ReadReturnsAtLast
      [] program = "tty" -> Tty!TermEnds
      [] program = "pty" -> Pty!RelayEnds
      [] program = "altio" -> Altio!InputEnds

(* Every program settles. *)
TransfersEnd == []<>Settled
=============================================================================
