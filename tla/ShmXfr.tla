------------------------------- MODULE ShmXfr -------------------------------
(***************************************************************************)
(* svshm/svshm_xfr_writer.c and svshm/svshm_xfr_reader.c: a file is        *)
(* copied, block by block, through one System V shared memory segment.     *)
(* The two binary semaphores of svsem/binary_sems.c pass the turn; a block *)
(* of length 0 is end-of-file; the writer then waits for one more turn and *)
(* removes the semaphore set and the segment.                              *)
(***************************************************************************)
EXTENDS Integers, Sequences

CONSTANTS
    Byte,       \* byte values
    Nul,        \* the byte 0, with which the kernel fills a new segment
    File,       \* what the writer finds on its standard input
    BUF_SIZE    \* svshm_xfr.h: size of shmseg.buf

ASSUME FileAssumption == File \in Seq(Byte)
ASSUME BufAssumption == BUF_SIZE \in Nat \ {0}
ASSUME ByteAssumption == Nul \in Byte

VARIABLES
    sem,        \* the semaphore set: semaphore number -> value
    semExists,  \* the set with key SEM_KEY exists
    cnt, buf,   \* struct shmseg
    shmExists,  \* the segment with key SHM_KEY exists
    wpc, rpc,   \* where the writer and the reader are
    pos,        \* bytes the writer has read from standard input
    wbytes, rbytes, \* the 'bytes' counters the two programs print
    output      \* what the reader has written to standard output

semVars == <<sem, semExists>>
shmVars == <<cnt, buf, shmExists>>
writerVars == <<wpc, pos, wbytes>>
readerVars == <<rpc, rbytes, output>>
vars == <<semVars, shmVars, writerVars, readerVars>>

WRITE_SEM == 0
READ_SEM == 1

WriterPCs == {"semget", "initSemAvailable", "initSemInUse", "shmget",
              "reserve", "read", "release", "testEOF", "reserveLast",
              "rmSem", "rmShm", "done", "failed"}

ReaderPCs == {"semget", "shmget", "reserve", "test", "write", "release",
              "shmdt", "releaseLast", "done", "failed", "fatal"}

Init ==
    /\ sem = [s \in {WRITE_SEM, READ_SEM} |-> 0]
    /\ semExists = FALSE
    /\ cnt = 0
    /\ buf = [i \in 1..BUF_SIZE |-> Nul]
    /\ shmExists = FALSE
    /\ wpc = "semget"
    /\ rpc = "semget"
    /\ pos = 0
    /\ wbytes = 0
    /\ rbytes = 0
    /\ output = << >>

-----------------------------------------------------------------------------
(* svsem/binary_sems.c *)

initSemAvailable(s) == sem' = [sem EXCEPT ![s] = 1]

initSemInUse(s) == sem' = [sem EXCEPT ![s] = 0]

(* Mutant: IPC_NOWAIT with the error ignored. *)
reserveSem_NoWait(s) == sem' = [sem EXCEPT ![s] = IF @ > 0 THEN @ - 1 ELSE 0]

(* semop() with -1 blocks while the value is 0; EINTR is retried, which is
   a step that changes nothing. *)
reserveSem(s) ==
    /\ sem[s] > 0
    /\ sem' = [sem EXCEPT ![s] = @ - 1]

releaseSem(s) == sem' = [sem EXCEPT ![s] = @ + 1]

-----------------------------------------------------------------------------
(* The writer *)

WriterAt(p, q) == wpc = p /\ wpc' = q

(* A new set has all its values 0 on Linux. *)
WriterSemget ==
    /\ WriterAt("semget", "initSemAvailable")
    /\ semExists' = TRUE
    /\ sem' = [s \in {WRITE_SEM, READ_SEM} |-> 0]
    /\ UNCHANGED <<shmVars, pos, wbytes, readerVars>>

WriterInitSemAvailable ==
    /\ WriterAt("initSemAvailable", "initSemInUse")
    /\ initSemAvailable(WRITE_SEM)
    /\ UNCHANGED <<semExists, shmVars, pos, wbytes, readerVars>>

WriterInitSemInUse ==
    /\ WriterAt("initSemInUse", "shmget")
    /\ initSemInUse(READ_SEM)
    /\ UNCHANGED <<semExists, shmVars, pos, wbytes, readerVars>>

WriterShmget ==
    /\ WriterAt("shmget", "reserve")
    /\ shmExists' = TRUE
    /\ cnt' = 0
    /\ buf' = [i \in 1..BUF_SIZE |-> Nul]
    /\ UNCHANGED <<semVars, pos, wbytes, readerVars>>

WriterReserve ==
    /\ WriterAt("reserve", "read")
    /\ reserveSem(WRITE_SEM)
    /\ UNCHANGED <<semExists, shmVars, pos, wbytes, readerVars>>

(* Mutant: the count asked for is recorded, not the count returned. *)
WriterRead_CountAsked ==
    /\ WriterAt("read", "release")
    /\ \E n \in 0..BUF_SIZE :
          /\ pos + n <= Len(File)
          /\ n = 0 <=> pos = Len(File)
          /\ cnt' = IF n = 0 THEN 0 ELSE BUF_SIZE
          /\ buf' = [i \in 1..BUF_SIZE |->
                        IF i <= n THEN File[pos + i] ELSE buf[i]]
          /\ pos' = pos + n
    /\ UNCHANGED <<semVars, shmExists, wbytes, readerVars>>

(* read() returns between 1 and BUF_SIZE of the remaining bytes (fewer than
   asked for on a pipe or a terminal), and 0 at end-of-file. The bytes of
   buf past the ones read keep their old values. *)
WriterRead ==
    /\ WriterAt("read", "release")
    /\ \E n \in 0..BUF_SIZE :
          /\ pos + n <= Len(File)
          /\ n = 0 <=> pos = Len(File)
          /\ cnt' = n
          /\ buf' = [i \in 1..BUF_SIZE |->
                        IF i <= n THEN File[pos + i] ELSE buf[i]]
          /\ pos' = pos + n
    /\ UNCHANGED <<semVars, shmExists, wbytes, readerVars>>

(* read() fails: errExit() leaves the semaphores and the segment behind. *)
WriterReadFails ==
    /\ WriterAt("read", "failed")
    /\ cnt' = -1
    /\ UNCHANGED <<semVars, buf, shmExists, pos, wbytes, readerVars>>

WriterRelease ==
    /\ WriterAt("release", "testEOF")
    /\ releaseSem(READ_SEM)
    /\ UNCHANGED <<semExists, shmVars, pos, wbytes, readerVars>>

(* The writer looks at shmp->cnt again, after it has given its turn away. *)
WriterTestEOF ==
    /\ IF cnt = 0
       THEN WriterAt("testEOF", "reserveLast") /\ UNCHANGED wbytes
       ELSE WriterAt("testEOF", "reserve") /\ wbytes' = wbytes + cnt
    /\ UNCHANGED <<semVars, shmVars, pos, readerVars>>

WriterReserveLast ==
    /\ WriterAt("reserveLast", "rmSem")
    /\ reserveSem(WRITE_SEM)
    /\ UNCHANGED <<semExists, shmVars, pos, wbytes, readerVars>>

WriterRmSem ==
    /\ WriterAt("rmSem", "rmShm")
    /\ semExists' = FALSE
    /\ UNCHANGED <<sem, shmVars, pos, wbytes, readerVars>>

WriterRmShm ==
    /\ WriterAt("rmShm", "done")
    /\ shmExists' = FALSE
    /\ UNCHANGED <<semVars, cnt, buf, pos, wbytes, readerVars>>

Writer ==
    \/ WriterSemget \/ WriterInitSemAvailable \/ WriterInitSemInUse
    \/ WriterShmget \/ WriterReserve \/ WriterRead \/ WriterRelease
    \/ WriterTestEOF \/ WriterReserveLast \/ WriterRmSem \/ WriterRmShm

-----------------------------------------------------------------------------
(* The reader *)

ReaderAt(p, q) == rpc = p /\ rpc' = q

ReaderSemget ==
    /\ ReaderAt("semget", IF semExists THEN "shmget" ELSE "failed")
    /\ UNCHANGED <<semVars, shmVars, writerVars, rbytes, output>>

ReaderShmget ==
    /\ ReaderAt("shmget", IF shmExists THEN "reserve" ELSE "failed")
    /\ UNCHANGED <<semVars, shmVars, writerVars, rbytes, output>>

(* A reader that was started before the writer had created the objects has
   exited with an error; its user runs it again. *)
ReaderRunAgain ==
    /\ ReaderAt("failed", "semget")
    /\ UNCHANGED <<semVars, shmVars, writerVars, rbytes, output>>

ReaderReserve ==
    /\ ReaderAt("reserve", "test")
    /\ reserveSem(READ_SEM)
    /\ UNCHANGED <<semExists, shmVars, writerVars, rbytes, output>>

ReaderTest ==
    /\ IF cnt = 0
       THEN ReaderAt("test", "shmdt") /\ UNCHANGED rbytes
       ELSE ReaderAt("test", "write") /\ rbytes' = rbytes + cnt
    /\ UNCHANGED <<semVars, shmVars, writerVars, output>>

ReaderWrite ==
    /\ ReaderAt("write", "release")
    /\ output' = output \o [i \in 1..cnt |-> buf[i]]
    /\ UNCHANGED <<semVars, shmVars, writerVars, rbytes>>

(* write() fails or is partial: fatal(). *)
ReaderWriteFails ==
    /\ ReaderAt("write", "fatal")
    /\ UNCHANGED <<semVars, shmVars, writerVars, rbytes, output>>

ReaderRelease ==
    /\ ReaderAt("release", "reserve")
    /\ releaseSem(WRITE_SEM)
    /\ UNCHANGED <<semExists, shmVars, writerVars, rbytes, output>>

ReaderShmdt ==
    /\ ReaderAt("shmdt", "releaseLast")
    /\ UNCHANGED <<semVars, shmVars, writerVars, rbytes, output>>

ReaderReleaseLast ==
    /\ ReaderAt("releaseLast", "done")
    /\ releaseSem(WRITE_SEM)
    /\ UNCHANGED <<semExists, shmVars, writerVars, rbytes, output>>

Reader ==
    \/ ReaderSemget \/ ReaderShmget \/ ReaderRunAgain \/ ReaderReserve
    \/ ReaderTest \/ ReaderWrite \/ ReaderRelease \/ ReaderShmdt
    \/ ReaderReleaseLast

-----------------------------------------------------------------------------
(* Both programs have ended, or one of them ended with an error and the
   other waits for it. *)
Ended ==
    \/ wpc = "done" /\ rpc = "done"
    \/ wpc = "failed" /\ rpc = "reserve" /\ sem[READ_SEM] = 0
    \/ rpc = "fatal" /\ wpc \in {"reserve", "reserveLast"}

Terminating == Ended /\ UNCHANGED vars

Next == Writer \/ WriterReadFails \/ Reader \/ ReaderWriteFails \/ Terminating

Spec == Init /\ [][Next]_vars

-----------------------------------------------------------------------------
(* Types of the variables of both programs; the semaphores are binary. *)
TypeOK ==
    /\ sem \in [{WRITE_SEM, READ_SEM} -> 0..1]
    /\ semExists \in BOOLEAN
    /\ cnt \in -1..BUF_SIZE
    /\ buf \in [1..BUF_SIZE -> Byte]
    /\ shmExists \in BOOLEAN
    /\ wpc \in WriterPCs
    /\ rpc \in ReaderPCs
    /\ pos \in 0..Len(File)
    /\ wbytes \in Nat
    /\ rbytes \in Nat
    /\ output \in Seq(Byte)

(* The segment is never written by the writer's read() while the reader is
   between its reserveSem(READ_SEM) and the release of its turn: the turns
   of svshm_xfr_writer.c:43 and svshm_xfr_reader.c:38 exclude each other. *)
SegmentExclusive ==
    ~ (/\ wpc \in {"read", "release"}
       /\ rpc \in {"test", "write", "release", "shmdt", "releaseLast"})

(* The reader's output is what the writer read, in order, without a gap, a
   duplicate or a stale byte of an earlier, longer block, and it lags by at
   most the block that is in the segment. *)
OutputIsPrefix ==
    /\ Len(output) <= pos
    /\ pos - Len(output) <= BUF_SIZE
    /\ \A i \in 1..Len(output) : output[i] = File[i]

(* When the reader says it is finished, nothing is missing, and both programs
   print the same number of bytes although the writer adds shmp->cnt to its
   total only after it has given the segment away. *)
AllDelivered ==
    rpc \in {"shmdt", "releaseLast", "done"} =>
        /\ output = File
        /\ rbytes = Len(File)
        /\ wpc # "testEOF" => wbytes = rbytes

(* The removal of the objects (svshm_xfr_writer.c:66-71) comes after the last
   access of the reader: a reader that attached the segment never runs a
   semop() on a removed set nor touches a removed segment. *)
RemovedOnlyAfterUse ==
    /\ rpc \in {"reserve", "test", "write", "release", "shmdt", "releaseLast"}
         => semExists /\ shmExists
    /\ wpc \in {"reserve", "read", "release", "testEOF", "reserveLast"}
         => semExists /\ shmExists

(* What holds of svshm_xfr_writer and svshm_xfr_reader at every step: they take turns in
   the segment, the output is what was read, and complete at the end, and no object is
   removed that is still used. *)
TransferSafe ==
    TypeOK /\ SegmentExclusive /\ OutputIsPrefix /\ AllDelivered /\ RemovedOnlyAfterUse

(* In the end, unless a read() or write() fails, both programs are done: no turn is lost
   between the reader's start, the end-of-file block and the last turn. *)
TransferCompletes ==
    (wpc = "done" /\ rpc = "done") \/ wpc = "failed" \/ rpc = "fatal"

(* The pair of programs implements the abstract copy: every reader write()
   is one CopyBlock step. *)
Copy == INSTANCE StreamCopy WITH complete <- rpc \in {"shmdt", "releaseLast", "done"}

CopySpec == Copy!Spec
=============================================================================
