------------------------------- MODULE Rdwrn --------------------------------
(***************************************************************************)
(* sockets/rdwrn.c: readn() and writen(), which transfer exactly n bytes   *)
(* over a stream although read() and write() may transfer fewer, be        *)
(* interrupted, or fail. A sender calls writen() once and closes; a        *)
(* receiver calls readn() once.                                            *)
(***************************************************************************)
EXTENDS Integers, Sequences

CONSTANTS
    Data,        \* the sender's bytes
    MaxN,        \* the most the receiver asks for
    Capacity,    \* bytes that fit in the stream
    MaxErrors    \* failing calls; interrupted calls are not limited

VARIABLES
    wpc, wpos, totWritten, wret,     \* writen(): "loop", "returned"; where buf points
    n, rpc, buffer, totRead, rret,   \* readn(): the bytes asked for, the buffer
    stream, errors

sender == <<wpc, wpos, totWritten, wret>>
receiver == <<n, rpc, buffer, totRead, rret>>
vars == <<sender, receiver, stream, errors>>

Init ==
    /\ wpc = "loop" /\ wpos = 0 /\ totWritten = 0 /\ wret = 0
    /\ n \in 0..MaxN /\ rpc = "loop" /\ buffer = << >> /\ totRead = 0 /\ rret = 0
    /\ stream = << >> /\ errors = 0

-----------------------------------------------------------------------------
(* write(fd, buf, n - totWritten) writes some of it. *)
Write ==
    /\ wpc = "loop" /\ totWritten < Len(Data) /\ Len(stream) < Capacity
    /\ \E k \in 1..(Len(Data) - totWritten) :
          /\ k <= Capacity - Len(stream)
          /\ stream' = stream \o SubSeq(Data, wpos + 1, wpos + k)
          /\ totWritten' = totWritten + k
          /\ wpos' = wpos + k
    /\ UNCHANGED <<wpc, wret, receiver, errors>>

(* It fails for a reason other than EINTR; the sender then closes the stream. *)
WriteFails ==
    /\ wpc = "loop" /\ totWritten < Len(Data) /\ errors < MaxErrors
    /\ errors' = errors + 1
    /\ wpc' = "returned" /\ wret' = -1
    /\ UNCHANGED <<wpos, totWritten, receiver, stream>>

WriteReturns ==
    /\ wpc = "loop" /\ totWritten >= Len(Data)
    /\ wpc' = "returned" /\ wret' = totWritten
    /\ UNCHANGED <<wpos, totWritten, receiver, stream, errors>>

Read ==
    /\ rpc = "loop" /\ totRead < n /\ stream # << >>
    /\ \E k \in 1..(n - totRead) :
          /\ k <= Len(stream)
          /\ buffer' = SubSeq(buffer, 1, totRead) \o SubSeq(stream, 1, k)
          /\ stream' = SubSeq(stream, k + 1, Len(stream))
          /\ totRead' = totRead + k
    /\ UNCHANGED <<sender, n, rpc, rret, errors>>

(* read() returns 0. *)
EndOfFile ==
    /\ rpc = "loop" /\ totRead < n /\ stream = << >> /\ wpc = "returned"
    /\ rpc' = "returned" /\ rret' = totRead
    /\ UNCHANGED <<sender, n, buffer, totRead, stream, errors>>

ReadFails ==
    /\ rpc = "loop" /\ totRead < n /\ errors < MaxErrors
    /\ errors' = errors + 1
    /\ rpc' = "returned" /\ rret' = -1
    /\ UNCHANGED <<sender, n, buffer, totRead, stream>>

ReadReturns ==
    /\ rpc = "loop" /\ totRead >= n
    /\ rpc' = "returned" /\ rret' = totRead
    /\ UNCHANGED <<sender, n, buffer, totRead, stream, errors>>

(* An interrupted call (EINTR) goes round the loop and changes nothing: a stuttering
   step. *)
writen == Write \/ WriteFails \/ WriteReturns
readn == Read \/ EndOfFile \/ ReadFails \/ ReadReturns

Next == writen \/ readn

Spec == Init /\ [][Next]_vars

-----------------------------------------------------------------------------
TypeOK ==
    /\ wpc \in {"loop", "returned"} /\ rpc \in {"loop", "returned"}
    /\ totWritten \in 0..Len(Data) /\ wret \in -1..Len(Data)
    /\ totRead \in 0..n /\ rret \in -1..n
    /\ Len(stream) <= Capacity

(* What readn() has stored is the beginning of what writen() was given, whatever the
   sizes in which the calls moved it. *)
BufferExact ==
    /\ Len(buffer) = totRead
    /\ buffer = SubSeq(Data, 1, totRead)

(* The value readn() returns: n; or, at end of file, what the sender wrote in all; or -1
   only after a failure of read(). A writen() that returns n has written all of Data. *)
CountsExact ==
    /\ rpc = "returned" =>
          \/ rret = n /\ totRead = n
          \/ rret = totRead /\ wpc = "returned" /\ totRead = totWritten
          \/ rret = -1 /\ errors > 0
    /\ wpc = "returned" /\ wret >= 0 => wret = Len(Data) /\ totWritten = Len(Data)

(* In the end readn() has returned, since the sender has returned or has sent enough: every
   read() brings it nearer its end, and end of file ends it. *)
ReadReturnsAtLast == rpc = "returned"
=============================================================================
