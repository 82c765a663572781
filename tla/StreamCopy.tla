----------------------------- MODULE StreamCopy -----------------------------
(***************************************************************************)
(* What every "copy this byte stream to that process" program of the       *)
(* repository promises: the receiver's output only ever grows, by at most  *)
(* one buffer at a time, it is always what the sender read so far, and the *)
(* receiver reports success only when it has everything.                   *)
(***************************************************************************)
EXTENDS Integers, Sequences

CONSTANTS
    File,       \* the bytes the sender reads before end-of-file
    BUF_SIZE    \* the size of the transfer buffer

VARIABLES
    output,     \* the bytes the receiver has written
    complete    \* the receiver saw end-of-file and terminated successfully

CopyBlock ==
    /\ ~complete
    /\ \E n \in 1..BUF_SIZE :
          /\ Len(output) + n <= Len(File)
          /\ output' = [i \in 1..(Len(output) + n) |-> File[i]]
    /\ UNCHANGED complete

Finish ==
    /\ ~complete
    /\ output = File
    /\ complete' = TRUE
    /\ UNCHANGED output

Init == output = << >> /\ complete = FALSE

Next == CopyBlock \/ Finish

Spec == Init /\ [][Next]_<<output, complete>>
=============================================================================
