------------------------------ MODULE ReadLine ------------------------------
(***************************************************************************)
(* sockets/read_line.c and sockets/read_line_buf.c: readLine() reads a     *)
(* line one byte at a time, readLineBuf() through a buffer of RL_MAX_BUF   *)
(* bytes. Each is called on its own copy of one input until it reports the *)
(* end of it. Characters are "x" and the newline.                          *)
(***************************************************************************)
EXTENDS Integers, Sequences, FiniteSets, FiniteSetsExt

CONSTANTS
    MaxLen,       \* longest input
    N,            \* sizes of the caller's buffer, for readLine()
    RL_MAX_BUF

NL == "\n"
Inputs == UNION {[1 .. k -> {"x", NL}] : k \in 0 .. MaxLen}

VARIABLES
    interrupts,       \* a read() may be interrupted by a signal handler
    in, n,            \* the input; the size of the buffer of readLine()
    pos, buf, lines,  \* readLine(): bytes read, its result so far, lines returned
    bpos, rlbuf, bbuf, blines,  \* the same for readLineBuf(), and the bytes of the
                                \* ReadLineBuf that are not yet used
    done, bdone       \* end of file reported

lineVars == <<pos, buf, lines, done>>
bufVars == <<bpos, rlbuf, bbuf, blines, bdone>>
given == <<interrupts, in, n>>
vars == <<given, lineVars, bufVars>>

Init ==
    /\ interrupts \in BOOLEAN /\ in \in Inputs /\ n \in N
    /\ pos = 0 /\ buf = << >> /\ lines = << >> /\ done = FALSE
    /\ bpos = 0 /\ rlbuf = << >> /\ bbuf = << >> /\ blines = << >> /\ bdone = FALSE

(* The buffer of the caller keeps the first m bytes. *)
Keep(b, ch, m) == IF Len(b) < m THEN Append(b, ch) ELSE b

-----------------------------------------------------------------------------
(* readLine(): read() of one byte *)

readLine ==
    /\ ~done /\ pos < Len(in)
    /\ pos' = pos + 1
    /\ LET ch == in[pos + 1]
           b == Keep(buf, ch, n - 1) IN
       IF ch = NL THEN lines' = Append(lines, b) /\ buf' = << >>
                  ELSE buf' = b /\ UNCHANGED lines
    /\ UNCHANGED <<given, done, bufVars>>

readLineEOF ==
    /\ ~done /\ pos = Len(in)
    /\ IF buf = << >>
       THEN done' = TRUE /\ UNCHANGED <<buf, lines>>
       ELSE lines' = Append(lines, buf) /\ buf' = << >> /\ UNCHANGED done
    /\ UNCHANGED <<given, pos, bufVars>>

(* EINTR: the read is restarted. *)
readLineEINTR == interrupts /\ ~done /\ UNCHANGED vars

-----------------------------------------------------------------------------
(* readLineBuf() *)

(* The buffer is empty: read() returns between 1 and RL_MAX_BUF bytes. *)
Fill ==
    /\ ~bdone /\ rlbuf = << >> /\ bpos < Len(in)
    /\ \E k \in 1 .. RL_MAX_BUF :
          /\ bpos + k <= Len(in)
          /\ rlbuf' = SubSeq(in, bpos + 1, bpos + k)
          /\ bpos' = bpos + k
    /\ UNCHANGED <<given, lineVars, bbuf, blines, bdone>>

(* Mutant: what is left in the buffer after a line is dropped. *)
TakeAndDrop ==
    /\ ~bdone /\ rlbuf # << >>
    /\ LET c == Head(rlbuf)
           b == Keep(bbuf, c, n - 1) IN
       IF c = NL THEN blines' = Append(blines, b) /\ bbuf' = << >> /\ rlbuf' = << >>
                 ELSE bbuf' = b /\ rlbuf' = Tail(rlbuf) /\ UNCHANGED blines
    /\ UNCHANGED <<given, lineVars, bpos, bdone>>

(* One character is taken; the caller passes n - 1, since readLineBuf() adds no
   terminating null byte. *)
readLineBuf ==
    /\ ~bdone /\ rlbuf # << >>
    /\ rlbuf' = Tail(rlbuf)
    /\ LET c == Head(rlbuf)
           b == Keep(bbuf, c, n - 1) IN
       IF c = NL THEN blines' = Append(blines, b) /\ bbuf' = << >>
                 ELSE bbuf' = b /\ UNCHANGED blines
    /\ UNCHANGED <<given, lineVars, bpos, bdone>>

readLineBufEOF ==
    /\ ~bdone /\ rlbuf = << >> /\ bpos = Len(in)
    /\ IF bbuf = << >>
       THEN bdone' = TRUE /\ UNCHANGED <<bbuf, blines>>
       ELSE blines' = Append(blines, bbuf) /\ bbuf' = << >> /\ UNCHANGED bdone
    /\ UNCHANGED <<given, lineVars, bpos, rlbuf>>

(* EINTR: -1 is returned, and the characters taken so far are lost. *)
readLineBufEINTR ==
    /\ interrupts /\ ~bdone /\ rlbuf = << >>
    /\ bbuf' = << >>
    /\ UNCHANGED <<given, lineVars, bpos, rlbuf, blines, bdone>>

Next == readLine \/ readLineEOF \/ readLineEINTR \/ Fill \/ readLineBuf \/ readLineBufEOF
        \/ readLineBufEINTR
Spec == Init /\ [][Next]_vars

-----------------------------------------------------------------------------
(* What the functions should return *)

Newlines(s) == {k \in DOMAIN s : s[k] = NL}
LineEnds(s) == Newlines(s) \cup (IF s = << >> THEN {} ELSE {Len(s)})
LineStart(s, e) == 1 + Max({0} \cup {l \in Newlines(s) : l < e})
Truncated(s, m) == SubSeq(s, 1, IF Len(s) < m THEN Len(s) ELSE m)

(* The k-th line of s, cut to m bytes. *)
Line(s, k, m) ==
    LET e == CHOOSE e \in LineEnds(s) : Cardinality({l \in LineEnds(s) : l <= e}) = k
    IN  Truncated(SubSeq(s, LineStart(s, e), e), m)

Lines(s, m) == [k \in 1 .. Cardinality(LineEnds(s)) |-> Line(s, k, m)]

TypeOK ==
    /\ pos \in 0 .. Len(in) /\ bpos \in 0 .. Len(in)
    /\ Len(buf) < n /\ Len(bbuf) < n /\ Len(rlbuf) <= RL_MAX_BUF
    /\ done \in BOOLEAN /\ bdone \in BOOLEAN

IsPrefixOf(s, t) == Len(s) <= Len(t) /\ s = SubSeq(t, 1, Len(s))

(* readLine() returns the lines of the input, each cut to n - 1 bytes, and at the
   end has returned all of them, interruptions or not. *)
LinesExact ==
    /\ IsPrefixOf(lines, Lines(in, n - 1))
    /\ done => lines = Lines(in, n - 1)

(* Between two calls readLine() has consumed exactly the lines that it returned, so
   that the descriptor can be handed to somebody else. *)
NoOverread ==
    buf = << >> /\ ~done =>
        Cardinality({e \in LineEnds(in) : e <= pos}) = Len(lines)

(* readLineBuf(), which reads ahead, returns the same lines however the input is cut
   into reads (no interruptions). *)
BufferedExact ==
    ~interrupts =>
    /\ IsPrefixOf(blines, Lines(in, n - 1))
    /\ bdone => blines = Lines(in, n - 1)

(* Also when it is interrupted, what it returns is the end of a line of the input,
   cut to n - 1 bytes: characters are lost, never mixed or repeated. *)
BufferedTails ==
    \A k \in DOMAIN blines : \E e \in LineEnds(in) : \E b \in LineStart(in, e) .. e :
        blines[k] = Truncated(SubSeq(in, b, e), n - 1)
=============================================================================
