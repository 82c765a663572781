----------------------------- MODULE SeqnumTcp ------------------------------
(***************************************************************************)
(* sockets/is_seqnum_sv.c and is_seqnum_cl.c (and their v2, with the       *)
(* socket calls in a library): an iterative TCP server that hands out      *)
(* ranges of sequence numbers. A number travels as text: the client's      *)
(* request may not be a positive number, and the reply is the 32-bit       *)
(* counter formatted with "%d".                                            *)
(***************************************************************************)
EXTENDS Integers, Sequences

CONSTANTS
    Clients, None,
    ReqLen,       \* what atoi() makes of each client's argument
    InitSeqNum,   \* the server's argument
    Modulus       \* the values of seqNum are below it: 2^32 in the code, an even number

VARIABLES
    spc, cfd, reqLen, seqNum,   \* the server
    backlog,                    \* connections not accepted yet, in order
    line,      \* per client: "none", "part" (no newline yet), "full"
    reply,     \* per client: the text the server wrote, as a number, or None
    closed,    \* connections the server has closed
    cpc,       \* per client: "connect", "number", "newline", "read", "done",
               \* "eof", "killed"
    got,       \* per client: the number printed
    ranges,    \* the ranges handed out: <<client, first, length>> (history)
    handed     \* how many numbers they have in all (history)

serverVars == <<spc, cfd, reqLen, seqNum, ranges, handed>>
clientVars == <<cpc, got, line>>
vars == <<serverVars, backlog, reply, closed, clientVars>>

(* "%d" of a uint32_t, and back. *)
ToSigned(n) == IF n < Modulus \div 2 THEN n ELSE n - Modulus

Init ==
    /\ spc = "accept" /\ cfd = None /\ reqLen = 0 /\ seqNum = InitSeqNum
    /\ ranges = {} /\ handed = 0
    /\ backlog = << >> /\ closed = {}
    /\ line = [c \in Clients |-> "none"] /\ reply = [c \in Clients |-> None]
    /\ cpc = [c \in Clients |-> "connect"] /\ got = [c \in Clients |-> None]

-----------------------------------------------------------------------------
(* The server *)

Accept ==
    /\ spc = "accept" /\ backlog # << >>
    /\ cfd' = Head(backlog) /\ backlog' = Tail(backlog)
    /\ spc' = "read"
    /\ UNCHANGED <<reqLen, seqNum, ranges, handed, reply, closed, clientVars>>

(* accept() fails, for instance because the client has aborted the connection: next. *)
AcceptFails ==
    /\ spc = "accept" /\ backlog # << >> /\ cpc[Head(backlog)] = "killed"
    /\ backlog' = Tail(backlog)
    /\ UNCHANGED <<serverVars, reply, closed, clientVars>>

(* Mutant: the descriptor is not closed before the next accept(). *)
LeaveConnectionOpen ==
    /\ UNCHANGED closed
    /\ spc' = "accept"

CloseConnection ==
    /\ closed' = closed \cup {cfd}
    /\ spc' = "accept"

(* readLine(): a whole line; or what a client sent before it was killed, which counts
   as a line too; or nothing at all. *)
ReadRequest ==
    /\ spc = "read"
    /\ \/ /\ line[cfd] = "full" \/ (cpc[cfd] = "killed" /\ line[cfd] = "part")
          /\ reqLen' = ReqLen[cfd]
          /\ IF ReqLen[cfd] <= 0
             THEN CloseConnection
             ELSE spc' = "write" /\ UNCHANGED closed
       \/ /\ cpc[cfd] = "killed"
          /\ CloseConnection
          /\ UNCHANGED reqLen
    /\ UNCHANGED <<cfd, seqNum, ranges, handed, backlog, reply, clientVars>>

(* The reply; whether write() fails (SIGPIPE is ignored) makes no difference. *)
Reply ==
    /\ spc = "write"
    /\ reply' = [reply EXCEPT ![cfd] = IF cpc[cfd] = "killed" THEN None ELSE ToSigned(seqNum)]
    /\ seqNum' = (seqNum + reqLen) % Modulus
    /\ ranges' = ranges \cup {<<cfd, seqNum, reqLen>>}
    /\ handed' = handed + reqLen
    /\ CloseConnection
    /\ UNCHANGED <<cfd, reqLen, backlog, clientVars>>

-----------------------------------------------------------------------------
(* A client *)

Connect(c) ==
    /\ cpc[c] = "connect"
    /\ cpc' = [cpc EXCEPT ![c] = "number"]
    /\ backlog' = Append(backlog, c)
    /\ UNCHANGED <<serverVars, reply, closed, got, line>>

(* Two writes: the length, then the newline. *)
WriteRequest(c) ==
    /\ \/ cpc[c] = "number" /\ cpc' = [cpc EXCEPT ![c] = "newline"]
                            /\ line' = [line EXCEPT ![c] = "part"]
       \/ cpc[c] = "newline" /\ cpc' = [cpc EXCEPT ![c] = "read"]
                             /\ line' = [line EXCEPT ![c] = "full"]
    /\ UNCHANGED <<serverVars, backlog, reply, closed, got>>

(* readLine(), then the number is printed, or "Unexpected EOF from server". *)
ReadReply(c) ==
    /\ cpc[c] = "read"
    /\ reply[c] # None \/ c \in closed
    /\ got' = [got EXCEPT ![c] = reply[c]]
    /\ cpc' = [cpc EXCEPT ![c] = IF reply[c] # None THEN "done" ELSE "eof"]
    /\ UNCHANGED <<serverVars, backlog, reply, closed, line>>

Killed(c) ==
    /\ cpc[c] \in {"number", "newline", "read"}
    /\ cpc' = [cpc EXCEPT ![c] = "killed"]
    /\ UNCHANGED <<serverVars, backlog, reply, closed, got, line>>

Server == Accept \/ AcceptFails \/ ReadRequest \/ Reply
Client(c) == Connect(c) \/ WriteRequest(c) \/ ReadReply(c)

Next == Server \/ \E c \in Clients : Client(c) \/ Killed(c)

Spec == Init /\ [][Next]_vars

-----------------------------------------------------------------------------
TypeOK ==
    /\ spc \in {"accept", "read", "write"} /\ cfd \in Clients \cup {None}
    /\ reqLen \in Int /\ backlog \in Seq(Clients) /\ ranges \subseteq Clients \X Nat \X Nat
    /\ handed \in Nat
    /\ seqNum \in 0..(Modulus - 1) /\ closed \subseteq Clients
    /\ got \in [Clients -> {None} \cup Int]
    /\ reply \in [Clients -> {None} \cup (-(Modulus \div 2))..(Modulus \div 2 - 1)]
    /\ line \in [Clients -> {"none", "part", "full"}]
    /\ cpc \in [Clients -> {"connect", "number", "newline", "read", "done", "eof", "killed"}]

Numbers(r) == {(r[2] + k) % Modulus : k \in 0..(r[3] - 1)}
Asking == {c \in Clients : ReqLen[c] > 0}

(* No sequence number is handed out twice until 2^32 of them have been handed out: also
   when the counter wraps, and when clients disappear before or after their reply. *)
RangesDisjoint ==
    handed <= Modulus =>
        \A r, s \in ranges : r # s => Numbers(r) \cap Numbers(s) = {}

(* What a client prints is, modulo 2^32, the first number of the range that the server
   recorded for it, and that range has the length it asked for. *)
PrintedIsGranted ==
    \A c \in Clients :
        cpc[c] = "done" => <<c, got[c] % Modulus, ReqLen[c]>> \in ranges

(* Only a client whose request is no positive number sees the connection end without
   a reply. *)
BadRequestsOnly == \A c \in Clients : cpc[c] = "eof" => ReqLen[c] <= 0

(* Every client gets its number or is told that it gets none. *)
Served == <>(\A c \in Clients : cpc[c] \in {"done", "eof", "killed"})

-----------------------------------------------------------------------------
(* Why: a client is accepted once and its connection closed once. *)
InBacklog(c) == \E i \in DOMAIN backlog : backlog[i] = c
OnceInv ==
    /\ \A i, k \in DOMAIN backlog : backlog[i] = backlog[k] => i = k
    /\ \A c \in closed : ~InBacklog(c)
    /\ spc # "accept" => cfd \in Clients \ closed /\ ~InBacklog(cfd)
    /\ spc = "write" => reqLen = ReqLen[cfd] /\ cfd \in Asking
    /\ \A c \in Clients :
          cpc[c] = "connect" => ~InBacklog(c) /\ c \notin closed /\ (spc # "accept" => c # cfd)

(* What is granted to a client, written to it and printed by it is the same, and only a
   connection of a bad request is closed without an answer. *)
GrantInv ==
    /\ \A r \in ranges : r[1] \in closed /\ r[1] \in Asking /\ r[3] = ReqLen[r[1]]
    /\ \A r, s \in ranges : r[1] = s[1] => r = s
    /\ \A c \in Clients :
          /\ reply[c] # None => <<c, reply[c] % Modulus, ReqLen[c]>> \in ranges
          /\ cpc[c] = "done" => got[c] = reply[c] /\ reply[c] # None
          /\ c \in closed /\ reply[c] = None /\ cpc[c] # "killed" => c \notin Asking
          /\ cpc[c] = "eof" => c \notin Asking

(* The ranges lie side by side from InitSeqNum on, each at an offset of its own, before the
   counter wraps them around. *)
Placed(off) ==
    /\ \A r \in ranges : r[2] = (InitSeqNum + off[r[1]]) % Modulus /\ off[r[1]] + r[3] <= handed
    /\ \A r, s \in ranges : r # s => off[r[1]] + r[3] <= off[s[1]] \/ off[s[1]] + s[3] <= off[r[1]]
PlaceInv ==
    /\ seqNum = (InitSeqNum + handed) % Modulus
    /\ \E off \in [Clients -> 0..handed] : Placed(off)
Inv == TypeOK /\ OnceInv /\ GrantInv /\ PlaceInv
=============================================================================
