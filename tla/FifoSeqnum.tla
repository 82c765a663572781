----------------------------- MODULE FifoSeqnum -----------------------------
(***************************************************************************)
(* pipes/fifo_seqnum_server.c and pipes/fifo_seqnum_client.c: an iterative *)
(* server hands out ranges of sequence numbers. Requests come through one  *)
(* FIFO; each answer goes through a FIFO that the client has made.         *)
(* Opening a FIFO waits until the other end has been opened.               *)
(***************************************************************************)
EXTENDS Integers, Sequences, FiniteSets

CONSTANTS
    Clients,    \* process IDs
    SeqLen,     \* length of the sequence each client asks for
    INT_MAX     \* the largest int

VARIABLES
    spc,            \* where the server is
    serverOpen,     \* the descriptors the server has on its FIFO
    requests,       \* contents of the server FIFO
    req,            \* the request being served
    seqNum,
    wrapped,        \* seqNum has overflowed (history)
    cpc,            \* where each client is
    fifo,           \* client FIFOs that exist
    reader,         \* clients that have their FIFO open for reading
    answer,         \* contents of each client FIFO
    got             \* what each client printed

numberVars == <<seqNum, wrapped>>
serverVars == <<spc, serverOpen, numberVars, req>>
clientVars == <<cpc, fifo, reader, got>>
vars == <<serverVars, requests, clientVars, answer>>

(* No int. *)
None == -INT_MAX - 2

Init ==
    /\ spc = "openRead" /\ serverOpen = {}
    /\ requests = << >> /\ req = None /\ seqNum = 0 /\ wrapped = FALSE
    /\ cpc = [c \in Clients |-> "mkfifo"]
    /\ fifo = {} /\ reader = {}
    /\ answer = [c \in Clients |-> None]
    /\ got = [c \in Clients |-> None]

(* Clients that have the server FIFO open for writing: until they terminate. *)
Writing(c) == cpc[c] \in {"request", "openOwn", "read"}
Writers == {c \in Clients : Writing(c)}

ServerGoto(l) == spc' = l
Goto(c, l) == cpc' = [cpc EXCEPT ![c] = l]

-----------------------------------------------------------------------------
(* The server *)

(* open(O_RDONLY) returns when there is a client that opens the FIFO too. *)
ServerOpenRead ==
    /\ spc = "openRead"
    /\ \E c \in Clients : cpc[c] = "openServer"
    /\ serverOpen' = {"serverFd"}
    /\ ServerGoto("openDummy")
    /\ UNCHANGED <<requests, req, numberVars, clientVars, answer>>

(* Mutant: the server does not hold its own FIFO open for writing. *)
ServerNoDummy ==
    /\ spc = "openDummy"
    /\ UNCHANGED serverOpen
    /\ ServerGoto("read")
    /\ UNCHANGED <<requests, req, numberVars, clientVars, answer>>

ServerOpenDummy ==
    /\ spc = "openDummy"
    /\ serverOpen' = serverOpen \cup {"dummyFd"}
    /\ ServerGoto("read")
    /\ UNCHANGED <<requests, req, numberVars, clientVars, answer>>

(* A request is written and read at once, being shorter than PIPE_BUF; a read() that fails
   takes nothing from the FIFO ("discarding") and is repeated. *)
ServerRead ==
    /\ spc = "read" /\ requests # << >>
    /\ req' = Head(requests)
    /\ requests' = Tail(requests)
    /\ ServerGoto("open")
    /\ UNCHANGED <<serverOpen, numberVars, clientVars, answer>>

(* The client's FIFO is gone: "give up on client". *)
ServerOpenFails ==
    /\ spc = "open" /\ req \notin fifo
    /\ ServerGoto("read")
    /\ UNCHANGED <<serverOpen, requests, req, numberVars, clientVars, answer>>

(* open(O_WRONLY) begins; a FIFO removed now is still waited for. *)
ServerOpenBegins ==
    /\ spc = "open" /\ req \in fifo
    /\ ServerGoto("opening")
    /\ UNCHANGED <<serverOpen, requests, req, numberVars, clientVars, answer>>

(* It and the client's open(O_RDONLY) wait for each other. *)
ServerOpenClient ==
    /\ spc = "opening" /\ cpc[req] = "openOwn"
    /\ ServerGoto("write")
    /\ Goto(req, "read")
    /\ reader' = reader \cup {req}
    /\ UNCHANGED <<serverOpen, requests, req, numberVars, fifo, got, answer>>

ServerWrite ==
    /\ spc = "write" /\ req \in reader
    /\ answer' = [answer EXCEPT ![req] = seqNum]
    /\ ServerGoto("update")
    /\ UNCHANGED <<serverOpen, requests, req, numberVars, clientVars>>

(* The client is gone: write() fails with EPIPE, since SIGPIPE is ignored. *)
ServerWriteFails ==
    /\ spc = "write" /\ req \notin reader
    /\ ServerGoto("update")
    /\ UNCHANGED <<serverOpen, requests, req, numberVars, clientVars, answer>>

(* seqNum is an int; its overflow is undefined in C, and the addition that is compiled wraps. *)
Sum == seqNum + SeqLen[req]
ServerUpdate ==
    /\ spc = "update"
    /\ seqNum' = IF Sum <= INT_MAX THEN Sum ELSE Sum - 2 * (INT_MAX + 1)
    /\ wrapped' = (wrapped \/ Sum > INT_MAX)
    /\ ServerGoto("read")
    /\ UNCHANGED <<serverOpen, requests, req, clientVars, answer>>

-----------------------------------------------------------------------------
(* A client *)

ClientMkfifo(c) ==
    /\ cpc[c] = "mkfifo"
    /\ fifo' = fifo \cup {c}
    /\ Goto(c, "openServer")
    /\ UNCHANGED <<serverVars, requests, reader, got, answer>>

ClientOpenServer(c) ==
    /\ cpc[c] = "openServer" /\ "serverFd" \in serverOpen
    /\ Goto(c, "request")
    /\ UNCHANGED <<serverVars, requests, fifo, reader, got, answer>>

ClientRequest(c) ==
    /\ cpc[c] = "request"
    /\ requests' = Append(requests, c)
    /\ Goto(c, "openOwn")
    /\ UNCHANGED <<serverVars, fifo, reader, got, answer>>

removeFifo(c) == fifo' = fifo \ {c}

(* The answer is read and printed; exit() calls removeFifo(). *)
ClientRead(c) ==
    /\ cpc[c] = "read" /\ answer[c] # None
    /\ got' = [got EXCEPT ![c] = answer[c]]
    /\ removeFifo(c)
    /\ reader' = reader \ {c}
    /\ Goto(c, "done")
    /\ UNCHANGED <<serverVars, requests, answer>>

(* A killed client leaves its FIFO behind ... *)
ClientKilled(c) ==
    /\ cpc[c] \notin {"done", "killed", "killedOpening"}
    /\ reader' = reader \ {c}
    /\ Goto(c, IF cpc[c] = "openOwn" THEN "killedOpening" ELSE "killed")
    /\ UNCHANGED <<serverVars, requests, fifo, got, answer>>

(* ... until somebody cleans up. *)
RemoveStaleFifo(c) ==
    /\ cpc[c] \in {"killed", "killedOpening"} /\ c \in fifo
    /\ fifo' = fifo \ {c}
    /\ UNCHANGED <<serverVars, requests, cpc, reader, got, answer>>

-----------------------------------------------------------------------------
Server ==
    \/ ServerOpenRead \/ ServerOpenDummy \/ ServerRead \/ ServerOpenFails
    \/ ServerOpenBegins \/ ServerOpenClient \/ ServerWrite \/ ServerWriteFails \/ ServerUpdate

Client(c) ==
    ClientMkfifo(c) \/ ClientOpenServer(c) \/ ClientRequest(c) \/ ClientRead(c)

Next ==
    \/ Server
    \/ \E c \in Clients : Client(c) \/ ClientKilled(c) \/ RemoveStaleFifo(c)

Spec == Init /\ [][Next]_vars

-----------------------------------------------------------------------------
(* Types. *)
TypeOK ==
    /\ spc \in {"openRead", "openDummy", "read", "open", "opening", "write", "update"}
    /\ serverOpen \subseteq {"serverFd", "dummyFd"}
    /\ requests \in Seq(Clients) /\ req \in Clients \cup {None}
    /\ seqNum \in (-INT_MAX - 1) .. INT_MAX /\ wrapped \in BOOLEAN
    /\ cpc \in [Clients -> {"mkfifo", "openServer", "request", "openOwn", "read", "done", "killed",
                        "killedOpening"}]
    /\ reader \subseteq fifo

(* No sequence number is handed out twice, also when clients die before or
   after they are answered: until the server's int overflows, the ranges two
   clients were given are disjoint. *)
RangesDisjoint ==
    \A c, d \in Clients :
        ~wrapped /\ c # d /\ got[c] # None /\ got[d] # None =>
            \/ got[c] + SeqLen[c] <= got[d]
            \/ got[d] + SeqLen[d] <= got[c]

(* "Open an extra write descriptor, so that we never see EOF": when the server
   is about to wait in read(), the FIFO has a writer. *)
NeverEOF ==
    spc = "read" /\ requests = << >> => Writers # {} \/ "dummyFd" \in serverOpen

(* "Create our FIFO (before sending request, to avoid a race)": in the end every
   client that is not killed has its answer, whoever else dies and whenever. There
   is one exception: a client is killed after its request and before its open(),
   and the server waits for ever in open() for the reader that will never come. *)
Answered ==
    <>(\/ \A c \in Clients : cpc[c] \in {"done", "killed", "killedOpening"}
       \/ spc = "opening" /\ cpc[req] = "killedOpening")

-----------------------------------------------------------------------------
Serving == {"open", "opening", "write", "update"}
Queued(c) == \E i \in 1..Len(requests) : requests[i] = c

(* The first number that is not given away. *)
NextFree == IF spc = "update" THEN seqNum + SeqLen[req] ELSE seqNum

Before(c, d) == answer[c] + SeqLen[c] <= answer[d]

(* The server holds its FIFO open from its second open() on. *)
DummyInv == spc \in {"read"} \cup Serving => "dummyFd" \in serverOpen

(* A client that has a reader's descriptor is in its read(), and its FIFO exists. *)
FifoInv ==
    \A c \in Clients :
        /\ c \in reader => cpc[c] = "read"
        /\ cpc[c] \in {"openServer", "request", "openOwn", "read"} => c \in fifo

(* A client sends one request, and it is answered once: no client is twice in the
   queue, in the queue and being served, or in either before it has sent its request. *)
OnceInv ==
    /\ \A i, k \in 1..Len(requests) : requests[i] = requests[k] => i = k
    /\ spc \in Serving => req \in Clients /\ ~Queued(req)
    /\ \A c \in Clients :
          cpc[c] \in {"mkfifo", "openServer", "request"} =>
              ~Queued(c) /\ (spc \in Serving => req # c) /\ answer[c] = None
    /\ \A c \in Clients : Queued(c) => answer[c] = None
    /\ spc \in {"open", "opening", "write"} => answer[req] = None

(* What was answered lies below the next free number and does not overlap. *)
AnswerInv ==
    /\ answer \in [Clients -> Int] /\ got \in [Clients -> Int]
    /\ \A c \in Clients : got[c] # None => got[c] = answer[c]
    /\ \A c \in Clients : ~wrapped /\ answer[c] # None => answer[c] + SeqLen[c] <= NextFree
    /\ \A c, d \in Clients :
          ~wrapped /\ c # d /\ answer[c] # None /\ answer[d] # None => Before(c, d) \/ Before(d, c)

Inv == TypeOK /\ DummyInv /\ FifoInv /\ OnceInv /\ AnswerInv
=============================================================================
