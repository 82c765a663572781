----------------------------- MODULE SvmsgFile -----------------------------
(***************************************************************************)
(* svmsg/svmsg_file_server.c and svmsg/svmsg_file_client.c: a concurrent   *)
(* file server. The parent reads requests from its message queue and forks *)
(* a child for each; the child sends the file, in blocks, to the queue of  *)
(* the client, and then an end message. A SIGCHLD handler reaps the        *)
(* children. A client stands for its request and for the child serving it. *)
(***************************************************************************)
EXTENDS Integers, Sequences

CONSTANTS
    Clients, None,
    Sizes,          \* sizes of files; -1: the file cannot be opened
    RESP_MSG_SIZE,  \* bytes of file data in one message
    QueueMax        \* messages that fit in a client's queue

VARIABLES
    FileSize,           \* size of the file each client asks for
    spc, req,           \* the server's parent: where it is, the request read
    serverQ,            \* requests in the server queue
    serverExists,       \* the server queue exists
    sigchld,            \* SIGCHLD is pending
    handler,            \* grimReaper() is running
    child, sent,        \* per client: the child that serves it; bytes sent
    readFailed,         \* children whose read() failed
    cpc,                \* per client: where it is
    clientQ,            \* per client: its queue, a sequence of [mtype, len]
    qExists,            \* per client: its queue exists
    totBytes, numMsgs   \* what the client counts and prints

serverVars == <<spc, req, serverQ, serverExists>>
signalVars == <<sigchld, handler>>
fileVars == <<FileSize, readFailed>>
childVars == <<fileVars, child, sent>>
clientVars == <<cpc, totBytes, numMsgs>>
queueVars == <<clientQ, qExists>>
vars == <<serverVars, signalVars, childVars, clientVars, queueVars>>

Init ==
    /\ FileSize \in [Clients -> Sizes] /\ readFailed = {}
    /\ spc = "msgget" /\ req = None /\ serverQ = << >> /\ serverExists = FALSE
    /\ sigchld = FALSE /\ handler = FALSE
    /\ child = [c \in Clients |-> "none"] /\ sent = [c \in Clients |-> 0]
    /\ cpc = [c \in Clients |-> "msgget"]
    /\ totBytes = [c \in Clients |-> 0] /\ numMsgs = [c \in Clients |-> 0]
    /\ clientQ = [c \in Clients |-> << >>] /\ qExists = [c \in Clients |-> FALSE]

Msg(mtype, len) == [mtype |-> mtype, len |-> len]

-----------------------------------------------------------------------------
(* The parent of the server: its code runs while no handler does. *)

ServerCreate ==
    /\ spc = "msgget"
    /\ serverExists' = TRUE
    /\ spc' = "msgrcv"
    /\ UNCHANGED <<req, serverQ, signalVars, childVars, clientVars, queueVars>>

ServerReceive ==
    /\ spc = "msgrcv" /\ ~handler /\ serverQ # << >>
    /\ req' = Head(serverQ)
    /\ serverQ' = Tail(serverQ)
    /\ spc' = "fork"
    /\ UNCHANGED <<serverExists, signalVars, childVars, clientVars, queueVars>>

ServerFork ==
    /\ spc = "fork" /\ ~handler
    /\ child' = [child EXCEPT ![req] = "open"]
    /\ spc' = "msgrcv"
    /\ UNCHANGED <<req, serverQ, serverExists, signalVars, fileVars, sent, clientVars, queueVars>>

(* "If msgrcv() or fork() fails, remove server MQ and exit" (msgrcv() with an error other
   than EINTR): the children then belong to init, which reaps them. *)
ServerFails ==
    /\ spc \in {"msgrcv", "fork"} /\ ~handler
    /\ serverExists' = FALSE
    /\ serverQ' = << >>
    /\ spc' = "exited"
    /\ UNCHANGED <<req, signalVars, childVars, clientVars, queueVars>>

(* The handler runs whenever the signal is pending; it is blocked meanwhile. *)
HandlerStarts ==
    /\ spc \in {"msgrcv", "fork"} /\ sigchld /\ ~handler
    /\ sigchld' = FALSE
    /\ handler' = TRUE
    /\ UNCHANGED <<serverVars, childVars, clientVars, queueVars>>

Zombies == {c \in Clients : child[c] = "zombie"}

(* Mutant: one waitpid() per signal. *)
grimReaperOnce ==
    /\ handler
    /\ \/ \E c \in Zombies : child' = [child EXCEPT ![c] = "reaped"] /\ handler' = FALSE
       \/ Zombies = {} /\ handler' = FALSE /\ UNCHANGED child
    /\ UNCHANGED <<serverVars, sigchld, fileVars, sent, clientVars, queueVars>>

(* grimReaper(): one waitpid() per step, until there is nothing to reap. *)
grimReaper ==
    /\ handler
    /\ \/ \E c \in Zombies : child' = [child EXCEPT ![c] = "reaped"] /\ UNCHANGED handler
       \/ Zombies = {} /\ handler' = FALSE /\ UNCHANGED child
    /\ UNCHANGED <<serverVars, sigchld, fileVars, sent, clientVars, queueVars>>

-----------------------------------------------------------------------------
(* serveRequest(), in the child *)

ChildGoto(c, l) == child' = [child EXCEPT ![c] = l]

(* msgsnd(): waits for room; fails if the queue has been removed. *)
SendTo(c, m) == qExists[c] /\ Len(clientQ[c]) < QueueMax
                /\ clientQ' = [clientQ EXCEPT ![c] = Append(@, m)]

Rest(c) == IF FileSize[c] - sent[c] < RESP_MSG_SIZE THEN FileSize[c] - sent[c]
                                                    ELSE RESP_MSG_SIZE

ChildTerminates(c) == ChildGoto(c, "zombie") /\ sigchld' = TRUE

ChildOpenFails(c) ==
    /\ child[c] = "open" /\ FileSize[c] = -1
    /\ IF qExists[c] THEN SendTo(c, Msg("RESP_MT_FAILURE", 1)) ELSE UNCHANGED clientQ
    /\ ChildTerminates(c)
    /\ UNCHANGED <<serverVars, handler, fileVars, sent, clientVars, qExists>>

ChildOpens(c) ==
    /\ child[c] = "open" /\ FileSize[c] >= 0
    /\ ChildGoto(c, "data")
    /\ UNCHANGED <<serverVars, signalVars, fileVars, sent, clientVars, queueVars>>

(* read() and msgsnd() of one block. *)
ChildSendsData(c) ==
    /\ child[c] = "data" /\ Rest(c) > 0
    /\ SendTo(c, Msg("RESP_MT_DATA", Rest(c)))
    /\ sent' = [sent EXCEPT ![c] = @ + Rest(c)]
    /\ UNCHANGED <<serverVars, signalVars, fileVars, child, clientVars, qExists>>

(* End of file; msgsnd() failed, which ends the loop as well. *)
ChildEndsData(c) ==
    /\ child[c] = "data"
    /\ Rest(c) = 0 \/ ~qExists[c]
    /\ ChildGoto(c, "end")
    /\ UNCHANGED <<serverVars, signalVars, fileVars, sent, clientVars, queueVars>>

(* So does a failure of read(): the end message then follows part of the file. *)
ChildReadFails(c) ==
    /\ child[c] = "data"
    /\ readFailed' = readFailed \cup {c}
    /\ ChildGoto(c, "end")
    /\ UNCHANGED <<serverVars, signalVars, FileSize, sent, clientVars, queueVars>>

ChildSendsEnd(c) ==
    /\ child[c] = "end"
    /\ IF qExists[c] THEN SendTo(c, Msg("RESP_MT_END", 0)) ELSE UNCHANGED clientQ
    /\ ChildTerminates(c)
    /\ UNCHANGED <<serverVars, handler, fileVars, sent, clientVars, qExists>>

-----------------------------------------------------------------------------
(* A client *)

ClientGoto(c, l) == cpc' = [cpc EXCEPT ![c] = l]

(* exit(), which calls removeQueue() *)
removeQueue(c) ==
    /\ qExists' = [qExists EXCEPT ![c] = FALSE]
    /\ clientQ' = [clientQ EXCEPT ![c] = << >>]

ClientStart(c) ==
    /\ cpc[c] = "msgget"
    /\ ClientGoto(c, IF serverExists THEN "send" ELSE "failed")
    /\ qExists' = [qExists EXCEPT ![c] = serverExists]
    /\ UNCHANGED <<serverVars, signalVars, childVars, totBytes, numMsgs, clientQ>>

ClientSend(c) ==
    /\ cpc[c] = "send" /\ serverExists /\ Len(serverQ) < QueueMax
    /\ serverQ' = Append(serverQ, c)
    /\ ClientGoto(c, "first")
    /\ UNCHANGED <<spc, req, serverExists, signalVars, childVars, totBytes, numMsgs, queueVars>>

ClientSendFails(c) ==
    /\ cpc[c] = "send" /\ ~serverExists
    /\ ClientGoto(c, "failed")
    /\ removeQueue(c)
    /\ UNCHANGED <<serverVars, signalVars, childVars, totBytes, numMsgs>>

(* After a message other than data the client prints its counts and exits. *)
Continue(c, mtype) ==
    IF mtype = "RESP_MT_DATA"
    THEN /\ ClientGoto(c, "loop")
         /\ clientQ' = [clientQ EXCEPT ![c] = Tail(@)]
         /\ UNCHANGED qExists
    ELSE ClientGoto(c, "done") /\ removeQueue(c)

ClientFailure(c) ==
    /\ cpc[c] = "first" /\ clientQ[c] # << >>
    /\ Head(clientQ[c]).mtype = "RESP_MT_FAILURE"
    /\ ClientGoto(c, "refused")
    /\ removeQueue(c)
    /\ UNCHANGED <<serverVars, signalVars, childVars, totBytes, numMsgs>>

ClientFirst(c) ==
    /\ cpc[c] = "first" /\ clientQ[c] # << >>
    /\ LET m == Head(clientQ[c]) IN
       /\ m.mtype # "RESP_MT_FAILURE"
       /\ totBytes' = [totBytes EXCEPT ![c] = m.len]
       /\ numMsgs' = [numMsgs EXCEPT ![c] = 1]
       /\ Continue(c, m.mtype)
    /\ UNCHANGED <<serverVars, signalVars, childVars>>

ClientNext(c) ==
    /\ cpc[c] = "loop" /\ clientQ[c] # << >>
    /\ LET m == Head(clientQ[c]) IN
       /\ totBytes' = [totBytes EXCEPT ![c] = @ + m.len]
       /\ numMsgs' = [numMsgs EXCEPT ![c] = @ + 1]
       /\ Continue(c, m.mtype)
    /\ UNCHANGED <<serverVars, signalVars, childVars>>

(* A killed client does not call removeQueue(). *)
ClientKilled(c) ==
    /\ cpc[c] \in {"send", "first", "loop"}
    /\ ClientGoto(c, "killed")
    /\ UNCHANGED <<serverVars, signalVars, childVars, totBytes, numMsgs, queueVars>>

(* Somebody removes the queue of a killed client (svmsg_rm). *)
StaleQueueRemoved(c) ==
    /\ cpc[c] = "killed" /\ qExists[c]
    /\ removeQueue(c)
    /\ UNCHANGED <<serverVars, signalVars, childVars, clientVars>>

-----------------------------------------------------------------------------
Server == ServerCreate \/ ServerReceive \/ ServerFork
Child(c) == ChildOpenFails(c) \/ ChildOpens(c) \/ ChildSendsData(c)
            \/ ChildEndsData(c) \/ ChildReadFails(c) \/ ChildSendsEnd(c)
Client(c) == ClientStart(c) \/ ClientSend(c) \/ ClientSendFails(c)
             \/ ClientFailure(c) \/ ClientFirst(c) \/ ClientNext(c)

Next ==
    \/ Server \/ ServerFails \/ HandlerStarts \/ grimReaper
    \/ \E c \in Clients : Child(c) \/ Client(c) \/ ClientKilled(c) \/ StaleQueueRemoved(c)

Spec == Init /\ [][Next]_vars

-----------------------------------------------------------------------------
Messages == [mtype : {"RESP_MT_FAILURE", "RESP_MT_DATA", "RESP_MT_END"}, len : 0 .. RESP_MSG_SIZE]

TypeOK ==
    /\ spc \in {"msgget", "msgrcv", "fork", "exited"}
    /\ req \in Clients \cup {None}
    /\ serverQ \in Seq(Clients) /\ Len(serverQ) <= QueueMax
    /\ serverExists \in BOOLEAN /\ sigchld \in BOOLEAN /\ handler \in BOOLEAN
    /\ child \in [Clients -> {"none", "open", "data", "end", "zombie", "reaped"}]
    /\ sent \in [Clients -> Nat]
    /\ cpc \in [Clients -> {"msgget", "send", "first", "loop",
                            "done", "refused", "failed", "killed"}]
    /\ clientQ \in [Clients -> Seq(Messages)]
    /\ \A c \in Clients : Len(clientQ[c]) <= QueueMax
    /\ qExists \in [Clients -> BOOLEAN]
    /\ totBytes \in [Clients -> Nat] /\ numMsgs \in [Clients -> Nat]

(* A client that prints its counts has received every byte of the file, in full
   blocks but for the last, and one end message, unless the server failed to read
   the file: the end message does not tell the two apart. A client that prints the
   failure text asked for a file that cannot be opened. *)
Count(c) ==
    /\ cpc[c] = "done" /\ c \notin readFailed =>
          /\ totBytes[c] = FileSize[c]
          /\ numMsgs[c] = (FileSize[c] + RESP_MSG_SIZE - 1) \div RESP_MSG_SIZE + 1
    /\ cpc[c] = "refused" => FileSize[c] = -1
Delivered == \A c \in Clients : Count(c)

(* While the server lives a dead child is never forgotten: either the handler is
   still looping over waitpid() or a SIGCHLD is pending, although signals of
   children that die together are merged into one (grimReaper()). *)
NoForgottenZombie == spc # "exited" /\ Zombies # {} => sigchld \/ handler

(* In the end no client waits: each has its answer to the end, was killed, or came before the
   server, even while the children of killed clients are stuck on full queues. If msgrcv()
   or fork() fails the server exits and its requests are lost. *)
Served ==
    spc # "exited" => \A c \in Clients : cpc[c] \in {"done", "refused", "failed", "killed"}

(* In the end every child that was forked is reaped, those of killed clients included once
   somebody has removed the queue they write to; when the server is gone, they have ended. *)
Reaped ==
    \A c \in Clients : child[c] \in {"none", "reaped"} \/ (spc = "exited" /\ child[c] = "zombie")

-----------------------------------------------------------------------------
(* Why: a client sends one request, which is in the server queue, has been read, or has a
   child. *)
Asked(c) == cpc[c] \notin {"msgget", "send"} /\ child[c] = "none"
RequestInv ==
    /\ \A c \in Clients : child[c] # "none" => cpc[c] \notin {"msgget", "send"}
    /\ \A j, k \in DOMAIN serverQ : Asked(serverQ[j]) /\ (serverQ[j] = serverQ[k] => j = k)
    /\ spc = "fork" => /\ req \in Clients /\ Asked(req)
                       /\ \A j \in DOMAIN serverQ : serverQ[j] # req

(* Why: nothing is sent before the file is opened, and either the file is or the failure is
   reported. *)
Answer(c) ==
    /\ FileSize[c] \in Nat \cup {-1}
    /\ cpc[c] \in {"send", "first", "loop"} => qExists[c]
    /\ cpc[c] \in {"msgget", "send", "first"} => totBytes[c] = 0 /\ numMsgs[c] = 0
    /\ child[c] \in {"none", "open"} =>
          sent[c] = 0 /\ clientQ[c] = << >> /\ cpc[c] \notin {"loop", "done", "refused"}
    /\ FileSize[c] = -1 =>
          /\ child[c] \notin {"data", "end"} /\ cpc[c] \notin {"loop", "done"}
          /\ \A j \in DOMAIN clientQ[c] : clientQ[c][j].mtype = "RESP_MT_FAILURE"
    /\ FileSize[c] # -1 =>
          /\ cpc[c] # "refused"
          /\ \A j \in DOMAIN clientQ[c] : clientQ[c][j].mtype # "RESP_MT_FAILURE"

(* Why: the messages of a client, those received and those in its queue, are the blocks of
   its file in order and an end message; what is sent and received follows from their number. *)
Bytes(n) == n * RESP_MSG_SIZE
Upto(c, n) == IF Bytes(n) < FileSize[c] THEN Bytes(n) ELSE FileSize[c]
Message(c, n) ==
    IF Bytes(n - 1) >= FileSize[c] THEN Msg("RESP_MT_END", 0)
    ELSE Msg("RESP_MT_DATA", IF FileSize[c] < Bytes(n) THEN FileSize[c] - Bytes(n - 1)
                                                       ELSE RESP_MSG_SIZE)
Sent(c) == numMsgs[c] + Len(clientQ[c])
Stream(c) ==
    c \notin readFailed /\ FileSize[c] # -1 /\ cpc[c] \in {"first", "loop"} =>
        /\ totBytes[c] = Upto(c, numMsgs[c])
        /\ \A j \in DOMAIN clientQ[c] : clientQ[c][j] = Message(c, numMsgs[c] + j)
        /\ child[c] \notin {"zombie", "reaped"} =>
              /\ sent[c] = Upto(c, Sent(c))
              /\ Sent(c) > 0 => Bytes(Sent(c) - 1) < FileSize[c]
              /\ child[c] = "end" => Bytes(Sent(c)) >= FileSize[c]
        /\ child[c] \in {"zombie", "reaped"} =>
              /\ Sent(c) > 0 /\ Bytes(Sent(c) - 1) >= FileSize[c]
              /\ Sent(c) > 1 => Bytes(Sent(c) - 2) < FileSize[c]

Inv ==
    /\ TypeOK /\ NoForgottenZombie /\ RequestInv
    /\ \A c \in Clients : Answer(c) /\ Stream(c) /\ Count(c)
=============================================================================
