----------------------------- MODULE EchoServer -----------------------------
(***************************************************************************)
(* sockets/is_echo_sv.c (and is_echo_v2_sv.c, is_echo_inetd_sv.c, which    *)
(* share its loop) with sockets/is_echo_cl.c: a concurrent TCP echo server *)
(* with a child for each connection, and a client whose parent writes to   *)
(* the connection while its child reads from it. Bytes are numbers.        *)
(***************************************************************************)
EXTENDS Integers, Sequences, FiniteSets

CONSTANTS
    Clients, None,
    InputLen,     \* bytes each client sends
    SockBuf       \* bytes that fit in each direction of a connection

VARIABLES
    spc, cfd,        \* the server: "accept", "fork", "exited"; the connection accepted
    waiting,         \* connections that wait to be accepted
    holders,         \* per connection: the server processes that have it open
    child, cbuf,     \* per connection: the server's child and the byte it holds (0: none)
    zombies, sigchld,
    toServer, toClient,   \* per connection: bytes under way
    shut,            \* connections on which the client has shut down writing
    wpc, sent,       \* the client's parent: where it is, bytes written
    rpc, out         \* the client's child: where it is, what it has printed

serverVars == <<spc, cfd, waiting>>
reapVars == <<zombies, sigchld>>
sockVars == <<toServer, toClient, shut>>
clientVars == <<wpc, sent, rpc, out>>
vars == <<serverVars, holders, child, cbuf, reapVars, sockVars, clientVars>>

Init ==
    /\ spc = "accept" /\ cfd = None /\ waiting = {}
    /\ holders = [c \in Clients |-> {}]
    /\ child = [c \in Clients |-> "none"] /\ cbuf = [c \in Clients |-> 0]
    /\ zombies = 0 /\ sigchld = FALSE
    /\ toServer = [c \in Clients |-> << >>] /\ toClient = [c \in Clients |-> << >>]
    /\ shut = {}
    /\ wpc = [c \in Clients |-> "connect"] /\ sent = [c \in Clients |-> 0]
    /\ rpc = [c \in Clients |-> "none"] /\ out = [c \in Clients |-> << >>]

-----------------------------------------------------------------------------
(* The server's parent *)

Accept ==
    /\ spc = "accept"
    /\ \E c \in waiting : /\ cfd' = c
                          /\ waiting' = waiting \ {c}
                          /\ holders' = [holders EXCEPT ![c] = {"parent"}]
    /\ spc' = "fork"
    /\ UNCHANGED <<child, cbuf, reapVars, sockVars, clientVars>>

(* "Failure in accept()": the server exits. *)
AcceptFails ==
    /\ spc = "accept"
    /\ spc' = "exited"
    /\ UNCHANGED <<cfd, waiting, holders, child, cbuf, reapVars, sockVars, clientVars>>

Fork ==
    /\ spc = "fork"
    /\ child' = [child EXCEPT ![cfd] = "read"]
    /\ holders' = [holders EXCEPT ![cfd] = {"parent", "child"}]
    /\ spc' = "close"
    /\ UNCHANGED <<cfd, waiting, cbuf, reapVars, sockVars, clientVars>>

(* "Give up on this client": only the parent's copy exists, and it is closed next. *)
ForkFails ==
    /\ spc = "fork"
    /\ child' = [child EXCEPT ![cfd] = "refused"]
    /\ spc' = "close"
    /\ UNCHANGED <<cfd, waiting, holders, cbuf, reapVars, sockVars, clientVars>>

(* Mutant: the parent keeps its copy of the connected socket. *)
KeepConnection ==
    /\ spc = "close"
    /\ spc' = "accept"
    /\ UNCHANGED <<cfd, waiting, holders, child, cbuf, reapVars, sockVars, clientVars>>

CloseConnection ==
    /\ spc = "close"
    /\ holders' = [holders EXCEPT ![cfd] = @ \ {"parent"}]
    /\ spc' = "accept"
    /\ UNCHANGED <<cfd, waiting, child, cbuf, reapVars, sockVars, clientVars>>

grimReaper ==
    /\ sigchld /\ spc # "exited"
    /\ sigchld' = FALSE
    /\ zombies' = 0
    /\ UNCHANGED <<serverVars, holders, child, cbuf, sockVars, clientVars>>

-----------------------------------------------------------------------------
(* handleRequest(), in the child *)

ChildEnds(c) ==
    /\ child' = [child EXCEPT ![c] = "exited"]
    /\ holders' = [holders EXCEPT ![c] = @ \ {"child"}]
    /\ zombies' = IF spc = "exited" THEN zombies ELSE zombies + 1
    /\ sigchld' = TRUE

Read(c) ==
    /\ child[c] = "read" /\ toServer[c] # << >>
    /\ cbuf' = [cbuf EXCEPT ![c] = Head(toServer[c])]
    /\ toServer' = [toServer EXCEPT ![c] = Tail(@)]
    /\ child' = [child EXCEPT ![c] = "write"]
    /\ UNCHANGED <<serverVars, holders, reapVars, toClient, shut, clientVars>>

Write(c) ==
    /\ child[c] = "write" /\ rpc[c] # "killed" /\ Len(toClient[c]) < SockBuf
    /\ toClient' = [toClient EXCEPT ![c] = Append(@, cbuf[c])]
    /\ child' = [child EXCEPT ![c] = "read"]
    /\ UNCHANGED <<serverVars, holders, cbuf, reapVars, toServer, shut, clientVars>>

(* End of file; or the client has gone, and read() fails, or write() raises SIGPIPE. *)
ChildExits(c) ==
    /\ \/ child[c] = "read" /\ toServer[c] = << >> /\ c \in shut
       \/ child[c] \in {"read", "write"} /\ rpc[c] = "killed"
    /\ ChildEnds(c)
    /\ UNCHANGED <<serverVars, cbuf, sockVars, clientVars>>

-----------------------------------------------------------------------------
(* A client *)

Connect(c) ==
    /\ wpc[c] = "connect"
    /\ IF spc = "exited"
       THEN wpc' = [wpc EXCEPT ![c] = "failed"] /\ UNCHANGED <<rpc, waiting>>
       ELSE /\ wpc' = [wpc EXCEPT ![c] = "copy"]
            /\ rpc' = [rpc EXCEPT ![c] = "read"]
            /\ waiting' = waiting \cup {c}
    /\ UNCHANGED <<spc, cfd, holders, child, cbuf, reapVars, sockVars, sent, out>>

(* The server side of the connection is closed by every process that had it. *)
Closed(c) == \/ child[c] \in {"exited", "refused"} /\ holders[c] = {}
             \/ c \in waiting /\ spc = "exited"

Send(c) ==
    /\ wpc[c] = "copy" /\ sent[c] < InputLen[c] /\ ~Closed(c)
    /\ Len(toServer[c]) < SockBuf
    /\ toServer' = [toServer EXCEPT ![c] = Append(@, sent[c] + 1)]
    /\ sent' = [sent EXCEPT ![c] = @ + 1]
    /\ UNCHANGED <<serverVars, holders, child, cbuf, reapVars, toClient, shut, wpc, rpc, out>>

(* write() fails: fatal(). *)
SendFails(c) ==
    /\ wpc[c] = "copy" /\ sent[c] < InputLen[c] /\ Closed(c)
    /\ wpc' = [wpc EXCEPT ![c] = "failed"]
    /\ shut' = shut \cup {c}
    /\ UNCHANGED <<serverVars, holders, child, cbuf, reapVars, toServer, toClient, sent, rpc, out>>

(* Mutant: the parent exits without shutdown(), and its child keeps the socket. *)
ExitWithoutShutdown(c) ==
    /\ wpc[c] = "copy" /\ sent[c] = InputLen[c]
    /\ wpc' = [wpc EXCEPT ![c] = "exited"]
    /\ UNCHANGED <<serverVars, holders, child, cbuf, reapVars, sockVars, sent, rpc, out>>

Shutdown(c) ==
    /\ wpc[c] = "copy" /\ sent[c] = InputLen[c]
    /\ shut' = shut \cup {c}
    /\ wpc' = [wpc EXCEPT ![c] = "exited"]
    /\ UNCHANGED <<serverVars, holders, child, cbuf, reapVars, toServer, toClient, sent, rpc, out>>

Receive(c) ==
    /\ rpc[c] = "read" /\ toClient[c] # << >>
    /\ out' = [out EXCEPT ![c] = Append(@, Head(toClient[c]))]
    /\ toClient' = [toClient EXCEPT ![c] = Tail(@)]
    /\ UNCHANGED <<serverVars, holders, child, cbuf, reapVars, toServer, shut, wpc, sent, rpc>>

ReceiveEOF(c) ==
    /\ rpc[c] = "read" /\ toClient[c] = << >> /\ Closed(c)
    /\ rpc' = [rpc EXCEPT ![c] = "exited"]
    /\ UNCHANGED <<serverVars, holders, child, cbuf, reapVars, sockVars, wpc, sent, out>>

(* Both processes of a client are killed. *)
Killed(c) ==
    /\ rpc[c] = "read"
    /\ rpc' = [rpc EXCEPT ![c] = "killed"]
    /\ wpc' = [wpc EXCEPT ![c] = "killed"]
    /\ shut' = shut \cup {c}
    /\ UNCHANGED <<serverVars, holders, child, cbuf, reapVars, toServer, toClient, sent, out>>

(* The loops as they are again in is_echo_v2_sv.c, whose parent only goes on when
   accept() fails, and, for one connection, in is_echo_inetd_sv.c. *)
Server == Accept \/ Fork \/ ForkFails \/ CloseConnection
handleRequest(c) == Read(c) \/ Write(c) \/ ChildExits(c)
Writer(c) == Connect(c) \/ Send(c) \/ SendFails(c) \/ Shutdown(c)
Reader(c) == Receive(c) \/ ReceiveEOF(c)

Next ==
    \/ Server \/ AcceptFails \/ grimReaper
    \/ \E c \in Clients : handleRequest(c) \/ Writer(c) \/ Reader(c) \/ Killed(c)

Spec == Init /\ [][Next]_vars

-----------------------------------------------------------------------------
TypeOK ==
    /\ spc \in {"accept", "fork", "close", "exited"} /\ cfd \in Clients \cup {None}
    /\ waiting \subseteq Clients /\ shut \subseteq Clients
    /\ holders \in [Clients -> SUBSET {"parent", "child"}]
    /\ child \in [Clients -> {"none", "read", "write", "exited", "refused"}]
    /\ zombies \in Nat /\ sigchld \in BOOLEAN
    /\ cbuf \in [Clients -> Nat] /\ sent \in [Clients -> Nat]
    /\ toServer \in [Clients -> Seq(Nat)] /\ toClient \in [Clients -> Seq(Nat)]
    /\ out \in [Clients -> Seq(Nat)]
    /\ wpc \in [Clients -> {"connect", "copy", "exited", "failed", "killed"}]
    /\ rpc \in [Clients -> {"none", "read", "exited", "killed"}]

(* What a client prints is the beginning of what it sent, in order; when it has seen
   the end of the connection of a child that ended regularly, it is all of it. *)
Echoed ==
    \A c \in Clients :
        /\ \A k \in DOMAIN out[c] : out[c][k] = k
        /\ rpc[c] = "exited" /\ child[c] = "exited" => Len(out[c]) = InputLen[c]

(* The server's parent keeps no descriptor of a connection beyond the turn of the loop
   that accepted it, also when fork() fails. *)
NoDescriptorLeak ==
    \A c \in Clients : "parent" \in holders[c] => c = cfd /\ spc \in {"fork", "close"}

(* Dead children are never forgotten while the server lives. *)
NoForgottenChild == zombies > 0 /\ spc # "exited" => sigchld

(* Every client comes to an end, however small the socket buffers: its two processes,
   the server's child and the parent do not wait for each other in a circle. *)
ClientsEnd == \A c \in Clients : wpc[c] # "copy" /\ wpc[c] # "connect" /\ rpc[c] # "read"

-----------------------------------------------------------------------------
(* Why: what is printed, on its way back, in the child's buffer and on its way to the server
   are in this order the bytes sent, while the client lives. *)
Taken(c) == Len(out[c]) + Len(toClient[c]) + (IF child[c] = "write" THEN 1 ELSE 0)
Stream(c) ==
    /\ \A k \in DOMAIN out[c] : out[c][k] = k
    /\ rpc[c] # "killed" =>
          /\ \A k \in DOMAIN toClient[c] : toClient[c][k] = Len(out[c]) + k
          /\ child[c] = "write" => cbuf[c] = Taken(c)
          /\ \A k \in DOMAIN toServer[c] : toServer[c][k] = Taken(c) + k
          /\ Taken(c) + Len(toServer[c]) = sent[c]

(* A child that ends regularly has seen the end of all that its client sends, and a client
   sees the end of a connection only when no child will take it. *)
Life(c) ==
    /\ wpc[c] = "killed" <=> rpc[c] = "killed"
    /\ wpc[c] = "exited" => sent[c] = InputLen[c]
    /\ wpc[c] = "failed" => child[c] \in {"none", "refused"} /\ (child[c] = "none" => spc = "exited")
    /\ c \in shut /\ rpc[c] # "killed" => wpc[c] \in {"exited", "failed"}
    /\ child[c] = "exited" /\ rpc[c] # "killed" => wpc[c] = "exited" /\ toServer[c] = << >>
    /\ rpc[c] = "exited" =>
          child[c] \in {"exited", "refused"} \/ (child[c] = "none" /\ spc = "exited")
    /\ c \in waiting => child[c] = "none" /\ wpc[c] # "connect"
AcceptInv ==
    /\ spc \in {"fork", "close"} => cfd \in Clients \ waiting /\ wpc[cfd] # "connect"
    /\ spc = "fork" => child[cfd] = "none"
    /\ \A c \in Clients : wpc[c] = "connect" => child[c] = "none" /\ rpc[c] = "none"
Inv ==
    /\ TypeOK /\ AcceptInv /\ Echoed /\ NoDescriptorLeak /\ NoForgottenChild
    /\ \A c \in Clients : Stream(c) /\ Life(c)
=============================================================================
