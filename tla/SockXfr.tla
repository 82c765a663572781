------------------------------ MODULE SockXfr -------------------------------
(***************************************************************************)
(* sockets/us_xfr_sv.c and us_xfr_cl.c, and their v2 written with          *)
(* unix_sockets.c: clients send their standard input over a UNIX domain    *)
(* stream socket to an iterative server that writes it to its standard     *)
(* output. The first version removes the pathname of the socket before it  *)
(* binds, so that a server started later takes it over.                    *)
(***************************************************************************)
EXTENDS Integers, Sequences, Functions, FiniteSets

CONSTANTS
    Servers, Clients, None,
    Input,        \* per client: the bytes of its standard input
    BUF_SIZE,
    SockBuf,      \* bytes that fit in a connection
    MaxKills      \* bound: clients that are killed and servers that fail

VARIABLES
    path,      \* the server bound to SV_SOCK_PATH, or None
    spc, cfd,  \* per server: its next step, or "failed" (it could not bind) or "died"; the
               \* client accepted
    backlog,   \* per server: connections to accept
    stdout,    \* per server: what it has written
    cpc, pos,  \* per client: "start", "copy", "exited", "failed", "killed"; bytes written
    pipe,      \* per client: bytes under way on its connection
    copied,    \* per client: its bytes that a server has written
    ended      \* clients whose end of file a server has seen

serverVars == <<spc, cfd, stdout, copied, ended>>
clientVars == <<cpc, pos>>
vars == <<path, serverVars, backlog, clientVars, pipe>>

Init ==
    /\ path = None
    /\ spc = [s \in Servers |-> "start"] /\ cfd = [s \in Servers |-> None]
    /\ backlog = [s \in Servers |-> << >>] /\ stdout = [s \in Servers |-> << >>]
    /\ cpc = [c \in Clients |-> "start"] /\ pos = [c \in Clients |-> 0]
    /\ pipe = [c \in Clients |-> << >>] /\ copied = [c \in Clients |-> << >>]
    /\ ended = {}

-----------------------------------------------------------------------------
(* The server: remove(), after which the socket of an earlier server can no longer be
   reached *)
Remove(s) ==
    /\ spc[s] = "start"
    /\ path' = None
    /\ spc' = [spc EXCEPT ![s] = "bind"]
    /\ UNCHANGED <<cfd, stdout, copied, ended, backlog, clientVars, pipe>>

(* bind(), which fails when another server was faster *)
Bind(s) ==
    /\ spc[s] = "bind"
    /\ IF path = None
       THEN path' = s /\ spc' = [spc EXCEPT ![s] = "listen"]
       ELSE spc' = [spc EXCEPT ![s] = "failed"] /\ UNCHANGED path
    /\ UNCHANGED <<cfd, stdout, copied, ended, backlog, clientVars, pipe>>

Listen(s) ==
    /\ spc[s] = "listen"
    /\ spc' = [spc EXCEPT ![s] = "accept"]
    /\ UNCHANGED <<path, cfd, stdout, copied, ended, backlog, clientVars, pipe>>

(* Mutant: the next connection is accepted while this one is still open. *)
AcceptMore(s) ==
    /\ spc[s] \in {"accept", "copy"} /\ backlog[s] # << >>
    /\ cfd' = [cfd EXCEPT ![s] = Head(backlog[s])]
    /\ backlog' = [backlog EXCEPT ![s] =
                        IF spc[s] = "copy" THEN Append(Tail(@), cfd[s]) ELSE Tail(@)]
    /\ spc' = [spc EXCEPT ![s] = "copy"]
    /\ UNCHANGED <<path, stdout, copied, ended, clientVars, pipe>>

Accept(s) ==
    /\ spc[s] = "accept" /\ backlog[s] # << >>
    /\ cfd' = [cfd EXCEPT ![s] = Head(backlog[s])]
    /\ backlog' = [backlog EXCEPT ![s] = Tail(@)]
    /\ spc' = [spc EXCEPT ![s] = "copy"]
    /\ UNCHANGED <<path, stdout, copied, ended, clientVars, pipe>>

(* Mutant: a short read is written as a whole buffer. *)
CopyWholeBuffer(s) ==
    /\ spc[s] = "copy" /\ pipe[cfd[s]] # << >>
    /\ \E n \in 1..BUF_SIZE :
          LET c == cfd[s]
              got == SubSeq(pipe[c], 1, n)
              block == [i \in 1..BUF_SIZE |-> IF i \in DOMAIN got THEN got[i] ELSE got[1]]
          IN  /\ n <= Len(pipe[c])
              /\ stdout' = [stdout EXCEPT ![s] = @ \o block]
              /\ copied' = [copied EXCEPT ![c] = @ \o block]
              /\ pipe' = [pipe EXCEPT ![c] = SubSeq(@, n + 1, Len(@))]
    /\ UNCHANGED <<path, spc, cfd, ended, backlog, clientVars>>

(* read() returns what there is, at most BUF_SIZE bytes, and write() writes it. *)
Copy(s) ==
    /\ spc[s] = "copy" /\ pipe[cfd[s]] # << >>
    /\ \E n \in 1..BUF_SIZE :
          LET c == cfd[s]
              block == SubSeq(pipe[c], 1, n)
          IN  /\ n <= Len(pipe[c])
              /\ stdout' = [stdout EXCEPT ![s] = @ \o block]
              /\ copied' = [copied EXCEPT ![c] = @ \o block]
              /\ pipe' = [pipe EXCEPT ![c] = SubSeq(@, n + 1, Len(@))]
    /\ UNCHANGED <<path, spc, cfd, ended, backlog, clientVars>>

HungUp(c) == cpc[c] \in {"exited", "failed", "killed"}

EndOfFile(s) ==
    /\ spc[s] = "copy" /\ pipe[cfd[s]] = << >> /\ HungUp(cfd[s])
    /\ ended' = ended \cup {cfd[s]}
    /\ spc' = [spc EXCEPT ![s] = "accept"]
    /\ UNCHANGED <<path, cfd, stdout, copied, backlog, clientVars, pipe>>

Faults == Cardinality({c \in Clients : cpc[c] = "killed"})
          + Cardinality({s \in Servers : spc[s] = "died"})

(* listen(), accept(), read() or write() fails, and the server exits. A write() may have
   written a part of the block. Connections that were not served to their end are lost. *)
ServerFails(s) ==
    /\ Faults < MaxKills
    /\ spc[s] \in {"listen", "accept", "copy"}
    /\ spc' = [spc EXCEPT ![s] = "died"]
    /\ \/ UNCHANGED <<stdout, copied>>
       \/ /\ spc[s] = "copy"
          /\ \E n \in 1..(BUF_SIZE - 1) :
                LET c == cfd[s]
                    part == SubSeq(pipe[c], 1, n)
                IN  /\ n <= Len(pipe[c])
                    /\ stdout' = [stdout EXCEPT ![s] = @ \o part]
                    /\ copied' = [copied EXCEPT ![c] = @ \o part]
    /\ UNCHANGED <<path, cfd, ended, backlog, clientVars, pipe>>

(* The connection of a client was never accepted, or not read to its end, by a server that
   has died. *)
Lost(c) ==
    \E s \in Servers :
        /\ spc[s] = "died"
        /\ (cfd[s] = c /\ c \notin ended) \/ c \in Range(backlog[s])

-----------------------------------------------------------------------------
Listening == path # None /\ spc[path] \in {"accept", "copy"}

(* connect() fails when no server listens: there is no pathname, or it is that of a server
   that has not come to listen(), or that has died. *)
Connect(c) ==
    /\ cpc[c] = "start"
    /\ IF ~Listening
       THEN cpc' = [cpc EXCEPT ![c] = "failed"] /\ UNCHANGED backlog
       ELSE /\ cpc' = [cpc EXCEPT ![c] = "copy"]
            /\ backlog' = [backlog EXCEPT ![path] = Append(@, c)]
    /\ UNCHANGED <<path, serverVars, pos, pipe>>

(* write() fills the connection as far as it can; the rest of the buffer follows. *)
Send(c) ==
    /\ cpc[c] = "copy" /\ pos[c] < Len(Input[c])
    /\ ~Lost(c) /\ Len(pipe[c]) < SockBuf
    /\ pipe' = [pipe EXCEPT ![c] = Append(@, Input[c][pos[c] + 1])]
    /\ pos' = [pos EXCEPT ![c] = @ + 1]
    /\ UNCHANGED <<path, serverVars, backlog, cpc>>

(* Without a server at the other end write() raises SIGPIPE. *)
SendFails(c) ==
    /\ cpc[c] = "copy" /\ pos[c] < Len(Input[c]) /\ Lost(c)
    /\ cpc' = [cpc EXCEPT ![c] = "failed"]
    /\ UNCHANGED <<path, serverVars, backlog, pos, pipe>>

Exit(c) ==
    /\ cpc[c] = "copy" /\ pos[c] = Len(Input[c])
    /\ cpc' = [cpc EXCEPT ![c] = "exited"]
    /\ UNCHANGED <<path, serverVars, backlog, pos, pipe>>

Killed(c) ==
    /\ Faults < MaxKills
    /\ cpc[c] = "copy"
    /\ cpc' = [cpc EXCEPT ![c] = "killed"]
    /\ UNCHANGED <<path, serverVars, backlog, pos, pipe>>

Server(s) == Remove(s) \/ Bind(s) \/ Listen(s) \/ Accept(s) \/ Copy(s) \/ EndOfFile(s)
Client(c) == Connect(c) \/ Send(c) \/ SendFails(c) \/ Exit(c)

Next == (\E s \in Servers : Server(s) \/ ServerFails(s)) \/ (\E c \in Clients : Client(c) \/ Killed(c))

Spec == Init /\ [][Next]_vars

-----------------------------------------------------------------------------
TypeOK ==
    /\ path \in Servers \cup {None}
    /\ spc \in [Servers -> {"start", "bind", "listen", "accept", "copy", "failed", "died"}]
    /\ cfd \in [Servers -> Clients \cup {None}]
    /\ cpc \in [Clients -> {"start", "copy", "exited", "failed", "killed"}]
    /\ \A c \in Clients : pos[c] \in 0..Len(Input[c]) /\ Len(pipe[c]) <= SockBuf
    /\ ended \subseteq Clients

(* A server's output is made of whole clients: their bytes never interleave, also when
   several are connected at once and have written before they were accepted. *)
NoInterleaving ==
    \A s \in Servers :
        \A i, j \in DOMAIN stdout[s] :
            i < j /\ stdout[s][i][1] = stdout[s][j][1] =>
                \A k \in i..j : stdout[s][k][1] = stdout[s][i][1]

(* In the end some server is listening: of several started together one wins the race
   for the pathname. When that one has died its pathname is left behind. *)
SomeServer == Listening \/ (path # None /\ spc[path] = "died")

(* In the end what a client that exited successfully wrote has reached a server's output,
   even when another server has taken over the pathname meanwhile; unless its server has
   died, which the client may not notice. *)
Delivered == \A c \in Clients : cpc[c] = "exited" /\ ~Lost(c) => copied[c] = Input[c]
=============================================================================
