----------------------------- MODULE Datagrams ------------------------------
(***************************************************************************)
(* Servers that answer datagrams: sockets/ud_ucase_sv.c (UNIX domain),     *)
(* sockets/i6d_ucase_sv.c and sockets/id_echo_sv.c (UDP), each with its    *)
(* client. UNIX domain datagrams are delivered reliably and in order, and  *)
(* the sender notices when nobody is there to receive. UDP datagrams may   *)
(* be lost, duplicated and reordered; only the client of id_echo_sv, whose *)
(* socket is connected, learns that there is no server.                    *)
(***************************************************************************)
EXTENDS Integers, Sequences, FiniteSets

CONSTANTS
    Clients,
    Msgs,        \* per client: the messages on its command line, sequences of characters
    BUF_SIZE,
    SV_QLEN,     \* datagrams that fit in the queue of a UNIX domain socket
    MaxFaults    \* bound: kinds of faults in a run

VARIABLES
    app,         \* which server and clients run
    spc, req,    \* the server: its next step, and the datagram that it has received
    svq, clq,    \* datagrams at the server's and at the clients' sockets
    names,       \* the clients' pathnames that exist
    cpc, j, got, \* per client: its next step, its next message, the responses it printed
    refused,     \* connected sockets with a pending ECONNREFUSED
    faults       \* the kinds of faults that have happened

vars == <<app, spc, req, svq, clq, names, cpc, j, got, refused, faults>>

Init ==
    /\ app \in {"ud_ucase", "i6d_ucase", "id_echo"}
    /\ spc = "start" /\ req = [from |-> CHOOSE c \in Clients : TRUE, data |-> << >>]
    /\ svq = << >> /\ clq = [c \in Clients |-> << >>] /\ names = {}
    /\ cpc = [c \in Clients |-> "start"] /\ j = [c \in Clients |-> 1]
    /\ got = [c \in Clients |-> << >>]
    /\ refused = {} /\ faults = {}

Udp == app # "ud_ucase"
Live(c) == cpc[c] \in {"send", "recv"}
Bound == spc \in {"recv", "send"}

(* recvfrom() fills at most the buffer; the rest of the datagram is discarded. *)
Cut(data) == SubSeq(data, 1, IF Len(data) < BUF_SIZE THEN Len(data) ELSE BUF_SIZE)

Toupper(ch) == CASE ch = "a" -> "A" [] ch = "b" -> "B" [] OTHER -> ch

(* The datagram that a receiver takes from its queue: over UDP it may be any. *)
Takes(q, n) == n \in DOMAIN q /\ (Udp \/ n = 1)

-----------------------------------------------------------------------------
(* The servers *)

Bind == spc = "start" /\ spc' = "recv" /\ UNCHANGED <<req, svq, clq, faults>>

Ucase(data) == [k \in DOMAIN data |-> Toupper(data[k])]

(* The datagram goes into the buffer, where the ucase servers convert it. *)
Buffered(data) == IF app = "id_echo" THEN Cut(data) ELSE Ucase(Cut(data))

(* The queue q when its nth datagram has been taken. *)
Without(q, n) == SubSeq(q, 1, n - 1) \o SubSeq(q, n + 1, Len(q))

Receive ==
    /\ spc = "recv"
    /\ \E n \in DOMAIN svq :
          /\ Takes(svq, n)
          /\ req' = [from |-> svq[n].from, data |-> Buffered(svq[n].data)]
          /\ svq' = Without(svq, n)
    /\ spc' = "send"
    /\ UNCHANGED <<clq, faults>>

(* recvfrom() fails: none of the servers survives that. *)
RecvfromFails ==
    /\ spc = "recv" /\ Cardinality(faults) < MaxFaults
    /\ faults' = faults \cup {"recvfrom"}
    /\ spc' = "dead"
    /\ UNCHANGED <<req, svq, clq>>

(* sendto() of the answer: it reaches the client if it still has its socket. *)
Reply ==
    /\ spc = "send"
    /\ clq' = IF Live(req.from) THEN [clq EXCEPT ![req.from] = Append(@, req.data)] ELSE clq
    /\ UNCHANGED <<req, svq, faults>>

(* sendto() fails, for want of memory or because of a firewall. *)
SendtoFails ==
    /\ spc = "send" /\ Cardinality(faults) < MaxFaults
    /\ faults' = faults \cup {"sendto"}
    /\ UNCHANGED <<req, svq, clq>>

ud_ucase_sv ==
    /\ app = "ud_ucase"
    /\ \/ Bind
       \/ Receive \/ RecvfromFails
       \/ Reply /\ spc' = IF Live(req.from) /\ req.from \in names THEN "recv" ELSE "dead"
       \/ SendtoFails /\ spc' = "dead"
    /\ UNCHANGED <<app, names, cpc, j, got, refused>>

i6d_ucase_sv ==
    /\ app = "i6d_ucase"
    /\ \/ Bind
       \/ Receive \/ RecvfromFails
       \/ Reply /\ spc' = "recv"
       \/ SendtoFails /\ spc' = "dead"
    /\ UNCHANGED <<app, names, cpc, j, got, refused>>

(* Mutant: a failed sendto() ends the server. *)
id_echo_sv_fatal ==
    /\ app = "id_echo"
    /\ \/ Bind
       \/ Receive \/ RecvfromFails
       \/ Reply /\ spc' = "recv"
       \/ SendtoFails /\ spc' = "dead"
    /\ UNCHANGED <<app, names, cpc, j, got, refused>>

id_echo_sv ==
    /\ app = "id_echo"
    /\ \/ Bind
       \/ Receive \/ RecvfromFails
       \/ Reply /\ spc' = "recv"
       \/ SendtoFails /\ spc' = "recv"
    /\ UNCHANGED <<app, names, cpc, j, got, refused>>

-----------------------------------------------------------------------------
(* The clients *)

Goes(c, label) == cpc' = [cpc EXCEPT ![c] = label]
Another(c) == cpc[c] = "send" /\ j[c] <= Len(Msgs[c])
Datagram(c) == [from |-> c, data |-> Msgs[c][j[c]]]

(* The response to message j arrives and is printed. *)
Response(c) ==
    /\ cpc[c] = "recv"
    /\ \E n \in DOMAIN clq[c] :
          /\ Takes(clq[c], n)
          /\ got' = [got EXCEPT ![c] = Append(@, Cut(clq[c][n]))]
          /\ clq' = [clq EXCEPT ![c] = Without(@, n)]
    /\ j' = [j EXCEPT ![c] = @ + 1] /\ Goes(c, "send")
    /\ UNCHANGED <<svq, names, refused, faults>>

(* The client ends, with its pathname removed or, if it fails, still there. *)
Leaves(c, label, left) ==
    /\ Goes(c, label) /\ names' = left
    /\ UNCHANGED <<svq, clq, j, got, refused, faults>>

ud_ucase_cl(c) ==
    /\ app = "ud_ucase"
    /\ \/ cpc[c] = "start" /\ Leaves(c, "send", names \cup {c})
       \/ /\ Another(c) /\ Bound /\ Len(svq) < SV_QLEN
          /\ svq' = Append(svq, Datagram(c)) /\ Goes(c, "recv")
          /\ UNCHANGED <<clq, names, j, got, refused, faults>>
       \/ Another(c) /\ ~Bound /\ Leaves(c, "failed", names)
       \/ Response(c)
       \/ cpc[c] = "send" /\ ~Another(c) /\ Leaves(c, "done", names \ {c})
    /\ UNCHANGED <<app, spc, req>>

(* A datagram that is sent before there is a server is lost. *)
i6d_ucase_cl(c) ==
    /\ app = "i6d_ucase"
    /\ \/ cpc[c] = "start" /\ Leaves(c, "send", names)
       \/ /\ Another(c) /\ Goes(c, "recv")
          /\ svq' = IF Bound THEN Append(svq, Datagram(c)) ELSE svq
          /\ faults' = IF Bound THEN faults ELSE faults \cup {"lost"}
          /\ UNCHANGED <<clq, names, j, got, refused>>
       \/ Response(c)
       \/ cpc[c] = "send" /\ ~Another(c) /\ Leaves(c, "done", names)
    /\ UNCHANGED <<app, spc, req>>

(* Without a server, read() reports the ICMP error. *)
id_echo_cl(c) ==
    /\ app = "id_echo"
    /\ \/ cpc[c] = "start" /\ Leaves(c, "send", names)
       \/ /\ Another(c) /\ Goes(c, "recv")
          /\ svq' = IF Bound THEN Append(svq, Datagram(c)) ELSE svq
          /\ refused' = IF Bound THEN refused ELSE refused \cup {c}
          /\ UNCHANGED <<clq, names, j, got, faults>>
       \/ cpc[c] = "recv" /\ c \in refused /\ Leaves(c, "failed", names)
       \/ Response(c)
       \/ cpc[c] = "send" /\ ~Another(c) /\ Leaves(c, "done", names)
    /\ UNCHANGED <<app, spc, req>>

-----------------------------------------------------------------------------
(* Faults, each kind once *)

Happens(kind) ==
    /\ kind \notin faults /\ Cardinality(faults) < MaxFaults
    /\ faults' = faults \cup {kind}
    /\ UNCHANGED <<app, spc, req, names, j, got, refused>>

Lose ==
    /\ Udp /\ Happens("lost")
    /\ \/ \E n \in DOMAIN svq : svq' = Without(svq, n) /\ UNCHANGED clq
       \/ \E c \in Clients : /\ clq[c] # << >>
                             /\ clq' = [clq EXCEPT ![c] = Tail(@)]
                             /\ UNCHANGED svq
    /\ UNCHANGED cpc

Duplicate ==
    /\ Udp /\ Happens("duplicated")
    /\ \/ \E n \in DOMAIN svq : svq' = Append(svq, svq[n]) /\ UNCHANGED clq
       \/ \E c \in Clients : /\ clq[c] # << >>
                             /\ clq' = [clq EXCEPT ![c] = Append(@, Head(@))]
                             /\ UNCHANGED svq
    /\ UNCHANGED cpc

(* A client is killed, or a call of its fails; its pathname remains. *)
Kill(c) ==
    /\ Live(c) /\ Happens("killed")
    /\ Goes(c, "killed") /\ clq' = [clq EXCEPT ![c] = << >>]
    /\ UNCHANGED svq

Server == ud_ucase_sv \/ i6d_ucase_sv \/ id_echo_sv
Client(c) == ud_ucase_cl(c) \/ i6d_ucase_cl(c) \/ id_echo_cl(c)

Next ==
    \/ Server \/ Lose \/ Duplicate
    \/ \E c \in Clients : Client(c) \/ Kill(c)

Spec == Init /\ [][Next]_vars

-----------------------------------------------------------------------------
Texts == Seq(STRING)
TypeOK ==
    /\ app \in {"ud_ucase", "i6d_ucase", "id_echo"} /\ spc \in {"start", "recv", "send", "dead"}
    /\ req \in [from : Clients, data : Texts] /\ Len(req.data) <= BUF_SIZE
    /\ svq \in Seq([from : Clients, data : Texts]) /\ clq \in [Clients -> Seq(Texts)]
    /\ cpc \in [Clients -> {"start", "send", "recv", "done", "failed", "killed"}]
    /\ j \in [Clients -> Nat] /\ got \in [Clients -> Seq(Texts)]
    /\ \A c \in Clients : j[c] \in 1..(Len(Msgs[c]) + 1) /\ Len(got[c]) = j[c] - 1
    /\ names \subseteq Clients /\ refused \subseteq Clients
    /\ ~Udp => Len(svq) <= SV_QLEN

(* What the server answers to a message: its first BUF_SIZE bytes, converted. *)
Answer(m) ==
    [k \in 1..(IF Len(m) < BUF_SIZE THEN Len(m) ELSE BUF_SIZE) |->
        IF app = "id_echo" THEN m[k] ELSE Toupper(m[k])]

(* Response n that a client prints is the answer to its message n, and never that to a
   message of another client; a duplicated UDP datagram, which the clients do not
   recognise, may make it the answer to an earlier one. *)
ResponsesMatch ==
    \A c \in Clients : \A n \in DOMAIN got[c] :
       IF "duplicated" \in faults THEN \E k \in 1..n : got[c][n] = Answer(Msgs[c][k])
                                  ELSE got[c][n] = Answer(Msgs[c][n])

(* What may end a server: recvfrom() fails; sendto() fails, but for id_echo_sv; and a client
   that is gone when ud_ucase_sv answers it. *)
MayEnd ==
    \/ "recvfrom" \in faults
    \/ app # "id_echo" /\ "sendto" \in faults
    \/ app = "ud_ucase" /\ "killed" \in faults

(* A server that has ended was ended by one of these: no client can end the UDP servers,
   and id_echo_sv survives a failing sendto(). *)
ServerStays == spc = "dead" => MayEnd

(* Every client gets its answers, or the error that there is no server, unless something
   fails: nobody waits for a datagram that nobody will send. *)
AllAnswered == <>(faults # {} \/ \A c \in Clients : cpc[c] \in {"done", "failed"})

-----------------------------------------------------------------------------
(* Why: what is under way for a client that has not ended belongs to the message it waits
   for, or to an earlier one if a datagram has been duplicated. *)
Active(c) == cpc[c] \in {"start", "send", "recv"}
Queued(c) == \E n \in DOMAIN svq : svq[n].from = c
Serving(c) == spc = "send" /\ req.from = c
Candidates(c) ==
    IF "duplicated" \in faults THEN 1..(IF cpc[c] = "recv" THEN j[c] ELSE j[c] - 1)
                               ELSE IF cpc[c] = "recv" THEN {j[c]} ELSE {}
Flight(c) ==
    Active(c) =>
       /\ \A n \in DOMAIN svq : svq[n].from = c => \E k \in Candidates(c) : svq[n].data = Msgs[c][k]
       /\ Serving(c) => \E k \in Candidates(c) : req.data = Answer(Msgs[c][k])
       /\ \A n \in DOMAIN clq[c] : \E k \in Candidates(c) : clq[c][n] = Answer(Msgs[c][k])

(* Without duplicates it is at most one datagram. *)
Once(c) ==
    Active(c) /\ "duplicated" \notin faults =>
       /\ \A n, m \in DOMAIN svq : svq[n].from = c /\ svq[m].from = c => n = m
       /\ Len(clq[c]) <= 1
       /\ Queued(c) => ~Serving(c) /\ clq[c] = << >>
       /\ Serving(c) => clq[c] = << >>

(* A client of ud_ucase_sv keeps its pathname until it has its answer or is killed. *)
Unix(c) ==
    app = "ud_ucase" =>
       /\ cpc[c] \in {"send", "recv"} => c \in names
       /\ Queued(c) \/ Serving(c) => cpc[c] \in {"recv", "killed"}
       /\ cpc[c] = "killed" => "killed" \in faults
Inv ==
    /\ TypeOK /\ ResponsesMatch /\ ServerStays
    /\ app = "ud_ucase" => "duplicated" \notin faults
    /\ \A c \in Clients : Flight(c) /\ Once(c) /\ Unix(c) /\ (cpc[c] = "recv" => j[c] <= Len(Msgs[c]))
=============================================================================
