------------------------------ MODULE MCServers -----------------------------
(***************************************************************************)
(* The servers: those that hand out sequence numbers over FIFOs            *)
(* (FifoSeqnum) and over TCP (SeqnumTcp), with the line readers of the     *)
(* latter (ReadLine), the datagram servers (Datagrams), and the programs   *)
(* that pass descriptors and credentials (ScmMessages). One of them is     *)
(* run. What holds of them is stated and, but for ReadLine, proved in      *)
(* DatagramProofs and ServerProofs.                                        *)
(***************************************************************************)
EXTENDS DatagramProofs, ServerProofs

(* The line readers. *)

VARIABLES interrupts, in, n, pos, buf, lines, bpos, rlbuf, bbuf, blines, done, bdone

readVars == <<interrupts, in, n, pos, buf, lines, bpos, rlbuf, bbuf, blines, done, bdone>>
Read == INSTANCE ReadLine WITH MaxLen <- 4, N <- {2, 3, 5}, RL_MAX_BUF <- 3

(* readLine() returns the lines of its input, cut to the buffer, and consumes no more;
   readLineBuf() returns the same however the input is cut into reads, and after an
   interruption still the end of a line of the input. *)
LinesExact ==
    /\ Read!TypeOK /\ Read!LinesExact /\ Read!NoOverread
    /\ Read!BufferedExact /\ Read!BufferedTails

-----------------------------------------------------------------------------
(* What is model checked: one of the servers is run. *)

VARIABLE program

(* FIFO clients that ask for one, two and three numbers. *)
MCSeqLen == [c \in {1, 2, 3} |-> c]

(* Three-bit numbers: requests for 1 and 5 of them, so that they wrap around, and one
   that is not a positive number. *)
MCReqLen == [c \in {"a", "b", "bad"} |-> CASE c = "a" -> 1 [] c = "b" -> 5 [] c = "bad" -> 0]

(* Messages that are too long for the buffer, that fit, and that are empty. *)
MCMsgs == [c \in {"first", "second"} |-> IF c = "first" THEN << <<"a", "b", "a">>, <<"b">> >>
                                                      ELSE << << >>, <<"a", "1">> >>]
MCContent == <<"x", "y", "z">>

MCInit ==
    /\ program \in {"fifo", "tcp", "readLine", "datagrams", "scm"}
    /\ program # "datagrams" => app = "ud_ucase"
    /\ program # "scm" =>
          scm = "scm_rights" /\ path = "none"
          /\ opts = [rdgram |-> TRUE, sdgram |-> TRUE, priv |-> FALSE, ucred |-> "none"]
    /\ Fifo!Init /\ Tcp!Init /\ Read!Init /\ Datagram!Init /\ Scm!Init
    /\ program # "readLine" => in = << >> /\ n = 2 /\ ~interrupts

MCNext ==
    \/ /\ program = "fifo" /\ Fifo!Next
       /\ UNCHANGED <<program, tcpVars, readVars, dgVars, scmVars>>
    \/ /\ program = "tcp" /\ Tcp!Next
       /\ UNCHANGED <<program, fifoVars, readVars, dgVars, scmVars>>
    \/ /\ program = "readLine" /\ Read!Next
       /\ UNCHANGED <<program, fifoVars, tcpVars, dgVars, scmVars>>
    \/ /\ program = "datagrams" /\ Datagram!Next
       /\ UNCHANGED <<program, fifoVars, tcpVars, readVars, scmVars>>
    \/ /\ program = "scm" /\ Scm!Next
       /\ UNCHANGED <<program, fifoVars, tcpVars, readVars, dgVars>>

(* Servers and clients are scheduled; nobody is obliged to kill
   a client, and no call to fail. *)
MCSpec ==
    /\ MCInit /\ [][MCNext]_<<program, fifoVars, tcpVars, readVars, dgVars, scmVars>>
    /\ WF_fifoVars(program = "fifo" /\ Fifo!Server) /\ WF_tcpVars(program = "tcp" /\ Tcp!Server)
    /\ \A c \in FifoClients : WF_fifoVars(program = "fifo" /\ Fifo!Client(c))
    /\ \A c \in TcpClients : WF_tcpVars(program = "tcp" /\ Tcp!Client(c))
    /\ WF_dgVars(program = "datagrams" /\ Datagram!Server)
    /\ \A c \in DgClients : WF_dgVars(program = "datagrams" /\ Datagram!Client(c))
    /\ WF_scmVars(program = "scm" /\ Scm!Receiver) /\ WF_scmVars(program = "scm" /\ Scm!Sender)

-----------------------------------------------------------------------------
(* Every FIFO client gets its answer, unless the server waits for one killed at its open();
   every TCP client its number or the news that it gets none; every datagram client gets its
   answers or an error, unless something fails; what the scm programs have sent is received. *)
ServersAnswer ==
    /\ program = "fifo" => Fifo!Answered
    /\ program = "tcp" => Tcp!Served
    /\ program = "datagrams" => Datagram!AllAnswered
    /\ program = "scm" => Scm!Received
=============================================================================
