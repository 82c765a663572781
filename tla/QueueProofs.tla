---------------------------- MODULE QueueProofs -----------------------------
(***************************************************************************)
(* What is proved of the programs that use message queues: the file server *)
(* of svmsg/ (SvmsgFile) and the mq_notify programs of pmsg/ (MqNotify).   *)
(* Each is an instance with variables of its own; the constants are        *)
(* arbitrary, but for what the assumptions say.                            *)
(***************************************************************************)
EXTENDS Integers, Sequences, TLAPS

CONSTANTS
    Clients, None, FileSizes, RESP_MSG_SIZE, QueueMax,
    Workers, NotifyMain, mq_maxmsg, MaxSent

-----------------------------------------------------------------------------
(* The file server of svmsg/ *)

VARIABLES
    FileSize, fspc, req, serverQ, serverExists, sigchld, handler, child, sent, readFailed,
    cpc, clientQ, qExists, totBytes, numMsgs

fileVars == <<FileSize, fspc, req, serverQ, serverExists, sigchld, handler, child, sent,
              readFailed, cpc, clientQ, qExists, totBytes, numMsgs>>
File == INSTANCE SvmsgFile WITH spc <- fspc, Sizes <- FileSizes
ASSUME FileAssumption ==
    /\ FileSizes \subseteq Nat \cup {-1} /\ RESP_MSG_SIZE \in Nat \ {0} /\ QueueMax \in Nat

(* What is left of a queue when its first element is taken. *)
LEMMA QueueTail ==
    ASSUME NEW S, NEW q \in Seq(S), q # << >>
    PROVE  /\ Tail(q) \in Seq(S) /\ Len(q) \in Nat /\ Len(Tail(q)) = Len(q) - 1
           /\ \A j \in DOMAIN Tail(q) : j \in Nat /\ j + 1 \in DOMAIN q /\ Tail(q)[j] = q[j + 1]
  OBVIOUS

(* The bytes of a number of full blocks. *)
LEMMA BytesGrow ==
    /\ \A n \in Nat : File!Bytes(n) \in Nat /\ File!Bytes(n + 1) = File!Bytes(n) + RESP_MSG_SIZE
    /\ \A n \in Nat : n > 0 => File!Bytes(n - 1) \in Nat /\ File!Bytes(n) = File!Bytes(n - 1) + RESP_MSG_SIZE
    /\ File!Bytes(0) = 0
    /\ \A m, n \in Nat : m <= n => File!Bytes(m) <= File!Bytes(n)
<1> USE FileAssumption DEF File!Bytes
<1>1. \A n \in Nat : File!Bytes(n) \in Nat /\ File!Bytes(n + 1) = File!Bytes(n) + RESP_MSG_SIZE
  OBVIOUS
<1>2. \A n \in Nat : n > 0 => File!Bytes(n - 1) \in Nat /\ File!Bytes(n) = File!Bytes(n - 1) + RESP_MSG_SIZE
  OBVIOUS
<1>3. File!Bytes(0) = 0
  OBVIOUS
<1>4. ASSUME NEW m \in Nat, NEW n \in Nat, m <= n PROVE File!Bytes(m) <= File!Bytes(n)
  <2>1. PICK k \in Nat : n = m + k
    BY <1>4
  <2>2. n * RESP_MSG_SIZE = m * RESP_MSG_SIZE + k * RESP_MSG_SIZE /\ k * RESP_MSG_SIZE \in Nat /\ m * RESP_MSG_SIZE \in Nat
    BY <2>1
  <2> QED
    BY <2>2
<1> QED
  BY <1>1, <1>2, <1>3, <1>4

(* How many blocks a file has. *)
LEMMA BlocksOf ==
    ASSUME NEW n \in Nat, NEW F \in Nat, File!Bytes(n) >= F, n > 0 => File!Bytes(n - 1) < F
    PROVE  (F + RESP_MSG_SIZE - 1) \div RESP_MSG_SIZE = n
<1> DEFINE X == F + RESP_MSG_SIZE - 1
<1>1. X \in Nat /\ n * RESP_MSG_SIZE \in Nat
  BY FileAssumption
<1>2. n * RESP_MSG_SIZE <= X /\ X < n * RESP_MSG_SIZE + RESP_MSG_SIZE
  BY BytesGrow, FileAssumption DEF File!Bytes
<1> QED
  BY <1>1, <1>2, FileAssumption

(* It holds before the server queue is created. *)
LEMMA FileInit == File!Init => File!Inv
<1> SUFFICES ASSUME File!Init PROVE File!Inv
  OBVIOUS
<1> USE FileAssumption
<1>1. /\ serverExists \in BOOLEAN /\ sigchld \in BOOLEAN /\ handler \in BOOLEAN
      /\ qExists \in [Clients -> BOOLEAN]
  BY Zenon DEF File!Init
<1>2. File!TypeOK /\ File!RequestInv
  BY <1>1 DEF File!Init, File!TypeOK, File!RequestInv, File!Asked
<1>3. File!NoForgottenZombie
  BY DEF File!Init, File!NoForgottenZombie, File!Zombies
<1>4. \A c \in Clients : File!Answer(c) /\ File!Stream(c) /\ File!Count(c)
  <2> TAKE c \in Clients
  <2>1. /\ FileSize[c] \in Nat \cup {-1} /\ child[c] = "none" /\ sent[c] = 0 /\ cpc[c] = "msgget"
        /\ totBytes[c] = 0 /\ numMsgs[c] = 0 /\ clientQ[c] = << >>
    BY Zenon DEF File!Init
  <2> QED
    BY <2>1 DEF File!Answer, File!Stream, File!Count
<1> QED
  BY <1>2, <1>3, <1>4 DEF File!Inv

(* What a response holds. *)
LEMMA FileMessage ==
    ASSUME NEW x \in File!Messages
    PROVE  x.len \in Nat /\ (x.mtype # "RESP_MT_FAILURE" => x.mtype \in {"RESP_MT_DATA", "RESP_MT_END"})
  BY FileAssumption DEF File!Messages

(* What Stream says of a client that receives a file that can be read. *)
LEMMA FileStreaming ==
    ASSUME NEW c \in Clients, File!Stream(c), c \notin readFailed, FileSize[c] \in Nat,
           cpc[c] \in {"first", "loop"}
    PROVE  /\ totBytes[c] = File!Upto(c, numMsgs[c])
           /\ \A j \in DOMAIN clientQ[c] : clientQ[c][j] = File!Message(c, numMsgs[c] + j)
           /\ child[c] \notin {"zombie", "reaped"} =>
                 /\ sent[c] = File!Upto(c, File!Sent(c))
                 /\ File!Sent(c) > 0 => File!Bytes(File!Sent(c) - 1) < FileSize[c]
                 /\ child[c] = "end" => File!Bytes(File!Sent(c)) >= FileSize[c]
           /\ child[c] \in {"zombie", "reaped"} =>
                 /\ File!Sent(c) > 0 /\ File!Bytes(File!Sent(c) - 1) >= FileSize[c]
                 /\ File!Sent(c) > 1 => File!Bytes(File!Sent(c) - 2) < FileSize[c]
<1>1. FileSize[c] # -1
  OBVIOUS
<1> QED
  BY <1>1, Zenon DEF File!Stream

(* What is said of a client does not depend on another one. *)
LEMMA FileOther ==
    ASSUME NEW c \in Clients, File!Answer(c), File!Stream(c), File!Count(c),
           FileSize'[c] = FileSize[c], cpc'[c] = cpc[c], qExists'[c] = qExists[c],
           totBytes'[c] = totBytes[c], numMsgs'[c] = numMsgs[c], child'[c] = child[c],
           sent'[c] = sent[c], clientQ'[c] = clientQ[c], c \in readFailed' <=> c \in readFailed
    PROVE  File!Answer(c)' /\ File!Stream(c)' /\ File!Count(c)'
<1>1. File!Answer(c)'
  BY DEF File!Answer
<1>2. File!Count(c)'
  BY DEF File!Count
<1>3. File!Stream(c)'
  BY DEF File!Stream, File!Upto, File!Message, File!Sent, File!Msg
<1> QED
  BY <1>1, <1>2, <1>3

(* Nor do the requests depend on what a child does, or a client that has asked. *)
LEMMA FileRequests ==
    ASSUME File!Inv, UNCHANGED <<fspc, req, serverQ>>,
           \A d \in Clients : child'[d] = "none" <=> child[d] = "none",
           \A d \in Clients : cpc[d] \notin {"msgget", "send"} => cpc'[d] \notin {"msgget", "send"}
    PROVE  File!RequestInv'
<1>1. \A j \in DOMAIN serverQ : serverQ[j] \in Clients
  BY DEF File!Inv, File!TypeOK
<1> QED
  BY <1>1 DEF File!Inv, File!RequestInv, File!Asked

(* The parent of the server and its handler touch no client but for the state of a child. *)
LEMMA FileServer ==
    ASSUME File!Inv, File!Server \/ File!ServerFails \/ File!HandlerStarts \/ File!grimReaper
    PROVE  File!Inv'
<1> USE FileAssumption DEF File!serverVars, File!signalVars, File!fileVars, File!childVars, File!clientVars, File!queueVars
<1>1. CASE File!ServerCreate
  <2>1. serverExists' \in BOOLEAN
    BY <1>1, Zenon DEF File!ServerCreate
  <2>2. File!TypeOK' /\ File!RequestInv'
    BY <1>1, <2>1 DEF File!ServerCreate, File!Inv, File!TypeOK, File!RequestInv, File!Asked
  <2>3. File!NoForgottenZombie'
    BY <1>1 DEF File!ServerCreate, File!Inv, File!NoForgottenZombie, File!Zombies
  <2>4. \A c \in Clients : File!Answer(c)' /\ File!Stream(c)' /\ File!Count(c)'
    BY <1>1, FileOther DEF File!ServerCreate, File!Inv
  <2> QED
    BY <2>2, <2>3, <2>4 DEF File!Inv
<1>2. CASE File!ServerReceive
  <2>1. /\ fspc' = "fork" /\ req' = serverQ[1] /\ serverQ' = Tail(serverQ) /\ Len(serverQ) > 0
        /\ UNCHANGED <<serverExists, sigchld, handler, FileSize, readFailed, child, sent, cpc, totBytes, numMsgs, clientQ, qExists>>
    BY <1>2 DEF File!ServerReceive, File!Inv, File!TypeOK
  <2>2. /\ serverQ \in Seq(Clients) /\ Len(serverQ') = Len(serverQ) - 1 /\ serverQ' \in Seq(Clients)
        /\ \A j \in DOMAIN serverQ' : j + 1 \in DOMAIN serverQ /\ serverQ'[j] = serverQ[j + 1]
    BY <2>1 DEF File!Inv, File!TypeOK
  <2>3. File!TypeOK'
    <3>1. req' \in Clients /\ Len(serverQ') <= QueueMax
      BY <2>1, <2>2 DEF File!Inv, File!TypeOK
    <3> QED
      BY <2>1, <2>2, <3>1, Zenon DEF File!Inv, File!TypeOK
  <2>4. File!RequestInv'
    <3>1. 1 \in DOMAIN serverQ /\ \A j \in DOMAIN serverQ' : j \in Nat /\ j + 1 # 1
      BY <2>1, <2>2
    <3>2. req' \in Clients /\ File!Asked(req)' /\ \A j \in DOMAIN serverQ' : serverQ'[j] # req'
      BY <2>1, <2>2, <3>1 DEF File!Inv, File!RequestInv, File!Asked
    <3>3. \A j, k \in DOMAIN serverQ' : File!Asked(serverQ[j])' /\ (serverQ'[j] = serverQ'[k] => j = k)
      BY <2>1, <2>2, <3>1 DEF File!Inv, File!RequestInv, File!Asked
    <3> QED
      BY <2>1, <3>2, <3>3 DEF File!Inv, File!RequestInv
  <2>5. File!NoForgottenZombie'
    BY <1>2, <2>1 DEF File!ServerReceive, File!Inv, File!NoForgottenZombie, File!Zombies
  <2>6. \A c \in Clients : File!Answer(c)' /\ File!Stream(c)' /\ File!Count(c)'
    BY <2>1, FileOther DEF File!Inv
  <2> QED
    BY <2>3, <2>4, <2>5, <2>6 DEF File!Inv
<1>3. CASE File!ServerFork
  <2>1. /\ fspc = "fork" /\ fspc' = "msgrcv" /\ child' = [child EXCEPT ![req] = "open"]
        /\ UNCHANGED <<req, serverQ, serverExists, sigchld, handler, FileSize, readFailed, sent, cpc, totBytes, numMsgs, clientQ, qExists>>
    BY <1>3 DEF File!ServerFork
  <2>2. req \in Clients /\ File!Asked(req) /\ \A j \in DOMAIN serverQ : serverQ[j] # req /\ serverQ[j] \in Clients
    BY <2>1 DEF File!Inv, File!RequestInv, File!TypeOK
  <2>3. File!TypeOK' /\ File!RequestInv'
    BY <2>1, <2>2 DEF File!Inv, File!TypeOK, File!RequestInv, File!Asked
  <2>4. File!NoForgottenZombie'
    BY <2>1, <2>2, Zenon DEF File!Inv, File!TypeOK, File!NoForgottenZombie, File!Zombies
  <2>5. ASSUME NEW c \in Clients, c # req PROVE File!Answer(c)' /\ File!Stream(c)' /\ File!Count(c)'
    <3>1. child'[c] = child[c]
      BY <2>1, <2>5 DEF File!Inv, File!TypeOK
    <3> QED
      BY <2>1, <3>1, FileOther DEF File!Inv
  <2>6. child[req] = "none" /\ child'[req] = "open"
    BY <2>1, <2>2 DEF File!Inv, File!TypeOK, File!Asked
  <2>7. File!Answer(req)'
    BY <2>1, <2>2, <2>6, Zenon DEF File!Inv, File!Answer
  <2>8. File!Count(req)'
    BY <2>1, <2>2 DEF File!Inv, File!Count
  <2>9. File!Stream(req)'
    BY <2>1, <2>2, <2>6, Zenon DEF File!Inv, File!Stream, File!Upto, File!Message, File!Sent, File!Msg
  <2> QED
    BY <2>1, <2>3, <2>4, <2>5, <2>7, <2>8, <2>9 DEF File!Inv
<1>4. CASE File!ServerFails
  <2>1. serverExists' \in BOOLEAN
    BY <1>4, Zenon DEF File!ServerFails
  <2>2. File!TypeOK' /\ File!RequestInv'
    <3>1. /\ fspc' = "exited" /\ serverQ' = << >>
          /\ UNCHANGED <<req, sigchld, handler, FileSize, readFailed, child, sent, cpc, totBytes, numMsgs, clientQ, qExists>>
      BY <1>4 DEF File!ServerFails
    <3>2. File!TypeOK'
      <4>1. serverQ' \in Seq(Clients) /\ Len(serverQ') <= QueueMax
        BY <3>1
      <4> QED
        BY <2>1, <3>1, <4>1 DEF File!Inv, File!TypeOK
    <3>3. File!RequestInv'
      BY <3>1 DEF File!Inv, File!RequestInv
    <3> QED
      BY <3>2, <3>3
  <2>3. File!NoForgottenZombie'
    BY <1>4 DEF File!ServerFails, File!NoForgottenZombie
  <2>4. \A c \in Clients : File!Answer(c)' /\ File!Stream(c)' /\ File!Count(c)'
    BY <1>4, FileOther DEF File!ServerFails, File!Inv
  <2> QED
    BY <2>2, <2>3, <2>4 DEF File!Inv
<1>5. CASE File!HandlerStarts
  <2>1. sigchld' \in BOOLEAN /\ handler' \in BOOLEAN /\ handler'
    BY <1>5, Zenon DEF File!HandlerStarts
  <2>2. File!TypeOK' /\ File!RequestInv'
    BY <1>5, <2>1 DEF File!HandlerStarts, File!Inv, File!TypeOK, File!RequestInv, File!Asked
  <2>3. File!NoForgottenZombie'
    BY <2>1 DEF File!NoForgottenZombie
  <2>4. \A c \in Clients : File!Answer(c)' /\ File!Stream(c)' /\ File!Count(c)'
    BY <1>5, FileOther DEF File!HandlerStarts, File!Inv
  <2> QED
    BY <2>2, <2>3, <2>4 DEF File!Inv
<1>6. CASE File!grimReaper
  <2>0. UNCHANGED <<fspc, req, serverQ, serverExists, sigchld, FileSize, readFailed, sent, cpc, totBytes, numMsgs, clientQ, qExists>>
    BY <1>6 DEF File!grimReaper
  <2>1. CASE File!Zombies = {} /\ handler' = FALSE /\ UNCHANGED child
    <3>1. handler' \in BOOLEAN
      BY <2>1, Zenon
    <3>2. File!TypeOK' /\ File!RequestInv'
      BY <2>0, <2>1, <3>1, ZenonT(30) DEF File!Inv, File!TypeOK, File!RequestInv, File!Asked
    <3>3. File!NoForgottenZombie'
      BY <2>1 DEF File!NoForgottenZombie, File!Zombies
    <3>4. \A c \in Clients : File!Answer(c)' /\ File!Stream(c)' /\ File!Count(c)'
      BY <2>0, <2>1, FileOther, Zenon DEF File!Inv
    <3> QED
      BY <3>2, <3>3, <3>4 DEF File!Inv
  <2>2. ASSUME NEW c \in File!Zombies, child' = [child EXCEPT ![c] = "reaped"], UNCHANGED handler PROVE File!Inv'
    <3>1. c \in Clients /\ child[c] = "zombie" /\ child'[c] = "reaped"
      BY <2>2 DEF File!Zombies, File!Inv, File!TypeOK
    <3>2. File!TypeOK' /\ File!RequestInv'
      <4>1. File!TypeOK'
        BY <2>0, <2>2, <3>1, SMTT(30) DEF File!Inv, File!TypeOK
      <4>2. \A d \in Clients : child'[d] = "none" <=> child[d] = "none"
        BY <2>2, <3>1 DEF File!Inv, File!TypeOK
      <4>3. File!RequestInv'
        BY <2>0, <4>2, FileRequests
      <4> QED
        BY <4>1, <4>3
    <3>3. File!NoForgottenZombie'
      BY <1>6, <2>0, <2>2 DEF File!grimReaper, File!NoForgottenZombie
    <3>4. ASSUME NEW d \in Clients, d # c PROVE File!Answer(d)' /\ File!Stream(d)' /\ File!Count(d)'
      <4>1. child'[d] = child[d]
        BY <2>2, <3>1, <3>4, Zenon DEF File!Inv, File!TypeOK
      <4> QED
        BY <2>0, <4>1, FileOther DEF File!Inv
    <3>5. File!Answer(c)'
      BY <2>0, <3>1, Zenon DEF File!Inv, File!Answer
    <3>6. File!Count(c)'
      BY <2>0, <3>1, Zenon DEF File!Inv, File!Count
    <3>7. File!Stream(c)'
      BY <2>0, <3>1 DEF File!Inv, File!Stream, File!Upto, File!Message, File!Sent, File!Msg
    <3> QED
      BY <3>1, <3>2, <3>3, <3>4, <3>5, <3>6, <3>7 DEF File!Inv
  <2> QED
    BY <1>6, <2>1, <2>2, Zenon DEF File!grimReaper
<1> QED
  BY <1>1, <1>2, <1>3, <1>4, <1>5, <1>6 DEF File!Server

(* A child appends one message to the queue of its client. *)
Appended(c, m) ==
    /\ clientQ' \in [Clients -> Seq(File!Messages)]
    /\ \A d \in Clients : Len(clientQ'[d]) <= QueueMax
    /\ \A d \in Clients : d # c => clientQ'[d] = clientQ[d]
    /\ Len(clientQ[c]) \in Nat /\ Len(clientQ'[c]) = Len(clientQ[c]) + 1
    /\ clientQ'[c][Len(clientQ[c]) + 1] = m
    /\ \A j \in DOMAIN clientQ'[c] :
          \/ j = Len(clientQ[c]) + 1
          \/ j \in DOMAIN clientQ[c] /\ clientQ'[c][j] = clientQ[c][j]
LEMMA FileAppend ==
    ASSUME File!Inv, NEW c \in Clients, NEW m \in File!Messages, File!SendTo(c, m)
    PROVE  Appended(c, m)
<1>1. clientQ \in [Clients -> Seq(File!Messages)] /\ \A d \in Clients : Len(clientQ[d]) <= QueueMax
  BY DEF File!Inv, File!TypeOK
<1>2. clientQ' = [clientQ EXCEPT ![c] = Append(@, m)] /\ Len(clientQ[c]) < QueueMax
  BY DEF File!SendTo
<1>3. /\ Append(clientQ[c], m) \in Seq(File!Messages) /\ Len(clientQ[c]) \in Nat
      /\ Len(Append(clientQ[c], m)) = Len(clientQ[c]) + 1
      /\ Append(clientQ[c], m)[Len(clientQ[c]) + 1] = m
      /\ \A j \in DOMAIN Append(clientQ[c], m) :
            \/ j = Len(clientQ[c]) + 1
            \/ j \in DOMAIN clientQ[c] /\ Append(clientQ[c], m)[j] = clientQ[c][j]
  BY <1>1, <1>2
<1>4. clientQ'[c] = Append(clientQ[c], m) /\ \A d \in Clients : d # c => clientQ'[d] = clientQ[d]
  BY <1>1, <1>2
<1>5. clientQ' \in [Clients -> Seq(File!Messages)]
  BY <1>1, <1>2, <1>3
<1>6. \A d \in Clients : Len(clientQ'[d]) <= QueueMax
  BY <1>1, <1>2, <1>3, <1>4, FileAssumption
<1> QED
  BY <1>3, <1>4, <1>5, <1>6 DEF Appended

(* A step of a child preserves it. *)
LEMMA FileChild == ASSUME File!Inv, NEW c \in Clients, File!Child(c) PROVE File!Inv'
<1> USE FileAssumption DEF File!serverVars, File!signalVars, File!fileVars, File!childVars, File!clientVars, File!queueVars,
    File!ChildGoto, File!ChildTerminates
<1>0. /\ child \in [Clients -> {"none", "open", "data", "end", "zombie", "reaped"}]
      /\ sent \in [Clients -> Nat] /\ numMsgs \in [Clients -> Nat]
      /\ File!Answer(c) /\ File!Stream(c) /\ File!Count(c)
  BY DEF File!Inv, File!TypeOK
<1>1. CASE File!ChildOpens(c)
  <2>1. /\ child[c] = "open" /\ child' = [child EXCEPT ![c] = "data"] /\ FileSize[c] >= 0
        /\ UNCHANGED <<fspc, req, serverQ, serverExists, sigchld, handler, FileSize, readFailed, sent, cpc, totBytes, numMsgs, clientQ, qExists>>
    BY <1>1 DEF File!ChildOpens
  <2>2. child'[c] = "data" /\ \A d \in Clients : d # c => child'[d] = child[d]
    BY <1>0, <2>1
  <2>3. File!TypeOK'
    BY <2>1, Zenon DEF File!Inv, File!TypeOK
  <2>4. File!RequestInv'
    BY <2>1, <2>2, FileRequests, Zenon
  <2>5. File!NoForgottenZombie'
    BY <2>1, <2>2 DEF File!Inv, File!NoForgottenZombie, File!Zombies
  <2>6. \A d \in Clients : d # c => File!Answer(d)' /\ File!Stream(d)' /\ File!Count(d)'
    BY <2>1, <2>2, FileOther, Zenon DEF File!Inv
  <2>7. File!Answer(c)' /\ File!Count(c)'
    BY <1>0, <2>1, <2>2 DEF File!Answer, File!Count
  <2>8. File!Stream(c)'
    BY <1>0, <2>1, <2>2, Zenon DEF File!Stream, File!Upto, File!Message, File!Sent, File!Msg
  <2> QED
    BY <2>3, <2>4, <2>5, <2>6, <2>7, <2>8 DEF File!Inv
<1>2. CASE File!ChildEndsData(c)
  <2>1. /\ child[c] = "data" /\ child' = [child EXCEPT ![c] = "end"] /\ (File!Rest(c) = 0 \/ ~qExists[c])
        /\ UNCHANGED <<fspc, req, serverQ, serverExists, sigchld, handler, FileSize, readFailed, sent, cpc, totBytes, numMsgs, clientQ, qExists>>
    BY <1>2 DEF File!ChildEndsData
  <2>2. child'[c] = "end" /\ \A d \in Clients : d # c => child'[d] = child[d]
    BY <1>0, <2>1
  <2>3. File!TypeOK'
    BY <2>1, SMTT(30) DEF File!Inv, File!TypeOK
  <2>4. File!RequestInv'
    BY <2>1, <2>2, FileRequests, Zenon
  <2>5. File!NoForgottenZombie'
    BY <2>1, <2>2, Zenon DEF File!Inv, File!NoForgottenZombie, File!Zombies
  <2>6. \A d \in Clients : d # c => File!Answer(d)' /\ File!Stream(d)' /\ File!Count(d)'
    BY <2>1, <2>2, FileOther, Zenon DEF File!Inv
  <2>7. File!Answer(c)' /\ File!Count(c)'
    BY <1>0, <2>1, <2>2, Zenon DEF File!Answer, File!Count
  <2>8. File!Stream(c)'
    <3>1. cpc[c] \in {"first", "loop"} => File!Rest(c) = 0
      BY <1>0, <2>1 DEF File!Answer
    <3>2. File!Sent(c) \in Nat
      BY <1>0 DEF File!Inv, File!TypeOK, File!Sent
    <3>3. File!Bytes(File!Sent(c)) \in Nat
      BY <3>2, BytesGrow
    <3>4. FileSize[c] \in Int /\ (FileSize[c] # -1 => FileSize[c] \in Nat)
      BY <1>0 DEF File!Answer
    <3> QED
      BY <1>0, <2>1, <2>2, <3>1, <3>3, <3>4, SMTT(30) DEF File!Stream, File!Upto, File!Message, File!Sent, File!Msg, File!Rest
  <2> QED
    BY <2>3, <2>4, <2>5, <2>6, <2>7, <2>8 DEF File!Inv
<1>3. CASE File!ChildReadFails(c)
  <2>1. /\ child[c] = "data" /\ child' = [child EXCEPT ![c] = "end"] /\ readFailed' = readFailed \cup {c}
        /\ UNCHANGED <<fspc, req, serverQ, serverExists, sigchld, handler, FileSize, sent, cpc, totBytes, numMsgs, clientQ, qExists>>
    BY <1>3 DEF File!ChildReadFails
  <2>2. child'[c] = "end" /\ \A d \in Clients : d # c => child'[d] = child[d]
    BY <1>0, <2>1
  <2>3. File!TypeOK'
    BY <2>1, Zenon DEF File!Inv, File!TypeOK
  <2>4. File!RequestInv'
    BY <2>1, <2>2, FileRequests
  <2>5. File!NoForgottenZombie'
    BY <2>1, <2>2 DEF File!Inv, File!NoForgottenZombie, File!Zombies
  <2>6. \A d \in Clients : d # c => File!Answer(d)' /\ File!Stream(d)' /\ File!Count(d)'
    BY <2>1, <2>2, FileOther, Zenon DEF File!Inv
  <2>7. File!Answer(c)' /\ File!Count(c)'
    BY <1>0, <2>1, <2>2, Zenon DEF File!Answer, File!Count
  <2>8. File!Stream(c)'
    BY <2>1 DEF File!Stream
  <2> QED
    BY <2>3, <2>4, <2>5, <2>6, <2>7, <2>8 DEF File!Inv
<1>4. CASE File!ChildSendsData(c)
  <2>1. /\ child[c] = "data" /\ File!Rest(c) > 0 /\ File!SendTo(c, File!Msg("RESP_MT_DATA", File!Rest(c)))
        /\ sent' = [sent EXCEPT ![c] = @ + File!Rest(c)]
        /\ UNCHANGED <<fspc, req, serverQ, serverExists, sigchld, handler, FileSize, readFailed, child, cpc, totBytes, numMsgs, qExists>>
    BY <1>4, Zenon DEF File!ChildSendsData
  <2> DEFINE m == File!Msg("RESP_MT_DATA", File!Rest(c))
             n == File!Sent(c)
  <2>2. /\ FileSize[c] \in Nat /\ sent[c] \in Nat /\ File!Rest(c) \in 1 .. RESP_MSG_SIZE
        /\ sent'[c] = sent[c] + File!Rest(c) /\ \A d \in Clients : d # c => sent'[d] = sent[d]
    BY <1>0, <2>1 DEF File!Answer, File!Rest
  <2>3. m \in File!Messages
    BY <2>2 DEF File!Msg, File!Messages
  <2>4. Appended(c, m)
    BY <2>1, <2>3, FileAppend
  <2>5. File!TypeOK'
    <3>1. sent' \in [Clients -> Nat]
      BY <1>0, <2>1, <2>2
    <3> QED
      BY <2>1, <2>4, <3>1, SMTT(30) DEF File!Inv, File!TypeOK, Appended
  <2>6. File!RequestInv' /\ File!NoForgottenZombie'
    BY <2>1, FileRequests DEF File!Inv, File!NoForgottenZombie, File!Zombies
  <2>7. \A d \in Clients : d # c => File!Answer(d)' /\ File!Stream(d)' /\ File!Count(d)'
    BY <2>1, <2>2, <2>4, FileOther, Zenon DEF File!Inv, Appended
  <2>8. m.mtype = "RESP_MT_DATA" /\ m.len = File!Rest(c)
    BY DEF File!Msg
  <2> HIDE DEF m
  <2>9. File!Answer(c)' /\ File!Count(c)'
    <3>1. \A j \in DOMAIN clientQ'[c] : clientQ'[c][j].mtype # "RESP_MT_FAILURE"
      <4> TAKE j \in DOMAIN clientQ'[c]
      <4>1. CASE j = Len(clientQ[c]) + 1
        BY <2>4, <2>8, <4>1, Zenon DEF Appended
      <4>2. CASE j \in DOMAIN clientQ[c] /\ clientQ'[c][j] = clientQ[c][j]
        BY <1>0, <2>2, <4>2 DEF File!Answer
      <4> QED
        BY <2>4, <4>1, <4>2 DEF Appended
    <3> QED
      BY <1>0, <2>1, <2>2, <3>1, Zenon DEF File!Answer, File!Count
  <2>10. File!Stream(c)'
    <3> SUFFICES ASSUME c \notin readFailed, cpc[c] \in {"first", "loop"} PROVE File!Stream(c)'
      BY <2>1, Zenon DEF File!Stream
    <3>1. n \in Nat /\ numMsgs[c] \in Nat /\ n = numMsgs[c] + Len(clientQ[c]) /\ File!Sent(c)' = n + 1
      <4>1. /\ numMsgs[c] \in Nat /\ Len(clientQ[c]) \in Nat /\ numMsgs' = numMsgs
            /\ Len(clientQ'[c]) = Len(clientQ[c]) + 1
        BY <1>0, <2>1, <2>4 DEF Appended
      <4> QED
        BY <4>1, SMTT(30) DEF File!Sent
    <3>2. /\ totBytes[c] = File!Upto(c, numMsgs[c])
          /\ \A j \in DOMAIN clientQ[c] : clientQ[c][j] = File!Message(c, numMsgs[c] + j)
          /\ sent[c] = File!Upto(c, n)
          /\ n > 0 => File!Bytes(n - 1) < FileSize[c]
      <4>1. File!Stream(c) /\ FileSize[c] \in Nat /\ child[c] \notin {"zombie", "reaped"}
        BY <1>0, <2>1, <2>2, Zenon
      <4> QED
        BY <4>1, FileStreaming, Zenon
    <3>3. /\ File!Bytes(n) \in Nat /\ File!Bytes(n + 1) = File!Bytes(n) + RESP_MSG_SIZE
      BY <3>1, BytesGrow, Zenon
    <3> HIDE DEF n
    <3>4. File!Bytes(n) < FileSize[c] /\ sent[c] = File!Bytes(n)
      <4>1. FileSize[c] \in Nat /\ sent[c] \in Nat /\ File!Rest(c) \in 1 .. RESP_MSG_SIZE /\ sent[c] = File!Upto(c, n)
        BY <2>2, <3>2, Zenon
      <4>2. sent[c] < FileSize[c]
        BY <4>1, FileAssumption DEF File!Rest
      <4> QED
        BY <3>3, <4>1, <4>2 DEF File!Upto
    <3>5. (n + 1) - 1 = n
      BY <3>1
    <3>6. m = File!Message(c, n + 1)
      BY <2>2, <3>3, <3>4, <3>5 DEF m, File!Message, File!Rest
    <3>7. sent'[c] = File!Upto(c, n + 1)
      BY <2>2, <3>3, <3>4 DEF File!Upto, File!Rest
    <3>8. \A j \in DOMAIN clientQ'[c] : clientQ'[c][j] = File!Message(c, numMsgs[c] + j)
      <4> TAKE j \in DOMAIN clientQ'[c]
      <4>1. CASE j = Len(clientQ[c]) + 1
        <5>1. numMsgs[c] + j = n + 1 /\ clientQ'[c][j] = m
          BY <2>4, <3>1, <4>1, SMTT(30) DEF Appended
        <5> QED
          BY <3>6, <5>1, Zenon
      <4>2. CASE j \in DOMAIN clientQ[c] /\ clientQ'[c][j] = clientQ[c][j]
        BY <3>2, <4>2
      <4> QED
        BY <2>4, <4>1, <4>2 DEF Appended
    <3>9. /\ \A k : File!Upto(c, k)' = File!Upto(c, k) 
          /\ \A k : File!Message(c, k)' = File!Message(c, k)
      BY <2>1, Zenon DEF File!Upto, File!Message, File!Msg
    <3> QED
      BY <2>1, <3>1, <3>2, <3>4, <3>5, <3>7, <3>8, <3>9, Zenon DEF File!Stream
  <2> QED
    BY <2>5, <2>6, <2>7, <2>9, <2>10 DEF File!Inv
<1>5. CASE File!ChildOpenFails(c)
  <2>1. /\ child[c] = "open" /\ FileSize[c] = -1
        /\ IF qExists[c] THEN File!SendTo(c, File!Msg("RESP_MT_FAILURE", 1)) ELSE UNCHANGED clientQ
        /\ child' = [child EXCEPT ![c] = "zombie"]
        /\ UNCHANGED <<fspc, req, serverQ, serverExists, handler, FileSize, readFailed, sent, cpc, totBytes, numMsgs, qExists>>
    BY <1>5 DEF File!ChildOpenFails
  <2>2. sigchld' /\ sigchld' \in BOOLEAN
    BY <1>5, Zenon DEF File!ChildOpenFails, File!ChildTerminates
  <2>3. child'[c] = "zombie" /\ \A d \in Clients : d # c => child'[d] = child[d]
    BY <1>0, <2>1
  <2> DEFINE m == File!Msg("RESP_MT_FAILURE", 1)
  <2>4. m \in File!Messages /\ m.mtype = "RESP_MT_FAILURE"
    BY DEF File!Msg, File!Messages
  <2>5. (UNCHANGED clientQ) \/ Appended(c, m)
    BY <2>1, <2>4, FileAppend, Zenon
  <2> HIDE DEF m
  <2>6. File!TypeOK'
    BY <2>1, <2>2, <2>5, ZenonT(30) DEF File!Inv, File!TypeOK, Appended
  <2>7. File!RequestInv' /\ File!NoForgottenZombie'
    BY <2>1, <2>2, <2>3, FileRequests, Zenon DEF File!NoForgottenZombie
  <2>8. \A d \in Clients : d # c => File!Answer(d)' /\ File!Stream(d)' /\ File!Count(d)'
    <3>1. \A d \in Clients : d # c => clientQ'[d] = clientQ[d]
      BY <2>5 DEF Appended
    <3> QED
      BY <2>1, <2>3, <3>1, FileOther DEF File!Inv
  <2>9. \A j \in DOMAIN clientQ'[c] : clientQ'[c][j].mtype = "RESP_MT_FAILURE"
    <3>1. clientQ[c] = << >>
      BY <1>0, <2>1 DEF File!Answer
    <3> QED
      BY <2>4, <2>5, <3>1 DEF Appended
  <2>10. File!Answer(c)' /\ File!Count(c)' /\ File!Stream(c)'
    BY <1>0, <2>1, <2>3, <2>9, Zenon DEF File!Answer, File!Count, File!Stream
  <2> QED
    BY <2>6, <2>7, <2>8, <2>10 DEF File!Inv
<1>6. CASE File!ChildSendsEnd(c)
  <2>1. /\ child[c] = "end"
        /\ IF qExists[c] THEN File!SendTo(c, File!Msg("RESP_MT_END", 0)) ELSE UNCHANGED clientQ
        /\ child' = [child EXCEPT ![c] = "zombie"]
        /\ UNCHANGED <<fspc, req, serverQ, serverExists, handler, FileSize, readFailed, sent, cpc, totBytes, numMsgs, qExists>>
    BY <1>6 DEF File!ChildSendsEnd
  <2>2. sigchld' /\ sigchld' \in BOOLEAN
    BY <1>6, Zenon DEF File!ChildSendsEnd, File!ChildTerminates
  <2>3. child'[c] = "zombie" /\ \A d \in Clients : d # c => child'[d] = child[d]
    BY <1>0, <2>1
  <2> DEFINE m == File!Msg("RESP_MT_END", 0)
             n == File!Sent(c)
  <2>4. m \in File!Messages /\ m.mtype = "RESP_MT_END"
    BY DEF File!Msg, File!Messages
  <2>5. IF qExists[c] THEN Appended(c, m) ELSE UNCHANGED clientQ
    BY <2>1, <2>4, FileAppend, Zenon
  <2> HIDE DEF m
  <2>6. File!TypeOK'
    BY <2>1, <2>2, <2>5, SMTT(30) DEF File!Inv, File!TypeOK, Appended
  <2>7. File!RequestInv' /\ File!NoForgottenZombie'
    BY <2>1, <2>2, <2>3, FileRequests, Zenon DEF File!NoForgottenZombie
  <2>8. \A d \in Clients : d # c => File!Answer(d)' /\ File!Stream(d)' /\ File!Count(d)'
    <3>1. \A d \in Clients : d # c => clientQ'[d] = clientQ[d]
      BY <2>5, Zenon DEF Appended
    <3> QED
      BY <2>1, <2>3, <3>1, FileOther DEF File!Inv
  <2>9. FileSize[c] \in Nat
    BY <1>0, <2>1, Zenon DEF File!Answer
  <2>10. \A j \in DOMAIN clientQ'[c] : clientQ'[c][j].mtype # "RESP_MT_FAILURE"
    <3> TAKE j \in DOMAIN clientQ'[c]
    <3>1. CASE qExists[c] /\ j = Len(clientQ[c]) + 1
      BY <2>4, <2>5, <3>1, Zenon DEF Appended
    <3>2. CASE j \in DOMAIN clientQ[c] /\ clientQ'[c][j] = clientQ[c][j]
      BY <1>0, <2>9, <3>2 DEF File!Answer
    <3> QED
      BY <2>5, <3>1, <3>2 DEF Appended
  <2>11. File!Answer(c)' /\ File!Count(c)'
    BY <1>0, <2>1, <2>3, <2>9, <2>10, Zenon DEF File!Answer, File!Count
  <2>12. File!Stream(c)'
    <3> SUFFICES ASSUME c \notin readFailed, cpc[c] \in {"first", "loop"} PROVE File!Stream(c)'
      BY <2>1, Zenon DEF File!Stream
    <3>1. Appended(c, m)
      BY <1>0, <2>5, ZenonT(30) DEF File!Answer
    <3>2. n \in Nat /\ numMsgs[c] \in Nat /\ n = numMsgs[c] + Len(clientQ[c]) /\ File!Sent(c)' = n + 1
      <4>1. /\ numMsgs[c] \in Nat /\ Len(clientQ[c]) \in Nat /\ numMsgs' = numMsgs
            /\ Len(clientQ'[c]) = Len(clientQ[c]) + 1
        BY <1>0, <2>1, <3>1 DEF Appended
      <4> QED
        BY <4>1 DEF File!Sent
    <3>3. /\ totBytes[c] = File!Upto(c, numMsgs[c])
          /\ \A j \in DOMAIN clientQ[c] : clientQ[c][j] = File!Message(c, numMsgs[c] + j)
          /\ File!Bytes(n) >= FileSize[c]
          /\ n > 0 => File!Bytes(n - 1) < FileSize[c]
      <4>1. child[c] = "end" /\ child[c] \notin {"zombie", "reaped"} /\ File!Stream(c)
        BY <1>0, <2>1, Zenon
      <4> QED
        BY <2>9, <4>1, FileStreaming, Zenon
    <3> HIDE DEF n
    <3>4. (n + 1) - 1 = n /\ (n + 1) - 2 = n - 1 /\ n + 1 > 0 /\ (n + 1 > 1 => n > 0)
      BY <3>2, SMTT(30)
    <3>5. m = File!Message(c, n + 1)
      BY <3>3, <3>4, Zenon DEF m, File!Message
    <3>6. \A j \in DOMAIN clientQ'[c] : clientQ'[c][j] = File!Message(c, numMsgs[c] + j)
      <4> TAKE j \in DOMAIN clientQ'[c]
      <4>1. CASE j = Len(clientQ[c]) + 1
        <5>1. numMsgs[c] + j = n + 1 /\ clientQ'[c][j] = m
          BY <3>1, <3>2, <4>1 DEF Appended
        <5> QED
          BY <3>5, <5>1, Zenon
      <4>2. CASE j \in DOMAIN clientQ[c] /\ clientQ'[c][j] = clientQ[c][j]
        BY <3>3, <4>2, Zenon
      <4> QED
        BY <3>1, <4>1, <4>2 DEF Appended
    <3>7. /\ \A k : File!Upto(c, k)' = File!Upto(c, k)
          /\ \A k : File!Message(c, k)' = File!Message(c, k)
      BY <2>1, Zenon DEF File!Upto, File!Message, File!Msg
    <3> QED
      BY <2>1, <2>3, <3>2, <3>3, <3>4, <3>6, <3>7, Zenon DEF File!Stream
  <2> QED
    BY <2>6, <2>7, <2>8, <2>11, <2>12 DEF File!Inv
<1> QED
  BY <1>1, <1>2, <1>3, <1>4, <1>5, <1>6 DEF File!Child

(* A client whose queue is removed or that has not got an answer. *)
LEMMA FileQuits ==
    ASSUME File!Inv, NEW c \in Clients, NEW l \in {"send", "done", "refused", "failed", "killed"},
           cpc' = [cpc EXCEPT ![c] = l], l = "send" => cpc[c] = "msgget" /\ qExists'[c],
           l \in {"done", "refused"} => child[c] \notin {"none", "open"},
           l = "refused" => FileSize[c] = -1, l = "done" => FileSize[c] # -1,
           qExists' \in [Clients -> BOOLEAN], \A d \in Clients : d # c => qExists'[d] = qExists[d],
           \/ UNCHANGED clientQ \/ clientQ' = [clientQ EXCEPT ![c] = << >>],
           totBytes' \in [Clients -> Nat], numMsgs' \in [Clients -> Nat],
           l \notin {"done"} => UNCHANGED <<totBytes, numMsgs>>,
           \A d \in Clients : d # c => totBytes'[d] = totBytes[d] /\ numMsgs'[d] = numMsgs[d],
           l = "done" => File!Count(c)',
           UNCHANGED <<fspc, req, serverQ, serverExists, sigchld, handler, FileSize, readFailed, child, sent>>
    PROVE  File!Inv'
<1> USE FileAssumption
<1>1. /\ cpc'[c] = l /\ \A d \in Clients : d # c => cpc'[d] = cpc[d]
      /\ clientQ \in [Clients -> Seq(File!Messages)]
  BY Zenon DEF File!Inv, File!TypeOK
<1>2. /\ clientQ' \in [Clients -> Seq(File!Messages)] /\ \A d \in Clients : d # c => clientQ'[d] = clientQ[d]
      /\ clientQ'[c] = clientQ[c] \/ clientQ'[c] = << >>
  <2>1. CASE UNCHANGED clientQ
    BY <1>1, <2>1, Zenon
  <2>2. CASE clientQ' = [clientQ EXCEPT ![c] = << >>]
    <3>1. << >> \in Seq(File!Messages)
      OBVIOUS
    <3> QED
      BY <1>1, <2>2, <3>1, SMTT(30)
  <2> QED
    BY <2>1, <2>2, Zenon
<1>3. \A d \in Clients : Len(clientQ'[d]) <= QueueMax
  <2>1. \A d \in Clients : Len(clientQ[d]) <= QueueMax
    BY DEF File!Inv, File!TypeOK
  <2>2. Len(<< >>) <= QueueMax
    OBVIOUS
  <2> QED
    BY <1>2, <2>1, <2>2, Zenon
<1>4. File!TypeOK'
  BY <1>2, <1>3, ZenonT(30) DEF File!Inv, File!TypeOK
<1>5. File!RequestInv'
  BY <1>1, FileRequests, Zenon
<1>6. File!NoForgottenZombie'
  BY DEF File!Inv, File!NoForgottenZombie, File!Zombies
<1>7. \A d \in Clients : d # c => File!Answer(d)' /\ File!Stream(d)' /\ File!Count(d)'
  BY <1>1, <1>2, FileOther, Zenon DEF File!Inv
<1>8. File!Answer(c)'
  <2>1. File!Answer(c)
    BY Zenon DEF File!Inv
  <2>2. /\ FileSize[c] = -1 => \A j \in DOMAIN clientQ'[c] : clientQ'[c][j].mtype = "RESP_MT_FAILURE"
        /\ FileSize[c] # -1 => \A j \in DOMAIN clientQ'[c] : clientQ'[c][j].mtype # "RESP_MT_FAILURE"
        /\ clientQ[c] = << >> => clientQ'[c] = << >>
    BY <1>2, <2>1, SMTT(30) DEF File!Answer
  <2> QED
    BY <1>1, <2>1, <2>2, Zenon DEF File!Answer
<1>9. File!Stream(c)' /\ File!Count(c)'
  BY <1>1 DEF File!Stream, File!Count
<1> QED
  BY <1>4, <1>5, <1>6, <1>7, <1>8, <1>9, Zenon DEF File!Inv

(* A client that takes a message of its file: the next block, or the end message. *)
LEMMA FileTakes ==
    ASSUME File!Inv, NEW c \in Clients, File!ClientFirst(c) \/ File!ClientNext(c)
    PROVE  File!Inv'
<1> USE FileAssumption DEF File!serverVars, File!signalVars, File!fileVars, File!childVars, File!clientVars, File!queueVars,
    File!ClientGoto, File!removeQueue
<1> DEFINE m == clientQ[c][1]
           k == numMsgs[c] + 1
<1>0. /\ File!Answer(c) /\ File!Stream(c) /\ clientQ \in [Clients -> Seq(File!Messages)]
      /\ totBytes \in [Clients -> Nat] /\ numMsgs \in [Clients -> Nat]
      /\ cpc \in [Clients -> {"msgget", "send", "first", "loop", "done", "refused", "failed", "killed"}]
  BY SMTT(30) DEF File!Inv, File!TypeOK
<1>1. /\ cpc[c] \in {"first", "loop"} /\ Len(clientQ[c]) > 0 /\ FileSize[c] \in Nat
      /\ File!Continue(c, m.mtype)
      /\ totBytes' = [totBytes EXCEPT ![c] = @ + m.len] /\ numMsgs' = [numMsgs EXCEPT ![c] = @ + 1]
      /\ UNCHANGED <<fspc, req, serverQ, serverExists, sigchld, handler, FileSize, readFailed, child, sent>>
  <2>0. clientQ[c] # << >>
    BY Zenon DEF File!ClientFirst, File!ClientNext
  <2>1. Len(clientQ[c]) > 0 /\ Head(clientQ[c]) = m /\ m \in File!Messages /\ 1 \in DOMAIN clientQ[c]
    BY <1>0, <2>0
  <2> HIDE DEF m
  <2>2. m.len \in Nat
    BY <2>1, FileMessage, Zenon
  <2>3. CASE File!ClientFirst(c)
    <3>1. /\ cpc[c] = "first" /\ m.mtype # "RESP_MT_FAILURE" /\ File!Continue(c, m.mtype)
          /\ totBytes' = [totBytes EXCEPT ![c] = m.len] /\ numMsgs' = [numMsgs EXCEPT ![c] = 1]
          /\ UNCHANGED <<fspc, req, serverQ, serverExists, sigchld, handler, FileSize, readFailed, child, sent>>
      BY <2>1, <2>3, ZenonT(30) DEF File!ClientFirst
    <3>2. totBytes[c] = 0 /\ numMsgs[c] = 0 /\ FileSize[c] \in Nat
      BY <1>0, <2>1, <3>1 DEF File!Answer, m
    <3>3. totBytes[c] + m.len = m.len /\ numMsgs[c] + 1 = 1
      <4>1. 0 + 1 = 1 /\ \A x \in Nat : 0 + x = x
        OBVIOUS
      <4> QED
        BY <2>2, <3>2, <4>1, Zenon
    <3> QED
      BY <2>1, <3>1, <3>2, <3>3, Zenon
  <2>4. CASE File!ClientNext(c)
    BY <1>0, <2>1, <2>2, <2>4, Zenon DEF File!ClientNext, File!Answer
  <2> QED
    BY <2>3, <2>4, Zenon
<1>2. /\ m \in File!Messages /\ m.mtype \in {"RESP_MT_DATA", "RESP_MT_END"} /\ m.len \in Nat
      /\ 1 \in DOMAIN clientQ[c] /\ child[c] \notin {"none", "open"}
  <2>0. /\ clientQ[c] \in Seq(File!Messages) /\ Len(clientQ[c]) > 0 /\ FileSize[c] \in Nat
        /\ File!Answer(c)
    <3>1. clientQ \in [Clients -> Seq(File!Messages)] /\ File!Answer(c)
      BY <1>0, Zenon
    <3>2. clientQ[c] \in Seq(File!Messages)
      BY <3>1
    <3> QED
      BY <1>1, <3>1, <3>2, Zenon
  <2>1. 1 \in DOMAIN clientQ[c] /\ m \in File!Messages /\ FileSize[c] # -1
    BY <2>0
  <2>2. m.mtype # "RESP_MT_FAILURE"
    BY <2>0, <2>1, Zenon DEF File!Answer
  <2>3. child[c] \notin {"none", "open"}
    BY <2>0, <2>1, SMTT(30) DEF File!Answer
  <2> QED
    <3>1. m.mtype \in {"RESP_MT_DATA", "RESP_MT_END"} /\ m.len \in Nat
      <4> HIDE DEF m
      <4> QED
        BY <2>1, <2>2, FileMessage, Zenon
    <3> QED
      BY <2>1, <2>3, <3>1, Zenon
<1>3. /\ totBytes' \in [Clients -> Nat] /\ numMsgs' \in [Clients -> Nat]
      /\ \A d \in Clients : d # c => totBytes'[d] = totBytes[d] /\ numMsgs'[d] = numMsgs[d]
      /\ totBytes'[c] = totBytes[c] + m.len /\ numMsgs'[c] = k /\ k \in Nat /\ k > 0 /\ numMsgs[c] = k - 1
      /\ totBytes[c] \in Nat
  BY <1>0, <1>1, <1>2
<1> HIDE DEF m, k
<1>4. ASSUME c \notin readFailed
      PROVE  /\ totBytes[c] = File!Upto(c, k - 1) /\ m = File!Message(c, k)
             /\ m.mtype = "RESP_MT_DATA" => totBytes'[c] = File!Upto(c, k) /\ File!Bytes(k - 1) < FileSize[c]
             /\ m.mtype = "RESP_MT_END" => totBytes'[c] = FileSize[c] /\ File!Bytes(k - 1) >= FileSize[c]
  <2>1. totBytes[c] = File!Upto(c, k - 1) /\ m = File!Message(c, k)
    <3>1. /\ totBytes[c] = File!Upto(c, numMsgs[c])
          /\ \A j \in DOMAIN clientQ[c] : clientQ[c][j] = File!Message(c, numMsgs[c] + j)
      BY <1>0, <1>1, <1>4, FileStreaming, ZenonT(30)
    <3>2. numMsgs[c] = k - 1 /\ numMsgs[c] + 1 = k /\ 1 \in DOMAIN clientQ[c]
      BY <1>2, <1>3, SMTT(30)
    <3> QED
      BY <3>1, <3>2, Zenon DEF m
  <2>2. File!Bytes(k - 1) \in Nat /\ File!Bytes(k) = File!Bytes(k - 1) + RESP_MSG_SIZE
    BY <1>3, BytesGrow
  <2>5. FileSize[c] \in Nat
    BY <1>1, Zenon
  <2>6. totBytes'[c] = totBytes[c] + m.len /\ totBytes[c] \in Nat
    BY <1>3, Zenon
  <2>3. CASE File!Bytes(k - 1) >= FileSize[c]
    <3>1. m.mtype = "RESP_MT_END" /\ m.len = 0
      BY <2>1, <2>3, Zenon DEF File!Message, File!Msg
    <3> QED
      BY <2>5, <2>6, <2>1, <2>2, <2>3, <3>1 DEF File!Upto
  <2>4. CASE File!Bytes(k - 1) < FileSize[c]
    <3>1. /\ m.mtype = "RESP_MT_DATA"
          /\ m.len = IF FileSize[c] < File!Bytes(k) THEN FileSize[c] - File!Bytes(k - 1) ELSE RESP_MSG_SIZE
      BY <2>5, <2>1, <2>2, <2>4 DEF File!Message, File!Msg
    <3> QED
      BY <2>5, <2>6, <2>1, <2>2, <2>4, <3>1, SMTT(30) DEF File!Upto
  <2> QED
    <3>1. File!Bytes(k - 1) >= FileSize[c] \/ File!Bytes(k - 1) < FileSize[c]
      BY <2>2, <2>5
    <3> QED
      BY <2>3, <2>4, <3>1, Zenon
<1>5. CASE m.mtype = "RESP_MT_END"
  <2>1. /\ cpc' = [cpc EXCEPT ![c] = "done"] /\ clientQ' = [clientQ EXCEPT ![c] = << >>]
        /\ qExists' = [qExists EXCEPT ![c] = FALSE]
    BY <1>1, <1>5 DEF File!Continue
  <2>2. qExists' \in [Clients -> BOOLEAN] /\ \A d \in Clients : d # c => qExists'[d] = qExists[d]
    <3>1. qExists \in [Clients -> BOOLEAN]
      BY DEF File!Inv, File!TypeOK
    <3> QED
      BY <2>1, <3>1
  <2>3. cpc'[c] = "done"
    BY <1>0, <2>1
  <2>4. File!Count(c)'
    <3>1. CASE c \in readFailed
      BY <1>1, <2>3, <3>1, Zenon DEF File!Count
    <3>2. CASE c \notin readFailed
      <4> DEFINE n == File!Sent(c)
      <4>1. n \in Nat /\ n >= k
        <5>1. Len(clientQ[c]) \in Nat /\ Len(clientQ[c]) >= 1
          <6>1. clientQ \in [Clients -> Seq(File!Messages)] /\ Len(clientQ[c]) > 0
            BY <1>0, <1>1, Zenon
          <6> QED
            BY <6>1
        <5>2. numMsgs \in [Clients -> Nat]
          BY <1>0, Zenon
        <5> QED
          BY <5>1, <5>2 DEF File!Sent, k
      <4>2. /\ child[c] \notin {"zombie", "reaped"} => (n > 0 => File!Bytes(n - 1) < FileSize[c])
            /\ child[c] \in {"zombie", "reaped"} => (n > 1 => File!Bytes(n - 2) < FileSize[c])
        BY <1>0, <1>1, <3>2, FileStreaming, ZenonT(30)
      <4> HIDE DEF n
      <4>3. File!Bytes(k - 1) >= FileSize[c] /\ totBytes'[c] = FileSize[c]
        BY <1>4, <1>5, <3>2, SMTT(30)
      <4>4. k - 1 \in Nat /\ n - 1 \in Nat /\ k - 1 <= n - 1
        BY <1>3, <4>1
      <4>5. File!Bytes(k - 1) <= File!Bytes(n - 1) /\ File!Bytes(k - 1) \in Nat /\ File!Bytes(n - 1) \in Nat
        BY <4>4, BytesGrow, SMTT(30)
      <4>6. child[c] \in {"zombie", "reaped"}
        <5> SUFFICES ASSUME child[c] \notin {"zombie", "reaped"} PROVE FALSE
          OBVIOUS
        <5>1. n > 0 /\ FileSize[c] \in Nat
          <6>1. FileSize[c] \in Nat /\ k > 0 /\ k \in Nat
            BY <1>1, <1>3, Zenon
          <6> QED
            BY <4>1, <6>1
        <5>2. File!Bytes(n - 1) < FileSize[c]
          BY <4>2, <5>1, Zenon
        <5> QED
          BY <4>3, <4>5, <5>1, <5>2
      <4>7. n = k
        <5> SUFFICES ASSUME n > k PROVE FALSE
          BY <1>3, <4>1, SMTT(30)
        <5>1. n - 2 \in Nat /\ k - 1 <= n - 2 /\ n > 1
          BY <1>3, <4>1
        <5>2. File!Bytes(k - 1) <= File!Bytes(n - 2) /\ File!Bytes(n - 2) \in Nat
          BY <4>4, <5>1, BytesGrow
        <5>3. File!Bytes(n - 2) < FileSize[c] /\ FileSize[c] \in Nat
          BY <1>1, <4>2, <4>6, <5>1, Zenon
        <5> QED
          BY <4>3, <4>5, <5>2, <5>3, SMTT(30)
      <4>8. k - 1 > 0 => File!Bytes((k - 1) - 1) < FileSize[c]
        <5>1. (k - 1) - 1 = k - 2 /\ (k - 1 > 0 => k > 1)
          BY <1>3
        <5> QED
          BY <4>2, <4>6, <4>7, <5>1, SMTT(30)
      <4>9. (FileSize[c] + RESP_MSG_SIZE - 1) \div RESP_MSG_SIZE = k - 1
        BY <1>1, <4>3, <4>4, <4>8, BlocksOf, Zenon
      <4> QED
        BY <1>1, <1>3, <2>3, <4>3, <4>9 DEF File!Count
    <3> QED
      BY <3>1, <3>2, Zenon
  <2>5. FileSize[c] # -1
    <3>1. FileSize[c] \in Nat
      BY <1>1, Zenon
    <3> QED
      BY <3>1
  <2> QED
    BY <1>1, <1>2, <1>3, <2>1, <2>2, <2>4, <2>5, FileQuits, Zenon
<1>6. CASE m.mtype = "RESP_MT_DATA"
  <2>1. cpc' = [cpc EXCEPT ![c] = "loop"] /\ clientQ' = [clientQ EXCEPT ![c] = Tail(@)] /\ UNCHANGED qExists
    BY <1>1, <1>6 DEF File!Continue
  <2>2. cpc'[c] = "loop" /\ \A d \in Clients : d # c => cpc'[d] = cpc[d]
    BY <1>0, <2>1, Zenon
  <2>3. /\ Tail(clientQ[c]) \in Seq(File!Messages) /\ Len(clientQ[c]) \in Nat
        /\ Len(Tail(clientQ[c])) = Len(clientQ[c]) - 1
        /\ \A j \in DOMAIN Tail(clientQ[c]) :
              j \in Nat /\ j + 1 \in DOMAIN clientQ[c] /\ Tail(clientQ[c])[j] = clientQ[c][j + 1]
    <3>1. clientQ[c] \in Seq(File!Messages) /\ clientQ[c] # << >>
      <4>1. clientQ[c] \in Seq(File!Messages) /\ Len(clientQ[c]) > 0
        BY <1>0, <1>1, ZenonT(30)
      <4> QED
        BY <4>1
    <3> QED
      BY <3>1, QueueTail, Zenon
  <2>4. /\ clientQ' \in [Clients -> Seq(File!Messages)] /\ clientQ'[c] = Tail(clientQ[c])
        /\ \A d \in Clients : d # c => clientQ'[d] = clientQ[d]
    BY <1>0, <2>1, <2>3, SMTT(30)
  <2>5. \A d \in Clients : Len(clientQ'[d]) <= QueueMax
    <3>1. \A d \in Clients : Len(clientQ[d]) <= QueueMax
      BY DEF File!Inv, File!TypeOK
    <3> QED
      BY <2>3, <2>4, <3>1, SMTT(30)
  <2>6. File!TypeOK'
    BY <1>1, <1>3, <2>1, <2>4, <2>5, Zenon DEF File!Inv, File!TypeOK
  <2>7. File!RequestInv'
    BY <1>1, <2>2, FileRequests, Zenon
  <2>8. File!NoForgottenZombie'
    BY <1>1, Zenon DEF File!Inv, File!NoForgottenZombie, File!Zombies
  <2>9. \A d \in Clients : d # c => File!Answer(d)' /\ File!Stream(d)' /\ File!Count(d)'
    BY <1>1, <1>3, <2>1, <2>2, <2>4, FileOther, Zenon DEF File!Inv
  <2>10. File!Answer(c)' /\ File!Count(c)'
    <3>1. \A j \in DOMAIN clientQ'[c] : clientQ'[c][j].mtype # "RESP_MT_FAILURE"
      <4>1. \A j \in DOMAIN clientQ[c] : clientQ[c][j].mtype # "RESP_MT_FAILURE"
        <5>1. FileSize[c] \in Nat
          BY <1>1, Zenon
        <5>2. FileSize[c] # -1
          BY <5>1
        <5> QED
          BY <1>0, <5>2, Zenon DEF File!Answer
      <4> QED
        BY <2>3, <2>4, <4>1, Zenon
    <3>2. qExists'[c]
      BY <1>0, <1>1, <2>1, Zenon DEF File!Answer
    <3>3. /\ FileSize'[c] \in Nat \cup {-1} /\ FileSize'[c] # -1 /\ cpc'[c] = "loop"
          /\ child'[c] \notin {"none", "open"}
      <4>1. FileSize[c] \in Nat /\ FileSize' = FileSize /\ child' = child
        BY <1>1, Zenon
      <4>2. FileSize[c] # -1 /\ FileSize[c] \in Nat \cup {-1}
        BY <4>1
      <4> QED
        BY <1>2, <2>2, <4>1, <4>2, Zenon
    <3> QED
      BY <3>1, <3>2, <3>3, Zenon DEF File!Answer, File!Count
  <2>11. File!Stream(c)'
    <3> SUFFICES ASSUME c \notin readFailed PROVE File!Stream(c)'
      BY <1>1, Zenon DEF File!Stream
    <3>1. File!Sent(c)' = File!Sent(c)
      <4>1. numMsgs'[c] = k /\ numMsgs[c] = k - 1 /\ k \in Nat
        BY <1>3
      <4>2. Len(clientQ'[c]) = Len(clientQ[c]) - 1 /\ Len(clientQ[c]) \in Nat
        BY <2>3, <2>4, Zenon
      <4> QED
        BY <4>1, <4>2 DEF File!Sent
    <3>2. \A j \in DOMAIN clientQ'[c] : clientQ'[c][j] = File!Message(c, k + j)
      <4> TAKE j \in DOMAIN clientQ'[c]
      <4>1. j \in Nat /\ j + 1 \in DOMAIN clientQ[c] /\ clientQ'[c][j] = clientQ[c][j + 1]
        BY <2>3, <2>4
      <4>2. clientQ[c][j + 1] = File!Message(c, numMsgs[c] + (j + 1))
        BY <1>0, <1>1, <4>1, FileStreaming, Zenon
      <4>3. numMsgs[c] + (j + 1) = k + j
        BY <1>3, <4>1, SMTT(30)
      <4> QED
        BY <4>1, <4>2, <4>3
    <3>3. totBytes'[c] = File!Upto(c, k)
      BY <1>4, <1>6
    <3>4. /\ \A i : File!Upto(c, i)' = File!Upto(c, i)
          /\ \A i : File!Message(c, i)' = File!Message(c, i)
      BY <1>1, Zenon DEF File!Upto, File!Message, File!Msg
    <3>5. /\ child[c] \notin {"zombie", "reaped"} =>
                /\ sent[c] = File!Upto(c, File!Sent(c))
                /\ File!Sent(c) > 0 => File!Bytes(File!Sent(c) - 1) < FileSize[c]
                /\ child[c] = "end" => File!Bytes(File!Sent(c)) >= FileSize[c]
          /\ child[c] \in {"zombie", "reaped"} =>
                /\ File!Sent(c) > 0 /\ File!Bytes(File!Sent(c) - 1) >= FileSize[c]
                /\ File!Sent(c) > 1 => File!Bytes(File!Sent(c) - 2) < FileSize[c]
      BY <1>0, <1>1, FileStreaming, Zenon
    <3> QED
      BY <1>1, <1>3, <3>1, <3>2, <3>3, <3>4, <3>5, ZenonT(30) DEF File!Stream
  <2> QED
    BY <2>6, <2>7, <2>8, <2>9, <2>10, <2>11, SMTT(30) DEF File!Inv
<1> QED
  BY <1>2, <1>5, <1>6

(* A step of a client, and the end of one that is killed, preserve it. *)
LEMMA FileClient ==
    ASSUME File!Inv, NEW c \in Clients,
           File!Client(c) \/ File!ClientKilled(c) \/ File!StaleQueueRemoved(c)
    PROVE  File!Inv'
<1> USE FileAssumption DEF File!serverVars, File!signalVars, File!fileVars, File!childVars, File!clientVars, File!queueVars,
    File!ClientGoto, File!removeQueue
<1>0. /\ File!Answer(c) /\ qExists \in [Clients -> BOOLEAN] /\ clientQ \in [Clients -> Seq(File!Messages)]
      /\ totBytes \in [Clients -> Nat] /\ numMsgs \in [Clients -> Nat] /\ serverExists \in BOOLEAN
      /\ cpc \in [Clients -> {"msgget", "send", "first", "loop", "done", "refused", "failed", "killed"}]
  BY SMTT(30) DEF File!Inv, File!TypeOK
<1>1. CASE File!ClientStart(c)
  <2>1. /\ cpc[c] = "msgget" /\ qExists' = [qExists EXCEPT ![c] = serverExists]
        /\ cpc' = [cpc EXCEPT ![c] = IF serverExists THEN "send" ELSE "failed"]
        /\ UNCHANGED <<fspc, req, serverQ, serverExists, sigchld, handler, FileSize, readFailed, child, sent, totBytes, numMsgs, clientQ>>
    BY <1>1 DEF File!ClientStart
  <2>2. /\ qExists' \in [Clients -> BOOLEAN] /\ (serverExists => qExists'[c])
        /\ \A d \in Clients : d # c => qExists'[d] = qExists[d]
    BY <1>0, <2>1
  <2>3. CASE serverExists
    <3>1. cpc' = [cpc EXCEPT ![c] = "send"]
      BY <2>1, <2>3
    <3> QED
      BY <1>0, <2>1, <2>2, <2>3, <3>1, FileQuits, Zenon
  <2>4. CASE ~serverExists
    <3>1. cpc' = [cpc EXCEPT ![c] = "failed"]
      BY <2>1, <2>4
    <3> QED
      BY <1>0, <2>1, <2>2, <3>1, FileQuits, Zenon
  <2> QED
    BY <2>3, <2>4
<1>2. CASE File!ClientSend(c)
  <2>1. /\ cpc[c] = "send" /\ Len(serverQ) < QueueMax /\ serverQ' = Append(serverQ, c)
        /\ cpc' = [cpc EXCEPT ![c] = "first"]
        /\ UNCHANGED <<fspc, req, serverExists, sigchld, handler, FileSize, readFailed, child, sent, totBytes, numMsgs, clientQ, qExists>>
    BY <1>2 DEF File!ClientSend
  <2>2. cpc'[c] = "first" /\ \A d \in Clients : d # c => cpc'[d] = cpc[d]
    BY <1>0, <2>1
  <2>3. serverQ \in Seq(Clients) /\ Len(serverQ) \in Nat
    BY DEF File!Inv, File!TypeOK
  <2>4. /\ serverQ' \in Seq(Clients) /\ Len(serverQ') = Len(serverQ) + 1 /\ serverQ'[Len(serverQ) + 1] = c
        /\ \A j \in DOMAIN serverQ' : \/ j = Len(serverQ) + 1
                                      \/ j \in DOMAIN serverQ /\ serverQ'[j] = serverQ[j] /\ serverQ[j] \in Clients
    <3>1. serverQ' = Append(serverQ, c)
      BY <2>1, Zenon
    <3> QED
      BY <2>3, <3>1
  <2>5. File!TypeOK'
    <3>1. cpc' \in [Clients -> {"msgget", "send", "first", "loop", "done", "refused", "failed", "killed"}]
      <4>1. cpc \in [Clients -> {"msgget", "send", "first", "loop", "done", "refused", "failed", "killed"}]
        BY Zenon DEF File!Inv, File!TypeOK
      <4> QED
        BY <2>1, <4>1
    <3>2. Len(serverQ') <= QueueMax
      BY <2>1, <2>3, <2>4, FileAssumption
    <3> QED
      BY <2>1, <2>4, <3>1, <3>2, Zenon DEF File!Inv, File!TypeOK
  <2>6. /\ child[c] = "none" /\ \A j \in DOMAIN serverQ : serverQ[j] # c
        /\ fspc = "fork" => req # c
    BY <2>1, Zenon DEF File!Inv, File!RequestInv, File!Asked
  <2>7. File!RequestInv'
    <3>1. \A d \in Clients : child'[d] # "none" => cpc'[d] \notin {"msgget", "send"}
      BY <2>1, <2>2, <2>6, Zenon DEF File!Inv, File!RequestInv
    <3>2. ASSUME NEW j \in DOMAIN serverQ' PROVE File!Asked(serverQ[j])'
      <4>1. CASE j = Len(serverQ) + 1
        BY <2>1, <2>2, <2>4, <2>6, <4>1, Zenon DEF File!Asked
      <4>2. CASE j \in DOMAIN serverQ /\ serverQ'[j] = serverQ[j] /\ serverQ[j] \in Clients
        <5>1. File!Asked(serverQ[j]) /\ serverQ[j] # c
          BY <2>6, <4>2 DEF File!Inv, File!RequestInv
        <5> QED
          BY <2>1, <2>2, <4>2, <5>1, ZenonT(30) DEF File!Asked
      <4> QED
        BY <2>4, <4>1, <4>2, Zenon
    <3>3. \A i, j \in DOMAIN serverQ' : serverQ'[i] = serverQ'[j] => i = j
      BY <2>4, <2>6, ZenonT(30) DEF File!Inv, File!RequestInv
    <3>4. fspc' = "fork" => /\ req' \in Clients /\ File!Asked(req)'
                            /\ \A j \in DOMAIN serverQ' : serverQ'[j] # req'
      BY <2>1, <2>2, <2>4, <2>6, Zenon DEF File!Inv, File!RequestInv, File!Asked
    <3> QED
      BY <3>1, <3>2, <3>3, <3>4, Zenon DEF File!RequestInv
  <2>8. File!NoForgottenZombie'
    BY <2>1 DEF File!Inv, File!NoForgottenZombie, File!Zombies
  <2>9. \A d \in Clients : d # c => File!Answer(d)' /\ File!Stream(d)' /\ File!Count(d)'
    BY <2>1, <2>2, FileOther, Zenon DEF File!Inv
  <2>10. File!Answer(c)' /\ File!Count(c)'
    BY <1>0, <2>1, <2>2, <2>6, Zenon DEF File!Answer, File!Count
  <2>11. File!Stream(c)'
    <3>1. /\ totBytes[c] = 0 /\ numMsgs[c] = 0 /\ sent[c] = 0 /\ clientQ[c] = << >> /\ FileSize[c] \in Nat \cup {-1}
      BY <1>0, <2>1, <2>6, Zenon DEF File!Answer
    <3>2. File!Sent(c)' = 0 /\ File!Bytes(0) = 0
      <4>1. numMsgs'[c] = 0 /\ clientQ'[c] = << >> /\ File!Bytes(0) = 0
        BY <2>1, <3>1, BytesGrow, Zenon
      <4> QED
        BY <4>1 DEF File!Sent
    <3>3. FileSize[c] # -1 => File!Upto(c, 0)' = 0
      BY <2>1, <3>1, <3>2 DEF File!Upto
    <3>4. /\ totBytes'[c] = 0 /\ numMsgs'[c] = 0 /\ sent'[c] = 0 /\ DOMAIN clientQ'[c] = {}
          /\ child'[c] = "none" /\ FileSize'[c] = FileSize[c] /\ ~(0 > 0)
      <4>1. DOMAIN << >> = {} /\ ~(0 > 0)
        OBVIOUS
      <4> QED
        BY <2>1, <2>6, <3>1, <4>1, Zenon
    <3> QED
      BY <3>2, <3>3, <3>4, Zenon DEF File!Stream
  <2> QED
    BY <2>5, <2>7, <2>8, <2>9, <2>10, <2>11, SMTT(30) DEF File!Inv
<1>3. CASE File!ClientSendFails(c) \/ File!ClientFailure(c)
  <2>1. PICK l \in {"failed", "refused"} : cpc' = [cpc EXCEPT ![c] = l] /\ (l = "refused" => File!ClientFailure(c))
    BY <1>3, Zenon DEF File!ClientSendFails, File!ClientFailure
  <2>2. /\ qExists' = [qExists EXCEPT ![c] = FALSE] /\ clientQ' = [clientQ EXCEPT ![c] = << >>]
        /\ UNCHANGED <<fspc, req, serverQ, serverExists, sigchld, handler, FileSize, readFailed, child, sent, totBytes, numMsgs>>
    BY <1>3 DEF File!ClientSendFails, File!ClientFailure
  <2>3. qExists' \in [Clients -> BOOLEAN] /\ \A d \in Clients : d # c => qExists'[d] = qExists[d]
    BY <1>0, <2>2, Zenon
  <2>4. l = "refused" => FileSize[c] = -1 /\ child[c] \notin {"none", "open"}
    <3> SUFFICES ASSUME File!ClientFailure(c) PROVE FileSize[c] = -1 /\ child[c] \notin {"none", "open"}
      BY <2>1, Zenon
    <3>1. 1 \in DOMAIN clientQ[c] /\ clientQ[c][1].mtype = "RESP_MT_FAILURE" /\ clientQ[c] # << >>
      BY <1>0 DEF File!ClientFailure
    <3> QED
      BY <1>0, <3>1, Zenon DEF File!Answer
  <2> QED
    BY <1>0, <2>1, <2>2, <2>3, <2>4, FileQuits, Zenon
<1>4. CASE File!ClientKilled(c)
  <2>1. /\ cpc' = [cpc EXCEPT ![c] = "killed"]
        /\ UNCHANGED <<fspc, req, serverQ, serverExists, sigchld, handler, FileSize, readFailed, child, sent, totBytes, numMsgs, clientQ, qExists>>
    BY <1>4 DEF File!ClientKilled
  <2> QED
    BY <1>0, <2>1, FileQuits, Zenon
<1>5. CASE File!StaleQueueRemoved(c)
  <2>1. /\ qExists' = [qExists EXCEPT ![c] = FALSE] /\ clientQ' = [clientQ EXCEPT ![c] = << >>] /\ cpc[c] = "killed"
        /\ UNCHANGED <<fspc, req, serverQ, serverExists, sigchld, handler, FileSize, readFailed, child, sent, cpc, totBytes, numMsgs>>
    BY <1>5 DEF File!StaleQueueRemoved
  <2>2. qExists' \in [Clients -> BOOLEAN] /\ \A d \in Clients : d # c => qExists'[d] = qExists[d]
    BY <1>0, <2>1
  <2>3. cpc' = [cpc EXCEPT ![c] = "killed"]
    BY <1>0, <2>1
  <2> QED
    BY <1>0, <2>1, <2>2, <2>3, FileQuits, Zenon
<1> QED
  BY <1>1, <1>2, <1>3, <1>4, <1>5, FileTakes, SMTT(30) DEF File!Client

(* Every step of the server, its children and the clients preserves it. *)
LEMMA FileStep == File!Inv /\ [File!Next]_fileVars => File!Inv'
<1> SUFFICES ASSUME File!Inv, [File!Next]_fileVars PROVE File!Inv'
  OBVIOUS
<1>1. CASE UNCHANGED fileVars
  <2>1. File!TypeOK' /\ File!NoForgottenZombie' /\ File!RequestInv'
    <3>1. File!Zombies' = File!Zombies
      BY <1>1 DEF fileVars, File!Zombies
    <3> QED
      BY <1>1, <3>1 DEF fileVars, File!Inv, File!TypeOK, File!NoForgottenZombie, File!RequestInv, File!Asked
  <2>2. ASSUME NEW c \in Clients PROVE File!Answer(c)' /\ File!Stream(c)' /\ File!Count(c)'
    BY <1>1, FileOther, Zenon DEF fileVars, File!Inv
  <2> QED
    BY <2>1, <2>2, Zenon DEF File!Inv
<1> QED
  BY <1>1, FileServer, FileChild, FileClient DEF File!Next

(* A client of svmsg_file_server that finishes has all bytes of its file, and a dead child
   of the server is reaped or about to be. *)
FileServerSafe == File!TypeOK /\ File!Delivered /\ File!NoForgottenZombie /\ File!Inv

(* For any clients, files, size of a response and capacity of the queues: the client that
   ends has received the bytes of its file in the messages it counts, and no dead child of
   the server is forgotten. *)
THEOREM FileServerSafety == File!Spec => []FileServerSafe
<1>1. File!Init => File!Inv
  BY FileInit, Zenon
<1>2. File!Inv /\ [File!Next]_(File!vars) => File!Inv'
  BY FileStep DEF File!vars, File!serverVars, File!signalVars, File!fileVars, File!childVars,
                  File!clientVars, File!queueVars, fileVars
<1>3. File!Inv => FileServerSafe
  BY DEF File!Inv, File!Delivered, FileServerSafe
<1> QED
  BY <1>1, <1>2, <1>3, PTL DEF File!Spec

-----------------------------------------------------------------------------
(* The mq_notify programs *)

INSTANCE FiniteSetTheorems

VARIABLES threads, drains, nq, msgs, registered, pending, started, wpc

notifyVars == <<threads, drains, nq, msgs, registered, pending, started, wpc>>
Notify == INSTANCE MqNotify WITH q <- nq, sent <- msgs, pc <- wpc, main <- NotifyMain
ASSUME NotifyAssumption == mq_maxmsg \in Nat /\ MaxSent \in Nat /\ NotifyMain \in Workers

(* Once a mq_notify program has registered with an empty queue, or reads after it has first
   registered, a message is always on its way to be read: registering again before reading,
   not after, makes this so. mq_notify() never finds the queue registered, at most one
   notification is outstanding, and without that first read messages in the queue at the
   start are never read. *)
NotifySafe == Notify!NotifySafe /\ Notify!Inv

(* It holds before the first mq_notify(). *)
LEMMA NotifyInit == Notify!Init => Notify!Inv
<1> SUFFICES ASSUME Notify!Init PROVE Notify!Inv
  OBVIOUS
<1> USE NotifyAssumption
<1>1. registered \in BOOLEAN /\ ~registered /\ drains \in BOOLEAN
  BY Zenon DEF Notify!Init
<1>2. Notify!TypeOK
  BY <1>1 DEF Notify!Init, Notify!TypeOK
<1> QED
  BY <1>1, <1>2 DEF Notify!Init, Notify!Inv, Notify!TokenInv, Notify!NotStuck, Notify!BacklogNeverRead, Notify!Notifying, Notify!Alive

(* Every message, notification and call of a worker preserves it. *)
LEMMA NotifyStep == ASSUME Notify!Inv, [Notify!Next]_notifyVars PROVE Notify!Inv'
<1> USE NotifyAssumption DEF Notify!Inv, Notify!TypeOK, Notify!TokenInv, Notify!NotStuck, Notify!BacklogNeverRead, Notify!Notifying, Notify!Alive
<1>1. CASE Notify!Send
  <2>1. CASE nq = 0 /\ registered
    <3>1. ~registered' /\ registered' \in BOOLEAN
      BY <1>1, <2>1, ZenonT(30) DEF Notify!Send
    <3> QED
      BY <1>1, <2>1, <3>1 DEF Notify!Send
  <2>2. CASE ~(nq = 0 /\ registered)
    BY <1>1, <2>2, SMTT(30) DEF Notify!Send
  <2> QED
    BY <2>1, <2>2, ZenonT(30)
<1>2. CASE Notify!Start
  <2>1. registered' /\ registered' \in BOOLEAN /\ drains' = drains
    BY <1>2, Zenon DEF Notify!Start, Notify!FirstRead
  <2>2. CASE drains
    BY <1>2, <2>1, <2>2, Zenon DEF Notify!Start, Notify!FirstRead
  <2>3. CASE ~drains
    BY <1>2, <2>1, <2>3, SMTT(30) DEF Notify!Start, Notify!FirstRead
  <2> QED
    BY <2>2, <2>3
<1>3. ASSUME NEW w \in Workers, Notify!Notified(w) PROVE Notify!Inv'
  BY <1>3, SMTT(30) DEF Notify!Notified
<1>4. ASSUME NEW w \in Workers, Notify!Reregister(w) PROVE Notify!Inv'
  <2>1. registered' /\ registered' \in BOOLEAN
    BY <1>4, Zenon DEF Notify!Reregister
  <2> QED
    BY <1>4, <2>1 DEF Notify!Reregister
<1>5. ASSUME NEW w \in Workers, Notify!Receive(w) PROVE Notify!Inv'
  BY <1>5, SMTT(30) DEF Notify!Receive
<1>6. ASSUME NEW w \in Workers, Notify!Empty(w) PROVE Notify!Inv'
  BY <1>6 DEF Notify!Empty
<1>7. CASE UNCHANGED notifyVars
  BY <1>7, Zenon DEF notifyVars
<1> QED
  BY <1>1, <1>2, <1>3, <1>4, <1>5, <1>6, <1>7, ZenonT(30) DEF Notify!Next, Notify!Reads

(* For any capacity of the queue and any number of threads and messages: no message is left
   without a notification to come, mq_notify() never finds a registration, at most one
   notification is outstanding, and a backlog at the start is never read unless the program
   reads after it registers. *)
THEOREM NotifySafety == Notify!Spec => []NotifySafe
<1>1. Notify!Init => Notify!Inv
  BY NotifyInit
<1>2. Notify!Inv /\ [Notify!Next]_(Notify!vars) => Notify!Inv'
  BY NotifyStep DEF Notify!vars, notifyVars
<1>3. ASSUME Notify!Inv PROVE Notify!NeverBusy /\ Notify!OnePending
  <2> DEFINE S == {w \in Workers : wpc[w] = "mq_notify"}
  <2>1. S = {} \/ \E w \in Workers : S = {w}
    BY <1>3 DEF Notify!Inv, Notify!TokenInv, Notify!Notifying
  <2>2. Notify!Cardinality(S) <= 1
    <3>1. Notify!Cardinality(S) = Cardinality(S)
      BY DEF Notify!Cardinality, Cardinality
    <3>2. CASE S = {}
      <4>1. Cardinality({}) = 0
        BY FS_EmptySet
      <4> QED
        BY <3>1, <3>2, <4>1, SMTT(30)
    <3>3. ASSUME NEW w \in Workers, S = {w} PROVE Notify!Cardinality(S) <= 1
      <4>1. Cardinality({w}) = 1
        BY FS_Singleton
      <4> HIDE DEF S
      <4> QED
        BY <3>1, <3>3, <4>1, SMTT(30)
    <3> QED
      BY <2>1, <3>2, <3>3, Zenon
  <2>3. Notify!NeverBusy
    BY <1>3, <2>2, SMTT(30) DEF Notify!Inv, Notify!TokenInv, Notify!Notifying, Notify!NeverBusy
  <2>4. Notify!OnePending
    BY <1>3 DEF Notify!Inv, Notify!TokenInv, Notify!OnePending
  <2> QED
    BY <2>3, <2>4, SMTT(30)
<1>4. Notify!Inv => NotifySafe
  BY <1>3 DEF Notify!Inv, Notify!NotifySafe, NotifySafe
<1> QED
  BY <1>1, <1>2, <1>4, PTL DEF Notify!Spec

=============================================================================
