---------------------------- MODULE ServerProofs ----------------------------
(***************************************************************************)
(* The servers that hand out sequence numbers over FIFOs (FifoSeqnum) and  *)
(* over TCP (SeqnumTcp), and the programs that pass descriptors and        *)
(* credentials (ScmMessages): what is to hold of each, and the proof for   *)
(* every value of the constants.                                           *)
(***************************************************************************)
EXTENDS Integers, Sequences, FiniteSets, TLAPS

-----------------------------------------------------------------------------
(* The sequence number servers. *)

CONSTANTS TcpClients, NoClient, ReqLen, InitSeqNum, Modulus

VARIABLES tspc, cfd, reqLen, tseqNum, backlog, line, reply, closed, tcpc, tgot, ranges, handed

tcpVars == <<tspc, cfd, reqLen, tseqNum, backlog, line, reply, closed, tcpc, tgot, ranges, handed>>
Tcp == INSTANCE SeqnumTcp WITH
           spc <- tspc, cpc <- tcpc, seqNum <- tseqNum, got <- tgot,
           Clients <- TcpClients, None <- NoClient
ASSUME TcpAssumption ==
    /\ NoClient \notin TcpClients /\ NoClient \notin Int
    /\ ReqLen \in [TcpClients -> Int]
    /\ Modulus \in Nat /\ Modulus > 0 /\ Modulus % 2 = 0 /\ InitSeqNum \in 0 .. (Modulus - 1)

(* Quotient and remainder. *)
LEMMA Division ==
    ASSUME NEW a \in Int
    PROVE  \E k \in Int : \E r \in 0 .. (Modulus - 1) : r = a % Modulus /\ a = k * Modulus + r
<1>1. a \div Modulus \in Int /\ a % Modulus \in 0 .. (Modulus - 1)
  BY TcpAssumption
<1>2. PICK k \in Int, r \in 0 .. (Modulus - 1) : k = a \div Modulus /\ r = a % Modulus
  BY <1>1, Zenon
<1>3. a = k * Modulus + r
  BY <1>2, TcpAssumption
<1> QED
  BY <1>2, <1>3, Zenon

(* What is left of a multiple of the modulus and less. *)
LEMMA Remainder ==
    ASSUME NEW k \in Int, NEW r \in 0 .. (Modulus - 1)
    PROVE  (k * Modulus + r) % Modulus = r
  BY TcpAssumption

(* Numbers that differ by less than the modulus have different remainders. *)
LEMMA Different ==
    ASSUME NEW a \in Int, NEW b \in Int, a < b, b < a + Modulus
    PROVE  a % Modulus # b % Modulus
<1> SUFFICES ASSUME a % Modulus = b % Modulus PROVE FALSE
  OBVIOUS
<1>1. PICK k \in Int, r \in 0 .. (Modulus - 1) : r = a % Modulus /\ a = k * Modulus + r
  BY Division, Zenon
<1>2. PICK l \in Int, s \in 0 .. (Modulus - 1) : s = b % Modulus /\ b = l * Modulus + s
  BY Division, Zenon
<1>3. (l - k) * Modulus = b - a
  BY <1>1, <1>2, TcpAssumption
<1>4. 0 < (l - k) * Modulus /\ (l - k) * Modulus < Modulus
  BY <1>3, TcpAssumption
<1>5. ASSUME NEW x \in Int, 0 < x * Modulus, x * Modulus < Modulus PROVE FALSE
  <2>1. CASE x <= 0
    BY <1>5, <2>1, TcpAssumption
  <2>2. CASE x >= 1
    BY <1>5, <2>2, TcpAssumption
  <2> QED
    BY <2>1, <2>2
<1> QED
  BY <1>4, <1>5

(* The remainder of a sum. *)
LEMMA AddRemainder ==
    ASSUME NEW a \in Int, NEW b \in Int
    PROVE  ((a % Modulus) + b) % Modulus = (a + b) % Modulus
<1>1. PICK k \in Int, x \in 0 .. (Modulus - 1) : x = a % Modulus /\ a = k * Modulus + x
  BY Division, Zenon
<1>2. x + b \in Int
  BY <1>1, TcpAssumption
<1>3. PICK l \in Int, r \in 0 .. (Modulus - 1) : r = (x + b) % Modulus /\ x + b = l * Modulus + r
  BY <1>2, Division, Zenon
<1>4. a + b = (k + l) * Modulus + r
  <2>1. k * Modulus \in Int /\ l * Modulus \in Int /\ (k + l) * Modulus = k * Modulus + l * Modulus
    BY TcpAssumption
  <2> QED
    BY <1>1, <1>3, <2>1
<1>5. (a + b) % Modulus = r
  <2>1. k + l \in Int
    OBVIOUS
  <2> QED
    BY <1>4, <2>1, Remainder, Zenon
<1> QED
  BY <1>1, <1>3, <1>5, Zenon

(* "%d" of a uint32_t, read back as one. *)
LEMMA SignedBack ==
    ASSUME NEW x \in 0 .. (Modulus - 1)
    PROVE  /\ Tcp!ToSigned(x) \in (-(Modulus \div 2)) .. (Modulus \div 2 - 1)
           /\ Tcp!ToSigned(x) % Modulus = x
<1>1. Modulus = 2 * (Modulus \div 2) /\ Modulus \div 2 \in Nat
  BY TcpAssumption
<1>2. Tcp!ToSigned(x) \in (-(Modulus \div 2)) .. (Modulus \div 2 - 1)
  BY <1>1 DEF Tcp!ToSigned
<1>3. (0 * Modulus + x) % Modulus = x /\ ((-1) * Modulus + x) % Modulus = x
  BY Remainder
<1>4. 0 * Modulus + x = x /\ (-1) * Modulus + x = x - Modulus
  BY TcpAssumption
<1> QED
  BY <1>2, <1>3, <1>4 DEF Tcp!ToSigned

(* It holds before the server's first accept(). *)
LEMMA TcpInit == Tcp!Init => Tcp!Inv
<1> SUFFICES ASSUME Tcp!Init PROVE Tcp!Inv
  OBVIOUS
<1>1. Tcp!TypeOK
  BY TcpAssumption DEF Tcp!Init, Tcp!TypeOK
<1>2. Tcp!OnceInv /\ Tcp!GrantInv
  BY DEF Tcp!Init, Tcp!OnceInv, Tcp!GrantInv, Tcp!InBacklog
<1>3. handed = 0
  BY DEF Tcp!Init
<1>4. tseqNum = (InitSeqNum + handed) % Modulus
  <2>1. (0 * Modulus + InitSeqNum) % Modulus = InitSeqNum
    <3>1. 0 \in Int /\ InitSeqNum \in 0 .. (Modulus - 1)
      BY TcpAssumption
    <3> QED
      BY <3>1, Remainder, Zenon
  <2>2. 0 * Modulus + InitSeqNum = InitSeqNum + handed
    BY <1>3, TcpAssumption
  <2>3. tseqNum = InitSeqNum
    BY Zenon DEF Tcp!Init
  <2> QED
    BY <2>1, <2>2, <2>3, Zenon
<1>5. \E off \in [TcpClients -> 0..handed] : Tcp!Placed(off)
  <2>1. [c \in TcpClients |-> 0] \in [TcpClients -> 0..handed] /\ Tcp!Placed([c \in TcpClients |-> 0])
    BY <1>3 DEF Tcp!Init, Tcp!Placed
  <2> QED
    BY <2>1, Zenon
<1> QED
  BY <1>1, <1>2, <1>3, <1>4, <1>5 DEF Tcp!Inv, Tcp!PlaceInv

(* A step that grants nothing leaves the ranges in place. *)
LEMMA TcpPlaced == Tcp!PlaceInv /\ UNCHANGED <<tseqNum, ranges, handed>> => Tcp!PlaceInv'
<1> SUFFICES ASSUME Tcp!PlaceInv, UNCHANGED <<tseqNum, ranges, handed>> PROVE Tcp!PlaceInv'
  OBVIOUS
<1>1. \A off : Tcp!Placed(off)' <=> Tcp!Placed(off)
  BY DEF Tcp!Placed
<1> QED
  BY <1>1 DEF Tcp!PlaceInv

(* The reply: the range begins where the last one ends. *)
LEMMA TcpReply ==
    ASSUME Tcp!Inv, Tcp!Reply
    PROVE  Tcp!Inv'
<1> DEFINE n == ReqLen[cfd]
           new == <<cfd, tseqNum, n>>
<1>0. /\ Tcp!TypeOK /\ Tcp!OnceInv /\ Tcp!GrantInv /\ Tcp!PlaceInv
  BY DEF Tcp!Inv
<1>1. /\ tspc = "write" /\ ranges' = ranges \cup {new} /\ tseqNum' = (tseqNum + n) % Modulus /\ handed' = handed + n
      /\ closed' = closed \cup {cfd} /\ tspc' = "accept" /\ UNCHANGED <<cfd, reqLen, backlog, tcpc, tgot, line>>
      /\ reply' = [reply EXCEPT ![cfd] = IF tcpc[cfd] = "killed" THEN NoClient ELSE Tcp!ToSigned(tseqNum)]
      /\ cfd \in TcpClients /\ cfd \notin closed /\ ~Tcp!InBacklog(cfd) /\ cfd \in Tcp!Asking
  BY <1>0, Zenon DEF Tcp!Reply, Tcp!CloseConnection, Tcp!OnceInv, Tcp!clientVars
<1>2. /\ n \in Nat /\ n > 0 /\ tseqNum \in 0 .. (Modulus - 1) /\ tseqNum \in Nat
  <2>1. n \in Int /\ n > 0
    BY <1>1, TcpAssumption DEF Tcp!Asking
  <2>2. tseqNum \in 0 .. (Modulus - 1) /\ Modulus \in Nat
    BY <1>0, TcpAssumption, Zenon DEF Tcp!TypeOK
  <2> QED
    BY <2>1, <2>2
<1>3. \A r \in ranges : r[1] # cfd
  BY <1>0, <1>1 DEF Tcp!GrantInv
<1>4. Tcp!TypeOK'
  <2>1. ranges' \subseteq TcpClients \X Nat \X Nat
    BY <1>0, <1>1, <1>2 DEF Tcp!TypeOK
  <2>2. tseqNum' \in 0 .. (Modulus - 1)
    BY <1>1, <1>2, TcpAssumption
  <2>3. reply' \in [TcpClients -> {NoClient} \cup (-(Modulus \div 2))..(Modulus \div 2 - 1)]
    BY <1>0, <1>1, <1>2, SignedBack DEF Tcp!TypeOK
  <2>4. handed' \in Nat
    BY <1>0, <1>1, <1>2 DEF Tcp!TypeOK
  <2> QED
    BY <1>0, <1>1, <2>1, <2>2, <2>3, <2>4 DEF Tcp!TypeOK
<1>5. Tcp!OnceInv'
  BY <1>0, <1>1, Zenon DEF Tcp!OnceInv, Tcp!InBacklog
<1>6. Tcp!GrantInv'
  <2>1. \A r \in ranges' : r[1] \in closed' /\ r[1] \in Tcp!Asking /\ r[3] = ReqLen[r[1]]
    BY <1>0, <1>1 DEF Tcp!GrantInv
  <2>2. \A r, s \in ranges' : r[1] = s[1] => r = s
    BY <1>0, <1>1, <1>3 DEF Tcp!GrantInv
  <2>3. ASSUME NEW c \in TcpClients
        PROVE  /\ reply'[c] # NoClient => <<c, reply'[c] % Modulus, ReqLen[c]>> \in ranges'
               /\ tcpc'[c] = "done" => tgot'[c] = reply'[c] /\ reply'[c] # NoClient
               /\ c \in closed' /\ reply'[c] = NoClient /\ tcpc'[c] # "killed" => c \notin Tcp!Asking
               /\ tcpc'[c] = "eof" => c \notin Tcp!Asking
    <3>1. CASE c = cfd
      <4>1. reply'[c] = IF tcpc[c] = "killed" THEN NoClient ELSE Tcp!ToSigned(tseqNum)
        BY <1>0, <1>1, <3>1 DEF Tcp!TypeOK
      <4>2. Tcp!ToSigned(tseqNum) % Modulus = tseqNum /\ Tcp!ToSigned(tseqNum) # NoClient
        BY <1>2, SignedBack, TcpAssumption
      <4>3. tcpc[c] # "done" /\ tcpc[c] # "eof"
        BY <1>0, <1>1, <1>3, <3>1, Zenon DEF Tcp!GrantInv
      <4> QED
        BY <1>1, <3>1, <4>1, <4>2, <4>3
    <3>2. CASE c # cfd
      BY <1>0, <1>1, <3>2 DEF Tcp!GrantInv, Tcp!TypeOK
    <3> QED
      BY <3>1, <3>2, Zenon
  <2> QED
    BY <2>1, <2>2, <2>3 DEF Tcp!GrantInv, Tcp!Asking
<1>7. handed \in Nat /\ handed' = handed + n
  BY <1>0, <1>1 DEF Tcp!TypeOK
<1>8. tseqNum' = (InitSeqNum + handed') % Modulus
  <2>1. tseqNum = (InitSeqNum + handed) % Modulus /\ InitSeqNum + handed \in Int /\ n \in Int
    BY <1>0, <1>2, <1>7, TcpAssumption DEF Tcp!PlaceInv
  <2>2. tseqNum' = ((InitSeqNum + handed) + n) % Modulus
    BY <1>1, <2>1, AddRemainder, Zenon
  <2>3. (InitSeqNum + handed) + n = InitSeqNum + handed'
    BY <1>2, <1>7, TcpAssumption
  <2> QED
    BY <2>2, <2>3, Zenon
<1>9. PICK off \in [TcpClients -> 0..handed] : Tcp!Placed(off)
  BY <1>0, Zenon DEF Tcp!PlaceInv
<1>10. PICK new_off \in [TcpClients -> 0..(handed + n)] : new_off = [off EXCEPT ![cfd] = handed]
  <2>1. [off EXCEPT ![cfd] = handed] \in [TcpClients -> 0..(handed + n)]
    BY <1>1, <1>2, <1>7
  <2> QED
    BY <2>1, Zenon
<1>11. Tcp!Placed(new_off)'
  <2>1. \A r \in ranges : r[1] \in TcpClients /\ r[3] \in Nat /\ new_off[r[1]] = off[r[1]] /\ off[r[1]] \in Nat
    BY <1>0, <1>3, <1>7, <1>10 DEF Tcp!TypeOK
  <2>2. new_off[cfd] = handed
    BY <1>1, <1>10, Zenon
  <2>3. tseqNum = (InitSeqNum + handed) % Modulus
    BY <1>0 DEF Tcp!PlaceInv
  <2>4. \A r \in ranges : /\ r[2] = (InitSeqNum + new_off[r[1]]) % Modulus
                          /\ new_off[r[1]] + r[3] <= handed /\ new_off[r[1]] + r[3] <= handed + n
    BY <1>2, <1>7, <1>9, <2>1 DEF Tcp!Placed
  <2>5. /\ new[1] = cfd /\ new[2] = (InitSeqNum + new_off[cfd]) % Modulus
        /\ new[3] = n /\ new_off[cfd] + new[3] <= handed + n
    BY <1>2, <1>7, <2>2, <2>3
  <2> HIDE DEF new
  <2>6. \A r \in ranges' : r[2] = (InitSeqNum + new_off[r[1]]) % Modulus /\ new_off[r[1]] + r[3] <= handed'
    BY <1>1, <1>7, <2>4, <2>5
  <2>7. \A r, s \in ranges' : r # s =>
            new_off[r[1]] + r[3] <= new_off[s[1]] \/ new_off[s[1]] + s[3] <= new_off[r[1]]
    <3>1. \A r, s \in ranges : r # s =>
            new_off[r[1]] + r[3] <= new_off[s[1]] \/ new_off[s[1]] + s[3] <= new_off[r[1]]
      BY <1>9, <2>1 DEF Tcp!Placed
    <3>2. \A r \in ranges : new_off[r[1]] + r[3] <= new_off[new[1]]
      BY <2>2, <2>4, <2>5
    <3> QED
      BY <1>1, <3>1, <3>2
  <2> QED
    BY <2>6, <2>7 DEF Tcp!Placed
<1>12. Tcp!PlaceInv'
  <2>2. \E o \in [TcpClients -> 0..handed'] : Tcp!Placed(o)'
    BY <1>7, <1>11, Zenon
  <2> QED
    BY <1>8, <2>2 DEF Tcp!PlaceInv
<1> QED
  BY <1>4, <1>5, <1>6, <1>12 DEF Tcp!Inv

(* Every step of the server and of a client, a kill included, preserves it. *)
LEMMA TcpStep == Tcp!Inv /\ [Tcp!Next]_(Tcp!vars) => Tcp!Inv'
<1> SUFFICES ASSUME Tcp!Inv, [Tcp!Next]_(Tcp!vars) PROVE Tcp!Inv'
  OBVIOUS
<1> USE DEF Tcp!serverVars, Tcp!clientVars
<1>0. Tcp!TypeOK /\ Tcp!OnceInv /\ Tcp!GrantInv /\ Tcp!PlaceInv
  BY DEF Tcp!Inv
<1>1. CASE Tcp!Accept
  <2>1. /\ tspc = "accept" /\ backlog # << >> /\ cfd' = Head(backlog) /\ backlog' = Tail(backlog) /\ tspc' = "read"
        /\ UNCHANGED <<reqLen, tseqNum, ranges, handed, reply, closed, tcpc, tgot, line>>
    BY <1>1 DEF Tcp!Accept
  <2>2. /\ backlog \in Seq(TcpClients) /\ Head(backlog) \in TcpClients /\ Tail(backlog) \in Seq(TcpClients)
        /\ 1 \in DOMAIN backlog /\ Head(backlog) = backlog[1]
        /\ \A i \in DOMAIN Tail(backlog) : i + 1 \in DOMAIN backlog /\ Tail(backlog)[i] = backlog[i + 1] /\ i \in Nat /\ i + 1 # 1
    BY <1>0, <2>1 DEF Tcp!TypeOK
  <2>3. \A c : Tcp!InBacklog(c)' => Tcp!InBacklog(c) /\ c # Head(backlog)
    BY <1>0, <2>1, <2>2 DEF Tcp!InBacklog, Tcp!OnceInv
  <2>4. Tcp!InBacklog(Head(backlog))
    BY <2>2 DEF Tcp!InBacklog
  <2>5. Tcp!TypeOK'
    BY <1>0, <2>1, <2>2 DEF Tcp!TypeOK
  <2>6. \A i, k \in DOMAIN backlog' : backlog'[i] = backlog'[k] => i = k
    BY <1>0, <2>1, <2>2 DEF Tcp!OnceInv
  <2>7. Tcp!OnceInv'
    BY <1>0, <2>1, <2>2, <2>3, <2>4, <2>6, Zenon DEF Tcp!OnceInv
  <2>8. Tcp!GrantInv'
    BY <1>0, <2>1 DEF Tcp!GrantInv
  <2> QED
    BY <1>0, <2>1, <2>5, <2>7, <2>8, TcpPlaced DEF Tcp!Inv
<1>2. CASE Tcp!AcceptFails
  <2>1. /\ tspc = "accept" /\ backlog # << >> /\ backlog' = Tail(backlog)
        /\ UNCHANGED <<tspc, cfd, reqLen, tseqNum, ranges, handed, reply, closed, tcpc, tgot, line>>
    BY <1>2 DEF Tcp!AcceptFails
  <2>2. /\ Tail(backlog) \in Seq(TcpClients)
        /\ \A i \in DOMAIN Tail(backlog) : i + 1 \in DOMAIN backlog /\ Tail(backlog)[i] = backlog[i + 1] /\ i \in Nat
    BY <1>0, <2>1 DEF Tcp!TypeOK
  <2>3. \A c : Tcp!InBacklog(c)' => Tcp!InBacklog(c)
    BY <2>1, <2>2 DEF Tcp!InBacklog
  <2>4. \A i, k \in DOMAIN backlog' : backlog'[i] = backlog'[k] => i = k
    BY <1>0, <2>1, <2>2 DEF Tcp!OnceInv
  <2>5. Tcp!TypeOK'
    BY <1>0, <2>1, <2>2 DEF Tcp!TypeOK
  <2>6. Tcp!OnceInv'
    BY <1>0, <2>1, <2>3, <2>4, Zenon DEF Tcp!OnceInv
  <2>7. Tcp!GrantInv'
    BY <1>0, <2>1 DEF Tcp!GrantInv
  <2> QED
    BY <1>0, <2>1, <2>5, <2>6, <2>7, TcpPlaced DEF Tcp!Inv
<1>3. CASE Tcp!ReadRequest
  <2>1. /\ tspc = "read" /\ cfd \in TcpClients \ closed
        /\ UNCHANGED <<cfd, tseqNum, ranges, handed, backlog, reply, tcpc, tgot, line>>
    BY <1>0, <1>3 DEF Tcp!ReadRequest, Tcp!OnceInv
  <2>2. CASE reqLen' = ReqLen[cfd] /\ tspc' = "write" /\ UNCHANGED closed /\ ReqLen[cfd] > 0
    <3>1. cfd \in Tcp!Asking /\ ReqLen[cfd] \in Int
      BY <2>1, <2>2, TcpAssumption DEF Tcp!Asking
    <3>2. Tcp!TypeOK'
      BY <1>0, <2>1, <2>2, <3>1 DEF Tcp!TypeOK
    <3>3. Tcp!OnceInv'
      BY <1>0, <2>1, <2>2, <3>1, Zenon DEF Tcp!OnceInv, Tcp!InBacklog
    <3>4. Tcp!GrantInv'
      BY <1>0, <2>1, <2>2 DEF Tcp!GrantInv
    <3> QED
      BY <1>0, <2>1, <3>2, <3>3, <3>4, TcpPlaced DEF Tcp!Inv
  <2>3. CASE reqLen' \in {reqLen, ReqLen[cfd]} /\ Tcp!CloseConnection /\ (tcpc[cfd] = "killed" \/ ReqLen[cfd] <= 0)
    <3>1. ReqLen[cfd] \in Int /\ (ReqLen[cfd] <= 0 => cfd \notin Tcp!Asking)
      BY <2>1, TcpAssumption DEF Tcp!Asking
    <3>2. Tcp!TypeOK'
      BY <1>0, <2>1, <2>3, <3>1 DEF Tcp!TypeOK, Tcp!CloseConnection
    <3>3. Tcp!OnceInv'
      BY <1>0, <2>1, <2>3, Zenon DEF Tcp!OnceInv, Tcp!InBacklog, Tcp!CloseConnection
    <3>4. Tcp!GrantInv'
      BY <1>0, <2>1, <2>3, <3>1 DEF Tcp!GrantInv, Tcp!CloseConnection
    <3> QED
      BY <1>0, <2>1, <3>2, <3>3, <3>4, TcpPlaced DEF Tcp!Inv
  <2>4. ReqLen[cfd] > 0 \/ ReqLen[cfd] <= 0
    BY <2>1, TcpAssumption
  <2> QED
    BY <1>3, <2>2, <2>3, <2>4 DEF Tcp!ReadRequest
<1>4. CASE Tcp!Reply
  BY <1>4, TcpReply
<1>5. ASSUME NEW c \in TcpClients, Tcp!Connect(c) PROVE Tcp!Inv'
  <2>1. /\ tcpc[c] = "connect" /\ tcpc' = [tcpc EXCEPT ![c] = "number"] /\ backlog' = Append(backlog, c)
        /\ UNCHANGED <<tspc, cfd, reqLen, tseqNum, ranges, handed, reply, closed, tgot, line>>
    BY <1>5 DEF Tcp!Connect
  <2>2. /\ Append(backlog, c) \in Seq(TcpClients)
        /\ \A i \in DOMAIN Append(backlog, c) :
              \/ i \in DOMAIN backlog /\ Append(backlog, c)[i] = backlog[i]
              \/ i = Len(backlog) + 1 /\ Append(backlog, c)[i] = c
    BY <1>0 DEF Tcp!TypeOK
  <2>3. \A d : Tcp!InBacklog(d)' => Tcp!InBacklog(d) \/ d = c
    BY <2>1, <2>2 DEF Tcp!InBacklog
  <2>4. ~Tcp!InBacklog(c) /\ c \notin closed /\ (tspc # "accept" => c # cfd)
    BY <1>0, <2>1 DEF Tcp!OnceInv
  <2>5. \A i, k \in DOMAIN backlog' : backlog'[i] = backlog'[k] => i = k
    BY <1>0, <2>1, <2>2, <2>4 DEF Tcp!OnceInv, Tcp!InBacklog
  <2>6. Tcp!TypeOK'
    BY <1>0, <2>1, <2>2 DEF Tcp!TypeOK
  <2>7. Tcp!OnceInv'
    BY <1>0, <2>1, <2>3, <2>4, <2>5 DEF Tcp!OnceInv, Tcp!TypeOK
  <2>8. Tcp!GrantInv'
    BY <1>0, <2>1, Zenon DEF Tcp!GrantInv, Tcp!TypeOK
  <2> QED
    BY <1>0, <2>1, <2>6, <2>7, <2>8, TcpPlaced DEF Tcp!Inv
<1>6. ASSUME NEW c \in TcpClients, Tcp!WriteRequest(c) \/ Tcp!Killed(c) PROVE Tcp!Inv'
  <2>1. /\ \E l \in {"newline", "read", "killed"} : tcpc' = [tcpc EXCEPT ![c] = l]
        /\ tcpc[c] \in {"number", "newline", "read"}
        /\ \E l \in {"part", "full"} : line' \in {line, [line EXCEPT ![c] = l]}
        /\ UNCHANGED <<tspc, cfd, reqLen, tseqNum, ranges, handed, backlog, reply, closed, tgot>>
    BY <1>6 DEF Tcp!WriteRequest, Tcp!Killed
  <2>2. Tcp!TypeOK'
    BY <1>0, <2>1 DEF Tcp!TypeOK
  <2>3. Tcp!OnceInv'
    BY <1>0, <2>1 DEF Tcp!OnceInv, Tcp!InBacklog, Tcp!TypeOK
  <2>4. Tcp!GrantInv'
    BY <1>0, <2>1 DEF Tcp!GrantInv, Tcp!TypeOK
  <2> QED
    BY <1>0, <2>1, <2>2, <2>3, <2>4, TcpPlaced DEF Tcp!Inv
<1>7. ASSUME NEW c \in TcpClients, Tcp!ReadReply(c) PROVE Tcp!Inv'
  <2>1. /\ tcpc[c] = "read" /\ (reply[c] # NoClient \/ c \in closed) /\ tgot' = [tgot EXCEPT ![c] = reply[c]]
        /\ tcpc' = [tcpc EXCEPT ![c] = IF reply[c] # NoClient THEN "done" ELSE "eof"]
        /\ UNCHANGED <<tspc, cfd, reqLen, tseqNum, ranges, handed, backlog, reply, closed, line>>
    BY <1>7 DEF Tcp!ReadReply
  <2>2. Tcp!TypeOK'
    <3>1. reply[c] \in {NoClient} \cup Int
      BY <1>0, TcpAssumption DEF Tcp!TypeOK
    <3> QED
      BY <1>0, <2>1, <3>1 DEF Tcp!TypeOK
  <2>3. Tcp!OnceInv'
    BY <1>0, <2>1 DEF Tcp!OnceInv, Tcp!InBacklog, Tcp!TypeOK
  <2>4. Tcp!GrantInv'
    BY <1>0, <2>1, Zenon DEF Tcp!GrantInv, Tcp!TypeOK
  <2> QED
    BY <1>0, <2>1, <2>2, <2>3, <2>4, TcpPlaced DEF Tcp!Inv
<1>8. CASE UNCHANGED Tcp!vars
  <2>1. UNCHANGED <<tspc, cfd, reqLen, tseqNum, ranges, handed, backlog, reply, closed, tcpc, tgot, line>>
    BY <1>8 DEF Tcp!vars
  <2>2. Tcp!TypeOK' /\ Tcp!OnceInv' /\ Tcp!GrantInv'
    BY <1>0, <2>1, Zenon DEF Tcp!TypeOK, Tcp!OnceInv, Tcp!GrantInv, Tcp!InBacklog
  <2> QED
    BY <1>0, <2>1, <2>2, TcpPlaced DEF Tcp!Inv
<1> QED
  BY <1>1, <1>2, <1>3, <1>4, <1>5, <1>6, <1>7, <1>8 DEF Tcp!Next, Tcp!Server, Tcp!Client

(* The places of the ranges make their numbers different. *)
LEMMA TcpSafe == Tcp!Inv => Tcp!RangesDisjoint /\ Tcp!PrintedIsGranted /\ Tcp!BadRequestsOnly
<1> SUFFICES ASSUME Tcp!Inv PROVE Tcp!RangesDisjoint /\ Tcp!PrintedIsGranted /\ Tcp!BadRequestsOnly
  OBVIOUS
<1>0. Tcp!TypeOK /\ Tcp!OnceInv /\ Tcp!GrantInv /\ Tcp!PlaceInv
  BY DEF Tcp!Inv
<1>1. Tcp!PrintedIsGranted
  BY <1>0, Zenon DEF Tcp!GrantInv, Tcp!PrintedIsGranted
<1>2. ASSUME handed <= Modulus, NEW r \in ranges, NEW s \in ranges, r # s, NEW x \in Tcp!Numbers(r), x \in Tcp!Numbers(s)
      PROVE  FALSE
  <2>1. PICK off \in [TcpClients -> 0..handed] : Tcp!Placed(off)
    BY <1>0, Zenon DEF Tcp!PlaceInv
  <2>2. handed \in Nat /\ handed <= Modulus
    BY <1>0, <1>2 DEF Tcp!TypeOK
  <2>3. PICK k \in 0 .. (r[3] - 1) : x = (r[2] + k) % Modulus
    BY <1>2, Zenon DEF Tcp!Numbers
  <2>4. PICK l \in 0 .. (s[3] - 1) : x = (s[2] + l) % Modulus
    BY <1>2, Zenon DEF Tcp!Numbers
  <2> DEFINE a == off[r[1]]
             b == off[s[1]]
  <2>5. a \in Nat /\ b \in Nat /\ r[3] \in Nat /\ s[3] \in Nat
    <3>1. ranges \subseteq TcpClients \X Nat \X Nat
      BY <1>0, Zenon DEF Tcp!TypeOK
    <3>2. r[1] \in TcpClients /\ r[3] \in Nat /\ s[1] \in TcpClients /\ s[3] \in Nat
      BY <1>2, <3>1
    <3>3. off[r[1]] \in 0..handed /\ off[s[1]] \in 0..handed
      BY <2>1, <3>2, Zenon
    <3> QED
      BY <2>2, <3>2, <3>3
  <2>6. /\ r[2] = (InitSeqNum + a) % Modulus /\ s[2] = (InitSeqNum + b) % Modulus
        /\ a + r[3] <= handed /\ b + s[3] <= handed /\ (a + r[3] <= b \/ b + s[3] <= a)
    BY <1>2, <2>1, Zenon DEF Tcp!Placed
  <2> HIDE DEF a, b
  <2>7. InitSeqNum + a \in Int /\ InitSeqNum + b \in Int /\ InitSeqNum \in Nat /\ Modulus \in Nat /\ k \in Int /\ l \in Int
    BY <2>5, TcpAssumption
  <2>8. x = ((InitSeqNum + a) + k) % Modulus /\ x = ((InitSeqNum + b) + l) % Modulus
    BY <2>3, <2>4, <2>6, <2>7, AddRemainder, ZenonT(30)
  <2>9. PICK u \in Int, v \in Int : u = (InitSeqNum + a) + k /\ v = (InitSeqNum + b) + l
    BY <2>7
  <2>10. (u < v /\ v < u + Modulus) \/ (v < u /\ u < v + Modulus)
    BY <2>2, <2>3, <2>4, <2>5, <2>6, <2>7, <2>9
  <2>11. u % Modulus = v % Modulus
    BY <2>8, <2>9, Zenon
  <2> QED
    BY <2>10, <2>11, Different, Zenon
<1>3. Tcp!BadRequestsOnly
  <2>1. \A c \in TcpClients : tcpc[c] = "eof" => c \notin Tcp!Asking
    BY <1>0, Zenon DEF Tcp!GrantInv
  <2>2. \A c \in TcpClients : c \notin Tcp!Asking => ReqLen[c] <= 0
    BY TcpAssumption DEF Tcp!Asking
  <2> QED
    BY <2>1, <2>2, Zenon DEF Tcp!BadRequestsOnly
<1> QED
  BY <1>1, <1>2, <1>3 DEF Tcp!RangesDisjoint

CONSTANTS FifoClients, SeqLen, INT_MAX

VARIABLES spc, serverOpen, requests, req, seqNum, wrapped, cpc, fifo, reader, answer, got

fifoVars == <<spc, serverOpen, requests, req, seqNum, wrapped, cpc, fifo, reader, answer, got>>
Fifo == INSTANCE FifoSeqnum WITH Clients <- FifoClients
ASSUME FifoAssumption == INT_MAX \in Nat /\ SeqLen \in [FifoClients -> 1 .. INT_MAX]

(* fifo_seqnum_server hands out no number twice until its int overflows, whichever clients
   die, and never reads end of file. is_seqnum_sv hands out no number twice until 2^32 have been handed out, also
   when the counter wraps and clients disappear; what a client prints is a number granted to
   it; only a bad request is left without a reply. *)
NumbersSafe ==
    /\ Fifo!TypeOK /\ Fifo!RangesDisjoint /\ Fifo!NeverEOF /\ Fifo!Inv
    /\ Tcp!TypeOK /\ Tcp!RangesDisjoint /\ Tcp!PrintedIsGranted /\ Tcp!BadRequestsOnly /\ Tcp!Inv

(* The server before its first open() and clients that have done nothing satisfy it. *)
LEMMA FifoInit == Fifo!Init => Fifo!Inv
<1> SUFFICES ASSUME Fifo!Init PROVE Fifo!Inv
  OBVIOUS
<1>1. wrapped \in BOOLEAN
  BY Zenon DEF Fifo!Init
<1>2. Fifo!TypeOK
  BY <1>1, FifoAssumption DEF Fifo!Init, Fifo!TypeOK
<1>3. Fifo!DummyInv /\ Fifo!FifoInv
  BY DEF Fifo!Init, Fifo!DummyInv, Fifo!FifoInv, Fifo!Serving
<1>4. Fifo!OnceInv
  BY DEF Fifo!Init, Fifo!OnceInv, Fifo!Queued, Fifo!Serving
<1>5. Fifo!AnswerInv
  BY FifoAssumption DEF Fifo!Init, Fifo!AnswerInv, Fifo!None
<1> QED
  BY <1>2, <1>3, <1>4, <1>5, Zenon DEF Fifo!Inv

(* Every step of the server and of a client, a kill included, preserves it. *)
LEMMA FifoStep == Fifo!Inv /\ [Fifo!Next]_(Fifo!vars) => Fifo!Inv'
<1> SUFFICES ASSUME Fifo!Inv, [Fifo!Next]_(Fifo!vars) PROVE Fifo!Inv'
  OBVIOUS
<1> USE DEF Fifo!ServerGoto, Fifo!Goto, Fifo!serverVars, Fifo!numberVars, Fifo!clientVars
<1>0. Fifo!TypeOK /\ Fifo!DummyInv /\ Fifo!FifoInv /\ Fifo!OnceInv /\ Fifo!AnswerInv
  BY DEF Fifo!Inv
<1>1. CASE Fifo!ServerOpenRead
  <2>1. Fifo!TypeOK' /\ Fifo!DummyInv'
    BY <1>0, <1>1 DEF Fifo!ServerOpenRead, Fifo!TypeOK, Fifo!DummyInv, Fifo!Serving, Fifo!FifoInv
  <2>2. Fifo!FifoInv'
    BY <1>0, <1>1 DEF Fifo!ServerOpenRead, Fifo!TypeOK, Fifo!FifoInv
  <2>3. Fifo!OnceInv'
    BY <1>0, <1>1 DEF Fifo!ServerOpenRead, Fifo!TypeOK, Fifo!OnceInv, Fifo!Queued, Fifo!Serving
  <2>4. Fifo!AnswerInv'
    BY <1>0, <1>1 DEF Fifo!ServerOpenRead, Fifo!TypeOK, Fifo!AnswerInv, Fifo!NextFree, Fifo!Before
  <2> QED
    BY <2>1, <2>2, <2>3, <2>4 DEF Fifo!Inv
<1>2. CASE Fifo!ServerOpenDummy
  <2>1. Fifo!TypeOK' /\ Fifo!DummyInv'
    BY <1>0, <1>2 DEF Fifo!ServerOpenDummy, Fifo!TypeOK, Fifo!DummyInv, Fifo!Serving, Fifo!FifoInv
  <2>2. Fifo!FifoInv'
    BY <1>0, <1>2 DEF Fifo!ServerOpenDummy, Fifo!TypeOK, Fifo!FifoInv
  <2>3. Fifo!OnceInv'
    BY <1>0, <1>2 DEF Fifo!ServerOpenDummy, Fifo!TypeOK, Fifo!OnceInv, Fifo!Queued, Fifo!Serving
  <2>4. Fifo!AnswerInv'
    BY <1>0, <1>2 DEF Fifo!ServerOpenDummy, Fifo!TypeOK, Fifo!AnswerInv, Fifo!NextFree, Fifo!Before
  <2> QED
    BY <2>1, <2>2, <2>3, <2>4 DEF Fifo!Inv
<1>3. CASE Fifo!ServerRead
  <2>1. Fifo!TypeOK' /\ Fifo!DummyInv'
    BY <1>0, <1>3 DEF Fifo!ServerRead, Fifo!TypeOK, Fifo!DummyInv, Fifo!Serving, Fifo!FifoInv
  <2>2. Fifo!FifoInv'
    BY <1>0, <1>3 DEF Fifo!ServerRead, Fifo!TypeOK, Fifo!FifoInv
  <2>3. Fifo!OnceInv'
    BY <1>0, <1>3 DEF Fifo!ServerRead, Fifo!TypeOK, Fifo!OnceInv, Fifo!Queued, Fifo!Serving
  <2>4. Fifo!AnswerInv'
    BY <1>0, <1>3 DEF Fifo!ServerRead, Fifo!TypeOK, Fifo!AnswerInv, Fifo!NextFree, Fifo!Before
  <2> QED
    BY <2>1, <2>2, <2>3, <2>4 DEF Fifo!Inv
<1>4. CASE Fifo!ServerOpenFails
  <2>1. Fifo!TypeOK' /\ Fifo!DummyInv'
    BY <1>0, <1>4 DEF Fifo!ServerOpenFails, Fifo!TypeOK, Fifo!DummyInv, Fifo!Serving, Fifo!FifoInv
  <2>2. Fifo!FifoInv'
    BY <1>0, <1>4 DEF Fifo!ServerOpenFails, Fifo!TypeOK, Fifo!FifoInv
  <2>3. Fifo!OnceInv'
    BY <1>0, <1>4 DEF Fifo!ServerOpenFails, Fifo!TypeOK, Fifo!OnceInv, Fifo!Queued, Fifo!Serving
  <2>4. Fifo!AnswerInv'
    BY <1>0, <1>4 DEF Fifo!ServerOpenFails, Fifo!TypeOK, Fifo!AnswerInv, Fifo!NextFree, Fifo!Before
  <2> QED
    BY <2>1, <2>2, <2>3, <2>4 DEF Fifo!Inv
<1>5. CASE Fifo!ServerOpenBegins
  <2>1. Fifo!TypeOK' /\ Fifo!DummyInv'
    BY <1>0, <1>5 DEF Fifo!ServerOpenBegins, Fifo!TypeOK, Fifo!DummyInv, Fifo!Serving, Fifo!FifoInv
  <2>2. Fifo!FifoInv'
    BY <1>0, <1>5 DEF Fifo!ServerOpenBegins, Fifo!TypeOK, Fifo!FifoInv
  <2>3. Fifo!OnceInv'
    BY <1>0, <1>5 DEF Fifo!ServerOpenBegins, Fifo!TypeOK, Fifo!OnceInv, Fifo!Queued, Fifo!Serving
  <2>4. Fifo!AnswerInv'
    BY <1>0, <1>5, Zenon DEF Fifo!ServerOpenBegins, Fifo!TypeOK, Fifo!AnswerInv, Fifo!NextFree, Fifo!Before
  <2> QED
    BY <2>1, <2>2, <2>3, <2>4 DEF Fifo!Inv
<1>6. CASE Fifo!ServerOpenClient
  <2>1. Fifo!TypeOK' /\ Fifo!DummyInv'
    BY <1>0, <1>6 DEF Fifo!ServerOpenClient, Fifo!TypeOK, Fifo!DummyInv, Fifo!Serving, Fifo!FifoInv, Fifo!OnceInv
  <2>2. Fifo!FifoInv'
    BY <1>0, <1>6 DEF Fifo!ServerOpenClient, Fifo!TypeOK, Fifo!FifoInv
  <2>3. Fifo!OnceInv'
    BY <1>0, <1>6 DEF Fifo!ServerOpenClient, Fifo!TypeOK, Fifo!OnceInv, Fifo!Queued, Fifo!Serving
  <2>4. Fifo!AnswerInv'
    BY <1>0, <1>6 DEF Fifo!ServerOpenClient, Fifo!TypeOK, Fifo!AnswerInv, Fifo!NextFree, Fifo!Before
  <2> QED
    BY <2>1, <2>2, <2>3, <2>4 DEF Fifo!Inv
<1>7. CASE Fifo!ServerWrite
  <2>1. Fifo!TypeOK' /\ Fifo!DummyInv'
    BY <1>0, <1>7 DEF Fifo!ServerWrite, Fifo!TypeOK, Fifo!DummyInv, Fifo!Serving, Fifo!FifoInv
  <2>2. Fifo!FifoInv'
    BY <1>0, <1>7 DEF Fifo!ServerWrite, Fifo!TypeOK, Fifo!FifoInv
  <2>3. Fifo!OnceInv'
    BY <1>0, <1>7 DEF Fifo!ServerWrite, Fifo!TypeOK, Fifo!OnceInv, Fifo!Queued, Fifo!Serving
  <2>4. Fifo!AnswerInv'
    <3>1. /\ req \in FifoClients /\ answer[req] = Fifo!None /\ seqNum \in Int /\ got' = got /\ wrapped' = wrapped
          /\ answer' = [answer EXCEPT ![req] = seqNum] /\ Fifo!NextFree = seqNum /\ Fifo!NextFree' = seqNum + SeqLen[req]
      BY <1>0, <1>7, FifoAssumption DEF Fifo!ServerWrite, Fifo!TypeOK, Fifo!OnceInv, Fifo!Serving, Fifo!NextFree
    <3>2. answer \in [FifoClients -> Int] /\ \A c \in FifoClients : SeqLen[c] \in Nat
      BY <1>0, FifoAssumption DEF Fifo!AnswerInv
    <3>3. \A c \in FifoClients : ~wrapped /\ answer[c] # Fifo!None => answer[c] + SeqLen[c] <= seqNum
      BY <1>0, <3>1, Zenon DEF Fifo!AnswerInv
    <3>4. \A c, d \in FifoClients :
             ~wrapped /\ c # d /\ answer'[c] # Fifo!None /\ answer'[d] # Fifo!None =>
                answer'[c] + SeqLen[c] <= answer'[d] \/ answer'[d] + SeqLen[d] <= answer'[c]
      BY <1>0, <3>1, <3>2, <3>3 DEF Fifo!AnswerInv, Fifo!Before
    <3>5. \A c \in FifoClients : ~wrapped /\ answer'[c] # Fifo!None => answer'[c] + SeqLen[c] <= seqNum + SeqLen[req]
      BY <3>1, <3>2, <3>3
    <3> QED
      BY <1>0, <3>1, <3>2, <3>4, <3>5 DEF Fifo!AnswerInv, Fifo!Before
  <2> QED
    BY <2>1, <2>2, <2>3, <2>4 DEF Fifo!Inv
<1>8. CASE Fifo!ServerWriteFails
  <2>1. Fifo!TypeOK' /\ Fifo!DummyInv'
    BY <1>0, <1>8 DEF Fifo!ServerWriteFails, Fifo!TypeOK, Fifo!DummyInv, Fifo!Serving, Fifo!FifoInv
  <2>2. Fifo!FifoInv'
    BY <1>0, <1>8 DEF Fifo!ServerWriteFails, Fifo!TypeOK, Fifo!FifoInv
  <2>3. Fifo!OnceInv'
    BY <1>0, <1>8 DEF Fifo!ServerWriteFails, Fifo!TypeOK, Fifo!OnceInv, Fifo!Queued, Fifo!Serving
  <2>4. Fifo!AnswerInv'
    BY <1>0, <1>8, FifoAssumption, SMTT(30) DEF Fifo!ServerWriteFails, Fifo!TypeOK, Fifo!AnswerInv, Fifo!NextFree, Fifo!Before, Fifo!OnceInv, Fifo!Serving
  <2> QED
    BY <2>1, <2>2, <2>3, <2>4 DEF Fifo!Inv
<1>9. CASE Fifo!ServerUpdate
  <2>0. spc = "update" /\ spc' = "read" /\ UNCHANGED <<serverOpen, requests, req, cpc, fifo, reader, got, answer>>
    BY <1>9 DEF Fifo!ServerUpdate
  <2>1. /\ req \in FifoClients /\ SeqLen[req] \in 1 .. INT_MAX /\ INT_MAX \in Nat
        /\ seqNum \in (-INT_MAX - 1) .. INT_MAX
    BY <1>0, <2>0, FifoAssumption DEF Fifo!TypeOK, Fifo!OnceInv, Fifo!Serving
  <2>2. seqNum' \in (-INT_MAX - 1) .. INT_MAX
    BY <1>9, <2>1 DEF Fifo!ServerUpdate, Fifo!Sum
  <2>3. wrapped' = (wrapped \/ Fifo!Sum > INT_MAX)
    BY <1>9, Zenon DEF Fifo!ServerUpdate
  <2>4. wrapped' \in BOOLEAN /\ (~wrapped' => ~wrapped /\ ~(Fifo!Sum > INT_MAX))
    BY <2>3, Zenon
  <2>5. ~wrapped' => seqNum' = seqNum + SeqLen[req]
    <3>1. ~(Fifo!Sum > INT_MAX) => seqNum' = seqNum + SeqLen[req]
      BY <1>9, <2>1 DEF Fifo!ServerUpdate, Fifo!Sum
    <3> QED
      BY <2>4, <3>1, Zenon
  <2>6. Fifo!TypeOK' /\ Fifo!DummyInv'
    BY <1>0, <2>0, <2>2, <2>4, SMTT(30) DEF Fifo!TypeOK, Fifo!DummyInv, Fifo!Serving
  <2>7. Fifo!FifoInv' /\ Fifo!OnceInv'
    BY <1>0, <2>0, SMTT(30) DEF Fifo!TypeOK, Fifo!FifoInv, Fifo!OnceInv, Fifo!Queued, Fifo!Serving
  <2>8. Fifo!AnswerInv'
    <3>1. Fifo!NextFree = seqNum + SeqLen[req] /\ Fifo!NextFree' = seqNum'
      BY <2>0 DEF Fifo!NextFree
    <3> QED
      BY <1>0, <2>0, <2>4, <2>5, <3>1 DEF Fifo!AnswerInv, Fifo!Before
  <2> QED
    BY <2>6, <2>7, <2>8, Zenon DEF Fifo!Inv
<1>10. ASSUME NEW c \in FifoClients, Fifo!ClientMkfifo(c) PROVE Fifo!Inv'
  <2>1. Fifo!TypeOK' /\ Fifo!DummyInv'
    BY <1>0, <1>10 DEF Fifo!ClientMkfifo, Fifo!TypeOK, Fifo!DummyInv, Fifo!Serving, Fifo!FifoInv
  <2>2. Fifo!FifoInv'
    BY <1>0, <1>10, Zenon DEF Fifo!ClientMkfifo, Fifo!TypeOK, Fifo!FifoInv
  <2>3. Fifo!OnceInv'
    BY <1>0, <1>10 DEF Fifo!ClientMkfifo, Fifo!TypeOK, Fifo!OnceInv, Fifo!Queued, Fifo!Serving
  <2>4. Fifo!AnswerInv'
    BY <1>0, <1>10 DEF Fifo!ClientMkfifo, Fifo!TypeOK, Fifo!AnswerInv, Fifo!NextFree, Fifo!Before
  <2> QED
    BY <2>1, <2>2, <2>3, <2>4 DEF Fifo!Inv
<1>11. ASSUME NEW c \in FifoClients, Fifo!ClientOpenServer(c) PROVE Fifo!Inv'
  <2>1. Fifo!TypeOK' /\ Fifo!DummyInv'
    BY <1>0, <1>11 DEF Fifo!ClientOpenServer, Fifo!TypeOK, Fifo!DummyInv, Fifo!Serving, Fifo!FifoInv
  <2>2. Fifo!FifoInv'
    BY <1>0, <1>11 DEF Fifo!ClientOpenServer, Fifo!TypeOK, Fifo!FifoInv
  <2>3. Fifo!OnceInv'
    BY <1>0, <1>11 DEF Fifo!ClientOpenServer, Fifo!TypeOK, Fifo!OnceInv, Fifo!Queued, Fifo!Serving
  <2>4. Fifo!AnswerInv'
    BY <1>0, <1>11 DEF Fifo!ClientOpenServer, Fifo!TypeOK, Fifo!AnswerInv, Fifo!NextFree, Fifo!Before
  <2> QED
    BY <2>1, <2>2, <2>3, <2>4 DEF Fifo!Inv
<1>12. ASSUME NEW c \in FifoClients, Fifo!ClientRequest(c) PROVE Fifo!Inv'
  <2>1. Fifo!TypeOK' /\ Fifo!DummyInv'
    BY <1>0, <1>12 DEF Fifo!ClientRequest, Fifo!TypeOK, Fifo!DummyInv, Fifo!Serving, Fifo!FifoInv
  <2>2. Fifo!FifoInv'
    BY <1>0, <1>12 DEF Fifo!ClientRequest, Fifo!TypeOK, Fifo!FifoInv
  <2>3. Fifo!OnceInv'
    BY <1>0, <1>12 DEF Fifo!ClientRequest, Fifo!TypeOK, Fifo!OnceInv, Fifo!Queued, Fifo!Serving
  <2>4. Fifo!AnswerInv'
    BY <1>0, <1>12, SMTT(30) DEF Fifo!ClientRequest, Fifo!TypeOK, Fifo!AnswerInv, Fifo!NextFree, Fifo!Before
  <2> QED
    BY <2>1, <2>2, <2>3, <2>4 DEF Fifo!Inv
<1>13. ASSUME NEW c \in FifoClients, Fifo!ClientRead(c) PROVE Fifo!Inv'
  <2>1. Fifo!TypeOK' /\ Fifo!DummyInv'
    BY <1>0, <1>13 DEF Fifo!ClientRead, Fifo!removeFifo, Fifo!TypeOK, Fifo!DummyInv, Fifo!Serving, Fifo!FifoInv
  <2>2. Fifo!FifoInv'
    BY <1>0, <1>13 DEF Fifo!ClientRead, Fifo!removeFifo, Fifo!TypeOK, Fifo!FifoInv
  <2>3. Fifo!OnceInv'
    BY <1>0, <1>13, SMTT(30) DEF Fifo!ClientRead, Fifo!removeFifo, Fifo!TypeOK, Fifo!OnceInv, Fifo!Queued, Fifo!Serving
  <2>4. Fifo!AnswerInv'
    BY <1>0, <1>13 DEF Fifo!ClientRead, Fifo!removeFifo, Fifo!TypeOK, Fifo!AnswerInv, Fifo!NextFree, Fifo!Before
  <2> QED
    BY <2>1, <2>2, <2>3, <2>4 DEF Fifo!Inv
<1>14. ASSUME NEW c \in FifoClients, Fifo!ClientKilled(c) PROVE Fifo!Inv'
  <2>1. Fifo!TypeOK' /\ Fifo!DummyInv'
    BY <1>0, <1>14 DEF Fifo!ClientKilled, Fifo!TypeOK, Fifo!DummyInv, Fifo!Serving, Fifo!FifoInv
  <2>2. Fifo!FifoInv'
    BY <1>0, <1>14 DEF Fifo!ClientKilled, Fifo!TypeOK, Fifo!FifoInv
  <2>3. Fifo!OnceInv'
    BY <1>0, <1>14 DEF Fifo!ClientKilled, Fifo!TypeOK, Fifo!OnceInv, Fifo!Queued, Fifo!Serving
  <2>4. Fifo!AnswerInv'
    BY <1>0, <1>14 DEF Fifo!ClientKilled, Fifo!TypeOK, Fifo!AnswerInv, Fifo!NextFree, Fifo!Before
  <2> QED
    BY <2>1, <2>2, <2>3, <2>4 DEF Fifo!Inv
<1>15. ASSUME NEW c \in FifoClients, Fifo!RemoveStaleFifo(c) PROVE Fifo!Inv'
  <2>1. Fifo!TypeOK' /\ Fifo!DummyInv'
    BY <1>0, <1>15 DEF Fifo!RemoveStaleFifo, Fifo!TypeOK, Fifo!DummyInv, Fifo!Serving, Fifo!FifoInv
  <2>2. Fifo!FifoInv'
    BY <1>0, <1>15, SMTT(30) DEF Fifo!RemoveStaleFifo, Fifo!TypeOK, Fifo!FifoInv
  <2>3. Fifo!OnceInv'
    BY <1>0, <1>15, SMTT(30) DEF Fifo!RemoveStaleFifo, Fifo!TypeOK, Fifo!OnceInv, Fifo!Queued, Fifo!Serving
  <2>4. Fifo!AnswerInv'
    BY <1>0, <1>15 DEF Fifo!RemoveStaleFifo, Fifo!TypeOK, Fifo!AnswerInv, Fifo!NextFree, Fifo!Before
  <2> QED
    BY <2>1, <2>2, <2>3, <2>4 DEF Fifo!Inv
<1>16. CASE UNCHANGED Fifo!vars
  BY <1>16, ZenonT(30) DEF Fifo!vars, Fifo!Inv, Fifo!TypeOK, Fifo!DummyInv, Fifo!FifoInv, Fifo!OnceInv, Fifo!AnswerInv, Fifo!Queued,
        Fifo!NextFree, Fifo!Before
<1> QED
  BY <1>1, <1>2, <1>3, <1>4, <1>5, <1>6, <1>7, <1>8, <1>9, <1>10, <1>11, <1>12, <1>13, <1>14,
     <1>15, <1>16, Zenon DEF Fifo!Next, Fifo!Server, Fifo!Client

(* For any clients, and any lengths they ask for: whoever is killed and whenever, the servers
   fifo_seqnum_server.c and is_seqnum_sv.c hand out no number twice, the former until its int
   overflows (whatever INT_MAX is), the latter until 2^32 (here: any even Modulus) have been
   handed out; the former never waits in read() on a FIFO without a writer; a client of the latter prints what it was granted, and only a bad request gets none. *)
THEOREM NumbersSafety == Fifo!Spec /\ Tcp!Spec => []NumbersSafe
<1>1. Fifo!Inv /\ [Fifo!Next]_(Fifo!vars) => Fifo!Inv'
  BY FifoStep
<1>2. Tcp!Inv /\ [Tcp!Next]_(Tcp!vars) => Tcp!Inv'
  BY TcpStep
<1>3. Fifo!Inv => Fifo!TypeOK /\ Fifo!RangesDisjoint /\ Fifo!NeverEOF
  BY FifoAssumption DEF Fifo!Inv, Fifo!OnceInv, Fifo!AnswerInv, Fifo!DummyInv, Fifo!RangesDisjoint,
     Fifo!NeverEOF, Fifo!Before
<1>4. Fifo!Inv /\ Tcp!Inv => NumbersSafe
  BY <1>3, TcpSafe, Zenon DEF NumbersSafe, Tcp!Inv
<1> QED
  BY FifoInit, TcpInit, <1>1, <1>2, <1>4, PTL DEF Fifo!Spec, Tcp!Spec

-----------------------------------------------------------------------------
(* The programs that pass a descriptor or credentials. *)

CONSTANTS Content, ScmBufSize

VARIABLES scm, opts, path, conn, passcred, queue, refs, offset, recvpc, sendpc, sout, ids

scmVars == <<scm, opts, path, conn, passcred, queue, refs, offset, recvpc, sendpc, sout, ids>>
Scm == INSTANCE ScmMessages WITH
           app <- scm, rpc <- recvpc, spc <- sendpc, out <- sout, BUF_SIZE <- ScmBufSize
ASSUME ScmAssumption == Content \in Seq(STRING) /\ ScmBufSize \in Nat \ {0}

(* scm_rights_recv prints the whole file, also when the sender has gone, and scm_cred_recv
   shows nobody else's credentials. *)
AncillaryTrue == Scm!TypeOK /\ Scm!FilePassed /\ Scm!CredentialsTrue /\ Scm!Inv

(* A part of the file is added to the parts before it. *)
LEMMA FileParts ==
    ASSUME NEW o \in 0..Len(Content), NEW n \in Nat, o + n <= Len(Content)
    PROVE  SubSeq(Content, 1, o) \o SubSeq(Content, o + 1, o + n) = SubSeq(Content, 1, o + n)
  BY ScmAssumption

LEMMA WholeFile == SubSeq(Content, 1, Len(Content)) = Content /\ SubSeq(Content, 1, 0) = << >> /\ Len(Content) \in Nat
  BY ScmAssumption

(* It holds when both programs are started. *)
LEMMA ScmInit == Scm!Init => Scm!Inv
<1> SUFFICES ASSUME Scm!Init PROVE Scm!Inv
  OBVIOUS
<1>1. Scm!TypeOK
  <2>1. opts \in [rdgram : BOOLEAN, sdgram : BOOLEAN, priv : BOOLEAN, ucred : {"none", "own", "other"}]
    BY DEF Scm!Init
  <2> QED
    BY <2>1, WholeFile DEF Scm!Init, Scm!TypeOK
<1>2. Scm!FilePassed
  BY WholeFile DEF Scm!Init, Scm!FilePassed
<1>3. Scm!SentInv /\ Scm!CredentialsTrue
  BY DEF Scm!Init, Scm!SentInv, Scm!CredentialsTrue
<1> QED
  BY <1>1, <1>2, <1>3 DEF Scm!Init, Scm!Inv

(* The end of the receiver: what it has printed and shown remains. *)
LEMMA ScmReceiverEnds ==
    ASSUME Scm!Inv, NEW l \in {"done", "failed", "killed"}, Scm!ReceiverEnds(l), Scm!CredentialsTrue',
           scm = "scm_rights" /\ l = "done" => offset = Len(Content),
           ids' = << >> \/ ids' \in {"fd", "own", "other", "unset"} \X {"own", "unset"}
    PROVE  Scm!Inv'
<1>0. Scm!TypeOK /\ Scm!SentInv /\ Scm!FilePassed
  BY Zenon DEF Scm!Inv
<1>1. /\ recvpc' = l /\ refs' = refs \ {"receiver", "message"} /\ queue' = << >>
      /\ path' = (IF path = "live" THEN "stale" ELSE path) /\ UNCHANGED <<scm, opts, conn, offset, sendpc, sout>>
  BY DEF Scm!ReceiverEnds
<1>2. Scm!TypeOK'
  BY <1>0, <1>1 DEF Scm!TypeOK, Scm!Ended
<1>3. Scm!SentInv'
  BY <1>0, <1>1 DEF Scm!SentInv, Scm!Ended
<1>4. Scm!FilePassed'
  BY <1>0, <1>1, WholeFile DEF Scm!FilePassed
<1> QED
  BY <1>1, <1>2, <1>3, <1>4 DEF Scm!Inv

(* The end of the sender. *)
LEMMA ScmSenderEnds ==
    ASSUME Scm!Inv, NEW l \in {"done", "failed", "killed"}, Scm!SenderEnds(l), sendpc \notin Scm!Ended,
           l = "done" => sendpc = "exit"
    PROVE  Scm!Inv'
<1>0. Scm!TypeOK /\ Scm!SentInv /\ Scm!FilePassed /\ Scm!CredentialsTrue
  BY Zenon DEF Scm!Inv
<1>1. sendpc' = l /\ refs' = refs \ {"sender"} /\ UNCHANGED <<scm, opts, path, conn, queue, offset, recvpc, sout, ids>>
  BY DEF Scm!SenderEnds
<1>2. Scm!TypeOK'
  BY <1>0, <1>1 DEF Scm!TypeOK, Scm!Ended
<1>3. Scm!SentInv'
  BY <1>0, <1>1 DEF Scm!SentInv, Scm!Claimed
<1>4. Scm!FilePassed' /\ Scm!CredentialsTrue'
  BY <1>0, <1>1 DEF Scm!FilePassed, Scm!CredentialsTrue, Scm!Ended
<1> QED
  BY <1>1, <1>2, <1>3, <1>4 DEF Scm!Inv

(* The steps of the receivers. *)
LEMMA ScmReceiver ==
    ASSUME Scm!Inv, Scm!Receiver
    PROVE  Scm!Inv'
<1>0. Scm!TypeOK /\ Scm!SentInv /\ Scm!FilePassed /\ Scm!CredentialsTrue
  BY Zenon DEF Scm!Inv
<1>1. CASE Scm!Setup
  <2>1. /\ path' \in {"none", "stale", "live"} /\ conn' \in {"none", "queued", "accepted"}
        /\ recvpc \in {"remove", "bind", "accept", "setsockopt"} /\ recvpc' \in {"bind", "accept", "setsockopt", "recvmsg"}
        /\ UNCHANGED <<scm, opts, queue, refs, offset, sendpc, sout, ids>>
    BY <1>0, <1>1, SMTT(30) DEF Scm!Setup, Scm!Bound, Scm!TypeOK
  <2>2. Scm!TypeOK'
    BY <1>0, <2>1, SMTT(30) DEF Scm!TypeOK
  <2>3. Scm!SentInv'
    BY <1>0, <2>1, SMTT(30) DEF Scm!SentInv, Scm!Claimed, Scm!Ended
  <2>4. Scm!FilePassed' /\ Scm!CredentialsTrue'
    BY <1>0, <2>1 DEF Scm!FilePassed, Scm!CredentialsTrue
  <2> QED
    BY <2>1, <2>2, <2>3, <2>4, SMTT(30) DEF Scm!Inv
<1>2. CASE scm = "scm_rights" /\ Scm!TakeDescriptor
  <2>1. /\ recvpc = "recvmsg" /\ queue # << >> /\ queue' = Tail(queue) /\ refs' = (refs \ {"message"}) \cup {"receiver"}
        /\ recvpc' = "read" /\ scm = "scm_rights" /\ UNCHANGED <<scm, opts, path, conn, offset, sendpc, sout, ids>>
    BY <1>2 DEF Scm!TakeDescriptor
  <2>2. queue' \in Seq({"fd", "own", "other", "unset"}) /\ Len(queue') <= 1
    BY <1>0, <2>1, SMTT(30) DEF Scm!TypeOK
  <2>3. Scm!TypeOK'
    BY <1>0, <2>1, <2>2, SMTT(30) DEF Scm!TypeOK
  <2>4. Scm!SentInv'
    BY <1>0, <2>1, SMTT(30) DEF Scm!SentInv
  <2>5. Scm!FilePassed' /\ Scm!CredentialsTrue'
    BY <1>0, <2>1 DEF Scm!FilePassed, Scm!CredentialsTrue
  <2> QED
    BY <2>1, <2>3, <2>4, <2>5, SMTT(30) DEF Scm!Inv
<1>3. CASE scm = "scm_rights" /\ recvpc = "read" /\ offset < Len(Content) /\ Scm!ShowPart
  <2>1. PICK n : /\ n = (IF Len(Content) - offset < ScmBufSize THEN Len(Content) - offset ELSE ScmBufSize)
                 /\ sout' = sout \o SubSeq(Content, offset + 1, offset + n) /\ offset' = offset + n
                 /\ UNCHANGED <<scm, opts, path, conn, queue, refs, recvpc, sendpc, ids>>
    BY <1>3, Zenon DEF Scm!ShowPart
  <2>2. n \in Nat /\ offset + n <= Len(Content) /\ offset \in 0..Len(Content) /\ offset + n \in 0..Len(Content)
    <3>1. PICK L \in Nat : L = Len(Content)
      BY WholeFile, Zenon
    <3>2. offset \in 0..L /\ offset < L /\ n = IF L - offset < ScmBufSize THEN L - offset ELSE ScmBufSize
      BY <1>0, <1>3, <2>1, <3>1, Zenon DEF Scm!TypeOK
    <3>3. ScmBufSize \in Nat \ {0}
      BY ScmAssumption, Zenon
    <3>4. n \in Nat /\ offset + n <= L /\ offset + n \in 0..L
      BY <3>2, <3>3
    <3> QED
      BY <3>1, <3>2, <3>4, Zenon
  <2>3. sout' = SubSeq(Content, 1, offset')
    BY <1>0, <2>1, <2>2, FileParts, Zenon DEF Scm!FilePassed
  <2>4. Scm!FilePassed'
    BY <1>3, <2>1, <2>3, Zenon DEF Scm!FilePassed
  <2>5. offset' \in 0..Len(Content)
    BY <2>1, <2>2, Zenon
  <2>6. Scm!TypeOK'
    <3>1. UNCHANGED <<scm, opts, path, conn, queue, refs, recvpc, sendpc, ids>>
      BY <2>1, Zenon
    <3> QED
      BY <1>0, <2>5, <3>1 DEF Scm!TypeOK
  <2>7. Scm!SentInv' /\ Scm!CredentialsTrue'
    BY <1>0, <2>1, Zenon DEF Scm!SentInv, Scm!Claimed, Scm!CredentialsTrue
  <2> QED
    BY <1>3, <2>1, <2>4, <2>6, <2>7, Zenon DEF Scm!Inv
<1>4. CASE /\ scm = "scm_rights" /\ UNCHANGED ids
           /\ \/ Scm!EndOfFile /\ Scm!ReceiverEnds("failed")
              \/ recvpc = "read" /\ offset = Len(Content) /\ Scm!ReceiverEnds("done")
  <2>1. Scm!CredentialsTrue'
    BY <1>0, <1>4 DEF Scm!CredentialsTrue, Scm!ReceiverEnds
  <2>2. ids' = << >> \/ ids' \in {"fd", "own", "other", "unset"} \X {"own", "unset"}
    BY <1>4, Zenon DEF Scm!Inv
  <2> QED
    BY <1>4, <2>1, <2>2, ScmReceiverEnds, SMTT(30)
<1>5. CASE /\ scm = "scm_cred" /\ recvpc = "recvmsg" /\ Scm!ReceiverEnds("done")
           /\ \/ queue # << >> /\ ids' = <<queue[1], IF opts.rdgram THEN "unset" ELSE "own">>
              \/ Scm!EndOfFile /\ ids' = <<"unset", "own">>
  <2>0. UNCHANGED <<scm, opts, sendpc>>
    BY <1>5 DEF Scm!ReceiverEnds
  <2>1. CASE queue # << >> /\ ids' = <<queue[1], IF opts.rdgram THEN "unset" ELSE "own">>
    <3>1. queue[1] \in {"fd", "own", "other", "unset"} /\ 1 \in DOMAIN queue
      BY <1>0, <2>1 DEF Scm!TypeOK
    <3>2. Scm!Claimed(queue[1])
      BY <1>0, <1>5, <3>1 DEF Scm!SentInv
    <3>3. PICK a, b : /\ a = queue[1] /\ b = (IF opts.rdgram THEN "unset" ELSE "own") /\ ids' = <<a, b>>
                      /\ b \in {"own", "unset"} /\ (~opts.rdgram => b = "own")
      BY <2>1
    <3>4. Scm!CredentialsTrue'
      BY <2>0, <3>2, <3>3 DEF Scm!CredentialsTrue, Scm!Claimed
    <3>5. ids' \in {"fd", "own", "other", "unset"} \X {"own", "unset"}
      BY <3>1, <3>3, SMTT(30)
    <3> QED
      BY <1>5, <3>4, <3>5, ScmReceiverEnds, SMTT(30)
  <2>2. CASE Scm!EndOfFile /\ ids' = <<"unset", "own">>
    <3>1. opts.ucred = "none" \/ sendpc \in {"killed", "failed"}
      BY <1>0, <1>5, <2>2 DEF Scm!SentInv, Scm!EndOfFile, Scm!Ended
    <3>2. Scm!CredentialsTrue'
      BY <2>0, <2>2, <3>1 DEF Scm!CredentialsTrue
    <3>3. ids' \in {"fd", "own", "other", "unset"} \X {"own", "unset"}
      BY <2>2
    <3> QED
      BY <1>5, <3>2, <3>3, ScmReceiverEnds
  <2> QED
    BY <1>5, <2>1, <2>2, SMTT(30)
<1> QED
  BY <1>1, <1>2, <1>3, <1>4, <1>5, Zenon DEF Scm!Receiver, Scm!scm_rights_recv, Scm!scm_cred_recv, Scm!EndOfFile

(* The steps of the senders. *)
LEMMA ScmSender ==
    ASSUME Scm!Inv, Scm!Sender
    PROVE  Scm!Inv'
<1>0. Scm!TypeOK /\ Scm!SentInv /\ Scm!FilePassed /\ Scm!CredentialsTrue
  BY Zenon DEF Scm!Inv
<1>1. CASE /\ sendpc \in {"open", "connect"} /\ sendpc' \in {"connect", "sendmsg"} /\ conn' \in {conn, "queued"}
           /\ refs' \in {refs, {"sender"}}
           /\ UNCHANGED <<scm, opts, path, queue, offset, recvpc, sout, ids>>
  <2>1. Scm!TypeOK'
    BY <1>0, <1>1 DEF Scm!TypeOK
  <2>2. Scm!SentInv'
    BY <1>0, <1>1, SMTT(30) DEF Scm!SentInv, Scm!Claimed
  <2>3. Scm!FilePassed' /\ Scm!CredentialsTrue'
    BY <1>0, <1>1 DEF Scm!FilePassed, Scm!CredentialsTrue
  <2> QED
    BY <1>1, <2>1, <2>2, <2>3, SMTT(30) DEF Scm!Inv
<1>2. CASE \E l \in {"done", "failed", "killed"} :
              Scm!SenderEnds(l) /\ sendpc \in {"connect", "sendmsg", "exit"} /\ (l = "done" => sendpc = "exit")
  BY <1>2, ScmSenderEnds, SMTT(30) DEF Scm!Ended
<1>3. CASE /\ sendpc = "sendmsg" /\ recvpc \notin Scm!Ended /\ sendpc' = "exit" /\ refs' \in {refs, refs \cup {"message"}}
           /\ \E q : /\ queue' = Append(queue, q) /\ q \in {"fd", "own", "other", "unset"}
                     /\ scm = "scm_cred" => Scm!Claimed(q)
           /\ UNCHANGED <<scm, opts, path, conn, offset, recvpc, sout, ids>>
  <2>1. PICK q : /\ queue' = Append(queue, q) /\ q \in {"fd", "own", "other", "unset"}
                 /\ scm = "scm_cred" => Scm!Claimed(q)
    BY <1>3
  <2>2. queue = << >>
    BY <1>0, <1>3 DEF Scm!SentInv
  <2>3. queue' = <<q>>
    BY <2>1, <2>2
  <2>4. queue' \in Seq({"fd", "own", "other", "unset"}) /\ Len(queue') <= 1 /\ queue' # << >> /\ \A k \in DOMAIN queue' : queue'[k] = q
    BY <2>1, <2>3, SMTT(30)
  <2>5. Scm!TypeOK'
    BY <1>0, <1>3, <2>4, SMTT(30) DEF Scm!TypeOK
  <2>6. Scm!SentInv'
    BY <1>0, <1>3, <2>1, <2>4, SMTT(30) DEF Scm!SentInv, Scm!Claimed
  <2>7. Scm!FilePassed' /\ Scm!CredentialsTrue'
    BY <1>0, <1>3 DEF Scm!FilePassed, Scm!CredentialsTrue
  <2> QED
    BY <1>3, <2>5, <2>6, <2>7, SMTT(30) DEF Scm!Inv
<1>4. CASE Scm!scm_rights_send
  <2>1. CASE sendpc = "sendmsg" /\ recvpc \notin Scm!Ended /\ queue' = Append(queue, "fd") /\ refs' = refs \cup {"message"} /\ sendpc' = "exit"
             /\ UNCHANGED <<scm, opts, path, conn, passcred, offset, recvpc, sout, ids>>
    BY <1>3, <1>4, <2>1 DEF Scm!scm_rights_send
  <2> QED
    BY <1>1, <1>2, <1>4, <2>1, ZenonT(30) DEF Scm!scm_rights_send, Scm!Connect, Scm!Unreceived
<1>5. CASE Scm!scm_cred_send
  <2>1. CASE /\ sendpc = "sendmsg" /\ recvpc \notin Scm!Ended /\ (opts.ucred = "other" => opts.priv)
             /\ queue' = Append(queue, Scm!Credentials) /\ sendpc' = "exit"
             /\ UNCHANGED <<scm, opts, path, conn, passcred, refs, offset, recvpc, sout, ids>>
    <3>1. Scm!Credentials \in {"fd", "own", "other", "unset"} /\ Scm!Claimed(Scm!Credentials)
      <4>1. opts.ucred \in {"none", "own", "other"}
        BY <1>0 DEF Scm!TypeOK
      <4> QED
        BY <2>1, <4>1 DEF Scm!Credentials, Scm!Claimed
    <3> QED
      BY <1>3, <2>1, <3>1, Zenon
  <2> QED
    BY <1>1, <1>2, <1>5, <2>1, Zenon DEF Scm!scm_cred_send, Scm!Connect, Scm!Unreceived
<1> QED
  BY <1>4, <1>5, SMTT(30) DEF Scm!Sender

(* Every step preserves it, a kill included. *)
LEMMA ScmStep == Scm!Inv /\ [Scm!Next]_(Scm!vars) => Scm!Inv'
<1> SUFFICES ASSUME Scm!Inv, [Scm!Next]_(Scm!vars) PROVE Scm!Inv'
  OBVIOUS
<1>1. CASE Scm!Kill
  <2>1. CASE sendpc \notin Scm!Ended /\ Scm!SenderEnds("killed")
    BY <2>1, ScmSenderEnds
  <2>2. CASE Scm!ReceiverEnds("killed") /\ UNCHANGED ids
    <3>1. Scm!CredentialsTrue'
      BY <2>2 DEF Scm!Inv, Scm!CredentialsTrue, Scm!ReceiverEnds
    <3>2. ids' = << >> \/ ids' \in {"fd", "own", "other", "unset"} \X {"own", "unset"}
      BY <2>2, Zenon DEF Scm!Inv
    <3> QED
      BY <2>2, <3>1, <3>2, ScmReceiverEnds, ZenonT(30)
  <2> QED
    BY <1>1, <2>1, <2>2 DEF Scm!Kill
<1>2. CASE UNCHANGED Scm!vars
  <2>1. UNCHANGED <<scm, opts, path, conn, passcred, queue, refs, offset, recvpc, sendpc, sout, ids>>
    BY <1>2, Zenon DEF Scm!vars
  <2>2. Scm!TypeOK'
    BY <2>1, SMTT(30) DEF Scm!Inv, Scm!TypeOK
  <2>3. Scm!SentInv' /\ Scm!FilePassed' /\ Scm!CredentialsTrue'
    BY <2>1 DEF Scm!Inv, Scm!SentInv, Scm!Claimed, Scm!FilePassed, Scm!CredentialsTrue
  <2> QED
    BY <2>1, <2>2, <2>3 DEF Scm!Inv
<1> QED
  BY <1>1, <1>2, ScmReceiver, ScmSender, SMTT(30) DEF Scm!Next

(* For any file and any size of the buffer, whoever is killed and whenever: what
   scm_rights_recv.c prints is the file passed to it, all of it when it ends, and
   scm_cred_recv.c shows nobody else's credentials. *)
THEOREM AncillarySafety == Scm!Spec => []AncillaryTrue
<1>1. Scm!Inv /\ [Scm!Next]_(Scm!vars) => Scm!Inv'
  BY ScmStep
<1>2. Scm!Inv => AncillaryTrue
  BY DEF Scm!Inv, AncillaryTrue
<1> QED
  BY ScmInit, <1>1, <1>2, PTL DEF Scm!Spec
=============================================================================
