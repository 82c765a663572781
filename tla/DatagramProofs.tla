--------------------------- MODULE DatagramProofs ---------------------------
(***************************************************************************)
(* The datagram servers and their clients (Datagrams): what is to hold of  *)
(* them, and the proof for any clients, messages and sizes.                *)
(***************************************************************************)
EXTENDS Integers, Sequences, FiniteSets, TLAPS

(* What Append, Tail and SubSeq leave where. *)
LEMMA AppendFacts ==
    ASSUME NEW S, NEW s \in Seq(S), NEW e \in S
    PROVE  /\ Append(s, e) \in Seq(S) /\ Len(s) \in Nat /\ Len(Append(s, e)) = Len(s) + 1
           /\ \A k \in DOMAIN Append(s, e) : \/ k \in DOMAIN s /\ Append(s, e)[k] = s[k]
                                             \/ k = Len(s) + 1 /\ Append(s, e)[k] = e
  OBVIOUS

LEMMA Member ==
    ASSUME NEW S, NEW s \in Seq(S), NEW n \in DOMAIN s
    PROVE  s[n] \in S
  OBVIOUS

LEMMA TailFacts ==
    ASSUME NEW S, NEW s \in Seq(S), s # << >>
    PROVE  /\ Head(s) \in S /\ Head(s) = s[1] /\ 1 \in DOMAIN s /\ Tail(s) \in Seq(S)
           /\ Len(s) \in Nat /\ Len(s) > 0 /\ Len(Tail(s)) = Len(s) - 1
           /\ \A k \in DOMAIN Tail(s) : k \in Nat /\ k + 1 \in DOMAIN s /\ Tail(s)[k] = s[k + 1]
  OBVIOUS

LEMMA SubSeqFacts ==
    ASSUME NEW S, NEW s \in Seq(S), NEW p \in Nat \ {0}, NEW q \in 0..Len(s)
    PROVE  /\ SubSeq(s, p, q) \in Seq(S) /\ (p <= q + 1 => Len(SubSeq(s, p, q)) = q - p + 1)
           /\ \A k \in 1..(q - p + 1) : SubSeq(s, p, q)[k] = s[p + k - 1]
<1>1. SubSeq(s, p, q) \in Seq(S)
  OBVIOUS
<1>2. p <= q + 1 => Len(SubSeq(s, p, q)) = q - p + 1
  OBVIOUS
<1>3. \A k \in 1..(q - p + 1) : SubSeq(s, p, q)[k] = s[p + k - 1]
  OBVIOUS
<1> QED
  BY <1>1, <1>2, <1>3, Zenon

-----------------------------------------------------------------------------
(* The datagram servers. A client's message is a sequence of characters. *)

CONSTANTS DgClients, Msgs, DgBufSize, SV_QLEN, MaxFaults

VARIABLES app, dspc, dreq, svq, clq, names, dcpc, dj, dgot, refused, dfaults

dgVars == <<app, dspc, dreq, svq, clq, names, dcpc, dj, dgot, refused, dfaults>>
Datagram == INSTANCE Datagrams WITH
                spc <- dspc, req <- dreq, cpc <- dcpc, j <- dj, got <- dgot, faults <- dfaults,
                Clients <- DgClients, BUF_SIZE <- DgBufSize
ASSUME DatagramAssumption ==
    /\ DgClients # {} /\ Msgs \in [DgClients -> Seq(Seq(STRING))]
    /\ DgBufSize \in Nat /\ SV_QLEN \in Nat /\ {"A", "B"} \subseteq STRING

(* What is left where when a datagram is taken out of a queue. *)
LEMMA Removed ==
    ASSUME NEW S, NEW s \in Seq(S), NEW n \in Nat, NEW l \in Nat, l = Len(s), n <= l, 1 <= n
    PROVE  /\ Datagram!Without(s, n) \in Seq(S) /\ Len(Datagram!Without(s, n)) = l - 1
           /\ \A k \in 1..(l - 1) : /\ k < n => Datagram!Without(s, n)[k] = s[k]
                                    /\ k >= n => Datagram!Without(s, n)[k] = s[k + 1]
<1>1. 1 \in Nat \ {0} /\ n + 1 \in Nat \ {0} /\ n - 1 \in 0..Len(s) /\ l \in 0..Len(s) /\ 1 <= (n - 1) + 1 /\ n + 1 <= l + 1
  OBVIOUS
<1>2. (n - 1) - 1 + 1 = n - 1 /\ l - (n + 1) + 1 = l - n
  OBVIOUS
<1>3. /\ SubSeq(s, 1, n - 1) \in Seq(S) /\ (1 <= (n - 1) + 1 => Len(SubSeq(s, 1, n - 1)) = (n - 1) - 1 + 1)
      /\ \A k \in 1..((n - 1) - 1 + 1) : SubSeq(s, 1, n - 1)[k] = s[1 + k - 1]
  BY <1>1, SubSeqFacts, ZenonT(30)
<1>4. /\ SubSeq(s, n + 1, l) \in Seq(S) /\ (n + 1 <= l + 1 => Len(SubSeq(s, n + 1, l)) = l - (n + 1) + 1)
      /\ \A k \in 1..(l - (n + 1) + 1) : SubSeq(s, n + 1, l)[k] = s[(n + 1) + k - 1]
  BY <1>1, SubSeqFacts, ZenonT(30)
<1>5. (\A k \in 1..(n - 1) : 1 + k - 1 = k) /\ \A k \in 1..(l - n) : (n + 1) + k - 1 = n + k
  OBVIOUS
<1>6. \A k \in 1..(n - 1) : SubSeq(s, 1, n - 1)[k] = s[k]
  BY <1>2, <1>3, <1>5, Zenon
<1>7. \A k \in 1..(l - n) : SubSeq(s, n + 1, l)[k] = s[n + k]
  BY <1>2, <1>4, <1>5, Zenon
<1>8. Len(SubSeq(s, 1, n - 1)) = n - 1 /\ Len(SubSeq(s, n + 1, l)) = l - n
  BY <1>1, <1>2, <1>3, <1>4, Zenon
<1>9. Datagram!Without(s, n) = SubSeq(s, 1, n - 1) \o SubSeq(s, n + 1, l)
  BY Zenon DEF Datagram!Without
<1>10. PICK a \in Seq(S) : /\ Len(a) = n - 1 /\ (\A k \in 1..(n - 1) : a[k] = s[k])
                           /\ Datagram!Without(s, n) = a \o SubSeq(s, n + 1, l)
  BY <1>3, <1>6, <1>8, <1>9, Zenon
<1>11. PICK b \in Seq(S) : /\ Len(b) = l - n /\ (\A k \in 1..(l - n) : b[k] = s[n + k])
                           /\ Datagram!Without(s, n) = a \o b
  BY <1>4, <1>7, <1>8, <1>10, Zenon
<1>12. a \o b \in Seq(S) /\ Len(a \o b) = l - 1
  <2>1. a \o b \in Seq(S) /\ Len(a \o b) = Len(a) + Len(b)
    OBVIOUS
  <2>2. (n - 1) + (l - n) = l - 1
    OBVIOUS
  <2> QED
    BY <1>10, <1>11, <2>1, <2>2, Zenon
<1>13. ASSUME NEW k \in 1..(l - 1), k < n PROVE (a \o b)[k] = s[k]
  BY <1>10, <1>11, <1>13
<1>14. ASSUME NEW k \in 1..(l - 1), k >= n PROVE (a \o b)[k] = s[k + 1]
  <2>1. (a \o b)[k] = b[k - (n - 1)]
    BY <1>10, <1>11, <1>14, SMTT(30)
  <2>2. k - (n - 1) \in 1..(l - n) /\ n + (k - (n - 1)) = k + 1
    BY <1>14
  <2> QED
    BY <1>11, <2>1, <2>2
<1> QED
  BY <1>11, <1>12, <1>13, <1>14, Zenon

LEMMA RemoveFacts ==
    ASSUME NEW S, NEW s \in Seq(S), NEW n \in DOMAIN s
    PROVE  /\ Datagram!Without(s, n) \in Seq(S) /\ Len(s) \in Nat /\ Len(Datagram!Without(s, n)) = Len(s) - 1
           /\ n \in Nat /\ \A k \in DOMAIN Datagram!Without(s, n) :
                 /\ k \in Nat /\ (k < n => k \in DOMAIN s /\ Datagram!Without(s, n)[k] = s[k])
                 /\ k >= n => k + 1 \in DOMAIN s /\ Datagram!Without(s, n)[k] = s[k + 1]
<1>1. PICK l \in Nat : l = Len(s) /\ DOMAIN s = 1..l
  OBVIOUS
<1>2. n \in Nat /\ 1 <= n /\ n <= l /\ l = Len(s)
  BY <1>1
<1>3. /\ Datagram!Without(s, n) \in Seq(S) /\ Len(Datagram!Without(s, n)) = l - 1
      /\ \A k \in 1..(l - 1) : /\ k < n => Datagram!Without(s, n)[k] = s[k]
                               /\ k >= n => Datagram!Without(s, n)[k] = s[k + 1]
  BY <1>2, Removed, ZenonT(30)
<1>4. DOMAIN Datagram!Without(s, n) = 1..(l - 1)
  BY <1>3
<1>5. \A k \in 1..(l - 1) : k \in Nat /\ k \in 1..l /\ k + 1 \in 1..l
  BY <1>1
<1> QED
  BY <1>1, <1>2, <1>3, <1>4, <1>5, Zenon

(* The buffer holds the answer, and the client's buffer takes all of it. *)
LEMMA AnswerFacts ==
    ASSUME NEW m \in Datagram!Texts
    PROVE  /\ Datagram!Answer(m) \in Datagram!Texts /\ Len(Datagram!Answer(m)) <= DgBufSize
           /\ Datagram!Buffered(m) = Datagram!Answer(m) /\ Datagram!Cut(Datagram!Answer(m)) = Datagram!Answer(m)
<1>1. PICK l \in Nat : l = (IF Len(m) < DgBufSize THEN Len(m) ELSE DgBufSize)
  BY DatagramAssumption DEF Datagram!Texts
<1>2. l <= Len(m) /\ l <= DgBufSize /\ DOMAIN m = 1..Len(m) /\ \A k \in 1..l : m[k] \in STRING
  BY <1>1, DatagramAssumption DEF Datagram!Texts
<1>3. Datagram!Answer(m) = [k \in 1..l |-> IF app = "id_echo" THEN m[k] ELSE Datagram!Toupper(m[k])]
  BY <1>1 DEF Datagram!Answer
<1>4. \A ch \in STRING : Datagram!Toupper(ch) \in STRING
  <2>1. "A" \in STRING /\ "B" \in STRING
    BY DatagramAssumption
  <2>2. \A ch : Datagram!Toupper(ch) \in {"A", "B", ch}
    BY DEF Datagram!Toupper
  <2> QED
    BY <2>1, <2>2
<1>5. Datagram!Answer(m) \in [1..l -> STRING]
  BY <1>2, <1>3, <1>4, Zenon
<1>6. Datagram!Answer(m) \in Datagram!Texts /\ Len(Datagram!Answer(m)) = l
  BY <1>5 DEF Datagram!Texts
<1>7. Datagram!Cut(m) = [k \in 1..l |-> m[k]]
  <2>1. Datagram!Cut(m) = SubSeq(m, 1, l)
    BY <1>1, Zenon DEF Datagram!Cut
  <2>2. m \in Seq(STRING) /\ Len(m) \in Nat
    BY DEF Datagram!Texts
  <2> QED
    BY <1>2, <2>1, <2>2
<1>8. Datagram!Ucase(Datagram!Cut(m)) = [k \in 1..l |-> Datagram!Toupper(m[k])]
  BY <1>7 DEF Datagram!Ucase
<1>9. Datagram!Buffered(m) = Datagram!Answer(m)
  BY <1>3, <1>7, <1>8 DEF Datagram!Buffered
<1>10. Datagram!Cut(Datagram!Answer(m)) = SubSeq(Datagram!Answer(m), 1, l)
  <2>1. (IF l < DgBufSize THEN l ELSE DgBufSize) = l
    BY <1>2, DatagramAssumption
  <2> QED
    BY <1>6, <2>1 DEF Datagram!Cut
<1>11. Datagram!Cut(Datagram!Answer(m)) = Datagram!Answer(m)
  BY <1>5, <1>6, <1>10 DEF Datagram!Texts
<1> QED
  BY <1>2, <1>6, <1>9, <1>11

(* It holds before the server has bound its socket. *)
LEMMA DatagramInit == Datagram!Init => Datagram!Inv
<1> SUFFICES ASSUME Datagram!Init PROVE Datagram!Inv
  OBVIOUS
<1>1. dreq \in [from : DgClients, data : Datagram!Texts] /\ Len(dreq.data) <= DgBufSize
  BY DatagramAssumption DEF Datagram!Init, Datagram!Texts
<1>2. \A c \in DgClients : Len(Msgs[c]) \in Nat
  BY DatagramAssumption
<1>3. Datagram!TypeOK
  BY <1>1, <1>2, DatagramAssumption DEF Datagram!Init, Datagram!TypeOK, Datagram!Texts
<1>4. Datagram!ResponsesMatch /\ Datagram!ServerStays
  BY DEF Datagram!Init, Datagram!ResponsesMatch, Datagram!ServerStays, Datagram!MayEnd
<1>5. \A c \in DgClients : Datagram!Flight(c) /\ Datagram!Once(c) /\ Datagram!Unix(c)
  BY DEF Datagram!Init, Datagram!Flight, Datagram!Once, Datagram!Unix, Datagram!Active, Datagram!Queued, Datagram!Serving
<1> QED
  BY <1>3, <1>4, <1>5 DEF Datagram!Inv, Datagram!Init

(* A sequence with an index is not empty. *)
LEMMA InhabitedFacts ==
    ASSUME NEW T, NEW s \in Seq(T), NEW n \in DOMAIN s
    PROVE  s # << >> /\ Len(s) # 0
OBVIOUS

(* What is under way for a client stays so when a step adds nothing to it. *)
LEMMA DatagramOther ==
    ASSUME NEW d \in DgClients, Datagram!Flight(d), Datagram!Once(d), Datagram!Unix(d), Datagram!TypeOK, NEW f,
           dcpc'[d] = dcpc[d], dj'[d] = dj[d], app' = app, dfaults \subseteq dfaults',
           "duplicated" \in dfaults' => "duplicated" \in dfaults,
           \A n \in DOMAIN svq' : svq'[n].from = d => f[n] \in DOMAIN svq /\ svq[f[n]] = svq'[n],
           \A n, m \in DOMAIN svq' : svq'[n].from = d /\ svq'[m].from = d /\ f[n] = f[m] => n = m,
           Datagram!Serving(d)' => Datagram!Serving(d) /\ dreq' = dreq,
           clq'[d] = clq[d] \/ (clq[d] # << >> /\ clq'[d] = Tail(clq[d])),
           d \in names => d \in names'
    PROVE  Datagram!Flight(d)' /\ Datagram!Once(d)' /\ Datagram!Unix(d)'
<1>1. /\ Datagram!Active(d)' = Datagram!Active(d) /\ Datagram!Candidates(d)' = Datagram!Candidates(d)
      /\ Datagram!Queued(d)' => Datagram!Queued(d)
  BY DEF Datagram!Active, Datagram!Candidates, Datagram!Queued
<1>2. \A m : Datagram!Answer(m)' = Datagram!Answer(m)
  BY DEF Datagram!Answer
<1>3. /\ \A n \in DOMAIN clq'[d] : \E k \in DOMAIN clq[d] : clq'[d][n] = clq[d][k]
      /\ Len(clq[d]) <= 1 => Len(clq'[d]) <= 1
      /\ clq[d] = << >> => clq'[d] = << >>
  <2>1. CASE clq[d] # << >> /\ clq'[d] = Tail(clq[d])
    <3>1. clq[d] \in Seq(Datagram!Texts)
      BY DEF Datagram!TypeOK
    <3>2. /\ Len(clq[d]) \in Nat /\ Len(clq[d]) > 0 /\ Len(clq'[d]) = Len(clq[d]) - 1
          /\ \A k \in DOMAIN clq'[d] : k + 1 \in DOMAIN clq[d] /\ clq'[d][k] = clq[d][k + 1]
      BY <2>1, <3>1, TailFacts
    <3> QED
      BY <2>1, <3>2
  <2>2. CASE clq'[d] = clq[d]
    BY <2>2, Zenon
  <2> QED
    BY <2>1, <2>2
<1>4. Datagram!Flight(d)'
  <2>1. Datagram!Active(d)' => \A n \in DOMAIN clq'[d] : \E k \in Datagram!Candidates(d) : clq'[d][n] = Datagram!Answer(Msgs[d][k])
    BY <1>1, <1>3 DEF Datagram!Flight
  <2>2. Datagram!Active(d)' => \A n \in DOMAIN svq' : svq'[n].from = d => \E k \in Datagram!Candidates(d) : svq'[n].data = Msgs[d][k]
    BY <1>1 DEF Datagram!Flight
  <2>3. Datagram!Active(d)' /\ Datagram!Serving(d)' => \E k \in Datagram!Candidates(d) : dreq'.data = Datagram!Answer(Msgs[d][k])
    BY <1>1 DEF Datagram!Flight
  <2> QED
    BY <1>1, <1>2, <2>1, <2>2, <2>3 DEF Datagram!Flight
<1>6. Datagram!Once(d)'
  BY <1>1, <1>3 DEF Datagram!Once
<1>5. Datagram!Unix(d)'
  BY <1>1, Zenon DEF Datagram!Unix
<1> QED
  BY <1>4, <1>5, <1>6

(* The same when the step leaves the server's queue alone. *)
LEMMA DatagramSame ==
    ASSUME NEW d \in DgClients, Datagram!Flight(d), Datagram!Once(d), Datagram!Unix(d), Datagram!TypeOK,
           dcpc'[d] = dcpc[d], dj'[d] = dj[d], app' = app, dfaults \subseteq dfaults',
           "duplicated" \in dfaults' => "duplicated" \in dfaults, svq' = svq,
           Datagram!Serving(d)' => Datagram!Serving(d) /\ dreq' = dreq, clq'[d] = clq[d], d \in names => d \in names'
    PROVE  Datagram!Flight(d)' /\ Datagram!Once(d)' /\ Datagram!Unix(d)'
<1>1. PICK f : \A n \in DOMAIN svq : f[n] = n
  <2>1. \A n \in DOMAIN svq : [m \in DOMAIN svq |-> m][n] = n
    OBVIOUS
  <2> QED
    BY <2>1, Zenon
<1>2. /\ \A n \in DOMAIN svq' : svq'[n].from = d => f[n] \in DOMAIN svq /\ svq[f[n]] = svq'[n]
      /\ \A n, m \in DOMAIN svq' : svq'[n].from = d /\ svq'[m].from = d /\ f[n] = f[m] => n = m
  BY <1>1
<1> QED
  BY <1>2, DatagramOther

(* Bind, and a call that fails. *)
LEMMA DatagramIdle ==
    ASSUME Datagram!Inv, dspc' # "send", UNCHANGED <<app, dreq, svq, clq, names, dcpc, dj, dgot, refused>>,
           dfaults \subseteq dfaults', "duplicated" \in dfaults' => "duplicated" \in dfaults,
           dspc' \in {"start", "recv", "send", "dead"},
           dspc' = "dead" => Datagram!MayEnd'
    PROVE  Datagram!Inv'
<1>0. /\ Datagram!TypeOK /\ Datagram!ResponsesMatch /\ Datagram!ServerStays
      /\ app = "ud_ucase" => "duplicated" \notin dfaults
      /\ \A c \in DgClients : Datagram!Flight(c) /\ Datagram!Once(c) /\ Datagram!Unix(c) /\ (dcpc[c] = "recv" => dj[c] <= Len(Msgs[c]))
  BY DEF Datagram!Inv
<1>1. Datagram!TypeOK'
  BY <1>0 DEF Datagram!TypeOK, Datagram!Udp
<1>2. \A m : Datagram!Answer(m)' = Datagram!Answer(m)
  BY DEF Datagram!Answer
<1>3. Datagram!ResponsesMatch'
  BY <1>0, <1>2 DEF Datagram!ResponsesMatch
<1>4. Datagram!ServerStays'
  BY DEF Datagram!ServerStays, Datagram!MayEnd
<1>5. \A d \in DgClients : ~Datagram!Serving(d)'
  BY DEF Datagram!Serving
<1>6. \A d \in DgClients : Datagram!Flight(d)' /\ Datagram!Once(d)' /\ Datagram!Unix(d)'
  <2> TAKE d \in DgClients
  <2>1. PICK f : f = [n \in DOMAIN svq |-> n]
    BY Zenon
  <2> QED
    BY <1>0, <1>5, <2>1, DatagramOther
<1> QED
  BY <1>0, <1>1, <1>3, <1>4, <1>6 DEF Datagram!Inv

(* recvfrom() of the server. *)
LEMMA DatagramReceive ==
    ASSUME Datagram!Inv, Datagram!Receive, UNCHANGED <<app, names, dcpc, dj, dgot, refused>>
    PROVE  Datagram!Inv'
<1>0. /\ Datagram!TypeOK /\ Datagram!ResponsesMatch /\ Datagram!ServerStays
      /\ app = "ud_ucase" => "duplicated" \notin dfaults
      /\ \A c \in DgClients : Datagram!Flight(c) /\ Datagram!Once(c) /\ Datagram!Unix(c) /\ (dcpc[c] = "recv" => dj[c] <= Len(Msgs[c]))
  BY DEF Datagram!Inv
<1>1. PICK n \in DOMAIN svq : /\ dreq' = [from |-> svq[n].from, data |-> Datagram!Buffered(svq[n].data)]
                             /\ svq' = Datagram!Without(svq, n)
  BY DEF Datagram!Receive
<1>2. PICK c, m : c = svq[n].from /\ m = svq[n].data /\ c \in DgClients /\ m \in Datagram!Texts
  <2>1. svq \in Seq([from : DgClients, data : Datagram!Texts])
    BY <1>0 DEF Datagram!TypeOK
  <2>2. svq[n] \in [from : DgClients, data : Datagram!Texts]
    BY <1>1, <2>1, Member, Zenon
  <2> QED
    BY <2>2
<1>3. dspc = "recv" /\ dspc' = "send" /\ UNCHANGED <<clq, dfaults>>
  BY DEF Datagram!Receive
<1>4. Datagram!Buffered(m) = Datagram!Answer(m) /\ Datagram!Answer(m) \in Datagram!Texts /\ Len(Datagram!Answer(m)) <= DgBufSize
  BY <1>2, AnswerFacts
<1>5. dreq' = [from |-> c, data |-> Datagram!Answer(m)]
  BY <1>1, <1>2, <1>4
<1>6. \A k : Datagram!Answer(k)' = Datagram!Answer(k)
  BY DEF Datagram!Answer
<1>7. /\ svq' \in Seq([from : DgClients, data : Datagram!Texts]) /\ Len(svq) \in Nat /\ Len(svq') = Len(svq) - 1
      /\ n \in Nat /\ \A k \in DOMAIN svq' :
           /\ k \in Nat /\ (k < n => k \in DOMAIN svq /\ svq'[k] = svq[k])
           /\ k >= n => k + 1 \in DOMAIN svq /\ svq'[k] = svq[k + 1]
  <2>1. svq \in Seq([from : DgClients, data : Datagram!Texts])
    BY <1>0 DEF Datagram!TypeOK
  <2> QED
    BY <1>1, <2>1, RemoveFacts
<1>8. Datagram!TypeOK'
  <2>1. Len(svq) <= SV_QLEN => Len(svq') <= SV_QLEN
    BY <1>7, DatagramAssumption
  <2>2. dreq' \in [from : DgClients, data : Datagram!Texts] /\ Len(dreq'.data) <= DgBufSize
    BY <1>2, <1>4, <1>5
  <2> QED
    BY <1>0, <1>3, <1>7, <2>1, <2>2, Zenon DEF Datagram!TypeOK, Datagram!Udp
<1>9. Datagram!ResponsesMatch' /\ Datagram!ServerStays'
  BY <1>0, <1>3, <1>6 DEF Datagram!ResponsesMatch, Datagram!ServerStays, Datagram!MayEnd
<1>10. PICK f : f = [k \in DOMAIN svq' |-> IF k < n THEN k ELSE k + 1]
  BY Zenon
<1>11. /\ \A k \in DOMAIN svq' : f[k] \in DOMAIN svq /\ svq[f[k]] = svq'[k] /\ f[k] # n
       /\ \A k, l \in DOMAIN svq' : f[k] = f[l] => k = l
  BY <1>7, <1>10, SMTT(30)
<1>12. ASSUME NEW d \in DgClients, d # c PROVE Datagram!Flight(d)' /\ Datagram!Once(d)' /\ Datagram!Unix(d)'
  <2>1. ~Datagram!Serving(d)'
    BY <1>5, <1>12 DEF Datagram!Serving
  <2>2. Datagram!Flight(d) /\ Datagram!Once(d) /\ Datagram!Unix(d)
    BY <1>0
  <2> QED
    BY <1>0, <1>3, <1>11, <2>1, <2>2, DatagramOther
<1>13. Datagram!Flight(c)' /\ Datagram!Once(c)' /\ Datagram!Unix(c)'
  <2>1. Datagram!Flight(c) /\ Datagram!Once(c) /\ Datagram!Unix(c) /\ Datagram!Queued(c) /\ ~Datagram!Serving(c)
    BY <1>0, <1>1, <1>2, <1>3 DEF Datagram!Queued, Datagram!Serving
  <2>2. Datagram!Active(c)' = Datagram!Active(c) /\ Datagram!Candidates(c)' = Datagram!Candidates(c) /\ Datagram!Serving(c)' /\ clq'[c] = clq[c]
    BY <1>3, <1>5, Zenon DEF Datagram!Active, Datagram!Candidates, Datagram!Serving
  <2>3. Datagram!Active(c) => \E k \in Datagram!Candidates(c) : m = Msgs[c][k]
    BY <1>1, <1>2, <2>1, Zenon DEF Datagram!Flight
  <2>4. Datagram!Active(c) => \A k \in DOMAIN svq' : svq'[k].from = c => \E i \in Datagram!Candidates(c) : svq'[k].data = Msgs[c][i]
    BY <1>11, <2>1 DEF Datagram!Flight
  <2>5. Datagram!Active(c) => \E k \in Datagram!Candidates(c) : dreq'.data = Datagram!Answer(Msgs[c][k])
    BY <1>5, <2>3, Zenon
  <2>6. Datagram!Flight(c)'
    BY <1>6, <2>1, <2>2, <2>4, <2>5, SMTT(30) DEF Datagram!Flight
  <2>7. Datagram!Active(c) /\ "duplicated" \notin dfaults => ~Datagram!Queued(c)' /\ clq[c] = << >>
    BY <1>1, <1>2, <1>11, <2>1 DEF Datagram!Once, Datagram!Queued
  <2>8. \A k \in DOMAIN svq' : svq'[k].from = c => Datagram!Queued(c)'
    BY DEF Datagram!Queued
  <2>9. Len(<< >>) <= 1
    OBVIOUS
  <2>10. Datagram!Once(c)'
    BY <1>3, <2>2, <2>7, <2>8, <2>9 DEF Datagram!Once
  <2>11. Datagram!Unix(c)'
    BY <1>3, <2>1, ZenonT(30) DEF Datagram!Unix
  <2> QED
    BY <2>6, <2>10, <2>11, Zenon
<1> QED
  BY <1>0, <1>3, <1>8, <1>9, <1>12, <1>13 DEF Datagram!Inv

(* sendto() of the server, which ud_ucase_sv does not survive if the client is gone. *)
LEMMA DatagramReply ==
    ASSUME Datagram!Inv, Datagram!Reply, UNCHANGED <<app, names, dcpc, dj, dgot, refused>>,
           \/ dspc' = "recv"
           \/ dspc' = "dead" /\ app = "ud_ucase" /\ ~(Datagram!Live(dreq.from) /\ dreq.from \in names)
    PROVE  Datagram!Inv'
<1>0. /\ Datagram!TypeOK /\ Datagram!ResponsesMatch /\ Datagram!ServerStays
      /\ app = "ud_ucase" => "duplicated" \notin dfaults
      /\ \A c \in DgClients : Datagram!Flight(c) /\ Datagram!Once(c) /\ Datagram!Unix(c) /\ (dcpc[c] = "recv" => dj[c] <= Len(Msgs[c]))
  BY DEF Datagram!Inv
<1>1. PICK c, m : c = dreq.from /\ m = dreq.data /\ c \in DgClients /\ m \in Datagram!Texts
  BY <1>0 DEF Datagram!TypeOK
<1>2. /\ dspc = "send" /\ UNCHANGED <<dreq, svq, dfaults>> /\ clq \in [DgClients -> Seq(Datagram!Texts)]
      /\ clq' = IF Datagram!Live(c) THEN [clq EXCEPT ![c] = Append(@, m)] ELSE clq
  BY <1>0, <1>1 DEF Datagram!Reply, Datagram!TypeOK
<1>3. \A k : Datagram!Answer(k)' = Datagram!Answer(k)
  BY DEF Datagram!Answer
<1>4. Datagram!Flight(c) /\ Datagram!Once(c) /\ Datagram!Unix(c) /\ Datagram!Serving(c) /\ \A d : ~Datagram!Serving(d)'
  BY <1>0, <1>1, <1>2 DEF Datagram!Serving
<1>5. clq' \in [DgClients -> Seq(Datagram!Texts)] /\ \A d \in DgClients : d # c => clq'[d] = clq[d]
  BY <1>1, <1>2
<1>6. Datagram!TypeOK'
  BY <1>0, <1>2, <1>5, SMTT(30) DEF Datagram!TypeOK, Datagram!Udp
<1>7. Datagram!ResponsesMatch'
  BY <1>0, <1>2, <1>3, Zenon DEF Datagram!ResponsesMatch
<1>8. Datagram!ServerStays'
  <2>1. dspc' = "dead" => dcpc[c] = "killed"
    BY <1>1, <1>4 DEF Datagram!Unix, Datagram!Live
  <2> QED
    BY <1>2, <1>4, <2>1, Zenon DEF Datagram!ServerStays, Datagram!MayEnd, Datagram!Unix
<1>10. ASSUME NEW d \in DgClients, clq'[d] = clq[d] PROVE Datagram!Flight(d)' /\ Datagram!Once(d)' /\ Datagram!Unix(d)'
  BY <1>0, <1>2, <1>4, <1>10, DatagramSame
<1>11. Datagram!Flight(c)' /\ Datagram!Once(c)' /\ Datagram!Unix(c)'
  <2>1. CASE ~Datagram!Live(c)
    BY <1>1, <1>2, <1>10, <2>1
  <2>2. CASE Datagram!Live(c)
    <3>1. clq'[c] = Append(clq[c], m) /\ clq[c] \in Seq(Datagram!Texts)
      BY <1>1, <1>2, <2>2
    <3>2. Datagram!Active(c)' = Datagram!Active(c) /\ Datagram!Candidates(c)' = Datagram!Candidates(c) /\ Datagram!Active(c) /\ Datagram!Queued(c)' = Datagram!Queued(c)
      BY <1>2, <2>2, Zenon DEF Datagram!Active, Datagram!Candidates, Datagram!Live, Datagram!Queued
    <3>3. \E k \in Datagram!Candidates(c) : m = Datagram!Answer(Msgs[c][k])
      BY <1>1, <1>4, <3>2, SMTT(30) DEF Datagram!Flight
    <3>4. \A k \in DOMAIN clq'[c] : (k \in DOMAIN clq[c] /\ clq'[c][k] = clq[c][k]) \/ clq'[c][k] = m
      BY <1>1, <3>1, AppendFacts
    <3>5. \A n \in DOMAIN clq'[c] : \E k \in Datagram!Candidates(c) : clq'[c][n] = Datagram!Answer(Msgs[c][k])
      BY <1>4, <3>2, <3>3, <3>4, ZenonT(30) DEF Datagram!Flight
    <3>6. Datagram!Flight(c)'
      BY <1>2, <1>3, <1>4, <3>2, <3>5 DEF Datagram!Flight
    <3>7. "duplicated" \notin dfaults => clq[c] = << >> /\ ~Datagram!Queued(c)
      BY <1>4, <3>2, Zenon DEF Datagram!Once
    <3>8. "duplicated" \notin dfaults => Len(clq'[c]) <= 1
      BY <1>1, <3>1, <3>7
    <3>9. Datagram!Once(c)'
      BY <1>2, <1>4, <3>2, <3>7, <3>8, ZenonT(30) DEF Datagram!Once, Datagram!Queued
    <3>10. Datagram!Unix(c)'
      BY <1>2, <1>4, <3>2 DEF Datagram!Unix
    <3> QED
      BY <3>6, <3>9, <3>10
  <2> QED
    BY <2>1, <2>2
<1> QED
  BY <1>0, <1>2, <1>5, <1>6, <1>7, <1>8, <1>10, <1>11 DEF Datagram!Inv

(* A client starts, or ends. *)
LEMMA DatagramLeaves ==
    ASSUME Datagram!Inv, NEW c \in DgClients, NEW label, NEW left, Datagram!Leaves(c, label, left), UNCHANGED <<app, dspc, dreq>>,
           \/ dcpc[c] = "start" /\ label = "send" /\ left \in {names, names \cup {c}} /\ (~Datagram!Udp => c \in left)
           \/ /\ label \in {"failed", "done"} /\ dcpc[c] # "start" /\ (~Datagram!Udp => dcpc[c] = "send")
              /\ left \in {names, names \ {c}}
    PROVE  Datagram!Inv'
<1>0. /\ Datagram!TypeOK /\ Datagram!ResponsesMatch /\ Datagram!ServerStays
      /\ app = "ud_ucase" => "duplicated" \notin dfaults
      /\ \A d \in DgClients : Datagram!Flight(d) /\ Datagram!Once(d) /\ Datagram!Unix(d) /\ (dcpc[d] = "recv" => dj[d] <= Len(Msgs[d]))
  BY DEF Datagram!Inv
<1>1. /\ dcpc' = [dcpc EXCEPT ![c] = label] /\ names' = left /\ UNCHANGED <<svq, clq, dj, dgot, refused, dfaults>>
      /\ label \in {"send", "failed", "done"}
  BY DEF Datagram!Leaves, Datagram!Goes
<1>2. dcpc'[c] = label /\ \A d \in DgClients : d # c => dcpc'[d] = dcpc[d]
  BY <1>0, <1>1 DEF Datagram!TypeOK
<1>3. Datagram!TypeOK'
  <2>1. dcpc' \in [DgClients -> {"start", "send", "recv", "done", "failed", "killed"}]
    BY <1>0, <1>1 DEF Datagram!TypeOK
  <2> QED
    BY <1>0, <1>1, <2>1, Zenon DEF Datagram!TypeOK, Datagram!Udp
<1>4. \A k : Datagram!Answer(k)' = Datagram!Answer(k)
  BY Zenon DEF Datagram!Answer
<1>5. Datagram!ResponsesMatch' /\ Datagram!ServerStays'
  BY <1>0, <1>1, <1>4, Zenon DEF Datagram!ResponsesMatch, Datagram!ServerStays, Datagram!MayEnd
<1>7. \A d : Datagram!Serving(d)' = Datagram!Serving(d) /\ Datagram!Queued(d)' = Datagram!Queued(d)
  BY <1>1 DEF Datagram!Serving, Datagram!Queued
<1>8. ASSUME NEW d \in DgClients, d # c PROVE Datagram!Flight(d)' /\ Datagram!Once(d)' /\ Datagram!Unix(d)'
  <2>1. Datagram!Flight(d) /\ Datagram!Once(d) /\ Datagram!Unix(d) /\ Datagram!TypeOK
    BY <1>0, Zenon
  <2>2. /\ dcpc'[d] = dcpc[d] /\ dj'[d] = dj[d] /\ app' = app /\ clq'[d] = clq[d] /\ dreq' = dreq /\ svq' = svq
        /\ dfaults \subseteq dfaults' /\ ("duplicated" \in dfaults' => "duplicated" \in dfaults)
        /\ d \in names => d \in names'
    BY <1>1, <1>2, <1>8
  <2> QED
    BY <1>7, <2>1, <2>2, DatagramSame, Zenon
<1>9. Datagram!Flight(c)' /\ Datagram!Once(c)' /\ Datagram!Unix(c)'
  <2>1. Datagram!Flight(c) /\ Datagram!Once(c) /\ Datagram!Unix(c)
    BY <1>0
  <2>2. CASE dcpc[c] = "start" /\ label = "send"
    <3>1. Datagram!Active(c)' /\ Datagram!Active(c) /\ Datagram!Candidates(c)' = Datagram!Candidates(c)
      BY <1>1, <1>2, <2>2, Zenon DEF Datagram!Active, Datagram!Candidates
    <3>2. Datagram!Flight(c)'
      BY <1>1, <1>4, <1>7, <2>1, <3>1, Zenon DEF Datagram!Flight
    <3>3. Datagram!Once(c)'
      BY <1>1, <1>7, <2>1, <3>1, Zenon DEF Datagram!Once
    <3>4. Datagram!Unix(c)'
      BY <1>1, <1>2, <1>7, <2>1, <2>2, Zenon DEF Datagram!Unix, Datagram!Udp
    <3> QED
      BY <3>2, <3>3, <3>4, Zenon
  <2>3. CASE label \in {"failed", "done"} /\ (~Datagram!Udp => dcpc[c] = "send")
    <3>1. ~Datagram!Active(c)'
      BY <1>2, <2>3 DEF Datagram!Active
    <3>2. Datagram!Unix(c)'
      BY <1>1, <1>2, <1>7, <2>1, <2>3 DEF Datagram!Unix, Datagram!Udp
    <3> QED
      BY <3>1, <3>2 DEF Datagram!Flight, Datagram!Once
  <2> QED
    BY <1>1, <2>2, <2>3
<1> QED
  BY <1>0, <1>1, <1>2, <1>3, <1>5, <1>8, <1>9, Zenon DEF Datagram!Inv

(* A client sends message j; without a server a UDP datagram is gone. *)
LEMMA DatagramSend ==
    ASSUME Datagram!Inv, NEW c \in DgClients, Datagram!Another(c), Datagram!Goes(c, "recv"),
           \/ svq' = Append(svq, Datagram!Datagram(c)) /\ (~Datagram!Udp => Len(svq) < SV_QLEN)
           \/ svq' = svq,
           UNCHANGED <<app, dspc, dreq, clq, names, dj, dgot>>, refused' \subseteq DgClients,
           dfaults \subseteq dfaults', "duplicated" \in dfaults' => "duplicated" \in dfaults
    PROVE  Datagram!Inv'
<1>0. /\ Datagram!TypeOK /\ Datagram!ResponsesMatch /\ Datagram!ServerStays
      /\ app = "ud_ucase" => "duplicated" \notin dfaults
      /\ \A d \in DgClients : Datagram!Flight(d) /\ Datagram!Once(d) /\ Datagram!Unix(d) /\ (dcpc[d] = "recv" => dj[d] <= Len(Msgs[d]))
  BY DEF Datagram!Inv
<1>1. dcpc[c] = "send" /\ dj[c] <= Len(Msgs[c]) /\ dj[c] \in Nat /\ dj[c] >= 1 /\ dcpc' = [dcpc EXCEPT ![c] = "recv"]
  BY <1>0 DEF Datagram!Another, Datagram!Goes, Datagram!TypeOK
<1>2. dcpc'[c] = "recv" /\ \A d \in DgClients : d # c => dcpc'[d] = dcpc[d]
  BY <1>0, <1>1 DEF Datagram!TypeOK
<1>3. PICK m : m = Msgs[c][dj[c]] /\ m \in Datagram!Texts /\ Datagram!Datagram(c) = [from |-> c, data |-> m]
  <2>1. Msgs[c] \in Seq(Datagram!Texts)
    BY DatagramAssumption, SMTT(30) DEF Datagram!Texts
  <2>2. dj[c] \in DOMAIN Msgs[c]
    BY <1>1, <2>1
  <2> QED
    BY <2>1, <2>2, Member, Zenon DEF Datagram!Datagram
<1>41. PICK R : /\ R = [from : DgClients, data : Datagram!Texts] /\ svq \in Seq(R)
               /\ Len(svq) \in Nat /\ (~Datagram!Udp => Len(svq) <= SV_QLEN)
  <2>1. svq \in Seq([from : DgClients, data : Datagram!Texts]) /\ (~Datagram!Udp => Len(svq) <= SV_QLEN)
    BY <1>0 DEF Datagram!TypeOK
  <2>2. Len(svq) \in Nat
    BY <2>1
  <2> QED
    BY <2>1, <2>2, Zenon
<1>42. PICK e : e = [from |-> c, data |-> m] /\ e \in R
  BY <1>3, <1>41
<1>43. /\ svq' \in Seq(R) /\ (~Datagram!Udp => Len(svq') <= SV_QLEN)
      /\ \A k \in DOMAIN svq' : (k \in DOMAIN svq /\ svq'[k] = svq[k]) \/ (k = Len(svq) + 1 /\ svq'[k] = e)
  <2>1. e \in R /\ svq \in Seq(R)
    BY <1>41, <1>42, Zenon
  <2>2. CASE svq' = svq
    BY <1>41, <2>2
  <2>3. CASE svq' = Append(svq, Datagram!Datagram(c)) /\ (~Datagram!Udp => Len(svq) < SV_QLEN)
    <3>1. svq' = Append(svq, e)
      BY <1>3, <1>42, <2>3
    <3>2. Len(svq) < SV_QLEN => Len(svq) + 1 <= SV_QLEN
      BY <1>41, DatagramAssumption, SMTT(30)
    <3> QED
      BY <2>1, <2>3, <3>1, <3>2, AppendFacts, SMTT(30)
  <2> QED
    BY <2>2, <2>3
<1>44. \A k \in DOMAIN svq' : (k \in DOMAIN svq /\ svq'[k] = svq[k])
                             \/ (k = Len(svq) + 1 /\ svq'[k] = [from |-> c, data |-> m])
  BY <1>42, <1>43
<1>4. svq \in Seq([from : DgClients, data : Datagram!Texts]) /\ svq' \in Seq([from : DgClients, data : Datagram!Texts])
  BY <1>41, <1>43, Zenon
<1>5. Datagram!TypeOK'
  <2>1. dcpc' \in [DgClients -> {"start", "send", "recv", "done", "failed", "killed"}]
    BY <1>0, <1>1 DEF Datagram!TypeOK
  <2> QED
    BY <1>0, <1>4, <1>43, <2>1, Zenon DEF Datagram!TypeOK, Datagram!Udp
<1>6. \A k : Datagram!Answer(k)' = Datagram!Answer(k)
  BY ZenonT(30) DEF Datagram!Answer
<1>7. Datagram!ResponsesMatch' /\ Datagram!ServerStays'
  BY <1>0, <1>6 DEF Datagram!ResponsesMatch, Datagram!ServerStays, Datagram!MayEnd
<1>8. PICK f : f = [n \in DOMAIN svq' |-> n]
  BY Zenon
<1>9. \A d : Datagram!Serving(d)' = Datagram!Serving(d)
  BY Zenon DEF Datagram!Serving
<1>10. ASSUME NEW d \in DgClients, d # c PROVE Datagram!Flight(d)' /\ Datagram!Once(d)' /\ Datagram!Unix(d)'
  <2>1. \A n \in DOMAIN svq' : svq'[n].from = d => n \in DOMAIN svq /\ svq[n] = svq'[n]
    BY <1>44, <1>10
  <2> QED
    BY <1>0, <1>2, <1>8, <1>9, <1>10, <2>1, DatagramOther, SMTT(30)
<1>11. Datagram!Flight(c) /\ Datagram!Once(c) /\ Datagram!Unix(c) /\ Datagram!Active(c) /\ Datagram!Active(c)'
  BY <1>0, <1>1, <1>2, ZenonT(30) DEF Datagram!Active
<1>12. "duplicated" \notin dfaults => ~Datagram!Queued(c) /\ ~Datagram!Serving(c) /\ clq[c] = << >>
  <2>1. "duplicated" \notin dfaults => Datagram!Candidates(c) = {}
    BY <1>1 DEF Datagram!Candidates
  <2>2. clq[c] \in Seq(Datagram!Texts)
    BY <1>0, Zenon DEF Datagram!TypeOK
  <2>3. "duplicated" \notin dfaults => DOMAIN clq[c] = {}
    BY <1>11, <2>1, Zenon DEF Datagram!Flight
  <2>4. "duplicated" \notin dfaults => ~Datagram!Queued(c) /\ ~Datagram!Serving(c)
    BY <1>11, <2>1, SMTT(30) DEF Datagram!Flight, Datagram!Queued
  <2>5. ASSUME NEW q \in Seq(Datagram!Texts), DOMAIN q = {} PROVE q = << >>
    <3>1. DOMAIN q = 1..Len(q) /\ Len(q) \in Nat
      OBVIOUS
    <3>2. Len(q) = 0
      BY <2>5, <3>1
    <3> QED
      BY <2>5, <3>2
  <2> QED
    BY <2>2, <2>3, <2>4, <2>5, Zenon
<1>13. Datagram!Candidates(c) \subseteq Datagram!Candidates(c)' /\ dj[c] \in Datagram!Candidates(c)'
  BY <1>1, <1>2 DEF Datagram!Candidates
<1>14. Datagram!Flight(c)'
  <2>1. \A n \in DOMAIN svq' : svq'[n].from = c => \E k \in Datagram!Candidates(c)' : svq'[n].data = Msgs[c][k]
    <3> TAKE n \in DOMAIN svq'
    <3>1. CASE n \in DOMAIN svq /\ svq'[n] = svq[n]
      BY <1>11, <1>13, <3>1, Zenon DEF Datagram!Flight
    <3>2. CASE svq'[n] = [from |-> c, data |-> m]
      BY <1>3, <1>13, <3>2
    <3> QED
      BY <1>44, <3>1, <3>2
  <2>2. Datagram!Serving(c) => \E k \in Datagram!Candidates(c)' : dreq.data = Datagram!Answer(Msgs[c][k])
    BY <1>11, <1>13, Zenon DEF Datagram!Flight
  <2>3. \A n \in DOMAIN clq[c] : \E k \in Datagram!Candidates(c)' : clq[c][n] = Datagram!Answer(Msgs[c][k])
    BY <1>11, <1>13, Zenon DEF Datagram!Flight
  <2> QED
    BY <1>6, <1>9, <2>1, <2>2, <2>3, ZenonT(30) DEF Datagram!Flight
<1>15. Datagram!Once(c)'
  <2>1. "duplicated" \notin dfaults => \A n \in DOMAIN svq' : svq'[n].from = c => n = Len(svq) + 1
    BY <1>41, <1>44, <1>12 DEF Datagram!Queued
  <2>2. Len(<< >>) <= 1
    OBVIOUS
  <2> QED
    BY <1>9, <1>12, <2>1, <2>2, Zenon DEF Datagram!Once
<1>16. Datagram!Unix(c)'
  BY <1>1, <1>2, <1>11, Zenon DEF Datagram!Unix
<1> QED
  BY <1>0, <1>1, <1>2, <1>5, <1>7, <1>10, <1>14, <1>15, <1>16, ZenonT(30) DEF Datagram!Inv

(* A client takes a response and prints it. *)
LEMMA DatagramResponse ==
    ASSUME Datagram!Inv, NEW c \in DgClients, Datagram!Response(c), UNCHANGED <<app, dspc, dreq>>
    PROVE  Datagram!Inv'
<1>0. /\ Datagram!TypeOK /\ Datagram!ResponsesMatch /\ Datagram!ServerStays
      /\ app = "ud_ucase" => "duplicated" \notin dfaults
      /\ \A d \in DgClients : Datagram!Flight(d) /\ Datagram!Once(d) /\ Datagram!Unix(d) /\ (dcpc[d] = "recv" => dj[d] <= Len(Msgs[d]))
  BY Zenon DEF Datagram!Inv
<1>1. /\ dcpc[c] = "recv" /\ dj' = [dj EXCEPT ![c] = @ + 1] /\ dcpc' = [dcpc EXCEPT ![c] = "send"]
      /\ UNCHANGED <<svq, names, refused, dfaults>> /\ dj[c] <= Len(Msgs[c]) /\ dj[c] \in Nat /\ dj[c] >= 1
  BY <1>0 DEF Datagram!Response, Datagram!Goes, Datagram!TypeOK
<1>2. PICK n \in DOMAIN clq[c] : /\ dgot' = [dgot EXCEPT ![c] = Append(@, Datagram!Cut(clq[c][n]))]
                                /\ clq' = [clq EXCEPT ![c] = Datagram!Without(@, n)]
  BY Zenon DEF Datagram!Response
<1>3. /\ dj'[c] = dj[c] + 1 /\ dcpc'[c] = "send"
      /\ \A d \in DgClients : d # c => dj'[d] = dj[d] /\ dcpc'[d] = dcpc[d] /\ clq'[d] = clq[d] /\ dgot'[d] = dgot[d]
  BY <1>0, <1>1, <1>2 DEF Datagram!TypeOK
<1>4. PICK q, g : /\ q = clq[c] /\ q \in Seq(Datagram!Texts) /\ g = dgot[c] /\ g \in Seq(Datagram!Texts)
                  /\ clq'[c] = Datagram!Without(q, n) /\ Len(g) = dj[c] - 1
                  /\ dgot'[c] = Append(g, Datagram!Cut(q[n]))
  BY <1>0, <1>2, Zenon DEF Datagram!TypeOK
<1>5. Datagram!Flight(c) /\ Datagram!Once(c) /\ Datagram!Unix(c) /\ Datagram!Active(c) /\ Datagram!Active(c)'
  BY <1>0, <1>1, <1>3, Zenon DEF Datagram!Active
<1>6. PICK k \in Datagram!Candidates(c) : q[n] = Datagram!Answer(Msgs[c][k])
  BY <1>2, <1>4, <1>5, ZenonT(30) DEF Datagram!Flight
<1>7. k \in 1..dj[c] /\ ("duplicated" \notin dfaults => k = dj[c])
  BY <1>1, <1>6, SMTT(30) DEF Datagram!Candidates
<1>8. PICK a : a = Datagram!Answer(Msgs[c][k]) /\ a \in Datagram!Texts /\ Datagram!Cut(q[n]) = a
  <2>1. Msgs[c] \in Seq(Datagram!Texts)
    BY DatagramAssumption, Zenon DEF Datagram!Texts
  <2>2. k \in DOMAIN Msgs[c]
    BY <1>1, <1>7, <2>1
  <2>3. Msgs[c][k] \in Datagram!Texts
    BY <2>1, <2>2, Member, ZenonT(30)
  <2> QED
    BY <1>6, <2>3, AnswerFacts
<1>9. /\ dgot'[c] \in Seq(Datagram!Texts) /\ Len(dgot'[c]) = dj[c]
      /\ \A i \in DOMAIN dgot'[c] : i \in Nat /\ i >= 1 /\ ((i \in DOMAIN g /\ dgot'[c][i] = g[i]) \/ (i = dj[c] /\ dgot'[c][i] = a))
  <2>1. dgot'[c] = Append(g, a)
    BY <1>4, <1>8
  <2> QED
    BY <1>1, <1>4, <1>8, <2>1, SMTT(30)
<1>10. /\ clq'[c] \in Seq(Datagram!Texts) /\ Len(clq'[c]) = Len(q) - 1 /\ Len(q) \in Nat
       /\ \A i \in DOMAIN clq'[c] : \E h \in DOMAIN q : clq'[c][i] = q[h]
  <2>1. n \in DOMAIN q /\ q \in Seq(Datagram!Texts)
    BY <1>2, <1>4
  <2>4. clq'[c] = Datagram!Without(q, n)
    BY <1>4
  <2>2. /\ Datagram!Without(q, n) \in Seq(Datagram!Texts) /\ Len(q) \in Nat /\ Len(Datagram!Without(q, n)) = Len(q) - 1
        /\ n \in Nat /\ \A i \in DOMAIN Datagram!Without(q, n) :
              /\ i \in Nat /\ (i < n => i \in DOMAIN q /\ Datagram!Without(q, n)[i] = q[i])
              /\ i >= n => i + 1 \in DOMAIN q /\ Datagram!Without(q, n)[i] = q[i + 1]
    BY <2>1, RemoveFacts, Zenon
  <2>3. \A i \in DOMAIN Datagram!Without(q, n) : \E h \in DOMAIN q : Datagram!Without(q, n)[i] = q[h]
    <3> TAKE i \in DOMAIN Datagram!Without(q, n)
    <3>1. n \in Nat /\ i \in Nat
      BY <2>2, Zenon
    <3>2. i < n \/ i >= n
      BY <3>1
    <3> QED
      BY <2>2, <3>2, Zenon
  <2> QED
    BY <2>2, <2>3, <2>4, Zenon
<1>11. Datagram!TypeOK'
  <2>1. dcpc' \in [DgClients -> {"start", "send", "recv", "done", "failed", "killed"}] /\ dj' \in [DgClients -> Nat]
    <3>1. dcpc \in [DgClients -> {"start", "send", "recv", "done", "failed", "killed"}] /\ dj \in [DgClients -> Nat]
      BY <1>0, Zenon DEF Datagram!TypeOK
    <3> QED
      BY <1>1, <3>1
  <2>2. clq' \in [DgClients -> Seq(Datagram!Texts)]
    BY <1>0, <1>2, <1>3, <1>10, Zenon DEF Datagram!TypeOK
  <2>3. dgot' \in [DgClients -> Seq(Datagram!Texts)]
    BY <1>0, <1>2, <1>3, <1>9, Zenon DEF Datagram!TypeOK
  <2>4. \A d \in DgClients : dj'[d] \in 1..(Len(Msgs[d]) + 1) /\ Len(dgot'[d]) = dj'[d] - 1
    <3> TAKE d \in DgClients
    <3>1. CASE d = c
      <4>1. Len(Msgs[c]) \in Nat
        BY DatagramAssumption
      <4>2. dj[c] + 1 \in 1..(Len(Msgs[c]) + 1) /\ dj[c] = (dj[c] + 1) - 1
        BY <1>1, <4>1
      <4> QED
        BY <1>3, <1>9, <3>1, <4>2
    <3>2. CASE d # c
      BY <1>0, <1>3, <3>2, Zenon DEF Datagram!TypeOK
    <3> QED
      BY <3>1, <3>2
  <2> QED
    BY <1>0, <1>1, <2>1, <2>2, <2>3, <2>4, Zenon DEF Datagram!TypeOK, Datagram!Udp
<1>12. \A m : Datagram!Answer(m)' = Datagram!Answer(m)
  BY Zenon DEF Datagram!Answer
<1>13. Datagram!ResponsesMatch'
  <2>1. ASSUME NEW d \in DgClients, d # c, NEW i \in DOMAIN dgot'[d]
        PROVE  IF "duplicated" \in dfaults THEN \E h \in 1..i : dgot'[d][i] = Datagram!Answer(Msgs[d][h])
                                          ELSE dgot'[d][i] = Datagram!Answer(Msgs[d][i])
    <3>1. dgot'[d] = dgot[d] /\ i \in DOMAIN dgot[d]
      BY <1>3, <2>1
    <3>2. IF "duplicated" \in dfaults THEN \E h \in 1..i : dgot[d][i] = Datagram!Answer(Msgs[d][h])
                                      ELSE dgot[d][i] = Datagram!Answer(Msgs[d][i])
      BY <1>0, <3>1, ZenonT(30) DEF Datagram!ResponsesMatch
    <3> QED
      BY <3>1, <3>2, ZenonT(30)
  <2>2. ASSUME NEW i \in DOMAIN dgot'[c]
        PROVE  IF "duplicated" \in dfaults THEN \E h \in 1..i : dgot'[c][i] = Datagram!Answer(Msgs[c][h])
                                          ELSE dgot'[c][i] = Datagram!Answer(Msgs[c][i])
    <3>1. CASE i \in DOMAIN g /\ dgot'[c][i] = g[i]
      BY <1>0, <1>4, <3>1, Zenon DEF Datagram!ResponsesMatch
    <3>2. CASE i = dj[c] /\ dgot'[c][i] = a
      BY <1>7, <1>8, <3>2
    <3> QED
      BY <1>9, <3>1, <3>2
  <2> QED
    BY <1>1, <1>12, <2>1, <2>2 DEF Datagram!ResponsesMatch
<1>14. Datagram!ServerStays'
  BY <1>0, <1>1, Zenon DEF Datagram!ServerStays, Datagram!MayEnd
<1>15. \A d : Datagram!Serving(d)' = Datagram!Serving(d) /\ Datagram!Queued(d)' = Datagram!Queued(d)
  BY <1>1 DEF Datagram!Serving, Datagram!Queued
<1>17. ASSUME NEW d \in DgClients, d # c PROVE Datagram!Flight(d)' /\ Datagram!Once(d)' /\ Datagram!Unix(d)'
  <2>1. Datagram!Flight(d) /\ Datagram!Once(d) /\ Datagram!Unix(d) /\ Datagram!TypeOK
    BY <1>0, ZenonT(30)
  <2>2. /\ dcpc'[d] = dcpc[d] /\ dj'[d] = dj[d] /\ app' = app /\ clq'[d] = clq[d] /\ dreq' = dreq /\ svq' = svq
        /\ dfaults \subseteq dfaults' /\ ("duplicated" \in dfaults' => "duplicated" \in dfaults)
        /\ d \in names => d \in names'
    BY <1>0, <1>1, <1>3, <1>17 DEF Datagram!TypeOK
  <2> QED
    BY <1>15, <2>1, <2>2, DatagramSame, Zenon
<1>18. "duplicated" \notin dfaults => ~Datagram!Queued(c) /\ ~Datagram!Serving(c) /\ Len(clq'[c]) = 0
  <2>0. n \in DOMAIN clq[c]
    OBVIOUS
  <2>1. q # << >> /\ Len(q) # 0
    BY <1>4, <2>0, InhabitedFacts, ZenonT(30)
  <2>2. "duplicated" \notin dfaults => ~Datagram!Queued(c) /\ ~Datagram!Serving(c) /\ Len(q) <= 1
    BY <1>4, <1>5, <2>1 DEF Datagram!Once
  <2>4. PICK l \in Nat : l = Len(q) /\ Len(clq'[c]) = l - 1
    BY <1>10, Zenon
  <2>5. l <= 1 /\ l # 0 => l - 1 = 0
    OBVIOUS
  <2> QED
    BY <2>1, <2>2, <2>4, <2>5, Zenon
<1>19. "duplicated" \in dfaults => Datagram!Candidates(c)' = Datagram!Candidates(c)
  <2>1. dfaults' = dfaults /\ dcpc[c] = "recv" /\ dcpc'[c] = "send" /\ dj'[c] - 1 = dj[c]
    BY <1>1, <1>3
  <2> QED
    BY <2>1, Zenon DEF Datagram!Candidates
<1>20. Datagram!Flight(c)' /\ Datagram!Once(c)'
  <2>1. CASE "duplicated" \in dfaults
    <3>1. \A i \in DOMAIN clq'[c] : \E h \in Datagram!Candidates(c) : clq'[c][i] = Datagram!Answer(Msgs[c][h])
      BY <1>4, <1>5, <1>10 DEF Datagram!Flight
    <3>2. Datagram!Flight(c)'
      BY <1>1, <1>5, <1>12, <1>15, <1>19, <2>1, <3>1, ZenonT(30) DEF Datagram!Flight
    <3>3. Datagram!Once(c)'
      BY <1>1, <2>1 DEF Datagram!Once
    <3> QED
      BY <3>2, <3>3, ZenonT(30)
  <2>2. CASE "duplicated" \notin dfaults
    <3>1. clq'[c] = << >> /\ DOMAIN clq'[c] = {} /\ Len(clq'[c]) <= 1
      <4>1. PICK r \in Seq(Datagram!Texts) : r = clq'[c] /\ Len(r) = 0
        BY <1>10, <1>18, <2>2, Zenon
      <4>2. r = << >> /\ DOMAIN r = {} /\ Len(r) <= 1
        BY <4>1
      <4> QED
        BY <4>1, <4>2, Zenon
    <3>2. \A i \in DOMAIN svq' : svq'[i].from # c
      BY <1>1, <1>18, <2>2, Zenon DEF Datagram!Queued
    <3>3. Datagram!Flight(c)'
      BY <1>15, <1>18, <2>2, <3>1, <3>2, Zenon DEF Datagram!Flight
    <3>4. Datagram!Once(c)'
      BY <1>15, <1>18, <2>2, <3>1, <3>2, Zenon DEF Datagram!Once
    <3> QED
      BY <3>3, <3>4
  <2> QED
    BY <2>1, <2>2
<1>21. Datagram!Unix(c)'
  BY <1>0, <1>1, <1>3, <1>5, <1>15, <1>18, Zenon DEF Datagram!Unix
<1> QED
  BY <1>0, <1>1, <1>3, <1>11, <1>13, <1>14, <1>17, <1>20, <1>21, Zenon DEF Datagram!Inv

(* A client is killed. *)
LEMMA DatagramKill ==
    ASSUME Datagram!Inv, NEW c \in DgClients, Datagram!Kill(c)
    PROVE  Datagram!Inv'
<1>0. /\ Datagram!TypeOK /\ Datagram!ResponsesMatch /\ Datagram!ServerStays
      /\ app = "ud_ucase" => "duplicated" \notin dfaults
      /\ \A d \in DgClients : Datagram!Flight(d) /\ Datagram!Once(d) /\ Datagram!Unix(d) /\ (dcpc[d] = "recv" => dj[d] <= Len(Msgs[d]))
  BY DEF Datagram!Inv
<1>1. /\ dfaults' = dfaults \cup {"killed"} /\ dcpc' = [dcpc EXCEPT ![c] = "killed"] /\ clq' = [clq EXCEPT ![c] = << >>]
      /\ UNCHANGED <<app, dspc, dreq, names, dj, dgot, refused, svq>>
  BY Zenon DEF Datagram!Kill, Datagram!Happens, Datagram!Goes
<1>2. /\ dcpc'[c] = "killed" /\ ("duplicated" \in dfaults' => "duplicated" \in dfaults) /\ "killed" \in dfaults'
      /\ \A d \in DgClients : d # c => dcpc'[d] = dcpc[d] /\ clq'[d] = clq[d]
  BY <1>0, <1>1, Zenon DEF Datagram!TypeOK
<1>3. Datagram!TypeOK'
  <2>1. dcpc' \in [DgClients -> {"start", "send", "recv", "done", "failed", "killed"}] /\ clq' \in [DgClients -> Seq(Datagram!Texts)]
    BY <1>0, <1>1, SMTT(30) DEF Datagram!TypeOK
  <2> QED
    BY <1>0, <1>1, <2>1, Zenon DEF Datagram!TypeOK, Datagram!Udp
<1>4. \A k : Datagram!Answer(k)' = Datagram!Answer(k)
  BY <1>1 DEF Datagram!Answer
<1>5. Datagram!ResponsesMatch' /\ Datagram!ServerStays'
  BY <1>0, <1>1, <1>2, <1>4 DEF Datagram!ResponsesMatch, Datagram!ServerStays, Datagram!MayEnd
<1>7. \A d : Datagram!Serving(d)' = Datagram!Serving(d)
  BY <1>1 DEF Datagram!Serving
<1>8. ASSUME NEW d \in DgClients, d # c PROVE Datagram!Flight(d)' /\ Datagram!Once(d)' /\ Datagram!Unix(d)'
  <2>1. Datagram!Flight(d) /\ Datagram!Once(d) /\ Datagram!Unix(d) /\ Datagram!TypeOK
    BY <1>0, Zenon
  <2>2. /\ dcpc'[d] = dcpc[d] /\ dj'[d] = dj[d] /\ app' = app /\ clq'[d] = clq[d] /\ dreq' = dreq /\ svq' = svq
        /\ dfaults \subseteq dfaults' /\ ("duplicated" \in dfaults' => "duplicated" \in dfaults)
        /\ d \in names => d \in names'
    BY <1>1, <1>2, <1>8
  <2> QED
    BY <1>7, <2>1, <2>2, DatagramSame, Zenon
<1>9. Datagram!Flight(c)' /\ Datagram!Once(c)' /\ Datagram!Unix(c)'
  <2>1. ~Datagram!Active(c)'
    BY <1>2, Zenon DEF Datagram!Active
  <2>2. Datagram!Unix(c)'
    BY <1>2 DEF Datagram!Unix
  <2> QED
    BY <2>1, <2>2, Zenon DEF Datagram!Flight, Datagram!Once
<1> QED
  BY <1>0, <1>1, <1>2, <1>3, <1>5, <1>8, <1>9, Zenon DEF Datagram!Inv

(* A UDP datagram is lost. *)
LEMMA DatagramLose ==
    ASSUME Datagram!Inv, Datagram!Lose
    PROVE  Datagram!Inv'
<1>0. /\ Datagram!TypeOK /\ Datagram!ResponsesMatch /\ Datagram!ServerStays
      /\ app = "ud_ucase" => "duplicated" \notin dfaults
      /\ \A d \in DgClients : Datagram!Flight(d) /\ Datagram!Once(d) /\ Datagram!Unix(d) /\ (dcpc[d] = "recv" => dj[d] <= Len(Msgs[d]))
  BY DEF Datagram!Inv
<1>1. /\ app # "ud_ucase" /\ dfaults' = dfaults \cup {"lost"} /\ UNCHANGED <<app, dspc, dreq, names, dj, dgot, refused, dcpc>>
      /\ \/ \E n \in DOMAIN svq : svq' = Datagram!Without(svq, n) /\ UNCHANGED clq
         \/ \E c \in DgClients : clq[c] # << >> /\ clq' = [clq EXCEPT ![c] = Tail(@)] /\ UNCHANGED svq
  BY DEF Datagram!Lose, Datagram!Happens, Datagram!Udp
<1>2. "duplicated" \in dfaults' => "duplicated" \in dfaults
  BY <1>1
<1>3. PICK R : R = [from : DgClients, data : Datagram!Texts] /\ svq \in Seq(R) /\ clq \in [DgClients -> Seq(Datagram!Texts)]
  BY <1>0, Zenon DEF Datagram!TypeOK
<1>4. /\ svq' \in Seq(R)
      /\ \E f : /\ \A n \in DOMAIN svq' : f[n] \in DOMAIN svq /\ svq[f[n]] = svq'[n]
               /\ \A n, m \in DOMAIN svq' : f[n] = f[m] => n = m
  <2>1. CASE svq' = svq
    <3>1. PICK f : f = [n \in DOMAIN svq |-> n]
      BY Zenon
    <3>2. /\ \A n \in DOMAIN svq' : f[n] \in DOMAIN svq /\ svq[f[n]] = svq'[n]
          /\ \A n, m \in DOMAIN svq' : f[n] = f[m] => n = m
      BY <2>1, <3>1
    <3>3. svq' \in Seq(R)
      BY <1>3, <2>1, Zenon
    <3> QED
      BY <3>2, <3>3, Zenon
  <2>2. ASSUME NEW n \in DOMAIN svq, svq' = Datagram!Without(svq, n)
        PROVE  /\ svq' \in Seq(R)
               /\ \E f : /\ \A k \in DOMAIN svq' : f[k] \in DOMAIN svq /\ svq[f[k]] = svq'[k]
                        /\ \A k, m \in DOMAIN svq' : f[k] = f[m] => k = m
    <3>1. svq \in Seq(R)
      BY <1>3, Zenon
    <3>2. /\ svq' \in Seq(R) /\ n \in Nat
          /\ \A k \in DOMAIN svq' :
                /\ k \in Nat /\ (k < n => k \in DOMAIN svq /\ svq'[k] = svq[k])
                /\ k >= n => k + 1 \in DOMAIN svq /\ svq'[k] = svq[k + 1]
      BY <2>2, <3>1, RemoveFacts, Zenon
    <3>3. PICK f : f = [k \in DOMAIN svq' |-> IF k < n THEN k ELSE k + 1]
      BY Zenon
    <3>4. /\ \A k \in DOMAIN svq' : f[k] \in DOMAIN svq /\ svq[f[k]] = svq'[k]
          /\ \A k, m \in DOMAIN svq' : f[k] = f[m] => k = m
      BY <3>2, <3>3, SMTT(30)
    <3> QED
      BY <3>2, <3>4, Zenon
  <2> QED
    BY <1>1, <2>1, <2>2
<1>5. /\ clq' \in [DgClients -> Seq(Datagram!Texts)]
      /\ \A d \in DgClients : clq'[d] = clq[d] \/ (clq[d] # << >> /\ clq'[d] = Tail(clq[d]))
  <2>1. CASE clq' = clq
    BY <1>3, <2>1
  <2>2. ASSUME NEW c \in DgClients, clq[c] # << >>, clq' = [clq EXCEPT ![c] = Tail(@)]
        PROVE  /\ clq' \in [DgClients -> Seq(Datagram!Texts)]
               /\ \A d \in DgClients : clq'[d] = clq[d] \/ (clq[d] # << >> /\ clq'[d] = Tail(clq[d]))
    <3>1. Tail(clq[c]) \in Seq(Datagram!Texts)
      BY <1>3, <2>2
    <3> QED
      BY <1>3, <2>2, <3>1
  <2> QED
    BY <1>1, <2>1, <2>2
<1>6. Datagram!TypeOK'
  <2>1. svq' \in Seq([from : DgClients, data : Datagram!Texts])
    BY <1>3, <1>4, Zenon
  <2> QED
    BY <1>0, <1>1, <1>5, <2>1, Zenon DEF Datagram!TypeOK, Datagram!Udp
<1>7. \A k : Datagram!Answer(k)' = Datagram!Answer(k)
  BY <1>1 DEF Datagram!Answer
<1>8. Datagram!ResponsesMatch' /\ Datagram!ServerStays'
  BY <1>0, <1>1, <1>2, <1>7, Zenon DEF Datagram!ResponsesMatch, Datagram!ServerStays, Datagram!MayEnd
<1>9. \A d : Datagram!Serving(d)' = Datagram!Serving(d)
  BY <1>1 DEF Datagram!Serving
<1>10. PICK f : /\ \A n \in DOMAIN svq' : f[n] \in DOMAIN svq /\ svq[f[n]] = svq'[n]
                /\ \A n, m \in DOMAIN svq' : f[n] = f[m] => n = m
  BY <1>4, ZenonT(30)
<1>11. ASSUME NEW d \in DgClients PROVE Datagram!Flight(d)' /\ Datagram!Once(d)' /\ Datagram!Unix(d)'
  BY <1>0, <1>1, <1>2, <1>5, <1>9, <1>10, DatagramOther, SMTT(30)
<1> QED
  BY <1>0, <1>1, <1>2, <1>6, <1>8, <1>11, ZenonT(30) DEF Datagram!Inv

(* A UDP datagram is duplicated. *)
LEMMA DatagramDuplicate ==
    ASSUME Datagram!Inv, Datagram!Duplicate
    PROVE  Datagram!Inv'
<1>0. /\ Datagram!TypeOK /\ Datagram!ResponsesMatch /\ Datagram!ServerStays
      /\ \A d \in DgClients : Datagram!Flight(d) /\ (dcpc[d] = "recv" => dj[d] <= Len(Msgs[d]))
  BY DEF Datagram!Inv
<1>1. /\ app # "ud_ucase" /\ "duplicated" \notin dfaults /\ dfaults' = dfaults \cup {"duplicated"}
      /\ UNCHANGED <<app, dspc, dreq, names, dj, dgot, refused, dcpc>>
      /\ \/ \E n \in DOMAIN svq : svq' = Append(svq, svq[n]) /\ UNCHANGED clq
         \/ \E c \in DgClients : clq[c] # << >> /\ clq' = [clq EXCEPT ![c] = Append(@, Head(@))] /\ UNCHANGED svq
  BY DEF Datagram!Duplicate, Datagram!Happens, Datagram!Udp
<1>2. PICK R : R = [from : DgClients, data : Datagram!Texts] /\ svq \in Seq(R) /\ clq \in [DgClients -> Seq(Datagram!Texts)]
  BY <1>0, Zenon DEF Datagram!TypeOK
<1>3. svq' \in Seq(R) /\ \A n \in DOMAIN svq' : \E k \in DOMAIN svq : svq'[n] = svq[k]
  <2>1. CASE svq' = svq
    BY <1>2, <2>1, Zenon
  <2>2. ASSUME NEW n \in DOMAIN svq, svq' = Append(svq, svq[n])
        PROVE  svq' \in Seq(R) /\ \A k \in DOMAIN svq' : \E i \in DOMAIN svq : svq'[k] = svq[i]
    <3>1. svq \in Seq(R) /\ svq[n] \in R
      BY <1>2, <2>2, Member, Zenon
    <3>2. PICK e \in R : e = svq[n]
      BY <3>1
    <3>3. svq' = Append(svq, e)
      BY <2>2, <3>2
    <3>4. svq' \in Seq(R) /\ \A k \in DOMAIN svq' : (k \in DOMAIN svq /\ svq'[k] = svq[k]) \/ svq'[k] = e
      BY <3>1, <3>3, AppendFacts, Zenon
    <3> QED
      BY <3>2, <3>4, Zenon
  <2> QED
    BY <1>1, <2>1, <2>2
<1>4. /\ clq' \in [DgClients -> Seq(Datagram!Texts)]
      /\ \A d \in DgClients : \A n \in DOMAIN clq'[d] : \E k \in DOMAIN clq[d] : clq'[d][n] = clq[d][k]
  <2>1. CASE clq' = clq
    BY <1>2, <2>1, Zenon
  <2>2. ASSUME NEW c \in DgClients, clq[c] # << >>, clq' = [clq EXCEPT ![c] = Append(@, Head(@))]
        PROVE  /\ clq' \in [DgClients -> Seq(Datagram!Texts)]
               /\ \A d \in DgClients : \A n \in DOMAIN clq'[d] : \E k \in DOMAIN clq[d] : clq'[d][n] = clq[d][k]
    <3>1. PICK q : q = clq[c] /\ q \in Seq(Datagram!Texts) /\ q # << >>
      BY <1>2, <2>2
    <3>2. q \in Seq(Datagram!Texts) /\ q # << >>
      BY <3>1
    <3>3. Head(q) \in Datagram!Texts /\ Head(q) = q[1] /\ 1 \in DOMAIN q
      BY <3>2, TailFacts, Zenon
    <3>4. PICK e \in Datagram!Texts : e = Head(q) /\ e = q[1]
      BY <3>3
    <3>5. PICK r : r = Append(q, e)
      BY ZenonT(30)
    <3>6. r \in Seq(Datagram!Texts) /\ \A k \in DOMAIN r : (k \in DOMAIN q /\ r[k] = q[k]) \/ r[k] = e
      BY <3>2, <3>5, AppendFacts
    <3>7. \A k \in DOMAIN r : \E i \in DOMAIN q : r[k] = q[i]
      BY <3>3, <3>4, <3>6, Zenon
    <3>8. clq'[c] = r /\ \A d \in DgClients : d # c => clq'[d] = clq[d]
      BY <1>2, <2>2, <3>1, <3>4, <3>5, SMTT(30)
    <3>9. clq' \in [DgClients -> Seq(Datagram!Texts)]
      BY <1>2, <2>2, <3>1, <3>4, <3>5, <3>6, SMTT(30)
    <3>10. ASSUME NEW d \in DgClients PROVE \A n \in DOMAIN clq'[d] : \E k \in DOMAIN clq[d] : clq'[d][n] = clq[d][k]
      <4>1. CASE d = c
        BY <3>1, <3>7, <3>8, <4>1, Zenon
      <4>2. CASE d # c
        BY <3>8, <4>2, Zenon
      <4> QED
        BY <4>1, <4>2
    <3> QED
      BY <3>9, <3>10, Zenon
  <2> QED
    BY <1>1, <2>1, <2>2
<1>5. Datagram!TypeOK'
  <2>1. svq' \in Seq([from : DgClients, data : Datagram!Texts])
    BY <1>2, <1>3, Zenon
  <2> QED
    BY <1>0, <1>1, <1>4, <2>1, Zenon DEF Datagram!TypeOK, Datagram!Udp
<1>6. \A k : Datagram!Answer(k)' = Datagram!Answer(k)
  BY <1>1, Zenon DEF Datagram!Answer
<1>7. Datagram!ResponsesMatch'
  <2>1. ASSUME NEW c \in DgClients, NEW n \in DOMAIN dgot[c]
        PROVE  \E k \in 1..n : dgot[c][n] = Datagram!Answer(Msgs[c][k])
    <3>1. dgot[c] \in Seq(Datagram!Texts)
      BY <1>0, Zenon DEF Datagram!TypeOK
    <3>2. n \in 1..n
      BY <2>1, <3>1, SMTT(30)
    <3> QED
      BY <1>0, <1>1, <2>1, <3>2 DEF Datagram!ResponsesMatch
  <2> QED
    BY <1>1, <1>6, <2>1, Zenon DEF Datagram!ResponsesMatch
<1>8. Datagram!ServerStays'
  BY <1>0, <1>1 DEF Datagram!ServerStays, Datagram!MayEnd
<1>9. ASSUME NEW d \in DgClients PROVE Datagram!Flight(d)' /\ Datagram!Once(d)' /\ Datagram!Unix(d)'
  <2>1. Datagram!Active(d)' = Datagram!Active(d) /\ Datagram!Serving(d)' = Datagram!Serving(d) /\ Datagram!Flight(d)
    BY <1>0, <1>1, Zenon DEF Datagram!Active, Datagram!Serving
  <2>2. Datagram!Candidates(d) \subseteq Datagram!Candidates(d)'
    <3>1. dj[d] \in Nat /\ dj[d] >= 1 /\ dj'[d] = dj[d] /\ dcpc'[d] = dcpc[d]
      BY <1>0, <1>1, SMTT(30) DEF Datagram!TypeOK
    <3> QED
      BY <1>1, <3>1, SMTT(30) DEF Datagram!Candidates
  <2>3. Datagram!Active(d) => \A n \in DOMAIN svq' : svq'[n].from = d => \E k \in Datagram!Candidates(d)' : svq'[n].data = Msgs[d][k]
    BY <1>3, <2>1, <2>2, SMTT(30) DEF Datagram!Flight
  <2>4. Datagram!Active(d) => \A n \in DOMAIN clq'[d] : \E k \in Datagram!Candidates(d)' : clq'[d][n] = Datagram!Answer(Msgs[d][k])
    BY <1>4, <2>1, <2>2 DEF Datagram!Flight
  <2>5. Datagram!Active(d) /\ Datagram!Serving(d) => \E k \in Datagram!Candidates(d)' : dreq.data = Datagram!Answer(Msgs[d][k])
    BY <2>1, <2>2, Zenon DEF Datagram!Flight
  <2>6. Datagram!Flight(d)'
    BY <1>1, <1>6, <2>1, <2>3, <2>4, <2>5, Zenon DEF Datagram!Flight
  <2>7. Datagram!Once(d)' /\ Datagram!Unix(d)'
    BY <1>1, Zenon DEF Datagram!Once, Datagram!Unix
  <2> QED
    BY <2>6, <2>7, Zenon
<1> QED
  BY <1>0, <1>1, <1>5, <1>7, <1>8, <1>9, Zenon DEF Datagram!Inv

(* A failing recvfrom() ends any server. *)
LEMMA DatagramRecvfromFails ==
    ASSUME Datagram!Inv, Datagram!RecvfromFails, UNCHANGED <<app, names, dcpc, dj, dgot, refused>>
    PROVE  Datagram!Inv'
<1>1. dspc' = "dead" /\ dfaults' = dfaults \cup {"recvfrom"} /\ UNCHANGED <<dreq, svq, clq>>
  BY DEF Datagram!RecvfromFails
<1>2. dfaults \subseteq dfaults' /\ "recvfrom" \in dfaults' /\ ("duplicated" \in dfaults' => "duplicated" \in dfaults)
  BY <1>1
<1>3. Datagram!MayEnd'
  BY <1>2 DEF Datagram!MayEnd
<1> QED
  BY <1>1, <1>2, <1>3, DatagramIdle

(* A failing sendto() ends the servers but id_echo_sv. *)
LEMMA DatagramSendtoFails ==
    ASSUME Datagram!Inv, Datagram!SendtoFails, UNCHANGED <<app, names, dcpc, dj, dgot, refused>>,
           dspc' = "recv" \/ (dspc' = "dead" /\ app # "id_echo")
    PROVE  Datagram!Inv'
<1>1. dfaults' = dfaults \cup {"sendto"} /\ UNCHANGED <<dreq, svq, clq>>
  BY DEF Datagram!SendtoFails
<1>2. dfaults \subseteq dfaults' /\ "sendto" \in dfaults' /\ ("duplicated" \in dfaults' => "duplicated" \in dfaults)
  BY <1>1
<1>3. dspc' = "dead" => Datagram!MayEnd'
  BY <1>2 DEF Datagram!MayEnd
<1> QED
  BY <1>1, <1>2, <1>3, DatagramIdle

(* Every step of the servers and of the clients, and every fault. *)
LEMMA DatagramStep ==
    ASSUME Datagram!Inv, [Datagram!Next]_(Datagram!vars)
    PROVE  Datagram!Inv'
<1>1. CASE Datagram!ud_ucase_sv
  <2> USE <1>1 DEF Datagram!ud_ucase_sv
  <2>1. CASE Datagram!Bind
    BY <2>1, DatagramIdle DEF Datagram!Bind
  <2>2. CASE Datagram!Receive
    BY <2>2, DatagramReceive
  <2>3. CASE Datagram!Reply /\ dspc' = IF Datagram!Live(dreq.from) /\ dreq.from \in names THEN "recv" ELSE "dead"
    BY <2>3, DatagramReply, Zenon
  <2>4. CASE Datagram!SendtoFails /\ dspc' = "dead"
    BY <2>4, DatagramSendtoFails
  <2>5. CASE Datagram!RecvfromFails
    BY <2>5, DatagramRecvfromFails
  <2> QED
    BY <2>1, <2>2, <2>3, <2>4, <2>5, SMTT(30)
<1>2. CASE Datagram!i6d_ucase_sv
  <2> USE <1>2 DEF Datagram!i6d_ucase_sv
  <2>1. CASE Datagram!Bind
    BY <2>1, DatagramIdle DEF Datagram!Bind
  <2>2. CASE Datagram!Receive
    BY <2>2, DatagramReceive
  <2>3. CASE Datagram!Reply /\ dspc' = "recv"
    BY <2>3, DatagramReply, SMTT(30)
  <2>4. CASE Datagram!SendtoFails /\ dspc' = "dead"
    BY <2>4, DatagramSendtoFails
  <2>5. CASE Datagram!RecvfromFails
    BY <2>5, DatagramRecvfromFails
  <2> QED
    BY <2>1, <2>2, <2>3, <2>4, <2>5, SMTT(30)
<1>3. CASE Datagram!id_echo_sv
  <2> USE <1>3 DEF Datagram!id_echo_sv
  <2>1. CASE Datagram!Bind
    BY <2>1, DatagramIdle DEF Datagram!Bind
  <2>2. CASE Datagram!Receive
    BY <2>2, DatagramReceive
  <2>3. CASE Datagram!Reply /\ dspc' = "recv"
    BY <2>3, DatagramReply, SMTT(30)
  <2>4. CASE Datagram!SendtoFails /\ dspc' = "recv"
    BY <2>4, DatagramSendtoFails
  <2>5. CASE Datagram!RecvfromFails
    BY <2>5, DatagramRecvfromFails
  <2> QED
    BY <2>1, <2>2, <2>3, <2>4, <2>5, SMTT(30)
<1>4. ASSUME NEW c \in DgClients, Datagram!ud_ucase_cl(c) PROVE Datagram!Inv'
  <2> USE <1>4 DEF Datagram!ud_ucase_cl
  <2>1. CASE dcpc[c] = "start" /\ Datagram!Leaves(c, "send", names \cup {c})
    BY <2>1, DatagramLeaves
  <2>2. CASE Datagram!Another(c) /\ svq' = Append(svq, Datagram!Datagram(c)) /\ Len(svq) < SV_QLEN /\ Datagram!Goes(c, "recv")
             /\ UNCHANGED <<clq, names, dj, dgot, refused, dfaults>>
    BY <2>2, DatagramSend, Zenon DEF Datagram!Inv, Datagram!TypeOK
  <2>3. CASE Datagram!Another(c) /\ Datagram!Leaves(c, "failed", names)
    BY <2>3, DatagramLeaves, Zenon DEF Datagram!Another
  <2>4. CASE Datagram!Response(c)
    BY <2>4, DatagramResponse, Zenon
  <2>5. CASE dcpc[c] = "send" /\ Datagram!Leaves(c, "done", names \ {c})
    BY <2>5, DatagramLeaves, Zenon
  <2> QED
    BY <2>1, <2>2, <2>3, <2>4, <2>5, Zenon
<1>5. ASSUME NEW c \in DgClients, Datagram!i6d_ucase_cl(c) PROVE Datagram!Inv'
  <2> USE <1>5 DEF Datagram!i6d_ucase_cl
  <2>1. CASE dcpc[c] = "start" /\ Datagram!Leaves(c, "send", names)
    BY <2>1, DatagramLeaves DEF Datagram!Udp
  <2>2. CASE /\ Datagram!Another(c) /\ Datagram!Goes(c, "recv")
             /\ svq' = IF Datagram!Bound THEN Append(svq, Datagram!Datagram(c)) ELSE svq
             /\ dfaults' = IF Datagram!Bound THEN dfaults ELSE dfaults \cup {"lost"}
             /\ UNCHANGED <<clq, names, dj, dgot, refused>>
    BY <2>2, DatagramSend, Zenon DEF Datagram!Inv, Datagram!TypeOK, Datagram!Udp
  <2>3. CASE Datagram!Response(c)
    BY <2>3, DatagramResponse, Zenon
  <2>4. CASE dcpc[c] = "send" /\ Datagram!Leaves(c, "done", names)
    BY <2>4, DatagramLeaves, Zenon
  <2> QED
    BY <2>1, <2>2, <2>3, <2>4, Zenon
<1>6. ASSUME NEW c \in DgClients, Datagram!id_echo_cl(c) PROVE Datagram!Inv'
  <2> USE <1>6 DEF Datagram!id_echo_cl
  <2>1. CASE dcpc[c] = "start" /\ Datagram!Leaves(c, "send", names)
    BY <2>1, DatagramLeaves DEF Datagram!Udp
  <2>2. CASE /\ Datagram!Another(c) /\ Datagram!Goes(c, "recv")
             /\ svq' = IF Datagram!Bound THEN Append(svq, Datagram!Datagram(c)) ELSE svq
             /\ refused' = IF Datagram!Bound THEN refused ELSE refused \cup {c}
             /\ UNCHANGED <<clq, names, dj, dgot, dfaults>>
    BY <2>2, DatagramSend, Zenon DEF Datagram!Inv, Datagram!TypeOK, Datagram!Udp
  <2>3. CASE Datagram!Response(c)
    BY <2>3, DatagramResponse, Zenon
  <2>4. CASE dcpc[c] \in {"send", "recv"} /\ \E label \in {"done", "failed"} : Datagram!Leaves(c, label, names)
    BY <2>4, DatagramLeaves DEF Datagram!Udp
  <2> QED
    BY <2>1, <2>2, <2>3, <2>4, Zenon
<1>7. CASE UNCHANGED Datagram!vars
  <2>1. Datagram!TypeOK' /\ Datagram!ServerStays'
    BY <1>7 DEF Datagram!vars, Datagram!Inv, Datagram!TypeOK, Datagram!ServerStays, Datagram!MayEnd, Datagram!Udp
  <2>2. \A k : Datagram!Answer(k)' = Datagram!Answer(k)
    BY <1>7 DEF Datagram!vars, Datagram!Answer
  <2>3. Datagram!ResponsesMatch'
    BY <1>7, <2>2, Zenon DEF Datagram!vars, Datagram!Inv, Datagram!ResponsesMatch
  <2>4. ASSUME NEW d \in DgClients PROVE Datagram!Flight(d)' /\ Datagram!Once(d)' /\ Datagram!Unix(d)'
    <3>1. Datagram!Flight(d) /\ Datagram!Once(d) /\ Datagram!Unix(d)
      BY Zenon DEF Datagram!Inv
    <3>2. /\ Datagram!Active(d)' = Datagram!Active(d) /\ Datagram!Queued(d)' = Datagram!Queued(d)
          /\ Datagram!Serving(d)' = Datagram!Serving(d) /\ Datagram!Candidates(d)' = Datagram!Candidates(d)
      BY <1>7, Zenon DEF Datagram!vars, Datagram!Active, Datagram!Queued, Datagram!Serving, Datagram!Candidates
    <3>3. Datagram!Flight(d)'
      BY <1>7, <2>2, <3>1, <3>2, Zenon DEF Datagram!vars, Datagram!Flight
    <3>4. Datagram!Once(d)'
      BY <1>7, <3>1, <3>2, Zenon DEF Datagram!vars, Datagram!Once
    <3>5. Datagram!Unix(d)'
      BY <1>7, <3>1, <3>2, Zenon DEF Datagram!vars, Datagram!Unix
    <3> QED
      BY <3>3, <3>4, <3>5, Zenon
  <2> QED
    BY <1>7, <2>1, <2>3, <2>4, Zenon DEF Datagram!vars, Datagram!Inv
<1> QED
  BY <1>1, <1>2, <1>3, <1>4, <1>5, <1>6, <1>7, DatagramLose, DatagramDuplicate, DatagramKill, SMTT(30) DEF Datagram!Next, Datagram!Server, Datagram!Client

(* The responses that a datagram client prints belong to its messages; a server ends only if
   recvfrom() fails, or sendto() unless it is id_echo_sv, or if it is ud_ucase_sv and answers
   a client that is gone: no client ends a UDP server. *)
DatagramsTrue == Datagram!TypeOK /\ Datagram!ResponsesMatch /\ Datagram!ServerStays /\ Datagram!Inv

(* For any clients and messages, any sizes of the buffers and queues, and whatever is lost,
   duplicated, refused or killed: a response that a datagram client prints belongs to a message
   it has sent, and no server ends but by a failing call of its own or, for ud_ucase_sv only, by
   the end of a client. *)
THEOREM DatagramSafety == Datagram!Spec => []DatagramsTrue
<1>1. Datagram!Inv /\ [Datagram!Next]_(Datagram!vars) => Datagram!Inv'
  BY DatagramStep
<1>2. Datagram!Inv => DatagramsTrue
  BY DEF Datagram!Inv, DatagramsTrue
<1> QED
  BY DatagramInit, <1>1, <1>2, PTL DEF Datagram!Spec
=============================================================================
