------------------------------ MODULE Uip_proofs ------------------------------
(***************************************************************************)
(* Proofs about TCP, for every number of hosts, connections, ports and       *)
(* bytes, over a network that loses, repeats and reorders.                    *)
(***************************************************************************)
EXTENDS UipProps, FiniteSetTheorems, SequenceTheorems, WellFoundedInduction, TLAPS

-----------------------------------------------------------------------------
(* What the theorems need of the rest of the world.                          *)

\* Well-known ports are below those that uip_connect gives out.
PortsApart == \A p \in ListenPort : p <= FirstPort /\ p < LowPort

Used(c) == c.st # "CLOSED"

Along(s, h, p, g, q) == s.src = h /\ s.sport = p /\ s.dst = g /\ s.dport = q

\* Nothing is left of what used port p of host h before.
Rested(h, p) ==
  /\ \A s \in net : ~(s.src = h /\ s.sport = p) /\ ~(s.dst = h /\ s.dport = p)
  /\ \A g \in Host, i \in Slot : ~(Used(conns[g][i]) /\ conns[g][i].rip = h /\ conns[g][i].rport = p)

\* TCP's quiet time: a port is not given out again before the segments and
\* the other end of its last connection have gone.  uip_connect looks only at
\* its own connections, so that the code leaves this to the range of ports.
PortsRest ==
  [][\A h \in Client, to \in Host, port \in ListenPort :
        Connect(h, to, port) /\ born' # born => Rested(h, NextPort(h))]_vars

-----------------------------------------------------------------------------
(* Types.                                                                    *)

Port == 0 .. EndPort
Number0 == 0 .. MaxConn

Rst == {"RST", "ACK"}
Syn == {"SYN"}
SynAck == {"SYN", "ACK"}
Bare == {"ACK"}
Fin == {"FIN", "ACK"}
FlagSets == {Rst, Syn, SynAck, Bare, Fin}

Byte == [of : Number0, n : Nat]

SegRec == [src : Host, dst : Host, sport : Port, dport : Port, flags : FlagSets,
           seq : Nat, ack : Nat, id : Number0, data : Seq(Byte)]

ConnRec == [st : State, stopped : BOOLEAN, lport : Port, rport : Port, rip : Host \cup {NoHost},
            snd : Nat, rcv : Nat, len : 0 .. UIP_TCP_MSS, nrtx : 0 .. UIP_MAXRTX,
            id : Number0, peer : Number0, pos : Nat]

\* One port of a connection is one that is listened on, the other is not.
Apart(p, q) == p # 0 /\ q # 0 /\ (p \in ListenPort <=> q \notin ListenPort)

ConnOK(h, c) ==
  /\ c \in ConnRec
  /\ c.pos <= Goal[h]
  /\ c.st = "ESTABLISHED" => c.pos + c.len <= Goal[h]
  /\ IF Used(c) THEN c.id # 0 /\ c.rip \in Host /\ Apart(c.lport, c.rport) ELSE c = Closed

TypeInv ==
  /\ conns \in [Host -> [Slot -> ConnRec]]
  /\ \A h \in Host, i \in Slot : ConnOK(h, conns[h][i]) /\ conns[h][i].id <= born
  /\ listenports \in [Host -> [1 .. UIP_LISTENPORTS -> ListenPort \cup {0}]]
  /\ iss \in [Host -> Nat]
  /\ lastport \in [Host -> Port]
  /\ \A h \in Host, p \in ListenPort : p <= lastport[h]
  /\ net \in SUBSET SegRec /\ IsFiniteSet(net) /\ Cardinality(net) <= MaxNet
  /\ \A s \in net : Apart(s.sport, s.dport)
  /\ born \in 0 .. MaxConn
  /\ from \in [ConnId -> Number0] /\ read \in [ConnId -> Seq(Nat)]
  /\ told \in [ConnId -> Nat] /\ left \in [ConnId -> BOOLEAN]

-----------------------------------------------------------------------------
(* The invariant.  Two ends, port p of host h and port q of host g, which     *)
(* belong to connections k and x; k numbers its bytes from b on, and x from   *)
(* a on.  0 is for no connection.                                             *)

\* The two read each other's streams.
Both(k, x) == x # 0 /\ from[k] = x /\ from[x] = k

\* The other end has read all that has arrived here, or what is under way too.
\* Data in the network is what is under way, or nothing but old data.
Synced(c, h, p, g, q, b, x) ==
  /\ c.snd = b + c.pos
  /\ Len(read[x]) = c.pos \/ Len(read[x]) = c.pos + c.len
  /\ \A s \in net : Along(s, h, p, g, q) /\ s.data # <<>> =>
        (s.seq = c.snd /\ Len(s.data) = c.len) \/ s.seq + Len(s.data) <= c.snd

SynSentOK(c, k, b, x) ==
  /\ c.snd + 1 = b /\ c.len = 1 /\ c.pos = 0 /\ c.peer = 0
  /\ from[k] = 0 /\ read[k] = <<>> /\ (x # 0 => read[x] = <<>>)

SynRcvdOK(c, h, p, g, q, k, b, x, a) ==
  /\ c.snd + 1 = b /\ c.len = 1 /\ c.pos = 0 /\ c.peer = x /\ c.rcv = a
  /\ x # 0 /\ from[k] = x /\ read[k] = <<>> /\ read[x] = <<>>
  /\ \A s \in net : Along(s, h, p, g, q) => s.flags = Syn \/ s.flags = SynAck \/ s.flags = Rst

FlowOK(c, h, p, g, q, k, b, x, a) ==
  /\ c.peer = x /\ Both(k, x) /\ c.rcv = a + Len(read[k])
  /\ left[x] \/ Synced(c, h, p, g, q, b, x)

EndOK(c, h, p, g, q, k, b, x, a) ==
  /\ c.id = k
  /\ IF Open(c) THEN ~left[k] /\ told[k] = c.pos ELSE left[k] /\ Both(k, x) /\ c.peer = x
  /\ c.st = "SYN_SENT" => SynSentOK(c, k, b, x)
  /\ c.st = "SYN_RCVD" => SynRcvdOK(c, h, p, g, q, k, b, x, a)
  /\ c.st = "ESTABLISHED" => FlowOK(c, h, p, g, q, k, b, x, a)

\* Nothing is acknowledged that was not read.
AckOK(s, k, a) == left[k] \/ s.ack <= a + Len(read[k])

\* Data has the place in its stream that its number says, and leaves no gap.
DataOK(s, k, b, x) ==
  left[x] \/ s.data = <<>> \/
    /\ b <= s.seq /\ s.seq <= b + Len(read[x])
    /\ \A i \in DOMAIN s.data : s.data[i].of = k /\ b + s.data[i].n = s.seq + i

SegOK(s, k, b, x, a) ==
  /\ s.flags # Bare => s.data = <<>>
  /\ s.flags # Rst => k # 0
  /\ s.flags = Syn \/ s.flags = SynAck => s.id = k /\ s.seq + 1 = b
  /\ s.flags = SynAck => x # 0 /\ from[k] = x
  /\ s.flags = Fin \/ s.flags = Bare => Both(k, x)
  /\ s.flags = SynAck \/ s.flags = Bare => AckOK(s, k, a)
  /\ s.flags = Fin => left[k]
  /\ s.flags = Bare => DataOK(s, k, b, x)

On(c, p, g, q) == Used(c) /\ c.lport = p /\ c.rip = g /\ c.rport = q

Half(h, p, g, q, k, b, x, a) ==
  /\ \A i \in Slot : On(conns[h][i], p, g, q) => EndOK(conns[h][i], h, p, g, q, k, b, x, a)
  /\ \A s \in net : Along(s, h, p, g, q) => SegOK(s, k, b, x, a)
  /\ \A f \in Host, i \in Slot : Used(conns[f][i]) /\ conns[f][i].id = k => f = h /\ On(conns[f][i], p, g, q)
  /\ p \in ListenPort /\ k # 0 => x # 0 /\ from[k] = x
  /\ k # 0 /\ x = 0 => read[k] = <<>>

Pair(h, p, g, q, k, b, x, a) == Half(h, p, g, q, k, b, x, a) /\ Half(g, q, h, p, x, a, k, b)

PairsOK ==
  \A h, g \in Host : \A p, q \in Port : Apart(p, q) =>
    \E k, x \in 0 .. born : \E b, a \in Nat : Pair(h, p, g, q, k, b, x, a)

\* Numbers of connections name them, and nothing is known of those to come.
Unique ==
  /\ \A h, g \in Host : \A i, j \in Slot :
       Used(conns[h][i]) /\ conns[h][i].id = conns[g][j].id => h = g /\ i = j
  /\ \A y \in ConnId : y > born => from[y] = 0 /\ read[y] = <<>> /\ told[y] = 0 /\ ~left[y]

UipInv == TypeInv /\ Unique /\ PairsOK

-----------------------------------------------------------------------------
(* Flags, segments and connections.                                          *)

LEMMA FlagFacts ==
  /\ "RST" \in Rst /\ "ACK" \in Rst
  /\ "RST" \notin Syn /\ "RST" \notin SynAck /\ "RST" \notin Bare /\ "RST" \notin Fin
  /\ "SYN" \in Syn /\ "SYN" \in SynAck /\ "SYN" \notin Rst /\ "SYN" \notin Bare /\ "SYN" \notin Fin
  /\ "ACK" \in SynAck /\ "ACK" \in Bare /\ "ACK" \in Fin /\ "ACK" \notin Syn
  /\ "FIN" \in Fin /\ "FIN" \notin Rst /\ "FIN" \notin Syn /\ "FIN" \notin SynAck /\ "FIN" \notin Bare
BY DEF Rst, Syn, SynAck, Bare, Fin

LEMMA FlagsDiffer ==
  /\ Rst # Syn /\ Rst # SynAck /\ Rst # Bare /\ Rst # Fin /\ Syn # SynAck
  /\ Syn # Bare /\ Syn # Fin /\ SynAck # Bare /\ SynAck # Fin /\ Bare # Fin
BY FlagFacts

LEMMA ConstFacts ==
  /\ UIP_CONNS \in Nat \ {0} /\ UIP_LISTENPORTS \in Nat \ {0} /\ UIP_TCP_MSS \in Nat \ {0}
  /\ MaxConn \in Nat \ {0} /\ MaxNet \in Nat \ {0} /\ UIP_MAXRTX \in Nat /\ UIP_MAXSYNRTX \in Nat
  /\ MaxIss \in Nat /\ FirstPort \in Nat /\ LowPort \in Nat /\ EndPort \in Nat
  /\ ListenPort \subseteq Nat \ {0} /\ FirstPort < EndPort /\ LowPort + UIP_CONNS < EndPort
  /\ Goal \in [Host -> Nat] /\ NoHost \notin Host /\ Client \subseteq Host /\ Server \subseteq Host
BY UipAssumption

LEMMA Limits ==
  0 \in 0 .. UIP_MAXRTX /\ 0 \in 0 .. UIP_TCP_MSS /\ 1 \in 0 .. UIP_TCP_MSS /\ 0 \in Number0 /\ 0 \in Port
BY ConstFacts DEF Number0, Port

LEMMA States ==
  /\ "CLOSED" \in State /\ "SYN_RCVD" \in State /\ "SYN_SENT" \in State /\ "ESTABLISHED" \in State
  /\ "FIN_WAIT_1" \in State /\ "FIN_WAIT_2" \in State /\ "CLOSING" \in State /\ "TIME_WAIT" \in State
  /\ "LAST_ACK" \in State
BY DEF State

\* What tcp_send puts into a segment.
LEMMA SegIs ==
  ASSUME NEW h, NEW c, NEW flags \in FlagSets, NEW data,
         NEW s, s = Seg(h, c, flags, data)
  PROVE  /\ Along(s, h, c.lport, c.rip, c.rport)
         /\ s.flags = flags /\ s.data = data
         /\ flags # Rst => s.seq = c.snd
         /\ flags # Rst /\ flags # Syn => s.ack = c.rcv
         /\ flags = Syn \/ flags = SynAck => s.id = c.id
BY FlagFacts, FlagsDiffer DEF Seg, Along, FlagSets

LEMMA SegType ==
  ASSUME NEW h \in Host, NEW c, NEW flags \in FlagSets, NEW data \in Seq(Byte),
         c.rip \in Host, c.lport \in Port, c.rport \in Port, c.snd \in Nat, c.rcv \in Nat, c.id \in Number0
  PROVE  Seg(h, c, flags, data) \in SegRec
BY ConstFacts DEF Seg, SegRec, Number0

LEMMA ConnFields ==
  ASSUME NEW c \in ConnRec
  PROVE  /\ c.st \in State /\ c.stopped \in BOOLEAN /\ c.lport \in Port /\ c.rport \in Port
         /\ c.rip \in Host \cup {NoHost} /\ c.snd \in Nat /\ c.rcv \in Nat
         /\ c.len \in Nat /\ c.len <= UIP_TCP_MSS /\ c.nrtx \in Nat /\ c.nrtx <= UIP_MAXRTX
         /\ c.id \in Number0 /\ c.id \in Nat /\ c.id <= MaxConn /\ c.peer \in Number0 /\ c.pos \in Nat
BY ConstFacts DEF ConnRec, Number0

LEMMA ClosedIs ==
  /\ Closed \in ConnRec /\ ~Used(Closed) /\ ~Open(Closed)
  /\ Closed.st = "CLOSED" /\ Closed.len = 0 /\ Closed.pos = 0 /\ Closed.id = 0 /\ Closed.peer = 0
  /\ Closed.snd = 0 /\ Closed.rcv = 0
BY ConstFacts DEF Closed, ConnRec, Used, Open, State, Port, Number0

Datum(k, n) == [of |-> k, n |-> n]

LEMMA DatumIs ==
  ASSUME NEW k, NEW n
  PROVE  /\ Datum(k, n).of = k /\ Datum(k, n).n = n
         /\ k \in Number0 /\ n \in Nat => Datum(k, n) \in Byte
BY DEF Datum, Byte

\* The bytes that are under way, or are offered.
LEMMA RestIs ==
  ASSUME NEW h \in Host, NEW c \in ConnRec, c.pos <= Goal[h]
  PROVE  /\ Rest(h, c) \in Seq(Byte) /\ Len(Rest(h, c)) = Goal[h] - c.pos
         /\ \A i \in 1 .. Goal[h] - c.pos : Rest(h, c)[i] = Datum(c.id, c.pos + i)
<1>1. c.pos \in Nat /\ Goal[h] \in Nat /\ c.id \in Number0
  BY ConnFields, ConstFacts
<1>2. Goal[h] - c.pos \in Nat
  BY <1>1
<1>3. \A i \in 1 .. Goal[h] - c.pos : Datum(c.id, c.pos + i) \in Byte
  BY <1>1, <1>2, DatumIs
<1>4. Rest(h, c) = [i \in 1 .. Goal[h] - c.pos |-> Datum(c.id, c.pos + i)]
  BY DEF Rest, Datum
<1> QED
  BY <1>1, <1>2, <1>3, <1>4, IsASeq

Bytes(h, c) == SubSeq(Rest(h, c), 1, c.len)

LEMMA BytesAre ==
  ASSUME NEW h \in Host, NEW c \in ConnRec, c.pos + c.len <= Goal[h]
  PROVE  /\ Bytes(h, c) \in Seq(Byte) /\ Len(Bytes(h, c)) = c.len /\ DOMAIN Bytes(h, c) = 1 .. c.len
         /\ \A i \in 1 .. c.len : Bytes(h, c)[i].of = c.id /\ Bytes(h, c)[i].n = c.pos + i
<1>1. c.pos \in Nat /\ Goal[h] \in Nat /\ c.len \in Nat /\ c.pos <= Goal[h]
  BY ConnFields, ConstFacts
<1>2. /\ Rest(h, c) \in Seq(Byte) /\ Len(Rest(h, c)) = Goal[h] - c.pos
      /\ \A i \in 1 .. Goal[h] - c.pos : Rest(h, c)[i] = Datum(c.id, c.pos + i)
  BY <1>1, RestIs
<1>3. \A i \in 1 .. c.len : i \in 1 .. Len(Rest(h, c))
  BY <1>1, <1>2
<1>4. /\ Bytes(h, c) \in Seq(Byte) /\ Len(Bytes(h, c)) = c.len
      /\ \A i \in 1 .. c.len : Bytes(h, c)[i] = Rest(h, c)[i]
  BY <1>1, <1>2, <1>3, SubSeqProperties DEF Bytes
<1>5. DOMAIN Bytes(h, c) = 1 .. c.len
  BY <1>4, LenProperties
<1>6. \A i \in 1 .. c.len : Bytes(h, c)[i] = Datum(c.id, c.pos + i)
  BY <1>1, <1>2, <1>3, <1>4
<1>7. \A i \in 1 .. c.len : Bytes(h, c)[i].of = c.id /\ Bytes(h, c)[i].n = c.pos + i
  BY <1>6, DatumIs
<1> QED
  BY <1>4, <1>5, <1>7

-----------------------------------------------------------------------------
(* What comes of a call of uip_process.  Each result is of one of four kinds. *)

SameEnd(c, d) == d.lport = c.lport /\ d.rport = c.rport /\ d.rip = c.rip /\ d.id = c.id

Sends(h, c, s) == s \in SegRec /\ Along(s, h, c.lport, c.rip, c.rport)

\* The connection is gone.
Quits(h, c, r) ==
  /\ r.c = Closed /\ IsFiniteSet(r.out)
  /\ \A s \in r.out : Sends(h, c, s) /\ s.flags = Rst /\ s.data = <<>>

\* The application has left.
Leaves(h, c, x, r) ==
  /\ r.c.peer = x /\ ConnOK(h, r.c) /\ Used(r.c) /\ ~Open(r.c) /\ SameEnd(c, r.c) /\ IsFiniteSet(r.out)
  /\ \A s \in r.out : Sends(h, c, s) /\ (s.flags = Bare \/ s.flags = Fin) /\ s.data = <<>>

\* The connection is not open yet.
Opening(h, c, r) ==
  /\ ConnOK(h, r.c) /\ SameEnd(c, r.c) /\ IsFiniteSet(r.out)
  /\ c.st \in {"SYN_SENT", "SYN_RCVD"} /\ r.c.st = c.st /\ r.c.snd = c.snd /\ r.c.rcv = c.rcv
  /\ r.c.len = c.len /\ r.c.pos = c.pos /\ r.c.peer = c.peer
  /\ \A s \in r.out :
       /\ Sends(h, c, s) /\ s.data = <<>>
       /\ \/ s.flags = Rst
          \/ /\ s.flags = IF c.st = "SYN_SENT" THEN Syn ELSE SynAck
             /\ s.seq = c.snd /\ s.id = c.id /\ (s.flags = SynAck => s.ack = c.rcv)

\* The connection is open, and sends what is under way.
Flows(h, c, r) ==
  /\ ConnOK(h, r.c) /\ SameEnd(c, r.c) /\ r.c.st = "ESTABLISHED" /\ IsFiniteSet(r.out)
  /\ \A s \in r.out :
       /\ Sends(h, c, s) /\ s.flags = Bare /\ s.seq = r.c.snd /\ s.ack = r.c.rcv
       /\ s.data = <<>> \/ ( /\ Len(s.data) = r.c.len /\ DOMAIN s.data = 1 .. r.c.len
                             /\ \A i \in DOMAIN s.data : s.data[i].of = c.id /\ s.data[i].n = r.c.pos + i )

\* Nothing is acknowledged, and what is under way stays.
Keeps(c, d) == /\ d.snd = c.snd /\ d.rcv = c.rcv /\ d.pos = c.pos /\ d.peer = c.peer
               /\ c.len = 0 \/ d.len = c.len

LEMMA SendsIs ==
  ASSUME NEW h \in Host, NEW c \in ConnRec, c.rip \in Host, NEW d \in ConnRec, SameEnd(c, d),
         NEW flags \in FlagSets, NEW data \in Seq(Byte), NEW s, s = Seg(h, d, flags, data)
  PROVE  /\ Sends(h, c, s) /\ s.flags = flags /\ s.data = data
         /\ flags # Rst => s.seq = d.snd
         /\ flags # Rst /\ flags # Syn => s.ack = d.rcv
         /\ flags = Syn \/ flags = SynAck => s.id = c.id
<1>1. s \in SegRec
  BY ConnFields, SegType DEF SameEnd
<1>2. /\ Along(s, h, d.lport, d.rip, d.rport) /\ s.flags = flags /\ s.data = data
      /\ flags # Rst => s.seq = d.snd
      /\ flags # Rst /\ flags # Syn => s.ack = d.rcv
      /\ flags = Syn \/ flags = SynAck => s.id = d.id
  BY SegIs
<1> QED
  BY <1>1, <1>2 DEF Sends, SameEnd

LEMMA Empty ==
  <<>> \in Seq(Byte) /\ <<>> \in Seq(Nat) /\ Len(<<>>) = 0 /\ DOMAIN <<>> = {}
OBVIOUS

LEMMA SendsEmpty ==
  ASSUME NEW h \in Host, NEW c \in ConnRec, c.rip \in Host, NEW d \in ConnRec, SameEnd(c, d),
         NEW flags \in FlagSets, NEW s, s = Seg(h, d, flags, <<>>)
  PROVE  /\ Sends(h, c, s) /\ s.flags = flags /\ s.data = <<>>
         /\ flags # Rst => s.seq = d.snd
         /\ flags # Rst /\ flags # Syn => s.ack = d.rcv
         /\ flags = Syn \/ flags = SynAck => s.id = c.id
<1>1. \A data \in Seq(Byte) : \A z : z = Seg(h, d, flags, data) =>
        /\ Sends(h, c, z) /\ z.flags = flags /\ z.data = data
        /\ flags # Rst => z.seq = d.snd
        /\ flags # Rst /\ flags # Syn => z.ack = d.rcv
        /\ flags = Syn \/ flags = SynAck => z.id = c.id
  BY SendsIs
<1> QED
  BY <1>1, Empty, Zenon

LEMMA SmallSets ==
  IsFiniteSet({}) /\ \A x : IsFiniteSet({x})
BY FS_EmptySet, FS_Singleton

\* The segments of apprexmit.
LEMMA RexmitIs ==
  ASSUME NEW h \in Host, NEW c \in ConnRec, c.rip \in Host, NEW d \in ConnRec, SameEnd(c, d),
         d.st = "ESTABLISHED", d.pos + d.len <= Goal[h], ConnOK(h, d), NEW slen, NEW new,
         NEW r, r = AppRexmit(h, d, slen, new)
  PROVE  r.c = d /\ r.got = <<>> /\ Flows(h, c, r)
<1>0. Bare \in FlagSets /\ Bare # Rst /\ Bare # Syn
  BY FlagsDiffer DEF FlagSets
<1>1. PICK m : m = Bytes(h, d)
  OBVIOUS
<1>2. /\ m \in Seq(Byte) /\ Len(m) = d.len /\ DOMAIN m = 1 .. d.len
      /\ \A i \in 1 .. d.len : m[i].of = d.id /\ m[i].n = d.pos + i
  BY <1>1, BytesAre
<1> DEFINE s1 == Seg(h, d, Bare, m)
<1> DEFINE s2 == Seg(h, d, Bare, <<>>)
<1>3. r.c = d /\ r.got = <<>> /\ (r.out = {s1} \/ r.out = {s2} \/ r.out = {})
  BY <1>1 DEF AppRexmit, Res, Bare, Bytes
<1>4. Sends(h, c, s1) /\ s1.flags = Bare /\ s1.data = m /\ s1.seq = d.snd /\ s1.ack = d.rcv
  BY <1>0, <1>2, SendsIs
<1>5. Sends(h, c, s2) /\ s2.flags = Bare /\ s2.data = <<>> /\ s2.seq = d.snd /\ s2.ack = d.rcv
  BY <1>0, SendsEmpty
<1> HIDE DEF s1, s2
<1>6. IsFiniteSet(r.out)
  BY <1>3, SmallSets
<1>7. \A s \in r.out :
        /\ Sends(h, c, s) /\ s.flags = Bare /\ s.seq = d.snd /\ s.ack = d.rcv
        /\ s.data = <<>> \/ s.data = m
  BY <1>3, <1>4, <1>5
<1> QED
  BY <1>2, <1>3, <1>6, <1>7 DEF Flows, SameEnd

\* A change of fields that are no part of the end's name.
LEMMA ChangeType ==
  ASSUME NEW h \in Host, NEW c \in ConnRec, Used(c), c.id # 0, c.rip \in Host, Apart(c.lport, c.rport),
         NEW d \in ConnRec, SameEnd(c, d), Used(d), d.pos <= Goal[h],
         d.st = "ESTABLISHED" => d.pos + d.len <= Goal[h]
  PROVE  ConnOK(h, d)
BY DEF ConnOK, SameEnd, Apart

\* Data is offered anew: of what was acknowledged nothing is offered again.
LEMMA AppLenIs ==
  ASSUME NEW h \in Host, NEW c \in ConnRec, c.pos <= Goal[h], NEW ackdata \in BOOLEAN,
         ackdata \/ c.pos + c.len <= Goal[h], NEW l, l = AppLen(c, Len(Rest(h, c)), ackdata)
  PROVE  /\ l \in 0 .. UIP_TCP_MSS /\ c.pos + l <= Goal[h]
         /\ ackdata \/ c.len = 0 \/ l = c.len
<1>1. c.pos \in Nat /\ c.len \in Nat /\ c.len <= UIP_TCP_MSS /\ Goal[h] \in Nat /\ UIP_TCP_MSS \in Nat
  BY ConnFields, ConstFacts
<1>2. PICK n : n = Len(Rest(h, c)) /\ n = Goal[h] - c.pos
  BY RestIs
<1>3. l = AppLen(c, n, ackdata)
  BY <1>2
<1> QED
  BY <1>1, <1>2, <1>3 DEF AppLen

LEMMA AppSendIs ==
  ASSUME NEW h \in Host, NEW c \in ConnRec, c.st = "ESTABLISHED", c.id # 0, c.rip \in Host,
         Apart(c.lport, c.rport), NEW ackdata \in BOOLEAN, NEW new, NEW choice \in Choice,
         c.pos <= Goal[h], ackdata \/ c.pos + c.len <= Goal[h],
         NEW r, r = AppSend(h, c, ackdata, new, choice)
  PROVE  /\ r.got = <<>>
         /\ \/ Quits(h, c, r)
            \/ Leaves(h, c, c.peer, r)
            \/ Flows(h, c, r) /\ r.c.snd = c.snd /\ r.c.rcv = c.rcv /\ r.c.pos = c.pos /\ r.c.peer = c.peer
               /\ (ackdata \/ c.len = 0 \/ r.c.len = c.len)
<1>0. SameEnd(c, c) /\ Used(c)
  BY DEF SameEnd, Used
<1>1. CASE choice = "abort"
  <2> DEFINE s == Seg(h, c, Rst, <<>>)
  <2>1. r.c = Closed /\ r.out = {s} /\ r.got = <<>>
    BY <1>1 DEF AppSend, Res, Rst
  <2>2. Sends(h, c, s) /\ s.flags = Rst /\ s.data = <<>>
    BY <1>0, SendsEmpty DEF FlagSets
  <2> HIDE DEF s
  <2>3. Quits(h, c, r)
    BY <2>1, <2>2, SmallSets DEF Quits
  <2> QED
    BY <2>1, <2>3
<1>2. CASE choice = "close" /\ Rest(h, c) = <<>>
  <2> DEFINE d == [To(c, "FIN_WAIT_1") EXCEPT !.len = 1, !.nrtx = 0]
  <2> DEFINE s == Seg(h, d, Fin, <<>>)
  <2>1. r.c = d /\ r.out = {s} /\ r.got = <<>>
    BY <1>2 DEF AppSend, Res, Fin
  <2>2. d \in ConnRec /\ SameEnd(c, d) /\ d.pos = c.pos /\ d.st = "FIN_WAIT_1" /\ d.peer = c.peer
    BY Limits, States DEF To, ConnRec, SameEnd
  <2> HIDE DEF d
  <2>3. Sends(h, c, s) /\ s.flags = Fin /\ s.data = <<>>
    BY <2>2, SendsEmpty DEF FlagSets
  <2> HIDE DEF s
  <2>4. Used(d) /\ ~Open(d) /\ d.st # "ESTABLISHED"
    BY <2>2 DEF Used, Open
  <2>5. ConnOK(h, d)
    BY <1>0, <2>2, <2>4, ChangeType
  <2>6. Leaves(h, c, c.peer, r)
    BY <2>1, <2>2, <2>3, <2>4, <2>5, SmallSets DEF Leaves
  <2> QED
    BY <2>1, <2>6
<1>3. CASE choice # "abort" /\ ~(choice = "close" /\ Rest(h, c) = <<>>)
  <2>1. PICK l, n : l = AppLen(c, n, ackdata) /\ n = Len(Rest(h, c))
    OBVIOUS
  <2>2. l \in 0 .. UIP_TCP_MSS /\ c.pos + l <= Goal[h] /\ (ackdata \/ c.len = 0 \/ l = c.len)
    BY <2>1, AppLenIs
  <2> DEFINE z == choice = "stop" \/ (c.stopped /\ choice # "restart")
  <2> DEFINE d == [c EXCEPT !.len = l, !.nrtx = 0, !.stopped = z]
  <2> DEFINE w == new \/ Restarts(c, choice)
  <2>3. r = AppRexmit(h, d, n, w)
    BY <1>3, <2>1 DEF AppSend
  <2>4. z \in BOOLEAN
    BY ConnFields
  <2> HIDE DEF z, w
  <2>5. /\ d \in ConnRec /\ SameEnd(c, d) /\ d.st = "ESTABLISHED" /\ d.pos = c.pos /\ d.len = l
        /\ d.snd = c.snd /\ d.rcv = c.rcv /\ d.peer = c.peer
    BY <2>2, <2>4, Limits DEF ConnRec, SameEnd
  <2> HIDE DEF d
  <2>6. Used(d)
    BY <2>5 DEF Used
  <2>7. ConnOK(h, d)
    BY <1>0, <2>2, <2>5, <2>6, ChangeType
  <2>8. r.c = d /\ r.got = <<>> /\ Flows(h, c, r)
    BY <2>2, <2>3, <2>4, <2>5, <2>7, RexmitIs
  <2> QED
    BY <2>2, <2>5, <2>8
<1> QED
  BY <1>1, <1>2, <1>3

LEMMA ReadingIs ==
  ASSUME NEW h, NEW c, NEW ackdata, NEW new, NEW choice, NEW data,
         NEW z, z = AppSend(h, c, ackdata, new, choice), NEW r, r = Reading(data, z)
  PROVE  r.c = z.c /\ r.out = z.out /\ r.got = data
<1>1. PICK d, o : z = Res(d, o)
  BY DEF AppSend, AppRexmit
<1> QED
  BY <1>1 DEF Reading, Res

\* The application is called when c has become d.
LEMMA AppCallIs ==
  ASSUME NEW h \in Host, NEW c \in ConnRec, c.id # 0, c.rip \in Host, Apart(c.lport, c.rport),
         NEW d \in ConnRec, SameEnd(c, d), d.st = "ESTABLISHED", NEW ackdata \in BOOLEAN, NEW new, NEW data,
         d.pos <= Goal[h], ackdata \/ d.pos + d.len <= Goal[h],
         NEW r \in AppCall(h, d, ackdata, new, data)
  PROVE  /\ r.got = data
         /\ \/ Quits(h, c, r)
            \/ Leaves(h, c, d.peer, r)
            \/ Flows(h, c, r) /\ r.c.snd = d.snd /\ r.c.rcv = d.rcv /\ r.c.pos = d.pos /\ r.c.peer = d.peer
               /\ (ackdata \/ d.len = 0 \/ r.c.len = d.len)
<1>1. PICK choice, z : choice \in Choice /\ z = AppSend(h, d, ackdata, new, choice) /\ r = Reading(data, z)
  BY Zenon DEF AppCall
<1>2. r.c = z.c /\ r.out = z.out /\ r.got = data
  BY <1>1, ReadingIs
<1>3. \/ Quits(h, d, z)
      \/ Leaves(h, d, d.peer, z)
      \/ Flows(h, d, z) /\ z.c.snd = d.snd /\ z.c.rcv = d.rcv /\ z.c.pos = d.pos /\ z.c.peer = d.peer
         /\ (ackdata \/ d.len = 0 \/ z.c.len = d.len)
  <2>1. d.id # 0 /\ d.rip \in Host /\ Apart(d.lport, d.rport)
    BY DEF SameEnd, Apart
  <2> QED
    BY <1>1, <2>1, AppSendIs
<1>4. \A s : Sends(h, d, s) => Sends(h, c, s)
  BY DEF Sends, SameEnd
<1>5. d.id = c.id
  BY DEF SameEnd
<1>6. CASE Quits(h, d, z)
  BY <1>2, <1>4, <1>6 DEF Quits
<1>7. CASE Leaves(h, d, d.peer, z)
  BY <1>2, <1>4, <1>7 DEF Leaves, SameEnd
<1>8. CASE /\ Flows(h, d, z) /\ z.c.snd = d.snd /\ z.c.rcv = d.rcv /\ z.c.pos = d.pos /\ z.c.peer = d.peer
           /\ ackdata \/ d.len = 0 \/ z.c.len = d.len
  <2>1. SameEnd(c, z.c)
    BY <1>8 DEF Flows, SameEnd
  <2>2. Flows(h, c, r)
    BY <1>2, <1>4, <1>5, <1>8, <2>1 DEF Flows
  <2> QED
    BY <1>2, <1>8, <2>2
<1> QED
  BY <1>2, <1>3, <1>6, <1>7, <1>8

-----------------------------------------------------------------------------
(* The timer.                                                                *)

Early == {"SYN_SENT", "SYN_RCVD"}

\* What a call does that acknowledges nothing.
Calm(h, c, r) ==
  /\ r.got = <<>>
  /\ \/ Quits(h, c, r)
     \/ Leaves(h, c, c.peer, r) /\ c.st \notin Early
     \/ Opening(h, c, r)
     \/ Flows(h, c, r) /\ c.st = "ESTABLISHED" /\ Keeps(c, r.c)

LEMMA Sorts ==
  ASSUME NEW c, c.st \in State
  PROVE  /\ Used(c) => c.st \in Early \/ c.st = "ESTABLISHED" \/ ~Open(c)
         /\ Open(c) <=> c.st \in Early \/ c.st = "ESTABLISHED"
         /\ c.st = "ESTABLISHED" => c.st \notin Early
BY DEF State, Used, Open, Early

\* The connection is as it was, but for the number of retransmissions.
LEMMA SilentIs ==
  ASSUME NEW h \in Host, NEW c, ConnOK(h, c), Used(c), NEW n \in 0 .. UIP_MAXRTX,
         NEW r, r.c = [c EXCEPT !.nrtx = n], r.out = {}, r.got = <<>>
  PROVE  Calm(h, c, r)
<1>1. c \in ConnRec /\ c.st \in State
  BY ConnFields DEF ConnOK
<1> DEFINE d == [c EXCEPT !.nrtx = n]
<1>2. /\ d \in ConnRec /\ SameEnd(c, d) /\ d.st = c.st /\ d.snd = c.snd /\ d.rcv = c.rcv
      /\ d.len = c.len /\ d.pos = c.pos /\ d.peer = c.peer
  BY <1>1 DEF ConnRec, SameEnd
<1> HIDE DEF d
<1>3. Used(d) /\ (Open(d) <=> Open(c)) /\ (d.st = "ESTABLISHED" <=> c.st = "ESTABLISHED")
  BY <1>2 DEF Used, Open
<1>4. ConnOK(h, d)
  BY <1>2, <1>3, ChangeType DEF ConnOK
<1>5. r.c = d /\ r.out = {} /\ IsFiniteSet(r.out)
  BY SmallSets DEF d
<1>6. CASE c.st \in Early
  BY <1>2, <1>4, <1>5, <1>6 DEF Calm, Opening, Early
<1>7. CASE c.st = "ESTABLISHED"
  BY <1>2, <1>4, <1>5, <1>7 DEF Calm, Flows, Keeps
<1>8. CASE ~Open(c)
  BY <1>1, <1>2, <1>3, <1>4, <1>5, <1>8, Sorts DEF Calm, Leaves
<1> QED
  BY <1>1, <1>6, <1>7, <1>8, Sorts

LEMMA IdleIs ==
  ASSUME NEW h \in Host, NEW c, ConnOK(h, c), Used(c), NEW r, r = Res(c, {})
  PROVE  Calm(h, c, r)
<1>1. c \in ConnRec /\ c.nrtx \in 0 .. UIP_MAXRTX /\ c = [c EXCEPT !.nrtx = c.nrtx]
  BY DEF ConnOK, ConnRec
<1>2. r.c = c /\ r.out = {} /\ r.got = <<>>
  BY DEF Res
<1> QED
  BY <1>1, <1>2, SilentIs

LEMMA RetransmitIs ==
  ASSUME NEW h \in Host, NEW c, ConnOK(h, c), Used(c), ~GivesUp(c), c.st \notin {"TIME_WAIT", "FIN_WAIT_2"},
         NEW r, r = Retransmit(h, c)
  PROVE  Calm(h, c, r)
<1>1. c \in ConnRec /\ c.st \in State /\ c.id # 0 /\ c.rip \in Host /\ Apart(c.lport, c.rport)
  BY ConnFields DEF ConnOK
<1> DEFINE d == [c EXCEPT !.nrtx = @ + 1]
<1>2. c.nrtx + 1 \in 0 .. UIP_MAXRTX
  BY <1>1, ConnFields, ConstFacts DEF GivesUp
<1>3. /\ d \in ConnRec /\ SameEnd(c, d) /\ d.st = c.st /\ d.snd = c.snd /\ d.rcv = c.rcv
      /\ d.len = c.len /\ d.pos = c.pos /\ d.peer = c.peer
  BY <1>1, <1>2 DEF ConnRec, SameEnd
<1> HIDE DEF d
<1>4. Used(d) /\ (Open(d) <=> Open(c)) /\ (d.st = "ESTABLISHED" <=> c.st = "ESTABLISHED")
  BY <1>3 DEF Used, Open
<1>5. ConnOK(h, d)
  BY <1>1, <1>3, <1>4, ChangeType DEF ConnOK
<1>6. ASSUME NEW f \in FlagSets, r = Res(d, {Seg(h, d, f, <<>>)})
      PROVE  /\ r.c = d /\ r.got = <<>> /\ IsFiniteSet(r.out)
             /\ \A s \in r.out :
                  /\ Sends(h, c, s) /\ s.flags = f /\ s.data = <<>>
                  /\ f # Rst => s.seq = d.snd
                  /\ f # Rst /\ f # Syn => s.ack = d.rcv
                  /\ f = Syn \/ f = SynAck => s.id = c.id
  <2> DEFINE s == Seg(h, d, f, <<>>)
  <2>1. r.c = d /\ r.got = <<>> /\ r.out = {s}
    BY <1>6 DEF Res
  <2>2. /\ Sends(h, c, s) /\ s.flags = f /\ s.data = <<>>
        /\ f # Rst => s.seq = d.snd
        /\ f # Rst /\ f # Syn => s.ack = d.rcv
        /\ f = Syn \/ f = SynAck => s.id = c.id
    BY <1>1, <1>3, SendsEmpty
  <2> HIDE DEF s
  <2> QED
    BY <2>1, <2>2, SmallSets
<1>7. CASE c.st = "SYN_RCVD"
  <2>1. r = Res(d, {Seg(h, d, SynAck, <<>>)})
    BY <1>7 DEF Retransmit, SynAck, d
  <2>2. SynAck \in FlagSets /\ SynAck # Rst /\ SynAck # Syn
    BY FlagsDiffer DEF FlagSets
  <2> QED
    BY <1>3, <1>5, <1>6, <1>7, <2>1, <2>2 DEF Calm, Opening
<1>8. CASE c.st = "SYN_SENT"
  <2>1. r = Res(d, {Seg(h, d, Syn, <<>>)})
    BY <1>8 DEF Retransmit, Syn, d
  <2>2. Syn \in FlagSets /\ Syn # Rst /\ Syn # SynAck
    BY FlagsDiffer DEF FlagSets
  <2> QED
    BY <1>3, <1>5, <1>6, <1>8, <2>1, <2>2 DEF Calm, Opening
<1>9. CASE c.st = "ESTABLISHED"
  <2>1. r = AppRexmit(h, d, Len(Rest(h, d)), FALSE)
    BY <1>9 DEF Retransmit, d
  <2>2. d.pos + d.len <= Goal[h]
    BY <1>5, <1>4, <1>9 DEF ConnOK
  <2>3. PICK n, b : r = AppRexmit(h, d, n, b)
    BY <2>1, Zenon
  <2>4. r.c = d /\ r.got = <<>> /\ Flows(h, c, r)
    BY <1>1, <1>3, <1>5, <1>9, <2>2, <2>3, RexmitIs
  <2> QED
    BY <1>3, <1>9, <2>4 DEF Calm, Keeps
<1>10. CASE ~Open(c)
  <2>1. r = Res(d, {Seg(h, d, Fin, <<>>)})
    BY <1>10 DEF Retransmit, Fin, d, Open
  <2>2. Fin \in FlagSets
    BY DEF FlagSets
  <2> QED
    BY <1>1, <1>3, <1>4, <1>5, <1>6, <1>10, <2>1, <2>2, Sorts DEF Calm, Leaves
<1> QED
  BY <1>1, <1>7, <1>8, <1>9, <1>10, Sorts DEF Early

LEMMA TickedIs ==
  ASSUME NEW h \in Host, NEW c, ConnOK(h, c), Used(c), NEW down \in BOOLEAN, NEW r \in Ticked(h, c, down)
  PROVE  Calm(h, c, r)
<1>1. c \in ConnRec /\ c.st \in State /\ c.id # 0 /\ c.rip \in Host /\ Apart(c.lport, c.rport)
  BY ConnFields DEF ConnOK
<1>2. CASE r = Res(c, {})
  BY <1>2, IdleIs
<1>3. CASE r = Res(Closed, {})
  BY <1>3, SmallSets DEF Calm, Quits, Res
<1>4. CASE r = Res(Closed, {Seg(h, c, {"RST", "ACK"}, <<>>)})
  <2> DEFINE s == Seg(h, c, Rst, <<>>)
  <2>1. r.c = Closed /\ r.out = {s} /\ r.got = <<>>
    BY <1>4 DEF Res, Rst
  <2>2. Sends(h, c, s) /\ s.flags = Rst /\ s.data = <<>>
    BY <1>1, SendsEmpty DEF SameEnd, FlagSets
  <2> HIDE DEF s
  <2> QED
    BY <2>1, <2>2, SmallSets DEF Calm, Quits
<1>5. CASE c.st \notin {"TIME_WAIT", "FIN_WAIT_2"} /\ ~GivesUp(c) /\ r = Retransmit(h, c)
  BY <1>5, RetransmitIs
<1>6. CASE c.st = "ESTABLISHED" /\ ~Sent(c) /\ r \in AppCall(h, c, FALSE, FALSE, <<>>)
  <2>1. PICK f, m : r \in AppCall(h, c, f, f, m) /\ f = FALSE /\ f \in BOOLEAN /\ m = <<>>
    BY <1>6, Zenon
  <2>2. c.pos <= Goal[h] /\ c.pos + c.len <= Goal[h] /\ SameEnd(c, c)
    BY <1>6 DEF ConnOK, SameEnd
  <2>3. /\ r.got = <<>>
        /\ \/ Quits(h, c, r)
           \/ Leaves(h, c, c.peer, r)
           \/ Flows(h, c, r) /\ r.c.snd = c.snd /\ r.c.rcv = c.rcv /\ r.c.pos = c.pos /\ r.c.peer = c.peer
              /\ (c.len = 0 \/ r.c.len = c.len)
    BY <1>1, <1>6, <2>1, <2>2, AppCallIs
  <2>4. c.st \notin Early
    BY <1>6 DEF Early
  <2> QED
    BY <1>6, <2>3, <2>4 DEF Calm, Keeps
<1> QED
  BY <1>2, <1>3, <1>4, <1>5, <1>6 DEF Ticked

-----------------------------------------------------------------------------
(* What comes of a segment.                                                  *)

\* The acknowledgement moves the connection on, or all stays.
Moves(c, s, d) ==
  \/ AckData(c, s) /\ d.snd = c.snd + c.len /\ d.pos = c.pos + c.len
  \/ d.snd = c.snd /\ d.pos = c.pos /\ (c.len = 0 \/ d.len = c.len)

\* The connection is open, and stays so.
Goes(h, c, s, r) ==
  /\ Flows(h, c, r) /\ c.st = "ESTABLISHED" /\ r.c.peer = c.peer /\ r.c.rcv = c.rcv + Len(r.got)
  /\ (s.flags = Fin /\ r.c.pos = c.pos) \/ Moves(c, s, r.c)

\* The SYNACK of connection c has been acknowledged.
Opens(h, c, s, r) ==
  /\ c.st = "SYN_RCVD" /\ AckData(c, s)
  /\ \/ Quits(h, c, r)
     \/ Leaves(h, c, c.peer, r)
     \/ /\ Flows(h, c, r) /\ r.c.snd = c.snd + c.len /\ r.c.pos = c.pos /\ r.c.peer = c.peer
        /\ r.c.rcv = c.rcv + Len(r.got)

\* The SYN of connection c has been answered.
Answers(h, c, s, r) ==
  /\ c.st = "SYN_SENT" /\ AckData(c, s) /\ s.flags = SynAck /\ r.got = <<>>
  /\ \/ Quits(h, c, r)
     \/ Leaves(h, c, s.id, r)
     \/ /\ Flows(h, c, r) /\ r.c.snd = c.snd + c.len /\ r.c.pos = c.pos /\ r.c.peer = s.id
        /\ r.c.rcv = s.seq + 1

LEMMA SegFields ==
  ASSUME NEW s \in SegRec
  PROVE  /\ s.src \in Host /\ s.dst \in Host /\ s.sport \in Port /\ s.dport \in Port /\ s.flags \in FlagSets
         /\ s.seq \in Nat /\ s.ack \in Nat /\ s.id \in Number0 /\ s.data \in Seq(Byte) /\ Len(s.data) \in Nat
         /\ s.data # <<>> => Len(s.data) > 0
<1>1. s.data \in Seq(Byte)
  BY DEF SegRec
<1> QED
  BY <1>1, EmptySeq, LenProperties DEF SegRec

LEMMA FlagsAre ==
  ASSUME NEW f \in FlagSets
  PROVE  /\ "RST" \in f <=> f = Rst
         /\ "FIN" \in f <=> f = Fin
         /\ "ACK" \in f <=> f # Syn
         /\ f = Rst \/ f = Syn \/ f = SynAck \/ f = Bare \/ f = Fin
BY FlagFacts DEF FlagSets

LEMMA AcknowledgedIs ==
  ASSUME NEW h \in Host, NEW c, ConnOK(h, c), Used(c), NEW s, NEW e, e = Acknowledged(c, s)
  PROVE  /\ e \in ConnRec /\ ConnOK(h, e) /\ SameEnd(c, e) /\ e.st = c.st /\ e.stopped = c.stopped
         /\ e.rcv = c.rcv /\ e.len = c.len /\ e.pos = c.pos /\ e.peer = c.peer
         /\ e.snd = IF AckData(c, s) THEN c.snd + c.len ELSE c.snd
<1>1. c \in ConnRec /\ c.snd + c.len \in Nat /\ c.id # 0 /\ c.rip \in Host /\ Apart(c.lport, c.rport)
  BY ConnFields DEF ConnOK
<1>2. /\ e \in ConnRec /\ SameEnd(c, e) /\ e.st = c.st /\ e.stopped = c.stopped
      /\ e.rcv = c.rcv /\ e.len = c.len /\ e.pos = c.pos /\ e.peer = c.peer
      /\ e.snd = IF AckData(c, s) THEN c.snd + c.len ELSE c.snd
  BY <1>1 DEF Acknowledged, ConnRec, SameEnd
<1>3. ConnOK(h, e)
  BY <1>1, <1>2, ChangeType DEF ConnOK, Used
<1> QED
  BY <1>2, <1>3

LEMMA InEstablishedIs ==
  ASSUME NEW h \in Host, NEW c, ConnOK(h, c), c.st = "ESTABLISHED", NEW s \in SegRec, s.flags # Rst,
         ~OutOfOrder(c, s), NEW r \in InEstablished(h, Acknowledged(c, s), s, AckData(c, s))
  PROVE  /\ r.got = <<>> \/ (r.got = s.data /\ s.seq = c.rcv)
         /\ \/ Quits(h, c, r)
            \/ Leaves(h, c, c.peer, r)
            \/ Goes(h, c, s, r)
<1> DEFINE A == AckData(c, s)
<1>1. /\ c \in ConnRec /\ Used(c) /\ c.id # 0 /\ c.rip \in Host /\ Apart(c.lport, c.rport)
      /\ c.pos \in Nat /\ c.len \in Nat /\ c.rcv \in Nat /\ Goal[h] \in Nat /\ c.pos + c.len <= Goal[h]
  BY ConnFields, ConstFacts DEF ConnOK, Used
<1>2. PICK e : e = Acknowledged(c, s)
  OBVIOUS
<1>3. /\ e \in ConnRec /\ ConnOK(h, e) /\ SameEnd(c, e) /\ e.st = "ESTABLISHED" /\ e.stopped = c.stopped
      /\ e.rcv = c.rcv /\ e.len = c.len /\ e.pos = c.pos /\ e.peer = c.peer
      /\ e.snd = IF A THEN c.snd + c.len ELSE c.snd
  BY <1>1, <1>2, AcknowledgedIs
<1>4. PICK m, l : m = s.data /\ l = Len(m)
  OBVIOUS
<1>5. m \in Seq(Byte) /\ l \in Nat /\ (m # <<>> => s.seq = c.rcv)
  BY <1>4, SegFields DEF OutOfOrder
<1>6. A \in BOOLEAN
  BY DEF AckData
<1> HIDE DEF A
<1>7. PICK x : x = A /\ x \in BOOLEAN /\ r \in InEstablished(h, e, s, x)
  BY <1>2, <1>6 DEF A
<1>8. s.flags \in FlagSets
  BY SegFields
<1>9. CASE "FIN" \in s.flags /\ Sent(e)
  <2>1. r.c = e /\ r.out = {} /\ r.got = <<>>
    BY <1>7, <1>9 DEF InEstablished, Res
  <2>2. Flows(h, c, r)
    BY <1>3, <2>1, SmallSets DEF Flows
  <2>3. s.flags = Fin
    BY <1>8, <1>9, FlagsAre
  <2>4. r.c.rcv = c.rcv + Len(r.got)
    BY <1>1, <1>3, <2>1, Empty
  <2> QED
    BY <1>3, <2>1, <2>2, <2>3, <2>4 DEF Goes
<1>10. CASE "FIN" \in s.flags /\ ~Sent(e)
  <2> DEFINE fin == [To(e, "LAST_ACK") EXCEPT !.rcv = @ + 1 + l, !.len = 1, !.nrtx = 0]
  <2> DEFINE z == Seg(h, fin, Fin, <<>>)
  <2>1. r = Reading(m, Res(fin, {z}))
    BY <1>4, <1>7, <1>10 DEF InEstablished, Fin
  <2>2. r.c = fin /\ r.out = {z} /\ r.got = m
    BY <2>1 DEF Reading, Res
  <2>3. e.rcv + 1 + l \in Nat
    BY <1>1, <1>3, <1>5
  <2>4. fin \in ConnRec /\ SameEnd(c, fin) /\ fin.pos = c.pos /\ fin.st = "LAST_ACK" /\ fin.peer = c.peer
    BY <1>3, <2>3, Limits, States DEF To, ConnRec, SameEnd
  <2> HIDE DEF fin
  <2>5. Sends(h, c, z) /\ z.flags = Fin /\ z.data = <<>>
    BY <1>1, <2>4, SendsEmpty DEF FlagSets
  <2> HIDE DEF z
  <2>6. Used(fin) /\ ~Open(fin) /\ fin.st # "ESTABLISHED" /\ fin.pos <= Goal[h]
    BY <1>1, <2>4 DEF Used, Open
  <2>7. ConnOK(h, fin)
    BY <1>1, <2>4, <2>6, ChangeType
  <2> QED
    BY <1>4, <1>5, <2>2, <2>4, <2>5, <2>6, <2>7, SmallSets DEF Leaves
<1>11. CASE "FIN" \notin s.flags
  <2>1. PICK new, o, n : /\ new = (m # <<>> /\ ~e.stopped)
                         /\ o = (IF new THEN c.rcv + l ELSE c.rcv)
                         /\ n = IF x THEN c.pos + c.len ELSE c.pos
    OBVIOUS
  <2>2. new \in BOOLEAN
    BY <2>1
  <2> DEFINE d == [e EXCEPT !.rcv = o, !.pos = n]
  <2>0. /\ new = (s.data # <<>> /\ ~e.stopped)
        /\ o = (IF new THEN e.rcv + Len(s.data) ELSE e.rcv)
        /\ n = IF x THEN e.pos + e.len ELSE e.pos
    BY <1>3, <1>4, <2>1
  <2>8. r \in IF new \/ x THEN AppCall(h, d, x, new, IF new THEN s.data ELSE <<>>) ELSE {Res(e, {})}
    BY <1>7, <1>11, <2>0 DEF InEstablished
  <2>3. /\ ~(new \/ x) => r.c = e /\ r.out = {} /\ r.got = <<>>
        /\ new \/ x => r \in AppCall(h, d, x, new, IF new THEN m ELSE <<>>)
    BY <1>4, <2>8 DEF Res
  <2>4. o \in Nat /\ n \in Nat /\ n <= Goal[h] /\ (x \/ n = c.pos)
    BY <1>1, <1>5, <2>1
  <2>5. /\ d \in ConnRec /\ SameEnd(c, d) /\ d.st = "ESTABLISHED" /\ d.rcv = o /\ d.pos = n
        /\ d.snd = e.snd /\ d.len = c.len /\ d.peer = c.peer
    BY <1>3, <2>4 DEF ConnRec, SameEnd
  <2> HIDE DEF d
  <2>6. CASE ~(new \/ x)
    <3>1. Flows(h, c, r)
      BY <1>3, <2>3, <2>6, SmallSets DEF Flows
    <3>2. r.c.rcv = c.rcv + Len(r.got)
      BY <1>1, <1>3, <2>3, <2>6, Empty
    <3>3. Moves(c, s, r.c)
      BY <1>3, <1>7, <2>3, <2>6 DEF Moves, A
    <3> QED
      BY <1>3, <2>3, <2>6, <3>1, <3>2, <3>3 DEF Goes
  <2>7. CASE new \/ x
    <3>1. PICK data : data = (IF new THEN m ELSE <<>>) /\ r \in AppCall(h, d, x, new, data)
      BY <2>3, <2>7
    <3>2. d.pos <= Goal[h] /\ (x \/ d.pos + d.len <= Goal[h])
      BY <1>1, <2>4, <2>5
    <3>3. /\ r.got = data
          /\ \/ Quits(h, c, r)
             \/ Leaves(h, c, d.peer, r)
             \/ Flows(h, c, r) /\ r.c.snd = d.snd /\ r.c.rcv = d.rcv /\ r.c.pos = d.pos /\ r.c.peer = d.peer
                /\ (x \/ d.len = 0 \/ r.c.len = d.len)
      BY <1>1, <1>7, <2>5, <3>1, <3>2, AppCallIs
    <3>4. r.got = <<>> \/ (r.got = s.data /\ s.seq = c.rcv)
      BY <1>4, <1>5, <2>1, <2>2, <3>1, <3>3
    <3>5. o = c.rcv + Len(data)
      BY <1>1, <1>4, <2>1, <2>2, <3>1, Empty
    <3>6. ASSUME Flows(h, c, r), r.c.snd = d.snd, r.c.rcv = d.rcv, r.c.pos = d.pos, r.c.peer = d.peer,
                 x \/ d.len = 0 \/ r.c.len = d.len
          PROVE  Goes(h, c, s, r)
      <4>1. Moves(c, s, r.c)
        BY <1>3, <1>7, <2>1, <2>5, <3>6 DEF Moves, A
      <4> QED
        BY <2>5, <3>3, <3>5, <3>6, <4>1 DEF Goes
    <3> QED
      BY <2>5, <3>3, <3>4, <3>6
  <2> QED
    BY <2>6, <2>7
<1> QED
  BY <1>9, <1>10, <1>11

LEMMA InSynRcvdIs ==
  ASSUME NEW h \in Host, NEW c, ConnOK(h, c), c.st = "SYN_RCVD", NEW s \in SegRec,
         ~OutOfOrder(c, s), NEW r \in InSynRcvd(h, Acknowledged(c, s), s, AckData(c, s))
  PROVE  /\ r.got = <<>> \/ (r.got = s.data /\ s.seq = c.rcv)
         /\ \/ Opening(h, c, r) /\ r.got = <<>>
            \/ Opens(h, c, s, r)
<1>1. /\ c \in ConnRec /\ Used(c) /\ c.id # 0 /\ c.rip \in Host /\ Apart(c.lport, c.rport)
      /\ c.pos \in Nat /\ c.rcv \in Nat /\ Goal[h] \in Nat /\ c.pos <= Goal[h]
  BY ConnFields, ConstFacts DEF ConnOK, Used
<1>2. PICK e : e = Acknowledged(c, s)
  OBVIOUS
<1>3. /\ e \in ConnRec /\ ConnOK(h, e) /\ SameEnd(c, e) /\ e.st = "SYN_RCVD"
      /\ e.rcv = c.rcv /\ e.len = c.len /\ e.pos = c.pos /\ e.peer = c.peer
      /\ e.snd = IF AckData(c, s) THEN c.snd + c.len ELSE c.snd
  BY <1>1, <1>2, AcknowledgedIs
<1>4. PICK m, l : m = s.data /\ l = Len(m) /\ l \in Nat
  BY SegFields
<1>5. m # <<>> => s.seq = c.rcv
  BY <1>4 DEF OutOfOrder
<1>6. CASE ~AckData(c, s)
  <2>1. r = Res(e, {}) /\ e = c
    BY <1>2, <1>6 DEF InSynRcvd, Acknowledged
  <2>2. r.c = c /\ r.out = {} /\ r.got = <<>>
    BY <2>1 DEF Res
  <2> QED
    BY <1>1, <2>2, SmallSets DEF Opening, SameEnd
<1>7. CASE AckData(c, s)
  <2> DEFINE d == [To(e, "ESTABLISHED") EXCEPT !.len = 0, !.rcv = @ + l]
  <2>1. PICK f, new : f = FALSE /\ f \in BOOLEAN /\ r \in AppCall(h, d, f, new, m)
    BY <1>2, <1>4, <1>7, Zenon DEF InSynRcvd
  <2>2. e.rcv + l \in Nat
    BY <1>1, <1>3, <1>4
  <2>3. /\ d \in ConnRec /\ SameEnd(c, d) /\ d.st = "ESTABLISHED" /\ d.rcv = e.rcv + l /\ d.pos = c.pos
        /\ d.snd = e.snd /\ d.len = 0 /\ d.peer = c.peer
    BY <1>3, <2>2, Limits, States DEF To, ConnRec, SameEnd
  <2> HIDE DEF d
  <2>4. d.pos <= Goal[h] /\ d.pos + d.len <= Goal[h]
    BY <1>1, <2>3
  <2>5. /\ r.got = m
        /\ \/ Quits(h, c, r)
           \/ Leaves(h, c, d.peer, r)
           \/ Flows(h, c, r) /\ r.c.snd = d.snd /\ r.c.rcv = d.rcv /\ r.c.pos = d.pos /\ r.c.peer = d.peer
              /\ (f \/ d.len = 0 \/ r.c.len = d.len)
    BY <1>1, <2>1, <2>3, <2>4, AppCallIs
  <2> QED
    BY <1>3, <1>4, <1>5, <1>7, <2>3, <2>5 DEF Opens
<1> QED
  BY <1>6, <1>7

LEMMA InSynSentIs ==
  ASSUME NEW h \in Host, NEW c, ConnOK(h, c), c.st = "SYN_SENT", NEW s \in SegRec,
         Along(s, c.rip, c.rport, h, c.lport), s.flags # Rst, AckData(c, s) => s.flags = SynAck,
         NEW r \in InSynSent(h, Acknowledged(c, s), s, AckData(c, s))
  PROVE  r.got = <<>> /\ (Opening(h, c, r) \/ Answers(h, c, s, r))
<1>1. /\ c \in ConnRec /\ Used(c) /\ c.id # 0 /\ c.rip \in Host /\ Apart(c.lport, c.rport)
      /\ c.pos \in Nat /\ c.rcv \in Nat /\ Goal[h] \in Nat /\ c.pos <= Goal[h]
  BY ConnFields, ConstFacts DEF ConnOK, Used
<1>2. PICK e : e = Acknowledged(c, s)
  OBVIOUS
<1>3. /\ e \in ConnRec /\ ConnOK(h, e) /\ SameEnd(c, e) /\ e.st = "SYN_SENT"
      /\ e.rcv = c.rcv /\ e.len = c.len /\ e.pos = c.pos /\ e.peer = c.peer
      /\ e.snd = IF AckData(c, s) THEN c.snd + c.len ELSE c.snd
  BY <1>1, <1>2, AcknowledgedIs
<1>4. s.flags \in FlagSets /\ s.seq \in Nat /\ s.id \in Number0 /\ s.seq + 1 \in Nat
  BY SegFields
<1>6. CASE ~AckData(c, s)
  <2> DEFINE z == [src |-> s.dst, dst |-> s.src, sport |-> s.dport, dport |-> s.sport,
                   flags |-> {"RST", "ACK"}, seq |-> 0, ack |-> 0, id |-> 0, data |-> <<>>]
  <2>1. r = Res(e, Reset(s)) /\ e = c
    BY <1>2, <1>6 DEF InSynSent, Acknowledged
  <2>2. r.c = c /\ r.out = Reset(s) /\ r.got = <<>>
    BY <2>1 DEF Res
  <2>3. Reset(s) = {z}
    BY <1>4, FlagsAre DEF Reset
  <2>4. z \in SegRec
    BY SegFields, Empty, Limits DEF SegRec, FlagSets, Rst
  <2>5. Along(z, h, c.lport, c.rip, c.rport) /\ z.flags = Rst /\ z.data = <<>>
    BY DEF Along, Rst
  <2> HIDE DEF z
  <2> QED
    BY <1>1, <2>2, <2>3, <2>4, <2>5, SmallSets DEF Opening, SameEnd, Sends
<1>7. CASE AckData(c, s)
  <2> DEFINE d == [To(e, "ESTABLISHED") EXCEPT !.len = 0, !.rcv = s.seq + 1, !.peer = s.id]
  <2>1. PICK f, new, m : f = FALSE /\ f \in BOOLEAN /\ m = <<>> /\ r \in AppCall(h, d, f, new, m)
    BY <1>2, <1>7, Zenon DEF InSynSent, SynAck
  <2>3. /\ d \in ConnRec /\ SameEnd(c, d) /\ d.st = "ESTABLISHED" /\ d.rcv = s.seq + 1 /\ d.pos = c.pos
        /\ d.snd = e.snd /\ d.len = 0 /\ d.peer = s.id
    BY <1>3, <1>4, Limits, States DEF To, ConnRec, SameEnd
  <2> HIDE DEF d
  <2>4. d.pos <= Goal[h] /\ d.pos + d.len <= Goal[h]
    BY <1>1, <2>3
  <2>5. /\ r.got = m
        /\ \/ Quits(h, c, r)
           \/ Leaves(h, c, d.peer, r)
           \/ Flows(h, c, r) /\ r.c.snd = d.snd /\ r.c.rcv = d.rcv /\ r.c.pos = d.pos /\ r.c.peer = d.peer
              /\ (f \/ d.len = 0 \/ r.c.len = d.len)
    BY <1>1, <2>1, <2>3, <2>4, AppCallIs
  <2> QED
    BY <1>3, <1>7, <2>1, <2>3, <2>5 DEF Answers
<1> QED
  BY <1>6, <1>7

\* A connection whose application has left.
LEMMA AwayIs ==
  ASSUME NEW h \in Host, NEW c, ConnOK(h, c), Used(c), NEW d \in ConnRec, SameEnd(c, d), d.peer = c.peer,
         d.pos = c.pos, Used(d), ~Open(d), NEW r, r.c = d, r.out = {} \/ r.out = Ack(h, d)
  PROVE  Leaves(h, c, c.peer, r)
<1> DEFINE z == Seg(h, d, Bare, <<>>)
<1>1. c \in ConnRec /\ c.id # 0 /\ c.rip \in Host /\ Apart(c.lport, c.rport) /\ d.pos <= Goal[h]
      /\ d.st # "ESTABLISHED"
  BY DEF ConnOK, Open
<1>2. ConnOK(h, d)
  BY <1>1, ChangeType
<1>3. Sends(h, c, z) /\ z.flags = Bare /\ z.data = <<>>
  BY <1>1, SendsEmpty DEF FlagSets
<1>4. r.out = {} \/ r.out = {z}
  BY DEF Ack, Bare
<1> HIDE DEF z
<1> QED
  BY <1>2, <1>3, <1>4, SmallSets DEF Leaves

LEMMA InAwayIs ==
  ASSUME NEW h \in Host, NEW c, ConnOK(h, c), Used(c), ~Open(c), NEW s \in SegRec,
         NEW r \in InState(h, Acknowledged(c, s), s, AckData(c, s))
  PROVE  r.got = <<>> /\ (Quits(h, c, r) \/ Leaves(h, c, c.peer, r))
<1>1. c.st \in State /\ c.rcv \in Nat
  BY ConnFields DEF ConnOK
<1>2. PICK e : e = Acknowledged(c, s)
  OBVIOUS
<1>3. /\ e \in ConnRec /\ ConnOK(h, e) /\ SameEnd(c, e) /\ e.st = c.st
      /\ e.rcv = c.rcv /\ e.pos = c.pos /\ e.peer = c.peer
  BY <1>2, AcknowledgedIs
<1>4. PICK m, l, x : m = s.data /\ l = Len(m) /\ l \in Nat /\ x = AckData(c, s)
  BY SegFields
<1>5. ASSUME NEW d \in ConnRec, SameEnd(c, d), d.peer = c.peer, d.pos = c.pos, Used(d), ~Open(d),
             NEW o, o = {} \/ o = Ack(h, d), r = Res(d, o)
      PROVE  r.got = <<>> /\ Leaves(h, c, c.peer, r)
  <2>1. r.c = d /\ r.out = o /\ r.got = <<>>
    BY <1>5 DEF Res
  <2> QED
    BY <1>5, <2>1, AwayIs
<1>6. Used(e) /\ ~Open(e) /\ e.rcv + l \in Nat /\ e.rcv + l + 1 \in Nat
  BY <1>1, <1>3, <1>4 DEF Used, Open
<1>7. ASSUME r = Res(Closed, {})
      PROVE  r.got = <<>> /\ Quits(h, c, r)
  BY <1>7, SmallSets DEF Res, Quits
<1>8. CASE c.st = "LAST_ACK"
  <2>1. r = Res(Closed, {}) \/ r = Res(e, {})
    BY <1>2, <1>3, <1>8 DEF InState, InLastAck
  <2> QED
    BY <1>3, <1>5, <1>6, <1>7, <2>1
<1>9. CASE c.st = "CLOSING"
  <2> DEFINE d == To(e, "TIME_WAIT")
  <2>1. r = Res(d, {}) \/ r = Res(e, {})
    BY <1>2, <1>3, <1>9 DEF InState, InClosing
  <2>2. d \in ConnRec /\ SameEnd(c, d) /\ d.peer = c.peer /\ d.pos = c.pos /\ d.st = "TIME_WAIT"
    BY <1>3, States DEF To, ConnRec, SameEnd
  <2>3. Used(d) /\ ~Open(d)
    BY <2>2 DEF Used, Open
  <2> HIDE DEF d
  <2> QED
    BY <1>3, <1>5, <1>6, <2>1, <2>2, <2>3
<1>10. CASE c.st = "TIME_WAIT"
  <2>1. r = Res(e, Ack(h, e))
    BY <1>2, <1>3, <1>10 DEF InState, InTimeWait
  <2> QED
    BY <1>3, <1>5, <1>6, <2>1
<1> DEFINE d == [e EXCEPT !.rcv = @ + l]
<1>11. /\ d \in ConnRec /\ SameEnd(c, d) /\ d.peer = c.peer /\ d.pos = c.pos /\ d.st = c.st /\ d.rcv = e.rcv + l
  BY <1>3, <1>6 DEF ConnRec, SameEnd
<1> HIDE DEF d
<1>12. Used(d) /\ ~Open(d)
  BY <1>11 DEF Used, Open
<1>13. ASSUME NEW t, t = "TIME_WAIT" \/ t = "CLOSING", NEW n \in 0 .. UIP_TCP_MSS,
              NEW z, z = [To(d, t) EXCEPT !.rcv = @ + 1, !.len = n]
       PROVE  z \in ConnRec /\ SameEnd(c, z) /\ z.peer = c.peer /\ z.pos = c.pos /\ Used(z) /\ ~Open(z)
  <2>1. /\ z \in ConnRec /\ SameEnd(c, z) /\ z.peer = c.peer /\ z.pos = c.pos /\ z.st = t
    BY <1>6, <1>11, <1>13, States DEF To, ConnRec, SameEnd
  <2> QED
    BY <1>13, <2>1 DEF Used, Open
<1>14. CASE c.st = "FIN_WAIT_1"
  <2> DEFINE g == [To(d, "FIN_WAIT_2") EXCEPT !.len = 0]
  <2>1. g \in ConnRec /\ SameEnd(c, g) /\ g.peer = c.peer /\ g.pos = c.pos /\ g.st = "FIN_WAIT_2"
    BY <1>11, Limits, States DEF To, ConnRec, SameEnd
  <2>2. Used(g) /\ ~Open(g)
    BY <2>1 DEF Used, Open
  <2>3. r \in InFinWait1(h, e, s, x)
    BY <1>2, <1>3, <1>4, <1>14 DEF InState
  <2>4. PICK t, n, z : /\ t = IF x THEN "TIME_WAIT" ELSE "CLOSING"
                       /\ n = IF x THEN 0 ELSE d.len
                       /\ z = [To(d, t) EXCEPT !.rcv = @ + 1, !.len = n]
    OBVIOUS
  <2>5. n \in 0 .. UIP_TCP_MSS
    BY <1>11, <2>4, Limits DEF ConnRec
  <2>6. z = [To(d, t) EXCEPT !.rcv = @ + 1, !.len = IF x THEN 0 ELSE @]
    BY <1>11, <2>4 DEF To, ConnRec
  <2>7. r = Res(z, Ack(h, z)) \/ r = Res(g, {}) \/ r = Res(d, IF s.data # <<>> THEN Ack(h, d) ELSE {})
    BY <1>4, <2>3, <2>4, <2>6 DEF InFinWait1, d
  <2>8. z \in ConnRec /\ SameEnd(c, z) /\ z.peer = c.peer /\ z.pos = c.pos /\ Used(z) /\ ~Open(z)
    BY ZenonT(60), <1>13, <2>4, <2>5
  <2> HIDE DEF g
  <2> QED
    BY <1>5, <1>11, <1>12, <2>1, <2>2, <2>7, <2>8
<1>15. CASE c.st = "FIN_WAIT_2"
  <2>1. r \in InFinWait2(h, e, s)
    BY <1>2, <1>3, <1>15 DEF InState
  <2>2. PICK t, z : t = "TIME_WAIT" /\ z = [To(d, t) EXCEPT !.rcv = @ + 1]
    OBVIOUS
  <2>3. r = Res(z, Ack(h, z)) \/ r = Res(d, IF s.data # <<>> THEN Ack(h, d) ELSE {})
    BY <1>4, <2>1, <2>2 DEF InFinWait2, d
  <2>4. z \in ConnRec /\ SameEnd(c, z) /\ z.peer = c.peer /\ z.pos = c.pos /\ z.st = "TIME_WAIT"
    BY <1>6, <1>11, <2>2, States DEF To, ConnRec, SameEnd
  <2>5. Used(z) /\ ~Open(z)
    BY <2>4 DEF Used, Open
  <2> QED
    BY <1>5, <1>11, <1>12, <2>3, <2>4, <2>5
<1> QED
  BY <1>1, <1>8, <1>9, <1>10, <1>14, <1>15 DEF State, Open, Used

LEMMA OutOfOrderIs ==
  ASSUME NEW h \in Host, NEW c, ConnOK(h, c), Used(c), c.st \notin Early, NEW s,
         NEW r, r = Res(c, Ack(h, c))
  PROVE  r.got = <<>> /\ (Leaves(h, c, c.peer, r) \/ Goes(h, c, s, r))
<1>1. c \in ConnRec /\ c.st \in State /\ c.rip \in Host /\ SameEnd(c, c) /\ c.rcv \in Nat
  BY ConnFields DEF ConnOK, SameEnd
<1>2. r.c = c /\ r.out = Ack(h, c) /\ r.got = <<>>
  BY DEF Res
<1>3. CASE ~Open(c)
  BY <1>1, <1>2, <1>3, AwayIs
<1>4. CASE c.st = "ESTABLISHED"
  <2> DEFINE z == Seg(h, c, Bare, <<>>)
  <2>1. Bare \in FlagSets /\ Bare # Rst /\ Bare # Syn
    BY FlagsDiffer DEF FlagSets
  <2>2. Sends(h, c, z) /\ z.flags = Bare /\ z.data = <<>> /\ z.seq = c.snd /\ z.ack = c.rcv
    BY <1>1, <2>1, SendsEmpty
  <2>3. r.out = {z}
    BY <1>2 DEF Ack, Bare
  <2> HIDE DEF z
  <2>4. Flows(h, c, r)
    BY <1>1, <1>2, <1>4, <2>2, <2>3, SmallSets DEF Flows
  <2>5. r.c.rcv = c.rcv + Len(r.got)
    BY <1>1, <1>2, Empty
  <2> QED
    BY <1>2, <1>4, <2>4, <2>5 DEF Goes, Moves
<1> QED
  BY <1>1, <1>3, <1>4, Sorts

\* All that a segment can do.
Outcome(h, c, s, r) ==
  /\ r.got = <<>> \/ (r.got = s.data /\ s.seq = c.rcv /\ c.st \in {"SYN_RCVD", "ESTABLISHED"})
  /\ \/ Quits(h, c, r)
     \/ Leaves(h, c, c.peer, r) /\ c.st \notin Early
     \/ Opening(h, c, r) /\ r.got = <<>>
     \/ Goes(h, c, s, r)
     \/ Opens(h, c, s, r)
     \/ Answers(h, c, s, r)

LEMMA HandledIs ==
  ASSUME NEW h \in Host, NEW c, ConnOK(h, c), Used(c), NEW s \in SegRec, Along(s, c.rip, c.rport, h, c.lport),
         c.st \in Early => ~OutOfOrder(c, s),
         c.st = "SYN_SENT" /\ AckData(c, s) => s.flags = Rst \/ s.flags = SynAck,
         NEW r \in Handled(h, c, s)
  PROVE  Outcome(h, c, s, r)
<1>1. c \in ConnRec /\ c.st \in State /\ s.flags \in FlagSets
  BY ConnFields, SegFields DEF ConnOK
<1>2. CASE s.flags = Rst
  <2>1. r = Res(Closed, {})
    BY <1>1, <1>2, FlagsAre DEF Handled
  <2> QED
    BY <2>1, SmallSets DEF Outcome, Quits, Res
<1>3. CASE s.flags # Rst /\ OutOfOrder(c, s)
  <2>1. r = Res(c, Ack(h, c)) /\ c.st \notin Early
    BY <1>1, <1>3, FlagsAre DEF Handled
  <2> QED
    BY <2>1, OutOfOrderIs DEF Outcome
<1>4. CASE s.flags # Rst /\ ~OutOfOrder(c, s)
  <2>1. PICK e, x : /\ e = Acknowledged(c, s) /\ x = AckData(c, s)
                    /\ r \in InState(h, e, s, x)
    BY <1>1, <1>4, FlagsAre DEF Handled
  <2>2. e.st = c.st
    BY <2>1, AcknowledgedIs
  <2>3. CASE c.st = "SYN_RCVD"
    <3>1. r \in InSynRcvd(h, e, s, x)
      BY <2>1, <2>2, <2>3 DEF InState
    <3>2. /\ r.got = <<>> \/ (r.got = s.data /\ s.seq = c.rcv)
          /\ \/ Opening(h, c, r) /\ r.got = <<>>
             \/ Opens(h, c, s, r)
      BY <1>4, <2>1, <2>3, <3>1, InSynRcvdIs
    <3> QED
      BY <2>3, <3>2 DEF Outcome
  <2>4. CASE c.st = "SYN_SENT"
    <3>1. r \in InSynSent(h, e, s, x)
      BY <2>1, <2>2, <2>4 DEF InState
    <3>2. r.got = <<>> /\ (Opening(h, c, r) \/ Answers(h, c, s, r))
      BY <1>4, <2>1, <2>4, <3>1, InSynSentIs
    <3> QED
      BY <3>2 DEF Outcome
  <2>5. CASE c.st = "ESTABLISHED"
    <3>1. r \in InEstablished(h, e, s, x)
      BY <2>1, <2>2, <2>5 DEF InState
    <3>2. /\ r.got = <<>> \/ (r.got = s.data /\ s.seq = c.rcv)
          /\ \/ Quits(h, c, r)
             \/ Leaves(h, c, c.peer, r)
             \/ Goes(h, c, s, r)
      BY <1>4, <2>1, <2>5, <3>1, InEstablishedIs
    <3> QED
      BY <1>1, <2>5, <3>2, Sorts DEF Outcome
  <2>6. CASE ~Open(c)
    <3>1. r.got = <<>> /\ (Quits(h, c, r) \/ Leaves(h, c, c.peer, r))
      BY <2>1, <2>6, InAwayIs
    <3> QED
      BY <1>1, <2>6, <3>1, Sorts DEF Outcome
  <2> QED
    BY <1>1, <2>3, <2>4, <2>5, <2>6, Sorts DEF Early
<1> QED
  BY <1>2, <1>3, <1>4

-----------------------------------------------------------------------------
(* A step, and the pairs of ends.                                            *)

Same(y) == from'[y] = from[y] /\ read'[y] = read[y] /\ told'[y] = told[y] /\ left'[y] = left[y]

Grows(y) ==
  /\ from[y] # 0 => from'[y] = from[y]
  /\ left[y] => left'[y]
  /\ Len(read[y]) \in Nat /\ Len(read'[y]) \in Nat /\ Len(read[y]) <= Len(read'[y])

\* What x has read of the stream of k is as before, or longer by a segment.
Gets(h, p, g, q, k, b, x) ==
  \/ read'[x] = read[x]
  \/ /\ Both(k, x)
     /\ \E s \in net : /\ Along(s, h, p, g, q) /\ s.data # <<>> /\ s.seq = b + Len(read[x])
                       /\ Len(read'[x]) = Len(read[x]) + Len(s.data)

LEMMA SegStays ==
  ASSUME NEW k \in Number0, NEW x \in Number0, NEW b \in Nat, NEW a \in Nat, NEW s \in SegRec,
         k # 0 => Grows(k), x # 0 => Grows(x), SegOK(s, k, b, x, a)
  PROVE  SegOK(s, k, b, x, a)'
<1>1. s.flags \in FlagSets /\ s.ack \in Nat /\ s.seq \in Nat
  BY SegFields
<1>2. s.flags = Rst \/ s.flags = Syn \/ s.flags = SynAck \/ s.flags = Bare \/ s.flags = Fin
  BY <1>1, FlagsAre
<1>3. /\ s.flags # Bare => s.data = <<>>
      /\ s.flags # Rst => k # 0
      /\ s.flags = Syn \/ s.flags = SynAck => s.id = k /\ s.seq + 1 = b
  BY DEF SegOK
<1>4. s.flags = SynAck => x # 0 /\ from'[k] = x
  BY <1>3, FlagsDiffer DEF SegOK, Grows
<1>5. Both(k, x) /\ k # 0 => Both(k, x)'
  BY DEF Both, Grows
<1>6. s.flags = Fin \/ s.flags = Bare => Both(k, x)'
  BY <1>3, <1>5, FlagsDiffer DEF SegOK
<1>7. s.flags = SynAck \/ s.flags = Bare => AckOK(s, k, a)'
  <2>1. SUFFICES ASSUME s.flags = SynAck \/ s.flags = Bare
                 PROVE  AckOK(s, k, a)'
    OBVIOUS
  <2>2. k # 0 /\ AckOK(s, k, a)
    BY <1>3, <2>1, FlagsDiffer DEF SegOK
  <2> QED
    BY <1>1, <2>2 DEF AckOK, Grows
<1>8. s.flags = Fin => left'[k]
  BY <1>3, FlagsDiffer DEF SegOK, Grows
<1>9. s.flags = Bare => DataOK(s, k, b, x)'
  <2>1. SUFFICES ASSUME s.flags = Bare
                 PROVE  DataOK(s, k, b, x)'
    OBVIOUS
  <2>2. x # 0 /\ DataOK(s, k, b, x)
    BY <2>1 DEF SegOK, Both
  <2> QED
    BY <1>1, <2>2 DEF DataOK, Grows
<1> QED
  BY <1>3, <1>4, <1>6, <1>7, <1>8, <1>9 DEF SegOK

\* An end that does nothing itself; the other may have read what it sent.
Resets(s) == s.flags = Rst /\ s.data = <<>>

LEMMA EndStays ==
  ASSUME NEW h, NEW p, NEW g, NEW q, NEW k \in Number0, NEW x \in Number0, NEW b \in Nat, NEW a \in Nat,
         NEW c \in ConnRec, c.id # 0, EndOK(c, h, p, g, q, k, b, x, a),
         \A s \in net : s \in SegRec,
         \A s \in net : Along(s, h, p, g, q) => SegOK(s, k, b, x, a),
         \A s \in net' : Along(s, h, p, g, q) => s \in net \/ Resets(s),
         Same(k), x # 0 => Grows(x) /\ Gets(h, p, g, q, k, b, x)
  PROVE  EndOK(c, h, p, g, q, k, b, x, a)'
<1>1. /\ c.id = k /\ k # 0 /\ c.st \in State /\ c.snd \in Nat /\ c.rcv \in Nat /\ c.len \in Nat /\ c.pos \in Nat
  BY ConnFields DEF EndOK
<1>2. Both(k, x) => Both(k, x)'
  BY <1>1 DEF Both, Same, Grows
<1>3. IF Open(c) THEN ~left'[k] /\ told'[k] = c.pos ELSE left'[k] /\ Both(k, x)' /\ c.peer = x
  BY <1>2, Zenon DEF EndOK, Same
<1>4. \A s \in net : Along(s, h, p, g, q) /\ s.data # <<>> => Both(k, x) /\ s.flags = Bare
  BY DEF SegOK
<1>5. ASSUME c.st = "SYN_SENT"
      PROVE  SynSentOK(c, k, b, x)'
  <2>1. SynSentOK(c, k, b, x)
    BY <1>5 DEF EndOK
  <2>2. x # 0 => ~Both(k, x)
    BY <2>1 DEF SynSentOK, Both
  <2>3. x # 0 => read'[x] = <<>>
    BY <2>1, <2>2 DEF Gets, SynSentOK
  <2> QED
    BY <2>1, <2>3 DEF SynSentOK, Same
<1>6. ASSUME c.st = "SYN_RCVD"
      PROVE  SynRcvdOK(c, h, p, g, q, k, b, x, a)'
  <2>1. SynRcvdOK(c, h, p, g, q, k, b, x, a)
    BY <1>6 DEF EndOK
  <2>2. \A s \in net : ~(Along(s, h, p, g, q) /\ s.data # <<>>)
    BY <1>4, <2>1, FlagsDiffer DEF SynRcvdOK
  <2>3. x # 0 /\ read'[x] = <<>>
    BY <2>1, <2>2 DEF Gets, SynRcvdOK
  <2> QED
    BY <2>1, <2>3 DEF SynRcvdOK, Same, Resets
<1>7. ASSUME c.st = "ESTABLISHED"
      PROVE  FlowOK(c, h, p, g, q, k, b, x, a)'
  <2>1. FlowOK(c, h, p, g, q, k, b, x, a)
    BY <1>7 DEF EndOK
  <2>2. x # 0 /\ Grows(x) /\ Gets(h, p, g, q, k, b, x)
    BY <2>1 DEF FlowOK, Both
  <2>3. left[x] => left'[x]
    BY <2>2 DEF Grows
  <2>4. ASSUME Synced(c, h, p, g, q, b, x)
        PROVE  Synced(c, h, p, g, q, b, x)'
    <3>1. Len(read'[x]) = c.pos \/ Len(read'[x]) = c.pos + c.len
      <4>1. CASE read'[x] = read[x]
        BY <2>4, <4>1 DEF Synced
      <4>2. CASE read'[x] # read[x]
        <5>1. PICK s \in net : /\ Along(s, h, p, g, q) /\ s.data # <<>> /\ s.seq = b + Len(read[x])
                               /\ Len(read'[x]) = Len(read[x]) + Len(s.data)
          BY <2>2, <4>2 DEF Gets
        <5>2. Len(s.data) \in Nat /\ Len(s.data) > 0 /\ s.seq \in Nat /\ Len(read[x]) \in Nat
          BY <2>2, <5>1, SegFields DEF Grows
        <5>3. (s.seq = c.snd /\ Len(s.data) = c.len) \/ s.seq + Len(s.data) <= c.snd
          BY <2>4, <5>1 DEF Synced
        <5>4. c.snd = b + c.pos /\ (Len(read[x]) = c.pos \/ Len(read[x]) = c.pos + c.len)
          BY <2>4 DEF Synced
        <5>5. PICK n, m, o, t : n = Len(read[x]) /\ m = Len(s.data) /\ o = s.seq /\ t = Len(read'[x])
          OBVIOUS
        <5>6. /\ n \in Nat /\ m \in Nat /\ o \in Nat /\ t = n + m
              /\ m > 0 /\ o = b + n /\ c.snd = b + c.pos /\ (n = c.pos \/ n = c.pos + c.len)
              /\ (o = c.snd /\ m = c.len) \/ o + m <= c.snd
          BY <5>1, <5>2, <5>3, <5>4, <5>5
        <5>7. t = c.pos \/ t = c.pos + c.len
          BY <1>1, <5>6
        <5> QED
          BY <5>5, <5>7
      <4> QED
        BY <4>1, <4>2
    <3> QED
      BY <2>4, <3>1 DEF Synced, Resets
  <2>5. c.peer = x /\ Both(k, x)' /\ c.rcv = a + Len(read'[k])
    BY <1>2, <2>1 DEF FlowOK, Same
  <2> QED
    BY <2>1, <2>3, <2>4, <2>5 DEF FlowOK
<1> QED
  BY <1>1, <1>3, <1>5, <1>6, <1>7 DEF EndOK

LEMMA ConnsAre ==
  ASSUME TypeInv, NEW h \in Host, NEW i \in Slot, NEW c, c = conns[h][i]
  PROVE  /\ c \in ConnRec /\ ConnOK(h, c) /\ c.id <= born /\ born \in Nat /\ born <= MaxConn
         /\ Used(c) => c.id \in ConnId /\ c.id # 0 /\ c.rip \in Host /\ Apart(c.lport, c.rport)
         /\ ~Used(c) => c = Closed
<1>1. c \in ConnRec /\ ConnOK(h, c) /\ c.id <= born /\ born \in Nat /\ born <= MaxConn
  BY ConstFacts DEF TypeInv
<1>2. c.id \in Nat /\ c.id <= MaxConn
  BY <1>1, ConnFields
<1>3. Used(c) => c.id # 0 /\ c.rip \in Host /\ Apart(c.lport, c.rport)
  BY <1>1 DEF ConnOK
<1>4. ~Used(c) => c = Closed
  BY <1>1 DEF ConnOK
<1> QED
  BY <1>1, <1>2, <1>3, <1>4, ConstFacts DEF ConnId

LEMMA HistoryIs ==
  ASSUME TypeInv, NEW y \in Number0, y # 0
  PROVE  /\ y \in ConnId /\ from[y] \in Number0 /\ read[y] \in Seq(Nat) /\ Len(read[y]) \in Nat
         /\ told[y] \in Nat /\ left[y] \in BOOLEAN
BY ConstFacts DEF TypeInv, ConnId, Number0

LEMMA SameGrows ==
  ASSUME TypeInv, NEW y \in Number0, y # 0, Same(y)
  PROVE  Grows(y)
BY HistoryIs DEF Same, Grows

LEMMA HalfStays ==
  ASSUME TypeInv, NEW h \in Host, NEW p, NEW g, NEW q, NEW k \in Number0, NEW x \in Number0,
         NEW b \in Nat, NEW a \in Nat, Half(h, p, g, q, k, b, x, a),
         \A i \in Slot : On(conns'[h][i], p, g, q) => conns'[h][i] = conns[h][i],
         \A f \in Host, i \in Slot : Used(conns'[f][i]) /\ conns'[f][i].id = k => conns'[f][i] = conns[f][i],
         \A s \in net' : Along(s, h, p, g, q) => s \in net \/ Resets(s),
         k # 0 => Same(k), x # 0 => Grows(x) /\ Gets(h, p, g, q, k, b, x)
  PROVE  Half(h, p, g, q, k, b, x, a)'
<1>1. \A s \in net : s \in SegRec
  BY DEF TypeInv
<1>2. \A s \in net : Along(s, h, p, g, q) => SegOK(s, k, b, x, a)
  BY DEF Half
<1>3. k # 0 => Grows(k)
  BY SameGrows
<1>4. ASSUME NEW i \in Slot, On(conns'[h][i], p, g, q)
      PROVE  EndOK(conns[h][i], h, p, g, q, k, b, x, a)'
  <2>1. PICK c : c = conns[h][i] /\ c = conns'[h][i]
    BY <1>4
  <2>2. On(c, p, g, q) /\ EndOK(c, h, p, g, q, k, b, x, a)
    BY <1>4, <2>1 DEF Half
  <2>3. c \in ConnRec /\ c.id # 0
    BY <2>1, <2>2, ConnsAre DEF On
  <2>4. k # 0
    BY <2>2, <2>3 DEF EndOK
  <2>5. EndOK(c, h, p, g, q, k, b, x, a)'
    BY <1>1, <1>2, <2>2, <2>3, <2>4, EndStays
  <2> QED
    BY <2>1, <2>5
<1>5. ASSUME NEW s \in net', Along(s, h, p, g, q)
      PROVE  SegOK(s, k, b, x, a)'
  <2>1. CASE s \in net
    BY <1>1, <1>2, <1>3, <1>5, <2>1, SegStays
  <2>2. CASE Resets(s)
    BY <2>2, FlagsDiffer DEF SegOK, Resets
  <2> QED
    BY <1>5, <2>1, <2>2
<1>6. ASSUME NEW f \in Host, NEW i \in Slot, Used(conns'[f][i]), conns'[f][i].id = k
      PROVE  f = h /\ On(conns'[f][i], p, g, q)
  BY <1>6 DEF Half
<1>7. p \in ListenPort /\ k # 0 => x # 0 /\ from'[k] = x
  BY DEF Half, Same
<1>8. k # 0 /\ x = 0 => read'[k] = <<>>
  BY DEF Half, Same
<1> QED
  BY <1>4, <1>5, <1>6, <1>7, <1>8 DEF Half

\* The end that changes.
LEMMA HalfMoves ==
  ASSUME TypeInv, Unique, NEW h \in Host, NEW p, NEW g, NEW q, NEW k \in Number0, NEW x \in Number0,
         NEW b \in Nat, NEW a \in Nat, Half(h, p, g, q, k, b, x, a),
         NEW i \in Slot, NEW c, c = conns[h][i], On(c, p, g, q),
         NEW d, conns'[h][i] = d,
         \A f \in Host, j \in Slot : f # h \/ j # i => conns'[f][j] = conns[f][j],
         d = Closed \/ (SameEnd(c, d) /\ EndOK(d, h, p, g, q, k, b, x, a)'),
         \A s \in net' : Along(s, h, p, g, q) => s \in net \/ SegOK(s, k, b, x, a)',
         Grows(k), x # 0 => Grows(x), x = 0 => read'[k] = read[k]
  PROVE  Half(h, p, g, q, k, b, x, a)'
<1>1. c.id = k /\ k # 0 /\ Used(c)
  BY ConnsAre DEF Half, On, EndOK
<1>2. ~Used(Closed) /\ \A z : On(z, p, g, q) => Used(z)
  BY ClosedIs DEF On
<1>3. ASSUME NEW j \in Slot, On(conns'[h][j], p, g, q)
      PROVE  EndOK(conns[h][j], h, p, g, q, k, b, x, a)'
  <2>1. CASE j = i
    BY <1>2, <1>3, <2>1
  <2>2. CASE j # i
    <3>1. On(conns[h][j], p, g, q)
      BY <1>3, <2>2
    <3>2. conns[h][j].id = k
      BY <3>1 DEF Half, EndOK
    <3> QED
      BY <1>1, <2>2, <3>2 DEF Unique
  <2> QED
    BY <2>1, <2>2
<1>4. ASSUME NEW s \in net', Along(s, h, p, g, q)
      PROVE  SegOK(s, k, b, x, a)'
  <2>1. CASE s \in net
    <3>1. s \in SegRec /\ SegOK(s, k, b, x, a)
      BY <1>4, <2>1 DEF TypeInv, Half
    <3> QED
      BY <3>1, SegStays
  <2> QED
    BY <1>4, <2>1
<1>5. ASSUME NEW f \in Host, NEW j \in Slot, Used(conns'[f][j]), conns'[f][j].id = k
      PROVE  f = h /\ On(conns'[f][j], p, g, q)
  <2>1. CASE f = h /\ j = i
    <3>1. SameEnd(c, d) /\ Used(d)
      BY <1>2, <1>5, <2>1
    <3> QED
      BY <2>1, <3>1 DEF SameEnd, On
  <2>2. CASE f # h \/ j # i
    BY <1>5, <2>2 DEF Half
  <2> QED
    BY <2>1, <2>2
<1>6. p \in ListenPort /\ k # 0 => x # 0 /\ from'[k] = x
  BY DEF Half, Grows
<1>7. k # 0 /\ x = 0 => read'[k] = <<>>
  BY DEF Half
<1> QED
  BY <1>3, <1>4, <1>5, <1>6, <1>7 DEF Half

\* The numbers of the bytes that connection c has got.
Numbers(c, m) == [j \in DOMAIN m |-> Number(c, m[j])]

\* What Apply does when c = conns[h][i] becomes r.c.
Changes(h, i, c, r) ==
  /\ conns'[h][i] = r.c
  /\ \A f \in Host, j \in Slot : f # h \/ j # i => conns'[f][j] = conns[f][j]
  /\ \A y \in ConnId : y # c.id => Same(y)
  /\ born' = born
  /\ \A s \in net' : s \in net \/ s \in r.out
  /\ from'[c.id] = IF Used(r.c) THEN r.c.peer ELSE from[c.id]
  /\ read'[c.id] = IF r.got # <<>> THEN read[c.id] \o Numbers(c, r.got) ELSE read[c.id]
  /\ told'[c.id] = IF Open(r.c) THEN r.c.pos ELSE told[c.id]
  /\ left'[c.id] = IF Open(r.c) THEN left[c.id] ELSE TRUE

\* Half of a pair that c has no part in.
LEMMA HalfRests ==
  ASSUME TypeInv, NEW h \in Host, NEW i \in Slot, NEW c, c = conns[h][i], Used(c), NEW r, Changes(h, i, c, r),
         r.c = Closed \/ SameEnd(c, r.c), \A s \in r.out : Sends(h, c, s),
         NEW f \in Host, NEW p, NEW g, NEW q, NEW k \in Number0, NEW x \in Number0, NEW b \in Nat, NEW a \in Nat,
         Half(f, p, g, q, k, b, x, a), k # c.id,
         ~(f = h /\ p = c.lport /\ g = c.rip /\ q = c.rport),
         x # 0 => Grows(x) /\ Gets(f, p, g, q, k, b, x)
  PROVE  Half(f, p, g, q, k, b, x, a)'
<1>1. ~Used(Closed) /\ \A z : On(z, p, g, q) => Used(z)
  BY ClosedIs DEF On
<1>2. ASSUME NEW j \in Slot, On(conns'[f][j], p, g, q)
      PROVE  conns'[f][j] = conns[f][j]
  BY <1>1, <1>2 DEF Changes, SameEnd, On
<1>3. ASSUME NEW e \in Host, NEW j \in Slot, Used(conns'[e][j]), conns'[e][j].id = k
      PROVE  conns'[e][j] = conns[e][j]
  BY <1>1, <1>3 DEF Changes, SameEnd
<1>4. ASSUME NEW s \in net', Along(s, f, p, g, q)
      PROVE  s \in net
  BY <1>4 DEF Changes, Sends, Along
<1>5. k # 0 => Same(k)
  BY HistoryIs DEF Changes
<1> QED
  BY <1>2, <1>3, <1>4, <1>5, HalfStays

LEMMA PairsMove ==
  ASSUME TypeInv, Unique, PairsOK, NEW h \in Host, NEW i \in Slot, NEW c, c = conns[h][i], Used(c), NEW r,
         Changes(h, i, c, r), NEW p, NEW g, NEW q, p = c.lport, g = c.rip, q = c.rport,
         NEW k \in 0 .. born, NEW x \in 0 .. born, NEW b \in Nat, NEW a \in Nat, Pair(h, p, g, q, k, b, x, a),
         r.c = Closed \/ (SameEnd(c, r.c) /\ EndOK(r.c, h, p, g, q, k, b, x, a)'),
         \A s \in r.out : Sends(h, c, s) /\ SegOK(s, k, b, x, a)',
         Grows(k), Gets(g, q, h, p, x, a, k), x = 0 => read'[k] = read[k]
  PROVE  PairsOK'
<1>1. /\ c \in ConnRec /\ ConnOK(h, c) /\ born \in Nat /\ born <= MaxConn /\ On(c, p, g, q)
      /\ c.id \in ConnId /\ c.id # 0 /\ g \in Host /\ Apart(p, q) /\ p # q /\ p \in Port /\ q \in Port
  BY ConnsAre, ConnFields DEF Apart, On
<1>2. c.id = k /\ k # 0
  BY <1>1 DEF Pair, Half, EndOK
<1>3. \A y \in 0 .. born : y \in Number0
  BY <1>1, ConstFacts DEF Number0
<1>4. x # k
  BY <1>1, <1>2 DEF Pair, Half, On
<1>5. x # 0 => Same(x) /\ Grows(x)
  BY <1>2, <1>3, <1>4, HistoryIs, SameGrows DEF Changes
<1>6. Half(h, p, g, q, k, b, x, a)'
  <2>1. \A s \in net' : Along(s, h, p, g, q) => s \in net \/ SegOK(s, k, b, x, a)'
    BY DEF Changes
  <2>2. Half(h, p, g, q, k, b, x, a)
    BY DEF Pair
  <2>3. PICK d : d = r.c
    OBVIOUS
  <2>4. /\ conns'[h][i] = d
        /\ \A f \in Host, j \in Slot : f # h \/ j # i => conns'[f][j] = conns[f][j]
    BY <2>3 DEF Changes
  <2>5. d = Closed \/ (SameEnd(c, d) /\ EndOK(d, h, p, g, q, k, b, x, a)')
    BY <2>3
  <2> QED
    BY <1>1, <1>3, <1>5, <2>1, <2>2, <2>4, <2>5, HalfMoves
<1>7. Half(g, q, h, p, x, a, k, b)'
  BY <1>1, <1>2, <1>3, <1>4, <1>5, HalfRests DEF Pair
<1>8. born' = born
  BY DEF Changes
<1>10. ASSUME NEW f \in Host, NEW e \in Host, NEW t, NEW u, NEW l \in Number0, NEW y \in Number0,
              NEW m \in Nat, NEW n \in Nat, Half(f, t, e, u, l, m, y, n), l # k, y # k,
              ~(f = h /\ t = p /\ e = g /\ u = q)
       PROVE  Half(f, t, e, u, l, m, y, n)'
  <2>1. y # 0 => Grows(y) /\ Gets(f, t, e, u, l, m, y)
    BY <1>2, <1>10, HistoryIs, SameGrows DEF Changes, Gets, Same
  <2>2. l # c.id /\ ~(f = h /\ t = c.lport /\ e = c.rip /\ u = c.rport)
    BY <1>2, <1>10
  <2>3. (r.c = Closed \/ SameEnd(c, r.c)) /\ \A s \in r.out : Sends(h, c, s)
    OBVIOUS
  <2> QED
    BY <1>10, <2>1, <2>2, <2>3, HalfRests
<1>9. ASSUME NEW f \in Host, NEW e \in Host, NEW t \in Port, NEW u \in Port, Apart(t, u)
      PROVE  \E l, y \in 0 .. born : \E m, n \in Nat : Pair(f, t, e, u, l, m, y, n)'
  <2>1. CASE f = h /\ t = p /\ e = g /\ u = q
    BY <1>6, <1>7, <2>1 DEF Pair
  <2>2. CASE f = g /\ t = q /\ e = h /\ u = p
    BY <1>6, <1>7, <2>2 DEF Pair
  <2>3. CASE ~(f = h /\ t = p /\ e = g /\ u = q) /\ ~(f = g /\ t = q /\ e = h /\ u = p)
    <3>1. PICK l, y \in 0 .. born : \E m, n \in Nat : Pair(f, t, e, u, l, m, y, n)
      BY <1>9 DEF PairsOK
    <3>2. PICK m, n \in Nat : Pair(f, t, e, u, l, m, y, n)
      BY <3>1
    <3>3. l # k /\ y # k
      <4>1. Used(conns[h][i]) /\ conns[h][i].id = k /\ conns[h][i] = c /\ i \in Slot /\ h \in Host
        BY <1>1, <1>2 DEF On, Changes
      <4>2. Half(f, t, e, u, l, m, y, n) /\ Half(e, u, f, t, y, n, l, m)
        BY <3>2 DEF Pair
      <4>3. l = k => h = f /\ On(c, t, e, u)
        BY <4>1, <4>2 DEF Half
      <4>4. y = k => h = e /\ On(c, u, f, t)
        BY <4>1, <4>2 DEF Half
      <4> QED
        BY <2>3, <4>3, <4>4 DEF On
    <3>4. l \in Number0 /\ y \in Number0 /\ Half(f, t, e, u, l, m, y, n) /\ Half(e, u, f, t, y, n, l, m)
      BY <1>3, <3>2 DEF Pair
    <3>5. Half(f, t, e, u, l, m, y, n)'
      BY <1>10, <2>3, <3>3, <3>4
    <3>6. Half(e, u, f, t, y, n, l, m)'
      BY <1>10, <2>3, <3>3, <3>4
    <3> QED
      BY <3>5, <3>6 DEF Pair
  <2> QED
    BY <2>1, <2>2, <2>3
<1> QED
  BY <1>8, <1>9 DEF PairsOK

-----------------------------------------------------------------------------
(* The kinds of results keep the pair of connection c, and are steps of the   *)
(* stream that it reads.                                                      *)

Meets(k) == from'[k] # from[k] => from[k] = 0 /\ read[k] = <<>>

Tells(k, x) == told'[k] # told[k] =>
  told'[k] > told[k] /\ x # 0 /\ from[x] = k /\ (told'[k] <= Len(read[x]) \/ left[x])

\* The connection acts, and reads what it has got.
Acts(h, i, c, r, k, b, x, a) ==
  /\ k \in Number0 /\ k # 0 /\ x \in Number0 /\ x # k /\ b \in Nat /\ a \in Nat
  /\ c \in ConnRec /\ Used(c) /\ c.id = k
  /\ EndOK(c, h, c.lport, c.rip, c.rport, k, b, x, a)
  /\ \A s \in net : Along(s, h, c.lport, c.rip, c.rport) => s \in SegRec /\ SegOK(s, k, b, x, a)
  /\ Changes(h, i, c, r)
  /\ x # 0 => Same(x) /\ Len(read[x]) \in Nat
  /\ Len(r.got) \in Nat /\ Len(read[k]) \in Nat /\ Len(read'[k]) = Len(read[k]) + Len(r.got)
  /\ left[k] \in BOOLEAN

Fine(h, c, r, k, b, x, a) ==
  /\ r.c = Closed \/ (SameEnd(c, r.c) /\ EndOK(r.c, h, c.lport, c.rip, c.rport, k, b, x, a)')
  /\ \A s \in r.out : Sends(h, c, s) /\ SegOK(s, k, b, x, a)'
  /\ Grows(k) /\ Meets(k) /\ Tells(k, x)

\* The two read each other's streams, or k is about to.
Joins(d, k, x) == /\ d.peer = x /\ x # 0 /\ from[x] = k
                  /\ from[k] = x \/ (from[k] = 0 /\ read[k] = <<>>)

LEMMA LengthsGrow ==
  ASSUME NEW h, NEW i, NEW c, NEW r, NEW k, NEW b, NEW x, NEW a, Acts(h, i, c, r, k, b, x, a)
  PROVE  Len(read[k]) \in Nat /\ Len(read'[k]) \in Nat /\ Len(read[k]) <= Len(read'[k])
<1>1. PICK n, m, l : n = Len(read[k]) /\ m = Len(read'[k]) /\ l = Len(r.got)
  OBVIOUS
<1>2. n \in Nat /\ l \in Nat /\ m = n + l
  BY <1>1 DEF Acts
<1>3. m \in Nat /\ n <= m
  BY <1>2
<1> QED
  BY <1>1, <1>2, <1>3

LEMMA QuitStep ==
  ASSUME NEW h, NEW i, NEW c, NEW r, NEW k, NEW b, NEW x, NEW a, Acts(h, i, c, r, k, b, x, a),
         Quits(h, c, r)
  PROVE  Fine(h, c, r, k, b, x, a)
<1>1. r.c = Closed /\ ~Used(r.c) /\ ~Open(r.c) /\ c.id = k
  BY ClosedIs DEF Quits, Acts
<1>2. from'[k] = from[k] /\ told'[k] = told[k] /\ left'[k]
  BY <1>1 DEF Acts, Changes
<1>3. \A s \in r.out : Sends(h, c, s) /\ SegOK(s, k, b, x, a)'
  BY FlagsDiffer DEF Quits, SegOK
<1>4. Grows(k)
  BY <1>2, LengthsGrow DEF Grows
<1> QED
  BY <1>1, <1>2, <1>3, <1>4 DEF Fine, Meets, Tells

LEMMA LeaveStep ==
  ASSUME NEW h, NEW i, NEW c, NEW r, NEW k, NEW b, NEW x, NEW a, Acts(h, i, c, r, k, b, x, a),
         Leaves(h, c, x, r), Joins(r.c, k, x)
  PROVE  Fine(h, c, r, k, b, x, a)
<1>0. /\ x # 0 /\ from[x] = k
      /\ from[k] = x \/ (from[k] = 0 /\ read[k] = <<>>)
  BY DEF Joins
<1>1. /\ Used(r.c) /\ ~Open(r.c) /\ c.id = k /\ r.c.peer = x /\ k # 0 /\ SameEnd(c, r.c)
      /\ r.c.st # "SYN_SENT" /\ r.c.st # "SYN_RCVD" /\ r.c.st # "ESTABLISHED"
  BY DEF Leaves, Acts, Open
<1>2. from'[k] = x /\ told'[k] = told[k] /\ left'[k] /\ from'[x] = k
  BY <1>0, <1>1 DEF Acts, Changes, Same
<1>3. ASSUME NEW s \in r.out
      PROVE  Sends(h, c, s) /\ SegOK(s, k, b, x, a)'
  <2>1. Sends(h, c, s) /\ (s.flags = Bare \/ s.flags = Fin) /\ s.data = <<>>
    BY DEF Leaves
  <2> QED
    BY <1>0, <1>1, <1>2, <2>1, FlagsDiffer DEF SegOK, Both, AckOK, DataOK
<1>4. Grows(k)
  BY <1>0, <1>2, LengthsGrow DEF Grows
<1>5. EndOK(r.c, h, c.lport, c.rip, c.rport, k, b, x, a)'
  BY <1>0, <1>1, <1>2 DEF EndOK, SameEnd, Both
<1> QED
  BY <1>0, <1>1, <1>2, <1>3, <1>4, <1>5 DEF Fine, Meets, Tells

LEMMA OpeningStep ==
  ASSUME NEW h, NEW i, NEW c, NEW r, NEW k, NEW b, NEW x, NEW a, Acts(h, i, c, r, k, b, x, a),
         Opening(h, c, r), r.got = <<>>
  PROVE  Fine(h, c, r, k, b, x, a)
<1>1. /\ c.id = k /\ k # 0 /\ SameEnd(c, r.c) /\ r.c.st = c.st /\ r.c.snd = c.snd /\ r.c.rcv = c.rcv
      /\ r.c.len = c.len /\ r.c.pos = c.pos /\ r.c.peer = c.peer /\ (c.st = "SYN_SENT" \/ c.st = "SYN_RCVD")
  BY DEF Opening, Acts
<1>2. Open(c) /\ Open(r.c) /\ Used(r.c) /\ c.st # "ESTABLISHED"
  BY <1>1 DEF Open, Used
<1>3. ~left[k] /\ told[k] = c.pos
  BY <1>2 DEF Acts, EndOK
<1>4. /\ from'[k] = c.peer /\ told'[k] = c.pos /\ ~left'[k] /\ read'[k] = read[k]
      /\ \A s \in net' : s \in net \/ s \in r.out
  BY <1>1, <1>2, <1>3 DEF Acts, Changes
<1>5. x # 0 => read'[x] = read[x]
  BY DEF Acts, Same
<1>6. CASE c.st = "SYN_SENT"
  <2>1. SynSentOK(c, k, b, x)
    BY <1>6 DEF Acts, EndOK
  <2>2. from'[k] = from[k]
    BY <1>4, <2>1 DEF SynSentOK
  <2>3. SynSentOK(r.c, k, b, x)'
    BY <1>1, <1>4, <1>5, <2>1, <2>2 DEF SynSentOK
  <2>4. EndOK(r.c, h, c.lport, c.rip, c.rport, k, b, x, a)'
    BY <1>1, <1>2, <1>4, <1>6, <2>3 DEF EndOK, SameEnd
  <2>5. ASSUME NEW s \in r.out
        PROVE  Sends(h, c, s) /\ SegOK(s, k, b, x, a)'
    <3>1. Sends(h, c, s) /\ s.data = <<>> /\ (s.flags = Rst \/ (s.flags = Syn /\ s.seq = c.snd /\ s.id = k))
      BY <1>1, <1>6 DEF Opening
    <3>2. c.snd + 1 = b
      BY <2>1 DEF SynSentOK
    <3> QED
      BY <1>1, <3>1, <3>2, FlagsDiffer DEF SegOK
  <2>6. Grows(k)
    BY <1>3, <2>2, LengthsGrow DEF Grows
  <2> QED
    BY <1>1, <1>3, <1>4, <2>2, <2>4, <2>5, <2>6 DEF Fine, Meets, Tells
<1>7. CASE c.st = "SYN_RCVD"
  <2>1. SynRcvdOK(c, h, c.lport, c.rip, c.rport, k, b, x, a)
    BY <1>7 DEF Acts, EndOK
  <2>2. from'[k] = from[k]
    BY <1>4, <2>1 DEF SynRcvdOK
  <2>3. ASSUME NEW s \in r.out
        PROVE  /\ Sends(h, c, s) /\ s.data = <<>>
               /\ s.flags = Rst \/ (s.flags = SynAck /\ s.seq = c.snd /\ s.id = k /\ s.ack = c.rcv)
    BY <1>1, <1>7 DEF Opening
  <2>4. SynRcvdOK(r.c, h, c.lport, c.rip, c.rport, k, b, x, a)'
    BY <1>1, <1>4, <1>5, <2>1, <2>2, <2>3 DEF SynRcvdOK
  <2>5. EndOK(r.c, h, c.lport, c.rip, c.rport, k, b, x, a)'
    BY <1>1, <1>2, <1>4, <1>7, <2>4 DEF EndOK, SameEnd
  <2>6. ASSUME NEW s \in r.out
        PROVE  Sends(h, c, s) /\ SegOK(s, k, b, x, a)'
    <3>1. c.snd + 1 = b /\ c.rcv = a /\ x # 0 /\ from'[k] = x /\ read'[k] = <<>> /\ a \in Nat
      BY <1>4, <2>1, <2>2 DEF SynRcvdOK, Acts
    <3>3. a <= a + Len(read'[k])
      <4>1. Len(read'[k]) = 0
        BY <3>1, Empty
      <4>2. a <= a + 0
        BY <3>1
      <4> QED
        BY <4>1, <4>2
    <3>2. s.flags = SynAck => AckOK(s, k, a)'
      BY <2>3, <3>1, <3>3, FlagsDiffer DEF AckOK
    <3> QED
      BY <1>1, <2>3, <3>1, <3>2, FlagsDiffer DEF SegOK
  <2>7. Grows(k)
    BY <1>3, <2>2, LengthsGrow DEF Grows
  <2> QED
    BY <1>1, <1>3, <1>4, <2>2, <2>5, <2>6, <2>7 DEF Fine, Meets, Tells
<1> QED
  BY <1>1, <1>6, <1>7

\* What the connection sends next follows what the other end has read.
LEMMA FlowEnd ==
  ASSUME NEW h, NEW i, NEW c, NEW r, NEW k, NEW b, NEW x, NEW a, Acts(h, i, c, r, k, b, x, a),
         Flows(h, c, r), Joins(r.c, k, x), r.c.rcv = a + Len(read'[k]), ~left[k],
         left[x] \/ Synced(r.c, h, c.lport, c.rip, c.rport, b, x)
  PROVE  /\ Grows(k) /\ SameEnd(c, r.c) /\ from'[k] = x
         /\ EndOK(r.c, h, c.lport, c.rip, c.rport, k, b, x, a)'
         /\ \A s \in r.out : Sends(h, c, s) /\ SegOK(s, k, b, x, a)'
<1>0. /\ r.c.peer = x /\ x # 0 /\ from[x] = k
      /\ from[k] = x \/ from[k] = 0
  BY DEF Joins
<1>1. /\ c.id = k /\ k # 0 /\ SameEnd(c, r.c) /\ r.c.st = "ESTABLISHED" /\ ConnOK(h, r.c)
      /\ a \in Nat /\ b \in Nat
  BY DEF Flows, Acts
<1>2. Open(r.c) /\ Used(r.c)
  BY <1>1 DEF Open, Used
<1>3. /\ from'[k] = x /\ told'[k] = r.c.pos /\ ~left'[k]
      /\ \A s \in net' : s \in net \/ s \in r.out
  BY <1>0, <1>1, <1>2 DEF Acts, Changes
<1>4. read'[x] = read[x] /\ left'[x] = left[x] /\ from'[x] = k
  BY <1>0 DEF Acts, Same
<1>5. Both(k, x)'
  BY <1>0, <1>3, <1>4 DEF Both
<1>6. Grows(k)
  BY <1>0, <1>3, LengthsGrow DEF Grows
<1>7. r.c.pos \in Nat /\ r.c.len \in Nat /\ r.c.snd \in Nat /\ r.c.rcv \in Nat
  BY <1>1, ConnFields DEF ConnOK
<1>8. \A s \in r.out :
        /\ Sends(h, c, s) /\ s.flags = Bare /\ s.seq = r.c.snd /\ s.ack = r.c.rcv
        /\ s.data = <<>> \/ ( /\ Len(s.data) = r.c.len /\ DOMAIN s.data = 1 .. r.c.len
                              /\ \A j \in DOMAIN s.data : s.data[j].of = k /\ s.data[j].n = r.c.pos + j )
  BY <1>1 DEF Flows
<1>9. left[x] \/ Synced(r.c, h, c.lport, c.rip, c.rport, b, x)'
  <2>1. SUFFICES ASSUME ~left[x]
                 PROVE  Synced(r.c, h, c.lport, c.rip, c.rport, b, x)'
    OBVIOUS
  <2>2. ASSUME NEW s \in net', Along(s, h, c.lport, c.rip, c.rport), s.data # <<>>
        PROVE  (s.seq = r.c.snd /\ Len(s.data) = r.c.len) \/ s.seq + Len(s.data) <= r.c.snd
    BY <1>3, <1>8, <2>1, <2>2 DEF Synced
  <2> QED
    BY <1>4, <2>1, <2>2 DEF Synced
<1>10. EndOK(r.c, h, c.lport, c.rip, c.rport, k, b, x, a)'
  <2>1. FlowOK(r.c, h, c.lport, c.rip, c.rport, k, b, x, a)'
    BY <1>0, <1>4, <1>5, <1>9 DEF FlowOK
  <2> QED
    BY <1>1, <1>2, <1>3, <2>1 DEF EndOK, SameEnd
<1>11. ASSUME NEW s \in r.out
       PROVE  Sends(h, c, s) /\ SegOK(s, k, b, x, a)'
  <2>1. AckOK(s, k, a)'
    <3>1. s.ack = a + Len(read'[k]) /\ s.ack \in Nat
      BY <1>7, <1>8
    <3>2. s.ack <= a + Len(read'[k])
      BY <3>1
    <3> QED
      BY <3>2 DEF AckOK
  <2>2. DataOK(s, k, b, x)'
    <3>1. SUFFICES ASSUME ~left[x], s.data # <<>>
                   PROVE  /\ b <= s.seq /\ s.seq <= b + Len(read[x])
                          /\ \A j \in DOMAIN s.data : s.data[j].of = k /\ b + s.data[j].n = s.seq + j
      BY <1>4 DEF DataOK
    <3>2. PICK n : n = Len(read[x])
      OBVIOUS
    <3>3. /\ s.seq = r.c.snd /\ r.c.snd = b + r.c.pos /\ (n = r.c.pos \/ n = r.c.pos + r.c.len)
          /\ DOMAIN s.data = 1 .. r.c.len
          /\ \A j \in DOMAIN s.data : s.data[j].of = k /\ s.data[j].n = r.c.pos + j
      BY <1>8, <3>1, <3>2 DEF Synced
    <3>4. b <= s.seq /\ s.seq <= b + n
      BY <1>1, <1>7, <3>3
    <3>5. ASSUME NEW j \in DOMAIN s.data
          PROVE  s.data[j].of = k /\ b + s.data[j].n = s.seq + j
      <4>1. j \in Nat
        BY <1>7, <3>3
      <4>2. s.data[j].n = r.c.pos + j
        BY <3>3
      <4> QED
        BY <1>1, <1>7, <3>3, <4>1, <4>2
    <3> QED
      BY <3>2, <3>4, <3>5
  <2> QED
    BY <1>0, <1>1, <1>5, <1>8, <2>1, <2>2, FlagsDiffer DEF SegOK
<1> QED
  BY <1>1, <1>3, <1>6, <1>10, <1>11

LEMMA FlowStep ==
  ASSUME NEW h, NEW i, NEW c, NEW r, NEW k, NEW b, NEW x, NEW a, Acts(h, i, c, r, k, b, x, a),
         Flows(h, c, r), c.st = "ESTABLISHED", r.c.peer = c.peer, r.c.rcv = c.rcv + Len(r.got),
         \/ left[x] /\ r.c.pos = c.pos
         \/ r.c.snd = c.snd /\ r.c.pos = c.pos /\ (c.len = 0 \/ r.c.len = c.len)
         \/ /\ c.len > 0 /\ r.c.snd = c.snd + c.len /\ r.c.pos = c.pos + c.len
            /\ left[x] \/ c.snd + c.len <= b + Len(read[x])
  PROVE  Fine(h, c, r, k, b, x, a)
<1>1. /\ Open(c) /\ c.snd \in Nat /\ c.rcv \in Nat /\ c.len \in Nat /\ c.pos \in Nat /\ a \in Nat /\ b \in Nat
  BY ConnFields DEF Open, Acts
<1>2. FlowOK(c, h, c.lport, c.rip, c.rport, k, b, x, a) /\ ~left[k] /\ told[k] = c.pos
  BY <1>1 DEF Acts, EndOK
<1>3. x # 0 /\ from[k] = x /\ from[x] = k /\ r.c.peer = x /\ c.rcv = a + Len(read[k])
  BY <1>2 DEF FlowOK, Both
<1>4. PICK n, m, l, t : n = Len(read[k]) /\ m = Len(r.got) /\ l = Len(read'[k]) /\ t = Len(read[x])
  OBVIOUS
<1>5. n \in Nat /\ m \in Nat /\ l = n + m /\ t \in Nat
  BY <1>3, <1>4 DEF Acts
<1>6. r.c.rcv = a + Len(read'[k])
  <2>2. r.c.rcv = (a + n) + m
    BY <1>3, <1>4
  <2>3. (a + n) + m = a + l
    BY <1>1, <1>5
  <2>1. r.c.rcv = a + l
    BY <2>2, <2>3
  <2> QED
    BY <1>4, <2>1
<1>7. told'[k] = r.c.pos
  BY DEF Flows, Acts, Changes, Open
<1>8. ASSUME ~left[x]
      PROVE  /\ c.snd = b + c.pos /\ (t = c.pos \/ t = c.pos + c.len)
             /\ \A s \in net : Along(s, h, c.lport, c.rip, c.rport) /\ s.data # <<>> =>
                  /\ (s.seq = c.snd /\ Len(s.data) = c.len) \/ s.seq + Len(s.data) <= c.snd
                  /\ Len(s.data) \in Nat /\ Len(s.data) > 0 /\ s.seq \in Nat
  <2>1. Synced(c, h, c.lport, c.rip, c.rport, b, x)
    BY <1>2, <1>8 DEF FlowOK
  <2> QED
    BY <1>4, <2>1, SegFields DEF Synced, Acts
<1>9. left[x] \/ Synced(r.c, h, c.lport, c.rip, c.rport, b, x)
  <2>1. SUFFICES ASSUME ~left[x]
                 PROVE  /\ r.c.snd = b + r.c.pos
                        /\ t = r.c.pos \/ t = r.c.pos + r.c.len
                        /\ \A s \in net : Along(s, h, c.lport, c.rip, c.rport) /\ s.data # <<>> =>
                             (s.seq = r.c.snd /\ Len(s.data) = r.c.len) \/ s.seq + Len(s.data) <= r.c.snd
    BY <1>4 DEF Synced
  <2>2. CASE r.c.snd = c.snd /\ r.c.pos = c.pos /\ (c.len = 0 \/ r.c.len = c.len)
    <3>1. r.c.snd = b + r.c.pos /\ (t = r.c.pos \/ t = r.c.pos + r.c.len)
      BY <1>1, <1>8, <2>1, <2>2
    <3>2. ASSUME NEW s \in net, Along(s, h, c.lport, c.rip, c.rport), s.data # <<>>
          PROVE  (s.seq = r.c.snd /\ Len(s.data) = r.c.len) \/ s.seq + Len(s.data) <= r.c.snd
      <4>1. PICK o, z : o = s.seq /\ z = Len(s.data)
        OBVIOUS
      <4>2. (o = c.snd /\ z = c.len) \/ o + z <= c.snd
        BY <1>8, <2>1, <3>2, <4>1
      <4>3. z > 0 /\ z \in Nat /\ o \in Nat
        BY <1>8, <2>1, <3>2, <4>1
      <4>4. (o = r.c.snd /\ z = r.c.len) \/ o + z <= r.c.snd
        BY <1>1, <2>2, <4>2, <4>3
      <4> QED
        BY <4>1, <4>4
    <3> QED
      BY <3>1, <3>2
  <2>3. CASE /\ c.len > 0 /\ r.c.snd = c.snd + c.len /\ r.c.pos = c.pos + c.len
             /\ left[x] \/ c.snd + c.len <= b + Len(read[x])
    <3>1. r.c.snd = b + r.c.pos /\ t = r.c.pos
      <4>1. c.snd + c.len <= b + t
        BY <1>4, <2>1, <2>3
      <4> QED
        BY <1>1, <1>5, <1>8, <2>1, <2>3, <4>1
    <3>2. ASSUME NEW s \in net, Along(s, h, c.lport, c.rip, c.rport), s.data # <<>>
          PROVE  s.seq + Len(s.data) <= r.c.snd
      <4>1. PICK o, z : o = s.seq /\ z = Len(s.data)
        OBVIOUS
      <4>2. (o = c.snd /\ z = c.len) \/ o + z <= c.snd
        BY <1>8, <2>1, <3>2, <4>1
      <4>3. z \in Nat /\ o \in Nat
        BY <1>8, <2>1, <3>2, <4>1
      <4>4. o + z <= r.c.snd
        BY <1>1, <2>3, <4>2, <4>3
      <4> QED
        BY <4>1, <4>4
    <3> QED
      BY <3>1, <3>2
  <2> QED
    BY <2>1, <2>2, <2>3
<1>10. /\ Grows(k) /\ SameEnd(c, r.c) /\ from'[k] = x
       /\ EndOK(r.c, h, c.lport, c.rip, c.rport, k, b, x, a)'
       /\ \A s \in r.out : Sends(h, c, s) /\ SegOK(s, k, b, x, a)'
  <2>1. Joins(r.c, k, x)
    BY <1>3 DEF Joins
  <2> QED
    BY <1>2, <1>6, <1>9, <2>1, FlowEnd
<1>11. Tells(k, x)
  <2>1. CASE r.c.pos = c.pos
    BY <1>2, <1>7, <2>1 DEF Tells
  <2>2. CASE /\ c.len > 0 /\ r.c.snd = c.snd + c.len /\ r.c.pos = c.pos + c.len
             /\ left[x] \/ c.snd + c.len <= b + Len(read[x])
    <3>1. r.c.pos > c.pos
      BY <1>1, <2>2
    <3>2. ~left[x] => r.c.pos <= t
      BY <1>1, <1>4, <1>5, <1>8, <2>2
    <3> QED
      BY <1>2, <1>3, <1>4, <1>7, <3>1, <3>2 DEF Tells
  <2> QED
    BY <2>1, <2>2
<1> QED
  BY <1>3, <1>10, <1>11 DEF Fine, Meets

\* The SYN has been acknowledged.
Greeted(c, r, a) == r.c.snd = c.snd + c.len /\ r.c.pos = c.pos /\ r.c.rcv = a + Len(r.got)

LEMMA GreetStep ==
  ASSUME NEW h, NEW i, NEW c, NEW r, NEW k, NEW b, NEW x, NEW a, Acts(h, i, c, r, k, b, x, a),
         Flows(h, c, r), c.st = "SYN_SENT" \/ c.st = "SYN_RCVD", Joins(r.c, k, x),
         Greeted(c, r, a)
  PROVE  Fine(h, c, r, k, b, x, a)
<1>1. /\ Open(c) /\ c.snd \in Nat /\ a \in Nat /\ b \in Nat
  BY ConnFields DEF Open, Acts
<1>2. /\ ~left[k] /\ told[k] = c.pos
      /\ c.snd + 1 = b /\ c.len = 1 /\ c.pos = 0 /\ read[k] = <<>> /\ read[x] = <<>>
      /\ from[k] = 0 \/ from[k] = x
  BY <1>1 DEF Acts, EndOK, SynSentOK, SynRcvdOK, Joins
<1>3. \A s \in net : Along(s, h, c.lport, c.rip, c.rport) => s.data = <<>>
  <2>1. CASE c.st = "SYN_SENT"
    BY <2>1 DEF Acts, EndOK, SynSentOK, SegOK, Both
  <2>2. CASE c.st = "SYN_RCVD"
    BY <2>2, FlagsDiffer DEF Acts, EndOK, SynRcvdOK, SegOK
  <2> QED
    BY <2>1, <2>2
<1>4. Len(read[k]) = 0 /\ Len(read[x]) = 0
  BY <1>2, Empty
<1>5. r.c.rcv = a + Len(read'[k])
  <2>1. PICK m, l : m = Len(r.got) /\ l = Len(read'[k])
    OBVIOUS
  <2>2. m \in Nat /\ l = 0 + m
    BY <1>4, <2>1 DEF Acts
  <2>3. r.c.rcv = a + l
    BY <2>1, <2>2 DEF Greeted
  <2> QED
    BY <2>1, <2>3
<1>6. r.c.snd = b + r.c.pos /\ Len(read[x]) = r.c.pos
  BY <1>1, <1>2, <1>4 DEF Greeted
<1>9. Synced(r.c, h, c.lport, c.rip, c.rport, b, x)
  BY <1>3, <1>6 DEF Synced
<1>7. /\ Grows(k) /\ SameEnd(c, r.c) /\ from'[k] = x
      /\ EndOK(r.c, h, c.lport, c.rip, c.rport, k, b, x, a)'
      /\ \A s \in r.out : Sends(h, c, s) /\ SegOK(s, k, b, x, a)'
  <2>1. ~left[k]
    BY <1>2
  <2>2. left[x] \/ Synced(r.c, h, c.lport, c.rip, c.rport, b, x)
    BY <1>9
  <2> QED
    BY <1>5, <2>1, <2>2, FlowEnd
<1>8. told'[k] = r.c.pos
  BY DEF Flows, Acts, Changes, Open
<1> QED
  BY <1>2, <1>7, <1>8 DEF Fine, Meets, Tells, Greeted

-----------------------------------------------------------------------------
(* A connection, its pair and the step.                                      *)

LEMMA ApplyIs ==
  ASSUME TypeInv, NEW h \in Host, NEW i \in Slot, NEW c, c = conns[h][i], Used(c), NEW r, NEW n,
         \A s \in n : s \in net, Apply(h, i, r, n), born' = born
  PROVE  Changes(h, i, c, r)
<1>1. c.id \in ConnId /\ conns \in [Host -> [Slot -> ConnRec]]
  BY ConnsAre DEF TypeInv
<1>2. /\ from \in [ConnId -> Number0] /\ read \in [ConnId -> Seq(Nat)]
      /\ told \in [ConnId -> Nat] /\ left \in [ConnId -> BOOLEAN]
  BY DEF TypeInv
<1>3. conns'[h][i] = r.c /\ \A f \in Host, j \in Slot : f # h \/ j # i => conns'[f][j] = conns[f][j]
  <2>1. conns' = [conns EXCEPT ![h][i] = r.c]
    BY DEF Apply
  <2> QED
    BY <1>1, <2>1
<1>4. \A s \in net' : s \in net \/ s \in r.out
  <2>1. net' = Post(n, r.out)
    BY DEF Apply
  <2> QED
    BY <2>1 DEF Post
<1>5. /\ from'[c.id] = IF Used(r.c) THEN r.c.peer ELSE from[c.id]
      /\ \A y \in ConnId : y # c.id => from'[y] = from[y]
  BY <1>1, <1>2 DEF Apply, Used
<1>6. /\ read'[c.id] = IF r.got # <<>> THEN read[c.id] \o Numbers(c, r.got) ELSE read[c.id]
      /\ \A y \in ConnId : y # c.id => read'[y] = read[y]
  BY <1>1, <1>2 DEF Apply, Numbers
<1>7. /\ told'[c.id] = IF Open(r.c) THEN r.c.pos ELSE told[c.id]
      /\ \A y \in ConnId : y # c.id => told'[y] = told[y]
  BY <1>1, <1>2 DEF Apply
<1>8. /\ left'[c.id] = IF Open(r.c) THEN left[c.id] ELSE TRUE
      /\ \A y \in ConnId : y # c.id => left'[y] = left[y]
  BY <1>1, <1>2 DEF Apply, Used
<1> QED
  BY <1>3, <1>4, <1>5, <1>6, <1>7, <1>8 DEF Changes, Same

LEMMA PairIs ==
  ASSUME TypeInv, NEW h \in Host, NEW i \in Slot, NEW c, c = conns[h][i], Used(c),
         NEW k \in 0 .. born, NEW x \in 0 .. born, NEW b \in Nat, NEW a \in Nat,
         Pair(h, c.lport, c.rip, c.rport, k, b, x, a)
  PROVE  /\ k \in Number0 /\ k # 0 /\ x \in Number0 /\ x # k /\ c.id = k /\ k \in ConnId
         /\ c \in ConnRec /\ ConnOK(h, c) /\ EndOK(c, h, c.lport, c.rip, c.rport, k, b, x, a)
         /\ \A s \in net : s \in SegRec
         /\ \A s \in net : Along(s, h, c.lport, c.rip, c.rport) => SegOK(s, k, b, x, a)
         /\ \A s \in net : Along(s, c.rip, c.rport, h, c.lport) => SegOK(s, x, a, k, b)
         /\ read[k] \in Seq(Nat) /\ Len(read[k]) \in Nat /\ left[k] \in BOOLEAN
         /\ x # 0 => Len(read[x]) \in Nat
<1>1. c \in ConnRec /\ ConnOK(h, c) /\ born \in Nat /\ born <= MaxConn /\ Apart(c.lport, c.rport)
  BY ConnsAre
<1>2. k \in Number0 /\ x \in Number0
  BY <1>1, ConstFacts DEF Number0
<1>3. /\ Half(h, c.lport, c.rip, c.rport, k, b, x, a)
      /\ Half(c.rip, c.rport, h, c.lport, x, a, k, b)
      /\ On(c, c.lport, c.rip, c.rport)
  BY DEF Pair, On
<1>4. EndOK(c, h, c.lport, c.rip, c.rport, k, b, x, a)
  BY <1>3 DEF Half
<1>5. c.id = k /\ k # 0
  BY <1>4, ConnsAre DEF EndOK
<1>6. x # k
  BY <1>1, <1>3, <1>5 DEF Half, On, Apart
<1> QED
  BY <1>1, <1>2, <1>3, <1>4, <1>5, <1>6, HistoryIs DEF Half, TypeInv

\* Segment s brings connection c the data it waits for.
Delivers(h, c, s, r) ==
  /\ Along(s, c.rip, c.rport, h, c.lport) /\ r.got = s.data /\ s.data # <<>>
  /\ s.seq = c.rcv /\ (c.st = "SYN_RCVD" \/ c.st = "ESTABLISHED")

\* The next n bytes of the stream of x are read by k.
Reads(k, x, n) ==
  /\ Both(x, k) /\ ~left[k] /\ x # 0 /\ from[k] = x
  /\ n \in Nat /\ n > 0 /\ Len(read'[k]) = Len(read[k]) + n
  /\ read'[k] = read[k] \o [j \in 1 .. n |-> Len(read[k]) + j]

Follows(s, a, k) == s.seq = a + Len(read[k])

\* What arrived is the next of the stream.
LEMMA GotIs ==
  ASSUME TypeInv, NEW h \in Host, NEW i \in Slot, NEW c, c = conns[h][i], Used(c),
         NEW k \in 0 .. born, NEW x \in 0 .. born, NEW b \in Nat, NEW a \in Nat,
         Pair(h, c.lport, c.rip, c.rport, k, b, x, a), NEW r, Changes(h, i, c, r),
         NEW s \in net, Delivers(h, c, s, r)
  PROVE  Reads(k, x, Len(r.got)) /\ Follows(s, a, k)
<1>1. /\ k # 0 /\ c.id = k /\ c \in ConnRec /\ EndOK(c, h, c.lport, c.rip, c.rport, k, b, x, a)
      /\ s \in SegRec /\ SegOK(s, x, a, k, b) /\ read[k] \in Seq(Nat) /\ Len(read[k]) \in Nat
  <2>1. Along(s, c.rip, c.rport, h, c.lport)
    BY DEF Delivers
  <2> QED
    BY <2>1, PairIs
<1>0. r.got = s.data /\ s.data # <<>> /\ s.seq = c.rcv /\ (c.st = "SYN_RCVD" \/ c.st = "ESTABLISHED")
  BY DEF Delivers
<1>2. s.data \in Seq(Byte) /\ Len(s.data) \in Nat /\ Len(s.data) > 0 /\ s.flags \in FlagSets /\ s.seq \in Nat
  BY <1>0, <1>1, SegFields
<1>3. s.flags = Bare
  BY <1>0, <1>1 DEF SegOK
<1>4. Both(x, k) /\ DataOK(s, x, a, k) /\ x # 0
  BY <1>1, <1>3, FlagsDiffer DEF SegOK
<1>5. ~left[k] /\ from[k] = x
  BY <1>0, <1>1, <1>4 DEF EndOK, Open, Both
<1>6. c.rcv = a + Len(read[k]) /\ c.peer = x
  <2>1. CASE c.st = "SYN_RCVD"
    <3>1. c.rcv = a /\ c.peer = x /\ read[k] = <<>>
      BY <1>1, <2>1 DEF EndOK, SynRcvdOK
    <3>2. Len(read[k]) = 0
      BY <3>1, Empty
    <3>3. a = a + 0
      OBVIOUS
    <3> QED
      BY <3>1, <3>2, <3>3
  <2>2. CASE c.st = "ESTABLISHED"
    BY <1>1, <2>2 DEF EndOK, FlowOK
  <2> QED
    BY <1>0, <2>1, <2>2
<1>7. DOMAIN s.data = 1 .. Len(s.data) /\ \A j \in DOMAIN s.data : s.data[j] \in Byte
  BY <1>2, LenProperties, ElementOfSeq
<1>8. ASSUME NEW j \in DOMAIN s.data
      PROVE  Number(c, s.data[j]) = Len(read[k]) + j
  <2>1. PICK d, n, t : d = s.data[j] /\ n = Len(read[k]) /\ t = s.seq
    OBVIOUS
  <2>2. d.of = x /\ a + d.n = t + j
    BY <1>0, <1>4, <1>5, <2>1 DEF DataOK
  <2>3. d.n \in Nat
    BY <1>7, <2>1 DEF Byte
  <2>4. n \in Nat /\ t = a + n /\ j \in Nat
    BY <1>0, <1>1, <1>2, <1>6, <1>7, <2>1
  <2>5. d.n = n + j
    BY <2>2, <2>3, <2>4
  <2> QED
    BY <1>6, <2>1, <2>2, <2>5 DEF Number
<1>9. PICK z, m : z = [j \in 1 .. Len(s.data) |-> Len(read[k]) + j] /\ m = Len(s.data)
  OBVIOUS
<1>10. Numbers(c, s.data) = z
  <2>1. Numbers(c, s.data) = [j \in DOMAIN s.data |-> Len(read[k]) + j]
    BY <1>8, Zenon DEF Numbers
  <2> QED
    BY <1>7, <1>9, <2>1
<1>11. z \in Seq(Nat) /\ Len(z) = m
  BY <1>1, <1>2, <1>9, IsASeq
<1>12. read'[k] = read[k] \o z
  BY <1>0, <1>1, <1>10 DEF Changes
<1>13. Len(read'[k]) = Len(read[k]) + m
  <2>1. PICK t : t = read[k] /\ t \in Seq(Nat)
    BY <1>1
  <2>2. Len(t \o z) = Len(t) + Len(z)
    BY <1>11, <2>1, ConcatProperties
  <2> QED
    BY <1>11, <1>12, <2>1, <2>2
<1> QED
  BY <1>0, <1>2, <1>4, <1>5, <1>6, <1>9, <1>12, <1>13 DEF Reads, Follows

\* The data of a result is that of a segment which was waited for, or there is none.
Got(h, c, r) ==
  \/ r.got = <<>>
  \/ \E s \in net : Delivers(h, c, s, r)

StreamOK(k) == S!Meet(k) /\ S!Read(k) /\ S!Tell(k) /\ (left[k] => left'[k])

LEMMA ActsIs ==
  ASSUME TypeInv, NEW h \in Host, NEW i \in Slot, NEW c, c = conns[h][i], Used(c),
         NEW k \in 0 .. born, NEW x \in 0 .. born, NEW b \in Nat, NEW a \in Nat,
         Pair(h, c.lport, c.rip, c.rport, k, b, x, a), NEW r, Changes(h, i, c, r), Got(h, c, r)
  PROVE  Acts(h, i, c, r, k, b, x, a)
<1>1. /\ k \in Number0 /\ k # 0 /\ x \in Number0 /\ x # k /\ c.id = k /\ k \in ConnId
      /\ c \in ConnRec /\ EndOK(c, h, c.lport, c.rip, c.rport, k, b, x, a)
      /\ \A s \in net : Along(s, h, c.lport, c.rip, c.rport) => s \in SegRec /\ SegOK(s, k, b, x, a)
      /\ read[k] \in Seq(Nat) /\ Len(read[k]) \in Nat /\ left[k] \in BOOLEAN
      /\ x # 0 => Len(read[x]) \in Nat
  <2>1. /\ \A s \in net : s \in SegRec
        /\ \A s \in net : Along(s, h, c.lport, c.rip, c.rport) => SegOK(s, k, b, x, a)
    BY PairIs
  <2> QED
    BY <2>1, PairIs
<1>2. x # 0 => Same(x)
  BY <1>1, HistoryIs DEF Changes
<1>3. Len(r.got) \in Nat /\ Len(read'[k]) = Len(read[k]) + Len(r.got)
  <2>1. CASE r.got = <<>>
    <3>1. read'[k] = read[k] /\ Len(r.got) = 0
      BY <1>1, <2>1, Empty DEF Changes
    <3> QED
      BY <1>1, <3>1
  <2>2. CASE r.got # <<>>
    <3>1. PICK s \in net : Delivers(h, c, s, r)
      BY <2>2 DEF Got
    <3>2. Reads(k, x, Len(r.got))
      BY <3>1, GotIs
    <3> QED
      BY <3>2 DEF Reads
  <2> QED
    BY <2>1, <2>2
<1> QED
  BY <1>1, <1>2, <1>3 DEF Acts

LEMMA StepIs ==
  ASSUME TypeInv, Unique, PairsOK, NEW h \in Host, NEW i \in Slot, NEW c, c = conns[h][i], Used(c),
         NEW k \in 0 .. born, NEW x \in 0 .. born, NEW b \in Nat, NEW a \in Nat,
         Pair(h, c.lport, c.rip, c.rport, k, b, x, a), NEW r, Changes(h, i, c, r), Got(h, c, r),
         Fine(h, c, r, k, b, x, a)
  PROVE  PairsOK' /\ StreamOK(k)
<1>1. /\ k \in Number0 /\ k # 0 /\ x \in Number0 /\ x # k /\ c.id = k /\ read[k] \in Seq(Nat)
  BY PairIs
<1>2. \/ r.got = <<>> /\ read'[k] = read[k]
      \/ /\ \E s \in net : /\ Along(s, c.rip, c.rport, h, c.lport) /\ s.data # <<>>
                           /\ s.seq = a + Len(read[k]) /\ Len(read'[k]) = Len(read[k]) + Len(s.data)
         /\ Reads(k, x, Len(r.got))
  <2>1. CASE r.got = <<>>
    BY <1>1, <2>1 DEF Changes
  <2>2. CASE r.got # <<>>
    <3>1. PICK s \in net : Delivers(h, c, s, r)
      BY <2>2 DEF Got
    <3>2. Reads(k, x, Len(r.got)) /\ Follows(s, a, k)
      BY <3>1, GotIs
    <3>3. Along(s, c.rip, c.rport, h, c.lport) /\ s.data # <<>> /\ r.got = s.data
      BY <3>1 DEF Delivers
    <3>4. Len(read'[k]) = Len(read[k]) + Len(s.data)
      BY <3>2, <3>3 DEF Reads
    <3> QED
      BY <3>2, <3>3, <3>4 DEF Follows
  <2> QED
    BY <2>1, <2>2
<1>3. Gets(c.rip, c.rport, h, c.lport, x, a, k)
  BY <1>2 DEF Gets, Reads
<1>4. x = 0 => read'[k] = read[k]
  BY <1>2 DEF Reads
<1>5. /\ r.c = Closed \/ (SameEnd(c, r.c) /\ EndOK(r.c, h, c.lport, c.rip, c.rport, k, b, x, a)')
      /\ \A s \in r.out : Sends(h, c, s) /\ SegOK(s, k, b, x, a)'
      /\ Grows(k) /\ Meets(k) /\ Tells(k, x)
  BY DEF Fine
<1>6. PairsOK'
  BY <1>3, <1>4, <1>5, PairsMove
<1>7. S!Meet(k)
  BY <1>5 DEF Meets, S!Meet
<1>8. S!Read(k)
  <2>1. SUFFICES ASSUME read'[k] # read[k]
                 PROVE  /\ ~left[k] /\ from'[k] # 0
                        /\ \E n \in 1 .. Len(read'[k]) :
                              read'[k] = read[k] \o [j \in 1 .. n |-> Len(read[k]) + j]
    BY DEF S!Read
  <2>2. PICK n : n = Len(r.got) /\ n \in Nat /\ n > 0 /\ Len(read'[k]) = Len(read[k]) + n
                 /\ read'[k] = read[k] \o [j \in 1 .. n |-> Len(read[k]) + j]
    BY <1>2, <2>1 DEF Reads
  <2>3. n \in 1 .. Len(read'[k])
    <3>1. PICK t, u : t = Len(read[k]) /\ u = Len(read'[k]) /\ t \in Nat /\ u = t + n
      BY <1>1, <2>2, LenProperties
    <3>2. n \in 1 .. u
      BY <2>2, <3>1
    <3> QED
      BY <3>1, <3>2
  <2>4. ~left[k] /\ from'[k] # 0
    BY <1>1, <1>2, <1>5, <2>1 DEF Grows, Reads
  <2> QED
    BY <2>2, <2>3, <2>4
<1>9. S!Tell(k)
  BY <1>1, <1>5, HistoryIs DEF Tells, S!Tell
<1>10. left[k] => left'[k]
  BY <1>5 DEF Grows
<1> QED
  BY <1>6, <1>7, <1>8, <1>9, <1>10 DEF StreamOK

-----------------------------------------------------------------------------
(* A call that changes connection c.                                         *)

NetOK(m) ==
  m \in SUBSET SegRec /\ IsFiniteSet(m) /\ Cardinality(m) <= MaxNet /\ \A s \in m : Apart(s.sport, s.dport)

LEMMA PostIs ==
  ASSUME NetOK(net), NEW n, \A s \in n : s \in net, NEW out, IsFiniteSet(out),
         \A s \in out : s \in SegRec /\ Apart(s.sport, s.dport)
  PROVE  NetOK(Post(n, out)) /\ NetOK(n) /\ \A s \in Post(n, out) : s \in net \/ s \in out
<1>1. n \subseteq net
  OBVIOUS
<1>2. IsFiniteSet(n) /\ Cardinality(n) <= Cardinality(net)
  BY <1>1, FS_Subset DEF NetOK
<1>3. IsFiniteSet(n \cup out)
  BY <1>2, FS_Union
<1>4. /\ Cardinality(n) \in Nat /\ Cardinality(net) \in Nat /\ Cardinality(n \cup out) \in Nat
      /\ Cardinality(net) <= MaxNet /\ MaxNet \in Nat
  BY <1>2, <1>3, FS_CardinalityType, ConstFacts DEF NetOK
<1>5. Cardinality(n) <= MaxNet
  BY <1>2, <1>4
<1>6. NetOK(n)
  BY <1>1, <1>2, <1>5 DEF NetOK
<1>7. CASE Cardinality(n \cup out) <= MaxNet
  <2>1. Post(n, out) = n \cup out
    BY <1>7 DEF Post
  <2>2. NetOK(n \cup out)
    BY <1>1, <1>3, <1>7 DEF NetOK
  <2> QED
    BY <1>6, <2>1, <2>2
<1>8. CASE ~(Cardinality(n \cup out) <= MaxNet)
  BY <1>6, <1>8 DEF Post
<1> QED
  BY <1>7, <1>8

Typed(h, c, r) ==
  /\ ConnOK(h, r.c) /\ (r.c = Closed \/ SameEnd(c, r.c)) /\ IsFiniteSet(r.out)
  /\ \A s \in r.out : Sends(h, c, s)

\* Whatever pair c belongs to, the result suits it.
Suits(h, i, c, r) ==
  \A k, x \in 0 .. born : \A b, a \in Nat :
    Pair(h, c.lport, c.rip, c.rport, k, b, x, a) /\ Acts(h, i, c, r, k, b, x, a) => Fine(h, c, r, k, b, x, a)

LEMMA ClosedOK ==
  ASSUME NEW h \in Host
  PROVE  ConnOK(h, Closed)
BY ClosedIs, ConstFacts DEF ConnOK

LEMMA TypedIs ==
  ASSUME NEW h \in Host, NEW c, NEW x, NEW r,
         Quits(h, c, r) \/ Leaves(h, c, x, r) \/ Opening(h, c, r) \/ Flows(h, c, r)
  PROVE  Typed(h, c, r)
<1>1. CASE Quits(h, c, r)
  BY <1>1, ClosedOK DEF Quits, Typed
<1>2. CASE Leaves(h, c, x, r)
  BY <1>2 DEF Leaves, Typed
<1>3. CASE Opening(h, c, r)
  BY <1>3 DEF Opening, Typed
<1>4. CASE Flows(h, c, r)
  BY <1>4 DEF Flows, Typed
<1> QED
  BY <1>1, <1>2, <1>3, <1>4

Advances == PairsOK' /\ \A y \in ConnId : StreamOK(y)

LEMMA SameStream ==
  ASSUME TypeInv, NEW y \in ConnId, Same(y)
  PROVE  StreamOK(y)
BY DEF Same, StreamOK, S!Meet, S!Read, S!Tell

LEMMA CallPairs ==
  ASSUME TypeInv, Unique, PairsOK, NEW h \in Host, NEW i \in Slot, NEW c, c = conns[h][i], Used(c), NEW r,
         Changes(h, i, c, r), Got(h, c, r), Suits(h, i, c, r)
  PROVE  Advances
<1>1. c \in ConnRec /\ c.rip \in Host /\ c.lport \in Port /\ c.rport \in Port /\ Apart(c.lport, c.rport)
  BY ConnsAre, ConnFields
<1>2. PICK k \in 0 .. born, x \in 0 .. born, b \in Nat, a \in Nat : Pair(h, c.lport, c.rip, c.rport, k, b, x, a)
  BY <1>1 DEF PairsOK
<1>3. Acts(h, i, c, r, k, b, x, a)
  BY <1>2, ActsIs
<1>4. Fine(h, c, r, k, b, x, a)
  BY <1>2, <1>3 DEF Suits
<1>5. PairsOK' /\ StreamOK(k)
  BY <1>2, <1>4, StepIs
<1>6. c.id = k
  BY <1>3 DEF Acts
<1>7. ASSUME NEW y \in ConnId
      PROVE  StreamOK(y)
  <2>1. CASE y = k
    BY <1>5, <2>1
  <2>2. CASE y # k
    BY <1>6, <2>2, SameStream DEF Changes
  <2> QED
    BY <2>1, <2>2
<1> QED
  BY <1>5, <1>7 DEF Advances

LEMMA GotType ==
  ASSUME TypeInv, NEW h, NEW c \in ConnRec, NEW r, Got(h, c, r), r.got # <<>>
  PROVE  Numbers(c, r.got) \in Seq(Nat)
<1>1. PICK s \in net : Delivers(h, c, s, r)
  BY DEF Got
<1>2. s.data \in Seq(Byte) /\ Len(s.data) \in Nat /\ r.got = s.data
  BY <1>1, SegFields DEF TypeInv, Delivers
<1>3. DOMAIN s.data = 1 .. Len(s.data) /\ \A j \in DOMAIN s.data : s.data[j] \in Byte
  BY <1>2, LenProperties, ElementOfSeq
<1>4. \A j \in 1 .. Len(s.data) : Number(c, s.data[j]) \in Nat
  BY <1>3 DEF Number, Byte
<1>5. Numbers(c, s.data) = [j \in 1 .. Len(s.data) |-> Number(c, s.data[j])]
  BY <1>3 DEF Numbers
<1> QED
  BY <1>2, <1>4, <1>5, IsASeq

LEMMA CallTypes ==
  ASSUME TypeInv, Unique, NEW h \in Host, NEW i \in Slot, NEW c, c = conns[h][i], Used(c), NEW r,
         NEW n, \A s \in n : s \in net, Apply(h, i, r, n), Changes(h, i, c, r), Got(h, c, r), Typed(h, c, r),
         iss' \in [Host -> Nat], UNCHANGED <<listenports, lastport, born>>
  PROVE  TypeInv' /\ Unique'
<1>1. /\ c \in ConnRec /\ c.id \in ConnId /\ c.id <= born /\ born \in Nat /\ c.id # 0
      /\ Apart(c.lport, c.rport) /\ c.id \in Number0
  BY ConnsAre, ConnFields
<1>2. /\ r.c \in ConnRec /\ ConnOK(h, r.c) /\ r.c.id <= born /\ (Used(r.c) => r.c.id = c.id)
      /\ r.c.peer \in Number0 /\ r.c.pos \in Nat
  <2>1. r.c \in ConnRec /\ ConnOK(h, r.c)
    BY DEF Typed, ConnOK
  <2>2. CASE r.c = Closed
    BY <1>1, <2>1, <2>2, ClosedIs, ConnFields, ConstFacts
  <2>3. CASE SameEnd(c, r.c)
    BY <1>1, <2>1, <2>3, ConnFields DEF SameEnd
  <2> QED
    BY <2>2, <2>3 DEF Typed
<1>3. conns' \in [Host -> [Slot -> ConnRec]]
  <2>1. conns \in [Host -> [Slot -> ConnRec]] /\ conns' = [conns EXCEPT ![h][i] = r.c]
    BY DEF Apply, TypeInv
  <2> QED
    BY <1>2, <2>1
<1>4. \A f \in Host, j \in Slot : ConnOK(f, conns'[f][j]) /\ conns'[f][j].id <= born
  <2>1. SUFFICES ASSUME NEW f \in Host, NEW j \in Slot
                 PROVE  ConnOK(f, conns'[f][j]) /\ conns'[f][j].id <= born
    OBVIOUS
  <2>2. CASE f = h /\ j = i
    BY <1>2, <2>2 DEF Changes
  <2>3. CASE f # h \/ j # i
    BY <2>3 DEF Changes, TypeInv
  <2> QED
    BY <2>2, <2>3
<1>5. NetOK(net')
  <2>1. NetOK(net)
    BY DEF NetOK, TypeInv
  <2>2. IsFiniteSet(r.out)
    BY DEF Typed
  <2>3. \A s \in r.out : s \in SegRec /\ Apart(s.sport, s.dport)
    BY <1>1 DEF Typed, Sends, Along
  <2>4. NetOK(Post(n, r.out))
    BY <2>1, <2>2, <2>3, PostIs
  <2> QED
    BY <2>4 DEF Apply
<1>6. from' \in [ConnId -> Number0] /\ told' \in [ConnId -> Nat] /\ left' \in [ConnId -> BOOLEAN]
  BY <1>1, <1>2 DEF Apply, TypeInv
<1>7. read' \in [ConnId -> Seq(Nat)]
  <2>1. CASE r.got = <<>>
    BY <2>1 DEF Apply, TypeInv
  <2>2. CASE r.got # <<>>
    <3>1. PICK m : m = Numbers(c, r.got) /\ m \in Seq(Nat)
      BY <1>1, <2>2, GotType
    <3>2. PICK t : t = read[c.id] /\ t \in Seq(Nat)
      BY <1>1 DEF TypeInv
    <3>3. t \o m \in Seq(Nat)
      BY <3>1, <3>2, ConcatProperties
    <3>4. read' = [read EXCEPT ![c.id] = read[c.id] \o Numbers(c, r.got)]
      BY <2>2 DEF Apply, Numbers
    <3>5. read' = [read EXCEPT ![c.id] = t \o m]
      BY <3>1, <3>2, <3>4
    <3> QED
      BY <1>1, <3>3, <3>5 DEF TypeInv
  <2> QED
    BY <2>1, <2>2
<1>8. TypeInv'
  <2>1. \A f \in Host, j \in Slot : ConnOK(f, conns[f][j])' /\ (conns[f][j].id <= born)'
    BY <1>4 DEF Changes, ConnOK, Used
  <2> QED
    BY <1>3, <1>5, <1>6, <1>7, <2>1 DEF TypeInv, NetOK
<1>9. ASSUME NEW f \in Host, NEW g \in Host, NEW j \in Slot, NEW l \in Slot,
             Used(conns'[f][j]), conns'[f][j].id = conns'[g][l].id
      PROVE  f = g /\ j = l
  <2>1. PICK d, e : d = conns'[f][j] /\ e = conns'[g][l]
    OBVIOUS
  <2>2. Used(d) /\ d.id = e.id /\ d.id # 0
    BY <1>4, <1>9, <2>1 DEF ConnOK
  <2>3. Used(e)
    <3>1. ConnOK(g, e)
      BY <1>4, <2>1
    <3> QED
      BY <2>2, <3>1, ClosedIs DEF ConnOK
  <2>4. \A u \in Host, z \in Slot : \A y : y = conns'[u][z] /\ Used(y) => Used(conns[u][z]) /\ conns[u][z].id = y.id
    BY <1>2 DEF Changes
  <2>5. Used(conns[f][j]) /\ conns[f][j].id = d.id /\ conns[g][l].id = e.id
    BY <2>1, <2>2, <2>3, <2>4
  <2> QED
    BY <2>2, <2>5 DEF Unique
<1>10. ASSUME NEW y \in ConnId, y > born
       PROVE  from'[y] = 0 /\ read'[y] = <<>> /\ told'[y] = 0 /\ ~left'[y]
  <2>1. y # c.id
    BY <1>1, <1>10, ConstFacts DEF ConnId
  <2> QED
    BY <1>10, <2>1 DEF Changes, Same, Unique
<1>11. Unique'
  BY <1>9, <1>10 DEF Unique, Used
<1> QED
  BY <1>8, <1>11

\* What a step keeps.
Step == TypeInv' /\ Unique' /\ Advances

LEMMA CallIs ==
  ASSUME TypeInv, Unique, PairsOK, NEW h \in Host, NEW i \in Slot, NEW c, c = conns[h][i], Used(c), NEW r,
         NEW n, \A s \in n : s \in net, Apply(h, i, r, n), Got(h, c, r), Typed(h, c, r),
         Suits(h, i, c, r), iss' \in [Host -> Nat], UNCHANGED <<listenports, lastport, born>>
  PROVE  Step
<1>1. Changes(h, i, c, r)
  BY ApplyIs
<1>2. TypeInv' /\ Unique'
  BY <1>1, CallTypes
<1>3. Advances
  BY <1>1, CallPairs
<1> QED
  BY <1>2, <1>3 DEF Step

LEMMA CalmSuits ==
  ASSUME NEW h \in Host, NEW i \in Slot, NEW c, NEW r, c \in ConnRec, Used(c), Calm(h, c, r)
  PROVE  Suits(h, i, c, r)
<1>1. SUFFICES ASSUME NEW k, NEW x, NEW b, NEW a, Acts(h, i, c, r, k, b, x, a)
               PROVE  Fine(h, c, r, k, b, x, a)
  BY DEF Suits
<1>2. c.st \in State /\ EndOK(c, h, c.lport, c.rip, c.rport, k, b, x, a)
  BY <1>1, ConnFields DEF Acts
<1>3. c.st \notin Early => c.peer = x /\ Both(k, x)
  BY <1>2, Sorts DEF EndOK, FlowOK
<1>4. CASE Quits(h, c, r)
  BY <1>1, <1>4, QuitStep
<1>5. CASE Leaves(h, c, c.peer, r) /\ c.st \notin Early
  <2>1. Leaves(h, c, x, r)
    BY <1>3, <1>5
  <2>2. Joins(r.c, k, x)
    BY <1>3, <1>5, <2>1 DEF Joins, Leaves, Both
  <2> QED
    BY <1>1, <2>1, <2>2, LeaveStep
<1>6. CASE Opening(h, c, r)
  BY <1>1, <1>6, OpeningStep DEF Calm
<1>7. CASE Flows(h, c, r) /\ c.st = "ESTABLISHED" /\ Keeps(c, r.c)
  <2>1. r.c.rcv = c.rcv + Len(r.got)
    <3>1. r.c.rcv = c.rcv /\ c.rcv \in Nat /\ Len(r.got) = 0
      BY <1>7, Empty, ConnFields DEF Keeps, Calm
    <3> QED
      BY <3>1
  <2>2. /\ r.c.peer = c.peer
        /\ r.c.snd = c.snd /\ r.c.pos = c.pos /\ (c.len = 0 \/ r.c.len = c.len)
    BY <1>7 DEF Keeps
  <2> QED
    BY <1>1, <1>7, <2>1, <2>2, FlowStep
<1> QED
  BY <1>4, <1>5, <1>6, <1>7 DEF Calm

LEMMA NextIssIs ==
  ASSUME TypeInv, NEW h \in Host
  PROVE  NextIss(h) \in [Host -> Nat]
BY ConstFacts DEF TypeInv, NextIss

\* Nothing changes but what is in the network, where there may be a new reset.
LEMMA PairsKeep ==
  ASSUME TypeInv, PairsOK, born' = born, conns' = conns, \A y \in ConnId : Same(y),
         \A s \in net' : s \in net \/ Resets(s)
  PROVE  Advances
<1>1. ASSUME NEW h \in Host, NEW g \in Host, NEW p \in Port, NEW q \in Port, Apart(p, q)
      PROVE  \E k, x \in 0 .. born : \E b, a \in Nat : Pair(h, p, g, q, k, b, x, a)'
  <2>1. PICK k \in 0 .. born, x \in 0 .. born, b \in Nat, a \in Nat : Pair(h, p, g, q, k, b, x, a)
    BY <1>1 DEF PairsOK
  <2>2. k \in Number0 /\ x \in Number0
    BY ConstFacts DEF TypeInv, Number0
  <2>3. (k # 0 => Same(k)) /\ (x # 0 => Same(x))
    BY <2>2, HistoryIs
  <2>4. (k # 0 => Grows(k)) /\ (x # 0 => Grows(x))
    BY <2>2, <2>3, SameGrows
  <2>5. (k # 0 => Gets(g, q, h, p, x, a, k)) /\ (x # 0 => Gets(h, p, g, q, k, b, x))
    BY <2>3 DEF Same, Gets
  <2>6. Half(h, p, g, q, k, b, x, a)'
    BY <2>1, <2>2, <2>3, <2>4, <2>5, HalfStays DEF Pair
  <2>7. Half(g, q, h, p, x, a, k, b)'
    BY <2>1, <2>2, <2>3, <2>4, <2>5, HalfStays DEF Pair
  <2> QED
    BY <2>6, <2>7 DEF Pair
<1>2. PairsOK'
  BY <1>1 DEF PairsOK
<1> QED
  BY <1>2, SameStream DEF Advances

\* A step that changes no connection.
LEMMA KeepIs ==
  ASSUME TypeInv, Unique, PairsOK, conns' = conns, born' = born, from' = from, read' = read, told' = told,
         left' = left, \A s \in net' : s \in net \/ Resets(s), NetOK(net'),
         listenports' \in [Host -> [1 .. UIP_LISTENPORTS -> ListenPort \cup {0}]],
         iss' \in [Host -> Nat], lastport' = lastport
  PROVE  Step
<1>1. \A y \in ConnId : Same(y)
  BY DEF Same
<1>2. Advances
  BY <1>1, PairsKeep
<1>3. TypeInv'
  BY DEF TypeInv, NetOK, ConnOK, Used
<1>4. Unique'
  BY DEF Unique, Used
<1> QED
  BY <1>2, <1>3, <1>4 DEF Step

LEMMA TimerStep ==
  ASSUME TypeInv, Unique, PairsOK, NEW h \in Host, NEW i \in Slot, NEW down \in BOOLEAN, Timer(h, i, down)
  PROVE  Step
<1>1. PICK c, r : c = conns[h][i] /\ r \in Ticked(h, c, down) /\ Apply(h, i, r, net)
  BY DEF Timer
<1>2. iss' \in [Host -> Nat] /\ UNCHANGED <<listenports, lastport, born>>
  BY NextIssIs DEF Timer
<1>3. c \in ConnRec /\ ConnOK(h, c)
  BY <1>1, ConnsAre
<1>4. CASE Used(c)
  <2>1. Calm(h, c, r)
    BY <1>1, <1>3, <1>4, TickedIs
  <2>2. Got(h, c, r)
    BY <2>1 DEF Calm, Got
  <2>3. Typed(h, c, r)
    BY <2>1, TypedIs DEF Calm
  <2>4. Suits(h, i, c, r)
    BY <1>3, <1>4, <2>1, CalmSuits
  <2>5. \A s \in net : s \in net
    OBVIOUS
  <2> QED
    BY <1>1, <1>2, <1>4, <2>2, <2>3, <2>4, <2>5, CallIs
<1>5. CASE ~Used(c)
  <2>1. c = Closed
    BY <1>3, <1>5 DEF ConnOK
  <2>2. r = Res(Closed, {})
    BY <1>1, <2>1, ClosedIs DEF Ticked, Sent
  <2>3. r.c = Closed /\ r.out = {} /\ r.got = <<>>
    BY <2>2 DEF Res
  <2>4. conns' = conns /\ from' = from /\ read' = read /\ told' = told /\ left' = left
    BY <1>1, <2>1, <2>3, ClosedIs DEF Apply, TypeInv
  <2>5. net' = net
    BY <1>1, <2>3 DEF Apply, Post
  <2>6. NetOK(net')
    BY <2>5 DEF TypeInv, NetOK
  <2> QED
    BY <1>2, <2>4, <2>5, <2>6, KeepIs DEF TypeInv
<1> QED
  BY <1>4, <1>5

-----------------------------------------------------------------------------
(* Segments.                                                                 *)

LEMMA LeastIs ==
  ASSUME NEW A \in SUBSET Nat, A # {}
  PROVE  Least(A) \in A /\ \A y \in A : Least(A) <= y
<1>1. PICK x \in A : \A y \in Nat : <<y, x>> \in OpToRel(<, Nat) => y \notin A
  <2>1. IsWellFoundedOn(OpToRel(<, Nat), Nat)
    BY NatLessThanWellFounded
  <2> QED
    BY <2>1, WFMin
<1>2. \A y \in A : x <= y
  <2>1. SUFFICES ASSUME NEW y \in A, ~(x <= y)
                 PROVE  FALSE
    OBVIOUS
  <2>2. <<y, x>> \in OpToRel(<, Nat)
    BY <2>1 DEF OpToRel
  <2> QED
    BY <1>1, <2>2
<1>3. \E z \in A : \A y \in A : z <= y
  BY <1>2
<1>4. Least(A) \in A /\ \A y \in A : Least(A) <= y
  BY <1>3, Zenon DEF Least
<1> QED
  BY <1>4

\* Segment s for connection c, and the numbers of their pair.
LEMMA Incoming ==
  ASSUME TypeInv, NEW h \in Host, NEW i \in Slot, NEW c, c = conns[h][i], Used(c),
         NEW k \in 0 .. born, NEW x \in 0 .. born, NEW b \in Nat, NEW a \in Nat,
         Pair(h, c.lport, c.rip, c.rport, k, b, x, a),
         NEW s \in net, Along(s, c.rip, c.rport, h, c.lport)
  PROVE  /\ s \in SegRec /\ SegOK(s, x, a, k, b) /\ EndOK(c, h, c.lport, c.rip, c.rport, k, b, x, a)
         /\ c.st = "SYN_SENT" => s.flags = Rst \/ s.flags = Syn \/ s.flags = SynAck
         /\ c.st \in Early => ~OutOfOrder(c, s)
<1>1. /\ s \in SegRec /\ SegOK(s, x, a, k, b) /\ EndOK(c, h, c.lport, c.rip, c.rport, k, b, x, a)
      /\ k # 0 /\ read[k] \in Seq(Nat)
  BY PairIs
<1>2. s.flags \in FlagSets /\ s.seq \in Nat
  BY <1>1, SegFields
<1>3. ASSUME c.st = "SYN_SENT"
      PROVE  s.flags = Rst \/ s.flags = Syn \/ s.flags = SynAck
  <2>1. from[k] = 0
    BY <1>1, <1>3 DEF EndOK, SynSentOK
  <2>2. ASSUME s.flags = Bare \/ s.flags = Fin
        PROVE  FALSE
    <3>1. Both(x, k) /\ x # 0
      BY <1>1, <2>2, FlagsDiffer DEF SegOK
    <3> QED
      BY <2>1, <3>1 DEF Both
  <2> QED
    BY <1>2, <2>2 DEF FlagSets
<1>4. ASSUME c.st = "SYN_RCVD", s.data # <<>>
      PROVE  s.seq = c.rcv
  <2>1. c.rcv = a /\ read[k] = <<>> /\ ~left[k]
    BY <1>1, <1>4 DEF EndOK, SynRcvdOK, Open
  <2>2. DataOK(s, x, a, k)
    BY <1>1, <1>4 DEF SegOK
  <2>3. a <= s.seq /\ s.seq <= a + Len(read[k])
    BY <1>4, <2>1, <2>2 DEF DataOK
  <2>4. Len(read[k]) = 0
    BY <2>1, Empty
  <2>5. s.seq <= a + 0
    BY <2>3, <2>4
  <2> QED
    BY <1>2, <2>1, <2>3, <2>5
<1>5. c.st = "SYN_SENT" => s.data = <<>>
  BY <1>1, <1>3, FlagsDiffer DEF SegOK
<1> QED
  BY <1>1, <1>3, <1>4, <1>5 DEF Early, OutOfOrder

LEMMA InputSuits ==
  ASSUME TypeInv, NEW h \in Host, NEW i \in Slot, NEW c, c = conns[h][i], Used(c),
         NEW s \in net, Along(s, c.rip, c.rport, h, c.lport), s.flags # Rst, NEW r, Outcome(h, c, s, r)
  PROVE  Suits(h, i, c, r)
<1>1. SUFFICES ASSUME NEW k \in 0 .. born, NEW x \in 0 .. born, NEW b \in Nat, NEW a \in Nat,
                      Pair(h, c.lport, c.rip, c.rport, k, b, x, a), Acts(h, i, c, r, k, b, x, a)
               PROVE  Fine(h, c, r, k, b, x, a)
  BY DEF Suits
<1>2. s \in SegRec /\ SegOK(s, x, a, k, b) /\ EndOK(c, h, c.lport, c.rip, c.rport, k, b, x, a)
  BY <1>1, Incoming
<1>3. /\ s.flags \in FlagSets /\ s.seq \in Nat /\ s.ack \in Nat /\ x # 0 /\ k # 0
      /\ c \in ConnRec /\ c.st \in State
  BY <1>1, <1>2, SegFields, ConnsAre, ConnFields DEF SegOK, Acts
<1>4. CASE Quits(h, c, r)
  BY <1>1, <1>4, QuitStep
<1>5. CASE Leaves(h, c, c.peer, r) /\ c.st \notin Early
  <2>1. c.peer = x /\ Both(k, x)
    BY <1>2, <1>3, <1>5, Sorts DEF EndOK, FlowOK
  <2>2. Leaves(h, c, x, r)
    BY <1>5, <2>1
  <2>3. Joins(r.c, k, x)
    BY <2>1, <2>2 DEF Joins, Leaves, Both
  <2> QED
    BY <1>1, <2>2, <2>3, LeaveStep
<1>6. CASE Opening(h, c, r) /\ r.got = <<>>
  BY <1>1, <1>6, OpeningStep
<1>7. CASE Goes(h, c, s, r)
  <2>1. /\ Flows(h, c, r) /\ c.st = "ESTABLISHED" /\ r.c.peer = c.peer /\ r.c.rcv = c.rcv + Len(r.got)
        /\ (s.flags = Fin /\ r.c.pos = c.pos) \/ Moves(c, s, r.c)
    BY <1>7 DEF Goes
  <2>2. s.flags = Fin => left[x]
    BY <1>2 DEF SegOK
  <2>3. ASSUME AckData(c, s)
        PROVE  c.len > 0 /\ (left[x] \/ c.snd + c.len <= b + Len(read[x]))
    <3>1. c.len > 0 /\ s.ack = c.snd + c.len /\ "ACK" \in s.flags
      BY <2>3 DEF AckData, Sent
    <3>2. s.flags = SynAck \/ s.flags = Bare \/ s.flags = Fin
      BY <1>3, <3>1, FlagFacts DEF FlagSets
    <3>3. s.flags # Fin => AckOK(s, x, b)
      BY <1>2, <3>2 DEF SegOK
    <3> QED
      BY <2>2, <3>1, <3>3 DEF AckOK
  <2>4. \/ left[x] /\ r.c.pos = c.pos
        \/ r.c.snd = c.snd /\ r.c.pos = c.pos /\ (c.len = 0 \/ r.c.len = c.len)
        \/ /\ c.len > 0 /\ r.c.snd = c.snd + c.len /\ r.c.pos = c.pos + c.len
           /\ left[x] \/ c.snd + c.len <= b + Len(read[x])
    BY <2>1, <2>2, <2>3 DEF Moves
  <2> QED
    BY <1>1, <2>1, <2>4, FlowStep
<1>8. CASE Opens(h, c, s, r)
  <2>1. SynRcvdOK(c, h, c.lport, c.rip, c.rport, k, b, x, a) /\ c.st = "SYN_RCVD" /\ "ACK" \in s.flags
    BY <1>2, <1>8 DEF Opens, EndOK, AckData
  <2>2. c.peer = x /\ c.rcv = a /\ from[k] = x
    BY <2>1 DEF SynRcvdOK
  <2>3. s.flags = SynAck \/ s.flags = Bare \/ s.flags = Fin
    BY <1>3, <2>1, FlagFacts DEF FlagSets
  <2>4. from[x] = k
    BY <1>2, <2>3 DEF SegOK, Both
  <2>5. CASE Leaves(h, c, c.peer, r)
    <3>1. Leaves(h, c, x, r)
      BY <2>2, <2>5
    <3>2. Joins(r.c, k, x)
      BY <1>3, <2>2, <2>4, <3>1 DEF Joins, Leaves
    <3> QED
      BY <1>1, <3>1, <3>2, LeaveStep
  <2>6. CASE /\ Flows(h, c, r) /\ r.c.snd = c.snd + c.len /\ r.c.pos = c.pos /\ r.c.peer = c.peer
             /\ r.c.rcv = c.rcv + Len(r.got)
    <3>1. Greeted(c, r, a)
      BY <2>2, <2>6 DEF Greeted
    <3>2. Joins(r.c, k, x)
      BY <1>3, <2>2, <2>4, <2>6 DEF Joins
    <3> QED
      BY <1>1, <2>1, <2>6, <3>1, <3>2, GreetStep
  <2> QED
    BY <1>4, <1>8, <2>5, <2>6 DEF Opens
<1>9. CASE Answers(h, c, s, r)
  <2>1. SynSentOK(c, k, b, x) /\ c.st = "SYN_SENT" /\ s.flags = SynAck /\ r.got = <<>>
    BY <1>2, <1>9 DEF Answers, EndOK
  <2>2. from[k] = 0 /\ read[k] = <<>>
    BY <2>1 DEF SynSentOK
  <2>3. s.id = x /\ s.seq + 1 = a /\ from[x] = k
    BY <1>2, <2>1 DEF SegOK
  <2>4. CASE Leaves(h, c, s.id, r)
    <3>1. Leaves(h, c, x, r)
      BY <2>3, <2>4
    <3>2. Joins(r.c, k, x)
      BY <1>3, <2>2, <2>3, <3>1 DEF Joins, Leaves
    <3> QED
      BY <1>1, <3>1, <3>2, LeaveStep
  <2>5. CASE /\ Flows(h, c, r) /\ r.c.snd = c.snd + c.len /\ r.c.pos = c.pos /\ r.c.peer = s.id
             /\ r.c.rcv = s.seq + 1
    <3>1. Greeted(c, r, a)
      <4>1. Len(r.got) = 0 /\ a = a + 0
        BY <2>1, Empty
      <4> QED
        BY <2>3, <2>5, <4>1 DEF Greeted
    <3>2. Joins(r.c, k, x)
      BY <1>3, <2>2, <2>3, <2>5 DEF Joins
    <3> QED
      BY <1>1, <2>1, <2>5, <3>1, <3>2, GreetStep
  <2> QED
    BY <1>4, <1>9, <2>4, <2>5 DEF Answers
<1> QED
  BY <1>4, <1>5, <1>6, <1>7, <1>8, <1>9 DEF Outcome

LEMMA MatchingIs ==
  ASSUME TypeInv, NEW s \in net, Matching(s) # {}
  PROVE  /\ s.dst \in Host /\ Least(Matching(s)) \in Slot
         /\ Used(conns[s.dst][Least(Matching(s))])
         /\ Along(s, conns[s.dst][Least(Matching(s))].rip, conns[s.dst][Least(Matching(s))].rport,
                  s.dst, conns[s.dst][Least(Matching(s))].lport)
<1>1. Matching(s) \in SUBSET Nat /\ Matching(s) \subseteq Slot
  BY ConstFacts DEF Matching, Slot
<1>2. Least(Matching(s)) \in Matching(s)
  BY <1>1, LeastIs
<1>3. s.dst \in Host
  BY SegFields DEF TypeInv
<1>4. Least(Matching(s)) \in Slot /\ Matches(conns[s.dst][Least(Matching(s))], s)
  BY <1>2 DEF Matching
<1> QED
  BY <1>3, <1>4 DEF Matches, Used, Along

LEMMA InputStep ==
  ASSUME TypeInv, Unique, PairsOK, NEW s \in net, Input(s)
  PROVE  Step
<1>1. PICK h, i, n : h = s.dst /\ i = Least(Matching(s)) /\ n \in Rests(s)
                     /\ \E r \in Handled(h, conns[h][i], s) : Apply(h, i, r, n)
  BY DEF Input
<1>2. PICK c, r : c = conns[h][i] /\ r \in Handled(h, c, s) /\ Apply(h, i, r, n)
  BY <1>1
<1>3. h \in Host /\ i \in Slot /\ Used(c) /\ Along(s, c.rip, c.rport, h, c.lport)
  BY <1>1, <1>2, MatchingIs DEF Input
<1>4. ConnOK(h, c) /\ c \in ConnRec /\ c.rip \in Host /\ c.lport \in Port /\ c.rport \in Port /\ Apart(c.lport, c.rport)
  BY <1>2, <1>3, ConnsAre, ConnFields
<1>5. \A z \in n : z \in net
  BY <1>1 DEF Rests
<1>6. iss' \in [Host -> Nat] /\ UNCHANGED <<listenports, lastport, born>>
  BY DEF Input, TypeInv
<1>7. PICK k \in 0 .. born, x \in 0 .. born, b \in Nat, a \in Nat : Pair(h, c.lport, c.rip, c.rport, k, b, x, a)
  BY <1>3, <1>4 DEF PairsOK
<1>8. /\ s \in SegRec /\ (c.st = "SYN_SENT" => s.flags = Rst \/ s.flags = Syn \/ s.flags = SynAck)
      /\ c.st \in Early => ~OutOfOrder(c, s)
  BY <1>2, <1>3, <1>7, Incoming
<1>9. c.st = "SYN_SENT" /\ AckData(c, s) => s.flags = Rst \/ s.flags = SynAck
  BY <1>8, FlagFacts DEF AckData
<1>10. Outcome(h, c, s, r)
  BY <1>2, <1>3, <1>4, <1>8, <1>9, HandledIs
<1>11. Got(h, c, r)
  <2>1. CASE r.got = <<>>
    BY <2>1 DEF Got
  <2>2. CASE r.got # <<>>
    BY <1>3, <1>10, <2>2 DEF Got, Delivers, Outcome
  <2> QED
    BY <2>1, <2>2
<1>12. CASE s.flags # Rst
  <2>1. Suits(h, i, c, r)
    BY <1>2, <1>3, <1>10, <1>12, InputSuits
  <2>2. Typed(h, c, r)
    BY <1>3, <1>10, TypedIs DEF Outcome, Goes, Opens, Answers
  <2> QED
    BY <1>2, <1>3, <1>5, <1>6, <1>11, <2>1, <2>2, CallIs
<1>13. CASE s.flags = Rst
  <2>1. r = Res(Closed, {})
    BY <1>2, <1>13, FlagFacts DEF Handled
  <2>2. Quits(h, c, r)
    BY <2>1, SmallSets DEF Quits, Res
  <2>3. Typed(h, c, r)
    BY <1>3, <2>2, TypedIs
  <2>4. Suits(h, i, c, r)
    BY <2>2, QuitStep DEF Suits
  <2> QED
    BY <1>2, <1>3, <1>5, <1>6, <1>11, <2>3, <2>4, CallIs
<1> QED
  BY <1>12, <1>13

LEMMA RestsAre ==
  ASSUME NetOK(net), NEW s, NEW n \in Rests(s)
  PROVE  NetOK(n) /\ \A z \in n : z \in net
<1>1. \A z \in n : z \in net
  BY DEF Rests
<1>2. IsFiniteSet({}) /\ \A z \in {} : z \in SegRec /\ Apart(z.sport, z.dport)
  BY SmallSets
<1> QED
  BY <1>1, <1>2, PostIs

LEMMA RefuseStep ==
  ASSUME TypeInv, Unique, PairsOK, NEW s \in net, Refuse(s)
  PROVE  Step
<1>1. PICK n \in Rests(s) : net' = Post(n, Reset(s))
  BY DEF Refuse
<1>2. NetOK(net) /\ s \in SegRec /\ Apart(s.sport, s.dport)
  BY DEF TypeInv, NetOK
<1>3. \A z \in n : z \in net
  BY <1>1, <1>2, RestsAre
<1>4. /\ IsFiniteSet(Reset(s))
      /\ \A z \in Reset(s) : z \in SegRec /\ Apart(z.sport, z.dport) /\ Resets(z)
  <2>1. CASE Reset(s) = {}
    BY <2>1, SmallSets
  <2>2. PICK z : z = [src |-> s.dst, dst |-> s.src, sport |-> s.dport, dport |-> s.sport,
                      flags |-> Rst, seq |-> 0, ack |-> 0, id |-> 0, data |-> <<>>]
    OBVIOUS
  <2>3. z \in SegRec /\ z.sport = s.dport /\ z.dport = s.sport /\ Resets(z)
    BY <1>2, <2>2, SegFields, Limits, Empty DEF SegRec, Resets, FlagSets
  <2>4. Apart(z.sport, z.dport)
    BY <1>2, <2>3 DEF Apart
  <2>5. Reset(s) = {} \/ Reset(s) = {z}
    BY <2>2 DEF Reset, Rst
  <2>6. CASE Reset(s) = {z}
    BY <2>3, <2>4, <2>6, SmallSets
  <2> QED
    BY <2>1, <2>5, <2>6
<1>5. NetOK(net') /\ \A z \in net' : z \in net \/ z \in Reset(s)
  BY <1>1, <1>2, <1>3, <1>4, PostIs
<1>6. \A z \in net' : z \in net \/ Resets(z)
  BY <1>4, <1>5
<1> QED
  BY <1>5, <1>6, KeepIs DEF Refuse, TypeInv

LEMMA LoseStep ==
  ASSUME TypeInv, Unique, PairsOK, NEW s \in net, Lose(s)
  PROVE  Step
<1>1. NetOK(net) /\ net' \in Rests(s)
  BY DEF TypeInv, NetOK, Lose, Rests
<1>2. NetOK(net') /\ \A z \in net' : z \in net
  BY <1>1, RestsAre
<1> QED
  BY <1>2, KeepIs DEF Lose, TypeInv

LEMMA PortStep ==
  ASSUME TypeInv, Unique, PairsOK, NEW h \in Host, NEW port \in ListenPort, Listen(h, port) \/ Unlisten(h, port)
  PROVE  Step
<1>1. PICK old \in ListenPort \cup {0}, new \in ListenPort \cup {0} : SetPort(h, old, new)
  BY DEF Listen, Unlisten
<1>2. listenports \in [Host -> [1 .. UIP_LISTENPORTS -> ListenPort \cup {0}]]
  BY DEF TypeInv
<1>3. PICK l : listenports' = [listenports EXCEPT ![h][l] = new]
  BY <1>1 DEF SetPort
<1>4. listenports' \in [Host -> [1 .. UIP_LISTENPORTS -> ListenPort \cup {0}]]
  BY <1>2, <1>3
<1>5. NetOK(net')
  BY <1>1 DEF SetPort, TypeInv, NetOK
<1> QED
  BY <1>1, <1>4, <1>5, KeepIs DEF SetPort, TypeInv

-----------------------------------------------------------------------------
(* New connections.                                                          *)

LEMMA FreeIs ==
  ASSUME TypeInv, NEW h \in Host, NEW i \in FreeSlots(h)
  PROVE  i \in Slot
<1>1. PICK free : free = {j \in Slot : conns[h][j].st = "CLOSED"}
  OBVIOUS
<1>2. free \in SUBSET Nat /\ free \subseteq Slot
  BY <1>1, ConstFacts DEF Slot
<1>3. i \in IF free # {} THEN {Least(free)} ELSE {j \in Slot : conns[h][j].st = "TIME_WAIT"}
  BY <1>1, Zenon DEF FreeSlots
<1>4. free # {} => Least(free) \in free
  BY <1>2, LeastIs
<1> QED
  BY <1>2, <1>3, <1>4

\* There are more ports than connections.
LEMMA SomeUnused ==
  ASSUME TypeInv, NEW h \in Host
  PROVE  \E p \in LowPort .. EndPort - 1 : Unused(h, p)
<1>1. LowPort \in Nat /\ EndPort \in Nat /\ UIP_CONNS \in Nat /\ LowPort + UIP_CONNS < EndPort
  BY ConstFacts
<1> DEFINE L == LowPort .. EndPort - 1
<1>2. SUFFICES ASSUME \A p \in L : ~Unused(h, p)
               PROVE  FALSE
  OBVIOUS
<1>3. \A p \in L : \E i \in Slot : conns[h][i].lport = p
  BY <1>2 DEF Unused
<1>4. PICK f : f = [p \in L |-> CHOOSE i \in Slot : conns[h][i].lport = p]
  OBVIOUS
<1>5. \A p \in L : f[p] \in Slot /\ conns[h][f[p]].lport = p
  BY <1>3, <1>4
<1>6. f \in [L -> Slot]
  BY <1>4, <1>5
<1>7. IsFiniteSet(L) /\ Cardinality(L) = EndPort - LowPort
  BY <1>1, FS_Interval
<1>8. IsFiniteSet(Slot) /\ Cardinality(Slot) = UIP_CONNS
  BY <1>1, FS_Interval DEF Slot
<1>9. Cardinality(Slot) < Cardinality(L)
  BY <1>1, <1>7, <1>8
<1> HIDE DEF L
<1>10. PICK p \in L, q \in L : p # q /\ f[p] = f[q]
  BY <1>6, <1>7, <1>8, <1>9, FS_PigeonHole
<1> QED
  BY <1>5, <1>10

LEMMA NextPortIs ==
  ASSUME TypeInv, PortsApart, NEW h \in Host, NEW port \in ListenPort
  PROVE  /\ NextPort(h) \in Port /\ NextPort(h) # 0 /\ NextPort(h) \notin ListenPort /\ Unused(h, NextPort(h))
         /\ \A p \in ListenPort : p <= NextPort(h)
<1>1. /\ lastport[h] \in Nat /\ lastport[h] <= EndPort /\ \A p \in ListenPort : p <= lastport[h]
      /\ LowPort \in Nat /\ EndPort \in Nat /\ ListenPort \subseteq Nat \ {0}
      /\ \A p \in ListenPort : p < LowPort
  BY ConstFacts DEF TypeInv, Port, PortsApart
<1>2. PICK up, all : /\ up = {p \in lastport[h] + 1 .. EndPort - 1 : Unused(h, p)}
                     /\ all = {p \in LowPort .. EndPort - 1 : Unused(h, p)}
  OBVIOUS
<1>3. NextPort(h) = IF up # {} THEN Least(up) ELSE Least(all)
  BY <1>2, Zenon DEF NextPort
<1>4. all # {}
  BY <1>2, SomeUnused
<1>5. up \in SUBSET Nat /\ all \in SUBSET Nat
  BY <1>1, <1>2
<1>6. NextPort(h) \in up \/ NextPort(h) \in all
  BY <1>3, <1>4, <1>5, LeastIs
<1>7. PICK n : n = NextPort(h)
  OBVIOUS
<1>8. n \in Nat /\ n < EndPort /\ Unused(h, n) /\ (n > lastport[h] \/ n >= LowPort)
  BY <1>1, <1>2, <1>6, <1>7
<1>9. \A p \in ListenPort : p < n
  BY <1>1, <1>8
<1>10. n # 0 /\ n \notin ListenPort /\ n \in Port
  BY <1>1, <1>8, <1>9 DEF Port
<1> QED
  BY <1>1, <1>7, <1>8, <1>9, <1>10

\* Slot i of host h is for a new connection, d.
Makes(h, i, d) ==
  /\ conns' = [conns EXCEPT ![h][i] = d]
  /\ ConnOK(h, d) /\ Used(d) /\ d.id = born + 1
  /\ born < MaxConn /\ born' = born + 1
  /\ \A y \in ConnId : y # d.id => Same(y)
  /\ from' \in [ConnId -> Number0] /\ read' = read /\ told' = told /\ left' = left

LEMMA MakesIs ==
  ASSUME TypeInv, Unique, NEW h \in Host, NEW i \in Slot, NEW d, Makes(h, i, d)
  PROVE  /\ d \in ConnRec /\ d.rip \in Host /\ d.lport \in Port /\ d.rport \in Port /\ Apart(d.lport, d.rport)
         /\ d.id \in ConnId /\ d.id \in Number0 /\ d.id # 0 /\ d.id \in 0 .. born' /\ born \in Nat
         /\ from[d.id] = 0 /\ read[d.id] = <<>> /\ told[d.id] = 0 /\ ~left[d.id]
         /\ conns'[h][i] = d
         /\ \A f \in Host, j \in Slot : f # h \/ j # i => conns'[f][j] = conns[f][j]
         /\ \A f \in Host, j \in Slot : conns[f][j].id # d.id
         /\ \A y \in 0 .. born : y # d.id /\ y \in Number0 /\ y \in 0 .. born' /\ (y # 0 => Same(y) /\ Grows(y))
<1>1. born \in Nat /\ born <= MaxConn /\ MaxConn \in Nat /\ born < MaxConn /\ born' = born + 1 /\ d.id = born + 1
  BY ConstFacts DEF TypeInv, Makes
<1>2. d.id \in ConnId /\ d.id \in Number0 /\ d.id # 0 /\ d.id \in 0 .. born' /\ d.id > born
  BY <1>1 DEF ConnId, Number0
<1>3. d \in ConnRec /\ d.rip \in Host /\ d.lport \in Port /\ d.rport \in Port /\ Apart(d.lport, d.rport)
  BY ConnFields DEF Makes, ConnOK
<1>4. from[d.id] = 0 /\ read[d.id] = <<>> /\ told[d.id] = 0 /\ ~left[d.id]
  BY <1>2 DEF Unique
<1>5. conns'[h][i] = d /\ \A f \in Host, j \in Slot : f # h \/ j # i => conns'[f][j] = conns[f][j]
  BY DEF Makes, TypeInv
<1>6. ASSUME NEW f \in Host, NEW j \in Slot
      PROVE  conns[f][j].id # d.id
  <2>1. PICK m : m = conns[f][j].id
    OBVIOUS
  <2>2. m <= born /\ m \in Nat
    BY <2>1, ConnsAre, ConnFields
  <2> QED
    BY <1>1, <2>1, <2>2
<1>7. \A y \in 0 .. born : y # d.id /\ y \in Number0 /\ y \in 0 .. born'
  BY <1>1 DEF Number0
<1>8. \A y \in 0 .. born : y # 0 => Same(y) /\ Grows(y)
  BY <1>7, HistoryIs, SameGrows DEF Makes
<1> QED
  BY <1>1, <1>2, <1>3, <1>4, <1>5, <1>6, <1>7, <1>8

LEMMA MakesPairs ==
  ASSUME TypeInv, Unique, PairsOK, NEW h \in Host, NEW i \in Slot, NEW d, Makes(h, i, d),
         \A s \in net' : s \in net \/ Along(s, h, d.lport, d.rip, d.rport),
         NEW x \in 0 .. born, NEW b \in Nat, NEW a \in Nat,
         Half(h, d.lport, d.rip, d.rport, d.id, b, x, a)', Half(d.rip, d.rport, h, d.lport, x, a, d.id, b)'
  PROVE  PairsOK'
<1>1. PICK k, p, g, q : k = d.id /\ p = d.lport /\ g = d.rip /\ q = d.rport
  OBVIOUS
<1>2. /\ k \in Number0 /\ k \in 0 .. born' /\ g \in Host /\ p \in Port /\ q \in Port
      /\ conns'[h][i] = d /\ \A f \in Host, j \in Slot : f # h \/ j # i => conns'[f][j] = conns[f][j]
      /\ \A y \in 0 .. born : y # k /\ y \in Number0 /\ y \in 0 .. born' /\ (y # 0 => Same(y) /\ Grows(y))
  BY <1>1, MakesIs
<1>3. Pair(h, p, g, q, k, b, x, a)' /\ Pair(g, q, h, p, x, a, k, b)'
  BY <1>1 DEF Pair
<1>4. ASSUME NEW f \in Host, NEW e \in Host, NEW t \in Port, NEW u \in Port,
             NEW l \in 0 .. born, NEW y \in 0 .. born, NEW m \in Nat, NEW n \in Nat,
             Half(f, t, e, u, l, m, y, n), ~(f = h /\ t = p /\ e = g /\ u = q)
      PROVE  Half(f, t, e, u, l, m, y, n)'
  <2>1. ASSUME NEW j \in Slot, On(conns'[f][j], t, e, u)
        PROVE  conns'[f][j] = conns[f][j]
    BY <1>1, <1>2, <1>4, <2>1 DEF On
  <2>2. ASSUME NEW o \in Host, NEW j \in Slot, Used(conns'[o][j]), conns'[o][j].id = l
        PROVE  conns'[o][j] = conns[o][j]
    BY <1>1, <1>2, <2>2
  <2>3. \A s \in net' : Along(s, f, t, e, u) => s \in net
    BY <1>1, <1>4 DEF Along
  <2>4. (l # 0 => Same(l)) /\ (y # 0 => Grows(y) /\ Gets(f, t, e, u, l, m, y))
    BY <1>2 DEF Gets, Same
  <2>5. l \in Number0 /\ y \in Number0
    BY <1>2
  <2> QED
    BY <1>4, <2>1, <2>2, <2>3, <2>4, <2>5, HalfStays
<1>5. ASSUME NEW f \in Host, NEW e \in Host, NEW t \in Port, NEW u \in Port, Apart(t, u)
      PROVE  \E l, y \in 0 .. born' : \E m, n \in Nat : Pair(f, t, e, u, l, m, y, n)'
  <2>0. x \in 0 .. born'
    BY <1>2
  <2>1. CASE f = h /\ t = p /\ e = g /\ u = q
    BY <1>2, <1>3, <2>0, <2>1
  <2>2. CASE f = g /\ t = q /\ e = h /\ u = p
    BY <1>2, <1>3, <2>0, <2>2
  <2>3. CASE ~(f = h /\ t = p /\ e = g /\ u = q) /\ ~(f = g /\ t = q /\ e = h /\ u = p)
    <3>1. PICK l \in 0 .. born, y \in 0 .. born, m \in Nat, n \in Nat : Pair(f, t, e, u, l, m, y, n)
      BY <1>5 DEF PairsOK
    <3>2. Half(f, t, e, u, l, m, y, n) /\ Half(e, u, f, t, y, n, l, m)
      BY <3>1 DEF Pair
    <3>3. Half(f, t, e, u, l, m, y, n)'
      BY <1>4, <2>3, <3>2
    <3>4. Half(e, u, f, t, y, n, l, m)'
      BY <1>4, <2>3, <3>2
    <3>5. l \in 0 .. born' /\ y \in 0 .. born'
      BY <1>2
    <3> QED
      BY <3>3, <3>4, <3>5 DEF Pair
  <2> QED
    BY <2>1, <2>2, <2>3
<1> QED
  BY <1>5 DEF PairsOK

LEMMA MakesTypes ==
  ASSUME TypeInv, Unique, NEW h \in Host, NEW i \in Slot, NEW d, Makes(h, i, d), NetOK(net'),
         lastport' \in [Host -> Port], \A f \in Host, p \in ListenPort : p <= lastport'[f],
         UNCHANGED <<iss, listenports>>
  PROVE  TypeInv' /\ Unique'
<1>1. /\ d \in ConnRec /\ d.id \in 0 .. born' /\ born \in Nat /\ conns'[h][i] = d
      /\ \A f \in Host, j \in Slot : f # h \/ j # i => conns'[f][j] = conns[f][j]
      /\ \A f \in Host, j \in Slot : conns[f][j].id # d.id
      /\ ConnOK(h, d) /\ d.id = born + 1 /\ born' = born + 1 /\ born < MaxConn /\ MaxConn \in Nat
  <2>1. ConnOK(h, d) /\ d.id = born + 1 /\ born' = born + 1 /\ born < MaxConn /\ MaxConn \in Nat
    BY ConstFacts DEF Makes
  <2>2. /\ d \in ConnRec /\ d.id \in 0 .. born' /\ born \in Nat /\ conns'[h][i] = d
        /\ \A f \in Host, j \in Slot : f # h \/ j # i => conns'[f][j] = conns[f][j]
        /\ \A f \in Host, j \in Slot : conns[f][j].id # d.id
    BY MakesIs
  <2> QED
    BY <2>1, <2>2
<1>2. conns' \in [Host -> [Slot -> ConnRec]]
  <2>1. conns \in [Host -> [Slot -> ConnRec]] /\ conns' = [conns EXCEPT ![h][i] = d]
    BY DEF Makes, TypeInv
  <2> QED
    BY <1>1, <2>1
<1>3. ASSUME NEW f \in Host, NEW j \in Slot
      PROVE  ConnOK(f, conns'[f][j]) /\ conns'[f][j].id <= born'
  <2>1. CASE f = h /\ j = i
    BY <1>1, <2>1
  <2>2. CASE f # h \/ j # i
    <3>1. PICK m : m = conns[f][j].id
      OBVIOUS
    <3>2. m <= born /\ m \in Nat /\ ConnOK(f, conns[f][j])
      BY <3>1, ConnsAre, ConnFields
    <3>3. m <= born'
      BY <1>1, <3>2
    <3> QED
      BY <1>1, <2>2, <3>1, <3>2, <3>3
  <2> QED
    BY <2>1, <2>2
<1>4. TypeInv'
  <2>1. \A f \in Host, j \in Slot : ConnOK(f, conns[f][j])' /\ (conns[f][j].id <= born)'
    BY <1>3 DEF ConnOK, Used
  <2>2. born' \in 0 .. MaxConn
    BY <1>1
  <2>3. from' \in [ConnId -> Number0] /\ read' = read /\ told' = told /\ left' = left
    BY DEF Makes
  <2>4. /\ listenports' \in [Host -> [1 .. UIP_LISTENPORTS -> ListenPort \cup {0}]] /\ iss' \in [Host -> Nat]
        /\ read' \in [ConnId -> Seq(Nat)] /\ told' \in [ConnId -> Nat] /\ left' \in [ConnId -> BOOLEAN]
    BY <2>3 DEF TypeInv
  <2>5. /\ net' \in SUBSET SegRec /\ IsFiniteSet(net') /\ Cardinality(net') <= MaxNet
        /\ \A s \in net' : Apart(s.sport, s.dport)
    BY DEF NetOK
  <2> QED
    BY <1>2, <2>1, <2>2, <2>3, <2>4, <2>5 DEF TypeInv
<1>5. ASSUME NEW f \in Host, NEW g \in Host, NEW j \in Slot, NEW l \in Slot,
             Used(conns'[f][j]), conns'[f][j].id = conns'[g][l].id
      PROVE  f = g /\ j = l
  <2>1. CASE f = h /\ j = i
    BY <1>1, <1>5, <2>1
  <2>2. CASE f # h \/ j # i
    <3>1. CASE g = h /\ l = i
      BY <1>1, <1>5, <2>2, <3>1
    <3>2. CASE g # h \/ l # i
      BY <1>1, <1>5, <2>2, <3>2 DEF Unique
    <3> QED
      BY <3>1, <3>2
  <2> QED
    BY <2>1, <2>2
<1>6. ASSUME NEW y \in ConnId, y > born'
      PROVE  from'[y] = 0 /\ read'[y] = <<>> /\ told'[y] = 0 /\ ~left'[y]
  <2>1. y > born /\ y # d.id
    BY <1>1, <1>6 DEF ConnId
  <2> QED
    BY <2>1 DEF Makes, Same, Unique
<1>7. Unique'
  BY <1>5, <1>6 DEF Unique, Used
<1> QED
  BY <1>4, <1>7

LEMMA MakesStep ==
  ASSUME TypeInv, Unique, PairsOK', NEW h \in Host, NEW i \in Slot, NEW d, Makes(h, i, d), NetOK(net'),
         lastport' \in [Host -> Port], \A f \in Host, p \in ListenPort : p <= lastport'[f],
         UNCHANGED <<iss, listenports>>
  PROVE  Step
<1>1. TypeInv' /\ Unique'
  BY MakesTypes
<1>2. ASSUME NEW y \in ConnId
      PROVE  StreamOK(y)
  <2>1. CASE y = d.id
    <3>1. from[y] = 0 /\ read[y] = <<>>
      BY <2>1, MakesIs
    <3>2. read' = read /\ told' = told /\ left' = left
      BY DEF Makes
    <3> QED
      BY <3>1, <3>2 DEF StreamOK, S!Meet, S!Read, S!Tell
  <2>2. CASE y # d.id
    BY <2>2, SameStream DEF Makes
  <2> QED
    BY <2>1, <2>2
<1> QED
  BY <1>1, <1>2 DEF Step, Advances

LEMMA ConnectStep ==
  ASSUME TypeInv, Unique, PairsOK, PortsApart, NEW h \in Client, NEW to \in Host, NEW port \in ListenPort,
         h # to, Connect(h, to, port), born' # born => Rested(h, NextPort(h))
  PROVE  Step
<1>1. h \in Host /\ port \in Port /\ port # 0 /\ port \in Nat
  <2>1. h \in Host /\ ListenPort \subseteq Nat \ {0} /\ EndPort \in Nat
    BY ConstFacts
  <2>2. port <= lastport[h] /\ lastport[h] \in Nat /\ lastport[h] <= EndPort
    BY <2>1 DEF TypeInv, Port
  <2> QED
    BY <2>1, <2>2 DEF Port
<1>2. PICK p : p = NextPort(h)
  OBVIOUS
<1>3. p \in Port /\ p # 0 /\ p \notin ListenPort /\ Unused(h, p) /\ \A q \in ListenPort : q <= p
  BY <1>1, <1>2, NextPortIs
<1>4. lastport' \in [Host -> Port] /\ \A f \in Host, q \in ListenPort : q <= lastport'[f]
  <2>1. lastport' = [lastport EXCEPT ![h] = p]
    BY <1>2 DEF Connect
  <2> QED
    BY <1>1, <1>3, <2>1 DEF TypeInv
<1>5. NetOK(net) /\ net' = net
  BY DEF TypeInv, NetOK, Connect
<1>6. UNCHANGED <<listenports, iss, net, from, read, told, left>>
  BY DEF Connect
<1>7. CASE UNCHANGED <<conns, born>>
  <2>1. /\ TypeInv' /\ Unique'
    BY <1>4, <1>6, <1>7 DEF TypeInv, Unique, ConnOK, Used
  <2>2. \A y \in ConnId : Same(y)
    BY <1>6 DEF Same
  <2>3. Advances
    BY <1>6, <1>7, <2>2, PairsKeep
  <2> QED
    BY <2>1, <2>3 DEF Step
<1>8. CASE ~UNCHANGED <<conns, born>>
  <2>1. PICK i, d :
          /\ i \in FreeSlots(h) /\ conns' = [conns EXCEPT ![h][i] = d] /\ born < MaxConn /\ born' = born + 1
          /\ d = [Closed EXCEPT !.st = "SYN_SENT", !.snd = iss[h], !.len = 1, !.lport = p,
                                !.rport = port, !.rip = to, !.id = born + 1]
    BY <1>2, <1>8 DEF Connect
  <2>2. i \in Slot
    BY <1>1, <2>1, FreeIs
  <2>3. iss[h] \in Nat /\ born \in Nat /\ born + 1 \in Number0 /\ born + 1 # 0 /\ born' # born
    <3>1. iss[h] \in Nat /\ born \in Nat /\ MaxConn \in Nat
      BY <1>1, ConstFacts DEF TypeInv
    <3> QED
      BY <2>1, <3>1 DEF Number0
  <2>4. /\ d \in ConnRec /\ d.st = "SYN_SENT" /\ d.snd = iss[h] /\ d.len = 1 /\ d.lport = p /\ d.rport = port
        /\ d.rip = to /\ d.id = born + 1 /\ d.peer = 0 /\ d.pos = 0
    BY <1>1, <1>3, <2>1, <2>3, Limits, States, ConstFacts DEF Closed, ConnRec
  <2>5. Used(d) /\ Open(d) /\ ConnOK(h, d)
    BY <1>1, <1>3, <2>3, <2>4, ConstFacts DEF Used, Open, ConnOK, Apart
  <2>6. Makes(h, i, d)
    BY <1>6, <2>1, <2>4, <2>5 DEF Makes, Same, TypeInv
  <2>7. PICK k, b : k = d.id /\ b = iss[h] + 1 /\ b \in Nat
    BY <2>3
  <2>8. Rested(h, p)
    BY <1>2, <2>3
  <2>9. /\ conns'[h][i] = d /\ \A f \in Host, j \in Slot : f # h \/ j # i => conns'[f][j] = conns[f][j]
        /\ \A f \in Host, j \in Slot : conns[f][j].id # k
        /\ from[k] = 0 /\ read[k] = <<>> /\ told[k] = 0 /\ ~left[k] /\ k # 0
    BY <1>1, <2>2, <2>6, <2>7, MakesIs
  <2>10. Half(h, p, to, port, k, b, 0, 0)'
    <3>1. ASSUME NEW j \in Slot, On(conns'[h][j], p, to, port)
          PROVE  EndOK(conns[h][j], h, p, to, port, k, b, 0, 0)'
      <4>1. j = i
        BY <1>1, <1>3, <2>9, <3>1 DEF On, Unused, Used
      <4>2. EndOK(d, h, p, to, port, k, b, 0, 0)'
        BY <1>6, <2>4, <2>5, <2>7, <2>9 DEF EndOK, SynSentOK
      <4> QED
        BY <2>9, <4>1, <4>2
    <3>2. \A s \in net' : ~Along(s, h, p, to, port)
      BY <1>5, <2>8 DEF Rested, Along
    <3>3. ASSUME NEW f \in Host, NEW j \in Slot, Used(conns'[f][j]), conns'[f][j].id = k
          PROVE  f = h /\ On(conns'[f][j], p, to, port)
      BY <2>4, <2>9, <3>3 DEF On
    <3> QED
      BY <1>3, <1>6, <2>9, <3>1, <3>2, <3>3 DEF Half
  <2>11. Half(to, port, h, p, 0, 0, k, b)'
    <3>1. ASSUME NEW j \in Slot
          PROVE  ~On(conns'[to][j], port, h, p)
      BY <1>1, <2>8, <2>9 DEF On, Rested
    <3>2. \A s \in net' : ~Along(s, to, port, h, p)
      BY <1>5, <2>8 DEF Rested, Along
    <3>3. ASSUME NEW f \in Host, NEW j \in Slot, Used(conns'[f][j])
          PROVE  conns'[f][j].id # 0
      BY <2>7, <2>9, <3>3, ConnsAre
    <3> QED
      BY <3>1, <3>2, <3>3 DEF Half
  <2>12. PairsOK'
    <3>1. /\ 0 \in 0 .. born /\ 0 \in Nat /\ \A s \in net' : s \in net
          /\ Half(h, d.lport, d.rip, d.rport, d.id, b, 0, 0)' /\ Half(d.rip, d.rport, h, d.lport, 0, 0, d.id, b)'
      BY <1>5, <2>3, <2>4, <2>7, <2>10, <2>11
    <3> QED
      BY <1>1, <2>2, <2>6, <2>7, <3>1, MakesPairs
  <2> QED
    BY <1>1, <1>4, <1>5, <1>6, <2>2, <2>6, <2>12, MakesStep
<1> QED
  BY <1>7, <1>8

LEMMA AcceptStep ==
  ASSUME TypeInv, Unique, PairsOK, NEW s \in net, Accept(s)
  PROVE  Step
<1>1. PICK h, p, g, q : h = s.dst /\ p = s.dport /\ g = s.src /\ q = s.sport
  OBVIOUS
<1>2. /\ s \in SegRec /\ h \in Host /\ g \in Host /\ p \in Port /\ q \in Port /\ Apart(q, p)
      /\ s.seq \in Nat /\ s.id \in Number0 /\ s.flags = Syn
  BY <1>1, SegFields DEF TypeInv, Accept, Syn
<1>3. p \in ListenPort /\ q \notin ListenPort /\ Apart(p, q) /\ p # q
  <2>1. PICK t : t = listenports[h] /\ t \in [1 .. UIP_LISTENPORTS -> ListenPort \cup {0}]
    BY <1>2 DEF TypeInv
  <2>2. PICK j \in DOMAIN t : p = t[j]
    BY <1>1, <2>1 DEF Accept
  <2>3. p \in ListenPort \cup {0}
    BY <2>1, <2>2
  <2> QED
    BY <1>2, <2>3 DEF Apart
<1>4. UNCHANGED <<listenports, iss, lastport, read, told, left>>
  BY DEF Accept
<1>5. NetOK(net)
  BY DEF TypeInv, NetOK
<1>6. PICK n, d :
        /\ n \in Rests(s)
        /\ d = [Closed EXCEPT !.st = "SYN_RCVD", !.lport = p, !.rport = q, !.rip = g, !.snd = iss[h],
                              !.len = 1, !.rcv = s.seq + 1, !.id = born + 1, !.peer = s.id]
        /\ \/ /\ born < MaxConn
              /\ born' = born + 1
              /\ \E i \in FreeSlots(h) : conns' = [conns EXCEPT ![h][i] = d]
              /\ from' = [from EXCEPT ![d.id] = d.peer]
              /\ net' = Post(n, {Seg(h, d, SynAck, <<>>)})
           \/ FreeSlots(h) = {} /\ net' = n /\ UNCHANGED <<conns, born, from>>
  BY <1>1 DEF Accept, SynAck
<1>7. NetOK(n) /\ \A z \in n : z \in net
  BY <1>5, <1>6, RestsAre
<1>8. CASE net' = n /\ UNCHANGED <<conns, born, from>>
  BY <1>4, <1>7, <1>8, KeepIs DEF TypeInv
<1>9. CASE /\ born < MaxConn
           /\ born' = born + 1
           /\ \E i \in FreeSlots(h) : conns' = [conns EXCEPT ![h][i] = d]
           /\ from' = [from EXCEPT ![d.id] = d.peer]
           /\ net' = Post(n, {Seg(h, d, SynAck, <<>>)})
  <2>1. PICK i \in FreeSlots(h) : conns' = [conns EXCEPT ![h][i] = d]
    BY <1>9
  <2>2. i \in Slot
    BY <1>2, FreeIs
  <2>3. iss[h] \in Nat /\ born \in Nat /\ born + 1 \in Number0 /\ born + 1 # 0 /\ s.seq + 1 \in Nat
    <3>1. iss[h] \in Nat /\ born \in Nat /\ MaxConn \in Nat
      BY <1>2, ConstFacts DEF TypeInv
    <3> QED
      BY <1>2, <1>9, <3>1 DEF Number0
  <2>4. /\ d \in ConnRec /\ d.st = "SYN_RCVD" /\ d.snd = iss[h] /\ d.len = 1 /\ d.lport = p /\ d.rport = q
        /\ d.rip = g /\ d.id = born + 1 /\ d.peer = s.id /\ d.pos = 0 /\ d.rcv = s.seq + 1
    BY <1>2, <1>6, <2>3, Limits, States, ConstFacts DEF Closed, ConnRec
  <2>5. Used(d) /\ Open(d) /\ ConnOK(h, d)
    BY <1>2, <1>3, <2>3, <2>4, ConstFacts DEF Used, Open, ConnOK
  <2>6. Makes(h, i, d)
    <3>1. from' \in [ConnId -> Number0] /\ \A y \in ConnId : y # d.id => from'[y] = from[y]
      BY <1>2, <1>9, <2>4 DEF TypeInv
    <3> QED
      BY <1>4, <1>9, <2>1, <2>4, <2>5, <3>1 DEF Makes, Same
  <2>7. PICK k, b : k = d.id /\ b = iss[h] + 1 /\ b \in Nat
    BY <2>3
  <2>8. /\ conns'[h][i] = d /\ \A f \in Host, j \in Slot : f # h \/ j # i => conns'[f][j] = conns[f][j]
        /\ \A f \in Host, j \in Slot : conns[f][j].id # k
        /\ read[k] = <<>> /\ told[k] = 0 /\ ~left[k] /\ k # 0 /\ k \in ConnId
        /\ \A y \in 0 .. born : y # k /\ y \in Number0 /\ (y # 0 => Same(y) /\ Grows(y))
    BY <1>2, <2>2, <2>6, <2>7, MakesIs
  <2>9. PICK l \in 0 .. born, x \in 0 .. born, m \in Nat, a \in Nat : Pair(h, p, g, q, l, m, x, a)
    BY <1>2, <1>3 DEF PairsOK
  <2>10. Half(h, p, g, q, l, m, x, a) /\ Half(g, q, h, p, x, a, l, m)
    BY <2>9 DEF Pair
  <2>11. x # 0 /\ s.id = x /\ s.seq + 1 = a
    <3>1. SegOK(s, x, a, l, m)
      BY <1>1, <2>10 DEF Half, Along
    <3> QED
      BY <1>2, <3>1, FlagsDiffer DEF SegOK
  <2>12. l = 0
    <3>1. SUFFICES ASSUME l # 0
                   PROVE  FALSE
      OBVIOUS
    <3>2. l \in ConnId /\ from[l] = x
      BY <1>3, <2>8, <2>10, <3>1, HistoryIs DEF Half
    <3> QED
      BY <2>11, <3>2 DEF Accept, Fresh
  <2>13. read[x] = <<>> /\ Same(x) /\ x # k
    BY <2>8, <2>10, <2>11, <2>12 DEF Half
  <2>14. from'[k] = x
    BY <1>9, <2>4, <2>7, <2>8, <2>11 DEF TypeInv
  <2> DEFINE z == Seg(h, d, SynAck, <<>>)
  <2>15. /\ z \in SegRec /\ Along(z, h, p, g, q) /\ z.flags = SynAck /\ z.data = <<>>
         /\ z.seq = d.snd /\ z.ack = d.rcv /\ z.id = k
    BY <1>2, <2>4, <2>5, <2>7, SendsEmpty, FlagsDiffer DEF SameEnd, Sends, FlagSets
  <2>16. IsFiniteSet({z}) /\ net' = Post(n, {z})
    BY <1>9, SmallSets
  <2> HIDE DEF z
  <2>17. z.sport = p /\ z.dport = q
    BY <2>15 DEF Along
  <2>18. NetOK(net') /\ \A y \in net' : y \in net \/ y = z
    <3>1. \A y \in {z} : y \in SegRec /\ Apart(y.sport, y.dport)
      BY <1>3, <2>15, <2>17
    <3>2. NetOK(Post(n, {z})) /\ \A y \in Post(n, {z}) : y \in net \/ y \in {z}
      BY <1>5, <1>7, <2>16, <3>1, PostIs
    <3> QED
      BY <2>16, <3>2
  <2>19. ASSUME NEW y \in net, Along(y, h, p, g, q)
         PROVE  y.flags = Rst /\ y.data = <<>>
    <3>1. SegOK(y, 0, m, x, a) /\ y \in SegRec
      BY <2>10, <2>12, <2>19 DEF Half, TypeInv
    <3> QED
      BY <3>1, FlagsDiffer DEF SegOK
  <2>20. Half(h, p, g, q, k, b, x, a)'
    <3>1. ASSUME NEW j \in Slot, On(conns'[h][j], p, g, q)
          PROVE  EndOK(conns[h][j], h, p, g, q, k, b, x, a)'
      <4>1. j = i
        BY <1>1, <1>2, <2>8, <3>1 DEF On, Used, Accept, Matching, Matches
      <4>2. SynRcvdOK(d, h, p, g, q, k, b, x, a)'
        <5>1. \A y \in net' : Along(y, h, p, g, q) => y.flags = Rst \/ y.flags = SynAck
          BY <2>15, <2>18, <2>19
        <5>2. read'[k] = <<>> /\ read'[x] = <<>>
          BY <1>4, <2>8, <2>13
        <5> QED
          BY <2>4, <2>7, <2>11, <2>14, <5>1, <5>2 DEF SynRcvdOK
      <4>3. EndOK(d, h, p, g, q, k, b, x, a)'
        BY <1>4, <2>4, <2>5, <2>7, <2>8, <4>2 DEF EndOK
      <4> QED
        BY <2>8, <4>1, <4>3
    <3>2. ASSUME NEW y \in net', Along(y, h, p, g, q)
          PROVE  SegOK(y, k, b, x, a)'
      <4>1. CASE y = z
        <5>1. Len(read'[k]) = 0
          BY <1>4, <2>8, Empty
        <5>2. z.ack = a /\ a <= a + 0
          BY <2>4, <2>11, <2>15
        <5>3. AckOK(z, k, a)'
          BY <5>1, <5>2 DEF AckOK
        <5> QED
          BY <2>4, <2>7, <2>8, <2>11, <2>14, <2>15, <4>1, <5>3, FlagsDiffer DEF SegOK
      <4>2. CASE y \in net
        BY <2>19, <3>2, <4>2, FlagsDiffer DEF SegOK
      <4> QED
        BY <2>18, <4>1, <4>2
    <3>3. ASSUME NEW f \in Host, NEW j \in Slot, Used(conns'[f][j]), conns'[f][j].id = k
          PROVE  f = h /\ On(conns'[f][j], p, g, q)
      BY <2>4, <2>8, <3>3 DEF On
    <3> QED
      BY <2>11, <2>14, <3>1, <3>2, <3>3 DEF Half
  <2>21. Half(g, q, h, p, x, a, k, b)'
    <3>1. ASSUME NEW j \in Slot, On(conns'[g][j], q, h, p)
          PROVE  EndOK(conns[g][j], g, q, h, p, x, a, k, b)'
      <4>1. conns'[g][j] = conns[g][j]
        BY <1>2, <1>3, <2>4, <2>8, <3>1 DEF On
      <4>2. PICK c : c = conns[g][j]
        OBVIOUS
      <4>3. EndOK(c, g, q, h, p, x, a, 0, m)
        BY <2>10, <2>12, <3>1, <4>1, <4>2 DEF Half
      <4>4. c.st # "SYN_RCVD" /\ c.st # "ESTABLISHED"
        BY <4>3 DEF EndOK, SynRcvdOK, FlowOK, Both, Open
      <4>5. c.id = x /\ Open(c) /\ ~left[x] /\ told[x] = c.pos
        BY <4>3 DEF EndOK, Both
      <4>6. c.st = "SYN_SENT" => SynSentOK(c, x, a, k)'
        BY <1>4, <2>8, <2>13, <4>3 DEF EndOK, SynSentOK, Same
      <4>7. EndOK(c, g, q, h, p, x, a, k, b)'
        BY <1>4, <4>4, <4>5, <4>6 DEF EndOK
      <4> QED
        BY <4>1, <4>2, <4>7
    <3>2. ASSUME NEW y \in net', Along(y, g, q, h, p)
          PROVE  SegOK(y, x, a, k, b)'
      <4>1. y \in net
        BY <1>3, <2>17, <2>18, <3>2 DEF Along
      <4>2. SegOK(y, x, a, 0, m) /\ y \in SegRec
        BY <2>10, <2>12, <3>2, <4>1 DEF Half, TypeInv
      <4>3. y.flags \in FlagSets
        BY <4>2, SegFields
      <4>4. y.flags = Rst \/ y.flags = Syn
        BY <4>2, <4>3 DEF SegOK, Both, FlagSets
      <4> QED
        BY <4>2, <4>4, FlagsDiffer DEF SegOK
    <3>3. ASSUME NEW f \in Host, NEW j \in Slot, Used(conns'[f][j]), conns'[f][j].id = x
          PROVE  f = g /\ On(conns'[f][j], q, h, p)
      <4>1. conns'[f][j] = conns[f][j]
        BY <2>7, <2>8, <2>13, <3>3
      <4> QED
        BY <2>10, <3>3, <4>1 DEF Half
    <3>4. x # 0 /\ k # 0 /\ q \notin ListenPort
      BY <1>3, <2>8, <2>11
    <3> QED
      BY <3>1, <3>2, <3>3, <3>4 DEF Half
  <2>22. PairsOK'
    <3>1. /\ \A y \in net' : y \in net \/ Along(y, h, d.lport, d.rip, d.rport)
          /\ Half(h, d.lport, d.rip, d.rport, d.id, b, x, a)' /\ Half(d.rip, d.rport, h, d.lport, x, a, d.id, b)'
      BY <2>4, <2>7, <2>15, <2>18, <2>20, <2>21
    <3> QED
      BY <1>2, <2>2, <2>6, <2>7, <3>1, MakesPairs
  <2>23. lastport' \in [Host -> Port] /\ \A f \in Host, u \in ListenPort : u <= lastport'[f]
    BY <1>4 DEF TypeInv
  <2> QED
    BY <1>2, <1>4, <2>2, <2>6, <2>18, <2>22, <2>23, MakesStep
<1> QED
  BY <1>6, <1>8, <1>9

-----------------------------------------------------------------------------
(* The theorems.                                                             *)

Quiet ==
  \A h \in Client, to \in Host, port \in ListenPort :
    Connect(h, to, port) /\ born' # born => Rested(h, NextPort(h))

LEMMA InitIs ==
  ASSUME PortsApart, Init
  PROVE  UipInv
<1>1. /\ conns = [h \in Host |-> [i \in Slot |-> Closed]]
      /\ listenports = [h \in Host |-> [i \in 1 .. UIP_LISTENPORTS |-> 0]]
      /\ lastport = [h \in Host |-> FirstPort] /\ iss = [h \in Host |-> 0] /\ net = {} /\ born = 0
      /\ from = [c \in ConnId |-> 0] /\ read = [c \in ConnId |-> <<>>]
      /\ told = [c \in ConnId |-> 0] /\ left = [c \in ConnId |-> FALSE]
  BY DEF Init
<1>2. \A h \in Host, i \in Slot : conns[h][i] = Closed
  BY <1>1
<1>3. NetOK({})
  BY FS_EmptySet, ConstFacts DEF NetOK
<1>4. TypeInv
  <2>1. conns \in [Host -> [Slot -> ConnRec]]
    BY <1>1, ClosedIs
  <2>2. \A h \in Host, i \in Slot : ConnOK(h, conns[h][i]) /\ conns[h][i].id <= born
    BY <1>1, <1>2, ClosedIs, ClosedOK
  <2>3. /\ listenports \in [Host -> [1 .. UIP_LISTENPORTS -> ListenPort \cup {0}]]
        /\ iss \in [Host -> Nat]
    BY <1>1
  <2>4. lastport \in [Host -> Port] /\ \A h \in Host, p \in ListenPort : p <= lastport[h]
    BY <1>1, ConstFacts DEF PortsApart, Port
  <2>5. born \in 0 .. MaxConn
    BY <1>1, ConstFacts
  <2>6. /\ from \in [ConnId -> Number0] /\ read \in [ConnId -> Seq(Nat)]
        /\ told \in [ConnId -> Nat] /\ left \in [ConnId -> BOOLEAN]
    BY <1>1, Limits, Empty
  <2> QED
    BY <1>1, <1>3, <2>1, <2>2, <2>3, <2>4, <2>5, <2>6 DEF TypeInv, NetOK
<1>5. Unique
  BY <1>1, <1>2, ClosedIs DEF Unique
<1>6. PairsOK
  <2>1. ASSUME NEW h \in Host, NEW g \in Host, NEW p, NEW q
        PROVE  Half(h, p, g, q, 0, 0, 0, 0)
    BY <1>1, <1>2, ClosedIs DEF Half, On
  <2>2. 0 \in 0 .. born /\ 0 \in Nat
    BY <1>1
  <2> QED
    BY <2>1, <2>2 DEF PairsOK, Pair
<1> QED
  BY <1>4, <1>5, <1>6 DEF UipInv

LEMMA NextIs ==
  ASSUME PortsApart, UipInv, [Next]_vars, [Quiet]_vars
  PROVE  Step
<1>0. TypeInv /\ Unique /\ PairsOK
  BY DEF UipInv
<1>1. ASSUME NEW h \in Client, NEW to \in Host, NEW port \in ListenPort, h # to, Connect(h, to, port)
      PROVE  Step
  <2>1. born' # born => Rested(h, NextPort(h))
    BY <1>1 DEF Quiet, vars
  <2> QED
    BY <1>0, <1>1, <2>1, ConnectStep
<1>2. ASSUME NEW h \in Server, NEW port \in ListenPort, Listen(h, port) \/ Unlisten(h, port)
      PROVE  Step
  BY <1>0, <1>2, PortStep, ConstFacts
<1>3. ASSUME NEW h \in Host, NEW i \in Slot, NEW down \in BOOLEAN, Timer(h, i, down)
      PROVE  Step
  BY <1>0, <1>3, TimerStep
<1>4. ASSUME NEW s \in net, Input(s) \/ Accept(s) \/ Refuse(s) \/ Lose(s)
      PROVE  Step
  BY <1>0, <1>4, InputStep, AcceptStep, RefuseStep, LoseStep
<1>5. CASE UNCHANGED vars
  <2>1. NetOK(net')
    BY <1>0, <1>5 DEF vars, TypeInv, NetOK
  <2> QED
    BY <1>0, <1>5, <2>1, KeepIs DEF vars, TypeInv
<1> QED
  BY <1>1, <1>2, <1>3, <1>4, <1>5 DEF Next

LEMMA Always ==
  ASSUME PortsApart
  PROVE  Spec /\ PortsRest => []UipInv
<1>1. Init => UipInv
  BY InitIs
<1>2. UipInv /\ [Next]_vars /\ [Quiet]_vars => UipInv'
  BY NextIs DEF UipInv, Step, Advances
<1> QED
  BY <1>1, <1>2, PTL DEF Spec, PortsRest, Quiet

\* Two ends that are connected with each other are a pair.
LEMMA InvSync ==
  ASSUME UipInv
  PROVE  SeqSync
<1>1. TypeInv /\ Unique /\ PairsOK
  BY DEF UipInv
<1>2. TypeOK
  <2>1. conns \in [Host -> [Slot ->
           [st : State, stopped : BOOLEAN, lport : 0 .. EndPort, rport : 0 .. EndPort,
            rip : Host \cup {NoHost}, snd : Nat, rcv : Nat, len : 0 .. UIP_TCP_MSS,
            nrtx : 0 .. UIP_MAXRTX, id : 0 .. MaxConn, peer : 0 .. MaxConn, pos : Nat]]]
    BY <1>1 DEF TypeInv, ConnRec, Port, Number0
  <2>2. \A h \in Host, i \in Slot : conns[h][i].pos <= Goal[h]
    BY <1>1 DEF TypeInv, ConnOK
  <2> QED
    BY <1>1, <2>1, <2>2 DEF TypeOK, TypeInv
<1>3. ASSUME NEW c \in InUse, NEW d \in InUse, c.st = "ESTABLISHED", d.st = "ESTABLISHED",
             c.peer = d.id, d.peer = c.id
      PROVE  d.rcv \in {c.snd, c.snd + c.len}
  <2>1. PICK h \in Host, i \in Slot : c = conns[h][i] /\ Used(c)
    BY DEF InUse, Conns, Used
  <2>2. PICK e \in Host, j \in Slot : d = conns[e][j] /\ Used(d)
    BY DEF InUse, Conns, Used
  <2>3. /\ c \in ConnRec /\ c.rip \in Host /\ c.lport \in Port /\ c.rport \in Port /\ Apart(c.lport, c.rport)
        /\ c.snd \in Nat /\ c.len \in Nat /\ c.pos \in Nat /\ d \in ConnRec
    BY <1>1, <2>1, <2>2, ConnsAre, ConnFields
  <2>4. PICK k \in 0 .. born, x \in 0 .. born, b \in Nat, a \in Nat : Pair(h, c.lport, c.rip, c.rport, k, b, x, a)
    BY <1>1, <2>1, <2>3 DEF PairsOK
  <2>5. EndOK(c, h, c.lport, c.rip, c.rport, k, b, x, a)
    BY <1>1, <2>1, <2>4, PairIs
  <2>6. FlowOK(c, h, c.lport, c.rip, c.rport, k, b, x, a) /\ c.id = k
    BY <1>3, <2>5 DEF EndOK
  <2>7. d.id = x
    BY <1>3, <2>6 DEF FlowOK
  <2>8. Half(c.rip, c.rport, h, c.lport, x, a, k, b)
    BY <2>4 DEF Pair
  <2>9. e = c.rip /\ On(d, c.rport, h, c.lport)
    BY <2>2, <2>7, <2>8 DEF Half
  <2>10. EndOK(d, c.rip, c.rport, h, c.lport, x, a, k, b)
    BY <2>2, <2>8, <2>9 DEF Half
  <2>11. d.rcv = b + Len(read[x]) /\ ~left[x]
    BY <1>3, <2>10 DEF EndOK, FlowOK, Open
  <2>12. Synced(c, h, c.lport, c.rip, c.rport, b, x)
    BY <2>6, <2>11 DEF FlowOK
  <2>13. PICK n : n = Len(read[x])
    OBVIOUS
  <2>14. d.rcv = b + n /\ c.snd = b + c.pos /\ (n = c.pos \/ n = c.pos + c.len)
    BY <2>11, <2>12, <2>13 DEF Synced
  <2> QED
    BY <2>3, <2>14
<1> QED
  BY <1>2, <1>3 DEF SeqSync

(* Of two ends that are connected with each other, each waits for what the   *)
(* other sends next, or has got it already: uip_process compares the number  *)
(* of a segment and of an acknowledgement with what it waits for.            *)
THEOREM SeqSyncHolds ==
  ASSUME PortsApart
  PROVE  Spec /\ PortsRest => []SeqSync
<1>1. UipInv => SeqSync
  BY InvSync
<1>2. Spec /\ PortsRest => []UipInv
  BY Always
<1> QED
  BY <1>1, <1>2, PTL

(* The stack implements the stream: the other end reads the bytes in order,  *)
(* each once, and one is acknowledged only when it has been read.            *)
THEOREM StreamImplemented ==
  ASSUME PortsApart
  PROVE  Spec /\ PortsRest => ImplementsStream
<1>1. Init => S!Init
  BY DEF Init, S!Init
<1>2. UipInv /\ [Next]_vars /\ [Quiet]_vars => [S!Next]_S!sVars
  BY NextIs DEF Step, Advances, StreamOK, S!Next
<1>3. Spec /\ PortsRest => []UipInv
  BY Always
<1> QED
  BY <1>1, <1>2, <1>3, PTL DEF Spec, PortsRest, Quiet, ImplementsStream, S!Spec
=============================================================================
