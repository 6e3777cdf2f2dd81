------------------------------ MODULE Checksum ------------------------------
(***************************************************************************)
(* The checksums of the network stack (arch/unix/uip_arch.c) and how        *)
(* contrib/dev/uip/uip.c uses them: a segment or the header of a datagram   *)
(* is sent, perhaps damaged on its way, and checked by a receiver; an echo  *)
(* request is answered in place.  A byte has B bits, 8 in the code.  Words are read from memory as *)
(* on the little-endian processors the system runs on.                      *)
(***************************************************************************)
EXTENDS Integers, Sequences

CONSTANTS B,            \* bits of a byte
          Proto,        \* IP_PROTO_TCP
          Echo,         \* ICMP_ECHO
          MaxData,      \* bound: bytes of data in a packet
          Addresses,    \* bound: words that occur in an address
          NoPacket
ASSUME BAssumption == B \in Nat /\ B > 1 /\ {Proto, Echo} \subseteq 1..(2 ^ B - 1)

HB    == 2 ^ B
Octet == 0..HB - 1
HW    == HB * HB
Ones  == HW - 1                       \* 0xffff
Complement(n) == Ones - n                    \* ~n

VARIABLES
  kind,    \* "tcp", "ip", "icmp", "add32" or NoPacket
  head,    \* the header without its checksum, two bytes; or uip_acc32
  data,    \* bytes of data; or op32
  src, dst,\* the addresses, as words
  sum,     \* the checksum field of the packet
  verdict, \* what the receiver says
  at       \* "sender", "net", "receiver"

check == <<kind, head, data, src, dst, sum, verdict, at>>

-----------------------------------------------------------------------------
\* HTONS on a processor that is not UIP_BIG_ENDIAN.
Htons(n) == (n % HB) * HB + n \div HB
At(s, i) == s[i] + HB * s[i + 1]

\* acc += n; if (acc < n) ++acc;
Plus(acc, n) ==
  LET t == (acc + n) % HW IN IF t < n THEN (t + 1) % HW ELSE t

Fold(s) ==
  LET f[i \in 0..Len(s) \div 2] == IF i = 0 THEN 0 ELSE Plus(f[i - 1], At(s, 2 * i - 1))
  IN f[Len(s) \div 2]

\* fault: the odd byte is added as the low half of a word in network order.
ChksumOddByte(s) ==
  IF Len(s) % 2 = 0 THEN Fold(s) ELSE Plus(Fold(s), Htons(s[Len(s)]))

Chksum(s) ==
  IF Len(s) % 2 = 0 THEN Fold(s) ELSE Plus(Fold(s), Htons(s[Len(s)] * HB))

\* The checksum field is a word of the header; the length is Htons'ed after
\* the IP header has been taken off.
Tcpchksum(field) ==
  LET hsum == Plus(Chksum(head), field)
      segment == Len(head) + 2 + Len(data)
      s1 == Plus(Chksum(data), hsum)
      s2 == Plus(Plus(s1, src), dst)
  IN Plus(Plus(s2, Htons(Proto)), Htons(segment))

\* uip_ipchksum, over the header with its checksum.
Ipchksum(field) == Plus(Chksum(head), field)

\* External: the sum of an ICMP message, by its sender; uIP never checks one.
IcmpSum == Plus(Chksum(head), Chksum(data))

-----------------------------------------------------------------------------
Sent(k, total) ==
  /\ kind = k /\ at = "sender"
  /\ sum' = Complement(total) /\ at' = "net"
  /\ UNCHANGED <<kind, head, data, src, dst, verdict>>
Send       == Sent("tcp", Tcpchksum(0))
SendHeader == Sent("ip", Ipchksum(0))

\* External: a byte is changed on the way.
Damage ==
  /\ at = "net"
  /\ \/ \E i \in DOMAIN data, o \in Octet : data' = [data EXCEPT ![i] = o] /\ head' = head
     \/ \E i \in DOMAIN head, o \in Octet : head' = [head EXCEPT ![i] = o] /\ data' = data
  /\ at' = "damaged"
  /\ UNCHANGED <<kind, src, dst, sum, verdict>>

Received(k, total) ==
  /\ kind = k /\ at \in {"net", "damaged"}
  /\ verdict' = IF total = Ones THEN "accept" ELSE "drop"
  /\ at' = "receiver"
  /\ UNCHANGED <<kind, head, data, src, dst, sum>>
Receive       == Received("tcp", Tcpchksum(sum))
ReceiveHeader == Received("ip", Ipchksum(sum))

\* The request comes from a correct sender; the answer changes the type, the
\* first byte, and the checksum, not the rest.
EchoReply ==
  /\ kind = "icmp" /\ at = "sender"
  /\ head' = [head EXCEPT ![1] = 0]
  /\ sum' = (sum + Htons(Echo * HB) + (IF sum >= Htons(Ones - Echo * HB) THEN 1 ELSE 0)) % HW
  /\ at' = "receiver"
  /\ UNCHANGED <<kind, data, src, dst, verdict>>

-----------------------------------------------------------------------------
(* uip_acc32 = op32 + op16, byte by byte, the highest first.                *)

Add32 ==
  LET low(n)  == n % HB
      a3 == low(data[4] + low(src))
      a2 == low(data[3] + src \div HB)
      c2 == a2 < src \div HB                        \* into the second byte
      c3 == a3 < low(src)                           \* into the third one
      b2 == IF c3 THEN low(a2 + 1) ELSE a2
      n1 == (IF c2 THEN 1 ELSE 0) + (IF c3 /\ b2 = 0 THEN 1 ELSE 0)
      b1 == low(data[2] + n1)
  IN /\ kind = "add32" /\ at = "sender"
     /\ head' = <<IF n1 > 0 /\ b1 = 0 THEN low(data[1] + 1) ELSE data[1], b1, b2, a3>>
     /\ at' = "receiver"
     /\ UNCHANGED <<kind, data, src, dst, sum, verdict>>

-----------------------------------------------------------------------------
Bytes(n) == [1..n -> Octet]
SumStart == verdict = "none" /\ at = "sender"
SumInit ==
  /\ SumStart
  /\ \/ /\ kind = "tcp" /\ sum = 0 /\ src \in Addresses /\ dst \in Addresses
        /\ head \in Bytes(2) /\ \E n \in 0..MaxData : data \in Bytes(n)
     \/ /\ kind = "ip" /\ sum = 0 /\ src = 0 /\ dst = 0 /\ head \in Bytes(4) /\ data = <<>>
     \/ /\ kind = "icmp" /\ src = 0 /\ dst = 0
        /\ head \in {<<Echo, 0>>} /\ \E n \in 0..MaxData : data \in Bytes(n)
        /\ sum \in {Complement(IcmpSum)} \cup (IF IcmpSum = Ones THEN {Ones} ELSE {})
     \/ /\ kind = "add32" /\ sum = 0 /\ src \in 0..HW - 1 /\ dst = 0
        /\ head = <<0, 0, 0, 0>> /\ data \in Bytes(4)
SumIdle ==
  /\ kind = NoPacket /\ head = <<>> /\ data = <<>> /\ src = 0 /\ dst = 0 /\ sum = 0
  /\ verdict = "none" /\ at = "receiver"
SumNext == Send \/ SendHeader \/ Damage \/ Receive \/ ReceiveHeader \/ EchoReply \/ Add32
=============================================================================
