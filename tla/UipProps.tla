------------------------------ MODULE UipProps ------------------------------
(***************************************************************************)
(* What the connections of Uip.tla guarantee.                               *)
(***************************************************************************)
EXTENDS Uip

Conns == UNION {{conns[h][i] : i \in Slot} : h \in Host}
InUse == {c \in Conns : c.st # "CLOSED"}

TypeOK ==
    /\ conns \in [Host -> [Slot ->
           [st : State, stopped : BOOLEAN, lport : 0 .. EndPort, rport : 0 .. EndPort,
            rip : Host \cup {NoHost}, snd : Nat, rcv : Nat, len : 0 .. UIP_TCP_MSS,
            nrtx : 0 .. UIP_MAXRTX, id : 0 .. MaxConn, peer : 0 .. MaxConn, pos : Nat]]]
    /\ \A h \in Host, i \in Slot : conns[h][i].pos <= Goal[h]
    /\ Cardinality(net) <= MaxNet
    /\ born \in 0 .. MaxConn

(* Every variable has its type.  Of two ends that are connected with each   *)
(* other, each waits for what the other sends next, or has got it already.  *)
SeqSync ==
    /\ TypeOK
    /\ \A c, d \in InUse :
         c.st = "ESTABLISHED" /\ d.st = "ESTABLISHED" /\ c.peer = d.id /\ d.peer = c.id
         => d.rcv \in {c.snd, c.snd + c.len}

S == INSTANCE ByteStream WITH Conn <- ConnId

(* The application of the other end reads the bytes of a stream in order,   *)
(* each once, and a byte is acknowledged only when it has been read.        *)
ImplementsStream == S!Spec

Waits(c) == c.st \notin {"CLOSED", "ESTABLISHED"} \/ Sent(c)

(* Whatever waits for the other end - to open, to close, or for data to    *)
(* arrive - comes to an end, because retransmissions are counted.          *)
Settles == \A h \in Host, i \in Slot : Waits(conns[h][i]) ~> ~Waits(conns[h][i])
=============================================================================
