-------------------------------- MODULE Uip --------------------------------
(***************************************************************************)
(* TCP of the uIP stack, src/contrib/dev/uip/uip.c: hosts which all run    *)
(* uIP, and a network that loses, repeats and reorders segments.  Every    *)
(* action is one call from outside the stack: uip_connect(), uip_listen(), *)
(* uip_unlisten(), uip_periodic() and uip_input().  uip_process() runs to  *)
(* its end in one of them; the application it calls chooses among what     *)
(* uip.h offers and repeats its data when asked to (uip.h:574-584).        *)
(*                                                                         *)
(* Abstracted: a timer to whether it has run down; the maximum segment     *)
(* size to one constant, which it is between two hosts that run uIP;       *)
(* urgent data; a damaged packet to a lost one; a field that the receiver  *)
(* does not look at to 0, and so the left overs in a closed connection.    *)
(***************************************************************************)
EXTENDS Naturals, Sequences, FiniteSets

CONSTANTS Host,         \* the hosts, which are their own addresses
          NoHost,       \* the address of nobody
          Client, Server, \* the hosts with applications that connect, and listen
          UIP_CONNS,    \* connections of a host
          UIP_LISTENPORTS, \* ports a host can listen on
          ListenPort,   \* ports that are listened on
          FirstPort,    \* the last local port when the model starts
          LowPort, EndPort, \* 4096 and 32000 in uip_connect
          UIP_MAXRTX, UIP_MAXSYNRTX, UIP_TCP_MSS,
          Goal,         \* bytes an application has to send, by host
          MaxIss,       \* bound: iss stays at this value
          MaxConn,      \* bound: connections ever made
          MaxNet        \* bound: segments in the network

ASSUME UipAssumption ==
    /\ {UIP_CONNS, UIP_LISTENPORTS, UIP_TCP_MSS, MaxConn, MaxNet} \subseteq Nat \ {0}
    /\ {UIP_MAXRTX, UIP_MAXSYNRTX, MaxIss, FirstPort, LowPort, EndPort} \subseteq Nat
    /\ ListenPort \subseteq Nat \ {0}
    /\ FirstPort < EndPort /\ LowPort + UIP_CONNS < EndPort
    /\ Goal \in [Host -> Nat] /\ NoHost \notin Host /\ Client \cup Server \subseteq Host

VARIABLES conns,       \* uip_conns of each host
          listenports, \* uip_listenports of each host
          iss,         \* the next initial sequence number of each host
          lastport,    \* the last local port given out by uip_connect
          net,         \* the segments under way
          born,        \* the number of connections made so far
          from, read, told, left \* history: see ByteStream

vars == <<conns, listenports, iss, lastport, net, born, from, read, told, left>>

Slot == 1 .. UIP_CONNS
ConnId == 1 .. MaxConn
State == {"CLOSED", "SYN_RCVD", "SYN_SENT", "ESTABLISHED", "FIN_WAIT_1",
          "FIN_WAIT_2", "CLOSING", "TIME_WAIT", "LAST_ACK"}

Least(S) == CHOOSE x \in S : \A y \in S : x <= y

(***************************************************************************)
(* struct uip_conn.  stopped is the flag UIP_STOPPED, which is in the same *)
(* byte as the state, so that a change of the state clears it.  id, peer   *)
(* and pos belong to the application: the connection, the connection at    *)
(* the other end, and how much of its data has arrived there.              *)
(***************************************************************************)
Closed == [st |-> "CLOSED", stopped |-> FALSE, lport |-> 0, rport |-> 0, rip |-> NoHost,
           snd |-> 0, rcv |-> 0, len |-> 0, nrtx |-> 0, id |-> 0, peer |-> 0, pos |-> 0]

To(c, st) == [c EXCEPT !.st = st, !.stopped = FALSE]

(***************************************************************************)
(* A segment.  Bytes of data name their stream and their place in it.      *)
(* tcp_send fills in a segment of connection c of host h.                  *)
(***************************************************************************)
Seg(h, c, flags, data) ==
    [src |-> h, dst |-> c.rip, sport |-> c.lport, dport |-> c.rport, flags |-> flags,
     seq |-> IF "RST" \in flags THEN 0 ELSE c.snd,
     ack |-> IF "RST" \in flags \/ "ACK" \notin flags THEN 0 ELSE c.rcv,
     id |-> IF "SYN" \in flags THEN c.id ELSE 0, data |-> data]

\* Answer a segment that no connection wants, but never another reset.
Reset(s) == IF "RST" \in s.flags THEN {}
            ELSE {[src |-> s.dst, dst |-> s.src, sport |-> s.dport, dport |-> s.sport,
                   flags |-> {"RST", "ACK"}, seq |-> 0, ack |-> 0, id |-> 0, data |-> <<>>]}

\* The network loses what it cannot hold.
Post(n, out) == IF Cardinality(n \cup out) <= MaxNet THEN n \cup out ELSE n

(***************************************************************************)
(* The application.  It offers all the data that has not arrived yet.      *)
(***************************************************************************)
Rest(h, c) == [i \in 1 .. Goal[h] - c.pos |-> [of |-> c.id, n |-> c.pos + i]]

\* What it may do in a call after which uip_process looks at uip_flags.  It
\* closes only when all its data has arrived, and restarts only what stopped.
Choice == {"send", "close", "abort", "stop", "restart"}
Restarts(c, choice) == c.stopped /\ choice = "restart"

(***************************************************************************)
(* The result of a call of uip_process: the connection, what it sends, and *)
(* the data that the application was given.                                *)
(***************************************************************************)
Res(c, out) == [c |-> c, out |-> out, got |-> <<>>]
Reading(data, r) == [r EXCEPT !.got = data]

\* apprexmit: data, or a bare acknowledgement of new data.
AppRexmit(h, c, slen, new) ==
    Res(c, IF slen > 0 /\ c.len > 0
           THEN {Seg(h, c, {"ACK"}, SubSeq(Rest(h, c), 1, c.len))}
           ELSE IF new THEN {Seg(h, c, {"ACK"}, <<>>)} ELSE {})

\* appsend: len is what is under way; it stays when the application offers
\* data that is under way already.
AppLen(c, slen, ackdata) ==
    IF slen = 0 THEN 0
    ELSE IF ackdata \/ c.len = 0 THEN IF slen > UIP_TCP_MSS THEN UIP_TCP_MSS ELSE slen
    ELSE c.len

AppSend(h, c, ackdata, new, choice) ==
    IF choice = "abort" THEN Res(Closed, {Seg(h, c, {"RST", "ACK"}, <<>>)})
    ELSE IF choice = "close" /\ Rest(h, c) = <<>>
    THEN LET d == [To(c, "FIN_WAIT_1") EXCEPT !.len = 1, !.nrtx = 0]
         IN  Res(d, {Seg(h, d, {"FIN", "ACK"}, <<>>)})
    ELSE LET slen == Len(Rest(h, c))
             d == [c EXCEPT !.len = AppLen(c, slen, ackdata), !.nrtx = 0,
                            !.stopped = choice = "stop" \/ (@ /\ choice # "restart")]
         IN  AppRexmit(h, d, slen, new \/ Restarts(c, choice))

\* The application is called, and may do any of these.
AppCall(h, c, ackdata, new, data) ==
    {Reading(data, AppSend(h, c, ackdata, new, choice)) : choice \in Choice}

(***************************************************************************)
(* uip_init, uip_listen, uip_unlisten                                      *)
(***************************************************************************)
Init == /\ conns = [h \in Host |-> [i \in Slot |-> Closed]]
        /\ listenports = [h \in Host |-> [i \in 1 .. UIP_LISTENPORTS |-> 0]]
        /\ lastport = [h \in Host |-> FirstPort]
        /\ iss = [h \in Host |-> 0]
        /\ net = {} /\ born = 0
        /\ from = [c \in ConnId |-> 0]
        /\ read = [c \in ConnId |-> <<>>]
        /\ told = [c \in ConnId |-> 0]
        /\ left = [c \in ConnId |-> FALSE]

SetPort(h, old, new) ==
    /\ \E i \in DOMAIN listenports[h] : listenports[h][i] = old
    /\ listenports' = [listenports EXCEPT
           ![h][Least({i \in DOMAIN listenports[h] : listenports[h][i] = old})] = new]
    /\ UNCHANGED <<conns, iss, lastport, net, born, from, read, told, left>>

Listen(h, port) == SetPort(h, 0, port)
Unlisten(h, port) == SetPort(h, port, 0)

(***************************************************************************)
(* A new connection takes the first that is closed, or else one that is in *)
(* TIME_WAIT.                                                              *)
(***************************************************************************)
FreeSlots(h) ==
    LET free == {i \in Slot : conns[h][i].st = "CLOSED"}
    IN  IF free # {} THEN {Least(free)} ELSE {i \in Slot : conns[h][i].st = "TIME_WAIT"}

\* The ports are tried in order, and after the last one from LowPort.
Unused(h, p) == \A i \in Slot : conns[h][i].st # "CLOSED" => conns[h][i].lport # p
NextPort(h) == LET up == {p \in lastport[h] + 1 .. EndPort - 1 : Unused(h, p)}
               IN  IF up # {} THEN Least(up) ELSE Least({p \in LowPort .. EndPort - 1 : Unused(h, p)})

\* uip_connect
Connect(h, to, rport) ==
    /\ lastport' = [lastport EXCEPT ![h] = NextPort(h)]
    /\ \/ /\ born < MaxConn
          /\ born' = born + 1
          /\ \E i \in FreeSlots(h) :
               conns' = [conns EXCEPT ![h][i] =
                   [Closed EXCEPT !.st = "SYN_SENT", !.snd = iss[h], !.len = 1, !.lport = NextPort(h),
                                  !.rport = rport, !.rip = to, !.id = born + 1]]
       \/ FreeSlots(h) = {} /\ NextPort(h) > lastport[h] /\ UNCHANGED <<conns, born>>
    /\ UNCHANGED <<listenports, iss, net, from, read, told, left>>

(***************************************************************************)
(* Connection i of host h changes as r says.  The history: whose stream it *)
(* reads, what it has read of it, what it knows of its own, and whether    *)
(* its application has closed it.                                          *)
(***************************************************************************)
Open(c) == c.st \in {"SYN_RCVD", "SYN_SENT", "ESTABLISHED"}
Number(c, byte) == IF byte.of = c.peer THEN byte.n ELSE 0

Apply(h, i, r, n) ==
    LET c == conns[h][i]
    IN  /\ conns' = [conns EXCEPT ![h][i] = r.c]
        /\ net' = Post(n, r.out)
        /\ from' = IF r.c.st # "CLOSED" THEN [from EXCEPT ![c.id] = r.c.peer] ELSE from
        /\ read' = IF r.got # <<>>
                   THEN [read EXCEPT ![c.id] = @ \o [k \in DOMAIN r.got |-> Number(c, r.got[k])]] ELSE read
        /\ told' = IF Open(r.c) THEN [told EXCEPT ![c.id] = r.c.pos] ELSE told
        /\ left' = IF c.st # "CLOSED" /\ ~Open(r.c) THEN [left EXCEPT ![c.id] = TRUE] ELSE left

(***************************************************************************)
(* uip_periodic: uip_process(UIP_TIMER).  down: the timer has run down.    *)
(***************************************************************************)
Sent(c) == c.len > 0  \* uip_outstanding

GivesUp(c) == c.nrtx = UIP_MAXRTX \/ (c.st \in {"SYN_SENT", "SYN_RCVD"} /\ c.nrtx = UIP_MAXSYNRTX)

\* fault: the retransmissions were not counted.
RetransmitUncounted(h, c) ==
    CASE c.st = "SYN_RCVD" -> Res(c, {Seg(h, c, {"SYN", "ACK"}, <<>>)})
      [] c.st = "SYN_SENT" -> Res(c, {Seg(h, c, {"SYN"}, <<>>)})
      [] c.st = "ESTABLISHED" -> AppRexmit(h, c, Len(Rest(h, c)), FALSE)
      [] OTHER -> Res(c, {Seg(h, c, {"FIN", "ACK"}, <<>>)})

Retransmit(h, c) ==
    LET d == [c EXCEPT !.nrtx = @ + 1]
    IN  CASE c.st = "SYN_RCVD" -> Res(d, {Seg(h, d, {"SYN", "ACK"}, <<>>)})
          [] c.st = "SYN_SENT" -> Res(d, {Seg(h, d, {"SYN"}, <<>>)})
          [] c.st = "ESTABLISHED" -> AppRexmit(h, d, Len(Rest(h, d)), FALSE)
          [] OTHER -> Res(d, {Seg(h, d, {"FIN", "ACK"}, <<>>)})

Ticked(h, c, down) ==
    CASE c.st \in {"TIME_WAIT", "FIN_WAIT_2"} -> {Res(IF down THEN Closed ELSE c, {})}
      [] c.st \notin {"TIME_WAIT", "FIN_WAIT_2"} /\ Sent(c) ->
           {IF ~down THEN Res(c, {})
            ELSE IF GivesUp(c) THEN Res(Closed, {Seg(h, c, {"RST", "ACK"}, <<>>)})
            ELSE Retransmit(h, c)}
      [] c.st = "ESTABLISHED" /\ ~Sent(c) -> AppCall(h, c, FALSE, FALSE, <<>>)
      [] OTHER -> {Res(c, {})}

NextIss(h) == [iss EXCEPT ![h] = IF @ < MaxIss /\ born < MaxConn THEN @ + 1 ELSE @]

Timer(h, i, down) ==
    /\ iss' = NextIss(h)
    /\ \E r \in Ticked(h, conns[h][i], down) : Apply(h, i, r, net)
    /\ UNCHANGED <<listenports, lastport, born>>

\* fault: any acknowledgement counted.
AckDataAny(c, s) == "ACK" \in s.flags /\ Sent(c)

(***************************************************************************)
(* uip_input: uip_process(UIP_DATA) with segment s.  Its acknowledgement   *)
(* counts only when it is for all that is under way.  The connection moves *)
(* on then, but len stays until the code for its state sees to it.         *)
(***************************************************************************)
AckData(c, s) == "ACK" \in s.flags /\ Sent(c) /\ s.ack = c.snd + c.len

Acknowledged(c, s) == IF AckData(c, s) THEN [c EXCEPT !.snd = @ + c.len] ELSE c

Ack(h, c) == {Seg(h, c, {"ACK"}, <<>>)}

\* fault: only what is far away were out of order.
OutOfOrderIgnored(c, s) == s.data # <<>> /\ s.seq > c.rcv + UIP_TCP_MSS

\* Data is read where it is the next, else the sender hears what is.
OutOfOrder(c, s) == s.data # <<>> /\ s.seq # c.rcv

InSynRcvd(h, c, s, ackdata) ==
    LET d == [To(c, "ESTABLISHED") EXCEPT !.len = 0, !.rcv = @ + Len(s.data)]
    IN  IF ackdata THEN AppCall(h, d, FALSE, s.data # <<>>, s.data) ELSE {Res(c, {})}

InSynSent(h, c, s, ackdata) ==
    LET d == [To(c, "ESTABLISHED") EXCEPT !.len = 0, !.rcv = s.seq + 1, !.peer = s.id]
    IN  IF ackdata /\ s.flags = {"SYN", "ACK"} THEN AppCall(h, d, FALSE, TRUE, <<>>)
        ELSE {Res(c, Reset(s))}

InEstablished(h, c, s, ackdata) ==
    LET fin == [To(c, "LAST_ACK") EXCEPT !.rcv = @ + 1 + Len(s.data), !.len = 1, !.nrtx = 0]
        new == s.data # <<>> /\ ~c.stopped
        d == [c EXCEPT !.rcv = IF new THEN @ + Len(s.data) ELSE @,
                       !.pos = IF ackdata THEN @ + c.len ELSE @]
    IN  IF "FIN" \in s.flags
        THEN {IF Sent(c) THEN Res(c, {}) ELSE Reading(s.data, Res(fin, {Seg(h, fin, {"FIN", "ACK"}, <<>>)}))}
        ELSE IF new \/ ackdata THEN AppCall(h, d, ackdata, new, IF new THEN s.data ELSE <<>>)
        ELSE {Res(c, {})}

InLastAck(c, ackdata) == {Res(IF ackdata THEN Closed ELSE c, {})}

\* The application has left: data is acknowledged, and lost.
InFinWait1(h, c, s, ackdata) ==
    LET d == [c EXCEPT !.rcv = @ + Len(s.data)]
        fin == [To(d, IF ackdata THEN "TIME_WAIT" ELSE "CLOSING") EXCEPT
                   !.rcv = @ + 1, !.len = IF ackdata THEN 0 ELSE @]
    IN  {IF "FIN" \in s.flags THEN Res(fin, Ack(h, fin))
         ELSE IF ackdata THEN Res([To(d, "FIN_WAIT_2") EXCEPT !.len = 0], {})
         ELSE Res(d, IF s.data # <<>> THEN Ack(h, d) ELSE {})}

InFinWait2(h, c, s) ==
    LET d == [c EXCEPT !.rcv = @ + Len(s.data)]
        fin == [To(d, "TIME_WAIT") EXCEPT !.rcv = @ + 1]
    IN  {IF "FIN" \in s.flags THEN Res(fin, Ack(h, fin))
         ELSE Res(d, IF s.data # <<>> THEN Ack(h, d) ELSE {})}

InTimeWait(h, c) == {Res(c, Ack(h, c))}

InClosing(c, ackdata) == {Res(IF ackdata THEN To(c, "TIME_WAIT") ELSE c, {})}

\* What follows for the state of the connection, after the acknowledgement.
InState(h, c, s, ackdata) ==
    CASE c.st = "SYN_RCVD" -> InSynRcvd(h, c, s, ackdata)
      [] c.st = "SYN_SENT" -> InSynSent(h, c, s, ackdata)
      [] c.st = "ESTABLISHED" -> InEstablished(h, c, s, ackdata)
      [] c.st = "LAST_ACK" -> InLastAck(c, ackdata)
      [] c.st = "FIN_WAIT_1" -> InFinWait1(h, c, s, ackdata)
      [] c.st = "FIN_WAIT_2" -> InFinWait2(h, c, s)
      [] c.st = "TIME_WAIT" -> InTimeWait(h, c)
      [] OTHER -> InClosing(c, ackdata)

Handled(h, c, s) ==
    IF "RST" \in s.flags THEN {Res(Closed, {})}
    ELSE IF OutOfOrder(c, s) THEN {Res(c, Ack(h, c))}
    ELSE InState(h, Acknowledged(c, s), s, AckData(c, s))

\* Segments are for the first connection that fits, of those in use.
Matches(c, s) == c.st # "CLOSED" /\ s.dport = c.lport /\ s.sport = c.rport /\ s.src = c.rip
Matching(s) == {i \in Slot : Matches(conns[s.dst][i], s)}

\* A segment may be delivered once more.
Rests(s) == {net, net \ {s}}

Input(s) ==
    /\ Matching(s) # {}
    /\ \E n \in Rests(s) :
         LET h == s.dst
             i == Least(Matching(s))
         IN  \E r \in Handled(h, conns[h][i], s) : Apply(h, i, r, n)
    /\ UNCHANGED <<listenports, iss, lastport, born>>

\* Bound on the network: a SYN does not outlive the connection it has opened.
\* uip_process has nothing to tell the two apart; iss counts calls of the
\* timer, so that the next connection may even start at the same number.
Fresh(s) == \A c \in ConnId : from[c] # s.id

\* found_listen: a new connection, answered with a SYNACK.
Accept(s) ==
    LET h == s.dst
        c == [Closed EXCEPT !.st = "SYN_RCVD", !.lport = s.dport, !.rport = s.sport, !.rip = s.src,
                 !.snd = iss[h], !.len = 1, !.rcv = s.seq + 1, !.id = born + 1, !.peer = s.id]
    IN  /\ Matching(s) = {} /\ s.flags = {"SYN"} /\ Fresh(s)
        /\ s.dport \in {listenports[h][k] : k \in DOMAIN listenports[h]}
        /\ \E n \in Rests(s) :
             \/ /\ born < MaxConn
                /\ born' = born + 1
                /\ \E i \in FreeSlots(h) : conns' = [conns EXCEPT ![h][i] = c]
                /\ from' = [from EXCEPT ![c.id] = c.peer]
                /\ net' = Post(n, {Seg(h, c, {"SYN", "ACK"}, <<>>)})
             \/ FreeSlots(h) = {} /\ net' = n /\ UNCHANGED <<conns, born, from>>
        /\ UNCHANGED <<listenports, iss, lastport, read, told, left>>

\* A segment for nobody is reset.
Refuse(s) ==
    /\ Matching(s) = {}
    /\ s.flags # {"SYN"} \/ s.dport \notin {listenports[s.dst][k] : k \in DOMAIN listenports[s.dst]}
    /\ \E n \in Rests(s) : net' = Post(n, Reset(s))
    /\ UNCHANGED <<conns, listenports, iss, lastport, born, from, read, told, left>>

\* The network.
Lose(s) == net' = net \ {s} /\ UNCHANGED <<conns, listenports, iss, lastport, born, from, read, told, left>>

(***************************************************************************)
(* The driver calls uip_periodic for every connection, again and again     *)
(* (uip.h:180-198), so a timer that runs does run down.                    *)
(***************************************************************************)
Next == \/ \E h \in Client, to \in Host, port \in ListenPort : h # to /\ Connect(h, to, port)
        \/ \E h \in Server, port \in ListenPort : Listen(h, port) \/ Unlisten(h, port)
        \/ \E h \in Host, i \in Slot, down \in BOOLEAN : Timer(h, i, down)
        \/ \E s \in net : Input(s) \/ Accept(s) \/ Refuse(s) \/ Lose(s)

Spec == Init /\ [][Next]_vars /\ \A h \in Host, i \in Slot : WF_vars(Timer(h, i, TRUE))
=============================================================================
