------------------------------ MODULE Iod_proofs ------------------------------
(***************************************************************************)
(* Proofs about the channels of the daemon, for every number of processes,   *)
(* channels and block sizes, while there is one channel at a time: with more *)
(* the lists do not hold together (see the run V_Iod).                       *)
(***************************************************************************)
EXTENDS IodProps, Queue_proofs, SequenceTheorems

\* The daemon or the shell command, one channel after the other.
OneAtATime == "shared" \notin Uses

-----------------------------------------------------------------------------
(* Types.                                                                    *)

Lists   == {"used", "unused", "active", "inactive"}
Handle  == Client \X Ends
Status  == {"new", "copying", "idle", "failed", "done"}
Working == {"src", "dst", "push", "close_to", "discard"}
Places  == Working \cup {"start", "end", "asleep", "ready", "spin"}

ChnRec == [job : Actor, flags : SUBSET (Settable \cup {"active"}), blk_from : Nat,
           dst : Seq(Nat), rest : Nat]

IoRec == [prev : [Chn -> Chn \cup {NULL}], next : [Chn -> Chn \cup {NULL}],
          first : [Lists -> Chn \cup {NULL}], last : [Lists -> Chn \cup {NULL}],
          chn : [Chn -> ChnRec], live : SUBSET Chn, polling : Int,
          table : SUBSET Handle, refs : SUBSET Handle,
          out : [Client -> Seq(Nat)], lines : [Client -> Nat], st : [Client -> Status]]

LocRec == [pc : Places, ch : Chn \cup {NULL}, data : Seq(Nat), restart : BOOLEAN]

-----------------------------------------------------------------------------
(* The invariant, for a state k of the daemon that is used as u says.        *)

\* What has left the source of channel c, what there is of it, and what its
\* first n blocks make.
Total(k, c)    == Len(k.out[k.chn[c].job]) + Len(k.chn[c].dst)
Limit(k, j)    == IF j \in Stream THEN k.lines[j] ELSE SrcLen
Reach(k, c, n) == IF k.chn[c].job \in Stream THEN k.lines[k.chn[c].job]
                  ELSE Least(n * SrcBlk, SrcLen)

CaughtUp(k, c) == Has(k, c, "push") \/ Total(k, c) = Reach(k, c, k.chn[c].blk_from)

OutOK(k, j) ==
  /\ k.out[j] = Bytes(1, Len(k.out[j])) /\ Len(k.out[j]) <= Limit(k, j)
  /\ k.st[j] = "done" => Len(k.out[j]) = Limit(k, j)

ChnOK(u, k, c) ==
  LET r == k.chn[c]
      j == r.job
  IN /\ j \in Client
     /\ Has(k, c, "immediate") <=> u = "immediate"
     /\ u = "immediate" => Has(k, c, "active") /\ Has(k, c, "autoclose")
     /\ Has(k, c, "poll") \/ Has(k, c, "push") => j \in Stream
     /\ k.st[j] \in {"copying", "idle", "failed"}
     /\ k.out[j] \o r.dst = Bytes(1, Total(k, c)) /\ Total(k, c) <= Limit(k, j)
     /\ k.st[j] = "idle" => j \notin Stream /\ Total(k, c) = SrcLen
     /\ ~Has(k, c, "active") => k.st[j] # "copying"

\* The links that c leaves behind lead to no other record, so that what is not
\* removed from a list does no harm when c is allocated again.
Near(k, c) ==
  /\ k.live \subseteq {c} /\ k.next[c] = NULL
  /\ IF k.live = {} THEN c = k.last["unused"] ELSE k.prev[c] \in {NULL, c}
  /\ \A l \in Lists \ {"unused"} : k.first[l] \in {NULL, c} /\ k.last[l] \in {NULL, c}

Alone(k, l, c) == k.first[l] = c /\ k.last[l] = c

Placed(k) ==
  /\ k.live = {} => \A l \in Lists \ {"unused"} : Alone(k, l, NULL)
  /\ \A c \in k.live :
       /\ k.next[c] = NULL /\ k.prev[c] = NULL /\ Alone(k, "used", c)
       /\ IF Has(k, c, "active") THEN Alone(k, "active", c) /\ Alone(k, "inactive", NULL)
                                 ELSE Alone(k, "active", NULL) /\ Alone(k, "inactive", c)

ListsOK(u, k) ==
  /\ OnChain(k, "unused", Chn \ k.live)
  /\ \E c \in Chn : Near(k, c)
  /\ u = "background" => Placed(k)
  /\ u = "immediate" => k.first["active"] = NULL \/ Has(k, k.first["active"], "immediate")

RefsOK(u, k) ==
  u = "background" => /\ k.refs \subseteq {<<k.chn[c].job, e>> : c \in k.live, e \in Ends}
                      /\ k.refs \subseteq k.table

Base(u, k) ==
  /\ k \in IoRec /\ ListsOK(u, k) /\ RefsOK(u, k)
  /\ \A j \in Client : OutOK(k, j)
  /\ \A c \in k.live : ChnOK(u, k, c)

\* Channel c has not failed and has its objects.
Sane(u, k, c) ==
  /\ k.st[k.chn[c].job] # "failed"
  /\ u = "background" => \A e \in Ends : <<k.chn[c].job, e>> \in k.refs

AtWork(u, k, p, c) ==
  /\ k.live = {c}
  /\ p.pc \in {"src", "dst", "push"} => Sane(u, k, c) /\ Has(k, c, "active")
  /\ p.pc = "src" => /\ ~Has(k, c, "push") /\ k.chn[c].blk_from > 0
                     /\ Total(k, c) = Reach(k, c, k.chn[c].blk_from - 1)
  /\ p.pc = "dst" => /\ ~Has(k, c, "push") /\ Total(k, c) <= Reach(k, c, k.chn[c].blk_from)
                     /\ p.data = Bytes(Total(k, c) + 1, Reach(k, c, k.chn[c].blk_from))
  /\ p.pc = "push" => Has(k, c, "push")
  /\ p.pc \in {"close_to", "discard"} => ~Has(k, c, "active") /\ k.chn[c].dst = <<>>
  /\ p.pc = "close_to" => k.refs \subseteq {<<k.chn[c].job, "to">>}
  /\ p.pc = "discard" => k.refs = {}

\* Nobody is at work but, maybe, who is at p.
Good(u, k, p) ==
  /\ Base(u, k)
  /\ IF p.pc \in Working THEN AtWork(u, k, p, p.ch)
                         ELSE \A c \in k.live : CaughtUp(k, c) /\ Sane(u, k, c)

Works(a) == loc[a].pc \in Working

IodInv ==
  /\ loc \in [Actor -> LocRec] /\ use \in {"immediate", "background"}
  /\ IF \E a \in Actor : Works(a) THEN \A a \in Actor : Works(a) => Good(use, io, loc[a])
                                  ELSE Good(use, io, At("end", NULL))
  /\ \A a, b \in Actor : Works(a) /\ Works(b) => a = b
  /\ \A j \in Client : loc[j].pc = "start" =>
       io.out[j] = <<>> /\ io.lines[j] = 0 /\ \A c \in io.live : io.chn[c].job # j
  /\ \A j \in Client : Works(j) => io.chn[loc[j].ch].job = j
  /\ \A a \in Actor : Works(a) =>
       IF use = "immediate" THEN a \in Client /\ loc[a].pc \in {"src", "dst"}
       ELSE a = Iod \/ loc[a].pc \in {"close_to", "discard"}

-----------------------------------------------------------------------------
(* Constants and the record of the daemon, field by field.                   *)

LEMMA ConstFacts ==
  /\ NumChn \in Nat /\ NumChn > 0 /\ SrcBlk \in Nat /\ SrcBlk > 0 /\ DstBlk \in Nat /\ DstBlk > 0
  /\ SrcLen \in Nat /\ MaxInput \in Nat /\ MaxFrom \in Nat
  /\ Iod \notin Client /\ Iod \in Actor /\ \A j \in Client : j \in Actor /\ j # Iod
  /\ NULL \notin Chn /\ Lists = {"unused", "used", "active", "inactive"}
BY IodAssumption DEF NULL, Chn, Actor, Lists

LEMMA IoLinks ==
  ASSUME NEW k \in IoRec
  PROVE  Links(k, Chn, Lists)
<1>1. IsHeap(k)
  BY DEF IoRec, IsHeap, LinkFields
<1> QED
  BY <1>1, ConstFacts DEF IoRec, Links

LEMMA IoFields ==
  ASSUME NEW k \in IoRec
  PROVE  /\ k.chn \in [Chn -> ChnRec] /\ k.live \in SUBSET Chn /\ k.polling \in Int
         /\ k.table \in SUBSET Handle /\ k.refs \in SUBSET Handle
         /\ k.out \in [Client -> Seq(Nat)] /\ k.lines \in [Client -> Nat]
         /\ k.st \in [Client -> Status]
         /\ k.next \in [Chn -> Chn \cup {NULL}] /\ k.prev \in [Chn -> Chn \cup {NULL}]
         /\ k.first \in [Lists -> Chn \cup {NULL}] /\ k.last \in [Lists -> Chn \cup {NULL}]
BY DEF IoRec

LEMMA ChnFields ==
  ASSUME NEW r \in ChnRec
  PROVE  /\ r.job \in Actor /\ r.flags \in SUBSET (Settable \cup {"active"})
         /\ r.blk_from \in Nat /\ r.dst \in Seq(Nat) /\ r.rest \in Nat
BY DEF ChnRec

LEMMA Relinked ==
  ASSUME NEW m \in IoRec, NEW k, OnlyLinks(m, k), Links(k, Chn, Lists)
  PROVE  /\ k \in IoRec /\ k.chn = m.chn /\ k.live = m.live /\ k.polling = m.polling
         /\ k.table = m.table /\ k.refs = m.refs /\ k.out = m.out /\ k.lines = m.lines
         /\ k.st = m.st
<1>1. DOMAIN m = {"prev", "next", "first", "last", "chn", "live", "polling", "table", "refs",
                  "out", "lines", "st"}
  BY DEF IoRec
<1>2. /\ k.chn = m.chn /\ k.live = m.live /\ k.polling = m.polling
      /\ k.table = m.table /\ k.refs = m.refs /\ k.out = m.out /\ k.lines = m.lines
      /\ k.st = m.st
  BY <1>1 DEF OnlyLinks, LinkFields
<1>3. k = [f \in DOMAIN m |-> k[f]]
  BY DEF OnlyLinks, IsHeap
<1>4. k \in IoRec
  BY <1>1, <1>2, <1>3, IoFields DEF IoRec, Links
<1> QED
  BY <1>2, <1>4

-----------------------------------------------------------------------------
(* Walking along a chain.                                                    *)

\* A walk along a chain meets no record twice before it comes to the end.
LEMMA ChainEnds ==
  ASSUME NEW P, IsFiniteSet(P), NEW nx, NEW pv, NEW h, NEW t, IsChain(P, nx, pv, h, t),
         NEW n \in Nat, n > Cardinality(P), NEW w, IsWalk(w, nx, h, n)
  PROVE  w[Cardinality(P) + 1] = NULL
<1> DEFINE z == Cardinality(P) + 1
<1>1. Cardinality(P) \in Nat /\ z \in 1..n
  BY FS_CardinalityType
<1>2. h \in P \cup {NULL} /\ \A p \in P : nx[p] \in P \cup {NULL}
  BY DEF IsChain
<1>3. w \in [1..n -> P \cup {NULL}]
  BY <1>2, WalkStays
<1> SUFFICES ASSUME w[z] # NULL PROVE FALSE
  OBVIOUS
<1>4. \A i \in 1..z : w[i] # NULL
  <2> DEFINE T == {i \in 0..z : z - i \in 1..z /\ w[z - i] = NULL}
  <2> SUFFICES ASSUME T # {} PROVE FALSE
    <3>1. SUFFICES ASSUME NEW i \in 1..z, w[i] = NULL PROVE FALSE
      OBVIOUS
    <3>2. z - i \in 0..z /\ z - (z - i) = i
      BY <1>1
    <3> QED
      BY <3>1, <3>2
  <2>1. T \in SUBSET Nat
    BY <1>1
  <2>2. PICK m \in T : \A k \in T : m <= k
    BY <2>1, NatLeast
  <2>3. m \in 0..z /\ z - m \in 1..z /\ w[z - m] = NULL /\ m # 0
    BY <1>1
  <2>4. m - 1 \in 0..z /\ z - (m - 1) \in 1..z /\ ~(m <= m - 1) /\ z - (m - 1) > 1
        /\ (z - (m - 1)) - 1 = z - m /\ z - (m - 1) \in 1..n
    BY <1>1, <2>3
  <2>5. w[z - (m - 1)] = NULL
    BY <2>3, <2>4 DEF IsWalk
  <2> QED
    BY <2>2, <2>4, <2>5
<1>5. \A i \in 1..z : w[i] \in P
  BY <1>1, <1>3, <1>4
<1>6. \A i \in 1..z : i > 1 => i - 1 \in 1..z /\ w[i] = nx[w[i - 1]]
  <2> TAKE i \in 1..z
  <2> HAVE i > 1
  <2>1. i - 1 \in 1..z /\ i \in 1..n
    BY <1>1
  <2>2. w[i - 1] # NULL
    BY <1>4, <2>1
  <2> HIDE DEF z
  <2> QED
    BY <2>1, <2>2 DEF IsWalk
<1>7. \A i \in 1..z : i > 1 => pv[w[i]] = w[i - 1]
  <2> TAKE i \in 1..z
  <2> HAVE i > 1
  <2>1. i - 1 \in 1..z /\ w[i] = nx[w[i - 1]] /\ w[i] # NULL /\ w[i - 1] \in P
    BY <1>4, <1>5, <1>6
  <2> QED
    BY <2>1 DEF IsChain
<1>8. w[1] = h /\ h \in P /\ pv[h] = NULL
  <2>1. w[1] = h
    BY <1>1 DEF IsWalk
  <2> QED
    BY <1>1, <1>5, <2>1 DEF IsChain
<1>9. \A i, j \in 1..z : i < j => w[i] # w[j]
  <2> DEFINE T == {i \in 1..z : \E j \in 1..z : i < j /\ w[i] = w[j]}
  <2> SUFFICES ASSUME T # {} PROVE FALSE
    OBVIOUS
  <2>1. T \in SUBSET Nat
    BY <1>1
  <2>2. PICK m \in T : \A k \in T : m <= k
    BY <2>1, NatLeast
  <2>3. PICK j \in 1..z : m < j /\ w[m] = w[j]
    OBVIOUS
  <2>4. j > 1 /\ m \in 1..z
    BY <1>1, <2>3
  <2>5. pv[w[j]] = w[j - 1] /\ w[j - 1] # NULL
    BY <1>4, <1>6, <1>7, <2>4
  <2>6. CASE m = 1
    BY <1>8, <2>3, <2>5, <2>6
  <2>7. CASE m # 1
    <3>1. m > 1 /\ m - 1 \in 1..z /\ j - 1 \in 1..z /\ m - 1 < j - 1 /\ ~(m <= m - 1)
      BY <1>1, <2>3, <2>4, <2>7
    <3>2. w[m - 1] = w[j - 1]
      BY <1>7, <2>3, <2>4, <2>5, <3>1
    <3>3. m - 1 \in T
      BY <3>1, <3>2
    <3> QED
      BY <2>2, <3>1, <3>3
  <2> QED
    BY <2>6, <2>7
<1>10. IsFiniteSet(1..z) /\ Cardinality(1..z) = z
  BY <1>1, FS_Interval
<1> DEFINE v == [i \in 1..z |-> w[i]]
<1>11. v \in [1..z -> P]
  BY <1>5
<1>12. \E i, j \in 1..z : i # j /\ v[i] = v[j]
  <2>1. Cardinality(P) < Cardinality(1..z)
    BY <1>1, <1>10
  <2> HIDE DEF v, z
  <2> QED
    BY <1>10, <1>11, <2>1, FS_PigeonHole
<1> QED
  BY <1>1, <1>9, <1>12

LEMMA ChainIsList ==
  ASSUME io \in IoRec, NEW l \in Lists, NEW P \in SUBSET Chn, OnChain(io, l, P)
  PROVE  IsList(l) /\ Members(l) = P
<1> DEFINE n == NumChn + 1
           w == WalkFrom(io, io.first[l], n)
<1>1. IsWalk(w, io.next, io.first[l], n) /\ n \in Nat
  BY WalkFromIsWalk, ConstFacts
<1>2. IsFiniteSet(P) /\ Cardinality(P) <= NumChn /\ Cardinality(P) \in Nat
  <2>1. IsFiniteSet(Chn) /\ Cardinality(Chn) = NumChn
    BY FS_Interval, ConstFacts DEF Chn
  <2> QED
    BY <2>1, FS_Subset, FS_CardinalityType
<1>3. w[Cardinality(P) + 1] = NULL
  <2>1. n > Cardinality(P)
    BY <1>2, ConstFacts
  <2> HIDE DEF w, n
  <2> QED
    BY <1>1, <1>2, <2>1, ChainEnds DEF OnChain
<1>4. {w[i] : i \in 1..n} \ {NULL} = P
  <2> HIDE DEF w
  <2>1. CASE P = {}
    <3>1. w \in [1..n -> {NULL}]
      BY <1>1, <2>1, WalkOfNull DEF OnChain, IsChain
    <3> QED
      BY <2>1, <3>1
  <2>2. CASE P # {}
    <3>1. /\ NULL \notin P /\ io.first[l] \in P /\ Reaches(P, io.next, io.first[l])
          /\ \A p \in P : io.next[p] \in P \cup {NULL}
      BY <2>2 DEF OnChain, IsChain
    <3>2. Cardinality(P) <= n
      BY <1>2, ConstFacts
    <3> HIDE DEF n
    <3> QED
      BY <1>1, <1>2, <3>1, <3>2, WalkMembers
  <2> QED
    BY <2>1, <2>2
<1>5. Members(l) = P
  BY <1>4 DEF Members, Walk
<1>6. IsList(l)
  BY <1>3, <1>5 DEF IsList, Walk
<1> QED
  BY <1>5, <1>6

-----------------------------------------------------------------------------
(* List operations on the record c, when the links involved lead to c only.  *)

\* Only links have changed.
Relinks(m, k) ==
  /\ k \in IoRec /\ k.chn = m.chn /\ k.live = m.live /\ k.polling = m.polling
  /\ k.table = m.table /\ k.refs = m.refs /\ k.out = m.out /\ k.lines = m.lines /\ k.st = m.st

\* They are those of c and the header of l.
Moves(m, k, l, c) == Relinks(m, k) /\ Elsewhere(m, k, Chn, Lists, l, {c})

LEMMA MovesChain ==
  ASSUME NEW m \in IoRec, NEW k, NEW l \in Lists, NEW c \in Chn, Moves(m, k, l, c), l # "unused",
         NEW P \in SUBSET Chn, c \notin P, OnChain(m, "unused", P)
  PROVE  OnChain(k, "unused", P)
<1>1. Elsewhere(m, k, Chn, Lists, l, {c}) /\ "unused" \in Lists /\ P \cap {c} = {}
  BY DEF Moves, Lists
<1> QED
  BY <1>1, ChainElsewhere

LEMMA PushNear ==
  ASSUME NEW m \in IoRec, NEW l \in Lists, NEW c \in Chn, m.last[l] \in {NULL, c},
         NEW k, k = DequeuePush(m, l, c)
  PROVE  /\ Moves(m, k, l, c) /\ k.next[c] = NULL /\ k.prev[c] = m.last[l] /\ k.last[l] = c
         /\ k.first[l] = IF m.last[l] = NULL THEN c ELSE m.first[l]
<1>0. /\ m.next \in [Chn -> Chn \cup {NULL}] /\ m.prev \in [Chn -> Chn \cup {NULL}]
      /\ m.first \in [Lists -> Chn \cup {NULL}] /\ m.last \in [Lists -> Chn \cup {NULL}]
  BY IoFields
<1> DEFINE p == m.last[l]
<1>1. IsHeap(m)
  BY IoLinks DEF Links
<1>2. /\ OnlyLinks(m, k)
      /\ Fields(k, [(IF p = NULL THEN m.next ELSE [m.next EXCEPT ![p] = c]) EXCEPT ![c] = NULL],
                [m.prev EXCEPT ![c] = p], [m.first EXCEPT ![l] = IF p = NULL THEN c ELSE @],
                [m.last EXCEPT ![l] = c])
  BY <1>1, DequeuePushFields
<1>3. k.next = [m.next EXCEPT ![c] = NULL]
  BY <1>0, <1>2 DEF Fields
<1>4. /\ k.prev = [m.prev EXCEPT ![c] = p] /\ k.last = [m.last EXCEPT ![l] = c]
      /\ k.first = [m.first EXCEPT ![l] = IF p = NULL THEN c ELSE @]
  BY <1>2 DEF Fields
<1>5. Links(k, Chn, Lists)
  BY <1>0, <1>2, <1>3, <1>4, ConstFacts DEF Links, OnlyLinks
<1>6. Relinks(m, k)
  BY <1>2, <1>5, Relinked DEF Relinks
<1> QED
  BY <1>0, <1>3, <1>4, <1>6 DEF Moves, Elsewhere

LEMMA RemoveNear ==
  ASSUME NEW m \in IoRec, NEW l \in Lists, NEW c \in Chn, m.next[c] = NULL, m.prev[c] \in {NULL, c},
         NEW k, k = DequeueRemove(m, l, c)
  PROVE  /\ Moves(m, k, l, c) /\ k.next[c] = NULL /\ k.prev[c] = m.prev[c]
         /\ k.first[l] = (IF m.first[l] = c THEN NULL ELSE m.first[l])
         /\ k.last[l] = IF m.last[l] = c THEN m.prev[c] ELSE m.last[l]
<1>0. /\ m.next \in [Chn -> Chn \cup {NULL}] /\ m.prev \in [Chn -> Chn \cup {NULL}]
      /\ m.first \in [Lists -> Chn \cup {NULL}] /\ m.last \in [Lists -> Chn \cup {NULL}]
  BY IoFields
<1> DEFINE p == m.prev[c]
           n == m.next[c]
<1>1. IsHeap(m)
  BY IoLinks DEF Links
<1>2. /\ OnlyLinks(m, k)
      /\ Fields(k, IF p = NULL THEN m.next ELSE [m.next EXCEPT ![p] = n],
                IF n = NULL THEN m.prev ELSE [m.prev EXCEPT ![n] = p],
                [m.first EXCEPT ![l] = IF @ = c THEN n ELSE @],
                [m.last EXCEPT ![l] = IF @ = c THEN p ELSE @])
  BY <1>1, DequeueRemoveFields
<1>3. k.next = m.next
  BY <1>0, <1>2 DEF Fields
<1>4. /\ k.prev = m.prev /\ k.last = [m.last EXCEPT ![l] = IF @ = c THEN p ELSE @]
      /\ k.first = [m.first EXCEPT ![l] = IF @ = c THEN NULL ELSE @]
  BY <1>2 DEF Fields
<1>5. Links(k, Chn, Lists)
  BY <1>0, <1>2, <1>3, <1>4, ConstFacts DEF Links, OnlyLinks
<1>6. Relinks(m, k)
  BY <1>2, <1>5, Relinked DEF Relinks
<1> QED
  BY <1>0, <1>3, <1>4, <1>6 DEF Moves, Elsewhere

\* The last free record is taken: it is near, and the others stay a chain.
LEMMA PopFree ==
  ASSUME NEW m \in IoRec, OnChain(m, "unused", Chn), NEW c, c = m.last["unused"],
         NEW k, k = DequeuePop(m, "unused")
  PROVE  /\ c \in Chn /\ Relinks(m, k) /\ OnChain(k, "unused", Chn \ {c}) /\ k.next[c] = NULL
         /\ \A l \in Lists \ {"unused"} : k.first[l] = m.first[l] /\ k.last[l] = m.last[l]
<1>0. 1 \in Chn /\ "unused" \in Lists /\ Links(m, Chn, Lists)
  BY ConstFacts, IoLinks DEF Chn
<1>1. c \in Chn /\ c # NULL
  BY <1>0, ConstFacts DEF OnChain, IsChain
<1>2. m.next[c] = NULL /\ m.prev[c] # c
  BY <1>1, ChainNoLoop DEF OnChain
<1>3. /\ Links(k, Chn, Lists) /\ OnlyLinks(m, k) /\ OnChain(k, "unused", Chn \ {c})
      /\ Elsewhere(m, k, Chn, Lists, "unused", Chn)
  BY <1>0, <1>1, DequeuePopList
<1>4. Relinks(m, k)
  BY <1>3, Relinked DEF Relinks
<1> DEFINE p == m.prev[c]
<1>5. k.next = IF p = NULL THEN m.next ELSE [m.next EXCEPT ![p] = NULL]
  <2>1. IsHeap(m) /\ p = m.prev[m.last["unused"]]
    BY <1>0 DEF Links
  <2>2. Fields(k, IF p = NULL THEN m.next ELSE [m.next EXCEPT ![p] = NULL], m.prev,
               [m.first EXCEPT !["unused"] = IF p = NULL THEN NULL ELSE @],
               [m.last EXCEPT !["unused"] = p])
    BY <2>1, DequeuePopFields
  <2> QED
    BY <2>2 DEF Fields
<1>6. k.next[c] = NULL
  BY <1>1, <1>2, <1>5, IoFields
<1> QED
  BY <1>1, <1>3, <1>4, <1>6 DEF Elsewhere

LEMMA PushFree ==
  ASSUME NEW m \in IoRec, NEW c \in Chn, OnChain(m, "unused", Chn \ {c}),
         NEW k, k = DequeuePush(m, "unused", c)
  PROVE  /\ Relinks(m, k) /\ OnChain(k, "unused", Chn) /\ k.next[c] = NULL /\ k.last["unused"] = c
         /\ \A l \in Lists \ {"unused"} : k.first[l] = m.first[l] /\ k.last[l] = m.last[l]
<1>0. "unused" \in Lists /\ Links(m, Chn, Lists)
  BY ConstFacts, IoLinks
<1>1. (Chn \ {c}) \cup {c} = Chn /\ Chn \ {c} \subseteq Chn /\ c \notin Chn \ {c}
  OBVIOUS
<1>2. /\ Links(k, Chn, Lists) /\ OnlyLinks(m, k) /\ OnChain(k, "unused", (Chn \ {c}) \cup {c})
      /\ Elsewhere(m, k, Chn, Lists, "unused", (Chn \ {c}) \cup {c})
  BY <1>0, <1>1, DequeuePushList
<1>3. Relinks(m, k)
  BY <1>2, Relinked DEF Relinks
<1> DEFINE p == m.last["unused"]
<1>4. /\ k.next = [(IF p = NULL THEN m.next ELSE [m.next EXCEPT ![p] = c]) EXCEPT ![c] = NULL]
      /\ k.last = [m.last EXCEPT !["unused"] = c]
  <2>1. IsHeap(m)
    BY <1>0 DEF Links
  <2>2. Fields(k, [(IF p = NULL THEN m.next ELSE [m.next EXCEPT ![p] = c]) EXCEPT ![c] = NULL],
               [m.prev EXCEPT ![c] = p], [m.first EXCEPT !["unused"] = IF p = NULL THEN c ELSE @],
               [m.last EXCEPT !["unused"] = c])
    BY <2>1, DequeuePushFields
  <2> QED
    BY <2>2 DEF Fields
<1>5. k.next[c] = NULL /\ k.last["unused"] = c
  BY <1>0, <1>4, IoFields
<1> QED
  BY <1>1, <1>2, <1>3, <1>5 DEF Elsewhere

-----------------------------------------------------------------------------
(* Bytes of a source.                                                        *)

LEMMA BytesIs ==
  ASSUME NEW t \in Nat, NEW u \in Nat, t <= u, NEW s, s = Bytes(t + 1, u)
  PROVE  /\ s \in Seq(Nat) /\ Len(s) = u - t /\ DOMAIN s = 1..(u - t)
         /\ \A i \in 1..(u - t) : s[i] = t + i
<1>1. s = [i \in 1..(u - t) |-> t + i]
  BY DEF Bytes
<1>2. u - t \in Nat /\ \A i \in 1..(u - t) : t + i \in Nat
  OBVIOUS
<1> QED
  BY <1>1, <1>2

LEMMA BytesJoin ==
  ASSUME NEW t \in Nat, NEW u \in Nat, t <= u
  PROVE  Bytes(1, t) \o Bytes(t + 1, u) = Bytes(1, u)
<1> DEFINE a == Bytes(1, t)  b == Bytes(t + 1, u)  s == Bytes(1, u)
<1>1. a \in Seq(Nat) /\ Len(a) = t /\ \A i \in 1..t : a[i] = i
  <2>1. 0 \in Nat /\ 0 <= t /\ a = Bytes(0 + 1, t)
    OBVIOUS
  <2> HIDE DEF a
  <2> QED
    BY <2>1, BytesIs, SMTT(60)
<1>2. b \in Seq(Nat) /\ Len(b) = u - t /\ \A i \in 1..(u - t) : b[i] = t + i
  BY BytesIs
<1>3. s \in Seq(Nat) /\ Len(s) = u /\ \A i \in 1..u : s[i] = i
  <2>1. 0 \in Nat /\ 0 <= u /\ s = Bytes(0 + 1, u)
    OBVIOUS
  <2> HIDE DEF s
  <2> QED
    BY <2>1, BytesIs, SMTT(60)
<1> HIDE DEF a, b, s
<1>4. a \o b \in Seq(Nat) /\ Len(a \o b) = u
  <2>1. a \o b \in Seq(Nat) /\ Len(a \o b) = Len(a) + Len(b)
    BY <1>1, <1>2, ConcatProperties
  <2> QED
    BY <1>1, <1>2, <2>1
<1>5. \A i \in 1..u : (a \o b)[i] = i
  <2> TAKE i \in 1..u
  <2>0. i <= t \/ i > t
    OBVIOUS
  <2>1. CASE i <= t
    BY <1>1, <1>2, <2>1, ConcatProperties
  <2>2. CASE i > t
    <3>1. i - t \in 1..(u - t) /\ t + (i - t) = i
      BY <2>2
    <3>2. (a \o b)[i] = b[i - t]
      BY <1>1, <1>2, <2>2, ConcatProperties
    <3> QED
      BY <1>2, <3>1, <3>2
  <2> QED
    BY <2>0, <2>1, <2>2
<1>6. a \o b = s
  BY <1>3, <1>4, <1>5, SeqEqual
<1> QED
  BY <1>6 DEF a, b, s

\* The first n of the bytes s, which come after t and go up to u.
Splits(s, t, u, n) == t <= u /\ n <= u - t /\ s = Bytes(t + 1, u)

LEMMA BytesCut ==
  ASSUME NEW t \in Nat, NEW u \in Nat, NEW n \in Nat, NEW s, Splits(s, t, u, n)
  PROVE  /\ SubSeq(s, 1, n) = Bytes(t + 1, t + n)
         /\ SubSeq(s, n + 1, Len(s)) = Bytes((t + n) + 1, u)
<1>0. t <= u /\ n <= u - t /\ s = Bytes(t + 1, u)
  BY DEF Splits
<1>1. s \in Seq(Nat) /\ Len(s) = u - t /\ \A i \in 1..(u - t) : s[i] = t + i
  BY <1>0, BytesIs
<1>2. t + n \in Nat /\ t <= t + n /\ t + n <= u
  BY <1>0
<1>3. SubSeq(s, 1, n) = Bytes(t + 1, t + n)
  <2>1. SubSeq(s, 1, n) = [i \in 1..n |-> s[i]]
    BY <1>0, <1>1
  <2>2. \A i \in 1..n : s[i] = (t + 1) + i - 1
    BY <1>0, <1>1
  <2>3. (t + n) - (t + 1) + 1 = n
    OBVIOUS
  <2> QED
    BY <2>1, <2>2, <2>3 DEF Bytes
<1>4. SubSeq(s, n + 1, Len(s)) = Bytes((t + n) + 1, u)
  <2> DEFINE m == u - (t + n)
  <2>1. m \in Nat /\ Len(s) - (n + 1) + 1 = m
    BY <1>0, <1>1
  <2>2. SubSeq(s, n + 1, Len(s)) = [i \in 1..m |-> s[n + i]]
    BY <1>1, <2>1
  <2>3. \A i \in 1..m : s[n + i] = ((t + n) + 1) + i - 1
    <3> TAKE i \in 1..m
    <3>1. n + i \in 1..(u - t)
      BY <1>0
    <3> QED
      BY <1>1, <3>1
  <2>4. u - ((t + n) + 1) + 1 = m
    OBVIOUS
  <2> QED
    BY <2>2, <2>3, <2>4 DEF Bytes
<1> QED
  BY <1>3, <1>4

-----------------------------------------------------------------------------
(* What the steps of a copy change.                                          *)

\* Nothing of the other jobs, and no record is given to another job.
Others(k, i, j) ==
  /\ \A m \in Client \ {j} : i.out[m] = k.out[m] /\ i.lines[m] = k.lines[m] /\ i.st[m] = k.st[m]
  /\ \A d \in Chn : i.chn[d].job = k.chn[d].job

\* Nothing but the data of channel c.
DataOnly(k, i, c) ==
  /\ i \in IoRec /\ i.next = k.next /\ i.prev = k.prev /\ i.first = k.first /\ i.last = k.last
  /\ i.live = k.live /\ i.refs = k.refs /\ i.table = k.table
  /\ Others(k, i, k.chn[c].job)
  /\ \A d \in Chn : i.chn[d].flags = k.chn[d].flags

LEMMA OthersTwice ==
  ASSUME NEW k, NEW i, NEW m, NEW j, Others(k, i, j), Others(i, m, j)
  PROVE  Others(k, m, j)
BY DEF Others

LEMMA DataTwice ==
  ASSUME NEW k, NEW i, NEW m, NEW c \in Chn, DataOnly(k, i, c), DataOnly(i, m, c)
  PROVE  DataOnly(k, m, c)
BY DEF DataOnly, Others

LEMMA DataBase ==
  ASSUME NEW u, NEW k, Base(u, k), NEW c, k.live = {c}, NEW i, DataOnly(k, i, c),
         OutOK(i, k.chn[c].job), ChnOK(u, i, c)
  PROVE  Base(u, i)
<1>0. k \in IoRec /\ i \in IoRec /\ c \in Chn
  BY IoFields DEF Base, DataOnly
<1>1. i.live = {c} /\ \A d \in Chn : \A f : Has(i, d, f) <=> Has(k, d, f)
  BY DEF DataOnly, Has
<1>2. ListsOK(u, i)
  <2>1. OnChain(i, "unused", Chn \ i.live) /\ \E d \in Chn : Near(i, d)
    BY DEF Base, ListsOK, DataOnly, OnChain, Near
  <2>2. u = "background" => Placed(i)
    BY <1>0, <1>1 DEF Base, ListsOK, DataOnly, Placed, Alone
  <2>3. u = "immediate" => i.first["active"] = NULL \/ Has(i, i.first["active"], "immediate")
    <3>1. k.first["active"] \in Chn \cup {NULL}
      BY <1>0, IoFields, ConstFacts
    <3> QED
      BY <1>1, <3>1 DEF Base, ListsOK, DataOnly
  <2> QED
    BY <2>1, <2>2, <2>3 DEF ListsOK
<1>3. RefsOK(u, i)
  BY <1>0, <1>1 DEF Base, RefsOK, DataOnly, Others
<1>4. \A j \in Client : OutOK(i, j)
  <2> TAKE j \in Client
  <2>1. CASE j # k.chn[c].job
    BY <2>1 DEF Base, OutOK, DataOnly, Others, Limit
  <2> QED
    BY <2>1
<1> QED
  BY <1>0, <1>1, <1>2, <1>3, <1>4 DEF Base

LEMMA VerdictIs ==
  ASSUME NEW k \in IoRec, NEW c \in Chn, NEW j \in Client, j = k.chn[c].job,
         NEW err \in {"ENONE", "ENOIODATA", "ENOMEM"}, NEW i, i = Verdict(k, c, err)
  PROVE  /\ DataOnly(k, i, c) /\ i.chn = k.chn /\ i.out = k.out /\ i.lines = k.lines
         /\ i.polling = k.polling
         /\ i.st[j] = IF err = "ENONE" THEN k.st[j]
                      ELSE IF err = "ENOIODATA" THEN "idle" ELSE "failed"
<1> DEFINE x == IF err = "ENONE" THEN k.st[j]
                ELSE IF err = "ENOIODATA" THEN "idle" ELSE "failed"
<1>1. k.st \in [Client -> Status]
  BY IoFields
<1>2. x \in Status
  BY <1>1 DEF Status
<1>3. i = [k EXCEPT !.st = [k.st EXCEPT ![j] = x]]
  BY DEF Verdict, IoRec
<1> DEFINE s == [k.st EXCEPT ![j] = x]
<1>4. s \in [Client -> Status] /\ s[j] = x /\ \A m \in Client \ {j} : s[m] = k.st[m]
  BY <1>1, <1>2
<1> HIDE DEF x, s
<1>5. i \in IoRec /\ i = [k EXCEPT !.st = s]
  BY <1>3, <1>4 DEF s, IoRec
<1>6. /\ i.next = k.next /\ i.prev = k.prev /\ i.first = k.first /\ i.last = k.last
      /\ i.live = k.live /\ i.refs = k.refs /\ i.table = k.table
      /\ i.chn = k.chn /\ i.out = k.out /\ i.lines = k.lines /\ i.polling = k.polling /\ i.st = s
  BY <1>5 DEF IoRec
<1> QED
  BY <1>4, <1>5, <1>6 DEF x, DataOnly, Others

PutChn(k, c, r)       == [k EXCEPT !.chn = [k.chn EXCEPT ![c] = r]]
PutBoth(k, c, r, j, x) == [k EXCEPT !.chn = [k.chn EXCEPT ![c] = r], !.out = [k.out EXCEPT ![j] = x]]

\* The record of a channel is changed.
LEMMA ChnChange ==
  ASSUME NEW k \in IoRec, NEW c \in Chn, NEW j \in Client, j = k.chn[c].job,
         NEW r \in ChnRec, r.job = j, r.flags = k.chn[c].flags,
         NEW i, i = PutChn(k, c, r)
  PROVE  /\ DataOnly(k, i, c) /\ i.chn[c] = r /\ i.out = k.out /\ i.lines = k.lines /\ i.st = k.st
         /\ i.polling = k.polling
<1> DEFINE s == [k.chn EXCEPT ![c] = r]
<1>1. s \in [Chn -> ChnRec] /\ s[c] = r /\ \A d \in Chn \ {c} : s[d] = k.chn[d]
  BY IoFields
<1>2. i = [k EXCEPT !.chn = s]
  BY DEF PutChn
<1> HIDE DEF s
<1>3. i \in IoRec
  BY <1>1, <1>2 DEF IoRec
<1>4. /\ i.next = k.next /\ i.prev = k.prev /\ i.first = k.first /\ i.last = k.last
      /\ i.live = k.live /\ i.refs = k.refs /\ i.table = k.table
      /\ i.chn = s /\ i.out = k.out /\ i.lines = k.lines /\ i.polling = k.polling /\ i.st = k.st
  BY <1>2 DEF IoRec
<1>5. \A d \in Chn : s[d].job = k.chn[d].job /\ s[d].flags = k.chn[d].flags
  BY <1>1
<1> QED
  BY <1>1, <1>3, <1>4, <1>5 DEF DataOnly, Others

\* What its job has sent is changed, too.
LEMMA OutChange ==
  ASSUME NEW k \in IoRec, NEW c \in Chn, NEW j \in Client, j = k.chn[c].job,
         NEW r \in ChnRec, r.job = j, r.flags = k.chn[c].flags, NEW x \in Seq(Nat),
         NEW i, i = PutBoth(k, c, r, j, x)
  PROVE  /\ DataOnly(k, i, c) /\ i.chn[c] = r /\ i.out[j] = x /\ i.lines = k.lines /\ i.st = k.st
         /\ i.polling = k.polling
<1> DEFINE s == [k.chn EXCEPT ![c] = r]
           y == [k.out EXCEPT ![j] = x]
<1>1. s \in [Chn -> ChnRec] /\ s[c] = r /\ \A d \in Chn \ {c} : s[d] = k.chn[d]
  BY IoFields
<1>2. y \in [Client -> Seq(Nat)] /\ y[j] = x /\ \A m \in Client \ {j} : y[m] = k.out[m]
  BY IoFields
<1>3. i = [k EXCEPT !.chn = s, !.out = y]
  BY DEF PutBoth
<1> HIDE DEF s, y
<1>4. i \in IoRec
  BY <1>1, <1>2, <1>3 DEF IoRec
<1>5. /\ i.next = k.next /\ i.prev = k.prev /\ i.first = k.first /\ i.last = k.last
      /\ i.live = k.live /\ i.refs = k.refs /\ i.table = k.table
      /\ i.chn = s /\ i.out = y /\ i.lines = k.lines /\ i.polling = k.polling /\ i.st = k.st
  BY <1>3 DEF IoRec
<1>6. \A d \in Chn : s[d].job = k.chn[d].job /\ s[d].flags = k.chn[d].flags
  BY <1>1
<1> QED
  BY <1>1, <1>2, <1>4, <1>5, <1>6 DEF DataOnly, Others

\* The next block is asked for, data is added to the buffer, a buffer is got.
Advanced(k, c) == [k EXCEPT !.chn[c].blk_from = @ + 1]
Poured(k, c, d, n) == [k EXCEPT !.chn[c] = [k.chn[c] EXCEPT !.dst = @ \o d, !.rest = @ - n]]
Fits(k, c, n) == n <= k.chn[c].rest
Filled(k, c) == [k EXCEPT !.chn[c].rest = DstBlk]

LEMMA CopyIs ==
  ASSUME NEW k \in IoRec, NEW c \in Chn, NEW j \in Client, j = k.chn[c].job,
         NEW i, i = Advanced(k, c)
  PROVE  /\ DataOnly(k, i, c) /\ i.chn[c].blk_from = k.chn[c].blk_from + 1
         /\ i.chn[c].dst = k.chn[c].dst /\ i.out = k.out /\ i.lines = k.lines
         /\ i.st = k.st /\ i.polling = k.polling
<1> DEFINE r == [k.chn[c] EXCEPT !.blk_from = @ + 1]
<1>1. k.chn[c] \in ChnRec /\ k.chn[c].blk_from + 1 \in Nat
  BY IoFields, ChnFields
<1>2. /\ r \in ChnRec /\ r.job = j /\ r.flags = k.chn[c].flags /\ r.dst = k.chn[c].dst
      /\ r.blk_from = k.chn[c].blk_from + 1
  BY <1>1 DEF ChnRec
<1>3. i = PutChn(k, c, r)
  BY DEF PutChn, Advanced
<1> HIDE DEF r
<1>5. /\ DataOnly(k, i, c) /\ i.chn[c] = r /\ i.out = k.out /\ i.lines = k.lines
      /\ i.st = k.st /\ i.polling = k.polling
  BY <1>2, <1>3, ChnChange
<1> QED
  BY <1>2, <1>5

LEMMA PouredIs ==
  ASSUME NEW k \in IoRec, NEW c \in Chn, NEW j \in Client, j = k.chn[c].job,
         NEW d \in Seq(Nat), NEW n \in Nat, Fits(k, c, n),
         NEW i, i = Poured(k, c, d, n)
  PROVE  /\ DataOnly(k, i, c) /\ i.chn[c].blk_from = k.chn[c].blk_from
         /\ i.chn[c].dst = k.chn[c].dst \o d /\ i.out = k.out /\ i.lines = k.lines
         /\ i.st = k.st /\ i.polling = k.polling
<1> DEFINE r == [k.chn[c] EXCEPT !.dst = @ \o d, !.rest = @ - n]
<1>1. k.chn[c] \in ChnRec /\ k.chn[c].dst \in Seq(Nat) /\ k.chn[c].rest \in Nat
  BY IoFields, ChnFields
<1>2. k.chn[c].dst \o d \in Seq(Nat) /\ k.chn[c].rest - n \in Nat
  BY <1>1, ConcatProperties DEF Fits
<1>3. /\ r \in ChnRec /\ r.job = j /\ r.flags = k.chn[c].flags /\ r.dst = k.chn[c].dst \o d
      /\ r.blk_from = k.chn[c].blk_from
  BY <1>1, <1>2 DEF ChnRec
<1>4. i = PutChn(k, c, r)
  BY DEF PutChn, Poured
<1> HIDE DEF r
<1>6. /\ DataOnly(k, i, c) /\ i.chn[c] = r /\ i.out = k.out /\ i.lines = k.lines
      /\ i.st = k.st /\ i.polling = k.polling
  BY <1>3, <1>4, ChnChange
<1> QED
  BY <1>3, <1>6

LEMMA FilledIs ==
  ASSUME NEW k \in IoRec, NEW c \in Chn, NEW j \in Client, j = k.chn[c].job,
         NEW i, i = Filled(k, c)
  PROVE  /\ DataOnly(k, i, c) /\ i.chn[c].blk_from = k.chn[c].blk_from
         /\ i.chn[c].dst = k.chn[c].dst /\ i.out = k.out /\ i.lines = k.lines
         /\ i.st = k.st /\ i.polling = k.polling
<1> DEFINE r == [k.chn[c] EXCEPT !.rest = DstBlk]
<1>1. k.chn[c] \in ChnRec
  BY IoFields
<1>2. /\ r \in ChnRec /\ r.job = j /\ r.flags = k.chn[c].flags /\ r.dst = k.chn[c].dst
      /\ r.blk_from = k.chn[c].blk_from
  BY <1>1, ConstFacts DEF ChnRec
<1>3. i = PutChn(k, c, r)
  BY DEF PutChn, Filled
<1> HIDE DEF r
<1>5. /\ DataOnly(k, i, c) /\ i.chn[c] = r /\ i.out = k.out /\ i.lines = k.lines
      /\ i.st = k.st /\ i.polling = k.polling
  BY <1>2, <1>3, ChnChange
<1> QED
  BY <1>2, <1>5

LEMMA TypedIs ==
  ASSUME NEW k \in IoRec, NEW c \in Chn, NEW j \in Client, j = k.chn[c].job, NEW n \in Nat,
         NEW i, i = [k EXCEPT !.lines[j] = n]
  PROVE  /\ DataOnly(k, i, c) /\ i.chn = k.chn /\ i.out = k.out /\ i.lines[j] = n
         /\ i.st = k.st /\ i.polling = k.polling
<1> DEFINE z == [k.lines EXCEPT ![j] = n]
<1>1. z \in [Client -> Nat] /\ z[j] = n /\ \A m \in Client \ {j} : z[m] = k.lines[m]
  BY IoFields
<1>2. i = [k EXCEPT !.lines = z]
  OBVIOUS
<1> HIDE DEF z
<1>3. i \in IoRec
  BY <1>1, <1>2 DEF IoRec
<1>4. /\ i.next = k.next /\ i.prev = k.prev /\ i.first = k.first /\ i.last = k.last
      /\ i.live = k.live /\ i.refs = k.refs /\ i.table = k.table
      /\ i.chn = k.chn /\ i.out = k.out /\ i.lines = z /\ i.polling = k.polling /\ i.st = k.st
  BY <1>2 DEF IoRec
<1> QED
  BY <1>1, <1>3, <1>4 DEF DataOnly, Others

LEMMA FlushIs ==
  ASSUME NEW k \in IoRec, NEW c \in Chn, NEW j \in Client, j = k.chn[c].job,
         NEW i, i = FreeDstbuf(k, c)
  PROVE  /\ DataOnly(k, i, c) /\ i.chn[c].blk_from = k.chn[c].blk_from
         /\ i.chn[c].dst = <<>> /\ i.out[j] = k.out[j] \o k.chn[c].dst /\ i.lines = k.lines
         /\ i.st = k.st /\ i.polling = k.polling
<1> DEFINE r == [k.chn[c] EXCEPT !.dst = <<>>]
           x == k.out[j] \o k.chn[c].dst
<1>1. k.chn[c] \in ChnRec /\ k.chn[c].dst \in Seq(Nat) /\ k.out[j] \in Seq(Nat)
  BY IoFields, ChnFields
<1>2. x \in Seq(Nat) /\ <<>> \in Seq(Nat)
  BY <1>1, ConcatProperties
<1>3. /\ r \in ChnRec /\ r.job = j /\ r.flags = k.chn[c].flags /\ r.dst = <<>>
      /\ r.blk_from = k.chn[c].blk_from
  BY <1>1, <1>2 DEF ChnRec
<1>4. i = PutBoth(k, c, r, j, x)
  BY DEF FreeDstbuf, IoRec, PutBoth
<1> HIDE DEF r, x
<1>5. /\ DataOnly(k, i, c) /\ i.chn[c] = r /\ i.out[j] = x /\ i.lines = k.lines
      /\ i.st = k.st /\ i.polling = k.polling
  BY <1>2, <1>3, <1>4, OutChange
<1> QED
  BY <1>3, <1>5 DEF x

-----------------------------------------------------------------------------
(* A channel keeps to its source.                                            *)

LEMMA LeastIs ==
  ASSUME NEW m \in Nat, NEW n \in Nat
  PROVE  Least(m, n) \in Nat /\ Least(m, n) <= m /\ Least(m, n) <= n /\ Least(m, n) \in {m, n}
BY DEF Least


\* Record c is the only one in use, and copies for j.
Alive(u, k, c, j) == Base(u, k) /\ k.live = {c} /\ k.chn[c].job = j

Underway == {"copying", "idle", "failed"}

\* Job j has sent or buffered the first t bytes of its source.
Keeps(k, c, j, t) ==
  /\ k.out[j] \o k.chn[c].dst = Bytes(1, t) /\ t <= Limit(k, j)
  /\ k.st[j] = "idle" => j \notin Stream /\ t = SrcLen

LEMMA SumNat ==
  ASSUME NEW m \in Nat, NEW n \in Nat
  PROVE  m + n \in Nat
OBVIOUS

LEMMA AliveTypes ==
  ASSUME NEW u, NEW k, NEW c, NEW j, Alive(u, k, c, j)
  PROVE  /\ k \in IoRec /\ c \in Chn /\ j \in Client /\ j = k.chn[c].job
         /\ k.chn[c] \in ChnRec /\ k.chn[c].dst \in Seq(Nat) /\ k.chn[c].blk_from \in Nat
         /\ k.chn[c].rest \in Nat /\ k.out[j] \in Seq(Nat) /\ k.lines[j] \in Nat
         /\ Total(k, c) \in Nat /\ Limit(k, j) \in Nat
         /\ Len(k.out[j]) \in Nat /\ Len(k.chn[c].dst) \in Nat
<1>0. k \in IoRec /\ k.live = {c} /\ j = k.chn[c].job
  BY DEF Alive, Base
<1>1. c \in Chn /\ ChnOK(u, k, c)
  BY <1>0, IoFields DEF Alive, Base
<1>2. j \in Client
  BY <1>0, <1>1 DEF ChnOK
<1>3. /\ k.chn[c] \in ChnRec /\ k.out[j] \in Seq(Nat) /\ k.lines[j] \in Nat
  BY <1>0, <1>1, <1>2, IoFields
<1>4. k.chn[c].dst \in Seq(Nat) /\ k.chn[c].blk_from \in Nat /\ k.chn[c].rest \in Nat
  BY <1>3, ChnFields
<1>5. Len(k.out[j]) \in Nat /\ Len(k.chn[c].dst) \in Nat
  BY <1>3, <1>4, LenProperties
<1>6. Total(k, c) \in Nat
  <2>1. Len(k.out[j]) + Len(k.chn[c].dst) \in Nat
    BY <1>5, SumNat
  <2> QED
    BY <1>0, <2>1, Zenon DEF Total
<1>7. Limit(k, j) \in Nat
  BY <1>3, ConstFacts DEF Limit
<1> QED
  BY <1>0, <1>1, <1>2, <1>3, <1>4, <1>5, <1>6, <1>7

LEMMA AliveData ==
  ASSUME NEW u, NEW k, NEW c, NEW j, Alive(u, k, c, j)
  PROVE  /\ ChnOK(u, k, c) /\ OutOK(k, j) /\ Keeps(k, c, j, Total(k, c))
         /\ k.st[j] # "done" /\ k.st[j] \in Underway /\ Total(k, c) <= Limit(k, j)
<1>1. ChnOK(u, k, c) /\ j = k.chn[c].job
  BY DEF Alive, Base
<1>2. Keeps(k, c, j, Total(k, c)) /\ k.st[j] \in Underway
  BY <1>1 DEF ChnOK, Keeps, Underway
<1>3. OutOK(k, j)
  BY AliveTypes DEF Alive, Base
<1> QED
  BY <1>1, <1>2, <1>3 DEF Underway, Keeps

LEMMA AliveFlags ==
  ASSUME NEW u, NEW k, NEW c, NEW j, Alive(u, k, c, j)
  PROVE  /\ Has(k, c, "immediate") <=> u = "immediate"
         /\ u = "immediate" => Has(k, c, "active") /\ Has(k, c, "autoclose")
         /\ Has(k, c, "poll") \/ Has(k, c, "push") => j \in Stream
         /\ ~Has(k, c, "active") => k.st[j] # "copying"
<1>1. ChnOK(u, k, c) /\ j = k.chn[c].job
  BY AliveData DEF Alive
<1> QED
  BY <1>1 DEF ChnOK

LEMMA SameFlags ==
  ASSUME NEW k, NEW i, NEW c \in Chn, DataOnly(k, i, c)
  PROVE  /\ \A f : Has(i, c, f) <=> Has(k, c, f)
         /\ i.chn[c].job = k.chn[c].job /\ i.live = k.live /\ i.refs = k.refs
BY DEF DataOnly, Others, Has

\* What is to be shown of a step that changes the data of a channel only.
LEMMA KeepsGood ==
  ASSUME NEW u, NEW k, NEW c, NEW j, Alive(u, k, c, j), NEW i, DataOnly(k, i, c),
         NEW t, Total(i, c) = t, Keeps(i, c, j, t),
         i.st[j] \in Underway, i.st[j] = "copying" => k.st[j] = "copying",
         i.out[j] = Bytes(1, Len(i.out[j])), Len(i.out[j]) <= Limit(i, j)
  PROVE  Alive(u, i, c, j)
<1>1. /\ c \in Chn /\ ChnOK(u, k, c) /\ j \in Client /\ j = k.chn[c].job
  BY AliveTypes, AliveData
<1>2. (\A f : Has(i, c, f) <=> Has(k, c, f)) /\ i.chn[c].job = j /\ i.live = k.live
  BY <1>1, SameFlags
<1>3. ChnOK(u, i, c)
  <2>1. /\ i.st[j] \in Underway /\ i.out[j] \o i.chn[c].dst = Bytes(1, Total(i, c))
        /\ Total(i, c) <= Limit(i, j)
        /\ i.st[j] = "idle" => j \notin Stream /\ Total(i, c) = SrcLen
    BY DEF Keeps
  <2> QED
    BY <1>1, <1>2, <2>1 DEF ChnOK, Underway
<1>4. OutOK(i, j)
  BY DEF OutOK, Underway
<1> QED
  BY <1>1, <1>2, <1>3, <1>4, DataBase DEF Alive

LEMMA FlushGood ==
  ASSUME NEW u, NEW k, NEW c, NEW j, Alive(u, k, c, j), NEW i, i = FreeDstbuf(k, c)
  PROVE  /\ Alive(u, i, c, j) /\ DataOnly(k, i, c) /\ Total(i, c) = Total(k, c)
         /\ i.chn[c].blk_from = k.chn[c].blk_from /\ i.chn[c].dst = <<>>
         /\ i.out[j] = Bytes(1, Total(k, c)) /\ Len(i.out[j]) = Total(k, c)
         /\ i.lines = k.lines /\ i.st = k.st
<1>1. /\ k \in IoRec /\ c \in Chn /\ j \in Client /\ j = k.chn[c].job
      /\ k.chn[c].dst \in Seq(Nat) /\ k.out[j] \in Seq(Nat) /\ Total(k, c) \in Nat
  BY AliveTypes
<1>2. Keeps(k, c, j, Total(k, c)) /\ k.st[j] \in Underway /\ Total(k, c) <= Limit(k, j)
  BY AliveData
<1>3. PICK x : x = k.out[j] \o k.chn[c].dst
  OBVIOUS
<1>4. PICK t : t = Total(k, c)
  OBVIOUS
<1>5. x \in Seq(Nat) /\ Len(x) = t
  <2>1. x \in Seq(Nat) /\ Len(x) = Len(k.out[j]) + Len(k.chn[c].dst)
    BY <1>1, <1>3, ConcatProperties
  <2> QED
    BY <1>1, <1>4, <2>1 DEF Total
<1>6. /\ DataOnly(k, i, c) /\ i.chn[c].blk_from = k.chn[c].blk_from
      /\ i.chn[c].dst = <<>> /\ i.out[j] = x /\ i.lines = k.lines /\ i.st = k.st
  BY <1>1, <1>3, FlushIs, ZenonT(60)
<1>7. i.chn[c].job = j
  BY <1>1, <1>6, SameFlags
<1>8. x \o <<>> = x
  BY <1>5, ConcatEmptySeq
<1>9. Total(i, c) = t
  <2>1. Total(i, c) = Len(x) + Len(<<>>)
    BY <1>6, <1>7 DEF Total
  <2>2. t \in Nat /\ t + 0 = t
    BY <1>1, <1>4
  <2>3. Len(<<>>) = 0
    OBVIOUS
  <2> QED
    BY <1>5, <2>1, <2>2, <2>3, Zenon
<1>10. Limit(i, j) = Limit(k, j)
  BY <1>6 DEF Limit
<1>11. x = Bytes(1, t)
  BY <1>2, <1>3, <1>4 DEF Keeps
<1>12. Keeps(i, c, j, t)
  BY <1>2, <1>3, <1>4, <1>6, <1>8, <1>10 DEF Keeps
<1>13. /\ i.st[j] \in Underway /\ (i.st[j] = "copying" => k.st[j] = "copying")
       /\ i.out[j] = Bytes(1, Len(i.out[j])) /\ Len(i.out[j]) <= Limit(i, j)
  BY <1>2, <1>4, <1>5, <1>6, <1>10, <1>11
<1>14. Alive(u, i, c, j)
  BY <1>6, <1>9, <1>12, <1>13, KeepsGood
<1> QED
  BY <1>4, <1>5, <1>6, <1>9, <1>11, <1>14

LEMMA ThreeParts ==
  ASSUME NEW o \in Seq(Nat), NEW x \in Seq(Nat), NEW d \in Seq(Nat)
  PROVE  (o \o x) \o d = o \o (x \o d) /\ Len(o) + Len(x \o d) = (Len(o) + Len(x)) + Len(d)
<1>1. (o \o x) \o d = o \o (x \o d)
  BY ConcatAssociative
<1>2. Len(x \o d) = Len(x) + Len(d) /\ Len(o) \in Nat /\ Len(x) \in Nat /\ Len(d) \in Nat
  BY ConcatProperties, LenProperties
<1> QED
  BY <1>1, <1>2

\* d is n bytes of a source, after t bytes; x is what there is after o.
IsPart(d, t, n)  == d = Bytes(t + 1, t + n)
IsStart(o, x, t) == t = Len(o) + Len(x) /\ o \o x = Bytes(1, t)

LEMMA BytesMore ==
  ASSUME NEW o \in Seq(Nat), NEW x \in Seq(Nat), NEW t, IsStart(o, x, t),
         NEW n \in Nat, NEW d, IsPart(d, t, n)
  PROVE  /\ d \in Seq(Nat) /\ Len(d) = n /\ o \o (x \o d) = Bytes(1, t + n)
         /\ Len(o) + Len(x \o d) = t + n
<1>1. Len(o) \in Nat /\ Len(x) \in Nat
  BY LenProperties
<1>2. t \in Nat /\ t + n \in Nat /\ t <= t + n /\ (t + n) - t = n
  BY <1>1 DEF IsStart
<1>3. d \in Seq(Nat) /\ Len(d) = n
  BY <1>2, BytesIs DEF IsPart
<1>4. Bytes(1, t) \o d = Bytes(1, t + n)
  BY <1>2, BytesJoin DEF IsPart
<1>5. (o \o x) \o d = o \o (x \o d) /\ Len(o) + Len(x \o d) = (Len(o) + Len(x)) + Len(d)
  BY <1>3, ThreeParts
<1> QED
  BY <1>3, <1>4, <1>5 DEF IsStart

\* The n bytes d follow what job j has sent, and there is place for them.
Pours(k, c, j, t, n, d) ==
  Total(k, c) = t /\ Fits(k, c, n) /\ t + n <= Limit(k, j) /\ IsPart(d, t, n)

LEMMA PouredGood ==
  ASSUME NEW u, NEW k, NEW c, NEW j, Alive(u, k, c, j),
         NEW t \in Nat, NEW n \in Nat, NEW d, Pours(k, c, j, t, n, d), NEW i, i = Poured(k, c, d, n)
  PROVE  /\ Alive(u, i, c, j) /\ DataOnly(k, i, c) /\ Total(i, c) = t + n
         /\ i.chn[c].blk_from = k.chn[c].blk_from /\ i.lines = k.lines /\ i.st = k.st
<1>0. k \in IoRec /\ c \in Chn /\ j \in Client /\ k.chn[c].job = j
  BY AliveTypes
<1>1. k.chn[c].dst \in Seq(Nat) /\ k.out[j] \in Seq(Nat) /\ Limit(k, j) \in Nat
  BY AliveTypes
<1>2. /\ Keeps(k, c, j, t) /\ k.st[j] \in Underway /\ OutOK(k, j)
  BY AliveData DEF Pours
<1>3. IsStart(k.out[j], k.chn[c].dst, t)
  BY <1>0, <1>2 DEF Total, Keeps, IsStart, Pours
<1>4. /\ d \in Seq(Nat) /\ k.out[j] \o (k.chn[c].dst \o d) = Bytes(1, t + n)
      /\ Len(k.out[j]) + Len(k.chn[c].dst \o d) = t + n
  <2>1. ASSUME NEW o \in Seq(Nat), NEW x \in Seq(Nat), IsStart(o, x, t)
        PROVE  /\ d \in Seq(Nat) /\ o \o (x \o d) = Bytes(1, t + n)
               /\ Len(o) + Len(x \o d) = t + n
    BY <2>1, BytesMore DEF Pours
  <2> QED
    BY <1>1, <1>3, <2>1
<1>5. /\ DataOnly(k, i, c) /\ i.chn[c].blk_from = k.chn[c].blk_from
      /\ i.chn[c].dst = k.chn[c].dst \o d /\ i.out = k.out /\ i.lines = k.lines /\ i.st = k.st
  <2>1. d \in Seq(Nat) /\ Fits(k, c, n)
    BY <1>4 DEF Pours
  <2> QED
    BY <1>0, <2>1, PouredIs, SMTT(60)
<1>7. i.chn[c].job = j
  BY <1>0, <1>5, SameFlags
<1>8. PICK s : s = t + n
  OBVIOUS
<1>9. Total(i, c) = s
  BY <1>4, <1>5, <1>7, <1>8 DEF Total
<1>10. Limit(i, j) = Limit(k, j)
  BY <1>5 DEF Limit
<1>11. Keeps(i, c, j, s)
  <2>1. k.st[j] = "idle" => j \notin Stream /\ t = SrcLen
    BY <1>2 DEF Keeps
  <2>2. j \notin Stream => Limit(k, j) = SrcLen
    BY DEF Limit
  <2>3. Limit(k, j) = SrcLen /\ t = SrcLen => s = SrcLen
    <3>1. t + n <= Limit(k, j)
      BY DEF Pours
    <3>2. ASSUME SrcLen \in Nat, t = SrcLen, t + n <= SrcLen PROVE t + n = SrcLen
      BY <3>2
    <3> QED
      BY <1>8, <3>1, <3>2, ConstFacts
  <2> QED
    BY <1>4, <1>5, <1>8, <1>10, <2>1, <2>2, <2>3 DEF Keeps, Pours
<1>12. /\ i.st[j] \in Underway /\ (i.st[j] = "copying" => k.st[j] = "copying")
       /\ i.out[j] = Bytes(1, Len(i.out[j])) /\ Len(i.out[j]) <= Limit(i, j)
  BY <1>2, <1>5, <1>10 DEF OutOK
<1>13. Alive(u, i, c, j)
  BY <1>5, <1>9, <1>11, <1>12, KeepsGood
<1> QED
  BY <1>5, <1>8, <1>9, <1>13

\* The data of a channel is where it was.
LEMMA StillGood ==
  ASSUME NEW u, NEW k, NEW c, NEW j, Alive(u, k, c, j),
         NEW i, DataOnly(k, i, c), i.chn[c].dst = k.chn[c].dst, i.out = k.out, i.lines = k.lines,
         i.st = k.st
  PROVE  Alive(u, i, c, j) /\ Total(i, c) = Total(k, c)
<1>1. /\ c \in Chn /\ j \in Client /\ j = k.chn[c].job
  BY AliveTypes
<1>2. Keeps(k, c, j, Total(k, c)) /\ k.st[j] \in Underway /\ OutOK(k, j)
  BY AliveData
<1>3. i.chn[c].job = j
  BY <1>1, SameFlags
<1>4. Total(i, c) = Total(k, c) /\ Limit(i, j) = Limit(k, j)
  BY <1>1, <1>3 DEF Total, Limit
<1>5. Keeps(i, c, j, Total(k, c))
  BY <1>2, <1>4 DEF Keeps
<1>6. /\ i.st[j] \in Underway /\ (i.st[j] = "copying" => k.st[j] = "copying")
      /\ i.out[j] = Bytes(1, Len(i.out[j])) /\ Len(i.out[j]) <= Limit(i, j)
  BY <1>2, <1>4 DEF OutOK
<1>7. Alive(u, i, c, j)
  BY <1>4, <1>5, <1>6, KeepsGood
<1> QED
  BY <1>4, <1>7

LEMMA AdvancedGood ==
  ASSUME NEW u, NEW k, NEW c, NEW j, Alive(u, k, c, j), NEW i, i = Advanced(k, c)
  PROVE  /\ Alive(u, i, c, j) /\ DataOnly(k, i, c) /\ Total(i, c) = Total(k, c)
         /\ i.chn[c].blk_from = k.chn[c].blk_from + 1 /\ i.lines = k.lines /\ i.st = k.st
<1>1. /\ DataOnly(k, i, c) /\ i.chn[c].blk_from = k.chn[c].blk_from + 1
      /\ i.chn[c].dst = k.chn[c].dst /\ i.out = k.out /\ i.lines = k.lines /\ i.st = k.st
  BY AliveTypes, CopyIs
<1> QED
  BY <1>1, StillGood

LEMMA FilledGood ==
  ASSUME NEW u, NEW k, NEW c, NEW j, Alive(u, k, c, j), NEW i, i = Filled(k, c)
  PROVE  /\ Alive(u, i, c, j) /\ DataOnly(k, i, c) /\ Total(i, c) = Total(k, c)
         /\ i.chn[c].blk_from = k.chn[c].blk_from /\ i.lines = k.lines /\ i.st = k.st
<1>1. /\ DataOnly(k, i, c) /\ i.chn[c].blk_from = k.chn[c].blk_from
      /\ i.chn[c].dst = k.chn[c].dst /\ i.out = k.out /\ i.lines = k.lines /\ i.st = k.st
  BY AliveTypes, FilledIs
<1> QED
  BY <1>1, StillGood

\* A line was typed, at a stream.
Typed(k, j, n) == [k EXCEPT !.lines[j] = n]

LEMMA TypedGood ==
  ASSUME NEW u, NEW k, NEW c, NEW j, Alive(u, k, c, j), j \in Stream,
         NEW n \in Nat, n >= k.lines[j], NEW i, i = Typed(k, j, n)
  PROVE  /\ Alive(u, i, c, j) /\ DataOnly(k, i, c) /\ Total(i, c) = Total(k, c)
         /\ i.chn = k.chn /\ i.lines[j] = n /\ i.st = k.st
<1>1. /\ k \in IoRec /\ c \in Chn /\ j \in Client /\ j = k.chn[c].job
      /\ k.lines[j] \in Nat /\ Total(k, c) \in Nat /\ Len(k.out[j]) \in Nat
  BY AliveTypes
<1>2. /\ Keeps(k, c, j, Total(k, c)) /\ k.st[j] \in Underway /\ OutOK(k, j)
      /\ Total(k, c) <= Limit(k, j)
  BY AliveData
<1>3. /\ DataOnly(k, i, c) /\ i.chn = k.chn /\ i.out = k.out /\ i.lines[j] = n /\ i.st = k.st
  BY <1>1, TypedIs DEF Typed
<1>4. Total(i, c) = Total(k, c) /\ Limit(k, j) = k.lines[j] /\ Limit(i, j) = n
  BY <1>3 DEF Total, Limit
<1>5. \A m \in Nat : m <= Limit(k, j) => m <= Limit(i, j)
  BY <1>1, <1>4
<1>6. Keeps(i, c, j, Total(k, c))
  BY <1>1, <1>2, <1>3, <1>5 DEF Keeps
<1>7. /\ i.st[j] \in Underway /\ (i.st[j] = "copying" => k.st[j] = "copying")
      /\ i.out[j] = Bytes(1, Len(i.out[j])) /\ Len(i.out[j]) <= Limit(i, j)
  BY <1>1, <1>2, <1>3, <1>5 DEF OutOK
<1>8. Alive(u, i, c, j)
  BY <1>3, <1>4, <1>6, <1>7, KeepsGood
<1> QED
  BY <1>3, <1>4, <1>8

LEMMA VerdictGood ==
  ASSUME NEW u, NEW k, NEW c, NEW j, Alive(u, k, c, j),
         NEW err \in {"ENONE", "ENOIODATA", "ENOMEM"},
         err = "ENOIODATA" => j \notin Stream /\ Total(k, c) = SrcLen,
         NEW i, i = Verdict(k, c, err)
  PROVE  /\ Alive(u, i, c, j) /\ DataOnly(k, i, c) /\ Total(i, c) = Total(k, c)
         /\ i.chn = k.chn /\ i.lines = k.lines
         /\ i.st[j] = IF err = "ENONE" THEN k.st[j]
                      ELSE IF err = "ENOIODATA" THEN "idle" ELSE "failed"
<1>1. /\ k \in IoRec /\ c \in Chn /\ j \in Client /\ j = k.chn[c].job
  BY AliveTypes
<1>2. Keeps(k, c, j, Total(k, c)) /\ k.st[j] \in Underway /\ OutOK(k, j)
  BY AliveData
<1>3. /\ DataOnly(k, i, c) /\ i.chn = k.chn /\ i.out = k.out /\ i.lines = k.lines
      /\ i.st[j] = IF err = "ENONE" THEN k.st[j]
                   ELSE IF err = "ENOIODATA" THEN "idle" ELSE "failed"
  BY <1>1, VerdictIs
<1>4. Total(i, c) = Total(k, c) /\ Limit(i, j) = Limit(k, j)
  BY <1>1, <1>3 DEF Total, Limit
<1>5. i.st[j] \in Underway /\ (i.st[j] = "copying" => k.st[j] = "copying")
  BY <1>2, <1>3 DEF Underway
<1>6. Keeps(i, c, j, Total(k, c))
  <2>1. i.st[j] = "idle" => j \notin Stream /\ Total(k, c) = SrcLen
    BY <1>2, <1>3 DEF Keeps
  <2> QED
    BY <1>2, <1>3, <1>4, <2>1 DEF Keeps
<1>7. i.out[j] = Bytes(1, Len(i.out[j])) /\ Len(i.out[j]) <= Limit(i, j)
  BY <1>2, <1>3, <1>4 DEF OutOK
<1>8. Alive(u, i, c, j)
  BY <1>4, <1>5, <1>6, <1>7, <1>3, KeepsGood
<1> QED
  BY <1>3, <1>4, <1>8

-----------------------------------------------------------------------------
(* A channel changes lists.                                                  *)

\* Nothing but the links, the record of channel c and what the daemon counts.
ChnOnly(k, i, c) ==
  /\ i \in IoRec /\ i.live = k.live /\ i.table = k.table /\ i.refs = k.refs
  /\ i.out = k.out /\ i.lines = k.lines /\ i.st = k.st
  /\ \A d \in Chn \ {c} : i.chn[d] = k.chn[d]

\* Of the record only the flag active has changed.
SameButActive(k, i, c) ==
  /\ ChnOnly(k, i, c) /\ i.chn[c].job = k.chn[c].job /\ i.chn[c].blk_from = k.chn[c].blk_from
  /\ i.chn[c].dst = k.chn[c].dst
  /\ \A f : f # "active" => (Has(i, c, f) <=> Has(k, c, f))

WithFlags(k, c, s) == [k EXCEPT !.chn[c].flags = s]

LEMMA FlagsChange ==
  ASSUME NEW k \in IoRec, NEW c \in Chn, NEW s \in SUBSET (Settable \cup {"active"}),
         NEW i, i = WithFlags(k, c, s)
  PROVE  /\ ChnOnly(k, i, c) /\ i.chn[c].flags = s /\ i.chn[c].job = k.chn[c].job
         /\ i.chn[c].blk_from = k.chn[c].blk_from /\ i.chn[c].dst = k.chn[c].dst
         /\ i.next = k.next /\ i.prev = k.prev /\ i.first = k.first /\ i.last = k.last
<1>1. PICK r : r = [k.chn[c] EXCEPT !.flags = s]
  OBVIOUS
<1>2. PICK g : g = [k.chn EXCEPT ![c] = r]
  OBVIOUS
<1>3. k.chn[c] \in ChnRec
  BY IoFields
<1>4. /\ r \in ChnRec /\ r.flags = s /\ r.job = k.chn[c].job /\ r.blk_from = k.chn[c].blk_from
      /\ r.dst = k.chn[c].dst
  BY <1>1, <1>3 DEF ChnRec
<1>5. g \in [Chn -> ChnRec] /\ g[c] = r /\ \A d \in Chn \ {c} : g[d] = k.chn[d]
  BY <1>2, <1>4, IoFields
<1>6. i = [k EXCEPT !.chn = g]
  BY <1>1, <1>2 DEF WithFlags
<1>7. i \in IoRec
  BY <1>5, <1>6 DEF IoRec
<1>8. /\ i.next = k.next /\ i.prev = k.prev /\ i.first = k.first /\ i.last = k.last
      /\ i.live = k.live /\ i.refs = k.refs /\ i.table = k.table
      /\ i.chn = g /\ i.out = k.out /\ i.lines = k.lines /\ i.st = k.st
  BY <1>6 DEF IoRec
<1> QED
  BY <1>4, <1>5, <1>7, <1>8 DEF ChnOnly

\* The only channel goes from one list of the daemon to the other.
LEMMA SwitchIs ==
  ASSUME NEW k \in IoRec, NEW c, k.live = {c}, ListsOK("background", k),
         NEW x \in {"active", "inactive"}, NEW y \in {"active", "inactive"}, x # y,
         Alone(k, x, c), Alone(k, y, NULL),
         NEW m, m = DequeuePush(DequeueRemove(k, x, c), y, c)
  PROVE  /\ Relinks(k, m) /\ OnChain(m, "unused", Chn \ {c}) /\ m.next[c] = NULL
         /\ m.prev[c] = NULL /\ Alone(m, "used", c) /\ Alone(m, x, NULL) /\ Alone(m, y, c)
<1>1. c \in Chn /\ x \in Lists /\ y \in Lists /\ x # "unused" /\ y # "unused" /\ x # "used" /\ y # "used"
      /\ "used" \in Lists /\ NULL # c
  BY IoFields, ConstFacts DEF Lists
<1>2. Placed(k) /\ OnChain(k, "unused", Chn \ {c})
  BY DEF ListsOK
<1>3. k.next[c] = NULL /\ k.prev[c] = NULL /\ Alone(k, "used", c)
  BY <1>2 DEF Placed
<1>4. PICK i : i = DequeueRemove(k, x, c)
  OBVIOUS
<1>5. /\ Moves(k, i, x, c) /\ i.next[c] = NULL /\ i.prev[c] = NULL /\ Alone(i, x, NULL)
  BY <1>1, <1>3, <1>4, RemoveNear DEF Alone
<1>6. i \in IoRec /\ OnChain(i, "unused", Chn \ {c})
  BY <1>1, <1>2, <1>5, MovesChain DEF Moves, Relinks
<1>7. Alone(i, y, NULL) /\ Alone(i, "used", c)
  BY <1>1, <1>3, <1>5 DEF Moves, Elsewhere, Alone
<1>8. /\ Moves(i, m, y, c) /\ m.next[c] = NULL /\ m.prev[c] = NULL /\ Alone(m, y, c)
  BY <1>1, <1>4, <1>6, <1>7, PushNear DEF Alone
<1>9. OnChain(m, "unused", Chn \ {c})
  BY <1>1, <1>6, <1>8, MovesChain
<1>10. Alone(m, "used", c) /\ Alone(m, x, NULL)
  BY <1>1, <1>5, <1>7, <1>8 DEF Moves, Elsewhere, Alone
<1> QED
  BY <1>5, <1>8, <1>9, <1>10 DEF Moves, Relinks

LEMMA SwitchGood ==
  ASSUME NEW k, NEW c, NEW j, Alive("background", k, c, j), NEW i, SameButActive(k, i, c),
         OnChain(i, "unused", Chn \ {c}), Near(i, c), Placed(i),
         ~Has(i, c, "active") => k.st[j] # "copying"
  PROVE  Alive("background", i, c, j) /\ Total(i, c) = Total(k, c)
<1> DEFINE u == "background"
<1>1. /\ k \in IoRec /\ c \in Chn /\ j \in Client /\ k.chn[c].job = j /\ k.live = {c} /\ Base(u, k)
  BY AliveTypes DEF Alive
<1>2. ChnOK(u, k, c)
  BY AliveData
<1>3. /\ i \in IoRec /\ i.live = {c} /\ i.table = k.table /\ i.refs = k.refs
      /\ i.out = k.out /\ i.lines = k.lines /\ i.st = k.st
      /\ i.chn[c].job = j /\ i.chn[c].dst = k.chn[c].dst /\ i.chn[c].blk_from = k.chn[c].blk_from
      /\ \A f : f # "active" => (Has(i, c, f) <=> Has(k, c, f))
  BY <1>1 DEF SameButActive, ChnOnly
<1>4. Total(i, c) = Total(k, c) /\ \A m : Limit(i, m) = Limit(k, m)
  BY <1>1, <1>3 DEF Total, Limit
<1>5. ListsOK(u, i)
  BY <1>1, <1>3 DEF ListsOK
<1>6. RefsOK(u, i)
  BY <1>1, <1>3 DEF RefsOK, Base
<1>7. \A m \in Client : OutOK(i, m)
  BY <1>1, <1>3, <1>4 DEF OutOK, Base
<1>8. ChnOK(u, i, c)
  <2> HIDE DEF u
  <2>1. u # "immediate" /\ ~Has(k, c, "immediate") /\ ~Has(i, c, "immediate")
    BY <1>2, <1>3 DEF ChnOK, u
  <2>2. Has(i, c, "poll") \/ Has(i, c, "push") => j \in Stream
    BY <1>1, <1>2, <1>3 DEF ChnOK
  <2>3. /\ i.st[j] \in {"copying", "idle", "failed"}
        /\ i.out[j] \o i.chn[c].dst = Bytes(1, Total(i, c)) /\ Total(i, c) <= Limit(i, j)
        /\ i.st[j] = "idle" => j \notin Stream /\ Total(i, c) = SrcLen
    BY <1>1, <1>2, <1>3, <1>4 DEF ChnOK
  <2> QED
    BY <1>1, <1>3, <2>1, <2>2, <2>3 DEF ChnOK
<1> QED
  BY <1>3, <1>4, <1>5, <1>6, <1>7, <1>8 DEF Base, Alive

LEMMA SleepGood ==
  ASSUME NEW k, NEW c, NEW j, Alive("background", k, c, j), k.st[j] # "copying",
         NEW i, i = ChnSleep(k, c)
  PROVE  /\ Alive("background", i, c, j) /\ SameButActive(k, i, c) /\ ~Has(i, c, "active")
         /\ Total(i, c) = Total(k, c)
<1>1. CASE ~Has(k, c, "active")
  <2>1. i = k
    BY <1>1 DEF ChnSleep
  <2>2. SameButActive(k, k, c)
    BY AliveTypes DEF SameButActive, ChnOnly
  <2> QED
    BY <1>1, <2>1, <2>2
<1>2. CASE Has(k, c, "active")
  <2>1. /\ k \in IoRec /\ c \in Chn /\ k.live = {c} /\ ListsOK("background", k)
    BY AliveTypes DEF Alive, Base
  <2>2. Alone(k, "active", c) /\ Alone(k, "inactive", NULL)
    BY <1>2, <2>1 DEF ListsOK, Placed
  <2>3. PICK m : m = DequeuePush(DequeueRemove(k, "active", c), "inactive", c)
    OBVIOUS
  <2>4. /\ Relinks(k, m) /\ OnChain(m, "unused", Chn \ {c}) /\ m.next[c] = NULL
        /\ m.prev[c] = NULL /\ Alone(m, "used", c) /\ Alone(m, "active", NULL)
        /\ Alone(m, "inactive", c)
    BY <2>1, <2>2, <2>3, SwitchIs
  <2>5. PICK s : s = m.chn[c].flags \ {"active"}
    OBVIOUS
  <2>6. i = WithFlags(m, c, s)
    BY <1>2, <2>3, <2>5 DEF ChnSleep, WithFlags
  <2>7. m \in IoRec /\ s \in SUBSET (Settable \cup {"active"}) /\ m.chn = k.chn /\ m.live = {c}
    <3>1. m \in IoRec /\ m.chn = k.chn /\ m.live = {c}
      BY <2>1, <2>4 DEF Relinks
    <3>2. m.chn[c].flags \in SUBSET (Settable \cup {"active"})
      BY <2>1, <3>1, IoFields, ChnFields
    <3> QED
      BY <2>5, <3>1, <3>2
  <2>8. /\ ChnOnly(m, i, c) /\ i.chn[c].flags = s /\ i.chn[c].job = m.chn[c].job
        /\ i.chn[c].blk_from = m.chn[c].blk_from /\ i.chn[c].dst = m.chn[c].dst
        /\ i.next = m.next /\ i.prev = m.prev /\ i.first = m.first /\ i.last = m.last
    BY <2>1, <2>6, <2>7, FlagsChange
  <2>9. SameButActive(k, i, c) /\ ~Has(i, c, "active")
    BY <2>4, <2>5, <2>7, <2>8 DEF SameButActive, ChnOnly, Relinks, Has
  <2>10. OnChain(i, "unused", Chn \ {c}) /\ i.live = {c}
    BY <2>4, <2>7, <2>8 DEF OnChain, ChnOnly
  <2>11. Near(i, c) /\ Placed(i)
    BY <2>4, <2>8, <2>9, <2>10, ConstFacts DEF Near, Placed, Alone
  <2> QED
    BY <2>9, <2>10, <2>11, SwitchGood
<1> QED
  BY <1>1, <1>2

LEMMA WakeupGood ==
  ASSUME NEW k, NEW c, NEW j, Alive("background", k, c, j), NEW i, i = ChnWakeup(k, c)
  PROVE  /\ Alive("background", i, c, j) /\ SameButActive(k, i, c) /\ Has(i, c, "active")
         /\ Total(i, c) = Total(k, c)
<1>1. CASE Has(k, c, "active")
  <2>1. i = k
    BY <1>1 DEF ChnWakeup
  <2>2. SameButActive(k, k, c)
    BY AliveTypes DEF SameButActive, ChnOnly
  <2> QED
    BY <1>1, <2>1, <2>2
<1>2. CASE ~Has(k, c, "active")
  <2>1. /\ k \in IoRec /\ c \in Chn /\ k.live = {c} /\ ListsOK("background", k)
    BY AliveTypes DEF Alive, Base
  <2>2. Alone(k, "inactive", c) /\ Alone(k, "active", NULL)
    BY <1>2, <2>1 DEF ListsOK, Placed
  <2>3. PICK m : m = DequeuePush(DequeueRemove(k, "inactive", c), "active", c)
    OBVIOUS
  <2>4. /\ Relinks(k, m) /\ OnChain(m, "unused", Chn \ {c}) /\ m.next[c] = NULL
        /\ m.prev[c] = NULL /\ Alone(m, "used", c) /\ Alone(m, "inactive", NULL)
        /\ Alone(m, "active", c)
    BY <2>1, <2>2, <2>3, SwitchIs
  <2>5. PICK s : s = m.chn[c].flags \cup {"active"}
    OBVIOUS
  <2>6. i = WithFlags(m, c, s)
    BY <1>2, <2>3, <2>5 DEF ChnWakeup, WithFlags
  <2>7. m \in IoRec /\ s \in SUBSET (Settable \cup {"active"}) /\ m.chn = k.chn /\ m.live = {c}
    <3>1. m \in IoRec /\ m.chn = k.chn /\ m.live = {c}
      BY <2>1, <2>4 DEF Relinks
    <3>2. m.chn[c].flags \in SUBSET (Settable \cup {"active"})
      BY <2>1, <3>1, IoFields, ChnFields
    <3> QED
      BY <2>5, <3>1, <3>2
  <2>8. /\ ChnOnly(m, i, c) /\ i.chn[c].flags = s /\ i.chn[c].job = m.chn[c].job
        /\ i.chn[c].blk_from = m.chn[c].blk_from /\ i.chn[c].dst = m.chn[c].dst
        /\ i.next = m.next /\ i.prev = m.prev /\ i.first = m.first /\ i.last = m.last
    BY <2>1, <2>6, <2>7, FlagsChange
  <2>9. SameButActive(k, i, c) /\ Has(i, c, "active")
    BY <2>4, <2>5, <2>7, <2>8 DEF SameButActive, ChnOnly, Relinks, Has
  <2>10. OnChain(i, "unused", Chn \ {c}) /\ i.live = {c}
    BY <2>4, <2>7, <2>8 DEF OnChain, ChnOnly
  <2>11. Near(i, c) /\ Placed(i)
    BY <2>4, <2>8, <2>9, <2>10, ConstFacts DEF Near, Placed, Alone
  <2> QED
    BY <2>9, <2>10, <2>11, SwitchGood
<1> QED
  BY <1>1, <1>2

-----------------------------------------------------------------------------
(* A channel is removed.                                                     *)

LiveOnly(k, i, s) ==
  /\ i \in IoRec /\ i.live = s /\ i.chn = k.chn /\ i.table = k.table /\ i.refs = k.refs
  /\ i.out = k.out /\ i.lines = k.lines /\ i.st = k.st

LEMMA LiveChange ==
  ASSUME NEW k \in IoRec, NEW s \in SUBSET Chn, NEW i, i = [k EXCEPT !.live = s]
  PROVE  /\ LiveOnly(k, i, s) /\ i.next = k.next /\ i.prev = k.prev /\ i.first = k.first
         /\ i.last = k.last /\ i.polling = k.polling
<1>1. i \in IoRec
  BY DEF IoRec
<1>2. /\ i.next = k.next /\ i.prev = k.prev /\ i.first = k.first /\ i.last = k.last
      /\ i.live = s /\ i.refs = k.refs /\ i.table = k.table /\ i.polling = k.polling
      /\ i.chn = k.chn /\ i.out = k.out /\ i.lines = k.lines /\ i.st = k.st
  BY DEF IoRec
<1> QED
  BY <1>1, <1>2 DEF LiveOnly

LEMMA PollingChange ==
  ASSUME NEW k \in IoRec, NEW n \in Int, NEW i, i = [k EXCEPT !.polling = n]
  PROVE  /\ LiveOnly(k, i, k.live) /\ i.next = k.next /\ i.prev = k.prev /\ i.first = k.first
         /\ i.last = k.last
<1>1. i \in IoRec
  BY DEF IoRec
<1>2. /\ i.next = k.next /\ i.prev = k.prev /\ i.first = k.first /\ i.last = k.last
      /\ i.live = k.live /\ i.refs = k.refs /\ i.table = k.table
      /\ i.chn = k.chn /\ i.out = k.out /\ i.lines = k.lines /\ i.st = k.st
  BY DEF IoRec
<1> QED
  BY <1>1, <1>2 DEF LiveOnly

LEMMA PoolFreeIs ==
  ASSUME NEW k \in IoRec, NEW c \in Chn, OnChain(k, "unused", Chn \ {c}),
         k.next[c] = NULL, k.prev[c] \in {NULL, c}, NEW i, i = PoolFree(k, c)
  PROVE  /\ LiveOnly(k, i, k.live \ {c}) /\ OnChain(i, "unused", Chn) /\ i.next[c] = NULL
         /\ i.last["unused"] = c
         /\ i.first["active"] = k.first["active"] /\ i.last["active"] = k.last["active"]
         /\ i.first["inactive"] = k.first["inactive"] /\ i.last["inactive"] = k.last["inactive"]
         /\ i.first["used"] = (IF k.first["used"] = c THEN NULL ELSE k.first["used"])
         /\ i.last["used"] = IF k.last["used"] = c THEN k.prev[c] ELSE k.last["used"]
<1>0. "active" \in Lists /\ "inactive" \in Lists /\ "used" \in Lists /\ "unused" \in Lists
  BY DEF Lists
<1>1. PICK m : m = DequeueRemove(k, "used", c)
  OBVIOUS
<1>2. /\ Moves(k, m, "used", c)
      /\ m.first["used"] = (IF k.first["used"] = c THEN NULL ELSE k.first["used"])
      /\ m.last["used"] = IF k.last["used"] = c THEN k.prev[c] ELSE k.last["used"]
  BY <1>0, <1>1, RemoveNear
<1>3. m \in IoRec /\ OnChain(m, "unused", Chn \ {c}) /\ Relinks(k, m)
  BY <1>0, <1>2, MovesChain DEF Moves, Relinks
<1>4. PICK n : n = DequeuePush(m, "unused", c)
  OBVIOUS
<1>5. /\ Relinks(m, n) /\ OnChain(n, "unused", Chn) /\ n.next[c] = NULL /\ n.last["unused"] = c
      /\ \A l \in Lists \ {"unused"} : n.first[l] = m.first[l] /\ n.last[l] = m.last[l]
  BY <1>3, <1>4, PushFree
<1>6. PICK s : s = n.live \ {c}
  OBVIOUS
<1>7. n \in IoRec /\ s \in SUBSET Chn /\ s = k.live \ {c}
  BY <1>3, <1>5, <1>6, IoFields DEF Relinks
<1>8. i = [n EXCEPT !.live = s]
  BY <1>1, <1>4, <1>6 DEF PoolFree
<1>9. /\ LiveOnly(n, i, s) /\ i.next = n.next /\ i.prev = n.prev /\ i.first = n.first
      /\ i.last = n.last
  BY <1>7, <1>8, LiveChange
<1>10. LiveOnly(k, i, k.live \ {c})
  BY <1>3, <1>5, <1>7, <1>9 DEF LiveOnly, Relinks
<1>11. OnChain(i, "unused", Chn) /\ i.next[c] = NULL /\ i.last["unused"] = c
  BY <1>5, <1>9 DEF OnChain
<1>12. /\ i.first["active"] = k.first["active"] /\ i.last["active"] = k.last["active"]
       /\ i.first["inactive"] = k.first["inactive"] /\ i.last["inactive"] = k.last["inactive"]
       /\ i.first["used"] = m.first["used"] /\ i.last["used"] = m.last["used"]
  BY <1>0, <1>2, <1>5, <1>9 DEF Moves, Elsewhere
<1> QED
  BY <1>2, <1>10, <1>11, <1>12

\* The state of a job is set.
WithStatus(k, j, x) == [k EXCEPT !.st[j] = x]

LEMMA StatusChange ==
  ASSUME NEW k \in IoRec, NEW j \in Client, NEW x \in Status, NEW i, i = WithStatus(k, j, x)
  PROVE  /\ i \in IoRec /\ i.live = k.live /\ i.chn = k.chn /\ i.table = k.table
         /\ i.refs = k.refs /\ i.out = k.out /\ i.lines = k.lines
         /\ i.next = k.next /\ i.prev = k.prev /\ i.first = k.first /\ i.last = k.last
         /\ i.st[j] = x /\ \A m \in Client \ {j} : i.st[m] = k.st[m]
<1>1. PICK s : s = [k.st EXCEPT ![j] = x]
  OBVIOUS
<1>2. s \in [Client -> Status] /\ s[j] = x /\ \A m \in Client \ {j} : s[m] = k.st[m]
  BY <1>1, IoFields
<1>3. i = [k EXCEPT !.st = s]
  BY <1>1 DEF WithStatus
<1>4. i \in IoRec
  BY <1>2, <1>3 DEF IoRec
<1>5. /\ i.live = k.live /\ i.chn = k.chn /\ i.table = k.table
      /\ i.refs = k.refs /\ i.out = k.out /\ i.lines = k.lines
      /\ i.next = k.next /\ i.prev = k.prev /\ i.first = k.first /\ i.last = k.last /\ i.st = s
  BY <1>3 DEF IoRec
<1> QED
  BY <1>2, <1>4, <1>5

LEMMA DiscardGood ==
  ASSUME NEW u \in {"immediate", "background"}, NEW k, NEW c, NEW j, Alive(u, k, c, j),
         k.chn[c].dst = <<>>, k.st[j] # "copying",
         u = "background" => ~Has(k, c, "active") /\ k.refs = {},
         NEW i, i = Discard(k, c)
  PROVE  /\ Base(u, i) /\ i.live = {} /\ Others(k, i, j) /\ i.first["active"] \in {NULL, c}
         /\ u = "background" => i.first["active"] = NULL
<1>0. /\ "active" \in Lists /\ "inactive" \in Lists /\ "used" \in Lists /\ "unused" \in Lists
      /\ "inactive" # "unused"
  BY DEF Lists
<1>1. /\ k \in IoRec /\ c \in Chn /\ j \in Client /\ k.live = {c} /\ k.chn[c].job = j
      /\ ListsOK(u, k)
  BY AliveTypes DEF Alive, Base
<1>2. OnChain(k, "unused", Chn \ {c}) /\ Near(k, c)
  BY <1>1 DEF ListsOK, Near
<1>3. /\ k.next[c] = NULL /\ k.prev[c] \in {NULL, c}
      /\ \A l \in Lists \ {"unused"} : k.first[l] \in {NULL, c} /\ k.last[l] \in {NULL, c}
  BY <1>1, <1>2 DEF Near
<1>4. u = "background" => /\ k.prev[c] = NULL /\ Alone(k, "used", c)
                          /\ Alone(k, "active", NULL) /\ Alone(k, "inactive", c)
  BY <1>1 DEF ListsOK, Placed
<1>5. PICK p : p = IF Has(k, c, "poll") THEN [k EXCEPT !.polling = @ - 1] ELSE k
  OBVIOUS
<1>6. /\ LiveOnly(k, p, {c}) /\ p.next = k.next /\ p.prev = k.prev /\ p.first = k.first
      /\ p.last = k.last
  <2>1. CASE Has(k, c, "poll")
    <3>1. k.polling - 1 \in Int
      BY <1>1, IoFields
    <3>2. p = [k EXCEPT !.polling = k.polling - 1]
      BY <1>5, <2>1
    <3> QED
      BY <1>1, <3>1, <3>2, PollingChange, ZenonT(60)
  <2>2. CASE ~Has(k, c, "poll")
    BY <1>1, <1>5, <2>2 DEF LiveOnly
  <2> QED
    BY <2>1, <2>2
<1>7. p \in IoRec /\ OnChain(p, "unused", Chn \ {c}) /\ p.next[c] = NULL /\ p.prev[c] \in {NULL, c}
  BY <1>2, <1>3, <1>6 DEF LiveOnly, OnChain
<1>8. PICK m : m = DequeueRemove(p, "inactive", c)
  OBVIOUS
<1>9. /\ Moves(p, m, "inactive", c) /\ m.next[c] = NULL /\ m.prev[c] = k.prev[c]
      /\ m.first["inactive"] = (IF k.first["inactive"] = c THEN NULL ELSE k.first["inactive"])
      /\ m.last["inactive"] = IF k.last["inactive"] = c THEN k.prev[c] ELSE k.last["inactive"]
  BY <1>0, <1>1, <1>6, <1>7, <1>8, RemoveNear
<1>10. /\ m \in IoRec /\ OnChain(m, "unused", Chn \ {c}) /\ LiveOnly(k, m, {c})
       /\ m.first["active"] = k.first["active"] /\ m.last["active"] = k.last["active"]
       /\ m.first["used"] = k.first["used"] /\ m.last["used"] = k.last["used"]
  <2>1. OnChain(m, "unused", Chn \ {c})
    BY <1>0, <1>1, <1>7, <1>9, MovesChain
  <2> QED
    BY <1>0, <1>6, <1>9, <2>1 DEF Moves, Relinks, LiveOnly, Elsewhere
<1>11. PICK n : n = PoolFree(m, c)
  OBVIOUS
<1>12. /\ LiveOnly(m, n, {}) /\ OnChain(n, "unused", Chn) /\ n.next[c] = NULL
       /\ n.last["unused"] = c
       /\ n.first["active"] = k.first["active"] /\ n.last["active"] = k.last["active"]
       /\ n.first["inactive"] = m.first["inactive"] /\ n.last["inactive"] = m.last["inactive"]
       /\ n.first["used"] = (IF k.first["used"] = c THEN NULL ELSE k.first["used"])
       /\ n.last["used"] = IF k.last["used"] = c THEN k.prev[c] ELSE k.last["used"]
  <2>1. /\ m \in IoRec /\ OnChain(m, "unused", Chn \ {c}) /\ m.next[c] = NULL
        /\ m.live \ {c} = {} /\ m.prev[c] \in {NULL, c}
    BY <1>3, <1>9, <1>10 DEF LiveOnly
  <2>2. /\ LiveOnly(m, n, m.live \ {c}) /\ OnChain(n, "unused", Chn) /\ n.next[c] = NULL
        /\ n.last["unused"] = c
        /\ n.first["active"] = m.first["active"] /\ n.last["active"] = m.last["active"]
        /\ n.first["inactive"] = m.first["inactive"] /\ n.last["inactive"] = m.last["inactive"]
        /\ n.first["used"] = (IF m.first["used"] = c THEN NULL ELSE m.first["used"])
        /\ n.last["used"] = IF m.last["used"] = c THEN m.prev[c] ELSE m.last["used"]
    BY <1>1, <1>11, <2>1, PoolFreeIs
  <2> QED
    BY <1>9, <1>10, <2>1, <2>2
<1>13. PICK x : x = IF k.st[j] = "failed" THEN k.st[j] ELSE "done"
  OBVIOUS
<1>14. x \in Status
  BY <1>13 DEF Status
<1>15. n \in IoRec /\ n.chn = k.chn /\ n.live = {} /\ n.refs = k.refs /\ n.table = k.table
       /\ n.out = k.out /\ n.lines = k.lines /\ n.st = k.st
  BY <1>10, <1>12 DEF LiveOnly
<1>16. i = WithStatus(n, j, x)
  BY <1>1, <1>5, <1>8, <1>11, <1>13, <1>15 DEF Discard, WithStatus, IoRec
<1>17. /\ i \in IoRec /\ i.live = {} /\ i.chn = k.chn /\ i.table = k.table
       /\ i.refs = k.refs /\ i.out = k.out /\ i.lines = k.lines
       /\ i.next = n.next /\ i.prev = n.prev /\ i.first = n.first /\ i.last = n.last
       /\ i.st[j] = x /\ \A y \in Client \ {j} : i.st[y] = k.st[y]
  BY <1>1, <1>14, <1>15, <1>16, StatusChange
<1>18. Others(k, i, j)
  BY <1>17 DEF Others
<1>19. OnChain(i, "unused", Chn) /\ Chn \ i.live = Chn
  BY <1>12, <1>17 DEF OnChain
<1>20. i.next[c] = NULL /\ c = i.last["unused"]
  BY <1>12, <1>17
<1>21. \A l \in Lists \ {"unused"} : i.first[l] \in {NULL, c} /\ i.last[l] \in {NULL, c}
  <2>1. i.first["active"] \in {NULL, c} /\ i.last["active"] \in {NULL, c}
    BY <1>0, <1>3, <1>12, <1>17
  <2>2. i.first["inactive"] \in {NULL, c} /\ i.last["inactive"] \in {NULL, c}
    BY <1>0, <1>3, <1>9, <1>12, <1>17
  <2>3. i.first["used"] \in {NULL, c} /\ i.last["used"] \in {NULL, c}
    BY <1>0, <1>3, <1>12, <1>17
  <2> QED
    BY <2>1, <2>2, <2>3 DEF Lists
<1>22. u = "background" => \A l \in Lists \ {"unused"} : Alone(i, l, NULL)
  BY <1>4, <1>9, <1>12, <1>17 DEF Lists, Alone
<1>23. u = "immediate" => i.first["active"] = NULL \/ Has(i, i.first["active"], "immediate")
  <2>1. u = "immediate" => Has(k, c, "immediate")
    BY AliveData DEF ChnOK
  <2> QED
    BY <1>0, <1>17, <1>21, <2>1 DEF Has
<1>24. ListsOK(u, i)
  <2>1. Near(i, c)
    BY <1>17, <1>20, <1>21 DEF Near
  <2>2. u = "background" => Placed(i)
    BY <1>17, <1>22 DEF Placed
  <2> QED
    BY <1>1, <1>19, <1>23, <2>1, <2>2 DEF ListsOK
<1>25. RefsOK(u, i)
  BY <1>17 DEF RefsOK
<1>26. \A y \in Client : OutOK(i, y)
  <2> TAKE y \in Client
  <2>1. OutOK(k, y) /\ Limit(i, y) = Limit(k, y)
    BY <1>17 DEF Alive, Base, Limit
  <2>2. CASE y # j
    BY <1>17, <2>1, <2>2 DEF OutOK
  <2>3. CASE y = j
    <3>1. /\ Keeps(k, c, j, Total(k, c)) /\ k.st[j] \in Underway
      BY AliveData
    <3>2. Total(k, c) = Len(k.out[j])
      <4>1. Total(k, c) = Len(k.out[j]) + Len(<<>>) /\ Len(k.out[j]) \in Nat
        BY <1>1, AliveTypes DEF Total
      <4>2. Len(<<>>) = 0
        OBVIOUS
      <4> QED
        BY <4>1, <4>2
    <3>3. x = "done" => Len(k.out[j]) = Limit(k, j)
      BY <1>13, <3>1, <3>2 DEF Keeps, Underway, Limit
    <3> QED
      BY <1>17, <2>1, <2>3, <3>3 DEF OutOK
  <2> QED
    BY <2>2, <2>3
<1>27. Base(u, i)
  BY <1>17, <1>24, <1>25, <1>26 DEF Base
<1> QED
  BY <1>0, <1>17, <1>18, <1>21, <1>22, <1>27 DEF Alone

CloseIs(k, i, s) ==
  /\ i \in IoRec /\ i.chn = k.chn /\ i.live = k.live /\ i.out = k.out /\ i.lines = k.lines
  /\ i.st = k.st /\ i.refs = s
  /\ i.next = k.next /\ i.prev = k.prev /\ i.first = k.first /\ i.last = k.last

LEMMA CloseGood ==
  ASSUME NEW u, NEW k, NEW c, NEW j, Alive(u, k, c, j), NEW a, NEW e \in Ends,
         NEW i, i = CloseEnd(k, a, c, e)
  PROVE  Alive(u, i, c, j) /\ CloseIs(k, i, k.refs \ {<<j, e>>})
<1>0. /\ k \in IoRec /\ c \in Chn /\ j \in Client /\ k.chn[c].job = j /\ k.live = {c}
      /\ ListsOK(u, k) /\ RefsOK(u, k) /\ (\A m \in Client : OutOK(k, m)) /\ ChnOK(u, k, c)
  BY AliveTypes DEF Alive, Base
<1>1. PICK h : h = <<j, e>>
  OBVIOUS
<1>2. PICK s : s = k.refs \ {h}
  OBVIOUS
<1>3. PICK t : t = IF a = Iod THEN k.table \ {h} ELSE k.table
  OBVIOUS
<1>4. s \in SUBSET Handle /\ t \in SUBSET Handle /\ s \subseteq k.refs
      /\ (k.refs \subseteq k.table => s \subseteq t)
  BY <1>0, <1>2, <1>3, IoFields
<1>5. i = [k EXCEPT !.refs = s, !.table = t]
  BY <1>0, <1>1, <1>2, <1>3 DEF CloseEnd, IoRec
<1>6. i \in IoRec
  BY <1>0, <1>4, <1>5 DEF IoRec
<1>7. /\ i.live = k.live /\ i.chn = k.chn /\ i.table = t
      /\ i.refs = s /\ i.out = k.out /\ i.lines = k.lines /\ i.st = k.st
      /\ i.next = k.next /\ i.prev = k.prev /\ i.first = k.first /\ i.last = k.last
  BY <1>0, <1>5 DEF IoRec
<1>8. ListsOK(u, i)
  BY <1>0, <1>7 DEF ListsOK, OnChain, Near, Placed, Alone, Has
<1>9. RefsOK(u, i)
  BY <1>0, <1>4, <1>7 DEF RefsOK
<1>10. \A m \in Client : OutOK(i, m)
  BY <1>0, <1>7 DEF OutOK, Limit
<1>11. ChnOK(u, i, c)
  BY <1>0, <1>7 DEF ChnOK, Has, Total, Limit
<1>12. Alive(u, i, c, j)
  BY <1>0, <1>6, <1>7, <1>8, <1>9, <1>10, <1>11 DEF Alive, Base
<1> QED
  BY <1>1, <1>2, <1>6, <1>7, <1>12 DEF CloseIs

-----------------------------------------------------------------------------
(* What a step that goes on with channel c, of job j, comes to.              *)

Hand(u, a) == IF u = "immediate" THEN a \in Client ELSE a = Iod

Role(u, a, p) == IF u = "immediate" THEN a \in Client /\ p.pc \in {"src", "dst"}
                 ELSE a = Iod \/ p.pc \in {"close_to", "discard"}

Fine(u, k, r, c, j, a) ==
  /\ Good(u, r.io, r.loc) /\ r.loc \in LocRec /\ r.loc.pc # "start"
  /\ Others(k, r.io, j) /\ r.io.live \subseteq {c}
  /\ r.loc.pc \in Working => r.loc.ch = c /\ Role(u, a, r.loc)

\* The channel can go on.
Able(u, k, c, j) == Alive(u, k, c, j) /\ Sane(u, k, c) /\ Has(k, c, "active")

LEMMA AtIs ==
  ASSUME NEW pc \in Places, NEW c \in Chn \cup {NULL}, NEW p, p = At(pc, c)
  PROVE  p \in LocRec /\ p.pc = pc /\ p.ch = c
BY DEF At, LocRec

LEMMA FineFrom ==
  ASSUME NEW u, NEW k, NEW i, NEW r, NEW c, NEW j, NEW a, Others(k, i, j), Fine(u, i, r, c, j, a)
  PROVE  Fine(u, k, r, c, j, a)
BY OthersTwice DEF Fine

LEMMA AbleData ==
  ASSUME NEW u, NEW k, NEW c, NEW j, Able(u, k, c, j), NEW i, Alive(u, i, c, j), DataOnly(k, i, c),
         i.st[j] = k.st[j]
  PROVE  Able(u, i, c, j)
<1>1. c \in Chn /\ k.chn[c].job = j /\ i.chn[c].job = j
  BY AliveTypes DEF Able
<1>2. (\A f : Has(i, c, f) <=> Has(k, c, f)) /\ i.refs = k.refs
  BY <1>1, SameFlags
<1> QED
  BY <1>1, <1>2 DEF Able, Sane

LEMMA ReachPlain ==
  ASSUME NEW k, NEW i, NEW c, i.chn[c].job = k.chn[c].job, i.lines = k.lines
  PROVE  \A n : Reach(i, c, n) = Reach(k, c, n)
BY DEF Reach

LEMMA CopyFine ==
  ASSUME NEW u, NEW k, NEW c, NEW j, Able(u, k, c, j), CaughtUp(k, c), ~Has(k, c, "push"),
         NEW a, Hand(u, a)
  PROVE  Fine(u, k, Copy(k, c), c, j, a)
<1>1. PICK i : i = Advanced(k, c)
  OBVIOUS
<1>2. PICK p : p = At("src", c)
  OBVIOUS
<1>3. Copy(k, c) = [io |-> i, loc |-> p]
  BY <1>1, <1>2 DEF Copy, Advanced
<1>4. Alive(u, k, c, j) /\ c \in Chn /\ k.chn[c].blk_from \in Nat /\ k.chn[c].job = j
  BY AliveTypes DEF Able
<1>5. p \in LocRec /\ p.pc = "src" /\ p.ch = c
  BY <1>2, <1>4, AtIs DEF Places, Working
<1>6. /\ Alive(u, i, c, j) /\ DataOnly(k, i, c) /\ Total(i, c) = Total(k, c)
      /\ i.chn[c].blk_from = k.chn[c].blk_from + 1 /\ i.lines = k.lines /\ i.st = k.st
  BY <1>1, <1>4, AdvancedGood
<1>7. Able(u, i, c, j) /\ ~Has(i, c, "push") /\ Others(k, i, j) /\ i.chn[c].job = j
  BY <1>4, <1>6, AbleData, SameFlags DEF DataOnly
<1>8. i.chn[c].blk_from > 0 /\ i.chn[c].blk_from - 1 = k.chn[c].blk_from
  BY <1>4, <1>6
<1>9. Total(i, c) = Reach(i, c, i.chn[c].blk_from - 1)
  <2>1. Total(i, c) = Reach(k, c, k.chn[c].blk_from)
    BY <1>6 DEF CaughtUp
  <2>2. Reach(i, c, k.chn[c].blk_from) = Reach(k, c, k.chn[c].blk_from)
    BY <1>4, <1>6, <1>7, ReachPlain
  <2> QED
    BY <1>8, <2>1, <2>2
<1>10. i.live = {c} /\ Base(u, i)
  BY <1>6 DEF Alive
<1>11. AtWork(u, i, p, c)
  BY <1>5, <1>7, <1>8, <1>9, <1>10 DEF AtWork, Able
<1>12. Good(u, i, p)
  BY <1>5, <1>10, <1>11 DEF Good, Working
<1>13. Role(u, a, p)
  BY <1>5 DEF Role, Hand
<1> QED
  BY <1>3, <1>5, <1>7, <1>10, <1>12, <1>13 DEF Fine

\* Nobody has anything to do at channel c, or it is gone.
Quiet(u, k, c) == /\ Base(u, k) /\ k.live \subseteq {c}
                  /\ \A d \in k.live : CaughtUp(k, d) /\ Sane(u, k, d)

LEMMA OthersSelf ==
  ASSUME NEW k, NEW j
  PROVE  Others(k, k, j)
BY DEF Others

LEMMA QuietFine ==
  ASSUME NEW u, NEW k, NEW c, Quiet(u, k, c), NEW j, NEW a,
         NEW r, r.io = k, NEW pc \in Places \ (Working \cup {"start"}), NEW d \in Chn \cup {NULL},
         r.loc = At(pc, d)
  PROVE  Fine(u, k, r, c, j, a)
<1>1. r.loc \in LocRec /\ r.loc.pc = pc
  BY AtIs
<1> QED
  BY <1>1, OthersSelf DEF Fine, Quiet, Good

LEMMA RestFine ==
  ASSUME NEW u, NEW k, NEW c, Quiet(u, k, c), NEW j, NEW a
  PROVE  Fine(u, k, Rest(k), c, j, a) /\ Fine(u, k, Spin(k), c, j, a)
<1>1. "spin" \in Places \ (Working \cup {"start"}) /\ "asleep" \in Places \ (Working \cup {"start"})
  BY DEF Places, Working
<1>2. Rest(k).io = k /\ Spin(k).io = k /\ Spin(k).loc = At("spin", NULL)
  BY DEF Rest, Spin
<1>3. Rest(k).loc = At("spin", NULL) \/ Rest(k).loc = At("asleep", NULL)
  BY DEF Rest
<1>4. Fine(u, k, Rest(k), c, j, a)
  BY <1>1, <1>2, <1>3, QuietFine
<1> QED
  BY <1>1, <1>2, <1>4, QuietFine

LEMMA ServeFine ==
  ASSUME NEW k, NEW c, NEW j, Able("background", k, c, j), CaughtUp(k, c), NEW restart \in BOOLEAN
  PROVE  Fine("background", k, Serve(k, c, restart), c, j, Iod)
<1> DEFINE u == "background"
<1>1. Hand(u, Iod)
  BY DEF Hand
<1>2. CASE ~Has(k, c, "push")
  BY <1>1, <1>2, CopyFine DEF Serve
<1>3. CASE Has(k, c, "push")
  <2>1. PICK p : p = [At("push", c) EXCEPT !.restart = restart]
    OBVIOUS
  <2>2. c \in Chn /\ k.live = {c} /\ Base(u, k)
    BY AliveTypes DEF Able, Alive
  <2>3. p \in LocRec /\ p.pc = "push" /\ p.ch = c
    <3>1. p = [pc |-> "push", ch |-> c, data |-> <<>>, restart |-> restart]
      BY <2>1 DEF At
    <3> QED
      BY <2>2, <3>1 DEF LocRec, Places, Working
  <2>4. Serve(k, c, restart) = [io |-> k, loc |-> p]
    BY <1>3, <2>1 DEF Serve
  <2>5. Good(u, k, p)
    <3>1. AtWork(u, k, p, c)
      BY <1>3, <2>2, <2>3 DEF AtWork, Able
    <3> QED
      BY <2>2, <2>3, <3>1 DEF Good, Working
  <2>6. Role(u, Iod, p)
    BY DEF Role
  <2> QED
    BY <2>2, <2>3, <2>4, <2>5, <2>6, OthersSelf DEF Fine
<1> QED
  BY <1>2, <1>3

-----------------------------------------------------------------------------
(* The walk of iod_process_active.                                           *)

Plain(k, x) == x = NULL \/ ~Has(k, x, "immediate")

LEMMA FirstFound ==
  ASSUME NEW k, NEW x, Plain(k, x)
  PROVE  /\ Candidates(k, x) # {}
         /\ WalkFrom(k, x, NumChn + 1)[CHOOSE i \in Candidates(k, x) :
                                         \A l \in Candidates(k, x) : i <= l] = x
<1>1. NumChn + 1 \in Nat /\ 1 \in 1..NumChn + 1
  BY ConstFacts
<1>2. PICK w : w = WalkFrom(k, x, NumChn + 1)
  OBVIOUS
<1>3. w[1] = x
  BY <1>1, <1>2, WalkFromIsWalk DEF IsWalk
<1>4. PICK s : s = Candidates(k, x)
  OBVIOUS
<1>5. s = {i \in 1..NumChn + 1 : w[i] = NULL \/ ~Has(k, w[i], "immediate")}
  BY <1>2, <1>4 DEF Candidates
<1>6. 1 \in s /\ \A i \in s : i \in Nat /\ 1 <= i
  BY <1>1, <1>3, <1>5 DEF Plain
<1>7. \A i \in s : (\A l \in s : i <= l) => i = 1
  BY <1>6
<1>8. (CHOOSE i \in s : \A l \in s : i <= l) = 1
  BY <1>6, <1>7
<1> QED
  BY <1>2, <1>3, <1>4, <1>6, <1>8

LEMMA ProcessIs ==
  ASSUME NEW k, NEW x, Plain(k, x), NEW top, top = k.first["active"], Plain(k, top), NEW restart
  PROVE  ProcessFrom(k, x, restart) =
           IF x # NULL THEN Serve(k, x, restart)
           ELSE IF ~restart /\ k.polling = 0 THEN Rest(k)
           ELSE IF top # NULL THEN Serve(k, top, FALSE) ELSE Rest(k)
<1> DEFINE Found(y) == WalkFrom(k, y, NumChn + 1)[CHOOSE i \in Candidates(k, y) :
                                                    \A l \in Candidates(k, y) : i <= l]
<1>1. ProcessFrom(k, x, restart) =
        IF Candidates(k, x) = {} THEN Spin(k)
        ELSE IF Found(x) # NULL THEN Serve(k, Found(x), restart)
        ELSE IF ~restart /\ k.polling = 0 THEN Rest(k)
        ELSE IF Candidates(k, top) = {} THEN Spin(k)
        ELSE IF Found(top) # NULL THEN Serve(k, Found(top), FALSE)
        ELSE Rest(k)
  BY DEF ProcessFrom
<1>2. Candidates(k, x) # {} /\ Found(x) = x /\ Candidates(k, top) # {} /\ Found(top) = top
  BY FirstFound
<1> HIDE DEF Found
<1> QED
  BY <1>1, <1>2

\* A list of immediate channels is passed over.
LEMMA NoneFound ==
  ASSUME NEW k, NEW c, NEW x \in {NULL, c}, k.next[c] = NULL, Has(k, c, "immediate"),
         Candidates(k, x) # {}
  PROVE  WalkFrom(k, x, NumChn + 1)[CHOOSE i \in Candidates(k, x) :
                                      \A l \in Candidates(k, x) : i <= l] = NULL
<1>1. PICK w : w = WalkFrom(k, x, NumChn + 1)
  OBVIOUS
<1>2. w \in [1..NumChn + 1 -> {c} \cup {NULL}]
  <2>1. IsWalk(w, k.next, x, NumChn + 1) /\ NumChn + 1 \in Nat
    BY <1>1, ConstFacts, WalkFromIsWalk
  <2>2. x \in {c} \cup {NULL} /\ \A p \in {c} : k.next[p] \in {c} \cup {NULL}
    OBVIOUS
  <2> QED
    BY <2>1, <2>2, WalkStays
<1>3. \A i \in Candidates(k, x) : w[i] = NULL
  BY <1>1, <1>2 DEF Candidates
<1>4. PICK s : s = Candidates(k, x)
  OBVIOUS
<1>5. s \in SUBSET Nat /\ s # {}
  BY <1>4, ConstFacts DEF Candidates
<1>6. \E m \in s : \A l \in s : m <= l
  BY <1>5, NatLeast
<1>7. PICK m : m = CHOOSE i \in s : \A l \in s : i <= l
  OBVIOUS
<1>8. m \in s
  BY <1>6, <1>7
<1> QED
  BY <1>1, <1>3, <1>4, <1>7, <1>8

LEMMA PassedOver ==
  ASSUME NEW k, NEW c, NEW x \in {NULL, c}, NEW top \in {NULL, c}, top = k.first["active"],
         k.next[c] = NULL, Has(k, c, "immediate")
  PROVE  ProcessFrom(k, x, FALSE) \in {Rest(k), Spin(k)}
<1> DEFINE Found(y) == WalkFrom(k, y, NumChn + 1)[CHOOSE i \in Candidates(k, y) :
                                                    \A l \in Candidates(k, y) : i <= l]
<1>1. ProcessFrom(k, x, FALSE) =
        IF Candidates(k, x) = {} THEN Spin(k)
        ELSE IF Found(x) # NULL THEN Serve(k, Found(x), FALSE)
        ELSE IF ~FALSE /\ k.polling = 0 THEN Rest(k)
        ELSE IF Candidates(k, top) = {} THEN Spin(k)
        ELSE IF Found(top) # NULL THEN Serve(k, Found(top), FALSE)
        ELSE Rest(k)
  BY DEF ProcessFrom
<1>2. Candidates(k, x) # {} => Found(x) = NULL
  BY NoneFound
<1>3. Candidates(k, top) # {} => Found(top) = NULL
  BY NoneFound
<1> HIDE DEF Found
<1> QED
  BY <1>1, <1>2, <1>3

-----------------------------------------------------------------------------
(* The ends of a copy.                                                       *)

LEMMA CaughtUpSame ==
  ASSUME NEW k, NEW i, NEW c, i.chn[c].job = k.chn[c].job, i.lines = k.lines,
         i.chn[c].blk_from = k.chn[c].blk_from, Total(i, c) = Total(k, c),
         Has(i, c, "push") <=> Has(k, c, "push")
  PROVE  CaughtUp(i, c) <=> CaughtUp(k, c)
<1>1. \A n : Reach(i, c, n) = Reach(k, c, n)
  BY ReachPlain
<1> QED
  BY <1>1 DEF CaughtUp

LEMMA SwitchOthers ==
  ASSUME NEW k, NEW i, NEW c \in Chn, SameButActive(k, i, c), NEW j
  PROVE  Others(k, i, j)
BY DEF SameButActive, ChnOnly, Others

LEMMA KillFine ==
  ASSUME NEW k, NEW c, NEW j, Alive("background", k, c, j), ~Has(k, c, "active"),
         k.st[j] # "copying", NEW a
  PROVE  Fine("background", k, Kill(k, a, c), c, j, a)
<1> DEFINE u == "background"
<1>1. /\ k \in IoRec /\ c \in Chn /\ j \in Client /\ k.chn[c].job = j /\ k.live = {c} /\ Base(u, k)
  BY AliveTypes DEF Alive
<1>2. ~Has(k, c, "immediate")
  BY AliveData DEF ChnOK
<1>3. PICK f : f = FreeDstbuf(k, c)
  OBVIOUS
<1>4. PICK i : i = CloseEnd(f, a, c, "from")
  OBVIOUS
<1>5. PICK p : p = At("close_to", c)
  OBVIOUS
<1>6. Kill(k, a, c) = [io |-> i, loc |-> p]
  BY <1>2, <1>3, <1>4, <1>5 DEF Kill
<1>7. /\ Alive(u, f, c, j) /\ DataOnly(k, f, c) /\ f.chn[c].dst = <<>>
  BY <1>3, FlushGood
<1>8. (\A x : Has(f, c, x) <=> Has(k, c, x)) /\ f.refs = k.refs
  BY <1>1, <1>7, SameFlags
<1>9. Alive(u, i, c, j) /\ CloseIs(f, i, f.refs \ {<<j, "from">>})
  BY <1>4, <1>7, CloseGood DEF Ends
<1>10. i.chn = f.chn /\ i.live = {c} /\ i.refs = k.refs \ {<<j, "from">>} /\ i.chn[c].job = j
  BY <1>8, <1>9, AliveTypes DEF CloseIs, Alive
<1>11. i.refs \subseteq {<<j, "to">>}
  <2>1. k.refs \subseteq {<<j, "from">>, <<j, "to">>}
    BY <1>1 DEF Base, RefsOK, Ends
  <2> QED
    BY <1>10, <2>1
<1>12. ~Has(i, c, "active") /\ i.chn[c].dst = <<>>
  BY <1>7, <1>8, <1>10 DEF Has
<1>13. p \in LocRec /\ p.pc = "close_to" /\ p.ch = c
  BY <1>1, <1>5, AtIs DEF Places, Working
<1>14. AtWork(u, i, p, c)
  BY <1>10, <1>11, <1>12, <1>13 DEF AtWork
<1>15. Good(u, i, p)
  BY <1>9, <1>13, <1>14 DEF Good, Working, Alive
<1>16. Others(k, i, j)
  BY <1>1, <1>7, <1>9 DEF DataOnly, Others, CloseIs
<1>17. Role(u, a, p)
  BY <1>13 DEF Role
<1> HIDE DEF u
<1> QED
  BY <1>6, <1>10, <1>13, <1>15, <1>16, <1>17 DEF Fine, u

LEMMA KillImmediate ==
  ASSUME NEW k, NEW c, NEW j, Alive("immediate", k, c, j), k.st[j] # "copying", NEW a
  PROVE  Fine("immediate", k, Kill(k, a, c), c, j, a)
<1>1. /\ c \in Chn /\ j \in Client /\ k.chn[c].job = j
  BY AliveTypes
<1>2. Has(k, c, "immediate")
  BY AliveData DEF ChnOK
<1>3. PICK f : f = FreeDstbuf(k, c)
  OBVIOUS
<1>4. PICK i : i = Discard(f, c)
  OBVIOUS
<1>5. PICK r : r = [io |-> i, loc |-> At("end", NULL)]
  OBVIOUS
<1>6. Kill(k, a, c) = r
  BY <1>2, <1>3, <1>4, <1>5 DEF Kill
<1>7. /\ Alive("immediate", f, c, j) /\ DataOnly(k, f, c) /\ f.chn[c].dst = <<>> /\ f.st = k.st
  BY <1>3, FlushGood
<1>8. Base("immediate", i) /\ i.live = {} /\ Others(f, i, j)
  BY <1>4, <1>7, DiscardGood
<1>9. Quiet("immediate", i, c)
  BY <1>8 DEF Quiet
<1>10. Fine("immediate", i, r, c, j, a)
  <2>1. "end" \in Places \ (Working \cup {"start"}) /\ NULL \in Chn \cup {NULL}
    BY DEF Places, Working
  <2>2. r.io = i /\ r.loc = At("end", NULL)
    BY <1>5
  <2> QED
    BY <1>9, <2>1, <2>2, QuietFine
<1>11. Others(k, i, j)
  BY <1>1, <1>7, <1>8, OthersTwice DEF DataOnly
<1> QED
  BY <1>6, <1>10, <1>11, FineFrom

\* What iod_copy_buf returned, and what it has done until then.
Copied(k, c, j, err) ==
  /\ err \in {"ENONE", "ENOIODATA", "ENOMEM"}
  /\ err # "ENOMEM" => CaughtUp(k, c)
  /\ err = "ENOIODATA" => j \notin Stream /\ Total(k, c) = SrcLen

LEMMA VerdictFine ==
  ASSUME NEW u, NEW k, NEW c, NEW j, Able(u, k, c, j), NEW err, Copied(k, c, j, err),
         NEW i, i = Verdict(k, c, err)
  PROVE  /\ Alive(u, i, c, j) /\ Others(k, i, j) /\ i.refs = k.refs
         /\ \A f : Has(i, c, f) <=> Has(k, c, f)
         /\ err # "ENOMEM" => CaughtUp(i, c)
         /\ err = "ENONE" => Able(u, i, c, j)
         /\ err = "ENOIODATA" => i.st[j] = "idle"
         /\ err = "ENOMEM" => i.st[j] = "failed"
<1>1. Alive(u, k, c, j) /\ c \in Chn /\ k.chn[c].job = j
  BY AliveTypes DEF Able
<1>2. /\ err \in {"ENONE", "ENOIODATA", "ENOMEM"}
      /\ err = "ENOIODATA" => j \notin Stream /\ Total(k, c) = SrcLen
  BY DEF Copied
<1>3. /\ Alive(u, i, c, j) /\ DataOnly(k, i, c) /\ Total(i, c) = Total(k, c)
      /\ i.chn = k.chn /\ i.lines = k.lines
      /\ i.st[j] = IF err = "ENONE" THEN k.st[j]
                   ELSE IF err = "ENOIODATA" THEN "idle" ELSE "failed"
  BY <1>1, <1>2, VerdictGood
<1>4. (\A f : Has(i, c, f) <=> Has(k, c, f)) /\ i.refs = k.refs /\ Others(k, i, j)
  BY <1>1, <1>3, SameFlags DEF DataOnly
<1>5. err # "ENOMEM" => CaughtUp(i, c)
  BY <1>3, <1>4, CaughtUpSame DEF Copied
<1>6. err = "ENONE" => Able(u, i, c, j)
  BY <1>3, AbleData
<1> QED
  BY <1>3, <1>4, <1>5, <1>6

LEMMA PlainTop ==
  ASSUME NEW k, NEW c, NEW j, Alive("background", k, c, j)
  PROVE  /\ k.next[c] = NULL /\ Plain(k, NULL) /\ Plain(k, c) /\ c # NULL
         /\ k.first["active"] = (IF Has(k, c, "active") THEN c ELSE NULL)
         /\ Plain(k, k.first["active"])
<1>1. ListsOK("background", k) /\ k.live = {c} /\ c \in Chn
  BY AliveTypes DEF Alive, Base
<1>2. Placed(k)
  BY <1>1 DEF ListsOK
<1>3. ~Has(k, c, "immediate")
  BY AliveFlags
<1> QED
  BY <1>1, <1>2, <1>3, ConstFacts DEF Placed, Alone, Plain

LEMMA BackgroundFine ==
  ASSUME NEW k, NEW c, NEW j, Able("background", k, c, j), NEW err, Copied(k, c, j, err),
         NEW i, i = Verdict(k, c, err)
  PROVE  Fine("background", k, Background(i, c, err), c, j, Iod)
<1> DEFINE u == "background"
<1>1. /\ Alive(u, i, c, j) /\ Others(k, i, j) /\ i.refs = k.refs
      /\ \A f : Has(i, c, f) <=> Has(k, c, f)
      /\ err # "ENOMEM" => CaughtUp(i, c)
      /\ err = "ENONE" => Able(u, i, c, j)
      /\ err = "ENOIODATA" => i.st[j] = "idle"
      /\ err = "ENOMEM" => i.st[j] = "failed"
  BY VerdictFine
<1>2. c \in Chn /\ i.chn[c].job = j /\ k.chn[c].job = j
  BY <1>1, AliveTypes DEF Able
<1>3. SUFFICES Fine(u, i, Background(i, c, err), c, j, Iod)
  BY <1>1, FineFrom
<1>4. CASE err = "ENONE"
  <2>1. Background(i, c, err) = ProcessFrom(i, i.next[c], TRUE)
    BY <1>4 DEF Background
  <2>2. Has(i, c, "active") /\ CaughtUp(i, c) /\ Able(u, i, c, j)
    BY <1>1, <1>4 DEF Able
  <2>3. /\ i.next[c] = NULL /\ Plain(i, NULL) /\ c # NULL
        /\ i.first["active"] = c /\ Plain(i, i.first["active"])
    BY <1>1, <2>2, PlainTop
  <2>4. ProcessFrom(i, NULL, TRUE) = Serve(i, c, FALSE)
    BY <2>3, ProcessIs
  <2> QED
    BY <2>1, <2>2, <2>3, <2>4, ServeFine
<1>5. CASE err = "ENOIODATA"
  <2>1. ~Has(i, c, "poll")
    <3>1. j \notin Stream
      BY <1>5 DEF Copied
    <3> QED
      BY <1>1, <3>1, AliveFlags
  <2>2. PICK s : s = ChnSleep(i, c)
    OBVIOUS
  <2>3. /\ Alive(u, s, c, j) /\ SameButActive(i, s, c) /\ ~Has(s, c, "active")
        /\ Total(s, c) = Total(i, c)
    BY <1>1, <1>5, <2>2, SleepGood
  <2>4. Others(i, s, j) /\ s.st = i.st /\ s.refs = i.refs /\ s.lines = i.lines /\ s.live = {c}
    BY <1>2, <2>3, SwitchOthers DEF SameButActive, ChnOnly, Alive
  <2>5. CASE Has(i, c, "autoclose")
    <3>1. Background(i, c, err) = Kill(s, Iod, c)
      BY <1>5, <2>1, <2>2, <2>5 DEF Background
    <3>2. Fine(u, s, Kill(s, Iod, c), c, j, Iod)
      BY <1>1, <1>5, <2>3, <2>4, KillFine
    <3> QED
      BY <2>4, <3>1, <3>2, FineFrom
  <2>6. CASE ~Has(i, c, "autoclose")
    <3>1. Background(i, c, err) = ProcessFrom(s, s.first["active"], TRUE)
      BY <1>5, <2>1, <2>2, <2>6 DEF Background, Restart
    <3>2. s.first["active"] = NULL /\ Plain(s, NULL)
      BY <2>3, PlainTop
    <3>3. ProcessFrom(s, NULL, TRUE) = Rest(s)
      BY <3>2, ProcessIs
    <3>4. CaughtUp(s, c)
      <4>1. Has(s, c, "push") <=> Has(i, c, "push")
        BY <2>3 DEF SameButActive
      <4> QED
        BY <1>1, <1>5, <2>3, <2>4, <4>1, CaughtUpSame DEF SameButActive
    <3>5. Sane(u, s, c)
      BY <1>1, <1>2, <1>5, <2>3, <2>4 DEF Sane, Able, SameButActive
    <3>6. Quiet(u, s, c)
      BY <2>3, <2>4, <3>4, <3>5 DEF Quiet, Alive
    <3> QED
      BY <2>4, <3>1, <3>2, <3>3, <3>6, RestFine, FineFrom
  <2> QED
    BY <2>5, <2>6
<1>6. CASE err = "ENOMEM"
  <2>1. PICK s : s = ChnSleep(i, c)
    OBVIOUS
  <2>2. Background(i, c, err) = Kill(s, Iod, c)
    BY <1>6, <2>1 DEF Background
  <2>3. /\ Alive(u, s, c, j) /\ SameButActive(i, s, c) /\ ~Has(s, c, "active")
    BY <1>1, <1>6, <2>1, SleepGood
  <2>4. Others(i, s, j) /\ s.st = i.st
    BY <1>2, <2>3, SwitchOthers DEF SameButActive, ChnOnly
  <2>5. Fine(u, s, Kill(s, Iod, c), c, j, Iod)
    BY <1>1, <1>6, <2>3, <2>4, KillFine
  <2> QED
    BY <2>2, <2>4, <2>5, FineFrom
<1> QED
  BY <1>4, <1>5, <1>6 DEF Copied

LEMMA ImmediateFine ==
  ASSUME NEW k, NEW c, NEW j, Able("immediate", k, c, j), NEW err, Copied(k, c, j, err),
         ~Has(k, c, "push"), NEW a \in Client, NEW i, i = Verdict(k, c, err)
  PROVE  Fine("immediate", k, Immediate(i, a, c, err), c, j, a)
<1> DEFINE u == "immediate"
<1>1. /\ Alive(u, i, c, j) /\ Others(k, i, j)
      /\ \A f : Has(i, c, f) <=> Has(k, c, f)
      /\ err # "ENOMEM" => CaughtUp(i, c)
      /\ err = "ENONE" => Able(u, i, c, j)
      /\ err = "ENOIODATA" => i.st[j] = "idle"
      /\ err = "ENOMEM" => i.st[j] = "failed"
  BY VerdictFine
<1>2. Has(i, c, "autoclose") /\ Hand(u, a)
  BY <1>1, AliveData DEF ChnOK, Hand
<1>3. CASE err = "ENONE"
  <2>1. Immediate(i, a, c, err) = Copy(i, c)
    BY <1>3 DEF Immediate
  <2>2. Fine(u, i, Copy(i, c), c, j, a)
    BY <1>1, <1>2, <1>3, CopyFine
  <2> QED
    BY <1>1, <2>1, <2>2, FineFrom
<1>4. CASE err # "ENONE"
  <2>1. Immediate(i, a, c, err) = Kill(i, a, c)
    BY <1>2, <1>4 DEF Immediate
  <2>2. i.st[j] # "copying"
    BY <1>1, <1>4 DEF Copied
  <2>3. Fine(u, i, Kill(i, a, c), c, j, a)
    BY <1>1, <2>2, KillImmediate
  <2> QED
    BY <1>1, <2>1, <2>3, FineFrom
<1> QED
  BY <1>3, <1>4

LEMMA ReturnFine ==
  ASSUME NEW u \in {"immediate", "background"}, NEW k, NEW c, NEW j, Able(u, k, c, j),
         ~Has(k, c, "push"), NEW err, Copied(k, c, j, err), NEW a, Hand(u, a)
  PROVE  Fine(u, k, Return(k, a, c, err), c, j, a)
<1>1. PICK i : i = Verdict(k, c, err)
  OBVIOUS
<1>2. CASE u = "background"
  <2>1. a = Iod /\ Return(k, a, c, err) = Background(i, c, err)
    BY <1>1, <1>2 DEF Hand, Return
  <2> QED
    BY <1>1, <1>2, <2>1, BackgroundFine
<1>3. CASE u = "immediate"
  <2>1. a \in Client /\ Return(k, a, c, err) = Immediate(i, a, c, err)
    BY <1>1, <1>3, ConstFacts DEF Hand, Return
  <2> QED
    BY <1>1, <1>3, <2>1, ImmediateFine
<1> QED
  BY <1>2, <1>3

-----------------------------------------------------------------------------
(* The copy loop.                                                            *)

LEMMA ProductNat ==
  ASSUME NEW m \in Nat, NEW n \in Nat
  PROVE  m * n \in Nat
OBVIOUS

LEMMA ReachIs ==
  ASSUME NEW u, NEW k, NEW c, NEW j, Alive(u, k, c, j), NEW n \in Nat
  PROVE  Reach(k, c, n) \in Nat /\ Reach(k, c, n) <= Limit(k, j)
<1>1. k.chn[c].job = j /\ k.lines[j] \in Nat /\ SrcLen \in Nat /\ n * SrcBlk \in Nat
  BY AliveTypes, ConstFacts, ProductNat
<1>2. CASE j \in Stream
  BY <1>1, <1>2 DEF Reach, Limit
<1>3. CASE j \notin Stream
  <2>1. PICK m : m = n * SrcBlk
    OBVIOUS
  <2>2. Least(m, SrcLen) \in Nat /\ Least(m, SrcLen) <= SrcLen
    BY <1>1, <2>1, LeastIs
  <2> QED
    BY <1>1, <1>3, <2>1, <2>2 DEF Reach, Limit
<1> QED
  BY <1>2, <1>3

\* data is what is left to copy of the blocks the channel has asked for.
Left(k, c, data) ==
  /\ Total(k, c) <= Reach(k, c, k.chn[c].blk_from)
  /\ data = Bytes(Total(k, c) + 1, Reach(k, c, k.chn[c].blk_from))

\* As much as there is place for.
Cut(t, z, data, rest, n) == t <= z /\ data = Bytes(t + 1, z) /\ n = Least(Len(data), rest)

LEMMA CutIs ==
  ASSUME NEW t \in Nat, NEW z \in Nat, NEW data, NEW rest \in Nat, NEW n, Cut(t, z, data, rest, n)
  PROVE  /\ n \in Nat /\ n <= rest /\ t + n <= z /\ t + n \in Nat
         /\ SubSeq(data, 1, n) = Bytes(t + 1, t + n)
         /\ SubSeq(data, n + 1, Len(data)) = Bytes((t + n) + 1, z)
         /\ ~(n < Len(data)) => t + n = z
<1>1. Len(data) = z - t /\ z - t \in Nat
  BY BytesIs DEF Cut
<1>2. n \in Nat /\ n <= rest /\ n <= z - t /\ (~(n < z - t) => n = z - t)
  BY <1>1 DEF Least, Cut
<1>3. SubSeq(data, 1, n) = Bytes(t + 1, t + n) /\ SubSeq(data, n + 1, Len(data)) = Bytes((t + n) + 1, z)
  <2>1. Splits(data, t, z, n)
    BY <1>2 DEF Cut, Splits
  <2> QED
    BY <1>2, <2>1, BytesCut
<1>4. t + n <= z /\ t + n \in Nat /\ (n = z - t => t + n = z)
  BY <1>2
<1> QED
  BY <1>1, <1>2, <1>3, <1>4

LEMMA PourFine ==
  ASSUME NEW u \in {"immediate", "background"}, NEW k, NEW c, NEW j, Able(u, k, c, j),
         ~Has(k, c, "push"), NEW data, Left(k, c, data), NEW a, Hand(u, a)
  PROVE  Fine(u, k, Pour(k, a, c, data), c, j, a)
<1>1. Alive(u, k, c, j)
  BY DEF Able
<1>2. /\ k.chn[c].job = j /\ k.chn[c].blk_from \in Nat /\ k.chn[c].rest \in Nat
      /\ Total(k, c) \in Nat /\ c \in Chn
  BY <1>1, AliveTypes
<1>3. PICK t : t = Total(k, c)
  OBVIOUS
<1>4. PICK z : z = Reach(k, c, k.chn[c].blk_from)
  OBVIOUS
<1>5. t \in Nat /\ z \in Nat /\ t <= z /\ data = Bytes(t + 1, z) /\ z <= Limit(k, j)
  BY <1>1, <1>2, <1>3, <1>4, ReachIs DEF Left
<1>6. PICK n : n = Least(Len(data), k.chn[c].rest)
  OBVIOUS
<1>7. PICK d : d = SubSeq(data, 1, n)
  OBVIOUS
<1>8. PICK e : e = SubSeq(data, n + 1, Len(data))
  OBVIOUS
<1>9. /\ n \in Nat /\ n <= k.chn[c].rest /\ t + n <= z /\ t + n \in Nat
      /\ d = Bytes(t + 1, t + n) /\ e = Bytes((t + n) + 1, z)
      /\ ~(n < Len(data)) => t + n = z
  <2>1. Cut(t, z, data, k.chn[c].rest, n)
    BY <1>5, <1>6 DEF Cut
  <2>2. \A x \in Nat : Cut(t, z, data, x, n) =>
          /\ n \in Nat /\ n <= x /\ t + n <= z /\ t + n \in Nat
          /\ SubSeq(data, 1, n) = Bytes(t + 1, t + n)
          /\ SubSeq(data, n + 1, Len(data)) = Bytes((t + n) + 1, z)
          /\ ~(n < Len(data)) => t + n = z
    <3>1. t \in Nat /\ z \in Nat
      BY <1>5
    <3> QED
      BY <3>1, CutIs
  <2> QED
    BY <1>2, <1>7, <1>8, <2>1, <2>2
<1>10. PICK i : i = Poured(k, c, d, n)
  OBVIOUS
<1>11. Pours(k, c, j, t, n, d)
  <2>1. Limit(k, j) \in Nat
    BY <1>1, AliveTypes
  <2>2. t + n <= Limit(k, j)
    BY <1>5, <1>9, <2>1
  <2> QED
    BY <1>3, <1>9, <2>2 DEF Pours, Fits, IsPart
<1>12. /\ Alive(u, i, c, j) /\ DataOnly(k, i, c) /\ Total(i, c) = t + n
       /\ i.chn[c].blk_from = k.chn[c].blk_from /\ i.lines = k.lines /\ i.st = k.st
  BY <1>1, <1>5, <1>9, <1>10, <1>11, PouredGood
<1>13. PICK f : f = IF k.chn[c].rest = n THEN FreeDstbuf(i, c) ELSE i
  OBVIOUS
<1>14. /\ Alive(u, f, c, j) /\ DataOnly(k, f, c) /\ Total(f, c) = t + n
       /\ f.chn[c].blk_from = k.chn[c].blk_from /\ f.lines = k.lines /\ f.st = k.st
  <2>1. CASE k.chn[c].rest = n
    <3>1. f = FreeDstbuf(i, c)
      BY <1>13, <2>1
    <3>2. /\ Alive(u, f, c, j) /\ DataOnly(i, f, c) /\ Total(f, c) = Total(i, c)
          /\ f.chn[c].blk_from = i.chn[c].blk_from /\ f.lines = i.lines /\ f.st = i.st
      BY <1>12, <3>1, FlushGood
    <3>3. DataOnly(k, f, c)
      BY <1>2, <1>12, <3>2, DataTwice
    <3> QED
      BY <1>12, <3>2, <3>3
  <2>2. CASE k.chn[c].rest # n
    BY <1>12, <1>13, <2>2
  <2> QED
    BY <2>1, <2>2
<1>15. Able(u, f, c, j) /\ ~Has(f, c, "push") /\ Others(k, f, j) /\ f.chn[c].job = j
  BY <1>2, <1>14, AbleData, SameFlags DEF DataOnly
<1>16. Reach(f, c, f.chn[c].blk_from) = z
  <2>1. Reach(f, c, k.chn[c].blk_from) = Reach(k, c, k.chn[c].blk_from)
    BY <1>2, <1>14, <1>15, ReachPlain
  <2> QED
    BY <1>4, <1>14, <2>1
<1>17. CASE n < Len(data)
  <2>1. PICK p : p = [At("dst", c) EXCEPT !.data = e]
    OBVIOUS
  <2>2. p = [pc |-> "dst", ch |-> c, data |-> e, restart |-> FALSE]
    BY <2>1 DEF At
  <2>3. e \in Seq(Nat)
    BY <1>5, <1>9, BytesIs
  <2>4. p \in LocRec /\ p.pc = "dst" /\ p.ch = c /\ p.data = e
    BY <1>2, <2>2, <2>3 DEF LocRec, Places, Working
  <2>5. Pour(k, a, c, data) = [io |-> f, loc |-> p]
    BY <1>6, <1>7, <1>8, <1>10, <1>13, <1>17, <2>1 DEF Pour, Poured
  <2>6. Total(f, c) <= Reach(f, c, f.chn[c].blk_from)
    BY <1>9, <1>14, <1>16
  <2>7. p.data = Bytes(Total(f, c) + 1, Reach(f, c, f.chn[c].blk_from))
    BY <1>9, <1>14, <1>16, <2>4
  <2>8. f.live = {c} /\ Base(u, f)
    BY <1>14 DEF Alive
  <2>9. AtWork(u, f, p, c)
    BY <1>15, <2>4, <2>6, <2>7, <2>8 DEF AtWork, Able
  <2>10. Good(u, f, p)
    BY <2>4, <2>8, <2>9 DEF Good, Working
  <2>11. Role(u, a, p)
    BY <2>4 DEF Role, Hand
  <2> QED
    BY <1>15, <2>4, <2>5, <2>8, <2>10, <2>11 DEF Fine
<1>18. CASE ~(n < Len(data))
  <2>1. Pour(k, a, c, data) = Return(f, a, c, "ENONE")
    BY <1>6, <1>7, <1>8, <1>10, <1>13, <1>18 DEF Pour, Poured
  <2>2. CaughtUp(f, c)
    BY <1>9, <1>14, <1>16, <1>18 DEF CaughtUp
  <2>3. Copied(f, c, j, "ENONE")
    BY <2>2 DEF Copied
  <2>4. Fine(u, f, Return(f, a, c, "ENONE"), c, j, a)
    BY <1>15, <2>3, ReturnFine
  <2> QED
    BY <1>15, <2>1, <2>4, FineFrom
<1> QED
  BY <1>17, <1>18

-----------------------------------------------------------------------------
(* A channel is created.                                                     *)

WithRec(k, c, r, n) == [k EXCEPT !.chn[c] = r, !.polling = n]

LEMMA RecChange ==
  ASSUME NEW k \in IoRec, NEW c \in Chn, NEW r \in ChnRec, NEW n \in Int, NEW i,
         i = WithRec(k, c, r, n)
  PROVE  /\ ChnOnly(k, i, c) /\ i.chn[c] = r
         /\ i.next = k.next /\ i.prev = k.prev /\ i.first = k.first /\ i.last = k.last
<1>1. PICK g : g = [k.chn EXCEPT ![c] = r]
  OBVIOUS
<1>2. g \in [Chn -> ChnRec] /\ g[c] = r /\ \A d \in Chn \ {c} : g[d] = k.chn[d]
  BY <1>1, IoFields
<1>3. i = [k EXCEPT !.chn = g, !.polling = n]
  BY <1>1 DEF WithRec
<1>4. i \in IoRec
  BY <1>2, <1>3 DEF IoRec
<1>5. /\ i.next = k.next /\ i.prev = k.prev /\ i.first = k.first /\ i.last = k.last
      /\ i.live = k.live /\ i.refs = k.refs /\ i.table = k.table
      /\ i.chn = g /\ i.out = k.out /\ i.lines = k.lines /\ i.st = k.st
  BY <1>3 DEF IoRec
<1> QED
  BY <1>2, <1>4, <1>5 DEF ChnOnly

NewRec(j, flags) == [job |-> j, flags |-> flags, blk_from |-> 0, dst |-> <<>>, rest |-> 0]

\* Channel c is on the list of those in use, and on no list of the daemon yet.
Taken(k, i, c) ==
  /\ c \in Chn /\ i \in IoRec /\ i.live = {c} /\ i.table = k.table /\ i.refs = k.refs
  /\ i.out = k.out /\ i.lines = k.lines /\ i.st = k.st
  /\ OnChain(i, "unused", Chn \ {c}) /\ i.next[c] = NULL /\ i.prev[c] = k.last["used"]
  /\ i.last["used"] = c
  /\ i.first["used"] = IF k.last["used"] = NULL THEN c ELSE k.first["used"]
  /\ i.first["active"] = k.first["active"] /\ i.last["active"] = k.last["active"]
  /\ i.first["inactive"] = k.first["inactive"] /\ i.last["inactive"] = k.last["inactive"]

LEMMA NearNone ==
  ASSUME NEW u, NEW k, Base(u, k), k.live = {}, NEW c, c = k.last["unused"]
  PROVE  /\ OnChain(k, "unused", Chn) /\ k \in IoRec
         /\ \A l \in Lists \ {"unused"} : k.first[l] \in {NULL, c} /\ k.last[l] \in {NULL, c}
<1>1. ListsOK(u, k) /\ k \in IoRec
  BY DEF Base
<1>2. OnChain(k, "unused", Chn \ k.live) /\ Chn \ k.live = Chn
  BY <1>1 DEF ListsOK
<1>3. PICK d \in Chn : Near(k, d)
  BY <1>1 DEF ListsOK
<1>4. d = c
  BY <1>3 DEF Near
<1> QED
  BY <1>1, <1>2, <1>3, <1>4 DEF Near

LEMMA OpenedIs ==
  ASSUME NEW u, Base(u, io), io.live = {}, NEW j \in Client, NEW flags \in SUBSET Settable,
         NEW c, c = io.last["unused"], NEW i, i = Opened(j, flags)
  PROVE  Taken(io, i, c) /\ i.chn[c] = NewRec(j, flags)
<1>0. "active" \in Lists /\ "inactive" \in Lists /\ "used" \in Lists /\ "used" # "unused"
  BY DEF Lists
<1>1. /\ OnChain(io, "unused", Chn) /\ io \in IoRec
      /\ \A l \in Lists \ {"unused"} : io.first[l] \in {NULL, c} /\ io.last[l] \in {NULL, c}
  BY NearNone
<1>2. PICK m : m = DequeuePop(io, "unused")
  OBVIOUS
<1>3. /\ c \in Chn /\ Relinks(io, m) /\ OnChain(m, "unused", Chn \ {c}) /\ m.next[c] = NULL
      /\ \A l \in Lists \ {"unused"} : m.first[l] = io.first[l] /\ m.last[l] = io.last[l]
  BY <1>1, <1>2, PopFree
<1>4. PICK n : n = DequeuePush(m, "used", c)
  OBVIOUS
<1>5. m \in IoRec /\ m.last["used"] \in {NULL, c}
  BY <1>0, <1>1, <1>3 DEF Relinks
<1>6. /\ Moves(m, n, "used", c) /\ n.next[c] = NULL /\ n.prev[c] = m.last["used"]
      /\ n.last["used"] = c
      /\ n.first["used"] = IF m.last["used"] = NULL THEN c ELSE m.first["used"]
  BY <1>0, <1>3, <1>4, <1>5, PushNear
<1>7. Relinks(m, n) /\ OnChain(n, "unused", Chn \ {c})
  BY <1>0, <1>3, <1>5, <1>6, MovesChain DEF Moves
<1>8. n \in IoRec /\ n.live = {}
  BY <1>3, <1>7 DEF Relinks
<1>9. PICK p : p = [n EXCEPT !.live = {c}]
  OBVIOUS
<1>10. p = PoolAlloc(io)
  <2>1. n.live \cup {c} = {c}
    BY <1>8
  <2> QED
    BY <1>2, <1>4, <1>9, <2>1 DEF PoolAlloc
<1>11. /\ LiveOnly(n, p, {c}) /\ p.next = n.next /\ p.prev = n.prev /\ p.first = n.first
       /\ p.last = n.last /\ p.polling = n.polling
  BY <1>3, <1>8, <1>9, LiveChange
<1>12. PICK x : x = IF flags \cap {"poll", "push"} # {} THEN p.polling + 1 ELSE p.polling
  OBVIOUS
<1>13. p \in IoRec /\ x \in Int
  BY <1>11, <1>12, IoFields DEF LiveOnly
<1>14. PICK r : r = NewRec(j, flags)
  OBVIOUS
<1>15. r \in ChnRec
  BY <1>14, ConstFacts DEF NewRec, ChnRec
<1>16. i = WithRec(p, c, r, x)
  BY <1>10, <1>12, <1>13, <1>14 DEF Opened, WithRec, NewRec, IoRec
<1>17. /\ ChnOnly(p, i, c) /\ i.chn[c] = r
       /\ i.next = p.next /\ i.prev = p.prev /\ i.first = p.first /\ i.last = p.last
  BY <1>3, <1>13, <1>15, <1>16, RecChange
<1>18. /\ i \in IoRec /\ i.live = {c} /\ i.table = io.table /\ i.refs = io.refs
       /\ i.out = io.out /\ i.lines = io.lines /\ i.st = io.st
  BY <1>3, <1>7, <1>11, <1>17 DEF ChnOnly, LiveOnly, Relinks
<1>19. /\ n.first["active"] = io.first["active"] /\ n.last["active"] = io.last["active"]
       /\ n.first["inactive"] = io.first["inactive"] /\ n.last["inactive"] = io.last["inactive"]
       /\ m.first["used"] = io.first["used"] /\ m.last["used"] = io.last["used"]
  BY <1>0, <1>3, <1>6 DEF Moves, Elsewhere
<1>20. OnChain(i, "unused", Chn \ {c})
  BY <1>7, <1>11, <1>17 DEF OnChain
<1>21. Taken(io, i, c)
  BY <1>3, <1>6, <1>11, <1>17, <1>18, <1>19, <1>20 DEF Taken
<1> QED
  BY <1>14, <1>17, <1>21

\* Nothing of a channel that could not be created is left behind.
LEMMA GivenBack ==
  ASSUME NEW k, Base("background", k), k.live = {}, NEW c, c = k.last["unused"],
         NEW i, Taken(k, i, c), NEW m, m = PoolFree(i, c)
  PROVE  /\ Base("background", m) /\ m.live = {} /\ m.out = k.out /\ m.lines = k.lines
         /\ m.st = k.st
<1> DEFINE u == "background"
<1>1. /\ k \in IoRec /\ \A l \in Lists \ {"unused"} : k.first[l] \in {NULL, c} /\ k.last[l] \in {NULL, c}
  BY NearNone
<1>2. \A l \in {"used", "active", "inactive"} : k.first[l] = NULL /\ k.last[l] = NULL
  BY DEF Base, ListsOK, Placed, Alone, Lists
<1>3. /\ c \in Chn /\ i \in IoRec /\ i.live = {c} /\ i.table = k.table /\ i.refs = k.refs
      /\ i.out = k.out /\ i.lines = k.lines /\ i.st = k.st
      /\ OnChain(i, "unused", Chn \ {c}) /\ i.next[c] = NULL /\ i.prev[c] = NULL
      /\ i.last["used"] = c /\ i.first["used"] = c
      /\ i.first["active"] = NULL /\ i.last["active"] = NULL
      /\ i.first["inactive"] = NULL /\ i.last["inactive"] = NULL
  BY <1>2 DEF Taken
<1>4. /\ LiveOnly(i, m, i.live \ {c}) /\ OnChain(m, "unused", Chn) /\ m.next[c] = NULL
      /\ m.last["unused"] = c
      /\ m.first["active"] = i.first["active"] /\ m.last["active"] = i.last["active"]
      /\ m.first["inactive"] = i.first["inactive"] /\ m.last["inactive"] = i.last["inactive"]
      /\ m.first["used"] = (IF i.first["used"] = c THEN NULL ELSE i.first["used"])
      /\ m.last["used"] = IF i.last["used"] = c THEN i.prev[c] ELSE i.last["used"]
  BY <1>3, PoolFreeIs
<1>5. /\ m \in IoRec /\ m.live = {} /\ m.table = k.table /\ m.refs = k.refs
      /\ m.out = k.out /\ m.lines = k.lines /\ m.st = k.st
  BY <1>3, <1>4 DEF LiveOnly
<1>6. \A l \in Lists \ {"unused"} : m.first[l] = NULL /\ m.last[l] = NULL
  BY <1>3, <1>4 DEF Lists
<1>7. ListsOK(u, m)
  <2>1. OnChain(m, "unused", Chn \ m.live)
    <3>1. Chn \ m.live = Chn
      BY <1>5
    <3> QED
      BY <1>4, <3>1
  <2>2. Near(m, c)
    BY <1>4, <1>5, <1>6 DEF Near
  <2>3. Placed(m)
    BY <1>5, <1>6 DEF Placed, Alone
  <2> QED
    BY <1>3, <2>1, <2>2, <2>3 DEF ListsOK
<1>8. RefsOK(u, m)
  <2>1. k.refs = {}
    BY DEF Base, RefsOK
  <2> QED
    BY <1>5, <2>1 DEF RefsOK
<1>9. \A j \in Client : OutOK(m, j)
  BY <1>5 DEF Base, OutOK, Limit
<1> QED
  BY <1>5, <1>7, <1>8, <1>9 DEF Base

\* A channel that starts to copy for j, with flags as iod_chn_create accepts them.
Accepted(u, j, flags) ==
  /\ flags \in SUBSET Settable
  /\ "immediate" \in flags <=> u = "immediate"
  /\ u = "immediate" => flags = {"immediate", "autoclose"}
  /\ "poll" \in flags \/ "push" \in flags => j \in Stream

\* What is known of a job and of channel c when it starts.
Fresh(k, j)      == k.out[j] = <<>> /\ k.lines[j] = 0
Starts(u, k, r, c, j, flags) ==
  /\ r \in IoRec /\ r.live = {c} /\ r.table = k.table /\ r.refs = k.refs
  /\ r.out = k.out /\ r.lines = k.lines /\ r.chn[c].flags = flags \cup {"active"}
  /\ r.st[j] = "copying" /\ \A x \in Client \ {j} : r.st[x] = k.st[x]
  /\ r.chn[c].job = j /\ r.chn[c].blk_from = 0 /\ r.chn[c].dst = <<>>
  /\ OnChain(r, "unused", Chn \ {c}) /\ Near(r, c) /\ r.first["active"] \in {NULL, c}
  /\ u = "background" => /\ r.prev[c] = NULL /\ Alone(r, "used", c)
                         /\ Alone(r, "active", c) /\ Alone(r, "inactive", NULL)

Started(i, c, j) == WithStatus(Activated(i, c), j, "copying")

LEMMA ActivatedIs ==
  ASSUME NEW u, NEW k, Base(u, k), k.live = {}, NEW c, c = k.last["unused"],
         NEW i, Taken(k, i, c), NEW j \in Client, NEW flags, Accepted(u, j, flags),
         i.chn[c] = NewRec(j, flags), NEW r, r = Started(i, c, j)
  PROVE  Starts(u, k, r, c, j, flags)
<1>0. "active" \in Lists /\ "inactive" \in Lists /\ "used" \in Lists /\ "active" # "unused"
  BY DEF Lists
<1>1. /\ k \in IoRec /\ \A l \in Lists \ {"unused"} : k.first[l] \in {NULL, c} /\ k.last[l] \in {NULL, c}
  BY NearNone
<1>2. u = "background" => \A l \in Lists \ {"unused"} : k.first[l] = NULL /\ k.last[l] = NULL
  BY DEF Base, ListsOK, Placed, Alone
<1>3. /\ c \in Chn /\ i \in IoRec /\ i.live = {c} /\ i.table = k.table /\ i.refs = k.refs
      /\ i.out = k.out /\ i.lines = k.lines /\ i.st = k.st
      /\ OnChain(i, "unused", Chn \ {c}) /\ i.next[c] = NULL
      /\ i.last["used"] = c
      /\ i.first["used"] = IF k.last["used"] = NULL THEN c ELSE k.first["used"]
      /\ i.first["active"] = k.first["active"] /\ i.last["active"] = k.last["active"]
      /\ i.first["inactive"] = k.first["inactive"] /\ i.last["inactive"] = k.last["inactive"]
  BY DEF Taken
<1>4. PICK m : m = DequeuePush(i, "active", c)
  OBVIOUS
<1>5. /\ Moves(i, m, "active", c) /\ m.next[c] = NULL /\ m.prev[c] = i.last["active"]
      /\ m.last["active"] = c
      /\ m.first["active"] = IF i.last["active"] = NULL THEN c ELSE i.first["active"]
  <2>1. i.last["active"] \in {NULL, c}
    BY <1>0, <1>1, <1>3
  <2> QED
    BY <1>0, <1>3, <1>4, <2>1, PushNear
<1>6. Relinks(i, m) /\ OnChain(m, "unused", Chn \ {c}) /\ m \in IoRec
  BY <1>0, <1>3, <1>5, MovesChain DEF Moves, Relinks
<1>7. /\ m.first["inactive"] = i.first["inactive"] /\ m.last["inactive"] = i.last["inactive"]
      /\ m.first["used"] = i.first["used"] /\ m.last["used"] = i.last["used"]
  BY <1>0, <1>5 DEF Moves, Elsewhere
<1>8. m.chn[c].flags = flags /\ m.chn[c].job = j /\ m.chn[c].blk_from = 0 /\ m.chn[c].dst = <<>>
  BY <1>6 DEF Relinks, NewRec
<1>9. PICK s : s = flags \cup {"active"}
  OBVIOUS
<1>10. PICK n : n = WithFlags(m, c, s)
  OBVIOUS
<1>11. n = Activated(i, c)
  BY <1>4, <1>8, <1>9, <1>10 DEF Activated, WithFlags
<1>12. s \in SUBSET (Settable \cup {"active"})
  BY <1>9 DEF Accepted
<1>13. /\ ChnOnly(m, n, c) /\ n.chn[c].flags = s /\ n.chn[c].job = m.chn[c].job
       /\ n.chn[c].blk_from = m.chn[c].blk_from /\ n.chn[c].dst = m.chn[c].dst
       /\ n.next = m.next /\ n.prev = m.prev /\ n.first = m.first /\ n.last = m.last
  BY <1>3, <1>6, <1>10, <1>12, FlagsChange
<1>14. r = WithStatus(n, j, "copying") /\ n \in IoRec /\ "copying" \in Status
  BY <1>11, <1>13 DEF Started, ChnOnly, Status
<1>15. /\ r \in IoRec /\ r.live = n.live /\ r.chn = n.chn /\ r.table = n.table
       /\ r.refs = n.refs /\ r.out = n.out /\ r.lines = n.lines
       /\ r.next = n.next /\ r.prev = n.prev /\ r.first = n.first /\ r.last = n.last
       /\ r.st[j] = "copying" /\ \A x \in Client \ {j} : r.st[x] = n.st[x]
  BY <1>14, StatusChange
<1>16. /\ r.live = {c} /\ r.table = k.table /\ r.refs = k.refs
       /\ r.out = k.out /\ r.lines = k.lines /\ n.st = k.st
  BY <1>3, <1>6, <1>13, <1>15 DEF ChnOnly, Relinks
<1>17. /\ r.next[c] = NULL /\ r.prev[c] = i.last["active"] /\ r.last["active"] = c
       /\ r.first["active"] = (IF i.last["active"] = NULL THEN c ELSE i.first["active"])
       /\ r.first["inactive"] = k.first["inactive"] /\ r.last["inactive"] = k.last["inactive"]
       /\ r.first["used"] = i.first["used"] /\ r.last["used"] = c
  BY <1>3, <1>5, <1>7, <1>13, <1>15
<1>18. OnChain(r, "unused", Chn \ {c})
  BY <1>6, <1>13, <1>15 DEF OnChain
<1>19. r.first["active"] \in {NULL, c} /\ r.first["used"] \in {NULL, c}
  BY <1>0, <1>1, <1>3, <1>17
<1>20. Near(r, c)
  <2>1. \A l \in Lists \ {"unused"} : r.first[l] \in {NULL, c} /\ r.last[l] \in {NULL, c}
    BY <1>0, <1>1, <1>17, <1>19 DEF Lists
  <2>2. r.prev[c] \in {NULL, c}
    BY <1>0, <1>1, <1>3, <1>17
  <2> QED
    BY <1>16, <1>17, <2>1, <2>2 DEF Near
<1>21. u = "background" => /\ r.prev[c] = NULL /\ Alone(r, "used", c)
                           /\ Alone(r, "active", c) /\ Alone(r, "inactive", NULL)
  BY <1>0, <1>2, <1>3, <1>17 DEF Alone
<1> QED
  BY <1>8, <1>9, <1>13, <1>15, <1>16, <1>18, <1>19, <1>20, <1>21 DEF Starts

LEMMA NoBytes ==
  Bytes(1, 0) = <<>> /\ <<>> \o <<>> = <<>> /\ Len(<<>>) = 0
<1>1. PICK s : s = Bytes(0 + 1, 0)
  OBVIOUS
<1>2. s \in Seq(Nat) /\ Len(s) = 0
  BY <1>1, BytesIs
<1>3. s = Bytes(1, 0)
  BY <1>1
<1>4. s = <<>>
  BY <1>2, EmptySeq
<1>5. <<>> \o <<>> = <<>>
  BY ConcatEmptySeq, EmptySeq
<1> QED
  BY <1>3, <1>4, <1>5, EmptySeq

LEMMA StartGood ==
  ASSUME NEW u, NEW k, Base(u, k), k.live = {}, NEW j \in Client, Fresh(k, j),
         NEW flags, Accepted(u, j, flags), NEW c \in Chn, NEW r, Starts(u, k, r, c, j, flags)
  PROVE  /\ Alive(u, r, c, j) /\ Has(r, c, "active") /\ CaughtUp(r, c) /\ r.st[j] # "failed"
         /\ Has(r, c, "push") <=> "push" \in flags
<1>1. /\ r \in IoRec /\ r.live = {c} /\ r.table = k.table /\ r.refs = k.refs
      /\ r.out = k.out /\ r.lines = k.lines /\ r.chn[c].flags = flags \cup {"active"}
      /\ r.st[j] = "copying" /\ \A x \in Client \ {j} : r.st[x] = k.st[x]
      /\ r.chn[c].job = j /\ r.chn[c].blk_from = 0 /\ r.chn[c].dst = <<>>
  BY DEF Starts
<1>2. /\ Has(r, c, "active")
      /\ \A f : f # "active" => (Has(r, c, f) <=> f \in flags)
  BY <1>1 DEF Has
<1>3. Total(r, c) = 0 /\ r.out[j] \o r.chn[c].dst = Bytes(1, 0) /\ r.out[j] = Bytes(1, 0)
      /\ Len(r.out[j]) = 0
  <2>1. r.out[j] = <<>> /\ r.chn[c].job = j /\ r.chn[c].dst = <<>>
    BY <1>1 DEF Fresh
  <2>2. Total(r, c) = 0 + 0
    BY <2>1, NoBytes DEF Total
  <2> QED
    BY <2>1, <2>2, NoBytes
<1>4. Limit(r, j) \in Nat
  BY <1>1, ConstFacts DEF Limit, Fresh
<1>5. ChnOK(u, r, c)
  <2>1. /\ Has(r, c, "immediate") <=> u = "immediate"
        /\ u = "immediate" => Has(r, c, "active") /\ Has(r, c, "autoclose")
        /\ Has(r, c, "poll") \/ Has(r, c, "push") => j \in Stream
    BY <1>2 DEF Accepted
  <2>2. /\ r.st[j] \in {"copying", "idle", "failed"} /\ r.st[j] # "idle"
        /\ Total(r, c) <= Limit(r, j) /\ r.out[j] \o r.chn[c].dst = Bytes(1, Total(r, c))
    BY <1>1, <1>3, <1>4
  <2> QED
    BY <1>1, <1>2, <2>1, <2>2 DEF ChnOK
<1>6. ListsOK(u, r)
  <2>1. OnChain(r, "unused", Chn \ r.live) /\ Near(r, c)
    BY <1>1 DEF Starts
  <2>2. u = "background" => Placed(r)
    BY <1>1, <1>2 DEF Starts, Placed, Near
  <2>3. u = "immediate" => r.first["active"] = NULL \/ Has(r, r.first["active"], "immediate")
    BY <1>2 DEF Starts, Accepted
  <2> QED
    BY <2>1, <2>2, <2>3 DEF ListsOK
<1>7. RefsOK(u, r)
  <2>1. u = "background" => k.refs = {}
    BY DEF Base, RefsOK
  <2> QED
    BY <1>1, <2>1 DEF RefsOK
<1>8. \A m \in Client : OutOK(r, m)
  <2> TAKE m \in Client
  <2>1. CASE m # j
    BY <1>1, <2>1 DEF Base, OutOK, Limit
  <2>2. CASE m = j
    BY <1>1, <1>3, <1>4, <2>2 DEF OutOK
  <2> QED
    BY <2>1, <2>2
<1>9. Alive(u, r, c, j)
  BY <1>1, <1>5, <1>6, <1>7, <1>8 DEF Alive, Base
<1>10. Reach(r, c, 0) = 0
  <2>1. CASE j \in Stream
    BY <1>1, <2>1 DEF Reach, Fresh
  <2>2. CASE j \notin Stream
    <3>1. 0 * SrcBlk = 0
      BY ConstFacts
    <3>2. Least(0, SrcLen) = 0
      BY ConstFacts DEF Least
    <3> QED
      BY <1>1, <2>2, <3>1, <3>2 DEF Reach
  <2> QED
    BY <2>1, <2>2
<1>11. CaughtUp(r, c)
  BY <1>1, <1>3, <1>10 DEF CaughtUp
<1> QED
  BY <1>1, <1>2, <1>9, <1>11

-----------------------------------------------------------------------------
(* Who is at work, and what a step has to keep.                              *)

LEMMA Worker ==
  ASSUME IodInv, NEW a \in Actor, Works(a), NEW c, c = loc[a].ch, NEW j, j = io.chn[c].job
  PROVE  /\ Alive(use, io, c, j) /\ AtWork(use, io, loc[a], c) /\ Role(use, a, loc[a])
         /\ a \in Client => a = j
         /\ \A b \in Actor \ {a} : ~Works(b)
         /\ loc[a] \in LocRec /\ loc[j].pc # "start" /\ j \in Client
<1>1. Good(use, io, loc[a]) /\ loc[a].pc \in Working
  BY DEF IodInv, Works
<1>2. Base(use, io) /\ AtWork(use, io, loc[a], c)
  BY <1>1 DEF Good
<1>3. io.live = {c} /\ ChnOK(use, io, c)
  BY <1>2 DEF AtWork, Base
<1>4. Alive(use, io, c, j) /\ j \in Client
  BY <1>2, <1>3 DEF Alive, ChnOK
<1>5. \A b \in Actor \ {a} : ~Works(b)
  BY DEF IodInv
<1>6. a \in Client => a = j
  BY DEF IodInv
<1>7. loc[j].pc # "start"
  BY <1>3, <1>4 DEF IodInv
<1>8. Role(use, a, loc[a])
  BY DEF IodInv, Role
<1>9. loc[a] \in LocRec
  BY DEF IodInv
<1> QED
  BY <1>2, <1>4, <1>5, <1>6, <1>7, <1>8, <1>9

\* Nobody is.
Idle == \A a \in Actor : ~Works(a)

LEMMA IdleGood ==
  ASSUME IodInv, Idle
  PROVE  /\ Base(use, io) /\ \A c \in io.live : CaughtUp(io, c) /\ Sane(use, io, c)
         /\ use \in {"immediate", "background"}
<1>1. Good(use, io, At("end", NULL))
  BY DEF IodInv, Idle
<1>2. At("end", NULL).pc \notin Working
  BY DEF At, Working
<1> QED
  BY <1>1, <1>2 DEF Good, IodInv

\* Only a, if anybody, is at work afterwards, for job j.
After(a, j) ==
  /\ loc' \in [Actor -> LocRec] /\ use' = use
  /\ \A b \in Actor \ {a} : loc'[b].pc \notin Working
  /\ \A m \in Client : loc'[m].pc = "start" => m # j /\ loc[m].pc = "start"
  /\ \A m \in Client \ {j} : io'.out[m] = io.out[m] /\ io'.lines[m] = io.lines[m]
  /\ \A d \in io'.live : io'.chn[d].job = j
  /\ loc'[a].pc \in Working => Role(use, a, loc'[a]) /\ (a \in Client => a = j)

LEMMA Preserved ==
  ASSUME IodInv, NEW a \in Actor, NEW j \in Client, After(a, j), Good(use, io', loc'[a])
  PROVE  IodInv'
<1>1. loc' \in [Actor -> LocRec] /\ use' \in {"immediate", "background"} /\ use' = use
  BY DEF After, IodInv
<1>2. \A b \in Actor : Works(b)' <=> loc'[b].pc \in Working
  BY DEF Works
<1>3. \A b \in Actor \ {a} : ~Works(b)'
  BY <1>2 DEF After
<1>4. IF \E b \in Actor : Works(b)' THEN \A b \in Actor : Works(b)' => Good(use', io', loc'[b])
                                    ELSE Good(use', io', At("end", NULL))
  <2>1. CASE Works(a)'
    BY <1>1, <1>3, <2>1
  <2>2. CASE ~Works(a)'
    <3>1. ~\E b \in Actor : Works(b)'
      BY <1>3, <2>2
    <3>2. loc'[a].pc \notin Working /\ At("end", NULL).pc \notin Working
      BY <1>2, <2>2 DEF At, Working
    <3>3. Good(use, io', At("end", NULL))
      BY <3>2 DEF Good
    <3> QED
      BY <1>1, <3>1, <3>3
  <2> QED
    BY <2>1, <2>2
<1>5. \A b, d \in Actor : Works(b)' /\ Works(d)' => b = d
  BY <1>3
<1>6. \A m \in Client : loc'[m].pc = "start" =>
        io'.out[m] = <<>> /\ io'.lines[m] = 0 /\ \A c \in io'.live : io'.chn[c].job # m
  BY DEF After, IodInv
<1>7. \A m \in Client : Works(m)' => io'.chn[loc'[m].ch].job = m
  <2> SUFFICES ASSUME a \in Client, Works(a)' PROVE io'.chn[loc'[a].ch].job = a
    BY <1>3, ConstFacts
  <2>1. loc'[a].pc \in Working /\ a = j
    BY <1>2 DEF After
  <2>2. io'.live = {loc'[a].ch}
    BY <2>1 DEF Good, AtWork
  <2> QED
    BY <2>1, <2>2 DEF After
<1>8. \A b \in Actor : Works(b)' =>
        IF use' = "immediate" THEN b \in Client /\ loc'[b].pc \in {"src", "dst"}
        ELSE b = Iod \/ loc'[b].pc \in {"close_to", "discard"}
  BY <1>1, <1>2, <1>3 DEF After, Role
<1> QED
  BY <1>1, <1>4, <1>5, <1>6, <1>7, <1>8 DEF IodInv

\* A step of a, for job j.
LEMMA FineStep ==
  ASSUME IodInv, NEW a \in Actor, NEW c, NEW j, Alive(use, io, c, j), loc[j].pc # "start",
         \A b \in Actor \ {a} : ~Works(b), a \in Client => a = j,
         NEW r, Fine(use, io, r, c, j, a), Goes(a, r)
  PROVE  IodInv'
<1>1. /\ io' = r.io /\ loc' = [loc EXCEPT ![a] = r.loc] /\ use' = use
      /\ Good(use, r.io, r.loc) /\ r.loc \in LocRec /\ r.loc.pc # "start"
      /\ Others(io, r.io, j) /\ r.io.live \subseteq {c}
      /\ r.loc.pc \in Working => r.loc.ch = c /\ Role(use, a, r.loc)
  BY DEF Fine, Goes
<1>2. loc \in [Actor -> LocRec]
  BY DEF IodInv
<1>3. loc' \in [Actor -> LocRec] /\ loc'[a] = r.loc /\ \A b \in Actor \ {a} : loc'[b] = loc[b]
  BY <1>1, <1>2
<1>4. j \in Client /\ c \in Chn /\ io.chn[c].job = j
  BY AliveTypes
<1>5. After(a, j)
  <2>1. \A b \in Actor \ {a} : loc'[b].pc \notin Working
    BY <1>3 DEF Works
  <2>2. \A m \in Client : loc'[m].pc = "start" => m # j /\ loc[m].pc = "start"
    BY <1>1, <1>3, ConstFacts
  <2>3. \A m \in Client \ {j} : io'.out[m] = io.out[m] /\ io'.lines[m] = io.lines[m]
    BY <1>1 DEF Others
  <2>4. \A d \in io'.live : io'.chn[d].job = j
    BY <1>1, <1>4 DEF Others
  <2> QED
    BY <1>1, <1>3, <2>1, <2>2, <2>3, <2>4 DEF After
<1> QED
  BY <1>1, <1>3, <1>4, <1>5, Preserved

\* Only processes that are not at work go on, and do not begin to be.
LEMMA Aside ==
  ASSUME IodInv, io' = io, use' = use, loc' \in [Actor -> LocRec],
         \A b \in Actor : loc'[b] = loc[b] \/ (~Works(b) /\ loc'[b].pc \notin Working \cup {"start"})
  PROVE  IodInv'
<1>1. \A b \in Actor : Works(b)' <=> loc'[b].pc \in Working
  BY DEF Works
<1>2. \A b \in Actor : /\ Works(b)' <=> Works(b)
                       /\ Works(b) => loc'[b] = loc[b]
                       /\ loc'[b].pc = "start" => loc[b].pc = "start"
  BY <1>1 DEF Works
<1>3. \A m \in Client : m \in Actor
  BY ConstFacts
<1>4. IF \E b \in Actor : Works(b)' THEN \A b \in Actor : Works(b)' => Good(use', io', loc'[b])
                                    ELSE Good(use', io', At("end", NULL))
  BY <1>2 DEF IodInv
<1>5. \A b, d \in Actor : Works(b)' /\ Works(d)' => b = d
  BY <1>2 DEF IodInv
<1>6. \A m \in Client : loc'[m].pc = "start" =>
        io'.out[m] = <<>> /\ io'.lines[m] = 0 /\ \A c \in io'.live : io'.chn[c].job # m
  BY <1>2, <1>3 DEF IodInv
<1>7. \A m \in Client : Works(m)' => io'.chn[loc'[m].ch].job = m
  BY <1>2, <1>3 DEF IodInv
<1>8. \A b \in Actor : Works(b)' =>
        IF use' = "immediate" THEN b \in Client /\ loc'[b].pc \in {"src", "dst"}
        ELSE b = Iod \/ loc'[b].pc \in {"close_to", "discard"}
  BY <1>2 DEF IodInv
<1>9. use' \in {"immediate", "background"}
  BY DEF IodInv
<1> QED
  BY <1>4, <1>5, <1>6, <1>7, <1>8, <1>9 DEF IodInv

-----------------------------------------------------------------------------
(* The steps of a copy.                                                      *)

LEMMA WorkerAble ==
  ASSUME IodInv, NEW a \in Actor, loc[a].pc \in {"src", "dst", "push"},
         NEW c, c = loc[a].ch, NEW j, j = io.chn[c].job
  PROVE  /\ Works(a) /\ Able(use, io, c, j) /\ AtWork(use, io, loc[a], c) /\ Hand(use, a)
         /\ loc[a].pc = "push" => use = "background" /\ a = Iod
         /\ loc[a].pc # "push" => ~Has(io, c, "push")
<1>1. Works(a)
  BY DEF Works, Working
<1>2. Alive(use, io, c, j) /\ AtWork(use, io, loc[a], c) /\ Role(use, a, loc[a])
  BY <1>1, Worker
<1>3. use \in {"immediate", "background"}
  BY DEF IodInv
<1>4. Sane(use, io, c) /\ Has(io, c, "active")
  BY <1>2 DEF AtWork
<1>5. loc[a].pc # "push" => ~Has(io, c, "push")
  BY <1>2 DEF AtWork
<1>6. Hand(use, a) /\ (loc[a].pc = "push" => use = "background" /\ a = Iod)
  BY <1>2, <1>3 DEF Role, Hand
<1> QED
  BY <1>1, <1>2, <1>4, <1>5, <1>6 DEF Able

\* What a step of the copy has to come to.
LEMMA WorkStep ==
  ASSUME IodInv, NEW a \in Actor, Works(a), NEW c, c = loc[a].ch, NEW j, j = io.chn[c].job,
         NEW r, Fine(use, io, r, c, j, a), Goes(a, r)
  PROVE  IodInv'
BY Worker, FineStep

\* Up to block b, and where the next one ends.
LEMMA Blocks ==
  ASSUME NEW b \in Nat
  PROVE  /\ b * SrcBlk \in Nat /\ (b + 1) * SrcBlk = b * SrcBlk + SrcBlk
         /\ Least(b * SrcBlk, SrcLen) <= Least((b + 1) * SrcBlk, SrcLen)
         /\ b * SrcBlk >= SrcLen => /\ Least(b * SrcBlk, SrcLen) = SrcLen
                                    /\ Least((b + 1) * SrcBlk, SrcLen) = SrcLen
         /\ ~(b * SrcBlk >= SrcLen) => Least(b * SrcBlk, SrcLen) = b * SrcBlk
<1>1. b * SrcBlk \in Nat /\ (b + 1) * SrcBlk = b * SrcBlk + SrcBlk
  BY ConstFacts, ProductNat
<1>2. ASSUME NEW m \in Nat, NEW n \in Nat, m <= n
      PROVE  /\ Least(m, SrcLen) <= Least(n, SrcLen)
             /\ m >= SrcLen => Least(m, SrcLen) = SrcLen /\ Least(n, SrcLen) = SrcLen
             /\ ~(m >= SrcLen) => Least(m, SrcLen) = m
  BY <1>2, ConstFacts DEF Least
<1>3. (b + 1) * SrcBlk \in Nat /\ b * SrcBlk <= (b + 1) * SrcBlk
  <2>1. \A m \in Nat : m + SrcBlk \in Nat /\ m <= m + SrcBlk
    BY ConstFacts
  <2> QED
    BY <1>1, <2>1
<1> QED
  BY <1>1, <1>2, <1>3

LEMMA GetFileStep ==
  ASSUME IodInv, NEW a \in Actor, GetFile(a)
  PROVE  IodInv'
<1>1. PICK c : c = loc[a].ch
  OBVIOUS
<1>2. PICK j : j = io.chn[c].job
  OBVIOUS
<1>3. loc[a].pc = "src" /\ j \notin Stream
  BY <1>1, <1>2 DEF GetFile
<1>4. /\ Works(a) /\ Able(use, io, c, j) /\ AtWork(use, io, loc[a], c) /\ Hand(use, a)
      /\ ~Has(io, c, "push") /\ use \in {"immediate", "background"}
  BY <1>1, <1>2, <1>3, WorkerAble DEF IodInv
<1>5. Alive(use, io, c, j) /\ io.chn[c].blk_from \in Nat /\ Total(io, c) \in Nat
  BY <1>4, AliveTypes DEF Able
<1>6. io.chn[c].blk_from > 0 /\ Total(io, c) = Reach(io, c, io.chn[c].blk_from - 1)
  BY <1>3, <1>4 DEF AtWork
<1>7. PICK b : b = io.chn[c].blk_from - 1
  OBVIOUS
<1>8. b \in Nat /\ io.chn[c].blk_from = b + 1
  BY <1>5, <1>6, <1>7
<1>9. Total(io, c) = Least(b * SrcBlk, SrcLen)
  BY <1>2, <1>3, <1>6, <1>7 DEF Reach
<1>10. Reach(io, c, io.chn[c].blk_from) = Least((b + 1) * SrcBlk, SrcLen)
  BY <1>2, <1>3, <1>8 DEF Reach
<1>11. Goes(a, IF b * SrcBlk >= SrcLen THEN Return(io, a, c, "ENOIODATA")
               ELSE Pour(io, a, c, FileBlock(b)))
  BY <1>1, <1>7 DEF GetFile
<1>12. CASE b * SrcBlk >= SrcLen
  <2>1. Total(io, c) = SrcLen /\ CaughtUp(io, c)
    BY <1>8, <1>9, <1>10, <1>12, Blocks DEF CaughtUp
  <2>2. Copied(io, c, j, "ENOIODATA")
    BY <1>3, <2>1 DEF Copied
  <2>3. Fine(use, io, Return(io, a, c, "ENOIODATA"), c, j, a)
    BY <1>4, <2>2, ReturnFine
  <2>4. Goes(a, Return(io, a, c, "ENOIODATA"))
    BY <1>11, <1>12
  <2> QED
    BY <1>1, <1>2, <1>4, <2>3, <2>4, WorkStep
<1>13. CASE ~(b * SrcBlk >= SrcLen)
  <2>1. Left(io, c, FileBlock(b))
    <3>1. Total(io, c) <= Reach(io, c, io.chn[c].blk_from) /\ Total(io, c) = b * SrcBlk
      BY <1>8, <1>9, <1>10, <1>13, Blocks
    <3> QED
      BY <1>10, <3>1 DEF Left, FileBlock
  <2>2. Fine(use, io, Pour(io, a, c, FileBlock(b)), c, j, a)
    BY <1>4, <2>1, PourFine
  <2>3. Goes(a, Pour(io, a, c, FileBlock(b)))
    BY <1>11, <1>13
  <2> QED
    BY <1>1, <1>2, <1>4, <2>2, <2>3, WorkStep
<1> QED
  BY <1>12, <1>13

LEMMA GetLineStep ==
  ASSUME IodInv, NEW a \in Actor, GetLine(a)
  PROVE  IodInv'
<1>1. PICK c : c = loc[a].ch
  OBVIOUS
<1>2. PICK j : j = io.chn[c].job
  OBVIOUS
<1>3. loc[a].pc = "src" /\ j \in Stream
  BY <1>1, <1>2 DEF GetLine
<1>4. /\ Works(a) /\ Able(use, io, c, j) /\ AtWork(use, io, loc[a], c) /\ Hand(use, a)
      /\ ~Has(io, c, "push") /\ use \in {"immediate", "background"}
  BY <1>1, <1>2, <1>3, WorkerAble DEF IodInv
<1>5. Alive(use, io, c, j) /\ c \in Chn /\ io.lines[j] \in Nat
  BY <1>4, AliveTypes DEF Able
<1>6. Total(io, c) = io.lines[j]
  BY <1>2, <1>3, <1>4 DEF AtWork, Reach
<1>7. PICK n \in {io.lines[j], io.lines[j] + 1} :
        Goes(a, Pour([io EXCEPT !.lines[j] = n], a, c, Bytes(io.lines[j] + 1, n)))
  BY <1>1, <1>2 DEF GetLine
<1>8. n \in Nat /\ n >= io.lines[j]
  BY <1>5
<1>9. PICK i : i = Typed(io, j, n)
  OBVIOUS
<1>10. /\ Alive(use, i, c, j) /\ DataOnly(io, i, c) /\ Total(i, c) = Total(io, c)
       /\ i.chn = io.chn /\ i.lines[j] = n /\ i.st = io.st
  BY <1>3, <1>5, <1>8, <1>9, TypedGood
<1>11. Able(use, i, c, j)
  BY <1>4, <1>10, AbleData
<1>12. ~Has(i, c, "push")
  BY <1>4, <1>10 DEF Has
<1>13. Left(i, c, Bytes(io.lines[j] + 1, n))
  <2>1. \A m : Reach(i, c, m) = n
    BY <1>2, <1>3, <1>10 DEF Reach
  <2> QED
    BY <1>6, <1>8, <1>10, <2>1 DEF Left
<1>14. Fine(use, i, Pour(i, a, c, Bytes(io.lines[j] + 1, n)), c, j, a)
  BY <1>4, <1>11, <1>12, <1>13, PourFine
<1>15. Others(io, i, j)
  BY <1>2, <1>10 DEF DataOnly
<1>16. Fine(use, io, Pour(i, a, c, Bytes(io.lines[j] + 1, n)), c, j, a)
  BY <1>14, <1>15, FineFrom
<1>17. Goes(a, Pour(i, a, c, Bytes(io.lines[j] + 1, n)))
  BY <1>7, <1>9 DEF Typed
<1> QED
  BY <1>1, <1>2, <1>4, <1>16, <1>17, WorkStep

LEMMA GetDstStep ==
  ASSUME IodInv, NEW a \in Actor, GetDst(a)
  PROVE  IodInv'
<1>1. PICK c : c = loc[a].ch
  OBVIOUS
<1>2. PICK j : j = io.chn[c].job
  OBVIOUS
<1>3. loc[a].pc = "dst"
  BY DEF GetDst
<1>4. /\ Works(a) /\ Able(use, io, c, j) /\ AtWork(use, io, loc[a], c) /\ Hand(use, a)
      /\ ~Has(io, c, "push") /\ use \in {"immediate", "background"}
  BY <1>1, <1>2, <1>3, WorkerAble DEF IodInv
<1>5. Alive(use, io, c, j) /\ c \in Chn
  BY <1>4, AliveTypes DEF Able
<1>6. Left(io, c, loc[a].data)
  BY <1>3, <1>4 DEF AtWork, Left
<1>7. PICK i : i = Filled(io, c)
  OBVIOUS
<1>8. /\ Alive(use, i, c, j) /\ DataOnly(io, i, c) /\ Total(i, c) = Total(io, c)
      /\ i.chn[c].blk_from = io.chn[c].blk_from /\ i.lines = io.lines /\ i.st = io.st
  BY <1>5, <1>7, FilledGood
<1>9. Able(use, i, c, j)
  BY <1>4, <1>8, AbleData
<1>10. /\ \A f : Has(i, c, f) <=> Has(io, c, f)
       /\ i.chn[c].job = io.chn[c].job
  BY <1>5, <1>8, SameFlags
<1>11. Left(i, c, loc[a].data)
  BY <1>6, <1>8, <1>10, ReachPlain DEF Left
<1>12. Fine(use, i, Pour(i, a, c, loc[a].data), c, j, a)
  BY <1>4, <1>9, <1>10, <1>11, PourFine
<1>13. Others(io, i, j)
  BY <1>2, <1>8 DEF DataOnly
<1>14. Fine(use, io, Pour(i, a, c, loc[a].data), c, j, a)
  BY <1>12, <1>13, FineFrom
<1>15. Goes(a, Pour(i, a, c, loc[a].data))
  BY <1>1, <1>7 DEF GetDst, Filled
<1> QED
  BY <1>1, <1>2, <1>4, <1>14, <1>15, WorkStep

LEMMA NoBufferStep ==
  ASSUME IodInv, NEW a \in Actor, NoBuffer(a)
  PROVE  IodInv'
<1>1. PICK c : c = loc[a].ch
  OBVIOUS
<1>2. PICK j : j = io.chn[c].job
  OBVIOUS
<1>3. loc[a].pc \in {"src", "dst"}
  BY DEF NoBuffer
<1>4. /\ Works(a) /\ Able(use, io, c, j) /\ Hand(use, a)
      /\ ~Has(io, c, "push") /\ use \in {"immediate", "background"}
  BY <1>1, <1>2, <1>3, WorkerAble DEF IodInv
<1>5. Copied(io, c, j, "ENOMEM")
  BY DEF Copied
<1>6. Fine(use, io, Return(io, a, c, "ENOMEM"), c, j, a)
  BY <1>4, <1>5, ReturnFine
<1>7. Goes(a, Return(io, a, c, "ENOMEM"))
  BY <1>1 DEF NoBuffer
<1> QED
  BY <1>1, <1>2, <1>4, <1>6, <1>7, WorkStep

-----------------------------------------------------------------------------
(* Pushed channels, channels that are killed, and wake-ups.                  *)

LEMMA PushedStep ==
  ASSUME IodInv, Pushed
  PROVE  IodInv'
<1>1. PICK c : c = loc[Iod].ch
  OBVIOUS
<1>2. PICK j : j = io.chn[c].job
  OBVIOUS
<1>3. loc[Iod].pc = "push" /\ Iod \in Actor
  BY ConstFacts DEF Pushed
<1>4. /\ Works(Iod) /\ Able(use, io, c, j) /\ AtWork(use, io, loc[Iod], c) /\ use = "background"
  BY <1>1, <1>2, <1>3, WorkerAble
<1>5. Able("background", io, c, j) /\ Alive("background", io, c, j) /\ Has(io, c, "push")
  BY <1>3, <1>4 DEF Able, AtWork
<1>6. /\ c \in Chn /\ j \in Client /\ io.lines[j] \in Nat /\ loc[Iod].restart \in BOOLEAN
      /\ j \in Stream
  <2>1. loc[Iod] \in LocRec
    BY <1>3 DEF IodInv
  <2>2. loc[Iod].restart \in BOOLEAN
    BY <2>1 DEF LocRec
  <2> QED
    BY <1>5, <2>2, AliveTypes, AliveFlags
<1>7. ASSUME NEW r, Fine("background", io, r, c, j, Iod), Goes(Iod, r)
      PROVE  IodInv'
  BY <1>1, <1>2, <1>3, <1>4, <1>7, WorkStep
<1>8. CASE Goes(Iod, ProcessFrom([io EXCEPT !.lines[j] = @ + 1], io.next[c], loc[Iod].restart))
  <2>1. PICK n : n = io.lines[j] + 1
    OBVIOUS
  <2>2. n \in Nat /\ n >= io.lines[j]
    BY <1>6, <2>1
  <2>3. PICK i : i = Typed(io, j, n)
    OBVIOUS
  <2>4. PICK r : r = ProcessFrom(i, io.next[c], loc[Iod].restart)
    OBVIOUS
  <2>5. Goes(Iod, r)
    BY <1>8, <2>1, <2>3, <2>4 DEF Typed
  <2>6. /\ Alive("background", i, c, j) /\ DataOnly(io, i, c) /\ i.chn = io.chn /\ i.st = io.st
    BY <1>5, <1>6, <2>2, <2>3, TypedGood
  <2>7. Able("background", i, c, j) /\ Has(i, c, "push") /\ Has(i, c, "active")
    <3>1. i.st[j] = io.st[j]
      BY <2>6
    <3>2. Able("background", i, c, j)
      BY <1>5, <2>6, <3>1, AbleData
    <3> QED
      BY <1>5, <2>6, <3>2 DEF Has, Able
  <2>8. CaughtUp(i, c) /\ Quiet("background", i, c)
    BY <2>6, <2>7 DEF CaughtUp, Quiet, Able, Alive
  <2>9. io.next[c] = NULL /\ Plain(i, NULL) /\ c # NULL /\ i.first["active"] = c /\ Plain(i, c)
    BY <1>5, <2>6, <2>7, PlainTop
  <2>10. r = IF ~loc[Iod].restart /\ i.polling = 0 THEN Rest(i) ELSE Serve(i, c, FALSE)
    <3>1. ProcessFrom(i, NULL, loc[Iod].restart) =
            IF NULL # NULL THEN Serve(i, NULL, loc[Iod].restart)
            ELSE IF ~loc[Iod].restart /\ i.polling = 0 THEN Rest(i)
            ELSE IF c # NULL THEN Serve(i, c, FALSE) ELSE Rest(i)
      BY <2>9, ProcessIs
    <3>2. r = ProcessFrom(i, NULL, loc[Iod].restart)
      BY <2>4, <2>9
    <3> QED
      BY <2>9, <3>1, <3>2
  <2>11. Fine("background", i, Rest(i), c, j, Iod)
    BY <2>8, RestFine
  <2>12. Fine("background", i, Serve(i, c, FALSE), c, j, Iod)
    BY <2>7, <2>8, ServeFine
  <2>13. Fine("background", i, r, c, j, Iod)
    BY <2>10, <2>11, <2>12
  <2>14. Others(io, i, j)
    BY <1>2, <2>6 DEF DataOnly
  <2> QED
    BY <1>7, <2>5, <2>13, <2>14, FineFrom
<1>9. CASE Goes(Iod, Kill(ChnSleep(Verdict(io, c, "ENOMEM"), c), Iod, c))
  <2>1. PICK i : i = Verdict(io, c, "ENOMEM")
    OBVIOUS
  <2>2. PICK s : s = ChnSleep(i, c)
    OBVIOUS
  <2>3. Copied(io, c, j, "ENOMEM")
    BY DEF Copied
  <2>4. Alive("background", i, c, j) /\ Others(io, i, j) /\ i.st[j] = "failed"
    BY <1>5, <2>1, <2>3, VerdictFine
  <2>5. /\ Alive("background", s, c, j) /\ SameButActive(i, s, c) /\ ~Has(s, c, "active")
    <3>1. i.st[j] # "copying"
      BY <2>4
    <3> QED
      BY <2>2, <2>4, <3>1, SleepGood
  <2>6. s.st[j] # "copying" /\ Others(i, s, j)
    BY <1>6, <2>4, <2>5, SwitchOthers DEF SameButActive, ChnOnly
  <2>7. Fine("background", s, Kill(s, Iod, c), c, j, Iod)
    BY <2>5, <2>6, KillFine
  <2>8. Fine("background", io, Kill(s, Iod, c), c, j, Iod)
    BY <2>4, <2>6, <2>7, OthersTwice, FineFrom
  <2>9. Goes(Iod, Kill(s, Iod, c))
    BY <1>9, <2>1, <2>2
  <2> QED
    BY <1>7, <2>8, <2>9
<1> QED
  BY <1>1, <1>2, <1>8, <1>9 DEF Pushed

LEMMA RefsLeft ==
  ASSUME NEW u, NEW k, NEW p, NEW c, AtWork(u, k, p, c)
  PROVE  /\ p.pc = "close_to" => k.refs \subseteq {<<k.chn[c].job, "to">>}
         /\ p.pc = "discard" => k.refs = {}
BY DEF AtWork

\* A channel that is being killed.
LEMMA WorkerKills ==
  ASSUME IodInv, NEW a \in Actor, loc[a].pc \in {"close_to", "discard"},
         NEW c, c = loc[a].ch, NEW j, j = io.chn[c].job
  PROVE  /\ Works(a) /\ use = "background" /\ Alive("background", io, c, j)
         /\ AtWork(use, io, loc[a], c) /\ (a \in Client => a = j)
         /\ ~Has(io, c, "active") /\ io.chn[c].dst = <<>> /\ io.st[j] # "copying"
<1>1. Works(a)
  BY DEF Works, Working
<1>2. Alive(use, io, c, j) /\ AtWork(use, io, loc[a], c) /\ Role(use, a, loc[a])
  BY <1>1, Worker
<1>3. a \in Client => a = j
  BY <1>1, Worker
<1>4. use = "background"
  BY <1>2 DEF Role, IodInv
<1>5. ~Has(io, c, "active") /\ io.chn[c].dst = <<>>
  BY <1>2 DEF AtWork
<1>6. io.st[j] # "copying"
  BY <1>2, <1>5, AliveFlags
<1> QED
  BY <1>1, <1>2, <1>3, <1>4, <1>5, <1>6

LEMMA CloseToStep ==
  ASSUME IodInv, NEW a \in Actor, CloseTo(a)
  PROVE  IodInv'
<1>1. PICK c : c = loc[a].ch
  OBVIOUS
<1>2. PICK j : j = io.chn[c].job
  OBVIOUS
<1>3. loc[a].pc = "close_to"
  BY DEF CloseTo
<1>4. /\ Works(a) /\ use = "background" /\ Alive("background", io, c, j)
      /\ AtWork(use, io, loc[a], c) /\ (a \in Client => a = j)
      /\ ~Has(io, c, "active") /\ io.chn[c].dst = <<>> /\ io.st[j] # "copying"
  BY <1>1, <1>2, <1>3, WorkerKills
<1>5. c \in Chn /\ j \in Client
  BY <1>4, AliveTypes
<1>6. io.refs \subseteq {<<j, "to">>}
  BY <1>2, <1>3, <1>4, RefsLeft
<1>7. PICK i : i = CloseEnd(io, a, c, "to")
  OBVIOUS
<1>8. Alive("background", i, c, j) /\ CloseIs(io, i, io.refs \ {<<j, "to">>})
  BY <1>4, <1>7, CloseGood DEF Ends
<1>9. /\ i.chn = io.chn /\ i.live = io.live /\ i.out = io.out /\ i.lines = io.lines
      /\ i.refs = {}
  BY <1>6, <1>8 DEF CloseIs
<1>10. PICK p : p = At("discard", c)
  OBVIOUS
<1>11. p \in LocRec /\ p.pc = "discard" /\ p.ch = c
  BY <1>5, <1>10, AtIs DEF Places, Working
<1>12. Good("background", i, p)
  <2>1. AtWork("background", i, p, c)
    BY <1>4, <1>8, <1>9, <1>11 DEF AtWork, Has, Alive
  <2> QED
    BY <1>8, <1>11, <2>1 DEF Good, Working, Alive
<1>13. PICK r : r = [io |-> i, loc |-> p]
  OBVIOUS
<1>14. r.io = i /\ r.loc = p
  BY <1>13
<1>15. Others(io, i, j)
  <2>1. i.st = io.st
    BY <1>8 DEF CloseIs
  <2> QED
    BY <1>9, <2>1 DEF Others
<1>16. Fine("background", io, r, c, j, a)
  <2>1. i.live \subseteq {c}
    BY <1>4, <1>9 DEF Alive
  <2>2. Role("background", a, p)
    BY <1>11 DEF Role
  <2> QED
    BY <1>11, <1>12, <1>14, <1>15, <2>1, <2>2 DEF Fine
<1>17. Goes(a, r)
  BY <1>1, <1>7, <1>10, <1>13 DEF CloseTo
<1> QED
  BY <1>1, <1>2, <1>4, <1>16, <1>17, WorkStep

LEMMA KilledStep ==
  ASSUME IodInv, NEW a \in Actor, Killed(a)
  PROVE  IodInv'
<1>1. PICK c : c = loc[a].ch
  OBVIOUS
<1>2. PICK j : j = io.chn[c].job
  OBVIOUS
<1>3. loc[a].pc = "discard"
  BY DEF Killed
<1>4. /\ Works(a) /\ use = "background" /\ Alive("background", io, c, j)
      /\ AtWork(use, io, loc[a], c) /\ (a \in Client => a = j)
      /\ ~Has(io, c, "active") /\ io.chn[c].dst = <<>> /\ io.st[j] # "copying"
  BY <1>1, <1>2, <1>3, WorkerKills
<1>5. io.refs = {}
  BY <1>3, <1>4, RefsLeft
<1>6. PICK i : i = Discard(io, c)
  OBVIOUS
<1>7. /\ Base("background", i) /\ i.live = {} /\ Others(io, i, j) /\ i.first["active"] = NULL
  BY <1>4, <1>5, <1>6, DiscardGood
<1>8. Quiet("background", i, c)
  BY <1>7 DEF Quiet
<1>9. Restart(i) = Rest(i)
  <2>1. Plain(i, NULL)
    BY DEF Plain
  <2>2. ProcessFrom(i, NULL, TRUE) =
          IF NULL # NULL THEN Serve(i, NULL, TRUE)
          ELSE IF ~TRUE /\ i.polling = 0 THEN Rest(i)
          ELSE IF NULL # NULL THEN Serve(i, NULL, FALSE) ELSE Rest(i)
    BY <1>7, <2>1, ProcessIs
  <2> QED
    BY <1>7, <2>2 DEF Restart
<1>10. Fine("background", i, Rest(i), c, j, a)
  BY <1>8, RestFine
<1>11. PICK r : r = [io |-> i, loc |-> At("end", NULL)]
  OBVIOUS
<1>12. Fine("background", i, r, c, j, a)
  <2>1. r.io = i /\ r.loc = At("end", NULL)
    BY <1>11
  <2>2. "end" \in Places \ (Working \cup {"start"})
    BY DEF Places, Working
  <2> QED
    BY <1>8, <2>1, <2>2, QuietFine
<1>13. Fine("background", io, Rest(i), c, j, a) /\ Fine("background", io, r, c, j, a)
  BY <1>7, <1>10, <1>12, FineFrom
<1>14. Goes(a, Rest(i)) \/ Goes(a, r)
  BY <1>1, <1>6, <1>9, <1>11 DEF Killed
<1> QED
  BY <1>1, <1>2, <1>4, <1>13, <1>14, WorkStep

\* What the daemon finds when it is not at work itself.
LEMMA ReadyIs ==
  ASSUME IodInv, ~Works(Iod), NEW r, r = ProcessFrom(io, io.first["active"], FALSE)
  PROVE  \/ r \in {Rest(io), Spin(io)}
         \/ \E c \in Chn : /\ r = Serve(io, c, FALSE) /\ io.live = {c} /\ Idle
                           /\ use = "background" /\ Has(io, c, "active")
<1>1. Base(use, io) /\ use \in {"immediate", "background"}
  <2>1. Idle \/ \E a \in Actor : Works(a)
    BY DEF Idle
  <2> QED
    BY <2>1, Worker, IdleGood DEF Alive, IodInv
<1>2. ListsOK(use, io) /\ io \in IoRec
  BY <1>1 DEF Base
<1>3. PICK x : x = io.first["active"]
  OBVIOUS
<1>4. CASE x = NULL
  <2>1. Plain(io, NULL)
    BY DEF Plain
  <2>2. ProcessFrom(io, NULL, FALSE) =
          IF NULL # NULL THEN Serve(io, NULL, FALSE)
          ELSE IF ~FALSE /\ io.polling = 0 THEN Rest(io)
          ELSE IF NULL # NULL THEN Serve(io, NULL, FALSE) ELSE Rest(io)
    BY <1>3, <1>4, <2>1, ProcessIs
  <2> QED
    BY <1>3, <1>4, <2>2
<1>5. CASE x # NULL /\ use = "immediate"
  <2>1. PICK c \in Chn : Near(io, c)
    BY <1>2 DEF ListsOK
  <2>2. x = c /\ io.next[c] = NULL
    BY <1>3, <1>5, <2>1 DEF Near, Lists
  <2>3. Has(io, c, "immediate")
    BY <1>2, <1>3, <1>5, <2>2 DEF ListsOK
  <2> QED
    BY <1>3, <2>2, <2>3, PassedOver
<1>6. CASE x # NULL /\ use = "background"
  <2>1. Placed(io) /\ \E c \in Chn : Near(io, c)
    BY <1>2, <1>6 DEF ListsOK
  <2>2. io.live # {}
    BY <1>3, <1>6, <2>1 DEF Placed, Alone, Lists
  <2>3. PICK c \in Chn : io.live = {c}
    BY <2>1, <2>2 DEF Near
  <2>4. Has(io, c, "active") /\ x = c
    BY <1>3, <1>6, <2>1, <2>3 DEF Placed, Alone
  <2>5. Idle
    <3>1. SUFFICES ASSUME NEW a \in Actor, Works(a) PROVE FALSE
      BY DEF Idle
    <3>2. loc[a].pc \in {"close_to", "discard"} /\ AtWork(use, io, loc[a], loc[a].ch)
      <4>1. AtWork(use, io, loc[a], loc[a].ch) /\ Role(use, a, loc[a])
        BY <3>1, Worker
      <4> QED
        BY <1>6, <3>1, <4>1 DEF Role
    <3>3. io.live = {loc[a].ch} /\ ~Has(io, loc[a].ch, "active")
      BY <3>2 DEF AtWork
    <3> QED
      BY <2>3, <2>4, <3>3
  <2>6. io.chn[c].job \in Client /\ Base("background", io)
    BY <1>1, <1>6, <2>3 DEF Base, ChnOK
  <2>7. Alive("background", io, c, io.chn[c].job)
    BY <2>3, <2>6 DEF Alive
  <2>8. Plain(io, c) /\ c # NULL
    BY <2>7, PlainTop
  <2>9. ProcessFrom(io, c, FALSE) =
          IF c # NULL THEN Serve(io, c, FALSE)
          ELSE IF ~FALSE /\ io.polling = 0 THEN Rest(io)
          ELSE IF x # NULL THEN Serve(io, x, FALSE) ELSE Rest(io)
    BY <1>3, <2>4, <2>8, ProcessIs
  <2> QED
    BY <1>3, <1>6, <2>3, <2>4, <2>5, <2>8, <2>9
<1> QED
  BY <1>1, <1>4, <1>5, <1>6

LEMMA WakesStep ==
  ASSUME IodInv, Wakes
  PROVE  IodInv'
<1>1. PICK r : r = ProcessFrom(io, io.first["active"], FALSE)
  OBVIOUS
<1>2. Goes(Iod, r) /\ loc[Iod].pc = "ready" /\ Iod \in Actor
  BY <1>1, ConstFacts DEF Wakes
<1>3. ~Works(Iod)
  BY <1>2 DEF Works, Working
<1>4. CASE r \in {Rest(io), Spin(io)}
  <2>1. r.io = io /\ r.loc \in LocRec /\ r.loc.pc \in {"spin", "asleep"}
    <3>1. At("spin", NULL) \in LocRec /\ At("spin", NULL).pc = "spin"
      BY AtIs DEF Places
    <3>2. At("asleep", NULL) \in LocRec /\ At("asleep", NULL).pc = "asleep"
      BY AtIs DEF Places
    <3> QED
      BY <1>4, <3>1, <3>2 DEF Rest, Spin
  <2>2. io' = io /\ use' = use /\ loc' = [loc EXCEPT ![Iod] = r.loc]
    BY <1>2, <2>1 DEF Goes
  <2>3. /\ loc' \in [Actor -> LocRec]
        /\ \A b \in Actor : loc'[b] = loc[b] \/ (b = Iod /\ loc'[b].pc \in {"spin", "asleep"})
    BY <1>2, <2>1, <2>2 DEF IodInv
  <2>4. \A b \in Actor :
          loc'[b] = loc[b] \/ (~Works(b) /\ loc'[b].pc \notin Working \cup {"start"})
    BY <1>3, <2>3 DEF Working
  <2> QED
    BY <2>2, <2>3, <2>4, Aside
<1>5. ASSUME NEW c \in Chn, r = Serve(io, c, FALSE), io.live = {c}, Idle, use = "background",
             Has(io, c, "active")
      PROVE  IodInv'
  <2>1. PICK j : j = io.chn[c].job
    OBVIOUS
  <2>2. Base("background", io) /\ CaughtUp(io, c) /\ Sane("background", io, c)
    BY <1>5, IdleGood
  <2>3. Able("background", io, c, j) /\ Alive("background", io, c, j)
    BY <1>5, <2>1, <2>2 DEF Able, Alive
  <2>4. Fine("background", io, r, c, j, Iod)
    BY <1>5, <2>2, <2>3, ServeFine
  <2>5. j \in Client /\ loc[j].pc # "start"
    BY <1>5, <2>1, <2>3, AliveTypes DEF IodInv
  <2>6. \A b \in Actor \ {Iod} : ~Works(b)
    BY <1>5 DEF Idle
  <2> QED
    BY <1>2, <1>5, <2>3, <2>4, <2>5, <2>6, ConstFacts, FineStep
<1> QED
  BY <1>1, <1>3, <1>4, <1>5, ReadyIs

LEMMA IntrContStep ==
  ASSUME IodInv, IntrCont
  PROVE  IodInv'
<1>1. /\ loc[Iod].pc = "asleep" /\ io' = io /\ use' = use /\ Iod \in Actor
      /\ loc' = [loc EXCEPT ![Iod] = At("ready", NULL)]
  BY ConstFacts DEF IntrCont, Wake
<1>2. At("ready", NULL) \in LocRec /\ At("ready", NULL).pc = "ready"
  BY AtIs DEF Places
<1>3. /\ loc' \in [Actor -> LocRec]
      /\ \A b \in Actor : loc'[b] = loc[b] \/ (b = Iod /\ loc'[b].pc = "ready")
  BY <1>1, <1>2 DEF IodInv
<1>4. \A b \in Actor :
        loc'[b] = loc[b] \/ (~Works(b) /\ loc'[b].pc \notin Working \cup {"start"})
  BY <1>1, <1>3 DEF Works, Working
<1> QED
  BY <1>1, <1>3, <1>4, Aside

-----------------------------------------------------------------------------
(* Commands and drivers.                                                     *)

\* The handles of the objects of job j, which the daemon takes.
Own(j) == {<<j, e>> : e \in Ends}
WithHandles(k, own) == [k EXCEPT !.table = @ \cup own, !.refs = @ \cup own]

LEMMA OwnIs ==
  ASSUME NEW j \in Client
  PROVE  /\ Own(j) \in SUBSET Handle
         /\ \A e \in Ends : <<j, e>> \in Own(j)
         /\ \A k, c : c \in k.live /\ k.chn[c].job = j =>
              Own(j) \subseteq {<<k.chn[d].job, e>> : d \in k.live, e \in Ends}
BY DEF Own, Handle

LEMMA HandlesGood ==
  ASSUME NEW u, NEW k, NEW c, NEW j, Alive(u, k, c, j), k.refs = {},
         NEW own, own = Own(j), NEW i, i = WithHandles(k, own)
  PROVE  Alive(u, i, c, j) /\ CloseIs(k, i, own)
<1>0. /\ k \in IoRec /\ c \in Chn /\ j \in Client /\ k.chn[c].job = j /\ k.live = {c}
      /\ ListsOK(u, k) /\ (\A m \in Client : OutOK(k, m)) /\ ChnOK(u, k, c)
  BY AliveTypes DEF Alive, Base
<1>1. own \in SUBSET Handle
  BY <1>0, OwnIs
<1>2. PICK t : t = k.table \cup own
  OBVIOUS
<1>3. t \in SUBSET Handle /\ own \subseteq t
  BY <1>0, <1>1, <1>2, IoFields
<1>4. i = [k EXCEPT !.refs = own, !.table = t]
  BY <1>0, <1>2 DEF WithHandles, IoRec
<1>5. i \in IoRec
  BY <1>0, <1>1, <1>3, <1>4 DEF IoRec
<1>6. /\ i.live = k.live /\ i.chn = k.chn /\ i.table = t
      /\ i.refs = own /\ i.out = k.out /\ i.lines = k.lines /\ i.st = k.st
      /\ i.next = k.next /\ i.prev = k.prev /\ i.first = k.first /\ i.last = k.last
  BY <1>0, <1>4 DEF IoRec
<1>7. ListsOK(u, i)
  <2>1. OnChain(i, "unused", Chn \ i.live) /\ \E d \in Chn : Near(i, d)
    BY <1>0, <1>6 DEF ListsOK, OnChain, Near
  <2>2. u = "background" => Placed(i)
    BY <1>0, <1>6 DEF ListsOK, Placed, Alone, Has
  <2>3. u = "immediate" => i.first["active"] = NULL \/ Has(i, i.first["active"], "immediate")
    BY <1>0, <1>6 DEF ListsOK, Has
  <2> QED
    BY <2>1, <2>2, <2>3 DEF ListsOK
<1>8. RefsOK(u, i)
  <2>1. c \in i.live /\ i.chn[c].job = j
    BY <1>0, <1>6
  <2>2. own \subseteq {<<i.chn[d].job, e>> : d \in i.live, e \in Ends}
    BY <1>0, <2>1, OwnIs
  <2> QED
    BY <1>3, <1>6, <2>2 DEF RefsOK
<1>9. \A m \in Client : OutOK(i, m)
  BY <1>0, <1>6 DEF OutOK, Limit
<1>10. ChnOK(u, i, c)
  BY <1>0, <1>6 DEF ChnOK, Has, Total, Limit
<1>11. Alive(u, i, c, j)
  BY <1>0, <1>5, <1>6, <1>7, <1>8, <1>9, <1>10 DEF Alive, Base
<1> QED
  BY <1>5, <1>6, <1>11 DEF CloseIs

\* The locations after a step of client j that starts or gives up.
Moved(j) ==
  /\ loc' \in [Actor -> LocRec] /\ loc'[j].pc # "start"
  /\ \A b \in Actor \ {j} : loc'[b] = loc[b] \/ loc'[b].pc = "ready"

LEMMA StartAfter ==
  ASSUME IodInv, Idle, NEW j \in Client, Moved(j), use' = use,
         \A m \in Client \ {j} : io'.out[m] = io.out[m] /\ io'.lines[m] = io.lines[m],
         \A d \in io'.live : io'.chn[d].job = j,
         loc'[j].pc \in Working => Role(use, j, loc'[j]), Good(use, io', loc'[j])
  PROVE  IodInv'
<1>1. "ready" \notin Working /\ j \in Actor
  BY ConstFacts DEF Working
<1>2. \A b \in Actor \ {j} : loc'[b].pc \notin Working
  BY <1>1 DEF Moved, Idle, Works
<1>3. \A m \in Client : loc'[m].pc = "start" => m # j /\ loc[m].pc = "start"
  BY ConstFacts DEF Moved
<1>4. After(j, j)
  BY <1>2, <1>3 DEF After, Moved
<1> QED
  BY <1>1, <1>4, Preserved

LEMMA GoesMoved ==
  ASSUME IodInv, NEW j \in Client, NEW r, Goes(j, r), r.loc \in LocRec, r.loc.pc # "start"
  PROVE  Moved(j) /\ loc'[j] = r.loc /\ io' = r.io /\ use' = use
BY ConstFacts DEF IodInv, Goes, Moved

LEMMA CreateAccepted ==
  ASSUME IodInv, NEW j \in Client, NEW flags \in SUBSET Settable, MayCreate(j, flags)
  PROVE  /\ io.live = {} /\ Idle /\ Base(use, io)
         /\ ~Refused(j, flags) => Accepted(use, j, flags)
<1>1. use \in {"immediate", "background"}
  BY DEF IodInv
<1>2. io.live = {}
  BY <1>1 DEF MayCreate
<1>3. Idle
  <2>1. SUFFICES ASSUME NEW a \in Actor, Works(a) PROVE FALSE
    BY DEF Idle
  <2>2. AtWork(use, io, loc[a], loc[a].ch)
    BY <2>1, Worker
  <2> QED
    BY <1>2, <2>2 DEF AtWork
<1>4. Base(use, io)
  BY <1>3, IdleGood
<1>5. ~Refused(j, flags) => Accepted(use, j, flags)
  BY <1>1 DEF Refused, Accepted, MayCreate
<1> QED
  BY <1>2, <1>3, <1>4, <1>5

LEMMA CreateStep ==
  ASSUME IodInv, NEW j \in Client, NEW flags \in SUBSET Settable, Create(j, flags)
  PROVE  IodInv'
<1>1. PICK c : c = io.last["unused"]
  OBVIOUS
<1>2. PICK k : k = Opened(j, flags)
  OBVIOUS
<1>3. PICK r : r = Started(k, c, j)
  OBVIOUS
<1>4. PICK own : own = Own(j)
  OBVIOUS
<1>5. /\ loc[j].pc = "start" /\ MayCreate(j, flags)
      /\ \/ Goes(j, [io |-> io, loc |-> At("end", NULL)])
         \/ ~Refused(j, flags) /\ "immediate" \in flags /\ Goes(j, Copy(r, c))
         \/ /\ ~Refused(j, flags) /\ "immediate" \notin flags
            /\ Goes(j, [io |-> PoolFree(k, c), loc |-> At("end", NULL)])
         \/ /\ ~Refused(j, flags) /\ "immediate" \notin flags
            /\ io' = WithHandles(r, own)
            /\ loc' = [loc EXCEPT ![j] = At("end", c), ![Iod] = Wake]
            /\ use' = use
  BY <1>1, <1>2, <1>3, <1>4 DEF Create, Started, WithStatus, WithHandles, Own
<1>6. /\ io.live = {} /\ Idle /\ Base(use, io) /\ use \in {"immediate", "background"}
      /\ ~Refused(j, flags) => Accepted(use, j, flags)
  BY <1>5, CreateAccepted DEF IodInv
<1>7. Fresh(io, j) /\ io \in IoRec /\ j \in Actor
  BY <1>5, <1>6, ConstFacts DEF IodInv, Fresh, Base
<1>8. Taken(io, k, c) /\ k.chn[c] = NewRec(j, flags) /\ c \in Chn
  <2>1. Taken(io, k, c) /\ k.chn[c] = NewRec(j, flags)
    BY <1>1, <1>2, <1>6, OpenedIs
  <2> QED
    BY <2>1 DEF Taken
<1>9. ~Refused(j, flags) =>
        /\ Starts(use, io, r, c, j, flags)
        /\ Alive(use, r, c, j) /\ Has(r, c, "active") /\ CaughtUp(r, c) /\ r.st[j] # "failed"
        /\ (Has(r, c, "push") <=> "push" \in flags)
  <2> SUFFICES ASSUME Accepted(use, j, flags)
               PROVE  /\ Starts(use, io, r, c, j, flags)
                      /\ Alive(use, r, c, j) /\ Has(r, c, "active") /\ CaughtUp(r, c)
                      /\ r.st[j] # "failed" /\ (Has(r, c, "push") <=> "push" \in flags)
    BY <1>6
  <2>1. Starts(use, io, r, c, j, flags)
    BY <1>1, <1>3, <1>6, <1>8, ActivatedIs
  <2> QED
    BY <1>6, <1>7, <1>8, <2>1, StartGood
<1>10. At("end", NULL) \in LocRec /\ At("end", NULL).pc = "end" /\ At("end", c) \in LocRec
       /\ At("end", c).pc = "end" /\ "end" \notin Working
  BY <1>8, AtIs DEF Places, Working
<1>11. CASE Goes(j, [io |-> io, loc |-> At("end", NULL)])
  <2>1. Moved(j) /\ loc'[j] = At("end", NULL) /\ io' = io /\ use' = use
    BY <1>10, <1>11, GoesMoved
  <2>2. Good(use, io', loc'[j])
    BY <1>6, <1>10, <2>1 DEF Good
  <2> QED
    BY <1>6, <1>10, <2>1, <2>2, StartAfter
<1>12. CASE ~Refused(j, flags) /\ "immediate" \in flags /\ Goes(j, Copy(r, c))
  <2>1. use = "immediate" /\ "push" \notin flags
    BY <1>6, <1>12 DEF Accepted
  <2>2. Able(use, r, c, j) /\ CaughtUp(r, c) /\ ~Has(r, c, "push") /\ Hand(use, j)
    BY <1>9, <1>12, <2>1 DEF Able, Sane, Hand, Alive
  <2>3. Fine(use, r, Copy(r, c), c, j, j)
    BY <2>2, CopyFine
  <2>4. PICK p : p = Copy(r, c)
    OBVIOUS
  <2>5. /\ Good(use, p.io, p.loc) /\ p.loc \in LocRec /\ p.loc.pc # "start"
        /\ Others(r, p.io, j) /\ p.io.live \subseteq {c}
        /\ p.loc.pc \in Working => p.loc.ch = c /\ Role(use, j, p.loc)
    BY <2>3, <2>4 DEF Fine
  <2>6. Goes(j, p)
    BY <1>12, <2>4
  <2>7. Moved(j) /\ loc'[j] = p.loc /\ io' = p.io /\ use' = use
    BY <2>5, <2>6, GoesMoved
  <2>8. /\ \A m \in Client \ {j} : io'.out[m] = io.out[m] /\ io'.lines[m] = io.lines[m]
        /\ \A d \in io'.live : io'.chn[d].job = j
    <3>1. r.out = io.out /\ r.lines = io.lines /\ r.chn[c].job = j
      BY <1>9, <1>12 DEF Starts
    <3> QED
      BY <1>8, <2>5, <2>7, <3>1 DEF Others
  <2> QED
    BY <1>6, <2>5, <2>7, <2>8, StartAfter
<1>13. CASE /\ ~Refused(j, flags) /\ "immediate" \notin flags
            /\ Goes(j, [io |-> PoolFree(k, c), loc |-> At("end", NULL)])
  <2>1. use = "background" /\ Base("background", io)
    BY <1>6, <1>13 DEF Accepted
  <2>2. PICK m : m = PoolFree(k, c)
    OBVIOUS
  <2>3. /\ Base("background", m) /\ m.live = {} /\ m.out = io.out /\ m.lines = io.lines
    BY <1>1, <1>6, <1>8, <2>1, <2>2, GivenBack
  <2>4. Moved(j) /\ loc'[j] = At("end", NULL) /\ io' = m /\ use' = use
    BY <1>10, <1>13, <2>2, GoesMoved
  <2>5. Good(use, io', loc'[j])
    BY <1>10, <2>1, <2>3, <2>4 DEF Good
  <2> QED
    BY <1>6, <1>10, <2>3, <2>4, <2>5, StartAfter
<1>14. CASE /\ ~Refused(j, flags) /\ "immediate" \notin flags
            /\ io' = WithHandles(r, own)
            /\ loc' = [loc EXCEPT ![j] = At("end", c), ![Iod] = Wake]
            /\ use' = use
  <2>1. use = "background" /\ Base("background", io)
    BY <1>6, <1>14 DEF Accepted
  <2>2. io.refs = {}
    BY <1>6, <2>1 DEF Base, RefsOK
  <2>3. /\ Alive("background", r, c, j) /\ r.refs = {} /\ r.out = io.out /\ r.lines = io.lines
        /\ CaughtUp(r, c) /\ r.st[j] # "failed"
    BY <1>9, <1>14, <2>1, <2>2 DEF Starts
  <2>4. PICK i : i = WithHandles(r, own)
    OBVIOUS
  <2>5. io' = i
    BY <1>14, <2>4
  <2>6. Alive("background", i, c, j) /\ CloseIs(r, i, own)
    BY <1>4, <2>3, <2>4, HandlesGood
  <2>7. /\ i.chn = r.chn /\ i.live = {c} /\ i.out = io.out /\ i.lines = io.lines /\ i.st = r.st
        /\ i.refs = own /\ i.chn[c].job = j /\ Base("background", i)
    BY <2>3, <2>6 DEF CloseIs, Alive
  <2>8. CaughtUp(i, c) /\ Sane("background", i, c)
    <3>1. Total(i, c) = Total(r, c) /\ \A f : Has(i, c, f) <=> Has(r, c, f)
      BY <2>3, <2>7 DEF Total, Has
    <3>2. CaughtUp(i, c)
      BY <2>3, <2>7, <3>1, CaughtUpSame
    <3>3. Sane("background", i, c)
      BY <1>4, <2>3, <2>7, OwnIs DEF Sane
    <3> QED
      BY <3>2, <3>3
  <2>9. Wake \in LocRec /\ (Wake = loc[Iod] \/ Wake.pc = "ready")
    <3>1. At("ready", NULL) \in LocRec /\ At("ready", NULL).pc = "ready"
      BY AtIs DEF Places
    <3>2. loc[Iod] \in LocRec
      BY ConstFacts DEF IodInv
    <3> QED
      BY <3>1, <3>2 DEF Wake
  <2>10. Moved(j) /\ loc'[j] = At("end", c)
    <3>1. loc \in [Actor -> LocRec] /\ j # Iod /\ Iod \in Actor
      BY ConstFacts DEF IodInv
    <3> QED
      BY <1>7, <1>10, <1>14, <2>9, <3>1 DEF Moved
  <2>11. Good(use, io', loc'[j])
    BY <1>10, <2>1, <2>5, <2>7, <2>8, <2>10 DEF Good
  <2> QED
    BY <1>6, <1>10, <1>14, <2>5, <2>7, <2>10, <2>11, StartAfter
<1> QED
  BY <1>5, <1>11, <1>12, <1>13, <1>14

LEMMA DestroyStep ==
  ASSUME IodInv, NEW j \in Client, Destroy(j)
  PROVE  IodInv'
<1>1. PICK c : c = loc[j].ch
  OBVIOUS
<1>2. /\ loc[j].pc = "end" /\ c \in io.live /\ io.chn[c].job = j /\ ~Has(io, c, "active")
      /\ loc[Iod].ch # c /\ Goes(j, Kill(io, j, c)) /\ j \in Actor
  BY <1>1, ConstFacts DEF Destroy
<1>3. Idle
  <2>1. SUFFICES ASSUME NEW a \in Actor, Works(a) PROVE FALSE
    BY DEF Idle
  <2>2. AtWork(use, io, loc[a], loc[a].ch) /\ (a \in Client => a = io.chn[loc[a].ch].job)
    BY <2>1, Worker
  <2>3. loc[a].ch = c /\ a # Iod
    BY <1>2, <2>2 DEF AtWork
  <2>4. a = j
    BY <1>2, <2>2, <2>3 DEF Actor
  <2> QED
    BY <1>2, <2>1, <2>4 DEF Works, Working
<1>4. Base(use, io) /\ use \in {"immediate", "background"}
  BY <1>3, IdleGood
<1>5. ChnOK(use, io, c) /\ ListsOK(use, io)
  BY <1>2, <1>4 DEF Base
<1>6. use = "background"
  BY <1>2, <1>4, <1>5 DEF ChnOK
<1>7. io.live = {c}
  BY <1>2, <1>5 DEF ListsOK, Near
<1>8. Alive("background", io, c, j)
  BY <1>2, <1>4, <1>6, <1>7 DEF Alive
<1>9. io.st[j] # "copying"
  BY <1>2, <1>8, AliveFlags
<1>10. Fine("background", io, Kill(io, j, c), c, j, j)
  BY <1>2, <1>8, <1>9, KillFine
<1>11. \A b \in Actor \ {j} : ~Works(b)
  BY <1>3 DEF Idle
<1> QED
  BY <1>2, <1>6, <1>8, <1>10, <1>11, FineStep

LEMMA DriverStep ==
  ASSUME IodInv, NEW c \in Chn, DriverWakes(c)
  PROVE  IodInv'
<1>1. /\ c \in io.live /\ ~Has(io, c, "active") /\ io' = ChnWakeup(io, c)
      /\ (\A a \in Actor : loc[a].pc # "end" => loc[a].ch # c) /\ loc' = loc /\ use' = use
  BY DEF DriverWakes
<1>2. Idle
  <2>1. SUFFICES ASSUME NEW a \in Actor, Works(a) PROVE FALSE
    BY DEF Idle
  <2>2. AtWork(use, io, loc[a], loc[a].ch)
    BY <2>1, Worker
  <2>3. loc[a].ch = c /\ loc[a].pc # "end"
    BY <1>1, <2>1, <2>2 DEF AtWork, Works, Working
  <2> QED
    BY <1>1, <2>3
<1>3. PICK j : j = io.chn[c].job
  OBVIOUS
<1>4. /\ Base(use, io) /\ CaughtUp(io, c) /\ Sane(use, io, c)
      /\ use \in {"immediate", "background"}
  BY <1>1, <1>2, IdleGood
<1>5. ChnOK(use, io, c) /\ ListsOK(use, io)
  BY <1>1, <1>4 DEF Base
<1>6. use = "background" /\ io.live = {c}
  BY <1>1, <1>4, <1>5 DEF ChnOK, ListsOK, Near
<1>7. Alive("background", io, c, j) /\ Sane("background", io, c)
  BY <1>3, <1>4, <1>6 DEF Alive
<1>8. PICK i : i = ChnWakeup(io, c)
  OBVIOUS
<1>9. /\ Alive("background", i, c, j) /\ SameButActive(io, i, c) /\ Total(i, c) = Total(io, c)
  BY <1>7, <1>8, WakeupGood
<1>10. /\ i.live = {c} /\ i.refs = io.refs /\ i.out = io.out /\ i.lines = io.lines
       /\ i.st = io.st /\ i.chn[c].job = j /\ i.chn[c].blk_from = io.chn[c].blk_from
       /\ Has(i, c, "push") <=> Has(io, c, "push")
  BY <1>3, <1>6, <1>9 DEF SameButActive, ChnOnly
<1>11. CaughtUp(i, c)
  BY <1>3, <1>4, <1>9, <1>10, CaughtUpSame
<1>12. Sane("background", i, c)
  BY <1>3, <1>7, <1>10 DEF Sane
<1>13. loc[Iod].pc \notin Working /\ Iod \in Actor
  BY <1>2, ConstFacts DEF Idle, Works
<1>14. Good("background", i, loc[Iod])
  BY <1>9, <1>10, <1>11, <1>12, <1>13 DEF Good, Alive
<1>15. j \in Client /\ loc[j].pc # "start"
  BY <1>1, <1>3, <1>7, AliveTypes DEF IodInv
<1>16. After(Iod, j)
  <2>1. \A b \in Actor : loc[b].pc \notin Working
    BY <1>2 DEF Idle, Works
  <2>2. \A m \in Client : loc[m].pc = "start" => m # j
    BY <1>15
  <2> QED
    BY <1>1, <1>8, <1>10, <2>1, <2>2, ConstFacts DEF After, IodInv
<1> QED
  BY <1>1, <1>6, <1>8, <1>13, <1>14, <1>15, <1>16, Preserved

-----------------------------------------------------------------------------
(* The invariant.                                                            *)

LEMMA InitRec ==
  ASSUME Init
  PROVE  /\ io \in IoRec /\ io.live = {} /\ io.refs = {} /\ io.table = {}
         /\ io.prev = PoolPrev(NumChn) /\ io.next = PoolNext(NumChn)
         /\ io.first["unused"] = 1 /\ io.last["unused"] = NumChn
         /\ \A l \in Lists \ {"unused"} : io.first[l] = NULL /\ io.last[l] = NULL
         /\ \A j \in Client : io.out[j] = <<>> /\ io.lines[j] = 0 /\ io.st[j] = "new"
<1>1. /\ io.live = {} /\ io.refs = {} /\ io.table = {} /\ io.polling = 0
      /\ io.prev = PoolPrev(NumChn) /\ io.next = PoolNext(NumChn)
      /\ io.first = [used |-> NULL, unused |-> 1, active |-> NULL, inactive |-> NULL]
      /\ io.last = [used |-> NULL, unused |-> NumChn, active |-> NULL, inactive |-> NULL]
      /\ io.chn = [c \in Chn |-> [job |-> Iod, flags |-> {}, blk_from |-> 0,
                                  dst |-> <<>>, rest |-> 0]]
      /\ io.out = [j \in Client |-> <<>>] /\ io.lines = [j \in Client |-> 0]
      /\ io.st = [j \in Client |-> "new"]
  BY DEF Init
<1>2. /\ io = [f \in {"prev", "next", "first", "last", "chn", "live", "polling", "table", "refs",
                      "out", "lines", "st"} |-> io[f]]
  BY DEF Init
<1>3. 1 \in Chn /\ NumChn \in Chn
  BY ConstFacts DEF Chn
<1>4. io.prev \in [Chn -> Chn \cup {NULL}] /\ io.next \in [Chn -> Chn \cup {NULL}]
  BY <1>1, ConstFacts DEF PoolPrev, PoolNext, Chn, NULL
<1>5. io.first \in [Lists -> Chn \cup {NULL}] /\ io.last \in [Lists -> Chn \cup {NULL}]
  BY <1>1, <1>3 DEF Lists
<1>6. io.chn \in [Chn -> ChnRec]
  <2>1. [job |-> Iod, flags |-> {}, blk_from |-> 0, dst |-> <<>>, rest |-> 0] \in ChnRec
    BY ConstFacts, EmptySeq DEF ChnRec
  <2> QED
    BY <1>1, <2>1
<1>7. io.out \in [Client -> Seq(Nat)] /\ io.lines \in [Client -> Nat] /\ io.st \in [Client -> Status]
  BY <1>1, EmptySeq DEF Status
<1>8. io \in IoRec
  <2>1. /\ io.live \in SUBSET Chn /\ io.polling \in Int
        /\ io.table \in SUBSET Handle /\ io.refs \in SUBSET Handle
    BY <1>1
  <2> QED
    BY <1>2, <1>4, <1>5, <1>6, <1>7, <2>1 DEF IoRec
<1>9. \A l \in Lists \ {"unused"} : io.first[l] = NULL /\ io.last[l] = NULL
  BY <1>1 DEF Lists
<1> QED
  BY <1>1, <1>8, <1>9

LEMMA Initially ==
  ASSUME Init, OneAtATime
  PROVE  IodInv
<1>1. /\ io \in IoRec /\ io.live = {} /\ io.refs = {} /\ io.table = {}
      /\ io.prev = PoolPrev(NumChn) /\ io.next = PoolNext(NumChn)
      /\ io.first["unused"] = 1 /\ io.last["unused"] = NumChn
      /\ \A l \in Lists \ {"unused"} : io.first[l] = NULL /\ io.last[l] = NULL
      /\ \A j \in Client : io.out[j] = <<>> /\ io.lines[j] = 0 /\ io.st[j] = "new"
  BY InitRec
<1>2. use \in {"immediate", "background"}
  BY IodAssumption DEF Init, OneAtATime
<1>3. NumChn \in Chn /\ io.next[NumChn] = NULL
  BY <1>1, ConstFacts DEF PoolNext, Chn
<1>4. OnChain(io, "unused", Chn \ io.live)
  <2>1. IsChain(Chn, PoolNext(NumChn), PoolPrev(NumChn), 1, NumChn)
    BY PoolChain, ConstFacts DEF Chn
  <2>2. Chn \ io.live = Chn
    BY <1>1
  <2> QED
    BY <1>1, <2>1, <2>2 DEF OnChain
<1>5. ListsOK(use, io)
  <2>1. Near(io, NumChn)
    BY <1>1, <1>3 DEF Near
  <2>2. Placed(io)
    BY <1>1 DEF Placed, Alone
  <2>3. io.first["active"] = NULL
    BY <1>1 DEF Lists
  <2> QED
    BY <1>3, <1>4, <2>1, <2>2, <2>3 DEF ListsOK
<1>6. \A j \in Client : OutOK(io, j)
  <2> TAKE j \in Client
  <2>1. Limit(io, j) \in Nat
    BY <1>1, ConstFacts DEF Limit
  <2>2. io.out[j] = <<>> /\ io.st[j] # "done" /\ Len(<<>>) = 0 /\ Bytes(1, 0) = <<>>
    BY <1>1, NoBytes
  <2> QED
    BY <2>1, <2>2 DEF OutOK
<1>7. Base(use, io)
  BY <1>1, <1>5, <1>6 DEF Base, RefsOK
<1>8. \A a \in Actor : loc[a] \in LocRec /\ ~Works(a)
  <2>1. ASSUME NEW pc \in {"asleep", "start"},
               NEW p, p = [pc |-> pc, ch |-> NULL, data |-> <<>>, restart |-> FALSE]
        PROVE  p \in LocRec /\ p.pc = pc
    BY <2>1, EmptySeq DEF LocRec, Places
  <2>2. \A a \in Actor : loc[a] = [pc |-> IF a = Iod THEN "asleep" ELSE "start",
                                   ch |-> NULL, data |-> <<>>, restart |-> FALSE]
    BY DEF Init
  <2>3. ASSUME NEW a \in Actor PROVE loc[a] \in LocRec /\ loc[a].pc \in {"asleep", "start"}
    <3>1. PICK pc \in {"asleep", "start"} : pc = IF a = Iod THEN "asleep" ELSE "start"
      OBVIOUS
    <3>2. loc[a] = [pc |-> pc, ch |-> NULL, data |-> <<>>, restart |-> FALSE]
      BY <2>2, <3>1
    <3> QED
      BY <2>1, <3>2
  <2> QED
    BY <2>3 DEF Works, Working
<1>9. loc \in [Actor -> LocRec]
  BY <1>8 DEF Init
<1>10. Good(use, io, At("end", NULL))
  BY <1>1, <1>7 DEF Good, At, Working
<1> QED
  BY <1>1, <1>2, <1>8, <1>9, <1>10, ConstFacts DEF IodInv

LEMMA Stepwise ==
  ASSUME IodInv, [Next]_vars
  PROVE  IodInv'
<1>1. CASE \E a \in Actor : GetFile(a) \/ GetLine(a) \/ GetDst(a) \/ NoBuffer(a) \/ CloseTo(a) \/ Killed(a)
  BY <1>1, GetFileStep, GetLineStep, GetDstStep, NoBufferStep, CloseToStep, KilledStep
<1>2. CASE Pushed \/ Wakes \/ IntrCont
  BY <1>2, PushedStep, WakesStep, IntrContStep
<1>3. CASE \E j \in Client : Destroy(j) \/ \E flags \in SUBSET Settable : Create(j, flags)
  BY <1>3, DestroyStep, CreateStep
<1>4. CASE \E c \in Chn : DriverWakes(c)
  BY <1>4, DriverStep
<1>5. CASE UNCHANGED vars
  BY <1>5, Aside DEF vars, IodInv
<1> QED
  BY <1>1, <1>2, <1>3, <1>4, <1>5 DEF Next

LEMMA Always ==
  ASSUME OneAtATime
  PROVE  Spec => []IodInv
<1>1. Init => IodInv
  BY Initially
<1>2. IodInv /\ [Next]_vars => IodInv'
  BY Stepwise
<1> QED
  BY <1>1, <1>2, PTL DEF Spec

-----------------------------------------------------------------------------
(* What follows from it.                                                     *)

LEMMA AlwaysBase ==
  ASSUME IodInv
  PROVE  Base(use, io) /\ use \in {"immediate", "background"}
<1>1. Idle \/ \E a \in Actor : Works(a)
  BY DEF Idle
<1> QED
  BY <1>1, Worker, IdleGood DEF Alive, IodInv

LEMMA NoneOrOne ==
  ASSUME io \in IoRec, NEW l \in Lists
  PROVE  /\ Alone(io, l, NULL) => OnChain(io, l, {})
         /\ \A c \in Chn : Alone(io, l, c) /\ io.next[c] = NULL /\ io.prev[c] = NULL
                             => OnChain(io, l, {c})
BY ConstFacts DEF Alone, OnChain, IsChain, Reaches

LEMMA ExactIfInv ==
  ASSUME IodInv
  PROVE  ChannelsExact
<1>1. Base(use, io)
  BY AlwaysBase
<1>2. io \in IoRec /\ ListsOK(use, io) /\ RefsOK(use, io) /\ io.live \in SUBSET Chn
  BY <1>1, IoFields DEF Base
<1>3. IsList("unused") /\ Members("unused") = Chn \ io.live
  BY <1>2, ChainIsList DEF ListsOK, Lists
<1>4. ASSUME use = "background"
      PROVE  /\ IsList("active")   /\ Members("active")   = {c \in io.live : Has(io, c, "active")}
             /\ IsList("inactive") /\ Members("inactive") = {c \in io.live : ~Has(io, c, "active")}
  <2>1. PICK A : A = {c \in io.live : Has(io, c, "active")}
    OBVIOUS
  <2>2. PICK B : B = {c \in io.live : ~Has(io, c, "active")}
    OBVIOUS
  <2>3. Placed(io) /\ \E c \in Chn : io.live \subseteq {c}
    BY <1>2, <1>4 DEF ListsOK, Near
  <2>4. OnChain(io, "active", A) /\ OnChain(io, "inactive", B)
    <3>1. "active" \in Lists \ {"unused"} /\ "inactive" \in Lists \ {"unused"}
      BY DEF Lists
    <3>2. CASE io.live = {}
      <4>1. Alone(io, "active", NULL) /\ Alone(io, "inactive", NULL) /\ A = {} /\ B = {}
        BY <2>1, <2>2, <2>3, <3>1, <3>2 DEF Placed
      <4> QED
        BY <1>2, <3>1, <4>1, NoneOrOne
    <3>3. CASE io.live # {}
      <4>1. PICK c \in Chn : io.live = {c}
        BY <2>3, <3>3
      <4>2. /\ io.next[c] = NULL /\ io.prev[c] = NULL
            /\ IF Has(io, c, "active") THEN Alone(io, "active", c) /\ Alone(io, "inactive", NULL)
                                       ELSE Alone(io, "active", NULL) /\ Alone(io, "inactive", c)
        BY <2>3, <4>1 DEF Placed
      <4>3. IF Has(io, c, "active") THEN A = {c} /\ B = {} ELSE A = {} /\ B = {c}
        BY <2>1, <2>2, <4>1
      <4> QED
        BY <1>2, <3>1, <4>2, <4>3, NoneOrOne
    <3> QED
      BY <3>2, <3>3
  <2>5. A \in SUBSET Chn /\ B \in SUBSET Chn /\ "active" \in Lists /\ "inactive" \in Lists
    BY <1>2, <2>1, <2>2 DEF Lists
  <2>6. IsList("active") /\ Members("active") = A /\ IsList("inactive") /\ Members("inactive") = B
    BY <1>2, <2>4, <2>5, ChainIsList
  <2> QED
    BY <2>1, <2>2, <2>6
<1>5. ASSUME use = "background", NEW c \in io.live
      PROVE  BeingKilled(c) \/ \A e \in Ends : <<io.chn[c].job, e>> \in io.refs
  <2>1. CASE Idle
    BY <1>5, <2>1, IdleGood DEF Sane
  <2>2. CASE ~Idle
    <3>1. PICK a \in Actor : Works(a)
      BY <2>2 DEF Idle
    <3>2. AtWork(use, io, loc[a], loc[a].ch)
      BY <3>1, Worker
    <3>3. loc[a].ch = c
      BY <1>5, <3>2 DEF AtWork
    <3>4. CASE loc[a].pc \in {"close_to", "discard"}
      BY <3>3, <3>4 DEF BeingKilled
    <3>5. CASE loc[a].pc \in {"src", "dst", "push"}
      BY <1>5, <3>2, <3>3, <3>5 DEF AtWork, Sane
    <3> QED
      BY <3>1, <3>4, <3>5 DEF Works, Working
  <2> QED
    BY <2>1, <2>2
<1> QED
  BY <1>2, <1>3, <1>4, <1>5 DEF ChannelsExact, RefsOK

LEMMA BeginningOf ==
  ASSUME NEW m \in Nat, NEW n \in Nat, n <= m
  PROVE  SubSeq(Bytes(1, m), 1, n) = Bytes(1, n)
<1>1. PICK s : s = Bytes(0 + 1, m)
  OBVIOUS
<1>2. Splits(s, 0, m, n)
  BY <1>1 DEF Splits
<1>3. SubSeq(s, 1, n) = Bytes(0 + 1, 0 + n)
  BY <1>2, BytesCut
<1>4. 0 + 1 = 1 /\ 0 + n = n
  OBVIOUS
<1> QED
  BY <1>1, <1>3, <1>4

LEMMA InOrderIfInv ==
  ASSUME IodInv
  PROVE  CopiedInOrder
<1>1. Base(use, io)
  BY AlwaysBase
<1>2. io \in IoRec /\ (\E c \in Chn : io.live \subseteq {c})
  BY <1>1 DEF Base, ListsOK, Near
<1> SUFFICES ASSUME NEW j \in Client
             PROVE  /\ io.out[j] \o Pending(j) = SubSeq(Source(j), 1, Len(io.out[j]) + Len(Pending(j)))
                    /\ io.st[j] = "done" => io.out[j] = Source(j)
  BY DEF CopiedInOrder
<1>3. PICK z : z = Limit(io, j)
  OBVIOUS
<1>4. z \in Nat /\ io.out[j] \in Seq(Nat) /\ Len(io.out[j]) \in Nat
  BY <1>2, <1>3, IoFields, ConstFacts, LenProperties DEF Limit
<1>5. Source(j) = Bytes(1, z)
  BY <1>3 DEF Source, Limit
<1>6. /\ io.out[j] = Bytes(1, Len(io.out[j])) /\ Len(io.out[j]) <= z
      /\ io.st[j] = "done" => Len(io.out[j]) = z
  BY <1>1, <1>3 DEF Base, OutOK
<1>7. io.st[j] = "done" => io.out[j] = Source(j)
  BY <1>5, <1>6
<1>8. PICK own : own = {c \in io.live : io.chn[c].job = j}
  OBVIOUS
<1>9. Pending(j) = IF own = {} THEN <<>> ELSE io.chn[CHOOSE c \in own : TRUE].dst
  BY <1>8 DEF Pending
<1>10. CASE own = {}
  <2>1. Pending(j) = <<>> /\ Len(<<>>) = 0 /\ io.out[j] \o <<>> = io.out[j]
    BY <1>4, <1>9, <1>10, NoBytes, ConcatEmptySeq
  <2>2. SubSeq(Bytes(1, z), 1, Len(io.out[j])) = Bytes(1, Len(io.out[j]))
    BY <1>4, <1>6, BeginningOf
  <2>3. Len(io.out[j]) + 0 = Len(io.out[j])
    BY <1>4
  <2> QED
    BY <1>5, <1>6, <1>7, <2>1, <2>2, <2>3
<1>11. CASE own # {}
  <2>1. PICK c \in Chn : io.live = {c} /\ own = {c} /\ io.chn[c].job = j
    BY <1>2, <1>8, <1>11
  <2>2. Pending(j) = io.chn[c].dst
    BY <1>9, <2>1
  <2>3. Alive(use, io, c, j)
    BY <1>1, <2>1 DEF Alive
  <2>4. /\ io.out[j] \o io.chn[c].dst = Bytes(1, Total(io, c)) /\ Total(io, c) <= z
        /\ Total(io, c) \in Nat
    BY <1>3, <2>3, AliveTypes, AliveData, ZenonT(60) DEF Keeps
  <2>5. SubSeq(Bytes(1, z), 1, Total(io, c)) = Bytes(1, Total(io, c))
    BY <1>4, <2>4, BeginningOf
  <2>6. Total(io, c) = Len(io.out[j]) + Len(Pending(j))
    BY <2>1, <2>2 DEF Total
  <2> QED
    BY <1>5, <1>7, <2>2, <2>4, <2>5, <2>6
<1> QED
  BY <1>10, <1>11

-----------------------------------------------------------------------------
(* Theorems.                                                                 *)

(* While there is one channel at a time, whatever the lengths, the block      *)
(* sizes and the number of records: the free records are a list that holds    *)
(* all that is not in use; a channel is on the list that its flag says, and   *)
(* on no other; and the daemon refers to the objects of the channels and to   *)
(* no others (ChnSleep, ChnWakeup, Kill and PoolFree of iod.c and pool.c).    *)
THEOREM ChannelsAlwaysExact ==
  ASSUME OneAtATime
  PROVE  Spec => []ChannelsExact
<1>1. Spec => []IodInv
  BY Always
<1>2. IodInv => ChannelsExact
  BY ExactIfInv
<1> QED
  BY <1>1, <1>2, PTL

(* Under the same assumption, what has been sent or buffered for a            *)
(* destination is a beginning of its source, also when bref() fails in the    *)
(* middle of a block, and a job that was done was sent all of it (Pour and    *)
(* Return, iod_copy_buf and iod_process_active).                              *)
THEOREM CopiesInOrder ==
  ASSUME OneAtATime
  PROVE  Spec => []CopiedInOrder
<1>1. Spec => []IodInv
  BY Always
<1>2. IodInv => CopiedInOrder
  BY InOrderIfInv
<1> QED
  BY <1>1, <1>2, PTL
=============================================================================
