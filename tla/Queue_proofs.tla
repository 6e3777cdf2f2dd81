---------------------------- MODULE Queue_proofs ----------------------------
(***************************************************************************)
(* What the operations of Queue.tla do to whole lists, proved for lists of   *)
(* any length.  A ring or a chain is described by the set of its members;   *)
(* that it is one piece is said by the sets closed under ->next.            *)
(***************************************************************************)
EXTENDS Queue, FiniteSetTheorems, TLAPS

-----------------------------------------------------------------------------
(* Lists as sets of records.                                               *)

\* The records of P, linked by nx and pv, form one cycle.
IsRing(P, nx, pv) ==
  /\ \A p \in P : nx[p] \in P /\ pv[p] \in P /\ pv[nx[p]] = p /\ nx[pv[p]] = p
  /\ \A S \in SUBSET P : S # {} /\ (\A p \in S : nx[p] \in S) => S = P

\* Everything in P is reached from h along nx, whether that ends or not.
Reaches(P, nx, h) ==
  \A S \in SUBSET P : h \in S /\ (\A p \in S : nx[p] \in S \cup {NULL}) => S = P

\* The records of P form one list from h to t with both ends NULL.
IsChain(P, nx, pv, h, t) ==
  /\ NULL \notin P
  /\ IF P = {} THEN h = NULL /\ t = NULL ELSE h \in P /\ t \in P
  /\ \A p \in P : IF p = t THEN nx[p] = NULL ELSE nx[p] \in P /\ pv[nx[p]] = p
  /\ \A p \in P : IF p = h THEN pv[p] = NULL ELSE pv[p] \in P /\ nx[pv[p]] = p
  /\ Reaches(P, nx, h)

-----------------------------------------------------------------------------
(* Rings.                                                                  *)

LEMMA RingFrame ==
  ASSUME NEW P, NEW nx, NEW pv, NEW nx2, NEW pv2, IsRing(P, nx, pv),
         \A p \in P : nx2[p] = nx[p] /\ pv2[p] = pv[p]
  PROVE  IsRing(P, nx2, pv2)
<1>1. \A p \in P : nx2[p] \in P /\ pv2[p] \in P /\ pv2[nx2[p]] = p /\ nx2[pv2[p]] = p
  BY DEF IsRing
<1>2. ASSUME NEW S \in SUBSET P, S # {}, \A p \in S : nx2[p] \in S
      PROVE  S = P
  <2>1. \A p \in S : nx[p] \in S
    BY <1>2
  <2> QED
    BY <1>2, <2>1 DEF IsRing
<1> QED
  BY <1>1, <1>2 DEF IsRing

LEMMA RingEmpty ==
  ASSUME NEW nx, NEW pv
  PROVE  IsRing({}, nx, pv)
BY DEF IsRing

LEMMA RingOfOne ==
  ASSUME NEW r, NEW nx, NEW pv, nx[r] = r, pv[r] = r
  PROVE  IsRing({r}, nx, pv)
BY DEF IsRing

\* A record that points back to itself is alone in its ring.
LEMMA RingAlone ==
  ASSUME NEW P, NEW nx, NEW pv, IsRing(P, nx, pv), NEW r \in P, pv[r] = r \/ nx[r] = r
  PROVE  P = {r} /\ pv[r] = r /\ nx[r] = r
<1>1. nx[r] = r /\ pv[r] = r
  BY DEF IsRing
<1>2. {r} \in SUBSET P /\ {r} # {} /\ \A p \in {r} : nx[p] \in {r}
  BY <1>1
<1> QED
  BY <1>1, <1>2 DEF IsRing

\* r is put between n and the record before it.
LEMMA RingInsert ==
  ASSUME NEW P, NEW nx, NEW pv, NEW nx2, NEW pv2, IsRing(P, nx, pv),
         NEW n \in P, NEW r, r \notin P,
         nx2[r] = n, nx2[pv[n]] = r, \A x \in P \ {pv[n]} : nx2[x] = nx[x],
         pv2[r] = pv[n], pv2[n] = r, \A x \in P \ {n} : pv2[x] = pv[x]
  PROVE  IsRing(P \cup {r}, nx2, pv2)
<1> DEFINE Q == P \cup {r}
<1>0. pv[n] \in P /\ nx[pv[n]] = n
  BY DEF IsRing
<1>1. ASSUME NEW p \in Q
      PROVE  nx2[p] \in Q /\ pv2[p] \in Q /\ pv2[nx2[p]] = p /\ nx2[pv2[p]] = p
  <2>1. CASE p = r
    BY <1>0, <2>1
  <2>2. CASE p # r
    <3>0. p \in P
      BY <2>2
    <3>1. nx2[p] \in Q /\ pv2[nx2[p]] = p
      <4>1. CASE p = pv[n]
        BY <4>1
      <4>2. CASE p # pv[n]
        <5>1. nx2[p] = nx[p] /\ nx[p] \in P /\ pv[nx[p]] = p
          BY <3>0, <4>2 DEF IsRing
        <5>2. nx[p] # n
          BY <4>2, <5>1
        <5> QED
          BY <5>1, <5>2
      <4> QED
        BY <4>1, <4>2
    <3>2. pv2[p] \in Q /\ nx2[pv2[p]] = p
      <4>1. CASE p = n
        BY <4>1
      <4>2. CASE p # n
        <5>1. pv2[p] = pv[p] /\ pv[p] \in P /\ nx[pv[p]] = p
          BY <3>0, <4>2 DEF IsRing
        <5>2. pv[p] # pv[n]
          BY <1>0, <4>2, <5>1
        <5> QED
          BY <5>1, <5>2
      <4> QED
        BY <4>1, <4>2
    <3> QED
      BY <3>1, <3>2
  <2> QED
    BY <2>1, <2>2
<1>2. ASSUME NEW S \in SUBSET Q, S # {}, \A p \in S : nx2[p] \in S
      PROVE  S = Q
  <2> DEFINE T == S \ {r}
  <2>1. T \in SUBSET P
    OBVIOUS
  <2>2. T # {}
    <3>1. CASE r \in S
      BY <1>2, <3>1
    <3>2. CASE r \notin S
      BY <1>2, <3>2
    <3> QED
      BY <3>1, <3>2
  <2>3. ASSUME NEW p \in T
        PROVE  nx[p] \in T
    <3>1. CASE p = pv[n]
      BY <1>0, <1>2, <3>1
    <3>2. CASE p # pv[n]
      <4>1. nx2[p] = nx[p] /\ nx[p] \in P
        BY <2>1, <3>2 DEF IsRing
      <4> QED
        BY <1>2, <4>1
    <3> QED
      BY <3>1, <3>2
  <2>4. T = P
    BY <2>1, <2>2, <2>3 DEF IsRing
  <2>5. r \in S
    BY <1>0, <1>2, <2>4
  <2> QED
    BY <2>4, <2>5
<1> QED
  BY <1>1, <1>2 DEF IsRing

\* r is taken out and the records around it are linked to each other.
LEMMA RingRemove ==
  ASSUME NEW P, NEW nx, NEW pv, NEW nx2, NEW pv2, IsRing(P, nx, pv), NEW r \in P, pv[r] # r,
         nx2[pv[r]] = nx[r], \A x \in P \ {pv[r], r} : nx2[x] = nx[x],
         pv2[nx[r]] = pv[r], \A x \in P \ {nx[r], r} : pv2[x] = pv[x]
  PROVE  IsRing(P \ {r}, nx2, pv2) /\ P \ {r} # {} /\ nx[r] \in P \ {r} /\ pv[r] \in P \ {r}
<1> DEFINE Q == P \ {r}
<1>0. /\ pv[r] \in Q /\ nx[pv[r]] = r
      /\ nx[r] \in Q /\ pv[nx[r]] = r
  BY DEF IsRing
<1>1. ASSUME NEW p \in Q
      PROVE  nx2[p] \in Q /\ pv2[p] \in Q /\ pv2[nx2[p]] = p /\ nx2[pv2[p]] = p
  <2>1. nx2[p] \in Q /\ pv2[nx2[p]] = p
    <3>1. CASE p = pv[r]
      BY <1>0, <3>1
    <3>2. CASE p # pv[r]
      <4>1. nx2[p] = nx[p] /\ nx[p] \in P /\ pv[nx[p]] = p
        BY <3>2 DEF IsRing
      <4>2. nx[p] # r /\ nx[p] # nx[r]
        BY <1>0, <3>2, <4>1
      <4> QED
        BY <4>1, <4>2
    <3> QED
      BY <3>1, <3>2
  <2>2. pv2[p] \in Q /\ nx2[pv2[p]] = p
    <3>1. CASE p = nx[r]
      BY <1>0, <3>1
    <3>2. CASE p # nx[r]
      <4>1. pv2[p] = pv[p] /\ pv[p] \in P /\ nx[pv[p]] = p
        BY <3>2 DEF IsRing
      <4>2. pv[p] # r /\ pv[p] # pv[r]
        BY <1>0, <3>2, <4>1
      <4> QED
        BY <4>1, <4>2
    <3> QED
      BY <3>1, <3>2
  <2> QED
    BY <2>1, <2>2
<1>2. ASSUME NEW S \in SUBSET Q, S # {}, \A p \in S : nx2[p] \in S
      PROVE  S = Q
  <2> DEFINE T == IF pv[r] \in S THEN S \cup {r} ELSE S
  <2>1. T \in SUBSET P /\ T # {}
    BY <1>2
  <2>2. ASSUME NEW p \in T
        PROVE  nx[p] \in T
    <3>1. CASE p = r
      BY <1>0, <1>2, <3>1
    <3>2. CASE p = pv[r]
      BY <1>0, <3>2
    <3>3. CASE p # r /\ p # pv[r]
      <4>1. nx2[p] = nx[p] /\ p \in S
        BY <3>3
      <4> QED
        BY <1>2, <4>1
    <3> QED
      BY <3>1, <3>2, <3>3
  <2>3. T = P
    BY <2>1, <2>2 DEF IsRing
  <2> QED
    BY <2>3
<1>3. IsRing(Q, nx2, pv2)
  BY <1>1, <1>2 DEF IsRing
<1> QED
  BY <1>0, <1>3

\* A ring is reached from each of its records.
LEMMA RingReaches ==
  ASSUME NEW P, NEW nx, NEW pv, IsRing(P, nx, pv), NULL \notin P, NEW h \in P
  PROVE  Reaches(P, nx, h)
<1> SUFFICES ASSUME NEW S \in SUBSET P, h \in S, \A p \in S : nx[p] \in S \cup {NULL}
             PROVE  S = P
  BY DEF Reaches
<1>1. \A p \in S : nx[p] \in S
  BY DEF IsRing
<1> QED
  BY <1>1 DEF IsRing

-----------------------------------------------------------------------------
(* Chains.                                                                 *)

LEMMA ChainFrame ==
  ASSUME NEW P, NEW nx, NEW pv, NEW nx2, NEW pv2, NEW h, NEW t, IsChain(P, nx, pv, h, t),
         \A p \in P : nx2[p] = nx[p] /\ pv2[p] = pv[p]
  PROVE  IsChain(P, nx2, pv2, h, t)
<1>1. /\ \A p \in P : IF p = t THEN nx2[p] = NULL ELSE nx2[p] \in P /\ pv2[nx2[p]] = p
      /\ \A p \in P : IF p = h THEN pv2[p] = NULL ELSE pv2[p] \in P /\ nx2[pv2[p]] = p
  BY DEF IsChain
<1>2. ASSUME NEW S \in SUBSET P, h \in S, \A p \in S : nx2[p] \in S \cup {NULL}
      PROVE  S = P
  <2>1. \A p \in S : nx[p] \in S \cup {NULL}
    BY <1>2
  <2> QED
    BY <1>2, <2>1 DEF IsChain, Reaches
<1>3. Reaches(P, nx2, h)
  BY <1>2 DEF Reaches
<1> QED
  BY <1>1, <1>3 DEF IsChain

\* r is linked behind the last record.
LEMMA ChainPush ==
  ASSUME NEW P, NEW nx, NEW pv, NEW h, NEW t, IsChain(P, nx, pv, h, t),
         NEW r, r \notin P, r # NULL, NEW nx2, NEW pv2, NEW h2,
         nx2[r] = NULL, t # NULL => nx2[t] = r, \A x \in P \ {t} : nx2[x] = nx[x],
         pv2[r] = t, \A x \in P : pv2[x] = pv[x],
         h2 = IF t = NULL THEN r ELSE h
  PROVE  IsChain(P \cup {r}, nx2, pv2, h2, r)
<1> DEFINE Q == P \cup {r}
<1>1. CASE P = {}
  <2>1. t = NULL /\ h2 = r
    BY <1>1 DEF IsChain
  <2>2. Reaches({r}, nx2, r)
    BY DEF Reaches
  <2> QED
    BY <1>1, <2>1, <2>2 DEF IsChain
<1>2. CASE P # {}
  <2>1. h \in P /\ t \in P /\ NULL \notin P /\ t # NULL /\ h2 = h
    BY <1>2 DEF IsChain
  <2>2. ASSUME NEW p \in Q
        PROVE  IF p = r THEN nx2[p] = NULL ELSE nx2[p] \in Q /\ pv2[nx2[p]] = p
    BY <2>1 DEF IsChain
  <2>3. ASSUME NEW p \in Q
        PROVE  IF p = h2 THEN pv2[p] = NULL ELSE pv2[p] \in Q /\ nx2[pv2[p]] = p
    <3>1. CASE p = r
      BY <2>1, <3>1
    <3>2. CASE p = h
      BY <2>1, <3>2 DEF IsChain
    <3>3. CASE p # r /\ p # h
      <4>1. pv2[p] = pv[p] /\ pv[p] \in P /\ nx[pv[p]] = p
        BY <3>3 DEF IsChain
      <4>2. pv[p] # t
        BY <2>1, <3>3, <4>1 DEF IsChain
      <4> QED
        BY <2>1, <3>3, <4>1, <4>2
    <3> QED
      BY <3>1, <3>2, <3>3
  <2>4. ASSUME NEW S \in SUBSET Q, h2 \in S, \A p \in S : nx2[p] \in S \cup {NULL}
        PROVE  S = Q
    <3> DEFINE T == S \ {r}
    <3>1. T \in SUBSET P /\ h \in T
      BY <2>1, <2>4
    <3>2. ASSUME NEW p \in T
          PROVE  nx[p] \in T \cup {NULL}
      <4>1. CASE p = t
        BY <3>1, <4>1 DEF IsChain
      <4>2. CASE p # t
        <5>1. nx2[p] = nx[p] /\ nx[p] \in P
          BY <3>1, <4>2 DEF IsChain
        <5> QED
          BY <2>1, <2>4, <5>1
      <4> QED
        BY <4>1, <4>2
    <3>3. T = P
      BY <3>1, <3>2 DEF IsChain, Reaches
    <3>4. r \in S
      BY <2>1, <2>4, <3>3
    <3> QED
      BY <3>3, <3>4
  <2>5. Reaches(Q, nx2, h2)
    BY <2>4 DEF Reaches
  <2> QED
    BY <2>1, <2>2, <2>3, <2>5 DEF IsChain
<1> QED
  BY <1>1, <1>2

\* The last record is unlinked; it may keep its own links.
LEMMA ChainPop ==
  ASSUME NEW P, NEW nx, NEW pv, NEW h, NEW t, IsChain(P, nx, pv, h, t), P # {},
         NEW nx2, NEW h2,
         pv[t] # NULL => nx2[pv[t]] = NULL, \A x \in P \ {pv[t], t} : nx2[x] = nx[x],
         h2 = IF pv[t] = NULL THEN NULL ELSE h
  PROVE  IsChain(P \ {t}, nx2, pv, h2, pv[t])
<1> DEFINE Q == P \ {t}
           u == pv[t]
<1>0. h \in P /\ t \in P /\ NULL \notin P /\ nx[t] = NULL
  BY DEF IsChain
<1>1. CASE h = t
  <2>1. u = NULL /\ h2 = NULL
    BY <1>0, <1>1 DEF IsChain
  <2>2. P = {t}
    <3>1. {t} \in SUBSET P /\ h \in {t} /\ \A p \in {t} : nx[p] \in {t} \cup {NULL}
      BY <1>0, <1>1
    <3> QED
      BY <3>1 DEF IsChain, Reaches
  <2>3. Reaches({}, nx2, NULL)
    BY DEF Reaches
  <2> QED
    BY <2>1, <2>2, <2>3 DEF IsChain
<1>2. CASE h # t
  <2>1. u \in Q /\ nx[u] = t /\ u # NULL /\ h2 = h /\ h \in Q /\ nx2[u] = NULL
    BY <1>0, <1>2 DEF IsChain
  <2> HIDE DEF u
  <2>2. ASSUME NEW p \in Q
        PROVE  IF p = u THEN nx2[p] = NULL ELSE nx2[p] \in Q /\ pv[nx2[p]] = p
    <3>1. CASE p = u
      BY <2>1, <3>1
    <3>2. CASE p # u
      <4>1. nx2[p] = nx[p] /\ nx[p] \in P /\ pv[nx[p]] = p
        BY <3>2 DEF IsChain, u
      <4>2. nx[p] # t
        BY <3>2, <4>1 DEF u
      <4> QED
        BY <3>2, <4>1, <4>2
    <3> QED
      BY <3>1, <3>2
  <2>3. ASSUME NEW p \in Q
        PROVE  IF p = h THEN pv[p] = NULL ELSE pv[p] \in Q /\ nx2[pv[p]] = p
    <3>1. CASE p = h
      BY <3>1 DEF IsChain
    <3>2. CASE p # h
      <4>1. pv[p] \in P /\ nx[pv[p]] = p /\ p # NULL
        BY <1>0, <3>2 DEF IsChain
      <4>2. pv[p] # t /\ pv[p] # u
        BY <1>0, <2>1, <4>1
      <4>3. nx2[pv[p]] = nx[pv[p]]
        BY <4>1, <4>2 DEF u
      <4> QED
        BY <3>2, <4>1, <4>2, <4>3
    <3> QED
      BY <3>1, <3>2
  <2>4. ASSUME NEW S \in SUBSET Q, h \in S, \A p \in S : nx2[p] \in S \cup {NULL}
        PROVE  S = Q
    <3> DEFINE T == S \cup {t}
    <3>1. T \in SUBSET P /\ h \in T
      BY <1>0, <2>4
    <3>2. ASSUME NEW p \in T
          PROVE  nx[p] \in T \cup {NULL}
      <4>1. CASE p = t
        BY <1>0, <4>1
      <4>2. CASE p = u
        BY <2>1, <4>2
      <4>3. CASE p # t /\ p # u
        <5>1. nx2[p] = nx[p] /\ p \in S
          BY <4>3 DEF u
        <5> QED
          BY <2>4, <5>1
      <4> QED
        BY <4>1, <4>2, <4>3
    <3>3. T = P
      BY <3>1, <3>2 DEF IsChain, Reaches
    <3> QED
      BY <3>3
  <2>5. Reaches(Q, nx2, h)
    BY <2>4 DEF Reaches
  <2>6. IsChain(Q, nx2, pv, h, u)
    BY <1>0, <2>1, <2>2, <2>3, <2>5 DEF IsChain
  <2> QED
    BY <2>1, <2>6 DEF u
<1> QED
  BY <1>1, <1>2

\* A record is next to itself in no chain.
LEMMA ChainNoLoop ==
  ASSUME NEW P, NEW nx, NEW pv, NEW h, NEW t, IsChain(P, nx, pv, h, t), NEW r \in P
  PROVE  nx[r] # r /\ pv[r] # r /\ h \in P /\ t \in P /\ NULL \notin P
         /\ (r = h <=> pv[r] = NULL) /\ (r = t <=> nx[r] = NULL)
<1>1. h \in P /\ t \in P /\ NULL \notin P
  BY DEF IsChain
<1>2. /\ IF r = t THEN nx[r] = NULL ELSE nx[r] \in P /\ pv[nx[r]] = r
      /\ IF r = h THEN pv[r] = NULL ELSE pv[r] \in P /\ nx[pv[r]] = r
  BY DEF IsChain
<1>3. nx[r] # r
  <2> SUFFICES ASSUME nx[r] = r PROVE FALSE
    OBVIOUS
  <2>1. pv[r] = r /\ r # h
    BY <1>1, <1>2
  <2> DEFINE S == P \ {r}
  <2>2. S \in SUBSET P /\ h \in S
    BY <1>1, <2>1
  <2>3. ASSUME NEW p \in S PROVE nx[p] \in S \cup {NULL}
    <3>1. p \in P /\ p # r
      OBVIOUS
    <3>2. nx[p] = NULL \/ (nx[p] \in P /\ pv[nx[p]] = p)
      BY <3>1 DEF IsChain
    <3> QED
      BY <2>1, <3>1, <3>2
  <2>4. S = P
    BY <2>2, <2>3 DEF IsChain, Reaches
  <2> QED
    BY <2>4
<1>4. pv[r] # r
  BY <1>1, <1>2, <1>3
<1> QED
  BY <1>1, <1>2, <1>3, <1>4

\* The records before and after r are linked with each other; r may keep its links.
Bridged(P, nx, pv, nx2, pv2, r) ==
  /\ pv[r] # NULL => nx2[pv[r]] = nx[r]
  /\ \A x \in P \ {pv[r], r} : nx2[x] = nx[x]
  /\ nx[r] # NULL => pv2[nx[r]] = pv[r]
  /\ \A x \in P \ {nx[r], r} : pv2[x] = pv[x]

LEMMA ChainRemove ==
  ASSUME NEW P, NEW nx, NEW pv, NEW h, NEW t, IsChain(P, nx, pv, h, t), NEW r \in P,
         NEW nx2, NEW pv2, NEW h2, NEW t2, Bridged(P, nx, pv, nx2, pv2, r),
         h2 = (IF h = r THEN nx[r] ELSE h), t2 = (IF t = r THEN pv[r] ELSE t)
  PROVE  IsChain(P \ {r}, nx2, pv2, h2, t2)
<1> DEFINE Q == P \ {r}
           u == pv[r]
           v == nx[r]
<1>0. /\ h \in P /\ t \in P /\ NULL \notin P /\ u # r /\ v # r
      /\ r = h <=> u = NULL
      /\ r = t <=> v = NULL
  BY ChainNoLoop
<1>1. /\ u # NULL => (u \in Q /\ nx[u] = r)
      /\ v # NULL => (v \in Q /\ pv[v] = r)
      /\ u \in Q => u # NULL
      /\ v \in Q => v # NULL
  BY <1>0 DEF IsChain
<1>2. u # NULL => nx2[u] = v
  BY DEF Bridged
<1>3. v # NULL => pv2[v] = u
  BY DEF Bridged
<1>4. /\ \A x \in Q : x # u => nx2[x] = nx[x]
      /\ \A x \in Q : x # v => pv2[x] = pv[x]
  BY DEF Bridged
<1>5. h2 = (IF u = NULL THEN v ELSE h) /\ t2 = (IF v = NULL THEN u ELSE t)
  BY <1>0
<1>6. \A p \in P : /\ IF p = t THEN nx[p] = NULL ELSE nx[p] \in P /\ pv[nx[p]] = p
                   /\ IF p = h THEN pv[p] = NULL ELSE pv[p] \in P /\ nx[pv[p]] = p
  BY DEF IsChain
<1>7. \A S \in SUBSET P : h \in S /\ (\A p \in S : nx[p] \in S \cup {NULL}) => S = P
  BY DEF IsChain, Reaches
<1>8. nx[r] = v /\ pv[r] = u
  OBVIOUS
<1> HIDE DEF u, v
<1>9. IF Q = {} THEN h2 = NULL /\ t2 = NULL ELSE h2 \in Q /\ t2 \in Q
  <2>1. CASE u = NULL /\ v = NULL
    <3>0. {r} \in SUBSET P /\ h \in {r} /\ \A p \in {r} : nx[p] \in {r} \cup {NULL}
      BY <1>0, <1>8, <2>1
    <3>1. {r} = P
      BY <1>7, <3>0
    <3> QED
      BY <1>5, <2>1, <3>1
  <2>2. CASE u = NULL /\ v # NULL
    BY <1>0, <1>1, <1>5, <2>2
  <2>3. CASE u # NULL
    BY <1>0, <1>1, <1>5, <2>3
  <2> QED
    BY <2>1, <2>2, <2>3
<1>10. ASSUME NEW p \in Q
       PROVE  IF p = t2 THEN nx2[p] = NULL ELSE nx2[p] \in Q /\ pv2[nx2[p]] = p
  <2>1. CASE p = u
    <3>1. u # NULL /\ u \in Q /\ nx[u] = r /\ nx2[u] = v /\ r # NULL
      BY <1>0, <1>1, <1>2, <2>1
    <3>2. u # t
      BY <1>6, <3>1
    <3>3. CASE v = NULL
      BY <1>5, <2>1, <3>1, <3>3
    <3>4. CASE v # NULL
      BY <1>1, <1>3, <1>5, <2>1, <3>1, <3>2, <3>4
    <3> QED
      BY <3>3, <3>4
  <2>2. CASE p # u
    <3>1. nx2[p] = nx[p] /\ nx[p] # r
      BY <1>0, <1>4, <1>6, <1>8, <2>2
    <3>2. CASE nx[p] = NULL
      BY <1>0, <1>1, <1>5, <1>6, <2>2, <3>1, <3>2
    <3>3. CASE nx[p] # NULL
      <4>1. p # t /\ nx[p] \in Q /\ pv[nx[p]] = p
        BY <1>6, <3>1, <3>3
      <4>2. nx[p] # v
        BY <1>1, <4>1, <3>3
      <4> QED
        BY <1>4, <1>5, <2>2, <3>1, <4>1, <4>2
    <3> QED
      BY <3>2, <3>3
  <2> QED
    BY <2>1, <2>2
<1>11. ASSUME NEW p \in Q
       PROVE  IF p = h2 THEN pv2[p] = NULL ELSE pv2[p] \in Q /\ nx2[pv2[p]] = p
  <2>1. CASE p = v
    <3>1. v # NULL /\ v \in Q /\ pv[v] = r /\ pv2[v] = u /\ r # NULL
      BY <1>0, <1>1, <1>3, <2>1
    <3>2. v # h
      BY <1>6, <3>1
    <3>3. CASE u = NULL
      BY <1>5, <2>1, <3>1, <3>3
    <3>4. CASE u # NULL
      BY <1>1, <1>2, <1>5, <2>1, <3>1, <3>2, <3>4
    <3> QED
      BY <3>3, <3>4
  <2>2. CASE p # v
    <3>1. pv2[p] = pv[p] /\ pv[p] # r
      BY <1>0, <1>4, <1>6, <1>8, <2>2
    <3>2. CASE pv[p] = NULL
      BY <1>0, <1>1, <1>5, <1>6, <2>2, <3>1, <3>2
    <3>3. CASE pv[p] # NULL
      <4>1. p # h /\ pv[p] \in Q /\ nx[pv[p]] = p
        BY <1>6, <3>1, <3>3
      <4>2. pv[p] # u
        BY <1>1, <4>1, <3>3
      <4> QED
        BY <1>4, <1>5, <2>2, <3>1, <4>1, <4>2
    <3> QED
      BY <3>2, <3>3
  <2> QED
    BY <2>1, <2>2
<1>12. ASSUME NEW S \in SUBSET Q, h2 \in S, \A p \in S : nx2[p] \in S \cup {NULL}
       PROVE  S = Q
  <2>1. CASE u # NULL /\ u \notin S
    <3>1. h \in S /\ \A p \in S : nx[p] \in S \cup {NULL}
      BY <1>4, <1>5, <1>12, <2>1
    <3>2. S = P
      BY <1>7, <3>1
    <3> QED
      BY <3>2
  <2>2. CASE u = NULL \/ u \in S
    <3> DEFINE T == S \cup {r}
    <3>1. v \in T \cup {NULL}
      BY <1>2, <1>5, <1>12, <2>2
    <3>2. ASSUME NEW p \in T PROVE nx[p] \in T \cup {NULL}
      <4>1. CASE p = r
        BY <1>8, <3>1, <4>1
      <4>2. CASE p # r /\ p = u /\ u # NULL
        BY <1>1, <4>2
      <4>3. CASE p # r /\ p # u
        <5>1. nx2[p] = nx[p] /\ p \in S
          BY <1>4, <4>3
        <5> QED
          BY <1>12, <5>1
      <4>4. p # NULL
        BY <1>0
      <4> QED
        BY <4>1, <4>2, <4>3, <4>4
    <3>3. h \in T
      BY <1>0, <1>5, <1>12
    <3>4. T \in SUBSET P
      OBVIOUS
    <3>5. T = P
      BY <1>7, <3>2, <3>3, <3>4
    <3> QED
      BY <3>5
  <2> QED
    BY <2>1, <2>2
<1>13. Reaches(Q, nx2, h2)
  BY <1>12 DEF Reaches
<1> QED
  BY <1>0, <1>9, <1>10, <1>11, <1>13 DEF IsChain

-----------------------------------------------------------------------------
(* Walks.                                                                  *)

\* A set of natural numbers has a least element.
LEMMA NatLeast ==
  ASSUME NEW T \in SUBSET Nat, T # {}
  PROVE  \E m \in T : \A k \in T : m <= k
<1> DEFINE R == OpToRel(<, Nat)
<1>1. IsWellFoundedOn(R, Nat)
  BY NatLessThanWellFounded
<1>2. \A k, m \in Nat : k < m => <<k, m>> \in R
  BY Zenon DEF OpToRel
<1> HIDE DEF R
<1>3. PICK m \in T : \A k \in T : ~(<<k, m>> \in R)
  BY <1>1, WFMin
<1> SUFFICES ASSUME NEW k \in T PROVE m <= k
  OBVIOUS
<1>4. ~(k < m) /\ k \in Nat /\ m \in Nat
  BY <1>2, <1>3
<1> QED
  BY <1>4

\* The records a walk along nx comes to.
IsWalk(w, nx, x, n) ==
  /\ w = [i \in 1..n |-> w[i]]
  /\ n > 0 => w[1] = x
  /\ \A i \in 1..n : i > 1 => w[i] = IF w[i - 1] = NULL THEN NULL ELSE nx[w[i - 1]]

LEMMA WalkExists ==
  ASSUME NEW nx, NEW x, NEW n \in Nat
  PROVE  \E w : IsWalk(w, nx, x, n)
<1> DEFINE T == {k \in Nat : ~\E w : IsWalk(w, nx, x, k)}
<1> SUFFICES ASSUME T # {} PROVE FALSE
  OBVIOUS
<1>1. PICK m \in T : \A k \in T : m <= k
  BY NatLeast
<1>2. CASE m = 0
  <2> DEFINE w == [i \in 1..0 |-> x]
  <2>1. IsWalk(w, nx, x, 0)
    BY DEF IsWalk
  <2> QED
    BY <1>1, <1>2, <2>1
<1>3. CASE m # 0
  <2>1. m - 1 \in Nat /\ m - 1 \notin T
    BY <1>1, <1>3
  <2>2. PICK v : IsWalk(v, nx, x, m - 1)
    BY <2>1
  <2> DEFINE w == [i \in 1..m |-> IF i = 1 THEN x
                                   ELSE IF v[i - 1] = NULL THEN NULL ELSE nx[v[i - 1]]]
  <2>3. \A i \in 1..(m - 1) : w[i] = v[i]
    <3> TAKE i \in 1..(m - 1)
    <3>1. i \in 1..m /\ i > 1 => i - 1 \in 1..(m - 1)
      BY <1>1
    <3>2. CASE i = 1
      BY <1>1, <2>2, <3>2 DEF IsWalk
    <3>3. CASE i # 1
      <4>1. i > 1 /\ i \in 1..m
        BY <1>1, <3>3
      <4>2. v[i] = IF v[i - 1] = NULL THEN NULL ELSE nx[v[i - 1]]
        BY <2>2, <4>1 DEF IsWalk
      <4> QED
        BY <3>3, <4>1, <4>2
    <3> QED
      BY <3>2, <3>3
  <2>4. IsWalk(w, nx, x, m)
    <3>1. w = [i \in 1..m |-> w[i]]
      OBVIOUS
    <3>2. w[1] = x
      BY <1>1, <1>3
    <3>3. ASSUME NEW i \in 1..m, i > 1
          PROVE  w[i] = IF w[i - 1] = NULL THEN NULL ELSE nx[w[i - 1]]
      <4>1. i - 1 \in 1..(m - 1) /\ i \in Nat
        BY <1>1, <3>3
      <4>2. w[i - 1] = v[i - 1]
        BY <2>3, <4>1
      <4> QED
        BY <3>3, <4>1, <4>2
    <3> HIDE DEF w
    <3> QED
      BY <3>1, <3>2, <3>3 DEF IsWalk
  <2> QED
    BY <1>1, <2>4
<1> QED
  BY <1>2, <1>3

LEMMA WalkFromIsWalk ==
  ASSUME NEW m, NEW x, NEW n \in Nat
  PROVE  IsWalk(WalkFrom(m, x, n), m.next, x, n)
<1> DEFINE Following(y) == IF y = NULL THEN NULL ELSE m.next[y]
           Eq(w) == w = [i \in 1..n |-> IF i = 1 THEN x ELSE Following(w[i - 1])]
<1>1. WalkFrom(m, x, n) = CHOOSE w : Eq(w)
  BY DEF WalkFrom
<1>2. PICK v : IsWalk(v, m.next, x, n)
  BY WalkExists
<1>3. Eq(v)
  <2>1. ASSUME NEW i \in 1..n
        PROVE  v[i] = IF i = 1 THEN x ELSE Following(v[i - 1])
    <3>1. n > 0 /\ (i = 1 \/ i > 1)
      OBVIOUS
    <3>2. CASE i = 1
      BY <1>2, <3>1, <3>2 DEF IsWalk
    <3>3. CASE i > 1
      <4>1. v[i] = IF v[i - 1] = NULL THEN NULL ELSE m.next[v[i - 1]]
        BY <1>2, <3>3 DEF IsWalk
      <4> QED
        BY <3>3, <4>1
    <3> QED
      BY <3>1, <3>2, <3>3
  <2> QED
    BY <1>2, <2>1 DEF IsWalk
<1> HIDE DEF Eq
<1>4. Eq(WalkFrom(m, x, n))
  BY <1>1, <1>3
<1> DEFINE w == WalkFrom(m, x, n)
<1> HIDE DEF w
<1>5. w = [i \in 1..n |-> IF i = 1 THEN x ELSE Following(w[i - 1])]
  BY <1>4 DEF Eq, w
<1>6. IsWalk(w, m.next, x, n)
  <2>1. w = [i \in 1..n |-> w[i]]
    BY <1>5
  <2>2. n > 0 => w[1] = x
    BY <1>5
  <2>3. \A i \in 1..n : i > 1 => w[i] = IF w[i - 1] = NULL THEN NULL ELSE m.next[w[i - 1]]
    BY <1>5
  <2> QED
    BY <2>1, <2>2, <2>3 DEF IsWalk
<1> QED
  BY <1>6 DEF w

LEMMA WalkUnique ==
  ASSUME NEW nx, NEW x, NEW n \in Nat, NEW v, NEW w, IsWalk(v, nx, x, n), IsWalk(w, nx, x, n)
  PROVE  v = w
<1> DEFINE T == {i \in 1..n : v[i] # w[i]}
<1>1. T = {}
  <2> SUFFICES ASSUME T # {} PROVE FALSE
    OBVIOUS
  <2>1. T \in SUBSET Nat
    OBVIOUS
  <2>2. PICK m \in T : \A k \in T : m <= k
    BY <2>1, NatLeast
  <2>3. m \in 1..n /\ v[m] # w[m] /\ n > 0
    OBVIOUS
  <2>4. m # 1
    BY <2>3 DEF IsWalk
  <2>5. m - 1 \in 1..n /\ m > 1 /\ m - 1 < m
    BY <2>3, <2>4
  <2>6. v[m - 1] = w[m - 1]
    BY <2>2, <2>5
  <2> QED
    BY <2>3, <2>5, <2>6 DEF IsWalk
<1> QED
  BY <1>1 DEF IsWalk

\* A walk does not leave a set that ->next does not leave.
LEMMA WalkStays ==
  ASSUME NEW nx, NEW x, NEW n \in Nat, NEW w, IsWalk(w, nx, x, n),
         NEW P, x \in P \cup {NULL}, \A p \in P : nx[p] \in P \cup {NULL}
  PROVE  w \in [1..n -> P \cup {NULL}]
<1> DEFINE T == {i \in 1..n : w[i] \notin P \cup {NULL}}
<1>1. T = {}
  <2> SUFFICES ASSUME T # {} PROVE FALSE
    OBVIOUS
  <2>1. T \in SUBSET Nat
    OBVIOUS
  <2>2. PICK m \in T : \A k \in T : m <= k
    BY <2>1, NatLeast
  <2>3. m \in 1..n /\ w[m] \notin P \cup {NULL} /\ n > 0
    OBVIOUS
  <2>4. m # 1
    BY <2>3 DEF IsWalk
  <2>5. m - 1 \in 1..n /\ m > 1 /\ m - 1 < m
    BY <2>3, <2>4
  <2>6. w[m - 1] \in P \cup {NULL}
    BY <2>2, <2>5
  <2>7. w[m] = IF w[m - 1] = NULL THEN NULL ELSE nx[w[m - 1]]
    BY <2>3, <2>5 DEF IsWalk
  <2> QED
    BY <2>3, <2>6, <2>7
<1>2. \A i \in 1..n : w[i] \in P \cup {NULL}
  BY <1>1
<1> QED
  BY <1>2 DEF IsWalk

LEMMA WalkOfNull ==
  ASSUME NEW nx, NEW n \in Nat, NEW w, IsWalk(w, nx, NULL, n)
  PROVE  w \in [1..n -> {NULL}]
<1>1. w \in [1..n -> {} \cup {NULL}]
  BY WalkStays
<1> QED
  BY <1>1

\* A walk that is long enough comes to everything that can be reached: either it
\* meets no record twice, and so all of them, or it has closed a circle or
\* come to an end, and there was nothing else to meet.
LEMMA WalkMembers ==
  ASSUME NEW P, IsFiniteSet(P), NULL \notin P, NEW nx, NEW x \in P,
         \A p \in P : nx[p] \in P \cup {NULL}, Reaches(P, nx, x),
         NEW n \in Nat, Cardinality(P) <= n, NEW w, IsWalk(w, nx, x, n)
  PROVE  {w[i] : i \in 1..n} \ {NULL} = P
<1> DEFINE R == {w[i] : i \in 1..n} \ {NULL}
<1>1. w \in [1..n -> P \cup {NULL}]
  BY WalkStays
<1>2. R \in SUBSET P
  BY <1>1
<1>3. n > 0
  <2>1. Cardinality(P) \in Nat /\ Cardinality(P) # 0
    BY FS_CardinalityType, FS_EmptySet
  <2> QED
    BY <2>1
<1>4. w[1] = x /\ x # NULL
  BY <1>3 DEF IsWalk
<1>5. CASE \E j \in 1..n : w[j] = NULL \/ \E i \in 1..(j - 1) : w[i] = w[j]
  <2>1. PICK j \in 1..n : w[j] = NULL \/ \E i \in 1..(j - 1) : w[i] = w[j]
    BY <1>5
  <2>2. j > 1
    BY <1>4, <2>1
  <2> DEFINE S == {w[i] : i \in 1..(j - 1)} \ {NULL}
  <2>3. S \subseteq R
    OBVIOUS
  <2>4. x \in S
    <3>1. 1 \in 1..(j - 1)
      BY <2>2
    <3> QED
      BY <1>4, <3>1
  <2>5. w[j] \in S \cup {NULL}
    BY <2>1
  <2>6. ASSUME NEW p \in S
        PROVE  nx[p] \in S \cup {NULL}
    <3>1. PICK i \in 1..(j - 1) : p = w[i]
      OBVIOUS
    <3>2. i + 1 \in 1..n /\ i + 1 > 1 /\ (i + 1) - 1 = i
      BY <2>1
    <3>3. w[i + 1] = nx[p]
      BY <3>1, <3>2 DEF IsWalk
    <3>4. i + 1 \in 1..(j - 1) \/ i + 1 = j
      BY <2>1
    <3> QED
      BY <2>5, <3>3, <3>4
  <2> HIDE DEF S
  <2>7. S = P
    BY <1>2, <2>3, <2>4, <2>6 DEF Reaches
  <2> QED
    BY <1>2, <2>3, <2>7
<1>6. CASE ~\E j \in 1..n : w[j] = NULL \/ \E i \in 1..(j - 1) : w[i] = w[j]
  <2>1. \A j \in 1..n : w[j] # NULL
    BY <1>6
  <2>2. \A i, j \in 1..n : w[i] = w[j] => i = j
    <3>1. SUFFICES ASSUME NEW i \in 1..n, NEW j \in 1..n, w[i] = w[j], i # j PROVE FALSE
      OBVIOUS
    <3>2. i \in 1..(j - 1) \/ j \in 1..(i - 1)
      BY <3>1
    <3> QED
      BY <1>6, <3>1, <3>2
  <2>3. w \in [1..n -> R]
    BY <1>1, <2>1
  <2>4. IsFiniteSet(1..n) /\ Cardinality(1..n) = n
    BY FS_Interval
  <2>5. IsFiniteSet(R) /\ Cardinality(R) \in Nat /\ Cardinality(P) \in Nat
    BY <1>2, FS_Subset, FS_CardinalityType
  <2> HIDE DEF R
  <2>6. ~(Cardinality(R) < n)
    <3>1. SUFFICES ASSUME Cardinality(R) < n PROVE FALSE
      OBVIOUS
    <3>2. \E i, j \in 1..n : i # j /\ w[i] = w[j]
      BY <2>3, <2>4, <2>5, <3>1, FS_PigeonHole
    <3> QED
      BY <2>2, <3>2
  <2>7. Cardinality(R) <= Cardinality(P) /\ (Cardinality(P) = Cardinality(R) => P = R)
    BY <1>2, FS_Subset
  <2> QED
    BY <2>5, <2>6, <2>7 DEF R
<1> QED
  BY <1>5, <1>6

\* pool_create links all records in order.
LEMMA PoolChain ==
  ASSUME NEW n \in Nat, n > 0
  PROVE  IsChain(1..n, PoolNext(n), PoolPrev(n), 1, n)
<1> DEFINE P == 1..n
           nx == PoolNext(n)
           pv == PoolPrev(n)
<1>1. \A p \in P : /\ nx[p] = (IF p = n THEN NULL ELSE p + 1) /\ pv[p] = p - 1
                   /\ p # n => p + 1 \in P /\ (p + 1) - 1 = p
                   /\ p # 1 => p - 1 \in P /\ p - 1 # n /\ (p - 1) + 1 = p
  BY DEF PoolNext, PoolPrev
<1>2. NULL \notin P /\ P # {} /\ 1 \in P /\ n \in P
  BY DEF NULL
<1>3. \A p \in P : IF p = n THEN nx[p] = NULL ELSE nx[p] \in P /\ pv[nx[p]] = p
  BY <1>1
<1>4. \A p \in P : IF p = 1 THEN pv[p] = NULL ELSE pv[p] \in P /\ nx[pv[p]] = p
  BY <1>1 DEF NULL
<1>5. ASSUME NEW S \in SUBSET P, 1 \in S, \A p \in S : nx[p] \in S \cup {NULL}
      PROVE  S = P
  <2> SUFFICES ASSUME P \ S # {} PROVE FALSE
    OBVIOUS
  <2>1. P \ S \in SUBSET Nat
    OBVIOUS
  <2>2. PICK m \in P \ S : \A k \in P \ S : m <= k
    BY <2>1, NatLeast
  <2>3. m \in P /\ m # 1
    BY <1>5
  <2>4. m - 1 \in P /\ m - 1 # n /\ (m - 1) + 1 = m /\ ~(m <= m - 1)
    BY <1>1, <2>3
  <2>5. m - 1 \in S
    BY <2>2, <2>4
  <2>6. nx[m - 1] = m /\ m # NULL
    BY <1>1, <1>2, <2>3, <2>4
  <2> QED
    BY <1>5, <2>2, <2>5, <2>6
<1> HIDE DEF nx, pv
<1> QED
  BY <1>2, <1>3, <1>4, <1>5 DEF IsChain, Reaches, nx, pv

-----------------------------------------------------------------------------
(* Heaps of links: records R on lists L.                                   *)

LinkFields == {"prev", "next", "first", "last"}

IsHeap(m) == m = [f \in DOMAIN m |-> m[f]] /\ LinkFields \subseteq DOMAIN m

Links(m, R, L) ==
  /\ IsHeap(m) /\ NULL \notin R
  /\ m.next \in [R -> R \cup {NULL}] /\ m.prev \in [R -> R \cup {NULL}]
  /\ m.first \in [L -> R \cup {NULL}] /\ m.last \in [L -> R \cup {NULL}]

\* The other fields of the heap stay as they are.
OnlyLinks(m, k) ==
  /\ IsHeap(k) /\ DOMAIN k = DOMAIN m
  /\ \A f \in DOMAIN m : f \notin LinkFields => k[f] = m[f]

\* So do the records outside Q and the headers of the other lists.
Elsewhere(m, k, R, L, l, Q) ==
  /\ \A x \in R \ Q : k.next[x] = m.next[x] /\ k.prev[x] = m.prev[x]
  /\ \A j \in L \ {l} : k.first[j] = m.first[j] /\ k.last[j] = m.last[j]

Fields(k, next, prev, first, last) ==
  k.next = next /\ k.prev = prev /\ k.first = first /\ k.last = last

OnRing(m, l, P) ==
  /\ IsRing(P, m.next, m.prev)
  /\ IF P = {} THEN m.first[l] = NULL /\ m.last[l] = NULL
               ELSE m.first[l] \in P /\ m.last[l] # NULL

OnChain(m, l, P) == IsChain(P, m.next, m.prev, m.first[l], m.last[l])

LEMMA RingElsewhere ==
  ASSUME NEW R, NEW L, NEW m, NEW k, NEW l, NEW Q, Elsewhere(m, k, R, L, l, Q),
         NEW j \in L, j # l, NEW P, P \subseteq R, P \cap Q = {}, OnRing(m, j, P)
  PROVE  OnRing(k, j, P)
<1>1. \A p \in P : k.next[p] = m.next[p] /\ k.prev[p] = m.prev[p]
  BY DEF Elsewhere
<1>2. k.first[j] = m.first[j] /\ k.last[j] = m.last[j]
  BY DEF Elsewhere
<1>3. IsRing(P, m.next, m.prev)
  BY DEF OnRing
<1>4. IsRing(P, k.next, k.prev)
  BY <1>1, <1>3, RingFrame
<1> QED
  BY <1>2, <1>4 DEF OnRing

LEMMA ChainElsewhere ==
  ASSUME NEW R, NEW L, NEW m, NEW k, NEW l, NEW Q, Elsewhere(m, k, R, L, l, Q),
         NEW j \in L, j # l, NEW P, P \subseteq R, P \cap Q = {}, OnChain(m, j, P)
  PROVE  OnChain(k, j, P)
<1>1. \A p \in P : k.next[p] = m.next[p] /\ k.prev[p] = m.prev[p]
  BY DEF Elsewhere
<1>2. k.first[j] = m.first[j] /\ k.last[j] = m.last[j]
  BY DEF Elsewhere
<1>3. IsChain(P, k.next, k.prev, m.first[j], m.last[j])
  BY <1>1, ChainFrame DEF OnChain
<1> QED
  BY <1>2, <1>3 DEF OnChain

-----------------------------------------------------------------------------
(* The links after each operation.                                         *)

LEMMA OnlyTwice ==
  ASSUME NEW m, NEW k, NEW j, OnlyLinks(m, k), OnlyLinks(k, j)
  PROVE  OnlyLinks(m, j)
BY Zenon DEF OnlyLinks

LEMMA SetNextFields ==
  ASSUME NEW m, IsHeap(m), NEW x, NEW y
  PROVE  /\ OnlyLinks(m, SetNext(m, x, y))
         /\ Fields(SetNext(m, x, y), IF x = NULL THEN m.next ELSE [m.next EXCEPT ![x] = y],
                   m.prev, m.first, m.last)
<1>1. IsHeap(SetNext(m, x, y)) /\ DOMAIN SetNext(m, x, y) = DOMAIN m
  BY Zenon DEF SetNext, IsHeap, LinkFields
<1>2. \A f \in DOMAIN m : f \notin LinkFields => SetNext(m, x, y)[f] = m[f]
  BY Zenon DEF SetNext, IsHeap, LinkFields
<1>3. SetNext(m, x, y).next = IF x = NULL THEN m.next ELSE [m.next EXCEPT ![x] = y]
  BY Zenon DEF SetNext, IsHeap, LinkFields
<1>4. SetNext(m, x, y).prev = m.prev
  BY Zenon DEF SetNext, IsHeap, LinkFields
<1>5. SetNext(m, x, y).first = m.first /\ SetNext(m, x, y).last = m.last
  BY Zenon DEF SetNext, IsHeap, LinkFields
<1> QED
  BY <1>1, <1>2, <1>3, <1>4, <1>5 DEF OnlyLinks, Fields

LEMMA SetPrevFields ==
  ASSUME NEW m, IsHeap(m), NEW x, NEW y
  PROVE  /\ OnlyLinks(m, SetPrev(m, x, y))
         /\ Fields(SetPrev(m, x, y), m.next,
                   IF x = NULL THEN m.prev ELSE [m.prev EXCEPT ![x] = y], m.first, m.last)
<1>1. IsHeap(SetPrev(m, x, y)) /\ DOMAIN SetPrev(m, x, y) = DOMAIN m
  BY Zenon DEF SetPrev, IsHeap, LinkFields
<1>2. \A f \in DOMAIN m : f \notin LinkFields => SetPrev(m, x, y)[f] = m[f]
  BY Zenon DEF SetPrev, IsHeap, LinkFields
<1>3. SetPrev(m, x, y).prev = IF x = NULL THEN m.prev ELSE [m.prev EXCEPT ![x] = y]
  BY Zenon DEF SetPrev, IsHeap, LinkFields
<1>4. SetPrev(m, x, y).next = m.next
  BY Zenon DEF SetPrev, IsHeap, LinkFields
<1>5. SetPrev(m, x, y).first = m.first /\ SetPrev(m, x, y).last = m.last
  BY Zenon DEF SetPrev, IsHeap, LinkFields
<1> QED
  BY <1>1, <1>2, <1>3, <1>4, <1>5 DEF OnlyLinks, Fields

\* clist_insert into an empty list, and in front of the first record n.
LEMMA ClistInsertOnly ==
  ASSUME NEW m, IsHeap(m), NEW l, NEW r
  PROVE  OnlyLinks(m, ClistInsert(m, l, r))
<1>1. IsHeap(ClistInsert(m, l, r)) /\ DOMAIN ClistInsert(m, l, r) = DOMAIN m
  BY Zenon DEF ClistInsert, IsHeap, LinkFields
<1>2. \A f \in DOMAIN m : f \notin LinkFields => ClistInsert(m, l, r)[f] = m[f]
  BY Zenon DEF ClistInsert, IsHeap, LinkFields
<1> QED
  BY <1>1, <1>2 DEF OnlyLinks

LEMMA ClistInsertEmpty ==
  ASSUME NEW m, IsHeap(m), NEW l, NEW r, m.first[l] = NULL, m.last[l] = NULL
  PROVE  Fields(ClistInsert(m, l, r), [m.next EXCEPT ![r] = r], [m.prev EXCEPT ![r] = r],
                [m.first EXCEPT ![l] = r], [m.last EXCEPT ![l] = r])
<1> DEFINE k == ClistInsert(m, l, r)
<1>1. /\ k.next = [m.next EXCEPT ![r] = r] /\ k.prev = [m.prev EXCEPT ![r] = r]
      /\ k.first = [m.first EXCEPT ![l] = r] /\ k.last = [m.last EXCEPT ![l] = r]
  BY Zenon DEF ClistInsert, IsHeap, LinkFields
<1> QED
  BY <1>1 DEF Fields

LEMMA ClistInsertFront ==
  ASSUME NEW m, IsHeap(m), NEW l, NEW r, ~(m.first[l] = NULL /\ m.last[l] = NULL),
         NEW n, n = m.first[l], NEW p, p = m.prev[n]
  PROVE  Fields(ClistInsert(m, l, r), [[m.next EXCEPT ![r] = n] EXCEPT ![p] = r],
                [[m.prev EXCEPT ![r] = p] EXCEPT ![n] = r], [m.first EXCEPT ![l] = r], m.last)
<1> DEFINE k == ClistInsert(m, l, r)
<1>1. /\ k.next = [[m.next EXCEPT ![r] = n] EXCEPT ![p] = r]
      /\ k.prev = [[m.prev EXCEPT ![r] = p] EXCEPT ![n] = r]
      /\ k.first = [m.first EXCEPT ![l] = r] /\ k.last = m.last
  BY Zenon DEF ClistInsert, IsHeap, LinkFields
<1> QED
  BY <1>1 DEF Fields

\* clist_remove of a record alone in its ring, and of one between p and n.
LEMMA ClistRemoveAlone ==
  ASSUME NEW m, IsHeap(m), NEW l, NEW r, m.prev[r] = r
  PROVE  /\ OnlyLinks(m, ClistRemove(m, l, r))
         /\ Fields(ClistRemove(m, l, r), m.next, m.prev,
                   [m.first EXCEPT ![l] = NULL], [m.last EXCEPT ![l] = NULL])
<1> DEFINE k == [m EXCEPT !.first[l] = NULL, !.last[l] = NULL]
<1>1. ClistRemove(m, l, r) = k
  BY DEF ClistRemove
<1>2. IsHeap(k) /\ DOMAIN k = DOMAIN m
  BY Zenon DEF IsHeap, LinkFields
<1>3. \A f \in DOMAIN m : f \notin LinkFields => k[f] = m[f]
  BY Zenon DEF IsHeap, LinkFields
<1>4. k.next = m.next /\ k.prev = m.prev
  BY Zenon DEF IsHeap, LinkFields
<1>5. k.first = [m.first EXCEPT ![l] = NULL] /\ k.last = [m.last EXCEPT ![l] = NULL]
  BY Zenon DEF IsHeap, LinkFields
<1> HIDE DEF k
<1> QED
  BY <1>1, <1>2, <1>3, <1>4, <1>5 DEF OnlyLinks, Fields

LEMMA ClistRemoveLinked ==
  ASSUME NEW m, IsHeap(m), NEW l, NEW r, m.prev[r] # r,
         NEW n, n = m.next[r], n # NULL, NEW p, p = m.prev[r], p # NULL
  PROVE  /\ OnlyLinks(m, ClistRemove(m, l, r))
         /\ Fields(ClistRemove(m, l, r), [[m.next EXCEPT ![p] = n] EXCEPT ![r] = NULL],
                   [[m.prev EXCEPT ![n] = p] EXCEPT ![r] = NULL],
                   [m.first EXCEPT ![l] = IF @ = r THEN n ELSE @], m.last)
<1> DEFINE i == SetNext(m, p, n)
           j == SetPrev(i, n, p)
           k == [j EXCEPT !.first[l] = IF @ = r THEN n ELSE @,
                          !.next[r] = NULL, !.prev[r] = NULL]
<1>1. ClistRemove(m, l, r) = k
  BY DEF ClistRemove
<1>2. /\ OnlyLinks(m, i)
      /\ Fields(i, IF p = NULL THEN m.next ELSE [m.next EXCEPT ![p] = n],
                m.prev, m.first, m.last)
  BY SetNextFields
<1>3. IsHeap(i)
  BY <1>2 DEF OnlyLinks
<1>4. /\ OnlyLinks(i, j)
      /\ Fields(j, i.next, IF n = NULL THEN i.prev ELSE [i.prev EXCEPT ![n] = p],
                i.first, i.last)
  BY <1>3, SetPrevFields
<1> HIDE DEF i, j
<1>5. /\ j.next = [m.next EXCEPT ![p] = n] /\ j.prev = [m.prev EXCEPT ![n] = p]
      /\ j.first = m.first /\ j.last = m.last
  BY <1>2, <1>4 DEF Fields
<1>6. OnlyLinks(m, j)
  BY <1>2, <1>4, OnlyTwice
<1>7. IsHeap(j)
  BY <1>6 DEF OnlyLinks
<1>8. IsHeap(k) /\ DOMAIN k = DOMAIN j
  BY <1>7, Zenon DEF IsHeap, LinkFields
<1>9. \A f \in DOMAIN j : f \notin LinkFields => k[f] = j[f]
  BY <1>7, Zenon DEF IsHeap, LinkFields
<1>10. k.next = [j.next EXCEPT ![r] = NULL] /\ k.prev = [j.prev EXCEPT ![r] = NULL]
  BY <1>7, Zenon DEF IsHeap, LinkFields
<1>11. k.first = [j.first EXCEPT ![l] = IF @ = r THEN n ELSE @] /\ k.last = j.last
  BY <1>7, Zenon DEF IsHeap, LinkFields
<1> HIDE DEF k
<1>12. OnlyLinks(j, k)
  BY <1>8, <1>9 DEF OnlyLinks
<1>13. OnlyLinks(m, k)
  BY <1>6, <1>12, OnlyTwice
<1>14. Fields(k, [[m.next EXCEPT ![p] = n] EXCEPT ![r] = NULL],
              [[m.prev EXCEPT ![n] = p] EXCEPT ![r] = NULL],
              [m.first EXCEPT ![l] = IF @ = r THEN n ELSE @], m.last)
  BY <1>5, <1>10, <1>11 DEF Fields
<1> QED
  BY <1>1, <1>13, <1>14

\* dequeue_push behind the last record p.
LEMMA DequeuePushFields ==
  ASSUME NEW m, IsHeap(m), NEW l, NEW r, NEW p, p = m.last[l]
  PROVE  /\ OnlyLinks(m, DequeuePush(m, l, r))
         /\ Fields(DequeuePush(m, l, r),
                   [(IF p = NULL THEN m.next ELSE [m.next EXCEPT ![p] = r]) EXCEPT ![r] = NULL],
                   [m.prev EXCEPT ![r] = p],
                   [m.first EXCEPT ![l] = IF p = NULL THEN r ELSE @],
                   [m.last EXCEPT ![l] = r])
<1> DEFINE j == SetNext(m, p, r)
           k == [j EXCEPT !.prev[r] = p, !.next[r] = NULL, !.last[l] = r,
                          !.first[l] = IF p = NULL THEN r ELSE @]
<1>1. DequeuePush(m, l, r) = k
  BY DEF DequeuePush
<1>2. /\ OnlyLinks(m, j)
      /\ Fields(j, IF p = NULL THEN m.next ELSE [m.next EXCEPT ![p] = r],
                m.prev, m.first, m.last)
  BY SetNextFields
<1>3. IsHeap(j)
  BY <1>2 DEF OnlyLinks
<1> HIDE DEF j
<1>4. IsHeap(k) /\ DOMAIN k = DOMAIN j
  BY <1>3, Zenon DEF IsHeap, LinkFields
<1>5. \A f \in DOMAIN j : f \notin LinkFields => k[f] = j[f]
  BY <1>3, Zenon DEF IsHeap, LinkFields
<1>6. k.next = [j.next EXCEPT ![r] = NULL] /\ k.prev = [j.prev EXCEPT ![r] = p]
  BY <1>3, Zenon DEF IsHeap, LinkFields
<1>7. /\ k.first = [j.first EXCEPT ![l] = IF p = NULL THEN r ELSE @]
      /\ k.last = [j.last EXCEPT ![l] = r]
  BY <1>3, Zenon DEF IsHeap, LinkFields
<1> HIDE DEF k
<1>8. OnlyLinks(j, k)
  BY <1>4, <1>5 DEF OnlyLinks
<1>9. OnlyLinks(m, k)
  BY <1>2, <1>8, OnlyTwice
<1>10. Fields(k, [(IF p = NULL THEN m.next ELSE [m.next EXCEPT ![p] = r]) EXCEPT ![r] = NULL],
              [m.prev EXCEPT ![r] = p], [m.first EXCEPT ![l] = IF p = NULL THEN r ELSE @],
              [m.last EXCEPT ![l] = r])
  BY <1>2, <1>6, <1>7 DEF Fields
<1> QED
  BY <1>1, <1>9, <1>10

\* dequeue_pop when p is the last but one.
LEMMA DequeuePopFields ==
  ASSUME NEW m, IsHeap(m), NEW l, NEW p, p = m.prev[m.last[l]]
  PROVE  /\ OnlyLinks(m, DequeuePop(m, l))
         /\ Fields(DequeuePop(m, l), IF p = NULL THEN m.next ELSE [m.next EXCEPT ![p] = NULL],
                   m.prev, [m.first EXCEPT ![l] = IF p = NULL THEN NULL ELSE @],
                   [m.last EXCEPT ![l] = p])
<1> DEFINE j == SetNext(m, p, NULL)
           k == [j EXCEPT !.last[l] = p, !.first[l] = IF p = NULL THEN NULL ELSE @]
<1>1. DequeuePop(m, l) = k
  BY DEF DequeuePop
<1>2. /\ OnlyLinks(m, j)
      /\ Fields(j, IF p = NULL THEN m.next ELSE [m.next EXCEPT ![p] = NULL],
                m.prev, m.first, m.last)
  BY SetNextFields
<1>3. IsHeap(j)
  BY <1>2 DEF OnlyLinks
<1> HIDE DEF j
<1>4. IsHeap(k) /\ DOMAIN k = DOMAIN j
  BY <1>3, Zenon DEF IsHeap, LinkFields
<1>5. \A f \in DOMAIN j : f \notin LinkFields => k[f] = j[f]
  BY <1>3, Zenon DEF IsHeap, LinkFields
<1>6. k.next = j.next /\ k.prev = j.prev
  BY <1>3, Zenon DEF IsHeap, LinkFields
<1>7. /\ k.first = [j.first EXCEPT ![l] = IF p = NULL THEN NULL ELSE @]
      /\ k.last = [j.last EXCEPT ![l] = p]
  BY <1>3, Zenon DEF IsHeap, LinkFields
<1> HIDE DEF k
<1>8. OnlyLinks(j, k)
  BY <1>4, <1>5 DEF OnlyLinks
<1>9. OnlyLinks(m, k)
  BY <1>2, <1>8, OnlyTwice
<1>10. Fields(k, IF p = NULL THEN m.next ELSE [m.next EXCEPT ![p] = NULL], m.prev,
              [m.first EXCEPT ![l] = IF p = NULL THEN NULL ELSE @], [m.last EXCEPT ![l] = p])
  BY <1>2, <1>6, <1>7 DEF Fields
<1> QED
  BY <1>1, <1>9, <1>10

\* dequeue_remove of a record between p and n.
LEMMA DequeueRemoveFields ==
  ASSUME NEW m, IsHeap(m), NEW l, NEW r, NEW p, p = m.prev[r], NEW n, n = m.next[r]
  PROVE  /\ OnlyLinks(m, DequeueRemove(m, l, r))
         /\ Fields(DequeueRemove(m, l, r),
                   IF p = NULL THEN m.next ELSE [m.next EXCEPT ![p] = n],
                   IF n = NULL THEN m.prev ELSE [m.prev EXCEPT ![n] = p],
                   [m.first EXCEPT ![l] = IF @ = r THEN n ELSE @],
                   [m.last EXCEPT ![l] = IF @ = r THEN p ELSE @])
<1> DEFINE i == SetNext(m, p, n)
           j == SetPrev(i, n, p)
           k == [j EXCEPT !.first[l] = IF @ = r THEN n ELSE @,
                          !.last[l]  = IF @ = r THEN p ELSE @]
<1>1. DequeueRemove(m, l, r) = k
  BY DEF DequeueRemove
<1>2. /\ OnlyLinks(m, i)
      /\ Fields(i, IF p = NULL THEN m.next ELSE [m.next EXCEPT ![p] = n],
                m.prev, m.first, m.last)
  BY SetNextFields
<1> HIDE DEF i
<1>3. IsHeap(i)
  BY <1>2 DEF OnlyLinks
<1>4. /\ OnlyLinks(i, j)
      /\ Fields(j, i.next, IF n = NULL THEN i.prev ELSE [i.prev EXCEPT ![n] = p],
                i.first, i.last)
  BY <1>3, SetPrevFields
<1>5. IsHeap(j)
  BY <1>4 DEF OnlyLinks
<1> HIDE DEF j
<1>6. IsHeap(k) /\ DOMAIN k = DOMAIN j
  BY <1>5, Zenon DEF IsHeap, LinkFields
<1>7. \A f \in DOMAIN j : f \notin LinkFields => k[f] = j[f]
  BY <1>5, Zenon DEF IsHeap, LinkFields
<1>8. k.next = j.next /\ k.prev = j.prev
  BY <1>5, Zenon DEF IsHeap, LinkFields
<1>9. /\ k.first = [j.first EXCEPT ![l] = IF @ = r THEN n ELSE @]
      /\ k.last = [j.last EXCEPT ![l] = IF @ = r THEN p ELSE @]
  BY <1>5, Zenon DEF IsHeap, LinkFields
<1> HIDE DEF k
<1>10. OnlyLinks(j, k)
  BY <1>6, <1>7 DEF OnlyLinks
<1>11. OnlyLinks(m, k)
  BY <1>2, <1>4, <1>10, OnlyTwice
<1>12. Fields(k, IF p = NULL THEN m.next ELSE [m.next EXCEPT ![p] = n],
              IF n = NULL THEN m.prev ELSE [m.prev EXCEPT ![n] = p],
              [m.first EXCEPT ![l] = IF @ = r THEN n ELSE @],
              [m.last EXCEPT ![l] = IF @ = r THEN p ELSE @])
  BY <1>2, <1>4, <1>8, <1>9 DEF Fields
<1> QED
  BY <1>1, <1>11, <1>12

-----------------------------------------------------------------------------
(* The lists after each operation.                                         *)

LEMMA ClistInsertList ==
  ASSUME NEW R, NEW L, NEW m, Links(m, R, L), NEW l \in L, NEW P, P \subseteq R,
         OnRing(m, l, P), NEW r \in R, r \notin P
  PROVE  LET k == ClistInsert(m, l, r)
         IN /\ Links(k, R, L) /\ OnlyLinks(m, k) /\ OnRing(k, l, P \cup {r})
            /\ Elsewhere(m, k, R, L, l, P \cup {r})
<1> DEFINE k == ClistInsert(m, l, r)
<1>1. OnlyLinks(m, k)
  BY ClistInsertOnly DEF Links
<1>2. IsHeap(k)
  BY <1>1 DEF OnlyLinks
<1>3. CASE P = {}
  <2>1. m.first[l] = NULL /\ m.last[l] = NULL
    BY <1>3 DEF OnRing
  <2>2. /\ k.next = [m.next EXCEPT ![r] = r] /\ k.prev = [m.prev EXCEPT ![r] = r]
        /\ k.first = [m.first EXCEPT ![l] = r] /\ k.last = [m.last EXCEPT ![l] = r]
    <3>1. IsHeap(m)
      BY DEF Links
    <3>2. Fields(k, [m.next EXCEPT ![r] = r], [m.prev EXCEPT ![r] = r],
                 [m.first EXCEPT ![l] = r], [m.last EXCEPT ![l] = r])
      BY <2>1, <3>1, ClistInsertEmpty
    <3> QED
      BY <3>2 DEF Fields
  <2> HIDE DEF k
  <2>3. Links(k, R, L)
    BY <1>2, <2>2 DEF Links
  <2>4. Elsewhere(m, k, R, L, l, P \cup {r})
    BY <2>2 DEF Links, Elsewhere
  <2>5. k.next[r] = r /\ k.prev[r] = r /\ k.first[l] = r /\ k.last[l] = r /\ r # NULL
    BY <2>2 DEF Links
  <2>6. OnRing(k, l, P \cup {r})
    BY <1>3, <2>5, RingOfOne DEF OnRing
  <2> QED
    BY <1>1, <2>3, <2>4, <2>6 DEF k
<1>4. CASE P # {}
  <2> DEFINE n == m.first[l]
             p == m.prev[n]
  <2>1. n \in P /\ p \in P /\ n # NULL /\ n # r /\ p # r /\ m.last[l] # NULL
    BY <1>4 DEF OnRing, IsRing, Links
  <2> HIDE DEF n
  <2>2. /\ k.next = [[m.next EXCEPT ![r] = n] EXCEPT ![p] = r]
        /\ k.prev = [[m.prev EXCEPT ![r] = p] EXCEPT ![n] = r]
        /\ k.first = [m.first EXCEPT ![l] = r] /\ k.last = m.last
    <3>1. IsHeap(m) /\ n = m.first[l] /\ p = m.prev[n]
      BY DEF Links, n
    <3>2. Fields(k, [[m.next EXCEPT ![r] = n] EXCEPT ![p] = r],
                 [[m.prev EXCEPT ![r] = p] EXCEPT ![n] = r], [m.first EXCEPT ![l] = r], m.last)
      BY <2>1, <3>1, ClistInsertFront
    <3> QED
      BY <3>2 DEF Fields
  <2> HIDE DEF k, p
  <2>3. Links(k, R, L)
    BY <1>2, <2>1, <2>2 DEF Links
  <2>4. /\ k.next[r] = n /\ k.next[p] = r /\ \A x \in R \ {p, r} : k.next[x] = m.next[x]
        /\ k.prev[r] = p /\ k.prev[n] = r /\ \A x \in R \ {n, r} : k.prev[x] = m.prev[x]
    BY <2>1, <2>2 DEF Links
  <2>5. IsRing(P \cup {r}, k.next, k.prev)
    <3>1. IsRing(P, m.next, m.prev)
      BY DEF OnRing
    <3>2. k.next[r] = n /\ k.next[m.prev[n]] = r /\ \A x \in P \ {m.prev[n]} : k.next[x] = m.next[x]
      BY <2>4 DEF p
    <3>3. k.prev[r] = m.prev[n] /\ k.prev[n] = r /\ \A x \in P \ {n} : k.prev[x] = m.prev[x]
      BY <2>4 DEF p
    <3> QED
      BY <2>1, <3>1, <3>2, <3>3, RingInsert
  <2>6. k.first[l] = r /\ k.last[l] # NULL
    BY <2>1, <2>2 DEF Links
  <2>7. Elsewhere(m, k, R, L, l, P \cup {r})
    <3>1. \A j \in L \ {l} : k.first[j] = m.first[j] /\ k.last[j] = m.last[j]
      BY <2>2 DEF Links
    <3> QED
      BY <2>1, <2>4, <3>1 DEF Elsewhere
  <2>8. OnRing(k, l, P \cup {r})
    BY <2>5, <2>6 DEF OnRing
  <2> QED
    BY <1>1, <2>3, <2>7, <2>8 DEF k
<1> QED
  BY <1>3, <1>4

LEMMA ClistRemoveList ==
  ASSUME NEW R, NEW L, NEW m, Links(m, R, L), NEW l \in L, NEW P, P \subseteq R,
         OnRing(m, l, P), NEW r \in P
  PROVE  LET k == ClistRemove(m, l, r)
         IN /\ Links(k, R, L) /\ OnlyLinks(m, k) /\ OnRing(k, l, P \ {r})
            /\ Elsewhere(m, k, R, L, l, P)
<1> DEFINE k == ClistRemove(m, l, r)
<1>1. CASE m.prev[r] = r
  <2>1. P = {r}
    BY <1>1, RingAlone DEF OnRing
  <2>2. /\ OnlyLinks(m, k) /\ k.next = m.next /\ k.prev = m.prev
        /\ k.first = [m.first EXCEPT ![l] = NULL] /\ k.last = [m.last EXCEPT ![l] = NULL]
    <3>1. IsHeap(m)
      BY DEF Links
    <3>2. OnlyLinks(m, k) /\ Fields(k, m.next, m.prev, [m.first EXCEPT ![l] = NULL],
                                    [m.last EXCEPT ![l] = NULL])
      BY <1>1, <3>1, ClistRemoveAlone
    <3> QED
      BY <3>2 DEF Fields
  <2> HIDE DEF k
  <2>3. Links(k, R, L)
    BY <2>2 DEF Links, OnlyLinks
  <2>4. Elsewhere(m, k, R, L, l, P)
    BY <2>2 DEF Links, Elsewhere
  <2>5. OnRing(k, l, P \ {r})
    <3>1. P \ {r} = {}
      BY <2>1
    <3>2. k.first[l] = NULL /\ k.last[l] = NULL
      BY <2>2 DEF Links
    <3> QED
      BY <3>1, <3>2, RingEmpty DEF OnRing
  <2> QED
    BY <2>2, <2>3, <2>4, <2>5 DEF k
<1>2. CASE m.prev[r] # r
  <2> DEFINE n == m.next[r]
             p == m.prev[r]
  <2>1. /\ n \in P /\ p \in P /\ n # NULL /\ p # NULL
        /\ IsRing(P, m.next, m.prev) /\ r \in R /\ n # r /\ p # r
    BY <1>2 DEF OnRing, IsRing, Links
  <2> HIDE DEF n, p
  <2>2. /\ OnlyLinks(m, k)
        /\ k.next = [[m.next EXCEPT ![p] = n] EXCEPT ![r] = NULL]
        /\ k.prev = [[m.prev EXCEPT ![n] = p] EXCEPT ![r] = NULL]
        /\ k.first = [m.first EXCEPT ![l] = IF @ = r THEN n ELSE @] /\ k.last = m.last
    <3>1. IsHeap(m) /\ n = m.next[r] /\ p = m.prev[r]
      BY DEF Links, n, p
    <3>2. /\ OnlyLinks(m, k)
          /\ Fields(k, [[m.next EXCEPT ![p] = n] EXCEPT ![r] = NULL],
                    [[m.prev EXCEPT ![n] = p] EXCEPT ![r] = NULL],
                    [m.first EXCEPT ![l] = IF @ = r THEN n ELSE @], m.last)
      <4>1. m.prev[r] # r /\ n # NULL /\ p # NULL
        BY <1>2, <2>1
      <4> QED
        BY <3>1, <4>1, ClistRemoveLinked
    <3> QED
      BY <3>2 DEF Fields
  <2> HIDE DEF k
  <2>3. Links(k, R, L)
    BY <2>1, <2>2 DEF Links, OnlyLinks
  <2>4. /\ k.next[p] = n /\ \A x \in R \ {p, r} : k.next[x] = m.next[x]
        /\ k.prev[n] = p /\ \A x \in R \ {n, r} : k.prev[x] = m.prev[x]
    BY <2>1, <2>2 DEF Links
  <2>5. IsRing(P \ {r}, k.next, k.prev) /\ P \ {r} # {}
    <3>1. k.next[m.prev[r]] = m.next[r] /\ \A x \in P \ {m.prev[r], r} : k.next[x] = m.next[x]
      BY <2>4 DEF n, p
    <3>2. k.prev[m.next[r]] = m.prev[r] /\ \A x \in P \ {m.next[r], r} : k.prev[x] = m.prev[x]
      BY <2>4 DEF n, p
    <3> QED
      BY <1>2, <2>1, <3>1, <3>2, RingRemove
  <2>6. k.first[l] \in P \ {r} /\ k.last[l] # NULL
    <3>1. m.first[l] \in P /\ m.last[l] # NULL
      BY DEF OnRing
    <3> QED
      BY <2>1, <2>2, <3>1 DEF Links
  <2>7. Elsewhere(m, k, R, L, l, P)
    <3>1. \A j \in L \ {l} : k.first[j] = m.first[j] /\ k.last[j] = m.last[j]
      BY <2>2 DEF Links
    <3> QED
      BY <2>1, <2>4, <3>1 DEF Elsewhere
  <2>8. OnRing(k, l, P \ {r})
    BY <2>5, <2>6 DEF OnRing
  <2> QED
    BY <2>2, <2>3, <2>7, <2>8 DEF k
<1> QED
  BY <1>1, <1>2

LEMMA DequeuePushList ==
  ASSUME NEW R, NEW L, NEW m, Links(m, R, L), NEW l \in L, NEW P, P \subseteq R,
         OnChain(m, l, P), NEW r \in R, r \notin P
  PROVE  LET k == DequeuePush(m, l, r)
         IN /\ Links(k, R, L) /\ OnlyLinks(m, k) /\ OnChain(k, l, P \cup {r})
            /\ Elsewhere(m, k, R, L, l, P \cup {r})
<1> DEFINE k == DequeuePush(m, l, r)
           p == m.last[l]
<1>1. p \in P \cup {NULL} /\ p # r /\ r # NULL
  BY DEF OnChain, IsChain, Links
<1> HIDE DEF p
<1>2. /\ OnlyLinks(m, k)
      /\ k.next = [(IF p = NULL THEN m.next ELSE [m.next EXCEPT ![p] = r]) EXCEPT ![r] = NULL]
      /\ k.prev = [m.prev EXCEPT ![r] = p] /\ k.last = [m.last EXCEPT ![l] = r]
      /\ k.first = [m.first EXCEPT ![l] = IF p = NULL THEN r ELSE @]
  <2>1. IsHeap(m) /\ p = m.last[l]
    BY DEF Links, p
  <2>2. /\ OnlyLinks(m, k)
        /\ Fields(k, [(IF p = NULL THEN m.next ELSE [m.next EXCEPT ![p] = r]) EXCEPT ![r] = NULL],
                  [m.prev EXCEPT ![r] = p], [m.first EXCEPT ![l] = IF p = NULL THEN r ELSE @],
                  [m.last EXCEPT ![l] = r])
    BY <2>1, DequeuePushFields
  <2> QED
    BY <2>2 DEF Fields
<1> HIDE DEF k
<1>3. Links(k, R, L)
  BY <1>1, <1>2 DEF Links, OnlyLinks
<1>4. /\ k.next[r] = NULL /\ (p # NULL => k.next[p] = r)
      /\ \A x \in R \ {p, r} : k.next[x] = m.next[x]
      /\ k.prev[r] = p /\ \A x \in R \ {r} : k.prev[x] = m.prev[x]
      /\ k.last[l] = r /\ k.first[l] = IF p = NULL THEN r ELSE m.first[l]
  BY <1>1, <1>2 DEF Links
<1>5. OnChain(k, l, P \cup {r})
  <2>1. IsChain(P, m.next, m.prev, m.first[l], p)
    BY DEF OnChain, p
  <2>2. /\ \A x \in P \ {p} : k.next[x] = m.next[x]
        /\ \A x \in P : k.prev[x] = m.prev[x]
    BY <1>4
  <2> DEFINE h == k.first[l]
  <2>3. h = IF p = NULL THEN r ELSE m.first[l]
    BY <1>4
  <2> HIDE DEF h
  <2>4. k.next[r] = NULL /\ (p # NULL => k.next[p] = r) /\ k.prev[r] = p
    BY <1>4
  <2> DEFINE nx == m.next  pv == m.prev  nx2 == k.next  pv2 == k.prev  f == m.first[l]
  <2> HIDE DEF nx, pv, nx2, pv2, f
  <2>5. /\ IsChain(P, nx, pv, f, p) /\ r \notin P /\ r # NULL
        /\ nx2[r] = NULL /\ (p # NULL => nx2[p] = r) /\ pv2[r] = p
        /\ \A x \in P \ {p} : nx2[x] = nx[x]
        /\ \A x \in P : pv2[x] = pv[x]
        /\ h = IF p = NULL THEN r ELSE f
    BY <1>1, <2>1, <2>2, <2>3, <2>4 DEF nx, pv, nx2, pv2, f
  <2>6. IsChain(P \cup {r}, nx2, pv2, h, r)
    BY <2>5, ChainPush
  <2> QED
    BY <1>4, <2>6 DEF OnChain, h, nx2, pv2
<1>6. Elsewhere(m, k, R, L, l, P \cup {r})
  <2>1. \A j \in L \ {l} : k.first[j] = m.first[j] /\ k.last[j] = m.last[j]
    BY <1>2 DEF Links
  <2> QED
    BY <1>1, <1>4, <2>1 DEF Elsewhere, Links
<1> QED
  BY <1>2, <1>3, <1>5, <1>6 DEF k

LEMMA DequeuePopList ==
  ASSUME NEW R, NEW L, NEW m, Links(m, R, L), NEW l \in L, NEW P, P \subseteq R,
         OnChain(m, l, P), m.last[l] # NULL
  PROVE  LET k == DequeuePop(m, l)
         IN /\ Links(k, R, L) /\ OnlyLinks(m, k) /\ OnChain(k, l, P \ {m.last[l]})
            /\ Elsewhere(m, k, R, L, l, P) /\ m.last[l] \in P
<1> DEFINE k == DequeuePop(m, l)
           r == m.last[l]
           p == m.prev[r]
<1>1. r \in P /\ P # {} /\ p \in P \cup {NULL}
  BY DEF OnChain, IsChain, Links
<1> HIDE DEF p
<1>2. /\ OnlyLinks(m, k)
      /\ k.next = (IF p = NULL THEN m.next ELSE [m.next EXCEPT ![p] = NULL])
      /\ k.prev = m.prev /\ k.last = [m.last EXCEPT ![l] = p]
      /\ k.first = [m.first EXCEPT ![l] = IF p = NULL THEN NULL ELSE @]
  <2>1. IsHeap(m) /\ p = m.prev[m.last[l]]
    BY DEF Links, p
  <2>2. /\ OnlyLinks(m, k)
        /\ Fields(k, IF p = NULL THEN m.next ELSE [m.next EXCEPT ![p] = NULL], m.prev,
                  [m.first EXCEPT ![l] = IF p = NULL THEN NULL ELSE @], [m.last EXCEPT ![l] = p])
    BY <2>1, DequeuePopFields
  <2> QED
    BY <2>2 DEF Fields
<1> HIDE DEF k
<1>3. Links(k, R, L)
  BY <1>1, <1>2 DEF Links, OnlyLinks
<1>4. /\ p # NULL => k.next[p] = NULL
      /\ \A x \in R \ {p} : k.next[x] = m.next[x]
      /\ k.last[l] = p /\ k.first[l] = IF p = NULL THEN NULL ELSE m.first[l]
  BY <1>1, <1>2 DEF Links
<1> HIDE DEF r
<1>5. OnChain(k, l, P \ {r})
  <2>1. IsChain(P, m.next, m.prev, m.first[l], r) /\ p = m.prev[r]
    BY DEF OnChain, p, r
  <2>2. \A x \in P \ {p, r} : k.next[x] = m.next[x]
    BY <1>4
  <2>3. IsChain(P \ {r}, k.next, m.prev, k.first[l], p)
    BY <1>1, <1>4, <2>1, <2>2, ChainPop
  <2> QED
    BY <1>2, <1>4, <2>3 DEF OnChain
<1>6. Elsewhere(m, k, R, L, l, P)
  <2>1. \A j \in L \ {l} : k.first[j] = m.first[j] /\ k.last[j] = m.last[j]
    BY <1>2 DEF Links
  <2> QED
    BY <1>1, <1>2, <1>4, <2>1 DEF Elsewhere, Links
<1> QED
  BY <1>1, <1>2, <1>3, <1>5, <1>6 DEF k, r

LEMMA DequeueRemoveList ==
  ASSUME NEW R, NEW L, NEW m, Links(m, R, L), NEW l \in L, NEW P, P \subseteq R,
         OnChain(m, l, P), NEW r \in P
  PROVE  LET k == DequeueRemove(m, l, r)
         IN /\ Links(k, R, L) /\ OnlyLinks(m, k) /\ OnChain(k, l, P \ {r})
            /\ Elsewhere(m, k, R, L, l, P)
<1> DEFINE k == DequeueRemove(m, l, r)
           p == m.prev[r]
           n == m.next[r]
<1>1. /\ p \in P \cup {NULL} /\ n \in P \cup {NULL} /\ p # r /\ n # r /\ NULL \notin P
  <2>1. IsChain(P, m.next, m.prev, m.first[l], m.last[l])
    BY DEF OnChain
  <2>2. m.next[r] # r /\ m.prev[r] # r
    BY <2>1, ChainNoLoop
  <2> QED
    BY <2>1, <2>2 DEF IsChain
<1>0. p = m.prev[r] /\ n = m.next[r]
  OBVIOUS
<1> HIDE DEF p, n
<1>2. /\ OnlyLinks(m, k)
      /\ k.next = (IF p = NULL THEN m.next ELSE [m.next EXCEPT ![p] = n])
      /\ k.prev = (IF n = NULL THEN m.prev ELSE [m.prev EXCEPT ![n] = p])
      /\ k.first = [m.first EXCEPT ![l] = IF @ = r THEN n ELSE @]
      /\ k.last = [m.last EXCEPT ![l] = IF @ = r THEN p ELSE @]
  <2>1. IsHeap(m)
    BY DEF Links
  <2>2. /\ OnlyLinks(m, k)
        /\ Fields(k, IF p = NULL THEN m.next ELSE [m.next EXCEPT ![p] = n],
                  IF n = NULL THEN m.prev ELSE [m.prev EXCEPT ![n] = p],
                  [m.first EXCEPT ![l] = IF @ = r THEN n ELSE @],
                  [m.last EXCEPT ![l] = IF @ = r THEN p ELSE @])
    BY <1>0, <2>1, DequeueRemoveFields
  <2> QED
    BY <2>2 DEF Fields
<1> HIDE DEF k
<1>3. Links(k, R, L)
  BY <1>1, <1>2 DEF Links, OnlyLinks
<1>4. /\ p # NULL => k.next[p] = n
      /\ \A x \in R \ {p} : k.next[x] = m.next[x]
      /\ n # NULL => k.prev[n] = p
      /\ \A x \in R \ {n} : k.prev[x] = m.prev[x]
      /\ k.first[l] = (IF m.first[l] = r THEN n ELSE m.first[l])
      /\ k.last[l] = (IF m.last[l] = r THEN p ELSE m.last[l])
  BY <1>1, <1>2 DEF Links
<1>5. OnChain(k, l, P \ {r})
  <2> DEFINE nx == m.next  pv == m.prev  nx2 == k.next  pv2 == k.prev
             f == m.first[l]  t == m.last[l]  f2 == k.first[l]  t2 == k.last[l]
  <2>1. /\ IsChain(P, nx, pv, f, t)
        /\ f2 = (IF f = r THEN nx[r] ELSE f)
        /\ t2 = (IF t = r THEN pv[r] ELSE t)
    BY <1>0, <1>4 DEF OnChain
  <2>0. Bridged(P, nx, pv, nx2, pv2, r)
    BY <1>0, <1>4 DEF Bridged
  <2> HIDE DEF nx, pv, nx2, pv2, f, t, f2, t2
  <2>2. IsChain(P \ {r}, nx2, pv2, f2, t2)
    BY <2>0, <2>1, ChainRemove
  <2> QED
    BY <2>2 DEF OnChain, nx2, pv2, f2, t2
<1>6. Elsewhere(m, k, R, L, l, P)
  <2>1. \A j \in L \ {l} : k.first[j] = m.first[j] /\ k.last[j] = m.last[j]
    BY <1>2 DEF Links
  <2>2. ASSUME NEW x \in R \ P PROVE k.next[x] = m.next[x] /\ k.prev[x] = m.prev[x]
    <3>1. NULL \notin R
      BY DEF Links
    <3>2. x # p /\ x # n
      BY <1>1, <3>1
    <3> QED
      BY <1>4, <3>2
  <2> QED
    BY <2>1, <2>2 DEF Elsewhere
<1> QED
  BY <1>2, <1>3, <1>5, <1>6 DEF k

-----------------------------------------------------------------------------
(* Where the links go when a record joins or leaves a ring.                *)

\* r is put behind y.
LEMMA ClistInsertNext ==
  ASSUME NEW R, NEW L, NEW m, Links(m, R, L), NEW l \in L, NEW P \in SUBSET R, P # {},
         OnRing(m, l, P), NEW r \in R, r \notin P, NEW k, k = ClistInsert(m, l, r)
  PROVE  \E y \in P : /\ k.next[y] = r /\ k.next[r] = m.next[y] /\ k.prev[r] = y
                      /\ \A x \in P \ {y} : k.next[x] = m.next[x]
<1> DEFINE n == m.first[l]
           p == m.prev[n]
<1>1. n \in P /\ p \in P /\ m.next[p] = n /\ n # NULL /\ r # p /\ r # n
  BY DEF OnRing, IsRing, Links
<1>2. ~(m.first[l] = NULL /\ m.last[l] = NULL) /\ IsHeap(m)
  BY <1>1 DEF Links
<1>3. /\ m.next \in [R -> R \cup {NULL}] /\ m.prev \in [R -> R \cup {NULL}]
  BY DEF Links
<1> HIDE DEF n, p
<1>4. Fields(k, [[m.next EXCEPT ![r] = n] EXCEPT ![p] = r],
             [[m.prev EXCEPT ![r] = p] EXCEPT ![n] = r], [m.first EXCEPT ![l] = r], m.last)
  BY <1>2, ClistInsertFront DEF n, p
<1>5. /\ k.next = [[m.next EXCEPT ![r] = n] EXCEPT ![p] = r]
      /\ k.prev = [[m.prev EXCEPT ![r] = p] EXCEPT ![n] = r]
  BY <1>4 DEF Fields
<1>6. /\ k.next[p] = r /\ k.next[r] = n /\ k.prev[r] = p
      /\ \A x \in P \ {p} : k.next[x] = m.next[x]
  BY <1>1, <1>3, <1>5
<1> QED
  BY <1>1, <1>6

\* The successor of r becomes that of its predecessor.
LEMMA ClistRemoveNext ==
  ASSUME NEW R, NEW L, NEW m, Links(m, R, L), NEW l \in L, NEW P \in SUBSET R,
         OnRing(m, l, P), NEW r \in P, NEW k, k = ClistRemove(m, l, r)
  PROVE  \A x \in P \ {r} : k.next[x] = IF m.next[x] = r THEN m.next[r] ELSE m.next[x]
<1> SUFFICES ASSUME NEW x \in P \ {r}
             PROVE  k.next[x] = IF m.next[x] = r THEN m.next[r] ELSE m.next[x]
  OBVIOUS
<1> DEFINE n == m.next[r]
           p == m.prev[r]
<1>1. IsRing(P, m.next, m.prev) /\ IsHeap(m) /\ NULL \notin P
  BY DEF OnRing, Links
<1>2. n \in P /\ p \in P /\ m.next[p] = r /\ n # NULL /\ p # NULL
  BY <1>1 DEF IsRing
<1>3. p # r
  BY <1>1, RingAlone
<1>4. m.next \in [R -> R \cup {NULL}]
  BY DEF Links
<1>5. m.next[x] = r <=> x = p
  BY <1>1, <1>2 DEF IsRing
<1> HIDE DEF n, p
<1>6. Fields(k, [[m.next EXCEPT ![p] = n] EXCEPT ![r] = NULL],
             [[m.prev EXCEPT ![n] = p] EXCEPT ![r] = NULL],
             [m.first EXCEPT ![l] = IF @ = r THEN n ELSE @], m.last)
  BY <1>1, <1>2, <1>3, ClistRemoveLinked DEF n, p
<1>7. k.next = [[m.next EXCEPT ![p] = n] EXCEPT ![r] = NULL]
  BY <1>6 DEF Fields
<1> QED
  BY <1>2, <1>4, <1>5, <1>7 DEF n

-----------------------------------------------------------------------------
(* Rings as sequences.                                                     *)

\* w goes round the ring P once, from x.
IsRound(w, P, nx, x) ==
  LET n == Cardinality(P)
  IN /\ w \in [1..n -> P] /\ w[1] = x
     /\ \A i \in 1..n : nx[w[i]] = IF i = n THEN x ELSE w[i + 1]

\* It meets everybody, and nobody twice.
IsTour(w, P, nx, x) ==
  /\ IsRound(w, P, nx, x) /\ P = {w[i] : i \in 1..Cardinality(P)}
  /\ \A i, j \in 1..Cardinality(P) : w[i] = w[j] => i = j

LEMMA CardPositive ==
  ASSUME NEW P, IsFiniteSet(P), NEW x \in P
  PROVE  Cardinality(P) \in Nat /\ Cardinality(P) > 0
<1>1. Cardinality(P) \in Nat /\ Cardinality(P) # 0
  BY FS_CardinalityType, FS_EmptySet
<1> QED
  BY <1>1

LEMMA RoundOfRing ==
  ASSUME NEW P, IsFiniteSet(P), NULL \notin P, NEW m, NEW pv, IsRing(P, m.next, pv), NEW x \in P,
         NEW w, w = WalkFrom(m, x, Cardinality(P))
  PROVE  IsTour(w, P, m.next, x)
<1> DEFINE n == Cardinality(P)
           nx == m.next
<1>1. n \in Nat /\ n > 0
  BY CardPositive
<1> HIDE DEF n
<1>2. IsWalk(w, nx, x, n)
  BY <1>1, WalkFromIsWalk DEF n
<1>3. \A p \in P : nx[p] \in P /\ pv[nx[p]] = p
  BY DEF IsRing
<1>4. {w[i] : i \in 1..n} \ {NULL} = P
  <2>1. Reaches(P, nx, x)
    BY RingReaches
  <2>2. Cardinality(P) <= n
    BY <1>1 DEF n
  <2> QED
    BY <1>1, <1>2, <1>3, <2>1, <2>2, WalkMembers
<1>5. w \in [1..n -> P]
  <2> DEFINE T == {i \in 1..n : w[i] \notin P}
  <2>1. T = {}
    <3> SUFFICES ASSUME T # {} PROVE FALSE
      OBVIOUS
    <3>1. T \in SUBSET Nat
      OBVIOUS
    <3>2. PICK k \in T : \A i \in T : k <= i
      BY <3>1, NatLeast
    <3>3. k \in 1..n /\ w[k] \notin P
      OBVIOUS
    <3>4. k # 1
      BY <1>1, <1>2, <3>3 DEF IsWalk
    <3>5. k - 1 \in 1..n /\ k > 1 /\ k - 1 < k
      BY <1>1, <3>3, <3>4
    <3>6. w[k - 1] \in P
      BY <3>2, <3>5
    <3>7. w[k] = IF w[k - 1] = NULL THEN NULL ELSE nx[w[k - 1]]
      BY <1>2, <3>3, <3>5 DEF IsWalk
    <3> QED
      BY <1>3, <3>3, <3>6, <3>7
  <2>2. \A i \in 1..n : w[i] \in P
    BY <2>1
  <2> QED
    BY <1>2, <2>2 DEF IsWalk
<1>6. P = {w[i] : i \in 1..n}
  BY <1>4, <1>5
<1>7. \A i, j \in 1..n : w[i] = w[j] => i = j
  <2>1. IsFiniteSet(1..n) /\ Cardinality(1..n) = n
    BY <1>1, FS_Interval
  <2>2. w \in Surjection(1..n, P)
    BY <1>5, <1>6 DEF Surjection
  <2>3. w \in Injection(1..n, P)
    BY <2>1, <2>2, FS_Surjection DEF n
  <2> QED
    BY <2>3 DEF Injection, IsInjective
<1>8. w[1] = x
  BY <1>1, <1>2 DEF IsWalk
<1>9. \A i \in 1..n : i # n => nx[w[i]] = w[i + 1]
  <2> SUFFICES ASSUME NEW i \in 1..n, i # n PROVE nx[w[i]] = w[i + 1]
    OBVIOUS
  <2>1. i + 1 \in 1..n /\ i + 1 > 1 /\ (i + 1) - 1 = i
    BY <1>1
  <2>2. w[i + 1] = IF w[i] = NULL THEN NULL ELSE nx[w[i]]
    BY <1>2, <2>1 DEF IsWalk
  <2> QED
    BY <1>5, <2>2
<1>10. nx[w[n]] = x
  <2>1. n \in 1..n
    BY <1>1
  <2>2. PICK j \in 1..n : nx[w[n]] = w[j]
    BY <1>3, <1>5, <1>6, <2>1
  <2>3. CASE j = 1
    BY <1>8, <2>2, <2>3
  <2>4. CASE j # 1
    <3>1. j - 1 \in 1..n /\ j - 1 # n /\ (j - 1) + 1 = j
      BY <1>1, <2>4
    <3>2. nx[w[j - 1]] = w[j]
      BY <1>9, <3>1
    <3>3. w[n] = w[j - 1]
      BY <1>3, <1>5, <2>1, <2>2, <3>1, <3>2
    <3> QED
      BY <1>7, <2>1, <3>1, <3>3
  <2> QED
    BY <2>3, <2>4
<1>11. IsRound(w, P, nx, x)
  BY <1>1, <1>5, <1>8, <1>9, <1>10 DEF IsRound, n
<1> QED
  BY <1>6, <1>7, <1>11 DEF n, IsTour

LEMMA RoundIsWalk ==
  ASSUME NEW P, IsFiniteSet(P), NULL \notin P, NEW m, NEW x \in P, NEW w, IsRound(w, P, m.next, x)
  PROVE  w = WalkFrom(m, x, Cardinality(P))
<1> DEFINE n == Cardinality(P)
<1>1. n \in Nat /\ n > 0
  BY CardPositive
<1> HIDE DEF n
<1>2. /\ w \in [1..n -> P] /\ w[1] = x
      /\ \A i \in 1..n : m.next[w[i]] = IF i = n THEN x ELSE w[i + 1]
  BY DEF IsRound, n
<1>3. ASSUME NEW i \in 1..n, i > 1
      PROVE  w[i] = IF w[i - 1] = NULL THEN NULL ELSE m.next[w[i - 1]]
  <2>1. i - 1 \in 1..n /\ i - 1 # n /\ (i - 1) + 1 = i
    BY <1>1, <1>3
  <2> QED
    BY <1>2, <2>1
<1>4. IsWalk(w, m.next, x, n)
  BY <1>1, <1>2, <1>3 DEF IsWalk
<1>5. IsWalk(WalkFrom(m, x, n), m.next, x, n)
  BY <1>1, WalkFromIsWalk
<1> QED
  BY <1>1, <1>4, <1>5, WalkUnique DEF n

\* The round from the successor.
LEMMA RoundTurned ==
  ASSUME NEW P, IsFiniteSet(P), NEW nx, NEW x \in P, NEW w, IsRound(w, P, nx, x),
         NEW n, n = Cardinality(P), NEW v, v = [i \in 1..n |-> IF i = n THEN x ELSE w[i + 1]]
  PROVE  IsRound(v, P, nx, nx[x])
<1>1. n \in Nat /\ n > 0
  BY CardPositive
<1>2. /\ w \in [1..n -> P] /\ w[1] = x
      /\ \A i \in 1..n : nx[w[i]] = IF i = n THEN x ELSE w[i + 1]
  BY DEF IsRound
<1>3. ASSUME NEW i \in 1..n, i # n
      PROVE  i + 1 \in 1..n
  BY <1>1, <1>3
<1>4. v \in [1..n -> P]
  BY <1>2, <1>3
<1>5. 1 \in 1..n /\ v[1] = nx[x]
  BY <1>1, <1>2
<1>6. ASSUME NEW i \in 1..n
      PROVE  nx[v[i]] = IF i = n THEN nx[x] ELSE v[i + 1]
  BY <1>1, <1>2, <1>3
<1> QED
  BY <1>4, <1>5, <1>6 DEF IsRound

LEMMA PastJoined ==
  ASSUME NEW n \in Nat, NEW j \in 1..n, NEW i \in 1..(n + 1), i > j + 1
  PROVE  /\ i - 1 \in 1..n /\ i - 1 # j /\ (i - 1) + 1 = i /\ (i - 1 = n <=> i = n + 1)
         /\ i # n + 1 => i + 1 \in 1..(n + 1)
         /\ ~(i + 1 <= j) /\ i + 1 # j + 1 /\ (i + 1) - 1 = i
OBVIOUS

\* r joins behind w[j].
JoinedAt(w, n, j, r) ==
  [i \in 1..(n + 1) |-> IF i <= j THEN w[i] ELSE IF i = j + 1 THEN r ELSE w[i - 1]]

LEMMA RoundJoined ==
  ASSUME NEW P, IsFiniteSet(P), NEW nx, NEW x \in P, NEW w, IsTour(w, P, nx, x),
         NEW r, r \notin P, NEW n, n = Cardinality(P), NEW j \in 1..n, NEW nx2,
         nx2[w[j]] = r, nx2[r] = nx[w[j]], \A p \in P \ {w[j]} : nx2[p] = nx[p],
         NEW v, v = JoinedAt(w, n, j, r)
  PROVE  IsRound(v, P \cup {r}, nx2, x)
<1>1. n \in Nat /\ n > 0
  BY CardPositive
<1>2. Cardinality(P \cup {r}) = n + 1
  BY FS_AddElement
<1>3. /\ w \in [1..n -> P] /\ w[1] = x
      /\ \A i \in 1..n : nx[w[i]] = IF i = n THEN x ELSE w[i + 1]
  BY DEF IsTour, IsRound
<1>4. j \in 1..n /\ \A i \in 1..n : w[i] = w[j] => i = j
  BY DEF IsTour
<1>5. \A i \in 1..(n + 1) : v[i] = IF i <= j THEN w[i] ELSE IF i = j + 1 THEN r ELSE w[i - 1]
  BY DEF JoinedAt
<1>6. v \in [1..(n + 1) -> P \cup {r}]
  <2>1. ASSUME NEW i \in 1..(n + 1)
        PROVE  v[i] \in P \cup {r}
    <3>1. i <= j \/ i = j + 1 \/ i > j + 1
      BY <1>4, <2>1
    <3>2. CASE i <= j
      <4>1. i \in 1..n
        BY <1>1, <1>4, <3>2
      <4> QED
        BY <1>3, <1>5, <3>2, <4>1
    <3>3. CASE i = j + 1
      BY <1>4, <1>5, <3>3
    <3>4. CASE i > j + 1
      <4>1. i - 1 \in 1..n
        BY <1>1, <1>4, <3>4
      <4>2. v[i] = w[i - 1]
        BY <1>4, <1>5, <3>4
      <4> QED
        BY <1>3, <4>1, <4>2
    <3> QED
      BY <3>1, <3>2, <3>3, <3>4
  <2>2. v = [i \in 1..(n + 1) |-> v[i]]
    BY DEF JoinedAt
  <2> QED
    BY <2>1, <2>2
<1>7. v[1] = x
  BY <1>1, <1>3, <1>4, <1>5
<1>8. ASSUME NEW i \in 1..(n + 1)
      PROVE  nx2[v[i]] = IF i = n + 1 THEN x ELSE v[i + 1]
  <2>1. i < j \/ i = j \/ i = j + 1 \/ i > j + 1
    BY <1>4
  <2>2. CASE i < j
    <3>1. i \in 1..n /\ i + 1 \in 1..n /\ i # j /\ i # n /\ i + 1 <= j /\ i + 1 \in 1..(n + 1)
      BY <1>1, <1>4, <2>2
    <3>2. w[i] \in P \ {w[j]}
      BY <1>3, <1>4, <3>1
    <3>3. nx2[w[i]] = w[i + 1]
      BY <1>3, <3>1, <3>2
    <3>4. v[i] = w[i] /\ v[i + 1] = w[i + 1] /\ i # n + 1
      BY <1>5, <2>2, <3>1
    <3> QED
      BY <3>3, <3>4
  <2>3. CASE i = j
    <3>1. v[i] = w[j] /\ i + 1 \in 1..(n + 1) /\ v[i + 1] = r /\ i # n + 1
      BY <1>1, <1>4, <1>5, <2>3
    <3> QED
      BY <3>1
  <2>4. CASE i = j + 1
    <3>1. v[i] = r /\ nx2[r] = IF j = n THEN x ELSE w[j + 1]
      BY <1>3, <1>4, <1>5, <2>4
    <3>2. i = n + 1 <=> j = n
      BY <1>1, <1>4, <2>4
    <3>3. i # n + 1 => v[i + 1] = w[j + 1]
      <4> SUFFICES ASSUME i # n + 1 PROVE v[i + 1] = w[j + 1]
        OBVIOUS
      <4>1. i + 1 \in 1..(n + 1) /\ ~(i + 1 <= j) /\ i + 1 # j + 1 /\ (i + 1) - 1 = j + 1
        BY <1>1, <1>4, <2>4
      <4> QED
        BY <1>5, <4>1
    <3> QED
      BY <3>1, <3>2, <3>3
  <2>5. CASE i > j + 1
    <3>1. i - 1 \in 1..n /\ i - 1 # j /\ (i - 1) + 1 = i /\ (i - 1 = n <=> i = n + 1)
      BY <1>1, <1>4, <2>5, PastJoined
    <3>2. v[i] = w[i - 1]
      BY <1>4, <1>5, <2>5
    <3>3. w[i - 1] \in P \ {w[j]}
      BY <1>3, <1>4, <3>1
    <3>4. nx2[w[i - 1]] = IF i = n + 1 THEN x ELSE w[i]
      BY <1>3, <3>1, <3>3
    <3>5. i # n + 1 => v[i + 1] = w[i]
      <4> SUFFICES ASSUME i # n + 1 PROVE v[i + 1] = w[i]
        OBVIOUS
      <4>1. i + 1 \in 1..(n + 1) /\ ~(i + 1 <= j) /\ i + 1 # j + 1 /\ (i + 1) - 1 = i
        BY <1>1, <1>4, <2>5, PastJoined
      <4> QED
        BY <1>5, <4>1
    <3> QED
      BY <3>2, <3>4, <3>5
  <2> QED
    BY <2>1, <2>2, <2>3, <2>4, <2>5
<1> DEFINE Q == P \cup {r}
           k == n + 1
<1>9. /\ Cardinality(Q) = k /\ v \in [1..k -> Q] /\ v[1] = x
      /\ \A i \in 1..k : nx2[v[i]] = IF i = k THEN x ELSE v[i + 1]
  BY <1>2, <1>6, <1>7, <1>8
<1> HIDE DEF Q, k
<1>10. IsRound(v, Q, nx2, x)
  BY <1>9 DEF IsRound
<1> QED
  BY <1>10 DEF Q

\* x leaves.
LEMMA RoundLeft ==
  ASSUME NEW P, IsFiniteSet(P), NEW nx, NEW x \in P, NEW w, IsTour(w, P, nx, x), P # {x},
         NEW nx2, \A p \in P \ {x} : nx2[p] = IF nx[p] = x THEN nx[x] ELSE nx[p],
         NEW n, n = Cardinality(P), NEW v, v = [i \in 1..(n - 1) |-> w[i + 1]]
  PROVE  IsRound(v, P \ {x}, nx2, nx[x])
<1>1. n \in Nat /\ n > 0
  BY CardPositive
<1>2. Cardinality(P \ {x}) = n - 1
  BY FS_RemoveElement
<1>3. n # 1
  BY FS_Singleton
<1>4. /\ w \in [1..n -> P] /\ w[1] = x
      /\ \A i \in 1..n : nx[w[i]] = IF i = n THEN x ELSE w[i + 1]
  BY DEF IsTour, IsRound
<1>5. \A i, j \in 1..n : w[i] = w[j] => i = j
  BY DEF IsTour
<1>6. ASSUME NEW i \in 1..(n - 1)
      PROVE  i + 1 \in 1..n /\ w[i + 1] \in P \ {x} /\ (i + 1 = n <=> i = n - 1)
  <2>1. i + 1 \in 1..n /\ i + 1 # 1 /\ 1 \in 1..n /\ (i + 1 = n <=> i = n - 1)
    BY <1>1
  <2> QED
    BY <1>4, <1>5, <2>1
<1>7. v \in [1..(n - 1) -> P \ {x}]
  BY <1>6
<1>8. v[1] = nx[x]
  BY <1>1, <1>3, <1>4
<1>9. ASSUME NEW i \in 1..(n - 1)
      PROVE  nx2[v[i]] = IF i = n - 1 THEN nx[x] ELSE v[i + 1]
  <2>1. v[i] = w[i + 1] /\ w[i + 1] \in P \ {x} /\ i + 1 \in 1..n
    BY <1>6
  <2>2. CASE i = n - 1
    <3>1. nx[w[i + 1]] = x
      BY <1>4, <1>6, <2>1, <2>2
    <3> QED
      BY <2>1, <2>2, <3>1
  <2>3. CASE i # n - 1
    <3>1. i + 1 \in 1..(n - 1)
      BY <1>1, <2>3
    <3>2. nx[w[i + 1]] = w[(i + 1) + 1]
      BY <1>4, <1>6, <2>1, <2>3
    <3>3. w[(i + 1) + 1] # x /\ v[i + 1] = w[(i + 1) + 1]
      BY <1>6, <3>1
    <3> QED
      BY <2>1, <2>3, <3>2, <3>3
  <2> QED
    BY <2>2, <2>3
<1> QED
  BY <1>2, <1>7, <1>8, <1>9 DEF IsRound
=============================================================================
