----------------------------- MODULE Heap_proofs -----------------------------
(***************************************************************************)
(* Proofs about the allocator of Heap.tla.                                   *)
(***************************************************************************)
EXTENDS HeapProps, FiniteSetTheorems, SequenceTheorems, TLAPS

\* The numbers of processes, that of init too, differ in the bits the page table keeps.
NumbersFit == MaxId < (ProcIds - 1) % OwnerIds

\* Pages that were locked at boot.
Fixed == {0} \cup StackPage..(NumPages - 1)

InfoRec == [fs : 0..FragSizes, cont : BOOLEAN, proc : 0..(OwnerIds - 1)]

StackSet == [Owners -> [FragLogs -> SUBSET Fragments]]

HeapRec == [map   : SUBSET Pages,
            info  : [Pages -> InfoRec],
            free  : Int,
            frags : StackSet,
            live  : [Owners -> SUBSET Blocks]]

\* Where a block can be: handed out or on a stack.
Place == {"live", "stack"}

In(h, o, s, b) ==
  IF s = "live" THEN b \in h.live[o]
  ELSE b.fs \in FragLogs /\ b.n = 1 /\ [page |-> b.page, idx |-> b.idx] \in h.frags[o][b.fs]

\* A page that the next one continues is used, and so is that one, by the same block.
TableOK(h) ==
  /\ Fixed \subseteq h.map
  /\ \A p \in Fixed : h.info[p].cont /\ h.info[p].fs # 0 /\ h.info[p].proc = 0
  /\ \A p \in Pages \ Fixed : h.info[p].cont =>
       /\ p \in h.map /\ h.info[p].fs = 0
       /\ p + 1 \in h.map \ Fixed /\ h.info[p + 1].fs = 0 /\ h.info[p + 1].proc = h.info[p].proc

PagesHeld(h, b) ==
  /\ b.page \in Pages /\ Extent(b) \subseteq h.map \ Fixed /\ b.idx = 0
  /\ b.page - 1 \in Fixed \/ ~h.info[b.page - 1].cont
  /\ \A q \in Extent(b) : h.info[q].fs = 0 /\ h.info[q].cont = (q # b.page + b.n - 1)

FragHeld(h, b) ==
  /\ b.page \in h.map /\ b.n = 1 /\ h.info[b.page].fs = b.fs /\ b.idx \in 0..(2 ^ b.fs - 1)
  /\ b.page \in Fixed => b.idx = 0

Held(h, b) == IF b.fs = 0 THEN PagesHeld(h, b) ELSE FragHeld(h, b)

\* The numbers on the pages of a block of owner o; fragments may be the kernel's.
Marked(h, mk, o, b) ==
  \A q \in Extent(b) : h.info[q].proc \in IF b.fs = 0 THEN mk[o] ELSE mk[o] \cup {0}

PiecesOK(h, mk) ==
  /\ \A o \in Owners : \A s \in Place : \A b \in Blocks :
       In(h, o, s, b) => Held(h, b) /\ Marked(h, mk, o, b)
  /\ \A o, u \in Owners : \A s, t \in Place : \A b \in Blocks :
       In(h, o, s, b) /\ In(h, u, t, b) => o = u /\ s = t

\* The blocks of X are nowhere, but their pages are used.
Spare(h, X) == \A b \in X : b \in Blocks /\ Held(h, b) /\ \A o \in Owners : \A s \in Place : ~In(h, o, s, b)

OneIdle(h) == \A o \in Owners : \A fs \in FragLogs : \A p, q \in Pages :
  Frags(p, fs) \subseteq h.frags[o][fs] /\ Frags(q, fs) \subseteq h.frags[o][fs] => p = q

HeapOK(h, mk, X) ==
  /\ h \in HeapRec /\ IsFiniteSet(h.live[KERNEL])
  /\ h.free = Cardinality(Pages \ h.map)
  /\ TableOK(h) /\ PiecesOK(h, mk) /\ Spare(h, X) /\ OneIdle(h)

\* No process has the number m, and none will have it, unless it is 0.
NoNumber(i, n, m) == m < n /\ \A p \in Procs : i[p] = m => m = 0

\* The numbers on the pages of each owner, where processes have the numbers i, and
\* n is the next one.  What nobody frees may have the number of a process that could
\* not be started.
Marks(i, n) == [o \in Owners |->
  IF o \in Procs THEN {i[o] % OwnerIds}
  ELSE IF o = KERNEL THEN {0}
  ELSE {m \in 0..(OwnerIds - 1) : NoNumber(i, n, m)}]

NumbersOK(i, n) ==
  /\ i \in [Procs -> 0..(ProcIds - 1)] /\ n \in 1..(MaxId + 1)
  /\ \A p, q \in Procs : i[p] = i[q] /\ i[p] # 0 => p = q
  /\ \A p \in Procs : i[p] < n \/ i[p] = ProcIds - 1

\* A process has the blocks s it was started with, until it exits.
ProcOK(h, j, s, p) ==
  IF j = 0 THEN s = <<>> /\ h.live[p] = {} /\ \A fs \in FragLogs : h.frags[p][fs] = {}
  ELSE /\ Len(s) = FragSizes + 5
       /\ s[FragSizes + 1].fs = 0 /\ s[FragSizes + 2].fs # 0
       /\ Range(s) \subseteq h.live[p]

Account(h, i, s, n) ==
  /\ NumbersOK(i, n) /\ HeapOK(h, Marks(i, n), {})
  /\ s \in [Procs -> Seq(Blocks)] /\ \A p \in Procs : ProcOK(h, i[p], s[p], p)

HeapInv == Account(heap, id, starts, proc_id) /\ stalled \in BOOLEAN

-----------------------------------------------------------------------------
(* Numbers, and functions that are defined by recursion.                     *)

LEMMA ConstFacts ==
  /\ NumPages \in Nat \ {0} /\ FragSizes \in Nat \ {0} /\ OwnerIds \in Nat \ {0}
  /\ ProcIds \in Nat \ {0} /\ StackPages \in Nat \ {0} /\ MaxId \in Nat /\ MaxId < ProcIds
  /\ StackPage \in Nat /\ FragSizes < StackPage /\ StackPage < NumPages
  /\ TableLog \in FragLogs /\ 1 \in FragLogs
  /\ \A fs \in FragLogs : 2 ^ fs \in Nat \ {0, 1}
  /\ KERNEL \notin Procs /\ NOBODY \notin Procs /\ KERNEL # NOBODY /\ InitProc \in Procs
  BY HeapAssumption DEF FragLogs, KERNEL, NOBODY

LEMMA NatLeast ==
  ASSUME NEW T \in SUBSET Nat, T # {}
  PROVE  \E m \in T : \A k \in T : m <= k
<1> DEFINE R == OpToRel(<, Nat)
<1>1. IsWellFoundedOn(R, Nat)
  BY NatLessThanWellFounded
<1>2. \A k, m \in Nat : k < m => <<k, m>> \in R
  BY Zenon DEF OpToRel
<1> HIDE DEF R
<1>3. PICK m \in T : \A k \in T : ~(<<k, m>> \in R)
  BY <1>1, WFMin
<1> SUFFICES ASSUME NEW k \in T PROVE m <= k
  OBVIOUS
<1>4. ~(k < m) /\ k \in Nat /\ m \in Nat
  BY <1>2, <1>3
<1> QED
  BY <1>4

LEMMA MinIs ==
  ASSUME NEW T \in SUBSET Nat, T # {}
  PROVE  Min(T) \in T /\ \A k \in T : Min(T) <= k
<1>1. \E m \in T : \A k \in T : m <= k
  BY NatLeast
<1> QED
  BY <1>1, Zenon DEF Min

LEMMA MaxIs ==
  ASSUME NEW n \in Nat, NEW T \in SUBSET (0 .. n), T # {}
  PROVE  Max(T) \in T /\ \A k \in T : k <= Max(T)
<1> DEFINE U == {n - k : k \in T}
<1>1. U \in SUBSET Nat /\ U # {}
  <2>1. \A k \in T : n - k \in Nat
    OBVIOUS
  <2> QED
    BY <2>1
<1>2. PICK u \in U : \A k \in U : u <= k
  BY <1>1, NatLeast
<1>3. PICK m \in T : u = n - m
  BY <1>2
<1>4. ASSUME NEW k \in T PROVE m >= k
  <2>1. n - k \in U /\ m \in 0 .. n /\ k \in 0 .. n
    BY <1>3, <1>4
  <2>2. u <= n - k
    BY <1>2, <2>1
  <2> QED
    BY <1>3, <2>1, <2>2
<1>5. \E x \in T : \A y \in T : x >= y
  BY <1>3, <1>4
<1>6. Max(T) \in T /\ \A y \in T : Max(T) >= y
  BY <1>5, Zenon DEF Max
<1> QED
  BY <1>6

\* A function on D with values in V that calls itself for something smaller, unless at
\* the end.
Recursion(D, V, n, size, end, base, prev, F) ==
  /\ V # {} /\ n \in Nat /\ size \in [D -> 0 .. n]
  /\ end \subseteq D /\ base \in [end -> V]
  /\ prev \in [D -> D] /\ \A d \in D \ end : size[prev[d]] < size[d]
  /\ F \in [D -> [V -> V]]

LEMMA RecursionExists ==
  ASSUME NEW D, NEW V, NEW n, NEW size, NEW end, NEW base, NEW prev, NEW F,
         Recursion(D, V, n, size, end, base, prev, F)
  PROVE  \E f \in [D -> V] : f = [d \in D |-> IF d \in end THEN base[d] ELSE F[d][f[prev[d]]]]
<1> DEFINE Body(f, d) == IF d \in end THEN base[d] ELSE F[d][f[prev[d]]]
           W == {m \in Nat : \E f \in [D -> V] : \A d \in D : size[d] < m => f[d] = Body(f, d)}
<1> USE DEF Recursion
<1>0. PICK v : v \in V
  OBVIOUS
<1>1. ASSUME NEW f \in [D -> V], NEW d \in D
      PROVE  Body(f, d) \in V
  OBVIOUS
<1>2. ASSUME NEW m \in Nat, \A k \in Nat : k < m => k \in W
      PROVE  m \in W
  <2>1. CASE m = 0
    <3>1. [d \in D |-> v] \in [D -> V]
      BY <1>0
    <3>2. \A d \in D : size[d] \in 0 .. n
      OBVIOUS
    <3>3. \A d \in D : ~(size[d] < 0)
      BY <3>2
    <3> QED
      BY <2>1, <3>1, <3>3
  <2>2. CASE m # 0
    <3>1. m - 1 \in W
      <4> HIDE DEF W
      <4>1. m - 1 \in Nat /\ m - 1 < m
        BY <2>2
      <4> QED
        BY <1>2, <4>1
    <3>2. PICK f \in [D -> V] : \A d \in D : size[d] < m - 1 => f[d] = Body(f, d)
      BY <3>1
    <3> DEFINE g == [d \in D |-> IF size[d] < m - 1 THEN f[d] ELSE Body(f, d)]
    <3>3. g \in [D -> V]
      BY <1>1
    <3>4. ASSUME NEW d \in D, size[d] < m
          PROVE  g[d] = Body(g, d)
      <4>1. g[d] = Body(f, d)
        BY <3>2, <3>4
      <4>2. CASE d \in end
        BY <4>1, <4>2
      <4>3. CASE d \notin end
        <5>1. prev[d] \in D /\ size[prev[d]] < size[d] /\ size[d] \in 0 .. n /\ size[prev[d]] \in 0 .. n
          BY <4>3
        <5>2. size[prev[d]] < m - 1
          BY <3>4, <5>1
        <5>3. g[prev[d]] = f[prev[d]]
          BY <5>1, <5>2
        <5> QED
          BY <4>1, <4>3, <5>3
      <4> QED
        BY <4>2, <4>3
    <3> HIDE DEF g
    <3> QED
      BY <3>3, <3>4
  <2> QED
    BY <2>1, <2>2
<1>3. n + 1 \in W
  <2> HIDE DEF W
  <2>1. \A m \in Nat : m \in W
    <3> SUFFICES ASSUME NEW k \in Nat \ W
                 PROVE  FALSE
      OBVIOUS
    <3>1. PICK m \in Nat \ W : \A l \in Nat \ W : m <= l
      BY NatLeast
    <3>2. \A l \in Nat : l < m => l \in W
      BY <3>1
    <3> QED
      BY <1>2, <3>1, <3>2
  <2> QED
    BY <2>1
<1>4. PICK f \in [D -> V] : \A d \in D : size[d] < n + 1 => f[d] = Body(f, d)
  BY <1>3
<1>5. \A d \in D : size[d] \in 0 .. n /\ size[d] < n + 1
  OBVIOUS
<1>6. f = [d \in D |-> Body(f, d)]
  BY <1>4, <1>5
<1> QED
  BY <1>6

-----------------------------------------------------------------------------
(* The search for a gap.                                                     *)

\* Where n pages are free.
Gaps(map, n) == {b \in Pages : b + n <= NumPages /\ b..(b + n - 1) \cap map = {}}

\* What bitmap_seek finds is a gap of n pages.
LEMMA SeekIs ==
  ASSUME NEW map \in SUBSET Pages, NEW n \in Nat \ {0}
  PROVE  Seek(map, n) \in Gaps(map, n) \cup {0}
<1> DEFINE V == Gaps(map, n) \cup {0}
           Bits(b) == map \cap b..(b + n - 1)
           Full(b) == b % 8 # 0 /\ {q \in Pages : q \div 8 = b \div 8} \subseteq map
           Next1(b) == b + (IF Full(b) THEN 8 ELSE 1)
           Body(f, k) ==
             LET b == NumPages - k IN
             IF b >= NumPages - n THEN 0
             ELSE IF b \in map \/ Bits(b) = {} THEN
                    IF b \notin map THEN b
                    ELSE LET j == Next1(b) IN IF j > NumPages THEN 0 ELSE f[NumPages - j]
             ELSE f[NumPages - (Min(Bits(b)) + 1)]
           D == 0..NumPages
           Stop(b) == b >= NumPages - n \/ (b \notin map /\ Bits(b) = {}) \/ (b \in map /\ Next1(b) > NumPages)
           end == {k \in D : Stop(NumPages - k)}
           value(b) == IF b >= NumPages - n \/ b \in map THEN 0 ELSE b
           base == [k \in end |-> value(NumPages - k)]
           Then(b) == IF b \in map THEN Next1(b) ELSE Min(Bits(b)) + 1
           prev == [k \in D |-> IF k \in end THEN k ELSE NumPages - Then(NumPages - k)]
           size == [k \in D |-> k]
           F == [k \in D |-> [v \in V |-> v]]
<1>0. NumPages \in Nat \ {0} /\ Pages = 0..(NumPages - 1)
  BY ConstFacts DEF Pages
<1>1. ASSUME NEW b \in D, ~Stop(b)
      PROVE  Then(b) \in D /\ Then(b) > b
  <2>1. CASE b \in map
    <3>1. Next1(b) \in {b + 1, b + 8}
      OBVIOUS
    <3> HIDE DEF Next1
    <3> QED
      BY <1>0, <1>1, <2>1, <3>1
  <2>2. CASE b \notin map
    <3>1. Bits(b) # {} /\ Bits(b) \in SUBSET Nat
      BY <1>0, <1>1, <2>2
    <3>2. Min(Bits(b)) \in Bits(b)
      BY <3>1, MinIs
    <3> HIDE DEF Next1
    <3>3. Then(b) = Min(Bits(b)) + 1 /\ Min(Bits(b)) \in 0..(NumPages - 1) /\ Min(Bits(b)) >= b
      BY <1>0, <2>2, <3>2
    <3> QED
      BY <1>0, <3>3
  <2> QED
    BY <2>1, <2>2
<1>2. ASSUME NEW b \in D, Stop(b)
      PROVE  value(b) \in V
  <2> HIDE DEF Next1
  <2> QED
    BY <1>0, <1>2 DEF Gaps
<1>3. ASSUME NEW f, NEW k \in D
      PROVE  Body(f, k) = IF k \in end THEN value(NumPages - k) ELSE f[NumPages - Then(NumPages - k)]
  <2> HIDE DEF Full
  <2> QED
    BY <1>0
<1>4. NumPages - NumPages = 0 /\ \A k \in D : NumPages - k \in D /\ NumPages - (NumPages - k) = k
  BY <1>0
<1>5. \E f : f = [k \in D |-> Body(f, k)]
  <2>1. size \in [D -> 0..NumPages] /\ end \in SUBSET D /\ F \in [D -> [V -> V]] /\ 0 \in V
    OBVIOUS
  <2>2. base \in [end -> V]
    BY <1>2, <1>4
  <2>3. \A k \in D \ end : prev[k] \in D /\ size[prev[k]] < size[k]
    <3> TAKE k \in D \ end
    <3>1. NumPages - k \in D /\ ~Stop(NumPages - k)
      BY <1>4
    <3>2. Then(NumPages - k) \in D /\ Then(NumPages - k) > NumPages - k
      BY <1>1, <3>1
    <3> HIDE DEF Then
    <3>3. NumPages - Then(NumPages - k) \in D /\ NumPages - Then(NumPages - k) < k
      BY <1>0, <3>2
    <3> HIDE DEF end
    <3> QED
      BY <3>3
  <2>4. prev \in [D -> D]
    BY <2>3
  <2>5. \A k \in D \ end : size[prev[k]] < size[k]
    BY <2>3
  <2> HIDE DEF size, end, base, prev, F, V, D
  <2>a. Recursion(D, V, NumPages, size, end, base, prev, F)
    BY <1>0, <2>1, <2>2, <2>4, <2>5 DEF Recursion
  <2>6. PICK f \in [D -> V] : f = [k \in D |-> IF k \in end THEN base[k] ELSE F[k][f[prev[k]]]]
    BY <2>a, RecursionExists
  <2>7. \A k \in D : f[k] = Body(f, k)
    <3> TAKE k \in D
    <3>1. f[k] = IF k \in end THEN base[k] ELSE F[k][f[prev[k]]]
      BY <2>6
    <3>2. f[prev[k]] \in V
      BY <2>4, <2>6
    <3>3. F[k][f[prev[k]]] = f[prev[k]]
      BY <3>2 DEF F
    <3>4. k \notin end => prev[k] = NumPages - Then(NumPages - k)
      BY DEF prev
    <3>5. k \in end => base[k] = value(NumPages - k)
      BY DEF base
    <3> HIDE DEF Body, Then, value
    <3> QED
      BY <1>3, <3>1, <3>3, <3>4, <3>5
  <2> HIDE DEF Body
  <2>8. f = [k \in D |-> Body(f, k)]
    BY <2>6, <2>7
  <2> QED
    BY <2>8
<1>6. PICK from : from = [k \in D |-> Body(from, k)] /\ Seek(map, n) = from[NumPages]
  <2> DEFINE it == CHOOSE f : f = [k \in D |-> Body(f, k)]
  <2>1. it = [k \in D |-> Body(it, k)]
    <3> HIDE DEF Body, D
    <3> QED
      BY <1>5, Zenon
  <2>2. Seek(map, n) = it[NumPages]
    BY DEF Seek
  <2> QED
    BY <2>1, <2>2
<1>7. \A k \in D : from[k] \in V
  <2> SUFFICES ASSUME NEW x \in D, from[x] \notin V
               PROVE  FALSE
    OBVIOUS
  <2> DEFINE T == {k \in D : from[k] \notin V}
  <2>1. T \in SUBSET Nat /\ T # {}
    OBVIOUS
  <2>2. PICK m \in T : \A k \in T : m <= k
    BY <2>1, NatLeast
  <2>3. m \in D /\ NumPages - m \in D
    BY <1>4, <2>2
  <2>4. from[m] = Body(from, m)
    <3> HIDE DEF Body
    <3> QED
      BY <1>6, <2>3
  <2>5. from[m] = IF m \in end THEN value(NumPages - m) ELSE from[NumPages - Then(NumPages - m)]
    <3> HIDE DEF Body, end, value, Then
    <3> QED
      BY <1>3, <2>3, <2>4
  <2>6. CASE m \in end
    <3> HIDE DEF value
    <3> QED
      BY <1>2, <2>2, <2>3, <2>5, <2>6
  <2>7. CASE m \notin end
    <3>1. Then(NumPages - m) \in D /\ Then(NumPages - m) > NumPages - m
      BY <1>1, <2>3, <2>7
    <3> HIDE DEF Then
    <3>2. NumPages - Then(NumPages - m) \in D /\ NumPages - Then(NumPages - m) < m
      BY <1>0, <2>3, <3>1
    <3>3. from[NumPages - Then(NumPages - m)] \in V
      BY <2>2, <3>2
    <3> QED
      BY <2>2, <2>5, <2>7, <3>3
  <2> QED
    BY <2>6, <2>7
<1>8. NumPages \in D
  BY <1>0
<1> QED
  BY <1>6, <1>7, <1>8

-----------------------------------------------------------------------------
(* Pages.                                                                    *)

LEMMA PagesAre ==
  /\ Pages = 0..(NumPages - 1) /\ Pages \subseteq Nat /\ Fixed \subseteq Pages
  /\ 0 \in Fixed /\ NumPages - 1 \in Fixed
  /\ \A p \in Pages \ Fixed : p - 1 \in Pages /\ p + 1 \in Pages /\ p >= 1
  BY ConstFacts DEF Pages, Fixed

LEMMA PagesFinite ==
  ASSUME NEW S \in SUBSET Pages
  PROVE  IsFiniteSet(S) /\ Cardinality(S) \in Nat
<1>1. IsFiniteSet(0..(NumPages - 1))
  BY ConstFacts, FS_Interval
<1>2. IsFiniteSet(S)
  BY <1>1, PagesAre, FS_Subset
<1> QED
  BY <1>2, FS_CardinalityType

\* Heap g has other marks on the pages of Q only, and what they belong to ends in Q.
Besides(h, g, Q) ==
  /\ \A q \in Pages \ Q : (q \in g.map <=> q \in h.map) /\ g.info[q] = h.info[q]
  /\ \A q \in Q : q + 1 \notin Q => ~g.info[q].cont

Tagged(p, n, fs, i, g) == \A q \in p..(p + n - 1) :
  g.info[q].fs = fs /\ g.info[q].cont = (q # p + n - 1) /\ g.info[q].proc = i % OwnerIds

LEMMA RefIs ==
  ASSUME NEW h \in HeapRec, NEW p \in Nat, NEW n \in Nat \ {0}, NEW fs \in 0..FragSizes, NEW i \in Nat,
         p..(p + n - 1) \subseteq Pages,
         NEW g, g = PagesRef(h, p, n, fs, i)
  PROVE  /\ g \in HeapRec /\ g.frags = h.frags /\ g.live = h.live /\ g.free = h.free - n
         /\ g.map = h.map \cup p..(p + n - 1)
         /\ Tagged(p, n, fs, i, g)
         /\ \A q \in Pages \ p..(p + n - 1) : g.info[q] = h.info[q]
         /\ Besides(h, g, p..(p + n - 1))
<1>1. i % OwnerIds \in 0..(OwnerIds - 1)
  BY ConstFacts
<1> DEFINE G == p..(p + n - 1)
           info == [q \in Pages |-> IF q \in G THEN [fs |-> fs, cont |-> q # p + n - 1, proc |-> i % OwnerIds]
                                    ELSE h.info[q]]
<1>2. g = [h EXCEPT !.free = @ - n, !.map = @ \cup G, !.info = info]
  BY DEF PagesRef
<1>3. info \in [Pages -> InfoRec]
  BY <1>1 DEF HeapRec, InfoRec
<1> HIDE DEF info
<1>4. /\ g \in HeapRec /\ g.frags = h.frags /\ g.live = h.live /\ g.free = h.free - n
      /\ g.map = h.map \cup G /\ g.info = info
  <2> HIDE DEF G
  <2>1. g = [map |-> h.map \cup G, info |-> info, free |-> h.free - n, frags |-> h.frags, live |-> h.live]
    BY <1>2 DEF HeapRec
  <2> QED
    BY <1>3, <2>1 DEF HeapRec, G
<1>5. \A q \in G : q \in Pages /\ (q + 1 \notin G => q = p + n - 1)
  OBVIOUS
<1>6. \A q \in G : g.info[q].fs = fs /\ g.info[q].cont = (q # p + n - 1) /\ g.info[q].proc = i % OwnerIds
  BY <1>4, <1>5 DEF info
<1>7. \A q \in Pages \ G : g.info[q] = h.info[q] /\ (q \in g.map <=> q \in h.map)
  BY <1>4 DEF info
<1> QED
  BY <1>4, <1>5, <1>6, <1>7 DEF Besides, Tagged

LEMMA FreeIs ==
  ASSUME NEW h \in HeapRec, NEW P \in SUBSET Pages, NEW g, g = PagesFree(h, P)
  PROVE  /\ g \in HeapRec /\ g.frags = h.frags /\ g.live = h.live /\ g.free = h.free + Cardinality(P)
         /\ g.map = h.map \ P
         /\ \A q \in P : g.info[q] = FreeInfo
         /\ \A q \in Pages \ P : g.info[q] = h.info[q]
         /\ Besides(h, g, P)
<1> DEFINE info == [q \in Pages |-> IF q \in P THEN FreeInfo ELSE h.info[q]]
<1>1. g = [h EXCEPT !.free = @ + Cardinality(P), !.map = @ \ P, !.info = info]
  BY DEF PagesFree
<1>2. FreeInfo \in InfoRec /\ ~FreeInfo.cont
  BY ConstFacts DEF FreeInfo, InfoRec
<1>3. info \in [Pages -> InfoRec]
  BY <1>2 DEF HeapRec
<1>4. Cardinality(P) \in Int
  BY PagesFinite
<1> HIDE DEF info
<1>5. /\ g \in HeapRec /\ g.frags = h.frags /\ g.live = h.live /\ g.free = h.free + Cardinality(P)
      /\ g.map = h.map \ P /\ g.info = info
  <2>1. g = [map |-> h.map \ P, info |-> info, free |-> h.free + Cardinality(P), frags |-> h.frags, live |-> h.live]
    BY <1>1 DEF HeapRec
  <2> QED
    BY <1>3, <1>4, <2>1 DEF HeapRec
<1> QED
  BY <1>2, <1>5 DEF info, Besides

\* The number of free pages.
LEMMA RefCounts ==
  ASSUME NEW h \in HeapRec, h.free = Cardinality(Pages \ h.map), NEW p \in Nat, NEW n \in Nat \ {0},
         p..(p + n - 1) \subseteq Pages \ h.map
  PROVE  h.free - n = Cardinality(Pages \ (h.map \cup p..(p + n - 1)))
<1> DEFINE G == p..(p + n - 1)
           F == Pages \ h.map
           R == F \ G
<1>1. Cardinality(G) = n
  <2>1. p \in Int /\ p + n - 1 \in Int /\ ~(p > p + n - 1) /\ (p + n - 1) - p + 1 = n
    OBVIOUS
  <2> QED
    BY <2>1, FS_Interval
<1>2. F = R \cup G /\ R \cap G = {} /\ R = Pages \ (h.map \cup G)
  OBVIOUS
<1>3. F \in SUBSET Pages /\ G \in SUBSET Pages /\ R \in SUBSET Pages
  OBVIOUS
<1> HIDE DEF G, F, R
<1>4. IsFiniteSet(R) /\ IsFiniteSet(G) /\ Cardinality(R) \in Nat
  BY <1>3, PagesFinite
<1>5. Cardinality(F) = Cardinality(R) + Cardinality(G) - Cardinality(R \cap G)
  BY <1>2, <1>4, FS_Union
<1>6. Cardinality(R \cap G) = 0
  BY <1>2, FS_EmptySet, Zenon
<1>7. h.free = Cardinality(F)
  BY DEF F
<1>8. h.free - n = Cardinality(R)
  BY <1>1, <1>4, <1>5, <1>6, <1>7
<1> QED
  BY <1>2, <1>8 DEF G

LEMMA FreeCounts ==
  ASSUME NEW h \in HeapRec, h.free = Cardinality(Pages \ h.map), NEW P \in SUBSET h.map
  PROVE  h.free + Cardinality(P) = Cardinality(Pages \ (h.map \ P))
<1> DEFINE F == Pages \ h.map
<1>1. P \in SUBSET Pages /\ F \in SUBSET Pages
  BY DEF HeapRec
<1>2. F \cap P = {} /\ Pages \ (h.map \ P) = F \cup P
  BY <1>1
<1>3. h.free = Cardinality(F)
  OBVIOUS
<1> HIDE DEF F
<1>4. IsFiniteSet(F) /\ IsFiniteSet(P) /\ Cardinality(F) \in Nat /\ Cardinality(P) \in Nat
  BY <1>1, PagesFinite
<1>5. Cardinality(F \cup P) = Cardinality(F) + Cardinality(P) - Cardinality(F \cap P)
  BY <1>4, FS_Union
<1>6. Cardinality(F \cap P) = 0
  BY <1>2, FS_EmptySet, Zenon
<1>7. h.free + Cardinality(P) = Cardinality(F \cup P)
  BY <1>3, <1>4, <1>5, <1>6
<1> QED
  BY <1>2, <1>7, Zenon

LEMMA RefTable ==
  ASSUME NEW h \in HeapRec, TableOK(h), NEW p \in Nat, NEW n \in Nat \ {0}, NEW fs \in 0..FragSizes, NEW i \in Nat,
         p..(p + n - 1) \subseteq Pages \ h.map, fs = 0 \/ n = 1,
         NEW g, g = PagesRef(h, p, n, fs, i)
  PROVE  TableOK(g)
<1> DEFINE G == p..(p + n - 1)
<1>1. /\ g \in HeapRec /\ g.map = h.map \cup G
      /\ \A q \in G : /\ g.info[q].fs = fs /\ g.info[q].cont = (q # p + n - 1)
                      /\ g.info[q].proc = i % OwnerIds
      /\ \A q \in Pages \ G : g.info[q] = h.info[q]
  BY RefIs DEF Tagged
<1>2. Fixed \subseteq Pages /\ Fixed \cap G = {} /\ h.map \subseteq Pages
  BY PagesAre DEF TableOK, HeapRec
<1>3. \A q \in Fixed : q \in g.map /\ g.info[q].cont /\ g.info[q].fs # 0 /\ g.info[q].proc = 0
  BY <1>1, <1>2 DEF TableOK
<1>4. ASSUME NEW q \in Pages \ Fixed, g.info[q].cont
      PROVE  /\ q \in g.map /\ g.info[q].fs = 0
             /\ q + 1 \in g.map \ Fixed /\ g.info[q + 1].fs = 0 /\ g.info[q + 1].proc = g.info[q].proc
  <2>1. CASE q \in G
    <3>1. q # p + n - 1
      BY <1>1, <1>4, <2>1
    <3>2. q + 1 \in G /\ n # 1
      BY <2>1, <3>1
    <3> QED
      BY <1>1, <1>2, <2>1, <3>2
  <2>2. CASE q \notin G
    <3>1. h.info[q].cont
      BY <1>1, <1>4, <2>2
    <3>2. /\ q \in h.map /\ h.info[q].fs = 0
          /\ q + 1 \in h.map \ Fixed /\ h.info[q + 1].fs = 0 /\ h.info[q + 1].proc = h.info[q].proc
      BY <3>1 DEF TableOK
    <3>3. q + 1 \in Pages \ G
      BY <1>2, <3>2
    <3> QED
      BY <1>1, <2>2, <3>2, <3>3
  <2> QED
    BY <2>1, <2>2
<1> QED
  BY <1>3, <1>4 DEF TableOK

\* Blocks are in P as wholes.
Whole(h, P) == P \cap Fixed = {} /\ \A q \in Pages \ Fixed : h.info[q].cont => (q \in P <=> q + 1 \in P)

LEMMA FreeTable ==
  ASSUME NEW h \in HeapRec, TableOK(h), NEW P \in SUBSET Pages, Whole(h, P), NEW g, g = PagesFree(h, P)
  PROVE  TableOK(g)
<1>1. /\ g \in HeapRec /\ g.map = h.map \ P /\ \A q \in P : g.info[q] = FreeInfo
      /\ \A q \in Pages \ P : g.info[q] = h.info[q]
  BY FreeIs
<1>2. Fixed \subseteq Pages /\ Fixed \cap P = {} /\ h.map \subseteq Pages /\ ~FreeInfo.cont
  BY PagesAre DEF Whole, HeapRec, FreeInfo
<1>3. \A q \in Fixed : q \in g.map /\ g.info[q].cont /\ g.info[q].fs # 0 /\ g.info[q].proc = 0
  BY <1>1, <1>2 DEF TableOK
<1>4. ASSUME NEW q \in Pages \ Fixed, g.info[q].cont
      PROVE  /\ q \in g.map /\ g.info[q].fs = 0
             /\ q + 1 \in g.map \ Fixed /\ g.info[q + 1].fs = 0 /\ g.info[q + 1].proc = g.info[q].proc
  <2>1. q \notin P /\ h.info[q].cont
    BY <1>1, <1>2, <1>4
  <2>2. /\ q \in h.map /\ h.info[q].fs = 0
        /\ q + 1 \in h.map \ Fixed /\ h.info[q + 1].fs = 0 /\ h.info[q + 1].proc = h.info[q].proc
    BY <2>1 DEF TableOK
  <2>3. q + 1 \in Pages \ P
    BY <1>2, <2>1, <2>2 DEF Whole
  <2> QED
    BY <1>1, <2>1, <2>2, <2>3
<1> QED
  BY <1>3, <1>4 DEF TableOK

-----------------------------------------------------------------------------
(* Blocks and the page table.                                                *)

LEMMA BlockFields ==
  ASSUME NEW b \in Blocks
  PROVE  /\ b.page \in Pages /\ b.idx \in Nat /\ b.fs \in 0..FragSizes /\ b.n \in Nat \ {0}
         /\ b.page \in Extent(b) /\ Extent(b) = b.page..(b.page + b.n - 1)
         /\ \A c \in Blocks : b.page = c.page /\ b.idx = c.idx /\ b.fs = c.fs /\ b.n = c.n => b = c
<1>1. b.page \in Pages /\ b.idx \in Nat /\ b.fs \in 0..FragSizes /\ b.n \in Nat \ {0}
  BY DEF Blocks
<1>2. b.page \in Extent(b)
  BY <1>1, PagesAre DEF Extent
<1>3. \A c \in Blocks : b.page = c.page /\ b.idx = c.idx /\ b.fs = c.fs /\ b.n = c.n => b = c
  BY DEF Blocks
<1> QED
  BY <1>1, <1>2, <1>3 DEF Extent

LEMMA FragFields ==
  ASSUME NEW h \in HeapRec, NEW b \in Blocks, Held(h, b), b.fs # 0
  PROVE  /\ FragHeld(h, b) /\ Extent(b) = {b.page} /\ b.fs \in FragLogs /\ b = Block(b.page, b.idx, Frag(b.fs))
<1>1. FragHeld(h, b)
  BY DEF Held
<1>2. Extent(b) = {b.page}
  BY <1>1, BlockFields, PagesAre DEF FragHeld
<1>3. b.fs \in FragLogs
  BY BlockFields DEF FragLogs
<1>4. b = Block(b.page, b.idx, Frag(b.fs))
  BY <1>1 DEF FragHeld, Blocks, Block, Frag
<1> QED
  BY <1>1, <1>2, <1>3, <1>4

\* Pages of a block are used.
LEMMA HeldUsed ==
  ASSUME NEW h \in HeapRec, NEW b \in Blocks, Held(h, b)
  PROVE  Extent(b) \subseteq h.map /\ \A q \in Extent(b) : h.info[q].fs = b.fs
<1>1. CASE b.fs = 0
  BY <1>1 DEF Held, PagesHeld
<1>2. CASE b.fs # 0
  BY <1>2, FragFields DEF FragHeld
<1> QED
  BY <1>1, <1>2

\* Blocks are apart, but for the fragments of a page.
LEMMA HeldApart ==
  ASSUME NEW h \in HeapRec, TableOK(h), NEW a \in Blocks, NEW b \in Blocks, Held(h, a), Held(h, b), a # b
  PROVE  /\ a.fs = 0 \/ b.fs = 0 => Extent(a) \cap Extent(b) = {}
         /\ ~Overlap(a, b)
<1>1. ASSUME a.fs # b.fs PROVE Extent(a) \cap Extent(b) = {}
  BY <1>1, HeldUsed
<1>2. ASSUME NEW c \in Blocks, NEW d \in Blocks, Held(h, c), Held(h, d), c.fs = 0, d.fs = 0,
             d.page \in Extent(c)
      PROVE  c = d
  <2>1. PagesHeld(h, c) /\ PagesHeld(h, d)
    BY <1>2 DEF Held
  <2>2. c.page \in Nat /\ d.page \in Nat /\ c.n \in Nat \ {0} /\ d.n \in Nat \ {0}
    BY BlockFields, PagesAre
  <2>3. d.page = c.page
    <3> SUFFICES ASSUME d.page # c.page PROVE FALSE
      OBVIOUS
    <3>1. d.page - 1 \in Extent(c) /\ d.page - 1 # c.page + c.n - 1
      BY <1>2, <2>2 DEF Extent
    <3>2. h.info[d.page - 1].cont /\ d.page - 1 \notin Fixed
      BY <2>1, <3>1 DEF PagesHeld
    <3> QED
      BY <2>1, <3>2 DEF PagesHeld
  <2>4. d.n = c.n
    <3>1. ASSUME c.n < d.n PROVE FALSE
      <4> DEFINE q == c.page + c.n - 1
      <4>1. q \in Extent(c) /\ q \in Extent(d) /\ q # d.page + d.n - 1
        BY <2>2, <2>3, <3>1 DEF Extent
      <4> QED
        BY <2>1, <4>1 DEF PagesHeld
    <3>2. ASSUME d.n < c.n PROVE FALSE
      <4> DEFINE q == d.page + d.n - 1
      <4>1. q \in Extent(d) /\ q \in Extent(c) /\ q # c.page + c.n - 1
        BY <2>2, <2>3, <3>2 DEF Extent
      <4> QED
        BY <2>1, <4>1 DEF PagesHeld
    <3> QED
      BY <2>2, <3>1, <3>2
  <2> QED
    BY <1>2, <2>1, <2>3, <2>4, BlockFields DEF PagesHeld
<1>3. ASSUME a.fs = 0, b.fs = 0, NEW q \in Extent(a) \cap Extent(b) PROVE FALSE
  <2>1. b.page \in Extent(a) \/ a.page \in Extent(b)
    <3>1. a.page \in Nat /\ b.page \in Nat /\ a.n \in Nat \ {0} /\ b.n \in Nat \ {0}
      BY BlockFields, PagesAre
    <3> QED
      BY <1>3, <3>1 DEF Extent
  <2> QED
    BY <1>2, <1>3, <2>1
<1>4. a.fs = 0 \/ b.fs = 0 => Extent(a) \cap Extent(b) = {}
  BY <1>1, <1>3
<1>5. ASSUME a.fs # 0, a.fs = b.fs, a.idx = b.idx PROVE Extent(a) \cap Extent(b) = {}
  <2>1. Extent(a) = {a.page} /\ Extent(b) = {b.page} /\ a.n = 1 /\ b.n = 1
    BY <1>5, FragFields DEF FragHeld
  <2>2. a.page # b.page
    BY <1>5, <2>1, BlockFields
  <2> QED
    BY <2>1, <2>2
<1> QED
  BY <1>1, <1>4, <1>5 DEF Overlap

\* What free() of a block of pages frees.
LEMMA ChainIs ==
  ASSUME NEW h \in HeapRec, TableOK(h), NEW b \in Blocks, Held(h, b), b.fs = 0 \/ b.page \notin Fixed
  PROVE  /\ Chain(h, b.page) = Extent(b)
         /\ Locked(h, b.page - 1) \/ ~h.info[b.page - 1].cont
         /\ Whole(h, Extent(b)) /\ Extent(b) \subseteq Pages
<1>0. /\ b.page \in Nat /\ b.n \in Nat \ {0} /\ b.page \in Extent(b) /\ Extent(b) = b.page..(b.page + b.n - 1)
      /\ h.map \subseteq Pages
  BY BlockFields, PagesAre DEF HeapRec
<1>1. /\ Extent(b) \subseteq h.map \ Fixed
      /\ \A q \in Extent(b) : h.info[q].cont = (q # b.page + b.n - 1)
      /\ b.page - 1 \in Fixed \/ ~h.info[b.page - 1].cont
  <2>1. CASE b.fs = 0
    BY <2>1 DEF Held, PagesHeld
  <2>2. CASE b.fs # 0
    <3>1. /\ b.page \in h.map \ Fixed /\ b.n = 1 /\ h.info[b.page].fs # 0
          /\ Extent(b) = {b.page}
      BY <2>2, FragFields DEF FragHeld
    <3>2. b.page \in Pages /\ b.page - 1 \in Pages /\ b.page - 1 + 1 = b.page /\ b.page + b.n - 1 = b.page
      BY <1>0, <3>1, PagesAre
    <3>3. h.info[b.page].cont = FALSE
      <4>1. h.info[b.page].cont \in BOOLEAN
        BY <3>2 DEF HeapRec, InfoRec
      <4> QED
        BY <3>1, <3>2, <4>1 DEF TableOK
    <3>4. b.page - 1 \in Fixed \/ ~h.info[b.page - 1].cont
      BY <3>1, <3>2 DEF TableOK
    <3>5. \A q \in Extent(b) : h.info[q].cont = (q # b.page + b.n - 1)
      BY <3>1, <3>2, <3>3
    <3> QED
      BY <3>1, <3>4, <3>5
  <2> QED
    BY <2>1, <2>2
<1>2. ASSUME NEW q \in Extent(b) PROVE q \in Chain(h, b.page)
  <2>1. q \in 0..(NumPages - 1) /\ q \in b.page..(NumPages - 1)
    BY <1>0, <1>1, <1>2, PagesAre
  <2>2. \A r \in b.page..(q - 1) : r \in Extent(b) /\ r # b.page + b.n - 1
    BY <1>0, <1>2
  <2> QED
    BY <1>1, <2>1, <2>2 DEF Chain
<1>3. ASSUME NEW q \in Chain(h, b.page) PROVE q \in Extent(b)
  <2> SUFFICES ASSUME q \notin Extent(b) PROVE FALSE
    OBVIOUS
  <2> DEFINE l == b.page + b.n - 1
  <2>1. q \in Nat /\ q >= b.page /\ \A r \in b.page..(q - 1) : h.info[r].cont
    BY <1>0, ConstFacts DEF Chain
  <2>2. l \in b.page..(q - 1) /\ l \in Extent(b)
    BY <1>0, <2>1
  <2> QED
    BY <1>1, <2>1, <2>2
<1>4. Locked(h, b.page - 1) \/ ~h.info[b.page - 1].cont
  BY <1>1 DEF TableOK, Locked
<1>5. ASSUME NEW q \in Pages \ Fixed, h.info[q].cont
      PROVE  q \in Extent(b) <=> q + 1 \in Extent(b)
  <2>1. ASSUME q \in Extent(b) PROVE q + 1 \in Extent(b)
    <3>1. q # b.page + b.n - 1
      BY <1>1, <1>5, <2>1
    <3> QED
      BY <1>0, <2>1, <3>1
  <2>2. ASSUME q + 1 \in Extent(b), q \notin Extent(b) PROVE FALSE
    <3>1. q \in Nat /\ q = b.page - 1
      BY <1>0, <2>2, PagesAre
    <3> QED
      BY <1>1, <1>5, <3>1
  <2> QED
    BY <2>1, <2>2
<1> QED
  BY <1>0, <1>1, <1>2, <1>3, <1>4, <1>5 DEF Whole

\* Marks on other pages do not matter.
LEMMA HeldStays ==
  ASSUME NEW h \in HeapRec, NEW g \in HeapRec, NEW Q \in SUBSET Pages, Besides(h, g, Q),
         NEW b \in Blocks, Held(h, b), Extent(b) \cap Q = {}
  PROVE  Held(g, b) /\ \A mk, o : Marked(h, mk, o, b) => Marked(g, mk, o, b)
<1>1. Extent(b) \subseteq h.map /\ h.map \subseteq Pages /\ b.page \in Extent(b)
  BY HeldUsed, BlockFields DEF HeapRec
<1>2. \A q \in Extent(b) : q \in g.map /\ g.info[q] = h.info[q]
  BY <1>1 DEF Besides
<1>3. CASE b.fs = 0
  <2>1. PagesHeld(h, b)
    BY <1>3 DEF Held
  <2>2. b.page - 1 \in Fixed \/ ~g.info[b.page - 1].cont
    <3>1. CASE b.page - 1 \in Fixed
      BY <3>1
    <3>2. CASE b.page - 1 \in Q
      <4>1. b.page - 1 + 1 = b.page
        BY <1>1, PagesAre
      <4> QED
        BY <1>1, <3>2, <4>1 DEF Besides
    <3>3. CASE b.page - 1 \notin Fixed /\ b.page - 1 \notin Q
      <4>1. b.page \in Pages \ Fixed
        BY <1>1, <2>1 DEF PagesHeld
      <4> QED
        BY <2>1, <3>3, <4>1, PagesAre DEF Besides, PagesHeld
    <3> QED
      BY <3>1, <3>2, <3>3
  <2>3. PagesHeld(g, b)
    BY <1>2, <2>1, <2>2 DEF PagesHeld
  <2> QED
    BY <1>2, <1>3, <2>3 DEF Held, Marked
<1>4. CASE b.fs # 0
  BY <1>1, <1>2, <1>4 DEF Held, FragHeld, Marked
<1> QED
  BY <1>3, <1>4

-----------------------------------------------------------------------------
(* Blocks change places.                                                     *)

LEMMA PlacedIs ==
  ASSUME NEW h, NEW mk, NEW X, HeapOK(h, mk, X), NEW o \in Owners, NEW s \in Place, NEW b \in Blocks, In(h, o, s, b)
  PROVE  /\ h \in HeapRec /\ Held(h, b) /\ Marked(h, mk, o, b) /\ b \notin X
         /\ \A u \in Owners : \A t \in Place : In(h, u, t, b) => u = o /\ t = s
<1>1. PiecesOK(h, mk) /\ Spare(h, X) /\ h \in HeapRec
  BY DEF HeapOK
<1>2. Held(h, b) /\ Marked(h, mk, o, b) /\ b \notin X
  BY <1>1 DEF PiecesOK, Spare
<1>3. \A u \in Owners : \A t \in Place : In(h, u, t, b) => u = o /\ t = s
  BY <1>1 DEF PiecesOK
<1> QED
  BY <1>1, <1>2, <1>3

\* Spare blocks go to one place, others become spare or are forgotten.
SamePages(h, g) == g \in HeapRec /\ g.map = h.map /\ g.info = h.info /\ g.free = h.free

Moves(h, mk, X, g, u, t, Y) ==
  /\ \A o \in Owners : \A s \in Place : \A b \in Blocks : In(g, o, s, b) =>
       /\ b \notin Y
       /\ In(h, o, s, b) \/ (b \in X /\ Marked(h, mk, o, b) /\ o = u /\ s = t)
  /\ \A b \in Y : b \in Blocks /\ (b \in X \/ \E o \in Owners : \E s \in Place : In(h, o, s, b))

LEMMA Move ==
  ASSUME NEW h, NEW mk, NEW X, HeapOK(h, mk, X), NEW g, SamePages(h, g),
         IsFiniteSet(g.live[KERNEL]), OneIdle(g),
         NEW u, NEW t, NEW Y, Moves(h, mk, X, g, u, t, Y)
  PROVE  HeapOK(g, mk, Y)
<1> USE DEF SamePages, Moves
<1>0. h \in HeapRec /\ TableOK(h) /\ PiecesOK(h, mk) /\ Spare(h, X) /\ h.free = Cardinality(Pages \ h.map)
  BY DEF HeapOK
<1>1. TableOK(g)
  BY <1>0 DEF TableOK
<1>2. \A b \in Blocks : Held(h, b) => Held(g, b)
  BY DEF Held, PagesHeld, FragHeld
<1>3. \A b \in Blocks : \A o \in Owners : Marked(h, mk, o, b) => Marked(g, mk, o, b)
  BY DEF Marked
<1>4. ASSUME NEW o \in Owners, NEW s \in Place, NEW b \in Blocks, In(g, o, s, b)
      PROVE  Held(h, b) /\ Marked(h, mk, o, b)
  <2>1. CASE In(h, o, s, b)
    BY <2>1, PlacedIs
  <2>2. CASE b \in X /\ Marked(h, mk, o, b)
    BY <1>0, <2>2 DEF Spare
  <2> QED
    BY <1>4, <2>1, <2>2
<1>5. ASSUME NEW o \in Owners, NEW p \in Owners, NEW s \in Place, NEW r \in Place, NEW b \in Blocks,
             In(g, o, s, b), In(g, p, r, b)
      PROVE  o = p /\ s = r
  <2>1. CASE In(h, o, s, b)
    <3>1. b \notin X
      BY <2>1, PlacedIs
    <3>2. In(h, p, r, b)
      BY <1>5, <3>1
    <3> QED
      BY <2>1, <3>2, PlacedIs
  <2>2. CASE b \in X
    <3>1. ~In(h, o, s, b) /\ ~In(h, p, r, b)
      BY <1>0, <2>2 DEF Spare
    <3> QED
      BY <1>5, <3>1
  <2> QED
    BY <1>5, <2>1, <2>2
<1>6. PiecesOK(g, mk)
  BY <1>2, <1>3, <1>4, <1>5 DEF PiecesOK
<1>7. ASSUME NEW b \in Y PROVE b \in Blocks /\ Held(g, b) /\ \A o \in Owners : \A s \in Place : ~In(g, o, s, b)
  <2>1. Held(h, b)
    <3>1. CASE b \in X
      BY <1>0, <3>1 DEF Spare
    <3>2. CASE \E o \in Owners : \E s \in Place : In(h, o, s, b)
      BY <3>2, PlacedIs
    <3> QED
      BY <3>1, <3>2
  <2> QED
    BY <1>2, <2>1
<1>8. Spare(g, Y)
  BY <1>7 DEF Spare
<1> QED
  BY <1>0, <1>1, <1>6, <1>8 DEF HeapOK

LEMMA Forget ==
  ASSUME NEW h, NEW mk, NEW X, HeapOK(h, mk, X), NEW Y \in SUBSET X
  PROVE  HeapOK(h, mk, Y)
  BY DEF HeapOK, Spare

Room(h, p, n, fs) ==
  p \in Nat /\ n \in Nat \ {0} /\ p..(p + n - 1) \subseteq Pages \ h.map /\ (fs = 0 \/ n = 1)

BlocksOf(p, n, fs, Y) == \A b \in Y :
  /\ b \in Blocks /\ b.page = p /\ b.n = n /\ b.fs = fs
  /\ IF fs = 0 THEN b.idx = 0 ELSE b.idx \in 0..(2 ^ fs - 1)

Taken(h, p, n, g) ==
  g \in HeapRec /\ g.frags = h.frags /\ g.live = h.live /\ g.map = h.map \cup p..(p + n - 1)

\* Free pages are taken for the blocks of Y.
LEMMA Take ==
  ASSUME NEW h, NEW mk, NEW X, HeapOK(h, mk, X), NEW p, NEW n, NEW fs \in 0..FragSizes, NEW i \in Nat,
         Room(h, p, n, fs), NEW g, g = PagesRef(h, p, n, fs, i), NEW Y, BlocksOf(p, n, fs, Y)
  PROVE  /\ HeapOK(g, mk, X \cup Y) /\ Taken(h, p, n, g)
         /\ \A b \in Y : \A o \in Owners : i % OwnerIds \in mk[o] => Marked(g, mk, o, b)
<1> USE DEF Room, BlocksOf
<1> DEFINE G == p..(p + n - 1)
<1>0. h \in HeapRec /\ TableOK(h) /\ PiecesOK(h, mk) /\ Spare(h, X) /\ h.free = Cardinality(Pages \ h.map)
      /\ IsFiniteSet(h.live[KERNEL]) /\ OneIdle(h)
  BY DEF HeapOK
<1>1. /\ g \in HeapRec /\ g.frags = h.frags /\ g.live = h.live /\ g.free = h.free - n
      /\ g.map = h.map \cup G
      /\ \A q \in G : /\ g.info[q].fs = fs /\ g.info[q].cont = (q # p + n - 1)
                      /\ g.info[q].proc = i % OwnerIds
      /\ \A q \in Pages \ G : g.info[q] = h.info[q]
      /\ Besides(h, g, G)
  <2>1. p..(p + n - 1) \subseteq Pages
    OBVIOUS
  <2>2. Besides(h, g, G)
    BY <1>0, <2>1, RefIs
  <2>3. /\ g \in HeapRec /\ g.frags = h.frags /\ g.live = h.live /\ g.free = h.free - n
        /\ g.map = h.map \cup G
    BY <1>0, <2>1, RefIs
  <2>a. Tagged(p, n, fs, i, g)
    BY <1>0, <2>1, RefIs
  <2>4. \A q \in G : /\ g.info[q].fs = fs /\ g.info[q].cont = (q # p + n - 1)
                     /\ g.info[q].proc = i % OwnerIds
    BY <2>a DEF Tagged
  <2>5. \A q \in Pages \ G : g.info[q] = h.info[q]
    BY <2>2 DEF Besides
  <2> HIDE DEF G
  <2> QED
    BY <2>2, <2>3, <2>4, <2>5
<1>2. TableOK(g)
  BY <1>0, RefTable
<1>3. g.free = Cardinality(Pages \ g.map)
  <2>1. h.free - n = Cardinality(Pages \ (h.map \cup G))
    BY <1>0, RefCounts
  <2> HIDE DEF G
  <2> QED
    BY <1>1, <2>1
<1>4. \A o, s, b : In(g, o, s, b) <=> In(h, o, s, b)
  BY <1>1 DEF In
<1>5. ASSUME NEW b \in Blocks, Held(h, b)
      PROVE  Extent(b) \cap G = {} /\ Held(g, b) /\ \A o : Marked(h, mk, o, b) => Marked(g, mk, o, b)
  <2>1. Extent(b) \cap G = {} /\ G \in SUBSET Pages
    BY <1>0, <1>5, HeldUsed
  <2> HIDE DEF G
  <2> QED
    BY <1>0, <1>1, <1>5, <2>1, HeldStays
<1>6. PiecesOK(g, mk)
  BY <1>0, <1>4, <1>5 DEF PiecesOK
<1>7. ASSUME NEW b \in Y PROVE Extent(b) = G /\ G # {} /\ Held(g, b)
  <2>1. Extent(b) = G /\ p \in G
    BY <1>7 DEF Extent
  <2>2. CASE fs = 0
    <3>1. p \in Pages /\ G \subseteq g.map \ Fixed
      BY <1>0, <1>1, <2>1 DEF TableOK
    <3>2. p - 1 \in Fixed \/ ~g.info[p - 1].cont
      <4> SUFFICES ASSUME p - 1 \notin Fixed
                   PROVE  ~g.info[p - 1].cont
        OBVIOUS
      <4>1. p - 1 \in Pages /\ p - 1 \notin G /\ p - 1 + 1 = p
        BY <2>1, <3>1, PagesAre
      <4>2. ~h.info[p - 1].cont
        BY <1>0, <2>1, <4>1 DEF TableOK
      <4> QED
        BY <1>1, <4>1, <4>2
    <3>3. PagesHeld(g, b)
      BY <1>1, <1>7, <2>1, <2>2, <3>1, <3>2 DEF PagesHeld
    <3> QED
      BY <1>7, <2>1, <2>2, <3>3 DEF Held
  <2>3. CASE fs # 0
    <3>1. p \notin Fixed /\ p \in g.map /\ g.info[p].fs = fs /\ n = 1
      BY <1>0, <1>1, <2>1, <2>3 DEF TableOK
    <3>2. FragHeld(g, b)
      BY <1>7, <2>3, <3>1 DEF FragHeld
    <3> QED
      BY <1>7, <2>1, <2>3, <3>2 DEF Held
  <2> QED
    BY <2>1, <2>2, <2>3
<1>8. Spare(g, X \cup Y)
  <2>1. ASSUME NEW b \in Y, NEW o \in Owners, NEW s \in Place, In(h, o, s, b) PROVE FALSE
    <3>1. b \in Blocks /\ Held(h, b)
      BY <2>1, PlacedIs
    <3> QED
      BY <1>5, <1>7, <2>1, <3>1
  <2> QED
    BY <1>0, <1>4, <1>5, <1>7, <2>1 DEF Spare
<1>9. HeapOK(g, mk, X \cup Y)
  BY <1>0, <1>1, <1>2, <1>3, <1>6, <1>8 DEF HeapOK, OneIdle
<1>10. \A b \in Y : \A o \in Owners : i % OwnerIds \in mk[o] => Marked(g, mk, o, b)
  BY <1>1, <1>7 DEF Marked
<1> QED
  BY <1>1, <1>9, <1>10 DEF Taken

\* Pages are freed that no block needs any more.
LEMMA Give ==
  ASSUME NEW h, NEW mk, NEW X, HeapOK(h, mk, X), NEW P \in SUBSET h.map, Whole(h, P), NEW Y \in SUBSET X,
         \A o \in Owners : \A s \in Place : \A b \in Blocks : In(h, o, s, b) => Extent(b) \cap P = {},
         \A b \in Y : Extent(b) \cap P = {},
         NEW g, g = PagesFree(h, P)
  PROVE  /\ HeapOK(g, mk, Y)
         /\ \A b \in Y : \A o : Marked(h, mk, o, b) => Marked(g, mk, o, b)
<1>0. h \in HeapRec /\ TableOK(h) /\ PiecesOK(h, mk) /\ Spare(h, X) /\ h.free = Cardinality(Pages \ h.map)
      /\ IsFiniteSet(h.live[KERNEL]) /\ OneIdle(h)
  BY DEF HeapOK
<1>1. P \in SUBSET Pages
  BY <1>0 DEF HeapRec
<1>2. /\ g \in HeapRec /\ g.frags = h.frags /\ g.live = h.live /\ g.free = h.free + Cardinality(P)
      /\ g.map = h.map \ P /\ Besides(h, g, P)
  BY <1>0, <1>1, FreeIs
<1>3. TableOK(g)
  BY <1>0, <1>1, FreeTable
<1>4. g.free = Cardinality(Pages \ g.map)
  BY <1>0, <1>2, FreeCounts
<1>5. \A o, s, b : In(g, o, s, b) <=> In(h, o, s, b)
  BY <1>2 DEF In
<1>6. ASSUME NEW b \in Blocks, Held(h, b), Extent(b) \cap P = {}
      PROVE  Held(g, b) /\ \A o : Marked(h, mk, o, b) => Marked(g, mk, o, b)
  BY <1>0, <1>1, <1>2, <1>6, HeldStays
<1>7. PiecesOK(g, mk)
  BY <1>0, <1>5, <1>6 DEF PiecesOK
<1>8. Spare(g, Y)
  BY <1>0, <1>5, <1>6 DEF Spare
<1>9. HeapOK(g, mk, Y)
  BY <1>0, <1>2, <1>3, <1>4, <1>7, <1>8 DEF HeapOK, OneIdle
<1>10. \A b \in Y : \A o : Marked(h, mk, o, b) => Marked(g, mk, o, b)
  BY <1>0, <1>6 DEF Spare
<1> QED
  BY <1>9, <1>10

-----------------------------------------------------------------------------
(* Folds.                                                                    *)

\* F takes one element of S after the other, the ones that ch picks last first.
Folding(S, V, v, ch, F) ==
  /\ IsFiniteSet(S) /\ v \in V
  /\ \A s \in SUBSET S : s # {} => ch[s] \in s
  /\ F \in [S -> [V -> V]]

IsFold(f, S, V, v, ch, F) ==
  /\ f \in [SUBSET S -> V]
  /\ \A s \in SUBSET S : f[s] = IF s = {} THEN v ELSE F[ch[s]][f[s \ {ch[s]}]]

LEMMA FoldExists ==
  ASSUME NEW S, NEW V, NEW v, NEW ch, NEW F, Folding(S, V, v, ch, F)
  PROVE  \E f : IsFold(f, S, V, v, ch, F)
<1> DEFINE D == SUBSET S
           size == [s \in D |-> Cardinality(s)]
           end == {{}}
           base == [s \in end |-> v]
           prev == [s \in D |-> s \ {ch[s]}]
           G == [s \in D |-> IF s = {} THEN [w \in V |-> v] ELSE F[ch[s]]]
           n == Cardinality(S)
<1>0. IsFiniteSet(S) /\ v \in V /\ (\A s \in D : s # {} => ch[s] \in s) /\ F \in [S -> [V -> V]]
  BY DEF Folding
<1>1. n \in Nat
  BY <1>0, FS_CardinalityType
<1>2. ASSUME NEW s \in D PROVE IsFiniteSet(s) /\ Cardinality(s) \in 0 .. n
  <2>1. IsFiniteSet(s) /\ Cardinality(s) <= Cardinality(S)
    BY <1>0, FS_Subset
  <2>2. Cardinality(s) \in Nat
    BY <2>1, FS_CardinalityType
  <2> QED
    BY <1>1, <2>1, <2>2
<1>3. size \in [D -> 0 .. n]
  <2> HIDE DEF n
  <2> QED
    BY <1>2
<1>4. prev \in [D -> D] /\ end \subseteq D /\ base \in [end -> V] /\ V # {}
  BY <1>0
<1>5. \A s \in D \ end : size[prev[s]] < size[s]
  <2> SUFFICES ASSUME NEW s \in D, s # {}
               PROVE  size[prev[s]] < size[s]
    OBVIOUS
  <2>1. ch[s] \in s /\ s \ {ch[s]} \in D
    BY <1>0
  <2>2. Cardinality(s \ {ch[s]}) = Cardinality(s) - 1
    BY <1>2, <2>1, FS_RemoveElement
  <2>3. Cardinality(s) \in Nat
    BY <1>2
  <2>4. size[prev[s]] = Cardinality(s \ {ch[s]}) /\ size[s] = Cardinality(s)
    BY <2>1
  <2> QED
    BY <2>2, <2>3, <2>4
<1>6. G \in [D -> [V -> V]]
  <2>1. ASSUME NEW s \in D, s # {} PROVE F[ch[s]] \in [V -> V]
    <3>1. ch[s] \in S
      BY <1>0, <2>1
    <3> QED
      BY <1>0, <3>1
  <2> QED
    BY <1>0, <2>1
<1> HIDE DEF size, base, prev, G, n
<1>7. Recursion(D, V, n, size, end, base, prev, G)
  BY <1>1, <1>3, <1>4, <1>5, <1>6 DEF Recursion
<1> HIDE DEF D, end
<1>8. PICK f \in [D -> V] : f = [s \in D |-> IF s \in end THEN base[s] ELSE G[s][f[prev[s]]]]
  BY <1>7, RecursionExists
<1>9. ASSUME NEW s \in D PROVE f[s] = IF s = {} THEN v ELSE F[ch[s]][f[s \ {ch[s]}]]
  <2>1. f[s] = IF s \in end THEN base[s] ELSE G[s][f[prev[s]]]
    BY <1>8
  <2> QED
    BY <2>1 DEF end, base, prev, G
<1>10. IsFold(f, S, V, v, ch, F)
  BY <1>8, <1>9 DEF D, IsFold
<1> QED
  BY <1>10

LEMMA FoldInduction ==
  ASSUME NEW S, IsFiniteSet(S), NEW ch, \A s \in SUBSET S : s # {} => ch[s] \in s,
         NEW W, {} \in W, \A s \in SUBSET S : s # {} /\ s \ {ch[s]} \in W => s \in W
  PROVE  \A s \in SUBSET S : s \in W
<1> SUFFICES ASSUME NEW x \in SUBSET S, x \notin W
             PROVE  FALSE
  OBVIOUS
<1>1. ASSUME NEW s \in SUBSET S PROVE IsFiniteSet(s) /\ Cardinality(s) \in Nat
  <2>1. IsFiniteSet(s)
    BY FS_Subset
  <2> QED
    BY <2>1, FS_CardinalityType
<1> DEFINE T == {Cardinality(s) : s \in (SUBSET S) \ W}
<1>2. T \in SUBSET Nat /\ T # {}
  BY <1>1
<1>3. PICK m \in T : \A k \in T : m <= k
  BY <1>2, NatLeast
<1>4. PICK s \in SUBSET S : s \notin W /\ m = Cardinality(s)
  BY <1>3
<1>5. s # {} /\ ch[s] \in s /\ s \ {ch[s]} \in SUBSET S
  BY <1>4
<1>6. Cardinality(s \ {ch[s]}) = Cardinality(s) - 1 /\ Cardinality(s) \in Nat
  BY <1>1, <1>5, FS_RemoveElement
<1>7. s \ {ch[s]} \in W
  <2> SUFFICES ASSUME s \ {ch[s]} \notin W PROVE FALSE
    OBVIOUS
  <2>1. Cardinality(s \ {ch[s]}) \in T
    BY <1>5
  <2>2. m <= Cardinality(s \ {ch[s]})
    BY <1>3, <2>1
  <2> QED
    BY <1>4, <1>6, <2>2
<1> QED
  BY <1>4, <1>5, <1>7

\* The element that FoldSet takes last.
Picks(S) == [s \in SUBSET S |-> CHOOSE x \in s : TRUE]

LEMMA PicksIs ==
  ASSUME NEW S
  PROVE  \A s \in SUBSET S : Picks(S)[s] = (CHOOSE x \in s : TRUE) /\ (s # {} => Picks(S)[s] \in s)
<1> SUFFICES ASSUME NEW s \in SUBSET S
             PROVE  Picks(S)[s] = (CHOOSE x \in s : TRUE) /\ (s # {} => Picks(S)[s] \in s)
  OBVIOUS
<1>1. Picks(S)[s] = (CHOOSE x \in s : TRUE)
  BY Zenon DEF Picks
<1>2. s # {} => (CHOOSE x \in s : TRUE) \in s
  <2>1. \A x \in s : (CHOOSE y \in s : TRUE) \in s
    BY Zenon
  <2> QED
    BY <2>1
<1> QED
  BY <1>1, <1>2, Zenon

LEMMA UnrefIn ==
  ASSUME NEW h \in HeapRec, NEW p \in Nat
  PROVE  PagesUnref(h, p) \in HeapRec
<1>1. Chain(h, p) \in SUBSET Pages
  BY PagesAre, ConstFacts DEF Chain
<1>2. PagesFree(h, Chain(h, p)) \in HeapRec
  BY <1>1, FreeIs
<1> QED
  BY <1>2 DEF PagesUnref

LEMMA FoldUnref ==
  ASSUME NEW h \in HeapRec, NEW S \in SUBSET Pages
  PROVE  \E f : /\ FoldSet(LAMBDA p, g : PagesUnref(g, p), h, S) = f[S]
                /\ \A s \in SUBSET S : f[s] = IF s = {} THEN h ELSE PagesUnref(f[s \ {Picks(S)[s]}], Picks(S)[s])
<1> DEFINE Is(f) == f = [s \in SUBSET S |-> IF s = {} THEN h ELSE PagesUnref(f[s \ {CHOOSE x \in s : TRUE}], CHOOSE x \in s : TRUE)]
           it == CHOOSE f : Is(f)
<1>0. PICK ch : ch = Picks(S)
  OBVIOUS
<1>1. FoldSet(LAMBDA p, g : PagesUnref(g, p), h, S) = it[S]
  BY DEF FoldSet, MapThenFoldSet
<1>2. \E f : Is(f)
  <2>0. PICK F : F = [p \in S |-> [g \in HeapRec |-> PagesUnref(g, p)]]
    OBVIOUS
  <2>1. F \in [S -> [HeapRec -> HeapRec]]
    BY <2>0, UnrefIn, PagesAre
  <2>2. Folding(S, HeapRec, h, ch, F)
      BY <1>0, <2>1, PagesFinite, PicksIs DEF Folding
  <2>a. PICK f : IsFold(f, S, HeapRec, h, ch, F)
    BY <2>2, FoldExists
  <2>3. f \in [SUBSET S -> HeapRec] /\ \A s \in SUBSET S : f[s] = IF s = {} THEN h ELSE F[ch[s]][f[s \ {ch[s]}]]
    BY <2>a DEF IsFold
  <2>4. ASSUME NEW s \in SUBSET S, s # {}
        PROVE  F[ch[s]][f[s \ {ch[s]}]] = PagesUnref(f[s \ {CHOOSE x \in s : TRUE}], CHOOSE x \in s : TRUE)
    <3>1. ch[s] \in S /\ ch[s] = (CHOOSE x \in s : TRUE) /\ s \ {ch[s]} \in SUBSET S
      BY <1>0, <2>4, PicksIs
    <3>2. f[s \ {ch[s]}] \in HeapRec
      BY <2>3, <3>1
    <3>3. F[ch[s]][f[s \ {ch[s]}]] = PagesUnref(f[s \ {ch[s]}], ch[s])
      BY <2>0, <3>1, <3>2
    <3> QED
      BY <3>1, <3>3
  <2>5. Is(f)
    BY <2>3, <2>4
  <2> QED
    BY <2>5, Zenon
<1>3. Is(it)
  <2> HIDE DEF Is
  <2> QED
    BY <1>2, Zenon
<1>4. ASSUME NEW s \in SUBSET S
      PROVE  it[s] = IF s = {} THEN h ELSE PagesUnref(it[s \ {ch[s]}], ch[s])
  <2>1. it[s] = IF s = {} THEN h ELSE PagesUnref(it[s \ {CHOOSE x \in s : TRUE}], CHOOSE x \in s : TRUE)
    BY <1>3
  <2>2. ch[s] = (CHOOSE x \in s : TRUE)
    BY <1>0, PicksIs
  <2> HIDE DEF it
  <2> QED
    BY <2>1, <2>2
<1> HIDE DEF it
<1> QED
  BY <1>0, <1>1, <1>4

\* The stack of o for size fs becomes T.
SetFrags(h, o, fs, T) == [h EXCEPT !.frags[o][fs] = T]

HasFrags(h, o, fs, T, g) ==
  /\ g \in HeapRec /\ g.map = h.map /\ g.info = h.info /\ g.free = h.free /\ g.live = h.live
  /\ g.frags[o][fs] = T
  /\ \A u \in Owners, gs \in FragLogs : u # o \/ gs # fs => g.frags[u][gs] = h.frags[u][gs]

LEMMA FragsIs ==
  ASSUME NEW h \in HeapRec, NEW o \in Owners, NEW fs \in FragLogs, NEW T \in SUBSET Fragments,
         NEW g, g = SetFrags(h, o, fs, T)
  PROVE  HasFrags(h, o, fs, T, g)
<1>1. h.frags \in [Owners -> [FragLogs -> SUBSET Fragments]]
  BY DEF HeapRec, StackSet
<1> DEFINE t == [h.frags EXCEPT ![o][fs] = T]
<1>2. t \in StackSet
  BY <1>1 DEF StackSet
<1>3. t[o][fs] = T /\ \A u \in Owners, gs \in FragLogs : u # o \/ gs # fs => t[u][gs] = h.frags[u][gs]
  BY <1>1
<1> HIDE DEF t
<1>4. g = [map |-> h.map, info |-> h.info, free |-> h.free, frags |-> t, live |-> h.live]
  BY DEF t, HeapRec, SetFrags
<1>5. g.map = h.map /\ g.info = h.info /\ g.free = h.free /\ g.live = h.live /\ g.frags = t
  BY <1>4
<1>6. g \in HeapRec
  BY <1>2, <1>4 DEF HeapRec
<1> QED
  BY <1>3, <1>5, <1>6 DEF HasFrags

\* The blocks that were handed out to o become T.
SetLive(h, o, T) == [h EXCEPT !.live[o] = T]

HasLive(h, o, T, g) ==
  /\ g \in HeapRec /\ g.map = h.map /\ g.info = h.info /\ g.free = h.free /\ g.frags = h.frags
  /\ g.live[o] = T /\ \A u \in Owners : u # o => g.live[u] = h.live[u]

LEMMA LiveIs ==
  ASSUME NEW h \in HeapRec, NEW o \in Owners, NEW T \in SUBSET Blocks,
         NEW g, g = SetLive(h, o, T)
  PROVE  HasLive(h, o, T, g)
<1>1. h.live \in [Owners -> SUBSET Blocks]
  BY DEF HeapRec
<1> DEFINE t == [h.live EXCEPT ![o] = T]
<1>2. t \in [Owners -> SUBSET Blocks] /\ t[o] = T /\ \A u \in Owners : u # o => t[u] = h.live[u]
  BY <1>1
<1> HIDE DEF t
<1>3. g = [map |-> h.map, info |-> h.info, free |-> h.free, frags |-> h.frags, live |-> t]
  BY DEF t, HeapRec, SetLive
<1> QED
  BY <1>2, <1>3 DEF HeapRec, HasLive

\* The pages that mem_frag_clean_stack frees, and the heap without their fragments.
Idle(h, o, fs)  == {p \in {f.page : f \in h.frags[o][fs]} : Frags(p, fs) \subseteq h.frags[o][fs]}
Strip(h, o, fs) == [h EXCEPT !.frags[o][fs] = {f \in @ : f.page \notin Idle(h, o, fs)}]

Stripped(h, o, fs, g) ==
  /\ Idle(h, o, fs) \in SUBSET Pages
  /\ g \in HeapRec /\ g.map = h.map /\ g.info = h.info /\ g.free = h.free /\ g.live = h.live
  /\ \A f :
       f \in g.frags[o][fs] <=> f \in h.frags[o][fs] /\ f.page \notin Idle(h, o, fs)
  /\ \A u \in Owners, gs \in FragLogs : u # o \/ gs # fs => g.frags[u][gs] = h.frags[u][gs]

LEMMA StripIs ==
  ASSUME NEW h \in HeapRec, NEW o \in Owners, NEW fs \in FragLogs, NEW g, g = Strip(h, o, fs)
  PROVE  Stripped(h, o, fs, g)
<1>1. h.frags[o][fs] \in SUBSET Fragments
  BY DEF HeapRec, StackSet
<1>2. Idle(h, o, fs) \in SUBSET Pages
  BY <1>1 DEF Idle, Fragments
<1> DEFINE T == {f \in h.frags[o][fs] : f.page \notin Idle(h, o, fs)}
<1>3. T \in SUBSET Fragments
  BY <1>1
<1>4. g = SetFrags(h, o, fs, T)
  BY DEF Strip, HeapRec, SetFrags
<1> HIDE DEF T
<1>6. /\ g \in HeapRec /\ g.map = h.map /\ g.info = h.info /\ g.free = h.free /\ g.live = h.live
      /\ g.frags[o][fs] = T
      /\ \A u \in Owners, gs \in FragLogs : u # o \/ gs # fs => g.frags[u][gs] = h.frags[u][gs]
  BY <1>3, <1>4, FragsIs DEF HasFrags
<1> QED
  BY <1>2, <1>6 DEF T, Stripped

LEMMA CleanFolds ==
  ASSUME NEW h, NEW o, NEW fs
  PROVE  CleanStack(h, o, fs) = FoldSet(LAMBDA p, x : PagesUnref(x, p), Strip(h, o, fs), Idle(h, o, fs))
  BY DEF CleanStack, Strip, Idle

LEMMA CleanIn ==
  ASSUME NEW h \in HeapRec, NEW o \in Owners, NEW fs \in FragLogs
  PROVE  CleanStack(h, o, fs) \in HeapRec
<1> DEFINE S == Idle(h, o, fs)
           g == Strip(h, o, fs)
<1>1. S \in SUBSET Pages /\ g \in HeapRec
  BY StripIs DEF Stripped
<1>b. CleanStack(h, o, fs) = FoldSet(LAMBDA p, x : PagesUnref(x, p), g, S)
  BY CleanFolds
<1> HIDE DEF S, g
<1>2. PICK f : /\ FoldSet(LAMBDA p, x : PagesUnref(x, p), g, S) = f[S]
               /\ \A s \in SUBSET S : f[s] = IF s = {} THEN g ELSE PagesUnref(f[s \ {Picks(S)[s]}], Picks(S)[s])
  BY <1>1, FoldUnref
<1>c. \A s \in SUBSET S : f[s] = IF s = {} THEN g ELSE PagesUnref(f[s \ {Picks(S)[s]}], Picks(S)[s])
  BY <1>2
<1> DEFINE W == {s \in SUBSET S : f[s] \in HeapRec}
<1>3. {} \in W
  BY <1>1, <1>c
<1>4. ASSUME NEW s \in SUBSET S, s # {}, s \ {Picks(S)[s]} \in W PROVE s \in W
  <2>1. Picks(S)[s] \in Nat
    BY <1>1, <1>4, PicksIs, PagesAre
  <2>2. f[s] = PagesUnref(f[s \ {Picks(S)[s]}], Picks(S)[s])
    BY <1>c, <1>4
  <2> QED
    BY <1>4, <2>1, <2>2, UnrefIn
<1> HIDE DEF W
<1>5. IsFiniteSet(S) /\ \A s \in SUBSET S : s # {} => Picks(S)[s] \in s
  BY <1>1, PagesFinite, PicksIs
<1>6. \A s \in SUBSET S : s \in W
  BY <1>3, <1>4, <1>5, FoldInduction
<1> QED
  BY <1>b, <1>2, <1>6 DEF W

FreeInfos(h, P) == [q \in Pages |-> IF q \in P THEN FreeInfo ELSE h.info[q]]

LEMMA FreeShape ==
  ASSUME NEW h \in HeapRec, NEW P
  PROVE  PagesFree(h, P) = [map |-> h.map \ P, info |-> FreeInfos(h, P), free |-> h.free + Cardinality(P),
                            frags |-> h.frags, live |-> h.live]
<1>1. PagesFree(h, P) = [h EXCEPT !.free = @ + Cardinality(P), !.map = @ \ P, !.info = FreeInfos(h, P)]
  BY DEF PagesFree, FreeInfos
<1>2. h \in [map : SUBSET Pages, info : [Pages -> InfoRec], free : Int, frags : StackSet,
             live : [Owners -> SUBSET Blocks]]
  BY DEF HeapRec
<1> QED
  BY <1>1, <1>2

LEMMA FreeFree ==
  ASSUME NEW h \in HeapRec, NEW A \in SUBSET Pages, NEW B \in SUBSET Pages, A \cap B = {}
  PROVE  PagesFree(PagesFree(h, A), B) = PagesFree(h, A \cup B)
<1>1. IsFiniteSet(A) /\ IsFiniteSet(B) /\ Cardinality(A) \in Nat /\ Cardinality(B) \in Nat
  BY PagesFinite
<1>2. Cardinality(A \cap B) = 0
  BY FS_EmptySet, Zenon
<1>3. Cardinality(A \cup B) = Cardinality(A) + Cardinality(B)
  <2>1. Cardinality(A \cup B) = Cardinality(A) + Cardinality(B) - Cardinality(A \cap B)
    BY <1>1, FS_Union
  <2> QED
    BY <1>1, <1>2, <2>1
<1>4. PICK g : g = PagesFree(h, A)
  OBVIOUS
<1>5. /\ g = [map |-> h.map \ A, info |-> FreeInfos(h, A), free |-> h.free + Cardinality(A),
              frags |-> h.frags, live |-> h.live]
      /\ g \in HeapRec
  BY <1>4, FreeShape, FreeIs
<1>6. PagesFree(g, B) = [map |-> g.map \ B, info |-> FreeInfos(g, B), free |-> g.free + Cardinality(B),
                         frags |-> g.frags, live |-> g.live]
  BY <1>5, FreeShape
<1>7. FreeInfos(g, B) = FreeInfos(h, A \cup B)
  <2>1. g.info = FreeInfos(h, A)
    BY <1>5
  <2> QED
    BY <2>1 DEF FreeInfos
<1>8. g.map \ B = h.map \ (A \cup B)
  BY <1>5
<1>9. g.free + Cardinality(B) = h.free + Cardinality(A \cup B)
  <2>1. g.free = h.free + Cardinality(A) /\ h.free \in Int
    BY <1>5 DEF HeapRec
  <2> QED
    BY <1>1, <1>3, <2>1
<1>10. g.frags = h.frags /\ g.live = h.live
  BY <1>5
<1>11. PagesFree(h, A \cup B) = [map |-> h.map \ (A \cup B), info |-> FreeInfos(h, A \cup B),
         free |-> h.free + Cardinality(A \cup B), frags |-> h.frags, live |-> h.live]
  BY FreeShape
<1> QED
  BY <1>4, <1>6, <1>7, <1>8, <1>9, <1>10, <1>11, Zenon

LEMMA FreeNone ==
  ASSUME NEW h \in HeapRec
  PROVE  PagesFree(h, {}) = h
<1>1. Cardinality({}) = 0
  BY FS_EmptySet
<1>2. h = [map |-> h.map, info |-> h.info, free |-> h.free, frags |-> h.frags, live |-> h.live]
  BY DEF HeapRec
<1>3. FreeInfos(h, {}) = h.info
  BY DEF FreeInfos, HeapRec
<1>4. h.free + Cardinality({}) = h.free /\ h.map \ {} = h.map
  BY <1>1 DEF HeapRec
<1>5. PagesFree(h, {}) = [map |-> h.map \ {}, info |-> FreeInfos(h, {}), free |-> h.free + Cardinality({}),
                          frags |-> h.frags, live |-> h.live]
  BY FreeShape
<1> QED
  BY <1>2, <1>3, <1>4, <1>5, Zenon

\* What is on the stack of o.
LEMMA StackedIs ==
  ASSUME NEW h \in HeapRec, NEW o \in Owners, NEW fs \in FragLogs, NEW f \in h.frags[o][fs]
  PROVE  /\ f \in Fragments /\ Block(f.page, f.idx, Frag(fs)) \in Blocks
         /\ In(h, o, "stack", Block(f.page, f.idx, Frag(fs)))
<1>1. f \in Fragments
  BY DEF HeapRec, StackSet
<1>2. f = [page |-> f.page, idx |-> f.idx] /\ f.page \in Pages /\ f.idx \in Nat
  BY <1>1 DEF Fragments
<1>3. fs \in 0..FragSizes /\ "stack" # "live"
  BY ConstFacts DEF FragLogs
<1> QED
  BY <1>1, <1>2, <1>3 DEF Blocks, Block, Frag, In

\* All fragments of an idle page are on the stack.
LEMMA IdleIs ==
  ASSUME NEW h, NEW mk, NEW X, HeapOK(h, mk, X), NEW o \in Owners, NEW fs \in FragLogs, NEW p \in Idle(h, o, fs)
  PROVE  /\ p \in h.map \ Fixed /\ h.info[p].fs = fs /\ fs # 0
         /\ \A b \in Blocks : Held(h, b) /\ p \in Extent(b) =>
              In(h, o, "stack", b) /\ b.page = p /\ b.fs = fs
<1>0. h \in HeapRec /\ TableOK(h) /\ fs # 0 /\ "stack" \in Place /\ "live" # "stack"
  BY ConstFacts DEF HeapOK, FragLogs, Place
<1>1. Frags(p, fs) \subseteq h.frags[o][fs]
  BY DEF Idle
<1>2. 2 ^ fs \in Nat \ {0, 1}
  BY ConstFacts
<1>3. ASSUME NEW i \in 0..(2 ^ fs - 1)
      PROVE  [page |-> p, idx |-> i] \in h.frags[o][fs]
  BY <1>1 DEF Frags
<1>4. ASSUME NEW i \in 0..(2 ^ fs - 1)
      PROVE  p \in h.map /\ h.info[p].fs = fs /\ (p \in Fixed => i = 0)
  <2> DEFINE b == Block(p, i, Frag(fs))
  <2>1. b \in Blocks /\ In(h, o, "stack", b)
    BY <1>0, <1>3, <1>4, StackedIs
  <2>2. Held(h, b)
    BY <1>0, <2>1, PlacedIs
  <2> QED
    BY <1>0, <2>2 DEF Held, FragHeld, Block, Frag
<1>5. 0 \in 0..(2 ^ fs - 1) /\ 1 \in 0..(2 ^ fs - 1)
  BY <1>2
<1>6. p \in h.map \ Fixed /\ h.info[p].fs = fs
  BY <1>4, <1>5
<1>7. ASSUME NEW b \in Blocks, Held(h, b), p \in Extent(b)
      PROVE  In(h, o, "stack", b) /\ b.page = p /\ b.fs = fs
  <2>1. b.fs = fs
    BY <1>0, <1>6, <1>7, HeldUsed
  <2>2. FragHeld(h, b) /\ b.page = p
    BY <1>0, <1>7, <2>1, FragFields
  <2>3. [page |-> b.page, idx |-> b.idx] \in h.frags[o][fs]
    BY <1>3, <2>1, <2>2 DEF FragHeld
  <2> QED
    BY <1>0, <2>1, <2>2, <2>3 DEF In, FragHeld
<1> QED
  BY <1>0, <1>6, <1>7

\* mem_frag_clean_stack frees the idle pages.
LEMMA CleanFrees ==
  ASSUME NEW h, NEW mk, NEW X, HeapOK(h, mk, X), NEW o \in Owners, NEW fs \in FragLogs
  PROVE  CleanStack(h, o, fs) = PagesFree(Strip(h, o, fs), Idle(h, o, fs))
<1> DEFINE S == Idle(h, o, fs)
           g == Strip(h, o, fs)
<1>0. h \in HeapRec /\ TableOK(h)
  BY DEF HeapOK
<1>1. S \in SUBSET Pages /\ g \in HeapRec /\ g.info = h.info
  BY <1>0, StripIs DEF Stripped
<1>b. CleanStack(h, o, fs) = FoldSet(LAMBDA p, x : PagesUnref(x, p), g, S)
  BY CleanFolds
<1>2. ASSUME NEW p \in S PROVE p \in h.map \ Fixed /\ h.info[p].fs # 0 /\ p \in Pages
  <2>1. p \in h.map \ Fixed /\ h.info[p].fs # 0
    BY IdleIs
  <2> QED
    BY <1>0, <2>1 DEF HeapRec
<1> HIDE DEF S, g
<1>3. PICK f : /\ FoldSet(LAMBDA p, x : PagesUnref(x, p), g, S) = f[S]
               /\ \A s \in SUBSET S : f[s] = IF s = {} THEN g ELSE PagesUnref(f[s \ {Picks(S)[s]}], Picks(S)[s])
  BY <1>1, FoldUnref
<1>c. \A s \in SUBSET S : f[s] = IF s = {} THEN g ELSE PagesUnref(f[s \ {Picks(S)[s]}], Picks(S)[s])
  BY <1>3
<1> DEFINE W == {s \in SUBSET S : f[s] = PagesFree(g, s)}
<1>4. {} \in W
  BY <1>1, <1>c, FreeNone
<1>5. ASSUME NEW s \in SUBSET S, s # {}, s \ {Picks(S)[s]} \in W PROVE s \in W
  <2> DEFINE p == Picks(S)[s]
             A == s \ {p}
  <2>1. p \in S /\ A \in SUBSET Pages /\ {p} \in SUBSET Pages /\ A \cap {p} = {} /\ A \cup {p} = s
    BY <1>1, <1>5, PicksIs
  <2>2. f[s] = PagesUnref(PagesFree(g, A), p)
    BY <1>c, <1>5
  <2> HIDE DEF p, A
  <2>x. PICK x : x = PagesFree(g, A)
    OBVIOUS
  <2>3. /\ x \in HeapRec /\ \A q \in A : x.info[q] = FreeInfo
        /\ \A q \in Pages \ A : x.info[q] = g.info[q]
    BY <1>1, <2>1, <2>x, FreeIs
  <2>4. p \in Pages \ Fixed /\ p - 1 \in Pages /\ p - 1 + 1 = p /\ h.info[p].fs # 0
    BY <1>2, <2>1, PagesAre
  <2>5. ~x.info[p].cont
    BY <1>0, <1>1, <2>1, <2>3, <2>4 DEF TableOK
  <2>6. Locked(x, p - 1) \/ ~x.info[p - 1].cont
    <3>1. CASE p - 1 \in A
      BY <2>3, <3>1 DEF FreeInfo
    <3>2. CASE p - 1 \notin A
      <4>1. x.info[p - 1] = h.info[p - 1]
        BY <1>1, <2>3, <2>4, <3>2
      <4>2. p - 1 \notin Fixed => ~h.info[p - 1].cont
        BY <1>0, <2>4 DEF TableOK
      <4> QED
        BY <1>0, <4>1, <4>2 DEF TableOK, Locked
    <3> QED
      BY <3>1, <3>2
  <2>7. Chain(x, p) = {p}
    <3>1. p \in 0..(NumPages - 1)
      BY <2>4, PagesAre
    <3>2. \A q \in p..(NumPages - 1) : q # p => p \in p..(q - 1)
      BY <3>1, ConstFacts
    <3>3. p..(p - 1) = {} /\ p \in p..(NumPages - 1)
      BY <3>1, ConstFacts
    <3> QED
      BY <2>5, <3>2, <3>3 DEF Chain
  <2>8. PagesUnref(x, p) = PagesFree(x, {p})
    BY <2>6, <2>7 DEF PagesUnref
  <2>9. PagesFree(x, {p}) = PagesFree(g, s)
    BY <1>1, <2>1, <2>x, FreeFree
  <2> QED
    BY <2>2, <2>x, <2>8, <2>9
<1> HIDE DEF W
<1>6. IsFiniteSet(S) /\ \A s \in SUBSET S : s # {} => Picks(S)[s] \in s
  BY <1>1, PagesFinite, PicksIs
<1>7. \A s \in SUBSET S : s \in W
  BY <1>4, <1>5, <1>6, FoldInduction
<1> QED
  BY <1>b, <1>3, <1>7 DEF W, S, g

LEMMA CleanKeeps ==
  ASSUME NEW h, NEW mk, NEW X, HeapOK(h, mk, X), NEW o \in Owners, NEW fs \in FragLogs,
         NEW c, c = CleanStack(h, o, fs)
  PROVE  /\ HeapOK(c, mk, X) /\ c.live = h.live /\ c.map \subseteq h.map
         /\ \A u \in Owners, gs \in FragLogs : u # o \/ gs # fs => c.frags[u][gs] = h.frags[u][gs]
         /\ \A p \in Pages : ~(Frags(p, fs) \subseteq c.frags[o][fs])
         /\ \A b \in X : \A w : Marked(h, mk, w, b) => Marked(c, mk, w, b)
<1>a. PICK S : S = Idle(h, o, fs)
  OBVIOUS
<1>0. /\ h \in HeapRec /\ OneIdle(h) /\ IsFiniteSet(h.live[KERNEL]) /\ Spare(h, X) /\ PiecesOK(h, mk)
      /\ TableOK(h)
  BY DEF HeapOK
<1>1. PICK g : g = Strip(h, o, fs)
  OBVIOUS
<1>2. /\ S \in SUBSET Pages
      /\ g \in HeapRec /\ g.map = h.map /\ g.info = h.info /\ g.free = h.free /\ g.live = h.live
      /\ \A f : f \in g.frags[o][fs] <=> f \in h.frags[o][fs] /\ f.page \notin S
      /\ \A u \in Owners, gs \in FragLogs : u # o \/ gs # fs => g.frags[u][gs] = h.frags[u][gs]
  <2>1. Stripped(h, o, fs, g)
    BY <1>0, <1>1, StripIs
  <2> QED
    BY <1>a, <2>1 DEF Stripped
<1>3. \A u \in Owners, gs \in FragLogs : g.frags[u][gs] \subseteq h.frags[u][gs]
  BY <1>2
<1>4. ASSUME NEW u \in Owners, NEW s \in Place, NEW b \in Blocks, In(g, u, s, b)
      PROVE  In(h, u, s, b) /\ (u = o /\ s = "stack" /\ b.fs = fs => b.page \notin S)
  <2>1. In(h, u, s, b)
    BY <1>2, <1>3, <1>4 DEF In
  <2>2. ASSUME u = o, s = "stack", b.fs = fs PROVE b.page \notin S
    <3>1. [page |-> b.page, idx |-> b.idx] \in g.frags[o][fs]
      BY <1>4, <2>2 DEF In
    <3> QED
      BY <1>2, <3>1
  <2> QED
    BY <2>1, <2>2
<1>5. OneIdle(g)
  <2>1. ASSUME NEW u \in Owners, NEW gs \in FragLogs, NEW p, Frags(p, gs) \subseteq g.frags[u][gs]
        PROVE  Frags(p, gs) \subseteq h.frags[u][gs]
    BY <1>3, <2>1
  <2> QED
    BY <1>0, <2>1 DEF OneIdle
<1>6. HeapOK(g, mk, X)
  <2>1. X \in SUBSET Blocks
    BY <1>0 DEF Spare
  <2>2. ASSUME NEW u \in Owners, NEW s \in Place, NEW b \in Blocks, In(g, u, s, b)
        PROVE  b \notin X /\ In(h, u, s, b)
    BY <1>4, <2>2, PlacedIs
  <2>3. IsFiniteSet(g.live[KERNEL]) /\ SamePages(h, g)
    BY <1>0, <1>2 DEF SamePages
  <2>4. Moves(h, mk, X, g, o, "stack", X)
    BY <2>1, <2>2 DEF Moves
  <2> QED
    BY <1>5, <2>3, <2>4, Move
<1>7. ASSUME NEW p \in S
      PROVE  /\ p \in g.map \ Fixed /\ g.info[p].fs = fs /\ fs # 0
             /\ \A b \in Blocks : Held(h, b) /\ p \in Extent(b) =>
                  In(h, o, "stack", b) /\ b.page = p /\ b.fs = fs
  BY <1>2, <1>a, <1>7, IdleIs
<1>8. S \subseteq g.map
  BY <1>7
<1>9. Whole(g, S)
  <2>1. \A q \in Pages \ Fixed : g.info[q].cont => q \notin S /\ q + 1 \notin S
    BY <1>0, <1>2, <1>7 DEF TableOK
  <2> QED
    BY <1>7, <2>1 DEF Whole
<1>10. ASSUME NEW u \in Owners, NEW s \in Place, NEW b \in Blocks, In(g, u, s, b)
       PROVE  Extent(b) \cap S = {}
  <2> SUFFICES ASSUME NEW p \in Extent(b) \cap S PROVE FALSE
    OBVIOUS
  <2>1. In(h, u, s, b) /\ Held(h, b)
    BY <1>4, <1>10, PlacedIs
  <2>2. In(h, o, "stack", b) /\ b.page = p /\ b.fs = fs
    BY <1>7, <2>1
  <2>3. u = o /\ s = "stack"
    BY <2>1, <2>2, PlacedIs DEF Place
  <2> QED
    BY <1>4, <1>10, <2>2, <2>3
<1>11. ASSUME NEW b \in X PROVE Extent(b) \cap S = {}
  <2> SUFFICES ASSUME NEW p \in Extent(b) \cap S PROVE FALSE
    OBVIOUS
  <2>1. b \in Blocks /\ Held(h, b) /\ ~In(h, o, "stack", b)
    BY <1>0 DEF Spare, Place
  <2> QED
    BY <1>7, <2>1
<1>12. c = PagesFree(g, S)
  BY <1>a, <1>1, CleanFrees
<1>13. HeapOK(c, mk, X) /\ \A b \in X : \A w : Marked(g, mk, w, b) => Marked(c, mk, w, b)
  BY <1>6, <1>8, <1>9, <1>10, <1>11, <1>12, Give
<1>14. c.live = g.live /\ c.map = g.map \ S /\ c.frags = g.frags
  BY <1>2, <1>12, FreeIs
<1>15. \A b, w : Marked(g, mk, w, b) <=> Marked(h, mk, w, b)
  BY <1>2 DEF Marked
<1>16. ASSUME NEW p \in Pages, Frags(p, fs) \subseteq g.frags[o][fs] PROVE FALSE
  <2>1. [page |-> p, idx |-> 0] \in Frags(p, fs)
    BY ConstFacts DEF Frags
  <2>2. [page |-> p, idx |-> 0] \in h.frags[o][fs] /\ p \notin S
    BY <1>2, <1>16, <2>1
  <2>3. Frags(p, fs) \subseteq h.frags[o][fs]
    BY <1>3, <1>16
  <2>4. p \in S
    BY <1>a, <2>2, <2>3 DEF Idle
  <2> QED
    BY <2>2, <2>4
<1> QED
  BY <1>2, <1>13, <1>14, <1>15, <1>16

-----------------------------------------------------------------------------
(* free().                                                                   *)

LEMMA Places ==
  "live" \in Place /\ "stack" \in Place /\ "live" # "stack" /\ \A s \in Place : s = "live" \/ s = "stack"
  BY DEF Place

LEMMA LiveIn ==
  ASSUME NEW h, NEW o, NEW b
  PROVE  In(h, o, "live", b) <=> b \in h.live[o]
  BY DEF In

LEMMA LiveBlocks ==
  ASSUME NEW h \in HeapRec, NEW o \in Owners
  PROVE  h.live[o] \in SUBSET Blocks
  BY DEF HeapRec

Without(h, w, b) == SetLive(h, w, h.live[w] \ {b})

IsWithout(h, w, b, g) ==
  /\ g.map = h.map /\ g.info = h.info /\ g.frags = h.frags
  /\ g.live[w] = h.live[w] \ {b} /\ \A u \in Owners : u # w => g.live[u] = h.live[u]

\* b is no longer handed out to w.
LEMMA Withdraw ==
  ASSUME NEW h, NEW mk, NEW X, HeapOK(h, mk, X), NEW w \in Owners, NEW b \in h.live[w],
         NEW g, g = Without(h, w, b)
  PROVE  HeapOK(g, mk, X \cup {b}) /\ IsWithout(h, w, b, g)
<1>0. h \in HeapRec /\ OneIdle(h) /\ IsFiniteSet(h.live[KERNEL]) /\ Spare(h, X)
  BY DEF HeapOK
<1>1. h.live[w] \ {b} \in SUBSET Blocks /\ b \in Blocks
  BY <1>0, LiveBlocks
<1>2. HasLive(h, w, h.live[w] \ {b}, g)
  BY <1>0, <1>1, LiveIs DEF Without
<1>3. SamePages(h, g) /\ OneIdle(g)
  BY <1>0, <1>2 DEF SamePages, OneIdle, HasLive
<1>4. IsFiniteSet(g.live[KERNEL])
  <2>1. KERNEL \in Owners
    BY DEF Owners
  <2>2. g.live[KERNEL] \subseteq h.live[KERNEL]
    BY <1>2, <2>1 DEF HasLive
  <2> QED
    BY <1>0, <2>2, FS_Subset
<1>5. In(h, w, "live", b)
  BY LiveIn
<1>6. ASSUME NEW o \in Owners, NEW s \in Place, NEW c \in Blocks, In(g, o, s, c)
      PROVE  In(h, o, s, c) /\ c \notin X /\ c # b
  <2>1. In(h, o, s, c) /\ (s = "live" /\ o = w => c # b)
    BY <1>2, <1>6, Places DEF In, HasLive
  <2>2. c \notin X
    BY <2>1, PlacedIs
  <2>3. c # b
    BY <1>5, <2>1, PlacedIs, Places
  <2> QED
    BY <2>1, <2>2, <2>3
<1>7. Moves(h, mk, X, g, w, "live", X \cup {b})
  BY <1>0, <1>1, <1>5, <1>6, Places DEF Moves, Spare
<1>8. HeapOK(g, mk, X \cup {b})
  BY <1>3, <1>4, <1>7, Move
<1> QED
  BY <1>2, <1>8 DEF HasLive, IsWithout

NoIdle(h, o, fs) == \A p \in Pages : ~(Frags(p, fs) \subseteq h.frags[o][fs])

\* The other stacks are the same.
OtherFrags(h, g, o) == \A u \in Owners, gs \in FragLogs : u # o => g.frags[u][gs] = h.frags[u][gs]

Pushed(h, o, b) == SetFrags(h, o, b.fs, h.frags[o][b.fs] \cup {[page |-> b.page, idx |-> b.idx]})

\* The fragment b goes on the stack of o.
LEMMA Push ==
  ASSUME NEW h, NEW mk, NEW X, HeapOK(h, mk, X), NEW b \in X, b.fs # 0, NEW o \in Owners, Marked(h, mk, o, b),
         NoIdle(h, o, b.fs), NEW g, g = Pushed(h, o, b)
  PROVE  HeapOK(g, mk, X \ {b}) /\ g.map = h.map /\ g.live = h.live /\ OtherFrags(h, g, o)
<1>0. h \in HeapRec /\ OneIdle(h) /\ IsFiniteSet(h.live[KERNEL]) /\ Spare(h, X)
  BY DEF HeapOK
<1>1. PICK f : f = [page |-> b.page, idx |-> b.idx]
  OBVIOUS
<1>2. b \in Blocks /\ Held(h, b)
  BY <1>0 DEF Spare
<1>3. b.fs \in FragLogs /\ b.n = 1 /\ b.page \in Pages /\ b.idx \in Nat
  BY <1>0, <1>2, FragFields, BlockFields DEF FragHeld
<1>4. h.frags[o][b.fs] \in SUBSET Fragments
  BY <1>0, <1>3 DEF HeapRec, StackSet
<1>5. h.frags[o][b.fs] \cup {f} \in SUBSET Fragments
  BY <1>1, <1>3, <1>4 DEF Fragments
<1>6. /\ g \in HeapRec /\ g.map = h.map /\ g.info = h.info /\ g.free = h.free /\ g.live = h.live
      /\ g.frags[o][b.fs] = h.frags[o][b.fs] \cup {f}
      /\ \A u \in Owners, gs \in FragLogs : u # o \/ gs # b.fs => g.frags[u][gs] = h.frags[u][gs]
  <2>1. g = SetFrags(h, o, b.fs, h.frags[o][b.fs] \cup {f})
    BY <1>1 DEF Pushed
  <2> QED
    <3>1. HasFrags(h, o, b.fs, h.frags[o][b.fs] \cup {f}, g)
      BY <1>0, <1>3, <1>5, <2>1, FragsIs
    <3> QED
      BY <3>1 DEF HasFrags
<1>7. OneIdle(g)
  <2>1. ASSUME NEW p \in Pages, Frags(p, b.fs) \subseteq g.frags[o][b.fs] PROVE p = b.page
    <3>1. f \in Frags(p, b.fs)
      BY <1>6, <2>1 DEF NoIdle
    <3> QED
      BY <1>1, <3>1 DEF Frags
  <2> QED
    BY <1>0, <1>6, <2>1 DEF OneIdle
<1>8. ASSUME NEW u \in Owners, NEW s \in Place, NEW c \in Blocks, In(g, u, s, c)
      PROVE  (In(h, u, s, c) /\ c \notin X) \/ (c = b /\ u = o /\ s = "stack")
  <2>1. CASE In(h, u, s, c)
    BY <2>1, PlacedIs
  <2>2. CASE ~In(h, u, s, c)
    <3>1. s = "stack" /\ c.fs \in FragLogs /\ c.n = 1 /\ [page |-> c.page, idx |-> c.idx] \in g.frags[u][c.fs]
      BY <1>6, <1>8, <2>2, Places DEF In
    <3>2. [page |-> c.page, idx |-> c.idx] \notin h.frags[u][c.fs]
      BY <2>2, <3>1, Places DEF In
    <3>3. u = o /\ c.fs = b.fs /\ [page |-> c.page, idx |-> c.idx] = f
      BY <1>6, <3>1, <3>2
    <3>4. c.page = b.page /\ c.idx = b.idx
      BY <1>1, <3>3
    <3> QED
      BY <1>2, <1>3, <3>1, <3>3, <3>4, BlockFields
  <2> QED
    BY <2>1, <2>2
<1>9. Moves(h, mk, X, g, o, "stack", X \ {b})
  BY <1>0, <1>8 DEF Moves, Spare
<1>10. HeapOK(g, mk, X \ {b})
  BY <1>0, <1>6, <1>7, <1>9, Move DEF SamePages
<1> QED
  BY <1>6, <1>10 DEF OtherFrags

\* A fragment that is freed goes on a stack or is lost.
LEMMA FragFreeKeeps ==
  ASSUME NEW h, NEW mk, NEW X, HeapOK(h, mk, X), NEW b \in X, b.fs # 0, NEW o \in Owners, Marked(h, mk, o, b),
         NEW g, g = FragFree(h, o, b)
  PROVE  HeapOK(g, mk, X \ {b}) /\ g.map \subseteq h.map /\ g.live = h.live /\ OtherFrags(h, g, o)
<1>0. h \in HeapRec /\ Spare(h, X)
  BY DEF HeapOK
<1>1. b \in Blocks /\ Held(h, b)
  BY <1>0 DEF Spare
<1>2. b.fs \in FragLogs /\ h.info[b.page].fs = b.fs
  BY <1>0, <1>1, FragFields DEF FragHeld
<1>3. PICK c : c = CleanStack(h, o, b.fs)
  OBVIOUS
<1>4. /\ HeapOK(c, mk, X) /\ c.live = h.live /\ c.map \subseteq h.map
      /\ OtherFrags(h, c, o) /\ NoIdle(c, o, b.fs) /\ Marked(c, mk, o, b)
  <2>1. PICK fs \in FragLogs : fs = b.fs
    BY <1>2
  <2>2. c = CleanStack(h, o, fs)
    BY <1>3, <2>1, Zenon
  <2>3. /\ HeapOK(c, mk, X) /\ c.live = h.live /\ c.map \subseteq h.map
        /\ \A u \in Owners, gs \in FragLogs : u # o \/ gs # fs => c.frags[u][gs] = h.frags[u][gs]
        /\ \A p \in Pages : ~(Frags(p, fs) \subseteq c.frags[o][fs])
        /\ \A y \in X : \A w : Marked(h, mk, w, y) => Marked(c, mk, w, y)
    BY <2>2, CleanKeeps
  <2>4. Marked(c, mk, o, b)
    BY <2>3, Zenon
  <2>5. OtherFrags(h, c, o)
    BY <2>3, Zenon DEF OtherFrags
  <2>6. NoIdle(c, o, b.fs)
    BY <2>1, <2>3, Zenon DEF NoIdle
  <2> QED
    BY <2>3, <2>4, <2>5, <2>6, Zenon
<1>5. CASE g = c
  <2>1. HeapOK(c, mk, X \ {b})
    BY <1>4, Forget
  <2> QED
    BY <1>4, <1>5, <2>1
<1>6. CASE g = Pushed(c, o, b)
  <2>1. HeapOK(g, mk, X \ {b}) /\ g.map = c.map /\ g.live = c.live /\ OtherFrags(c, g, o)
    BY <1>4, <1>6, Push
  <2> QED
    BY <1>4, <2>1 DEF OtherFrags
<1>7. g = c \/ g = Pushed(c, o, b)
  <2>1. c \in HeapRec
    BY <1>4 DEF HeapOK
  <2>2. FragFree(h, o, b) = IF Cardinality(c.frags[o][b.fs]) >= StackMax THEN c
                            ELSE [c EXCEPT !.frags[o][b.fs] = @ \cup {[page |-> b.page, idx |-> b.idx]}]
    BY <1>2, <1>3 DEF FragFree
  <2>3. [c EXCEPT !.frags[o][b.fs] = @ \cup {[page |-> b.page, idx |-> b.idx]}]
          = Pushed(c, o, b)
    BY <1>2, <2>1 DEF Pushed, SetFrags, HeapRec, StackSet
  <2> QED
    BY <2>2, <2>3
<1> QED
  BY <1>5, <1>6, <1>7

\* Heap g after o has freed b, which was handed out to w.
Freed(h, o, w, b, g) ==
  /\ g.live[w] = h.live[w] \ {b} /\ \A u \in Owners : u # w => g.live[u] = h.live[u]
  /\ g.map \subseteq h.map /\ OtherFrags(h, g, o)
  /\ b.fs = 0 => Extent(b) \cap g.map = {}

LEMMA FreeBlockKeeps ==
  ASSUME NEW h, NEW mk, NEW X, HeapOK(h, mk, X), NEW o \in Owners, NEW w \in Owners, NEW b \in h.live[w],
         b.fs # 0 => mk[w] \subseteq mk[o] \cup {0},
         NEW g, g = FreeBlock(h, o, w, b)
  PROVE  HeapOK(g, mk, X) /\ Freed(h, o, w, b, g)
<1>0. h \in HeapRec /\ b \in Blocks
  BY LiveBlocks DEF HeapOK
<1>1. In(h, w, "live", b) /\ Held(h, b) /\ Marked(h, mk, w, b) /\ b \notin X
  <2>1. In(h, w, "live", b)
    BY LiveIn
  <2> QED
    BY <1>0, <2>1, PlacedIs, Places
<1>2. PICK a : a = Without(h, w, b)
  OBVIOUS
<1>3. HeapOK(a, mk, X \cup {b}) /\ IsWithout(h, w, b, a)
  BY <1>2, Withdraw
<1>4. /\ a.map = h.map /\ a.info = h.info /\ a.frags = h.frags
      /\ a.live[w] = h.live[w] \ {b} /\ \A u \in Owners : u # w => a.live[u] = h.live[u]
  BY <1>3 DEF IsWithout
<1>5. h.info[b.page].fs = b.fs
  BY <1>0, <1>1, HeldUsed, BlockFields
<1>6. g = IF b.fs = 0 THEN PagesUnref(a, b.page) ELSE FragFree(a, o, b)
  <2>1. [h EXCEPT !.live[w] = @ \ {b}] = a
    BY <1>0, <1>2 DEF Without, SetLive, HeapRec
  <2> QED
    BY <1>5, <2>1 DEF FreeBlock
<1>7. a \in HeapRec /\ TableOK(a) /\ Spare(a, X \cup {b}) /\ Held(a, b)
  BY <1>3 DEF HeapOK, Spare
<1>8. CASE b.fs = 0
  <2>1. /\ Chain(a, b.page) = Extent(b)
        /\ Locked(a, b.page - 1) \/ ~a.info[b.page - 1].cont
        /\ Whole(a, Extent(b)) /\ Extent(b) \subseteq Pages
    BY <1>0, <1>7, <1>8, ChainIs
  <2>2. g = PagesFree(a, Extent(b))
    BY <1>6, <1>8, <2>1 DEF PagesUnref
  <2>3. ASSUME NEW u \in Owners, NEW s \in Place, NEW c \in Blocks, In(a, u, s, c)
        PROVE  Extent(c) \cap Extent(b) = {}
    <3>1. Held(a, c) /\ c # b
      BY <1>3, <2>3, PlacedIs
    <3> QED
      BY <1>0, <1>7, <1>8, <3>1, HeldApart
  <2>4. ASSUME NEW c \in X
        PROVE  Extent(c) \cap Extent(b) = {}
    <3>1. Held(a, c) /\ c # b /\ c \in Blocks
      BY <1>1, <1>7 DEF Spare
    <3> QED
      BY <1>0, <1>7, <1>8, <3>1, HeldApart
  <2>5. Extent(b) \in SUBSET a.map
    BY <1>0, <1>7, HeldUsed
  <2>6. X \in SUBSET (X \cup {b})
    OBVIOUS
  <2>7. HeapOK(g, mk, X)
    BY <1>3, <2>1, <2>2, <2>3, <2>4, <2>5, <2>6, Give
  <2>8. g.frags = a.frags /\ g.live = a.live /\ g.map = a.map \ Extent(b)
    BY <1>7, <2>1, <2>2, FreeIs
  <2> QED
    BY <1>4, <2>7, <2>8 DEF Freed, OtherFrags
<1>9. CASE b.fs # 0
  <2>1. Marked(a, mk, o, b)
    BY <1>1, <1>4, <1>9 DEF Marked
  <2>2. g = FragFree(a, o, b) /\ b \in X \cup {b}
    BY <1>6, <1>9
  <2>3. HeapOK(g, mk, (X \cup {b}) \ {b}) /\ g.map \subseteq a.map /\ g.live = a.live /\ OtherFrags(a, g, o)
    BY <1>3, <1>9, <2>1, <2>2, FragFreeKeeps
  <2>4. (X \cup {b}) \ {b} = X
    BY <1>1
  <2> QED
    BY <1>4, <1>9, <2>3, <2>4 DEF Freed, OtherFrags
<1> QED
  BY <1>8, <1>9

-----------------------------------------------------------------------------
(* bcleanup_glob().                                                          *)

\* Heap g after o has dropped buffers.
Cleaned(h, o, g) ==
  /\ g.live[KERNEL] \subseteq h.live[KERNEL] /\ \A u \in Owners : u # KERNEL => g.live[u] = h.live[u]
  /\ g.map \subseteq h.map /\ OtherFrags(h, g, o)
  /\ \A b \in h.live[KERNEL] \ g.live[KERNEL] : b.fs = 0 => Extent(b) \cap g.map = {}

Cleanup(h, o, B) == FoldSet(LAMBDA b, g : FreeBlock(g, o, KERNEL, b), h, B)

Cleans(h, o, B, f) ==
  /\ Cleanup(h, o, B) = f[B]
  /\ \A s \in SUBSET B : f[s] = IF s = {} THEN h
                                 ELSE FreeBlock(f[s \ {Picks(B)[s]}], o, KERNEL, Picks(B)[s])

LEMMA FoldFree ==
  ASSUME NEW h, NEW mk, NEW X, HeapOK(h, mk, X), NEW o \in Owners, mk[KERNEL] = {0},
         NEW B \in SUBSET h.live[KERNEL]
  PROVE  \E f : Cleans(h, o, B, f)
<1> DEFINE Is(f) == f = [s \in SUBSET B |-> IF s = {} THEN h
                           ELSE FreeBlock(f[s \ {CHOOSE x \in s : TRUE}], o, KERNEL, CHOOSE x \in s : TRUE)]
           it == CHOOSE f : Is(f)
           Left(g, s) == g.live[KERNEL] = h.live[KERNEL] \ s
           V == {g \in HeapRec : HeapOK(g, mk, X)}
<1>0. PICK ch : ch = Picks(B)
  OBVIOUS
<1>1. Cleanup(h, o, B) = it[B]
  BY DEF Cleanup, FoldSet, MapThenFoldSet
<1>k. KERNEL \in Owners /\ h \in V /\ IsFiniteSet(B)
  BY FS_Subset DEF Owners, HeapOK
<1>c. \A s \in SUBSET B : ch[s] = (CHOOSE x \in s : TRUE) /\ (s # {} => ch[s] \in s)
  BY <1>0, PicksIs
<1>2. \E f : Is(f)
  <2>0. PICK F : F = [b \in B |-> [g \in V |-> IF b \in g.live[KERNEL] THEN FreeBlock(g, o, KERNEL, b) ELSE g]]
    OBVIOUS
  <2>1. ASSUME NEW b \in B, NEW g \in V, b \in g.live[KERNEL]
        PROVE  FreeBlock(g, o, KERNEL, b) \in V /\ FreeBlock(g, o, KERNEL, b).live[KERNEL] = g.live[KERNEL] \ {b}
    <3>1. PICK a : a = FreeBlock(g, o, KERNEL, b)
      OBVIOUS
    <3>2. HeapOK(a, mk, X) /\ Freed(g, o, KERNEL, b, a)
      BY <1>k, <2>1, <3>1, FreeBlockKeeps
    <3> QED
      BY <3>1, <3>2 DEF HeapOK, Freed
  <2>2. F \in [B -> [V -> V]]
    BY <2>0, <2>1
  <2>3. Folding(B, V, h, ch, F)
    <3> HIDE DEF V
    <3> QED
      BY <1>k, <1>c, <2>2 DEF Folding
  <2>4. PICK f : IsFold(f, B, V, h, ch, F)
    BY <2>3, FoldExists
  <2>5. f \in [SUBSET B -> V] /\ \A s \in SUBSET B : f[s] = IF s = {} THEN h ELSE F[ch[s]][f[s \ {ch[s]}]]
    BY <2>4 DEF IsFold
  <2> DEFINE W == {s \in SUBSET B : Left(f[s], s)}
  <2>6. {} \in W
    BY <2>5
  <2>7. ASSUME NEW s \in SUBSET B, s # {}, Left(f[s \ {ch[s]}], s \ {ch[s]})
        PROVE  f[s] = FreeBlock(f[s \ {ch[s]}], o, KERNEL, ch[s]) /\ Left(f[s], s)
    <3>1. ch[s] \in s /\ ch[s] \in B /\ s \ {ch[s]} \in SUBSET B
      BY <1>c, <2>7
    <3>2. PICK g : g = f[s \ {ch[s]}]
      OBVIOUS
    <3>3. g \in V /\ g.live[KERNEL] = h.live[KERNEL] \ (s \ {ch[s]}) /\ f[s] = F[ch[s]][g]
      BY <2>5, <2>7, <3>1, <3>2
    <3>4. ch[s] \in g.live[KERNEL]
      BY <3>1, <3>3
    <3>5. F[ch[s]][g] = FreeBlock(g, o, KERNEL, ch[s])
      <4> HIDE DEF V
      <4> QED
        BY <2>0, <3>1, <3>3, <3>4
    <3>6. FreeBlock(g, o, KERNEL, ch[s]).live[KERNEL] = g.live[KERNEL] \ {ch[s]}
      BY <2>1, <3>1, <3>3, <3>4
    <3>7. f[s].live[KERNEL] = h.live[KERNEL] \ s
      BY <3>1, <3>3, <3>5, <3>6
    <3> QED
      BY <3>2, <3>3, <3>5, <3>7
  <2>8. \A s \in SUBSET B : s \in W
    <3>1. \A s \in SUBSET B : s # {} /\ s \ {ch[s]} \in W => s \in W
      BY <2>7
    <3> HIDE DEF W
    <3> QED
      BY <1>k, <1>c, <2>6, <3>1, FoldInduction
  <2>9. ASSUME NEW s \in SUBSET B, s # {}
        PROVE  f[s] = FreeBlock(f[s \ {CHOOSE x \in s : TRUE}], o, KERNEL, CHOOSE x \in s : TRUE)
    <3>1. ch[s] = (CHOOSE x \in s : TRUE)
      BY <1>c
    <3>2. s \ {ch[s]} \in W
      BY <2>8
    <3>3. f[s] = FreeBlock(f[s \ {ch[s]}], o, KERNEL, ch[s])
      BY <2>7, <2>9, <3>2
    <3> QED
      BY <3>1, <3>3, Zenon
  <2>10. \A s \in SUBSET B : f[s] = IF s = {} THEN h
           ELSE FreeBlock(f[s \ {CHOOSE x \in s : TRUE}], o, KERNEL, CHOOSE x \in s : TRUE)
    BY <2>5, <2>9
  <2>11. Is(f)
    BY <2>5, <2>10
  <2> QED
    BY <2>11, Zenon
<1>3. Is(it)
  <2> HIDE DEF Is
  <2> QED
    BY <1>2, Zenon
<1>4. ASSUME NEW s \in SUBSET B
      PROVE  it[s] = IF s = {} THEN h ELSE FreeBlock(it[s \ {ch[s]}], o, KERNEL, ch[s])
  <2>1. it[s] = IF s = {} THEN h
                ELSE FreeBlock(it[s \ {CHOOSE x \in s : TRUE}], o, KERNEL, CHOOSE x \in s : TRUE)
    BY <1>3
  <2>2. ch[s] = (CHOOSE x \in s : TRUE)
    BY <1>c
  <2> HIDE DEF it
  <2> QED
    BY <2>1, <2>2
<1> HIDE DEF it
<1>5. Cleans(h, o, B, it)
  BY <1>0, <1>1, <1>4 DEF Cleans
<1> QED
  BY <1>5

LEMMA CleanupKeeps ==
  ASSUME NEW h, NEW mk, NEW X, HeapOK(h, mk, X), NEW o \in Owners, mk[KERNEL] = {0},
         NEW c \in Cleanups(h, o)
  PROVE  HeapOK(c, mk, X) /\ Cleaned(h, o, c)
<1>1. PICK B \in SUBSET h.live[KERNEL] : c = Cleanup(h, o, B)
  BY Zenon DEF Cleanups, Cleanup
<1>a. PICK f : Cleans(h, o, B, f)
  BY FoldFree
<1>2. /\ Cleanup(h, o, B) = f[B]
      /\ \A s \in SUBSET B : f[s] = IF s = {} THEN h
                                    ELSE FreeBlock(f[s \ {Picks(B)[s]}], o, KERNEL, Picks(B)[s])
  BY <1>a DEF Cleans
<1>3. KERNEL \in Owners /\ IsFiniteSet(B) /\ \A s \in SUBSET B : s # {} => Picks(B)[s] \in s
  BY FS_Subset, PicksIs DEF Owners, HeapOK
<1> DEFINE Good(g, s) == /\ HeapOK(g, mk, X) /\ Cleaned(h, o, g) /\ g.live[KERNEL] = h.live[KERNEL] \ s
           W == {s \in SUBSET B : Good(f[s], s)}
<1>4. {} \in W
  <2>1. f[{}] = h
    BY <1>2
  <2>2. Good(h, {})
    BY DEF Cleaned, OtherFrags
  <2> QED
    BY <2>1, <2>2
<1>5. ASSUME NEW s \in SUBSET B, s # {}, s \ {Picks(B)[s]} \in W PROVE s \in W
  <2>0. PICK b : b = Picks(B)[s]
    OBVIOUS
  <2>1. b \in s /\ s \ {b} \in SUBSET B
    BY <1>3, <1>5, <2>0
  <2>2. PICK g : g = f[s \ {b}]
    OBVIOUS
  <2>3. Good(g, s \ {b}) /\ f[s] = FreeBlock(g, o, KERNEL, b)
    BY <1>2, <1>5, <2>0, <2>2
  <2>4. b \in g.live[KERNEL]
    BY <2>1, <2>3
  <2>5. HeapOK(f[s], mk, X) /\ Freed(g, o, KERNEL, b, f[s])
    BY <1>3, <2>3, <2>4, FreeBlockKeeps
  <2>6. f[s].live[KERNEL] = h.live[KERNEL] \ s
    BY <2>1, <2>3, <2>5 DEF Freed
  <2>7. Cleaned(h, o, f[s])
    <3>1. /\ f[s].live[KERNEL] \subseteq h.live[KERNEL]
          /\ \A u \in Owners : u # KERNEL => f[s].live[u] = h.live[u]
          /\ f[s].map \subseteq h.map /\ OtherFrags(h, f[s], o)
      BY <2>3, <2>5, <2>6 DEF Cleaned, Freed, OtherFrags
    <3>2. ASSUME NEW d \in h.live[KERNEL] \ f[s].live[KERNEL], d.fs = 0
          PROVE  Extent(d) \cap f[s].map = {}
      <4>1. CASE d = b
        BY <2>5, <3>2, <4>1 DEF Freed
      <4>2. CASE d # b
        <5>1. d \in h.live[KERNEL] \ g.live[KERNEL]
          BY <2>5, <4>2 DEF Freed
        <5>2. Extent(d) \cap g.map = {}
          BY <2>3, <3>2, <5>1 DEF Cleaned
        <5> QED
          BY <2>5, <5>2 DEF Freed
      <4> QED
        BY <4>1, <4>2
    <3> QED
      BY <3>1, <3>2 DEF Cleaned
  <2> QED
    BY <2>5, <2>6, <2>7
<1> HIDE DEF W
<1>6. \A s \in SUBSET B : s \in W
  BY <1>3, <1>4, <1>5, FoldInduction
<1> QED
  BY <1>1, <1>2, <1>6 DEF W

-----------------------------------------------------------------------------
(* malloc().                                                                 *)

With(h, o, b) == SetLive(h, o, h.live[o] \cup {b})

IsWith(h, o, b, g) ==
  /\ g.map = h.map /\ g.info = h.info /\ g.frags = h.frags
  /\ g.live[o] = h.live[o] \cup {b} /\ \A u \in Owners : u # o => g.live[u] = h.live[u]

\* b is handed out to o.
LEMMA Hand ==
  ASSUME NEW h, NEW mk, NEW X, HeapOK(h, mk, X), NEW b \in X, NEW o \in Owners, Marked(h, mk, o, b),
         NEW g, g = With(h, o, b)
  PROVE  HeapOK(g, mk, X \ {b}) /\ IsWith(h, o, b, g)
<1>0. h \in HeapRec /\ OneIdle(h) /\ IsFiniteSet(h.live[KERNEL]) /\ Spare(h, X)
  BY DEF HeapOK
<1>1. h.live[o] \cup {b} \in SUBSET Blocks
  <2>1. b \in Blocks /\ h.live[o] \in SUBSET Blocks
    BY <1>0, LiveBlocks DEF Spare
  <2> QED
    BY <2>1
<1>2. HasLive(h, o, h.live[o] \cup {b}, g)
  BY <1>0, <1>1, LiveIs DEF With
<1>3. SamePages(h, g) /\ OneIdle(g)
  BY <1>0, <1>2 DEF SamePages, OneIdle, HasLive
<1>4. IsFiniteSet(g.live[KERNEL])
  <2>1. KERNEL \in Owners
    BY DEF Owners
  <2>2. g.live[KERNEL] = h.live[KERNEL] \/ g.live[KERNEL] = h.live[KERNEL] \cup {b}
    BY <1>2, <2>1 DEF HasLive
  <2>3. IsFiniteSet(h.live[KERNEL] \cup {b})
    BY <1>0, FS_AddElement
  <2> QED
    BY <1>0, <2>2, <2>3
<1>5. ASSUME NEW u \in Owners, NEW s \in Place, NEW c \in Blocks, In(g, u, s, c)
      PROVE  (In(h, u, s, c) /\ c \notin X) \/ (c = b /\ u = o /\ s = "live")
  <2>1. In(h, u, s, c) \/ (c = b /\ u = o /\ s = "live")
    BY <1>2, <1>5, Places DEF In, HasLive
  <2> QED
    BY <2>1, PlacedIs
<1>6. Moves(h, mk, X, g, o, "live", X \ {b})
  BY <1>0, <1>5 DEF Moves, Spare
<1>7. HeapOK(g, mk, X \ {b})
  BY <1>3, <1>4, <1>6, Move
<1> QED
  BY <1>2, <1>7 DEF HasLive, IsWith

Popped(h, o, fs, f) == SetFrags(h, o, fs, h.frags[o][fs] \ {f})

IsPopped(h, o, b, g) ==
  /\ b \in Blocks /\ Extent(b) \subseteq h.map /\ \A u \in Owners : b \notin h.live[u]
  /\ g.map = h.map /\ g.live = h.live /\ OtherFrags(h, g, o)

\* A fragment is taken from the stack of o.
LEMMA Pop ==
  ASSUME NEW h, NEW mk, NEW X, HeapOK(h, mk, X), NEW o \in Owners, NEW fs \in FragLogs,
         NEW f \in h.frags[o][fs], NEW b, b = Block(f.page, f.idx, Frag(fs)),
         NEW g, g = Popped(h, o, fs, f)
  PROVE  HeapOK(g, mk, X \cup {b}) /\ Marked(g, mk, o, b) /\ b \notin X /\ b.fs = fs /\ IsPopped(h, o, b, g)
<1>0. h \in HeapRec /\ OneIdle(h) /\ IsFiniteSet(h.live[KERNEL]) /\ Spare(h, X)
  BY DEF HeapOK
<1>1. f \in Fragments /\ b \in Blocks /\ In(h, o, "stack", b) /\ b.fs = fs
  <2>1. f \in Fragments /\ b \in Blocks /\ In(h, o, "stack", b)
    BY <1>0, StackedIs
  <2> QED
    BY <2>1 DEF Block, Frag
<1>2. Held(h, b) /\ Marked(h, mk, o, b) /\ b \notin X /\ \A u \in Owners : ~In(h, u, "live", b)
  BY <1>1, PlacedIs, Places
<1>3. Extent(b) \subseteq h.map /\ \A u \in Owners : b \notin h.live[u]
  BY <1>0, <1>1, <1>2, HeldUsed, LiveIn
<1>4. /\ g \in HeapRec /\ g.map = h.map /\ g.info = h.info /\ g.free = h.free /\ g.live = h.live
      /\ g.frags[o][fs] = h.frags[o][fs] \ {f}
      /\ \A u \in Owners, gs \in FragLogs : u # o \/ gs # fs => g.frags[u][gs] = h.frags[u][gs]
  <2>1. h.frags[o][fs] \in SUBSET Fragments
    BY <1>0 DEF HeapRec, StackSet
  <2>2. h.frags[o][fs] \ {f} \in SUBSET Fragments
    BY <2>1
  <2>3. HasFrags(h, o, fs, h.frags[o][fs] \ {f}, g)
    BY <1>0, <2>2, FragsIs DEF Popped
  <2> QED
    BY <2>3 DEF HasFrags
<1>5. \A u \in Owners, gs \in FragLogs : g.frags[u][gs] \subseteq h.frags[u][gs]
  BY <1>4
<1>6. OneIdle(g)
  <2>1. ASSUME NEW u \in Owners, NEW gs \in FragLogs, NEW p, Frags(p, gs) \subseteq g.frags[u][gs]
        PROVE  Frags(p, gs) \subseteq h.frags[u][gs]
    BY <1>5, <2>1
  <2> QED
    BY <1>0, <2>1 DEF OneIdle
<1>7. ASSUME NEW u \in Owners, NEW s \in Place, NEW c \in Blocks, In(g, u, s, c)
      PROVE  In(h, u, s, c) /\ c \notin X /\ c # b
  <2>1. In(h, u, s, c)
    BY <1>4, <1>5, <1>7 DEF In
  <2>2. c \notin X
    BY <2>1, PlacedIs
  <2>3. ASSUME c = b PROVE FALSE
    <3>1. u = o /\ s = "stack"
      BY <1>1, <2>1, <2>3, PlacedIs, Places
    <3>2. [page |-> b.page, idx |-> b.idx] \in h.frags[o][fs] \ {f}
      BY <1>1, <1>4, <1>7, <2>3, <3>1, Places DEF In
    <3>3. [page |-> b.page, idx |-> b.idx] = f
      BY <1>1 DEF Block, Fragments
    <3> QED
      BY <3>2, <3>3
  <2> QED
    BY <2>1, <2>2, <2>3
<1>8. Moves(h, mk, X, g, o, "stack", X \cup {b})
  BY <1>0, <1>1, <1>7, Places DEF Moves, Spare
<1>9. HeapOK(g, mk, X \cup {b})
  BY <1>0, <1>4, <1>6, <1>8, Move DEF SamePages
<1>10. Marked(g, mk, o, b)
  BY <1>2, <1>4 DEF Marked
<1> QED
  BY <1>1, <1>2, <1>3, <1>4, <1>9, <1>10 DEF IsPopped, OtherFrags

AddPage(h, o, fs, p, i) == SetFrags(PagesRef(h, p, 1, fs, i), o, fs, Frags(p, fs))

\* A page of fragments for o.
LEMMA AddPageKeeps ==
  ASSUME NEW h, NEW mk, NEW X, HeapOK(h, mk, X), NEW o \in Owners, NEW fs \in FragLogs,
         NEW p \in Pages \ h.map, h.frags[o][fs] = {}, NEW i \in Nat, i % OwnerIds \in mk[o],
         NEW g, g = AddPage(h, o, fs, p, i)
  PROVE  /\ HeapOK(g, mk, X) /\ g.map = h.map \cup {p} /\ g.live = h.live /\ OtherFrags(h, g, o)
         /\ g.frags[o][fs] = Frags(p, fs)
<1>0. h \in HeapRec /\ OneIdle(h) /\ IsFiniteSet(h.live[KERNEL]) /\ Spare(h, X)
  BY DEF HeapOK
<1>1. p \in Nat /\ fs \in 0..FragSizes /\ fs # 0 /\ 2 ^ fs \in Nat \ {0, 1} /\ p..(p + 1 - 1) = {p}
  BY PagesAre, ConstFacts DEF FragLogs
<1> DEFINE Y == {b \in Blocks : b.page = p /\ b.n = 1 /\ b.fs = fs /\ b.idx \in 0..(2 ^ fs - 1)}
<1>2. PICK a : a = PagesRef(h, p, 1, fs, i)
  OBVIOUS
<1>3. Taken(h, p, 1, a) /\ HeapOK(a, mk, X \cup Y) /\ \A b \in Y : Marked(a, mk, o, b)
  <2>1. BlocksOf(p, 1, fs, Y) /\ Room(h, p, 1, fs)
    BY <1>1 DEF BlocksOf, Room
  <2>2. Taken(h, p, 1, a)
    BY <1>1, <1>2, <2>1, Take
  <2> HIDE DEF Y
  <2>3. HeapOK(a, mk, X \cup Y) /\ \A b \in Y : Marked(a, mk, o, b)
    BY <1>1, <1>2, <2>1, Take
  <2> QED
    BY <2>2, <2>3
<1>4. a \in HeapRec /\ a.frags = h.frags /\ a.live = h.live /\ a.map = h.map \cup {p}
  BY <1>1, <1>3 DEF Taken
<1>5. /\ g \in HeapRec /\ g.map = a.map /\ g.info = a.info /\ g.free = a.free /\ g.live = a.live
      /\ g.frags[o][fs] = Frags(p, fs)
      /\ \A u \in Owners, gs \in FragLogs : u # o \/ gs # fs => g.frags[u][gs] = a.frags[u][gs]
  <2>1. Frags(p, fs) \in SUBSET Fragments
    BY <1>1 DEF Frags, Fragments
  <2>2. HasFrags(a, o, fs, Frags(p, fs), g)
    BY <1>2, <1>4, <2>1, FragsIs DEF AddPage
  <2> QED
    BY <2>2 DEF HasFrags
<1>6. OneIdle(g)
  <2>1. ASSUME NEW q \in Pages, Frags(q, fs) \subseteq g.frags[o][fs] PROVE q = p
    <3>1. [page |-> q, idx |-> 0] \in Frags(q, fs)
      BY <1>1 DEF Frags
    <3>2. [page |-> q, idx |-> 0] \in Frags(p, fs)
      BY <1>5, <2>1, <3>1
    <3> QED
      BY <3>2 DEF Frags
  <2> QED
    BY <1>0, <1>4, <1>5, <2>1 DEF OneIdle
<1>7. ASSUME NEW b \in Y PROVE b \notin X
  <2>1. b.page \in Extent(b) /\ b.page \notin h.map
    BY BlockFields
  <2> QED
    BY <1>0, <2>1, HeldUsed DEF Spare
<1>8. ASSUME NEW u \in Owners, NEW s \in Place, NEW c \in Blocks, In(g, u, s, c)
      PROVE  (In(a, u, s, c) /\ c \notin X) \/ (c \in Y /\ u = o /\ s = "stack")
  <2>1. CASE In(a, u, s, c)
    BY <1>3, <2>1, PlacedIs
  <2>2. CASE ~In(a, u, s, c)
    <3>1. s = "stack" /\ c.fs \in FragLogs /\ c.n = 1 /\ [page |-> c.page, idx |-> c.idx] \in g.frags[u][c.fs]
      BY <1>5, <1>8, <2>2, Places DEF In
    <3>2. [page |-> c.page, idx |-> c.idx] \notin a.frags[u][c.fs]
      BY <2>2, <3>1, Places DEF In
    <3>3. u = o /\ c.fs = fs /\ [page |-> c.page, idx |-> c.idx] \in Frags(p, fs)
      BY <1>5, <3>1, <3>2
    <3>4. c.page = p /\ c.idx \in 0..(2 ^ fs - 1)
      BY <3>3 DEF Frags
    <3> QED
      BY <3>1, <3>3, <3>4
  <2> QED
    BY <2>1, <2>2
<1>9. Moves(a, mk, X \cup Y, g, o, "stack", X)
  <2> HIDE DEF Y
  <2> QED
    BY <1>0, <1>3, <1>7, <1>8 DEF Moves, Spare
<1>10. SamePages(a, g) /\ IsFiniteSet(g.live[KERNEL])
  BY <1>0, <1>4, <1>5 DEF SamePages
<1>11. HeapOK(g, mk, X)
  <2> HIDE DEF Y
  <2> QED
    BY <1>3, <1>6, <1>9, <1>10, Move
<1> QED
  BY <1>4, <1>5, <1>11 DEF OtherFrags

IsRequest(r) == (r = Page(r.n) /\ r.n \in Nat \ {0}) \/ (r = Frag(r.fs) /\ r.fs \in FragLogs)

\* x is heap h after o has got a block for request r.
Given(h, o, r, x) ==
  /\ x.b \in Blocks /\ x.b.fs = r.fs /\ x.b \notin h.live[o]
  /\ x.h.live[o] = h.live[o] \cup {x.b} /\ \A u \in Owners : u # o => x.h.live[u] = h.live[u]
  /\ x.h.map = h.map \cup Extent(x.b) /\ OtherFrags(h, x.h, o)

LEMMA SinglePageIs ==
  ASSUME NEW map \in SUBSET Pages
  PROVE  SinglePage(map) \in (Pages \ map) \cup {0}
<1>1. CASE Pages \ map = {}
  BY <1>1 DEF SinglePage
<1>2. CASE Pages \ map # {}
  <2>1. Pages \ map \in SUBSET (0 .. NumPages - 1) /\ NumPages - 1 \in Nat
    BY ConstFacts, PagesAre
  <2>2. Max(Pages \ map) \in Pages \ map
    BY <1>2, <2>1, MaxIs
  <2> QED
    BY <1>2, <2>2 DEF SinglePage
<1> QED
  BY <1>1, <1>2

LEMMA HandOut ==
  ASSUME NEW h, NEW mk, NEW X, HeapOK(h, mk, X), NEW o \in Owners, NEW b
  PROVE  Outcome(h, o, b) = [h |-> With(h, o, b), b |-> b]
<1>1. h.live \in [Owners -> SUBSET Blocks] /\ h \in HeapRec
  BY DEF HeapOK, HeapRec
<1>2. [h EXCEPT !.live[o] = @ \cup {b}] = With(h, o, b)
  BY <1>1 DEF With, SetLive, HeapRec
<1> QED
  BY <1>2 DEF Outcome

LEMMA FragAllocGives ==
  ASSUME NEW h, NEW mk, NEW X, HeapOK(h, mk, X), NEW o \in Owners, NEW i \in Nat, i % OwnerIds \in mk[o],
         NEW r, r = Frag(r.fs), r.fs \in FragLogs, NEW x \in FragAlloc(h, o, i, r)
  PROVE  HeapOK(x.h, mk, X) /\ Given(h, o, r, x)
<1>0. PICK fs \in FragLogs : fs = r.fs
  OBVIOUS
<1>1. PICK p : p = SinglePage(h.map)
  OBVIOUS
<1>2. PICK g : g = IF h.frags[o][fs] # {} \/ p = 0 THEN h ELSE AddPage(h, o, fs, p, i)
  OBVIOUS
<1>3. PICK f \in g.frags[o][fs] :
        x = Outcome([g EXCEPT !.frags[o][fs] = @ \ {f}], o, Block(f.page, f.idx, r))
  <2>1. FragAlloc(h, o, i, r) = {Outcome([g EXCEPT !.frags[o][fs] = @ \ {f}], o, Block(f.page, f.idx, r)) :
          f \in g.frags[o][fs]}
    BY <1>0, <1>1, <1>2, Zenon DEF FragAlloc, AddPage, SetFrags
  <2> QED
    BY <2>1
<1>4. /\ HeapOK(g, mk, X) /\ g.live = h.live /\ OtherFrags(h, g, o)
      /\ g.map = h.map \/ (g.map = h.map \cup {p} /\ g.frags[o][fs] = Frags(p, fs))
  <2>1. CASE h.frags[o][fs] # {} \/ p = 0
    BY <1>2, <2>1 DEF OtherFrags
  <2>2. CASE h.frags[o][fs] = {} /\ p # 0
    <3>1. p \in Pages \ h.map
      BY <1>1, <2>2, SinglePageIs DEF HeapOK, HeapRec
    <3>2. g = AddPage(h, o, fs, p, i)
      BY <1>2, <2>2
    <3> QED
      BY <2>2, <3>1, <3>2, AddPageKeeps
  <2> QED
    BY <2>1, <2>2
<1>5. PICK b : b = Block(f.page, f.idx, Frag(fs))
  OBVIOUS
<1>6. PICK a : a = Popped(g, o, fs, f)
  OBVIOUS
<1>7. HeapOK(a, mk, X \cup {b}) /\ Marked(a, mk, o, b) /\ b \notin X /\ b.fs = fs /\ IsPopped(g, o, b, a)
  BY <1>4, <1>5, <1>6, Pop
<1>8. x = [h |-> With(a, o, b), b |-> b]
  <2>1. g.frags \in StackSet /\ g \in HeapRec
    BY <1>4 DEF HeapOK, HeapRec
  <2>2. [g EXCEPT !.frags[o][fs] = @ \ {f}] = a
    BY <1>6, <2>1 DEF Popped, SetFrags, HeapRec, StackSet
  <2>3. Block(f.page, f.idx, r) = b
    BY <1>0, <1>5
  <2>4. x = Outcome(a, o, b)
    BY <1>3, <2>2, <2>3
  <2> QED
    BY <1>7, <2>4, HandOut
<1>9. HeapOK(x.h, mk, (X \cup {b}) \ {b}) /\ IsWith(a, o, b, x.h) /\ x.b = b
  <2>1. x.h = With(a, o, b) /\ x.b = b
    BY <1>8
  <2>2. b \in X \cup {b}
    OBVIOUS
  <2> QED
    BY <1>7, <2>1, <2>2, Hand
<1>10. (X \cup {b}) \ {b} = X
  BY <1>7
<1>11. x.h.map = h.map \cup Extent(b)
  <2>1. x.h.map = g.map /\ Extent(b) \subseteq g.map
    BY <1>7, <1>9 DEF IsPopped, IsWith
  <2>2. CASE g.map = h.map
    BY <2>1, <2>2
  <2>3. CASE g.map = h.map \cup {p} /\ g.frags[o][fs] = Frags(p, fs)
    <3>1. b.page = p
      BY <1>5, <2>3 DEF Frags, Block
    <3>2. b.page \in Extent(b)
      BY <1>7, BlockFields DEF IsPopped
    <3> QED
      BY <2>1, <2>3, <3>1, <3>2
  <2> QED
    BY <1>4, <2>2, <2>3
<1>12. HeapOK(x.h, mk, X) /\ x.b = b /\ b.fs = r.fs
  BY <1>0, <1>7, <1>9, <1>10
<1>13. b \in Blocks /\ b \notin h.live[o]
  BY <1>4, <1>7 DEF IsPopped
<1>14. x.h.live[o] = h.live[o] \cup {b} /\ \A u \in Owners : u # o => x.h.live[u] = h.live[u]
  BY <1>4, <1>7, <1>9 DEF IsPopped, IsWith
<1>15. OtherFrags(h, x.h, o)
  BY <1>4, <1>7, <1>9 DEF IsPopped, IsWith, OtherFrags
<1> QED
  BY <1>11, <1>12, <1>13, <1>14, <1>15 DEF Given

\* What pmalloc2 hands out is a new block, and nothing else changes.
LEMMA AllocGives ==
  ASSUME NEW h, NEW mk, NEW X, HeapOK(h, mk, X), NEW o \in Owners, NEW i \in Nat, i % OwnerIds \in mk[o],
         NEW r, IsRequest(r), NEW x \in Alloc(h, o, i, r)
  PROVE  HeapOK(x.h, mk, X) /\ Given(h, o, r, x)
<1>1. CASE r.fs # 0
  <2>1. r = Frag(r.fs) /\ r.fs \in FragLogs
    BY <1>1 DEF IsRequest, Page
  <2>2. x \in FragAlloc(h, o, i, r)
    BY <1>1 DEF Alloc
  <2> QED
    BY <2>1, <2>2, FragAllocGives
<1>2. CASE r.fs = 0
  <2>0. PICK n : n = r.n
    OBVIOUS
  <2>1. r = Page(n) /\ n \in Nat \ {0}
    BY <1>2, <2>0 DEF IsRequest, FragLogs
  <2>2. h \in HeapRec /\ h.map \in SUBSET Pages /\ Spare(h, X)
    BY DEF HeapOK, HeapRec
  <2>3. PICK p : p = IF n = 1 THEN SinglePage(h.map) ELSE Seek(h.map, n)
    OBVIOUS
  <2>4. PICK g : g = PagesRef(h, p, n, 0, i)
    OBVIOUS
  <2>5. PICK b : b = Block(p, 0, r)
    OBVIOUS
  <2>6. p # 0 /\ x = Outcome(g, o, b)
    BY <1>2, <2>0, <2>3, <2>4, <2>5 DEF Alloc
  <2>7. p \in Pages /\ p..(p + n - 1) \subseteq Pages \ h.map
    <3>1. CASE n = 1
      <4>1. p \in Pages \ h.map
        BY <2>2, <2>3, <2>6, <3>1, SinglePageIs
      <4>2. p \in Nat
        BY <4>1, PagesAre
      <4>3. p..(p + n - 1) = {p}
        BY <3>1, <4>2
      <4> QED
        BY <4>1, <4>3
    <3>2. CASE n # 1
      <4>1. p \in Gaps(h.map, n)
        BY <2>1, <2>2, <2>3, <2>6, <3>2, SeekIs
      <4>2. p \in Pages /\ p + n <= NumPages /\ p..(p + n - 1) \cap h.map = {}
        BY <4>1 DEF Gaps
      <4>3. p \in 0..(NumPages - 1) /\ NumPages \in Nat
        BY <4>2, PagesAre, ConstFacts
      <4>4. \A q \in p..(p + n - 1) : q \in 0..(NumPages - 1)
        BY <2>1, <4>2, <4>3
      <4> QED
        BY <4>2, <4>4, PagesAre
    <3> QED
      BY <3>1, <3>2
  <2>8. b \in Blocks /\ b.page = p /\ b.n = n /\ b.fs = 0 /\ b.idx = 0
    BY <2>1, <2>5, <2>7, ConstFacts DEF Block, Page, Blocks
  <2>9. 0 \in 0..FragSizes
    BY ConstFacts
  <2>10. Room(h, p, n, 0) /\ BlocksOf(p, n, 0, {b})
    BY <2>1, <2>7, <2>8, PagesAre DEF Room, BlocksOf
  <2>11. HeapOK(g, mk, X \cup {b}) /\ Taken(h, p, n, g) /\ Marked(g, mk, o, b)
    BY <2>4, <2>9, <2>10, Take
  <2>12. b \notin X /\ b \notin h.live[o]
    <3>1. ~Held(h, b)
      <4>1. b.page \in Extent(b) /\ Extent(b) = p..(p + n - 1)
        BY <2>8, BlockFields
      <4> QED
        BY <2>2, <2>7, <2>8, <4>1, HeldUsed
    <3>2. b \notin X
      BY <2>2, <3>1 DEF Spare
    <3>3. b \notin h.live[o]
      BY <2>8, <3>1, LiveIn, PlacedIs, Places
    <3> QED
      BY <3>2, <3>3
  <2>13. x.h = With(g, o, b) /\ x.b = b
    <3>1. x = [h |-> With(g, o, b), b |-> b]
      BY <2>6, <2>11, HandOut
    <3> QED
      BY <3>1
  <2>14. HeapOK(x.h, mk, (X \cup {b}) \ {b}) /\ IsWith(g, o, b, x.h)
    <3>1. b \in X \cup {b}
      OBVIOUS
    <3> QED
      BY <2>11, <2>13, <3>1, Hand
  <2>15. (X \cup {b}) \ {b} = X
    BY <2>12
  <2>16. Extent(b) = p..(p + n - 1)
    BY <2>8 DEF Extent
  <2> QED
    BY <1>2, <2>8, <2>11, <2>12, <2>13, <2>14, <2>15, <2>16 DEF Given, IsWith, Taken, OtherFrags
<1> QED
  BY <1>1, <1>2

\* x is what pmalloc of process o returns for q.
Tried(h, o, q, r, x) ==
  \/ x.b = NoBlock /\ Cleaned(h, o, x.h)
  \/ \E g : Cleaned(h, o, g) /\ Given(g, q, r, x)

LEMMA CleanedNone ==
  ASSUME NEW h, NEW o
  PROVE  Cleaned(h, o, h)
  BY DEF Cleaned, OtherFrags

LEMMA PmallocGives ==
  ASSUME NEW h, NEW mk, NEW X, HeapOK(h, mk, X), NEW o \in Owners, mk[KERNEL] = {0},
         NEW q \in Owners, NEW i \in Nat, i % OwnerIds \in mk[q],
         NEW r, IsRequest(r), NEW x \in Pmalloc(h, o, q, i, r)
  PROVE  HeapOK(x.h, mk, X) /\ Tried(h, o, q, r, x)
<1>1. CASE x \in Alloc(h, q, i, r)
  BY <1>1, AllocGives, CleanedNone DEF Tried
<1>2. ASSUME NEW g \in Cleanups(h, o), x \in Alloc(g, q, i, r) \/ x = [h |-> g, b |-> NoBlock]
      PROVE  HeapOK(x.h, mk, X) /\ Tried(h, o, q, r, x)
  <2>1. HeapOK(g, mk, X) /\ Cleaned(h, o, g)
    BY CleanupKeeps
  <2>2. CASE x \in Alloc(g, q, i, r)
    BY <2>1, <2>2, AllocGives DEF Tried
  <2>3. CASE x = [h |-> g, b |-> NoBlock]
    BY <2>1, <2>3 DEF Tried
  <2> QED
    BY <1>2, <2>2, <2>3
<1>3. \/ x \in Alloc(h, q, i, r)
      \/ \E g \in Cleanups(h, o) : x \in Alloc(g, q, i, r) \/ x = [h |-> g, b |-> NoBlock]
  BY DEF Pmalloc
<1> QED
  BY <1>1, <1>2, <1>3

-----------------------------------------------------------------------------
(* The allocations for a new process.                                        *)

Wanted == Stacks \o Tables \o Context

LEMMA WantedIs ==
  /\ Len(Wanted) = FragSizes + 5 /\ DOMAIN Wanted = 1..(FragSizes + 5)
  /\ \A k \in 1..(FragSizes + 5) : IsRequest(Wanted[k])
  /\ Wanted[FragSizes + 1].fs = 0 /\ Wanted[FragSizes + 2].fs # 0
<1> DEFINE R == {Page(1), Frag(TableLog), Page(StackPages)}
<1>0. FragSizes \in Nat \ {0} /\ StackPages \in Nat \ {0} /\ TableLog \in FragLogs
  BY ConstFacts
<1>1. Stacks \in Seq(R) /\ Len(Stacks) = FragSizes
  <2>1. Stacks \in [1..FragSizes -> R]
    BY DEF Stacks
  <2> HIDE DEF R
  <2>2. Stacks \in Seq(R)
    BY <1>0, <2>1, SeqDef
  <2>3. DOMAIN Stacks = 1..FragSizes
    BY <2>1
  <2> QED
    BY <1>0, <2>2, <2>3, LenProperties
<1>2. Tables \in Seq(R) /\ Len(Tables) = 3 /\ Tables[1] = Page(1) /\ Tables[2] = Frag(TableLog)
  BY DEF Tables
<1>3. Context \in Seq(R) /\ Len(Context) = 2
  BY DEF Context
<1>4. \A r \in R : IsRequest(r)
  <2>1. IsRequest(Page(1)) /\ IsRequest(Page(StackPages)) /\ IsRequest(Frag(TableLog))
    BY <1>0 DEF IsRequest, Page, Frag
  <2> QED
    BY <2>1
<1> HIDE DEF R
<1>5. PICK u \in Seq(R) : u = Stacks \o Tables
  BY <1>1, <1>2, ConcatProperties
<1>6. Len(u) = FragSizes + 3 /\ u[FragSizes + 1] = Page(1) /\ u[FragSizes + 2] = Frag(TableLog)
  <2>1. /\ Len(Stacks \o Tables) = Len(Stacks) + Len(Tables)
        /\ \A k \in 1..(Len(Stacks) + Len(Tables)) :
             (Stacks \o Tables)[k] = IF k <= Len(Stacks) THEN Stacks[k] ELSE Tables[k - Len(Stacks)]
    BY <1>1, <1>2, ConcatProperties, Zenon
  <2>2. Len(u) = FragSizes + 3
    BY <1>1, <1>2, <1>5, <2>1
  <2>3. \A k \in 1..(FragSizes + 3) : u[k] = IF k <= FragSizes THEN Stacks[k] ELSE Tables[k - FragSizes]
    BY <1>1, <1>2, <1>5, <2>1
  <2>4. ASSUME NEW k \in {1, 2}
        PROVE  u[FragSizes + k] = Tables[k]
    <3>1. PICK m : m = FragSizes + k
      OBVIOUS
    <3>2. m \in 1..(FragSizes + 3) /\ ~(m <= FragSizes) /\ m - FragSizes = k
      BY <1>0, <3>1
    <3>3. u[m] = Tables[m - FragSizes]
      BY <2>3, <3>2
    <3> QED
      BY <3>1, <3>2, <3>3
  <2>5. u[FragSizes + 1] = Tables[1] /\ u[FragSizes + 2] = Tables[2]
    BY <2>4
  <2> QED
    BY <1>2, <2>2, <2>5
<1>7. PICK w \in Seq(R) : w = u \o Context /\ w = Wanted
  BY <1>3, <1>5, ConcatProperties DEF Wanted
<1>8. Len(w) = FragSizes + 5 /\ w[FragSizes + 1] = u[FragSizes + 1] /\ w[FragSizes + 2] = u[FragSizes + 2]
  <2>1. /\ Len(u \o Context) = Len(u) + Len(Context)
        /\ \A k \in 1..(Len(u) + Len(Context)) :
             (u \o Context)[k] = IF k <= Len(u) THEN u[k] ELSE Context[k - Len(u)]
    BY <1>3, ConcatProperties, Zenon
  <2>2. /\ Len(w) = FragSizes + 3 + 2
        /\ \A k \in 1..(FragSizes + 3 + 2) : k <= FragSizes + 3 => w[k] = u[k]
    BY <1>3, <1>6, <1>7, <2>1
  <2> QED
    BY <1>0, <2>2
<1>9. DOMAIN w = 1..(FragSizes + 5) /\ \A k \in 1..(FragSizes + 5) : w[k] \in R
  BY <1>7, <1>8, LenProperties, ElementOfSeq
<1>10. Page(1).fs = 0 /\ Frag(TableLog).fs # 0
  BY <1>0 DEF Page, Frag, FragLogs
<1> QED
  BY <1>4, <1>6, <1>7, <1>8, <1>9, <1>10

\* x is heap h after some of the allocations of o for q.
Started(h, o, q, mk, X, x) ==
  /\ HeapOK(x.h, mk, X) /\ x.got \in Seq(Blocks \cup {NoBlock})
  /\ \A k \in 1..Len(x.got) : /\ x.got[k] # NoBlock => x.got[k] \in x.h.live[q]
                              /\ k # Len(x.got) => x.got[k] # NoBlock
  /\ x.h.live[KERNEL] \subseteq h.live[KERNEL]
  /\ \A u \in Owners \ {KERNEL, q} : x.h.live[u] = h.live[u]
  /\ \A u \in Owners \ {o, q}, gs \in FragLogs : x.h.frags[u][gs] = h.frags[u][gs]

Outcomes == [h : HeapRec, got : Seq(Blocks \cup {NoBlock})]

\* y follows x by one allocation of o for q.
After(x, o, q, i, r, y) ==
  \/ NoBlock \in Range(x.got) /\ y = x
  \/ /\ NoBlock \notin Range(x.got)
     /\ \E p \in Pmalloc(x.h, o, q, i, r) : y = [h |-> p.h, got |-> Append(x.got, p.b)]

LEMMA GrabIs ==
  ASSUME NEW S, NEW o, NEW q, NEW i, NEW r, NEW y \in Grab(S, o, q, i, r)
  PROVE  \E x \in S : After(x, o, q, i, r, y)
  BY DEF Grab, After

LEMMA NoBlockIs == NoBlock \notin Blocks
<1>1. NoBlock.n = 0
  BY DEF NoBlock, Block, Page
<1> QED
  BY <1>1, BlockFields

Grows(x, o, q, p) ==
  /\ x.h.live[q] \subseteq p.h.live[q] /\ p.h.live[KERNEL] \subseteq x.h.live[KERNEL]
  /\ \A u \in Owners \ {KERNEL, q} : p.h.live[u] = x.h.live[u]
  /\ \A u \in Owners \ {o, q}, gs \in FragLogs : p.h.frags[u][gs] = x.h.frags[u][gs]
  /\ p.b = NoBlock \/ (p.b \in Blocks /\ p.b \in p.h.live[q])

LEMMA AfterKeeps ==
  ASSUME NEW h, NEW mk, NEW X, NEW o \in Owners, NEW q \in Owners \ {KERNEL}, mk[KERNEL] = {0},
         NEW i \in Nat, i % OwnerIds \in mk[q], NEW r, IsRequest(r),
         NEW x, Started(h, o, q, mk, X, x), NEW y, After(x, o, q, i, r, y), x \in Outcomes
  PROVE  Started(h, o, q, mk, X, y) /\ y \in Outcomes
<1>1. CASE y = x
  BY <1>1
<1>2. ASSUME NEW p \in Pmalloc(x.h, o, q, i, r), y = [h |-> p.h, got |-> Append(x.got, p.b)],
             NoBlock \notin Range(x.got)
      PROVE  Started(h, o, q, mk, X, y) /\ y \in Outcomes
  <2>0. HeapOK(x.h, mk, X) /\ x.got \in Seq(Blocks \cup {NoBlock}) /\ KERNEL \in Owners
    BY DEF Started, Owners
  <2>1. HeapOK(p.h, mk, X) /\ Tried(x.h, o, q, r, p)
    BY <2>0, PmallocGives
  <2>2. y.h = p.h /\ y.got = Append(x.got, p.b)
    BY <1>2
  <2>a. Grows(x, o, q, p)
    <3>1. CASE p.b = NoBlock /\ Cleaned(x.h, o, p.h)
      BY <3>1 DEF Cleaned, OtherFrags, Grows
    <3>2. ASSUME NEW g, Cleaned(x.h, o, g), Given(g, q, r, p)
          PROVE  Grows(x, o, q, p)
      <4>1. x.h.live[q] \subseteq p.h.live[q] /\ p.h.live[KERNEL] \subseteq x.h.live[KERNEL]
        BY <2>0, <3>2 DEF Cleaned, Given
      <4>2. \A u \in Owners \ {KERNEL, q} : p.h.live[u] = x.h.live[u]
        BY <3>2 DEF Cleaned, Given
      <4>3. \A u \in Owners \ {o, q}, gs \in FragLogs : p.h.frags[u][gs] = x.h.frags[u][gs]
        BY <3>2 DEF Cleaned, Given, OtherFrags
      <4>4. p.b \in Blocks /\ p.b \in p.h.live[q]
        BY <3>2 DEF Given
      <4> QED
        BY <4>1, <4>2, <4>3, <4>4 DEF Grows
    <3> QED
      BY <2>1, <3>1, <3>2 DEF Tried
  <2>3. /\ x.h.live[q] \subseteq p.h.live[q] /\ p.h.live[KERNEL] \subseteq x.h.live[KERNEL]
        /\ \A u \in Owners \ {KERNEL, q} : p.h.live[u] = x.h.live[u]
        /\ \A u \in Owners \ {o, q}, gs \in FragLogs : p.h.frags[u][gs] = x.h.frags[u][gs]
        /\ p.b = NoBlock \/ (p.b \in Blocks /\ p.b \in p.h.live[q])
    BY <2>a DEF Grows
  <2>4. /\ y.got \in Seq(Blocks \cup {NoBlock}) /\ Len(y.got) = Len(x.got) + 1 /\ Len(x.got) \in Nat
        /\ y.got[Len(x.got) + 1] = p.b /\ \A k \in 1..Len(x.got) : y.got[k] = x.got[k]
    <3>1. p.b \in Blocks \cup {NoBlock}
      BY <2>3
    <3> QED
      BY <2>0, <2>2, <3>1, AppendProperties, LenProperties
  <2>5. \A k \in 1..Len(x.got) : x.got[k] # NoBlock /\ x.got[k] \in x.h.live[q]
    <3>1. \A k \in 1..Len(x.got) : x.got[k] \in Range(x.got)
      BY <2>0, LenProperties DEF Range
    <3> QED
      BY <1>2, <3>1 DEF Started
  <2>6. ASSUME NEW k \in 1..Len(y.got)
        PROVE  /\ y.got[k] # NoBlock => y.got[k] \in y.h.live[q]
               /\ k # Len(y.got) => y.got[k] # NoBlock
    <3>1. k \in 1..Len(x.got) \/ k = Len(x.got) + 1
      BY <2>4
    <3> QED
      BY <2>2, <2>3, <2>4, <2>5, <3>1
  <2>7. y \in Outcomes
    BY <1>2, <2>1, <2>2, <2>4 DEF Outcomes, HeapOK
  <2>8. /\ y.h.live[KERNEL] \subseteq h.live[KERNEL]
        /\ \A u \in Owners \ {KERNEL, q} : y.h.live[u] = h.live[u]
        /\ \A u \in Owners \ {o, q}, gs \in FragLogs : y.h.frags[u][gs] = h.frags[u][gs]
    BY <2>2, <2>3 DEF Started
  <2> QED
    BY <2>1, <2>2, <2>4, <2>6, <2>7, <2>8 DEF Started
<1> QED
  BY <1>1, <1>2 DEF After

\* f has the heaps after each of the allocations.
Firsts(h, o, q, i, f) ==
  /\ Starts(h, o, q, i) = f[1..(FragSizes + 5)]
  /\ \A s \in SUBSET (1..(FragSizes + 5)) :
       f[s] = IF s = {} THEN {[h |-> h, got |-> <<>>]}
              ELSE Grab(f[s \ {Max(s)}], o, q, i, Wanted[Max(s)])

LEMMA StartsFold ==
  ASSUME NEW h, NEW mk, NEW X, HeapOK(h, mk, X), NEW o \in Owners, NEW q \in Owners \ {KERNEL}, mk[KERNEL] = {0},
         NEW i \in Nat, i % OwnerIds \in mk[q], \A fs \in FragLogs : h.frags[q][fs] = {}
  PROVE  \E f : Firsts(h, o, q, i, f)
<1> DEFINE first == {[h |-> [h EXCEPT !.frags[q] = [fs \in FragLogs |-> {}]], got |-> <<>>]}
           R == Stacks \o Tables \o Context
           Is(f) == f = [s \in SUBSET DOMAIN R |-> IF s = {} THEN first
                           ELSE Grab(f[s \ {Max(s)}], o, q, i, R[Max(s)])]
           it == CHOOSE f : Is(f)
           D == 1..(FragSizes + 5)
           V == SUBSET {x \in Outcomes : Started(h, o, q, mk, X, x)}
<1>1. Starts(h, o, q, i) = it[DOMAIN R]
  BY DEF Starts, FoldLeft, MapThenFoldSet
<1>2. R = Wanted /\ DOMAIN R = D
  BY WantedIs DEF Wanted
<1>3. first = {[h |-> h, got |-> <<>>]}
  <2>1. h \in HeapRec /\ h.frags \in [Owners -> [FragLogs -> SUBSET Fragments]]
    BY DEF HeapOK, HeapRec, StackSet
  <2>2. h.frags[q] = [fs \in FragLogs |-> {}]
    BY <2>1
  <2>3. [h EXCEPT !.frags[q] = [fs \in FragLogs |-> {}]] = h
    BY <2>1, <2>2 DEF HeapRec
  <2> QED
    BY <2>3
<1>4. first \in V
  <2>1. PICK x : x = [h |-> h, got |-> <<>>]
    OBVIOUS
  <2>2. x.h = h /\ x.got = <<>> /\ x.got \in Seq(Blocks \cup {NoBlock}) /\ Len(x.got) = 0
    BY <2>1
  <2>3. x \in Outcomes
    BY <2>1, <2>2 DEF Outcomes, HeapOK
  <2>4. Started(h, o, q, mk, X, x)
    BY <2>2 DEF Started
  <2> QED
    BY <1>3, <2>1, <2>3, <2>4
<1>5. \A s \in SUBSET D : s # {} => Max(s) \in s
  <2>1. D \in SUBSET (0 .. FragSizes + 5) /\ FragSizes + 5 \in Nat
    BY ConstFacts
  <2> QED
    BY <2>1, MaxIs
<1>6. ASSUME NEW k \in D, NEW Y \in V
      PROVE  Grab(Y, o, q, i, Wanted[k]) \in V
  <2> SUFFICES ASSUME NEW y \in Grab(Y, o, q, i, Wanted[k])
               PROVE  y \in Outcomes /\ Started(h, o, q, mk, X, y)
    OBVIOUS
  <2>1. PICK x \in Y : After(x, o, q, i, Wanted[k], y)
    BY GrabIs
  <2>2. IsRequest(Wanted[k])
    BY WantedIs
  <2> QED
    BY <2>1, <2>2, AfterKeeps
<1>7. PICK ch : ch = [s \in SUBSET D |-> Max(s)]
  OBVIOUS
<1>8. PICK F : F = [k \in D |-> [Y \in V |-> Grab(Y, o, q, i, Wanted[k])]]
  OBVIOUS
<1>9. \E f : Is(f)
  <2>1. F \in [D -> [V -> V]]
    BY <1>6, <1>8
  <2>2. IsFiniteSet(D)
    BY ConstFacts, FS_Interval
  <2>3. \A s \in SUBSET D : ch[s] = Max(s) /\ (s # {} => ch[s] \in s)
    BY <1>5, <1>7
  <2> HIDE DEF V, D, first
  <2>4. Folding(D, V, first, ch, F)
    BY <1>4, <2>1, <2>2, <2>3 DEF Folding
  <2>5. PICK f : IsFold(f, D, V, first, ch, F)
    BY <2>4, FoldExists
  <2>6. f \in [SUBSET D -> V] /\ \A s \in SUBSET D : f[s] = IF s = {} THEN first ELSE F[ch[s]][f[s \ {ch[s]}]]
    BY <2>5 DEF IsFold
  <2>7. ASSUME NEW s \in SUBSET D, s # {}
        PROVE  F[ch[s]][f[s \ {ch[s]}]] = Grab(f[s \ {Max(s)}], o, q, i, Wanted[Max(s)])
    <3>1. ch[s] \in D /\ ch[s] = Max(s) /\ s \ {ch[s]} \in SUBSET D
      BY <2>3, <2>7
    <3>2. f[s \ {ch[s]}] \in V
      BY <2>6, <3>1
    <3> QED
      BY <1>8, <3>1, <3>2
  <2>a. \A s \in SUBSET D : f[s] = IF s = {} THEN first ELSE Grab(f[s \ {Max(s)}], o, q, i, Wanted[Max(s)])
    BY <2>6, <2>7
  <2>8. f = [s \in SUBSET D |-> IF s = {} THEN first ELSE Grab(f[s \ {Max(s)}], o, q, i, Wanted[Max(s)])]
    BY <2>6, <2>a, Zenon
  <2>9. Is(f)
    <3> HIDE DEF R
    <3> QED
      BY <1>2, <2>8
  <2> QED
    BY <2>9, Zenon
<1>10. Is(it)
  <2> HIDE DEF Is
  <2> QED
    BY <1>9, Zenon
<1>11. ASSUME NEW s \in SUBSET D
       PROVE  it[s] = IF s = {} THEN first ELSE Grab(it[s \ {Max(s)}], o, q, i, Wanted[Max(s)])
  <2> HIDE DEF R, it, first, D
  <2> QED
    BY <1>2, <1>10
<1> HIDE DEF it, first, R
<1>12. Starts(h, o, q, i) = it[1..(FragSizes + 5)]
  BY <1>1, <1>2
<1>13. Firsts(h, o, q, i, it)
  BY <1>3, <1>11, <1>12 DEF Firsts
<1> QED
  BY <1>13

\* What the blocks of x are, if the n-th allocation was the last one to be tried.
Sized(x, n) ==
  /\ NoBlock \notin Range(x.got) => Len(x.got) = n
  /\ \A k \in 1..Len(x.got) : x.got[k] # NoBlock => x.got[k].fs = Wanted[k].fs

LEMMA AfterSized ==
  ASSUME NEW h, NEW mk, NEW X, NEW o \in Owners, NEW q \in Owners \ {KERNEL}, mk[KERNEL] = {0},
         NEW i \in Nat, i % OwnerIds \in mk[q], NEW n \in Nat, IsRequest(Wanted[n + 1]),
         NEW x, Started(h, o, q, mk, X, x), Sized(x, n), NEW y, After(x, o, q, i, Wanted[n + 1], y)
  PROVE  Sized(y, n + 1)
<1>1. CASE NoBlock \in Range(x.got) /\ y = x
  BY <1>1 DEF Sized
<1>2. ASSUME NEW p \in Pmalloc(x.h, o, q, i, Wanted[n + 1]), y = [h |-> p.h, got |-> Append(x.got, p.b)],
             NoBlock \notin Range(x.got)
      PROVE  Sized(y, n + 1)
  <2>0. HeapOK(x.h, mk, X) /\ x.got \in Seq(Blocks \cup {NoBlock}) /\ Len(x.got) = n
    BY <1>2 DEF Started, Sized
  <2>1. p.b = NoBlock \/ (p.b \in Blocks /\ p.b.fs = Wanted[n + 1].fs)
    <3>1. Tried(x.h, o, q, Wanted[n + 1], p)
      BY <2>0, PmallocGives
    <3> QED
      BY <3>1 DEF Tried, Given
  <2>2. y.got = Append(x.got, p.b) /\ p.b \in Blocks \cup {NoBlock}
    BY <1>2, <2>1
  <2>3. /\ Len(y.got) = n + 1 /\ y.got[n + 1] = p.b /\ \A k \in 1..n : y.got[k] = x.got[k]
    BY <2>0, <2>2, AppendProperties
  <2>4. ASSUME NEW k \in 1..(n + 1), y.got[k] # NoBlock PROVE y.got[k].fs = Wanted[k].fs
    <3>1. k \in 1..n \/ k = n + 1
      OBVIOUS
    <3> QED
      BY <2>0, <2>1, <2>3, <2>4, <3>1 DEF Sized
  <2> QED
    BY <2>3, <2>4 DEF Sized
<1> QED
  BY <1>1, <1>2 DEF After

LEMMA StartsGive ==
  ASSUME NEW h, NEW mk, NEW X, HeapOK(h, mk, X), NEW o \in Owners, NEW q \in Owners \ {KERNEL}, mk[KERNEL] = {0},
         NEW i \in Nat, i % OwnerIds \in mk[q], \A fs \in FragLogs : h.frags[q][fs] = {},
         NEW x \in Starts(h, o, q, i)
  PROVE  Started(h, o, q, mk, X, x) /\ Sized(x, FragSizes + 5)
<1> DEFINE N == FragSizes + 5
<1>0. N \in Nat
  BY ConstFacts
<1>1. PICK f : Firsts(h, o, q, i, f)
  BY StartsFold
<1>2. /\ Starts(h, o, q, i) = f[1..N]
      /\ \A s \in SUBSET (1..N) : f[s] = IF s = {} THEN {[h |-> h, got |-> <<>>]}
                                         ELSE Grab(f[s \ {Max(s)}], o, q, i, Wanted[Max(s)])
  BY <1>1 DEF Firsts
<1> DEFINE Good(n) == \A y \in f[1..n] : Started(h, o, q, mk, X, y) /\ Sized(y, n) /\ y \in Outcomes
<1>3. Good(0)
  <2>1. PICK y : y = [h |-> h, got |-> <<>>]
    OBVIOUS
  <2>2. f[1..0] = {y}
    <3>1. 1..0 = {}
      OBVIOUS
    <3> QED
      BY <1>2, <2>1, <3>1
  <2>3. y.h = h /\ y.got = <<>> /\ y.got \in Seq(Blocks \cup {NoBlock}) /\ Len(y.got) = 0
    BY <2>1
  <2>4. y \in Outcomes
    BY <2>1, <2>3 DEF Outcomes, HeapOK
  <2>5. Started(h, o, q, mk, X, y) /\ Sized(y, 0)
    BY <2>3 DEF Started, Sized
  <2> QED
    BY <2>2, <2>4, <2>5
<1>4. ASSUME NEW n \in Nat, n < N, Good(n)
      PROVE  Good(n + 1)
  <2>0. n \in Nat /\ n < N
    BY <1>4
  <2>1. 1..(n + 1) \in SUBSET (1..N) /\ 1..(n + 1) # {} /\ n + 1 \in 1..N
    <3> HIDE DEF N, Good
    <3>1. \A k \in 1..(n + 1) : k \in 1..N
      BY <1>0, <2>0
    <3>2. n + 1 \in 1..N /\ n + 1 \in 1..(n + 1)
      BY <1>0, <2>0
    <3> QED
      BY <3>1, <3>2
  <2>2. Max(1..(n + 1)) = n + 1
    <3>1. PICK m : m = Max(1..(n + 1))
      OBVIOUS
    <3>2. 1..(n + 1) \in SUBSET (0 .. n + 1) /\ n + 1 \in Nat /\ n + 1 \in 1..(n + 1)
      OBVIOUS
    <3>3. m \in 1..(n + 1) /\ \A k \in 1..(n + 1) : k <= m
      BY <2>1, <3>1, <3>2, MaxIs
    <3>4. n + 1 <= m
      BY <3>2, <3>3
    <3> QED
      BY <3>1, <3>3, <3>4
  <2>3. 1..(n + 1) \ {n + 1} = 1..n
    OBVIOUS
  <2>4. f[1..(n + 1)] = Grab(f[1..n], o, q, i, Wanted[n + 1])
    <3>1. PICK s \in SUBSET (1..N) : s = 1..(n + 1)
      BY <2>1
    <3>2. f[s] = Grab(f[s \ {Max(s)}], o, q, i, Wanted[Max(s)])
      BY <1>2, <2>1, <3>1
    <3> QED
      BY <2>2, <2>3, <3>1, <3>2
  <2>5. IsRequest(Wanted[n + 1])
    BY <2>1, WantedIs
  <2> SUFFICES ASSUME NEW y \in f[1..(n + 1)]
               PROVE  Started(h, o, q, mk, X, y) /\ Sized(y, n + 1) /\ y \in Outcomes
    OBVIOUS
  <2>6. PICK x0 \in f[1..n] : After(x0, o, q, i, Wanted[n + 1], y)
    BY <2>4, GrabIs
  <2>7. Started(h, o, q, mk, X, x0) /\ Sized(x0, n) /\ x0 \in Outcomes
    BY <1>4, <2>6
  <2>8. Started(h, o, q, mk, X, y) /\ y \in Outcomes
    BY <2>5, <2>6, <2>7, AfterKeeps
  <2>9. Sized(y, n + 1)
    BY <2>5, <2>6, <2>7, AfterSized
  <2> QED
    BY <2>8, <2>9
<1>5. Good(N)
  <2> HIDE DEF Good, N
  <2> SUFFICES ASSUME ~Good(N) PROVE FALSE
    OBVIOUS
  <2> DEFINE T == {n \in 0 .. N : ~Good(n)}
  <2>1. T \in SUBSET Nat /\ N \in T
    BY <1>0
  <2>2. PICK m \in T : \A k \in T : m <= k
    BY <2>1, NatLeast
  <2>3. m # 0 /\ m \in 0 .. N
    BY <1>3, <2>2
  <2>4. m - 1 \in 0 .. N /\ m - 1 \in Nat /\ m - 1 < N /\ m - 1 + 1 = m
    BY <1>0, <2>3
  <2>5. Good(m - 1)
    <3> SUFFICES ASSUME ~Good(m - 1) PROVE FALSE
      OBVIOUS
    <3>1. m - 1 \in T
      BY <2>4
    <3> QED
      BY <2>2, <2>3, <3>1
  <2>6. Good(m - 1 + 1)
    BY <1>4, <2>4, <2>5
  <2> QED
    BY <2>2, <2>4, <2>6
<1> QED
  BY <1>2, <1>5

-----------------------------------------------------------------------------
(* The blocks of a process that ends.                                        *)

Nothing(h, o) == h.live[o] = {} /\ \A fs \in FragLogs : h.frags[o][fs] = {}

\* Who has nothing may get any other number.
LEMMA Remark ==
  ASSUME NEW h, NEW mk, NEW X, HeapOK(h, mk, X),
         NEW nk, \A o \in Owners : mk[o] \subseteq nk[o] \/ Nothing(h, o)
  PROVE  HeapOK(h, nk, X)
<1>1. ASSUME NEW o \in Owners, NEW s \in Place, NEW b \in Blocks, In(h, o, s, b)
      PROVE  Marked(h, nk, o, b)
  <2>1. ~Nothing(h, o)
    BY <1>1, Places DEF In, Nothing
  <2>2. Marked(h, mk, o, b) /\ mk[o] \subseteq nk[o]
    BY <1>1, <2>1, PlacedIs
  <2> QED
    BY <2>2 DEF Marked
<1>2. PiecesOK(h, nk)
  BY <1>1 DEF HeapOK, PiecesOK
<1> QED
  BY <1>2 DEF HeapOK

Emptied(h, q) == [h EXCEPT !.live[q] = {}, !.frags[q] = [fs \in FragLogs |-> {}]]

IsEmptied(h, q, a) ==
  /\ a \in HeapRec /\ a.map = h.map /\ a.info = h.info /\ a.free = h.free /\ Nothing(a, q)
  /\ \A u \in Owners : u # q => a.live[u] = h.live[u]
  /\ OtherFrags(h, a, q)

LEMMA EmptiedIs ==
  ASSUME NEW h \in HeapRec, NEW q \in Owners, NEW a, a = Emptied(h, q)
  PROVE  /\ IsEmptied(h, q, a)
         /\ a = [map |-> h.map, info |-> h.info, free |-> h.free,
                 frags |-> [h.frags EXCEPT ![q] = [fs \in FragLogs |-> {}]], live |-> [h.live EXCEPT ![q] = {}]]
<1>0. h.frags \in [Owners -> [FragLogs -> SUBSET Fragments]] /\ h.live \in [Owners -> SUBSET Blocks]
  BY DEF HeapRec, StackSet
<1>1. PICK e : e = [fs \in FragLogs |-> {}]
  OBVIOUS
<1>2. e \in [FragLogs -> SUBSET Fragments] /\ \A fs \in FragLogs : e[fs] = {}
  BY <1>1
<1>3. PICK t : t = [h.frags EXCEPT ![q] = e]
  OBVIOUS
<1>4. t \in StackSet /\ t[q] = e /\ \A u \in Owners : u # q => t[u] = h.frags[u]
  BY <1>0, <1>2, <1>3 DEF StackSet
<1>5. PICK l : l = [h.live EXCEPT ![q] = {}]
  OBVIOUS
<1>6. l \in [Owners -> SUBSET Blocks] /\ l[q] = {} /\ \A u \in Owners : u # q => l[u] = h.live[u]
  BY <1>0, <1>5
<1>7. a = [map |-> h.map, info |-> h.info, free |-> h.free, frags |-> t, live |-> l]
  BY <1>1, <1>3, <1>5 DEF Emptied, HeapRec
<1>8. a.map = h.map /\ a.info = h.info /\ a.free = h.free /\ a.frags = t /\ a.live = l
  BY <1>7
<1>9. a \in HeapRec
  BY <1>4, <1>6, <1>7 DEF HeapRec
<1>10. IsEmptied(h, q, a)
  BY <1>2, <1>4, <1>6, <1>8, <1>9 DEF IsEmptied, Nothing, OtherFrags
<1> QED
  BY <1>1, <1>3, <1>5, <1>7, <1>10

\* All that was handed out to q is spare, and its stacks are lost.
LEMMA EmptiedKeeps ==
  ASSUME NEW h, NEW mk, HeapOK(h, mk, {}), NEW q \in Owners \ {KERNEL}, NEW a, IsEmptied(h, q, a)
  PROVE  HeapOK(a, mk, h.live[q])
<1>0. h \in HeapRec /\ OneIdle(h) /\ IsFiniteSet(h.live[KERNEL]) /\ KERNEL \in Owners
  BY DEF HeapOK, Owners
<1>1. h.live[q] \in SUBSET Blocks
  BY <1>0, LiveBlocks
<1>2. \A u \in Owners, gs \in FragLogs : a.frags[u][gs] \subseteq h.frags[u][gs]
  BY DEF IsEmptied, OtherFrags, Nothing
<1>3. OneIdle(a)
  <2>1. ASSUME NEW u \in Owners, NEW gs \in FragLogs, NEW p, Frags(p, gs) \subseteq a.frags[u][gs]
        PROVE  Frags(p, gs) \subseteq h.frags[u][gs]
    BY <1>2, <2>1
  <2> QED
    BY <1>0, <2>1 DEF OneIdle
<1>4. ASSUME NEW u \in Owners, NEW s \in Place, NEW c \in Blocks, In(a, u, s, c)
      PROVE  In(h, u, s, c) /\ u # q /\ c \notin h.live[q]
  <2>1. u # q
    BY <1>4, Places DEF In, IsEmptied, Nothing
  <2>2. In(h, u, s, c)
    BY <1>2, <1>4, <2>1, Places DEF In, IsEmptied
  <2>3. c \notin h.live[q]
    BY <2>1, <2>2, PlacedIs, Places, LiveIn
  <2> QED
    BY <2>1, <2>2, <2>3
<1>5. Moves(h, mk, {}, a, q, "live", h.live[q])
  BY <1>1, <1>4, LiveIn, Places DEF Moves
<1>6. SamePages(h, a) /\ IsFiniteSet(a.live[KERNEL])
  BY <1>0 DEF SamePages, IsEmptied
<1> QED
  BY <1>3, <1>5, <1>6, Move

\* Heap g after process q with number i has lost all it had.
Killed(h, q, i, g) ==
  /\ Nothing(g, q) /\ g.map \subseteq h.map /\ OtherFrags(h, g, q)
  /\ \A u \in Owners : u # q => g.live[u] = h.live[u]

LEMMA KillPagesKeeps ==
  ASSUME NEW h, NEW mk, HeapOK(h, mk, {}), NEW q \in Owners \ {KERNEL}, NEW i \in Nat \ {0},
         \A o \in Owners : o # q => i \notin mk[o],
         NEW g, g = KillPages(h, q, i)
  PROVE  /\ HeapOK(g, mk, {}) /\ Killed(h, q, i, g)
         /\ mk[q] = {i} => \A b \in h.live[q] : b.fs = 0 => Extent(b) \cap g.map = {}
<1>0. h \in HeapRec /\ TableOK(h)
  BY DEF HeapOK
<1>1. PICK P : P = {p \in h.map : ~Locked(h, p) /\ h.info[p].proc = i}
  OBVIOUS
<1>2. PICK a : a = Emptied(h, q)
  OBVIOUS
<1>3. HeapOK(a, mk, h.live[q]) /\ IsEmptied(h, q, a)
  BY <1>0, <1>2, EmptiedIs, EmptiedKeeps
<1>4. a \in HeapRec /\ a.map = h.map /\ a.info = h.info /\ a.free = h.free /\ Nothing(a, q) /\ TableOK(a)
  BY <1>3 DEF IsEmptied, HeapOK
<1>5. P \subseteq Pages /\ P \in SUBSET a.map
  BY <1>0, <1>1, <1>4 DEF HeapRec
<1>6. g = PagesFree(a, P)
  <2>1. PICK c : c = PagesFree(h, P)
    OBVIOUS
  <2>2. g = [c EXCEPT !.live[q] = {}, !.frags[q] = [fs \in FragLogs |-> {}]]
    BY <1>1, <2>1 DEF KillPages
  <2>3. /\ c = [map |-> h.map \ P, info |-> FreeInfos(h, P), free |-> h.free + Cardinality(P),
                frags |-> h.frags, live |-> h.live]
        /\ c \in HeapRec
    BY <1>0, <1>5, <2>1, FreeShape, FreeIs
  <2>4. g = [map |-> c.map, info |-> c.info, free |-> c.free,
             frags |-> [c.frags EXCEPT ![q] = [fs \in FragLogs |-> {}]], live |-> [c.live EXCEPT ![q] = {}]]
    BY <2>2, <2>3, EmptiedIs DEF Emptied
  <2>5. a = [map |-> h.map, info |-> h.info, free |-> h.free,
             frags |-> [h.frags EXCEPT ![q] = [fs \in FragLogs |-> {}]], live |-> [h.live EXCEPT ![q] = {}]]
    BY <1>0, <1>2, EmptiedIs
  <2>6. PagesFree(a, P) = [map |-> a.map \ P, info |-> FreeInfos(a, P), free |-> a.free + Cardinality(P),
                           frags |-> a.frags, live |-> a.live]
    BY <1>4, FreeShape
  <2>7. FreeInfos(a, P) = FreeInfos(h, P)
    BY <1>4 DEF FreeInfos
  <2>8. /\ c.map = h.map \ P /\ c.info = FreeInfos(h, P) /\ c.free = h.free + Cardinality(P)
        /\ c.frags = h.frags /\ c.live = h.live
    BY <2>3
  <2>9. /\ a.frags = [h.frags EXCEPT ![q] = [fs \in FragLogs |-> {}]]
        /\ a.live = [h.live EXCEPT ![q] = {}]
    BY <2>5
  <2>10. a.map \ P = c.map /\ a.free + Cardinality(P) = c.free
    BY <1>4, <2>8
  <2> QED
    BY <2>4, <2>6, <2>7, <2>8, <2>9, <2>10, Zenon
<1>7. Whole(a, P)
  <2>1. P \cap Fixed = {}
    BY <1>0, <1>1 DEF TableOK, Locked
  <2>2. ASSUME NEW p \in Pages \ Fixed, a.info[p].cont
        PROVE  p \in P <=> p + 1 \in P
    <3>1. /\ p \in h.map /\ h.info[p].fs = 0 /\ p + 1 \in h.map
          /\ h.info[p + 1].fs = 0 /\ h.info[p + 1].proc = h.info[p].proc
      BY <1>0, <1>4, <2>2 DEF TableOK
    <3> QED
      BY <1>1, <3>1 DEF Locked
  <2> QED
    BY <2>1, <2>2 DEF Whole
<1>8. ASSUME NEW o \in Owners, NEW s \in Place, NEW b \in Blocks, In(a, o, s, b)
      PROVE  Extent(b) \cap P = {}
  <2>1. o # q
    BY <1>4, <1>8, Places DEF In, Nothing
  <2>2. Marked(a, mk, o, b)
    BY <1>3, <1>8, PlacedIs
  <2>3. i \notin mk[o] \cup {0}
    BY <2>1
  <2>4. \A p \in Extent(b) : a.info[p].proc # i
    BY <2>2, <2>3 DEF Marked
  <2> QED
    BY <1>1, <1>4, <2>4
<1>9. HeapOK(g, mk, {})
  <2>1. {} \in SUBSET h.live[q]
    OBVIOUS
  <2> QED
    BY <1>3, <1>5, <1>6, <1>7, <1>8, <2>1, Give
<1>10. g.frags = a.frags /\ g.live = a.live /\ g.map = a.map \ P
  BY <1>4, <1>5, <1>6, FreeIs
<1>11. Killed(h, q, i, g)
  BY <1>3, <1>10 DEF Killed, IsEmptied, Nothing, OtherFrags
<1>12. ASSUME mk[q] = {i}, NEW b \in h.live[q], b.fs = 0
       PROVE  Extent(b) \cap g.map = {}
  <2>1. b \in Blocks /\ In(h, q, "live", b)
    BY <1>0, LiveBlocks, LiveIn
  <2>2. Held(h, b) /\ Marked(h, mk, q, b)
    BY <2>1, PlacedIs, Places
  <2>3. Extent(b) \subseteq h.map /\ \A p \in Extent(b) : h.info[p].fs = 0 /\ h.info[p].proc = i
    BY <1>0, <1>12, <2>1, <2>2, HeldUsed DEF Marked
  <2>4. Extent(b) \subseteq P
    BY <1>1, <2>3 DEF Locked
  <2> QED
    BY <1>10, <2>4
<1> QED
  BY <1>9, <1>11, <1>12

\* What q had is nobody's.
LEMMA ForsakenKeeps ==
  ASSUME NEW h, NEW mk, HeapOK(h, mk, {}), NEW q \in Owners \ {KERNEL, NOBODY},
         NEW nk, \A o \in Owners : o # q => mk[o] \subseteq nk[o], mk[q] \subseteq nk[NOBODY],
         NEW g, g = Forsaken(h, q)
  PROVE  /\ HeapOK(g, nk, {}) /\ Nothing(g, q) /\ OtherFrags(h, g, q)
         /\ g.live[NOBODY] = h.live[NOBODY] \cup h.live[q]
         /\ \A u \in Owners : u # q /\ u # NOBODY => g.live[u] = h.live[u]
<1>0. h \in HeapRec /\ NOBODY \in Owners /\ KERNEL \in Owners /\ KERNEL # NOBODY /\ IsFiniteSet(h.live[KERNEL])
  BY ConstFacts DEF HeapOK, Owners
<1>1. PICK a : a = Emptied(h, q)
  OBVIOUS
<1>2. IsEmptied(h, q, a) /\ HeapOK(a, mk, h.live[q])
  BY <1>0, <1>1, EmptiedIs, EmptiedKeeps
<1>3. HeapOK(a, nk, h.live[q])
  <2>1. \A o \in Owners : mk[o] \subseteq nk[o] \/ Nothing(a, o)
    BY <1>2 DEF IsEmptied
  <2> QED
    BY <1>2, <2>1, Remark
<1>4. a \in HeapRec /\ Nothing(a, q) /\ a.live[NOBODY] = h.live[NOBODY] /\ OneIdle(a)
  BY <1>0, <1>2 DEF IsEmptied, HeapOK
<1>5. PICK T \in SUBSET Blocks : T = h.live[NOBODY] \cup h.live[q]
  BY <1>0, LiveBlocks
<1>6. g = SetLive(a, NOBODY, T)
  <2>1. /\ h.live \in [Owners -> SUBSET Blocks] /\ h.frags \in StackSet
        /\ h \in [map : SUBSET Pages, info : [Pages -> InfoRec], free : Int, frags : StackSet,
                  live : [Owners -> SUBSET Blocks]]
    BY <1>0 DEF HeapRec
  <2>2. PICK e : e = [fs \in FragLogs |-> {}]
    OBVIOUS
  <2>3. g = [h EXCEPT !.live[NOBODY] = T, !.live[q] = {}, !.frags[q] = e]
    BY <1>0, <1>5, <2>1, <2>2 DEF Forsaken
  <2>4. g = [map |-> h.map, info |-> h.info, free |-> h.free, frags |-> [h.frags EXCEPT ![q] = e],
             live |-> [h.live EXCEPT ![NOBODY] = T, ![q] = {}]]
    BY <2>1, <2>3
  <2>5. a = [map |-> h.map, info |-> h.info, free |-> h.free, frags |-> [h.frags EXCEPT ![q] = e],
             live |-> [h.live EXCEPT ![q] = {}]]
    BY <1>0, <1>1, <2>2, EmptiedIs
  <2>6. [a EXCEPT !.live[NOBODY] = T] = [map |-> h.map, info |-> h.info, free |-> h.free,
          frags |-> [h.frags EXCEPT ![q] = e], live |-> [[h.live EXCEPT ![q] = {}] EXCEPT ![NOBODY] = T]]
    BY <2>5
  <2>7. [[h.live EXCEPT ![q] = {}] EXCEPT ![NOBODY] = T] = [h.live EXCEPT ![NOBODY] = T, ![q] = {}]
    BY <2>1
  <2> QED
    BY <2>4, <2>6, <2>7 DEF SetLive
<1>7. HasLive(a, NOBODY, T, g)
  BY <1>0, <1>4, <1>6, LiveIs
<1>8. /\ Nothing(g, q) /\ OtherFrags(h, g, q) /\ g.live[NOBODY] = T
      /\ \A u \in Owners : u # q /\ u # NOBODY => g.live[u] = h.live[u]
  BY <1>2, <1>7 DEF IsEmptied, HasLive, Nothing, OtherFrags
<1>9. SamePages(a, g) /\ OneIdle(g) /\ IsFiniteSet(g.live[KERNEL])
  BY <1>0, <1>4, <1>7, <1>8 DEF SamePages, HasLive, OneIdle
<1>10. ASSUME NEW o \in Owners, NEW s \in Place, NEW b \in Blocks, In(g, o, s, b)
       PROVE  In(a, o, s, b) \/ (b \in h.live[q] /\ Marked(a, nk, o, b) /\ o = NOBODY /\ s = "live")
  <2>1. CASE In(a, o, s, b)
    BY <2>1
  <2>2. CASE ~In(a, o, s, b)
    <3>1. o = NOBODY /\ s = "live" /\ b \in h.live[q]
      BY <1>4, <1>5, <1>7, <1>10, <2>2, Places DEF In, HasLive
    <3>2. Marked(h, mk, q, b)
      BY <3>1, LiveIn, PlacedIs, Places
    <3>3. Marked(a, nk, NOBODY, b)
      BY <1>2, <3>2 DEF Marked, IsEmptied
    <3> QED
      BY <3>1, <3>3
  <2> QED
    BY <2>1, <2>2
<1>11. Moves(a, nk, h.live[q], g, NOBODY, "live", {})
  BY <1>10 DEF Moves
<1>12. HeapOK(g, nk, {})
  BY <1>3, <1>9, <1>11, Move
<1> QED
  BY <1>5, <1>8, <1>12

-----------------------------------------------------------------------------
(* Numbers of processes.                                                     *)

LEMMA Remainder ==
  ASSUME NEW a \in Nat, NEW b \in Nat \ {0}
  PROVE  a % b \in 0..(b - 1) /\ a % b <= a /\ (a < b => a % b = a)
<1>1. a % b \in 0..(b - 1)
  OBVIOUS
<1>2. a = b * (a \div b) + (a % b) /\ a \div b \in Int
  OBVIOUS
<1>3. a \div b >= 0
  BY <1>1, <1>2
<1>4. a % b <= a
  <2>1. b * (a \div b) >= 0
    BY <1>3, <1>2
  <2> QED
    BY <1>1, <1>2, <2>1
<1>5. ASSUME a < b PROVE a % b = a
  <2>1. CASE a \div b = 0
    BY <1>2, <2>1
  <2>2. CASE a \div b >= 1
    <3>1. b * (a \div b) >= b
      BY <1>2, <2>2
    <3> QED
      BY <1>1, <1>2, <1>5, <3>1
  <2> QED
    BY <1>2, <1>3, <2>1, <2>2
<1> QED
  BY <1>1, <1>4, <1>5

\* What the table keeps of the numbers.
LEMMA Kept ==
  ASSUME NumbersFit, NEW i, NEW n, NumbersOK(i, n)
  PROVE  /\ n \in Nat /\ n <= MaxId + 1 /\ MaxId < OwnerIds /\ MaxId < ProcIds - 1
         /\ \A m \in 0..MaxId : m % OwnerIds = m
         /\ (ProcIds - 1) % OwnerIds \in 0..(OwnerIds - 1)
         /\ \A p \in Procs : i[p] \in 0..MaxId \/ i[p] = ProcIds - 1
<1>1. ProcIds - 1 \in Nat /\ OwnerIds \in Nat \ {0} /\ MaxId \in Nat
  BY ConstFacts
<1> DEFINE M == (ProcIds - 1) % OwnerIds
<1>2. M \in 0..(OwnerIds - 1) /\ M <= ProcIds - 1
  BY <1>1, Remainder
<1>3. MaxId < M
  BY DEF NumbersFit
<1>4. MaxId < OwnerIds /\ MaxId < ProcIds - 1
  <2> HIDE DEF M
  <2> QED
    BY <1>1, <1>2, <1>3
<1>5. ASSUME NEW m \in 0..MaxId PROVE m % OwnerIds = m
  <2> HIDE DEF M
  <2>1. m \in Nat /\ m < OwnerIds
    BY <1>1, <1>4
  <2> QED
    BY <1>1, <2>1, Remainder
<1>6. n \in Nat /\ n <= MaxId + 1
  BY <1>1 DEF NumbersOK
<1>7. ASSUME NEW p \in Procs PROVE i[p] \in 0..MaxId \/ i[p] = ProcIds - 1
  BY <1>1, <1>6 DEF NumbersOK
<1> QED
  BY <1>2, <1>4, <1>5, <1>6, <1>7

OwnMark(i, n, p) == Marks(i, n)[p] = {i[p] % OwnerIds}

LEMMA MarksAre ==
  ASSUME NEW i, NEW n
  PROVE  /\ Marks(i, n)[KERNEL] = {0}
         /\ \A p \in Procs : OwnMark(i, n, p)
         /\ \A m : m \in Marks(i, n)[NOBODY] <=> m \in 0..(OwnerIds - 1) /\ NoNumber(i, n, m)
         /\ \A o \in Owners : o \in Procs \/ o = KERNEL \/ o = NOBODY
<1>1. KERNEL \notin Procs /\ NOBODY \notin Procs /\ KERNEL # NOBODY
      /\ \A o \in Owners : o \in Procs \/ o = KERNEL \/ o = NOBODY
  BY ConstFacts, Zenon DEF Owners
<1>2. KERNEL \in Owners /\ NOBODY \in Owners /\ \A p \in Procs : p \in Owners
  BY DEF Owners
<1> QED
  BY <1>1, <1>2 DEF Marks, OwnMark

\* No page of others has the number of a process.
LEMMA MarksApart ==
  ASSUME NumbersFit, NEW i, NEW n, NumbersOK(i, n), NEW q \in Procs, i[q] # 0
  PROVE  /\ i[q] \in Nat \ {0}
         /\ \A o \in Owners : o # q => i[q] \notin Marks(i, n)[o]
         /\ i[q] < OwnerIds => Marks(i, n)[q] = {i[q]}
<1>1. i[q] \in Nat \ {0} /\ ProcIds - 1 \in Nat /\ OwnerIds \in Nat \ {0} /\ MaxId \in Nat
  BY ConstFacts DEF NumbersOK
<1>2. i[q] < OwnerIds => Marks(i, n)[q] = {i[q]}
  <2>1. Marks(i, n)[q] = {i[q] % OwnerIds}
    BY MarksAre DEF OwnMark
  <2> QED
    BY <1>1, <2>1, Remainder
<1>3. ASSUME NEW o \in Procs, o # q PROVE i[q] # i[o] % OwnerIds
  <2>1. i[q] # i[o]
    BY <1>3 DEF NumbersOK
  <2>2. i[o] \in 0..MaxId \/ i[o] = ProcIds - 1
    BY Kept
  <2>3. i[q] \in 0..MaxId \/ i[q] = ProcIds - 1
    BY Kept
  <2> DEFINE M == (ProcIds - 1) % OwnerIds
  <2>4. M \in 0..(OwnerIds - 1) /\ M <= ProcIds - 1 /\ MaxId < M
    BY <1>1, Remainder DEF NumbersFit
  <2>5. CASE i[o] \in 0..MaxId
    <3>1. i[o] % OwnerIds = i[o]
      BY <2>5, Kept
    <3> QED
      BY <2>1, <3>1
  <2>6. CASE i[o] = ProcIds - 1
    <3>1. i[o] % OwnerIds = M
      BY <2>6
    <3>2. i[q] \in 0..MaxId
      BY <2>1, <2>3, <2>6
    <3> HIDE DEF M
    <3> QED
      BY <1>1, <2>4, <3>1, <3>2
  <2> QED
    BY <2>2, <2>5, <2>6
<1>4. ASSUME NEW o \in Owners, o # q PROVE i[q] \notin Marks(i, n)[o]
  <2>1. CASE o \in Procs
    BY <1>3, <1>4, <2>1, MarksAre DEF OwnMark
  <2>2. CASE o = KERNEL
    BY <1>1, <2>2, MarksAre
  <2>3. CASE o = NOBODY
    <3>1. ASSUME i[q] \in Marks(i, n)[NOBODY] PROVE i[q] = 0
      BY <3>1, MarksAre DEF NoNumber
    <3> QED
      BY <1>1, <2>3, <3>1
  <2> QED
    BY <2>1, <2>2, <2>3, MarksAre
<1> QED
  BY <1>1, <1>2, <1>4

LEMMA ExitNumbers ==
  ASSUME NumbersFit, NEW i, NEW n, NumbersOK(i, n), NEW p \in Procs, NEW j, j = [i EXCEPT ![p] = 0]
  PROVE  /\ NumbersOK(j, n)
         /\ \A o \in Owners : o # p => Marks(i, n)[o] \subseteq Marks(j, n)[o]
<1>0. i \in [Procs -> 0..(ProcIds - 1)] /\ n \in 1..(MaxId + 1) /\ MaxId \in Nat /\ ProcIds \in Nat \ {0}
  BY ConstFacts DEF NumbersOK
<1>1. /\ j \in [Procs -> 0..(ProcIds - 1)] /\ j[p] = 0 /\ \A q \in Procs : q # p => j[q] = i[q]
  BY <1>0
<1>2. NumbersOK(j, n)
  <2>1. \A q, r \in Procs : j[q] = j[r] /\ j[q] # 0 => q = r
    BY <1>1 DEF NumbersOK
  <2>2. \A q \in Procs : j[q] < n \/ j[q] = ProcIds - 1
    BY <1>0, <1>1 DEF NumbersOK
  <2> QED
    BY <1>0, <1>1, <2>1, <2>2 DEF NumbersOK
<1>3. ASSUME NEW o \in Owners, o # p PROVE Marks(i, n)[o] \subseteq Marks(j, n)[o]
  <2>1. CASE o \in Procs
    <3>1. i[o] = j[o]
      BY <1>1, <1>3, <2>1
    <3>2. OwnMark(i, n, o) /\ OwnMark(j, n, o)
      BY <2>1, MarksAre
    <3> QED
      BY <3>1, <3>2 DEF OwnMark
  <2>2. CASE o = KERNEL
    BY <2>2, MarksAre
  <2>3. CASE o = NOBODY
    <3>1. ASSUME NEW m \in Marks(i, n)[NOBODY] PROVE m \in Marks(j, n)[NOBODY]
      <4>1. m \in 0..(OwnerIds - 1) /\ NoNumber(i, n, m)
        BY <3>1, MarksAre
      <4>2. NoNumber(j, n, m)
        BY <1>1, <4>1 DEF NoNumber
      <4> QED
        BY <4>1, <4>2, MarksAre
    <3> QED
      BY <2>3, <3>1
  <2> QED
    BY <2>1, <2>2, <2>3, MarksAre
<1> QED
  BY <1>2, <1>3

\* Process q gets the next number.
Numbered(i, n, q, j, k) == n <= MaxId /\ i[q] = 0 /\ j = [i EXCEPT ![q] = n] /\ k = n + 1

Renumbers(i, n, q, j, k) ==
  /\ n \in Nat \ {0} /\ n % OwnerIds = n
  /\ NumbersOK(j, k) /\ NumbersOK(i, k)
  /\ Marks(j, k)[q] = {n} /\ n \in Marks(i, k)[NOBODY]
  /\ \A o \in Owners : o # q => Marks(i, n)[o] \subseteq Marks(j, k)[o]
  /\ \A o \in Owners : Marks(i, n)[o] \subseteq Marks(i, k)[o]

LEMMA SpawnNumbers ==
  ASSUME NumbersFit, NEW i, NEW n, NumbersOK(i, n), NEW q \in Procs,
         NEW j, NEW k, Numbered(i, n, q, j, k)
  PROVE  Renumbers(i, n, q, j, k)
<1> USE DEF Numbered, Renumbers
<1>0. /\ i \in [Procs -> 0..(ProcIds - 1)] /\ n \in 1..(MaxId + 1) /\ MaxId \in Nat
      /\ ProcIds \in Nat \ {0} /\ OwnerIds \in Nat \ {0}
  BY ConstFacts DEF NumbersOK
<1>1. n \in Nat \ {0} /\ n \in 0..MaxId /\ n + 1 \in 1..(MaxId + 1)
  BY <1>0
<1>2. n % OwnerIds = n /\ MaxId < ProcIds - 1 /\ MaxId < OwnerIds
  BY <1>1, Kept
<1>3. j \in [Procs -> 0..(ProcIds - 1)] /\ j[q] = n /\ \A p \in Procs : p # q => j[p] = i[p]
  BY <1>0, <1>1, <1>2
<1>4. \A p \in Procs : i[p] # n
  BY <1>0, <1>1, <1>2 DEF NumbersOK
<1>5. NumbersOK(i, k)
  <2>1. \A p \in Procs : i[p] < n + 1 \/ i[p] = ProcIds - 1
    BY <1>0 DEF NumbersOK
  <2> QED
    BY <1>0, <1>1, <2>1 DEF NumbersOK
<1>6. NumbersOK(j, k)
  <2>1. \A p, r \in Procs : j[p] = j[r] /\ j[p] # 0 => p = r
    BY <1>3, <1>4 DEF NumbersOK
  <2>2. \A p \in Procs : j[p] < n + 1 \/ j[p] = ProcIds - 1
    BY <1>0, <1>3, <1>5 DEF NumbersOK
  <2> QED
    BY <1>1, <1>3, <2>1, <2>2 DEF NumbersOK
<1>7. n \in Marks(i, k)[NOBODY]
  <2>1. n \in 0..(OwnerIds - 1) /\ n < n + 1
    BY <1>0, <1>1, <1>2
  <2>2. NoNumber(i, k, n)
    BY <1>4, <2>1 DEF NoNumber
  <2> QED
    BY <2>1, <2>2, MarksAre
<1>8. Marks(j, k)[q] = {n}
  <2>0. OwnMark(j, k, q)
    BY MarksAre
  <2>1. Marks(j, k)[q] = {j[q] % OwnerIds}
    BY <2>0 DEF OwnMark
  <2> QED
    BY <1>2, <1>3, <2>1
<1>9. ASSUME NEW m \in Marks(i, n)[NOBODY]
      PROVE  m \in Marks(i, k)[NOBODY] /\ m \in Marks(j, k)[NOBODY]
  <2>1. m \in 0..(OwnerIds - 1) /\ NoNumber(i, n, m)
    BY <1>9, MarksAre
  <2>2. m < n /\ m < n + 1 /\ m # n
    BY <1>0, <2>1 DEF NoNumber
  <2>3. NoNumber(i, k, m)
    BY <2>1, <2>2 DEF NoNumber
  <2>4. NoNumber(j, k, m)
    BY <1>3, <2>1, <2>2 DEF NoNumber
  <2> QED
    BY <2>1, <2>3, <2>4, MarksAre
<1>10. ASSUME NEW o \in Owners PROVE Marks(i, n)[o] \subseteq Marks(i, k)[o]
  <2>1. CASE o \in Procs
    <3>2. OwnMark(i, n, o) /\ OwnMark(i, k, o)
      BY <2>1, MarksAre
    <3> QED
      BY <3>2 DEF OwnMark
  <2>2. CASE o = KERNEL
    BY <2>2, MarksAre
  <2>3. CASE o = NOBODY
    BY <1>9, <2>3
  <2> QED
    BY <2>1, <2>2, <2>3, MarksAre
<1>11. ASSUME NEW o \in Owners, o # q PROVE Marks(i, n)[o] \subseteq Marks(j, k)[o]
  <2>1. CASE o \in Procs
    <3>1. i[o] = j[o]
      BY <1>3, <1>11, <2>1
    <3>2. OwnMark(i, n, o) /\ OwnMark(j, k, o)
      BY <2>1, MarksAre
    <3> QED
      BY <3>1, <3>2 DEF OwnMark
  <2>2. CASE o = KERNEL
    BY <2>2, MarksAre
  <2>3. CASE o = NOBODY
    BY <1>9, <2>3
  <2> QED
    BY <2>1, <2>2, <2>3, MarksAre
<1> QED
  BY <1>1, <1>2, <1>5, <1>6, <1>7, <1>8, <1>10, <1>11

-----------------------------------------------------------------------------
(* What a step keeps of the processes.                                       *)

\* Other processes than o have what they had.
Bystanders(h, g, o) == \A u \in Procs \ {o} :
  g.live[u] = h.live[u] /\ \A fs \in FragLogs : g.frags[u][fs] = h.frags[u][fs]

LEMMA OwnersAre ==
  /\ Procs \subseteq Owners /\ KERNEL \in Owners /\ NOBODY \in Owners
  /\ KERNEL \notin Procs /\ NOBODY \notin Procs /\ KERNEL # NOBODY /\ InitProc \in Procs
  BY ConstFacts, Zenon DEF Owners

LEMMA SameNumbers ==
  ASSUME NEW h, NEW i, NEW s, NEW n, Account(h, i, s, n), NEW g, HeapOK(g, Marks(i, n), {}),
         NEW o \in Procs, i[o] # 0, Bystanders(h, g, o), Range(s[o]) \subseteq g.live[o]
  PROVE  Account(g, i, s, n)
<1>1. ASSUME NEW p \in Procs PROVE ProcOK(g, i[p], s[p], p)
  <2>1. ProcOK(h, i[p], s[p], p)
    BY DEF Account
  <2>2. CASE p = o
    BY <2>1, <2>2 DEF ProcOK
  <2>3. CASE p # o
    <3>1. g.live[p] = h.live[p] /\ \A fs \in FragLogs : g.frags[p][fs] = h.frags[p][fs]
      BY <2>3 DEF Bystanders
    <3> QED
      BY <2>1, <3>1 DEF ProcOK
  <2> QED
    BY <2>2, <2>3
<1> QED
  BY <1>1 DEF Account

LEMMA CleanedKeeps ==
  ASSUME NEW h, NEW i, NEW s, NEW n, Account(h, i, s, n), NEW o \in Procs, i[o] # 0,
         NEW g \in Cleanups(h, o) \cup {h}
  PROVE  Account(g, i, s, n) /\ Cleaned(h, o, g)
<1>1. CASE g = h
  BY <1>1, CleanedNone
<1>2. CASE g # h
  <2> PICK mk : mk = Marks(i, n)
    OBVIOUS
  <2>1. HeapOK(h, mk, {}) /\ o \in Owners /\ mk[KERNEL] = {0}
    BY MarksAre, OwnersAre DEF Account
  <2>2. HeapOK(g, mk, {}) /\ Cleaned(h, o, g)
    BY <1>2, <2>1, CleanupKeeps
  <2>3. Bystanders(h, g, o)
    BY <2>2, OwnersAre DEF Cleaned, OtherFrags, Bystanders
  <2>4. Range(s[o]) \subseteq h.live[o]
    BY DEF Account, ProcOK
  <2>5. g.live[o] = h.live[o]
    BY <2>2, OwnersAre DEF Cleaned
  <2> QED
    BY <2>2, <2>3, <2>4, <2>5, SameNumbers
<1> QED
  BY <1>1, <1>2

\* malloc() and kmalloc() of process o.
LEMMA PmallocKeeps ==
  ASSUME NEW h, NEW i, NEW s, NEW n, Account(h, i, s, n), NEW o \in Procs, i[o] # 0,
         NEW q, NEW j, (q = o /\ j = i[o]) \/ (q = KERNEL /\ j = 0),
         NEW r, IsRequest(r), NEW x \in Pmalloc(h, o, q, j, r)
  PROVE  Account(x.h, i, s, n) /\ Tried(h, o, q, r, x)
<1> PICK mk : mk = Marks(i, n)
  OBVIOUS
<1>1. HeapOK(h, mk, {}) /\ o \in Owners /\ mk[KERNEL] = {0} /\ q \in Owners
  BY MarksAre, OwnersAre DEF Account
<1>2. j \in Nat /\ j % OwnerIds \in mk[q]
  <2>1. CASE q = o /\ j = i[o]
    <3>1. j \in Nat
      BY <2>1, ConstFacts DEF Account, NumbersOK
    <3>2. OwnMark(i, n, o)
      BY MarksAre
    <3> QED
      BY <2>1, <3>1, <3>2 DEF OwnMark
  <2>2. CASE q = KERNEL /\ j = 0
    <3>1. OwnerIds \in Nat \ {0}
      BY ConstFacts
    <3>2. 0 < OwnerIds
      BY <3>1
    <3>3. 0 % OwnerIds = 0
      BY <3>1, <3>2, Remainder
    <3> QED
      BY <1>1, <2>2, <3>3
  <2> QED
    BY <2>1, <2>2
<1>3. HeapOK(x.h, mk, {}) /\ Tried(h, o, q, r, x)
  BY <1>1, <1>2, PmallocGives
<1>4. ASSUME NEW g, Cleaned(h, o, g) PROVE Bystanders(h, g, o) /\ g.live[o] = h.live[o]
  BY <1>4, OwnersAre DEF Cleaned, OtherFrags, Bystanders
<1>5. Bystanders(h, x.h, o) /\ h.live[o] \subseteq x.h.live[o]
  <2>1. CASE Cleaned(h, o, x.h)
    BY <1>4, <2>1
  <2>2. ASSUME NEW g, Cleaned(h, o, g), Given(g, q, r, x)
        PROVE  Bystanders(h, x.h, o) /\ h.live[o] \subseteq x.h.live[o]
    <3>1. Bystanders(h, g, o) /\ g.live[o] = h.live[o]
      BY <1>4, <2>2
    <3>2. g.live[o] \subseteq x.h.live[o]
      BY <1>1, <2>2 DEF Given
    <3>3. Bystanders(g, x.h, o)
      BY <1>1, <2>2, OwnersAre DEF Given, OtherFrags, Bystanders
    <3>4. Bystanders(h, x.h, o)
      BY <3>1, <3>3 DEF Bystanders
    <3> QED
      BY <3>1, <3>2, <3>4
  <2> QED
    BY <1>3, <2>1, <2>2 DEF Tried
<1>6. Range(s[o]) \subseteq h.live[o]
  BY DEF Account, ProcOK
<1> QED
  BY <1>3, <1>5, <1>6, SameNumbers

\* free() of process o.
LEMMA FreeKeeps ==
  ASSUME NEW h, NEW i, NEW s, NEW n, Account(h, i, s, n), NEW o \in Procs, i[o] # 0,
         NEW w, w = o \/ w = KERNEL, NEW b \in h.live[w], w = o => b \notin Range(s[o]),
         NEW g, g = FreeBlock(h, o, w, b)
  PROVE  Account(g, i, s, n) /\ Freed(h, o, w, b, g)
<1> PICK mk : mk = Marks(i, n)
  OBVIOUS
<1>1. HeapOK(h, mk, {}) /\ o \in Owners /\ w \in Owners /\ mk[KERNEL] = {0}
  BY MarksAre, OwnersAre DEF Account
<1>2. mk[w] \subseteq mk[o] \cup {0}
  BY <1>1
<1>3. HeapOK(g, mk, {}) /\ Freed(h, o, w, b, g)
  BY <1>1, <1>2, FreeBlockKeeps
<1>4. Bystanders(h, g, o)
  BY <1>1, <1>3, OwnersAre DEF Freed, OtherFrags, Bystanders
<1>5. Range(s[o]) \subseteq h.live[o]
  BY DEF Account, ProcOK
<1>6. Range(s[o]) \subseteq g.live[o]
  BY <1>1, <1>3, <1>5 DEF Freed
<1> QED
  BY <1>3, <1>4, <1>6, SameNumbers

\* The exit of process p.
LEMMA ExitKeeps ==
  ASSUME NumbersFit, NEW h, NEW i, NEW s, NEW n, Account(h, i, s, n), NEW p \in Procs, i[p] # 0,
         NEW j, j = [i EXCEPT ![p] = 0], NEW t, t = [s EXCEPT ![p] = <<>>],
         NEW g, g = KillProc(h, p, p, i[p], s[p])
  PROVE  /\ Account(g, j, t, n)
         /\ i[p] < OwnerIds => \A b \in h.live[p] : b.fs = 0 => Extent(b) \cap g.map = {}
<1> DEFINE b1 == s[p][FragSizes + 1]
           b2 == s[p][FragSizes + 2]
<1>1. PICK mk : mk = Marks(i, n)
  OBVIOUS
<1>2. HeapOK(h, mk, {}) /\ p \in Owners /\ p # KERNEL /\ NumbersOK(i, n)
  BY <1>1, OwnersAre DEF Account
<1>3. b1.fs = 0 /\ b2.fs # 0 /\ b1 \in h.live[p] /\ b2 \in h.live[p]
  <2>1. ProcOK(h, i[p], s[p], p) /\ s[p] \in Seq(Blocks) /\ FragSizes \in Nat
    BY ConstFacts DEF Account
  <2>2. /\ FragSizes + 1 \in 1..Len(s[p]) /\ FragSizes + 2 \in 1..Len(s[p])
        /\ Range(s[p]) \subseteq h.live[p]
    BY <2>1 DEF ProcOK
  <2>3. b1 \in Range(s[p]) /\ b2 \in Range(s[p])
    BY <2>1, <2>2 DEF Range
  <2> QED
    BY <2>1, <2>2, <2>3 DEF ProcOK
<1>4. PICK h1 : h1 = FreeBlock(h, p, p, b1)
  OBVIOUS
<1>5. PICK h2 : h2 = FreeBlock(h1, p, p, b2)
  OBVIOUS
<1>6. g = KillPages(h2, p, i[p])
  BY <1>4, <1>5 DEF KillProc
<1>7. HeapOK(h1, mk, {}) /\ Freed(h, p, p, b1, h1)
  <2> HIDE DEF b1, b2
  <2>1. mk[p] \subseteq mk[p] \cup {0}
    OBVIOUS
  <2> QED
    BY <1>2, <1>3, <1>4, <2>1, FreeBlockKeeps
<1>8. b2 \in h1.live[p]
  <2> HIDE DEF b1, b2
  <2> QED
    BY <1>3, <1>7 DEF Freed
<1>9. HeapOK(h2, mk, {}) /\ Freed(h1, p, p, b2, h2)
  <2> HIDE DEF b1, b2
  <2>1. mk[p] \subseteq mk[p] \cup {0}
    OBVIOUS
  <2> QED
    BY <1>2, <1>5, <1>7, <1>8, <2>1, FreeBlockKeeps
<1> HIDE DEF b1, b2
<1>10. i[p] \in Nat \ {0} /\ (i[p] < OwnerIds => mk[p] = {i[p]}) /\ \A o \in Owners : o # p => i[p] \notin mk[o]
  BY <1>1, <1>2, MarksApart
<1>11. /\ HeapOK(g, mk, {}) /\ Killed(h2, p, i[p], g)
       /\ mk[p] = {i[p]} => \A b \in h2.live[p] : b.fs = 0 => Extent(b) \cap g.map = {}
  BY <1>2, <1>6, <1>9, <1>10, KillPagesKeeps
<1>12. g.map \subseteq h2.map /\ h2.map \subseteq h1.map /\ h1.map \subseteq h.map
  BY <1>7, <1>9, <1>11 DEF Freed, Killed
<1>13. i[p] < OwnerIds => \A b \in h.live[p] : b.fs = 0 => Extent(b) \cap g.map = {}
  <2> SUFFICES ASSUME i[p] < OwnerIds, NEW b \in h.live[p], b.fs = 0
               PROVE  Extent(b) \cap g.map = {}
    OBVIOUS
  <2>1. CASE b = b1
    <3>1. Extent(b) \cap h1.map = {}
      BY <1>3, <1>7, <2>1 DEF Freed
    <3> QED
      BY <1>12, <3>1
  <2>2. CASE b # b1
    <3>1. b # b2
      BY <1>3
    <3>2. b \in h2.live[p]
      BY <1>7, <1>9, <2>2, <3>1 DEF Freed
    <3> QED
      BY <1>10, <1>11, <3>2
  <2> QED
    BY <2>1, <2>2
<1>14. NumbersOK(j, n) /\ \A o \in Owners : o # p => mk[o] \subseteq Marks(j, n)[o]
  BY <1>1, <1>2, ExitNumbers
<1>15. HeapOK(g, Marks(j, n), {})
  <2>1. PICK nk : nk = Marks(j, n)
    OBVIOUS
  <2>2. Nothing(g, p)
    BY <1>11 DEF Killed
  <2>3. \A o \in Owners : mk[o] \subseteq nk[o] \/ Nothing(g, o)
    BY <1>14, <2>1, <2>2
  <2>4. HeapOK(g, nk, {})
    BY <1>11, <2>3, Remark
  <2> QED
    BY <2>1, <2>4
<1>16. t \in [Procs -> Seq(Blocks)] /\ t[p] = <<>> /\ \A u \in Procs : u # p => t[u] = s[u]
  BY DEF Account
<1>17. j[p] = 0 /\ \A u \in Procs : u # p => j[u] = i[u]
  BY <1>2 DEF NumbersOK
<1>18. ASSUME NEW u \in Procs PROVE ProcOK(g, j[u], t[u], u)
  <2>1. CASE u = p
    BY <1>11, <1>16, <1>17, <2>1 DEF Killed, Nothing, ProcOK
  <2>2. CASE u # p
    <3>1. ProcOK(h, i[u], s[u], u)
      BY DEF Account
    <3>2. g.live[u] = h.live[u]
      BY <1>7, <1>9, <1>11, <2>2, OwnersAre DEF Freed, Killed
    <3>3. \A fs \in FragLogs : g.frags[u][fs] = h.frags[u][fs]
      BY <1>7, <1>9, <1>11, <2>2, OwnersAre DEF Freed, Killed, OtherFrags
    <3> QED
      BY <1>16, <1>17, <2>2, <3>1, <3>2, <3>3 DEF ProcOK
  <2> QED
    BY <2>1, <2>2
<1>19. Account(g, j, t, n)
  BY <1>14, <1>15, <1>16, <1>18 DEF Account
<1> QED
  BY <1>13, <1>19

LEMMA GotIs ==
  ASSUME NEW h, NEW o, NEW q, NEW mk, NEW X, NEW x, Started(h, o, q, mk, X, x)
  PROVE  Range(x.got) \ {NoBlock} \subseteq x.h.live[q]
<1> SUFFICES ASSUME NEW b \in Range(x.got), b # NoBlock
             PROVE  b \in x.h.live[q]
  OBVIOUS
<1>1. PICK k \in DOMAIN x.got : b = x.got[k]
  BY DEF Range
<1>2. k \in 1..Len(x.got)
  BY <1>1 DEF Started
<1> QED
  BY <1>1, <1>2 DEF Started

\* All the allocations for q have succeeded.
LEMMA CompleteIs ==
  ASSUME NEW h, NEW o, NEW q, NEW mk, NEW X, NEW x, Started(h, o, q, mk, X, x), Sized(x, FragSizes + 5),
         Complete(x)
  PROVE  /\ x.got \in Seq(Blocks) /\ Len(x.got) = FragSizes + 5
         /\ x.got[FragSizes + 1].fs = 0 /\ x.got[FragSizes + 2].fs # 0
         /\ Range(x.got) \subseteq x.h.live[q]
<1>0. x.got \in Seq(Blocks \cup {NoBlock})
  BY DEF Started
<1>1. NoBlock \notin Range(x.got)
  BY DEF Complete
<1>2. Len(x.got) = FragSizes + 5
  BY <1>1 DEF Sized
<1>3. \A k \in 1..Len(x.got) : x.got[k] # NoBlock /\ x.got[k] \in Blocks
  <2>1. \A k \in 1..Len(x.got) : x.got[k] \in Range(x.got) /\ x.got[k] \in Blocks \cup {NoBlock}
    BY <1>0 DEF Range
  <2> QED
    BY <1>1, <2>1
<1>4. x.got \in Seq(Blocks)
  BY <1>0, <1>3
<1>5. FragSizes \in Nat /\ FragSizes + 1 \in 1..Len(x.got) /\ FragSizes + 2 \in 1..Len(x.got)
  BY <1>2, ConstFacts
<1>6. x.got[FragSizes + 1].fs = 0 /\ x.got[FragSizes + 2].fs # 0
  <2>1. PICK k : k = FragSizes + 1
    OBVIOUS
  <2>2. PICK l : l = FragSizes + 2
    OBVIOUS
  <2>3. x.got[k].fs = Wanted[k].fs
    BY <1>3, <1>5, <2>1 DEF Sized
  <2>4. x.got[l].fs = Wanted[l].fs
    BY <1>3, <1>5, <2>2 DEF Sized
  <2>5. Wanted[k].fs = 0 /\ Wanted[l].fs # 0
    BY <2>1, <2>2, WantedIs
  <2> QED
    BY <2>1, <2>2, <2>3, <2>4, <2>5
<1>7. Range(x.got) \subseteq x.h.live[q]
  BY <1>1, GotIs
<1> QED
  BY <1>2, <1>4, <1>6, <1>7

\* Process p starts q, or fails to.
LEMMA SpawnKeeps ==
  ASSUME NumbersFit, NEW h, NEW i, NEW s, NEW n, Account(h, i, s, n), n <= MaxId,
         NEW p \in Procs, i[p] # 0, NEW q \in Procs, i[q] = 0, NEW x \in Starts(h, p, q, n),
         NEW j, j = [i EXCEPT ![q] = n], NEW t, t = [s EXCEPT ![q] = x.got],
         NEW g, g = Forsaken(x.h, q)
  PROVE  /\ Complete(x) => Account(x.h, j, t, n + 1)
         /\ ~Complete(x) => /\ Account(g, i, s, n + 1)
                            /\ Len(x.got) > 1 => ~(g.live[NOBODY] \subseteq h.live[NOBODY])
<1>1. PICK mk : mk = Marks(i, n)
  OBVIOUS
<1>2. PICK m : m = n + 1
  OBVIOUS
<1>3. /\ HeapOK(h, mk, {}) /\ NumbersOK(i, n) /\ mk[KERNEL] = {0} /\ p # q
      /\ p \in Owners /\ q \in Owners \ {KERNEL, NOBODY}
  BY <1>1, MarksAre, OwnersAre DEF Account
<1>4. /\ n \in Nat \ {0} /\ n % OwnerIds = n
      /\ NumbersOK(j, m) /\ NumbersOK(i, m)
      /\ Marks(j, m)[q] = {n} /\ n \in Marks(i, m)[NOBODY]
      /\ \A o \in Owners : o # q => mk[o] \subseteq Marks(j, m)[o]
      /\ \A o \in Owners : mk[o] \subseteq Marks(i, m)[o]
  <2>1. Numbered(i, n, q, j, m)
    BY <1>2 DEF Numbered
  <2>2. Renumbers(i, n, q, j, m)
    BY <1>3, <2>1, SpawnNumbers
  <2> QED
    BY <1>1, <2>2, Zenon DEF Renumbers
<1>5. PICK nk : nk = [mk EXCEPT ![q] = {n}]
  OBVIOUS
<1>6. nk[q] = {n} /\ \A o \in Owners : o # q => nk[o] = mk[o]
  BY <1>1, <1>3, <1>5 DEF Marks
<1>7. Nothing(h, q)
  BY DEF Account, ProcOK, Nothing
<1>8. HeapOK(h, nk, {})
  <2>1. \A o \in Owners : mk[o] \subseteq nk[o] \/ Nothing(h, o)
    BY <1>6, <1>7
  <2> QED
    BY <1>3, <2>1, Remark
<1>9. Started(h, p, q, nk, {}, x) /\ Sized(x, FragSizes + 5)
  <2>1. \A fs \in FragLogs : h.frags[q][fs] = {}
    BY <1>7 DEF Nothing
  <2>2. nk[KERNEL] = {0} /\ n \in Nat /\ n % OwnerIds \in nk[q]
    BY <1>3, <1>4, <1>6, OwnersAre
  <2> QED
    BY <1>3, <1>8, <2>1, <2>2, StartsGive
<1>10. HeapOK(x.h, nk, {}) /\ x.got \in Seq(Blocks \cup {NoBlock})
  BY <1>9 DEF Started
<1>12. ASSUME NEW u \in Procs, u # q
       PROVE  ProcOK(x.h, i[u], s[u], u)
  <2>1. ProcOK(h, i[u], s[u], u)
    BY DEF Account
  <2>2. x.h.live[u] = h.live[u]
    BY <1>9, <1>12, OwnersAre DEF Started
  <2>3. CASE u = p
    BY <2>1, <2>2, <2>3 DEF ProcOK
  <2>4. CASE u # p
    <3>1. \A fs \in FragLogs : x.h.frags[u][fs] = h.frags[u][fs]
      BY <1>9, <1>12, <2>4, OwnersAre DEF Started
    <3> QED
      BY <2>1, <2>2, <3>1 DEF ProcOK
  <2> QED
    BY <2>3, <2>4
<1>13. ASSUME Complete(x) PROVE Account(x.h, j, t, m)
  <2>1. /\ x.got \in Seq(Blocks) /\ Len(x.got) = FragSizes + 5
        /\ x.got[FragSizes + 1].fs = 0 /\ x.got[FragSizes + 2].fs # 0
        /\ Range(x.got) \subseteq x.h.live[q]
    BY <1>9, <1>13, CompleteIs
  <2>2. j[q] = n /\ \A u \in Procs : u # q => j[u] = i[u]
    BY <1>3 DEF NumbersOK
  <2>3. t \in [Procs -> Seq(Blocks)] /\ t[q] = x.got /\ \A u \in Procs : u # q => t[u] = s[u]
    BY <2>1 DEF Account
  <2>4. ProcOK(x.h, j[q], t[q], q)
    BY <1>4, <2>1, <2>2, <2>3 DEF ProcOK
  <2>5. \A u \in Procs : ProcOK(x.h, j[u], t[u], u)
    BY <1>12, <2>2, <2>3, <2>4
  <2>6. HeapOK(x.h, Marks(j, m), {})
    <3>1. PICK mj : mj = Marks(j, m)
      OBVIOUS
    <3>2. \A o \in Owners : nk[o] \subseteq mj[o] \/ Nothing(x.h, o)
      BY <1>4, <1>6, <3>1
    <3>3. HeapOK(x.h, mj, {})
      BY <1>10, <3>2, Remark
    <3> QED
      BY <3>1, <3>3
  <2> QED
    BY <1>4, <2>3, <2>5, <2>6 DEF Account
<1>14. ASSUME ~Complete(x)
       PROVE  /\ Account(g, i, s, m)
              /\ Len(x.got) > 1 => ~(g.live[NOBODY] \subseteq h.live[NOBODY])
  <2>1. PICK mi : mi = Marks(i, m)
    OBVIOUS
  <2>2. (\A o \in Owners : o # q => nk[o] \subseteq mi[o]) /\ nk[q] \subseteq mi[NOBODY]
    BY <1>4, <1>6, <2>1
  <2>3. /\ HeapOK(g, mi, {}) /\ Nothing(g, q) /\ OtherFrags(x.h, g, q)
        /\ g.live[NOBODY] = x.h.live[NOBODY] \cup x.h.live[q]
        /\ \A u \in Owners : u # q /\ u # NOBODY => g.live[u] = x.h.live[u]
    BY <1>3, <1>10, <2>2, ForsakenKeeps
  <2>4. ASSUME NEW u \in Procs PROVE ProcOK(g, i[u], s[u], u)
    <3>1. CASE u = q
      <4>1. ProcOK(h, i[q], s[q], q)
        BY DEF Account
      <4> QED
        BY <2>3, <3>1, <4>1 DEF ProcOK, Nothing
    <3>2. CASE u # q
      <4>1. ProcOK(x.h, i[u], s[u], u)
        BY <1>12, <3>2
      <4>2. g.live[u] = x.h.live[u] /\ \A fs \in FragLogs : g.frags[u][fs] = x.h.frags[u][fs]
        BY <2>3, <3>2, OwnersAre DEF OtherFrags
      <4> QED
        BY <4>1, <4>2 DEF ProcOK
    <3> QED
      BY <3>1, <3>2
  <2>5. s \in [Procs -> Seq(Blocks)]
    BY DEF Account
  <2>6. Account(g, i, s, m)
    BY <1>4, <2>1, <2>3, <2>4, <2>5 DEF Account
  <2>7. x.h.live[NOBODY] = h.live[NOBODY]
    BY <1>3, <1>9, OwnersAre DEF Started
  <2>8. ASSUME Len(x.got) > 1 PROVE x.got[1] \in g.live[NOBODY] /\ x.got[1] \notin h.live[NOBODY]
    <3>1. Len(x.got) \in Nat /\ 1 \in 1..Len(x.got) /\ 1 # Len(x.got)
      <4>1. PICK l : l = Len(x.got)
        OBVIOUS
      <4>2. l \in Nat /\ l > 1
        BY <1>10, <2>8, <4>1, LenProperties
      <4>3. 1 \in 1..l /\ 1 # l
        BY <4>2
      <4> QED
        BY <4>1, <4>2, <4>3
    <3>2. x.got[1] \in x.h.live[q]
      BY <1>9, <3>1 DEF Started
    <3>3. x.h \in HeapRec
      BY <1>10 DEF HeapOK
    <3>4. x.got[1] \in Blocks /\ In(x.h, q, "live", x.got[1])
      BY <1>3, <3>2, <3>3, LiveBlocks, LiveIn
    <3>5. ~In(x.h, NOBODY, "live", x.got[1])
      BY <1>3, <1>10, <3>4, PlacedIs, Places, OwnersAre
    <3> QED
      BY <2>3, <2>7, <3>2, <3>5, LiveIn
  <2> QED
    BY <2>6, <2>8
<1> QED
  BY <1>2, <1>13, <1>14

-----------------------------------------------------------------------------
(* The heap that main() leaves.                                              *)

Bare(h) ==
  /\ h.map = Fixed \cup 1..FragSizes
  /\ h.info = [p \in Pages |-> IF p \in Fixed THEN [fs |-> 1, cont |-> TRUE, proc |-> 0] ELSE FreeInfo]
  /\ h.free = StackPage - 1 - FragSizes
  /\ h.frags = [o \in Owners |-> [fs \in FragLogs |-> {}]]
  /\ h.live = [o \in Owners |-> IF o = NOBODY THEN {Block(p, 0, Page(1)) : p \in 1..FragSizes} ELSE {}]
  /\ h = [map |-> h.map, info |-> h.info, free |-> h.free, frags |-> h.frags, live |-> h.live]

KernelStack == Block(StackPage, 0, Frag(1))

LEMMA BareIs ==
  ASSUME NEW h, Bare(h)
  PROVE  /\ h \in HeapRec /\ 1..FragSizes \subseteq Pages \ Fixed
         /\ \A p \in Fixed : h.info[p].cont /\ h.info[p].fs = 1 /\ h.info[p].proc = 0
         /\ \A p \in Pages \ Fixed : h.info[p] = FreeInfo
<1> USE DEF Bare
<1>1. 1..FragSizes \subseteq Pages \ Fixed /\ Fixed \subseteq Pages
  BY ConstFacts DEF Pages, Fixed
<1>2. h.map \in SUBSET Pages
  BY <1>1
<1>3. /\ 1 \in 0..FragSizes /\ 0 \in 0..FragSizes /\ 0 \in 0..(OwnerIds - 1) /\ 1 \in Nat \ {0} /\ 0 \in Nat
      /\ StackPage - 1 - FragSizes \in Int
  BY ConstFacts
<1>4. [fs |-> 1, cont |-> TRUE, proc |-> 0] \in InfoRec /\ FreeInfo \in InfoRec
  BY <1>3 DEF InfoRec, FreeInfo
<1>5. h.info \in [Pages -> InfoRec]
  BY <1>4
<1>6. h.frags \in StackSet
  BY DEF StackSet
<1>7. h.live \in [Owners -> SUBSET Blocks]
  <2>1. \A p \in 1..FragSizes : Block(p, 0, Page(1)) \in Blocks
    BY <1>1, <1>3 DEF Block, Blocks, Page
  <2> QED
    BY <2>1
<1>8. h \in HeapRec
  BY <1>2, <1>3, <1>5, <1>6, <1>7 DEF HeapRec
<1> QED
  BY <1>1, <1>8

LEMMA BareKeeps ==
  ASSUME NEW h, Bare(h), NEW mk, mk[NOBODY] = {0}
  PROVE  HeapOK(h, mk, {KernelStack})
<1> USE DEF Bare
<1>1. /\ h \in HeapRec /\ 1..FragSizes \subseteq Pages \ Fixed
      /\ \A p \in Fixed : h.info[p].cont /\ h.info[p].fs = 1 /\ h.info[p].proc = 0
      /\ \A p \in Pages \ Fixed : h.info[p] = FreeInfo
  BY BareIs
<1>2. h.free = Cardinality(Pages \ h.map)
  <2>1. Pages \ h.map = (FragSizes + 1)..(StackPage - 1)
    BY ConstFacts DEF Pages, Fixed
  <2>2. FragSizes + 1 \in Int /\ StackPage - 1 \in Int /\ FragSizes + 1 <= StackPage
    BY ConstFacts
  <2>3. Cardinality((FragSizes + 1)..(StackPage - 1))
          = IF FragSizes + 1 > StackPage - 1 THEN 0 ELSE (StackPage - 1) - (FragSizes + 1) + 1
    BY <2>2, FS_Interval
  <2>4. h.free = StackPage - 1 - FragSizes
    OBVIOUS
  <2>5. (IF FragSizes + 1 > StackPage - 1 THEN 0 ELSE (StackPage - 1) - (FragSizes + 1) + 1)
          = StackPage - 1 - FragSizes
    <3> HIDE DEF Bare
    <3> QED
      BY ConstFacts
  <2> QED
    BY <2>1, <2>3, <2>4, <2>5, Zenon
<1>3. TableOK(h)
  BY <1>1 DEF TableOK, FreeInfo
<1>4. ASSUME NEW o \in Owners, NEW s \in Place, NEW b \in Blocks, In(h, o, s, b)
      PROVE  o = NOBODY /\ s = "live" /\ \E p \in 1..FragSizes : b = Block(p, 0, Page(1))
  BY <1>4, Places DEF In
<1>5. ASSUME NEW p \in 1..FragSizes, NEW b, b = Block(p, 0, Page(1)), b \in Blocks
      PROVE  Held(h, b) /\ Marked(h, mk, NOBODY, b)
  <2>1. b.page = p /\ b.idx = 0 /\ b.fs = 0 /\ b.n = 1
    BY <1>5 DEF Block, Page
  <2> HIDE DEF Bare
  <2>2. p \in Nat /\ Extent(b) = {p} /\ p + 1 - 1 = p
    <3>1. p \in Nat /\ p + 1 - 1 = p /\ p..p = {p}
      OBVIOUS
    <3>2. Extent(b) = p..(p + 1 - 1)
      BY <2>1 DEF Extent
    <3> QED
      BY <3>1, <3>2
  <2>3. p \in h.map \ Fixed /\ p \in Pages
    BY <1>1 DEF Bare
  <2>4. p - 1 \in Fixed \/ ~h.info[p - 1].cont
    <3>1. p - 1 \in Pages
      BY <2>3, PagesAre
    <3> QED
      BY <1>1, <3>1 DEF FreeInfo
  <2>5. h.info[p].fs = 0 /\ h.info[p].cont = FALSE /\ h.info[p].proc = 0
    BY <1>1, <2>3 DEF FreeInfo
  <2>6. PagesHeld(h, b)
    BY <2>1, <2>2, <2>3, <2>4, <2>5 DEF PagesHeld
  <2> QED
    BY <2>1, <2>2, <2>5, <2>6 DEF Held, Marked
<1>6. PiecesOK(h, mk)
  <2>1. \A o \in Owners : \A s \in Place : \A b \in Blocks :
          In(h, o, s, b) => Held(h, b) /\ Marked(h, mk, o, b)
    BY <1>4, <1>5
  <2>2. \A o, u \in Owners : \A s, t \in Place : \A b \in Blocks :
          In(h, o, s, b) /\ In(h, u, t, b) => o = u /\ s = t
    BY <1>4
  <2> QED
    BY <2>1, <2>2 DEF PiecesOK
<1>7. KernelStack \in Blocks /\ Held(h, KernelStack)
  <2> PICK b : b = KernelStack
    OBVIOUS
  <2>1. b.page = StackPage /\ b.idx = 0 /\ b.fs = 1 /\ b.n = 1 /\ b = [page |-> StackPage, idx |-> 0, fs |-> 1, n |-> 1]
    BY DEF KernelStack, Block, Frag
  <2>2. StackPage \in Fixed /\ StackPage \in Pages
    BY ConstFacts DEF Fixed, Pages
  <2>3. 1 \in 0..FragSizes /\ 1 \in Nat \ {0} /\ 0 \in Nat
    BY ConstFacts
  <2>4. b \in Blocks
    BY <2>1, <2>2, <2>3 DEF Blocks
  <2>5. 0 \in 0..(2 ^ 1 - 1)
    <3>1. 2 ^ 1 \in Nat \ {0, 1}
      BY ConstFacts
    <3> QED
      BY <3>1
  <2>6. FragHeld(h, b)
    BY <1>1, <2>1, <2>2, <2>5 DEF FragHeld
  <2> QED
    BY <2>1, <2>4, <2>6 DEF Held
<1>8. Spare(h, {KernelStack})
  <2>1. \A o \in Owners : \A s \in Place : ~In(h, o, s, KernelStack)
    <3>1. \A p : KernelStack # Block(p, 0, Page(1))
      BY DEF KernelStack, Block, Page, Frag
    <3> QED
      BY <1>4, <1>7, <3>1
  <2> QED
    BY <1>7, <2>1 DEF Spare
<1>9. OneIdle(h)
  <2>1. ASSUME NEW p \in Pages, NEW fs \in FragLogs PROVE Frags(p, fs) # {}
    <3>1. PICK m : m = 2 ^ fs
      OBVIOUS
    <3>2. 0 \in 0..(m - 1)
      BY <3>1, ConstFacts
    <3>3. [page |-> p, idx |-> 0] \in Frags(p, fs)
      BY <3>1, <3>2 DEF Frags
    <3> QED
      BY <3>3
  <2>2. \A o \in Owners : \A fs \in FragLogs : h.frags[o][fs] = {}
    OBVIOUS
  <2> QED
    BY <2>1, <2>2 DEF OneIdle
<1>10. IsFiniteSet(h.live[KERNEL])
  BY OwnersAre, FS_EmptySet
<1> QED
  BY <1>1, <1>2, <1>3, <1>6, <1>8, <1>9, <1>10 DEF HeapOK

LEMMA BootIs ==
  ASSUME NEW y \in Boot
  PROVE  \E h : \E x \in Starts(h, KERNEL, InitProc, ProcIds - 1) :
           Bare(h) /\ y = [h |-> FragFree(x.h, InitProc, KernelStack), got |-> x.got]
<1> DEFINE fixed == {0} \cup StackPage..(NumPages - 1)
           h == [map  |-> fixed \cup 1..FragSizes,
                 info |-> [p \in Pages |-> IF p \in fixed THEN [fs |-> 1, cont |-> TRUE, proc |-> 0]
                                          ELSE FreeInfo],
                 free |-> StackPage - 1 - FragSizes,
                 frags |-> [o \in Owners |-> [fs \in FragLogs |-> {}]],
                 live |-> [o \in Owners |-> IF o = NOBODY
                                          THEN {Block(p, 0, Page(1)) : p \in 1..FragSizes} ELSE {}]]
<1>1. Bare(h)
  BY DEF Bare, Fixed
<1>2. y \in {[h |-> FragFree(x.h, InitProc, KernelStack), got |-> x.got] :
               x \in Starts(h, KERNEL, InitProc, ProcIds - 1)}
  BY DEF Boot, KernelStack
<1> HIDE DEF h
<1>3. PICK x \in Starts(h, KERNEL, InitProc, ProcIds - 1) :
        y = [h |-> FragFree(x.h, InitProc, KernelStack), got |-> x.got]
  BY <1>2
<1> QED
  BY <1>1, <1>3

LEMMA KernelStackFreed ==
  ASSUME NEW f, NEW mk, HeapOK(f, mk, {KernelStack}), NEW o \in Owners, NEW g, g = FragFree(f, o, KernelStack)
  PROVE  HeapOK(g, mk, {}) /\ g.live = f.live /\ OtherFrags(f, g, o)
<1>1. PICK b : b = KernelStack
  OBVIOUS
<1>2. PICK X : X = {b}
  OBVIOUS
<1>3. b.fs # 0 /\ b \in X /\ X \ {b} = {} /\ HeapOK(f, mk, X) /\ g = FragFree(f, o, b)
  BY <1>1, <1>2 DEF KernelStack, Block, Frag
<1>4. Marked(f, mk, o, b)
  <2>1. StackPage \in Fixed
    BY ConstFacts DEF Fixed
  <2>2. f.info[StackPage].proc = 0
    BY <1>3, <2>1 DEF HeapOK, TableOK
  <2>3. Extent(b) = {StackPage}
    <3>1. b.page = StackPage /\ b.n = 1
      BY <1>1 DEF KernelStack, Block, Frag
    <3>2. StackPage + 1 - 1 = StackPage /\ StackPage..StackPage = {StackPage}
      BY ConstFacts
    <3> QED
      BY <3>1, <3>2 DEF Extent
  <2> QED
    BY <1>3, <2>2, <2>3 DEF Marked
<1>5. HeapOK(g, mk, X \ {b}) /\ g.map \subseteq f.map /\ g.live = f.live /\ OtherFrags(f, g, o)
  BY <1>3, <1>4, FragFreeKeeps
<1> QED
  BY <1>3, <1>5

LEMMA InitKeeps ==
  ASSUME NumbersFit, NEW y \in Boot, Complete(y),
         NEW i, i = [p \in Procs |-> IF p = InitProc THEN ProcIds - 1 ELSE 0],
         NEW s, s = [p \in Procs |-> IF p = InitProc THEN y.got ELSE <<>>]
  PROVE  Account(y.h, i, s, 1)
<1>0. PICK h : \E x \in Starts(h, KERNEL, InitProc, ProcIds - 1) :
        Bare(h) /\ y = [h |-> FragFree(x.h, InitProc, KernelStack), got |-> x.got]
  BY BootIs
<1>1. PICK x \in Starts(h, KERNEL, InitProc, ProcIds - 1) :
        Bare(h) /\ y = [h |-> FragFree(x.h, InitProc, KernelStack), got |-> x.got]
  BY <1>0
<1>2. PICK mk : mk = Marks(i, 1)
  OBVIOUS
<1>3. NumbersOK(i, 1) /\ ProcIds - 1 \in Nat \ {0}
  <2>1. MaxId \in Nat /\ ProcIds \in Nat \ {0} /\ OwnerIds \in Nat \ {0}
    BY ConstFacts
  <2>2. ProcIds - 1 \in Nat \ {0}
    <3>1. PICK k : k = ProcIds - 1
      OBVIOUS
    <3>2. k \in Nat
      BY <2>1, <3>1
    <3>3. PICK m : m = k % OwnerIds
      OBVIOUS
    <3>4. m \in 0..(OwnerIds - 1) /\ m <= k
      BY <2>1, <3>2, <3>3, Remainder
    <3>5. MaxId < m
      BY <3>1, <3>3, Zenon DEF NumbersFit
    <3> QED
      BY <2>1, <3>1, <3>2, <3>4, <3>5
  <2>3. i \in [Procs -> 0..(ProcIds - 1)] /\ 1 \in 1..(MaxId + 1)
    BY <2>1, <2>2
  <2>4. \A p, q \in Procs : i[p] = i[q] /\ i[p] # 0 => p = q
    BY <2>2
  <2>5. \A p \in Procs : i[p] < 1 \/ i[p] = ProcIds - 1
    OBVIOUS
  <2> QED
    BY <2>2, <2>3, <2>4, <2>5 DEF NumbersOK
<1>4. mk[KERNEL] = {0} /\ mk[NOBODY] = {0} /\ (ProcIds - 1) % OwnerIds \in mk[InitProc]
  <2>1. mk[KERNEL] = {0}
    BY <1>2, MarksAre
  <2>2. mk[InitProc] = {i[InitProc] % OwnerIds}
    BY <1>2, MarksAre, OwnersAre DEF OwnMark
  <2>3. \A m : m \in mk[NOBODY] <=> m \in 0..(OwnerIds - 1) /\ NoNumber(i, 1, m)
    BY <1>2, MarksAre
  <2>4. mk[NOBODY] = {0}
    <3>1. ASSUME NEW m \in 0..(OwnerIds - 1) PROVE NoNumber(i, 1, m) <=> m = 0
      BY <1>3 DEF NoNumber
    <3>2. 0 \in 0..(OwnerIds - 1)
      BY ConstFacts
    <3> QED
      BY <2>3, <3>1, <3>2
  <2>5. i[InitProc] = ProcIds - 1
    BY OwnersAre
  <2> QED
    BY <2>1, <2>2, <2>4, <2>5
<1>5. Started(h, KERNEL, InitProc, mk, {KernelStack}, x) /\ Sized(x, FragSizes + 5)
  <2>1. HeapOK(h, mk, {KernelStack})
    BY <1>1, <1>4, BareKeeps
  <2>2. \A fs \in FragLogs : h.frags[InitProc][fs] = {}
    BY <1>1, OwnersAre DEF Bare
  <2>3. KERNEL \in Owners /\ InitProc \in Owners \ {KERNEL} /\ ProcIds - 1 \in Nat
    BY <1>3, OwnersAre
  <2> QED
    BY <1>1, <1>4, <2>1, <2>2, <2>3, StartsGive
<1>6. /\ x.got \in Seq(Blocks) /\ Len(x.got) = FragSizes + 5
      /\ x.got[FragSizes + 1].fs = 0 /\ x.got[FragSizes + 2].fs # 0
      /\ Range(x.got) \subseteq x.h.live[InitProc]
  <2>1. Complete(x)
    BY <1>1 DEF Complete
  <2> QED
    BY <1>5, <2>1, CompleteIs
<1>7. /\ HeapOK(y.h, mk, {}) /\ y.h.live = x.h.live /\ OtherFrags(x.h, y.h, InitProc)
  <2>1. HeapOK(x.h, mk, {KernelStack})
    BY <1>5 DEF Started
  <2>2. y.h = FragFree(x.h, InitProc, KernelStack)
    BY <1>1
  <2> QED
    BY <2>1, <2>2, OwnersAre, KernelStackFreed
<1>8. s \in [Procs -> Seq(Blocks)]
  BY <1>1, <1>6
<1>9. ASSUME NEW p \in Procs PROVE ProcOK(y.h, i[p], s[p], p)
  <2>1. CASE p = InitProc
    <3>1. i[p] # 0 /\ s[p] = x.got
      BY <1>1, <1>3, <2>1
    <3> QED
      BY <1>6, <1>7, <2>1, <3>1 DEF ProcOK
  <2>2. CASE p # InitProc
    <3>1. i[p] = 0 /\ s[p] = <<>>
      BY <2>2
    <3>2. p \in Owners \ {KERNEL, InitProc} /\ p # NOBODY
      BY <2>2, OwnersAre
    <3>3. h.live[p] = {} /\ \A fs \in FragLogs : h.frags[p][fs] = {}
      BY <1>1, <3>2 DEF Bare
    <3>4. x.h.live[p] = {} /\ \A fs \in FragLogs : x.h.frags[p][fs] = {}
      BY <1>5, <3>2, <3>3 DEF Started
    <3>5. y.h.live[p] = {} /\ \A fs \in FragLogs : y.h.frags[p][fs] = {}
      BY <1>7, <3>2, <3>4 DEF OtherFrags
    <3> QED
      BY <3>1, <3>5 DEF ProcOK
  <2> QED
    BY <2>1, <2>2
<1> QED
  BY <1>2, <1>3, <1>7, <1>8, <1>9 DEF Account

-----------------------------------------------------------------------------
(* What is freed is free.                                                    *)

\* Heap g after h: blocks of pages that are gone, and no others have come, are free.
Settled(h, g) ==
  (\A o \in Owners : g.live[o] \subseteq h.live[o]) =>
    \A o \in Owners : \A b \in h.live[o] \ g.live[o] : b.fs = 0 => Extent(b) \cap g.map = {}

LEMMA CleanedSettles ==
  ASSUME NEW h, NEW o, NEW g, Cleaned(h, o, g)
  PROVE  Settled(h, g)
BY DEF Cleaned, Settled

LEMMA FreedSettles ==
  ASSUME NEW h, NEW o, NEW w, NEW b, NEW g, Freed(h, o, w, b, g)
  PROVE  Settled(h, g)
BY DEF Freed, Settled

LEMMA CleanedTwice ==
  ASSUME NEW h, NEW o, NEW c, NEW g, Cleaned(h, o, c), Cleaned(c, o, g)
  PROVE  Cleaned(h, o, g)
<1>1. g.live[KERNEL] \subseteq h.live[KERNEL] /\ \A u \in Owners : u # KERNEL => g.live[u] = h.live[u]
  BY DEF Cleaned
<1>2. g.map \subseteq h.map /\ OtherFrags(h, g, o)
  BY DEF Cleaned, OtherFrags
<1>3. ASSUME NEW b \in h.live[KERNEL] \ g.live[KERNEL], b.fs = 0 PROVE Extent(b) \cap g.map = {}
  <2>1. CASE b \in c.live[KERNEL]
    BY <1>3, <2>1 DEF Cleaned
  <2>2. CASE b \notin c.live[KERNEL]
    <3>1. Extent(b) \cap c.map = {}
      BY <1>3, <2>2 DEF Cleaned
    <3> QED
      BY <3>1 DEF Cleaned
  <2> QED
    BY <2>1, <2>2
<1> QED
  BY <1>1, <1>2, <1>3 DEF Cleaned

LEMMA TriedTwice ==
  ASSUME NEW h, NEW o, NEW c, NEW q, NEW r, NEW x, Cleaned(h, o, c), Tried(c, o, q, r, x)
  PROVE  Tried(h, o, q, r, x)
<1>1. CASE x.b = NoBlock /\ Cleaned(c, o, x.h)
  BY <1>1, CleanedTwice DEF Tried
<1>2. ASSUME NEW g, Cleaned(c, o, g), Given(g, q, r, x) PROVE Tried(h, o, q, r, x)
  <2>1. Cleaned(h, o, g)
    BY <1>2, CleanedTwice
  <2> QED
    BY <1>2, <2>1 DEF Tried
<1> QED
  BY <1>1, <1>2 DEF Tried

LEMMA TriedSettles ==
  ASSUME NEW h, NEW mk, HeapOK(h, mk, {}), NEW o \in Owners \ {KERNEL}, NEW q, q = o \/ q = KERNEL,
         NEW r, NEW x, Tried(h, o, q, r, x)
  PROVE  Settled(h, x.h)
<1>1. CASE Cleaned(h, o, x.h)
  BY <1>1, CleanedSettles
<1>2. ASSUME NEW g, Cleaned(h, o, g), Given(g, q, r, x),
             \A u \in Owners : x.h.live[u] \subseteq h.live[u],
             NEW u \in Owners, NEW b \in h.live[u], b \notin x.h.live[u], b.fs = 0
      PROVE  Extent(b) \cap x.h.map = {}
  <2>1. x.b \in x.h.live[q] /\ x.b \notin g.live[q] /\ x.b \in h.live[q] /\ q \in Owners
    BY <1>2, OwnersAre DEF Given
  <2>2. q = KERNEL
    BY <1>2, <2>1 DEF Cleaned
  <2>3. g.live[u] \subseteq x.h.live[u]
    BY <1>2, <2>2 DEF Given
  <2>4. u = KERNEL /\ b \in h.live[KERNEL] \ g.live[KERNEL]
    BY <1>2, <2>3 DEF Cleaned
  <2>5. Extent(b) \cap g.map = {}
    BY <1>2, <2>4 DEF Cleaned
  <2>6. x.h.map = g.map \cup Extent(x.b)
    BY <1>2 DEF Given
  <2>7. Extent(b) \cap Extent(x.b) = {}
    <3>1. b # x.b /\ b \in h.live[KERNEL] /\ x.b \in h.live[KERNEL]
      BY <1>2, <2>1, <2>2, <2>4
    <3>2. h \in HeapRec /\ TableOK(h)
      BY DEF HeapOK
    <3>3. b \in Blocks /\ x.b \in Blocks /\ In(h, KERNEL, "live", b) /\ In(h, KERNEL, "live", x.b)
      BY <3>1, <3>2, LiveBlocks, LiveIn, OwnersAre
    <3>4. Held(h, b) /\ Held(h, x.b)
      BY <3>3, PlacedIs, Places, OwnersAre
    <3> QED
      BY <1>2, <3>1, <3>2, <3>3, <3>4, HeldApart
  <2> QED
    BY <2>5, <2>6, <2>7
<1> QED
  BY <1>1, <1>2 DEF Tried, Settled

-----------------------------------------------------------------------------
(* Every step.                                                               *)

\* What FreedIsFree says of one step.
Frees ==
  /\ id' = id /\ (\A o \in Owners : heap'.live[o] \subseteq heap.live[o]) =>
       \A o \in Owners : \A b \in heap.live[o] \ heap'.live[o] :
         b.fs = 0 => Extent(b) \cap heap'.map = {}
  /\ \A p \in Procs : Exits(p) /\ id[p] < OwnerIds => Returned(p)

LEMMA SettledFrees ==
  ASSUME id' = id, Settled(heap, heap')
  PROVE  Frees
<1>1. \A p \in Procs : ~Exits(p)
  BY DEF Exits
<1> QED
  BY <1>1 DEF Frees, Settled

LEMMA RequestsAre == \A o \in Owners : \A r \in Requests[o] : IsRequest(r)
  BY HeapAssumption DEF IsRequest

LEMMA MallocStep ==
  ASSUME HeapInv, NEW p \in Procs, NEW r \in Requests[p], Malloc(p, r)
  PROVE  HeapInv' /\ Frees
<1>1. /\ Account(heap, id, starts, proc_id) /\ id[p] # 0 /\ stalled \in BOOLEAN
      /\ UNCHANGED <<id, starts, proc_id>>
  BY DEF HeapInv, Malloc, Runs
<1>2. PICK h \in Cleanups(heap, p) \cup {heap} :
        IF h.free < r.n + Reserve
        THEN heap' = h /\ stalled' = TRUE
        ELSE /\ \E x \in Pmalloc(h, p, p, id[p], r) : heap' = x.h
             /\ UNCHANGED stalled
  BY DEF Malloc
<1>3. Account(h, id, starts, proc_id) /\ Cleaned(heap, p, h)
  BY <1>1, CleanedKeeps
<1>4. CASE heap' = h /\ stalled' = TRUE
  <2>1. Settled(heap, heap')
    BY <1>3, <1>4, CleanedSettles
  <2> QED
    BY <1>1, <1>3, <1>4, <2>1, SettledFrees DEF HeapInv
<1>5. CASE (\E x \in Pmalloc(h, p, p, id[p], r) : heap' = x.h) /\ UNCHANGED stalled
  <2>1. PICK x \in Pmalloc(h, p, p, id[p], r) : heap' = x.h
    BY <1>5
  <2>2. IsRequest(r)
    BY RequestsAre, OwnersAre
  <2>3. Account(x.h, id, starts, proc_id) /\ Tried(h, p, p, r, x)
    BY <1>1, <1>3, <2>2, PmallocKeeps
  <2>4. Tried(heap, p, p, r, x)
    BY <1>3, <2>3, TriedTwice
  <2>5. Settled(heap, x.h)
    <3>1. HeapOK(heap, Marks(id, proc_id), {}) /\ p \in Owners \ {KERNEL}
      BY <1>1, OwnersAre DEF Account
    <3> QED
      BY <2>4, <3>1, TriedSettles
  <2> QED
    BY <1>1, <1>5, <2>1, <2>3, <2>5, SettledFrees DEF HeapInv
<1> QED
  BY <1>2, <1>4, <1>5

LEMMA KmallocStep ==
  ASSUME HeapInv, NEW p \in Procs, NEW r \in Requests[KERNEL], Kmalloc(p, r)
  PROVE  HeapInv' /\ Frees
<1>1. /\ Account(heap, id, starts, proc_id) /\ id[p] # 0 /\ stalled \in BOOLEAN
      /\ UNCHANGED <<id, starts, proc_id, stalled>>
  BY DEF HeapInv, Kmalloc, Runs
<1>2. PICK x \in Pmalloc(heap, p, KERNEL, 0, r) : heap' = x.h
  BY DEF Kmalloc
<1>3. IsRequest(r)
  BY RequestsAre, OwnersAre
<1>4. Account(x.h, id, starts, proc_id) /\ Tried(heap, p, KERNEL, r, x)
  BY <1>1, <1>3, PmallocKeeps
<1>5. Settled(heap, x.h)
  <2>1. HeapOK(heap, Marks(id, proc_id), {}) /\ p \in Owners \ {KERNEL}
    BY <1>1, OwnersAre DEF Account
  <2> QED
    BY <1>4, <2>1, TriedSettles
<1> QED
  BY <1>1, <1>2, <1>4, <1>5, SettledFrees DEF HeapInv

LEMMA FreeStep ==
  ASSUME HeapInv, NEW p \in Procs, Free(p)
  PROVE  HeapInv' /\ Frees
<1>1. /\ Account(heap, id, starts, proc_id) /\ id[p] # 0 /\ stalled \in BOOLEAN
      /\ UNCHANGED <<id, starts, proc_id, stalled>>
  BY DEF HeapInv, Free, Runs
<1>2. PICK b \in heap.live[p] : b \notin Range(starts[p]) /\ heap' = FreeBlock(heap, p, p, b)
  BY DEF Free, Own
<1>3. Account(heap', id, starts, proc_id) /\ Freed(heap, p, p, b, heap')
  BY <1>1, <1>2, FreeKeeps
<1>4. Settled(heap, heap')
  BY <1>3, FreedSettles
<1> QED
  BY <1>1, <1>3, <1>4, SettledFrees DEF HeapInv

LEMMA KfreeStep ==
  ASSUME HeapInv, NEW p \in Procs, Kfree(p)
  PROVE  HeapInv' /\ Frees
<1>1. /\ Account(heap, id, starts, proc_id) /\ id[p] # 0 /\ stalled \in BOOLEAN
      /\ UNCHANGED <<id, starts, proc_id, stalled>>
  BY DEF HeapInv, Kfree, Runs
<1>2. PICK b \in heap.live[KERNEL] : heap' = FreeBlock(heap, p, KERNEL, b)
  BY DEF Kfree
<1>3. Account(heap', id, starts, proc_id) /\ Freed(heap, p, KERNEL, b, heap')
  <2>1. KERNEL # p
    BY OwnersAre
  <2> QED
    BY <1>1, <1>2, <2>1, FreeKeeps
<1>4. Settled(heap, heap')
  BY <1>3, FreedSettles
<1> QED
  BY <1>1, <1>3, <1>4, SettledFrees DEF HeapInv

LEMMA ExitStep ==
  ASSUME NumbersFit, HeapInv, NEW p \in Procs, Exit(p)
  PROVE  HeapInv' /\ Frees
<1>1. /\ Account(heap, id, starts, proc_id) /\ id[p] # 0 /\ stalled \in BOOLEAN
      /\ heap' = KillProc(heap, p, p, id[p], starts[p])
      /\ id' = [id EXCEPT ![p] = 0] /\ starts' = [starts EXCEPT ![p] = <<>>]
      /\ UNCHANGED <<proc_id, stalled>>
  BY DEF HeapInv, Exit, Runs
<1>2. /\ Account(heap', id', starts', proc_id)
      /\ id[p] < OwnerIds => \A b \in heap.live[p] : b.fs = 0 => Extent(b) \cap heap'.map = {}
  BY <1>1, ExitKeeps
<1>3. id \in [Procs -> 0..(ProcIds - 1)]
  BY <1>1 DEF Account, NumbersOK
<1>4. id' # id /\ \A q \in Procs : Exits(q) => q = p
  BY <1>1, <1>3 DEF Exits
<1>5. Frees
  BY <1>2, <1>4 DEF Frees, Returned
<1> QED
  BY <1>1, <1>2, <1>5 DEF HeapInv

LEMMA SpawnStep ==
  ASSUME NumbersFit, HeapInv, NEW p \in Procs, NEW q \in Procs, Spawn(p, q)
  PROVE  HeapInv' /\ Frees
<1>1. /\ Account(heap, id, starts, proc_id) /\ id[p] # 0 /\ id[q] = 0 /\ proc_id <= MaxId
      /\ stalled \in BOOLEAN /\ UNCHANGED stalled
  BY DEF HeapInv, Spawn, Runs
<1>2. PICK x \in Starts(heap, p, q, proc_id) :
        \/ /\ Complete(x) /\ heap' = x.h
           /\ id' = [id EXCEPT ![q] = proc_id] /\ starts' = [starts EXCEPT ![q] = x.got]
        \/ /\ FailsAt(x, 1) \/ FailsAt(x, 2) \/ FailsAt(x, 3)
           /\ heap' = Forsaken(x.h, q) /\ UNCHANGED <<id, starts>>
  BY DEF Spawn
<1>3. proc_id \in Nat \ {0} /\ proc_id' = proc_id + 1
  <2>1. /\ proc_id \in 1..(MaxId + 1) /\ MaxId \in Nat /\ MaxId < ProcIds - 1 /\ ProcIds \in Nat
        /\ id \in [Procs -> 0..(ProcIds - 1)]
    BY <1>1, Kept, ConstFacts DEF Account, NumbersOK
  <2>2. proc_id' = IF proc_id + 1 = ProcIds THEN 1 ELSE proc_id + 1
    BY DEF Spawn, NextId
  <2> QED
    BY <1>1, <2>1, <2>2
<1>4. CASE /\ Complete(x) /\ heap' = x.h
           /\ id' = [id EXCEPT ![q] = proc_id] /\ starts' = [starts EXCEPT ![q] = x.got]
  <2>1. Account(heap', id', starts', proc_id')
    BY <1>1, <1>3, <1>4, SpawnKeeps
  <2>2. id \in [Procs -> 0..(ProcIds - 1)]
    BY <1>1 DEF Account, NumbersOK
  <2>3. id' # id /\ \A u \in Procs : ~Exits(u)
    BY <1>1, <1>3, <1>4, <2>2 DEF Exits
  <2>4. Frees
    BY <2>3 DEF Frees
  <2> QED
    BY <1>1, <2>1, <2>4 DEF HeapInv
<1>5. CASE /\ FailsAt(x, 1) \/ FailsAt(x, 2) \/ FailsAt(x, 3)
           /\ heap' = Forsaken(x.h, q) /\ UNCHANGED <<id, starts>>
  <2>1. ~Complete(x) /\ Len(x.got) > 1
    <3>1. \A k \in {1, 2, 3} : FragSizes + k > 1
      BY ConstFacts
    <3> QED
      BY <1>5, <3>1 DEF FailsAt
  <2>2. /\ Account(heap', id, starts, proc_id + 1)
        /\ ~(heap'.live[NOBODY] \subseteq heap.live[NOBODY])
    BY <1>1, <1>5, <2>1, SpawnKeeps
  <2>3. Settled(heap, heap')
    BY <2>2, OwnersAre DEF Settled
  <2> QED
    BY <1>1, <1>3, <1>5, <2>2, <2>3, SettledFrees DEF HeapInv
<1> QED
  BY <1>2, <1>4, <1>5

LEMMA NextStep ==
  ASSUME NumbersFit, HeapInv, Next
  PROVE  HeapInv' /\ Frees
<1>1. PICK p \in Procs : \/ Free(p) \/ Kfree(p) \/ Exit(p)
                         \/ \E r \in Requests[p] : Malloc(p, r)
                         \/ \E r \in Requests[KERNEL] : Kmalloc(p, r)
                         \/ \E q \in Procs : Spawn(p, q)
  BY DEF Next
<1>2. CASE Free(p)
  BY <1>2, FreeStep
<1>3. CASE Kfree(p)
  BY <1>3, KfreeStep
<1>4. CASE Exit(p)
  BY <1>4, ExitStep
<1>5. CASE \E r \in Requests[p] : Malloc(p, r)
  BY <1>5, MallocStep
<1>6. CASE \E r \in Requests[KERNEL] : Kmalloc(p, r)
  BY <1>6, KmallocStep
<1>7. CASE \E q \in Procs : Spawn(p, q)
  BY <1>7, SpawnStep
<1> QED
  BY <1>1, <1>2, <1>3, <1>4, <1>5, <1>6, <1>7

LEMMA InitInv ==
  ASSUME NumbersFit, Init
  PROVE  HeapInv
<1>1. PICK x \in Boot :
        /\ Complete(x) /\ heap = x.h
        /\ id = [p \in Procs |-> IF p = InitProc THEN ProcIds - 1 ELSE 0]
        /\ starts = [p \in Procs |-> IF p = InitProc THEN x.got ELSE <<>>]
        /\ proc_id = 1 /\ stalled = FALSE
  BY DEF Init
<1>2. Account(x.h, id, starts, 1)
  BY <1>1, InitKeeps
<1> QED
  BY <1>1, <1>2 DEF HeapInv

\* The page table describes every block that is handed out or on a fragment stack, no
\* block is in two places, the free pages are counted, and a process has what it was
\* started with (kern/mem/mem.c).
THEOREM HeapInvariant ==
  ASSUME NumbersFit
  PROVE  Spec => []HeapInv
<1>1. Init => HeapInv
  BY InitInv
<1>2. HeapInv /\ [Next]_vars => HeapInv'
  <2>1. CASE Next
    BY <2>1, NextStep
  <2>2. CASE UNCHANGED vars
    BY <2>2 DEF vars, HeapInv
  <2> QED
    BY <2>1, <2>2
<1> QED
  BY <1>1, <1>2, PTL DEF Spec

-----------------------------------------------------------------------------
(* What the invariant says of the allocator.                                 *)

LEMMA HeapFacts ==
  ASSUME HeapInv
  PROVE  /\ HeapOK(heap, Marks(id, proc_id), {}) /\ heap \in HeapRec /\ TableOK(heap)
         /\ NumbersOK(id, proc_id)
  BY DEF HeapInv, Account, HeapOK

LEMMA OnStackIs ==
  ASSUME HeapInv, NEW o \in Owners, NEW b \in OnStack(o)
  PROVE  b \in Blocks /\ In(heap, o, "stack", b)
<1>1. PICK fs \in FragLogs : b \in {Block(f.page, f.idx, Frag(fs)) : f \in heap.frags[o][fs]}
  BY DEF OnStack
<1>2. PICK f \in heap.frags[o][fs] : b = Block(f.page, f.idx, Frag(fs))
  BY <1>1
<1> QED
  BY <1>2, HeapFacts, StackedIs

LEMMA LiveFacts ==
  ASSUME HeapInv, NEW o \in Owners, NEW b \in heap.live[o]
  PROVE  b \in Blocks /\ In(heap, o, "live", b)
  BY HeapFacts, LiveBlocks, LiveIn

LEMMA PlacesApart ==
  ASSUME HeapInv, NEW o \in Owners, NEW u \in Owners, NEW s \in Place, NEW t \in Place,
         NEW a \in Blocks, NEW b \in Blocks, In(heap, o, s, a), In(heap, u, t, b),
         o # u \/ s # t \/ a # b
  PROVE  ~Overlap(a, b)
<1>1. PICK mk : mk = Marks(id, proc_id)
  OBVIOUS
<1>2. HeapOK(heap, mk, {}) /\ heap \in HeapRec /\ TableOK(heap)
  BY <1>1, HeapFacts
<1>3. Held(heap, a) /\ Held(heap, b) /\ a # b
  BY <1>2, PlacedIs
<1> QED
  BY <1>2, <1>3, HeldApart

LEMMA InvApart ==
  ASSUME HeapInv
  PROVE  NoOverlap
<1>1. ASSUME NEW o \in Owners, NEW u \in Owners
      PROVE  /\ \A a \in heap.live[o], b \in heap.live[u] : (o # u \/ a # b) => ~Overlap(a, b)
             /\ \A a \in heap.live[o], f \in OnStack(u) : ~Overlap(a, f)
             /\ \A a \in OnStack(o), b \in OnStack(u) : (o # u \/ a # b) => ~Overlap(a, b)
  BY LiveFacts, OnStackIs, PlacesApart, Places
<1> QED
  BY <1>1 DEF NoOverlap

LEMMA InvHolds ==
  ASSUME HeapInv
  PROVE  BlocksHold
<1>1. PICK mk : mk = Marks(id, proc_id)
  OBVIOUS
<1>2. HeapOK(heap, mk, {}) /\ heap \in HeapRec /\ TableOK(heap)
  BY <1>1, HeapFacts
<1>3. ASSUME NEW o \in Owners, NEW b \in heap.live[o]
      PROVE  /\ Extent(b) \subseteq heap.map
             /\ heap.info[b.page].fs = b.fs
             /\ b.fs = 0 => Chain(heap, b.page) = Extent(b)
             /\ ~Locked(heap, b.page) => Locked(heap, b.page - 1) \/ ~heap.info[b.page - 1].cont
  <2>1. b \in Blocks /\ Held(heap, b)
    BY <1>2, LiveFacts, PlacedIs, Places
  <2>2. Extent(b) \subseteq heap.map /\ heap.info[b.page].fs = b.fs
    BY <1>2, <2>1, HeldUsed, BlockFields
  <2>3. CASE b.fs = 0 \/ b.page \notin Fixed
    <3>1. /\ Chain(heap, b.page) = Extent(b)
          /\ Locked(heap, b.page - 1) \/ ~heap.info[b.page - 1].cont
      BY <1>2, <2>1, <2>3, ChainIs
    <3> QED
      BY <2>2, <3>1
  <2>4. CASE b.fs # 0 /\ b.page \in Fixed
    <3>1. Locked(heap, b.page)
      BY <1>2, <2>4 DEF TableOK, Locked
    <3> QED
      BY <2>2, <2>4, <3>1
  <2> QED
    BY <2>3, <2>4
<1>4. ASSUME NEW o \in Owners, NEW f \in OnStack(o)
      PROVE  f.page \in heap.map /\ heap.info[f.page].fs = f.fs
  <2>1. f \in Blocks /\ Held(heap, f)
    BY <1>2, OnStackIs, PlacedIs, Places
  <2> QED
    BY <1>2, <2>1, HeldUsed, BlockFields
<1> QED
  BY <1>3, <1>4 DEF BlocksHold

LEMMA InvCounts ==
  ASSUME NumbersFit, HeapInv
  PROVE  AccountsExact
<1>1. heap \in HeapRec /\ heap.free = Cardinality(Pages \ heap.map) /\ OneIdle(heap)
  BY HeapFacts DEF HeapOK
<1>2. heap.free \in 0..NumPages
  <2>1. IsFiniteSet(Pages) /\ Cardinality(Pages) = NumPages
    <3>1. PICK n : n = NumPages - 1
      OBVIOUS
    <3>2. n \in Int /\ 0 \in Int /\ ~(0 > n) /\ n - 0 + 1 = NumPages
      BY <3>1, ConstFacts
    <3>3. IsFiniteSet(0..n) /\ Cardinality(0..n) = IF 0 > n THEN 0 ELSE n - 0 + 1
      BY <3>2, FS_Interval
    <3>4. Pages = 0..n
      BY <3>1 DEF Pages
    <3> QED
      BY <3>2, <3>3, <3>4
  <2>2. Cardinality(Pages \ heap.map) <= Cardinality(Pages) /\ Cardinality(Pages \ heap.map) \in Nat
    <3>1. Pages \ heap.map \in SUBSET Pages
      OBVIOUS
    <3> QED
      BY <2>1, <3>1, FS_Subset, PagesFinite
  <2> QED
    BY <1>1, <2>1, <2>2, ConstFacts
<1>3. heap.map \subseteq Pages /\ heap.info \in [Pages -> InfoRec]
  BY <1>1 DEF HeapRec
<1>4. ASSUME NEW o \in Owners
      PROVE  /\ heap.live[o] \subseteq Blocks
             /\ \A fs \in FragLogs : heap.frags[o][fs] \subseteq Fragments
  BY <1>1 DEF HeapRec, StackSet
<1>5. id \in [Procs -> 0..(ProcIds - 1)] /\ proc_id \in 1..(ProcIds - 1)
  <2>1. NumbersOK(id, proc_id)
    BY HeapFacts
  <2>2. proc_id <= MaxId + 1 /\ MaxId < ProcIds - 1
    BY <2>1, Kept
  <2> QED
    BY <2>1, <2>2, ConstFacts DEF NumbersOK
<1>6. ASSUME NEW p \in Procs PROVE Range(starts[p]) \subseteq heap.live[p]
  <2>1. ProcOK(heap, id[p], starts[p], p)
    BY DEF HeapInv, Account
  <2>2. Range(<<>>) = {}
    BY DEF Range
  <2> QED
    BY <2>1, <2>2 DEF ProcOK
<1>7. TypeOK
  BY <1>2, <1>3, <1>4, <1>5, <1>6 DEF TypeOK, HeapInv, InfoRec
<1>8. OneIdlePage
  <2> SUFFICES ASSUME NEW o \in Owners, NEW fs \in FragLogs
               PROVE  Cardinality({p \in Pages : Frags(p, fs) \subseteq heap.frags[o][fs]}) <= 1
    BY DEF OneIdlePage
  <2>1. PICK S : S = {p \in Pages : Frags(p, fs) \subseteq heap.frags[o][fs]}
    OBVIOUS
  <2>2. \A p, q \in S : p = q
    BY <1>1, <2>1 DEF OneIdle
  <2>3. CASE S = {}
    BY <2>1, <2>3, FS_EmptySet
  <2>4. CASE S # {}
    <3>1. PICK p : p \in S
      BY <2>4
    <3>2. S = {p}
      BY <2>2, <3>1
    <3>3. Cardinality(S) = 1
      BY <3>2, FS_Singleton
    <3> QED
      BY <2>1, <3>3
  <2> QED
    BY <2>3, <2>4
<1> QED
  BY <1>1, <1>7, <1>8 DEF AccountsExact, FreeCountExact

\* The variables have their types, mem_num_pages_free is the number of free pages,
\* and at most one page of a size is idle on a stack (mem_frag_clean_stack).
THEOREM AccountsAreExact ==
  ASSUME NumbersFit
  PROVE  Spec => []AccountsExact
<1>1. HeapInv => AccountsExact
  BY InvCounts
<1> QED
  BY <1>1, HeapInvariant, PTL

\* No memory is handed out twice, or waits on a stack while it is in use.
THEOREM BlocksAreApart ==
  ASSUME NumbersFit
  PROVE  Spec => []NoOverlap
<1>1. HeapInv => NoOverlap
  BY InvApart
<1> QED
  BY <1>1, HeapInvariant, PTL

\* The page table describes every block so that free() frees that block.
THEOREM PageTableHolds ==
  ASSUME NumbersFit
  PROVE  Spec => []BlocksHold
<1>1. HeapInv => BlocksHold
  BY InvHolds
<1> QED
  BY <1>1, HeapInvariant, PTL

\* What a step frees is free after it, and so are the pages of a process that exits.
THEOREM FreedPagesAreFree ==
  ASSUME NumbersFit
  PROVE  Spec => FreedIsFree
<1>1. HeapInv /\ [Next]_vars => [Frees]_vars
  BY NextStep
<1> QED
  BY <1>1, HeapInvariant, PTL DEF Spec, FreedIsFree, Frees
=============================================================================
