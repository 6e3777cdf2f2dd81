---------------------------- MODULE ObjFs_proofs ----------------------------
(***************************************************************************)
(* The file calls keep directory entries, references and the records of      *)
(* wrapfs in order, and open files in memory, for any numbers of processes,  *)
(* objects, entries, records and names, as long as files of wrapfs are not   *)
(* removed and nobody opens a file that is being removed; and they implement *)
(* NameSpace.                                                              *)
(***************************************************************************)
EXTENDS ObjFsProps, Queue_proofs

-----------------------------------------------------------------------------
(* The inductive invariant.                                                *)

ObjRec == [dir : Dirs, file : Names \cup {""}, refcnt : Nat, dirent : Dirents \cup {NULL},
           made : BOOLEAN, id : Recs \cup {NULL}, detail : Recs \cup {NULL}]
HostRec == [name : Names \cup {""}, prev : Recs \cup {NULL}, next : Recs \cup {NULL},
            obj : Objs \cup {NULL}]
FsType ==
  [prev  : [Dirents -> Dirents \cup {NULL}], next : [Dirents -> Dirents \cup {NULL}],
   first : [Lists -> Dirents \cup {NULL}], last : [Lists -> Dirents \cup {NULL}],
   name  : [Dirents -> Names \cup {""}], of : [Dirents -> Objs \cup {NULL}],
   obj   : [Objs -> ObjRec], free : Seq(Objs), host : Seq(Names), numrecs : Recs \cup {0},
   childs : Recs \cup {NULL}, cached : BOOLEAN, rec : [Recs -> HostRec]]

\* The entries of a list, the records of the list of /local.
In(f, l)  == Range(WalkFrom(f, f.first[l], NumDirents)) \ {NULL}
Linked(f) == Range(Chain(f)) \ {NULL}

\* The objects in use.
Live(f)  == Objs \ Range(f.free)
Local(f) == {o \in Live(f) : f.obj[o].dir = "local"}

\* A directory entry leads to the object.
Known(f) == {o \in Live(f) : /\ f.obj[o].dirent \in In(f, f.obj[o].dir)
                             /\ f.of[f.obj[o].dirent] = o}

\* Every directory entry is in one list.
Shared(f) ==
  /\ \A l \in Lists : In(f, l) \subseteq Dirents /\ OnChain(f, l, In(f, l))
  /\ \A l, m \in Lists : l # m => In(f, l) \cap In(f, m) = {}
  /\ UNION {In(f, l) : l \in Lists} = Dirents

\* The entries of a directory and its objects belong together.
Named(f) ==
  /\ \A i, j \in DOMAIN f.free : f.free[i] = f.free[j] => i = j
  /\ \A dir \in Dirs : \A d \in In(f, dir) :
       /\ f.of[d] \in Live(f) /\ f.name[d] \in Names
       /\ f.obj[f.of[d]].dirent = d /\ f.obj[f.of[d]].dir = dir
       /\ f.obj[f.of[d]].file = f.name[d]
       /\ \A e \in In(f, dir) : f.name[e] = f.name[d] => e = d

\* Nothing is known of /local before it is read.
Untouched(f) ==
  /\ f.numrecs = 0 /\ f.childs = NULL /\ Local(f) = {}
  /\ Len(f.host) <= NumRecs
  /\ \A i, j \in 1..Len(f.host) : f.host[i] = f.host[j] => i = j

RecNext(f) == [w \in Recs |-> f.rec[w].next]
RecPrev(f) == [w \in Recs |-> f.rec[w].prev]

\* The records are linked, and none is there twice.
Records(f) ==
  /\ ~f.cached => Untouched(f)
  /\ Linked(f) \subseteq 1..f.numrecs
  /\ \E t \in Recs \cup {NULL} : IsChain(Linked(f), RecNext(f), RecPrev(f), f.childs, t)
  /\ \A v, w \in Linked(f) : f.rec[v].name = f.rec[w].name => v = w
  /\ \A w \in Linked(f) : f.rec[w].name \in Range(f.host)

\* The objects of /local and the records belong together.
Hosted(f) ==
  /\ \A w \in 1..f.numrecs : f.rec[w].obj # NULL =>
       f.rec[w].obj \in Local(f) /\ f.obj[f.rec[w].obj].id = w
  /\ \A o \in Local(f) :
       /\ o \in Known(f) /\ f.obj[o].id \in 1..f.numrecs
       /\ f.rec[f.obj[o].id].name = f.obj[o].file /\ f.obj[o].file \in Range(f.host)

FsInv(f) == f \in FsType /\ Shared(f) /\ Named(f) /\ Records(f) /\ Hosted(f)

\* The table entries of all processes that refer to o.
HandlesIn(t, o) == UNION {{p} \X (1..t[p][o]) : p \in Procs}

Counted(f, t) == \A o \in Objs :
  /\ IsFiniteSet(HandlesIn(t, o))
  /\ o \in Live(f) => f.obj[o].refcnt \in Cardinality(HandlesIn(t, o))..
                        (Cardinality(HandlesIn(t, o)) + IF f.obj[o].made THEN 1 ELSE 0)

\* What a process has open is known.
Held1(f, t) == \A p \in Procs : \A o \in Objs : t[p][o] > 0 => o \in Known(f)

\* A removal is of a file of memfs that nobody else has open in the end.
Removals(f, t, at, wh) ==
  /\ \A p \in Procs : at[p] \in {"check", "remove"} =>
       wh[p] \in Known(f) /\ f.obj[wh[p]].dir = "memfs"
  /\ \A p \in Procs : at[p] = "check" => t[p][wh[p]] > 0
  /\ \A p, q \in Procs : at[p] = "remove" => t[q][wh[p]] = 0
  /\ \A p, q \in Procs : at[p] \in {"busy", "remove"} /\ at[q] \in {"busy", "remove"} => p = q

ObjFsInv ==
  /\ TypeOK /\ FsInv(fs) /\ Counted(fs, table) /\ Held1(fs, table)
  /\ Removals(fs, table, pc, what)
-----------------------------------------------------------------------------
(* The record of files, field by field.                                    *)

LEMMA NumbersAreNat ==
  /\ NumObjs \in Nat /\ NumObjs > 0 /\ NumDirents \in Nat /\ NumDirents > 0
  /\ NumRecs \in Nat /\ NumRecs > 0
  /\ NULL \notin Dirents /\ NULL \notin Objs /\ NULL \notin Recs
BY ObjFsAssumption DEF NULL, Dirents, Objs, Recs

LEMMA FsLinks ==
  ASSUME NEW f \in FsType
  PROVE  Links(f, Dirents, Lists)
<1>1. IsHeap(f)
  BY DEF FsType, IsHeap, LinkFields
<1> QED
  BY <1>1, NumbersAreNat DEF FsType, Links

LEMMA FsFields ==
  ASSUME NEW f \in FsType
  PROVE  /\ f.name \in [Dirents -> Names \cup {""}] /\ f.of \in [Dirents -> Objs \cup {NULL}]
         /\ f.obj \in [Objs -> ObjRec] /\ f.free \in Seq(Objs) /\ f.host \in Seq(Names)
         /\ f.numrecs \in Nat /\ f.numrecs \in 0..NumRecs
         /\ f.childs \in Recs \cup {NULL} /\ f.cached \in BOOLEAN
         /\ f.rec \in [Recs -> HostRec] /\ \A w \in 1..f.numrecs : w \in Recs
<1>1. /\ f.name \in [Dirents -> Names \cup {""}] /\ f.of \in [Dirents -> Objs \cup {NULL}]
      /\ f.obj \in [Objs -> ObjRec] /\ f.free \in Seq(Objs) /\ f.host \in Seq(Names)
      /\ f.numrecs \in Recs \cup {0} /\ f.childs \in Recs \cup {NULL} /\ f.cached \in BOOLEAN
      /\ f.rec \in [Recs -> HostRec]
  BY DEF FsType
<1>2. f.numrecs \in Recs \/ f.numrecs = 0
  BY <1>1
<1>3. f.numrecs \in 0..NumRecs
  BY <1>2, NumbersAreNat DEF Recs
<1>4. f.numrecs \in Nat
  BY <1>3, NumbersAreNat
<1>5. \A w \in 1..f.numrecs : w \in Recs
  BY <1>3, NumbersAreNat DEF Recs
<1> QED
  BY <1>1, <1>3, <1>5, <1>4

LEMMA LinksFs ==
  ASSUME NEW f \in FsType, NEW g, OnlyLinks(f, g), Links(g, Dirents, Lists)
  PROVE  /\ g \in FsType /\ g.name = f.name /\ g.of = f.of /\ g.obj = f.obj
         /\ g.free = f.free /\ g.host = f.host /\ g.numrecs = f.numrecs
         /\ g.childs = f.childs /\ g.cached = f.cached /\ g.rec = f.rec
<1>1. DOMAIN f = {"prev", "next", "first", "last", "name", "of", "obj", "free", "host",
                  "numrecs", "childs", "cached", "rec"}
  BY DEF FsType
<1>2. /\ g.name = f.name /\ g.of = f.of /\ g.obj = f.obj
      /\ g.free = f.free /\ g.host = f.host /\ g.numrecs = f.numrecs
      /\ g.childs = f.childs /\ g.cached = f.cached /\ g.rec = f.rec
  BY <1>1 DEF OnlyLinks, LinkFields
<1>3. g = [x \in DOMAIN f |-> g[x]]
  BY DEF OnlyLinks, IsHeap
<1>4. g \in FsType
  BY <1>1, <1>2, <1>3 DEF FsType, Links
<1> QED
  BY <1>2, <1>4

\* Following the links from its header finds exactly the entries of a list.
LEMMA ChainIsIn ==
  ASSUME NEW f \in FsType, NEW l \in Lists, NEW P \in SUBSET Dirents, OnChain(f, l, P)
  PROVE  In(f, l) = P
<1> DEFINE w == WalkFrom(f, f.first[l], NumDirents)
<1>1. IsWalk(w, f.next, f.first[l], NumDirents) /\ NumDirents \in Nat
  BY WalkFromIsWalk, NumbersAreNat
<1> HIDE DEF w
<1>2. In(f, l) = {w[i] : i \in 1..NumDirents} \ {NULL}
  BY <1>1 DEF IsWalk, In, Range, w
<1>3. CASE P = {}
  <2>1. w \in [1..NumDirents -> {NULL}]
    BY <1>1, <1>3, WalkOfNull DEF OnChain, IsChain
  <2> QED
    BY <1>2, <1>3, <2>1
<1>4. CASE P # {}
  <2>1. IsFiniteSet(P) /\ Cardinality(P) <= NumDirents
    <3>1. IsFiniteSet(Dirents) /\ Cardinality(Dirents) = NumDirents
      BY FS_Interval, NumbersAreNat DEF Dirents
    <3> QED
      BY <3>1, FS_Subset
  <2>2. /\ NULL \notin P /\ f.first[l] \in P /\ Reaches(P, f.next, f.first[l])
        /\ \A p \in P : f.next[p] \in P \cup {NULL}
    BY <1>4 DEF OnChain, IsChain
  <2> QED
    BY <1>1, <1>2, <2>1, <2>2, WalkMembers
<1> QED
  BY <1>3, <1>4

\* The same for the list of records.
LEMMA ChainIsLinked ==
  ASSUME NEW f \in FsType, NEW P \in SUBSET Recs, NEW t,
         IsChain(P, RecNext(f), RecPrev(f), f.childs, t)
  PROVE  Linked(f) = P
<1> DEFINE w == Chain(f)
           nx == RecNext(f)
<1>1. IsWalk(w, nx, f.childs, NumRecs) /\ NumRecs \in Nat
  <2> DEFINE m == [next |-> nx]
  <2>1. m.next = nx /\ w = WalkFrom(m, f.childs, NumRecs)
    BY DEF Chain, RecNext
  <2> HIDE DEF m
  <2> QED
    BY <2>1, WalkFromIsWalk, NumbersAreNat
<1> HIDE DEF w, nx
<1>2. Linked(f) = {w[i] : i \in 1..NumRecs} \ {NULL}
  BY <1>1 DEF IsWalk, Linked, Range, w
<1>3. IsChain(P, nx, RecPrev(f), f.childs, t)
  BY DEF nx
<1>4. CASE P = {}
  <2>1. w \in [1..NumRecs -> {NULL}]
    BY <1>3, <1>1, <1>4, WalkOfNull DEF IsChain
  <2> QED
    BY <1>2, <1>4, <2>1
<1>5. CASE P # {}
  <2>1. IsFiniteSet(P) /\ Cardinality(P) <= NumRecs
    <3>1. IsFiniteSet(Recs) /\ Cardinality(Recs) = NumRecs
      BY FS_Interval, NumbersAreNat DEF Recs
    <3> QED
      BY <3>1, FS_Subset
  <2>2. /\ NULL \notin P /\ f.childs \in P /\ Reaches(P, nx, f.childs)
        /\ \A p \in P : nx[p] \in P \cup {NULL}
    BY <1>3, <1>5 DEF IsChain
  <2> QED
    BY <1>1, <1>2, <2>1, <2>2, WalkMembers
<1> QED
  BY <1>4, <1>5

-----------------------------------------------------------------------------
(* Finding a name.                                                         *)

LEMMA FindIn ==
  ASSUME NEW k \in Nat, NEW walk, DOMAIN walk = 1..k, NEW name, NEW n
  PROVE  \/ /\ Find(walk, name, n) = NULL
            /\ \A d \in Range(walk) \ {NULL} : name[d] # n
         \/ /\ Find(walk, name, n) \in Range(walk) \ {NULL}
            /\ name[Find(walk, name, n)] = n
<1> DEFINE hits == {i \in DOMAIN walk : walk[i] # NULL /\ name[walk[i]] = n}
<1>1. CASE hits = {}
  <2>1. Find(walk, name, n) = NULL
    BY <1>1 DEF Find
  <2>2. \A d \in Range(walk) \ {NULL} : name[d] # n
    BY <1>1 DEF Range
  <2> QED
    BY <2>1, <2>2
<1>2. CASE hits # {}
  <2>1. hits \in SUBSET Nat
    OBVIOUS
  <2>2. \E i \in hits : \A j \in hits : i <= j
    BY <1>2, <2>1, NatLeast
  <2>3. Min(hits) \in hits
    BY <2>2 DEF Min
  <2>4. Find(walk, name, n) = walk[Min(hits)]
    BY <1>2 DEF Find
  <2> QED
    BY <2>3, <2>4 DEF Range
<1> QED
  BY <1>1, <1>2

\* The scan of a directory finds the object of the name.
LEMMA ScanFinds ==
  ASSUME NEW f \in FsType, Named(f), NEW dir \in Dirs, NEW n
  PROVE  \/ Scan(f, dir, n) = NULL /\ \A d \in In(f, dir) : f.name[d] # n
         \/ /\ Scan(f, dir, n) \in Known(f) /\ Scan(f, dir, n) # NULL
            /\ f.obj[Scan(f, dir, n)].dir = dir /\ f.obj[Scan(f, dir, n)].file = n
<1> DEFINE w == WalkFrom(f, f.first[dir], NumDirents)
           d == Find(w, f.name, n)
<1>1. DOMAIN w = 1..NumDirents /\ NumDirents \in Nat
  BY WalkFromIsWalk, NumbersAreNat DEF IsWalk
<1>2. In(f, dir) = Range(w) \ {NULL}
  BY DEF In
<1>3. Scan(f, dir, n) = IF d = NULL THEN NULL ELSE f.of[d]
  BY DEF Scan
<1> HIDE DEF w
<1>4. \/ d = NULL /\ \A x \in In(f, dir) : f.name[x] # n
      \/ d \in In(f, dir) /\ f.name[d] = n
  BY <1>1, <1>2, FindIn
<1>5. NULL \notin In(f, dir) /\ NULL \notin Objs
  BY NumbersAreNat DEF In
<1> HIDE DEF d
<1>6. CASE d = NULL
  BY <1>3, <1>4, <1>5, <1>6
<1>7. CASE d # NULL
  <2>1. d \in In(f, dir) /\ f.name[d] = n /\ Scan(f, dir, n) = f.of[d]
    BY <1>3, <1>4, <1>7
  <2>2. /\ f.of[d] \in Live(f) /\ f.obj[f.of[d]].dirent = d /\ f.obj[f.of[d]].dir = dir
        /\ f.obj[f.of[d]].file = f.name[d]
    BY <2>1 DEF Named
  <2> QED
    BY <1>5, <2>1, <2>2 DEF Known, Live
<1> QED
  BY <1>6, <1>7

LEMMA ScanOfKnown ==
  ASSUME NEW f \in FsType, Named(f), NEW o \in Known(f)
  PROVE  Scan(f, f.obj[o].dir, f.obj[o].file) = o /\ f.obj[o].file \in Names
<1> DEFINE dir == f.obj[o].dir
           n == f.obj[o].file
           d == f.obj[o].dirent
<1>1. dir \in Dirs /\ o \in Objs /\ d \in In(f, dir) /\ f.of[d] = o
  BY DEF Known, Live, FsType, ObjRec
<1>2. f.name[d] = n /\ n \in Names
  BY <1>1 DEF Named
<1>3. /\ Scan(f, dir, n) \in Known(f) /\ f.obj[Scan(f, dir, n)].dir = dir
      /\ f.obj[Scan(f, dir, n)].file = n
  BY <1>1, <1>2, ScanFinds
<1> HIDE DEF dir, n, d
<1> DEFINE s == Scan(f, dir, n)
           e == f.obj[s].dirent
<1>4. e \in In(f, dir) /\ f.of[e] = s
  BY <1>3 DEF Known
<1>5. f.name[e] = n
  BY <1>1, <1>3, <1>4 DEF Named
<1>6. e = d
  BY <1>1, <1>2, <1>4, <1>5 DEF Named
<1> QED
  BY <1>1, <1>2, <1>4, <1>6 DEF dir, n

LEMMA RecordFinds ==
  ASSUME NEW f \in FsType, Records(f), NEW n
  PROVE  \/ Record(f, n) = NULL /\ \A w \in Linked(f) : f.rec[w].name # n
         \/ Record(f, n) \in Linked(f) /\ f.rec[Record(f, n)].name = n
<1> DEFINE c == Chain(f)
           name == [w \in Recs |-> f.rec[w].name]
<1>1. DOMAIN c = 1..NumRecs /\ NumRecs \in Nat
  BY WalkFromIsWalk, NumbersAreNat DEF IsWalk, Chain
<1>2. Linked(f) = Range(c) \ {NULL} /\ Record(f, n) = Find(c, name, n)
  BY DEF Linked, Record
<1>3. \A w \in Linked(f) : w \in Recs
  BY FsFields DEF Records
<1> HIDE DEF c
<1>4. \A w \in Linked(f) : name[w] = f.rec[w].name
  BY <1>3
<1> HIDE DEF name
<1> QED
  BY <1>1, <1>2, <1>4, FindIn

-----------------------------------------------------------------------------
(* A directory entry goes from one list to another.                        *)

\* The fields that are no links are the same.
SameRest(f, g) ==
  /\ g.name = f.name /\ g.of = f.of /\ g.obj = f.obj /\ g.free = f.free /\ g.host = f.host
  /\ g.numrecs = f.numrecs /\ g.childs = f.childs /\ g.cached = f.cached /\ g.rec = f.rec

\* Entry d goes from list l to list m.
Moves(f, g, l, m, d) ==
  /\ g \in FsType /\ Shared(g)
  /\ \A j \in Lists : In(g, j) = IF j = l THEN In(f, j) \ {d}
                                 ELSE IF j = m THEN In(f, j) \cup {d} ELSE In(f, j)

LEMMA MoveEntry ==
  ASSUME NEW f \in FsType, Shared(f), NEW l \in Lists, NEW m \in Lists, l # m,
         NEW d \in In(f, l), NEW k, OnlyLinks(f, k), Links(k, Dirents, Lists),
         OnChain(k, l, In(f, l) \ {d}), Elsewhere(f, k, Dirents, Lists, l, In(f, l))
  PROVE  /\ Moves(f, DequeuePush(k, m, d), l, m, d)
         /\ SameRest(f, DequeuePush(k, m, d))
<1> DEFINE g == DequeuePush(k, m, d)
           P(j) == IF j = l THEN In(f, j) \ {d}
                   ELSE IF j = m THEN In(f, j) \cup {d} ELSE In(f, j)
<1>1. /\ \A j \in Lists : In(f, j) \subseteq Dirents /\ OnChain(f, j, In(f, j))
      /\ \A i, j \in Lists : i # j => In(f, i) \cap In(f, j) = {}
      /\ UNION {In(f, j) : j \in Lists} = Dirents
  BY DEF Shared
<1>2. d \in Dirents /\ d \notin In(f, m)
  BY <1>1
<1>3. \A j \in Lists \ {l} : OnChain(k, j, In(f, j))
  <2> TAKE j \in Lists \ {l}
  <2>1. In(f, j) \subseteq Dirents /\ In(f, j) \cap In(f, l) = {} /\ OnChain(f, j, In(f, j))
    BY <1>1
  <2> QED
    BY <2>1, ChainElsewhere
<1>4. /\ Links(g, Dirents, Lists) /\ OnlyLinks(k, g) /\ OnChain(g, m, In(f, m) \cup {d})
      /\ Elsewhere(k, g, Dirents, Lists, m, In(f, m) \cup {d})
  <2>1. In(f, m) \subseteq Dirents /\ OnChain(k, m, In(f, m))
    BY <1>1, <1>3
  <2> QED
    BY <1>2, <2>1, DequeuePushList
<1> HIDE DEF g
<1>5. \A j \in Lists : OnChain(g, j, P(j)) /\ P(j) \in SUBSET Dirents
  <2> TAKE j \in Lists
  <2>1. CASE j = m
    BY <1>1, <1>2, <1>4, <2>1
  <2>2. CASE j = l
    <3>1. In(f, l) \ {d} \subseteq Dirents /\ (In(f, l) \ {d}) \cap (In(f, m) \cup {d}) = {}
      BY <1>1
    <3>2. OnChain(g, l, In(f, l) \ {d})
      BY <1>4, <3>1, ChainElsewhere
    <3> QED
      BY <2>2, <3>1, <3>2
  <2>3. CASE j # m /\ j # l
    <3>1. /\ In(f, j) \subseteq Dirents /\ OnChain(k, j, In(f, j))
          /\ In(f, j) \cap (In(f, m) \cup {d}) = {}
      BY <1>1, <1>3, <2>3
    <3>2. OnChain(g, j, In(f, j))
      BY <1>4, <2>3, <3>1, ChainElsewhere
    <3> QED
      BY <2>3, <3>1, <3>2
  <2> QED
    BY <2>1, <2>2, <2>3
<1>6. OnlyLinks(f, g)
  BY <1>4, OnlyTwice
<1>7. g \in FsType /\ SameRest(f, g)
  BY <1>4, <1>6, LinksFs DEF SameRest
<1>8. \A j \in Lists : In(g, j) = P(j)
  BY <1>5, <1>7, ChainIsIn
<1>9. Shared(g)
  <2>1. \A i, j \in Lists : i # j => In(g, i) \cap In(g, j) = {}
    <3> SUFFICES ASSUME NEW i \in Lists, NEW j \in Lists, i # j
                 PROVE  P(i) \cap P(j) = {}
      BY <1>8
    <3>1. \A n \in Lists : d \in In(f, n) => n = l
      BY <1>1
    <3> QED
      BY <1>1, <3>1
  <2>2. UNION {In(g, j) : j \in Lists} = Dirents
    <3>1. ASSUME NEW x \in Dirents PROVE \E j \in Lists : x \in P(j)
      <4>1. PICK j \in Lists : x \in In(f, j)
        BY <1>1
      <4>2. CASE x = d
        BY <4>2
      <4>3. CASE x # d
        BY <4>1, <4>3
      <4> QED
        BY <4>2, <4>3
    <3> QED
      BY <1>5, <1>8, <3>1
  <2> QED
    BY <1>5, <1>8, <2>1, <2>2, ZenonT(60) DEF Shared
<1> QED
  BY <1>7, <1>8, <1>9 DEF Moves, g

\* The entry that obj_suballoc takes, and the one that dirent_free gives back.
LEMMA TakeEntry ==
  ASSUME NEW f \in FsType, Shared(f), NEW dir \in Dirs, NEW d, d = f.last["unused"], d # NULL
  PROVE  /\ d \in In(f, "unused")
         /\ Moves(f, DequeuePush(DequeuePop(f, "unused"), dir, d), "unused", dir, d)
         /\ SameRest(f, DequeuePush(DequeuePop(f, "unused"), dir, d))
<1> DEFINE k == DequeuePop(f, "unused")
           P == In(f, "unused")
<1>1. "unused" \in Lists /\ dir \in Lists /\ dir # "unused"
  BY DEF Lists, Dirs
<1>2. P \subseteq Dirents /\ OnChain(f, "unused", P) /\ Links(f, Dirents, Lists)
  BY <1>1, FsLinks DEF Shared
<1>3. /\ Links(k, Dirents, Lists) /\ OnlyLinks(f, k) /\ OnChain(k, "unused", P \ {d})
      /\ Elsewhere(f, k, Dirents, Lists, "unused", P) /\ d \in P
  BY <1>1, <1>2, DequeuePopList
<1> HIDE DEF k, P
<1>4. P = In(f, "unused")
  BY DEF P
<1> QED
  BY <1>1, <1>3, <1>4, MoveEntry DEF k

LEMMA GiveEntry ==
  ASSUME NEW f \in FsType, Shared(f), NEW dir \in Dirs, NEW d \in In(f, dir)
  PROVE  /\ Moves(f, DequeuePush(DequeueRemove(f, dir, d), "unused", d), dir, "unused", d)
         /\ SameRest(f, DequeuePush(DequeueRemove(f, dir, d), "unused", d))
<1> DEFINE k == DequeueRemove(f, dir, d)
           P == In(f, dir)
<1>1. "unused" \in Lists /\ dir \in Lists /\ dir # "unused"
  BY DEF Lists, Dirs
<1>2. P \subseteq Dirents /\ OnChain(f, dir, P) /\ Links(f, Dirents, Lists)
  BY <1>1, FsLinks DEF Shared
<1>3. /\ Links(k, Dirents, Lists) /\ OnlyLinks(f, k) /\ OnChain(k, dir, P \ {d})
      /\ Elsewhere(f, k, Dirents, Lists, dir, P)
  BY <1>1, <1>2, DequeueRemoveList
<1> HIDE DEF k, P
<1>4. P = In(f, dir)
  BY DEF P
<1> QED
  BY <1>1, <1>3, <1>4, MoveEntry DEF k

-----------------------------------------------------------------------------
(* An object is allocated.                                                 *)

\* What a list has in it is a matter of ->next and of its header.
LEMMA SameIn ==
  ASSUME NEW f, NEW g, g.next = f.next, g.first = f.first
  PROVE  \A l : In(g, l) = In(f, l)
<1> TAKE l
<1> DEFINE v == WalkFrom(f, f.first[l], NumDirents)
           w == WalkFrom(g, g.first[l], NumDirents)
<1>1. IsWalk(v, f.next, f.first[l], NumDirents) /\ IsWalk(w, g.next, g.first[l], NumDirents)
  BY WalkFromIsWalk, NumbersAreNat
<1> HIDE DEF v, w
<1>2. IsWalk(w, f.next, f.first[l], NumDirents)
  BY <1>1
<1>3. v = w
  BY <1>1, <1>2, WalkUnique, NumbersAreNat
<1> QED
  BY <1>3 DEF In, v, w

LEMMA SameShared ==
  ASSUME NEW f, NEW g, g.next = f.next, g.first = f.first, g.prev = f.prev, g.last = f.last
  PROVE  /\ \A l : In(g, l) = In(f, l)
         /\ Shared(f) => Shared(g)
<1>1. \A l : In(g, l) = In(f, l)
  BY SameIn
<1>2. \A l, P : OnChain(f, l, P) => OnChain(g, l, P)
  BY DEF OnChain
<1>3. Shared(f) => Shared(g)
  BY <1>1, <1>2 DEF Shared
<1> QED
  BY <1>1, <1>3

\* The last object of the free ones is taken.
LEMMA FreeTop ==
  ASSUME NEW s \in Seq(Objs), s # <<>>, \A i, j \in DOMAIN s : s[i] = s[j] => i = j
  PROVE  /\ Last(s) \in Range(s) /\ Last(s) \in Objs /\ Front(s) \in Seq(Objs)
         /\ Range(Front(s)) = Range(s) \ {Last(s)}
         /\ \A i, j \in DOMAIN Front(s) : Front(s)[i] = Front(s)[j] => i = j
<1> DEFINE n == Len(s)
<1>1. n \in Nat /\ n >= 1 /\ DOMAIN s = 1..n /\ \A i \in 1..n : s[i] \in Objs
  OBVIOUS
<1>2. Last(s) = s[n]
  BY DEF Last
<1>3. /\ Front(s) \in Seq(Objs) /\ Len(Front(s)) = n - 1
      /\ \A i \in 1..(n - 1) : Front(s)[i] = s[i]
  BY <1>1 DEF Front
<1>4. DOMAIN Front(s) = 1..(n - 1)
  BY <1>1, <1>3
<1> HIDE DEF n
<1>5. Range(Front(s)) = Range(s) \ {Last(s)}
  <2>1. \A i \in 1..n : i \in 1..(n - 1) <=> i # n
    BY <1>1
  <2>2. 1..(n - 1) \subseteq 1..n /\ n \in 1..n
    BY <1>1
  <2> QED
    BY <1>1, <1>2, <1>3, <1>4, <2>1, <2>2 DEF Range
<1>6. \A i, j \in DOMAIN Front(s) : Front(s)[i] = Front(s)[j] => i = j
  <2>1. 1..(n - 1) \subseteq 1..n
    BY <1>1
  <2> QED
    BY <1>1, <1>3, <1>4, <2>1
<1> QED
  BY <1>1, <1>2, <1>3, <1>5, <1>6 DEF Range

\* obj_suballoc takes object o and entry d.
Takes(f, g, o, d, dir, id, n) ==
  /\ Moves(f, g, "unused", dir, d) /\ g.free = Front(f.free)
  /\ g.name = [f.name EXCEPT ![d] = n] /\ g.of = [f.of EXCEPT ![d] = o]
  /\ g.obj = [f.obj EXCEPT ![o] = [dir |-> dir, file |-> n, refcnt |-> 0, dirent |-> d,
                                   made |-> FALSE, id |-> id, detail |-> @.detail]]
  /\ g.host = f.host /\ g.numrecs = f.numrecs /\ g.childs = f.childs
  /\ g.cached = f.cached /\ g.rec = f.rec

LEMMA SubAllocTakes ==
  ASSUME NEW f \in FsType, Shared(f), Named(f), NEW dir \in Dirs, NEW n \in Names,
         NEW id \in Recs \cup {NULL}, SubAlloc(f, dir, id, n).obj # NULL
  PROVE  LET a == SubAlloc(f, dir, id, n)
             d == f.last["unused"]
         IN /\ Takes(f, a.fs, a.obj, d, dir, id, n) /\ a.obj = Last(f.free) /\ f.free # <<>>
            /\ d \in In(f, "unused") /\ d \in Dirents
<1> DEFINE d == f.last["unused"]
           o == Last(f.free)
           m == DequeuePush(DequeuePop(f, "unused"), dir, d)
           new == [dir |-> dir, file |-> n, refcnt |-> 0, dirent |-> d,
                   made |-> FALSE, id |-> id, detail |-> f.obj[o].detail]
           g == [m EXCEPT !.free = Front(@), !.name[d] = n, !.of[d] = o,
                          !.obj[o] = [dir |-> dir, file |-> n, refcnt |-> 0, dirent |-> d,
                                      made |-> FALSE, id |-> id, detail |-> @.detail]]
           a == SubAlloc(f, dir, id, n)
<1>1. f.free # <<>> /\ d # NULL /\ a.fs = g /\ a.obj = o
  BY DEF SubAlloc
<1>2. /\ d \in In(f, "unused") /\ Moves(f, m, "unused", dir, d) /\ SameRest(f, m)
  BY <1>1, TakeEntry
<1>3. d \in Dirents /\ o \in Objs /\ Front(f.free) \in Seq(Objs)
  <2>1. "unused" \in Lists
    BY DEF Lists
  <2>2. f.free \in Seq(Objs) /\ \A i, j \in DOMAIN f.free : f.free[i] = f.free[j] => i = j
    BY FsFields DEF Named
  <2> QED
    BY <1>1, <1>2, <2>1, <2>2, FreeTop DEF Shared
<1> HIDE DEF m, d, o, a
<1>4. m \in FsType /\ Shared(m)
  BY <1>2 DEF Moves
<1>5. /\ m.name = f.name /\ m.of = f.of /\ m.obj = f.obj /\ m.free = f.free /\ m.host = f.host
      /\ m.numrecs = f.numrecs /\ m.childs = f.childs /\ m.cached = f.cached /\ m.rec = f.rec
  BY <1>2 DEF SameRest
<1>6. /\ g.next = m.next /\ g.prev = m.prev /\ g.first = m.first /\ g.last = m.last
      /\ g.host = f.host /\ g.numrecs = f.numrecs /\ g.childs = f.childs
      /\ g.cached = f.cached /\ g.rec = f.rec /\ g.free = Front(f.free)
      /\ g.name = [f.name EXCEPT ![d] = n] /\ g.of = [f.of EXCEPT ![d] = o]
  BY <1>4, <1>5 DEF FsType
<1>7. g.obj = [f.obj EXCEPT ![o] = [dir |-> dir, file |-> n, refcnt |-> 0, dirent |-> d,
                                    made |-> FALSE, id |-> id, detail |-> @.detail]]
  BY <1>4, <1>5 DEF FsType
<1>8. new \in ObjRec
  <2>1. f.obj[o] \in ObjRec
    BY <1>3, FsFields
  <2> QED
    BY <1>3, <2>1 DEF ObjRec
<1>9. g = [m EXCEPT !.free = g.free, !.name = g.name, !.of = g.of, !.obj = g.obj]
  BY <1>4 DEF FsType
<1>10. g.obj = [f.obj EXCEPT ![o] = new]
  BY <1>7
<1> HIDE DEF g, new
<1>11. /\ g.name \in [Dirents -> Names \cup {""}] /\ g.of \in [Dirents -> Objs \cup {NULL}]
       /\ g.free \in Seq(Objs) /\ g.obj \in [Objs -> ObjRec]
  <2>1. /\ f.name \in [Dirents -> Names \cup {""}] /\ f.of \in [Dirents -> Objs \cup {NULL}]
        /\ f.obj \in [Objs -> ObjRec]
    BY FsFields
  <2> QED
    BY <1>3, <1>6, <1>8, <1>10, <2>1, ZenonT(60)
<1>12. g \in FsType
  BY <1>4, <1>9, <1>11 DEF FsType
<1>13. Shared(g) /\ \A l : In(g, l) = In(m, l)
  BY <1>4, <1>6, SameShared
<1>14. Moves(f, g, "unused", dir, d)
  BY <1>2, <1>12, <1>13 DEF Moves
<1>15. Takes(f, g, o, d, dir, id, n)
  BY <1>6, <1>7, <1>14 DEF Takes
<1> QED
  BY <1>1, <1>2, <1>3, <1>15 DEF a, d, o

-----------------------------------------------------------------------------
(* What is known after an allocation.                                      *)

\* The objects N are taken from the free ones and made known; the others stay.
Adds(f, g, N) ==
  /\ N \cap Live(f) = {} /\ Live(g) = Live(f) \cup N /\ Known(g) = Known(f) \cup N
  /\ \A o \in Objs \ N : g.obj[o] = f.obj[o]

LEMMA TakenNamed ==
  ASSUME NEW f \in FsType, Shared(f), Named(f), f.free # <<>>, NEW o, o = Last(f.free),
         NEW d \in In(f, "unused"), NEW dir \in Dirs, NEW id, NEW n \in Names,
         \A e \in In(f, dir) : f.name[e] # n,
         NEW g, Takes(f, g, o, d, dir, id, n)
  PROVE  Named(g) /\ Adds(f, g, {o}) /\ o \in Objs
<1>1. /\ o \in Range(f.free) /\ o \in Objs /\ Front(f.free) \in Seq(Objs)
      /\ Range(Front(f.free)) = Range(f.free) \ {o}
      /\ \A i, j \in DOMAIN Front(f.free) : Front(f.free)[i] = Front(f.free)[j] => i = j
  <2>1. f.free \in Seq(Objs) /\ \A i, j \in DOMAIN f.free : f.free[i] = f.free[j] => i = j
    BY FsFields DEF Named
  <2> QED
    BY <2>1, FreeTop
<1>2. dir \in Lists /\ dir # "unused" /\ "unused" \in Lists /\ Dirs \subseteq Lists
      /\ "unused" \notin Dirs
  BY DEF Lists, Dirs
<1>3. d \in Dirents /\ \A j \in Dirs : d \notin In(f, j) /\ In(f, j) \subseteq Dirents
  BY <1>2 DEF Shared
<1>4. /\ g.name[d] = n /\ g.of[d] = o
      /\ \A e \in Dirents \ {d} : g.name[e] = f.name[e] /\ g.of[e] = f.of[e]
  BY <1>3, FsFields, ZenonT(60) DEF Takes
<1>5. /\ g.obj[o] = [dir |-> dir, file |-> n, refcnt |-> 0, dirent |-> d,
                     made |-> FALSE, id |-> id, detail |-> f.obj[o].detail]
      /\ \A x \in Objs \ {o} : g.obj[x] = f.obj[x]
  BY <1>1, FsFields DEF Takes
<1>6. g.obj[o].dir = dir /\ g.obj[o].file = n /\ g.obj[o].dirent = d
  BY <1>5
<1>7. \A j \in Dirs : In(g, j) = IF j = dir THEN In(f, j) \cup {d} ELSE In(f, j)
  BY <1>2 DEF Takes, Moves
<1>8. Live(g) = Live(f) \cup {o} /\ o \notin Live(f)
  BY <1>1 DEF Live, Takes
<1>9. Named(g)
  <2>1. ASSUME NEW j \in Dirs, NEW e \in In(g, j)
        PROVE  /\ g.of[e] \in Live(g) /\ g.name[e] \in Names
               /\ g.obj[g.of[e]].dirent = e /\ g.obj[g.of[e]].dir = j
               /\ g.obj[g.of[e]].file = g.name[e]
               /\ \A x \in In(g, j) : g.name[x] = g.name[e] => x = e
    <3>1. CASE e = d
      <4>1. j = dir
        BY <1>3, <1>7, <2>1, <3>1
      <4>2. \A x \in In(g, j) : g.name[x] = n => x = d
        BY <1>3, <1>4, <1>7, <4>1
      <4> QED
        BY <1>4, <1>6, <1>8, <3>1, <4>1, <4>2
    <3>2. CASE e # d
      <4>1. e \in In(f, j) /\ e \in Dirents /\ g.name[e] = f.name[e] /\ g.of[e] = f.of[e]
        BY <1>3, <1>4, <1>7, <2>1, <3>2
      <4>2. /\ f.of[e] \in Live(f) /\ f.name[e] \in Names
            /\ f.obj[f.of[e]].dirent = e /\ f.obj[f.of[e]].dir = j
            /\ f.obj[f.of[e]].file = f.name[e]
            /\ \A x \in In(f, j) : f.name[x] = f.name[e] => x = e
        BY <4>1 DEF Named
      <4>3. g.obj[f.of[e]] = f.obj[f.of[e]]
        BY <1>5, <1>8, <4>2 DEF Live
      <4>4. ASSUME NEW x \in In(g, j), g.name[x] = g.name[e] PROVE x = e
        <5>1. CASE x = d
          <6>1. j = dir /\ f.name[e] = n
            BY <1>3, <1>4, <1>7, <4>1, <4>4, <5>1
          <6> QED
            BY <4>1, <6>1
        <5>2. CASE x # d
          BY <1>3, <1>4, <1>7, <4>1, <4>2, <4>4, <5>2
        <5> QED
          BY <5>1, <5>2
      <4> QED
        BY <1>8, <4>1, <4>2, <4>3, <4>4
    <3> QED
      BY <3>1, <3>2
  <2> QED
    BY <1>1, <2>1, SMTT(60) DEF Named, Takes
<1>10. Known(g) = Known(f) \cup {o}
  <2>1. o \in Known(g)
    BY <1>4, <1>6, <1>7, <1>8 DEF Known
  <2>2. ASSUME NEW x \in Live(f) PROVE x \in Known(g) <=> x \in Known(f)
    <3> DEFINE j == f.obj[x].dir
               e == f.obj[x].dirent
    <3>1. x \in Objs /\ x # o /\ j \in Dirs /\ g.obj[x] = f.obj[x] /\ x \in Live(g)
      BY <1>5, <1>8, FsFields DEF Live, ObjRec
    <3>2. x \in Known(f) <=> e \in In(f, j) /\ f.of[e] = x
      BY DEF Known
    <3>3. x \in Known(g) <=> e \in In(g, j) /\ g.of[e] = x
      BY <3>1 DEF Known
    <3> HIDE DEF e, j
    <3>4. CASE e = d
      BY <1>3, <1>4, <3>1, <3>2, <3>3, <3>4
    <3>5. CASE e # d
      BY <1>3, <1>4, <1>7, <3>1, <3>2, <3>3, <3>5
    <3> QED
      BY <3>4, <3>5
  <2>3. Known(f) \subseteq Live(f) /\ Known(g) \subseteq Live(g)
    BY DEF Known
  <2> QED
    BY <1>8, <2>1, <2>2, <2>3
<1>11. Adds(f, g, {o})
  BY <1>5, <1>8, <1>10 DEF Adds
<1> QED
  BY <1>1, <1>5, <1>9, <1>11

\* The same entries lead to the same objects.
Alike(f, g) ==
  /\ g.next = f.next /\ g.first = f.first /\ g.prev = f.prev /\ g.last = f.last
  /\ g.name = f.name /\ g.of = f.of /\ g.free = f.free
  /\ \A o \in Objs : /\ g.obj[o].dir = f.obj[o].dir /\ g.obj[o].file = f.obj[o].file
                     /\ g.obj[o].dirent = f.obj[o].dirent

LEMMA AlikeKnown ==
  ASSUME NEW f, NEW g, Alike(f, g)
  PROVE  /\ \A l : In(g, l) = In(f, l)
         /\ Live(g) = Live(f) /\ Known(g) = Known(f) /\ Local(g) = Local(f)
         /\ Shared(f) => Shared(g)
         /\ Named(f) => Named(g)
<1>1. (\A l : In(g, l) = In(f, l)) /\ (Shared(f) => Shared(g))
  BY SameShared DEF Alike
<1>2. Live(g) = Live(f)
  BY DEF Live, Alike
<1>3. Known(g) = Known(f) /\ Local(g) = Local(f)
  BY <1>1, <1>2 DEF Known, Local, Alike, Live
<1>4. Named(f) => Named(g)
  BY <1>1, <1>2 DEF Named, Alike, Live
<1> QED
  BY <1>1, <1>2, <1>3, <1>4

-----------------------------------------------------------------------------
(* The records of wrapfs.                                                  *)

\* _wrapfs_collect_dir makes a record of each file of the host.
LEMMA Collected ==
  ASSUME NEW f \in FsType, Untouched(f), ~f.cached
  PROVE  LET g == Collect(f)
             n == Len(f.host)
         IN /\ g \in FsType /\ Alike(f, g) /\ g.cached /\ g.obj = f.obj /\ g.host = f.host
            /\ g.numrecs = n /\ g.childs = (IF n = 0 THEN NULL ELSE 1)
            /\ \A w \in 1..n : w \in Recs /\ g.rec[w] = [name |-> f.host[w], prev |-> PoolPrev(n)[w],
                                            next |-> PoolNext(n)[w], obj |-> NULL]
<1> DEFINE g == Collect(f)
           n == Len(f.host)
           new(w) == [name |-> f.host[w], prev |-> PoolPrev(n)[w],
                      next |-> PoolNext(n)[w], obj |-> NULL]
           rec == [w \in Recs |-> IF w > n THEN f.rec[w] ELSE new(w)]
<1>1. n \in Nat /\ n <= NumRecs /\ \A w \in 1..n : f.host[w] \in Names /\ w \in Recs
  <2>1. f.host \in Seq(Names)
    BY FsFields
  <2>2. n \in Nat /\ \A w \in 1..n : f.host[w] \in Names
    BY <2>1
  <2>3. n <= NumRecs
    BY DEF Untouched
  <2> QED
    BY <2>2, <2>3, NumbersAreNat DEF Recs
<1>2. g = [f EXCEPT !.cached = TRUE, !.numrecs = n, !.childs = IF n = 0 THEN NULL ELSE 1,
                    !.rec = rec]
  BY DEF Collect
<1>3. \A w \in Recs : IF w > n THEN rec[w] = f.rec[w] ELSE rec[w] = new(w) /\ w \in 1..n
  <2>1. \A w \in Recs : w \in Nat /\ w >= 1
    BY NumbersAreNat DEF Recs
  <2> QED
    BY <1>1, <2>1
<1>4. \A w \in 1..n : new(w) \in HostRec
  <2> TAKE w \in 1..n
  <2>1. w \in Nat /\ w >= 1 /\ w <= n /\ n <= NumRecs /\ NumRecs \in Nat
    BY <1>1, NumbersAreNat
  <2>2. PoolPrev(n)[w] \in Recs \cup {NULL}
    BY <2>1 DEF PoolPrev, Recs, NULL
  <2>3. PoolNext(n)[w] \in Recs \cup {NULL}
    BY <2>1 DEF PoolNext, Recs
  <2> QED
    BY <1>1, <2>2, <2>3 DEF HostRec
<1> HIDE DEF new
<1>5. rec \in [Recs -> HostRec]
  <2>1. \A w \in Recs : rec[w] \in HostRec
    BY <1>3, <1>4, FsFields
  <2>2. DOMAIN rec = Recs
    OBVIOUS
  <2> QED
    BY <2>1
<1>6. \A w \in 1..n : rec[w] = new(w)
  <2>1. \A w \in 1..n : ~(w > n)
    BY <1>1
  <2> QED
    BY <1>1, <1>3, <2>1
<1>7. n \in Recs \cup {0} /\ (n # 0 => 1 \in Recs)
  BY <1>1, NumbersAreNat DEF Recs
<1> HIDE DEF rec, n, g
<1>8. /\ g.prev = f.prev /\ g.next = f.next /\ g.first = f.first /\ g.last = f.last
      /\ g.name = f.name /\ g.of = f.of /\ g.obj = f.obj /\ g.free = f.free
      /\ g.host = f.host /\ g.cached = TRUE /\ g.numrecs = n
      /\ g.childs = (IF n = 0 THEN NULL ELSE 1) /\ g.rec = rec
  BY <1>2 DEF FsType
<1>9. g \in FsType
  BY <1>2, <1>5, <1>7 DEF FsType
<1>10. Alike(f, g)
  BY <1>8 DEF Alike
<1> QED
  BY <1>1, <1>6, <1>8, <1>9, <1>10 DEF g, n, new

LEMMA CollectSafe ==
  ASSUME NEW f, FsInv(f)
  PROVE  LET g == Collect(f)
         IN /\ FsInv(g) /\ g.cached /\ Alike(f, g) /\ g.obj = f.obj
<1> DEFINE g == Collect(f)
<1>1. f \in FsType /\ Shared(f) /\ Named(f) /\ Records(f) /\ Hosted(f)
  BY DEF FsInv
<1>2. CASE f.cached
  <2>1. g = f
    BY <1>2 DEF Collect
  <2> QED
    BY <1>1, <1>2, <2>1 DEF Alike, FsInv
<1>3. CASE ~f.cached
  <2> DEFINE n == Len(f.host)
  <2>1. Untouched(f)
    BY <1>1, <1>3 DEF Records
  <2>2. /\ g \in FsType /\ Alike(f, g) /\ g.cached /\ g.obj = f.obj /\ g.host = f.host
        /\ g.numrecs = n /\ g.childs = (IF n = 0 THEN NULL ELSE 1)
        /\ \A w \in 1..n : w \in Recs /\ g.rec[w] = [name |-> f.host[w], prev |-> PoolPrev(n)[w],
                                        next |-> PoolNext(n)[w], obj |-> NULL]
    BY <1>1, <1>3, <2>1, Collected
  <2>3. n = Len(f.host) /\ f.host \in Seq(Names)
    BY <1>1, FsFields
  <2> HIDE DEF g, n
  <2>4. \A w \in 1..n : /\ g.rec[w].name = f.host[w] /\ g.rec[w].prev = PoolPrev(n)[w]
                        /\ g.rec[w].next = PoolNext(n)[w] /\ g.rec[w].obj = NULL
    <3> TAKE w \in 1..n
    <3>1. g.rec[w] = [name |-> f.host[w], prev |-> PoolPrev(n)[w],
                      next |-> PoolNext(n)[w], obj |-> NULL]
      BY <2>2
    <3> QED
      BY <3>1
  <2>5. g.childs = (IF n = 0 THEN NULL ELSE 1) /\ g.host = f.host
    BY <2>2
  <2>6. n \in Nat /\ 1..n \in SUBSET Recs /\ DOMAIN f.host = 1..n
    <3>1. n \in Nat /\ DOMAIN f.host = 1..n
      BY <2>3
    <3>2. 1..n \in SUBSET Recs
      BY <2>2
    <3> QED
      BY <3>1, <3>2
  <2>7. IsChain(1..n, RecNext(g), RecPrev(g), g.childs, n)
    <3>1. CASE n = 0
      <4>1. 1..n = {} /\ n = NULL /\ g.childs = NULL
        BY <2>2, <3>1 DEF NULL
      <4> QED
        BY <4>1 DEF IsChain, Reaches
    <3>2. CASE n # 0
      <4>1. n > 0 /\ g.childs = 1
        BY <2>6, <2>5, <3>2
      <4>2. IsChain(1..n, PoolNext(n), PoolPrev(n), 1, n)
        BY <2>6, <4>1, PoolChain
      <4>3. \A w \in 1..n : RecNext(g)[w] = PoolNext(n)[w] /\ RecPrev(g)[w] = PoolPrev(n)[w]
        BY <2>4, <2>6 DEF RecNext, RecPrev
      <4> QED
        BY <4>1, <4>2, <4>3, ChainFrame
    <3> QED
      BY <3>1, <3>2
  <2>8. Linked(g) = 1..n
    BY <2>2, <2>6, <2>7, ChainIsLinked
  <2>9. \A v, w \in 1..n : f.host[v] = f.host[w] => v = w
    BY <2>3, <2>1 DEF Untouched
  <2>10. n \in Recs \cup {NULL}
    BY <2>2, <2>6 DEF NULL
  <2>11. Records(g)
    <3>1. \A v, w \in Linked(g) : g.rec[v].name = g.rec[w].name => v = w
      BY <2>4, <2>8, <2>9
    <3>2. \A w \in Linked(g) : g.rec[w].name \in Range(g.host)
      BY <2>4, <2>6, <2>8, <2>5 DEF Range
    <3>3. \E t \in Recs \cup {NULL} : IsChain(Linked(g), RecNext(g), RecPrev(g), g.childs, t)
      BY <2>7, <2>8, <2>10
    <3> QED
      BY <2>2, <2>8, <3>1, <3>2, <3>3 DEF Records
  <2>12. Local(g) = {} /\ Shared(g) /\ Named(g)
    BY <1>1, <2>1, <2>2, AlikeKnown DEF Untouched
  <2>13. Hosted(g)
    BY <2>2, <2>4, <2>12 DEF Hosted
  <2> QED
    BY <2>2, <2>11, <2>12, <2>13 DEF FsInv, g
<1> QED
  BY <1>2, <1>3

LEMMA LastRecIsLast ==
  ASSUME NEW f, NEW t, IsChain(Linked(f), RecNext(f), RecPrev(f), f.childs, t),
         Linked(f) # {}, Linked(f) \subseteq Recs
  PROVE  LastRec(f) = t /\ t \in Linked(f)
<1> DEFINE P == Linked(f)
<1>1. t \in P /\ NULL \notin P /\ \A w \in P : f.rec[w].next = IF w = t THEN NULL ELSE RecNext(f)[w]
  BY DEF IsChain, RecNext
<1>2. \A w \in P : w # t => RecNext(f)[w] \in P
  BY DEF IsChain
<1>3. \A w \in P : f.rec[w].next = NULL <=> w = t
  BY <1>1, <1>2
<1>4. LastRec(f) = CHOOSE w \in P : f.rec[w].next = NULL
  BY DEF LastRec, Linked
<1> QED
  BY <1>1, <1>3, <1>4

\* The links after the last record t of a list has been replaced by w.
Replaced(P, nx, pv, nx2, pv2, t, w) ==
  /\ nx2[w] = NULL /\ (pv[t] # NULL => nx2[pv[t]] = w)
  /\ \A x \in P \ {t, pv[t]} : nx2[x] = nx[x]
  /\ pv2[w] = pv[t] /\ \A x \in P \ {t} : pv2[x] = pv[x]

LEMMA ChainReplaceLast ==
  ASSUME NEW P, NEW nx, NEW pv, NEW h, NEW t \in P, IsChain(P, nx, pv, h, t),
         NEW w, w \notin P, w # NULL, NEW nx2, NEW pv2, Replaced(P, nx, pv, nx2, pv2, t, w),
         NEW h2, h2 = IF pv[t] = NULL THEN w ELSE h
  PROVE  IsChain((P \ {t}) \cup {w}, nx2, pv2, h2, w)
<1> DEFINE u == pv[t]
           Q == P \ {t}
           mid == [x \in P |-> IF x = u THEN NULL ELSE nx[x]]
           i == IF u = NULL THEN NULL ELSE h
<1>1. u \in P \cup {NULL}
  BY DEF IsChain
<1>2. IsChain(Q, mid, pv, i, u)
  <2>1. (u # NULL => mid[u] = NULL) /\ \A x \in P \ {u, t} : mid[x] = nx[x]
    BY <1>1
  <2>2. i = IF u = NULL THEN NULL ELSE h
    OBVIOUS
  <2> HIDE DEF mid, i
  <2> QED
    BY <2>1, <2>2, ChainPop
<1>3. /\ nx2[w] = NULL /\ (u # NULL => nx2[u] = w) /\ pv2[w] = u
      /\ \A x \in Q \ {u} : nx2[x] = mid[x]
      /\ \A x \in Q : pv2[x] = pv[x]
  BY DEF Replaced
<1>4. h2 = (IF u = NULL THEN w ELSE i) /\ w \notin Q
  OBVIOUS
<1> HIDE DEF mid, i, u, Q
<1>5. IsChain(Q \cup {w}, nx2, pv2, h2, w)
  BY <1>2, <1>3, <1>4, ChainPush
<1> QED
  BY <1>5 DEF Q

\* wrapfsw_mkmetaobj behind record `last', or as the first one.
LEMMA MkMetaObjFields ==
  ASSUME NEW f \in FsType, f.numrecs < NumRecs, NEW last \in Recs \cup {NULL}, NEW n \in Names,
         NEW w, w = f.numrecs + 1, last # w
  PROVE  LET g == MkMetaObj(f, last, n)
         IN /\ g \in FsType /\ Alike(f, g) /\ w \in Recs /\ g.obj = f.obj /\ g.host = f.host
            /\ g.cached = f.cached /\ g.numrecs = w
            /\ g.childs = (IF last = NULL THEN w ELSE f.childs)
            /\ g.rec[w].name = n /\ g.rec[w].prev = last /\ g.rec[w].next = NULL
            /\ g.rec[w].obj = NULL
            /\ last # NULL => (g.rec[last].next = w /\ g.rec[last].prev = f.rec[last].prev)
            /\ \A v \in Recs \ {w} : g.rec[v].name = f.rec[v].name /\ g.rec[v].obj = f.rec[v].obj
            /\ \A v \in Recs \ {w, last} : g.rec[v] = f.rec[v]
<1> DEFINE new == [name |-> n, prev |-> last, next |-> NULL, obj |-> NULL]
           g1 == [f EXCEPT !.numrecs = w, !.rec[w] = new]
           g == MkMetaObj(f, last, n)
           rec == IF last = NULL THEN [f.rec EXCEPT ![w] = new]
                  ELSE [[f.rec EXCEPT ![w] = new] EXCEPT ![last].next = w]
           childs == IF last = NULL THEN w ELSE f.childs
<1>1. f.numrecs \in 0..NumRecs
  BY FsFields
<1>2. w \in Recs /\ NULL \notin Recs
  BY <1>1, NumbersAreNat DEF Recs
<1>3. new \in HostRec
  BY DEF HostRec
<1>4. g = IF last = NULL THEN [g1 EXCEPT !.childs = w] ELSE [g1 EXCEPT !.rec[last].next = w]
  BY DEF MkMetaObj
<1>5. f.rec \in [Recs -> HostRec] /\ f.childs \in Recs \cup {NULL}
  BY FsFields
<1> HIDE DEF new
<1>6. /\ g1 \in FsType
      /\ g1.prev = f.prev /\ g1.next = f.next /\ g1.first = f.first /\ g1.last = f.last
      /\ g1.name = f.name /\ g1.of = f.of /\ g1.obj = f.obj /\ g1.free = f.free
      /\ g1.host = f.host /\ g1.cached = f.cached /\ g1.numrecs = w /\ g1.childs = f.childs
      /\ g1.rec = [f.rec EXCEPT ![w] = new]
  <2>1. [f.rec EXCEPT ![w] = new] \in [Recs -> HostRec]
    BY <1>2, <1>3, <1>5
  <2> QED
    BY <1>2, <2>1 DEF FsType
<1> HIDE DEF g1
<1>7. \A r \in HostRec : [r EXCEPT !.next = w] \in HostRec
  BY <1>2 DEF HostRec
<1>8. rec \in [Recs -> HostRec]
  BY <1>2, <1>3, <1>5, <1>7
<1>9. g = [g1 EXCEPT !.childs = childs, !.rec = rec]
  <2>1. CASE last = NULL
    <3>1. g = [g1 EXCEPT !.childs = w]
      BY <1>4, <2>1
    <3>2. rec = g1.rec /\ childs = w
      BY <1>6, <2>1
    <3> QED
      BY <1>6, <3>1, <3>2 DEF FsType
  <2>2. CASE last # NULL
    <3>1. g = [g1 EXCEPT !.rec = [@ EXCEPT ![last].next = w]]
      BY <1>4, <2>2
    <3>2. rec = [g1.rec EXCEPT ![last].next = w] /\ childs = g1.childs
      BY <1>6, <2>2
    <3> QED
      BY <1>6, <3>1, <3>2, ZenonT(60) DEF FsType
  <2> QED
    BY <2>1, <2>2
<1>10. /\ rec[w] = new
       /\ last # NULL => rec[last] = [f.rec[last] EXCEPT !.next = w]
       /\ \A v \in Recs \ {w, last} : rec[v] = f.rec[v]
  BY <1>2, <1>5
<1>11. new.name = n /\ new.prev = last /\ new.next = NULL /\ new.obj = NULL
  BY DEF new
<1>12. \A r \in HostRec : LET q == [r EXCEPT !.next = w]
                         IN q.name = r.name /\ q.obj = r.obj /\ q.next = w /\ q.prev = r.prev
  BY DEF HostRec
<1>13. \A v \in Recs \ {w} : rec[v].name = f.rec[v].name /\ rec[v].obj = f.rec[v].obj
  <2> TAKE v \in Recs \ {w}
  <2>1. CASE v = last
    <3>1. f.rec[v] \in HostRec /\ rec[v] = [f.rec[v] EXCEPT !.next = w]
      BY <1>2, <1>5, <1>10, <2>1
    <3> QED
      BY <1>12, <3>1
  <2>2. CASE v # last
    BY <1>10, <2>2
  <2> QED
    BY <2>1, <2>2
<1>14. last # NULL => (rec[last].next = w /\ rec[last].prev = f.rec[last].prev)
  <2> SUFFICES ASSUME last # NULL PROVE rec[last].next = w /\ rec[last].prev = f.rec[last].prev
    OBVIOUS
  <2>1. f.rec[last] \in HostRec /\ rec[last] = [f.rec[last] EXCEPT !.next = w]
    BY <1>5, <1>10
  <2> QED
    BY <1>12, <2>1
<1>15. childs \in Recs \cup {NULL}
  BY <1>2, <1>5
<1> HIDE DEF rec, childs, g
<1>16. /\ g.prev = f.prev /\ g.next = f.next /\ g.first = f.first /\ g.last = f.last
       /\ g.name = f.name /\ g.of = f.of /\ g.obj = f.obj /\ g.free = f.free
       /\ g.host = f.host /\ g.cached = f.cached /\ g.numrecs = w /\ g.childs = childs
       /\ g.rec = rec
  BY <1>6, <1>9 DEF FsType
<1>17. g \in FsType
  BY <1>6, <1>8, <1>9, <1>15 DEF FsType
<1>18. Alike(f, g)
  BY <1>16 DEF Alike
<1> QED
  BY <1>2, <1>10, <1>16, <1>17, <1>18, <1>11, <1>13, <1>14 DEF g, childs

\* The last record goes out of the list and a new one comes in.
LEMMA RecordAdded ==
  ASSUME NEW f \in FsType, Records(f), Linked(f) # {}, f.numrecs < NumRecs, NEW n \in Names,
         NEW w, w = f.numrecs + 1
  PROVE  LET g == AddRecord(f, n)
         IN /\ g \in FsType /\ Alike(f, g) /\ w \in Recs /\ g.obj = f.obj /\ g.host = f.host
            /\ g.cached = f.cached /\ g.numrecs = w
            /\ g.rec[w].name = n /\ g.rec[w].obj = NULL
            /\ \A v \in Recs \ {w} : g.rec[v].name = f.rec[v].name /\ g.rec[v].obj = f.rec[v].obj
            /\ \E t \in Linked(f) : Linked(g) = (Linked(f) \ {t}) \cup {w}
            /\ IsChain(Linked(g), RecNext(g), RecPrev(g), g.childs, w)
<1> DEFINE P == Linked(f)
           nx == RecNext(f)
           pv == RecPrev(f)
           g == AddRecord(f, n)
<1>1. PICK t \in Recs \cup {NULL} : IsChain(P, nx, pv, f.childs, t)
  BY DEF Records
<1>2. P \subseteq 1..f.numrecs /\ P \subseteq Recs /\ P # {}
  BY FsFields DEF Records
<1> HIDE DEF P
<1>3. LastRec(f) = t /\ t \in P
  BY <1>1, <1>2, LastRecIsLast DEF P
<1> DEFINE u == pv[t]
<1>4. u = f.rec[t].prev
  BY <1>2, <1>3 DEF RecPrev
<1>5. g = MkMetaObj(f, u, n)
  BY <1>3, <1>4 DEF AddRecord
<1>6. w \notin P /\ w # NULL
  <2>1. f.numrecs \in Nat
    BY FsFields
  <2> QED
    BY <1>2, <2>1 DEF NULL
<1>7. u \in P \cup {NULL} /\ u # t /\ (u # NULL => nx[u] = t) /\ NULL \notin P
  BY <1>1, <1>3, ChainNoLoop DEF IsChain
<1>8. \A v \in Recs : nx[v] = f.rec[v].next /\ pv[v] = f.rec[v].prev
  BY DEF RecNext, RecPrev
<1> HIDE DEF u
<1>9. u \in Recs \cup {NULL} /\ u # w
  BY <1>2, <1>6, <1>7
<1>10. /\ g \in FsType /\ Alike(f, g) /\ w \in Recs /\ g.obj = f.obj /\ g.host = f.host
       /\ g.cached = f.cached /\ g.numrecs = w
       /\ g.childs = (IF u = NULL THEN w ELSE f.childs)
       /\ g.rec[w].name = n /\ g.rec[w].prev = u /\ g.rec[w].next = NULL
       /\ g.rec[w].obj = NULL
       /\ u # NULL => (g.rec[u].next = w /\ g.rec[u].prev = f.rec[u].prev)
       /\ \A v \in Recs \ {w} : g.rec[v].name = f.rec[v].name /\ g.rec[v].obj = f.rec[v].obj
       /\ \A v \in Recs \ {w, u} : g.rec[v] = f.rec[v]
  <2> DEFINE k == MkMetaObj(f, u, n)
  <2>1. /\ k \in FsType /\ Alike(f, k) /\ w \in Recs /\ k.obj = f.obj /\ k.host = f.host
        /\ k.cached = f.cached /\ k.numrecs = w
        /\ k.childs = (IF u = NULL THEN w ELSE f.childs)
        /\ k.rec[w].name = n /\ k.rec[w].prev = u /\ k.rec[w].next = NULL
        /\ k.rec[w].obj = NULL
        /\ u # NULL => (k.rec[u].next = w /\ k.rec[u].prev = f.rec[u].prev)
        /\ \A v \in Recs \ {w} : k.rec[v].name = f.rec[v].name /\ k.rec[v].obj = f.rec[v].obj
        /\ \A v \in Recs \ {w, u} : k.rec[v] = f.rec[v]
    BY <1>9, MkMetaObjFields
  <2>2. g = k
    BY <1>5
  <2> HIDE DEF k, g
  <2> QED
    BY <2>1, <2>2
<1> HIDE DEF g
<1> DEFINE nx2 == RecNext(g)
           pv2 == RecPrev(g)
<1>11. \A v \in Recs : nx2[v] = g.rec[v].next /\ pv2[v] = g.rec[v].prev
  BY DEF RecNext, RecPrev
<1>12. u = pv[t]
  BY DEF u
<1> HIDE DEF nx, pv, nx2, pv2
<1>13. /\ nx2[w] = NULL /\ pv2[w] = u
       /\ (u # NULL => nx2[u] = w)
       /\ \A x \in P \ {t, u} : nx2[x] = nx[x]
  BY <1>2, <1>6, <1>8, <1>9, <1>10, <1>11
<1>14. \A x \in P \ {t} : pv2[x] = pv[x]
  <2> TAKE x \in P \ {t}
  <2>1. x \in Recs /\ x # w /\ x # NULL
    BY <1>2, <1>6, <1>7
  <2> QED
    <3>1. CASE x = u
      BY <1>8, <1>10, <1>11, <2>1, <3>1
    <3>2. CASE x # u
      <4>1. g.rec[x] = f.rec[x]
        BY <1>10, <2>1, <3>2
      <4> QED
        BY <1>8, <1>11, <2>1, <4>1
    <3> QED
      BY <3>1, <3>2
<1>15. Replaced(P, nx, pv, nx2, pv2, t, w)
  BY <1>12, <1>13, <1>14 DEF Replaced
<1>16. g.childs = IF pv[t] = NULL THEN w ELSE f.childs
  BY <1>10, <1>12
<1>17. IsChain((P \ {t}) \cup {w}, nx2, pv2, g.childs, w)
  BY <1>1, <1>3, <1>6, <1>15, <1>16, ChainReplaceLast
<1> DEFINE Q == P \ {t}
<1>18. Linked(g) = Q \cup {w}
  <2>1. Q \cup {w} \in SUBSET Recs
    BY <1>2, <1>10 DEF Q
  <2> QED
    BY <1>10, <1>17, <2>1, ChainIsLinked DEF nx2, pv2, Q
<1>19. \E x \in Linked(f) : Linked(g) = (Linked(f) \ {x}) \cup {w}
  BY <1>3, <1>18 DEF P
<1>20. IsChain(Linked(g), RecNext(g), RecPrev(g), g.childs, w)
  BY <1>17, <1>18 DEF nx2, pv2
<1> QED
  BY <1>10, <1>19, <1>20 DEF g

-----------------------------------------------------------------------------
(* A file is looked up.                                                    *)

LEMMA AddsNone ==
  ASSUME NEW f, NEW g, Alike(f, g), g.obj = f.obj
  PROVE  Adds(f, g, {})
BY AlikeKnown DEF Adds

LEMMA AddsAfter ==
  ASSUME NEW f, NEW g, NEW h, NEW N, Adds(f, g, {}), Adds(g, h, N)
  PROVE  Adds(f, h, N)
BY DEF Adds

\* The records stay the same.
SameRecords(f, g) ==
  /\ g.host = f.host /\ g.numrecs = f.numrecs /\ g.childs = f.childs
  /\ g.cached = f.cached /\ g.rec = f.rec

LEMMA RecordsKept ==
  ASSUME NEW f, NEW g, Records(f), SameRecords(f, g), f.cached \/ Local(g) = {}
  PROVE  Records(g) /\ Linked(g) = Linked(f)
<1>1. RecNext(g) = RecNext(f) /\ RecPrev(g) = RecPrev(f)
  BY DEF RecNext, RecPrev, SameRecords
<1>2. Linked(g) = Linked(f)
  BY DEF Linked, Chain, SameRecords
<1>3. ~g.cached => Untouched(g)
  BY DEF Records, Untouched, SameRecords
<1> QED
  BY <1>1, <1>2, <1>3 DEF Records, SameRecords

LEMMA HostedAdds ==
  ASSUME NEW f, NEW g, NEW N, Hosted(f), SameRecords(f, g), Adds(f, g, N), N \subseteq Objs,
         \A o \in N : g.obj[o].dir = "local" =>
           /\ g.obj[o].id \in 1..g.numrecs /\ g.rec[g.obj[o].id].name = g.obj[o].file
           /\ g.obj[o].file \in Range(g.host)
  PROVE  Hosted(g)
<1>1. \A o \in Objs : o \notin N => /\ g.obj[o] = f.obj[o] /\ (o \in Live(g) <=> o \in Live(f))
                                    /\ (o \in Known(g) <=> o \in Known(f))
  BY DEF Adds
<1>2. \A o \in Local(f) : o \in Objs /\ o \notin N /\ o \in Local(g)
  BY <1>1 DEF Adds, Local, Live
<1>3. \A o \in Local(g) : o \in N \/ o \in Local(f)
  BY <1>1 DEF Local, Live
<1>4. ASSUME NEW w \in 1..g.numrecs, g.rec[w].obj # NULL
      PROVE  g.rec[w].obj \in Local(g) /\ g.obj[g.rec[w].obj].id = w
  <2>1. f.rec[w].obj \in Local(f) /\ f.obj[f.rec[w].obj].id = w
    BY <1>4 DEF Hosted, SameRecords
  <2> QED
    BY <1>1, <1>2, <2>1 DEF SameRecords
<1>5. ASSUME NEW o \in Local(g)
      PROVE  /\ o \in Known(g) /\ g.obj[o].id \in 1..g.numrecs
             /\ g.rec[g.obj[o].id].name = g.obj[o].file /\ g.obj[o].file \in Range(g.host)
  <2>1. CASE o \in N
    BY <2>1 DEF Adds, Local
  <2>2. CASE o \notin N
    <3>1. o \in Local(f) /\ o \in Objs /\ g.obj[o] = f.obj[o]
      BY <1>1, <1>2, <1>3, <2>2
    <3>2. /\ o \in Known(f) /\ f.obj[o].id \in 1..f.numrecs
          /\ f.rec[f.obj[o].id].name = f.obj[o].file /\ f.obj[o].file \in Range(f.host)
      BY <3>1 DEF Hosted
    <3> QED
      BY <1>1, <2>2, <3>1, <3>2 DEF SameRecords
  <2> QED
    BY <2>1, <2>2
<1> QED
  BY <1>4, <1>5 DEF Hosted

\* What obj_suballoc does when it has an object o and an entry for it.
Allocates(f, g, o, dir, id, n) ==
  /\ g \in FsType /\ Shared(g) /\ Named(g) /\ Records(g) /\ Linked(g) = Linked(f)
  /\ SameRecords(f, g) /\ Adds(f, g, {o}) /\ o \in Objs
  /\ g.obj[o].dir = dir /\ g.obj[o].file = n /\ g.obj[o].refcnt = 0
  /\ g.obj[o].made = FALSE /\ g.obj[o].id = id
  /\ dir = "local" => (id \in 1..f.numrecs /\ f.rec[id].name = n /\ n \in Range(f.host)
                         => Hosted(g))
  /\ dir = "memfs" => Hosted(g)

\* No object has the name.
LEMMA SubAllocSafe ==
  ASSUME NEW f, FsInv(f), NEW dir \in Dirs, NEW n \in Names, \A e \in In(f, dir) : f.name[e] # n,
         NEW id \in Recs \cup {NULL}, SubAlloc(f, dir, id, n).obj # NULL,
         dir = "local" => f.cached
  PROVE  LET a == SubAlloc(f, dir, id, n) IN Allocates(f, a.fs, a.obj, dir, id, n)
<1> DEFINE a == SubAlloc(f, dir, id, n)
           g == a.fs
           o == a.obj
           d == f.last["unused"]
<1>1. f \in FsType /\ Shared(f) /\ Named(f) /\ Records(f) /\ Hosted(f)
  BY DEF FsInv
<1>2. /\ Takes(f, g, o, d, dir, id, n) /\ o = Last(f.free) /\ f.free # <<>>
      /\ d \in In(f, "unused") /\ d \in Dirents
  BY <1>1, SubAllocTakes
<1> HIDE DEF a, d, g, o
<1>3. /\ Named(g) /\ Adds(f, g, {o}) /\ o \in Objs
  BY <1>1, <1>2, TakenNamed
<1>4. /\ g.obj[o].dir = dir /\ g.obj[o].file = n /\ g.obj[o].refcnt = 0
      /\ g.obj[o].made = FALSE /\ g.obj[o].id = id
  <2>1. g.obj[o] = [dir |-> dir, file |-> n, refcnt |-> 0, dirent |-> d,
                    made |-> FALSE, id |-> id, detail |-> f.obj[o].detail]
    BY <1>1, <1>2, <1>3, FsFields, ZenonT(60) DEF Takes
  <2> QED
    BY <2>1
<1>5. g \in FsType /\ Shared(g) /\ SameRecords(f, g)
  BY <1>2 DEF Takes, Moves, SameRecords
<1>6. Records(g) /\ Linked(g) = Linked(f)
  <2>1. f.cached \/ Local(g) = {}
    <3> SUFFICES ASSUME ~f.cached PROVE Local(g) = {}
      OBVIOUS
    <3>1. dir = "memfs" /\ Local(f) = {}
      BY <1>1 DEF Dirs, Records, Untouched
    <3>2. dir # "local"
      BY <3>1
    <3> QED
      BY <1>3, <1>4, <3>1, <3>2 DEF Adds, Local, Live
  <2> QED
    BY <1>1, <1>5, <2>1, RecordsKept
<1>7. ASSUME dir = "memfs" \/ (id \in 1..f.numrecs /\ f.rec[id].name = n /\ n \in Range(f.host))
      PROVE  Hosted(g)
  <2>1. \A x \in {o} : g.obj[x].dir = "local" =>
           /\ g.obj[x].id \in 1..g.numrecs /\ g.rec[g.obj[x].id].name = g.obj[x].file
           /\ g.obj[x].file \in Range(g.host)
    BY <1>4, <1>5, <1>7 DEF SameRecords
  <2> QED
    BY <1>1, <1>3, <1>5, <2>1, HostedAdds
<1> QED
  BY <1>3, <1>4, <1>5, <1>6, <1>7 DEF a, g, o, Allocates

\* What a lookup does: it may read /local and make an object, in use by nobody yet.
Finds(f, g, o, dir, n) ==
  /\ FsInv(g)
  /\ \/ /\ o = NULL /\ Adds(f, g, {})
        /\ \A d \in In(g, dir) : g.name[d] # n
        /\ dir = "local" => g.cached /\ \A w \in Linked(g) : g.rec[w].name # n
     \/ /\ o \in Known(g) /\ o # NULL /\ g.obj[o].dir = dir /\ g.obj[o].file = n
        /\ \/ Adds(f, g, {})
           \/ Adds(f, g, {o}) /\ g.obj[o].refcnt = 0 /\ ~g.obj[o].made

LEMMA WrapfsLookupFinds ==
  ASSUME NEW f, FsInv(f), NEW n \in Names, \A d \in In(f, "local") : f.name[d] # n,
         ~LookupCrashes(f, "local", n), Scan(f, "local", n) = NULL
  PROVE  LET r == WrapfsLookup(f, n) IN Finds(f, r.fs, r.obj, "local", n)
<1> DEFINE g == Collect(f)
           w == Record(g, n)
           a == SubAlloc(g, "local", w, n)
           r == WrapfsLookup(f, n)
<1>1. FsInv(g) /\ g.cached /\ Alike(f, g) /\ g.obj = f.obj
  BY CollectSafe
<1>2. SUFFICES Finds(f, r.fs, r.obj, "local", n)
  OBVIOUS
<1>3. r = IF w = NULL THEN [fs |-> g, obj |-> NULL]
          ELSE IF g.rec[w].obj # NULL THEN [fs |-> g, obj |-> g.rec[w].obj] ELSE a
  BY DEF WrapfsLookup, NotFound
<1>4. "local" \in Dirs
  BY DEF Dirs
<1>5. ~(w # NULL /\ g.rec[w].obj = NULL /\ r.obj = NULL)
  BY DEF LookupCrashes
<1> HIDE DEF g, r
<1>6. g \in FsType /\ Shared(g) /\ Named(g) /\ Records(g) /\ Hosted(g) /\ Adds(f, g, {})
  BY <1>1, AddsNone DEF FsInv
<1>7. \A d \in In(g, "local") : g.name[d] # n
  BY <1>1, AlikeKnown DEF Alike
<1>8. \/ w = NULL /\ \A v \in Linked(g) : g.rec[v].name # n
      \/ w \in Linked(g) /\ g.rec[w].name = n
  BY <1>6, RecordFinds
<1> HIDE DEF w, a
<1>9. CASE w = NULL
  <2>1. r.fs = g /\ r.obj = NULL
    BY <1>3, <1>9
  <2>2. \A v \in Linked(g) : g.rec[v].name # n
    <3>1. NULL \notin Linked(g)
      BY DEF Linked
    <3> QED
      BY <1>8, <1>9, <3>1
  <2> QED
    BY <1>1, <1>6, <1>7, <2>1, <2>2 DEF Finds
<1>10. CASE w # NULL
  <2>1. w \in Linked(g) /\ g.rec[w].name = n /\ w \in 1..g.numrecs /\ w \in Recs
    BY <1>6, <1>8, <1>10, FsFields DEF Records
  <2>2. CASE g.rec[w].obj # NULL
    <3> DEFINE o == g.rec[w].obj
    <3>1. r.fs = g /\ r.obj = o
      BY <1>3, <1>10, <2>2
    <3>2. o \in Local(g) /\ g.obj[o].id = w
      BY <1>6, <2>1, <2>2 DEF Hosted
    <3>3. /\ o \in Known(g) /\ g.obj[o].dir = "local" /\ g.obj[o].file = n /\ o # NULL
      BY <1>6, <2>1, <2>2, <3>2 DEF Hosted, Local
    <3> HIDE DEF o
    <3> QED
      BY <1>1, <1>6, <3>1, <3>3 DEF Finds
  <2>3. CASE g.rec[w].obj = NULL
    <3> DEFINE h == a.fs
               o == a.obj
    <3>1. r = a
      BY <1>3, <1>10, <2>3
    <3>2. o # NULL
      BY <1>5, <1>10, <2>3, <3>1
    <3>3. n \in Range(g.host)
      BY <1>6, <2>1 DEF Records
    <3>4. w \in Recs \cup {NULL} /\ SubAlloc(g, "local", w, n).obj # NULL
      BY <2>1, <3>2 DEF a
    <3>5. Allocates(g, h, o, "local", w, n)
      BY <1>1, <1>4, <1>7, <3>4, SubAllocSafe DEF a
    <3>6. /\ h \in FsType /\ Shared(h) /\ Named(h) /\ Records(h) /\ Hosted(h)
          /\ Adds(g, h, {o}) /\ o \in Objs /\ h.obj[o].dir = "local" /\ h.obj[o].file = n
          /\ h.obj[o].refcnt = 0 /\ h.obj[o].made = FALSE
      BY <2>1, <3>3, <3>5 DEF Allocates
    <3> HIDE DEF h, o
    <3>7. FsInv(h)
      BY <3>6 DEF FsInv
    <3>8. Adds(f, h, {o}) /\ o \in Known(h)
      BY <1>6, <3>6, AddsAfter DEF Adds
    <3>9. r.fs = h /\ r.obj = o
      BY <3>1 DEF h, o
    <3> QED
      BY <3>2, <3>6, <3>7, <3>8, <3>9 DEF Finds
  <2> QED
    BY <2>2, <2>3
<1> QED
  BY <1>9, <1>10

LEMMA LookupFinds ==
  ASSUME NEW f, FsInv(f), NEW dir \in Dirs, NEW n \in Names, ~LookupCrashes(f, dir, n)
  PROVE  LET r == Lookup(f, dir, n) IN Finds(f, r.fs, r.obj, dir, n)
<1> DEFINE s == Scan(f, dir, n)
           r == Lookup(f, dir, n)
<1>1. f \in FsType /\ Named(f)
  BY DEF FsInv
<1>2. \/ s = NULL /\ \A d \in In(f, dir) : f.name[d] # n
      \/ s \in Known(f) /\ s # NULL /\ f.obj[s].dir = dir /\ f.obj[s].file = n
  BY <1>1, ScanFinds
<1>3. Adds(f, f, {})
  BY DEF Adds
<1>4. r = IF s # NULL THEN [fs |-> f, obj |-> s]
          ELSE IF dir = "memfs" THEN [fs |-> f, obj |-> NULL] ELSE WrapfsLookup(f, n)
  BY DEF Lookup, NotFound
<1> HIDE DEF s, r
<1>5. CASE s # NULL
  <2>1. r.fs = f /\ r.obj = s
    BY <1>4, <1>5
  <2> QED
    BY <1>2, <1>3, <1>5, <2>1 DEF Finds, r
<1>6. CASE s = NULL /\ dir = "memfs"
  <2>1. r.fs = f /\ r.obj = NULL
    BY <1>4, <1>6
  <2> QED
    BY <1>2, <1>3, <1>6, <2>1 DEF Finds, r
<1>7. CASE s = NULL /\ dir # "memfs"
  <2>1. r = WrapfsLookup(f, n) /\ dir = "local"
    BY <1>4, <1>7 DEF Dirs
  <2>2. Scan(f, "local", n) = NULL /\ ~LookupCrashes(f, "local", n)
    BY <1>7, <2>1 DEF s
  <2>3. \A d \in In(f, "local") : f.name[d] # n
    BY <1>2, <1>7, <2>1
  <2> QED
    BY <2>1, <2>2, <2>3, WrapfsLookupFinds DEF r
<1> QED
  BY <1>5, <1>6, <1>7

-----------------------------------------------------------------------------
(* References.                                                             *)

SameIds(f, g) == \A x \in Objs : g.obj[x].id = f.obj[x].id

LEMMA CountsOnly ==
  ASSUME NEW f, NEW g, FsInv(f), g \in FsType, Alike(f, g), SameRecords(f, g), SameIds(f, g)
  PROVE  FsInv(g)
<1>1. Shared(f) /\ Named(f) /\ Records(f) /\ Hosted(f)
  BY DEF FsInv
<1>2. Shared(g) /\ Named(g) /\ Local(g) = Local(f) /\ Known(g) = Known(f)
  BY <1>1, AlikeKnown
<1>3. f.cached \/ Local(g) = {}
  BY <1>1, <1>2 DEF Records, Untouched
<1>4. Records(g)
  BY <1>1, <1>3, RecordsKept
<1>5. \A x \in Local(g) : x \in Objs
  BY DEF Local, Live
<1>6. Hosted(g)
  BY <1>1, <1>2, <1>5 DEF Hosted, SameRecords, SameIds, Alike
<1> QED
  BY <1>2, <1>4, <1>6 DEF FsInv

\* An object's count becomes c, its mark m.
Counts(f, g, o, c, m) ==
  /\ g \in FsType /\ Alike(f, g) /\ SameRecords(f, g) /\ SameIds(f, g)
  /\ g.obj[o].refcnt = c /\ g.obj[o].made = m /\ \A x \in Objs \ {o} : g.obj[x] = f.obj[x]

LEMMA CountsSet ==
  ASSUME NEW f \in FsType, NEW o \in Objs, NEW new \in ObjRec,
         new.dir = f.obj[o].dir, new.file = f.obj[o].file, new.dirent = f.obj[o].dirent,
         new.id = f.obj[o].id,
         NEW obj, obj = [f.obj EXCEPT ![o] = new], NEW g, g = [f EXCEPT !.obj = obj]
  PROVE  Counts(f, g, o, new.refcnt, new.made)
<1>1. f.obj \in [Objs -> ObjRec]
  BY FsFields
<1>2. obj \in [Objs -> ObjRec] /\ obj[o] = new /\ \A x \in Objs \ {o} : obj[x] = f.obj[x]
  BY <1>1
<1>3. /\ g \in FsType /\ g.obj = obj
      /\ g.prev = f.prev /\ g.next = f.next /\ g.first = f.first /\ g.last = f.last
      /\ g.name = f.name /\ g.of = f.of /\ g.free = f.free /\ g.host = f.host
      /\ g.numrecs = f.numrecs /\ g.childs = f.childs /\ g.cached = f.cached /\ g.rec = f.rec
  BY <1>2 DEF FsType
<1>4. \A x \in Objs : /\ obj[x].dir = f.obj[x].dir /\ obj[x].file = f.obj[x].file
                      /\ obj[x].dirent = f.obj[x].dirent /\ obj[x].id = f.obj[x].id
  BY <1>2
<1> QED
  BY <1>2, <1>3, <1>4 DEF Counts, Alike, SameRecords, SameIds

LEMMA RefCounts ==
  ASSUME NEW f \in FsType, NEW o \in Objs
  PROVE  Counts(f, Ref(f, o), o, f.obj[o].refcnt + 1, f.obj[o].made)
<1> DEFINE new == [f.obj[o] EXCEPT !.refcnt = f.obj[o].refcnt + 1]
<1>1. f.obj \in [Objs -> ObjRec] /\ f.obj[o] \in ObjRec
  BY FsFields
<1>2. f.obj[o].refcnt \in Nat
  BY <1>1 DEF ObjRec
<1>3. f.obj[o].refcnt + 1 \in Nat
  BY <1>2
<1>4. /\ new \in ObjRec /\ new.refcnt = f.obj[o].refcnt + 1 /\ new.made = f.obj[o].made
      /\ new.dir = f.obj[o].dir /\ new.file = f.obj[o].file /\ new.dirent = f.obj[o].dirent
      /\ new.id = f.obj[o].id
  BY <1>1, <1>3 DEF ObjRec
<1>5. Ref(f, o) = [f EXCEPT !.obj = [f.obj EXCEPT ![o] = new]]
  BY Zenon DEF Ref
<1> HIDE DEF new
<1>6. Counts(f, Ref(f, o), o, new.refcnt, new.made)
  BY <1>4, <1>5, CountsSet
<1> QED
  BY <1>4, <1>6

LEMMA UnrefCounts ==
  ASSUME NEW f \in FsType, NEW o \in Objs, f.obj[o].refcnt > 0
  PROVE  Counts(f, Unref(f, o), o, f.obj[o].refcnt - 1, f.obj[o].made)
<1> DEFINE new == [f.obj[o] EXCEPT !.refcnt = f.obj[o].refcnt - 1]
<1>1. f.obj \in [Objs -> ObjRec] /\ f.obj[o] \in ObjRec
  BY FsFields
<1>2. f.obj[o].refcnt \in Nat
  BY <1>1 DEF ObjRec
<1>3. f.obj[o].refcnt - 1 \in Nat
  BY <1>2
<1>4. /\ new \in ObjRec /\ new.refcnt = f.obj[o].refcnt - 1 /\ new.made = f.obj[o].made
      /\ new.dir = f.obj[o].dir /\ new.file = f.obj[o].file /\ new.dirent = f.obj[o].dirent
      /\ new.id = f.obj[o].id
  BY <1>1, <1>3 DEF ObjRec
<1>5. Unref(f, o) = [f EXCEPT !.obj = [f.obj EXCEPT ![o] = new]]
  BY Zenon DEF Unref
<1> HIDE DEF new
<1>6. Counts(f, Unref(f, o), o, new.refcnt, new.made)
  BY <1>4, <1>5, CountsSet
<1> QED
  BY <1>4, <1>6

LEMMA MadeCounts ==
  ASSUME NEW f \in FsType, NEW o \in Objs
  PROVE  Counts(f, [f EXCEPT !.obj[o].made = TRUE], o, f.obj[o].refcnt, TRUE)
<1> DEFINE new == [f.obj[o] EXCEPT !.made = TRUE]
<1>1. f.obj \in [Objs -> ObjRec] /\ f.obj[o] \in ObjRec
  BY FsFields
<1>2. f.obj[o].refcnt \in Nat
  BY <1>1 DEF ObjRec
<1>3. TRUE \in BOOLEAN
  BY <1>2
<1>4. /\ new \in ObjRec /\ new.refcnt = f.obj[o].refcnt /\ new.made = TRUE
      /\ new.dir = f.obj[o].dir /\ new.file = f.obj[o].file /\ new.dirent = f.obj[o].dirent
      /\ new.id = f.obj[o].id
  BY <1>1, <1>3 DEF ObjRec
<1>5. [f EXCEPT !.obj[o].made = TRUE] = [f EXCEPT !.obj = [f.obj EXCEPT ![o] = new]]
  BY Zenon
<1> HIDE DEF new
<1>6. Counts(f, [f EXCEPT !.obj[o].made = TRUE], o, new.refcnt, new.made)
  BY <1>4, <1>5, CountsSet
<1> QED
  BY <1>4, <1>6

-----------------------------------------------------------------------------
(* A file is created.                                                      *)

LEMMA AlikeTrans ==
  ASSUME NEW f, NEW g, NEW h, Alike(f, g), Alike(g, h)
  PROVE  Alike(f, h)
BY DEF Alike

LEMMA RangeAppend ==
  ASSUME NEW S, NEW s \in Seq(S), NEW e \in S
  PROVE  /\ Append(s, e) \in Seq(S) /\ Range(Append(s, e)) = Range(s) \cup {e}
         /\ Len(Append(s, e)) = Len(s) + 1
         /\ Append(s, e)[Len(s) + 1] = e /\ \A i \in 1..Len(s) : Append(s, e)[i] = s[i]
<1> DEFINE t == Append(s, e)
           n == Len(s)
<1>1. t \in Seq(S) /\ Len(t) = n + 1 /\ t[n + 1] = e /\ \A i \in 1..n : t[i] = s[i]
  OBVIOUS
<1>2. n \in Nat /\ DOMAIN s = 1..n /\ DOMAIN t = 1..(n + 1)
  BY <1>1
<1> HIDE DEF t, n
<1>3. \A i \in 1..(n + 1) : i = n + 1 \/ i \in 1..n
  BY <1>2
<1>4. n + 1 \in 1..(n + 1) /\ \A i \in 1..n : i \in 1..(n + 1)
  BY <1>2
<1>5. Range(t) = {t[i] : i \in 1..(n + 1)} /\ Range(s) = {s[i] : i \in 1..n}
  BY <1>2 DEF Range
<1>6. Range(t) = Range(s) \cup {e}
  BY <1>1, <1>3, <1>4, <1>5
<1> QED
  BY <1>1, <1>6 DEF t, n

\* Record w is given to object o, and the file n is on the host.
Enrols(f, g, o, w, n) ==
  /\ g \in FsType /\ Alike(f, g) /\ Range(g.host) = Range(f.host) \cup {n}
  /\ g.numrecs = f.numrecs /\ g.childs = f.childs /\ g.cached = f.cached
  /\ g.obj[o].id = w /\ g.obj[o].refcnt = f.obj[o].refcnt /\ g.obj[o].made = f.obj[o].made
  /\ \A x \in Objs \ {o} : g.obj[x] = f.obj[x]
  /\ g.rec[w].obj = o /\ \A v \in Recs \ {w} : g.rec[v].obj = f.rec[v].obj
  /\ \A v \in Recs : /\ g.rec[v].name = f.rec[v].name /\ g.rec[v].prev = f.rec[v].prev
                     /\ g.rec[v].next = f.rec[v].next

LEMMA CreateEnrols ==
  ASSUME NEW f \in FsType, NEW o \in Objs, NEW n \in Names,
         NEW k, k = AddRecord(f, n), k \in FsType, NEW w \in Recs, w = k.numrecs
  PROVE  Enrols(k, WrapfsCreate(f, o, n), o, w, n)
<1> DEFINE host == IF n \in Range(k.host) THEN k.host ELSE Append(k.host, n)
           newo == [k.obj[o] EXCEPT !.id = w, !.detail = w]
           newr == [k.rec[w] EXCEPT !.obj = o]
           obj == [k.obj EXCEPT ![o] = newo]
           rec == [k.rec EXCEPT ![w] = newr]
           g == WrapfsCreate(f, o, n)
<1>1. /\ k.obj \in [Objs -> ObjRec] /\ k.rec \in [Recs -> HostRec] /\ k.host \in Seq(Names)
      /\ k.obj[o] \in ObjRec /\ k.rec[w] \in HostRec
  BY FsFields
<1>2. g = [k EXCEPT !.host = host, !.obj = obj, !.rec = rec]
  <2>1. g = [k EXCEPT !.host = host, !.obj[o] = newo, !.rec[w].obj = o]
    BY Zenon DEF WrapfsCreate
  <2> HIDE DEF g, host, newo
  <2>2. [k EXCEPT !.host = host, !.obj[o] = newo, !.rec[w].obj = o] =
          [k EXCEPT !.host = host, !.obj = obj, !.rec = rec]
    BY Zenon
  <2> QED
    BY <2>1, <2>2
<1>3. host \in Seq(Names) /\ Range(host) = Range(k.host) \cup {n}
  BY <1>1, RangeAppend
<1>4. /\ newo \in ObjRec /\ newo.id = w /\ newo.refcnt = k.obj[o].refcnt
      /\ newo.made = k.obj[o].made /\ newo.dir = k.obj[o].dir /\ newo.file = k.obj[o].file
      /\ newo.dirent = k.obj[o].dirent
  BY <1>1 DEF ObjRec
<1>5. /\ newr \in HostRec /\ newr.obj = o /\ newr.name = k.rec[w].name
      /\ newr.prev = k.rec[w].prev /\ newr.next = k.rec[w].next
  BY <1>1 DEF HostRec
<1> HIDE DEF newo, newr, host
<1>6. obj \in [Objs -> ObjRec] /\ obj[o] = newo /\ \A x \in Objs \ {o} : obj[x] = k.obj[x]
  BY <1>1, <1>4
<1>7. rec \in [Recs -> HostRec] /\ rec[w] = newr /\ \A v \in Recs \ {w} : rec[v] = k.rec[v]
  BY <1>1, <1>5
<1> HIDE DEF obj, rec, g
<1>8. /\ g \in FsType /\ g.obj = obj /\ g.rec = rec /\ g.host = host
      /\ g.prev = k.prev /\ g.next = k.next /\ g.first = k.first /\ g.last = k.last
      /\ g.name = k.name /\ g.of = k.of /\ g.free = k.free
      /\ g.numrecs = k.numrecs /\ g.childs = k.childs /\ g.cached = k.cached
  BY <1>2, <1>3, <1>6, <1>7 DEF FsType
<1>9. \A x \in Objs : /\ obj[x].dir = k.obj[x].dir /\ obj[x].file = k.obj[x].file
                      /\ obj[x].dirent = k.obj[x].dirent
  BY <1>4, <1>6
<1>10. \A v \in Recs : /\ rec[v].name = k.rec[v].name /\ rec[v].prev = k.rec[v].prev
                       /\ rec[v].next = k.rec[v].next
  BY <1>5, <1>7
<1>11. /\ rec[w].obj = o /\ \A v \in Recs \ {w} : rec[v].obj = k.rec[v].obj
  BY <1>5, <1>7
<1>12. Alike(k, g)
  BY <1>8, <1>9 DEF Alike
<1> QED
  BY <1>3, <1>4, <1>6, <1>8, <1>10, <1>11, <1>12 DEF Enrols, g

\* create() makes an object that is in use, not free, and has the name.
Creates(f, h, o, dir, n) ==
  /\ FsInv(h) /\ Adds(f, h, {o}) /\ o \in Objs /\ o # NULL
  /\ h.obj[o].dir = dir /\ h.obj[o].file = n /\ h.obj[o].refcnt = 1 /\ h.obj[o].made = TRUE
\* The object's count and mark after the file system has made the file.
LEMMA CreateCounts ==
  ASSUME NEW f, NEW g, NEW h, NEW o \in Objs, NEW dir, NEW n, FsInv(g), Adds(f, g, {o}),
         g.obj[o].dir = dir, g.obj[o].file = n, g.obj[o].refcnt = 0, g.obj[o].made = TRUE,
         h = Ref(g, o)
  PROVE  Creates(f, h, o, dir, n)
<1>1. g \in FsType
  BY DEF FsInv
<1>2. Counts(g, h, o, g.obj[o].refcnt + 1, g.obj[o].made)
  BY <1>1, RefCounts
<1>3. /\ h \in FsType /\ Alike(g, h) /\ SameRecords(g, h) /\ SameIds(g, h)
      /\ h.obj[o].refcnt = 1 /\ h.obj[o].made = TRUE /\ \A x \in Objs \ {o} : h.obj[x] = g.obj[x]
  BY <1>2 DEF Counts
<1>4. FsInv(h)
  BY <1>3, CountsOnly
<1>5. Live(h) = Live(g) /\ Known(h) = Known(g)
  BY <1>3, AlikeKnown
<1>6. Adds(f, h, {o})
  BY <1>3, <1>5 DEF Adds
<1>7. h.obj[o].dir = dir /\ h.obj[o].file = n
  BY <1>3 DEF Alike
<1>8. o # NULL
  BY NumbersAreNat
<1> QED
  BY <1>3, <1>4, <1>6, <1>7, <1>8 DEF Creates

LEMMA MemfsCreates ==
  ASSUME NEW f, FsInv(f), NEW n \in Names, \A e \in In(f, "memfs") : f.name[e] # n,
         SubAlloc(f, "memfs", NULL, n).obj # NULL
  PROVE  LET a == SubAlloc(f, "memfs", NULL, n)
         IN Creates(f, Ref([a.fs EXCEPT !.obj[a.obj].made = TRUE], a.obj), a.obj, "memfs", n)
<1> DEFINE a == SubAlloc(f, "memfs", NULL, n)
           g == a.fs
           o == a.obj
           m == [g EXCEPT !.obj[o].made = TRUE]
<1>1. SUFFICES Creates(f, Ref(m, o), o, "memfs", n)
  OBVIOUS
<1>2. Allocates(f, g, o, "memfs", NULL, n)
  BY SubAllocSafe DEF Dirs
<1> HIDE DEF a, g, o
<1>3. g \in FsType /\ o \in Objs /\ Adds(f, g, {o}) /\ FsInv(g) /\ g.obj[o].refcnt = 0
      /\ g.obj[o].dir = "memfs" /\ g.obj[o].file = n
  BY <1>2 DEF Allocates, FsInv
<1>4. Counts(g, m, o, g.obj[o].refcnt, TRUE)
  BY <1>3, MadeCounts
<1> HIDE DEF m
<1>5. /\ m \in FsType /\ Alike(g, m) /\ SameRecords(g, m) /\ SameIds(g, m)
      /\ m.obj[o].refcnt = 0 /\ m.obj[o].made = TRUE /\ \A x \in Objs \ {o} : m.obj[x] = g.obj[x]
  BY <1>3, <1>4 DEF Counts
<1>6. FsInv(m)
  BY <1>3, <1>5, CountsOnly
<1>7. Live(m) = Live(g) /\ Known(m) = Known(g)
  BY <1>5, AlikeKnown
<1>8. Adds(f, m, {o})
  BY <1>3, <1>5, <1>7 DEF Adds
<1>9. m.obj[o].dir = "memfs" /\ m.obj[o].file = n
  BY <1>3, <1>5 DEF Alike
<1> QED
  BY <1>3, <1>5, <1>6, <1>8, <1>9, CreateCounts

RecordIsAdded(f, g, n, w) ==
  /\ g \in FsType /\ Alike(f, g) /\ w \in Recs /\ g.obj = f.obj /\ g.host = f.host
  /\ g.cached = f.cached /\ g.numrecs = w
  /\ g.rec[w].name = n /\ g.rec[w].obj = NULL
  /\ \A v \in Recs \ {w} : g.rec[v].name = f.rec[v].name /\ g.rec[v].obj = f.rec[v].obj
  /\ \E t \in Linked(f) : Linked(g) = (Linked(f) \ {t}) \cup {w}
  /\ IsChain(Linked(g), RecNext(g), RecPrev(g), g.childs, w)

LEMMA RecordAddedIs ==
  ASSUME NEW f \in FsType, Records(f), Linked(f) # {}, f.numrecs < NumRecs, NEW n \in Names,
         NEW w, w = f.numrecs + 1
  PROVE  RecordIsAdded(f, AddRecord(f, n), n, w)
<1> DEFINE g == AddRecord(f, n)
<1> SUFFICES RecordIsAdded(f, g, n, w)
  OBVIOUS
<1>1. /\ g \in FsType /\ Alike(f, g) /\ w \in Recs /\ g.obj = f.obj /\ g.host = f.host
      /\ g.cached = f.cached /\ g.numrecs = w
      /\ g.rec[w].name = n /\ g.rec[w].obj = NULL
      /\ \A v \in Recs \ {w} : g.rec[v].name = f.rec[v].name /\ g.rec[v].obj = f.rec[v].obj
      /\ \E t \in Linked(f) : Linked(g) = (Linked(f) \ {t}) \cup {w}
      /\ IsChain(Linked(g), RecNext(g), RecPrev(g), g.childs, w)
  BY RecordAdded
<1> HIDE DEF g
<1> QED
  BY <1>1 DEF RecordIsAdded

\* The new record belongs to the new object.
LEMMA EnrolledSafe ==
  ASSUME NEW f, FsInv(f), f.cached, NEW g \in FsType, NEW o \in Objs, NEW n \in Names,
         Shared(g), Named(g), Adds(f, g, {o}),
         g.obj[o].dir = "local", g.obj[o].file = n, g.cached, g.host = f.host,
         g.numrecs = f.numrecs, Records(g), Linked(g) # {}, Linked(g) = Linked(f), g.rec = f.rec,
         \A v \in Linked(f) : f.rec[v].name # n,
         f.numrecs < NumRecs, NEW c, c = WrapfsCreate(g, o, n)
  PROVE  FsInv(c) /\ Adds(f, c, {o})
         /\ c.obj[o].dir = "local" /\ c.obj[o].file = n
         /\ c.obj[o].refcnt = g.obj[o].refcnt /\ c.obj[o].made = g.obj[o].made
<1> DEFINE k == AddRecord(g, n)
           w == f.numrecs + 1
<1>1. Records(f) /\ Hosted(f) /\ f \in FsType
  BY DEF FsInv
<1>2. f.numrecs \in Nat /\ w = g.numrecs + 1 /\ g.numrecs < NumRecs
  BY <1>1, FsFields
<1>3. w = f.numrecs + 1 /\ f.numrecs \in Nat /\ 1..f.numrecs = 1..w \ {w}
  <2>1. \A v \in 1..w : v # w => v \in 1..f.numrecs
    BY <1>2
  <2>2. \A v \in 1..f.numrecs : v \in 1..w /\ v # w
    BY <1>2
  <2> QED
    BY <1>2, <2>1, <2>2
<1>4. \A v \in 1..w : v \in Recs
  BY <1>2, NumbersAreNat DEF Recs
<1> HIDE DEF w
<1>5. RecordIsAdded(g, k, n, w)
  BY <1>2, RecordAddedIs
<1> HIDE DEF k
<1>6. /\ k \in FsType /\ Alike(g, k) /\ w \in Recs /\ k.obj = g.obj /\ k.host = f.host
      /\ k.cached = g.cached /\ k.numrecs = w
      /\ k.rec[w].name = n /\ k.rec[w].obj = NULL
      /\ \A v \in Recs \ {w} : k.rec[v].name = f.rec[v].name /\ k.rec[v].obj = f.rec[v].obj
      /\ \E t \in Linked(f) : Linked(k) = (Linked(f) \ {t}) \cup {w}
      /\ IsChain(Linked(k), RecNext(k), RecPrev(k), k.childs, w)
  BY <1>5 DEF RecordIsAdded
<1>7. Enrols(k, c, o, w, n)
  BY <1>6, CreateEnrols DEF k
<1>8. /\ c \in FsType /\ Alike(k, c) /\ Range(c.host) = Range(f.host) \cup {n}
      /\ c.numrecs = w /\ c.childs = k.childs /\ c.cached
      /\ c.obj[o].id = w /\ c.obj[o].refcnt = g.obj[o].refcnt /\ c.obj[o].made = g.obj[o].made
      /\ \A x \in Objs \ {o} : c.obj[x] = f.obj[x]
      /\ c.rec[w].obj = o /\ \A v \in Recs \ {w} : c.rec[v].obj = f.rec[v].obj
      /\ \A v \in Recs : /\ c.rec[v].name = k.rec[v].name /\ c.rec[v].prev = k.rec[v].prev
                         /\ c.rec[v].next = k.rec[v].next
  BY <1>6, <1>7 DEF Enrols, Adds
<1>9. Alike(g, c)
  BY <1>6, <1>8, AlikeTrans
<1>10. Shared(c) /\ Named(c) /\ Live(c) = Live(f) \cup {o} /\ Known(c) = Known(f) \cup {o}
  BY <1>9, AlikeKnown DEF Adds
<1>11. Adds(f, c, {o})
  BY <1>8, <1>10 DEF Adds
<1>12. c.obj[o].dir = "local" /\ c.obj[o].file = n /\ c.rec[w].name = n
  BY <1>6, <1>8, <1>9 DEF Alike
<1>13. \A v \in Recs \ {w} : c.rec[v].name = f.rec[v].name /\ c.rec[v].obj = f.rec[v].obj
  BY <1>6, <1>8
<1>14. RecNext(c) = RecNext(k) /\ RecPrev(c) = RecPrev(k)
  BY <1>8 DEF RecNext, RecPrev
<1>15. Linked(c) = Linked(k)
  BY <1>8, <1>14 DEF Linked, Chain, RecNext
<1>16. PICK t \in Linked(f) : Linked(c) = (Linked(f) \ {t}) \cup {w}
  BY <1>6, <1>15
<1>17. Linked(f) \subseteq 1..f.numrecs
  BY <1>1 DEF Records
<1>18. \A v \in Linked(c) : v = w \/ (v \in Linked(f) /\ v # w /\ v \in Recs /\ c.rec[v].name = f.rec[v].name)
  BY <1>3, <1>4, <1>13, <1>16, <1>17
<1>19. \A u, v \in Linked(c) : c.rec[u].name = c.rec[v].name => u = v
  BY <1>1, <1>12, <1>18 DEF Records
<1>20. \A v \in Linked(c) : c.rec[v].name \in Range(c.host)
  BY <1>1, <1>8, <1>12, <1>18 DEF Records
<1>21. Linked(c) \subseteq 1..c.numrecs
  BY <1>3, <1>4, <1>8, <1>16, <1>17
<1>22. IsChain(Linked(c), RecNext(c), RecPrev(c), c.childs, w)
  BY <1>6, <1>8, <1>14, <1>15
<1>23. Records(c)
  BY <1>6, <1>8, <1>19, <1>20, <1>21, <1>22 DEF Records
<1>24. Local(c) = Local(f) \cup {o} /\ o \notin Local(f) /\ o \notin Live(f)
  BY <1>8, <1>10, <1>12 DEF Local, Live, Adds
<1>25. ASSUME NEW v \in 1..c.numrecs, c.rec[v].obj # NULL
       PROVE  c.rec[v].obj \in Local(c) /\ c.obj[c.rec[v].obj].id = v
  <2>1. CASE v = w
    BY <1>8, <1>24, <2>1
  <2>2. CASE v # w
    <3>1. v \in 1..f.numrecs /\ c.rec[v].obj = f.rec[v].obj
      BY <1>3, <1>4, <1>8, <1>25, <2>2
    <3>2. f.rec[v].obj \in Local(f) /\ f.obj[f.rec[v].obj].id = v
      BY <1>1, <1>25, <3>1 DEF Hosted
    <3>3. f.rec[v].obj \in Objs \ {o}
      BY <1>24, <3>2 DEF Local, Live
    <3> QED
      BY <1>8, <1>24, <3>1, <3>2, <3>3
  <2> QED
    BY <2>1, <2>2
<1>26. ASSUME NEW x \in Local(c)
       PROVE  /\ x \in Known(c) /\ c.obj[x].id \in 1..c.numrecs
              /\ c.rec[c.obj[x].id].name = c.obj[x].file /\ c.obj[x].file \in Range(c.host)
  <2>1. CASE x = o
    <3>1. w \in 1..w
      BY <1>3
    <3> QED
      BY <1>8, <1>10, <1>12, <2>1, <3>1
  <2>2. CASE x # o
    <3>1. x \in Local(f) /\ x \in Objs \ {o}
      BY <1>24, <1>26, <2>2 DEF Local, Live
    <3>2. /\ x \in Known(f) /\ f.obj[x].id \in 1..f.numrecs
          /\ f.rec[f.obj[x].id].name = f.obj[x].file /\ f.obj[x].file \in Range(f.host)
      BY <1>1, <3>1 DEF Hosted
    <3>3. c.obj[x] = f.obj[x] /\ f.obj[x].id \in 1..w /\ f.obj[x].id # w /\ f.obj[x].id \in Recs
      BY <1>3, <1>4, <1>8, <3>1, <3>2
    <3> QED
      BY <1>8, <1>10, <1>13, <3>2, <3>3
  <2> QED
    BY <2>1, <2>2
<1>27. Hosted(c)
  BY <1>25, <1>26 DEF Hosted
<1> QED
  BY <1>8, <1>10, <1>11, <1>12, <1>23, <1>27 DEF FsInv

LEMMA WrapfsCreates ==
  ASSUME NEW f, FsInv(f), f.cached, NEW n \in Names, \A e \in In(f, "local") : f.name[e] # n,
         \A v \in Linked(f) : f.rec[v].name # n, Linked(f) # {}, f.numrecs < NumRecs,
         SubAlloc(f, "local", NULL, n).obj # NULL
  PROVE  LET a == SubAlloc(f, "local", NULL, n)
             made == [a.fs EXCEPT !.obj[a.obj].made = TRUE]
         IN Creates(f, Ref(WrapfsCreate(made, a.obj, n), a.obj), a.obj, "local", n)
<1> DEFINE a == SubAlloc(f, "local", NULL, n)
           g == a.fs
           o == a.obj
           m == [g EXCEPT !.obj[o].made = TRUE]
           c == WrapfsCreate(m, o, n)
<1>1. SUFFICES Creates(f, Ref(c, o), o, "local", n)
  OBVIOUS
<1>2. Allocates(f, g, o, "local", NULL, n)
  BY SubAllocSafe DEF Dirs
<1> HIDE DEF a, g, o
<1>3. /\ g \in FsType /\ o \in Objs /\ Adds(f, g, {o}) /\ g.obj[o].refcnt = 0
      /\ g.obj[o].dir = "local" /\ g.obj[o].file = n
      /\ Records(g) /\ Linked(g) = Linked(f) /\ Shared(g) /\ Named(g) /\ SameRecords(f, g)
  BY <1>2 DEF Allocates
<1>4. Counts(g, m, o, g.obj[o].refcnt, TRUE)
  BY <1>3, MadeCounts
<1> HIDE DEF m
<1>5. /\ m \in FsType /\ Alike(g, m) /\ SameRecords(g, m)
      /\ m.obj[o].refcnt = 0 /\ m.obj[o].made = TRUE /\ \A x \in Objs \ {o} : m.obj[x] = g.obj[x]
  BY <1>3, <1>4 DEF Counts
<1>6. Shared(m) /\ Named(m) /\ Live(m) = Live(g) /\ Known(m) = Known(g)
  BY <1>3, <1>5, AlikeKnown
<1>7. Adds(f, m, {o})
  BY <1>3, <1>5, <1>6 DEF Adds
<1>8. m.obj[o].dir = "local" /\ m.obj[o].file = n
  BY <1>3, <1>5 DEF Alike
<1>9. m.cached /\ m.host = f.host /\ m.numrecs = f.numrecs /\ m.rec = f.rec
  BY <1>3, <1>5 DEF SameRecords
<1>10. Records(m) /\ Linked(m) = Linked(f)
  BY <1>3, <1>5, <1>9, RecordsKept DEF SameRecords
<1> HIDE DEF c
<1>11. /\ FsInv(c) /\ Adds(f, c, {o}) /\ c.obj[o].dir = "local" /\ c.obj[o].file = n
       /\ c.obj[o].refcnt = m.obj[o].refcnt /\ c.obj[o].made = m.obj[o].made
  BY <1>3, <1>5, <1>6, <1>7, <1>8, <1>9, <1>10, EnrolledSafe, SMTT(60) DEF c
<1> QED
  BY <1>3, <1>5, <1>11, CreateCounts
\* With obj_suballoc it only matters what is free.
LEMMA SubAllocSame ==
  ASSUME NEW f, NEW g, g.free = f.free, g.last = f.last, NEW dir, NEW id, NEW n
  PROVE  SubAlloc(g, dir, id, n).obj = SubAlloc(f, dir, id, n).obj
BY DEF SubAlloc

\* The path of create() in wrapfs: the name is looked up in the records.
LEMMA CreateReady ==
  ASSUME NEW f, FsInv(f), NEW n \in Names, ~LookupCrashes(f, "local", n),
         ~CreateCrashes(f, "local", n), NEW r, r = Lookup(f, "local", n), r.obj = NULL,
         SubAlloc(r.fs, "local", NULL, n).obj # NULL
  PROVE  r.fs = Collect(f) /\ Linked(r.fs) # {} /\ r.fs.cached
<1> DEFINE g == Collect(f)
           w == Record(g, n)
           a == SubAlloc(g, "local", w, n)
<1>1. FsInv(g) /\ g.cached /\ Alike(f, g)
  BY CollectSafe
<1>2. Scan(f, "local", n) = NULL /\ r = WrapfsLookup(f, n)
  <2>1. r = IF Scan(f, "local", n) # NULL THEN [fs |-> f, obj |-> Scan(f, "local", n)]
            ELSE WrapfsLookup(f, n)
    BY DEF Lookup
  <2> QED
    BY <2>1
<1>3. r = IF w = NULL THEN [fs |-> g, obj |-> NULL]
          ELSE IF g.rec[w].obj # NULL THEN [fs |-> g, obj |-> g.rec[w].obj] ELSE a
  BY <1>2 DEF WrapfsLookup, NotFound
<1>4. ~(w # NULL /\ g.rec[w].obj = NULL /\ r.obj = NULL)
  BY <1>2 DEF LookupCrashes
<1>5. ~(SubAlloc(f, "local", NULL, n).obj # NULL /\ g.childs = NULL)
  BY DEF CreateCrashes
<1> HIDE DEF g, w, a
<1>6. w = NULL
  BY <1>3, <1>4
<1>7. r.fs = g
  BY <1>3, <1>6
<1>8. g.free = f.free /\ g.last = f.last
  BY <1>1 DEF Alike
<1>9. g.childs # NULL
  BY <1>5, <1>7, <1>8, SubAllocSame
<1>10. Linked(g) # {}
  BY <1>1, <1>9 DEF FsInv, Records, IsChain
<1> QED
  BY <1>1, <1>7, <1>10 DEF g

LEMMA CreatesAfter ==
  ASSUME NEW f, NEW g, NEW h, NEW o, NEW dir, NEW n, Adds(f, g, {}), Creates(g, h, o, dir, n)
  PROVE  Creates(f, h, o, dir, n)
BY AddsAfter DEF Creates

\* What create() makes of a file system in order.
LEMMA CreateSafe ==
  ASSUME NEW f, FsInv(f), NEW dir \in Dirs, NEW n \in Names, ~LookupCrashes(f, dir, n),
         ~CreateCrashes(f, dir, n), dir = "local" => Collect(f).numrecs < NumRecs,
         NEW r, r = Lookup(f, dir, n), r.obj = NULL,
         NEW a, a = SubAlloc(r.fs, dir, NULL, n), a.obj # NULL,
         NEW made, made = [a.fs EXCEPT !.obj[a.obj].made = TRUE],
         NEW new, new = IF dir = "memfs" THEN made ELSE WrapfsCreate(made, a.obj, n)
  PROVE  Creates(f, Ref(new, a.obj), a.obj, dir, n)
<1> DEFINE g == r.fs
<1>1. Finds(f, g, NULL, dir, n)
  BY LookupFinds
<1>2. /\ FsInv(g) /\ Adds(f, g, {}) /\ \A d \in In(g, dir) : g.name[d] # n
      /\ dir = "local" => g.cached /\ \A w \in Linked(g) : g.rec[w].name # n
  BY <1>1 DEF Finds
<1> HIDE DEF g
<1>3. a = SubAlloc(g, dir, NULL, n)
  BY DEF g
<1>4. CASE dir = "memfs"
  <2>1. Creates(g, Ref(made, a.obj), a.obj, "memfs", n)
    BY <1>2, <1>3, <1>4, MemfsCreates
  <2> QED
    BY <1>2, <1>4, <2>1, CreatesAfter
<1>5. CASE dir = "local"
  <2>1. g = Collect(f) /\ Linked(g) # {} /\ g.cached
    BY <1>3, <1>5, CreateReady DEF g
  <2>2. g.numrecs < NumRecs
    BY <1>5, <2>1
  <2>3. Creates(g, Ref(WrapfsCreate(made, a.obj, n), a.obj), a.obj, "local", n)
    <3>1. /\ \A e \in In(g, "local") : g.name[e] # n
          /\ \A w \in Linked(g) : g.rec[w].name # n
          /\ SubAlloc(g, "local", NULL, n).obj # NULL
      BY <1>2, <1>3, <1>5
    <3> QED
      BY <1>2, <1>3, <1>5, <2>1, <2>2, <3>1, WrapfsCreates
  <2>4. new = WrapfsCreate(made, a.obj, n)
    BY <1>5
  <2> QED
    BY <1>2, <1>5, <2>3, <2>4, CreatesAfter
<1> QED
  BY <1>4, <1>5 DEF Dirs
-----------------------------------------------------------------------------
(* The table entries.                                                      *)

TableType == [Procs -> [Objs -> Nat]]

LEMMA HandlesMember ==
  ASSUME NEW t \in TableType, NEW o \in Objs, NEW h
  PROVE  h \in HandlesIn(t, o) <=> \E q \in Procs : \E i \in 1..t[q][o] : h = <<q, i>>
BY DEF HandlesIn

LEMMA NobodyHas ==
  ASSUME NEW t \in TableType, NEW o \in Objs
  PROVE  (\A p \in Procs : t[p][o] = 0) <=> HandlesIn(t, o) = {}
<1>1. ASSUME \A p \in Procs : t[p][o] = 0
      PROVE  HandlesIn(t, o) = {}
  BY <1>1 DEF HandlesIn
<1>2. ASSUME HandlesIn(t, o) = {}, NEW p \in Procs, t[p][o] # 0
      PROVE  FALSE
  <2>1. t[p][o] \in Nat
    BY DEF TableType
  <2>2. 1 \in 1..t[p][o]
    BY <1>2, <2>1
  <2>3. <<p, 1>> \in HandlesIn(t, o)
    BY <2>2, HandlesMember
  <2> QED
    BY <1>2, <2>3
<1> QED
  BY <1>1, <1>2

\* Table entries of p for object o change in number.
Rekeeps(t, u, p, o, k) ==
  /\ u \in TableType /\ u[p][o] = k
  /\ \A q \in Procs : \A x \in Objs : (q # p \/ x # o) => u[q][x] = t[q][x]

LEMMA TableSet ==
  ASSUME NEW t \in TableType, NEW p \in Procs, NEW o \in Objs, NEW k \in Nat,
         NEW u, u = [t EXCEPT ![p][o] = k]
  PROVE  Rekeeps(t, u, p, o, k)
<1> DEFINE row == [t[p] EXCEPT ![o] = k]
<1>1. t[p] \in [Objs -> Nat]
  BY DEF TableType
<1>2. row \in [Objs -> Nat] /\ row[o] = k /\ \A x \in Objs : x # o => row[x] = t[p][x]
  BY <1>1
<1>3. u = [t EXCEPT ![p] = row]
  BY Zenon
<1> HIDE DEF row
<1>4. u \in TableType /\ u[p] = row /\ \A q \in Procs : q # p => u[q] = t[q]
  BY <1>2, <1>3 DEF TableType
<1> QED
  BY <1>2, <1>4 DEF Rekeeps

\* One handle more.
LEMMA HandleKept ==
  ASSUME NEW t \in TableType, NEW u, NEW p \in Procs, NEW o \in Objs, Rekeeps(t, u, p, o, t[p][o] + 1)
  PROVE  /\ \A x \in Objs : x # o => HandlesIn(u, x) = HandlesIn(t, x)
         /\ \E h : HandlesIn(u, o) = HandlesIn(t, o) \cup {h} /\ h \notin HandlesIn(t, o)
<1> DEFINE k == t[p][o]
           h == <<p, k + 1>>
<1>1. u \in TableType /\ k \in Nat /\ u[p][o] = k + 1
  BY DEF TableType, Rekeeps
<1>2. \A q \in Procs : \A x \in Objs : (q # p \/ x # o) => u[q][x] = t[q][x]
  BY DEF Rekeeps
<1>3. ASSUME NEW x \in Objs, x # o
      PROVE  HandlesIn(u, x) = HandlesIn(t, x)
  BY <1>2, <1>3 DEF HandlesIn
<1> HIDE DEF k
<1>4. \A i : i \in 1..(k + 1) <=> i \in 1..k \/ i = k + 1
  BY <1>1
<1>5. h \notin HandlesIn(t, o)
  <2>1. k + 1 \notin 1..k
    BY <1>1
  <2> QED
    BY <2>1, HandlesMember DEF k
<1>6. ASSUME NEW y
      PROVE  y \in HandlesIn(u, o) <=> y \in HandlesIn(t, o) \/ y = h
  <2>1. y \in HandlesIn(u, o) <=> \E q \in Procs : \E i \in 1..u[q][o] : y = <<q, i>>
    BY <1>1, HandlesMember
  <2>2. y \in HandlesIn(t, o) <=> \E q \in Procs : \E i \in 1..t[q][o] : y = <<q, i>>
    BY HandlesMember
  <2>3. \A q \in Procs : q # p => u[q][o] = t[q][o]
    BY <1>2
  <2>4. u[p][o] = k + 1 /\ t[p][o] = k
    BY <1>1 DEF k
  <2> QED
    BY <1>4, <2>1, <2>2, <2>3, <2>4
<1> HIDE DEF h
<1>7. HandlesIn(u, o) = HandlesIn(t, o) \cup {h}
  BY <1>6
<1> QED
  BY <1>3, <1>5, <1>7
-----------------------------------------------------------------------------
(* References and table entries together.                                  *)

\* What is right about one object.
Exact(f, t, o) ==
  /\ IsFiniteSet(HandlesIn(t, o))
  /\ o \in Live(f) => f.obj[o].refcnt \in Cardinality(HandlesIn(t, o))..
                        (Cardinality(HandlesIn(t, o)) + IF f.obj[o].made THEN 1 ELSE 0)

LEMMA ExactMakesCounted ==
  ASSUME NEW f, NEW t
  PROVE  Counted(f, t) <=> \A o \in Objs : Exact(f, t, o)
BY DEF Counted, Exact

LEMMA HandlesOneMore ==
  ASSUME NEW t \in TableType, NEW u, NEW p \in Procs, NEW o \in Objs,
         Rekeeps(t, u, p, o, t[p][o] + 1), IsFiniteSet(HandlesIn(t, o))
  PROVE  /\ IsFiniteSet(HandlesIn(u, o)) /\ Cardinality(HandlesIn(t, o)) \in Nat
         /\ Cardinality(HandlesIn(u, o)) = Cardinality(HandlesIn(t, o)) + 1
<1>1. PICK h : HandlesIn(u, o) = HandlesIn(t, o) \cup {h} /\ h \notin HandlesIn(t, o)
  BY HandleKept
<1> QED
  BY <1>1, FS_AddElement, FS_CardinalityType

LEMMA HandlesOneLess ==
  ASSUME NEW t \in TableType, NEW u, NEW p \in Procs, NEW o \in Objs, t[p][o] > 0,
         Rekeeps(t, u, p, o, t[p][o] - 1), IsFiniteSet(HandlesIn(t, o))
  PROVE  /\ IsFiniteSet(HandlesIn(u, o)) /\ Cardinality(HandlesIn(u, o)) \in Nat
         /\ Cardinality(HandlesIn(t, o)) = Cardinality(HandlesIn(u, o)) + 1
         /\ \A x \in Objs : x # o => HandlesIn(u, x) = HandlesIn(t, x)
<1>1. t[p][o] \in Nat /\ u \in TableType /\ u[p][o] = t[p][o] - 1
  BY DEF TableType, Rekeeps
<1>2. t[p][o] = u[p][o] + 1
  BY <1>1
<1>3. Rekeeps(u, t, p, o, u[p][o] + 1)
  BY <1>2 DEF Rekeeps
<1> DEFINE S == HandlesIn(u, o)
           T == HandlesIn(t, o)
<1>4. \A x \in Objs : x # o => HandlesIn(t, x) = HandlesIn(u, x)
  BY <1>1, <1>3, HandleKept
<1>5. PICK h : T = S \cup {h} /\ h \notin S
  BY <1>1, <1>3, HandleKept
<1> HIDE DEF S, T
<1>6. S = T \ {h}
  BY <1>5
<1>7. IsFiniteSet(S)
  BY <1>6, FS_RemoveElement DEF T
<1>8. Cardinality(T) = Cardinality(S) + 1 /\ Cardinality(S) \in Nat
  BY <1>7, <1>5, FS_AddElement, FS_CardinalityType
<1> QED
  BY <1>4, <1>7, <1>8 DEF S, T

\* Where nothing has changed for an object it stays right.
LEMMA ExactKept ==
  ASSUME NEW f, NEW g, NEW t, NEW u, NEW o \in Objs, Exact(f, t, o), g.obj[o] = f.obj[o],
         o \in Live(g) => o \in Live(f), HandlesIn(u, o) = HandlesIn(t, o)
  PROVE  Exact(g, u, o)
BY DEF Exact

LEMMA ExactRef ==
  ASSUME NEW f \in FsType, NEW g \in FsType, NEW t \in TableType, NEW u, NEW p \in Procs,
         NEW o \in Objs, Exact(f, t, o), Rekeeps(t, u, p, o, t[p][o] + 1), o \in Live(f),
         g.obj[o].refcnt = f.obj[o].refcnt + 1, g.obj[o].made = f.obj[o].made
  PROVE  Exact(g, u, o)
<1> DEFINE c == Cardinality(HandlesIn(t, o))
           r == f.obj[o].refcnt
           k == IF f.obj[o].made THEN 1 ELSE 0
<1>1. IsFiniteSet(HandlesIn(u, o)) /\ c \in Nat /\ Cardinality(HandlesIn(u, o)) = c + 1
  BY HandlesOneMore DEF Exact
<1>2. r \in c..(c + k) /\ k \in {0, 1}
  BY DEF Exact
<1>3. g.obj[o].refcnt = r + 1 /\ k = IF g.obj[o].made THEN 1 ELSE 0
  OBVIOUS
<1> HIDE DEF c, r, k
<1>4. r + 1 \in (c + 1)..((c + 1) + k)
  BY <1>1, <1>2
<1> QED
  BY <1>1, <1>3, <1>4 DEF Exact

LEMMA ExactUnref ==
  ASSUME NEW f \in FsType, NEW g \in FsType, NEW t \in TableType, NEW u, NEW p \in Procs,
         NEW o \in Objs, Exact(f, t, o), t[p][o] > 0, Rekeeps(t, u, p, o, t[p][o] - 1), o \in Live(f),
         g.obj[o].refcnt = f.obj[o].refcnt - 1, g.obj[o].made = f.obj[o].made
  PROVE  Exact(g, u, o)
<1> DEFINE c == Cardinality(HandlesIn(u, o))
           r == f.obj[o].refcnt
           k == IF f.obj[o].made THEN 1 ELSE 0
<1>1. IsFiniteSet(HandlesIn(u, o)) /\ c \in Nat /\ Cardinality(HandlesIn(t, o)) = c + 1
  BY HandlesOneLess DEF Exact
<1>2. r \in (c + 1)..((c + 1) + k) /\ k \in {0, 1}
  BY <1>1 DEF Exact
<1>3. g.obj[o].refcnt = r - 1 /\ k = IF g.obj[o].made THEN 1 ELSE 0
  OBVIOUS
<1> HIDE DEF c, r, k
<1>4. r - 1 \in c..(c + k)
  BY <1>1, <1>2
<1> QED
  BY <1>1, <1>3, <1>4 DEF Exact, c

\* An object that is used by nobody has as many references as it was made with.
LEMMA ExactNew ==
  ASSUME NEW f, NEW t \in TableType, NEW o \in Objs, \A p \in Procs : t[p][o] = 0,
         f.obj[o].refcnt \in 0..(IF f.obj[o].made THEN 1 ELSE 0)
  PROVE  Exact(f, t, o)
<1>1. HandlesIn(t, o) = {}
  BY NobodyHas
<1>2. IsFiniteSet(HandlesIn(t, o)) /\ Cardinality(HandlesIn(t, o)) = 0
  BY <1>1, FS_EmptySet
<1>3. 0 + (IF f.obj[o].made THEN 1 ELSE 0) = IF f.obj[o].made THEN 1 ELSE 0
  OBVIOUS
<1> QED
  BY <1>2, <1>3 DEF Exact

\* Without references nobody has it.
LEMMA ExactUnused ==
  ASSUME NEW f, NEW t \in TableType, NEW o \in Objs, Exact(f, t, o), o \in Live(f),
         f.obj[o].refcnt = 0
  PROVE  \A p \in Procs : t[p][o] = 0
<1> DEFINE T == HandlesIn(t, o)
<1>1. /\ Cardinality(T) \in Nat /\ IsFiniteSet(T)
      /\ 0 \in Cardinality(T)..(Cardinality(T) + IF f.obj[o].made THEN 1 ELSE 0)
  BY FS_CardinalityType DEF Exact
<1> HIDE DEF T
<1>2. Cardinality(T) = 0
  BY <1>1
<1>3. T = {}
  BY <1>1, <1>2, FS_EmptySet
<1> QED
  BY <1>3, NobodyHas DEF T

\* What is open has a reference.
LEMMA ExactUsed ==
  ASSUME NEW f \in FsType, NEW t \in TableType, NEW o \in Objs, Exact(f, t, o), o \in Live(f),
         NEW p \in Procs, t[p][o] > 0
  PROVE  f.obj[o].refcnt > 0 /\ f.obj[o].refcnt \in Nat
<1>1. f.obj[o].refcnt \in Nat
  BY FsFields DEF ObjRec
<1>2. f.obj[o].refcnt # 0
  BY ExactUnused
<1> QED
  BY <1>1, <1>2
-----------------------------------------------------------------------------
(* The steps of the calls.                                                 *)

Good(f, t) == FsInv(f) /\ t \in TableType /\ Counted(f, t) /\ Held1(f, t)

\* What is known stays known, in the same directory and with the same name.
Follows(f, g) ==
  /\ Known(f) \subseteq Known(g)
  /\ \A x \in Known(f) : g.obj[x].dir = f.obj[x].dir /\ g.obj[x].file = f.obj[x].file

LEMMA KnownIsLive ==
  ASSUME NEW f, NEW x \in Known(f)
  PROVE  x \in Live(f) /\ x \in Objs
BY DEF Known, Live

\* Objects that are added are used by nobody.
LEMMA AddsGood ==
  ASSUME NEW f, NEW g, NEW t, NEW N, Good(f, t), FsInv(g), Adds(f, g, N),
         \A o \in N : g.obj[o].refcnt \in 0..(IF g.obj[o].made THEN 1 ELSE 0)
  PROVE  Good(g, t) /\ Follows(f, g)
<1>1. t \in TableType /\ Counted(f, t) /\ Held1(f, t)
  BY DEF Good
<1>2. \A o \in Objs : Exact(f, t, o)
  BY <1>1, ExactMakesCounted
<1>3. ASSUME NEW o \in Objs
      PROVE  Exact(g, t, o)
  <2>1. CASE o \in N
    <3>1. \A p \in Procs : ~(t[p][o] > 0)
      <4>1. o \notin Known(f)
        BY <2>1, KnownIsLive DEF Adds
      <4> QED
        BY <1>1, <4>1 DEF Held1
    <3>2. \A p \in Procs : t[p][o] = 0
      <4>1. \A p \in Procs : t[p][o] \in Nat
        BY <1>1 DEF TableType
      <4> QED
        BY <3>1, <4>1
    <3> QED
      BY <1>1, <2>1, <3>2, ExactNew
  <2>2. CASE o \notin N
    BY <1>2, <2>2, ExactKept DEF Adds
  <2> QED
    BY <2>1, <2>2
<1>4. Counted(g, t)
  BY <1>3, ExactMakesCounted
<1>5. Follows(f, g)
  <2>1. \A x \in Known(f) : x \in Objs \ N
    BY KnownIsLive DEF Adds
  <2> QED
    BY <2>1 DEF Adds, Follows
<1>6. Held1(g, t)
  BY <1>1, <1>5 DEF Held1, Follows
<1> QED
  BY <1>1, <1>4, <1>5, <1>6 DEF Good

LEMMA FoundGood ==
  ASSUME NEW f, NEW g, NEW t, NEW o, NEW dir, NEW n, Good(f, t), Finds(f, g, o, dir, n)
  PROVE  Good(g, t) /\ Follows(f, g)
<1>1. FsInv(g)
  BY DEF Finds
<1>2. CASE Adds(f, g, {})
  BY <1>1, <1>2, AddsGood
<1>3. CASE Adds(f, g, {o}) /\ g.obj[o].refcnt = 0
  <2>1. \A x \in {o} : g.obj[x].refcnt \in 0..(IF g.obj[x].made THEN 1 ELSE 0)
    BY <1>3
  <2> QED
    BY <1>1, <1>3, <2>1, AddsGood
<1> QED
  BY <1>2, <1>3 DEF Finds

\* An object's count changes together with a table entry.
LEMMA CountsGood ==
  ASSUME NEW f, NEW g, NEW t, NEW u, NEW p \in Procs, NEW o \in Known(f), NEW c, NEW k, NEW m,
         Good(f, t), Counts(f, g, o, c, m), Rekeeps(t, u, p, o, k),
         \A x \in Objs : x # o => HandlesIn(u, x) = HandlesIn(t, x), Exact(g, u, o)
  PROVE  Good(g, u) /\ Follows(f, g) /\ Live(g) = Live(f) /\ Known(g) = Known(f)
<1>1. FsInv(f) /\ t \in TableType /\ Counted(f, t) /\ Held1(f, t)
  BY DEF Good
<1>2. /\ g \in FsType /\ Alike(f, g) /\ SameRecords(f, g) /\ SameIds(f, g)
      /\ \A x \in Objs \ {o} : g.obj[x] = f.obj[x]
  BY DEF Counts
<1>3. FsInv(g)
  BY <1>1, <1>2, CountsOnly
<1>4. Known(g) = Known(f) /\ Live(g) = Live(f)
  BY <1>2, AlikeKnown
<1>5. ASSUME NEW x \in Objs
      PROVE  Exact(g, u, x)
  <2>1. CASE x # o
    <3>1. Exact(f, t, x)
      BY <1>1, ExactMakesCounted
    <3> QED
      BY <1>2, <1>4, <2>1, <3>1, ExactKept
  <2> QED
    BY <2>1
<1>6. Counted(g, u)
  BY <1>5, ExactMakesCounted
<1>7. u \in TableType /\ Held1(g, u)
  BY <1>1, <1>4 DEF Rekeeps, Held1
<1>8. Follows(f, g)
  BY <1>2, <1>4, KnownIsLive DEF Follows, Alike
<1> QED
  BY <1>3, <1>4, <1>6, <1>7, <1>8 DEF Good

LEMMA RefGood ==
  ASSUME NEW f, NEW t, NEW u, NEW p \in Procs, NEW o \in Known(f), Good(f, t),
         Rekeeps(t, u, p, o, t[p][o] + 1)
  PROVE  Good(Ref(f, o), u) /\ Follows(f, Ref(f, o)) /\ Known(Ref(f, o)) = Known(f)
<1> DEFINE g == Ref(f, o)
<1>1. f \in FsType /\ t \in TableType /\ Counted(f, t) /\ o \in Objs /\ o \in Live(f)
  BY KnownIsLive DEF Good, FsInv
<1>2. Counts(f, g, o, f.obj[o].refcnt + 1, f.obj[o].made)
  BY <1>1, RefCounts
<1> HIDE DEF g
<1>3. g \in FsType /\ g.obj[o].refcnt = f.obj[o].refcnt + 1 /\ g.obj[o].made = f.obj[o].made
  BY <1>2 DEF Counts
<1>4. Exact(f, t, o)
  BY <1>1, ExactMakesCounted
<1>5. Exact(g, u, o)
  BY <1>1, <1>3, <1>4, ExactRef
<1>6. \A x \in Objs : x # o => HandlesIn(u, x) = HandlesIn(t, x)
  BY <1>1, HandleKept
<1> QED
  BY <1>2, <1>5, <1>6, CountsGood DEF g

Unused(t, o) == \A q \in Procs : t[q][o] = 0

LEMMA UnrefGood ==
  ASSUME NEW f, NEW t, NEW u, NEW p \in Procs, NEW o \in Objs, Good(f, t), t[p][o] > 0,
         Rekeeps(t, u, p, o, t[p][o] - 1)
  PROVE  /\ Good(Unref(f, o), u) /\ Follows(f, Unref(f, o)) /\ Known(Unref(f, o)) = Known(f)
         /\ o \in Known(f)
         /\ f.obj[o].refcnt = 1 => Unused(u, o)
<1> DEFINE g == Unref(f, o)
<1>1. f \in FsType /\ t \in TableType /\ Counted(f, t) /\ Held1(f, t)
  BY DEF Good, FsInv
<1>2. o \in Known(f)
  BY <1>1 DEF Held1
<1>3. o \in Live(f)
  BY <1>2, KnownIsLive
<1>4. Exact(f, t, o)
  BY <1>1, ExactMakesCounted
<1>5. f.obj[o].refcnt > 0
  BY <1>1, <1>3, <1>4, ExactUsed
<1>6. Counts(f, g, o, f.obj[o].refcnt - 1, f.obj[o].made)
  BY <1>1, <1>5, UnrefCounts
<1> HIDE DEF g
<1>7. g \in FsType /\ g.obj[o].refcnt = f.obj[o].refcnt - 1 /\ g.obj[o].made = f.obj[o].made
  BY <1>6 DEF Counts
<1>8. Exact(g, u, o)
  BY <1>1, <1>3, <1>4, <1>7, ExactUnref
<1>9. \A x \in Objs : x # o => HandlesIn(u, x) = HandlesIn(t, x)
  BY <1>1, <1>4, HandlesOneLess DEF Exact
<1>10. Good(g, u) /\ Follows(f, g) /\ Known(g) = Known(f) /\ Live(g) = Live(f)
  BY <1>2, <1>6, <1>8, <1>9, CountsGood, SMTT(60)
<1>11. ASSUME f.obj[o].refcnt = 1
       PROVE  Unused(u, o)
  <2>1. g.obj[o].refcnt = 0 /\ o \in Live(g) /\ u \in TableType
    BY <1>3, <1>7, <1>10, <1>11 DEF Rekeeps
  <2> QED
    BY <1>8, <2>1, ExactUnused DEF Unused
<1> QED
  BY <1>2, <1>10, <1>11 DEF g

\* A new file, with a table entry for its creator or without.
LEMMA CreatedGood ==
  ASSUME NEW f, NEW h, NEW t, NEW u, NEW p \in Procs, NEW o \in Objs, NEW dir, NEW n, Good(f, t),
         Creates(f, h, o, dir, n), u = t \/ Rekeeps(t, u, p, o, t[p][o] + 1)
  PROVE  Good(h, u) /\ Follows(f, h) /\ o \in Objs \ Known(f)
<1>1. FsInv(h) /\ Adds(f, h, {o}) /\ o \in Objs /\ h.obj[o].refcnt = 1 /\ h.obj[o].made = TRUE
  BY DEF Creates
<1>2. Good(h, t) /\ Follows(f, h)
  <2>1. \A x \in {o} : h.obj[x].refcnt \in 0..(IF h.obj[x].made THEN 1 ELSE 0)
    BY <1>1
  <2> QED
    BY <1>1, <2>1, AddsGood
<1>3. o \notin Known(f) /\ o \in Known(h) /\ o \in Live(h)
  BY <1>1, KnownIsLive DEF Adds
<1>4. t \in TableType /\ Counted(h, t) /\ Held1(h, t) /\ Held1(f, t)
  BY <1>2 DEF Good
<1>5. ASSUME Rekeeps(t, u, p, o, t[p][o] + 1)
      PROVE  Good(h, u)
  <2>1. \A q \in Procs : t[q][o] = 0
    <3>1. \A q \in Procs : t[q][o] \in Nat
      BY <1>1, <1>4 DEF TableType
    <3>2. \A q \in Procs : ~(t[q][o] > 0)
      BY <1>1, <1>3, <1>4 DEF Held1
    <3> QED
      BY <3>1, <3>2
  <2>2. HandlesIn(t, o) = {}
    BY <1>1, <1>4, <2>1, NobodyHas
  <2>3. IsFiniteSet(HandlesIn(t, o)) /\ Cardinality(HandlesIn(t, o)) = 0
    BY <2>2, FS_EmptySet
  <2>4. IsFiniteSet(HandlesIn(u, o)) /\ Cardinality(HandlesIn(u, o)) = 1
    BY <1>1, <1>4, <1>5, <2>3, HandlesOneMore
  <2>5. Exact(h, u, o)
    BY <1>1, <2>4 DEF Exact
  <2>6. \A x \in Objs : x # o => HandlesIn(u, x) = HandlesIn(t, x)
    <3> SUFFICES ASSUME NEW x \in Objs, x # o PROVE HandlesIn(u, x) = HandlesIn(t, x)
      OBVIOUS
    <3>1. \A q \in Procs : u[q][x] = t[q][x]
      BY <1>5 DEF Rekeeps
    <3> QED
      BY <3>1 DEF HandlesIn
  <2>7. \A x \in Objs : Exact(h, u, x)
    <3> SUFFICES ASSUME NEW x \in Objs, x # o PROVE Exact(h, u, x)
      BY <2>5
    <3>1. Exact(h, t, x)
      BY <1>4, ExactMakesCounted
    <3> QED
      BY <2>6, <3>1, ExactKept
  <2>8. u \in TableType /\ Held1(h, u)
    BY <1>3, <1>4, <1>5 DEF Rekeeps, Held1
  <2> QED
    BY <1>1, <2>7, <2>8, ExactMakesCounted DEF Good
<1> QED
  BY <1>1, <1>2, <1>3, <1>5
\* Control of the processes.
Control(at, wh, h) ==
  /\ at \in [Procs -> {"user", "check", "busy", "remove", "exit"}]
  /\ wh \in [Procs -> Objs \cup {NULL}] /\ h \in BOOLEAN

LEMMA InvIs ==
  ObjFsInv => /\ Good(fs, table) /\ Control(pc, what, halted) /\ Removals(fs, table, pc, what)
              /\ fs \in FsType /\ table \in TableType
BY DEF ObjFsInv, TypeOK, Good, FsInv, TableType, Control

LEMMA InvAfter ==
  ASSUME Good(fs', table'), Control(pc', what', halted'), Removals(fs', table', pc', what')
  PROVE  ObjFsInv'
BY DEF ObjFsInv, TypeOK, Good, FsInv, FsType, ObjRec, HostRec, TableType, Control

LEMMA RemovalsFollow ==
  ASSUME NEW f, NEW g, NEW t, NEW at, NEW wh, Removals(f, t, at, wh), Follows(f, g)
  PROVE  Removals(g, t, at, wh)
BY DEF Removals, Follows

\* A process that removes nothing opens or closes a file that nobody removes.
LEMMA RemovalsRekeep ==
  ASSUME NEW f, NEW t, NEW u, NEW at, NEW wh, Removals(f, t, at, wh), NEW p \in Procs, NEW o, NEW k,
         Rekeeps(t, u, p, o, k), at[p] # "check",
         \A q \in Procs : at[q] = "remove" => wh[q] # o
  PROVE  Removals(f, u, at, wh)
<1>1. /\ \A q \in Procs : at[q] \in {"check", "remove"} =>
           wh[q] \in Known(f) /\ f.obj[wh[q]].dir = "memfs"
      /\ \A q \in Procs : at[q] = "check" => t[q][wh[q]] > 0
      /\ \A q, r \in Procs : at[q] = "remove" => t[r][wh[q]] = 0
      /\ \A q, r \in Procs : at[q] \in {"busy", "remove"} /\ at[r] \in {"busy", "remove"} => q = r
  BY DEF Removals
<1>2. \A q \in Procs : at[q] \in {"check", "remove"} => wh[q] \in Objs
  BY <1>1, KnownIsLive
<1>3. \A q \in Procs : \A x \in Objs : (q # p \/ x # o) => u[q][x] = t[q][x]
  BY DEF Rekeeps
<1>4. \A q \in Procs : at[q] = "check" => u[q][wh[q]] > 0
  BY <1>1, <1>2, <1>3
<1>5. \A q, r \in Procs : at[q] = "remove" => u[r][wh[q]] = 0
  BY <1>1, <1>2, <1>3
<1> QED
  BY <1>1, <1>4, <1>5 DEF Removals

LEMMA ControlStep ==
  ASSUME NEW at, NEW wh, NEW h, Control(at, wh, h), NEW p \in Procs,
         NEW a \in {"user", "check", "busy", "remove", "exit"}, NEW o \in Objs \cup {NULL},
         NEW at2, at2 = at \/ at2 = [at EXCEPT ![p] = a],
         NEW wh2, wh2 = wh \/ wh2 = [wh EXCEPT ![p] = o]
  PROVE  Control(at2, wh2, h)
BY DEF Control

\* Entries of the table are counted up and down.
LEMMA KeepRekeeps ==
  ASSUME table \in TableType, NEW p \in Procs, NEW o \in Objs
  PROVE  Rekeeps(table, Keep(p, o), p, o, table[p][o] + 1)
<1>1. table[p][o] + 1 \in Nat
  BY DEF TableType
<1>2. Keep(p, o) = [table EXCEPT ![p][o] = table[p][o] + 1]
  BY Zenon DEF Keep
<1> QED
  BY <1>1, <1>2, TableSet

LEMMA DropRekeeps ==
  ASSUME table \in TableType, NEW p \in Procs, NEW o \in Objs, table[p][o] > 0
  PROVE  Rekeeps(table, [table EXCEPT ![p][o] = @ - 1], p, o, table[p][o] - 1)
<1>1. table[p][o] - 1 \in Nat
  BY DEF TableType
<1>2. [table EXCEPT ![p][o] = @ - 1] = [table EXCEPT ![p][o] = table[p][o] - 1]
  BY Zenon
<1> QED
  BY <1>1, <1>2, TableSet

\* A file is opened, or removed if it is of memfs.
LEMMA OpenStep ==
  ASSUME ObjFsInv, Behaviours = {}, NEW p \in Procs, NEW dir \in Dirs, NEW n \in Names, NEW then,
         then = "user" \/ (then = "check" /\ dir = "memfs"), OpenFile(p, dir, n, then)
  PROVE  ObjFsInv'
<1> DEFINE r == Lookup(fs, dir, n)
           g == r.fs
           o == r.obj
<1>1. /\ Good(fs, table) /\ Control(pc, what, halted) /\ Removals(fs, table, pc, what)
      /\ fs \in FsType /\ table \in TableType
  BY InvIs
<1>2. /\ pc[p] = "user" /\ ~LookupCrashes(fs, dir, n) /\ halted' = halted
      /\ o # NULL => ~Removing(o)
      /\ \/ fs' = g /\ table' = table /\ pc' = pc /\ what' = what
         \/ /\ o # NULL /\ fs' = Ref(g, o) /\ table' = Keep(p, o) /\ pc' = [pc EXCEPT ![p] = then]
            /\ what' = [what EXCEPT ![p] = IF then = "user" THEN @ ELSE o]
  BY DEF OpenFile, AtUser
<1>3. Finds(fs, g, o, dir, n)
  BY <1>1, <1>2, LookupFinds DEF Good
<1> HIDE DEF r, g, o
<1>4. Good(g, table) /\ Follows(fs, g)
  BY <1>1, <1>3, FoundGood
<1>5. Removals(g, table, pc, what)
  BY <1>1, <1>4, RemovalsFollow
<1>6. CASE fs' = g /\ table' = table /\ pc' = pc /\ what' = what
  BY <1>1, <1>2, <1>4, <1>5, <1>6, InvAfter
<1>7. CASE /\ o # NULL /\ fs' = Ref(g, o) /\ table' = Keep(p, o) /\ pc' = [pc EXCEPT ![p] = then]
           /\ what' = [what EXCEPT ![p] = IF then = "user" THEN @ ELSE o]
  <2>1. o \in Known(g) /\ o \in Objs /\ g.obj[o].dir = dir
    BY <1>3, <1>7, KnownIsLive DEF Finds
  <2>2. Rekeeps(table, table', p, o, table[p][o] + 1)
    BY <1>1, <1>7, <2>1, KeepRekeeps
  <2>3. Good(fs', table') /\ Follows(g, fs') /\ Known(fs') = Known(g)
    BY <1>4, <1>7, <2>1, <2>2, RefGood
  <2>4. \A q \in Procs : pc[q] = "remove" => what[q] # o
    BY <1>2, <1>7 DEF Removing
  <2>5. Removals(g, table', pc, what)
    BY <1>2, <1>5, <2>2, <2>4, RemovalsRekeep
  <2>6. Removals(fs', table', pc, what)
    BY <2>3, <2>5, RemovalsFollow
  <2>7. CASE then = "user"
    <3>1. pc' = pc /\ what' = what
      BY <1>1, <1>2, <1>7, <2>7 DEF Control
    <3> QED
      BY <1>1, <1>2, <2>3, <2>6, <3>1, InvAfter
  <2>8. CASE then = "check"
    <3>1. /\ pc' = [pc EXCEPT ![p] = "check"] /\ what' = [what EXCEPT ![p] = o]
          /\ dir = "memfs" /\ halted' = halted
      BY <1>2, <1>7, <2>8
    <3>2. /\ pc \in [Procs -> {"user", "check", "busy", "remove", "exit"}]
          /\ what \in [Procs -> Objs \cup {NULL}]
      BY <1>1 DEF Control
    <3>3. /\ pc'[p] = "check" /\ what'[p] = o
          /\ \A q \in Procs : q # p => pc'[q] = pc[q] /\ what'[q] = what[q]
      BY <3>1, <3>2
    <3>4. Control(pc', what', halted')
      BY <1>1, <2>1, <3>1, ControlStep
    <3>5. fs'.obj[o].dir = "memfs" /\ o \in Known(fs')
      BY <2>1, <2>3, <3>1 DEF Follows
    <3>6. table'[p][o] > 0
      <4>1. table[p][o] \in Nat /\ table'[p][o] = table[p][o] + 1
        BY <1>1, <2>1, <2>2 DEF TableType, Rekeeps
      <4> QED
        BY <4>1
    <3>7. Removals(fs', table', pc', what')
      BY <2>6, <3>3, <3>5, <3>6 DEF Removals
    <3> QED
      BY <2>3, <3>4, <3>7, InvAfter
  <2> QED
    BY <2>7, <2>8
<1> QED
  BY <1>2, <1>6, <1>7
LEMMA CreateStep ==
  ASSUME ObjFsInv, NEW p \in Procs, NEW dir \in Dirs, NEW n \in Names, Create(p, dir, n)
  PROVE  ObjFsInv'
<1> DEFINE r == Lookup(fs, dir, n)
           g == r.fs
           a == SubAlloc(g, dir, NULL, n)
           o == a.obj
           made == [a.fs EXCEPT !.obj[o].made = TRUE]
           new  == IF dir = "memfs" THEN made ELSE WrapfsCreate(made, o, n)
<1>1. /\ Good(fs, table) /\ Control(pc, what, halted) /\ Removals(fs, table, pc, what)
      /\ fs \in FsType /\ table \in TableType
  BY InvIs
<1>2. /\ pc[p] = "user" /\ ~LookupCrashes(fs, dir, n) /\ ~CreateCrashes(fs, dir, n)
      /\ dir = "local" => Collect(fs).numrecs < NumRecs
      /\ pc' = pc /\ what' = what /\ halted' = halted
      /\ \/ fs' = g /\ table' = table
         \/ /\ r.obj = NULL /\ o # NULL /\ fs' = Ref(new, o)
            /\ table' = table \/ table' = Keep(p, o)
  BY DEF Create, AtUser
<1>3. CASE fs' = g /\ table' = table
  <2>1. Finds(fs, g, r.obj, dir, n)
    BY <1>1, <1>2, LookupFinds DEF Good
  <2>2. Good(g, table) /\ Follows(fs, g)
    BY <1>1, <2>1, FoundGood
  <2>3. Removals(g, table, pc, what)
    BY <1>1, <2>2, RemovalsFollow
  <2> QED
    BY <1>1, <1>2, <1>3, <2>2, <2>3, InvAfter
<1>4. CASE /\ r.obj = NULL /\ o # NULL /\ fs' = Ref(new, o)
           /\ table' = table \/ table' = Keep(p, o)
  <2>1. Creates(fs, Ref(new, o), o, dir, n)
    <3>1. FsInv(fs)
      BY <1>1 DEF Good
    <3> HIDE DEF r, a
    <3>2. r = Lookup(fs, dir, n) /\ a = SubAlloc(r.fs, dir, NULL, n)
      BY DEF r, a
    <3>3. r.obj = NULL /\ a.obj # NULL
      BY <1>4
    <3> QED
      BY <1>2, <3>1, <3>2, <3>3, CreateSafe, SMTT(60)
  <2> HIDE DEF r, g, a, o, made, new
  <2>2. o \in Objs /\ Creates(fs, fs', o, dir, n)
    BY <1>4, <2>1 DEF Creates
  <2>3. table' = table \/ Rekeeps(table, table', p, o, table[p][o] + 1)
    BY <1>1, <1>4, <2>2, KeepRekeeps
  <2>4. Good(fs', table') /\ Follows(fs, fs') /\ o \in Objs \ Known(fs)
    BY <1>1, <2>2, <2>3, CreatedGood
  <2>5. \A q \in Procs : pc[q] = "remove" => what[q] # o
    BY <1>1, <2>4 DEF Removals
  <2>6. Removals(fs, table', pc, what)
    BY <1>1, <1>2, <2>3, <2>5, RemovalsRekeep
  <2>7. Removals(fs', table', pc, what)
    BY <2>4, <2>6, RemovalsFollow
  <2> QED
    BY <1>1, <1>2, <2>4, <2>7, InvAfter
<1> QED
  BY <1>2, <1>3, <1>4

\* A handle is given back by a program or by the exit of a process.
LEMMA CloseSafe ==
  ASSUME ObjFsInv, NEW p \in Procs, NEW o \in Held(p), CloseHandle(p, o), pc[p] # "check"
  PROVE  Good(fs', table') /\ Removals(fs', table', pc, what)
<1>1. /\ Good(fs, table) /\ Control(pc, what, halted) /\ Removals(fs, table, pc, what)
      /\ fs \in FsType /\ table \in TableType
  BY InvIs
<1>2. o \in Objs /\ table[p][o] > 0 /\ fs' = Unref(fs, o) /\ table' = [table EXCEPT ![p][o] = @ - 1]
  BY DEF Held, CloseHandle
<1>3. Rekeeps(table, table', p, o, table[p][o] - 1)
  BY <1>1, <1>2, DropRekeeps
<1>4. Good(fs', table') /\ Follows(fs, fs')
  BY <1>1, <1>2, <1>3, UnrefGood
<1>5. \A q \in Procs : pc[q] = "remove" => what[q] # o
  BY <1>1, <1>2 DEF Removals
<1>6. Removals(fs, table', pc, what)
  BY <1>1, <1>3, <1>5, RemovalsRekeep
<1> QED
  BY <1>4, <1>6, RemovalsFollow

LEMMA CloseStep ==
  ASSUME ObjFsInv, NEW p \in Procs, Close(p)
  PROVE  ObjFsInv'
<1>1. Control(pc, what, halted)
  BY InvIs
<1>2. pc[p] = "user" /\ pc' = pc /\ what' = what /\ halted' = halted
  BY DEF Close, AtUser
<1>3. PICK o \in Held(p) : CloseHandle(p, o)
  BY DEF Close
<1>4. Good(fs', table') /\ Removals(fs', table', pc, what)
  BY <1>2, <1>3, CloseSafe
<1> QED
  BY <1>1, <1>2, <1>4, InvAfter

\* Only where a process is changes, and it removes nothing before or after.
LEMMA ExitSafe ==
  ASSUME NEW f, NEW t, NEW at, NEW wh, NEW h, Removals(f, t, at, wh), Control(at, wh, h),
         NEW p \in Procs, NEW a \in {"user", "exit"}
  PROVE  Removals(f, t, [at EXCEPT ![p] = a], wh) /\ Control([at EXCEPT ![p] = a], wh, h)
<1> DEFINE b == [at EXCEPT ![p] = a]
<1>1. /\ b \in [Procs -> {"user", "check", "busy", "remove", "exit"}]
      /\ \A q \in Procs : b[q] = IF q = p THEN a ELSE at[q]
  BY DEF Control
<1> HIDE DEF b
<1>2. \A q \in Procs : b[q] \in {"check", "busy", "remove"} => q # p /\ b[q] = at[q]
  BY <1>1
<1>3. Removals(f, t, b, wh)
  BY <1>2 DEF Removals
<1> QED
  BY <1>1, <1>3 DEF b, Control

LEMMA ExitStepSafe ==
  ASSUME ObjFsInv, NEW p \in Procs, Exit(p) \/ ExitStep(p)
  PROVE  ObjFsInv'
<1>1. Good(fs, table) /\ Control(pc, what, halted) /\ Removals(fs, table, pc, what)
  BY InvIs
<1>2. CASE Exit(p)
  <2>1. /\ pc' = [pc EXCEPT ![p] = "exit"] /\ fs' = fs /\ table' = table /\ what' = what
        /\ halted' = halted
    BY <1>2 DEF Exit
  <2> QED
    BY <1>1, <2>1, ExitSafe, InvAfter
<1>3. CASE ExitStep(p)
  <2>1. pc[p] = "exit" /\ what' = what /\ halted' = halted
    BY <1>3 DEF ExitStep
  <2>2. CASE pc' = [pc EXCEPT ![p] = "user"] /\ fs' = fs /\ table' = table
    BY <1>1, <2>1, <2>2, ExitSafe, InvAfter
  <2>3. CASE (\E o \in Held(p) : CloseHandle(p, o)) /\ pc' = pc
    <3>1. PICK o \in Held(p) : CloseHandle(p, o)
      BY <2>3
    <3>2. Good(fs', table') /\ Removals(fs', table', pc, what)
      BY <2>1, <3>1, CloseSafe
    <3> QED
      BY <1>1, <2>1, <2>3, <3>2, InvAfter
  <2> QED
    BY <1>3, <2>2, <2>3 DEF ExitStep
<1> QED
  BY <1>2, <1>3

LEMMA CrashStep ==
  ASSUME ObjFsInv, NEW p \in Procs, NEW dir, NEW n, Crash(p, dir, n)
  PROVE  ObjFsInv'
<1>1. Good(fs, table) /\ Control(pc, what, halted) /\ Removals(fs, table, pc, what)
  BY InvIs
<1>2. fs' = fs /\ table' = table /\ pc' = pc /\ what' = what /\ halted' = TRUE
  BY DEF Crash
<1>3. Control(pc', what', halted')
  BY <1>1, <1>2 DEF Control
<1> QED
  BY <1>1, <1>2, <1>3, InvAfter
\* A file of memfs that nobody has open disappears; its object stays in use, unnamed.
LEMMA UnlinkSafe ==
  ASSUME NEW f, NEW t, Good(f, t), NEW o \in Known(f), f.obj[o].dir = "memfs",
         \A q \in Procs : t[q][o] = 0
  PROVE  /\ Good(ObjUnlink(f, o), t) /\ Known(ObjUnlink(f, o)) = Known(f) \ {o}
         /\ ObjUnlink(f, o).obj = f.obj
<1> DEFINE d == f.obj[o].dirent
           g == DequeuePush(DequeueRemove(f, "memfs", d), "unused", d)
<1>1. /\ FsInv(f) /\ f \in FsType /\ Shared(f) /\ Named(f) /\ Records(f) /\ Hosted(f)
      /\ t \in TableType /\ Counted(f, t) /\ Held1(f, t)
  BY DEF Good, FsInv
<1>2. d \in In(f, "memfs") /\ f.of[d] = o /\ o \in Live(f) /\ o \in Objs
  BY KnownIsLive DEF Known
<1>3. Moves(f, g, "memfs", "unused", d) /\ SameRest(f, g)
  BY <1>1, <1>2, GiveEntry DEF Dirs
<1> HIDE DEF g, d
<1>4. /\ g.name = f.name /\ g.of = f.of /\ g.obj = f.obj /\ g.free = f.free
      /\ SameRecords(f, g)
  BY <1>3 DEF SameRest, SameRecords
<1>5. ObjUnlink(f, o) = g
  <2>1. HostUnlink(f, o) = f
    BY DEF HostUnlink
  <2>2. DirentFree(f, o) = g
    BY DEF DirentFree, g, d
  <2>3. ObjFree(g, o) = g
    BY <1>4 DEF ObjFree, Persistent
  <2> QED
    BY <2>1, <2>2, <2>3 DEF ObjUnlink
<1>6. /\ g \in FsType /\ Shared(g) /\ In(g, "memfs") = In(f, "memfs") \ {d}
      /\ In(g, "local") = In(f, "local")
  BY <1>3 DEF Moves, Lists, Dirs
<1>7. Live(g) = Live(f) /\ Local(g) = Local(f)
  BY <1>4 DEF Live, Local
<1>8. \A x \in Objs : f.obj[x].dir = "memfs" \/ f.obj[x].dir = "local"
  <2>1. \A x \in Objs : f.obj[x] \in ObjRec
    BY <1>1, FsFields
  <2> QED
    BY <2>1 DEF ObjRec, Dirs
<1>9. Known(g) = Known(f) \ {o}
  <2>1. ASSUME NEW x \in Known(g)
        PROVE  x \in Known(f) /\ x # o
    <3>1. /\ x \in Live(f) /\ x \in Objs /\ f.obj[x].dirent \in In(g, f.obj[x].dir)
          /\ f.of[f.obj[x].dirent] = x
      BY <1>4, <1>7, <2>1, KnownIsLive DEF Known
    <3>2. f.obj[x].dirent \in In(f, f.obj[x].dir)
      BY <1>6, <1>8, <3>1
    <3>3. x # o
      BY <1>6, <3>1 DEF d
    <3> QED
      BY <3>1, <3>2, <3>3 DEF Known
  <2>2. ASSUME NEW x \in Known(f), x # o
        PROVE  x \in Known(g)
    <3>1. /\ x \in Live(f) /\ x \in Objs /\ f.obj[x].dirent \in In(f, f.obj[x].dir)
          /\ f.of[f.obj[x].dirent] = x
      BY <2>2, KnownIsLive DEF Known
    <3>2. f.obj[x].dirent # d
      BY <1>2, <2>2, <3>1
    <3>3. f.obj[x].dirent \in In(g, f.obj[x].dir)
      BY <1>6, <1>8, <3>1, <3>2
    <3> QED
      BY <1>4, <1>7, <3>1, <3>3 DEF Known
  <2> QED
    BY <2>1, <2>2
<1>10. Named(g)
  <2>1. \A dir \in Dirs : In(g, dir) \subseteq In(f, dir)
    BY <1>6 DEF Dirs
  <2> QED
    BY <1>1, <1>4, <1>7, <2>1 DEF Named
<1>11. Records(g)
  BY <1>1, <1>4, <1>7, RecordsKept DEF Records, Untouched
<1>12. Hosted(g)
  <2>1. o \notin Local(f)
    BY DEF Local
  <2> QED
    BY <1>1, <1>4, <1>7, <1>9, <2>1 DEF Hosted, SameRecords
<1>13. Counted(g, t)
  BY <1>1, <1>4, <1>7 DEF Counted
<1>14. Held1(g, t)
  BY <1>1, <1>2, <1>9 DEF Held1
<1> QED
  BY <1>1, <1>4, <1>5, <1>6, <1>9, <1>10, <1>11, <1>12, <1>13, <1>14 DEF Good, FsInv

LEMMA UnlinkCheckStep ==
  ASSUME ObjFsInv, NEW p \in Procs, UnlinkCheck(p)
  PROVE  ObjFsInv'
<1> DEFINE o == what[p]
           a == IF fs.obj[o].refcnt = 1 THEN "remove" ELSE "busy"
<1>1. /\ Good(fs, table) /\ Control(pc, what, halted) /\ Removals(fs, table, pc, what)
      /\ fs \in FsType /\ table \in TableType
  BY InvIs
<1>2. pc[p] = "check" /\ what' = what
  BY DEF UnlinkCheck
<1>3. CASE halted' = TRUE /\ fs' = fs /\ table' = table /\ pc' = pc
  <2>1. Control(pc', what', halted')
    BY <1>1, <1>2, <1>3 DEF Control
  <2> QED
    BY <1>1, <1>2, <1>3, <2>1, InvAfter
<1>4. CASE ~Locked /\ CloseHandle(p, o) /\ pc' = [pc EXCEPT ![p] = a] /\ halted' = halted
  <2>1. /\ fs' = Unref(fs, o) /\ table' = [table EXCEPT ![p][o] = @ - 1]
        /\ \A q \in Procs : pc[q] \notin {"busy", "remove"}
    BY <1>4 DEF CloseHandle, Locked
  <2>2. o \in Known(fs) /\ o \in Objs /\ fs.obj[o].dir = "memfs" /\ table[p][o] > 0
    BY <1>1, <1>2, KnownIsLive DEF Removals
  <2>3. Rekeeps(table, table', p, o, table[p][o] - 1)
    BY <1>1, <2>1, <2>2, DropRekeeps
  <2>4. /\ Good(fs', table') /\ Follows(fs, fs')
        /\ fs.obj[o].refcnt = 1 => \A q \in Procs : table'[q][o] = 0
    <3>1. Good(fs', table') /\ Follows(fs, fs') /\ (fs.obj[o].refcnt = 1 => Unused(table', o))
      BY <1>1, <2>1, <2>2, <2>3, UnrefGood
    <3> QED
      BY <3>1 DEF Unused
  <2>5. Control(pc', what', halted')
    BY <1>1, <1>2, <1>4, <2>2, ControlStep
  <2>6. /\ pc'[p] = a /\ \A q \in Procs : q # p => pc'[q] = pc[q]
        /\ a = "remove" => fs.obj[o].refcnt = 1
    BY <1>1, <1>4 DEF Control
  <2>7. a \in {"remove", "busy"}
    OBVIOUS
  <2> HIDE DEF a
  <2>8. \A q, r \in Procs : q # p => table'[q][what[r]] = table[q][what[r]] \/ what[r] \notin Objs
    BY <2>3 DEF Rekeeps
  <2>9. Removals(fs', table', pc', what')
    <3>1. \A q \in Procs : pc'[q] \in {"check", "remove"} =>
            what[q] \in Known(fs') /\ fs'.obj[what[q]].dir = "memfs"
      <4>1. \A q \in Procs : pc'[q] \in {"check", "remove"} =>
              what[q] \in Known(fs) /\ fs.obj[what[q]].dir = "memfs"
        BY <1>1, <2>2, <2>6 DEF Removals
      <4> QED
        BY <2>4, <4>1 DEF Follows
    <3>2. \A q \in Procs : pc'[q] = "check" => table'[q][what[q]] > 0
      <4>1. \A q \in Procs : pc'[q] = "check" => q # p /\ pc[q] = "check"
        BY <2>6, <2>7
      <4>2. \A q \in Procs : pc[q] = "check" => what[q] \in Objs /\ table[q][what[q]] > 0
        BY <1>1, KnownIsLive DEF Removals
      <4> QED
        BY <2>8, <4>1, <4>2
    <3>3. \A q, r \in Procs : pc'[q] = "remove" => table'[r][what[q]] = 0
      BY <2>1, <2>4, <2>6
    <3>4. \A q, r \in Procs : pc'[q] \in {"busy", "remove"} /\ pc'[r] \in {"busy", "remove"} => q = r
      BY <2>1, <2>6
    <3> QED
      BY <1>2, <3>1, <3>2, <3>3, <3>4 DEF Removals
  <2> QED
    BY <2>4, <2>5, <2>9, InvAfter
<1> QED
  BY <1>3, <1>4 DEF UnlinkCheck

LEMMA UnlinkEndStep ==
  ASSUME ObjFsInv, NEW p \in Procs, UnlinkEnd(p)
  PROVE  ObjFsInv'
<1> DEFINE o == what[p]
<1>1. /\ Good(fs, table) /\ Control(pc, what, halted) /\ Removals(fs, table, pc, what)
  BY InvIs
<1>2. /\ pc[p] \in {"remove", "busy"} /\ fs' = IF pc[p] = "remove" THEN ObjUnlink(fs, o) ELSE fs
      /\ pc' = [pc EXCEPT ![p] = "user"] /\ what' = [what EXCEPT ![p] = NULL]
      /\ table' = table /\ halted' = halted
  BY DEF UnlinkEnd
<1>3. Control(pc', what', halted')
  BY <1>1, <1>2, ControlStep
<1>4. /\ pc'[p] = "user" /\ \A q \in Procs : q # p => pc'[q] = pc[q] /\ what'[q] = what[q]
  BY <1>1, <1>2 DEF Control
<1>5. \A q \in Procs : pc'[q] \in {"check", "busy", "remove"} =>
        q # p /\ pc'[q] = pc[q] /\ what'[q] = what[q]
  BY <1>4
<1>6. CASE pc[p] = "busy"
  <2>1. fs' = fs
    BY <1>2, <1>6
  <2>2. Removals(fs, table, pc', what')
    BY <1>1, <1>5 DEF Removals
  <2> QED
    BY <1>1, <1>2, <1>3, <2>1, <2>2, InvAfter
<1>7. CASE pc[p] = "remove"
  <2>1. /\ o \in Known(fs) /\ fs.obj[o].dir = "memfs" /\ \A q \in Procs : table[q][o] = 0
    BY <1>1, <1>7 DEF Removals
  <2>2. Good(fs', table) /\ Known(fs') = Known(fs) \ {o} /\ fs'.obj = fs.obj
    BY <1>1, <1>2, <1>7, <2>1, UnlinkSafe
  <2>3. \A q \in Procs : pc'[q] \in {"busy", "remove"} => FALSE
    BY <1>1, <1>2, <1>5 DEF Removals
  <2>4. ASSUME NEW q \in Procs, pc'[q] = "check"
        PROVE  what'[q] \in Known(fs') /\ fs'.obj[what'[q]].dir = "memfs" /\ table[q][what'[q]] > 0
    <3>1. pc[q] = "check" /\ what'[q] = what[q]
      BY <1>5, <2>4
    <3>2. what[q] \in Known(fs) /\ fs.obj[what[q]].dir = "memfs" /\ table[q][what[q]] > 0
      BY <1>1, <3>1 DEF Removals
    <3>3. what[q] # o
      BY <2>1, <3>2
    <3> QED
      BY <2>2, <3>1, <3>2, <3>3
  <2>5. Removals(fs', table, pc', what')
    BY <2>3, <2>4 DEF Removals
  <2> QED
    BY <1>2, <1>3, <2>2, <2>5, InvAfter
<1> QED
  BY <1>2, <1>6, <1>7
-----------------------------------------------------------------------------
(* The beginning.                                                          *)

LEMMA HostFiles ==
  ASSUME NEW files \in SUBSET Names, NEW s \in SetToSeqs(files)
  PROVE  s \in Seq(Names) /\ Len(s) <= NumRecs /\ \A i, j \in 1..Len(s) : s[i] = s[j] => i = j
<1> DEFINE k == Cardinality(files)
<1>1. IsFiniteSet(files) /\ k <= Cardinality(Names) /\ k \in Nat /\ Cardinality(Names) \in Nat
  BY FS_Subset, FS_CardinalityType, ObjFsAssumption
<1>2. k <= NumRecs
  BY <1>1, ObjFsAssumption, NumbersAreNat
<1>3. s \in [1..k -> files] /\ \A i, j \in 1..k : i # j => s[i] # s[j]
  BY DEF SetToSeqs
<1> HIDE DEF k
<1>4. s \in [1..k -> Names]
  BY <1>3
<1>5. s \in Seq(Names) /\ Len(s) = k
  BY <1>1, <1>4
<1> QED
  BY <1>2, <1>3, <1>5

\* What Init says of the files.
Fresh(f) ==
  /\ f.prev = PoolPrev(NumDirents) /\ f.next = PoolNext(NumDirents)
  /\ f.first = [l \in Lists |-> IF l = "unused" THEN 1 ELSE NULL]
  /\ f.last = [l \in Lists |-> IF l = "unused" THEN NumDirents ELSE NULL]
  /\ f.free = [i \in 1..NumObjs |-> i]
  /\ \A o \in Objs : f.obj[o].dir = "local"
  /\ f.numrecs = 0 /\ f.childs = NULL /\ ~f.cached
  /\ Len(f.host) <= NumRecs /\ \A i, j \in 1..Len(f.host) : f.host[i] = f.host[j] => i = j

LEMMA FreshIsInv ==
  ASSUME NEW f \in FsType, Fresh(f)
  PROVE  FsInv(f) /\ Live(f) = {}
<1> DEFINE N == NumDirents
<1>1. N \in Nat /\ N > 0 /\ Dirents = 1..N
  BY NumbersAreNat DEF Dirents
<1>2. /\ f.first["unused"] = 1 /\ f.last["unused"] = N
      /\ \A dir \in Dirs : f.first[dir] = NULL /\ f.last[dir] = NULL
  BY DEF Fresh, Lists, Dirs
<1>3. IsChain(1..N, PoolNext(N), PoolPrev(N), 1, N)
  BY <1>1, PoolChain
<1>4. OnChain(f, "unused", Dirents)
  BY <1>1, <1>2, <1>3 DEF OnChain, Fresh
<1>5. \A dir \in Dirs : OnChain(f, dir, {})
  BY <1>2 DEF OnChain, IsChain, Reaches
<1>6. In(f, "unused") = Dirents
  BY <1>4, ChainIsIn DEF Lists
<1>7. \A dir \in Dirs : In(f, dir) = {}
  BY <1>5, ChainIsIn DEF Lists
<1>8. Shared(f)
  BY <1>4, <1>5, <1>6, <1>7 DEF Shared, Lists
<1>9. Range(f.free) = Objs /\ \A i, j \in DOMAIN f.free : f.free[i] = f.free[j] => i = j
  BY DEF Fresh, Range, Objs
<1>10. Live(f) = {}
  BY <1>9 DEF Live
<1>11. Named(f)
  BY <1>7, <1>9 DEF Named
<1>12. IsChain({}, RecNext(f), RecPrev(f), f.childs, NULL)
  BY DEF Fresh, IsChain, Reaches
<1>13. Linked(f) = {}
  BY <1>12, ChainIsLinked
<1>14. Local(f) = {}
  BY <1>10 DEF Local
<1>15. Records(f)
  BY <1>12, <1>13, <1>14 DEF Records, Untouched, Fresh
<1>16. Hosted(f)
  <2>1. 1..f.numrecs = {}
    BY DEF Fresh
  <2> QED
    BY <1>14, <2>1 DEF Hosted
<1> QED
  BY <1>8, <1>10, <1>11, <1>15, <1>16 DEF FsInv

LEMMA InitIsFresh ==
  Init => fs \in FsType /\ Fresh(fs)
<1> SUFFICES ASSUME Init PROVE fs \in FsType /\ Fresh(fs)
  OBVIOUS
<1> DEFINE rec0 == [name |-> "", prev |-> NULL, next |-> NULL, obj |-> NULL]
           obj0 == [dir |-> "local", file |-> "", refcnt |-> 0, dirent |-> NULL, made |-> FALSE,
                    id |-> NULL, detail |-> NULL]
<1>1. PICK files \in SUBSET Names : \E onHost \in SetToSeqs(files) :
        fs = [prev  |-> PoolPrev(NumDirents), next |-> PoolNext(NumDirents),
              first |-> [l \in Lists |-> IF l = "unused" THEN 1 ELSE NULL],
              last  |-> [l \in Lists |-> IF l = "unused" THEN NumDirents ELSE NULL],
              name  |-> [d \in Dirents |-> ""], of |-> [d \in Dirents |-> NULL],
              obj   |-> [o \in Objs |-> obj0], free |-> [i \in 1..NumObjs |-> i],
              host  |-> onHost, numrecs |-> 0, childs |-> NULL, cached |-> FALSE,
              rec   |-> [w \in Recs |-> rec0]]
  BY DEF Init
<1>2. PICK host \in SetToSeqs(files) :
        fs = [prev  |-> PoolPrev(NumDirents), next |-> PoolNext(NumDirents),
              first |-> [l \in Lists |-> IF l = "unused" THEN 1 ELSE NULL],
              last  |-> [l \in Lists |-> IF l = "unused" THEN NumDirents ELSE NULL],
              name  |-> [d \in Dirents |-> ""], of |-> [d \in Dirents |-> NULL],
              obj   |-> [o \in Objs |-> obj0], free |-> [i \in 1..NumObjs |-> i],
              host  |-> host, numrecs |-> 0, childs |-> NULL, cached |-> FALSE,
              rec   |-> [w \in Recs |-> rec0]]
  BY <1>1
<1>3. host \in Seq(Names) /\ Len(host) <= NumRecs /\ \A i, j \in 1..Len(host) : host[i] = host[j] => i = j
  BY HostFiles
<1>4. NumDirents \in Nat /\ NumDirents > 0 /\ NumObjs \in Nat /\ 1 \in Dirents /\ NumDirents \in Dirents
  BY NumbersAreNat DEF Dirents
<1>5. /\ PoolPrev(NumDirents) \in [Dirents -> Dirents \cup {NULL}]
      /\ PoolNext(NumDirents) \in [Dirents -> Dirents \cup {NULL}]
  BY <1>4 DEF PoolPrev, PoolNext, Dirents, NULL
<1>6. [i \in 1..NumObjs |-> i] \in Seq(Objs)
  BY <1>4 DEF Objs
<1>7. obj0 \in ObjRec /\ rec0 \in HostRec
  BY DEF ObjRec, HostRec, Dirs
<1>8. /\ [o \in Objs |-> obj0] \in [Objs -> ObjRec] /\ [w \in Recs |-> rec0] \in [Recs -> HostRec]
      /\ [l \in Lists |-> IF l = "unused" THEN 1 ELSE NULL] \in [Lists -> Dirents \cup {NULL}]
      /\ [l \in Lists |-> IF l = "unused" THEN NumDirents ELSE NULL] \in [Lists -> Dirents \cup {NULL}]
      /\ [d \in Dirents |-> ""] \in [Dirents -> Names \cup {""}]
      /\ [d \in Dirents |-> NULL] \in [Dirents -> Objs \cup {NULL}]
  BY <1>4, <1>7
<1>9. /\ fs.prev = PoolPrev(NumDirents) /\ fs.next = PoolNext(NumDirents)
      /\ fs.first = [l \in Lists |-> IF l = "unused" THEN 1 ELSE NULL]
      /\ fs.last = [l \in Lists |-> IF l = "unused" THEN NumDirents ELSE NULL]
      /\ fs.free = [i \in 1..NumObjs |-> i] /\ fs.obj = [o \in Objs |-> obj0]
      /\ fs.numrecs = 0 /\ fs.childs = NULL /\ fs.cached = FALSE /\ fs.host = host
  BY <1>2
<1>10. obj0.dir = "local"
  OBVIOUS
<1> HIDE DEF obj0, rec0
<1>11. fs \in FsType
  BY <1>2, <1>3, <1>5, <1>6, <1>8 DEF FsType
<1>12. \A o \in Objs : fs.obj[o].dir = "local"
  BY <1>9, <1>10
<1> QED
  BY <1>3, <1>9, <1>11, <1>12 DEF Fresh

LEMMA InitHasInv ==
  Init => ObjFsInv
<1> SUFFICES ASSUME Init PROVE ObjFsInv
  OBVIOUS
<1>1. fs \in FsType /\ FsInv(fs) /\ Live(fs) = {}
  BY InitIsFresh, FreshIsInv
<1>2. /\ table = [p \in Procs |-> [o \in Objs |-> 0]] /\ pc = [p \in Procs |-> "user"]
      /\ what = [p \in Procs |-> NULL] /\ halted = FALSE
  BY DEF Init
<1>3. table \in TableType /\ \A p \in Procs : \A o \in Objs : table[p][o] = 0
  BY <1>2 DEF TableType
<1>4. TypeOK
  BY <1>1, <1>2, <1>3 DEF TypeOK, FsType, ObjRec, HostRec, TableType
<1>5. \A o \in Objs : HandlesIn(table, o) = {}
  BY <1>3, NobodyHas
<1>6. Counted(fs, table)
  BY <1>1, <1>5, FS_EmptySet DEF Counted
<1>7. Held1(fs, table)
  BY <1>3 DEF Held1
<1>8. Removals(fs, table, pc, what)
  BY <1>2 DEF Removals
<1> QED
  BY <1>1, <1>4, <1>6, <1>7, <1>8 DEF ObjFsInv
-----------------------------------------------------------------------------
(* The theorems.                                                           *)

LEMMA NextKeepsInv ==
  ASSUME ObjFsInv, [Next]_vars, Behaviours = {}
  PROVE  ObjFsInv'
<1>1. CASE UNCHANGED vars
  <2>1. fs' = fs /\ table' = table /\ pc' = pc /\ what' = what /\ halted' = halted
    BY <1>1 DEF vars
  <2> QED
    BY <2>1, InvIs, InvAfter
<1>2. CASE Next
  <2>1. PICK p \in Procs :
          \/ Close(p) \/ UnlinkCheck(p) \/ UnlinkEnd(p) \/ Exit(p) \/ ExitStep(p)
          \/ \E dir \in Dirs, n \in Names :
               Open(p, dir, n) \/ Create(p, dir, n) \/ Unlink(p, dir, n) \/ Crash(p, dir, n)
    BY <1>2 DEF Next
  <2>2. CASE Close(p)
    BY <2>2, CloseStep
  <2>3. CASE UnlinkCheck(p)
    BY <2>3, UnlinkCheckStep
  <2>4. CASE UnlinkEnd(p)
    BY <2>4, UnlinkEndStep
  <2>5. CASE Exit(p) \/ ExitStep(p)
    BY <2>5, ExitStepSafe
  <2>6. ASSUME NEW dir \in Dirs, NEW n \in Names,
               Open(p, dir, n) \/ Create(p, dir, n) \/ Unlink(p, dir, n) \/ Crash(p, dir, n)
        PROVE  ObjFsInv'
    <3>1. CASE Open(p, dir, n)
      <4>1. OpenFile(p, dir, n, "user")
        BY <3>1 DEF Open
      <4> QED
        BY <4>1, OpenStep
    <3>2. CASE Create(p, dir, n)
      BY <3>2, CreateStep
    <3>3. CASE Unlink(p, dir, n)
      <4>1. OpenFile(p, dir, n, "check") /\ dir = "memfs"
        BY <3>3 DEF Unlink, Dirs
      <4> QED
        BY <4>1, OpenStep
    <3>4. CASE Crash(p, dir, n)
      BY <3>4, CrashStep
    <3> QED
      BY <2>6, <3>1, <3>2, <3>3, <3>4
  <2> QED
    BY <2>1, <2>2, <2>3, <2>4, <2>5, <2>6
<1> QED
  BY <1>1, <1>2

\* In every state the entries, objects, records and table entries fit together.
THEOREM FilesInvariant ==
  ASSUME Behaviours = {}
  PROVE  Spec => []ObjFsInv
<1>1. ObjFsInv /\ [Next]_vars => ObjFsInv'
  BY NextKeepsInv
<1> QED
  BY <1>1, InitHasInv, PTL DEF Spec

LEMMA ListsOfInv ==
  ASSUME ObjFsInv
  PROVE  /\ TypeOK /\ FsInv(fs) /\ fs \in FsType /\ Shared(fs) /\ Named(fs) /\ Records(fs) /\ Hosted(fs)
         /\ Counted(fs, table) /\ Held1(fs, table) /\ table \in TableType
         /\ \A l : Entries(l) = In(fs, l)
         /\ Listed = Linked(fs) /\ InUse = Local(fs)
         /\ \A o : Handles(o) = HandlesIn(table, o)
BY DEF ObjFsInv, FsInv, TypeOK, TableType, Entries, In, Listed, Linked, InUse, Local, Live, Handles,
       HandlesIn

LEMMA InvMeansDirentsExact ==
  ObjFsInv => DirentsExact
<1> SUFFICES ASSUME ObjFsInv PROVE DirentsExact
  OBVIOUS
<1>1. /\ TypeOK /\ fs \in FsType /\ Shared(fs) /\ Named(fs) /\ \A l : Entries(l) = In(fs, l)
  BY ListsOfInv
<1>2. ASSUME NEW l \in Lists
      PROVE  /\ \A d \in In(fs, l) :
                  /\ IF d = fs.first[l] THEN fs.prev[d] = NULL
                     ELSE fs.prev[d] \in In(fs, l) /\ fs.next[fs.prev[d]] = d
                  /\ IF d = fs.last[l] THEN fs.next[d] = NULL
                     ELSE fs.next[d] \in In(fs, l) /\ fs.prev[fs.next[d]] = d
             /\ IF In(fs, l) = {} THEN fs.first[l] = NULL /\ fs.last[l] = NULL
                ELSE fs.first[l] \in In(fs, l) /\ fs.last[l] \in In(fs, l)
  <2>1. IsChain(In(fs, l), fs.next, fs.prev, fs.first[l], fs.last[l])
    BY <1>1 DEF Shared, OnChain
  <2> QED
    BY <2>1 DEF IsChain
<1>3. /\ \A l \in Lists : \A m \in Lists \ {l} : In(fs, l) \cap In(fs, m) = {}
      /\ Dirents = UNION {In(fs, l) : l \in Lists}
  BY <1>1 DEF Shared
<1>4. \A dir \in Dirs : \A d \in In(fs, dir) :
        /\ fs.obj[fs.of[d]].dirent = d /\ fs.obj[fs.of[d]].dir = dir
        /\ \A e \in In(fs, dir) \ {d} : fs.name[e] # fs.name[d]
  BY <1>1 DEF Named
<1>5. Dirents = UNION {Entries(l) : l \in Lists}
  BY <1>1, <1>3
<1> QED
  BY <1>1, <1>2, <1>3, <1>4, <1>5 DEF DirentsExact

LEMMA InvMeansRecordsExact ==
  ObjFsInv => RecordsExact
<1> SUFFICES ASSUME ObjFsInv PROVE RecordsExact
  OBVIOUS
<1>1. /\ fs \in FsType /\ Records(fs) /\ Hosted(fs) /\ Listed = Linked(fs) /\ InUse = Local(fs)
  BY ListsOfInv
<1>2. \A o \in Local(fs) : /\ fs.obj[o].id # NULL /\ fs.rec[fs.obj[o].id].name = fs.obj[o].file
                           /\ fs.obj[o].file \in Range(fs.host)
  <2>1. NULL \notin 1..fs.numrecs
    BY DEF NULL
  <2> QED
    BY <1>1, <2>1 DEF Hosted
<1>3. PICK t \in Recs \cup {NULL} : IsChain(Linked(fs), RecNext(fs), RecPrev(fs), fs.childs, t)
  BY <1>1 DEF Records
<1>4. \A w \in Linked(fs) : w \in Recs
  BY <1>1, FsFields DEF Records
<1>5. \A w \in Recs : RecNext(fs)[w] = fs.rec[w].next /\ RecPrev(fs)[w] = fs.rec[w].prev
  BY DEF RecNext, RecPrev
<1>6. ASSUME NEW w \in Linked(fs)
      PROVE  /\ IF w = fs.childs THEN fs.rec[w].prev = NULL
                ELSE fs.rec[w].prev \in Linked(fs) /\ fs.rec[fs.rec[w].prev].next = w
             /\ fs.rec[w].next # NULL =>
                  fs.rec[w].next \in Linked(fs) /\ fs.rec[fs.rec[w].next].prev = w
  BY <1>3, <1>4, <1>5 DEF IsChain
<1>7. /\ \A v, w \in Linked(fs) : fs.rec[v].name = fs.rec[w].name => v = w
      /\ \A w \in Linked(fs) : fs.rec[w].name \in Range(fs.host)
  BY <1>1 DEF Records
<1>8. \A w \in 1..fs.numrecs : fs.rec[w].obj # NULL =>
        fs.rec[w].obj \in Local(fs) /\ fs.obj[fs.rec[w].obj].id = w
  BY <1>1 DEF Hosted
<1> QED
  BY <1>1, <1>2, <1>6, <1>7, <1>8 DEF RecordsExact

LEMMA InvMeansRefcntExact ==
  ObjFsInv => RefcntExact
<1> SUFFICES ASSUME ObjFsInv PROVE RefcntExact
  OBVIOUS
<1>1. Counted(fs, table) /\ \A o : Handles(o) = HandlesIn(table, o)
  BY ListsOfInv
<1>2. \A o \in Objs : o \in Live(fs) =>
        fs.obj[o].refcnt \in Cardinality(HandlesIn(table, o))..
                               (Cardinality(HandlesIn(table, o)) + IF fs.obj[o].made THEN 1 ELSE 0)
  BY <1>1 DEF Counted
<1>3. \A o : Users(o) = Cardinality(HandlesIn(table, o))
  BY <1>1 DEF Users
<1> QED
  BY <1>2, <1>3 DEF RefcntExact, Live

LEMMA InvMeansOpenIsNamed ==
  ObjFsInv => OpenIsNamed
<1> SUFFICES ASSUME ObjFsInv, NEW p \in Procs, NEW o \in Held(p)
             PROVE  o \notin Range(fs.free) /\ Scan(fs, fs.obj[o].dir, fs.obj[o].file) = o
  BY DEF OpenIsNamed
<1>1. fs \in FsType /\ Named(fs) /\ Held1(fs, table)
  BY ListsOfInv
<1>2. o \in Known(fs)
  BY <1>1 DEF Held1, Held
<1> QED
  BY <1>1, <1>2, ScanOfKnown, KnownIsLive DEF Live

\* Every directory entry is in one list, with links that agree, and leads to the object it
\* belongs to; no name is in a directory twice (dirent_alloc, dirent_free, namespace.c).
THEOREM DirentsAlwaysExact ==
  ASSUME Behaviours = {}
  PROVE  Spec => []DirentsExact
BY FilesInvariant, InvMeansDirentsExact, PTL

\* The references of an object in use are the table entries for it, through failed calls,
\* removals and exits in steps (open2, create, closep, fs_kill_proc).
THEOREM RefcntAlwaysExact ==
  ASSUME Behaviours = {}
  PROVE  Spec => []RefcntExact
BY FilesInvariant, InvMeansRefcntExact, PTL

\* An object of wrapfs stands for the file of the host it was opened as (wrapfs_lookup,
\* wrapfs_create).
THEOREM RecordsAlwaysExact ==
  ASSUME Behaviours = {}
  PROVE  Spec => []RecordsExact
BY FilesInvariant, InvMeansRecordsExact, PTL

\* A file that is open is in memory under its name (unlink).
THEOREM OpenAlwaysNamed ==
  ASSUME Behaviours = {}
  PROVE  Spec => []OpenIsNamed
BY FilesInvariant, InvMeansOpenIsNamed, PTL
-----------------------------------------------------------------------------
(* The file calls implement NameSpace.                                     *)

PathOf(f, o) == <<f.obj[o].dir, f.obj[o].file>>
Row(t, o)    == [p \in Procs |-> t[p][o]]

\* u shows each known object under its path, with the table entries for it.
Shows(f, t, u) ==
  /\ u = [x \in {PathOf(f, o) : o \in Known(f)} |-> u[x]]
  /\ \A o \in Known(f) : u[PathOf(f, o)] = Row(t, o)

\* Two objects have two paths.
LEMMA OnePath ==
  ASSUME NEW f, FsInv(f), NEW o \in Known(f), NEW q \in Known(f), PathOf(f, o) = PathOf(f, q)
  PROVE  o = q
<1>1. f \in FsType /\ Named(f)
  BY DEF FsInv
<1>2. f.obj[o].dir = f.obj[q].dir /\ f.obj[o].file = f.obj[q].file
  BY DEF PathOf
<1> QED
  BY <1>1, <1>2, ScanOfKnown

LEMMA PathIsPath ==
  ASSUME NEW f, FsInv(f), NEW o \in Known(f)
  PROVE  PathOf(f, o) \in Dirs \X Names
<1>1. f \in FsType /\ Named(f)
  BY DEF FsInv
<1>2. f.obj[o] \in ObjRec
  BY <1>1, FsFields, KnownIsLive
<1>3. f.obj[o].dir \in Dirs /\ f.obj[o].file \in Names
  BY <1>1, <1>2, ScanOfKnown DEF ObjRec
<1> QED
  BY <1>3 DEF PathOf

\* The entries of the directories are the known objects.
OpenedIn(f, t) ==
  LET known == UNION {{<<dir, d>> : d \in In(f, dir)} : dir \in Dirs}
      At(x) == CHOOSE e \in known : e[1] = x[1] /\ f.name[e[2]] = x[2]
  IN [x \in {<<e[1], f.name[e[2]]>> : e \in known} |-> [p \in Procs |-> t[p][f.of[At(x)[2]]]]]

LEMMA OpenedShows ==
  ASSUME NEW f, NEW t, FsInv(f)
  PROVE  Shows(f, t, OpenedIn(f, t))
<1> DEFINE known == UNION {{<<dir, d>> : d \in In(f, dir)} : dir \in Dirs}
           At(x) == CHOOSE e \in known : e[1] = x[1] /\ f.name[e[2]] = x[2]
           u == OpenedIn(f, t)
<1>1. f \in FsType /\ Named(f) /\ f.obj \in [Objs -> ObjRec]
  BY FsFields DEF FsInv
<1>2. u = [x \in {<<e[1], f.name[e[2]]>> : e \in known} |-> [p \in Procs |-> t[p][f.of[At(x)[2]]]]]
  BY DEF OpenedIn
<1>3. \A e : e \in known <=> \E dir \in Dirs : \E d \in In(f, dir) : e = <<dir, d>>
  OBVIOUS
<1> HIDE DEF u, known
<1>4. ASSUME NEW e \in known
      PROVE  /\ f.of[e[2]] \in Known(f) /\ PathOf(f, f.of[e[2]]) = <<e[1], f.name[e[2]]>>
             /\ f.obj[f.of[e[2]]].dirent = e[2] /\ f.obj[f.of[e[2]]].dir = e[1]
  <2>1. PICK dir \in Dirs : \E d \in In(f, dir) : e = <<dir, d>>
    BY <1>3
  <2>2. PICK d \in In(f, dir) : e = <<dir, d>>
    BY <2>1
  <2>3. /\ f.of[d] \in Live(f) /\ f.obj[f.of[d]].dirent = d /\ f.obj[f.of[d]].dir = dir
        /\ f.obj[f.of[d]].file = f.name[d]
    BY <1>1 DEF Named
  <2> QED
    BY <2>2, <2>3 DEF Known, PathOf
<1>5. ASSUME NEW o \in Known(f)
      PROVE  LET e == <<f.obj[o].dir, f.obj[o].dirent>>
             IN e \in known /\ f.of[e[2]] = o
  <2>1. o \in Objs /\ f.obj[o] \in ObjRec
    BY <1>1, KnownIsLive
  <2>2. f.obj[o].dir \in Dirs
    BY <2>1 DEF ObjRec
  <2>3. f.obj[o].dirent \in In(f, f.obj[o].dir) /\ f.of[f.obj[o].dirent] = o
    BY DEF Known
  <2> QED
    BY <1>3, <2>2, <2>3
<1>6. {<<e[1], f.name[e[2]]>> : e \in known} = {PathOf(f, o) : o \in Known(f)}
  <2>1. \A e \in known : \E o \in Known(f) : <<e[1], f.name[e[2]]>> = PathOf(f, o)
    BY <1>4
  <2>2. \A o \in Known(f) : \E e \in known : <<e[1], f.name[e[2]]>> = PathOf(f, o)
    <3> TAKE o \in Known(f)
    <3>1. PICK e \in known : f.of[e[2]] = o
      BY <1>5
    <3> QED
      BY <1>4, <3>1
  <2> QED
    BY <2>1, <2>2
<1>7. ASSUME NEW o \in Known(f)
      PROVE  u[PathOf(f, o)] = Row(t, o)
  <2> DEFINE x == PathOf(f, o)
  <2>1. PICK e \in known : f.of[e[2]] = o
    BY <1>5
  <2>2. x = <<e[1], f.name[e[2]]>>
    BY <1>4, <2>1
  <2>3. \E y \in known : y[1] = x[1] /\ f.name[y[2]] = x[2]
    BY <2>2
  <2>4. At(x) \in known /\ At(x)[1] = x[1] /\ f.name[At(x)[2]] = x[2]
    BY <2>3
  <2>5. u[x] = [p \in Procs |-> t[p][f.of[At(x)[2]]]]
    BY <1>2, <2>2
  <2> DEFINE y == At(x)
  <2>6. y \in known /\ <<y[1], f.name[y[2]]>> = x
    BY <2>2, <2>4, SMTT(60)
  <2>7. u[x] = Row(t, f.of[y[2]])
    BY <2>5 DEF Row
  <2> HIDE DEF x, y, At
  <2>8. f.of[y[2]] \in Known(f) /\ PathOf(f, f.of[y[2]]) = PathOf(f, o)
    BY <1>4, <2>6 DEF x
  <2>9. f.of[y[2]] = o
    BY <2>8, OnePath
  <2> QED
    BY <2>7, <2>9 DEF x
<1>8. u = [x \in {PathOf(f, o) : o \in Known(f)} |-> u[x]]
  <2> HIDE DEF At
  <2> QED
    BY <1>2, <1>6
<1> QED
  BY <1>7, <1>8 DEF Shows, u

LEMMA OpenedIs ==
  Opened = OpenedIn(fs, table)
BY DEF Opened, OpenedIn, Entries, In

LEMMA ShowsDomain ==
  ASSUME NEW f, NEW t, NEW u, Shows(f, t, u)
  PROVE  DOMAIN u = {PathOf(f, o) : o \in Known(f)}
BY DEF Shows

LEMMA SamePath ==
  ASSUME NEW f, NEW g, Follows(f, g), NEW o \in Known(f)
  PROVE  PathOf(g, o) = PathOf(f, o) /\ o \in Known(g)
BY DEF Follows, PathOf

\* Functions with one domain and the same values are the same.
LEMMA SameFunction ==
  ASSUME NEW D, NEW u, NEW v, u = [x \in D |-> u[x]], v = [x \in D |-> v[x]], \A x \in D : u[x] = v[x]
  PROVE  u = v
OBVIOUS

\* A step of the file calls is one of NameSpace, or changes nothing there.
Maps(f, t, g, w) == \A u, v : Shows(f, t, u) /\ Shows(g, w, v) => u = v \/ NS!Step(u, v)

LEMMA MapsSame ==
  ASSUME NEW f, NEW t, NEW g, Follows(f, g), Known(g) = Known(f)
  PROVE  Maps(f, t, g, t)
<1> SUFFICES ASSUME NEW u, NEW v, Shows(f, t, u), Shows(g, t, v) PROVE u = v
  BY DEF Maps
<1> DEFINE D == {PathOf(f, o) : o \in Known(f)}
<1>1. D = {PathOf(g, o) : o \in Known(g)}
  BY SamePath
<1>2. \A x \in D : u[x] = v[x]
  <2> SUFFICES ASSUME NEW o \in Known(f) PROVE u[PathOf(f, o)] = v[PathOf(f, o)]
    OBVIOUS
  <2> QED
    BY SamePath DEF Shows
<1> HIDE DEF D
<1>3. u = [x \in D |-> u[x]] /\ v = [x \in D |-> v[x]]
  BY <1>1 DEF Shows, D
<1> QED
  BY <1>2, <1>3, SameFunction

\* One entry of the function changes.
LEMMA ShowsRekeep ==
  ASSUME NEW f, FsInv(f), NEW t, NEW u, Shows(f, t, u), NEW g, NEW w, NEW v, Shows(g, w, v),
         Follows(f, g), Known(g) = Known(f), NEW p \in Procs, NEW o \in Known(f), NEW k,
         Rekeeps(t, w, p, o, k)
  PROVE  /\ PathOf(f, o) \in DOMAIN u /\ u[PathOf(f, o)][p] = t[p][o]
         /\ v = [u EXCEPT ![PathOf(f, o)] = [u[PathOf(f, o)] EXCEPT ![p] = k]]
<1> DEFINE D == {PathOf(f, q) : q \in Known(f)}
           x == PathOf(f, o)
           r == [u[x] EXCEPT ![p] = k]
           e == [u EXCEPT ![x] = r]
<1>1. D = {PathOf(g, q) : q \in Known(g)}
  BY SamePath
<1>2. u[x] = Row(t, o) /\ x \in D
  BY DEF Shows
<1>3. w[p][o] = k /\ \A q \in Procs : \A y \in Objs : (q # p \/ y # o) => w[q][y] = t[q][y]
  BY DEF Rekeeps
<1>4. o \in Objs
  BY KnownIsLive
<1>5. r = Row(w, o) /\ u[x][p] = t[p][o]
  BY <1>2, <1>3, <1>4 DEF Row
<1> HIDE DEF D, x, r
<1>6. u = [y \in D |-> u[y]] /\ v = [y \in D |-> v[y]]
  BY <1>1 DEF Shows, D
<1>7. DOMAIN u = D
  BY <1>6
<1>8. e = [y \in D |-> e[y]] /\ \A y \in D : e[y] = IF y = x THEN r ELSE u[y]
  BY <1>2, <1>7
<1> HIDE DEF e
<1>9. ASSUME NEW q \in Known(f)
      PROVE  v[PathOf(f, q)] = e[PathOf(f, q)]
  <2>1. v[PathOf(f, q)] = Row(w, q) /\ PathOf(f, q) \in D /\ u[PathOf(f, q)] = Row(t, q)
    BY SamePath DEF Shows, D
  <2>2. CASE q = o
    BY <1>5, <1>8, <2>1, <2>2 DEF x
  <2>3. CASE q # o
    <3>1. PathOf(f, q) # x
      BY <2>3, OnePath DEF x
    <3>2. Row(w, q) = Row(t, q)
      BY <1>3, <2>3, KnownIsLive DEF Row
    <3> QED
      BY <1>8, <2>1, <3>1, <3>2
  <2> QED
    BY <2>2, <2>3
<1>10. \A y \in D : v[y] = e[y]
  BY <1>9 DEF D
<1>11. v = e
  BY <1>6, <1>8, <1>10, SameFunction
<1> QED
  BY <1>2, <1>5, <1>7, <1>11 DEF e, r, x

LEMMA MapsOpen ==
  ASSUME NEW f, FsInv(f), NEW t, NEW g, NEW w, Follows(f, g), Known(g) = Known(f),
         NEW p \in Procs, NEW o \in Known(f), Rekeeps(t, w, p, o, t[p][o] + 1)
  PROVE  Maps(f, t, g, w)
<1> SUFFICES ASSUME NEW u, NEW v, Shows(f, t, u), Shows(g, w, v) PROVE NS!Step(u, v)
  BY DEF Maps
<1> DEFINE x == PathOf(f, o)
<1>1. /\ x \in DOMAIN u /\ u[x][p] = t[p][o]
      /\ v = [u EXCEPT ![x] = [u[x] EXCEPT ![p] = t[p][o] + 1]]
  BY ShowsRekeep
<1> HIDE DEF x
<1>2. v = [u EXCEPT ![x][p] = u[x][p] + 1]
  BY <1>1, Zenon
<1>3. v = [u EXCEPT ![x][p] = @ + 1]
  BY <1>2, Zenon
<1> QED
  BY <1>1, <1>3 DEF NS!Step, NS!Open

LEMMA MapsClose ==
  ASSUME NEW f, FsInv(f), NEW t, NEW g, NEW w, Follows(f, g), Known(g) = Known(f),
         NEW p \in Procs, NEW o \in Known(f), t[p][o] > 0, Rekeeps(t, w, p, o, t[p][o] - 1)
  PROVE  Maps(f, t, g, w)
<1> SUFFICES ASSUME NEW u, NEW v, Shows(f, t, u), Shows(g, w, v) PROVE NS!Step(u, v)
  BY DEF Maps
<1> DEFINE x == PathOf(f, o)
<1>1. /\ x \in DOMAIN u /\ u[x][p] = t[p][o]
      /\ v = [u EXCEPT ![x] = [u[x] EXCEPT ![p] = t[p][o] - 1]]
  BY ShowsRekeep
<1> HIDE DEF x
<1>2. v = [u EXCEPT ![x][p] = u[x][p] - 1]
  BY <1>1, Zenon
<1>3. v = [u EXCEPT ![x][p] = @ - 1]
  BY <1>2, Zenon
<1> QED
  BY <1>1, <1>3 DEF NS!Step, NS!Close

LEMMA UnknownUnused ==
  ASSUME NEW f, NEW t, Good(f, t), NEW o \in Objs, o \notin Known(f)
  PROVE  Unused(t, o)
<1>1. \A q \in Procs : t[q][o] \in Nat /\ ~(t[q][o] > 0)
  BY DEF Good, Held1, TableType
<1> QED
  BY <1>1 DEF Unused

\* An object is found or made, and perhaps opened once.
LEMMA MapsAppear ==
  ASSUME NEW f, NEW t, NEW g, FsInv(g), NEW w, NEW p \in Procs, NEW o \in Objs, o \notin Known(f),
         Known(g) = Known(f) \cup {o}, Follows(f, g), Unused(t, o),
         w = t \/ Rekeeps(t, w, p, o, t[p][o] + 1)
  PROVE  Maps(f, t, g, w)
<1> SUFFICES ASSUME NEW u, NEW v, Shows(f, t, u), Shows(g, w, v) PROVE NS!Step(u, v)
  BY DEF Maps
<1> DEFINE D == {PathOf(f, q) : q \in Known(f)}
           x == PathOf(g, o)
           n == Row(w, o)
           e == [y \in D \cup {x} |-> IF y = x THEN n ELSE u[y]]
<1>1. x \in Dirs \X Names
  BY PathIsPath
<1>2. x \notin D
  <2> SUFFICES ASSUME NEW q \in Known(f), PathOf(f, q) = x PROVE FALSE
    OBVIOUS
  <2>1. PathOf(g, q) = x /\ q \in Known(g)
    BY SamePath
  <2>2. q = o
    BY <2>1, OnePath
  <2> QED
    BY <2>2
<1>3. {PathOf(g, q) : q \in Known(g)} = D \cup {x}
  BY SamePath
<1>4. n \in {NS!Unused} \cup {NS!Once(q) : q \in Procs}
  <2>1. CASE w = t
    <3>1. n = NS!Unused
      BY <2>1 DEF Row, Unused, NS!Unused
    <3> QED
      BY <3>1
  <2>2. CASE Rekeeps(t, w, p, o, t[p][o] + 1)
    <3>1. w[p][o] = 1 /\ \A q \in Procs : q # p => w[q][o] = 0
      BY <2>2 DEF Rekeeps, Unused
    <3>2. NS!Once(p) = [q \in Procs |-> IF q = p THEN 1 ELSE 0]
      BY DEF NS!Once, NS!Unused
    <3>3. n = NS!Once(p)
      BY <3>1, <3>2 DEF Row
    <3> QED
      BY <3>3
  <2> QED
    BY <2>1, <2>2
<1>5. v[x] = n
  BY DEF Shows
<1> HIDE DEF x, n
<1>6. ASSUME NEW q \in Known(f)
      PROVE  v[PathOf(f, q)] = u[PathOf(f, q)]
  <2>1. v[PathOf(f, q)] = Row(w, q) /\ u[PathOf(f, q)] = Row(t, q)
    BY SamePath DEF Shows
  <2>2. Row(w, q) = Row(t, q)
    BY KnownIsLive DEF Row, Rekeeps
  <2> QED
    BY <2>1, <2>2
<1>7. \A y \in D : v[y] = u[y]
  BY <1>6
<1> HIDE DEF D
<1>8. v = [y \in D \cup {x} |-> v[y]] /\ DOMAIN u = D
  BY <1>3, ShowsDomain DEF Shows, D
<1>9. \A y \in D \cup {x} : v[y] = e[y]
  BY <1>2, <1>5, <1>7
<1>10. e = [y \in D \cup {x} |-> e[y]]
  OBVIOUS
<1> HIDE DEF e
<1>11. v = e
  BY <1>8, <1>9, <1>10, SameFunction
<1>12. v = [y \in (DOMAIN u) \cup {x} |-> IF y = x THEN n ELSE u[y]]
  BY <1>8, <1>11 DEF e
<1> QED
  BY <1>1, <1>2, <1>4, <1>8, <1>12 DEF NS!Step, NS!Appear

LEMMA MapsRemove ==
  ASSUME NEW f, FsInv(f), NEW t, NEW g, NEW o \in Known(f), Known(g) = Known(f) \ {o},
         g.obj = f.obj, Unused(t, o)
  PROVE  Maps(f, t, g, t)
<1> SUFFICES ASSUME NEW u, NEW v, Shows(f, t, u), Shows(g, t, v) PROVE NS!Step(u, v)
  BY DEF Maps
<1> DEFINE D == {PathOf(f, q) : q \in Known(f)}
           x == PathOf(f, o)
           e == [y \in D \ {x} |-> u[y]]
<1>1. DOMAIN u = D /\ x \in D
  BY ShowsDomain
<1>2. u[x] = NS!Unused
  BY DEF Shows, Row, Unused, NS!Unused
<1>3. \A q \in Known(f) : PathOf(f, q) = x => q = o
  BY OnePath
<1>4. \A q \in Known(f) : PathOf(g, q) = PathOf(f, q)
  BY DEF PathOf
<1>5. {PathOf(g, q) : q \in Known(g)} = D \ {x}
  BY <1>3, <1>4
<1> HIDE DEF x
<1>6. \A y \in D \ {x} : v[y] = u[y]
  <2> SUFFICES ASSUME NEW q \in Known(f), PathOf(f, q) # x PROVE v[PathOf(f, q)] = u[PathOf(f, q)]
    OBVIOUS
  <2>1. q \in Known(g)
    BY DEF x
  <2> QED
    BY <1>4, <2>1 DEF Shows
<1> HIDE DEF D
<1>7. v = [y \in D \ {x} |-> v[y]]
  BY <1>5 DEF Shows
<1>8. \A y \in D \ {x} : v[y] = e[y]
  BY <1>6
<1>9. v = e
  BY <1>7, <1>8
<1> QED
  BY <1>1, <1>2, <1>9 DEF NS!Step, NS!Remove

LEMMA OpenMaps ==
  ASSUME ObjFsInv, NEW p \in Procs, NEW dir \in Dirs, NEW n \in Names, NEW then,
         OpenFile(p, dir, n, then)
  PROVE  Maps(fs, table, fs', table')
<1> DEFINE r == Lookup(fs, dir, n)
           g == r.fs
           o == r.obj
<1>1. Good(fs, table) /\ FsInv(fs) /\ table \in TableType
  BY InvIs DEF Good
<1>2. /\ ~LookupCrashes(fs, dir, n)
      /\ \/ fs' = g /\ table' = table
         \/ o # NULL /\ fs' = Ref(g, o) /\ table' = Keep(p, o)
  BY DEF OpenFile
<1>3. Finds(fs, g, o, dir, n)
  BY <1>1, <1>2, LookupFinds
<1> HIDE DEF r, g, o
<1>4. Good(g, table) /\ Follows(fs, g) /\ FsInv(g)
  BY <1>1, <1>3, FoundGood DEF Good
<1>5. /\ Good(fs', table') /\ Follows(g, fs') /\ Known(fs') = Known(g) /\ FsInv(fs')
      /\ \/ table' = table
         \/ Rekeeps(table, table', p, o, table[p][o] + 1) /\ o \in Known(g)
  <2>1. CASE fs' = g /\ table' = table
    BY <1>4, <2>1 DEF Follows
  <2>2. CASE o # NULL /\ fs' = Ref(g, o) /\ table' = Keep(p, o)
    <3>1. o \in Known(g) /\ o \in Objs
      BY <1>3, <2>2, KnownIsLive DEF Finds
    <3>2. Rekeeps(table, table', p, o, table[p][o] + 1)
      BY <1>1, <2>2, <3>1, KeepRekeeps
    <3>3. Good(fs', table') /\ Follows(g, fs') /\ Known(fs') = Known(g)
      BY <1>4, <2>2, <3>1, <3>2, RefGood
    <3> QED
      BY <3>1, <3>2, <3>3 DEF Good
  <2> QED
    BY <1>2, <2>1, <2>2
<1>6. Follows(fs, fs')
  BY <1>4, <1>5 DEF Follows
<1>7. CASE Adds(fs, g, {})
  <2>1. Known(fs') = Known(fs) /\ Known(g) = Known(fs)
    BY <1>5, <1>7 DEF Adds
  <2>2. CASE table' = table
    BY <1>6, <2>1, <2>2, MapsSame
  <2>3. CASE Rekeeps(table, table', p, o, table[p][o] + 1) /\ o \in Known(g)
    BY <1>1, <1>6, <2>1, <2>3, MapsOpen
  <2> QED
    BY <1>5, <2>2, <2>3
<1>8. CASE Adds(fs, g, {o}) /\ o \in Known(g)
  <2>1. o \in Objs /\ o \notin Known(fs) /\ Known(fs') = Known(fs) \cup {o}
    BY <1>5, <1>8, KnownIsLive DEF Adds
  <2>2. Unused(table, o)
    BY <1>1, <2>1, UnknownUnused
  <2> QED
    BY <1>5, <1>6, <2>1, <2>2, MapsAppear
<1> QED
  BY <1>3, <1>7, <1>8 DEF Finds

LEMMA CreateMaps ==
  ASSUME ObjFsInv, NEW p \in Procs, NEW dir \in Dirs, NEW n \in Names, Create(p, dir, n)
  PROVE  Maps(fs, table, fs', table')
<1> DEFINE r == Lookup(fs, dir, n)
           g == r.fs
           a == SubAlloc(g, dir, NULL, n)
           o == a.obj
           made == [a.fs EXCEPT !.obj[o].made = TRUE]
           new  == IF dir = "memfs" THEN made ELSE WrapfsCreate(made, o, n)
<1>1. Good(fs, table) /\ FsInv(fs) /\ table \in TableType
  BY InvIs DEF Good
<1>2. /\ ~LookupCrashes(fs, dir, n) /\ ~CreateCrashes(fs, dir, n)
      /\ dir = "local" => Collect(fs).numrecs < NumRecs
      /\ \/ fs' = g /\ table' = table
         \/ /\ r.obj = NULL /\ o # NULL /\ fs' = Ref(new, o)
            /\ table' = table \/ table' = Keep(p, o)
  BY DEF Create
<1>3. CASE fs' = g /\ table' = table
  <2> DEFINE q == r.obj
  <2>1. Finds(fs, g, q, dir, n)
    BY <1>1, <1>2, LookupFinds
  <2> HIDE DEF r, g, q
  <2>2. Good(g, table) /\ Follows(fs, g) /\ FsInv(g)
    BY <1>1, <2>1, FoundGood DEF Good
  <2>3. CASE Adds(fs, g, {})
    <3>1. Known(g) = Known(fs)
      BY <2>3 DEF Adds
    <3> QED
      BY <1>3, <2>2, <3>1, MapsSame
  <2>4. CASE Adds(fs, g, {q}) /\ q \in Known(g)
    <3>1. q \in Objs /\ q \notin Known(fs) /\ Known(g) = Known(fs) \cup {q}
      BY <2>4, KnownIsLive DEF Adds
    <3>2. Unused(table, q)
      BY <1>1, <3>1, UnknownUnused
    <3> QED
      BY <1>3, <2>2, <3>1, <3>2, MapsAppear
  <2> QED
    BY <2>1, <2>3, <2>4 DEF Finds
<1>4. CASE /\ r.obj = NULL /\ o # NULL /\ fs' = Ref(new, o)
           /\ table' = table \/ table' = Keep(p, o)
  <2>1. Creates(fs, Ref(new, o), o, dir, n)
    <3> HIDE DEF r, a
    <3>1. r = Lookup(fs, dir, n) /\ a = SubAlloc(r.fs, dir, NULL, n)
      BY DEF r, a
    <3>2. r.obj = NULL /\ a.obj # NULL
      BY <1>4
    <3> QED
      BY <1>1, <1>2, <3>1, <3>2, CreateSafe, SMTT(60)
  <2> HIDE DEF r, g, a, o, made, new
  <2>2. o \in Objs /\ Creates(fs, fs', o, dir, n)
    BY <1>4, <2>1 DEF Creates
  <2>3. table' = table \/ Rekeeps(table, table', p, o, table[p][o] + 1)
    BY <1>1, <1>4, <2>2, KeepRekeeps
  <2>4. Good(fs', table') /\ Follows(fs, fs') /\ o \in Objs \ Known(fs)
    BY <1>1, <2>2, <2>3, CreatedGood
  <2>5. FsInv(fs') /\ Known(fs') = Known(fs) \cup {o}
    BY <2>2 DEF Creates, Adds
  <2>6. Unused(table, o)
    BY <1>1, <2>4, UnknownUnused
  <2> QED
    BY <2>3, <2>4, <2>5, <2>6, MapsAppear
<1> QED
  BY <1>2, <1>3, <1>4

LEMMA CloseMaps ==
  ASSUME ObjFsInv, NEW p \in Procs, NEW o \in Held(p), CloseHandle(p, o)
  PROVE  Maps(fs, table, fs', table')
<1>1. Good(fs, table) /\ FsInv(fs) /\ table \in TableType
  BY InvIs DEF Good
<1>2. o \in Objs /\ table[p][o] > 0 /\ fs' = Unref(fs, o) /\ table' = [table EXCEPT ![p][o] = @ - 1]
  BY DEF Held, CloseHandle
<1>3. Rekeeps(table, table', p, o, table[p][o] - 1)
  BY <1>1, <1>2, DropRekeeps
<1>4. Good(fs', table') /\ Follows(fs, fs') /\ Known(fs') = Known(fs)
  BY <1>1, <1>2, <1>3, UnrefGood
<1>5. o \in Known(fs)
  BY <1>1, <1>2 DEF Good, Held1
<1> QED
  BY <1>1, <1>2, <1>3, <1>4, <1>5, MapsClose

LEMMA NextMaps ==
  ASSUME ObjFsInv, [Next]_vars
  PROVE  Maps(fs, table, fs', table')
<1>1. /\ Good(fs, table) /\ FsInv(fs) /\ Removals(fs, table, pc, what)
  BY InvIs DEF Good
<1>2. CASE fs' = fs /\ table' = table
  BY <1>2, MapsSame DEF Follows
<1>3. CASE Next
  <2>1. PICK p \in Procs :
          \/ Close(p) \/ UnlinkCheck(p) \/ UnlinkEnd(p) \/ Exit(p) \/ ExitStep(p)
          \/ \E dir \in Dirs, n \in Names :
               Open(p, dir, n) \/ Create(p, dir, n) \/ Unlink(p, dir, n) \/ Crash(p, dir, n)
    BY <1>3 DEF Next
  <2>2. CASE Close(p)
    BY <2>2, CloseMaps DEF Close
  <2>3. CASE UnlinkCheck(p)
    <3>1. CASE CloseHandle(p, what[p])
      <4>1. what[p] \in Objs /\ table[p][what[p]] > 0
        BY <1>1, <2>3, KnownIsLive DEF Removals, UnlinkCheck
      <4>2. what[p] \in Held(p)
        BY <4>1 DEF Held
      <4> QED
        BY <3>1, <4>2, CloseMaps
    <3> QED
      BY <1>2, <2>3, <3>1 DEF UnlinkCheck
  <2>4. CASE UnlinkEnd(p)
    <3>1. CASE pc[p] = "remove"
      <4> DEFINE o == what[p]
      <4>1. /\ o \in Known(fs) /\ fs.obj[o].dir = "memfs" /\ \A q \in Procs : table[q][o] = 0
        BY <1>1, <3>1 DEF Removals
      <4>2. fs' = ObjUnlink(fs, o) /\ table' = table
        BY <2>4, <3>1 DEF UnlinkEnd
      <4>3. Known(fs') = Known(fs) \ {o} /\ fs'.obj = fs.obj
        BY <1>1, <4>1, <4>2, UnlinkSafe
      <4>4. Unused(table, o)
        BY <4>1 DEF Unused
      <4> QED
        BY <1>1, <4>1, <4>2, <4>3, <4>4, MapsRemove
    <3>2. CASE pc[p] # "remove"
      BY <1>2, <2>4, <3>2 DEF UnlinkEnd
    <3> QED
      BY <3>1, <3>2
  <2>5. CASE Exit(p)
    BY <1>2, <2>5 DEF Exit
  <2>6. CASE ExitStep(p)
    BY <1>2, <2>6, CloseMaps DEF ExitStep
  <2>7. ASSUME NEW dir \in Dirs, NEW n \in Names,
               Open(p, dir, n) \/ Create(p, dir, n) \/ Unlink(p, dir, n) \/ Crash(p, dir, n)
        PROVE  Maps(fs, table, fs', table')
    <3>1. CASE Open(p, dir, n)
      BY <3>1, OpenMaps DEF Open
    <3>2. CASE Create(p, dir, n)
      BY <3>2, CreateMaps
    <3>3. CASE Unlink(p, dir, n)
      BY <3>3, OpenMaps DEF Unlink
    <3>4. CASE Crash(p, dir, n)
      BY <1>2, <3>4 DEF Crash
    <3> QED
      BY <2>7, <3>1, <3>2, <3>3, <3>4
  <2> QED
    BY <2>1, <2>2, <2>3, <2>4, <2>5, <2>6, <2>7
<1> QED
  BY <1>2, <1>3 DEF vars

LEMMA NextImplements ==
  ASSUME ObjFsInv, ObjFsInv', [Next]_vars
  PROVE  [NS!Next]_Opened
<1>1. FsInv(fs) /\ FsInv(fs')
  BY DEF ObjFsInv
<1>2. Opened' = OpenedIn(fs', table')
  BY OpenedIs DEF Opened, OpenedIn, Entries, In
<1>3. Shows(fs, table, Opened) /\ Shows(fs', table', Opened')
  BY <1>1, <1>2, OpenedIs, OpenedShows
<1>4. Opened = Opened' \/ NS!Step(Opened, Opened')
  BY <1>3, NextMaps DEF Maps
<1> QED
  BY <1>4 DEF NS!Next

LEMMA InitImplements ==
  Init => NS!Init
<1> SUFFICES ASSUME Init PROVE NS!Init
  OBVIOUS
<1>1. FsInv(fs) /\ Live(fs) = {}
  BY InitIsFresh, FreshIsInv
<1>2. Known(fs) = {}
  BY <1>1 DEF Known
<1>3. Shows(fs, table, Opened)
  BY <1>1, OpenedIs, OpenedShows
<1>4. Opened = [x \in {} |-> Opened[x]]
  BY <1>2, <1>3 DEF Shows
<1> QED
  BY <1>4 DEF NS!Init

\* Programs see files that appear, are opened and closed, and disappear unused, whatever
\* lookups, records, removals in steps and exits do to the lists behind them.
THEOREM FilesImplementNames ==
  ASSUME Behaviours = {}
  PROVE  Spec => ImplementsNames
<1>1. ObjFsInv /\ ObjFsInv' /\ [Next]_vars => [NS!Next]_Opened
  BY NextImplements
<1> QED
  BY <1>1, FilesInvariant, InitImplements, PTL DEF Spec, ImplementsNames, NS!Spec
=============================================================================
