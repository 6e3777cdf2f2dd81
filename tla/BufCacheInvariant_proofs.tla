---------------------- MODULE BufCacheInvariant_proofs ----------------------
(***************************************************************************)
(* Proofs about the buffer cache, for every number of processes, objects,   *)
(* buffers, blocks and table entries, also when kmalloc fails and operations *)
(* are suspended: the variables keep their types; the lists partition the   *)
(* descriptors and the reference counts are exact; then CacheInv, for        *)
(* disciplined clients, and what follows from it.                           *)
(***************************************************************************)
EXTENDS BufCacheProps, FiniteSetTheorems, SequenceTheorems, TLAPS

-----------------------------------------------------------------------------
(* Operations on the cache record keep its type.                            *)

LEMMA ConstantTypes ==
  /\ NULL \notin Bufs /\ Bufs \subseteq Nat /\ NULL \in Nat
  /\ NumBufs \in Nat \ {0} /\ NumBlks \in Nat \ {0} /\ MaxVersion \in Nat \ {0}
  /\ RefMod \in Nat /\ RefMod > 1
  /\ 1 \in Objs /\ 0 \in Blks /\ Objs \subseteq Nat /\ Blks \subseteq Nat
  /\ Len(Kind) \in Nat /\ Objs = 1..Len(Kind) /\ Line \in Nat /\ Line = MaxVersion + 1
BY BufCacheAssumption, EmptySeq, LenProperties
   DEF NULL, Bufs, Objs, Blks, Line

\* What DEQUEUE_REMOVE leaves of a list.
LEMMA WithoutType ==
  ASSUME NEW l \in Seq(Bufs), NEW b
  PROVE  Without(l, b) \in Seq(Bufs)
<1>1. CASE b \notin Range(l)
  BY <1>1 DEF Without
<1>2. CASE b \in Range(l)
  <2> DEFINE i == CHOOSE i \in DOMAIN l : l[i] = b
  <2>1. i \in 1..Len(l) /\ Len(l) \in Nat /\ \A j \in 1..Len(l) : l[j] \in Bufs
    BY <1>2, LenProperties DEF Range
  <2> HIDE DEF i
  <2>2. SubSeq(l, 1, i-1) \in Seq(Bufs) /\ SubSeq(l, i+1, Len(l)) \in Seq(Bufs)
    BY <2>1, SubSeqProperties
  <2>3. RemoveAt(l, i) \in Seq(Bufs)
    BY <2>2, ConcatProperties DEF RemoveAt
  <2> QED
    BY <1>2, <2>3 DEF Without, i
<1> QED
  BY <1>1, <1>2

LEMMA BfreeType ==
  ASSUME NEW c \in CacheRec, NEW b \in Bufs
  PROVE  Bfree(c, b) \in CacheRec
<1>1. c.buf[b].obj \in Objs /\ c.objbufs[c.buf[b].obj] \in Seq(Bufs)
  BY DEF CacheRec, BufRec
<1>2. Without(c.objbufs[c.buf[b].obj], b) \in Seq(Bufs)
  BY <1>1, WithoutType
<1>3. Append(c.unused, b) \in Seq(Bufs)
  BY AppendProperties DEF CacheRec
<1> QED
  BY <1>1, <1>2, <1>3 DEF Bfree, CacheRec

LEMMA FrontLastType ==
  ASSUME NEW l \in Seq(Bufs), l # <<>>
  PROVE  Front(l) \in Seq(Bufs) /\ Last(l) \in Bufs
<1>1. Len(l) \in Nat \ {0} /\ \A j \in 1..Len(l) : l[j] \in Bufs
  BY EmptySeq, LenProperties
<1>2. Front(l) \in Seq(Bufs)
  BY <1>1, SubSeqProperties DEF Front
<1> QED
  BY <1>1, <1>2 DEF Last

LEMMA TakeType ==
  ASSUME NEW c \in CacheRec, c.unused # <<>>, NEW o \in Objs, NEW k \in Blks
  PROVE  Take(c, o, k) \in CacheRec /\ Last(c.unused) \in Bufs
<1>1. Front(c.unused) \in Seq(Bufs) /\ Last(c.unused) \in Bufs
  BY FrontLastType DEF CacheRec
<1>2. 1 \in 0..RefMod-1 /\ 0 \in 0..Line
  BY ConstantTypes
<1>3. c.buf[Last(c.unused)].lock \in Int
  BY <1>1 DEF CacheRec, BufRec
<1>4. [obj |-> o, blk |-> k, refcnt |-> 1, dirty |-> FALSE, fresh |-> FALSE,
       lock |-> c.buf[Last(c.unused)].lock, data |-> 0] \in BufRec
  BY <1>2, <1>3 DEF BufRec
<1> QED
  BY <1>1, <1>4 DEF Take, CacheRec

\* A new record for one buffer, and the records the operations make.
LEMMA BufType ==
  ASSUME NEW c \in CacheRec, NEW b \in Bufs, NEW r \in BufRec
  PROVE  /\ [c EXCEPT !.buf[b] = r] \in CacheRec
         /\ [c EXCEPT !.buf[b] = r].objbufs = c.objbufs
         /\ [c EXCEPT !.buf[b] = r].unused = c.unused
         /\ [c EXCEPT !.buf[b] = r].buf = [c.buf EXCEPT ![b] = r]
         /\ [c EXCEPT !.buf[b] = r].dirtybufs = c.dirtybufs
BY DEF CacheRec

LEMMA RecType ==
  ASSUME NEW r \in BufRec
  PROVE  /\ \A x \in 0..RefMod-1 : [r EXCEPT !.refcnt = x] \in BufRec
         /\ \A x \in BOOLEAN : [r EXCEPT !.dirty = x] \in BufRec
         /\ \A x \in BOOLEAN : [r EXCEPT !.fresh = x] \in BufRec
         /\ \A x \in Int : [r EXCEPT !.lock = x] \in BufRec
         /\ \A x \in 0..Line : [r EXCEPT !.data = x] \in BufRec
BY DEF BufRec

LEMMA BufIsRec ==
  ASSUME NEW c \in CacheRec, NEW b \in Bufs
  PROVE  /\ c.buf[b] \in BufRec
         /\ c.buf[b].obj \in Objs /\ c.buf[b].blk \in Blks
         /\ c.buf[b].refcnt \in 0..RefMod-1 /\ c.buf[b].lock \in Int
         /\ c.buf[b].dirty \in BOOLEAN /\ c.buf[b].fresh \in BOOLEAN
         /\ c.buf[b].data \in 0..Line
         /\ c.objbufs[c.buf[b].obj] \in Seq(Bufs)
         /\ c.dirtybufs[c.buf[b].obj] \in Int
         /\ c.disk[c.buf[b].obj][c.buf[b].blk] \in 0..Line
BY SMTT(60) DEF CacheRec, BufRec

LEMMA ListType ==
  ASSUME NEW c \in CacheRec, NEW o \in Objs, NEW l \in Seq(Bufs)
  PROVE  [c EXCEPT !.objbufs[o] = l] \in CacheRec
BY DEF CacheRec

LEMMA LinkType ==
  ASSUME NEW c \in CacheRec, NEW b \in Bufs
  PROVE  Link(c, b) \in CacheRec
<1> DEFINE r == [c.buf[b] EXCEPT !.lock = @ + 1]
           l == Append(c.objbufs[c.buf[b].obj], b)
           d == [c EXCEPT !.objbufs[c.buf[b].obj] = l]
<1>0. c.buf[b].lock + 1 \in Int /\ l \in Seq(Bufs)
  BY BufIsRec, AppendProperties, SMTT(60)
<1>1. r \in BufRec /\ l \in Seq(Bufs)
  BY <1>0, BufIsRec, RecType
<1>2. d \in CacheRec /\ d.buf = c.buf
  BY <1>1, ListType, BufIsRec DEF CacheRec
<1>3. [d EXCEPT !.buf[b] = r] \in CacheRec
  BY <1>1, <1>2, BufType
<1>4. Link(c, b) = [d EXCEPT !.buf[b] = r]
  BY DEF Link
<1> QED
  BY <1>3, <1>4

LEMMA UntakeType ==
  ASSUME NEW c \in CacheRec, NEW b \in Bufs
  PROVE  Untake(c, b) \in CacheRec
BY AppendProperties DEF Untake, CacheRec

LEMMA RefType ==
  ASSUME NEW c \in CacheRec, NEW b \in Bufs
  PROVE  Ref(c, b) \in CacheRec /\ Unref(c, b) \in CacheRec
<1>1. (c.buf[b].refcnt + 1) % RefMod \in 0..RefMod-1
      /\ (c.buf[b].refcnt + RefMod - 1) % RefMod \in 0..RefMod-1
  BY BufIsRec, ConstantTypes, SMTT(60)
<1> DEFINE r == [c.buf[b] EXCEPT !.refcnt = (@ + 1) % RefMod]
           u == [c.buf[b] EXCEPT !.refcnt = (@ + RefMod - 1) % RefMod]
<1>2. r \in BufRec /\ u \in BufRec
  BY <1>1, BufIsRec, RecType
<1>3. [c EXCEPT !.buf[b] = r] \in CacheRec /\ [c EXCEPT !.buf[b] = u] \in CacheRec
  BY <1>2, BufType
<1> QED
  BY <1>3 DEF Ref, Unref

LEMMA UnlockType ==
  ASSUME NEW c \in CacheRec, NEW b \in Bufs
  PROVE  Unlock(c, b) \in CacheRec
<1> DEFINE r == [c.buf[b] EXCEPT !.lock = @ - 1]
<1>0. c.buf[b].lock - 1 \in Int
  BY BufIsRec
<1>1. r \in BufRec
  BY <1>0, BufIsRec, RecType
<1>2. [c EXCEPT !.buf[b] = r] \in CacheRec
  BY <1>1, BufType
<1> QED
  BY <1>2 DEF Unlock

LEMMA BlookupType ==
  ASSUME NEW c \in CacheRec, NEW o \in Objs, NEW b \in Bufs
  PROVE  Blookup(c, o, b) \in CacheRec
<1> DEFINE s == [Ref(c, b).buf[b] EXCEPT !.fresh = FALSE]
           r == [Ref(c, b) EXCEPT !.buf[b].fresh = FALSE]
<1>1. s \in BufRec
  BY RefType, BufIsRec, RecType
<1>2. [Ref(c, b) EXCEPT !.buf[b] = s] \in CacheRec
  BY <1>1, RefType, BufType
<1>3. r \in CacheRec
  BY <1>2
<1> HIDE DEF r
<1>4. r.objbufs[o] \in Seq(Bufs)
  BY <1>3 DEF CacheRec
<1>5. <<b>> \in Seq(Bufs) /\ Without(r.objbufs[o], b) \in Seq(Bufs)
  BY <1>4, WithoutType
<1>6. <<b>> \o Without(r.objbufs[o], b) \in Seq(Bufs)
  BY <1>5, ConcatProperties
<1>7. [r EXCEPT !.objbufs[o] = <<b>> \o Without(r.objbufs[o], b)] \in CacheRec
  BY <1>3, <1>6, ListType
<1> QED
  BY <1>3, <1>7 DEF Blookup, r

LEMMA DirtyType ==
  ASSUME NEW c \in CacheRec, NEW b \in Bufs, NEW x \in BOOLEAN, NEW n \in Int
  PROVE  [c EXCEPT !.buf[b].dirty = x, !.dirtybufs[c.buf[b].obj] = n] \in CacheRec
<1> DEFINE r == [c.buf[b] EXCEPT !.dirty = x]
           d == [c EXCEPT !.buf[b] = r]
<1>1. r \in BufRec
  BY BufIsRec, RecType
<1>2. d \in CacheRec /\ d.dirtybufs = c.dirtybufs
  BY <1>1, BufType
<1> HIDE DEF r
<1>3. [d EXCEPT !.dirtybufs[c.buf[b].obj] = n] \in CacheRec
  BY <1>2, BufIsRec DEF CacheRec
<1> QED
  BY <1>3 DEF r

LEMMA BdirtyType ==
  ASSUME NEW c \in CacheRec, NEW b \in Bufs
  PROVE  Bdirty(c, b) \in CacheRec /\ BwriteClean(c, b) \in CacheRec
<1> DEFINE n == c.dirtybufs[c.buf[b].obj]
<1>1. n + 1 \in Int /\ n - 1 \in Int
  BY BufIsRec, SMTT(60)
<1>2. /\ [c EXCEPT !.buf[b].dirty = TRUE, !.dirtybufs[c.buf[b].obj] = n + 1] \in CacheRec
      /\ [c EXCEPT !.buf[b].dirty = FALSE, !.dirtybufs[c.buf[b].obj] = n - 1] \in CacheRec
  BY <1>1, DirtyType
<1> QED
  BY <1>2 DEF Bdirty, BwriteClean

LEMMA DataType ==
  ASSUME NEW c \in CacheRec, NEW b \in Bufs, NEW x \in 0..Line
  PROVE  [c EXCEPT !.buf[b].data = x] \in CacheRec
<1>1. [c EXCEPT !.buf[b] = [c.buf[b] EXCEPT !.data = x]] \in CacheRec
  BY BufIsRec, RecType, BufType
<1> QED
  BY <1>1

LEMMA ModifyType ==
  ASSUME NEW c \in CacheRec, NEW b \in Bufs,
         IsFile(c.buf[b].obj) => c.buf[b].data < MaxVersion
  PROVE  Modify(c, b) \in CacheRec
<1>1. CASE IsFile(c.buf[b].obj)
  <2>1. c.buf[b].data + 1 \in 0..Line
    BY <1>1, BufIsRec, ConstantTypes, SMTT(60)
  <2>2. [c EXCEPT !.buf[b].data = c.buf[b].data + 1] \in CacheRec
    BY <2>1, DataType
  <2> QED
    BY <1>1, <2>2 DEF Modify
<1>2. CASE ~IsFile(c.buf[b].obj)
  BY <1>2 DEF Modify
<1> QED
  BY <1>1, <1>2

LEMMA ObjWriteType ==
  ASSUME NEW c \in CacheRec, NEW b \in Bufs, NEW o \in Objs, NEW k \in Blks
  PROVE  ObjWrite(c, b, o, k) \in CacheRec
<1> DEFINE n == IF k >= c.size[o] THEN k + 1 ELSE c.size[o]
           d == [c EXCEPT !.disk[o][k] = c.buf[b].data]
<1>1. k + 1 \in 0..NumBlks
  BY ConstantTypes DEF Blks
<1>2. c.size[o] \in 0..NumBlks
  BY DEF CacheRec
<1> HIDE DEF d
<1>3. n \in 0..NumBlks
  BY <1>1, <1>2
<1> USE DEF d
<1>4. d \in CacheRec /\ d.size = c.size
  BY BufIsRec DEF CacheRec
<1> HIDE DEF n
<1>5. [d EXCEPT !.size[o] = n] \in CacheRec
  BY <1>3, <1>4 DEF CacheRec
<1> QED
  BY <1>5 DEF ObjWrite, n

LEMMA ObjReadType ==
  ASSUME NEW c \in CacheRec, NEW b \in Bufs
  PROVE  ObjRead(c, b) \in CacheRec
<1> DEFINE r == [c.buf[b] EXCEPT !.data = Line]
           s == [r EXCEPT !.fresh = TRUE]
<1>1. Line \in 0..Line
  BY ConstantTypes
<1>2. r \in BufRec
  BY <1>1, BufIsRec, RecType
<1>3. s \in BufRec
  BY <1>2, RecType
<1>4. [c EXCEPT !.buf[b] = s] \in CacheRec
  BY <1>3, BufType
<1>5. [c EXCEPT !.buf[b].data = Line, !.buf[b].fresh = TRUE] = [c EXCEPT !.buf[b] = s]
  BY BufIsRec DEF CacheRec
<1>6. [c EXCEPT !.buf[b].data = c.disk[c.buf[b].obj][c.buf[b].blk]] \in CacheRec
  BY DataType, BufIsRec
<1> QED
  BY <1>4, <1>5, <1>6 DEF ObjRead
-----------------------------------------------------------------------------
(* Type correctness.                                                        *)

ProcRec == [pc : ProcPcs, obj : Objs, blk : Blks, mode : 0..3, buf : Bufs \cup {NULL}]

\* A process or the syncer that is in the middle of an operation on a buffer
\* has one.
HasBuffer ==
  /\ \A p \in Procs : proc[p].pc \in {"data", "read", "readclean", "write", "writeclean"}
       => proc[p].buf \in Bufs
  /\ sy.pc \in {"write", "writeclean"} => sy.cur \in Bufs

TypeInv == TypeOK /\ HasBuffer

LEMMA NoCallType == NoCall \in ProcRec
BY ConstantTypes DEF NoCall, ProcRec, ProcPcs

LEMMA GotoType ==
  ASSUME TypeInv, NEW p \in Procs, NEW pc \in ProcPcs, Goto(p, pc), UNCHANGED sy,
         pc \in {"data", "read", "readclean", "write", "writeclean"} => proc[p].buf \in Bufs
  PROVE  proc' \in [Procs -> ProcRec] /\ HasBuffer'
BY DEF TypeInv, TypeOK, HasBuffer, Goto, ProcRec

LEMMA TableType ==
  ASSUME TypeInv, NEW p \in Procs, NEW s, NEW x \in Bufs \cup {NULL}
  PROVE  [table EXCEPT ![p][s] = x] \in [Procs -> [Slots -> Bufs \cup {NULL}]]
<1>1. table \in [Procs -> [Slots -> Bufs \cup {NULL}]]
  BY DEF TypeInv, TypeOK
<1>2. table[p] \in [Slots -> Bufs \cup {NULL}]
  BY <1>1
<1>3. [table[p] EXCEPT ![s] = x] \in [Slots -> Bufs \cup {NULL}]
  BY <1>2
<1> QED
  BY <1>1, <1>3

LEMMA ReturnType ==
  ASSUME TypeInv, NEW p \in Procs, NEW c \in CacheRec, NEW b \in Bufs,
         Return(p, c, b), UNCHANGED <<sy, restart>>
  PROVE  TypeInv'
<1>1. cache' \in CacheRec
  BY BfreeType DEF Return
<1>2. table' \in [Procs -> [Slots -> Bufs \cup {NULL}]]
  <2>1. CASE FreeSlots(p) = {}
    BY <2>1 DEF Return, TypeInv, TypeOK
  <2>2. CASE FreeSlots(p) # {}
    <3>1. PICK s : table' = [table EXCEPT ![p][s] = b]
      BY <2>2 DEF Return
    <3> QED
      BY <3>1, TableType
  <2> QED
    BY <2>1, <2>2
<1>3. proc' \in [Procs -> ProcRec] /\ HasBuffer'
  BY NoCallType DEF Return, TypeInv, TypeOK, HasBuffer, NoCall, ProcRec
<1> QED
  BY <1>1, <1>2, <1>3 DEF TypeInv, TypeOK, ProcRec, Return

LEMMA FailType ==
  ASSUME TypeInv, NEW p \in Procs, NEW c \in CacheRec, Fail(p, c), UNCHANGED <<sy, restart>>
  PROVE  TypeInv'
<1>1. proc' \in [Procs -> ProcRec] /\ HasBuffer'
  BY NoCallType DEF Fail, TypeInv, TypeOK, HasBuffer, NoCall, ProcRec
<1> QED
  BY <1>1 DEF TypeInv, TypeOK, ProcRec, Fail

LEMMA LinkAndReadType ==
  ASSUME TypeInv, NEW p \in Procs, NEW c0 \in CacheRec, NEW b \in Bufs, NEW m,
         LinkAndRead(p, c0, b, m), UNCHANGED <<sy, restart>>
  PROVE  TypeInv'
<1> DEFINE c == Link(c0, b)
           Wait == \E pc \in {"read", "readclean"} :
                     /\ cache' = c
                     /\ proc' = [proc EXCEPT ![p] = [NoCall EXCEPT !.pc = pc, !.buf = b]]
                     /\ cpu' \in {Idle, p}
                     /\ UNCHANGED table
<1>1. c \in CacheRec /\ Unlock(c, b) \in CacheRec /\ Unlock(ObjRead(c, b), b) \in CacheRec
  BY LinkType, UnlockType, ObjReadType
<1>2. \/ Return(p, Unlock(c, b), b)
      \/ Return(p, Unlock(ObjRead(c, b), b), b)
      \/ Fail(p, c)
      \/ Wait
  BY DEF LinkAndRead
<1>3. ASSUME Wait PROVE TypeInv'
  <2> HIDE DEF c
  <2>1. \A pc \in {"read", "readclean"} : [NoCall EXCEPT !.pc = pc, !.buf = b] \in ProcRec
    BY NoCallType DEF NoCall, ProcRec, ProcPcs
  <2>2. proc' \in [Procs -> ProcRec] /\ HasBuffer'
    <3>1. PICK pc \in {"read", "readclean"} :
            proc' = [proc EXCEPT ![p] = [NoCall EXCEPT !.pc = pc, !.buf = b]]
      BY <1>3
    <3> DEFINE r == [NoCall EXCEPT !.pc = pc, !.buf = b]
    <3>2. r \in ProcRec /\ r.buf = b
      BY <2>1 DEF NoCall
    <3> HIDE DEF r
    <3>3. proc' = [proc EXCEPT ![p] = r]
      BY <3>1 DEF r
    <3> QED
      BY <3>2, <3>3 DEF TypeInv, TypeOK, HasBuffer, ProcRec
  <2> QED
    BY <1>1, <1>3, <2>2 DEF TypeInv, TypeOK, ProcRec
<1> QED
  BY <1>1, <1>2, <1>3, ReturnType, FailType

LEMMA BcreateType ==
  ASSUME TypeInv, NEW p \in Procs, NEW o \in Objs, NEW k \in Blks, NEW m \in 0..3,
         cache.unused # <<>>, Bcreate(p, o, k, m), UNCHANGED <<sy, restart>>
  PROVE  TypeInv'
<1> DEFINE b == Last(cache.unused)
           c == Take(cache, o, k)
<1>1. c \in CacheRec /\ b \in Bufs
  BY TakeType DEF TypeInv, TypeOK
<1>2. CASE LinkAndRead(p, c, b, m)
  BY <1>1, <1>2, LinkAndReadType
<1>3. CASE /\ cache' = c
           /\ proc' = [proc EXCEPT ![p] = [pc |-> "data", obj |-> o, blk |-> k,
                                           mode |-> m, buf |-> b]]
           /\ cpu' = p
           /\ UNCHANGED table
  <2> HIDE DEF c, b
  <2>1. [pc |-> "data", obj |-> o, blk |-> k, mode |-> m, buf |-> b] \in ProcRec
    BY <1>1 DEF ProcRec, ProcPcs
  <2>2. proc' \in [Procs -> ProcRec] /\ HasBuffer'
    BY <1>1, <1>3, <2>1 DEF TypeInv, TypeOK, HasBuffer, ProcRec
  <2> QED
    BY <1>1, <1>3, <2>2 DEF TypeInv, TypeOK, ProcRec
<1> QED
  BY <1>2, <1>3 DEF Bcreate

LEMMA BunrefpType ==
  ASSUME TypeInv, NEW p \in Procs, NEW c \in CacheRec, NEW b \in Bufs, Bunrefp(p, c, b)
  PROVE  TypeInv'
<1>1. CASE c.buf[b].lock # 0
  <2>0. c.buf[b].lock + 1 \in Int
    BY BufIsRec, SMTT(60)
  <2>1. [c EXCEPT !.buf[b] = [c.buf[b] EXCEPT !.lock = c.buf[b].lock + 1]] \in CacheRec
    BY <2>0, BufIsRec, RecType, BufType
  <2>2. proc' \in [Procs -> ProcRec] /\ HasBuffer'
    BY <1>1, GotoType DEF Bunrefp, ProcPcs
  <2> QED
    BY <1>1, <2>1, <2>2 DEF Bunrefp, TypeInv, TypeOK, ProcRec
<1>2. CASE c.buf[b].lock = 0
  <2>1. cache' \in CacheRec
    BY <1>2, RefType, BfreeType DEF Bunrefp
  <2>2. table' \in [Procs -> [Slots -> Bufs \cup {NULL}]]
    <3>1. PICK s \in Slots : table' = [table EXCEPT ![p][s] = NULL]
      BY <1>2 DEF Bunrefp, EraseEntry
    <3> QED
      BY <3>1, TableType
  <2>3. /\ restart' \in BOOLEAN
        /\ sy' \in [pc : SyPcs, obj : Objs, next : Bufs \cup {NULL},
                    cur : Bufs \cup {NULL}, wobj : Objs, wblk : Blks]
        /\ sy'.pc \in {"write", "writeclean"} => sy'.cur \in Bufs
    BY <1>2, ZenonT(60) DEF Bunrefp, SyncerRestart, TypeInv, TypeOK, HasBuffer, SyPcs
  <2>4. proc' \in [Procs -> ProcRec]
        /\ \A q \in Procs : proc'[q].pc \in {"data", "read", "readclean", "write", "writeclean"}
             => proc'[q].buf \in Bufs
    <3>1. proc' = [proc EXCEPT ![p] = IF proc[p].pc = "exit" THEN proc[p] ELSE NoCall]
      BY <1>2 DEF Bunrefp
    <3> QED
      BY <3>1, NoCallType DEF TypeInv, TypeOK, HasBuffer, ProcRec, NoCall
  <2> QED
    BY <1>2, <2>1, <2>2, <2>3, <2>4 DEF Bunrefp, TypeInv, TypeOK, HasBuffer, ProcRec
<1> QED
  BY <1>1, <1>2

LEMMA NextOfType ==
  ASSUME NEW c, NEW b
  PROVE  NextOf(c, b) \in Bufs \cup {NULL}
BY DEF NextOf

LEMMA FirstType ==
  ASSUME NEW c \in CacheRec, NEW o \in Objs
  PROVE  First(c.objbufs[o]) \in Bufs \cup {NULL}
<1>1. c.objbufs[o] \in Seq(Bufs)
  BY DEF CacheRec
<1>2. c.objbufs[o] # <<>> => c.objbufs[o][1] \in Bufs
  BY <1>1, EmptySeq, LenProperties
<1> QED
  BY <1>2 DEF First

LEMMA SyncerType ==
  ASSUME TypeInv, SyncerStep
  PROVE  TypeInv'
<1> USE DEF TypeInv, TypeOK, HasBuffer
<1> DEFINE SyT == [pc : SyPcs, obj : Objs, next : Bufs \cup {NULL}, cur : Bufs \cup {NULL},
                   wobj : Objs, wblk : Blks]
<1>1. CASE SyTop
  <2>1. First(cache.objbufs[1]) \in Bufs \cup {NULL}
    BY FirstType, ConstantTypes
  <2>2. sy' \in SyT /\ sy'.pc = "scan"
    BY <1>1, <2>1, ConstantTypes DEF SyTop, SyPcs
  <2> QED
    BY <1>1, <2>2 DEF SyTop
<1>2. CASE SyNextObj
  <2>1. sy.obj + 1 \in Objs
    BY <1>2, ConstantTypes DEF SyNextObj
  <2>2. First(cache.objbufs[sy.obj + 1]) \in Bufs \cup {NULL}
    BY <2>1, FirstType
  <2>3. sy' \in SyT /\ sy'.pc = "scan"
    BY <1>2, <2>1, <2>2 DEF SyNextObj
  <2> QED
    BY <1>2, <2>3 DEF SyNextObj
<1>3. CASE SyEnd
  <2>1. sy' \in SyT /\ sy'.pc \in {"top", "sleep"}
    BY <1>3 DEF SyEnd, SyPcs
  <2> QED
    BY <1>3, <2>1 DEF SyEnd
<1>4. CASE SySkip
  <2>1. sy' \in SyT /\ sy'.pc = "scan"
    BY <1>4, NextOfType DEF SySkip
  <2> QED
    BY <1>4, <2>1 DEF SySkip
<1>5. CASE SyWrite
  <2> DEFINE b == sy.next
             r == cache.buf[b]
             c == BwriteClean(cache, b)
             n == NextOf(cache, b)
             w == ObjWrite(c, b, r.obj, r.blk)
  <2>1. b \in Bufs /\ n \in Bufs \cup {NULL} /\ r.obj \in Objs /\ r.blk \in Blks
    BY <1>5, NextOfType, BufIsRec DEF SyWrite
  <2>2. c \in CacheRec
    BY <2>1, BdirtyType
  <2>3. w \in CacheRec
    BY <2>1, <2>2, ObjWriteType
  <2>4. SyFree(w, b) \in CacheRec
    BY <2>1, <2>3, BfreeType DEF SyFree
  <2>5. CASE cache' = SyFree(w, b) /\ sy' = [sy EXCEPT !.next = n]
    <3>1. sy' \in SyT /\ sy'.pc = "scan"
      BY <1>5, <2>1, <2>5 DEF SyWrite
    <3> QED
      BY <1>5, <2>4, <2>5, <3>1 DEF SyWrite
  <2>6. CASE /\ cache' = c
             /\ sy' = [pc |-> "writeclean", obj |-> sy.obj, next |-> n, cur |-> b,
                       wobj |-> r.obj, wblk |-> r.blk]
    <3>1. sy' \in SyT /\ sy'.cur \in Bufs
      BY <2>1, <2>6 DEF SyPcs
    <3> QED
      BY <1>5, <2>2, <2>6, <3>1 DEF SyWrite
  <2> QED
    BY <1>5, <2>5, <2>6 DEF SyWrite
<1>6. CASE SyResume
  BY <1>6 DEF SyResume, SyPcs
<1>7. CASE SyWriteEnd
  <2>1. sy.cur \in Bufs /\ sy.wobj \in Objs /\ sy.wblk \in Blks
    BY <1>7 DEF SyWriteEnd
  <2>2. CASE sy' = [sy EXCEPT !.pc = "write"] /\ UNCHANGED cache
    <3>1. sy' \in SyT /\ sy'.pc = "write" /\ sy'.cur \in Bufs
      BY <2>1, <2>2 DEF SyPcs
    <3> QED
      BY <1>7, <2>2, <3>1 DEF SyWriteEnd
  <2>3. CASE ~(sy' = [sy EXCEPT !.pc = "write"] /\ UNCHANGED cache)
    <3>1. PICK d \in Contents(cache, sy.cur) :
            cache' = SyFree(ObjWrite([cache EXCEPT !.buf[sy.cur].data = d],
                                     sy.cur, sy.wobj, sy.wblk), sy.cur)
      BY <1>7, <2>3 DEF SyWriteEnd
    <3>2. d \in 0..Line
      <4>1. 0..MaxVersion \subseteq 0..Line
        BY ConstantTypes
      <4> QED
        BY <2>1, <4>1, BufIsRec DEF Contents
    <3>3. [cache EXCEPT !.buf[sy.cur].data = d] \in CacheRec
      BY <2>1, <3>2, DataType
    <3>4. cache' \in CacheRec
      BY <2>1, <3>1, <3>3, ObjWriteType, BfreeType DEF SyFree
    <3>5. sy' = [sy EXCEPT !.pc = "scan", !.cur = NULL, !.wobj = 1, !.wblk = 0]
      BY <1>7, <2>3 DEF SyWriteEnd
    <3>6. sy' \in SyT /\ sy'.pc = "scan"
      BY <3>5, ConstantTypes DEF SyPcs
    <3> QED
      BY <1>7, <2>3, <3>4, <3>6 DEF SyWriteEnd
  <2> QED
    BY <2>2, <2>3
<1> QED
  BY <1>1, <1>2, <1>3, <1>4, <1>5, <1>6, <1>7 DEF SyncerStep

LEMMA HeldType ==
  ASSUME TypeInv, NEW p \in Procs
  PROVE  HeldBy(p) \subseteq Bufs
BY DEF HeldBy, TypeInv, TypeOK

LEMMA BrefType ==
  ASSUME TypeInv, NEW p \in Procs, NEW o \in Objs, NEW k \in Blks, NEW m \in 0..3,
         BrefHit(p, o, k, m) \/ BrefMiss(p, o, k, m)
  PROVE  TypeInv'
<1>1. CASE BrefHit(p, o, k, m)
  <2>1. PICK i \in Matches(cache, o, k) :
          Return(p, Blookup(cache, o, cache.objbufs[o][i]), cache.objbufs[o][i])
    BY <1>1 DEF BrefHit
  <2> DEFINE b == cache.objbufs[o][i]
  <2>2. cache \in CacheRec /\ cache.objbufs[o] \in Seq(Bufs) /\ i \in DOMAIN cache.objbufs[o]
    BY DEF Matches, TypeInv, TypeOK, CacheRec
  <2>3. b \in Bufs
    BY <2>2, LenProperties
  <2> HIDE DEF b
  <2>4. Blookup(cache, o, b) \in CacheRec
    BY <2>2, <2>3, BlookupType
  <2> QED
    BY <1>1, <2>1, <2>3, <2>4, ReturnType DEF BrefHit, b
<1>2. CASE BrefMiss(p, o, k, m)
  <2>1. CASE cache.unused # <<>>
    BY <1>2, <2>1, BcreateType DEF BrefMiss
  <2>2. CASE cache.unused = <<>>
    <3> DEFINE r == [NoCall EXCEPT !.pc = "alloc", !.obj = o, !.blk = k, !.mode = m]
    <3>1. r \in ProcRec /\ r.pc = "alloc"
      BY NoCallType DEF NoCall, ProcRec, ProcPcs
    <3> HIDE DEF r
    <3>2. proc' = [proc EXCEPT ![p] = r]
      BY <1>2, <2>2 DEF BrefMiss, r
    <3>3. proc' \in [Procs -> ProcRec] /\ HasBuffer'
      BY <1>2, <3>1, <3>2 DEF BrefMiss, TypeInv, TypeOK, HasBuffer, ProcRec
    <3> QED
      BY <1>2, <2>2, <3>3 DEF BrefMiss, TypeInv, TypeOK, ProcRec
  <2> QED
    BY <2>1, <2>2
<1> QED
  BY <1>1, <1>2

\* Steps that only move the program counter of a process.
LEMMA MoveType ==
  ASSUME TypeInv, NEW p \in Procs, NEW pc \in ProcPcs, Goto(p, pc),
         UNCHANGED <<cache, table, sy, restart>>, cpu' \in {cpu, p, Idle},
         pc \in {"data", "read", "readclean", "write", "writeclean"} => proc[p].buf \in Bufs
  PROVE  TypeInv'
<1>1. proc' \in [Procs -> ProcRec] /\ HasBuffer'
  BY GotoType
<1> QED
  BY <1>1 DEF TypeInv, TypeOK, ProcRec

LEMMA KernelType ==
  ASSUME TypeInv, NEW p \in Procs, KernelStep(p)
  PROVE  TypeInv'
<1> DEFINE b == proc[p].buf
<1>0. cache \in CacheRec /\ proc[p] \in ProcRec
  BY DEF TypeInv, TypeOK, ProcRec
<1>1. CASE AllocEnd(p)
  BY <1>0, <1>1, BcreateType, FailType DEF AllocEnd, ProcRec
<1>2. CASE DataEnd(p)
  <2>1. b \in Bufs
    BY <1>2 DEF DataEnd, TypeInv, HasBuffer
  <2>2. Untake(cache, b) \in CacheRec
    BY <1>0, <2>1, UntakeType
  <2> QED
    BY <1>0, <1>2, <2>1, <2>2, LinkAndReadType, FailType DEF DataEnd
<1>3. CASE ReadEnd(p)
  <2>1. b \in Bufs
    BY <1>3 DEF ReadEnd, TypeInv, HasBuffer
  <2>2. Unlock(ObjRead(cache, b), b) \in CacheRec
    BY <1>0, <2>1, ObjReadType, UnlockType
  <2>3. CASE Return(p, Unlock(ObjRead(cache, b), b), b)
    BY <1>3, <2>1, <2>2, <2>3, ReturnType DEF ReadEnd
  <2>4. CASE Goto(p, "read") /\ cpu' = Idle /\ UNCHANGED <<cache, table>>
    BY <1>3, <2>1, <2>4, MoveType DEF ReadEnd, ProcPcs
  <2> QED
    BY <1>3, <2>3, <2>4 DEF ReadEnd
<1>4. CASE WriteEnd(p)
  <2>1. b \in Bufs /\ cache.buf[b].obj \in Objs /\ cache.buf[b].blk \in Blks
    BY <1>0, <1>4, BufIsRec DEF WriteEnd, TypeInv, HasBuffer
  <2>2. ObjWrite(cache, b, cache.buf[b].obj, cache.buf[b].blk) \in CacheRec
    BY <1>0, <2>1, ObjWriteType
  <2>3. CASE Goto(p, "write") /\ cpu' = Idle /\ UNCHANGED <<cache, table, sy, restart>>
    BY <1>4, <2>1, <2>3, MoveType DEF ProcPcs
  <2> DEFINE c == ObjWrite(cache, b, cache.buf[b].obj, cache.buf[b].blk)
  <2>4. \/ Fail(p, c) /\ UNCHANGED <<sy, restart>>
        \/ Bunrefp(p, c, b)
        \/ Goto(p, "write") /\ cpu' = Idle /\ UNCHANGED <<cache, table, sy, restart>>
    BY <1>4 DEF WriteEnd
  <2> HIDE DEF c
  <2>5. c \in CacheRec
    BY <2>2 DEF c
  <2> QED
    BY <1>4, <2>1, <2>3, <2>4, <2>5, FailType, BunrefpType DEF WriteEnd
<1>5. CASE ForgetEnd(p)
  BY <1>0, <1>5, FailType DEF ForgetEnd
<1> QED
  BY <1>1, <1>2, <1>3, <1>4, <1>5 DEF KernelStep

LEMMA WriteWaitsType ==
  ASSUME TypeInv, NEW p \in Procs, NEW b \in Bufs, NEW m \in 0..3, WriteWaits(p, b, m)
  PROVE  TypeInv'
<1> DEFINE r == [NoCall EXCEPT !.pc = "writeclean", !.mode = m, !.buf = b]
<1>1. r \in ProcRec /\ r.buf = b
  BY NoCallType DEF NoCall, ProcRec, ProcPcs
<1> HIDE DEF r
<1>2. proc' = [proc EXCEPT ![p] = r]
  BY DEF WriteWaits, r
<1>3. proc' \in [Procs -> ProcRec] /\ HasBuffer'
  BY <1>1, <1>2 DEF WriteWaits, TypeInv, TypeOK, HasBuffer, ProcRec
<1>4. cache' \in CacheRec
  BY BdirtyType DEF WriteWaits, TypeInv, TypeOK
<1> QED
  BY <1>3, <1>4 DEF WriteWaits, TypeInv, TypeOK, ProcRec

LEMMA UserBufType ==
  ASSUME TypeInv, NEW p \in Procs, NEW b \in Bufs,
         Bunref(p, b) \/ StoreDirty(p, b) \/ Bdunref(p, b) \/ Bwrite(p, b) \/ Bsend(p, b)
  PROVE  TypeInv'
<1>0. cache \in CacheRec /\ cache.buf[b].obj \in Objs /\ cache.buf[b].blk \in Blks
  BY BufIsRec DEF TypeInv, TypeOK
<1> DEFINE m == Bdirty(Modify(cache, b), b)
           w == Written(cache, b)
<1>1. MayModify(b) => m \in CacheRec
  BY <1>0, ModifyType, BdirtyType DEF MayModify
<1>2. BwriteClean(cache, b) \in CacheRec
  BY <1>0, BdirtyType
<1>3. w \in CacheRec
  BY <1>0, <1>2, ObjWriteType DEF Written
<1> HIDE DEF m, w
<1>4. CASE Bunref(p, b)
  BY <1>0, <1>4, BunrefpType DEF Bunref
<1>5. CASE StoreDirty(p, b)
  BY <1>1, <1>5 DEF StoreDirty, TypeInv, TypeOK, HasBuffer, m
<1>6. CASE Bdunref(p, b)
  BY <1>1, <1>6, BunrefpType DEF Bdunref, m
<1>7. CASE Bsend(p, b)
  BY <1>3, <1>7, BunrefpType, WriteWaitsType DEF Bsend, w
<1>8. CASE Bwrite(p, b)
  BY <1>3, <1>8, WriteWaitsType DEF Bwrite, TypeInv, TypeOK, HasBuffer, w
<1> QED
  BY <1>4, <1>5, <1>6, <1>7, <1>8

LEMMA UserType ==
  ASSUME TypeInv, NEW p \in Procs, UserStep(p)
  PROVE  TypeInv'
<1>0. cache \in CacheRec /\ proc[p] \in ProcRec
  BY DEF TypeInv, TypeOK, ProcRec
<1>1. CASE \E o \in Objs, k \in Blks, m \in 0..3 : BrefHit(p, o, k, m) \/ BrefMiss(p, o, k, m)
  BY <1>1, BrefType
<1>2. CASE \E b \in Bufs : Bunref(p, b) \/ StoreDirty(p, b) \/ Bdunref(p, b)
                           \/ Bwrite(p, b) \/ Bsend(p, b)
  BY <1>2, UserBufType
<1>3. CASE ReadResume(p)
  <2> DEFINE b == proc[p].buf
  <2>1. b \in Bufs
    BY <1>3 DEF ReadResume, TypeInv, HasBuffer
  <2>2. Unlock(ObjRead(cache, b), b) \in CacheRec
    BY <1>0, <2>1, ObjReadType, UnlockType
  <2>3. CASE IsStream(cache.buf[b].obj)
    BY <1>3, <2>1, <2>2, <2>3, ReturnType DEF ReadResume
  <2>4. CASE ~IsStream(cache.buf[b].obj)
    BY <1>3, <2>1, <2>4, MoveType DEF ReadResume, ProcPcs
  <2> QED
    BY <2>3, <2>4
<1>4. CASE WriteResume(p)
  <2>1. proc[p].buf \in Bufs
    BY <1>4 DEF WriteResume, TypeInv, HasBuffer
  <2> QED
    BY <1>4, <2>1, MoveType DEF WriteResume, ProcPcs
<1>5. CASE Forget(p)
  BY <1>5, MoveType DEF Forget, ProcPcs
<1>6. CASE ExitBegin(p)
  BY <1>6, MoveType DEF ExitBegin, ProcPcs
<1>7. CASE ExitStep(p)
  <2>1. PICK s \in Slots : table[p][s] # NULL /\ Bunrefp(p, cache, table[p][s])
    BY <1>7 DEF ExitStep
  <2>2. table[p][s] \in Bufs
    BY <2>1 DEF TypeInv, TypeOK
  <2> QED
    BY <1>0, <2>1, <2>2, BunrefpType
<1>8. CASE ExitEnd(p)
  BY <1>8, MoveType DEF ExitEnd, ProcPcs
<1>9. CASE Spawn(p)
  BY <1>9, MoveType DEF Spawn, ProcPcs
<1> QED
  BY <1>1, <1>2, <1>3, <1>4, <1>5, <1>6, <1>7, <1>8, <1>9 DEF UserStep

LEMMA CleanupType ==
  ASSUME TypeInv, CleanupStep
  PROVE  TypeInv'
<1>0. PICK o \in Objs : \E i \in Victims(cache, o) : cache' = Bfree(cache, cache.objbufs[o][i])
  BY DEF CleanupStep
<1>1. PICK i \in Victims(cache, o) : cache' = Bfree(cache, cache.objbufs[o][i])
  BY <1>0
<1>2. cache \in CacheRec /\ cache.objbufs[o] \in Seq(Bufs) /\ i \in DOMAIN cache.objbufs[o]
  BY DEF Victims, TypeInv, TypeOK, CacheRec
<1>3. cache.objbufs[o][i] \in Bufs
  BY <1>2, LenProperties
<1>4. cache' \in CacheRec
  BY <1>1, <1>2, <1>3, BfreeType
<1> QED
  BY <1>4 DEF CleanupStep, TypeInv, TypeOK, HasBuffer

LEMMA InitType == Init => TypeInv
<1> SUFFICES ASSUME Init PROVE TypeInv
  OBVIOUS
<1>1. /\ 0 \in 0..RefMod-1 /\ 0 \in 0..Line /\ 1 \in 0..Line /\ 0 \in 0..NumBlks
      /\ InitSize \in 0..NumBlks /\ 1 \in Objs /\ 0 \in Blks
  BY BufCacheAssumption, ConstantTypes
<1>2. cache.unused \in Seq(Bufs)
  BY ConstantTypes, IsASeq DEF Init, Bufs
<1>3. cache.objbufs \in [Objs -> Seq(Bufs)]
  BY EmptySeq DEF Init
<1>4. cache.buf \in [Bufs -> BufRec]
  BY <1>1 DEF Init, BufRec
<1>5. cache.disk \in [Objs -> [Blks -> 0..Line]] /\ cache.size \in [Objs -> 0..NumBlks]
      /\ cache.dirtybufs \in [Objs -> Int]
  BY <1>1 DEF Init
<1>6. cache \in CacheRec
  BY <1>2, <1>3, <1>4, <1>5 DEF Init, CacheRec
<1> QED
  BY <1>1, <1>6, NoCallType
     DEF Init, TypeInv, TypeOK, HasBuffer, ProcRec, NoCall, SyPcs

LEMMA NextType == TypeInv /\ [Next]_vars => TypeInv'
<1> SUFFICES ASSUME TypeInv, [Next]_vars PROVE TypeInv'
  OBVIOUS
<1>1. CASE \E p \in Procs : KernelStep(p) \/ UserStep(p)
  BY <1>1, KernelType, UserType
<1>2. CASE CleanupStep
  BY <1>2, CleanupType
<1>3. CASE SyncerStep
  BY <1>3, SyncerType
<1>4. CASE UNCHANGED vars
  BY <1>4 DEF vars, TypeInv, TypeOK, HasBuffer
<1> QED
  BY <1>1, <1>2, <1>3, <1>4 DEF Next

\* No step of a client, of the clean-up loop or of the syncer leaves a variable
\* outside its declared range: in particular no list ever names something that
\* is not a descriptor, and a suspended operation always has its buffer.
THEOREM TypeCorrect == Spec => []TypeOK
<1>1. TypeInv => TypeOK
  BY DEF TypeInv
<1> QED
  BY <1>1, InitType, NextType, PTL DEF Spec

-----------------------------------------------------------------------------
(* Effects: what each operation does to the lists, to the descriptors and    *)
(* to the set of users of a buffer.                                          *)

-----------------------------------------------------------------------------
(* Lists: what the operations on a list without repetition do to the set of  *)
(* its members.                                                             *)

LEMMA RangeIs ==
  ASSUME NEW l \in Seq(Bufs)
  PROVE  /\ Len(l) \in Nat /\ DOMAIN l = 1..Len(l)
         /\ \A i \in 1..Len(l) : l[i] \in Bufs /\ l[i] \in Range(l)
         /\ \A x : x \in Range(l) <=> \E i \in 1..Len(l) : l[i] = x
         /\ Range(l) \subseteq Bufs
BY LenProperties DEF Range

LEMMA AppendRange ==
  ASSUME NEW l \in Seq(Bufs), IsInjective(l), NEW b \in Bufs, b \notin Range(l)
  PROVE  /\ Append(l, b) \in Seq(Bufs) /\ IsInjective(Append(l, b))
         /\ Range(Append(l, b)) = Range(l) \cup {b}
<1> DEFINE m == Append(l, b)
<1>1. /\ m \in Seq(Bufs) /\ Len(m) = Len(l) + 1 /\ m[Len(l) + 1] = b
      /\ \A i \in 1..Len(l) : m[i] = l[i]
  BY AppendProperties
<1> HIDE DEF m
<1>2. \A i, j \in 1..Len(m) : m[i] = m[j] => i = j
  BY <1>1, RangeIs DEF IsInjective
<1>3. IsInjective(m)
  BY <1>1, <1>2, RangeIs DEF IsInjective
<1>4. \A x : x \in Range(m) <=> x \in Range(l) \/ x = b
  <2>1. Len(l) \in Nat /\ Len(m) = Len(l) + 1
    BY <1>1, RangeIs
  <2>2. \A i : i \in 1..Len(m) <=> i \in 1..Len(l) \/ i = Len(l) + 1
    BY <2>1
  <2>3. \A x : x \in Range(m) <=> \E i \in 1..Len(m) : m[i] = x
    BY <1>1, RangeIs
  <2>4. \A x : x \in Range(l) <=> \E i \in 1..Len(l) : l[i] = x
    BY RangeIs
  <2> QED
    BY <1>1, <2>2, <2>3, <2>4
<1> QED
  BY <1>1, <1>3, <1>4 DEF m

LEMMA FrontRange ==
  ASSUME NEW l \in Seq(Bufs), IsInjective(l), l # <<>>
  PROVE  /\ Front(l) \in Seq(Bufs) /\ IsInjective(Front(l))
         /\ Range(Front(l)) = Range(l) \ {Last(l)} /\ Last(l) \in Range(l)
<1> DEFINE f == Front(l)
<1>1. /\ Len(l) \in Nat \ {0} /\ f \in Seq(Bufs) /\ Len(f) = Len(l) - 1
      /\ \A i \in 1..Len(l)-1 : f[i] = l[i]
  <2>1. Len(l) \in Nat \ {0} /\ \A i \in 1..Len(l) : l[i] \in Bufs
    BY EmptySeq, LenProperties
  <2>2. 1 \in 1..Len(l)+1 /\ Len(l)-1 \in 0..Len(l)
    BY <2>1
  <2>3. f = SubSeq(l, 1, Len(l)-1)
    BY DEF Front
  <2>4. f \in Seq(Bufs)
    BY FrontLastType
  <2> HIDE DEF f
  <2> DEFINE n == Len(l)-1
  <2>5. n \in Nat /\ \A i \in 1..n : l[i] \in Bufs
    BY <2>1
  <2>6. f = SubSeq(l, 1, n)
    BY <2>3
  <2> HIDE DEF n
  <2>7. Len(f) = (IF 1 <= n THEN n-1+1 ELSE 0) /\ \A i \in 1..n-1+1 : f[i] = l[1+i-1]
    BY <2>5, <2>6, SubSeqProperties
  <2>8. Len(f) = n /\ \A i \in 1..n : f[i] = l[i]
    BY <2>5, <2>7
  <2> QED
    BY <2>1, <2>4, <2>8 DEF n
<1>2. Last(l) = l[Len(l)]
  BY DEF Last
<1> HIDE DEF f
<1>3. IsInjective(f)
  <2>1. \A i, j \in 1..Len(l) : l[i] = l[j] => i = j
    BY RangeIs DEF IsInjective
  <2>2. \A i \in 1..Len(f) : i \in 1..Len(l) /\ f[i] = l[i]
    BY <1>1
  <2> QED
    BY <1>1, <2>1, <2>2, RangeIs DEF IsInjective
<1>4. \A x : x \in Range(f) <=> x \in Range(l) /\ x # Last(l)
  <2>1. \A i, j \in 1..Len(l) : l[i] = l[j] => i = j
    BY RangeIs DEF IsInjective
  <2>2. \A i : i \in 1..Len(f) <=> i \in 1..Len(l) /\ i # Len(l)
    BY <1>1
  <2>3. \A x : x \in Range(f) <=> \E i \in 1..Len(f) : f[i] = x
    BY <1>1, RangeIs
  <2>4. \A x : x \in Range(l) <=> \E i \in 1..Len(l) : l[i] = x
    BY RangeIs
  <2>5. Len(l) \in 1..Len(l)
    BY <1>1
  <2> QED
    BY <1>1, <1>2, <2>1, <2>2, <2>3, <2>4, <2>5
<1> QED
  BY <1>1, <1>2, <1>3, <1>4, RangeIs DEF f

\* Taking element k off a list moves the later ones up.
LEMMA WithoutAt ==
  ASSUME NEW l \in Seq(Bufs), IsInjective(l), NEW k \in 1..Len(l)
  PROVE  LET m == Without(l, l[k]) IN
         /\ m \in Seq(Bufs) /\ Len(m) = Len(l)-1
         /\ \A i \in 1..Len(m) : m[i] = IF i < k THEN l[i] ELSE l[i+1]
<1> DEFINE m == RemoveAt(l, k)
           s == SubSeq(l, 1, k-1)
           t == SubSeq(l, k+1, Len(l))
<1>0. Without(l, l[k]) = m
  <2>1. l[k] \in Range(l) /\ k \in DOMAIN l
    BY RangeIs
  <2>2. (CHOOSE i \in DOMAIN l : l[i] = l[k]) = k
    BY <2>1 DEF IsInjective
  <2> QED
    BY <2>1, <2>2 DEF Without
<1>1. k \in 1..Len(l) /\ Len(l) \in Nat
  BY RangeIs
<1>2. s \in Seq(Bufs) /\ Len(s) = k-1 /\ \A i \in 1..k-1 : s[i] = l[i]
  BY <1>1, SubSeqProperties, RangeIs
<1>3. t \in Seq(Bufs) /\ Len(t) = Len(l)-k /\ \A i \in 1..Len(l)-k : t[i] = l[k+i]
  BY <1>1, SubSeqProperties, RangeIs
<1>4. m = s \o t
  BY DEF RemoveAt
<1> HIDE DEF m, s, t
<1>5. /\ m \in Seq(Bufs) /\ Len(m) = Len(l)-1
      /\ \A i \in 1..Len(m) : m[i] = IF i < k THEN l[i] ELSE l[i+1]
  <2>1. Len(s) \in Nat /\ Len(t) \in Nat /\ k-1 + (Len(l)-k) = Len(l)-1
    BY <1>1, <1>2, <1>3
  <2>2. /\ m \in Seq(Bufs) /\ Len(m) = Len(s) + Len(t)
        /\ \A i \in 1..Len(m) : m[i] = IF i <= Len(s) THEN s[i] ELSE t[i - Len(s)]
    BY <1>2, <1>3, <1>4, ConcatProperties
  <2>3. ASSUME NEW i \in 1..Len(m) PROVE m[i] = IF i < k THEN l[i] ELSE l[i+1]
    <3>1. CASE i < k
      <4>1. i \in 1..k-1 /\ i <= Len(s)
        BY <1>1, <1>2, <2>2, <3>1
      <4> QED
        BY <1>2, <2>2, <3>1, <4>1
    <3>2. CASE ~(i < k)
      <4>1. i - Len(s) \in 1..Len(l)-k /\ ~(i <= Len(s)) /\ k + (i - Len(s)) = i + 1
        BY <1>1, <1>2, <1>3, <2>2, <3>2
      <4> QED
        BY <1>3, <2>2, <3>2, <4>1
    <3> QED
      BY <3>1, <3>2
  <2> QED
    BY <1>2, <1>3, <2>1, <2>2, <2>3
<1> QED
  BY <1>0, <1>5

LEMMA WithoutRange ==
  ASSUME NEW l \in Seq(Bufs), IsInjective(l), NEW b
  PROVE  /\ Without(l, b) \in Seq(Bufs) /\ IsInjective(Without(l, b))
         /\ Range(Without(l, b)) = Range(l) \ {b}
<1>1. CASE b \notin Range(l)
  BY <1>1 DEF Without
<1>2. CASE b \in Range(l)
  <2> DEFINE m == Without(l, b)
  <2>1. PICK k \in 1..Len(l) : l[k] = b
    BY <1>2, RangeIs
  <2>2. /\ m \in Seq(Bufs) /\ Len(m) = Len(l)-1 /\ Len(l) \in Nat
        /\ \A i \in 1..Len(m) : m[i] = IF i < k THEN l[i] ELSE l[i+1]
    BY <2>1, WithoutAt, RangeIs
  <2> HIDE DEF m
  <2>3. \A i, j \in 1..Len(l) : l[i] = l[j] => i = j
    BY RangeIs DEF IsInjective
  <2>4. IsInjective(m)
    <3>1. \A i, j \in 1..Len(m) : m[i] = m[j] => i = j
      BY <2>1, <2>2, <2>3
    <3> QED
      BY <2>2, <3>1, RangeIs DEF IsInjective
  <2>5. ASSUME NEW x PROVE x \in Range(m) <=> x \in Range(l) /\ x # b
    <3>1. ASSUME x \in Range(m) PROVE x \in Range(l) /\ x # b
      <4>1. PICK i \in 1..Len(m) : m[i] = x
        BY <2>2, <3>1, RangeIs
      <4>2. PICK j \in 1..Len(l) : x = l[j] /\ j # k
        BY <2>1, <2>2, <4>1
      <4> QED
        BY <2>1, <2>3, <4>2, RangeIs
    <3>2. ASSUME x \in Range(l), x # b PROVE x \in Range(m)
      <4>1. PICK j \in 1..Len(l) : l[j] = x
        BY <3>2, RangeIs
      <4>2. j # k
        BY <2>1, <3>2, <4>1
      <4>3. PICK i \in 1..Len(m) : m[i] = x
        <5>1. CASE j < k
          BY <2>1, <2>2, <4>1, <5>1
        <5>2. CASE j > k
          <6>1. j-1 \in 1..Len(m) /\ ~(j-1 < k) /\ (j-1)+1 = j
            BY <2>1, <2>2, <4>1, <5>2
          <6>2. m[j-1] = l[(j-1)+1]
            BY <2>2, <6>1
          <6> QED
            BY <4>1, <6>1, <6>2
        <5> QED
          BY <2>1, <4>1, <4>2, <5>1, <5>2
      <4> QED
        BY <2>2, <4>3, RangeIs
    <3> QED
      BY <3>1, <3>2
  <2> QED
    BY <2>2, <2>4, <2>5 DEF m
<1> QED
  BY <1>1, <1>2

LEMMA PushFrontRange ==
  ASSUME NEW l \in Seq(Bufs), IsInjective(l), NEW b \in Bufs, b \notin Range(l)
  PROVE  /\ <<b>> \o l \in Seq(Bufs) /\ IsInjective(<<b>> \o l)
         /\ Range(<<b>> \o l) = Range(l) \cup {b}
<1> DEFINE m == <<b>> \o l
<1>1. /\ m \in Seq(Bufs) /\ Len(m) = Len(l) + 1 /\ Len(l) \in Nat
      /\ \A i \in 1..Len(m) : m[i] = IF i = 1 THEN b ELSE l[i-1]
  BY ConcatProperties, RangeIs
<1> HIDE DEF m
<1>2. \A i, j \in 1..Len(l) : l[i] = l[j] => i = j
  BY RangeIs DEF IsInjective
<1>3. \A i \in 1..Len(l) : l[i] # b
  BY RangeIs
<1>4. IsInjective(m)
  <2>1. \A i \in 1..Len(m) : i # 1 => i-1 \in 1..Len(l)
    BY <1>1
  <2>2. ASSUME NEW i \in 1..Len(m), NEW j \in 1..Len(m), m[i] = m[j] PROVE i = j
    <3>1. CASE i = 1 \/ j = 1
      BY <1>1, <1>3, <2>1, <2>2, <3>1
    <3>2. CASE i # 1 /\ j # 1
      <4>1. i-1 = j-1
        BY <1>1, <1>2, <2>1, <2>2, <3>2, SMTT(60)
      <4> QED
        BY <1>1, <4>1
    <3> QED
      BY <3>1, <3>2
  <2> QED
    BY <1>1, <2>2, RangeIs DEF IsInjective
<1>5. ASSUME NEW x PROVE x \in Range(m) <=> x \in Range(l) \/ x = b
  <2>1. 1 \in 1..Len(m) /\ m[1] = b
    BY <1>1
  <2>2. \A j \in 1..Len(l) : j+1 \in 1..Len(m) /\ m[j+1] = l[j]
    BY <1>1
  <2>3. \A i \in 1..Len(m) : i = 1 \/ i-1 \in 1..Len(l)
    BY <1>1
  <2>4. \A i \in 1..Len(m) : m[i] = b \/ \E j \in 1..Len(l) : m[i] = l[j]
    BY <1>1, <2>3
  <2>5. x \in Range(m) <=> \E i \in 1..Len(m) : m[i] = x
    BY <1>1, RangeIs
  <2>6. x \in Range(l) <=> \E i \in 1..Len(l) : l[i] = x
    BY RangeIs
  <2> QED
    BY <2>1, <2>2, <2>4, <2>5, <2>6
<1> QED
  BY <1>1, <1>4, <1>5 DEF m

-----------------------------------------------------------------------------
(* What the operations on the cache record do to the lists and to the        *)
(* descriptors.                                                             *)

NoRepeats(c) == IsInjective(c.unused) /\ \A o \in Objs : IsInjective(c.objbufs[o])
On(c, o) == Range(c.objbufs[o])

LEMMA CacheParts ==
  ASSUME NEW c \in CacheRec
  PROVE  /\ c.unused \in Seq(Bufs) /\ c.objbufs \in [Objs -> Seq(Bufs)]
         /\ c.buf \in [Bufs -> BufRec] /\ c.dirtybufs \in [Objs -> Int]
         /\ \A o \in Objs : c.objbufs[o] \in Seq(Bufs) /\ On(c, o) \subseteq Bufs
         /\ Range(c.unused) \subseteq Bufs
BY RangeIs DEF CacheRec, On

LEMMA BfreeEffect ==
  ASSUME NEW c \in CacheRec, NoRepeats(c), NEW b \in Bufs, b \notin Range(c.unused)
  PROVE  LET d == Bfree(c, b) IN
         /\ d \in CacheRec /\ NoRepeats(d) /\ d.buf = c.buf
         /\ Range(d.unused) = Range(c.unused) \cup {b}
         /\ \A o \in Objs : On(d, o) = IF o = c.buf[b].obj THEN On(c, o) \ {b} ELSE On(c, o)
<1> DEFINE d == Bfree(c, b)
           o == c.buf[b].obj
<1>1. /\ d.buf = c.buf /\ d.unused = Append(c.unused, b)
      /\ d.objbufs = [c.objbufs EXCEPT ![o] = Without(c.objbufs[o], b)]
  BY DEF Bfree, CacheRec
<1>2. d \in CacheRec /\ o \in Objs
  BY BfreeType, BufIsRec
<1> HIDE DEF d, o
<1>3. IsInjective(d.unused) /\ Range(d.unused) = Range(c.unused) \cup {b}
  BY <1>1, CacheParts, AppendRange DEF NoRepeats
<1>4. ASSUME NEW n \in Objs
      PROVE  IsInjective(d.objbufs[n]) /\ On(d, n) = IF n = o THEN On(c, n) \ {b} ELSE On(c, n)
  <2>1. d.objbufs[n] = IF n = o THEN Without(c.objbufs[n], b) ELSE c.objbufs[n]
    BY <1>1, <1>2, CacheParts
  <2>2. c.objbufs[n] \in Seq(Bufs) /\ IsInjective(c.objbufs[n])
    BY CacheParts DEF NoRepeats
  <2> QED
    BY <2>1, <2>2, WithoutRange DEF On
<1> QED
  BY <1>1, <1>2, <1>3, <1>4 DEF NoRepeats, d, o

LEMMA TakeEffect ==
  ASSUME NEW c \in CacheRec, NoRepeats(c), c.unused # <<>>, NEW o \in Objs, NEW k \in Blks
  PROVE  LET d == Take(c, o, k)
             b == Last(c.unused)
         IN /\ d \in CacheRec /\ NoRepeats(d) /\ b \in Bufs /\ b \in Range(c.unused)
            /\ Range(d.unused) = Range(c.unused) \ {b} /\ d.objbufs = c.objbufs
            /\ \A x \in Bufs \ {b} : d.buf[x] = c.buf[x]
            /\ d.buf[b].obj = o /\ d.buf[b].refcnt = 1 /\ d.buf[b].dirty = FALSE
            /\ d.buf[b].fresh = FALSE /\ d.buf[b].lock = c.buf[b].lock /\ d.buf[b].data = 0
<1> DEFINE d == Take(c, o, k)
           b == Last(c.unused)
           r == [obj |-> o, blk |-> k, refcnt |-> 1, dirty |-> FALSE,
                 fresh |-> FALSE, lock |-> c.buf[b].lock, data |-> 0]
<1>1. d.unused = Front(c.unused) /\ d.objbufs = c.objbufs /\ d.buf = [c.buf EXCEPT ![b] = r]
  BY DEF Take, CacheRec
<1>2. d \in CacheRec /\ b \in Bufs
  BY TakeType
<1> HIDE DEF d, b
<1>3. IsInjective(d.unused) /\ Range(d.unused) = Range(c.unused) \ {b} /\ b \in Range(c.unused)
  BY <1>1, CacheParts, FrontRange DEF NoRepeats, b
<1>4. d.buf[b] = r /\ \A x \in Bufs \ {b} : d.buf[x] = c.buf[x]
  BY <1>1, <1>2, CacheParts
<1>5. NoRepeats(d)
  BY <1>1, <1>3 DEF NoRepeats
<1> QED
  BY <1>1, <1>2, <1>3, <1>4, <1>5 DEF d, b

LEMMA UntakeEffect ==
  ASSUME NEW c \in CacheRec, NoRepeats(c), NEW b \in Bufs, b \notin Range(c.unused)
  PROVE  LET d == Untake(c, b) IN
         /\ d \in CacheRec /\ NoRepeats(d) /\ d.buf = c.buf /\ d.objbufs = c.objbufs
         /\ Range(d.unused) = Range(c.unused) \cup {b}
<1> DEFINE d == Untake(c, b)
<1>1. d.buf = c.buf /\ d.objbufs = c.objbufs /\ d.unused = Append(c.unused, b)
  BY DEF Untake, CacheRec
<1>2. d \in CacheRec
  BY UntakeType
<1> HIDE DEF d
<1>3. IsInjective(d.unused) /\ Range(d.unused) = Range(c.unused) \cup {b}
  BY <1>1, CacheParts, AppendRange DEF NoRepeats
<1> QED
  BY <1>1, <1>2, <1>3 DEF NoRepeats, d

LEMMA LinkEffect ==
  ASSUME NEW c \in CacheRec, NoRepeats(c), NEW b \in Bufs, b \notin On(c, c.buf[b].obj)
  PROVE  LET d == Link(c, b) IN
         /\ d \in CacheRec /\ NoRepeats(d) /\ d.unused = c.unused
         /\ \A o \in Objs : On(d, o) = IF o = c.buf[b].obj THEN On(c, o) \cup {b} ELSE On(c, o)
         /\ \A x \in Bufs \ {b} : d.buf[x] = c.buf[x]
         /\ d.buf[b] = [c.buf[b] EXCEPT !.lock = c.buf[b].lock + 1]
<1> DEFINE d == Link(c, b)
           o == c.buf[b].obj
<1>1. /\ d.unused = c.unused /\ d.objbufs = [c.objbufs EXCEPT ![o] = Append(c.objbufs[o], b)]
      /\ d.buf = [c.buf EXCEPT ![b] = [c.buf[b] EXCEPT !.lock = c.buf[b].lock + 1]]
  BY DEF Link, CacheRec
<1>2. d \in CacheRec /\ o \in Objs
  BY LinkType, BufIsRec
<1> HIDE DEF d, o
<1>3. ASSUME NEW n \in Objs
      PROVE  IsInjective(d.objbufs[n]) /\ On(d, n) = IF n = o THEN On(c, n) \cup {b} ELSE On(c, n)
  <2>1. d.objbufs[n] = IF n = o THEN Append(c.objbufs[n], b) ELSE c.objbufs[n]
    BY <1>1, <1>2, CacheParts
  <2>2. c.objbufs[n] \in Seq(Bufs) /\ IsInjective(c.objbufs[n])
    BY CacheParts DEF NoRepeats
  <2>3. n = o => b \notin Range(c.objbufs[n])
    BY DEF On, o
  <2> QED
    BY <2>1, <2>2, <2>3, AppendRange DEF On
<1>4. \A x \in Bufs \ {b} : d.buf[x] = c.buf[x]
  BY <1>1, CacheParts
<1>5. d.buf[b] = [c.buf[b] EXCEPT !.lock = c.buf[b].lock + 1]
  BY <1>1, CacheParts
<1> QED
  BY <1>1, <1>2, <1>3, <1>4, <1>5 DEF NoRepeats, d, o

\* Operations that leave the lists alone.
SameLists(c, d) == d.unused = c.unused /\ d.objbufs = c.objbufs
SameOthers(c, d, b) == \A x \in Bufs \ {b} : d.buf[x] = c.buf[x]

LEMMA RefEffect ==
  ASSUME NEW c \in CacheRec, NEW b \in Bufs
  PROVE  /\ Ref(c, b) \in CacheRec /\ SameLists(c, Ref(c, b)) /\ SameOthers(c, Ref(c, b), b)
         /\ Ref(c, b).buf[b] = [c.buf[b] EXCEPT !.refcnt = (c.buf[b].refcnt + 1) % RefMod]
         /\ Unref(c, b) \in CacheRec /\ SameLists(c, Unref(c, b)) /\ SameOthers(c, Unref(c, b), b)
         /\ Unref(c, b).buf[b]
              = [c.buf[b] EXCEPT !.refcnt = (c.buf[b].refcnt + RefMod - 1) % RefMod]
<1>1. /\ Ref(c, b).buf = [c.buf EXCEPT ![b] =
           [c.buf[b] EXCEPT !.refcnt = (c.buf[b].refcnt + 1) % RefMod]]
      /\ Unref(c, b).buf = [c.buf EXCEPT ![b] =
           [c.buf[b] EXCEPT !.refcnt = (c.buf[b].refcnt + RefMod - 1) % RefMod]]
  BY DEF Ref, Unref, CacheRec
<1>2. SameLists(c, Ref(c, b)) /\ SameLists(c, Unref(c, b))
  BY DEF Ref, Unref, CacheRec, SameLists
<1>3. SameOthers(c, Ref(c, b), b) /\ SameOthers(c, Unref(c, b), b)
  BY <1>1, CacheParts DEF SameOthers
<1> QED
  BY <1>1, <1>2, <1>3, CacheParts, RefType

LEMMA UnlockEffect ==
  ASSUME NEW c \in CacheRec, NEW b \in Bufs
  PROVE  /\ Unlock(c, b) \in CacheRec /\ SameLists(c, Unlock(c, b))
         /\ SameOthers(c, Unlock(c, b), b)
         /\ Unlock(c, b).buf[b] = [c.buf[b] EXCEPT !.lock = c.buf[b].lock - 1]
<1>1. Unlock(c, b).buf = [c.buf EXCEPT ![b] = [c.buf[b] EXCEPT !.lock = c.buf[b].lock - 1]]
  BY DEF Unlock, CacheRec
<1>2. SameLists(c, Unlock(c, b))
  BY DEF Unlock, CacheRec, SameLists
<1> QED
  BY <1>1, <1>2, CacheParts, UnlockType DEF SameOthers

\* What a step that is not about the use of a buffer keeps of its descriptor.
Kept(r, s) == s.obj = r.obj /\ s.refcnt = r.refcnt /\ s.lock = r.lock

LEMMA ObjReadEffect ==
  ASSUME NEW c \in CacheRec, NEW b \in Bufs
  PROVE  LET d == ObjRead(c, b) IN
         /\ d \in CacheRec /\ SameLists(c, d) /\ SameOthers(c, d, b)
         /\ Kept(c.buf[b], d.buf[b]) /\ d.buf[b].dirty = c.buf[b].dirty
         /\ IsStream(c.buf[b].obj) => d.buf[b].data = Line
<1> DEFINE d == ObjRead(c, b)
           s == [[c.buf[b] EXCEPT !.data = Line] EXCEPT !.fresh = TRUE]
           f == [c.buf[b] EXCEPT !.data = c.disk[c.buf[b].obj][c.buf[b].blk]]
<1>1. d.buf = [c.buf EXCEPT ![b] = IF IsStream(c.buf[b].obj) THEN s ELSE f]
  <2>1. CASE IsStream(c.buf[b].obj)
    BY <2>1, BufIsRec DEF ObjRead, CacheRec
  <2>2. CASE ~IsStream(c.buf[b].obj)
    BY <2>2, BufIsRec DEF ObjRead, CacheRec
  <2> QED
    BY <2>1, <2>2
<1>2. SameLists(c, d)
  BY DEF ObjRead, CacheRec, SameLists
<1>3. d \in CacheRec
  BY ObjReadType
<1>4. Kept(c.buf[b], s) /\ Kept(c.buf[b], f) /\ s.dirty = c.buf[b].dirty
      /\ f.dirty = c.buf[b].dirty /\ s.data = Line
  BY BufIsRec DEF Kept, BufRec
<1> HIDE DEF d, s, f
<1>5. d.buf[b] = (IF IsStream(c.buf[b].obj) THEN s ELSE f) /\ SameOthers(c, d, b)
  BY <1>1, CacheParts DEF SameOthers
<1> QED
  BY <1>2, <1>3, <1>4, <1>5 DEF d

LEMMA BlookupEffect ==
  ASSUME NEW c \in CacheRec, NoRepeats(c), NEW o \in Objs, NEW b \in Bufs, b \in On(c, o)
  PROVE  LET d == Blookup(c, o, b) IN
         /\ d \in CacheRec /\ NoRepeats(d) /\ d.unused = c.unused
         /\ \A n \in Objs : On(d, n) = On(c, n)
         /\ SameOthers(c, d, b)
         /\ d.buf[b].obj = c.buf[b].obj /\ d.buf[b].lock = c.buf[b].lock
         /\ d.buf[b].dirty = c.buf[b].dirty /\ d.buf[b].data = c.buf[b].data
         /\ d.buf[b].fresh = FALSE
         /\ d.buf[b].refcnt = (c.buf[b].refcnt + 1) % RefMod
<1> DEFINE a == Ref(c, b)
           s == [a.buf[b] EXCEPT !.fresh = FALSE]
           r == [a EXCEPT !.buf[b] = s]
           d == Blookup(c, o, b)
           l == <<b>> \o Without(r.objbufs[o], b)
<1>1. a \in CacheRec /\ SameLists(c, a) /\ SameOthers(c, a, b) /\ a.buf[b] \in BufRec
  BY RefEffect, BufIsRec
<1>2. s \in BufRec
  BY <1>1, RecType
<1>3. /\ s.obj = c.buf[b].obj /\ s.lock = c.buf[b].lock /\ s.dirty = c.buf[b].dirty
      /\ s.data = c.buf[b].data /\ s.fresh = FALSE
      /\ s.refcnt = (c.buf[b].refcnt + 1) % RefMod
  <2> DEFINE q == c.buf[b]
             n == (q.refcnt + 1) % RefMod
             u == [q EXCEPT !.refcnt = n]
  <2>1. q \in BufRec /\ a.buf[b] = u /\ s = [u EXCEPT !.fresh = FALSE]
    BY RefEffect, BufIsRec
  <2> HIDE DEF n, q, s
  <2>2. /\ u.obj = q.obj /\ u.lock = q.lock /\ u.dirty = q.dirty /\ u.data = q.data
        /\ u.refcnt = n /\ u \in [DOMAIN q -> {u[x] : x \in DOMAIN q}]
        /\ "fresh" \in DOMAIN u
    BY <2>1 DEF BufRec
  <2> HIDE DEF u
  <2>3. /\ s.obj = u.obj /\ s.lock = u.lock /\ s.dirty = u.dirty /\ s.data = u.data
        /\ s.refcnt = u.refcnt /\ s.fresh = FALSE
    BY <2>1, <2>2
  <2> QED
    BY <2>2, <2>3 DEF n, q
<1>4. d = IF IsStream(o) THEN r ELSE [r EXCEPT !.objbufs[o] = l]
  BY DEF Blookup
<1>5. d \in CacheRec
  BY BlookupType
<1> HIDE DEF a, s
<1>6. /\ r \in CacheRec /\ r.unused = c.unused /\ r.objbufs = c.objbufs
      /\ r.buf = [a.buf EXCEPT ![b] = s]
  BY <1>1, <1>2, BufType DEF SameLists
<1> HIDE DEF d, r
<1>7. /\ d.unused = c.unused /\ d.buf = [a.buf EXCEPT ![b] = s]
      /\ \A n \in Objs : d.objbufs[n] = IF n = o /\ ~IsStream(o) THEN l ELSE c.objbufs[n]
  BY <1>4, <1>6 DEF CacheRec
<1>8. IsInjective(l) /\ Range(l) = On(c, o)
  <2> DEFINE w == Without(c.objbufs[o], b)
  <2>1. w \in Seq(Bufs) /\ IsInjective(w) /\ Range(w) = On(c, o) \ {b}
    BY CacheParts, WithoutRange DEF NoRepeats, On
  <2> HIDE DEF w
  <2>2. IsInjective(<<b>> \o w) /\ Range(<<b>> \o w) = On(c, o)
    <3>1. b \notin Range(w) /\ On(c, o) = Range(w) \cup {b}
      BY <2>1
    <3> QED
      BY <2>1, <3>1, PushFrontRange
  <2>3. l = <<b>> \o w
    BY <1>6 DEF w
  <2> QED
    BY <2>2, <2>3
<1> HIDE DEF l
<1>9. d.buf[b] = s /\ SameOthers(c, d, b)
  BY <1>1, <1>7, CacheParts DEF SameOthers
<1> QED
  BY <1>3, <1>5, <1>7, <1>8, <1>9 DEF NoRepeats, On, d

\* bwrite, obj_io of a write, and a client's change of the contents.
LEMMA WriteEffect ==
  ASSUME NEW c \in CacheRec, NEW b \in Bufs, NEW o \in Objs, NEW k \in Blks
  PROVE  /\ BwriteClean(c, b) \in CacheRec /\ SameLists(c, BwriteClean(c, b))
         /\ SameOthers(c, BwriteClean(c, b), b)
         /\ Kept(c.buf[b], BwriteClean(c, b).buf[b])
         /\ BwriteClean(c, b).buf[b].data = c.buf[b].data
         /\ BwriteClean(c, b).buf[b].fresh = c.buf[b].fresh
         /\ BwriteClean(c, b).buf[b].dirty = FALSE
         /\ ObjWrite(c, b, o, k) \in CacheRec /\ SameLists(c, ObjWrite(c, b, o, k))
         /\ ObjWrite(c, b, o, k).buf = c.buf
<1>1. SameLists(c, ObjWrite(c, b, o, k)) /\ ObjWrite(c, b, o, k).buf = c.buf
  BY DEF ObjWrite, CacheRec, SameLists
<1> DEFINE d == BwriteClean(c, b)
           s == [c.buf[b] EXCEPT !.dirty = FALSE]
<1>2. SameLists(c, d)
  BY DEF BwriteClean, CacheRec, SameLists
<1>3. d.buf = IF c.buf[b].dirty THEN [c.buf EXCEPT ![b] = s] ELSE c.buf
  BY DEF BwriteClean, CacheRec
<1>4. Kept(c.buf[b], s) /\ s.data = c.buf[b].data /\ s.fresh = c.buf[b].fresh
      /\ s.dirty = FALSE /\ Kept(c.buf[b], c.buf[b]) /\ c.buf[b].dirty \in BOOLEAN
  BY BufIsRec DEF Kept, BufRec
<1> HIDE DEF d, s
<1>5. d.buf[b] = (IF c.buf[b].dirty THEN s ELSE c.buf[b]) /\ SameOthers(c, d, b)
  BY <1>3, CacheParts DEF SameOthers
<1> QED
  BY <1>1, <1>2, <1>4, <1>5, BdirtyType, ObjWriteType DEF d

LEMMA ModifyEffect ==
  ASSUME NEW c \in CacheRec, NEW b \in Bufs,
         IsFile(c.buf[b].obj) => c.buf[b].data < MaxVersion
  PROVE  LET d == Bdirty(Modify(c, b), b) IN
         /\ d \in CacheRec /\ SameLists(c, d) /\ SameOthers(c, d, b)
         /\ Kept(c.buf[b], d.buf[b])
         /\ IsStream(c.buf[b].obj) => /\ d.buf[b].data = c.buf[b].data
                                      /\ d.buf[b].fresh = c.buf[b].fresh
<1> DEFINE m == Modify(c, b)
           d == Bdirty(m, b)
           s == [c.buf[b] EXCEPT !.data = c.buf[b].data + 1]
           t == [m.buf[b] EXCEPT !.dirty = TRUE]
<1>1. m \in CacheRec /\ d \in CacheRec
  BY ModifyType, BdirtyType
<1>2. SameLists(c, m) /\ m.buf = IF IsFile(c.buf[b].obj) THEN [c.buf EXCEPT ![b] = s] ELSE c.buf
  BY DEF Modify, CacheRec, SameLists
<1>3. Kept(c.buf[b], s) /\ Kept(c.buf[b], c.buf[b])
  BY BufIsRec DEF Kept, BufRec
<1> HIDE DEF m, s
<1>4. m.buf[b] = (IF IsFile(c.buf[b].obj) THEN s ELSE c.buf[b]) /\ SameOthers(c, m, b)
  BY <1>2, CacheParts DEF SameOthers
<1>5. SameLists(m, d) /\ d.buf = IF m.buf[b].dirty THEN m.buf ELSE [m.buf EXCEPT ![b] = t]
  BY <1>1 DEF Bdirty, CacheRec, SameLists
<1>6. Kept(m.buf[b], t) /\ Kept(m.buf[b], m.buf[b]) /\ t.data = m.buf[b].data
      /\ t.fresh = m.buf[b].fresh
  BY <1>1, BufIsRec DEF Kept, BufRec
<1> HIDE DEF d, t
<1>7. d.buf[b] = (IF m.buf[b].dirty THEN m.buf[b] ELSE t) /\ SameOthers(m, d, b)
  BY <1>1, <1>5, CacheParts DEF SameOthers
<1>8. Kept(c.buf[b], d.buf[b])
  BY <1>3, <1>4, <1>6, <1>7 DEF Kept
<1>9. IsStream(c.buf[b].obj) => d.buf[b].data = c.buf[b].data /\ d.buf[b].fresh = c.buf[b].fresh
  BY <1>4, <1>6, <1>7 DEF IsStream
<1> QED
  BY <1>1, <1>2, <1>4, <1>5, <1>7, <1>8, <1>9 DEF SameLists, SameOthers, d, m

-----------------------------------------------------------------------------
(* Users of a buffer and how many there are.                                 *)

Tables == [Procs -> [Slots -> Bufs \cup {NULL}]]

\* An entry of a table is replaced, and the state of a process.
Enters(tab, p, s, v, tab2) == tab2 = [tab EXCEPT ![p][s] = v]
Moves(pr, p, r, pr2) == pr2 = [pr EXCEPT ![p] = r]

LEMMA SlotFacts == TableSize \in Nat /\ Slots = 1..TableSize /\ Slots \subseteq 0..TableSize
                   /\ 0 \notin Slots /\ 0 \in 0..TableSize
BY BufCacheAssumption DEF Slots

EntryAfter(H, p, s, v, x) == (H \ {<<p, s>>}) \cup (IF v = x THEN {<<p, s>>} ELSE {})

LEMMA HoldersTable ==
  ASSUME NEW tab \in Tables, NEW pr, NEW p \in Procs, NEW s \in Slots, NEW v, NEW x,
         NEW tab2, Enters(tab, p, s, v, tab2)
  PROVE  HoldersIn(tab2, pr, x) = EntryAfter(HoldersIn(tab, pr, x), p, s, v, x)
<1> DEFINE Uses(t, h) == IF h[2] = 0 THEN pr[h[1]].pc \in ReadingPcs /\ pr[h[1]].buf = x
                                     ELSE t[h[1]][h[2]] = x
<1>1. <<p, s>> \in Seats /\ s # 0
  BY SlotFacts DEF Seats
<1>2. \A h \in Seats : h # <<p, s>> => (Uses(tab2, h) <=> Uses(tab, h))
  <2> SUFFICES ASSUME NEW q \in Procs, NEW t \in 0..TableSize, <<q, t>> # <<p, s>>
               PROVE  Uses(tab2, <<q, t>>) <=> Uses(tab, <<q, t>>)
    BY DEF Seats
  <2>1. CASE t = 0
    BY <2>1
  <2>2. CASE t # 0
    <3>1. t \in Slots
      BY <2>2, SlotFacts
    <3>2. tab2[q][t] = tab[q][t]
      BY <3>1 DEF Tables, Enters
    <3> QED
      BY <2>2, <3>2
  <2> QED
    BY <2>1, <2>2
<1>3. Uses(tab2, <<p, s>>) <=> v = x
  BY <1>1 DEF Tables, Enters
<1>5. /\ HoldersIn(tab2, pr, x) = {h \in Seats : Uses(tab2, h)}
      /\ HoldersIn(tab, pr, x) = {h \in Seats : Uses(tab, h)}
  BY DEF HoldersIn
<1> HIDE DEF Uses
<1>6. HoldersIn(tab2, pr, x)
        = (HoldersIn(tab, pr, x) \ {<<p, s>>}) \cup (IF v = x THEN {<<p, s>>} ELSE {})
  BY <1>1, <1>2, <1>3, <1>5
<1> QED
  BY <1>6 DEF EntryAfter

LEMMA EntrySeat ==
  ASSUME NEW tab, NEW pr, NEW p \in Procs, NEW s \in Slots, NEW x
  PROVE  <<p, s>> \in HoldersIn(tab, pr, x) <=> tab[p][s] = x
BY SlotFacts DEF HoldersIn, Seats

\* The seat of p while it creates buffer x.
ReadSeat(p, r, x) == IF r.pc \in ReadingPcs /\ r.buf = x THEN {<<p, 0>>} ELSE {}
SeatsAfter(H, p, r, x) == (H \ {<<p, 0>>}) \cup ReadSeat(p, r, x)

LEMMA HoldersProc ==
  ASSUME NEW tab, NEW pr \in [Procs -> ProcRec], NEW p \in Procs, NEW r \in ProcRec, NEW x,
         NEW pr2, Moves(pr, p, r, pr2)
  PROVE  HoldersIn(tab, pr2, x) = SeatsAfter(HoldersIn(tab, pr, x), p, r, x)
<1> DEFINE Uses(f, h) == IF h[2] = 0 THEN f[h[1]].pc \in ReadingPcs /\ f[h[1]].buf = x
                                     ELSE tab[h[1]][h[2]] = x
<1>1. <<p, 0>> \in Seats
  BY SlotFacts DEF Seats
<1>2. \A h \in Seats : h # <<p, 0>> => (Uses(pr2, h) <=> Uses(pr, h))
  <2> SUFFICES ASSUME NEW q \in Procs, NEW t \in 0..TableSize, <<q, t>> # <<p, 0>>
               PROVE  Uses(pr2, <<q, t>>) <=> Uses(pr, <<q, t>>)
    BY DEF Seats
  <2>1. t = 0 => pr2[q] = pr[q]
    BY DEF Moves
  <2> QED
    BY <2>1
<1>3. Uses(pr2, <<p, 0>>) <=> r.pc \in ReadingPcs /\ r.buf = x
  BY DEF Moves
<1>5. /\ HoldersIn(tab, pr2, x) = {h \in Seats : Uses(pr2, h)}
      /\ HoldersIn(tab, pr, x) = {h \in Seats : Uses(pr, h)}
  BY DEF HoldersIn
<1> HIDE DEF Uses
<1>6. HoldersIn(tab, pr2, x) = (HoldersIn(tab, pr, x) \ {<<p, 0>>})
        \cup (IF r.pc \in ReadingPcs /\ r.buf = x THEN {<<p, 0>>} ELSE {})
  BY <1>1, <1>2, <1>3, <1>5
<1> QED
  BY <1>6 DEF ReadSeat, SeatsAfter

LEMMA ReaderSeat ==
  ASSUME NEW tab, NEW pr, NEW p \in Procs, NEW x
  PROVE  <<p, 0>> \in HoldersIn(tab, pr, x) <=> pr[p].pc \in ReadingPcs /\ pr[p].buf = x
BY SlotFacts DEF HoldersIn, Seats

LEMMA SeatCount ==
  ASSUME Disciplined, NEW S \in SUBSET Seats
  PROVE  IsFiniteSet(S) /\ Cardinality(S) \in Nat /\ (Cardinality(S) = 0 <=> S = {})
<1>1. IsFiniteSet(Procs)
  BY DEF Disciplined
<1>2. IsFiniteSet(0..TableSize)
  BY SlotFacts, FS_Interval
<1>3. IsFiniteSet(Seats)
  BY <1>1, <1>2, FS_Product DEF Seats
<1>4. IsFiniteSet(S)
  BY <1>3, FS_Subset
<1> QED
  BY <1>4, FS_CardinalityType, FS_EmptySet

LEMMA SeatAdd ==
  ASSUME Disciplined, NEW S \in SUBSET Seats, NEW x \in Seats, x \notin S
  PROVE  /\ Cardinality(S \cup {x}) = Cardinality(S) + 1
         /\ Cardinality(S) < RefMod - 1 => (Cardinality(S) + 1) % RefMod = Cardinality(S \cup {x})
<1>1. IsFiniteSet(S) /\ Cardinality(S) \in Nat /\ RefMod \in Nat
  BY SeatCount, ConstantTypes
<1>2. Cardinality(S \cup {x}) = Cardinality(S) + 1
  BY <1>1, FS_AddElement
<1>3. Cardinality(S) < RefMod - 1 => Cardinality(S) + 1 \in 0..RefMod-1
  BY <1>1
<1> QED
  BY <1>1, <1>2, <1>3

LEMMA SeatRemove ==
  ASSUME Disciplined, NEW S \in SUBSET Seats, NEW x \in S
  PROVE  /\ Cardinality(S \ {x}) = Cardinality(S) - 1 /\ Cardinality(S) >= 1
         /\ Cardinality(S) < RefMod =>
              (Cardinality(S) + RefMod - 1) % RefMod = Cardinality(S \ {x})
         /\ Cardinality(S) <= 1 => S = {x}
<1>1. /\ IsFiniteSet(S) /\ Cardinality(S) \in Nat
      /\ Cardinality(S \ {x}) \in Nat /\ (Cardinality(S \ {x}) = 0 <=> S \ {x} = {})
      /\ RefMod \in Nat
  BY SeatCount, ConstantTypes
<1>2. Cardinality(S \ {x}) = Cardinality(S) - 1
  BY <1>1, FS_RemoveElement
<1>3. Cardinality(S) >= 1
  BY <1>1, <1>2
<1> DEFINE n == Cardinality(S)
<1>4. n < RefMod => n + RefMod - 1 = (n - 1) + RefMod /\ n - 1 \in 0..RefMod-1
  BY <1>1, <1>3
<1> HIDE DEF n
<1>5. n < RefMod => (n + RefMod - 1) % RefMod = n - 1
  BY <1>1, <1>4
<1> QED
  BY <1>1, <1>2, <1>3, <1>5 DEF n

LEMMA HoldersAreSeats ==
  ASSUME NEW tab, NEW pr, NEW x
  PROVE  HoldersIn(tab, pr, x) \in SUBSET Seats
BY DEF HoldersIn

-----------------------------------------------------------------------------
(* The invariant seen from one buffer: an operation on buffer b disturbs     *)
(* what holds of b and nothing of the others.                               *)

ReadPcs == {"read", "readclean"}

\* Where buffer x is.
Placed(c, pr, x) ==
  /\ x \in Range(c.unused) => x \notin InHand(pr) /\ \A o \in Objs : x \notin On(c, o)
  /\ x \in InHand(pr) => \A o \in Objs : x \notin On(c, o)
  /\ x \notin Range(c.unused) /\ x \notin InHand(pr) =>
       \A o \in Objs : x \in On(c, o) <=> o = c.buf[x].obj
  /\ c.buf[x].lock = IF Reading(pr, x) THEN 1 ELSE 0

\* What its descriptor says, H being its users.
Fits(r, H) ==
  /\ r.refcnt = Cardinality(H)
  /\ IsStream(r.obj) => /\ r.data # Line => ~r.fresh /\ r.refcnt <= 1
                        /\ r.dirty => r.data # Line /\ H = {}

Used(c, tab, pr, x) ==
  /\ x \in Range(c.unused) => HoldersIn(tab, pr, x) = {}
  /\ x \notin Range(c.unused) => Fits(c.buf[x], HoldersIn(tab, pr, x))
  /\ x \in InHand(pr) => c.buf[x].refcnt = 1

Sound(c, tab, pr) ==
  /\ c \in CacheRec /\ tab \in Tables /\ pr \in [Procs -> ProcRec]
  /\ \A p \in Procs : pr[p].pc \in ReadingPcs => pr[p].buf \in Bufs
  /\ NoRepeats(c) /\ OneReader(pr) /\ NoSpin(pr)
  /\ \A x \in Bufs : Placed(c, pr, x) /\ Used(c, tab, pr, x)

\* x looks the same before and after.
SameBuf(c, tab, pr, d, tab2, pr2, x) ==
  /\ d.buf[x] = c.buf[x]
  /\ x \in Range(d.unused) <=> x \in Range(c.unused)
  /\ \A o \in Objs : x \in On(d, o) <=> x \in On(c, o)
  /\ x \in InHand(pr2) <=> x \in InHand(pr)
  /\ Reading(pr2, x) <=> Reading(pr, x)
  /\ HoldersIn(tab2, pr2, x) = HoldersIn(tab, pr, x)

LEMMA SameBufHolds ==
  ASSUME NEW c, NEW tab, NEW pr, NEW d, NEW tab2, NEW pr2, NEW x,
         Placed(c, pr, x), Used(c, tab, pr, x), SameBuf(c, tab, pr, d, tab2, pr2, x)
  PROVE  Placed(d, pr2, x) /\ Used(d, tab2, pr2, x)
<1>1. Placed(d, pr2, x)
  BY DEF Placed, SameBuf
<1>2. Used(d, tab2, pr2, x)
  BY DEF Used, SameBuf
<1> QED
  BY <1>1, <1>2

LEMMA SoundConsistent ==
  ASSUME NEW c, NEW tab, NEW pr, Sound(c, tab, pr)
  PROVE  Consistent(c, tab, pr)
<1> USE DEF Sound
<1>1. Partition(c, InHand(pr))
  <2>1. InHand(pr) \subseteq Bufs
    BY DEF InHand, ReadingPcs
  <2>2. \A o \in Objs : On(c, o) \subseteq Bufs
    BY CacheParts
  <2>3. \A b \in Bufs : c.buf[b].obj \in Objs
    BY BufIsRec
  <2> QED
    BY <2>1, <2>2, <2>3 DEF Partition, Placed, NoRepeats, On
<1>2. Counted(c, tab, pr) /\ Streams(c) /\ DirtyStreamUnused(c, tab, pr)
  BY DEF Counted, Streams, DirtyStreamUnused, Used, Fits
<1>3. Locks(c, pr)
  BY DEF Locks, Placed
<1>4. Unshared(c, pr)
  <2>1. \A p \in Procs : pr[p].pc = "data" => pr[p].buf \in Bufs /\ pr[p].buf \in InHand(pr)
    BY DEF InHand, ReadingPcs
  <2> QED
    BY <2>1 DEF Unshared, Used
<1> QED
  BY <1>1, <1>2, <1>3, <1>4 DEF Consistent

LEMMA ConsistentSound ==
  ASSUME NEW c \in CacheRec, NEW tab \in Tables, NEW pr \in [Procs -> ProcRec],
         \A p \in Procs : pr[p].pc \in ReadingPcs => pr[p].buf \in Bufs,
         NoSpin(pr), Consistent(c, tab, pr)
  PROVE  Sound(c, tab, pr)
<1> USE DEF Consistent
<1>1. NoRepeats(c)
  BY DEF Partition, NoRepeats
<1>2. ASSUME NEW x \in Bufs PROVE Placed(c, pr, x)
  <2>1. c.buf[x].obj \in Objs
    BY BufIsRec
  <2>2. c.buf[x].lock = IF Reading(pr, x) THEN 1 ELSE 0
    BY DEF Locks
  <2>3. \A o \in Objs : x \in On(c, o) =>
          c.buf[x].obj = o /\ x \notin Range(c.unused) /\ x \notin InHand(pr)
    BY DEF Partition, On
  <2>4. /\ x \in InHand(pr) => x \notin Range(c.unused)
        /\ x \in Range(c.unused) \/ x \in InHand(pr) \/ x \in On(c, c.buf[x].obj)
    BY DEF Partition, On
  <2> QED
    BY <2>1, <2>2, <2>3, <2>4 DEF Placed
<1>3. ASSUME NEW x \in Bufs PROVE Used(c, tab, pr, x)
  <2>1. x \in InHand(pr) => c.buf[x].refcnt = 1
    BY DEF Unshared, InHand
  <2>2. x \in Range(c.unused) => HoldersIn(tab, pr, x) = {}
    BY DEF Counted
  <2>3. x \notin Range(c.unused) => Fits(c.buf[x], HoldersIn(tab, pr, x))
    BY DEF Counted, Streams, DirtyStreamUnused, Fits
  <2> QED
    BY <2>1, <2>2, <2>3 DEF Used
<1> QED
  BY <1>1, <1>2, <1>3 DEF Sound

-----------------------------------------------------------------------------
(* One process changes its state.                                            *)

LEMMA ProcViews ==
  ASSUME NEW c, NEW tab, NEW pr, Sound(c, tab, pr), NEW p \in Procs, NEW r \in ProcRec, NEW x,
         NEW pr2, Moves(pr, p, r, pr2)
  PROVE  /\ pr2 \in [Procs -> ProcRec]
         /\ x \in InHand(pr2) <=> \/ r.pc = "data" /\ r.buf = x
                                  \/ x \in InHand(pr) /\ ~(pr[p].pc = "data" /\ pr[p].buf = x)
         /\ Reading(pr2, x) <=> \/ r.pc \in ReadPcs /\ r.buf = x
                                \/ Reading(pr, x) /\ ~(pr[p].pc \in ReadPcs /\ pr[p].buf = x)
<1>0. pr \in [Procs -> ProcRec] /\ OneReader(pr)
  BY DEF Sound
<1>1. pr2 \in [Procs -> ProcRec] /\ pr2[p] = r /\ \A q \in Procs \ {p} : pr2[q] = pr[q]
  BY <1>0 DEF Moves
<1>2. x \in InHand(pr) <=> \E q \in Procs : pr[q].pc = "data" /\ pr[q].buf = x
  BY DEF InHand
<1>3. x \in InHand(pr2) <=> \E q \in Procs : pr2[q].pc = "data" /\ pr2[q].buf = x
  BY DEF InHand
<1>4. \A q \in Procs : pr[p].pc = "data" /\ pr[p].buf = x /\ pr[q].pc = "data" /\ pr[q].buf = x
        => q = p
  BY <1>0 DEF OneReader, ReadingPcs
<1>5. \A q \in Procs : pr[p].pc \in ReadPcs /\ pr[p].buf = x /\ pr[q].pc \in ReadPcs
        /\ pr[q].buf = x => q = p
  BY <1>0 DEF OneReader, ReadingPcs, ReadPcs
<1>6. x \in InHand(pr2) <=> \/ r.pc = "data" /\ r.buf = x
                            \/ x \in InHand(pr) /\ ~(pr[p].pc = "data" /\ pr[p].buf = x)
  BY <1>1, <1>2, <1>3, <1>4
<1>7. Reading(pr2, x) <=> \/ r.pc \in ReadPcs /\ r.buf = x
                          \/ Reading(pr, x) /\ ~(pr[p].pc \in ReadPcs /\ pr[p].buf = x)
  BY <1>1, <1>5 DEF Reading, ReadPcs
<1> QED
  BY <1>1, <1>6, <1>7

LEMMA UserViews ==
  ASSUME NEW c, NEW tab, NEW pr, Sound(c, tab, pr), NEW p \in Procs, NEW r \in ProcRec, NEW x,
         NEW pr2, Moves(pr, p, r, pr2)
  PROVE  HoldersIn(tab, pr2, x) = SeatsAfter(HoldersIn(tab, pr, x), p, r, x)
BY HoldersProc DEF Sound

\* Who is reading, or has the descriptor in hand, is a user.
LEMMA ReadersAreUsers ==
  ASSUME NEW tab, NEW pr \in [Procs -> ProcRec], NEW x
  PROVE  /\ Reading(pr, x) \/ x \in InHand(pr) => HoldersIn(tab, pr, x) # {}
         /\ \A p \in Procs : pr[p].pc \in ReadingPcs /\ pr[p].buf = x =>
              <<p, 0>> \in HoldersIn(tab, pr, x)
<1>1. \A p \in Procs : pr[p].pc \in ReadingPcs /\ pr[p].buf = x =>
        <<p, 0>> \in HoldersIn(tab, pr, x)
  BY SlotFacts DEF HoldersIn, Seats
<1>2. Reading(pr, x) => \E p \in Procs : pr[p].pc \in ReadingPcs /\ pr[p].buf = x
  BY DEF Reading, ReadingPcs
<1>3. x \in InHand(pr) => \E p \in Procs : pr[p].pc \in ReadingPcs /\ pr[p].buf = x
  BY DEF InHand, ReadingPcs
<1> QED
  BY <1>1, <1>2, <1>3

LEMMA StillOneReader ==
  ASSUME NEW pr \in [Procs -> ProcRec], OneReader(pr), NEW p \in Procs, NEW r \in ProcRec,
         r.pc \in ReadingPcs =>
           \A q \in Procs \ {p} : ~(pr[q].pc \in ReadingPcs /\ pr[q].buf = r.buf),
         NEW pr2, Moves(pr, p, r, pr2)
  PROVE  OneReader(pr2)
<1>1. pr2[p] = r /\ \A q \in Procs \ {p} : pr2[q] = pr[q]
  BY DEF Moves
<1> QED
  BY <1>1 DEF OneReader

\* A step of p that changes nothing about what p reads, and nothing else.
LEMMA PrFrame ==
  ASSUME NEW c, NEW tab, NEW pr, Sound(c, tab, pr), NEW p \in Procs, NEW r \in ProcRec,
         \/ pr[p].pc \notin ReadingPcs /\ r.pc \notin ReadingPcs \cup {"spin"}
         \/ pr[p].pc \in ReadPcs /\ r.pc \in ReadPcs /\ r.buf = pr[p].buf,
         NEW pr2, Moves(pr, p, r, pr2)
  PROVE  Sound(c, tab, pr2)
<1>0. pr2[p] = r /\ \A q \in Procs \ {p} : pr2[q] = pr[q]
  BY DEF Moves, Sound
<1>1. OneReader(pr2)
  <2>1. r.pc \in ReadingPcs =>
          \A q \in Procs \ {p} : ~(pr[q].pc \in ReadingPcs /\ pr[q].buf = r.buf)
    BY DEF OneReader, ReadingPcs, ReadPcs, Sound
  <2> QED
    BY <2>1, StillOneReader DEF Sound
<1>2. ASSUME NEW x \in Bufs PROVE SameBuf(c, tab, pr, c, tab, pr2, x)
  <2>1. (x \in InHand(pr2) <=> x \in InHand(pr)) /\ (Reading(pr2, x) <=> Reading(pr, x))
    <3>1. CASE pr[p].pc \notin ReadingPcs /\ r.pc \notin ReadingPcs \cup {"spin"}
      BY <3>1, ProcViews DEF ReadingPcs, ReadPcs
    <3>2. CASE pr[p].pc \in ReadPcs /\ r.pc \in ReadPcs /\ r.buf = pr[p].buf
      <4>1. r.pc # "data" /\ pr[p].pc # "data"
        BY <3>2 DEF ReadPcs
      <4>2. Reading(pr, x) <=> Reading(pr, x) \/ (pr[p].pc \in ReadPcs /\ pr[p].buf = x)
        BY DEF Reading, ReadPcs
      <4> QED
        BY <3>2, <4>1, <4>2, ProcViews
    <3> QED
      BY <3>1, <3>2
  <2>2. HoldersIn(tab, pr2, x) = HoldersIn(tab, pr, x)
    <3>1. HoldersIn(tab, pr2, x) = SeatsAfter(HoldersIn(tab, pr, x), p, r, x)
      BY UserViews
    <3>2. <<p, 0>> \in HoldersIn(tab, pr, x) <=> pr[p].pc \in ReadingPcs /\ pr[p].buf = x
      BY ReaderSeat
    <3>3. r.pc \in ReadingPcs /\ r.buf = x <=> pr[p].pc \in ReadingPcs /\ pr[p].buf = x
      BY DEF ReadingPcs, ReadPcs
    <3> QED
      BY <3>1, <3>2, <3>3 DEF ReadSeat, SeatsAfter
  <2> QED
    BY <2>1, <2>2 DEF SameBuf
<1> USE DEF Sound
<1>3. NoSpin(pr2)
  BY <1>0 DEF NoSpin, ReadPcs, ReadingPcs
<1>4. \A q \in Procs : pr2[q].pc \in ReadingPcs => pr2[q].buf \in Bufs
  BY <1>0 DEF ReadPcs, ReadingPcs
<1>5. ASSUME NEW x \in Bufs PROVE Placed(c, pr2, x) /\ Used(c, tab, pr2, x)
  <2>1. Placed(c, pr, x) /\ Used(c, tab, pr, x) /\ SameBuf(c, tab, pr, c, tab, pr2, x)
    BY <1>2
  <2> QED
    BY <2>1, SameBufHolds
<1> QED
  BY <1>1, <1>3, <1>4, <1>5 DEF Moves

\* bfree of a buffer without users.
LEMMA FreeSound ==
  ASSUME NEW c, NEW tab, NEW pr, Sound(c, tab, pr), NEW b \in Bufs,
         b \notin Range(c.unused), HoldersIn(tab, pr, b) = {}
  PROVE  Sound(Bfree(c, b), tab, pr)
<1> DEFINE d == Bfree(c, b)
<1> USE DEF Sound
<1>1. /\ d \in CacheRec /\ NoRepeats(d) /\ d.buf = c.buf
      /\ Range(d.unused) = Range(c.unused) \cup {b}
      /\ \A o \in Objs : On(d, o) = IF o = c.buf[b].obj THEN On(c, o) \ {b} ELSE On(c, o)
  BY BfreeEffect
<1> HIDE DEF d
<1>2. \A x \in Bufs \ {b} : SameBuf(c, tab, pr, d, tab, pr, x)
  BY <1>1 DEF SameBuf
<1>3. Placed(d, pr, b) /\ Used(d, tab, pr, b)
  <2>1. b \notin InHand(pr)
    BY ReadersAreUsers
  <2>2. \A o \in Objs : b \notin On(d, o)
    BY <1>1, <2>1 DEF Placed
  <2> QED
    BY <1>1, <2>1, <2>2 DEF Placed, Used
<1>4. \A x \in Bufs : Placed(d, pr, x) /\ Used(d, tab, pr, x)
  BY <1>2, <1>3, SameBufHolds
<1>5. Sound(d, tab, pr)
  BY <1>1, <1>4
<1> QED
  BY <1>5 DEF d

\* A step that changes one descriptor, not its lists or its users.
LEMMA FrameSound ==
  ASSUME NEW c, NEW tab, NEW pr, Sound(c, tab, pr), NEW d \in CacheRec, NEW b \in Bufs,
         SameLists(c, d), SameOthers(c, d, b), Kept(c.buf[b], d.buf[b]),
         b \notin Range(c.unused) /\ IsStream(c.buf[b].obj) =>
           /\ d.buf[b].data # Line => ~d.buf[b].fresh /\ d.buf[b].refcnt <= 1
           /\ d.buf[b].dirty => d.buf[b].data # Line /\ c.buf[b].dirty
  PROVE  Sound(d, tab, pr)
<1> USE DEF Sound
<1>1. Range(d.unused) = Range(c.unused) /\ (\A o \in Objs : On(d, o) = On(c, o)) /\ NoRepeats(d)
  BY DEF SameLists, On, NoRepeats
<1>2. \A x \in Bufs \ {b} : SameBuf(c, tab, pr, d, tab, pr, x)
  BY <1>1 DEF SameBuf, SameOthers
<1>3. Placed(d, pr, b)
  BY <1>1 DEF Placed, Kept
<1>4. Used(d, tab, pr, b)
  <2>1. b \notin Range(c.unused) => Fits(d.buf[b], HoldersIn(tab, pr, b))
    BY <1>1 DEF Used, Fits, Kept
  <2> QED
    BY <1>1, <2>1 DEF Used, Kept
<1>5. \A x \in Bufs : Placed(d, pr, x) /\ Used(d, tab, pr, x)
  BY <1>2, <1>3, <1>4, SameBufHolds
<1> QED
  BY <1>1, <1>5

\* bcreate pops a descriptor.
LEMMA TakeSound ==
  ASSUME Disciplined, NEW c, NEW tab, NEW pr, Sound(c, tab, pr), c.unused # <<>>,
         NEW o \in Objs, NEW k \in Blks, NEW p \in Procs, pr[p].pc \notin ReadingPcs,
         NEW r \in ProcRec, r.pc = "data", r.buf = Last(c.unused),
         NEW pr2, Moves(pr, p, r, pr2)
  PROVE  Sound(Take(c, o, k), tab, pr2)
<1> DEFINE d == Take(c, o, k)
           b == Last(c.unused)
<1>0. pr2[p] = r /\ (\A q \in Procs \ {p} : pr2[q] = pr[q]) /\ pr2 \in [Procs -> ProcRec]
  BY DEF Moves, Sound
<1>1. /\ d \in CacheRec /\ NoRepeats(d) /\ b \in Bufs /\ b \in Range(c.unused)
      /\ Range(d.unused) = Range(c.unused) \ {b} /\ d.objbufs = c.objbufs
      /\ \A x \in Bufs \ {b} : d.buf[x] = c.buf[x]
      /\ d.buf[b].obj = o /\ d.buf[b].refcnt = 1 /\ d.buf[b].dirty = FALSE
      /\ d.buf[b].fresh = FALSE /\ d.buf[b].lock = c.buf[b].lock /\ d.buf[b].data = 0
  BY TakeEffect, ZenonT(60) DEF Sound
<1>2. ASSUME NEW x \in Bufs
      PROVE  /\ x \in InHand(pr2) <=> x = b \/ x \in InHand(pr)
             /\ Reading(pr2, x) <=> Reading(pr, x)
             /\ HoldersIn(tab, pr2, x)
                  = IF x = b THEN HoldersIn(tab, pr, x) \cup {<<p, 0>>} ELSE HoldersIn(tab, pr, x)
  <2>1. /\ x \in InHand(pr2) <=> x = b \/ x \in InHand(pr)
        /\ Reading(pr2, x) <=> Reading(pr, x)
    BY ProcViews DEF ReadingPcs, ReadPcs
  <2>2. HoldersIn(tab, pr2, x) = SeatsAfter(HoldersIn(tab, pr, x), p, r, x)
    BY UserViews
  <2>3. <<p, 0>> \notin HoldersIn(tab, pr, x)
    BY ReaderSeat
  <2>4. r.pc \in ReadingPcs
    BY DEF ReadingPcs
  <2> QED
    BY <2>1, <2>2, <2>3, <2>4 DEF ReadSeat, SeatsAfter
<1> HIDE DEF d, b
<1> USE DEF Sound
<1>3. HoldersIn(tab, pr, b) = {} /\ ~Reading(pr, b) /\ b \notin InHand(pr)
  BY <1>1, ReadersAreUsers DEF Used
<1>4. OneReader(pr2)
  <2>1. \A q \in Procs \ {p} : ~(pr[q].pc \in ReadingPcs /\ pr[q].buf = r.buf)
    BY <1>3, ReadersAreUsers DEF b
  <2> QED
    BY <2>1, StillOneReader
<1>5. \A x \in Bufs \ {b} : SameBuf(c, tab, pr, d, tab, pr2, x)
  BY <1>1, <1>2 DEF SameBuf, On
<1>6. Placed(d, pr2, b)
  <2>1. \A n \in Objs : b \notin On(d, n)
    BY <1>1 DEF Placed, On
  <2>2. d.buf[b].lock = IF Reading(pr2, b) THEN 1 ELSE 0
    BY <1>1, <1>2 DEF Placed
  <2> QED
    BY <1>1, <1>2, <2>1, <2>2 DEF Placed
<1>7. Used(d, tab, pr2, b)
  <2>1. HoldersIn(tab, pr2, b) = {<<p, 0>>}
    BY <1>1, <1>2, <1>3
  <2>2. Cardinality({<<p, 0>>}) = 1
    BY FS_Singleton
  <2>3. 0 # Line
    BY ConstantTypes
  <2> QED
    BY <1>1, <2>1, <2>2, <2>3 DEF Used, Fits
<1>8. \A x \in Bufs : Placed(d, pr2, x) /\ Used(d, tab, pr2, x)
  BY <1>5, <1>6, <1>7, SameBufHolds
<1>9. NoSpin(pr2) /\ \A q \in Procs : pr2[q].pc \in ReadingPcs => pr2[q].buf \in Bufs
  BY <1>0, <1>1 DEF NoSpin, b
<1>10. Sound(d, tab, pr2)
  BY <1>0, <1>1, <1>4, <1>8, <1>9
<1> QED
  BY <1>10 DEF d

\* bcreate puts it into the list of its object and locks it.
LEMMA LinkSound ==
  ASSUME NEW c, NEW tab, NEW pr, Sound(c, tab, pr), NEW p \in Procs, pr[p].pc = "data",
         NEW b \in Bufs, pr[p].buf = b, NEW r \in ProcRec, r.pc \in ReadPcs, r.buf = b,
         NEW pr2, Moves(pr, p, r, pr2)
  PROVE  Sound(Link(c, b), tab, pr2)
<1> DEFINE d == Link(c, b)
<1>0. pr2[p] = r /\ (\A q \in Procs \ {p} : pr2[q] = pr[q]) /\ pr2 \in [Procs -> ProcRec]
  BY DEF Moves, Sound
<1>1. b \in InHand(pr) /\ c.buf[b] \in BufRec /\ c.buf[b].obj \in Objs
  BY BufIsRec DEF InHand, Sound
<1>2. /\ d \in CacheRec /\ NoRepeats(d) /\ d.unused = c.unused
      /\ \A o \in Objs : On(d, o) = IF o = c.buf[b].obj THEN On(c, o) \cup {b} ELSE On(c, o)
      /\ \A x \in Bufs \ {b} : d.buf[x] = c.buf[x]
      /\ d.buf[b] = [c.buf[b] EXCEPT !.lock = c.buf[b].lock + 1]
  BY <1>1, LinkEffect DEF Placed, Sound
<1>3. ASSUME NEW x \in Bufs
      PROVE  /\ x \in InHand(pr2) <=> x # b /\ x \in InHand(pr)
             /\ Reading(pr2, x) <=> x = b \/ Reading(pr, x)
             /\ HoldersIn(tab, pr2, x) = HoldersIn(tab, pr, x)
  <2>1. /\ x \in InHand(pr2) <=> x # b /\ x \in InHand(pr)
        /\ Reading(pr2, x) <=> x = b \/ Reading(pr, x)
    BY ProcViews DEF ReadPcs
  <2>2. HoldersIn(tab, pr2, x) = SeatsAfter(HoldersIn(tab, pr, x), p, r, x)
    BY UserViews
  <2>3. <<p, 0>> \in HoldersIn(tab, pr, x) <=> b = x
    BY ReaderSeat DEF ReadingPcs
  <2>4. r.pc \in ReadingPcs
    BY DEF ReadingPcs, ReadPcs
  <2> QED
    BY <2>1, <2>2, <2>3, <2>4 DEF ReadSeat, SeatsAfter
<1> HIDE DEF d
<1> USE DEF Sound
<1>4. OneReader(pr2)
  <2>1. \A q \in Procs \ {p} : ~(pr[q].pc \in ReadingPcs /\ pr[q].buf = r.buf)
    BY DEF OneReader, ReadingPcs
  <2> QED
    BY <2>1, StillOneReader
<1>5. \A x \in Bufs \ {b} : SameBuf(c, tab, pr, d, tab, pr2, x)
  BY <1>2, <1>3 DEF SameBuf
<1>6. ~Reading(pr, b)
  BY DEF OneReader, Reading, ReadingPcs
<1>7. Placed(d, pr2, b) /\ Used(d, tab, pr2, b)
  <2>1. b \notin Range(c.unused) /\ \A o \in Objs : b \notin On(c, o)
    BY <1>1 DEF Placed
  <2>2. c.buf[b].lock = 0 /\ Fits(c.buf[b], HoldersIn(tab, pr, b))
    BY <1>6, <2>1 DEF Placed, Used
  <2>3. /\ d.buf[b].lock = 1 /\ d.buf[b].obj = c.buf[b].obj
        /\ Fits(d.buf[b], HoldersIn(tab, pr, b))
    BY <1>1, <1>2, <2>2 DEF Fits, BufRec
  <2>4. Placed(d, pr2, b)
    BY <1>2, <1>3, <2>1, <2>3 DEF Placed
  <2>5. Used(d, tab, pr2, b)
    BY <1>2, <1>3, <2>1, <2>3 DEF Used
  <2> QED
    BY <2>4, <2>5
<1>8. \A x \in Bufs : Placed(d, pr2, x) /\ Used(d, tab, pr2, x)
  BY <1>5, <1>7, SameBufHolds
<1>9. NoSpin(pr2) /\ \A q \in Procs : pr2[q].pc \in ReadingPcs => pr2[q].buf \in Bufs
  BY <1>0 DEF NoSpin, ReadPcs
<1>10. Sound(d, tab, pr2)
  BY <1>0, <1>2, <1>4, <1>8, <1>9
<1> QED
  BY <1>10 DEF d

\* A user that is the only one.
LEMMA OnlyUser ==
  ASSUME Disciplined, NEW tab, NEW pr, NEW x, NEW h \in HoldersIn(tab, pr, x),
         Cardinality(HoldersIn(tab, pr, x)) <= 1
  PROVE  HoldersIn(tab, pr, x) = {h}
<1> DEFINE S == HoldersIn(tab, pr, x)
<1>1. S \in SUBSET Seats /\ h \in S /\ Cardinality(S) <= 1
  BY HoldersAreSeats
<1> HIDE DEF S
<1>2. S = {h}
  BY <1>1, SeatRemove
<1> QED
  BY <1>2 DEF S

\* bcreate gives the descriptor back.
LEMMA UntakeSound ==
  ASSUME Disciplined, NEW c, NEW tab, NEW pr, Sound(c, tab, pr),
         NEW p \in Procs, pr[p].pc = "data", NEW b \in Bufs, pr[p].buf = b,
         NEW r \in ProcRec, r.pc \notin ReadingPcs \cup {"spin"},
         NEW pr2, Moves(pr, p, r, pr2)
  PROVE  Sound(Untake(c, b), tab, pr2)
<1> DEFINE d == Untake(c, b)
<1>0. pr2[p] = r /\ (\A q \in Procs \ {p} : pr2[q] = pr[q]) /\ pr2 \in [Procs -> ProcRec]
  BY DEF Moves, Sound
<1>1. b \in InHand(pr)
  BY DEF InHand
<1>2. b \notin Range(c.unused) /\ \A o \in Objs : b \notin On(c, o)
  BY <1>1 DEF Placed, Sound
<1>3. /\ d \in CacheRec /\ NoRepeats(d) /\ d.buf = c.buf /\ d.objbufs = c.objbufs
      /\ Range(d.unused) = Range(c.unused) \cup {b}
  BY <1>2, UntakeEffect DEF Sound
<1>4. HoldersIn(tab, pr, b) = {<<p, 0>>}
  <2>1. <<p, 0>> \in HoldersIn(tab, pr, b)
    BY ReaderSeat DEF ReadingPcs
  <2>2. Cardinality(HoldersIn(tab, pr, b)) = 1
    BY <1>1, <1>2 DEF Sound, Used, Fits
  <2> QED
    BY <2>1, <2>2, OnlyUser
<1>5. ASSUME NEW x \in Bufs
      PROVE  /\ x \in InHand(pr2) <=> x # b /\ x \in InHand(pr)
             /\ Reading(pr2, x) <=> Reading(pr, x)
             /\ HoldersIn(tab, pr2, x) = IF x = b THEN {} ELSE HoldersIn(tab, pr, x)
  <2>1. /\ x \in InHand(pr2) <=> x # b /\ x \in InHand(pr)
        /\ Reading(pr2, x) <=> Reading(pr, x)
    BY ProcViews DEF ReadingPcs, ReadPcs
  <2>2. HoldersIn(tab, pr2, x) = SeatsAfter(HoldersIn(tab, pr, x), p, r, x)
    BY UserViews
  <2>3. <<p, 0>> \in HoldersIn(tab, pr, x) <=> x = b
    BY ReaderSeat DEF ReadingPcs
  <2> QED
    BY <1>4, <2>1, <2>2, <2>3 DEF SeatsAfter, ReadSeat
<1> HIDE DEF d
<1>6. OneReader(pr2)
  BY StillOneReader DEF Sound
<1>7. \A x \in Bufs \ {b} : SameBuf(c, tab, pr, d, tab, pr2, x)
  BY <1>3, <1>5 DEF SameBuf, On
<1>8. Placed(d, pr2, b) /\ Used(d, tab, pr2, b)
  <2>1. ~Reading(pr, b)
    BY DEF OneReader, Reading, ReadingPcs, Sound
  <2>2. d.buf[b].lock = IF Reading(pr2, b) THEN 1 ELSE 0
    BY <1>3, <1>5 DEF Placed, Sound
  <2>3. \A o \in Objs : b \notin On(d, o)
    BY <1>2, <1>3 DEF On
  <2>4. b \notin InHand(pr2) /\ HoldersIn(tab, pr2, b) = {} /\ b \in Range(d.unused)
    BY <1>3, <1>5
  <2> QED
    BY <2>2, <2>3, <2>4 DEF Placed, Used
<1>9. ASSUME NEW x \in Bufs PROVE Placed(d, pr2, x) /\ Used(d, tab, pr2, x)
  <2>1. Placed(c, pr, x) /\ Used(c, tab, pr, x)
    BY DEF Sound
  <2> QED
    BY <1>7, <1>8, <2>1, SameBufHolds
<1>10. NoSpin(pr2) /\ \A q \in Procs : pr2[q].pc \in ReadingPcs => pr2[q].buf \in Bufs
  BY <1>0 DEF NoSpin, Sound
<1>11. Sound(d, tab, pr2)
  BY <1>0, <1>3, <1>6, <1>9, <1>10 DEF Sound
<1> QED
  BY <1>11 DEF d

LEMMA EnterType ==
  ASSUME NEW tab \in Tables, NEW p \in Procs, NEW s \in Slots, NEW v \in Bufs \cup {NULL},
         NEW tab2, Enters(tab, p, s, v, tab2)
  PROVE  tab2 \in Tables
<1>1. [tab[p] EXCEPT ![s] = v] \in [Slots -> Bufs \cup {NULL}]
  BY DEF Tables
<1> QED
  BY <1>1 DEF Enters, Tables

\* The end of a bref that had to create the buffer: the seat of the reader
\* becomes a table entry.
LEMMA ReturnSound ==
  ASSUME Disciplined, NEW c, NEW tab, NEW pr, Sound(c, tab, pr),
         NEW p \in Procs, pr[p].pc \in ReadPcs, NEW b \in Bufs, pr[p].buf = b,
         NEW s \in Slots, tab[p][s] = NULL,
         NEW tab2, Enters(tab, p, s, b, tab2),
         NEW r \in ProcRec, r.pc \notin ReadingPcs \cup {"spin"},
         NEW pr2, Moves(pr, p, r, pr2)
  PROVE  Sound(Unlock(c, b), tab2, pr2)
<1> DEFINE d == Unlock(c, b)
           H == HoldersIn(tab, pr, b)
<1>0. pr2[p] = r /\ (\A q \in Procs \ {p} : pr2[q] = pr[q]) /\ pr2 \in [Procs -> ProcRec]
  BY DEF Moves, Sound
<1>1. tab \in Tables /\ tab2 \in Tables
  BY EnterType DEF Sound
<1>2. /\ d \in CacheRec /\ SameLists(c, d) /\ SameOthers(c, d, b)
      /\ d.buf[b] = [c.buf[b] EXCEPT !.lock = c.buf[b].lock - 1]
  BY UnlockEffect DEF Sound
<1>3. Reading(pr, b) /\ pr[p].pc \in ReadingPcs
  BY DEF Reading, ReadPcs, ReadingPcs
<1>4. <<p, 0>> \in H /\ <<p, s>> \notin H /\ s # 0
  <2>1. b # NULL
    BY ConstantTypes
  <2> QED
    BY <1>3, <2>1, ReaderSeat, EntrySeat, SlotFacts
<1>5. ASSUME NEW x \in Bufs
      PROVE  /\ x \in InHand(pr2) <=> x \in InHand(pr)
             /\ Reading(pr2, x) <=> x # b /\ Reading(pr, x)
             /\ HoldersIn(tab2, pr2, x) = IF x = b THEN (H \ {<<p, 0>>}) \cup {<<p, s>>}
                                                   ELSE HoldersIn(tab, pr, x)
  <2>1. /\ x \in InHand(pr2) <=> x \in InHand(pr)
        /\ Reading(pr2, x) <=> x # b /\ Reading(pr, x)
    BY ProcViews DEF ReadingPcs, ReadPcs
  <2>2. HoldersIn(tab, pr2, x) = SeatsAfter(HoldersIn(tab, pr, x), p, r, x)
    BY UserViews
  <2>3. HoldersIn(tab2, pr2, x) = EntryAfter(HoldersIn(tab, pr2, x), p, s, b, x)
    BY <1>1, HoldersTable
  <2>4. <<p, 0>> \in HoldersIn(tab, pr, x) <=> x = b
    BY <1>3, ReaderSeat
  <2>5. <<p, s>> \notin HoldersIn(tab, pr, x)
    <3>1. x # NULL
      BY ConstantTypes
    <3> QED
      BY <3>1, EntrySeat
  <2>6. SeatsAfter(HoldersIn(tab, pr, x), p, r, x)
          = IF x = b THEN H \ {<<p, 0>>} ELSE HoldersIn(tab, pr, x)
    BY <2>4 DEF SeatsAfter, ReadSeat
  <2> QED
    BY <1>4, <2>1, <2>2, <2>3, <2>5, <2>6 DEF EntryAfter
<1> HIDE DEF d, H
<1>6. OneReader(pr2)
  BY StillOneReader DEF Sound
<1>7. \A x \in Bufs \ {b} : SameBuf(c, tab, pr, d, tab2, pr2, x)
  BY <1>2, <1>5 DEF SameBuf, On, SameLists, SameOthers
<1>8. b \notin Range(c.unused) /\ b \notin InHand(pr) /\ c.buf[b].lock = 1
  <2>1. b \notin Range(c.unused)
    BY <1>4 DEF Sound, Used, H
  <2>2. b \notin InHand(pr)
    BY DEF Sound, InHand, OneReader, ReadPcs, ReadingPcs
  <2> QED
    BY <1>3, <2>1, <2>2 DEF Sound, Placed
<1>9. Placed(d, pr2, b)
  <2>1. d.buf[b].lock = 0 /\ d.buf[b].obj = c.buf[b].obj
    <3>1. c.buf[b] \in BufRec
      BY BufIsRec DEF Sound
    <3> QED
      BY <1>2, <1>8, <3>1 DEF BufRec
  <2>2. \A o \in Objs : b \in On(d, o) <=> o = d.buf[b].obj
    BY <1>2, <1>8, <2>1 DEF Sound, Placed, On, SameLists
  <2> QED
    BY <1>2, <1>5, <1>8, <2>1, <2>2 DEF Placed, SameLists
<1>10. Used(d, tab2, pr2, b)
  <2> DEFINE G == (H \ {<<p, 0>>}) \cup {<<p, s>>}
  <2>1. Fits(c.buf[b], H)
    BY <1>8 DEF Sound, Used, H
  <2>2. Cardinality(G) = Cardinality(H)
    <3>1. H \in SUBSET Seats /\ <<p, s>> \in Seats
      BY HoldersAreSeats, SlotFacts DEF H, Seats
    <3>2. Cardinality(H \ {<<p, 0>>}) = Cardinality(H) - 1 /\ Cardinality(H) \in Nat
      BY <1>4, <3>1, SeatRemove, SeatCount
    <3>3. Cardinality(G) = Cardinality(H \ {<<p, 0>>}) + 1
      BY <1>4, <3>1, SeatAdd
    <3> QED
      BY <3>2, <3>3
  <2>3. /\ d.buf[b].refcnt = c.buf[b].refcnt /\ d.buf[b].obj = c.buf[b].obj
        /\ d.buf[b].data = c.buf[b].data /\ d.buf[b].dirty = c.buf[b].dirty
        /\ d.buf[b].fresh = c.buf[b].fresh
    <3>1. c.buf[b] \in BufRec
      BY BufIsRec DEF Sound
    <3> QED
      BY <1>2, <3>1 DEF BufRec
  <2>4. Fits(d.buf[b], G)
    BY <1>4, <2>1, <2>2, <2>3 DEF Fits
  <2>5. b \notin InHand(pr2) /\ HoldersIn(tab2, pr2, b) = G /\ b \notin Range(d.unused)
    BY <1>2, <1>5, <1>8 DEF SameLists
  <2> QED
    BY <2>4, <2>5 DEF Used
<1>11. ASSUME NEW x \in Bufs PROVE Placed(d, pr2, x) /\ Used(d, tab2, pr2, x)
  <2>1. Placed(c, pr, x) /\ Used(c, tab, pr, x)
    BY DEF Sound
  <2> QED
    BY <1>7, <1>9, <1>10, <2>1, SameBufHolds
<1>12. NoSpin(pr2) /\ \A q \in Procs : pr2[q].pc \in ReadingPcs => pr2[q].buf \in Bufs
  BY <1>0 DEF NoSpin, Sound
<1>13. NoRepeats(d)
  BY <1>2 DEF SameLists, NoRepeats, Sound
<1>14. Sound(d, tab2, pr2)
  BY <1>0, <1>1, <1>2, <1>6, <1>11, <1>12, <1>13 DEF Sound
<1> QED
  BY <1>14 DEF d

\* blookup finds the buffer and bref enters it into the table.
LEMMA HitSound ==
  ASSUME Disciplined, NEW c, NEW tab, NEW pr, Sound(c, tab, pr),
         NEW p \in Procs, NEW o \in Objs, NEW b \in Bufs, b \in On(c, o),
         IsStream(o) => c.buf[b].fresh /\ ~c.buf[b].dirty, c.buf[b].refcnt < RefMod - 1,
         NEW s \in Slots, tab[p][s] = NULL,
         NEW tab2, Enters(tab, p, s, b, tab2)
  PROVE  Sound(Blookup(c, o, b), tab2, pr)
<1> DEFINE d == Blookup(c, o, b)
           H == HoldersIn(tab, pr, b)
           G == H \cup {<<p, s>>}
<1>0. tab \in Tables /\ tab2 \in Tables
  BY EnterType DEF Sound
<1>1. b \notin Range(c.unused) /\ b \notin InHand(pr) /\ c.buf[b].obj = o
  BY DEF Sound, Placed
<1>2. /\ d \in CacheRec /\ NoRepeats(d) /\ d.unused = c.unused
      /\ \A n \in Objs : On(d, n) = On(c, n)
      /\ SameOthers(c, d, b)
      /\ d.buf[b].obj = c.buf[b].obj /\ d.buf[b].lock = c.buf[b].lock
      /\ d.buf[b].dirty = c.buf[b].dirty /\ d.buf[b].data = c.buf[b].data
      /\ d.buf[b].fresh = FALSE
      /\ d.buf[b].refcnt = (c.buf[b].refcnt + 1) % RefMod
  BY BlookupEffect DEF Sound
<1>3. ASSUME NEW x \in Bufs
      PROVE  HoldersIn(tab2, pr, x) = IF x = b THEN G ELSE HoldersIn(tab, pr, x)
  <2>1. HoldersIn(tab2, pr, x) = EntryAfter(HoldersIn(tab, pr, x), p, s, b, x)
    BY <1>0, HoldersTable
  <2>2. <<p, s>> \notin HoldersIn(tab, pr, x)
    <3>1. x # NULL
      BY ConstantTypes
    <3> QED
      BY <3>1, EntrySeat
  <2> QED
    BY <2>1, <2>2 DEF EntryAfter
<1>4. (c.buf[b].refcnt + 1) % RefMod = Cardinality(G)
  <2>1. c.buf[b].refcnt = Cardinality(H)
    BY <1>1 DEF Sound, Used, Fits
  <2>2. H \in SUBSET Seats /\ <<p, s>> \in Seats
    BY HoldersAreSeats, SlotFacts DEF Seats
  <2>3. <<p, s>> \notin H
    <3>1. b # NULL
      BY ConstantTypes
    <3> QED
      BY <3>1, EntrySeat
  <2> QED
    BY <2>1, <2>2, <2>3, SeatAdd
<1> HIDE DEF d, H, G
<1>5. \A x \in Bufs \ {b} : SameBuf(c, tab, pr, d, tab2, pr, x)
  BY <1>2, <1>3 DEF SameBuf, SameOthers
<1>6. Placed(d, pr, b)
  BY <1>2 DEF Sound, Placed
<1>7. Used(d, tab2, pr, b)
  <2>1. IsStream(o) => d.buf[b].data = Line /\ ~d.buf[b].dirty
    BY <1>1, <1>2 DEF Sound, Used, Fits
  <2>2. Fits(d.buf[b], G)
    BY <1>1, <1>2, <1>4, <2>1 DEF Fits
  <2>3. HoldersIn(tab2, pr, b) = G
    BY <1>3
  <2> QED
    BY <1>1, <1>2, <2>2, <2>3 DEF Used
<1>8. ASSUME NEW x \in Bufs PROVE Placed(d, pr, x) /\ Used(d, tab2, pr, x)
  <2>1. Placed(c, pr, x) /\ Used(c, tab, pr, x)
    BY DEF Sound
  <2> QED
    BY <1>5, <1>6, <1>7, <2>1, SameBufHolds
<1>9. Sound(d, tab2, pr)
  BY <1>0, <1>2, <1>8 DEF Sound
<1> QED
  BY <1>9 DEF d

\* The last thing a client does with a buffer before it releases it: nothing,
\* BDIRTY or bwrite.
LastUse(c0, c, b) ==
  /\ c \in CacheRec /\ SameLists(c0, c) /\ SameOthers(c0, c, b) /\ Kept(c0.buf[b], c.buf[b])
  /\ IsStream(c0.buf[b].obj) => /\ c.buf[b].data = c0.buf[b].data
                                /\ c.buf[b].fresh = c0.buf[b].fresh
                                /\ c.buf[b].dirty => c.buf[b].data # Line

LEMMA HeldPlace ==
  ASSUME Disciplined, NEW c, NEW tab, NEW pr, Sound(c, tab, pr),
         NEW p \in Procs, NEW s \in Slots, NEW b \in Bufs, tab[p][s] = b
  PROVE  /\ <<p, s>> \in HoldersIn(tab, pr, b) /\ b \notin Range(c.unused) /\ b \notin InHand(pr)
         /\ c.buf[b].refcnt = Cardinality(HoldersIn(tab, pr, b))
<1>1. <<p, s>> \in HoldersIn(tab, pr, b)
  BY EntrySeat
<1>2. b \notin Range(c.unused) /\ c.buf[b].refcnt = Cardinality(HoldersIn(tab, pr, b))
  BY <1>1 DEF Sound, Used, Fits
<1>3. ASSUME b \in InHand(pr) PROVE FALSE
  <2>1. PICK q \in Procs : pr[q].pc = "data" /\ pr[q].buf = b
    BY <1>3 DEF InHand
  <2>2. <<q, 0>> \in HoldersIn(tab, pr, b)
    BY <2>1, ReaderSeat DEF ReadingPcs
  <2>3. Cardinality(HoldersIn(tab, pr, b)) <= 1
    BY <1>2, <1>3 DEF Sound, Used
  <2>4. HoldersIn(tab, pr, b) = {<<q, 0>>}
    BY <2>2, <2>3, OnlyUser
  <2> QED
    BY <1>1, <2>4, SlotFacts
<1> QED
  BY <1>1, <1>2, <1>3

\* The count after a release, and the table without the entry.
LEMMA ReleaseSound ==
  ASSUME Disciplined, NEW c0, NEW tab, NEW pr, Sound(c0, tab, pr),
         NEW p \in Procs, pr[p].pc \notin ReadingPcs,
         NEW s \in Slots, NEW b \in Bufs, tab[p][s] = b, NEW c, LastUse(c0, c, b),
         NEW tab2, Enters(tab, p, s, NULL, tab2),
         NEW r \in ProcRec, r.pc \notin ReadingPcs \cup {"spin"},
         NEW pr2, Moves(pr, p, r, pr2)
  PROVE  Sound(Unref(c, b), tab2, pr2)
<1> DEFINE d == Unref(c, b)
           H == HoldersIn(tab, pr, b)
           G == H \ {<<p, s>>}
<1>0. tab \in Tables /\ tab2 \in Tables
  BY EnterType DEF Sound
<1>1. Sound(c0, tab, pr2)
  BY PrFrame
<1>2. HoldersIn(tab, pr2, b) = H
  <2>1. HoldersIn(tab, pr2, b) = SeatsAfter(H, p, r, b)
    BY UserViews
  <2>2. <<p, 0>> \notin H
    BY ReaderSeat
  <2> QED
    BY <2>1, <2>2 DEF SeatsAfter, ReadSeat
<1>3. /\ <<p, s>> \in H /\ b \notin Range(c0.unused) /\ b \notin InHand(pr2)
      /\ c0.buf[b].refcnt = Cardinality(H)
  BY <1>1, <1>2, HeldPlace
<1>4. ASSUME NEW x \in Bufs
      PROVE  HoldersIn(tab2, pr2, x) = IF x = b THEN G ELSE HoldersIn(tab, pr2, x)
  <2>1. HoldersIn(tab2, pr2, x) = EntryAfter(HoldersIn(tab, pr2, x), p, s, NULL, x)
    BY <1>0, HoldersTable
  <2>2. x # b => <<p, s>> \notin HoldersIn(tab, pr2, x)
    BY EntrySeat
  <2>3. x # NULL
    BY ConstantTypes
  <2> QED
    BY <1>2, <2>1, <2>2, <2>3 DEF EntryAfter
<1> HIDE DEF d, H
<1>5. /\ d \in CacheRec /\ SameLists(c0, d) /\ SameOthers(c0, d, b)
      /\ d.buf[b] = [c.buf[b] EXCEPT !.refcnt = (c.buf[b].refcnt + RefMod - 1) % RefMod]
  BY RefEffect, ZenonT(60) DEF LastUse, SameLists, SameOthers, d
<1>6. /\ d.buf[b].refcnt = Cardinality(G) /\ d.buf[b].obj = c0.buf[b].obj
      /\ d.buf[b].lock = c0.buf[b].lock /\ d.buf[b].data = c.buf[b].data
      /\ d.buf[b].dirty = c.buf[b].dirty /\ d.buf[b].fresh = c.buf[b].fresh
  <2>1. c.buf[b] \in BufRec
    BY BufIsRec DEF LastUse
  <2>2. c.buf[b].refcnt = Cardinality(H) /\ H \in SUBSET Seats
    BY <1>3, HoldersAreSeats DEF LastUse, Kept, H
  <2>3. (c.buf[b].refcnt + RefMod - 1) % RefMod = Cardinality(G)
    <3>1. Cardinality(H) < RefMod
      <4>1. c.buf[b].refcnt \in 0..RefMod-1
        BY BufIsRec DEF LastUse
      <4> QED
        BY <2>2, <4>1, ConstantTypes
    <3> QED
      BY <1>3, <2>2, <3>1, SeatRemove
  <2> DEFINE n == (c.buf[b].refcnt + RefMod - 1) % RefMod
  <2> HIDE DEF n
  <2>4. d.buf[b] = [c.buf[b] EXCEPT !.refcnt = n]
    BY <1>5 DEF n
  <2>5. /\ d.buf[b].refcnt = n /\ d.buf[b].obj = c.buf[b].obj
        /\ d.buf[b].lock = c.buf[b].lock /\ d.buf[b].data = c.buf[b].data
        /\ d.buf[b].dirty = c.buf[b].dirty /\ d.buf[b].fresh = c.buf[b].fresh
    BY <2>1, <2>4 DEF BufRec
  <2> QED
    BY <2>3, <2>5 DEF LastUse, Kept, n
<1>7. \A x \in Bufs \ {b} : SameBuf(c0, tab, pr2, d, tab2, pr2, x)
  BY <1>4, <1>5 DEF SameBuf, On, SameLists, SameOthers
<1>8. Placed(d, pr2, b)
  BY <1>1, <1>5, <1>6 DEF Sound, Placed, SameLists, On
<1>9. Used(d, tab2, pr2, b)
  <2>1. Fits(c0.buf[b], H)
    BY <1>1, <1>2, <1>3 DEF Sound, Used
  <2>2. Cardinality(H) <= 1 => H = {<<p, s>>}
    BY <1>3, OnlyUser DEF H
  <2>3. H \in SUBSET Seats
    BY HoldersAreSeats DEF H
  <2>4. Cardinality(H) <= 1 => G = {} /\ Cardinality(G) = 0
    BY <2>2, FS_EmptySet
  <2>5. Fits(d.buf[b], G)
    <3>1. CASE ~IsStream(c0.buf[b].obj)
      BY <1>6, <3>1 DEF Fits
    <3>2. CASE IsStream(c0.buf[b].obj)
      <4>1. /\ d.buf[b].data = c0.buf[b].data /\ d.buf[b].fresh = c0.buf[b].fresh
            /\ d.buf[b].dirty => d.buf[b].data # Line
        BY <1>6, <3>2 DEF LastUse
      <4>2. d.buf[b].data # Line => ~d.buf[b].fresh /\ Cardinality(H) <= 1
        BY <1>3, <2>1, <3>2, <4>1 DEF Fits
      <4> QED
        BY <1>6, <2>4, <4>1, <4>2 DEF Fits
    <3> QED
      BY <3>1, <3>2
  <2>6. HoldersIn(tab2, pr2, b) = G
    BY <1>4
  <2> QED
    BY <1>3, <1>5, <2>5, <2>6 DEF Used, SameLists
<1>10. ASSUME NEW x \in Bufs PROVE Placed(d, pr2, x) /\ Used(d, tab2, pr2, x)
  <2>1. Placed(c0, pr2, x) /\ Used(c0, tab, pr2, x)
    BY <1>1 DEF Sound
  <2> QED
    BY <1>7, <1>8, <1>9, <2>1, SameBufHolds
<1>11. NoRepeats(d)
  BY <1>1, <1>5 DEF SameLists, NoRepeats, Sound
<1>12. Sound(d, tab2, pr2)
  BY <1>0, <1>1, <1>5, <1>10, <1>11 DEF Sound
<1> QED
  BY <1>12 DEF d

\* bunrefp as a whole.
LEMMA BunrefSound ==
  ASSUME Disciplined, NEW c0, NEW tab, NEW pr, Sound(c0, tab, pr),
         NEW p \in Procs, pr[p].pc \notin ReadingPcs,
         NEW s \in Slots, NEW b \in Bufs, tab[p][s] = b, NEW c, LastUse(c0, c, b),
         NEW tab2, Enters(tab, p, s, NULL, tab2),
         NEW r \in ProcRec, r.pc \notin ReadingPcs \cup {"spin"},
         NEW pr2, Moves(pr, p, r, pr2)
  PROVE  Sound(IF Reclaims(Unref(c, b), b) THEN Bfree(Unref(c, b), b) ELSE Unref(c, b),
               tab2, pr2)
<1> DEFINE d == Unref(c, b)
<1>1. Sound(d, tab2, pr2)
  BY ReleaseSound
<1>2. b \notin Range(d.unused)
  <2>1. b \notin Range(c0.unused)
    BY HeldPlace
  <2>2. SameLists(c, d)
    BY RefEffect DEF LastUse
  <2> QED
    BY <2>1, <2>2 DEF LastUse, SameLists
<1> HIDE DEF d
<1>3. Reclaims(d, b) => Sound(Bfree(d, b), tab2, pr2)
  <2> SUFFICES ASSUME Reclaims(d, b) PROVE Sound(Bfree(d, b), tab2, pr2)
    OBVIOUS
  <2>1. Cardinality(HoldersIn(tab2, pr2, b)) = 0
    BY <1>1, <1>2 DEF Reclaims, Sound, Used, Fits
  <2>2. HoldersIn(tab2, pr2, b) = {}
    BY <2>1, HoldersAreSeats, SeatCount
  <2> QED
    BY <1>1, <1>2, <2>2, FreeSound
<1> QED
  BY <1>1, <1>3 DEF d

\* A release that runs into the lock of a reader.
LEMMA SpinConsistent ==
  ASSUME Disciplined, NEW c0, NEW tab, NEW pr, Sound(c0, tab, pr),
         NEW p \in Procs, pr[p].pc \notin ReadingPcs,
         NEW s \in Slots, NEW b \in Bufs, tab[p][s] = b, NEW c, LastUse(c0, c, b),
         c.buf[b].lock # 0, NEW d, d = [c EXCEPT !.buf[b].lock = @ + 1],
         NEW r \in ProcRec, r.pc = "spin", NEW pr2, Moves(pr, p, r, pr2)
  PROVE  Consistent(d, tab, pr2)
<1>0. pr2[p] = r /\ (\A q \in Procs \ {p} : pr2[q] = pr[q]) /\ pr2 \in [Procs -> ProcRec]
  BY DEF Moves, Sound
<1>1. /\ SameLists(c0, d) /\ SameOthers(c0, d, b)
      /\ d.buf[b] = [c.buf[b] EXCEPT !.lock = c.buf[b].lock + 1]
  <2>1. d.buf = [c.buf EXCEPT ![b] = [c.buf[b] EXCEPT !.lock = c.buf[b].lock + 1]]
        /\ d.unused = c.unused /\ d.objbufs = c.objbufs
    BY DEF LastUse, CacheRec
  <2> QED
    BY <2>1, CacheParts DEF LastUse, SameLists, SameOthers
<1>2. /\ d.buf[b].obj = c0.buf[b].obj /\ d.buf[b].refcnt = c0.buf[b].refcnt
      /\ d.buf[b].data = c.buf[b].data /\ d.buf[b].dirty = c.buf[b].dirty
      /\ d.buf[b].fresh = c.buf[b].fresh
  <2>1. c.buf[b] \in BufRec
    BY BufIsRec DEF LastUse
  <2> QED
    BY <1>1, <2>1 DEF LastUse, Kept, BufRec
<1>3. ASSUME NEW x
      PROVE  /\ x \in InHand(pr2) <=> x \in InHand(pr)
             /\ Reading(pr2, x) <=> Reading(pr, x)
             /\ HoldersIn(tab, pr2, x) = HoldersIn(tab, pr, x)
  <2>1. /\ x \in InHand(pr2) <=> x \in InHand(pr)
        /\ Reading(pr2, x) <=> Reading(pr, x)
    BY ProcViews DEF ReadingPcs, ReadPcs
  <2>2. HoldersIn(tab, pr2, x) = SeatsAfter(HoldersIn(tab, pr, x), p, r, x)
    BY UserViews
  <2>3. <<p, 0>> \notin HoldersIn(tab, pr, x)
    BY ReaderSeat
  <2>4. r.pc \notin ReadingPcs
    BY DEF ReadingPcs
  <2> QED
    BY <2>1, <2>2, <2>3, <2>4 DEF SeatsAfter, ReadSeat
<1>4. Reading(pr, b)
  BY DEF Sound, Placed, LastUse, Kept
<1>5. IsStream(c0.buf[b].obj) => c.buf[b].data = Line
  <2> SUFFICES ASSUME IsStream(c0.buf[b].obj), c.buf[b].data # Line PROVE FALSE
    OBVIOUS
  <2>1. PICK q \in Procs : pr[q].pc \in ReadingPcs /\ pr[q].buf = b
    BY <1>4 DEF Reading, ReadingPcs
  <2>2. <<q, 0>> \in HoldersIn(tab, pr, b)
    BY <2>1, ReaderSeat
  <2>3. <<p, s>> \in HoldersIn(tab, pr, b) /\ b \notin Range(c0.unused)
        /\ c0.buf[b].refcnt = Cardinality(HoldersIn(tab, pr, b))
    BY HeldPlace
  <2>4. c0.buf[b].refcnt <= 1
    BY <2>3 DEF Sound, Used, Fits, LastUse
  <2>5. HoldersIn(tab, pr, b) = {<<p, s>>}
    BY <2>3, <2>4, OnlyUser
  <2> QED
    BY <2>2, <2>5, SlotFacts
<1>6. Consistent(c0, tab, pr)
  BY SoundConsistent
<1>7. InHand(pr2) = InHand(pr)
  BY <1>3
<1>8. Partition(d, InHand(pr2))
  <2>1. \A x \in Bufs : d.buf[x].obj = c0.buf[x].obj
    BY <1>1, <1>2 DEF SameOthers
  <2>2. \A o \in Objs : Range(c0.objbufs[o]) \subseteq Bufs
    BY CacheParts DEF Sound, On
  <2> QED
    BY <1>1, <1>6, <1>7, <2>1, <2>2 DEF Consistent, Partition, SameLists
<1>9. Counted(d, tab, pr2)
  <2>1. \A x \in Bufs : d.buf[x].refcnt = c0.buf[x].refcnt
    BY <1>1, <1>2 DEF SameOthers
  <2> QED
    BY <1>1, <1>3, <1>6, <2>1 DEF Consistent, Counted, SameLists
<1>10. Streams(d)
  <2>1. \A x \in Bufs \ {b} : d.buf[x] = c0.buf[x]
    BY <1>1 DEF SameOthers
  <2>2. IsStream(d.buf[b].obj) => ~d.buf[b].dirty /\ d.buf[b].data = Line
    BY <1>2, <1>5 DEF LastUse
  <2> QED
    BY <1>1, <1>6, <2>1, <2>2 DEF Consistent, Streams, SameLists
<1>11. DirtyStreamUnused(d, tab, pr2)
  <2>1. \A x \in Bufs \ {b} : d.buf[x] = c0.buf[x]
    BY <1>1 DEF SameOthers
  <2>2. IsStream(d.buf[b].obj) => ~d.buf[b].dirty
    BY <1>2, <1>5 DEF LastUse
  <2> QED
    BY <1>1, <1>3, <1>6, <2>1, <2>2 DEF Consistent, DirtyStreamUnused, SameLists
<1>12. Locks(d, pr2)
  <2>1. ~NoSpin(pr2)
    BY <1>0 DEF NoSpin
  <2>2. \A x \in Bufs : d.buf[x].lock # 0 => Reading(pr2, x)
    BY <1>1, <1>3, <1>4, <1>6 DEF SameOthers, Consistent, Locks
  <2> QED
    BY <2>1, <2>2 DEF Locks
<1>13. OneReader(pr2)
  <2>1. r.pc \notin ReadingPcs
    BY DEF ReadingPcs
  <2> QED
    BY <2>1, StillOneReader DEF Sound
<1>14. Unshared(d, pr2)
  <2>1. \A x \in Bufs : d.buf[x].refcnt = c0.buf[x].refcnt
    BY <1>1, <1>2 DEF SameOthers
  <2>2. \A q \in Procs : pr2[q].pc = "data" => pr[q].pc = "data" /\ pr2[q].buf = pr[q].buf
                                                /\ pr[q].buf \in Bufs
    BY <1>0 DEF Sound, ReadingPcs
  <2> QED
    BY <1>6, <2>1, <2>2 DEF Consistent, Unshared
<1> QED
  BY <1>8, <1>9, <1>10, <1>11, <1>12, <1>13, <1>14 DEF Consistent

-----------------------------------------------------------------------------
(* The invariant of the specification, and what every step of a process     *)
(* does to it.                                                              *)

Inv == TypeInv /\ CacheInv

\* While somebody can take a step nobody spins.
LEMMA NowSound ==
  ASSUME Inv, NEW p \in Procs,
         cpu \in {Idle, Syncer} \/ (cpu = p /\ proc[p].pc # "spin")
  PROVE  Sound(cache, table, proc)
<1>1. NoSpin(proc)
  BY BufCacheAssumption DEF Inv, CacheInv, Running, NoSpin
<1>2. /\ cache \in CacheRec /\ table \in Tables /\ proc \in [Procs -> ProcRec]
      /\ \A q \in Procs : proc[q].pc \in ReadingPcs => proc[q].buf \in Bufs
  BY DEF Inv, TypeInv, TypeOK, HasBuffer, Tables, ProcRec, ReadingPcs
<1> QED
  BY <1>1, <1>2, ConsistentSound DEF Inv, CacheInv

\* What the rest of the invariant needs of a step of process p.
LEMMA ProcRest ==
  ASSUME Inv, NEW p \in Procs, cpu \in {Idle, p}, NEW r \in ProcRec, Moves(proc, p, r, proc'),
         cpu' = IF r.pc \in CleaningPcs \cup {"spin"} THEN p ELSE Idle,
         \A q \in Procs \ {p} : table'[q] = table[q],
         sy' = sy \/ (sy.pc = "sleep" /\ sy' = [sy EXCEPT !.pc = "top"]),
         r.pc \in ReadingPcs \cup {"alloc"} => \E s \in Slots : table'[p][s] = NULL,
         r.pc \in {"alloc", "data"} => (Kind[r.obj] = "cmd" => CreateBit(r.mode)),
         r.pc = "data" => cache'.buf[r.buf].obj = r.obj,
         r.pc \in {"write", "writeclean"} =>
           r.buf \in Bufs /\ \E s \in Slots : table'[p][s] = r.buf
  PROVE  Running' /\ BrefPending' /\ WritePending' /\ SyncerOnList'
<1>1. proc'[p] = r /\ \A q \in Procs \ {p} : proc'[q] = proc[q]
  BY DEF Moves, Inv, TypeInv, TypeOK
<1>2. \A q \in Procs \ {p} : proc[q].pc \notin CleaningPcs \cup {"spin"}
  BY BufCacheAssumption DEF Inv, CacheInv, Running
<1>3. sy.pc \notin {"scan", "writeclean"}
  BY BufCacheAssumption DEF Inv, CacheInv, Running, Idle, Syncer
<1>4. sy \in [pc : SyPcs, obj : Objs, next : Bufs \cup {NULL}, cur : Bufs \cup {NULL},
              wobj : Objs, wblk : Blks]
  BY DEF Inv, TypeInv, TypeOK
<1>5. sy'.pc \notin {"scan", "writeclean"} /\ (sy'.pc = "write" => sy.pc = "write" /\ sy' = sy)
  BY <1>3, <1>4
<1>6. Running'
  BY <1>1, <1>2, <1>5 DEF Running
<1>7. BrefPending'
  <2>1. ASSUME NEW q \in Procs, q # p
        PROVE  /\ proc'[q].pc \in ReadingPcs \cup {"alloc"} => FreeSlots(q)' # {}
               /\ proc'[q].pc \notin {"alloc", "data"}
    <3>1. FreeSlots(q)' = FreeSlots(q)
      BY <2>1 DEF FreeSlots
    <3> QED
      BY <1>1, <1>2, <2>1, <3>1 DEF Inv, CacheInv, BrefPending, CleaningPcs
  <2>2. r.pc \in ReadingPcs \cup {"alloc"} => FreeSlots(p)' # {}
    BY DEF FreeSlots
  <2> QED
    BY <1>1, <2>1, <2>2 DEF BrefPending
<1>8. WritePending'
  <2>1. ASSUME NEW q \in Procs, q # p, proc'[q].pc \in {"write", "writeclean"}
        PROVE  proc'[q].buf \in HeldBy(q)'
    <3>1. HeldBy(q)' = HeldBy(q)
      BY <2>1 DEF HeldBy
    <3> QED
      BY <1>1, <2>1, <3>1 DEF Inv, CacheInv, WritePending
  <2>2. r.pc \in {"write", "writeclean"} => r.buf \in HeldBy(p)'
    BY ConstantTypes DEF HeldBy
  <2> QED
    BY <1>1, <2>1, <2>2 DEF WritePending
<1>9. SyncerOnList'
  BY <1>5 DEF Inv, CacheInv, SyncerOnList
<1> QED
  BY <1>6, <1>7, <1>8, <1>9

LEMMA MovesTwice ==
  ASSUME NEW f \in [Procs -> ProcRec], NEW p \in Procs, NEW x \in ProcRec, NEW r \in ProcRec,
         NEW g, Moves(f, p, x, g), NEW h, Moves(f, p, r, h)
  PROVE  Moves(g, p, r, h)
BY DEF Moves

\* The end of a bref that created its buffer.
LEMMA ReturnStep ==
  ASSUME Disciplined, Inv, NEW p \in Procs, cpu \in {Idle, p},
         NEW c, NEW pr, Sound(c, table, pr), NEW x \in ProcRec, Moves(proc, p, x, pr),
         x.pc \in ReadPcs, NEW b \in Bufs, x.buf = b,
         FreeSlots(p) # {}, Return(p, Unlock(c, b), b), UNCHANGED <<sy, restart>>
  PROVE  CacheInv'
<1>0. proc \in [Procs -> ProcRec] /\ pr[p] = x /\ NoCall \in ProcRec /\ NoCall.pc = "user"
  BY NoCallType DEF Inv, TypeInv, TypeOK, ProcRec, Moves, NoCall
<1>1. PICK s \in FreeSlots(p) : table' = [table EXCEPT ![p][s] = b]
  BY DEF Return
<1>2. s \in Slots /\ table[p][s] = NULL /\ Enters(table, p, s, b, table')
  BY <1>1 DEF FreeSlots, Enters
<1>3. Moves(proc, p, NoCall, proc') /\ cache' = Unlock(c, b) /\ cpu' = Idle
  BY DEF Return, Moves
<1>4. Moves(pr, p, NoCall, proc')
  BY <1>0, <1>3, MovesTwice
<1>5. NoCall.pc \notin ReadingPcs \cup {"spin"}
  BY <1>0 DEF ReadingPcs
<1>6. Sound(Unlock(c, b), table', proc')
  BY <1>0, <1>2, <1>4, <1>5, ReturnSound
<1>7. Consistent(cache, table, proc)'
  BY <1>3, <1>6, SoundConsistent
<1>8. \A q \in Procs \ {p} : table'[q] = table[q]
  BY <1>1 DEF Inv, TypeInv, TypeOK
<1>9. Running' /\ BrefPending' /\ WritePending' /\ SyncerOnList'
  BY <1>0, <1>3, <1>8, ProcRest DEF CleaningPcs, ReadingPcs
<1> QED
  BY <1>7, <1>9 DEF CacheInv

\* The read of bread into a buffer that its reader has locked.
LEMMA ObjReadSound ==
  ASSUME NEW c, NEW tab, NEW pr, Sound(c, tab, pr), NEW p \in Procs, pr[p].pc \in ReadPcs,
         NEW b \in Bufs, pr[p].buf = b
  PROVE  Sound(ObjRead(c, b), tab, pr)
<1> DEFINE d == ObjRead(c, b)
<1>1. /\ d \in CacheRec /\ SameLists(c, d) /\ SameOthers(c, d, b)
      /\ Kept(c.buf[b], d.buf[b]) /\ d.buf[b].dirty = c.buf[b].dirty
      /\ IsStream(c.buf[b].obj) => d.buf[b].data = Line
  BY ObjReadEffect DEF Sound
<1>2. <<p, 0>> \in HoldersIn(tab, pr, b)
  BY ReaderSeat DEF ReadPcs, ReadingPcs
<1>3. b \notin Range(c.unused) /\ IsStream(c.buf[b].obj) => ~c.buf[b].dirty
  BY <1>2 DEF Sound, Used, Fits
<1> HIDE DEF d
<1>4. Sound(d, tab, pr)
  BY <1>1, <1>3, FrameSound
<1> QED
  BY <1>4 DEF d

\* Rest of bcreate and bread for a descriptor in hand.
LEMMA LinkReadStep ==
  ASSUME Disciplined, Inv, NEW p \in Procs, cpu \in {Idle, p},
         NEW c0, NEW pr, Sound(c0, table, pr), NEW x \in ProcRec, Moves(proc, p, x, pr),
         x.pc = "data", NEW b \in Bufs, x.buf = b, NEW m,
         FreeSlots(p) # {}, Kind[c0.buf[b].obj] = "cmd" => CreateBit(m),
         LinkAndRead(p, c0, b, m), UNCHANGED <<sy, restart>>
  PROVE  CacheInv'
<1> DEFINE c == Link(c0, b)
           rd(pc) == [NoCall EXCEPT !.pc = pc, !.buf = b]
<1>0. proc \in [Procs -> ProcRec] /\ pr \in [Procs -> ProcRec] /\ pr[p] = x
  BY DEF Inv, TypeInv, TypeOK, ProcRec, Moves
<1>1. \A pc \in ReadPcs : rd(pc) \in ProcRec /\ rd(pc).pc = pc /\ rd(pc).buf = b
  BY NoCallType DEF NoCall, ProcRec, ProcPcs, ReadPcs
<1>2. ASSUME NEW pc \in ReadPcs, NEW pr2, Moves(proc, p, rd(pc), pr2)
      PROVE  Sound(c, table, pr2)
  <2> DEFINE r == rd(pc)
  <2>1. r \in ProcRec /\ r.pc \in ReadPcs /\ r.buf = b
    BY <1>1
  <2> HIDE DEF r
  <2>2. Moves(pr, p, r, pr2)
    BY <1>0, <1>2, <2>1, MovesTwice DEF r
  <2> QED
    BY <1>0, <2>1, <2>2, LinkSound
<1>3. c.buf[b].obj = c0.buf[b].obj /\ c0.buf[b].obj \in Objs
  <2>1. b \in InHand(pr) /\ c0.buf[b] \in BufRec /\ c0.buf[b].obj \in Objs
    BY <1>0, BufIsRec DEF InHand, Sound
  <2>2. b \notin On(c0, c0.buf[b].obj)
    BY <2>1 DEF Sound, Placed
  <2>3. c.buf[b] = [c0.buf[b] EXCEPT !.lock = c0.buf[b].lock + 1]
    BY <2>2, LinkEffect DEF Sound
  <2> QED
    BY <2>1, <2>3 DEF BufRec
<1> DEFINE Wait(pc) == /\ cache' = c
                       /\ proc' = [proc EXCEPT ![p] = rd(pc)]
                       /\ cpu' = IF pc = "read" THEN Idle ELSE p
                       /\ UNCHANGED table
<1>4. \/ Return(p, Unlock(c, b), b)
      \/ Return(p, Unlock(ObjRead(c, b), b), b)
      \/ Wait("read") \/ Wait("readclean")
  <2>1. CASE IsFile(c0.buf[b].obj)
    BY <1>3, <2>1 DEF LinkAndRead
  <2>2. CASE ~IsFile(c0.buf[b].obj) /\ CreateBit(m)
    BY <1>3, <2>2 DEF LinkAndRead
  <2>3. CASE ~IsFile(c0.buf[b].obj) /\ ~CreateBit(m)
    <3>1. Kind[c0.buf[b].obj] = "con"
      BY <1>3, <2>3, BufCacheAssumption, LenProperties DEF IsFile, Objs
    <3> QED
      BY <1>3, <2>3, <3>1 DEF LinkAndRead
  <2> QED
    BY <2>1, <2>2, <2>3
<1> DEFINE y == rd("read")
           pr1 == [proc EXCEPT ![p] = y]
<1>5. y \in ProcRec /\ y.pc \in ReadPcs /\ y.buf = b /\ Moves(proc, p, y, pr1)
      /\ Sound(c, table, pr1) /\ pr1[p] = y
  <2>1. Moves(proc, p, rd("read"), pr1) /\ "read" \in ReadPcs
    BY DEF Moves, ReadPcs
  <2> QED
    BY <1>0, <1>1, <1>2, <2>1
<1> HIDE DEF c, y, pr1
<1>6. CASE Return(p, Unlock(c, b), b)
  BY <1>5, <1>6, ReturnStep
<1>7. CASE Return(p, Unlock(ObjRead(c, b), b), b)
  <2>1. Sound(ObjRead(c, b), table, pr1)
    BY <1>5, ObjReadSound
  <2> QED
    BY <1>5, <1>7, <2>1, ReturnStep
<1>8. ASSUME NEW pc \in ReadPcs, Wait(pc) PROVE CacheInv'
  <2> DEFINE r == rd(pc)
  <2>1. r \in ProcRec /\ r.pc = pc /\ r.buf = b
    BY <1>1
  <2>2. Moves(proc, p, r, proc')
    BY <1>8 DEF Moves
  <2>3. Sound(cache', table', proc')
    BY <1>2, <1>8, <2>2
  <2> HIDE DEF r
  <2>4. Consistent(cache, table, proc)'
    BY <2>3, SoundConsistent
  <2>5. cpu' = IF r.pc \in CleaningPcs \cup {"spin"} THEN p ELSE Idle
    BY <1>8, <2>1 DEF ReadPcs, CleaningPcs
  <2>6. r.pc \notin {"alloc", "data", "write", "writeclean"}
    BY <2>1 DEF ReadPcs
  <2>7. \E s \in Slots : table'[p][s] = NULL
    BY <1>8 DEF FreeSlots
  <2>8. \A q \in Procs \ {p} : table'[q] = table[q]
    BY <1>8
  <2>9. sy' = sy
    OBVIOUS
  <2>10. Running' /\ BrefPending' /\ WritePending' /\ SyncerOnList'
    BY <2>1, <2>2, <2>5, <2>6, <2>7, <2>8, <2>9, ProcRest
  <2> QED
    BY <2>4, <2>10 DEF CacheInv
<1>9. "read" \in ReadPcs /\ "readclean" \in ReadPcs
  BY DEF ReadPcs
<1> QED
  BY <1>4, <1>6, <1>7, <1>8, <1>9

\* bcreate as far as it goes without a switch.
LEMMA BcreateStep ==
  ASSUME Disciplined, Inv, NEW p \in Procs, cpu \in {Idle, p}, proc[p].pc \in {"user", "alloc"},
         NEW o \in Objs, NEW k \in Blks, NEW m \in 0..3, Kind[o] = "cmd" => CreateBit(m),
         FreeSlots(p) # {}, cache.unused # <<>>,
         Bcreate(p, o, k, m), UNCHANGED <<sy, restart>>
  PROVE  CacheInv'
<1> DEFINE b == Last(cache.unused)
           c == Take(cache, o, k)
           x == [pc |-> "data", obj |-> o, blk |-> k, mode |-> m, buf |-> b]
           pr == [proc EXCEPT ![p] = x]
<1>0. Sound(cache, table, proc)
  BY NowSound
<1>1. c \in CacheRec /\ b \in Bufs /\ c.buf[b].obj = o
  <2>1. cache \in CacheRec /\ NoRepeats(cache)
    BY <1>0 DEF Sound
  <2>2. c \in CacheRec /\ b \in Bufs
    BY <2>1, TakeType
  <2>3. c.buf[b].obj = o
    BY <2>1, TakeEffect
  <2> QED
    BY <2>2, <2>3
<1>2. x \in ProcRec
  BY <1>1 DEF ProcRec, ProcPcs
<1>3. Moves(proc, p, x, pr) /\ x.pc = "data" /\ x.buf = b /\ x.obj = o /\ x.mode = m
  BY DEF Moves
<1>4. Bcreate(p, o, k, m) <=>
        \/ LinkAndRead(p, c, b, m)
        \/ "mem_short" \in Behaviours /\ cache' = c /\ proc' = pr /\ cpu' = p /\ UNCHANGED table
  BY DEF Bcreate
<1> HIDE DEF x, pr, c
<1>5. Sound(c, table, pr)
  BY <1>0, <1>2, <1>3, TakeSound DEF ReadingPcs, c
<1> HIDE DEF b
<1>6. CASE LinkAndRead(p, c, b, m)
  BY <1>1, <1>2, <1>3, <1>5, <1>6, LinkReadStep
<1>7. CASE cache' = c /\ proc' = pr /\ cpu' = p /\ UNCHANGED table
  <2>1. Consistent(cache, table, proc)'
    BY <1>5, <1>7, SoundConsistent
  <2>2. Moves(proc, p, x, proc') /\ \E s \in Slots : table'[p][s] = NULL
    BY <1>3, <1>7 DEF FreeSlots
  <2>3. cpu' = IF x.pc \in CleaningPcs \cup {"spin"} THEN p ELSE Idle
    BY <1>3, <1>7 DEF CleaningPcs
  <2>4. /\ Kind[x.obj] = "cmd" => CreateBit(x.mode)
        /\ cache'.buf[x.buf].obj = x.obj
    BY <1>1, <1>3, <1>7
  <2>5. \A q \in Procs \ {p} : table'[q] = table[q]
    BY <1>7
  <2>6. sy' = sy /\ x.pc \notin {"write", "writeclean"}
    BY <1>3
  <2>7. Running' /\ BrefPending' /\ WritePending' /\ SyncerOnList'
    BY <1>2, <2>2, <2>3, <2>4, <2>5, <2>6, ProcRest
  <2> QED
    BY <2>1, <2>7 DEF CacheInv
<1> QED
  BY <1>4, <1>6, <1>7

LEMMA UnchangedTables ==
  ASSUME UNCHANGED table, NEW p
  PROVE  \A q \in Procs \ {p} : table'[q] = table[q]
OBVIOUS

\* A step of p that leaves the cache alone, or makes a change that FrameSound
\* allows, and moves p outside of bread.
LEMMA MoveStep ==
  ASSUME Disciplined, Inv, NEW p \in Procs, cpu \in {Idle, p}, Sound(cache', table, proc),
         NEW r \in ProcRec, Moves(proc, p, r, proc'), UNCHANGED <<table, sy>>,
         cpu' = IF r.pc \in CleaningPcs \cup {"spin"} THEN p ELSE Idle,
         \/ proc[p].pc \notin ReadingPcs /\ r.pc \notin ReadingPcs \cup {"alloc", "spin"}
         \/ proc[p].pc \in ReadPcs /\ r.pc \in ReadPcs /\ r.buf = proc[p].buf,
         r.pc \in {"write", "writeclean"} => r.buf \in Bufs /\ r.buf \in HeldBy(p)
  PROVE  CacheInv'
<1>1. Sound(cache', table, proc')
  BY PrFrame
<1>2. Consistent(cache, table, proc)'
  BY <1>1, SoundConsistent
<1>3. r.pc \in ReadingPcs \cup {"alloc"} => \E s \in Slots : table'[p][s] = NULL
  <2>1. proc[p].pc \in ReadPcs => FreeSlots(p) # {}
    BY DEF Inv, CacheInv, BrefPending, ReadingPcs, ReadPcs
  <2> QED
    BY <2>1 DEF FreeSlots
<1>4. r.pc \in {"write", "writeclean"} =>
        r.buf \in Bufs /\ \E s \in Slots : table'[p][s] = r.buf
  BY DEF HeldBy
<1>5. r.pc \notin {"alloc", "data"}
  BY DEF ReadPcs, ReadingPcs
<1>6. \A q \in Procs \ {p} : table'[q] = table[q]
  BY UnchangedTables
<1>7. Running' /\ BrefPending' /\ WritePending' /\ SyncerOnList'
  BY <1>3, <1>4, <1>5, <1>6, ProcRest
<1> QED
  BY <1>2, <1>7 DEF CacheInv

\* bunrefp, called with the processor or by a client.
LEMMA BunrefStep ==
  ASSUME Disciplined, Inv, NEW p \in Procs, cpu \in {Idle, p},
         proc[p].pc \in {"user", "exit", "writeclean"}, NEW b \in Bufs, b \in HeldBy(p),
         NEW c, LastUse(cache, c, b), Bunrefp(p, c, b)
  PROVE  CacheInv'
<1>0. Sound(cache, table, proc) /\ proc[p] \in ProcRec
  BY NowSound DEF Inv, TypeInv, TypeOK, ProcRec
<1>1. CASE c.buf[b].lock # 0
  <2> DEFINE r == [proc[p] EXCEPT !.pc = "spin"]
  <2>1. r \in ProcRec /\ r.pc = "spin"
    BY <1>0 DEF ProcRec, ProcPcs
  <2>2. /\ cache' = [c EXCEPT !.buf[b].lock = @ + 1] /\ cpu' = p
        /\ proc' = [proc EXCEPT ![p].pc = "spin"] /\ UNCHANGED <<table, sy>>
    BY <1>1 DEF Bunrefp, Goto
  <2>3. Moves(proc, p, r, proc')
    BY <2>2 DEF Moves
  <2>4. PICK s \in Slots : table[p][s] = b
    BY DEF HeldBy
  <2> HIDE DEF r
  <2>5. Consistent(cache', table, proc')
    <3>1. proc[p].pc \notin ReadingPcs
      BY DEF ReadingPcs
    <3> QED
      BY <1>0, <1>1, <2>1, <2>2, <2>3, <2>4, <3>1, SpinConsistent
  <2>6. \A q \in Procs \ {p} : table'[q] = table[q]
    BY <2>2, UnchangedTables
  <2>7. cpu' = IF r.pc \in CleaningPcs \cup {"spin"} THEN p ELSE Idle
    BY <2>1, <2>2
  <2>8. Running' /\ BrefPending' /\ WritePending' /\ SyncerOnList'
    BY <2>1, <2>2, <2>3, <2>6, <2>7, ProcRest DEF ReadingPcs
  <2> QED
    BY <2>2, <2>5, <2>8 DEF CacheInv
<1>2. CASE c.buf[b].lock = 0
  <2> DEFINE r == IF proc[p].pc = "exit" THEN proc[p] ELSE NoCall
             d == Unref(c, b)
  <2>1. r \in ProcRec /\ r.pc \in {"exit", "user"}
    BY <1>0, NoCallType DEF NoCall
  <2>2. /\ cache' = IF Reclaims(d, b) THEN Bfree(d, b) ELSE d
        /\ proc' = [proc EXCEPT ![p] = r] /\ cpu' = Idle
        /\ sy' = sy \/ (sy.pc = "sleep" /\ sy' = [sy EXCEPT !.pc = "top"])
    BY <1>2 DEF Bunrefp, SyncerRestart
  <2>3. Moves(proc, p, r, proc')
    BY <2>2 DEF Moves
  <2>4. PICK s \in Slots : table[p][s] = b /\ table' = [table EXCEPT ![p][s] = NULL]
    BY <1>2 DEF Bunrefp, EraseEntry
  <2>5. Enters(table, p, s, NULL, table')
    BY <2>4 DEF Enters
  <2> HIDE DEF r
  <2>6. Sound(cache', table', proc')
    <3>1. proc[p].pc \notin ReadingPcs /\ r.pc \notin ReadingPcs \cup {"spin"}
      BY <2>1 DEF ReadingPcs
    <3> QED
      BY <1>0, <2>1, <2>2, <2>3, <2>4, <2>5, <3>1, BunrefSound
  <2>7. Consistent(cache, table, proc)'
    BY <2>6, SoundConsistent
  <2>8. \A q \in Procs \ {p} : table'[q] = table[q]
    BY <2>4 DEF Inv, TypeInv, TypeOK
  <2>9. /\ r.pc \notin CleaningPcs \cup {"spin"} \cup ReadingPcs
        /\ r.pc \notin {"alloc", "data", "write", "writeclean"}
    BY <2>1 DEF CleaningPcs, ReadingPcs
  <2>10. Running' /\ BrefPending' /\ WritePending' /\ SyncerOnList'
    BY <2>1, <2>2, <2>3, <2>8, <2>9, ProcRest
  <2> QED
    BY <2>7, <2>10 DEF CacheInv
<1> QED
  BY <1>1, <1>2

-----------------------------------------------------------------------------
(* Writes.                                                                   *)

LEMMA WriteSound ==
  ASSUME NEW c, NEW tab, NEW pr, Sound(c, tab, pr), NEW b \in Bufs,
         NEW o \in Objs, NEW k \in Blks
  PROVE  /\ Sound(BwriteClean(c, b), tab, pr)
         /\ Sound(ObjWrite(c, b, o, k), tab, pr)
<1> DEFINE d == BwriteClean(c, b)
           e == ObjWrite(c, b, o, k)
<1>1. /\ d \in CacheRec /\ SameLists(c, d) /\ SameOthers(c, d, b) /\ Kept(c.buf[b], d.buf[b])
      /\ d.buf[b].data = c.buf[b].data /\ d.buf[b].fresh = c.buf[b].fresh
      /\ d.buf[b].dirty = FALSE
  BY WriteEffect DEF Sound
<1>2. e \in CacheRec /\ SameLists(c, e) /\ e.buf = c.buf
  BY WriteEffect DEF Sound
<1> HIDE DEF d, e
<1>3. b \notin Range(c.unused) /\ IsStream(c.buf[b].obj) =>
        /\ c.buf[b].data # Line => ~c.buf[b].fresh /\ c.buf[b].refcnt <= 1
        /\ c.buf[b].dirty => c.buf[b].data # Line
  BY DEF Sound, Used, Fits
<1>4. Sound(d, tab, pr)
  BY <1>1, <1>3, FrameSound DEF Kept
<1>5. SameOthers(c, e, b) /\ Kept(c.buf[b], e.buf[b])
  BY <1>2 DEF SameOthers, Kept
<1>6. Sound(e, tab, pr)
  BY <1>2, <1>3, <1>5, FrameSound
<1> QED
  BY <1>4, <1>6 DEF d, e

LEMMA WrittenSound ==
  ASSUME NEW c, NEW tab, NEW pr, Sound(c, tab, pr), NEW b \in Bufs
  PROVE  Sound(Written(c, b), tab, pr)
<1> DEFINE d == BwriteClean(c, b)
<1>1. c.buf[b].obj \in Objs /\ c.buf[b].blk \in Blks
  BY BufIsRec DEF Sound
<1>2. Sound(d, tab, pr)
  BY <1>1, WriteSound
<1> HIDE DEF d
<1>3. Sound(ObjWrite(d, b, c.buf[b].obj, c.buf[b].blk), tab, pr)
  BY <1>1, <1>2, WriteSound
<1> QED
  BY <1>3 DEF Written, d

\* What a client may do last with a buffer in its table.
LEMMA LastUses ==
  ASSUME Disciplined, Sound(cache, table, proc), NEW p \in Procs, NEW b \in Bufs, b \in HeldBy(p)
  PROVE  /\ LastUse(cache, cache, b)
         /\ LastUse(cache, Written(cache, b), b)
         /\ LastUse(cache, ObjWrite(cache, b, cache.buf[b].obj, cache.buf[b].blk), b)
         /\ MayModify(b) => LastUse(cache, Bdirty(Modify(cache, b), b), b)
<1>0. PICK s \in Slots : table[p][s] = b
  BY DEF HeldBy
<1>1. b \notin Range(cache.unused)
  BY <1>0, HeldPlace
<1>2. IsStream(cache.buf[b].obj) /\ cache.buf[b].dirty => cache.buf[b].data # Line
  BY <1>1 DEF Sound, Used, Fits
<1>3. cache \in CacheRec /\ cache.buf[b].obj \in Objs /\ cache.buf[b].blk \in Blks
  BY BufIsRec DEF Sound
<1> DEFINE o == cache.buf[b].obj
           k == cache.buf[b].blk
           c == BwriteClean(cache, b)
           w == ObjWrite(cache, b, o, k)
           v == ObjWrite(c, b, o, k)
           m == Bdirty(Modify(cache, b), b)
<1>4. LastUse(cache, cache, b)
  BY <1>2, <1>3 DEF LastUse, SameLists, SameOthers, Kept
<1>5. LastUse(cache, w, b)
  <2>1. w \in CacheRec /\ SameLists(cache, w) /\ w.buf = cache.buf
    BY <1>3, WriteEffect
  <2> HIDE DEF w
  <2> QED
    BY <1>2, <2>1 DEF LastUse, SameOthers, Kept
<1>6. LastUse(cache, v, b)
  <2>1. /\ c \in CacheRec /\ SameLists(cache, c) /\ SameOthers(cache, c, b)
        /\ Kept(cache.buf[b], c.buf[b]) /\ c.buf[b].data = cache.buf[b].data
        /\ c.buf[b].fresh = cache.buf[b].fresh /\ c.buf[b].dirty = FALSE
    BY <1>3, WriteEffect
  <2> HIDE DEF c
  <2>2. v \in CacheRec /\ SameLists(c, v) /\ v.buf = c.buf
    BY <1>3, <2>1, WriteEffect
  <2> HIDE DEF v
  <2> QED
    BY <2>1, <2>2 DEF LastUse, SameOthers, SameLists, Kept
<1>7. MayModify(b) => LastUse(cache, m, b)
  <2> SUFFICES ASSUME MayModify(b) PROVE LastUse(cache, m, b)
    OBVIOUS
  <2>1. /\ IsFile(cache.buf[b].obj) => cache.buf[b].data < MaxVersion
        /\ IsStream(cache.buf[b].obj) => cache.buf[b].data # Line
    BY DEF MayModify, Disciplined, IsStream
  <2>2. /\ m \in CacheRec /\ SameLists(cache, m) /\ SameOthers(cache, m, b)
        /\ Kept(cache.buf[b], m.buf[b])
        /\ IsStream(cache.buf[b].obj) => /\ m.buf[b].data = cache.buf[b].data
                                         /\ m.buf[b].fresh = cache.buf[b].fresh
    BY <1>3, <2>1, ModifyEffect
  <2> HIDE DEF m
  <2> QED
    BY <2>1, <2>2 DEF LastUse
<1>8. Written(cache, b) = v
  BY DEF Written
<1> QED
  BY <1>4, <1>5, <1>6, <1>7, <1>8

-----------------------------------------------------------------------------
(* Every action preserves the invariant.                                     *)

\* p gives the call up, or it is over.
LEMMA FailStep ==
  ASSUME Disciplined, Inv, NEW p \in Procs, cpu \in {Idle, p}, proc[p].pc \notin ReadingPcs,
         NEW c, Sound(c, table, proc), Fail(p, c), UNCHANGED <<sy, restart>>
  PROVE  CacheInv'
<1>1. NoCall \in ProcRec /\ NoCall.pc = "user"
  BY NoCallType DEF NoCall
<1>2. Moves(proc, p, NoCall, proc') /\ cache' = c /\ cpu' = Idle /\ UNCHANGED table
  BY DEF Fail, Moves
<1>3. NoCall.pc \notin ReadingPcs \cup CleaningPcs \cup {"alloc", "spin", "write", "writeclean"}
  BY <1>1 DEF ReadingPcs, CleaningPcs
<1> QED
  BY <1>1, <1>2, <1>3, MoveStep

\* p moves on and nothing else happens.
LEMMA GotoStep ==
  ASSUME Disciplined, Inv, NEW p \in Procs, cpu \in {Idle, p}, proc[p].pc # "spin",
         NEW pc \in ProcPcs, Goto(p, pc), UNCHANGED <<cache, table, sy, restart>>,
         cpu' = IF pc \in CleaningPcs \cup {"spin"} THEN p ELSE Idle,
         \/ proc[p].pc \notin ReadingPcs /\ pc \notin ReadingPcs \cup {"alloc", "spin"}
         \/ proc[p].pc \in ReadPcs /\ pc \in ReadPcs,
         pc \in {"write", "writeclean"} => proc[p].pc \in {"write", "writeclean"}
  PROVE  CacheInv'
<1> DEFINE r == [proc[p] EXCEPT !.pc = pc]
<1>0. Sound(cache, table, proc) /\ proc[p] \in ProcRec
  BY NowSound DEF Inv, TypeInv, TypeOK, ProcRec
<1>1. r \in ProcRec /\ r.pc = pc /\ r.buf = proc[p].buf
  BY <1>0 DEF ProcRec
<1>2. Moves(proc, p, r, proc')
  BY DEF Moves, Goto
<1>3. proc[p].pc \in {"write", "writeclean"} => proc[p].buf \in Bufs /\ proc[p].buf \in HeldBy(p)
  BY DEF Inv, CacheInv, WritePending, TypeInv, HasBuffer
<1> HIDE DEF r
<1>4. Sound(cache', table, proc)
  BY <1>0
<1> QED
  BY <1>1, <1>2, <1>3, <1>4, MoveStep

LEMMA KernelSafe ==
  ASSUME Disciplined, Inv, NEW p \in Procs, KernelStep(p)
  PROVE  CacheInv'
<1> DEFINE b == proc[p].buf
<1>0. cpu = p /\ proc[p].pc \in CleaningPcs /\ proc[p].pc # "spin"
  BY DEF KernelStep, AllocEnd, DataEnd, ReadEnd, WriteEnd, ForgetEnd, CleaningPcs
<1>1. Sound(cache, table, proc) /\ proc[p] \in ProcRec
  BY <1>0, NowSound DEF Inv, TypeInv, TypeOK, ProcRec
<1>2. Moves(proc, p, proc[p], proc)
  BY DEF Moves, Inv, TypeInv, TypeOK
<1>3. CASE AllocEnd(p)
  <2>1. proc[p].pc = "alloc" /\ UNCHANGED <<sy, restart>>
    BY <1>3 DEF AllocEnd
  <2>2. /\ FreeSlots(p) # {} /\ (Kind[proc[p].obj] = "cmd" => CreateBit(proc[p].mode))
        /\ proc[p].obj \in Objs /\ proc[p].blk \in Blks /\ proc[p].mode \in 0..3
    BY <1>1, <2>1 DEF Inv, CacheInv, BrefPending, ProcRec
  <2>3. CASE cache.unused # <<>>
    <3>1. Bcreate(p, proc[p].obj, proc[p].blk, proc[p].mode)
      BY <1>3, <2>3 DEF AllocEnd
    <3> QED
      BY <1>0, <2>1, <2>2, <2>3, <3>1, BcreateStep
  <2>4. CASE cache.unused = <<>>
    <3>1. Fail(p, cache)
      BY <1>3, <2>4 DEF AllocEnd
    <3> QED
      BY <1>0, <1>1, <2>1, <3>1, FailStep DEF ReadingPcs
  <2> QED
    BY <2>3, <2>4
<1>4. CASE DataEnd(p)
  <2>1. proc[p].pc = "data" /\ UNCHANGED <<sy, restart>>
    BY <1>4 DEF DataEnd
  <2>2. b \in Bufs
    BY <2>1 DEF Inv, TypeInv, HasBuffer
  <2>3. FreeSlots(p) # {} /\ (Kind[cache.buf[b].obj] = "cmd" => CreateBit(proc[p].mode))
    BY <2>1 DEF Inv, CacheInv, BrefPending, ReadingPcs
  <2>4. CASE LinkAndRead(p, cache, b, proc[p].mode)
    BY <1>0, <1>1, <1>2, <2>1, <2>2, <2>3, <2>4, LinkReadStep
  <2>5. CASE Fail(p, Untake(cache, b))
    <3>1. NoCall \in ProcRec /\ NoCall.pc = "user"
      BY NoCallType DEF NoCall
    <3>2. Moves(proc, p, NoCall, proc') /\ cache' = Untake(cache, b) /\ cpu' = Idle
          /\ UNCHANGED table
      BY <2>5 DEF Fail, Moves
    <3>3. /\ NoCall.pc \notin ReadingPcs \cup {"spin"}
          /\ NoCall.pc \notin CleaningPcs \cup {"spin"}
          /\ NoCall.pc \notin ReadingPcs \cup {"alloc"}
          /\ NoCall.pc \notin {"alloc", "data", "write", "writeclean"}
      BY <3>1 DEF ReadingPcs, CleaningPcs
    <3>4. Sound(cache', table, proc')
      BY <1>1, <2>1, <2>2, <3>1, <3>2, <3>3, UntakeSound
    <3>5. Consistent(cache, table, proc)'
      BY <3>2, <3>4, SoundConsistent
    <3>6. \A q \in Procs \ {p} : table'[q] = table[q]
      BY <3>2, UnchangedTables
    <3>7. Running' /\ BrefPending' /\ WritePending' /\ SyncerOnList'
      BY <1>0, <2>1, <3>1, <3>2, <3>3, <3>6, ProcRest
    <3> QED
      BY <3>5, <3>7 DEF CacheInv
  <2> QED
    BY <1>4, <2>4, <2>5 DEF DataEnd
<1>5. CASE ReadEnd(p)
  <2>1. proc[p].pc = "readclean" /\ proc[p].pc \in ReadPcs /\ UNCHANGED <<sy, restart>>
    BY <1>5 DEF ReadEnd, ReadPcs
  <2>2. b \in Bufs /\ FreeSlots(p) # {}
    BY <2>1 DEF Inv, TypeInv, HasBuffer, CacheInv, BrefPending, ReadingPcs
  <2>3. CASE Return(p, Unlock(ObjRead(cache, b), b), b)
    <3>1. Sound(ObjRead(cache, b), table, proc)
      BY <1>1, <2>1, <2>2, ObjReadSound
    <3> QED
      BY <1>0, <1>1, <1>2, <2>1, <2>2, <2>3, <3>1, ReturnStep
  <2>4. CASE Goto(p, "read") /\ cpu' = Idle /\ UNCHANGED <<cache, table>>
    <3>1. "read" \in ReadPcs /\ "read" \in ProcPcs /\ "read" \notin CleaningPcs \cup {"spin"}
      BY DEF ReadPcs, ProcPcs, CleaningPcs
    <3> QED
      BY <1>0, <2>1, <2>4, <3>1, GotoStep
  <2> QED
    BY <1>5, <2>3, <2>4 DEF ReadEnd
<1>6. CASE WriteEnd(p)
  <2> DEFINE c == ObjWrite(cache, b, cache.buf[b].obj, cache.buf[b].blk)
  <2>1. proc[p].pc = "writeclean"
    BY <1>6 DEF WriteEnd
  <2>2. b \in Bufs /\ b \in HeldBy(p)
    BY <2>1 DEF Inv, TypeInv, HasBuffer, CacheInv, WritePending
  <2>3. Sound(c, table, proc) /\ LastUse(cache, c, b)
    <3>1. cache.buf[b].obj \in Objs /\ cache.buf[b].blk \in Blks
      BY <1>1, <2>2, BufIsRec DEF Sound
    <3> QED
      BY <1>1, <2>2, <3>1, WriteSound, LastUses
  <2>4. \/ Fail(p, c) /\ UNCHANGED <<sy, restart>>
        \/ Bunrefp(p, c, b)
        \/ Goto(p, "write") /\ cpu' = Idle /\ UNCHANGED <<cache, table, sy, restart>>
    BY <1>6 DEF WriteEnd
  <2> HIDE DEF c
  <2>5. CASE Fail(p, c) /\ UNCHANGED <<sy, restart>>
    BY <1>0, <2>1, <2>3, <2>5, FailStep DEF ReadingPcs
  <2>6. CASE Bunrefp(p, c, b)
    BY <1>0, <2>1, <2>2, <2>3, <2>6, BunrefStep
  <2>7. CASE Goto(p, "write") /\ cpu' = Idle /\ UNCHANGED <<cache, table, sy, restart>>
    <3>1. "write" \in ProcPcs /\ "write" \notin ReadingPcs \cup {"alloc", "spin"}
          /\ "write" \notin CleaningPcs \cup {"spin"} /\ "writeclean" \notin ReadingPcs
      BY DEF ProcPcs, ReadingPcs, CleaningPcs
    <3> QED
      BY <1>0, <2>1, <2>7, <3>1, GotoStep
  <2> QED
    BY <2>4, <2>5, <2>6, <2>7
<1>7. CASE ForgetEnd(p)
  <2>1. proc[p].pc \notin ReadingPcs /\ Fail(p, cache) /\ UNCHANGED <<sy, restart>>
    BY <1>7 DEF ForgetEnd, ReadingPcs
  <2> QED
    BY <1>0, <1>1, <2>1, FailStep
<1> QED
  BY <1>3, <1>4, <1>5, <1>6, <1>7 DEF KernelStep

-----------------------------------------------------------------------------
(* CacheInv is an inductive invariant of the buffer cache, for disciplined  *)
(* clients and any value of the constants.                                   *)

-----------------------------------------------------------------------------
(* Steps of a client.                                                        *)

\* An action that ends or goes on in the user part of p and changes the cache
\* without touching a list, a count or a lock.
LEMMA StayStep ==
  ASSUME Disciplined, Inv, NEW p \in Procs, AtUser(p), Sound(cache', table, proc),
         UNCHANGED <<table, proc, sy, cpu>>
  PROVE  CacheInv'
<1>1. proc[p] \in ProcRec /\ cpu = Idle /\ proc[p].pc = "user"
  BY DEF AtUser, Inv, TypeInv, TypeOK, ProcRec
<1>2. Moves(proc, p, proc[p], proc')
  BY DEF Moves, Inv, TypeInv, TypeOK
<1>3. /\ proc[p].pc \notin CleaningPcs \cup {"spin"}
      /\ proc[p].pc \notin ReadingPcs
      /\ proc[p].pc \notin ReadingPcs \cup {"alloc", "spin"}
      /\ proc[p].pc \notin {"write", "writeclean"}
  BY <1>1 DEF CleaningPcs, ReadingPcs
<1> QED
  BY <1>1, <1>2, <1>3, MoveStep

LEMMA BrefHitSafe ==
  ASSUME Disciplined, Inv, NEW p \in Procs, NEW o \in Objs, NEW k \in Blks, NEW m \in 0..3,
         BrefHit(p, o, k, m)
  PROVE  CacheInv'
<1>0. cpu = Idle /\ proc[p].pc = "user" /\ FreeSlots(p) # {} /\ UNCHANGED <<sy, restart>>
  BY DEF BrefHit, MayBref, AtUser, Disciplined
<1>1. Sound(cache, table, proc) /\ proc \in [Procs -> ProcRec] /\ NoCall \in ProcRec
  BY <1>0, NowSound, NoCallType DEF Inv, TypeInv, TypeOK, ProcRec
<1>2. PICK i \in Matches(cache, o, k) :
        /\ cache.buf[cache.objbufs[o][i]].refcnt < RefMod - 1 \/ "wrap" \in Behaviours
        /\ Return(p, Blookup(cache, o, cache.objbufs[o][i]), cache.objbufs[o][i])
  BY DEF BrefHit
<1> DEFINE b == cache.objbufs[o][i]
           c == Blookup(cache, o, b)
<1>3. b \in Bufs /\ b \in On(cache, o)
  <2>1. cache.objbufs[o] \in Seq(Bufs) /\ i \in DOMAIN cache.objbufs[o]
    BY <1>1 DEF Sound, CacheRec, Matches
  <2> QED
    BY <2>1, RangeIs DEF On
<1>4. /\ IsStream(o) => cache.buf[b].fresh /\ ~cache.buf[b].dirty
      /\ cache.buf[b].refcnt < RefMod - 1
  BY <1>2 DEF Matches, Disciplined
<1> HIDE DEF c
<1>5. PICK s \in FreeSlots(p) : cache' = c /\ table' = [table EXCEPT ![p][s] = b]
  BY <1>0, <1>2 DEF Return, c
<1>6. s \in Slots /\ table[p][s] = NULL /\ Enters(table, p, s, b, table')
  BY <1>5 DEF FreeSlots, Enters
<1>7. Moves(proc, p, NoCall, proc') /\ cpu' = Idle
  BY <1>2 DEF Return, Moves
<1> HIDE DEF b
<1>8. Sound(c, table', proc)
  BY <1>1, <1>3, <1>4, <1>6, HitSound DEF c
<1>9. /\ NoCall.pc \notin ReadingPcs \cup {"alloc"}
      /\ NoCall.pc \notin ReadingPcs \cup {"spin"}
      /\ NoCall.pc \notin CleaningPcs \cup {"spin"}
      /\ NoCall.pc \notin {"alloc", "data", "write", "writeclean"}
      /\ proc[p].pc \notin ReadingPcs
  BY <1>0 DEF NoCall, ReadingPcs, CleaningPcs
<1>10. Sound(c, table', proc')
  BY <1>1, <1>7, <1>8, <1>9, PrFrame
<1>11. Consistent(cache, table, proc)'
  BY <1>5, <1>10, SoundConsistent
<1>12. \A q \in Procs \ {p} : table'[q] = table[q]
  BY <1>5 DEF Inv, TypeInv, TypeOK
<1>13. Running' /\ BrefPending' /\ WritePending' /\ SyncerOnList'
  BY <1>0, <1>1, <1>7, <1>9, <1>12, ProcRest
<1> QED
  BY <1>11, <1>13 DEF CacheInv

LEMMA BrefMissSafe ==
  ASSUME Disciplined, Inv, NEW p \in Procs, NEW o \in Objs, NEW k \in Blks, NEW m \in 0..3,
         BrefMiss(p, o, k, m)
  PROVE  CacheInv'
<1>0. /\ cpu = Idle /\ proc[p].pc = "user" /\ FreeSlots(p) # {} /\ UNCHANGED <<sy, restart>>
      /\ Kind[o] = "cmd" => CreateBit(m)
  BY DEF BrefMiss, MayBref, AtUser, Disciplined
<1>1. Sound(cache, table, proc) /\ proc \in [Procs -> ProcRec] /\ NoCall \in ProcRec
  BY <1>0, NowSound, NoCallType DEF Inv, TypeInv, TypeOK, ProcRec
<1>2. CASE cache.unused # <<>>
  BY <1>0, <1>2, BcreateStep DEF BrefMiss
<1>3. CASE cache.unused = <<>>
  <2> DEFINE r == [NoCall EXCEPT !.pc = "alloc", !.obj = o, !.blk = k, !.mode = m]
  <2>1. r \in ProcRec /\ r.pc = "alloc" /\ r.obj = o /\ r.mode = m
    BY <1>1 DEF ProcRec, ProcPcs, NoCall
  <2>2. Moves(proc, p, r, proc') /\ cpu' = p /\ UNCHANGED <<cache, table>>
    BY <1>3 DEF BrefMiss, Moves
  <2> HIDE DEF r
  <2>3. /\ r.pc \in CleaningPcs /\ r.pc \notin {"data", "write", "writeclean"} /\ r.pc # "data"
        /\ r.pc \notin ReadingPcs \cup {"spin"} /\ proc[p].pc \notin ReadingPcs
    BY <1>0, <2>1 DEF CleaningPcs, ReadingPcs
  <2>4. Sound(cache, table, proc')
    BY <1>1, <2>1, <2>2, <2>3, PrFrame
  <2>5. Consistent(cache, table, proc)'
    BY <2>2, <2>4, SoundConsistent
  <2>6. \A q \in Procs \ {p} : table'[q] = table[q]
    BY <2>2, UnchangedTables
  <2>7. \E s \in Slots : table'[p][s] = NULL
    BY <1>0, <2>2 DEF FreeSlots
  <2>8. cpu' = IF r.pc \in CleaningPcs \cup {"spin"} THEN p ELSE Idle
    BY <2>2, <2>3
  <2>9. Running' /\ BrefPending' /\ WritePending' /\ SyncerOnList'
    BY <1>0, <2>1, <2>2, <2>3, <2>6, <2>7, <2>8, ProcRest
  <2> QED
    BY <2>5, <2>9 DEF CacheInv
<1> QED
  BY <1>2, <1>3

\* bwrite begins and has to wait for memory.
LEMMA WriteWaitsSafe ==
  ASSUME Disciplined, Inv, NEW p \in Procs, AtUser(p), NEW b \in Bufs, b \in HeldBy(p),
         NEW m \in 0..3, WriteWaits(p, b, m)
  PROVE  CacheInv'
<1> DEFINE r == [NoCall EXCEPT !.pc = "writeclean", !.mode = m, !.buf = b]
<1>1. cpu = Idle /\ proc[p].pc = "user" /\ UNCHANGED <<table, sy>> /\ cpu' = p
  BY DEF AtUser, WriteWaits
<1>2. r \in ProcRec /\ r.pc = "writeclean" /\ r.buf = b
  BY NoCallType DEF ProcRec, ProcPcs, NoCall
<1>3. Moves(proc, p, r, proc') /\ cache' = BwriteClean(cache, b)
  BY DEF WriteWaits, Moves
<1> HIDE DEF r
<1>4. Sound(cache, table, proc)
  BY <1>1, NowSound
<1>5. Sound(cache', table, proc)
  BY <1>3, <1>4, WriteSound, ConstantTypes
<1>6. /\ r.pc \in CleaningPcs \cup {"spin"} /\ proc[p].pc \notin ReadingPcs
      /\ r.pc \notin ReadingPcs \cup {"alloc", "spin"}
  BY <1>1, <1>2 DEF CleaningPcs, ReadingPcs
<1> QED
  BY <1>1, <1>2, <1>3, <1>5, <1>6, MoveStep

LEMMA UserBufSafe ==
  ASSUME Disciplined, Inv, NEW p \in Procs, NEW b \in Bufs,
         Bunref(p, b) \/ StoreDirty(p, b) \/ Bdunref(p, b) \/ Bwrite(p, b) \/ Bsend(p, b)
  PROVE  CacheInv'
<1>0. AtUser(p) /\ b \in HeldBy(p) /\ cpu = Idle /\ proc[p].pc \in {"user", "exit", "writeclean"}
  BY DEF Bunref, StoreDirty, Bdunref, Bwrite, Bsend, AtUser
<1>1. Sound(cache, table, proc)
  BY <1>0, NowSound
<1>2. /\ LastUse(cache, cache, b) /\ LastUse(cache, Written(cache, b), b)
      /\ MayModify(b) => LastUse(cache, Bdirty(Modify(cache, b), b), b)
  BY <1>0, <1>1, LastUses
<1>3. CASE Bunref(p, b)
  BY <1>0, <1>2, <1>3, BunrefStep DEF Bunref
<1>4. CASE Bdunref(p, b)
  BY <1>0, <1>2, <1>4, BunrefStep DEF Bdunref
<1>5. CASE StoreDirty(p, b)
  <2>1. IsFile(cache.buf[b].obj) /\ cache.buf[b].data < MaxVersion
        /\ UNCHANGED <<table, proc, sy, cpu>>
    BY <1>5 DEF StoreDirty, MayModify, Disciplined
  <2> DEFINE d == Bdirty(Modify(cache, b), b)
  <2>2. /\ d \in CacheRec /\ SameLists(cache, d) /\ SameOthers(cache, d, b)
        /\ Kept(cache.buf[b], d.buf[b])
    BY <1>1, <2>1, ModifyEffect DEF Sound
  <2> HIDE DEF d
  <2>3. Sound(d, table, proc)
    BY <1>1, <2>1, <2>2, FrameSound DEF IsStream
  <2>4. cache' = d
    BY <1>5 DEF StoreDirty, d
  <2> QED
    BY <1>0, <2>1, <2>3, <2>4, StayStep
<1>6. CASE Bwrite(p, b)
  <2>1. CASE WriteWaits(p, b, 0)
    BY <1>0, <2>1, WriteWaitsSafe
  <2>2. CASE cache' = Written(cache, b) /\ UNCHANGED <<table, proc, sy, restart, cpu>>
    BY <1>0, <1>1, <2>2, WrittenSound, StayStep
  <2> QED
    BY <1>6, <2>1, <2>2 DEF Bwrite
<1>7. CASE Bsend(p, b)
  <2>1. CASE WriteWaits(p, b, 1)
    BY <1>0, <2>1, WriteWaitsSafe
  <2>2. CASE Bunrefp(p, Written(cache, b), b)
    BY <1>0, <1>2, <2>2, BunrefStep
  <2> QED
    BY <1>7, <2>1, <2>2 DEF Bsend
<1> QED
  BY <1>3, <1>4, <1>5, <1>6, <1>7

LEMMA UserSafe ==
  ASSUME Disciplined, Inv, NEW p \in Procs, UserStep(p)
  PROVE  CacheInv'
<1>1. CASE \E o \in Objs, k \in Blks, m \in 0..3 : BrefHit(p, o, k, m) \/ BrefMiss(p, o, k, m)
  BY <1>1, BrefHitSafe, BrefMissSafe
<1>2. CASE \E b \in Bufs : Bunref(p, b) \/ StoreDirty(p, b) \/ Bdunref(p, b)
                           \/ Bwrite(p, b) \/ Bsend(p, b)
  BY <1>2, UserBufSafe
<1>3. CASE ReadResume(p)
  <2> DEFINE b == proc[p].buf
  <2>1. cpu = Idle /\ proc[p].pc = "read" /\ UNCHANGED <<sy, restart>>
    BY <1>3 DEF ReadResume
  <2>2. b \in Bufs /\ FreeSlots(p) # {} /\ proc[p] \in ProcRec /\ proc[p].pc \in ReadPcs
    BY <2>1 DEF Inv, TypeInv, TypeOK, HasBuffer, CacheInv, BrefPending, ReadingPcs, ReadPcs, ProcRec
  <2>3. CASE IsStream(cache.buf[b].obj)
    <3>1. Return(p, Unlock(ObjRead(cache, b), b), b)
      BY <1>3, <2>3 DEF ReadResume
    <3>2. Sound(cache, table, proc) /\ Moves(proc, p, proc[p], proc)
      BY <2>1, NowSound DEF Moves, Inv, TypeInv, TypeOK
    <3>3. Sound(ObjRead(cache, b), table, proc)
      BY <2>2, <3>2, ObjReadSound
    <3> QED
      BY <2>1, <2>2, <3>1, <3>2, <3>3, ReturnStep
  <2>4. CASE ~IsStream(cache.buf[b].obj)
    <3>1. Goto(p, "readclean") /\ cpu' = p /\ UNCHANGED <<cache, table>>
      BY <1>3, <2>4 DEF ReadResume
    <3>2. "readclean" \in ReadPcs /\ "readclean" \in ProcPcs
          /\ "readclean" \in CleaningPcs \cup {"spin"}
      BY DEF ReadPcs, ProcPcs, CleaningPcs
    <3> QED
      BY <2>1, <2>2, <3>1, <3>2, GotoStep
  <2> QED
    BY <2>3, <2>4
<1>4. CASE WriteResume(p)
  <2>1. cpu = Idle /\ proc[p].pc = "write" /\ Goto(p, "writeclean") /\ cpu' = p
        /\ UNCHANGED <<cache, table, sy, restart>>
    BY <1>4 DEF WriteResume
  <2>2. /\ "writeclean" \in ProcPcs /\ "writeclean" \in CleaningPcs \cup {"spin"}
        /\ "writeclean" \notin ReadingPcs \cup {"alloc", "spin"} /\ proc[p].pc \notin ReadingPcs
    BY <2>1 DEF ProcPcs, CleaningPcs, ReadingPcs
  <2> QED
    BY <2>1, <2>2, GotoStep
<1>5. CASE Forget(p)
  <2>1. cpu = Idle /\ proc[p].pc = "user" /\ Goto(p, "forget") /\ cpu' = p
        /\ UNCHANGED <<cache, table, sy, restart>>
    BY <1>5 DEF Forget, AtUser
  <2>2. /\ "forget" \in ProcPcs /\ "forget" \in CleaningPcs \cup {"spin"}
        /\ "forget" \notin ReadingPcs \cup {"alloc", "spin"} /\ proc[p].pc \notin ReadingPcs
    BY <2>1 DEF ProcPcs, CleaningPcs, ReadingPcs
  <2> QED
    BY <2>1, <2>2, GotoStep
<1>6. ASSUME NEW pc \in {"exit", "dead", "user"}, Goto(p, pc), cpu = Idle,
             proc[p].pc \in {"user", "exit", "dead"},
             UNCHANGED <<cache, table, sy, restart, cpu>>
      PROVE  CacheInv'
  <2>1. /\ pc \in ProcPcs /\ pc \notin CleaningPcs \cup {"spin"}
        /\ pc \notin ReadingPcs \cup {"alloc", "spin"} /\ proc[p].pc \notin ReadingPcs
    BY <1>6 DEF ProcPcs, CleaningPcs, ReadingPcs
  <2> QED
    BY <1>6, <2>1, GotoStep
<1>7. CASE ExitBegin(p) \/ ExitEnd(p) \/ Spawn(p)
  BY <1>6, <1>7 DEF ExitBegin, ExitEnd, Spawn, AtUser
<1>8. CASE ExitStep(p)
  <2>1. cpu = Idle /\ proc[p].pc = "exit"
    BY <1>8 DEF ExitStep
  <2>2. PICK s \in Slots : table[p][s] # NULL /\ Bunrefp(p, cache, table[p][s])
    BY <1>8 DEF ExitStep
  <2> DEFINE b == table[p][s]
  <2>3. b \in Bufs /\ b \in HeldBy(p)
    BY <2>2 DEF Inv, TypeInv, TypeOK, HeldBy
  <2>4. LastUse(cache, cache, b)
    BY <2>1, <2>3, NowSound, LastUses
  <2> QED
    BY <2>1, <2>2, <2>3, <2>4, BunrefStep
<1> QED
  BY <1>1, <1>2, <1>3, <1>4, <1>5, <1>7, <1>8 DEF UserStep

-----------------------------------------------------------------------------
(* The clean-up loop and the syncer.                                         *)

LEMMA QuietSound ==
  ASSUME Inv, cpu \in {Idle, Syncer} \/ proc[cpu].pc # "spin"
  PROVE  Sound(cache, table, proc)
<1>1. NoSpin(proc)
  BY BufCacheAssumption DEF Inv, CacheInv, Running, NoSpin
<1>2. /\ cache \in CacheRec /\ table \in Tables /\ proc \in [Procs -> ProcRec]
      /\ \A q \in Procs : proc[q].pc \in ReadingPcs => proc[q].buf \in Bufs
  BY DEF Inv, TypeInv, TypeOK, HasBuffer, Tables, ProcRec, ReadingPcs
<1> QED
  BY <1>1, <1>2, ConsistentSound DEF Inv, CacheInv

\* While the processes stand still their part of the invariant does.
LEMMA ProcsStay ==
  ASSUME Inv, UNCHANGED <<table, proc>>,
         \A b \in Bufs : cache'.buf[b].obj = cache.buf[b].obj
  PROVE  BrefPending' /\ WritePending'
<1>1. \A p \in Procs : FreeSlots(p)' = FreeSlots(p) /\ HeldBy(p)' = HeldBy(p)
  BY DEF FreeSlots, HeldBy
<1>2. \A p \in Procs : proc[p].pc = "data" => proc[p].buf \in Bufs
  BY DEF Inv, TypeInv, HasBuffer
<1>3. BrefPending'
  BY <1>1, <1>2 DEF Inv, CacheInv, BrefPending
<1>4. WritePending'
  BY <1>1 DEF Inv, CacheInv, WritePending
<1> QED
  BY <1>3, <1>4

LEMMA OnListPlace ==
  ASSUME NEW c, NEW tab, NEW pr, Sound(c, tab, pr), NEW o \in Objs, NEW b \in Bufs, b \in On(c, o)
  PROVE  /\ b \notin Range(c.unused) /\ c.buf[b].obj = o
         /\ \A n \in Objs : b \in On(c, n) => n = o
         /\ Fits(c.buf[b], HoldersIn(tab, pr, b))
<1>1. b \notin Range(c.unused) /\ b \notin InHand(pr)
  BY DEF Sound, Placed
<1> QED
  BY <1>1 DEF Sound, Placed, Used

LEMMA CleanupSafe ==
  ASSUME Disciplined, Inv, CleanupStep
  PROVE  CacheInv'
<1>0. /\ UNCHANGED <<table, proc, sy, restart, cpu>> /\ sy.pc # "scan"
      /\ cpu \in {Idle, Syncer} \/ proc[cpu].pc # "spin"
  <2>1. CASE cpu = Syncer /\ sy.pc = "writeclean"
    BY <2>1 DEF CleanupStep
  <2>2. CASE cpu \in Procs /\ proc[cpu].pc \in CleaningPcs
    <3>1. cpu # Syncer
      BY <2>2, BufCacheAssumption
    <3> QED
      BY <2>2, <3>1 DEF CleanupStep, Inv, CacheInv, Running, CleaningPcs
  <2> QED
    BY <2>1, <2>2 DEF CleanupStep, Cleaning
<1>1. Sound(cache, table, proc)
  BY <1>0, QuietSound
<1>2. PICK o \in Objs : \E i \in Victims(cache, o) : cache' = Bfree(cache, cache.objbufs[o][i])
  BY DEF CleanupStep
<1>3. PICK i \in Victims(cache, o) : cache' = Bfree(cache, cache.objbufs[o][i])
  BY <1>2
<1> DEFINE b == cache.objbufs[o][i]
<1>4. b \in Bufs /\ b \in On(cache, o) /\ cache.buf[b].refcnt = 0
  <2>1. cache.objbufs[o] \in Seq(Bufs) /\ i \in DOMAIN cache.objbufs[o]
    BY <1>1 DEF Sound, CacheRec, Victims
  <2> QED
    BY <2>1, RangeIs DEF On, Victims, Freeable
<1>5. cache' = Bfree(cache, b)
  BY <1>3
<1> HIDE DEF b
<1>6. b \notin Range(cache.unused) /\ HoldersIn(table, proc, b) = {}
  <2>1. b \notin Range(cache.unused) /\ Cardinality(HoldersIn(table, proc, b)) = 0
    BY <1>1, <1>4, OnListPlace DEF Fits
  <2> QED
    BY <2>1, SeatCount, HoldersAreSeats
<1>7. Sound(cache', table, proc)
  BY <1>1, <1>4, <1>5, <1>6, FreeSound
<1>8. Consistent(cache, table, proc)'
  BY <1>0, <1>7, SoundConsistent
<1>9. cache'.buf = cache.buf
  BY <1>5 DEF Bfree
<1>10. BrefPending' /\ WritePending'
  BY <1>0, <1>9, ProcsStay
<1>11. Running'
  BY <1>0 DEF Inv, CacheInv, Running
<1>12. SyncerOnList'
  BY <1>0 DEF Inv, CacheInv, SyncerOnList
<1> QED
  BY <1>8, <1>10, <1>11, <1>12 DEF CacheInv

\* From a buffer on a list the syncer goes on to another one of that list.
LEMMA NextOnList ==
  ASSUME NEW c, NEW tab, NEW pr, Sound(c, tab, pr), NEW o \in Objs, NEW b \in Bufs,
         b \in On(c, o), NextOf(c, b) # NULL
  PROVE  NextOf(c, b) \in On(c, o) \ {b}
<1> DEFINE Follows(n) == \E l \in {c.unused} \cup {c.objbufs[q] : q \in Objs} :
                           \E i \in 1..Len(l)-1 : l[i] = b /\ l[i + 1] = n
           n == NextOf(c, b)
<1>1. Follows(n)
  BY DEF NextOf
<1>2. PICK l \in {c.unused} \cup {c.objbufs[q] : q \in Objs} :
        \E i \in 1..Len(l)-1 : l[i] = b /\ l[i + 1] = n
  BY <1>1
<1>3. c \in CacheRec /\ NoRepeats(c)
  BY DEF Sound
<1>4. l \in Seq(Bufs) /\ IsInjective(l)
  BY <1>2, <1>3 DEF CacheRec, NoRepeats
<1>5. PICK i \in 1..Len(l)-1 : l[i] = b /\ l[i + 1] = n
  BY <1>2
<1>6. i \in 1..Len(l) /\ i + 1 \in 1..Len(l) /\ i + 1 # i
  BY <1>4, LenProperties
<1>7. b \in Range(l) /\ n \in Range(l)
  BY <1>4, <1>5, <1>6, RangeIs
<1>8. n # b
  <2>1. DOMAIN l = 1..Len(l)
    BY <1>4, LenProperties
  <2> QED
    BY <1>4, <1>5, <1>6, <2>1 DEF IsInjective
<1> HIDE DEF n
<1>9. b \notin Range(c.unused) /\ \A q \in Objs : b \in On(c, q) => q = o
  BY OnListPlace
<1>10. l = c.objbufs[o]
  BY <1>2, <1>7, <1>9 DEF On
<1> QED
  BY <1>7, <1>8, <1>10 DEF n, On

LEMMA FirstOnList ==
  ASSUME NEW c \in CacheRec, NEW o \in Objs, First(c.objbufs[o]) # NULL
  PROVE  First(c.objbufs[o]) \in On(c, o)
<1>1. c.objbufs[o] \in Seq(Bufs) /\ c.objbufs[o] # <<>>
  BY DEF CacheRec, First
<1>2. 1 \in 1..Len(c.objbufs[o])
  BY <1>1, EmptySeq, LenProperties
<1> QED
  BY <1>1, <1>2, RangeIs DEF First, On

\* One buffer of sync_bufs.
LEMMA SyWriteSafe ==
  ASSUME Disciplined, Inv, SyWrite
  PROVE  CacheInv'
<1> DEFINE b == sy.next
           r == cache.buf[b]
           c == BwriteClean(cache, b)
           n == NextOf(cache, b)
           e == ObjWrite(c, b, r.obj, r.blk)
<1>0. /\ cpu = Syncer /\ sy.pc = "scan" /\ b \in Bufs /\ sy.obj \in Objs /\ r.dirty
      /\ UNCHANGED <<table, proc, restart, cpu>> /\ b # NULL
  BY ConstantTypes DEF SyWrite, Inv, TypeInv, TypeOK
<1>1. Sound(cache, table, proc) /\ cache \in CacheRec /\ r.obj \in Objs /\ r.blk \in Blks
  BY <1>0, QuietSound, BufIsRec DEF Inv, TypeInv, TypeOK
<1>2. IsStream(sy.obj) => b \in On(cache, sy.obj)
  BY <1>0 DEF Inv, CacheInv, SyncerOnList, On
<1>3. IsStream(sy.obj) => /\ r.obj = sy.obj /\ b \notin Range(cache.unused)
                          /\ HoldersIn(table, proc, b) = {}
  BY <1>0, <1>1, <1>2, OnListPlace DEF Fits
<1>4. IsStream(sy.obj) /\ n # NULL => n \in On(cache, sy.obj) \ {b}
  BY <1>0, <1>1, <1>2, NextOnList
<1>5. Sound(c, table, proc) /\ SameLists(cache, c)
      /\ \A x \in Bufs : c.buf[x].obj = cache.buf[x].obj
  <2>1. Sound(c, table, proc)
    BY <1>0, <1>1, WriteSound
  <2>2. SameLists(cache, c) /\ SameOthers(cache, c, b) /\ Kept(cache.buf[b], c.buf[b])
    BY <1>0, <1>1, WriteEffect
  <2> HIDE DEF c
  <2> QED
    BY <2>1, <2>2 DEF SameOthers, Kept
<1>6. \/ cache' = SyFree(e, b) /\ sy' = [sy EXCEPT !.next = n]
      \/ /\ IsFile(r.obj) /\ cache' = c
         /\ sy' = [pc |-> "writeclean", obj |-> sy.obj, next |-> n, cur |-> b,
                    wobj |-> r.obj, wblk |-> r.blk]
  BY DEF SyWrite
<1>7. Running'
  <2>1. \A p \in Procs : proc[p].pc \notin CleaningPcs \cup {"spin"}
    BY <1>0, BufCacheAssumption DEF Inv, CacheInv, Running
  <2> QED
    BY <1>0, <2>1 DEF Running
<1>8. CASE /\ IsFile(r.obj) /\ cache' = c
           /\ sy' = [pc |-> "writeclean", obj |-> sy.obj, next |-> n, cur |-> b,
                      wobj |-> r.obj, wblk |-> r.blk]
  <2>1. Consistent(cache, table, proc)'
    BY <1>0, <1>5, <1>8, SoundConsistent
  <2>2. SyncerOnList'
    BY <1>3, <1>8 DEF SyncerOnList, IsStream
  <2>3. BrefPending' /\ WritePending'
    BY <1>0, <1>5, <1>8, ProcsStay
  <2> QED
    BY <1>7, <2>1, <2>2, <2>3 DEF CacheInv
<1>9. CASE cache' = SyFree(e, b) /\ sy' = [sy EXCEPT !.next = n]
  <2>1. Sound(e, table, proc) /\ SameLists(c, e) /\ e.buf = c.buf
    <3>1. c \in CacheRec
      BY <1>5 DEF Sound
    <3> HIDE DEF c
    <3>2. Sound(e, table, proc)
      BY <1>0, <1>1, <1>5, WriteSound
    <3>3. SameLists(c, e)
      BY <1>0, <1>1, <3>1, WriteEffect
    <3>4. e.buf = c.buf
      BY DEF ObjWrite, e
    <3> QED
      BY <3>2, <3>3, <3>4
  <2>2. e.unused = cache.unused /\ e.objbufs = cache.objbufs
    BY <1>5, <2>1 DEF SameLists
  <2>3. sy'.pc = "scan" /\ sy'.obj = sy.obj /\ sy'.next = n
    BY <1>0, <1>9 DEF Inv, TypeInv, TypeOK
  <2> HIDE DEF e, c, n
  <2>4. Sound(cache', table, proc) /\ cache'.buf = e.buf
    <3>1. CASE IsFile(sy.obj)
      BY <1>9, <2>1, <3>1 DEF SyFree, IsCached
    <3>2. CASE IsStream(sy.obj)
      <4>1. cache' = Bfree(e, b)
        BY <1>9, <3>2 DEF SyFree, IsCached, IsStream
      <4>2. b \notin Range(e.unused)
        BY <1>3, <2>2, <3>2
      <4>3. Sound(Bfree(e, b), table, proc)
        BY <1>0, <1>3, <2>1, <3>2, <4>2, FreeSound
      <4> QED
        BY <4>1, <4>3 DEF Bfree
    <3> QED
      BY <3>1, <3>2 DEF IsStream
  <2>5. IsStream(sy.obj) /\ n # NULL => n \in On(cache', sy.obj)
    <3> SUFFICES ASSUME IsStream(sy.obj), n # NULL PROVE n \in On(cache', sy.obj)
      OBVIOUS
    <3>1. cache' = Bfree(e, b) /\ b \notin Range(e.unused)
      BY <1>3, <1>9, <2>2 DEF SyFree, IsCached, IsStream
    <3>2. e \in CacheRec /\ NoRepeats(e)
      BY <2>1 DEF Sound
    <3>3. On(e, sy.obj) \ {b} \subseteq On(Bfree(e, b), sy.obj)
      BY <1>0, <3>1, <3>2, BfreeEffect
    <3>4. On(e, sy.obj) = On(cache, sy.obj)
      BY <2>2 DEF On
    <3> QED
      BY <1>4, <3>1, <3>3, <3>4
  <2>6. SyncerOnList'
    BY <2>3, <2>5 DEF SyncerOnList, On
  <2>7. BrefPending' /\ WritePending'
    BY <1>0, <1>5, <2>1, <2>4, ProcsStay
  <2>8. Consistent(cache, table, proc)'
    BY <1>0, <2>4, SoundConsistent
  <2> QED
    BY <1>7, <2>6, <2>7, <2>8 DEF CacheInv
<1> QED
  BY <1>6, <1>8, <1>9

\* The write that sync_bufs had to wait for; meanwhile the buffer may be gone.
LEMMA SyWriteEndSafe ==
  ASSUME Disciplined, Inv, SyWriteEnd
  PROVE  CacheInv'
<1> DEFINE b == sy.cur
<1>0. /\ cpu = Syncer /\ sy.pc = "writeclean" /\ b \in Bufs /\ IsFile(sy.obj)
      /\ sy.wobj \in Objs /\ sy.wblk \in Blks /\ UNCHANGED <<table, proc, restart>>
  BY DEF SyWriteEnd, Inv, TypeInv, TypeOK, HasBuffer, CacheInv, SyncerOnList
<1>1. Sound(cache, table, proc) /\ cache \in CacheRec
  BY <1>0, QuietSound DEF Inv, TypeInv, TypeOK
<1>2. \A p \in Procs : proc[p].pc \notin CleaningPcs \cup {"spin"}
  BY <1>0, BufCacheAssumption DEF Inv, CacheInv, Running
<1>3. sy'.obj = sy.obj /\ sy'.pc \in {"scan", "write"} /\ (sy'.pc = "scan" => cpu' = cpu)
  BY <1>0 DEF SyWriteEnd, Inv, TypeInv, TypeOK
<1>4. Running' /\ SyncerOnList'
  BY <1>0, <1>2, <1>3 DEF Running, SyncerOnList, IsStream
<1>5. Sound(cache', table, proc) /\ \A x \in Bufs : cache'.buf[x].obj = cache.buf[x].obj
  <2>1. CASE UNCHANGED cache
    BY <1>1, <2>1
  <2>2. ASSUME NEW d \in Contents(cache, b),
               cache' = SyFree(ObjWrite([cache EXCEPT !.buf[b].data = d], b, sy.wobj, sy.wblk), b)
        PROVE  Sound(cache', table, proc) /\ \A x \in Bufs : cache'.buf[x].obj = cache.buf[x].obj
    <3> DEFINE c == [cache EXCEPT !.buf[b].data = d]
               r == [cache.buf[b] EXCEPT !.data = d]
    <3>1. d \in 0..Line /\ (b \notin Range(cache.unused) => d = cache.buf[b].data)
      <4>1. cache.buf[b].data \in 0..Line /\ 0..MaxVersion \subseteq 0..Line
        <5>1. cache.buf[b].data \in 0..Line
          BY <1>0, <1>1, BufIsRec
        <5>2. 0..MaxVersion \subseteq 0..Line
          BY ConstantTypes
        <5> QED
          BY <5>1, <5>2
      <4>2. d \in IF b \in Range(cache.unused) THEN 0..MaxVersion ELSE {cache.buf[b].data}
        BY <2>2 DEF Contents
      <4>3. CASE b \in Range(cache.unused)
        BY <4>1, <4>2, <4>3
      <4>4. CASE b \notin Range(cache.unused)
        BY <4>1, <4>2, <4>4
      <4> QED
        BY <4>3, <4>4
    <3>2. c \in CacheRec
      BY <1>0, <1>1, <3>1, DataType
    <3>3. cache.buf \in [Bufs -> BufRec] /\ cache.buf[b] \in BufRec
      BY <1>0, <1>1, CacheParts
    <3>4. c.unused = cache.unused /\ c.objbufs = cache.objbufs /\ c.buf = [cache.buf EXCEPT ![b] = r]
      BY <1>0, <1>1, <3>3 DEF CacheRec
    <3>5. /\ r.obj = cache.buf[b].obj /\ r.refcnt = cache.buf[b].refcnt
          /\ r.lock = cache.buf[b].lock /\ r.dirty = cache.buf[b].dirty
          /\ r.fresh = cache.buf[b].fresh /\ r.data = d
      BY <3>3 DEF BufRec
    <3> HIDE DEF c, r
    <3>6. c.buf[b] = r /\ SameOthers(cache, c, b) /\ SameLists(cache, c)
          /\ Kept(cache.buf[b], c.buf[b])
      BY <1>0, <3>3, <3>4, <3>5 DEF SameOthers, SameLists, Kept
    <3>7. b \notin Range(cache.unused) /\ IsStream(cache.buf[b].obj) =>
            /\ cache.buf[b].data # Line => ~cache.buf[b].fresh /\ cache.buf[b].refcnt <= 1
            /\ cache.buf[b].dirty => cache.buf[b].data # Line
      BY <1>0, <1>1 DEF Sound, Used, Fits
    <3>8. Sound(c, table, proc)
      BY <1>0, <1>1, <3>1, <3>2, <3>5, <3>6, <3>7, FrameSound
    <3>9. Sound(ObjWrite(c, b, sy.wobj, sy.wblk), table, proc)
      BY <1>0, <3>8, WriteSound
    <3>10. cache' = ObjWrite(c, b, sy.wobj, sy.wblk)
      BY <1>0, <2>2 DEF SyFree, IsCached, c
    <3>11. cache'.buf = c.buf
      BY <3>10 DEF ObjWrite
    <3>12. \A x \in Bufs : c.buf[x].obj = cache.buf[x].obj
      BY <3>5, <3>6 DEF SameOthers
    <3> QED
      BY <3>9, <3>10, <3>11, <3>12
  <2> QED
    BY <2>1, <2>2 DEF SyWriteEnd
<1>6. Consistent(cache, table, proc)'
  BY <1>0, <1>5, SoundConsistent
<1>7. BrefPending' /\ WritePending'
  BY <1>0, <1>5, ProcsStay
<1> QED
  BY <1>4, <1>6, <1>7 DEF CacheInv

LEMMA SyncerSafe ==
  ASSUME Disciplined, Inv, SyncerStep
  PROVE  CacheInv'
<1>1. CASE SyWrite \/ SyWriteEnd
  BY <1>1, SyWriteSafe, SyWriteEndSafe
<1>2. CASE SyTop \/ SyNextObj \/ SyEnd \/ SySkip \/ SyResume
  <2>0. UNCHANGED <<cache, table, proc>> /\ cpu \in {Idle, Syncer} /\ cpu' \in {Idle, Syncer}
    BY <1>2 DEF SyTop, SyNextObj, SyEnd, SySkip, SyResume
  <2>1. Sound(cache, table, proc) /\ cache \in CacheRec
    BY <2>0, QuietSound DEF Inv, TypeInv, TypeOK
  <2>2. Consistent(cache, table, proc)'
    BY <2>0, <2>1, SoundConsistent
  <2>3. BrefPending' /\ WritePending'
    BY <2>0, ProcsStay
  <2>4. \A p \in Procs : proc[p].pc \notin CleaningPcs \cup {"spin"}
    BY <2>0, BufCacheAssumption DEF Inv, CacheInv, Running
  <2>5. /\ sy.obj \in Objs /\ sy.next \in Bufs \cup {NULL} /\ 1 \in Objs
        /\ sy \in [pc : SyPcs, obj : Objs, next : Bufs \cup {NULL}, cur : Bufs \cup {NULL},
                   wobj : Objs, wblk : Blks]
    BY ConstantTypes DEF Inv, TypeInv, TypeOK
  <2>6. \A o \in Objs : First(cache.objbufs[o]) = NULL \/ First(cache.objbufs[o]) \in On(cache, o)
    BY <2>1, FirstOnList
  <2>7. SyTop \/ SyNextObj => sy'.pc = "scan" /\ cpu' = Syncer /\ sy'.obj \in Objs
                              /\ sy'.next = First(cache.objbufs[sy'.obj])
    <3>1. sy.obj < Len(Kind) => sy.obj + 1 \in Objs
      BY <2>5, ConstantTypes
    <3> QED
      BY <2>5, <3>1 DEF SyTop, SyNextObj
  <2>8. SySkip => /\ sy'.pc = "scan" /\ cpu' = Syncer /\ sy.pc = "scan" /\ sy.next # NULL
                  /\ sy'.obj = sy.obj /\ sy'.next = NextOf(cache, sy.next)
    BY <2>5 DEF SySkip
  <2>9. SyEnd => sy'.pc \in {"top", "sleep"}
    BY <2>5 DEF SyEnd
  <2>10. SyResume => sy.pc = "write" /\ sy'.pc = "writeclean" /\ sy'.obj = sy.obj /\ cpu' = Syncer
    BY <2>5 DEF SyResume
  <2>11. Running'
    BY <1>2, <2>0, <2>4, <2>7, <2>8, <2>9, <2>10 DEF Running
  <2>12. SyncerOnList'
    <3>1. CASE SyTop \/ SyNextObj
      BY <2>0, <2>6, <2>7, <3>1 DEF SyncerOnList, On
    <3>2. CASE SySkip
      <4>1. IsStream(sy.obj) => sy.next \in On(cache, sy.obj)
        BY <2>8, <3>2 DEF Inv, CacheInv, SyncerOnList, On
      <4>2. IsStream(sy.obj) /\ sy'.next # NULL => sy'.next \in On(cache, sy.obj)
        BY <2>1, <2>5, <2>8, <3>2, <4>1, NextOnList
      <4> QED
        BY <2>0, <2>8, <3>2, <4>2 DEF SyncerOnList, On
    <3>3. CASE SyEnd
      BY <2>9, <3>3 DEF SyncerOnList
    <3>4. CASE SyResume
      BY <2>10, <3>4 DEF Inv, CacheInv, SyncerOnList
    <3> QED
      BY <1>2, <3>1, <3>2, <3>3, <3>4
  <2> QED
    BY <2>2, <2>3, <2>11, <2>12 DEF CacheInv
<1> QED
  BY <1>1, <1>2 DEF SyncerStep

-----------------------------------------------------------------------------
(* The invariant holds from the start and for good.                          *)

LEMMA InitSafe == Init => CacheInv
<1> SUFFICES ASSUME Init PROVE CacheInv
  OBVIOUS
<1>0. \A p \in Procs : proc[p] = NoCall /\ NoCall.pc = "user"
  BY DEF Init, NoCall
<1>1. \A b : HoldersIn(table, proc, b) \subseteq {h \in Seats : h[2] # 0 /\ b = NULL}
  BY <1>0, SlotFacts DEF HoldersIn, Seats, ReadingPcs, Init
<1>2. InHand(proc) = {}
  BY <1>0 DEF InHand
<1>3. Range(cache.unused) = Bufs /\ IsInjective(cache.unused)
  BY DEF Init, Range, IsInjective
<1>4. \A o \in Objs : cache.objbufs[o] = <<>> /\ IsInjective(cache.objbufs[o])
                      /\ Range(cache.objbufs[o]) = {}
  BY DEF Init, Range, IsInjective
<1>5. Partition(cache, InHand(proc))
  BY <1>2, <1>3, <1>4 DEF Partition
<1>6. Counted(cache, table, proc) /\ Streams(cache) /\ DirtyStreamUnused(cache, table, proc)
  BY <1>1, <1>3, ConstantTypes DEF Counted, Streams, DirtyStreamUnused
<1>7. Locks(cache, proc) /\ OneReader(proc) /\ Unshared(cache, proc)
  BY <1>0 DEF Locks, Reading, OneReader, Unshared, ReadingPcs, Init
<1>8. Running /\ BrefPending /\ WritePending /\ SyncerOnList
  BY <1>0 DEF Running, BrefPending, WritePending, SyncerOnList, CleaningPcs, ReadingPcs, Init
<1> QED
  BY <1>5, <1>6, <1>7, <1>8 DEF CacheInv, Consistent

LEMMA StutterSafe ==
  ASSUME Inv, UNCHANGED vars
  PROVE  CacheInv'
<1>1. UNCHANGED <<cache, table, proc, sy, cpu>>
  BY DEF vars
<1>2. Consistent(cache, table, proc)'
  BY <1>1 DEF Inv, CacheInv
<1>3. BrefPending' /\ WritePending'
  BY <1>1, ProcsStay
<1>4. Running' /\ SyncerOnList'
  BY <1>1 DEF Inv, CacheInv, Running, SyncerOnList
<1> QED
  BY <1>2, <1>3, <1>4 DEF CacheInv

LEMMA NextSafe ==
  ASSUME Disciplined, Inv, [Next]_vars
  PROVE  Inv'
<1>1. TypeInv'
  BY NextType DEF Inv
<1>2. CacheInv'
  <2>1. CASE \E p \in Procs : KernelStep(p) \/ UserStep(p)
    BY <2>1, KernelSafe, UserSafe
  <2>2. CASE CleanupStep
    BY <2>2, CleanupSafe
  <2>3. CASE SyncerStep
    BY <2>3, SyncerSafe
  <2>4. CASE UNCHANGED vars
    BY <2>4, StutterSafe
  <2> QED
    BY <2>1, <2>2, <2>3, <2>4 DEF Next
<1> QED
  BY <1>1, <1>2 DEF Inv

\* The inductive invariant: what a step of a client, of the clean-up loop or of
\* the syncer relies on is what all the others leave behind.
THEOREM CacheInvariant ==
  ASSUME Disciplined
  PROVE  Spec => []CacheInv
<1>1. Init => Inv
  BY InitType, InitSafe DEF Inv
<1>2. Inv /\ [Next]_vars => Inv'
  BY NextSafe
<1>3. Inv => CacheInv
  BY DEF Inv
<1> QED
  BY <1>1, <1>2, <1>3, PTL DEF Spec

\* bcreate, bfree, blookup's reordering and the clean-up loop never lose a
\* descriptor and never link one twice.
THEOREM PoolIsPartitioned ==
  ASSUME Disciplined
  PROVE  Spec => []PoolPartition
<1>1. CacheInv => PoolPartition
  BY DEF CacheInv, Consistent, PoolPartition
<1> QED
  BY <1>1, CacheInvariant, PTL

\* No user of a buffer, a suspended read included, ever finds it freed.
THEOREM HeldIsNotFree ==
  ASSUME Disciplined
  PROVE  Spec => []HeldNotFree
<1>1. TypeInv /\ CacheInv => HeldNotFree
  <2>1. TypeInv => Range(cache.unused) \subseteq Bufs
    BY CacheParts DEF TypeInv, TypeOK
  <2> QED
    BY <2>1 DEF CacheInv, Consistent, Counted, HeldNotFree, Free, Holders
<1>2. Init => TypeInv
  BY InitType
<1>3. TypeInv /\ [Next]_vars => TypeInv'
  BY NextType
<1> QED
  BY <1>1, <1>2, <1>3, CacheInvariant, PTL DEF Spec

\* _BREF and _BUNREF balance: the count is the number of users.
THEOREM RefcntIsExact ==
  ASSUME Disciplined
  PROVE  Spec => []RefcntExact
<1>1. CacheInv => RefcntExact
  BY DEF CacheInv, Consistent, Counted, RefcntExact, Free, Holders
<1> QED
  BY <1>1, CacheInvariant, PTL

\* A lock outside of a first read does not exist.
THEOREM LockedOnlyWhileRead ==
  ASSUME Disciplined
  PROVE  Spec => []LockedWhileRead
<1>1. CacheInv => LockedWhileRead
  BY DEF CacheInv, Consistent, Locks, Reading, LockedWhileRead
<1> QED
  BY <1>1, CacheInvariant, PTL
=============================================================================
