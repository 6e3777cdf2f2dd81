------------------------- MODULE BufCacheStore_proofs -------------------------
(***************************************************************************)
(* The contents of the buffer cache: one buffer per block, dirty buffers    *)
(* counted and scheduled, stream buffers given back, clean buffers equal to *)
(* the device, and the cache an implementation of the block store.          *)
(***************************************************************************)
EXTENDS BufCacheInvariant_proofs

-----------------------------------------------------------------------------
(* What the operations on the cache record do to blocks, contents, marks,    *)
(* counters and the device.                                                  *)

SameData(r, s) == s.blk = r.blk /\ s.dirty = r.dirty /\ s.data = r.data
SameDisk(c, d) == d.disk = c.disk /\ d.size = c.size /\ d.dirtybufs = c.dirtybufs

LEMMA ListData ==
  ASSUME NEW c \in CacheRec, NEW b \in Bufs
  PROVE  /\ SameDisk(c, Bfree(c, b)) /\ SameDisk(c, Untake(c, b)) /\ SameDisk(c, Link(c, b))
         /\ SameData(c.buf[b], Link(c, b).buf[b])
         /\ Link(c, b).buf[b].refcnt = c.buf[b].refcnt
<1> DEFINE s == [c.buf[b] EXCEPT !.lock = c.buf[b].lock + 1]
<1>1. SameDisk(c, Bfree(c, b)) /\ SameDisk(c, Untake(c, b)) /\ SameDisk(c, Link(c, b))
  BY DEF Bfree, Untake, Link, CacheRec, SameDisk
<1>2. Link(c, b).buf = [c.buf EXCEPT ![b] = s]
  BY DEF Link, CacheRec
<1>3. SameData(c.buf[b], s) /\ s.refcnt = c.buf[b].refcnt
  BY BufIsRec DEF SameData, BufRec
<1> HIDE DEF s
<1> QED
  BY <1>1, <1>2, <1>3, CacheParts

LEMMA TakeData ==
  ASSUME NEW c \in CacheRec, c.unused # <<>>, NEW o \in Objs, NEW k \in Blks
  PROVE  SameDisk(c, Take(c, o, k)) /\ Take(c, o, k).buf[Last(c.unused)].blk = k
<1>1. SameDisk(c, Take(c, o, k))
  BY DEF Take, CacheRec, SameDisk
<1> DEFINE r == [obj |-> o, blk |-> k, refcnt |-> 1, dirty |-> FALSE,
                 fresh |-> FALSE, lock |-> c.buf[Last(c.unused)].lock, data |-> 0]
<1>2. Take(c, o, k).buf = [c.buf EXCEPT ![Last(c.unused)] = r] /\ r.blk = k
  BY DEF Take, CacheRec
<1> HIDE DEF r
<1> QED
  BY <1>1, <1>2, TakeType, CacheParts

LEMMA CountData ==
  ASSUME NEW c \in CacheRec, NEW b \in Bufs
  PROVE  /\ SameDisk(c, Ref(c, b)) /\ SameData(c.buf[b], Ref(c, b).buf[b])
         /\ SameDisk(c, Unref(c, b)) /\ SameData(c.buf[b], Unref(c, b).buf[b])
         /\ SameDisk(c, Unlock(c, b)) /\ SameData(c.buf[b], Unlock(c, b).buf[b])
         /\ Unlock(c, b).buf[b].refcnt = c.buf[b].refcnt
         /\ Unref(c, b).buf[b].obj = c.buf[b].obj
<1>1. SameDisk(c, Ref(c, b)) /\ SameDisk(c, Unref(c, b)) /\ SameDisk(c, Unlock(c, b))
  BY DEF Ref, Unref, Unlock, CacheRec, SameDisk
<1> DEFINE x == (c.buf[b].refcnt + 1) % RefMod
           y == (c.buf[b].refcnt + RefMod - 1) % RefMod
           z == c.buf[b].lock - 1
<1>2. /\ Ref(c, b).buf[b] = [c.buf[b] EXCEPT !.refcnt = x]
      /\ Unref(c, b).buf[b] = [c.buf[b] EXCEPT !.refcnt = y]
      /\ Unlock(c, b).buf[b] = [c.buf[b] EXCEPT !.lock = z]
  BY RefEffect, UnlockEffect
<1> HIDE DEF x, y, z
<1> QED
  BY <1>1, <1>2, BufIsRec, SMTT(60) DEF SameData, BufRec

LEMMA ObjReadData ==
  ASSUME NEW c \in CacheRec, NEW b \in Bufs
  PROVE  LET d == ObjRead(c, b) IN
         /\ SameDisk(c, d) /\ d.buf[b].blk = c.buf[b].blk /\ d.buf[b].dirty = c.buf[b].dirty
         /\ IsFile(c.buf[b].obj) => d.buf[b].data = c.disk[c.buf[b].obj][c.buf[b].blk]
<1> DEFINE d == ObjRead(c, b)
           v == c.disk[c.buf[b].obj][c.buf[b].blk]
           s == [[c.buf[b] EXCEPT !.data = Line] EXCEPT !.fresh = TRUE]
           f == [c.buf[b] EXCEPT !.data = v]
<1>1. d.buf = [c.buf EXCEPT ![b] = IF IsStream(c.buf[b].obj) THEN s ELSE f]
  <2>1. CASE IsStream(c.buf[b].obj)
    BY <2>1, BufIsRec DEF ObjRead, CacheRec
  <2>2. CASE ~IsStream(c.buf[b].obj)
    BY <2>2, BufIsRec DEF ObjRead, CacheRec
  <2> QED
    BY <2>1, <2>2
<1>2. SameDisk(c, d)
  BY DEF ObjRead, CacheRec, SameDisk
<1> HIDE DEF v
<1>3. s.blk = c.buf[b].blk /\ f.blk = c.buf[b].blk /\ f.data = v
  BY BufIsRec DEF BufRec
<1> HIDE DEF d, s, f
<1>4. d.buf[b] = IF IsStream(c.buf[b].obj) THEN s ELSE f
  BY <1>1, CacheParts
<1>5. d.buf[b].dirty = c.buf[b].dirty
  BY ObjReadEffect DEF d
<1> QED
  BY <1>2, <1>3, <1>4, <1>5 DEF d, v, IsStream

LEMMA BlookupData ==
  ASSUME NEW c \in CacheRec, NEW o \in Objs, NEW b \in Bufs
  PROVE  SameDisk(c, Blookup(c, o, b)) /\ Blookup(c, o, b).buf[b].blk = c.buf[b].blk
<1> DEFINE a == Ref(c, b)
           s == [a.buf[b] EXCEPT !.fresh = FALSE]
           r == [a EXCEPT !.buf[b] = s]
           d == Blookup(c, o, b)
<1>1. a \in CacheRec /\ SameDisk(c, a) /\ SameData(c.buf[b], a.buf[b]) /\ a.buf[b] \in BufRec
  BY RefEffect, CountData, BufIsRec
<1>2. d = IF IsStream(o) THEN r ELSE [r EXCEPT !.objbufs[o] = <<b>> \o Without(r.objbufs[o], b)]
  BY DEF Blookup
<1> HIDE DEF a
<1>3. s.blk = a.buf[b].blk
  BY <1>1 DEF BufRec
<1>4. s \in BufRec
  BY <1>1, RecType
<1> HIDE DEF s
<1>5. SameDisk(a, r) /\ r.buf = [a.buf EXCEPT ![b] = s] /\ r \in CacheRec
  BY <1>1, <1>4, BufType DEF SameDisk, CacheRec
<1> HIDE DEF r
<1>6. SameDisk(r, d) /\ d.buf = r.buf
  BY <1>2, <1>5 DEF SameDisk, CacheRec
<1>7. d.buf[b] = s
  BY <1>1, <1>5, <1>6, CacheParts
<1> HIDE DEF d
<1> QED
  BY <1>1, <1>3, <1>5, <1>6, <1>7 DEF SameDisk, SameData, d

\* bwrite clears the mark and takes it off the count; obj_io stores a block.
LEMMA CleanData ==
  ASSUME NEW c \in CacheRec, NEW b \in Bufs
  PROVE  LET d == BwriteClean(c, b)
             o == c.buf[b].obj
         IN /\ d.disk = c.disk /\ d.size = c.size /\ d.buf[b].blk = c.buf[b].blk
            /\ d.dirtybufs = IF c.buf[b].dirty
                             THEN [c.dirtybufs EXCEPT ![o] = c.dirtybufs[o] - 1]
                             ELSE c.dirtybufs
<1> DEFINE d == BwriteClean(c, b)
           s == [c.buf[b] EXCEPT !.dirty = FALSE]
<1>1. /\ d.disk = c.disk /\ d.size = c.size
      /\ d.buf = IF c.buf[b].dirty THEN [c.buf EXCEPT ![b] = s] ELSE c.buf
      /\ d.dirtybufs = IF c.buf[b].dirty
                       THEN [c.dirtybufs EXCEPT ![c.buf[b].obj] = c.dirtybufs[c.buf[b].obj] - 1]
                       ELSE c.dirtybufs
  <2>1. CASE c.buf[b].dirty
    BY <2>1 DEF BwriteClean, CacheRec
  <2>2. CASE ~c.buf[b].dirty
    BY <2>2 DEF BwriteClean
  <2> QED
    BY <2>1, <2>2
<1>2. s.blk = c.buf[b].blk
  BY BufIsRec DEF BufRec
<1> HIDE DEF d, s
<1>3. d.buf[b].blk = c.buf[b].blk
  BY <1>1, <1>2, CacheParts
<1> QED
  BY <1>1, <1>3 DEF d

LEMMA WriteData ==
  ASSUME NEW c \in CacheRec, NEW b \in Bufs, NEW o \in Objs, NEW k \in Blks
  PROVE  LET d == ObjWrite(c, b, o, k) IN
         /\ d.dirtybufs = c.dirtybufs
         /\ IsStream(o) => d.disk = c.disk /\ d.size = c.size
         /\ IsFile(o) => /\ d.disk = [c.disk EXCEPT ![o][k] = c.buf[b].data]
                         /\ d.size = [c.size EXCEPT ![o] = IF k >= c.size[o] THEN k + 1
                                                                            ELSE c.size[o]]
<1>1. CASE IsStream(o)
  BY <1>1 DEF ObjWrite, IsStream
<1>2. CASE IsFile(o)
  BY <1>2 DEF ObjWrite, IsStream, CacheRec
<1> QED
  BY <1>1, <1>2 DEF IsStream

\* A client stores new contents and marks the buffer.
LEMMA ModifyData ==
  ASSUME NEW c \in CacheRec, NEW b \in Bufs,
         IsFile(c.buf[b].obj) => c.buf[b].data < MaxVersion
  PROVE  LET d == Bdirty(Modify(c, b), b)
             o == c.buf[b].obj
         IN /\ d.disk = c.disk /\ d.size = c.size
            /\ d.buf[b].blk = c.buf[b].blk /\ d.buf[b].dirty = TRUE
            /\ d.dirtybufs = IF c.buf[b].dirty THEN c.dirtybufs
                             ELSE [c.dirtybufs EXCEPT ![o] = c.dirtybufs[o] + 1]
            /\ IsFile(o) => d.buf[b].data = c.buf[b].data + 1
<1> DEFINE m == Modify(c, b)
           o == c.buf[b].obj
           d == Bdirty(m, b)
           s == [c.buf[b] EXCEPT !.data = c.buf[b].data + 1]
           t == [m.buf[b] EXCEPT !.dirty = TRUE]
<1>1. m \in CacheRec
  BY ModifyType
<1>2. SameDisk(c, m) /\ m.buf = IF IsFile(o) THEN [c.buf EXCEPT ![b] = s] ELSE c.buf
  BY DEF Modify, CacheRec, SameDisk
<1>3. s.obj = o /\ s.blk = c.buf[b].blk /\ s.dirty = c.buf[b].dirty /\ s.data = c.buf[b].data + 1
  BY BufIsRec DEF BufRec
<1> HIDE DEF m, s
<1>4. m.buf[b] = IF IsFile(o) THEN s ELSE c.buf[b]
  BY <1>2, CacheParts
<1>5. /\ m.buf[b].obj = o /\ m.buf[b].blk = c.buf[b].blk /\ m.buf[b].dirty = c.buf[b].dirty
      /\ IsFile(o) => m.buf[b].data = c.buf[b].data + 1
  BY <1>3, <1>4
<1>6. /\ d.disk = m.disk /\ d.size = m.size
      /\ d.buf = IF m.buf[b].dirty THEN m.buf ELSE [m.buf EXCEPT ![b] = t]
      /\ d.dirtybufs = IF m.buf[b].dirty THEN m.dirtybufs
                       ELSE [m.dirtybufs EXCEPT ![m.buf[b].obj] = m.dirtybufs[m.buf[b].obj] + 1]
  <2>1. CASE m.buf[b].dirty
    BY <2>1 DEF Bdirty
  <2>2. CASE ~m.buf[b].dirty
    BY <1>1, <2>2 DEF Bdirty, CacheRec
  <2> QED
    BY <2>1, <2>2
<1>7. t.blk = m.buf[b].blk /\ t.dirty = TRUE /\ t.data = m.buf[b].data
      /\ m.buf[b].dirty \in BOOLEAN
  BY <1>1, BufIsRec DEF BufRec
<1> HIDE DEF d, t
<1>8. d.buf[b] = IF m.buf[b].dirty THEN m.buf[b] ELSE t
  BY <1>1, <1>6, CacheParts
<1>9. d.buf[b].blk = c.buf[b].blk /\ d.buf[b].dirty = TRUE
      /\ (IsFile(o) => d.buf[b].data = c.buf[b].data + 1)
  BY <1>5, <1>7, <1>8
<1>10. d.disk = c.disk /\ d.size = c.size /\ m.dirtybufs = c.dirtybufs
  BY <1>2, <1>6 DEF SameDisk
<1> QED
  BY <1>5, <1>6, <1>9, <1>10 DEF d, m, o

-----------------------------------------------------------------------------
(* One buffer per block, and the count of dirty buffers.                     *)

\* A change that is not about blocks and marks.
Alike(c, d) ==
  /\ \A o \in Objs : On(d, o) = On(c, o)
  /\ \A o \in Objs : \A x \in On(c, o) : d.buf[x].blk = c.buf[x].blk
                                         /\ d.buf[x].dirty = c.buf[x].dirty
  /\ \A x \in Bufs : d.buf[x].dirty => c.buf[x].dirty /\ d.buf[x].obj = c.buf[x].obj
  /\ d.dirtybufs = c.dirtybufs

DirtyOn(c, o) == {b \in On(c, o) : c.buf[b].dirty}

LEMMA BlocksExactIs ==
  ASSUME NEW c
  PROVE  BlocksExact(c) <=>
           /\ \A o \in Files : \A a, b \in On(c, o) : c.buf[a].blk = c.buf[b].blk => a = b
           /\ \A o \in Objs : c.dirtybufs[o] = Cardinality(DirtyOn(c, o))
           /\ \A b \in Bufs : c.buf[b].dirty => b \in On(c, c.buf[b].obj)
BY DEF BlocksExact, On, DirtyOn

LEMMA AlikeExact ==
  ASSUME NEW c, NEW d, BlocksExact(c), Alike(c, d), d \in CacheRec
  PROVE  BlocksExact(d)
<1>1. \A o \in Objs : DirtyOn(d, o) = DirtyOn(c, o)
  BY DEF Alike, DirtyOn
<1>2. \A o \in Objs : d.dirtybufs[o] = Cardinality(DirtyOn(d, o))
  BY <1>1, BlocksExactIs DEF Alike
<1>3. \A b \in Bufs : d.buf[b].dirty => b \in On(d, d.buf[b].obj)
  <2>1. \A b \in Bufs : d.buf[b].obj \in Objs
    BY BufIsRec
  <2> QED
    BY <2>1, BlocksExactIs DEF Alike
<1>4. \A o \in Files : \A a, b \in On(d, o) : d.buf[a].blk = d.buf[b].blk => a = b
  BY BlocksExactIs DEF Alike, Files
<1> QED
  BY <1>2, <1>3, <1>4, BlocksExactIs

\* A clean buffer leaves the list of its object.
LEMMA BfreeExact ==
  ASSUME NEW c \in CacheRec, NoRepeats(c), BlocksExact(c), NEW b \in Bufs,
         b \notin Range(c.unused), c.buf[b].dirty = FALSE
  PROVE  BlocksExact(Bfree(c, b))
<1> DEFINE d == Bfree(c, b)
<1>1. /\ d \in CacheRec /\ d.buf = c.buf /\ d.dirtybufs = c.dirtybufs
      /\ \A o \in Objs : On(d, o) = IF o = c.buf[b].obj THEN On(c, o) \ {b} ELSE On(c, o)
  BY BfreeEffect, ListData DEF SameDisk
<1> HIDE DEF d
<1>2. \A o \in Objs : DirtyOn(d, o) = DirtyOn(c, o)
  BY <1>1 DEF DirtyOn
<1>3. \A x \in Bufs : d.buf[x].dirty => x \in On(d, d.buf[x].obj)
  <2>1. \A x \in Bufs : d.buf[x].obj \in Objs
    BY <1>1, BufIsRec
  <2> QED
    BY <1>1, <2>1, BlocksExactIs
<1>4. \A o \in Files : \A x, y \in On(d, o) : d.buf[x].blk = d.buf[y].blk => x = y
  BY <1>1, BlocksExactIs DEF Files
<1>5. \A o \in Objs : d.dirtybufs[o] = Cardinality(DirtyOn(d, o))
  BY <1>1, <1>2, BlocksExactIs
<1>6. BlocksExact(d)
  BY <1>3, <1>4, <1>5, BlocksExactIs
<1> QED
  BY <1>6 DEF d

\* A clean buffer of a block that has none is entered into the list.
LEMMA LinkExact ==
  ASSUME NEW c \in CacheRec, NoRepeats(c), BlocksExact(c), NEW b \in Bufs,
         \A o \in Objs : b \notin On(c, o), c.buf[b].dirty = FALSE,
         IsFile(c.buf[b].obj) => Vacant(c, c.buf[b].obj, c.buf[b].blk)
  PROVE  BlocksExact(Link(c, b))
<1> DEFINE d == Link(c, b)
<1>0. c.buf[b].obj \in Objs
  BY BufIsRec
<1>1. /\ d \in CacheRec /\ d.dirtybufs = c.dirtybufs /\ SameData(c.buf[b], d.buf[b])
      /\ \A x \in Bufs \ {b} : d.buf[x] = c.buf[x]
      /\ d.buf[b].obj = c.buf[b].obj
      /\ \A o \in Objs : On(d, o) = IF o = c.buf[b].obj THEN On(c, o) \cup {b} ELSE On(c, o)
  <2>1. d.buf[b] = [c.buf[b] EXCEPT !.lock = c.buf[b].lock + 1]
    BY <1>0, LinkEffect
  <2>2. d.buf[b].obj = c.buf[b].obj
    BY <2>1, BufIsRec DEF BufRec
  <2> QED
    BY <1>0, <2>2, LinkEffect, ListData DEF SameDisk
<1> HIDE DEF d
<1>2. \A o \in Objs : On(c, o) \subseteq Bufs \ {b}
  BY CacheParts
<1>3. \A o \in Objs : DirtyOn(d, o) = DirtyOn(c, o)
  BY <1>1, <1>2 DEF DirtyOn, SameData
<1>4. \A x \in Bufs : d.buf[x].dirty => x \in On(d, d.buf[x].obj)
  <2>1. ASSUME NEW x \in Bufs, d.buf[x].dirty PROVE x \in On(d, d.buf[x].obj)
    <3>1. x # b
      BY <1>1, <2>1 DEF SameData
    <3>2. x \in On(c, c.buf[x].obj) /\ c.buf[x].obj \in Objs /\ d.buf[x] = c.buf[x]
      BY <1>1, <2>1, <3>1, BlocksExactIs, BufIsRec
    <3> QED
      BY <1>1, <3>2
  <2> QED
    BY <2>1
<1>5. ASSUME NEW o \in Files, NEW x \in On(d, o), NEW y \in On(d, o),
             d.buf[x].blk = d.buf[y].blk
      PROVE  x = y
  <2>0. o \in Objs /\ IsFile(o)
    BY DEF Files
  <2>1. \A z \in On(c, o) : d.buf[z].blk = c.buf[z].blk
    BY <1>1, <1>2, <2>0
  <2>2. o = c.buf[b].obj => \A z \in On(c, o) : c.buf[z].blk # d.buf[b].blk
    BY <1>1, <2>0 DEF Vacant, On, SameData
  <2>3. x \in On(c, o) \/ (x = b /\ o = c.buf[b].obj)
    BY <1>1, <2>0
  <2>4. y \in On(c, o) \/ (y = b /\ o = c.buf[b].obj)
    BY <1>1, <2>0
  <2> QED
    BY <1>5, <2>1, <2>2, <2>3, <2>4, BlocksExactIs
<1>6. \A o \in Objs : d.dirtybufs[o] = Cardinality(DirtyOn(d, o))
  BY <1>1, <1>3, BlocksExactIs
<1>7. BlocksExact(d)
  BY <1>4, <1>5, <1>6, BlocksExactIs
<1> QED
  BY <1>7 DEF d

LEMMA DirtyOnFinite ==
  ASSUME NEW c \in CacheRec, NEW o \in Objs
  PROVE  IsFiniteSet(DirtyOn(c, o)) /\ Cardinality(DirtyOn(c, o)) \in Nat
<1>1. IsFiniteSet(Bufs)
  BY FS_Interval, ConstantTypes DEF Bufs
<1>2. DirtyOn(c, o) \subseteq Bufs
  BY CacheParts DEF DirtyOn
<1>3. IsFiniteSet(DirtyOn(c, o))
  BY <1>1, <1>2, FS_Subset
<1> QED
  BY <1>3, FS_CardinalityType

\* A change of the mark of one buffer that is counted.
LEMMA MarkExact ==
  ASSUME NEW c \in CacheRec, BlocksExact(c), NEW b \in Bufs, NEW d \in CacheRec,
         SameLists(c, d), SameOthers(c, d, b),
         d.buf[b].blk = c.buf[b].blk, d.buf[b].obj = c.buf[b].obj,
         b \in On(c, c.buf[b].obj), \A o \in Objs : b \in On(c, o) => o = c.buf[b].obj,
         \/ d.buf[b].dirty = c.buf[b].dirty /\ d.dirtybufs = c.dirtybufs
         \/ /\ d.buf[b].dirty = TRUE /\ c.buf[b].dirty = FALSE
            /\ d.dirtybufs = [c.dirtybufs EXCEPT ![c.buf[b].obj] = c.dirtybufs[c.buf[b].obj] + 1]
         \/ /\ d.buf[b].dirty = FALSE /\ c.buf[b].dirty = TRUE
            /\ d.dirtybufs = [c.dirtybufs EXCEPT ![c.buf[b].obj] = c.dirtybufs[c.buf[b].obj] - 1]
  PROVE  BlocksExact(d)
<1> DEFINE o == c.buf[b].obj
<1>0. o \in Objs /\ c.dirtybufs \in [Objs -> Int] /\ \A n \in Objs : On(c, n) \subseteq Bufs
  BY BufIsRec, CacheParts
<1>1. \A n \in Objs : On(d, n) = On(c, n)
  BY DEF SameLists, On
<1>2. \A n \in Objs : n # o => DirtyOn(d, n) = DirtyOn(c, n)
  BY <1>0, <1>1 DEF DirtyOn, SameOthers
<1>3. \A n \in Objs : n # o => d.dirtybufs[n] = c.dirtybufs[n]
  BY <1>0
<1>4. d.dirtybufs[o] = Cardinality(DirtyOn(d, o))
  <2>0. c.dirtybufs[o] = Cardinality(DirtyOn(c, o)) /\ IsFiniteSet(DirtyOn(c, o))
    BY <1>0, BlocksExactIs, DirtyOnFinite
  <2>1. CASE d.buf[b].dirty = c.buf[b].dirty /\ d.dirtybufs = c.dirtybufs
    <3>1. DirtyOn(d, o) = DirtyOn(c, o)
      BY <1>0, <1>1, <2>1 DEF DirtyOn, SameOthers
    <3> QED
      BY <2>0, <2>1, <3>1
  <2>2. CASE /\ d.buf[b].dirty = TRUE /\ c.buf[b].dirty = FALSE
             /\ d.dirtybufs = [c.dirtybufs EXCEPT ![o] = c.dirtybufs[o] + 1]
    <3>1. DirtyOn(d, o) = DirtyOn(c, o) \cup {b} /\ b \notin DirtyOn(c, o)
      BY <1>0, <1>1, <2>2 DEF DirtyOn, SameOthers
    <3>2. Cardinality(DirtyOn(d, o)) = Cardinality(DirtyOn(c, o)) + 1
      BY <2>0, <3>1, FS_AddElement
    <3> QED
      BY <1>0, <2>0, <2>2, <3>2
  <2>3. CASE /\ d.buf[b].dirty = FALSE /\ c.buf[b].dirty = TRUE
             /\ d.dirtybufs = [c.dirtybufs EXCEPT ![o] = c.dirtybufs[o] - 1]
    <3>1. DirtyOn(d, o) = DirtyOn(c, o) \ {b} /\ b \in DirtyOn(c, o)
      BY <1>0, <1>1, <2>3 DEF DirtyOn, SameOthers
    <3>2. Cardinality(DirtyOn(d, o)) = Cardinality(DirtyOn(c, o)) - 1
      BY <2>0, <3>1, FS_RemoveElement
    <3> QED
      BY <1>0, <2>0, <2>3, <3>2
  <2> QED
    BY <2>1, <2>2, <2>3
<1>5. \A n \in Objs : d.dirtybufs[n] = Cardinality(DirtyOn(d, n))
  BY <1>2, <1>3, <1>4, BlocksExactIs
<1>6. \A x \in Bufs : d.buf[x].blk = c.buf[x].blk /\ d.buf[x].obj = c.buf[x].obj
  BY DEF SameOthers
<1>7. \A n \in Files : \A x, y \in On(d, n) : d.buf[x].blk = d.buf[y].blk => x = y
  BY <1>0, <1>1, <1>6, BlocksExactIs DEF Files
<1>8. \A x \in Bufs : d.buf[x].dirty => x \in On(d, d.buf[x].obj)
  <2>1. ASSUME NEW x \in Bufs, d.buf[x].dirty PROVE x \in On(d, d.buf[x].obj)
    <3>1. x = b \/ c.buf[x].dirty
      BY <2>1 DEF SameOthers
    <3>2. x \in On(c, c.buf[x].obj) /\ c.buf[x].obj \in Objs
      BY <3>1, BlocksExactIs, BufIsRec
    <3> QED
      BY <1>1, <1>6, <3>2
  <2> QED
    BY <2>1
<1> QED
  BY <1>5, <1>7, <1>8, BlocksExactIs

\* What is known of a buffer on the list of its object.
Listed(c, b) == b \in On(c, c.buf[b].obj) /\ \A o \in Objs : b \in On(c, o) => o = c.buf[b].obj

LEMMA ModifyExact ==
  ASSUME NEW c \in CacheRec, BlocksExact(c), NEW b \in Bufs, Listed(c, b),
         IsFile(c.buf[b].obj) => c.buf[b].data < MaxVersion
  PROVE  BlocksExact(Bdirty(Modify(c, b), b))
<1> DEFINE d == Bdirty(Modify(c, b), b)
<1>1. /\ d \in CacheRec /\ SameLists(c, d) /\ SameOthers(c, d, b) /\ Kept(c.buf[b], d.buf[b])
      /\ d.buf[b].blk = c.buf[b].blk /\ d.buf[b].dirty = TRUE
      /\ d.dirtybufs = IF c.buf[b].dirty THEN c.dirtybufs
                       ELSE [c.dirtybufs EXCEPT ![c.buf[b].obj] = c.dirtybufs[c.buf[b].obj] + 1]
      /\ c.buf[b].dirty \in BOOLEAN
  BY ModifyEffect, ModifyData, BufIsRec
<1> HIDE DEF d
<1>2. BlocksExact(d)
  BY <1>1, MarkExact DEF Listed, Kept
<1> QED
  BY <1>2 DEF d

\* bwrite clears the mark; of a buffer on no list there is none to clear.
LEMMA CleanExact ==
  ASSUME NEW c \in CacheRec, BlocksExact(c), NEW b \in Bufs,
         c.buf[b].dirty => Listed(c, b)
  PROVE  BlocksExact(BwriteClean(c, b))
<1> DEFINE d == BwriteClean(c, b)
<1>1. CASE ~c.buf[b].dirty
  BY <1>1 DEF BwriteClean
<1>2. CASE c.buf[b].dirty
  <2>1. 1 \in Objs /\ 0 \in Blks
    BY ConstantTypes
  <2>2. /\ d \in CacheRec /\ SameLists(c, d) /\ SameOthers(c, d, b) /\ Kept(c.buf[b], d.buf[b])
        /\ d.buf[b].blk = c.buf[b].blk /\ d.buf[b].dirty = FALSE
        /\ d.dirtybufs = [c.dirtybufs EXCEPT ![c.buf[b].obj] = c.dirtybufs[c.buf[b].obj] - 1]
        /\ c.buf[b].dirty = TRUE
    BY <1>2, <2>1, WriteEffect, CleanData, BufIsRec
  <2> HIDE DEF d
  <2>3. BlocksExact(d)
    BY <1>2, <2>2, MarkExact DEF Listed, Kept
  <2> QED
    BY <2>3 DEF d
<1> QED
  BY <1>1, <1>2

\* Operations that neither link nor mark.
LEMMA QuietAlike ==
  ASSUME NEW c \in CacheRec, NEW b \in Bufs, NEW d \in CacheRec,
         SameLists(c, d), SameOthers(c, d, b), d.buf[b].obj = c.buf[b].obj,
         d.buf[b].blk = c.buf[b].blk, d.buf[b].dirty = c.buf[b].dirty, d.dirtybufs = c.dirtybufs
  PROVE  Alike(c, d)
<1>1. \A o \in Objs : On(d, o) = On(c, o) /\ On(c, o) \subseteq Bufs
  BY CacheParts DEF SameLists, On
<1> QED
  BY <1>1 DEF Alike, SameOthers

LEMMA PlainAlike ==
  ASSUME NEW c \in CacheRec, NEW b \in Bufs
  PROVE  /\ Alike(c, Unref(c, b)) /\ Alike(c, Unlock(c, b)) /\ Alike(c, ObjRead(c, b))
         /\ \A o \in Objs, k \in Blks : Alike(c, ObjWrite(c, b, o, k))
<1>1. Alike(c, Unref(c, b))
  BY RefEffect, CountData, QuietAlike, ZenonT(60) DEF SameData, SameDisk
<1>2. Alike(c, Unlock(c, b))
  <2>1. Unlock(c, b).buf[b] = [c.buf[b] EXCEPT !.lock = c.buf[b].lock - 1]
    BY UnlockEffect
  <2>2. Unlock(c, b).buf[b].obj = c.buf[b].obj
    BY <2>1, BufIsRec DEF BufRec
  <2> QED
    BY <2>2, UnlockEffect, CountData, QuietAlike DEF SameData, SameDisk
<1>3. Alike(c, ObjRead(c, b))
  BY ObjReadEffect, ObjReadData, QuietAlike DEF SameDisk, Kept
<1>4. ASSUME NEW o \in Objs, NEW k \in Blks PROVE Alike(c, ObjWrite(c, b, o, k))
  <2> DEFINE d == ObjWrite(c, b, o, k)
  <2>0. d.dirtybufs = c.dirtybufs
    BY DEF ObjWrite, CacheRec
  <2>1. d \in CacheRec /\ SameLists(c, d) /\ d.buf = c.buf
    BY WriteEffect
  <2> HIDE DEF d
  <2>2. Alike(c, d)
    BY <2>0, <2>1, QuietAlike DEF SameOthers
  <2> QED
    BY <2>2 DEF d
<1> QED
  BY <1>1, <1>2, <1>3, <1>4

LEMMA BlookupAlike ==
  ASSUME NEW c \in CacheRec, NoRepeats(c), NEW o \in Objs, NEW b \in Bufs, b \in On(c, o)
  PROVE  Alike(c, Blookup(c, o, b))
<1> DEFINE d == Blookup(c, o, b)
<1>1. /\ \A n \in Objs : On(d, n) = On(c, n) /\ On(c, n) \subseteq Bufs
      /\ SameOthers(c, d, b) /\ d.buf[b].obj = c.buf[b].obj
      /\ d.buf[b].dirty = c.buf[b].dirty /\ d.buf[b].blk = c.buf[b].blk
      /\ d.dirtybufs = c.dirtybufs
  BY BlookupEffect, BlookupData, CacheParts DEF SameDisk
<1> HIDE DEF d
<1>2. Alike(c, d)
  BY <1>1 DEF Alike, SameOthers
<1> QED
  BY <1>2 DEF d

\* The descriptor that bcreate pops is on no list.
LEMMA TakeAlike ==
  ASSUME NEW c \in CacheRec, NoRepeats(c), c.unused # <<>>, NEW o \in Objs, NEW k \in Blks,
         \A n \in Objs : Last(c.unused) \notin On(c, n)
  PROVE  Alike(c, Take(c, o, k))
<1> DEFINE d == Take(c, o, k)
           b == Last(c.unused)
<1>1. /\ d.objbufs = c.objbufs /\ (\A x \in Bufs \ {b} : d.buf[x] = c.buf[x])
      /\ d.buf[b].dirty = FALSE /\ d.dirtybufs = c.dirtybufs
      /\ \A n \in Objs : On(c, n) \subseteq Bufs \ {b}
  <2>1. /\ d \in CacheRec /\ NoRepeats(d) /\ b \in Bufs /\ b \in Range(c.unused)
        /\ Range(d.unused) = Range(c.unused) \ {b} /\ d.objbufs = c.objbufs
        /\ \A x \in Bufs \ {b} : d.buf[x] = c.buf[x]
        /\ d.buf[b].obj = o /\ d.buf[b].refcnt = 1 /\ d.buf[b].dirty = FALSE
        /\ d.buf[b].fresh = FALSE /\ d.buf[b].lock = c.buf[b].lock /\ d.buf[b].data = 0
    BY TakeEffect, ZenonT(60)
  <2>2. d.dirtybufs = c.dirtybufs
    BY TakeData DEF SameDisk
  <2>3. \A n \in Objs : b \notin On(c, n) /\ On(c, n) \subseteq Bufs
    BY CacheParts
  <2> HIDE DEF d, b
  <2> QED
    BY <2>1, <2>2, <2>3
<1> HIDE DEF d, b
<1>2. Alike(c, d)
  BY <1>1 DEF Alike, On
<1> QED
  BY <1>2 DEF d

\* Descriptors that are filed: in lists without repetition, the blocks exact.
Filed(c) == c \in CacheRec /\ NoRepeats(c) /\ BlocksExact(c)
Unlisted(c, b) == \A o \in Objs : b \notin On(c, o)

LEMMA PlainFiled ==
  ASSUME NEW c, Filed(c), NEW b \in Bufs
  PROVE  /\ Filed(Unref(c, b)) /\ Filed(Unlock(c, b)) /\ Filed(ObjRead(c, b))
         /\ \A o \in Objs, k \in Blks : Filed(ObjWrite(c, b, o, k))
<1>1. ASSUME NEW d \in CacheRec, SameLists(c, d), Alike(c, d) PROVE Filed(d)
  BY <1>1, AlikeExact DEF Filed, SameLists, NoRepeats
<1>2. c \in CacheRec
  BY DEF Filed
<1>3. Filed(Unref(c, b))
  BY <1>1, <1>2, RefEffect, PlainAlike
<1>4. Filed(Unlock(c, b))
  BY <1>1, <1>2, UnlockEffect, PlainAlike
<1>5. Filed(ObjRead(c, b))
  BY <1>1, <1>2, ObjReadEffect, PlainAlike
<1>6. \A o \in Objs, k \in Blks : Filed(ObjWrite(c, b, o, k))
  BY <1>1, <1>2, WriteEffect, PlainAlike
<1> QED
  BY <1>3, <1>4, <1>5, <1>6

LEMMA MarkFiled ==
  ASSUME NEW c, Filed(c), NEW b \in Bufs
  PROVE  /\ (c.buf[b].dirty => Listed(c, b)) => Filed(BwriteClean(c, b))
         /\ Listed(c, b) /\ (IsFile(c.buf[b].obj) => c.buf[b].data < MaxVersion) =>
              Filed(Bdirty(Modify(c, b), b))
<1>1. ASSUME NEW d \in CacheRec, SameLists(c, d), BlocksExact(d) PROVE Filed(d)
  BY <1>1 DEF Filed, SameLists, NoRepeats
<1>2. c \in CacheRec /\ 1 \in Objs /\ 0 \in Blks /\ BlocksExact(c)
  BY ConstantTypes DEF Filed
<1>3. ASSUME c.buf[b].dirty => Listed(c, b) PROVE Filed(BwriteClean(c, b))
  BY <1>1, <1>2, <1>3, WriteEffect, CleanExact
<1>4. ASSUME Listed(c, b), IsFile(c.buf[b].obj) => c.buf[b].data < MaxVersion
      PROVE  Filed(Bdirty(Modify(c, b), b))
  BY <1>1, <1>2, <1>4, ModifyEffect, ModifyExact
<1> QED
  BY <1>3, <1>4

LEMMA ListFiled ==
  ASSUME NEW c, Filed(c), NEW b \in Bufs
  PROVE  /\ b \notin Range(c.unused) /\ c.buf[b].dirty = FALSE => Filed(Bfree(c, b))
         /\ b \notin Range(c.unused) => Filed(Untake(c, b))
         /\ Unlisted(c, b) /\ c.buf[b].dirty = FALSE
            /\ (IsFile(c.buf[b].obj) => Vacant(c, c.buf[b].obj, c.buf[b].blk)) => Filed(Link(c, b))
<1>1. c \in CacheRec /\ NoRepeats(c) /\ BlocksExact(c) /\ c.buf[b].obj \in Objs
  BY BufIsRec DEF Filed
<1>2. ASSUME b \notin Range(c.unused), c.buf[b].dirty = FALSE PROVE Filed(Bfree(c, b))
  BY <1>1, <1>2, BfreeEffect, BfreeExact DEF Filed
<1>3. ASSUME b \notin Range(c.unused) PROVE Filed(Untake(c, b))
  <2> DEFINE d == Untake(c, b)
  <2>1. d \in CacheRec /\ NoRepeats(d) /\ d.buf = c.buf /\ d.objbufs = c.objbufs
    BY <1>1, <1>3, UntakeEffect
  <2>2. d.dirtybufs = c.dirtybufs
    BY <1>1, ListData DEF SameDisk
  <2> HIDE DEF d
  <2>3. BlocksExact(d)
    BY <1>1, <2>1, <2>2 DEF BlocksExact
  <2> QED
    BY <2>1, <2>3 DEF Filed, d
<1>4. ASSUME Unlisted(c, b), c.buf[b].dirty = FALSE,
             IsFile(c.buf[b].obj) => Vacant(c, c.buf[b].obj, c.buf[b].blk)
      PROVE  Filed(Link(c, b))
  BY <1>1, <1>4, LinkEffect, LinkExact DEF Filed, Unlisted
<1> QED
  BY <1>2, <1>3, <1>4

LEMMA BlookupFiled ==
  ASSUME NEW c, Filed(c), NEW o \in Objs, NEW b \in Bufs, b \in On(c, o)
  PROVE  Filed(Blookup(c, o, b))
<1>1. c \in CacheRec /\ NoRepeats(c) /\ BlocksExact(c)
  BY DEF Filed
<1>2. Alike(c, Blookup(c, o, b)) /\ Blookup(c, o, b) \in CacheRec /\ NoRepeats(Blookup(c, o, b))
  BY <1>1, BlookupAlike, BlookupEffect
<1> QED
  BY <1>1, <1>2, AlikeExact DEF Filed

\* The descriptor popped for a block without a buffer.
LEMMA TakeFiled ==
  ASSUME NEW c, Filed(c), c.unused # <<>>, NEW o \in Objs, NEW k \in Blks,
         Unlisted(c, Last(c.unused)), IsFile(o) => Vacant(c, o, k)
  PROVE  LET d == Take(c, o, k)
             b == Last(c.unused)
         IN /\ Filed(d) /\ b \in Bufs /\ Unlisted(d, b) /\ d.buf[b].dirty = FALSE
            /\ d.buf[b].obj = o /\ d.buf[b].blk = k /\ (IsFile(o) => Vacant(d, o, k))
<1> DEFINE d == Take(c, o, k)
           b == Last(c.unused)
<1>1. c \in CacheRec /\ NoRepeats(c) /\ BlocksExact(c)
  BY DEF Filed
<1>2. /\ d \in CacheRec /\ NoRepeats(d) /\ b \in Bufs /\ d.objbufs = c.objbufs
      /\ d.buf[b].obj = o /\ d.buf[b].dirty = FALSE
  BY <1>1, TakeEffect, ZenonT(60)
<1>3. d.buf[b].blk = k
  BY <1>1, TakeData
<1>4. Alike(c, d)
  BY <1>1, TakeAlike DEF Unlisted
<1> HIDE DEF d, b
<1>5. Filed(d) /\ Unlisted(d, b)
  BY <1>1, <1>2, <1>4, AlikeExact DEF Filed, Unlisted, On, b
<1>6. IsFile(o) => Vacant(d, o, k)
  BY <1>2, <1>4 DEF Vacant, Alike, On
<1> QED
  BY <1>2, <1>3, <1>5, <1>6 DEF d, b

-----------------------------------------------------------------------------
(* Every action keeps one buffer per block and the dirty buffers counted.    *)

GoesTo(p, pcs) == \E r : r.pc \in pcs /\ Moves(proc, p, r, proc')

\* What becomes of the cache and of the state of p when bread goes on with a
\* descriptor in hand, when bcreate pops one, and when bunrefp returns.
LEMMA LinkReadFiled ==
  ASSUME NEW p \in Procs, FreeSlots(p) # {}, NEW c0, Filed(c0), NEW b \in Bufs, NEW m,
         Unlisted(c0, b), c0.buf[b].dirty = FALSE,
         IsFile(c0.buf[b].obj) => Vacant(c0, c0.buf[b].obj, c0.buf[b].blk),
         LinkAndRead(p, c0, b, m)
  PROVE  Filed(cache') /\ GoesTo(p, {"user", "read", "readclean"})
<1> DEFINE c == Link(c0, b)
<1>1. Filed(c)
  BY ListFiled
<1> HIDE DEF c
<1>2. Filed(Unlock(c, b))
  BY <1>1, PlainFiled
<1>3. Filed(Unlock(ObjRead(c, b), b))
  <2>1. Filed(ObjRead(c, b))
    BY <1>1, PlainFiled
  <2> QED
    BY <2>1, PlainFiled
<1>4. NoCall.pc = "user" /\ \A pc : [NoCall EXCEPT !.pc = pc, !.buf = b].pc = pc
  BY DEF NoCall
<1>5. \/ Return(p, Unlock(c, b), b) \/ Return(p, Unlock(ObjRead(c, b), b), b)
      \/ Fail(p, c)
      \/ \E pc \in {"read", "readclean"} :
           cache' = c /\ proc' = [proc EXCEPT ![p] = [NoCall EXCEPT !.pc = pc, !.buf = b]]
  BY DEF LinkAndRead, c
<1>6. Filed(cache')
  BY <1>1, <1>2, <1>3, <1>5 DEF Return, Fail
<1>7. GoesTo(p, {"user", "read", "readclean"})
  <2>1. CASE proc' = [proc EXCEPT ![p] = NoCall]
    <3>1. NoCall.pc \in {"user", "read", "readclean"}
      BY <1>4
    <3>2. Moves(proc, p, NoCall, proc')
      BY <2>1 DEF Moves
    <3> QED
      BY <3>1, <3>2 DEF GoesTo
  <2>2. ASSUME NEW pc \in {"read", "readclean"},
               proc' = [proc EXCEPT ![p] = [NoCall EXCEPT !.pc = pc, !.buf = b]]
        PROVE  GoesTo(p, {"user", "read", "readclean"})
    <3> DEFINE r == [NoCall EXCEPT !.pc = pc, !.buf = b]
    <3>1. r.pc \in {"user", "read", "readclean"}
      BY <1>4, <2>2
    <3>2. Moves(proc, p, r, proc')
      BY <2>2 DEF Moves
    <3> HIDE DEF r
    <3> QED
      BY <3>1, <3>2 DEF GoesTo
  <2> QED
    BY <1>5, <2>1, <2>2 DEF Return, Fail
<1> QED
  BY <1>6, <1>7

LEMMA BcreateFiled ==
  ASSUME NEW p \in Procs, FreeSlots(p) # {}, Filed(cache), cache.unused # <<>>,
         Unlisted(cache, Last(cache.unused)), NEW o \in Objs, NEW k \in Blks,
         IsFile(o) => Vacant(cache, o, k), NEW m, Bcreate(p, o, k, m)
  PROVE  /\ Filed(cache')
         /\ \E r : /\ Moves(proc, p, r, proc')
                   /\ \/ r.pc \in {"user", "read", "readclean"}
                      \/ /\ r.pc = "data" /\ r.obj = o /\ cache'.buf[r.buf].blk = r.blk
                         /\ IsFile(o) => Vacant(cache', o, r.blk)
<1> DEFINE c == Take(cache, o, k)
           b == Last(cache.unused)
           r == [pc |-> "data", obj |-> o, blk |-> k, mode |-> m, buf |-> b]
<1>1. /\ Filed(c) /\ b \in Bufs /\ Unlisted(c, b) /\ c.buf[b].dirty = FALSE
      /\ c.buf[b].obj = o /\ c.buf[b].blk = k /\ (IsFile(o) => Vacant(c, o, k))
  BY TakeFiled
<1>2. \/ LinkAndRead(p, c, b, m)
      \/ cache' = c /\ proc' = [proc EXCEPT ![p] = r]
  BY DEF Bcreate
<1>3. r.pc = "data" /\ r.obj = o /\ r.blk = k /\ r.buf = b
  OBVIOUS
<1> HIDE DEF c, b, r
<1>4. CASE LinkAndRead(p, c, b, m)
  <2>1. Filed(cache') /\ GoesTo(p, {"user", "read", "readclean"})
    BY <1>1, <1>4, LinkReadFiled
  <2> QED
    BY <2>1 DEF GoesTo
<1>5. CASE cache' = c /\ proc' = [proc EXCEPT ![p] = r]
  <2>1. Moves(proc, p, r, proc')
    BY <1>5 DEF Moves
  <2> QED
    BY <1>1, <1>3, <1>5, <2>1
<1> QED
  BY <1>2, <1>4, <1>5

LEMMA BunrefFiled ==
  ASSUME NEW p \in Procs, proc[p].pc # "data", NEW c, Filed(c), NEW b \in Bufs,
         b \notin Range(c.unused), Bunrefp(p, c, b), cache' \in CacheRec, proc[p] \in ProcRec
  PROVE  BlocksExact(cache') /\ GoesTo(p, {"user", "exit", "spin"})
<1>1. CASE c.buf[b].lock # 0
  <2>1. cache' = [c EXCEPT !.buf[b].lock = c.buf[b].lock + 1]
        /\ proc' = [proc EXCEPT ![p] = [proc[p] EXCEPT !.pc = "spin"]]
    BY <1>1 DEF Bunrefp, Goto
  <2>2. [proc[p] EXCEPT !.pc = "spin"].pc \in {"user", "exit", "spin"}
    BY DEF ProcRec
  <2> DEFINE s == [c.buf[b] EXCEPT !.lock = c.buf[b].lock + 1]
  <2>3. /\ SameLists(c, cache') /\ cache'.dirtybufs = c.dirtybufs
        /\ cache'.buf = [c.buf EXCEPT ![b] = s]
    BY <2>1 DEF Filed, CacheRec, SameLists
  <2>4. s.obj = c.buf[b].obj /\ s.blk = c.buf[b].blk /\ s.dirty = c.buf[b].dirty
    BY BufIsRec DEF Filed, BufRec
  <2> HIDE DEF s
  <2>5. cache'.buf[b] = s /\ SameOthers(c, cache', b) /\ c \in CacheRec
    BY <2>3, CacheParts DEF SameOthers, Filed
  <2>6. Alike(c, cache')
    BY <2>3, <2>4, <2>5, QuietAlike
  <2>7. GoesTo(p, {"user", "exit", "spin"})
    <3> DEFINE r == [proc[p] EXCEPT !.pc = "spin"]
    <3>1. Moves(proc, p, r, proc') /\ r.pc \in {"user", "exit", "spin"}
      BY <2>1, <2>2 DEF Moves
    <3> HIDE DEF r
    <3> QED
      BY <3>1 DEF GoesTo
  <2> QED
    BY <2>6, <2>7, AlikeExact DEF Filed
<1>2. CASE c.buf[b].lock = 0
  <2> DEFINE d == Unref(c, b)
             r == IF proc[p].pc = "exit" THEN proc[p] ELSE NoCall
  <2>1. Filed(d) /\ SameLists(c, d)
    BY PlainFiled, RefEffect DEF Filed
  <2>2. cache' = (IF Reclaims(d, b) THEN Bfree(d, b) ELSE d) /\ proc' = [proc EXCEPT ![p] = r]
    BY <1>2 DEF Bunrefp
  <2>3. r.pc \in {"user", "exit", "spin"}
    BY DEF NoCall
  <2> HIDE DEF d, r
  <2>4. Reclaims(d, b) => d.buf[b].dirty = FALSE
    BY <2>1, BufIsRec DEF Reclaims, Filed
  <2>5. b \notin Range(d.unused)
    BY <2>1 DEF SameLists
  <2>6. Filed(cache')
    BY <2>1, <2>2, <2>4, <2>5, ListFiled
  <2>7. GoesTo(p, {"user", "exit", "spin"})
    <3>1. Moves(proc, p, r, proc')
      BY <2>2 DEF Moves
    <3> QED
      BY <2>3, <3>1 DEF GoesTo
  <2> QED
    BY <2>6, <2>7 DEF Filed
<1> QED
  BY <1>1, <1>2

\* Only the process that has the processor can be about to create a buffer.
LEMMA OthersCalm ==
  ASSUME Inv, NEW p \in Procs, cpu \in {Idle, p}, NEW r, Moves(proc, p, r, proc'),
         r.pc \in {"alloc", "data"} =>
           /\ IsFile(r.obj) => Vacant(cache', r.obj, r.blk)
           /\ r.pc = "data" => cache'.buf[r.buf].blk = r.blk
  PROVE  BlockPending(cache', proc')
<1>1. \A q \in Procs \ {p} : proc'[q] = proc[q] /\ proc[q].pc \notin {"alloc", "data"}
  BY BufCacheAssumption DEF Inv, TypeInv, TypeOK, CacheInv, Running, CleaningPcs, Moves
<1>2. proc'[p] = r
  BY DEF Inv, TypeInv, TypeOK, Moves
<1> QED
  BY <1>1, <1>2 DEF BlockPending

LEMMA GoneCalm ==
  ASSUME Inv, NEW p \in Procs, cpu \in {Idle, p}, NEW pcs, GoesTo(p, pcs),
         pcs \cap {"alloc", "data"} = {}
  PROVE  BlockPending(cache', proc')
<1>1. PICK r : r.pc \in pcs /\ Moves(proc, p, r, proc')
  BY DEF GoesTo
<1> QED
  BY <1>1, OthersCalm

\* Where the buffers are that the invariant of the pool places.
LEMMA WhereListed ==
  ASSUME Disciplined, Sound(cache, table, proc), NEW b \in Bufs
  PROVE  /\ \A p \in Procs : b \in HeldBy(p) => Listed(cache, b) /\ b \notin Range(cache.unused)
         /\ b \in Range(cache.unused) => Unlisted(cache, b)
         /\ \A p \in Procs : proc[p].pc = "data" /\ proc[p].buf = b =>
              Unlisted(cache, b) /\ b \notin Range(cache.unused)
         /\ \A o \in Objs : b \in On(cache, o) => Listed(cache, b) /\ b \notin Range(cache.unused)
<1>1. Placed(cache, proc, b) /\ cache.buf[b].obj \in Objs
  BY BufIsRec DEF Sound
<1>2. ASSUME NEW p \in Procs, b \in HeldBy(p)
      PROVE  Listed(cache, b) /\ b \notin Range(cache.unused)
  <2>1. PICK s \in Slots : table[p][s] = b
    BY <1>2 DEF HeldBy
  <2>2. b \notin Range(cache.unused) /\ b \notin InHand(proc)
    BY <2>1, HeldPlace
  <2> QED
    BY <1>1, <2>2 DEF Placed, Listed
<1>3. b \in Range(cache.unused) => Unlisted(cache, b)
  BY <1>1 DEF Placed, Unlisted
<1>4. ASSUME NEW p \in Procs, proc[p].pc = "data", proc[p].buf = b
      PROVE  Unlisted(cache, b) /\ b \notin Range(cache.unused)
  <2>1. b \in InHand(proc)
    BY <1>4 DEF InHand
  <2> QED
    BY <1>1, <2>1 DEF Placed, Unlisted
<1>5. ASSUME NEW o \in Objs, b \in On(cache, o)
      PROVE  Listed(cache, b) /\ b \notin Range(cache.unused)
  BY <1>1, <1>5 DEF Placed, Listed
<1> QED
  BY <1>2, <1>3, <1>4, <1>5

LEMMA BrefBlocks ==
  ASSUME Disciplined, Inv, BlockInv, NEW p \in Procs,
         NEW o \in Objs, NEW k \in Blks, NEW m \in 0..3,
         BrefHit(p, o, k, m) \/ BrefMiss(p, o, k, m)
  PROVE  BlockInv'
<1>0. cpu = Idle /\ FreeSlots(p) # {}
  BY DEF BrefHit, BrefMiss, MayBref, AtUser, Disciplined
<1>1. Sound(cache, table, proc) /\ Filed(cache)
  <2>1. Sound(cache, table, proc)
    BY <1>0, NowSound
  <2> QED
    BY <2>1 DEF Sound, Filed, BlockInv
<1>2. CASE BrefHit(p, o, k, m)
  <2>1. PICK i \in Matches(cache, o, k) :
          Return(p, Blookup(cache, o, cache.objbufs[o][i]), cache.objbufs[o][i])
    BY <1>2 DEF BrefHit
  <2> DEFINE b == cache.objbufs[o][i]
  <2>2. b \in Bufs /\ b \in On(cache, o)
    <3>1. cache.objbufs[o] \in Seq(Bufs) /\ i \in DOMAIN cache.objbufs[o]
      BY <1>1 DEF Sound, CacheRec, Matches
    <3> QED
      BY <3>1, RangeIs DEF On
  <2>3. cache' = Blookup(cache, o, b) /\ proc' = [proc EXCEPT ![p] = NoCall]
    BY <1>0, <2>1 DEF Return
  <2> HIDE DEF b
  <2>4. Filed(cache')
    BY <1>1, <2>2, <2>3, BlookupFiled
  <2>5. NoCall.pc = "user" /\ Moves(proc, p, NoCall, proc')
    BY <2>3 DEF NoCall, Moves
  <2>6. BlockPending(cache', proc')
    BY <1>0, <2>5, OthersCalm
  <2> QED
    BY <2>4, <2>6 DEF BlockInv, Filed
<1>3. CASE BrefMiss(p, o, k, m)
  <2>1. IsFile(o) => Vacant(cache, o, k)
    <3> SUFFICES ASSUME IsFile(o), NEW b \in Range(cache.objbufs[o]), cache.buf[b].blk = k
                 PROVE  FALSE
      BY DEF Vacant
    <3>1. Matches(cache, o, k) = {}
      BY <1>3 DEF BrefMiss, IsStream
    <3>2. PICK i \in DOMAIN cache.objbufs[o] : cache.objbufs[o][i] = b
      BY DEF Range
    <3>3. i \in Matches(cache, o, k)
      BY <3>2 DEF Matches, IsStream
    <3> QED
      BY <3>1, <3>3
  <2>2. CASE cache.unused # <<>>
    <3>1. Bcreate(p, o, k, m)
      BY <1>3, <2>2 DEF BrefMiss
    <3>2. Unlisted(cache, Last(cache.unused))
      <4>1. Last(cache.unused) \in Range(cache.unused) /\ Last(cache.unused) \in Bufs
        BY <1>1, <2>2, FrontRange, CacheParts DEF Filed, NoRepeats
      <4> QED
        BY <1>1, <4>1, WhereListed
    <3>3. Filed(cache') /\ \E r : /\ Moves(proc, p, r, proc')
              /\ \/ r.pc \in {"user", "read", "readclean"}
                 \/ /\ r.pc = "data" /\ r.obj = o /\ cache'.buf[r.buf].blk = r.blk
                    /\ IsFile(o) => Vacant(cache', o, r.blk)
      BY <1>0, <1>1, <2>1, <2>2, <3>1, <3>2, BcreateFiled
    <3>4. BlockPending(cache', proc')
      BY <1>0, <3>3, OthersCalm
    <3> QED
      BY <3>3, <3>4 DEF BlockInv, Filed
  <2>3. CASE cache.unused = <<>>
    <3> DEFINE r == [NoCall EXCEPT !.pc = "alloc", !.obj = o, !.blk = k, !.mode = m]
    <3>1. r.pc = "alloc" /\ r.obj = o /\ r.blk = k
      BY DEF NoCall
    <3>2. cache' = cache /\ Moves(proc, p, r, proc')
      BY <1>3, <2>3 DEF BrefMiss, Moves
    <3> HIDE DEF r
    <3>3. BlockPending(cache', proc')
      BY <1>0, <2>1, <3>1, <3>2, OthersCalm
    <3> QED
      BY <3>2, <3>3 DEF BlockInv
  <2> QED
    BY <2>2, <2>3
<1> QED
  BY <1>2, <1>3

LEMMA UnlistedClean ==
  ASSUME NEW c, Filed(c), NEW b \in Bufs, Unlisted(c, b)
  PROVE  c.buf[b].dirty = FALSE
<1>1. c.buf[b].dirty \in BOOLEAN /\ c.buf[b].obj \in Objs
  BY BufIsRec DEF Filed
<1> QED
  BY <1>1, BlocksExactIs DEF Filed, Unlisted

LEMMA KernelBlocks ==
  ASSUME Disciplined, Inv, BlockInv, NEW p \in Procs, KernelStep(p), TypeInv'
  PROVE  BlockInv'
<1> DEFINE b == proc[p].buf
<1>0. /\ cpu = p /\ proc[p].pc \in CleaningPcs /\ proc[p].pc # "spin"
      /\ cpu \in {Idle, p} /\ proc[p] \in ProcRec /\ cache' \in CacheRec
  BY DEF KernelStep, AllocEnd, DataEnd, ReadEnd, WriteEnd, ForgetEnd, CleaningPcs,
         Inv, TypeInv, TypeOK, ProcRec
<1>1. Sound(cache, table, proc) /\ Filed(cache)
  <2>1. Sound(cache, table, proc)
    BY <1>0, NowSound
  <2> QED
    BY <2>1 DEF Sound, Filed, BlockInv
<1>2. /\ proc[p].pc \in ReadingPcs \cup {"alloc"} => FreeSlots(p) # {}
      /\ proc[p].pc \in {"data", "read", "readclean", "write", "writeclean"} => b \in Bufs
      /\ proc[p].pc \in {"write", "writeclean"} => b \in HeldBy(p)
  BY DEF Inv, TypeInv, HasBuffer, CacheInv, BrefPending, WritePending
<1>3. ASSUME NEW c, Fail(p, c), Filed(c) PROVE BlockInv'
  <2>1. GoesTo(p, {"user"})
    <3>1. Moves(proc, p, NoCall, proc') /\ NoCall.pc = "user"
      BY <1>3 DEF Fail, Moves, NoCall
    <3> QED
      BY <3>1 DEF GoesTo
  <2>2. BlockPending(cache', proc')
    BY <1>0, <2>1, GoneCalm
  <2> QED
    BY <1>3, <2>2 DEF Fail, Filed, BlockInv
<1>4. CASE AllocEnd(p)
  <2>1. proc[p].pc = "alloc" /\ proc[p].obj \in Objs /\ proc[p].blk \in Blks
    BY <1>0, <1>4 DEF AllocEnd, ProcRec
  <2>2. IsFile(proc[p].obj) => Vacant(cache, proc[p].obj, proc[p].blk)
    BY <2>1 DEF BlockInv, BlockPending
  <2>3. CASE cache.unused # <<>>
    <3>1. Bcreate(p, proc[p].obj, proc[p].blk, proc[p].mode)
      BY <1>4, <2>3 DEF AllocEnd
    <3>2. Unlisted(cache, Last(cache.unused))
      <4>1. Last(cache.unused) \in Range(cache.unused) /\ Last(cache.unused) \in Bufs
        BY <1>1, <2>3, FrontRange, CacheParts DEF Filed, NoRepeats
      <4> QED
        BY <1>1, <4>1, WhereListed
    <3>3. Filed(cache') /\ \E r : /\ Moves(proc, p, r, proc')
              /\ \/ r.pc \in {"user", "read", "readclean"}
                 \/ /\ r.pc = "data" /\ r.obj = proc[p].obj /\ cache'.buf[r.buf].blk = r.blk
                    /\ IsFile(proc[p].obj) => Vacant(cache', proc[p].obj, r.blk)
      BY <1>1, <1>2, <2>1, <2>2, <2>3, <3>1, <3>2, BcreateFiled
    <3>4. BlockPending(cache', proc')
      BY <1>0, <3>3, OthersCalm
    <3> QED
      BY <3>3, <3>4 DEF BlockInv, Filed
  <2>4. CASE cache.unused = <<>>
    BY <1>1, <1>3, <1>4, <2>4 DEF AllocEnd
  <2> QED
    BY <2>3, <2>4
<1>5. CASE DataEnd(p)
  <2>1. proc[p].pc = "data" /\ b \in Bufs /\ FreeSlots(p) # {}
    BY <1>2, <1>5 DEF DataEnd, ReadingPcs
  <2>2. Unlisted(cache, b) /\ b \notin Range(cache.unused) /\ cache.buf[b].dirty = FALSE
    BY <1>1, <2>1, WhereListed, UnlistedClean
  <2>3. cache.buf[b].obj = proc[p].obj /\ cache.buf[b].blk = proc[p].blk
        /\ (IsFile(proc[p].obj) => Vacant(cache, proc[p].obj, proc[p].blk))
    BY <2>1 DEF Inv, CacheInv, BrefPending, BlockInv, BlockPending
  <2>4. CASE LinkAndRead(p, cache, b, proc[p].mode)
    <3>1. Filed(cache') /\ GoesTo(p, {"user", "read", "readclean"})
      BY <1>1, <2>1, <2>2, <2>3, <2>4, LinkReadFiled
    <3>2. BlockPending(cache', proc')
      BY <1>0, <3>1, GoneCalm
    <3> QED
      BY <3>1, <3>2 DEF BlockInv, Filed
  <2>5. CASE Fail(p, Untake(cache, b))
    BY <1>1, <1>3, <2>1, <2>2, <2>5, ListFiled
  <2> QED
    BY <1>5, <2>4, <2>5 DEF DataEnd
<1>6. ASSUME NEW pc \in {"read", "write"}, Goto(p, pc), UNCHANGED cache PROVE BlockInv'
  <2> DEFINE r == [proc[p] EXCEPT !.pc = pc]
  <2>1. Moves(proc, p, r, proc') /\ r.pc \in {"read", "write"}
    BY <1>0, <1>6 DEF Goto, Moves, ProcRec
  <2> HIDE DEF r
  <2>2. BlockPending(cache', proc')
    BY <1>0, <2>1, OthersCalm
  <2> QED
    BY <1>6, <2>2 DEF BlockInv
<1>7. CASE ReadEnd(p)
  <2>1. proc[p].pc = "readclean" /\ b \in Bufs /\ FreeSlots(p) # {}
    BY <1>2, <1>7 DEF ReadEnd, ReadingPcs
  <2>2. CASE Return(p, Unlock(ObjRead(cache, b), b), b)
    <3> DEFINE d == ObjRead(cache, b)
    <3>1. Filed(d)
      BY <1>1, <2>1, PlainFiled
    <3> HIDE DEF d
    <3>2. Filed(Unlock(d, b))
      BY <2>1, <3>1, PlainFiled
    <3>3. cache' = Unlock(d, b) /\ Moves(proc, p, NoCall, proc') /\ NoCall.pc = "user"
      BY <2>1, <2>2 DEF Return, Moves, NoCall, d
    <3>4. BlockPending(cache', proc')
      BY <1>0, <3>3, OthersCalm
    <3> QED
      BY <3>2, <3>3, <3>4 DEF BlockInv, Filed
  <2> QED
    BY <1>6, <1>7, <2>2 DEF ReadEnd
<1>8. CASE WriteEnd(p)
  <2> DEFINE c == ObjWrite(cache, b, cache.buf[b].obj, cache.buf[b].blk)
  <2>1. proc[p].pc = "writeclean" /\ b \in Bufs /\ b \in HeldBy(p)
    BY <1>2, <1>8 DEF WriteEnd
  <2>2. cache.buf[b].obj \in Objs /\ cache.buf[b].blk \in Blks /\ b \notin Range(cache.unused)
    BY <1>1, <2>1, BufIsRec, WhereListed DEF Filed
  <2>3. Filed(c) /\ b \notin Range(c.unused)
    <3>1. Filed(c)
      BY <1>1, <2>1, <2>2, PlainFiled
    <3>2. SameLists(cache, c)
      BY <1>1, <2>1, <2>2, WriteEffect DEF Filed
    <3> QED
      BY <2>2, <3>1, <3>2 DEF SameLists
  <2>4. Fail(p, c) \/ Bunrefp(p, c, b) \/ (Goto(p, "write") /\ UNCHANGED cache)
    BY <1>8 DEF WriteEnd
  <2> HIDE DEF c
  <2>5. CASE Bunrefp(p, c, b)
    <3>1. BlocksExact(cache') /\ GoesTo(p, {"user", "exit", "spin"})
      BY <1>0, <2>1, <2>3, <2>5, BunrefFiled
    <3>2. BlockPending(cache', proc')
      BY <1>0, <3>1, GoneCalm
    <3> QED
      BY <3>1, <3>2 DEF BlockInv
  <2> QED
    BY <1>3, <1>6, <2>3, <2>4, <2>5
<1>9. CASE ForgetEnd(p)
  BY <1>1, <1>3, <1>9 DEF ForgetEnd
<1> QED
  BY <1>4, <1>5, <1>7, <1>8, <1>9 DEF KernelStep

LEMMA WrittenFiled ==
  ASSUME NEW c, Filed(c), NEW b \in Bufs, Listed(c, b), b \notin Range(c.unused)
  PROVE  /\ Filed(BwriteClean(c, b)) /\ Filed(Written(c, b))
         /\ b \notin Range(Written(c, b).unused) /\ b \notin Range(BwriteClean(c, b).unused)
<1> DEFINE d == BwriteClean(c, b)
<1>1. c \in CacheRec /\ c.buf[b].obj \in Objs /\ c.buf[b].blk \in Blks
  BY BufIsRec DEF Filed
<1>2. Filed(d) /\ SameLists(c, d)
  BY <1>1, MarkFiled, WriteEffect
<1>3. Written(c, b) = ObjWrite(d, b, c.buf[b].obj, c.buf[b].blk)
  BY DEF Written
<1> HIDE DEF d
<1>4. Filed(Written(c, b)) /\ SameLists(d, Written(c, b))
  BY <1>1, <1>2, <1>3, PlainFiled, WriteEffect, ZenonT(60) DEF Filed
<1> QED
  BY <1>2, <1>4 DEF SameLists, d

LEMMA UserBufBlocks ==
  ASSUME Disciplined, Inv, BlockInv, NEW p \in Procs, NEW b \in Bufs, TypeInv',
         Bunref(p, b) \/ StoreDirty(p, b) \/ Bdunref(p, b) \/ Bwrite(p, b) \/ Bsend(p, b)
  PROVE  BlockInv'
<1>0. /\ AtUser(p) /\ b \in HeldBy(p) /\ cpu \in {Idle, p} /\ proc[p].pc # "data" /\ cpu = Idle
      /\ proc[p] \in ProcRec /\ cache' \in CacheRec /\ proc[p].pc = "user"
  BY DEF Bunref, StoreDirty, Bdunref, Bwrite, Bsend, AtUser, Inv, TypeInv, TypeOK, ProcRec
<1>1. Sound(cache, table, proc) /\ Filed(cache) /\ cache \in CacheRec
  <2>1. Sound(cache, table, proc)
    BY <1>0, NowSound
  <2> QED
    BY <2>1 DEF Sound, Filed, BlockInv
<1>2. Listed(cache, b) /\ b \notin Range(cache.unused)
  BY <1>0, <1>1, WhereListed
<1>3. /\ Filed(BwriteClean(cache, b)) /\ Filed(Written(cache, b))
      /\ b \notin Range(Written(cache, b).unused)
  BY <1>1, <1>2, WrittenFiled
<1>4. MayModify(b) => Filed(Bdirty(Modify(cache, b), b))
                      /\ b \notin Range(Bdirty(Modify(cache, b), b).unused)
  <2> SUFFICES ASSUME MayModify(b)
               PROVE  Filed(Bdirty(Modify(cache, b), b))
                      /\ b \notin Range(Bdirty(Modify(cache, b), b).unused)
    OBVIOUS
  <2>1. IsFile(cache.buf[b].obj) => cache.buf[b].data < MaxVersion
    BY DEF MayModify
  <2>2. SameLists(cache, Bdirty(Modify(cache, b), b))
    BY <1>1, <2>1, ModifyEffect
  <2> QED
    BY <1>1, <1>2, <2>1, <2>2, MarkFiled DEF SameLists
<1>5. ASSUME NEW c, Filed(c), b \notin Range(c.unused), Bunrefp(p, c, b) PROVE BlockInv'
  <2>1. BlocksExact(cache') /\ GoesTo(p, {"user", "exit", "spin"})
    BY <1>0, <1>5, BunrefFiled
  <2>2. BlockPending(cache', proc')
    BY <1>0, <2>1, GoneCalm
  <2> QED
    BY <2>1, <2>2 DEF BlockInv
<1>6. ASSUME NEW c, Filed(c), cache' = c, UNCHANGED proc PROVE BlockInv'
  <2>1. Moves(proc, p, proc[p], proc')
    BY <1>6 DEF Moves, Inv, TypeInv, TypeOK
  <2>2. BlockPending(cache', proc')
    BY <1>0, <2>1, OthersCalm
  <2> QED
    BY <1>6, <2>2 DEF BlockInv, Filed
<1>7. ASSUME NEW m, WriteWaits(p, b, m) PROVE BlockInv'
  <2> DEFINE r == [NoCall EXCEPT !.pc = "writeclean", !.mode = m, !.buf = b]
  <2>1. cache' = BwriteClean(cache, b) /\ Moves(proc, p, r, proc') /\ r.pc = "writeclean"
    BY <1>7 DEF WriteWaits, Moves, NoCall
  <2> HIDE DEF r
  <2>2. BlockPending(cache', proc')
    BY <1>0, <2>1, OthersCalm
  <2> QED
    BY <1>3, <2>1, <2>2 DEF BlockInv, Filed
<1>8. CASE Bunref(p, b)
  BY <1>1, <1>2, <1>5, <1>8 DEF Bunref
<1>9. CASE StoreDirty(p, b)
  BY <1>4, <1>6, <1>9 DEF StoreDirty
<1>10. CASE Bdunref(p, b)
  BY <1>4, <1>5, <1>10 DEF Bdunref
<1>11. CASE Bwrite(p, b)
  BY <1>3, <1>6, <1>7, <1>11 DEF Bwrite
<1>12. CASE Bsend(p, b)
  BY <1>3, <1>5, <1>7, <1>12 DEF Bsend
<1> QED
  BY <1>8, <1>9, <1>10, <1>11, <1>12

LEMMA UserBlocks ==
  ASSUME Disciplined, Inv, BlockInv, NEW p \in Procs, UserStep(p), TypeInv'
  PROVE  BlockInv'
<1>1. CASE \E o \in Objs, k \in Blks, m \in 0..3 : BrefHit(p, o, k, m) \/ BrefMiss(p, o, k, m)
  BY <1>1, BrefBlocks
<1>2. CASE \E b \in Bufs : Bunref(p, b) \/ StoreDirty(p, b) \/ Bdunref(p, b)
                           \/ Bwrite(p, b) \/ Bsend(p, b)
  BY <1>2, UserBufBlocks
<1>3. ASSUME NEW pc \in {"readclean", "writeclean", "forget", "exit", "dead", "user"},
             Goto(p, pc), cpu = Idle, UNCHANGED cache
      PROVE  BlockInv'
  <2> DEFINE r == [proc[p] EXCEPT !.pc = pc]
  <2>1. Moves(proc, p, r, proc') /\ r.pc = pc
    BY <1>3 DEF Goto, Moves, Inv, TypeInv, TypeOK
  <2> HIDE DEF r
  <2>2. BlockPending(cache', proc')
    BY <1>3, <2>1, OthersCalm
  <2> QED
    BY <1>3, <2>2 DEF BlockInv
<1>4. cpu = Idle => Sound(cache, table, proc) /\ Filed(cache)
  <2>1. cpu = Idle => Sound(cache, table, proc)
    BY NowSound
  <2> QED
    BY <2>1 DEF Sound, Filed, BlockInv
<1>5. CASE ReadResume(p)
  <2> DEFINE b == proc[p].buf
  <2>1. cpu = Idle /\ proc[p].pc = "read" /\ b \in Bufs /\ FreeSlots(p) # {}
    BY <1>5 DEF ReadResume, Inv, TypeInv, HasBuffer, CacheInv, BrefPending, ReadingPcs
  <2>2. CASE Return(p, Unlock(ObjRead(cache, b), b), b)
    <3> DEFINE d == ObjRead(cache, b)
    <3>1. Filed(d)
      BY <1>4, <2>1, PlainFiled
    <3> HIDE DEF d
    <3>2. Filed(Unlock(d, b))
      BY <2>1, <3>1, PlainFiled
    <3>3. cache' = Unlock(d, b) /\ Moves(proc, p, NoCall, proc') /\ NoCall.pc = "user"
      BY <2>1, <2>2 DEF Return, Moves, NoCall, d
    <3>4. BlockPending(cache', proc')
      BY <2>1, <3>3, OthersCalm
    <3> QED
      BY <3>2, <3>3, <3>4 DEF BlockInv, Filed
  <2> QED
    BY <1>3, <1>5, <2>1, <2>2 DEF ReadResume
<1>6. CASE WriteResume(p) \/ Forget(p) \/ ExitBegin(p) \/ ExitEnd(p) \/ Spawn(p)
  BY <1>3, <1>6 DEF WriteResume, Forget, ExitBegin, ExitEnd, Spawn, AtUser
<1>7. CASE ExitStep(p)
  <2>1. cpu = Idle /\ proc[p].pc = "exit" /\ proc[p] \in ProcRec /\ cache' \in CacheRec
    BY <1>7 DEF ExitStep, Inv, TypeInv, TypeOK, ProcRec
  <2>2. PICK s \in Slots : table[p][s] # NULL /\ Bunrefp(p, cache, table[p][s])
    BY <1>7 DEF ExitStep
  <2> DEFINE b == table[p][s]
  <2>3. b \in Bufs /\ b \in HeldBy(p)
    BY <2>2 DEF Inv, TypeInv, TypeOK, HeldBy
  <2>4. b \notin Range(cache.unused)
    BY <1>4, <2>1, <2>3, WhereListed
  <2>5. BlocksExact(cache') /\ GoesTo(p, {"user", "exit", "spin"})
    BY <1>4, <2>1, <2>2, <2>3, <2>4, BunrefFiled
  <2>6. BlockPending(cache', proc')
    BY <2>1, <2>5, GoneCalm
  <2> QED
    BY <2>5, <2>6 DEF BlockInv
<1> QED
  BY <1>1, <1>2, <1>5, <1>6, <1>7 DEF UserStep

LEMMA CleanupBlocks ==
  ASSUME Disciplined, Inv, BlockInv, CleanupStep
  PROVE  BlockInv'
<1>0. UNCHANGED proc /\ (cpu \in {Idle, Syncer} \/ proc[cpu].pc # "spin")
  BY BufCacheAssumption DEF CleanupStep, Cleaning, CleaningPcs
<1>1. Sound(cache, table, proc) /\ Filed(cache)
  <2>1. Sound(cache, table, proc)
    BY <1>0, QuietSound
  <2> QED
    BY <2>1 DEF Sound, Filed, BlockInv
<1>2. PICK o \in Objs : \E i \in Victims(cache, o) : cache' = Bfree(cache, cache.objbufs[o][i])
  BY DEF CleanupStep
<1>3. PICK i \in Victims(cache, o) : cache' = Bfree(cache, cache.objbufs[o][i])
  BY <1>2
<1> DEFINE b == cache.objbufs[o][i]
<1>4. b \in Bufs /\ b \in On(cache, o) /\ cache.buf[b].dirty = FALSE
  <2>1. cache.objbufs[o] \in Seq(Bufs) /\ i \in DOMAIN cache.objbufs[o]
    BY <1>1 DEF Sound, CacheRec, Victims
  <2>2. b \in Bufs /\ b \in On(cache, o)
    BY <2>1, RangeIs DEF On
  <2>3. cache.buf[b].dirty \in BOOLEAN
    BY <1>1, <2>2, BufIsRec DEF Filed
  <2> QED
    BY <2>2, <2>3 DEF Victims, Freeable
<1>5. cache' = Bfree(cache, b)
  BY <1>3
<1> HIDE DEF b
<1>6. b \notin Range(cache.unused)
  BY <1>1, <1>4, WhereListed
<1>7. Filed(cache')
  BY <1>1, <1>4, <1>5, <1>6, ListFiled
<1>8. cache'.buf = cache.buf /\ \A n \in Objs : On(cache', n) \subseteq On(cache, n)
  BY <1>1, <1>4, <1>5, <1>6, BfreeEffect DEF Filed
<1>9. BlockPending(cache', proc')
  <2>1. \A n \in Objs, k \in Blks : Vacant(cache, n, k) => Vacant(cache', n, k)
    BY <1>8 DEF Vacant, On
  <2>2. \A q \in Procs : proc[q].obj \in Objs /\ proc[q].blk \in Blks
    BY DEF Inv, TypeInv, TypeOK
  <2> QED
    BY <1>0, <1>8, <2>1, <2>2 DEF BlockInv, BlockPending
<1> QED
  BY <1>7, <1>9 DEF BlockInv, Filed

\* While the syncer runs no process is inside bcreate.
LEMMA SyncerCalm ==
  ASSUME Inv, cpu \in {Idle, Syncer}, UNCHANGED proc
  PROVE  BlockPending(cache', proc')
<1>1. \A q \in Procs : proc'[q].pc \notin {"alloc", "data"}
  BY BufCacheAssumption DEF Inv, CacheInv, Running, CleaningPcs
<1> QED
  BY <1>1 DEF BlockPending

\* Any contents may be found in a buffer that was freed meanwhile.
LEMMA DataFiled ==
  ASSUME NEW c, Filed(c), NEW b \in Bufs, NEW v \in 0..Line
  PROVE  Filed([c EXCEPT !.buf[b].data = v])
<1> DEFINE d == [c EXCEPT !.buf[b].data = v]
           r == [c.buf[b] EXCEPT !.data = v]
<1>1. d \in CacheRec /\ c \in CacheRec
  BY DataType DEF Filed
<1>2. SameLists(c, d) /\ d.dirtybufs = c.dirtybufs /\ d.buf = [c.buf EXCEPT ![b] = r]
  BY <1>1 DEF CacheRec, SameLists
<1>3. r.obj = c.buf[b].obj /\ r.blk = c.buf[b].blk /\ r.dirty = c.buf[b].dirty
  BY <1>1, BufIsRec DEF BufRec
<1> HIDE DEF d, r
<1>4. d.buf[b] = r /\ SameOthers(c, d, b)
  BY <1>1, <1>2, CacheParts DEF SameOthers
<1>5. Alike(c, d)
  BY <1>1, <1>2, <1>3, <1>4, QuietAlike
<1>6. Filed(d)
  BY <1>1, <1>2, <1>5, AlikeExact DEF Filed, SameLists, NoRepeats
<1> QED
  BY <1>6 DEF d

LEMMA SyncerBlocks ==
  ASSUME Disciplined, Inv, BlockInv, SyncerStep
  PROVE  BlockInv'
<1>0. cpu \in {Idle, Syncer} /\ UNCHANGED proc
  BY DEF SyncerStep, SyTop, SyNextObj, SyEnd, SySkip, SyWrite, SyResume, SyWriteEnd
<1>1. Sound(cache, table, proc) /\ Filed(cache)
  <2>1. Sound(cache, table, proc)
    BY <1>0, QuietSound
  <2> QED
    BY <2>1 DEF Sound, Filed, BlockInv
<1>2. BlockPending(cache', proc')
  BY <1>0, SyncerCalm
<1>3. CASE UNCHANGED cache
  BY <1>2, <1>3 DEF BlockInv
<1>4. CASE SyWrite
  <2> DEFINE b == sy.next
             r == cache.buf[b]
             c == BwriteClean(cache, b)
             e == ObjWrite(c, b, r.obj, r.blk)
  <2>1. b \in Bufs /\ r.dirty /\ sy.obj \in Objs
    BY <1>4 DEF SyWrite, Inv, TypeInv, TypeOK
  <2>2. r.obj \in Objs /\ r.blk \in Blks /\ r.dirty \in BOOLEAN
    BY <1>1, <2>1, BufIsRec DEF Filed
  <2>3. Listed(cache, b) /\ b \notin Range(cache.unused)
    BY <1>1, <2>1, <2>2, WhereListed, BlocksExactIs DEF Filed
  <2>4. /\ Filed(c) /\ Filed(e) /\ b \notin Range(e.unused)
    <3>1. Written(cache, b) = e
      BY DEF Written
    <3> QED
      BY <1>1, <2>1, <2>3, <3>1, WrittenFiled
  <2>5. e.buf[b].dirty = FALSE
    <3>1. c.buf[b].dirty = FALSE
      BY <1>1, <2>1, <2>2, WriteEffect DEF Filed
    <3>2. e.buf = c.buf
      BY DEF ObjWrite
    <3> QED
      BY <3>1, <3>2
  <2>6. cache' \in {c, e, Bfree(e, b)}
    BY <1>4 DEF SyWrite, SyFree
  <2> HIDE DEF c, e
  <2>7. Filed(cache')
    BY <2>1, <2>4, <2>5, <2>6, ListFiled
  <2> QED
    BY <1>2, <2>7 DEF BlockInv, Filed
<1>5. CASE SyWriteEnd /\ ~UNCHANGED cache
  <2> DEFINE b == sy.cur
  <2>1. b \in Bufs /\ sy.wobj \in Objs /\ sy.wblk \in Blks /\ IsFile(sy.obj)
    BY <1>5 DEF SyWriteEnd, Inv, TypeInv, TypeOK, HasBuffer, CacheInv, SyncerOnList
  <2>2. PICK v \in Contents(cache, b) :
          cache' = SyFree(ObjWrite([cache EXCEPT !.buf[b].data = v], b, sy.wobj, sy.wblk), b)
    BY <1>5 DEF SyWriteEnd
  <2>3. v \in 0..Line
    <3>1. cache.buf[b].data \in 0..Line
      BY <1>1, <2>1, BufIsRec DEF Filed
    <3>2. 0..MaxVersion \subseteq 0..Line
      BY ConstantTypes
    <3>3. v \in IF b \in Range(cache.unused) THEN 0..MaxVersion ELSE {cache.buf[b].data}
      BY <2>2 DEF Contents
    <3>4. CASE b \in Range(cache.unused)
      BY <3>2, <3>3, <3>4
    <3>5. CASE b \notin Range(cache.unused)
      BY <3>1, <3>3, <3>5
    <3> QED
      BY <3>4, <3>5
  <2> DEFINE d == [cache EXCEPT !.buf[b].data = v]
  <2>4. Filed(d) /\ cache' = ObjWrite(d, b, sy.wobj, sy.wblk)
    BY <1>1, <2>1, <2>2, <2>3, DataFiled DEF SyFree, IsCached
  <2> HIDE DEF d
  <2>5. Filed(cache')
    BY <2>1, <2>4, PlainFiled
  <2> QED
    BY <1>2, <2>5 DEF BlockInv, Filed
<1> QED
  BY <1>3, <1>4, <1>5 DEF SyncerStep, SyTop, SyNextObj, SyEnd, SySkip, SyResume

LEMMA InitBlocks == Init => BlockInv
<1> SUFFICES ASSUME Init PROVE BlockInv
  OBVIOUS
<1>1. \A o \in Objs : cache.objbufs[o] = <<>> /\ Range(cache.objbufs[o]) = {}
                      /\ cache.dirtybufs[o] = 0
  BY DEF Init, Range
<1>2. \A b \in Bufs : cache.buf[b].dirty = FALSE
  BY DEF Init
<1>3. \A o \in Objs : {b \in Range(cache.objbufs[o]) : cache.buf[b].dirty} = {}
  BY <1>1
<1>4. BlocksExact(cache)
  BY <1>1, <1>2, <1>3, FS_EmptySet DEF BlocksExact, Files
<1>5. BlockPending(cache, proc)
  BY DEF BlockPending, Init, NoCall
<1> QED
  BY <1>4, <1>5 DEF BlockInv

LEMMA NextBlocks ==
  ASSUME Disciplined, Inv, BlockInv, [Next]_vars
  PROVE  BlockInv'
<1>0. TypeInv'
  BY NextType DEF Inv
<1>1. CASE \E p \in Procs : KernelStep(p) \/ UserStep(p)
  BY <1>0, <1>1, KernelBlocks, UserBlocks
<1>2. CASE CleanupStep
  BY <1>2, CleanupBlocks
<1>3. CASE SyncerStep
  BY <1>3, SyncerBlocks
<1>4. CASE UNCHANGED vars
  BY <1>4 DEF vars, BlockInv
<1> QED
  BY <1>1, <1>2, <1>3, <1>4 DEF Next

\* The blocks of the cache, also when kmalloc fails and calls are suspended:
\* one buffer per block and a count of every dirty one.
THEOREM BlocksInvariant ==
  ASSUME Disciplined
  PROVE  Spec => [](Inv /\ BlockInv)
<1>1. Init => Inv /\ BlockInv
  BY InitType, InitSafe, InitBlocks DEF Inv
<1>2. Inv /\ BlockInv /\ [Next]_vars => Inv' /\ BlockInv'
  BY NextSafe, NextBlocks
<1> QED
  BY <1>1, <1>2, PTL DEF Spec

\* Two clients that map a block get the same buffer: bread creates one only
\* when blookup found none, and nobody comes between (bread, bcreate).
THEOREM OneBufferPerBlock ==
  ASSUME Disciplined
  PROVE  Spec => []OneCopy
<1>1. Inv /\ BlockInv => OneCopy
  <2> SUFFICES ASSUME Inv, BlockInv, NEW o \in Files,
                      NEW i \in DOMAIN cache.objbufs[o], NEW j \in DOMAIN cache.objbufs[o],
                      cache.buf[cache.objbufs[o][i]].blk = cache.buf[cache.objbufs[o][j]].blk
               PROVE  i = j
    BY DEF OneCopy
  <2>1. cache.objbufs[o][i] = cache.objbufs[o][j]
    BY SMTT(60) DEF BlockInv, BlocksExact, Range
  <2>2. IsInjective(cache.objbufs[o])
    BY DEF Files, Inv, CacheInv, Consistent, Partition
  <2> QED
    BY <2>1, <2>2 DEF IsInjective
<1> QED
  BY <1>1, BlocksInvariant, PTL

-----------------------------------------------------------------------------
(* With enough memory: every dirty buffer that nobody uses is scheduled, and *)
(* no stream buffer is lost.                                                 *)

StreamsKept(c) == \A o \in Objs \ Files : \A x \in On(c, o) :
  c.buf[x].refcnt > 0 \/ c.buf[x].dirty
DirtyHeld(c) == \A x \in Bufs \ Range(c.unused) : c.buf[x].dirty => c.buf[x].refcnt > 0

\* A step that is about buffer b alone.
Near(c, d, b) == \A x \in Bufs \ {b} :
  /\ d.buf[x] = c.buf[x]
  /\ x \in Range(d.unused) <=> x \in Range(c.unused)
  /\ \A o \in Objs : x \in On(d, o) <=> x \in On(c, o)

LEMMA NearTwice ==
  ASSUME NEW c, NEW d, NEW e, NEW b, Near(c, d, b), Near(d, e, b)
  PROVE  Near(c, e, b)
BY DEF Near

LEMMA NearStreams ==
  ASSUME NEW c, NEW d \in CacheRec, NEW b \in Bufs, Near(c, d, b), StreamsKept(c),
         \/ d.buf[b].refcnt > 0 \/ d.buf[b].dirty
         \/ \A o \in Objs \ Files : b \notin On(d, o)
  PROVE  StreamsKept(d)
<1>1. \A o \in Objs : On(d, o) \subseteq Bufs
  BY CacheParts
<1> QED
  BY <1>1 DEF StreamsKept, Near

LEMMA NearDirty ==
  ASSUME NEW c, NEW d, NEW b \in Bufs, Near(c, d, b), DirtyHeld(c),
         d.buf[b].refcnt > 0 \/ b \in Range(d.unused) \/ ~d.buf[b].dirty
  PROVE  DirtyHeld(d)
BY DEF DirtyHeld, Near

LEMMA QuietNear ==
  ASSUME NEW c, NEW d, NEW b, SameLists(c, d), SameOthers(c, d, b)
  PROVE  Near(c, d, b)
BY DEF Near, SameLists, SameOthers, On

LEMMA ListNear ==
  ASSUME NEW c \in CacheRec, NoRepeats(c), NEW b \in Bufs
  PROVE  /\ b \notin Range(c.unused) => Near(c, Bfree(c, b), b)
         /\ Unlisted(c, b) => Near(c, Link(c, b), b)
         /\ \A o \in Objs : b \in On(c, o) => Near(c, Blookup(c, o, b), b)
<1>1. ASSUME b \notin Range(c.unused) PROVE Near(c, Bfree(c, b), b)
  <2> DEFINE d == Bfree(c, b)
  <2>1. /\ d.buf = c.buf /\ Range(d.unused) = Range(c.unused) \cup {b}
        /\ \A o \in Objs : On(d, o) = IF o = c.buf[b].obj THEN On(c, o) \ {b} ELSE On(c, o)
    BY <1>1, BfreeEffect
  <2> HIDE DEF d
  <2>2. Near(c, d, b)
    BY <2>1 DEF Near
  <2> QED
    BY <2>2 DEF d
<1>2. ASSUME Unlisted(c, b) PROVE Near(c, Link(c, b), b)
  <2> DEFINE d == Link(c, b)
  <2>0. c.buf[b].obj \in Objs
    BY BufIsRec
  <2>1. /\ d.unused = c.unused /\ \A x \in Bufs \ {b} : d.buf[x] = c.buf[x]
        /\ \A o \in Objs : On(d, o) = IF o = c.buf[b].obj THEN On(c, o) \cup {b} ELSE On(c, o)
    BY <1>2, <2>0, LinkEffect DEF Unlisted
  <2> HIDE DEF d
  <2>2. Near(c, d, b)
    BY <2>1 DEF Near
  <2> QED
    BY <2>2 DEF d
<1>3. ASSUME NEW o \in Objs, b \in On(c, o) PROVE Near(c, Blookup(c, o, b), b)
  <2> DEFINE d == Blookup(c, o, b)
  <2>1. d.unused = c.unused /\ SameOthers(c, d, b) /\ \A n \in Objs : On(d, n) = On(c, n)
    BY <1>3, BlookupEffect
  <2> HIDE DEF d
  <2>2. Near(c, d, b)
    BY <2>1 DEF Near, SameOthers
  <2> QED
    BY <2>2 DEF d
<1> QED
  BY <1>1, <1>2, <1>3

LEMMA TakeNear ==
  ASSUME NEW c \in CacheRec, NoRepeats(c), c.unused # <<>>, NEW o \in Objs, NEW k \in Blks
  PROVE  Near(c, Take(c, o, k), Last(c.unused))
<1> DEFINE d == Take(c, o, k)
           b == Last(c.unused)
<1>1. /\ d \in CacheRec /\ NoRepeats(d) /\ b \in Bufs /\ b \in Range(c.unused)
      /\ Range(d.unused) = Range(c.unused) \ {b} /\ d.objbufs = c.objbufs
      /\ \A x \in Bufs \ {b} : d.buf[x] = c.buf[x]
      /\ d.buf[b].obj = o /\ d.buf[b].refcnt = 1 /\ d.buf[b].dirty = FALSE
      /\ d.buf[b].fresh = FALSE /\ d.buf[b].lock = c.buf[b].lock /\ d.buf[b].data = 0
  BY TakeEffect
<1> HIDE DEF d, b
<1>2. Near(c, d, b)
  BY <1>1 DEF Near, On
<1> QED
  BY <1>2 DEF d, b

\* bread of a popped descriptor, when no switch but that of a read interrupts it.
LEMMA LinkReadNear ==
  ASSUME MemEnough, NEW p \in Procs, FreeSlots(p) # {}, NEW c0 \in CacheRec, NoRepeats(c0),
         NEW b \in Bufs, Unlisted(c0, b), c0.buf[b].refcnt = 1, NEW m,
         Kind[c0.buf[b].obj] = "cmd" => CreateBit(m), LinkAndRead(p, c0, b, m)
  PROVE  /\ Near(c0, cache', b) /\ cache'.buf[b].refcnt = 1
         /\ \E r : /\ r.pc \in {"user", "read"} /\ Moves(proc, p, r, proc')
                   /\ r.pc = "read" => r.buf = b /\ IsStream(cache'.buf[b].obj)
<1> DEFINE c == Link(c0, b)
           o == c.buf[b].obj
<1>1. c0.buf[b].obj \in Objs
  BY BufIsRec
<1>2. c \in CacheRec /\ NoRepeats(c) /\ Near(c0, c, b) /\ c.buf[b].refcnt = 1
      /\ o = c0.buf[b].obj
  <2>1. c.buf[b] = [c0.buf[b] EXCEPT !.lock = c0.buf[b].lock + 1] /\ c \in CacheRec /\ NoRepeats(c)
    BY <1>1, LinkEffect DEF Unlisted
  <2>2. c.buf[b].obj = c0.buf[b].obj
    BY <2>1, BufIsRec DEF BufRec
  <2>3. c.buf[b].refcnt = 1
    BY ListData
  <2> QED
    BY <2>1, <2>2, <2>3, ListNear
<1>3. ASSUME NEW e \in CacheRec, Near(c0, e, b), e.buf[b].refcnt = 1
      PROVE  Near(c0, Unlock(e, b), b) /\ Unlock(e, b).buf[b].refcnt = 1
  <2>1. Near(e, Unlock(e, b), b)
    BY UnlockEffect, QuietNear
  <2> QED
    BY <1>3, <2>1, NearTwice, CountData
<1>4. ObjRead(c, b) \in CacheRec /\ Near(c0, ObjRead(c, b), b) /\ ObjRead(c, b).buf[b].refcnt = 1
  <2> HIDE DEF c
  <2>1. ObjRead(c, b) \in CacheRec /\ SameLists(c, ObjRead(c, b))
        /\ SameOthers(c, ObjRead(c, b), b) /\ ObjRead(c, b).buf[b].refcnt = 1
    BY <1>2, ObjReadEffect DEF Kept
  <2>2. Near(c, ObjRead(c, b), b)
    BY <2>1, QuietNear
  <2> QED
    BY <1>2, <2>1, <2>2, NearTwice
<1>5. \/ Return(p, Unlock(c, b), b) \/ Return(p, Unlock(ObjRead(c, b), b), b)
      \/ /\ cache' = c /\ IsStream(o)
         /\ proc' = [proc EXCEPT ![p] = [NoCall EXCEPT !.pc = "read", !.buf = b]]
  <2>1. CASE IsFile(o)
    BY <2>1 DEF LinkAndRead, MemEnough
  <2>2. CASE ~IsFile(o) /\ CreateBit(m)
    BY <2>2 DEF LinkAndRead
  <2>3. CASE ~IsFile(o) /\ ~CreateBit(m)
    <3>1. Kind[o] = "con"
      BY <1>1, <1>2, <2>3, BufCacheAssumption, LenProperties DEF IsFile, Objs
    <3> QED
      BY <2>3, <3>1 DEF LinkAndRead, IsStream
  <2> QED
    BY <2>1, <2>2, <2>3
<1> HIDE DEF c
<1>6. CASE Return(p, Unlock(c, b), b) \/ Return(p, Unlock(ObjRead(c, b), b), b)
  <2>1. Moves(proc, p, NoCall, proc') /\ NoCall.pc = "user"
    BY <1>6 DEF Return, Moves, NoCall
  <2>2. cache' \in {Unlock(c, b), Unlock(ObjRead(c, b), b)}
    BY <1>6 DEF Return
  <2> HIDE DEF NoCall
  <2>3. Near(c0, cache', b) /\ cache'.buf[b].refcnt = 1
    BY <1>2, <1>3, <1>4, <2>2
  <2> QED
    BY <2>1, <2>3
<1>7. CASE /\ cache' = c /\ IsStream(o)
           /\ proc' = [proc EXCEPT ![p] = [NoCall EXCEPT !.pc = "read", !.buf = b]]
  <2> DEFINE r == [NoCall EXCEPT !.pc = "read", !.buf = b]
  <2>1. Moves(proc, p, r, proc') /\ r.pc = "read" /\ r.buf = b
    BY <1>7 DEF Moves, NoCall
  <2> HIDE DEF r
  <2> QED
    BY <1>2, <1>7, <2>1
<1> QED
  BY <1>5, <1>6, <1>7

Waits == {"data", "readclean", "write", "writeclean"}

\* A process takes a step; a dirty buffer it leaves behind is handed to the
\* syncer, which does not sleep then.
LEMMA Settle ==
  ASSUME Inv, ReleasedInv, NEW p \in Procs, cpu \in {Idle, p}, StreamsKept(cache'),
         \A q \in Procs : proc[q].pc = "read" =>
           cache'.buf[proc[q].buf].obj = cache.buf[proc[q].buf].obj,
         \/ UNCHANGED <<sy, restart>> /\ (DirtyHeld(cache) => DirtyHeld(cache'))
         \/ SyncerRestart,
         NEW r, Moves(proc, p, r, proc'), r.pc \notin Waits,
         r.pc = "read" => IsStream(cache'.buf[r.buf].obj)
  PROVE  ReleasedInv'
<1>1. sy.pc \in {"sleep", "top"} /\ (sy.pc = "sleep" => ~restart /\ DirtyHeld(cache))
  <2>1. sy.pc # "scan" /\ sy.pc \in {"sleep", "top", "scan"}
    <3>1. sy.pc = "scan" => cpu = Syncer
      BY DEF Inv, CacheInv, Running
    <3>2. cpu # Syncer
      BY BufCacheAssumption DEF Idle, Syncer
    <3>3. sy.pc \in {"sleep", "top", "scan"}
      BY DEF ReleasedInv, NoWaits
    <3> QED
      BY <3>1, <3>2, <3>3
  <2>2. sy.pc = "sleep" => ~restart /\ DirtyHeld(cache)
    BY DEF ReleasedInv, ScanInv, DirtyScheduled, DirtyHeld, Free, Dirty
  <2> QED
    BY <2>1, <2>2
<1>2. /\ sy'.pc \in {"sleep", "top"}
      /\ sy'.pc = "sleep" => ~restart' /\ DirtyHeld(cache')
  <2>1. CASE UNCHANGED <<sy, restart>> /\ (DirtyHeld(cache) => DirtyHeld(cache'))
    BY <1>1, <2>1
  <2>2. CASE SyncerRestart
    <3>1. CASE restart
      BY <1>1, <2>2, <3>1 DEF SyncerRestart
    <3>2. CASE ~restart
      <4>1. sy' = IF sy.pc = "sleep" THEN [sy EXCEPT !.pc = "top"] ELSE sy
        BY <2>2, <3>2 DEF SyncerRestart
      <4>2. [sy EXCEPT !.pc = "top"].pc = "top"
        BY DEF Inv, TypeInv, TypeOK
      <4> QED
        BY <1>1, <4>1, <4>2
    <3> QED
      BY <3>1, <3>2
  <2> QED
    BY <2>1, <2>2
<1>3. \A q \in Procs : proc'[q] = IF q = p THEN r ELSE proc[q]
  BY DEF Moves, Inv, TypeInv, TypeOK
<1>4. NoWaits'
  BY <1>2, <1>3 DEF NoWaits, ReleasedInv, Waits
<1>5. ScanInv'
  BY <1>2 DEF ScanInv
<1>6. DirtyScheduled'
  BY <1>2 DEF DirtyScheduled, DirtyHeld, Free, Dirty
<1>7. StreamReclaimed'
  BY DEF StreamReclaimed, StreamsKept, On, Dirty
<1> QED
  BY <1>4, <1>5, <1>6, <1>7 DEF ReleasedInv

\* The same for a step about one buffer.
LEMMA SettleNear ==
  ASSUME Inv, TypeInv', ReleasedInv, NEW p \in Procs, cpu \in {Idle, p},
         Sound(cache, table, proc), NEW b \in Bufs, Near(cache, cache', b),
         b \in Range(cache.unused) \/ cache'.buf[b].obj = cache.buf[b].obj,
         \/ cache'.buf[b].refcnt > 0 \/ cache'.buf[b].dirty
         \/ \A o \in Objs \ Files : b \notin On(cache', o),
         \/ /\ UNCHANGED <<sy, restart>>
            /\ cache'.buf[b].refcnt > 0 \/ b \in Range(cache'.unused) \/ ~cache'.buf[b].dirty
         \/ SyncerRestart,
         NEW r, Moves(proc, p, r, proc'), r.pc \notin Waits,
         r.pc = "read" => IsStream(cache'.buf[r.buf].obj)
  PROVE  ReleasedInv'
<1>1. StreamsKept(cache')
  <2>1. StreamsKept(cache)
    BY DEF ReleasedInv, StreamReclaimed, StreamsKept, On, Dirty
  <2>2. cache' \in CacheRec
    BY DEF TypeInv, TypeOK
  <2> QED
    BY <2>1, <2>2, NearStreams
<1>2. ASSUME NEW q \in Procs, proc[q].pc = "read"
      PROVE  cache'.buf[proc[q].buf].obj = cache.buf[proc[q].buf].obj
  <2> DEFINE x == proc[q].buf
  <2>1. x \in Bufs /\ <<q, 0>> \in HoldersIn(table, proc, x)
    BY <1>2, ReaderSeat DEF Sound, ReadingPcs
  <2>2. x \notin Range(cache.unused)
    BY <2>1 DEF Sound, Used
  <2> HIDE DEF x
  <2>3. cache'.buf[x].obj = cache.buf[x].obj
    BY <2>1, <2>2 DEF Near
  <2> QED
    BY <2>3 DEF x
<1>3. \/ UNCHANGED <<sy, restart>> /\ (DirtyHeld(cache) => DirtyHeld(cache'))
      \/ SyncerRestart
  BY NearDirty
<1> QED
  BY <1>1, <1>2, <1>3, Settle

LEMMA BcreateNear ==
  ASSUME Disciplined, MemEnough, NEW p \in Procs, FreeSlots(p) # {}, Filed(cache),
         cache.unused # <<>>,
         Unlisted(cache, Last(cache.unused)), NEW o \in Objs, NEW k \in Blks, NEW m,
         Kind[o] = "cmd" => CreateBit(m), Bcreate(p, o, k, m)
  PROVE  /\ Last(cache.unused) \in Range(cache.unused) /\ Last(cache.unused) \in Bufs
         /\ Near(cache, cache', Last(cache.unused))
         /\ cache'.buf[Last(cache.unused)].refcnt = 1
         /\ \E r : /\ r.pc \in {"user", "read"} /\ Moves(proc, p, r, proc')
                   /\ r.pc = "read" => IsStream(cache'.buf[r.buf].obj)
<1> DEFINE c == Take(cache, o, k)
           b == Last(cache.unused)
<1>0. cache \in CacheRec /\ NoRepeats(cache)
  BY DEF Filed
<1>1. /\ c \in CacheRec /\ NoRepeats(c) /\ b \in Bufs /\ b \in Range(cache.unused)
      /\ Range(c.unused) = Range(cache.unused) \ {b} /\ c.objbufs = cache.objbufs
      /\ \A x \in Bufs \ {b} : c.buf[x] = cache.buf[x]
      /\ c.buf[b].obj = o /\ c.buf[b].refcnt = 1 /\ c.buf[b].dirty = FALSE
      /\ c.buf[b].fresh = FALSE /\ c.buf[b].lock = cache.buf[b].lock /\ c.buf[b].data = 0
  BY <1>0, TakeEffect
<1>2. Near(cache, c, b)
  BY <1>0, TakeNear
<1>3. LinkAndRead(p, c, b, m)
  BY DEF Bcreate, MemEnough
<1> HIDE DEF c, b
<1>4. Unlisted(c, b)
  BY <1>1 DEF Unlisted, On, b
<1>5. /\ Near(c, cache', b) /\ cache'.buf[b].refcnt = 1
      /\ \E r : /\ r.pc \in {"user", "read"} /\ Moves(proc, p, r, proc')
                /\ r.pc = "read" => r.buf = b /\ IsStream(cache'.buf[b].obj)
  BY <1>1, <1>3, <1>4, LinkReadNear
<1>6. PICK r : /\ r.pc \in {"user", "read"} /\ Moves(proc, p, r, proc')
               /\ r.pc = "read" => r.buf = b /\ IsStream(cache'.buf[b].obj)
  BY <1>5
<1>7. r.pc = "read" => IsStream(cache'.buf[r.buf].obj)
  BY <1>6
<1>8. Near(cache, cache', b)
  BY <1>2, <1>5, NearTwice
<1> QED
  BY <1>1, <1>5, <1>6, <1>7, <1>8 DEF b

\* bunrefp gives a stream buffer back that is left without users and clean, and
\* wakes the syncer for one that is left dirty.
LEMMA BunrefReleased ==
  ASSUME Disciplined, Inv, TypeInv', ReleasedInv, NEW p \in Procs, cpu \in {Idle, p},
         Sound(cache, table, proc), proc[p].pc # "data", NEW b \in Bufs, b \in HeldBy(p),
         NEW c, LastUse(cache, c, b), Filed(c), Bunrefp(p, c, b)
  PROVE  ReleasedInv'
<1>1. /\ b \notin Range(cache.unused) /\ Listed(cache, b)
      /\ cache.buf[b].refcnt > 0
  <2>1. PICK s \in Slots : table[p][s] = b
    BY DEF HeldBy
  <2>2. /\ <<p, s>> \in HoldersIn(table, proc, b) /\ b \notin Range(cache.unused)
        /\ cache.buf[b].refcnt = Cardinality(HoldersIn(table, proc, b))
    BY <2>1, HeldPlace
  <2>3. cache.buf[b].refcnt > 0
    BY <2>2, SeatCount, HoldersAreSeats
  <2> QED
    BY <2>2, <2>3, WhereListed
<1>2. /\ c \in CacheRec /\ NoRepeats(c) /\ SameLists(cache, c) /\ Near(cache, c, b)
      /\ c.buf[b].obj = cache.buf[b].obj /\ c.buf[b].refcnt > 0
  <2>1. Near(cache, c, b)
    BY QuietNear DEF LastUse
  <2> QED
    BY <1>1, <2>1 DEF LastUse, Kept, Filed
<1>3. \E r : r.pc \in {"user", "exit", "spin"} /\ Moves(proc, p, r, proc')
  <2>1. b \notin Range(c.unused) /\ cache' \in CacheRec /\ proc[p] \in ProcRec
    BY <1>1, <1>2 DEF SameLists, Inv, TypeInv, TypeOK, ProcRec
  <2>2. GoesTo(p, {"user", "exit", "spin"})
    BY <2>1, BunrefFiled
  <2> QED
    BY <2>2 DEF GoesTo
<1>4. PICK r : r.pc \in {"user", "exit", "spin"} /\ Moves(proc, p, r, proc')
  BY <1>3
<1>5. r.pc \notin Waits /\ r.pc # "read"
  BY <1>4 DEF Waits
<1>6. CASE c.buf[b].lock # 0
  <2> DEFINE n == c.buf[b].lock + 1
             s == [c.buf[b] EXCEPT !.lock = n]
  <2>1. cache' = [c EXCEPT !.buf[b].lock = n] /\ UNCHANGED <<sy, restart>>
    BY <1>6 DEF Bunrefp
  <2> HIDE DEF n
  <2>2. SameLists(c, cache') /\ cache'.buf = [c.buf EXCEPT ![b] = s]
    BY <1>2, <2>1 DEF CacheRec, SameLists
  <2>3. s.obj = c.buf[b].obj /\ s.refcnt = c.buf[b].refcnt
    BY <1>2, BufIsRec DEF BufRec
  <2> HIDE DEF s
  <2>4. cache'.buf[b] = s /\ SameOthers(c, cache', b)
    BY <1>2, <2>2, CacheParts DEF SameOthers
  <2>5. Near(cache, cache', b)
    BY <1>2, <2>2, <2>4, QuietNear, NearTwice
  <2> QED
    BY <1>2, <1>4, <1>5, <2>1, <2>3, <2>4, <2>5, SettleNear
<1>7. CASE c.buf[b].lock = 0
  <2> DEFINE d == Unref(c, b)
  <2>1. /\ cache' = (IF Reclaims(d, b) THEN Bfree(d, b) ELSE d)
        /\ IF d.buf[b].dirty THEN SyncerRestart ELSE UNCHANGED <<restart, sy>>
    BY <1>7 DEF Bunrefp
  <2>2. /\ d \in CacheRec /\ SameLists(c, d) /\ NoRepeats(d) /\ SameOthers(c, d, b)
        /\ d.buf[b].obj = cache.buf[b].obj
    BY <1>2, RefEffect, CountData DEF SameLists, NoRepeats
  <2> HIDE DEF d
  <2>3. Near(cache, d, b)
    BY <1>2, <2>2, QuietNear, NearTwice
  <2>4. b \notin Range(d.unused) /\ \A o \in Objs : b \in On(d, o) => o = cache.buf[b].obj
    BY <1>1, <1>2, <2>2 DEF SameLists, Listed, On
  <2>5. d.buf[b].refcnt \in Nat /\ d.buf[b].dirty \in BOOLEAN
    BY <2>2, BufIsRec, ConstantTypes, SMTT(60)
  <2>6. CASE Reclaims(d, b)
    <3>1. /\ cache'.buf = d.buf /\ Range(cache'.unused) = Range(d.unused) \cup {b}
          /\ \A o \in Objs : On(cache', o) = IF o = d.buf[b].obj THEN On(d, o) \ {b} ELSE On(d, o)
      <4>1. cache' = Bfree(d, b)
        BY <2>1, <2>6
      <4> QED
        BY <2>2, <2>4, <4>1, BfreeEffect
    <3>2. Near(cache, cache', b)
      <4>1. Near(d, cache', b)
        BY <2>1, <2>2, <2>4, <2>6, ListNear
      <4> QED
        BY <2>3, <4>1, NearTwice
    <3>3. \A o \in Objs \ Files : b \notin On(cache', o)
      BY <2>2, <2>4, <3>1
    <3>4. UNCHANGED <<sy, restart>> /\ b \in Range(cache'.unused)
      BY <2>1, <2>6, <3>1 DEF Reclaims
    <3>5. cache'.buf[b].obj = cache.buf[b].obj
      BY <2>2, <3>1
    <3> QED
      BY <1>4, <1>5, <3>2, <3>3, <3>4, <3>5, SettleNear
  <2>7. CASE ~Reclaims(d, b)
    <3>1. cache' = d
      BY <2>1, <2>7
    <3>2. \/ cache'.buf[b].refcnt > 0 \/ cache'.buf[b].dirty
          \/ \A o \in Objs \ Files : b \notin On(cache', o)
      BY <2>2, <2>4, <2>5, <2>7, <3>1 DEF Reclaims, Files, IsStream
    <3>3. (UNCHANGED <<sy, restart>> /\ ~cache'.buf[b].dirty) \/ SyncerRestart
      BY <2>1, <3>1
    <3> QED
      BY <1>4, <1>5, <2>2, <2>3, <3>1, <3>2, <3>3, SettleNear
  <2> QED
    BY <2>6, <2>7
<1> QED
  BY <1>2, <1>6, <1>7, BufIsRec

\* A process goes on to another state and leaves the cache as it is.
LEMMA StillReleased ==
  ASSUME Inv, ReleasedInv, NEW p \in Procs, cpu \in {Idle, p}, UNCHANGED <<cache, sy, restart>>,
         NEW r, Moves(proc, p, r, proc'), r.pc \notin Waits, r.pc # "read"
  PROVE  ReleasedInv'
<1>1. StreamsKept(cache')
  BY DEF ReleasedInv, StreamReclaimed, StreamsKept, On, Dirty
<1> QED
  BY <1>1, Settle

LEMMA BrefReleased ==
  ASSUME Disciplined, MemEnough, Inv, BlockInv, TypeInv', ReleasedInv, NEW p \in Procs,
         NEW o \in Objs, NEW k \in Blks, NEW m \in 0..3,
         BrefHit(p, o, k, m) \/ BrefMiss(p, o, k, m)
  PROVE  ReleasedInv'
<1>0. /\ cpu = Idle /\ cpu \in {Idle, p} /\ FreeSlots(p) # {} /\ UNCHANGED <<sy, restart>>
      /\ Kind[o] = "cmd" => CreateBit(m)
  BY DEF BrefHit, BrefMiss, MayBref, AtUser, Disciplined
<1>1. Sound(cache, table, proc) /\ Filed(cache)
  <2>1. Sound(cache, table, proc)
    BY <1>0, NowSound
  <2> QED
    BY <2>1 DEF Sound, Filed, BlockInv
<1>2. CASE BrefHit(p, o, k, m)
  <2>1. PICK i \in Matches(cache, o, k) :
          /\ cache.buf[cache.objbufs[o][i]].refcnt < RefMod - 1
          /\ Return(p, Blookup(cache, o, cache.objbufs[o][i]), cache.objbufs[o][i])
    BY <1>2 DEF BrefHit, Disciplined
  <2> DEFINE b == cache.objbufs[o][i]
  <2>2. b \in Bufs /\ b \in On(cache, o)
    <3>1. cache.objbufs[o] \in Seq(Bufs) /\ i \in DOMAIN cache.objbufs[o]
      BY <1>1 DEF Sound, CacheRec, Matches
    <3> QED
      BY <3>1, RangeIs DEF On
  <2>3. cache' = Blookup(cache, o, b) /\ proc' = [proc EXCEPT ![p] = NoCall]
        /\ cache.buf[b].refcnt < RefMod - 1
    BY <1>0, <2>1 DEF Return
  <2> HIDE DEF b
  <2>4. cache \in CacheRec /\ NoRepeats(cache)
    BY <1>1 DEF Filed
  <2>5. /\ cache'.buf[b].obj = cache.buf[b].obj
        /\ cache'.buf[b].refcnt = (cache.buf[b].refcnt + 1) % RefMod
    BY <2>2, <2>3, <2>4, BlookupEffect
  <2>6. cache'.buf[b].refcnt > 0
    <3> DEFINE n == cache.buf[b].refcnt
    <3>1. n \in Nat /\ n < RefMod - 1 /\ RefMod \in Nat
      <4>1. n \in 0 .. RefMod - 1 /\ n < RefMod - 1
        BY <2>2, <2>3, <2>4, BufIsRec
      <4>2. RefMod \in Nat
        BY ConstantTypes
      <4> HIDE DEF n
      <4> QED
        BY <4>1, <4>2
    <3> HIDE DEF n
    <3>2. n + 1 \in 0..RefMod-1
      BY <3>1
    <3>3. (n + 1) % RefMod = n + 1
      BY <3>1, <3>2
    <3> QED
      BY <2>5, <3>1, <3>3 DEF n
  <2>7. Near(cache, cache', b)
    BY <2>2, <2>3, <2>4, ListNear
  <2>8. Moves(proc, p, NoCall, proc') /\ NoCall.pc = "user"
    BY <2>3 DEF Moves, NoCall
  <2> HIDE DEF NoCall
  <2>9. NoCall.pc \notin Waits /\ NoCall.pc # "read"
    BY <2>8 DEF Waits
  <2> QED
    BY <1>0, <1>1, <2>2, <2>5, <2>6, <2>7, <2>8, <2>9, SettleNear
<1>3. CASE BrefMiss(p, o, k, m) /\ cache.unused # <<>>
  <2> DEFINE b == Last(cache.unused)
  <2>1. Unlisted(cache, b)
    <3>1. b \in Range(cache.unused) /\ b \in Bufs
      BY <1>1, <1>3, FrontRange, CacheParts DEF Filed, NoRepeats
    <3> QED
      BY <1>1, <3>1, WhereListed
  <2>2. Bcreate(p, o, k, m)
    BY <1>3 DEF BrefMiss
  <2>3. /\ b \in Range(cache.unused) /\ b \in Bufs /\ Near(cache, cache', b)
        /\ cache'.buf[b].refcnt = 1
        /\ \E r : /\ r.pc \in {"user", "read"} /\ Moves(proc, p, r, proc')
                  /\ r.pc = "read" => IsStream(cache'.buf[r.buf].obj)
    BY <1>0, <1>1, <1>3, <2>1, <2>2, BcreateNear
  <2>4. PICK r : /\ r.pc \in {"user", "read"} /\ Moves(proc, p, r, proc')
                 /\ r.pc = "read" => IsStream(cache'.buf[r.buf].obj)
    BY <2>3
  <2> HIDE DEF b
  <2>5. r.pc \notin Waits /\ cache'.buf[b].refcnt > 0
    BY <2>3, <2>4 DEF Waits
  <2> QED
    BY <1>0, <1>1, <2>3, <2>4, <2>5, SettleNear
<1>4. CASE BrefMiss(p, o, k, m) /\ cache.unused = <<>>
  <2> DEFINE r == [NoCall EXCEPT !.pc = "alloc", !.obj = o, !.blk = k, !.mode = m]
  <2>1. r.pc = "alloc" /\ cache' = cache /\ Moves(proc, p, r, proc')
    BY <1>4 DEF BrefMiss, Moves, NoCall
  <2> HIDE DEF r
  <2> QED
    BY <1>0, <2>1, StillReleased DEF Waits
<1> QED
  BY <1>2, <1>3, <1>4

LEMMA UserBufReleased ==
  ASSUME Disciplined, MemEnough, Inv, BlockInv, TypeInv', ReleasedInv, NEW p \in Procs,
         NEW b \in Bufs,
         Bunref(p, b) \/ StoreDirty(p, b) \/ Bdunref(p, b) \/ Bwrite(p, b) \/ Bsend(p, b)
  PROVE  ReleasedInv'
<1>0. /\ AtUser(p) /\ b \in HeldBy(p) /\ cpu = Idle /\ cpu \in {Idle, p}
      /\ proc[p].pc = "user" /\ proc[p].pc # "data"
  BY DEF Bunref, StoreDirty, Bdunref, Bwrite, Bsend, AtUser
<1>1. Sound(cache, table, proc) /\ Filed(cache)
  <2>1. Sound(cache, table, proc)
    BY <1>0, NowSound
  <2> QED
    BY <2>1 DEF Sound, Filed, BlockInv
<1>2. /\ LastUse(cache, cache, b) /\ LastUse(cache, Written(cache, b), b)
      /\ MayModify(b) => LastUse(cache, Bdirty(Modify(cache, b), b), b)
  BY <1>0, <1>1, LastUses
<1>3. Listed(cache, b) /\ b \notin Range(cache.unused)
  BY <1>0, <1>1, WhereListed
<1>4. Filed(Written(cache, b))
  BY <1>1, <1>3, WrittenFiled
<1>5. MayModify(b) => Filed(Bdirty(Modify(cache, b), b))
  BY <1>1, <1>3, MarkFiled DEF MayModify
<1>6. ASSUME NEW c, Filed(c), LastUse(cache, c, b), Bunrefp(p, c, b) PROVE ReleasedInv'
  BY <1>0, <1>1, <1>6, BunrefReleased
<1>7. ASSUME LastUse(cache, cache', b), UNCHANGED <<proc, sy, restart>> PROVE ReleasedInv'
  <2>1. cache'.buf[b].refcnt > 0
    <3>1. PICK s \in Slots : table[p][s] = b
      BY <1>0 DEF HeldBy
    <3>2. /\ <<p, s>> \in HoldersIn(table, proc, b)
          /\ cache.buf[b].refcnt = Cardinality(HoldersIn(table, proc, b))
      BY <1>1, <3>1, HeldPlace
    <3>3. cache.buf[b].refcnt > 0
      BY <3>2, SeatCount, HoldersAreSeats
    <3> QED
      BY <1>7, <3>3 DEF LastUse, Kept
  <2>2. Near(cache, cache', b) /\ cache'.buf[b].obj = cache.buf[b].obj
    BY <1>7, QuietNear DEF LastUse, Kept
  <2>3. Moves(proc, p, proc[p], proc') /\ proc[p].pc \notin Waits /\ proc[p].pc # "read"
    BY <1>0, <1>7 DEF Moves, Inv, TypeInv, TypeOK, Waits
  <2> QED
    BY <1>0, <1>1, <1>7, <2>1, <2>2, <2>3, SettleNear
<1>8. CASE Bunref(p, b)
  BY <1>1, <1>2, <1>6, <1>8 DEF Bunref
<1>9. CASE StoreDirty(p, b)
  BY <1>2, <1>7, <1>9 DEF StoreDirty
<1>10. CASE Bdunref(p, b)
  BY <1>2, <1>5, <1>6, <1>10 DEF Bdunref
<1>11. CASE Bwrite(p, b)
  BY <1>2, <1>7, <1>11 DEF Bwrite, WriteWaits, MemEnough
<1>12. CASE Bsend(p, b)
  BY <1>2, <1>4, <1>6, <1>12 DEF Bsend, WriteWaits, MemEnough
<1> QED
  BY <1>8, <1>9, <1>10, <1>11, <1>12

LEMMA UserReleased ==
  ASSUME Disciplined, MemEnough, Inv, BlockInv, TypeInv', ReleasedInv, NEW p \in Procs,
         UserStep(p)
  PROVE  ReleasedInv'
<1>1. CASE \E o \in Objs, k \in Blks, m \in 0..3 : BrefHit(p, o, k, m) \/ BrefMiss(p, o, k, m)
  BY <1>1, BrefReleased
<1>2. CASE \E b \in Bufs : Bunref(p, b) \/ StoreDirty(p, b) \/ Bdunref(p, b)
                           \/ Bwrite(p, b) \/ Bsend(p, b)
  BY <1>2, UserBufReleased
<1>3. ASSUME NEW pc \in {"forget", "exit", "dead", "user"}, Goto(p, pc), cpu = Idle,
             UNCHANGED <<cache, sy, restart>>
      PROVE  ReleasedInv'
  <2> DEFINE r == [proc[p] EXCEPT !.pc = pc]
  <2>1. Moves(proc, p, r, proc') /\ r.pc = pc
    BY <1>3 DEF Goto, Moves, Inv, TypeInv, TypeOK
  <2> HIDE DEF r
  <2> QED
    BY <1>3, <2>1, StillReleased DEF Waits
<1>4. cpu = Idle => Sound(cache, table, proc) /\ Filed(cache)
  <2>1. cpu = Idle => Sound(cache, table, proc)
    BY NowSound
  <2> QED
    BY <2>1 DEF Sound, Filed, BlockInv
<1>5. CASE ReadResume(p)
  <2> DEFINE b == proc[p].buf
             d == ObjRead(cache, b)
  <2>1. /\ cpu = Idle /\ cpu \in {Idle, p} /\ proc[p].pc = "read" /\ b \in Bufs
        /\ IsStream(cache.buf[b].obj) /\ UNCHANGED <<sy, restart>>
    BY <1>5 DEF ReadResume, Inv, TypeInv, HasBuffer, ReleasedInv, NoWaits
  <2>2. Return(p, Unlock(d, b), b) /\ FreeSlots(p) # {}
    BY <1>5, <2>1 DEF ReadResume, Inv, CacheInv, BrefPending, ReadingPcs
  <2>3. cache' = Unlock(d, b) /\ Moves(proc, p, NoCall, proc') /\ NoCall.pc = "user"
    BY <2>2 DEF Return, Moves, NoCall
  <2>4. cache.buf[b].refcnt > 0
    <3>1. <<p, 0>> \in HoldersIn(table, proc, b)
      BY <2>1, ReaderSeat DEF ReadingPcs
    <3>2. cache.buf[b].refcnt = Cardinality(HoldersIn(table, proc, b))
      BY <1>4, <2>1, <3>1 DEF Sound, Used, Fits
    <3> QED
      BY <3>1, <3>2, SeatCount, HoldersAreSeats
  <2>5. /\ d \in CacheRec /\ SameLists(cache, d) /\ SameOthers(cache, d, b)
        /\ d.buf[b].obj = cache.buf[b].obj /\ d.buf[b].refcnt = cache.buf[b].refcnt
    BY <1>4, <2>1, ObjReadEffect DEF Filed, Kept
  <2> HIDE DEF b, d, NoCall
  <2>6. /\ SameLists(d, cache') /\ SameOthers(d, cache', b)
        /\ cache'.buf[b] = [d.buf[b] EXCEPT !.lock = d.buf[b].lock - 1]
    BY <2>1, <2>3, <2>5, UnlockEffect
  <2>7. cache'.buf[b].obj = d.buf[b].obj /\ cache'.buf[b].refcnt = d.buf[b].refcnt
    BY <2>1, <2>5, <2>6, BufIsRec DEF BufRec
  <2>8. Near(cache, cache', b)
    BY <2>5, <2>6, QuietNear, NearTwice
  <2>9. NoCall.pc \notin Waits /\ NoCall.pc # "read"
    BY <2>3 DEF Waits
  <2> QED
    BY <1>4, <2>1, <2>3, <2>4, <2>5, <2>7, <2>8, <2>9, SettleNear
<1>6. CASE WriteResume(p)
  BY <1>6 DEF WriteResume, ReleasedInv, NoWaits
<1>7. CASE Forget(p) \/ ExitBegin(p) \/ ExitEnd(p) \/ Spawn(p)
  BY <1>3, <1>7 DEF Forget, ExitBegin, ExitEnd, Spawn, AtUser
<1>8. CASE ExitStep(p)
  <2>1. cpu = Idle /\ cpu \in {Idle, p} /\ proc[p].pc # "data"
    BY <1>8 DEF ExitStep
  <2>2. PICK s \in Slots : table[p][s] # NULL /\ Bunrefp(p, cache, table[p][s])
    BY <1>8 DEF ExitStep
  <2> DEFINE b == table[p][s]
  <2>3. b \in Bufs /\ b \in HeldBy(p)
    BY <2>2 DEF Inv, TypeInv, TypeOK, HeldBy
  <2>4. LastUse(cache, cache, b)
    BY <1>4, <2>1, <2>3, LastUses
  <2> QED
    BY <1>4, <2>1, <2>2, <2>3, <2>4, BunrefReleased
<1> QED
  BY <1>1, <1>2, <1>5, <1>6, <1>7, <1>8 DEF UserStep

LEMMA KernelReleased ==
  ASSUME Disciplined, MemEnough, Inv, BlockInv, TypeInv', ReleasedInv, NEW p \in Procs,
         KernelStep(p)
  PROVE  ReleasedInv'
<1>0. cpu = p /\ cpu \in {Idle, p} /\ proc[p].pc \in {"alloc", "forget"}
      /\ (AllocEnd(p) \/ ForgetEnd(p)) /\ UNCHANGED <<sy, restart>>
  BY DEF KernelStep, AllocEnd, DataEnd, ReadEnd, WriteEnd, ForgetEnd, ReleasedInv, NoWaits
<1>1. Sound(cache, table, proc) /\ Filed(cache)
  <2>1. Sound(cache, table, proc)
    BY <1>0, NowSound
  <2> QED
    BY <2>1 DEF Sound, Filed, BlockInv
<1>2. CASE Fail(p, cache)
  <2>1. cache' = cache /\ Moves(proc, p, NoCall, proc') /\ NoCall.pc = "user"
    BY <1>2 DEF Fail, Moves, NoCall
  <2> HIDE DEF NoCall
  <2> QED
    BY <1>0, <2>1, StillReleased DEF Waits
<1>3. CASE AllocEnd(p) /\ cache.unused # <<>>
  <2> DEFINE b == Last(cache.unused)
             o == proc[p].obj
             m == proc[p].mode
  <2>1. Unlisted(cache, b)
    <3>1. b \in Range(cache.unused) /\ b \in Bufs
      BY <1>1, <1>3, FrontRange, CacheParts DEF Filed, NoRepeats
    <3> QED
      BY <1>1, <3>1, WhereListed
  <2>2. Bcreate(p, o, proc[p].blk, m) /\ proc[p].pc = "alloc"
    BY <1>3 DEF AllocEnd
  <2>3. o \in Objs /\ proc[p].blk \in Blks /\ FreeSlots(p) # {} /\ (Kind[o] = "cmd" => CreateBit(m))
    BY <2>2 DEF Inv, TypeInv, TypeOK, CacheInv, BrefPending
  <2>4. /\ b \in Range(cache.unused) /\ b \in Bufs /\ Near(cache, cache', b)
        /\ cache'.buf[b].refcnt = 1
        /\ \E r : /\ r.pc \in {"user", "read"} /\ Moves(proc, p, r, proc')
                  /\ r.pc = "read" => IsStream(cache'.buf[r.buf].obj)
    BY <1>1, <1>3, <2>1, <2>2, <2>3, BcreateNear
  <2>5. PICK r : /\ r.pc \in {"user", "read"} /\ Moves(proc, p, r, proc')
                 /\ r.pc = "read" => IsStream(cache'.buf[r.buf].obj)
    BY <2>4
  <2> HIDE DEF b
  <2>6. r.pc \notin Waits /\ cache'.buf[b].refcnt > 0
    BY <2>4, <2>5 DEF Waits
  <2> QED
    BY <1>0, <1>1, <2>4, <2>5, <2>6, SettleNear
<1> QED
  BY <1>0, <1>2, <1>3 DEF AllocEnd, ForgetEnd

\* bcleanup takes unused clean buffers off their lists.
LEMMA CleanupReleased ==
  ASSUME Disciplined, Inv, BlockInv, TypeInv', ReleasedInv, CleanupStep
  PROVE  ReleasedInv'
<1>0. /\ cpu \in Procs /\ proc[cpu].pc \in {"alloc", "forget"}
      /\ UNCHANGED <<proc, sy, restart>>
  BY DEF CleanupStep, Cleaning, CleaningPcs, ReleasedInv, NoWaits
<1>1. Sound(cache, table, proc) /\ Filed(cache)
  <2>1. Sound(cache, table, proc)
    BY <1>0, QuietSound
  <2> QED
    BY <2>1 DEF Sound, Filed, BlockInv
<1>2. PICK o \in Objs : \E i \in Victims(cache, o) : cache' = Bfree(cache, cache.objbufs[o][i])
  BY DEF CleanupStep
<1>3. PICK i \in Victims(cache, o) : cache' = Bfree(cache, cache.objbufs[o][i])
  BY <1>2
<1> DEFINE b == cache.objbufs[o][i]
<1>4. b \in Bufs /\ b \in On(cache, o)
  <2>1. cache.objbufs[o] \in Seq(Bufs) /\ i \in DOMAIN cache.objbufs[o]
    BY <1>1 DEF Sound, CacheRec, Victims
  <2> QED
    BY <2>1, RangeIs DEF On
<1>5. cache' = Bfree(cache, b)
  BY <1>3
<1> HIDE DEF b
<1>6. b \notin Range(cache.unused) /\ Listed(cache, b)
  BY <1>1, <1>4, WhereListed
<1>7. /\ cache'.buf = cache.buf /\ Range(cache'.unused) = Range(cache.unused) \cup {b}
      /\ \A n \in Objs : On(cache', n) = IF n = cache.buf[b].obj THEN On(cache, n) \ {b}
                                                                  ELSE On(cache, n)
  BY <1>1, <1>4, <1>5, <1>6, BfreeEffect DEF Filed
<1>8. Near(cache, cache', b)
  BY <1>1, <1>4, <1>5, <1>6, ListNear DEF Filed
<1>9. \A n \in Objs \ Files : b \notin On(cache', n)
  BY <1>6, <1>7 DEF Listed
<1>10. /\ Moves(proc, cpu, proc[cpu], proc') /\ proc[cpu].pc \notin Waits
       /\ proc[cpu].pc # "read" /\ b \in Range(cache'.unused)
  BY <1>0, <1>7 DEF Moves, Inv, TypeInv, TypeOK, Waits
<1> QED
  BY <1>0, <1>1, <1>4, <1>7, <1>8, <1>9, <1>10, SettleNear

-----------------------------------------------------------------------------
(* The syncer's walk: what it comes to next, and what it leaves behind.      *)

LEMMA PlaceIs ==
  ASSUME NEW l \in Seq(Bufs), IsInjective(l)
  PROVE  /\ \A i \in 1..Len(l) : Place(l, l[i]) = i
         /\ \A x \in Range(l) : Place(l, x) \in 1..Len(l) /\ l[Place(l, x)] = x
<1>1. ASSUME NEW i \in 1..Len(l) PROVE Place(l, l[i]) = i
  <2>1. i \in DOMAIN l
    BY RangeIs
  <2> QED
    BY <2>1 DEF Place, IsInjective
<1>2. ASSUME NEW x \in Range(l) PROVE Place(l, x) \in 1..Len(l) /\ l[Place(l, x)] = x
  <2>1. PICK i \in 1..Len(l) : l[i] = x
    BY RangeIs
  <2> QED
    BY <1>1, <2>1
<1> QED
  BY <1>1, <1>2

\* From element i of l one comes to every later one, also when i is taken off.
LEMMA Onward ==
  ASSUME NEW l \in Seq(Bufs), IsInjective(l), NEW i \in 1..Len(l),
         NEW n, n = IF i < Len(l) THEN l[i+1] ELSE NULL
  PROVE  /\ n # NULL => n \in Range(l) \ {l[i]}
         /\ \A y \in Range(l) \ {l[i]} : i <= Place(l, y) =>
              /\ n # NULL /\ Place(l, n) <= Place(l, y)
              /\ Place(Without(l, l[i]), n) <= Place(Without(l, l[i]), y)
<1> DEFINE m == Without(l, l[i])
<1>1. Len(l) \in Nat /\ (\A j \in 1..Len(l) : l[j] \in Bufs /\ l[j] \in Range(l))
      /\ i \in Nat /\ NULL \notin Bufs
  BY RangeIs, ConstantTypes
<1>2. \A j \in 1..Len(l) : Place(l, l[j]) = j
  BY PlaceIs
<1>3. ASSUME n # NULL PROVE n \in Range(l) \ {l[i]}
  <2>1. i + 1 \in 1..Len(l) /\ n = l[i+1] /\ i + 1 # i
    BY <1>1, <1>3
  <2>2. l[i+1] # l[i]
    BY <1>2, <2>1
  <2> QED
    BY <1>1, <2>1, <2>2
<1>4. /\ m \in Seq(Bufs) /\ IsInjective(m) /\ Len(m) = Len(l)-1
      /\ \A j \in 1..Len(m) : m[j] = IF j < i THEN l[j] ELSE l[j+1]
  BY WithoutAt, WithoutRange
<1> HIDE DEF m
<1>5. ASSUME NEW y \in Range(l) \ {l[i]}, i <= Place(l, y)
      PROVE  n # NULL /\ Place(l, n) <= Place(l, y) /\ Place(m, n) <= Place(m, y)
  <2>1. PICK j \in 1..Len(l) : l[j] = y
    BY RangeIs
  <2>2. Place(l, y) = j /\ j # i
    BY <1>2, <1>5, <2>1
  <2>3. i < j /\ i + 1 \in 1..Len(l) /\ n = l[i+1] /\ i < Len(l) /\ j \in Nat
    BY <1>1, <1>5, <2>1, <2>2
  <2>4. n # NULL /\ Place(l, n) = i + 1
    BY <1>1, <1>2, <2>3
  <2>5. i \in 1..Len(m) /\ j - 1 \in 1..Len(m) /\ ~(j - 1 < i) /\ (j - 1) + 1 = j
    BY <1>1, <1>4, <2>1, <2>3
  <2>6. m[i] = n /\ m[j-1] = y
    BY <1>1, <1>4, <2>1, <2>3, <2>5
  <2>7. Place(m, n) = i /\ Place(m, y) = j - 1
    BY <1>4, <2>5, <2>6, PlaceIs
  <2> QED
    BY <1>1, <2>2, <2>3, <2>4, <2>7
<1> QED
  BY <1>3, <1>5 DEF m

\* The link of buffer b leads to the next of its list.
LEMMA NextOfIs ==
  ASSUME NEW c, NEW tab, NEW pr, Sound(c, tab, pr), NEW o \in Objs,
         NEW i \in 1..Len(c.objbufs[o])
  PROVE  NextOf(c, c.objbufs[o][i]) =
           IF i < Len(c.objbufs[o]) THEN c.objbufs[o][i+1] ELSE NULL
<1> DEFINE l == c.objbufs[o]
           b == l[i]
           Follows(n) == \E k \in {c.unused} \cup {c.objbufs[q] : q \in Objs} :
                           \E j \in 1..Len(k)-1 : k[j] = b /\ k[j + 1] = n
<1>1. c \in CacheRec /\ NoRepeats(c)
  BY DEF Sound
<1>2. /\ l \in Seq(Bufs) /\ IsInjective(l) /\ b \in Bufs /\ b \in On(c, o)
      /\ Len(l) \in Nat /\ \A j \in 1..Len(l) : l[j] \in Bufs
  BY <1>1, CacheParts, RangeIs DEF NoRepeats, On
<1>3. b \notin Range(c.unused) /\ \A q \in Objs : b \in On(c, q) => q = o
  BY <1>2, OnListPlace
<1>4. ASSUME NEW n, Follows(n) PROVE i < Len(l) /\ n = l[i+1]
  <2>1. PICK k \in {c.unused} \cup {c.objbufs[q] : q \in Objs} :
               \E j \in 1..Len(k)-1 : k[j] = b /\ k[j + 1] = n
    BY <1>4
  <2>2. PICK j \in 1..Len(k)-1 : k[j] = b /\ k[j + 1] = n
    BY <2>1
  <2>3. k \in Seq(Bufs)
    BY <1>1, <2>1, CacheParts
  <2>4. j \in 1..Len(k) /\ Len(k) \in Nat
    BY <2>2, <2>3, LenProperties
  <2>5. b \in Range(k)
    BY <2>2, <2>3, <2>4, RangeIs
  <2>6. k = l
    BY <1>3, <2>1, <2>5 DEF On
  <2>7. j = i
    <3>1. j \in DOMAIN l /\ i \in DOMAIN l
      BY <1>2, <2>4, <2>6, LenProperties
    <3> QED
      BY <1>2, <2>2, <2>6, <3>1 DEF IsInjective
  <2> QED
    BY <2>2, <2>4, <2>6, <2>7
<1>5. i < Len(l) => Follows(l[i+1])
  <2> SUFFICES ASSUME i < Len(l) PROVE Follows(l[i+1])
    OBVIOUS
  <2>1. i \in 1..Len(l)-1
    BY <1>2
  <2>2. l \in {c.unused} \cup {c.objbufs[q] : q \in Objs}
    OBVIOUS
  <2> QED
    BY <2>1, <2>2
<1>6. NextOf(c, b) = IF \E n \in Bufs : Follows(n) THEN CHOOSE n \in Bufs : Follows(n) ELSE NULL
  BY DEF NextOf
<1> HIDE DEF Follows
<1>7. CASE i < Len(l)
  <2>1. l[i+1] \in Bufs /\ Follows(l[i+1]) /\ \A n : Follows(n) => n = l[i+1]
    BY <1>2, <1>4, <1>5, <1>7
  <2> QED
    BY <1>6, <1>7, <2>1
<1>8. CASE ~(i < Len(l))
  BY <1>4, <1>6, <1>8
<1> QED
  BY <1>7, <1>8

\* The syncer leaves the buffer it is at, clean or off the list.
LEMMA WalkOn ==
  ASSUME TypeInv, Sound(cache, table, proc), ScanInv, sy.pc = "scan", sy.next # NULL,
         sy' = [sy EXCEPT !.next = NextOf(cache, sy.next)],
         cache'.objbufs[sy.obj] \in {cache.objbufs[sy.obj],
                                      Without(cache.objbufs[sy.obj], sy.next)},
         \A o \in Objs : \A x \in On(cache', o) : cache'.buf[x].dirty =>
           x # sy.next /\ x \in On(cache, o) /\ cache.buf[x].dirty
  PROVE  ScanInv'
<1> DEFINE l == cache.objbufs[sy.obj]
           b == sy.next
           n == NextOf(cache, b)
<1>1. /\ sy.obj \in Objs /\ sy'.pc = "scan" /\ sy'.obj = sy.obj /\ sy'.next = n
  BY DEF TypeInv, TypeOK
<1>2. l \in Seq(Bufs) /\ IsInjective(l) /\ b \in Range(l)
  BY <1>1, CacheParts DEF Sound, NoRepeats, ScanInv
<1>3. PICK i \in 1..Len(l) : l[i] = b
  BY <1>2, RangeIs
<1>4. n = IF i < Len(l) THEN l[i+1] ELSE NULL
  BY <1>1, <1>3, NextOfIs
<1>5. Place(l, b) = i
  BY <1>2, <1>3, PlaceIs
<1>6. Range(Without(l, b)) = Range(l) \ {b}
  BY <1>2, WithoutRange
<1> DEFINE m == cache'.objbufs[sy.obj]
<1>7. m = l \/ m = Without(l, b)
  OBVIOUS
<1> HIDE DEF l, b, n, m
<1>8. /\ n # NULL => n \in Range(l) \ {b}
      /\ \A y \in Range(l) \ {b} : i <= Place(l, y) =>
           /\ n # NULL /\ Place(l, n) <= Place(l, y)
           /\ Place(Without(l, b), n) <= Place(Without(l, b), y)
  BY <1>2, <1>3, <1>4, Onward
<1>9. n # NULL => n \in Range(m)
  BY <1>6, <1>7, <1>8
<1>10. ASSUME NEW o \in Objs, NEW x \in On(cache', o), cache'.buf[x].dirty
       PROVE  o > sy.obj \/ (o = sy.obj /\ n # NULL /\ Place(m, n) <= Place(m, x))
  <2>1. x # b /\ x \in On(cache, o) /\ cache.buf[x].dirty
    BY <1>10 DEF b
  <2>2. Ahead(o, x)
    BY <2>1 DEF ScanInv, On, Dirty
  <2>3. o > sy.obj \/ (o = sy.obj /\ Place(l, b) <= Place(l, x))
    BY <2>2 DEF Ahead, l, b
  <2>4. CASE o = sy.obj /\ Place(l, b) <= Place(l, x)
    <3>1. x \in Range(l) \ {b} /\ i <= Place(l, x)
      BY <1>5, <2>1, <2>4 DEF On, l
    <3> QED
      BY <1>7, <1>8, <2>4, <3>1
  <2> QED
    BY <2>3, <2>4
<1> QED
  BY <1>1, <1>9, <1>10 DEF ScanInv, Ahead, On, Dirty, m

LEMMA ScanReleased ==
  ASSUME TypeInv, NoWaits, UNCHANGED proc, sy'.pc \in {"top", "scan"}, ScanInv',
         \A x \in Bufs : cache'.buf[x].obj = cache.buf[x].obj, StreamsKept(cache')
  PROVE  ReleasedInv'
<1>1. NoWaits'
  BY DEF NoWaits, TypeInv, HasBuffer
<1>2. DirtyScheduled'
  BY DEF DirtyScheduled
<1>3. StreamReclaimed'
  BY DEF StreamReclaimed, StreamsKept, On, Dirty
<1> QED
  BY <1>1, <1>2, <1>3 DEF ReleasedInv

LEMMA SyWriteReleased ==
  ASSUME Disciplined, MemEnough, Inv, BlockInv, ReleasedInv, SyWrite
  PROVE  ReleasedInv'
<1> DEFINE b == sy.next
           r == cache.buf[b]
           c == BwriteClean(cache, b)
           e == ObjWrite(c, b, r.obj, r.blk)
<1>0. /\ cpu = Syncer /\ cpu \in {Idle, Syncer} /\ sy.pc = "scan" /\ b \in Bufs
      /\ sy.obj \in Objs /\ UNCHANGED proc /\ b # NULL
      /\ cache' = SyFree(e, b) /\ sy' = [sy EXCEPT !.next = NextOf(cache, b)]
  BY ConstantTypes DEF SyWrite, Inv, TypeInv, TypeOK, MemEnough
<1>1. Sound(cache, table, proc) /\ cache \in CacheRec /\ NoRepeats(cache)
  BY <1>0, QuietSound DEF Sound
<1>2. b \in On(cache, sy.obj)
  BY <1>0 DEF ReleasedInv, ScanInv, On
<1>3. r.obj = sy.obj /\ b \notin Range(cache.unused) /\ \A o \in Objs : b \in On(cache, o) => o = sy.obj
  BY <1>0, <1>1, <1>2, OnListPlace
<1>4. r.obj \in Objs /\ r.blk \in Blks
  BY <1>0, <1>1, BufIsRec
<1>5. /\ c \in CacheRec /\ SameLists(cache, c) /\ SameOthers(cache, c, b)
      /\ Kept(cache.buf[b], c.buf[b]) /\ c.buf[b].dirty = FALSE
  BY <1>0, <1>1, <1>4, WriteEffect
<1> HIDE DEF c
<1>6. e \in CacheRec /\ SameLists(c, e) /\ e.buf = c.buf
  BY <1>0, <1>4, <1>5, WriteEffect
<1> HIDE DEF e
<1>7. /\ SameLists(cache, e) /\ SameOthers(cache, e, b) /\ e.buf[b].obj = sy.obj
      /\ e.buf[b].dirty = FALSE /\ NoRepeats(e) /\ Near(cache, e, b)
  <2>1. SameLists(cache, e) /\ SameOthers(cache, e, b) /\ NoRepeats(e)
    BY <1>1, <1>5, <1>6 DEF SameLists, SameOthers, NoRepeats
  <2> QED
    BY <1>3, <1>5, <1>6, <2>1, QuietNear DEF Kept
<1>8. /\ Near(cache, cache', b) /\ cache' \in CacheRec /\ cache'.buf = e.buf
      /\ cache'.objbufs[sy.obj] \in {cache.objbufs[sy.obj],
                                      Without(cache.objbufs[sy.obj], b)}
      /\ \A o \in Objs \ Files : b \notin On(cache', o)
  <2>1. CASE IsCached(sy.obj)
    <3>1. cache' = e
      BY <1>0, <2>1 DEF SyFree
    <3> QED
      BY <1>3, <1>6, <1>7, <2>1, <3>1 DEF SameLists, On, Files, IsCached
  <2>2. CASE ~IsCached(sy.obj)
    <3>1. cache' = Bfree(e, b)
      BY <1>0, <2>2 DEF SyFree
    <3>2. b \notin Range(e.unused)
      BY <1>3, <1>7 DEF SameLists
    <3>3. /\ cache' \in CacheRec /\ cache'.buf = e.buf
          /\ \A o \in Objs : On(cache', o) = IF o = e.buf[b].obj THEN On(e, o) \ {b} ELSE On(e, o)
      <4> DEFINE d == Bfree(e, b)
      <4>1. /\ d \in CacheRec /\ NoRepeats(d) /\ d.buf = e.buf
            /\ Range(d.unused) = Range(e.unused) \cup {b}
            /\ \A o \in Objs : On(d, o) = IF o = e.buf[b].obj THEN On(e, o) \ {b} ELSE On(e, o)
        BY <1>0, <1>6, <1>7, <3>2, BfreeEffect
      <4> HIDE DEF d
      <4>2. cache' = d
        BY <3>1 DEF d
      <4> QED
        BY <4>1, <4>2
    <3>4. Near(e, cache', b)
      BY <1>0, <1>6, <1>7, <3>1, <3>2, ListNear
    <3>5. Near(cache, cache', b)
      BY <1>7, <3>4, NearTwice
    <3>6. cache'.objbufs = [e.objbufs EXCEPT ![sy.obj] = Without(e.objbufs[sy.obj], b)]
      <4>1. Bfree(e, b).objbufs = [e.objbufs EXCEPT ![e.buf[b].obj] = Without(e.objbufs[e.buf[b].obj], b)]
        BY <1>6 DEF Bfree, CacheRec
      <4> QED
        BY <1>7, <3>1, <4>1
    <3>7. cache'.objbufs[sy.obj] = Without(cache.objbufs[sy.obj], b)
      BY <1>0, <1>6, <1>7, <3>6, CacheParts DEF SameLists
    <3>8. \A o \in Objs : b \notin On(cache', o)
      BY <1>3, <1>7, <3>3 DEF SameLists, On
    <3> QED
      BY <3>3, <3>5, <3>7, <3>8
  <2> QED
    BY <2>1, <2>2
<1>9. cache'.buf[b].dirty = FALSE /\ \A x \in Bufs : cache'.buf[x].obj = cache.buf[x].obj
  BY <1>3, <1>7, <1>8 DEF SameOthers
<1>10. \A o \in Objs : \A x \in On(cache', o) : cache'.buf[x].dirty =>
         x # b /\ x \in On(cache, o) /\ cache.buf[x].dirty
  <2>1. \A o \in Objs : On(cache', o) \subseteq Bufs
    BY <1>8, CacheParts
  <2> QED
    BY <1>8, <1>9, <2>1 DEF Near
<1>11. ScanInv'
  BY <1>0, <1>1, <1>8, <1>10, WalkOn DEF Inv, ReleasedInv
<1>12. StreamsKept(cache')
  <2>1. StreamsKept(cache)
    BY DEF ReleasedInv, StreamReclaimed, StreamsKept, On, Dirty
  <2> QED
    BY <1>0, <1>8, <2>1, NearStreams
<1>13. sy'.pc = "scan"
  BY <1>0 DEF Inv, TypeInv, TypeOK
<1> QED
  BY <1>0, <1>9, <1>11, <1>12, <1>13, ScanReleased DEF Inv, ReleasedInv

LEMMA SyncerReleased ==
  ASSUME Disciplined, MemEnough, Inv, BlockInv, ReleasedInv, SyncerStep
  PROVE  ReleasedInv'
<1>0. cpu \in {Idle, Syncer} /\ UNCHANGED proc
  BY DEF SyncerStep, SyTop, SyNextObj, SyEnd, SySkip, SyWrite, SyResume, SyWriteEnd
<1>1. Sound(cache, table, proc) /\ cache \in CacheRec /\ NoRepeats(cache)
  BY <1>0, QuietSound DEF Sound
<1>2. StreamsKept(cache) /\ NoWaits /\ TypeInv
  BY DEF Inv, ReleasedInv, StreamReclaimed, StreamsKept, On, Dirty
<1>3. sy.obj \in Objs /\ Objs = 1..Len(Kind) /\ Len(Kind) \in Nat /\ 1 \in Objs
  BY ConstantTypes DEF Inv, TypeInv, TypeOK
\* The first element of a list stands before every other.
<1>4. ASSUME NEW o \in Objs
      PROVE  /\ First(cache.objbufs[o]) # NULL => First(cache.objbufs[o]) \in On(cache, o)
             /\ \A x \in On(cache, o) :
                  /\ First(cache.objbufs[o]) # NULL
                  /\ Place(cache.objbufs[o], First(cache.objbufs[o])) <= Place(cache.objbufs[o], x)
  <2> DEFINE l == cache.objbufs[o]
             f == First(l)
  <2>1. l \in Seq(Bufs) /\ IsInjective(l) /\ Len(l) \in Nat /\ NULL \notin Bufs
    BY <1>1, <1>4, CacheParts, RangeIs, ConstantTypes DEF NoRepeats
  <2>2. f # NULL => f \in Range(l)
    BY <1>1, <1>4, FirstOnList DEF On
  <2>3. ASSUME NEW x \in Range(l) PROVE f # NULL /\ Place(l, f) <= Place(l, x)
    <3>1. Place(l, x) \in 1..Len(l)
      BY <2>1, PlaceIs
    <3>2. 1 \in 1..Len(l) /\ l # <<>>
      BY <2>1, <3>1
    <3>3. f = l[1] /\ l[1] \in Bufs
      BY <2>1, <3>2, RangeIs DEF First
    <3>4. Place(l, f) = 1
      BY <2>1, <3>2, <3>3, PlaceIs
    <3> QED
      BY <2>1, <3>1, <3>3, <3>4
  <2> QED
    BY <2>2, <2>3 DEF On
<1>5. ASSUME UNCHANGED <<cache, proc>>, sy'.pc \in {"top", "scan"}, ScanInv' PROVE ReleasedInv'
  BY <1>2, <1>5, ScanReleased
<1>6. CASE SyTop
  <2>1. /\ UNCHANGED <<cache, proc>> /\ sy'.pc = "scan" /\ sy'.obj = 1
        /\ sy'.next = First(cache.objbufs[1])
    BY <1>6 DEF SyTop, Inv, TypeInv, TypeOK
  <2>2. \A o \in Objs : o = 1 \/ o > 1
    BY <1>3
  <2>3. ScanInv'
    BY <1>3, <1>4, <2>1, <2>2 DEF ScanInv, Ahead, On, Dirty
  <2> QED
    BY <1>5, <2>1, <2>3
<1>7. CASE SyNextObj
  <2> DEFINE n == sy.obj + 1
  <2>1. /\ UNCHANGED <<cache, proc>> /\ sy.pc = "scan" /\ sy.next = NULL /\ n \in Objs
        /\ sy'.pc = "scan" /\ sy'.obj = n /\ sy'.next = First(cache.objbufs[n])
    BY <1>3, <1>7 DEF SyNextObj, Inv, TypeInv, TypeOK
  <2>2. ASSUME NEW o \in Objs, NEW x \in On(cache, o), cache.buf[x].dirty PROVE o = n \/ o > n
    <3>1. Ahead(o, x)
      BY <2>1, <2>2 DEF ReleasedInv, ScanInv, On, Dirty
    <3>2. o > sy.obj
      BY <2>1, <3>1 DEF Ahead
    <3> QED
      BY <1>3, <3>2
  <2> HIDE DEF n
  <2>3. ScanInv'
    BY <1>3, <1>4, <2>1, <2>2 DEF ScanInv, Ahead, On, Dirty
  <2> QED
    BY <1>5, <2>1, <2>3
<1>8. CASE SyEnd
  <2>1. UNCHANGED <<cache, proc>> /\ sy.pc = "scan" /\ sy.next = NULL /\ sy.obj = Len(Kind)
    BY <1>8 DEF SyEnd
  <2>2. CASE restart
    <3>1. sy'.pc = "top"
      BY <1>8, <2>2 DEF SyEnd, Inv, TypeInv, TypeOK
    <3>2. ScanInv'
      BY <3>1 DEF ScanInv
    <3> QED
      BY <1>5, <2>1, <3>1, <3>2
  <2>3. CASE ~restart
    <3>1. sy'.pc = "sleep" /\ ~restart'
      BY <1>8, <2>3 DEF SyEnd, Inv, TypeInv, TypeOK
    <3>2. ASSUME NEW x \in Bufs PROVE ~cache.buf[x].dirty
      <4>1. cache.buf[x].obj \in Objs
        BY <1>1, BufIsRec
      <4>2. cache.buf[x].dirty => x \in Range(cache.objbufs[cache.buf[x].obj])
        BY DEF BlockInv, BlocksExact
      <4>3. cache.buf[x].dirty => Ahead(cache.buf[x].obj, x)
        BY <2>1, <4>1, <4>2 DEF ReleasedInv, ScanInv, Dirty
      <4> QED
        BY <1>3, <2>1, <4>1, <4>3 DEF Ahead
    <3>3. NoWaits'
      BY <1>2, <2>1, <3>1 DEF NoWaits
    <3>4. ScanInv' /\ DirtyScheduled'
      BY <2>1, <3>1, <3>2 DEF ScanInv, DirtyScheduled, Dirty
    <3>5. StreamReclaimed'
      BY <2>1 DEF ReleasedInv, StreamReclaimed, Dirty
    <3> QED
      BY <3>3, <3>4, <3>5 DEF ReleasedInv
  <2> QED
    BY <2>2, <2>3
<1>9. CASE SySkip
  <2>1. /\ UNCHANGED <<cache, proc>> /\ sy.pc = "scan" /\ sy.next # NULL
        /\ ~cache.buf[sy.next].dirty /\ sy' = [sy EXCEPT !.next = NextOf(cache, sy.next)]
    BY <1>9 DEF SySkip
  <2>2. ScanInv'
    BY <1>1, <1>2, <2>1, WalkOn DEF ReleasedInv
  <2>3. sy'.pc = "scan"
    BY <2>1 DEF Inv, TypeInv, TypeOK
  <2> QED
    BY <1>5, <2>1, <2>2, <2>3
<1>10. CASE SyWrite
  BY <1>10, SyWriteReleased
<1>11. ~SyResume /\ ~SyWriteEnd
  BY DEF SyResume, SyWriteEnd, ReleasedInv, NoWaits
<1> QED
  BY <1>6, <1>7, <1>8, <1>9, <1>10, <1>11 DEF SyncerStep

LEMMA InitReleased == Init => ReleasedInv
<1> SUFFICES ASSUME Init PROVE ReleasedInv
  OBVIOUS
<1>1. \A o \in Objs : Range(cache.objbufs[o]) = {}
  BY DEF Init, Range
<1> QED
  BY <1>1 DEF Init, NoCall, ReleasedInv, NoWaits, ScanInv, DirtyScheduled, StreamReclaimed

LEMMA NextReleased ==
  ASSUME Disciplined, MemEnough, Inv, BlockInv, ReleasedInv, [Next]_vars
  PROVE  ReleasedInv'
<1>0. TypeInv'
  BY NextType DEF Inv
<1>1. CASE \E p \in Procs : KernelStep(p) \/ UserStep(p)
  BY <1>0, <1>1, KernelReleased, UserReleased
<1>2. CASE CleanupStep
  BY <1>0, <1>2, CleanupReleased
<1>3. CASE SyncerStep
  BY <1>3, SyncerReleased
<1>4. CASE UNCHANGED vars
  BY <1>4 DEF vars, ReleasedInv, NoWaits, ScanInv, Ahead, DirtyScheduled, StreamReclaimed, Free, Dirty
<1> QED
  BY <1>1, <1>2, <1>3, <1>4 DEF Next

\* With enough memory the syncer passes no dirty buffer over and a stream
\* buffer stays on its list only as long as somebody needs it.
THEOREM ReleasedInvariant ==
  ASSUME Disciplined, MemEnough
  PROVE  Spec => [](Inv /\ BlockInv /\ ReleasedInv)
<1>1. Init => Inv /\ BlockInv /\ ReleasedInv
  BY InitType, InitSafe, InitBlocks, InitReleased DEF Inv
<1>2. Inv /\ BlockInv /\ ReleasedInv /\ [Next]_vars => Inv' /\ BlockInv' /\ ReleasedInv'
  BY NextSafe, NextBlocks, NextReleased
<1> QED
  BY <1>1, <1>2, PTL DEF Spec

\* The counter of an object is the number of its dirty buffers, and the syncer
\* sleeps only when all of those are in use (SYNCER_RESTART, sync_bufs).
THEOREM DirtyIsExact ==
  ASSUME Disciplined, MemEnough
  PROVE  Spec => []DirtyExact
<1>1. Inv /\ BlockInv /\ ReleasedInv => DirtyExact
  BY DEF BlockInv, BlocksExact, ReleasedInv, DirtyExact, DirtyCount, Dirty
<1> QED
  BY <1>1, ReleasedInvariant, PTL

\* No stream buffer is lost on its object's list (bunrefp, sync_bufs).
THEOREM StreamsAreReclaimed ==
  ASSUME Disciplined, MemEnough
  PROVE  Spec => []StreamReclaimed
<1>1. Inv /\ BlockInv /\ ReleasedInv => StreamReclaimed
  BY DEF ReleasedInv
<1> QED
  BY <1>1, ReleasedInvariant, PTL

-----------------------------------------------------------------------------
(* What clients see of the files, and what the device holds of them.         *)

Copies(c, o, k) == {b \in Range(c.objbufs[o]) : c.buf[b].blk = k /\ c.buf[b].lock = 0}
View(c, o, k) == IF Copies(c, o, k) = {} THEN c.disk[o][k]
                 ELSE c.buf[CHOOSE b \in Copies(c, o, k) : TRUE].data
Seen(c)   == [o \in Files |-> [k \in Blks |-> View(c, o, k)]]
Device(c) == [o \in Files |-> c.disk[o]]

\* Nobody waits for a block of a file.
FileLocks(c) == \A o \in Files : \A b \in On(c, o) : c.buf[b].lock = 0
Sure(c)  == Filed(c) /\ FileLocks(c)
Exact(c) == Sure(c) /\ DataExact(c)

\* The three things that happen to a store.
SameStore(c, d) == Seen(d) = Seen(c) /\ Device(d) = Device(c)
WriteStore(c, d, o, k) == /\ Seen(d) = [Seen(c) EXCEPT ![o][k] = Seen(c)[o][k] + 1]
                          /\ Device(d) = Device(c)
FlushStore(c, d, o, k) == /\ Seen(d) = Seen(c)
                          /\ Device(d) = [Device(c) EXCEPT ![o][k] = Seen(c)[o][k]]
StoreStep(c, d) ==
  SameStore(c, d) \/ \E o \in Files, k \in Blks : WriteStore(c, d, o, k) \/ FlushStore(c, d, o, k)

LEMMA ViewIs ==
  ASSUME NEW c, Sure(c), NEW o \in Files, NEW k \in Blks
  PROVE  /\ Vacant(c, o, k) => View(c, o, k) = c.disk[o][k]
         /\ \A b \in On(c, o) : c.buf[b].blk = k => View(c, o, k) = c.buf[b].data
<1>1. Vacant(c, o, k) => View(c, o, k) = c.disk[o][k]
  <2>1. Vacant(c, o, k) => Copies(c, o, k) = {}
    BY DEF Vacant, Copies
  <2> QED
    BY <2>1 DEF View
<1>2. ASSUME NEW b \in On(c, o), c.buf[b].blk = k PROVE View(c, o, k) = c.buf[b].data
  <2>1. c.buf[b].lock = 0
    BY <1>2 DEF Sure, FileLocks
  <2>2. b \in Copies(c, o, k)
    BY <1>2, <2>1 DEF Copies, On
  <2>3. \A x \in Copies(c, o, k) : x = b
    BY <1>2 DEF Copies, On, Sure, Filed, BlocksExact
  <2> QED
    BY <2>2, <2>3 DEF View
<1> QED
  BY <1>1, <1>2

LEMMA SeenAt ==
  ASSUME NEW c, NEW o \in Files, NEW k \in Blks
  PROVE  Seen(c)[o][k] = View(c, o, k)
BY DEF Seen

SeesAt(c, d, o, k, v) == Seen(d) = [Seen(c) EXCEPT ![o][k] = v]

LEMMA SeenExcept ==
  ASSUME NEW c, NEW d, NEW o \in Files, NEW k \in Blks, NEW v, View(d, o, k) = v,
         \A n \in Files, j \in Blks : n # o \/ j # k => View(d, n, j) = View(c, n, j)
  PROVE  SeesAt(c, d, o, k, v)
<1> DEFINE g == [j \in Blks |-> View(c, o, j)]
           h == [j \in Blks |-> View(d, o, j)]
<1>1. Seen(c)[o] = g
  BY DEF Seen
<1>2. h = [g EXCEPT ![k] = v]
  <2>1. \A j \in Blks : h[j] = IF j = k THEN v ELSE g[j]
    OBVIOUS
  <2> QED
    OBVIOUS
<1>3. ASSUME NEW n \in Files PROVE [j \in Blks |-> View(d, n, j)] =
                                   IF n = o THEN h ELSE [j \in Blks |-> View(c, n, j)]
  BY <1>3
<1> HIDE DEF g, h
<1>4. Seen(d) = [n \in Files |-> IF n = o THEN h ELSE Seen(c)[n]]
  BY <1>3 DEF Seen
<1> QED
  BY <1>1, <1>2, <1>4 DEF Seen, SeesAt

\* No block of a file changes its contents: its buffer stays as it is, is made
\* equal to the device, or is dropped clean.
Quiet(c, d) ==
  /\ d.disk = c.disk /\ d.size = c.size
  /\ \A o \in Files : \A b \in On(d, o) :
       \/ b \in On(c, o) /\ SameData(c.buf[b], d.buf[b])
       \/ /\ b \notin On(c, o) /\ Vacant(c, o, d.buf[b].blk) /\ d.buf[b].dirty = FALSE
          /\ d.buf[b].data = c.disk[o][d.buf[b].blk]
  /\ \A o \in Files : \A b \in On(c, o) \ On(d, o) : ~c.buf[b].dirty

LEMMA QuietStore ==
  ASSUME NEW c, Exact(c), NEW d, Sure(d), Quiet(c, d)
  PROVE  Exact(d) /\ SameStore(c, d)
<1>0. Sure(c) /\ DataExact(c)
  BY DEF Exact
<1>1. DataExact(d)
  <2>1. ASSUME NEW o \in Files, NEW b \in On(d, o), ~d.buf[b].dirty
        PROVE  d.buf[b].data = d.disk[o][d.buf[b].blk]
    BY <1>0, <2>1 DEF Quiet, DataExact, SameData, On
  <2>2. \A o \in Files, k \in Blks : k >= d.size[o] => d.disk[o][k] = 0
    BY <1>0 DEF Quiet, DataExact
  <2> QED
    BY <2>1, <2>2 DEF DataExact, On
<1>2. ASSUME NEW o \in Files, NEW k \in Blks PROVE View(d, o, k) = View(c, o, k)
  <2>1. CASE Vacant(d, o, k)
    <3>1. View(d, o, k) = c.disk[o][k]
      BY <2>1, ViewIs DEF Quiet
    <3>2. CASE Vacant(c, o, k)
      BY <1>0, <3>1, <3>2, ViewIs
    <3>3. CASE ~Vacant(c, o, k)
      <4>1. PICK b \in On(c, o) : c.buf[b].blk = k
        BY <3>3 DEF Vacant, On
      <4>2. b \notin On(d, o)
        BY <2>1, <4>1 DEF Quiet, SameData, Vacant, On
      <4>3. ~c.buf[b].dirty
        BY <4>1, <4>2 DEF Quiet
      <4>4. c.buf[b].data = c.disk[o][k]
        BY <1>0, <4>1, <4>3 DEF DataExact, On
      <4> QED
        BY <1>0, <3>1, <4>1, <4>4, ViewIs
    <3> QED
      BY <3>2, <3>3
  <2>2. CASE ~Vacant(d, o, k)
    <3>1. PICK b \in On(d, o) : d.buf[b].blk = k
      BY <2>2 DEF Vacant, On
    <3>2. View(d, o, k) = d.buf[b].data
      BY <3>1, ViewIs
    <3>3. CASE b \in On(c, o) /\ SameData(c.buf[b], d.buf[b])
      BY <1>0, <3>1, <3>2, <3>3, ViewIs DEF SameData
    <3>4. CASE Vacant(c, o, k) /\ d.buf[b].data = c.disk[o][k]
      BY <1>0, <3>2, <3>4, ViewIs
    <3> QED
      BY <3>1, <3>3, <3>4 DEF Quiet
  <2> QED
    BY <2>1, <2>2
<1>3. Seen(d) = Seen(c)
  BY <1>2 DEF Seen
<1>4. Device(d) = Device(c)
  BY DEF Quiet, Device
<1> QED
  BY <1>1, <1>3, <1>4 DEF Exact, SameStore

\* A client replaces the contents of the block in buffer b.
LEMMA ModifyStore ==
  ASSUME NEW c, Exact(c), NEW o \in Files, NEW b \in On(c, o), Listed(c, b),
         c.buf[b].data < MaxVersion,
         NEW d, d = Bdirty(Modify(c, b), b)
  PROVE  Exact(d) /\ WriteStore(c, d, o, c.buf[b].blk)
<1> DEFINE k == c.buf[b].blk
<1>0. /\ c \in CacheRec /\ b \in Bufs /\ o \in Objs /\ IsFile(o) /\ c.buf[b].obj = o
      /\ Sure(c) /\ Filed(c) /\ DataExact(c)
  BY CacheParts DEF Exact, Sure, Filed, Files, Listed
<1>1. k \in Blks /\ c.buf[b].data \in 0..Line
  BY <1>0, BufIsRec
<1>2. Filed(d)
  BY <1>0, MarkFiled
<1>3. /\ SameLists(c, d) /\ SameOthers(c, d, b) /\ Kept(c.buf[b], d.buf[b])
  BY <1>0, ModifyEffect
<1>4. /\ d.disk = c.disk /\ d.size = c.size
      /\ d.buf[b].blk = k /\ d.buf[b].dirty = TRUE /\ d.buf[b].data = c.buf[b].data + 1
  <2>1. IsFile(c.buf[b].obj) => c.buf[b].data < MaxVersion
    OBVIOUS
  <2>2. /\ d.disk = c.disk /\ d.size = c.size
        /\ d.buf[b].blk = c.buf[b].blk /\ d.buf[b].dirty = TRUE
    BY <1>0, <2>1, ModifyData
  <2>3. IsFile(c.buf[b].obj) => d.buf[b].data = c.buf[b].data + 1
    BY <1>0, <2>1, ModifyData
  <2> QED
    BY <1>0, <2>2, <2>3
<1>5. \A n \in Objs : On(d, n) = On(c, n) /\ On(c, n) \subseteq Bufs
  BY <1>0, <1>3, CacheParts DEF SameLists, On
<1>6. Sure(d)
  <2>1. FileLocks(d)
    BY <1>0, <1>3, <1>5 DEF Sure, FileLocks, SameOthers, Kept, Files
  <2> QED
    BY <1>2, <2>1 DEF Sure
<1>7. DataExact(d)
  BY <1>0, <1>3, <1>4, <1>5 DEF DataExact, SameOthers, Files, On
<1>8. View(d, o, k) = View(c, o, k) + 1
  BY <1>0, <1>1, <1>4, <1>5, <1>6, ViewIs
<1>9. ASSUME NEW n \in Files, NEW j \in Blks, n # o \/ j # k PROVE View(d, n, j) = View(c, n, j)
  <2>0. n \in Objs
    BY DEF Files
  <2>1. \A x \in On(c, n) : x \in Bufs /\ d.buf[x].blk = c.buf[x].blk
                            /\ (x # b => d.buf[x].data = c.buf[x].data)
    BY <1>3, <1>4, <1>5, <2>0 DEF SameOthers
  <2>2. \A x \in On(c, n) : c.buf[x].blk = j => x # b
    BY <1>0, <1>9, <2>0 DEF Listed
  <2>3. CASE Vacant(c, n, j)
    <3>1. Vacant(d, n, j)
      BY <1>5, <2>0, <2>1, <2>3 DEF Vacant, On
    <3> QED
      BY <1>0, <1>4, <1>6, <2>3, <3>1, ViewIs
  <2>4. CASE ~Vacant(c, n, j)
    <3>1. PICK x \in On(c, n) : c.buf[x].blk = j
      BY <2>4 DEF Vacant, On
    <3>2. x \in On(d, n) /\ d.buf[x].blk = j /\ d.buf[x].data = c.buf[x].data
      BY <1>5, <2>0, <2>1, <2>2, <3>1
    <3> QED
      BY <1>0, <1>6, <3>1, <3>2, ViewIs
  <2> QED
    BY <2>3, <2>4
<1>10. Seen(d) = [Seen(c) EXCEPT ![o][k] = Seen(c)[o][k] + 1]
  <2>1. Seen(c)[o][k] = View(c, o, k)
    BY <1>1, SeenAt
  <2> DEFINE v == Seen(c)[o][k] + 1
  <2>2. View(d, o, k) = v
    BY <1>8, <2>1
  <2>3. k \in Blks
    BY <1>1
  <2> HIDE DEF k, v
  <2>4. SeesAt(c, d, o, k, v)
    BY <1>9, <2>2, <2>3, SeenExcept
  <2> QED
    BY <2>4 DEF v, SeesAt
<1>11. Device(d) = Device(c)
  BY <1>4 DEF Device
<1> QED
  BY <1>6, <1>7, <1>10, <1>11 DEF Exact, WriteStore

\* The device is given the block in buffer b.
LEMMA FlushStores ==
  ASSUME NEW c, Exact(c), NEW o \in Files, NEW b \in On(c, o), Listed(c, b),
         b \notin Range(c.unused), NEW d, d = Written(c, b)
  PROVE  Exact(d) /\ FlushStore(c, d, o, c.buf[b].blk)
<1> DEFINE k == c.buf[b].blk
           v == c.buf[b].data
           e == BwriteClean(c, b)
<1>0. /\ c \in CacheRec /\ b \in Bufs /\ o \in Objs /\ IsFile(o) /\ c.buf[b].obj = o
      /\ Sure(c) /\ Filed(c) /\ DataExact(c)
  BY CacheParts DEF Exact, Sure, Filed, Files, Listed
<1>1. k \in Blks /\ v \in 0..Line
  BY <1>0, BufIsRec
<1>2. Filed(d)
  BY <1>0, WrittenFiled
<1>3. /\ e \in CacheRec /\ SameLists(c, e) /\ SameOthers(c, e, b) /\ Kept(c.buf[b], e.buf[b])
      /\ e.buf[b].data = v /\ e.buf[b].dirty = FALSE
  BY <1>0, <1>1, WriteEffect
<1>4. e.disk = c.disk /\ e.size = c.size /\ e.buf[b].blk = k
  BY <1>0, CleanData
<1>5. d = ObjWrite(e, b, o, k)
  BY <1>0 DEF Written
<1> HIDE DEF e
<1>6. SameLists(e, d) /\ d.buf = e.buf
  <2>1. SameLists(e, d)
    BY <1>0, <1>1, <1>3, <1>5, WriteEffect
  <2>2. d.buf = e.buf
    BY <1>5 DEF ObjWrite
  <2> QED
    BY <2>1, <2>2
<1>7. /\ d.disk = [c.disk EXCEPT ![o][k] = v]
      /\ d.size = [c.size EXCEPT ![o] = IF k >= c.size[o] THEN k + 1 ELSE c.size[o]]
  <2>1. /\ d.disk = [e.disk EXCEPT ![o][k] = e.buf[b].data]
        /\ d.size = [e.size EXCEPT ![o] = IF k >= e.size[o] THEN k + 1 ELSE e.size[o]]
    BY <1>0, <1>1, <1>3, <1>5, WriteData
  <2> QED
    BY <1>3, <1>4, <2>1
<1> HIDE DEF k, v
<1>8. \A n \in Objs : On(d, n) = On(c, n) /\ On(c, n) \subseteq Bufs
  BY <1>0, <1>3, <1>6, CacheParts DEF SameLists, On
<1>9. /\ d.buf[b].blk = k /\ d.buf[b].data = v /\ d.buf[b].lock = c.buf[b].lock
      /\ \A x \in Bufs \ {b} : d.buf[x] = c.buf[x]
  BY <1>3, <1>4, <1>6 DEF SameOthers, Kept
<1>10. Sure(d)
  <2>1. FileLocks(d)
    BY <1>0, <1>8, <1>9 DEF Sure, FileLocks, Files
  <2> QED
    BY <1>2, <2>1 DEF Sure
<1>11. \A n \in Files, j \in Blks : d.disk[n][j] = IF n = o /\ j = k THEN v ELSE c.disk[n][j]
  BY <1>0, <1>7 DEF CacheRec, Files
<1>12. DataExact(d)
  <2>1. ASSUME NEW n \in Files, NEW x \in On(d, n), ~d.buf[x].dirty
        PROVE  d.buf[x].data = d.disk[n][d.buf[x].blk]
    <3>0. n \in Objs
      BY DEF Files
    <3>1. x \in On(c, n) /\ x \in Bufs
      BY <1>8, <2>1, <3>0
    <3>2. CASE x = b
      <4>1. n = o
        BY <1>0, <3>0, <3>1, <3>2 DEF Listed
      <4> QED
        BY <1>1, <1>9, <1>11, <3>2, <4>1
    <3>3. CASE x # b
      <4>1. d.buf[x] = c.buf[x] /\ c.buf[x].blk \in Blks
        BY <1>0, <1>9, <3>1, <3>3, BufIsRec
      <4>2. c.buf[x].data = c.disk[n][c.buf[x].blk]
        BY <1>0, <2>1, <3>1, <4>1 DEF DataExact, On
      <4>3. ~(n = o /\ c.buf[x].blk = k)
        BY <1>0, <3>1, <3>3 DEF Filed, BlocksExact, On, k
      <4> QED
        BY <1>11, <4>1, <4>2, <4>3
    <3> QED
      BY <3>2, <3>3
  <2>2. ASSUME NEW n \in Files, NEW j \in Blks, j >= d.size[n] PROVE d.disk[n][j] = 0
    <3>1. c.size \in [Objs -> 0..NumBlks] /\ n \in Objs
      BY <1>0 DEF CacheRec, Files
    <3>2. j \in Int /\ k \in Int /\ c.size[n] \in Int /\ c.size[o] \in Int
      BY <1>0, <1>1, <3>1, ConstantTypes, SMTT(60) DEF Blks
    <3>3. d.size[n] = IF n = o THEN (IF k >= c.size[o] THEN k + 1 ELSE c.size[o]) ELSE c.size[n]
      BY <1>0, <1>7, <3>1
    <3>4. j >= c.size[n] /\ ~(n = o /\ j = k)
      BY <2>2, <3>2, <3>3
    <3> QED
      BY <1>0, <1>11, <3>4 DEF DataExact
  <2> QED
    BY <2>1, <2>2 DEF DataExact, On
<1>13. View(c, o, k) = v
  BY <1>0, <1>1, ViewIs DEF k, v
<1>14. ASSUME NEW n \in Files, NEW j \in Blks PROVE View(d, n, j) = View(c, n, j)
  <2>0. n \in Objs
    BY DEF Files
  <2>1. \A x \in On(c, n) : /\ x \in Bufs /\ d.buf[x].blk = c.buf[x].blk
                            /\ d.buf[x].data = c.buf[x].data
    BY <1>8, <1>9, <2>0 DEF k, v
  <2>2. CASE Vacant(c, n, j)
    <3>1. Vacant(d, n, j)
      BY <1>8, <2>0, <2>1, <2>2 DEF Vacant, On
    <3>2. ~(n = o /\ j = k)
      BY <2>2 DEF Vacant, On, k
    <3> QED
      BY <1>0, <1>10, <1>11, <2>2, <3>1, <3>2, ViewIs
  <2>3. CASE ~Vacant(c, n, j)
    <3>1. PICK x \in On(c, n) : c.buf[x].blk = j
      BY <2>3 DEF Vacant, On
    <3>2. x \in On(d, n) /\ d.buf[x].blk = j /\ d.buf[x].data = c.buf[x].data
      BY <1>8, <2>0, <2>1, <3>1
    <3> QED
      BY <1>0, <1>10, <3>1, <3>2, ViewIs
  <2> QED
    BY <2>2, <2>3
<1>15. Seen(d) = Seen(c)
  BY <1>14 DEF Seen
<1>16. Device(d) = [Device(c) EXCEPT ![o][k] = Seen(c)[o][k]]
  <2>1. Seen(c)[o][k] = v
    BY <1>1, <1>13, SeenAt DEF k
  <2>2. d.disk = [c.disk EXCEPT ![o] = [c.disk[o] EXCEPT ![k] = v]]
    BY <1>7
  <2>3. c.disk \in [Objs -> [Blks -> 0..Line]] /\ Files \subseteq Objs
    BY <1>0 DEF CacheRec, Files
  <2> HIDE DEF Files
  <2> QED
    BY <1>0, <2>1, <2>2, <2>3 DEF Device
<1> QED
  BY <1>10, <1>12, <1>15, <1>16 DEF Exact, FlushStore, k

\* A step about buffer b alone is quiet if what it does to b is.
LEMMA NearQuiet ==
  ASSUME NEW c \in CacheRec, NEW d \in CacheRec, NEW b \in Bufs, Near(c, d, b),
         d.disk = c.disk, d.size = c.size,
         \A o \in Files : b \in On(d, o) =>
           \/ b \in On(c, o) /\ SameData(c.buf[b], d.buf[b])
           \/ /\ b \notin On(c, o) /\ Vacant(c, o, d.buf[b].blk) /\ d.buf[b].dirty = FALSE
              /\ d.buf[b].data = c.disk[o][d.buf[b].blk],
         \A o \in Files : b \in On(c, o) /\ b \notin On(d, o) => ~c.buf[b].dirty
  PROVE  Quiet(c, d)
<1>1. ASSUME NEW o \in Files PROVE o \in Objs /\ On(c, o) \subseteq Bufs /\ On(d, o) \subseteq Bufs
  BY CacheParts DEF Files
<1>2. ASSUME NEW o \in Files, NEW x \in On(d, o), x # b
      PROVE  x \in On(c, o) /\ SameData(c.buf[x], d.buf[x])
  <2>1. o \in Objs /\ x \in Bufs \ {b}
    BY <1>1, <1>2
  <2> QED
    BY <2>1, <1>2 DEF Near, SameData
<1>3. ASSUME NEW o \in Files, NEW x \in On(c, o) \ On(d, o) PROVE ~c.buf[x].dirty
  <2>1. o \in Objs /\ x \in Bufs
    BY <1>1, <1>3
  <2> QED
    BY <2>1, <1>3 DEF Near
<1> QED
  BY <1>2, <1>3 DEF Quiet

\* Nobody waits for a block of a file as long as only streams are read with a switch.
LEMMA SureIs ==
  ASSUME NEW c \in CacheRec, NEW tab, NEW pr, Consistent(c, tab, pr), BlocksExact(c),
         \A q \in Procs : /\ pr[q].pc # "readclean"
                          /\ pr[q].pc = "read" => IsStream(c.buf[pr[q].buf].obj)
  PROVE  Sure(c)
<1>1. NoRepeats(c) /\ \A o \in Objs : \A b \in On(c, o) : c.buf[b].obj = o
  BY DEF Consistent, Partition, NoRepeats, On
<1>2. ASSUME NEW o \in Files, NEW b \in On(c, o), c.buf[b].lock # 0 PROVE FALSE
  <2>1. o \in Objs /\ IsFile(o) /\ b \in Bufs /\ c.buf[b].obj = o
    BY <1>1, <1>2, CacheParts DEF Files
  <2>2. Reading(pr, b)
    BY <1>2, <2>1 DEF Consistent, Locks
  <2>3. IsStream(o)
    BY <2>1, <2>2 DEF Reading
  <2> QED
    BY <2>1, <2>3 DEF IsStream
<1> QED
  BY <1>1, <1>2 DEF Sure, Filed, FileLocks

LEMMA SureNow ==
  Inv /\ BlockInv /\ ReleasedInv => Sure(cache)
<1> SUFFICES ASSUME Inv, BlockInv, ReleasedInv PROVE Sure(cache)
  OBVIOUS
<1>1. cache \in CacheRec /\ Consistent(cache, table, proc) /\ BlocksExact(cache)
  BY DEF Inv, TypeInv, TypeOK, CacheInv, BlockInv
<1>2. \A q \in Procs : /\ proc[q].pc # "readclean"
                       /\ proc[q].pc = "read" => IsStream(cache.buf[proc[q].buf].obj)
  BY DEF ReleasedInv, NoWaits
<1> QED
  BY <1>1, <1>2, SureIs

LEMMA SureNext ==
  ASSUME Inv', BlockInv', ReleasedInv'
  PROVE  /\ Sure(cache') /\ cache' \in CacheRec
         /\ \A o \in Objs : \A b \in On(cache', o) : cache'.buf[b].obj = o
<1>1. cache' \in CacheRec /\ Consistent(cache', table', proc') /\ BlocksExact(cache')
  BY DEF Inv, TypeInv, TypeOK, CacheInv, BlockInv
<1>2. \A q \in Procs : /\ proc'[q].pc # "readclean"
                       /\ proc'[q].pc = "read" => IsStream(cache'.buf[proc'[q].buf].obj)
  BY DEF ReleasedInv, NoWaits
<1>3. \A o \in Objs : \A b \in On(cache', o) : cache'.buf[b].obj = o
  BY <1>1 DEF Consistent, Partition, On
<1> QED
  BY <1>1, <1>2, <1>3, SureIs

\* A new buffer of a block takes over what the device holds of it.
LEMMA LinkReadData ==
  ASSUME MemEnough, NEW p \in Procs, FreeSlots(p) # {}, NEW c0 \in CacheRec, NoRepeats(c0),
         NEW b \in Bufs, Unlisted(c0, b), NEW m,
         Kind[c0.buf[b].obj] = "cmd" => CreateBit(m), LinkAndRead(p, c0, b, m)
  PROVE  LET o == c0.buf[b].obj
             k == c0.buf[b].blk
         IN /\ cache'.disk = c0.disk /\ cache'.size = c0.size
            /\ cache'.buf[b].obj = o
            /\ IsFile(o) => /\ cache'.buf[b].blk = k /\ cache'.buf[b].dirty = c0.buf[b].dirty
                            /\ \/ cache'.buf[b].data = c0.disk[o][k]
                               \/ cache'.buf[b].data = c0.buf[b].data
                                  /\ (ZeroBits(m) \/ k >= c0.size[o])
<1> DEFINE c == Link(c0, b)
           o == c.buf[b].obj
           k == c.buf[b].blk
           e == ObjRead(c, b)
<1>1. c0.buf[b].obj \in Objs /\ c0.buf[b].blk \in Blks
  BY BufIsRec
<1>2. c \in CacheRec /\ o = c0.buf[b].obj /\ c.disk = c0.disk /\ c.size = c0.size
      /\ SameData(c0.buf[b], c.buf[b])
  <2>1. c.buf[b] = [c0.buf[b] EXCEPT !.lock = c0.buf[b].lock + 1] /\ c \in CacheRec
    BY <1>1, LinkEffect DEF Unlisted
  <2>2. c.buf[b].obj = c0.buf[b].obj
    BY <2>1, BufIsRec DEF BufRec
  <2>3. SameDisk(c0, c) /\ SameData(c0.buf[b], c.buf[b])
    BY ListData
  <2> QED
    BY <2>1, <2>2, <2>3 DEF SameDisk
<1>3. \/ cache' = Unlock(c, b) /\ (IsFile(o) => Beyond(c, o, k, m))
      \/ cache' = Unlock(e, b) /\ IsFile(o)
      \/ cache' = c /\ IsStream(o)
  <2>1. CASE IsFile(o)
    BY <2>1 DEF LinkAndRead, MemEnough, Return
  <2>2. CASE ~IsFile(o) /\ CreateBit(m)
    BY <2>2 DEF LinkAndRead, Return
  <2>3. CASE ~IsFile(o) /\ ~CreateBit(m)
    <3>1. Kind[o] = "con"
      BY <1>1, <1>2, <2>3, BufCacheAssumption, LenProperties DEF IsFile, Objs
    <3> QED
      BY <2>3, <3>1 DEF LinkAndRead, IsStream
  <2> QED
    BY <2>1, <2>2, <2>3
<1>4. k = c0.buf[b].blk /\ c.buf[b].dirty = c0.buf[b].dirty /\ c.buf[b].data = c0.buf[b].data
  BY <1>2 DEF SameData
<1> HIDE DEF c
<1>5. /\ e \in CacheRec /\ e.disk = c.disk /\ e.size = c.size /\ e.buf[b].obj = o
      /\ e.buf[b].blk = k /\ e.buf[b].dirty = c.buf[b].dirty
      /\ IsFile(o) => e.buf[b].data = c.disk[o][k]
  <2>1. e \in CacheRec /\ e.buf[b].obj = o
    BY <1>2, ObjReadEffect DEF Kept
  <2>2. /\ SameDisk(c, e) /\ e.buf[b].blk = k /\ e.buf[b].dirty = c.buf[b].dirty
        /\ IsFile(o) => e.buf[b].data = c.disk[o][k]
    BY <1>2, ObjReadData
  <2> QED
    BY <2>1, <2>2 DEF SameDisk
<1> HIDE DEF e
<1>6. ASSUME NEW x \in CacheRec
      PROVE  /\ Unlock(x, b).disk = x.disk /\ Unlock(x, b).size = x.size
             /\ Unlock(x, b).buf[b].obj = x.buf[b].obj
             /\ SameData(x.buf[b], Unlock(x, b).buf[b])
  <2>1. SameDisk(x, Unlock(x, b)) /\ SameData(x.buf[b], Unlock(x, b).buf[b])
    BY CountData
  <2>2. Unlock(x, b).buf[b] = [x.buf[b] EXCEPT !.lock = x.buf[b].lock - 1]
    BY UnlockEffect
  <2>3. Unlock(x, b).buf[b].obj = x.buf[b].obj
    BY <2>2, BufIsRec DEF BufRec
  <2> QED
    BY <2>1, <2>3 DEF SameDisk
<1>7. CASE cache' = Unlock(c, b) /\ (IsFile(o) => Beyond(c, o, k, m))
  BY <1>2, <1>4, <1>6, <1>7 DEF SameData, Beyond
<1>8. CASE cache' = Unlock(e, b) /\ IsFile(o)
  BY <1>2, <1>4, <1>5, <1>6, <1>8 DEF SameData
<1>9. CASE cache' = c /\ IsStream(o)
  BY <1>2, <1>9 DEF IsStream
<1> QED
  BY <1>3, <1>7, <1>8, <1>9

LEMMA BcreateQuiet ==
  ASSUME Disciplined, MemEnough, NEW p \in Procs, FreeSlots(p) # {}, Exact(cache),
         cache.unused # <<>>, Unlisted(cache, Last(cache.unused)),
         NEW o \in Objs, NEW k \in Blks, NEW m,
         IsFile(o) => Vacant(cache, o, k), IsFile(o) /\ ZeroBits(m) => k >= cache.size[o],
         Kind[o] = "cmd" => CreateBit(m), Bcreate(p, o, k, m),
         cache' \in CacheRec, \A n \in Objs : \A x \in On(cache', n) : cache'.buf[x].obj = n
  PROVE  Quiet(cache, cache')
<1> DEFINE c == Take(cache, o, k)
           b == Last(cache.unused)
<1>0. cache \in CacheRec /\ NoRepeats(cache) /\ Filed(cache) /\ DataExact(cache)
  BY DEF Exact, Sure, Filed
<1>1. /\ c \in CacheRec /\ NoRepeats(c) /\ b \in Bufs /\ b \in Range(cache.unused)
      /\ Range(c.unused) = Range(cache.unused) \ {b} /\ c.objbufs = cache.objbufs
      /\ \A x \in Bufs \ {b} : c.buf[x] = cache.buf[x]
      /\ c.buf[b].obj = o /\ c.buf[b].refcnt = 1 /\ c.buf[b].dirty = FALSE
      /\ c.buf[b].fresh = FALSE /\ c.buf[b].lock = cache.buf[b].lock /\ c.buf[b].data = 0
  BY <1>0, TakeEffect, ZenonT(60)
<1>2. SameDisk(cache, c) /\ c.buf[b].blk = k
  BY <1>0, TakeData
<1>3. LinkAndRead(p, c, b, m) /\ Near(cache, cache', b)
  BY <1>0, BcreateNear DEF Bcreate, MemEnough
<1> HIDE DEF c
<1>4. Unlisted(c, b) /\ Unlisted(cache, b)
  BY <1>1 DEF Unlisted, On
<1> HIDE DEF b
<1>5. LET n == c.buf[b].obj
          j == c.buf[b].blk
      IN /\ cache'.disk = c.disk /\ cache'.size = c.size
         /\ cache'.buf[b].obj = n
         /\ IsFile(n) => /\ cache'.buf[b].blk = j /\ cache'.buf[b].dirty = c.buf[b].dirty
                         /\ \/ cache'.buf[b].data = c.disk[n][j]
                            \/ cache'.buf[b].data = c.buf[b].data
                               /\ (ZeroBits(m) \/ j >= c.size[n])
  BY <1>1, <1>3, <1>4, LinkReadData
<1>6. cache'.disk = cache.disk /\ cache'.size = cache.size
  BY <1>2, <1>5 DEF SameDisk
<1>7. ASSUME NEW n \in Files, b \in On(cache', n)
      PROVE  /\ b \notin On(cache, n) /\ Vacant(cache, n, cache'.buf[b].blk)
             /\ cache'.buf[b].dirty = FALSE
             /\ cache'.buf[b].data = cache.disk[n][cache'.buf[b].blk]
  <2>1. n \in Objs /\ IsFile(n)
    BY DEF Files
  <2>2. n = o
    BY <1>1, <1>5, <1>7, <2>1
  <2>3. /\ cache'.buf[b].blk = k /\ cache'.buf[b].dirty = FALSE
        /\ \/ cache'.buf[b].data = cache.disk[o][k]
           \/ cache'.buf[b].data = 0 /\ (ZeroBits(m) \/ k >= cache.size[o])
    BY <1>1, <1>2, <1>5, <2>1, <2>2 DEF SameDisk
  <2>4. k >= cache.size[o] => cache.disk[o][k] = 0
    BY <1>0, <2>2 DEF DataExact
  <2> QED
    BY <1>4, <2>1, <2>2, <2>3, <2>4 DEF Unlisted
<1>8. \A n \in Files : b \notin On(cache, n)
  BY <1>4 DEF Unlisted, Files
<1>9. cache \in CacheRec /\ b \in Bufs /\ Near(cache, cache', b)
  BY <1>0, <1>1, <1>3 DEF b
<1>10. \A n \in Files : b \in On(cache', n) =>
         \/ b \in On(cache, n) /\ SameData(cache.buf[b], cache'.buf[b])
         \/ /\ b \notin On(cache, n) /\ Vacant(cache, n, cache'.buf[b].blk)
            /\ cache'.buf[b].dirty = FALSE
            /\ cache'.buf[b].data = cache.disk[n][cache'.buf[b].blk]
  BY <1>7
<1>11. \A n \in Files : b \in On(cache, n) /\ b \notin On(cache', n) => ~cache.buf[b].dirty
  BY <1>8
<1> QED
  BY <1>6, <1>9, <1>10, <1>11, NearQuiet

LEMMA HitQuiet ==
  ASSUME NEW c \in CacheRec, NoRepeats(c), NEW o \in Objs, NEW b \in Bufs, b \in On(c, o)
  PROVE  Quiet(c, Blookup(c, o, b))
<1> DEFINE d == Blookup(c, o, b)
<1>1. /\ d \in CacheRec /\ NoRepeats(d) /\ d.unused = c.unused
      /\ \A n \in Objs : On(d, n) = On(c, n)
      /\ SameOthers(c, d, b)
      /\ d.buf[b].obj = c.buf[b].obj /\ d.buf[b].lock = c.buf[b].lock
      /\ d.buf[b].dirty = c.buf[b].dirty /\ d.buf[b].data = c.buf[b].data
      /\ d.buf[b].fresh = FALSE
      /\ d.buf[b].refcnt = (c.buf[b].refcnt + 1) % RefMod
  BY BlookupEffect
<1>2. SameDisk(c, d) /\ d.buf[b].blk = c.buf[b].blk
  BY BlookupData
<1>3. Near(c, d, b)
  BY ListNear
<1> HIDE DEF d
<1>4. d.disk = c.disk /\ d.size = c.size /\ SameData(c.buf[b], d.buf[b])
  BY <1>1, <1>2 DEF SameDisk, SameData
<1>5. \A n \in Files : On(d, n) = On(c, n)
  BY <1>1 DEF Files
<1>6. Quiet(c, d)
  BY <1>1, <1>3, <1>4, <1>5, NearQuiet, ZenonT(60)
<1> QED
  BY <1>6 DEF d

\* Freeing a clean buffer, or one of a stream.
LEMMA FreeQuiet ==
  ASSUME NEW c \in CacheRec, NoRepeats(c), NEW b \in Bufs, b \notin Range(c.unused),
         Listed(c, b), ~c.buf[b].dirty \/ IsStream(c.buf[b].obj)
  PROVE  Quiet(c, Bfree(c, b))
<1> DEFINE d == Bfree(c, b)
<1>1. /\ d \in CacheRec /\ NoRepeats(d) /\ d.buf = c.buf
      /\ Range(d.unused) = Range(c.unused) \cup {b}
      /\ \A o \in Objs : On(d, o) = IF o = c.buf[b].obj THEN On(c, o) \ {b} ELSE On(c, o)
  BY BfreeEffect
<1>2. SameDisk(c, d) /\ Near(c, d, b)
  BY ListData, ListNear
<1> HIDE DEF d
<1>3. \A o \in Files : b \notin On(d, o)
  BY <1>1 DEF Listed, Files
<1>4. ASSUME NEW o \in Files, b \in On(c, o) PROVE ~c.buf[b].dirty
  <2>1. o \in Objs /\ IsFile(o)
    BY DEF Files
  <2> QED
    BY <1>4, <2>1 DEF Listed, IsStream
<1>5. Quiet(c, d)
  BY <1>1, <1>2, <1>3, <1>4, NearQuiet DEF SameDisk
<1> QED
  BY <1>5 DEF d

LEMMA QuietTwice ==
  ASSUME NEW c, NEW d, NEW e, Quiet(c, d), Quiet(d, e),
         \A o \in Files : On(d, o) = On(c, o)
  PROVE  Quiet(c, e)
<1>1. ASSUME NEW o \in Files, NEW b \in On(e, o), b \in On(d, o), SameData(d.buf[b], e.buf[b])
      PROVE  b \in On(c, o) /\ SameData(c.buf[b], e.buf[b])
  BY <1>1 DEF Quiet, SameData
<1>2. ASSUME NEW o \in Files, NEW b \in On(e, o), b \notin On(d, o), NEW k, Vacant(d, o, k)
      PROVE  b \notin On(c, o) /\ Vacant(c, o, k)
  BY <1>2 DEF Quiet, SameData, Vacant, On
<1>3. ASSUME NEW o \in Files, NEW b \in On(c, o) \ On(e, o) PROVE ~c.buf[b].dirty
  BY <1>3 DEF Quiet, SameData
<1> QED
  BY <1>1, <1>2, <1>3 DEF Quiet

\* Only the data of b counts, and its contents if it is a block of a file.
LEMMA TouchQuiet ==
  ASSUME NEW c \in CacheRec, NEW d \in CacheRec, NEW b \in Bufs, Listed(c, b),
         SameLists(c, d), SameOthers(c, d, b), d.disk = c.disk, d.size = c.size,
         SameData(c.buf[b], d.buf[b]) \/ IsStream(c.buf[b].obj)
  PROVE  Quiet(c, d) /\ \A o \in Files : On(d, o) = On(c, o)
<1>1. Near(c, d, b) /\ \A o \in Objs : On(d, o) = On(c, o)
  BY QuietNear DEF SameLists, On
<1>2. ASSUME NEW o \in Files, b \in On(c, o) PROVE SameData(c.buf[b], d.buf[b])
  <2>1. o \in Objs /\ IsFile(o)
    BY DEF Files
  <2> QED
    BY <1>2, <2>1 DEF Listed, IsStream
<1>3. \A o \in Files : On(d, o) = On(c, o)
  BY <1>1 DEF Files
<1>4. Quiet(c, d)
  BY <1>1, <1>2, <1>3, NearQuiet, ZenonT(60)
<1> QED
  BY <1>3, <1>4

\* bunrefp changes nothing that clients see.
LEMMA BunrefQuiet ==
  ASSUME NEW p \in Procs, NEW c, Filed(c), NEW b \in Bufs, b \notin Range(c.unused),
         Listed(c, b), Bunrefp(p, c, b)
  PROVE  Quiet(c, cache')
<1>0. c \in CacheRec /\ NoRepeats(c) /\ c.buf[b].lock \in Int
  BY BufIsRec DEF Filed
<1>1. CASE c.buf[b].lock # 0
  <2> DEFINE n == c.buf[b].lock + 1
             s == [c.buf[b] EXCEPT !.lock = n]
  <2>1. cache' = [c EXCEPT !.buf[b].lock = n]
    BY <1>1 DEF Bunrefp
  <2>2. n \in Int
    BY <1>0
  <2> HIDE DEF n
  <2>3. /\ SameLists(c, cache') /\ cache'.buf = [c.buf EXCEPT ![b] = s]
        /\ cache'.disk = c.disk /\ cache'.size = c.size
    BY <1>0, <2>1 DEF CacheRec, SameLists
  <2>4. SameData(c.buf[b], s) /\ s \in BufRec
    BY <1>0, <2>2, BufIsRec, RecType, SMTT(60) DEF BufRec, SameData
  <2> HIDE DEF s
  <2>5. cache'.buf[b] = s /\ SameOthers(c, cache', b)
    BY <1>0, <2>3, CacheParts DEF SameOthers
  <2>6. cache' \in CacheRec
    <3>1. [c EXCEPT !.buf[b] = s] \in CacheRec
      BY <1>0, <2>4, BufType
    <3>2. cache' = [c EXCEPT !.buf[b] = s]
      BY <2>1 DEF s
    <3> QED
      BY <3>1, <3>2
  <2> QED
    BY <1>0, <2>3, <2>4, <2>5, <2>6, TouchQuiet
<1>2. CASE c.buf[b].lock = 0
  <2> DEFINE d == Unref(c, b)
  <2>1. cache' = (IF Reclaims(d, b) THEN Bfree(d, b) ELSE d)
    BY <1>2 DEF Bunrefp
  <2>2. d \in CacheRec /\ SameLists(c, d) /\ SameOthers(c, d, b)
    BY <1>0, RefEffect
  <2>3. SameDisk(c, d) /\ SameData(c.buf[b], d.buf[b]) /\ d.buf[b].obj = c.buf[b].obj
    BY <1>0, CountData
  <2> HIDE DEF d
  <2>4. Quiet(c, d) /\ \A o \in Files : On(d, o) = On(c, o)
    BY <1>0, <2>2, <2>3, TouchQuiet DEF SameDisk
  <2>5. NoRepeats(d) /\ b \notin Range(d.unused) /\ Listed(d, b)
    BY <1>0, <2>2, <2>3 DEF SameLists, NoRepeats, Listed, On
  <2>6. CASE Reclaims(d, b)
    <3>1. Quiet(d, Bfree(d, b))
      BY <2>2, <2>5, <2>6, FreeQuiet DEF Reclaims
    <3>2. cache' = Bfree(d, b)
      BY <2>1, <2>6
    <3> QED
      BY <2>4, <3>1, <3>2, QuietTwice
  <2>7. CASE ~Reclaims(d, b)
    BY <2>1, <2>4, <2>7
  <2> QED
    BY <2>6, <2>7
<1> QED
  BY <1>1, <1>2

-----------------------------------------------------------------------------
(* Every step is one of the store's, or none.                                *)

Known  == Inv /\ BlockInv /\ ReleasedInv
Stores == DataInv' /\ StoreStep(cache, cache')

LEMMA KnownParts ==
  ASSUME Known, DataInv, Known'
  PROVE  /\ Exact(cache) /\ Filed(cache) /\ NoRepeats(cache) /\ cache \in CacheRec
         /\ Sure(cache') /\ cache' \in CacheRec
         /\ \A o \in Objs : \A b \in On(cache', o) : cache'.buf[b].obj = o
<1>1. Sure(cache)
  BY SureNow DEF Known
<1>2. /\ Sure(cache') /\ cache' \in CacheRec
      /\ \A o \in Objs : \A b \in On(cache', o) : cache'.buf[b].obj = o
  BY SureNext DEF Known
<1> QED
  BY <1>1, <1>2 DEF Exact, Sure, Filed, DataInv

LEMMA QuietStores ==
  ASSUME Known, DataInv, Known', ZeroPending', Quiet(cache, cache')
  PROVE  Stores
<1>1. Exact(cache) /\ Sure(cache')
  BY KnownParts
<1>2. Exact(cache') /\ SameStore(cache, cache')
  BY <1>1, QuietStore
<1> QED
  BY <1>2 DEF Stores, DataInv, Exact, StoreStep

\* bcreate waits for a free descriptor alone.
LEMMA ZeroAlone ==
  ASSUME Known, NEW p \in Procs, cpu \in {Idle, p}, NEW r, Moves(proc, p, r, proc'),
         r.pc = "alloc" /\ IsFile(r.obj) /\ ZeroBits(r.mode) => r.blk >= cache'.size[r.obj]
  PROVE  ZeroPending'
<1>1. \A q \in Procs \ {p} : proc[q].pc # "alloc"
  <2>1. \A q \in Procs : proc[q].pc \in CleaningPcs => cpu = q
    BY DEF Known, Inv, CacheInv, Running
  <2>2. Idle \notin Procs
    BY BufCacheAssumption
  <2> QED
    BY <2>1, <2>2 DEF CleaningPcs
<1>2. \A q \in Procs : proc'[q] = IF q = p THEN r ELSE proc[q]
  BY DEF Moves, Known, Inv, TypeInv, TypeOK
<1> QED
  BY <1>1, <1>2 DEF ZeroPending

LEMMA ZeroGone ==
  ASSUME Known, NEW p \in Procs, cpu \in {Idle, p}, NEW pcs, GoesTo(p, pcs), "alloc" \notin pcs
  PROVE  ZeroPending'
<1>1. PICK r : r.pc \in pcs /\ Moves(proc, p, r, proc')
  BY DEF GoesTo
<1>2. r.pc # "alloc"
  BY <1>1
<1> QED
  BY <1>1, <1>2, ZeroAlone

LEMMA BrefStores ==
  ASSUME Disciplined, MemEnough, NoRecreate, Known, DataInv, Known', NEW p \in Procs,
         NEW o \in Objs, NEW k \in Blks, NEW m \in 0..3,
         BrefHit(p, o, k, m) \/ BrefMiss(p, o, k, m)
  PROVE  Stores
<1>0. /\ cpu = Idle /\ cpu \in {Idle, p} /\ FreeSlots(p) # {} /\ UNCHANGED <<sy, restart>>
      /\ Kind[o] = "cmd" => CreateBit(m)
      /\ IsFile(o) /\ ZeroBits(m) => k >= cache.size[o]
  BY DEF BrefHit, BrefMiss, MayBref, AtUser, Disciplined, NoRecreate
<1>1. /\ Exact(cache) /\ Filed(cache) /\ NoRepeats(cache) /\ cache \in CacheRec
      /\ Sure(cache') /\ cache' \in CacheRec
      /\ \A n \in Objs : \A b \in On(cache', n) : cache'.buf[b].obj = n
  BY KnownParts
<1>2. Sound(cache, table, proc)
  BY <1>0, NowSound DEF Known
<1>3. CASE BrefHit(p, o, k, m)
  <2>1. PICK i \in Matches(cache, o, k) :
          Return(p, Blookup(cache, o, cache.objbufs[o][i]), cache.objbufs[o][i])
    BY <1>3 DEF BrefHit
  <2> DEFINE b == cache.objbufs[o][i]
  <2>2. b \in Bufs /\ b \in On(cache, o)
    <3>1. cache.objbufs[o] \in Seq(Bufs) /\ i \in DOMAIN cache.objbufs[o]
      BY <1>1 DEF CacheRec, Matches
    <3> QED
      BY <3>1, RangeIs DEF On
  <2>3. cache' = Blookup(cache, o, b) /\ Moves(proc, p, NoCall, proc') /\ NoCall.pc = "user"
    BY <1>0, <2>1 DEF Return, Moves, NoCall
  <2> HIDE DEF b, NoCall
  <2>4. Quiet(cache, cache')
    BY <1>1, <2>2, <2>3, HitQuiet
  <2>5. ZeroPending'
    BY <1>0, <2>3, ZeroAlone
  <2> QED
    BY <2>4, <2>5, QuietStores
<1>4. CASE BrefMiss(p, o, k, m)
  <2>1. IsFile(o) => Vacant(cache, o, k)
    <3> SUFFICES ASSUME IsFile(o), NEW b \in Range(cache.objbufs[o]), cache.buf[b].blk = k
                 PROVE  FALSE
      BY DEF Vacant
    <3>1. Matches(cache, o, k) = {}
      BY <1>4 DEF BrefMiss, IsStream
    <3>2. PICK i \in DOMAIN cache.objbufs[o] : cache.objbufs[o][i] = b
      BY DEF Range
    <3>3. i \in Matches(cache, o, k)
      BY <3>2 DEF Matches, IsStream
    <3> QED
      BY <3>1, <3>3
  <2>2. CASE cache.unused # <<>>
    <3>1. Bcreate(p, o, k, m)
      BY <1>4, <2>2 DEF BrefMiss
    <3>2. Unlisted(cache, Last(cache.unused))
      <4>1. Last(cache.unused) \in Range(cache.unused) /\ Last(cache.unused) \in Bufs
        BY <1>1, <2>2, FrontRange, CacheParts DEF NoRepeats
      <4> QED
        BY <1>2, <4>1, WhereListed
    <3>3. Quiet(cache, cache')
      BY <1>0, <1>1, <2>1, <2>2, <3>1, <3>2, BcreateQuiet
    <3>4. \E r : r.pc \in {"user", "read"} /\ Moves(proc, p, r, proc')
      BY <1>0, <1>1, <2>2, <3>1, <3>2, BcreateNear
    <3>5. ZeroPending'
      BY <1>0, <3>4, ZeroGone DEF GoesTo
    <3> QED
      BY <3>3, <3>5, QuietStores
  <2>3. CASE cache.unused = <<>>
    <3> DEFINE r == [NoCall EXCEPT !.pc = "alloc", !.obj = o, !.blk = k, !.mode = m]
    <3>1. cache' = cache /\ Moves(proc, p, r, proc') /\ r.obj = o /\ r.blk = k /\ r.mode = m
      BY <1>4, <2>3 DEF BrefMiss, Moves, NoCall
    <3> HIDE DEF r
    <3>2. ZeroPending'
      BY <1>0, <3>1, ZeroAlone
    <3>3. Quiet(cache, cache')
      BY <3>1 DEF Quiet, SameData
    <3> QED
      BY <3>2, <3>3, QuietStores
  <2> QED
    BY <2>2, <2>3
<1> QED
  BY <1>3, <1>4

LEMMA KernelStores ==
  ASSUME Disciplined, MemEnough, Known, DataInv, Known', NEW p \in Procs, KernelStep(p)
  PROVE  Stores
<1>0. cpu = p /\ cpu \in {Idle, p} /\ proc[p].pc \in {"alloc", "forget"}
      /\ (AllocEnd(p) \/ ForgetEnd(p)) /\ UNCHANGED <<sy, restart>>
  BY DEF KernelStep, AllocEnd, DataEnd, ReadEnd, WriteEnd, ForgetEnd, Known, ReleasedInv, NoWaits
<1>1. /\ Exact(cache) /\ Filed(cache) /\ NoRepeats(cache) /\ cache \in CacheRec
      /\ Sure(cache') /\ cache' \in CacheRec
      /\ \A n \in Objs : \A b \in On(cache', n) : cache'.buf[b].obj = n
  BY KnownParts
<1>2. Sound(cache, table, proc)
  BY <1>0, NowSound DEF Known
<1>3. CASE Fail(p, cache)
  <2>1. cache' = cache /\ Moves(proc, p, NoCall, proc') /\ NoCall.pc = "user"
    BY <1>3 DEF Fail, Moves, NoCall
  <2> HIDE DEF NoCall
  <2>2. ZeroPending'
    BY <1>0, <2>1, ZeroAlone
  <2>3. Quiet(cache, cache')
    BY <2>1 DEF Quiet, SameData
  <2> QED
    BY <2>2, <2>3, QuietStores
<1>4. CASE AllocEnd(p) /\ cache.unused # <<>>
  <2> DEFINE o == proc[p].obj
             k == proc[p].blk
             m == proc[p].mode
  <2>1. Unlisted(cache, Last(cache.unused))
    <3>1. Last(cache.unused) \in Range(cache.unused) /\ Last(cache.unused) \in Bufs
      BY <1>1, <1>4, FrontRange, CacheParts DEF NoRepeats
    <3> QED
      BY <1>2, <3>1, WhereListed
  <2>2. Bcreate(p, o, k, m) /\ proc[p].pc = "alloc"
    BY <1>4 DEF AllocEnd
  <2>3. o \in Objs /\ k \in Blks /\ FreeSlots(p) # {} /\ (Kind[o] = "cmd" => CreateBit(m))
    BY <2>2 DEF Known, Inv, TypeInv, TypeOK, CacheInv, BrefPending
  <2>4. /\ IsFile(o) => Vacant(cache, o, k)
        /\ IsFile(o) /\ ZeroBits(m) => k >= cache.size[o]
    BY <2>2 DEF Known, BlockInv, BlockPending, DataInv, ZeroPending
  <2> HIDE DEF o, k, m
  <2>5. Quiet(cache, cache')
    BY <1>1, <1>4, <2>1, <2>2, <2>3, <2>4, BcreateQuiet
  <2>6. \E r : r.pc \in {"user", "read"} /\ Moves(proc, p, r, proc')
    BY <1>1, <1>4, <2>1, <2>2, <2>3, BcreateNear
  <2>7. ZeroPending'
    BY <1>0, <2>6, ZeroGone DEF GoesTo
  <2> QED
    BY <2>5, <2>7, QuietStores
<1> QED
  BY <1>0, <1>3, <1>4 DEF AllocEnd, ForgetEnd

LEMMA CleanupStores ==
  ASSUME Disciplined, Known, DataInv, Known', CleanupStep
  PROVE  Stores
<1>0. cpu \in Procs /\ proc[cpu].pc \in {"alloc", "forget"} /\ UNCHANGED proc
  BY DEF CleanupStep, Cleaning, CleaningPcs, Known, ReleasedInv, NoWaits
<1>1. Filed(cache) /\ NoRepeats(cache) /\ cache \in CacheRec
  BY KnownParts
<1>2. Sound(cache, table, proc)
  BY <1>0, QuietSound DEF Known
<1>3. PICK o \in Objs : \E i \in Victims(cache, o) : cache' = Bfree(cache, cache.objbufs[o][i])
  BY DEF CleanupStep
<1>4. PICK i \in Victims(cache, o) : cache' = Bfree(cache, cache.objbufs[o][i])
  BY <1>3
<1> DEFINE b == cache.objbufs[o][i]
<1>5. b \in Bufs /\ b \in On(cache, o) /\ ~cache.buf[b].dirty
  <2>1. cache.objbufs[o] \in Seq(Bufs) /\ i \in DOMAIN cache.objbufs[o]
    BY <1>1 DEF CacheRec, Victims
  <2> QED
    BY <2>1, RangeIs DEF On, Victims, Freeable
<1>6. cache' = Bfree(cache, b)
  BY <1>4
<1> HIDE DEF b
<1>7. b \notin Range(cache.unused) /\ Listed(cache, b)
  BY <1>2, <1>5, WhereListed
<1>8. Quiet(cache, cache')
  BY <1>1, <1>5, <1>6, <1>7, FreeQuiet
<1>9. cache'.size = cache.size
  BY <1>8 DEF Quiet
<1>10. ZeroPending'
  BY <1>0, <1>9 DEF DataInv, ZeroPending
<1> QED
  BY <1>8, <1>10, QuietStores

\* What a client or a write does to buffer b of its table.
LEMMA TouchSure ==
  ASSUME NEW c, Sure(c), NEW b \in Bufs, NEW d, LastUse(c, d, b), Filed(d)
  PROVE  Sure(d)
<1>1. ASSUME NEW o \in Files, NEW x \in On(d, o) PROVE d.buf[x].lock = 0
  <2>1. x \in On(c, o)
    BY <1>1 DEF LastUse, SameLists, On
  <2>2. o \in Objs /\ x \in Bufs /\ c.buf[x].lock = 0
    BY <1>1, <2>1, CacheParts DEF Sure, FileLocks, Filed, Files
  <2> QED
    BY <2>2 DEF LastUse, SameOthers, Kept
<1> QED
  BY <1>1 DEF Sure, FileLocks

LEMMA ModifyStores ==
  ASSUME NEW c, Exact(c), NEW b \in Bufs, Listed(c, b),
         IsFile(c.buf[b].obj) => c.buf[b].data < MaxVersion,
         NEW d, d = Bdirty(Modify(c, b), b), Sure(d)
  PROVE  Exact(d) /\ StoreStep(c, d)
<1>0. c \in CacheRec /\ c.buf[b].obj \in Objs /\ c.buf[b].blk \in Blks /\ b \in On(c, c.buf[b].obj)
  BY BufIsRec DEF Exact, Sure, Filed, Listed
<1>1. CASE IsFile(c.buf[b].obj)
  <2>1. c.buf[b].obj \in Files
    BY <1>0, <1>1 DEF Files
  <2>2. Exact(d) /\ WriteStore(c, d, c.buf[b].obj, c.buf[b].blk)
    BY <1>0, <1>1, <2>1, ModifyStore
  <2> QED
    BY <1>0, <2>1, <2>2 DEF StoreStep
<1>2. CASE ~IsFile(c.buf[b].obj)
  <2>1. d \in CacheRec /\ SameLists(c, d) /\ SameOthers(c, d, b)
    BY <1>0, ModifyEffect
  <2>2. d.disk = c.disk /\ d.size = c.size
    BY <1>0, ModifyData
  <2>3. Quiet(c, d)
    BY <1>0, <1>2, <2>1, <2>2, TouchQuiet DEF IsStream
  <2> QED
    BY <2>3, QuietStore DEF StoreStep
<1> QED
  BY <1>1, <1>2

LEMMA CleanQuiet ==
  ASSUME NEW c, Exact(c), NEW b \in Bufs, Listed(c, b), IsStream(c.buf[b].obj)
  PROVE  /\ BwriteClean(c, b) \in CacheRec /\ SameLists(c, BwriteClean(c, b))
         /\ Quiet(c, BwriteClean(c, b)) /\ \A o \in Files : On(BwriteClean(c, b), o) = On(c, o)
<1> DEFINE d == BwriteClean(c, b)
<1>0. c \in CacheRec /\ c.buf[b].obj \in Objs /\ c.buf[b].blk \in Blks
  BY BufIsRec DEF Exact, Sure, Filed
<1>1. d \in CacheRec /\ SameLists(c, d) /\ SameOthers(c, d, b)
  BY <1>0, WriteEffect
<1>2. d.disk = c.disk /\ d.size = c.size
  BY <1>0, CleanData
<1> HIDE DEF d
<1>3. Quiet(c, d) /\ \A o \in Files : On(d, o) = On(c, o)
  BY <1>0, <1>1, <1>2, TouchQuiet
<1> QED
  BY <1>1, <1>3 DEF d

LEMMA WriteStores ==
  ASSUME NEW c, Exact(c), NEW b \in Bufs, Listed(c, b), b \notin Range(c.unused),
         NEW d, d = Written(c, b), Sure(d)
  PROVE  Exact(d) /\ StoreStep(c, d)
<1>0. c \in CacheRec /\ c.buf[b].obj \in Objs /\ c.buf[b].blk \in Blks /\ b \in On(c, c.buf[b].obj)
  BY BufIsRec DEF Exact, Sure, Filed, Listed
<1>1. CASE IsFile(c.buf[b].obj)
  <2>1. c.buf[b].obj \in Files
    BY <1>0, <1>1 DEF Files
  <2>2. Exact(d) /\ FlushStore(c, d, c.buf[b].obj, c.buf[b].blk)
    BY <1>0, <2>1, FlushStores
  <2> QED
    BY <1>0, <2>1, <2>2 DEF StoreStep
<1>2. CASE ~IsFile(c.buf[b].obj)
  <2>1. d = BwriteClean(c, b)
    BY <1>2 DEF Written, ObjWrite, IsStream
  <2>2. Quiet(c, d)
    BY <1>2, <2>1, CleanQuiet DEF IsStream
  <2> QED
    BY <2>2, QuietStore DEF StoreStep
<1> QED
  BY <1>1, <1>2

\* A step of the store and one that clients do not see are a step of the store.
LEMMA StepQuiet ==
  ASSUME NEW c, NEW d, NEW e, StoreStep(c, d), SameStore(d, e)
  PROVE  StoreStep(c, e)
<1>1. Seen(e) = Seen(d) /\ Device(e) = Device(d)
  BY DEF SameStore
<1>2. CASE SameStore(c, d)
  BY <1>1, <1>2 DEF StoreStep, SameStore
<1>3. CASE \E o \in Files, k \in Blks : WriteStore(c, d, o, k) \/ FlushStore(c, d, o, k)
  <2>1. PICK o \in Files, k \in Blks : WriteStore(c, d, o, k) \/ FlushStore(c, d, o, k)
    BY <1>3
  <2>2. WriteStore(c, d, o, k) => WriteStore(c, e, o, k)
    BY <1>1 DEF WriteStore
  <2>3. FlushStore(c, d, o, k) => FlushStore(c, e, o, k)
    BY <1>1 DEF FlushStore
  <2> QED
    BY <2>1, <2>2, <2>3 DEF StoreStep
<1> QED
  BY <1>2, <1>3 DEF StoreStep

LEMMA UserBufStores ==
  ASSUME Disciplined, MemEnough, Known, DataInv, Known', NEW p \in Procs, NEW b \in Bufs,
         Bunref(p, b) \/ StoreDirty(p, b) \/ Bdunref(p, b) \/ Bwrite(p, b) \/ Bsend(p, b)
  PROVE  Stores
<1>0. /\ AtUser(p) /\ b \in HeldBy(p) /\ cpu = Idle /\ cpu \in {Idle, p}
      /\ proc[p].pc = "user" /\ proc[p].pc # "data" /\ proc[p] \in ProcRec
  BY DEF Bunref, StoreDirty, Bdunref, Bwrite, Bsend, AtUser, Known, Inv, TypeInv, TypeOK, ProcRec
<1>1. /\ Exact(cache) /\ Sure(cache) /\ Filed(cache) /\ Sure(cache') /\ cache' \in CacheRec
  BY KnownParts DEF Exact
<1>2. Sound(cache, table, proc)
  BY <1>0, NowSound DEF Known
<1>3. /\ LastUse(cache, cache, b) /\ LastUse(cache, Written(cache, b), b)
      /\ MayModify(b) => LastUse(cache, Bdirty(Modify(cache, b), b), b)
  BY <1>0, <1>2, LastUses
<1>4. Listed(cache, b) /\ b \notin Range(cache.unused)
  BY <1>0, <1>2, WhereListed
<1>5. IsFile(cache.buf[b].obj) /\ MayModify(b) => cache.buf[b].data < MaxVersion
  BY DEF MayModify
<1>6. Exact(Written(cache, b)) /\ StoreStep(cache, Written(cache, b))
  <2> DEFINE d == Written(cache, b)
  <2>1. LastUse(cache, d, b) /\ Filed(d)
    BY <1>1, <1>3, <1>4, WrittenFiled
  <2>2. Sure(d)
    BY <1>1, <2>1, TouchSure
  <2>3. \A x : x = d => Exact(x) /\ StoreStep(cache, x)
    BY <1>1, <1>4, <2>2, WriteStores
  <2> QED
    BY <2>3
<1>7. ASSUME MayModify(b)
      PROVE  /\ Exact(Bdirty(Modify(cache, b), b))
             /\ StoreStep(cache, Bdirty(Modify(cache, b), b))
  <2> DEFINE d == Bdirty(Modify(cache, b), b)
  <2>1. LastUse(cache, d, b) /\ Filed(d)
    BY <1>1, <1>3, <1>4, <1>5, <1>7, MarkFiled
  <2>2. Sure(d)
    BY <1>1, <2>1, TouchSure
  <2>3. \A x : x = d => Exact(x) /\ StoreStep(cache, x)
    BY <1>1, <1>4, <1>5, <1>7, <2>2, ModifyStores
  <2> QED
    BY <2>3
<1>8. ASSUME NEW c, LastUse(cache, c, b), Exact(c), StoreStep(cache, c), Bunrefp(p, c, b)
      PROVE  Stores
  <2>1. Filed(c) /\ b \notin Range(c.unused) /\ Listed(c, b)
    BY <1>4, <1>8 DEF Exact, Sure, LastUse, SameLists, Kept, Listed, On
  <2>2. Quiet(c, cache')
    BY <1>8, <2>1, BunrefQuiet
  <2>3. Exact(cache') /\ SameStore(c, cache')
    BY <1>1, <1>8, <2>2, QuietStore
  <2>4. StoreStep(cache, cache')
    BY <1>8, <2>3, StepQuiet
  <2>5. GoesTo(p, {"user", "exit", "spin"})
    BY <1>0, <1>1, <1>8, <2>1, BunrefFiled
  <2>6. ZeroPending'
    BY <1>0, <2>5, ZeroGone
  <2> QED
    BY <2>3, <2>4, <2>6 DEF Stores, DataInv, Exact
<1>9. ASSUME Exact(cache'), StoreStep(cache, cache'), UNCHANGED proc PROVE Stores
  <2>1. GoesTo(p, {"user"})
    <3>1. Moves(proc, p, proc[p], proc') /\ proc[p].pc \in {"user"}
      BY <1>0, <1>9 DEF Moves, Known, Inv, TypeInv, TypeOK
    <3> QED
      BY <3>1 DEF GoesTo
  <2>2. ZeroPending'
    BY <1>0, <2>1, ZeroGone
  <2> QED
    BY <1>9, <2>2 DEF Stores, DataInv, Exact
<1>10. CASE Bunref(p, b)
  <2>1. StoreStep(cache, cache)
    BY DEF StoreStep, SameStore
  <2> QED
    BY <1>1, <1>3, <1>8, <1>10, <2>1 DEF Bunref
<1>11. CASE StoreDirty(p, b)
  BY <1>7, <1>9, <1>11 DEF StoreDirty
<1>12. CASE Bdunref(p, b)
  BY <1>3, <1>7, <1>8, <1>12 DEF Bdunref
<1>13. CASE Bwrite(p, b)
  BY <1>6, <1>9, <1>13 DEF Bwrite, WriteWaits, MemEnough
<1>14. CASE Bsend(p, b)
  BY <1>3, <1>6, <1>8, <1>14 DEF Bsend, WriteWaits, MemEnough
<1> QED
  BY <1>10, <1>11, <1>12, <1>13, <1>14

LEMMA UserStores ==
  ASSUME Disciplined, MemEnough, NoRecreate, Known, DataInv, Known', NEW p \in Procs, UserStep(p)
  PROVE  Stores
<1>0. /\ Exact(cache) /\ Sure(cache) /\ Filed(cache) /\ NoRepeats(cache) /\ cache \in CacheRec
      /\ Sure(cache') /\ cache' \in CacheRec
  BY KnownParts DEF Exact
<1>1. CASE \E o \in Objs, k \in Blks, m \in 0..3 : BrefHit(p, o, k, m) \/ BrefMiss(p, o, k, m)
  BY <1>1, BrefStores
<1>2. CASE \E b \in Bufs : Bunref(p, b) \/ StoreDirty(p, b) \/ Bdunref(p, b)
                           \/ Bwrite(p, b) \/ Bsend(p, b)
  BY <1>2, UserBufStores
<1>3. ASSUME NEW pc \in {"forget", "exit", "dead", "user"}, Goto(p, pc), cpu = Idle,
             UNCHANGED cache
      PROVE  Stores
  <2> DEFINE r == [proc[p] EXCEPT !.pc = pc]
  <2>1. Moves(proc, p, r, proc') /\ r.pc = pc
    BY <1>3 DEF Goto, Moves, Known, Inv, TypeInv, TypeOK
  <2> HIDE DEF r
  <2>2. ZeroPending'
    BY <1>3, <2>1, ZeroAlone
  <2>3. Quiet(cache, cache')
    BY <1>3 DEF Quiet, SameData
  <2> QED
    BY <2>2, <2>3, QuietStores
<1>4. cpu = Idle => Sound(cache, table, proc)
  BY NowSound DEF Known
<1>5. CASE ReadResume(p)
  <2> DEFINE b == proc[p].buf
             d == ObjRead(cache, b)
  <2>1. /\ cpu = Idle /\ cpu \in {Idle, p} /\ proc[p].pc = "read" /\ b \in Bufs
        /\ IsStream(cache.buf[b].obj)
    BY <1>5 DEF ReadResume, Known, Inv, TypeInv, HasBuffer, ReleasedInv, NoWaits
  <2>2. Return(p, Unlock(d, b), b) /\ FreeSlots(p) # {}
    BY <1>5, <2>1 DEF ReadResume, Known, Inv, CacheInv, BrefPending, ReadingPcs
  <2>3. cache' = Unlock(d, b) /\ Moves(proc, p, NoCall, proc') /\ NoCall.pc = "user"
    BY <2>2 DEF Return, Moves, NoCall
  <2>4. Listed(cache, b)
    <3>1. <<p, 0>> \in HoldersIn(table, proc, b)
      BY <2>1, ReaderSeat DEF ReadingPcs
    <3>2. b \notin Range(cache.unused)
      BY <1>4, <2>1, <3>1 DEF Sound, Used
    <3>3. b \notin InHand(proc)
      <4>1. OneReader(proc)
        BY <1>4, <2>1 DEF Sound
      <4> QED
        BY <2>1, <4>1 DEF OneReader, InHand, ReadingPcs
    <3>4. \E o \in Objs : b \in On(cache, o)
      <4>1. Partition(cache, InHand(proc)) /\ cache.buf[b].obj \in Objs
        BY <1>0, <2>1, BufIsRec DEF Known, Inv, CacheInv, Consistent
      <4> QED
        BY <2>1, <3>2, <3>3, <4>1 DEF Partition, On
    <3> QED
      BY <1>4, <2>1, <3>4, WhereListed
  <2>5. /\ d \in CacheRec /\ SameLists(cache, d) /\ SameOthers(cache, d, b)
        /\ d.disk = cache.disk /\ d.size = cache.size /\ d.buf[b].obj = cache.buf[b].obj
    <3>1. d \in CacheRec /\ SameLists(cache, d) /\ SameOthers(cache, d, b)
          /\ d.buf[b].obj = cache.buf[b].obj
      BY <1>0, <2>1, ObjReadEffect DEF Kept
    <3>2. SameDisk(cache, d)
      BY <1>0, <2>1, ObjReadData
    <3> QED
      BY <3>1, <3>2 DEF SameDisk
  <2> HIDE DEF b, d, NoCall
  <2>6. SameLists(d, cache') /\ SameOthers(d, cache', b)
    BY <2>1, <2>3, <2>5, UnlockEffect
  <2>7. cache'.disk = cache.disk /\ cache'.size = cache.size
    BY <2>1, <2>3, <2>5, CountData DEF SameDisk
  <2>8. SameLists(cache, cache') /\ SameOthers(cache, cache', b)
    BY <2>5, <2>6 DEF SameLists, SameOthers
  <2>9. Quiet(cache, cache')
    BY <1>0, <2>1, <2>4, <2>7, <2>8, TouchQuiet
  <2>10. ZeroPending'
    BY <2>1, <2>3, ZeroAlone
  <2> QED
    BY <2>9, <2>10, QuietStores
<1>6. CASE WriteResume(p)
  BY <1>6 DEF WriteResume, Known, ReleasedInv, NoWaits
<1>7. CASE Forget(p) \/ ExitBegin(p) \/ ExitEnd(p) \/ Spawn(p)
  BY <1>3, <1>7 DEF Forget, ExitBegin, ExitEnd, Spawn, AtUser
<1>8. CASE ExitStep(p)
  <2>1. cpu = Idle /\ cpu \in {Idle, p} /\ proc[p].pc # "data" /\ proc[p] \in ProcRec
    BY <1>8 DEF ExitStep, Known, Inv, TypeInv, TypeOK, ProcRec
  <2>2. PICK s \in Slots : table[p][s] # NULL /\ Bunrefp(p, cache, table[p][s])
    BY <1>8 DEF ExitStep
  <2> DEFINE b == table[p][s]
  <2>3. b \in Bufs /\ b \in HeldBy(p)
    BY <2>2 DEF Known, Inv, TypeInv, TypeOK, HeldBy
  <2>4. Listed(cache, b) /\ b \notin Range(cache.unused)
    BY <1>4, <2>1, <2>3, WhereListed
  <2>5. Quiet(cache, cache')
    BY <1>0, <2>2, <2>3, <2>4, BunrefQuiet
  <2>6. GoesTo(p, {"user", "exit", "spin"})
    BY <1>0, <2>1, <2>2, <2>3, <2>4, BunrefFiled
  <2>7. ZeroPending'
    BY <2>1, <2>6, ZeroGone
  <2> QED
    BY <2>5, <2>7, QuietStores
<1> QED
  BY <1>1, <1>2, <1>5, <1>6, <1>7, <1>8 DEF UserStep

LEMMA SyncerStores ==
  ASSUME Disciplined, MemEnough, Known, DataInv, Known', SyncerStep
  PROVE  Stores
<1>0. cpu \in {Idle, Syncer} /\ UNCHANGED proc
  BY DEF SyncerStep, SyTop, SyNextObj, SyEnd, SySkip, SyWrite, SyResume, SyWriteEnd
<1>1. /\ Exact(cache) /\ Filed(cache) /\ NoRepeats(cache) /\ cache \in CacheRec
      /\ Sure(cache') /\ cache' \in CacheRec
  BY KnownParts
<1>2. Sound(cache, table, proc)
  BY <1>0, QuietSound DEF Known
\* Nobody waits for a descriptor while the syncer runs.
<1>3. ZeroPending'
  <2>1. \A q \in Procs : proc[q].pc \in CleaningPcs => cpu = q
    BY DEF Known, Inv, CacheInv, Running
  <2>2. Idle \notin Procs /\ Syncer \notin Procs
    BY BufCacheAssumption
  <2>3. \A q \in Procs : proc[q].pc # "alloc"
    BY <1>0, <2>1, <2>2 DEF CleaningPcs
  <2> QED
    BY <1>0, <2>3 DEF ZeroPending
<1>4. CASE UNCHANGED cache
  <2>1. Quiet(cache, cache')
    BY <1>4 DEF Quiet, SameData
  <2> QED
    BY <1>3, <2>1, QuietStores
<1>5. CASE SyWrite
  <2> DEFINE b == sy.next
             r == cache.buf[b]
             c == BwriteClean(cache, b)
             e == ObjWrite(c, b, r.obj, r.blk)
  <2>1. /\ sy.pc = "scan" /\ b \in Bufs /\ b # NULL /\ sy.obj \in Objs /\ cache' = SyFree(e, b)
    BY <1>5, ConstantTypes DEF SyWrite, Known, Inv, TypeInv, TypeOK, MemEnough
  <2>2. b \in On(cache, sy.obj)
    BY <2>1 DEF Known, ReleasedInv, ScanInv, On
  <2>3. r.obj = sy.obj /\ b \notin Range(cache.unused) /\ Listed(cache, b)
    BY <1>2, <2>1, <2>2, OnListPlace, WhereListed
  <2>4. e = Written(cache, b)
    BY DEF Written
  <2>5. CASE IsCached(sy.obj)
    <3>1. cache' = Written(cache, b)
      BY <2>1, <2>4, <2>5 DEF SyFree
    <3>2. Exact(cache') /\ StoreStep(cache, cache')
      BY <1>1, <2>1, <2>3, <3>1, WriteStores
    <3> QED
      BY <1>3, <3>2 DEF Stores, DataInv, Exact
  <2>6. CASE ~IsCached(sy.obj)
    <3>1. IsStream(r.obj) /\ e = c
      BY <2>3, <2>6 DEF IsCached, IsStream, ObjWrite
    <3>2. /\ c \in CacheRec /\ SameLists(cache, c) /\ Quiet(cache, c)
          /\ \A o \in Files : On(c, o) = On(cache, o)
      BY <1>1, <2>1, <2>3, <3>1, CleanQuiet
    <3>3. c.buf[b].obj = r.obj
      <4>1. 0 \in Blks
        BY ConstantTypes
      <4>2. Kept(cache.buf[b], c.buf[b])
        BY <1>1, <2>1, <4>1, WriteEffect
      <4> QED
        BY <4>2 DEF Kept
    <3> HIDE DEF c, e
    <3>4. NoRepeats(c) /\ b \notin Range(c.unused) /\ Listed(c, b)
      BY <1>1, <2>3, <3>2, <3>3 DEF SameLists, NoRepeats, Listed, On
    <3>5. Quiet(c, Bfree(c, b))
      BY <2>1, <3>1, <3>2, <3>3, <3>4, FreeQuiet
    <3>6. cache' = Bfree(c, b)
      BY <2>1, <2>6, <3>1 DEF SyFree
    <3>7. Quiet(cache, cache')
      BY <3>2, <3>5, <3>6, QuietTwice
    <3> QED
      BY <1>3, <3>7, QuietStores
  <2> QED
    BY <2>5, <2>6
<1>6. ~SyWriteEnd
  BY DEF SyWriteEnd, Known, ReleasedInv, NoWaits
<1> QED
  BY <1>4, <1>5, <1>6 DEF SyncerStep, SyTop, SyNextObj, SyEnd, SySkip, SyResume

LEMMA NextStores ==
  Disciplined /\ MemEnough /\ NoRecreate /\ Known /\ DataInv /\ Known' /\ [Next]_vars => Stores
<1> SUFFICES ASSUME Disciplined, MemEnough, NoRecreate, Known, DataInv, Known', [Next]_vars
             PROVE  Stores
  OBVIOUS
<1>1. CASE \E p \in Procs : KernelStep(p) \/ UserStep(p)
  BY <1>1, KernelStores, UserStores
<1>2. CASE CleanupStep
  BY <1>2, CleanupStores
<1>3. CASE SyncerStep
  BY <1>3, SyncerStores
<1>4. CASE UNCHANGED vars
  <2>1. ZeroPending'
    BY <1>4 DEF vars, DataInv, ZeroPending
  <2>2. Quiet(cache, cache')
    BY <1>4 DEF vars, Quiet, SameData
  <2> QED
    BY <2>1, <2>2, QuietStores
<1> QED
  BY <1>1, <1>2, <1>3, <1>4 DEF Next

LEMMA InitStores == Init => DataInv /\ Store!Init
<1> SUFFICES ASSUME Init PROVE DataInv /\ Store!Init
  OBVIOUS
<1>1. \A o \in Objs : Range(cache.objbufs[o]) = {}
  BY DEF Init, Range
<1>2. /\ cache.disk = [o \in Objs |-> [k \in Blks |-> IF IsFile(o) /\ k < InitSize THEN 1 ELSE 0]]
      /\ cache.size = [o \in Objs |-> IF IsFile(o) THEN InitSize ELSE 0]
  BY DEF Init
<1>3. Files \subseteq Objs
  BY DEF Files
<1>4. DataInv
  <2>1. \A o \in Files, k \in Blks : k >= cache.size[o] => cache.disk[o][k] = 0
    <3>1. InitSize \in Nat /\ Blks \subseteq Nat
      BY BufCacheAssumption, ConstantTypes
    <3> QED
      BY <1>2, <1>3, <3>1 DEF Files
  <2>2. ZeroPending
    BY DEF Init, NoCall, ZeroPending
  <2> QED
    BY <1>1, <1>3, <2>1, <2>2 DEF DataInv, DataExact
<1>5. Content = [o \in Files |-> cache.disk[o]]
  <2>1. ASSUME NEW o \in Files, NEW k \in Blks
        PROVE  {b \in Range(cache.objbufs[o]) : cache.buf[b].blk = k /\ cache.buf[b].lock = 0} = {}
    BY <1>1, <1>3
  <2>2. Content = [o \in Files |-> [k \in Blks |-> cache.disk[o][k]]]
    BY <2>1 DEF Content
  <2>3. \A o \in Files : cache.disk[o] = [k \in Blks |-> cache.disk[o][k]]
    BY <1>2, <1>3
  <2> QED
    BY <2>2, <2>3
<1>6. [o \in Files |-> cache.disk[o]] \in [Files -> [Blks -> {0, 1}]]
  BY <1>2, <1>3
<1> QED
  BY <1>4, <1>5, <1>6 DEF Store!Init

LEMMA SeenIsContent ==
  Seen(cache) = Content /\ Device(cache) = [o \in Files |-> cache.disk[o]]
BY DEF Seen, Device, View, Copies, Content

LEMMA StoreSteps == Stores => [Store!Next]_(Store!vars)
<1> SUFFICES ASSUME Stores PROVE [Store!Next]_(Store!vars)
  OBVIOUS
<1> DEFINE x == Content
           y == [o \in Files |-> cache.disk[o]]
<1>1. Seen(cache) = x /\ Device(cache) = y
  BY SeenIsContent
<1>2. Seen(cache') = x' /\ Device(cache') = y'
  BY DEF Seen, Device, View, Copies, Content
<1> HIDE DEF x, y
<1>3. CASE SameStore(cache, cache')
  <2>1. x' = x /\ y' = y
    BY <1>1, <1>2, <1>3 DEF SameStore
  <2> QED
    BY <2>1 DEF Store!vars, x, y
<1>4. CASE \E o \in Files, k \in Blks :
             WriteStore(cache, cache', o, k) \/ FlushStore(cache, cache', o, k)
  <2>1. PICK o \in Files, k \in Blks :
          WriteStore(cache, cache', o, k) \/ FlushStore(cache, cache', o, k)
    BY <1>4
  <2>2. CASE WriteStore(cache, cache', o, k)
    <3>1. x' = [x EXCEPT ![o][k] = x[o][k] + 1] /\ y' = y
      BY <1>1, <1>2, <2>2 DEF WriteStore
    <3>2. Store!Write(o, k)
      BY <3>1 DEF Store!Write, x, y
    <3> QED
      BY <3>2 DEF Store!Next
  <2>3. CASE FlushStore(cache, cache', o, k)
    <3>1. y' = [y EXCEPT ![o][k] = x[o][k]] /\ x' = x
      BY <1>1, <1>2, <2>3 DEF FlushStore
    <3>2. Store!Flush(o, k)
      BY <3>1 DEF Store!Flush, x, y
    <3> QED
      BY <3>2 DEF Store!Next
  <2> QED
    BY <2>1, <2>2, <2>3
<1> QED
  BY <1>3, <1>4 DEF Stores, StoreStep

\* What the cache knows of the device: clean buffers of files hold what it
\* holds, and beyond the end of a file there is nothing.
THEOREM DataInvariant ==
  ASSUME Disciplined, MemEnough, NoRecreate
  PROVE  Spec => [](Known /\ DataInv)
<1>1. Spec => []Known
  BY ReleasedInvariant, PTL DEF Known
<1>2. Init => DataInv
  BY InitStores
<1>3. Known /\ DataInv /\ Known' /\ [Next]_vars => DataInv'
  BY NextStores DEF Stores
<1> QED
  BY <1>1, <1>2, <1>3, PTL DEF Spec

\* Freeing a clean buffer loses nothing: the device holds what it holds (bread,
\* bwrite, bcleanup).
THEOREM CacheIsCoherent ==
  ASSUME Disciplined, MemEnough, NoRecreate
  PROVE  Spec => []Coherent
<1>1. Known /\ DataInv => Coherent
  BY DEF DataInv, DataExact, Coherent, Dirty
<1> QED
  BY <1>1, DataInvariant, PTL

\* The cache implements the block store (ImplementsStore): whatever is mapped,
\* shared, cleaned up, written back, appended or left behind by a process that
\* exits, clients see an array of blocks that only their own writes change, and
\* the device is only ever given what they see.
THEOREM RefinesBlockStore ==
  ASSUME Disciplined, MemEnough, NoRecreate
  PROVE  Spec => ImplementsStore
<1>1. Init => Store!Init
  BY InitStores
<1>2. Known /\ DataInv /\ Known' /\ [Next]_vars => [Store!Next]_(Store!vars)
  BY NextStores, StoreSteps
<1>3. Spec => [](Known /\ DataInv)
  BY DataInvariant
<1> QED
  BY <1>1, <1>2, <1>3, PTL DEF Spec, ImplementsStore, Store!Spec
=============================================================================
