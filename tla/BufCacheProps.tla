---------------------------- MODULE BufCacheProps ----------------------------
(***************************************************************************)
(* What the buffer cache of BufCache.tla guarantees, and what the           *)
(* repository's documentation says of it.                                   *)
(***************************************************************************)
EXTENDS BufCache

Files == {o \in Objs : IsFile(o)}
Free  == Range(cache.unused)
Dirty(b) == cache.buf[b].dirty

ReadingPcs == {"data", "read", "readclean"}

\* Everybody who may use buffer b: the table entries that name it, and (slot 0)
\* a bread() that has created it and not returned.
Seats == Procs \X (0..TableSize)
HoldersIn(tab, pr, b) ==
  {h \in Seats : IF h[2] = 0 THEN pr[h[1]].pc \in ReadingPcs /\ pr[h[1]].buf = b
                             ELSE tab[h[1]][h[2]] = b}
Holders(b) == HoldersIn(table, proc, b)

\* The descriptors bcreate has popped and not yet put anywhere.
InHand(pr) == {pr[p].buf : p \in {q \in Procs : pr[q].pc = "data"}}

-----------------------------------------------------------------------------
Partition(c, hand) ==
  /\ IsInjective(c.unused)
  /\ \A o \in Objs : /\ IsInjective(c.objbufs[o])
                     /\ \A b \in Range(c.objbufs[o]) :
                          c.buf[b].obj = o /\ b \notin Range(c.unused) /\ b \notin hand
  /\ \A b \in hand : b \notin Range(c.unused)
  /\ \A b \in Bufs : \/ b \in Range(c.unused) \/ b \in hand
                     \/ b \in Range(c.objbufs[c.buf[b].obj])

\* Every descriptor is in exactly one list, once, and the list it is in is the
\* one of its obj field: bfree, blookup's reordering and the clean-up loop run
\* over the same links (buf.c bcreate, bfree, blookup).
PoolPartition == Partition(cache, InHand(proc))

\* No buffer a process still has in its table, or is reading, is in the free
\* list, whoever runs the clean-up loop or the syncer meanwhile (bcleanup,
\* sync_bufs, bunrefp).
HeldNotFree == \A b \in Free : Holders(b) = {}

\* The reference count of a buffer is the number of its users: it reaches 0
\* exactly when the last of them is gone, also when a process exits with
\* buffers mapped or maps one block twice (bref, bunrefp, fs_kill_proc).
RefcntExact == \A b \in Bufs \ Free : cache.buf[b].refcnt = Cardinality(Holders(b))

\* A file block has at most one buffer, so two clients of a block always share
\* it; bread creates one only after blookup found none (bread).
OneCopy == \A o \in Files : \A i, j \in DOMAIN cache.objbufs[o] :
  cache.buf[cache.objbufs[o][i]].blk = cache.buf[cache.objbufs[o][j]].blk => i = j

\* obj->dirtybufs counts the dirty buffers of the object: it neither drifts nor
\* wraps below 0 when bwrite, bsend and the syncer clean one buffer.
DirtyCount == \A o \in Objs :
  cache.dirtybufs[o] = Cardinality({b \in Range(cache.objbufs[o]) : Dirty(b)})

\* The syncer never sleeps on a dirty buffer nobody uses: every last release of
\* one wakes it, or asks a running syncer for another round ("Nothing more to
\* write. Sleep until restarted.", syncer).
DirtyScheduled == sy.pc = "sleep" =>
  \A b \in Bufs \ Free : Dirty(b) => cache.buf[b].refcnt > 0

\* The count of dirty buffers and the schedule of the writes go together: both
\* change at every mark, write and release (bwrite, SYNCER_RESTART).
DirtyExact == DirtyCount /\ DirtyScheduled

\* A buffer is locked only while its first read goes on; no lock is left behind
\* in the free list, where the next bcreate would wait for it (bread, bcreate).
LockedWhileRead == \A b \in Bufs : cache.buf[b].lock # 0 =>
  \E p \in Procs : proc[p].pc \in {"read", "readclean"} /\ proc[p].buf = b

\* A clean buffer holds what the device holds, unless it is being read or
\* written right now: cleaning up unused clean buffers loses nothing.
Coherent == \A o \in Files : \A b \in Range(cache.objbufs[o]) :
  \/ Dirty(b) \/ cache.buf[b].lock # 0
  \/ sy.pc \in {"write", "writeclean"} /\ sy.cur = b
  \/ \E p \in Procs : proc[p].pc \in {"write", "writeclean"} /\ proc[p].buf = b
  \/ cache.buf[b].data = cache.disk[o][cache.buf[b].blk]

\* A stream buffer in its object's list is in use or waits for the syncer:
\* blookup never finds it again, so an unused clean one would be lost for good
\* (the comment in bunrefp).
StreamReclaimed == \A o \in Objs \ Files : \A b \in Range(cache.objbufs[o]) :
  cache.buf[b].refcnt > 0 \/ Dirty(b)

-----------------------------------------------------------------------------
\* The cache as a block store: a client sees the buffer of the block once it is
\* read, else the device.
Content == [o \in Files |-> [k \in Blks |->
  LET bs == {b \in Range(cache.objbufs[o]) :
               cache.buf[b].blk = k /\ cache.buf[b].lock = 0}
  IN IF bs = {} THEN cache.disk[o][k] ELSE cache.buf[CHOOSE b \in bs : TRUE].data]]

Store == INSTANCE BlockStore
  WITH Files <- Files, Blks <- Blks, content <- Content,
       stable <- [o \in Files |-> cache.disk[o]]

\* Mapping, sharing, cleaning up, writing back and exiting never change what
\* clients see; the device only ever gets what they see.
ImplementsStore == Store!Spec

-----------------------------------------------------------------------------
(* The inductive invariant behind the properties of the pool and of the      *)
(* reference counts, for clients that overflow neither their table nor a     *)
(* reference count, do not keep dirty stream buffers and do not read the iod *)
(* file.                                                                     *)

Disciplined ==
  /\ Behaviours \cap {"hold_dirty", "overflow", "cmd_read", "wrap"} = {}
  /\ IsFiniteSet(Procs)

Reading(pr, b) == \E p \in Procs : pr[p].pc \in {"read", "readclean"} /\ pr[p].buf = b
NoSpin(pr) == \A p \in Procs : pr[p].pc # "spin"

\* The count of a buffer is right and a free buffer has no user.
Counted(c, tab, pr) == \A b \in Bufs :
  IF b \in Range(c.unused) THEN HoldersIn(tab, pr, b) = {}
                           ELSE c.buf[b].refcnt = Cardinality(HoldersIn(tab, pr, b))

\* A stream buffer to write has one user; one that was read is not dirty.
Streams(c) == \A b \in Bufs \ Range(c.unused) : IsStream(c.buf[b].obj) =>
  /\ c.buf[b].data # Line => ~c.buf[b].fresh /\ c.buf[b].refcnt <= 1
  /\ c.buf[b].dirty => c.buf[b].data # Line

\* No stream buffer is dirty while somebody uses it (BDUNREF).
DirtyStreamUnused(c, tab, pr) == \A b \in Bufs \ Range(c.unused) :
  IsStream(c.buf[b].obj) /\ c.buf[b].dirty => HoldersIn(tab, pr, b) = {}

\* A lock is held by the reader of the buffer and else by nobody.
Locks(c, pr) ==
  /\ \A b \in Bufs : c.buf[b].lock # 0 => Reading(pr, b)
  /\ NoSpin(pr) => \A b \in Bufs : c.buf[b].lock = IF Reading(pr, b) THEN 1 ELSE 0

\* Two processes never fill the same buffer.
OneReader(pr) == \A p, q \in Procs :
  pr[p].pc \in ReadingPcs /\ pr[q].pc \in ReadingPcs /\ pr[p].buf = pr[q].buf => p = q

\* A descriptor in hand has no other user yet.
Unshared(c, pr) == \A p \in Procs : pr[p].pc = "data" => c.buf[pr[p].buf].refcnt = 1

\* What holds of the cache, the tables and the processes after every step.
Consistent(c, tab, pr) ==
  /\ Partition(c, InHand(pr)) /\ Counted(c, tab, pr) /\ Streams(c)
  /\ DirtyStreamUnused(c, tab, pr) /\ Locks(c, pr) /\ OneReader(pr) /\ Unshared(c, pr)

\* Who is in the middle of kernel code has the processor.
Running ==
  /\ \A p \in Procs : proc[p].pc \in CleaningPcs \cup {"spin"} => cpu = p
  /\ sy.pc \in {"scan", "writeclean"} => cpu = Syncer

\* A bref under way has a free table entry waiting and remembers its request.
BrefPending == \A p \in Procs :
  /\ proc[p].pc \in ReadingPcs \cup {"alloc"} => FreeSlots(p) # {}
  /\ proc[p].pc \in {"alloc", "data"} =>
       (Kind[proc[p].obj] = "cmd" => CreateBit(proc[p].mode))
  /\ proc[p].pc = "data" => cache.buf[proc[p].buf].obj = proc[p].obj

\* A client has the buffer it writes in its table.
WritePending == \A p \in Procs :
  proc[p].pc \in {"write", "writeclean"} => proc[p].buf \in HeldBy(p)

\* The syncer frees what it writes only while it stays on the list it scans.
SyncerOnList ==
  /\ sy.pc = "scan" /\ IsStream(sy.obj) /\ sy.next # NULL =>
       sy.next \in Range(cache.objbufs[sy.obj])
  /\ sy.pc \in {"write", "writeclean"} => IsFile(sy.obj)

\* The conjunction that every step preserves.
CacheInv ==
  /\ Consistent(cache, table, proc)
  /\ Running /\ BrefPending /\ WritePending /\ SyncerOnList

-----------------------------------------------------------------------------
(* What the blocks of the files and the dirty buffers need on top of CacheInv *)

\* Block k of o has no buffer.
Vacant(c, o, k) == \A b \in Range(c.objbufs[o]) : c.buf[b].blk # k

\* One buffer per block; dirty buffers are counted, and are on a list.
BlocksExact(c) ==
  /\ \A o \in Files : \A a, b \in Range(c.objbufs[o]) : c.buf[a].blk = c.buf[b].blk => a = b
  /\ \A o \in Objs : c.dirtybufs[o] = Cardinality({b \in Range(c.objbufs[o]) : c.buf[b].dirty})
  /\ \A b \in Bufs : c.buf[b].dirty => b \in Range(c.objbufs[c.buf[b].obj])

\* Nobody else creates the buffer of a block while bcreate waits for memory.
BlockPending(c, pr) == \A p \in Procs :
  /\ pr[p].pc \in {"alloc", "data"} /\ IsFile(pr[p].obj) => Vacant(c, pr[p].obj, pr[p].blk)
  /\ pr[p].pc = "data" => c.buf[pr[p].buf].blk = pr[p].blk

BlockInv == BlocksExact(cache) /\ BlockPending(cache, proc)

\* With enough memory the only operation that a switch interrupts is the read
\* of a stream.
MemEnough == "mem_short" \notin Behaviours
NoWaits ==
  /\ sy.pc \in {"sleep", "top", "scan"}
  /\ \A p \in Procs :
       /\ proc[p].pc \notin {"data", "readclean", "write", "writeclean"}
       /\ proc[p].pc = "read" => IsStream(cache.buf[proc[p].buf].obj)

\* The position of b in the list l.
Place(l, b) == CHOOSE i \in DOMAIN l : l[i] = b

\* The syncer has still to come to buffer b of object o.
Ahead(o, b) ==
  \/ o > sy.obj
  \/ /\ o = sy.obj /\ sy.next # NULL
     /\ Place(cache.objbufs[o], sy.next) <= Place(cache.objbufs[o], b)

\* The syncer stays on the list it scans, passes no dirty buffer over, and has
\* no request noted while it sleeps.
ScanInv ==
  /\ sy.pc = "sleep" => ~restart
  /\ sy.pc = "scan" =>
       /\ sy.next # NULL => sy.next \in Range(cache.objbufs[sy.obj])
       /\ \A o \in Objs : \A b \in Range(cache.objbufs[o]) : Dirty(b) => Ahead(o, b)

ReleasedInv == NoWaits /\ ScanInv /\ DirtyScheduled /\ StreamReclaimed

\* Nobody asks for an empty block where there is one.
NoRecreate == "recreate" \notin Behaviours

\* Clean buffers of files hold what the device holds, which holds nothing
\* beyond the end of a file; a block to create is beyond it or to be read.
DataExact(c) ==
  /\ \A o \in Files : \A b \in Range(c.objbufs[o]) :
       ~c.buf[b].dirty => c.buf[b].data = c.disk[o][c.buf[b].blk]
  /\ \A o \in Files, k \in Blks : k >= c.size[o] => c.disk[o][k] = 0
ZeroPending == \A p \in Procs :
  proc[p].pc = "alloc" /\ IsFile(proc[p].obj) /\ ZeroBits(proc[p].mode) =>
    proc[p].blk >= cache.size[proc[p].obj]
DataInv == DataExact(cache) /\ ZeroPending

-----------------------------------------------------------------------------
\* A dirty buffer that nobody uses is written, whatever other clients do.
DirtyWritten == \A b \in Bufs :
  (b \notin Free /\ Dirty(b) /\ cache.buf[b].refcnt = 0) ~> (b \in Free \/ ~Dirty(b))

\* The clean-up loop, the syncer's walk over lists that it changes and its
\* `continue' for another round all end: the processor is given away again.
KernelYields == []<>(cpu = Idle)
=============================================================================
