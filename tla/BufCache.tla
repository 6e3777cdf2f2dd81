------------------------------ MODULE BufCache ------------------------------
(***************************************************************************)
(* The block buffer cache of the tensix kernel: kern/io/buf.c, the buffer   *)
(* system calls of kern/io/fs.c and the delayed-write daemon                *)
(* kern/io/syncer.c, in the cooperative configuration conf/generic.h.       *)
(*                                                                         *)
(* A process runs until it reaches a context switch, so one action is the   *)
(* code between two switches.  `cpu' names the actor inside a kernel loop    *)
(* that is spread over several actions (the syncer's scan, bcleanup_glob,   *)
(* a lock nobody can release); while it is set nobody else runs.            *)
(*                                                                         *)
(* A definition marked `fault:' is not part of the specification: it is a   *)
(* variant of the definition after it with a plausible programming error,   *)
(* used to see that the properties notice.                                  *)
(***************************************************************************)
EXTENDS SequencesExt, Integers

CONSTANTS
  Procs,       \* user processes
  Kind,        \* kinds of the objects of obj_pool.used, in list order
  NumBufs,     \* NUM_BUFS, descriptors in buffer_pool
  NumBlks,     \* block numbers 0..NumBlks-1 of a file
  TableSize,   \* BUFS_PER_PROC, entries of proc->buffers
  InitSize,    \* size of a file in blocks at start
  RefMod,      \* range of refcnt_t (256 for u8_t)
  MaxVersion,  \* bound: how often the contents of one block are replaced
  Behaviours   \* what clients and drivers do beyond the disciplined use

(***************************************************************************)
(* Behaviours a run may allow:                                             *)
(*  "hold_dirty"  a client keeps a stream buffer after marking it dirty, or *)
(*                writes into a line it read (else BDUNREF at once)         *)
(*  "overflow"    a client maps a block though its table is full            *)
(*  "recreate"    IO_CREATE, IO_NOWAIT or IO_ZERO on a block that exists    *)
(*  "cmd_read"    a client reads the write-only iod file                    *)
(*  "mem_short"   kmalloc fails: it runs bcleanup_glob first, bcreate then    *)
(*                gives up and wrapfs_make_path switches and tries again     *)
(*  "wrap"        a buffer is mapped more often than refcnt_t can count       *)
(***************************************************************************)
AllBehaviours == {"hold_dirty", "overflow", "recreate", "cmd_read", "mem_short", "wrap"}

Bufs  == 1..NumBufs
NULL  == 0
Objs  == 1..Len(Kind)
Blks  == 0..NumBlks-1
Slots == 1..TableSize
Line  == MaxVersion + 1      \* contents of a buffer filled by a stream read
Idle   == "idle"
Syncer == "syncer"

ASSUME BufCacheAssumption ==
  /\ NumBufs \in Nat \ {0} /\ NumBlks \in Nat \ {0} /\ TableSize \in Nat \ {0}
  /\ InitSize \in 0..NumBlks /\ MaxVersion \in Nat \ {0}
  /\ RefMod \in Nat /\ RefMod > 1
  /\ Kind \in Seq({"file", "con", "cmd"}) /\ Kind # <<>>
  /\ Idle \notin Procs /\ Syncer \notin Procs
  /\ Behaviours \subseteq AllBehaviours

\* "file": random access and cached (wrapfs); "con": console stream whose read
\* polls for input; "cmd": the iod file, a stream that cannot be read.
IsFile(o)   == Kind[o] = "file"
IsStream(o) == ~IsFile(o)
IsCached(o) == IsFile(o)

\* Mode bits of bref(); IO_ZERO is 3, that is both of them.
CreateBit(m) == m % 2 = 1
NowaitBit(m) == m \div 2 = 1
ZeroBits(m)  == m # 0

VARIABLES
  cache,    \* pool, object lists, descriptors, counters, backing store
  table,    \* proc->buffers
  proc,     \* where each process is
  sy,       \* locals of the syncer loop and whether it sleeps
  restart,  \* syncer_restart
  cpu       \* Idle, or who runs on inside the kernel

vars == <<cache, table, proc, sy, restart, cpu>>

-----------------------------------------------------------------------------
(* Operations on the cache record, composed in code order by the actions.  *)

Without(l, b) == IF b \in Range(l)
                 THEN RemoveAt(l, CHOOSE i \in DOMAIN l : l[i] = b)
                 ELSE l

\* fault: bfree forgets DEQUEUE_REMOVE.
BfreeNotRemoved(c, b) == [c EXCEPT !.unused = Append(@, b)]

\* bfree: off the object's list, onto the end of the free list.
Bfree(c, b) == [c EXCEPT !.objbufs[c.buf[b].obj] = Without(@, b),
                         !.unused = Append(@, b)]

\* _BREF and _BUNREF on an u8_t counter.
Ref(c, b)   == [c EXCEPT !.buf[b].refcnt = (@ + 1) % RefMod]
Unref(c, b) == [c EXCEPT !.buf[b].refcnt = (@ + RefMod - 1) % RefMod]

\* fault: the release of the lock is forgotten.
UnlockNot(c, b) == c

Unlock(c, b) == [c EXCEPT !.buf[b].lock = @ - 1]

\* fault: _BREF only after the data area is there.
TakeUnreferenced(c, o, k) ==
  [c EXCEPT !.unused = Front(@),
            !.buf[Last(c.unused)] =
              [obj |-> o, blk |-> k, refcnt |-> 0, dirty |-> FALSE,
               fresh |-> FALSE, lock |-> @.lock, data |-> 0]]

\* bcreate up to kmalloc, its DEQUEUE_POP having found a descriptor.
Take(c, o, k) ==
  [c EXCEPT !.unused = Front(@),
            !.buf[Last(c.unused)] =
              [obj |-> o, blk |-> k, refcnt |-> 1, dirty |-> FALSE,
               fresh |-> FALSE, lock |-> @.lock, data |-> 0]]

\* Rest of bcreate; the buffer is returned locked.
Link(c, b) ==
  [c EXCEPT !.objbufs[c.buf[b].obj] = Append(@, b), !.buf[b].lock = @ + 1]

\* Error path of bcreate: the reference count is left at 1.
Untake(c, b) == [c EXCEPT !.unused = Append(@, b)]

\* fault: dirty buffers are passed over for random access, too.
MatchesClean(c, o, k) ==
  {i \in DOMAIN c.objbufs[o] :
     LET r == c.buf[c.objbufs[o][i]]
     IN ~r.dirty /\ IF IsStream(o) THEN r.fresh ELSE r.blk = k}

\* blookup: positions of the buffers that satisfy a request, first one wins.
Matches(c, o, k) ==
  {i \in DOMAIN c.objbufs[o] :
     LET r == c.buf[c.objbufs[o][i]]
     IN IF IsStream(o) THEN r.fresh /\ ~r.dirty ELSE r.blk = k}

\* fault: no _BREF, so the buffer can be lost.
BlookupNoRef(c, o, b) ==
  IF IsStream(o) THEN [c EXCEPT !.buf[b].fresh = FALSE]
  ELSE [c EXCEPT !.objbufs[o] = <<b>> \o Without(@, b)]

Blookup(c, o, b) ==
  LET r == [Ref(c, b) EXCEPT !.buf[b].fresh = FALSE]
  IN IF IsStream(o) THEN r
     ELSE [r EXCEPT !.objbufs[o] = <<b>> \o Without(@, b)]

\* fault: a buffer that is dirty already is counted again.
BdirtyTwice(c, b) == [c EXCEPT !.buf[b].dirty = TRUE, !.dirtybufs[c.buf[b].obj] = @ + 1]

\* _bdirty, after the client stored new contents into a file block.
Bdirty(c, b) ==
  IF c.buf[b].dirty THEN c
  ELSE [c EXCEPT !.buf[b].dirty = TRUE, !.dirtybufs[c.buf[b].obj] = @ + 1]
Modify(c, b) == IF IsFile(c.buf[b].obj) THEN [c EXCEPT !.buf[b].data = @ + 1] ELSE c

\* bwrite up to obj_io, and the write itself (obj_io extends the file).
BwriteClean(c, b) ==
  IF c.buf[b].dirty
  THEN [c EXCEPT !.buf[b].dirty = FALSE, !.dirtybufs[c.buf[b].obj] = @ - 1]
  ELSE c
\* fault: the new size is one block too large.
ObjWriteSize(c, b, o, k) ==
  IF IsStream(o) THEN c
  ELSE [c EXCEPT !.disk[o][k] = c.buf[b].data, !.size[o] = IF k + 1 >= @ THEN k + 2 ELSE @]

ObjWrite(c, b, o, k) ==
  IF IsStream(o) THEN c
  ELSE [c EXCEPT !.disk[o][k] = c.buf[b].data,
                 !.size[o] = IF k >= @ THEN k + 1 ELSE @]

\* What an access to the data of b may find: freed memory holds anything.
Contents(c, b) == IF b \in Range(c.unused) THEN 0..MaxVersion ELSE {c.buf[b].data}

\* fault: the last block of the file counts as beyond its end.
BeyondLast(c, o, k, m) == ZeroBits(m) \/ k + 1 >= c.size[o]

\* bread leaves a new buffer of a file empty.
Beyond(c, o, k, m) == ZeroBits(m) \/ k >= c.size[o]

\* Read of bread; streams are marked fresh.
ObjRead(c, b) ==
  LET r == c.buf[b] IN
  IF IsStream(r.obj) THEN [c EXCEPT !.buf[b].data = Line, !.buf[b].fresh = TRUE]
  ELSE [c EXCEPT !.buf[b].data = c.disk[r.obj][r.blk]]

\* fault: the reference count is not looked at.
FreeableUsed(c, b) == ~c.buf[b].dirty
\* fault: the dirty flag is not looked at.
FreeableDirty(c, b) == c.buf[b].refcnt = 0

\* bcleanup_glob frees the first of these until there is none.
Freeable(c, b) == c.buf[b].refcnt = 0 /\ ~c.buf[b].dirty
Victims(c, o) == {i \in DOMAIN c.objbufs[o] : Freeable(c, c.objbufs[o][i])}
NoVictim(c) == \A o \in Objs : Victims(c, o) = {}

\* Pointers of the lists as the syncer follows them.
First(l) == IF l = <<>> THEN NULL ELSE l[1]
NextOf(c, b) ==
  LET Follows(n) == \E l \in {c.unused} \cup {c.objbufs[o] : o \in Objs} :
                      \E i \in 1..Len(l)-1 : l[i] = b /\ l[i + 1] = n
  IN IF \E n \in Bufs : Follows(n) THEN CHOOSE n \in Bufs : Follows(n) ELSE NULL

-----------------------------------------------------------------------------
NoCall == [pc |-> "user", obj |-> 1, blk |-> 0, mode |-> 0, buf |-> NULL]
AtUser(p) == cpu = Idle /\ proc[p].pc = "user"
FreeSlots(p) == {s \in Slots : table[p][s] = NULL}
HeldBy(p) == {table[p][s] : s \in Slots} \ {NULL}
Goto(p, pc) == proc' = [proc EXCEPT ![p].pc = pc]

\* Tail of bref: enter the buffer into proc->buffers, or drop it.
Return(p, c, b) ==
  /\ IF FreeSlots(p) = {}
     THEN cache' = Bfree(c, b) /\ UNCHANGED table
     ELSE /\ cache' = c
          /\ \E s \in FreeSlots(p) :
               /\ \A t \in FreeSlots(p) : s <= t
               /\ table' = [table EXCEPT ![p][s] = b]
  /\ proc' = [proc EXCEPT ![p] = NoCall]
  /\ cpu' = Idle

Fail(p, c) ==
  /\ cache' = c
  /\ proc' = [proc EXCEPT ![p] = NoCall]
  /\ cpu' = Idle
  /\ UNCHANGED table

\* Checks of bref() that let a request through, and the client's discipline.
MayBref(p, o, k, m) ==
  /\ AtUser(p)
  /\ IF IsStream(o) THEN k = 0 /\ (CreateBit(m) \/ ~NowaitBit(m))
                    ELSE CreateBit(m) \/ k < cache.size[o]
  /\ FreeSlots(p) # {} \/ "overflow" \in Behaviours
  /\ IsFile(o) /\ ZeroBits(m) => k >= cache.size[o] \/ "recreate" \in Behaviours
  /\ Kind[o] = "cmd" /\ ~CreateBit(m) => "cmd_read" \in Behaviours

BrefHit(p, o, k, m) ==
  /\ MayBref(p, o, k, m)
  /\ ~(IsStream(o) /\ CreateBit(m))
  /\ \E i \in Matches(cache, o, k) :
       /\ \A j \in Matches(cache, o, k) : i <= j
       /\ cache.buf[cache.objbufs[o][i]].refcnt < RefMod - 1 \/ "wrap" \in Behaviours
       /\ Return(p, Blookup(cache, o, cache.objbufs[o][i]), cache.objbufs[o][i])
  /\ UNCHANGED <<sy, restart>>

\* bread() of a new buffer b, or the plain bcreate() of a stream write.
LinkAndRead(p, c0, b, m) ==
  LET c == Link(c0, b)
      o == c.buf[b].obj
      wait(pc, who) ==
        /\ cache' = c
        /\ proc' = [proc EXCEPT ![p] = [NoCall EXCEPT !.pc = pc, !.buf = b]]
        /\ cpu' = who
        /\ UNCHANGED table
  IN IF IsFile(o)
     THEN IF Beyond(c, o, c.buf[b].blk, m)
          THEN Return(p, Unlock(c, b), b)
          ELSE \/ Return(p, Unlock(ObjRead(c, b), b), b)
               \/ "mem_short" \in Behaviours /\ wait("readclean", p)
     ELSE IF CreateBit(m) THEN Return(p, Unlock(c, b), b)
     ELSE IF Kind[o] = "con" THEN wait("read", Idle)
     ELSE Fail(p, c)

\* bcreate with a descriptor at hand; kmalloc may run bcleanup_glob first.
Bcreate(p, o, k, m) ==
  LET b == Last(cache.unused)
      c == Take(cache, o, k)
  IN \/ LinkAndRead(p, c, b, m)
     \/ /\ "mem_short" \in Behaviours
        /\ cache' = c
        /\ proc' = [proc EXCEPT ![p] = [pc |-> "data", obj |-> o, blk |-> k,
                                        mode |-> m, buf |-> b]]
        /\ cpu' = p
        /\ UNCHANGED table

BrefMiss(p, o, k, m) ==
  /\ MayBref(p, o, k, m)
  /\ Matches(cache, o, k) = {} \/ (IsStream(o) /\ CreateBit(m))
  /\ IF cache.unused # <<>> THEN Bcreate(p, o, k, m)
     ELSE /\ proc' = [proc EXCEPT ![p] = [NoCall EXCEPT !.pc = "alloc",
                                           !.obj = o, !.blk = k, !.mode = m]]
          /\ cpu' = p
          /\ UNCHANGED <<cache, table>>
  /\ UNCHANGED <<sy, restart>>

\* bcreate after bcleanup_glob: second pop, ENOMEM if the pool is still empty.
AllocEnd(p) ==
  /\ cpu = p /\ proc[p].pc = "alloc" /\ NoVictim(cache)
  /\ IF cache.unused # <<>>
     THEN Bcreate(p, proc[p].obj, proc[p].blk, proc[p].mode)
     ELSE Fail(p, cache)
  /\ UNCHANGED <<sy, restart>>

\* kmalloc's second attempt.
DataEnd(p) ==
  /\ cpu = p /\ proc[p].pc = "data" /\ NoVictim(cache)
  /\ \/ LinkAndRead(p, cache, proc[p].buf, proc[p].mode)
     \/ Fail(p, Untake(cache, proc[p].buf))
  /\ UNCHANGED <<sy, restart>>

\* A suspended read goes on: console input arrived, or memory is tried again.
ReadResume(p) ==
  /\ cpu = Idle /\ proc[p].pc = "read"
  /\ LET b == proc[p].buf IN
     IF IsStream(cache.buf[b].obj)
     THEN Return(p, Unlock(ObjRead(cache, b), b), b)
     ELSE Goto(p, "readclean") /\ cpu' = p /\ UNCHANGED <<cache, table>>
  /\ UNCHANGED <<sy, restart>>

ReadEnd(p) ==
  /\ cpu = p /\ proc[p].pc = "readclean" /\ NoVictim(cache)
  /\ \/ Return(p, Unlock(ObjRead(cache, proc[p].buf), proc[p].buf), proc[p].buf)
     \/ Goto(p, "read") /\ cpu' = Idle /\ UNCHANGED <<cache, table>>
  /\ UNCHANGED <<sy, restart>>

-----------------------------------------------------------------------------
\* fault: the flag is set, the syncer is not woken.
SyncerRestartNoWakeup == restart' = TRUE /\ UNCHANGED sy

\* SYNCER_RESTART with SYNCER_AVOID_WAKEUP.
SyncerRestart ==
  IF restart THEN UNCHANGED <<restart, sy>>
  ELSE /\ restart' = TRUE
       /\ sy' = IF sy.pc = "sleep" THEN [sy EXCEPT !.pc = "top"] ELSE sy

\* SARRAY_ERASEQ: the first entry that names b.
EraseEntry(p, b) == \E s \in Slots :
  /\ table[p][s] = b /\ \A t \in Slots : t < s => table[p][t] # b
  /\ table' = [table EXCEPT ![p][s] = NULL]

\* fault: a stream buffer still fresh is kept.
ReclaimsNotFresh(c, b) ==
  LET r == c.buf[b] IN IsStream(r.obj) /\ r.refcnt = 0 /\ ~r.dirty /\ ~r.fresh

\* bunrefp frees an unreferenced clean stream buffer at once.
Reclaims(c, b) ==
  LET r == c.buf[b] IN IsStream(r.obj) /\ r.refcnt = 0 /\ ~r.dirty

\* bunrefp from state c.  A contended LOCK never returns: lock_ref2 sets
\* proc->lock and calls sleep(), which refuses to sleep because of it.
Bunrefp(p, c, b) ==
  IF c.buf[b].lock # 0
  THEN /\ cache' = [c EXCEPT !.buf[b].lock = @ + 1]
       /\ Goto(p, "spin") /\ cpu' = p
       /\ UNCHANGED <<table, restart, sy>>
  ELSE LET d == Unref(c, b)
       IN /\ cache' = IF Reclaims(d, b) THEN Bfree(d, b) ELSE d
          /\ EraseEntry(p, b)
          /\ IF d.buf[b].dirty THEN SyncerRestart ELSE UNCHANGED <<restart, sy>>
          /\ proc' = [proc EXCEPT ![p] = IF @.pc = "exit" THEN @ ELSE NoCall]
          /\ cpu' = Idle

Bunref(p, b) == AtUser(p) /\ b \in HeldBy(p) /\ Bunrefp(p, cache, b)

MayModify(b) ==
  LET r == cache.buf[b]
  IN IF IsFile(r.obj) THEN r.data < MaxVersion
                      ELSE r.data # Line \/ "hold_dirty" \in Behaviours

\* BDIRTY of a buffer the client goes on using.
StoreDirty(p, b) ==
  /\ AtUser(p) /\ b \in HeldBy(p) /\ MayModify(b)
  /\ IsFile(cache.buf[b].obj) \/ "hold_dirty" \in Behaviours
  /\ cache' = Bdirty(Modify(cache, b), b)
  /\ UNCHANGED <<table, proc, sy, restart, cpu>>

\* BDUNREF: no switch between the mark and the release.
Bdunref(p, b) ==
  /\ AtUser(p) /\ b \in HeldBy(p) /\ MayModify(b)
  /\ Bunrefp(p, Bdirty(Modify(cache, b), b), b)

\* bwrite of a file block with memory short: wrapfs_make_path runs bcleanup_glob.
\* Mode 1 remembers that bsend has called bwrite.
WriteWaits(p, b, m) ==
  /\ "mem_short" \in Behaviours /\ IsFile(cache.buf[b].obj)
  /\ cache' = BwriteClean(cache, b) /\ cpu' = p
  /\ proc' = [proc EXCEPT ![p] = [NoCall EXCEPT !.pc = "writeclean", !.mode = m, !.buf = b]]
  /\ UNCHANGED <<table, sy, restart>>

Written(c, b) == ObjWrite(BwriteClean(c, b), b, c.buf[b].obj, c.buf[b].blk)

Bwrite(p, b) ==
  /\ AtUser(p) /\ b \in HeldBy(p)
  /\ \/ cache' = Written(cache, b) /\ UNCHANGED <<table, proc, sy, restart, cpu>>
     \/ WriteWaits(p, b, 0)

WriteResume(p) ==
  /\ cpu = Idle /\ proc[p].pc = "write"
  /\ Goto(p, "writeclean") /\ cpu' = p
  /\ UNCHANGED <<cache, table, sy, restart>>

WriteEnd(p) ==
  /\ cpu = p /\ proc[p].pc = "writeclean" /\ NoVictim(cache)
  /\ LET b == proc[p].buf
         c == ObjWrite(cache, b, cache.buf[b].obj, cache.buf[b].blk)
     IN \/ proc[p].mode = 0 /\ Fail(p, c) /\ UNCHANGED <<sy, restart>>
        \/ proc[p].mode = 1 /\ Bunrefp(p, c, b)
        \/ Goto(p, "write") /\ cpu' = Idle /\ UNCHANGED <<cache, table, sy, restart>>

\* bsend: bwrite and bunref in one go.
Bsend(p, b) ==
  /\ AtUser(p) /\ b \in HeldBy(p)
  /\ Bunrefp(p, Written(cache, b), b) \/ WriteWaits(p, b, 1)

-----------------------------------------------------------------------------
\* exit: fs_kill_proc releases the table entry by entry, each bunrefp switches.
ExitBegin(p) ==
  /\ AtUser(p) /\ Goto(p, "exit")
  /\ UNCHANGED <<cache, table, sy, restart, cpu>>

ExitStep(p) ==
  /\ cpu = Idle /\ proc[p].pc = "exit"
  /\ \E s \in Slots : /\ table[p][s] # NULL
                      /\ \A t \in Slots : t < s => table[p][t] = NULL
                      /\ Bunrefp(p, cache, table[p][s])

ExitEnd(p) ==
  /\ cpu = Idle /\ proc[p].pc = "exit" /\ HeldBy(p) = {}
  /\ Goto(p, "dead")
  /\ UNCHANGED <<cache, table, sy, restart, cpu>>

\* fs_init_proc of the next process that gets the descriptor.
Spawn(p) ==
  /\ cpu = Idle /\ proc[p].pc = "dead"
  /\ Goto(p, "user")
  /\ UNCHANGED <<cache, table, sy, restart, cpu>>

-----------------------------------------------------------------------------
CleaningPcs == {"alloc", "data", "readclean", "writeclean", "forget"}
Cleaning == \/ cpu = Syncer /\ sy.pc = "writeclean"
            \/ cpu \in Procs /\ proc[cpu].pc \in CleaningPcs

\* The shell's `forget', and any malloc that finds memory low.
Forget(p) ==
  /\ AtUser(p) /\ Goto(p, "forget") /\ cpu' = p
  /\ UNCHANGED <<cache, table, sy, restart>>

ForgetEnd(p) ==
  /\ cpu = p /\ proc[p].pc = "forget" /\ NoVictim(cache)
  /\ Fail(p, cache) /\ UNCHANGED <<sy, restart>>

\* One round of the restart loop of bcleanup, objects in pool order.
CleanupStep ==
  /\ Cleaning
  /\ \E o \in Objs : \E i \in Victims(cache, o) :
       /\ \A j \in Victims(cache, o) : i <= j
       /\ \A n \in Objs : n < o => Victims(cache, n) = {}
       /\ cache' = Bfree(cache, cache.objbufs[o][i])
  /\ UNCHANGED <<table, proc, sy, restart, cpu>>

\* fault: the request of the round before is not forgotten.
SyTopKeepsRequest ==
  /\ sy.pc = "top" /\ cpu \in {Idle, Syncer}
  /\ sy' = [sy EXCEPT !.pc = "scan", !.obj = 1, !.next = First(cache.objbufs[1])]
  /\ cpu' = Syncer
  /\ UNCHANGED <<cache, table, proc, restart>>

\* Loop head of syncer(): forget earlier requests, start at the first object.
SyTop ==
  /\ sy.pc = "top" /\ cpu \in {Idle, Syncer}
  /\ restart' = FALSE
  /\ sy' = [sy EXCEPT !.pc = "scan", !.obj = 1, !.next = First(cache.objbufs[1])]
  /\ cpu' = Syncer
  /\ UNCHANGED <<cache, table, proc>>

SyNextObj ==
  /\ cpu = Syncer /\ sy.pc = "scan" /\ sy.next = NULL /\ sy.obj < Len(Kind)
  /\ sy' = [sy EXCEPT !.obj = @ + 1, !.next = First(cache.objbufs[sy.obj + 1])]
  /\ UNCHANGED <<cache, table, proc, restart, cpu>>

\* All objects done: once more if someone asked meanwhile, else sleep.
SyEnd ==
  /\ cpu = Syncer /\ sy.pc = "scan" /\ sy.next = NULL /\ sy.obj = Len(Kind)
  /\ IF restart
     THEN sy' = [sy EXCEPT !.pc = "top"] /\ UNCHANGED cpu
     ELSE sy' = [sy EXCEPT !.pc = "sleep"] /\ cpu' = Idle
  /\ UNCHANGED <<cache, table, proc, restart>>

SySkip ==
  /\ cpu = Syncer /\ sy.pc = "scan" /\ sy.next # NULL /\ ~cache.buf[sy.next].dirty
  /\ sy' = [sy EXCEPT !.next = NextOf(cache, sy.next)]
  /\ UNCHANGED <<cache, table, proc, restart, cpu>>

\* sync_bufs frees what it wrote if the object it scans is not cached.
SyFree(c, b) == IF IsCached(sy.obj) THEN c ELSE Bfree(c, b)

\* One dirty buffer of sync_bufs: the successor is read before the write.
SyWrite ==
  /\ cpu = Syncer /\ sy.pc = "scan" /\ sy.next # NULL /\ cache.buf[sy.next].dirty
  /\ LET b == sy.next
         r == cache.buf[b]
         c == BwriteClean(cache, b)
         n == NextOf(cache, b)
     IN \/ /\ cache' = SyFree(ObjWrite(c, b, r.obj, r.blk), b)
           /\ sy' = [sy EXCEPT !.next = n]
           /\ UNCHANGED cpu
        \/ /\ "mem_short" \in Behaviours /\ IsFile(r.obj)
           /\ cache' = c
           /\ sy' = [pc |-> "writeclean", obj |-> sy.obj, next |-> n, cur |-> b,
                     wobj |-> r.obj, wblk |-> r.blk]
           /\ UNCHANGED cpu
  /\ UNCHANGED <<table, proc, restart>>

SyResume ==
  /\ cpu = Idle /\ sy.pc = "write"
  /\ sy' = [sy EXCEPT !.pc = "writeclean"] /\ cpu' = Syncer
  /\ UNCHANGED <<cache, table, proc, restart>>

SyWriteEnd ==
  /\ cpu = Syncer /\ sy.pc = "writeclean" /\ NoVictim(cache)
  /\ \/ /\ \E d \in Contents(cache, sy.cur) :
             cache' = SyFree(ObjWrite([cache EXCEPT !.buf[sy.cur].data = d],
                                      sy.cur, sy.wobj, sy.wblk), sy.cur)
        /\ sy' = [sy EXCEPT !.pc = "scan", !.cur = NULL, !.wobj = 1, !.wblk = 0]
        /\ UNCHANGED cpu
     \/ sy' = [sy EXCEPT !.pc = "write"] /\ cpu' = Idle /\ UNCHANGED cache
  /\ UNCHANGED <<table, proc, restart>>

-----------------------------------------------------------------------------
BufRec == [obj : Objs, blk : Blks, refcnt : 0..RefMod-1, dirty : BOOLEAN,
           fresh : BOOLEAN, lock : Int, data : 0..Line]
CacheRec == [unused : Seq(Bufs), objbufs : [Objs -> Seq(Bufs)],
             buf : [Bufs -> BufRec], dirtybufs : [Objs -> Int],
             disk : [Objs -> [Blks -> 0..Line]], size : [Objs -> 0..NumBlks]]
ProcPcs == {"user", "alloc", "data", "read", "readclean", "write", "writeclean",
            "forget", "exit", "dead", "spin"}
SyPcs == {"sleep", "top", "scan", "write", "writeclean"}

\* Every variable has the shape the declarations of buf.h, proc.h and syncer.c
\* give it; a block number or a list link is never out of range.
TypeOK ==
  /\ cache \in CacheRec
  /\ table \in [Procs -> [Slots -> Bufs \cup {NULL}]]
  /\ proc \in [Procs -> [pc : ProcPcs, obj : Objs, blk : Blks, mode : 0..3,
                         buf : Bufs \cup {NULL}]]
  /\ sy \in [pc : SyPcs, obj : Objs, next : Bufs \cup {NULL}, cur : Bufs \cup {NULL},
             wobj : Objs, wblk : Blks]
  /\ restart \in BOOLEAN
  /\ cpu \in Procs \cup {Idle, Syncer}

Init ==
  /\ cache = [unused    |-> [i \in Bufs |-> i],
              objbufs   |-> [o \in Objs |-> <<>>],
              buf       |-> [b \in Bufs |-> [obj |-> 1, blk |-> 0, refcnt |-> 0,
                               dirty |-> FALSE, fresh |-> FALSE, lock |-> 0, data |-> 0]],
              dirtybufs |-> [o \in Objs |-> 0],
              disk |-> [o \in Objs |-> [k \in Blks |->
                          IF IsFile(o) /\ k < InitSize THEN 1 ELSE 0]],
              size |-> [o \in Objs |-> IF IsFile(o) THEN InitSize ELSE 0]]
  /\ table = [p \in Procs |-> [s \in Slots |-> NULL]]
  /\ proc = [p \in Procs |-> NoCall]
  /\ sy = [pc |-> "top", obj |-> 1, next |-> NULL, cur |-> NULL, wobj |-> 1, wblk |-> 0]
  /\ restart = FALSE
  /\ cpu = Idle

\* Steps of a process that is inside the kernel and keeps the processor.
KernelStep(p) == AllocEnd(p) \/ DataEnd(p) \/ ReadEnd(p) \/ WriteEnd(p) \/ ForgetEnd(p)

UserStep(p) ==
  \/ \E o \in Objs, k \in Blks, m \in 0..3 : BrefHit(p, o, k, m) \/ BrefMiss(p, o, k, m)
  \/ \E b \in Bufs : Bunref(p, b) \/ StoreDirty(p, b) \/ Bdunref(p, b)
                     \/ Bwrite(p, b) \/ Bsend(p, b)
  \/ ReadResume(p) \/ WriteResume(p)
  \/ Forget(p) \/ ExitBegin(p) \/ ExitStep(p) \/ ExitEnd(p) \/ Spawn(p)

SyncerStep == SyTop \/ SyNextObj \/ SyEnd \/ SySkip \/ SyWrite \/ SyResume \/ SyWriteEnd

Next == \/ \E p \in Procs : KernelStep(p) \/ UserStep(p)
        \/ CleanupStep
        \/ SyncerStep

Spec == Init /\ [][Next]_vars

\* The round robin of machdep_switch reaches the syncer again and again, once
\* every client whose turn it is comes to a switch: strong fairness, because the
\* syncer cannot run while another process is inside the kernel.  Kernel code
\* that has the processor goes on.  Nothing is assumed of the clients.
Fairness == /\ SF_vars(SyncerStep)
            /\ WF_vars(CleanupStep)
            /\ WF_vars(\E p \in Procs : KernelStep(p))

FairSpec == Spec /\ Fairness
=============================================================================
