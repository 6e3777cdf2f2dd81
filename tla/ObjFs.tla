-------------------------------- MODULE ObjFs --------------------------------
(***************************************************************************)
(* Files of tensix: objects, directory entries and the calls on them         *)
(* (kern/io/obj.c, obj_ops.c, obj_dir.c, namespace.c, fs.c), with the two    *)
(* file systems, memfs and wrapfs, that stand behind them.                   *)
(*                                                                         *)
(* An action is what a process does between two switches.  Directory entries *)
(* are linked as in the code (Queue), because dirent_free is called for an   *)
(* entry that is already free.                                              *)
(*                                                                         *)
(* A definition marked `fault:' is not part of the specification: it is a   *)
(* variant of the definition after it with a plausible programming error.   *)
(***************************************************************************)
EXTENDS Queue, SequencesExt

CONSTANTS
  Procs,
  NumObjs,     \* NUM_OBJS without the objects there are after boot
  NumDirents,  \* NUM_DIRENTS, likewise
  TableSize,   \* OBJS_PER_PROC
  NumRecs,     \* bound: records made; wrapfs_objects has 16284, and nothing checks that
  Names,       \* file names
  Behaviours   \* what is left out of the specification unless it is named here:
               \*   "unlink_wrapfs"  files of wrapfs are removed: the first removal
               \*                    ruins the list of free directory entries
               \*   "open_unlinked"  a process opens a file that another process
               \*                    is about to remove

ASSUME ObjFsAssumption ==
  /\ {NumObjs, NumDirents, TableSize, NumRecs} \subseteq Nat \ {0}
  /\ IsFiniteSet(Procs) /\ IsFiniteSet(Names) /\ Cardinality(Names) <= NumRecs
  /\ Behaviours \subseteq {"unlink_wrapfs", "open_unlinked"}

Objs    == 1..NumObjs
Dirents == 1..NumDirents
Dirs    == {"memfs", "local"}  \* /memfs, and /local, an instance of wrapfs
Lists   == Dirs \cup {"unused"}
Recs    == 1..NumRecs

VARIABLES
  fs,      \* obj: the objects; free: obj_pool.unused; of each directory entry the
           \* links, name and obj; first and last of its lists; host: the files behind
           \* /local, as readdir gives them; rec: wrapfs_objects, of which numrecs are
           \* made; childs: the first one of /local; cached: they have been made
  table,   \* how many entries of proc->objects refer to each object
  pc,      \* where each process is
  what,    \* the file it removes
  halted   \* the CPU never leaves a process that waits for obj_pool.lock, or the
           \* kernel has used a NULL pointer

vars == <<fs, table, pc, what, halted>>

-----------------------------------------------------------------------------
(* Objects and directory entries.                                          *)

\* OBJ_IS_PERSISTENT: inherited from /memfs, reset by wrapfs.
Persistent(f, o) == f.obj[o].dir = "memfs"

\* obj_suballoc with obj_alloc and dirent_alloc: obj->detail keeps what it was when
\* the object was used before; made says that create() has made the object.
SubAlloc(f, dir, id, n) ==
  IF f.free = <<>> \/ f.last["unused"] = NULL THEN [fs |-> f, obj |-> NULL]
  ELSE LET o == Last(f.free)
           d == f.last["unused"]
       IN [fs  |-> [DequeuePush(DequeuePop(f, "unused"), dir, d) EXCEPT
                      !.free = Front(@), !.name[d] = n, !.of[d] = o,
                      !.obj[o] = [dir |-> dir, file |-> n, refcnt |-> 0, dirent |-> d,
                                  made |-> FALSE, id |-> id, detail |-> @.detail]],
           obj |-> o]

\* fault: the entry is not taken off the list of the directory.
DirentFreeLinked(f, o) == DequeuePush(f, "unused", f.obj[o].dirent)

\* dirent_free
DirentFree(f, o) ==
  LET d == f.obj[o].dirent
  IN DequeuePush(DequeueRemove(f, f.obj[o].dir, d), "unused", d)

\* wrapfs_free: a record that is the first of its directory stays there.
WrapfsFree(f, o) ==
  LET w == f.obj[o].detail
      p == f.rec[w].prev
      n == f.rec[w].next
      g == [f EXCEPT !.rec[w].obj = NULL]
      h == IF p = NULL THEN g ELSE [g EXCEPT !.rec[p].next = n]
  IN IF w = NULL THEN f
     ELSE IF n = NULL THEN h ELSE [h EXCEPT !.rec[n].prev = p]

\* obj_free: obj->dirent still points to the entry that obj_unlink has freed.
\* The buffers of the object and the channels of the I/O daemon are left out.
ObjFree(f, o) ==
  IF Persistent(f, o) THEN f ELSE [DirentFree(WrapfsFree(f, o), o) EXCEPT !.free = Append(@, o)]

\* wrapfs_unlink; memfs_unlink does nothing.
HostUnlink(f, o) ==
  IF f.obj[o].dir = "memfs" THEN f
  ELSE [f EXCEPT !.host = SelectSeq(@, LAMBDA n : n # f.rec[f.obj[o].id].name)]

\* obj_unlink
ObjUnlink(f, o) == ObjFree(DirentFree(HostUnlink(f, o), o), o)

-----------------------------------------------------------------------------
(* The records of wrapfs, one for each file of the host in /local that the   *)
(* kernel has heard of, in a list of their own.                             *)

\* The list, from wrapfs_objects[dir].childs on, and NULL from its end on.
Chain(f) == WalkFrom([next |-> [w \in Recs |-> f.rec[w].next]], f.childs, NumRecs)

\* wrapfsw_mkmetaobj
MkMetaObj(f, last, n) ==
  LET w == f.numrecs + 1
      g == [f EXCEPT !.numrecs = w,
              !.rec[w] = [name |-> n, prev |-> last, next |-> NULL, obj |-> NULL]]
  IN IF last = NULL THEN [g EXCEPT !.childs = w] ELSE [g EXCEPT !.rec[last].next = w]

\* _wrapfs_collect_dir: the first records, linked in order.
Collect(f) ==
  LET n == Len(f.host)
  IN IF f.cached THEN f
     ELSE [f EXCEPT !.cached = TRUE, !.numrecs = n, !.childs = IF n = 0 THEN NULL ELSE 1,
             !.rec = [w \in Recs |->
                        IF w > n THEN f.rec[w]
                        ELSE [name |-> f.host[w], prev |-> PoolPrev(n)[w],
                              next |-> PoolNext(n)[w], obj |-> NULL]]]

\* The last record of a list that has one.
LastRec(f) == CHOOSE w \in Range(Chain(f)) \ {NULL} : f.rec[w].next = NULL

\* The new record takes the place of the last one, which falls out of the list.
AddRecord(f, n) == MkMetaObj(f, f.rec[LastRec(f)].prev, n)

\* fault: the object keeps the number it was allocated with.
WrapfsCreateIdKept(f, o, n) ==
  LET g == AddRecord(f, n)
  IN [g EXCEPT !.host = IF n \in Range(@) THEN @ ELSE Append(@, n),
               !.obj[o].detail = g.numrecs, !.rec[g.numrecs].obj = o]

\* wrapfs_create and wrapfsw_create, for a file: creat() makes it empty if it is there.
WrapfsCreate(f, o, n) ==
  LET g == AddRecord(f, n)
  IN [g EXCEPT !.host = IF n \in Range(@) THEN @ ELSE Append(@, n),
               !.obj[o] = [@ EXCEPT !.id = g.numrecs, !.detail = g.numrecs],
               !.rec[g.numrecs].obj = o]

-----------------------------------------------------------------------------
(* Finding a file by its name.                                             *)

\* The first record of a walk that has the name n, or NULL.
Find(walk, name, n) ==
  LET hits == {i \in DOMAIN walk : walk[i] # NULL /\ name[walk[i]] = n}
  IN IF hits = {} THEN NULL ELSE walk[Min(hits)]

\* namespace_directory_scan
Scan(f, dir, n) ==
  LET d == Find(WalkFrom(f, f.first[dir], NumDirents), f.name, n)
  IN IF d = NULL THEN NULL ELSE f.of[d]

NotFound(f) == [fs |-> f, obj |-> NULL]

\* The record of a name, or NULL.
Record(f, n) == Find(Chain(f), [w \in Recs |-> f.rec[w].name], n)

\* wrapfs_lookup: the object that the record remembers or a new one.
WrapfsLookup(f, n) ==
  LET g == Collect(f)
      w == Record(g, n)
  IN IF w = NULL THEN NotFound(g)
     ELSE IF g.rec[w].obj # NULL THEN [fs |-> g, obj |-> g.rec[w].obj]
     ELSE SubAlloc(g, "local", w, n)

\* fault: what is in memory is not looked at.
LookupAnew(f, dir, n) ==
  IF dir = "local" THEN WrapfsLookup(f, n)
  ELSE [fs |-> f, obj |-> Scan(f, dir, n)]

\* namespace_lookup: memfs has all its files in memory.
Lookup(f, dir, n) ==
  IF Scan(f, dir, n) # NULL THEN [fs |-> f, obj |-> Scan(f, dir, n)]
  ELSE IF dir = "memfs" THEN NotFound(f) ELSE WrapfsLookup(f, n)

\* wrapfs_lookup goes on with the object that could not be allocated.
LookupCrashes(f, dir, n) ==
  /\ dir = "local" /\ Scan(f, dir, n) = NULL
  /\ LET g == Collect(f)
     IN Record(g, n) # NULL /\ g.rec[Record(g, n)].obj = NULL /\ WrapfsLookup(f, n).obj = NULL

\* wrapfsw_create takes the last record of a directory that has none.
CreateCrashes(f, dir, n) ==
  /\ dir = "local" /\ Lookup(f, dir, n).obj = NULL
  /\ SubAlloc(f, dir, NULL, n).obj # NULL /\ Collect(f).childs = NULL

-----------------------------------------------------------------------------
Init ==
  /\ \E files \in SUBSET Names : \E onHost \in SetToSeqs(files) : fs = [prev  |-> PoolPrev(NumDirents), next |-> PoolNext(NumDirents),
           first |-> [l \in Lists |-> IF l = "unused" THEN 1 ELSE NULL],
           last  |-> [l \in Lists |-> IF l = "unused" THEN NumDirents ELSE NULL],
           name  |-> [d \in Dirents |-> ""],
           of    |-> [d \in Dirents |-> NULL],
           obj   |-> [o \in Objs |-> [dir |-> "local", file |-> "", refcnt |-> 0,
                                      dirent |-> NULL, made |-> FALSE, id |-> NULL,
                                      detail |-> NULL]],
           free  |-> [i \in 1..NumObjs |-> i],
           host  |-> onHost, numrecs |-> 0, childs |-> NULL, cached |-> FALSE,
           rec   |-> [w \in Recs |-> [name |-> "", prev |-> NULL, next |-> NULL,
                                      obj |-> NULL]]]
  /\ table = [p \in Procs |-> [o \in Objs |-> 0]]
  /\ pc = [p \in Procs |-> "user"]
  /\ what = [p \in Procs |-> NULL]
  /\ halted = FALSE

AtUser(p)   == pc[p] = "user" /\ ~halted

\* The order of the entries of a table is left out.
Held(p)      == {o \in Objs : table[p][o] > 0}
TableFull(p) == MapThenSumSet(LAMBDA o : table[p][o], Objs) = TableSize
Keep(p, o)   == [table EXCEPT ![p][o] = @ + 1]

\* obj_pool.lock is held during a removal.
Locked == \E q \in Procs : pc[q] \in {"busy", "remove"}

Removing(o) == \E q \in Procs : pc[q] = "remove" /\ what[q] = o

Ref(f, o)   == [f EXCEPT !.obj[o].refcnt = @ + 1]
Unref(f, o) == [f EXCEPT !.obj[o].refcnt = @ - 1]

\* open() and open2(), for a program or in unlink(), which goes on at `then'.
\* Without a table entry the object stays, unreferenced.
OpenFile(p, dir, n, then) ==
  /\ AtUser(p)
  /\ ~LookupCrashes(fs, dir, n)
  /\ LET r == Lookup(fs, dir, n)
     IN /\ r.obj # NULL /\ Removing(r.obj) => "open_unlinked" \in Behaviours
        /\ IF r.obj = NULL \/ TableFull(p)
           THEN fs' = r.fs /\ UNCHANGED <<table, pc, what>>
           ELSE /\ fs' = Ref(r.fs, r.obj)
                /\ table' = Keep(p, r.obj)
                /\ pc' = [pc EXCEPT ![p] = then]
                /\ what' = [what EXCEPT ![p] = IF then = "user" THEN @ ELSE r.obj]
  /\ UNCHANGED halted

Open(p, dir, n) == OpenFile(p, dir, n, "user")

\* Any call with a path, or create().
Crash(p, dir, n) == /\ AtUser(p) /\ (LookupCrashes(fs, dir, n) \/ CreateCrashes(fs, dir, n))
                    /\ halted' = TRUE /\ UNCHANGED <<fs, table, pc, what>>

\* create(): an error if the name is found or there is no room for the object;
\* the new object is referenced even if there is no table entry for it.
Create(p, dir, n) ==
  /\ AtUser(p) /\ ~LookupCrashes(fs, dir, n) /\ ~CreateCrashes(fs, dir, n)
  /\ dir = "local" => Collect(fs).numrecs < NumRecs
  /\ LET r == Lookup(fs, dir, n)
         a == SubAlloc(r.fs, dir, NULL, n)
     IN IF r.obj # NULL \/ a.obj = NULL
        THEN fs' = r.fs /\ UNCHANGED table
        ELSE LET made == [a.fs EXCEPT !.obj[a.obj].made = TRUE]
                 new  == IF dir = "memfs" THEN made ELSE WrapfsCreate(made, a.obj, n)
             IN /\ fs' = Ref(new, a.obj)
                /\ table' = IF TableFull(p) THEN table ELSE Keep(p, a.obj)
  /\ UNCHANGED <<pc, what, halted>>

\* closep()
CloseHandle(p, o) == /\ fs' = Unref(fs, o)
                     /\ table' = [table EXCEPT ![p][o] = @ - 1]

Close(p) == /\ AtUser(p)
            /\ \E o \in Held(p) : CloseHandle(p, o)
            /\ UNCHANGED <<pc, what, halted>>

-----------------------------------------------------------------------------
(* unlink(): open, check and close, remove, with a switch after each.      *)

Unlink(p, dir, n) == /\ dir = "local" => "unlink_wrapfs" \in Behaviours
                     /\ OpenFile(p, dir, n, "check")

\* fault: whether the file is in use is not checked.
UnlinkCheckSkipped(p) ==
  /\ pc[p] = "check" /\ ~halted
  /\ IF Locked
     THEN halted' = TRUE /\ UNCHANGED <<fs, table, pc>>
     ELSE /\ CloseHandle(p, what[p])
          /\ pc' = [pc EXCEPT ![p] = "remove"]
          /\ UNCHANGED halted
  /\ UNCHANGED what

\* The lock is taken, and kept over the switch in close().
UnlinkCheck(p) ==
  /\ pc[p] = "check" /\ ~halted
  /\ IF Locked
     THEN halted' = TRUE /\ UNCHANGED <<fs, table, pc>>
     ELSE /\ CloseHandle(p, what[p])
          /\ pc' = [pc EXCEPT ![p] = IF fs.obj[what[p]].refcnt = 1 THEN "remove" ELSE "busy"]
          /\ UNCHANGED halted
  /\ UNCHANGED what

UnlinkEnd(p) ==
  /\ pc[p] \in {"remove", "busy"} /\ ~halted
  /\ fs' = IF pc[p] = "remove" THEN ObjUnlink(fs, what[p]) ELSE fs
  /\ pc' = [pc EXCEPT ![p] = "user"]
  /\ what' = [what EXCEPT ![p] = NULL]
  /\ UNCHANGED <<table, halted>>

-----------------------------------------------------------------------------
(* fs_kill_proc() closes the files of a process that exits one by one.     *)

Exit(p) == /\ AtUser(p) /\ Held(p) # {}
           /\ pc' = [pc EXCEPT ![p] = "exit"]
           /\ UNCHANGED <<fs, table, what, halted>>

\* fault: the handles of the process vanish at once.
ExitStepForgets(p) ==
  /\ pc[p] = "exit" /\ ~halted
  /\ table' = [table EXCEPT ![p] = [o \in Objs |-> 0]]
  /\ pc' = [pc EXCEPT ![p] = "user"]
  /\ UNCHANGED <<fs, what, halted>>

\* When all are closed the descriptor is ready for the next process.
ExitStep(p) == /\ pc[p] = "exit" /\ ~halted
               /\ IF Held(p) = {}
                  THEN pc' = [pc EXCEPT ![p] = "user"] /\ UNCHANGED <<fs, table>>
                  ELSE (\E o \in Held(p) : CloseHandle(p, o)) /\ UNCHANGED pc
               /\ UNCHANGED <<what, halted>>

-----------------------------------------------------------------------------
Next == \E p \in Procs :
  \/ Close(p) \/ UnlinkCheck(p) \/ UnlinkEnd(p) \/ Exit(p) \/ ExitStep(p)
  \/ \E dir \in Dirs, n \in Names :
       Open(p, dir, n) \/ Create(p, dir, n) \/ Unlink(p, dir, n) \/ Crash(p, dir, n)

Spec == Init /\ [][Next]_vars
=============================================================================
