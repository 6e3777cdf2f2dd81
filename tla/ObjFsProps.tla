----------------------------- MODULE ObjFsProps -----------------------------
(***************************************************************************)
(* What the file calls of ObjFs.tla guarantee, and what the repository says  *)
(* of them.                                                                 *)
(***************************************************************************)
EXTENDS ObjFs

\* Entries of a list.
Entries(l) == Range(WalkFrom(fs, fs.first[l], NumDirents)) \ {NULL}

\* Records of the list of /local.
Listed == Range(Chain(fs)) \ {NULL}

\* The table entries of all processes that refer to o, numbered for each process.
Handles(o) == UNION {{p} \X (1..table[p][o]) : p \in Procs}
Users(o)   == Cardinality(Handles(o))

-----------------------------------------------------------------------------
\* Every variable has its type.
TypeOK ==
  /\ fs \in [prev  : [Dirents -> Dirents \cup {NULL}], next : [Dirents -> Dirents \cup {NULL}],
             first : [Lists -> Dirents \cup {NULL}], last : [Lists -> Dirents \cup {NULL}],
             name  : [Dirents -> Names \cup {""}],
             of    : [Dirents -> Objs \cup {NULL}],
             obj   : [Objs -> [dir : Dirs, file : Names \cup {""}, refcnt : Nat,
                               dirent : Dirents \cup {NULL}, made : BOOLEAN,
                               id : Recs \cup {NULL}, detail : Recs \cup {NULL}]],
             free  : Seq(Objs), host : Seq(Names), numrecs : Recs \cup {0},
             childs : Recs \cup {NULL}, cached : BOOLEAN,
             rec   : [Recs -> [name : Names \cup {""}, prev : Recs \cup {NULL},
                               next : Recs \cup {NULL}, obj : Objs \cup {NULL}]]]
  /\ table \in [Procs -> [Objs -> Nat]]
  /\ pc \in [Procs -> {"user", "check", "busy", "remove", "exit"}]
  /\ what \in [Procs -> Objs \cup {NULL}]
  /\ halted \in BOOLEAN

\* Every directory entry is in one list, either free or that of the directory of its
\* object, the links agree in both directions, and no name is in a directory twice
\* (dirent_alloc, dirent_free, doc/kernel/io.txt:23).
DirentsExact ==
  /\ TypeOK
  /\ \A l \in Lists :
       /\ \A d \in Entries(l) :
            /\ IF d = fs.first[l] THEN fs.prev[d] = NULL
               ELSE fs.prev[d] \in Entries(l) /\ fs.next[fs.prev[d]] = d
            /\ IF d = fs.last[l] THEN fs.next[d] = NULL
               ELSE fs.next[d] \in Entries(l) /\ fs.prev[fs.next[d]] = d
       /\ IF Entries(l) = {} THEN fs.first[l] = NULL /\ fs.last[l] = NULL
          ELSE fs.first[l] \in Entries(l) /\ fs.last[l] \in Entries(l)
       /\ \A m \in Lists \ {l} : Entries(l) \cap Entries(m) = {}
  /\ Dirents = UNION {Entries(l) : l \in Lists}
  /\ \A dir \in Dirs : \A d \in Entries(dir) :
       /\ fs.obj[fs.of[d]].dirent = d /\ fs.obj[fs.of[d]].dir = dir
       /\ \A e \in Entries(dir) \ {d} : fs.name[e] # fs.name[d]

\* What a process reads and writes through an object of wrapfs is the file of the host
\* that it has opened by name; a file has one record at most, the records are linked in
\* both directions, and one that remembers an object remembers that of its own file
\* (wrapfs_lookup, wrapfsw_create).
InUse == {o \in Objs \ Range(fs.free) : fs.obj[o].dir = "local"}
RecordsExact ==
  /\ \A o \in InUse : /\ fs.obj[o].id # NULL /\ fs.rec[fs.obj[o].id].name = fs.obj[o].file
                       /\ fs.obj[o].file \in Range(fs.host)
  /\ \A v, w \in Listed : fs.rec[v].name = fs.rec[w].name => v = w
  /\ \A w \in Listed :
       /\ fs.rec[w].name \in Range(fs.host)
       /\ IF w = fs.childs THEN fs.rec[w].prev = NULL
          ELSE fs.rec[w].prev \in Listed /\ fs.rec[fs.rec[w].prev].next = w
       /\ fs.rec[w].next # NULL =>
            fs.rec[w].next \in Listed /\ fs.rec[fs.rec[w].next].prev = w
  /\ \A w \in 1..fs.numrecs : fs.rec[w].obj # NULL =>
       fs.rec[w].obj \in InUse /\ fs.obj[fs.rec[w].obj].id = w

\* An object in use has as many references as table entries refer to it, through
\* failed calls, removals and exits in steps; only create() with a full table leaves
\* one reference behind that nobody can give back.
RefcntExact == \A o \in Objs \ Range(fs.free) :
  fs.obj[o].refcnt \in Users(o)..(Users(o) + IF fs.obj[o].made THEN 1 ELSE 0)

\* doc/kernel/io.txt:91, `Files can only be unlinked if not used by any process': an
\* open file is in memory, and its name leads to it.
OpenIsNamed == \A p \in Procs : \A o \in Held(p) :
  /\ o \notin Range(fs.free)
  /\ Scan(fs, fs.obj[o].dir, fs.obj[o].file) = o

-----------------------------------------------------------------------------
\* The files in memory, with how often each process has them open.
Opened ==
  LET known == UNION {{<<dir, d>> : d \in Entries(dir)} : dir \in Dirs}
      At(x) == CHOOSE e \in known : e[1] = x[1] /\ fs.name[e[2]] = x[2]
  IN [x \in {<<e[1], fs.name[e[2]]>> : e \in known} |->
        [p \in Procs |-> table[p][fs.of[At(x)[2]]]]]

NS == INSTANCE NameSpace WITH Paths <- Dirs \X Names, users <- Opened

\* Programs see files that appear, are opened and closed, and disappear unused; two
\* processes that open one name share one object.
ImplementsNames == NS!Spec
=============================================================================
