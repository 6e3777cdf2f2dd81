------------------------------ MODULE HeapProps ------------------------------
(***************************************************************************)
(* What the allocator of Heap.tla guarantees, and what the repository says   *)
(* of it.                                                                   *)
(***************************************************************************)
EXTENDS Heap

Fragments == [page : Pages, idx : Nat]
Blocks    == [page : Pages, idx : Nat, fs : 0..FragSizes, n : Nat \ {0}]

\* Pages of a block.
Extent(b) == b.page..(b.page + b.n - 1)

\* Two blocks share memory unless they are different fragments of one page.
Overlap(a, b) == /\ Extent(a) \cap Extent(b) # {}
                 /\ ~(a.fs # 0 /\ a.fs = b.fs /\ a.idx # b.idx)

OnStack(o) == UNION {{Block(f.page, f.idx, Frag(fs)) : f \in heap.frags[o][fs]} : fs \in FragLogs}

-----------------------------------------------------------------------------
TypeOK ==
  /\ heap.map \subseteq Pages
  /\ heap.info \in [Pages -> [fs : 0..FragSizes, cont : BOOLEAN, proc : 0..(OwnerIds - 1)]]
  /\ heap.free \in 0..NumPages
  /\ \A o \in Owners : /\ heap.live[o] \subseteq Blocks
                       /\ \A fs \in FragLogs : heap.frags[o][fs] \subseteq Fragments
  /\ id \in [Procs -> 0..(ProcIds - 1)]
  /\ \A p \in Procs : Range(starts[p]) \subseteq heap.live[p]
  /\ proc_id \in 1..(ProcIds - 1)
  /\ stalled \in BOOLEAN

\* No byte is handed out twice or waits on a stack while it is in use, whoever frees
\* fragments of pages of others and whoever exits (malloc, free, mem_kill_proc).
NoOverlap == \A o1, o2 \in Owners :
  /\ \A a \in heap.live[o1], b \in heap.live[o2] : (o1 # o2 \/ a # b) => ~Overlap(a, b)
  /\ \A a \in heap.live[o1], f \in OnStack(o2) : ~Overlap(a, f)
  /\ \A a \in OnStack(o1), b \in OnStack(o2) : (o1 # o2 \/ a # b) => ~Overlap(a, b)

\* The page table describes every block so that free() takes that block and nothing
\* else: its pages are used and linked up to the last one, its first page is not
\* linked to the page before it; every page with fragments on a stack is used.
BlocksHold ==
  /\ \A o \in Owners : \A b \in heap.live[o] :
       /\ Extent(b) \subseteq heap.map
       /\ heap.info[b.page].fs = b.fs
       /\ b.fs = 0 => Chain(heap, b.page) = Extent(b)
       /\ ~Locked(heap, b.page) => Locked(heap, b.page - 1) \/ ~heap.info[b.page - 1].cont
  /\ \A o \in Owners : \A f \in OnStack(o) : f.page \in heap.map /\ heap.info[f.page].fs = f.fs

FreeCountExact == heap.free = Cardinality(Pages \ heap.map)

OneIdlePage == \A o \in Owners : \A fs \in FragLogs :
  Cardinality({p \in Pages : Frags(p, fs) \subseteq heap.frags[o][fs]}) <= 1

\* Every variable has its type.  mem_num_pages_free, which malloc() and the exit of
\* every process trust, is the number of pages not in use.  At most one page of each
\* size lies idle on the stack of a process: the clean-up before each push catches up
\* with whatever was pushed before.
AccountsExact == TypeOK /\ FreeCountExact /\ OneIdlePage

Returned(p) == \A b \in heap.live[p] : b.fs = 0 => Extent(b) \cap heap'.map = {}

Exits(p) == id[p] # 0 /\ id'[p] = 0

\* A block of pages that is freed is free from then on, to its last page.  The pages
\* of a process that exits are free, its tables, stack and blocks alike, if its number
\* fits in the page table (mem_kill_proc).
FreedIsFree == [][
  /\ id' = id /\ (\A o \in Owners : heap'.live[o] \subseteq heap.live[o]) =>
       \A o \in Owners : \A b \in heap.live[o] \ heap'.live[o] :
         b.fs = 0 => Extent(b) \cap heap'.map = {}
  /\ \A p \in Procs : Exits(p) /\ id[p] < OwnerIds => Returned(p)]_vars
=============================================================================
