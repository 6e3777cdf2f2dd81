--------------------------------- MODULE Heap ---------------------------------
(***************************************************************************)
(* The memory allocator of tensix: pages and fragments of pages             *)
(* (kern/mem/mem.c), the search for a gap (lib/bitmap.c) and the calls that  *)
(* processes, their creation and exit and the buffer cache make.            *)
(*                                                                         *)
(* Every call runs without a switch, so that it is one action of whatever   *)
(* process has the CPU.  The order on a fragment stack is left out: any      *)
(* fragment on it may be the next one that is popped.                       *)
(***************************************************************************)
EXTENDS Naturals, SequencesExt

CONSTANTS
  NumPages,    \* NUM_PAGES
  StackPage,   \* KERNEL_STACKPAGE, from where on all pages are locked
  FragSizes,   \* FRAGMENT_SIZES
  StackMax,    \* entries in the page of a fragment stack
  Reserve,     \* MEM_WAIT_THRESHOLD
  OwnerIds,    \* process numbers that fit in a pageinfo_t
  ProcIds,     \* process numbers that fit in a proc_t
  Procs,       \* descriptors
  InitProc,    \* the first process
  TableLog,    \* fragment size of proc->objects and proc->dirs
  StackPages,  \* pages of a process' stack
  Requests,    \* what each owner asks for, see Page and Frag
  MaxLive,     \* bound: blocks that each owner has malloc'ed
  MaxId        \* bound: the last process number given out

KERNEL == "kernel"  \* proc_holographic, whose number is 0
NOBODY == "nobody"  \* has what is never freed

Pages    == 0..(NumPages - 1)
FragLogs == 1..FragSizes  \* logarithmic fragment sizes
Owners   == Procs \cup {KERNEL, NOBODY}

\* A request for n pages or for a fragment.
Page(n)  == [fs |-> 0, n |-> n]
Frag(fs) == [fs |-> fs, n |-> 1]

ASSUME HeapAssumption ==
  /\ {NumPages, FragSizes, StackMax, OwnerIds, ProcIds, StackPages} \subseteq Nat \ {0}
  /\ {Reserve, MaxId} \subseteq Nat /\ MaxLive \in [Owners -> Nat]
  /\ StackPage \in Nat /\ StackPage < NumPages /\ NumPages % 8 = 0 /\ MaxId < ProcIds
  /\ FragSizes < StackPage
  /\ TableLog \in FragLogs /\ 2 ^ FragSizes <= StackMax
  /\ \A fs \in FragLogs : 2 ^ fs \in Nat \ {0, 1}
  /\ {KERNEL, NOBODY} \cap Procs = {} /\ InitProc \in Procs
  /\ \A o \in Owners : \A r \in Requests[o] : \/ r = Page(r.n) /\ r.n \in Nat \ {0}
                                              \/ r = Frag(r.fs) /\ r.fs \in FragLogs

VARIABLES
  heap,     \* map: used pages (page_map); info: page_list; free:
            \* mem_num_pages_free; frags: the fragment stacks;
            \* live: blocks handed out and not freed, by whom they were asked for
  id,       \* proc->id, 0 for a free descriptor
  starts,   \* blocks a process was started with, in the order of allocation
  proc_id,  \* number of the next process
  stalled   \* a process waits for memory: the CPU never leaves it, see Sched

vars == <<heap, id, starts, proc_id, stalled>>

-----------------------------------------------------------------------------
(* Pages.                                                                  *)

FreeInfo == [fs |-> 0, cont |-> FALSE, proc |-> 0]

\* PAGE_LOCKED
Locked(h, p) == h.info[p].cont /\ h.info[p].fs # 0

\* fault: the last page is marked as continued, too.
PagesRefOpen(h, p, n, fs, i) ==
  [h EXCEPT !.free = @ - n,
            !.map  = @ \cup p..(p + n - 1),
            !.info = [q \in Pages |->
               IF q \in p..(p + n - 1)
               THEN [fs |-> fs, cont |-> n > 1, proc |-> i % OwnerIds]
               ELSE @[q]]]

\* mem_pages_ref: a page is marked if the next one continues it; of the process
\* number only the low bits are kept.
PagesRef(h, p, n, fs, i) ==
  [h EXCEPT !.free = @ - n,
            !.map  = @ \cup p..(p + n - 1),
            !.info = [q \in Pages |->
               IF q \in p..(p + n - 1)
               THEN [fs |-> fs, cont |-> q # p + n - 1, proc |-> i % OwnerIds]
               ELSE @[q]]]

\* fault: the page that holds the flag of the end is not counted.
PagesFreeButOne(h, P) ==
  [h EXCEPT !.free = @ + Cardinality({p \in P : h.info[p].cont}) + (IF Cardinality(P) = 1 THEN 1 ELSE 0),
            !.map  = @ \ P,
            !.info = [q \in Pages |-> IF q \in P THEN FreeInfo ELSE @[q]]]

\* PAGE_FREE, page by page
PagesFree(h, P) ==
  [h EXCEPT !.free = @ + Cardinality(P),
            !.map  = @ \ P,
            !.info = [q \in Pages |-> IF q \in P THEN FreeInfo ELSE @[q]]]

\* The page p and those that continue it.
Chain(h, p) == {q \in p..(NumPages - 1) : \A r \in p..(q - 1) : h.info[r].cont}

\* mem_pages_unref: nothing happens in the middle of a block.
PagesUnref(h, p) ==
  IF ~Locked(h, p - 1) /\ h.info[p - 1].cont THEN h ELSE PagesFree(h, Chain(h, p))

\* fault: the length of a gap is not checked.
SeekGap(map, n) ==
  LET Gap(b) == b \notin map IN
  IF \E b \in 1..(NumPages - n - 1) : Gap(b)
  THEN Min({b \in 1..(NumPages - n - 1) : Gap(b)}) ELSE 0

\* bitmap_seek from bit 0, where 0 stands for `nothing found'.  A full byte is
\* skipped by 8 bits from a bit that is not its first; the last position is
\* never tried.
Seek(map, n) ==
  LET Full(b) == b % 8 # 0 /\ {q \in Pages : q \div 8 = b \div 8} \subseteq map
      Bits(b) == map \cap b..(b + n - 1)
      from[k \in 0..NumPages] ==
        LET b == NumPages - k IN
        IF b >= NumPages - n THEN 0
        ELSE IF b \in map \/ Bits(b) = {} THEN
               IF b \notin map THEN b
               ELSE LET j == b + (IF Full(b) THEN 8 ELSE 1)
                    IN IF j > NumPages THEN 0 ELSE from[NumPages - j]
        ELSE from[NumPages - (Min(Bits(b)) + 1)]
  IN from[NumPages]

\* mem_page_alloc: the highest free page; 0 stands for failure.
SinglePage(map) == IF Pages \ map = {} THEN 0 ELSE Max(Pages \ map)

-----------------------------------------------------------------------------
(* Fragments.                                                              *)

Frags(p, fs) == [page : {p}, idx : 0..(2 ^ fs - 1)]

\* A block of h: the first page, and the index if it is a fragment.
Block(p, idx, r) == [page |-> p, idx |-> idx, fs |-> r.fs, n |-> r.n]

NoBlock == Block(0, 0, Page(0))  \* NULL

Outcome(h, o, b) == [h |-> [h EXCEPT !.live[o] = @ \cup {b}], b |-> b]

\* mem_frag_alloc with mem_frag_add_page.
FragAlloc(h, o, i, r) ==
  LET p == SinglePage(h.map)
      g == IF h.frags[o][r.fs] # {} \/ p = 0 THEN h
           ELSE [PagesRef(h, p, 1, r.fs, i) EXCEPT !.frags[o][r.fs] = Frags(p, r.fs)]
  IN {Outcome([g EXCEPT !.frags[o][r.fs] = @ \ {f}], o, Block(f.page, f.idx, r)) :
        f \in g.frags[o][r.fs]}

\* pmalloc2 for owner o with number i: the outcomes, none without memory.
Alloc(h, o, i, r) ==
  LET p == IF r.n = 1 THEN SinglePage(h.map) ELSE Seek(h.map, r.n)
  IN IF r.fs # 0 THEN FragAlloc(h, o, i, r)
     ELSE IF p = 0 THEN {}
     ELSE {Outcome(PagesRef(h, p, r.n, 0, i), o, Block(p, 0, r))}

\* fault: the page is freed with its last but one fragment.
CleanStackEarly(h, o, fs) ==
  LET S == h.frags[o][fs]
      whole == {p \in {f.page : f \in S} : Cardinality(Frags(p, fs) \ S) < 2}
  IN FoldSet(LAMBDA p, g : PagesUnref(g, p),
             [h EXCEPT !.frags[o][fs] = {f \in @ : f.page \notin whole}], whole)

\* mem_frag_clean_stack: pages all of whose fragments are on the stack are freed.
CleanStack(h, o, fs) ==
  LET S == h.frags[o][fs]
      whole == {p \in {f.page : f \in S} : Frags(p, fs) \subseteq S}
  IN FoldSet(LAMBDA p, g : PagesUnref(g, p),
             [h EXCEPT !.frags[o][fs] = {f \in @ : f.page \notin whole}], whole)

\* mem_frag_free: the fragment goes on the stack of the process that frees it, or
\* is lost if that is full.
FragFree(h, o, b) ==
  LET fs == h.info[b.page].fs
      g  == CleanStack(h, o, fs)
  IN IF Cardinality(g.frags[o][fs]) >= StackMax THEN g
     ELSE [g EXCEPT !.frags[o][fs] = @ \cup {[page |-> b.page, idx |-> b.idx]}]

\* free() of a block of owner w by process o.
FreeBlock(h, o, w, b) ==
  LET g == [h EXCEPT !.live[w] = @ \ {b}]
  IN IF h.info[b.page].fs = 0 THEN PagesUnref(g, b.page) ELSE FragFree(g, o, b)

\* bcleanup_glob, called by process o, frees the data of any unused buffers.
Cleanups(h, o) ==
  {FoldSet(LAMBDA b, g : FreeBlock(g, o, KERNEL, b), h, B) : B \in SUBSET h.live[KERNEL]}

\* pmalloc: a second try after bcleanup_glob; b is NoBlock if that fails too.
Pmalloc(h, cur, o, i, r) ==
  IF Alloc(h, o, i, r) # {} THEN Alloc(h, o, i, r)
  ELSE UNION {IF Alloc(g, o, i, r) # {} THEN Alloc(g, o, i, r) ELSE {[h |-> g, b |-> NoBlock]}
                : g \in Cleanups(h, cur)}

-----------------------------------------------------------------------------
(* Creation and exit of a process.                                         *)

\* One allocation for process q after the others; got are the blocks.
Grab(X, cur, q, i, r) ==
  UNION {IF NoBlock \in Range(x.got) THEN {x}
         ELSE {[h |-> o.h, got |-> Append(x.got, o.b)] : o \in Pmalloc(x.h, cur, q, i, r)} :
           x \in X}

\* mem_init_proc, fs_init_proc and proc_exec
Stacks  == [k \in 1..FragSizes |-> Page(1)]
Tables  == <<Page(1), Frag(TableLog), Frag(TableLog)>>
Context == <<Page(StackPages), Page(StackPages)>>

\* fault: pages that the next one continues are taken for locked ones.
KillPagesEnds(h, q, i) ==
  [PagesFree(h, {p \in h.map : ~h.info[p].cont /\ h.info[p].proc = i})
     EXCEPT !.live[q] = {}, !.frags[q] = [fs \in FragLogs |-> {}]]

\* mem_kill_proc: the pages with the number of the process.
KillPages(h, q, i) ==
  [PagesFree(h, {p \in h.map : ~Locked(h, p) /\ h.info[p].proc = i})
     EXCEPT !.live[q] = {}, !.frags[q] = [fs \in FragLogs |-> {}]]

\* fs_kill_proc, which frees the table of buffers and that of objects, and
\* mem_kill_proc by process cur; got are the blocks q was started with.
KillProc(h, cur, q, i, got) ==
  KillPages(FreeBlock(FreeBlock(h, cur, q, got[FragSizes + 1]), cur, q, got[FragSizes + 2]),
            q, i)

\* All a process needs, or the allocations up to the one that fails.
Starts(h, cur, q, i) ==
  FoldLeft(LAMBDA X, r : Grab(X, cur, q, i, r),
           {[h |-> [h EXCEPT !.frags[q] = [fs \in FragLogs |-> {}]], got |-> <<>>]},
           Stacks \o Tables \o Context)

Complete(x)   == NoBlock \notin Range(x.got)
FailsAt(x, k) == Len(x.got) = FragSizes + k /\ ~Complete(x)

\* proc_create without tables: the descriptor is given back, the memory is not.
Forsaken(h, q) == [h EXCEPT !.live[NOBODY] = @ \cup h.live[q], !.live[q] = {},
                            !.frags[q] = [fs \in FragLogs |-> {}]]

NextId == IF proc_id + 1 = ProcIds THEN 1 ELSE proc_id + 1

-----------------------------------------------------------------------------
(* mem_init(), and main() has started init: some kernel pages at both ends   *)
(* are locked, init's number is -1, and free() of the kernel stack page puts *)
(* it as a fragment on the stack of init, because locked pages have a size.  *)

Boot ==
  LET fixed == {0} \cup StackPage..(NumPages - 1)
      h == [map  |-> fixed \cup 1..FragSizes,
            info |-> [p \in Pages |-> IF p \in fixed THEN [fs |-> 1, cont |-> TRUE, proc |-> 0]
                                     ELSE FreeInfo],
            free |-> StackPage - 1 - FragSizes,
            frags |-> [o \in Owners |-> [fs \in FragLogs |-> {}]],
            live |-> [o \in Owners |-> IF o = NOBODY
                                     THEN {Block(p, 0, Page(1)) : p \in 1..FragSizes} ELSE {}]]
  IN {[h |-> FragFree(x.h, InitProc, Block(StackPage, 0, Frag(1))), got |-> x.got] :
        x \in Starts(h, KERNEL, InitProc, ProcIds - 1)}

\* The memory is enough for init, which nobody checks.
Init == \E x \in Boot :
  /\ Complete(x)
  /\ heap = x.h
  /\ id = [p \in Procs |-> IF p = InitProc THEN ProcIds - 1 ELSE 0]
  /\ starts = [p \in Procs |-> IF p = InitProc THEN x.got ELSE <<>>]
  /\ proc_id = 1
  /\ stalled = FALSE

\* Process p has the CPU.
Runs(p) == id[p] # 0 /\ ~stalled

\* What process p has got from malloc().
Own(p) == heap.live[p] \ Range(starts[p])

\* malloc(): while memory is low, unused buffers are freed, then the process
\* waits for ever, because lock_ref_wait never gives up the CPU.
Malloc(p, r) ==
  /\ Runs(p) /\ Cardinality(Own(p)) < MaxLive[p]
  /\ \E h \in IF heap.free < r.n + Reserve THEN Cleanups(heap, p) ELSE {heap} :
       IF h.free < r.n + Reserve
       THEN heap' = h /\ stalled' = TRUE
       ELSE /\ \E x \in Pmalloc(h, p, p, id[p], r) : heap' = x.h
            /\ UNCHANGED stalled
  /\ UNCHANGED <<id, starts, proc_id>>

\* kmalloc() by process p: data of a buffer, or a path.
Kmalloc(p, r) ==
  /\ Runs(p) /\ Cardinality(heap.live[KERNEL]) < MaxLive[KERNEL]
  /\ \E x \in Pmalloc(heap, p, KERNEL, 0, r) : heap' = x.h
  /\ UNCHANGED <<id, starts, proc_id, stalled>>

\* free() of what the process has allocated.
Free(p) ==
  /\ Runs(p)
  /\ \E b \in Own(p) : heap' = FreeBlock(heap, p, p, b)
  /\ UNCHANGED <<id, starts, proc_id, stalled>>

\* free() of a kernel block, by whoever drops the buffer: not its allocator.
Kfree(p) ==
  /\ Runs(p)
  /\ \E b \in heap.live[KERNEL] : heap' = FreeBlock(heap, p, KERNEL, b)
  /\ UNCHANGED <<id, starts, proc_id, stalled>>

\* Process p starts another one, with a new number, or fails to for lack of memory for
\* the tables.  Nobody checks the allocations for the fragment stacks and for the
\* context: that they fail is left out.
Spawn(p, q) ==
  /\ Runs(p) /\ id[q] = 0 /\ proc_id <= MaxId
  /\ \E x \in Starts(heap, p, q, proc_id) :
       \/ /\ Complete(x)
          /\ heap' = x.h
          /\ id' = [id EXCEPT ![q] = proc_id]
          /\ starts' = [starts EXCEPT ![q] = x.got]
       \/ /\ FailsAt(x, 1) \/ FailsAt(x, 2) \/ FailsAt(x, 3)
          /\ heap' = Forsaken(x.h, q)
          /\ UNCHANGED <<id, starts>>
  /\ proc_id' = NextId
  /\ UNCHANGED stalled

\* exit(): releasing what the process had open is in Kfree.
Exit(p) ==
  /\ Runs(p)
  /\ heap' = KillProc(heap, p, p, id[p], starts[p])
  /\ id' = [id EXCEPT ![p] = 0]
  /\ starts' = [starts EXCEPT ![p] = <<>>]
  /\ UNCHANGED <<proc_id, stalled>>

Next == \E p \in Procs :
  \/ Free(p) \/ Kfree(p) \/ Exit(p)
  \/ \E r \in Requests[p] : Malloc(p, r)
  \/ \E r \in Requests[KERNEL] : Kmalloc(p, r)
  \/ \E q \in Procs : Spawn(p, q)

Spec == Init /\ [][Next]_vars

\* No memory for the stack: proc_funexec kills the new process.
SpawnKilled(p, q) ==
  /\ Runs(p) /\ id[q] = 0 /\ proc_id <= MaxId
  /\ \E x \in Starts(heap, p, q, proc_id) :
       FailsAt(x, 4) /\ heap' = KillProc(x.h, p, q, proc_id, x.got)
  /\ proc_id' = NextId
  /\ UNCHANGED <<id, starts, stalled>>

\* The specification leaves that out, because free() then puts a table of the new
\* process on the fragment stack of the old one before its page is freed.
ShortSpec == Init /\ [][Next \/ \E p, q \in Procs : SpawnKilled(p, q)]_vars
=============================================================================
