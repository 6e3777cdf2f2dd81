------------------------------ MODULE SchedProps ------------------------------
(***************************************************************************)
(* What the scheduler of Sched.tla guarantees, and what the repository says  *)
(* of it.                                                                   *)
(***************************************************************************)
EXTENDS Sched, SequencesExt

Members(l) == Range(WalkFrom(s, s.first[l], NumProcs)) \ {NULL}

\* The members of the three lists, found by following the links.
Unused   == Members("unused")
Running  == Members("running")
Sleeping == Members("sleeping")

\* The members the lists should have.
Free    == {p \in Procs : prog[p] = "none"}
Awake   == {p \in Procs \ Free : s.runs[p]}
Napping == {p \in Procs \ Free : ~s.runs[p]}

Spins(p) == s.waits[p] # NULL
Stopped  == s.cur = NULL \/ \E p \in Procs : Spins(p)

-----------------------------------------------------------------------------
TypeOK ==
  /\ s \in [prev  : [Procs -> Procs \cup {NULL}], next : [Procs -> Procs \cup {NULL}],
            first : [Lists -> Procs \cup {NULL}], last : [Lists -> Procs \cup {NULL}],
            runs  : [Procs -> BOOLEAN], waits : [Procs -> Locks \cup {NULL}],
            lock  : [Locks -> Nat], cur : Procs \cup {NULL}]
  /\ prog \in [Procs -> {"none", "init", "sh"} \cup Daemons]
  /\ pc \in [Procs -> {"user", "nap", "end"}]
  /\ todo \in Seq({"syncer", "iod", "sh"})
  /\ daemon \in [Daemons -> Procs \cup {NULL}]
  /\ restart \in BOOLEAN
  /\ holds \in [Owners -> SUBSET Locks]

ListsMatchState == Running = Awake /\ Sleeping = Napping /\ Unused = Free

Closed(P, l) ==
  /\ IF P = {} THEN s.first[l] = NULL /\ s.last[l] = NULL
               ELSE s.first[l] \in P /\ s.last[l] # NULL
  /\ \A p \in P : /\ s.next[p] \in P /\ s.prev[s.next[p]] = p
                  /\ s.prev[p] \in P /\ s.next[s.prev[p]] = p

RingsLinked == Closed(Awake, "running") /\ Closed(Napping, "sleeping")

\* Every variable has its type.  Whatever sleeps, wakes, ends or fails to start, every
\* descriptor is in one of the three lists, and which of the two rings a process is in
\* is what its PROC_RUNNING bit says (proc_sleep, proc_wakeup, proc_kill, proc_create).
\* A step along next or prev never leaves the ring, prev undoes next, and a header is
\* NULL only for an empty ring although clist_remove never moves list->last on: the
\* switch and clist_insert rely on it.
ListsExact == TypeOK /\ ListsMatchState /\ RingsLinked

\* The process on the CPU is not asleep as long as there is one that is not, and
\* the system is shut down only when nobody runs (proc_sleep, proc_kill).
CpuIsUsed == Awake # {} => s.cur \in Awake

\* A restart request is never left with a syncer that sleeps, although
\* SYNCER_AVOID_WAKEUP leaves out the wakeup of every further request.
RestartNotLost == restart => s.cur = NULL \/ s.runs[daemon["syncer"]]

\* Who has a lock and who waits for it.
Holders(l) == {p \in Owners : l \in holds[p]}
Waiters(l) == {p \in Procs : s.waits[p] = l}

\* A lock counter is the number of processes that own or want the lock, and no two of
\* them own it, also across switches and exits (lock_ref2, lock_unref, proc_kill).  A
\* process that ends leaves the counts of its locks behind, which is not what lock.c:16
\* promises: they are not released, nobody gets them again, and nobody else's is released
\* for them.
LockExact == \A l \in Locks :
  /\ s.lock[l] = Cardinality(Holders(l)) + Cardinality(Waiters(l))
  /\ Cardinality(Holders(l)) <= 1

-----------------------------------------------------------------------------
\* The lists implement the ready queue: next->prev is the right process to go on
\* with, nobody is passed over, nobody is put before the process on the CPU.
RQ == INSTANCE ReadyQueue WITH
  ready  <- IF s.cur = NULL \/ s.cur \notin Running THEN <<>>
            ELSE WalkFrom(s, s.cur, Cardinality(Running)),
  asleep <- Sleeping
ImplementsReadyQueue == RQ!Spec

\* A process that is not asleep gets the CPU again, however often the others
\* sleep, wake each other and start new ones, unless the system stops.
NoStarvation == \A p \in Procs :
  (p \in Running) ~> (s.cur = p \/ p \notin Running \/ Stopped)

\* A restart request is served.
RestartServed == restart ~> (~restart \/ Stopped)

=============================================================================
