---------------------------- MODULE Sched_proofs ----------------------------
(***************************************************************************)
(* The scheduler keeps its lists, its CPU, its locks and the syncer's        *)
(* restart request in order, for any number of processes and locks.         *)
(***************************************************************************)
EXTENDS SchedProps, SequenceTheorems, Queue_proofs

-----------------------------------------------------------------------------
(* The inductive invariant.                                                *)

SchedRec ==
  [prev  : [Procs -> Procs \cup {NULL}], next : [Procs -> Procs \cup {NULL}],
   first : [Lists -> Procs \cup {NULL}], last : [Lists -> Procs \cup {NULL}],
   runs  : [Procs -> BOOLEAN], waits : [Procs -> Locks \cup {NULL}],
   lock  : [Locks -> Nat], cur : Procs \cup {NULL}]

\* The three lists have the members A, N and F.
Linked(k, A, N, F) ==
  /\ OnRing(k, "running", A) /\ OnRing(k, "sleeping", N) /\ OnChain(k, "unused", F)
  /\ A \cap N = {} /\ A \cap F = {} /\ N \cap F = {} /\ A \cup N \cup F = Procs

\* Somebody has the CPU until the system is shut down, and it is nobody asleep
\* unless everybody is.
CpuInv == /\ s.cur # NULL => s.cur \in Awake \cup Napping
          /\ Awake # {} => s.cur \in Awake

\* A process that sleeps has called sleep().
NapInv == \A p \in Napping : pc[p] # "user"

DaemonInv == \A d \in Daemons : daemon[d] # NULL => prog[daemon[d]] = d

RestartInv == restart => daemon["syncer"] # NULL /\ s.runs[daemon["syncer"]]

\* Who waits for a lock has the CPU and keeps it.
WaitInv == \A p \in Procs : s.waits[p] # NULL => s.cur = p /\ pc[p] = "user"

SchedInv ==
  /\ TypeOK /\ Linked(s, Awake, Napping, Free)
  /\ CpuInv /\ NapInv /\ DaemonInv /\ RestartInv /\ WaitInv /\ LockExact

-----------------------------------------------------------------------------
(* The record of lists, field by field.                                    *)

\* The fields that are no links.
Rest(k, runs, waits, lock, cur) ==
  k.runs = runs /\ k.waits = waits /\ k.lock = lock /\ k.cur = cur

LEMMA NullNoProc == NULL \notin Procs
BY DEF Procs, NULL

LEMMA RecLinks ==
  ASSUME NEW k \in SchedRec
  PROVE  Links(k, Procs, Lists)
<1>1. IsHeap(k)
  BY DEF SchedRec, IsHeap, LinkFields
<1> QED
  BY <1>1, NullNoProc DEF SchedRec, Links

LEMMA LinksRec ==
  ASSUME NEW k \in SchedRec, NEW j, OnlyLinks(k, j), Links(j, Procs, Lists)
  PROVE  j \in SchedRec /\ Rest(j, k.runs, k.waits, k.lock, k.cur)
<1>1. DOMAIN k = {"prev", "next", "first", "last", "runs", "waits", "lock", "cur"}
  BY DEF SchedRec
<1>2. /\ k.runs \in [Procs -> BOOLEAN] /\ k.waits \in [Procs -> Locks \cup {NULL}]
      /\ k.lock \in [Locks -> Nat] /\ k.cur \in Procs \cup {NULL}
  BY DEF SchedRec
<1>3. DOMAIN j = DOMAIN k /\ \A f \in DOMAIN k : f \notin LinkFields => j[f] = k[f]
  BY DEF OnlyLinks
<1>4. j.runs = k.runs
  BY <1>1, <1>3, Zenon DEF LinkFields
<1>5. j.waits = k.waits
  BY <1>1, <1>3, Zenon DEF LinkFields
<1>6. j.lock = k.lock
  BY <1>1, <1>3, Zenon DEF LinkFields
<1>7. j.cur = k.cur
  BY <1>1, <1>3, Zenon DEF LinkFields
<1>8. IsHeap(j)
  BY DEF OnlyLinks
<1>9. /\ j.runs \in [Procs -> BOOLEAN] /\ j.waits \in [Procs -> Locks \cup {NULL}]
      /\ j.lock \in [Locks -> Nat] /\ j.cur \in Procs \cup {NULL}
  BY <1>2, <1>4, <1>5, <1>6, <1>7
<1>10. j \in SchedRec
  BY <1>1, <1>3, <1>8, <1>9, Zenon DEF IsHeap, SchedRec, Links
<1> QED
  BY <1>4, <1>5, <1>6, <1>7, <1>10 DEF Rest

LEMMA SetRuns ==
  ASSUME NEW k \in SchedRec, NEW p \in Procs, NEW b \in BOOLEAN
  PROVE  LET j == [k EXCEPT !.runs[p] = b]
         IN /\ j \in SchedRec /\ Fields(j, k.next, k.prev, k.first, k.last)
            /\ Rest(j, [k.runs EXCEPT ![p] = b], k.waits, k.lock, k.cur)
BY DEF SchedRec, Fields, Rest

LEMMA SetWaits ==
  ASSUME NEW k \in SchedRec, NEW p \in Procs, NEW l \in Locks \cup {NULL}
  PROVE  LET j == [k EXCEPT !.waits[p] = l]
         IN /\ j \in SchedRec /\ Fields(j, k.next, k.prev, k.first, k.last)
            /\ Rest(j, k.runs, [k.waits EXCEPT ![p] = l], k.lock, k.cur)
BY DEF SchedRec, Fields, Rest

LEMMA SetLock ==
  ASSUME NEW k \in SchedRec, NEW l \in Locks, NEW n \in Nat
  PROVE  LET j == [k EXCEPT !.lock[l] = n]
         IN /\ j \in SchedRec /\ Fields(j, k.next, k.prev, k.first, k.last)
            /\ Rest(j, k.runs, k.waits, [k.lock EXCEPT ![l] = n], k.cur)
BY DEF SchedRec, Fields, Rest

LEMMA SetCur ==
  ASSUME NEW k \in SchedRec, NEW p \in Procs \cup {NULL}
  PROVE  LET j == [k EXCEPT !.cur = p]
         IN /\ j \in SchedRec /\ Fields(j, k.next, k.prev, k.first, k.last)
            /\ Rest(j, k.runs, k.waits, k.lock, p)
BY DEF SchedRec, Fields, Rest

LEMMA LinkedFields ==
  ASSUME NEW k, NEW j, Fields(j, k.next, k.prev, k.first, k.last),
         NEW A, NEW N, NEW F, Linked(k, A, N, F)
  PROVE  Linked(j, A, N, F)
BY DEF Fields, Linked, OnRing, OnChain

LEMMA RunsSet ==
  ASSUME NEW f \in [Procs -> BOOLEAN], NEW q \in Procs, NEW b \in BOOLEAN,
         NEW g, g = [f EXCEPT ![q] = b]
  PROVE  g[q] = b /\ \A r \in Procs \ {q} : g[r] = f[r]
OBVIOUS

-----------------------------------------------------------------------------
(* Processes move between the lists.                                       *)

\* From one ring to the other: proc_wakeup, proc_sleep.
LEMMA MoveRing ==
  ASSUME NEW k \in SchedRec, NEW A, NEW N, NEW F, NEW p \in Procs
  PROVE  LET up == ClistInsert(ClistRemove(k, "sleeping", p), "running", p)
             dn == ClistInsert(ClistRemove(k, "running", p), "sleeping", p)
         IN /\ Linked(k, A, N, F) /\ p \in N =>
                 /\ up \in SchedRec /\ Linked(up, A \cup {p}, N \ {p}, F)
                 /\ Rest(up, k.runs, k.waits, k.lock, k.cur)
            /\ Linked(k, A, N, F) /\ p \in A =>
                 /\ dn \in SchedRec /\ Linked(dn, A \ {p}, N \cup {p}, F)
                 /\ Rest(dn, k.runs, k.waits, k.lock, k.cur)
<1> DEFINE u == ClistRemove(k, "sleeping", p)
           up == ClistInsert(u, "running", p)
           d == ClistRemove(k, "running", p)
           dn == ClistInsert(d, "sleeping", p)
<1>0. Links(k, Procs, Lists) /\ "running" \in Lists /\ "sleeping" \in Lists /\ "unused" \in Lists
  BY RecLinks DEF Lists
<1>1. ASSUME Linked(k, A, N, F), p \in N
      PROVE  /\ up \in SchedRec /\ Linked(up, A \cup {p}, N \ {p}, F)
             /\ Rest(up, k.runs, k.waits, k.lock, k.cur)
  <2>0. A \subseteq Procs /\ N \subseteq Procs /\ F \subseteq Procs /\ p \notin A /\ p \notin F
    BY <1>1 DEF Linked
  <2>1. /\ Links(u, Procs, Lists) /\ OnlyLinks(k, u) /\ OnRing(u, "sleeping", N \ {p})
        /\ Elsewhere(k, u, Procs, Lists, "sleeping", N)
    BY <1>0, <1>1, <2>0, ClistRemoveList DEF Linked
  <2> HIDE DEF u
  <2>2. OnRing(u, "running", A) /\ OnChain(u, "unused", F)
    <3>1. A \cap N = {} /\ F \cap N = {} /\ OnRing(k, "running", A) /\ OnChain(k, "unused", F)
      BY <1>1 DEF Linked
    <3> QED
      BY <1>0, <2>0, <2>1, <3>1, RingElsewhere, ChainElsewhere
  <2>3. /\ Links(up, Procs, Lists) /\ OnlyLinks(u, up) /\ OnRing(up, "running", A \cup {p})
        /\ Elsewhere(u, up, Procs, Lists, "running", A \cup {p})
    BY <1>0, <2>0, <2>1, <2>2, ClistInsertList
  <2> HIDE DEF up
  <2>4. OnRing(up, "sleeping", N \ {p}) /\ OnChain(up, "unused", F)
    <3>1. (N \ {p}) \cap (A \cup {p}) = {} /\ F \cap (A \cup {p}) = {} /\ N \ {p} \subseteq Procs
      BY <1>1, <2>0 DEF Linked
    <3> QED
      BY <1>0, <2>0, <2>1, <2>2, <2>3, <3>1, RingElsewhere, ChainElsewhere
  <2>5. OnlyLinks(k, up)
    BY <2>1, <2>3, OnlyTwice
  <2>6. Linked(up, A \cup {p}, N \ {p}, F)
    BY <1>1, <2>3, <2>4 DEF Linked
  <2> QED
    BY <2>3, <2>5, <2>6, LinksRec
<1>2. ASSUME Linked(k, A, N, F), p \in A
      PROVE  /\ dn \in SchedRec /\ Linked(dn, A \ {p}, N \cup {p}, F)
             /\ Rest(dn, k.runs, k.waits, k.lock, k.cur)
  <2>0. A \subseteq Procs /\ N \subseteq Procs /\ F \subseteq Procs /\ p \notin N /\ p \notin F
    BY <1>2 DEF Linked
  <2>1. /\ Links(d, Procs, Lists) /\ OnlyLinks(k, d) /\ OnRing(d, "running", A \ {p})
        /\ Elsewhere(k, d, Procs, Lists, "running", A)
    BY <1>0, <1>2, <2>0, ClistRemoveList DEF Linked
  <2> HIDE DEF d
  <2>2. OnRing(d, "sleeping", N) /\ OnChain(d, "unused", F)
    <3>1. N \cap A = {} /\ F \cap A = {} /\ OnRing(k, "sleeping", N) /\ OnChain(k, "unused", F)
      BY <1>2 DEF Linked
    <3> QED
      BY <1>0, <2>0, <2>1, <3>1, RingElsewhere, ChainElsewhere
  <2>3. /\ Links(dn, Procs, Lists) /\ OnlyLinks(d, dn) /\ OnRing(dn, "sleeping", N \cup {p})
        /\ Elsewhere(d, dn, Procs, Lists, "sleeping", N \cup {p})
    BY <1>0, <2>0, <2>1, <2>2, ClistInsertList
  <2> HIDE DEF dn
  <2>4. OnRing(dn, "running", A \ {p}) /\ OnChain(dn, "unused", F)
    <3>1. (A \ {p}) \cap (N \cup {p}) = {} /\ F \cap (N \cup {p}) = {} /\ A \ {p} \subseteq Procs
      BY <1>2, <2>0 DEF Linked
    <3> QED
      BY <1>0, <2>0, <2>1, <2>2, <2>3, <3>1, RingElsewhere, ChainElsewhere
  <2>5. OnlyLinks(k, dn)
    BY <2>1, <2>3, OnlyTwice
  <2>6. Linked(dn, A \ {p}, N \cup {p}, F)
    BY <1>2, <2>3, <2>4 DEF Linked
  <2> QED
    BY <2>3, <2>5, <2>6, LinksRec
<1> QED
  BY <1>1, <1>2

\* A step along a ring stays in it, and a step back undoes it.
LEMMA RingStep ==
  ASSUME NEW k, NEW A, NEW N, NEW F, Linked(k, A, N, F)
  PROVE  /\ \A p \in A : /\ k.next[p] \in A /\ k.prev[p] \in A
                         /\ k.next[k.prev[p]] = p /\ k.prev[k.next[p]] = p
                         /\ k.next[p] = p => A = {p}
         /\ \A p \in N : k.next[p] \in N /\ k.prev[p] \in N
<1>1. IsRing(A, k.next, k.prev) /\ IsRing(N, k.next, k.prev)
  BY DEF Linked, OnRing
<1>2. \A p \in A : k.next[p] = p => A = {p}
  BY <1>1, RingAlone
<1> QED
  BY <1>1, <1>2 DEF IsRing

LEMMA WakeupEffect ==
  ASSUME NEW k \in SchedRec, NEW A, NEW N, NEW F, Linked(k, A, N, F),
         NEW p \in N, ~k.runs[p]
  PROVE  /\ Wakeup(k, p) \in SchedRec /\ Linked(Wakeup(k, p), A \cup {p}, N \ {p}, F)
         /\ Rest(Wakeup(k, p), [k.runs EXCEPT ![p] = TRUE], k.waits, k.lock, k.cur)
<1> DEFINE j == [k EXCEPT !.runs[p] = TRUE]
<1>0. p \in Procs
  BY DEF Linked
<1>1. /\ j \in SchedRec /\ Fields(j, k.next, k.prev, k.first, k.last)
      /\ Rest(j, [k.runs EXCEPT ![p] = TRUE], k.waits, k.lock, k.cur)
  BY <1>0, SetRuns
<1>2. Wakeup(k, p) = ClistInsert(ClistRemove(j, "sleeping", p), "running", p)
  BY DEF Wakeup
<1> HIDE DEF j
<1>3. Linked(j, A, N, F)
  BY <1>1, LinkedFields
<1> DEFINE u == ClistInsert(ClistRemove(j, "sleeping", p), "running", p)
<1>4. /\ u \in SchedRec /\ Linked(u, A \cup {p}, N \ {p}, F)
      /\ Rest(u, j.runs, j.waits, j.lock, j.cur)
  BY <1>0, <1>1, <1>3, MoveRing
<1> HIDE DEF u
<1>5. Rest(u, [k.runs EXCEPT ![p] = TRUE], k.waits, k.lock, k.cur)
  BY <1>1, <1>4 DEF Rest
<1> QED
  BY <1>2, <1>4, <1>5 DEF u

Woken(k, j, A, N, F, p) ==
  /\ j \in SchedRec /\ Linked(j, A \cup {p}, N \ {p}, F)
  /\ Rest(j, [k.runs EXCEPT ![p] = TRUE], k.waits, k.lock, k.cur)

LEMMA WokenBy ==
  ASSUME NEW k \in SchedRec, NEW A, NEW N, NEW F, Linked(k, A, N, F),
         NEW p \in N, ~k.runs[p], NEW j, j = Wakeup(k, p)
  PROVE  Woken(k, j, A, N, F, p)
BY WakeupEffect DEF Woken

\* The current process goes to sleep.  The next one gets the CPU; if there is none
\* the CPU stays with somebody asleep.
LEMMA ProcSleepEffect ==
  ASSUME NEW k \in SchedRec, NEW A, NEW N, NEW F, Linked(k, A, N, F),
         NEW p \in A, k.runs[p], k.waits[p] = NULL, p = k.cur
  PROVE  LET j == ProcSleep(k, p)
         IN /\ j \in SchedRec /\ Linked(j, A \ {p}, N \cup {p}, F)
            /\ Rest(j, [k.runs EXCEPT ![p] = FALSE], k.waits, k.lock, j.cur)
            /\ A \ {p} # {} => j.cur = k.next[p] /\ j.cur \in A \ {p}
            /\ A \ {p} = {} => j.cur \in N \cup {p}
<1> DEFINE i == [k EXCEPT !.runs[p] = FALSE]
           t == ClistInsert(ClistRemove(i, "running", p), "sleeping", p)
           n == k.next[p]
           c == [t EXCEPT !.cur = t.prev[n]]
           j == [c EXCEPT !.cur = c.next[@]]
<1>0. p \in Procs /\ A \subseteq Procs /\ N \subseteq Procs
  BY DEF Linked
<1>1. /\ i \in SchedRec /\ Fields(i, k.next, k.prev, k.first, k.last)
      /\ Rest(i, [k.runs EXCEPT ![p] = FALSE], k.waits, k.lock, k.cur)
  BY <1>0, SetRuns
<1>2. ProcSleep(k, p) = j
  BY DEF ProcSleep, Switch
<1> HIDE DEF i
<1>3. Linked(i, A, N, F)
  BY <1>1, LinkedFields
<1>4. /\ t \in SchedRec /\ Linked(t, A \ {p}, N \cup {p}, F)
      /\ Rest(t, i.runs, i.waits, i.lock, i.cur)
  BY <1>0, <1>1, <1>3, MoveRing
<1> HIDE DEF t
<1>5. n \in A /\ (n = p => A = {p})
  BY RingStep
<1> HIDE DEF n
<1>6. CASE A \ {p} # {}
  <2>1. n \in A \ {p}
    BY <1>5, <1>6
  <2>2. t.prev[n] \in Procs /\ t.next[t.prev[n]] = n
    BY <1>0, <1>4, <2>1, RingStep
  <2>3. c \in SchedRec /\ Fields(c, t.next, t.prev, t.first, t.last)
        /\ Rest(c, t.runs, t.waits, t.lock, t.prev[n])
    BY <1>4, <2>2, SetCur
  <2> HIDE DEF c
  <2>4. c.next[c.cur] = n
    BY <2>2, <2>3 DEF Fields, Rest
  <2>5. j \in SchedRec /\ Fields(j, c.next, c.prev, c.first, c.last)
        /\ Rest(j, c.runs, c.waits, c.lock, n)
    BY <1>0, <2>1, <2>3, <2>4, SetCur
  <2> HIDE DEF j
  <2>6. Linked(j, A \ {p}, N \cup {p}, F)
    BY <1>4, <2>3, <2>5, LinkedFields
  <2>7. Rest(j, [k.runs EXCEPT ![p] = FALSE], k.waits, k.lock, n)
    BY <1>1, <1>4, <2>3, <2>5 DEF Rest
  <2> QED
    BY <1>2, <1>6, <2>1, <2>5, <2>6, <2>7 DEF Rest, n
<1>7. CASE A \ {p} = {}
  <2>1. n = p
    BY <1>5, <1>7
  <2>2. t.prev[n] \in N \cup {p} /\ t.next[t.prev[n]] \in N \cup {p}
    BY <1>4, <2>1, RingStep
  <2>3. c \in SchedRec /\ Fields(c, t.next, t.prev, t.first, t.last)
        /\ Rest(c, t.runs, t.waits, t.lock, t.prev[n])
    BY <1>0, <1>4, <2>2, SetCur
  <2> HIDE DEF c
  <2>4. c.next[c.cur] \in N \cup {p}
    BY <2>2, <2>3 DEF Fields, Rest
  <2>5. j \in SchedRec /\ Fields(j, c.next, c.prev, c.first, c.last)
        /\ Rest(j, c.runs, c.waits, c.lock, c.next[c.cur])
    BY <1>0, <2>3, <2>4, SetCur
  <2> HIDE DEF j
  <2>6. Linked(j, A \ {p}, N \cup {p}, F)
    BY <1>4, <2>3, <2>5, LinkedFields
  <2>7. Rest(j, [k.runs EXCEPT ![p] = FALSE], k.waits, k.lock, j.cur)
    BY <1>1, <1>4, <2>3, <2>5 DEF Rest
  <2> QED
    BY <1>2, <1>7, <2>4, <2>5, <2>6, <2>7 DEF Rest
<1> QED
  BY <1>6, <1>7

Slept(k, j, A, N, F, p) ==
  /\ j \in SchedRec /\ Linked(j, A \ {p}, N \cup {p}, F)
  /\ Rest(j, [k.runs EXCEPT ![p] = FALSE], k.waits, k.lock, j.cur)
  /\ A \ {p} # {} => j.cur = k.next[p] /\ j.cur \in A \ {p}
  /\ A \ {p} = {} => j.cur \in N \cup {p}

LEMMA SleptBy ==
  ASSUME NEW k \in SchedRec, NEW A, NEW N, NEW F, Linked(k, A, N, F),
         NEW p \in A, k.runs[p], k.waits[p] = NULL, p = k.cur, NEW j, j = ProcSleep(k, p)
  PROVE  Slept(k, j, A, N, F, p)
BY ProcSleepEffect DEF Slept

\* The last descriptor of the pool is taken out of it.
LEMMA PopEffect ==
  ASSUME NEW k \in SchedRec, NEW A, NEW N, NEW F, Linked(k, A, N, F),
         NEW q, q = k.last["unused"], q # NULL
  PROVE  LET j == [DequeuePop(k, "unused") EXCEPT !.runs[q] = FALSE]
         IN /\ q \in F /\ j \in SchedRec
            /\ OnRing(j, "running", A) /\ OnRing(j, "sleeping", N)
            /\ OnChain(j, "unused", F \ {q})
            /\ Rest(j, [k.runs EXCEPT ![q] = FALSE], k.waits, k.lock, k.cur)
<1> DEFINE d == DequeuePop(k, "unused")
           j == [d EXCEPT !.runs[q] = FALSE]
<1>0. /\ Links(k, Procs, Lists)
      /\ "running" \in Lists /\ "sleeping" \in Lists /\ "unused" \in Lists
      /\ A \subseteq Procs /\ N \subseteq Procs /\ F \subseteq Procs
      /\ A \cap F = {} /\ N \cap F = {}
      /\ OnRing(k, "running", A) /\ OnRing(k, "sleeping", N) /\ OnChain(k, "unused", F)
  BY RecLinks DEF Lists, Linked
<1>1. /\ Links(d, Procs, Lists) /\ OnlyLinks(k, d) /\ OnChain(d, "unused", F \ {q})
      /\ Elsewhere(k, d, Procs, Lists, "unused", F) /\ q \in F
  BY <1>0, DequeuePopList
<1> HIDE DEF d
<1>2. OnRing(d, "running", A) /\ OnRing(d, "sleeping", N)
  BY <1>0, <1>1, RingElsewhere
<1>3. d \in SchedRec /\ Rest(d, k.runs, k.waits, k.lock, k.cur)
  BY <1>1, LinksRec
<1>4. /\ j \in SchedRec /\ Fields(j, d.next, d.prev, d.first, d.last)
      /\ Rest(j, [d.runs EXCEPT ![q] = FALSE], d.waits, d.lock, d.cur)
  BY <1>0, <1>1, <1>3, SetRuns
<1> HIDE DEF j
<1>5. OnRing(j, "running", A) /\ OnRing(j, "sleeping", N) /\ OnChain(j, "unused", F \ {q})
  BY <1>1, <1>2, <1>4 DEF Fields, OnRing, OnChain
<1>6. Rest(j, [k.runs EXCEPT ![q] = FALSE], k.waits, k.lock, k.cur)
  BY <1>3, <1>4 DEF Rest
<1> QED
  BY <1>1, <1>4, <1>5, <1>6 DEF j, d

LEMMA ProcCreateEffect ==
  ASSUME NEW k \in SchedRec, NEW A, NEW N, NEW F, Linked(k, A, N, F),
         NEW q, q = k.last["unused"], q # NULL
  PROVE  /\ q \in F /\ ProcCreate(k) \in SchedRec
         /\ Linked(ProcCreate(k), A, N \cup {q}, F \ {q})
         /\ Rest(ProcCreate(k), [k.runs EXCEPT ![q] = FALSE], k.waits, k.lock, k.cur)
<1> DEFINE j == [DequeuePop(k, "unused") EXCEPT !.runs[q] = FALSE]
           i == ClistInsert(j, "sleeping", q)
<1>1. /\ q \in F /\ j \in SchedRec
      /\ OnRing(j, "running", A) /\ OnRing(j, "sleeping", N) /\ OnChain(j, "unused", F \ {q})
      /\ Rest(j, [k.runs EXCEPT ![q] = FALSE], k.waits, k.lock, k.cur)
  BY PopEffect
<1>2. ProcCreate(k) = i
  BY DEF ProcCreate
<1> HIDE DEF j
<1>3. /\ Links(j, Procs, Lists)
      /\ "running" \in Lists /\ "sleeping" \in Lists /\ "unused" \in Lists
      /\ A \subseteq Procs /\ N \subseteq Procs /\ F \subseteq Procs
      /\ A \cap F = {} /\ N \cap F = {} /\ A \cap N = {}
  BY <1>1, RecLinks DEF Lists, Linked
<1>4. /\ Links(i, Procs, Lists) /\ OnlyLinks(j, i) /\ OnRing(i, "sleeping", N \cup {q})
      /\ Elsewhere(j, i, Procs, Lists, "sleeping", N \cup {q})
  <2>1. q \in Procs /\ q \notin N
    BY <1>1, <1>3
  <2> QED
    BY <1>1, <1>3, <2>1, ClistInsertList
<1> HIDE DEF i
<1>5. OnRing(i, "running", A) /\ OnChain(i, "unused", F \ {q})
  <2>1. A \cap (N \cup {q}) = {} /\ (F \ {q}) \cap (N \cup {q}) = {} /\ F \ {q} \subseteq Procs
    BY <1>1, <1>3
  <2> QED
    BY <1>1, <1>3, <1>4, <2>1, RingElsewhere, ChainElsewhere
<1>6. i \in SchedRec /\ Rest(i, j.runs, j.waits, j.lock, j.cur)
  BY <1>1, <1>4, LinksRec
<1>7. Linked(i, A, N \cup {q}, F \ {q})
  BY <1>1, <1>4, <1>5 DEF Linked
<1>8. Rest(i, [k.runs EXCEPT ![q] = FALSE], k.waits, k.lock, k.cur)
  BY <1>1, <1>6 DEF Rest
<1> QED
  BY <1>1, <1>2, <1>6, <1>7, <1>8

\* A descriptor goes back to the pool.
LEMMA PushEffect ==
  ASSUME NEW k \in SchedRec, NEW A, NEW N, NEW F, NEW q \in Procs,
         q \notin A, q \notin N, q \notin F,
         OnRing(k, "running", A), OnRing(k, "sleeping", N), OnChain(k, "unused", F),
         A \cap F = {}, N \cap F = {}, A \cap N = {}, A \cup N \cup F \cup {q} = Procs
  PROVE  LET j == DequeuePush(k, "unused", q)
         IN /\ j \in SchedRec /\ Linked(j, A, N, F \cup {q})
            /\ Rest(j, k.runs, k.waits, k.lock, k.cur)
<1> DEFINE j == DequeuePush(k, "unused", q)
<1>0. /\ Links(k, Procs, Lists)
      /\ "running" \in Lists /\ "sleeping" \in Lists /\ "unused" \in Lists
      /\ A \subseteq Procs /\ N \subseteq Procs /\ F \subseteq Procs
  BY RecLinks DEF Lists
<1>1. /\ Links(j, Procs, Lists) /\ OnlyLinks(k, j) /\ OnChain(j, "unused", F \cup {q})
      /\ Elsewhere(k, j, Procs, Lists, "unused", F \cup {q})
  BY <1>0, DequeuePushList
<1> HIDE DEF j
<1>2. OnRing(j, "running", A) /\ OnRing(j, "sleeping", N)
  <2>1. A \cap (F \cup {q}) = {} /\ N \cap (F \cup {q}) = {}
    OBVIOUS
  <2> QED
    BY <1>0, <1>1, <2>1, RingElsewhere
<1>3. Linked(j, A, N, F \cup {q})
  BY <1>1, <1>2 DEF Linked
<1> QED
  BY <1>1, <1>3, LinksRec DEF j

LEMMA ProcCreateFailsEffect ==
  ASSUME NEW k \in SchedRec, NEW A, NEW N, NEW F, Linked(k, A, N, F),
         NEW q, q = k.last["unused"], q # NULL
  PROVE  LET j == ProcCreateFails(k)
         IN /\ q \in F /\ j \in SchedRec /\ Linked(j, A, N, F)
            /\ Rest(j, [k.runs EXCEPT ![q] = FALSE], k.waits, k.lock, k.cur)
<1> DEFINE i == [DequeuePop(k, "unused") EXCEPT !.runs[q] = FALSE]
           j == DequeuePush(i, "unused", q)
<1>1. /\ q \in F /\ i \in SchedRec
      /\ OnRing(i, "running", A) /\ OnRing(i, "sleeping", N) /\ OnChain(i, "unused", F \ {q})
      /\ Rest(i, [k.runs EXCEPT ![q] = FALSE], k.waits, k.lock, k.cur)
  BY PopEffect
<1>2. ProcCreateFails(k) = j
  BY DEF ProcCreateFails
<1> HIDE DEF i
<1> DEFINE G == F \ {q}
<1>3. /\ q \in Procs /\ q \notin A /\ q \notin N /\ q \notin G
      /\ A \cap G = {} /\ N \cap G = {} /\ A \cap N = {} /\ A \cup N \cup G \cup {q} = Procs
      /\ OnChain(i, "unused", G) /\ G \cup {q} = F
  BY <1>1 DEF Linked
<1> HIDE DEF G
<1>4. j \in SchedRec /\ Linked(j, A, N, G \cup {q}) /\ Rest(j, i.runs, i.waits, i.lock, i.cur)
  BY <1>1, <1>3, PushEffect
<1> HIDE DEF j
<1>5. Rest(j, [k.runs EXCEPT ![q] = FALSE], k.waits, k.lock, k.cur)
  BY <1>1, <1>4 DEF Rest
<1> QED
  BY <1>1, <1>2, <1>3, <1>4, <1>5

\* A process is removed: the lists, and who gets the CPU if it had it.
Killed(k, i, A, N, F, p) ==
  /\ i \in SchedRec /\ Linked(i, A \ {p}, N \ {p}, F \cup {p})
  /\ Rest(i, [k.runs EXCEPT ![p] = TRUE], k.waits, k.lock, i.cur)
  /\ p # k.cur => i.cur = k.cur
  /\ p = k.cur /\ A \ {p} = {} => i.cur = NULL
  /\ p = k.cur /\ A \ {p} # {} =>
       /\ i.cur \in A \ {p} /\ i.next[i.cur] \in A \ {p}
       /\ p \in A => i.next[i.cur] = k.next[p]

LEMMA ProcKillEffect ==
  ASSUME NEW k \in SchedRec, NEW A, NEW N, NEW F, Linked(k, A, N, F),
         NEW p \in A \cup N, k.runs[p] <=> p \in A, k.waits[p] = NULL,
         NEW i, i = ProcKill(k, p)
  PROVE  Killed(k, i, A, N, F, p)
<1> USE DEF Killed
<1> DEFINE w == Wakeup(k, p)
           B == A \cup {p}
           M == N \ {p}
           r == ClistRemove(w, "running", p)
           t == DequeuePush(r, "unused", p)
           n == IF w.next[p] = w.cur THEN NULL ELSE w.next[p]
           c == IF n = NULL THEN NULL ELSE t.prev[n]
           j == IF p # k.cur THEN t ELSE [t EXCEPT !.cur = c]
<1>0. /\ p \in Procs /\ A \subseteq Procs /\ N \subseteq Procs /\ F \subseteq Procs
      /\ A \cap N = {} /\ A \cap F = {} /\ N \cap F = {} /\ A \cup N \cup F = Procs
      /\ "running" \in Lists /\ "sleeping" \in Lists /\ "unused" \in Lists
  BY DEF Linked, Lists
<1>1. i = j
  BY DEF ProcKill
<1>2. /\ w \in SchedRec /\ Linked(w, B, M, F)
      /\ Rest(w, [k.runs EXCEPT ![p] = TRUE], k.waits, k.lock, k.cur)
      /\ p \in A => w = k
  <2>1. CASE p \in N
    <3>1. p \notin A /\ ~k.runs[p]
      BY <1>0, <2>1
    <3> QED
      BY <2>1, <3>1, WakeupEffect
  <2>2. CASE p \notin N
    <3>1. p \in A /\ k.runs[p] /\ B = A /\ M = N
      BY <2>2
    <3>2. w = k
      BY <3>1 DEF Wakeup
    <3>3. k.runs = [k.runs EXCEPT ![p] = TRUE]
      BY <1>0, <3>1 DEF SchedRec
    <3> QED
      BY <3>1, <3>2, <3>3, Zenon DEF Rest
  <2> QED
    BY <2>1, <2>2
<1> HIDE DEF w
<1>3. w.cur = k.cur
  BY <1>2 DEF Rest
<1>4. /\ Links(w, Procs, Lists) /\ OnRing(w, "running", B) /\ p \in B /\ B \subseteq Procs
      /\ OnRing(w, "sleeping", M) /\ OnChain(w, "unused", F)
  BY <1>0, <1>2, RecLinks DEF Linked
<1>5. /\ Links(r, Procs, Lists) /\ OnlyLinks(w, r) /\ OnRing(r, "running", B \ {p})
      /\ Elsewhere(w, r, Procs, Lists, "running", B)
  BY <1>0, <1>4, ClistRemoveList, SMTT(60)
<1> HIDE DEF r
<1>6. OnRing(r, "sleeping", M) /\ OnChain(r, "unused", F)
  <2>1. M \cap B = {} /\ F \cap B = {} /\ M \subseteq Procs
    BY <1>0, <1>2 DEF Linked
  <2> QED
    BY <1>0, <1>4, <1>5, <2>1, RingElsewhere, ChainElsewhere
<1>7. r \in SchedRec /\ Rest(r, w.runs, w.waits, w.lock, w.cur)
  BY <1>2, <1>5, LinksRec
<1> DEFINE C == A \ {p}
<1>8. B \ {p} = C
  OBVIOUS
<1>9. t \in SchedRec /\ Linked(t, C, M, F \cup {p}) /\ Rest(t, r.runs, r.waits, r.lock, r.cur)
  <2>1. /\ p \notin C /\ p \notin M /\ p \notin F /\ C \cap F = {} /\ M \cap F = {}
        /\ C \cap M = {} /\ C \cup M \cup F \cup {p} = Procs
    BY <1>0, <1>2 DEF Linked
  <2> HIDE DEF C, M
  <2> QED
    BY <1>0, <1>5, <1>6, <1>7, <1>8, <2>1, PushEffect, ZenonT(60)
<1> HIDE DEF t
<1>10. Rest(t, [k.runs EXCEPT ![p] = TRUE], k.waits, k.lock, k.cur)
  BY <1>2, <1>7, <1>9 DEF Rest
<1>11. CASE p # k.cur
  <2>1. j = t
    BY <1>11
  <2> HIDE DEF j
  <2> QED
    BY <1>1, <1>9, <1>10, <1>11, <2>1 DEF Rest
<1>12. CASE p = k.cur
  <2>1. j = [t EXCEPT !.cur = c]
    BY <1>12
  <2>2. w.next[p] \in B /\ (w.next[p] = p => B = {p})
    BY <1>2, <1>4, RingStep
  <2>3. CASE A \ {p} = {}
    <3>1. w.next[p] = p
      BY <2>2, <2>3
    <3>2. c = NULL
      BY <1>3, <1>12, <3>1
    <3> HIDE DEF c
    <3>3. /\ j \in SchedRec /\ Fields(j, t.next, t.prev, t.first, t.last)
          /\ Rest(j, t.runs, t.waits, t.lock, NULL)
      BY <1>9, <2>1, <3>2, SetCur
    <3> HIDE DEF j
    <3>4. Linked(j, C, M, F \cup {p})
      BY <1>9, <3>3, LinkedFields
    <3>5. Rest(j, [k.runs EXCEPT ![p] = TRUE], k.waits, k.lock, j.cur) /\ j.cur = NULL
      BY <1>10, <3>3 DEF Rest
    <3> QED
      BY <1>1, <2>3, <3>3, <3>4, <3>5, <1>12
  <2>4. CASE A \ {p} # {}
    <3>1. w.next[p] # p /\ w.next[p] \in C
      BY <2>2, <2>4
    <3>2. n = w.next[p] /\ n \in C /\ n # NULL
      BY <1>0, <1>3, <1>12, <3>1, NullNoProc
    <3>3. p \in A => n = k.next[p]
      BY <1>2, <3>2
    <3> HIDE DEF n
    <3>4. c = t.prev[n]
      BY <3>2
    <3>5. t.prev[n] \in C /\ t.next[t.prev[n]] = n
      BY <1>9, <3>2, RingStep
    <3>6. c \in C /\ c \in Procs /\ t.next[c] = n
      BY <1>0, <3>4, <3>5
    <3> HIDE DEF c
    <3>7. /\ j \in SchedRec /\ Fields(j, t.next, t.prev, t.first, t.last)
          /\ Rest(j, t.runs, t.waits, t.lock, c)
      BY <1>9, <2>1, <3>6, SetCur
    <3> HIDE DEF j
    <3>8. Linked(j, C, M, F \cup {p})
      BY <1>9, <3>7, LinkedFields
    <3>9. Rest(j, [k.runs EXCEPT ![p] = TRUE], k.waits, k.lock, j.cur)
      BY <1>10, <3>7 DEF Rest
    <3>10. j.cur = c /\ j.next[j.cur] = n
      BY <3>6, <3>7 DEF Rest, Fields
    <3> QED
      BY <1>1, <2>4, <3>2, <3>3, <3>6, <3>7, <3>8, <3>9, <3>10, <1>12
  <2> QED
    BY <2>3, <2>4
<1> QED
  BY <1>11, <1>12

\* The current process ends: the next one gets the CPU, or nobody.
Exited(k, j, A, N, F, p) ==
  /\ j \in SchedRec /\ Linked(j, A \ {p}, N \ {p}, F \cup {p})
  /\ Rest(j, [k.runs EXCEPT ![p] = TRUE], k.waits, k.lock, j.cur)
  /\ A \ {p} = {} => j.cur = NULL
  /\ A \ {p} # {} => j.cur \in A \ {p} /\ (p \in A => j.cur = k.next[p])

LEMMA ExitEffect ==
  ASSUME NEW k \in SchedRec, NEW A, NEW N, NEW F, Linked(k, A, N, F),
         NEW p \in A \cup N, k.runs[p] <=> p \in A, k.waits[p] = NULL, p = k.cur,
         NEW i, i = ExitProc(k, p)
  PROVE  Exited(k, i, A, N, F, p)
<1> USE DEF Exited
<1> DEFINE t == ProcKill(k, p)
           j == IF t.cur = NULL THEN t ELSE [t EXCEPT !.cur = t.next[@]]
<1> HIDE DEF t
<1>0. i = j
  BY DEF ExitProc, Switch, t
<1>1. /\ t \in SchedRec /\ Linked(t, A \ {p}, N \ {p}, F \cup {p})
      /\ Rest(t, [k.runs EXCEPT ![p] = TRUE], k.waits, k.lock, t.cur)
      /\ A \ {p} = {} => t.cur = NULL
      /\ A \ {p} # {} =>
           /\ t.cur \in A \ {p} /\ t.next[t.cur] \in A \ {p}
           /\ p \in A => t.next[t.cur] = k.next[p]
  <2>1. Killed(k, t, A, N, F, p)
    BY ProcKillEffect DEF t
  <2> QED
    BY <2>1 DEF Killed
<1>2. CASE A \ {p} = {}
  BY <1>0, <1>1, <1>2
<1>3. CASE A \ {p} # {}
  <2> DEFINE n == t.next[t.cur]
  <2>1. t.cur # NULL /\ n \in Procs
    BY <1>1, <1>3, NullNoProc DEF Linked
  <2>2. j = [t EXCEPT !.cur = n]
    BY <2>1 DEF SchedRec
  <2>3. n \in A \ {p} /\ (p \in A => n = k.next[p])
    BY <1>1, <1>3
  <2> HIDE DEF n
  <2>4. /\ j \in SchedRec /\ Fields(j, t.next, t.prev, t.first, t.last)
        /\ Rest(j, t.runs, t.waits, t.lock, n)
    BY <1>1, <2>1, <2>2, SetCur
  <2> HIDE DEF j
  <2>5. Linked(j, A \ {p}, N \ {p}, F \cup {p})
    BY <1>1, <2>4, LinkedFields
  <2>6. Rest(j, [k.runs EXCEPT ![p] = TRUE], k.waits, k.lock, j.cur) /\ j.cur = n
    BY <1>1, <2>4 DEF Rest
  <2> QED
    BY <1>0, <1>3, <2>3, <2>4, <2>5, <2>6
<1> QED
  BY <1>2, <1>3

LEMMA SwitchEffect ==
  ASSUME NEW k \in SchedRec, NEW A, NEW N, NEW F, Linked(k, A, N, F), k.cur \in A
  PROVE  LET j == Switch(k)
         IN /\ j \in SchedRec /\ Linked(j, A, N, F) /\ j.cur = k.next[k.cur] /\ j.cur \in A
            /\ Fields(j, k.next, k.prev, k.first, k.last)
            /\ Rest(j, k.runs, k.waits, k.lock, j.cur)
<1> DEFINE n == k.next[k.cur]
           j == [k EXCEPT !.cur = n]
<1>1. n \in A /\ n \in Procs
  BY RingStep DEF Linked
<1>2. Switch(k) = j
  BY DEF Switch
<1>3. /\ j \in SchedRec /\ Fields(j, k.next, k.prev, k.first, k.last)
      /\ Rest(j, k.runs, k.waits, k.lock, n)
  BY <1>1, SetCur
<1> HIDE DEF j
<1>4. Linked(j, A, N, F)
  BY <1>3, LinkedFields
<1> QED
  BY <1>1, <1>2, <1>3, <1>4 DEF Rest

\* A process is created, woken and given the CPU or a later turn.
LEMMA StartEffect ==
  ASSUME NEW k \in SchedRec, NEW A, NEW N, NEW F, Linked(k, A, N, F), k.cur \in A,
         NEW q, q = k.last["unused"], q # NULL
  PROVE  LET j == Switch(Wakeup(ProcCreate(k), q))
         IN /\ q \in F /\ j \in SchedRec /\ Linked(j, A \cup {q}, N, F \ {q})
            /\ j.cur \in A \cup {q}
            /\ Rest(j, [k.runs EXCEPT ![q] = TRUE], k.waits, k.lock, j.cur)
<1> DEFINE c == ProcCreate(k)
           w == Wakeup(c, q)
           j == Switch(w)
<1>1. /\ q \in F /\ c \in SchedRec /\ Linked(c, A, N \cup {q}, F \ {q})
      /\ Rest(c, [k.runs EXCEPT ![q] = FALSE], k.waits, k.lock, k.cur)
  BY ProcCreateEffect
<1>2. q \in Procs /\ q \notin N
  BY <1>1 DEF Linked
<1> HIDE DEF c
<1>3. ~c.runs[q] /\ q \in N \cup {q} /\ (N \cup {q}) \ {q} = N
  BY <1>1, <1>2 DEF Rest, SchedRec
<1>4. /\ w \in SchedRec /\ Linked(w, A \cup {q}, N, F \ {q})
      /\ Rest(w, [c.runs EXCEPT ![q] = TRUE], c.waits, c.lock, c.cur)
  <2> DEFINE M == N \cup {q}
  <2>1. Linked(c, A, M, F \ {q}) /\ q \in M /\ M \ {q} = N
    BY <1>1, <1>3
  <2> HIDE DEF M
  <2> QED
    BY <1>1, <1>3, <2>1, WakeupEffect
<1> HIDE DEF w
<1>5. w.cur \in A \cup {q}
  BY <1>1, <1>4 DEF Rest
<1>6. /\ j \in SchedRec /\ Linked(j, A \cup {q}, N, F \ {q}) /\ j.cur \in A \cup {q}
      /\ Rest(j, w.runs, w.waits, w.lock, j.cur)
  BY <1>4, <1>5, SwitchEffect
<1> HIDE DEF j
<1>7. Rest(j, [k.runs EXCEPT ![q] = TRUE], k.waits, k.lock, j.cur)
  <2>1. [[k.runs EXCEPT ![q] = FALSE] EXCEPT ![q] = TRUE] = [k.runs EXCEPT ![q] = TRUE]
    BY <1>2 DEF SchedRec
  <2> QED
    BY <1>1, <1>4, <1>6, <2>1 DEF Rest
<1> QED
  BY <1>1, <1>6, <1>7 DEF j, w, c

\* A process cannot be started after all.
LEMMA StartFailsEffect ==
  ASSUME NEW k \in SchedRec, NEW A, NEW N, NEW F, Linked(k, A, N, F), k.cur \in A,
         \A p \in Procs : k.waits[p] = NULL,
         NEW q, q = k.last["unused"], q # NULL,
         NEW j, j \in {ProcCreateFails(k), ProcKill(ProcCreate(k), q)}
  PROVE  /\ q \in F /\ j \in SchedRec /\ Linked(j, A, N, F)
         /\ \A p \in Procs \ {q} : j.runs[p] = k.runs[p]
         /\ Rest(j, j.runs, k.waits, k.lock, k.cur)
<1>1. CASE j = ProcCreateFails(k)
  <2>1. /\ q \in F /\ j \in SchedRec /\ Linked(j, A, N, F)
        /\ Rest(j, [k.runs EXCEPT ![q] = FALSE], k.waits, k.lock, k.cur)
    BY <1>1, ProcCreateFailsEffect
  <2> QED
    BY <2>1 DEF Rest, SchedRec
<1>2. CASE j = ProcKill(ProcCreate(k), q)
  <2> DEFINE c == ProcCreate(k)
             M == N \cup {q}
             G == F \ {q}
  <2>1. /\ q \in F /\ c \in SchedRec /\ Linked(c, A, M, G)
        /\ Rest(c, [k.runs EXCEPT ![q] = FALSE], k.waits, k.lock, k.cur)
    BY ProcCreateEffect
  <2>2. q \in Procs /\ q \notin N /\ q \notin A /\ q # k.cur
    BY <2>1 DEF Linked
  <2> HIDE DEF c
  <2>3. ~c.runs[q] /\ c.waits[q] = NULL /\ q # c.cur
    BY <2>1, <2>2 DEF Rest, SchedRec
  <2>4. q \in A \cup M /\ A \ {q} = A /\ M \ {q} = N /\ G \cup {q} = F
    BY <2>1, <2>2
  <2> HIDE DEF M, G
  <2>5. /\ j \in SchedRec /\ Linked(j, A \ {q}, M \ {q}, G \cup {q})
        /\ Rest(j, [c.runs EXCEPT ![q] = TRUE], c.waits, c.lock, j.cur)
        /\ j.cur = c.cur
    <3>1. j = ProcKill(c, q) /\ (c.runs[q] <=> q \in A)
      BY <1>2, <2>2, <2>3 DEF c
    <3>2. Killed(c, j, A, M, G, q)
      BY <2>1, <2>3, <2>4, <3>1, ProcKillEffect
    <3> QED
      BY <2>3, <3>2 DEF Killed
  <2>6. Rest(j, j.runs, k.waits, k.lock, k.cur)
    BY <2>1, <2>5 DEF Rest
  <2>7. \A p \in Procs \ {q} : j.runs[p] = k.runs[p]
    BY <2>1, <2>5 DEF Rest, SchedRec
  <2> QED
    BY <2>1, <2>4, <2>5, <2>6, <2>7
<1> QED
  BY <1>1, <1>2

-----------------------------------------------------------------------------
(* The actions.                                                            *)

\* A process that gets anything done has the CPU, and nobody waits for a lock.
LEMMA NobodyWaits ==
  ASSUME SchedInv, NEW p \in Procs, s.cur = p, s.waits[p] = NULL
  PROVE  \A q \in Procs : s.waits[q] = NULL
BY DEF SchedInv, WaitInv

LEMMA UserAwake ==
  ASSUME SchedInv, NEW p \in Procs, AtUser(p)
  PROVE  p \in Awake /\ s.cur = p /\ pc[p] = "user" /\ \A q \in Procs : s.waits[q] = NULL
<1>1. s.cur = p /\ s.waits[p] = NULL /\ pc[p] = "user"
  BY DEF AtUser
<1>2. p \in Awake
  BY <1>1, NullNoProc DEF SchedInv, CpuInv, NapInv
<1> QED
  BY <1>1, <1>2, NobodyWaits

LEMMA SFacts ==
  ASSUME SchedInv
  PROVE  /\ s \in SchedRec /\ Linked(s, Awake, Napping, Free)
         /\ prog \in [Procs -> {"none", "init", "sh"} \cup Daemons]
         /\ pc \in [Procs -> {"user", "nap", "end"}]
         /\ todo \in Seq({"syncer", "iod", "sh"})
         /\ daemon \in [Daemons -> Procs \cup {NULL}] /\ restart \in BOOLEAN
         /\ holds \in [Owners -> SUBSET Locks]
         /\ Awake \subseteq Procs /\ Napping \subseteq Procs /\ Free \subseteq Procs
         /\ \A p \in Awake \cup Napping : s.runs[p] <=> p \in Awake
BY DEF SchedInv, TypeOK, SchedRec, Awake, Napping, Free

\* A step that leaves the counters alone.
LEMMA LockKept ==
  ASSUME SchedInv, \A q \in Procs : s.waits[q] = NULL,
         s' \in SchedRec, s'.waits = s.waits,
         holds' \in [Owners -> SUBSET Locks], LockExact',
         prog' \in [Procs -> {"none", "init", "sh"} \cup Daemons],
         pc' \in [Procs -> {"user", "nap", "end"}],
         todo' \in Seq({"syncer", "iod", "sh"}),
         daemon' \in [Daemons -> Procs \cup {NULL}], restart' \in BOOLEAN,
         Linked(s, Awake, Napping, Free)', CpuInv', NapInv', DaemonInv', RestartInv'
  PROVE  SchedInv'
<1>1. TypeOK'
  BY DEF TypeOK, SchedRec
<1>2. WaitInv'
  BY DEF WaitInv
<1> QED
  BY <1>1, <1>2 DEF SchedInv

LEMMA LockFree ==
  ASSUME SchedInv, \A q \in Procs : s.waits[q] = NULL,
         s' \in SchedRec, s'.waits = s.waits, s'.lock = s.lock, UNCHANGED holds,
         prog' \in [Procs -> {"none", "init", "sh"} \cup Daemons],
         pc' \in [Procs -> {"user", "nap", "end"}],
         todo' \in Seq({"syncer", "iod", "sh"}),
         daemon' \in [Daemons -> Procs \cup {NULL}], restart' \in BOOLEAN,
         Linked(s, Awake, Napping, Free)', CpuInv', NapInv', DaemonInv', RestartInv'
  PROVE  SchedInv'
<1>1. holds' \in [Owners -> SUBSET Locks]
  BY SFacts
<1>2. LockExact'
  BY DEF SchedInv, LockExact, Holders, Waiters
<1> QED
  BY <1>1, <1>2, LockKept

LEMMA OwnersFinite == IsFiniteSet(Procs) /\ IsFiniteSet(Owners)
<1>1. IsFiniteSet(Procs)
  BY FS_Interval, SchedAssumption DEF Procs
<1> QED
  BY <1>1, FS_AddElement DEF Owners

LEMMA YieldSafe ==
  ASSUME SchedInv, NEW p \in Procs, Yield(p)
  PROVE  SchedInv'
<1>1. p \in Awake /\ s.cur = p /\ \A q \in Procs : s.waits[q] = NULL
  BY UserAwake DEF Yield
<1>2. /\ s' \in SchedRec /\ Linked(s', Awake, Napping, Free) /\ s'.cur \in Awake
      /\ Rest(s', s.runs, s.waits, s.lock, s'.cur)
  <2>1. s' = Switch(s)
    BY DEF Yield
  <2> QED
    BY <1>1, <2>1, SFacts, SwitchEffect
<1>3. UNCHANGED <<prog, pc, todo, daemon, restart, holds>>
  BY DEF Yield
<1>4. Free' = Free /\ Awake' = Awake /\ Napping' = Napping
  BY <1>2, <1>3 DEF Free, Awake, Napping, Rest
<1>5. CpuInv' /\ NapInv' /\ DaemonInv' /\ RestartInv' /\ Linked(s, Awake, Napping, Free)'
  BY <1>2, <1>3, <1>4 DEF SchedInv, CpuInv, NapInv, DaemonInv, RestartInv, Rest
<1> QED
  BY <1>1, <1>2, <1>3, <1>5, SFacts, LockFree DEF Rest

\* proc_funexec: who is in which list then.
LEMMA FunexecLists ==
  ASSUME SchedInv, NEW p \in Procs, AtUser(p), NEW f \in {"syncer", "iod", "sh"}, Funexec(f),
         NEW q, q = s.last["unused"]
  PROVE  /\ p \in Awake /\ s.cur = p /\ \A r \in Procs : s.waits[r] = NULL
         /\ q # NULL /\ s' = Switch(Wakeup(ProcCreate(s), q))
         /\ q \in Free /\ s' \in SchedRec /\ Linked(s', Awake \cup {q}, Napping, Free \ {q})
         /\ s'.cur \in Awake \cup {q}
         /\ Rest(s', [s.runs EXCEPT ![q] = TRUE], s.waits, s.lock, s'.cur)
         /\ Free' = Free \ {q} /\ Awake' = Awake \cup {q} /\ Napping' = Napping
<1>1. p \in Awake /\ s.cur = p /\ \A r \in Procs : s.waits[r] = NULL
  BY UserAwake
<1>2. /\ q # NULL /\ s' = Switch(Wakeup(ProcCreate(s), q))
      /\ prog' = [prog EXCEPT ![q] = f]
      /\ pc' = [pc EXCEPT ![q] = IF f \in Daemons THEN "nap" ELSE "user"]
      /\ daemon' = [d \in Daemons |-> IF d = f THEN q ELSE daemon[d]]
      /\ UNCHANGED <<restart, holds>>
  BY DEF Funexec
<1>3. /\ q \in Free /\ s' \in SchedRec /\ Linked(s', Awake \cup {q}, Napping, Free \ {q})
      /\ s'.cur \in Awake \cup {q}
      /\ Rest(s', [s.runs EXCEPT ![q] = TRUE], s.waits, s.lock, s'.cur)
  BY <1>1, <1>2, SFacts, StartEffect
<1>4. q \in Procs /\ prog[q] = "none" /\ q \notin Napping /\ q \notin Awake
  BY <1>3 DEF Free, Napping, Awake
<1>5. Free' = Free \ {q} /\ Awake' = Awake \cup {q} /\ Napping' = Napping
  <2>1. \A r \in Procs : prog'[r] = (IF r = q THEN f ELSE prog[r]) /\ f # "none"
    BY <1>2, <1>4, SFacts
  <2>2. s'.runs[q] = TRUE /\ \A r \in Procs \ {q} : s'.runs[r] = s.runs[r]
    <3>1. s'.runs = [s.runs EXCEPT ![q] = TRUE]
      BY <1>3 DEF Rest
    <3>2. s.runs \in [Procs -> BOOLEAN] /\ q \in Procs
      BY <1>4, SFacts DEF SchedRec
    <3> QED
      BY <3>1, <3>2
  <2>3. Free' = Free \ {q}
    BY <2>1, <1>4 DEF Free
  <2>4. Awake' = Awake \cup {q}
    BY <2>1, <2>2, <2>3, <1>4 DEF Awake, Free
  <2>5. Napping' = Napping
    BY <2>1, <2>2, <2>3, <1>4 DEF Napping, Free
  <2> QED
    BY <2>3, <2>4, <2>5
<1> QED
  BY <1>1, <1>2, <1>3, <1>5

\* Boot and Spawn.
LEMMA FunexecSafe ==
  ASSUME SchedInv, NEW p \in Procs, AtUser(p), NEW f \in {"syncer", "iod", "sh"}, Funexec(f),
         todo' \in Seq({"syncer", "iod", "sh"})
  PROVE  SchedInv'
<1> DEFINE q == s.last["unused"]
<1>1. p \in Awake /\ s.cur = p /\ \A r \in Procs : s.waits[r] = NULL
  BY FunexecLists
<1>2. /\ q # NULL /\ s' = Switch(Wakeup(ProcCreate(s), q))
      /\ prog' = [prog EXCEPT ![q] = f]
      /\ pc' = [pc EXCEPT ![q] = IF f \in Daemons THEN "nap" ELSE "user"]
      /\ daemon' = [d \in Daemons |-> IF d = f THEN q ELSE daemon[d]]
      /\ UNCHANGED <<restart, holds>>
  BY DEF Funexec
<1>3. /\ q \in Free /\ s' \in SchedRec /\ Linked(s', Awake \cup {q}, Napping, Free \ {q})
      /\ s'.cur \in Awake \cup {q}
      /\ Rest(s', [s.runs EXCEPT ![q] = TRUE], s.waits, s.lock, s'.cur)
  BY FunexecLists
<1>6. Free' = Free \ {q} /\ Awake' = Awake \cup {q} /\ Napping' = Napping
  BY FunexecLists
<1> HIDE DEF q
<1>4. q \in Procs /\ prog[q] = "none" /\ q \notin Napping /\ q \notin Awake
  BY <1>3 DEF Free, Napping, Awake
<1>5. /\ prog' \in [Procs -> {"none", "init", "sh"} \cup Daemons]
      /\ pc' \in [Procs -> {"user", "nap", "end"}]
      /\ daemon' \in [Daemons -> Procs \cup {NULL}]
  BY <1>2, <1>4, SFacts DEF Daemons
<1>7. Linked(s, Awake, Napping, Free)' /\ CpuInv'
  BY <1>3, <1>6 DEF CpuInv
<1>8. NapInv'
  BY <1>2, <1>4, <1>6, SFacts DEF SchedInv, NapInv, Napping
<1>9. DaemonInv'
  <2> SUFFICES ASSUME NEW d \in Daemons, daemon'[d] # NULL PROVE prog'[daemon'[d]] = d
    BY DEF DaemonInv
  <2>1. CASE d = f
    BY <1>2, <1>4, <2>1, SFacts
  <2>2. CASE d # f
    <3>1. daemon'[d] = daemon[d] /\ daemon[d] # NULL /\ prog[daemon[d]] = d
      BY <1>2, <2>2 DEF SchedInv, DaemonInv
    <3>2. daemon[d] \in Procs /\ daemon[d] # q
      BY <1>4, <3>1, SFacts DEF Daemons
    <3> QED
      BY <1>2, <3>1, <3>2, SFacts
  <2> QED
    BY <2>1, <2>2
<1>10. RestartInv'
  <2> SUFFICES ASSUME restart' PROVE daemon'["syncer"] # NULL /\ s'.runs[daemon'["syncer"]]
    BY DEF RestartInv
  <2>1. restart /\ daemon["syncer"] # NULL /\ s.runs[daemon["syncer"]]
    BY <1>2 DEF SchedInv, RestartInv
  <2>2. daemon["syncer"] \in Procs /\ q # NULL
    BY <1>2, <2>1, SFacts DEF Daemons
  <2>3. daemon'["syncer"] \in {q, daemon["syncer"]}
    BY <1>2 DEF Daemons
  <2>4. s'.runs[q] /\ s'.runs[daemon["syncer"]]
    BY <1>3, <1>4, <2>1, <2>2, SFacts DEF Rest, SchedRec
  <2> QED
    BY <2>1, <2>2, <2>3, <2>4
<1> QED
  BY <1>1, <1>2, <1>3, <1>5, <1>7, <1>8, <1>9, <1>10, SFacts, LockFree DEF Rest

LEMMA BootSafe ==
  ASSUME SchedInv, NEW p \in Procs, Boot(p)
  PROVE  SchedInv'
<1>1. AtUser(p) /\ todo # <<>> /\ Funexec(Head(todo)) /\ todo' = Tail(todo)
  BY DEF Boot
<1>2. Head(todo) \in {"syncer", "iod", "sh"} /\ Tail(todo) \in Seq({"syncer", "iod", "sh"})
  BY <1>1, SFacts
<1> QED
  BY <1>1, <1>2, FunexecSafe

LEMMA SpawnSafe ==
  ASSUME SchedInv, NEW p \in Procs, Spawn(p)
  PROVE  SchedInv'
<1>1. AtUser(p) /\ Funexec("sh") /\ UNCHANGED todo
  BY DEF Spawn
<1> QED
  BY <1>1, SFacts, FunexecSafe

LEMMA SpawnFailsLists ==
  ASSUME SchedInv, NEW p \in Procs, SpawnFails(p), NEW q, q = s.last["unused"]
  PROVE  /\ p \in Awake /\ s.cur = p /\ \A r \in Procs : s.waits[r] = NULL
         /\ q # NULL /\ s' \in {ProcCreateFails(s), ProcKill(ProcCreate(s), q)}
         /\ UNCHANGED <<prog, pc, todo, daemon, restart, holds>>
         /\ q \in Free /\ s' \in SchedRec /\ Linked(s', Awake, Napping, Free)
         /\ \A r \in Procs \ {q} : s'.runs[r] = s.runs[r]
         /\ Rest(s', s'.runs, s.waits, s.lock, s.cur)
         /\ Free' = Free /\ Awake' = Awake /\ Napping' = Napping
<1>1. p \in Awake /\ s.cur = p /\ \A r \in Procs : s.waits[r] = NULL
  BY UserAwake DEF SpawnFails
<1>2. /\ q # NULL /\ s' \in {ProcCreateFails(s), ProcKill(ProcCreate(s), q)}
      /\ UNCHANGED <<prog, pc, todo, daemon, restart, holds>>
  BY DEF SpawnFails
<1>3. /\ q \in Free /\ s' \in SchedRec /\ Linked(s', Awake, Napping, Free)
      /\ \A r \in Procs \ {q} : s'.runs[r] = s.runs[r]
      /\ Rest(s', s'.runs, s.waits, s.lock, s.cur)
  BY <1>1, <1>2, SFacts, StartFailsEffect
<1>4. Free' = Free /\ Awake' = Awake /\ Napping' = Napping
  <2>1. Free' = Free
    BY <1>2 DEF Free
  <2>2. \A r \in Procs \ Free : s'.runs[r] = s.runs[r]
    BY <1>3
  <2> QED
    BY <2>1, <2>2 DEF Awake, Napping
<1> QED
  BY <1>1, <1>2, <1>3, <1>4

LEMMA SpawnFailsSafe ==
  ASSUME SchedInv, NEW p \in Procs, SpawnFails(p)
  PROVE  SchedInv'
<1> DEFINE q == s.last["unused"]
<1>1. p \in Awake /\ s.cur = p /\ \A r \in Procs : s.waits[r] = NULL
  BY SpawnFailsLists
<1>2. /\ q # NULL /\ s' \in {ProcCreateFails(s), ProcKill(ProcCreate(s), q)}
      /\ UNCHANGED <<prog, pc, todo, daemon, restart, holds>>
  BY SpawnFailsLists
<1>3. /\ q \in Free /\ s' \in SchedRec /\ Linked(s', Awake, Napping, Free)
      /\ \A r \in Procs \ {q} : s'.runs[r] = s.runs[r]
      /\ Rest(s', s'.runs, s.waits, s.lock, s.cur)
  BY SpawnFailsLists
<1>4. Free' = Free /\ Awake' = Awake /\ Napping' = Napping
  BY SpawnFailsLists
<1> HIDE DEF q
<1>5. CpuInv' /\ NapInv' /\ DaemonInv' /\ Linked(s, Awake, Napping, Free)'
  BY <1>2, <1>3, <1>4 DEF SchedInv, CpuInv, NapInv, DaemonInv, Rest
<1>6. RestartInv'
  <2> SUFFICES ASSUME restart PROVE daemon["syncer"] # NULL /\ s'.runs[daemon["syncer"]]
    BY <1>2 DEF RestartInv
  <2>1. daemon["syncer"] # NULL /\ s.runs[daemon["syncer"]] /\ prog[daemon["syncer"]] = "syncer"
    BY DEF SchedInv, RestartInv, DaemonInv, Daemons
  <2>2. daemon["syncer"] \in Procs \ {q}
    BY <1>3, <2>1, SFacts DEF Free, Daemons
  <2> QED
    BY <1>3, <2>1, <2>2
<1> QED
  BY <1>1, <1>2, <1>3, <1>5, <1>6, SFacts, LockFree DEF Rest

LEMMA ExitLists ==
  ASSUME SchedInv, NEW p \in Procs, Exit(p)
  PROVE  /\ p \in Awake \cup Napping /\ s.cur = p /\ \A q \in Procs : s.waits[q] = NULL
         /\ (s.runs[p] <=> p \in Awake) /\ s' = ExitProc(s, p)
         /\ Exited(s, s', Awake, Napping, Free, p)
         /\ Free' = Free \cup {p} /\ Awake' = Awake \ {p} /\ Napping' = Napping \ {p}
<1>1. /\ s.cur = p /\ s.waits[p] = NULL /\ prog[p] \in {"sh", "init"}
      /\ s' = ExitProc(s, p)
      /\ prog' = [prog EXCEPT ![p] = "none"] /\ pc' = [pc EXCEPT ![p] = "user"]
      /\ holds' = [holds EXCEPT ![p] = {}, ![NULL] = @ \cup holds[p]]
      /\ UNCHANGED <<todo, daemon, restart>>
  BY DEF Exit
<1>2. \A q \in Procs : s.waits[q] = NULL
  BY <1>1, NobodyWaits
<1>3. p \in Awake \cup Napping /\ (s.runs[p] <=> p \in Awake)
  <2>1. p \in Awake \cup Napping
    BY <1>1, NullNoProc DEF SchedInv, CpuInv
  <2> QED
    BY <2>1, SFacts
<1>4. Exited(s, s', Awake, Napping, Free, p)
  BY <1>1, <1>2, <1>3, SFacts, ExitEffect
<1>5. Free' = Free \cup {p} /\ Awake' = Awake \ {p} /\ Napping' = Napping \ {p}
  <2>1. \A r \in Procs : prog'[r] = IF r = p THEN "none" ELSE prog[r]
    BY <1>1, SFacts
  <2>2. \A r \in Procs \ {p} : s'.runs[r] = s.runs[r]
    BY <1>4, SFacts DEF Exited, Rest, SchedRec
  <2>3. Free' = Free \cup {p}
    BY <2>1 DEF Free
  <2> QED
    BY <2>2, <2>3 DEF Awake, Napping
<1> QED
  BY <1>1, <1>2, <1>3, <1>4, <1>5

\* As long as nobody waits, the counter says whether the lock is held.
LEMMA LockHeld ==
  ASSUME SchedInv, \A q \in Procs : s.waits[q] = NULL, NEW l \in Locks
  PROVE  /\ IsFiniteSet(Holders(l)) /\ Waiters(l) = {}
         /\ s.lock[l] = Cardinality(Holders(l)) /\ s.lock[l] \in {0, 1}
         /\ s.lock[l] = 0 => Holders(l) = {}
         /\ \A p \in Holders(l) : Holders(l) = {p} /\ s.lock[l] = 1
<1>1. IsFiniteSet(Holders(l))
  BY OwnersFinite, FS_Subset DEF Holders
<1>2. Waiters(l) = {}
  BY SchedAssumption DEF Waiters
<1>3. s.lock[l] = Cardinality(Holders(l)) + Cardinality(Waiters(l)) /\ Cardinality(Holders(l)) <= 1
  BY DEF SchedInv, LockExact, Holders, Waiters
<1>4. Cardinality(Waiters(l)) = 0 /\ Cardinality(Holders(l)) \in Nat
  BY <1>1, <1>2, FS_EmptySet, FS_CardinalityType
<1>5. s.lock[l] = Cardinality(Holders(l)) /\ s.lock[l] \in {0, 1}
  BY <1>3, <1>4
<1>6. s.lock[l] = 0 => Holders(l) = {}
  BY <1>1, <1>5, FS_EmptySet
<1>7. ASSUME NEW p \in Holders(l) PROVE Holders(l) = {p} /\ s.lock[l] = 1
  <2>1. Cardinality(Holders(l)) = 1
    BY <1>1, <1>5, <1>7, FS_EmptySet
  <2>2. \E x : Holders(l) = {x}
    BY <1>1, <2>1, FS_Singleton
  <2> QED
    BY <1>5, <1>7, <2>1, <2>2
<1> QED
  BY <1>1, <1>2, <1>5, <1>6, <1>7

\* The locks of a process that ends keep their counts and have an owner that is dead.
LEMMA ExitLocks ==
  ASSUME SchedInv, NEW p \in Procs, \A q \in Procs : s.waits[q] = NULL,
         s'.waits = s.waits, s'.lock = s.lock,
         holds' = [holds EXCEPT ![p] = {}, ![NULL] = @ \cup holds[p]]
  PROVE  holds' \in [Owners -> SUBSET Locks] /\ LockExact'
<1>0. /\ holds \in [Owners -> SUBSET Locks] /\ p \in Owners /\ NULL \in Owners /\ p # NULL
      /\ \A q \in Owners : q # NULL => q \in Procs
  BY SFacts, NullNoProc DEF Owners
<1>1. holds' \in [Owners -> SUBSET Locks]
  BY <1>0
<1>2. \A q \in Owners : holds'[q] = IF q = p THEN {}
                                 ELSE IF q = NULL THEN holds[NULL] \cup holds[p] ELSE holds[q]
  BY <1>0
<1>3. SUFFICES ASSUME NEW l \in Locks
               PROVE  /\ s'.lock[l] = Cardinality(Holders(l)') + Cardinality(Waiters(l)')
                      /\ Cardinality(Holders(l)') <= 1
  BY <1>1 DEF LockExact
<1>4. /\ s.lock[l] = Cardinality(Holders(l)) + Cardinality(Waiters(l))
      /\ Cardinality(Holders(l)) <= 1
  BY DEF SchedInv, LockExact
<1>5. Waiters(l)' = Waiters(l)
  BY DEF Waiters
<1>6. CASE p \in Holders(l)
  <2>1. Holders(l) = {p}
    BY <1>6, LockHeld
  <2>2. Holders(l)' = {NULL}
    BY <1>0, <1>2, <2>1 DEF Holders
  <2>3. Cardinality(Holders(l)') = Cardinality(Holders(l))
    BY <2>1, <2>2, FS_Singleton
  <2> QED
    BY <1>4, <1>5, <2>3
<1>7. CASE p \notin Holders(l)
  <2>1. Holders(l)' = Holders(l)
    BY <1>0, <1>2, <1>7 DEF Holders
  <2> QED
    BY <1>4, <1>5, <2>1
<1> QED
  BY <1>6, <1>7

LEMMA ExitSafe ==
  ASSUME SchedInv, NEW p \in Procs, Exit(p)
  PROVE  SchedInv'
<1>1. /\ s.cur = p /\ s.waits[p] = NULL /\ prog[p] \in {"sh", "init"}
      /\ s' = ExitProc(s, p)
      /\ prog' = [prog EXCEPT ![p] = "none"] /\ pc' = [pc EXCEPT ![p] = "user"]
      /\ holds' = [holds EXCEPT ![p] = {}, ![NULL] = @ \cup holds[p]]
      /\ UNCHANGED <<todo, daemon, restart>>
  BY DEF Exit
<1>2. \A q \in Procs : s.waits[q] = NULL
  BY ExitLists
<1>4. /\ s' \in SchedRec /\ Linked(s', Awake \ {p}, Napping \ {p}, Free \cup {p})
      /\ Rest(s', [s.runs EXCEPT ![p] = TRUE], s.waits, s.lock, s'.cur)
      /\ Awake \ {p} = {} => s'.cur = NULL
      /\ Awake \ {p} # {} => s'.cur \in Awake \ {p}
  BY ExitLists DEF Exited
<1>5. /\ prog' \in [Procs -> {"none", "init", "sh"} \cup Daemons]
      /\ pc' \in [Procs -> {"user", "nap", "end"}]
  BY <1>1, SFacts
<1>6. Free' = Free \cup {p} /\ Awake' = Awake \ {p} /\ Napping' = Napping \ {p}
  BY ExitLists
<1>7. Linked(s, Awake, Napping, Free)' /\ CpuInv'
  BY <1>4, <1>6 DEF CpuInv
<1>8. NapInv'
  BY <1>1, <1>6, SFacts DEF SchedInv, NapInv, Napping
<1>9. DaemonInv' /\ RestartInv'
  <2>1. ASSUME NEW d \in Daemons, daemon[d] # NULL
        PROVE  daemon[d] \in Procs \ {p} /\ prog'[daemon[d]] = d
    <3>1. prog[daemon[d]] = d /\ daemon[d] \in Procs
      BY <2>1, SFacts DEF SchedInv, DaemonInv
    <3>2. daemon[d] # p
      BY <1>1, <3>1 DEF Daemons
    <3> QED
      BY <1>1, <3>1, <3>2, SFacts
  <2>2. DaemonInv'
    BY <1>1, <2>1 DEF DaemonInv
  <2>3. RestartInv'
    <3> SUFFICES ASSUME restart PROVE daemon["syncer"] # NULL /\ s'.runs[daemon["syncer"]]
      BY <1>1 DEF RestartInv
    <3>1. daemon["syncer"] # NULL /\ s.runs[daemon["syncer"]]
      BY DEF SchedInv, RestartInv
    <3>2. daemon["syncer"] \in Procs \ {p}
      BY <2>1, <3>1 DEF Daemons
    <3> QED
      BY <1>4, <3>1, <3>2, SFacts DEF Rest, SchedRec
  <2> QED
    BY <2>2, <2>3
<1>10. s'.waits = s.waits /\ s'.lock = s.lock
  BY <1>4 DEF Rest
<1>11. holds' \in [Owners -> SUBSET Locks] /\ LockExact'
  BY <1>1, <1>2, <1>10, ExitLocks
<1> QED
  BY <1>1, <1>2, <1>4, <1>5, <1>7, <1>8, <1>9, <1>10, <1>11, SFacts, LockKept

\* A process calls sleep(): init once, the daemons in their loops.
LEMMA SleepLists ==
  ASSUME SchedInv, NEW p \in Procs, AtUser(p), s' = ProcSleep(s, p), UNCHANGED prog
  PROVE  /\ p \in Awake /\ s.cur = p /\ s.runs[p] /\ \A r \in Procs : s.waits[r] = NULL
         /\ Slept(s, s', Awake, Napping, Free, p)
         /\ Free' = Free /\ Awake' = Awake \ {p} /\ Napping' = Napping \cup {p}
<1>1. p \in Awake /\ s.cur = p /\ \A r \in Procs : s.waits[r] = NULL
  BY UserAwake
<1>2. s.runs[p]
  BY <1>1 DEF Awake
<1>3. Slept(s, s', Awake, Napping, Free, p)
  BY <1>1, <1>2, SFacts, SleptBy
<1>4. Free' = Free /\ Awake' = Awake \ {p} /\ Napping' = Napping \cup {p}
  <2>1. Free' = Free
    BY DEF Free
  <2>2. s'.runs[p] = FALSE /\ \A r \in Procs \ {p} : s'.runs[r] = s.runs[r]
    <3>1. s'.runs = [s.runs EXCEPT ![p] = FALSE]
      BY <1>3 DEF Slept, Rest
    <3>2. s.runs \in [Procs -> BOOLEAN] /\ p \in Procs
      BY SFacts DEF SchedRec
    <3> QED
      BY <3>1, <3>2, RunsSet
  <2>3. p \in Procs \ Free
    BY <1>1 DEF Awake
  <2> QED
    BY <2>1, <2>2, <2>3 DEF Awake, Napping
<1> QED
  BY <1>1, <1>2, <1>3, <1>4

LEMMA SleepSafe ==
  ASSUME SchedInv, NEW p \in Procs, AtUser(p), s' = ProcSleep(s, p),
         NEW l \in {"nap", "end"}, pc' = [pc EXCEPT ![p] = l],
         ~(prog[p] = "syncer" /\ restart), UNCHANGED <<prog, todo, daemon, restart, holds>>
  PROVE  SchedInv'
<1>1. p \in Awake /\ s.cur = p /\ \A r \in Procs : s.waits[r] = NULL
  BY SleepLists
<1>3. /\ s' \in SchedRec /\ Linked(s', Awake \ {p}, Napping \cup {p}, Free)
      /\ Rest(s', [s.runs EXCEPT ![p] = FALSE], s.waits, s.lock, s'.cur)
      /\ Awake \ {p} # {} => s'.cur \in Awake \ {p}
      /\ Awake \ {p} = {} => s'.cur \in Napping \cup {p}
  BY SleepLists DEF Slept
<1>4. Free' = Free /\ Awake' = Awake \ {p} /\ Napping' = Napping \cup {p}
  BY SleepLists
<1>5. Linked(s, Awake, Napping, Free)' /\ CpuInv' /\ DaemonInv'
  BY <1>3, <1>4 DEF SchedInv, CpuInv, DaemonInv
<1>6. pc' \in [Procs -> {"user", "nap", "end"}] /\ NapInv'
  BY <1>4, SFacts DEF SchedInv, NapInv, Napping
<1>7. RestartInv'
  <2> SUFFICES ASSUME restart PROVE daemon["syncer"] # NULL /\ s'.runs[daemon["syncer"]]
    BY DEF RestartInv
  <2>1. daemon["syncer"] # NULL /\ s.runs[daemon["syncer"]] /\ prog[daemon["syncer"]] = "syncer"
    BY DEF SchedInv, RestartInv, DaemonInv, Daemons
  <2>2. daemon["syncer"] \in Procs \ {p}
    BY <2>1, SFacts DEF Daemons
  <2> QED
    BY <1>3, <2>1, <2>2, SFacts DEF Rest, SchedRec
<1> QED
  BY <1>1, <1>3, <1>5, <1>6, <1>7, SFacts, LockFree DEF Rest

\* A process wakes a daemon, which may be awake: SYNCER_RESTART, iod_chn_create.
LEMMA WakeLists ==
  ASSUME SchedInv, NEW p \in Procs, AtUser(p), NEW d \in Daemons, daemon[d] # NULL,
         s' = Wakeup(s, daemon[d]), UNCHANGED prog, NEW q, q = daemon[d]
  PROVE  /\ p \in Awake /\ s.cur = p /\ \A r \in Procs : s.waits[r] = NULL
         /\ q \in Procs /\ prog[q] = d /\ q \notin Free
         /\ s' \in SchedRec /\ Linked(s', Awake \cup {q}, Napping \ {q}, Free)
         /\ Rest(s', [s.runs EXCEPT ![q] = TRUE], s.waits, s.lock, s.cur)
         /\ Free' = Free /\ Awake' = Awake \cup {q} /\ Napping' = Napping \ {q}
<1>1. p \in Awake /\ s.cur = p /\ \A r \in Procs : s.waits[r] = NULL
  BY UserAwake
<1>2. q \in Procs /\ prog[q] = d /\ q \notin Free
  BY SFacts DEF SchedInv, DaemonInv, Free, Daemons
<1>3. /\ s' \in SchedRec /\ Linked(s', Awake \cup {q}, Napping \ {q}, Free)
      /\ Rest(s', [s.runs EXCEPT ![q] = TRUE], s.waits, s.lock, s.cur)
  <2>1. CASE s.runs[q]
    <3>1. s' = s /\ q \in Awake /\ q \notin Napping
      BY <1>2, <2>1 DEF Wakeup, Awake, Napping
    <3>2. [s.runs EXCEPT ![q] = TRUE] = s.runs
      BY <1>2, <2>1, SFacts DEF SchedRec
    <3>3. Awake \cup {q} = Awake /\ Napping \ {q} = Napping
      BY <3>1
    <3>4. Linked(s, Awake \cup {q}, Napping \ {q}, Free) /\ s \in SchedRec
      BY <3>3, SFacts
    <3> QED
      BY <3>1, <3>2, <3>4 DEF Rest
  <2>2. CASE ~s.runs[q]
    <3>1. q \in Napping
      BY <1>2, <2>2 DEF Napping
    <3>2. s' = Wakeup(s, q)
      OBVIOUS
    <3>3. Woken(s, s', Awake, Napping, Free, q)
      BY <2>2, <3>1, <3>2, SFacts, WokenBy
    <3> QED
      BY <3>3 DEF Woken
  <2> QED
    BY <2>1, <2>2
<1>4. Free' = Free /\ Awake' = Awake \cup {q} /\ Napping' = Napping \ {q}
  <2>1. Free' = Free
    BY DEF Free
  <2>2. s'.runs[q] = TRUE /\ \A r \in Procs \ {q} : s'.runs[r] = s.runs[r]
    <3>1. s'.runs = [s.runs EXCEPT ![q] = TRUE]
      BY <1>3 DEF Rest
    <3>2. s.runs \in [Procs -> BOOLEAN] /\ q \in Procs
      BY <1>2, SFacts DEF SchedRec
    <3> QED
      BY <3>1, <3>2
  <2> QED
    BY <1>2, <2>1, <2>2 DEF Awake, Napping
<1> QED
  BY <1>1, <1>2, <1>3, <1>4

LEMMA WakeSafe ==
  ASSUME SchedInv, NEW p \in Procs, AtUser(p), NEW d \in Daemons, daemon[d] # NULL,
         s' = Wakeup(s, daemon[d]), restart' => restart \/ d = "syncer",
         restart' \in BOOLEAN, UNCHANGED <<prog, pc, todo, daemon, holds>>
  PROVE  SchedInv'
<1> DEFINE q == daemon[d]
<1>1. p \in Awake /\ s.cur = p /\ \A r \in Procs : s.waits[r] = NULL
  BY WakeLists
<1>2. q \in Procs /\ prog[q] = d /\ q \notin Free
  BY WakeLists
<1>3. /\ s' \in SchedRec /\ Linked(s', Awake \cup {q}, Napping \ {q}, Free)
      /\ Rest(s', [s.runs EXCEPT ![q] = TRUE], s.waits, s.lock, s.cur)
  BY WakeLists
<1>4. Free' = Free /\ Awake' = Awake \cup {q} /\ Napping' = Napping \ {q}
  BY WakeLists
<1> HIDE DEF q
<1>5. Linked(s, Awake, Napping, Free)' /\ CpuInv' /\ DaemonInv' /\ NapInv'
  BY <1>1, <1>3, <1>4 DEF SchedInv, CpuInv, DaemonInv, NapInv, Rest
<1>6. RestartInv'
  <2> SUFFICES ASSUME restart' PROVE daemon["syncer"] # NULL /\ s'.runs[daemon["syncer"]]
    BY DEF RestartInv
  <2>1. CASE restart
    <3>1. daemon["syncer"] # NULL /\ s.runs[daemon["syncer"]] /\ daemon["syncer"] \in Procs
      BY <2>1, SFacts DEF SchedInv, RestartInv, Daemons
    <3> QED
      BY <1>3, <3>1, SFacts DEF Rest, SchedRec
  <2>2. CASE ~restart
    <3>1. d = "syncer" /\ q # NULL
      BY <2>2 DEF q
    <3> QED
      BY <1>2, <1>3, <3>1, SFacts DEF Rest, SchedRec, q
  <2> QED
    BY <2>1, <2>2
<1> QED
  BY <1>1, <1>3, <1>5, <1>6, SFacts, LockFree DEF Rest

\* A daemon begins a pass, or the syncer begins another one.
LEMMA PassSafe ==
  ASSUME SchedInv, NEW p \in Procs, s.cur = p, s.runs[p], s.waits[p] = NULL,
         pc' \in {pc, [pc EXCEPT ![p] = "user"]}, restart' = (restart /\ prog[p] # "syncer"),
         UNCHANGED <<s, prog, todo, daemon, holds>>
  PROVE  SchedInv'
<1>1. \A q \in Procs : s.waits[q] = NULL
  BY NobodyWaits
<1>2. Free' = Free /\ Awake' = Awake /\ Napping' = Napping /\ p \notin Napping
  BY DEF Free, Awake, Napping
<1>3. NapInv'
  BY <1>2, SFacts DEF SchedInv, NapInv, Napping
<1>4. Linked(s, Awake, Napping, Free)' /\ CpuInv' /\ DaemonInv' /\ RestartInv'
  BY <1>2 DEF SchedInv, CpuInv, DaemonInv, RestartInv
<1>5. pc' \in [Procs -> {"user", "nap", "end"}] /\ restart' \in BOOLEAN
  BY SFacts
<1> QED
  BY <1>1, <1>3, <1>4, <1>5, SFacts, LockFree

LEMMA InitSleepSafe ==
  ASSUME SchedInv, NEW p \in Procs, InitSleep(p)
  PROVE  SchedInv'
<1>1. /\ AtUser(p) /\ s' = ProcSleep(s, p) /\ pc' = [pc EXCEPT ![p] = "end"]
      /\ ~(prog[p] = "syncer" /\ restart) /\ UNCHANGED <<prog, todo, daemon, restart, holds>>
  BY DEF InitSleep
<1> QED
  BY <1>1, SleepSafe

LEMMA DaemonSleepSafe ==
  ASSUME SchedInv, NEW p \in Procs, DaemonSleep(p)
  PROVE  SchedInv'
<1>1. /\ AtUser(p) /\ s' = ProcSleep(s, p) /\ pc' = [pc EXCEPT ![p] = "nap"]
      /\ ~(prog[p] = "syncer" /\ restart) /\ UNCHANGED <<prog, todo, daemon, restart, holds>>
  BY DEF DaemonSleep
<1> QED
  BY <1>1, SleepSafe

LEMMA SyncerRestartSafe ==
  ASSUME SchedInv, NEW p \in Procs, SyncerRestart(p)
  PROVE  SchedInv'
<1>1. /\ AtUser(p) /\ daemon["syncer"] # NULL /\ s' = Wakeup(s, daemon["syncer"])
      /\ restart' = TRUE /\ UNCHANGED <<prog, pc, todo, daemon, holds>>
  BY DEF SyncerRestart
<1>2. "syncer" \in Daemons /\ restart' \in BOOLEAN /\ (restart' => restart \/ "syncer" = "syncer")
  BY <1>1 DEF Daemons
<1> QED
  BY <1>1, <1>2, WakeSafe

LEMMA IodWakeupSafe ==
  ASSUME SchedInv, NEW p \in Procs, IodWakeup(p)
  PROVE  SchedInv'
<1>1. /\ AtUser(p) /\ daemon["iod"] # NULL /\ s' = Wakeup(s, daemon["iod"])
      /\ UNCHANGED <<prog, pc, todo, daemon, restart, holds>>
  BY DEF IodWakeup
<1>2. "iod" \in Daemons /\ restart' \in BOOLEAN /\ (restart' => restart \/ "iod" = "syncer")
  BY <1>1, SFacts DEF Daemons
<1> QED
  BY <1>1, <1>2, WakeSafe

LEMMA DaemonTopSafe ==
  ASSUME SchedInv, NEW p \in Procs, DaemonTop(p)
  PROVE  SchedInv'
<1>1. /\ s.cur = p /\ s.runs[p] /\ pc[p] = "nap" /\ pc' = [pc EXCEPT ![p] = "user"]
      /\ restart' = (restart /\ prog[p] # "syncer")
      /\ UNCHANGED <<s, prog, todo, daemon, holds>>
  BY DEF DaemonTop
<1>2. s.waits[p] = NULL
  BY <1>1 DEF SchedInv, WaitInv
<1> QED
  BY <1>1, <1>2, PassSafe

LEMMA SyncerAgainSafe ==
  ASSUME SchedInv, NEW p \in Procs, SyncerAgain(p)
  PROVE  SchedInv'
<1>1. p \in Awake /\ s.cur = p /\ s.waits[p] = NULL
  BY UserAwake DEF SyncerAgain
<1>2. /\ restart' = (restart /\ prog[p] # "syncer") /\ pc' = pc
      /\ UNCHANGED <<s, prog, todo, daemon, holds>>
  BY DEF SyncerAgain
<1> QED
  BY <1>1, <1>2, PassSafe DEF Awake

-----------------------------------------------------------------------------
(* Locks.                                                                  *)


\* A step of the locks moves nobody from one list to another and switches to nobody.
LEMMA LockSafe ==
  ASSUME SchedInv, NEW p \in Procs, AtUser(p), s' \in SchedRec,
         Fields(s', s.next, s.prev, s.first, s.last),
         NEW w, NEW n, Rest(s', s.runs, w, n, s.cur),
         w \in {s.waits} \cup {[s.waits EXCEPT ![p] = l] : l \in Locks},
         holds' \in [Owners -> SUBSET Locks], LockExact',
         UNCHANGED <<prog, pc, todo, daemon, restart>>
  PROVE  SchedInv'
<1>1. p \in Awake /\ s.cur = p /\ pc[p] = "user" /\ \A r \in Procs : s.waits[r] = NULL
  BY UserAwake
<1>2. s'.runs = s.runs /\ s'.cur = s.cur /\ s'.waits = w
  BY DEF Rest
<1>3. Linked(s', Awake, Napping, Free)
  BY SFacts, LinkedFields
<1>4. Free' = Free /\ Awake' = Awake /\ Napping' = Napping
  BY <1>2 DEF Free, Awake, Napping
<1>5. Linked(s, Awake, Napping, Free)'
  BY <1>3, <1>4
<1>6. CpuInv' /\ NapInv' /\ DaemonInv' /\ RestartInv'
  BY <1>2, <1>4 DEF SchedInv, CpuInv, NapInv, DaemonInv, RestartInv
<1>7. TypeOK'
  BY SFacts DEF TypeOK, SchedRec
<1>8. WaitInv'
  <2>1. \A q \in Procs : q # p => w[q] = NULL
    BY <1>1, SFacts DEF SchedRec
  <2> QED
    BY <1>1, <1>2, <2>1 DEF WaitInv
<1> QED
  BY <1>5, <1>6, <1>7, <1>8 DEF SchedInv

\* lock_ref2: the process has the lock, or waits for it and keeps the CPU.
RefTaken(k, j, l) ==
  /\ j \in SchedRec /\ Fields(j, k.next, k.prev, k.first, k.last)
  /\ Rest(j, k.runs, k.waits, [k.lock EXCEPT ![l] = k.lock[l] + 1], k.cur)

RefWaits(k, j, p, l) ==
  /\ j \in SchedRec /\ Fields(j, k.next, k.prev, k.first, k.last)
  /\ Rest(j, k.runs, [k.waits EXCEPT ![p] = l], [k.lock EXCEPT ![l] = k.lock[l] + 1], k.cur)

LEMMA LockRefEffect ==
  ASSUME NEW k \in SchedRec, NEW p \in Procs, NEW l \in Locks, NEW b \in BOOLEAN,
         NEW j, j = LockRef(k, p, l, b)
  PROVE  /\ ~b /\ k.lock[l] = 0 => RefTaken(k, j, l)
         /\ b \/ k.lock[l] # 0 => RefWaits(k, j, p, l)
<1> DEFINE n == k.lock[l] + 1
           t == [k EXCEPT !.lock[l] = n]
           u == [t EXCEPT !.waits[p] = l]
<1>1. k.lock[l] \in Nat /\ n \in Nat /\ n # 0 /\ (n = 1 <=> k.lock[l] = 0)
  BY DEF SchedRec
<1>2. j = IF ~b /\ t.lock[l] = 1 THEN t ELSE ProcSleep(u, p)
  BY DEF LockRef
<1> HIDE DEF n
<1>3. /\ t \in SchedRec /\ Fields(t, k.next, k.prev, k.first, k.last)
      /\ Rest(t, k.runs, k.waits, [k.lock EXCEPT ![l] = n], k.cur)
  BY <1>1, SetLock
<1> HIDE DEF t
<1>4. t.lock[l] = n
  <2>1. t.lock = [k.lock EXCEPT ![l] = n]
    BY <1>3 DEF Rest
  <2> QED
    BY <2>1 DEF SchedRec
<1>5. /\ u \in SchedRec /\ Fields(u, t.next, t.prev, t.first, t.last)
      /\ Rest(u, t.runs, [t.waits EXCEPT ![p] = l], t.lock, t.cur)
  BY <1>3, SetWaits
<1> HIDE DEF u
<1>6. u.waits[p] = l
  <2>1. u.waits = [t.waits EXCEPT ![p] = l]
    BY <1>5 DEF Rest
  <2> QED
    BY <1>3, <2>1 DEF SchedRec
<1>7. ProcSleep(u, p) = u
  BY <1>6, SchedAssumption DEF ProcSleep
<1>8. CASE ~b /\ k.lock[l] = 0
  <2>1. j = t
    BY <1>1, <1>2, <1>4, <1>8
  <2> QED
    BY <1>3, <1>8, <2>1 DEF RefTaken, n
<1>9. CASE b \/ k.lock[l] # 0
  <2>1. j = u
    BY <1>1, <1>2, <1>4, <1>7, <1>9
  <2>2. Fields(u, k.next, k.prev, k.first, k.last)
    BY <1>3, <1>5 DEF Fields
  <2>3. Rest(u, k.runs, [k.waits EXCEPT ![p] = l], [k.lock EXCEPT ![l] = n], k.cur)
    BY <1>3, <1>5 DEF Rest
  <2> QED
    BY <1>5, <1>9, <2>1, <2>2, <2>3 DEF RefWaits, n
<1> QED
  BY <1>8, <1>9

\* The counters of the other locks, and who holds and wants them.
LEMMA LockExactBy ==
  ASSUME SchedInv, s' \in SchedRec, NEW l \in Locks, NEW n \in Nat,
         s'.lock = [s.lock EXCEPT ![l] = n],
         \A m \in Locks \ {l} : Holders(m)' = Holders(m) /\ Waiters(m)' = Waiters(m),
         n = Cardinality(Holders(l)') + Cardinality(Waiters(l)'), Cardinality(Holders(l)') <= 1
  PROVE  LockExact'
<1> SUFFICES ASSUME NEW m \in Locks
             PROVE  /\ s'.lock[m] = Cardinality(Holders(m)') + Cardinality(Waiters(m)')
                    /\ Cardinality(Holders(m)') <= 1
  BY DEF LockExact, Holders, Waiters
<1>1. s.lock \in [Locks -> Nat]
  BY SFacts DEF SchedRec
<1>2. CASE m = l
  <2>1. s'.lock[m] = n
    BY <1>1, <1>2
  <2> QED
    BY <1>2, <2>1
<1>3. CASE m # l
  <2>1. s'.lock[m] = s.lock[m]
    BY <1>1, <1>3
  <2>2. Holders(m)' = Holders(m) /\ Waiters(m)' = Waiters(m)
    BY <1>3
  <2>3. s.lock[m] = Cardinality(Holders(m)) + Cardinality(Waiters(m))
        /\ Cardinality(Holders(m)) <= 1
    BY DEF SchedInv, LockExact, Holders, Waiters
  <2> QED
    BY <2>1, <2>2, <2>3
<1> QED
  BY <1>2, <1>3

LEMMA TakenSafe ==
  ASSUME SchedInv, NEW p \in Procs, AtUser(p), NEW l \in Locks, s.lock[l] = 0, RefTaken(s, s', l),
         holds' = [holds EXCEPT ![p] = @ \cup {l}], UNCHANGED <<prog, pc, todo, daemon, restart>>
  PROVE  SchedInv'
<1>0. s \in SchedRec /\ holds \in [Owners -> SUBSET Locks] /\ \A r \in Procs : s.waits[r] = NULL
  BY SFacts, UserAwake
<1>1. /\ s' \in SchedRec /\ Fields(s', s.next, s.prev, s.first, s.last)
      /\ Rest(s', s.runs, s.waits, [s.lock EXCEPT ![l] = s.lock[l] + 1], s.cur)
  BY DEF RefTaken
<1>2. holds' \in [Owners -> SUBSET Locks]
  BY <1>0
<1>3. Waiters(l) = {} /\ Holders(l) = {}
  BY <1>0, LockHeld
<1>4. \A m \in Locks : Waiters(m)' = Waiters(m)
  BY <1>1 DEF Rest, Waiters
<1>5. Holders(l)' = {p} /\ \A m \in Locks \ {l} : Holders(m)' = Holders(m)
  BY <1>0, <1>3 DEF Holders, Owners
<1>6. /\ Cardinality(Holders(l)') = 1 /\ Cardinality(Waiters(l)') = 0
      /\ s.lock[l] + 1 = 1 /\ s'.lock = [s.lock EXCEPT ![l] = s.lock[l] + 1]
  <2>1. Waiters(l)' = {} /\ s'.lock = [s.lock EXCEPT ![l] = s.lock[l] + 1]
    BY <1>1, <1>3, <1>4 DEF Rest
  <2>2. Cardinality(Holders(l)') = 1 /\ Cardinality(Waiters(l)') = 0
    BY <1>5, <2>1, FS_Singleton, FS_EmptySet
  <2> QED
    BY <2>1, <2>2
<1>7. LockExact'
  BY <1>1, <1>4, <1>5, <1>6, LockExactBy
<1> QED
  BY <1>1, <1>2, <1>7, LockSafe

LEMMA WaitsSafe ==
  ASSUME SchedInv, NEW p \in Procs, AtUser(p), NEW l \in Locks, RefWaits(s, s', p, l),
         UNCHANGED <<prog, pc, todo, daemon, restart, holds>>
  PROVE  SchedInv'
<1>0. s \in SchedRec /\ holds \in [Owners -> SUBSET Locks] /\ \A r \in Procs : s.waits[r] = NULL
  BY SFacts, UserAwake
<1>1. /\ s' \in SchedRec /\ Fields(s', s.next, s.prev, s.first, s.last)
      /\ Rest(s', s.runs, [s.waits EXCEPT ![p] = l], [s.lock EXCEPT ![l] = s.lock[l] + 1], s.cur)
  BY DEF RefWaits
<1>2. /\ s.waits \in [Procs -> Locks \cup {NULL}] /\ s'.waits = [s.waits EXCEPT ![p] = l]
      /\ s'.lock = [s.lock EXCEPT ![l] = s.lock[l] + 1] /\ NULL \notin Locks
  BY <1>0, <1>1, SchedAssumption DEF Rest, SchedRec
<1>3. Waiters(l)' = {p} /\ \A m \in Locks \ {l} : Waiters(m)' = Waiters(m)
  BY <1>0, <1>2 DEF Waiters
<1>4. \A m \in Locks : Holders(m)' = Holders(m)
  BY DEF Holders
<1>5. s.lock[l] = Cardinality(Holders(l)) /\ s.lock[l] \in {0, 1}
  BY <1>0, LockHeld
<1>6. Cardinality(Waiters(l)') = 1
  BY <1>3, FS_Singleton
<1>7. LockExact'
  BY <1>1, <1>2, <1>3, <1>4, <1>5, <1>6, LockExactBy
<1> QED
  BY <1>0, <1>1, <1>7, LockSafe

\* Nobody waits for a lock that is released, since a process that waits keeps the CPU.
LEMMA UnlockEffect ==
  ASSUME SchedInv, NEW p \in Procs, NEW l \in Locks, Unlock(p, l)
  PROVE  /\ Waiters(l) = {} /\ Holders(l) = {p}
         /\ s' \in SchedRec /\ Fields(s', s.next, s.prev, s.first, s.last)
         /\ Rest(s', s.runs, s.waits, [s.lock EXCEPT ![l] = 0], s.cur)
<1>0. s \in SchedRec
  BY SFacts
<1>1. AtUser(p) /\ l \in holds[p] /\ s' = LockUnref(s, l)
  BY DEF Unlock, Client
<1>2. \A r \in Procs : s.waits[r] = NULL
  BY <1>1, UserAwake
<1>3. Waiters(l) = {} /\ Holders(l) = {p} /\ s.lock[l] = 1
  <2>1. p \in Holders(l)
    BY <1>1 DEF Holders, Owners
  <2> QED
    BY <1>2, <2>1, LockHeld
<1> DEFINE t == [s EXCEPT !.lock[l] = 0]
<1>4. s' = t
  <2> DEFINE u == [s EXCEPT !.lock[l] = s.lock[l] - 1]
  <2>1. u = t
    BY <1>3
  <2>2. t.lock[l] = 0
    BY <1>0 DEF SchedRec
  <2>3. s' = IF u.lock[l] # 0 THEN LockWakeup(u, l) ELSE u
    BY <1>1 DEF LockUnref
  <2> QED
    BY <2>1, <2>2, <2>3
<1>5. /\ t \in SchedRec /\ Fields(t, s.next, s.prev, s.first, s.last)
      /\ Rest(t, s.runs, s.waits, [s.lock EXCEPT ![l] = 0], s.cur)
  BY <1>0, SetLock
<1> HIDE DEF t
<1> QED
  BY <1>3, <1>4, <1>5

LEMMA UnlockSafe ==
  ASSUME SchedInv, NEW p \in Procs, NEW l \in Locks, Unlock(p, l)
  PROVE  SchedInv'
<1>0. s \in SchedRec /\ holds \in [Owners -> SUBSET Locks]
  BY SFacts
<1>1. /\ AtUser(p) /\ l \in holds[p] /\ holds' = [holds EXCEPT ![p] = @ \ {l}]
      /\ UNCHANGED <<prog, pc, todo, daemon, restart>>
  BY DEF Unlock, Client
<1>2. /\ Waiters(l) = {} /\ Holders(l) = {p}
      /\ s' \in SchedRec /\ Fields(s', s.next, s.prev, s.first, s.last)
      /\ Rest(s', s.runs, s.waits, [s.lock EXCEPT ![l] = 0], s.cur)
  BY UnlockEffect
<1>3. holds' \in [Owners -> SUBSET Locks]
  BY <1>0, <1>1
<1>4. \A m \in Locks : Waiters(m)' = Waiters(m)
  BY <1>2 DEF Rest, Waiters
<1>5. Holders(l)' = {} /\ \A m \in Locks \ {l} : Holders(m)' = Holders(m)
  BY <1>0, <1>1, <1>2 DEF Holders
<1>6. /\ Cardinality(Holders(l)') = 0 /\ Cardinality(Waiters(l)') = 0
      /\ s'.lock = [s.lock EXCEPT ![l] = 0]
  BY <1>2, <1>4, <1>5, FS_EmptySet DEF Rest
<1>7. LockExact'
  BY <1>2, <1>4, <1>5, <1>6, LockExactBy
<1> QED
  BY <1>1, <1>2, <1>3, <1>7, LockSafe

LEMMA LockStepSafe ==
  ASSUME SchedInv, NEW p \in Procs, NEW l \in Locks, Lock(p, l) \/ LockWait(p, l)
  PROVE  SchedInv'
<1>0. s \in SchedRec /\ holds \in [Owners -> SUBSET Locks]
  BY SFacts
<1>1. CASE Lock(p, l) /\ s.lock[l] = 0
  <2>1. /\ AtUser(p) /\ s' = LockRef(s, p, l, FALSE) /\ holds' = [holds EXCEPT ![p] = @ \cup {l}]
        /\ UNCHANGED <<prog, pc, todo, daemon, restart>>
    BY <1>1 DEF Lock, Client
  <2>2. RefTaken(s, s', l)
    BY <1>0, <1>1, <2>1, LockRefEffect
  <2> QED
    BY <1>1, <2>1, <2>2, TakenSafe
<1>2. CASE Lock(p, l) /\ s.lock[l] # 0
  <2>1. /\ AtUser(p) /\ s' = LockRef(s, p, l, FALSE) /\ holds' = [holds EXCEPT ![p] = holds[p]]
        /\ UNCHANGED <<prog, pc, todo, daemon, restart>>
    BY <1>2 DEF Lock, Client
  <2>2. holds' = holds
    BY <1>0, <2>1
  <2>3. RefWaits(s, s', p, l)
    BY <1>0, <1>2, <2>1, LockRefEffect
  <2> QED
    BY <2>1, <2>2, <2>3, WaitsSafe
<1>3. CASE LockWait(p, l)
  <2>1. /\ AtUser(p) /\ s' = LockRef(s, p, l, TRUE)
        /\ UNCHANGED <<prog, pc, todo, daemon, restart, holds>>
    BY <1>3 DEF LockWait, Client
  <2>2. RefWaits(s, s', p, l)
    BY <1>0, <2>1, LockRefEffect
  <2> QED
    BY <2>1, <2>2, WaitsSafe
<1> QED
  BY <1>1, <1>2, <1>3

-----------------------------------------------------------------------------
(* The first state.                                                        *)

LEMMA InitSafe ==
  ASSUME Init
  PROVE  SchedInv /\ Awake = {NumProcs} /\ Napping = {} /\ s.cur = NumProcs
<1> DEFINE q == NumProcs
           pool == [prev  |-> PoolPrev(q), next |-> PoolNext(q),
                    first |-> [l \in Lists |-> IF l = "unused" THEN 1 ELSE NULL],
                    last  |-> [l \in Lists |-> IF l = "unused" THEN q ELSE NULL],
                    runs  |-> [p \in Procs |-> FALSE],
                    waits |-> [p \in Procs |-> NULL],
                    lock  |-> [l \in Locks |-> 0],
                    cur   |-> q]
           c == ProcCreate(pool)
<1>0. q \in Nat /\ q > 0 /\ q \in Procs /\ q # NULL /\ 1 \in Procs
  BY SchedAssumption DEF Procs, NULL
<1>1. s = Wakeup(c, q)
  BY DEF Init
<1>2. pool \in SchedRec
  <2>1. PoolPrev(q) \in [Procs -> Procs \cup {NULL}] /\ PoolNext(q) \in [Procs -> Procs \cup {NULL}]
    BY <1>0 DEF PoolPrev, PoolNext, Procs, NULL
  <2> QED
    BY <1>0, <2>1 DEF SchedRec
<1>3. Linked(pool, {}, {}, Procs)
  <2>1. /\ pool.next = PoolNext(q) /\ pool.prev = PoolPrev(q)
        /\ pool.first["unused"] = 1 /\ pool.last["unused"] = q
        /\ pool.first["running"] = NULL /\ pool.last["running"] = NULL
        /\ pool.first["sleeping"] = NULL /\ pool.last["sleeping"] = NULL
    BY DEF Lists
  <2> HIDE DEF pool
  <2>2. OnChain(pool, "unused", Procs)
    BY <1>0, <2>1, PoolChain DEF OnChain, Procs
  <2>3. OnRing(pool, "running", {}) /\ OnRing(pool, "sleeping", {})
    BY <2>1, RingEmpty DEF OnRing
  <2> QED
    BY <2>2, <2>3 DEF Linked
<1>4. /\ q = pool.last["unused"]
      /\ Rest(pool, [p \in Procs |-> FALSE], [p \in Procs |-> NULL], [l \in Locks |-> 0], q)
  BY DEF Rest, Lists
<1> HIDE DEF pool, q
<1>5. /\ c \in SchedRec /\ Linked(c, {}, {} \cup {q}, Procs \ {q})
      /\ Rest(c, [pool.runs EXCEPT ![q] = FALSE], pool.waits, pool.lock, pool.cur)
  BY <1>0, <1>2, <1>3, <1>4, ProcCreateEffect
<1> HIDE DEF c
<1>6. ~c.runs[q]
  <2>1. c.runs = [pool.runs EXCEPT ![q] = FALSE] /\ pool.runs \in [Procs -> BOOLEAN]
    BY <1>2, <1>5 DEF Rest, SchedRec
  <2> QED
    BY <1>0, <2>1
<1>7. /\ s \in SchedRec /\ Linked(s, {q}, {}, Procs \ {q})
      /\ Rest(s, [c.runs EXCEPT ![q] = TRUE], c.waits, c.lock, c.cur)
  <2>1. Linked(c, {}, {q}, Procs \ {q})
    BY <1>5
  <2>2. Woken(c, s, {}, {q}, Procs \ {q}, q)
    BY <1>1, <1>5, <1>6, <2>1, WokenBy
  <2>3. {} \cup {q} = {q} /\ {q} \ {q} = {}
    OBVIOUS
  <2> QED
    BY <2>2, <2>3 DEF Woken
<1>8. /\ s.runs[q] /\ s.waits = [p \in Procs |-> NULL] /\ s.lock = [l \in Locks |-> 0] /\ s.cur = q
  <2>1. s.runs = [c.runs EXCEPT ![q] = TRUE] /\ c.runs \in [Procs -> BOOLEAN]
    BY <1>5, <1>7 DEF Rest, SchedRec
  <2> QED
    BY <1>0, <1>4, <1>5, <1>7, <2>1 DEF Rest
<1>9. /\ prog = [p \in Procs |-> IF p = q THEN "init" ELSE "none"]
      /\ pc = [p \in Procs |-> "user"] /\ todo = <<"syncer", "iod", "sh">>
      /\ daemon = [d \in Daemons |-> NULL] /\ restart = FALSE /\ holds = [p \in Owners |-> {}]
  BY DEF Init, q
<1>10. Free = Procs \ {q} /\ Awake = {q} /\ Napping = {}
  <2>1. Free = Procs \ {q}
    BY <1>9 DEF Free
  <2> QED
    BY <1>0, <1>8, <2>1 DEF Awake, Napping
<1>11. TypeOK
  <2>1. /\ prog \in [Procs -> {"none", "init", "sh"} \cup Daemons]
        /\ pc \in [Procs -> {"user", "nap", "end"}]
        /\ daemon \in [Daemons -> Procs \cup {NULL}] /\ restart \in BOOLEAN
        /\ holds \in [Owners -> SUBSET Locks]
    BY <1>9
  <2>2. todo \in Seq({"syncer", "iod", "sh"})
    BY <1>9
  <2> QED
    BY <1>7, <2>1, <2>2 DEF TypeOK, SchedRec
<1>12. Linked(s, Awake, Napping, Free)
  BY <1>7, <1>10
<1>13. CpuInv /\ NapInv /\ DaemonInv /\ RestartInv /\ WaitInv
  BY <1>8, <1>9, <1>10 DEF CpuInv, NapInv, DaemonInv, RestartInv, WaitInv
<1>14. LockExact
  <2> SUFFICES ASSUME NEW l \in Locks
               PROVE  /\ s.lock[l] = Cardinality(Holders(l)) + Cardinality(Waiters(l))
                      /\ Cardinality(Holders(l)) <= 1
    BY DEF LockExact, Holders, Waiters
  <2>1. Holders(l) = {} /\ Waiters(l) = {}
    BY <1>8, <1>9, SchedAssumption DEF Holders, Waiters
  <2>2. Cardinality(Holders(l)) = 0 /\ Cardinality(Waiters(l)) = 0
    BY <2>1, FS_EmptySet
  <2> QED
    BY <1>8, <2>2
<1> QED
  BY <1>8, <1>10, <1>11, <1>12, <1>13, <1>14 DEF SchedInv, q

LEMMA StepSafe ==
  ASSUME SchedInv, [Next]_vars
  PROVE  SchedInv'
<1>1. CASE UNCHANGED vars
  <2>1. UNCHANGED <<s, prog, pc, todo, daemon, restart, holds>>
    BY <1>1 DEF vars
  <2>2. Awake' = Awake /\ Napping' = Napping /\ Free' = Free
    BY <2>1 DEF Awake, Napping, Free
  <2>3. TypeOK'
    BY <2>1 DEF SchedInv, TypeOK
  <2>4. Linked(s, Awake, Napping, Free)' /\ CpuInv' /\ NapInv'
    BY <2>1, <2>2 DEF SchedInv, CpuInv, NapInv
  <2>5. DaemonInv' /\ RestartInv' /\ WaitInv'
    BY <2>1 DEF SchedInv, DaemonInv, RestartInv, WaitInv
  <2>6. LockExact'
    BY <2>1 DEF SchedInv, LockExact, Holders, Waiters
  <2> QED
    BY <2>3, <2>4, <2>5, <2>6 DEF SchedInv
<1>2. CASE Next
  <2> PICK p \in Procs :
        \/ Yield(p) \/ Boot(p) \/ Spawn(p) \/ SpawnFails(p) \/ Exit(p) \/ InitSleep(p)
        \/ SyncerRestart(p) \/ IodWakeup(p)
        \/ DaemonTop(p) \/ SyncerAgain(p) \/ DaemonSleep(p)
        \/ \E l \in Locks : Lock(p, l) \/ LockWait(p, l) \/ Unlock(p, l)
    BY <1>2 DEF Next
  <2>1. CASE Yield(p)
    BY <2>1, YieldSafe
  <2>2. CASE Boot(p)
    BY <2>2, BootSafe
  <2>3. CASE Spawn(p)
    BY <2>3, SpawnSafe
  <2>4. CASE SpawnFails(p)
    BY <2>4, SpawnFailsSafe
  <2>5. CASE Exit(p)
    BY <2>5, ExitSafe
  <2>6. CASE InitSleep(p)
    BY <2>6, InitSleepSafe
  <2>7. CASE SyncerRestart(p)
    BY <2>7, SyncerRestartSafe
  <2>8. CASE IodWakeup(p)
    BY <2>8, IodWakeupSafe
  <2>9. CASE DaemonTop(p)
    BY <2>9, DaemonTopSafe
  <2>10. CASE SyncerAgain(p)
    BY <2>10, SyncerAgainSafe
  <2>11. CASE DaemonSleep(p)
    BY <2>11, DaemonSleepSafe
  <2>12. CASE \E l \in Locks : Lock(p, l) \/ LockWait(p, l)
    BY <2>12, LockStepSafe
  <2>13. CASE \E l \in Locks : Unlock(p, l)
    BY <2>13, UnlockSafe
  <2> QED
    BY <2>1, <2>2, <2>3, <2>4, <2>5, <2>6, <2>7, <2>8, <2>9, <2>10, <2>11, <2>12, <2>13
<1> QED
  BY <1>1, <1>2

\* The invariant of the scheduler: in every state the three lists are rings and a chain
\* of the right processes, and the CPU, the naps, the daemons, the restart request and
\* the locks are in order.
THEOREM SchedInvariant == Spec => []SchedInv
<1>1. Init => SchedInv
  BY InitSafe
<1>2. SchedInv /\ [Next]_vars => SchedInv'
  BY StepSafe
<1> QED
  BY <1>1, <1>2, PTL DEF Spec

-----------------------------------------------------------------------------
(* What the invariant says.                                                *)

\* Following the links from its header finds exactly the members of a list.
LEMMA MembersOf ==
  ASSUME SchedInv, NEW l \in Lists, NEW P \in SUBSET Procs,
         IF P = {} THEN s.first[l] = NULL
         ELSE /\ s.first[l] \in P /\ Reaches(P, s.next, s.first[l])
              /\ \A p \in P : s.next[p] \in P \cup {NULL}
  PROVE  Members(l) = P
<1> DEFINE w == WalkFrom(s, s.first[l], NumProcs)
<1>1. IsWalk(w, s.next, s.first[l], NumProcs) /\ NumProcs \in Nat
  BY WalkFromIsWalk, SchedAssumption
<1> HIDE DEF w
<1>2. w = [i \in 1..NumProcs |-> w[i]]
  BY <1>1 DEF IsWalk
<1>3. Members(l) = {w[i] : i \in 1..NumProcs} \ {NULL}
  <2>1. DOMAIN w = 1..NumProcs
    BY <1>2
  <2> QED
    BY <2>1 DEF Members, Range, w
<1>4. CASE P = {}
  <2>1. w \in [1..NumProcs -> {NULL}]
    BY <1>1, <1>4, WalkOfNull
  <2> QED
    BY <1>3, <1>4, <2>1
<1>5. CASE P # {}
  <2>1. IsFiniteSet(P) /\ Cardinality(P) <= NumProcs
    <3>1. IsFiniteSet(Procs) /\ Cardinality(Procs) = NumProcs
      BY FS_Interval, SchedAssumption DEF Procs
    <3> QED
      BY <3>1, FS_Subset
  <2>2. /\ NULL \notin P /\ s.first[l] \in P /\ Reaches(P, s.next, s.first[l])
        /\ \A p \in P : s.next[p] \in P \cup {NULL}
    BY <1>5, NullNoProc
  <2> QED
    BY <1>1, <1>3, <2>1, <2>2, WalkMembers
<1> QED
  BY <1>4, <1>5

LEMMA ListsByInv ==
  ASSUME SchedInv
  PROVE  ListsMatchState /\ RingsLinked
<1>0. /\ OnRing(s, "running", Awake) /\ OnRing(s, "sleeping", Napping) /\ OnChain(s, "unused", Free)
      /\ "running" \in Lists /\ "sleeping" \in Lists /\ "unused" \in Lists
      /\ Awake \in SUBSET Procs /\ Napping \in SUBSET Procs /\ Free \in SUBSET Procs
  BY SFacts DEF Linked, Lists
<1>1. ASSUME NEW P \in SUBSET Procs, NEW l \in Lists, OnRing(s, l, P)
      PROVE  Members(l) = P /\ Closed(P, l)
  <2>1. P # {} => Reaches(P, s.next, s.first[l])
    <3> SUFFICES ASSUME P # {} PROVE Reaches(P, s.next, s.first[l])
      OBVIOUS
    <3>1. IsRing(P, s.next, s.prev) /\ s.first[l] \in P
      BY <1>1 DEF OnRing
    <3>2. NULL \notin P
      BY NullNoProc
    <3> QED
      BY <3>1, <3>2, RingReaches
  <2>2. /\ IF P = {} THEN s.first[l] = NULL /\ s.last[l] = NULL
                     ELSE s.first[l] \in P /\ s.last[l] # NULL
        /\ \A p \in P : /\ s.next[p] \in P /\ s.prev[s.next[p]] = p
                        /\ s.prev[p] \in P /\ s.next[s.prev[p]] = p
    BY <1>1 DEF OnRing, IsRing
  <2>3. Closed(P, l)
    BY <2>2 DEF Closed
  <2>4. Members(l) = P
    BY <2>1, <2>2, MembersOf
  <2> QED
    BY <2>3, <2>4
<1>2. Members("unused") = Free
  <2>1. IsChain(Free, s.next, s.prev, s.first["unused"], s.last["unused"])
    BY <1>0 DEF OnChain
  <2>2. IF Free = {} THEN s.first["unused"] = NULL
        ELSE /\ s.first["unused"] \in Free /\ Reaches(Free, s.next, s.first["unused"])
             /\ \A p \in Free : s.next[p] \in Free \cup {NULL}
    BY <2>1 DEF IsChain
  <2> QED
    BY <1>0, <2>2, MembersOf
<1> QED
  BY <1>0, <1>1, <1>2 DEF ListsMatchState, RingsLinked, Running, Sleeping, Unused

\* Whatever sleeps, wakes, ends or fails to start, every descriptor is in the list that
\* its state says, both rings can be followed in both directions without leaving them,
\* and a header is NULL only for an empty ring (proc_sleep, proc_wakeup, proc_create,
\* proc_kill on top of clist_insert, clist_remove, dequeue_push and dequeue_pop).
THEOREM ListsAlwaysExact == Spec => []ListsExact
<1>1. SchedInv => ListsExact
  BY ListsByInv DEF SchedInv, ListsExact
<1> QED
  BY <1>1, SchedInvariant, PTL

\* As long as a process is not asleep the CPU has such a process, and the system is
\* shut down only when there is none (the switches of proc_sleep and exit).
THEOREM CpuAlwaysUsed == Spec => []CpuIsUsed
<1>1. SchedInv => CpuIsUsed
  BY DEF SchedInv, CpuInv, CpuIsUsed
<1> QED
  BY <1>1, SchedInvariant, PTL

\* A restart request never stays behind with a syncer that sleeps, although only the
\* first of several requests wakes it (SYNCER_AVOID_WAKEUP).
THEOREM RestartNeverLost == Spec => []RestartNotLost
<1>1. SchedInv => RestartNotLost
  BY DEF SchedInv, RestartInv, RestartNotLost
<1> QED
  BY <1>1, SchedInvariant, PTL

\* A lock counter is the number of those who hold the lock or wait for it, and at most
\* one holds it, for any number of processes and locks (lock_ref2, lock_unref).
THEOREM LocksAlwaysExact == Spec => []LockExact
<1>1. SchedInv => LockExact
  BY DEF SchedInv
<1> QED
  BY <1>1, SchedInvariant, PTL

-----------------------------------------------------------------------------
(* The order of the ring of those awake.                                   *)

SameOrder(k, j, A) == \A x \in A : j.next[x] = k.next[x]

\* p joins behind y.
Joined(k, j, A, p, y) ==
  /\ y \in A /\ j.next[y] = p /\ j.next[p] = k.next[y]
  /\ \A x \in A \ {y} : j.next[x] = k.next[x]

Left(k, j, A, p) ==
  \A x \in A \ {p} : j.next[x] = IF k.next[x] = p THEN k.next[p] ELSE k.next[x]

LEMMA LinkedParts ==
  ASSUME NEW k \in SchedRec, NEW A, NEW N, NEW F, Linked(k, A, N, F)
  PROVE  /\ Links(k, Procs, Lists)
         /\ "running" \in Lists /\ "sleeping" \in Lists /\ "unused" \in Lists
         /\ A \subseteq Procs /\ N \subseteq Procs /\ F \subseteq Procs
         /\ A \cap N = {} /\ A \cap F = {} /\ N \cap F = {}
         /\ OnRing(k, "running", A) /\ OnRing(k, "sleeping", N) /\ OnChain(k, "unused", F)
BY RecLinks DEF Lists, Linked

LEMMA WakeupOrder ==
  ASSUME NEW k \in SchedRec, NEW A, NEW N, NEW F, Linked(k, A, N, F), A # {},
         NEW p \in N, ~k.runs[p], NEW j, j = Wakeup(k, p)
  PROVE  \E y \in A : Joined(k, j, A, p, y)
<1> DEFINE i == [k EXCEPT !.runs[p] = TRUE]
           u == ClistRemove(i, "sleeping", p)
<1>0. p \in Procs /\ p \notin A
  BY LinkedParts
<1>1. /\ i \in SchedRec /\ Fields(i, k.next, k.prev, k.first, k.last)
  BY <1>0, SetRuns
<1>2. j = ClistInsert(u, "running", p)
  BY DEF Wakeup
<1> HIDE DEF i
<1>3. Linked(i, A, N, F)
  BY <1>1, LinkedFields
<1>4. /\ Links(i, Procs, Lists) /\ OnRing(i, "sleeping", N) /\ OnRing(i, "running", A)
      /\ "sleeping" \in Lists /\ "running" \in Lists /\ A \subseteq Procs /\ N \subseteq Procs
      /\ A \cap N = {}
  BY <1>1, <1>3, LinkedParts
<1>5. Links(u, Procs, Lists) /\ Elsewhere(i, u, Procs, Lists, "sleeping", N)
  BY <1>4, ClistRemoveList
<1> HIDE DEF u
<1>6. OnRing(u, "running", A)
  BY <1>4, <1>5, RingElsewhere
<1>7. PICK y \in A : /\ j.next[y] = p /\ j.next[p] = u.next[y] /\ j.prev[p] = y
                     /\ \A x \in A \ {y} : j.next[x] = u.next[x]
  BY <1>0, <1>2, <1>4, <1>5, <1>6, ClistInsertNext
<1>8. \A x \in A : u.next[x] = k.next[x]
  BY <1>1, <1>4, <1>5 DEF Elsewhere, Fields
<1> QED
  BY <1>7, <1>8 DEF Joined

LEMMA SleepOrder ==
  ASSUME NEW k \in SchedRec, NEW A, NEW N, NEW F, Linked(k, A, N, F),
         NEW p \in A, k.runs[p], k.waits[p] = NULL, p = k.cur, NEW j, j = ProcSleep(k, p)
  PROVE  Left(k, j, A, p)
<1> DEFINE i == [k EXCEPT !.runs[p] = FALSE]
           u == ClistRemove(i, "running", p)
           t == ClistInsert(u, "sleeping", p)
           n == k.next[p]
           c == [t EXCEPT !.cur = t.prev[n]]
<1>0. p \in Procs /\ p \notin N
  BY LinkedParts
<1>1. /\ i \in SchedRec /\ Fields(i, k.next, k.prev, k.first, k.last)
  BY <1>0, SetRuns
<1>2. j = [c EXCEPT !.cur = c.next[@]]
  BY DEF ProcSleep, Switch
<1> HIDE DEF i
<1>3. Linked(i, A, N, F)
  BY <1>1, LinkedFields
<1>4. /\ Links(i, Procs, Lists) /\ OnRing(i, "sleeping", N) /\ OnRing(i, "running", A)
      /\ "sleeping" \in Lists /\ "running" \in Lists /\ A \subseteq Procs /\ N \subseteq Procs
      /\ A \cap N = {}
  BY <1>1, <1>3, LinkedParts
<1>5. /\ Links(u, Procs, Lists) /\ Elsewhere(i, u, Procs, Lists, "running", A)
  BY <1>4, ClistRemoveList
<1>6. \A x \in A \ {p} : u.next[x] = IF i.next[x] = p THEN i.next[p] ELSE i.next[x]
  BY <1>4, ClistRemoveNext
<1> HIDE DEF u
<1>7. OnRing(u, "sleeping", N)
  BY <1>4, <1>5, RingElsewhere
<1>8. Links(t, Procs, Lists) /\ Elsewhere(u, t, Procs, Lists, "sleeping", N \cup {p})
  BY <1>0, <1>4, <1>5, <1>7, ClistInsertList
<1> HIDE DEF t
<1>9. \A x \in A \ {p} : t.next[x] = u.next[x]
  BY <1>4, <1>8 DEF Elsewhere
<1>10. IsHeap(t) /\ IsHeap(c) /\ c.next = t.next
  <2>1. IsHeap(t)
    BY <1>8 DEF Links
  <2> QED
    BY <2>1, Zenon DEF IsHeap, LinkFields
<1> HIDE DEF c
<1>11. j.next = c.next
  BY <1>2, <1>10, Zenon DEF IsHeap, LinkFields
<1> QED
  BY <1>1, <1>6, <1>9, <1>10, <1>11 DEF Left, Fields

LEMMA PopOrder ==
  ASSUME NEW k \in SchedRec, NEW A, NEW N, NEW F, Linked(k, A, N, F),
         NEW q, q = k.last["unused"], q # NULL,
         NEW j, j = [DequeuePop(k, "unused") EXCEPT !.runs[q] = FALSE]
  PROVE  SameOrder(k, j, A)
<1> DEFINE d == DequeuePop(k, "unused")
<1>0. /\ Links(k, Procs, Lists) /\ "unused" \in Lists /\ F \subseteq Procs
      /\ OnChain(k, "unused", F)
  BY LinkedParts
<1>1. Links(d, Procs, Lists) /\ Elsewhere(k, d, Procs, Lists, "unused", F)
  BY <1>0, DequeuePopList
<1>2. j = [d EXCEPT !.runs[q] = FALSE]
  OBVIOUS
<1> HIDE DEF d
<1>3. j.next = d.next
  BY <1>1, <1>2, Zenon DEF IsHeap, Links, LinkFields
<1> QED
  BY <1>1, <1>3, LinkedParts DEF SameOrder, Elsewhere

LEMMA CreateOrder ==
  ASSUME NEW k \in SchedRec, NEW A, NEW N, NEW F, Linked(k, A, N, F),
         NEW q, q = k.last["unused"], q # NULL
  PROVE  SameOrder(k, ProcCreate(k), A) /\ SameOrder(k, ProcCreateFails(k), A)
<1> DEFINE j == [DequeuePop(k, "unused") EXCEPT !.runs[q] = FALSE]
           c == ClistInsert(j, "sleeping", q)
           f == DequeuePush(j, "unused", q)
<1>1. /\ q \in F /\ j \in SchedRec
      /\ OnRing(j, "running", A) /\ OnRing(j, "sleeping", N) /\ OnChain(j, "unused", F \ {q})
  BY PopEffect
<1>2. SameOrder(k, j, A)
  BY PopOrder
<1>3. ProcCreate(k) = c /\ ProcCreateFails(k) = f
  BY DEF ProcCreate, ProcCreateFails
<1> HIDE DEF j
<1>4. /\ Links(j, Procs, Lists) /\ "sleeping" \in Lists /\ "unused" \in Lists
      /\ A \subseteq Procs /\ N \subseteq Procs /\ F \ {q} \subseteq Procs
      /\ q \in Procs /\ q \notin N /\ q \notin A /\ A \cap N = {} /\ A \cap F = {}
  BY <1>1, LinkedParts, RecLinks
<1>5. Elsewhere(j, c, Procs, Lists, "sleeping", N \cup {q})
  BY <1>1, <1>4, ClistInsertList
<1>6. Elsewhere(j, f, Procs, Lists, "unused", F)
  <2> DEFINE G == F \ {q}
  <2>1. G \subseteq Procs /\ q \notin G /\ G \cup {q} = F /\ OnChain(j, "unused", G)
    BY <1>1, <1>4
  <2> HIDE DEF G
  <2>2. Elsewhere(j, f, Procs, Lists, "unused", G \cup {q})
    BY <1>4, <2>1, DequeuePushList
  <2> QED
    BY <2>1, <2>2
<1> HIDE DEF c, f
<1> QED
  BY <1>2, <1>3, <1>4, <1>5, <1>6 DEF SameOrder, Elsewhere

\* What is woken to be killed leaves the others where they were.
LEMMA KillOrder ==
  ASSUME NEW k \in SchedRec, NEW A, NEW N, NEW F, Linked(k, A, N, F), A # {},
         NEW p \in A \cup N, k.runs[p] <=> p \in A, k.waits[p] = NULL,
         NEW j, j = ProcKill(k, p)
  PROVE  Left(k, j, A, p) /\ (p \notin A => SameOrder(k, j, A))
<1> DEFINE w == Wakeup(k, p)
           B == A \cup {p}
           M == N \ {p}
           r == ClistRemove(w, "running", p)
           t == DequeuePush(r, "unused", p)
           n == IF w.next[p] = w.cur THEN NULL ELSE w.next[p]
           c == IF n = NULL THEN NULL ELSE t.prev[n]
<1>0. /\ p \in Procs /\ A \subseteq Procs /\ N \subseteq Procs /\ F \subseteq Procs
      /\ A \cap N = {} /\ A \cap F = {} /\ N \cap F = {} /\ Links(k, Procs, Lists)
      /\ "running" \in Lists /\ "sleeping" \in Lists /\ "unused" \in Lists
  BY LinkedParts
<1>1. j = IF p # k.cur THEN t ELSE [t EXCEPT !.cur = c]
  BY DEF ProcKill
<1>2. /\ w \in SchedRec /\ Linked(w, B, M, F)
      /\ p \in A => w = k
      /\ p \notin A => \E y \in A : Joined(k, w, A, p, y)
  <2>1. CASE p \in N
    <3>1. p \notin A /\ ~k.runs[p]
      BY <1>0, <2>1
    <3>2. Woken(k, w, A, N, F, p)
      BY <2>1, <3>1, WokenBy
    <3>3. \E y \in A : Joined(k, w, A, p, y)
      BY <2>1, <3>1, WakeupOrder
    <3> QED
      BY <3>1, <3>2, <3>3 DEF Woken
  <2>2. CASE p \notin N
    <3>1. p \in A /\ k.runs[p] /\ B = A /\ M = N
      BY <2>2
    <3>2. w = k
      BY <3>1 DEF Wakeup
    <3> QED
      BY <3>1, <3>2
  <2> QED
    BY <2>1, <2>2
<1> HIDE DEF w
<1>3. /\ Links(w, Procs, Lists) /\ OnRing(w, "running", B) /\ p \in B /\ B \subseteq Procs
      /\ OnChain(w, "unused", F)
  BY <1>0, <1>2, LinkedParts
<1>4. Links(r, Procs, Lists) /\ Elsewhere(w, r, Procs, Lists, "running", B)
  BY <1>0, <1>3, ClistRemoveList
<1>5. \A x \in B \ {p} : r.next[x] = IF w.next[x] = p THEN w.next[p] ELSE w.next[x]
  BY <1>0, <1>3, ClistRemoveNext
<1> HIDE DEF r
<1>6. OnChain(r, "unused", F) /\ p \notin F
  <2>1. F \cap B = {} /\ p \notin F
    BY <1>0
  <2> QED
    BY <1>0, <1>3, <1>4, <2>1, ChainElsewhere
<1>7. Links(t, Procs, Lists) /\ Elsewhere(r, t, Procs, Lists, "unused", F \cup {p})
  BY <1>0, <1>4, <1>6, DequeuePushList
<1> HIDE DEF t
<1>8. \A x \in A \ {p} : t.next[x] = r.next[x]
  BY <1>0, <1>7 DEF Elsewhere
<1> HIDE DEF c
<1>9. j.next = t.next
  <2>1. [t EXCEPT !.cur = c].next = t.next
    BY <1>7, Zenon DEF IsHeap, Links, LinkFields
  <2> QED
    BY <1>1, <2>1
<1>10. \A x \in A \ {p} : j.next[x] = IF w.next[x] = p THEN w.next[p] ELSE w.next[x]
  BY <1>5, <1>8, <1>9
<1>11. CASE p \in A
  BY <1>2, <1>10, <1>11 DEF Left
<1>12. CASE p \notin A
  <2>1. PICK y \in A : Joined(k, w, A, p, y)
    BY <1>2, <1>12
  <2>2. \A x \in A : w.next[x] = p <=> x = y
    <3>1. \A x \in A : k.next[x] \in A
      BY RingStep
    <3> QED
      BY <1>12, <2>1, <3>1 DEF Joined
  <2>3. \A x \in A : j.next[x] = k.next[x] /\ k.next[x] # p
    <3>1. \A x \in A : k.next[x] \in A
      BY RingStep
    <3> QED
      BY <1>10, <1>12, <2>1, <2>2, <3>1 DEF Joined
  <2> QED
    BY <1>12, <2>3 DEF SameOrder, Left
<1> QED
  BY <1>11, <1>12

LEMMA StartOrder ==
  ASSUME NEW k \in SchedRec, NEW A, NEW N, NEW F, Linked(k, A, N, F), k.cur \in A,
         NEW q, q = k.last["unused"], q # NULL,
         NEW j, j = Switch(Wakeup(ProcCreate(k), q))
  PROVE  j.cur = j.next[k.cur] /\ \E y \in A : Joined(k, j, A, q, y)
<1> DEFINE c == ProcCreate(k)
           w == Wakeup(c, q)
           M == N \cup {q}
           G == F \ {q}
<1>1. /\ q \in F /\ c \in SchedRec /\ Linked(c, A, M, G)
      /\ Rest(c, [k.runs EXCEPT ![q] = FALSE], k.waits, k.lock, k.cur)
  BY ProcCreateEffect
<1>2. q \in Procs /\ q \notin A /\ q \in M
  BY <1>1 DEF Linked
<1>3. SameOrder(k, c, A)
  BY CreateOrder
<1> HIDE DEF c, M, G
<1>4. ~c.runs[q] /\ c.cur = k.cur
  BY <1>1, <1>2 DEF Rest, SchedRec
<1>5. Woken(c, w, A, M, G, q)
  BY <1>1, <1>2, <1>4, WokenBy
<1>6. PICK y \in A : Joined(c, w, A, q, y)
  BY <1>1, <1>2, <1>4, WakeupOrder
<1> HIDE DEF w
<1>7. w \in SchedRec /\ Linked(w, A \cup {q}, M \ {q}, G) /\ w.cur = k.cur
  BY <1>4, <1>5 DEF Woken, Rest
<1>8. j.cur = w.next[w.cur] /\ Fields(j, w.next, w.prev, w.first, w.last)
  <2>1. j = Switch(w) /\ w.cur \in A \cup {q}
    BY <1>7 DEF w, c
  <2> QED
    BY <1>7, <2>1, SwitchEffect
<1>9. Joined(k, j, A, q, y)
  BY <1>3, <1>6, <1>8 DEF Joined, SameOrder, Fields
<1> QED
  BY <1>7, <1>8, <1>9 DEF Fields

LEMMA StartFailsOrder ==
  ASSUME NEW k \in SchedRec, NEW A, NEW N, NEW F, Linked(k, A, N, F), A # {},
         \A p \in Procs : k.waits[p] = NULL, NEW q, q = k.last["unused"], q # NULL,
         NEW j, j \in {ProcCreateFails(k), ProcKill(ProcCreate(k), q)}
  PROVE  SameOrder(k, j, A)
<1>1. SameOrder(k, ProcCreate(k), A) /\ SameOrder(k, ProcCreateFails(k), A)
  BY CreateOrder
<1>2. CASE j = ProcKill(ProcCreate(k), q)
  <2> DEFINE c == ProcCreate(k)
             M == N \cup {q}
             G == F \ {q}
  <2>1. /\ q \in F /\ c \in SchedRec /\ Linked(c, A, M, G)
        /\ Rest(c, [k.runs EXCEPT ![q] = FALSE], k.waits, k.lock, k.cur)
    BY ProcCreateEffect
  <2>2. q \in Procs /\ q \notin A /\ q \in A \cup M
    BY <2>1 DEF Linked
  <2>3. j = ProcKill(c, q) /\ SameOrder(k, c, A)
    BY <1>1, <1>2
  <2> HIDE DEF c, M, G
  <2>4. (c.runs[q] <=> q \in A) /\ c.waits[q] = NULL
    BY <2>1, <2>2 DEF Rest, SchedRec
  <2>5. SameOrder(c, j, A)
    BY <2>1, <2>2, <2>3, <2>4, KillOrder
  <2> QED
    BY <2>3, <2>5 DEF SameOrder
<1> QED
  BY <1>1, <1>2

LEMMA ExitOrder ==
  ASSUME NEW k \in SchedRec, NEW A, NEW N, NEW F, Linked(k, A, N, F),
         NEW p \in A, k.runs[p], k.waits[p] = NULL, p = k.cur, NEW j, j = ExitProc(k, p)
  PROVE  Left(k, j, A, p)
<1> DEFINE t == ProcKill(k, p)
           c == t.next[t.cur]
<1>1. Left(k, t, A, p) /\ Killed(k, t, A, N, F, p)
  BY KillOrder, ProcKillEffect
<1>2. j = IF t.cur = NULL THEN t ELSE [t EXCEPT !.cur = c]
  BY DEF ExitProc, Switch
<1> HIDE DEF t, c
<1>3. t \in SchedRec
  BY <1>1 DEF Killed
<1>4. j.next = t.next
  BY <1>2, <1>3 DEF SchedRec
<1> QED
  BY <1>1, <1>4 DEF Left

-----------------------------------------------------------------------------
(* The ready queue.                                                        *)

Ready == IF s.cur = NULL \/ s.cur \notin Running THEN <<>>
         ELSE WalkFrom(s, s.cur, Cardinality(Running))

\* Those awake, in the order of their turns.
ReadyInv ==
  /\ Running = Awake /\ Sleeping = Napping /\ IsFiniteSet(Awake) /\ NULL \notin Awake
  /\ Awake = {} => Ready = <<>>
  /\ Awake # {} => /\ s.cur \in Awake /\ Ready = WalkFrom(s, s.cur, Cardinality(Awake))
                   /\ IsTour(Ready, Awake, s.next, s.cur)

LEMMA ReadyByInv == SchedInv => ReadyInv
<1> SUFFICES ASSUME SchedInv PROVE ReadyInv
  OBVIOUS
<1>1. Running = Awake /\ Sleeping = Napping
  BY ListsByInv DEF ListsMatchState
<1>2. IsFiniteSet(Awake) /\ NULL \notin Awake
  BY SFacts, OwnersFinite, FS_Subset, NullNoProc
<1>3. CASE Awake = {}
  BY <1>1, <1>2, <1>3 DEF ReadyInv, Ready
<1>4. CASE Awake # {}
  <2>1. s.cur \in Awake /\ s.cur # NULL
    BY <1>2, <1>4 DEF SchedInv, CpuInv
  <2>2. Ready = WalkFrom(s, s.cur, Cardinality(Awake))
    BY <1>1, <2>1 DEF Ready
  <2>3. IsRing(Awake, s.next, s.prev)
    BY SFacts DEF Linked, OnRing
  <2>4. IsTour(Ready, Awake, s.next, s.cur)
    BY <1>2, <2>1, <2>2, <2>3, RoundOfRing
  <2> QED
    BY <1>1, <1>2, <1>4, <2>1, <2>2, <2>4 DEF ReadyInv
<1> QED
  BY <1>3, <1>4

\* The queue after a step, and who is asleep.
LEMMA ReadyNext ==
  ASSUME SchedInv', NEW P, Awake' = P
  PROVE  /\ Sleeping' = Napping'
         /\ P = {} => Ready' = <<>>
         /\ \A w : P # {} /\ IsRound(w, P, s'.next, s'.cur) => Ready' = w
<1>1. ReadyInv'
  BY ReadyByInv, PTL
<1>2. ASSUME NEW w, P # {}, IsRound(w, P, s'.next, s'.cur)
      PROVE  Ready' = w
  <2>1. /\ IsFiniteSet(P) /\ NULL \notin P /\ s'.cur \in P
        /\ Ready' = WalkFrom(s', s'.cur, Cardinality(P))
    BY <1>1, <1>2 DEF ReadyInv
  <2> QED
    BY <1>2, <2>1, RoundIsWalk
<1> QED
  BY <1>1, <1>2 DEF ReadyInv

IsSeq(w, n) ==
  /\ Len(w) = n /\ w # <<>> /\ Head(w) = w[1] /\ Range(w) = {w[i] : i \in 1..n}
  /\ Tail(w) = [i \in 1..(n - 1) |-> w[i + 1]]
  /\ Append(Tail(w), Head(w)) = [i \in 1..n |-> IF i = n THEN w[1] ELSE w[i + 1]]

LEMMA RoundSeq ==
  ASSUME NEW n \in Nat, n > 0, NEW P, NEW w \in [1..n -> P]
  PROVE  IsSeq(w, n) /\ w \in Seq(P)
<1>1. w \in Seq(P) /\ Len(w) = n /\ w # <<>>
  OBVIOUS
<1>2. Tail(w) = [i \in 1..(n - 1) |-> w[i + 1]] /\ Head(w) = w[1]
  <2>1. Tail(w) \in Seq(P) /\ Len(Tail(w)) = n - 1 /\ Head(w) = w[1]
    BY <1>1
  <2>2. \A i \in 1..(n - 1) : Tail(w)[i] = w[i + 1]
    BY <1>1, HeadTailProperties
  <2>3. Tail(w) \in [1..(n - 1) -> P]
    BY <2>1, LenProperties
  <2> QED
    BY <2>1, <2>2, <2>3
<1>3. Range(w) = {w[i] : i \in 1..n}
  BY <1>1 DEF Range
<1>4. Append(Tail(w), Head(w)) = [i \in 1..n |-> IF i = n THEN w[1] ELSE w[i + 1]]
  <2> DEFINE t == Tail(w)
             v == Append(t, w[1])
  <2>1. t \in Seq(P) /\ Len(t) = n - 1 /\ w[1] \in P /\ \A i \in 1..(n - 1) : t[i] = w[i + 1]
    BY <1>1, <1>2
  <2> HIDE DEF t
  <2>2. v \in Seq(P) /\ Len(v) = n /\ \A i \in 1..n : v[i] = IF i = n THEN w[1] ELSE t[i]
    BY <2>1
  <2> HIDE DEF v
  <2>3. v \in [1..n -> P]
    BY <2>2, LenProperties
  <2>4. \A i \in 1..n : v[i] = IF i = n THEN w[1] ELSE w[i + 1]
    BY <2>1, <2>2
  <2>5. v = [i \in 1..n |-> IF i = n THEN w[1] ELSE w[i + 1]]
    BY <2>3, <2>4
  <2> QED
    BY <1>2, <2>5 DEF v, t
<1> QED
  BY <1>1, <1>2, <1>3, <1>4 DEF IsSeq

LEMMA InsertedSeq ==
  ASSUME NEW n \in Nat, n > 0, NEW P, NEW w \in [1..n -> P], NEW j \in 1..n, NEW r \in P
  PROVE  InsertAt(w, j + 1, r) = JoinedAt(w, n, j, r)
<1> DEFINE a == SubSeq(w, 1, j)
           b == SubSeq(w, j + 1, n)
           v == JoinedAt(w, n, j, r)
<1>1. w \in Seq(P) /\ Len(w) = n
  BY RoundSeq DEF IsSeq
<1>2. InsertAt(w, j + 1, r) = (a \o <<r>>) \o b
  BY <1>1 DEF InsertAt
<1>3. a \in Seq(P) /\ Len(a) = j /\ \A i \in 1..j : a[i] = w[i]
  BY <1>1
<1>4. b \in Seq(P) /\ Len(b) = n - j /\ \A i \in 1..(n - j) : b[i] = w[j + i]
  BY <1>1
<1> HIDE DEF a, b
<1>5. /\ a \o <<r>> \in Seq(P) /\ Len(a \o <<r>>) = j + 1
      /\ \A i \in 1..(j + 1) : (a \o <<r>>)[i] = IF i <= j THEN w[i] ELSE r
  BY <1>3
<1> DEFINE c == a \o <<r>>
<1>6. /\ c \in Seq(P) /\ Len(c) = j + 1 /\ j + 1 \in Nat
      /\ \A i \in 1..(j + 1) : c[i] = IF i <= j THEN w[i] ELSE r
  BY <1>5
<1> HIDE DEF c, v
<1>7. /\ c \o b \in Seq(P) /\ Len(c \o b) = n + 1
      /\ \A i \in 1..(n + 1) : (c \o b)[i] = v[i]
  <2>1. /\ c \o b \in Seq(P) /\ Len(c \o b) = (j + 1) + (n - j)
        /\ \A i \in 1..((j + 1) + (n - j)) :
             (c \o b)[i] = IF i <= j + 1 THEN c[i] ELSE b[i - (j + 1)]
    <3>1. c \in Seq(P) /\ b \in Seq(P) /\ Len(c) = j + 1 /\ Len(b) = n - j
      BY <1>4, <1>6
    <3>2. /\ c \o b \in Seq(P) /\ Len(c \o b) = Len(c) + Len(b)
          /\ \A i \in 1..(Len(c) + Len(b)) :
               (c \o b)[i] = IF i <= Len(c) THEN c[i] ELSE b[i - Len(c)]
      BY <3>1, ConcatProperties, Zenon
    <3> QED
      BY <3>1, <3>2
  <2>2. (j + 1) + (n - j) = n + 1
    OBVIOUS
  <2>3. ASSUME NEW i \in 1..(n + 1)
        PROVE  (c \o b)[i] = v[i]
    <3>1. v[i] = IF i <= j THEN w[i] ELSE IF i = j + 1 THEN r ELSE w[i - 1]
      BY DEF v, JoinedAt
    <3>2. (c \o b)[i] = IF i <= j + 1 THEN c[i] ELSE b[i - (j + 1)]
      BY <2>1, <2>2
    <3>3. CASE i <= j + 1
      <4>1. i \in 1..(j + 1) /\ (i <= j \/ i = j + 1)
        BY <3>3
      <4> QED
        BY <1>6, <3>1, <3>2, <3>3, <4>1
    <3>4. CASE i > j + 1
      <4>1. i - (j + 1) \in 1..(n - j) /\ j + (i - (j + 1)) = i - 1
        BY <3>4
      <4> QED
        BY <1>4, <3>1, <3>2, <3>4, <4>1
    <3>5. i <= j + 1 \/ i > j + 1
      OBVIOUS
    <3> QED
      BY <3>3, <3>4, <3>5, Zenon
  <2> QED
    BY <2>1, <2>2, <2>3
<1>8. v \in Seq(P) /\ Len(v) = n + 1
  <2>1. ASSUME NEW i \in 1..(n + 1)
        PROVE  v[i] \in P
    <3>1. v[i] = (c \o b)[i] /\ i \in 1..Len(c \o b) /\ c \o b \in Seq(P)
      BY <1>7
    <3> QED
      BY <3>1
  <2>2. v \in [1..(n + 1) -> P]
    BY <2>1 DEF v, JoinedAt
  <2> QED
    BY <2>2, RoundSeq
<1>9. c \o b = v
  BY <1>7, <1>8, SeqEqual
<1> QED
  BY <1>2, <1>9 DEF c, v

LEMMA AsleepByInv == SchedInv => Sleeping = Napping
BY ReadyByInv DEF ReadyInv

\* The queue as it is while somebody is awake.
LEMMA QueueFacts ==
  ASSUME SchedInv, Awake # {}, NEW n, n = Cardinality(Awake)
  PROVE  /\ n \in Nat /\ n > 0 /\ IsFiniteSet(Awake) /\ s.cur \in Awake
         /\ IsTour(Ready, Awake, s.next, s.cur) /\ IsRound(Ready, Awake, s.next, s.cur)
         /\ Ready \in [1..n -> Awake] /\ Ready # <<>> /\ Ready[1] = s.cur /\ Len(Ready) = n
         /\ Head(Ready) = s.cur /\ Range(Ready) = Awake
         /\ Awake = {Ready[i] : i \in 1..n}
         /\ Tail(Ready) = [i \in 1..(n - 1) |-> Ready[i + 1]]
         /\ Append(Tail(Ready), Head(Ready)) =
              [i \in 1..n |-> IF i = n THEN s.cur ELSE Ready[i + 1]]
<1>1. /\ IsFiniteSet(Awake) /\ s.cur \in Awake
      /\ IsTour(Ready, Awake, s.next, s.cur)
  BY ReadyByInv DEF ReadyInv
<1>2. n \in Nat /\ n > 0
  BY <1>1, CardPositive
<1>3. IsRound(Ready, Awake, s.next, s.cur) /\ Awake = {Ready[i] : i \in 1..n}
  BY <1>1 DEF IsTour
<1>4. Ready \in [1..n -> Awake] /\ Ready[1] = s.cur
  BY <1>3 DEF IsRound
<1> DEFINE w == Ready
<1> HIDE DEF w
<1>5. /\ w \in Seq(Awake) /\ Len(w) = n /\ w # <<>> /\ Head(w) = w[1]
      /\ Range(w) = {w[i] : i \in 1..n}
      /\ Tail(w) = [i \in 1..(n - 1) |-> w[i + 1]]
      /\ Append(Tail(w), Head(w)) = [i \in 1..n |-> IF i = n THEN w[1] ELSE w[i + 1]]
  <2>1. w \in [1..n -> Awake]
    BY <1>4 DEF w
  <2>2. IsSeq(w, n) /\ w \in Seq(Awake)
    BY <1>2, <2>1, RoundSeq
  <2> QED
    BY <2>2 DEF IsSeq
<1>6. /\ w \in [1..n -> Awake] /\ w[1] = s.cur /\ Awake = {w[i] : i \in 1..n}
  BY <1>3, <1>4 DEF w
<1>7. Append(Tail(w), Head(w)) = [i \in 1..n |-> IF i = n THEN s.cur ELSE w[i + 1]]
  BY <1>5, <1>6
<1>8. /\ w # <<>> /\ Len(w) = n /\ Head(w) = s.cur /\ Range(w) = Awake
  BY <1>5, <1>6
<1> QED
  BY <1>1, <1>2, <1>3, <1>4, <1>5, <1>7, <1>8 DEF w

\* The steps of the ready queue, said of Ready and Sleeping.
Turns == [RQ!Next]_(RQ!vars)

LEMMA StutterTurn ==
  ASSUME Ready' = Ready, Sleeping' = Sleeping
  PROVE  Turns
BY DEF Turns, RQ!vars, Ready

LEMMA YieldTurn ==
  ASSUME Ready # <<>>, Ready' = Append(Tail(Ready), Head(Ready)), Sleeping' = Sleeping
  PROVE  Turns
<1>1. RQ!Yield
  BY DEF RQ!Yield, RQ!Rotated, Ready
<1> QED
  BY <1>1 DEF Turns, RQ!Next

LEMMA SleepTurn ==
  ASSUME Ready # <<>>, Ready' = Tail(Ready), Sleeping' = Sleeping \cup {Head(Ready)}
  PROVE  Turns
<1>1. RQ!Sleep
  BY DEF RQ!Sleep, Ready
<1> QED
  BY <1>1 DEF Turns, RQ!Next

LEMMA ExitTurn ==
  ASSUME Ready # <<>>, Ready' = Tail(Ready), Sleeping' = Sleeping
  PROVE  Turns
<1>1. RQ!Exit
  BY DEF RQ!Exit, Ready
<1> QED
  BY <1>1 DEF Turns, RQ!Next

LEMMA LeaveTurn ==
  ASSUME Ready = <<>>, NEW p \in Procs, p \in Sleeping, Sleeping' = Sleeping \ {p}, Ready' = Ready
  PROVE  Turns
<1>1. RQ!Leave(p)
  BY DEF RQ!Leave, Ready
<1> QED
  BY <1>1 DEF Turns, RQ!Next

LEMMA WakeTurn ==
  ASSUME NEW p \in Procs, p \in Sleeping, Ready # <<>>, NEW i \in 1..Len(Ready),
         Ready' = InsertAt(Ready, i + 1, p), Sleeping' = Sleeping \ {p}
  PROVE  Turns
<1>1. RQ!Wake(p)
  BY DEF RQ!Wake, Ready, InsertAt, RQ!InsertAt
<1> QED
  BY <1>1 DEF Turns, RQ!Next

LEMMA StartTurn ==
  ASSUME NEW p \in Procs, p \notin Range(Ready) \cup Sleeping, NEW i \in 1..Len(Ready),
         NEW v, v = InsertAt(Ready, i + 1, p), Ready' = Append(Tail(v), Head(v)),
         Sleeping' = Sleeping
  PROVE  Turns
<1>1. RQ!Start(p)
  BY DEF RQ!Start, RQ!Rotated, RQ!Range, Range, Ready, InsertAt, RQ!InsertAt
<1> QED
  BY <1>1 DEF Turns, RQ!Next

-----------------------------------------------------------------------------
(* Every step is a turn.                                                   *)

LEMMA YieldTurns ==
  ASSUME SchedInv, SchedInv', NEW p \in Procs, Yield(p)
  PROVE  Turns
<1> DEFINE n == Cardinality(Awake)
<1>1. p \in Awake /\ s.cur = p
  BY UserAwake DEF Yield
<1>2. /\ s'.cur = s.next[s.cur] /\ s'.next = s.next
      /\ Rest(s', s.runs, s.waits, s.lock, s'.cur)
  <2>1. s' = Switch(s)
    BY DEF Yield
  <2>2. Fields(s', s.next, s.prev, s.first, s.last)
    BY <1>1, <2>1, SFacts, SwitchEffect
  <2> QED
    BY <1>1, <2>1, <2>2, SFacts, SwitchEffect DEF Fields
<1>3. Free' = Free /\ Awake' = Awake /\ Napping' = Napping
  BY <1>2 DEF Yield, Free, Awake, Napping, Rest
<1>4. Sleeping' = Sleeping
  <2>1. Sleeping' = Napping'
    BY ReadyNext
  <2> QED
    BY <1>3, <2>1, AsleepByInv
<1>5. /\ IsFiniteSet(Awake) /\ s.cur \in Awake /\ IsRound(Ready, Awake, s.next, s.cur)
      /\ Ready # <<>>
      /\ Append(Tail(Ready), Head(Ready)) =
           [i \in 1..n |-> IF i = n THEN s.cur ELSE Ready[i + 1]]
  BY <1>1, QueueFacts
<1> DEFINE v == Append(Tail(Ready), Head(Ready))
<1> HIDE DEF v, n
<1>6. IsRound(v, Awake, s.next, s.next[s.cur])
  BY <1>5, RoundTurned DEF v, n
<1>7. Ready' = v
  <2>1. Awake # {} /\ IsRound(v, Awake, s'.next, s'.cur)
    BY <1>2, <1>5, <1>6
  <2> QED
    BY <1>3, <2>1, ReadyNext
<1> QED
  BY <1>4, <1>5, <1>7, YieldTurn DEF v

\* Whoever joins behind y is inserted in the queue behind y.
LEMMA QueueJoined ==
  ASSUME SchedInv, Awake # {}, NEW n, n = Cardinality(Awake), NEW q, q \notin Awake,
         NEW k, NEW y \in Awake, Joined(s, k, Awake, q, y)
  PROVE  \E i \in 1..n : \E v :
           /\ v = InsertAt(Ready, i + 1, q) /\ v \in [1..(n + 1) -> Awake \cup {q}]
           /\ IsRound(v, Awake \cup {q}, k.next, s.cur)
<1> DEFINE A == Awake
           w == Ready
<1>1. /\ n \in Nat /\ n > 0 /\ IsFiniteSet(A) /\ s.cur \in A /\ IsTour(w, A, s.next, s.cur)
      /\ w \in [1..n -> A] /\ A = {w[i] : i \in 1..n} /\ y \in A /\ q \notin A
      /\ n = Cardinality(A)
  BY QueueFacts
<1>2. /\ k.next[y] = q /\ k.next[q] = s.next[y] /\ \A x \in A \ {y} : k.next[x] = s.next[x]
  BY DEF Joined
<1> HIDE DEF A, w
<1>3. PICK i \in 1..n : w[i] = y
  BY <1>1
<1> DEFINE v == JoinedAt(w, n, i, q)
<1> HIDE DEF v
<1>4. IsRound(v, A \cup {q}, k.next, s.cur)
  BY <1>1, <1>2, <1>3, RoundJoined DEF v
<1>5. v \in [1..(n + 1) -> A \cup {q}]
  <2>1. IsFiniteSet(A) /\ q \notin A
    BY <1>1
  <2>2. Cardinality(A \cup {q}) = Cardinality(A) + 1
    BY <2>1, FS_AddElement
  <2>3. Cardinality(A \cup {q}) = n + 1
    BY <1>1, <2>2
  <2> QED
    BY <1>4, <2>3 DEF IsRound
<1>6. v = InsertAt(w, i + 1, q)
  <2> DEFINE B == A \cup {q}
  <2>1. w \in [1..n -> B] /\ q \in B /\ n \in Nat /\ n > 0 /\ i \in 1..n
    BY <1>1, <1>3
  <2> HIDE DEF B
  <2>2. InsertAt(w, i + 1, q) = JoinedAt(w, n, i, q)
    BY <2>1, InsertedSeq
  <2> QED
    BY <2>2 DEF v
<1> QED
  BY <1>3, <1>4, <1>5, <1>6 DEF A, w

\* Whoever leaves the ring first in the queue leaves its head.
LEMMA QueueLeft ==
  ASSUME SchedInv, SchedInv', s.cur \in Awake, Awake' = Awake \ {s.cur},
         Left(s, s', Awake, s.cur), Awake' # {} => s'.cur = s.next[s.cur]
  PROVE  Ready # <<>> /\ Head(Ready) = s.cur /\ Ready' = Tail(Ready)
<1> DEFINE n == Cardinality(Awake)
           v == [i \in 1..(n - 1) |-> Ready[i + 1]]
<1>1. /\ n \in Nat /\ n > 0 /\ IsFiniteSet(Awake) /\ s.cur \in Awake
      /\ IsTour(Ready, Awake, s.next, s.cur)
      /\ Ready # <<>> /\ Head(Ready) = s.cur /\ Tail(Ready) = v
  BY QueueFacts
<1>2. CASE Awake = {s.cur}
  <2>1. n = 1
    BY <1>2, FS_Singleton
  <2>2. v = <<>>
    BY <2>1
  <2>3. Awake' = {}
    BY <1>2
  <2>4. Ready' = <<>>
    BY <2>3, ReadyNext
  <2> QED
    BY <1>1, <2>2, <2>4
<1>3. CASE Awake # {s.cur}
  <2> DEFINE P == Awake \ {s.cur}
  <2>1. P # {} /\ Awake' = P
    BY <1>1, <1>3
  <2>2. s'.cur = s.next[s.cur]
    BY <2>1
  <2>3. IsRound(v, Awake \ {s.cur}, s'.next, s.next[s.cur])
    <3>1. \A p \in Awake \ {s.cur} :
            s'.next[p] = IF s.next[p] = s.cur THEN s.next[s.cur] ELSE s.next[p]
      BY DEF Left
    <3> HIDE DEF n, v
    <3>2. v = [i \in 1..(n - 1) |-> Ready[i + 1]] /\ n = Cardinality(Awake)
      BY DEF v, n
    <3> QED
      BY <1>1, <1>3, <3>1, <3>2, RoundLeft, ZenonT(60)
  <2> HIDE DEF v, P
  <2>4. IsRound(v, P, s'.next, s'.cur)
    BY <2>2, <2>3 DEF P
  <2>5. Ready' = v
    BY <2>1, <2>4, ReadyNext
  <2> QED
    BY <1>1, <2>5
<1> QED
  BY <1>2, <1>3

\* The ring of those awake and the CPU stay as they are.
LEMMA StillTurns ==
  ASSUME SchedInv, SchedInv', Awake' = Awake, Napping' = Napping,
         SameOrder(s, s', Awake), s'.cur = s.cur
  PROVE  Turns
<1>1. Sleeping' = Sleeping
  BY ReadyNext, AsleepByInv
<1>2. CASE Awake = {}
  <2>1. Ready = <<>> /\ Ready' = <<>>
    BY <1>2, ReadyNext, ReadyByInv DEF ReadyInv
  <2> QED
    BY <1>1, <2>1, StutterTurn
<1>3. CASE Awake # {}
  <2>1. IsRound(Ready, Awake, s.next, s.cur)
    BY <1>3, QueueFacts
  <2> DEFINE w == Ready
             n == Cardinality(Awake)
  <2>2. /\ w \in [1..n -> Awake] /\ w[1] = s.cur
        /\ \A i \in 1..n : s.next[w[i]] = IF i = n THEN s.cur ELSE w[i + 1]
    BY <2>1 DEF IsRound
  <2> HIDE DEF w, n
  <2>3. \A i \in 1..n : s'.next[w[i]] = s.next[w[i]]
    BY <2>2 DEF SameOrder
  <2>4. IsRound(w, Awake, s'.next, s'.cur)
    BY <2>2, <2>3 DEF IsRound, n
  <2>5. Ready' = w
    BY <1>3, <2>4, ReadyNext
  <2> QED
    BY <1>1, <2>5, StutterTurn DEF w
<1> QED
  BY <1>2, <1>3

LEMMA FunexecTurns ==
  ASSUME SchedInv, SchedInv', NEW p \in Procs, AtUser(p), NEW f \in {"syncer", "iod", "sh"},
         Funexec(f)
  PROVE  Turns
<1> DEFINE q == s.last["unused"]
           n == Cardinality(Awake)
<1>1. /\ p \in Awake /\ s.cur = p /\ q # NULL /\ s' = Switch(Wakeup(ProcCreate(s), q))
      /\ q \in Free /\ Awake' = Awake \cup {q} /\ Napping' = Napping
  BY FunexecLists
<1>2. s'.cur = s'.next[s.cur] /\ \E y \in Awake : Joined(s, s', Awake, q, y)
  BY <1>1, SFacts, StartOrder
<1>3. /\ n \in Nat /\ n > 0 /\ IsFiniteSet(Awake) /\ s.cur \in Awake /\ Ready # <<>>
      /\ Len(Ready) = n /\ Range(Ready) = Awake
  BY <1>1, QueueFacts
<1>4. q \in Procs /\ q \notin Awake /\ q \notin Napping
  BY <1>1 DEF Free, Awake, Napping
<1> HIDE DEF q
<1>5. PICK i \in 1..n : \E v :
           /\ v = InsertAt(Ready, i + 1, q) /\ v \in [1..(n + 1) -> Awake \cup {q}]
           /\ IsRound(v, Awake \cup {q}, s'.next, s.cur)
  BY <1>1, <1>2, <1>4, QueueJoined
<1> HIDE DEF n
<1> DEFINE v == InsertAt(Ready, i + 1, q)
           P == Awake \cup {q}
           u == Append(Tail(v), Head(v))
<1>6. v \in [1..(n + 1) -> P] /\ IsRound(v, P, s'.next, s.cur)
  BY <1>5
<1>7. IsFiniteSet(P) /\ s.cur \in P /\ Cardinality(P) = n + 1 /\ n + 1 \in Nat /\ n + 1 > 0
  <2>1. Cardinality(Awake \cup {q}) = Cardinality(Awake) + 1 /\ IsFiniteSet(Awake \cup {q})
    BY <1>3, <1>4, FS_AddElement
  <2> QED
    BY <1>3, <2>1 DEF n
<1> HIDE DEF v, P
<1>8. u = [j \in 1..(n + 1) |-> IF j = n + 1 THEN s.cur ELSE v[j + 1]]
  <2>1. IsSeq(v, n + 1)
    BY <1>6, <1>7, RoundSeq
  <2>2. v[1] = s.cur
    BY <1>6 DEF IsRound
  <2> QED
    BY <2>1, <2>2 DEF IsSeq
<1> HIDE DEF u
<1>9. IsRound(u, P, s'.next, s'.cur)
  <2> DEFINE m == n + 1
  <2>1. m = Cardinality(P) /\ u = [j \in 1..m |-> IF j = m THEN s.cur ELSE v[j + 1]]
    BY <1>7, <1>8
  <2> HIDE DEF m
  <2>2. IsRound(u, P, s'.next, s'.next[s.cur])
    BY <1>6, <1>7, <2>1, RoundTurned
  <2> QED
    BY <1>2, <2>2
<1>10. Ready' = u
  <2>1. Awake' = P /\ P # {}
    BY <1>1, <1>7 DEF P
  <2> QED
    BY <1>9, <2>1, ReadyNext
<1>11. Sleeping' = Sleeping /\ q \notin Range(Ready) \cup Sleeping
  <2>1. Sleeping' = Napping' /\ Sleeping = Napping
    BY ReadyNext, AsleepByInv
  <2> QED
    BY <1>1, <1>3, <1>4, <2>1
<1> QED
  BY <1>3, <1>4, <1>5, <1>10, <1>11, StartTurn DEF u, v

LEMMA BootTurns ==
  ASSUME SchedInv, SchedInv', NEW p \in Procs, Boot(p)
  PROVE  Turns
<1>1. AtUser(p) /\ todo # <<>> /\ Funexec(Head(todo))
  BY DEF Boot
<1>2. Head(todo) \in {"syncer", "iod", "sh"}
  BY <1>1, SFacts
<1> QED
  BY <1>1, <1>2, FunexecTurns

LEMMA SpawnTurns ==
  ASSUME SchedInv, SchedInv', NEW p \in Procs, Spawn(p)
  PROVE  Turns
BY FunexecTurns DEF Spawn

LEMMA SpawnFailsTurns ==
  ASSUME SchedInv, SchedInv', NEW p \in Procs, SpawnFails(p)
  PROVE  Turns
<1> DEFINE q == s.last["unused"]
<1>1. /\ p \in Awake /\ (\A r \in Procs : s.waits[r] = NULL) /\ q # NULL
      /\ s' \in {ProcCreateFails(s), ProcKill(ProcCreate(s), q)}
      /\ Rest(s', s'.runs, s.waits, s.lock, s.cur)
      /\ Awake' = Awake /\ Napping' = Napping
  BY SpawnFailsLists
<1>2. SameOrder(s, s', Awake)
  BY <1>1, SFacts, StartFailsOrder
<1>3. s'.cur = s.cur
  BY <1>1 DEF Rest
<1> QED
  BY <1>1, <1>2, <1>3, StillTurns

LEMMA ExitTurns ==
  ASSUME SchedInv, SchedInv', NEW p \in Procs, Exit(p)
  PROVE  Turns
<1>1. /\ p \in Awake \cup Napping /\ s.cur = p /\ (\A q \in Procs : s.waits[q] = NULL)
      /\ (s.runs[p] <=> p \in Awake) /\ s' = ExitProc(s, p)
      /\ Exited(s, s', Awake, Napping, Free, p)
      /\ Awake' = Awake \ {p} /\ Napping' = Napping \ {p}
  BY ExitLists
<1>2. Sleeping' = Napping' /\ Sleeping = Napping
  BY ReadyNext, AsleepByInv
<1>3. Awake \cap Napping = {}
  BY DEF Awake, Napping
<1>4. CASE p \in Awake
  <2>1. Left(s, s', Awake, p)
    BY <1>1, <1>4, SFacts, ExitOrder
  <2>2. Awake' # {} => s'.cur = s.next[p]
    BY <1>1, <1>4 DEF Exited
  <2>3. Ready # <<>> /\ Ready' = Tail(Ready)
    BY <1>1, <1>4, <2>1, <2>2, QueueLeft
  <2>4. Sleeping' = Sleeping
    BY <1>1, <1>2, <1>3, <1>4
  <2> QED
    BY <2>3, <2>4, ExitTurn
<1>5. CASE p \notin Awake
  <2>1. Awake = {} /\ p \in Napping
    BY <1>1, <1>5 DEF SchedInv, CpuInv
  <2>2. Ready = <<>> /\ Ready' = <<>>
    <3>1. Awake' = {}
      BY <1>1, <2>1
    <3> QED
      BY <2>1, <3>1, ReadyNext, ReadyByInv DEF ReadyInv
  <2> QED
    BY <1>1, <1>2, <2>1, <2>2, LeaveTurn
<1> QED
  BY <1>4, <1>5

LEMMA SleepTurns ==
  ASSUME SchedInv, SchedInv', NEW p \in Procs, InitSleep(p) \/ DaemonSleep(p)
  PROVE  Turns
<1>1. AtUser(p) /\ s' = ProcSleep(s, p) /\ UNCHANGED prog
  BY DEF InitSleep, DaemonSleep
<1>2. /\ p \in Awake /\ s.cur = p /\ s.runs[p] /\ (\A r \in Procs : s.waits[r] = NULL)
      /\ Slept(s, s', Awake, Napping, Free, p)
      /\ Awake' = Awake \ {p} /\ Napping' = Napping \cup {p}
  BY <1>1, SleepLists
<1>3. Left(s, s', Awake, p)
  BY <1>1, <1>2, SFacts, SleepOrder
<1>4. Awake' # {} => s'.cur = s.next[p]
  BY <1>2 DEF Slept
<1>5. Ready # <<>> /\ Head(Ready) = p /\ Ready' = Tail(Ready)
  BY <1>2, <1>3, <1>4, QueueLeft
<1>6. Sleeping' = Napping' /\ Sleeping = Napping
  BY ReadyNext, AsleepByInv
<1> QED
  BY <1>2, <1>5, <1>6, SleepTurn

LEMMA WakeTurns ==
  ASSUME SchedInv, SchedInv', NEW p \in Procs, AtUser(p), NEW d \in Daemons, daemon[d] # NULL,
         s' = Wakeup(s, daemon[d]), UNCHANGED prog
  PROVE  Turns
<1> DEFINE q == daemon[d]
           n == Cardinality(Awake)
<1>1. /\ p \in Awake /\ q \in Procs /\ q \notin Free
      /\ Rest(s', [s.runs EXCEPT ![q] = TRUE], s.waits, s.lock, s.cur)
      /\ Awake' = Awake \cup {q} /\ Napping' = Napping \ {q}
  BY WakeLists
<1>2. s' = Wakeup(s, q) /\ s'.cur = s.cur
  BY <1>1 DEF Rest
<1> HIDE DEF q
<1>3. CASE s.runs[q]
  <2>1. s' = s /\ q \in Awake /\ q \notin Napping
    BY <1>1, <1>2, <1>3 DEF Wakeup, Awake, Napping
  <2>2. Awake' = Awake /\ Napping' = Napping /\ SameOrder(s, s', Awake)
    BY <1>1, <2>1 DEF SameOrder
  <2> QED
    BY <1>2, <2>2, StillTurns
<1>4. CASE ~s.runs[q]
  <2>1. q \in Napping /\ q \notin Awake
    BY <1>1, <1>4 DEF Napping, Awake
  <2>2. \E y \in Awake : Joined(s, s', Awake, q, y)
    BY <1>1, <1>2, <1>4, <2>1, SFacts, WakeupOrder
  <2>3. n \in Nat /\ Ready # <<>> /\ Len(Ready) = n
    BY <1>1, QueueFacts
  <2>4. PICK i \in 1..n : \E v :
             /\ v = InsertAt(Ready, i + 1, q) /\ v \in [1..(n + 1) -> Awake \cup {q}]
             /\ IsRound(v, Awake \cup {q}, s'.next, s.cur)
    BY <1>1, <2>1, <2>2, QueueJoined
  <2> HIDE DEF n
  <2> DEFINE v == InsertAt(Ready, i + 1, q)
             P == Awake \cup {q}
  <2>5. IsRound(v, P, s'.next, s'.cur) /\ Awake' = P /\ P # {}
    BY <1>1, <1>2, <2>4
  <2> HIDE DEF P
  <2>6. Ready' = v
    BY <2>5, ReadyNext
  <2>7. Sleeping' = Sleeping \ {q} /\ q \in Sleeping
    BY <1>1, <2>1, <2>5, ReadyNext, AsleepByInv
  <2> QED
    BY <1>1, <2>3, <2>4, <2>6, <2>7, WakeTurn
<1> QED
  BY <1>3, <1>4

LEMMA SyncerRestartTurns ==
  ASSUME SchedInv, SchedInv', NEW p \in Procs, SyncerRestart(p)
  PROVE  Turns
<1>1. /\ AtUser(p) /\ "syncer" \in Daemons /\ daemon["syncer"] # NULL
      /\ s' = Wakeup(s, daemon["syncer"]) /\ UNCHANGED prog
  BY DEF SyncerRestart, Daemons
<1> QED
  BY <1>1, WakeTurns

LEMMA IodWakeupTurns ==
  ASSUME SchedInv, SchedInv', NEW p \in Procs, IodWakeup(p)
  PROVE  Turns
<1>1. /\ AtUser(p) /\ "iod" \in Daemons /\ daemon["iod"] # NULL
      /\ s' = Wakeup(s, daemon["iod"]) /\ UNCHANGED prog
  BY DEF IodWakeup, Daemons
<1> QED
  BY <1>1, WakeTurns

LEMMA LockTurns ==
  ASSUME SchedInv, SchedInv', NEW p \in Procs, NEW l \in Locks,
         Lock(p, l) \/ LockWait(p, l) \/ Unlock(p, l)
  PROVE  Turns
<1>1. s'.next = s.next /\ s'.runs = s.runs /\ s'.cur = s.cur
  <2>1. CASE Lock(p, l) \/ LockWait(p, l)
    <3>1. PICK b \in BOOLEAN : s' = LockRef(s, p, l, b)
      BY <2>1 DEF Lock, LockWait
    <3>2. RefTaken(s, s', l) \/ RefWaits(s, s', p, l)
      BY <3>1, SFacts, LockRefEffect
    <3> QED
      BY <3>2 DEF RefTaken, RefWaits, Fields, Rest
  <2>2. CASE Unlock(p, l)
    BY <2>2, UnlockEffect DEF Fields, Rest
  <2> QED
    BY <2>1, <2>2
<1>2. prog' = prog
  BY DEF Lock, LockWait, Unlock
<1>3. Awake' = Awake /\ Napping' = Napping /\ SameOrder(s, s', Awake)
  BY <1>1, <1>2 DEF Awake, Napping, Free, SameOrder
<1> QED
  BY <1>1, <1>3, StillTurns

LEMMA IdleTurns ==
  ASSUME SchedInv, SchedInv', s' = s, prog' = prog
  PROVE  Turns
<1>1. Awake' = Awake /\ Napping' = Napping /\ SameOrder(s, s', Awake)
  BY DEF Awake, Napping, Free, SameOrder
<1> QED
  BY <1>1, StillTurns

LEMMA StepTurns == SchedInv /\ SchedInv' /\ [Next]_vars => Turns
<1> SUFFICES ASSUME SchedInv, SchedInv', [Next]_vars PROVE Turns
  OBVIOUS
<1>1. ASSUME NEW p \in Procs, Yield(p) PROVE Turns
  BY <1>1, YieldTurns
<1>2. ASSUME NEW p \in Procs, Boot(p) PROVE Turns
  BY <1>2, BootTurns
<1>3. ASSUME NEW p \in Procs, Spawn(p) PROVE Turns
  BY <1>3, SpawnTurns
<1>4. ASSUME NEW p \in Procs, SpawnFails(p) PROVE Turns
  BY <1>4, SpawnFailsTurns
<1>5. ASSUME NEW p \in Procs, Exit(p) PROVE Turns
  BY <1>5, ExitTurns
<1>6. ASSUME NEW p \in Procs, InitSleep(p) \/ DaemonSleep(p) PROVE Turns
  BY <1>6, SleepTurns
<1>7. ASSUME NEW p \in Procs, SyncerRestart(p) PROVE Turns
  BY <1>7, SyncerRestartTurns
<1>8. ASSUME NEW p \in Procs, IodWakeup(p) PROVE Turns
  BY <1>8, IodWakeupTurns
<1>9. ASSUME NEW p \in Procs, DaemonTop(p) \/ SyncerAgain(p) PROVE Turns
  BY <1>9, IdleTurns DEF DaemonTop, SyncerAgain
<1>10. ASSUME NEW p \in Procs, NEW l \in Locks, Lock(p, l) \/ LockWait(p, l) \/ Unlock(p, l)
       PROVE  Turns
  BY <1>10, LockTurns
<1>11. CASE UNCHANGED vars
  BY <1>11, IdleTurns DEF vars
<1> QED
  BY <1>1, <1>2, <1>3, <1>4, <1>5, <1>6, <1>7, <1>8, <1>9, <1>10, <1>11 DEF Next

LEMMA InitTurns == Init => RQ!Init
<1> SUFFICES ASSUME Init PROVE RQ!Init
  OBVIOUS
<1> DEFINE q == NumProcs
           w == Ready
<1>1. SchedInv /\ Awake = {q} /\ Napping = {} /\ s.cur = q /\ q \in Procs
  BY InitSafe, SchedAssumption DEF Procs
<1>2. Sleeping = {} /\ IsRound(w, {q}, s.next, q)
  BY <1>1, AsleepByInv, QueueFacts
<1>3. Cardinality({q}) = 1
  BY FS_Singleton
<1> HIDE DEF q, w
<1>4. w = <<q>>
  BY <1>2, <1>3 DEF IsRound
<1> QED
  BY <1>1, <1>2, <1>4 DEF RQ!Init, w, Ready

\* The scheduler implements the ready queue (ImplementsReadyQueue): whatever sleeps, wakes,
\* starts, fails to start or ends, and with whatever bookkeeping along the links, the
\* processes awake take turns in one queue.  machdep_switch turns it, proc_sleep and exit
\* take its head, proc_wakeup and proc_funexec put somebody behind the one that runs.
THEOREM RefinesReadyQueue == Spec => ImplementsReadyQueue
<1>1. Init => RQ!Init
  BY InitTurns
<1>2. SchedInv /\ SchedInv' /\ [Next]_vars => [RQ!Next]_(RQ!vars)
  BY StepTurns DEF Turns
<1>3. Spec => []SchedInv
  BY SchedInvariant
<1> QED
  BY <1>1, <1>2, <1>3, PTL DEF Spec, ImplementsReadyQueue, RQ!Spec
=============================================================================
