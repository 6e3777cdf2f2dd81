------------------------------- MODULE Queue -------------------------------
(***************************************************************************)
(* The doubly linked lists of lib/queue.c and the record pools of           *)
(* kern/mem/pool.c, pointer by pointer.                                     *)
(*                                                                         *)
(* A heap of links is a record m with the fields prev and next (functions   *)
(* on records) and first and last (functions on list headers); m may have   *)
(* other fields, which the operations leave alone.  A record is a positive  *)
(* number and NULL is 0.  DIAGNOSTICS_DEQUEUE is off.                       *)
(***************************************************************************)
EXTENDS Integers, Sequences

NULL == 0

\* if (x != NULL) x->next = y, and the same for prev.
SetNext(m, x, y) == IF x = NULL THEN m ELSE [m EXCEPT !.next[x] = y]
SetPrev(m, x, y) == IF x = NULL THEN m ELSE [m EXCEPT !.prev[x] = y]

-----------------------------------------------------------------------------
(* Dequeues: both ends are NULL.                                           *)

\* dequeue_remove: the links of the record itself keep their values.
DequeueRemove(m, l, r) ==
  LET p == m.prev[r]
      n == m.next[r]
  IN [SetPrev(SetNext(m, p, n), n, p) EXCEPT
        !.first[l] = IF @ = r THEN n ELSE @,
        !.last[l]  = IF @ = r THEN p ELSE @]

DequeuePush(m, l, r) ==
  LET p == m.last[l]
  IN [SetNext(m, p, r) EXCEPT
        !.prev[r] = p, !.next[r] = NULL, !.last[l] = r,
        !.first[l] = IF p = NULL THEN r ELSE @]

\* dequeue_pop takes the last record, *record = list->last; the caller has
\* looked whether that is NULL.
DequeuePop(m, l) ==
  LET p == m.prev[m.last[l]]
  IN [SetNext(m, p, NULL) EXCEPT
        !.last[l] = p,
        !.first[l] = IF p = NULL THEN NULL ELSE @]

-----------------------------------------------------------------------------
(* Cyclic lists: the header points to a record of a ring.                  *)

\* fault: the successor keeps pointing back to the record.
ClistRemoveForward(m, l, r) ==
  LET p == m.prev[r]
      n == m.next[r]
  IN IF p = r
     THEN [m EXCEPT !.first[l] = NULL, !.last[l] = NULL]
     ELSE [SetNext(m, p, n) EXCEPT !.first[l] = IF @ = r THEN n ELSE @,
                                   !.next[r] = NULL, !.prev[r] = NULL]

\* clist_remove: a record alone in its ring keeps pointing to itself, and
\* list->last is never moved on.
ClistRemove(m, l, r) ==
  LET p == m.prev[r]
      n == m.next[r]
  IN IF p = r
     THEN [m EXCEPT !.first[l] = NULL, !.last[l] = NULL]
     ELSE [SetPrev(SetNext(m, p, n), n, p) EXCEPT
             !.first[l] = IF @ = r THEN n ELSE @,
             !.next[r] = NULL, !.prev[r] = NULL]

\* clist_insert: in front of the first record, becoming the first.
ClistInsert(m, l, r) ==
  IF m.first[l] = NULL /\ m.last[l] = NULL
  THEN [m EXCEPT !.first[l] = r, !.last[l] = r, !.prev[r] = r, !.next[r] = r]
  ELSE LET n == m.first[l]
           p == m.prev[n]
       IN [m EXCEPT !.next = [[@ EXCEPT ![r] = n] EXCEPT ![p] = r],
                    !.prev = [[@ EXCEPT ![r] = p] EXCEPT ![n] = r],
                    !.first[l] = r]

-----------------------------------------------------------------------------
(* Pools.                                                                  *)

\* pool_create links the n records of its area in order.
PoolPrev(n) == [r \in 1..n |-> r - 1]
PoolNext(n) == [r \in 1..n |-> IF r = n THEN NULL ELSE r + 1]

\* The records a walk along ->next from x comes to, NULL from its end on.
WalkFrom(m, x, n) ==
  LET Next(y) == IF y = NULL THEN NULL ELSE m.next[y]
      walk[i \in 1..n] == IF i = 1 THEN x ELSE Next(walk[i - 1])
  IN walk
=============================================================================
