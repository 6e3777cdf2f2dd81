-------------------------------- MODULE Sched --------------------------------
(***************************************************************************)
(* Processes, the switcher and locks of the tensix kernel: kern/proc/proc.c, *)
(* kern/proc/lock.c, kern/machdep/machdep.c and the way kern/boot/init.c,    *)
(* the shell and the two daemons use them.                                  *)
(*                                                                         *)
(* An action is what the process on the CPU does up to the next switch or   *)
(* to some point before it.  Process lists are kept link by link (Queue).   *)
(*                                                                         *)
(* A definition marked `fault:' is not part of the specification: it is a   *)
(* variant of the definition after it with a plausible programming error.   *)
(***************************************************************************)
EXTENDS Queue, FiniteSets

CONSTANTS
  NumProcs,  \* PROC_MAX, descriptors in proc_pool
  Locks      \* locks that shells use, e.g. obj_pool.lock

ASSUME SchedAssumption == NumProcs \in Nat /\ NumProcs > 2 /\ NULL \notin Locks

Procs   == 1..NumProcs
Owners  == Procs \cup {NULL}  \* of locks; NULL stands for all processes that have died
Daemons == {"syncer", "iod"}
Lists   == {"unused", "running", "sleeping"}

VARIABLES
  s,        \* links and headers of the three lists; of each descriptor runs
            \* (state & PROC_RUNNING) and waits (lock); lock, the counters;
            \* cur, that is proc_current, NULL after shutdown
  prog,     \* entry function of each process
  pc,       \* where each process is
  todo,     \* programs init has still to start
  daemon,   \* syncer_proc, iod_proc
  restart,  \* syncer_restart
  holds     \* locks an owner has got and not released

vars == <<s, prog, pc, todo, daemon, restart, holds>>

-----------------------------------------------------------------------------
(* Functions of proc.c, lock.c and machdep.c.                              *)

\* machdep_switch: proc_context is NULL only before the first process runs.
Switch(k) == [k EXCEPT !.cur = k.next[@]]

\* proc_wakeup
Wakeup(k, p) ==
  IF k.runs[p] THEN k
  ELSE ClistInsert(ClistRemove([k EXCEPT !.runs[p] = TRUE], "sleeping", p), "running", p)

\* fault: the CPU goes on at the successor, and the switch passes it over.
ProcSleepPassesOver(k, p) ==
  IF ~k.runs[p] \/ k.waits[p] # NULL THEN k
  ELSE LET n == k.next[p]
           t == ClistInsert(ClistRemove([k EXCEPT !.runs[p] = FALSE], "running", p),
                            "sleeping", p)
       IN IF p # k.cur THEN t ELSE Switch([t EXCEPT !.cur = n])

\* fault: proc_current is not set back before the switch.
ProcSleepStays(k, p) ==
  IF ~k.runs[p] \/ k.waits[p] # NULL THEN k
  ELSE LET t == ClistInsert(ClistRemove([k EXCEPT !.runs[p] = FALSE], "running", p),
                            "sleeping", p)
       IN IF p # k.cur THEN t ELSE Switch(t)

\* proc_sleep: nothing happens to a process that sleeps already or waits for a
\* lock.  The switch starts from the predecessor, next->prev.
ProcSleep(k, p) ==
  IF ~k.runs[p] \/ k.waits[p] # NULL THEN k
  ELSE LET n == k.next[p]
           t == ClistInsert(ClistRemove([k EXCEPT !.runs[p] = FALSE], "running", p),
                            "sleeping", p)
       IN IF p # k.cur THEN t ELSE Switch([t EXCEPT !.cur = t.prev[n]])

\* proc_create without fs_init_proc: a descriptor is popped and put to sleep.
ProcCreate(k) ==
  LET p == k.last["unused"]
  IN ClistInsert([DequeuePop(k, "unused") EXCEPT !.runs[p] = FALSE], "sleeping", p)

\* proc_create when fs_init_proc has no memory.
ProcCreateFails(k) ==
  LET p == k.last["unused"]
  IN DequeuePush([DequeuePop(k, "unused") EXCEPT !.runs[p] = FALSE], "unused", p)

\* fault: of the current process the successor becomes current.
ProcKillPassesOver(k, p) ==
  LET w == Wakeup(k, p)
      n == IF w.next[p] = w.cur THEN NULL ELSE w.next[p]
      t == DequeuePush(ClistRemove(w, "running", p), "unused", p)
  IN IF p # k.cur THEN t ELSE [t EXCEPT !.cur = n]

\* lock_wakeup: the first process in the ring that waits for the lock.
LockWakeup(k, l) ==
  LET ring  == WalkFrom(k, k.cur, NumProcs)
      Waiting(i) == ring[i] # NULL /\ k.waits[ring[i]] = l
      first == CHOOSE i \in DOMAIN ring : Waiting(i) /\ \A j \in 1..(i - 1) : ~Waiting(j)
  IN IF \E i \in DOMAIN ring : Waiting(i)
     THEN Wakeup([k EXCEPT !.waits[ring[first]] = NULL], ring[first])
     ELSE k

\* fault: the counter is left alone when nobody waits.
LockUnrefKept(k, l) == IF k.lock[l] = 1 THEN k ELSE [k EXCEPT !.lock[l] = @ - 1]

\* lock_unref
LockUnref(k, l) ==
  LET t == [k EXCEPT !.lock[l] = @ - 1]
  IN IF t.lock[l] # 0 THEN LockWakeup(t, l) ELSE t

\* proc_kill: it gives up the lock it waits for, is forced to the running list
\* and removed there.  If it is the current one its predecessor becomes
\* current, or nobody if it was alone.
ProcKill(k, p) ==
  LET u == IF k.waits[p] = NULL THEN k ELSE LockUnref(k, k.waits[p])
      w == Wakeup(u, p)
      n == IF w.next[p] = w.cur THEN NULL ELSE w.next[p]
      t == DequeuePush(ClistRemove(w, "running", p), "unused", p)
  IN IF p # k.cur THEN t
     ELSE [t EXCEPT !.cur = IF n = NULL THEN NULL ELSE t.prev[n]]

\* exit: without a current process the system is shut down.
ExitProc(k, p) == LET t == ProcKill(k, p) IN IF t.cur = NULL THEN t ELSE Switch(t)

\* lock_ref2.  The loop around sleep() is never left: proc_sleep returns at
\* once for a process that waits, so that nobody else comes to release it.
LockRef(k, p, l, wait) ==
  LET t == [k EXCEPT !.lock[l] = @ + 1]
  IN IF ~wait /\ t.lock[l] = 1 THEN t
     ELSE ProcSleep([t EXCEPT !.waits[p] = l], p)

-----------------------------------------------------------------------------
(* main() has started init, the last record of the pool.                   *)

Init ==
  /\ s = LET pool == [prev  |-> PoolPrev(NumProcs), next |-> PoolNext(NumProcs),
                      first |-> [l \in Lists |-> IF l = "unused" THEN 1 ELSE NULL],
                      last  |-> [l \in Lists |-> IF l = "unused" THEN NumProcs ELSE NULL],
                      runs  |-> [p \in Procs |-> FALSE],
                      waits |-> [p \in Procs |-> NULL],
                      lock  |-> [l \in Locks |-> 0],
                      cur   |-> NumProcs]
         IN Wakeup(ProcCreate(pool), NumProcs)
  /\ prog = [p \in Procs |-> IF p = NumProcs THEN "init" ELSE "none"]
  /\ pc = [p \in Procs |-> "user"]
  /\ todo = <<"syncer", "iod", "sh">>
  /\ daemon = [d \in Daemons |-> NULL]
  /\ restart = FALSE
  /\ holds = [p \in Owners |-> {}]

\* Process p has the CPU and is in the middle of its program.
AtUser(p) == s.cur = p /\ pc[p] = "user" /\ s.waits[p] = NULL

\* Code outside the kernel daemons.
Client(p) == AtUser(p) /\ prog[p] \in {"init", "sh"}

\* MANUAL_SWITCH, in a driver or a wait for console input.
Yield(p) == /\ AtUser(p)
            /\ s' = Switch(s)
            /\ UNCHANGED <<prog, pc, todo, daemon, restart, holds>>

\* proc_funexec: create, wake up, switch.
Funexec(f) ==
  LET q == s.last["unused"]
  IN /\ q # NULL
     /\ s' = Switch(Wakeup(ProcCreate(s), q))
     /\ prog' = [prog EXCEPT ![q] = f]
     /\ pc' = [pc EXCEPT ![q] = IF f \in Daemons THEN "nap" ELSE "user"]
     /\ daemon' = [d \in Daemons |-> IF d = f THEN q ELSE daemon[d]]
     /\ UNCHANGED <<restart, holds>>

\* init starts the daemons and a shell; there is memory then.
Boot(p) == /\ AtUser(p) /\ prog[p] = "init" /\ todo # <<>>
           /\ Funexec(Head(todo)) /\ todo' = Tail(todo)

\* The command sh starts another shell.
Spawn(p) == AtUser(p) /\ prog[p] = "sh" /\ Funexec("sh") /\ UNCHANGED todo

\* proc_funexec without memory, in fs_init_proc or for the stack.
SpawnFails(p) == /\ AtUser(p) /\ prog[p] = "sh" /\ s.last["unused"] # NULL
                 /\ s' \in {ProcCreateFails(s), ProcKill(ProcCreate(s), s.last["unused"])}
                 /\ UNCHANGED <<prog, pc, todo, daemon, restart, holds>>

\* A shell ends; so does init after its only sleep.  fs_kill_proc, which
\* may switch and wake the daemons, has done its work before.  LOCK_KILL_PROC
\* only knows the lock a process waits for: nobody releases those it owns.
Exit(p) == /\ s.cur = p /\ s.waits[p] = NULL
           /\ \/ prog[p] = "sh" /\ pc[p] = "user"
              \/ prog[p] = "init" /\ pc[p] = "end"
           /\ s' = ExitProc(s, p)
           /\ prog' = [prog EXCEPT ![p] = "none"]
           /\ pc' = [pc EXCEPT ![p] = "user"]
           /\ holds' = [holds EXCEPT ![p] = {}, ![NULL] = @ \cup holds[p]]
           /\ UNCHANGED <<todo, daemon, restart>>

InitSleep(p) == /\ AtUser(p) /\ prog[p] = "init" /\ todo = <<>>
                /\ s' = ProcSleep(s, p)
                /\ pc' = [pc EXCEPT ![p] = "end"]
                /\ UNCHANGED <<prog, todo, daemon, restart, holds>>

-----------------------------------------------------------------------------
(* The daemons.                                                            *)

\* fault: a further request is left out although the syncer may sleep.
SyncerRestartUnwoken(p) == /\ AtUser(p) /\ daemon["syncer"] # NULL /\ ~restart
                           /\ restart' = TRUE
                           /\ UNCHANGED <<s, prog, pc, todo, daemon, holds>>

\* SYNCER_RESTART with SYNCER_AVOID_WAKEUP.
SyncerRestart(p) == /\ AtUser(p) /\ daemon["syncer"] # NULL /\ ~restart
                    /\ restart' = TRUE
                    /\ s' = Wakeup(s, daemon["syncer"])
                    /\ UNCHANGED <<prog, pc, todo, daemon, holds>>

\* iod_chn_create, iod_obj_io
IodWakeup(p) == /\ AtUser(p) /\ daemon["iod"] # NULL
                /\ s' = Wakeup(s, daemon["iod"])
                /\ UNCHANGED <<prog, pc, todo, daemon, restart, holds>>

\* Top of the loop, when sleep() returns or at the start.  A daemon that nobody
\* woke finds nothing to do and calls sleep() again, which changes nothing.
DaemonTop(p) == /\ s.cur = p /\ prog[p] \in Daemons /\ pc[p] = "nap" /\ s.runs[p]
                /\ pc' = [pc EXCEPT ![p] = "user"]
                /\ restart' = (restart /\ prog[p] # "syncer")
                /\ UNCHANGED <<s, prog, todo, daemon, holds>>

\* The syncer was restarted while it went through the objects.
SyncerAgain(p) == /\ AtUser(p) /\ prog[p] = "syncer" /\ restart
                  /\ restart' = FALSE
                  /\ UNCHANGED <<s, prog, pc, todo, daemon, holds>>

\* fault: the syncer does not look at syncer_restart before it sleeps.
DaemonSleepUnchecked(p) ==
  /\ AtUser(p) /\ prog[p] \in Daemons
  /\ s' = ProcSleep(s, p)
  /\ pc' = [pc EXCEPT ![p] = "nap"]
  /\ UNCHANGED <<prog, todo, daemon, restart, holds>>

DaemonSleep(p) == /\ AtUser(p) /\ prog[p] \in Daemons
                  /\ ~(prog[p] = "syncer" /\ restart)
                  /\ s' = ProcSleep(s, p)
                  /\ pc' = [pc EXCEPT ![p] = "nap"]
                  /\ UNCHANGED <<prog, todo, daemon, restart, holds>>

-----------------------------------------------------------------------------
(* Locks.                                                                  *)

Lock(p, l) == /\ Client(p) /\ l \notin holds[p]
              /\ s' = LockRef(s, p, l, FALSE)
              /\ holds' = [holds EXCEPT ![p] = IF s.lock[l] = 0 THEN @ \cup {l} ELSE @]
              /\ UNCHANGED <<prog, pc, todo, daemon, restart>>

\* lock_ref_wait: malloc() when memory is full, obj_event_wait().
LockWait(p, l) == /\ Client(p) /\ l \notin holds[p]
                  /\ s' = LockRef(s, p, l, TRUE)
                  /\ UNCHANGED <<prog, pc, todo, daemon, restart, holds>>

Unlock(p, l) == /\ Client(p) /\ l \in holds[p]
                /\ s' = LockUnref(s, l)
                /\ holds' = [holds EXCEPT ![p] = @ \ {l}]
                /\ UNCHANGED <<prog, pc, todo, daemon, restart>>

-----------------------------------------------------------------------------
Next == \E p \in Procs :
  \/ Yield(p) \/ Boot(p) \/ Spawn(p) \/ SpawnFails(p) \/ Exit(p) \/ InitSleep(p)
  \/ SyncerRestart(p) \/ IodWakeup(p)
  \/ DaemonTop(p) \/ SyncerAgain(p) \/ DaemonSleep(p)
  \/ \E l \in Locks : Lock(p, l) \/ LockWait(p, l) \/ Unlock(p, l)

Spec == Init /\ [][Next]_vars

\* Every loop of a program has a switch in it, and a daemon gets to the end of
\* its pass over the lists.
GivesUp(p) == Yield(p) \/ DaemonTop(p) \/ DaemonSleep(p) \/ InitSleep(p) \/ Exit(p)

Fairness == \A p \in Procs :
  WF_vars(GivesUp(p)) /\ SF_vars(SyncerAgain(p) \/ DaemonSleep(p))

FairSpec == Spec /\ Fairness
=============================================================================
