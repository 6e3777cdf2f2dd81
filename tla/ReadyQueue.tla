----------------------------- MODULE ReadyQueue -----------------------------
(***************************************************************************)
(* What the scheduler promises the rest of the kernel: the processes that   *)
(* are not asleep take turns.  No lists, no pointers, no descriptors.       *)
(***************************************************************************)
EXTENDS SequencesExt

CONSTANT Procs

VARIABLES
  ready,   \* processes in the order of their turns; the first one runs
  asleep   \* processes that wait for a wakeup

vars == <<ready, asleep>>

Rotated(r) == Append(Tail(r), Head(r))

Init == asleep = {} /\ \E p \in Procs : ready = <<p>>

\* The running process lets the next one run.
Yield == ready # <<>> /\ ready' = Rotated(ready) /\ UNCHANGED asleep

\* It starts another one, which joins anywhere behind it, and lets the next run.
Start(p) == /\ p \notin Range(ready) \cup asleep
            /\ \E i \in 1..Len(ready) : ready' = Rotated(InsertAt(ready, i + 1, p))
            /\ UNCHANGED asleep

\* It wakes a sleeping process and runs on.
Wake(p) == /\ p \in asleep /\ ready # <<>>
           /\ \E i \in 1..Len(ready) : ready' = InsertAt(ready, i + 1, p)
           /\ asleep' = asleep \ {p}

\* It goes to sleep, or ends, and the next one runs, if there is one.
Sleep == /\ ready # <<>>
         /\ ready' = Tail(ready)
         /\ asleep' = asleep \cup {Head(ready)}

Exit == ready # <<>> /\ ready' = Tail(ready) /\ UNCHANGED asleep

\* With nobody left to run, a sleeping process may end.
Leave(p) == /\ ready = <<>> /\ p \in asleep
            /\ asleep' = asleep \ {p} /\ UNCHANGED ready

Next == \/ Yield \/ Sleep \/ Exit
        \/ \E p \in Procs : Start(p) \/ Wake(p) \/ Leave(p)

Spec == Init /\ [][Next]_vars
=============================================================================
