-------------------------------- MODULE MCHeap --------------------------------
(* Small instances of the allocator for TLC. *)
EXTENDS HeapProps

CONSTANTS p1, p2

SmallRequests == [o \in Owners |-> IF o = KERNEL THEN {Frag(1)} ELSE {Frag(1), Page(2)}]

\* A process has one block besides what it starts with, the kernel two.
FewBlocks == [o \in Owners |-> IF o = KERNEL THEN 2 ELSE IF o = InitProc THEN 0 ELSE 1]
=============================================================================
