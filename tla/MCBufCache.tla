----------------------------- MODULE MCBufCache -----------------------------
(* Small instances of the buffer cache for TLC. *)
EXTENDS BufCacheProps

CONSTANTS p1, p2

OneFile  == <<"file">>
FileCon  == <<"file", "con">>

ProcSymmetry == Permutations(Procs)
=============================================================================
