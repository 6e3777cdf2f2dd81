------------------------------- MODULE MCObjFs -------------------------------
(* Small instances of the file calls for TLC. *)
EXTENDS ObjFsProps, TLC

CONSTANTS p1, p2, n1, n2

Symmetry == Permutations({p1, p2}) \cup Permutations({n1, n2})
=============================================================================
