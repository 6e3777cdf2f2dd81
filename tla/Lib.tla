--------------------------------- MODULE Lib ---------------------------------
(***************************************************************************)
(* The routines of LongArith, Checksum, Path and Shell, one call of one of   *)
(* them at a time: they share nothing.                                      *)
(***************************************************************************)
EXTENDS LongArith, Checksum, Path, Shell

vars == <<long, check, walk, shell>>

Init == \/ LongInit /\ SumIdle /\ PathIdle /\ ShIdle
        \/ LongIdle /\ SumInit /\ PathIdle /\ ShIdle
        \/ LongIdle /\ SumIdle /\ PathInit /\ ShIdle
        \/ LongIdle /\ SumIdle /\ PathIdle /\ ShInit

Next == \/ LongNext /\ UNCHANGED <<check, walk, shell>>
        \/ SumNext /\ UNCHANGED <<long, walk, shell>>
        \/ PathNext /\ UNCHANGED <<long, check, shell>>
        \/ ShNext /\ UNCHANGED <<long, check, walk>>

Spec == Init /\ [][Next]_vars
=============================================================================
