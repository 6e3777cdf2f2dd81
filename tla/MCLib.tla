-------------------------------- MODULE MCLib --------------------------------
(* Small instances of the routines for TLC. *)
EXTENDS LibProps

\* Commands of the shell: one with an argument, one with any number of them.
MCCommands == <<[name |-> <<"a">>, num |-> 1], [name |-> <<"b">>, num |-> -1]>>
=============================================================================
