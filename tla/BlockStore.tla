----------------------------- MODULE BlockStore -----------------------------
(***************************************************************************)
(* What the buffer cache promises its clients: a file is an array of        *)
(* blocks.  A client replaces the contents of one block at a time; some     *)
(* time later the device is given the contents the block has then, and      *)
(* nothing else ever happens to either.  No buffers, no references.         *)
(***************************************************************************)
EXTENDS Integers

CONSTANTS Files, Blks

VARIABLES
  content,  \* what a client that maps the block sees, as a version number
  stable    \* what the device holds

vars == <<content, stable>>

TypeOK == /\ content \in [Files -> [Blks -> Nat]]
          /\ stable \in [Files -> [Blks -> Nat]]

Init == /\ stable \in [Files -> [Blks -> {0, 1}]]
        /\ content = stable

Write(f, k) == /\ content' = [content EXCEPT ![f][k] = @ + 1]
               /\ UNCHANGED stable

Flush(f, k) == /\ stable' = [stable EXCEPT ![f][k] = content[f][k]]
               /\ UNCHANGED content

Next == \E f \in Files, k \in Blks : Write(f, k) \/ Flush(f, k)

Spec == Init /\ [][Next]_vars
=============================================================================
