------------------------------ MODULE IodProps ------------------------------
(* What is checked of the channels of Iod. *)
EXTENDS Iod

\* The records a walk along a list comes to, and whether it ends.
Walk(l)    == WalkFrom(io, io.first[l], NumChn + 1)
Members(l) == {Walk(l)[i] : i \in 1..NumChn + 1} \ {NULL}
IsList(l)  == Walk(l)[Cardinality(Members(l)) + 1] = NULL
BeingKilled(c) == \E a \in Actor : loc[a].pc \in {"close_to", "discard"} /\ loc[a].ch = c

(* The free records are a list, and all that is not in use is on it.  With *)
(* one channel at a time a channel is on the list its flag says, and the   *)
(* daemon refers to the objects of the channels and to no others.          *)
ChannelsExact ==
  /\ IsList("unused") /\ Members("unused") = Chn \ io.live
  /\ use = "background" =>
       /\ IsList("active")   /\ Members("active")   = {c \in io.live : Has(io, c, "active")}
       /\ IsList("inactive") /\ Members("inactive") = {c \in io.live : ~Has(io, c, "active")}
       /\ io.refs \subseteq {<<io.chn[c].job, e>> : c \in io.live, e \in Ends}
       /\ \A c \in io.live : BeingKilled(c) \/ \A e \in Ends : <<io.chn[c].job, e>> \in io.refs
       /\ io.refs \subseteq io.table

Source(j)  == Bytes(1, IF j \in Stream THEN io.lines[j] ELSE SrcLen)
Pending(j) == LET own == {c \in io.live : io.chn[c].job = j}
              IN IF own = {} THEN <<>> ELSE io.chn[CHOOSE c \in own : TRUE].dst

(* What arrives at a destination is a beginning of the source, whatever the *)
(* block sizes and failures; when a channel is removed, it is all of it,     *)
(* unless there was no memory.  Lines pushed into buffers are not copied.    *)
CopiedInOrder ==
  \A j \in Client :
    /\ io.out[j] \o Pending(j) = SubSeq(Source(j), 1, Len(io.out[j]) + Len(Pending(j)))
    /\ io.st[j] = "done" => io.out[j] = Source(j)

(* A record that is freed can be allocated again: pool_alloc() takes the   *)
(* last free one and goes on to the one before it.                         *)
Before(c) == IF c = NULL THEN NULL ELSE io.prev[c]
PoolKeeps ==
  LET back[i \in 1..NumChn] == IF i = 1 THEN io.last["unused"] ELSE Before(back[i - 1])
  IN Chn \ io.live \subseteq {back[i] : i \in 1..NumChn}

(* A file that is being copied comes to its end or fails. *)
Served == \A j \in Client \ Stream : io.st[j] = "copying" ~> io.st[j] # "copying"
=============================================================================
