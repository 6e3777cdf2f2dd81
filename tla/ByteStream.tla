----------------------------- MODULE ByteStream -----------------------------
(***************************************************************************)
(* What TCP promises to the applications.  A connection writes one stream  *)
(* of bytes, numbered from 1, and reads the stream of the connection it    *)
(* was made with.  It reads the bytes in order, each of them once, and it  *)
(* is told that bytes of its own have arrived only when they were read at  *)
(* the other end, or when nothing will be read there any more.             *)
(***************************************************************************)
EXTENDS Naturals, Sequences

CONSTANT Conn  \* the connections there may ever be, numbers above 0

VARIABLES from, \* whose stream a connection reads, or 0
          read, \* the bytes it has read
          told, \* the number of its own bytes that it knows to have arrived
          left  \* it reads no more

sVars == <<from, read, told, left>>

Init == /\ from = [c \in Conn |-> 0]
        /\ read = [c \in Conn |-> <<>>]
        /\ told = [c \in Conn |-> 0]
        /\ left = [c \in Conn |-> FALSE]

Meet(c) == from'[c] # from[c] => from[c] = 0 /\ read[c] = <<>>

\* The next bytes, which are not there twice and none of which is left out.
Read(c) == read'[c] # read[c] =>
    /\ ~left[c] /\ from'[c] # 0
    /\ \E k \in 1 .. Len(read'[c]) : read'[c] = read[c] \o [i \in 1 .. k |-> Len(read[c]) + i]

Tell(c) == told'[c] # told[c] =>
    /\ told'[c] > told[c]
    /\ \E d \in Conn : from[d] = c /\ (told'[c] <= Len(read[d]) \/ left[d])

\* One segment can bring data and acknowledge data, and end a connection.
Next == \A c \in Conn : Meet(c) /\ Read(c) /\ Tell(c) /\ (left[c] => left'[c])

Spec == Init /\ [][Next]_sVars
=============================================================================
