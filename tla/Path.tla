-------------------------------- MODULE Path --------------------------------
(***************************************************************************)
(* namespace_lookup_path and namespace_deescape_path (kern/io/namespace.c): *)
(* a path is cut into names, each of which is looked up in the directory    *)
(* that the one before it has led to.  A path is a sequence of characters;  *)
(* those that matter are the slash, the backslash and one more.             *)
(***************************************************************************)
EXTENDS Integers, Sequences

CONSTANTS NameMax,    \* NAME_MAX, 32 in the code
          MaxPath     \* bound: characters of a path
ASSUME PathAssumption == {NameMax, MaxPath} \subseteq Nat \ {0}

Slash == "/"
Back  == "\\"
Letter == "x"
Nul   == "nul"

VARIABLES
  path,   \* the characters of the path
  pos,    \* the next one
  nbuf,   \* the buffer: what is written to it so far, NULL without one
  dir,    \* where the path has led to: the directory and the names from there
  ret,    \* *retobj, in the same form, or NULL
  err,
  step    \* "start", "next", "name", "lookup", "done"

walk == <<path, pos, nbuf, dir, ret, err, step>>

NULL == <<"null">>
Root == <<"root">>
Pwd  == <<"pwd">>

Char(i) == IF i <= Len(path) THEN path[i] ELSE Nul
SkipFrom(i) == CHOOSE j \in i..(Len(path) + 1) :
                 Char(j) # Slash /\ \A k \in i..(j - 1) : Char(k) = Slash

Begin ==
  /\ step = "start"
  /\ \/ nbuf' = <<>> /\ err' = err /\ step' = "next"
        /\ dir' = (IF Char(1) = Slash THEN Root ELSE Pwd) /\ ret' = dir'
        /\ pos' = IF Char(1) = Slash THEN SkipFrom(1) ELSE 1
     \/ err' = "ENOMEM" /\ step' = "done" /\ UNCHANGED <<nbuf, dir, ret, pos>>
  /\ path' = path

\* error1: the buffer is given back.
Finish(e) == nbuf' = NULL /\ err' = e /\ step' = "done"

Component ==
  /\ step = "next"
  /\ IF Char(pos) = Nul THEN Finish(err)
                        ELSE nbuf' = <<>> /\ step' = "name" /\ err' = err
  /\ UNCHANGED <<path, pos, dir, ret>>

\* fault: the escaped character ends the name if it is a slash.
EscapedSlashEnds ==
  /\ step = "name" /\ Char(pos) = Back
  /\ IF Char(pos + 1) = Nul \/ Len(nbuf) + 1 = NameMax
     THEN Finish("EINVAL") /\ pos' = pos
     ELSE pos' = pos + 1 /\ UNCHANGED <<nbuf, err, step>>
  /\ UNCHANGED <<path, dir, ret>>

\* One turn of the loop in namespace_deescape_path.
Escaped ==
  /\ step = "name" /\ Char(pos) = Back
  /\ IF Char(pos + 1) = Nul \/ Len(nbuf) + 1 = NameMax
     THEN Finish("EINVAL") /\ pos' = pos
     ELSE nbuf' = Append(nbuf, Char(pos + 1)) /\ pos' = pos + 2 /\ UNCHANGED <<err, step>>
  /\ UNCHANGED <<path, dir, ret>>

\* The name is in the buffer, without the 0; pos is at the 0 or behind the slash.
EndOfName ==
  /\ step = "name" /\ Char(pos) \in {Slash, Nul}
  /\ IF Char(pos) = Nul /\ Len(nbuf) + 1 = NameMax
     THEN Finish("EINVAL") /\ pos' = pos
     ELSE /\ step' = "lookup" /\ UNCHANGED <<nbuf, err>>
          /\ pos' = IF Char(pos) = Slash THEN pos + 1 ELSE pos
  /\ UNCHANGED <<path, dir, ret>>

Plain ==
  /\ step = "name" /\ Char(pos) \notin {Slash, Nul, Back}
  /\ IF Len(nbuf) + 1 = NameMax
     THEN Finish("EINVAL") /\ pos' = pos
     ELSE nbuf' = Append(nbuf, Char(pos)) /\ pos' = pos + 1 /\ UNCHANGED <<err, step>>
  /\ UNCHANGED <<path, dir, ret>>

\* namespace_lookup finds the name in the directory or does not.
LookupName ==
  /\ step = "lookup"
  /\ \/ /\ dir' = Append(dir, nbuf) /\ ret' = dir' /\ pos' = SkipFrom(pos)
        /\ step' = "next" /\ UNCHANGED <<nbuf, err>>
     \/ ret' = NULL /\ Finish("ENOTFOUND") /\ UNCHANGED <<dir, pos>>
  /\ path' = path

-----------------------------------------------------------------------------
PathInit ==
  /\ \E n \in 0..MaxPath : path \in [1..n -> {Slash, Back, Letter}]
  /\ pos = 1 /\ nbuf = NULL /\ dir = Pwd /\ ret = NULL /\ err = "ENONE" /\ step = "start"
PathIdle ==
  /\ path = <<>> /\ pos = 1 /\ nbuf = NULL /\ dir = Pwd /\ ret = NULL /\ err = "ENONE"
  /\ step = "done"
PathNext == Begin \/ Component \/ Escaped \/ EndOfName \/ Plain \/ LookupName
=============================================================================
