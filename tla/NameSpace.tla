------------------------------ MODULE NameSpace ------------------------------
(***************************************************************************)
(* What the file calls promise a program: files appear, are opened and       *)
(* closed, and disappear only while nobody has them open.                   *)
(***************************************************************************)
EXTENDS Naturals

CONSTANTS Procs, Paths

VARIABLE
  users  \* for each path the kernel knows: how often each process has it open

Unused == [p \in Procs |-> 0]
Once(p) == [Unused EXCEPT ![p] = 1]

\* Each operation relates the values u and v that users has before and after it.

\* A file is created, or met in a file system for the first time.
Appear(u, v) == \E x \in Paths \ DOMAIN u : \E n \in {Unused} \cup {Once(p) : p \in Procs} :
                  v = [y \in (DOMAIN u) \cup {x} |-> IF y = x THEN n ELSE u[y]]

Open(u, v)   == \E x \in DOMAIN u : \E p \in Procs : v = [u EXCEPT ![x][p] = @ + 1]

Close(u, v)  == \E x \in DOMAIN u : \E p \in Procs :
                  u[x][p] > 0 /\ v = [u EXCEPT ![x][p] = @ - 1]

Remove(u, v) == \E x \in DOMAIN u : u[x] = Unused /\ v = [y \in (DOMAIN u) \ {x} |-> u[y]]

Init == users = <<>>

Step(u, v) == Appear(u, v) \/ Open(u, v) \/ Close(u, v) \/ Remove(u, v)

\* A call that fails leaves all as it is.
Next == \E u \in {users}, v \in {users'} : u = v \/ Step(u, v)

Spec == Init /\ [][Next]_users
=============================================================================
