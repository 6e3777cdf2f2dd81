------------------------------ MODULE LongWords ------------------------------
(***************************************************************************)
(* What the routines for longs of both word orders share: words of W bits   *)
(* (16 in the code) and the flags that comparisons of words leave.          *)
(***************************************************************************)
EXTENDS Integers, Bitwise

CONSTANT W
ASSUME WAssumption == W \in Nat /\ W > 1

H    == 2 ^ W                         \* a word is a number below H
Word == 0..H - 1
Top(n)  == n >= H \div 2               \* the sign bit of a word

\* sub or cmp of two words; test of one.
Sub(m, n) == [cf |-> m < n, zf |-> m = n, sf |-> Top((m - n) % H),
              of |-> Top(m) # Top(n) /\ Top((m - n) % H) # Top(m)]
Test(n) == [cf |-> FALSE, zf |-> n = 0, sf |-> Top(n), of |-> FALSE]
\* inc and dec of 0 leave the carry alone.
Inc0(f) == [f EXCEPT !.zf = FALSE, !.sf = FALSE, !.of = FALSE]
Dec0(f) == [f EXCEPT !.zf = FALSE, !.sf = TRUE, !.of = FALSE]

Repeat(u, n, Op(_)) == LET f[i \in 0..n] == IF i = 0 THEN u ELSE Op(f[i - 1]) IN f[n]
=============================================================================
