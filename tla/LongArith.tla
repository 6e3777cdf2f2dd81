------------------------------ MODULE LongArith ------------------------------
(***************************************************************************)
(* Long integers of the compiler runtime of the i86 port                    *)
(* (arch/i86/bcc/bcc_long.c, __ldivmod.c, ldiv.c), made of two words, and   *)
(* their twins for the other order of the words.  Flags are modelled where  *)
(* they are the result.  Division goes loop by loop, the rest in one step.  *)
(***************************************************************************)
EXTENDS LongArithSwapped

CONSTANT NoCall

Long == [hi : Word, lo : Word]
Zero == [hi |-> 0, lo |-> 0]

VARIABLES
  call,   \* the routine that is called, or NoCall
  order,  \* "l": it is the one in bcc_long.c; "b": its twin in bcc_bsw.c
  x, y,   \* its operands, bx:ax and the long in memory at di (a shift: di)
  r,      \* bx:ax, the result or the remainder
  q,      \* di:cx in a division
  w,      \* si:dx, the divisor shifted
  b,      \* the divisor as remembered on the stack
  flags,  \* carry, zero, sign and overflow after a comparison
  pc

long == <<call, order, x, y, r, q, w, b, flags, pc>>

NoFlags == [cf |-> FALSE, zf |-> FALSE, sf |-> FALSE, of |-> FALSE]

-----------------------------------------------------------------------------
(* One after the other, low word first: add and adc, sub and sbb, ...      *)

\* fault: the carry of the low words is lost.
LaddNoCarry(u, v) == [hi |-> (u.hi + v.hi) % H, lo |-> (u.lo + v.lo) % H]

Ladd(u, v) == [hi |-> (u.hi + v.hi + ((u.lo + v.lo) \div H)) % H, lo |-> (u.lo + v.lo) % H]
Borrow(u, v) == IF u.lo < v.lo THEN 1 ELSE 0
Lsub(u, v) == [hi |-> (u.hi - v.hi - Borrow(u, v)) % H, lo |-> (u.lo - v.lo) % H]
Land(u, v) == [hi |-> u.hi & v.hi, lo |-> u.lo & v.lo]
Lor(u, v)  == [hi |-> u.hi | v.hi, lo |-> u.lo | v.lo]
Leor(u, v) == [hi |-> u.hi ^^ v.hi, lo |-> u.lo ^^ v.lo]
Lcom(u) == [hi |-> H - 1 - u.hi, lo |-> H - 1 - u.lo]
\* neg bx; neg ax; sbb bx,0
Lneg(u) == [hi |-> (0 - u.hi - (IF u.lo = 0 THEN 0 ELSE 1)) % H, lo |-> (-u.lo) % H]
Linc(u) == [hi |-> IF (u.lo + 1) % H = 0 THEN (u.hi + 1) % H ELSE u.hi, lo |-> (u.lo + 1) % H]
Ldec(u) == [hi |-> IF u.lo = 0 THEN (u.hi - 1) % H ELSE u.hi, lo |-> (u.lo - 1) % H]
\* Three multiplications of words; only the last one's high word is used.
Lmul(u, v) == [hi |-> (((u.lo * v.hi) % H) + ((u.hi * v.lo) % H) + ((v.lo * u.lo) \div H)) % H,
               lo |-> (v.lo * u.lo) % H]

\* shl ax; rcl bx -- sar bx; rcr ax -- shr bx; rcr ax
Shl(u) == [hi |-> (2 * u.hi + (u.lo \div (H \div 2))) % H, lo |-> (2 * u.lo) % H]
Shr(u, top) == [hi |-> u.hi \div 2 + top * (H \div 2),
                lo |-> u.lo \div 2 + (u.hi % 2) * (H \div 2)]
Sign(u) == IF Top(u.hi) THEN 1 ELSE 0
Lsl(u, n)  == IF n >= 2 * W THEN Zero ELSE Repeat(u, n, Shl)
Lsru(u, n) == IF n >= 2 * W THEN Zero ELSE Repeat(u, n, LAMBDA v : Shr(v, 0))
Lsr(u, n)  == Repeat(u, IF n >= 2 * W THEN 2 * W ELSE n, LAMBDA v : Shr(v, Sign(v)))

-----------------------------------------------------------------------------
(* Comparisons.                                                            *)

\* When the high words are equal, the signs of the low ones mean nothing.
Lcmp(u, v) ==
  LET hi == Sub(u.hi, v.hi)
      lo == Sub(u.lo, v.lo)
  IN IF ~hi.zf THEN hi
     ELSE IF lo.cf THEN Dec0(lo)
     ELSE IF lo.sf = lo.of THEN lo ELSE Inc0(lo)
Ltst(u) ==
  IF u.hi # 0 THEN Test(u.hi) ELSE IF Top(u.lo) THEN Inc0(Test(u.lo)) ELSE Test(u.lo)

-----------------------------------------------------------------------------
(* ldivmod and ludivmod.                                                   *)

\* cmp of the high words, then of the low ones: unsigned u <= v.
Leq(u, v) == u.hi < v.hi \/ (u.hi = v.hi /\ u.lo <= v.lo)
Neg(u) == Top(u.hi)
IfNeg(signed, u) == IF signed /\ Neg(u) THEN Lneg(u) ELSE u
Division == {"ldivl", "ldivul", "lmodl", "lmodul", "ldiv"}
Signed  == call \in {"ldivl", "lmodl", "ldiv"}
MinusX  == Signed /\ Neg(x)       \* dl
MinusY  == Signed /\ Neg(y)       \* dh

\* The end: zdivu1, zbminus, negq, negr.
Signs(q0, r0) ==
  /\ IF MinusX = MinusY THEN q' = q0
     ELSE q' = IF r0 = Zero THEN Lneg(q0) ELSE Lcom(q0)
  /\ r' = IF MinusX = MinusY \/ r0 = Zero THEN IF MinusY THEN Lneg(r0) ELSE r0
          ELSE LET s == Lsub(r0, b') IN IF MinusY THEN s ELSE Lneg(s)
  /\ pc' = "done"

Start ==
  /\ pc = "call" /\ call \in Division
  /\ LET u == IfNeg(Signed, x)
         v == IfNeg(Signed, y)
     IN /\ b' = v
        /\ \/ /\ v = Zero
              /\ q' = Zero /\ r' = IF MinusX THEN Lneg(u) ELSE u
              /\ w' = w /\ pc' = "done"
           \/ /\ v.hi = 0 /\ u.hi < v.lo       \* the processor's own division
              /\ w' = w
              /\ Signs([hi |-> 0, lo |-> (u.hi * H + u.lo) \div v.lo],
                       [hi |-> 0, lo |-> (u.hi * H + u.lo) % v.lo])
           \/ /\ v # Zero /\ ~(v.hi = 0 /\ u.hi < v.lo)
              /\ w' = v
              /\ IF Leq(v, u) THEN q' = Zero /\ r' = u /\ pc' = "loop1"
                 ELSE Signs(Zero, u)
  /\ UNCHANGED <<call, order, x, y, flags>>

\* fault: a bit that is shifted out is not seen.
Loop1NoCarry ==
  /\ pc = "loop1"
  /\ IF Leq(Shl(w), r) THEN w' = Shl(w) /\ pc' = pc
     ELSE w' = w /\ pc' = "loop2"
  /\ UNCHANGED <<call, order, x, y, r, q, b, flags>>

\* w = 2 * w, as long as it is not above r; the last step is taken back.
Loop1 ==
  /\ pc = "loop1"
  /\ IF ~Top(w.hi) /\ Leq(Shl(w), r) THEN w' = Shl(w) /\ pc' = pc
     ELSE w' = w /\ pc' = "loop2"
  /\ UNCHANGED <<call, order, x, y, r, q, b, flags>>

Loop2 ==
  /\ pc = "loop2"
  /\ LET q1 == IF Leq(w, r) THEN Linc(Shl(q)) ELSE Shl(q)
         r1 == IF Leq(w, r) THEN Lsub(r, w) ELSE r
     IN /\ w' = Shr(w, 0) /\ b' = b
        /\ IF Leq(b, Shr(w, 0)) THEN q' = q1 /\ r' = r1 /\ pc' = pc
           ELSE Signs(q1, r1)
  /\ UNCHANGED <<call, order, x, y, flags>>

-----------------------------------------------------------------------------
(* What the compiler calls: the quotient and the remainder of ldivmod for    *)
(* bx:ax and di:cx, or for the structure of the C library.                  *)

Ldivl == [bxax |-> q, dicx |-> r]
Lmodl == [bxax |-> r, dicx |-> q]
Ldiv  == [quot |-> q, rem |-> r]
\* Quotient, Remainder, Result, ResultSwapped and Compared name no code: they pick
\* the routine of a call; HighFirst reads the words of the other order.
HighFirst(s) == [hi |-> s[1], lo |-> s[2]]
Quotient  == CASE call = "ldivl"  -> IF order = "l" THEN Ldivl.bxax ELSE HighFirst(Ldivb(r, q).axbx)
               [] call = "ldivul" -> IF order = "l" THEN Ldivl.bxax ELSE HighFirst(Ldivub(r, q).axbx)
               [] call = "lmodl"  -> IF order = "l" THEN Lmodl.dicx ELSE HighFirst(Lmodb(r, q).cxdi)
               [] call = "lmodul" -> IF order = "l" THEN Lmodl.dicx ELSE HighFirst(Lmodub(r, q).cxdi)
               [] OTHER -> Ldiv.quot
Remainder == CASE call = "ldivl"  -> IF order = "l" THEN Ldivl.dicx ELSE HighFirst(Ldivb(r, q).cxdi)
               [] call = "ldivul" -> IF order = "l" THEN Ldivl.dicx ELSE HighFirst(Ldivub(r, q).cxdi)
               [] call = "lmodl"  -> IF order = "l" THEN Lmodl.bxax ELSE HighFirst(Lmodb(r, q).axbx)
               [] call = "lmodul" -> IF order = "l" THEN Lmodl.bxax ELSE HighFirst(Lmodub(r, q).axbx)
               [] OTHER -> Ldiv.rem

-----------------------------------------------------------------------------
Unary   == {"lcoml", "lnegl", "lincl", "ldecl", "ltstl"}
Binary  == {"laddl", "lsubl", "lmull", "landl", "lorl", "leorl", "lcmpl"}
Shift   == {"lsll", "lsrl", "lsrul"}

Result == CASE call = "laddl" -> Ladd(x, y)    [] call = "lsubl" -> Lsub(x, y)
            [] call = "landl" -> Land(x, y)    [] call = "lorl"  -> Lor(x, y)
            [] call = "leorl" -> Leor(x, y)    [] call = "lmull" -> Lmul(x, y)
            [] call = "lcoml" -> Lcom(x)       [] call = "lnegl" -> Lneg(x)
            [] call = "lincl" -> Linc(x)       [] call = "ldecl" -> Ldec(x)
            [] call = "lsll"  -> Lsl(x, y.lo)
            [] call = "lsrl"  -> Lsr(x, y.lo)  [] call = "lsrul" -> Lsru(x, y.lo)
            [] OTHER -> x
ResultSwapped ==
  LET s == <<x.hi, x.lo>>
      m == <<y.hi, y.lo>>
  IN CASE call = "laddl" -> Laddb(s, m)    [] call = "lsubl" -> Lsubb(s, m)
       [] call = "landl" -> Landb(s, m)    [] call = "lorl"  -> Lorb(s, m)
       [] call = "leorl" -> Leorb(s, m)    [] call = "lmull" -> Lmulb(s, m)
       [] call = "lcoml" -> Lcomb(s)       [] call = "lnegl" -> Lnegb(s)
       [] call = "lincl" -> Lincb(s)       [] call = "ldecl" -> Ldecb(s)
       [] call = "lsll"  -> Lslb(s, y.lo)
       [] call = "lsrl"  -> Lsrb(s, y.lo)  [] call = "lsrul" -> Lsrub(s, y.lo)
       [] OTHER -> s
Compared ==
  IF order = "l" THEN IF call = "lcmpl" THEN Lcmp(x, y) ELSE Ltst(x)
  ELSE IF call = "lcmpl" THEN Lcmpb(<<x.hi, x.lo>>, <<y.hi, y.lo>>) ELSE Ltstb(<<x.hi, x.lo>>)
OneStep ==
  /\ pc = "call" /\ call \in Unary \cup Binary \cup Shift
  /\ r' = IF order = "l" THEN Result ELSE HighFirst(ResultSwapped)
  /\ flags' = IF call \in {"lcmpl", "ltstl"} THEN Compared ELSE flags
  /\ pc' = "done"
  /\ UNCHANGED <<call, order, x, y, q, w, b>>

LongInit ==
  /\ \/ call \in Unary /\ y = Zero
     \/ call \in Binary \cup Division /\ y \in Long
     \/ call \in Shift /\ y \in {[hi |-> 0, lo |-> n] : n \in Word}
  /\ order \in IF call = "ldiv" THEN {"l"} ELSE {"l", "b"}
  /\ x \in Long /\ r = x /\ q = Zero /\ w = Zero /\ b = Zero /\ flags = NoFlags /\ pc = "call"
LongIdle ==
  /\ call = NoCall /\ order = "l" /\ x = Zero /\ y = Zero /\ r = Zero /\ q = Zero /\ w = Zero /\ b = Zero
  /\ flags = NoFlags /\ pc = "done"
LongNext == Start \/ Loop1 \/ Loop2 \/ OneStep
=============================================================================
