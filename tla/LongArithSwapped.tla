--------------------------- MODULE LongArithSwapped ---------------------------
(***************************************************************************)
(* The routines for longs with the high word first (arch/i86/bcc/bcc_bsw.c): *)
(* s is <<ax, bx>> and m the words <<(di), 2(di)>>.  They are written anew   *)
(* for this order in the code, and so they are here.                        *)
(***************************************************************************)
EXTENDS LongWords

Laddb(s, m) == <<(s[1] + m[1] + ((s[2] + m[2]) \div H)) % H, (s[2] + m[2]) % H>>
Lsubb(s, m) == <<(s[1] - m[1] - (IF s[2] < m[2] THEN 1 ELSE 0)) % H, (s[2] - m[2]) % H>>
Landb(s, m) == <<s[1] & m[1], s[2] & m[2]>>
Lorb(s, m)  == <<s[1] | m[1], s[2] | m[2]>>
Leorb(s, m) == <<s[1] ^^ m[1], s[2] ^^ m[2]>>
Lcomb(s) == <<H - 1 - s[1], H - 1 - s[2]>>
Lnegb(s) == <<(0 - s[1] - (IF s[2] = 0 THEN 0 ELSE 1)) % H, (-s[2]) % H>>

\* These two change the long in memory, at bx.
Lincb(m) == LET low == (m[2] + 1) % H IN <<IF low = 0 THEN (m[1] + 1) % H ELSE m[1], low>>
Ldecb(m) == IF m[2] = 0 THEN <<(m[1] - 1) % H, H - 1>> ELSE <<m[1], m[2] - 1>>

\* mul 2(di), then mul (di) with ax and bx exchanged, then mul cx.
Lmulb(s, m) ==
  LET bx == ((s[1] * m[2]) % H) + ((s[2] * m[1]) % H)
  IN <<(bx + ((m[2] * s[2]) \div H)) % H, (m[2] * s[2]) % H>>

Shlb(s) == <<(2 * s[1] + (s[2] \div (H \div 2))) % H, (2 * s[2]) % H>>
Rcr(s, top) == <<s[1] \div 2 + top * (H \div 2), s[2] \div 2 + (s[1] % 2) * (H \div 2)>>
Lslb(s, n)  == IF n >= 2 * W THEN <<0, 0>> ELSE Repeat(s, n, Shlb)
Lsrub(s, n) == IF n >= 2 * W THEN <<0, 0>> ELSE Repeat(s, n, LAMBDA v : Rcr(v, 0))
Lsrb(s, n)  == Repeat(s, IF n >= 2 * W THEN 2 * W ELSE n,
                      LAMBDA v : Rcr(v, IF Top(v[1]) THEN 1 ELSE 0))

Lcmpb(s, m) ==
  LET first == Sub(s[1], m[1])
      second == Sub(s[2], m[2])
  IN CASE ~first.zf -> first
       [] first.zf /\ second.cf -> Dec0(second)
       [] first.zf /\ ~second.cf /\ second.sf = second.of -> second
       [] OTHER -> Inc0(second)
Ltstb(s) == IF s[1] # 0 THEN Test(s[1])
            ELSE IF Test(s[2]).sf THEN Inc0(Test(s[2])) ELSE Test(s[2])

\* ldivmod is the same for both orders: it takes bx:ax and di:cx, which are loaded
\* before, and leaves the remainder in bx:ax and the quotient in di:cx.
Ldivb(bxax, dicx) == [axbx |-> <<dicx.hi, dicx.lo>>, cxdi |-> <<bxax.hi, bxax.lo>>]
Ldivub(bxax, dicx) == [axbx |-> <<dicx.hi, dicx.lo>>, cxdi |-> <<bxax.hi, bxax.lo>>]
Lmodb(bxax, dicx) == [axbx |-> <<bxax.hi, bxax.lo>>, cxdi |-> <<dicx.hi, dicx.lo>>]
Lmodub(bxax, dicx) == [axbx |-> <<bxax.hi, bxax.lo>>, cxdi |-> <<dicx.hi, dicx.lo>>]
=============================================================================
