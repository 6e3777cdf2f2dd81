------------------------------ MODULE LibProps ------------------------------
(***************************************************************************)
(* What the routines of Lib.tla compute, against plain definitions.         *)
(***************************************************************************)
EXTENDS Lib, SequencesExt

-----------------------------------------------------------------------------
(* Long integers.                                                          *)

M == H * H
U(l) == l.hi * H + l.lo                              \* unsigned
S(l) == IF Top(l.hi) THEN U(l) - M ELSE U(l)         \* signed
AbsVal(n) == IF n < 0 THEN -n ELSE n

\* The contract of __ldivmod.c:19-33, for all operands, the smallest number and zero
\* included, and while the division runs: what is left of the dividend and what the
\* quotient stands for add up to it, and the shifted divisor stays within reach.
DivisionExact ==
  LET Num(l) == IF Signed THEN S(l) ELSE U(l)
      quot == Quotient
      rest == Remainder
      Dividend == U(IfNeg(Signed, x))
  IN /\ call \in Division /\ pc = "done" =>
          IF y = Zero THEN quot = Zero /\ rest = x
          ELSE /\ (U(y) * U(quot) + U(rest)) % M = U(x)
               /\ AbsVal(Num(rest)) < AbsVal(Num(y))
               /\ Num(rest) # 0 => (Num(rest) < 0 <=> Num(y) < 0)
     /\ pc \in {"loop1", "loop2"} =>
          \E k \in 0..2 * W : /\ U(w) = U(b) * 2 ^ k
                              /\ pc = "loop1" => U(w) <= U(r) /\ U(q) = 0 /\ U(r) = Dividend
                              /\ pc = "loop2" => /\ U(r) < 2 * U(w)
                                                 /\ Dividend = 2 * U(w) * U(q) + U(r)

\* Every other routine computes its result on the whole number, of 32 bits in the
\* code, and a comparison leaves flags that all conditional jumps read as the order
\* of the signed and of the unsigned numbers.
ArithExact == pc = "done" /\ call \notin Division \cup {NoCall} =>
  LET Is(n) == U(r) = n % M
      n == y.lo
  IN CASE call = "laddl" -> Is(U(x) + U(y))  [] call = "lsubl" -> Is(U(x) - U(y))
       [] call = "landl" -> Is(U(x) & U(y))  [] call = "lorl"  -> Is(U(x) | U(y))
       [] call = "leorl" -> Is(U(x) ^^ U(y)) [] call = "lmull" -> Is(U(x) * U(y))
       [] call = "lcoml" -> Is(-U(x) - 1)    [] call = "lnegl" -> Is(-U(x))
       [] call = "lincl" -> Is(U(x) + 1)     [] call = "ldecl" -> Is(U(x) - 1)
       [] call = "lsll"  -> Is(U(x) * 2 ^ n) [] call = "lsrul" -> Is(U(x) \div 2 ^ n)
       [] call = "lsrl"  -> Is(S(x) \div 2 ^ n)
       [] OTHER -> /\ flags.zf <=> x = y
                   /\ flags.cf <=> U(x) < U(y)
                   /\ (flags.sf # flags.of) <=> S(x) < S(y)

-----------------------------------------------------------------------------
(* Checksums.                                                              *)

\* The sum of the words of a sequence of bytes in network order, padded with a 0.
NetSum(s) == LET e == IF Len(s) % 2 = 0 THEN s ELSE Append(s, 0)
             IN FoldLeft(+, 0, [i \in 1..Len(e) \div 2 |-> e[2 * i - 1] * HB + e[2 * i]])
Value(s) == FoldLeft(LAMBDA v, o : v * HB + o, 0, s)

\* The sum of all words of a packet, and of the pseudo header of a segment.
Total == NetSum(head) + NetSum(data) + Htons(sum)
         + IF kind = "tcp" THEN Htons(src) + Htons(dst) + Proto + Len(head) + 2 + Len(data)
                           ELSE 0

\* What is sent adds up to 0 modulo 0xffff, the odd byte and the carries included, and
\* a receiver accepts a segment or the header of a datagram exactly if it does; so it
\* accepts what was not damaged.  The words of the answer to a ping add up to 0 modulo
\* 0xffff too (but for a ping of nothing but zeros they are all 0, which receivers do
\* not accept).  A sequence number moves by the length, through all of its bytes.
ChecksumExact ==
  /\ kind \in {"tcp", "ip"} /\ at = "net" => Total % Ones = 0
  /\ kind \in {"tcp", "ip"} /\ at = "receiver" => (verdict = "accept" <=> Total % Ones = 0)
  /\ kind = "icmp" /\ at = "receiver" => Total % Ones = 0
  /\ at = "receiver" /\ kind = "add32" => Value(head) = (Value(data) + src) % (HW * HW)

-----------------------------------------------------------------------------
(* Paths.                                                                  *)

\* The characters of a path with what each of them means, and whether the path ends
\* within an escape; then the names between the slashes that are not escaped.
Meaning(s) == FoldLeft(
  LAMBDA m, c : IF m.open THEN [open |-> FALSE, chars |-> Append(m.chars, <<"as is", c>>)]
                ELSE IF c = Back THEN [m EXCEPT !.open = TRUE]
                ELSE [m EXCEPT !.chars = Append(@, <<IF c = Slash THEN "end" ELSE "as is", c>>)],
  [open |-> FALSE, chars |-> <<>>], s)
NamesOf(s) == FoldLeft(
  LAMBDA l, t : IF t[1] = "end" THEN Append(l, <<>>)
                ELSE [l EXCEPT ![Len(l)] = Append(@, t[2])], <<<<>>>>, Meaning(s).chars)
PathNames == SelectSeq(NamesOf(path), LAMBDA n : n # <<>>)
Start0 == IF Char(1) = Slash THEN Root ELSE Pwd

\* A path that is found leads through the names between its slashes, however they are
\* escaped and however many slashes there are; a name of NAME_MAX characters or more
\* is refused and, at the end of a path, one of NAME_MAX - 1 too; the buffer of
\* NAME_MAX bytes is never overrun, the path is read up to its end, and the buffer is
\* given back.
PathExact ==
  LET names == PathNames
      lastFits == NamesOf(path)[Len(NamesOf(path))] = <<>> \/ Len(names[Len(names)]) < NameMax - 1
      fits == lastFits /\ \A i \in DOMAIN names : Len(names[i]) < NameMax
  IN /\ pos <= Len(path) + 1
     /\ nbuf # NULL => Len(nbuf) < NameMax
     /\ step = "lookup" => nbuf # <<>> /\ IsPrefix(Append(Tail(dir), nbuf), names)
     /\ step = "done" /\ kind = NoPacket /\ call = NoCall /\ keys = NoKeys =>
          /\ nbuf = NULL
          /\ err = "ENONE" => /\ ret = Start0 \o names /\ fits /\ ~Meaning(path).open
          /\ err = "EINVAL" => ~fits \/ Meaning(path).open

-----------------------------------------------------------------------------
(* The shell.                                                              *)

\* The words of a sequence of keys up to the first one below blank.
WordsOf(s) == FoldLeft(
  LAMBDA m, c : CASE m.end \/ c \in Below -> [m EXCEPT !.end = TRUE, !.open = FALSE]
                  [] ~m.end /\ c = Blank -> [m EXCEPT !.open = FALSE]
                  [] ~m.end /\ c \in Letters ->
                       [m EXCEPT !.open = TRUE,
                                 !.words = IF m.open THEN [@ EXCEPT ![Len(@)] = Append(@, c)]
                                           ELSE Append(@, <<c>>)],
  [end |-> FALSE, open |-> FALSE, words |-> <<>>], s).words

=============================================================================
