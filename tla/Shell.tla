-------------------------------- MODULE Shell --------------------------------
(***************************************************************************)
(* A line of the shell (builtin/sh.c) from the keys of the console           *)
(* (con_io, dev/con/con.c) to the command that runs: con_io fills a buffer, *)
(* sh_mkargs cuts it into arguments, sh_parse_cmdline finds the command.    *)
(***************************************************************************)
EXTENDS Integers, Sequences

CONSTANTS StreamSize,   \* BUF_STREAMSIZE, 256 in the code
          StrSize,      \* the size of argstrs, 256
          MaxArgs,      \* SH_MAX_ARGS, 16
          Commands,     \* sh_cmds: a sequence of [name, num], num -1 for any number
          NoKeys
ASSUME ShellAssumption == {StreamSize, StrSize, MaxArgs} \subseteq Nat \ {0}

Letters == {"a", "b"}
Blank   == " "
Keys    == Letters \cup {Blank, "lf", "eot", "tab"}
Below   == {"nul", "tab", "cr", "lf"}      \* < ' '
Foreign == "?"                             \* what follows the buffer in memory

VARIABLES
  keys,    \* what was typed, or NoKeys
  line,    \* the data of the buffer
  left,    \* con_io's len
  blen,    \* buf->len
  ap,      \* the next character of the line
  argv,    \* the arguments as sequences of characters
  used,    \* characters of argstrs that are written
  past,    \* argv[SH_MAX_ARGS], one behind the array, was set
  stage,   \* "read", "args", "find", "wild" or "done"
  ran      \* what became of the line

shell == <<keys, line, left, blen, ap, argv, used, past, stage, ran>>

CharAt(i) == IF i <= StreamSize THEN line[i] ELSE Foreign

\* One turn of the loop in con_io.  A key is awaited when none was typed.
ConKey ==
  /\ stage = "read" /\ left > 0
  /\ \E c \in Keys :
       /\ keys' = Append(keys, c)
       /\ left' = IF c = "eot" THEN left ELSE left - 1
       /\ line' = IF c = "eot" THEN line
                  ELSE [line EXCEPT ![StreamSize - left + 1] = IF c = "lf" THEN "cr" ELSE c]
       /\ blen' = IF c \in {"eot", "lf"} THEN StreamSize - left' ELSE blen
       /\ stage' = CASE c \notin {"eot", "lf"} -> stage
                     [] c = "eot" /\ left = StreamSize -> "done"
                     [] OTHER -> "args"
       /\ ran' = IF stage' = "done" THEN "end of transmission" ELSE ran
  /\ UNCHANGED <<ap, argv, used, past>>

\* while (len--) leaves -1 behind.
ConFull ==
  /\ stage = "read" /\ left = 0
  /\ left' = -1 /\ blen' = StreamSize + 1 /\ stage' = "args"
  /\ UNCHANGED <<keys, line, ap, argv, used, past, ran>>

\* The place from i on where the character is not in C; foreign memory is not followed.
First(i, C) == CHOOSE j \in i..StreamSize + 1 : CharAt(j) \notin C /\ \A k \in i..j - 1 : CharAt(k) \in C
Text == Letters


\* One turn of the loop in sh_mkargs: skip blanks, copy up to the next one.
MkArg ==
  /\ stage = "args" /\ CharAt(ap) \notin Below \cup {Foreign} /\ Len(argv) < MaxArgs
  /\ LET s == First(ap, {Blank})
         e == First(s, Text)
     IN IF Foreign \in {CharAt(s), CharAt(e)} THEN stage' = "wild" /\ UNCHANGED <<argv, used, ap>>
        ELSE IF CharAt(s) \in Below THEN stage' = "find" /\ ap' = s /\ UNCHANGED <<argv, used>>
        ELSE /\ argv' = Append(argv, SubSeq(line, s, e - 1))
             /\ used' = used + e - s + 1 /\ ap' = e /\ stage' = stage
  /\ UNCHANGED <<keys, line, left, blen, past, ran>>

\* The loop ends; argv[i] = NULL.
EndArgs ==
  /\ stage = "args" /\ (CharAt(ap) \in Below \cup {Foreign} \/ Len(argv) = MaxArgs)
  /\ stage' = IF CharAt(ap) = Foreign THEN "wild" ELSE "find"
  /\ past' = (Len(argv) = MaxArgs)
  /\ UNCHANGED <<keys, line, left, blen, ap, argv, used, ran>>

\* sh_parse_cmdline after sh_mkargs: the first entry with the name is the one.
Find ==
  /\ stage = "find"
  /\ LET hits == {i \in DOMAIN Commands : argv # <<>> /\ Commands[i].name = argv[1]}
         hit  == CHOOSE i \in hits : \A j \in hits : i <= j
     IN ran' = CASE argv = <<>> -> "nothing"
                 [] argv # <<>> /\ hits = {} -> "?"
                 [] OTHER -> IF Commands[hit].num \notin {-1, Len(argv) - 1} THEN "requires"
                             ELSE "run"
  /\ stage' = "done"
  /\ UNCHANGED <<keys, line, left, blen, ap, argv, used, past>>

\* Bound: what the buffer held before is one character all over.
ShInit ==
  /\ keys = <<>> /\ \E c \in {"nul", "a"} : line = [i \in 1..StreamSize |-> c]
  /\ left = StreamSize /\ blen = StreamSize /\ ap = 1 /\ argv = <<>> /\ used = 0
  /\ past = FALSE /\ stage = "read" /\ ran = "nothing"
ShIdle ==
  /\ keys = NoKeys /\ line = <<>> /\ left = 0 /\ blen = 0 /\ ap = 1 /\ argv = <<>>
  /\ used = 0 /\ past = FALSE /\ stage = "done" /\ ran = "nothing"
ShNext == ConKey \/ ConFull \/ MkArg \/ EndArgs \/ Find
=============================================================================
