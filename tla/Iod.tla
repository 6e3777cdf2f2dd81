-------------------------------- MODULE Iod --------------------------------
(***************************************************************************)
(* The I/O daemon of kern/io/iod.c: channels that copy from one object to   *)
(* another, in the context of the daemon or, for IODCHN_IMMEDIATE, of the   *)
(* process that writes the command.                                        *)
(*                                                                         *)
(* Channel records and their lists are modelled pointer by pointer (Queue), *)
(* because a record is at the same time on the list `used' of its pool and  *)
(* on one of the daemon's lists, with one pair of links.  An action ends at  *)
(* the switches of bref(), when it is called, and of close(), when it has   *)
(* closed.  The switch at the end of bunref() (fs.c:499) is not one of its  *)
(* own: a buffer is released within the action, in iod_free_dstbuf() and at *)
(* the end of a block.  While one channel is in use all that can run there  *)
(* is the daemon's look at an immediate channel, which sees the same lists  *)
(* before the action.  A byte is its number in its source.                  *)
(***************************************************************************)
EXTENDS Queue, FiniteSets

CONSTANTS
  Client,      \* processes; each writes one command, its job
  Iod,         \* the daemon
  NumChn,      \* IOD_CHANNELS
  TableSize,   \* entries of the daemon's table of objects
  Stream,      \* the jobs that read from a stream, the others read a file
  SrcLen,      \* length of the files in bytes
  SrcBlk,      \* block size of the sources
  DstBlk,      \* block size of the destinations
  MaxInput,    \* bound: lines that arrive at a stream
  MaxFrom,     \* bound: blocks of a stream, and of a channel a driver wakes
  Uses,        \* how the daemon is used, see MayCreate
  MemShort     \* whether bref() fails for want of memory

ASSUME IodAssumption ==
  /\ Iod \notin Client /\ Stream \subseteq Client
  /\ {NumChn, SrcBlk, DstBlk} \subseteq Nat \ {0}
  /\ {TableSize, SrcLen, MaxInput, MaxFrom} \subseteq Nat
  /\ Uses \subseteq {"immediate", "shared", "background"} /\ MemShort \in BOOLEAN

Actor == Client \cup {Iod}
Chn   == 1..NumChn
Ends  == {"from", "to"}

(* Flags a command may ask for; IODCHN_INTR is accepted and never looked at. *)
Settable == {"poll", "autoclose", "immediate", "push"}

VARIABLES
  io,    \* links, channels, objects of the daemon: see Init
  loc,   \* where each process is: inside a copy, a kill, asleep, ...
  use    \* one of Uses

vars == <<io, loc, use>>

Init ==
  /\ io = [prev |-> PoolPrev(NumChn), next |-> PoolNext(NumChn),
           first |-> [used |-> NULL, unused |-> 1, active |-> NULL, inactive |-> NULL],
           last  |-> [used |-> NULL, unused |-> NumChn, active |-> NULL, inactive |-> NULL],
           chn |-> [c \in Chn |-> [job |-> Iod, flags |-> {}, blk_from |-> 0,
                                   dst |-> <<>>, rest |-> 0]],
           live    |-> {},                       \* records that are allocated
           polling |-> 0,                        \* iod_polling
           table   |-> {},                       \* objects of the daemon
           refs    |-> {},                       \* its references to objects
           out     |-> [j \in Client |-> <<>>],  \* what was sent to a destination
           lines   |-> [j \in Client |-> 0],     \* input of a stream so far
           st      |-> [j \in Client |-> "new"]] \* what became of a job
  /\ loc = [a \in Actor |-> [pc |-> IF a = Iod THEN "asleep" ELSE "start",
                             ch |-> NULL, data |-> <<>>, restart |-> FALSE]]
  /\ use \in Uses

At(pc, c)   == [pc |-> pc, ch |-> c, data |-> <<>>, restart |-> FALSE]
Has(k, c, f) == f \in k.chn[c].flags

-----------------------------------------------------------------------------
(* Channels.                                                               *)

\* iod_free_dstbuf: the buffer is marked dirty and left to the syncer.  An
\* empty dst stands for NULL, since a buffer is filled when it is got.
FreeDstbuf(k, c) ==
  [k EXCEPT !.out[k.chn[c].job] = @ \o k.chn[c].dst, !.chn[c].dst = <<>>]

ChnWakeup(k, c) ==
  IF Has(k, c, "active") THEN k
  ELSE [DequeuePush(DequeueRemove(k, "inactive", c), "active", c)
          EXCEPT !.chn[c].flags = @ \cup {"active"}]

\* fault: the record is only put on the other list.
ChnSleepNotRemoved(k, c) ==
  IF ~Has(k, c, "active") THEN k
  ELSE [DequeuePush(k, "inactive", c) EXCEPT !.chn[c].flags = @ \ {"active"}]

ChnSleep(k, c) ==
  IF ~Has(k, c, "active") THEN k
  ELSE [DequeuePush(DequeueRemove(k, "active", c), "inactive", c)
          EXCEPT !.chn[c].flags = @ \ {"active"}]

\* pool_alloc and pool_free.
PoolAlloc(k) ==
  LET c == k.last["unused"]
  IN [DequeuePush(DequeuePop(k, "unused"), "used", c) EXCEPT !.live = @ \cup {c}]
PoolFree(k, c) ==
  [DequeuePush(DequeueRemove(k, "used", c), "unused", c) EXCEPT !.live = @ \ {c}]

\* close() looks for the object in the table of the process that runs.
CloseEnd(k, a, c, e) ==
  LET h == <<k.chn[c].job, e>>
  IN [k EXCEPT !.refs = @ \ {h}, !.table = IF a = Iod THEN @ \ {h} ELSE @]

\* Last part of iod_chn_kill.
Discard(k, c) ==
  LET j == k.chn[c].job
      p == IF Has(k, c, "poll") THEN [k EXCEPT !.polling = @ - 1] ELSE k
  IN [PoolFree(DequeueRemove(p, "inactive", c), c)
        EXCEPT !.st[j] = IF @ = "failed" THEN @ ELSE "done"]

\* iod_chn_kill up to its first switch.
Kill(k, a, c) ==
  LET f == FreeDstbuf(k, c)
  IN IF Has(k, c, "immediate")
     THEN [io |-> Discard(f, c), loc |-> At("end", NULL)]
     ELSE [io |-> CloseEnd(f, a, c, "from"), loc |-> At("close_to", c)]

-----------------------------------------------------------------------------
(* The loop of the daemon.                                                 *)

\* iod_copy_buf up to the switch in bref(); the block number has moved on.
Copy(k, c) ==
  [io |-> [k EXCEPT !.chn[c].blk_from = @ + 1], loc |-> At("src", c)]

\* The channels iod_process_active comes to from x on; immediate ones are
\* passed over, and a ring of them is never left.
Candidates(k, x) ==
  {i \in 1..NumChn + 1 : LET y == WalkFrom(k, x, NumChn + 1)[i]
                         IN y = NULL \/ ~Has(k, y, "immediate")}
Serve(k, c, restart) ==
  IF Has(k, c, "push") THEN [io |-> k, loc |-> [At("push", c) EXCEPT !.restart = restart]]
  ELSE Copy(k, c)
\* The daemon finds nothing to do: it sleeps, or, if it polls, looks again and
\* again without a switch, so that nobody else ever runs.
Rest(k) == [io |-> k, loc |-> At(IF k.polling # 0 THEN "spin" ELSE "asleep", NULL)]
Spin(k) == [io |-> k, loc |-> At("spin", NULL)]

\* fault: the list is walked once only.
ProcessOnce(k, x, restart) ==
  LET Found(y) == WalkFrom(k, y, NumChn + 1)[CHOOSE i \in Candidates(k, y) :
                                               \A l \in Candidates(k, y) : i <= l]
  IN IF Candidates(k, x) = {} THEN Spin(k)
     ELSE IF Found(x) # NULL THEN Serve(k, Found(x), restart) ELSE Rest(k)

\* iod_process_active, which starts over when a channel was served, and the
\* loop of iod(), which calls it again while the daemon polls.
ProcessFrom(k, x, restart) ==
  LET Found(y) == WalkFrom(k, y, NumChn + 1)[CHOOSE i \in Candidates(k, y) :
                                               \A l \in Candidates(k, y) : i <= l]
      top == k.first["active"]
  IN IF Candidates(k, x) = {} THEN Spin(k)
     ELSE IF Found(x) # NULL THEN Serve(k, Found(x), restart)
     ELSE IF ~restart /\ k.polling = 0 THEN Rest(k)
     ELSE IF Candidates(k, top) = {} THEN Spin(k)
     ELSE IF Found(top) # NULL THEN Serve(k, Found(top), FALSE)
     ELSE Rest(k)

Restart(k) == ProcessFrom(k, k.first["active"], TRUE)

\* What follows iod_copy_buf in iod_process_active.
Background(k, c, err) ==
  LET s == ChnSleep(k, c)
  IN IF err = "ENONE" \/ (err = "ENOIODATA" /\ Has(k, c, "poll"))
     THEN ProcessFrom(k, k.next[c], TRUE)
     ELSE IF err # "ENOIODATA" \/ Has(k, c, "autoclose")
     THEN Kill(s, Iod, c)
     ELSE Restart(s)

\* What follows it in iod_chn_create.
Immediate(k, a, c, err) ==
  IF err = "ENONE" THEN Copy(k, c)
  ELSE IF Has(k, c, "autoclose") THEN Kill(k, a, c)
  ELSE [io |-> k, loc |-> At("end", c)]

Verdict(k, c, err) ==
  [k EXCEPT !.st[k.chn[c].job] = CASE err = "ENONE"     -> @
                                   [] err = "ENOIODATA" -> "idle"
                                   [] OTHER             -> "failed"]
Return(k, a, c, err) ==
  IF a = Iod THEN Background(Verdict(k, c, err), c, err)
  ELSE Immediate(Verdict(k, c, err), a, c, err)

Goes(a, r) == io' = r.io /\ loc' = [loc EXCEPT ![a] = r.loc] /\ UNCHANGED use

-----------------------------------------------------------------------------
(* iod_copy_buf.                                                           *)

Least(m, n) == IF m < n THEN m ELSE n
Bytes(m, n) == [i \in 1..n - m + 1 |-> m + i - 1]

\* fault: what is left of the source block is dropped.
PourOnce(k, a, c, data) ==
  LET r == k.chn[c]
      n == Least(Len(data), r.rest)
      p == [k EXCEPT !.chn[c] = [r EXCEPT !.dst = @ \o SubSeq(data, 1, n), !.rest = @ - n]]
  IN Return(IF r.rest = n THEN FreeDstbuf(p, c) ELSE p, a, c, "ENONE")

\* The copy loop, until it has to ask for a buffer or the block is copied.
Pour(k, a, c, data) ==
  LET r == k.chn[c]
      n == Least(Len(data), r.rest)
      p == [k EXCEPT !.chn[c] = [r EXCEPT !.dst = @ \o SubSeq(data, 1, n), !.rest = @ - n]]
      f == IF r.rest = n THEN FreeDstbuf(p, c) ELSE p
  IN IF n < Len(data)
     THEN [io |-> f, loc |-> [At("dst", c) EXCEPT !.data = SubSeq(data, n + 1, Len(data))]]
     ELSE Return(f, a, c, "ENONE")

\* The bytes of block b of a file.
FileBlock(b) == Bytes(b * SrcBlk + 1, Least((b + 1) * SrcBlk, SrcLen))

NotSpinning == loc[Iod].pc # "spin"

\* bref() of the source, past its switch.
GetFile(a) ==
  LET c == loc[a].ch
      b == io.chn[c].blk_from - 1
  IN /\ NotSpinning /\ loc[a].pc = "src" /\ io.chn[c].job \notin Stream
     /\ Goes(a, IF b * SrcBlk >= SrcLen THEN Return(io, a, c, "ENOIODATA")
                ELSE Pour(io, a, c, FileBlock(b)))

\* A line was typed, or an empty one ended by EOT.
GetLine(a) ==
  LET c == loc[a].ch
      j == io.chn[c].job
  IN /\ NotSpinning /\ loc[a].pc = "src" /\ j \in Stream
     /\ io.lines[j] < MaxInput /\ io.chn[c].blk_from <= MaxFrom
     /\ \E n \in {io.lines[j], io.lines[j] + 1} :
           Goes(a, Pour([io EXCEPT !.lines[j] = n], a, c, Bytes(io.lines[j] + 1, n)))

\* bref() of the destination.
GetDst(a) ==
  LET c == loc[a].ch
  IN /\ NotSpinning /\ loc[a].pc = "dst"
     /\ Goes(a, Pour([io EXCEPT !.chn[c].rest = DstBlk], a, c, loc[a].data))

\* Either of them fails; the source buffer, if any, is released.
NoBuffer(a) ==
  /\ MemShort /\ NotSpinning /\ loc[a].pc \in {"src", "dst"}
  /\ Goes(a, Return(io, a, loc[a].ch, "ENOMEM"))

\* bread() of a pushed channel: it got a line, or no buffer.  The line stays
\* in the buffer, which is referenced for ever.
Pushed ==
  LET c == loc[Iod].ch
      j == io.chn[c].job
  IN /\ loc[Iod].pc = "push"
     /\ \/ /\ io.lines[j] < MaxInput
           /\ Goes(Iod, ProcessFrom([io EXCEPT !.lines[j] = @ + 1], io.next[c], loc[Iod].restart))
        \/ MemShort /\ Goes(Iod, Kill(ChnSleep(Verdict(io, c, "ENOMEM"), c), Iod, c))

\* The rest of iod_chn_kill.
CloseTo(a) ==
  /\ NotSpinning /\ loc[a].pc = "close_to"
  /\ Goes(a, [io |-> CloseEnd(io, a, loc[a].ch, "to"), loc |-> At("discard", loc[a].ch)])
Killed(a) ==
  /\ NotSpinning /\ loc[a].pc = "discard"
  /\ LET k == Discard(io, loc[a].ch)
     IN Goes(a, IF a = Iod THEN Restart(k) ELSE [io |-> k, loc |-> At("end", NULL)])

Wakes ==
  /\ loc[Iod].pc = "ready"
  /\ Goes(Iod, ProcessFrom(io, io.first["active"], FALSE))

-----------------------------------------------------------------------------
(* Commands and drivers.                                                   *)

\* "immediate": processes copy as the shell command io does, one at a time.
\* "shared": they do not wait for each other.  "background": the daemon
\* copies, for one channel at a time, destroyed only while it sleeps.
\* Only streams are pushed: the first block of a file is never waited for, so
\* that the daemon would never switch.
MayCreate(j, flags) ==
  /\ use # "shared" => io.live = {}
  /\ "push" \in flags => j \in Stream
  /\ IF use = "background" THEN "immediate" \notin flags
     ELSE flags = {"immediate", "autoclose"}

Wake == IF loc[Iod].pc = "asleep" THEN At("ready", NULL) ELSE loc[Iod]

\* One of the two entries in the daemon's table cannot be had.
NoHandles(k) == Cardinality(k.table) + 2 > TableSize

\* iod_chn_create; the checks, and what a failure leaves behind.
Refused(j, flags) == {"poll", "autoclose"} \subseteq flags
                     \/ ("poll" \in flags /\ j \notin Stream)
                     \/ io.last["unused"] = NULL
Opened(j, flags) ==
  LET c == io.last["unused"]
  IN [PoolAlloc(io) EXCEPT
        !.chn[c] = [job |-> j, flags |-> flags, blk_from |-> 0, dst |-> <<>>, rest |-> 0],
        !.polling = IF flags \cap {"poll", "push"} # {} THEN @ + 1 ELSE @]
Activated(k, c) == [DequeuePush(k, "active", c) EXCEPT !.chn[c].flags = @ \cup {"active"}]

Create(j, flags) ==
  LET c == io.last["unused"]
      k == Opened(j, flags)
      r == [Activated(k, c) EXCEPT !.st[j] = "copying"]
      own == {<<j, e>> : e \in Ends}
  IN /\ NotSpinning /\ loc[j].pc = "start" /\ MayCreate(j, flags)
     /\ \/ /\ Refused(j, flags)
           /\ Goes(j, [io |-> io, loc |-> At("end", NULL)])
        \/ /\ ~Refused(j, flags) /\ "immediate" \in flags
           /\ Goes(j, Copy(r, c))
        \/ /\ ~Refused(j, flags) /\ "immediate" \notin flags /\ NoHandles(io)
           /\ Goes(j, [io |-> PoolFree(k, c), loc |-> At("end", NULL)])
        \/ /\ ~Refused(j, flags) /\ "immediate" \notin flags /\ ~NoHandles(io)
           /\ io' = [r EXCEPT !.table = @ \cup own, !.refs = @ \cup own]
           /\ loc' = [loc EXCEPT ![j] = At("end", c), ![Iod] = Wake]
           /\ UNCHANGED use

\* IODCMD_DESTROY
Destroy(j) ==
  LET c == loc[j].ch
  IN /\ NotSpinning /\ loc[j].pc = "end" /\ c \in io.live
     /\ io.chn[c].job = j /\ ~Has(io, c, "active") /\ loc[Iod].ch # c
     /\ Goes(j, Kill(io, j, c))

\* A driver has data for a channel, and tells the daemon (iod_intr_cont).  Nothing
\* in the repository calls iod_chn_wakeup; a driver that does is taken to leave
\* alone a channel that is being served or killed.
DriverWakes(c) ==
  /\ NotSpinning /\ c \in io.live /\ ~Has(io, c, "active")
  /\ io.chn[c].blk_from < MaxFrom /\ \A a \in Actor : loc[a].pc # "end" => loc[a].ch # c
  /\ io' = ChnWakeup(io, c) /\ UNCHANGED <<loc, use>>
IntrCont ==
  /\ loc[Iod].pc = "asleep" /\ io.first["active"] # NULL
  /\ loc' = [loc EXCEPT ![Iod] = Wake] /\ UNCHANGED <<io, use>>

Step(a) == GetFile(a) \/ GetDst(a) \/ CloseTo(a) \/ Killed(a)

Next ==
  \/ \E a \in Actor : GetFile(a) \/ GetLine(a) \/ GetDst(a) \/ NoBuffer(a) \/ CloseTo(a) \/ Killed(a)
  \/ Pushed \/ Wakes \/ IntrCont
  \/ \E j \in Client : Destroy(j) \/ \E flags \in SUBSET Settable : Create(j, flags)
  \/ \E c \in Chn : DriverWakes(c)

Spec == Init /\ [][Next]_vars /\ (\A a \in Actor : WF_vars(Step(a))) /\ WF_vars(Wakes)
=============================================================================
