------------------------------- MODULE Streams -------------------------------
(***************************************************************************)
(* A terminal's stream: the stream head (sys/streamio.c), the queues and    *)
(* their scheduling (dev/stream.c), the line discipline ttyld in CBREAK     *)
(* mode without echo (dev/ttyld.c) and the driver of a DZ line (dev/dz.c).  *)
(*                                                                         *)
(*    processes   stread  stwrite  stioctl  stopen  stclose                 *)
(*       head     rd  <- strput           wrq -> stwsrv                     *)
(*       ttyld    ldr -> ttyinsrv         ldw -> ttyosrv    (may be popped) *)
(*       dz       interrupts              dzw -> dzstart                    *)
(*                                                                         *)
(* Three levels run: interrupts of the line, at any moment; queuerun, the   *)
(* software interrupt, which runs the service procedures of the enabled     *)
(* queues; and processes, which run only when no queue is enabled.          *)
(* A block stands for a full one, so that putq never appends to the last.   *)
(***************************************************************************)
EXTENDS Naturals, Sequences, FiniteSets

CONSTANTS
  Proc, NoProc,
  Mixes,        \* the calls the processes make on their files: [Proc -> SUBSET Call]s
  Limit, Low,   \* the high and low water marks of each queue, in blocks
  MaxWrites,    \* bound: blocks written
  MaxTimers,    \* bound: callouts of the line pending at once
  MaxControls   \* bound: ioctls on their way down at once

QueueName == {"rd", "wrq", "ldr", "ldw", "dzw"}
Served == {"wrq", "ldr", "ldw"}     \* those whose qinfo has a srvp

ASSUME StreamsAssumption ==
  /\ IsFiniteSet(Proc) /\ NoProc \notin Proc
  /\ Mixes \subseteq [Proc -> SUBSET {"read", "write", "ioctl", "push", "pop", "close"}]
  /\ Limit \in [QueueName -> Nat \ {0}] /\ Low \in [QueueName -> Nat]
  /\ \A n \in QueueName: Low[n] < Limit[n]
  /\ MaxWrites \in Nat /\ MaxTimers \in Nat /\ MaxControls \in Nat

VARIABLES
  k,       \* the data all levels share: head, queues, modules, line, sleepers
  pc, nc,  \* where each process is in its call, what it has moved so far
  srv,     \* the service procedure that runs, the block it holds
  written, sent,  \* ghosts: blocks written, and transmitted
  calls           \* the mix in use

vars == <<k, pc, nc, srv, written, sent, calls>>

NoBlock == [type |-> "none", n |-> 0]
Block == {NoBlock} \cup [type: {"DATA"}, n: 0..MaxWrites] \cup [type: {"IOCTL"}, n: Proc]
           \cup [type: {"DELIM", "DELAY", "CTL"}, n: {0}]
Char == [type |-> "DATA", n |-> 0]
EmptyQueue == [items |-> <<>>, flag |-> {}]
NewQueue == [items |-> <<>>, flag |-> {"QWANTR"}]

\* The shared data: head (i_sptr and the stdata), q and run (the queues, the
\* list of the enabled ones), ld (ttyld and TTSTOP), dz, chan (what a process
\* sleeps on), file (each process's file), lost (ghost: blocks thrown away).
Shared ==
  [head: [open: BOOLEAN, flag: SUBSET {"IOCWAIT", "RSLEEP", "WSLEEP", "HUNGUP", "STWOPEN"},
          iocblk: Proc \cup {NoProc}, count: 0..Cardinality(Proc)],
   q: [QueueName -> [items: Seq(Block \ {NoBlock}),
                     flag: SUBSET {"QENAB", "QWANTR", "QWANTW", "QFULL"}]],
   run: Seq(Served),
   ld: [on: BOOLEAN, stop: BOOLEAN],
   dz: [state: SUBSET {"ISOPEN", "DZSTOP", "TIMEOUT"}, carrier: BOOLEAN,
        oblock: 0..MaxWrites, timers: 0..MaxTimers],
   chan: [Proc -> {"awake", "rd", "wrq", "stp", "dzp"}],
   file: [Proc -> {"none", "open", "nowrite", "dead"}],
   lost: SUBSET (1..MaxWrites)]

Inner == {"opening", "reopen", "read", "copy", "write", "fill",
          "copyin", "iocget", "iocsent", "iocwait"}
TypeOK ==
  /\ k \in Shared /\ calls \in Mixes /\ sent \in SUBSET (1..MaxWrites) /\ written \in 0..MaxWrites
  /\ pc \in [Proc -> Inner \cup {"idle", "drain"}] /\ nc \in [Proc -> 0..1]
  /\ srv \in [q: {"none", "ldr", "ldw"}, b: Block, full: BOOLEAN]
  /\ \A n \in QueueName: Len(k.q[n].items) <= Limit[n] + 2 * MaxControls + 2

NoService == [q |-> "none", b |-> NoBlock, full |-> FALSE]
Init ==
  /\ k = [head |-> [open |-> FALSE, flag |-> {}, iocblk |-> NoProc, count |-> 0],
          q |-> [n \in QueueName |-> EmptyQueue], run |-> <<>>,
          ld |-> [on |-> FALSE, stop |-> FALSE],
          dz |-> [state |-> {}, carrier |-> TRUE, oblock |-> 0, timers |-> 0],
          chan |-> [p \in Proc |-> "awake"], file |-> [p \in Proc |-> "none"],
          lost |-> {}]
  /\ pc = [p \in Proc |-> "idle"] /\ nc = [p \in Proc |-> 0]
  /\ srv = NoService /\ written = 0 /\ sent = {} /\ calls \in Mixes

-----------------------------------------------------------------------------
(* Queues (dev/stream.c).  A block and queue operation maps the shared data. *)

Numbers(s) == {s[i].n: i \in {j \in 1..Len(s): s[j].type = "DATA" /\ s[j].n # 0}}
Has(s, n, flag) == flag \in s.q[n].flag
Wakeup(s, c) == [s EXCEPT !.chan = [p \in Proc |-> IF @[p] = c THEN "awake" ELSE @[p]]]

Qenable(s, n) ==
  IF n \notin Served \/ Has(s, n, "QENAB") THEN s
  ELSE [s EXCEPT !.q[n].flag = @ \cup {"QENAB"}, !.run = Append(@, n)]

\* The queue that feeds n: backq.  The line's read queue has no service procedure.
Backq(s, n) == CASE n = "dzw" -> IF s.ld.on THEN "ldw" ELSE "wrq"
                 [] n = "ldw" -> "wrq"
                 [] n = "rd" /\ s.ld.on -> "ldr"
                 [] OTHER -> "dzr"

Put(s, n, items) ==
  LET full == IF Len(items) >= Limit[n] THEN {"QFULL", "QWANTW"} ELSE {}
      s1 == [s EXCEPT !.q[n] = [items |-> items, flag |-> @.flag \cup full]]
  IN IF Has(s, n, "QWANTR") THEN Qenable(s1, n) ELSE s1
Putq(s, n, b) == Put(s, n, Append(s.q[n].items, b))
Putbq(s, n, b) == Put(s, n, <<b>> \o s.q[n].items)

\* The data after getq has left these items in the queue, and has set and
\* cleared these flags; it tells the queue behind when few are left.
Left(s, n, items, set, cleared) ==
  LET old == s.q[n].flag
      relieved == Len(items) <= Low[n] /\ "QWANTW" \in old
      room == IF Len(items) < Limit[n] THEN {"QFULL"} ELSE {}
      told == IF relieved THEN {"QWANTW"} ELSE {}
      s1 == [s EXCEPT !.q[n] = [items |-> items,
                                flag |-> (old \cup set) \ (cleared \cup room \cup told)]]
  IN IF relieved THEN Qenable(s1, Backq(s, n)) ELSE s1

\* The data after getq has found nothing, or has taken the first j blocks,
\* one after the other.
GetNone(s, n) == Left(s, n, <<>>, IF Has(s, n, "QENAB") THEN {} ELSE {"QWANTR"}, {})
GetFirst(s, n, j) ==
  LET old == s.q[n].items
  IN IF j = 0 THEN s ELSE Left(s, n, SubSeq(old, j + 1, Len(old)), {}, {"QWANTR"})
Getq(s, n) == IF s.q[n].items = <<>> THEN GetNone(s, n) ELSE GetFirst(s, n, 1)

\* What flushq keeps when it is not told to take all, in its order (the j-th is
\* the one with j ioctls up to it); the rest is lost.
Ioctls(items) ==
  LET at == {i \in 1..Len(items): items[i].type = "IOCTL"}
  IN [j \in 1..Cardinality(at) |->
        items[CHOOSE i \in at: Cardinality({h \in at: h <= i}) = j]]

Emptied(s, n, cleared) ==
  LET old == s.q[n]
  IN [s EXCEPT !.q[n] = [items |-> <<>>, flag |-> old.flag \ cleared],
               !.lost = s.lost \cup Numbers(old.items)]
PutBack(s, n, kept) == IF kept = <<>> THEN s ELSE Put(s, n, kept)
Kept(s, n, all) == IF all THEN <<>> ELSE Ioctls(s.q[n].items)

\* Mutant: who waits for the queue to drain is not told that it was flushed.
FlushqQuiet(s, n, all) == PutBack(Emptied(s, n, {"QFULL", "QWANTW"}), n, Kept(s, n, all))
Flushq(s, n, all) ==
  LET s1 == PutBack(Emptied(s, n, {"QFULL"}), n, Kept(s, n, all))
  IN IF ~Has(s1, n, "QWANTW") THEN s1
     ELSE Qenable([s1 EXCEPT !.q[n].flag = @ \ {"QWANTW"}], Backq(s, n))

-----------------------------------------------------------------------------
(* The head from below: strput (streamio.c).                                *)

Hungup(s) == "HUNGUP" \in s.head.flag

\* forceclose: the files of the stream lose the right to write, or all rights.
Forceclose(s, state) ==
  [s EXCEPT !.file = [p \in Proc |-> IF @[p] \in {"open", "nowrite"} THEN state ELSE @[p]]]

\* Blocks of data, one after the other.
StrputAll(s, blocks) ==
  LET s1 == Put(s, "rd", s.q["rd"].items \o blocks)
  IN IF "RSLEEP" \notin s.head.flag THEN s1
     ELSE Wakeup([s1 EXCEPT !.head.flag = @ \ {"RSLEEP"}], "rd")
StrputData(s, b) == StrputAll(s, <<b>>)

\* Mutant: the writers are not told.
StrputHangupDeaf(s) ==
  LET s1 == Forceclose([s EXCEPT !.head.flag = @ \cup {"HUNGUP"}], "nowrite")
  IN Wakeup(Wakeup(s1, "rd"), "stp")
StrputHangup(s) ==
  LET s1 == Forceclose([s EXCEPT !.head.flag = @ \cup {"HUNGUP"}], "nowrite")
  IN Wakeup(Wakeup(Wakeup(s1, "rd"), "wrq"), "stp")

\* M_IOCACK for p; an answer nobody waits for is freed.
StrputAck(s, p) ==
  IF "IOCWAIT" \notin s.head.flag \/ s.head.iocblk # NoProc THEN s
  ELSE Wakeup([s EXCEPT !.head.iocblk = p], "stp")

-----------------------------------------------------------------------------
(* The line: dzstart, dzoput (dz.c).                                        *)

\* dzstart takes the M_CTLs at the front of the queue, and one block more.
CtlsInFront(items) == CHOOSE j \in 0..Len(items):
  /\ \A i \in 1..j: items[i].type = "CTL"
  /\ j < Len(items) => items[j + 1].type # "CTL"
Dzstart(s) ==
  LET s0 == GetFirst(s, "dzw", CtlsInFront(s.q["dzw"].items))
      items == s0.q["dzw"].items
      s1 == Getq(s0, "dzw")
  IN IF s.dz.state \cap {"TIMEOUT", "DZSTOP"} # {} \/ s.dz.oblock # 0
          \/ "ISOPEN" \notin s.dz.state THEN s
     ELSE IF items = <<>> THEN s1
     ELSE CASE Head(items).type = "DATA" -> [s1 EXCEPT !.dz.oblock = Head(items).n]
            [] Head(items).type = "DELAY" ->
                 [s1 EXCEPT !.dz.state = @ \cup {"TIMEOUT"}, !.dz.timers = @ + 1]
            [] OTHER -> s1

\* TIOCSETP: the answer goes up before the line has changed its parameters.
DzIoctl(s, p) ==
  LET s1 == Putq(StrputAck(s, p), "dzw", [type |-> "DELAY", n |-> 0])
  IN Dzstart(Putq(s1, "dzw", [type |-> "CTL", n |-> 0]))

Dzoput(s, b) == CASE b.type = "DATA" -> Dzstart(Putq(s, "dzw", b))
                  [] b.type = "IOCTL" -> DzIoctl(s, b.n)
                  [] OTHER -> s

\* Mutant: the block in transmission goes behind what waits.
DzStopBehind(s) ==
  LET s1 == [s EXCEPT !.dz.state = @ \cup {"DZSTOP"}, !.dz.oblock = 0]
  IN IF s.dz.oblock = 0 THEN s1 ELSE Putq(s1, "dzw", [type |-> "DATA", n |-> s.dz.oblock])
\* M_STOP: what is left of the block in transmission goes back to the queue.
DzStop(s) ==
  LET s1 == [s EXCEPT !.dz.state = @ \cup {"DZSTOP"}, !.dz.oblock = 0]
  IN IF s.dz.oblock = 0 THEN s1 ELSE Putbq(s1, "dzw", [type |-> "DATA", n |-> s.dz.oblock])
DzStart(s) == Dzstart([s EXCEPT !.dz.state = @ \ {"DZSTOP"}])
DzFlush(s) ==
  LET s1 == Flushq(s, "dzw", TRUE)
  IN [s1 EXCEPT !.dz.oblock = 0, !.lost = @ \cup ({s.dz.oblock} \ {0})]

\* putp of the queue below the head.
Down(s, b) == IF s.ld.on THEN Putq(s, "ldw", b) ELSE Dzoput(s, b)
Next2(s) == IF s.ld.on THEN "ldw" ELSE "dzw"

-----------------------------------------------------------------------------
(* ttyld in CBREAK mode: ttyldin, ttysig, ttldioc (ttyld.c).                *)

Restart(s) == IF s.ld.stop THEN DzStart([s EXCEPT !.ld.stop = FALSE]) ELSE s

TtyChar(s) ==
  LET s1 == Restart(s)
  IN IF ~Has(s1, "rd", "QFULL") /\ s1.q["ldr"].items = <<>> THEN StrputData(s1, Char)
     ELSE Putq(s1, "ldr", Char)

TtyStop(s) == IF s.ld.stop THEN s ELSE DzStop([s EXCEPT !.ld.stop = TRUE])

\* The interrupt character: flush both ways, M_FLUSH and M_SIGNAL up, M_FLUSH down.
TtySig(s) ==
  LET s1 == Flushq(Flushq(Restart(s), "ldr", FALSE), "ldw", FALSE)
  IN DzFlush(Flushq(s1, "rd", FALSE))

\* TIOCSETP hands what was typed to the head, unless that is full, and goes down.
Ttldioc(s, b) ==
  LET typed == s.q["ldr"].items
      s1 == IF typed = <<>> THEN s ELSE StrputAll(GetFirst(s, "ldr", Len(typed)), typed)
      s2 == IF Has(s, "rd", "QFULL") THEN s ELSE Getq(s1, "ldr")
  IN Dzoput(s2, b)

-----------------------------------------------------------------------------
(* Leaving and closing a stream: stexit, stclose, qdetach (streamio.c).     *)

Detach(s, names) ==
  [s EXCEPT !.q = [n \in QueueName |-> IF n \in names THEN EmptyQueue ELSE @[n]],
            !.run = SelectSeq(@, LAMBDA n: n \notin names)]

DetachLd(s) ==
  LET s1 == Flushq(Flushq(s, "ldr", TRUE), "ldw", TRUE)
  IN Detach([s1 EXCEPT !.ld = [on |-> FALSE, stop |-> FALSE]], {"ldr", "ldw"})
\* dzclose: the block in transmission is dropped; a callout stays pending.
DetachDz(s) ==
  LET s1 == Flushq(s, "dzw", TRUE)
  IN Detach([s1 EXCEPT !.dz.oblock = 0, !.dz.state = {},
                       !.lost = @ \cup ({s.dz.oblock} \ {0})], {"dzw"})
FreeStream(s) == Detach(s, {"rd", "wrq"})

\* stclose of a stream that has hung up waits for nothing.
StcloseHungup(s) ==
  LET s1 == [Forceclose(s, "dead") EXCEPT !.head.open = FALSE]
      s2 == IF s1.ld.on THEN DetachLd(s1) ELSE s1
  IN FreeStream(DetachDz(s2))

Stenter(s) == [s EXCEPT !.head.count = @ + 1]
\* Mutant: the first process to leave a hung up stream shuts it down.
StexitEager(s) ==
  LET s1 == [s EXCEPT !.head.count = @ - 1]
  IN IF Hungup(s) /\ s.q["rd"].items = <<>> THEN StcloseHungup(s1) ELSE s1
Stexit(s) ==
  LET s1 == [s EXCEPT !.head.count = @ - 1]
  IN IF s1.head.count = 0 /\ Hungup(s) /\ s.q["rd"].items = <<>> THEN StcloseHungup(s1)
     ELSE s1

-----------------------------------------------------------------------------
(* Processes.                                                               *)

Free == srv.q = "none" /\ k.run = <<>>      \* no software interrupt is pending
At(p, where) == Free /\ pc[p] = where /\ k.chan[p] = "awake"
Sleep(s, p, c) == [s EXCEPT !.chan[p] = c]
Step(p, s, where) == /\ k' = s
                     /\ pc' = [pc EXCEPT ![p] = where]
Leave(p, s) == /\ Step(p, Stexit(s), "idle")
               /\ nc' = [nc EXCEPT ![p] = 0]
               /\ UNCHANGED <<srv, written, sent, calls>>
Keep == UNCHANGED <<nc, srv, written, sent, calls>>

\* The closing process holds the inode, and namei waits for it.
Unlocked == \A q \in Proc: pc[q] # "drain"

\* stopen of a stream that is not open: a new head, the line below it.
OpenNew(p) ==
  /\ At(p, "idle") /\ k.file[p] = "none" /\ ~k.head.open /\ Unlocked
  /\ Step(p, [k EXCEPT
       !.head = [open |-> TRUE, flag |-> {"STWOPEN"}, iocblk |-> NoProc, count |-> 1],
       !.q = [n \in QueueName |-> CASE n = "dzw" -> NewQueue [] OTHER -> EmptyQueue],
       !.file[p] = "open"], "opening")
  /\ Keep

\* dzopen waits for the carrier.
Dzopen(p) ==
  /\ At(p, "opening")
  /\ k.dz.timers < MaxTimers   \* bound: callouts left by earlier opens
  /\ IF ~k.dz.carrier THEN Step(p, Sleep(k, p, "dzp"), "opening") /\ Keep
     ELSE Leave(p, Wakeup([k EXCEPT !.dz.state = @ \cup {"ISOPEN"},
                                    !.head.flag = @ \ {"STWOPEN"}], "stp"))
\* A signal ends the wait: the open fails.
DzopenFails(p) ==
  /\ Free /\ pc[p] = "opening" /\ k.chan[p] = "dzp"
  /\ LET s1 == Wakeup(Sleep(k, p, "awake"), "stp")
     IN Leave(p, [s1 EXCEPT !.head.flag = (@ \ {"STWOPEN"}) \cup {"HUNGUP"},
                            !.file[p] = "none"])

\* stopen of a stream that is open, or being opened.
OpenOld(p) ==
  /\ At(p, "idle") /\ k.file[p] = "none" /\ k.head.open
  /\ Step(p, [Stenter(k) EXCEPT !.file[p] = "open"], "reopen")
  /\ Keep
Reopen(p) ==
  /\ At(p, "reopen")
  /\ IF "STWOPEN" \in k.head.flag THEN Step(p, Sleep(k, p, "stp"), "reopen") /\ Keep
     ELSE IF Hungup(k)
       THEN Leave(p, [Flushq(k, "rd", FALSE) EXCEPT !.file[p] = "none"])
       ELSE Leave(p, k)

\* read and ioctl of a file that has hung up find the stream, write does not.
Enter(p, call, files, where) ==
  /\ At(p, "idle") /\ call \in calls[p] /\ k.file[p] \in files /\ k.head.open
  /\ Step(p, Stenter(k), where)
  /\ Keep
Read(p) == Enter(p, "read", {"open", "nowrite"}, "read")

\* One turn of stread's loop; a block is taken whole, or in part and put back.
Stread(p) ==
  /\ At(p, "read")
  /\ \/ /\ k.q["rd"].items = <<>>
        /\ IF nc[p] = 1 \/ Hungup(k) THEN Leave(p, Getq(k, "rd"))
           ELSE /\ Step(p, Sleep([Getq(k, "rd") EXCEPT !.head.flag = @ \cup {"RSLEEP"}],
                                 p, "rd"), "read")
                /\ Keep
     \/ /\ k.q["rd"].items # <<>> /\ nc[p] = 1
        /\ Leave(p, Putbq(Getq(k, "rd"), "rd", Char))
     \/ /\ k.q["rd"].items # <<>> /\ nc[p] = 0
        /\ Step(p, Getq(k, "rd"), "copy")
        /\ nc' = [nc EXCEPT ![p] = 1]
        /\ UNCHANGED <<srv, written, sent, calls>>
\* iomove, which may sleep for a page, and what follows it.
StreadCopied(p) ==
  /\ At(p, "copy")
  /\ \/ Step(p, k, "read") /\ Keep
     \/ Leave(p, Putbq(k, "rd", Char))

Write(p) == written < MaxWrites /\ Enter(p, "write", {"open"}, "write")

\* One turn of stwrite's loop.  Nothing is left when nc is 1.
Stwrite(p) ==
  /\ At(p, "write")
  /\ IF Hungup(k) THEN Leave(p, k)
     ELSE IF Has(k, Next2(k), "QFULL")
       THEN Step(p, Sleep([k EXCEPT !.head.flag = @ \cup {"WSLEEP"}], p, "wrq"), "write") /\ Keep
     ELSE IF nc[p] = 1 THEN Leave(p, Down(k, [type |-> "DELIM", n |-> 0]))
     ELSE Step(p, k, "fill") /\ Keep
StwriteFilled(p) ==
  /\ At(p, "fill") /\ written < MaxWrites
  /\ written' = written + 1
  /\ Step(p, Down(k, [type |-> "DATA", n |-> written + 1]), "write")
  /\ nc' = [nc EXCEPT ![p] = 1]
  /\ UNCHANGED <<srv, sent, calls>>

\* Bound: ioctls on their way, and delays queued by those that were answered.
Controls == Cardinality({p \in Proc: pc[p] \in {"copyin", "iocget"}})
  + Len(SelectSeq(k.q["ldw"].items \o k.q["dzw"].items,
                  LAMBDA b: b.type \in {"IOCTL", "DELAY"}))

\* stioctl up to the copy of the argument, which may sleep for a page.
Ioctl(p) ==
  /\ At(p, "idle") /\ "ioctl" \in calls[p] /\ k.file[p] \in {"open", "nowrite"}
  /\ k.head.open /\ Controls < MaxControls
  /\ IF Hungup(k) THEN Leave(p, Stenter(k)) ELSE Step(p, Stenter(k), "copyin") /\ Keep
\* Mutant: the ioctl is sent though another one is on its way.
StioctlSendNow(p) ==
  /\ At(p, "copyin") \/ At(p, "iocget")
  /\ IF pc[p] = "iocget" /\ Hungup(k) THEN Leave(p, k)
     ELSE /\ Step(p, Down([k EXCEPT !.head.flag = @ \cup {"IOCWAIT"}],
                          [type |-> "IOCTL", n |-> p]), "iocsent")
          /\ Keep
\* while (IOCWAIT) tsleep; then the ioctl is sent.
StioctlSend(p) ==
  /\ At(p, "copyin") \/ At(p, "iocget")
  /\ IF pc[p] = "iocget" /\ Hungup(k) THEN Leave(p, k)
     ELSE IF "IOCWAIT" \in k.head.flag THEN Step(p, Sleep(k, p, "stp"), "iocget") /\ Keep
     ELSE /\ Step(p, Down([k EXCEPT !.head.flag = @ \cup {"IOCWAIT"}],
                          [type |-> "IOCTL", n |-> p]), "iocsent")
          /\ Keep
IoctlOver(s) == [s EXCEPT !.head.iocblk = NoProc, !.head.flag = @ \ {"IOCWAIT"}]
StioctlWait(p) ==
  /\ At(p, "iocsent") \/ At(p, "iocwait")
  /\ IF pc[p] = "iocwait" /\ Hungup(k) THEN Leave(p, IoctlOver(k))
     ELSE IF k.head.iocblk = NoProc THEN Step(p, Sleep(k, p, "stp"), "iocwait") /\ Keep
     ELSE Leave(p, Wakeup(IoctlOver(k), "stp"))

\* tsleep returns TS_SIG, or TS_TIME in the wait for an answer.
Interrupted(p) ==
  /\ Free /\ k.chan[p] # "awake" /\ pc[p] # "opening"
  /\ LET s == Sleep(k, p, "awake")
     IN Leave(p, CASE pc[p] = "iocwait" -> IoctlOver(s)
                   [] pc[p] = "reopen" -> [s EXCEPT !.file[p] = "none"]
                   [] OTHER -> s)

\* FIOPUSHLD and FIOPOPLD of ttyld.
Push(p) ==
  /\ At(p, "idle") /\ "push" \in calls[p] /\ k.file[p] = "open" /\ k.head.open
  /\ ~Hungup(k) /\ ~k.ld.on
  /\ Step(p, [k EXCEPT !.ld = [on |-> TRUE, stop |-> FALSE], !.q["ldr"] = NewQueue,
                       !.q["ldw"] = NewQueue], "idle")
  /\ Keep
Pop(p) ==
  /\ At(p, "idle") /\ "pop" \in calls[p] /\ k.file[p] = "open" /\ k.head.open
  /\ ~Hungup(k) /\ k.ld.on
  /\ Step(p, DetachLd(k), "idle")
  /\ Keep

\* closef: the last file of the inode closes the stream.
Close(p) ==
  /\ At(p, "idle") /\ "close" \in calls[p] /\ k.file[p] # "none" /\ Unlocked
  /\ LET s == [k EXCEPT !.file[p] = "none"]
         last == \A q \in Proc \ {p}: k.file[q] = "none"
     IN IF k.head.open /\ last /\ k.head.count = 0
          THEN Step(p, [s EXCEPT !.head.open = FALSE], "drain")
          ELSE Step(p, s, "idle")
  /\ Keep
\* stclose waits for each queue, 60 seconds at most, and detaches it.
Drain(p) ==
  /\ At(p, "drain")
  /\ IF k.ld.on THEN Step(p, DetachLd(k), "drain")
     ELSE Step(p, FreeStream(DetachDz(k)), "idle")
  /\ Keep

-----------------------------------------------------------------------------
(* queuerun (stream.c) and the service procedures.                          *)

\* The next enabled queue; stwsrv wakes the writers at once.
Queuerun ==
  /\ srv.q = "none" /\ k.run # <<>>
  /\ LET n == Head(k.run)
         s == [k EXCEPT !.run = Tail(@), !.q[n].flag = @ \ {"QENAB"}]
     IN IF n = "wrq"
          THEN /\ k' = IF "WSLEEP" \notin s.head.flag THEN s
                       ELSE Wakeup([s EXCEPT !.head.flag = @ \ {"WSLEEP"}], "wrq")
               /\ UNCHANGED srv
          ELSE /\ srv' = [NoService EXCEPT !.q = n]
               /\ k' = s
  /\ UNCHANGED <<pc, nc, written, sent, calls>>

\* ttyosrv takes a block and looks whether the line's queue is full ...
TtyosrvGet ==
  /\ srv.q = "ldw" /\ srv.b = NoBlock
  /\ LET items == k.q["ldw"].items
     IN srv' = IF items = <<>> THEN NoService
               ELSE [srv EXCEPT !.b = Head(items), !.full = Has(k, "dzw", "QFULL")]
  /\ k' = Getq(k, "ldw")
  /\ UNCHANGED <<pc, nc, written, sent, calls>>
\* ... and puts it back, or passes it on.
TtyosrvPut ==
  /\ srv.q = "ldw" /\ srv.b # NoBlock
  /\ LET b == srv.b
     IN IF b.type = "DELIM" THEN k' = k /\ srv' = [srv EXCEPT !.b = NoBlock]
        ELSE IF srv.full THEN k' = Putbq(k, "ldw", b) /\ srv' = NoService
        ELSE /\ k' = IF b.type = "IOCTL" THEN Ttldioc(k, b) ELSE Dzoput(k, b)
             /\ srv' = [srv EXCEPT !.b = NoBlock]
  /\ UNCHANGED <<pc, nc, written, sent, calls>>

Ttyinsrv ==
  /\ srv.q = "ldr"
  /\ IF srv.b # NoBlock THEN k' = StrputData(k, srv.b) /\ srv' = [srv EXCEPT !.b = NoBlock]
     ELSE IF Has(k, "rd", "QFULL") THEN k' = k /\ srv' = NoService
     ELSE /\ k' = Getq(k, "ldr")
          /\ srv' = IF k.q["ldr"].items = <<>> THEN NoService
                    ELSE [srv EXCEPT !.b = Char]
  /\ UNCHANGED <<pc, nc, written, sent, calls>>

-----------------------------------------------------------------------------
(* Interrupts of the line: dzrint, dztint, dztimo, dzscan (dz.c).           *)

Line == k.dz.carrier /\ "ISOPEN" \in k.dz.state
Outside == UNCHANGED <<pc, nc, srv, written, calls>>

\* A character comes; it is dropped when the queue above is full.
TypeChar ==
  /\ Line
  /\ k' = IF k.ld.on THEN IF Has(k, "ldr", "QFULL") THEN k ELSE TtyChar(k)
          ELSE IF Has(k, "rd", "QFULL") THEN k ELSE StrputData(k, Char)
  /\ Outside /\ UNCHANGED sent
TypeStop == Line /\ k.ld.on /\ ~Has(k, "ldr", "QFULL") /\ k' = TtyStop(k)
              /\ Outside /\ UNCHANGED sent
TypeIntr == Line /\ k.ld.on /\ ~Has(k, "ldr", "QFULL") /\ k' = TtySig(k)
              /\ Outside /\ UNCHANGED sent

Dztint ==
  /\ k.dz.oblock # 0
  /\ sent' = sent \cup {k.dz.oblock}
  /\ k' = Dzstart([k EXCEPT !.dz.oblock = 0])
  /\ Outside
Dztimo ==
  /\ k.dz.timers > 0
  /\ k' = Dzstart([k EXCEPT !.dz.timers = @ - 1, !.dz.state = @ \ {"TIMEOUT"}])
  /\ Outside /\ UNCHANGED sent

CarrierLost ==
  /\ k.dz.carrier
  /\ LET s == [k EXCEPT !.dz.carrier = FALSE]
     IN k' = IF "ISOPEN" \in k.dz.state THEN StrputHangup(s) ELSE s
  /\ Outside /\ UNCHANGED sent
CarrierBack ==
  /\ ~k.dz.carrier
  /\ k' = Wakeup([k EXCEPT !.dz.carrier = TRUE], "dzp")
  /\ Outside /\ UNCHANGED sent

Call(p) == Read(p) \/ Write(p) \/ Ioctl(p) \/ Push(p) \/ Pop(p) \/ Close(p)
Continue(p) == \/ Dzopen(p) \/ Reopen(p) \/ Stread(p) \/ StreadCopied(p) \/ Stwrite(p)
               \/ StwriteFilled(p) \/ StioctlSend(p) \/ StioctlWait(p) \/ Drain(p)
Service == Queuerun \/ TtyosrvGet \/ TtyosrvPut \/ Ttyinsrv
Interrupt == TypeChar \/ TypeStop \/ TypeIntr \/ Dztint \/ Dztimo \/ CarrierLost \/ CarrierBack

Next == \/ \E p \in Proc: \/ Call(p) \/ Continue(p) \/ OpenNew(p) \/ OpenOld(p)
                          \/ DzopenFails(p) \/ Interrupted(p)
        \/ Service \/ Interrupt
Spec == Init /\ [][Next]_vars

-----------------------------------------------------------------------------
(* Properties.                                                              *)

Inside == {p \in Proc: pc[p] \in Inner}

\* A stream is not shut down while a process is in its routines, and count is
\* how many there are (stenter, stexit, stclose; streamio.c:872).  A file made
\* before a hangup never reaches the stream that is opened after it: it can
\* write only to a stream that has not hung up, and what it may still read or
\* control is the stream that has (forceclose).
StreamKept ==
  /\ k.head.open => k.head.count = Cardinality(Inside)
  /\ Inside # {} => k.head.open
  /\ \A p \in Proc:
       /\ k.file[p] = "nowrite" => k.head.open /\ Hungup(k)
       /\ k.file[p] = "open" /\ pc[p] \notin {"opening", "reopen"} =>
            k.head.open /\ ~Hungup(k)

\* One ioctl at a time is on its way: IOCWAIT is set as long as a process
\* waits for its answer, and no answer is kept for a process that has gone.
OneIoctl ==
  LET holders == {p \in Proc: pc[p] \in {"iocsent", "iocwait"}}
  IN k.head.open => /\ Cardinality(holders) <= 1
                    /\ ("IOCWAIT" \in k.head.flag) <=> (holders # {})
                    /\ k.head.iocblk # NoProc => holders # {}

\* A process asleep in stread or stwrite will be woken: nothing is there to be
\* read, the stream has not hung up, and the flag that makes strput or stwsrv
\* wake it is set; a writer's queue below will enable stwsrv.
SleeperHeard ==
  /\ TypeOK
  /\ \A p \in Proc:
       /\ k.chan[p] = "rd" => /\ k.q["rd"].items = <<>> /\ "RSLEEP" \in k.head.flag
                              /\ ~Hungup(k)
       /\ k.chan[p] = "wrq" => /\ "WSLEEP" \in k.head.flag /\ ~Hungup(k)
                               /\ Has(k, "wrq", "QENAB") \/ Has(k, Next2(k), "QWANTW")

\* Nothing is stranded in a queue: its service procedure is enabled or runs, or
\* the full queue ahead will enable it; the line's queue waits for the block in
\* transmission, for a callout, or for the character that restarts output.
NotStranded ==
  /\ k.q["ldw"].items # <<>> => \/ Has(k, "ldw", "QENAB") \/ srv.q = "ldw"
                                \/ Has(k, "dzw", "QWANTW")
  /\ k.q["ldr"].items # <<>> => \/ Has(k, "ldr", "QENAB") \/ srv.q = "ldr"
                                \/ Has(k, "rd", "QWANTW")
  /\ \A n \in QueueName: Has(k, n, "QWANTW") => Len(k.q[n].items) > Low[n]
  /\ k.q["dzw"].items # <<>> => \/ k.dz.oblock # 0 \/ "DZSTOP" \in k.dz.state
                                \/ "TIMEOUT" \in k.dz.state /\ k.dz.timers > 0

\* What was written is on its way in the order it was written, behind all that
\* has been sent, and a block is missing only where a flush, a pop or a close
\* has thrown it away (putbq of ttyosrv and of M_STOP, outconv, dzstart).
OnTheWay ==
  LET held == IF srv.q = "ldw" /\ srv.b # NoBlock THEN <<srv.b>> ELSE <<>>
      line == IF k.dz.oblock = 0 THEN <<>> ELSE <<[type |-> "DATA", n |-> k.dz.oblock]>>
  IN line \o k.q["dzw"].items \o held \o k.q["ldw"].items
OutputKept ==
  LET way == OnTheWay
      data == {i \in 1..Len(way): way[i].type = "DATA"}
  IN /\ \A i, j \in data: i < j => way[i].n < way[j].n
     /\ \A i \in data, n \in sent: n < way[i].n
     /\ 1..written = sent \cup k.lost \cup Numbers(way)
=============================================================================
