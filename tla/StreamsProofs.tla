---------------------------- MODULE StreamsProofs ----------------------------
(***************************************************************************)
(* The stream head under opens, closes, hangups and ioctls, for any number *)
(* of processes, any calls, and queues of any size: a stream is not shut   *)
(* down under a process that is in it, a file never reaches a stream it    *)
(* was not opened on, and one ioctl at a time waits for its answer.        *)
(*                                                                         *)
(* All of this is about the head and the files.  The queues below, the     *)
(* line discipline and the line change neither, except that they wake      *)
(* sleepers and hand the head an answer that somebody waits for (Quiet).   *)
(***************************************************************************)
EXTENDS Streams, FiniteSetTheorems, TLAPS

-----------------------------------------------------------------------------
(* The inductive invariant                                                 *)

Place == Inner \cup {"idle", "drain"}
InsideOf(pcs) == {p \in Proc: pcs[p] \in Inner}
Holds(pcs, p) == pcs[p] \in {"iocsent", "iocwait"}

\* The parts of the shared data that the invariant is about.
Shape(s) ==
  /\ DOMAIN s = {"head", "q", "run", "ld", "dz", "chan", "file", "lost"}
  /\ DOMAIN s.head = {"open", "flag", "iocblk", "count"}
  /\ s.head.open \in BOOLEAN
  /\ s.chan \in [Proc -> {"awake", "rd", "wrq", "stp", "dzp"}]
  /\ s.file \in [Proc -> {"none", "open", "nowrite", "dead"}]

\* A file that may read or write is one of the stream as it is.  The process
\* that is still in stopen has not looked yet.
FilesFit(s, pcs) == \A p \in Proc:
  /\ s.file[p] = "nowrite" => s.head.open /\ Hungup(s)
  /\ s.file[p] = "open" /\ pcs[p] # "reopen" => s.head.open /\ ~Hungup(s)

\* While the line is being opened, everybody else who has a file waits.
OpenerAlone(s, pcs) == \A p \in Proc: pcs[p] = "opening" =>
  /\ "STWOPEN" \in s.head.flag
  /\ \A q \in Proc \ {p}: /\ pcs[q] # "opening"
                          /\ s.file[q] = "open" => pcs[q] = "reopen"

\* A process sleeps only inside the routines of the stream.
Asleep(s, pcs) == \A p \in Proc: s.chan[p] # "awake" =>
  pcs[p] \in {"opening", "reopen", "read", "write", "iocget", "iocwait"}

\* IOCWAIT belongs to one process, and an answer to it.
OneHolder(s, pcs) == s.head.open =>
  /\ \A p, q \in Proc: Holds(pcs, p) /\ Holds(pcs, q) => p = q
  /\ "IOCWAIT" \in s.head.flag <=> \E p \in Proc: Holds(pcs, p)
  /\ s.head.iocblk # NoProc => \E p \in Proc: Holds(pcs, p)

\* The invariant of a head s with the processes at pcs; n of those that count
\* says are inside have left.
Good(s, pcs, n) ==
  /\ Shape(s) /\ pcs \in [Proc -> Place]
  /\ s.head.open => s.head.count = Cardinality(InsideOf(pcs)) + n
  /\ \A p \in Proc: pcs[p] \in Inner => s.head.open
  /\ FilesFit(s, pcs)
  /\ OpenerAlone(s, pcs)
  /\ Asleep(s, pcs)
  /\ OneHolder(s, pcs)

SInv == Good(k, pc, 0)

-----------------------------------------------------------------------------
(* What the queues leave alone                                             *)

\* The head, the sleepers and the files are as they were.
Framed(s, t) == /\ DOMAIN t = DOMAIN s
                /\ t.head = s.head /\ t.chan = s.chan /\ t.file = s.file

\* Sleepers are woken, their flags reset, and an answer is handed to the head
\* when somebody waits for it.
Quiet(s, t) ==
  /\ Shape(t)
  /\ t.file = s.file /\ t.head.open = s.head.open /\ t.head.count = s.head.count
  /\ \A f \in {"IOCWAIT", "HUNGUP", "STWOPEN"}: f \in t.head.flag <=> f \in s.head.flag
  /\ t.head.iocblk = s.head.iocblk \/ "IOCWAIT" \in s.head.flag
  /\ \A p \in Proc: t.chan[p] \in {s.chan[p], "awake"}

\* A queue operation after another one.
LEMMA FramedOn ==
  ASSUME NEW s, NEW t, NEW v, Shape(s), Framed(s, t), Framed(t, v)
  PROVE  Framed(s, v)
BY DEF Framed

\* What is framed keeps its shape.
LEMMA FramedShape ==
  ASSUME NEW s, NEW t, Shape(s), Framed(s, t)
  PROVE  Shape(t)
BY DEF Framed, Shape

\* A queue operation is quiet.
LEMMA FramedQuiet ==
  ASSUME NEW s, NEW t, Shape(s), Framed(s, t)
  PROVE  Quiet(s, t)
BY FramedShape DEF Framed, Quiet, Shape

\* One quiet change after another.
LEMMA QuietOn ==
  ASSUME NEW s, NEW t, NEW v, Shape(s), Quiet(s, t), Quiet(t, v)
  PROVE  Quiet(s, v)
BY DEF Quiet

\* Enabling a queue.
LEMMA QenableFramed ==
  ASSUME NEW s, NEW n, Shape(s)
  PROVE  Framed(s, Qenable(s, n))
BY DEF Qenable, Framed, Shape

\* putq and putbq.
LEMMA PutFramed ==
  ASSUME NEW s, NEW n, NEW items, Shape(s)
  PROVE  Framed(s, Put(s, n, items))
<1> DEFINE full == IF Len(items) >= Limit[n] THEN {"QFULL", "QWANTW"} ELSE {}
           s1 == [s EXCEPT !.q[n] = [items |-> items, flag |-> @.flag \cup full]]
<1>1. Framed(s, s1)
  BY DEF Framed, Shape
<1>2. Put(s, n, items) \in {s1, Qenable(s1, n)}
  BY DEF Put
<1> HIDE DEF s1
<1>3. Framed(s1, Qenable(s1, n))
  BY <1>1, FramedShape, QenableFramed
<1> QED  BY <1>1, <1>2, <1>3, FramedOn

\* putq and putbq of one block.
LEMMA PutqFramed ==
  ASSUME NEW s, NEW n, NEW b, Shape(s)
  PROVE  Framed(s, Putq(s, n, b)) /\ Framed(s, Putbq(s, n, b))
BY PutFramed DEF Putq, Putbq

\* getq.
LEMMA LeftFramed ==
  ASSUME NEW s, NEW n, NEW items, NEW set, NEW cleared, Shape(s)
  PROVE  Framed(s, Left(s, n, items, set, cleared))
<1> DEFINE old == s.q[n].flag
           relieved == Len(items) <= Low[n] /\ "QWANTW" \in old
           room == IF Len(items) < Limit[n] THEN {"QFULL"} ELSE {}
           told == IF relieved THEN {"QWANTW"} ELSE {}
           s1 == [s EXCEPT !.q[n] = [items |-> items,
                             flag |-> (old \cup set) \ (cleared \cup room \cup told)]]
<1>1. Framed(s, s1)
  BY DEF Framed, Shape
<1>2. Left(s, n, items, set, cleared) \in {s1, Qenable(s1, Backq(s, n))}
  BY DEF Left
<1> HIDE DEF s1
<1>3. Framed(s1, Qenable(s1, Backq(s, n)))
  BY <1>1, FramedShape, QenableFramed
<1> QED  BY <1>1, <1>2, <1>3, FramedOn

\* getq, and several of them.
LEMMA GetqFramed ==
  ASSUME NEW s, NEW n, NEW j, Shape(s)
  PROVE  Framed(s, GetFirst(s, n, j)) /\ Framed(s, Getq(s, n))
<1>1. Framed(s, s)
  BY DEF Framed
<1> QED  BY <1>1, LeftFramed DEF GetFirst, GetNone, Getq

\* flushq.
LEMMA FlushqFramed ==
  ASSUME NEW s, NEW n, NEW all, Shape(s)
  PROVE  Framed(s, Flushq(s, n, all))
<1>1. PICK s0 : s0 = Emptied(s, n, {"QFULL"})
  OBVIOUS
<1>2. PICK kept : kept = Kept(s, n, all)
  OBVIOUS
<1>3. PICK s1 : s1 = PutBack(s0, n, kept)
  OBVIOUS
<1>4. PICK s2 : s2 = [s1 EXCEPT !.q[n].flag = @ \ {"QWANTW"}]
  OBVIOUS
<1>5. Flushq(s, n, all) \in {s1, Qenable(s2, Backq(s, n))}
  BY <1>1, <1>2, <1>3, <1>4 DEF Flushq
<1>6. Framed(s, s0) /\ Shape(s0)
  BY <1>1, FramedShape DEF Emptied, Framed, Shape
<1>7. Framed(s, s1) /\ Shape(s1)
  BY <1>3, <1>6, PutFramed, FramedOn, FramedShape DEF PutBack
<1>8. Framed(s, s2) /\ Shape(s2)
  BY <1>4, <1>7, FramedShape DEF Framed, Shape
<1> QED  BY <1>5, <1>7, <1>8, QenableFramed, FramedOn

\* dzstart.
LEMMA DzstartFramed ==
  ASSUME NEW s, Shape(s)
  PROVE  Framed(s, Dzstart(s))
<1> DEFINE s0 == GetFirst(s, "dzw", CtlsInFront(s.q["dzw"].items))
           s1 == Getq(s0, "dzw")
           head == Head(s0.q["dzw"].items)
<1>1. Framed(s, s0) /\ Shape(s0)
  BY GetqFramed, FramedShape
<1> HIDE DEF s0
<1>2. Framed(s, s1) /\ Shape(s1)
  BY <1>1, GetqFramed, FramedOn, FramedShape
<1> HIDE DEF s1
<1>3. Framed(s, [s1 EXCEPT !.dz.oblock = head.n])
      /\ Framed(s, [s1 EXCEPT !.dz.state = @ \cup {"TIMEOUT"}, !.dz.timers = @ + 1])
  BY <1>2 DEF Framed, Shape
<1>4. Framed(s, s)
  BY DEF Framed
<1> QED  BY <1>2, <1>3, <1>4 DEF Dzstart, s0, s1

\* M_STOP, M_START and M_FLUSH at the line.
LEMMA DzFramed ==
  ASSUME NEW s, Shape(s)
  PROVE  Framed(s, DzStop(s)) /\ Framed(s, DzStart(s)) /\ Framed(s, DzFlush(s))
<1>1. Framed(s, DzStop(s))
  <2> DEFINE s1 == [s EXCEPT !.dz.state = @ \cup {"DZSTOP"}, !.dz.oblock = 0]
             b == [type |-> "DATA", n |-> s.dz.oblock]
  <2>1. Framed(s, s1)
    BY DEF Framed, Shape
  <2>2. DzStop(s) \in {s1, Putbq(s1, "dzw", b)}
    BY DEF DzStop
  <2> HIDE DEF s1, b
  <2>3. Framed(s1, Putbq(s1, "dzw", b))
    BY <2>1, FramedShape, PutqFramed
  <2> QED  BY <2>1, <2>2, <2>3, FramedOn
<1>2. Framed(s, DzStart(s))
  <2> DEFINE s1 == [s EXCEPT !.dz.state = @ \ {"DZSTOP"}]
  <2>1. Framed(s, s1)
    BY DEF Framed, Shape
  <2>2. DzStart(s) = Dzstart(s1)
    BY DEF DzStart
  <2> HIDE DEF s1
  <2> QED  BY <2>1, <2>2, FramedShape, DzstartFramed, FramedOn
<1>3. Framed(s, DzFlush(s))
  <2>1. PICK s1 : s1 = Flushq(s, "dzw", TRUE)
    OBVIOUS
  <2>2. Framed(s, s1) /\ Shape(s1)
    BY <2>1, FlushqFramed, FramedShape
  <2>3. DzFlush(s) = [s1 EXCEPT !.dz.oblock = 0, !.lost = @ \cup ({s.dz.oblock} \ {0})]
    BY <2>1 DEF DzFlush
  <2> QED  BY <2>2, <2>3 DEF Framed, Shape
<1> QED  BY <1>1, <1>2, <1>3

\* Output that was stopped goes on.
LEMMA RestartFramed ==
  ASSUME NEW s, Shape(s)
  PROVE  Framed(s, Restart(s))
<1> DEFINE s1 == [s EXCEPT !.ld.stop = FALSE]
<1>1. Framed(s, s1)
  BY DEF Framed, Shape
<1>2. Restart(s) \in {s, DzStart(s1)}
  BY DEF Restart
<1> HIDE DEF s1
<1>3. Framed(s1, DzStart(s1))
  BY <1>1, FramedShape, DzFramed
<1>4. Framed(s, s)
  BY DEF Framed
<1> QED  BY <1>1, <1>2, <1>3, <1>4, FramedOn

\* The stop and the interrupt character.
LEMMA TtyFramed ==
  ASSUME NEW s, Shape(s)
  PROVE  Framed(s, TtyStop(s)) /\ Framed(s, TtySig(s))
<1>1. Framed(s, TtyStop(s))
  <2> DEFINE s1 == [s EXCEPT !.ld.stop = TRUE]
  <2>1. Framed(s, s1)
    BY DEF Framed, Shape
  <2>2. TtyStop(s) \in {s, DzStop(s1)}
    BY DEF TtyStop
  <2> HIDE DEF s1
  <2>3. Framed(s1, DzStop(s1))
    BY <2>1, FramedShape, DzFramed
  <2>4. Framed(s, s)
    BY DEF Framed
  <2> QED  BY <2>1, <2>2, <2>3, <2>4, FramedOn
<1>2. Framed(s, TtySig(s))
  <2>1. PICK s0 : s0 = Restart(s)
    OBVIOUS
  <2>2. PICK s1 : s1 = Flushq(s0, "ldr", FALSE)
    OBVIOUS
  <2>3. PICK s2 : s2 = Flushq(s1, "ldw", FALSE)
    OBVIOUS
  <2>4. PICK s3 : s3 = Flushq(s2, "rd", FALSE)
    OBVIOUS
  <2>5. TtySig(s) = DzFlush(s3)
    BY <2>1, <2>2, <2>3, <2>4 DEF TtySig
  <2>6. Framed(s, s0) /\ Shape(s0)
    BY <2>1, RestartFramed, FramedShape
  <2>7. Framed(s, s1) /\ Shape(s1)
    BY <2>2, <2>6, FlushqFramed, FramedOn, FramedShape
  <2>8. Framed(s, s2) /\ Shape(s2)
    BY <2>3, <2>7, FlushqFramed, FramedOn, FramedShape
  <2>9. Framed(s, s3) /\ Shape(s3)
    BY <2>4, <2>8, FlushqFramed, FramedOn, FramedShape
  <2> QED  BY <2>5, <2>9, DzFramed, FramedOn
<1> QED  BY <1>1, <1>2

\* Queues are taken off the stream.
LEMMA DetachFramed ==
  ASSUME NEW s, Shape(s)
  PROVE  /\ Framed(s, DetachLd(s)) /\ Framed(s, DetachDz(s))
         /\ Framed(s, FreeStream(s))
<1>1. ASSUME NEW t, Shape(t), NEW names PROVE Framed(t, Detach(t, names))
  <2> DEFINE q == [n \in QueueName |-> IF n \in names THEN EmptyQueue ELSE t.q[n]]
             run == SelectSeq(t.run, LAMBDA n: n \notin names)
  <2>1. Detach(t, names) = [t EXCEPT !.q = q, !.run = run]
    BY Zenon DEF Detach
  <2> HIDE DEF q, run
  <2> QED  BY <1>1, <2>1 DEF Framed, Shape
<1>2. Framed(s, DetachLd(s))
  <2>1. PICK s1 : s1 = Flushq(s, "ldr", TRUE)
    OBVIOUS
  <2>2. PICK s2 : s2 = Flushq(s1, "ldw", TRUE)
    OBVIOUS
  <2>3. PICK s3 : s3 = [s2 EXCEPT !.ld = [on |-> FALSE, stop |-> FALSE]]
    OBVIOUS
  <2>4. DetachLd(s) = Detach(s3, {"ldr", "ldw"})
    BY <2>1, <2>2, <2>3 DEF DetachLd
  <2>5. Framed(s, s1) /\ Shape(s1)
    BY <2>1, FlushqFramed, FramedShape
  <2>6. Framed(s, s2) /\ Shape(s2)
    BY <2>2, <2>5, FlushqFramed, FramedOn, FramedShape
  <2>7. Framed(s, s3)
    BY <2>3, <2>6 DEF Framed, Shape
  <2> QED  BY <1>1, <2>4, <2>7, FramedOn, FramedShape
<1>3. Framed(s, DetachDz(s))
  <2>1. PICK s1 : s1 = Flushq(s, "dzw", TRUE)
    OBVIOUS
  <2>2. PICK s2 : s2 = [s1 EXCEPT !.dz.oblock = 0, !.dz.state = {},
                                  !.lost = @ \cup ({s.dz.oblock} \ {0})]
    OBVIOUS
  <2>3. DetachDz(s) = Detach(s2, {"dzw"})
    BY <2>1, <2>2 DEF DetachDz
  <2>4. Framed(s, s1) /\ Shape(s1)
    BY <2>1, FlushqFramed, FramedShape
  <2>5. Framed(s, s2)
    BY <2>2, <2>4 DEF Framed, Shape
  <2> QED  BY <1>1, <2>3, <2>5, FramedOn, FramedShape
<1> QED  BY <1>1, <1>2, <1>3 DEF FreeStream

-----------------------------------------------------------------------------
(* What wakes sleepers and answers an ioctl                                *)

\* Nothing has changed.
LEMMA QuietSelf ==
  ASSUME NEW s, Shape(s)
  PROVE  Quiet(s, s)
BY DEF Quiet, Shape

\* wakeup.
LEMMA WakeupQuiet ==
  ASSUME NEW s, NEW c, Shape(s)
  PROVE  Quiet(s, Wakeup(s, c))
BY DEF Wakeup, Quiet, Shape

\* The flag of a sleeper is set or reset.
LEMMA SleepFlagQuiet ==
  ASSUME NEW s, NEW f \in {"RSLEEP", "WSLEEP"}, Shape(s)
  PROVE  /\ Quiet(s, [s EXCEPT !.head.flag = @ \ {f}])
         /\ Quiet(s, [s EXCEPT !.head.flag = @ \cup {f}])
BY DEF Quiet, Shape

\* strput of data.
LEMMA StrputQuiet ==
  ASSUME NEW s, Shape(s)
  PROVE  /\ \A blocks: Quiet(s, StrputAll(s, blocks))
         /\ \A b: Quiet(s, StrputData(s, b))
<1>1. ASSUME NEW blocks PROVE Quiet(s, StrputAll(s, blocks))
  <2>1. PICK s1 : s1 = Put(s, "rd", s.q["rd"].items \o blocks)
    OBVIOUS
  <2>2. PICK s2 : s2 = [s1 EXCEPT !.head.flag = @ \ {"RSLEEP"}]
    OBVIOUS
  <2>3. StrputAll(s, blocks) \in {s1, Wakeup(s2, "rd")}
    BY <2>1, <2>2 DEF StrputAll
  <2>4. Quiet(s, s1) /\ Shape(s1)
    BY <2>1, PutFramed, FramedShape, FramedQuiet
  <2>5. Quiet(s1, s2) /\ Shape(s2)
    BY <2>2, <2>4 DEF Quiet, Shape
  <2>6. Quiet(s, s2) /\ Quiet(s2, Wakeup(s2, "rd"))
    BY <2>4, <2>5, WakeupQuiet, QuietOn
  <2> QED  BY <2>3, <2>4, <2>6, QuietOn
<1> QED  BY <1>1 DEF StrputData

\* strput of an answer.
LEMMA StrputAckQuiet ==
  ASSUME NEW s, NEW p, Shape(s)
  PROVE  Quiet(s, StrputAck(s, p))
<1>1. PICK s1 : s1 = [s EXCEPT !.head.iocblk = p]
  OBVIOUS
<1>2. \/ StrputAck(s, p) = s
      \/ "IOCWAIT" \in s.head.flag /\ StrputAck(s, p) = Wakeup(s1, "stp")
  BY <1>1 DEF StrputAck
<1>3. "IOCWAIT" \in s.head.flag => Quiet(s, s1) /\ Shape(s1)
  BY <1>1 DEF Quiet, Shape
<1> QED  BY <1>2, <1>3, WakeupQuiet, QuietOn, QuietSelf

\* The line gets a block; an ioctl is answered at once.
LEMMA DzoputQuiet ==
  ASSUME NEW s, NEW b, Shape(s)
  PROVE  Quiet(s, Dzoput(s, b))
<1>1. Quiet(s, Dzstart(Putq(s, "dzw", b)))
  BY PutqFramed, DzstartFramed, FramedOn, FramedShape, FramedQuiet
<1>2. ASSUME NEW p PROVE Quiet(s, DzIoctl(s, p))
  <2>1. PICK s0 : s0 = StrputAck(s, p)
    OBVIOUS
  <2>2. PICK s1 : s1 = Putq(s0, "dzw", [type |-> "DELAY", n |-> 0])
    OBVIOUS
  <2>3. PICK s2 : s2 = Putq(s1, "dzw", [type |-> "CTL", n |-> 0])
    OBVIOUS
  <2>4. DzIoctl(s, p) = Dzstart(s2)
    BY <2>1, <2>2, <2>3 DEF DzIoctl
  <2>5. Quiet(s, s0) /\ Shape(s0)
    BY <2>1, StrputAckQuiet DEF Quiet
  <2>6. Framed(s0, s1) /\ Shape(s1)
    BY <2>2, <2>5, PutqFramed, FramedShape
  <2>7. Framed(s0, s2) /\ Shape(s2)
    BY <2>3, <2>5, <2>6, PutqFramed, FramedOn, FramedShape
  <2>8. Framed(s0, Dzstart(s2))
    BY <2>5, <2>7, DzstartFramed, FramedOn
  <2> QED  BY <2>4, <2>5, <2>8, FramedQuiet, QuietOn
<1> QED  BY <1>1, <1>2, QuietSelf DEF Dzoput

\* A block goes down from the head.
LEMMA DownQuiet ==
  ASSUME NEW s, NEW b, Shape(s)
  PROVE  Quiet(s, Down(s, b))
BY PutqFramed, FramedQuiet, DzoputQuiet DEF Down

\* A typed character.
LEMMA TtyCharQuiet ==
  ASSUME NEW s, Shape(s)
  PROVE  Quiet(s, TtyChar(s))
<1>1. PICK s1 : s1 = Restart(s)
  OBVIOUS
<1>2. TtyChar(s) \in {StrputData(s1, Char), Putq(s1, "ldr", Char)}
  BY <1>1 DEF TtyChar
<1>3. Quiet(s, s1) /\ Shape(s1)
  BY <1>1, RestartFramed, FramedShape, FramedQuiet
<1>4. Quiet(s1, StrputData(s1, Char)) /\ Quiet(s1, Putq(s1, "ldr", Char))
  BY <1>3, StrputQuiet, PutqFramed, FramedQuiet
<1> QED  BY <1>2, <1>3, <1>4, QuietOn

\* An ioctl passes the line discipline.
LEMMA TtldiocQuiet ==
  ASSUME NEW s, NEW b, Shape(s)
  PROVE  Quiet(s, Ttldioc(s, b))
<1> DEFINE typed == s.q["ldr"].items
<1>1. PICK s0 : s0 = GetFirst(s, "ldr", Len(typed))
  OBVIOUS
<1>2. PICK s1 : s1 = IF typed = <<>> THEN s ELSE StrputAll(s0, typed)
  OBVIOUS
<1>3. PICK s2 : s2 = IF Has(s, "rd", "QFULL") THEN s ELSE Getq(s1, "ldr")
  OBVIOUS
<1>4. Ttldioc(s, b) = Dzoput(s2, b)
  BY <1>1, <1>2, <1>3 DEF Ttldioc
<1>5. Quiet(s, s0) /\ Shape(s0)
  BY <1>1, GetqFramed, FramedShape, FramedQuiet
<1> HIDE DEF typed
<1>6. Quiet(s0, StrputAll(s0, typed))
  BY <1>5, StrputQuiet
<1>7. Quiet(s, s1) /\ Shape(s1)
  BY <1>2, <1>5, <1>6, QuietOn, QuietSelf DEF Quiet
<1>8. Quiet(s1, Getq(s1, "ldr"))
  BY <1>7, GetqFramed, FramedQuiet
<1>9. Quiet(s, s2) /\ Shape(s2)
  BY <1>3, <1>7, <1>8, QuietOn, QuietSelf DEF Quiet
<1> QED  BY <1>4, <1>9, DzoputQuiet, QuietOn

-----------------------------------------------------------------------------
(* How the invariant moves with the head, and with one process             *)

\* It is indifferent to all that is quiet.
LEMMA GoodQuiet ==
  ASSUME NEW s, NEW t, NEW pcs, NEW n, Good(s, pcs, n), Quiet(s, t)
  PROVE  Good(t, pcs, n)
<1>1. FilesFit(t, pcs)
  BY DEF Good, Quiet, FilesFit, Hungup
<1>2. OpenerAlone(t, pcs)
  BY DEF Good, Quiet, OpenerAlone
<1>3. Asleep(t, pcs)
  BY DEF Good, Quiet, Asleep
<1>4. OneHolder(t, pcs)
  BY DEF Good, Quiet, OneHolder
<1> QED  BY <1>1, <1>2, <1>3, <1>4 DEF Good, Quiet

\* Nor does a queue operation disturb it.
LEMMA GoodFramed ==
  ASSUME NEW s, NEW t, NEW pcs, NEW n, Good(s, pcs, n), Framed(s, t)
  PROVE  Good(t, pcs, n)
BY GoodQuiet, FramedQuiet DEF Good

\* The processes inside are finitely many; one enters, one leaves.
LEMMA InsideCount ==
  ASSUME NEW pcs \in [Proc -> Place], NEW p \in Proc, NEW w \in Place
  PROVE  LET next == [pcs EXCEPT ![p] = w]
             old == Cardinality(InsideOf(pcs))
             new == Cardinality(InsideOf(next))
         IN /\ old \in Nat /\ new \in Nat
            /\ next \in [Proc -> Place]
            /\ (pcs[p] \in Inner) = (w \in Inner) => new = old
            /\ pcs[p] \notin Inner /\ w \in Inner => new = old + 1
            /\ pcs[p] \in Inner /\ w \notin Inner => new = old - 1
            /\ old = 0 => InsideOf(pcs) = {}
<1> DEFINE next == [pcs EXCEPT ![p] = w]
<1>0. IsFiniteSet(Proc)
  BY StreamsAssumption
<1>1. next \in [Proc -> Place]
  OBVIOUS
<1>2. IsFiniteSet(InsideOf(pcs)) /\ IsFiniteSet(InsideOf(next))
  BY <1>0, FS_Subset DEF InsideOf
<1>3. (pcs[p] \in Inner) = (w \in Inner) => InsideOf(next) = InsideOf(pcs)
  BY DEF InsideOf
<1>4. pcs[p] \notin Inner /\ w \in Inner => InsideOf(next) = InsideOf(pcs) \cup {p}
  BY DEF InsideOf
<1>5. pcs[p] \in Inner /\ w \notin Inner => InsideOf(next) = InsideOf(pcs) \ {p}
  BY DEF InsideOf
<1>6. (p \in InsideOf(pcs)) = (pcs[p] \in Inner)
  BY DEF InsideOf
<1>7. Cardinality(InsideOf(pcs)) \in Nat /\ Cardinality(InsideOf(next)) \in Nat
  BY <1>2, FS_CardinalityType
<1>8. Cardinality(InsideOf(pcs)) = 0 => InsideOf(pcs) = {}
  BY <1>2, FS_EmptySet
<1> HIDE DEF next
<1>9. pcs[p] \notin Inner /\ w \in Inner =>
        Cardinality(InsideOf(next)) = Cardinality(InsideOf(pcs)) + 1
  BY <1>2, <1>4, <1>6, FS_AddElement
<1>10. pcs[p] \in Inner /\ w \notin Inner =>
         Cardinality(InsideOf(next)) = Cardinality(InsideOf(pcs)) - 1
  BY <1>2, <1>5, <1>6, FS_RemoveElement
<1> QED  BY <1>1, <1>3, <1>7, <1>8, <1>9, <1>10 DEF next

\* stenter.
LEMMA StenterGood ==
  ASSUME NEW s, NEW pcs, Good(s, pcs, 0)
  PROVE  Good(Stenter(s), pcs, 1) /\ Stenter(s).head.open = s.head.open
<1>1. PICK t : t = Stenter(s)
  OBVIOUS
<1>2. /\ Shape(t) /\ t.file = s.file /\ t.chan = s.chan /\ t.head.open = s.head.open
      /\ t.head.flag = s.head.flag /\ t.head.iocblk = s.head.iocblk
      /\ t.head.count = s.head.count + 1
  BY <1>1 DEF Stenter, Good, Shape
<1>3. FilesFit(t, pcs) /\ OpenerAlone(t, pcs)
  BY <1>2 DEF Good, FilesFit, OpenerAlone, Hungup
<1>4. Asleep(t, pcs) /\ OneHolder(t, pcs)
  BY <1>2 DEF Good, Asleep, OneHolder
<1>5. t.head.open => t.head.count = Cardinality(InsideOf(pcs)) + 1
  <2>1. IsFiniteSet(InsideOf(pcs))
    BY StreamsAssumption, FS_Subset DEF InsideOf
  <2>2. Cardinality(InsideOf(pcs)) \in Nat
    BY <2>1, FS_CardinalityType
  <2> QED  BY <1>2, <2>2 DEF Good
<1> QED  BY <1>1, <1>2, <1>3, <1>4, <1>5 DEF Good

\* A process that is awake goes in.  It counts already.
LEMMA EnterGood ==
  ASSUME NEW s, NEW pcs, NEW p \in Proc, NEW w \in {"reopen", "read", "write", "copyin"},
         Good(s, pcs, 1), pcs[p] = "idle", s.head.open
  PROVE  Good(s, [pcs EXCEPT ![p] = w], 0)
<1>1. PICK next : next = [pcs EXCEPT ![p] = w]
  OBVIOUS
<1>2. /\ next \in [Proc -> Place] /\ next[p] = w
      /\ \A q \in Proc \ {p}: next[q] = pcs[q]
  BY <1>1 DEF Good, Place, Inner
<1>3. Cardinality(InsideOf(next)) = Cardinality(InsideOf(pcs)) + 1
      /\ Cardinality(InsideOf(next)) \in Nat
  BY <1>1, InsideCount DEF Good, Place, Inner
<1>4. FilesFit(s, next)
  BY <1>2 DEF Good, FilesFit
<1>5. OpenerAlone(s, next)
  BY <1>2 DEF Good, OpenerAlone
<1>6. Asleep(s, next)
  BY <1>2 DEF Good, Asleep
<1>7. OneHolder(s, next)
  <2>1. \A q \in Proc: Holds(next, q) <=> Holds(pcs, q)
    BY <1>2 DEF Holds
  <2> QED  BY <2>1 DEF Good, OneHolder
<1>8. \A q \in Proc: next[q] \in Inner => s.head.open
  OBVIOUS
<1> QED  BY <1>1, <1>2, <1>3, <1>4, <1>5, <1>6, <1>7, <1>8 DEF Good

\* A process goes on inside.
LEMMA MoveGood ==
  ASSUME NEW s, NEW pcs, NEW p \in Proc, NEW w \in Inner, NEW n, Good(s, pcs, n),
         pcs[p] \in Inner, (pcs[p] = "opening") = (w = "opening"),
         (pcs[p] = "reopen") = (w = "reopen"),
         Holds(pcs, p) = (w \in {"iocsent", "iocwait"}),
         s.chan[p] # "awake" => w \in {"opening", "reopen", "read", "write", "iocget", "iocwait"}
  PROVE  Good(s, [pcs EXCEPT ![p] = w], n)
<1>1. PICK next : next = [pcs EXCEPT ![p] = w]
  OBVIOUS
<1>2. /\ next \in [Proc -> Place] /\ next[p] = w
      /\ \A q \in Proc \ {p}: next[q] = pcs[q]
  BY <1>1 DEF Good, Place
<1>3. Cardinality(InsideOf(next)) = Cardinality(InsideOf(pcs))
  BY <1>1, InsideCount DEF Good, Place
<1>4. FilesFit(s, next)
  BY <1>2 DEF Good, FilesFit
<1>5. OpenerAlone(s, next)
  BY <1>2 DEF Good, OpenerAlone
<1>6. Asleep(s, next)
  BY <1>2 DEF Good, Asleep
<1>7. OneHolder(s, next)
  <2>1. \A q \in Proc: Holds(next, q) <=> Holds(pcs, q)
    BY <1>2 DEF Holds
  <2> QED  BY <2>1 DEF Good, OneHolder
<1>8. \A q \in Proc: next[q] \in Inner => s.head.open
  BY DEF Good
<1> QED  BY <1>1, <1>2, <1>3, <1>4, <1>5, <1>6, <1>7, <1>8 DEF Good

\* A process leaves, and counts still; what it knew of its file must hold.
LEMMA LeftGood ==
  ASSUME NEW s, NEW pcs, NEW p \in Proc, Good(s, pcs, 0), pcs[p] \in Inner,
         s.chan[p] = "awake", ~Holds(pcs, p),
         pcs[p] = "reopen" /\ s.file[p] = "open" => ~Hungup(s) /\ "STWOPEN" \notin s.head.flag
  PROVE  Good(s, [pcs EXCEPT ![p] = "idle"], 1)
<1>1. PICK next : next = [pcs EXCEPT ![p] = "idle"]
  OBVIOUS
<1>0. "idle" \in Place /\ "idle" \notin Inner
  BY DEF Place, Inner
<1>2. /\ next \in [Proc -> Place] /\ next[p] = "idle"
      /\ \A q \in Proc \ {p}: next[q] = pcs[q]
  BY <1>0, <1>1 DEF Good
<1>3. Cardinality(InsideOf(pcs)) = Cardinality(InsideOf(next)) + 1
  <2>1. /\ Cardinality(InsideOf(next)) = Cardinality(InsideOf(pcs)) - 1
        /\ Cardinality(InsideOf(pcs)) \in Nat
    <3>1. pcs \in [Proc -> Place]
      BY DEF Good
    <3> QED  BY <1>0, <1>1, <3>1, InsideCount, Zenon
  <2> QED  BY <2>1
<1>4. FilesFit(s, next)
  BY <1>2 DEF Good, FilesFit
<1>5. OpenerAlone(s, next)
  BY <1>2 DEF Good, OpenerAlone
<1>6. Asleep(s, next)
  BY <1>2 DEF Good, Asleep
<1>7. OneHolder(s, next)
  <2>1. \A q \in Proc: Holds(next, q) <=> Holds(pcs, q)
    BY <1>2 DEF Holds
  <2> QED  BY <2>1 DEF Good, OneHolder
<1>8. \A q \in Proc: next[q] \in Inner => s.head.open
  BY <1>0, <1>2 DEF Good
<1>9. s.head.open => s.head.count = Cardinality(InsideOf(next)) + 1
  <2>1. Cardinality(InsideOf(next)) \in Nat
    BY <1>0, <1>1, InsideCount DEF Good
  <2> QED  BY <1>3, <2>1 DEF Good
<1> QED  BY <1>1, <1>2, <1>4, <1>5, <1>6, <1>7, <1>8, <1>9 DEF Good

\* The holder of IOCWAIT gives it up and leaves.
LEMMA HolderLeftGood ==
  ASSUME NEW s, NEW pcs, NEW p \in Proc, Good(s, pcs, 0), Holds(pcs, p),
         s.chan[p] = "awake"
  PROVE  Good(IoctlOver(s), [pcs EXCEPT ![p] = "idle"], 1)
<1>1. PICK next : next = [pcs EXCEPT ![p] = "idle"]
  OBVIOUS
<1>0. PICK t : t = IoctlOver(s)
  OBVIOUS
<1>2. "idle" \in Place /\ "idle" \notin Inner /\ pcs[p] \in Inner
      /\ pcs[p] \in Place /\ pcs[p] \notin {"opening", "reopen"}
  BY DEF Place, Inner, Holds
<1>3. /\ next \in [Proc -> Place] /\ next[p] = "idle"
      /\ \A q \in Proc \ {p}: next[q] = pcs[q]
  BY <1>1, <1>2 DEF Good
<1>4. /\ Shape(t) /\ t.file = s.file /\ t.chan = s.chan
      /\ t.head.open = s.head.open /\ t.head.count = s.head.count
      /\ t.head.iocblk = NoProc /\ t.head.flag = s.head.flag \ {"IOCWAIT"}
  BY <1>0 DEF IoctlOver, Good, Shape
<1>5. FilesFit(t, next)
  BY <1>2, <1>3, <1>4 DEF Good, FilesFit, Hungup
<1>6. OpenerAlone(t, next)
  BY <1>2, <1>3, <1>4 DEF Good, OpenerAlone
<1>7. Asleep(t, next)
  BY <1>3, <1>4 DEF Good, Asleep
<1>8. OneHolder(t, next)
  <2>1. \A q \in Proc: Holds(next, q) <=> Holds(pcs, q) /\ q # p
    BY <1>3 DEF Holds
  <2> QED  BY <1>4, <2>1 DEF Good, OneHolder
<1>9. \A q \in Proc: next[q] \in Inner => t.head.open
  BY <1>2, <1>3, <1>4 DEF Good
<1>10. t.head.open => t.head.count = Cardinality(InsideOf(next)) + 1
  <2>1. /\ Cardinality(InsideOf(next)) = Cardinality(InsideOf(pcs)) - 1
        /\ Cardinality(InsideOf(pcs)) \in Nat
    BY <1>1, <1>2, InsideCount, Zenon DEF Good
  <2>2. t.head.open => t.head.count = Cardinality(InsideOf(pcs)) + 0
    BY <1>4 DEF Good
  <2> QED  BY <2>1, <2>2
<1> QED  BY <1>0, <1>1, <1>3, <1>4, <1>5, <1>6, <1>7, <1>8, <1>9, <1>10 DEF Good

\* stexit: the last one out of a stream that has hung up shuts it down.
LEMMA StexitGood ==
  ASSUME NEW s, NEW pcs, Good(s, pcs, 1), s.head.open
  PROVE  Good(Stexit(s), pcs, 0)
<1>1. PICK s1 : s1 = [s EXCEPT !.head.count = @ - 1]
  OBVIOUS
<1>2. /\ Shape(s1) /\ s1.file = s.file /\ s1.chan = s.chan
      /\ s1.head.open = s.head.open /\ s1.head.flag = s.head.flag
      /\ s1.head.iocblk = s.head.iocblk /\ s1.head.count = s.head.count - 1
  BY <1>1 DEF Good, Shape
<1>3. IsFiniteSet(InsideOf(pcs))
  BY StreamsAssumption, FS_Subset DEF InsideOf
<1>4. Cardinality(InsideOf(pcs)) \in Nat
      /\ (Cardinality(InsideOf(pcs)) = 0 => InsideOf(pcs) = {})
  BY <1>3, FS_CardinalityType, FS_EmptySet
<1>5. s1.head.count = Cardinality(InsideOf(pcs))
  BY <1>2, <1>4 DEF Good
<1>6. Good(s1, pcs, 0)
  <2>1. FilesFit(s1, pcs) /\ OpenerAlone(s1, pcs)
    BY <1>2 DEF Good, FilesFit, OpenerAlone, Hungup
  <2>2. Asleep(s1, pcs) /\ OneHolder(s1, pcs)
    BY <1>2 DEF Good, Asleep, OneHolder
  <2> QED  BY <1>2, <1>4, <1>5, <2>1, <2>2 DEF Good
<1>7. \/ Stexit(s) = s1
      \/ s1.head.count = 0 /\ Stexit(s) = StcloseHungup(s1)
  BY <1>1 DEF Stexit
<1>8. ASSUME s1.head.count = 0 PROVE Good(StcloseHungup(s1), pcs, 0)
  <2>1. \A p \in Proc: pcs[p] \notin Inner
    BY <1>4, <1>5, <1>8 DEF InsideOf
  <2>2. PICK t0 : t0 = Forceclose(s1, "dead")
    OBVIOUS
  <2>3. PICK t1 : t1 = [t0 EXCEPT !.head.open = FALSE]
    OBVIOUS
  <2>4. PICK t2 : t2 = IF t1.ld.on THEN DetachLd(t1) ELSE t1
    OBVIOUS
  <2>5. StcloseHungup(s1) = FreeStream(DetachDz(t2))
    BY <2>2, <2>3, <2>4 DEF StcloseHungup
  <2>6. /\ Shape(t0) /\ t0.chan = s1.chan
        /\ \A p \in Proc: t0.file[p] \in {"none", "dead"}
    BY <1>2, <2>2 DEF Forceclose, Shape
  <2>7. Shape(t1) /\ t1.head.open = FALSE /\ t1.chan = s1.chan /\ t1.file = t0.file
    BY <2>3, <2>6 DEF Shape
  <2>8. Good(t1, pcs, 0)
    <3>1. FilesFit(t1, pcs)
      BY <2>6, <2>7 DEF FilesFit
    <3>2. OpenerAlone(t1, pcs)
      BY <2>1 DEF OpenerAlone, Inner
    <3>3. Asleep(t1, pcs)
      BY <1>6, <2>7 DEF Good, Asleep
    <3>4. OneHolder(t1, pcs)
      BY <2>7 DEF OneHolder
    <3> QED  BY <1>6, <2>1, <2>7, <3>1, <3>2, <3>3, <3>4 DEF Good
  <2>9. Good(t2, pcs, 0)
    BY <2>4, <2>7, <2>8, DetachFramed, GoodFramed
  <2>10. Good(DetachDz(t2), pcs, 0)
    BY <2>9, DetachFramed, GoodFramed DEF Good
  <2> QED  BY <2>5, <2>10, DetachFramed, GoodFramed DEF Good
<1> QED  BY <1>6, <1>7, <1>8

\* A process goes to sleep, inside.
LEMMA SleepGood ==
  ASSUME NEW s, NEW pcs, NEW n, NEW p \in Proc, Good(s, pcs, n),
         NEW c \in {"awake", "rd", "wrq", "stp", "dzp"},
         pcs[p] \in {"opening", "reopen", "read", "write", "iocget", "iocwait"}
  PROVE  Good(Sleep(s, p, c), pcs, n)
<1>1. PICK t : t = Sleep(s, p, c)
  OBVIOUS
<1>2. /\ Shape(t) /\ t.head = s.head /\ t.file = s.file
      /\ \A q \in Proc \ {p}: t.chan[q] = s.chan[q]
  BY <1>1 DEF Sleep, Good, Shape
<1>3. FilesFit(t, pcs) /\ OpenerAlone(t, pcs)
  BY <1>2 DEF Good, FilesFit, OpenerAlone, Hungup
<1>4. Asleep(t, pcs)
  BY <1>2 DEF Good, Asleep
<1>5. OneHolder(t, pcs)
  BY <1>2 DEF Good, OneHolder
<1> QED  BY <1>1, <1>2, <1>3, <1>4, <1>5 DEF Good

\* A file is closed.
LEMMA FileGone ==
  ASSUME NEW s, NEW pcs, NEW n, NEW p \in Proc, Good(s, pcs, n)
  PROVE  Good([s EXCEPT !.file[p] = "none"], pcs, n)
<1>1. PICK t : t = [s EXCEPT !.file[p] = "none"]
  OBVIOUS
<1>2. /\ Shape(t) /\ t.head = s.head /\ t.chan = s.chan
      /\ \A q \in Proc: t.file[q] \in {s.file[q], "none"}
  BY <1>1 DEF Good, Shape
<1>3. FilesFit(t, pcs)
  BY <1>2 DEF Good, FilesFit, Hungup
<1>4. OpenerAlone(t, pcs)
  BY <1>2 DEF Good, OpenerAlone
<1>5. Asleep(t, pcs) /\ OneHolder(t, pcs)
  BY <1>2 DEF Good, Asleep, OneHolder
<1> QED  BY <1>1, <1>2, <1>3, <1>4, <1>5 DEF Good

-----------------------------------------------------------------------------
(* The steps of the processes                                              *)

Idled(p) == [pc EXCEPT ![p] = "idle"]

\* A process returns from the stream.
LEMMA LeaveGood ==
  ASSUME NEW p \in Proc, NEW s, Good(s, Idled(p), 1), s.head.open, Leave(p, s)
  PROVE  SInv'
<1>1. Good(Stexit(s), Idled(p), 0)
  BY StexitGood
<1>2. k' = Stexit(s) /\ pc' = Idled(p)
  BY DEF Leave, Step, Idled
<1> QED  BY <1>1, <1>2 DEF SInv

\* It returns from where it has nothing to give up.
LEMMA LeaveQuiet ==
  ASSUME SInv, NEW p \in Proc, NEW s, Quiet(k, s), s.chan[p] = "awake",
         pc[p] \in {"read", "copy", "write", "fill", "copyin", "iocget"}, Leave(p, s)
  PROVE  SInv'
<1>1. Good(s, pc, 0)
  BY GoodQuiet DEF SInv
<1>2. pc[p] \in Inner /\ ~Holds(pc, p) /\ pc[p] # "reopen"
  BY DEF Inner, Holds
<1>3. Good(s, Idled(p), 1)
  BY <1>1, <1>2, LeftGood DEF Idled
<1>4. s.head.open
  BY <1>1, <1>2 DEF Good
<1> QED  BY <1>3, <1>4, LeaveGood

\* It goes on in the same call, awake.
LEMMA StepMove ==
  ASSUME NEW p \in Proc, NEW s, NEW w \in {"read", "copy", "write", "fill"},
         Good(s, pc, 0), Step(p, s, w), s.chan[p] = "awake",
         pc[p] \in {"read", "copy", "write", "fill"}
  PROVE  SInv'
<1>1. pc[p] \in Inner /\ w \in Inner
  BY DEF Inner
<1>2. (pc[p] = "opening") = (w = "opening") /\ (pc[p] = "reopen") = (w = "reopen")
  OBVIOUS
<1>3. Holds(pc, p) = (w \in {"iocsent", "iocwait"})
  BY DEF Holds
<1>4. Good(s, [pc EXCEPT ![p] = w], 0)
  BY <1>1, <1>2, <1>3, MoveGood, Zenon
<1> QED  BY <1>4 DEF Step, SInv

\* stopen makes a new head: no file of the old stream is left that could reach it.
LEMMA OpenNewGood ==
  ASSUME SInv, NEW p \in Proc, OpenNew(p)
  PROVE  SInv'
<1>1. ~k.head.open /\ pc[p] = "idle" /\ k.chan[p] = "awake"
  BY DEF OpenNew, At
<1>2. \A r \in Proc: pc[r] \notin Inner /\ k.file[r] \notin {"open", "nowrite"}
  BY <1>1 DEF SInv, Good, FilesFit, Inner
<1>3. Shape(k) /\ pc \in [Proc -> Place]
  BY DEF SInv, Good
<1>4. PICK t : t = k'
  OBVIOUS
<1>5. PICK next : next = [pc EXCEPT ![p] = "opening"]
  OBVIOUS
<1>6. /\ t.head = [open |-> TRUE, flag |-> {"STWOPEN"}, iocblk |-> NoProc, count |-> 1]
      /\ Shape(t) /\ t.chan = k.chan
      /\ t.file = [k.file EXCEPT ![p] = "open"]
  BY <1>3, <1>4 DEF OpenNew, Step, Shape
<1>7. /\ next \in [Proc -> Place] /\ next[p] = "opening"
      /\ \A r \in Proc \ {p}: next[r] = pc[r]
  BY <1>3, <1>5 DEF Place, Inner
<1>8. Cardinality(InsideOf(next)) = 1
  <2>1. InsideOf(next) = {p}
    BY <1>2, <1>7 DEF InsideOf, Inner
  <2> QED  BY <2>1, FS_Singleton
<1>9. FilesFit(t, next)
  BY <1>2, <1>3, <1>6, <1>7 DEF FilesFit, Hungup, Shape
<1>10. OpenerAlone(t, next)
  BY <1>2, <1>3, <1>6, <1>7 DEF OpenerAlone, Inner, Shape
<1>11. Asleep(t, next)
  BY <1>1, <1>6, <1>7 DEF Asleep, SInv, Good
<1>12. OneHolder(t, next)
  BY <1>2, <1>6, <1>7 DEF OneHolder, Holds, Inner
<1>13. Good(t, next, 0)
  BY <1>6, <1>7, <1>8, <1>9, <1>10, <1>11, <1>12 DEF Good
<1>14. pc' = next
  BY <1>5 DEF OpenNew, Step
<1> QED  BY <1>4, <1>13, <1>14 DEF SInv

\* The line is open: nobody opens it any more.
LEMMA DzopenGood ==
  ASSUME SInv, NEW p \in Proc, Dzopen(p)
  PROVE  SInv'
<1>1. pc[p] = "opening" /\ k.chan[p] = "awake"
  BY DEF Dzopen, At
<1>2. CASE ~k.dz.carrier
  <2>1. Good(Sleep(k, p, "dzp"), pc, 0)
    BY <1>1, SleepGood DEF SInv
  <2>2. k' = Sleep(k, p, "dzp") /\ pc' = pc
    BY <1>1, <1>2 DEF Dzopen, Step, SInv, Good
  <2> QED  BY <2>1, <2>2 DEF SInv
<1>3. CASE k.dz.carrier
  <2>1. PICK t : t = [k EXCEPT !.dz.state = @ \cup {"ISOPEN"}, !.head.flag = @ \ {"STWOPEN"}]
    OBVIOUS
  <2>2. Leave(p, Wakeup(t, "stp"))
    BY <1>3, <2>1 DEF Dzopen
  <2>3. Good(k, Idled(p), 1) /\ k.head.open
    <3>1. pc[p] \in Inner /\ ~Holds(pc, p)
      BY <1>1 DEF Inner, Holds
    <3>2. Good(k, Idled(p), 1)
      BY <1>1, <3>1, LeftGood DEF SInv, Idled
    <3> QED  BY <3>1, <3>2 DEF SInv, Good
  <2>4. \A r \in Proc: Idled(p)[r] # "opening"
    BY <1>1 DEF SInv, Good, OpenerAlone, Idled
  <2>5. /\ Shape(t) /\ t.chan = k.chan /\ t.file = k.file
        /\ t.head.open = k.head.open /\ t.head.count = k.head.count
        /\ t.head.iocblk = k.head.iocblk /\ t.head.flag = k.head.flag \ {"STWOPEN"}
    BY <2>1 DEF SInv, Good, Shape
  <2>6. Good(t, Idled(p), 1)
    <3>1. FilesFit(t, Idled(p))
      BY <2>3, <2>5 DEF Good, FilesFit, Hungup
    <3>2. OpenerAlone(t, Idled(p))
      BY <2>4 DEF OpenerAlone
    <3>3. Asleep(t, Idled(p))
      BY <2>3, <2>5 DEF Good, Asleep
    <3>4. OneHolder(t, Idled(p))
      BY <2>3, <2>5 DEF Good, OneHolder
    <3> QED  BY <2>3, <2>5, <3>1, <3>2, <3>3, <3>4 DEF Good
  <2>7. Good(Wakeup(t, "stp"), Idled(p), 1) /\ Wakeup(t, "stp").head.open
    BY <2>3, <2>5, <2>6, WakeupQuiet, GoodQuiet DEF Quiet
  <2> QED  BY <2>2, <2>7, LeaveGood
<1> QED  BY <1>2, <1>3

\* The open fails: the stream has hung up, and who waits for it will see that.
LEMMA DzopenFailsGood ==
  ASSUME SInv, NEW p \in Proc, DzopenFails(p)
  PROVE  SInv'
<1>1. pc[p] = "opening" /\ Shape(k)
  BY DEF DzopenFails, SInv, Good
<1>2. PICK s0 : s0 = Sleep(k, p, "awake")
  OBVIOUS
<1>3. PICK s1 : s1 = Wakeup(s0, "stp")
  OBVIOUS
<1>4. PICK t : t = [s1 EXCEPT !.head.flag = (@ \ {"STWOPEN"}) \cup {"HUNGUP"},
                              !.file[p] = "none"]
  OBVIOUS
<1>5. Leave(p, t)
  BY <1>2, <1>3, <1>4 DEF DzopenFails
<1>6. Good(s0, pc, 0) /\ s0.chan[p] = "awake" /\ Shape(s0)
  <2>1. s0.chan[p] = "awake"
    BY <1>1, <1>2 DEF Sleep, Shape
  <2>2. Good(s0, pc, 0)
    BY <1>1, <1>2, SleepGood DEF SInv
  <2> QED  BY <2>1, <2>2 DEF Good
<1>7. Quiet(s0, s1)
  BY <1>3, <1>6, WakeupQuiet
<1>8. Good(s1, pc, 0) /\ s1.chan[p] = "awake"
  BY <1>6, <1>7, GoodQuiet DEF Quiet
<1>9. Good(s1, Idled(p), 1) /\ s1.head.open
  <2>1. pc[p] \in Inner /\ ~Holds(pc, p)
    BY <1>1 DEF Inner, Holds
  <2>2. Good(s1, Idled(p), 1)
    BY <1>1, <1>8, <2>1, LeftGood DEF Idled
  <2> QED  BY <1>8, <2>1, <2>2 DEF Good
<1>10. \A r \in Proc: /\ Idled(p)[r] # "opening"
                      /\ r # p /\ s1.file[r] = "open" => Idled(p)[r] = "reopen"
  BY <1>1, <1>8 DEF Good, OpenerAlone, Idled
<1>11. /\ Shape(t) /\ t.chan = s1.chan /\ t.file = [s1.file EXCEPT ![p] = "none"]
       /\ t.head.open = s1.head.open /\ t.head.count = s1.head.count
       /\ t.head.iocblk = s1.head.iocblk
       /\ t.head.flag = (s1.head.flag \ {"STWOPEN"}) \cup {"HUNGUP"}
  BY <1>4, <1>8 DEF Good, Shape
<1>12. Good(t, Idled(p), 1)
  <2>1. FilesFit(t, Idled(p))
    BY <1>9, <1>10, <1>11 DEF Good, Shape, FilesFit, Hungup
  <2>2. OpenerAlone(t, Idled(p))
    BY <1>10 DEF OpenerAlone
  <2>3. Asleep(t, Idled(p))
    BY <1>9, <1>11 DEF Good, Asleep
  <2>4. OneHolder(t, Idled(p))
    BY <1>9, <1>11 DEF Good, OneHolder
  <2> QED  BY <1>9, <1>11, <2>1, <2>2, <2>3, <2>4 DEF Good
<1> QED  BY <1>5, <1>9, <1>11, <1>12, LeaveGood

\* stopen of an open stream: the process counts before it looks.
LEMMA OpenOldGood ==
  ASSUME SInv, NEW p \in Proc, OpenOld(p)
  PROVE  SInv'
<1>1. /\ pc[p] = "idle" /\ k.head.open /\ k.file[p] = "none"
      /\ k' = [Stenter(k) EXCEPT !.file[p] = "open"]
      /\ pc' = [pc EXCEPT ![p] = "reopen"]
  BY DEF OpenOld, At, Step
<1>2. PICK s : s = Stenter(k)
  OBVIOUS
<1>3. Good(s, pc, 1) /\ s.head.open
  BY <1>1, <1>2, StenterGood DEF SInv
<1>4. Good(s, pc', 0)
  BY <1>1, <1>3, EnterGood
<1>5. k' = [s EXCEPT !.file[p] = "open"]
  BY <1>1, <1>2
<1>6. pc'[p] = "reopen"
  BY <1>1 DEF SInv, Good
<1>7. /\ Shape(k') /\ k'.head = s.head /\ k'.chan = s.chan
      /\ \A r \in Proc \ {p}: k'.file[r] = s.file[r]
      /\ k'.file[p] = "open"
  BY <1>3, <1>5 DEF Good, Shape
<1>8. FilesFit(k', pc')
  BY <1>4, <1>6, <1>7 DEF Good, FilesFit, Hungup
<1>9. OpenerAlone(k', pc')
  BY <1>4, <1>6, <1>7 DEF Good, OpenerAlone
<1>10. Asleep(k', pc') /\ OneHolder(k', pc')
  BY <1>4, <1>7 DEF Good, Asleep, OneHolder
<1>11. Good(k', pc', 0)
  BY <1>4, <1>7, <1>8, <1>9, <1>10 DEF Good
<1> QED  BY <1>11 DEF SInv

\* It looks: the stream is still being opened, has hung up, or is open.
LEMMA ReopenGood ==
  ASSUME SInv, NEW p \in Proc, Reopen(p)
  PROVE  SInv'
<1>1. pc[p] = "reopen" /\ k.chan[p] = "awake" /\ Good(k, pc, 0) /\ k.head.open
  BY DEF Reopen, At, SInv, Good, Inner
<1>2. pc[p] \in Inner /\ ~Holds(pc, p)
  BY <1>1 DEF Inner, Holds
<1>3. CASE "STWOPEN" \in k.head.flag
  <2>1. Good(Sleep(k, p, "stp"), pc, 0)
    BY <1>1, SleepGood
  <2>2. k' = Sleep(k, p, "stp") /\ pc' = pc
    BY <1>1, <1>3 DEF Reopen, Step, Good
  <2> QED  BY <2>1, <2>2 DEF SInv
<1>4. CASE "STWOPEN" \notin k.head.flag /\ Hungup(k)
  <2>1. PICK s : s = Flushq(k, "rd", FALSE)
    OBVIOUS
  <2>2. PICK t : t = [s EXCEPT !.file[p] = "none"]
    OBVIOUS
  <2>3. Leave(p, t)
    BY <1>4, <2>1, <2>2 DEF Reopen
  <2>0. Framed(k, s)
    BY <1>1, <2>1, FlushqFramed DEF Good
  <2>4. Framed(k, s) /\ Good(s, pc, 0)
    BY <1>1, <2>0, GoodFramed
  <2>5. Good(t, pc, 0)
    BY <2>2, <2>4, FileGone
  <2>6. t.chan[p] = "awake" /\ t.file[p] = "none" /\ t.head.open
    BY <1>1, <2>2, <2>4 DEF Framed, Good, Shape
  <2>7. Good(t, Idled(p), 1)
    BY <1>2, <2>5, <2>6, LeftGood DEF Idled
  <2> QED  BY <2>3, <2>6, <2>7, LeaveGood
<1>5. CASE "STWOPEN" \notin k.head.flag /\ ~Hungup(k)
  <2>1. Leave(p, k)
    BY <1>5 DEF Reopen
  <2>2. Good(k, Idled(p), 1)
    BY <1>1, <1>2, <1>5, LeftGood DEF Idled
  <2> QED  BY <1>1, <2>1, <2>2, LeaveGood
<1> QED  BY <1>3, <1>4, <1>5

\* read and write enter the stream.
LEMMA EnterStep ==
  ASSUME SInv, NEW p \in Proc, NEW call, NEW files, NEW w \in {"read", "write"},
         Enter(p, call, files, w)
  PROVE  SInv'
<1>1. /\ pc[p] = "idle" /\ k.head.open /\ k' = Stenter(k)
      /\ pc' = [pc EXCEPT ![p] = w]
  BY DEF Enter, At, Step
<1>2. Good(Stenter(k), pc, 1) /\ Stenter(k).head.open
  BY <1>1, StenterGood DEF SInv
<1>3. Good(Stenter(k), [pc EXCEPT ![p] = w], 0)
  BY <1>1, <1>2, EnterGood
<1> QED  BY <1>1, <1>3 DEF SInv

\* stread sleeps, takes a block, or returns.
LEMMA StreadGood ==
  ASSUME SInv, NEW p \in Proc, Stread(p)
  PROVE  SInv'
<1>1. pc[p] = "read" /\ k.chan[p] = "awake" /\ Good(k, pc, 0) /\ Shape(k)
  BY DEF Stread, At, SInv, Good
<1>3. PICK s : s = Getq(k, "rd")
  OBVIOUS
<1>4. Quiet(k, s) /\ Shape(s) /\ Framed(k, s)
  BY <1>1, <1>3, GetqFramed, FramedShape, FramedQuiet
<1>5. PICK t : t = [s EXCEPT !.head.flag = @ \cup {"RSLEEP"}]
  OBVIOUS
<1>6. PICK back : back = Putbq(s, "rd", Char)
  OBVIOUS
<1>7. Quiet(s, t)
  BY <1>4, <1>5, SleepFlagQuiet
<1>8. Quiet(k, back) /\ back.chan[p] = "awake"
  <2>1. Framed(s, back)
    BY <1>4, <1>6, PutqFramed
  <2>2. Framed(k, back)
    BY <1>1, <1>4, <2>1, FramedOn
  <2> QED  BY <1>1, <2>2, FramedQuiet DEF Framed
<1>9. \/ Leave(p, s)
      \/ Step(p, Sleep(t, p, "rd"), "read")
      \/ Leave(p, back)
      \/ Step(p, s, "copy")
  BY <1>3, <1>5, <1>6 DEF Stread
<1>10. CASE Leave(p, s)
  <2>1. s.chan[p] = "awake"
    BY <1>1, <1>4 DEF Framed
  <2> QED  BY <1>1, <1>4, <1>10, <2>1, LeaveQuiet
<1>11. CASE Step(p, Sleep(t, p, "rd"), "read")
  <2>1. Good(t, pc, 0)
    BY <1>1, <1>4, <1>7, GoodQuiet
  <2>2. Good(Sleep(t, p, "rd"), pc, 0)
    BY <1>1, <2>1, SleepGood
  <2>3. k' = Sleep(t, p, "rd") /\ pc' = pc
    BY <1>1, <1>11 DEF Step, Good
  <2> QED  BY <2>2, <2>3 DEF SInv
<1>12. CASE Leave(p, back)
  BY <1>1, <1>8, <1>12, LeaveQuiet
<1>13. CASE Step(p, s, "copy")
  <2>1. Good(s, pc, 0)
    BY <1>1, <1>4, GoodQuiet
  <2>2. s.chan[p] = "awake"
    BY <1>1, <1>4 DEF Framed
  <2> QED  BY <1>1, <1>13, <2>1, <2>2, StepMove
<1> QED  BY <1>9, <1>10, <1>11, <1>12, <1>13

\* After iomove it goes on or puts the rest back and returns.
LEMMA StreadCopiedGood ==
  ASSUME SInv, NEW p \in Proc, StreadCopied(p)
  PROVE  SInv'
<1>1. pc[p] = "copy" /\ k.chan[p] = "awake" /\ Good(k, pc, 0) /\ Shape(k)
  BY DEF StreadCopied, At, SInv, Good
<1>2. PICK back : back = Putbq(k, "rd", Char)
  OBVIOUS
<1>3. Framed(k, back)
  BY <1>1, <1>2, PutqFramed
<1>4. Step(p, k, "read") \/ Leave(p, back)
  BY <1>2 DEF StreadCopied
<1>5. CASE Step(p, k, "read")
  BY <1>1, <1>5, StepMove
<1>6. CASE Leave(p, back)
  <2>1. Quiet(k, back) /\ back.chan[p] = "awake"
    BY <1>1, <1>3, FramedQuiet DEF Framed
  <2> QED  BY <1>1, <1>6, <2>1, LeaveQuiet
<1> QED  BY <1>4, <1>5, <1>6

\* stwrite sleeps, returns, or goes on to fill a block.
LEMMA StwriteGood ==
  ASSUME SInv, NEW p \in Proc, Stwrite(p)
  PROVE  SInv'
<1>1. pc[p] = "write" /\ k.chan[p] = "awake" /\ Good(k, pc, 0) /\ Shape(k)
  BY DEF Stwrite, At, SInv, Good
<1>2. PICK s : s = Down(k, [type |-> "DELIM", n |-> 0])
  OBVIOUS
<1>3. PICK t : t = [k EXCEPT !.head.flag = @ \cup {"WSLEEP"}]
  OBVIOUS
<1>4. \/ Leave(p, k)
      \/ Step(p, Sleep(t, p, "wrq"), "write")
      \/ Leave(p, s)
      \/ Step(p, k, "fill")
  BY <1>2, <1>3 DEF Stwrite
<1>5. CASE Leave(p, k)
  BY <1>1, <1>5, QuietSelf, LeaveQuiet
<1>6. CASE Step(p, Sleep(t, p, "wrq"), "write")
  <2>1. Good(t, pc, 0)
    BY <1>1, <1>3, SleepFlagQuiet, GoodQuiet
  <2>2. Good(Sleep(t, p, "wrq"), pc, 0)
    BY <1>1, <2>1, SleepGood
  <2>3. k' = Sleep(t, p, "wrq") /\ pc' = pc
    BY <1>1, <1>6 DEF Step, Good
  <2> QED  BY <2>2, <2>3 DEF SInv
<1>7. CASE Leave(p, s)
  <2>1. Quiet(k, s) /\ s.chan[p] = "awake"
    BY <1>1, <1>2, DownQuiet DEF Quiet
  <2> QED  BY <1>1, <1>7, <2>1, LeaveQuiet
<1>8. CASE Step(p, k, "fill")
  BY <1>1, <1>8, StepMove
<1> QED  BY <1>4, <1>5, <1>6, <1>7, <1>8

\* The block goes down.
LEMMA StwriteFilledGood ==
  ASSUME SInv, NEW p \in Proc, StwriteFilled(p)
  PROVE  SInv'
<1>1. pc[p] = "fill" /\ k.chan[p] = "awake" /\ Good(k, pc, 0) /\ Shape(k)
  BY DEF StwriteFilled, At, SInv, Good
<1>2. PICK s : s = Down(k, [type |-> "DATA", n |-> written + 1])
  OBVIOUS
<1>3. Step(p, s, "write")
  BY <1>2 DEF StwriteFilled
<1>4. Quiet(k, s) /\ s.chan[p] = "awake"
  BY <1>1, <1>2, DownQuiet DEF Quiet
<1>5. Good(s, pc, 0)
  BY <1>1, <1>4, GoodQuiet
<1> QED  BY <1>1, <1>3, <1>4, <1>5, StepMove

\* stioctl enters; a stream that has hung up is left at once.
LEMMA IoctlGood ==
  ASSUME SInv, NEW p \in Proc, Ioctl(p)
  PROVE  SInv'
<1>1. pc[p] = "idle" /\ k.head.open /\ Good(k, pc, 0)
  BY DEF Ioctl, At, SInv
<1>2. Good(Stenter(k), pc, 1) /\ Stenter(k).head.open
  BY <1>1, StenterGood
<1>3. Leave(p, Stenter(k)) \/ Step(p, Stenter(k), "copyin")
  BY DEF Ioctl
<1>4. CASE Leave(p, Stenter(k))
  <2>1. Idled(p) = pc
    BY <1>1 DEF Idled, Good
  <2> QED  BY <1>2, <1>4, <2>1, LeaveGood
<1>5. CASE Step(p, Stenter(k), "copyin")
  <2>1. Good(Stenter(k), [pc EXCEPT ![p] = "copyin"], 0)
    BY <1>1, <1>2, EnterGood
  <2> QED  BY <1>5, <2>1 DEF Step, SInv
<1> QED  BY <1>3, <1>4, <1>5

\* The ioctl takes IOCWAIT, which nobody holds.
LEMMA HolderGood ==
  ASSUME NEW s, NEW pcs, NEW p \in Proc, Good(s, pcs, 0),
         pcs[p] \in {"copyin", "iocget"}, s.chan[p] = "awake",
         "IOCWAIT" \notin s.head.flag
  PROVE  Good([s EXCEPT !.head.flag = @ \cup {"IOCWAIT"}], [pcs EXCEPT ![p] = "iocsent"], 0)
<1>1. PICK t : t = [s EXCEPT !.head.flag = @ \cup {"IOCWAIT"}]
  OBVIOUS
<1>2. PICK next : next = [pcs EXCEPT ![p] = "iocsent"]
  OBVIOUS
<1>3. /\ next \in [Proc -> Place] /\ next[p] = "iocsent"
      /\ \A q \in Proc \ {p}: next[q] = pcs[q]
  BY <1>2 DEF Good, Place, Inner
<1>4. /\ Shape(t) /\ t.file = s.file /\ t.chan = s.chan
      /\ t.head.open = s.head.open /\ t.head.count = s.head.count
      /\ t.head.iocblk = s.head.iocblk /\ t.head.flag = s.head.flag \cup {"IOCWAIT"}
  BY <1>1 DEF Good, Shape
<1>5. InsideOf(next) = InsideOf(pcs)
  BY <1>3 DEF InsideOf, Inner
<1>6. FilesFit(t, next)
  BY <1>3, <1>4 DEF Good, FilesFit, Hungup
<1>7. OpenerAlone(t, next)
  BY <1>3, <1>4 DEF Good, OpenerAlone
<1>8. Asleep(t, next)
  BY <1>3, <1>4 DEF Good, Asleep
<1>9. \A q \in Proc: next[q] \in Inner => t.head.open
  BY <1>3, <1>4 DEF Good, Inner
<1>10. OneHolder(t, next)
  <2>1. s.head.open => \A q \in Proc: ~Holds(pcs, q)
    BY DEF Good, OneHolder
  <2>2. s.head.open => \A q \in Proc: Holds(next, q) <=> q = p
    BY <1>3, <2>1 DEF Holds
  <2> QED  BY <1>4, <2>2 DEF OneHolder
<1> QED  BY <1>1, <1>2, <1>3, <1>4, <1>5, <1>6, <1>7, <1>8, <1>9, <1>10 DEF Good

\* stioctl waits for IOCWAIT, or takes it and sends the ioctl down.
LEMMA StioctlSendGood ==
  ASSUME SInv, NEW p \in Proc, StioctlSend(p)
  PROVE  SInv'
<1>1. /\ pc[p] \in {"copyin", "iocget"} /\ k.chan[p] = "awake"
      /\ Good(k, pc, 0) /\ Shape(k)
  BY DEF StioctlSend, At, SInv, Good
<1>2. PICK s : s = [k EXCEPT !.head.flag = @ \cup {"IOCWAIT"}]
  OBVIOUS
<1>3. PICK t : t = Down(s, [type |-> "IOCTL", n |-> p])
  OBVIOUS
<1>4. \/ Leave(p, k)
      \/ Step(p, Sleep(k, p, "stp"), "iocget")
      \/ "IOCWAIT" \notin k.head.flag /\ Step(p, t, "iocsent")
  BY <1>2, <1>3 DEF StioctlSend
<1>5. CASE Leave(p, k)
  BY <1>1, <1>5, QuietSelf, LeaveQuiet
<1>6. CASE Step(p, Sleep(k, p, "stp"), "iocget")
  <2>1. pc[p] \in Inner /\ "iocget" \in Inner
    BY <1>1 DEF Inner
  <2>2. (pc[p] = "opening") = ("iocget" = "opening")
        /\ (pc[p] = "reopen") = ("iocget" = "reopen")
    BY <1>1
  <2>3. Holds(pc, p) = ("iocget" \in {"iocsent", "iocwait"})
    BY <1>1 DEF Holds
  <2>4. Good(k, [pc EXCEPT ![p] = "iocget"], 0)
    BY <1>1, <2>1, <2>2, <2>3, MoveGood, Zenon
  <2>5. [pc EXCEPT ![p] = "iocget"][p] = "iocget"
    BY <1>1 DEF Good
  <2>6. Good(Sleep(k, p, "stp"), [pc EXCEPT ![p] = "iocget"], 0)
    BY <2>4, <2>5, SleepGood
  <2> QED  BY <1>6, <2>6 DEF Step, SInv
<1>7. CASE "IOCWAIT" \notin k.head.flag /\ Step(p, t, "iocsent")
  <2>1. Good(s, [pc EXCEPT ![p] = "iocsent"], 0)
    BY <1>1, <1>2, <1>7, HolderGood
  <2>2. Quiet(s, t)
    BY <1>3, <2>1, DownQuiet DEF Good
  <2>3. Good(t, [pc EXCEPT ![p] = "iocsent"], 0)
    BY <2>1, <2>2, GoodQuiet
  <2> QED  BY <1>7, <2>3 DEF Step, SInv
<1> QED  BY <1>4, <1>5, <1>6, <1>7

\* The holder returns with its answer, or without.
LEMMA HolderLeaves ==
  ASSUME NEW p \in Proc, NEW s, Good(s, pc, 0), Holds(pc, p), s.chan[p] = "awake"
  PROVE  /\ Leave(p, IoctlOver(s)) => SInv'
         /\ Leave(p, Wakeup(IoctlOver(s), "stp")) => SInv'
<1>1. PICK t : t = IoctlOver(s)
  OBVIOUS
<1>2. Good(t, Idled(p), 1) /\ Shape(t)
  BY <1>1, HolderLeftGood DEF Idled, Good
<1>3. pc[p] \in Inner
  BY DEF Holds, Inner
<1>4. t.head.open
  BY <1>1, <1>3 DEF IoctlOver, Good, Shape
<1>5. Quiet(t, Wakeup(t, "stp"))
  BY <1>2, WakeupQuiet
<1>6. Good(Wakeup(t, "stp"), Idled(p), 1) /\ Wakeup(t, "stp").head.open
  BY <1>2, <1>4, <1>5, GoodQuiet DEF Quiet
<1> QED  BY <1>1, <1>2, <1>4, <1>6, LeaveGood

\* It waits for the answer, or returns with it.
LEMMA StioctlWaitGood ==
  ASSUME SInv, NEW p \in Proc, StioctlWait(p)
  PROVE  SInv'
<1>1. /\ pc[p] \in {"iocsent", "iocwait"} /\ k.chan[p] = "awake" /\ Good(k, pc, 0)
      /\ Holds(pc, p)
  BY DEF StioctlWait, At, SInv, Holds
<1>2. \/ Leave(p, IoctlOver(k))
      \/ Step(p, Sleep(k, p, "stp"), "iocwait")
      \/ Leave(p, Wakeup(IoctlOver(k), "stp"))
  BY DEF StioctlWait
<1>3. CASE Step(p, Sleep(k, p, "stp"), "iocwait")
  <2>1. pc[p] \in Inner /\ "iocwait" \in Inner
    BY <1>1 DEF Inner
  <2>2. (pc[p] = "opening") = ("iocwait" = "opening")
        /\ (pc[p] = "reopen") = ("iocwait" = "reopen")
    BY <1>1
  <2>3. Holds(pc, p) = ("iocwait" \in {"iocsent", "iocwait"})
    BY <1>1 DEF Holds
  <2>4. Good(k, [pc EXCEPT ![p] = "iocwait"], 0)
    BY <1>1, <2>1, <2>2, <2>3, MoveGood, Zenon
  <2>5. [pc EXCEPT ![p] = "iocwait"][p] = "iocwait"
    BY <1>1 DEF Good
  <2>6. Good(Sleep(k, p, "stp"), [pc EXCEPT ![p] = "iocwait"], 0)
    BY <2>4, <2>5, SleepGood
  <2> QED  BY <1>3, <2>6 DEF Step, SInv
<1> QED  BY <1>1, <1>2, <1>3, HolderLeaves

\* A signal or a timeout ends a sleep.
LEMMA InterruptedGood ==
  ASSUME SInv, NEW p \in Proc, Interrupted(p)
  PROVE  SInv'
<1>1. /\ k.chan[p] # "awake" /\ Good(k, pc, 0) /\ Shape(k)
      /\ pc[p] \in {"reopen", "read", "write", "iocget", "iocwait"}
  BY DEF Interrupted, SInv, Good, Asleep
<1>2. PICK s : s = Sleep(k, p, "awake")
  OBVIOUS
<1>3. Good(s, pc, 0) /\ Quiet(k, s) /\ s.chan[p] = "awake"
  <2>1. Quiet(k, s) /\ s.chan[p] = "awake"
    BY <1>1, <1>2 DEF Sleep, Quiet, Shape
  <2> QED  BY <1>1, <2>1, GoodQuiet
<1>4. PICK t : t = [s EXCEPT !.file[p] = "none"]
  OBVIOUS
<1>5. \/ pc[p] = "iocwait" /\ Leave(p, IoctlOver(s))
      \/ pc[p] = "reopen" /\ Leave(p, t)
      \/ pc[p] \in {"read", "write", "iocget"} /\ Leave(p, s)
  BY <1>1, <1>2, <1>4 DEF Interrupted
<1>6. CASE pc[p] = "iocwait" /\ Leave(p, IoctlOver(s))
  <2>1. Holds(pc, p)
    BY <1>6 DEF Holds
  <2> QED  BY <1>3, <1>6, <2>1, HolderLeaves
<1>7. CASE pc[p] = "reopen" /\ Leave(p, t)
  <2>1. pc[p] \in Inner /\ ~Holds(pc, p)
    BY <1>7 DEF Inner, Holds
  <2>2. Good(t, pc, 0)
    BY <1>3, <1>4, FileGone
  <2>3. t.chan[p] = "awake" /\ t.file[p] = "none"
    BY <1>3, <1>4 DEF Good, Shape
  <2>4. Good(t, Idled(p), 1)
    BY <2>1, <2>2, <2>3, LeftGood DEF Idled
  <2>5. t.head.open
    BY <2>1, <2>2 DEF Good
  <2> QED  BY <1>7, <2>4, <2>5, LeaveGood
<1>8. CASE pc[p] \in {"read", "write", "iocget"} /\ Leave(p, s)
  BY <1>3, <1>8, LeaveQuiet
<1> QED  BY <1>5, <1>6, <1>7, <1>8

\* Push, pop, close.
LEMMA PushPopGood ==
  ASSUME SInv, NEW p \in Proc, Push(p) \/ Pop(p)
  PROVE  SInv'
<1>1. pc[p] = "idle" /\ pc' = [pc EXCEPT ![p] = "idle"] /\ Good(k, pc, 0) /\ Shape(k)
  BY DEF Push, Pop, At, Step, SInv, Good
<1>2. pc' = pc
  BY <1>1 DEF Good
<1>3. Framed(k, k')
  <2>1. CASE Push(p)
    BY <1>1, <2>1 DEF Push, Step, Framed, Shape
  <2>2. CASE Pop(p)
    BY <1>1, <2>2, DetachFramed DEF Pop, Step
  <2> QED  BY <2>1, <2>2
<1> QED  BY <1>1, <1>2, <1>3, GoodFramed DEF SInv

\* A process outside the stream waits for it to drain, or is done.
LEMMA OutsideGood ==
  ASSUME NEW s, NEW p \in Proc, Good(s, pc, 0), pc[p] \in {"idle", "drain"},
         NEW w \in {"idle", "drain"}, s.chan[p] = "awake",
         Step(p, s, w)
  PROVE  SInv'
<1>1. PICK next : next = pc'
  OBVIOUS
<1>2. /\ next \in [Proc -> Place] /\ next[p] = w
      /\ \A q \in Proc \ {p}: next[q] = pc[q]
  BY <1>1 DEF Step, Good, Place
<1>3. InsideOf(next) = InsideOf(pc)
  BY <1>2 DEF InsideOf, Inner
<1>4. FilesFit(s, next)
  BY <1>2 DEF Good, FilesFit
<1>5. OpenerAlone(s, next)
  BY <1>2 DEF Good, OpenerAlone
<1>6. Asleep(s, next)
  BY <1>2 DEF Good, Asleep
<1>7. OneHolder(s, next)
  <2>1. \A q \in Proc: Holds(next, q) <=> Holds(pc, q)
    BY <1>2 DEF Holds
  <2> QED  BY <2>1 DEF Good, OneHolder
<1>8. \A q \in Proc: next[q] \in Inner => s.head.open
  BY <1>2 DEF Good, Inner
<1>9. Good(s, next, 0)
  BY <1>2, <1>3, <1>4, <1>5, <1>6, <1>7, <1>8 DEF Good
<1> QED  BY <1>1, <1>9 DEF Step, SInv

\* closef: only the last file closes the stream, and only when nobody is inside.
LEMMA CloseGood ==
  ASSUME SInv, NEW p \in Proc, Close(p)
  PROVE  SInv'
<1>1. pc[p] = "idle" /\ k.chan[p] = "awake" /\ Good(k, pc, 0)
  BY DEF Close, At, SInv
<1>2. PICK s : s = [k EXCEPT !.file[p] = "none"]
  OBVIOUS
<1>3. Good(s, pc, 0)
  BY <1>1, <1>2, FileGone
<1>4. s.chan[p] = "awake" /\ s.head = k.head /\ s.file[p] = "none"
      /\ \A q \in Proc \ {p}: s.file[q] = k.file[q]
  BY <1>1, <1>2 DEF Good, Shape
<1>5. PICK t : t = [s EXCEPT !.head.open = FALSE]
  OBVIOUS
<1>6. \/ /\ k.head.open /\ k.head.count = 0
         /\ \A q \in Proc \ {p}: k.file[q] = "none"
         /\ Step(p, t, "drain")
      \/ Step(p, s, "idle")
  BY <1>2, <1>5 DEF Close
<1>7. CASE Step(p, s, "idle")
  BY <1>1, <1>3, <1>4, <1>7, OutsideGood
<1>8. CASE /\ k.head.open /\ k.head.count = 0
           /\ \A q \in Proc \ {p}: k.file[q] = "none"
           /\ Step(p, t, "drain")
  <2>1. /\ Shape(t) /\ t.head.open = FALSE /\ t.chan = s.chan /\ t.file = s.file
    BY <1>3, <1>5 DEF Good, Shape
  <2>2. \A q \in Proc: pc[q] \notin Inner
    <3>1. IsFiniteSet(InsideOf(pc))
      BY StreamsAssumption, FS_Subset DEF InsideOf
    <3>2. Cardinality(InsideOf(pc)) \in Nat
      BY <3>1, FS_CardinalityType
    <3>3. Cardinality(InsideOf(pc)) = 0
      BY <1>1, <1>8, <3>2 DEF Good
    <3>4. InsideOf(pc) = {}
      BY <3>1, <3>3, FS_EmptySet
    <3> QED  BY <3>4 DEF InsideOf
  <2>3. FilesFit(t, pc)
    BY <1>4, <1>8, <2>1 DEF FilesFit
  <2>4. OpenerAlone(t, pc)
    BY <2>2 DEF OpenerAlone, Inner
  <2>5. Asleep(t, pc) /\ OneHolder(t, pc)
    BY <1>3, <2>1 DEF Good, Asleep, OneHolder
  <2>6. Good(t, pc, 0)
    BY <1>3, <2>1, <2>2, <2>3, <2>4, <2>5 DEF Good
  <2> QED  BY <1>1, <1>4, <1>8, <2>1, <2>6, OutsideGood
<1> QED  BY <1>6, <1>7, <1>8

\* stclose detaches the queues.
LEMMA DrainGood ==
  ASSUME SInv, NEW p \in Proc, Drain(p)
  PROVE  SInv'
<1>1. pc[p] = "drain" /\ k.chan[p] = "awake" /\ Good(k, pc, 0) /\ Shape(k)
  BY DEF Drain, At, SInv, Good
<1>2. PICK s : s = DetachDz(k)
  OBVIOUS
<1>3. PICK t : t = FreeStream(s)
  OBVIOUS
<1>4. Framed(k, s) /\ Framed(k, t)
  BY <1>1, <1>2, <1>3, DetachFramed, FramedOn, FramedShape
<1>5. Step(p, DetachLd(k), "drain") \/ Step(p, t, "idle")
  BY <1>2, <1>3 DEF Drain
<1>6. Framed(k, DetachLd(k))
  BY <1>1, DetachFramed
<1>7. /\ Good(t, pc, 0) /\ Good(DetachLd(k), pc, 0)
      /\ t.chan[p] = "awake" /\ DetachLd(k).chan[p] = "awake"
  BY <1>1, <1>4, <1>6, GoodFramed DEF Framed
<1> QED  BY <1>1, <1>5, <1>7, OutsideGood

-----------------------------------------------------------------------------
(* The service procedures and the interrupts of the line                   *)

\* queuerun and the service procedures only wake and answer.
LEMMA ServiceQuiet ==
  ASSUME SInv, Service
  PROVE  Quiet(k, k') /\ UNCHANGED pc
<1>1. Shape(k)
  BY DEF SInv, Good
<1>2. ASSUME Queuerun PROVE Quiet(k, k')
  <2>1. PICK s : s = [k EXCEPT !.run = Tail(@), !.q[Head(k.run)].flag = @ \ {"QENAB"}]
    OBVIOUS
  <2>2. PICK t : t = [s EXCEPT !.head.flag = @ \ {"WSLEEP"}]
    OBVIOUS
  <2>3. k' = s \/ k' = Wakeup(t, "wrq")
    BY <1>2, <2>1, <2>2 DEF Queuerun
  <2>4. Quiet(k, s) /\ Shape(s)
    BY <1>1, <2>1 DEF Quiet, Shape
  <2>5. Quiet(s, t) /\ Shape(t)
    BY <2>2, <2>4 DEF Quiet, Shape
  <2>6. Quiet(k, t)
    BY <1>1, <2>4, <2>5, QuietOn
  <2>7. Quiet(t, Wakeup(t, "wrq"))
    BY <2>5, WakeupQuiet
  <2> QED  BY <1>1, <2>3, <2>4, <2>6, <2>7, QuietOn
<1>3. ASSUME TtyosrvGet PROVE Quiet(k, k')
  BY <1>1, <1>3, GetqFramed, FramedQuiet DEF TtyosrvGet
<1>4. ASSUME TtyosrvPut PROVE Quiet(k, k')
  <2>1. k' \in {k, Putbq(k, "ldw", srv.b), Ttldioc(k, srv.b), Dzoput(k, srv.b)}
    BY <1>4 DEF TtyosrvPut
  <2>2. Quiet(k, Putbq(k, "ldw", srv.b))
    BY <1>1, PutqFramed, FramedQuiet
  <2> QED  BY <1>1, <2>1, <2>2, QuietSelf, TtldiocQuiet, DzoputQuiet
<1>5. ASSUME Ttyinsrv PROVE Quiet(k, k')
  <2>1. k' \in {k, StrputData(k, srv.b), Getq(k, "ldr")}
    BY <1>5 DEF Ttyinsrv
  <2>2. Quiet(k, Getq(k, "ldr"))
    BY <1>1, GetqFramed, FramedQuiet
  <2> QED  BY <1>1, <2>1, <2>2, QuietSelf, StrputQuiet
<1>6. UNCHANGED pc
  BY DEF Service, Queuerun, TtyosrvGet, TtyosrvPut, Ttyinsrv
<1> QED  BY <1>2, <1>3, <1>4, <1>5, <1>6 DEF Service

\* The carrier goes: the files lose the right to write.
LEMMA CarrierLostGood ==
  ASSUME SInv, CarrierLost
  PROVE  SInv'
<1>1. Good(k, pc, 0) /\ Shape(k) /\ pc' = pc
  BY DEF SInv, Good, CarrierLost, Outside
<1>2. PICK s : s = [k EXCEPT !.dz.carrier = FALSE]
  OBVIOUS
<1>3. Good(s, pc, 0) /\ Shape(s)
  <2>1. Framed(k, s)
    BY <1>1, <1>2 DEF Framed, Shape
  <2> QED  BY <1>1, <2>1, GoodFramed DEF Good
<1>4. PICK s1 : s1 = [s EXCEPT !.head.flag = @ \cup {"HUNGUP"}]
  OBVIOUS
<1>5. PICK t : t = Forceclose(s1, "nowrite")
  OBVIOUS
<1>6. k' = s \/ k' = Wakeup(Wakeup(Wakeup(t, "rd"), "wrq"), "stp")
  BY <1>2, <1>4, <1>5 DEF CarrierLost, StrputHangup
<1>7. /\ Shape(s1) /\ s1.file = s.file /\ s1.chan = s.chan
      /\ s1.head.open = s.head.open /\ s1.head.count = s.head.count
      /\ s1.head.iocblk = s.head.iocblk /\ s1.head.flag = s.head.flag \cup {"HUNGUP"}
  BY <1>3, <1>4 DEF Shape
<1>8. /\ Shape(t) /\ t.chan = s.chan /\ t.head = s1.head
      /\ \A p \in Proc: t.file[p] = IF s.file[p] \in {"open", "nowrite"} THEN "nowrite"
                                    ELSE s.file[p]
  BY <1>5, <1>7 DEF Forceclose, Shape
<1>9. Good(t, pc, 0)
  <2>1. FilesFit(t, pc)
    BY <1>3, <1>7, <1>8 DEF Good, FilesFit, Hungup, Inner
  <2>2. OpenerAlone(t, pc)
    BY <1>3, <1>7, <1>8 DEF Good, OpenerAlone
  <2>3. Asleep(t, pc)
    BY <1>3, <1>8 DEF Good, Asleep
  <2>4. OneHolder(t, pc)
    BY <1>3, <1>7, <1>8 DEF Good, OneHolder
  <2> QED  BY <1>3, <1>7, <1>8, <2>1, <2>2, <2>3, <2>4 DEF Good
<1>10. Quiet(t, Wakeup(Wakeup(Wakeup(t, "rd"), "wrq"), "stp"))
  <2>1. PICK t1 : t1 = Wakeup(t, "rd")
    OBVIOUS
  <2>2. PICK t2 : t2 = Wakeup(t1, "wrq")
    OBVIOUS
  <2>3. Quiet(t, t1) /\ Shape(t1)
    BY <1>8, <2>1, WakeupQuiet DEF Quiet
  <2>4. Quiet(t1, t2) /\ Shape(t2)
    BY <2>2, <2>3, WakeupQuiet DEF Quiet
  <2>5. Quiet(t, t2) /\ Quiet(t2, Wakeup(t2, "stp"))
    BY <1>8, <2>3, <2>4, WakeupQuiet, QuietOn
  <2> QED  BY <1>8, <2>1, <2>2, <2>5, QuietOn
<1>11. Good(k', pc, 0)
  BY <1>3, <1>6, <1>9, <1>10, GoodQuiet
<1> QED  BY <1>1, <1>11 DEF SInv

\* So do the interrupts, the loss of the carrier apart.
LEMMA InterruptQuiet ==
  ASSUME SInv, TypeChar \/ TypeStop \/ TypeIntr \/ Dztint \/ Dztimo \/ CarrierBack
  PROVE  Quiet(k, k') /\ UNCHANGED pc
<1>1. Shape(k)
  BY DEF SInv, Good
<1>2. ASSUME TypeChar PROVE Quiet(k, k')
  <2>1. k' \in {k, TtyChar(k), StrputData(k, Char)}
    BY <1>2 DEF TypeChar
  <2> QED  BY <1>1, <2>1, QuietSelf, TtyCharQuiet, StrputQuiet
<1>3. ASSUME TypeStop \/ TypeIntr PROVE Quiet(k, k')
  BY <1>1, <1>3, TtyFramed, FramedQuiet DEF TypeStop, TypeIntr
<1>4. ASSUME Dztint \/ Dztimo PROVE Quiet(k, k')
  <2>1. PICK s : s = [k EXCEPT !.dz.oblock = 0]
    OBVIOUS
  <2>2. PICK t : t = [k EXCEPT !.dz.timers = @ - 1, !.dz.state = @ \ {"TIMEOUT"}]
    OBVIOUS
  <2>3. k' \in {Dzstart(s), Dzstart(t)}
    BY <1>4, <2>1, <2>2 DEF Dztint, Dztimo
  <2>4. Framed(k, s) /\ Framed(k, t)
    BY <1>1, <2>1, <2>2 DEF Framed, Shape
  <2>5. Framed(k, Dzstart(s)) /\ Framed(k, Dzstart(t))
    BY <1>1, <2>4, DzstartFramed, FramedOn, FramedShape
  <2> QED  BY <1>1, <2>3, <2>5, FramedQuiet
<1>5. ASSUME CarrierBack PROVE Quiet(k, k')
  <2>1. PICK s : s = [k EXCEPT !.dz.carrier = TRUE]
    OBVIOUS
  <2>2. k' = Wakeup(s, "dzp")
    BY <1>5, <2>1 DEF CarrierBack
  <2>3. Quiet(k, s) /\ Shape(s)
    BY <1>1, <2>1 DEF Quiet, Shape
  <2> QED  BY <1>1, <2>2, <2>3, WakeupQuiet, QuietOn
<1>6. UNCHANGED pc
  BY DEF TypeChar, TypeStop, TypeIntr, Dztint, Dztimo, CarrierBack, Outside
<1> QED  BY <1>2, <1>3, <1>4, <1>5, <1>6

\* They keep the invariant of the head.
LEMMA BelowGood ==
  ASSUME SInv, Service \/ Interrupt
  PROVE  SInv'
<1>1. ASSUME Quiet(k, k'), UNCHANGED pc PROVE SInv'
  BY <1>1, GoodQuiet DEF SInv
<1> QED  BY <1>1, ServiceQuiet, InterruptQuiet, CarrierLostGood DEF Interrupt

-----------------------------------------------------------------------------
(* The theorems                                                            *)

\* No stream is open, nobody is inside.
LEMMA SInvInit == Init => SInv
<1> SUFFICES ASSUME Init PROVE Good(k, pc, 0)
  BY DEF SInv
<1>1. Shape(k) /\ k.head.open = FALSE /\ (\A p \in Proc: k.file[p] = "none")
      /\ \A p \in Proc: k.chan[p] = "awake"
  BY DEF Init, Shape
<1>2. pc \in [Proc -> Place] /\ \A p \in Proc: pc[p] = "idle"
  BY DEF Init, Place
<1>3. FilesFit(k, pc) /\ OpenerAlone(k, pc) /\ Asleep(k, pc) /\ OneHolder(k, pc)
  BY <1>1, <1>2 DEF FilesFit, OpenerAlone, Asleep, OneHolder
<1> QED  BY <1>1, <1>2, <1>3 DEF Good, Inner

\* Every step keeps the invariant.
LEMMA SInvStep == SInv /\ [Next]_vars => SInv'
<1> SUFFICES ASSUME SInv, [Next]_vars PROVE SInv'
  OBVIOUS
<1>1. CASE UNCHANGED vars
  BY <1>1 DEF vars, SInv
<1>2. ASSUME NEW p \in Proc, Call(p) PROVE SInv'
  BY <1>2, EnterStep, IoctlGood, PushPopGood, CloseGood DEF Call, Read, Write
<1>3. ASSUME NEW p \in Proc, Continue(p) PROVE SInv'
  BY <1>3, DzopenGood, ReopenGood, StreadGood, StreadCopiedGood, StwriteGood,
     StwriteFilledGood, StioctlSendGood, StioctlWaitGood, DrainGood DEF Continue
<1>4. ASSUME NEW p \in Proc, OpenNew(p) \/ OpenOld(p) \/ DzopenFails(p) \/ Interrupted(p)
      PROVE  SInv'
  BY <1>4, OpenNewGood, OpenOldGood, DzopenFailsGood, InterruptedGood
<1>5. CASE Service \/ Interrupt
  BY <1>5, BelowGood
<1> QED  BY <1>1, <1>2, <1>3, <1>4, <1>5 DEF Next

\* The invariant holds always.
LEMMA SInvAlways == Spec => []SInv
BY SInvInit, SInvStep, PTL DEF Spec

\* A stream is not shut down while a process is in its routines, count is how
\* many there are, and a file made before a hangup never reaches the stream that
\* is opened after it.
THEOREM StreamIsKept == Spec => []StreamKept
<1>1. SInv => StreamKept
  <2> SUFFICES ASSUME SInv PROVE StreamKept
    OBVIOUS
  <2>1. Inside = InsideOf(pc)
    BY DEF Inside, InsideOf
  <2>2. k.head.open => k.head.count = Cardinality(Inside)
    <3>1. IsFiniteSet(Inside)
      BY <2>1, StreamsAssumption, FS_Subset DEF InsideOf
    <3>2. Cardinality(Inside) \in Nat
      BY <3>1, FS_CardinalityType
    <3> QED  BY <2>1, <3>2 DEF SInv, Good
  <2>3. Inside # {} => k.head.open
    BY <2>1 DEF SInv, Good, InsideOf
  <2>4. \A p \in Proc:
          /\ k.file[p] = "nowrite" => k.head.open /\ Hungup(k)
          /\ k.file[p] = "open" /\ pc[p] \notin {"opening", "reopen"} =>
               k.head.open /\ ~Hungup(k)
    BY DEF SInv, Good, FilesFit
  <2> QED  BY <2>2, <2>3, <2>4 DEF StreamKept
<1> QED  BY <1>1, SInvAlways, PTL

\* One ioctl at a time waits for its answer, IOCWAIT is set as long as it does,
\* and no answer is kept for a process that has gone.
THEOREM OneIoctlAtATime == Spec => []OneIoctl
<1>1. SInv => OneIoctl
  <2> SUFFICES ASSUME SInv, k.head.open
               PROVE  LET holders == {p \in Proc: pc[p] \in {"iocsent", "iocwait"}}
                      IN /\ Cardinality(holders) <= 1
                         /\ ("IOCWAIT" \in k.head.flag) <=> (holders # {})
                         /\ k.head.iocblk # NoProc => holders # {}
    BY DEF OneIoctl
  <2> DEFINE holders == {p \in Proc: pc[p] \in {"iocsent", "iocwait"}}
  <2>1. \A p: p \in holders <=> p \in Proc /\ Holds(pc, p)
    BY DEF Holds
  <2> HIDE DEF holders
  <2>2. \A p, q \in holders: p = q
    BY <2>1 DEF SInv, Good, OneHolder
  <2>3. Cardinality(holders) <= 1
    <3>1. CASE holders = {}
      BY <3>1, FS_EmptySet
    <3>2. CASE holders # {}
      <4>1. PICK p : p \in holders
        BY <3>2
      <4>2. holders = {p}
        BY <2>2, <4>1
      <4>3. Cardinality({p}) = 1
        BY FS_Singleton
      <4> QED  BY <4>2, <4>3
    <3> QED  BY <3>1, <3>2
  <2>4. ("IOCWAIT" \in k.head.flag) <=> (holders # {})
    BY <2>1 DEF SInv, Good, OneHolder
  <2>5. k.head.iocblk # NoProc => holders # {}
    BY <2>1 DEF SInv, Good, OneHolder
  <2> QED  BY <2>3, <2>4, <2>5 DEF holders
<1> QED  BY <1>1, SInvAlways, PTL
=============================================================================
