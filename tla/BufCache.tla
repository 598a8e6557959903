------------------------------ MODULE BufCache ------------------------------
(***************************************************************************)
(* The block buffer cache of the kernel, dev/bio.c.                        *)
(*                                                                         *)
(* Processes enter the cache through bread, breada, getblk, geteblk,       *)
(* bwrite, bdwrite, bawrite, brelse and bflush; the disk driver enters it  *)
(* from its interrupt through iodone.  The kernel is not preemptive: a     *)
(* process runs until it sleeps or goes back to user mode, and only an     *)
(* interrupt can come in between, where the code runs at spl0.  So cpu     *)
(* names the process that is running in the kernel, one action is a piece  *)
(* of code in which no interrupt matters, and Iodone may happen between    *)
(* any two of them.                                                        *)
(*                                                                         *)
(* A (b_dev, b_blkno) pair is one member of Blks, and b_dev = NODEV is     *)
(* NoBlk.  The hash chains only serve to find a buffer by its block, so    *)
(* they are left out.  A block's contents are one member of Vals.          *)
(***************************************************************************)
EXTENDS Naturals, SequencesExt

CONSTANTS
  Procs,      \* processes
  Bufs,       \* buffer headers, buf[0..nbuf-1]
  Blks,       \* blocks of the block devices
  Devs,       \* block devices
  DevOf,      \* the device of every block
  Super,      \* superblocks: kept in the cache by B_LOCKED while mounted
  Vals,       \* what a block may contain
  InitVal,    \* what every block contains at first
  InitOrder,  \* the order in which binit() leaves the buffers on the AGE list
  Faulty,     \* which transfers may fail: a subset of {"sync", "async"}
  Calls,      \* the entries an instance uses: a subset of Entry
  NoProc, NoBuf, NoBlk, NoDev,
  FreeList    \* the channel &bfreelist[0]

Flag == {"READ", "DONE", "ERROR", "BUSY", "WANTED", "AGE", "ASYNC",
         "DELWRI", "INVAL", "LOCKED"}
Queue == {"LOCKED", "LRU", "AGE"}
PC == {"user", "getblk", "hit", "geteblk", "got", "readahead", "iowait",
       "hold", "started", "bflush"}
Entry == {"bread", "breada", "getblk", "geteblk", "sync", "close"}
Caller == {"none", "bread", "breada", "readahead", "getblk", "geteblk",
           "update", "bwrite", "bflush", "close"}

ASSUME ConstAssumption ==
  /\ NoProc \notin Procs
  /\ NoBuf \notin Bufs /\ FreeList \notin Bufs /\ NoBuf # FreeList
  /\ NoBlk \notin Blks
  /\ NoDev \notin Devs
  /\ DevOf \in [Blks -> Devs]
  /\ Super \subseteq Blks
  /\ InitVal \in Vals
  /\ Faulty \subseteq {"sync", "async"}
  /\ Calls \subseteq Entry

ASSUME OrderAssumption ==
  /\ InitOrder \in Seq(Bufs)
  /\ IsInjective(InitOrder)
  /\ ToSet(InitOrder) = Bufs

VARIABLES
  flags,      \* b_flags of each buffer
  blk,        \* b_dev and b_blkno of each buffer
  data,       \* what b_un.b_addr points at
  fl,         \* bfreelist: the LOCKED, LRU and AGE queues
  freeWanted, \* B_WANTED of bfreelist[0]
  ioq,        \* requests handed to the drivers and not completed yet
  disk,       \* contents of the devices
  cpu,        \* the process that is running in the kernel
  wchan,      \* p_wchan: what a process sleeps on, NoBuf when awake
  pc,         \* where a process is in bio.c
  ret,        \* on whose behalf it is in getblk, or in bwrite
  blkno,      \* the block its system call is about
  rablkno,    \* the read-ahead block of breada, NoBlk for none
  bp,         \* the buffer it holds
  rabp,       \* rabp of breada
  cand,       \* a buffer it looks at and does not hold
  wdel,       \* flag & B_DELWRI in bwrite
  err,        \* u.u_error # 0
  fdev,       \* the argument of bflush
  updlock,    \* update() is writing superblocks
  mbuf,       \* m_bufp of the mount on each superblock
  file        \* ghost: the latest contents written to each block

bufVars  == <<flags, blk, data, fl, freeWanted>>
ioVars   == <<ioq, disk>>
argVars  == <<blkno, rablkno, fdev>>
mntVars  == <<updlock, mbuf>>
callVars == <<argVars, mntVars>>
vars == <<flags, blk, data, fl, freeWanted, ioq, disk, cpu, wchan, pc, ret,
          blkno, rablkno, bp, rabp, cand, wdel, err, fdev, updlock, mbuf, file>>

-----------------------------------------------------------------------------
(* Searches.                                                               *)

\* The test of a buffer on a hash chain, in getblk and incore.
Matches(b, x) == blk[b] = x /\ "INVAL" \notin flags[b]
Incore(x) == \E b \in Bufs : Matches(b, x)

\* notavail(b) for the buffer at position i of queue q.
NotAvail(q, i) == fl' = [fl EXCEPT ![q] = RemoveAt(@, i)]

\* The queue getblk takes its victim from: AGE before LRU, LOCKED never.
Victims == IF fl["AGE"] # <<>> THEN "AGE" ELSE "LRU"

Running(p) == cpu \in {NoProc, p} /\ wchan[p] = NoBuf

\* Whether process q is in the middle of a call on device d.
Using(q, d) == /\ pc[q] # "user"
               /\ \E x \in {blkno[q], rablkno[q]} : x \in Blks /\ DevOf[x] = d

\* Mutant: the channel is not initialised.
SleepNowhere(p, chan) == /\ wchan' = [wchan EXCEPT ![p] = NoProc]
                         /\ cpu' = NoProc

Sleep(p, chan) == /\ wchan' = [wchan EXCEPT ![p] = chan]
                  /\ cpu' = NoProc

-----------------------------------------------------------------------------
(* Routines called within an action.                                       *)

\* Mutant: B_BUSY is left set.
BrelseBusy(b, f) ==
  /\ fl' = [fl EXCEPT !["LRU"] = Append(@, b)]
  /\ flags' = [flags EXCEPT ![b] = f \ {"WANTED", "ASYNC", "AGE"}]
  /\ freeWanted' = FALSE
  /\ wchan' = [q2 \in Procs |-> IF wchan[q2] \in {b, FreeList} THEN NoBuf ELSE wchan[q2]]
  /\ UNCHANGED blk

\* Mutant: nobody who waits for any buffer at all is woken up.
BrelseQuiet(b, f) ==
  /\ fl' = [fl EXCEPT !["LRU"] = Append(@, b)]
  /\ flags' = [flags EXCEPT ![b] = f \ {"WANTED", "BUSY", "ASYNC", "AGE"}]
  /\ freeWanted' = FALSE
  /\ wchan' = [q2 \in Procs |-> IF wchan[q2] = b THEN NoBuf ELSE wchan[q2]]
  /\ UNCHANGED blk

\* brelse(b), f being its flags on entry.
Brelse(b, f) ==
  LET g == IF "LOCKED" \in f THEN f \ {"ERROR"} ELSE f
      front == g \cap {"ERROR", "INVAL"} # {}
      q == CASE front -> "AGE"
             [] ~front /\ "LOCKED" \in g -> "LOCKED"
             [] ~front /\ "LOCKED" \notin g /\ "AGE" \in g -> "AGE"
             [] OTHER -> "LRU"
  IN /\ blk' = IF "ERROR" \in g THEN [blk EXCEPT ![b] = NoBlk] ELSE blk
     /\ fl' = [fl EXCEPT ![q] = IF front THEN Cons(b, @) ELSE Append(@, b)]
     /\ flags' = [flags EXCEPT ![b] = g \ {"WANTED", "BUSY", "ASYNC", "AGE"}]
     /\ freeWanted' = FALSE
     /\ wchan' = [q2 \in Procs |->
                    IF \/ wchan[q2] = b /\ "WANTED" \in f
                       \/ wchan[q2] = FreeList /\ freeWanted
                    THEN NoBuf ELSE wchan[q2]]

\* Mutant: B_DONE is not cleared.
BwriteStartDone(b, f) ==
  /\ flags' = [flags EXCEPT ![b] = f \ {"READ", "ERROR", "DELWRI", "AGE"}]
  /\ ioq' = Append(ioq, b)

\* bwrite(b) up to the return of the strategy routine, f being its flags.
BwriteStart(b, f) ==
  /\ flags' = [flags EXCEPT ![b] =
                 f \ {"READ", "DONE", "ERROR", "DELWRI", "AGE"}]
  /\ ioq' = Append(ioq, b)

\* Mutant: the read-ahead is not marked B_ASYNC.
ReadStartSync(b, f) ==
  /\ flags' = [flags EXCEPT ![b] = @ \cup {"READ"}]
  /\ ioq' = Append(ioq, b)

\* The strategy call of a read: the buffer joins the driver's queue.
ReadStart(b, f) ==
  /\ flags' = [flags EXCEPT ![b] = @ \cup {"READ"} \cup f]
  /\ ioq' = Append(ioq, b)

\* Return to user mode: what the call kept on its stack is gone.
Return(p) == /\ pc' = [pc EXCEPT ![p] = "user"]
             /\ ret' = [ret EXCEPT ![p] = "none"]
             /\ blkno' = [blkno EXCEPT ![p] = NoBlk]
             /\ rablkno' = [rablkno EXCEPT ![p] = NoBlk]
             /\ fdev' = [fdev EXCEPT ![p] = NoDev]
             /\ err' = [err EXCEPT ![p] = FALSE]
             /\ cpu' = NoProc

Goto(p, l) == pc' = [pc EXCEPT ![p] = l] /\ cpu' = p

-----------------------------------------------------------------------------
Init ==
  /\ flags = [b \in Bufs |-> {"INVAL"}]
  /\ blk = [b \in Bufs |-> NoBlk]
  /\ data = [b \in Bufs |-> InitVal]
  /\ fl = [q \in Queue |-> IF q = "AGE" THEN InitOrder ELSE <<>>]
  /\ freeWanted = FALSE
  /\ ioq = <<>>
  /\ disk = [x \in Blks |-> InitVal]
  /\ cpu = NoProc
  /\ wchan = [p \in Procs |-> NoBuf]
  /\ pc = [p \in Procs |-> "user"]
  /\ ret = [p \in Procs |-> "none"]
  /\ blkno = [p \in Procs |-> NoBlk]
  /\ rablkno = [p \in Procs |-> NoBlk]
  /\ bp = [p \in Procs |-> NoBuf]
  /\ rabp = [p \in Procs |-> NoBuf]
  /\ cand = [p \in Procs |-> NoBuf]
  /\ wdel = [p \in Procs |-> FALSE]
  /\ err = [p \in Procs |-> FALSE]
  /\ fdev = [p \in Procs |-> NoDev]
  /\ updlock = FALSE
  /\ mbuf = [x \in Super |-> NoBuf]
  /\ file = [x \in Blks |-> InitVal]

-----------------------------------------------------------------------------
(* The entries: a system call starts.                                      *)

Enter(p, caller, l, x, ra, d) ==
  /\ pc[p] = "user" /\ cpu = NoProc
  /\ Goto(p, l)
  /\ ret' = [ret EXCEPT ![p] = caller]
  /\ blkno' = [blkno EXCEPT ![p] = x]
  /\ rablkno' = [rablkno EXCEPT ![p] = ra]
  /\ fdev' = [fdev EXCEPT ![p] = d]
  /\ err' = [err EXCEPT ![p] = FALSE]
  /\ UNCHANGED <<flags, blk, data, fl, freeWanted, ioq, disk, wchan, bp, rabp,
                 cand, wdel, mbuf, file>>

\* bread(dev, blkno)
Bread(p, x) == Enter(p, "bread", "getblk", x, NoBlk, NoDev)
               /\ UNCHANGED updlock

\* breada(dev, blkno, rablkno), up to its first getblk if there is one.
Breada(p, x, ra) ==
  /\ x # ra
  /\ IF Incore(x) THEN Enter(p, "breada", "readahead", x, ra, NoDev)
                  ELSE Enter(p, "breada", "getblk", x, ra, NoDev)
  /\ UNCHANGED updlock

\* writei of a whole block takes the buffer without reading it.
Getblk(p, x) == /\ x \notin Super
                /\ Enter(p, "getblk", "getblk", x, NoBlk, NoDev)
                /\ UNCHANGED updlock

\* readi of a hole
Geteblk(p) == Enter(p, "geteblk", "geteblk", NoBlk, NoBlk, NoDev)
              /\ UNCHANGED updlock

\* update() with no superblock modified, and bflush(NODEV).
Sync(p) == /\ ~updlock
           /\ Enter(p, "bflush", "bflush", NoBlk, NoBlk, NoDev)
           /\ UNCHANGED updlock

\* update() with a modified superblock.
UpdateSuper(p, x) ==
  /\ ~updlock
  /\ mbuf[x] # NoBuf
  /\ updlock' = TRUE
  /\ Enter(p, "update", "getblk", x, NoBlk, NoDev)

\* closef, on the last close of a block device that is not mounted.
LastClose(p, d) ==
  /\ \A q \in Procs \ {p} : ~Using(q, d)
  /\ \A x \in Super : DevOf[x] = d => mbuf[x] = NoBuf
  /\ Enter(p, "close", "bflush", NoBlk, NoBlk, d)
  /\ UNCHANGED updlock

-----------------------------------------------------------------------------
(* getblk and geteblk.                                                     *)

Want(p) == IF ret[p] = "readahead" THEN rablkno[p] ELSE blkno[p]

\* The local variable that receives the result of getblk.
Deliver(p, b) ==
  /\ IF ret[p] = "readahead"
     THEN rabp' = [rabp EXCEPT ![p] = b] /\ UNCHANGED bp
     ELSE bp' = [bp EXCEPT ![p] = b] /\ UNCHANGED rabp
  /\ Goto(p, "got")

\* The hash search finds the block: it runs at spl0.
GetblkFind(p) ==
  /\ pc[p] = "getblk" /\ Running(p)
  /\ \E b \in Bufs : Matches(b, Want(p)) /\ cand' = [cand EXCEPT ![p] = b]
  /\ Goto(p, "hit")
  /\ UNCHANGED <<bufVars, ioVars, callVars, wchan, ret, bp, rabp, wdel, err,
                 file>>

\* Mutant: no second search after the sleep.
GetblkWaitOnce(p) ==
  /\ pc[p] = "hit" /\ Running(p)
  /\ "BUSY" \in flags[cand[p]]
  /\ flags' = [flags EXCEPT ![cand[p]] = @ \cup {"WANTED"}]
  /\ Sleep(p, cand[p])
  /\ UNCHANGED <<blk, data, fl, freeWanted, ioVars, callVars, pc, ret, bp, rabp,
                 cand, wdel, err, file>>

\* At spl6 now: the buffer is busy.
GetblkWait(p) ==
  /\ pc[p] = "hit" /\ Running(p)
  /\ "BUSY" \in flags[cand[p]]
  /\ flags' = [flags EXCEPT ![cand[p]] = @ \cup {"WANTED"}]
  /\ Sleep(p, cand[p])
  /\ pc' = [pc EXCEPT ![p] = "getblk"]
  /\ cand' = [cand EXCEPT ![p] = NoBuf]
  /\ UNCHANGED <<blk, data, fl, freeWanted, ioVars, callVars, ret, bp, rabp,
                 wdel, err, file>>

\* The buffer is free: take it off its list.
GetblkHit(p) ==
  /\ pc[p] = "hit" /\ Running(p)
  /\ "BUSY" \notin flags[cand[p]]
  /\ \E q \in Queue : \E i \in DOMAIN fl[q] :
       fl[q][i] = cand[p] /\ NotAvail(q, i)
  /\ flags' = [flags EXCEPT ![cand[p]] = @ \cup {"BUSY"}]
  /\ Deliver(p, cand[p])
  /\ cand' = [cand EXCEPT ![p] = NoBuf]
  /\ UNCHANGED <<blk, data, freeWanted, ioVars, callVars, wchan, ret, wdel, err,
                 file>>

\* Mutant: getblk takes a buffer without the search.
MissingBlind(p) == Running(p) /\ pc[p] \in {"getblk", "geteblk"}

\* In getblk without a hit, or in geteblk.
Missing(p) == /\ Running(p)
              /\ \/ pc[p] = "getblk" /\ ~Incore(Want(p))
                 \/ pc[p] = "geteblk"

\* No free blocks at all.
GetblkNoFree(p) ==
  /\ Missing(p)
  /\ fl[Victims] = <<>>
  /\ freeWanted' = TRUE
  /\ Sleep(p, FreeList)
  /\ UNCHANGED <<flags, blk, data, fl, ioVars, callVars, pc, ret, bp, rabp, cand,
                 wdel, err, file>>

\* The oldest buffer is a delayed write: start the write and look again.
GetblkWriteBack(p) ==
  /\ Missing(p)
  /\ fl[Victims] # <<>>
  /\ LET b == fl[Victims][1] IN
       /\ "DELWRI" \in flags[b]
       /\ NotAvail(Victims, 1)
       /\ BwriteStart(b, flags[b] \cup {"BUSY", "ASYNC"})
       /\ cand' = [cand EXCEPT ![p] = b]
  /\ wdel' = [wdel EXCEPT ![p] = TRUE]
  /\ Goto(p, "started")
  /\ UNCHANGED <<blk, data, freeWanted, disk, callVars, wchan, ret, bp, rabp,
                 err, file>>

\* The oldest buffer is clean: it becomes the buffer of the block.
GetblkReassign(p) ==
  /\ Missing(p)
  /\ fl[Victims] # <<>>
  /\ LET b == fl[Victims][1] IN
       /\ "DELWRI" \notin flags[b]
       /\ NotAvail(Victims, 1)
       /\ flags' = [flags EXCEPT ![b] = IF pc[p] = "geteblk"
                                        THEN {"BUSY", "INVAL"} ELSE {"BUSY"}]
       /\ blk' = [blk EXCEPT ![b] = Want(p)]
       /\ Deliver(p, b)
  /\ UNCHANGED <<data, freeWanted, ioVars, callVars, wchan, ret, cand, wdel, err,
                 file>>

-----------------------------------------------------------------------------
(* bread and breada, after getblk.                                         *)

\* The buffer is handed to the caller, which may sleep while it holds it.
Hold(p) == pc' = [pc EXCEPT ![p] = "hold"] /\ cpu' = NoProc

\* getblk and geteblk were called by the file system itself.
GotBuffer(p) ==
  /\ pc[p] = "got" /\ ret[p] \in {"getblk", "geteblk"} /\ Running(p)
  /\ Hold(p)
  /\ UNCHANGED <<bufVars, ioVars, callVars, wchan, ret, bp, rabp, cand, wdel,
                 err, file>>

\* bread and the first half of breada: read the block unless it is there.
GotForRead(p) ==
  /\ pc[p] = "got" /\ ret[p] \in {"bread", "breada"} /\ Running(p)
  /\ IF "DONE" \in flags[bp[p]]
     THEN /\ IF ret[p] = "bread" THEN Hold(p) ELSE Goto(p, "readahead")
          /\ UNCHANGED <<flags, ioq>>
     ELSE /\ ReadStart(bp[p], {})
          /\ Goto(p, IF ret[p] = "bread" THEN "iowait" ELSE "readahead")
  /\ UNCHANGED <<blk, data, fl, freeWanted, disk, callVars, wchan, ret, bp, rabp,
                 cand, wdel, err, file>>

\* The end of breada: wait for the block, or start again with bread.
AfterReadahead(p) ==
  IF bp[p] = NoBuf
  THEN Goto(p, "getblk") /\ ret' = [ret EXCEPT ![p] = "bread"]
  ELSE Goto(p, "iowait") /\ ret' = [ret EXCEPT ![p] = "breada"]

\* if (rablkno && !incore(dev, rablkno))
Readahead(p) ==
  /\ pc[p] = "readahead" /\ Running(p)
  /\ IF rablkno[p] # NoBlk /\ ~Incore(rablkno[p])
     THEN Goto(p, "getblk") /\ ret' = [ret EXCEPT ![p] = "readahead"]
     ELSE AfterReadahead(p)
  /\ UNCHANGED <<bufVars, ioVars, callVars, wchan, bp, rabp, cand, wdel, err,
                 file>>

\* The read-ahead block turned out to be in the cache.
ReadaheadCached(p) ==
  /\ pc[p] = "got" /\ ret[p] = "readahead" /\ Running(p)
  /\ "DONE" \in flags[rabp[p]]
  /\ Brelse(rabp[p], flags[rabp[p]])
  /\ rabp' = [rabp EXCEPT ![p] = NoBuf]
  /\ AfterReadahead(p)
  /\ UNCHANGED <<data, ioVars, callVars, bp, cand, wdel, err, file>>

\* Start reading it; iodone will release it.
ReadaheadStart(p) ==
  /\ pc[p] = "got" /\ ret[p] = "readahead" /\ Running(p)
  /\ "DONE" \notin flags[rabp[p]]
  /\ ReadStart(rabp[p], {"ASYNC"})
  /\ rabp' = [rabp EXCEPT ![p] = NoBuf]
  /\ AfterReadahead(p)
  /\ UNCHANGED <<blk, data, fl, freeWanted, disk, callVars, wchan, bp, cand,
                 wdel, err, file>>

-----------------------------------------------------------------------------
(* iowait.                                                                 *)

\* Mutant: B_DONE is not tested before the sleep.
IowaitSleepAlways(p) ==
  /\ pc[p] = "iowait" /\ Running(p)
  /\ Sleep(p, bp[p])
  /\ UNCHANGED <<bufVars, ioVars, callVars, pc, ret, bp, rabp, cand, wdel, err,
                 file>>

IowaitSleep(p) ==
  /\ pc[p] = "iowait" /\ Running(p)
  /\ "DONE" \notin flags[bp[p]]
  /\ Sleep(p, bp[p])
  /\ UNCHANGED <<bufVars, ioVars, callVars, pc, ret, bp, rabp, cand, wdel, err,
                 file>>

\* geterror(bp)
Geterror(p, b) == err' = [err EXCEPT ![p] = @ \/ "ERROR" \in flags[b]]

\* bread and breada return.
BreadDone(p) ==
  /\ pc[p] = "iowait" /\ ret[p] \in {"bread", "breada"} /\ Running(p)
  /\ "DONE" \in flags[bp[p]]
  /\ Geterror(p, bp[p])
  /\ Hold(p)
  /\ UNCHANGED <<bufVars, ioVars, callVars, wchan, ret, bp, rabp, cand, wdel,
                 file>>

\* bwrite without B_ASYNC: release the buffer.  update() goes on to bflush.
BwriteDone(p) ==
  /\ pc[p] = "iowait" /\ ret[p] \in {"bwrite", "update"} /\ Running(p)
  /\ "DONE" \in flags[bp[p]]
  /\ Brelse(bp[p], flags[bp[p]])
  /\ bp' = [bp EXCEPT ![p] = NoBuf]
  /\ IF ret[p] = "bwrite"
     THEN Return(p) /\ UNCHANGED updlock
     ELSE /\ Geterror(p, bp[p])
          /\ Goto(p, "bflush")
          /\ ret' = [ret EXCEPT ![p] = "bflush"]
          /\ updlock' = FALSE
          /\ UNCHANGED argVars
  /\ UNCHANGED <<data, ioVars, mbuf, rabp, cand, wdel, file>>

-----------------------------------------------------------------------------
(* The caller has the buffer.                                              *)

Holding(p) == pc[p] = "hold" /\ Running(p)

\* readi, and every caller that got an error: brelse, with or without B_AGE.
Release(p, age) ==
  /\ Holding(p)
  /\ Brelse(bp[p], flags[bp[p]] \cup age)
  /\ bp' = [bp EXCEPT ![p] = NoBuf]
  /\ Return(p)
  /\ UNCHANGED <<data, ioVars, mntVars, rabp, cand, wdel, file>>

\* writei: the caller may write, and has put v into the buffer.
Modify(p, v) ==
  /\ Holding(p)
  /\ ret[p] \in {"bread", "getblk"} /\ ~err[p] /\ blkno[p] \notin Super
  /\ data' = [data EXCEPT ![bp[p]] = v]
  /\ file' = [file EXCEPT ![blkno[p]] = v]

\* bdwrite(bp) on a disk; on a magtape it is bawrite.
Bdwrite(p, v) ==
  /\ Modify(p, v)
  /\ Brelse(bp[p], flags[bp[p]] \cup {"DELWRI", "DONE"})
  /\ bp' = [bp EXCEPT ![p] = NoBuf]
  /\ Return(p)
  /\ UNCHANGED <<ioVars, mntVars, rabp, cand, wdel>>

\* bwrite(bp)
Bwrite(p, v) ==
  /\ Modify(p, v)
  /\ BwriteStart(bp[p], flags[bp[p]])
  /\ ret' = [ret EXCEPT ![p] = "bwrite"]
  /\ Goto(p, "iowait")
  /\ UNCHANGED <<blk, fl, freeWanted, disk, callVars, wchan, bp, rabp, cand,
                 wdel, err>>

\* bawrite(bp)
Bawrite(p, v) ==
  /\ Modify(p, v)
  /\ BwriteStart(bp[p], flags[bp[p]] \cup {"ASYNC"})
  /\ wdel' = [wdel EXCEPT ![p] = "DELWRI" \in flags[bp[p]]]
  /\ cand' = [cand EXCEPT ![p] = bp[p]]
  /\ bp' = [bp EXCEPT ![p] = NoBuf]
  /\ ret' = [ret EXCEPT ![p] = "bwrite"]
  /\ Goto(p, "started")
  /\ UNCHANGED <<blk, fl, freeWanted, disk, callVars, wchan, rabp, err>>

\* fsmount: keep the superblock in the cache.
LockSuper(p) ==
  /\ Holding(p)
  /\ ret[p] = "bread" /\ blkno[p] \in Super /\ ~err[p] /\ mbuf[blkno[p]] = NoBuf
  /\ mbuf' = [mbuf EXCEPT ![blkno[p]] = bp[p]]
  /\ Brelse(bp[p], flags[bp[p]] \cup {"LOCKED"})
  /\ bp' = [bp EXCEPT ![p] = NoBuf]
  /\ Return(p)
  /\ UNCHANGED <<data, ioVars, updlock, rabp, cand, wdel, file>>

\* update: the superblock is in the buffer it was mounted from; bwrite it.
UpdateGot(p) ==
  /\ pc[p] = "got" /\ ret[p] = "update" /\ Running(p)
  /\ BwriteStart(bp[p], flags[bp[p]])
  /\ Goto(p, "iowait")
  /\ UNCHANGED <<blk, data, fl, freeWanted, disk, callVars, wchan, ret, bp, rabp,
                 cand, wdel, err, file>>

-----------------------------------------------------------------------------
(* The rest of an asynchronous bwrite, and bflush.                         *)

\* Where the caller of an asynchronous bwrite goes on.
Continue(p) == CASE ret[p] = "bwrite" -> "user"
                 [] ret[p] = "geteblk" -> "geteblk"
                 [] ret[p] \in {"bflush", "close"} -> "bflush"
                 [] OTHER -> "getblk"

\* The strategy routine returned; the transfer may be over already.
BwriteStarted(p) ==
  /\ pc[p] = "started" /\ Running(p)
  /\ flags' = IF wdel[p] THEN [flags EXCEPT ![cand[p]] = @ \cup {"AGE"}] ELSE flags
  /\ cand' = [cand EXCEPT ![p] = NoBuf]
  /\ wdel' = [wdel EXCEPT ![p] = FALSE]
  /\ IF ret[p] = "bwrite"
     THEN Return(p)
     ELSE /\ IF wdel[p] THEN UNCHANGED err ELSE Geterror(p, cand[p])
          /\ Goto(p, Continue(p))
          /\ UNCHANGED <<ret, argVars>>
  /\ UNCHANGED <<blk, data, fl, freeWanted, ioVars, mntVars, wchan, bp, rabp, file>>

\* b_flags&B_DELWRI && (dev == NODEV || dev == bp->b_dev)
ToFlush(p, b) == /\ "DELWRI" \in flags[b]
                 /\ \/ fdev[p] = NoDev
                    \/ blk[b] \in Blks /\ DevOf[blk[b]] = fdev[p]

BflushOne(p) ==
  /\ pc[p] = "bflush" /\ Running(p)
  /\ \E q \in Queue : \E i \in DOMAIN fl[q] :
       LET b == fl[q][i] IN
         /\ ToFlush(p, b)
         /\ NotAvail(q, i)
         /\ BwriteStart(b, flags[b] \cup {"BUSY", "ASYNC"})
         /\ cand' = [cand EXCEPT ![p] = b]
  /\ wdel' = [wdel EXCEPT ![p] = TRUE]
  /\ Goto(p, "started")
  /\ UNCHANGED <<blk, data, freeWanted, disk, callVars, wchan, ret, bp, rabp,
                 err, file>>

\* bflush returns; closef calls binval.
BflushDone(p) ==
  /\ pc[p] = "bflush" /\ Running(p)
  /\ \A q \in Queue : \A i \in DOMAIN fl[q] : ~ToFlush(p, fl[q][i])
  /\ flags' = [b \in Bufs |->
                 IF ret[p] = "close" /\ blk[b] \in Blks /\ DevOf[blk[b]] = fdev[p]
                 THEN flags[b] \cup {"INVAL"} ELSE flags[b]]
  /\ Return(p)
  /\ UNCHANGED <<blk, data, fl, freeWanted, ioVars, mntVars, wchan, bp, rabp,
                 cand, wdel, file>>

-----------------------------------------------------------------------------
(* The interrupt of the disk.                                              *)

\* Mutant: the driver takes requests for one block in any order.
OldestAny(i) == TRUE

\* disksort never moves a request past another one for the same block.
Oldest(i) == \A j \in 1 .. i - 1 : blk[ioq[j]] # blk[ioq[i]]

CanFail(b) == (IF "ASYNC" \in flags[b] THEN "async" ELSE "sync") \in Faulty

\* Buffer c has contents of block x that are still to reach the disk.
Newer(c, x) == /\ blk[c] = x
               /\ \/ "DELWRI" \in flags[c]
                  \/ c \in ToSet(ioq) /\ "READ" \notin flags[c]

\* The transfer of request i is over, and the driver calls iodone.
Iodone(i, ok) ==
  LET b == ioq[i]
      x == blk[b]
      f == flags[b] \cup {"DONE"} \cup (IF ok THEN {} ELSE {"ERROR"})
      reading == "READ" \in flags[b]
  IN /\ Oldest(i)
     /\ IF ok THEN x \in Blks ELSE CanFail(b) \/ x \notin Blks
     /\ ioq' = RemoveAt(ioq, i)
     /\ data' = IF ok /\ reading THEN [data EXCEPT ![b] = disk[x]] ELSE data
     /\ disk' = IF ok /\ ~reading THEN [disk EXCEPT ![x] = data[b]] ELSE disk
     /\ file' = IF ~ok /\ ~reading /\ x \in Blks /\ "LOCKED" \notin f
                   /\ \A c \in Bufs \ {b} : ~Newer(c, x)
                THEN [file EXCEPT ![x] = disk[x]] ELSE file
     /\ IF "ASYNC" \in f
        THEN Brelse(b, f)
        ELSE /\ flags' = [flags EXCEPT ![b] = f \ {"WANTED"}]
             /\ wchan' = [p \in Procs |-> IF wchan[p] = b THEN NoBuf ELSE wchan[p]]
             /\ UNCHANGED <<blk, fl, freeWanted>>
     /\ UNCHANGED <<cpu, pc, ret, callVars, bp, rabp, cand, wdel, err>>

-----------------------------------------------------------------------------
UserStep(p) ==
  \/ "bread" \in Calls /\ \E x \in Blks : Bread(p, x)
  \/ "breada" \in Calls /\ \E x, ra \in Blks : Breada(p, x, ra)
  \/ "getblk" \in Calls /\ \E x \in Blks : Getblk(p, x)
  \/ "geteblk" \in Calls /\ Geteblk(p)
  \/ "sync" \in Calls /\ (Sync(p) \/ \E x \in Super : UpdateSuper(p, x))
  \/ "close" \in Calls /\ \E d \in Devs : LastClose(p, d)

HoldStep(p) ==
  \/ \E age \in {{}, {"AGE"}} : Release(p, age)
  \/ \E v \in Vals : Bdwrite(p, v) \/ Bwrite(p, v) \/ Bawrite(p, v)
  \/ LockSuper(p)

KernelStep(p) ==
  \/ GetblkFind(p) \/ GetblkWait(p) \/ GetblkHit(p)
  \/ GetblkNoFree(p) \/ GetblkWriteBack(p) \/ GetblkReassign(p)
  \/ GotBuffer(p) \/ GotForRead(p) \/ UpdateGot(p)
  \/ Readahead(p) \/ ReadaheadCached(p) \/ ReadaheadStart(p)
  \/ IowaitSleep(p) \/ BreadDone(p) \/ BwriteDone(p)
  \/ BwriteStarted(p) \/ BflushOne(p) \/ BflushDone(p)

Complete(i) == \E ok \in BOOLEAN : Iodone(i, ok)
Interrupt == \E i \in DOMAIN ioq : Complete(i)

Next == \/ \E p \in Procs : UserStep(p) \/ HoldStep(p) \/ KernelStep(p)
        \/ Interrupt

Spec == Init /\ [][Next]_vars

\* The scheduler runs every process that stays ready, a caller gives back what
\* it holds, and the drivers complete every request.
FairSpec ==
  /\ Spec
  /\ \A p \in Procs : SF_vars(KernelStep(p)) /\ SF_vars(HoldStep(p))
  /\ \A b \in Bufs : WF_vars(\E i \in DOMAIN ioq : ioq[i] = b /\ Complete(i))

-----------------------------------------------------------------------------
(* What must hold.                                                         *)

\* Every variable ranges over the values its declaration in the code allows.
TypeOK ==
  /\ flags \in [Bufs -> SUBSET Flag]
  /\ blk \in [Bufs -> Blks \cup {NoBlk}]
  /\ data \in [Bufs -> Vals]
  /\ fl \in [Queue -> Seq(Bufs)]
  /\ freeWanted \in BOOLEAN
  /\ ioq \in Seq(Bufs)
  /\ disk \in [Blks -> Vals]
  /\ cpu \in Procs \cup {NoProc}
  /\ wchan \in [Procs -> Bufs \cup {NoBuf, FreeList}]
  /\ pc \in [Procs -> PC]
  /\ ret \in [Procs -> Caller]
  /\ blkno \in [Procs -> Blks \cup {NoBlk}]
  /\ rablkno \in [Procs -> Blks \cup {NoBlk}]
  /\ bp \in [Procs -> Bufs \cup {NoBuf}]
  /\ rabp \in [Procs -> Bufs \cup {NoBuf}]
  /\ cand \in [Procs -> Bufs \cup {NoBuf}]
  /\ wdel \in [Procs -> BOOLEAN]
  /\ err \in [Procs -> BOOLEAN]
  /\ fdev \in [Procs -> Devs \cup {NoDev}]
  /\ updlock \in BOOLEAN
  /\ mbuf \in [Super -> Bufs \cup {NoBuf}]
  /\ file \in [Blks -> Vals]

InFlight(b) == b \in ToSet(ioq)
Holds(p, b) == bp[p] = b \/ rabp[p] = b

\* A buffer is on one list, once, or checked out (buf.h: "when not on one of
\* these queues, the buffers are checked out"), and B_BUSY tells which.
FreeListsOK ==
  /\ \A q \in Queue : IsInjective(fl[q])
  /\ \A q, r \in Queue : q # r => ToSet(fl[q]) \cap ToSet(fl[r]) = {}
  /\ \A b \in Bufs : (\E q \in Queue : b \in ToSet(fl[q])) <=> "BUSY" \notin flags[b]

\* A buffer that is checked out has one owner: one process that holds it, or
\* the driver when the transfer is asynchronous.
OneOwner ==
  /\ \A p, q \in Procs : \A b \in Bufs : Holds(p, b) /\ Holds(q, b) => p = q
  /\ \A p \in Procs : bp[p] = rabp[p] => bp[p] = NoBuf
  /\ \A p \in Procs : \A b \in Bufs :
       Holds(p, b) => "BUSY" \in flags[b] /\ "ASYNC" \notin flags[b]
  /\ \A b \in Bufs : "BUSY" \in flags[b] =>
       (\E p \in Procs : Holds(p, b)) \/ ("ASYNC" \in flags[b] /\ InFlight(b))

\* The driver has each request once, and it is not done yet: iodone never
\* finds B_DONE set ("dup iodone").
RequestsOK ==
  /\ IsInjective(ioq)
  /\ \A b \in Bufs : InFlight(b) => "BUSY" \in flags[b] /\ "DONE" \notin flags[b]

\* Nobody sleeps for a wakeup that will not come.
NoLostWakeup ==
  \A p \in Procs :
    /\ wchan[p] = FreeList =>
         freeWanted /\ fl["AGE"] = <<>> /\ fl["LRU"] = <<>>
    /\ wchan[p] \in Bufs =>
         IF pc[p] = "iowait"
         THEN InFlight(wchan[p]) /\ "ASYNC" \notin flags[wchan[p]]
         ELSE {"BUSY", "WANTED"} \subseteq flags[wchan[p]]

\* At most one valid buffer per block.
UniqueBlock ==
  \A b, c \in Bufs : \A x \in Blks : Matches(b, x) /\ Matches(c, x) => b = c

\* getblk, bread and breada return the block they were asked for, or report
\* the error; update and umount find the superblock in the buffer it was
\* mounted from (panic: update, panic: umount).
RightBlock ==
  /\ \A p \in Procs :
       /\ pc[p] = "hold" /\ ret[p] # "geteblk" /\ ~err[p] => blk[bp[p]] = blkno[p]
       /\ pc[p] = "got" /\ ret[p] = "update" => bp[p] = mbuf[blkno[p]]
  /\ \A x \in Super : mbuf[x] # NoBuf => Matches(mbuf[x], x)

\* When bwrite has waited without error, the block is on the disk.
SyncWriteDurable ==
  \A p \in Procs :
    pc[p] = "iowait" /\ ret[p] = "bwrite" /\ flags[bp[p]] \cap {"DONE", "ERROR"} = {"DONE"}
      => disk[blkno[p]] = data[bp[p]]

\* A process that sleeps is woken up.
SleeperWakes == \A p \in Procs : wchan[p] # NoBuf ~> wchan[p] = NoBuf


\* The processes that wait for buffers are not all waiting for each other:
\* some process can run, or a transfer is under way.
NotStuck == (\E p \in Procs : wchan[p] = NoBuf) \/ ioq # <<>>

-----------------------------------------------------------------------------
(* The cache implements BlockStore: a block is lent from the moment bread, *)
(* breada or getblk hands over its buffer until the caller gives it back.  *)

Lent(p) == pc[p] = "hold" /\ ret[p] # "geteblk" /\ ~err[p]

Store == INSTANCE BlockStore WITH
  content <- file,
  way <- [x \in Blks |-> LET w == SelectSeq(ioq, LAMBDA b : Newer(b, x))
                         IN  [i \in DOMAIN w |-> data[w[i]]]],
  stable <- disk,
  lent <- [p \in Procs |-> IF Lent(p) THEN blkno[p] ELSE NoBlk],
  view <- [p \in Procs |-> IF Lent(p) /\ ret[p] # "getblk" THEN data[bp[p]] ELSE NoBuf],
  NoVal <- NoBuf,
  Lossy <- Faulty # {}

\* Reads see the last write, writes are not mixed up or lost but by an error,
\* and a buffer is lent to one process at a time.
ImplementsBlockStore == Store!Spec
=============================================================================
