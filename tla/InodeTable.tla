----------------------------- MODULE InodeTable -----------------------------
(***************************************************************************)
(* The in-core inodes of the kernel and the free inodes of a volume:       *)
(* sys/iget.c, plock and prele, and the inode half of sys/alloc.c.         *)
(*                                                                         *)
(* A process in the kernel runs until it may sleep; cpu names it, and is   *)
(* NoProc when any process may go on.  Where the code waits for the disk   *)
(* (bread, bwrite, free) the process gives up the cpu; it need not sleep,  *)
(* for the block may be in the buffer cache.  dino is the ilist as the     *)
(* cache has it.                                                           *)
(*                                                                         *)
(* The routines call each other, so u[p].stk is the kernel stack of p: the *)
(* labels at which its callers go on.  The arguments and results are       *)
(* fields of u[p] too: ino for iget, ip for what iget returns and what     *)
(* iput, plock, iupdat and itrunc are given.                               *)
(*                                                                         *)
(* One local volume (fstyp 0) that is writable, without mounts on it.  The *)
(* hash chains only find a slot by its number: a slot is on one when num   *)
(* is not 0.                                                               *)
(***************************************************************************)
EXTENDS Integers, SequencesExt, FiniteSets

CONSTANTS
  Procs,    \* processes
  NSlots,   \* ninode, the size of the in-core table
  MaxIno,   \* the last inode of the volume
  INOPB,    \* inodes in a block of the ilist
  NICINOD,  \* length of s_inode
  Names,    \* names of directory entries
  Faulty,   \* what may go wrong: a subset of Fault
  NoProc

ROOTINO == 2
Inodes == ROOTINO..MaxIno
Slots == 1..NSlots
Awake == 0                 \* p_wchan of a process that does not sleep
IlockChan == NSlots + 1    \* the channel &fp->s_ilock

\* Blocks of the ilist that cannot be read, in three places, and directory
\* blocks; no room in a directory on a full disk; no room for an open file.
Fault == {"iget", "iupdat", "search", "dsearch", "writei", "falloc"}
Mode == {"FREE", "REG", "DIR"}
BlockOf(i) == (i + INOPB - 1) \div INOPB   \* itod(), from 1 on
LastBlock == BlockOf(MaxIno)

ASSUME TableAssumption ==
  /\ IsFiniteSet(Procs) /\ NoProc \notin Procs /\ IsFiniteSet(Names)
  /\ NSlots \in Nat \ {0} /\ INOPB \in Nat \ {0} /\ NICINOD \in Nat \ {0}
  /\ MaxIno \in Nat /\ MaxIno >= ROOTINO
  /\ INOPB >= ROOTINO
  /\ Faulty \subseteq Fault

VARIABLES
  inode,   \* the in-core table: num, lock, want, upd, count, mode, nlink
  freel,   \* the free list that starts at ifreel
  dino,    \* the inodes of the volume: mode, nlink
  dir,     \* contents of the directories: an inode number or 0 per name
  sinode,  \* s_inode[0..s_ninode-1]
  silock,  \* s_ilock
  lasti,   \* s_lasti, as the block it is the first inode of
  nbehind, \* s_nbehind
  cpu,     \* the process that is running in the kernel
  wchan,   \* p_wchan
  u        \* the kernel stack and the locals of every process

fsVars == <<sinode, silock, lasti, nbehind>>
volVars == <<dino, dir, fsVars>>

-----------------------------------------------------------------------------
(* Processes.                                                              *)

At(p, label) == /\ u[p].pc = label
                /\ wchan[p] = Awake
                /\ cpu \in {p, NoProc}

\* What becomes of u[p] after a call, a return, a jump.
Calling(r, label, then) == [r EXCEPT !.pc = label, !.stk = then \o @]
Returning(r) == [r EXCEPT !.pc = Head(r.stk), !.stk = Tail(r.stk)]

\* u_error is set: nothing takes it back before the call returns.
Fails(r) == [r EXCEPT !.err = TRUE]

Go(p, r) == u' = [u EXCEPT ![p] = r]
Goto(p, label) == Go(p, [u[p] EXCEPT !.pc = label])

RunsOn(p) == cpu' = p /\ UNCHANGED wchan
MaySleep == cpu' = NoProc /\ UNCHANGED wchan
SleepOn(p, chan) == cpu' = NoProc /\ wchan' = [wchan EXCEPT ![p] = chan]

\* wchan after wakeup(chan).
Awakened(chan) == [q \in Procs |-> IF wchan[q] = chan THEN Awake ELSE wchan[q]]

-----------------------------------------------------------------------------
(* The lock of an inode.  held is a ghost: the slots a process has locked. *)

\* The inode is locked: set IWANT and sleep.  The caller tries again.
WaitForLock(p, s) == /\ inode[s].lock
                     /\ inode' = [inode EXCEPT ![s].want = TRUE]
                     /\ SleepOn(p, s)
                     /\ UNCHANGED u

\* prele() on the slot with record r, with what else changes in r.
Released(r) == [r EXCEPT !.lock = FALSE, !.want = FALSE]
PreleWakes(s) == wchan' = IF inode[s].want THEN Awakened(s) ELSE wchan

PlockWait(p) == /\ At(p, "plock")
                /\ WaitForLock(p, u[p].ip)
                /\ UNCHANGED <<freel, volVars>>

Plock(p) == LET s == u[p].ip IN
  /\ At(p, "plock")
  /\ ~inode[s].lock
  /\ inode' = [inode EXCEPT ![s].lock = TRUE]
  /\ Go(p, Returning([u[p] EXCEPT !.held = @ \cup {s}]))
  /\ RunsOn(p)
  /\ UNCHANGED <<freel, volVars>>

-----------------------------------------------------------------------------
(* iget(dev, ino).                                                         *)

\* Mutant: the search passes over locked inodes.
InCoreUnlocked(i) == {s \in Slots : inode[s].num = i /\ ~inode[s].lock}

InCore(i) == {s \in Slots : inode[s].num = i}

IgetWait(p) ==
  /\ At(p, "iget")
  /\ \E s \in InCore(u[p].ino) : WaitForLock(p, s)
  /\ UNCHANGED <<freel, volVars>>

\* Mutant: the lock is not looked at.
IgetHitLocked(p) ==
  /\ At(p, "iget")
  /\ \E s \in InCore(u[p].ino) :
       /\ inode' = [inode EXCEPT ![s].lock = TRUE, ![s].count = @ + 1]
       /\ Go(p, Returning([u[p] EXCEPT !.ip = s, !.held = @ \cup {s}]))
  /\ RunsOn(p)
  /\ UNCHANGED <<freel, volVars>>

\* Mutant: no i_count++.
IgetHitUncounted(p) ==
  /\ At(p, "iget")
  /\ \E s \in InCore(u[p].ino) :
       /\ ~inode[s].lock
       /\ inode' = [inode EXCEPT ![s].lock = TRUE]
       /\ Go(p, Returning([u[p] EXCEPT !.ip = s, !.held = @ \cup {s}]))
  /\ RunsOn(p)
  /\ UNCHANGED <<freel, volVars>>

IgetHit(p) ==
  /\ At(p, "iget")
  /\ \E s \in InCore(u[p].ino) :
       /\ ~inode[s].lock
       /\ inode' = [inode EXCEPT ![s].lock = TRUE, ![s].count = @ + 1]
       /\ Go(p, Returning([u[p] EXCEPT !.ip = s, !.held = @ \cup {s}]))
  /\ RunsOn(p)
  /\ UNCHANGED <<freel, volVars>>

\* tablefull("inode")
IgetFull(p) ==
  /\ At(p, "iget")
  /\ InCore(u[p].ino) = {} /\ freel = <<>>
  /\ Go(p, Fails(Returning([u[p] EXCEPT !.ip = 0])))
  /\ RunsOn(p)
  /\ UNCHANGED <<inode, freel, volVars>>

\* Take a slot.  i_mode and i_nlink keep what the last inode left in it
\* until the block has been read.
IgetMiss(p) ==
  /\ At(p, "iget")
  /\ InCore(u[p].ino) = {} /\ freel # <<>>
  /\ LET s == Head(freel) IN
       /\ inode' = [inode EXCEPT ![s] = [inode[s] EXCEPT !.num = u[p].ino, !.lock = TRUE,
                                  !.want = FALSE, !.upd = FALSE, !.count = @ + 1]]
       /\ Go(p, [u[p] EXCEPT !.pc = "igetRead", !.ip = s, !.held = @ \cup {s}])
  /\ freel' = Tail(freel)
  /\ MaySleep
  /\ UNCHANGED volVars

IgetRead(p) == LET s == u[p].ip IN
  /\ At(p, "igetRead")
  /\ inode' = [inode EXCEPT ![s].mode = dino[inode[s].num].mode,
                            ![s].nlink = dino[inode[s].num].nlink]
  /\ Go(p, Returning(u[p]))
  /\ RunsOn(p)
  /\ UNCHANGED <<freel, volVars>>

IgetError(p) ==
  /\ "iget" \in Faulty
  /\ At(p, "igetRead")
  /\ Go(p, Fails(Calling(u[p], "iput", <<"igetNull">>)))
  /\ RunsOn(p)
  /\ UNCHANGED <<inode, freel, volVars>>

IgetNull(p) ==
  /\ At(p, "igetNull")
  /\ Go(p, Returning([u[p] EXCEPT !.ip = 0]))
  /\ RunsOn(p)
  /\ UNCHANGED <<inode, freel, volVars>>

-----------------------------------------------------------------------------
(* getfs: the consistency check of the counts in the superblock.           *)
Checked(list) == IF Len(list) > NICINOD THEN <<>> ELSE list

(* ifree(dev, ino)                                                         *)
Ifree(i) ==
  /\ IF silock = 0 /\ Len(Checked(sinode)) < NICINOD
     THEN sinode' = Append(Checked(sinode), i)
     ELSE sinode' = Checked(sinode)
  /\ IF silock = 0 /\ Len(Checked(sinode)) >= NICINOD /\ lasti > BlockOf(i)
     THEN nbehind' = nbehind + 1
     ELSE UNCHANGED nbehind
  /\ UNCHANGED <<silock, lasti>>

-----------------------------------------------------------------------------
(* iput(ip), and what it calls for the last reference.                     *)

IputShared(p) == LET s == u[p].ip IN
  /\ At(p, "iput")
  /\ inode[s].count > 1
  /\ inode' = [inode EXCEPT ![s] = [Released(inode[s]) EXCEPT !.count = @ - 1]]
  /\ PreleWakes(s)
  /\ cpu' = p
  /\ Go(p, Returning([u[p] EXCEPT !.held = @ \ {s}]))
  /\ UNCHANGED <<freel, volVars>>

\* Mutant: an inode without links is kept.
IputLastKept(p) == LET s == u[p].ip IN
  /\ At(p, "iput")
  /\ inode[s].count = 1
  /\ inode' = [inode EXCEPT ![s].lock = TRUE]
  /\ LET r == [u[p] EXCEPT !.held = @ \cup {s}, !.wait = FALSE]
     IN  IF inode[s].nlink < 0
         THEN Go(p, Calling(r, "itrunc", <<"iputFree">>))
         ELSE Go(p, Calling(r, "iupdat", <<"iputDone">>))
  /\ RunsOn(p)
  /\ UNCHANGED <<freel, volVars>>

\* The last reference goes: write the inode, and free it when it has no
\* links.
IputLast(p) == LET s == u[p].ip IN
  /\ At(p, "iput")
  /\ inode[s].count = 1
  /\ inode' = [inode EXCEPT ![s].lock = TRUE]
  /\ LET r == [u[p] EXCEPT !.held = @ \cup {s}, !.wait = FALSE]
     IN  IF inode[s].nlink <= 0
         THEN Go(p, Calling(r, "itrunc", <<"iputFree">>))
         ELSE Go(p, Calling(r, "iupdat", <<"iputDone">>))
  /\ RunsOn(p)
  /\ UNCHANGED <<freel, volVars>>

IputFree(p) == LET s == u[p].ip IN
  /\ At(p, "iputFree")
  /\ inode' = [inode EXCEPT ![s].mode = "FREE", ![s].upd = TRUE]
  /\ Ifree(inode[s].num)
  /\ Go(p, Calling(u[p], "iupdat", <<"iputDone">>))
  /\ RunsOn(p)
  /\ UNCHANGED <<freel, dino, dir>>

IputDone(p) == LET s == u[p].ip IN
  /\ At(p, "iputDone")
  /\ inode' = [inode EXCEPT ![s] = [Released(inode[s]) EXCEPT !.num = 0, !.upd = FALSE,
                                                                 !.count = @ - 1]]
  /\ freel' = <<s>> \o freel
  /\ PreleWakes(s)
  /\ cpu' = p
  /\ Go(p, Returning([u[p] EXCEPT !.held = @ \ {s}]))
  /\ UNCHANGED volVars

-----------------------------------------------------------------------------
(* iupdat(ip, waitfor)                                                     *)

IupdatClean(p) ==
  /\ At(p, "iupdat")
  /\ ~inode[u[p].ip].upd
  /\ Go(p, Returning(u[p]))
  /\ RunsOn(p)
  /\ UNCHANGED <<inode, freel, volVars>>

Iupdat(p) ==
  /\ At(p, "iupdat")
  /\ inode[u[p].ip].upd
  /\ sinode' = Checked(sinode)
  /\ Goto(p, "iupdatRead")
  /\ MaySleep
  /\ UNCHANGED <<inode, freel, dino, dir, silock, lasti, nbehind>>

\* The block has been read: change it, and wait for the write if waitfor.
IupdatWrite(p) == LET s == u[p].ip IN
  /\ At(p, "iupdatRead")
  /\ dino' = [dino EXCEPT ![inode[s].num] =
                [mode |-> inode[s].mode, nlink |-> inode[s].nlink]]
  /\ inode' = [inode EXCEPT ![s].upd = FALSE]
  /\ Go(p, Returning(u[p]))
  /\ IF u[p].wait THEN MaySleep ELSE RunsOn(p)
  /\ UNCHANGED <<freel, dir, fsVars>>

IupdatError(p) ==
  /\ "iupdat" \in Faulty
  /\ At(p, "iupdatRead")
  /\ Go(p, Fails(Returning(u[p])))
  /\ RunsOn(p)
  /\ UNCHANGED <<inode, freel, volVars>>

-----------------------------------------------------------------------------
(* itrunc(ip)                                                              *)

ItruncSpecial(p) ==
  /\ At(p, "itrunc")
  /\ inode[u[p].ip].mode = "FREE"
  /\ Go(p, Returning(u[p]))
  /\ RunsOn(p)
  /\ UNCHANGED <<inode, freel, volVars>>

\* Copy the inode to itmp; iupdat(&itmp) reads the block.
Itrunc(p) == LET s == u[p].ip IN
  /\ At(p, "itrunc")
  /\ inode[s].mode # "FREE"
  /\ sinode' = Checked(sinode)
  /\ Go(p, [u[p] EXCEPT !.pc = "itruncRead",
                        !.itmp = [mode |-> inode[s].mode, nlink |-> inode[s].nlink]])
  /\ MaySleep
  /\ UNCHANGED <<inode, freel, dino, dir, silock, lasti, nbehind>>

ItruncWrite(p) ==
  /\ At(p, "itruncRead")
  /\ dino' = [dino EXCEPT ![inode[u[p].ip].num] = u[p].itmp]
  /\ Goto(p, "itruncFree")
  /\ MaySleep
  /\ UNCHANGED <<inode, freel, dir, fsVars>>

ItruncError(p) ==
  /\ "iupdat" \in Faulty
  /\ At(p, "itruncRead")
  /\ Go(p, Fails([u[p] EXCEPT !.pc = "itruncFree"]))
  /\ RunsOn(p)
  /\ UNCHANGED <<inode, freel, volVars>>

\* The inode is written: give back the blocks, which may sleep.
ItruncFree(p) == LET s == u[p].ip IN
  /\ At(p, "itruncFree")
  /\ inode' = [inode EXCEPT ![s].upd = FALSE]
  /\ dir' = [dir EXCEPT ![inode[s].num] = [n \in Names |-> 0]]
  /\ Go(p, Returning(u[p]))
  /\ MaySleep
  /\ UNCHANGED <<freel, dino, fsVars>>

-----------------------------------------------------------------------------
(* ialloc(dev)                                                             *)

IallocWait(p) ==
  /\ At(p, "ialloc")
  /\ silock > 0
  /\ SleepOn(p, IlockChan)
  /\ UNCHANGED <<inode, freel, volVars, u>>

Ialloc(p) ==
  /\ At(p, "ialloc")
  /\ silock = 0
  /\ sinode' = Checked(sinode)
  /\ Goto(p, "iallocLoop")
  /\ RunsOn(p)
  /\ UNCHANGED <<inode, freel, dino, dir, silock, lasti, nbehind>>

\* Take a number from the superblock.
IallocPop(p) ==
  /\ At(p, "iallocLoop")
  /\ sinode # <<>>
  /\ sinode' = Front(sinode)
  /\ Go(p, Calling([u[p] EXCEPT !.ino = Last(sinode)], "iget", <<"iallocGot">>))
  /\ RunsOn(p)
  /\ UNCHANGED <<inode, freel, dino, dir, silock, lasti, nbehind>>

IallocGot(p) == LET s == u[p].ip IN
  /\ At(p, "iallocGot")
  /\ s # 0 => inode[s].mode = "FREE"
  /\ Go(p, Returning(u[p]))
  /\ RunsOn(p)
  /\ UNCHANGED <<inode, freel, volVars>>

\* "Inode was allocated after all.  Look some more."
IallocTaken(p) == LET s == u[p].ip IN
  /\ At(p, "iallocGot")
  /\ s # 0 /\ inode[s].mode # "FREE"
  /\ Go(p, Calling(u[p], "iput", <<"iallocLoop">>))
  /\ RunsOn(p)
  /\ UNCHANGED <<inode, freel, volVars>>

\* No numbers left: search the ilist, from s_lasti on or from the top.
IallocSearch(p) ==
  /\ At(p, "iallocLoop")
  /\ sinode = <<>>
  /\ silock' = silock + 1
  /\ LET forward == nbehind < 4 * NICINOD /\ lasti > BlockOf(ROOTINO) IN
       /\ nbehind' = IF forward THEN nbehind ELSE 0
       /\ Go(p, [u[p] EXCEPT !.pc = "search", !.first = forward,
                             !.blk = IF forward THEN lasti ELSE 1])
  /\ MaySleep
  /\ UNCHANGED <<inode, freel, dino, dir, sinode, lasti>>

\* The inodes of block b that the search takes for free.
FreeIn(b) == {i \in Inodes \ {ROOTINO} : /\ BlockOf(i) = b
                                         /\ dino[i].mode = "FREE"
                                         /\ InCore(i) = {}}

\* The search goes through a block from its first inode on.
InOrder(S) == {f \in [1..Cardinality(S) -> S] :
                 \A j, k \in DOMAIN f : j < k => f[j] < f[k]}

\* The loop over the inodes of a block stops after the entry that fills
\* s_inode, or after the first when s_inode is full already.
WithFree(list, found) ==
  LET room == IF Len(list) < NICINOD THEN NICINOD - Len(list) ELSE 1
  IN  list \o SubSeq(found, 1, IF room < Len(found) THEN room ELSE Len(found))

\* Mutant: the search never gives up.
SearchForever(p, r, list, full) ==
  LET b == r.blk
      next == ~full /\ b < LastBlock
      again == ~next /\ Len(list) < NICINOD /\ r.first
  IN  /\ At(p, "search")
      /\ sinode' = list
      /\ \/ /\ next
            /\ Go(p, [r EXCEPT !.blk = b + 1])
            /\ MaySleep
            /\ UNCHANGED <<silock, lasti, nbehind>>
         \/ /\ again
            /\ Go(p, [r EXCEPT !.blk = 1])
            /\ nbehind' = 0
            /\ MaySleep
            /\ UNCHANGED <<silock, lasti>>
         \/ /\ ~next /\ ~again
            /\ Go(p, IF list # <<>> THEN [r EXCEPT !.pc = "iallocLoop"]
                     ELSE Fails(Returning([r EXCEPT !.ip = 0])))
            /\ lasti' = b /\ silock' = 0
            /\ wchan' = Awakened(IlockChan) /\ cpu' = p
            /\ UNCHANGED nbehind
      /\ UNCHANGED <<inode, freel, dino, dir>>

\* After block b: the next one, once more from the top, or the end.
SearchOn(p, r, list, full) ==
  LET b == r.blk
      next == ~full /\ b < LastBlock
      again == ~next /\ Len(list) < NICINOD /\ r.first
  IN  /\ At(p, "search")
      /\ sinode' = list
      /\ \/ /\ next
            /\ Go(p, [r EXCEPT !.blk = b + 1])
            /\ MaySleep
            /\ UNCHANGED <<silock, lasti, nbehind>>
         \/ /\ again
            /\ Go(p, [r EXCEPT !.blk = 1, !.first = FALSE])
            /\ nbehind' = 0
            /\ MaySleep
            /\ UNCHANGED <<silock, lasti>>
         \/ /\ ~next /\ ~again
            /\ Go(p, IF list # <<>> THEN [r EXCEPT !.pc = "iallocLoop"]
                     ELSE Fails(Returning([r EXCEPT !.ip = 0])))
            /\ lasti' = b /\ silock' = 0
            /\ wchan' = Awakened(IlockChan) /\ cpu' = p
            /\ UNCHANGED nbehind
      /\ UNCHANGED <<inode, freel, dino, dir>>

SearchBlock(p) == \E found \in InOrder(FreeIn(u[p].blk)) :
  LET list == WithFree(sinode, found)
  IN  SearchOn(p, u[p], list, Len(list) >= NICINOD)

\* A block that cannot be read is passed over.
SearchError(p) == "search" \in Faulty /\ SearchOn(p, Fails(u[p]), sinode, FALSE)
=============================================================================
