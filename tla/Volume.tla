------------------------------- MODULE Volume --------------------------------
(***************************************************************************)
(* What a crash finds on the disk: the order in which the inodes, the       *)
(* entries of a directory and the blocks of a volume are written.           *)
(* ialloc, ifree, alloc and free (sys/alloc.c), iput, iupdat and itrunc     *)
(* (sys/iget.c), bmap (sys/subr.c), writei (sys/rdwri.c), the cases of      *)
(* namei that make and remove an entry (sys/nami.c), link (sys/sys2.c) and  *)
(* the delayed writes of the cache, which reach the disk in any order.      *)
(*                                                                         *)
(* The volume has one directory of one block.  Inodes are in blocks of      *)
(* their own: writing one never brings another one to the disk.             *)
(* Each thing exists up to three times: in core, in a buffer of the cache,  *)
(* and on the disk.  A crash leaves what is on the disk, so that an         *)
(* invariant of the disk is about a crash at any moment.                    *)
(***************************************************************************)
EXTENDS Integers, FiniteSets

CONSTANTS
  Proc, NoProc,
  Ino, NoIno,     \* inode numbers
  Name, NoName,   \* names in the directory
  Block,          \* data blocks
  Mixes,          \* the system calls of each process: [Proc -> SUBSET Call]s
  MaxFiles        \* bound: how many files are made

NoFile == 0       \* i_mode = 0
File == 1..MaxFiles

ASSUME VolumeAssumption ==
  /\ NoProc \notin Proc /\ NoIno \notin Ino /\ NoName \notin Name /\ MaxFiles \in Nat
  /\ IsFiniteSet(Proc) /\ IsFiniteSet(Name)
  /\ Mixes \subseteq [Proc -> SUBSET {"creat", "unlink", "link", "trunc", "write", "extend"}]

VARIABLES
  core, lock,          \* the inode table: contents, ILOCK
  cIno, dIno, delIno,  \* their blocks: cached, on disk, which are B_DELWRI
  cDir, dDir, delDir,  \* the block of the directory
  cBlk, dBlk, delBlk,  \* the data blocks
  dlock,               \* who has locked the directory
  sinode, sfree,       \* free inodes and blocks in the superblock
  pc, ip, name, blk,   \* the system call of each process, its inode, name, block
  want,                \* the entry a search found, whose inode namei is about to get
  open,                \* the file each process has open
  calls,               \* the mix in use
  made                 \* ghost: files made so far; a file's number is its identity

inodes == <<cIno, dIno, delIno>>
entries == <<cDir, dDir, delDir>>
data == <<cBlk, dBlk, delBlk>>
vars == <<core, lock, inodes, entries, data, dlock, sinode, sfree, pc, ip, name, blk, want,
          open, calls, made>>

\* meta: the blocks of a directory and the indirect blocks of a file
Inode == [file: File \cup {NoFile}, nlink: Int, addr: SUBSET Block, meta: SUBSET Block,
          chg: BOOLEAN]
FreeInode == [file |-> NoFile, nlink |-> 0, addr |-> {}, meta |-> {}, chg |-> FALSE]
NoEntry == [ino |-> NoIno, file |-> NoFile]
Entry == {NoEntry} \cup [ino: Ino, file: File]
Contents == {"data", "meta"}   \* "meta" is also a block that was cleared

TypeOK ==
  /\ core \in [Ino -> Inode] /\ lock \in [Ino -> Proc \cup {NoProc}]
  /\ cIno \in [Ino -> Inode] /\ dIno \in [Ino -> Inode] /\ delIno \subseteq Ino
  /\ cDir \in [Name -> Entry] /\ dDir \in [Name -> Entry] /\ delDir \in BOOLEAN
  /\ cBlk \in [Block -> Contents] /\ dBlk \in [Block -> Contents]
  /\ delBlk \subseteq Block /\ dlock \in Proc \cup {NoProc}
  /\ sinode \subseteq Ino /\ sfree \subseteq Block
  /\ pc \in [Proc -> {"user", "creat1", "creat2", "unlink1", "unlink2", "linkget", "link1",
                      "link2", "meta", "data", "truncget", "trunc", "free", "iput", "itrunc",
                      "ifree1", "iupdat"}]
  /\ ip \in [Proc -> Ino \cup {NoIno}] /\ open \in [Proc -> Ino \cup {NoIno}]
  /\ name \in [Proc -> Name \cup {NoName}] /\ blk \in [Proc -> SUBSET Block]
  /\ want \in [Proc -> Entry] /\ calls \in Mixes /\ made \in 0..MaxFiles

Init ==
  /\ core = [i \in Ino |-> FreeInode] /\ lock = [i \in Ino |-> NoProc]
  /\ cIno = core /\ dIno = core /\ delIno = {}
  /\ cDir = [n \in Name |-> NoEntry] /\ dDir = cDir /\ delDir = FALSE
  /\ cBlk = [b \in Block |-> "data"] /\ dBlk = cBlk /\ delBlk = {}
  /\ dlock = NoProc /\ sinode = {} /\ sfree = Block
  /\ pc = [p \in Proc |-> "user"] /\ ip = [p \in Proc |-> NoIno]
  /\ name = [p \in Proc |-> NoName] /\ blk = [p \in Proc |-> {}]
  /\ want = [p \in Proc |-> NoEntry]
  /\ open = [p \in Proc |-> NoIno] /\ calls \in Mixes /\ made = 0

-----------------------------------------------------------------------------
(* The cache *)

\* bwrite writes at once, bdwrite when a victim or update makes it.
WriteInode(i, e, sync) ==
  /\ cIno' = [cIno EXCEPT ![i] = [e EXCEPT !.chg = FALSE]]
  /\ IF sync THEN dIno' = [dIno EXCEPT ![i] = cIno'[i]] /\ delIno' = delIno \ {i}
             ELSE delIno' = delIno \cup {i} /\ UNCHANGED dIno
WriteEntry(n, e, sync) ==
  /\ cDir' = [cDir EXCEPT ![n] = e]
  /\ IF sync THEN dDir' = cDir' /\ delDir' = FALSE ELSE delDir' = TRUE /\ UNCHANGED dDir
WriteBlock(b, c, sync) ==
  /\ cBlk' = [cBlk EXCEPT ![b] = c]
  /\ IF sync THEN dBlk' = [dBlk EXCEPT ![b] = c] /\ delBlk' = delBlk \ {b}
             ELSE delBlk' = delBlk \cup {b} /\ UNCHANGED dBlk

Flush ==
  /\ \/ \E i \in delIno : /\ delIno' = delIno \ {i} /\ dIno' = [dIno EXCEPT ![i] = cIno[i]]
                          /\ UNCHANGED <<cIno, entries, data>>
     \/ /\ delDir /\ delDir' = FALSE /\ dDir' = cDir
        /\ UNCHANGED <<cDir, inodes, data>>
     \/ \E b \in delBlk : /\ delBlk' = delBlk \ {b} /\ dBlk' = [dBlk EXCEPT ![b] = cBlk[b]]
                          /\ UNCHANGED <<cBlk, inodes, entries>>
  /\ UNCHANGED <<core, lock, dlock, sinode, sfree, pc, ip, name, blk, want, open, calls, made>>

\* iupdat tests the flags before it sleeps in bread: after a change it writes,
\* whatever others do meanwhile.
IupdatNow(i, sync) ==
  WriteInode(i, core[i], sync) /\ core' = [core EXCEPT ![i].chg = FALSE]
Iupdat(i) == IF core[i].chg THEN IupdatNow(i, FALSE) ELSE UNCHANGED <<core, inodes>>

Refs(i) == Cardinality({p \in Proc : ip[p] = i}) + Cardinality({p \in Proc : open[p] = i})
GoTo(p, l) == pc' = [pc EXCEPT ![p] = l]

\* update takes the inodes that are not locked.
Update(i) ==
  /\ lock[i] = NoProc /\ Refs(i) > 0 /\ core[i].chg
  /\ IupdatNow(i, FALSE)
  /\ UNCHANGED <<lock, entries, data, dlock, sinode, sfree, pc, ip, name, blk, want, open, calls,
                 made>>

-----------------------------------------------------------------------------
(* iput.  The last reference to a file without links frees it; link calls  *)
(* iput without a lock, and prele takes away whatever lock there is.        *)

Release(p) ==
  /\ lock' = [lock EXCEPT ![ip[p]] = NoProc]
  /\ dlock' = IF dlock = p THEN NoProc ELSE dlock
  /\ ip' = [ip EXCEPT ![p] = NoIno]
  /\ GoTo(p, "user")
Iput(p) ==
  /\ pc[p] = "iput"
  /\ IF Refs(ip[p]) > 1 THEN Release(p)
     ELSE /\ lock' = [lock EXCEPT ![ip[p]] = p]
          /\ GoTo(p, IF core[ip[p]].nlink <= 0 THEN "itrunc" ELSE "iupdat")
          /\ UNCHANGED <<dlock, ip>>
  /\ UNCHANGED <<core, inodes, entries, data, sinode, sfree, name, blk, want, open, calls, made>>
IputLast(p) ==
  /\ pc[p] = "iupdat"
  /\ Iupdat(ip[p]) /\ Release(p)
  /\ UNCHANGED <<entries, data, sinode, sfree, name, blk, want, open, calls, made>>

\* itrunc clears an address, then free may sleep: the next block to be freed.
Cleared(addr) == IF addr = {} THEN {{}} ELSE {{b} : b \in addr}
\* Mutant: the address stays in the inode.
ForgetNot(p, s) ==
  /\ core' = [core EXCEPT ![ip[p]].chg = @ /\ pc[p] \in {"free", "ifree1"}]
  /\ blk' = [blk EXCEPT ![p] = s]
Forget(p, s) ==
  /\ core' = [core EXCEPT ![ip[p]] = [core[ip[p]] EXCEPT
       !.addr = @ \ s, !.meta = @ \ s, !.chg = @ /\ pc[p] \in {"free", "ifree1"}]]
  /\ blk' = [blk EXCEPT ![p] = s]

\* Mutant: the cleared inode is left to a delayed write.
ItruncLater(p) ==
  /\ pc[p] \in {"itrunc", "trunc"}
  /\ IF core[ip[p]].file = NoFile
       THEN blk' = [blk EXCEPT ![p] = {}] /\ UNCHANGED <<core, inodes>>
       ELSE /\ WriteInode(ip[p], [core[ip[p]] EXCEPT !.addr = {}, !.meta = {}], FALSE)
            /\ \E s \in Cleared(core[ip[p]].addr) : Forget(p, s)
  /\ GoTo(p, IF pc[p] = "trunc" THEN "free" ELSE "ifree1")
  /\ UNCHANGED <<lock, entries, data, dlock, sinode, sfree, ip, name, want, open, calls, made>>
\* itrunc: "Clean inode on disk before freeing blocks".  It leaves a free inode,
\* which has no kind, as it is.
Itrunc(p) ==
  /\ pc[p] \in {"itrunc", "trunc"}
  /\ IF core[ip[p]].file = NoFile
       THEN blk' = [blk EXCEPT ![p] = {}] /\ UNCHANGED <<core, inodes>>
       ELSE /\ WriteInode(ip[p], [core[ip[p]] EXCEPT !.addr = {}, !.meta = {}], TRUE)
            /\ \E s \in Cleared(core[ip[p]].addr) : Forget(p, s)
  /\ GoTo(p, IF pc[p] = "trunc" THEN "free" ELSE "ifree1")
  /\ UNCHANGED <<lock, entries, data, dlock, sinode, sfree, ip, name, want, open, calls, made>>
\* Mutant: the block is free before the file forgets it.
ItruncFreeKept(p) ==
  /\ pc[p] \in {"free", "ifree1"} /\ blk[p] # {}
  /\ sfree' = sfree \cup blk[p]
  /\ \E s \in Cleared(core[ip[p]].addr) : blk' = [blk EXCEPT ![p] = s]
  /\ UNCHANGED <<core, lock, inodes, entries, data, dlock, sinode, pc, ip, name, want, open,
                 calls, made>>
ItruncFree(p) ==
  /\ pc[p] \in {"free", "ifree1"} /\ blk[p] # {}
  /\ sfree' = sfree \cup blk[p]
  /\ \E s \in Cleared(core[ip[p]].addr) : Forget(p, s)
  /\ UNCHANGED <<lock, inodes, entries, data, dlock, sinode, pc, ip, name, want, open, calls, made>>
\* open with truncation goes on with a file that is open and unlocked.
ItruncDone(p) ==
  /\ pc[p] = "free" /\ blk[p] = {}
  /\ Release(p) /\ open' = [open EXCEPT ![p] = ip[p]]
  /\ UNCHANGED <<core, inodes, entries, data, sinode, sfree, name, blk, want, calls, made>>
Ifree(p) ==
  /\ pc[p] = "ifree1" /\ blk[p] = {}
  /\ core' = [core EXCEPT ![ip[p]].file = NoFile, ![ip[p]].chg = TRUE]
  /\ sinode' = sinode \cup {ip[p]}
  /\ GoTo(p, "iupdat")
  /\ UNCHANGED <<lock, inodes, entries, data, dlock, sfree, ip, name, blk, want, open, calls, made>>

-----------------------------------------------------------------------------
(* creat, unlink and link.  namei keeps the directory locked from the       *)
(* search to the end of the change.                                         *)

Lookup(p, n) ==
  /\ pc[p] = "user" /\ dlock = NoProc /\ dlock' = p
  /\ name' = [name EXCEPT ![p] = n]

\* The search of the ilist, when s_inode is empty: numbers whose inode is free
\* in its block and not in core.
Spare == {i \in Ino : cIno[i].file = NoFile /\ Refs(i) = 0}
Ialloc(p, i) ==
  /\ i \in IF sinode = {} THEN Spare ELSE sinode
  /\ lock[i] = NoProc /\ core[i].file = NoFile
  /\ sinode' = (IF sinode = {} THEN Spare ELSE sinode) \ {i}
  /\ lock' = [lock EXCEPT ![i] = p] /\ ip' = [ip EXCEPT ![p] = i]

CreatFind(p, n, i) ==
  /\ "creat" \in calls[p] /\ Lookup(p, n) /\ cDir[n] = NoEntry /\ open[p] = NoIno /\ made < MaxFiles
  /\ Ialloc(p, i) /\ made' = made + 1
  /\ core' = [core EXCEPT ![i] = [file |-> made + 1, nlink |-> 1, addr |-> {},
                                  meta |-> {}, chg |-> TRUE]]
  /\ GoTo(p, "creat1")
  /\ UNCHANGED <<inodes, entries, data, sfree, blk, want, open, calls>>
CreatInode(p) ==
  /\ pc[p] = "creat1" /\ IupdatNow(ip[p], TRUE) /\ GoTo(p, "creat2")
  /\ UNCHANGED <<lock, entries, data, dlock, sinode, sfree, ip, name, blk, want, open, calls, made>>
CreatEntry(p) ==
  /\ pc[p] = "creat2"
  /\ WriteEntry(name[p], [ino |-> ip[p], file |-> core[ip[p]].file], FALSE)
  /\ name' = [name EXCEPT ![p] = NoName]
  /\ Release(p) /\ open' = [open EXCEPT ![p] = ip[p]]
  /\ UNCHANGED <<core, inodes, data, sinode, sfree, blk, want, calls, made>>

\* unlink gets the inode while the directory is locked; iget waits for its lock.
Found(p, n) ==
  /\ cDir[n] # NoEntry /\ lock[cDir[n].ino] = NoProc
  /\ lock' = [lock EXCEPT ![cDir[n].ino] = p]
  /\ ip' = [ip EXCEPT ![p] = cDir[n].ino]
UnlinkFind(p, n) ==
  /\ "unlink" \in calls[p] /\ Lookup(p, n) /\ Found(p, n) /\ GoTo(p, "unlink1")
  /\ UNCHANGED <<core, inodes, entries, data, sinode, sfree, blk, want, open, calls, made>>
\* Mutant: the cleared entry is left to a delayed write.
UnlinkEntryLater(p) ==
  /\ pc[p] = "unlink1" /\ WriteEntry(name[p], NoEntry, FALSE) /\ GoTo(p, "unlink2")
  /\ name' = [name EXCEPT ![p] = NoName]
  /\ UNCHANGED <<core, lock, inodes, data, dlock, sinode, sfree, ip, blk, want, open, calls, made>>
UnlinkEntry(p) ==
  /\ pc[p] = "unlink1" /\ WriteEntry(name[p], NoEntry, TRUE) /\ GoTo(p, "unlink2")
  /\ name' = [name EXCEPT ![p] = NoName]
  /\ UNCHANGED <<core, lock, inodes, data, dlock, sinode, sfree, ip, blk, want, open, calls, made>>
UnlinkCount(p) ==
  /\ pc[p] = "unlink2"
  /\ core' = [core EXCEPT ![ip[p]].nlink = @ - 1, ![ip[p]].chg = TRUE]
  /\ GoTo(p, "iput")
  /\ UNCHANGED <<lock, inodes, entries, data, dlock, sinode, sfree, ip, name, blk, want, open,
                 calls, made>>

\* Every other search leaves the directory before it gets the inode: iput, then
\* iget, which may have to wait.  Nothing keeps the entry, or the inode, meanwhile.
Search(p, n, l) ==
  /\ pc[p] = "user" /\ dlock = NoProc /\ cDir[n] # NoEntry
  /\ want' = [want EXCEPT ![p] = cDir[n]] /\ GoTo(p, l)
Iget(p) ==
  /\ lock[want[p].ino] = NoProc
  /\ lock' = [lock EXCEPT ![want[p].ino] = p]
  /\ ip' = [ip EXCEPT ![p] = want[p].ino]

LinkFind(p, n) ==
  /\ "link" \in calls[p] /\ Search(p, n, "linkget")
  /\ UNCHANGED <<core, lock, inodes, entries, data, dlock, sinode, sfree, ip, name, blk, open,
                 calls, made>>
LinkGet(p) ==
  /\ pc[p] = "linkget" /\ Iget(p) /\ GoTo(p, "link1")
  /\ core' = [core EXCEPT ![want[p].ino].nlink = @ + 1, ![want[p].ino].chg = TRUE]
  /\ UNCHANGED <<inodes, entries, data, dlock, sinode, sfree, name, blk, want, open, calls, made>>
\* Mutant: the new count is left to a delayed write.
LinkInodeLater(p) ==
  /\ pc[p] = "link1" /\ IupdatNow(ip[p], FALSE)
  /\ lock' = [lock EXCEPT ![ip[p]] = NoProc] /\ GoTo(p, "link2")
  /\ UNCHANGED <<entries, data, dlock, sinode, sfree, ip, name, blk, want, open, calls, made>>
LinkInode(p) ==
  /\ pc[p] = "link1" /\ IupdatNow(ip[p], TRUE)
  /\ lock' = [lock EXCEPT ![ip[p]] = NoProc] /\ GoTo(p, "link2")
  /\ UNCHANGED <<entries, data, dlock, sinode, sfree, ip, name, blk, want, open, calls, made>>
\* The new entry is meant for the file the old name had when it was searched for.
LinkEntry(p, n) ==
  /\ pc[p] = "link2" /\ dlock = NoProc
  /\ IF cDir[n] = NoEntry
       THEN /\ WriteEntry(n, [ino |-> ip[p], file |-> want[p].file], FALSE)
            /\ UNCHANGED core
       ELSE /\ core' = [core EXCEPT ![ip[p]].nlink = @ - 1, ![ip[p]].chg = TRUE]
            /\ UNCHANGED entries
  /\ GoTo(p, "iput") /\ want' = [want EXCEPT ![p] = NoEntry]
  /\ UNCHANGED <<lock, inodes, data, dlock, sinode, sfree, ip, name, blk, open, calls, made>>

-----------------------------------------------------------------------------
(* open with truncation, write and close *)

OpenTrunc(p, n) ==
  /\ "trunc" \in calls[p] /\ open[p] = NoIno /\ Search(p, n, "truncget")
  /\ UNCHANGED <<core, lock, inodes, entries, data, dlock, sinode, sfree, ip, name, blk, open,
                 calls, made>>
TruncGet(p) ==
  /\ pc[p] = "truncget" /\ Iget(p) /\ GoTo(p, "trunc")
  /\ want' = [want EXCEPT ![p] = NoEntry]
  /\ UNCHANGED <<core, inodes, entries, data, dlock, sinode, sfree, name, blk, open, calls, made>>

Plock(p) ==
  /\ pc[p] = "user" /\ open[p] # NoIno /\ lock[open[p]] = NoProc
  /\ lock' = [lock EXCEPT ![open[p]] = p]
\* A write that needs a data block, or an indirect block (or one of a directory).
WriteCall == [data |-> "write", meta |-> "extend"]
\* Mutant: no cleared block is written synchronously.
WriteAllocLater(p, b, l) ==
  /\ WriteCall[l] \in calls[p] /\ Plock(p) /\ b \in sfree /\ sfree' = sfree \ {b}
  /\ WriteBlock(b, "meta", FALSE)
  /\ blk' = [blk EXCEPT ![p] = {b}] /\ GoTo(p, l)
  /\ UNCHANGED <<core, inodes, entries, dlock, sinode, ip, name, want, open, calls, made>>
\* bmap gives the file a block, cleared: a block of a directory and an indirect
\* block are written "synchronously so they never appear with garbage in them".
WriteAlloc(p, b, l) ==
  /\ WriteCall[l] \in calls[p] /\ Plock(p) /\ b \in sfree /\ sfree' = sfree \ {b}
  /\ WriteBlock(b, "meta", l = "meta")
  /\ blk' = [blk EXCEPT ![p] = {b}] /\ GoTo(p, l)
  /\ UNCHANGED <<core, inodes, entries, dlock, sinode, ip, name, want, open, calls, made>>
WriteData(p) ==
  /\ pc[p] \in {"meta", "data"}
  /\ core' = [core EXCEPT ![open[p]] =
       [core[open[p]] EXCEPT !.addr = @ \cup blk[p], !.chg = TRUE,
                             !.meta = IF pc[p] = "meta" THEN @ \cup blk[p] ELSE @]]
  /\ \E b \in blk[p] : WriteBlock(b, pc[p], FALSE)
  /\ lock' = [lock EXCEPT ![open[p]] = NoProc]
  /\ blk' = [blk EXCEPT ![p] = {}] /\ GoTo(p, "user")
  /\ UNCHANGED <<inodes, entries, dlock, sinode, sfree, ip, name, want, open, calls, made>>

Close(p) ==
  /\ Plock(p) /\ GoTo(p, "iput")
  /\ ip' = [ip EXCEPT ![p] = open[p]] /\ open' = [open EXCEPT ![p] = NoIno]
  /\ UNCHANGED <<core, inodes, entries, data, dlock, sinode, sfree, name, blk, want, calls, made>>

-----------------------------------------------------------------------------
Step(p) ==
  \/ Iput(p) \/ IputLast(p) \/ Itrunc(p) \/ ItruncDone(p) \/ Ifree(p)
  \/ ItruncFree(p)
  \/ \E b \in Block : WriteAlloc(p, b, "meta") \/ WriteAlloc(p, b, "data")
  \/ CreatInode(p) \/ CreatEntry(p) \/ UnlinkEntry(p) \/ UnlinkCount(p) \/ LinkInode(p)
  \/ LinkGet(p) \/ TruncGet(p) \/ WriteData(p) \/ Close(p)
  \/ \E n \in Name : \/ UnlinkFind(p, n) \/ LinkFind(p, n) \/ LinkEntry(p, n)
                     \/ OpenTrunc(p, n) \/ \E i \in Ino : CreatFind(p, n, i)
Idle == (\A p \in Proc : pc[p] = "user") /\ UNCHANGED vars   \* nobody need call
Next == (\E p \in Proc : Step(p)) \/ Flush \/ (\E i \in Ino : Update(i)) \/ Idle
Spec == Init /\ [][Next]_vars

-----------------------------------------------------------------------------
(* Properties *)

\* On the disk an entry names the file it was made for, never "a new (different)
\* file" that got the inode number since (rdwri.c:212), nor a free inode.
DiskEntriesTrue ==
  \A n \in Name : dDir[n] # NoEntry => dIno[dDir[n].ino].file = dDir[n].file

\* On the disk no block belongs to two files: "insure no duplicates if system
\* crashes" (iget.c:312).
DiskNoDuplicates ==
  \A i, j \in Ino : i # j => dIno[i].addr \cap dIno[j].addr = {}

\* On the disk, a block of a directory or an indirect block a file points at
\* is not garbage, nor what an earlier file wrote there (subr.c:43, 96, 127).
DiskMetaClean ==
  \A i \in Ino : \A b \in dIno[i].meta : dBlk[b] = "meta"

\* On the disk a file has at least as many links as entries: "the only
\* dangerous situation occurs when there are more entries than links"
\* (man8/icheck.8:181), for the next unlink would free it.
DiskLinksCover ==
  \A i \in Ino : Cardinality({n \in Name : dDir[n].ino = i}) <= dIno[i].nlink

\* In core a block is free, or of one file, or just allocated, and only one of
\* those.
BlocksOwned ==
  /\ TypeOK
  /\ \A i, j \in Ino : i # j => core[i].addr \cap core[j].addr = {}
  /\ \A i \in Ino, p \in Proc : core[i].addr \cap (sfree \cup blk[p]) = {}
  /\ \A p, q \in Proc : blk[p] \cap (sfree \cup IF p = q THEN {} ELSE blk[q]) = {}
=============================================================================
