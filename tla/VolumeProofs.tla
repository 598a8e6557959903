---------------------------- MODULE VolumeProofs ----------------------------
(***************************************************************************)
(* What a crash finds on the disk, for every number of processes, inodes,  *)
(* names and blocks.  An invariant of the disk holds at every moment of a  *)
(* crash, because no step can be cut in two: see Volume.                   *)
(*                                                                         *)
(* The first part says where a process can be, whatever the others call.   *)
(* The second one counts links: an inode is written before an entry names  *)
(* it, and an entry is cleared before the inode is freed, so the links on  *)
(* the disk cover the entries, as long as no process links to what another *)
(* one may remove: VolumeRace.cfg.  The third part follows the blocks.     *)
(***************************************************************************)
EXTENDS Volume, FiniteSetTheorems, TLAPS

-----------------------------------------------------------------------------
(* Where a process is tells what it has.                                   *)

\* The lock of the directory keeps the entry a call has found or missed.
PcOf(p) ==
  /\ ip[p] = NoIno <=> pc[p] \in {"user", "linkget", "truncget", "meta", "data"}
  /\ pc[p] \in {"meta", "data"} => open[p] \in Ino
  /\ pc[p] \in {"linkget", "link1", "link2", "truncget"} =>
       want[p].ino \in Ino /\ want[p].file \in File
  /\ pc[p] \in {"link1", "link2"} => want[p].ino = ip[p]
  /\ pc[p] \in {"creat1", "creat2", "unlink1"} => dlock = p /\ name[p] \in Name
  /\ pc[p] \in {"creat1", "creat2"} => cDir[name[p]] = NoEntry
  /\ pc[p] = "unlink1" => cDir[name[p]].ino = ip[p]
  /\ pc[p] = "unlink1" => "unlink" \in calls[p]
  /\ pc[p] \in {"linkget", "link1", "link2"} => "link" \in calls[p]
  /\ pc[p] \in {"truncget", "trunc", "free"} => "trunc" \in calls[p]
PcOK == \A p \in Proc : PcOf(p)

\* p has the only reference to its inode, and has locked it.
Sole(p) == /\ lock[ip[p]] = p
           /\ \A q \in Proc : open[q] # ip[p] /\ (q # p => ip[q] # ip[p])

\* What is given up has no other reference, what is being made is not free.
HeldOf(p) ==
  /\ pc[p] \in {"itrunc", "ifree1", "iupdat"} => Sole(p)
  /\ pc[p] \in {"itrunc", "ifree1"} => core[ip[p]].nlink <= 0
  /\ pc[p] \in {"creat1", "creat2"} => core[ip[p]].file # NoFile
Held == \A p \in Proc : HeldOf(p)

Base == TypeOK /\ PcOK /\ Held

-----------------------------------------------------------------------------
(* The links of a volume where no process links while another one unlinks:  *)
(* there the entry that link has found is still in the directory when it    *)
(* gets the inode.                                                          *)

Lasting == \A m \in Mixes, p, q \in Proc : ~("link" \in m[p] /\ "unlink" \in m[q])

\* A free inode has no links.
Live == \A i \in Ino : core[i].file = NoFile => core[i].nlink = 0

\* The entries that name i, and the links to i that are being made or removed.
Entries(i) == {n \in Name : cDir[n].ino = i}
Early(i) == {p \in Proc : ip[p] = i /\ pc[p] \in {"creat1", "link1"}}
Late(i) == {p \in Proc : ip[p] = i /\ pc[p] \in {"creat2", "link2", "unlink2"}}

\* The links in core are just these; what has been written covers the entries.
CountedAt(i) ==
  /\ core[i].nlink = Cardinality(Entries(i)) + Cardinality(Early(i)) + Cardinality(Late(i))
  /\ Cardinality(Entries(i)) + Cardinality(Late(i)) <= cIno[i].nlink
  /\ Cardinality(Entries(i)) + Cardinality(Late(i)) <= dIno[i].nlink
Counted == \A i \in Ino : CountedAt(i)

\* The inode is written before the entry, and the entry is cleared on the disk
\* before the inode is freed.  What link has found is still there.
Same(i) == core[i].file = cIno[i].file /\ cIno[i].file = dIno[i].file
NamedAt(n) ==
  cDir[n] # NoEntry => Same(cDir[n].ino) /\ core[cDir[n].ino].file = cDir[n].file
Lasts(p) == pc[p] \in {"linkget", "link1", "link2"} => \E n \in Name : cDir[n] = want[p]
Named ==
  /\ \A n \in Name : (dDir[n] # NoEntry => dDir[n] = cDir[n]) /\ NamedAt(n)
  /\ \A p \in Proc : pc[p] = "creat2" => Same(ip[p])
  /\ \A p \in Proc : Lasts(p)

Names == Base /\ Live /\ Counted /\ Named

-----------------------------------------------------------------------------
(* The operators of Volume.                                                *)

\* An inode with one field changed is an inode.
LEMMA InodeChange ==
  ASSUME NEW e \in Inode
  PROVE  /\ [e EXCEPT !.chg = FALSE] \in Inode
         /\ [e EXCEPT !.addr = {}, !.meta = {}] \in Inode
         /\ [e EXCEPT !.addr = {}, !.meta = {}].file = e.file
         /\ [e EXCEPT !.addr = {}, !.meta = {}].nlink = e.nlink
         /\ [e EXCEPT !.addr = {}, !.meta = {}].addr = {}
         /\ [e EXCEPT !.addr = {}, !.meta = {}].meta = {}
         /\ FreeInode \in Inode
<1>1. [e EXCEPT !.chg = FALSE] \in Inode
  BY DEF Inode
<1>2. /\ [e EXCEPT !.addr = {}, !.meta = {}] \in Inode
      /\ [e EXCEPT !.addr = {}, !.meta = {}].file = e.file
      /\ [e EXCEPT !.addr = {}, !.meta = {}].nlink = e.nlink
      /\ [e EXCEPT !.addr = {}, !.meta = {}].addr = {}
      /\ [e EXCEPT !.addr = {}, !.meta = {}].meta = {}
  BY DEF Inode
<1>3. FreeInode \in Inode
  <2> HIDE DEF NoFile
  <2> QED BY DEF Inode, FreeInode
<1> QED BY <1>1, <1>2, <1>3

\* Fields of an inode that change together.
LEMMA InodeFields ==
  ASSUME NEW e \in Inode, NEW n \in Int
  PROVE  /\ [e EXCEPT !.nlink = n, !.chg = TRUE] \in Inode
         /\ [e EXCEPT !.nlink = n, !.chg = TRUE].file = e.file
         /\ [e EXCEPT !.nlink = n, !.chg = TRUE].nlink = n
         /\ [e EXCEPT !.file = NoFile, !.chg = TRUE] \in Inode
         /\ [e EXCEPT !.file = NoFile, !.chg = TRUE].nlink = e.nlink
<1>1. NoFile \in File \cup {NoFile}
  OBVIOUS
<1> HIDE DEF NoFile
<1> QED BY <1>1 DEF Inode

\* The same of its addresses.
LEMMA InodeBlocks ==
  ASSUME NEW e \in Inode, NEW a \in SUBSET Block, NEW m \in SUBSET Block
  PROVE  /\ [e EXCEPT !.addr = a, !.chg = TRUE, !.meta = m] \in Inode
         /\ [e EXCEPT !.addr = a, !.chg = TRUE, !.meta = m].file = e.file
         /\ [e EXCEPT !.addr = a, !.chg = TRUE, !.meta = m].nlink = e.nlink
         /\ [e EXCEPT !.addr = a, !.chg = TRUE, !.meta = m].addr = a
         /\ [e EXCEPT !.addr = a, !.chg = TRUE, !.meta = m].meta = m
  BY DEF Inode

\* The cached inode, and with bwrite the one on the disk, becomes e.
LEMMA WriteInodeEffect ==
  ASSUME TypeOK, NEW i \in Ino, NEW e \in Inode, NEW sync \in BOOLEAN, WriteInode(i, e, sync)
  PROVE  /\ cIno' \in [Ino -> Inode] /\ dIno' \in [Ino -> Inode] /\ delIno' \subseteq Ino
         /\ \A j \in Ino \ {i} : cIno'[j] = cIno[j] /\ dIno'[j] = dIno[j]
         /\ /\ cIno'[i].file = e.file /\ cIno'[i].nlink = e.nlink
            /\ cIno'[i].addr = e.addr /\ cIno'[i].meta = e.meta
         /\ sync => /\ dIno'[i].file = e.file /\ dIno'[i].nlink = e.nlink
                    /\ dIno'[i].addr = e.addr /\ dIno'[i].meta = e.meta
         /\ ~sync => dIno' = dIno
<1>1. [e EXCEPT !.chg = FALSE] \in Inode
  BY InodeChange
<1>2. cIno' = [cIno EXCEPT ![i] = [e EXCEPT !.chg = FALSE]]
  BY DEF WriteInode
<1>3. IF sync THEN dIno' = [dIno EXCEPT ![i] = cIno'[i]] /\ delIno' = delIno \ {i}
              ELSE delIno' = delIno \cup {i} /\ dIno' = dIno
  BY DEF WriteInode
<1>4. cIno' \in [Ino -> Inode] /\ cIno'[i] = [e EXCEPT !.chg = FALSE]
  BY <1>1, <1>2 DEF TypeOK
<1>5. /\ cIno'[i].file = e.file /\ cIno'[i].nlink = e.nlink
      /\ cIno'[i].addr = e.addr /\ cIno'[i].meta = e.meta
  BY <1>4 DEF Inode
<1> QED BY <1>2, <1>3, <1>4, <1>5, ZenonT(60) DEF TypeOK

\* What iupdat writes is the inode in core.
LEMMA IupdatEffect ==
  ASSUME TypeOK, NEW i \in Ino, NEW sync \in BOOLEAN, IupdatNow(i, sync)
  PROVE  /\ core' \in [Ino -> Inode] /\ cIno' \in [Ino -> Inode] /\ dIno' \in [Ino -> Inode]
         /\ delIno' \subseteq Ino
         /\ \A j \in Ino \ {i} : core'[j] = core[j] /\ cIno'[j] = cIno[j] /\ dIno'[j] = dIno[j]
         /\ /\ core'[i].file = core[i].file /\ core'[i].nlink = core[i].nlink
            /\ core'[i].addr = core[i].addr /\ core'[i].meta = core[i].meta
         /\ /\ cIno'[i].file = core[i].file /\ cIno'[i].nlink = core[i].nlink
            /\ cIno'[i].addr = core[i].addr /\ cIno'[i].meta = core[i].meta
         /\ sync => /\ dIno'[i].file = core[i].file /\ dIno'[i].nlink = core[i].nlink
                    /\ dIno'[i].addr = core[i].addr /\ dIno'[i].meta = core[i].meta
         /\ ~sync => dIno' = dIno
<1>1. core[i] \in Inode /\ core \in [Ino -> Inode] /\ [core[i] EXCEPT !.chg = FALSE] \in Inode
  BY InodeChange DEF TypeOK
<1>2. WriteInode(i, core[i], sync)
  BY DEF IupdatNow
<1>3. core' = [core EXCEPT ![i] = [core[i] EXCEPT !.chg = FALSE]]
  BY <1>1 DEF IupdatNow
<1>4. /\ core' \in [Ino -> Inode] /\ \A j \in Ino \ {i} : core'[j] = core[j]
      /\ core'[i] = [core[i] EXCEPT !.chg = FALSE]
  BY <1>1, <1>3
<1>5. /\ core'[i].file = core[i].file /\ core'[i].nlink = core[i].nlink
      /\ core'[i].addr = core[i].addr /\ core'[i].meta = core[i].meta
  BY <1>1, <1>4 DEF Inode
<1>6. /\ cIno' \in [Ino -> Inode] /\ dIno' \in [Ino -> Inode] /\ delIno' \subseteq Ino
      /\ \A j \in Ino \ {i} : cIno'[j] = cIno[j] /\ dIno'[j] = dIno[j]
      /\ /\ cIno'[i].file = core[i].file /\ cIno'[i].nlink = core[i].nlink
         /\ cIno'[i].addr = core[i].addr /\ cIno'[i].meta = core[i].meta
      /\ sync => /\ dIno'[i].file = core[i].file /\ dIno'[i].nlink = core[i].nlink
                 /\ dIno'[i].addr = core[i].addr /\ dIno'[i].meta = core[i].meta
      /\ ~sync => dIno' = dIno
  BY <1>1, <1>2, WriteInodeEffect
<1> QED BY <1>4, <1>5, <1>6

\* itrunc takes one more address away.
LEMMA ForgetEffect ==
  ASSUME TypeOK, NEW p \in Proc, ip[p] \in Ino, NEW s \in SUBSET Block, Forget(p, s)
  PROVE  /\ core' \in [Ino -> Inode] /\ blk' = [blk EXCEPT ![p] = s]
         /\ \A j \in Ino \ {ip[p]} : core'[j] = core[j]
         /\ core'[ip[p]].file = core[ip[p]].file /\ core'[ip[p]].nlink = core[ip[p]].nlink
         /\ core'[ip[p]].addr = core[ip[p]].addr \ s
         /\ core'[ip[p]].meta = core[ip[p]].meta \ s
<1> DEFINE c == core[ip[p]]
           d == [c EXCEPT !.addr = @ \ s, !.meta = @ \ s, !.chg = @ /\ pc[p] \in {"free", "ifree1"}]
<1>1. c \in Inode /\ core \in [Ino -> Inode]
  BY DEF TypeOK
<1>2. d \in Inode /\ d.file = c.file /\ d.nlink = c.nlink /\ d.addr = c.addr \ s
      /\ d.meta = c.meta \ s
  BY <1>1 DEF Inode
<1>3. core' = [core EXCEPT ![ip[p]] = d] /\ blk' = [blk EXCEPT ![p] = s]
  BY DEF Forget
<1> HIDE DEF d
<1> QED BY <1>1, <1>2, <1>3

\* The count of references tells whether there are others.
LEMMA RefsSole ==
  ASSUME TypeOK, NEW p \in Proc, NEW i \in Ino, ip[p] = i, ~(Refs(i) > 1)
  PROVE  \A q \in Proc : open[q] # i /\ (q # p => ip[q] # i)
<1> DEFINE A == {q \in Proc : ip[q] = i}
           B == {q \in Proc : open[q] = i}
<1>1. IsFiniteSet(A) /\ IsFiniteSet(B)
  BY VolumeAssumption, FS_Subset
<1>2. Cardinality(A) \in Nat /\ Cardinality(B) \in Nat /\ Cardinality(A) + Cardinality(B) <= 1
  BY <1>1, FS_CardinalityType DEF Refs
<1>3. p \in A
  OBVIOUS
<1>4. IsFiniteSet(A \ {p}) /\ Cardinality(A \ {p}) = Cardinality(A) - 1
  BY <1>1, <1>3, FS_RemoveElement
<1>5. Cardinality(A \ {p}) \in Nat
  BY <1>4, FS_CardinalityType
<1>6. Cardinality(A \ {p}) = 0 /\ Cardinality(B) = 0
  BY <1>2, <1>4, <1>5
<1>7. A \ {p} = {} /\ B = {}
  BY <1>1, <1>4, <1>6, FS_EmptySet
<1> QED BY <1>7

\* The sets of links are finite.
LEMMA LinkSets ==
  ASSUME NEW i
  PROVE  /\ IsFiniteSet(Entries(i)) /\ IsFiniteSet(Early(i)) /\ IsFiniteSet(Late(i))
         /\ Cardinality(Entries(i)) \in Nat /\ Cardinality(Early(i)) \in Nat
         /\ Cardinality(Late(i)) \in Nat
<1>1. IsFiniteSet(Entries(i)) /\ IsFiniteSet(Early(i)) /\ IsFiniteSet(Late(i))
  BY VolumeAssumption, FS_Subset DEF Entries, Early, Late
<1> QED BY <1>1, FS_CardinalityType

\* What a step of p leaves to the others: what they refer to, what they have
\* locked, the directory they have locked, where they are and what they want.
Others(p) ==
  /\ \A q \in Proc \ {p} : /\ pc'[q] = pc[q] /\ ip'[q] = ip[q] /\ open'[q] = open[q]
                           /\ name'[q] = name[q] /\ blk'[q] = blk[q]
                           /\ want'[q] = want[q]
  /\ \A i \in Ino : \/ lock'[i] = lock[i] \/ lock[i] = NoProc \/ i = ip[p]
                    \/ i = open[p] /\ pc[p] \in {"meta", "data"}
  /\ \/ ip'[p] \in {ip[p], open[p], NoIno}
     \/ ip'[p] \in Ino /\ lock[ip'[p]] = NoProc
  /\ open'[p] \in {open[p], ip[p], NoIno}
  /\ dlock' = dlock \/ (dlock \in {p, NoProc} /\ dlock' \in {p, NoProc})
  /\ cDir' = cDir \/ dlock \in {p, NoProc}
  /\ calls' = calls

\* Every step of p leaves that much.
LEMMA StepShape == ASSUME TypeOK, PcOK, NEW p \in Proc, Step(p) PROVE Others(p)
<1> USE DEF GoTo
<1>0. PcOf(p) /\ NoIno \notin Ino /\ NoProc \notin Proc
  BY VolumeAssumption DEF PcOK
<1>1. CASE Iput(p)
  BY <1>0, <1>1 DEF Iput, Release, TypeOK, PcOf, Others, entries
<1>2. CASE IputLast(p)
  BY <1>0, <1>2 DEF IputLast, Release, TypeOK, PcOf, Others, entries
<1>3. CASE Itrunc(p)
  BY <1>0, <1>3 DEF Itrunc, Forget, TypeOK, PcOf, Others, entries
<1>4. CASE ItruncFree(p)
  BY <1>0, <1>4 DEF ItruncFree, Forget, TypeOK, PcOf, Others, entries
<1>5. CASE ItruncDone(p)
  BY <1>0, <1>5 DEF ItruncDone, Release, TypeOK, PcOf, Others, entries
<1>6. CASE Ifree(p)
  BY <1>0, <1>6 DEF Ifree, TypeOK, PcOf, Others, entries
<1>7. ASSUME NEW b \in Block, NEW l \in {"meta", "data"}, WriteAlloc(p, b, l) PROVE Others(p)
  BY <1>0, <1>7 DEF WriteAlloc, Plock, TypeOK, PcOf, Others, entries
<1>8. CASE CreatInode(p)
  BY <1>0, <1>8 DEF CreatInode, TypeOK, PcOf, Others, entries
<1>9. CASE CreatEntry(p)
  BY <1>0, <1>9 DEF CreatEntry, WriteEntry, Release, TypeOK, PcOf, Others
<1>10. CASE UnlinkEntry(p)
  BY <1>0, <1>10 DEF UnlinkEntry, WriteEntry, TypeOK, PcOf, Others
<1>11. CASE UnlinkCount(p)
  BY <1>0, <1>11 DEF UnlinkCount, TypeOK, PcOf, Others, entries
<1>12. CASE LinkInode(p)
  BY <1>0, <1>12 DEF LinkInode, TypeOK, PcOf, Others, entries
<1>13. CASE WriteData(p)
  BY <1>0, <1>13 DEF WriteData, TypeOK, PcOf, Others, entries
<1>14. CASE Close(p)
  BY <1>0, <1>14 DEF Close, Plock, TypeOK, PcOf, Others, entries
<1>15. ASSUME NEW n \in Name, cDir[n] # NoEntry PROVE cDir[n].ino \in Ino
  BY <1>15 DEF TypeOK, Entry
<1>16. ASSUME NEW n \in Name, UnlinkFind(p, n) PROVE Others(p)
  BY <1>0, <1>15, <1>16 DEF UnlinkFind, Lookup, Found, TypeOK, PcOf, Others, entries
<1>17. ASSUME NEW n \in Name, LinkFind(p, n) \/ OpenTrunc(p, n) PROVE Others(p)
  BY <1>0, <1>17 DEF LinkFind, OpenTrunc, Search, TypeOK, PcOf, Others, entries
<1>18. ASSUME NEW n \in Name, LinkEntry(p, n) PROVE Others(p)
  BY <1>0, <1>18 DEF LinkEntry, TypeOK, PcOf, Others, entries
<1>19. CASE LinkGet(p) \/ TruncGet(p)
  BY <1>0, <1>19 DEF LinkGet, TruncGet, Iget, TypeOK, PcOf, Others, entries
<1>20. ASSUME NEW n \in Name, NEW i \in Ino, CreatFind(p, n, i) PROVE Others(p)
  BY <1>0, <1>20 DEF CreatFind, Ialloc, Lookup, TypeOK, PcOf, Others, entries
<1> QED BY <1>1, <1>2, <1>3, <1>4, <1>5, <1>6, <1>7, <1>8, <1>9, <1>10, <1>11, <1>12, <1>13,
           <1>14, <1>16, <1>17, <1>18, <1>19, <1>20 DEF Step

\* A step of p changes the count of links of its own inode, or of one that
\* nobody has locked; it frees its own only, and makes a file of a free inode.
\* What it writes to the blocks of an inode is what the inode is in core.
CoreKept(p) ==
  \A i \in Ino :
    /\ \/ core'[i].nlink = core[i].nlink
       \/ /\ pc[p] \in {"user", "linkget", "unlink2", "link2"}
          /\ i = ip[p] \/ lock[i] = NoProc
    /\ \/ core'[i].file = core[i].file
       \/ i = ip[p] /\ pc[p] = "ifree1"
       \/ core[i].file = NoFile /\ core'[i].file # NoFile
    /\ \/ cIno'[i] = cIno[i]
       \/ cIno'[i].file = core[i].file /\ cIno'[i].nlink = core[i].nlink
    /\ \/ dIno'[i] = dIno[i]
       \/ /\ dIno'[i].file = core[i].file /\ dIno'[i].nlink = core[i].nlink
          /\ cIno'[i].file = core[i].file

\* Every step of a process keeps the types of the variables.
LEMMA StepType == ASSUME Base, NEW p \in Proc, Step(p) PROVE TypeOK' /\ CoreKept(p)
<1> USE DEF GoTo
<1>0. /\ TypeOK /\ PcOf(p) /\ NoIno \notin Ino /\ core \in [Ino -> Inode]
      /\ cIno \in [Ino -> Inode] /\ dIno \in [Ino -> Inode]
  BY VolumeAssumption DEF Base, PcOK, TypeOK
<1>1. CASE Iput(p)
  BY <1>0, <1>1 DEF Iput, Release, TypeOK, PcOf, inodes, entries, data, CoreKept
<1>2. CASE IputLast(p)
  <2>1. ip[p] \in Ino
    BY <1>0, <1>2 DEF IputLast, PcOf, TypeOK
  <2>2. /\ core' \in [Ino -> Inode] /\ cIno' \in [Ino -> Inode] /\ dIno' \in [Ino -> Inode]
        /\ delIno' \subseteq Ino /\ CoreKept(p)
    <3>1. CASE core[ip[p]].chg
      <4>1. IupdatNow(ip[p], FALSE)
        BY <1>2, <3>1 DEF IputLast, Iupdat
      <4> QED BY <1>0, <2>1, <4>1, IupdatEffect, ZenonT(60) DEF CoreKept
    <3>2. CASE ~core[ip[p]].chg
      BY <1>0, <1>2, <3>2 DEF IputLast, Iupdat, inodes, TypeOK, CoreKept
    <3> QED BY <3>1, <3>2
  <2> QED BY <1>0, <1>2, <2>1, <2>2 DEF IputLast, Release, TypeOK, entries, data
<1>3. CASE Itrunc(p)
  <2>1. ip[p] \in Ino
    BY <1>0, <1>3, ZenonT(60) DEF Itrunc, PcOf, TypeOK
  <2>2. CASE core[ip[p]].file = NoFile
    BY <1>0, <1>3, <2>1, <2>2 DEF Itrunc, TypeOK, inodes, entries, data, CoreKept
  <2>3. CASE core[ip[p]].file # NoFile
    <3> DEFINE e == [core[ip[p]] EXCEPT !.addr = {}, !.meta = {}]
    <3>1. e \in Inode /\ e.file = core[ip[p]].file /\ e.nlink = core[ip[p]].nlink
      BY <1>0, <2>1, InodeChange DEF TypeOK
    <3>2. /\ cIno' \in [Ino -> Inode] /\ dIno' \in [Ino -> Inode] /\ delIno' \subseteq Ino
          /\ \A i \in Ino \ {ip[p]} : cIno'[i] = cIno[i] /\ dIno'[i] = dIno[i]
          /\ cIno'[ip[p]].file = e.file /\ cIno'[ip[p]].nlink = e.nlink
          /\ dIno'[ip[p]].file = e.file /\ dIno'[ip[p]].nlink = e.nlink
      <4>1. WriteInode(ip[p], e, TRUE)
        BY <1>3, <2>3 DEF Itrunc
      <4> HIDE DEF e
      <4> QED BY <1>0, <2>1, <3>1, <4>1, WriteInodeEffect
    <3>3. PICK s \in SUBSET Block : Forget(p, s)
      <4>1. core[ip[p]].addr \subseteq Block
        BY <1>0, <2>1 DEF Inode
      <4> QED BY <1>3, <2>3, <4>1 DEF Itrunc, Cleared
    <3>4. core' \in [Ino -> Inode] /\ blk' = [blk EXCEPT ![p] = s]
          /\ \A i \in Ino : core'[i].nlink = core[i].nlink /\ core'[i].file = core[i].file
      BY <1>0, <2>1, <3>3, ForgetEffect
    <3> HIDE DEF e
    <3> QED BY <1>0, <1>3, <2>1, <3>1, <3>2, <3>4 DEF Itrunc, TypeOK, entries, data, CoreKept
  <2> QED BY <2>2, <2>3
<1>4. CASE ItruncFree(p)
  <2>1. ip[p] \in Ino
    BY <1>0, <1>4 DEF ItruncFree, PcOf, TypeOK
  <2>2. PICK s \in SUBSET Block : Forget(p, s)
    <3>1. core[ip[p]].addr \subseteq Block
      BY <1>0, <2>1 DEF Inode
    <3> QED BY <1>4, <3>1 DEF ItruncFree, Cleared
  <2>3. core' \in [Ino -> Inode] /\ blk' = [blk EXCEPT ![p] = s]
        /\ \A i \in Ino : core'[i].nlink = core[i].nlink /\ core'[i].file = core[i].file
    BY <1>0, <2>1, <2>2, ForgetEffect
  <2> QED BY <1>0, <1>4, <2>3 DEF ItruncFree, TypeOK, inodes, entries, data, CoreKept
<1>5. CASE ItruncDone(p)
  BY <1>0, <1>5 DEF ItruncDone, Release, TypeOK, PcOf, inodes, entries, data, CoreKept
<1>6. CASE Ifree(p)
  <2>1. ip[p] \in Ino
    BY <1>0, <1>6 DEF Ifree, PcOf, TypeOK
  <2>2. /\ core' \in [Ino -> Inode]
        /\ \A i \in Ino : core'[i].nlink = core[i].nlink
        /\ \A i \in Ino \ {ip[p]} : core'[i] = core[i]
    <3> DEFINE e == [core[ip[p]] EXCEPT !.file = NoFile, !.chg = TRUE]
    <3>1. core[ip[p]] \in Inode /\ core[ip[p]].addr \in SUBSET Block
          /\ core[ip[p]].nlink \in Int
      BY <1>0, <2>1, SMTT(60) DEF Inode
    <3>2. e \in Inode /\ e.nlink = core[ip[p]].nlink
      BY <3>1, InodeFields
    <3>3. core' = [core EXCEPT ![ip[p]] = e]
      BY <1>0, <1>6, <2>1 DEF Ifree
    <3> HIDE DEF e
    <3> QED BY <1>0, <2>1, <3>2, <3>3
  <2> QED BY <1>0, <1>6, <2>1, <2>2 DEF Ifree, TypeOK, inodes, entries, data, CoreKept
<1>7. ASSUME NEW b \in Block, NEW l \in {"meta", "data"}, WriteAlloc(p, b, l)
      PROVE  TypeOK' /\ CoreKept(p)
  <2>1. cBlk' \in [Block -> Contents] /\ dBlk' \in [Block -> Contents] /\ delBlk' \subseteq Block
    BY <1>0, <1>7 DEF WriteAlloc, WriteBlock, TypeOK, Contents
  <2> QED BY <1>0, <1>7, <2>1 DEF WriteAlloc, Plock, TypeOK, PcOf, inodes, entries, CoreKept
<1>8. ASSUME IupdatNow(ip[p], TRUE), ip[p] \in Ino
      PROVE  /\ core' \in [Ino -> Inode] /\ cIno' \in [Ino -> Inode] /\ dIno' \in [Ino -> Inode]
             /\ delIno' \subseteq Ino /\ CoreKept(p)
  BY <1>0, <1>8, IupdatEffect, ZenonT(60) DEF CoreKept
<1>9. CASE CreatInode(p)
  <2>1. ip[p] \in Ino
    BY <1>0, <1>9 DEF CreatInode, PcOf, TypeOK
  <2> QED BY <1>0, <1>8, <1>9, <2>1 DEF CreatInode, TypeOK, entries, data
<1>10. CASE LinkInode(p)
  <2>1. ip[p] \in Ino
    BY <1>0, <1>10 DEF LinkInode, PcOf, TypeOK
  <2> QED BY <1>0, <1>8, <1>10, <2>1 DEF LinkInode, TypeOK, entries, data
<1>11. ASSUME pc[p] = "creat2"
       PROVE  ip[p] \in Ino /\ [ino |-> ip[p], file |-> core[ip[p]].file] \in Entry
  <2>1. ip[p] \in Ino /\ core[ip[p]].file # NoFile
    BY <1>0, <1>11 DEF PcOf, TypeOK, Base, Held, HeldOf
  <2>2. core[ip[p]].file \in File
    BY <1>0, <2>1 DEF Inode
  <2> QED BY <2>1, <2>2 DEF Entry
<1>12. CASE CreatEntry(p)
  <2>1. cDir' \in [Name -> Entry] /\ dDir' \in [Name -> Entry] /\ delDir' \in BOOLEAN
    BY <1>0, <1>11, <1>12 DEF CreatEntry, WriteEntry, TypeOK
  <2> QED BY <1>0, <1>12, <2>1 DEF CreatEntry, Release, TypeOK, PcOf, inodes, data, CoreKept
<1>13. CASE UnlinkEntry(p)
  <2>1. cDir' \in [Name -> Entry] /\ dDir' \in [Name -> Entry] /\ delDir' \in BOOLEAN
    BY <1>0, <1>13 DEF UnlinkEntry, WriteEntry, TypeOK, Entry
  <2> QED BY <1>0, <1>13, <2>1 DEF UnlinkEntry, TypeOK, inodes, data, CoreKept
<1>14. ASSUME pc[p] \in {"unlink2", "link2"}, cIno' = cIno, dIno' = dIno,
              core' = [core EXCEPT ![ip[p]].nlink = @ - 1, ![ip[p]].chg = TRUE]
       PROVE  core' \in [Ino -> Inode] /\ CoreKept(p)
  <2>1. ip[p] \in Ino
    BY <1>0, <1>14 DEF PcOf, TypeOK
  <2>2. core[ip[p]].nlink - 1 \in Int
    BY <1>0, <2>1 DEF Inode
  <2> DEFINE e == [core[ip[p]] EXCEPT !.nlink = @ - 1, !.chg = TRUE]
  <2>3. e \in Inode /\ e.file = core[ip[p]].file
    BY <1>0, <2>1, <2>2, InodeFields
  <2>4. core' = [core EXCEPT ![ip[p]] = e]
    BY <1>0, <1>14, <2>1
  <2> HIDE DEF e
  <2> QED BY <1>0, <1>14, <2>1, <2>3, <2>4 DEF CoreKept
<1>15. CASE UnlinkCount(p)
  BY <1>0, <1>14, <1>15 DEF UnlinkCount, TypeOK, inodes, entries, data
<1>16. CASE WriteData(p)
  <2>1. open[p] \in Ino /\ blk[p] \subseteq Block
    BY <1>0, <1>16 DEF WriteData, PcOf, TypeOK
  <2> DEFINE e == [core[open[p]] EXCEPT
                     !.addr = @ \cup blk[p], !.chg = TRUE,
                     !.meta = IF pc[p] = "meta" THEN @ \cup blk[p] ELSE @]
  <2>2. e \in Inode /\ e.nlink = core[open[p]].nlink /\ e.file = core[open[p]].file
    <3> DEFINE a == core[open[p]].addr \cup blk[p]
               m == IF pc[p] = "meta" THEN core[open[p]].meta \cup blk[p] ELSE core[open[p]].meta
    <3>1. /\ core[open[p]] \in Inode /\ a \in SUBSET Block /\ m \in SUBSET Block
          /\ core[open[p]].nlink \in Int
      BY <1>0, <2>1 DEF Inode
    <3>2. e = [core[open[p]] EXCEPT !.addr = a, !.chg = TRUE, !.meta = m]
      OBVIOUS
    <3> HIDE DEF a, m, e
    <3> DEFINE c == core[open[p]]
               f == [c EXCEPT !.addr = a, !.chg = TRUE, !.meta = m]
    <3>3. f \in Inode /\ f.file = c.file /\ f.nlink = c.nlink
      <4> HIDE DEF c
      <4>1. c \in Inode
        BY <3>1 DEF c
      <4> QED BY <3>1, <4>1 DEF Inode
    <3> QED BY <3>2, <3>3
  <2>3. core' = [core EXCEPT ![open[p]] = e]
    BY <1>16 DEF WriteData
  <2> HIDE DEF e
  <2>4. cBlk' \in [Block -> Contents] /\ dBlk' \in [Block -> Contents] /\ delBlk' \subseteq Block
    BY <1>0, <1>16, <2>1 DEF WriteData, WriteBlock, TypeOK, Contents
  <2> QED BY <1>0, <1>16, <2>1, <2>2, <2>3, <2>4
           DEF WriteData, TypeOK, inodes, entries, CoreKept
<1>17. CASE Close(p)
  BY <1>0, <1>17 DEF Close, Plock, TypeOK, PcOf, inodes, entries, data, CoreKept
<1>18. ASSUME NEW n \in Name, Found(p, n)
       PROVE  /\ cDir[n].ino \in Ino /\ lock[cDir[n].ino] = NoProc
              /\ lock' \in [Ino -> Proc \cup {NoProc}] /\ ip' \in [Proc -> Ino \cup {NoIno}]
  BY <1>0, <1>18 DEF Found, TypeOK, Entry
<1>19. ASSUME NEW n \in Name, UnlinkFind(p, n) PROVE TypeOK' /\ CoreKept(p)
  BY <1>0, <1>18, <1>19 DEF UnlinkFind, Lookup, TypeOK, inodes, entries, data, CoreKept
<1>20. ASSUME NEW n \in Name, LinkFind(p, n) \/ OpenTrunc(p, n) PROVE TypeOK' /\ CoreKept(p)
  BY <1>0, <1>20 DEF LinkFind, OpenTrunc, Search, TypeOK, inodes, entries, data, CoreKept
<1>21. ASSUME Iget(p), pc[p] \in {"linkget", "truncget"}
       PROVE  /\ want[p].ino \in Ino /\ lock[want[p].ino] = NoProc
              /\ lock' \in [Ino -> Proc \cup {NoProc}] /\ ip' \in [Proc -> Ino \cup {NoIno}]
  BY <1>0, <1>21 DEF Iget, PcOf, TypeOK
<1>22. CASE TruncGet(p)
  BY <1>0, <1>21, <1>22 DEF TruncGet, TypeOK, Entry, inodes, entries, data, CoreKept
<1>23. CASE LinkGet(p)
  <2> DEFINE i == want[p].ino
             e == [core[i] EXCEPT !.nlink = @ + 1, !.chg = TRUE]
  <2>1. i \in Ino /\ lock[i] = NoProc
    BY <1>21, <1>23 DEF LinkGet
  <2>2. core[i].nlink + 1 \in Int
    BY <1>0, <2>1 DEF Inode
  <2>3. e \in Inode /\ e.file = core[i].file
    BY <1>0, <2>1, <2>2, InodeFields
  <2>4. core' = [core EXCEPT ![i] = e]
    BY <1>0, <1>23, <2>1 DEF LinkGet
  <2> HIDE DEF e, i
  <2> QED BY <1>0, <1>21, <1>23, <2>1, <2>3, <2>4
           DEF LinkGet, TypeOK, inodes, entries, data, CoreKept
<1>24. ASSUME NEW n \in Name, LinkEntry(p, n) PROVE TypeOK' /\ CoreKept(p)
  <2>1. CASE cDir[n] = NoEntry
    <3>1. ip[p] \in Ino /\ want[p].file \in File
      BY <1>0, <1>24 DEF LinkEntry, PcOf, TypeOK
    <3>2. cDir' \in [Name -> Entry] /\ dDir' \in [Name -> Entry] /\ delDir' \in BOOLEAN
      BY <1>0, <1>24, <2>1, <3>1 DEF LinkEntry, WriteEntry, TypeOK, Entry
    <3> QED BY <1>0, <1>24, <2>1, <3>2 DEF LinkEntry, TypeOK, Entry, inodes, data, CoreKept
  <2>2. CASE cDir[n] # NoEntry
    BY <1>0, <1>14, <1>24, <2>2 DEF LinkEntry, TypeOK, Entry, inodes, entries, data
  <2> QED BY <2>1, <2>2
<1>25. ASSUME NEW n \in Name, NEW i \in Ino, CreatFind(p, n, i) PROVE TypeOK' /\ CoreKept(p)
  <2> DEFINE e == [file |-> made + 1, nlink |-> 1, addr |-> {}, meta |-> {}, chg |-> TRUE]
  <2>1. /\ core[i].file = NoFile /\ lock[i] = NoProc /\ pc[p] = "user"
        /\ made' = made + 1 /\ made' \in 1 .. MaxFiles
    BY <1>0, <1>25, VolumeAssumption DEF CreatFind, Ialloc, Lookup, TypeOK
  <2>4. e \in Inode /\ e.file # NoFile
    BY <2>1 DEF Inode, File, NoFile
  <2>5. core' = [core EXCEPT ![i] = e]
    BY <1>25 DEF CreatFind
  <2> HIDE DEF e
  <2>6. sinode' \subseteq Ino
    BY <1>0, <1>25 DEF CreatFind, Ialloc, Spare, TypeOK
  <2>7. core' \in [Ino -> Inode] /\ CoreKept(p)
    BY <1>0, <1>25, <2>1, <2>4, <2>5, ZenonT(60) DEF CoreKept, CreatFind, inodes
  <2>8. made' \in 0 .. MaxFiles
    BY <2>1, VolumeAssumption
  <2> QED BY <1>0, <1>25, <2>6, <2>7, <2>8
           DEF CreatFind, Lookup, Ialloc, TypeOK, inodes, entries, data
<1> QED BY <1>1, <1>2, <1>3, <1>4, <1>5, <1>6, <1>7, <1>9, <1>10, <1>12, <1>13, <1>15, <1>16,
           <1>17, <1>19, <1>20, <1>22, <1>23, <1>24, <1>25 DEF Step

\* A step of p leaves every other process where the invariant has it.
LEMMA OthersPc ==
  ASSUME Base, NEW p \in Proc, NEW q \in Proc \ {p}, Others(p), CoreKept(p)
  PROVE  PcOf(q)' /\ HeldOf(q)'
<1>1. /\ TypeOK /\ PcOf(p) /\ HeldOf(p) /\ PcOf(q) /\ HeldOf(q)
      /\ NoIno \notin Ino /\ NoProc \notin Proc
  BY VolumeAssumption DEF Base, PcOK, Held
<1>2. /\ pc'[q] = pc[q] /\ ip'[q] = ip[q] /\ open'[q] = open[q] /\ name'[q] = name[q]
      /\ want'[q] = want[q] /\ calls' = calls
  BY DEF Others
<1>3. PcOf(q)'
  BY <1>1, <1>2 DEF PcOf, Others
<1>4. ASSUME pc[q] \in {"itrunc", "ifree1", "iupdat"}
      PROVE  Sole(q)' /\ core'[ip[q]].nlink = core[ip[q]].nlink
  <2>1. ip[q] \in Ino /\ Sole(q)
    BY <1>1, <1>4 DEF PcOf, HeldOf, TypeOK
  <2>2. lock[ip[q]] = q /\ ip[p] # ip[q] /\ open[p] # ip[q]
    BY <2>1 DEF Sole
  <2>3. lock'[ip[q]] = q /\ ip'[p] # ip[q] /\ open'[p] # ip[q]
    BY <1>1, <2>1, <2>2 DEF Others
  <2>4. core'[ip[q]].nlink = core[ip[q]].nlink
    BY <1>1, <2>1, <2>2 DEF CoreKept
  <2> QED BY <1>2, <2>1, <2>3, <2>4 DEF Sole, Others
<1>5. ASSUME pc[q] \in {"creat1", "creat2"} PROVE core'[ip[q]].file # NoFile
  <2>1. ip[q] \in Ino /\ core[ip[q]].file # NoFile
    BY <1>1, <1>5 DEF PcOf, HeldOf, TypeOK
  <2> QED BY <1>1, <2>1 DEF CoreKept, HeldOf, Sole
<1>6. HeldOf(q)'
  BY <1>1, <1>2, <1>4, <1>5 DEF HeldOf
<1> QED BY <1>3, <1>6

\* Where a step leaves p itself.
LEMMA StepPc == ASSUME Base, NEW p \in Proc, Step(p), CoreKept(p) PROVE PcOf(p)' /\ HeldOf(p)'
<1> USE DEF GoTo
<1>0. /\ TypeOK /\ PcOf(p) /\ HeldOf(p) /\ NoIno \notin Ino /\ NoProc \notin Proc
  BY VolumeAssumption DEF Base, PcOK, Held
<1>1. ASSUME NEW i \in Ino, core[i].file # NoFile, i = ip[p] => pc[p] # "ifree1"
      PROVE  core'[i].file # NoFile
  BY <1>1 DEF CoreKept
<1>2. CASE Iput(p)
  <2>1. CASE Refs(ip[p]) > 1
    BY <1>0, <1>2, <2>1 DEF Iput, Release, TypeOK, PcOf, HeldOf
  <2>2. CASE ~(Refs(ip[p]) > 1)
    <3>1. ip[p] \in Ino
      BY <1>0, <1>2 DEF Iput, PcOf, TypeOK
    <3>2. \A q \in Proc : open[q] # ip[p] /\ (q # p => ip[q] # ip[p])
      BY <1>0, <2>2, <3>1, RefsSole
    <3>3. lock'[ip[p]] = p /\ ip' = ip /\ open' = open /\ core' = core
      BY <1>0, <1>2, <2>2, <3>1 DEF Iput, TypeOK
    <3>4. Sole(p)'
      BY <3>2, <3>3 DEF Sole
    <3>5. \/ pc'[p] = "itrunc" /\ core[ip[p]].nlink <= 0
          \/ pc'[p] = "iupdat"
      BY <1>0, <1>2, <2>2 DEF Iput, TypeOK
    <3> QED BY <1>0, <1>2, <3>1, <3>3, <3>4, <3>5 DEF Iput, PcOf, HeldOf, TypeOK
  <2> QED BY <2>1, <2>2
<1>3. CASE IputLast(p)
  BY <1>0, <1>3 DEF IputLast, Release, TypeOK, PcOf, HeldOf
<1>4. ASSUME pc[p] \in {"itrunc", "trunc", "free", "ifree1"}, lock' = lock, ip' = ip,
             open' = open, core[ip[p]].nlink <= 0 => core'[ip[p]].nlink <= 0, calls' = calls,
             \/ pc'[p] = pc[p] /\ pc[p] \in {"free", "ifree1"}
             \/ pc[p] = "trunc" /\ pc'[p] = "free"
             \/ pc[p] = "itrunc" /\ pc'[p] = "ifree1"
      PROVE  PcOf(p)' /\ HeldOf(p)'
  <2>1. ip[p] \in Ino
    BY <1>0, <1>4 DEF PcOf, TypeOK
  <2>2. Sole(p)' <=> Sole(p)
    BY <1>4 DEF Sole
  <2> QED BY <1>0, <1>4, <2>1, <2>2 DEF PcOf, HeldOf
<1>5. CASE Itrunc(p)
  <2>1. ip[p] \in Ino
    BY <1>0, <1>5 DEF Itrunc, PcOf, TypeOK
  <2>2. core'[ip[p]].nlink = core[ip[p]].nlink
    BY <1>5, <2>1 DEF Itrunc, CoreKept
  <2>3. \/ pc[p] = "trunc" /\ pc'[p] = "free"
        \/ pc[p] = "itrunc" /\ pc'[p] = "ifree1"
    <3>1. pc' = [pc EXCEPT ![p] = IF pc[p] = "trunc" THEN "free" ELSE "ifree1"]
          /\ pc[p] \in {"itrunc", "trunc"}
      BY <1>5 DEF Itrunc
    <3> QED BY <1>0, <3>1 DEF TypeOK
  <2>4. /\ pc[p] \in {"itrunc", "trunc"} /\ lock' = lock /\ ip' = ip /\ open' = open
        /\ calls' = calls
    BY <1>5 DEF Itrunc
  <2> QED BY <1>4, <2>2, <2>3, <2>4
<1>6. CASE ItruncFree(p)
  <2>1. ip[p] \in Ino
    BY <1>0, <1>6 DEF ItruncFree, PcOf, TypeOK
  <2>2. core'[ip[p]].nlink = core[ip[p]].nlink
    BY <1>6, <2>1 DEF ItruncFree, CoreKept
  <2> QED BY <1>0, <1>4, <1>6, <2>2 DEF ItruncFree, TypeOK
<1>7. CASE ItruncDone(p)
  BY <1>0, <1>7 DEF ItruncDone, Release, TypeOK, PcOf, HeldOf
<1>8. CASE Ifree(p)
  <2>1. ip[p] \in Ino /\ Sole(p)
    BY <1>0, <1>8 DEF Ifree, PcOf, HeldOf, TypeOK
  <2>2. Sole(p)'
    BY <1>8, <2>1 DEF Sole, Ifree
  <2> QED BY <1>0, <1>8, <2>1, <2>2 DEF Ifree, PcOf, HeldOf, TypeOK
<1>9. ASSUME NEW b \in Block, NEW l \in {"meta", "data"}, WriteAlloc(p, b, l)
      PROVE  PcOf(p)' /\ HeldOf(p)'
  BY <1>0, <1>9 DEF WriteAlloc, Plock, TypeOK, PcOf, HeldOf
<1>10. CASE CreatInode(p)
  BY <1>0, <1>1, <1>10 DEF CreatInode, TypeOK, PcOf, HeldOf, entries
<1>11. CASE CreatEntry(p)
  BY <1>0, <1>11 DEF CreatEntry, Release, TypeOK, PcOf, HeldOf
<1>12. CASE UnlinkEntry(p)
  BY <1>0, <1>12 DEF UnlinkEntry, TypeOK, PcOf, HeldOf
<1>13. CASE UnlinkCount(p)
  BY <1>0, <1>13 DEF UnlinkCount, TypeOK, PcOf, HeldOf
<1>14. CASE LinkInode(p)
  BY <1>0, <1>14 DEF LinkInode, TypeOK, PcOf, HeldOf
<1>15. CASE WriteData(p)
  BY <1>0, <1>15 DEF WriteData, TypeOK, PcOf, HeldOf
<1>16. CASE Close(p)
  BY <1>0, <1>16 DEF Close, Plock, TypeOK, PcOf, HeldOf
<1>17. ASSUME NEW n \in Name, cDir[n] # NoEntry
       PROVE  cDir[n].ino \in Ino /\ cDir[n].file \in File
  BY <1>0, <1>17 DEF TypeOK, Entry
<1>18. ASSUME NEW n \in Name, UnlinkFind(p, n) PROVE PcOf(p)' /\ HeldOf(p)'
  BY <1>0, <1>17, <1>18, SMTT(60) DEF UnlinkFind, Lookup, Found, TypeOK, PcOf, HeldOf, entries
<1>19. ASSUME NEW n \in Name, LinkFind(p, n) \/ OpenTrunc(p, n) PROVE PcOf(p)' /\ HeldOf(p)'
  BY <1>0, <1>17, <1>19 DEF LinkFind, OpenTrunc, Search, TypeOK, PcOf, HeldOf
<1>20. ASSUME NEW n \in Name, LinkEntry(p, n) PROVE PcOf(p)' /\ HeldOf(p)'
  BY <1>0, <1>20 DEF LinkEntry, TypeOK, PcOf, HeldOf
<1>21. CASE LinkGet(p) \/ TruncGet(p)
  BY <1>0, <1>21 DEF LinkGet, TruncGet, Iget, TypeOK, PcOf, HeldOf
<1>22. ASSUME NEW n \in Name, NEW i \in Ino, CreatFind(p, n, i) PROVE PcOf(p)' /\ HeldOf(p)'
  <2>1. made' \in Nat \ {0} /\ core'[i].file = made'
    BY <1>0, <1>22 DEF CreatFind, Ialloc, TypeOK
  <2>2. core'[i].file # NoFile
    BY <2>1 DEF NoFile
  <2> HIDE DEF NoFile
  <2> QED BY <1>0, <1>22, <2>2
           DEF CreatFind, Ialloc, Lookup, TypeOK, PcOf, HeldOf, entries
<1> QED BY <1>2, <1>3, <1>5, <1>6, <1>7, <1>8, <1>9, <1>10, <1>11, <1>12, <1>13, <1>14, <1>15,
           <1>16, <1>18, <1>19, <1>20, <1>21, <1>22 DEF Step

\* A delayed write or update brings what is in core to the cache, and what is
\* in the cache to the disk: no call notices, and update leaves a locked inode.
System ==
  /\ UNCHANGED <<pc, ip, open, name, want, calls, lock, dlock, cDir, blk, sfree, cBlk>>
  /\ dDir' = dDir \/ dDir' = cDir
  /\ \A b \in Block : dBlk'[b] = dBlk[b] \/ dBlk'[b] = cBlk[b]
  /\ \A i \in Ino :
       /\ core'[i].file = core[i].file /\ core'[i].nlink = core[i].nlink
       /\ core'[i].addr = core[i].addr /\ core'[i].meta = core[i].meta
       /\ \/ cIno'[i] = cIno[i]
          \/ /\ lock[i] = NoProc
             /\ cIno'[i].file = core[i].file /\ cIno'[i].nlink = core[i].nlink
             /\ cIno'[i].addr = core[i].addr /\ cIno'[i].meta = core[i].meta
       /\ dIno'[i] = dIno[i] \/ dIno'[i] = cIno[i]

LEMMA SystemSteps ==
  ASSUME TypeOK, Flush \/ (\E i \in Ino : Update(i)) \/ UNCHANGED vars
  PROVE  TypeOK' /\ System
<1>1. CASE Flush
  <2>1. /\ dIno' \in [Ino -> Inode] /\ delIno' \subseteq Ino /\ cIno' = cIno
        /\ dDir' \in [Name -> Entry] /\ delDir' \in BOOLEAN /\ cDir' = cDir
        /\ dBlk' \in [Block -> Contents] /\ delBlk' \subseteq Block /\ cBlk' = cBlk
    <3>1. ASSUME NEW i \in delIno, delIno' = delIno \ {i}, dIno' = [dIno EXCEPT ![i] = cIno[i]]
          PROVE  dIno' \in [Ino -> Inode] /\ delIno' \subseteq Ino
      BY <3>1 DEF TypeOK
    <3>2. ASSUME NEW b \in delBlk, delBlk' = delBlk \ {b}, dBlk' = [dBlk EXCEPT ![b] = cBlk[b]]
          PROVE  dBlk' \in [Block -> Contents] /\ delBlk' \subseteq Block
      BY <3>2 DEF TypeOK
    <3>3. CASE \E i \in delIno : /\ delIno' = delIno \ {i} /\ dIno' = [dIno EXCEPT ![i] = cIno[i]]
                                 /\ UNCHANGED <<cIno, entries, data>>
      BY <3>1, <3>3 DEF TypeOK, entries, data
    <3>4. CASE delDir /\ delDir' = FALSE /\ dDir' = cDir /\ UNCHANGED <<cDir, inodes, data>>
      BY <3>4 DEF TypeOK, inodes, data
    <3>5. CASE \E b \in delBlk : /\ delBlk' = delBlk \ {b} /\ dBlk' = [dBlk EXCEPT ![b] = cBlk[b]]
                                 /\ UNCHANGED <<cBlk, inodes, entries>>
      BY <3>2, <3>5 DEF TypeOK, inodes, entries
    <3> QED BY <1>1, <3>3, <3>4, <3>5 DEF Flush
  <2>2. TypeOK'
    BY <1>1, <2>1 DEF Flush, TypeOK
  <2>3. /\ dDir' = dDir \/ dDir' = cDir
        /\ UNCHANGED <<pc, ip, open, name, want, calls, lock, dlock, cDir, blk, sfree, cBlk>>
        /\ core' = core /\ cIno' = cIno
        /\ \A i \in Ino : dIno'[i] = dIno[i] \/ dIno'[i] = cIno[i]
        /\ \A b \in Block : dBlk'[b] = dBlk[b] \/ dBlk'[b] = cBlk[b]
    BY <1>1 DEF Flush, TypeOK, inodes, entries, data
  <2> QED BY <2>2, <2>3 DEF System
<1>2. ASSUME NEW i \in Ino, Update(i) PROVE TypeOK' /\ System
  <2>1. IupdatNow(i, FALSE) /\ lock[i] = NoProc
    BY <1>2 DEF Update
  <2>2. /\ core' \in [Ino -> Inode] /\ cIno' \in [Ino -> Inode] /\ dIno' \in [Ino -> Inode]
        /\ delIno' \subseteq Ino /\ dIno' = dIno
        /\ \A j \in Ino :
             /\ core'[j].file = core[j].file /\ core'[j].nlink = core[j].nlink
             /\ core'[j].addr = core[j].addr /\ core'[j].meta = core[j].meta
             /\ \/ cIno'[j] = cIno[j]
                \/ /\ lock[j] = NoProc
                   /\ cIno'[j].file = core[j].file /\ cIno'[j].nlink = core[j].nlink
                   /\ cIno'[j].addr = core[j].addr /\ cIno'[j].meta = core[j].meta
    BY <2>1, IupdatEffect
  <2>3. TypeOK'
    BY <1>2, <2>2 DEF Update, TypeOK, entries, data
  <2>4. UNCHANGED <<pc, ip, open, name, want, calls, lock, dlock, cDir, dDir, blk, sfree, cBlk, dBlk>>
    BY <1>2 DEF Update, entries, data
  <2> QED BY <2>2, <2>3, <2>4 DEF System
<1>3. CASE UNCHANGED vars
  <2>1. TypeOK'
    BY <1>3 DEF TypeOK, vars, inodes, entries, data
  <2>2. UNCHANGED <<pc, ip, open, name, want, calls, lock, dlock, cDir, dDir, blk, sfree, cBlk, dBlk>>
        /\ UNCHANGED <<core, cIno, dIno>>
    BY <1>3 DEF vars, inodes, entries, data
  <2> QED BY <2>1, <2>2 DEF System
<1> QED BY <1>1, <1>2, <1>3

\* Every process is where it should be, whatever the processes call.
LEMMA BaseKept == Base /\ [Next]_vars => Base'
<1> SUFFICES ASSUME Base, [Next]_vars PROVE Base'
  OBVIOUS
<1>1. TypeOK /\ PcOK /\ Held
  BY DEF Base
<1>2. ASSUME NEW p \in Proc, Step(p) PROVE Base'
  <2>1. TypeOK' /\ CoreKept(p) /\ Others(p)
    BY <1>1, <1>2, StepType, StepShape
  <2>2. \A q \in Proc : PcOf(q)' /\ HeldOf(q)'
    BY <1>2, <2>1, StepPc, OthersPc
  <2> QED BY <2>1, <2>2 DEF Base, PcOK, Held
<1>3. CASE Flush \/ (\E i \in Ino : Update(i)) \/ UNCHANGED vars
  <2>1. TypeOK' /\ System
    BY <1>1, <1>3, SystemSteps
  <2>2. PcOK'
    BY <1>1, <2>1 DEF System, PcOK, PcOf
  <2>3. ASSUME NEW p \in Proc PROVE HeldOf(p)'
    <3>1. HeldOf(p) /\ PcOf(p) /\ (Sole(p) <=> Sole(p)')
      BY <1>1, <2>1 DEF Held, PcOK, Sole, System
    <3>2. ip[p] # NoIno => ip[p] \in Ino
      BY <1>1 DEF TypeOK
    <3> QED BY <2>1, <3>1, <3>2 DEF HeldOf, PcOf, System
  <2> QED BY <2>1, <2>2, <2>3 DEF Base, Held
<1> QED BY <1>2, <1>3 DEF Next, Idle

\* It is in an empty volume.
LEMMA BaseInit == Init => Base
<1> SUFFICES ASSUME Init PROVE Base
  OBVIOUS
<1>1. FreeInode \in Inode
  <2> HIDE DEF NoFile
  <2> QED BY DEF Inode, FreeInode
<1>2. TypeOK
  <2>1. 0 \in 0 .. MaxFiles
    BY VolumeAssumption
  <2> QED BY <1>1, <2>1 DEF Init, TypeOK, Entry, Contents
<1>3. PcOK /\ Held
  BY VolumeAssumption DEF Init, PcOK, PcOf, Held, HeldOf
<1> QED BY <1>2, <1>3 DEF Base

\* A file that has an entry, or a link that is being made or removed, has links.
LEMMA Positive ==
  ASSUME Names, NEW i \in Ino
  PROVE  /\ core[i].nlink \in Nat
         /\ Entries(i) \cup Early(i) \cup Late(i) # {} => core[i].nlink > 0
<1>1. /\ IsFiniteSet(Entries(i)) /\ IsFiniteSet(Early(i)) /\ IsFiniteSet(Late(i))
      /\ Cardinality(Entries(i)) \in Nat /\ Cardinality(Early(i)) \in Nat
      /\ Cardinality(Late(i)) \in Nat
  BY LinkSets
<1>2. core[i].nlink = Cardinality(Entries(i)) + Cardinality(Early(i)) + Cardinality(Late(i))
  BY DEF Names, Counted, CountedAt
<1>3. ASSUME core[i].nlink <= 0 PROVE Entries(i) = {} /\ Early(i) = {} /\ Late(i) = {}
  <2>1. /\ Cardinality(Entries(i)) = 0 /\ Cardinality(Early(i)) = 0
        /\ Cardinality(Late(i)) = 0
    BY <1>1, <1>2, <1>3
  <2> QED BY <1>1, <2>1, FS_EmptySet
<1> QED BY <1>1, <1>2, <1>3

\* The link p is making or removing moves with p.
LEMMA LinkMoves ==
  ASSUME NEW p \in Proc, Others(p), NEW i
  PROVE  /\ Early(i)' = IF ip'[p] = i /\ pc'[p] \in {"creat1", "link1"}
                          THEN Early(i) \cup {p} ELSE Early(i) \ {p}
         /\ Late(i)' = IF ip'[p] = i /\ pc'[p] \in {"creat2", "link2", "unlink2"}
                         THEN Late(i) \cup {p} ELSE Late(i) \ {p}
<1>1. \A q \in Proc \ {p} : /\ q \in Early(i)' <=> q \in Early(i)
                            /\ q \in Late(i)' <=> q \in Late(i)
  BY DEF Others, Early, Late
<1>2. /\ p \in Early(i)' <=> ip'[p] = i /\ pc'[p] \in {"creat1", "link1"}
      /\ p \in Late(i)' <=> ip'[p] = i /\ pc'[p] \in {"creat2", "link2", "unlink2"}
  BY DEF Early, Late
<1>3. Early(i) \subseteq Proc /\ Late(i) \subseteq Proc
      /\ Early(i)' \subseteq Proc /\ Late(i)' \subseteq Proc
  BY DEF Early, Late
<1> QED BY <1>1, <1>2, <1>3

\* One more, one less.
LEMMA OneMore ==
  ASSUME NEW S, NEW x, IsFiniteSet(S)
  PROVE  /\ x \notin S => Cardinality(S \cup {x}) = Cardinality(S) + 1 /\ S \ {x} = S
         /\ x \in S => Cardinality(S \ {x}) = Cardinality(S) - 1 /\ S \cup {x} = S
<1>1. x \in S => Cardinality(S \ {x}) = Cardinality(S) - 1
  BY FS_RemoveElement
<1>2. x \notin S => Cardinality(S \cup {x}) = Cardinality(S) + 1
  BY FS_AddElement
<1> QED BY <1>1, <1>2

\* An inode whose links stay as they are remains counted: what a step writes to
\* the blocks of inodes is the count in core.
LEMMA CountKept ==
  ASSUME Names, NEW p \in Proc, CoreKept(p), NEW i \in Ino, core'[i].nlink = core[i].nlink,
         Entries(i)' = Entries(i), Early(i)' = Early(i), Late(i)' = Late(i)
  PROVE  CountedAt(i)'
<1>1. /\ Cardinality(Entries(i)) \in Nat /\ Cardinality(Early(i)) \in Nat
      /\ Cardinality(Late(i)) \in Nat
  BY LinkSets
<1>2. CountedAt(i)
  BY DEF Names, Counted
<1>3. /\ cIno'[i].nlink = cIno[i].nlink \/ cIno'[i].nlink = core[i].nlink
      /\ dIno'[i].nlink = dIno[i].nlink \/ dIno'[i].nlink = core[i].nlink
  BY DEF CoreKept
<1> QED BY <1>1, <1>2, <1>3 DEF CountedAt

\* The four places a link goes through: i is the inode, and e, a and b tell how
\* many entries, early and late links there are after the step.
LEMMA CountMoves ==
  ASSUME Names, NEW i \in Ino, NEW e \in Int, NEW a \in Int, NEW b \in Int,
         Cardinality(Entries(i)') = Cardinality(Entries(i)) + e,
         Cardinality(Early(i)') = Cardinality(Early(i)) + a,
         Cardinality(Late(i)') = Cardinality(Late(i)) + b,
         core'[i].nlink = core[i].nlink + e + a + b,
         \/ e + b <= 0 /\ cIno' = cIno /\ dIno' = dIno
         \/ /\ Cardinality(Early(i)) + a >= 0
            /\ e + a + b = 0 /\ cIno'[i].nlink = core[i].nlink /\ dIno'[i].nlink = core[i].nlink
  PROVE  CountedAt(i)'
<1>1. /\ Cardinality(Entries(i)) \in Nat /\ Cardinality(Early(i)) \in Nat
      /\ Cardinality(Late(i)) \in Nat
  BY LinkSets
<1>2. CountedAt(i)
  BY DEF Names, Counted
<1>3. cIno[i].nlink \in Int /\ dIno[i].nlink \in Int
  BY DEF Names, Base, TypeOK, Inode
<1> QED BY <1>1, <1>2, <1>3 DEF CountedAt

\* A step that neither makes nor removes a link, nor gets on with one.
LEMMA QuietCounted ==
  ASSUME Names, NEW p \in Proc, CoreKept(p), Others(p), cDir' = cDir,
         pc[p] \notin {"user", "linkget"} \/ core' = core,
         pc[p] \notin {"creat1", "link1", "creat2", "link2", "unlink2"},
         pc'[p] \notin {"creat1", "link1", "creat2", "link2", "unlink2"}
  PROVE  Counted'
<1>1. SUFFICES ASSUME NEW i \in Ino PROVE CountedAt(i)'
  BY DEF Counted
<1>2. core'[i].nlink = core[i].nlink
  BY DEF CoreKept
<1>3. p \notin Early(i) /\ p \notin Late(i)
  BY DEF Early, Late
<1>4. Early(i)' = Early(i) /\ Late(i)' = Late(i)
  BY <1>3, LinkMoves
<1>5. Entries(i)' = Entries(i)
  BY DEF Entries
<1> QED BY <1>2, <1>4, <1>5, CountKept

\* A step that moves a link to i leaves the links to the others alone.
LEMMA OthersCounted ==
  ASSUME Names, NEW p \in Proc, CoreKept(p), Others(p), NEW i \in Ino,
         ip[p] \in {i, NoIno}, ip'[p] \in {i, NoIno},
         \A n \in Name : \/ cDir'[n] = cDir[n]
                         \/ cDir[n].ino \in {i, NoIno} /\ cDir'[n].ino \in {i, NoIno},
         \A j \in Ino \ {i} : core'[j].nlink = core[j].nlink
  PROVE  \A j \in Ino \ {i} : CountedAt(j)'
<1>1. SUFFICES ASSUME NEW j \in Ino, j # i PROVE CountedAt(j)'
  OBVIOUS
<1>2. j # NoIno
  BY VolumeAssumption
<1>3. p \notin Early(j) /\ p \notin Late(j)
  BY <1>1, <1>2 DEF Early, Late
<1>4. Early(j)' = Early(j) /\ Late(j)' = Late(j)
  <2>1. ip'[p] # j
    BY <1>1, <1>2
  <2>2. Early(j)' = Early(j) \ {p} /\ Late(j)' = Late(j) \ {p}
    BY <2>1, LinkMoves
  <2> QED BY <1>3, <2>2
<1>5. Entries(j)' = Entries(j)
  BY <1>1, <1>2 DEF Entries
<1> QED BY <1>1, <1>4, <1>5, CountKept

\* The inode is written: the link that p makes is no longer early but late.
LEMMA WrittenCounted ==
  ASSUME Names, NEW p \in Proc, CoreKept(p), Others(p), NEW i \in Ino, ip[p] = i,
         ip'[p] = i, IupdatNow(i, TRUE), cDir' = cDir,
         pc[p] \in {"creat1", "link1"}, pc'[p] \in {"creat2", "link2"}
  PROVE  Counted'
<1>1. TypeOK
  BY DEF Names, Base
<1>2. /\ core'[i].nlink = core[i].nlink /\ cIno'[i].nlink = core[i].nlink
      /\ dIno'[i].nlink = core[i].nlink
  BY <1>1, IupdatEffect
<1>3. \A j \in Ino \ {i} : CountedAt(j)'
  <2>1. \A j \in Ino : core'[j].nlink = core[j].nlink
    BY DEF CoreKept
  <2>2. \A n \in Name : cDir'[n] = cDir[n]
    OBVIOUS
  <2> QED BY <2>1, <2>2, OthersCounted
<1>4. p \in Early(i) /\ p \notin Late(i)
  BY DEF Early, Late
<1>5. Early(i)' = Early(i) \ {p} /\ Late(i)' = Late(i) \cup {p} /\ Entries(i)' = Entries(i)
  BY LinkMoves DEF Entries
<1>6. /\ IsFiniteSet(Early(i)) /\ IsFiniteSet(Late(i))
      /\ Cardinality(Entries(i)) \in Nat /\ Cardinality(Early(i)) \in Nat
      /\ Cardinality(Late(i)) \in Nat
  BY LinkSets
<1>7. /\ Cardinality(Early(i)') = Cardinality(Early(i)) - 1
      /\ Cardinality(Late(i)') = Cardinality(Late(i)) + 1
  BY <1>4, <1>5, <1>6, OneMore
<1>8. core[i].nlink \in Int /\ Cardinality(Early(i)) >= 1
  <2>1. CountedAt(i)
    BY DEF Names, Counted
  <2>2. Cardinality(Early(i)) # 0
    BY <1>4, <1>6, FS_EmptySet
  <2> QED BY <1>6, <2>1, <2>2 DEF CountedAt
<1>9. CountedAt(i)'
  <2> DEFINE e == 0  a == -1  b == 1
  <2>1. e \in Int /\ a \in Int /\ b \in Int /\ e + a + b = 0
    OBVIOUS
  <2>2. /\ Cardinality(Entries(i)') = Cardinality(Entries(i)) + e
        /\ Cardinality(Early(i)') = Cardinality(Early(i)) + a
        /\ Cardinality(Late(i)') = Cardinality(Late(i)) + b
        /\ core'[i].nlink = core[i].nlink + e + a + b
        /\ Cardinality(Early(i)) + a >= 0
    BY <1>2, <1>5, <1>6, <1>7, <1>8
  <2> HIDE DEF e, a, b
  <2> QED BY <1>2, <2>1, <2>2, CountMoves
<1> QED BY <1>3, <1>9 DEF Counted

\* A late link becomes an entry, or is given up; an entry becomes a late link.
\* The count in core goes with the sum.
LEMMA LateCounted ==
  ASSUME Names, NEW p \in Proc, CoreKept(p), Others(p), NEW i \in Ino, ip[p] = i,
         ip'[p] \in {i, NoIno}, cIno' = cIno, dIno' = dIno,
         \A j \in Ino \ {i} : core'[j].nlink = core[j].nlink,
         pc[p] \notin {"creat1", "link1"}, pc'[p] \notin {"creat1", "link1"},
         NEW n, \A m \in Name \ {n} : cDir'[m] = cDir[m],
         \/ /\ pc[p] \in {"creat2", "link2"} /\ pc'[p] \notin {"creat2", "link2", "unlink2"}
            /\ n \in Name /\ cDir[n].ino = NoIno /\ cDir'[n].ino = i
            /\ core'[i].nlink = core[i].nlink
         \/ /\ pc[p] \in {"unlink2", "link2"} /\ pc'[p] \notin {"creat2", "link2", "unlink2"}
            /\ cDir' = cDir /\ core'[i].nlink = core[i].nlink - 1
         \/ /\ pc[p] = "unlink1" /\ pc'[p] = "unlink2" /\ ip'[p] = i
            /\ n \in Name /\ cDir[n].ino = i /\ cDir'[n].ino = NoIno
            /\ core'[i].nlink = core[i].nlink
  PROVE  Counted'
<1>1. \A j \in Ino \ {i} : CountedAt(j)'
  <2>1. \A m \in Name : \/ cDir'[m] = cDir[m]
                        \/ cDir[m].ino \in {i, NoIno} /\ cDir'[m].ino \in {i, NoIno}
    OBVIOUS
  <2> QED BY <2>1, OthersCounted
<1>2. i # NoIno
  BY VolumeAssumption
<1>3. /\ IsFiniteSet(Early(i)) /\ IsFiniteSet(Late(i)) /\ IsFiniteSet(Entries(i))
      /\ Cardinality(Entries(i)) \in Nat /\ Cardinality(Early(i)) \in Nat
      /\ Cardinality(Late(i)) \in Nat /\ core[i].nlink \in Int
  BY LinkSets DEF Names, Counted, CountedAt
<1>4. Cardinality(Early(i)') = Cardinality(Early(i)) + 0
  <2>1. p \notin Early(i) /\ Early(i)' = Early(i) \ {p}
    BY LinkMoves DEF Early
  <2>2. Early(i)' = Early(i)
    BY <2>1
  <2> QED BY <1>3, <2>2
<1>5. ASSUME pc[p] \in {"creat2", "link2", "unlink2"},
             pc'[p] \notin {"creat2", "link2", "unlink2"}
      PROVE  Cardinality(Late(i)') = Cardinality(Late(i)) - 1
  <2>1. p \in Late(i) /\ Late(i)' = Late(i) \ {p}
    BY <1>5, LinkMoves DEF Late
  <2> QED BY <1>3, <2>1, OneMore
<1>6. CASE /\ pc[p] \in {"creat2", "link2"} /\ pc'[p] \notin {"creat2", "link2", "unlink2"}
           /\ n \in Name /\ cDir[n].ino = NoIno /\ cDir'[n].ino = i
           /\ core'[i].nlink = core[i].nlink
  <2>1. n \notin Entries(i) /\ Entries(i)' = Entries(i) \cup {n}
    BY <1>2, <1>6 DEF Entries
  <2>2. Cardinality(Entries(i)') = Cardinality(Entries(i)) + 1
    BY <1>3, <2>1, OneMore
  <2>3. PICK e \in Int, b \in Int : e = 1 /\ b = -1
    OBVIOUS
  <2>4. /\ Cardinality(Entries(i)') = Cardinality(Entries(i)) + e
        /\ Cardinality(Late(i)') = Cardinality(Late(i)) + b
        /\ core'[i].nlink = core[i].nlink + e + 0 + b /\ e + b <= 0
    BY <1>3, <1>5, <1>6, <2>2, <2>3
  <2> QED BY <1>1, <1>4, <2>4, CountMoves DEF Counted
<1>7. CASE /\ pc[p] \in {"unlink2", "link2"} /\ pc'[p] \notin {"creat2", "link2", "unlink2"}
           /\ cDir' = cDir /\ core'[i].nlink = core[i].nlink - 1
  <2>1. Entries(i)' = Entries(i)
    BY <1>7 DEF Entries
  <2>2. PICK e \in Int, b \in Int : e = 0 /\ b = -1
    OBVIOUS
  <2>3. /\ Cardinality(Entries(i)') = Cardinality(Entries(i)) + e
        /\ Cardinality(Late(i)') = Cardinality(Late(i)) + b
        /\ core'[i].nlink = core[i].nlink + e + 0 + b /\ e + b <= 0
    BY <1>3, <1>5, <1>7, <2>1, <2>2
  <2> QED BY <1>1, <1>4, <2>3, CountMoves DEF Counted
<1>8. CASE /\ pc[p] = "unlink1" /\ pc'[p] = "unlink2" /\ ip'[p] = i
           /\ n \in Name /\ cDir[n].ino = i /\ cDir'[n].ino = NoIno
           /\ core'[i].nlink = core[i].nlink
  <2>1. n \in Entries(i) /\ Entries(i)' = Entries(i) \ {n}
    BY <1>2, <1>8 DEF Entries
  <2>2. p \notin Late(i) /\ Late(i)' = Late(i) \cup {p}
    BY <1>8, LinkMoves DEF Late
  <2>3. /\ Cardinality(Entries(i)') = Cardinality(Entries(i)) - 1
        /\ Cardinality(Late(i)') = Cardinality(Late(i)) + 1
    BY <1>3, <2>1, <2>2, OneMore
  <2>4. PICK e \in Int, b \in Int : e = -1 /\ b = 1
    OBVIOUS
  <2>5. /\ Cardinality(Entries(i)') = Cardinality(Entries(i)) + e
        /\ Cardinality(Late(i)') = Cardinality(Late(i)) + b
        /\ core'[i].nlink = core[i].nlink + e + 0 + b /\ e + b <= 0
    BY <1>3, <1>8, <2>3, <2>4
  <2> QED BY <1>1, <1>4, <2>5, CountMoves DEF Counted
<1> QED BY <1>6, <1>7, <1>8

\* Every step of a process keeps the count of links.
LEMMA StepCounts ==
  ASSUME Names, NEW p \in Proc, Step(p), CoreKept(p), Others(p)
  PROVE  Counted'
<1> USE DEF GoTo
<1>0. TypeOK /\ PcOf(p) /\ NoIno \notin Ino
  BY VolumeAssumption DEF Names, Base, PcOK
<1>1. ASSUME Iput(p) \/ IputLast(p) \/ Itrunc(p) \/ ItruncFree(p) \/ ItruncDone(p) \/ Ifree(p)
             \/ WriteData(p) \/ Close(p)
      PROVE  Counted'
  <2>1. /\ cDir' = cDir
        /\ pc[p] \notin {"creat1", "link1", "creat2", "link2", "unlink2"}
        /\ pc'[p] \notin {"creat1", "link1", "creat2", "link2", "unlink2"}
        /\ pc[p] \notin {"user", "linkget"} \/ core' = core
    BY <1>0, <1>1, ZenonT(60) DEF TypeOK, Iput, IputLast, Release, Itrunc, ItruncFree, ItruncDone, Ifree,
                      WriteData, Close, Plock, entries
  <2> QED BY <2>1, QuietCounted
<1>2. ASSUME NEW b \in Block, NEW l \in {"meta", "data"}, WriteAlloc(p, b, l) PROVE Counted'
  <2>1. cDir' = cDir /\ pc[p] = "user" /\ pc'[p] = l /\ core' = core
    BY <1>0, <1>2 DEF TypeOK, WriteAlloc, Plock, entries
  <2> QED BY <2>1, QuietCounted
<1>3. ASSUME \/ TruncGet(p)
             \/ \E n \in Name : UnlinkFind(p, n) \/ LinkFind(p, n) \/ OpenTrunc(p, n)
      PROVE  Counted'
  <2>1. /\ cDir' = cDir /\ core' = core /\ pc[p] \in {"user", "truncget"}
        /\ pc'[p] \in {"unlink1", "linkget", "truncget", "trunc"}
    <3>1. CASE TruncGet(p)
      BY <1>0, <3>1 DEF TypeOK, TruncGet, entries
    <3>2. ASSUME NEW n \in Name, UnlinkFind(p, n) \/ LinkFind(p, n) \/ OpenTrunc(p, n)
          PROVE  /\ cDir' = cDir /\ core' = core /\ pc[p] = "user"
                 /\ pc'[p] \in {"unlink1", "linkget", "truncget"}
      BY <1>0, <3>2 DEF TypeOK, UnlinkFind, LinkFind, OpenTrunc, Search, Lookup, entries
    <3> QED BY <1>3, <3>1, <3>2
  <2> QED BY <2>1, QuietCounted
<1>4. CASE CreatInode(p) \/ LinkInode(p)
  <2>1. /\ ip[p] \in Ino /\ ip'[p] = ip[p] /\ IupdatNow(ip[p], TRUE) /\ cDir' = cDir
        /\ pc[p] \in {"creat1", "link1"} /\ pc'[p] \in {"creat2", "link2"}
    BY <1>0, <1>4, ZenonT(60) DEF TypeOK, PcOf, CreatInode, LinkInode, entries
  <2> QED BY <2>1, WrittenCounted
<1>5. CASE CreatEntry(p)
  <2>1. PICK i \in Ino : i = ip[p]
    BY <1>0, <1>5 DEF TypeOK, PcOf, CreatEntry
  <2>2. PICK n \in Name : n = name[p]
    BY <1>0, <1>5 DEF PcOf, CreatEntry
  <2>3. /\ ip'[p] = NoIno /\ pc[p] = "creat2" /\ pc'[p] = "user"
        /\ cIno' = cIno /\ dIno' = dIno /\ core' = core
        /\ cDir[n].ino = NoIno /\ cDir'[n].ino = i
        /\ \A m \in Name \ {n} : cDir'[m] = cDir[m]
    BY <1>0, <1>5, <2>1, <2>2
       DEF TypeOK, PcOf, CreatEntry, Release, WriteEntry, inodes, NoEntry
  <2> QED BY <2>1, <2>3, LateCounted
<1>6. CASE UnlinkEntry(p)
  <2>1. PICK i \in Ino : i = ip[p]
    BY <1>0, <1>6 DEF TypeOK, PcOf, UnlinkEntry
  <2>2. PICK n \in Name : n = name[p]
    BY <1>0, <1>6 DEF PcOf, UnlinkEntry
  <2>3. /\ ip'[p] = i /\ pc[p] = "unlink1" /\ pc'[p] = "unlink2"
        /\ cIno' = cIno /\ dIno' = dIno /\ core' = core
        /\ cDir[n].ino = i /\ cDir'[n].ino = NoIno
        /\ \A m \in Name \ {n} : cDir'[m] = cDir[m]
    BY <1>0, <1>6, <2>1, <2>2, SMTT(60) DEF TypeOK, PcOf, UnlinkEntry, WriteEntry, inodes, NoEntry
  <2> QED BY <2>1, <2>3, LateCounted
<1>7. ASSUME NEW i \in Ino, i = ip[p], ip'[p] = i, pc[p] \in {"unlink2", "link2"},
             pc'[p] = "iput", cIno' = cIno, dIno' = dIno, cDir' = cDir,
             core' = [core EXCEPT ![i].nlink = @ - 1, ![i].chg = TRUE]
      PROVE  Counted'
  <2>1. core'[i].nlink = core[i].nlink - 1
    BY <1>0, <1>7 DEF TypeOK, Inode
  <2>2. \A j \in Ino \ {i} : core'[j].nlink = core[j].nlink
    BY <1>0, <1>7 DEF TypeOK
  <2>3. \A m \in Name \ {NoName} : cDir'[m] = cDir[m]
    BY <1>7
  <2> QED BY <1>7, <2>1, <2>2, <2>3, LateCounted
<1>8. CASE UnlinkCount(p)
  <2>1. PICK i \in Ino : i = ip[p]
    BY <1>0, <1>8 DEF TypeOK, PcOf, UnlinkCount
  <2>2. /\ ip'[p] = i /\ pc[p] = "unlink2" /\ pc'[p] = "iput"
        /\ cIno' = cIno /\ dIno' = dIno /\ cDir' = cDir
        /\ core' = [core EXCEPT ![i].nlink = @ - 1, ![i].chg = TRUE]
    BY <1>0, <1>8, <2>1 DEF TypeOK, UnlinkCount, inodes, entries
  <2> QED BY <1>7, <2>1, <2>2
<1>9. ASSUME NEW n \in Name, LinkEntry(p, n) PROVE Counted'
  <2>1. PICK i \in Ino : i = ip[p]
    BY <1>0, <1>9 DEF TypeOK, PcOf, LinkEntry
  <2>2. /\ ip'[p] = i /\ pc[p] = "link2" /\ pc'[p] = "iput"
        /\ cIno' = cIno /\ dIno' = dIno
    BY <1>0, <1>9, <2>1 DEF TypeOK, LinkEntry, inodes
  <2>3. CASE cDir[n] # NoEntry
    <3>1. /\ cDir' = cDir
          /\ core' = [core EXCEPT ![i].nlink = @ - 1, ![i].chg = TRUE]
      BY <1>9, <2>1, <2>3 DEF LinkEntry, entries
    <3> QED BY <1>7, <2>1, <2>2, <3>1
  <2>4. CASE cDir[n] = NoEntry
    <3>1. /\ cDir[n].ino = NoIno /\ cDir'[n].ino = i /\ core' = core
          /\ \A m \in Name \ {n} : cDir'[m] = cDir[m]
      BY <1>0, <1>9, <2>1, <2>4 DEF TypeOK, LinkEntry, WriteEntry, NoEntry
    <3> QED BY <2>1, <2>2, <3>1, LateCounted
  <2> QED BY <2>3, <2>4
<1>10. CASE LinkGet(p)
  <2>0. PICK i \in Ino : i = want[p].ino
    BY <1>0, <1>10 DEF PcOf, LinkGet
  <2>1. /\ ip[p] = NoIno /\ ip'[p] = i /\ pc[p] = "linkget" /\ pc'[p] = "link1"
        /\ cIno' = cIno /\ dIno' = dIno /\ cDir' = cDir
        /\ core' = [core EXCEPT ![i].nlink = @ + 1, ![i].chg = TRUE]
    BY <1>0, <1>10, <2>0 DEF TypeOK, PcOf, LinkGet, Iget, inodes, entries
  <2>2. core[i].nlink \in Int /\ core'[i].nlink = core[i].nlink + 1
    BY <1>0, <2>1 DEF TypeOK, Inode
  <2>3. \A j \in Ino \ {i} : core'[j].nlink = core[j].nlink
    BY <1>0, <2>1 DEF TypeOK
  <2>4. \A j \in Ino \ {i} : CountedAt(j)'
    <3>1. \A m \in Name : cDir'[m] = cDir[m]
      BY <2>1
    <3> QED BY <2>1, <2>3, <3>1, OthersCounted
  <2>5. p \notin Early(i) /\ p \notin Late(i) /\ IsFiniteSet(Early(i))
        /\ Cardinality(Entries(i)) \in Nat /\ Cardinality(Early(i)) \in Nat
        /\ Cardinality(Late(i)) \in Nat
    BY <2>1, LinkSets, ZenonT(60) DEF Early, Late
  <2>6. Early(i)' = Early(i) \cup {p} /\ Late(i)' = Late(i) /\ Entries(i)' = Entries(i)
    <3>1. /\ Early(i)' = Early(i) \cup {p} /\ Late(i)' = Late(i) \ {p}
      BY <2>1, LinkMoves
    <3>2. Entries(i)' = Entries(i)
      BY <2>1 DEF Entries
    <3> QED BY <2>5, <3>1, <3>2
  <2>7. CountedAt(i)'
    <3>1. PICK e \in Int, a \in Int, b \in Int : e = 0 /\ a = 1 /\ b = 0
      OBVIOUS
    <3>2. /\ Cardinality(Entries(i)') = Cardinality(Entries(i)) + e
          /\ Cardinality(Early(i)') = Cardinality(Early(i)) + a
          /\ Cardinality(Late(i)') = Cardinality(Late(i)) + b
          /\ core'[i].nlink = core[i].nlink + e + a + b /\ e + b <= 0
      BY <2>2, <2>5, <2>6, <3>1, OneMore
    <3> QED BY <2>1, <3>2, CountMoves
  <2> QED BY <2>1, <2>4, <2>7 DEF Counted
<1>11. ASSUME NEW n \in Name, NEW i \in Ino, CreatFind(p, n, i) PROVE Counted'
  <2>1. /\ ip[p] = NoIno /\ ip'[p] = i /\ pc[p] = "user" /\ pc'[p] = "creat1"
        /\ cIno' = cIno /\ dIno' = dIno /\ cDir' = cDir
        /\ core[i].file = NoFile /\ core'[i].nlink = 1
        /\ \A j \in Ino \ {i} : core'[j].nlink = core[j].nlink
    BY <1>0, <1>11 DEF TypeOK, PcOf, CreatFind, Lookup, Ialloc, inodes, entries
  <2>2. core[i].nlink = 0 /\ Early(i) = {} /\ Late(i) = {} /\ Entries(i) = {}
    BY <2>1, Positive DEF Names, Live
  <2>3. \A j \in Ino \ {i} : CountedAt(j)'
    <3>1. \A m \in Name : cDir'[m] = cDir[m]
      BY <2>1
    <3> QED BY <2>1, <3>1, OthersCounted
  <2>4. Early(i)' = Early(i) \cup {p} /\ Late(i)' = Late(i) /\ Entries(i)' = Entries(i)
    BY <2>1, <2>2, LinkMoves DEF Entries
  <2>5. p \notin Early(i) /\ IsFiniteSet(Early(i))
        /\ Cardinality(Entries(i)) \in Nat /\ Cardinality(Early(i)) \in Nat
        /\ Cardinality(Late(i)) \in Nat
    BY <2>2, LinkSets
  <2>6. CountedAt(i)'
    <3>1. PICK e \in Int, a \in Int, b \in Int : e = 0 /\ a = 1 /\ b = 0
      OBVIOUS
    <3>2. /\ Cardinality(Entries(i)') = Cardinality(Entries(i)) + e
          /\ Cardinality(Early(i)') = Cardinality(Early(i)) + a
          /\ Cardinality(Late(i)') = Cardinality(Late(i)) + b
          /\ core'[i].nlink = core[i].nlink + e + a + b /\ e + b <= 0
      <4>1. Cardinality(Early(i)') = Cardinality(Early(i)) + 1
        BY <2>4, <2>5, OneMore
      <4> QED BY <2>1, <2>2, <2>4, <2>5, <3>1, <4>1
    <3> QED BY <2>1, <3>2, CountMoves
  <2> QED BY <2>3, <2>6 DEF Counted
<1> QED BY <1>1, <1>2, <1>3, <1>4, <1>5, <1>6, <1>8, <1>9, <1>10, <1>11 DEF Step

\* An inode that is the same everywhere stays so, unless it is freed.
LEMMA SameKept ==
  ASSUME NEW p \in Proc, CoreKept(p), NEW i \in Ino, Same(i), core[i].file # NoFile,
         i = ip[p] => pc[p] # "ifree1"
  PROVE  Same(i)' /\ core'[i].file = core[i].file
<1>1. core'[i].file = core[i].file
  BY DEF CoreKept
<1>2. cIno'[i].file = cIno[i].file \/ cIno'[i].file = core[i].file
  BY DEF CoreKept
<1>3. dIno'[i].file = dIno[i].file \/ dIno'[i].file = core[i].file
  BY DEF CoreKept
<1> QED BY <1>1, <1>2, <1>3 DEF Same

\* So does an entry that the step leaves alone, for a file with an entry is not
\* being freed.
LEMMA EntryKept ==
  ASSUME Names, NEW p \in Proc, CoreKept(p), NEW n \in Name, cDir'[n] = cDir[n]
  PROVE  NamedAt(n)'
<1>1. CASE cDir[n] = NoEntry
  BY <1>1 DEF NamedAt
<1>2. CASE cDir[n] # NoEntry
  <2>1. PICK i \in Ino : i = cDir[n].ino
    BY <1>2 DEF Names, Base, TypeOK, Entry
  <2>2. Same(i) /\ core[i].file = cDir[n].file /\ core[i].file # NoFile
    BY <1>2, <2>1 DEF Names, Base, Named, NamedAt, TypeOK, Entry, File, NoFile
  <2>3. ~(i = ip[p] /\ pc[p] = "ifree1")
    <3>1. n \in Entries(i)
      BY <2>1 DEF Entries
    <3>2. core[i].nlink \in Nat /\ core[i].nlink > 0
      BY <3>1, Positive
    <3> QED BY <3>2 DEF Names, Base, Held, HeldOf
  <2>4. Same(i)' /\ core'[i].file = core[i].file
    BY <2>2, <2>3, SameKept
  <2> QED BY <2>1, <2>2, <2>4 DEF NamedAt, Same
<1> QED BY <1>1, <1>2

\* An entry is made for a free name, and only unlink takes one away.
LEMMA EntrySteps ==
  ASSUME NEW p \in Proc, Step(p)
  PROVE  \/ cDir' = cDir /\ dDir' = dDir
         \/ CreatEntry(p) \/ UnlinkEntry(p) \/ \E n \in Name : LinkEntry(p, n)
  BY DEF Step, Iput, IputLast, Itrunc, ItruncDone, Ifree, ItruncFree, WriteAlloc, CreatInode,
         UnlinkCount, LinkInode, WriteData, Close, UnlinkFind, LinkFind, LinkGet, OpenTrunc,
         TruncGet, CreatFind, entries

\* What link has found stays in the directory, where no process unlinks.
LEMMA StepLasts ==
  ASSUME Lasting, Names, NEW p \in Proc, Step(p), Others(p), NEW q \in Proc
  PROVE  Lasts(q)'
<1> USE DEF GoTo
<1>0. /\ TypeOK /\ PcOK /\ PcOf(p) /\ PcOf(q) /\ Lasts(q) /\ NoIno \notin Ino
  BY VolumeAssumption DEF Names, Base, PcOK, Named
<1>1. ASSUME NEW n \in Name, cDir[n] = want[q], pc[q] \in {"linkget", "link1", "link2"}
      PROVE  cDir'[n] = want[q]
  <2>1. cDir[n] # NoEntry /\ "link" \in calls[q] /\ calls \in Mixes
    BY <1>0, <1>1 DEF PcOf, NoEntry, TypeOK
  <2>2. ~UnlinkEntry(p)
    BY <1>0, <2>1 DEF Lasting, PcOf, UnlinkEntry
  <2>3. CASE CreatEntry(p)
    BY <1>0, <1>1, <2>1, <2>3 DEF CreatEntry, WriteEntry, PcOf, TypeOK
  <2>4. ASSUME NEW m \in Name, LinkEntry(p, m) PROVE cDir'[n] = want[q]
    BY <1>0, <1>1, <2>1, <2>4 DEF LinkEntry, WriteEntry, TypeOK, entries
  <2> QED BY <1>0, <1>1, <2>2, <2>3, <2>4, EntrySteps
<1>2. ASSUME pc[q] \in {"linkget", "link1", "link2"}, want'[q] = want[q]
      PROVE  \E n \in Name : cDir'[n] = want'[q]
  <2>1. PICK n \in Name : cDir[n] = want[q]
    BY <1>0, <1>2 DEF Lasts
  <2>2. cDir'[n] = want[q]
    BY <1>1, <1>2, <2>1
  <2> QED BY <1>2, <2>2
<1>3. CASE q # p
  BY <1>2, <1>3 DEF Others, Lasts
<1>4. ASSUME NEW n \in Name, q = p, LinkFind(p, n) PROVE Lasts(q)'
  BY <1>0, <1>4 DEF LinkFind, Search, Lasts, TypeOK, entries
<1>5. CASE q = p /\ ~\E n \in Name : LinkFind(p, n)
  <2>1. SUFFICES ASSUME pc'[p] \in {"linkget", "link1", "link2"}
                 PROVE  pc[p] \in {"linkget", "link1", "link2"} /\ want'[p] = want[p]
    BY <1>2, <1>5, ZenonT(60) DEF Lasts
  <2>2. CASE LinkGet(p) \/ LinkInode(p)
    BY <2>2 DEF LinkGet, LinkInode
  <2>3. CASE ~(LinkGet(p) \/ LinkInode(p))
    <3>1. pc'[p] \notin {"linkget", "link1", "link2"}
      <4>1. CASE Iput(p) \/ IputLast(p) \/ CreatEntry(p) \/ ItruncDone(p) \/ Ifree(p)
        BY <1>0, <4>1, ZenonT(120) DEF Iput, Release, IputLast, CreatEntry, ItruncDone, Ifree, TypeOK
      <4>2. CASE Itrunc(p) \/ ItruncFree(p) \/ CreatInode(p) \/ TruncGet(p)
        BY <1>0, <4>2, ZenonT(60) DEF Itrunc, ItruncFree, CreatInode, TruncGet, TypeOK
      <4>3. ASSUME NEW b \in Block, NEW l \in {"meta", "data"}, WriteAlloc(p, b, l)
            PROVE  pc'[p] \notin {"linkget", "link1", "link2"}
        BY <1>0, <4>3 DEF WriteAlloc, TypeOK
      <4>4. CASE UnlinkEntry(p) \/ UnlinkCount(p) \/ WriteData(p) \/ Close(p)
        BY <1>0, <4>4, ZenonT(120) DEF UnlinkEntry, UnlinkCount, WriteData, Close, TypeOK
      <4>5. ASSUME NEW n \in Name, NEW i \in Ino, CreatFind(p, n, i)
            PROVE  pc'[p] \notin {"linkget", "link1", "link2"}
        BY <1>0, <4>5 DEF CreatFind, TypeOK
      <4>6. ASSUME NEW n \in Name, UnlinkFind(p, n) \/ LinkEntry(p, n) \/ OpenTrunc(p, n)
            PROVE  pc'[p] \notin {"linkget", "link1", "link2"}
        BY <1>0, <4>6, ZenonT(60) DEF UnlinkFind, LinkEntry, OpenTrunc, Search, TypeOK
      <4> QED BY <1>5, <2>3, <4>1, <4>2, <4>3, <4>4, <4>5, <4>6 DEF Step
    <3> QED BY <2>1, <3>1
  <2> QED BY <2>2, <2>3
<1> QED BY <1>3, <1>4, <1>5

\* What link has found has the file that it had.
LEMMA FoundFile ==
  ASSUME Names, NEW p \in Proc, pc[p] \in {"linkget", "link1", "link2"}
  PROVE  /\ want[p].ino \in Ino /\ Same(want[p].ino)
         /\ core[want[p].ino].file = want[p].file /\ want[p].file # NoFile
<1>1. want[p].ino \in Ino /\ want[p].file \in File /\ NoIno \notin Ino /\ Lasts(p)
  BY VolumeAssumption DEF Names, Base, PcOK, PcOf, Named
<1>2. PICK n \in Name : cDir[n] = want[p]
  BY <1>1 DEF Lasts
<1>3. cDir[n] # NoEntry /\ NamedAt(n)
  BY <1>1, <1>2 DEF Names, Named, NoEntry
<1> QED BY <1>1, <1>2, <1>3 DEF NamedAt, File, NoFile

\* Every step of a process keeps the order of inode and entry.
LEMMA StepNamed ==
  ASSUME Lasting, Names, NEW p \in Proc, Step(p), CoreKept(p), Others(p)
  PROVE  Named'
<1> USE DEF GoTo
<1>0. /\ TypeOK /\ PcOK /\ PcOf(p) /\ HeldOf(p) /\ NoIno \notin Ino
      /\ \A n \in Name : dDir[n] # NoEntry => dDir[n] = cDir[n]
      /\ pc[p] = "creat2" => Same(ip[p])
  BY VolumeAssumption DEF Names, Base, PcOK, Held, Named
<1>1. ASSUME NEW q \in Proc \ {p}, pc'[q] = "creat2" PROVE Same(ip[q])'
  <2>1. pc[q] = pc'[q] /\ ip[q] = ip'[q] /\ PcOf(q) /\ HeldOf(q)
    BY DEF Others, Names, Base, PcOK, Held
  <2>2. PICK i \in Ino : i = ip[q]
    BY <1>0, <1>1, <2>1 DEF TypeOK, PcOf
  <2>3. Same(i) /\ core[i].file # NoFile /\ i # NoIno
    BY <1>0, <1>1, <2>1, <2>2 DEF HeldOf, Names, Named
  <2>4. i = ip[p] => pc[p] # "ifree1"
    BY <1>0, <2>2 DEF HeldOf, Sole
  <2>5. Same(i)'
    BY <2>3, <2>4, SameKept
  <2> QED BY <2>1, <2>2, <2>5 DEF Same
<1>2. ASSUME pc'[p] = "creat2" PROVE Same(ip[p])'
  <2>1. CASE CreatInode(p)
    <3>1. PICK i \in Ino : i = ip[p]
      BY <1>0, <2>1 DEF TypeOK, PcOf, CreatInode
    <3>2. IupdatNow(i, TRUE) /\ ip' = ip
      BY <2>1, <3>1 DEF CreatInode
    <3>3. Same(i)'
      BY <1>0, <3>2, IupdatEffect, ZenonT(60) DEF Same
    <3> QED BY <3>1, <3>2, <3>3 DEF Same
  <2>2. CASE ~CreatInode(p)
    <3>1. pc'[p] # "creat2"
      <4>1. CASE Iput(p) \/ IputLast(p) \/ CreatEntry(p) \/ ItruncDone(p) \/ Ifree(p)
        BY <1>0, <4>1, ZenonT(120) DEF Iput, Release, IputLast, CreatEntry, ItruncDone, Ifree, TypeOK
      <4>2. CASE Itrunc(p) \/ ItruncFree(p) \/ LinkGet(p) \/ TruncGet(p) \/ LinkInode(p)
        BY <1>0, <4>2, ZenonT(60) DEF Itrunc, ItruncFree, LinkGet, TruncGet, LinkInode, TypeOK
      <4>3. ASSUME NEW b \in Block, NEW l \in {"meta", "data"}, WriteAlloc(p, b, l)
            PROVE  pc'[p] # "creat2"
        BY <1>0, <4>3 DEF WriteAlloc, TypeOK
      <4>4. CASE UnlinkEntry(p) \/ UnlinkCount(p) \/ WriteData(p) \/ Close(p)
        BY <1>0, <4>4, ZenonT(120) DEF UnlinkEntry, UnlinkCount, WriteData, Close, TypeOK
      <4>5. ASSUME NEW n \in Name, NEW i \in Ino, CreatFind(p, n, i) PROVE pc'[p] # "creat2"
        BY <1>0, <4>5 DEF CreatFind, TypeOK
      <4>6. ASSUME NEW n \in Name,
                   \/ UnlinkFind(p, n) \/ LinkFind(p, n)
                   \/ LinkEntry(p, n) \/ OpenTrunc(p, n)
            PROVE  pc'[p] # "creat2"
        BY <1>0, <4>6, ZenonT(60) DEF UnlinkFind, LinkFind, LinkEntry, OpenTrunc, Search, TypeOK
      <4> QED BY <2>2, <4>1, <4>2, <4>3, <4>4, <4>5, <4>6 DEF Step
    <3> QED BY <1>2, <3>1
  <2> QED BY <2>1, <2>2
<1>3. /\ \A q \in Proc : pc'[q] = "creat2" => Same(ip[q])'
      /\ \A q \in Proc : Lasts(q)'
  BY <1>1, <1>2, StepLasts
\* The directory.
<1>4. CASE cDir' = cDir /\ dDir' = dDir
  BY <1>0, <1>3, <1>4, EntryKept DEF Named
<1>5. ASSUME NEW n \in Name, cDir[n] = NoEntry, NEW i \in Ino, i = ip[p], Same(i),
             core[i].file # NoFile, pc[p] \in {"creat2", "link2"},
             WriteEntry(n, [ino |-> i, file |-> core[i].file], FALSE), core' = core
      PROVE  Named'
  <2>1. /\ \A m \in Name \ {n} : cDir'[m] = cDir[m]
        /\ cDir'[n] = [ino |-> i, file |-> core[i].file] /\ dDir' = dDir
    BY <1>0, <1>5 DEF WriteEntry, TypeOK
  <2>2. Same(i)'
    BY <1>5, SameKept
  <2>3. NamedAt(n)'
    BY <1>5, <2>1, <2>2 DEF NamedAt, Same
  <2>4. \A m \in Name : NamedAt(m)'
    BY <2>1, <2>3, EntryKept
  <2>5. \A m \in Name : dDir'[m] # NoEntry => dDir'[m] = cDir'[m]
    BY <1>0, <1>5, <2>1
  <2> QED BY <1>3, <2>4, <2>5 DEF Named
<1>6. CASE CreatEntry(p)
  <2>1. PICK i \in Ino : i = ip[p]
    BY <1>0, <1>6 DEF TypeOK, PcOf, CreatEntry
  <2>2. PICK n \in Name : n = name[p]
    BY <1>0, <1>6 DEF PcOf, CreatEntry
  <2>3. core[i].file # NoFile /\ cDir[n] = NoEntry /\ Same(i)
    BY <1>0, <1>6, <2>1, <2>2 DEF PcOf, HeldOf, CreatEntry
  <2> QED BY <1>5, <1>6, <2>1, <2>2, <2>3 DEF CreatEntry
<1>7. ASSUME NEW n \in Name, LinkEntry(p, n) PROVE Named'
  <2>1. CASE cDir[n] # NoEntry
    BY <1>4, <1>7, <2>1 DEF LinkEntry, entries
  <2>2. CASE cDir[n] = NoEntry
    <3>1. PICK i \in Ino : i = ip[p]
      BY <1>0, <1>7 DEF TypeOK, PcOf, LinkEntry
    <3>2. pc[p] = "link2" /\ want[p].ino = i
      BY <1>0, <1>7, <3>1 DEF PcOf, LinkEntry
    <3>3. Same(i) /\ core[i].file = want[p].file /\ core[i].file # NoFile
      BY <3>2, FoundFile
    <3> QED BY <1>5, <1>7, <2>2, <3>1, <3>2, <3>3 DEF LinkEntry
  <2> QED BY <2>1, <2>2
<1>8. CASE UnlinkEntry(p)
  <2>1. PICK n \in Name : n = name[p]
    BY <1>0, <1>8 DEF PcOf, UnlinkEntry
  <2>2. /\ \A m \in Name \ {n} : cDir'[m] = cDir[m]
        /\ cDir'[n] = NoEntry /\ dDir' = cDir'
    BY <1>0, <1>8, <2>1 DEF UnlinkEntry, WriteEntry, TypeOK
  <2>3. NamedAt(n)'
    BY <2>2 DEF NamedAt
  <2>4. \A m \in Name : NamedAt(m)'
    BY <2>2, <2>3, EntryKept, SMTT(60)
  <2> QED BY <1>3, <2>2, <2>4 DEF Named
<1> QED BY <1>0, <1>4, <1>6, <1>7, <1>8, EntrySteps

\* A free inode gets no link: link makes one to what it has found only.
LEMMA StepLive ==
  ASSUME Names, NEW p \in Proc, Step(p), CoreKept(p)
  PROVE  Live'
<1> USE DEF GoTo
<1>0. /\ TypeOK /\ PcOf(p) /\ HeldOf(p) /\ NoIno \notin Ino
  BY VolumeAssumption DEF Names, Base, PcOK, Held
<1> SUFFICES ASSUME NEW i \in Ino, core'[i].file = NoFile PROVE core'[i].nlink = 0
  BY DEF Live
<1>1. CASE core[i].file # NoFile
  <2>1. i = ip[p] /\ pc[p] = "ifree1" /\ core[i].nlink <= 0
    BY <1>0, <1>1 DEF CoreKept, HeldOf
  <2>2. core[i].nlink \in Nat /\ core'[i].nlink = core[i].nlink
    BY <2>1, Positive DEF CoreKept
  <2> QED BY <2>1, <2>2
<1>2. CASE core[i].file = NoFile
  <2>1. core[i].nlink = 0
    BY <1>2 DEF Names, Live
  <2>2. core'[i].nlink = core[i].nlink
    <3>1. CASE UnlinkCount(p) \/ \E n \in Name : LinkEntry(p, n)
      <4>1. p \in Late(ip[p]) /\ ip[p] \in Ino
        BY <1>0, <3>1 DEF Late, PcOf, TypeOK, UnlinkCount, LinkEntry
      <4>2. core[ip[p]].nlink \in Nat /\ core[ip[p]].nlink > 0
        BY <4>1, Positive
      <4>3. i # ip[p]
        BY <2>1, <4>2
      <4> QED BY <1>0, <3>1, <4>3 DEF UnlinkCount, LinkEntry, TypeOK
    <3>2. CASE LinkGet(p)
      <4>1. i # want[p].ino
        BY <1>2, <3>2, FoundFile DEF LinkGet
      <4> QED BY <1>0, <3>2, <4>1 DEF LinkGet, TypeOK
    <3>3. ASSUME NEW n \in Name, NEW j \in Ino, CreatFind(p, n, j)
          PROVE  core'[i].nlink = core[i].nlink
      <4>1. i # j
        BY <1>0, <3>3 DEF CreatFind, TypeOK, NoFile
      <4> QED BY <1>0, <3>3, <4>1 DEF CreatFind, TypeOK
    <3>4. CASE /\ ~UnlinkCount(p) /\ ~LinkGet(p) /\ \A n \in Name : ~LinkEntry(p, n)
               /\ \A n \in Name, j \in Ino : ~CreatFind(p, n, j)
      <4>1. CASE pc[p] \notin {"user", "linkget", "unlink2", "link2"}
        BY <4>1 DEF CoreKept
      <4>2. CASE pc[p] \in {"user", "linkget", "unlink2", "link2"}
        <5>1. core' = core
          BY <3>4, <4>2, ZenonT(60) DEF Step, Iput, IputLast, Itrunc, ItruncDone, Ifree, ItruncFree,
             WriteAlloc, CreatInode, CreatEntry, UnlinkEntry, LinkInode, TruncGet,
             WriteData, Close, UnlinkFind, LinkFind, OpenTrunc
        <5> QED BY <5>1
      <4> QED BY <4>1, <4>2
    <3> QED BY <3>1, <3>2, <3>3, <3>4
  <2> QED BY <2>1, <2>2
<1> QED BY <1>1, <1>2

\* A delayed write or update disturbs none of it.
LEMMA SystemNames == ASSUME Names, System PROVE Live' /\ Counted' /\ Named'
<1>1. TypeOK /\ PcOK /\ Live /\ Counted /\ Named /\ NoIno \notin Ino
  BY VolumeAssumption DEF Names, Base
<1>2. Live'
  BY <1>1 DEF Live, System
<1>3. Counted'
  <2>1. SUFFICES ASSUME NEW i \in Ino PROVE CountedAt(i)'
    BY DEF Counted
  <2>2. CountedAt(i)
    BY <1>1 DEF Counted
  <2>3. Entries(i)' = Entries(i) /\ Early(i)' = Early(i) /\ Late(i)' = Late(i)
    BY DEF Entries, Early, Late, System
  <2>4. /\ Cardinality(Entries(i)) \in Nat /\ Cardinality(Early(i)) \in Nat
        /\ Cardinality(Late(i)) \in Nat
    BY LinkSets
  <2>5. /\ core'[i].nlink = core[i].nlink
        /\ cIno'[i].nlink = cIno[i].nlink \/ cIno'[i].nlink = core[i].nlink
        /\ dIno'[i].nlink = dIno[i].nlink \/ dIno'[i].nlink = cIno[i].nlink
    BY DEF System
  <2> QED BY <2>2, <2>3, <2>4, <2>5 DEF CountedAt
<1>4. Named'
  <2>1. ASSUME NEW i \in Ino, Same(i) PROVE Same(i)' /\ core'[i].file = core[i].file
    BY <2>1 DEF Same, System
  <2>2. ASSUME NEW n \in Name PROVE NamedAt(n)'
    <3>1. cDir'[n] = cDir[n] /\ (cDir[n] # NoEntry => cDir[n].ino \in Ino) /\ NamedAt(n)
      BY <1>1 DEF TypeOK, Entry, Named, System
    <3>2. CASE cDir[n] = NoEntry
      BY <3>1, <3>2 DEF NamedAt
    <3>3. CASE cDir[n] # NoEntry
      <4>1. PICK i \in Ino : i = cDir[n].ino
        BY <3>1, <3>3
      <4>2. Same(i)' /\ core'[i].file = cDir[n].file
        BY <2>1, <3>1, <3>3, <4>1 DEF NamedAt
      <4> QED BY <3>1, <4>1, <4>2 DEF NamedAt, Same
    <3> QED BY <3>2, <3>3
  <2>3. ASSUME NEW p \in Proc, pc'[p] = "creat2" PROVE Same(ip[p])'
    <3>1. pc[p] = "creat2" /\ ip'[p] = ip[p]
      BY <2>3 DEF System
    <3>2. PICK i \in Ino : i = ip[p]
      BY <1>1, <3>1 DEF TypeOK, PcOK, PcOf
    <3>3. Same(i)'
      BY <1>1, <2>1, <3>1, <3>2 DEF Named
    <3> QED BY <3>1, <3>2, <3>3 DEF Same
  <2>4. /\ \A n \in Name : dDir'[n] # NoEntry => dDir'[n] = cDir'[n]
        /\ \A p \in Proc : Lasts(p)'
    BY <1>1 DEF Named, Lasts, System
  <2> QED BY <2>2, <2>3, <2>4 DEF Named
<1> QED BY <1>2, <1>3, <1>4

\* The links are counted and the entries are true in every state.
LEMMA NamesKept == ASSUME Lasting PROVE Names /\ [Next]_vars => Names'
<1> SUFFICES ASSUME Names, [Next]_vars PROVE Names'
  OBVIOUS
<1>1. Base /\ TypeOK /\ PcOK /\ Base'
  BY BaseKept DEF Names, Base
<1>2. ASSUME NEW p \in Proc, Step(p) PROVE Names'
  <2>1. CoreKept(p) /\ Others(p)
    BY <1>1, <1>2, StepType, StepShape
  <2>2. Live' /\ Counted' /\ Named'
    BY <1>2, <2>1, StepLive, StepCounts, StepNamed
  <2> QED BY <1>1, <2>2 DEF Names
<1>3. CASE Flush \/ (\E i \in Ino : Update(i)) \/ UNCHANGED vars
  <2>1. System
    BY <1>1, <1>3, SystemSteps
  <2> QED BY <1>1, <2>1, SystemNames DEF Names
<1> QED BY <1>2, <1>3 DEF Next, Idle

\* It holds of an empty volume.
LEMMA NamesInit == Init => Names
<1> SUFFICES ASSUME Init PROVE Names
  OBVIOUS
<1>1. Live
  BY DEF Init, Live, FreeInode
<1>2. Counted
  <2>1. SUFFICES ASSUME NEW i \in Ino PROVE CountedAt(i)
    BY DEF Counted
  <2>2. Entries(i) = {} /\ Early(i) = {} /\ Late(i) = {}
    BY VolumeAssumption DEF Init, Entries, Early, Late, NoEntry
  <2>3. core[i].nlink = 0 /\ cIno[i].nlink = 0 /\ dIno[i].nlink = 0
    BY DEF Init, FreeInode
  <2> QED BY <2>2, <2>3, FS_EmptySet DEF CountedAt
<1>3. Named
  BY DEF Init, Named, NamedAt, Lasts
<1> QED BY <1>1, <1>2, <1>3, BaseInit DEF Names

\* In a volume where no process links while another one unlinks, the links of
\* every inode, in core, in the cache and on the disk, cover its entries in every
\* state: link finds the entry, and namei gets its inode, in two steps.
THEOREM LinksCounted == ASSUME Lasting PROVE Spec => []Names
<1>1. Init => Names
  BY NamesInit
<1>2. Names /\ [Next]_vars => Names'
  BY NamesKept
<1> QED BY <1>1, <1>2, PTL DEF Spec

\* Whenever such a system crashes, an entry on the disk names the file it was made
\* for: the inode is written before the entry (ialloc and writei in namei), and
\* a removed entry is written before the inode is freed.
THEOREM EntriesTrue == ASSUME Lasting PROVE Spec => []DiskEntriesTrue
<1>1. Names => DiskEntriesTrue
  <2> SUFFICES ASSUME Names, NEW n \in Name, dDir[n] # NoEntry
               PROVE  dIno[dDir[n].ino].file = dDir[n].file
    BY DEF DiskEntriesTrue
  <2> QED BY DEF Names, Named, NamedAt, Same
<1> QED BY <1>1, LinksCounted, PTL

\* Whenever such a system crashes, no file has more entries on the disk than links.
THEOREM LinksCover == ASSUME Lasting PROVE Spec => []DiskLinksCover
<1>1. Names => DiskLinksCover
  <2> SUFFICES ASSUME Names, NEW i \in Ino
               PROVE  Cardinality({n \in Name : dDir[n].ino = i}) <= dIno[i].nlink
    BY DEF DiskLinksCover
  <2> DEFINE D == {n \in Name : dDir[n].ino = i}
  <2>1. D \in SUBSET Entries(i)
    BY VolumeAssumption DEF Names, Named, Entries, NoEntry
  <2>2. /\ IsFiniteSet(Entries(i)) /\ Cardinality(Entries(i)) \in Nat
        /\ Cardinality(Late(i)) \in Nat
    BY LinkSets
  <2>3. IsFiniteSet(D) /\ Cardinality(D) <= Cardinality(Entries(i)) /\ Cardinality(D) \in Nat
    BY <2>1, <2>2, FS_Subset, FS_CardinalityType
  <2>4. Cardinality(Entries(i)) + Cardinality(Late(i)) <= dIno[i].nlink
    BY DEF Names, Counted, CountedAt
  <2>5. dIno[i].nlink \in Int
    BY DEF Names, Base, TypeOK, Inode
  <2> HIDE DEF D
  <2>6. Cardinality(D) <= dIno[i].nlink
    BY <2>2, <2>3, <2>4, <2>5
  <2> QED BY <2>6 DEF D
<1> QED BY <1>1, LinksCounted, PTL

-----------------------------------------------------------------------------
(* The blocks.  link calls iput without a lock, and iput then takes away    *)
(* the lock of a process that truncates the file: see run VolumeLink.       *)
(* Where no two processes do both, a file is truncated under its lock.      *)

Apart == \A m \in Mixes : \/ \A p \in Proc : "link" \notin m[p]
                          \/ \A p \in Proc : "trunc" \notin m[p]

\* Without link, what a process works on is locked.
NoLink == \A p \in Proc : "link" \notin calls[p]
LockingOf(p) == NoLink => /\ ip[p] # NoIno => lock[ip[p]] = p
                          /\ pc[p] \in {"meta", "data"} => lock[open[p]] = p
Locking == \A p \in Proc : LockingOf(p)

\* A block has one owner, in core.
Owned ==
  /\ \A i, j \in Ino : i # j => core[i].addr \cap core[j].addr = {}
  /\ \A i \in Ino : core[i].addr \cap sfree = {} /\ \A p \in Proc : core[i].addr \cap blk[p] = {}
  /\ \A p, q \in Proc : blk[p] \cap (sfree \cup IF p = q THEN {} ELSE blk[q]) = {}
  /\ \A i \in Ino : core[i].meta \subseteq core[i].addr

\* A block that is, or is about to be, metadata has been cleared on the disk.
Clear(b) == cBlk[b] = "meta" /\ dBlk[b] = "meta"
Clean == /\ \A i \in Ino : \A b \in core[i].meta : Clear(b)
         /\ \A p \in Proc : pc[p] = "meta" => \A b \in blk[p] : Clear(b)

\* A block that the cache or the disk has in an inode is in no other one, not
\* free and not with a process, although the inode in core may have lost it:
\* ialloc clears a free inode that somebody had open and wrote to.  While the
\* blocks of an inode are freed, the cache and the disk have none in it.
Noted(i) == cIno[i].addr \cup dIno[i].addr
WrittenAt(i) ==
  /\ \A j \in Ino \ {i} : Noted(i) \cap (Noted(j) \cup core[j].addr) = {}
  /\ Noted(i) \cap sfree = {} /\ \A p \in Proc : Noted(i) \cap blk[p] = {}
  /\ cIno[i].meta \subseteq cIno[i].addr /\ dIno[i].meta \subseteq dIno[i].addr
  /\ \A b \in cIno[i].meta \cup dIno[i].meta : Clear(b)
WrittenOf(p) == pc[p] \in {"free", "ifree1"} /\ blk[p] # {} => Noted(ip[p]) = {}
Written == (\A i \in Ino : WrittenAt(i)) /\ (\A p \in Proc : WrittenOf(p))

Blocks == Locking /\ Owned /\ Clean /\ (Apart => Written)

\* The locks: a step of p takes no lock away from another process.
LEMMA StepLocking ==
  ASSUME Base, Locking, NEW p \in Proc, Step(p), Others(p)
  PROVE  Locking'
<1> USE DEF GoTo
<1>0. /\ TypeOK /\ PcOf(p) /\ LockingOf(p) /\ NoIno \notin Ino /\ NoProc \notin Proc
  BY VolumeAssumption DEF Base, PcOK, Locking
<1>1. calls' = calls /\ (NoLink' <=> NoLink)
  BY SMTT(60) DEF Others, NoLink
<1>2. ASSUME NEW q \in Proc, q # p PROVE LockingOf(q)'
  <2>1. LockingOf(q) /\ PcOf(q)
    BY DEF Locking, Base, PcOK
  <2>2. ASSUME NEW i \in Ino, NoLink, lock[i] = q PROVE lock'[i] = q
    BY <1>0, <1>2, <2>2 DEF Others, LockingOf, PcOf
  <2>3. pc'[q] = pc[q] /\ ip'[q] = ip[q] /\ open'[q] = open[q]
    BY <1>2 DEF Others
  <2>4. (ip[q] # NoIno => ip[q] \in Ino) /\ (pc[q] \in {"meta", "data"} => open[q] \in Ino)
    BY <1>0, <2>1 DEF TypeOK, PcOf
  <2> QED BY <1>1, <2>1, <2>2, <2>3, <2>4 DEF LockingOf
<1>3. LockingOf(p)'
  <2>1. CASE Iput(p)
    BY <1>0, <1>1, <2>1 DEF Iput, Release, TypeOK, PcOf, LockingOf
  <2>2. CASE IputLast(p) \/ ItruncDone(p)
    BY <1>0, <1>1, <2>2 DEF IputLast, ItruncDone, Release, TypeOK, PcOf, LockingOf
  <2>3. CASE Itrunc(p)
    <3>1. pc' = [pc EXCEPT ![p] = IF pc[p] = "trunc" THEN "free" ELSE "ifree1"]
          /\ lock' = lock /\ ip' = ip /\ open' = open
      BY <2>3 DEF Itrunc
    <3> QED BY <1>0, <1>1, <3>1 DEF TypeOK, PcOf, LockingOf
  <2>4. CASE Ifree(p) \/ ItruncFree(p)
    BY <1>0, <1>1, <2>4 DEF Ifree, ItruncFree, TypeOK, PcOf, LockingOf
  <2>5. ASSUME NEW b \in Block, NEW l \in {"meta", "data"}, WriteAlloc(p, b, l)
        PROVE  LockingOf(p)'
    BY <1>0, <1>1, <2>5 DEF WriteAlloc, Plock, TypeOK, PcOf, LockingOf
  <2>6. CASE CreatInode(p) \/ UnlinkEntry(p) \/ UnlinkCount(p)
    BY <1>0, <1>1, <2>6, ZenonT(120) DEF CreatInode, UnlinkEntry, UnlinkCount, TypeOK, PcOf, LockingOf
  <2>7. CASE CreatEntry(p)
    BY <1>0, <1>1, <2>7 DEF CreatEntry, Release, TypeOK, PcOf, LockingOf
  <2>8. CASE LinkGet(p) \/ LinkInode(p)
    BY <1>0, <1>1, <2>8 DEF LinkGet, LinkInode, PcOf, LockingOf, NoLink
  <2>9. CASE WriteData(p)
    BY <1>0, <1>1, <2>9 DEF WriteData, TypeOK, PcOf, LockingOf
  <2>10. CASE Close(p)
    BY <1>0, <1>1, <2>10 DEF Close, Plock, TypeOK, PcOf, LockingOf
  <2>11. ASSUME NEW n \in Name, UnlinkFind(p, n) PROVE LockingOf(p)'
    <3>1. ip'[p] \in Ino /\ lock'[ip'[p]] = p
      BY <1>0, <2>11 DEF UnlinkFind, Found, TypeOK, Entry
    <3> QED BY <1>0, <1>1, <2>11, <3>1 DEF UnlinkFind, TypeOK, LockingOf
  <2>12. CASE TruncGet(p)
    BY <1>0, <1>1, <2>12 DEF TruncGet, Iget, TypeOK, PcOf, LockingOf
  <2>13. ASSUME NEW n \in Name, LinkFind(p, n) \/ LinkEntry(p, n) \/ OpenTrunc(p, n)
         PROVE  LockingOf(p)'
    BY <1>0, <1>1, <2>13 DEF LinkFind, LinkEntry, OpenTrunc, Search, TypeOK, PcOf, LockingOf, NoLink
  <2>14. ASSUME NEW n \in Name, NEW i \in Ino, CreatFind(p, n, i) PROVE LockingOf(p)'
    BY <1>0, <1>1, <2>14 DEF CreatFind, Ialloc, TypeOK, PcOf, LockingOf
  <2> QED BY <2>1, <2>2, <2>3, <2>4, <2>5, <2>6, <2>7, <2>8, <2>9, <2>10, <2>11, <2>12, <2>13,
             <2>14 DEF Step
<1> QED BY <1>2, <1>3 DEF Locking

\* A step that moves no block: what it writes of its own inode is what the
\* inode is in core.
BlocksKept(p) ==
  /\ blk' = blk /\ sfree' = sfree /\ cBlk' = cBlk /\ dBlk' = dBlk
  /\ pc'[p] \notin {"free", "ifree1", "meta"}
  /\ \A i \in Ino :
       /\ core'[i].addr = core[i].addr /\ core'[i].meta = core[i].meta
       /\ \/ cIno'[i] = cIno[i]
          \/ i = ip[p] /\ cIno'[i].addr = core[i].addr /\ cIno'[i].meta = core[i].meta
       /\ \/ dIno'[i] = dIno[i]
          \/ i = ip[p] /\ dIno'[i].addr = core[i].addr /\ dIno'[i].meta = core[i].meta

\* Which steps move blocks.
LEMMA BlockSteps ==
  ASSUME Base, NEW p \in Proc, Step(p)
  PROVE  \/ BlocksKept(p) \/ Itrunc(p) \/ ItruncFree(p) \/ WriteData(p)
         \/ \E b \in Block, l \in {"meta", "data"} : WriteAlloc(p, b, l)
         \/ \E n \in Name, i \in Ino : CreatFind(p, n, i)
<1> USE DEF GoTo
<1>0. /\ TypeOK /\ PcOf(p) /\ NoIno \notin Ino
  BY VolumeAssumption DEF Base, PcOK
<1>1. ASSUME \/ Iput(p) \/ ItruncDone(p) \/ CreatEntry(p) \/ UnlinkEntry(p) \/ Close(p)
             \/ TruncGet(p)
             \/ \E n \in Name : UnlinkFind(p, n) \/ LinkFind(p, n) \/ OpenTrunc(p, n)
      PROVE  BlocksKept(p)
  <2>1. core' = core /\ cIno' = cIno /\ dIno' = dIno /\ blk' = blk /\ sfree' = sfree
        /\ cBlk' = cBlk /\ dBlk' = dBlk
    BY <1>1 DEF Iput, ItruncDone, CreatEntry, UnlinkEntry, Close, TruncGet, UnlinkFind,
       LinkFind, OpenTrunc, inodes, data
  <2>2. pc'[p] \notin {"free", "ifree1", "meta"}
    BY <1>0, <1>1, ZenonT(60) DEF Iput, ItruncDone, Release, CreatEntry, UnlinkEntry, Close,
       TruncGet, UnlinkFind, LinkFind, OpenTrunc, Search, TypeOK
  <2> QED BY <2>1, <2>2 DEF BlocksKept
<1>2. ASSUME NEW i \in Ino, i = ip[p], NEW sync \in BOOLEAN, IupdatNow(i, sync),
             blk' = blk, sfree' = sfree, UNCHANGED data,
             pc'[p] \notin {"free", "ifree1", "meta"}
      PROVE  BlocksKept(p)
  <2>1. \A j \in Ino \ {i} : core'[j] = core[j] /\ cIno'[j] = cIno[j] /\ dIno'[j] = dIno[j]
    BY <1>0, <1>2, IupdatEffect
  <2>2. /\ core'[i].file = core[i].file
        /\ core'[i].addr = core[i].addr /\ core'[i].meta = core[i].meta
        /\ cIno'[i].addr = core[i].addr /\ cIno'[i].meta = core[i].meta
        /\ \/ dIno'[i] = dIno[i]
           \/ dIno'[i].addr = core[i].addr /\ dIno'[i].meta = core[i].meta
    BY <1>0, <1>2, IupdatEffect
  <2> QED BY <1>2, <2>1, <2>2 DEF BlocksKept, data
<1>3. CASE CreatInode(p) \/ LinkInode(p) \/ IputLast(p)
  <2>1. PICK i \in Ino : i = ip[p]
    BY <1>0, <1>3 DEF TypeOK, PcOf, CreatInode, LinkInode, IputLast
  <2>2. blk' = blk /\ sfree' = sfree /\ UNCHANGED data
        /\ pc'[p] \notin {"free", "ifree1", "meta"}
    BY <1>0, <1>3, ZenonT(60) DEF CreatInode, LinkInode, IputLast, Release, TypeOK
  <2>3. IupdatNow(i, TRUE) \/ IupdatNow(i, FALSE) \/ UNCHANGED <<core, inodes>>
    BY <1>3, <2>1 DEF CreatInode, LinkInode, IputLast, Iupdat
  <2>4. CASE UNCHANGED <<core, inodes>>
    BY <2>2, <2>4 DEF BlocksKept, inodes, data
  <2> QED BY <1>2, <2>1, <2>2, <2>3, <2>4
<1>4. ASSUME NEW i \in Ino, NEW e \in Inode, core' = [core EXCEPT ![i] = e],
             e.addr = core[i].addr, e.meta = core[i].meta,
             blk' = blk, sfree' = sfree, UNCHANGED <<inodes, data>>,
             pc'[p] \notin {"free", "ifree1", "meta"}
      PROVE  BlocksKept(p)
  <2>1. core'[i] = e /\ \A j \in Ino \ {i} : core'[j] = core[j]
    BY <1>0, <1>4 DEF TypeOK
  <2> QED BY <1>4, <2>1 DEF BlocksKept, inodes, data
<1>5. ASSUME NEW i \in Ino, NEW k \in Int,
             core' = [core EXCEPT ![i] = [core[i] EXCEPT !.nlink = k, !.chg = TRUE]],
             blk' = blk, sfree' = sfree, UNCHANGED <<inodes, data>>,
             pc'[p] \notin {"free", "ifree1", "meta"}
      PROVE  BlocksKept(p)
  <2>1. PICK c \in Inode : c = core[i]
    BY <1>0 DEF TypeOK
  <2>2. PICK e \in Inode : e = [c EXCEPT !.nlink = k, !.chg = TRUE]
    BY <1>5, InodeFields
  <2>3. e.addr = c.addr /\ e.meta = c.meta /\ e.file = c.file
    BY <2>2 DEF Inode
  <2> QED BY <1>4, <1>5, <2>1, <2>2, <2>3
<1>6. ASSUME NEW i \in Ino, i = ip[p], pc[p] \in {"unlink2", "link2"},
             core' = [core EXCEPT ![i].nlink = @ - 1, ![i].chg = TRUE],
             blk' = blk, sfree' = sfree, UNCHANGED <<inodes, data>>,
             pc'[p] \notin {"free", "ifree1", "meta"}
      PROVE  BlocksKept(p)
  <2>1. PICK k \in Int : k = core[i].nlink - 1
    BY <1>0 DEF TypeOK, Inode
  <2>2. core' = [core EXCEPT ![i] = [core[i] EXCEPT !.nlink = k, !.chg = TRUE]]
    BY <1>0, <1>6, <2>1 DEF TypeOK
  <2> QED BY <1>5, <1>6, <2>2
<1>7. CASE UnlinkCount(p)
  <2>1. PICK i \in Ino : i = ip[p]
    BY <1>0, <1>7 DEF TypeOK, PcOf, UnlinkCount
  <2> QED BY <1>0, <1>6, <1>7, <2>1 DEF UnlinkCount, TypeOK
<1>8. ASSUME NEW n \in Name, LinkEntry(p, n) PROVE BlocksKept(p)
  <2>1. PICK i \in Ino : i = ip[p]
    BY <1>0, <1>8 DEF TypeOK, PcOf, LinkEntry
  <2>2. pc[p] = "link2" /\ pc'[p] = "iput" /\ blk' = blk /\ sfree' = sfree
        /\ UNCHANGED <<inodes, data>>
    BY <1>0, <1>8 DEF LinkEntry, TypeOK
  <2>3. CASE core' = core
    BY <2>2, <2>3 DEF BlocksKept, inodes, data
  <2>4. CASE core' = [core EXCEPT ![i].nlink = @ - 1, ![i].chg = TRUE]
    BY <1>6, <2>1, <2>2, <2>4
  <2> QED BY <1>8, <2>1, <2>3, <2>4 DEF LinkEntry
<1>9. CASE LinkGet(p)
  <2>1. PICK i \in Ino : i = want[p].ino
    BY <1>0, <1>9 DEF LinkGet, PcOf
  <2>2. PICK k \in Int : k = core[i].nlink + 1
    BY <1>0 DEF TypeOK, Inode
  <2>3. core' = [core EXCEPT ![i] = [core[i] EXCEPT !.nlink = k, !.chg = TRUE]]
    BY <1>0, <1>9, <2>1, <2>2 DEF LinkGet, TypeOK
  <2> QED BY <1>0, <1>5, <1>9, <2>3, ZenonT(60) DEF LinkGet, TypeOK
<1>10. CASE Ifree(p)
  <2>1. PICK i \in Ino : i = ip[p]
    BY <1>0, <1>10 DEF TypeOK, PcOf, Ifree
  <2>2. PICK c \in Inode : c = core[i]
    BY <1>0 DEF TypeOK
  <2>3. PICK k \in Int : k = c.nlink
    BY SMTT(60) DEF Inode
  <2>4. PICK e \in Inode : e = [c EXCEPT !.file = NoFile, !.chg = TRUE]
    BY <2>3, InodeFields
  <2>5. e.addr = c.addr /\ e.meta = c.meta
    BY <2>4 DEF Inode
  <2>6. core' = [core EXCEPT ![i] = e] /\ pc'[p] = "iupdat"
        /\ blk' = blk /\ sfree' = sfree /\ UNCHANGED <<inodes, data>>
    BY <1>0, <1>10, <2>1, <2>2, <2>4 DEF Ifree, TypeOK
  <2> QED BY <1>4, <2>1, <2>2, <2>5, <2>6
<1> QED BY <1>1, <1>3, <1>7, <1>8, <1>9, <1>10 DEF Step

\* itrunc leaves a free inode alone.
Spared(p) == /\ core' = core /\ cIno' = cIno /\ dIno' = dIno /\ sfree' = sfree
             /\ cBlk' = cBlk /\ dBlk' = dBlk /\ blk' = [blk EXCEPT ![p] = {}]

\* Otherwise the addresses it takes away go to the block that is being freed.
LEMMA TruncEffect ==
  ASSUME TypeOK, NEW p \in Proc, ip[p] \in Ino, Itrunc(p) \/ ItruncFree(p)
  PROVE  \/ Spared(p)
         \/ /\ Itrunc(p) => WriteInode(ip[p], [core[ip[p]] EXCEPT !.addr = {}, !.meta = {}], TRUE)
            /\ \E s \in Cleared(core[ip[p]].addr) :
                 /\ s \subseteq core[ip[p]].addr /\ Forget(p, s) /\ blk' = [blk EXCEPT ![p] = s]
<1>1. CASE Itrunc(p) /\ core[ip[p]].file = NoFile
  BY <1>1 DEF Itrunc, Spared, inodes, data
<1>2. CASE ItruncFree(p) \/ (Itrunc(p) /\ core[ip[p]].file # NoFile)
  <2>1. PICK s \in Cleared(core[ip[p]].addr) : Forget(p, s)
    BY <1>2 DEF Itrunc, ItruncFree
  <2>2. s \subseteq core[ip[p]].addr
    BY <2>1 DEF Cleared
  <2>3. Itrunc(p) => WriteInode(ip[p], [core[ip[p]] EXCEPT !.addr = {}, !.meta = {}], TRUE)
    <3>1. ~(Itrunc(p) /\ ItruncFree(p))
      BY DEF Itrunc, ItruncFree
    <3> QED BY <1>2, <3>1 DEF Itrunc
  <2> QED BY <2>1, <2>2, <2>3 DEF Forget
<1> QED BY <1>1, <1>2

\* writei gives the file the block that bmap allocated.
LEMMA WriteEffect ==
  ASSUME TypeOK, NEW p \in Proc, open[p] \in Ino, WriteData(p)
  PROVE  /\ \A i \in Ino \ {open[p]} : core'[i] = core[i]
         /\ core'[open[p]].addr = core[open[p]].addr \cup blk[p]
         /\ core'[open[p]].meta =
              IF pc[p] = "meta" THEN core[open[p]].meta \cup blk[p] ELSE core[open[p]].meta
         /\ core'[open[p]].file = core[open[p]].file
<1> DEFINE c == core[open[p]]
           a == c.addr \cup blk[p]
           m == IF pc[p] = "meta" THEN c.meta \cup blk[p] ELSE c.meta
           e == [c EXCEPT !.addr = a, !.chg = TRUE, !.meta = m]
<1>1. c \in Inode /\ core \in [Ino -> Inode]
  BY DEF TypeOK
<1>2. core' = [core EXCEPT ![open[p]] = e]
  BY DEF WriteData
<1>3. e.addr = a /\ e.meta = m /\ e.file = c.file
  <2> HIDE DEF a, m
  <2> QED BY <1>1 DEF Inode
<1> HIDE DEF e
<1> QED BY <1>1, <1>2, <1>3

\* A block keeps one owner.
LEMMA StepOwned ==
  ASSUME Base, Owned, NEW p \in Proc, Step(p)
  PROVE  Owned'
<1>0. /\ TypeOK /\ PcOf(p) /\ NoIno \notin Ino
  BY VolumeAssumption DEF Base, PcOK
<1>1. CASE BlocksKept(p)
  BY <1>1 DEF BlocksKept, Owned
<1>2. ASSUME NEW s, NEW i \in Ino, s \subseteq core[i].addr, i = ip[p], Forget(p, s),
             blk' = [blk EXCEPT ![p] = s], sfree' \subseteq sfree \cup blk[p]
      PROVE  Owned'
  <2>1. core[i].addr \subseteq Block
    BY <1>0 DEF TypeOK, Inode
  <2>2. /\ \A j \in Ino \ {i} : core'[j] = core[j]
        /\ core'[i].addr = core[i].addr \ s /\ core'[i].meta = core[i].meta \ s
    BY <1>0, <1>2, <2>1, ForgetEffect
  <2>3. \A j \in Ino : /\ core'[j].addr \subseteq core[j].addr
                       /\ core'[j].addr \cap s = {}
                       /\ core'[j].meta \subseteq core'[j].addr
    BY <1>2, <2>2 DEF Owned
  <2>4. blk'[p] = s /\ \A q \in Proc \ {p} : blk'[q] = blk[q]
    BY <1>0, <1>2 DEF TypeOK
  <2>5. \A j, k \in Ino : j # k => core'[j].addr \cap core'[k].addr = {}
    BY <2>3 DEF Owned
  <2>6. \A j \in Ino, q \in Proc : core'[j].addr \cap (sfree' \cup blk'[q]) = {}
    <3>1. ASSUME NEW j \in Ino, NEW q \in Proc
          PROVE  core'[j].addr \cap sfree' = {} /\ core'[j].addr \cap blk'[q] = {}
      <4>1. core[j].addr \cap (sfree \cup blk[p]) = {} /\ core[j].addr \cap (sfree \cup blk[q]) = {}
        BY DEF Owned
      <4> QED BY <1>2, <2>3, <2>4, <4>1
    <3> QED BY <3>1
  <2>7. \A q, r \in Proc : blk'[q] \cap (sfree' \cup IF q = r THEN {} ELSE blk'[r]) = {}
    <3>1. ASSUME NEW q \in Proc PROVE blk'[q] \cap sfree' = {}
      <4>1. core[i].addr \cap (sfree \cup blk[p]) = {} /\ blk[q] \cap sfree = {}
            /\ (q # p => blk[q] \cap blk[p] = {})
        BY DEF Owned
      <4> QED BY <1>2, <2>4, <4>1
    <3>2. ASSUME NEW q \in Proc, NEW r \in Proc, q # r PROVE blk'[q] \cap blk'[r] = {}
      <4>1. core[i].addr \cap blk[q] = {} /\ core[i].addr \cap blk[r] = {}
            /\ blk[q] \cap blk[r] = {}
        BY <3>2 DEF Owned
      <4> QED BY <1>2, <2>4, <3>2, <4>1
    <3> QED BY <3>1, <3>2
  <2> QED BY <2>3, <2>5, <2>6, <2>7 DEF Owned
<1>3. CASE Itrunc(p) \/ ItruncFree(p)
  <2>1. PICK i \in Ino : i = ip[p]
    BY <1>0, <1>3 DEF TypeOK, PcOf, Itrunc, ItruncFree
  <2>2. sfree' \subseteq sfree \cup blk[p]
    BY <1>3 DEF Itrunc, ItruncFree
  <2>3. CASE Spared(p)
    <3>1. \A q \in Proc : blk'[q] \subseteq blk[q]
      BY <1>0, <2>3 DEF Spared, TypeOK
    <3> QED BY <2>3, <3>1 DEF Spared, Owned
  <2>4. CASE ~Spared(p)
    <3>1. PICK s : s \subseteq core[i].addr /\ Forget(p, s) /\ blk' = [blk EXCEPT ![p] = s]
      BY <1>0, <1>3, <2>1, <2>4, TruncEffect
    <3> QED BY <1>2, <2>1, <2>2, <3>1
  <2> QED BY <2>3, <2>4
<1>4. ASSUME NEW b \in Block, NEW l \in {"meta", "data"}, WriteAlloc(p, b, l) PROVE Owned'
  <2>1. /\ core' = core /\ b \in sfree /\ sfree' = sfree \ {b} /\ blk'[p] = {b}
        /\ \A q \in Proc \ {p} : blk'[q] = blk[q]
    BY <1>0, <1>4 DEF WriteAlloc, TypeOK
  <2>2. \A j \in Ino, q \in Proc : core'[j].addr \cap (sfree' \cup blk'[q]) = {}
    <3>1. ASSUME NEW j \in Ino, NEW q \in Proc
          PROVE  core'[j].addr \cap sfree' = {} /\ core'[j].addr \cap blk'[q] = {}
      <4>1. core[j].addr \cap (sfree \cup blk[q]) = {}
        BY DEF Owned
      <4> QED BY <2>1, <4>1
    <3> QED BY <3>1
  <2>3. \A q, r \in Proc : blk'[q] \cap (sfree' \cup IF q = r THEN {} ELSE blk'[r]) = {}
    <3>1. ASSUME NEW q \in Proc PROVE blk'[q] \cap sfree' = {}
      <4>1. blk[q] \cap sfree = {}
        BY DEF Owned
      <4> QED BY <2>1, <4>1
    <3>2. ASSUME NEW q \in Proc, NEW r \in Proc, q # r PROVE blk'[q] \cap blk'[r] = {}
      <4>1. blk[q] \cap sfree = {} /\ blk[r] \cap sfree = {} /\ blk[q] \cap blk[r] = {}
        BY <3>2 DEF Owned
      <4> QED BY <2>1, <3>2, <4>1
    <3> QED BY <3>1, <3>2
  <2> QED BY <2>1, <2>2, <2>3 DEF Owned
<1>5. CASE WriteData(p)
  <2>1. PICK i \in Ino : i = open[p]
    BY <1>0, <1>5 DEF WriteData, PcOf
  <2>2. /\ \A j \in Ino \ {i} : core'[j] = core[j]
        /\ core'[i].addr = core[i].addr \cup blk[p]
        /\ core'[i].meta \subseteq core[i].meta \cup blk[p]
    BY <1>0, <1>5, <2>1, WriteEffect
  <2>3. /\ sfree' = sfree /\ blk'[p] = {} /\ \A q \in Proc \ {p} : blk'[q] = blk[q]
    BY <1>0, <1>5 DEF WriteData, TypeOK
  <2>4. ASSUME NEW j \in Ino, NEW k \in Ino, j # k PROVE core'[j].addr \cap core'[k].addr = {}
    <3>1. core[j].addr \cap core[k].addr = {} /\ core[j].addr \cap blk[p] = {}
          /\ core[k].addr \cap blk[p] = {}
      BY <2>4 DEF Owned
    <3> QED BY <2>2, <2>4, <3>1
  <2>5. \A j \in Ino, q \in Proc : core'[j].addr \cap (sfree' \cup blk'[q]) = {}
    <3>1. ASSUME NEW j \in Ino, NEW q \in Proc
          PROVE  core'[j].addr \cap sfree' = {} /\ core'[j].addr \cap blk'[q] = {}
      <4>1. core[j].addr \cap (sfree \cup blk[q]) = {} /\ blk[p] \cap sfree = {}
            /\ (q # p => blk[p] \cap blk[q] = {})
        BY DEF Owned
      <4> QED BY <2>2, <2>3, <4>1
    <3> QED BY <3>1
  <2>6. \A q, r \in Proc : blk'[q] \cap (sfree' \cup IF q = r THEN {} ELSE blk'[r]) = {}
    BY <2>3 DEF Owned
  <2>7. \A j \in Ino : core'[j].meta \subseteq core'[j].addr
    BY <2>2 DEF Owned
  <2> QED BY <2>4, <2>5, <2>6, <2>7 DEF Owned
<1>6. ASSUME NEW n \in Name, NEW i \in Ino, CreatFind(p, n, i) PROVE Owned'
  <2>1. /\ \A j \in Ino \ {i} : core'[j] = core[j]
        /\ core'[i].addr = {} /\ core'[i].meta = {} /\ sfree' = sfree /\ blk' = blk
    BY <1>0, <1>6 DEF CreatFind, TypeOK
  <2>2. \A j \in Ino : core'[j].addr \subseteq core[j].addr /\ core'[j].meta \subseteq core'[j].addr
    BY <2>1 DEF Owned
  <2>3. \A j, k \in Ino : j # k => core'[j].addr \cap core'[k].addr = {}
    BY <2>2 DEF Owned
  <2>4. \A j \in Ino, q \in Proc : core'[j].addr \cap (sfree' \cup blk'[q]) = {}
    BY <2>1, <2>2 DEF Owned
  <2> QED BY <2>1, <2>2, <2>3, <2>4 DEF Owned
<1> QED BY <1>1, <1>3, <1>4, <1>5, <1>6, BlockSteps

\* What is metadata stays clear: a block that is cleared or written with data
\* belongs to no other file.
LEMMA StepClean ==
  ASSUME Base, Owned, Clean, NEW p \in Proc, Step(p), Others(p)
  PROVE  Clean'
<1>0. /\ TypeOK /\ PcOf(p) /\ NoIno \notin Ino
  BY VolumeAssumption DEF Base, PcOK
<1>1. ASSUME cBlk' = cBlk, dBlk' = dBlk, \A i \in Ino : core'[i].meta \subseteq core[i].meta,
             pc'[p] # "meta"
      PROVE  Clean'
  BY <1>1 DEF Clean, Clear, Others
<1>2. CASE BlocksKept(p)
  <2>1. cBlk' = cBlk /\ dBlk' = dBlk /\ pc'[p] # "meta"
        /\ \A i \in Ino : core'[i].meta \subseteq core[i].meta
    BY <1>2 DEF BlocksKept
  <2> QED BY <1>1, <2>1
<1>3. CASE Itrunc(p) \/ ItruncFree(p)
  <2>1. PICK i \in Ino : i = ip[p]
    BY <1>0, <1>3 DEF TypeOK, PcOf, Itrunc, ItruncFree
  <2>2. core[i].addr \subseteq Block
    BY <1>0 DEF TypeOK, Inode
  <2>4. \A j \in Ino : core'[j].meta \subseteq core[j].meta
    <3>1. CASE Spared(p)
      BY <3>1 DEF Spared
    <3>2. CASE ~Spared(p)
      <4>1. PICK s : s \subseteq core[i].addr /\ Forget(p, s)
        BY <1>0, <1>3, <2>1, <3>2, TruncEffect
      <4> QED BY <1>0, <2>1, <2>2, <4>1, ForgetEffect
    <3> QED BY <3>1, <3>2
  <2>5. cBlk' = cBlk /\ dBlk' = dBlk /\ pc'[p] # "meta"
    <3>1. pc[p] # "meta" /\ \/ pc' = pc
                            \/ pc' = [pc EXCEPT ![p] = IF pc[p] = "trunc" THEN "free" ELSE "ifree1"]
      BY <1>3 DEF Itrunc, ItruncFree, GoTo
    <3> QED BY <1>0, <1>3, <3>1 DEF Itrunc, ItruncFree, data, TypeOK
  <2> QED BY <1>1, <2>4, <2>5
<1>4. ASSUME NEW b \in Block, NEW l \in {"meta", "data"}, WriteAlloc(p, b, l) PROVE Clean'
  <2>1. /\ core' = core /\ b \in sfree /\ blk'[p] = {b} /\ pc'[p] = l
        /\ cBlk'[b] = "meta" /\ (l = "meta" => dBlk'[b] = "meta")
        /\ \A a \in Block \ {b} : cBlk'[a] = cBlk[a] /\ dBlk'[a] = dBlk[a]
    BY <1>0, <1>4 DEF WriteAlloc, WriteBlock, TypeOK, GoTo
  <2>2. ASSUME NEW a \in Block, a # b, Clear(a) PROVE Clear(a)'
    BY <2>1, <2>2 DEF Clear
  <2>3. ASSUME NEW i \in Ino, NEW a \in core[i].meta PROVE Clear(a)'
    <3>1. core[i].meta \subseteq core[i].addr /\ core[i].addr \subseteq Block
          /\ core[i].addr \cap sfree = {}
      BY <1>0 DEF Owned, TypeOK, Inode
    <3> QED BY <2>1, <2>2, <3>1 DEF Clean
  <2>4. ASSUME NEW q \in Proc, pc'[q] = "meta", NEW a \in blk'[q] PROVE Clear(a)'
    <3>1. CASE q = p
      BY <2>1, <2>4, <3>1 DEF Clear
    <3>2. CASE q # p
      <4>1. pc[q] = "meta" /\ blk'[q] = blk[q] /\ blk[q] \subseteq Block
            /\ blk[q] \cap sfree = {}
        BY <1>0, <2>4, <3>2 DEF Others, Owned, TypeOK
      <4> QED BY <2>1, <2>2, <2>4, <4>1 DEF Clean
    <3> QED BY <3>1, <3>2
  <2> QED BY <2>1, <2>3, <2>4 DEF Clean
<1>5. CASE WriteData(p)
  <2>1. PICK i \in Ino : i = open[p]
    BY <1>0, <1>5 DEF WriteData, PcOf
  <2>2. /\ \A j \in Ino \ {i} : core'[j] = core[j]
        /\ core'[i].meta =
             IF pc[p] = "meta" THEN core[i].meta \cup blk[p] ELSE core[i].meta
    BY <1>0, <1>5, <2>1, WriteEffect
  <2>3. PICK b \in blk[p] : WriteBlock(b, pc[p], FALSE)
    BY <1>5 DEF WriteData
  <2>4. /\ b \in Block /\ cBlk'[b] = pc[p] /\ dBlk' = dBlk /\ pc'[p] = "user"
        /\ pc[p] \in {"meta", "data"}
        /\ \A a \in Block \ {b} : cBlk'[a] = cBlk[a]
    BY <1>0, <1>5, <2>3 DEF WriteBlock, WriteData, TypeOK, GoTo
  <2>5. ASSUME NEW a \in Block, a # b \/ pc[p] = "meta", Clear(a) PROVE Clear(a)'
    BY <2>4, <2>5 DEF Clear
  <2>6. ASSUME NEW j \in Ino, NEW a \in core'[j].meta PROVE Clear(a)'
    <3>1. core[j].meta \subseteq core[j].addr /\ core[j].addr \subseteq Block
          /\ core[j].addr \cap blk[p] = {} /\ blk[p] \subseteq Block
      BY <1>0 DEF Owned, TypeOK, Inode
    <3>2. CASE a \in core[j].meta
      BY <2>5, <3>1, <3>2 DEF Clean
    <3>3. CASE a \notin core[j].meta
      <4>1. pc[p] = "meta" /\ a \in blk[p]
        BY <2>2, <2>6, <3>3
      <4> QED BY <2>5, <3>1, <4>1 DEF Clean
    <3> QED BY <3>2, <3>3
  <2>7. ASSUME NEW q \in Proc, pc'[q] = "meta", NEW a \in blk'[q] PROVE Clear(a)'
    <3>1. q # p /\ pc[q] = "meta" /\ blk'[q] = blk[q] /\ blk[q] \subseteq Block
      BY <1>0, <2>4, <2>7 DEF Others, TypeOK
    <3>2. blk[q] \cap blk[p] = {}
      BY <3>1 DEF Owned
    <3> QED BY <2>5, <2>7, <3>1, <3>2 DEF Clean
  <2> QED BY <2>6, <2>7 DEF Clean
<1>6. ASSUME NEW n \in Name, NEW i \in Ino, CreatFind(p, n, i) PROVE Clean'
  <2>1. /\ \A j \in Ino : core'[j].meta \subseteq core[j].meta
        /\ cBlk' = cBlk /\ dBlk' = dBlk /\ pc'[p] # "meta"
    BY <1>0, <1>6 DEF CreatFind, TypeOK, data, GoTo
  <2> QED BY <1>1, <2>1
<1> QED BY <1>2, <1>3, <1>4, <1>5, <1>6, BlockSteps

\* A file that is truncated is locked, or has no other reference.
LEMMA Guarded ==
  ASSUME Base, Locking, Apart, NEW q \in Proc, pc[q] \in {"free", "ifree1"}
  PROVE  /\ ip[q] \in Ino /\ lock[ip[q]] = q
         /\ \A p \in Proc \ {q} : /\ ip[p] # ip[q]
                                  /\ pc[p] \in {"meta", "data"} => open[p] # ip[q]
<1>1. /\ TypeOK /\ PcOf(q) /\ HeldOf(q) /\ LockingOf(q) /\ NoIno \notin Ino
      /\ ip[q] \in Ino
  BY VolumeAssumption DEF Base, PcOK, Held, Locking, PcOf, TypeOK
<1>2. CASE pc[q] = "ifree1"
  BY <1>1, <1>2 DEF HeldOf, Sole
<1>3. CASE pc[q] = "free"
  <2>1. NoLink
    <3>1. "trunc" \in calls[q] /\ calls \in Mixes
      BY <1>1, <1>3 DEF PcOf, TypeOK
    <3> QED BY <3>1 DEF Apart, NoLink
  <2>2. ASSUME NEW p \in Proc \ {q}
        PROVE  ip[p] # ip[q] /\ (pc[p] \in {"meta", "data"} => open[p] # ip[q])
    BY <1>1, <2>1 DEF Locking, LockingOf
  <2> QED BY <1>1, <2>1, <2>2 DEF LockingOf
<1> QED BY <1>2, <1>3

\* The cache and the disk are told what is in core of an inode whose blocks are
\* not being freed.
LEMMA NotedKept ==
  ASSUME TypeOK, Owned, Clean, Written, sfree' = sfree, blk' = blk,
         \A b \in Block : Clear(b) => Clear(b)',
         \A i \in Ino :
           /\ core'[i].addr = core[i].addr /\ core'[i].meta = core[i].meta
           /\ \/ cIno'[i] = cIno[i]
              \/ cIno'[i].addr = core[i].addr /\ cIno'[i].meta = core[i].meta
           /\ \/ dIno'[i] = dIno[i] \/ dIno'[i] = cIno[i]
              \/ dIno'[i].addr = core[i].addr /\ dIno'[i].meta = core[i].meta,
         NEW i \in Ino
  PROVE  WrittenAt(i)'
<1>1. ASSUME NEW j \in Ino
      PROVE  /\ WrittenAt(j) /\ core'[j].addr = core[j].addr
             /\ Noted(j)' \subseteq Noted(j) \cup core[j].addr
  BY DEF Written, Noted
<1>2. \A j \in Ino \ {i} : Noted(i)' \cap (Noted(j) \cup core[j].addr)' = {}
  <2>1. ASSUME NEW j \in Ino \ {i} PROVE Noted(i)' \cap (Noted(j) \cup core[j].addr)' = {}
    <3>1. /\ Noted(i) \cap Noted(j) = {} /\ Noted(i) \cap core[j].addr = {}
          /\ core[i].addr \cap Noted(j) = {} /\ core[i].addr \cap core[j].addr = {}
      BY <1>1 DEF WrittenAt, Owned
    <3> QED BY <1>1, <3>1
  <2> QED BY <2>1
<1>3. Noted(i)' \cap sfree' = {} /\ \A p \in Proc : Noted(i)' \cap blk'[p] = {}
  <2>1. ASSUME NEW p \in Proc PROVE core[i].addr \cap sfree = {} /\ core[i].addr \cap blk[p] = {}
    BY DEF Owned
  <2>2. core[i].addr \cap sfree = {}
    BY DEF Owned
  <2>3. Noted(i) \cap sfree = {} /\ \A p \in Proc : Noted(i) \cap blk[p] = {}
    BY <1>1 DEF WrittenAt
  <2>4. Noted(i)' \subseteq Noted(i) \cup core[i].addr
    BY <1>1
  <2> QED BY <2>1, <2>2, <2>3, <2>4
<1>4. cIno'[i].meta \subseteq cIno'[i].addr /\ dIno'[i].meta \subseteq dIno'[i].addr
  BY <1>1 DEF WrittenAt, Owned
<1>5. ASSUME NEW b \in cIno'[i].meta \cup dIno'[i].meta PROVE Clear(b)'
  <2>1. b \in Block /\ b \in cIno[i].meta \cup dIno[i].meta \cup core[i].meta
    BY <1>5 DEF TypeOK, Inode
  <2> QED BY <1>1, <2>1 DEF WrittenAt, Clean
<1> QED BY <1>2, <1>3, <1>4, <1>5 DEF WrittenAt

\* No step lets the cache or the disk have a block in an inode that some other
\* one, the free list or another process gets.
LEMMA StepWritten ==
  ASSUME Base, Owned, Clean, Locking, Apart, Written, NEW p \in Proc, Step(p), Others(p)
  PROVE  Written'
<1>0. /\ TypeOK /\ PcOf(p) /\ NoIno \notin Ino
      /\ \A i \in Ino : WrittenAt(i) /\ core[i].addr \subseteq Block
      /\ \A q \in Proc : WrittenOf(q)
  BY VolumeAssumption DEF Base, PcOK, Written, TypeOK, Inode
<1>1. ASSUME NEW q \in Proc \ {p},
             \A i \in Ino : i = ip[q] => Noted(i)' \subseteq Noted(i)
      PROVE  WrittenOf(q)'
  <2>1. pc'[q] = pc[q] /\ ip'[q] = ip[q] /\ blk'[q] = blk[q] /\ PcOf(q) /\ WrittenOf(q)
    BY <1>0 DEF Others, Base, PcOK
  <2>2. ASSUME pc[q] \in {"free", "ifree1"}, blk[q] # {} PROVE Noted(ip[q])' = {}
    <3>1. PICK i \in Ino : i = ip[q]
      BY <1>0, <2>1, <2>2 DEF PcOf, TypeOK
    <3>2. Noted(i) = {} /\ Noted(i)' = {}
      BY <1>1, <2>1, <2>2, <3>1 DEF WrittenOf
    <3> QED BY <2>1, <3>1, <3>2 DEF Noted
  <2> QED BY <2>1, <2>2 DEF WrittenOf
<1>2. CASE BlocksKept(p)
  <2>1. \A i \in Ino : WrittenAt(i)'
    BY <1>0, <1>2, NotedKept DEF BlocksKept, Clear
  <2>2. ASSUME NEW q \in Proc \ {p} PROVE WrittenOf(q)'
    <3>1. CASE pc[q] \in {"free", "ifree1"}
      <4>1. ip[q] \in Ino /\ ip[q] # ip[p]
        BY <3>1, Guarded
      <4>2. ASSUME NEW i \in Ino, i = ip[q] PROVE Noted(i)' = Noted(i)
        BY <1>2, <4>1, <4>2 DEF BlocksKept, Noted
      <4> QED BY <1>1, <4>2
    <3>2. CASE pc[q] \notin {"free", "ifree1"}
      BY <3>2 DEF Others, WrittenOf
    <3> QED BY <3>1, <3>2
  <2>3. WrittenOf(p)'
    BY <1>2 DEF BlocksKept, WrittenOf
  <2> QED BY <2>1, <2>2, <2>3 DEF Written
<1>3. CASE Itrunc(p) \/ ItruncFree(p)
  <2>1. PICK i \in Ino : i = ip[p]
    BY <1>0, <1>3 DEF TypeOK, PcOf, Itrunc, ItruncFree
  <2>2. CASE Spared(p)
    <3>1. blk'[p] = {} /\ \A q \in Proc : blk'[q] \subseteq blk[q]
      BY <1>0, <2>2 DEF Spared, TypeOK
    <3>2. ASSUME NEW j \in Ino PROVE WrittenAt(j)'
      <4>1. WrittenAt(j)
        BY <1>0
      <4> QED BY <2>2, <3>1, <4>1 DEF Spared, WrittenAt, Noted, Clear
    <3>3. \A q \in Proc \ {p} : WrittenOf(q)'
      <4>1. \A j \in Ino : Noted(j)' = Noted(j)
        BY <2>2 DEF Spared, Noted
      <4> QED BY <1>1, <4>1
    <3>4. WrittenOf(p)'
      BY <3>1 DEF WrittenOf
    <3> QED BY <3>2, <3>3, <3>4 DEF Written
  <2>3. CASE ~Spared(p)
    <3>1. PICK s : /\ s \subseteq core[i].addr /\ Forget(p, s) /\ blk' = [blk EXCEPT ![p] = s]
      BY <1>0, <1>3, <2>1, <2>3, TruncEffect
    <3>2. Itrunc(p) => WriteInode(i, [core[i] EXCEPT !.addr = {}, !.meta = {}], TRUE)
      BY <1>0, <1>3, <2>1, <2>3, TruncEffect
    <3>3. \A j \in Ino : core'[j].addr \subseteq core[j].addr
      BY <1>0, <2>1, <3>1, ForgetEffect
    <3>4. /\ \A j \in Ino \ {i} : cIno'[j] = cIno[j] /\ dIno'[j] = dIno[j]
          /\ Noted(i)' = {} /\ cIno'[i].meta = {} /\ dIno'[i].meta = {}
      <4>1. CASE ItruncFree(p)
        <5>1. cIno' = cIno /\ dIno' = dIno /\ pc[p] \in {"free", "ifree1"} /\ blk[p] # {}
          BY <4>1 DEF ItruncFree, inodes
        <5>2. WrittenAt(i) /\ Noted(i) = {}
          BY <1>0, <2>1, <5>1 DEF WrittenOf
        <5> QED BY <5>1, <5>2 DEF WrittenAt, Noted
      <4>2. CASE Itrunc(p)
        <5>1. PICK e \in Inode : /\ e = [core[i] EXCEPT !.addr = {}, !.meta = {}]
                                 /\ e.addr = {} /\ e.meta = {}
          BY <1>0, InodeChange DEF TypeOK
        <5>2. WriteInode(i, e, TRUE)
          BY <3>2, <4>2, <5>1
        <5> QED BY <1>0, <5>1, <5>2, WriteInodeEffect, ZenonT(60) DEF Noted
      <4> QED BY <1>3, <4>1, <4>2
    <3>5. /\ sfree' \subseteq sfree \cup blk[p] /\ cBlk' = cBlk /\ dBlk' = dBlk /\ ip' = ip
          /\ blk'[p] = s /\ \A q \in Proc \ {p} : blk'[q] = blk[q]
      BY <1>0, <1>3, <3>1 DEF Itrunc, ItruncFree, data, TypeOK
    <3>6. WrittenAt(i)'
      BY <3>4 DEF WrittenAt, Noted
    <3>7. ASSUME NEW j \in Ino \ {i} PROVE WrittenAt(j)'
      <4>1. WrittenAt(j) /\ Noted(j)' = Noted(j) /\ Noted(j) \cap s = {}
        BY <1>0, <3>1, <3>4, <3>7 DEF WrittenAt, Noted
      <4>2. \A k \in Ino \ {j} : Noted(j)' \cap (Noted(k) \cup core[k].addr)' = {}
        <5>1. ASSUME NEW k \in Ino \ {j} PROVE Noted(j)' \cap (Noted(k) \cup core[k].addr)' = {}
          <6>1. Noted(k)' \subseteq Noted(k) /\ core'[k].addr \subseteq core[k].addr
            BY <3>3, <3>4 DEF Noted
          <6>2. Noted(j) \cap (Noted(k) \cup core[k].addr) = {}
            BY <4>1 DEF WrittenAt
          <6> QED BY <4>1, <6>1, <6>2
        <5> QED BY <5>1
      <4>3. Noted(j)' \cap sfree' = {} /\ \A q \in Proc : Noted(j)' \cap blk'[q] = {}
        BY <3>5, <4>1 DEF WrittenAt
      <4>4. cIno'[j] = cIno[j] /\ dIno'[j] = dIno[j]
        BY <3>4, <3>7
      <4> QED BY <3>5, <4>1, <4>2, <4>3, <4>4 DEF WrittenAt, Clear
    <3>8. \A q \in Proc \ {p} : WrittenOf(q)'
      <4>1. \A j \in Ino : Noted(j)' \subseteq Noted(j)
        BY <3>4 DEF Noted
      <4> QED BY <1>1, <4>1
    <3>9. WrittenOf(p)'
      BY <2>1, <3>4, <3>5 DEF WrittenOf, Noted
    <3> QED BY <3>6, <3>7, <3>8, <3>9 DEF Written
  <2> QED BY <2>2, <2>3
\* The others leave the cache and the disk alone.
<1>4. ASSUME cIno' = cIno, dIno' = dIno, pc'[p] \notin {"free", "ifree1"},
             NEW s, sfree' \subseteq sfree, s \subseteq sfree \cup blk[p],
             \A i \in Ino : core'[i].addr \subseteq core[i].addr \cup s,
             \A q \in Proc : blk'[q] \subseteq blk[q] \cup s,
             \A b \in Block \ s : Clear(b) => Clear(b)'
      PROVE  Written'
  <2>1. ASSUME NEW i \in Ino PROVE WrittenAt(i)'
    <3>1. WrittenAt(i) /\ Noted(i)' = Noted(i) /\ Noted(i) \cap s = {} /\ Noted(i) \subseteq Block
      BY <1>0, <1>4 DEF WrittenAt, Noted, TypeOK, Inode
    <3>2. \A j \in Ino \ {i} : Noted(i)' \cap (Noted(j) \cup core[j].addr)' = {}
      <4>1. ASSUME NEW j \in Ino \ {i} PROVE Noted(i)' \cap (Noted(j) \cup core[j].addr)' = {}
        <5>1. Noted(j)' = Noted(j) /\ Noted(i) \cap (Noted(j) \cup core[j].addr) = {}
          BY <1>4, <3>1 DEF WrittenAt, Noted
        <5> QED BY <1>4, <3>1, <5>1
      <4> QED BY <4>1
    <3>3. Noted(i)' \cap sfree' = {} /\ \A q \in Proc : Noted(i)' \cap blk'[q] = {}
      BY <1>4, <3>1 DEF WrittenAt
    <3>4. ASSUME NEW b \in cIno[i].meta \cup dIno[i].meta PROVE Clear(b)'
      <4>1. b \in Noted(i) /\ Clear(b)
        BY <3>1, <3>4 DEF WrittenAt, Noted
      <4> QED BY <1>4, <3>1, <4>1
    <3> QED BY <1>4, <3>1, <3>2, <3>3, <3>4 DEF WrittenAt
  <2>2. \A q \in Proc \ {p} : WrittenOf(q)'
    <3>1. \A i \in Ino : Noted(i)' = Noted(i)
      BY <1>4 DEF Noted
    <3> QED BY <1>1, <3>1
  <2>3. WrittenOf(p)'
    BY <1>4 DEF WrittenOf
  <2> QED BY <2>1, <2>2, <2>3 DEF Written
<1>5. ASSUME NEW b \in Block, NEW l \in {"meta", "data"}, WriteAlloc(p, b, l) PROVE Written'
  <2>1. /\ core' = core /\ cIno' = cIno /\ dIno' = dIno /\ pc'[p] = l
        /\ b \in sfree /\ sfree' = sfree \ {b} /\ blk'[p] = {b}
        /\ \A q \in Proc \ {p} : blk'[q] = blk[q]
        /\ \A a \in Block \ {b} : cBlk'[a] = cBlk[a] /\ dBlk'[a] = dBlk[a]
    BY <1>0, <1>5 DEF WriteAlloc, WriteBlock, inodes, GoTo, TypeOK
  <2>2. PICK s : s = {b}
    OBVIOUS
  <2> QED BY <1>4, <2>1, <2>2 DEF Clear
<1>6. CASE WriteData(p)
  <2>1. PICK i \in Ino : i = open[p]
    BY <1>0, <1>6 DEF WriteData, PcOf
  <2>2. /\ \A j \in Ino \ {i} : core'[j] = core[j]
        /\ core'[i].addr = core[i].addr \cup blk[p]
    BY <1>0, <1>6, <2>1, WriteEffect
  <2>3. /\ cIno' = cIno /\ dIno' = dIno /\ pc'[p] = "user" /\ sfree' = sfree /\ blk'[p] = {}
        /\ \A q \in Proc \ {p} : blk'[q] = blk[q]
    BY <1>0, <1>6 DEF WriteData, inodes, GoTo, TypeOK
  <2>4. \A a \in Block \ blk[p] : cBlk'[a] = cBlk[a] /\ dBlk'[a] = dBlk[a]
    BY <1>0, <1>6 DEF WriteData, WriteBlock, TypeOK
  <2> QED BY <1>4, <2>2, <2>3, <2>4 DEF Clear
<1>7. ASSUME NEW n \in Name, NEW i \in Ino, CreatFind(p, n, i) PROVE Written'
  <2>1. /\ \A j \in Ino : core'[j].addr \subseteq core[j].addr
        /\ cIno' = cIno /\ dIno' = dIno /\ pc'[p] = "creat1"
        /\ sfree' = sfree /\ blk' = blk /\ cBlk' = cBlk /\ dBlk' = dBlk
    BY <1>0, <1>7 DEF CreatFind, Ialloc, inodes, data, GoTo, TypeOK
  <2> QED BY <1>4, <2>1 DEF Clear
<1> QED BY <1>2, <1>3, <1>5, <1>6, <1>7, BlockSteps

\* Nor does a delayed write or update move a block: what comes to the disk is
\* part of what is in core, and update leaves a locked inode alone.
LEMMA SystemBlocks == ASSUME Base, Blocks, System PROVE Blocks'
<1>0. TypeOK /\ Locking /\ Owned /\ Clean /\ (Apart => Written) /\ NoProc \notin Proc
  BY VolumeAssumption DEF Base, Blocks
<1>1. Locking'
  BY <1>0 DEF Locking, LockingOf, NoLink, System
<1>2. Owned'
  BY <1>0 DEF Owned, System
<1>3. \A b \in Block : Clear(b) => Clear(b)'
  BY DEF Clear, System
<1>4. Clean'
  <2>1. ASSUME NEW i \in Ino, NEW b \in core'[i].meta PROVE Clear(b)'
    <3>1. core[i].meta \subseteq Block /\ b \in core[i].meta
      BY <1>0, <2>1 DEF TypeOK, Inode, System
    <3> QED BY <1>0, <1>3, <3>1 DEF Clean
  <2>2. ASSUME NEW p \in Proc, pc'[p] = "meta", NEW b \in blk'[p] PROVE Clear(b)'
    <3>1. blk[p] \subseteq Block /\ b \in blk[p] /\ pc[p] = "meta"
      BY <1>0, <2>2 DEF TypeOK, System
    <3> QED BY <1>0, <1>3, <3>1 DEF Clean
  <2> QED BY <2>1, <2>2 DEF Clean
<1>5. ASSUME Apart PROVE Written'
  <2>1. \A i \in Ino : WrittenAt(i)'
    BY <1>0, <1>3, <1>5, NotedKept DEF System
  <2>2. ASSUME NEW p \in Proc PROVE WrittenOf(p)'
    <3>1. WrittenOf(p) /\ pc'[p] = pc[p] /\ ip'[p] = ip[p] /\ blk'[p] = blk[p]
      BY <1>0, <1>5 DEF Written, System
    <3>2. CASE pc[p] \in {"free", "ifree1"}
      <4>1. PICK i \in Ino : i = ip[p] /\ lock[i] = p
        BY <1>0, <1>5, <3>2, Guarded
      <4>2. cIno'[i] = cIno[i] /\ (dIno'[i] = dIno[i] \/ dIno'[i] = cIno[i])
        BY <1>0, <4>1 DEF System
      <4> QED BY <3>1, <4>1, <4>2 DEF WrittenOf, Noted
    <3>3. CASE pc[p] \notin {"free", "ifree1"}
      BY <3>1, <3>3 DEF WrittenOf
    <3> QED BY <3>2, <3>3
  <2> QED BY <2>1, <2>2 DEF Written
<1> QED BY <1>1, <1>2, <1>4, <1>5 DEF Blocks

\* The invariant of the blocks holds in every state.
LEMMA BlocksNext == Base /\ Blocks /\ [Next]_vars => Blocks'
<1> SUFFICES ASSUME Base, Blocks, [Next]_vars PROVE Blocks'
  OBVIOUS
<1>0. TypeOK /\ PcOK /\ Locking /\ Owned /\ Clean /\ (Apart => Written)
  BY DEF Base, Blocks
<1>1. ASSUME NEW p \in Proc, Step(p) PROVE Blocks'
  <2>1. Others(p)
    BY <1>0, <1>1, StepShape
  <2> QED BY <1>0, <1>1, <2>1, StepLocking, StepOwned, StepClean, StepWritten DEF Blocks
<1>2. CASE Flush \/ (\E i \in Ino : Update(i)) \/ UNCHANGED vars
  <2>1. System
    BY <1>0, <1>2, SystemSteps
  <2> QED BY <2>1, SystemBlocks
<1> QED BY <1>1, <1>2 DEF Next, Idle

\* Whatever the processes call, every one is where it should be, and every block
\* has its owner.
THEOREM BlocksKnown == Spec => [](Base /\ Blocks)
<1>1. Init => Blocks
  <2> SUFFICES ASSUME Init PROVE Blocks
    OBVIOUS
  <2>1. Locking
    BY DEF Init, Locking, LockingOf
  <2>2. Owned
    BY DEF Init, Owned, FreeInode
  <2>3. Clean
    BY DEF Init, Clean, FreeInode
  <2>4. Written
    BY DEF Init, Written, WrittenAt, WrittenOf, Noted, FreeInode
  <2> QED BY <2>1, <2>2, <2>3, <2>4 DEF Blocks
<1>2. (Base /\ Blocks) /\ [Next]_vars => (Base /\ Blocks)'
  BY BaseKept, BlocksNext
<1> QED BY <1>1, <1>2, BaseInit, PTL DEF Spec

\* In core a block is free, or of one file, or of one process that is about to
\* free it or has just been given it by alloc.
THEOREM OneOwner == Spec => []BlocksOwned
<1>1. Base /\ Blocks => BlocksOwned
  BY DEF Base, Blocks, Owned, BlocksOwned
<1> QED BY <1>1, BlocksKnown, PTL

\* Whenever the system crashes, no two files on the disk have a block in common,
\* as long as no process links while another one truncates: itrunc writes the
\* cleared inode before it frees the blocks.
THEOREM NoDuplicates == ASSUME Apart PROVE Spec => []DiskNoDuplicates
<1>1. Base /\ Blocks => DiskNoDuplicates
  <2> SUFFICES ASSUME Blocks, NEW i \in Ino, NEW j \in Ino, i # j
               PROVE  dIno[i].addr \cap dIno[j].addr = {}
    BY DEF DiskNoDuplicates
  <2> QED BY DEF Blocks, Written, WrittenAt, Noted
<1> QED BY <1>1, BlocksKnown, PTL

\* Under the same condition, the metadata a crash leaves on the disk was cleared
\* there before the file pointed at it: bmap writes it synchronously.
THEOREM MetaClean == ASSUME Apart PROVE Spec => []DiskMetaClean
<1>1. Base /\ Blocks => DiskMetaClean
  <2> SUFFICES ASSUME Blocks, NEW i \in Ino, NEW b \in dIno[i].meta
               PROVE  dBlk[b] = "meta"
    BY DEF DiskMetaClean
  <2> QED BY DEF Blocks, Written, WrittenAt, Clear
<1> QED BY <1>1, BlocksKnown, PTL
=============================================================================
