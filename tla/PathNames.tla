------------------------------ MODULE PathNames ------------------------------
(***************************************************************************)
(* Path names and links over the inode table: namei (sys/nami.c), the      *)
(* system calls that make and remove names (sys/sys2.c, sys/sys4.c), close *)
(* (sys/fio.c), the ends of pipes (sys/pipe.c) and the part of update()    *)
(* that writes the inodes (sys/alloc.c).                                   *)
(*                                                                         *)
(* Every path starts at the root directory, has no ".", ".." or symbolic   *)
(* links in it, and permission is granted; only mknod is called by the     *)
(* superuser, so that unlink and link of directories fail.  A process has  *)
(* at most the files of one open, creat or pipe.                           *)
(***************************************************************************)
EXTENDS InodeTable

CONSTANTS
  MaxPath,   \* length of the longest path name
  Mode0,     \* the volume at boot: the mode of every inode,
  Dir0,      \* and the contents of the directories
  Calls,     \* the system calls an instance uses
  Budget     \* how many calls are made, all processes together

Call == {"open", "creat", "mknod", "unlink", "link", "mkdir", "rmdir",
         "pipe", "close", "sync"}
Paths == UNION {[1..k -> Names] : k \in 1..MaxPath}
NoPath == <<>>
RootSlot == 1

VARIABLES
  file,   \* the slots of the open files of every process
  updlock,
  left    \* calls left of the Budget

vars == <<inode, freel, dino, dir, sinode, silock, lasti, nbehind, cpu, wchan,
          u, file, updlock, left>>
sysVars == <<file, updlock, left>>

\* The directory entries that name inode i, and the links it should have:
\* a directory also has its "." and the ".." of its subdirectories.
Entries(i, d) == {e \in Inodes \X Names : d[e[1]][e[2]] = i}
Links(i, d, mode) ==
  Cardinality(Entries(i, d))
    + IF mode[i] = "DIR"
      THEN 1 + Cardinality({n \in Names : d[i][n] # 0 /\ mode[d[i][n]] = "DIR"})
      ELSE 0

ASSUME VolumeAssumption ==
  /\ Mode0 \in [Inodes -> Mode] /\ Mode0[ROOTINO] = "DIR"
  /\ Dir0 \in [Inodes -> [Names -> Inodes \cup {0}]]
  /\ \A i \in Inodes : Entries(i, Dir0) # {} <=> Mode0[i] # "FREE" /\ i # ROOTINO
  /\ MaxPath \in Nat \ {0} /\ Calls \subseteq Call /\ Budget \in Nat

-----------------------------------------------------------------------------
Idle == [pc |-> "user", stk |-> <<>>, call |-> "none", path |-> NoPath,
         to |-> NoPath, ip |-> 0, dp |-> 0, dip |-> 0, tgt |-> 0, ino |-> 0,
         blk |-> 0, first |-> FALSE, wait |-> FALSE, err |-> FALSE,
         itmp |-> [mode |-> "FREE", nlink |-> 0], held |-> {}]

\* ".." of the root is the root itself.
Nlink0(i) == Links(i, Dir0, Mode0) + IF i = ROOTINO THEN 1 ELSE 0
Unused == [num |-> 0, lock |-> FALSE, want |-> FALSE, upd |-> FALSE,
           count |-> 0, mode |-> "FREE", nlink |-> 0]

\* After ihinit() and iinit(), with the root directory in core.
Init ==
  /\ dino = [i \in Inodes |-> [mode |-> Mode0[i], nlink |-> Nlink0(i)]]
  /\ dir = Dir0
  /\ inode = [s \in Slots |->
       IF s = RootSlot
       THEN [Unused EXCEPT !.num = ROOTINO, !.count = 1, !.mode = "DIR",
                           !.nlink = Nlink0(ROOTINO)]
       ELSE Unused]
  /\ freel = [k \in 1..NSlots - 1 |-> k + 1]
  /\ sinode = <<>> /\ silock = 0 /\ lasti = 1 /\ nbehind = 0
  /\ cpu = NoProc /\ wchan = [p \in Procs |-> Awake]
  /\ u = [p \in Procs |-> Idle]
  /\ file = [p \in Procs |-> {}] /\ updlock = FALSE /\ left = Budget

-----------------------------------------------------------------------------
(* Entering the kernel.                                                    *)

Enter(p, call) == /\ At(p, "user") /\ cpu = NoProc
                  /\ call \in Calls
                  /\ left > 0 /\ left' = left - 1
                  /\ RunsOn(p)
                  /\ UNCHANGED <<inode, freel, volVars>>

\* A call with one path name.
CallNamei(p, call, path) ==
  /\ Enter(p, call)
  /\ call \in {"open", "creat"} => file[p] = {}
  /\ Go(p, [Idle EXCEPT !.pc = "namei", !.call = call, !.path = path, !.dp = RootSlot])
  /\ UNCHANGED <<file, updlock>>

CallLink(p, path, to) ==
  /\ Enter(p, "link")
  /\ Go(p, [Idle EXCEPT !.pc = "namei", !.call = "link", !.path = path, !.to = to,
                        !.dp = RootSlot])
  /\ UNCHANGED <<file, updlock>>

\* closef: plock(ip); iput(ip)
Close(p, s) ==
  /\ Enter(p, "close")
  /\ s \in file[p]
  /\ file' = [file EXCEPT ![p] = @ \ {s}]
  /\ Go(p, [Idle EXCEPT !.pc = "plock", !.stk = <<"iput", "done">>,
                        !.call = "close", !.ip = s])
  /\ UNCHANGED updlock

Pipe(p) ==
  /\ Enter(p, "pipe")
  /\ file[p] = {}
  /\ Go(p, [Idle EXCEPT !.pc = "ialloc", !.stk = <<"pipend">>, !.call = "pipe"])
  /\ UNCHANGED <<file, updlock>>

Sync(p) ==
  /\ Enter(p, "sync")
  /\ ~updlock /\ updlock' = TRUE
  /\ Go(p, [Idle EXCEPT !.pc = "update", !.call = "sync"])
  /\ UNCHANGED file

-----------------------------------------------------------------------------
(* namei and fsnami.                                                       *)

NameiWait(p) ==
  /\ At(p, "namei")
  /\ WaitForLock(p, u[p].dp)
  /\ UNCHANGED <<freel, volVars, sysVars>>

\* plock(p.dp); p.dp->i_count++; dsearch reads the directory.
Namei(p) == LET s == u[p].dp IN
  /\ At(p, "namei")
  /\ ~inode[s].lock
  /\ inode' = [inode EXCEPT ![s].lock = TRUE, ![s].count = @ + 1]
  /\ Go(p, [u[p] EXCEPT !.pc = "dirloop", !.held = @ \cup {s}])
  /\ MaySleep
  /\ UNCHANGED <<freel, volVars, sysVars>>

\* The last name of the path is removed or made rather than looked up.
LastName(p) == Len(u[p].path) = 1
Removes(p) == LastName(p) /\ u[p].call \in {"unlink", "rmdir"}
Makes(p) == LastName(p) /\ u[p].call \in {"creat", "mknod", "mkdir"}
NamesTarget(p) == LastName(p) /\ u[p].call = "link2"

IsDir(s) == inode[s].mode = "DIR"
Component(p) == dir[inode[u[p].dp].num][Head(u[p].path)]
Found(p) == At(p, "dirloop") /\ ~u[p].err /\ IsDir(u[p].dp) /\ Component(p) # 0
Missing(p) == At(p, "dirloop") /\ ~u[p].err /\ IsDir(u[p].dp) /\ Component(p) = 0

\* iput(s) and go on at label, with locals r.
Put(p, r, s, label) == Go(p, Calling([r EXCEPT !.ip = s], "iput", <<label>>))

\* The rest of the state, where only u changes.
OnlyLocals == UNCHANGED <<inode, freel, volVars, sysVars>>

DirFails(p) ==
  /\ At(p, "dirloop")
  /\ \/ u[p].err
     \/ ~IsDir(u[p].dp)
     \/ Missing(p) /\ ~Makes(p) /\ ~NamesTarget(p)
     \/ "dsearch" \in Faulty
  /\ Go(p, Fails([u[p] EXCEPT !.pc = "out"])) /\ RunsOn(p) /\ OnlyLocals

\* unlink and rmdir get the inode while they hold the directory.
DirRemove(p) ==
  /\ Found(p) /\ Removes(p)
  /\ Go(p, Calling([u[p] EXCEPT !.ino = Component(p)], "iget", <<u[p].call>>))
  /\ RunsOn(p) /\ OnlyLocals

\* The component is there: leave the directory, then get the inode.
DirDescend(p) ==
  /\ Found(p) /\ ~Removes(p)
  /\ Go(p, Calling([u[p] EXCEPT !.ino = Component(p), !.ip = u[p].dp],
                   "iput", <<"iget", "descended">>))
  /\ RunsOn(p) /\ OnlyLocals

DirCreate(p) ==
  /\ Missing(p) /\ Makes(p)
  /\ Go(p, Calling(u[p], "ialloc", <<"created">>))
  /\ RunsOn(p) /\ OnlyLocals

DirLink(p) ==
  /\ Missing(p) /\ NamesTarget(p)
  /\ Goto(p, "linkWrite") /\ MaySleep /\ OnlyLocals

Descended(p) == LET s == u[p].ip IN
  /\ At(p, "descended")
  /\ IF s = 0 THEN Goto(p, "done") /\ RunsOn(p)
     ELSE IF ~LastName(p)
     THEN /\ Go(p, [u[p] EXCEPT !.pc = "dirloop", !.path = Tail(@), !.dp = s])
          /\ MaySleep
     ELSE Go(p, [u[p] EXCEPT !.pc = "named", !.dip = s]) /\ RunsOn(p)
  /\ OnlyLocals

\* namei fails, or has nothing to return.
Out(p) == /\ At(p, "out")
          /\ Put(p, u[p], u[p].dp, "done")
          /\ RunsOn(p) /\ OnlyLocals

\* writei of the entry for the last name, by a process with locals r: err is
\* u_error after it.  When it was set before, the changed block is released
\* without a write, and the change may be lost.
WriteEntry(p, i, err) ==
  \/ /\ err = u[p].err
     /\ dir' = [dir EXCEPT ![inode[u[p].dp].num][Head(u[p].path)] = i]
  \/ /\ u[p].err \/ "writei" \in Faulty
     /\ err
     /\ UNCHANGED dir

-----------------------------------------------------------------------------
(* NI_CREAT, NI_NXCREAT, NI_MKDIR.                                         *)

CreateFails(p) == /\ At(p, "created") /\ u[p].ip = 0
                  /\ Goto(p, "out") /\ RunsOn(p) /\ OnlyLocals

\* Mutant: the inode is not marked changed.
CreateClean(p) == LET s == u[p].ip IN
  /\ At(p, "created") /\ s # 0
  /\ inode' = IF u[p].call = "mkdir"
              THEN [inode EXCEPT ![s] = [@ EXCEPT !.lock = FALSE, !.want = FALSE,
                                         !.upd = TRUE, !.mode = "DIR", !.nlink = 2]]
              ELSE [inode EXCEPT ![s].mode = "REG", ![s].nlink = 1]
  /\ Go(p, Calling([u[p] EXCEPT !.dip = s, !.wait = TRUE], "iupdat", <<"enter">>))
  /\ RunsOn(p)
  /\ UNCHANGED <<freel, volVars, sysVars>>

\* NI_MKDIR sets i_flag = IACC|IUPD|ICHG, the others |=.
Create(p) == LET s == u[p].ip IN
  /\ At(p, "created") /\ s # 0
  /\ inode' = IF u[p].call = "mkdir"
              THEN [inode EXCEPT ![s] = [@ EXCEPT !.lock = FALSE, !.want = FALSE,
                                         !.upd = TRUE, !.mode = "DIR", !.nlink = 2]]
              ELSE [inode EXCEPT ![s].upd = TRUE, ![s].mode = "REG", ![s].nlink = 1]
  /\ Go(p, Calling([u[p] EXCEPT !.dip = s, !.wait = TRUE], "iupdat", <<"enter">>))
  /\ RunsOn(p)
  /\ UNCHANGED <<freel, volVars, sysVars>>

\* Mutant: no link for "..".
EnterNameOnly(p) == /\ At(p, "enter")
                    /\ Goto(p, "enterWrite") /\ MaySleep /\ OnlyLocals

EnterName(p) ==
  /\ At(p, "enter")
  /\ inode' = IF u[p].call = "mkdir" THEN [inode EXCEPT ![u[p].dp].nlink = @ + 1]
                                     ELSE inode
  /\ Goto(p, "enterWrite") /\ MaySleep
  /\ UNCHANGED <<freel, volVars, sysVars>>

EnterWrite(p) ==
  /\ At(p, "enterWrite")
  /\ \E err \in BOOLEAN :
       /\ WriteEntry(p, inode[u[p].dip].num, err)
       /\ Put(p, [u[p] EXCEPT !.err = err], u[p].dp, "made")
  /\ inode' = [inode EXCEPT ![u[p].dp].upd = TRUE]
  /\ RunsOn(p)
  /\ UNCHANGED <<freel, dino, fsVars, sysVars>>

-----------------------------------------------------------------------------
(* NI_DEL and NI_RMDIR.                                                    *)

UnlinkFails(p) == LET s == u[p].ip IN
  /\ At(p, "unlink")
  /\ s # 0 => IsDir(s)
  /\ LET r == Fails(u[p])
     IN  IF s = 0 THEN Go(p, [r EXCEPT !.pc = "out"]) ELSE Put(p, r, s, "out")
  /\ RunsOn(p) /\ OnlyLocals

Unlink(p) == LET s == u[p].ip IN
  /\ At(p, "unlink")
  /\ s # 0 /\ ~IsDir(s)
  /\ Go(p, [u[p] EXCEPT !.pc = "unlinkWrite", !.dip = s])
  /\ MaySleep /\ OnlyLocals

UnlinkWrite(p) == LET s == u[p].dip IN
  /\ At(p, "unlinkWrite")
  /\ \E err \in BOOLEAN :
       /\ WriteEntry(p, 0, err)
       /\ Put(p, [u[p] EXCEPT !.err = err], s, "out")
  /\ inode' = [inode EXCEPT ![u[p].dp].upd = TRUE, ![s].upd = TRUE,
                            ![s].nlink = @ - 1]
  /\ RunsOn(p)
  /\ UNCHANGED <<freel, dino, fsVars, sysVars>>

RmdirFails(p) == LET s == u[p].ip IN
  /\ At(p, "rmdir")
  /\ s # 0 => (inode[s].count > 1 \/ ~IsDir(s))
  /\ LET r == Fails(u[p])
     IN  IF s = 0 THEN Go(p, [r EXCEPT !.pc = "out"]) ELSE Put(p, r, s, "out")
  /\ RunsOn(p) /\ OnlyLocals

Rmdir(p) ==
  LET s == u[p].ip
      less == [inode EXCEPT ![u[p].dp].nlink = IF @ > 0 THEN @ - 1 ELSE @] IN
  /\ At(p, "rmdir")
  /\ s # 0 /\ inode[s].count = 1 /\ IsDir(s)
  /\ inode' = [less EXCEPT ![s].nlink = IF @ <= 2 THEN 0 ELSE @]
  /\ IF inode[s].nlink <= 2
     THEN Go(p, [u[p] EXCEPT !.pc = "rmdirWrite", !.dip = s]) /\ MaySleep
     ELSE Put(p, Fails(u[p]), s, "out") /\ RunsOn(p)
  /\ UNCHANGED <<freel, volVars, sysVars>>

RmdirWrite(p) == LET s == u[p].dip IN
  /\ At(p, "rmdirWrite")
  /\ \E err \in BOOLEAN :
       /\ WriteEntry(p, 0, err)
       /\ Put(p, [u[p] EXCEPT !.err = err], s, "out")
  /\ inode' = [inode EXCEPT ![u[p].dp].upd = TRUE, ![s].upd = TRUE]
  /\ RunsOn(p)
  /\ UNCHANGED <<freel, dino, fsVars, sysVars>>

-----------------------------------------------------------------------------
(* What the system calls do with the inode namei returns.                  *)

\* The file was there: open and link go on with it, creat truncates it.
NamedOpen(p) ==
  /\ At(p, "named") /\ u[p].call = "open" /\ ~u[p].err
  /\ Goto(p, "opened") /\ RunsOn(p) /\ OnlyLocals

NamedCreat(p) ==
  /\ At(p, "named") /\ u[p].call = "creat" /\ ~u[p].err /\ ~IsDir(u[p].dip)
  /\ Go(p, Calling([u[p] EXCEPT !.ip = u[p].dip], "itrunc", <<"opened">>))
  /\ RunsOn(p) /\ OnlyLocals

NamedLink(p) == LET s == u[p].dip IN
  /\ At(p, "named") /\ u[p].call = "link" /\ ~IsDir(s)
  /\ inode' = [inode EXCEPT ![s].nlink = @ + 1, ![s].upd = TRUE]
  /\ Go(p, Calling([u[p] EXCEPT !.ip = s, !.wait = TRUE], "iupdat", <<"linked">>))
  /\ RunsOn(p)
  /\ UNCHANGED <<freel, volVars, sysVars>>

\* An error before, or it was there and should not: EEXIST, EISDIR.
NamedFails(p) ==
  /\ At(p, "named")
  /\ \/ u[p].call \in {"mknod", "mkdir", "link2"}
     \/ u[p].call \in {"open", "creat"} /\ u[p].err
     \/ u[p].call \in {"creat", "link"} /\ IsDir(u[p].dip)
  /\ Put(p, Fails(u[p]), u[p].dip, "done") /\ RunsOn(p) /\ OnlyLocals

MadeCreat(p) ==
  /\ At(p, "made") /\ u[p].call = "creat"
  /\ IF u[p].err THEN Put(p, u[p], u[p].dip, "done") ELSE Goto(p, "opened")
  /\ RunsOn(p) /\ OnlyLocals

\* After an error mknod returns with the inode as it is, locked.
MadeMknod(p) ==
  /\ At(p, "made") /\ u[p].call = "mknod"
  /\ IF u[p].err THEN Goto(p, "done") ELSE Put(p, u[p], u[p].dip, "done")
  /\ RunsOn(p) /\ OnlyLocals

\* mkdir(): iupdat(ip), then writei(ip) of "." and "..".
MadeMkdir(p) ==
  /\ At(p, "made") /\ u[p].call = "mkdir"
  /\ Go(p, Calling([u[p] EXCEPT !.ip = u[p].dip, !.wait = TRUE], "iupdat", <<"dots">>))
  /\ RunsOn(p) /\ OnlyLocals

MkdirDots(p) == /\ At(p, "dots")
                /\ Goto(p, "dotsWrite") /\ MaySleep /\ OnlyLocals

MkdirWrite(p) == LET s == u[p].dip IN
  /\ At(p, "dotsWrite")
  /\ inode' = [inode EXCEPT ![s].upd = TRUE]
  /\ Put(p, u[p], s, "done") /\ RunsOn(p)
  /\ UNCHANGED <<freel, volVars, sysVars>>

\* open1: prele(ip), and the file has the reference.
Opened(p) == LET s == u[p].dip IN
  /\ At(p, "opened") /\ ~u[p].err
  /\ inode' = [inode EXCEPT ![s] = Released(@)]
  /\ PreleWakes(s) /\ cpu' = p
  /\ file' = [file EXCEPT ![p] = {s}]
  /\ Go(p, [u[p] EXCEPT !.pc = "done", !.held = @ \ {s}])
  /\ UNCHANGED <<freel, volVars, updlock, left>>

\* itrunc failed, or there is no room for an open file: iput(ip) after prele.
OpenFails(p) == LET s == u[p].dip IN
  /\ At(p, "opened")
  /\ u[p].err \/ "falloc" \in Faulty
  /\ inode' = [inode EXCEPT ![s] = Released(@)]
  /\ PreleWakes(s) /\ cpu' = p
  /\ Put(p, Fails([u[p] EXCEPT !.held = @ \ {s}]), s, "done")
  /\ UNCHANGED <<freel, volVars, sysVars>>

\* link(): prele(ip), then namei of the new name.
Linked(p) == LET s == u[p].dip IN
  /\ At(p, "linked")
  /\ inode' = [inode EXCEPT ![s] = Released(@)]
  /\ PreleWakes(s) /\ cpu' = p
  /\ Go(p, [u[p] EXCEPT !.pc = "namei", !.call = "link2", !.path = u[p].to,
                        !.dp = RootSlot, !.tgt = s, !.held = @ \ {s}])
  /\ UNCHANGED <<freel, volVars, sysVars>>

LinkWrite(p) ==
  /\ At(p, "linkWrite")
  /\ \E err \in BOOLEAN :
       /\ WriteEntry(p, inode[u[p].tgt].num, err)
       /\ Go(p, [u[p] EXCEPT !.pc = "out", !.err = err])
  /\ inode' = [inode EXCEPT ![u[p].dp].upd = TRUE]
  /\ RunsOn(p)
  /\ UNCHANGED <<freel, dino, fsVars, sysVars>>

\* The end of link(): no plock before this iput.
LinkDone(p) == LET s == u[p].tgt IN
  /\ At(p, "done") /\ u[p].call = "link2"
  /\ inode' = IF u[p].err THEN [inode EXCEPT ![s].nlink = @ - 1, ![s].upd = TRUE]
                          ELSE inode
  /\ Put(p, [u[p] EXCEPT !.call = "link", !.tgt = 0], s, "done")
  /\ RunsOn(p)
  /\ UNCHANGED <<freel, volVars, sysVars>>

-----------------------------------------------------------------------------
(* mkpipend() twice.  Its inode has no links and is not marked changed.    *)

\* One end is made: the other one, or the call is over.
Pipend(p) == LET s == u[p].ip
                 r == [u[p] EXCEPT !.call = "pipe2", !.held = @ \ {s}] IN
  /\ At(p, "pipend") /\ ~u[p].err
  /\ inode' = [inode EXCEPT ![s] = [Released(@) EXCEPT !.mode = "REG"]]
  /\ PreleWakes(s) /\ cpu' = p
  /\ \/ /\ u[p].call = "pipe"
        /\ Go(p, Calling([r EXCEPT !.tgt = s], "ialloc", <<"pipend">>))
        /\ UNCHANGED file
     \/ /\ u[p].call = "pipe2"
        /\ Go(p, [r EXCEPT !.pc = "done", !.tgt = 0])
        /\ file' = [file EXCEPT ![p] = {r.tgt, s}]
  /\ UNCHANGED <<freel, volVars, updlock, left>>

\* An error, now or at the first end: this end goes back.  makepipe tries
\* the second end even if the first one failed.
PipendFails(p) == LET s == u[p].ip
                      r == [u[p] EXCEPT !.call = "pipe2"]
                      after == IF u[p].call = "pipe" THEN <<"ialloc", "pipend">>
                                                     ELSE <<"pipeFails">> IN
  /\ At(p, "pipend") /\ u[p].err
  /\ inode' = IF s = 0 THEN inode ELSE [inode EXCEPT ![s].mode = "REG"]
  /\ Go(p, IF s = 0 THEN Returning([r EXCEPT !.stk = after]) ELSE Calling(r, "iput", after))
  /\ RunsOn(p)
  /\ UNCHANGED <<freel, volVars, sysVars>>

\* The first end, if there is one, goes back without a plock.
PipeFails(p) == /\ At(p, "pipeFails")
                /\ IF u[p].tgt = 0 THEN Goto(p, "done")
                   ELSE Put(p, [u[p] EXCEPT !.tgt = 0], u[p].tgt, "done")
                /\ RunsOn(p) /\ OnlyLocals

-----------------------------------------------------------------------------
(* update(): every inode in core that is not locked.                       *)

\* The slots that the loop finds, from the next one on.
Updatable(s) == ~inode[s].lock /\ inode[s].count > 0

UpdateInode(p) ==
  /\ At(p, "update")
  /\ \E s \in u[p].blk + 1 .. NSlots :
       /\ Updatable(s) /\ \A t \in u[p].blk + 1 .. s - 1 : ~Updatable(t)
       /\ inode' = [inode EXCEPT ![s].lock = TRUE, ![s].count = @ + 1]
       /\ Go(p, Calling([u[p] EXCEPT !.ip = s, !.blk = s, !.held = @ \cup {s}],
                        "iupdat", <<"iput", "update">>))
  /\ RunsOn(p)
  /\ UNCHANGED <<freel, volVars, sysVars>>

UpdateDone(p) ==
  /\ At(p, "update")
  /\ \A s \in u[p].blk + 1 .. NSlots : ~Updatable(s)
  /\ updlock' = FALSE
  /\ Goto(p, "done") /\ RunsOn(p)
  /\ UNCHANGED <<inode, freel, volVars, file, left>>

\* Back to user mode.
Done(p) ==
  /\ At(p, "done") /\ u[p].call # "link2"
  /\ Go(p, Idle) /\ MaySleep /\ OnlyLocals

-----------------------------------------------------------------------------
Table(p) ==
  /\ \/ PlockWait(p) \/ Plock(p)
     \/ IgetWait(p) \/ IgetHit(p) \/ IgetFull(p) \/ IgetMiss(p)
     \/ IgetRead(p) \/ IgetError(p) \/ IgetNull(p)
     \/ IputShared(p) \/ IputLast(p) \/ IputFree(p) \/ IputDone(p)
     \/ IupdatClean(p) \/ Iupdat(p) \/ IupdatWrite(p) \/ IupdatError(p)
     \/ ItruncSpecial(p) \/ Itrunc(p) \/ ItruncWrite(p) \/ ItruncError(p)
     \/ ItruncFree(p)
     \/ IallocWait(p) \/ Ialloc(p) \/ IallocPop(p) \/ IallocGot(p)
     \/ IallocTaken(p) \/ IallocSearch(p) \/ SearchBlock(p)
     \/ SearchError(p)
  /\ UNCHANGED sysVars

Start(p) ==
  \/ \E call \in {"open", "creat", "mknod", "unlink", "mkdir", "rmdir"}, path \in Paths :
       CallNamei(p, call, path)
  \/ \E path, to \in Paths : CallLink(p, path, to)
  \/ \E s \in Slots : Close(p, s)
  \/ Pipe(p) \/ Sync(p)

Directory(p) ==
  \/ NameiWait(p) \/ Namei(p) \/ DirFails(p) \/ DirRemove(p) \/ DirDescend(p)
  \/ DirCreate(p) \/ DirLink(p) \/ Descended(p) \/ Out(p)
  \/ CreateFails(p) \/ Create(p) \/ EnterName(p) \/ EnterWrite(p)
  \/ UnlinkFails(p) \/ Unlink(p) \/ UnlinkWrite(p)
  \/ RmdirFails(p) \/ Rmdir(p) \/ RmdirWrite(p)

Files(p) ==
  \/ NamedOpen(p) \/ NamedCreat(p) \/ NamedLink(p) \/ NamedFails(p)
  \/ MadeCreat(p) \/ MadeMknod(p) \/ MadeMkdir(p) \/ MkdirDots(p) \/ MkdirWrite(p)
  \/ Opened(p) \/ OpenFails(p) \/ Linked(p) \/ LinkWrite(p) \/ LinkDone(p)
  \/ Pipend(p) \/ PipendFails(p) \/ PipeFails(p)
  \/ UpdateInode(p) \/ UpdateDone(p) \/ Done(p)

Kernel(p) == Table(p) \/ Directory(p) \/ Files(p)

\* All calls have been made and have returned.
Quiet == \A p \in Procs : u[p].pc = "user"
Rest == left = 0 /\ Quiet /\ UNCHANGED vars

Next == (\E p \in Procs : Start(p) \/ Kernel(p)) \/ Rest

Spec == Init /\ [][Next]_vars
\* A process that is ready runs again.
FairSpec == Spec /\ \A p \in Procs : WF_vars(Kernel(p))

-----------------------------------------------------------------------------
(* Properties.                                                             *)

Label == {"user", "plock", "iget", "igetRead", "igetNull", "iput", "iputFree",
          "iputDone", "iupdat", "iupdatRead", "itrunc", "itruncRead",
          "itruncFree", "ialloc", "iallocLoop", "iallocGot", "search", "namei",
          "dirloop", "descended", "out", "created", "enter", "enterWrite",
          "unlink", "unlinkWrite", "rmdir", "rmdirWrite", "named", "made",
          "dots", "dotsWrite", "opened", "linked", "linkWrite", "pipend",
          "pipeFails", "update", "done"}
Dinode == [mode : Mode, nlink : Int]
Locals == [pc : Label, stk : Seq(Label), call : Call \cup {"none", "link2", "pipe2"},
           path : Seq(Names), to : Seq(Names), ip : Slots \cup {0},
           dp : Slots \cup {0}, dip : Slots \cup {0}, tgt : Slots \cup {0},
           ino : Inodes \cup {0}, blk : Nat, first : BOOLEAN, wait : BOOLEAN,
           err : BOOLEAN, itmp : Dinode, held : SUBSET Slots]

(* The types of the variables.                                             *)
TypeOK ==
  /\ inode \in [Slots -> [num : Inodes \cup {0}, lock : BOOLEAN, want : BOOLEAN,
                          upd : BOOLEAN, count : Nat, mode : Mode, nlink : Int]]
  /\ freel \in Seq(Slots)
  /\ dino \in [Inodes -> Dinode]
  /\ dir \in [Inodes -> [Names -> Inodes \cup {0}]]
  /\ sinode \in Seq(Inodes) /\ silock \in Nat /\ lasti \in 1..LastBlock /\ nbehind \in Nat
  /\ cpu \in Procs \cup {NoProc}
  /\ wchan \in [Procs -> Slots \cup {Awake, IlockChan}]
  /\ u \in [Procs -> Locals]
  /\ file \in [Procs -> SUBSET Slots] /\ updlock \in BOOLEAN /\ left \in 0..Budget

(* An inode of the volume is in core at most once, and a slot is on the    *)
(* free list exactly when nobody refers to it: iget looks again after      *)
(* every sleep, and iput removes what it puts back.                        *)
UniqueInode ==
  /\ TypeOK
  /\ \A i \in Inodes : Cardinality(InCore(i)) <= 1
  /\ IsInjective(freel)
  /\ \A s \in Slots : s \in ToSet(freel) <=> inode[s].num = 0
  /\ \A s \in Slots : inode[s].num = 0 <=> inode[s].count = 0

(* A process that locked an inode (iget, plock) keeps it locked, and alone,*)
(* until it lets it go itself.  Who sleeps for a lock is known to its      *)
(* holder: IWANT is set while the inode is locked, and s_ilock is on.  So  *)
(* nobody sleeps for an inode that has left its slot.                      *)
LocksOK == \A p \in Procs :
  /\ \A s \in u[p].held : /\ inode[s].lock
                          /\ \A q \in Procs \ {p} : s \notin u[q].held
  /\ wchan[p] \in Slots => inode[wchan[p]].lock /\ inode[wchan[p]].want
  /\ wchan[p] = IlockChan => silock > 0

(* i_count is the number of references: locked inodes, open files, the     *)
(* inode link() goes back to, the first end of a pipe, the root directory. *)
RefersTo(p, s, k) ==
  \/ k = 1 /\ s \in u[p].held
  \/ k = 2 /\ s \in file[p]
  \/ k = 3 /\ s = u[p].tgt
  \/ k = 4 /\ u[p].ip = s /\ u[p].pc \in {"plock", "iput"} /\ s \notin u[p].held
CountsReferences == \A s \in Slots :
  inode[s].count = (IF s = RootSlot THEN 1 ELSE 0)
                     + Cardinality({x \in Procs \X (1..4) : RefersTo(x[1], s, x[2])})

\* The inode as the kernel sees it: in core once it has been read.
Loading(s) == \E p \in Procs :
  u[p].ip = s /\ (u[p].pc = "igetRead" \/ Contains(u[p].stk, "igetNull"))
Live(i) == IF \E s \in InCore(i) : ~Loading(s)
           THEN LET s == CHOOSE s \in InCore(i) : TRUE
                IN  [mode |-> inode[s].mode, nlink |-> inode[s].nlink]
           ELSE dino[i]

(* What a directory names is never a free inode.                           *)
NamedInodeLive ==
  \A i \in Inodes : Entries(i, dir) # {} => Live(i).mode # "FREE"

(* i_nlink covers the directory entries of an inode that no process is     *)
(* working on, so that the last unlink, and no earlier one, frees it.      *)
LinksCovered == \A i \in Inodes :
  (\A s \in InCore(i) : ~inode[s].lock)
    => Live(i).nlink >= Links(i, dir, [j \in Inodes |-> Live(j).mode])

(* When every call has returned, the count of links of a file is exact,   *)
(* and a free inode has none.  (unlink(2), icheck(8))                      *)
QuietCounts == Quiet => \A i \in Inodes :
  /\ Live(i).mode = "REG" => Live(i).nlink = Cardinality(Entries(i, dir))
  /\ Live(i).mode = "REG" /\ Live(i).nlink = 0
       => \E p \in Procs : \E s \in file[p] : inode[s].num = i
  /\ Live(i).mode = "FREE" => Live(i).nlink = 0

(* "If the file was open in any process, the actual destruction is         *)
(* delayed until it is closed" (unlink(2)): an open file stays what it is. *)
OpenFileKept == [][\A p \in Procs : \A s \in file[p] :
  inode[s].mode # "FREE" /\ s \in file'[p]
    => inode'[s].num = inode[s].num /\ inode'[s].mode = inode[s].mode]_vars

(* Every system call comes back.                                           *)
CallsReturn == \A p \in Procs : u[p].pc # "user" ~> u[p].pc = "user"
=============================================================================
