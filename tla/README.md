# Verification of the Eighth Edition kernel

This directory models the kernel of the Eighth Edition Research Unix
(`v8/usr/sys`) in TLA+, checks the models with TLC and proves theorems about
them with TLAPS.  The kernel is the program's core: everything else in the
repository runs on top of it.

## The system

The kernel is one program without preemption.  A process that is in a system
call runs until it calls `sleep`, and an interrupt handler runs to its end,
between any two instructions at which the priority level (`spl0` ... `spl7`)
lets it in.  All concurrency is of these two kinds: *state changes while a
process sleeps*, and *state changes in an interrupt*.  Nothing else protects
the shared tables, and every routine that sleeps must look again when it wakes.

| component | state | operations | what is hard | what makes it correct |
|---|---|---|---|---|
| block buffer cache (`dev/bio.c`) | buffer headers with flags, hash chains, three free lists, the drivers' queues | `getblk`, `geteblk`, `bread`, `breada`, `bwrite`, `bdwrite`, `bawrite`, `brelse`, `bflush`, `binval`; `iodone` from the interrupt | two kinds of sleep, asynchronous transfers, delayed writes, errors after the fact | a buffer has one owner, a block has one buffer, a read returns the last write, nobody sleeps forever |
| sleep and wakeup (`sys/slp.c`) | `p_stat`, `p_wchan`, the sleep hash queues | `sleep`, `tsleep`, `wakeup`, `setrun`, `unsleep` | signals, stops and timeouts against wakeups | a sleeper is on its queue, a wakeup is not lost, `STIMO` tells the truth |
| inode table (`sys/iget.c`) | in-core inodes, hash chains, free list, `ILOCK`, `IWANT` | `iget`, `iput`, `iupdat`, `itrunc`, `plock`, `prele` | the lock is kept across sleeps, the entry may be reused, read errors | one entry per inode, the last `iput` writes it, an inode in use is not freed |
| free blocks and inodes (`sys/alloc.c`) | superblock: `s_free`, `s_inode`, `s_flock`, `s_ilock`, `s_fmod` | `alloc`, `free`, `ialloc`, `ifree`, `update` | the locks are tested before sleeping, errors in the chain of free blocks | no block is allocated twice, the arrays do not overflow |
| reading and writing files (`sys/rdwri.c`, `sys/subr.c`) | file contents, indirect blocks | `readi`, `writei`, `bmap` | order of the writes for a crash, partial copies | a block that an inode on the disk points at belongs to it alone |
| mounting (`sys/sys3.c`) | mount table, superblock buffers | `fsmount`, `sumount`, `update` | `update` runs beside them | the superblock stays where the mount table says |
| path names (`sys/nami.c`), open files (`sys/fio.c`) | directories, file table | `namei`, `link`, `unlink`, `falloc`, `closef` | locks on two inodes | no deadlock, counts agree with references |
| resource maps (`sys/rmap.c`) | arrays of free segments | `rmalloc`, `rmfree` | fragmentation at the limit of the map | segments sorted and disjoint, nothing free is in use |
| streams (`dev/stream.c`, `sys/streamio.c`) | queues of blocks, flags, the list of queues to service | `putq`, `getq`, `putbq`, `stopen`, `stread`, `stwrite`, `stioctl`, `stclose` | flow control, service procedures run from interrupts, ioctl timeouts | a blocked queue is enabled again, an answer goes to its question |
| line disciplines (`dev/ttyld.c`), terminal lines (`dev/dz.c`), pipes | the modules pushed on a stream, the registers of a line | write and read queues, stop, start, flush, carrier | a module popped under waiting writers, hangup from an interrupt | output in order, nothing waits for an event that will not come |
| callouts (`sys/clock.c`) | the sorted callout list | `timeout`, clock interrupt | time differences | nothing early, nothing lost |
| signals, exit, wait (`sys/sig.c`, `sys/sys1.c`) | `p_sig`, `p_stat`, the family | `psignal`, `issig`, `stop`, `exit`, `wait` | a signal against a sleep | no zombie forgotten, no signal lost |
| shared text (`sys/text.c`) | text table | `xalloc`, `xfree`, `xlock` | reuse while swapping | counts agree |
| virtual memory (`sys/vm*.c`) | page tables, core map, free list | faults, page daemon, swapper | | |
| URP (`dev/dkp.c`), packet driver (`dev/pk.c`) | windows of blocks | send, acknowledge, reject, retransmit | a line that loses and duplicates | delivered in order, once: as long as losses are rare, see [URP](#urp-1) |
| TCP/IP (`inet/`) | protocol control blocks | | | |
| remote files (`sys/neta.c`, `usr/src/netfs`) | remote inodes | | | |
| device drivers, boot programs, machine code | registers | | | |
| Blit and Jerq terminals (`blit/`, `jerq/`) | | mux and mpx multiplex windows over a packet protocol | | |
| commands and libraries (`usr/src`) | | | | sequential |

The components interact through calls and through sleep channels: the inode
table and the free lists call the buffer cache while they hold their own locks
(`ILOCK`, `s_flock`, `s_ilock`), the cache calls the drivers, the drivers call
`iodone` from interrupts, and `update` walks over all of them.

## Modules

| module | what it is |
|---|---|
| `BufCache` | the buffer cache, every entry, with the disk interrupt |
| `BlockStore` | what the cache promises: blocks with contents, lent to one process at a time, sent to the device in order |
| `MCBufCache` | the small instances for TLC |
| `BufCacheProofs` | theorems about `BufCache`, for every value of its constants: types, lists, owners, requests, wakeups |
| `BufCacheContent` | extends it: one buffer to a block, the right one, and durable writes |
| `InodeTable` | the in-core inodes (`iget`, `iput`, `iupdat`, `itrunc`, `plock`, `prele`) and the free inodes of a volume (`ialloc`, `ifree`) |
| `PathNames` | extends `InodeTable` by `namei`, the system calls that make, link and remove names, `close`, `pipe` and the walk of `update()` over the inodes; it has the specification and the properties of both |
| `MCPathNames` | the small volumes for TLC |
| `Processes` | `sleep`, `tsleep`, `wakeup`, `setrun`; signals, stops, `exit`, `wait`, `fork`; the seconds counted by the clock |
| `Volume` | inodes, entries and blocks of a volume in core, in the cache and on the disk: what a crash finds |
| `Streams` | a terminal's stream: stream head, queues and their scheduling, `ttyld`, a line of a DZ |
| `Urp` | one direction of a datakit circuit: the two ends of `dkp.c` and a line that loses |
| `Circuit` | what a circuit promises: what is written is read, once and in order, and it arrives |
| `PathNamesProofs`, `ProcessesProofs`, `VolumeProofs`, `StreamsProofs`, `UrpProofs` | the theorems about the modules of these names |
| `StreamsQueues` | extends `StreamsProofs`: the queues of a stream, their flow control and the order of the output |
| `MCProcesses`, `MCVolume`, `MCStreams`, `MCUrp` | their small instances for TLC |

The modules compose along the promises of what lies below.  `InodeTable` and
`PathNames` are one specification, over the contents `BufCache` promises
(`BlockStore`).  `Volume` has the same routines once more, without the sleeps
for locks of other inodes but with the cache and the disk under them, for the
order of writes is a question the other two cannot ask.  `Streams` composes
four parts of the code with the processes and the interrupts of the line; `Urp`
composes two ends of a circuit and is shown to implement `Circuit`.
`Processes` is below all of them: that a wakeup makes the sleeper run is what
the others assume.

A definition whose comment starts with *Mutant* is not part of a model: it is a
definition with a plausible mistake in it, kept to test that the property it is
listed with in `PROJECT.json` notices the mistake.

### BufCache

One variable per field of the code: `flags`, `blk`, `data` are `b_flags`,
(`b_dev`, `b_blkno`) and the memory of each buffer; `fl` is `bfreelist`, the
three queues in order; `freeWanted` is `B_WANTED` of the head of the first
queue; `ioq` holds the requests the drivers have, in the order of the strategy
calls; `disk` is the device; `wchan` is `p_wchan`.  `pc`, `ret`, `bp`, `rabp`,
`cand`, `wdel` are the program counter and the locals of each process, `err` its
`u_error`.  `updlock` and `mbuf` are the part of `update()` and of the mount
table that keeps superblocks in the cache.  `file` is a ghost: the last contents
anybody wrote to the block and that no reported error took back.

`cpu` names the process that is in the kernel; `NoProc` when any process may
go on.  An action is a piece of code between two points where an interrupt
can matter or the process sleeps:

| code | actions |
|---|---|
| system call enters the cache | `Bread`, `Breada`, `Getblk`, `Geteblk`, `Sync`, `UpdateSuper`, `LastClose` |
| `getblk`: hash search at spl0, then `B_BUSY` at spl6 | `GetblkFind`, `GetblkWait`, `GetblkHit` |
| `getblk`, `geteblk`: no buffer, delayed write, reassign | `GetblkNoFree`, `GetblkWriteBack`, `GetblkReassign` |
| `bread`, `breada` after `getblk` | `GotForRead`, `Readahead`, `ReadaheadCached`, `ReadaheadStart` |
| `iowait` | `IowaitSleep`, `BreadDone`, `BwriteDone` |
| caller: `brelse`, `bdwrite`, `bwrite`, `bawrite`, the superblock in `fsmount`, `update` | `Release`, `Bdwrite`, `Bwrite`, `Bawrite`, `LockSuper`, `UpdateGot` |
| `bwrite` after the strategy call of an asynchronous write | `BwriteStarted` |
| `bflush`, `binval` | `BflushOne`, `BflushDone` |
| interrupt: `iodone` and its `brelse` | `Iodone` |

`brelse` and the start of a transfer are operators (`Brelse`, `BwriteStart`,
`ReadStart`) used inside the actions that call them.  The interrupt may come
between the hash search and the raised priority in `getblk`, between the start
of an asynchronous write and the flag changes after it, and between `getblk` and
its caller; elsewhere the buffer is not one the interrupt can touch, or the code
runs at spl6.

Abstractions: hash chains are left out (they only find a buffer by its
block); a block is one model value for (device, number) and its contents one
value; magtapes (`B_TAPE`: `bdwrite` is `bawrite`), statistics and `B_CACHE` are
left out.  A driver is modelled by what the cache relies on: it completes each
request once, in any order except that two requests for the same block keep
theirs (`Oldest`; `disksort` inserts behind requests for the same cylinder).
Mounting is reduced to its buffer: `fsmount` up to `brelse` is one bread and
`LockSuper`, and `update` writes one superblock per call.  A caller that uses
the block device of a mounted superblock, umount, `swap` and `physio` are not
modelled.

### InodeTable and PathNames

`inode[s]` is a slot of the in-core table: `num` (`i_number`, 0 when the slot is
free), `lock`, `want`, `upd` (`ILOCK`, `IWANT`, and `IUPD`, `IACC`, `ICHG`
together), `count`, `mode`, `nlink`.  `freel` is the free list; a slot is on a
hash chain when `num` is not 0.  `dino` is the ilist and `dir` the contents of
the directories, both as the buffer cache has them: that the cache hands every
process the last contents is what `BufCache` shows (`ImplementsBlockStore`).
`sinode`, `silock`, `lasti`, `nbehind` are the superblock's fields.  `file` is
what open files refer to, `wchan` is `p_wchan`, and `cpu` is the process that is
in the kernel, as in `BufCache`.

The routines are nested several deep (`creat` calls `namei`, which calls
`ialloc`, `iget`, `iput`, `itrunc`), so each process has a stack of labels,
`u[p].stk`, and its locals in `u[p]`.  An action runs from one point where the
process may sleep, or calls or returns from a routine, to the next; `RunsOn`
keeps the processor, `MaySleep` gives it up (the code waits for the buffer cache
and may find the block there), `SleepOn` sleeps on a channel.

| code | actions |
|---|---|
| `plock` | `PlockWait`, `Plock`; `prele` is `Released` and `PreleWakes` in the actions that call it |
| `iget` | `IgetWait`, `IgetHit`, `IgetFull`, `IgetMiss`, `IgetRead`, `IgetError`, `IgetNull` |
| `iput` | `IputShared`, `IputLast`, `IputFree` (with `Ifree`), `IputDone` |
| `iupdat` | `IupdatClean`, `Iupdat`, `IupdatWrite`, `IupdatError` |
| `itrunc` | `ItruncSpecial`, `Itrunc`, `ItruncWrite`, `ItruncError`, `ItruncFree` |
| `ialloc` | `IallocWait`, `Ialloc`, `IallocPop`, `IallocGot`, `IallocTaken`, `IallocSearch`, `SearchBlock`, `SearchError` |
| `namei`, `fsnami` | `NameiWait`, `Namei`, `DirFails`, `DirRemove`, `DirDescend`, `DirCreate`, `DirLink`, `Descended`, `Out` |
| `NI_CREAT`, `NI_NXCREAT`, `NI_MKDIR` | `CreateFails`, `Create`, `EnterName`, `EnterWrite` |
| `NI_DEL`, `NI_RMDIR`, `NI_LINK` | `UnlinkFails`, `Unlink`, `UnlinkWrite`, `RmdirFails`, `Rmdir`, `RmdirWrite`, `LinkWrite` |
| `open`, `creat`, `open1` | `NamedOpen`, `NamedCreat`, `MadeCreat`, `Opened`, `OpenFails` |
| `mknod`, `mkdir`, `link` | `MadeMknod`, `MadeMkdir`, `MkdirDots`, `MkdirWrite`, `NamedLink`, `Linked`, `LinkDone`, `NamedFails` |
| `closef`, `pipe`, `update` | `Close`, `Pipe`, `Pipend`, `PipendFails`, `PipeFails`, `Sync`, `UpdateInode`, `UpdateDone` |

`u[p].err` is "`u_error` is set".  Nothing clears it within a call, and the code
tests it in few places, some of them much later: `fsnami` and `open1` give up,
`writei` changes the block and releases it without a write, `mknod` returns.
`Faulty` names what may go wrong in an instance: reads of the ilist in three
places, of a directory, a directory that cannot grow, a full file table.

Abstractions.  One local volume that can be written, without mounts on it;
paths start at the root directory and have no symbolic links, `.` or `..`;
permissions are granted, except that only `mknod` is called by the superuser.
The inode of the bad blocks (1) is left out, and so are `s_tinode`, times, owners
and sizes; blocks of files are freed within one step (`ItruncFree`).  A process
has the files of one `open`, `creat` or `pipe`; files shared by `fork`, current
directories, text inodes and special files are not modelled.  The stream of a
pipe is external: only its inodes are here.  `update` writes the inodes (the
superblocks are in `BufCache`); a call of it while another one is in progress
returns at once and is not a step.  Where the value of `mkpipend` is not defined
(`return;` after `ialloc` failed) the VAX leaves 0 in r0, so it is NULL.

### Processes

`proc[p]` is the slot of the process table: `stat`, `wchan`, `hi` (`p_pri` above
PZERO), `sig`, `cursig`, `wted` (`SWTED`), `stimo`, `tsl` (`p_tsleep`), `pptr`, and
the actions `act`, `reset` of its signals.  A process is on a sleep queue exactly when
`wchan` is not `NoChan`.  `pc`, `call` and `res` say where it is in its call, `due` is a
ghost: the seconds after which its `tsleep` has a right to time out.  `cpu` names
the process that is in the kernel at a point where an interrupt makes a
difference.

| code | actions and operators |
|---|---|
| `sleep`, `tsleep` | `Tsleep`, `Sleep`, `Stays`, `Interrupted`, `EndTsleep`, `Resume` |
| `wakeup`, `setrun`, `unsleep` | `Wakeup`, `Setrun`, `Unsleep` in the actions that call them; `WakeChan` is a driver's interrupt |
| the seconds of `softclock` | `Tick` with `Timein` |
| `psignal`, `kill`, signals of a terminal | `Post` (`Refused`, `Noted`, `Deferred`, `PostAsleep`, `PostStopped`), `Psignal`, `Kill` |
| `issig`, `stop`, `psig` | `Issig`, `Looked`, `Stop`, `Psig`, `Trap` |
| `ssig` | `Ssig` |
| `exit`, `wait1`, `newproc` | `Exit`, `ExitSleep`, `ExitDone`; `Wait`, `WaitZombie`, `WaitStopped`, `WaitNoChild`, `WaitNothing`, `WaitSleep`; `Fork`, `ForkDone` |

Between the scan of `wait` and its sleep (`WaitNothing`, `WaitSleep`), between a sleeper's
look at its signals and its `swtch`, and between `issig` and `psig` others or an
interrupt come in: these are actions of their own.

Abstractions: the run queue and priorities (any process that is `SRUN` may run),
swapping (all processes are in core), `ptrace`, `vfork`, deferred handlers
(`SIGISDEFER`), cores, process groups but for what makes an orphan, times.

### Volume

Everything exists up to three times: in core (`core`, `sinode`, `sfree`), in a
buffer (`cIno`, `cDir`, `cBlk`) and on the disk (`dIno`, `dDir`, `dBlk`), with
`delIno`, `delDir`, `delBlk` for `B_DELWRI`.  `Flush` writes any delayed buffer at any
moment, as `getblk`'s search for a victim and `update` do.  A crash leaves
the disk and nothing else, so that it needs no action: an invariant of the
variables of the disk speaks of a crash at every moment.

| code | actions and operators |
|---|---|
| `iupdat` delayed and with wait, `update` | `Iupdat`, `IupdatNow`, `Update` |
| `iput`, `itrunc`, `ifree` | `Iput`, `IputLast`, `Itrunc`, `ItruncFree`, `ItruncDone`, `Ifree` |
| `creat` (`ialloc`, `namei`) | `CreatFind`, `CreatInode`, `CreatEntry` |
| `unlink` (`iget` under the directory's lock) | `UnlinkFind` with `Found`, `UnlinkEntry`, `UnlinkCount` |
| `namei` of any other call: `iput` of the directory, then `iget` | `Search`, `Iget` |
| `link` | `LinkFind`, `LinkGet`, `LinkInode`, `LinkEntry` |
| `open` with truncation, `writei` with `bmap`, `close` | `OpenTrunc`, `TruncGet`; `Plock`, `WriteAlloc`, `WriteData`, `Close` |

`itrunc` writes the inode clean, then takes the addresses out one at a time and
gives each block back; `free` may sleep in the middle (`blk[p]` is the block
in its hands), which is where `update` and the unlocked `iput` of `link` can
come in.  A file's identity is the ghost `file`, numbered by `made`: the inode number
alone cannot tell a file from the one that had the number before.

`unlink` gets the inode while it has the directory locked.  Every other call
gives the directory back first (nami.c:364), and `iget` (365) may have to wait for the inode;
`want[p]` is the entry it has found, and by the time it gets the inode the entry may be gone and the
inode free, or another file's.  `LinkEntry` enters a name meant for the file of `want[p]`.

Abstractions: one directory of one block, one inode to a block of the ilist,
transfers do not fail, the superblock is rebuilt after a crash (`fsck` or
`icheck -s`), so that `s_free` and `s_inode` have no copy on the disk and
the chain of free blocks and `s_flock` are left out; sizes and data are not told
apart, except metadata (`meta`) from data.  Permissions are granted: `open` of an
inode that has been freed meanwhile, which has no mode bits left, is that of the superuser.

### Streams

`k` is what the three levels share: `head` (`i_sptr`, the stream head's flags,
`iocblk`, `count`), the five queues `q` with `QENAB`, `QWANTR`, `QWANTW`, `QFULL`,
`run` (the list of enabled queues), `ld` (`ttyld` pushed or not, `TTSTOP`), `dz`
(state, carrier, block in transmission, callouts), `chan` (what each process
sleeps on), `file` and `lost`.  It is one record because a `putq` in the driver can
reach all of it in one call: strput is called from the module, which is called
from the interrupt.  `srv` is the service procedure that runs, since it can be
interrupted between `getq` and the put to the next queue.

| code | actions and operators |
|---|---|
| `putq`, `putbq`, `getq`, `flushq`, `qenable`, `backq`, `queuerun` | `Putq`, `Putbq`, `Getq` (`GetNone`, `GetFirst`, `Left`), `Flushq` (`Emptied`, `PutBack`, `Kept`), `Qenable`, `Backq`, `Queuerun` |
| `stopen`, `dzopen` | `OpenNew`, `Dzopen`, `DzopenFails`, `OpenOld`, `Reopen` |
| `stread`, `stwrite` | `Read`, `Stread`, `StreadCopied`; `Write`, `Stwrite`, `StwriteFilled` |
| `stioctl` | `Ioctl`, `StioctlSend`, `StioctlWait`, `Interrupted`; `Push`, `Pop` with `Detach` |
| `strput`, `stwsrv`, `forceclose` | `StrputData`, `StrputAck`, `StrputHangup`, `Forceclose`, `Restart` |
| `stclose`, `stenter`, `stexit` | `Close`, `Drain`, `Stenter`, `Stexit`, `StcloseHungup`, `FreeStream` |
| `ttyosrv`, `ttyinsrv`, `ttldioc` | `TtyosrvGet`, `TtyosrvPut`, `Ttyinsrv`, `Ttldioc` |
| `dzoput`, `dzstart`, `dztint`, `dztimo`, `dzrint`, `dzscan` | `Dzoput`, `Dzstart` (`CtlsInFront`, `Ioctls`), `Dztint`, `Dztimo`, `TypeChar`, `TypeStop`, `TypeIntr`, `CarrierLost`, `CarrierBack` |

Abstractions: a queue counts full blocks, so that `putq` never appends to its last
block; `TIOCSETP` stands for every ioctl the discipline passes down; CBREAK is
set when `ttyld` is pushed and there is no echo.  The drain of `stclose` (60 seconds)
may give up at any moment.  Left out: `select`, `M_IOCWAIT`, `TIOCFLUSH` and priority
messages, `M_PASS` (files through pipes), `FIOINSLD`, `EXCL`, `istread`/`istwrite`, cooked
mode, breaks, devices that clone, a pool of blocks that is exhausted, the second
`qopen` of each module when a stream is opened again (`Reopen`, streamio.c:65-82): it leaves an
open line alone, but waits for the carrier if that has just gone.

### Urp

`WS`, `WACK`, `WNX`, `xb`, `state` are `struct dkp` of the end that sends, `inp`, `indata`,
`trx`, `trsize`, `iseq`, `lastecho` of the one that receives; `forth` and `back` are the lines.

| code | actions |
|---|---|
| a process writes; `dkposrv`, `dkpxmit` | `Write`; `Send`, `SendEnd` |
| `dkpiput`, `dkprack` (ECHO, REJ, ACK, AINIT) | `Hear` with `Rack`, `HearAinit`, `HearRej`, `HearAck` |
| `dkptimer` | `Dkptimer` |
| `dkpiput` (data, BOT, SEQ, ENQ, INIT1) | `Recv` with `RecvData`, `RecvTrailer`, `RecvSeq`, `RecvEnq`, `RecvInit` |
| `dkpisrv` | `Dkpisrv` |
| the datakit | `Lose` |

A message is one block with its delimiter, or the delimiter alone (`Size` 0); its
length is all a trailer says of it.  What the receiver has collected (`inp`) is a sequence of
blocks, and so is what it passes on.  A block that comes in the middle of a trailer gives
it the bytes that it lacks (`Lacking`), and these spell the length of what has been collected
or not, as it happens.  `dkpiput` queues the data, the echo and then `M_DELIM`; the model
queues the delimiter with the data, so that the echo follows both.

The line keeps the order and loses; that it makes no duplicates is the
datakit's, the duplicates come from retransmission.  Left out: the value
of the timer (it expires at any moment; in the code it is a `u_char` that wraps from 0 to
255 when it expires while the line is `QFULL`), a circuit opened again while it is
in use (`KIOCINIT`, where `lastecho` is not reset), close, hangup, character mode.

## Runs

### Buffer cache

All instances have two processes, two or three buffers, and two blocks of one
device.  Every cfg names the entries it uses in `Calls`, which keeps the
instance small enough for the property it is about.

| run | instance | shows |
|---|---|---|
| `BufCacheStructure` | 2 processes, 3 buffers, 2 blocks; bread, breada, sync, close; errors of all transfers | `TypeOK`, `FreeListsOK`, `OneOwner`, `RequestsOK`, `NoLostWakeup`, `UniqueBlock`, `NotStuck` |
| `BufCacheStore` | 2 processes, 2 buffers, 2 blocks, 2 values; bread, getblk, geteblk, sync, close; synchronous errors | `SyncWriteDurable`, and that the cache implements `BlockStore` (`ImplementsBlockStore`) |
| `BufCacheLive` | 2 processes, 2 buffers, 2 blocks, one of them a superblock; bread, getblk, geteblk, sync; synchronous errors; fair | `RightBlock` (with the superblock's buffer), `SleeperWakes` |

Bounds.  Two processes and two buffers are enough for each sleep and each
reuse of a buffer; the third buffer lets a process in `breada` hold one, read
ahead into another and leave a third to be a victim.  The number of requests is
bounded by the number of buffers, so nothing else grows.  `breada` needs more
buffers than processes (`NotStuck`): with as many processes as buffers, each
process holding one buffer of its own and waiting for a second one, nobody ever
goes on.  The kernel's configuration has far more buffers than processes that
read ahead, and the instance with `breada` has one more buffer than processes: it
excludes this deadlock, and `NotStuck` says nothing of it.

Fairness (`FairSpec`).  The scheduler runs a ready process again and again
(strong fairness of each process, since another one may occupy the processor
in between); a caller that holds a buffer gives it back (the file system never
returns to user mode with a busy buffer); a driver completes each request it was
given (weak fairness per buffer).  Nothing forces a process to start a call.

### A known divergence of the buffer cache

`getblk` compares the buffer's device and block number at spl0 and then tests
`B_BUSY` at spl6.  If an asynchronous transfer of this buffer fails in between,
`brelse` has taken the block away from the buffer (`b_dev = NODEV`) and made it
free; `getblk` takes it and returns it, with `B_DONE` and `B_ERROR` set, to a
caller that asked for a block.  `bread` returns it without looking at the error.
`RightBlock` fails when `"async"` is added to `Faulty`; when asynchronous transfers do
not fail, it holds (`BufCacheLive`).

### Inodes and names

Two processes, slots 1 to 4 (slot 1 is the root directory's), inodes 2 to 5, two
of them in a block of the ilist, `NICINOD` 2.  A volume is empty, or has a file
`na`, a directory `na`, or a file `na` and a directory `nb`.  `Budget` is the
number of calls made, by both processes together; a run stops when all of them
have returned (`Rest`).

| run | calls | instance | shows |
|---|---|---|---|
| `PathNamesFiles` | open, creat, mknod, unlink, close, mkdir, sync | directory, paths of length 2, budget 4 | `UniqueInode`, `NamedInodeLive`, `LinksCovered`, `QuietCounts`, `OpenFileKept` |
| `PathNamesLinks` | open, creat, unlink, link, pipe, rmdir, sync, close | file and directory, 3 slots, budget 3, fair | `CountsReferences`, `CallsReturn`; the table overflows |
| `PathNamesErrors` | open, close, creat, unlink | empty volume, all faults, budget 4 | `LocksOK`, `CountsReferences` |

`UniqueInode` has the type invariant as its first conjunct.

Bounds.  Three or four calls are enough for a process to be in the middle of
one call while the other one completes a second and starts a third, which is
what the races on a slot need: the slot is taken, given up and taken again.
Four free slots or fewer make slots change hands, a list of two numbers makes
`s_inode` run empty and full, and the ilist has three blocks, so that the search
goes on to the next block, starts again from the top and gives up.

What holds depends on the calls, and the runs say which: `LocksOK` does not
hold with `link` or `mkdir`, `LinksCovered` not with `rmdir`, `NamedInodeLive` not
with `link`, and `NamedInodeLive`, `LinksCovered` and `QuietCounts` not under errors,
for the reasons below.  `mkdir` together with `pipe` can even stop both
processes, which is the wakeup that `mkdir` loses, so no instance has both.

Fairness (`FairSpec`): a process that is ready and may run does so (weak fairness
of each process).  That is enough because the calls are bounded: with an unbounded
number of calls of others, `plock` and `iget` promise nothing to a process that
always finds the inode locked again.

### Known divergences of the inode table

None of these has a run; each shows when the call or fault named is added to an
instance that claims the property.

* `mkdir` (`LocksOK`): `NI_MKDIR` assigns `i_flag` where `NI_CREAT` adds to it, and so
  drops `ILOCK` and `IWANT` of an inode another process may be waiting for.
* `rmdir` (`LinksCovered`): it takes the link of `..` from the parent before it
  finds that the directory has subdirectories, and fails with it taken.
* two `creat` and a full ilist: `ialloc` goes back to `loop` after the sleep in `iget`
  without looking at `s_ilock`, so two searches of the ilist fill `s_inode` at
  once, one entry past `NICINOD`.
* `link` (`LocksOK`): it ends with `iput` of an inode it has unlocked before.
* `link` (`NamedInodeLive`): `namei` reads a number from the directory, gives the
  directory up, and gets the inode; in between the file may be removed.  `open`
  then opens a free inode; `link` makes a new name for it (`VolumeRace.cfg`, below).
* fault `iget` (calls open, close, creat, mknod; `NamedInodeLive`): after a read error
  `iget` calls `iput` on a slot that still has `i_nlink` of its last inode; if that is
  0, the inode is freed although a directory names it.
* fault `writei` (calls mknod, open; `CountsReferences`): `mknod` returns on any error,
  also with the new inode locked.
* fault `writei` (call creat; `QuietCounts`): a directory that cannot get a block for a
  new entry leaves the inode with a link that no entry accounts for.

### Processes

Three processes: `init`, which waits; a shell that forks, waits, exits and catches
SIGCHLD; a job that sleeps with and without a time limit and exits.

| run | instance | shows |
|---|---|---|
| `ProcessesJob` | SIGINT (sent by a terminal's interrupt, caught, reset to ignore), SIGKILL, SIGSTOP, SIGCONT to the job, 3 signals, 1 fork, 1 second; 809,652 states | `QueueOK`, `SignalsWake`, `WaitNotices`, `ResultTrue`, `KilledByFatal` |
| `ProcessesLive` | the same without forks and SIGINT, fair; 77,392 states | `KillKills`, `TimeoutReturns` |

Bounds.  Three signals are a stop, a continue and a third that races one of
them; one second and one fork let a timeout fall into every place of a
sleep and a stop, and let a child exit or stop before, in and after the
parent's scan.  Deadlock is not checked: everybody may wait for something that
never comes.

Fairness (`FairSpec`): the scheduler runs a ready process again and again (strong
fairness of `Continue`, since another process may be in the kernel in between), the
clock ticks, and a device a process sleeps for at an uninterruptible priority
interrupts (weak fairness).  Terminals promise nothing.

Known divergences, each with the instance in which it shows:

* `KilledByFatal` fails when SIGTSTP is sent: a process that `issig` has stopped inside
  `sleep` keeps SIGTSTP in `p_cursig`; SIGCONT takes it out of `p_sig` only, and on the way out
  `psig` finds SIGTSTP with the default action and kills the process
  (sig.c:153-156, trap.c:197).
* `SignalsWake` fails with SIGTSTP and a caught signal of a higher number: the look
  stops at the first.
* `WaitNotices` fails when SIGCHLD is not caught and the stop comes from the
  terminal between the scan and the sleep (sys1.c:785): `psignal` drops a SIGCHLD with
  the default action, and the `wakeup` came too early.
* `tsleep` can return `TS_OK` although nobody called `wakeup` on its channel: a signal
  that woke it and was then taken back leaves neither a signal nor `STIMO`
  (slp.c:85-107).

### Volume

| run | instance | shows |
|---|---|---|
| `Volume` | 2 processes, 2 inodes, 2 names, 2 blocks, 2 files; both creat and link, or both creat, unlink and extend, one of them trunc and the other write; 1,370,130 states up to symmetry | `DiskEntriesTrue`, `DiskNoDuplicates`, `DiskMetaClean`, `DiskLinksCover`, `BlocksOwned` |
| `VolumeLink` | one process creates, links and writes, the other truncates | violated: `DiskNoDuplicates` |

Bounds.  A second file is what a freed inode number, block or name is given to;
two blocks let `itrunc` be between the first and the second.  Deadlock is checked;
`Idle` lets a state in which all calls are over stand still.  What `Volume` claims holds
where nobody links while another process unlinks (entries and links) or truncates
(blocks), so `link` has a mix of its own; `VolumeLink` and `VolumeRace.cfg` (below) show why.
`BlocksOwned` needs neither condition, and is proved without; `VolumeOwned.cfg` is an instance with
all of these calls together (one block, 2.7 million states, not among the runs).

`VolumeLink` is a disagreement of the code with its comment (iget.c:312, "to insure
no duplicates if system crashes").  `link` ends with `iput` of an inode it has not locked; its
`prele` takes away the lock of whoever has it (sys2.c:487, iget.c:221), here a process
that truncates the file and sleeps in `free`.  The inode is marked changed by
then, `update` writes it with the addresses that `itrunc` has not come to, and
those blocks are then freed and given to another file.  A crash now finds one
block in two files.

The other condition is a divergence that a further instance shows, `tlc -config VolumeRace.cfg
MCVolume.tla` (one process creates and unlinks, the other links), which violates
`DiskEntriesTrue`: `namei` of `link` has found the entry and given the directory back
(nami.c:364); `unlink` clears the entry, and its `iput`, or that of a `close`, frees the inode, which
`iget` (365) then brings back.  `link` raises `i_nlink` of the free inode, writes it and enters a
name for it.  The manual says that the new name refers to the same file as the old one
(man2/link.2:25-29).  The disk has an entry for an inode without a file, which
`ialloc` will give to the next one: then the entry names a different file, with more
entries than links, since `creat` sets `i_nlink` to 1 (`DiskLinksCover` fails as well).

### Streams

| run | instance | shows |
|---|---|---|
| `Streams` | 2 processes in three mixes: write, push, close with read, pop; ioctl, push, close with ioctl, close; write, push with ioctl; 1,771,205 states | `StreamKept`, `OneIoctl`, `SleeperHeard`, `NotStranded`, `OutputKept` |

Bounds.  Two blocks written (`MaxWrites`) are enough to be in the wrong order; every
queue is full with one block (`ldw` with two, so that it is between its marks
once), so that flow control acts at once; one callout and one ioctl on its way.
Deadlock is checked: the line can always lose or find its carrier, and a
process asleep is therefore looked at by `SleeperHeard`, not by deadlock.  (The
types of the module, `TypeOK`, are a conjunct of `SleeperHeard`.)

Known divergences, which no property claims otherwise:

* `ttyld` popped while output is stopped: `ttyclose` forgets `TTSTOP` but sends no `M_START`;
  the line stays stopped and no typed character restarts it (ttyld.c:65-71;
  man4/ttyld.4:56-57 says any character does).
* an ioctl that ends by timeout, signal or hangup clears `IOCWAIT` without the wakeup that
  a normal end makes (streamio.c:760-768, 798): the next one sleeps on.
* the late answer to an ioctl that timed out is taken by the next one: answers carry
  no identity.

Reading the code for the parts the model leaves out showed more of this kind
(not checked): `FIOPUSHLD` while a writer sleeps takes away the queue that would wake
it; the `putbq` of a partial read does not wake a second reader; the return of
`stread` for `M_PASS` (streamio.c:262) has no `stexit`; `ttyinsrv` and the direct put of
`dzrint` can reorder input (ttyld.c:123, 235); `dzclose` leaves the callout of `dztimo`
behind.

### URP

| run | instance | shows |
|---|---|---|
| `Urp` | a circuit that is being opened, or one that has carried 2 messages, with two messages, or one that has carried 6, with three, so that the numbers wrap; messages of 0 to 3 bytes; window 3, one loss; fair; 447,786 states | `WindowOK`, `NumbersAccepted`, `ImplementsCircuit` |

Bounds.  `XW` is that of the code, and `Highest` the last message of the longest circuit; `LineLimit`, `ReadLimit` and `MaxWaiting` of one make
both ends meet their full queues; two replies on their way (`MaxBack`) let an old one
be overtaken by the state of the sender.  The lengths are such that a message is empty, a block
is shorter than what a trailer can lack, or as long, or longer, and two blocks have the same one.
One loss of any item, at any moment, starts each kind of recovery (a lost block, trailer,
number, acknowledgement, rejection, ENQ), but not one recovery in the middle of another.
Deadlock is not checked: everything may be delivered.

That bound matters: *in order, once* is a promise the code keeps only while losses are rare.
A trailer tells the receiver how long a block is and not which one, and data that were collected
stay when their SEQ does not come, since BOT does not throw them away (dkp.c:309-314).
A further instance shows it, `tlc -config UrpLosses.cfg MCUrp.tla` (the circuit that has carried
6, three messages of one length, two losses), which violates `EchoesTrue`: what the
window has left behind the reader has been given.  Block 7 is accepted, and the read queue is full when the data of 8
come; 8 is rejected, and the data and the trailer of 9 are collected.  Now the SEQ of 9 is lost,
and so are the data of 8 that are sent again.  The trailer and the SEQ of 8 find the data of 9,
of the same length: they are accepted as 8 (348-350), the echo says that 8 was given to the
reader, and the sender frees it.  Without a full queue three losses do it: the data of 7, the SEQ of 8,
and the data of 7 sent again.  What holds whatever is lost is what the numbers say,
`WindowOK` and `NumbersAccepted`; these are proved.

Fairness (`FairSpec`): the queues are serviced, the line delivers, and the timer
runs (weak fairness).  `Recv` and `Dkpisrv` are strongly fair because `MaxBack` disables
them again and again, which is the bound's doing and not the code's.

## Proofs

A theorem holds for every value of the constants that the module's named
assumption allows: any processes, buffers, blocks, inodes, names and signals, and,
where the code has them, any faults.  The assumptions say what the kernel's
configuration guarantees: the sets that are counted are finite (the process table and a
directory have a size), special
values (`NoBuf`, `NODEV`, pid 0) are not members, the free list starts with every
buffer once, the numbers of the signals are those of `signal.h`, `XW` is at most
three.  TLC evaluates them in every run.

| module | theorem | statement |
|---|---|---|
| `BufCacheProofs` | `TypeCorrect` | `Spec => []TypeOK` |
| | `FreeListsCorrect` | `Spec => []FreeListsOK` |
| | `BuffersOwned` | `Spec => []OneOwner` |
| | `NoDupIodone` | `Spec => []RequestsOK` |
| | `WakeupsKept` | `Spec => []NoLostWakeup` |
| `BufCacheContent` | `OneCopy` | `Spec => []UniqueBlock` |
| | `WritesDurable` | `Spec => []SyncWriteDurable` |
| | `BlockAsked` | `Spec => []RightBlock`, if `"async" \notin Faulty` |
| `PathNamesProofs` | `UniqueInodes` | `Spec => []UniqueInode` |
| | `OpenFilesKept` | `Spec => OpenFileKept` (a property of steps) |
| `VolumeProofs` | `LinksCounted` | `Spec => []Names`, the inductive invariant of the links, if `Lasting` |
| | `EntriesTrue` | `Spec => []DiskEntriesTrue`, if `Lasting` |
| | `LinksCover` | `Spec => []DiskLinksCover`, if `Lasting` |
| | `BlocksKnown` | `Spec => [](Base /\ Blocks)`, that of the blocks |
| | `OneOwner` | `Spec => []BlocksOwned` |
| | `NoDuplicates` | `Spec => []DiskNoDuplicates`, if `Apart` |
| | `MetaClean` | `Spec => []DiskMetaClean`, if `Apart` |
| `ProcessesProofs` | `PlacesKept` | `Spec => []IInv`, the inductive invariant of the process table |
| | `QueuesSound` | `Spec => []QueueOK` |
| | `ResultsTrue` | `Spec => ResultTrue` (a property of steps) |
| | `WaitsTold` | `Spec => []WaitNotices`, if `TtySignals \cap Stops = {}` |
| | `SleepersHear` | `Spec => []SleeperHears` |
| | `SignalsHeard` | `Spec => []SignalsWake`, if `Sent \cap Stops = {}` |
| | `KilledOnly` | `Spec => KilledByFatal` (a property of steps), if `Sent \cap Stops \subseteq {SIGSTOP}` |
| `StreamsProofs` | `StreamIsKept` | `Spec => []StreamKept` |
| | `OneIoctlAtATime` | `Spec => []OneIoctl` |
| `StreamsQueues` | `NothingStranded` | `Spec => []NotStranded` |
| | `OutputIsKept` | `Spec => []OutputKept` |
| `UrpProofs` | `WindowKept` | `Spec => []WindowOK` |
| | `AcksTrue` | `Spec => []NumbersAccepted` |

Every condition in this table is a known divergence of the code (above): the
property is false without it, and what remains is what the code does achieve.
Each proof has one lemma per operator of the model that does something (what
`Brelse`, `Wakeup`, `Post`, `Ifree`, `Rack` keep and change), one per way in which
several actions disturb the invariant alike, and one step per action.

### Buffer cache

`TypeOK` is not inductive alone: that `bp[p]` is a buffer where the code
dereferences it depends on `pc`, which `PcOK` adds (`TypeInv == TypeOK /\ PcOK`).
The lists, the owners and the requests are proved together, for each needs the
others: taking a buffer off its list keeps the lists right because a free
buffer is not owned, and the interrupt may release a buffer only because nobody
holds it.  `Settled` is the strengthening: a buffer marked `B_ASYNC` is busy, and
neither a buffer that a process is about to hand to the driver nor its read-ahead
buffer is already there.  `Own == FreeListsOK /\ OneOwner /\ RequestsOK /\ Settled` is
inductive relative to `TypeInv`.

*Wakeups.*  `Waiting` adds two things to `NoLostWakeup`.  `Awaits` says in which
routine a process sleeps for what: for the free list in `getblk` and `geteblk`, for a
buffer with `B_BUSY` and `B_WANTED` in `getblk`, for a transfer under way in
`iowait`.  `Pending` says that a process on its way to `iowait` has a transfer that is
under way or over; without it the sleep in `iowait` could begin after the
interrupt that was to end it.  `StepWaiting` is the lemma of the others: a step of p
leaves a sleeper alone if it takes away none of the marks, or wakes it up.

*Contents.*  `Content` follows the block a process has asked for: `Keeps` from the
hash search until it gives the buffer back, `FlagsSound` what `B_DELWRI`, `B_DONE`,
`B_ERROR` and `B_INVAL` say of one another, `Ordered` that of two requests for a block
the earlier one is for a buffer that was invalidated since, `Durable` what
`SyncWriteDurable` is after the wait and before it, `Alone` that the last close of a
device meets no other user.  That `UniqueBlock` is kept is a statement about a
process that has slept: between the search that finds nothing and the assignment
of the block in `getblk` no other process runs, and a wait starts the search again.
`BlockAsked` needs that no asynchronous transfer fails, for the reason given
above; the rest of `Content` holds without, with `Asked` weakened to what a
failed transfer leaves.

### InodeTable and PathNames

The theorems are about all calls, any volume and any faults.  The
routines of the table are called from one another up to six deep, and what a
local of a process means depends on who is waiting below, so the invariant is
about the kernel stack first.  `Chain` says that every frame of `u[p].stk` is a
place from which the routine above it is called (`Callers`), and `Fits` what the locals are
there.  A process has its references in `ip`, `dp`, `dip`, `tgt` and its open
files; `HasIp`, `HasDp` and `HasDip` say at which places the first three count,
the last two of them by the bottom of the stack alone (`Bottom`), so a call and a return change
at most one of them.

`IInv == TypeOK /\ (\A p \in Procs : Placed(p)) /\ Covered /\ Slotted`.
`Covered` says that `i_count` is at least the number of references; it cannot say
more, for `mknod` returns without `iput` after an error.  `Alone` is what `Covered` is needed for:
the process that loads an inode, or puts its last reference back, has it locked
and the count is one, so nobody else refers to it, and `iput` may take it out
of the table after it has slept in `iupdat` and `itrunc`.  `Slotted` is
`UniqueInode` without the types: `iget` that finds no slot fills one without a sleep in between.
`Fresh` says that the processor is not given away between `ialloc` and its caller, so that a
new inode is still free then.  `StepInv` is the lemma of all steps: the process
that moves keeps the counts (`CountsKept`: what it takes it counts) and
arrives at a place that fits.

`OpenFilesKept` follows: what changes the number or the kind of a slot is `iget` of a
free one, `iput` of the last reference, and the making of an inode that was
free, and none of the three is of a slot with an open file.

### Volume

A crash may come at any moment, so an invariant over the disk's variables
is a statement about every crash.

`Base == TypeOK /\ PcOK /\ Held` holds of any mix of the calls: where a process is tells which
inode it has, that the lock of the directory keeps the entry it works on, and that an inode
that is being given up (`Sole`) has no other reference.

`Names == Base /\ Live /\ Counted /\ Named` is inductive if `Lasting`: no process links while
another one unlinks.  `Counted` is the accounting: `i_nlink` in core is the number
of entries plus the calls that have raised it without having written
the entry and those that have cleared the entry and not lowered it; what has been written to the cache
and the disk is at least the entries.  `Named` says that inode, cache and disk
agree on whose inode it is whenever an entry names it, which is what writing the inode first and
waiting for it is for, and that what `link` has found is still in the directory when it gets
the inode (`Lasts`).  This is what `Lasting` is for, and what the code does not see to:
`VolumeRace.cfg` shows the step that breaks it.  `Live`: a free inode has no links.

`Blocks == Locking /\ Owned /\ Clean /\ (Apart => Written)` is inductive together
with `Base`, for inodes that `link` or `open` get after they were freed do no harm to the blocks.
`Owned` is the partition of the blocks into files, the free list and
the hands of a process; it holds whatever the locks do.  `Written` says that disk
and cache know no block of a file (`Noted`) that the file does not have in core, and
none at all while its blocks are freed.  It needs the lock: if `link` takes the lock away
from a truncation, `update` may write the inode in the middle of it.  `Apart` (no
instance has `link` and truncation in one mix) is therefore a hypothesis of the two
last theorems, and run `VolumeLink` shows the property violated without it.

### Processes

`IInv == TypeOK /\ Orderly`: where a process is (`pc`, `call`) tells its state, its
channel and what is left of its seconds (`Place`).  `QueuesSound` and `ResultsTrue` follow
from it; `due`, the ghost of the time limit, is `p_tsleep` as long as the
sleep lasts, and 0 when `STIMO` is set.

`Notices` is for `wait`: a parent on its own channel, or between the scan and the
sleep, has no zombie and no stopped child it has not been told of.  The
interrupts that may come in between can only stop a child by a signal from a terminal, hence the
hypothesis.

`SigInv` relates the signals of a process to its place.  `Heeds` says that
an interruptible sleeper has no signal pending that should have ended its sleep,
`Going` that one whose `p_cursig` is SIGSTOP is stopped or will look again, because
SIGCONT or SIGKILL is pending, before it comes to `psig`.  `SleepersHear` is what holds with
all signals: it excepts the process that was stopped on its way into the
sleep.  A scan of the signals (`Looked`) stops at the first one, so `SignalsWake`
needs that no stop signal is sent, and `KilledOnly` that SIGSTOP is the only one.

### Streams

The theorems are for any number of processes, any mix of calls and queues of any
size.  Two are about the head and the files (`StreamsProofs`).  Most of the module is below the head, and
what it does there is settled once: an operation on a queue, the discipline and
the line leaves head, sleepers and files alone (`Framed`), or wakes sleepers and
hands the head an answer that somebody waits for (`Quiet`).  `GoodQuiet` says
that such a step cannot disturb the invariant; the rest of the proof is the
calls.

`SInv == Good(k, pc, 0)`.  `Good(s, pcs, n)` is about a stream in the middle of a call:
n processes have left it that `count` still has, which is 0 between the steps and 1 in
`stexit` and in `stclose` before they look at the count.  That `count` is *exact*
is what makes it inductive: `stexit` shuts the stream down when the count
comes to 0 after a hangup, and only the exact count tells that nobody is inside then.
`FilesFit` says that an open file is one of this stream and not of the one
before a hangup, except while its process is in `stopen` and has yet to look.
`OpenerAlone` is needed for the opening that fails: it frees the stream, which is
right because every other process with a file of it is still waiting for `STWOPEN`.
`Asleep` is needed for signals: `Interrupted` may then take a sleeper out of the routine it
is in and of no other.  `OneHolder` is `OneIoctl` with the flag: `IOCWAIT` is set
exactly while one process is between sending its ioctl and taking the answer, and an
answer is there only for it.

The other two are about what is in the queues (`StreamsQueues`), and need
`QInv`: `SInv`, what flows (`Flow`), and that the line is open for those who use it (`Opened`).
`Flow` has four parts.

* `Balanced`, the flow control.  `NotStranded` alone is not inductive: `putq` enables a
  queue only when `QWANTR` is set, so that a queue with a discipline on it, *empty or
  not*, must be wanted for reading, enabled, served, or ahead of it is a queue that is
  full and has `QWANTW` (`Fed`); a queue that is full has `QWANTW` (`Asks`), for
  `ttyosrv` and `ttyinsrv` look at `QFULL` and then leave; and `QWANTW` means more than the low
  water mark is left (`Marked`), so that `getq` will pass the mark and enable the queue behind.
  `ttyosrv` looks at `QFULL`, and the interrupts of the line come in between before
  it puts its block back: what it saw (`srv.full`) is kept as a promise, that by then the
  queue has been enabled or the full queue will enable it.
* `Ordered`: what has been sent, the block in transmission, the line's queue, the block
  that `ttyosrv` holds and its queue come in this order, each queue is sorted, and these and
  the blocks thrown away are all that was written.  `DzStop`, `ttyosrv` and `dzstart`
  each move one block between neighbours.
* `Loose`: `TIMEOUT` is set only with a callout pending, and a line that is closed has
  an empty queue and no discipline: `dzstart` would leave there what was put.  This is
  why `Opened` is needed: whoever is past `stopen` has an open line under it.
* `Busy`: the line's queue waits for something.  It is not true between `putq` and
  `dzstart`, therefore it is apart, and `DzstartSettled` says that `dzstart` restores it
  from any state where the other three hold.

### Urp

`UInv == WindowOK /\ InOrder /\ Numbered`: the window's numbers are those of the
messages less a multiple of 8.  It holds whatever number a reply carries, for
`dkprack` looks only in the window: losses, late replies and wrong ones cannot
make the ring of buffers inconsistent.

That a reply is *true* takes `AInv` on top.  A number modulo 8 means
the last message sent with this number (`Val`).  `RepliesOK`: all numbers on
the way back, in `lastecho` and in the read queue mean messages between the
last one the window has left behind and the last one accepted, in this order,
echoes after the data they follow.  `NumbersOK`: a number on the way forth is less
than `XW` behind what was accepted before it, so that "the number after the last one" is the
next message and never the one 8 before.  `Under` is the property
itself, with the message that `iseq` means in the place of the count, `OpensOK` that the
initialisation precedes all numbers.  `XW <= 3` is what
the argument needs of the modulus: replies may be a window late and a window early.

`AcksTrue` is about numbers and about how many messages the reader has, for blocks of any length
from 0 to 256 bytes and any losses.  That the data accepted under a number are those
of its message is not proved and not true, as `UrpLosses.cfg` shows.

### What is only model-checked

* `SleeperWakes`, `KillKills`, `TimeoutReturns`, `CallsReturn` and `ImplementsCircuit` are or contain liveness under fairness, which is out of the provers' reach.  What is safety
  in `ImplementsCircuit` needs a bound on the losses (`UrpLosses.cfg`), which no assumption of `Urp` sets.
* `ImplementsBlockStore`: the mapping takes the requests of valid buffers out of
  the queue with `SelectSeq`, a recursion over data, which the provers cannot unfold.
* `NotStuck`: a counting argument over the processes that wait for each other, under
  a condition on the number of buffers that the specification does not have.
* `LocksOK`, `CountsReferences`, `NamedInodeLive`, `LinksCovered` and `QuietCounts` of `PathNames`:
  each holds of some calls or without faults only, and needs an accounting of its
  own (of the locks, of the exact references, of the entries) on top of `IInv`.
* `SleeperHeard` of `Streams` is true of the instance and not of every mix of calls: a second
  reader is not woken by the `putbq` of a partial read, and a discipline pushed under a
  sleeping writer takes away the queue that would wake it (above, under runs).

## Not modelled

* mounts (`fsmount`, `sumount` against `update`): only the superblock's buffer is
  here.  The two hazards of it that are known are listed with no property;
* the chain of free blocks, `s_flock` and the bit map of `alloc.c`, and failing
  writes in `Volume`;
* resource maps, the sorted callout list, shared text entries, `physio` and the
  swap headers: sequential or small, the next candidates;
* virtual memory, swapping, drivers of disks and tapes, machine code: what they do
  is to registers and page tables of the VAX, which the source does not define;
* TCP/IP, remote files and their server, mux and mpx, uucp: protocols with a
  second program at the other end; candidates after `Urp`;
* commands, libraries and the software of the Blit: sequential programs.

`PROJECT.json` lists every part with what of it is left out.

## Plan

1. Proofs: `LocksOK`, under the calls that keep the locks, and the exact counts
   (`CountsReferences`, `LinksCovered`) of the inode table; `NotStuck`, with the number of
   buffers as an assumption.
2. `Mounts`: `fsmount`, `sumount` and `update` over the cache's promise
   (`BlockStore`), and `FreeBlocks`: `alloc`, `free` and `s_flock`.
3. `ResourceMap`, the callout list, swap headers and `physio`.
4. The packet protocol of mux and the g protocol of uucp over a lossy line.
