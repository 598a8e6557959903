-------------------------- MODULE BufCacheContent --------------------------
(***************************************************************************)
(* What the cache promises its callers, for every number of processes,     *)
(* buffers and blocks: no block has two buffers, a buffer is the one that  *)
(* was asked for, and what bwrite has waited for is on the disk.  The      *)
(* proofs rest on who owns which buffer (BufCacheProofs).                  *)
(***************************************************************************)
EXTENDS BufCacheProofs

-----------------------------------------------------------------------------
(* Which block is in which buffer.  A process keeps the block it asked     *)
(* for: while it holds the buffer, nobody can give the buffer to another   *)
(* block, invalidate it, or write the block from another buffer.           *)

\* Without errors of asynchronous transfers, no buffer loses its block while
\* a process is between finding it and taking it.
AsyncSafe == "async" \notin Faulty
Asked(b, x) == blk[b] = x \/ (~AsyncSafe /\ blk[b] = NoBlk)

\* What the flags of a buffer say of each other and of its block.
FlagsSound(b) ==
  /\ "DELWRI" \in flags[b] => "DONE" \in flags[b] /\ "INVAL" \notin flags[b]
  /\ "ERROR" \in flags[b] => "DONE" \in flags[b]
  /\ AsyncSafe =>
       /\ "DELWRI" \in flags[b] => "ERROR" \notin flags[b] /\ blk[b] \in Blks
       /\ InFlight(b) => blk[b] \in Blks
       /\ "ERROR" \in flags[b] /\ "BUSY" \notin flags[b] => blk[b] = NoBlk

\* The buffers of p are valid, and have the blocks it asked for.
Keeps(p) ==
  /\ ret[p] = "geteblk" => blkno[p] = NoBlk
  /\ ret[p] \in {"bread", "breada", "readahead", "getblk", "update", "bwrite"} =>
       blkno[p] \in Blks
  /\ ret[p] = "readahead" => rablkno[p] \in Blks
  /\ bp[p] \in Bufs => /\ Asked(bp[p], blkno[p])
                       /\ ret[p] # "geteblk" => "INVAL" \notin flags[bp[p]]
                       /\ AsyncSafe /\ Resting(p) /\ ~err[p] => "ERROR" \notin flags[bp[p]]
  /\ rabp[p] \in Bufs => /\ Asked(rabp[p], rablkno[p])
                         /\ "INVAL" \notin flags[rabp[p]]
                         /\ AsyncSafe => "ERROR" \notin flags[rabp[p]]
  /\ pc[p] = "hit" => /\ cpu = p
                      /\ Asked(cand[p], Want(p))
                      /\ "INVAL" \notin flags[cand[p]]
  /\ pc[p] \in {"getblk", "hit"} =>
       ret[p] \in {"bread", "breada", "readahead", "getblk", "update"}
  /\ pc[p] = "readahead" => ret[p] = "breada"
  /\ pc[p] = "started" => ret[p] # "none"
  /\ ret[p] \in {"bflush", "close"} => pc[p] \in {"bflush", "started"}

\* The last close of a device does not sleep: nobody else comes to use it.
Alone(p) ==
  ret[p] = "close" => /\ cpu = p
                      /\ \A q \in Procs \ {p} : ~Using(q, fdev[p])
                      /\ fdev[p] \in Devs
                      /\ \A x \in Super : DevOf[x] = fdev[p] => mbuf[x] = NoBuf

\* Only invalidated buffers have requests before another one for the block.
Ordered == \A i, j \in DOMAIN ioq :
             i < j /\ blk[ioq[i]] = blk[ioq[j]] /\ blk[ioq[j]] \in Blks =>
               "INVAL" \in flags[ioq[i]]

\* What bwrite has waited for is on the disk, and nobody can overwrite it.
Durable(p) ==
  pc[p] = "iowait" /\ ret[p] = "bwrite" =>
    /\ "READ" \notin flags[bp[p]]
    /\ flags[bp[p]] \cap {"DONE", "ERROR"} = {"DONE"} =>
         /\ blk[bp[p]] = blkno[p]
         /\ disk[blkno[p]] = data[bp[p]]
         /\ \A c \in ToSet(ioq) : blk[c] # blkno[p]

\* The buffer of a mounted superblock stays in the cache.
Mounted ==
  /\ \A x \in Super : mbuf[x] # NoBuf =>
       /\ Asked(mbuf[x], x)
       /\ "LOCKED" \in flags[mbuf[x]] /\ "INVAL" \notin flags[mbuf[x]]
  /\ \A k \in {"AGE", "LRU"} : \A b \in ToSet(fl[k]) :
       "LOCKED" \in flags[b] => "INVAL" \in flags[b]
  /\ \A p \in Procs : ret[p] = "update" => blkno[p] \in Super /\ mbuf[blkno[p]] # NoBuf

Content ==
  /\ \A b \in Bufs : FlagsSound(b)
  /\ UniqueBlock
  /\ Ordered
  /\ \A p \in Procs : Keeps(p) /\ Alone(p) /\ Durable(p)
  /\ Mounted

\* What the driver has are buffers.
LEMMA InFlightBufs == ASSUME TypeOK, NEW c, InFlight(c) PROVE c \in Bufs
BY DEF TypeOK, InFlight, ToSet

\* Whatever p does with one buffer it holds or finds free, the others keep
\* theirs.
LEMMA OthersKeep ==
  ASSUME TypeInv, Content, NEW p \in Procs, NEW q \in Procs \ {p},
         cpu \in {NoProc, p}, NEW d,
         \A c \in Bufs \ {d} : flags'[c] = flags[c] /\ blk'[c] = blk[c] /\ data'[c] = data[c],
         ~Holds(q, d), disk' = disk,
         pc'[q] = pc[q], ret'[q] = ret[q], blkno'[q] = blkno[q], rablkno'[q] = rablkno[q],
         bp'[q] = bp[q], rabp'[q] = rabp[q], err'[q] = err[q],
         \A c \in ToSet(ioq') \ {d} : InFlight(c),
         d \in ToSet(ioq') => /\ d \in Bufs /\ blk'[d] \in {blk[d], NoBlk}
                              /\ InFlight(d) \/ "INVAL" \notin flags[d]
  PROVE  Keeps(q)' /\ Alone(q)' /\ Durable(q)'
<1>1. Keeps(q) /\ Alone(q) /\ Durable(q)
  BY DEF Content
<1>2. cpu # q
  BY ConstAssumption
<1>3. pc[q] # "hit" /\ ret[q] # "close"
  BY <1>1, <1>2 DEF Keeps, Alone
<1>4. bp[q] # d /\ rabp[q] # d
  BY DEF Holds
<1>5. Keeps(q)'
  BY <1>1, <1>3, <1>4 DEF Keeps, Asked, Resting
<1>6. Alone(q)'
  BY <1>3 DEF Alone
<1>7. Durable(q)'
  <2> SUFFICES ASSUME pc[q] = "iowait", ret[q] = "bwrite"
               PROVE  Durable(q)'
    BY DEF Durable
  <2>1. bp[q] \in Bufs /\ bp[q] \in Bufs \ {d}
    BY <1>4 DEF TypeInv, PcOK
  <2>2. blkno[q] \in Blks /\ "INVAL" \notin flags[bp[q]]
    BY <1>1, <2>1 DEF Keeps
  <2>3. ASSUME NEW c \in ToSet(ioq'), blk[bp[q]] = blkno[q],
               \A e \in ToSet(ioq) : blk[e] # blkno[q]
        PROVE  blk'[c] # blkno[q]
    <3>1. CASE c = d
      <4>1. d \in ToSet(ioq')
        BY <3>1
      <4>2. d \in Bufs /\ blk'[d] \in {blk[d], NoBlk} /\ (InFlight(d) \/ "INVAL" \notin flags[d])
        BY <4>1
      <4>3. CASE InFlight(d)
        BY <2>2, <2>3, <3>1, <4>2, <4>3, ConstAssumption DEF InFlight
      <4>4. CASE "INVAL" \notin flags[d]
        <5>1. blk[d] # blkno[q]
          BY <1>4, <2>1, <2>2, <2>3, <4>2, <4>4 DEF Content, UniqueBlock, Matches
        <5> QED BY <2>2, <3>1, <4>2, <5>1, ConstAssumption
      <4> QED BY <4>2, <4>3, <4>4
    <3>2. CASE c # d
      <4>1. c \in ToSet(ioq) /\ c \in Bufs
        <5>1. InFlight(c)
          BY <3>2
        <5> QED BY <5>1, InFlightBufs DEF InFlight, TypeInv
      <4> QED BY <2>3, <3>2, <4>1
    <3> QED BY <3>1, <3>2
  <2> QED BY <1>1, <2>1, <2>2, <2>3 DEF Durable
<1> QED BY <1>5, <1>6, <1>7

\* A step of p that concerns one buffer d keeps the blocks in their buffers.
LEMMA StepContent ==
  ASSUME TypeInv, TypeInv', Own, Content, NEW p \in Procs, cpu \in {NoProc, p},
         NEW d \in Bufs \cup {NoBuf},
         \A c \in Bufs \ {d} : flags'[c] = flags[c] /\ blk'[c] = blk[c] /\ data'[c] = data[c],
         \A q \in Procs \ {p} :
            /\ ~Holds(q, d) \/ d = NoBuf
            /\ pc'[q] = pc[q] /\ ret'[q] = ret[q] /\ blkno'[q] = blkno[q]
            /\ rablkno'[q] = rablkno[q] /\ bp'[q] = bp[q] /\ rabp'[q] = rabp[q]
            /\ err'[q] = err[q],
         disk' = disk,
         d \in Bufs =>
           /\ FlagsSound(d)'
           /\ blk'[d] \in {blk[d], NoBlk}
           /\ "INVAL" \in flags'[d] <=> "INVAL" \in flags[d]
           /\ "LOCKED" \in flags[d] => "LOCKED" \in flags'[d] /\ blk'[d] = blk[d],
         \/ ioq' = ioq
         \/ /\ ioq' = Append(ioq, d) /\ d \in Bufs /\ ~InFlight(d)
            /\ "INVAL" \notin flags[d] /\ blk'[d] = blk[d],
         Keeps(p)', Alone(p)', Durable(p)',
         \A k \in {"AGE", "LRU"} : \A c \in ToSet(fl'[k]) :
            \/ c # d /\ c \in ToSet(fl[k])
            \/ c = d /\ ("LOCKED" \in flags'[d] => "INVAL" \in flags'[d]),
         ret'[p] = "update" => blkno'[p] \in Super /\ mbuf[blkno'[p]] # NoBuf,
         \/ mbuf' = mbuf
         \/ \E x \in Super : /\ mbuf' = [mbuf EXCEPT ![x] = d]
                             /\ d \in Bufs /\ Asked(d, x)' /\ "LOCKED" \in flags'[d]
                             /\ "INVAL" \notin flags[d]
  PROVE  Content'
<1>1. NoBuf \notin Bufs /\ \A c \in ToSet(ioq) : c \in Bufs
  BY ConstAssumption DEF TypeInv, TypeOK, ToSet
<1>2. \A c : c \in ToSet(ioq') <=> InFlight(c) \/ (ioq' # ioq /\ c = d)
  <2>1. CASE ioq' = ioq
    BY <2>1 DEF InFlight
  <2>2. CASE ioq' # ioq
    <3>1. ioq' = Append(ioq, d) /\ d \in Bufs /\ ioq \in Seq(Bufs)
      BY <2>2 DEF TypeInv, TypeOK
    <3>2. ToSet(ioq') = ToSet(ioq) \cup {d}
      BY <3>1, AppendSet
    <3> QED BY <2>2, <3>2 DEF InFlight
  <2> QED BY <2>1, <2>2
<1>3. ASSUME NEW c \in Bufs PROVE FlagsSound(c)'
  <2>1. CASE c = d
    BY <2>1
  <2>2. CASE c # d
    <3>1. FlagsSound(c) /\ flags'[c] = flags[c] /\ blk'[c] = blk[c]
      BY <2>2 DEF Content
    <3>2. InFlight(c)' <=> InFlight(c)
      BY <1>2, <2>2 DEF InFlight
    <3> QED BY <3>1, <3>2 DEF FlagsSound
  <2> QED BY <2>1, <2>2
<1>4. \A c \in Bufs : /\ blk'[c] \in {blk[c], NoBlk}
                      /\ "INVAL" \in flags'[c] <=> "INVAL" \in flags[c]
  OBVIOUS
<1>5. UniqueBlock'
  <2>1. \A c \in Bufs : \A x \in Blks : Matches(c, x)' => Matches(c, x)
    BY <1>4, ConstAssumption DEF Matches
  <2> QED BY <2>1 DEF Content, UniqueBlock
<1>6. Ordered'
  <2>1. CASE ioq' = ioq
    <3>1. \A i \in DOMAIN ioq : ioq[i] \in Bufs
      BY DEF TypeInv, TypeOK
    <3> QED BY <1>4, <2>1, <3>1, ConstAssumption DEF Content, Ordered
  <2>2. CASE ioq' # ioq
    <3>1. /\ ioq' = Append(ioq, d) /\ d \in Bufs /\ ~InFlight(d)
          /\ "INVAL" \notin flags[d] /\ blk'[d] = blk[d]
      BY <2>2
    <3>2. SUFFICES ASSUME NEW i \in DOMAIN ioq', NEW j \in DOMAIN ioq', i < j,
                          blk'[ioq'[i]] = blk'[ioq'[j]], blk'[ioq'[j]] \in Blks
                   PROVE  "INVAL" \in flags'[ioq'[i]]
      BY DEF Ordered
    <3>3. /\ DOMAIN ioq' = 1 .. Len(ioq) + 1 /\ DOMAIN ioq = 1 .. Len(ioq) /\ Len(ioq) \in Nat
          /\ ioq'[Len(ioq) + 1] = d
          /\ \A k \in 1 .. Len(ioq) :
               ioq'[k] = ioq[k] /\ ioq[k] \in Bufs /\ InFlight(ioq[k])
      BY <3>1 DEF TypeInv, TypeOK, InFlight, ToSet
    <3>4. i \in 1 .. Len(ioq) /\ ioq'[i] = ioq[i] /\ ioq[i] \in Bufs /\ InFlight(ioq[i])
      BY <3>2, <3>3
    <3>5. ioq[i] # d /\ blk'[ioq[i]] = blk[ioq[i]]
      BY <3>1, <3>4
    <3>6. CASE j = Len(ioq) + 1
      <4>1. blk[ioq[i]] = blk[d] /\ blk[d] \in Blks
        BY <3>1, <3>2, <3>3, <3>4, <3>5, <3>6, ZenonT(60)
      <4>2. "INVAL" \in flags[ioq[i]]
        BY <3>1, <3>4, <3>5, <4>1 DEF Content, UniqueBlock, Matches
      <4> QED BY <1>4, <3>4, <4>2, SMTT(60)
    <3>7. CASE j \in 1 .. Len(ioq)
      <4>1. ioq[j] # d /\ blk'[ioq[j]] = blk[ioq[j]]
        BY <3>1, <3>3, <3>7, ZenonT(60)
      <4>2. blk[ioq[i]] = blk[ioq[j]] /\ blk[ioq[j]] \in Blks
        BY <3>2, <3>3, <3>4, <3>5, <3>7, <4>1
      <4>3. i \in DOMAIN ioq /\ j \in DOMAIN ioq /\ i < j
        BY <3>2, <3>3, <3>4, <3>7
      <4>4. "INVAL" \in flags[ioq[i]]
        BY <4>2, <4>3 DEF Content, Ordered
      <4> QED BY <1>4, <3>4, <4>4
    <3> QED BY <3>3, <3>6, <3>7
  <2> QED BY <2>1, <2>2
<1>7. ASSUME NEW q \in Procs \ {p} PROVE Keeps(q)' /\ Alone(q)' /\ Durable(q)'
  <2>1. CASE d \in Bufs
    <3>1. \A c \in ToSet(ioq') \ {d} : InFlight(c)
      BY <1>2
    <3>2. d \in ToSet(ioq') => /\ d \in Bufs /\ blk'[d] \in {blk[d], NoBlk}
                               /\ InFlight(d) \/ "INVAL" \notin flags[d]
      BY <1>1, <1>2, <2>1
    <3>3. ~Holds(q, d)
      BY <1>1, <2>1
    <3> QED BY <3>1, <3>2, <3>3, OthersKeep
  <2>2. CASE d \notin Bufs
    <3> DEFINE e == CHOOSE e : e \notin Bufs \cup {NoBuf}
    <3>1. e \notin Bufs \cup {NoBuf}
      BY <1>1, NoSetContainsEverything
    <3> HIDE DEF e
    <3>2. ~Holds(q, e) /\ e \notin ToSet(ioq')
      BY <1>1, <1>2, <2>2, <3>1 DEF Holds, TypeInv, TypeOK, InFlight
    <3>3. \A c \in ToSet(ioq') \ {e} : InFlight(c)
      BY <1>2, <2>2
    <3> QED BY <2>2, <3>1, <3>2, <3>3, OthersKeep
  <2> QED BY <2>1, <2>2
<1>8. Mounted'
  <2>1. ASSUME NEW x \in Super, mbuf'[x] # NoBuf
        PROVE  /\ Asked(mbuf[x], x)'
               /\ "LOCKED" \in flags'[mbuf'[x]] /\ "INVAL" \notin flags'[mbuf'[x]]
    <3>0. mbuf \in [Super -> Bufs \cup {NoBuf}] /\ x \in Super
      BY DEF TypeInv, TypeOK
    <3>1. CASE mbuf'[x] = mbuf[x]
      <4>1. /\ Asked(mbuf[x], x) /\ mbuf[x] \in Bufs
            /\ "LOCKED" \in flags[mbuf[x]] /\ "INVAL" \notin flags[mbuf[x]]
        BY <2>1, <3>0, <3>1 DEF Content, Mounted
      <4>2. blk'[mbuf[x]] = blk[mbuf[x]] /\ "LOCKED" \in flags'[mbuf[x]]
        BY <4>1
      <4> QED BY <1>4, <3>1, <4>1, <4>2 DEF Asked
    <3>2. CASE mbuf'[x] # mbuf[x]
      <4>1. mbuf'[x] = d /\ d \in Bufs /\ Asked(d, x)' /\ "LOCKED" \in flags'[d]
            /\ "INVAL" \notin flags[d]
        BY <3>0, <3>2
      <4> QED BY <1>4, <4>1 DEF Asked
    <3> QED BY <3>1, <3>2
  <2>2. \A k \in {"AGE", "LRU"} : \A b \in ToSet(fl'[k]) :
           "LOCKED" \in flags'[b] => "INVAL" \in flags'[b]
    <3> SUFFICES ASSUME NEW k \in {"AGE", "LRU"}, NEW b \in ToSet(fl'[k]),
                        "LOCKED" \in flags'[b]
                 PROVE  "INVAL" \in flags'[b]
      OBVIOUS
    <3>1. k \in Queue /\ b \in Bufs
      BY DEF TypeInv, TypeOK, Queue, ToSet
    <3> QED BY <3>1 DEF Content, Mounted
  <2>3. \A q \in Procs : ret'[q] = "update" => blkno'[q] \in Super /\ mbuf'[blkno'[q]] # NoBuf
    <3> SUFFICES ASSUME NEW q \in Procs, ret'[q] = "update"
                 PROVE  blkno'[q] \in Super /\ mbuf'[blkno'[q]] # NoBuf
      OBVIOUS
    <3>1. blkno'[q] \in Super /\ mbuf[blkno'[q]] # NoBuf
      BY SMTT(60) DEF Content, Mounted, TypeInv, TypeOK
    <3>2. mbuf'[blkno'[q]] = mbuf[blkno'[q]] \/ (mbuf'[blkno'[q]] = d /\ d \in Bufs)
      <4>1. mbuf \in [Super -> Bufs \cup {NoBuf}]
        BY DEF TypeInv, TypeOK
      <4>2. mbuf' = mbuf \/ \E x \in Super : mbuf' = [mbuf EXCEPT ![x] = d] /\ d \in Bufs
        OBVIOUS
      <4>3. CASE mbuf' = mbuf
        BY <4>3
      <4>4. ASSUME NEW x \in Super, mbuf' = [mbuf EXCEPT ![x] = d], d \in Bufs
            PROVE  mbuf'[blkno'[q]] = mbuf[blkno'[q]] \/ (mbuf'[blkno'[q]] = d /\ d \in Bufs)
        BY <3>1, <4>1, <4>4
      <4> QED BY <4>2, <4>3, <4>4
    <3> QED BY <1>1, <3>1, <3>2
  <2> QED BY <2>1, <2>2, <2>3 DEF Mounted
<1> QED BY <1>3, <1>5, <1>6, <1>7, <1>8 DEF Content

\* A system call that starts has not got a buffer, and asks for blocks.
LEMMA EnterContent ==
  ASSUME TypeInv, TypeInv', Own, Content, NEW p \in Procs, UserStep(p)
  PROVE  Content'
<1>1. ASSUME NEW c \in Caller \ {"none", "readahead", "bwrite"},
             NEW l \in {"getblk", "geteblk", "bflush", "readahead"}, NEW x, NEW ra, NEW e,
             Enter(p, c, l, x, ra, e),
             l = "getblk" => c \in {"bread", "breada", "getblk", "update"},
             l = "readahead" => c = "breada",
             c = "close" => l = "bflush", c = "bflush" => l = "bflush",
             c = "geteblk" => x = NoBlk,
             c \in {"bread", "breada", "getblk", "update"} => x \in Blks,
             c = "update" => x \in Super /\ mbuf[x] # NoBuf,
             c = "close" =>
               /\ e \in Devs /\ \A q \in Procs \ {p} : ~Using(q, e)
               /\ \A y \in Super : DevOf[y] = e => mbuf[y] = NoBuf
      PROVE  Content'
  <2>1. /\ pc[p] = "user" /\ cpu = NoProc /\ cpu' = p
        /\ pc'[p] = l /\ ret'[p] = c /\ blkno'[p] = x /\ rablkno'[p] = ra /\ fdev'[p] = e
        /\ UNCHANGED <<flags, blk, data, fl, ioq, disk, bp, rabp, mbuf>>
        /\ \A q \in Procs \ {p} : /\ pc'[q] = pc[q] /\ ret'[q] = ret[q]
                                  /\ blkno'[q] = blkno[q] /\ rablkno'[q] = rablkno[q]
                                  /\ err'[q] = err[q]
    BY <1>1 DEF Enter, Goto, TypeInv, TypeOK
  <2>2. bp[p] = NoBuf /\ rabp[p] = NoBuf
    BY <2>1 DEF TypeInv, PcOK
  <2>3. Keeps(p)'
    BY <1>1, <2>1, <2>2, ConstAssumption DEF Keeps
  <2>4. Durable(p)'
    BY <1>1, <2>1 DEF Durable
  <2>5. Alone(p)'
    <3>1. ASSUME c = "close", NEW q \in Procs \ {p} PROVE ~Using(q, fdev[p])'
      BY <1>1, <2>1, <3>1 DEF Using
    <3> QED BY <1>1, <2>1, <3>1 DEF Alone
  <2>6. \A k \in {"AGE", "LRU"} : \A b \in ToSet(fl'[k]) : b # NoBuf /\ b \in ToSet(fl[k])
    BY <2>1, ConstAssumption DEF TypeInv, TypeOK, Queue, ToSet
  <2> QED BY <1>1, <2>1, <2>2, <2>3, <2>4, <2>5, <2>6, StepContent, ConstAssumption
<1> USE DEF Caller, PC
<1>2. ASSUME NEW x \in Blks, Bread(p, x) PROVE Content'
  BY <1>1, <1>2 DEF Bread
<1>3. ASSUME NEW x \in Blks, NEW ra \in Blks, Breada(p, x, ra) PROVE Content'
  BY <1>1, <1>3 DEF Breada
<1>4. ASSUME NEW x \in Blks, Getblk(p, x) PROVE Content'
  BY <1>1, <1>4, SMTT(60) DEF Getblk
<1>5. ASSUME Geteblk(p) PROVE Content'
  BY <1>1, <1>5 DEF Geteblk
<1>6. ASSUME Sync(p) PROVE Content'
  BY <1>1, <1>6 DEF Sync
<1>7. ASSUME NEW x \in Super, UpdateSuper(p, x) PROVE Content'
  BY <1>1, <1>7, ConstAssumption DEF UpdateSuper
<1>8. ASSUME NEW e \in Devs, LastClose(p, e) PROVE Content'
  BY <1>1, <1>8 DEF LastClose
<1> QED BY <1>2, <1>3, <1>4, <1>5, <1>6, <1>7, <1>8 DEF UserStep

\* What brelse does to the buffer, its flags on entry being f.
LEMMA BrelseEffect ==
  ASSUME TypeOK, NEW b \in Bufs, NEW f \in SUBSET Flag, Brelse(b, f)
  PROVE  /\ \A e \in {"READ", "DONE", "DELWRI", "INVAL", "LOCKED"} : e \in flags'[b] <=> e \in f
         /\ "ERROR" \in flags'[b] <=> "ERROR" \in f /\ "LOCKED" \notin f
         /\ blk'[b] = IF "ERROR" \in flags'[b] THEN NoBlk ELSE blk[b]
         /\ "BUSY" \notin flags'[b]
         /\ \A c \in Bufs \ {b} : flags'[c] = flags[c] /\ blk'[c] = blk[c]
         /\ \A k \in {"AGE", "LRU"} : \A c \in ToSet(fl'[k]) :
               \/ c \in ToSet(fl[k])
               \/ c = b /\ ("LOCKED" \in f => "INVAL" \in f)
<1> DEFINE g == IF "LOCKED" \in f THEN f \ {"ERROR"} ELSE f
<1>1. /\ flags' = [flags EXCEPT ![b] = g \ {"WANTED", "BUSY", "ASYNC", "AGE"}]
      /\ blk' = IF "ERROR" \in g THEN [blk EXCEPT ![b] = NoBlk] ELSE blk
  BY DEF Brelse
<1>2. /\ \A e \in {"READ", "DONE", "DELWRI", "INVAL", "LOCKED"} : e \in g <=> e \in f
      /\ "ERROR" \in g <=> "ERROR" \in f /\ "LOCKED" \notin f
  OBVIOUS
<1>3. PICK q \in Queue :
        /\ \/ fl' = [fl EXCEPT ![q] = Append(fl[q], b)]
           \/ fl' = [fl EXCEPT ![q] = Cons(b, fl[q])]
        /\ q = "LOCKED" \/ "LOCKED" \notin f \/ "INVAL" \in f
  <2> DEFINE front == g \cap {"ERROR", "INVAL"} # {}
             k == CASE front -> "AGE"
                    [] ~front /\ "LOCKED" \in g -> "LOCKED"
                    [] ~front /\ "LOCKED" \notin g /\ "AGE" \in g -> "AGE"
                    [] OTHER -> "LRU"
  <2>1. fl' = [fl EXCEPT ![k] = IF front THEN Cons(b, fl[k]) ELSE Append(fl[k], b)]
    BY DEF Brelse
  <2>2. k \in Queue
    BY DEF Queue
  <2>3. k = "LOCKED" \/ "LOCKED" \notin f \/ "INVAL" \in f
    BY <1>2
  <2> HIDE DEF k, front
  <2> QED BY <2>1, <2>2, <2>3
<1> HIDE DEF g
<1>4. \A k \in {"AGE", "LRU"} : \A c \in ToSet(fl'[k]) :
               \/ c \in ToSet(fl[k])
               \/ c = b /\ ("LOCKED" \in f => "INVAL" \in f)
  <2> TAKE k \in {"AGE", "LRU"}
  <2>1. k \in Queue /\ fl \in [Queue -> Seq(Bufs)] /\ k # "LOCKED"
    BY DEF TypeOK, Queue
  <2>2. CASE k # q
    BY <1>3, <2>1, <2>2
  <2>3. CASE k = q
    <3>1. ToSet(fl'[k]) = ToSet(fl[k]) \cup {b}
      <4>1. /\ fl[k] \in Seq(Bufs)
            /\ ToSet(Append(fl[k], b)) = ToSet(fl[k]) \cup {b}
            /\ ToSet(Cons(b, fl[k])) = ToSet(fl[k]) \cup {b}
        BY <2>1, AppendSet, ConsSet
      <4>2. fl'[k] = Append(fl[k], b) \/ fl'[k] = Cons(b, fl[k])
        BY <1>3, <2>1, <2>3
      <4> QED BY <4>1, <4>2
    <3> QED BY <1>3, <2>1, <2>3, <3>1
  <2> QED BY <2>2, <2>3
<1>5. /\ \A c \in Bufs \ {b} : flags'[c] = flags[c] /\ blk'[c] = blk[c]
      /\ flags'[b] = g \ {"WANTED", "BUSY", "ASYNC", "AGE"}
      /\ blk'[b] = IF "ERROR" \in g THEN NoBlk ELSE blk[b]
  BY <1>1 DEF TypeOK
<1> QED BY <1>2, <1>4, <1>5

\* A process that releases its buffer takes the block from nobody else.
LEMMA ReleaseContent ==
  ASSUME TypeInv, TypeInv', Own, Content, NEW p \in Procs, cpu \in {NoProc, p},
         NEW b \in Bufs, Holds(p, b), ~InFlight(b), NEW f \in SUBSET Flag, Brelse(b, f),
         \A e \in {"INVAL", "ERROR"} : e \in f <=> e \in flags[b],
         \A e \in {"DONE", "LOCKED"} : e \in flags[b] => e \in f,
         "DELWRI" \in f => /\ "DONE" \in f /\ "INVAL" \notin f
                           /\ AsyncSafe => "ERROR" \notin f /\ blk[b] \in Blks,
         \A c \in Bufs \ {b} : data'[c] = data[c],
         disk' = disk, ioq' = ioq,
         \A q \in Procs \ {p} :
            /\ pc'[q] = pc[q] /\ ret'[q] = ret[q] /\ blkno'[q] = blkno[q]
            /\ rablkno'[q] = rablkno[q] /\ bp'[q] = bp[q] /\ rabp'[q] = rabp[q]
            /\ err'[q] = err[q],
         Keeps(p)', Alone(p)', Durable(p)',
         ret'[p] # "update",
         \/ mbuf' = mbuf
         \/ \E x \in Super : /\ mbuf' = [mbuf EXCEPT ![x] = b]
                             /\ Asked(b, x) /\ "LOCKED" \in f /\ "INVAL" \notin f
  PROVE  Content'
<1>1. /\ \A e \in {"READ", "DONE", "DELWRI", "INVAL", "LOCKED"} : e \in flags'[b] <=> e \in f
      /\ "ERROR" \in flags'[b] <=> "ERROR" \in f /\ "LOCKED" \notin f
      /\ blk'[b] = IF "ERROR" \in flags'[b] THEN NoBlk ELSE blk[b]
      /\ "BUSY" \notin flags'[b]
      /\ \A c \in Bufs \ {b} : flags'[c] = flags[c] /\ blk'[c] = blk[c]
      /\ \A k \in {"AGE", "LRU"} : \A c \in ToSet(fl'[k]) :
            \/ c \in ToSet(fl[k])
            \/ c = b /\ ("LOCKED" \in f => "INVAL" \in f)
  BY BrelseEffect DEF TypeInv
<1>2. FlagsSound(b)'
  <2>1. ~InFlight(b)'
    BY DEF InFlight
  <2>2. FlagsSound(b)
    BY DEF Content
  <2> QED BY <1>1, <2>1, <2>2 DEF FlagsSound
<1>3. \A q \in Procs \ {p} : ~Holds(q, b)
  BY DEF Own, OneOwner
<1>4. \A k \in {"AGE", "LRU"} : \A c \in ToSet(fl'[k]) :
            \/ c # b /\ c \in ToSet(fl[k])
            \/ c = b /\ ("LOCKED" \in flags'[b] => "INVAL" \in flags'[b])
  <2>1. "BUSY" \in flags[b]
    BY DEF Own, OneOwner
  <2>2. \A k \in {"AGE", "LRU"} : b \notin ToSet(fl[k])
    BY <2>1 DEF Own, FreeListsOK, Queue
  <2> QED BY <1>1, <2>2
<1>5. \/ mbuf' = mbuf
      \/ \E x \in Super : /\ mbuf' = [mbuf EXCEPT ![x] = b]
                          /\ Asked(b, x)' /\ "LOCKED" \in flags'[b]
                          /\ "INVAL" \notin flags[b]
  BY <1>1 DEF Asked
<1> QED BY <1>1, <1>2, <1>3, <1>4, <1>5, StepContent

\* A process that hands a buffer to the driver takes the block from nobody else.
LEMMA SendContent ==
  ASSUME TypeInv, TypeInv', Own, Own', Content, NEW p \in Procs, cpu \in {NoProc, p},
         NEW b \in Bufs, Holds(p, b) \/ "BUSY" \notin flags[b], ~InFlight(b),
         NEW g, flags' = [flags EXCEPT ![b] = g],
         "INVAL" \in g <=> "INVAL" \in flags[b], "LOCKED" \in g <=> "LOCKED" \in flags[b],
         "BUSY" \in g, "ERROR" \notin g, "DELWRI" \notin g,
         "INVAL" \notin flags[b], AsyncSafe => blk[b] \in Blks,
         \A c \in Bufs \ {b} : data'[c] = data[c],
         blk' = blk, disk' = disk, ioq' = Append(ioq, b), mbuf' = mbuf,
         \A k \in Queue : ToSet(fl'[k]) \subseteq ToSet(fl[k]),
         \A q \in Procs \ {p} :
            /\ pc'[q] = pc[q] /\ ret'[q] = ret[q] /\ blkno'[q] = blkno[q]
            /\ rablkno'[q] = rablkno[q] /\ bp'[q] = bp[q] /\ rabp'[q] = rabp[q]
            /\ err'[q] = err[q],
         Keeps(p)', Alone(p)', Durable(p)',
         ret'[p] = "update" => blkno'[p] \in Super /\ mbuf[blkno'[p]] # NoBuf
  PROVE  Content'
<1>1. /\ flags'[b] = g
      /\ \A c \in Bufs \ {b} : flags'[c] = flags[c]
  BY DEF TypeInv, TypeOK
<1>2. FlagsSound(b)'
  BY <1>1 DEF FlagsSound
<1>3. \A q \in Procs \ {p} : ~Holds(q, b)
  BY DEF Own, OneOwner
<1>4. \A k \in {"AGE", "LRU"} : \A c \in ToSet(fl'[k]) : c # b /\ c \in ToSet(fl[k])
  <2>1. \A k \in Queue : b \notin ToSet(fl'[k])
    BY <1>1 DEF Own, FreeListsOK
  <2> QED BY <2>1 DEF Queue
<1> QED BY <1>1, <1>2, <1>3, <1>4, StepContent

\* The holder of a buffer keeps the blocks of the others, whatever he does.
LEMMA HoldContent ==
  ASSUME TypeInv, TypeInv', Own, Own', Content, NEW p \in Procs, HoldStep(p)
  PROVE  Content'
<1> DEFINE b == bp[p]
<1>1. /\ pc[p] = "hold" /\ cpu \in {NoProc, p} /\ b \in Bufs /\ flags[b] \in SUBSET Flag
      /\ Holds(p, b) /\ rabp[p] = NoBuf /\ Resting(p)
  BY DEF HoldStep, Release, Bdwrite, Bwrite, Bawrite, Modify, LockSuper, Holding, Running,
         TypeInv, TypeOK, PcOK, Holds, Resting
<1>2. ~InFlight(b) /\ "BUSY" \in flags[b]
  BY <1>1 DEF Own, Settled, OneOwner
<1>3. Keeps(p) /\ FlagsSound(b)
  BY <1>1 DEF Content
<1>4. ASSUME bp' = [bp EXCEPT ![p] = NoBuf], rabp' = rabp, Return(p)
      PROVE  /\ Keeps(p)' /\ Alone(p)' /\ Durable(p)' /\ ret'[p] # "update"
             /\ \A q \in Procs \ {p} :
                  /\ pc'[q] = pc[q] /\ ret'[q] = ret[q] /\ blkno'[q] = blkno[q]
                  /\ rablkno'[q] = rablkno[q] /\ bp'[q] = bp[q] /\ rabp'[q] = rabp[q]
                  /\ err'[q] = err[q]
  <2>1. pc'[p] = "user" /\ ret'[p] = "none" /\ bp'[p] = NoBuf /\ rabp'[p] = NoBuf
    BY <1>1, <1>4 DEF Return, TypeInv, TypeOK
  <2>2. Keeps(p)' /\ Alone(p)' /\ Durable(p)'
    BY <2>1, ConstAssumption DEF Keeps, Alone, Durable
  <2>3. \A q \in Procs \ {p} :
                  /\ pc'[q] = pc[q] /\ ret'[q] = ret[q] /\ blkno'[q] = blkno[q]
                  /\ rablkno'[q] = rablkno[q] /\ bp'[q] = bp[q] /\ rabp'[q] = rabp[q]
                  /\ err'[q] = err[q]
    BY <1>4 DEF Return, TypeInv, TypeOK
  <2> QED BY <2>1, <2>2, <2>3
<1>5. ASSUME NEW age \in {{}, {"AGE"}}, Release(p, age) PROVE Content'
  <2> DEFINE f == flags[b] \cup age
  <2>1. /\ f \in SUBSET Flag
        /\ \A e \in {"INVAL", "ERROR", "DONE", "LOCKED", "DELWRI"} : e \in f <=> e \in flags[b]
    BY <1>1 DEF Flag
  <2>2. Brelse(b, f) /\ UNCHANGED <<data, disk, ioq, mbuf>>
        /\ bp' = [bp EXCEPT ![p] = NoBuf] /\ rabp' = rabp /\ Return(p)
    BY <1>5 DEF Release, ioVars, mntVars
  <2>3. "DELWRI" \in f => /\ "DONE" \in f /\ "INVAL" \notin f
                          /\ AsyncSafe => "ERROR" \notin f /\ blk[b] \in Blks
    BY <1>3, <2>1 DEF FlagsSound
  <2> HIDE DEF b, f
  <2> QED BY <1>1, <1>2, <1>4, <2>1, <2>2, <2>3, ReleaseContent
<1>6. ASSUME NEW v \in Vals, Bdwrite(p, v) PROVE Content'
  <2> DEFINE f == flags[b] \cup {"DELWRI", "DONE"}
  <2>1. /\ f \in SUBSET Flag /\ "DONE" \in f
        /\ \A e \in {"INVAL", "ERROR", "LOCKED"} : e \in f <=> e \in flags[b]
    BY <1>1 DEF Flag
  <2>2. /\ Brelse(b, f) /\ UNCHANGED <<disk, ioq, mbuf>>
        /\ bp' = [bp EXCEPT ![p] = NoBuf] /\ rabp' = rabp /\ Return(p)
        /\ ret[p] \in {"bread", "getblk"} /\ ~err[p]
    BY <1>6 DEF Bdwrite, Modify, ioVars, mntVars
  <2>3. \A c \in Bufs \ {b} : data'[c] = data[c]
    BY <1>1, <1>6 DEF Bdwrite, Modify, TypeInv, TypeOK
  <2>4. "INVAL" \notin f /\ (AsyncSafe => "ERROR" \notin f /\ blk[b] \in Blks)
    BY <1>1, <1>3, <2>1, <2>2 DEF Keeps, Asked
  <2> HIDE DEF b, f
  <2> QED BY <1>1, <1>2, <1>4, <2>1, <2>2, <2>3, <2>4, ReleaseContent
<1>7. ASSUME LockSuper(p) PROVE Content'
  <2> DEFINE f == flags[b] \cup {"LOCKED"}
  <2>1. /\ f \in SUBSET Flag /\ "LOCKED" \in f
        /\ \A e \in {"INVAL", "ERROR", "DONE", "DELWRI"} : e \in f <=> e \in flags[b]
    BY <1>1 DEF Flag
  <2>2. /\ Brelse(b, f) /\ UNCHANGED <<data, disk, ioq>>
        /\ bp' = [bp EXCEPT ![p] = NoBuf] /\ rabp' = rabp /\ Return(p)
        /\ ret[p] = "bread" /\ blkno[p] \in Super /\ mbuf' = [mbuf EXCEPT ![blkno[p]] = b]
    BY <1>7 DEF LockSuper, ioVars
  <2>3. "DELWRI" \in f => /\ "DONE" \in f /\ "INVAL" \notin f
                          /\ AsyncSafe => "ERROR" \notin f /\ blk[b] \in Blks
    BY <1>3, <2>1 DEF FlagsSound
  <2>4. Asked(b, blkno[p]) /\ "INVAL" \notin f
    BY <1>1, <1>3, <2>1, <2>2 DEF Keeps
  <2> HIDE DEF b, f
  <2> QED BY <1>1, <1>2, <1>4, <2>1, <2>2, <2>3, <2>4, ReleaseContent
<1>8. ASSUME NEW v \in Vals, Bwrite(p, v) PROVE Content'
  <2> DEFINE g == flags[b] \ {"READ", "DONE", "ERROR", "DELWRI", "AGE"}
  <2>1. /\ flags' = [flags EXCEPT ![b] = g] /\ ioq' = Append(ioq, b)
        /\ ret[p] \in {"bread", "getblk"} /\ pc'[p] = "iowait" /\ ret'[p] = "bwrite"
        /\ UNCHANGED <<blk, fl, disk, blkno, rablkno, mbuf, bp, rabp, err>>
        /\ \A q \in Procs \ {p} : pc'[q] = pc[q] /\ ret'[q] = ret[q]
        /\ \A c \in Bufs \ {b} : data'[c] = data[c]
    BY <1>1, <1>8 DEF Bwrite, BwriteStart, Modify, Goto, callVars, argVars, mntVars, TypeInv, TypeOK
  <2>2. /\ "INVAL" \in g <=> "INVAL" \in flags[b]
        /\ "LOCKED" \in g <=> "LOCKED" \in flags[b]
        /\ "BUSY" \in g /\ "READ" \notin g /\ "DONE" \notin g /\ "ERROR" \notin g /\ "DELWRI" \notin g
    BY <1>2
  <2> HIDE DEF g
  <2>3. "INVAL" \notin flags[b] /\ (AsyncSafe => blk[b] \in Blks)
    BY <1>1, <1>3, <2>1 DEF Keeps, Asked
  <2>4. flags'[b] = g
    BY <1>1, <2>1 DEF TypeInv, TypeOK
  <2>5. Keeps(p)' /\ Alone(p)' /\ Durable(p)'
    BY <1>1, <1>3, <2>1, <2>2, <2>3, <2>4, ConstAssumption DEF Keeps, Alone, Durable, Asked, Resting
  <2> HIDE DEF b
  <2> QED BY <1>1, <1>2, <2>1, <2>2, <2>3, <2>5, SendContent
<1>9. ASSUME NEW v \in Vals, Bawrite(p, v) PROVE Content'
  <2> DEFINE g == (flags[b] \cup {"ASYNC"}) \ {"READ", "DONE", "ERROR", "DELWRI", "AGE"}
  <2>1. /\ flags' = [flags EXCEPT ![b] = g] /\ ioq' = Append(ioq, b)
        /\ ret[p] \in {"bread", "getblk"} /\ pc'[p] = "started" /\ ret'[p] = "bwrite"
        /\ bp' = [bp EXCEPT ![p] = NoBuf] /\ bp'[p] = NoBuf
        /\ UNCHANGED <<blk, fl, disk, blkno, rablkno, mbuf, rabp, err>>
        /\ \A q \in Procs \ {p} : pc'[q] = pc[q] /\ ret'[q] = ret[q] /\ bp'[q] = bp[q]
        /\ \A c \in Bufs \ {b} : data'[c] = data[c]
    BY <1>1, <1>9 DEF Bawrite, BwriteStart, Modify, Goto, callVars, argVars, mntVars, TypeInv, TypeOK
  <2>2. /\ "INVAL" \in g <=> "INVAL" \in flags[b]
        /\ "LOCKED" \in g <=> "LOCKED" \in flags[b]
        /\ "BUSY" \in g /\ "ERROR" \notin g /\ "DELWRI" \notin g
    BY <1>2
  <2> HIDE DEF g
  <2>3. "INVAL" \notin flags[b] /\ (AsyncSafe => blk[b] \in Blks)
    BY <1>1, <1>3, <2>1 DEF Keeps, Asked
  <2>5. Keeps(p)' /\ Alone(p)' /\ Durable(p)'
    BY <1>1, <1>3, <2>1, ConstAssumption DEF Keeps, Alone, Durable
  <2> HIDE DEF b
  <2> QED BY <1>1, <1>2, <2>1, <2>2, <2>3, <2>5, SendContent
<1> QED BY <1>5, <1>6, <1>7, <1>8, <1>9 DEF HoldStep

\* Where p is tells what it is doing there; only B_AGE and B_WANTED change.
LEMMA QuietContent ==
  ASSUME TypeInv, TypeInv', Own, Content, NEW p \in Procs, cpu \in {NoProc, p},
         \A c \in Bufs : \A e \in {"READ", "DONE", "ERROR", "DELWRI", "INVAL", "LOCKED", "BUSY"} :
            e \in flags'[c] <=> e \in flags[c],
         blk' = blk, data' = data, disk' = disk, ioq' = ioq, mbuf' = mbuf, fl' = fl,
         \A q \in Procs \ {p} :
            /\ pc'[q] = pc[q] /\ ret'[q] = ret[q] /\ blkno'[q] = blkno[q]
            /\ rablkno'[q] = rablkno[q] /\ bp'[q] = bp[q] /\ rabp'[q] = rabp[q]
            /\ err'[q] = err[q],
         Keeps(p)', Alone(p)', Durable(p)',
         ret'[p] = "update" => blkno'[p] \in Super /\ mbuf[blkno'[p]] # NoBuf
  PROVE  Content'
<1>1. ASSUME NEW c \in Bufs PROVE FlagsSound(c)'
  <2>1. FlagsSound(c)
    BY DEF Content
  <2> QED BY <2>1 DEF FlagsSound, InFlight
<1>2. UniqueBlock'
  BY DEF Content, UniqueBlock, Matches
<1>3. Ordered'
  <2>1. \A i \in DOMAIN ioq : ioq[i] \in Bufs
    BY DEF TypeInv, TypeOK
  <2> QED BY <2>1 DEF Content, Ordered
<1>4. ASSUME NEW q \in Procs \ {p} PROVE Keeps(q)' /\ Alone(q)' /\ Durable(q)'
  <2>1. Keeps(q) /\ Alone(q) /\ Durable(q) /\ cpu # q
    BY ConstAssumption DEF Content
  <2>2. pc[q] # "hit" /\ ret[q] # "close"
    BY <2>1 DEF Keeps, Alone
  <2>3. Keeps(q)'
    BY <2>1, <2>2 DEF Keeps, Asked, Resting
  <2>4. Alone(q)'
    BY <2>2 DEF Alone
  <2>5. Durable(q)'
    <3> SUFFICES ASSUME pc[q] = "iowait", ret[q] = "bwrite" PROVE Durable(q)'
      BY DEF Durable
    <3>1. bp[q] \in Bufs
      BY DEF TypeInv, PcOK
    <3>2. flags'[bp[q]] \cap {"DONE", "ERROR"} = flags[bp[q]] \cap {"DONE", "ERROR"}
      BY <3>1
    <3> QED BY <2>1, <3>1, <3>2 DEF Durable
  <2> QED BY <2>3, <2>4, <2>5
<1>5. Mounted'
  <2>1. \A x \in Super : mbuf[x] # NoBuf => mbuf[x] \in Bufs
    BY DEF TypeInv, TypeOK
  <2>2. \A x \in Super : mbuf'[x] # NoBuf =>
          /\ Asked(mbuf[x], x)'
          /\ "LOCKED" \in flags'[mbuf'[x]] /\ "INVAL" \notin flags'[mbuf'[x]]
    BY <2>1 DEF Content, Mounted, Asked
  <2>3. \A k \in {"AGE", "LRU"} : \A b \in ToSet(fl'[k]) : b \in Bufs
    BY DEF TypeInv, TypeOK, Queue, ToSet
  <2>4. \A k \in {"AGE", "LRU"} : \A b \in ToSet(fl'[k]) :
           "LOCKED" \in flags'[b] => "INVAL" \in flags'[b]
    BY <2>3 DEF Content, Mounted
  <2>5. \A q \in Procs : ret'[q] = "update" => blkno'[q] \in Super /\ mbuf'[blkno'[q]] # NoBuf
    BY DEF Content, Mounted, TypeInv, TypeOK
  <2> QED BY <2>2, <2>4, <2>5 DEF Mounted
<1> QED BY <1>1, <1>2, <1>3, <1>4, <1>5 DEF Content

\* A buffer that is held has a block its holder is using.
LEMMA HeldUsed ==
  ASSUME TypeInv, Content, NEW q \in Procs, NEW b \in Bufs, Holds(q, b), blk[b] \in Blks
  PROVE  Using(q, DevOf[blk[b]])
<1>1. Keeps(q)
  BY DEF Content
<1>2. pc[q] # "user"
  BY ConstAssumption DEF Holds, TypeInv, PcOK
<1>3. blk[b] \in {blkno[q], rablkno[q]}
  BY <1>1, ConstAssumption DEF Keeps, Asked, Holds
<1> QED BY <1>2, <1>3 DEF Using

\* binval invalidates no buffer that has contents to be written, is held, or
\* belongs to a mounted superblock.
LEMMA BflushDoneContent ==
  ASSUME TypeInv, TypeInv', Own, Content, NEW p \in Procs, BflushDone(p)
  PROVE  Content'
<1>1. /\ pc[p] = "bflush" /\ ret[p] \in {"bflush", "close"} /\ cpu \in {NoProc, p}
      /\ bp[p] = NoBuf /\ rabp[p] = NoBuf
  BY DEF BflushDone, Running, TypeInv, PcOK
<1>2. UNCHANGED <<blk, data, disk, ioq, mbuf, fl, bp, rabp>> /\ Return(p)
  BY DEF BflushDone, ioVars, mntVars
<1>3. /\ pc'[p] = "user" /\ ret'[p] = "none"
      /\ \A q \in Procs \ {p} :
           /\ pc'[q] = pc[q] /\ ret'[q] = ret[q] /\ blkno'[q] = blkno[q]
           /\ rablkno'[q] = rablkno[q] /\ err'[q] = err[q]
  BY <1>2 DEF Return, TypeInv, TypeOK
<1>4. Keeps(p)' /\ Alone(p)' /\ Durable(p)'
  BY <1>1, <1>2, <1>3, ConstAssumption DEF Keeps, Alone, Durable
<1>5. CASE ret[p] # "close"
  <2>1. \A c \in Bufs : flags'[c] = flags[c]
    BY <1>5 DEF BflushDone
  <2> QED BY <1>1, <1>2, <1>3, <1>4, <2>1, QuietContent
<1>6. CASE ret[p] = "close"
  <2> DEFINE D == {b \in Bufs : blk[b] \in Blks /\ DevOf[blk[b]] = fdev[p]}
  <2>1. /\ Alone(p)
        /\ \A b \in Bufs : flags'[b] = IF b \in D THEN flags[b] \cup {"INVAL"} ELSE flags[b]
    BY <1>6 DEF BflushDone, Content
  <2>2. \A q \in Procs : \A b \in D : ~Holds(q, b)
    <3> SUFFICES ASSUME NEW q \in Procs, NEW b \in D, Holds(q, b) PROVE FALSE
      OBVIOUS
    <3>1. Using(q, fdev[p])
      BY HeldUsed
    <3>2. q # p
      BY <1>1, ConstAssumption DEF Holds
    <3> QED BY <1>6, <2>1, <3>1, <3>2 DEF Alone
  <2>3. \A b \in D : "DELWRI" \notin flags[b]
    <3> SUFFICES ASSUME NEW b \in D, "DELWRI" \in flags[b] PROVE FALSE
      OBVIOUS
    <3>1. FlagsSound(b) /\ b \in Bufs
      BY DEF Content
    <3>2. ~InFlight(b)
      BY <3>1 DEF FlagsSound, Own, RequestsOK
    <3>3. "BUSY" \notin flags[b]
      BY <2>2, <3>1, <3>2 DEF Own, OneOwner
    <3>4. \E q \in Queue : \E i \in DOMAIN fl[q] : fl[q][i] = b
      BY <3>1, <3>3 DEF Own, FreeListsOK, ToSet
    <3>5. ToFlush(p, b)
      BY DEF ToFlush
    <3> QED BY <3>4, <3>5 DEF BflushDone
  <2> HIDE DEF D
  <2>4. D \subseteq Bufs /\ \A c \in Bufs : \A e \in Flag \ {"INVAL"} : e \in flags'[c] <=> e \in flags[c]
    BY <2>1 DEF D
  <2>5. ASSUME NEW c \in Bufs PROVE FlagsSound(c)'
    <3>1. FlagsSound(c)
      BY DEF Content
    <3>2. \A e \in {"DELWRI", "DONE", "ERROR", "BUSY"} : e \in flags'[c] <=> e \in flags[c]
      BY <2>4 DEF Flag
    <3>3. "DELWRI" \in flags[c] => flags'[c] = flags[c]
      BY <2>1, <2>3
    <3> QED BY <1>2, <3>1, <3>2, <3>3 DEF FlagsSound, InFlight
  <2>6. UniqueBlock'
    BY <1>2, <2>1 DEF Content, UniqueBlock, Matches
  <2>7. Ordered'
    <3>1. \A i \in DOMAIN ioq : ioq[i] \in Bufs
      BY DEF TypeInv, TypeOK
    <3> QED BY <1>2, <2>1, <3>1 DEF Content, Ordered
  <2>8. ASSUME NEW q \in Procs \ {p} PROVE Keeps(q)' /\ Alone(q)' /\ Durable(q)'
    <3>1. Keeps(q) /\ Alone(q) /\ Durable(q) /\ cpu # q
      BY <1>1, ConstAssumption DEF Content
    <3>2. pc[q] # "hit" /\ ret[q] # "close"
      BY <3>1 DEF Keeps, Alone
    <3>3. /\ bp[q] \in Bufs => flags'[bp[q]] = flags[bp[q]]
          /\ rabp[q] \in Bufs => flags'[rabp[q]] = flags[rabp[q]]
      BY <2>1, <2>2 DEF Holds
    <3>4. Keeps(q)'
      BY <1>2, <1>3, <3>1, <3>2, <3>3 DEF Keeps, Asked, Resting
    <3>5. Alone(q)'
      BY <1>3, <3>2 DEF Alone
    <3>6. Durable(q)'
      <4> SUFFICES ASSUME pc[q] = "iowait", ret[q] = "bwrite" PROVE Durable(q)'
        BY <1>3 DEF Durable
      <4>1. bp[q] \in Bufs
        BY DEF TypeInv, PcOK
      <4> QED BY <1>2, <1>3, <3>1, <3>3, <4>1 DEF Durable
    <3> QED BY <3>4, <3>5, <3>6
  <2>9. Mounted'
    <3>1. ASSUME NEW x \in Super, mbuf[x] # NoBuf PROVE mbuf[x] \in Bufs \ D
      <4>1. mbuf[x] \in Bufs /\ Asked(mbuf[x], x) /\ x \in Blks
        BY <3>1, ConstAssumption DEF TypeInv, TypeOK, Content, Mounted
      <4>2. mbuf[x] \in D => DevOf[x] = fdev[p]
        BY <4>1, ConstAssumption DEF D, Asked
      <4> QED BY <1>6, <2>1, <3>1, <4>1, <4>2 DEF Alone
    <3>2. \A x \in Super : mbuf'[x] # NoBuf =>
            /\ Asked(mbuf[x], x)'
            /\ "LOCKED" \in flags'[mbuf'[x]] /\ "INVAL" \notin flags'[mbuf'[x]]
      BY <1>2, <2>1, <3>1 DEF Content, Mounted, Asked
    <3>3. \A k \in {"AGE", "LRU"} : \A b \in ToSet(fl'[k]) : b \in Bufs
      BY DEF TypeInv, TypeOK, Queue, ToSet
    <3>4. \A k \in {"AGE", "LRU"} : \A b \in ToSet(fl'[k]) :
             "LOCKED" \in flags'[b] => "INVAL" \in flags'[b]
      <4>1. \A b \in Bufs : /\ "LOCKED" \in flags'[b] => "LOCKED" \in flags[b]
                            /\ "INVAL" \in flags[b] => "INVAL" \in flags'[b]
        <5> TAKE b \in Bufs
        <5>1. "LOCKED" \in flags'[b] <=> "LOCKED" \in flags[b]
          BY <2>4 DEF Flag
        <5>2. "INVAL" \in flags[b] => "INVAL" \in flags'[b]
          BY <2>1
        <5> QED BY <5>1, <5>2
      <4>2. \A k \in {"AGE", "LRU"} : \A b \in ToSet(fl[k]) :
              "LOCKED" \in flags[b] => "INVAL" \in flags[b]
        BY DEF Content, Mounted
      <4> QED BY <1>2, <3>3, <4>1, <4>2
    <3>5. \A q \in Procs : ret'[q] = "update" => blkno'[q] \in Super /\ mbuf'[blkno'[q]] # NoBuf
      BY <1>2, <1>3 DEF Content, Mounted
    <3> QED BY <3>2, <3>4, <3>5 DEF Mounted
  <2> QED BY <1>4, <2>5, <2>6, <2>7, <2>8, <2>9 DEF Content
<1> QED BY <1>5, <1>6

\* notavail only takes off the lists.
LEMMA TakenOff ==
  ASSUME TypeInv, TypeInv', Own, Own', NEW q \in Queue, NEW i \in DOMAIN fl[q], NotAvail(q, i)
  PROVE  \A k \in Queue : ToSet(fl'[k]) \subseteq ToSet(fl[k])
<1> TAKE k \in Queue
<1>1. fl \in [Queue -> Seq(Bufs)] /\ IsInjective(fl[q])
  BY DEF TypeInv, TypeOK, Own, FreeListsOK
<1>2. ToSet(RemoveAt(fl[q], i)) \subseteq ToSet(fl[q])
  BY <1>1, RemoveAtSet
<1>3. fl'[k] = IF k = q THEN RemoveAt(fl[q], i) ELSE fl[k]
  BY <1>1 DEF NotAvail
<1> QED BY <1>2, <1>3

\* A busy buffer is on no list.
LEMMA BusyOff ==
  ASSUME Own, NEW b \in Bufs, "BUSY" \in flags[b]
  PROVE  \A k \in Queue : b \notin ToSet(fl[k])
BY DEF Own, FreeListsOK

\* getblk gives a free buffer to a block that is in no other one.
LEMMA ReassignContent ==
  ASSUME TypeInv, TypeInv', Own, Own', Content, NEW p \in Procs, GetblkReassign(p)
  PROVE  Content'
<1>0. PICK d \in Bufs : d = fl[Victims][1] /\ d \in ToSet(fl[Victims])
  BY DEF TypeInv, TypeOK, GetblkReassign, Victims, Queue, ToSet
<1>1. /\ Victims \in {"AGE", "LRU"} /\ 1 \in DOMAIN fl[Victims] /\ NotAvail(Victims, 1)
      /\ d \in Bufs /\ d \in ToSet(fl[Victims])
  BY <1>0 DEF TypeInv, TypeOK, GetblkReassign, Victims, Queue, ToSet
<1>2. /\ "BUSY" \notin flags[d] /\ ~InFlight(d) /\ \A q \in Procs : ~Holds(q, d)
  BY <1>1 DEF Own, FreeListsOK, RequestsOK, OneOwner, Queue
<1>3. /\ flags'[d] = IF pc[p] = "geteblk" THEN {"BUSY", "INVAL"} ELSE {"BUSY"}
      /\ blk'[d] = Want(p)
      /\ \A c \in Bufs \ {d} : flags'[c] = flags[c] /\ blk'[c] = blk[c]
      /\ Deliver(p, d) /\ cpu \in {NoProc, p}
      /\ UNCHANGED <<data, ioq, disk, blkno, rablkno, fdev, mbuf, ret, err, cand>>
      /\ \/ pc[p] = "getblk" /\ ~Incore(Want(p))
         \/ pc[p] = "geteblk"
  BY <1>0 DEF GetblkReassign, Missing, Running, TypeInv, TypeOK, ioVars, callVars, argVars, mntVars
<1>4. /\ pc'[p] = "got" /\ Keeps(p)
      /\ \A q \in Procs \ {p} : pc'[q] = pc[q] /\ bp'[q] = bp[q] /\ rabp'[q] = rabp[q]
      /\ IF ret[p] = "readahead" THEN rabp'[p] = d /\ bp'[p] = bp[p]
                                 ELSE bp'[p] = d /\ rabp'[p] = rabp[p]
  BY <1>3 DEF Deliver, Goto, TypeInv, TypeOK, Content
<1>5. ASSUME NEW c \in Bufs PROVE FlagsSound(c)'
  <2>1. FlagsSound(c) /\ (InFlight(c)' <=> InFlight(c))
    BY <1>3 DEF Content, InFlight
  <2> QED BY <1>2, <1>3, <2>1 DEF FlagsSound
<1>6. UniqueBlock'
  <2>1. \A c \in Bufs \ {d} : \A x \in Blks : Matches(c, x)' <=> Matches(c, x)
    BY <1>3 DEF Matches
  <2>2. ASSUME NEW x \in Blks, Matches(d, x)' PROVE \A c \in Bufs : ~Matches(c, x)
    <3>1. Want(p) = x /\ "INVAL" \notin flags'[d]
      BY <1>3, <2>2 DEF Matches
    <3>2. pc[p] # "geteblk"
      BY <1>3, <3>1
    <3> QED BY <1>3, <3>1, <3>2 DEF Incore
  <2> QED BY <2>1, <2>2 DEF Content, UniqueBlock
<1>7. Ordered'
  <2>1. \A i \in DOMAIN ioq : ioq[i] \in Bufs \ {d}
    BY <1>2 DEF TypeInv, TypeOK, InFlight, ToSet
  <2> QED BY <1>3, <2>1 DEF Content, Ordered
<1>8. ASSUME NEW q \in Procs \ {p} PROVE Keeps(q)' /\ Alone(q)' /\ Durable(q)'
  <2>1. d \notin ToSet(ioq') /\ \A c \in ToSet(ioq') \ {d} : InFlight(c)
    BY <1>2, <1>3 DEF InFlight
  <2> QED BY <1>2, <1>3, <1>4, <2>1, OthersKeep
<1>9. Keeps(p)'
  <2>1. bp[p] # d /\ rabp[p] # d
    BY <1>2 DEF Holds
  <2>2. Want(p)' = Want(p)
    BY <1>3 DEF Want
  <2>3. pc[p] = "getblk" => ret[p] # "geteblk"
    BY <1>4 DEF Keeps
  <2>4. pc[p] = "geteblk" => ret[p] = "geteblk"
    BY DEF TypeInv, PcOK
  <2>5. CASE ret[p] = "readahead"
    BY <1>3, <1>4, <2>1, <2>3, <2>4, <2>5 DEF Keeps, Asked, Resting, Want
  <2>6. CASE ret[p] # "readahead"
    BY <1>3, <1>4, <2>1, <2>3, <2>4, <2>6 DEF Keeps, Asked, Resting, Want
  <2> QED BY <2>5, <2>6
<1>10. Alone(p)' /\ Durable(p)'
  <2>1. ret[p] # "close"
    BY <1>3, <1>4 DEF Keeps, TypeInv, PcOK
  <2> QED BY <1>3, <1>4, <2>1 DEF Alone, Durable
<1>11. Mounted'
  <2>1. ASSUME NEW x \in Super, mbuf[x] # NoBuf PROVE mbuf[x] \in Bufs \ {d}
    BY <1>1, <2>1 DEF Content, Mounted, TypeInv, TypeOK
  <2>2. \A x \in Super : mbuf'[x] # NoBuf =>
            /\ Asked(mbuf[x], x)'
            /\ "LOCKED" \in flags'[mbuf'[x]] /\ "INVAL" \notin flags'[mbuf'[x]]
    BY <1>3, <2>1 DEF Content, Mounted, Asked
  <2>3. \A k \in {"AGE", "LRU"} : \A b \in ToSet(fl'[k]) :
           "LOCKED" \in flags'[b] => "INVAL" \in flags'[b]
    <3> SUFFICES ASSUME NEW k \in {"AGE", "LRU"}, NEW b \in ToSet(fl'[k]),
                        "LOCKED" \in flags'[b]
                 PROVE  "INVAL" \in flags'[b]
      OBVIOUS
    <3>1. k \in Queue /\ Victims \in Queue /\ fl \in [Queue -> Seq(Bufs)]
          /\ fl' \in [Queue -> Seq(Bufs)]
      BY <1>1 DEF TypeInv, TypeOK, Queue
    <3>2. b \in Bufs
      BY <3>1 DEF ToSet
    <3>3. "BUSY" \notin flags'[b]
      BY <3>1, <3>2 DEF Own, FreeListsOK
    <3>4. b # d
      BY <1>3, <3>3
    <3>5. b \in ToSet(fl[k])
      BY <1>1, <3>1, TakenOff
    <3> QED BY <1>3, <3>2, <3>4, <3>5 DEF Content, Mounted
  <2>4. \A q \in Procs : ret'[q] = "update" => blkno'[q] \in Super /\ mbuf'[blkno'[q]] # NoBuf
    BY <1>3 DEF Content, Mounted
  <2> QED BY <2>2, <2>3, <2>4 DEF Mounted
<1> QED BY <1>5, <1>6, <1>7, <1>8, <1>9, <1>10, <1>11 DEF Content

\* The steps of a process that touch no block and no transfer.
LEMMA QuietKernelContent ==
  ASSUME TypeInv, TypeInv', Own, Content, NEW p \in Procs
  PROVE  /\ GetblkFind(p) => Content'
         /\ GetblkWait(p) => Content'
         /\ GetblkNoFree(p) => Content'
         /\ GotBuffer(p) => Content'
         /\ GotForRead(p) /\ "DONE" \in flags[bp[p]] => Content'
         /\ Readahead(p) => Content'
         /\ IowaitSleep(p) => Content'
         /\ BreadDone(p) => Content'
         /\ BwriteStarted(p) => Content'
<1>0. Keeps(p) /\ Alone(p) /\ Durable(p)
      /\ (ret[p] = "update" => blkno[p] \in Super /\ mbuf[blkno[p]] # NoBuf)
  BY DEF Content, Mounted
<1>1. ASSUME GetblkFind(p) PROVE Content'
  <2>1. /\ pc[p] = "getblk" /\ cpu \in {NoProc, p} /\ cpu' = p /\ pc'[p] = "hit"
        /\ UNCHANGED <<flags, blk, data, disk, ioq, mbuf, fl, ret, blkno, rablkno, bp, rabp, err>>
        /\ \A q \in Procs \ {p} : pc'[q] = pc[q]
    BY <1>1 DEF GetblkFind, Goto, Running, bufVars, ioVars, callVars, argVars, mntVars,
            TypeInv, TypeOK
  <2>2. PICK b \in Bufs : Matches(b, Want(p)) /\ cand'[p] = b
    BY <1>1 DEF GetblkFind, TypeInv, TypeOK
  <2>3. Want(p)' = Want(p)
    BY <2>1 DEF Want
  <2>4. Keeps(p)' /\ Alone(p)' /\ Durable(p)'
    BY <1>0, <2>1, <2>2, <2>3 DEF Keeps, Alone, Durable, Matches, Asked, Resting
  <2> QED BY <1>0, <2>1, <2>4, QuietContent
<1>2. ASSUME GetblkWait(p) PROVE Content'
  <2>1. /\ pc[p] = "hit" /\ cpu \in {NoProc, p} /\ pc'[p] = "getblk" /\ cand[p] \in Bufs
        /\ UNCHANGED <<blk, data, disk, ioq, mbuf, fl, ret, blkno, rablkno, bp, rabp, err>>
        /\ \A q \in Procs \ {p} : pc'[q] = pc[q]
        /\ flags' = [flags EXCEPT ![cand[p]] = @ \cup {"WANTED"}]
    BY <1>2 DEF GetblkWait, Running, ioVars, callVars, argVars, mntVars, TypeInv, TypeOK, PcOK
  <2>2. \A c \in Bufs : \A e \in {"READ", "DONE", "ERROR", "DELWRI", "INVAL", "LOCKED", "BUSY"} :
            e \in flags'[c] <=> e \in flags[c]
    BY <2>1 DEF TypeInv, TypeOK
  <2>3. Keeps(p)' /\ Alone(p)' /\ Durable(p)'
    BY <1>0, <2>1, <2>2 DEF Keeps, Alone, Durable, Asked, Resting
  <2> QED BY <1>0, <2>1, <2>2, <2>3, QuietContent
<1>3. ASSUME GetblkNoFree(p) PROVE Content'
  <2>1. /\ pc[p] \in {"getblk", "geteblk"} /\ cpu \in {NoProc, p}
        /\ UNCHANGED <<flags, blk, data, disk, ioq, mbuf, fl, pc, ret, blkno, rablkno, bp, rabp,
                       err>>
    BY <1>3 DEF GetblkNoFree, Missing, Running, ioVars, callVars, argVars, mntVars
  <2>2. Keeps(p)' /\ Alone(p)' /\ Durable(p)'
    BY <1>0, <2>1 DEF Keeps, Alone, Durable, Asked, Resting
  <2> QED BY <1>0, <2>1, <2>2, QuietContent
<1>4. ASSUME GotBuffer(p) PROVE Content'
  <2>1. /\ pc[p] = "got" /\ ret[p] \in {"getblk", "geteblk"} /\ cpu \in {NoProc, p}
        /\ pc'[p] = "hold"
        /\ UNCHANGED <<flags, blk, data, disk, ioq, mbuf, fl, ret, blkno, rablkno, bp, rabp, err>>
        /\ \A q \in Procs \ {p} : pc'[q] = pc[q]
    BY <1>4 DEF GotBuffer, Hold, Running, bufVars, ioVars, callVars, argVars, mntVars,
            TypeInv, TypeOK
  <2>2. Keeps(p)' /\ Alone(p)' /\ Durable(p)'
    BY <1>0, <2>1 DEF Keeps, Alone, Durable, Asked, Resting
  <2> QED BY <1>0, <2>1, <2>2, QuietContent
<1>5. ASSUME GotForRead(p), "DONE" \in flags[bp[p]] PROVE Content'
  <2>1. /\ pc[p] = "got" /\ ret[p] \in {"bread", "breada"} /\ cpu \in {NoProc, p}
        /\ pc'[p] = IF ret[p] = "bread" THEN "hold" ELSE "readahead"
        /\ UNCHANGED <<flags, blk, data, disk, ioq, mbuf, fl, ret, blkno, rablkno, bp, rabp, err>>
        /\ \A q \in Procs \ {p} : pc'[q] = pc[q]
    BY <1>5 DEF GotForRead, Hold, Goto, Running, callVars, argVars, mntVars, TypeInv, TypeOK
  <2>2. Keeps(p)' /\ Alone(p)' /\ Durable(p)'
    BY <1>0, <2>1 DEF Keeps, Alone, Durable, Asked, Resting
  <2> QED BY <1>0, <2>1, <2>2, QuietContent
<1>6. ASSUME Readahead(p) PROVE Content'
  <2>1. /\ pc[p] = "readahead" /\ cpu \in {NoProc, p}
        /\ \/ rablkno[p] # NoBlk /\ pc'[p] = "getblk" /\ ret'[p] = "readahead"
           \/ bp[p] = NoBuf /\ pc'[p] = "getblk" /\ ret'[p] = "bread"
           \/ pc'[p] = "iowait" /\ ret'[p] = "breada"
        /\ UNCHANGED <<flags, blk, data, disk, ioq, mbuf, fl, blkno, rablkno, bp, rabp, err>>
        /\ \A q \in Procs \ {p} : pc'[q] = pc[q] /\ ret'[q] = ret[q]
    BY <1>6 DEF Readahead, AfterReadahead, Goto, Running, bufVars, ioVars, callVars, argVars,
            mntVars, TypeInv, TypeOK
  <2>2. rablkno[p] \in Blks \cup {NoBlk} /\ rabp[p] = NoBuf /\ ret[p] = "breada"
    BY <1>0, <2>1 DEF TypeInv, TypeOK, PcOK, Keeps
  <2>3. Keeps(p)' /\ Alone(p)' /\ Durable(p)'
    BY <1>0, <2>1, <2>2, ConstAssumption DEF Keeps, Alone, Durable, Asked, Resting
  <2> QED BY <1>0, <2>1, <2>3, QuietContent
<1>7. ASSUME IowaitSleep(p) PROVE Content'
  <2>1. /\ pc[p] = "iowait" /\ cpu \in {NoProc, p}
        /\ UNCHANGED <<flags, blk, data, disk, ioq, mbuf, fl, pc, ret, blkno, rablkno, bp, rabp,
                       err>>
    BY <1>7 DEF IowaitSleep, Running, bufVars, ioVars, callVars, argVars, mntVars
  <2>2. Keeps(p)' /\ Alone(p)' /\ Durable(p)'
    BY <1>0, <2>1 DEF Keeps, Alone, Durable, Asked, Resting
  <2> QED BY <1>0, <2>1, <2>2, QuietContent
<1>8. ASSUME BreadDone(p) PROVE Content'
  <2>1. /\ pc[p] = "iowait" /\ ret[p] \in {"bread", "breada"} /\ cpu \in {NoProc, p}
        /\ pc'[p] = "hold" /\ (~err'[p] => "ERROR" \notin flags[bp[p]])
        /\ UNCHANGED <<flags, blk, data, disk, ioq, mbuf, fl, ret, blkno, rablkno, bp, rabp>>
        /\ \A q \in Procs \ {p} : pc'[q] = pc[q] /\ err'[q] = err[q]
    BY <1>8, ZenonT(60) DEF BreadDone, Geterror, Hold, Running, bufVars, ioVars, callVars, argVars, mntVars,
            TypeInv, TypeOK
  <2>2. Keeps(p)' /\ Alone(p)' /\ Durable(p)'
    BY <1>0, <2>1 DEF Keeps, Alone, Durable, Asked, Resting
  <2> QED BY <1>0, <2>1, <2>2, QuietContent
<1>9. ASSUME BwriteStarted(p) PROVE Content'
  <2>1. /\ pc[p] = "started" /\ cpu \in {NoProc, p} /\ cand[p] \in Bufs
        /\ UNCHANGED <<blk, data, disk, ioq, mbuf, fl, bp, rabp>>
        /\ flags' = [flags EXCEPT ![cand[p]] = @ \cup {"AGE"}] \/ flags' = flags
    BY <1>9 DEF BwriteStarted, Running, ioVars, mntVars, TypeInv, TypeOK, PcOK
  <2>2. \A c \in Bufs : \A e \in {"READ", "DONE", "ERROR", "DELWRI", "INVAL", "LOCKED", "BUSY"} :
            e \in flags'[c] <=> e \in flags[c]
    <3>1. CASE flags' = flags
      BY <3>1
    <3>2. CASE flags' = [flags EXCEPT ![cand[p]] = @ \cup {"AGE"}]
      BY <2>1, <3>2 DEF TypeInv, TypeOK
    <3> QED BY <2>1, <3>1, <3>2
  <2>3. CASE ret[p] = "bwrite"
    <3>1. /\ pc'[p] = "user" /\ ret'[p] = "none" /\ bp[p] = NoBuf /\ rabp[p] = NoBuf
          /\ \A q \in Procs \ {p} :
               /\ pc'[q] = pc[q] /\ ret'[q] = ret[q] /\ blkno'[q] = blkno[q]
               /\ rablkno'[q] = rablkno[q] /\ err'[q] = err[q]
      BY <1>9, <2>1, <2>3, SMTT(60) DEF BwriteStarted, Return, TypeInv, TypeOK, PcOK
    <3>2. Keeps(p)' /\ Alone(p)' /\ Durable(p)'
      BY <2>1, <3>1, ConstAssumption DEF Keeps, Alone, Durable
    <3> QED BY <2>1, <2>2, <3>1, <3>2, QuietContent
  <2>4. CASE ret[p] # "bwrite"
    <3>1. /\ pc'[p] = Continue(p) /\ cpu' = p
          /\ UNCHANGED <<ret, blkno, rablkno, fdev>>
          /\ \A q \in Procs \ {p} : pc'[q] = pc[q] /\ err'[q] = err[q]
      BY <1>9, <2>4 DEF BwriteStarted, Geterror, Goto, argVars, TypeInv, TypeOK
    <3>2. /\ ret[p] \in Caller \ {"none", "bwrite"}
          /\ pc'[p] \in {"geteblk", "bflush", "getblk"}
          /\ ret[p] \in {"bflush", "close"} => pc'[p] = "bflush"
          /\ pc'[p] = "getblk" => ret[p] \in {"bread", "breada", "readahead", "getblk", "update"}
      BY <1>0, <2>1, <2>4, <3>1 DEF Keeps, Continue, TypeInv, TypeOK, Caller
    <3>3. Keeps(p)'
      BY <1>0, <2>1, <2>2, <3>1, <3>2 DEF Keeps, Asked, Resting
    <3>4. Alone(p)' /\ Durable(p)'
      BY <1>0, <2>1, <3>1, <3>2 DEF Alone, Durable, Using
    <3> QED BY <1>0, <2>1, <2>2, <3>1, <3>3, <3>4, QuietContent
  <2> QED BY <2>3, <2>4
<1> QED BY <1>1, <1>2, <1>3, <1>4, <1>5, <1>6, <1>7, <1>8, <1>9

\* getblk takes the buffer it found: nobody took the block away in between.
LEMMA HitContent ==
  ASSUME TypeInv, TypeInv', Own, Own', Content, NEW p \in Procs, GetblkHit(p)
  PROVE  Content'
<1>1. /\ pc[p] = "hit" /\ cpu \in {NoProc, p} /\ cand[p] \in Bufs
      /\ "BUSY" \notin flags[cand[p]]
  BY DEF GetblkHit, Running, TypeInv, PcOK
<1>2. PICK d \in Bufs : d = cand[p]
  BY <1>1
<1>3. /\ flags' = [flags EXCEPT ![d] = @ \cup {"BUSY"}] /\ Deliver(p, d)
      /\ UNCHANGED <<blk, data, ioq, disk, blkno, rablkno, mbuf, ret, err>>
  BY <1>2 DEF GetblkHit, ioVars, callVars, argVars, mntVars
<1>4. /\ Keeps(p) /\ FlagsSound(d) /\ Asked(d, Want(p)) /\ "INVAL" \notin flags[d]
      /\ ret[p] \in {"bread", "breada", "readahead", "getblk", "update"} /\ Want(p) \in Blks
  BY <1>1, <1>2 DEF Content, Keeps, Want
<1>5. /\ flags'[d] = flags[d] \cup {"BUSY"} /\ pc'[p] = "got"
      /\ \A c \in Bufs \ {d} : flags'[c] = flags[c]
      /\ \A q \in Procs \ {p} : pc'[q] = pc[q] /\ bp'[q] = bp[q] /\ rabp'[q] = rabp[q]
      /\ IF ret[p] = "readahead" THEN rabp'[p] = d /\ bp'[p] = bp[p]
                                 ELSE bp'[p] = d /\ rabp'[p] = rabp[p]
  BY <1>1, <1>3 DEF Deliver, Goto, TypeInv, TypeOK
<1>6. /\ \A e \in {"READ", "DONE", "ERROR", "DELWRI", "INVAL", "LOCKED"} :
           e \in flags'[d] <=> e \in flags[d]
      /\ "BUSY" \in flags'[d]
  BY <1>5
<1>7. FlagsSound(d)'
  BY <1>3, <1>4, <1>6 DEF FlagsSound, InFlight
<1>8. AsyncSafe => "ERROR" \notin flags[d]
  BY <1>1, <1>2, <1>4, ConstAssumption DEF FlagsSound, Asked
<1>9. Keeps(p)'
  <2>1. rabp[p] = NoBuf /\ NoBuf \notin Bufs
    BY <1>1, ConstAssumption DEF TypeInv, PcOK
  <2>2. CASE ret[p] = "readahead"
    <3>1. bp[p] \in Bufs => ("INVAL" \in flags'[bp[p]] <=> "INVAL" \in flags[bp[p]])
      BY <1>5, <1>6
    <3>2. Asked(d, rablkno[p])
      BY <1>4, <2>2 DEF Want
    <3> QED BY <1>3, <1>4, <1>5, <1>6, <1>8, <2>1, <2>2, <3>1, <3>2 DEF Keeps, Asked, Resting
  <2>3. CASE ret[p] # "readahead"
    <3>1. Asked(d, blkno[p])
      BY <1>4, <2>3 DEF Want
    <3> QED BY <1>3, <1>4, <1>5, <1>6, <1>8, <2>1, <2>3, <3>1 DEF Keeps, Asked, Resting
  <2> QED BY <2>2, <2>3
<1>10. Alone(p)' /\ Durable(p)'
  BY <1>3, <1>4, <1>5 DEF Alone, Durable
<1>11. \A k \in {"AGE", "LRU"} : \A c \in ToSet(fl'[k]) : c # d /\ c \in ToSet(fl[k])
  <2>1. \E q \in Queue : \E i \in DOMAIN fl[q] : NotAvail(q, i)
    BY DEF GetblkHit
  <2>2. \A k \in Queue : ToSet(fl'[k]) \subseteq ToSet(fl[k])
    BY <2>1, TakenOff
  <2>3. \A k \in Queue : d \notin ToSet(fl'[k])
    BY <1>6 DEF Own, FreeListsOK
  <2> QED BY <2>2, <2>3 DEF Queue
<1>12. \A q \in Procs : ~Holds(q, d)
  BY <1>1, <1>2 DEF Own, OneOwner
<1>13. ret[p] = "update" => blkno[p] \in Super /\ mbuf[blkno[p]] # NoBuf
  BY DEF Content, Mounted
<1> QED BY <1>1, <1>3, <1>4, <1>5, <1>6, <1>7, <1>9, <1>10, <1>11, <1>12, <1>13, StepContent

\* Starting a write of a buffer that waits on a list.
LEMMA WriteBackContent ==
  ASSUME TypeInv, TypeInv', Own, Own', Content, NEW p \in Procs, cpu \in {NoProc, p}, cpu' = p,
         pc[p] \in {"getblk", "geteblk", "bflush"}, pc' = [pc EXCEPT ![p] = "started"],
         NEW q \in Queue, NEW i \in DOMAIN fl[q], NotAvail(q, i), "DELWRI" \in flags[fl[q][i]],
         BwriteStart(fl[q][i], flags[fl[q][i]] \cup {"BUSY", "ASYNC"}),
         UNCHANGED <<blk, data, disk, blkno, rablkno, fdev, mbuf, ret, bp, rabp, err>>
  PROVE  Content'
<1>1. PICK b \in Bufs : b = fl[q][i] /\ b \in ToSet(fl[q])
  BY DEF TypeInv, TypeOK, ToSet
<1>2. "BUSY" \notin flags[b] /\ ~InFlight(b)
  BY <1>1 DEF Own, FreeListsOK, RequestsOK
<1>3. /\ FlagsSound(b) /\ Keeps(p) /\ Alone(p)
      /\ ret[p] = "update" => blkno[p] \in Super /\ mbuf[blkno[p]] # NoBuf
  BY DEF Content, Mounted
<1>4. "INVAL" \notin flags[b] /\ (AsyncSafe => blk[b] \in Blks)
  BY <1>1, <1>3 DEF FlagsSound
<1> DEFINE g == (flags[b] \cup {"BUSY", "ASYNC"}) \ {"READ", "DONE", "ERROR", "DELWRI", "AGE"}
<1>5. /\ flags' = [flags EXCEPT ![b] = g] /\ ioq' = Append(ioq, b)
      /\ "INVAL" \in g <=> "INVAL" \in flags[b]
      /\ "LOCKED" \in g <=> "LOCKED" \in flags[b]
      /\ "BUSY" \in g /\ "ERROR" \notin g /\ "DELWRI" \notin g
  BY <1>1 DEF BwriteStart
<1> HIDE DEF g
<1>6. /\ pc'[p] = "started" /\ \A r \in Procs \ {p} : pc'[r] = pc[r]
      /\ rabp[p] = NoBuf /\ ret[p] # "none"
      /\ \A c \in Bufs : "INVAL" \in flags'[c] <=> "INVAL" \in flags[c]
  <2>1. ret[p] # "none" /\ rabp[p] = NoBuf
    BY <1>3 DEF TypeInv, PcOK, Keeps
  <2>2. \A c \in Bufs : "INVAL" \in flags'[c] <=> "INVAL" \in flags[c]
    BY <1>5 DEF TypeInv, TypeOK
  <2> QED BY <2>1, <2>2 DEF TypeInv, TypeOK
<1>7. Keeps(p)'
  BY <1>3, <1>6, ConstAssumption DEF Keeps, Asked, Resting
<1>8. Alone(p)' /\ Durable(p)'
  BY <1>3, <1>6 DEF Alone, Durable, Using
<1>9. \A k \in Queue : ToSet(fl'[k]) \subseteq ToSet(fl[k])
  BY TakenOff
<1> QED BY <1>2, <1>3, <1>4, <1>5, <1>6, <1>7, <1>8, <1>9, SendContent

\* The steps of a process that hand a buffer to the driver.
LEMMA SendKernelContent ==
  ASSUME TypeInv, TypeInv', Own, Own', Content, NEW p \in Procs
  PROVE  /\ GetblkWriteBack(p) => Content'
         /\ BflushOne(p) => Content'
         /\ GotForRead(p) /\ "DONE" \notin flags[bp[p]] => Content'
         /\ UpdateGot(p) => Content'
         /\ ReadaheadStart(p) => Content'
<1>0. Keeps(p) /\ Alone(p) /\ (ret[p] = "update" => blkno[p] \in Super /\ mbuf[blkno[p]] # NoBuf)
  BY DEF Content, Mounted
<1>1. ASSUME GetblkWriteBack(p) PROVE Content'
  <2>1. /\ Victims \in Queue /\ 1 \in DOMAIN fl[Victims]
        /\ cpu \in {NoProc, p} /\ pc[p] \in {"getblk", "geteblk"}
    BY <1>1 DEF GetblkWriteBack, Missing, Running, Victims, Queue, TypeInv, TypeOK
  <2> QED BY <1>1, <2>1, WriteBackContent
           DEF GetblkWriteBack, Goto, callVars, argVars, mntVars
<1>2. ASSUME BflushOne(p) PROVE Content'
  <2>1. PICK q \in Queue : \E i \in DOMAIN fl[q] :
          /\ "DELWRI" \in flags[fl[q][i]] /\ NotAvail(q, i)
          /\ BwriteStart(fl[q][i], flags[fl[q][i]] \cup {"BUSY", "ASYNC"})
    BY <1>2 DEF BflushOne, ToFlush
  <2>2. /\ pc[p] = "bflush" /\ cpu \in {NoProc, p} /\ cpu' = p
        /\ pc' = [pc EXCEPT ![p] = "started"]
        /\ UNCHANGED <<blk, data, disk, blkno, rablkno, fdev, mbuf, ret, bp, rabp, err>>
    BY <1>2 DEF BflushOne, Running, Goto, callVars, argVars, mntVars
  <2> QED BY <2>1, <2>2, WriteBackContent
<1>3. ASSUME NEW b \in Bufs, NEW a \in SUBSET {"ASYNC"}, Holds(p, b), ~InFlight(b),
             pc[p] = "got", "INVAL" \notin flags[b],
             "DONE" \notin flags[b], AsyncSafe => blk[b] \in Blks, ReadStart(b, a)
      PROVE  \E g : /\ flags' = [flags EXCEPT ![b] = g] /\ ioq' = Append(ioq, b)
                    /\ "INVAL" \in g <=> "INVAL" \in flags[b]
                    /\ "LOCKED" \in g <=> "LOCKED" \in flags[b]
                    /\ "BUSY" \in g /\ "ERROR" \notin g /\ "DELWRI" \notin g
  <2>1. "BUSY" \in flags[b] /\ FlagsSound(b)
    BY <1>3 DEF Own, OneOwner, Content
  <2>2. "ERROR" \notin flags[b] /\ "DELWRI" \notin flags[b]
    BY <1>3, <2>1 DEF FlagsSound
  <2> WITNESS flags[b] \cup {"READ"} \cup a
  <2> QED BY <1>3, <2>1, <2>2 DEF ReadStart, TypeInv, TypeOK
<1>4. ASSUME GotForRead(p), "DONE" \notin flags[bp[p]] PROVE Content'
  <2>1. /\ pc[p] = "got" /\ ret[p] \in {"bread", "breada"} /\ cpu \in {NoProc, p}
        /\ pc'[p] \in {"iowait", "readahead"} /\ (pc'[p] = "readahead" => ret[p] = "breada")
        /\ UNCHANGED <<blk, data, disk, mbuf, fl, ret, blkno, rablkno, bp, rabp, err>>
        /\ \A q \in Procs \ {p} : pc'[q] = pc[q]
        /\ ReadStart(bp[p], {})
    BY <1>4 DEF GotForRead, Goto, Running, callVars, argVars, mntVars, TypeInv, TypeOK
  <2>2. PICK b \in Bufs : b = bp[p]
    BY <2>1 DEF TypeInv, PcOK
  <2>3. /\ Holds(p, b) /\ ~InFlight(b) /\ rabp[p] = NoBuf
        /\ "INVAL" \notin flags[b] /\ (AsyncSafe => blk[b] \in Blks)
    BY <1>0, <2>1, <2>2 DEF Holds, Own, Settled, Resting, Keeps, Asked, TypeInv, PcOK
  <2>4. PICK g : /\ flags' = [flags EXCEPT ![b] = g] /\ ioq' = Append(ioq, b)
                 /\ "INVAL" \in g <=> "INVAL" \in flags[b]
                 /\ "LOCKED" \in g <=> "LOCKED" \in flags[b]
                 /\ "BUSY" \in g /\ "ERROR" \notin g /\ "DELWRI" \notin g
    BY <1>3, <1>4, <2>1, <2>2, <2>3
  <2>5. flags'[b] = g
    BY <2>4 DEF TypeInv, TypeOK
  <2>6. Keeps(p)' /\ Alone(p)' /\ Durable(p)'
    BY <1>0, <2>1, <2>2, <2>3, <2>4, <2>5, ConstAssumption DEF Keeps, Alone, Durable, Asked, Resting
  <2> QED BY <2>1, <2>3, <2>4, <2>6, SendContent
<1>5. ASSUME UpdateGot(p) PROVE Content'
  <2>1. /\ pc[p] = "got" /\ ret[p] = "update" /\ cpu \in {NoProc, p} /\ pc'[p] = "iowait"
        /\ UNCHANGED <<blk, data, disk, mbuf, fl, ret, blkno, rablkno, bp, rabp, err>>
        /\ \A q \in Procs \ {p} : pc'[q] = pc[q]
    BY <1>5 DEF UpdateGot, Goto, Running, callVars, argVars, mntVars, TypeInv, TypeOK
  <2>2. PICK b \in Bufs : b = bp[p]
    BY <2>1 DEF TypeInv, PcOK
  <2>3. /\ Holds(p, b) /\ ~InFlight(b) /\ rabp[p] = NoBuf /\ "BUSY" \in flags[b]
        /\ "INVAL" \notin flags[b] /\ (AsyncSafe => blk[b] \in Blks)
    BY <1>0, <2>1, <2>2 DEF Holds, Own, OneOwner, Settled, Resting, Keeps, Asked, TypeInv, PcOK
  <2> DEFINE g == flags[b] \ {"READ", "DONE", "ERROR", "DELWRI", "AGE"}
  <2>4. /\ flags' = [flags EXCEPT ![b] = g] /\ ioq' = Append(ioq, b)
        /\ "INVAL" \in g <=> "INVAL" \in flags[b]
        /\ "LOCKED" \in g <=> "LOCKED" \in flags[b]
        /\ "BUSY" \in g /\ "ERROR" \notin g /\ "DELWRI" \notin g
    BY <1>5, <2>2, <2>3 DEF UpdateGot, BwriteStart
  <2> HIDE DEF g
  <2>5. flags'[b] = g
    BY <2>4 DEF TypeInv, TypeOK
  <2>6. Keeps(p)' /\ Alone(p)' /\ Durable(p)'
    BY <1>0, <2>1, <2>2, <2>3, <2>4, <2>5, ConstAssumption DEF Keeps, Alone, Durable, Asked, Resting
  <2> QED BY <1>0, <2>1, <2>3, <2>4, <2>6, SendContent
<1>6. ASSUME ReadaheadStart(p) PROVE Content'
  <2>1. /\ pc[p] = "got" /\ ret[p] = "readahead" /\ cpu \in {NoProc, p} /\ rabp'[p] = NoBuf
        /\ \/ bp[p] = NoBuf /\ pc'[p] = "getblk" /\ ret'[p] = "bread"
           \/ pc'[p] = "iowait" /\ ret'[p] = "breada"
        /\ UNCHANGED <<blk, data, disk, mbuf, fl, blkno, rablkno, bp, err>>
        /\ \A q \in Procs \ {p} : pc'[q] = pc[q] /\ ret'[q] = ret[q] /\ rabp'[q] = rabp[q]
        /\ ReadStart(rabp[p], {"ASYNC"}) /\ "DONE" \notin flags[rabp[p]]
    BY <1>6 DEF ReadaheadStart, AfterReadahead, Goto, Running, callVars, argVars, mntVars,
            TypeInv, TypeOK
  <2>2. PICK b \in Bufs : b = rabp[p]
    BY <2>1 DEF TypeInv, PcOK
  <2>3. /\ Holds(p, b) /\ ~InFlight(b)
        /\ "INVAL" \notin flags[b] /\ (AsyncSafe => blk[b] \in Blks)
    BY <1>0, <2>1, <2>2, ConstAssumption DEF Holds, Own, Settled, Keeps, Asked
  <2>4. PICK g : /\ flags' = [flags EXCEPT ![b] = g] /\ ioq' = Append(ioq, b)
                 /\ "INVAL" \in g <=> "INVAL" \in flags[b]
                 /\ "LOCKED" \in g <=> "LOCKED" \in flags[b]
                 /\ "BUSY" \in g /\ "ERROR" \notin g /\ "DELWRI" \notin g
    BY <1>3, <2>1, <2>2, <2>3
  <2>5. \A c \in Bufs : "INVAL" \in flags'[c] <=> "INVAL" \in flags[c]
    BY <2>4 DEF TypeInv, TypeOK
  <2>6. Keeps(p)' /\ Alone(p)' /\ Durable(p)'
    BY <1>0, <2>1, <2>5, ConstAssumption DEF Keeps, Alone, Durable, Asked, Resting
  <2> QED BY <2>1, <2>3, <2>4, <2>6, SendContent
<1> QED BY <1>1, <1>2, <1>4, <1>5, <1>6

\* The steps of a process that release a buffer on its way.
LEMMA ReleaseKernelContent ==
  ASSUME TypeInv, TypeInv', Own, Own', Content, NEW p \in Procs
  PROVE  /\ ReadaheadCached(p) => Content'
         /\ BwriteDone(p) => Content'
<1>0. Keeps(p) /\ flags \in [Bufs -> SUBSET Flag]
  BY DEF Content, TypeInv, TypeOK
<1>1. ASSUME NEW b \in Bufs, Holds(p, b), "DONE" \in flags[b]
      PROVE  /\ ~InFlight(b)
             /\ "DELWRI" \in flags[b] => /\ "DONE" \in flags[b] /\ "INVAL" \notin flags[b]
                                         /\ AsyncSafe => "ERROR" \notin flags[b] /\ blk[b] \in Blks
  BY <1>1 DEF Own, RequestsOK, Content, FlagsSound
<1>2. ASSUME ReadaheadCached(p) PROVE Content'
  <2>1. /\ pc[p] = "got" /\ ret[p] = "readahead" /\ cpu \in {NoProc, p} /\ rabp'[p] = NoBuf
        /\ \/ bp[p] = NoBuf /\ pc'[p] = "getblk" /\ ret'[p] = "bread"
           \/ pc'[p] = "iowait" /\ ret'[p] = "breada"
        /\ UNCHANGED <<data, disk, ioq, mbuf, blkno, rablkno, bp, err>>
        /\ \A q \in Procs \ {p} : pc'[q] = pc[q] /\ ret'[q] = ret[q] /\ rabp'[q] = rabp[q]
        /\ Brelse(rabp[p], flags[rabp[p]]) /\ "DONE" \in flags[rabp[p]]
    BY <1>2 DEF ReadaheadCached, AfterReadahead, Goto, Running, ioVars, callVars, argVars, mntVars,
            TypeInv, TypeOK
  <2>2. PICK b \in Bufs : b = rabp[p]
    BY <2>1 DEF TypeInv, PcOK
  <2>3. Holds(p, b) /\ bp[p] # b /\ Brelse(b, flags[b]) /\ "DONE" \in flags[b]
    BY <2>1, <2>2, ConstAssumption DEF Holds, Own, OneOwner
  <2>4. \A c \in Bufs \ {b} : flags'[c] = flags[c] /\ blk'[c] = blk[c]
    BY <1>0, <2>3, BrelseEffect DEF TypeInv
  <2>5. Keeps(p)'
    BY <1>0, <2>1, <2>3, <2>4, ConstAssumption DEF Keeps, Asked, Resting
  <2>6. Alone(p)' /\ Durable(p)' /\ ret'[p] # "update"
    BY <2>1 DEF Alone, Durable
  <2> QED BY <1>0, <1>1, <2>1, <2>3, <2>5, <2>6, ReleaseContent
<1>3. ASSUME BwriteDone(p) PROVE Content'
  <2>1. /\ pc[p] = "iowait" /\ ret[p] \in {"bwrite", "update"} /\ cpu \in {NoProc, p}
        /\ bp'[p] = NoBuf /\ rabp[p] = NoBuf
        /\ UNCHANGED <<data, disk, ioq, mbuf, rabp>>
        /\ \A q \in Procs \ {p} : bp'[q] = bp[q]
        /\ Brelse(bp[p], flags[bp[p]]) /\ "DONE" \in flags[bp[p]]
    BY <1>3 DEF BwriteDone, Running, ioVars, TypeInv, TypeOK, PcOK
  <2>2. /\ \/ pc'[p] = "user" /\ ret'[p] = "none"
           \/ pc'[p] = "bflush" /\ ret'[p] = "bflush"
        /\ \A q \in Procs \ {p} :
             /\ pc'[q] = pc[q] /\ ret'[q] = ret[q] /\ blkno'[q] = blkno[q]
             /\ rablkno'[q] = rablkno[q] /\ err'[q] = err[q]
    BY <1>3 DEF BwriteDone, Return, Geterror, Goto, argVars, TypeInv, TypeOK
  <2>3. PICK b \in Bufs : b = bp[p]
    BY <2>1 DEF TypeInv, PcOK
  <2>4. Holds(p, b) /\ Brelse(b, flags[b]) /\ "DONE" \in flags[b]
    BY <2>1, <2>3 DEF Holds
  <2>5. Keeps(p)' /\ Alone(p)' /\ Durable(p)' /\ ret'[p] # "update"
    BY <2>1, <2>2, ConstAssumption DEF Keeps, Alone, Durable
  <2> QED BY <1>0, <1>1, <2>1, <2>2, <2>4, <2>5, ReleaseContent
<1> QED BY <1>2, <1>3

\* Every step of a process in the kernel.
LEMMA KernelContent ==
  ASSUME TypeInv, TypeInv', Own, Own', Content, NEW p \in Procs, KernelStep(p)
  PROVE  Content'
BY QuietKernelContent, HitContent, SendKernelContent, ReleaseKernelContent, ReassignContent,
   BflushDoneContent DEF KernelStep

\* What the end of a transfer does to the buffer and to the driver's queue.
LEMMA IodoneEffect ==
  ASSUME TypeInv, Own, NEW i \in DOMAIN ioq, NEW ok \in BOOLEAN, Iodone(i, ok),
         NEW b \in Bufs, b = ioq[i]
  PROVE  /\ \A e \in {"READ", "DELWRI", "INVAL", "LOCKED"} : e \in flags'[b] <=> e \in flags[b]
         /\ "DONE" \in flags'[b] /\ "DONE" \notin flags[b] /\ InFlight(b)
         /\ ok /\ "ERROR" \in flags'[b] => "ERROR" \in flags[b]
         /\ ok => blk[b] \in Blks
         /\ ~ok => CanFail(b) \/ blk[b] \notin Blks
         /\ blk'[b] = IF "ASYNC" \in flags[b] /\ "ERROR" \in flags'[b] THEN NoBlk ELSE blk[b]
         /\ "ASYNC" \in flags[b] /\ "LOCKED" \in flags[b] => "ERROR" \notin flags'[b]
         /\ "BUSY" \in flags'[b] => "ASYNC" \notin flags[b]
         /\ "ASYNC" \notin flags[b] => "BUSY" \in flags'[b] /\ (~ok => "ERROR" \in flags'[b])
         /\ \A c \in Bufs \ {b} : flags'[c] = flags[c] /\ blk'[c] = blk[c] /\ data'[c] = data[c]
         /\ "READ" \notin flags[b] => data' = data
         /\ \A x \in Blks : disk'[x] = IF ok /\ "READ" \notin flags[b] /\ blk[b] = x
                                       THEN data[b] ELSE disk[x]
         /\ ToSet(ioq') = ToSet(ioq) \ {b}
         /\ \A k \in {"AGE", "LRU"} : \A c \in ToSet(fl'[k]) :
               \/ c \in ToSet(fl[k])
               \/ c = b /\ ("LOCKED" \in flags'[b] => "INVAL" \in flags'[b])
         /\ UNCHANGED <<cpu, pc, ret, blkno, rablkno, fdev, mbuf, bp, rabp, cand, err>>
<1> DEFINE f == flags[b] \cup {"DONE"} \cup (IF ok THEN {} ELSE {"ERROR"})
<1>1. /\ ioq \in Seq(Bufs) /\ flags[b] \in SUBSET Flag /\ f \in SUBSET Flag
      /\ flags \in [Bufs -> SUBSET Flag] /\ data \in [Bufs -> Vals] /\ disk \in [Blks -> Vals]
      /\ TypeOK
  BY DEF TypeInv, TypeOK, Flag
<1>2. InFlight(b) /\ "BUSY" \in flags[b] /\ "DONE" \notin flags[b] /\ IsInjective(ioq)
  <2>1. InFlight(b)
    BY <1>1 DEF InFlight, ToSet
  <2> QED BY <2>1 DEF Own, RequestsOK
<1>3. /\ \A e \in {"READ", "DELWRI", "INVAL", "LOCKED", "ASYNC", "BUSY"} : e \in f <=> e \in flags[b]
      /\ "DONE" \in f /\ ("ERROR" \in f <=> ~ok \/ "ERROR" \in flags[b])
  OBVIOUS
<1>4. /\ ok => blk[b] \in Blks
      /\ ~ok => CanFail(b) \/ blk[b] \notin Blks
      /\ ioq' = RemoveAt(ioq, i)
      /\ data' = IF ok /\ "READ" \in flags[b] THEN [data EXCEPT ![b] = disk[blk[b]]] ELSE data
      /\ disk' = IF ok /\ "READ" \notin flags[b] THEN [disk EXCEPT ![blk[b]] = data[b]] ELSE disk
      /\ UNCHANGED <<cpu, pc, ret, blkno, rablkno, fdev, mbuf, bp, rabp, cand, err>>
  BY DEF Iodone, callVars, argVars, mntVars
<1>5. /\ "ASYNC" \in f => Brelse(b, f)
      /\ "ASYNC" \notin f => flags' = [flags EXCEPT ![b] = f \ {"WANTED"}] /\ UNCHANGED <<blk, fl>>
  BY DEF Iodone
<1> HIDE DEF f
<1>6. ToSet(ioq') = ToSet(ioq) \ {b}
  BY <1>1, <1>2, <1>4, RemoveAtSet
<1>7. /\ \A x \in Blks : disk'[x] = IF ok /\ "READ" \notin flags[b] /\ blk[b] = x
                                    THEN data[b] ELSE disk[x]
      /\ \A c \in Bufs \ {b} : data'[c] = data[c]
      /\ "READ" \notin flags[b] => data' = data
  BY <1>1, <1>4
<1>8. CASE "ASYNC" \in f
  <2>1. /\ \A e \in {"READ", "DONE", "DELWRI", "INVAL", "LOCKED"} : e \in flags'[b] <=> e \in f
        /\ "ERROR" \in flags'[b] <=> "ERROR" \in f /\ "LOCKED" \notin f
        /\ blk'[b] = IF "ERROR" \in flags'[b] THEN NoBlk ELSE blk[b]
        /\ "BUSY" \notin flags'[b]
        /\ \A c \in Bufs \ {b} : flags'[c] = flags[c] /\ blk'[c] = blk[c]
        /\ \A k \in {"AGE", "LRU"} : \A c \in ToSet(fl'[k]) :
              \/ c \in ToSet(fl[k])
              \/ c = b /\ ("LOCKED" \in f => "INVAL" \in f)
    BY <1>1, <1>5, <1>8, BrelseEffect
  <2> QED BY <1>2, <1>3, <1>4, <1>6, <1>7, <1>8, <2>1
<1>9. CASE "ASYNC" \notin f
  <2>1. /\ flags'[b] = f \ {"WANTED"} /\ blk' = blk /\ fl' = fl
        /\ \A c \in Bufs \ {b} : flags'[c] = flags[c]
    BY <1>1, <1>5, <1>9
  <2> QED BY <1>2, <1>3, <1>4, <1>6, <1>7, <1>9, <2>1
<1> QED BY <1>8, <1>9

\* The end of a transfer: the others keep what they have, and what a process
\* waited for has reached the disk, where no request is left to overwrite it.
LEMMA IodoneContent ==
  ASSUME TypeInv, TypeInv', Own, Own', Content, NEW i \in DOMAIN ioq, NEW ok \in BOOLEAN,
         Iodone(i, ok)
  PROVE  Content'
<1>1. PICK b \in Bufs : b = ioq[i]
  BY DEF TypeInv, TypeOK
<1>2. /\ \A e \in {"READ", "DELWRI", "INVAL", "LOCKED"} : e \in flags'[b] <=> e \in flags[b]
      /\ "DONE" \in flags'[b] /\ "DONE" \notin flags[b] /\ InFlight(b)
      /\ ok /\ "ERROR" \in flags'[b] => "ERROR" \in flags[b]
      /\ ok => blk[b] \in Blks
      /\ ~ok => CanFail(b) \/ blk[b] \notin Blks
      /\ blk'[b] = IF "ASYNC" \in flags[b] /\ "ERROR" \in flags'[b] THEN NoBlk ELSE blk[b]
      /\ "ASYNC" \in flags[b] /\ "LOCKED" \in flags[b] => "ERROR" \notin flags'[b]
      /\ "BUSY" \in flags'[b] => "ASYNC" \notin flags[b]
      /\ "ASYNC" \notin flags[b] => "BUSY" \in flags'[b] /\ (~ok => "ERROR" \in flags'[b])
      /\ \A c \in Bufs \ {b} : flags'[c] = flags[c] /\ blk'[c] = blk[c] /\ data'[c] = data[c]
      /\ "READ" \notin flags[b] => data' = data
      /\ \A x \in Blks : disk'[x] = IF ok /\ "READ" \notin flags[b] /\ blk[b] = x
                                    THEN data[b] ELSE disk[x]
      /\ ToSet(ioq') = ToSet(ioq) \ {b}
      /\ \A k \in {"AGE", "LRU"} : \A c \in ToSet(fl'[k]) :
            \/ c \in ToSet(fl[k])
            \/ c = b /\ ("LOCKED" \in flags'[b] => "INVAL" \in flags'[b])
      /\ UNCHANGED <<cpu, pc, ret, blkno, rablkno, fdev, mbuf, bp, rabp, cand, err>>
  BY <1>1, IodoneEffect
<1>3. /\ FlagsSound(b) /\ "DELWRI" \notin flags[b] /\ "ERROR" \notin flags[b]
      /\ blk'[b] \in {blk[b], NoBlk}
  BY <1>2 DEF Content, FlagsSound
\* Without errors of asynchronous transfers the buffer keeps its block.
<1>4. AsyncSafe => blk'[b] = blk[b]
  <2> SUFFICES ASSUME AsyncSafe, "ASYNC" \in flags[b], ~ok PROVE FALSE
    BY <1>2, <1>3
  <2>1. blk[b] \in Blks
    BY <1>2, <1>3 DEF FlagsSound
  <2> QED BY <1>2, <2>1 DEF CanFail, AsyncSafe
<1>5. /\ \A c \in Bufs : blk'[c] \in {blk[c], NoBlk}
      /\ \A c \in Bufs : \A e \in {"READ", "DELWRI", "INVAL", "LOCKED"} :
           e \in flags'[c] <=> e \in flags[c]
      /\ NoBuf \notin Bufs /\ NoBlk \notin Blks
      /\ \A c : InFlight(c)' <=> InFlight(c) /\ c # b
  BY <1>2, <1>3, ConstAssumption DEF InFlight
<1>6. ASSUME NEW c \in Bufs PROVE FlagsSound(c)'
  <2>1. CASE c = b
    BY <1>2, <1>3, <1>5, <2>1 DEF FlagsSound
  <2>2. CASE c # b
    <3>1. FlagsSound(c) /\ flags'[c] = flags[c] /\ blk'[c] = blk[c]
      BY <1>2, <2>2 DEF Content
    <3> QED BY <1>5, <2>2, <3>1 DEF FlagsSound
  <2> QED BY <2>1, <2>2
<1>7. UniqueBlock'
  <2>1. \A c \in Bufs : \A x \in Blks : Matches(c, x)' => Matches(c, x)
    BY <1>5 DEF Matches
  <2> QED BY <2>1 DEF Content, UniqueBlock
<1>8. /\ ioq \in Seq(Bufs) /\ ioq' \in Seq(Bufs) /\ Len(ioq) \in Nat /\ i \in 1 .. Len(ioq)
      /\ DOMAIN ioq' = 1 .. Len(ioq) - 1
      /\ \A j \in 1 .. Len(ioq) - 1 : ioq'[j] = IF j < i THEN ioq[j] ELSE ioq[j + 1]
  <2>1. ioq \in Seq(Bufs) /\ ioq' = RemoveAt(ioq, i)
    BY DEF TypeInv, TypeOK, Iodone
  <2> QED BY <2>1, RemoveAtElements
<1>9. Ordered'
  <2> SUFFICES ASSUME NEW j \in DOMAIN ioq', NEW k \in DOMAIN ioq', j < k,
                      blk'[ioq'[j]] = blk'[ioq'[k]], blk'[ioq'[k]] \in Blks
               PROVE  "INVAL" \in flags'[ioq'[j]]
    BY DEF Ordered
  <2> DEFINE j0 == IF j < i THEN j ELSE j + 1
             k0 == IF k < i THEN k ELSE k + 1
  <2>1. /\ j0 \in DOMAIN ioq /\ k0 \in DOMAIN ioq /\ j0 < k0
        /\ ioq'[j] = ioq[j0] /\ ioq'[k] = ioq[k0]
        /\ ioq[j0] \in Bufs /\ ioq[k0] \in Bufs
    BY <1>8, SMTT(60)
  <2> HIDE DEF j0, k0
  <2>2. blk[ioq[j0]] = blk[ioq[k0]] /\ blk[ioq[k0]] \in Blks
    BY <1>5, <2>1
  <2>3. "INVAL" \in flags[ioq[j0]]
    BY <2>1, <2>2 DEF Content, Ordered
  <2> QED BY <1>5, <2>1, <2>3
<1>10. ASSUME NEW q \in Procs PROVE Keeps(q)'
  <2>1. Keeps(q) /\ Want(q)' = Want(q)
    BY <1>2 DEF Content, Want
  <2>2. \A c \in Bufs : Holds(q, c) => blk'[c] = blk[c]
    BY <1>2 DEF Own, OneOwner
  <2>3. bp[q] \in Bufs => /\ Asked(bp[q], blkno[q])'
                          /\ ret[q] # "geteblk" => "INVAL" \notin flags'[bp[q]]
    BY <1>2, <1>5, <2>1, <2>2 DEF Keeps, Asked, Holds
  <2>4. bp[q] \in Bufs /\ Resting(q) => flags'[bp[q]] = flags[bp[q]]
    BY <1>2 DEF Own, Settled
  <2>5. rabp[q] \in Bufs => flags'[rabp[q]] = flags[rabp[q]] /\ Asked(rabp[q], rablkno[q])'
    <3>1. rabp[q] \in Bufs => ~InFlight(rabp[q])
      BY <1>5 DEF Own, Settled
    <3> QED BY <1>2, <2>1, <2>2, <3>1 DEF Keeps, Asked, Holds
  <2>6. pc[q] = "hit" => Asked(cand[q], Want(q))' /\ "INVAL" \notin flags'[cand[q]]
    <3> SUFFICES ASSUME pc[q] = "hit"
                 PROVE  Asked(cand[q], Want(q))' /\ "INVAL" \notin flags'[cand[q]]
      OBVIOUS
    <3>1. cand[q] \in Bufs /\ Asked(cand[q], Want(q)) /\ "INVAL" \notin flags[cand[q]]
      BY <2>1 DEF TypeInv, PcOK, Keeps
    <3>2. CASE AsyncSafe
      BY <1>2, <1>4, <1>5, <2>1, <3>1, <3>2 DEF Asked
    <3>3. CASE ~AsyncSafe
      BY <1>2, <1>5, <2>1, <3>1, <3>3 DEF Asked
    <3> QED BY <3>2, <3>3
  <2> QED BY <1>2, <2>1, <2>3, <2>4, <2>5, <2>6 DEF Keeps, Resting
<1>11. ASSUME NEW q \in Procs PROVE Alone(q)'
  <2>1. Alone(q)
    BY DEF Content
  <2> QED BY <1>2, <2>1 DEF Alone, Using
<1>12. ASSUME NEW q \in Procs PROVE Durable(q)'
  <2> SUFFICES ASSUME pc[q] = "iowait", ret[q] = "bwrite"
               PROVE  Durable(q)'
    BY <1>2 DEF Durable
  <2>1. /\ bp[q] \in Bufs /\ Durable(q) /\ blkno[q] \in Blks /\ Asked(bp[q], blkno[q])
        /\ "INVAL" \notin flags[bp[q]] /\ "READ" \notin flags[bp[q]]
    BY DEF TypeInv, PcOK, Content, Keeps, Durable
  <2>2. "READ" \notin flags'[bp[q]]
    BY <1>5, <2>1
  <2>3. CASE bp[q] = b
    <3> SUFFICES ASSUME flags'[b] \cap {"DONE", "ERROR"} = {"DONE"}
                 PROVE  /\ blk'[b] = blkno[q]
                        /\ disk'[blkno[q]] = data'[b]
                        /\ \A c \in ToSet(ioq') : blk'[c] # blkno[q]
      BY <1>2, <2>2, <2>3 DEF Durable
    <3>1. "ASYNC" \notin flags[b] /\ "ERROR" \notin flags'[b]
      BY <2>3 DEF Own, OneOwner, Holds
    <3>2. ok /\ blk[b] \in Blks /\ blk'[b] = blk[b]
      BY <1>2, <3>1
    <3>3. blk[b] = blkno[q]
      BY <1>5, <2>1, <2>3, <3>2 DEF Asked
    <3>4. disk'[blkno[q]] = data'[b]
      BY <1>2, <2>1, <2>3, <3>2, <3>3
    <3>5. ASSUME NEW c \in ToSet(ioq') PROVE blk'[c] # blkno[q]
      <4>1. PICK j \in DOMAIN ioq : ioq[j] = c
        BY <1>2 DEF ToSet
      <4>2. c # b /\ c \in Bufs /\ j # i /\ blk'[c] = blk[c]
        BY <1>1, <1>2, <1>8, <4>1
      <4>3. CASE j < i
        <5>1. Oldest(i) /\ j \in 1 .. i - 1
          BY <1>8, <4>3 DEF Iodone
        <5> QED BY <1>1, <3>3, <4>1, <4>2, <5>1 DEF Oldest
      <4>4. CASE i < j
        BY <1>1, <2>1, <2>3, <3>2, <3>3, <4>1, <4>2, <4>4 DEF Content, Ordered
      <4> QED BY <1>8, <4>1, <4>2, <4>3, <4>4
    <3> QED BY <3>2, <3>3, <3>4, <3>5
  <2>4. CASE bp[q] # b
    <3> SUFFICES ASSUME flags'[bp[q]] \cap {"DONE", "ERROR"} = {"DONE"}
                 PROVE  /\ blk'[bp[q]] = blkno[q]
                        /\ disk'[blkno[q]] = data'[bp[q]]
                        /\ \A c \in ToSet(ioq') : blk'[c] # blkno[q]
      BY <1>2, <2>2 DEF Durable
    <3>1. /\ blk[bp[q]] = blkno[q] /\ disk[blkno[q]] = data[bp[q]]
          /\ \A c \in ToSet(ioq) : blk[c] # blkno[q]
      BY <1>2, <2>1, <2>4 DEF Durable
    <3>2. blk[b] # blkno[q]
      BY <1>2, <3>1 DEF InFlight
    <3>3. \A c \in ToSet(ioq') : c \in Bufs \ {b}
      BY <1>2, InFlightBufs DEF InFlight, TypeInv
    <3> QED BY <1>2, <2>1, <2>4, <3>1, <3>2, <3>3
  <2> QED BY <2>3, <2>4
<1>13. Mounted'
  <2>1. ASSUME NEW x \in Super, mbuf[x] # NoBuf
        PROVE  /\ Asked(mbuf[x], x)'
               /\ "LOCKED" \in flags'[mbuf[x]] /\ "INVAL" \notin flags'[mbuf[x]]
    <3>1. /\ mbuf[x] \in Bufs /\ Asked(mbuf[x], x)
          /\ "LOCKED" \in flags[mbuf[x]] /\ "INVAL" \notin flags[mbuf[x]]
      BY <2>1 DEF TypeInv, TypeOK, Content, Mounted
    <3>2. blk'[mbuf[x]] = blk[mbuf[x]]
      BY <1>2, <3>1
    <3> QED BY <1>2, <1>5, <3>1, <3>2 DEF Asked
  <2>2. ASSUME NEW k \in {"AGE", "LRU"}, NEW c \in ToSet(fl'[k]), "LOCKED" \in flags'[c]
        PROVE  "INVAL" \in flags'[c]
    <3>1. CASE c \in ToSet(fl[k])
      <4>1. c \in Bufs
        BY <3>1 DEF TypeInv, TypeOK, Queue, ToSet
      <4> QED BY <1>5, <2>2, <3>1, <4>1 DEF Content, Mounted
    <3> QED BY <1>2, <2>2, <3>1
  <2> QED BY <1>2, <2>1, <2>2 DEF Content, Mounted
<1> QED BY <1>6, <1>7, <1>9, <1>10, <1>11, <1>12, <1>13 DEF Content

\* At first no buffer has a block.
LEMMA InitContent == Init => Content
<1> SUFFICES ASSUME Init PROVE Content
  OBVIOUS
<1>1. ToSet(ioq) = {} /\ DOMAIN ioq = {}
  BY DEF Init, ToSet
<1>2. \A b \in Bufs : FlagsSound(b)
  BY <1>1 DEF Init, FlagsSound, InFlight
<1>3. UniqueBlock /\ Ordered
  BY <1>1 DEF Init, UniqueBlock, Matches, Ordered
<1>4. ASSUME NEW p \in Procs PROVE Keeps(p) /\ Alone(p) /\ Durable(p)
  BY ConstAssumption DEF Init, Keeps, Alone, Durable
<1>5. \A b \in Bufs : "LOCKED" \notin flags[b]
  BY DEF Init
<1>6. \A k \in {"AGE", "LRU"} : \A b \in ToSet(fl[k]) : b \in Bufs
  <2>1. fl \in [Queue -> Seq(Bufs)]
    BY InitType DEF TypeInv, TypeOK
  <2> QED BY <2>1 DEF Queue, ToSet
<1>7. Mounted
  BY <1>5, <1>6 DEF Init, Mounted
<1> QED BY <1>2, <1>3, <1>4, <1>7 DEF Content

LEMMA NextContent == TypeInv /\ TypeInv' /\ Own /\ Own' /\ Content /\ [Next]_vars => Content'
<1> SUFFICES ASSUME TypeInv, TypeInv', Own, Own', Content, [Next]_vars PROVE Content'
  OBVIOUS
<1>1. CASE \E p \in Procs : UserStep(p) \/ HoldStep(p) \/ KernelStep(p)
  BY <1>1, EnterContent, HoldContent, KernelContent
<1>2. CASE Interrupt
  BY <1>2, IodoneContent DEF Interrupt, Complete
<1>3. CASE UNCHANGED vars
  <2>1. \A b \in Bufs : FlagsSound(b)'
    BY <1>3 DEF vars, Content, FlagsSound, InFlight
  <2>2. UniqueBlock' /\ Ordered'
    BY <1>3 DEF vars, Content, UniqueBlock, Matches, Ordered
  <2>3. \A p \in Procs : Keeps(p)' /\ Alone(p)' /\ Durable(p)'
    BY <1>3 DEF vars, Content, Keeps, Alone, Durable, Asked, Resting, Want, Using
  <2>4. Mounted'
    BY <1>3 DEF vars, Content, Mounted, Asked
  <2> QED BY <2>1, <2>2, <2>3, <2>4 DEF Content
<1> QED BY <1>1, <1>2, <1>3 DEF Next

LEMMA ContentInvariant == Spec => [](TypeInv /\ Own /\ Content)
<1>1. Spec => []TypeInv
  BY TypeInvariant
<1>2. Spec => []Own
  BY OwnInvariant, PTL
<1>3. Init => Content
  BY InitContent
<1>4. TypeInv /\ TypeInv' /\ Own /\ Own' /\ Content /\ [Next]_vars => Content'
  BY NextContent
<1> QED BY <1>1, <1>2, <1>3, <1>4, PTL DEF Spec

\* No block is in two valid buffers: whoever looks for a block finds the one
\* copy there is, and no write is lost in a second one.
THEOREM OneCopy == Spec => []UniqueBlock
<1>1. Content => UniqueBlock
  BY DEF Content
<1> QED BY <1>1, ContentInvariant, PTL

\* When bwrite has waited without error, the block is on the disk.
THEOREM WritesDurable == Spec => []SyncWriteDurable
<1>1. Content => SyncWriteDurable
  BY DEF Content, Durable, SyncWriteDurable
<1> QED BY <1>1, ContentInvariant, PTL

\* getblk, bread and breada return the block they were asked for, and a
\* superblock stays in the buffer it was mounted from, as long as no
\* asynchronous transfer fails.
THEOREM BlockAsked == ASSUME AsyncSafe PROVE Spec => []RightBlock
<1>1. TypeInv /\ Content => RightBlock
  <2> SUFFICES ASSUME TypeInv, Content PROVE RightBlock
    OBVIOUS
  <2>1. ASSUME NEW p \in Procs, pc[p] = "hold", ret[p] # "geteblk", ~err[p]
        PROVE  blk[bp[p]] = blkno[p]
    BY <2>1 DEF TypeInv, PcOK, Content, Keeps, Asked
  <2>2. ASSUME NEW p \in Procs, pc[p] = "got", ret[p] = "update"
        PROVE  bp[p] = mbuf[blkno[p]]
    <3>1. /\ bp[p] \in Bufs /\ Asked(bp[p], blkno[p]) /\ "INVAL" \notin flags[bp[p]]
          /\ blkno[p] \in Super /\ mbuf[blkno[p]] # NoBuf /\ blkno[p] \in Blks
      BY <2>2, ConstAssumption DEF TypeInv, PcOK, Content, Keeps, Mounted
    <3>2. /\ mbuf[blkno[p]] \in Bufs /\ Asked(mbuf[blkno[p]], blkno[p])
          /\ "INVAL" \notin flags[mbuf[blkno[p]]]
      BY <3>1 DEF TypeInv, TypeOK, Content, Mounted
    <3> QED BY <3>1, <3>2 DEF Asked, Content, UniqueBlock, Matches
  <2>3. \A x \in Super : mbuf[x] # NoBuf => Matches(mbuf[x], x)
    BY DEF Content, Mounted, Asked, Matches
  <2> QED BY <2>1, <2>2, <2>3 DEF RightBlock
<1> QED BY <1>1, ContentInvariant, PTL
=============================================================================
