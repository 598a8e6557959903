--------------------------- MODULE BufCacheProofs ---------------------------
(***************************************************************************)
(* Theorems about BufCache, for every number of processes, buffers and     *)
(* blocks, and for drivers whose transfers may or may not fail: types, the *)
(* free lists, who owns which buffer, and that no wakeup is lost.          *)
(***************************************************************************)
EXTENDS BufCache, TLAPS

-----------------------------------------------------------------------------
(* Sequences without repetitions: the free lists and the driver's queue.   *)

\* What RemoveAt leaves, element by element.
LEMMA RemoveAtElements ==
  ASSUME NEW S, NEW s \in Seq(S), NEW i \in DOMAIN s
  PROVE  /\ RemoveAt(s, i) \in Seq(S)
         /\ Len(RemoveAt(s, i)) = Len(s) - 1
         /\ \A j \in 1 .. Len(s) - 1 :
              RemoveAt(s, i)[j] = IF j < i THEN s[j] ELSE s[j + 1]
<1> DEFINE h == SubSeq(s, 1, i - 1)
           t == SubSeq(s, i + 1, Len(s))
<1>1. i \in 1 .. Len(s) /\ Len(s) \in Nat
  OBVIOUS
<1>2. h \in Seq(S) /\ Len(h) = i - 1 /\ \A j \in 1 .. i - 1 : h[j] = s[j]
  BY <1>1
<1>3. /\ t \in Seq(S)
      /\ Len(t) = Len(s) - i
      /\ \A j \in 1 .. Len(s) - i : t[j] = s[j + i]
  BY <1>1
<1>4. RemoveAt(s, i) = h \o t
  BY DEF RemoveAt
<1> HIDE DEF h, t
<1>5. h \o t \in Seq(S) /\ Len(h \o t) = Len(s) - 1
  BY <1>1, <1>2, <1>3
<1>6. ASSUME NEW j \in 1 .. Len(s) - 1
      PROVE  (h \o t)[j] = IF j < i THEN s[j] ELSE s[j + 1]
  <2>1. CASE j < i
    BY <1>1, <1>2, <1>3, <2>1
  <2>2. CASE ~(j < i)
    <3>0. j \in Nat /\ i \in Nat /\ Len(s) \in Nat
      BY <1>1
    <3>1. j \in Len(h) + 1 .. Len(h) + Len(t)
      BY <1>1, <1>2, <1>3, <2>2
    <3>2. (h \o t)[j] = t[j - Len(h)]
      <4>1. /\ h \in Seq(S) /\ t \in Seq(S) /\ j \in Nat
            /\ j > Len(h) /\ j <= Len(h) + Len(t)
        BY <1>2, <1>3, <3>1
      <4> QED BY <4>1
    <3>3. j - Len(h) \in 1 .. Len(s) - i /\ j - Len(h) + i = j + 1
      <4>1. j >= i /\ j <= Len(s) - 1 /\ Len(h) = i - 1
        BY <1>1, <1>2, <2>2
      <4> QED BY <3>0, <4>1
    <3> QED BY <1>3, <2>2, <3>2, <3>3
  <2> QED BY <2>1, <2>2
<1> QED BY <1>4, <1>5, <1>6

\* RemoveAt takes away the one element it is told to.
LEMMA RemoveAtSet ==
  ASSUME NEW S, NEW s \in Seq(S), NEW i \in DOMAIN s, IsInjective(s)
  PROVE  /\ RemoveAt(s, i) \in Seq(S)
         /\ IsInjective(RemoveAt(s, i))
         /\ ToSet(RemoveAt(s, i)) = ToSet(s) \ {s[i]}
<1> DEFINE r == RemoveAt(s, i)
<1>1. /\ r \in Seq(S)
      /\ \A j \in 1 .. Len(s) - 1 : r[j] = IF j < i THEN s[j] ELSE s[j + 1]
  BY RemoveAtElements
<1>2. /\ DOMAIN r = 1 .. Len(s) - 1
      /\ DOMAIN s = 1 .. Len(s) /\ Len(s) \in Nat
      /\ i \in 1 .. Len(s)
  BY RemoveAtElements
<1> HIDE DEF r
<1>3. \A j \in DOMAIN r : \E k \in DOMAIN s :
        k # i /\ r[j] = s[k] /\ k = IF j < i THEN j ELSE j + 1
  <2> TAKE j \in DOMAIN r
  <2>1. CASE j < i
    BY <1>1, <1>2, <2>1
  <2>2. CASE j >= i
    <3>1. j + 1 \in DOMAIN s /\ j + 1 # i
      BY <1>2, <2>2
    <3> QED BY <1>1, <1>2, <2>2, <3>1
  <2> QED BY <1>2, <2>1, <2>2
<1>4. IsInjective(r)
  <2> SUFFICES ASSUME NEW a \in DOMAIN r, NEW b \in DOMAIN r, r[a] = r[b]
               PROVE  a = b
    BY DEF IsInjective
  <2>1. PICK k \in DOMAIN s : r[a] = s[k] /\ k = IF a < i THEN a ELSE a + 1
    BY <1>3
  <2>2. PICK l \in DOMAIN s : r[b] = s[l] /\ l = IF b < i THEN b ELSE b + 1
    BY <1>3
  <2>3. k = l
    BY <2>1, <2>2 DEF IsInjective
  <2> QED BY <1>2, <2>1, <2>2, <2>3
<1>5. ToSet(r) \subseteq ToSet(s) \ {s[i]}
  BY <1>3 DEF IsInjective, ToSet
<1>6. ASSUME NEW k \in DOMAIN s, k # i PROVE \E j \in DOMAIN r : r[j] = s[k]
  <2>1. CASE k < i
    BY <1>1, <1>2, <2>1
  <2>2. CASE k > i
    <3>1. k - 1 \in DOMAIN r /\ r[k - 1] = s[k]
      BY <1>1, <1>2, <2>2
    <3> QED BY <3>1
  <2> QED BY <1>2, <1>6, <2>1, <2>2
<1>7. ToSet(s) \ {s[i]} \subseteq ToSet(r)
  BY <1>6 DEF ToSet
<1> QED BY <1>1, <1>4, <1>5, <1>7 DEF r

\* Append adds a new element at the end.
LEMMA AppendSet ==
  ASSUME NEW S, NEW s \in Seq(S), NEW b \in S
  PROVE  /\ Append(s, b) \in Seq(S)
         /\ ToSet(Append(s, b)) = ToSet(s) \cup {b}
         /\ IsInjective(s) /\ b \notin ToSet(s) => IsInjective(Append(s, b))
<1> DEFINE r == Append(s, b)
<1>1. /\ r \in Seq(S)
      /\ DOMAIN r = 1 .. Len(s) + 1 /\ DOMAIN s = 1 .. Len(s) /\ Len(s) \in Nat
      /\ r[Len(s) + 1] = b
      /\ \A j \in 1 .. Len(s) : r[j] = s[j]
  OBVIOUS
<1> HIDE DEF r
<1>2. ToSet(r) = ToSet(s) \cup {b}
  BY <1>1 DEF ToSet
<1>3. IsInjective(s) /\ b \notin ToSet(s) => IsInjective(r)
  BY <1>1 DEF ToSet, IsInjective
<1> QED BY <1>1, <1>2, <1>3 DEF r

\* Cons adds a new element at the front.
LEMMA ConsSet ==
  ASSUME NEW S, NEW s \in Seq(S), NEW b \in S
  PROVE  /\ Cons(b, s) \in Seq(S)
         /\ ToSet(Cons(b, s)) = ToSet(s) \cup {b}
         /\ IsInjective(s) /\ b \notin ToSet(s) => IsInjective(Cons(b, s))
<1> DEFINE r == Cons(b, s)
<1>1. /\ r \in Seq(S)
      /\ DOMAIN r = 1 .. Len(s) + 1 /\ DOMAIN s = 1 .. Len(s) /\ Len(s) \in Nat
      /\ r[1] = b
      /\ \A j \in 1 .. Len(s) : r[j + 1] = s[j]
  BY DEF Cons
<1> HIDE DEF r
<1>2. \A j \in DOMAIN r : j = 1 \/ \E k \in DOMAIN s : j = k + 1 /\ r[j] = s[k]
  <2> TAKE j \in DOMAIN r
  <2>1. j = 1 \/ j - 1 \in 1 .. Len(s)
    BY <1>1
  <2> QED BY <1>1, <2>1
<1>3. ToSet(r) = ToSet(s) \cup {b}
  <2>1. ToSet(r) \subseteq ToSet(s) \cup {b}
    BY <1>1, <1>2 DEF ToSet
  <2>2. \A k \in DOMAIN s : s[k] \in ToSet(r)
    <3> TAKE k \in DOMAIN s
    <3>1. k + 1 \in DOMAIN r /\ r[k + 1] = s[k]
      BY <1>1
    <3> QED BY <3>1 DEF ToSet
  <2>3. b \in ToSet(r)
    BY <1>1 DEF ToSet
  <2> QED BY <2>1, <2>2, <2>3 DEF ToSet
<1>4. IsInjective(s) /\ b \notin ToSet(s) => IsInjective(r)
  BY <1>1, <1>2 DEF ToSet, IsInjective
<1> QED BY <1>1, <1>3, <1>4 DEF r

-----------------------------------------------------------------------------
(* Types.                                                                  *)

\* Where a process is tells which of its variables name a buffer.
PcOK ==
  \A p \in Procs :
    /\ pc[p] = "user" => ret[p] = "none"
    /\ pc[p] = "geteblk" => ret[p] = "geteblk"
    /\ pc[p] = "bflush" => ret[p] \in {"bflush", "close"}
    /\ pc[p] \in {"hit", "started"} => cand[p] \in Bufs
    /\ pc[p] \in {"iowait", "hold"} => bp[p] \in Bufs
    /\ pc[p] = "got" => IF ret[p] = "readahead" THEN rabp[p] \in Bufs ELSE bp[p] \in Bufs
    /\ rabp[p] # NoBuf => pc[p] = "got" /\ ret[p] = "readahead"
    /\ bp[p] # NoBuf => \/ pc[p] \in {"got", "iowait", "hold", "readahead"}
                       \/ ret[p] = "readahead"

TypeInv == TypeOK /\ PcOK

\* brelse keeps the types of what it changes.
LEMMA BrelseType ==
  ASSUME TypeOK, NEW b \in Bufs, NEW f \in SUBSET Flag, Brelse(b, f)
  PROVE  /\ flags' \in [Bufs -> SUBSET Flag]
         /\ blk' \in [Bufs -> Blks \cup {NoBlk}]
         /\ fl' \in [Queue -> Seq(Bufs)]
         /\ freeWanted' \in BOOLEAN
         /\ wchan' \in [Procs -> Bufs \cup {NoBuf, FreeList}]
<1>1. \A q \in Queue : Append(fl[q], b) \in Seq(Bufs) /\ Cons(b, fl[q]) \in Seq(Bufs)
  BY AppendSet, ConsSet DEF TypeOK
<1>2. \E q \in Queue :
        \/ fl' = [fl EXCEPT ![q] = Append(fl[q], b)]
        \/ fl' = [fl EXCEPT ![q] = Cons(b, fl[q])]
  BY DEF Brelse, Queue
<1>3. fl' \in [Queue -> Seq(Bufs)]
  BY <1>1, <1>2 DEF TypeOK
<1>4. flags' \in [Bufs -> SUBSET Flag]
  BY DEF TypeOK, Brelse
<1> QED BY <1>3, <1>4 DEF TypeOK, Brelse

\* The first state has the types.
LEMMA InitType == Init => TypeInv
<1> SUFFICES ASSUME Init PROVE TypeInv
  OBVIOUS
<1>1. fl \in [Queue -> Seq(Bufs)] /\ ioq \in Seq(Bufs)
  BY OrderAssumption DEF Init
<1>2. /\ flags \in [Bufs -> SUBSET Flag]
      /\ blk \in [Bufs -> Blks \cup {NoBlk}]
      /\ data \in [Bufs -> Vals]
      /\ disk \in [Blks -> Vals]
      /\ file \in [Blks -> Vals]
      /\ mbuf \in [Super -> Bufs \cup {NoBuf}]
  BY ConstAssumption DEF Init, Flag
<1>3. TypeOK
  BY <1>1, <1>2 DEF Init, TypeOK, PC, Caller
<1>4. PcOK
  BY DEF Init, PcOK
<1> QED BY <1>3, <1>4 DEF TypeInv

\* A system call that starts keeps the types.
LEMMA EnterType ==
  ASSUME TypeInv, NEW p \in Procs, UserStep(p)
  PROVE  TypeInv'
<1>1. /\ updlock' \in BOOLEAN
      /\ \E c \in Caller \ {"none", "readahead"} :
         \E l \in {"getblk", "geteblk", "bflush", "readahead"} :
         \E x, ra \in Blks \cup {NoBlk} : \E d \in Devs \cup {NoDev} :
           /\ Enter(p, c, l, x, ra, d)
           /\ l = "geteblk" => c = "geteblk"
           /\ l = "bflush" => c \in {"bflush", "close"}
  <2> DEFINE E(c, l, x, ra, d) ==
        /\ Enter(p, c, l, x, ra, d)
        /\ l = "geteblk" => c = "geteblk"
        /\ l = "bflush" => c \in {"bflush", "close"}
  <2>1. updlock \in BOOLEAN
    BY DEF TypeInv, TypeOK
  <2>2. ASSUME NEW x \in Blks, Bread(p, x)
        PROVE  updlock' = updlock /\ E("bread", "getblk", x, NoBlk, NoDev)
    BY <2>2 DEF Bread
  <2>3. ASSUME NEW x \in Blks, NEW ra \in Blks, Breada(p, x, ra)
        PROVE  /\ updlock' = updlock
               /\ \/ E("breada", "readahead", x, ra, NoDev)
                  \/ E("breada", "getblk", x, ra, NoDev)
    BY <2>3 DEF Breada
  <2>4. ASSUME NEW x \in Blks, Getblk(p, x)
        PROVE  updlock' = updlock /\ E("getblk", "getblk", x, NoBlk, NoDev)
    BY <2>4 DEF Getblk
  <2>5. ASSUME Geteblk(p)
        PROVE  updlock' = updlock /\ E("geteblk", "geteblk", NoBlk, NoBlk, NoDev)
    BY <2>5 DEF Geteblk
  <2>6. ASSUME Sync(p)
        PROVE  updlock' = updlock /\ E("bflush", "bflush", NoBlk, NoBlk, NoDev)
    BY <2>6 DEF Sync
  <2>7. ASSUME NEW x \in Super, UpdateSuper(p, x)
        PROVE  updlock' = TRUE /\ x \in Blks /\ E("update", "getblk", x, NoBlk, NoDev)
    BY <2>7, ConstAssumption DEF UpdateSuper
  <2>8. ASSUME NEW d \in Devs, LastClose(p, d)
        PROVE  updlock' = updlock /\ E("close", "bflush", NoBlk, NoBlk, d)
    BY <2>8 DEF LastClose
  <2> HIDE DEF E
  <2>9. /\ updlock' \in BOOLEAN
        /\ \E c \in Caller \ {"none", "readahead"} :
           \E l \in {"getblk", "geteblk", "bflush", "readahead"} :
           \E x, ra \in Blks \cup {NoBlk} : \E d \in Devs \cup {NoDev} :
             E(c, l, x, ra, d)
    BY <2>1, <2>2, <2>3, <2>4, <2>5, <2>6, <2>7, <2>8 DEF UserStep, Caller
  <2> QED BY <2>9 DEF E
<1>2. PICK c \in Caller \ {"none", "readahead"},
           l \in {"getblk", "geteblk", "bflush", "readahead"} :
         \E x, ra \in Blks \cup {NoBlk} : \E d \in Devs \cup {NoDev} :
           /\ Enter(p, c, l, x, ra, d)
           /\ l = "geteblk" => c = "geteblk"
           /\ l = "bflush" => c \in {"bflush", "close"}
  BY <1>1
<1>3. TypeOK'
  BY <1>1, <1>2 DEF TypeInv, TypeOK, Enter, Goto, PC
<1>4. PcOK'
  BY <1>2 DEF TypeInv, TypeOK, PcOK, Enter, Goto
<1> QED BY <1>3, <1>4 DEF TypeInv

\* The holder of a buffer keeps the types, whatever it does with it.
LEMMA HoldType ==
  ASSUME TypeInv, NEW p \in Procs, HoldStep(p)
  PROVE  TypeInv'
<1>b. bp[p] \in Bufs /\ rabp[p] = NoBuf /\ flags[bp[p]] \in SUBSET Flag
  BY DEF TypeInv, TypeOK, PcOK, HoldStep, Release, Bdwrite, Bwrite, Bawrite, Modify,
         LockSuper, Holding
<1>1. ASSUME NEW age \in {{}, {"AGE"}}, Release(p, age) PROVE TypeInv'
  <2>1. flags[bp[p]] \cup age \in SUBSET Flag
    BY <1>b DEF Flag
  <2>2. TypeOK'
    BY <1>1, <1>b, <2>1, BrelseType
    DEF TypeInv, TypeOK, Release, Return, ioVars, mntVars, PC, Caller
  <2>3. PcOK'
    BY <1>1, <1>b DEF TypeInv, TypeOK, PcOK, Release, Return
  <2> QED BY <2>2, <2>3 DEF TypeInv
<1>2. ASSUME NEW v \in Vals, Bdwrite(p, v) PROVE TypeInv'
  <2>1. flags[bp[p]] \cup {"DELWRI", "DONE"} \in SUBSET Flag
    BY <1>b DEF Flag
  <2>m. data' \in [Bufs -> Vals] /\ file' \in [Blks -> Vals]
    BY <1>2 DEF TypeInv, TypeOK, Bdwrite, Modify
  <2>2. TypeOK'
    BY <1>2, <1>b, <2>1, <2>m, BrelseType
    DEF TypeInv, TypeOK, Bdwrite, Return, ioVars, mntVars, PC, Caller
  <2>3. PcOK'
    BY <1>2, <1>b DEF TypeInv, TypeOK, PcOK, Bdwrite, Return
  <2> QED BY <2>2, <2>3 DEF TypeInv
<1>3. ASSUME NEW v \in Vals, Bwrite(p, v) PROVE TypeInv'
  <2>1. ioq' \in Seq(Bufs)
    BY <1>3, <1>b, AppendSet DEF TypeInv, TypeOK, Bwrite, BwriteStart
  <2>2. TypeOK'
    BY <1>3, <1>b, <2>1
    DEF TypeInv, TypeOK, Bwrite, BwriteStart, Modify, Goto, callVars, argVars, mntVars, PC, Caller
  <2>3. PcOK'
    BY <1>3, <1>b DEF TypeInv, TypeOK, PcOK, Bwrite, Goto
  <2> QED BY <2>2, <2>3 DEF TypeInv
<1>4. ASSUME NEW v \in Vals, Bawrite(p, v) PROVE TypeInv'
  <2>1. ioq' \in Seq(Bufs)
    BY <1>4, <1>b, AppendSet DEF TypeInv, TypeOK, Bawrite, BwriteStart
  <2>2. flags' \in [Bufs -> SUBSET Flag]
    BY <1>4, <1>b DEF TypeInv, TypeOK, Bawrite, BwriteStart, Flag
  <2>w. wdel' \in [Procs -> BOOLEAN]
    <3>1. wdel' = [wdel EXCEPT ![p] = "DELWRI" \in flags[bp[p]]]
      BY <1>4 DEF Bawrite
    <3>2. wdel \in [Procs -> BOOLEAN]
      BY DEF TypeInv, TypeOK
    <3>3. ("DELWRI" \in flags[bp[p]]) \in BOOLEAN
      OBVIOUS
    <3> QED BY <3>1, <3>2, <3>3, Zenon
  <2>m. data' \in [Bufs -> Vals] /\ file' \in [Blks -> Vals]
    BY <1>4 DEF TypeInv, TypeOK, Bawrite, Modify
  <2>3. TypeOK'
    BY <1>4, <1>b, <2>1, <2>2, <2>w, <2>m
    DEF TypeInv, TypeOK, Bawrite, Goto, callVars, argVars, mntVars, PC, Caller
  <2>4. PcOK'
    BY <1>4, <1>b DEF TypeInv, TypeOK, PcOK, Bawrite, Goto
  <2> QED BY <2>3, <2>4 DEF TypeInv
<1>5. ASSUME LockSuper(p) PROVE TypeInv'
  <2>1. flags[bp[p]] \cup {"LOCKED"} \in SUBSET Flag
    BY <1>b DEF Flag
  <2>2. TypeOK'
    BY <1>5, <1>b, <2>1, BrelseType
    DEF TypeInv, TypeOK, LockSuper, Return, ioVars, PC, Caller
  <2>3. PcOK'
    BY <1>5, <1>b DEF TypeInv, TypeOK, PcOK, LockSuper, Return
  <2> QED BY <2>2, <2>3 DEF TypeInv
<1> QED BY <1>1, <1>2, <1>3, <1>4, <1>5 DEF HoldStep

\* The list from which notavail takes a buffer stays a list of buffers.
LEMMA NotAvailType ==
  ASSUME TypeOK, NEW q \in Queue, NEW i \in DOMAIN fl[q], NotAvail(q, i)
  PROVE  fl' \in [Queue -> Seq(Bufs)] /\ fl[q][i] \in Bufs
<1>1. fl[q] \in Seq(Bufs)
  BY DEF TypeOK
<1>2. RemoveAt(fl[q], i) \in Seq(Bufs)
  BY <1>1, RemoveAtElements
<1>3. fl[q][i] \in Bufs
  BY <1>1
<1> QED BY <1>2, <1>3 DEF TypeOK, NotAvail

\* geterror leaves u.u_error a truth value.
LEMMA GeterrorType ==
  ASSUME TypeOK, NEW p \in Procs, NEW b \in Bufs, Geterror(p, b)
  PROVE  err' \in [Procs -> BOOLEAN]
<1>1. err' = [err EXCEPT ![p] = err[p] \/ "ERROR" \in flags[b]]
  BY DEF Geterror
<1>2. err \in [Procs -> BOOLEAN]
  BY DEF TypeOK
<1>3. (err[p] \/ "ERROR" \in flags[b]) \in BOOLEAN
  OBVIOUS
<1> QED BY <1>1, <1>2, <1>3, Zenon

\* Going to another place in bio.c keeps the types.
LEMMA GotoType ==
  ASSUME TypeOK, NEW p \in Procs, NEW l \in PC, Goto(p, l)
  PROVE  pc' \in [Procs -> PC] /\ cpu' \in Procs \cup {NoProc}
BY DEF TypeOK, Goto

\* So does the end of the read-ahead.
LEMMA AfterReadaheadType ==
  ASSUME TypeOK, NEW p \in Procs, AfterReadahead(p)
  PROVE  /\ pc' \in [Procs -> PC] /\ cpu' \in Procs \cup {NoProc}
         /\ ret' \in [Procs -> Caller]
<1>1. \E l \in PC : Goto(p, l)
  BY DEF AfterReadahead, PC
<1>2. \E r \in Caller : ret' = [ret EXCEPT ![p] = r]
  BY DEF AfterReadahead, Caller
<1> QED BY <1>1, <1>2, GotoType DEF TypeOK

\* So does the return to user mode.
LEMMA ReturnType ==
  ASSUME TypeOK, NEW p \in Procs, Return(p)
  PROVE  /\ pc' \in [Procs -> PC] /\ cpu' \in Procs \cup {NoProc}
         /\ ret' \in [Procs -> Caller]
         /\ blkno' \in [Procs -> Blks \cup {NoBlk}]
         /\ rablkno' \in [Procs -> Blks \cup {NoBlk}]
         /\ fdev' \in [Procs -> Devs \cup {NoDev}]
         /\ err' \in [Procs -> BOOLEAN]
BY DEF TypeOK, Return, PC, Caller

\* Every piece of bio.c keeps the types.
LEMMA KernelType ==
  ASSUME TypeInv, NEW p \in Procs, KernelStep(p)
  PROVE  TypeInv'
<1> USE DEF TypeInv
<1>1. ASSUME GetblkFind(p) PROVE TypeInv'
  <2>1. TypeOK'
    BY <1>1 DEF TypeOK, PC, Caller, Flag, GetblkFind, Goto, bufVars, ioVars, callVars, argVars, mntVars
  <2>2. PcOK'
    BY <1>1 DEF TypeOK, PcOK, GetblkFind, Goto
  <2> QED BY <2>1, <2>2
<1>2. ASSUME GetblkWait(p) PROVE TypeInv'
  <2>1. TypeOK'
    BY <1>2 DEF TypeOK, PC, Caller, Flag, GetblkWait, Sleep, bufVars, ioVars, callVars, argVars, mntVars
  <2>2. PcOK'
    BY <1>2 DEF TypeOK, PcOK, GetblkWait, Sleep
  <2> QED BY <2>1, <2>2
<1>3. ASSUME GetblkHit(p) PROVE TypeInv'
  <2>1. PICK q \in Queue : \E i \in DOMAIN fl[q] :
           /\ NotAvail(q, i)
           /\ fl[q][i] = cand[p]
    BY <1>3 DEF GetblkHit
  <2>2. PICK i \in DOMAIN fl[q] :
           /\ NotAvail(q, i)
           /\ fl[q][i] = cand[p]
    BY <2>1
  <2>3. fl' \in [Queue -> Seq(Bufs)] /\ fl[q][i] \in Bufs
    BY <2>2, NotAvailType
  <2>f. /\ flags' \in [Bufs -> SUBSET Flag]
        /\ cand' \in [Procs -> Bufs \cup {NoBuf}]
    BY <1>3, <2>2, <2>3 DEF TypeOK, Flag, GetblkHit
  <2>t. /\ pc' \in [Procs -> PC] /\ cpu' \in Procs \cup {NoProc}
        /\ bp' \in [Procs -> Bufs \cup {NoBuf}] /\ rabp' \in [Procs -> Bufs \cup {NoBuf}]
    <3>1. cand[p] \in Bufs /\ Deliver(p, cand[p])
      BY <1>3, <2>2, <2>3 DEF GetblkHit
    <3> QED BY <3>1, GotoType, ZenonT(60) DEF TypeOK, PC, Deliver
  <2>d. UNCHANGED <<blk, data, freeWanted, ioVars, callVars, wchan, ret, wdel, err, file>>
    BY <1>3 DEF GetblkHit
  <2>4. TypeOK'
    BY <2>3, <2>f, <2>t, <2>d DEF TypeOK, ioVars, callVars, argVars, mntVars
  <2>5. PcOK'
    BY <1>3, <2>2, <2>3 DEF TypeOK, PcOK, GetblkHit, Deliver, Goto
  <2> QED BY <2>4, <2>5
<1>4. ASSUME GetblkNoFree(p) PROVE TypeInv'
  <2>1. TypeOK'
    BY <1>4 DEF TypeOK, PC, Caller, Flag, GetblkNoFree, Sleep, bufVars, ioVars, callVars, argVars, mntVars
  <2>2. PcOK'
    BY <1>4 DEF TypeOK, PcOK, GetblkNoFree, Sleep
  <2> QED BY <2>1, <2>2
<1>5. ASSUME GetblkWriteBack(p) PROVE TypeInv'
  <2>1. Victims \in Queue /\ 1 \in DOMAIN fl[Victims] /\ NotAvail(Victims, 1)
    BY <1>5 DEF TypeOK, GetblkWriteBack, Victims, Queue
  <2>2. fl' \in [Queue -> Seq(Bufs)] /\ fl[Victims][1] \in Bufs
    BY <2>1, NotAvailType
  <2>3. ioq' \in Seq(Bufs)
    BY <1>5, <2>1, <2>2, AppendSet DEF TypeOK, GetblkWriteBack, ReadStart, BwriteStart
  <2>4. flags' \in [Bufs -> SUBSET Flag]
    BY <1>5, <2>1, <2>2, <2>3 DEF TypeOK, GetblkWriteBack, ReadStart, BwriteStart, Flag
  <2>5. TypeOK'
    BY <1>5, <2>1, <2>2, <2>3, <2>4 DEF TypeOK, PC, Caller, Flag, GetblkWriteBack, Goto, Victims, Missing, Queue, bufVars, ioVars, callVars, argVars, mntVars
  <2>6. PcOK'
    BY <1>5, <2>1, <2>2, <2>3, <2>4 DEF TypeOK, PcOK, GetblkWriteBack, Goto, Victims, Missing, Queue
  <2> QED BY <2>5, <2>6
<1>6. ASSUME GetblkReassign(p) PROVE TypeInv'
  <2>1. Victims \in Queue /\ 1 \in DOMAIN fl[Victims] /\ NotAvail(Victims, 1)
    BY <1>6 DEF TypeOK, GetblkReassign, Victims, Queue
  <2>2. fl' \in [Queue -> Seq(Bufs)] /\ fl[Victims][1] \in Bufs
    BY <2>1, NotAvailType
  <2>w. Want(p) \in Blks \cup {NoBlk}
    BY DEF TypeOK, Want
  <2>f. /\ flags' \in [Bufs -> SUBSET Flag]
        /\ blk' \in [Bufs -> Blks \cup {NoBlk}]
    BY <1>6, <2>2, <2>w DEF TypeOK, Flag, GetblkReassign
  <2>t. /\ pc' \in [Procs -> PC] /\ cpu' \in Procs \cup {NoProc}
        /\ bp' \in [Procs -> Bufs \cup {NoBuf}] /\ rabp' \in [Procs -> Bufs \cup {NoBuf}]
    <3>1. Deliver(p, fl[Victims][1])
      BY <1>6 DEF GetblkReassign
    <3> QED BY <2>2, <3>1, GotoType, ZenonT(60) DEF TypeOK, PC, Deliver
  <2>d. UNCHANGED <<data, freeWanted, ioVars, callVars, wchan, ret, cand, wdel, err, file>>
    BY <1>6 DEF GetblkReassign
  <2>3. TypeOK'
    BY <2>2, <2>f, <2>t, <2>d DEF TypeOK, ioVars, callVars, argVars, mntVars
  <2>4. PcOK'
    BY <1>6, <2>1, <2>2 DEF TypeOK, PcOK, GetblkReassign, Deliver, Goto, Victims, Missing, Want, Queue
  <2> QED BY <2>3, <2>4
<1>7. ASSUME GotBuffer(p) PROVE TypeInv'
  <2>1. TypeOK'
    BY <1>7 DEF TypeOK, PC, Caller, Flag, GotBuffer, Hold, bufVars, ioVars, callVars, argVars, mntVars
  <2>2. PcOK'
    BY <1>7 DEF TypeOK, PcOK, GotBuffer, Hold
  <2> QED BY <2>1, <2>2
<1>8. ASSUME GotForRead(p) PROVE TypeInv'
  <2>1. bp[p] \in Bufs
    BY <1>8 DEF PcOK, GotForRead
  <2>2. \/ ioq' = ioq /\ flags' = flags
        \/ ioq' = Append(ioq, bp[p]) /\ flags' = [flags EXCEPT ![bp[p]] = @ \cup {"READ"} \cup {}]
    BY <1>8 DEF GotForRead, ReadStart
  <2>o. ioq \in Seq(Bufs) /\ Append(ioq, bp[p]) \in Seq(Bufs)
    BY <2>1, AppendSet DEF TypeOK
  <2>3. ioq' \in Seq(Bufs)
    BY <2>2, <2>o
  <2>f. [flags EXCEPT ![bp[p]] = @ \cup {"READ"} \cup {}] \in [Bufs -> SUBSET Flag]
    BY <2>1 DEF TypeOK, Flag
  <2>4. flags' \in [Bufs -> SUBSET Flag]
    BY <2>2, <2>f DEF TypeOK
  <2>5. \E l \in {"hold", "readahead", "iowait"} :
          pc' = [pc EXCEPT ![p] = l] /\ cpu' \in {p, NoProc}
    BY <1>8 DEF GotForRead, Hold, Goto
  <2>6. UNCHANGED <<blk, data, fl, freeWanted, disk, callVars, wchan, ret, bp, rabp,
                    cand, wdel, err, file>>
    BY <1>8 DEF GotForRead
  <2>7. TypeOK'
    BY <2>3, <2>4, <2>5, <2>6 DEF TypeOK, PC, callVars, argVars, mntVars
  <2>8. pc[p] = "got" /\ ret[p] # "readahead"
    BY <1>8 DEF GotForRead
  <2>9. PcOK'
    BY <2>1, <2>5, <2>6, <2>8 DEF TypeOK, PcOK
  <2> QED BY <2>7, <2>9
<1>9. ASSUME UpdateGot(p) PROVE TypeInv'
  <2>1. bp[p] \in Bufs
    BY <1>9 DEF PcOK, UpdateGot
  <2>2. ioq' \in Seq(Bufs)
    BY <1>9, <2>1, AppendSet DEF TypeOK, UpdateGot, ReadStart, BwriteStart
  <2>3. flags' \in [Bufs -> SUBSET Flag]
    BY <1>9, <2>1, <2>2 DEF TypeOK, UpdateGot, ReadStart, BwriteStart, Flag
  <2>4. TypeOK'
    BY <1>9, <2>1, <2>2, <2>3 DEF TypeOK, PC, Caller, Flag, UpdateGot, Goto, bufVars, ioVars, callVars, argVars, mntVars
  <2>5. PcOK'
    BY <1>9, <2>1, <2>2, <2>3 DEF TypeOK, PcOK, UpdateGot, Goto
  <2> QED BY <2>4, <2>5
<1>10. ASSUME Readahead(p) PROVE TypeInv'
  <2>t. /\ pc' \in [Procs -> PC] /\ ret' \in [Procs -> Caller]
        /\ cpu' \in Procs \cup {NoProc}
    <3>1. CASE AfterReadahead(p)
      BY <3>1, AfterReadaheadType
    <3>2. CASE Goto(p, "getblk") /\ ret' = [ret EXCEPT ![p] = "readahead"]
      BY <3>2, GotoType DEF TypeOK, PC, Caller
    <3> QED BY <1>10, <3>1, <3>2 DEF Readahead
  <2>d. UNCHANGED <<bufVars, ioVars, callVars, wchan, bp, rabp, cand, wdel, err, file>>
    BY <1>10 DEF Readahead
  <2>1. TypeOK'
    BY <2>t, <2>d DEF TypeOK, bufVars, ioVars, callVars, argVars, mntVars
  <2>2. PcOK'
    BY <1>10 DEF TypeOK, PcOK, Readahead, AfterReadahead, Goto
  <2> QED BY <2>1, <2>2
<1>11. ASSUME ReadaheadCached(p) PROVE TypeInv'
  <2>1. rabp[p] \in Bufs /\ flags[rabp[p]] \in SUBSET Flag
    BY <1>11 DEF TypeOK, PcOK, ReadaheadCached
  <2>2. /\ flags' \in [Bufs -> SUBSET Flag]
        /\ blk' \in [Bufs -> Blks \cup {NoBlk}]
        /\ fl' \in [Queue -> Seq(Bufs)]
        /\ freeWanted' \in BOOLEAN
        /\ wchan' \in [Procs -> Bufs \cup {NoBuf, FreeList}]
    BY <1>11, <2>1, BrelseType DEF ReadaheadCached
  <2>t. /\ pc' \in [Procs -> PC] /\ ret' \in [Procs -> Caller]
        /\ cpu' \in Procs \cup {NoProc} /\ rabp' \in [Procs -> Bufs \cup {NoBuf}]
    BY <1>11, AfterReadaheadType DEF TypeOK, ReadaheadCached
  <2>d. UNCHANGED <<data, ioVars, callVars, bp, cand, wdel, err, file>>
    BY <1>11 DEF ReadaheadCached
  <2>3. TypeOK'
    BY <2>2, <2>t, <2>d DEF TypeOK, ioVars, callVars, argVars, mntVars
  <2>4. PcOK'
    BY <1>11, <2>1, <2>2 DEF TypeOK, PcOK, ReadaheadCached, AfterReadahead, Goto
  <2> QED BY <2>3, <2>4
<1>12. ASSUME ReadaheadStart(p) PROVE TypeInv'
  <2>1. rabp[p] \in Bufs
    BY <1>12 DEF PcOK, ReadaheadStart
  <2>2. ioq' \in Seq(Bufs)
    BY <1>12, <2>1, AppendSet DEF TypeOK, ReadaheadStart, ReadStart, BwriteStart
  <2>3. flags' \in [Bufs -> SUBSET Flag]
    BY <1>12, <2>1, <2>2 DEF TypeOK, ReadaheadStart, ReadStart, BwriteStart, Flag
  <2>t. /\ pc' \in [Procs -> PC] /\ ret' \in [Procs -> Caller]
        /\ cpu' \in Procs \cup {NoProc} /\ rabp' \in [Procs -> Bufs \cup {NoBuf}]
    BY <1>12, AfterReadaheadType DEF TypeOK, ReadaheadStart
  <2>d. UNCHANGED <<blk, data, fl, freeWanted, disk, callVars, wchan, bp, cand,
                    wdel, err, file>>
    BY <1>12 DEF ReadaheadStart
  <2>4. TypeOK'
    BY <2>2, <2>3, <2>t, <2>d DEF TypeOK, callVars, argVars, mntVars
  <2>5. PcOK'
    BY <1>12, <2>1, <2>2, <2>3 DEF TypeOK, PcOK, ReadaheadStart, AfterReadahead, Goto
  <2> QED BY <2>4, <2>5
<1>13. ASSUME IowaitSleep(p) PROVE TypeInv'
  <2>1. TypeOK'
    BY <1>13 DEF TypeOK, PC, Caller, Flag, IowaitSleep, Sleep, bufVars, ioVars, callVars, argVars, mntVars
  <2>2. PcOK'
    BY <1>13 DEF TypeOK, PcOK, IowaitSleep, Sleep
  <2> QED BY <2>1, <2>2
<1>14. ASSUME BreadDone(p) PROVE TypeInv'
  <2>1. bp[p] \in Bufs
    BY <1>14 DEF PcOK, BreadDone
  <2>2. err' \in [Procs -> BOOLEAN]
    BY <1>14, <2>1, GeterrorType DEF BreadDone
  <2>3. TypeOK'
    BY <1>14, <2>1, <2>2 DEF TypeOK, PC, Caller, Flag, BreadDone, Hold, bufVars, ioVars, callVars, argVars, mntVars
  <2>4. PcOK'
    BY <1>14, <2>1, <2>2 DEF TypeOK, PcOK, BreadDone, Hold
  <2> QED BY <2>3, <2>4
<1>15. ASSUME BwriteDone(p) PROVE TypeInv'
  <2>1. bp[p] \in Bufs /\ flags[bp[p]] \in SUBSET Flag
    BY <1>15 DEF TypeOK, PcOK, BwriteDone
  <2>2. /\ flags' \in [Bufs -> SUBSET Flag]
        /\ blk' \in [Bufs -> Blks \cup {NoBlk}]
        /\ fl' \in [Queue -> Seq(Bufs)]
        /\ freeWanted' \in BOOLEAN
        /\ wchan' \in [Procs -> Bufs \cup {NoBuf, FreeList}]
    BY <1>15, <2>1, BrelseType DEF BwriteDone
  <2>3. err' \in [Procs -> BOOLEAN]
    BY <1>15, <2>1, <2>2, GeterrorType DEF TypeOK, Return, BwriteDone
  <2>t. /\ pc' \in [Procs -> PC] /\ ret' \in [Procs -> Caller]
        /\ cpu' \in Procs \cup {NoProc} /\ bp' \in [Procs -> Bufs \cup {NoBuf}]
        /\ updlock' \in BOOLEAN
        /\ blkno' \in [Procs -> Blks \cup {NoBlk}]
        /\ rablkno' \in [Procs -> Blks \cup {NoBlk}]
        /\ fdev' \in [Procs -> Devs \cup {NoDev}]
    <3>1. CASE ret[p] = "bwrite"
      BY <1>15, <3>1, ReturnType DEF TypeOK, BwriteDone
    <3>2. CASE ret[p] # "bwrite"
      BY <1>15, <3>2, GotoType DEF TypeOK, BwriteDone, PC, Caller, argVars
    <3> QED BY <3>1, <3>2
  <2>d. UNCHANGED <<data, ioVars, mbuf, rabp, cand, wdel, file>>
    BY <1>15 DEF BwriteDone
  <2>4. TypeOK'
    BY <2>2, <2>3, <2>t, <2>d DEF TypeOK, ioVars
  <2>5. PcOK'
    BY <1>15, <2>1, <2>2, <2>3 DEF TypeOK, PcOK, BwriteDone, Return, Goto
  <2> QED BY <2>4, <2>5
<1>16. ASSUME BwriteStarted(p) PROVE TypeInv'
  <2>1. cand[p] \in Bufs
    BY <1>16 DEF PcOK, BwriteStarted
  <2>2. err' \in [Procs -> BOOLEAN]
    BY <1>16, <2>1, GeterrorType DEF TypeOK, Return, BwriteStarted
  <2>f. flags' \in [Bufs -> SUBSET Flag]
    BY <1>16, <2>1 DEF TypeOK, Flag, BwriteStarted
  <2>t. /\ pc' \in [Procs -> PC] /\ ret' \in [Procs -> Caller]
        /\ cpu' \in Procs \cup {NoProc}
        /\ blkno' \in [Procs -> Blks \cup {NoBlk}]
        /\ rablkno' \in [Procs -> Blks \cup {NoBlk}]
        /\ fdev' \in [Procs -> Devs \cup {NoDev}]
    <3>1. CASE ret[p] = "bwrite"
      BY <1>16, <3>1, ReturnType DEF BwriteStarted
    <3>2. CASE ret[p] # "bwrite"
      <4>1. Continue(p) \in PC
        BY <3>2 DEF Continue, PC
      <4> QED BY <1>16, <3>2, <4>1, GotoType DEF TypeOK, BwriteStarted, argVars
    <3> QED BY <3>1, <3>2
  <2>d. /\ cand' \in [Procs -> Bufs \cup {NoBuf}] /\ wdel' \in [Procs -> BOOLEAN]
        /\ UNCHANGED <<blk, data, fl, freeWanted, ioVars, mntVars, wchan, bp, rabp, file>>
    BY <1>16 DEF TypeOK, BwriteStarted
  <2>3. TypeOK'
    BY <2>2, <2>f, <2>t, <2>d DEF TypeOK, ioVars, mntVars
  <2>4. PcOK'
    BY <1>16, <2>1, <2>2 DEF TypeOK, PcOK, BwriteStarted, Return, Goto, Continue
  <2> QED BY <2>3, <2>4
<1>17. ASSUME BflushOne(p) PROVE TypeInv'
  <2>1. PICK q \in Queue : \E i \in DOMAIN fl[q] :
           /\ NotAvail(q, i)
           /\ BwriteStart(fl[q][i], flags[fl[q][i]] \cup {"BUSY", "ASYNC"})
           /\ cand' = [cand EXCEPT ![p] = fl[q][i]]
    BY <1>17 DEF BflushOne
  <2>2. PICK i \in DOMAIN fl[q] :
           /\ NotAvail(q, i)
           /\ BwriteStart(fl[q][i], flags[fl[q][i]] \cup {"BUSY", "ASYNC"})
           /\ cand' = [cand EXCEPT ![p] = fl[q][i]]
    BY <2>1
  <2>3. fl' \in [Queue -> Seq(Bufs)] /\ fl[q][i] \in Bufs
    BY <2>2, NotAvailType
  <2>4. ioq' \in Seq(Bufs)
    BY <1>17, <2>2, <2>3, AppendSet DEF TypeOK, BflushOne, ReadStart, BwriteStart
  <2>5. flags' \in [Bufs -> SUBSET Flag]
    BY <1>17, <2>2, <2>3, <2>4 DEF TypeOK, BflushOne, ReadStart, BwriteStart, Flag
  <2>6. TypeOK'
    BY <1>17, <2>2, <2>3, <2>4, <2>5 DEF TypeOK, PC, Caller, Flag, BflushOne, Goto, Queue, bufVars, ioVars, callVars, argVars, mntVars
  <2>7. PcOK'
    BY <1>17, <2>2, <2>3, <2>4, <2>5 DEF TypeOK, PcOK, BflushOne, Goto, Queue
  <2> QED BY <2>6, <2>7
<1>18. ASSUME BflushDone(p) PROVE TypeInv'
  <2>1. TypeOK'
    BY <1>18 DEF TypeOK, PC, Caller, Flag, BflushDone, Return, bufVars, ioVars, callVars, argVars, mntVars
  <2>2. PcOK'
    BY <1>18 DEF TypeOK, PcOK, BflushDone, Return
  <2> QED BY <2>1, <2>2
<1> QED BY <1>1, <1>2, <1>3, <1>4, <1>5, <1>6, <1>7, <1>8, <1>9, <1>10, <1>11, <1>12, <1>13, <1>14, <1>15, <1>16, <1>17, <1>18 DEF KernelStep

\* The end of a transfer keeps the types.
LEMMA IodoneType ==
  ASSUME TypeInv, NEW i \in DOMAIN ioq, NEW ok \in BOOLEAN, Iodone(i, ok)
  PROVE  TypeInv'
<1> DEFINE b == ioq[i]
           x == blk[b]
           f == flags[b] \cup {"DONE"} \cup (IF ok THEN {} ELSE {"ERROR"})
<1>1. b \in Bufs /\ x \in Blks \cup {NoBlk} /\ f \in SUBSET Flag
  BY DEF TypeInv, TypeOK, Flag
<1>2. ok => x \in Blks
  BY DEF Iodone
<1>3. data' \in [Bufs -> Vals]
  BY <1>1, <1>2 DEF TypeInv, TypeOK, Iodone
<1>4. disk' \in [Blks -> Vals]
  BY <1>1, <1>2 DEF TypeInv, TypeOK, Iodone
<1>5. file' \in [Blks -> Vals]
  BY <1>1, <1>4 DEF TypeInv, TypeOK, Iodone
<1>6. ioq' \in Seq(Bufs)
  BY RemoveAtElements DEF TypeInv, TypeOK, Iodone
<1>7. /\ flags' \in [Bufs -> SUBSET Flag]
      /\ blk' \in [Bufs -> Blks \cup {NoBlk}]
      /\ fl' \in [Queue -> Seq(Bufs)]
      /\ freeWanted' \in BOOLEAN
      /\ wchan' \in [Procs -> Bufs \cup {NoBuf, FreeList}]
  <2>1. \/ Brelse(b, f)
        \/ /\ flags' = [flags EXCEPT ![b] = f \ {"WANTED"}]
           /\ wchan' = [p \in Procs |-> IF wchan[p] = b THEN NoBuf ELSE wchan[p]]
           /\ UNCHANGED <<blk, fl, freeWanted>>
    BY DEF Iodone
  <2>2. CASE Brelse(b, f)
    BY <1>1, <2>2, BrelseType DEF TypeInv
  <2> HIDE DEF b, f
  <2>3. CASE ~Brelse(b, f)
    BY <1>1, <2>1, <2>3, ZenonT(60) DEF TypeInv, TypeOK
  <2> QED BY <2>2, <2>3
<1>8. UNCHANGED <<cpu, pc, ret, callVars, bp, rabp, cand, wdel, err>>
  BY DEF Iodone
<1>9. TypeOK'
  BY <1>3, <1>4, <1>5, <1>6, <1>7, <1>8 DEF TypeInv, TypeOK, callVars, argVars, mntVars
<1>10. PcOK'
  BY <1>8 DEF TypeInv, PcOK
<1> QED BY <1>9, <1>10 DEF TypeInv

\* Every step keeps the types.
LEMMA NextType == TypeInv /\ [Next]_vars => TypeInv'
<1> SUFFICES ASSUME TypeInv, [Next]_vars PROVE TypeInv'
  OBVIOUS
<1>1. CASE \E p \in Procs : UserStep(p) \/ HoldStep(p) \/ KernelStep(p)
  BY <1>1, EnterType, HoldType, KernelType
<1>2. CASE Interrupt
  BY <1>2, IodoneType DEF Interrupt, Complete
<1>3. CASE UNCHANGED vars
  BY <1>3 DEF vars, TypeInv, TypeOK, PcOK
<1> QED BY <1>1, <1>2, <1>3 DEF Next

LEMMA TypeInvariant == Spec => []TypeInv
<1>1. Init => TypeInv
  BY InitType
<1>2. TypeInv /\ [Next]_vars => TypeInv'
  BY NextType
<1> QED BY <1>1, <1>2, PTL DEF Spec

\* The variables of bio.c keep to what they may hold, whatever is done with
\* the cache and whatever the drivers answer.
THEOREM TypeCorrect == Spec => []TypeOK
<1>1. TypeInv => TypeOK
  BY DEF TypeInv
<1> QED BY <1>1, TypeInvariant, PTL

-----------------------------------------------------------------------------
(* Ownership: who has which buffer.  OneOwner is not inductive by itself:  *)
(* it takes the free lists, the driver's queue, and what Settled says.     *)

\* p holds a buffer it has no transfer to wait for.
Resting(p) == pc[p] = "hold" \/ (pc[p] = "got" /\ ret[p] # "readahead")

\* No buffer is the driver's to release without being busy, and the driver
\* does not have what a process looks into.
Settled ==
  /\ \A b \in Bufs : "ASYNC" \in flags[b] => "BUSY" \in flags[b]
  /\ \A p \in Procs : Resting(p) => ~InFlight(bp[p])
  /\ \A p \in Procs : rabp[p] # NoBuf => ~InFlight(rabp[p])

Own == FreeListsOK /\ OneOwner /\ RequestsOK /\ Settled

\* What happens to the lists when only the flags of other things change.
LEMMA KeepLists ==
  ASSUME FreeListsOK, fl' = fl,
         \A b \in Bufs : "BUSY" \in flags'[b] <=> "BUSY" \in flags[b]
  PROVE  FreeListsOK'
BY DEF FreeListsOK

\* notavail takes a free buffer off its list, and off no other.
LEMMA NotAvailLists ==
  ASSUME TypeOK, FreeListsOK, NEW q \in Queue, NEW i \in DOMAIN fl[q],
         NotAvail(q, i), NEW g, "BUSY" \in g,
         flags' = [flags EXCEPT ![fl[q][i]] = g]
  PROVE  /\ fl[q][i] \in Bufs
         /\ "BUSY" \notin flags[fl[q][i]]
         /\ FreeListsOK'
<1> DEFINE b == fl[q][i]
<1>1. fl \in [Queue -> Seq(Bufs)] /\ flags \in [Bufs -> SUBSET Flag]
  BY DEF TypeOK
<1>2. b \in Bufs /\ b \in ToSet(fl[q])
  BY <1>1 DEF ToSet
<1>3. "BUSY" \notin flags[b]
  BY <1>2 DEF FreeListsOK
<1>4. /\ IsInjective(RemoveAt(fl[q], i))
      /\ ToSet(RemoveAt(fl[q], i)) = ToSet(fl[q]) \ {b}
  BY <1>1, RemoveAtSet DEF FreeListsOK
<1>5. fl' = [fl EXCEPT ![q] = RemoveAt(fl[q], i)]
  BY DEF NotAvail
<1> HIDE DEF b
<1>6. \A r \in Queue : IsInjective(fl'[r]) /\ ToSet(fl'[r]) = ToSet(fl[r]) \ {b}
  <2> TAKE r \in Queue
  <2>1. CASE r = q
    BY <1>1, <1>4, <1>5, <2>1
  <2>2. CASE r # q
    <3>1. b \notin ToSet(fl[r]) /\ IsInjective(fl[r])
      BY <1>2, <2>2 DEF FreeListsOK
    <3> QED BY <1>1, <1>5, <2>2, <3>1
  <2> QED BY <2>1, <2>2
<1>7. \A c \in Bufs : "BUSY" \in flags'[c] <=> c = b \/ "BUSY" \in flags[c]
  BY <1>1, <1>2 DEF b
<1>8. FreeListsOK'
  <2>1. \A r, z \in Queue : r # z => ToSet(fl'[r]) \cap ToSet(fl'[z]) = {}
    BY <1>6 DEF FreeListsOK
  <2>2. \A c \in Bufs : (\E r \in Queue : c \in ToSet(fl'[r])) <=>
                         c # b /\ \E r \in Queue : c \in ToSet(fl[r])
    BY <1>6
  <2>3. \A c \in Bufs : (\E r \in Queue : c \in ToSet(fl'[r])) <=> "BUSY" \notin flags'[c]
    BY <2>2, <1>7 DEF FreeListsOK
  <2> QED BY <1>6, <2>1, <2>3 DEF FreeListsOK
<1> QED BY <1>2, <1>3, <1>8 DEF b

\* brelse puts a busy buffer on one list, and it is not busy any more.
LEMMA BrelseLists ==
  ASSUME TypeOK, FreeListsOK, NEW b \in Bufs, NEW f \in SUBSET Flag,
         "BUSY" \in flags[b], Brelse(b, f)
  PROVE  /\ FreeListsOK'
         /\ \E g : /\ flags' = [flags EXCEPT ![b] = g]
                   /\ "BUSY" \notin g /\ "ASYNC" \notin g
<1>1. fl \in [Queue -> Seq(Bufs)] /\ flags \in [Bufs -> SUBSET Flag]
  BY DEF TypeOK
<1>2. PICK q \in Queue :
        \/ fl' = [fl EXCEPT ![q] = Append(fl[q], b)]
        \/ fl' = [fl EXCEPT ![q] = Cons(b, fl[q])]
  BY DEF Brelse, Queue
<1>3. \A r \in Queue : b \notin ToSet(fl[r])
  BY DEF FreeListsOK
<1>4. /\ IsInjective(fl'[q]) /\ ToSet(fl'[q]) = ToSet(fl[q]) \cup {b}
      /\ \A r \in Queue \ {q} : fl'[r] = fl[r]
  <2>1. IsInjective(fl[q])
    BY DEF FreeListsOK
  <2>2. CASE fl' = [fl EXCEPT ![q] = Append(fl[q], b)]
    BY <1>1, <1>3, <2>1, <2>2, AppendSet
  <2>3. CASE fl' = [fl EXCEPT ![q] = Cons(b, fl[q])]
    BY <1>1, <1>3, <2>1, <2>3, ConsSet
  <2> QED BY <1>2, <2>2, <2>3
<1>5. PICK g : /\ flags' = [flags EXCEPT ![b] = g]
               /\ "BUSY" \notin g /\ "ASYNC" \notin g
  <2> DEFINE h == IF "LOCKED" \in f THEN f \ {"ERROR"} ELSE f
             k == h \ {"WANTED", "BUSY", "ASYNC", "AGE"}
  <2>1. flags' = [flags EXCEPT ![b] = k]
    BY DEF Brelse
  <2>2. "BUSY" \notin k /\ "ASYNC" \notin k
    OBVIOUS
  <2> QED BY <2>1, <2>2
<1>6. \A c \in Bufs : "BUSY" \in flags'[c] <=> c # b /\ "BUSY" \in flags[c]
  BY <1>1, <1>5
<1>7. FreeListsOK'
  <2>1. \A r \in Queue : IsInjective(fl'[r])
    <3> TAKE r \in Queue
    <3>1. r # q => fl'[r] = fl[r]
      BY <1>4
    <3>2. IsInjective(fl[r])
      BY DEF FreeListsOK
    <3> QED BY <1>4, <3>1, <3>2
  <2>2. \A r \in Queue : ToSet(fl'[r]) = IF r = q THEN ToSet(fl[r]) \cup {b} ELSE ToSet(fl[r])
    BY <1>4
  <2>3. \A r, s \in Queue : r # s => ToSet(fl'[r]) \cap ToSet(fl'[s]) = {}
    <3> TAKE r, s \in Queue
    <3>1. r # s => ToSet(fl[r]) \cap ToSet(fl[s]) = {}
      BY DEF FreeListsOK
    <3>2. b \notin ToSet(fl[r]) /\ b \notin ToSet(fl[s])
      BY <1>3
    <3>3. /\ ToSet(fl'[r]) = IF r = q THEN ToSet(fl[r]) \cup {b} ELSE ToSet(fl[r])
          /\ ToSet(fl'[s]) = IF s = q THEN ToSet(fl[s]) \cup {b} ELSE ToSet(fl[s])
      BY <2>2
    <3> QED BY <3>1, <3>2, <3>3
  <2>4. \A c \in Bufs : (\E r \in Queue : c \in ToSet(fl'[r])) <=> "BUSY" \notin flags'[c]
    BY <1>6, <2>2 DEF FreeListsOK
  <2> QED BY <2>1, <2>3, <2>4 DEF FreeListsOK
<1> QED BY <1>5, <1>7

\* A process takes a free buffer.
LEMMA TakeOwn ==
  ASSUME TypeOK, Own, NEW p \in Procs, NEW b \in Bufs, NEW g,
         "BUSY" \notin flags[b], FreeListsOK',
         flags' = [flags EXCEPT ![b] = g], "BUSY" \in g, "ASYNC" \notin g,
         ioq' = ioq,
         \/ bp[p] = NoBuf /\ bp' = [bp EXCEPT ![p] = b] /\ rabp' = rabp
         \/ rabp[p] = NoBuf /\ rabp' = [rabp EXCEPT ![p] = b] /\ bp' = bp,
         \A q \in Procs \ {p} : Resting(q)' => Resting(q),
         Resting(p)' => bp'[p] = b
  PROVE  Own'
<1>1. flags \in [Bufs -> SUBSET Flag] /\ bp \in [Procs -> Bufs \cup {NoBuf}]
      /\ rabp \in [Procs -> Bufs \cup {NoBuf}] /\ ioq \in Seq(Bufs) /\ NoBuf \notin Bufs
  BY ConstAssumption DEF TypeOK
<1>2. ~InFlight(b) /\ "ASYNC" \notin flags[b] /\ \A q \in Procs : ~Holds(q, b)
  BY DEF Own, RequestsOK, Settled, OneOwner
<1>3. \A q \in Procs : \A c \in Bufs : Holds(q, c)' <=> Holds(q, c) \/ (q = p /\ c = b)
  BY <1>1 DEF Holds
<1>4. \A c \in Bufs : InFlight(c)' <=> InFlight(c)
  BY DEF InFlight
<1>5. OneOwner'
  <2>1. \A q \in Procs : bp'[q] = rabp'[q] => bp'[q] = NoBuf
    BY <1>1, <1>2 DEF Own, OneOwner, Holds
  <2>2. \A q, r \in Procs : \A c \in Bufs : Holds(q, c)' /\ Holds(r, c)' => q = r
    BY <1>2, <1>3 DEF Own, OneOwner
  <2>3. \A q \in Procs : \A c \in Bufs : Holds(q, c)' => "BUSY" \in flags'[c] /\ "ASYNC" \notin flags'[c]
    BY <1>1, <1>3 DEF Own, OneOwner
  <2>4. \A c \in Bufs : "BUSY" \in flags'[c] =>
          (\E q \in Procs : Holds(q, c)') \/ ("ASYNC" \in flags'[c] /\ InFlight(c)')
    BY <1>1, <1>3, <1>4 DEF Own, OneOwner
  <2> QED BY <2>1, <2>2, <2>3, <2>4 DEF OneOwner
<1>6. RequestsOK'
  BY <1>1, <1>2, <1>4 DEF Own, RequestsOK
<1>7. Settled'
  <2>1. \A q \in Procs \ {p} : bp'[q] = bp[q] /\ rabp'[q] = rabp[q]
    BY <1>1
  <2>2. \A q \in Procs : Resting(q)' => ~InFlight(bp[q])'
    BY <1>1, <1>2, <1>4, <2>1 DEF Own, Settled, InFlight
  <2>3. \A q \in Procs : rabp'[q] # NoBuf => ~InFlight(rabp[q])'
    BY <1>1, <1>2, <1>4 DEF Own, Settled, InFlight
  <2>4. \A c \in Bufs : "ASYNC" \in flags'[c] => "BUSY" \in flags'[c]
    BY <1>1 DEF Own, Settled
  <2> QED BY <2>2, <2>3, <2>4 DEF Settled, InFlight
<1> QED BY <1>5, <1>6, <1>7 DEF Own

\* A free buffer is handed to the driver.
LEMMA SendOwn ==
  ASSUME TypeOK, Own, NEW p \in Procs, NEW b \in Bufs, NEW g,
         "BUSY" \notin flags[b], FreeListsOK',
         flags' = [flags EXCEPT ![b] = g],
         "BUSY" \in g, "ASYNC" \in g, "DONE" \notin g,
         ioq' = Append(ioq, b), bp' = bp, rabp' = rabp,
         \A q \in Procs : Resting(q)' => Resting(q)
  PROVE  Own'
<1>1. flags \in [Bufs -> SUBSET Flag] /\ bp \in [Procs -> Bufs \cup {NoBuf}]
      /\ rabp \in [Procs -> Bufs \cup {NoBuf}] /\ ioq \in Seq(Bufs) /\ NoBuf \notin Bufs
  BY ConstAssumption DEF TypeOK
<1>2. ~InFlight(b) /\ \A q \in Procs : ~Holds(q, b)
  BY DEF Own, RequestsOK, OneOwner
<1>3. \A c : InFlight(c)' <=> InFlight(c) \/ c = b
  BY <1>1, AppendSet DEF InFlight
<1>4. IsInjective(ioq')
  BY <1>1, <1>2, AppendSet DEF InFlight, Own, RequestsOK
<1>5. OneOwner'
  BY <1>1, <1>2, <1>3 DEF Own, OneOwner, Holds
<1>6. RequestsOK'
  BY <1>1, <1>3, <1>4 DEF Own, RequestsOK
<1>7. Settled'
  <2>1. \A q \in Procs : bp[q] # b /\ rabp[q] # b
    BY <1>2 DEF Holds
  <2>2. \A q \in Procs : Resting(q)' => ~InFlight(bp[q])'
    BY <1>3, <2>1 DEF Own, Settled, InFlight
  <2>3. \A q \in Procs : rabp'[q] # NoBuf => ~InFlight(rabp[q])'
    BY <1>3, <2>1 DEF Own, Settled, InFlight
  <2>4. \A c \in Bufs : "ASYNC" \in flags'[c] => "BUSY" \in flags'[c]
    BY <1>1 DEF Own, Settled
  <2> QED BY <2>2, <2>3, <2>4 DEF Settled, InFlight
<1> QED BY <1>5, <1>6, <1>7 DEF Own

\* A process releases a buffer the driver does not have.
LEMMA FreeOwn ==
  ASSUME TypeOK, Own, NEW p \in Procs, NEW b \in Bufs, NEW g,
         ~InFlight(b), FreeListsOK',
         flags' = [flags EXCEPT ![b] = g], "BUSY" \notin g, "ASYNC" \notin g,
         ioq' = ioq,
         \/ bp[p] = b /\ bp' = [bp EXCEPT ![p] = NoBuf] /\ rabp' = rabp
         \/ rabp[p] = b /\ rabp' = [rabp EXCEPT ![p] = NoBuf] /\ bp' = bp,
         \A q \in Procs : Resting(q)' => Resting(q) /\ q # p
  PROVE  Own'
<1>1. flags \in [Bufs -> SUBSET Flag] /\ bp \in [Procs -> Bufs \cup {NoBuf}]
      /\ rabp \in [Procs -> Bufs \cup {NoBuf}] /\ ioq \in Seq(Bufs) /\ NoBuf \notin Bufs
  BY ConstAssumption DEF TypeOK
<1>2. Holds(p, b) /\ \A q \in Procs : Holds(q, b) => q = p
  BY <1>1 DEF Own, OneOwner, Holds
<1>3. \A q \in Procs : \A c \in Bufs : Holds(q, c)' <=> Holds(q, c) /\ ~(q = p /\ c = b)
  BY <1>1, <1>2 DEF Holds, Own, OneOwner
<1>4. \A c : InFlight(c)' <=> InFlight(c)
  BY DEF InFlight
<1>5. OneOwner'
  <2>1. \A q \in Procs : bp'[q] = rabp'[q] => bp'[q] = NoBuf
    BY <1>1 DEF Own, OneOwner
  <2>2. \A q, r \in Procs : \A c \in Bufs : Holds(q, c)' /\ Holds(r, c)' => q = r
    BY <1>3 DEF Own, OneOwner
  <2>3. \A q \in Procs : \A c \in Bufs : Holds(q, c)' => "BUSY" \in flags'[c] /\ "ASYNC" \notin flags'[c]
    BY <1>1, <1>2, <1>3 DEF Own, OneOwner
  <2>4. \A c \in Bufs : "BUSY" \in flags'[c] =>
          (\E q \in Procs : Holds(q, c)') \/ ("ASYNC" \in flags'[c] /\ InFlight(c)')
    BY <1>1, <1>3, <1>4 DEF Own, OneOwner
  <2> QED BY <2>1, <2>2, <2>3, <2>4 DEF OneOwner
<1>6. RequestsOK'
  BY <1>1, <1>4 DEF Own, RequestsOK
<1>7. Settled'
  <2>1. \A q \in Procs \ {p} : bp'[q] = bp[q] /\ rabp'[q] = rabp[q]
    BY <1>1
  <2>2. \A q \in Procs : Resting(q)' => ~InFlight(bp[q])'
    BY <1>1, <1>4, <2>1 DEF Own, Settled, InFlight
  <2>3. \A q \in Procs : rabp'[q] # NoBuf => ~InFlight(rabp[q])'
    BY <1>1, <1>4 DEF Own, Settled, InFlight
  <2>4. \A c \in Bufs : "ASYNC" \in flags'[c] => "BUSY" \in flags'[c]
    BY <1>1 DEF Own, Settled
  <2> QED BY <2>2, <2>3, <2>4 DEF Settled, InFlight
<1> QED BY <1>5, <1>6, <1>7 DEF Own

\* A process hands its buffer to the driver, and waits for it.
LEMMA StartOwn ==
  ASSUME TypeOK, Own, NEW p \in Procs, NEW b \in Bufs, NEW g,
         ~InFlight(b), bp[p] = b, "BUSY" \in g, "ASYNC" \notin g, "DONE" \notin g,
         flags' = [flags EXCEPT ![b] = g],
         ioq' = Append(ioq, b), fl' = fl, bp' = bp, rabp' = rabp,
         \A q \in Procs : Resting(q)' => Resting(q) /\ q # p
  PROVE  Own'
<1>1. flags \in [Bufs -> SUBSET Flag] /\ bp \in [Procs -> Bufs \cup {NoBuf}]
      /\ rabp \in [Procs -> Bufs \cup {NoBuf}] /\ ioq \in Seq(Bufs) /\ NoBuf \notin Bufs
  BY ConstAssumption DEF TypeOK
<1>2. Holds(p, b) /\ \A q \in Procs : Holds(q, b) => q = p
  BY <1>1 DEF Own, OneOwner, Holds
<1>3. \A c : InFlight(c)' <=> InFlight(c) \/ c = b
  BY <1>1, AppendSet DEF InFlight
<1>4. IsInjective(ioq')
  BY <1>1, AppendSet DEF InFlight, Own, RequestsOK
<1>5. OneOwner'
  BY <1>1, <1>2, <1>3 DEF Own, OneOwner, Holds
<1>6. RequestsOK'
  BY <1>1, <1>3, <1>4 DEF Own, RequestsOK
<1>7. Settled'
  <2>1. \A q \in Procs : rabp[q] # b
    BY <1>1, <1>2 DEF Holds, Own, OneOwner
  <2>2. \A q \in Procs : Resting(q)' => ~InFlight(bp[q])'
    BY <1>2, <1>3 DEF Own, Settled, InFlight, Holds
  <2>3. \A q \in Procs : rabp'[q] # NoBuf => ~InFlight(rabp[q])'
    BY <1>3, <2>1 DEF Own, Settled, InFlight
  <2>4. \A c \in Bufs : "ASYNC" \in flags'[c] => "BUSY" \in flags'[c]
    BY <1>1 DEF Own, Settled
  <2> QED BY <2>2, <2>3, <2>4 DEF Settled, InFlight
<1>8. FreeListsOK'
  <2>1. "BUSY" \in flags[b]
    BY <1>2 DEF Own, OneOwner
  <2>2. \A c \in Bufs : "BUSY" \in flags'[c] <=> "BUSY" \in flags[c]
    BY <1>1, <2>1
  <2> QED BY <2>2, KeepLists DEF Own
<1> QED BY <1>5, <1>6, <1>7, <1>8 DEF Own

\* A process hands its buffer to the driver for good.
LEMMA StartAsyncOwn ==
  ASSUME TypeOK, Own, NEW p \in Procs, NEW b \in Bufs, NEW g,
         ~InFlight(b), "BUSY" \in g, "ASYNC" \in g, "DONE" \notin g,
         flags' = [flags EXCEPT ![b] = g],
         ioq' = Append(ioq, b), fl' = fl,
         \/ bp[p] = b /\ bp' = [bp EXCEPT ![p] = NoBuf] /\ rabp' = rabp
         \/ rabp[p] = b /\ rabp' = [rabp EXCEPT ![p] = NoBuf] /\ bp' = bp,
         \A q \in Procs : Resting(q)' => Resting(q) /\ q # p
  PROVE  Own'
<1>1. flags \in [Bufs -> SUBSET Flag] /\ bp \in [Procs -> Bufs \cup {NoBuf}]
      /\ rabp \in [Procs -> Bufs \cup {NoBuf}] /\ ioq \in Seq(Bufs) /\ NoBuf \notin Bufs
  BY ConstAssumption DEF TypeOK
<1>2. Holds(p, b) /\ \A q \in Procs : Holds(q, b) => q = p
  BY <1>1 DEF Own, OneOwner, Holds
<1>3. \A c : InFlight(c)' <=> InFlight(c) \/ c = b
  BY <1>1, AppendSet DEF InFlight
<1>4. IsInjective(ioq')
  BY <1>1, AppendSet DEF InFlight, Own, RequestsOK
<1>5. \A q \in Procs : \A c \in Bufs : Holds(q, c)' <=> Holds(q, c) /\ ~(q = p /\ c = b)
  BY <1>1, <1>2 DEF Holds, Own, OneOwner
<1>6. OneOwner'
  <2>1. \A q \in Procs : bp'[q] = rabp'[q] => bp'[q] = NoBuf
    BY <1>1 DEF Own, OneOwner
  <2>2. \A q, r \in Procs : \A c \in Bufs : Holds(q, c)' /\ Holds(r, c)' => q = r
    BY <1>5 DEF Own, OneOwner
  <2>3. \A q \in Procs : \A c \in Bufs : Holds(q, c)' => "BUSY" \in flags'[c] /\ "ASYNC" \notin flags'[c]
    BY <1>1, <1>2, <1>5 DEF Own, OneOwner
  <2>4. \A c \in Bufs : "BUSY" \in flags'[c] =>
          (\E q \in Procs : Holds(q, c)') \/ ("ASYNC" \in flags'[c] /\ InFlight(c)')
    BY <1>1, <1>3, <1>5 DEF Own, OneOwner
  <2> QED BY <2>1, <2>2, <2>3, <2>4 DEF OneOwner
<1>7. RequestsOK'
  BY <1>1, <1>3, <1>4 DEF Own, RequestsOK
<1>8. Settled'
  <2>1. \A q \in Procs \ {p} : bp'[q] = bp[q] /\ rabp'[q] = rabp[q] /\ bp[q] # b /\ rabp[q] # b
    BY <1>1, <1>2 DEF Holds
  <2>2. \A q \in Procs : Resting(q)' => ~InFlight(bp[q])'
    BY <1>3, <2>1 DEF Own, Settled, InFlight
  <2>3. rabp'[p] # NoBuf => rabp'[p] # b /\ rabp'[p] = rabp[p]
    BY <1>1 DEF Own, OneOwner
  <2>4. \A q \in Procs : rabp'[q] # NoBuf => ~InFlight(rabp[q])'
    BY <1>3, <2>1, <2>3 DEF Own, Settled, InFlight
  <2>5. \A c \in Bufs : "ASYNC" \in flags'[c] => "BUSY" \in flags'[c]
    BY <1>1 DEF Own, Settled
  <2> QED BY <2>2, <2>4, <2>5 DEF Settled, InFlight
<1>9. FreeListsOK'
  <2>1. "BUSY" \in flags[b]
    BY <1>2 DEF Own, OneOwner
  <2>2. \A c \in Bufs : "BUSY" \in flags'[c] <=> "BUSY" \in flags[c]
    BY <1>1, <2>1
  <2> QED BY <2>2, KeepLists DEF Own
<1> QED BY <1>6, <1>7, <1>8, <1>9 DEF Own

\* Nothing changes hands.
LEMMA QuietOwn ==
  ASSUME TypeOK, Own, fl' = fl, ioq' = ioq, bp' = bp, rabp' = rabp,
         \A b \in Bufs : \A f \in {"BUSY", "ASYNC", "DONE"} :
            f \in flags'[b] <=> f \in flags[b],
         \A q \in Procs : Resting(q)' => ~InFlight(bp[q])
  PROVE  Own'
<1>1. FreeListsOK'
  BY KeepLists DEF Own
<1>2. \A c : InFlight(c)' <=> InFlight(c)
  BY DEF InFlight
<1>3. OneOwner'
  BY <1>2 DEF Own, OneOwner, Holds
<1>4. RequestsOK'
  BY <1>2 DEF Own, RequestsOK
<1>5. Settled'
  BY <1>2 DEF Own, Settled, InFlight
<1> QED BY <1>1, <1>3, <1>4, <1>5 DEF Own

\* A system call that starts changes nobody's buffers.
LEMMA EnterOwn ==
  ASSUME TypeInv, Own, NEW p \in Procs, UserStep(p)
  PROVE  Own'
<1>1. \E c, l, x, ra, d : /\ l \in {"getblk", "geteblk", "bflush", "readahead"}
                          /\ Enter(p, c, l, x, ra, d)
  BY DEF UserStep, Bread, Breada, Getblk, Geteblk, Sync, UpdateSuper, LastClose
<1>2. /\ UNCHANGED <<flags, fl, ioq, bp, rabp>>
      /\ \A q \in Procs : Resting(q)' => Resting(q)
  BY <1>1 DEF Enter, Goto, Resting, TypeInv, TypeOK
<1> QED BY <1>2, QuietOwn DEF TypeInv, Own, Settled

\* Whatever the holder of a buffer does with it.
LEMMA HoldOwn ==
  ASSUME TypeInv, Own, NEW p \in Procs, HoldStep(p)
  PROVE  Own'
<1> DEFINE b == bp[p]
<1>1. /\ pc[p] = "hold" /\ b \in Bufs /\ flags[b] \in SUBSET Flag
      /\ ~InFlight(b) /\ "BUSY" \in flags[b] /\ "ASYNC" \notin flags[b]
  <2>1. pc[p] = "hold"
    BY DEF HoldStep, Release, Bdwrite, Bwrite, Bawrite, Modify, LockSuper, Holding
  <2>2. b \in Bufs /\ flags[b] \in SUBSET Flag
    BY <2>1 DEF TypeInv, TypeOK, PcOK
  <2>3. Holds(p, b)
    BY DEF Holds
  <2>4. Resting(p)
    BY <2>1 DEF Resting
  <2>5. "BUSY" \in flags[b] /\ "ASYNC" \notin flags[b]
    BY <2>2, <2>3 DEF Own, OneOwner
  <2>6. ~InFlight(b)
    BY <2>4, Zenon DEF Own, Settled
  <2> QED BY <2>1, <2>2, <2>5, <2>6
<1>2. ASSUME NEW f \in SUBSET Flag, Brelse(b, f), ioq' = ioq, rabp' = rabp,
             bp' = [bp EXCEPT ![p] = NoBuf], Return(p)
      PROVE  Own'
  <2>1. \A q \in Procs : Resting(q)' => Resting(q) /\ q # p
    BY <1>2 DEF Return, Resting, TypeInv, TypeOK
  <2>2. PICK g : /\ flags' = [flags EXCEPT ![b] = g]
                 /\ "BUSY" \notin g /\ "ASYNC" \notin g
    BY <1>1, <1>2, BrelseLists DEF TypeInv, Own
  <2>3. FreeListsOK'
    BY <1>1, <1>2, BrelseLists DEF TypeInv, Own
  <2> QED BY <1>1, <1>2, <2>1, <2>2, <2>3, FreeOwn DEF TypeInv
<1>3. ASSUME NEW age \in {{}, {"AGE"}}, Release(p, age) PROVE Own'
  <2>1. flags[b] \cup age \in SUBSET Flag
    BY <1>1 DEF Flag
  <2> QED BY <1>2, <1>3, <2>1 DEF Release, ioVars
<1>4. ASSUME NEW v \in Vals, Bdwrite(p, v) PROVE Own'
  <2>1. flags[b] \cup {"DELWRI", "DONE"} \in SUBSET Flag
    BY <1>1 DEF Flag
  <2> QED BY <1>2, <1>4, <2>1 DEF Bdwrite, ioVars
<1>5. ASSUME LockSuper(p) PROVE Own'
  <2>1. flags[b] \cup {"LOCKED"} \in SUBSET Flag
    BY <1>1 DEF Flag
  <2> QED BY <1>2, <1>5, <2>1 DEF LockSuper, ioVars
<1>6. ASSUME NEW v \in Vals, Bwrite(p, v) PROVE Own'
  <2> DEFINE g == flags[b] \ {"READ", "DONE", "ERROR", "DELWRI", "AGE"}
  <2>1. /\ flags' = [flags EXCEPT ![b] = g] /\ ioq' = Append(ioq, b)
        /\ "BUSY" \in g /\ "ASYNC" \notin g /\ "DONE" \notin g
        /\ fl' = fl /\ bp' = bp /\ rabp' = rabp
    BY <1>1, <1>6 DEF Bwrite, BwriteStart
  <2>2. \A q \in Procs : Resting(q)' => Resting(q) /\ q # p
    BY <1>6 DEF Bwrite, Goto, Resting, TypeInv, TypeOK
  <2> HIDE DEF g
  <2> QED BY <1>1, <2>1, <2>2, StartOwn DEF TypeInv
<1>7. ASSUME NEW v \in Vals, Bawrite(p, v) PROVE Own'
  <2> DEFINE g == (flags[b] \cup {"ASYNC"}) \ {"READ", "DONE", "ERROR", "DELWRI", "AGE"}
  <2>1. /\ flags' = [flags EXCEPT ![b] = g] /\ ioq' = Append(ioq, b)
        /\ "BUSY" \in g /\ "ASYNC" \in g /\ "DONE" \notin g
        /\ fl' = fl /\ bp' = [bp EXCEPT ![p] = NoBuf] /\ rabp' = rabp
    BY <1>1, <1>7 DEF Bawrite, BwriteStart
  <2>2. \A q \in Procs : Resting(q)' => Resting(q) /\ q # p
    BY <1>7 DEF Bawrite, Goto, Resting, TypeInv, TypeOK
  <2> HIDE DEF g
  <2> QED BY <1>1, <2>1, <2>2, StartAsyncOwn DEF TypeInv
<1> QED BY <1>3, <1>4, <1>5, <1>6, <1>7 DEF HoldStep

\* The pieces of bio.c in which no buffer changes hands.
LEMMA QuietKernelOwn ==
  ASSUME TypeInv, Own, NEW p \in Procs,
         \/ GetblkFind(p) \/ GetblkWait(p) \/ GetblkNoFree(p) \/ GotBuffer(p)
         \/ Readahead(p) \/ IowaitSleep(p) \/ BreadDone(p)
         \/ BwriteStarted(p) \/ BflushDone(p)
  PROVE  Own'
<1> USE DEF TypeInv
<1>0. /\ \A q \in Procs : Resting(q) => ~InFlight(bp[q])
      /\ \A b \in Bufs : InFlight(b) => "DONE" \notin flags[b]
  BY DEF Own, Settled, RequestsOK
<1>1. ASSUME GetblkFind(p) PROVE Own'
  <2>1. fl' = fl /\ ioq' = ioq /\ bp' = bp /\ rabp' = rabp
    BY <1>1 DEF GetblkFind, Goto, bufVars, ioVars, callVars, argVars, mntVars
  <2>2. \A b \in Bufs : \A f \in {"BUSY", "ASYNC", "DONE"} :
          f \in flags'[b] <=> f \in flags[b]
    BY <1>1 DEF TypeOK, GetblkFind, Goto, bufVars
  <2>4. \A q \in Procs : Resting(q)' => ~InFlight(bp[q])
    BY <1>1, <1>0 DEF TypeOK, Resting, GetblkFind, Goto
  <2> QED BY <2>1, <2>2, <2>4, QuietOwn
<1>2. ASSUME GetblkWait(p) PROVE Own'
  <2>1. fl' = fl /\ ioq' = ioq /\ bp' = bp /\ rabp' = rabp
    BY <1>2 DEF GetblkWait, Sleep, bufVars, ioVars, callVars, argVars, mntVars
  <2>2. \A b \in Bufs : \A f \in {"BUSY", "ASYNC", "DONE"} :
          f \in flags'[b] <=> f \in flags[b]
    BY <1>2 DEF TypeOK, GetblkWait, Sleep, bufVars
  <2>4. \A q \in Procs : Resting(q)' => ~InFlight(bp[q])
    BY <1>2, <1>0 DEF TypeOK, Resting, GetblkWait, Sleep
  <2> QED BY <2>1, <2>2, <2>4, QuietOwn
<1>3. ASSUME GetblkNoFree(p) PROVE Own'
  <2>1. fl' = fl /\ ioq' = ioq /\ bp' = bp /\ rabp' = rabp
    BY <1>3 DEF GetblkNoFree, Sleep, bufVars, ioVars, callVars, argVars, mntVars
  <2>2. \A b \in Bufs : \A f \in {"BUSY", "ASYNC", "DONE"} :
          f \in flags'[b] <=> f \in flags[b]
    BY <1>3 DEF TypeOK, GetblkNoFree, Sleep, bufVars
  <2>4. \A q \in Procs : Resting(q)' => ~InFlight(bp[q])
    BY <1>3, <1>0 DEF TypeOK, Resting, GetblkNoFree, Sleep
  <2> QED BY <2>1, <2>2, <2>4, QuietOwn
<1>4. ASSUME GotBuffer(p) PROVE Own'
  <2>1. fl' = fl /\ ioq' = ioq /\ bp' = bp /\ rabp' = rabp
    BY <1>4 DEF GotBuffer, Hold, bufVars, ioVars, callVars, argVars, mntVars
  <2>2. \A b \in Bufs : \A f \in {"BUSY", "ASYNC", "DONE"} :
          f \in flags'[b] <=> f \in flags[b]
    BY <1>4 DEF TypeOK, GotBuffer, Hold, bufVars
  <2>4. \A q \in Procs : Resting(q)' => ~InFlight(bp[q])
    BY <1>4, <1>0 DEF TypeOK, Resting, GotBuffer, Hold
  <2> QED BY <2>1, <2>2, <2>4, QuietOwn
<1>5. ASSUME Readahead(p) PROVE Own'
  <2>1. fl' = fl /\ ioq' = ioq /\ bp' = bp /\ rabp' = rabp
    BY <1>5 DEF Readahead, AfterReadahead, Goto, bufVars, ioVars, callVars, argVars, mntVars
  <2>2. \A b \in Bufs : \A f \in {"BUSY", "ASYNC", "DONE"} :
          f \in flags'[b] <=> f \in flags[b]
    BY <1>5 DEF TypeOK, Readahead, AfterReadahead, Goto, bufVars
  <2>3. \A q \in Procs : Resting(q)' => Resting(q)
    BY <1>5 DEF TypeOK, Resting, Readahead, AfterReadahead, Goto
  <2>4. \A q \in Procs : Resting(q)' => ~InFlight(bp[q])
    BY <2>3, <1>0
  <2> QED BY <2>1, <2>2, <2>4, QuietOwn
<1>6. ASSUME IowaitSleep(p) PROVE Own'
  <2>1. fl' = fl /\ ioq' = ioq /\ bp' = bp /\ rabp' = rabp
    BY <1>6 DEF IowaitSleep, Sleep, bufVars, ioVars, callVars, argVars, mntVars
  <2>2. \A b \in Bufs : \A f \in {"BUSY", "ASYNC", "DONE"} :
          f \in flags'[b] <=> f \in flags[b]
    BY <1>6 DEF TypeOK, IowaitSleep, Sleep, bufVars
  <2>4. \A q \in Procs : Resting(q)' => ~InFlight(bp[q])
    BY <1>6, <1>0 DEF TypeOK, Resting, IowaitSleep, Sleep
  <2> QED BY <2>1, <2>2, <2>4, QuietOwn
<1>7. ASSUME BreadDone(p) PROVE Own'
  <2>1. fl' = fl /\ ioq' = ioq /\ bp' = bp /\ rabp' = rabp
    BY <1>7 DEF BreadDone, Hold, bufVars, ioVars, callVars, argVars, mntVars
  <2>2. \A b \in Bufs : \A f \in {"BUSY", "ASYNC", "DONE"} :
          f \in flags'[b] <=> f \in flags[b]
    BY <1>7 DEF TypeOK, BreadDone, Hold, bufVars
  <2>3. bp[p] \in Bufs /\ "DONE" \in flags[bp[p]]
    BY <1>7 DEF PcOK, BreadDone
  <2>4. \A q \in Procs : Resting(q)' => ~InFlight(bp[q])
    BY <1>7, <1>0, <2>3 DEF TypeOK, Resting, BreadDone, Hold
  <2> QED BY <2>1, <2>2, <2>4, QuietOwn
<1>8. ASSUME BwriteStarted(p) PROVE Own'
  <2>1. fl' = fl /\ ioq' = ioq /\ bp' = bp /\ rabp' = rabp
    BY <1>8 DEF BwriteStarted, Return, Goto, Continue, bufVars, ioVars, callVars, argVars, mntVars
  <2>2. \A b \in Bufs : \A f \in {"BUSY", "ASYNC", "DONE"} :
          f \in flags'[b] <=> f \in flags[b]
    BY <1>8 DEF TypeOK, BwriteStarted, Return, Goto, Continue, bufVars
  <2>4. \A q \in Procs : Resting(q)' => ~InFlight(bp[q])
    BY <1>8, <1>0 DEF TypeOK, Resting, BwriteStarted, Return, Goto, Continue
  <2> QED BY <2>1, <2>2, <2>4, QuietOwn
<1>9. ASSUME BflushDone(p) PROVE Own'
  <2>1. fl' = fl /\ ioq' = ioq /\ bp' = bp /\ rabp' = rabp
    BY <1>9 DEF BflushDone, Return, bufVars, ioVars, callVars, argVars, mntVars
  <2>2. \A b \in Bufs : \A f \in {"BUSY", "ASYNC", "DONE"} :
          f \in flags'[b] <=> f \in flags[b]
    BY <1>9 DEF TypeOK, BflushDone, Return, bufVars
  <2>4. \A q \in Procs : Resting(q)' => ~InFlight(bp[q])
    BY <1>9, <1>0 DEF TypeOK, Resting, BflushDone, Return
  <2> QED BY <2>1, <2>2, <2>4, QuietOwn
<1> QED BY <1>1, <1>2, <1>3, <1>4, <1>5, <1>6, <1>7, <1>8, <1>9

\* The pieces of bio.c that take, release or start a buffer.
LEMMA KernelOwn ==
  ASSUME TypeInv, Own, NEW p \in Procs, KernelStep(p)
  PROVE  Own'
<1> USE DEF TypeInv
<1>1. ASSUME GetblkHit(p) PROVE Own'
  <2>1. PICK q \in Queue : \E i \in DOMAIN fl[q] : fl[q][i] = cand[p] /\ NotAvail(q, i)
    BY <1>1 DEF GetblkHit
  <2>2. PICK i \in DOMAIN fl[q] : fl[q][i] = cand[p] /\ NotAvail(q, i)
    BY <2>1
  <2> DEFINE b == cand[p]
             g == flags[b] \cup {"BUSY"}
  <2>3. flags' = [flags EXCEPT ![b] = g] /\ "BUSY" \in g
    BY <1>1 DEF GetblkHit
  <2>4. b \in Bufs /\ "BUSY" \notin flags[b] /\ FreeListsOK'
    BY <2>2, <2>3, NotAvailLists DEF Own
  <2>5. "ASYNC" \notin g
    BY <2>4 DEF Own, Settled
  <2>6. /\ ioq' = ioq
        /\ \/ bp[p] = NoBuf /\ bp' = [bp EXCEPT ![p] = b] /\ rabp' = rabp
           \/ rabp[p] = NoBuf /\ rabp' = [rabp EXCEPT ![p] = b] /\ bp' = bp
        /\ \A r \in Procs \ {p} : Resting(r)' => Resting(r)
        /\ Resting(p)' => bp'[p] = b
    BY <1>1 DEF GetblkHit, Deliver, Goto, Resting, ioVars, TypeOK, PcOK
  <2> HIDE DEF b, g
  <2> QED BY <2>3, <2>4, <2>5, <2>6, TakeOwn
<1>2. ASSUME GetblkReassign(p) PROVE Own'
  <2> DEFINE b == fl[Victims][1]
             g == IF pc[p] = "geteblk" THEN {"BUSY", "INVAL"} ELSE {"BUSY"}
  <2>1. Victims \in Queue /\ 1 \in DOMAIN fl[Victims] /\ NotAvail(Victims, 1)
    BY <1>2 DEF GetblkReassign, TypeOK, Victims, Queue
  <2>2. flags' = [flags EXCEPT ![b] = g] /\ "BUSY" \in g /\ "ASYNC" \notin g
    BY <1>2 DEF GetblkReassign
  <2>3. b \in Bufs /\ "BUSY" \notin flags[b] /\ FreeListsOK'
    BY <2>1, <2>2, NotAvailLists DEF Own
  <2>4. /\ ioq' = ioq
        /\ \/ bp[p] = NoBuf /\ bp' = [bp EXCEPT ![p] = b] /\ rabp' = rabp
           \/ rabp[p] = NoBuf /\ rabp' = [rabp EXCEPT ![p] = b] /\ bp' = bp
        /\ \A r \in Procs \ {p} : Resting(r)' => Resting(r)
        /\ Resting(p)' => bp'[p] = b
    <3>1. Deliver(p, b) /\ ret' = ret /\ ioq' = ioq /\ pc[p] \in {"getblk", "geteblk"}
      BY <1>2 DEF GetblkReassign, Missing, ioVars
    <3> HIDE DEF b
    <3> QED BY <3>1, <2>3 DEF Deliver, Goto, Resting, TypeOK, PcOK
  <2> HIDE DEF b, g
  <2> QED BY <2>2, <2>3, <2>4, TakeOwn
<1>3. ASSUME NEW q \in Queue, NEW i \in DOMAIN fl[q], NotAvail(q, i),
             BwriteStart(fl[q][i], flags[fl[q][i]] \cup {"BUSY", "ASYNC"}),
             bp' = bp, rabp' = rabp, Goto(p, "started"), ret' = ret
      PROVE  Own'
  <2> DEFINE b == fl[q][i]
             g == (flags[b] \cup {"BUSY", "ASYNC"}) \ {"READ", "DONE", "ERROR", "DELWRI", "AGE"}
  <2>1. /\ flags' = [flags EXCEPT ![b] = g] /\ ioq' = Append(ioq, b)
        /\ "BUSY" \in g /\ "ASYNC" \in g /\ "DONE" \notin g
    BY <1>3 DEF BwriteStart
  <2>2. b \in Bufs /\ "BUSY" \notin flags[b] /\ FreeListsOK'
    BY <1>3, <2>1, NotAvailLists DEF Own
  <2>3. \A r \in Procs : Resting(r)' => Resting(r)
    BY <1>3 DEF Goto, Resting, TypeOK
  <2> HIDE DEF b, g
  <2> QED BY <1>3, <2>1, <2>2, <2>3, SendOwn
<1>4. ASSUME GetblkWriteBack(p) PROVE Own'
  <2>1. Victims \in Queue /\ 1 \in DOMAIN fl[Victims]
    BY <1>4 DEF GetblkWriteBack, TypeOK, Victims, Queue
  <2> QED BY <1>3, <1>4, <2>1 DEF GetblkWriteBack
<1>5. ASSUME BflushOne(p) PROVE Own'
  BY <1>3, <1>5 DEF BflushOne
<1>6. ASSUME GotForRead(p) PROVE Own'
  <2>1. bp[p] \in Bufs /\ pc[p] = "got" /\ ret[p] # "readahead" /\ Resting(p)
    BY <1>6 DEF PcOK, GotForRead, Resting
  <2>2. fl' = fl /\ bp' = bp /\ rabp' = rabp /\ ret' = ret
    BY <1>6 DEF GotForRead
  <2>3. CASE "DONE" \in flags[bp[p]]
    <3>1. flags' = flags /\ ioq' = ioq
      BY <1>6, <2>3 DEF GotForRead
    <3>2. \A q \in Procs : Resting(q)' => Resting(q)
      BY <1>6, <2>1, <2>2, <2>3 DEF GotForRead, Hold, Goto, Resting, TypeOK
    <3> QED BY <2>2, <3>1, <3>2, QuietOwn DEF Own, Settled
  <2>4. CASE "DONE" \notin flags[bp[p]]
    <3> DEFINE g == flags[bp[p]] \cup {"READ"} \cup {}
    <3>1. /\ flags' = [flags EXCEPT ![bp[p]] = g] /\ ioq' = Append(ioq, bp[p])
      BY <1>6, <2>4 DEF GotForRead, ReadStart
    <3>2. \A q \in Procs : Resting(q)' => Resting(q) /\ q # p
      BY <1>6, <2>1, <2>2, <2>4 DEF GotForRead, Goto, Resting, TypeOK
    <3>3. "BUSY" \in g /\ "ASYNC" \notin g /\ "DONE" \notin g
      BY <2>1, <2>4 DEF Own, OneOwner, Holds
    <3>4. ~InFlight(bp[p])
      BY <2>1 DEF Own, Settled
    <3> HIDE DEF g
    <3> QED BY <2>1, <2>2, <3>1, <3>2, <3>3, <3>4, StartOwn
  <2> QED BY <2>3, <2>4
<1>7. ASSUME UpdateGot(p) PROVE Own'
  <2> DEFINE b == bp[p]
             g == flags[b] \ {"READ", "DONE", "ERROR", "DELWRI", "AGE"}
  <2>1. b \in Bufs /\ Resting(p) /\ Holds(p, b)
    BY <1>7 DEF PcOK, UpdateGot, Resting, Holds
  <2>2. /\ flags' = [flags EXCEPT ![b] = g] /\ ioq' = Append(ioq, b)
        /\ "BUSY" \in g /\ "ASYNC" \notin g /\ "DONE" \notin g
        /\ fl' = fl /\ bp' = bp /\ rabp' = rabp
    BY <1>7, <2>1 DEF UpdateGot, BwriteStart, Own, OneOwner
  <2>3. \A q \in Procs : Resting(q)' => Resting(q) /\ q # p
    BY <1>7 DEF UpdateGot, Goto, Resting, TypeOK
  <2>4. ~InFlight(b)
    BY <2>1 DEF Own, Settled
  <2> HIDE DEF g
  <2> QED BY <2>1, <2>2, <2>3, <2>4, StartOwn
<1>8. ASSUME ReadaheadCached(p) PROVE Own'
  <2> DEFINE b == rabp[p]
  <2>1. b \in Bufs /\ flags[b] \in SUBSET Flag /\ Holds(p, b) /\ "DONE" \in flags[b]
    BY <1>8 DEF TypeOK, PcOK, ReadaheadCached, Holds
  <2>2. "BUSY" \in flags[b] /\ ~InFlight(b)
    BY <2>1 DEF Own, OneOwner, RequestsOK
  <2>3. Brelse(b, flags[b])
    BY <1>8 DEF ReadaheadCached
  <2>4. PICK g : /\ flags' = [flags EXCEPT ![b] = g]
                 /\ "BUSY" \notin g /\ "ASYNC" \notin g
    BY <2>1, <2>2, <2>3, BrelseLists DEF Own
  <2>5. FreeListsOK'
    BY <2>1, <2>2, <2>3, BrelseLists DEF Own
  <2>6. /\ ioq' = ioq /\ rabp' = [rabp EXCEPT ![p] = NoBuf] /\ bp' = bp
        /\ \A q \in Procs : Resting(q)' => Resting(q) /\ q # p
    BY <1>8 DEF ReadaheadCached, AfterReadahead, Goto, Resting, ioVars, TypeOK
  <2> QED BY <2>1, <2>2, <2>4, <2>5, <2>6, FreeOwn
<1>9. ASSUME ReadaheadStart(p) PROVE Own'
  <2> DEFINE b == rabp[p]
             g == flags[b] \cup {"READ"} \cup {"ASYNC"}
  <2>1. b \in Bufs /\ Holds(p, b) /\ "DONE" \notin flags[b]
    BY <1>9 DEF PcOK, ReadaheadStart, Holds
  <2>2. /\ flags' = [flags EXCEPT ![b] = g] /\ ioq' = Append(ioq, b)
        /\ "BUSY" \in g /\ "ASYNC" \in g /\ "DONE" \notin g
    BY <1>9, <2>1 DEF ReadaheadStart, ReadStart, Own, OneOwner
  <2>3. b # NoBuf
    BY <2>1, ConstAssumption
  <2>4. ~InFlight(b)
    BY <2>3 DEF Own, Settled
  <2>5. /\ fl' = fl /\ rabp' = [rabp EXCEPT ![p] = NoBuf] /\ bp' = bp
        /\ \A q \in Procs : Resting(q)' => Resting(q) /\ q # p
    BY <1>9 DEF ReadaheadStart, AfterReadahead, Goto, Resting, TypeOK
  <2> HIDE DEF g
  <2> QED BY <2>1, <2>2, <2>4, <2>5, StartAsyncOwn
<1>10. ASSUME BwriteDone(p) PROVE Own'
  <2> DEFINE b == bp[p]
  <2>1. b \in Bufs /\ flags[b] \in SUBSET Flag /\ Holds(p, b) /\ "DONE" \in flags[b]
    BY <1>10 DEF TypeOK, PcOK, BwriteDone, Holds
  <2>2. "BUSY" \in flags[b] /\ ~InFlight(b)
    BY <2>1 DEF Own, OneOwner, RequestsOK
  <2>3. Brelse(b, flags[b])
    BY <1>10 DEF BwriteDone
  <2>4. PICK g : /\ flags' = [flags EXCEPT ![b] = g]
                 /\ "BUSY" \notin g /\ "ASYNC" \notin g
    BY <2>1, <2>2, <2>3, BrelseLists DEF Own
  <2>5. FreeListsOK'
    BY <2>1, <2>2, <2>3, BrelseLists DEF Own
  <2>6. /\ ioq' = ioq /\ bp' = [bp EXCEPT ![p] = NoBuf] /\ rabp' = rabp
        /\ \A q \in Procs : Resting(q)' => Resting(q) /\ q # p
    BY <1>10 DEF BwriteDone, Return, Goto, Resting, ioVars, TypeOK
  <2> QED BY <2>1, <2>2, <2>4, <2>5, <2>6, FreeOwn
<1> QED BY <1>1, <1>2, <1>4, <1>5, <1>6, <1>7, <1>8, <1>9, <1>10, QuietKernelOwn DEF KernelStep

\* The end of a transfer: a synchronous one leaves the buffer to its holder,
\* an asynchronous one releases a buffer that nobody holds.
LEMMA IodoneOwn ==
  ASSUME TypeInv, Own, NEW i \in DOMAIN ioq, NEW ok \in BOOLEAN, Iodone(i, ok)
  PROVE  Own'
<1> DEFINE b == ioq[i]
           f == flags[b] \cup {"DONE"} \cup (IF ok THEN {} ELSE {"ERROR"})
<1>1. /\ ioq \in Seq(Bufs) /\ flags \in [Bufs -> SUBSET Flag]
      /\ b \in Bufs /\ f \in SUBSET Flag /\ InFlight(b)
      /\ IsInjective(ioq) /\ ioq' = RemoveAt(ioq, i)
  BY DEF TypeInv, TypeOK, Flag, InFlight, ToSet, Own, RequestsOK, Iodone
<1>2. "BUSY" \in flags[b] /\ "DONE" \notin flags[b]
  BY <1>1 DEF Own, RequestsOK
<1>3. IsInjective(ioq') /\ \A c : InFlight(c)' <=> InFlight(c) /\ c # b
  BY <1>1, RemoveAtSet DEF InFlight
<1>4. UNCHANGED <<pc, ret, bp, rabp>>
  BY DEF Iodone
<1>5. \A q \in Procs : Resting(q)' <=> Resting(q)
  BY <1>4 DEF Resting
<1>6. "ASYNC" \in f <=> "ASYNC" \in flags[b]
  OBVIOUS
<1>7. CASE "ASYNC" \in flags[b]
  <2>1. Brelse(b, f)
    BY <1>6, <1>7 DEF Iodone
  <2> HIDE DEF b, f
  <2>2. PICK g : /\ flags' = [flags EXCEPT ![b] = g]
                 /\ "BUSY" \notin g /\ "ASYNC" \notin g
    BY <1>1, <1>2, <2>1, BrelseLists DEF TypeInv, Own
  <2>3. FreeListsOK'
    BY <1>1, <1>2, <2>1, BrelseLists DEF TypeInv, Own
  <2>4. \A q \in Procs : ~Holds(q, b)
    BY <1>1, <1>7 DEF Own, OneOwner
  <2>5. OneOwner'
    BY <1>1, <1>3, <1>4, <2>2, <2>4 DEF Own, OneOwner, Holds
  <2>6. RequestsOK'
    BY <1>1, <1>3, <2>2 DEF Own, RequestsOK
  <2>7. Settled'
    BY <1>1, <1>3, <1>4, <1>5, <2>2 DEF Own, Settled, InFlight
  <2> QED BY <2>3, <2>5, <2>6, <2>7 DEF Own
<1>8. CASE "ASYNC" \notin flags[b]
  <2> DEFINE g == f \ {"WANTED"}
  <2>1. flags' = [flags EXCEPT ![b] = g] /\ fl' = fl
    BY <1>6, <1>8 DEF Iodone
  <2>2. "BUSY" \in g /\ "ASYNC" \notin g
    BY <1>2, <1>8
  <2> HIDE DEF b, f, g
  <2>3. FreeListsOK'
    BY <1>1, <1>2, <2>1, <2>2, KeepLists DEF Own
  <2>4. OneOwner'
    <3>1. \A q \in Procs : \A c \in Bufs : Holds(q, c)' <=> Holds(q, c)
      BY <1>4 DEF Holds
    <3>2. \A c \in Bufs : /\ "BUSY" \in flags'[c] <=> "BUSY" \in flags[c]
                          /\ "ASYNC" \in flags'[c] <=> "ASYNC" \in flags[c]
      BY <1>1, <1>2, <1>8, <2>1, <2>2
    <3>3. \A q, r \in Procs : \A c \in Bufs : Holds(q, c)' /\ Holds(r, c)' => q = r
      BY <3>1 DEF Own, OneOwner
    <3>4. \A q \in Procs : bp'[q] = rabp'[q] => bp'[q] = NoBuf
      BY <1>4 DEF Own, OneOwner
    <3>5. \A q \in Procs : \A c \in Bufs :
            Holds(q, c)' => "BUSY" \in flags'[c] /\ "ASYNC" \notin flags'[c]
      BY <3>1, <3>2 DEF Own, OneOwner
    <3>6. ASSUME NEW c \in Bufs, "BUSY" \in flags'[c]
          PROVE  (\E q \in Procs : Holds(q, c)') \/ ("ASYNC" \in flags'[c] /\ InFlight(c)')
      <4>1. CASE \E q \in Procs : Holds(q, c)
        BY <4>1, <3>1
      <4>2. CASE ~ \E q \in Procs : Holds(q, c)
        <5>1. "ASYNC" \in flags[c] /\ InFlight(c)
          BY <4>2, <3>2, <3>6 DEF Own, OneOwner
        <5>2. c # b
          BY <5>1, <1>8
        <5> QED BY <5>1, <5>2, <3>2, <1>3
      <4> QED BY <4>1, <4>2
    <3> QED BY <3>3, <3>4, <3>5, <3>6 DEF OneOwner
  <2>5. RequestsOK'
    BY <1>1, <1>3, <2>1, <2>2 DEF Own, RequestsOK
  <2>6. Settled'
    BY <1>1, <1>3, <1>4, <1>5, <2>1, <2>2 DEF Own, Settled, InFlight
  <2> QED BY <2>3, <2>4, <2>5, <2>6 DEF Own
<1> QED BY <1>7, <1>8

\* At first every buffer is on the AGE list.
LEMMA InitOwn == Init => Own
<1> SUFFICES ASSUME Init PROVE Own
  OBVIOUS
<1>1. ToSet(ioq) = {} /\ IsInjective(ioq)
  BY DEF Init, ToSet, IsInjective
<1>2. /\ \A q \in Queue : q # "AGE" => ToSet(fl[q]) = {} /\ IsInjective(fl[q])
      /\ ToSet(fl["AGE"]) = Bufs /\ IsInjective(fl["AGE"])
  BY OrderAssumption DEF Init, ToSet, IsInjective, Queue
<1>3. FreeListsOK
  BY <1>2 DEF Init, FreeListsOK, Queue
<1>4. OneOwner
  BY ConstAssumption DEF Init, OneOwner, Holds
<1>5. RequestsOK /\ Settled
  BY <1>1 DEF Init, RequestsOK, Settled, InFlight
<1> QED BY <1>3, <1>4, <1>5 DEF Own

LEMMA NextOwn == TypeInv /\ Own /\ [Next]_vars => Own'
<1> SUFFICES ASSUME TypeInv, Own, [Next]_vars PROVE Own'
  OBVIOUS
<1>1. CASE \E p \in Procs : UserStep(p) \/ HoldStep(p) \/ KernelStep(p)
  BY <1>1, EnterOwn, HoldOwn, KernelOwn
<1>2. CASE Interrupt
  BY <1>2, IodoneOwn DEF Interrupt, Complete
<1>3. CASE UNCHANGED vars
  BY <1>3, QuietOwn DEF vars, TypeInv, Own, Settled, Resting
<1> QED BY <1>1, <1>2, <1>3 DEF Next

LEMMA OwnInvariant == Spec => []Own
<1>1. Init => Own
  BY InitOwn
<1>2. TypeInv /\ Own /\ [Next]_vars => Own'
  BY NextOwn
<1> QED BY <1>1, <1>2, TypeInvariant, PTL DEF Spec

\* A buffer is on one free list, once, or checked out: no interleaving of
\* getblk, brelse, bflush and iodone puts it on two lists or loses it.
THEOREM FreeListsCorrect == Spec => []FreeListsOK
<1>1. Own => FreeListsOK
  BY DEF Own
<1> QED BY <1>1, OwnInvariant, PTL

\* A buffer that is checked out belongs to one process, or to the driver that
\* will release it: getblk's "no one else can touch it".
THEOREM BuffersOwned == Spec => []OneOwner
<1>1. Own => OneOwner
  BY DEF Own
<1> QED BY <1>1, OwnInvariant, PTL

\* The driver is never handed a buffer it has, and iodone never panics with
\* "dup iodone".
THEOREM NoDupIodone == Spec => []RequestsOK
<1>1. Own => RequestsOK
  BY DEF Own
<1> QED BY <1>1, OwnInvariant, PTL

-----------------------------------------------------------------------------
(* Sleeping and waking.  NoLostWakeup is not inductive: iowait may sleep   *)
(* because the transfer of its buffer is under way or over, and who sleeps *)
(* for a buffer is in getblk or in iowait, nowhere else.                   *)

\* The transfer p waits for, or is about to wait for, is under way or over.
Pending(p) == bp[p] # NoBuf /\ ~Resting(p) =>
                InFlight(bp[p]) \/ "DONE" \in flags[bp[p]]

\* Whoever is asleep sleeps for what has not happened yet, and will be seen.
Awaits(p) ==
  /\ wchan[p] = FreeList =>
       /\ pc[p] \in {"getblk", "geteblk"}
       /\ freeWanted /\ fl["AGE"] = <<>> /\ fl["LRU"] = <<>>
  /\ wchan[p] \in Bufs =>
       IF pc[p] = "iowait"
       THEN wchan[p] = bp[p] /\ InFlight(bp[p])
       ELSE pc[p] = "getblk" /\ {"BUSY", "WANTED"} \subseteq flags[wchan[p]]

Waiting == \A p \in Procs : Pending(p) /\ Awaits(p)

\* A step of p leaves the others waiting if it takes away nothing they wait
\* for but wakes them up instead.
LEMMA StepWaiting ==
  ASSUME TypeOK, Waiting, NEW p \in Procs, Pending(p)', Awaits(p)',
         \A q \in Procs \ {p} : /\ pc'[q] = pc[q] /\ ret'[q] = ret[q] /\ bp'[q] = bp[q]
                                /\ wchan'[q] \in {wchan[q], NoBuf},
         \A q \in Procs \ {p} : InFlight(bp[q]) => InFlight(bp[q])',
         \A q \in Procs \ {p} : bp[q] # NoBuf /\ "DONE" \in flags[bp[q]] =>
                                  "DONE" \in flags'[bp[q]],
         \A q \in Procs \ {p} : \A b \in Bufs :
            wchan'[q] = b /\ pc[q] # "iowait" => flags[b] \cap {"BUSY", "WANTED"} \subseteq flags'[b],
         \A q \in Procs \ {p} : wchan'[q] = FreeList =>
            /\ freeWanted' = freeWanted
            /\ fl["AGE"] = <<>> => fl'["AGE"] = <<>>
            /\ fl["LRU"] = <<>> => fl'["LRU"] = <<>>
  PROVE  Waiting'
<1> SUFFICES ASSUME NEW q \in Procs \ {p} PROVE Pending(q)' /\ Awaits(q)'
  BY DEF Waiting
<1>1. Pending(q) /\ Awaits(q)
  BY DEF Waiting
<1>2. pc'[q] = pc[q] /\ ret'[q] = ret[q] /\ bp'[q] = bp[q]
  OBVIOUS
<1>3. InFlight(bp[q]) => InFlight(bp[q])'
  OBVIOUS
<1>4. InFlight(bp[q])' <=> bp[q] \in ToSet(ioq')
  BY <1>2 DEF InFlight
<1>5. Pending(q)'
  BY <1>1, <1>2, <1>3 DEF Pending, Resting
<1>6. wchan'[q] # NoBuf => wchan'[q] = wchan[q]
  OBVIOUS
<1>7. Awaits(q)'
  <2>1. CASE wchan'[q] = NoBuf
    BY <2>1, ConstAssumption DEF Awaits
  <2>2. CASE wchan'[q] = FreeList
    BY <1>1, <1>2, <1>6, <2>2, ConstAssumption DEF Awaits
  <2>3. CASE wchan'[q] \in Bufs
    BY <1>1, <1>2, <1>3, <1>6, <2>3, ConstAssumption DEF Awaits
  <2>4. wchan'[q] \in Bufs \cup {NoBuf, FreeList}
    BY DEF TypeOK
  <2> QED BY <2>1, <2>2, <2>3, <2>4
<1> QED BY <1>5, <1>7

\* brelse wakes everybody who waits for a free buffer, and everybody in getblk
\* who waits for this one.
LEMMA BrelseWakes ==
  ASSUME TypeOK, Waiting, NEW b \in Bufs, NEW f \in SUBSET Flag, flags[b] \subseteq f,
         Brelse(b, f)
  PROVE  \A q \in Procs :
           /\ wchan'[q] \in {wchan[q], NoBuf} /\ wchan'[q] # FreeList
           /\ wchan'[q] = b => pc[q] = "iowait" /\ bp[q] = b
           /\ \A c \in Bufs \ {b} : flags'[c] = flags[c]
<1> TAKE q \in Procs
<1>1. Awaits(q)
  BY DEF Waiting
<1>2. wchan'[q] = IF \/ wchan[q] = b /\ "WANTED" \in f
                     \/ wchan[q] = FreeList /\ freeWanted
                  THEN NoBuf ELSE wchan[q]
  BY DEF Brelse
<1>3. \A c \in Bufs \ {b} : flags'[c] = flags[c]
  BY DEF Brelse, TypeOK
<1> QED BY <1>1, <1>2, <1>3, ConstAssumption DEF Awaits

\* A system call that starts leaves everybody waiting.
LEMMA EnterWaiting ==
  ASSUME TypeInv, TypeOK', Waiting, NEW p \in Procs, UserStep(p)
  PROVE  Waiting'
<1>1. \E c, l, x, ra, d : /\ l \in {"getblk", "geteblk", "bflush", "readahead"}
                          /\ c # "readahead"
                          /\ Enter(p, c, l, x, ra, d)
  BY DEF UserStep, Bread, Breada, Getblk, Geteblk, Sync, UpdateSuper, LastClose
<1>2. /\ UNCHANGED <<flags, fl, freeWanted, ioq, wchan, bp>>
      /\ \A q \in Procs \ {p} : pc'[q] = pc[q] /\ ret'[q] = ret[q]
      /\ pc[p] = "user"
  BY <1>1 DEF Enter, Goto, TypeInv, TypeOK
<1>3. bp[p] = NoBuf
  BY <1>2 DEF TypeInv, PcOK
<1>4. wchan[p] = NoBuf
  BY <1>2, <1>3 DEF TypeInv, TypeOK, Waiting, Awaits
<1>5. Pending(p)' /\ Awaits(p)'
  BY <1>2, <1>3, <1>4, ConstAssumption DEF Pending, Awaits
<1> QED BY <1>2, <1>5, StepWaiting DEF TypeInv, InFlight

\* brelse by its holder leaves the others waiting.
LEMMA ReleaseWaiting ==
  ASSUME TypeInv, TypeOK', Own, Waiting, NEW p \in Procs, NEW b \in Bufs,
         NEW f \in SUBSET Flag, flags[b] \subseteq f, Brelse(b, f), Holds(p, b),
         wchan[p] = NoBuf, ioq' = ioq,
         \A q \in Procs \ {p} : pc'[q] = pc[q] /\ ret'[q] = ret[q] /\ bp'[q] = bp[q],
         Pending(p)'
  PROVE  Waiting'
<1>1. \A q \in Procs \ {p} : ~Holds(q, b)
  BY DEF Own, OneOwner
<1>2. \A q \in Procs :
           /\ wchan'[q] \in {wchan[q], NoBuf} /\ wchan'[q] # FreeList
           /\ wchan'[q] = b => pc[q] = "iowait" /\ bp[q] = b
           /\ \A c \in Bufs \ {b} : flags'[c] = flags[c]
  BY BrelseWakes DEF TypeInv
<1>3. Awaits(p)'
  BY <1>2, ConstAssumption DEF Awaits
<1>4. \A q \in Procs \ {p} : bp[q] # b /\ bp[q] \in Bufs \cup {NoBuf}
  BY <1>1 DEF Holds, TypeInv, TypeOK
<1>5. \A q \in Procs \ {p} : \A c \in Bufs : wchan'[q] = c /\ pc[q] # "iowait" => flags'[c] = flags[c]
  BY <1>2, <1>4
<1> QED BY <1>2, <1>3, <1>4, <1>5, StepWaiting DEF TypeInv, InFlight

\* So does a process that hands its buffer to the driver.
LEMMA SendWaiting ==
  ASSUME TypeInv, TypeOK', Own, Waiting, NEW p \in Procs, NEW b \in Bufs, NEW g,
         flags' = [flags EXCEPT ![b] = g], flags[b] \cap {"BUSY", "WANTED"} \subseteq g,
         Holds(p, b) \/ "BUSY" \notin flags[b], ioq' = Append(ioq, b),
         wchan' = wchan, wchan[p] = NoBuf, freeWanted' = freeWanted,
         \A k \in {"AGE", "LRU"} : fl[k] = <<>> => fl'[k] = <<>>,
         \A q \in Procs \ {p} : pc'[q] = pc[q] /\ ret'[q] = ret[q] /\ bp'[q] = bp[q],
         Pending(p)'
  PROVE  Waiting'
<1>1. \A q \in Procs \ {p} : bp[q] # b
  BY DEF Own, OneOwner, Holds
<1>2. Awaits(p)'
  BY ConstAssumption DEF Awaits
<1>3. \A c : InFlight(c) => InFlight(c)'
  BY AppendSet DEF InFlight, TypeInv, TypeOK
<1>4. \A q \in Procs \ {p} : InFlight(bp[q]) => InFlight(bp[q])'
  BY <1>3 DEF InFlight
<1>5. \A c \in Bufs : flags[c] \cap {"BUSY", "WANTED"} \subseteq flags'[c]
  BY DEF TypeInv, TypeOK
<1>6. \A q \in Procs \ {p} : flags'[bp[q]] = flags[bp[q]] \/ bp[q] = NoBuf
  BY <1>1 DEF TypeInv, TypeOK
<1> QED BY <1>2, <1>4, <1>5, <1>6, StepWaiting DEF TypeInv

\* Whatever the holder of a buffer does with it, the others are not lost.
LEMMA HoldWaiting ==
  ASSUME TypeInv, TypeInv', Own, Waiting, NEW p \in Procs, HoldStep(p)
  PROVE  Waiting'
<1> DEFINE b == bp[p]
<1>1. /\ pc[p] = "hold" /\ wchan[p] = NoBuf /\ b \in Bufs /\ flags[b] \in SUBSET Flag
      /\ Holds(p, b) /\ rabp[p] = NoBuf
  BY DEF HoldStep, Release, Bdwrite, Bwrite, Bawrite, Modify, LockSuper, Holding, Running,
         TypeInv, TypeOK, PcOK, Holds
<1>2. CASE bp' = [bp EXCEPT ![p] = NoBuf] /\ ioq' = ioq
           /\ (\E f \in SUBSET Flag : flags[b] \subseteq f /\ Brelse(b, f))
           /\ Return(p)
  <2>1. Pending(p)'
    BY <1>2 DEF Pending, TypeInv, TypeOK
  <2>2. \A q \in Procs \ {p} : pc'[q] = pc[q] /\ ret'[q] = ret[q] /\ bp'[q] = bp[q]
    BY <1>2 DEF Return, TypeInv, TypeOK
  <2> QED BY <1>1, <1>2, <2>1, <2>2, ReleaseWaiting DEF TypeInv
<1>3. CASE \E v \in Vals : Bwrite(p, v)
  <2>1. PICK v \in Vals : Bwrite(p, v)
    BY <1>3
  <2>2. /\ BwriteStart(b, flags[b])
        /\ UNCHANGED <<fl, freeWanted, wchan, bp>>
        /\ \A q \in Procs \ {p} : pc'[q] = pc[q] /\ ret'[q] = ret[q] /\ bp'[q] = bp[q]
    BY <2>1 DEF Bwrite, Goto, TypeInv, TypeOK
  <2>3. b \in ToSet(ioq')
    BY <1>1, <2>2, AppendSet DEF BwriteStart, TypeInv, TypeOK
  <2>4. Pending(p)'
    BY <2>2, <2>3 DEF Pending, InFlight
  <2> DEFINE g == flags[b] \ {"READ", "DONE", "ERROR", "DELWRI", "AGE"}
  <2>5. flags' = [flags EXCEPT ![b] = g] /\ ioq' = Append(ioq, b)
    BY <2>2 DEF BwriteStart
  <2>6. flags[b] \cap {"BUSY", "WANTED"} \subseteq g
    OBVIOUS
  <2> HIDE DEF g
  <2> QED BY <1>1, <2>2, <2>4, <2>5, <2>6, SendWaiting DEF TypeInv
<1>4. CASE \E v \in Vals : Bawrite(p, v)
  <2>1. PICK v \in Vals : Bawrite(p, v)
    BY <1>4
  <2>2. /\ BwriteStart(b, flags[b] \cup {"ASYNC"})
        /\ UNCHANGED <<fl, freeWanted, wchan>>
        /\ bp' = [bp EXCEPT ![p] = NoBuf]
        /\ \A q \in Procs \ {p} : pc'[q] = pc[q] /\ ret'[q] = ret[q] /\ bp'[q] = bp[q]
    BY <2>1 DEF Bawrite, Goto, TypeInv, TypeOK
  <2>4. Pending(p)'
    BY <2>2 DEF Pending, TypeInv, TypeOK
  <2> DEFINE g == (flags[b] \cup {"ASYNC"}) \ {"READ", "DONE", "ERROR", "DELWRI", "AGE"}
  <2>5. flags' = [flags EXCEPT ![b] = g] /\ ioq' = Append(ioq, b)
    BY <2>2 DEF BwriteStart
  <2>6. flags[b] \cap {"BUSY", "WANTED"} \subseteq g
    OBVIOUS
  <2> HIDE DEF g
  <2> QED BY <1>1, <2>2, <2>4, <2>5, <2>6, SendWaiting DEF TypeInv
<1>5. ASSUME NEW age \in {{}, {"AGE"}}, Release(p, age) PROVE Waiting'
  <2>1. flags[b] \cup age \in SUBSET Flag /\ flags[b] \subseteq flags[b] \cup age
    BY <1>1 DEF Flag
  <2> QED BY <1>2, <1>5, <2>1 DEF Release, ioVars
<1>6. ASSUME NEW v \in Vals, Bdwrite(p, v) PROVE Waiting'
  <2> DEFINE f == flags[b] \cup {"DELWRI", "DONE"}
  <2>1. f \in SUBSET Flag /\ flags[b] \subseteq f
    BY <1>1 DEF Flag
  <2>2. Brelse(b, f) /\ bp' = [bp EXCEPT ![p] = NoBuf] /\ Return(p) /\ ioq' = ioq
    BY <1>6 DEF Bdwrite, ioVars
  <2> QED BY <1>2, <2>1, <2>2
<1>7. ASSUME LockSuper(p) PROVE Waiting'
  <2> DEFINE f == flags[b] \cup {"LOCKED"}
  <2>1. f \in SUBSET Flag /\ flags[b] \subseteq f
    BY <1>1 DEF Flag
  <2>2. Brelse(b, f) /\ bp' = [bp EXCEPT ![p] = NoBuf] /\ Return(p) /\ ioq' = ioq
    BY <1>7 DEF LockSuper, ioVars
  <2> QED BY <1>2, <2>1, <2>2
<1> QED BY <1>3, <1>4, <1>5, <1>6, <1>7 DEF HoldStep

\* A process that takes a free buffer, or none, leaves the others waiting.
LEMMA QuietWaiting ==
  ASSUME TypeInv, TypeOK', Own, Waiting, NEW p \in Procs,
         \A b \in Bufs : flags[b] \subseteq flags'[b] \/ "BUSY" \notin flags[b],
         \A q \in Procs \ {p} : pc'[q] = pc[q] /\ ret'[q] = ret[q] /\ bp'[q] = bp[q],
         \A q \in Procs \ {p} : wchan'[q] = wchan[q],
         Awaits(p)', Pending(p)',
         ioq' = ioq,
         \A q \in Procs \ {p} : wchan[q] = FreeList => freeWanted' = freeWanted,
         \A k \in {"AGE", "LRU"} : fl[k] = <<>> => fl'[k] = <<>>
  PROVE  Waiting'
<1>1. \A q \in Procs \ {p} : bp[q] # NoBuf => flags[bp[q]] \subseteq flags'[bp[q]]
  BY DEF Own, OneOwner, Holds, TypeInv, TypeOK
<1>2. \A q \in Procs \ {p} : \A b \in Bufs :
        wchan'[q] = b /\ pc[q] # "iowait" => flags[b] \cap {"BUSY", "WANTED"} \subseteq flags'[b]
  <2> SUFFICES ASSUME NEW q \in Procs \ {p}, NEW b \in Bufs, wchan'[q] = b, pc[q] # "iowait"
               PROVE  flags[b] \cap {"BUSY", "WANTED"} \subseteq flags'[b]
    OBVIOUS
  <2>1. Awaits(q) /\ wchan[q] = b
    BY DEF Waiting
  <2>2. "BUSY" \in flags[b]
    BY <2>1 DEF Awaits
  <2> QED BY <2>2
<1>3. \A q \in Procs \ {p} : wchan'[q] = FreeList =>
            /\ freeWanted' = freeWanted
            /\ fl["AGE"] = <<>> => fl'["AGE"] = <<>>
            /\ fl["LRU"] = <<>> => fl'["LRU"] = <<>>
  OBVIOUS
<1>4. \A q \in Procs \ {p} : InFlight(bp[q]) => InFlight(bp[q])'
  BY DEF InFlight
<1>5. \A q \in Procs \ {p} : bp[q] # NoBuf /\ "DONE" \in flags[bp[q]] => "DONE" \in flags'[bp[q]]
  BY <1>1
<1>6. \A q \in Procs \ {p} : wchan'[q] \in {wchan[q], NoBuf}
  OBVIOUS
<1> QED BY <1>2, <1>3, <1>4, <1>5, <1>6, StepWaiting DEF TypeInv

\* notavail empties no list further that is empty.
LEMMA NotAvailEmpty ==
  ASSUME TypeOK, NEW q \in Queue, NEW i \in DOMAIN fl[q], NotAvail(q, i)
  PROVE  \A k \in {"AGE", "LRU"} : fl[k] = <<>> => fl'[k] = <<>>
<1>1. fl[q] # <<>>
  OBVIOUS
<1>2. \A k \in Queue : k # q => fl'[k] = fl[k]
  BY DEF NotAvail, TypeOK
<1> QED BY <1>1, <1>2 DEF Queue

\* A piece of bio.c that changes no buffer somebody waits for.
LEMMA QuietKernelWaiting ==
  ASSUME TypeInv, TypeOK', Own, Waiting, NEW p \in Procs,
         \/ GetblkFind(p) \/ GotBuffer(p) \/ Readahead(p)
         \/ GotForRead(p) /\ "DONE" \in flags[bp[p]]
         \/ BreadDone(p) \/ BwriteStarted(p) \/ BflushDone(p)
  PROVE  Waiting'
<1>1. /\ fl' = fl /\ freeWanted' = freeWanted /\ ioq' = ioq /\ wchan' = wchan /\ bp' = bp
      /\ wchan[p] = NoBuf
  BY DEF GetblkFind, GotBuffer, Readahead, GotForRead, BreadDone, BwriteStarted, BflushDone,
         bufVars, ioVars, Running
<1>2. \A q \in Procs \ {p} : pc'[q] = pc[q] /\ ret'[q] = ret[q] /\ bp'[q] = bp[q]
  BY DEF GetblkFind, GotBuffer, Readahead, GotForRead, BreadDone, BwriteStarted, BflushDone,
         Goto, Hold, Return, AfterReadahead, TypeInv, TypeOK
<1>3. \A b \in Bufs : flags[b] \subseteq flags'[b]
  <2>1. CASE BwriteStarted(p)
    <3>1. CASE wdel[p]
      <4>1. flags' = [flags EXCEPT ![cand[p]] = @ \cup {"AGE"}]
        BY <2>1, <3>1 DEF BwriteStarted
      <4> QED BY <4>1 DEF TypeInv, TypeOK
    <3>2. CASE ~wdel[p]
      <4>1. flags' = flags
        BY <2>1, <3>2 DEF BwriteStarted
      <4> QED BY <4>1
    <3> QED BY <3>1, <3>2
  <2>2. CASE BflushDone(p)
    BY <2>2 DEF BflushDone
  <2>3. CASE ~BwriteStarted(p) /\ ~BflushDone(p)
    BY <2>3 DEF GetblkFind, GotBuffer, Readahead, GotForRead, BreadDone, bufVars
  <2> QED BY <2>1, <2>2, <2>3
<1>4. Awaits(p)'
  BY <1>1, ConstAssumption DEF Awaits
<1>5. Pending(p)'
  <2>1. CASE Resting(p)'
    BY <2>1 DEF Pending, Resting
  <2>2. CASE ~Resting(p)' /\ "DONE" \in flags[bp[p]]
    BY <1>1, <1>3, <2>2 DEF Pending, TypeInv, TypeOK
  <2>3. CASE ~Resting(p)' /\ "DONE" \notin flags[bp[p]]
    <3>1. ~Resting(p) \/ bp[p] = NoBuf
      BY <2>3 DEF GetblkFind, GotBuffer, Readahead, GotForRead, BreadDone, BwriteStarted,
         BflushDone, Hold, Resting, TypeInv, TypeOK, PcOK
    <3> QED BY <1>1, <1>3, <2>3, <3>1 DEF Pending, Waiting, InFlight
  <2> QED BY <2>1, <2>2, <2>3
<1> QED BY <1>1, <1>2, <1>3, <1>4, <1>5, QuietWaiting

\* Every piece of bio.c leaves everybody waiting who cannot go on.
LEMMA KernelWaiting ==
  ASSUME TypeInv, TypeInv', Own, Waiting, NEW p \in Procs, KernelStep(p)
  PROVE  Waiting'
<1> USE DEF TypeInv
<1>p. Pending(p) /\ wchan[p] = NoBuf
  BY DEF Waiting, KernelStep, GetblkFind, GetblkWait, GetblkHit, GetblkNoFree, GetblkWriteBack,
         GetblkReassign, Missing, GotBuffer, GotForRead, UpdateGot, Readahead, ReadaheadCached,
         ReadaheadStart, IowaitSleep, BreadDone, BwriteDone, BwriteStarted, BflushOne,
         BflushDone, Running
<1>1. CASE \/ GetblkFind(p) \/ GotBuffer(p) \/ Readahead(p)
           \/ GotForRead(p) /\ "DONE" \in flags[bp[p]]
           \/ BreadDone(p) \/ BwriteStarted(p) \/ BflushDone(p)
  BY <1>1, QuietKernelWaiting
<1>2. CASE GetblkWait(p)
  <2> DEFINE b == cand[p]
  <2>1. /\ b \in Bufs /\ "BUSY" \in flags[b] /\ pc[p] = "hit"
        /\ flags' = [flags EXCEPT ![b] = @ \cup {"WANTED"}]
        /\ wchan' = [wchan EXCEPT ![p] = b] /\ pc' = [pc EXCEPT ![p] = "getblk"]
        /\ UNCHANGED <<fl, freeWanted, ioq, ret, bp>>
    BY <1>2 DEF GetblkWait, Sleep, TypeOK, PcOK, ioVars
  <2> HIDE DEF b
  <2>2. /\ \A c \in Bufs : flags[c] \subseteq flags'[c]
        /\ {"BUSY", "WANTED"} \subseteq flags'[b]
    BY <2>1 DEF TypeOK
  <2>3. wchan'[p] = b /\ pc'[p] = "getblk"
    BY <2>1 DEF TypeOK
  <2>4. Awaits(p)'
    BY <2>1, <2>2, <2>3, ConstAssumption DEF Awaits
  <2>5. Pending(p)'
    BY <1>p, <2>1, <2>2 DEF Pending, Resting, InFlight, TypeOK
  <2>6. \A q \in Procs \ {p} : pc'[q] = pc[q] /\ wchan'[q] = wchan[q]
    BY <2>1 DEF TypeOK
  <2> QED BY <2>1, <2>2, <2>4, <2>5, <2>6, QuietWaiting
<1>3. CASE GetblkHit(p)
  <2>1. PICK q \in Queue : \E i \in DOMAIN fl[q] : fl[q][i] = cand[p] /\ NotAvail(q, i)
    BY <1>3 DEF GetblkHit
  <2>2. PICK i \in DOMAIN fl[q] : fl[q][i] = cand[p] /\ NotAvail(q, i)
    BY <2>1
  <2>3. /\ cand[p] \in Bufs /\ "BUSY" \notin flags[cand[p]] /\ pc[p] = "hit"
        /\ flags' = [flags EXCEPT ![cand[p]] = @ \cup {"BUSY"}]
        /\ Deliver(p, cand[p]) /\ UNCHANGED <<freeWanted, ioq, wchan, ret>>
    BY <1>3 DEF GetblkHit, PcOK, ioVars
  <2>4. Pending(p)'
    BY <1>p, <2>3 DEF Pending, Resting, Deliver, Goto, InFlight, TypeOK
  <2>5. \A b \in Bufs : flags[b] \subseteq flags'[b]
    BY <2>3 DEF TypeOK
  <2>6. \A k \in {"AGE", "LRU"} : fl[k] = <<>> => fl'[k] = <<>>
    BY <2>2, NotAvailEmpty
  <2>7. \A r \in Procs \ {p} : pc'[r] = pc[r] /\ bp'[r] = bp[r]
    BY <2>3 DEF Deliver, Goto, TypeOK
  <2>8. Awaits(p)'
    BY <1>p, <2>3, ConstAssumption DEF Awaits
  <2> QED BY <2>3, <2>4, <2>5, <2>6, <2>7, <2>8, QuietWaiting
<1>4. CASE GetblkNoFree(p)
  <2>1. /\ fl["AGE"] = <<>> /\ fl["LRU"] = <<>> /\ pc[p] \in {"getblk", "geteblk"}
        /\ freeWanted' = TRUE /\ wchan' = [wchan EXCEPT ![p] = FreeList]
        /\ UNCHANGED <<flags, fl, ioq, pc, ret, bp>>
    BY <1>4 DEF GetblkNoFree, Sleep, Missing, Victims, ioVars
  <2>2. Awaits(p)'
    BY <2>1, ConstAssumption DEF Awaits, TypeOK
  <2>3. Pending(p)'
    BY <1>p, <2>1 DEF Pending, Resting, InFlight
  <2>4. \A q \in Procs \ {p} : wchan[q] = FreeList => freeWanted' = freeWanted
    BY <2>1 DEF Waiting, Awaits
  <2>5. \A q \in Procs \ {p} : wchan'[q] = wchan[q]
    BY <2>1 DEF TypeOK
  <2> QED BY <2>1, <2>2, <2>3, <2>4, <2>5, QuietWaiting
<1>6. CASE GetblkReassign(p)
  <2> DEFINE b == fl[Victims][1]
  <2>1. Victims \in Queue /\ 1 \in DOMAIN fl[Victims] /\ NotAvail(Victims, 1)
    BY <1>6 DEF TypeOK, GetblkReassign, Victims, Queue
  <2>2. b \in Bufs /\ "BUSY" \notin flags[b]
    BY <2>1 DEF Own, FreeListsOK, ToSet, TypeOK
  <2>3. /\ pc[p] \in {"getblk", "geteblk"}
        /\ \A c \in Bufs \ {b} : flags'[c] = flags[c]
        /\ Deliver(p, b) /\ UNCHANGED <<freeWanted, ioq, wchan, ret>>
    BY <1>6, <2>2 DEF GetblkReassign, Missing, TypeOK, ioVars
  <2> HIDE DEF b
  <2>4. Pending(p)'
    <3>1. CASE ret[p] # "readahead"
      BY <2>3, <3>1 DEF Pending, Resting, Deliver, Goto, TypeOK
    <3>2. CASE ret[p] = "readahead"
      <4>1. bp'[p] = bp[p] /\ ~Resting(p)
        BY <2>3, <3>2 DEF Deliver, Resting
      <4>2. bp[p] # NoBuf => flags'[bp[p]] = flags[bp[p]]
        BY <2>2, <2>3 DEF Own, OneOwner, Holds, TypeOK
      <4> QED BY <1>p, <2>3, <4>1, <4>2 DEF Pending, InFlight
    <3> QED BY <3>1, <3>2
  <2>5. \A c \in Bufs : flags[c] \subseteq flags'[c] \/ "BUSY" \notin flags[c]
    BY <2>2, <2>3
  <2>6. \A k \in {"AGE", "LRU"} : fl[k] = <<>> => fl'[k] = <<>>
    BY <2>1, NotAvailEmpty
  <2>7. \A r \in Procs \ {p} : pc'[r] = pc[r] /\ bp'[r] = bp[r]
    BY <2>3 DEF Deliver, Goto, TypeOK
  <2>8. Awaits(p)'
    BY <1>p, <2>3, ConstAssumption DEF Awaits
  <2> QED BY <2>3, <2>4, <2>5, <2>6, <2>7, <2>8, QuietWaiting
<1>13. CASE IowaitSleep(p)
  <2>1. /\ bp[p] \in Bufs /\ "DONE" \notin flags[bp[p]] /\ pc[p] = "iowait"
        /\ wchan' = [wchan EXCEPT ![p] = bp[p]]
        /\ UNCHANGED <<flags, fl, freeWanted, ioq, pc, ret, bp>>
    BY <1>13 DEF IowaitSleep, Sleep, PcOK, bufVars, ioVars
  <2>2. InFlight(bp[p])
    BY <1>p, <2>1, ConstAssumption DEF Pending, Resting
  <2>3. Pending(p)'
    BY <1>p, <2>1 DEF Pending, Resting, InFlight
  <2>4. wchan'[p] = bp[p] /\ \A q \in Procs \ {p} : wchan'[q] = wchan[q]
    BY <2>1 DEF TypeOK
  <2>5. Awaits(p)'
    BY <2>1, <2>2, <2>4, ConstAssumption DEF Awaits, InFlight
  <2> QED BY <2>1, <2>3, <2>4, <2>5, QuietWaiting
<1>5. CASE GetblkWriteBack(p)
  <2> DEFINE b == fl[Victims][1]
             g == (flags[b] \cup {"BUSY", "ASYNC"}) \ {"READ", "DONE", "ERROR", "DELWRI", "AGE"}
  <2>1. Victims \in Queue /\ 1 \in DOMAIN fl[Victims] /\ NotAvail(Victims, 1)
    BY <1>5 DEF TypeOK, GetblkWriteBack, Victims, Queue
  <2>2. b \in Bufs /\ "BUSY" \notin flags[b]
    BY <2>1 DEF Own, FreeListsOK, ToSet, TypeOK
  <2>3. /\ pc[p] \in {"getblk", "geteblk"} /\ Goto(p, "started")
        /\ flags' = [flags EXCEPT ![b] = g] /\ ioq' = Append(ioq, b)
        /\ UNCHANGED <<freeWanted, wchan, ret, bp>>
    BY <1>5 DEF GetblkWriteBack, BwriteStart, Missing
  <2>4. flags[b] \cap {"BUSY", "WANTED"} \subseteq g
    OBVIOUS
  <2> HIDE DEF b, g
  <2>5. Pending(p)'
    <3>1. ~Resting(p) /\ bp'[p] = bp[p]
      BY <2>3 DEF Resting
    <3>2. bp[p] # NoBuf => bp[p] # b /\ flags'[bp[p]] = flags[bp[p]]
      BY <2>2, <2>3 DEF Own, OneOwner, Holds, TypeOK
    <3>3. \A c : InFlight(c) => InFlight(c)'
      BY <2>2, <2>3, AppendSet DEF InFlight, TypeOK
    <3> QED BY <1>p, <3>1, <3>2, <3>3 DEF Pending, InFlight
  <2>6. \A k \in {"AGE", "LRU"} : fl[k] = <<>> => fl'[k] = <<>>
    BY <2>1, NotAvailEmpty
  <2>7. \A r \in Procs \ {p} : pc'[r] = pc[r] /\ ret'[r] = ret[r] /\ bp'[r] = bp[r]
    BY <2>3 DEF Goto, TypeOK
  <2> QED BY <1>p, <2>2, <2>3, <2>4, <2>5, <2>6, <2>7, SendWaiting
<1>7. CASE BflushOne(p)
  <2>1. PICK q \in Queue : \E i \in DOMAIN fl[q] :
           /\ NotAvail(q, i)
           /\ BwriteStart(fl[q][i], flags[fl[q][i]] \cup {"BUSY", "ASYNC"})
    BY <1>7 DEF BflushOne
  <2>2. PICK i \in DOMAIN fl[q] :
           /\ NotAvail(q, i)
           /\ BwriteStart(fl[q][i], flags[fl[q][i]] \cup {"BUSY", "ASYNC"})
    BY <2>1
  <2> DEFINE b == fl[q][i]
             g == (flags[b] \cup {"BUSY", "ASYNC"}) \ {"READ", "DONE", "ERROR", "DELWRI", "AGE"}
  <2>3. b \in Bufs /\ "BUSY" \notin flags[b]
    BY <2>1 DEF Own, FreeListsOK, ToSet, TypeOK
  <2>4. /\ pc[p] = "bflush" /\ Goto(p, "started")
        /\ flags' = [flags EXCEPT ![b] = g] /\ ioq' = Append(ioq, b)
        /\ UNCHANGED <<freeWanted, wchan, ret, bp>>
    BY <1>7, <2>2 DEF BflushOne, BwriteStart
  <2>5. flags[b] \cap {"BUSY", "WANTED"} \subseteq g
    OBVIOUS
  <2> HIDE DEF b, g
  <2>6. bp[p] = NoBuf
    BY <2>4 DEF PcOK
  <2>7. Pending(p)'
    BY <2>4, <2>6 DEF Pending
  <2>8. \A k \in {"AGE", "LRU"} : fl[k] = <<>> => fl'[k] = <<>>
    BY <2>2, NotAvailEmpty
  <2>9. \A r \in Procs \ {p} : pc'[r] = pc[r] /\ ret'[r] = ret[r] /\ bp'[r] = bp[r]
    BY <2>4 DEF Goto, TypeOK
  <2> QED BY <1>p, <2>3, <2>4, <2>5, <2>7, <2>8, <2>9, SendWaiting
<1>8. CASE GotForRead(p) /\ "DONE" \notin flags[bp[p]]
  <2> DEFINE b == bp[p]
             g == flags[b] \cup {"READ"} \cup {}
  <2>1. /\ b \in Bufs /\ Holds(p, b)
        /\ flags' = [flags EXCEPT ![b] = g] /\ ioq' = Append(ioq, b)
        /\ UNCHANGED <<fl, freeWanted, wchan, ret, bp>>
        /\ \A r \in Procs \ {p} : pc'[r] = pc[r]
    BY <1>8 DEF GotForRead, ReadStart, PcOK, Holds, Goto, TypeOK
  <2>2. b \in ToSet(ioq')
    BY <2>1, AppendSet DEF TypeOK
  <2>3. Pending(p)'
    BY <2>1, <2>2 DEF Pending, InFlight
  <2>4. flags[b] \cap {"BUSY", "WANTED"} \subseteq g
    OBVIOUS
  <2> HIDE DEF b, g
  <2> QED BY <1>p, <2>1, <2>3, <2>4, SendWaiting
<1>9. CASE UpdateGot(p)
  <2> DEFINE b == bp[p]
             g == flags[b] \ {"READ", "DONE", "ERROR", "DELWRI", "AGE"}
  <2>1. /\ b \in Bufs /\ Holds(p, b)
        /\ flags' = [flags EXCEPT ![b] = g] /\ ioq' = Append(ioq, b)
        /\ UNCHANGED <<fl, freeWanted, wchan, ret, bp>>
        /\ \A r \in Procs \ {p} : pc'[r] = pc[r]
    BY <1>9 DEF UpdateGot, BwriteStart, PcOK, Holds, Goto, TypeOK
  <2>2. b \in ToSet(ioq')
    BY <2>1, AppendSet DEF TypeOK
  <2>3. Pending(p)'
    BY <2>1, <2>2 DEF Pending, InFlight
  <2>4. flags[b] \cap {"BUSY", "WANTED"} \subseteq g
    OBVIOUS
  <2> HIDE DEF b, g
  <2> QED BY <1>p, <2>1, <2>3, <2>4, SendWaiting
<1>10. CASE ReadaheadStart(p)
  <2> DEFINE b == rabp[p]
             g == flags[b] \cup {"READ"} \cup {"ASYNC"}
  <2>1. /\ b \in Bufs /\ Holds(p, b) /\ ~Resting(p)
        /\ flags' = [flags EXCEPT ![b] = g] /\ ioq' = Append(ioq, b)
        /\ UNCHANGED <<fl, freeWanted, wchan, bp>>
        /\ \A r \in Procs \ {p} : pc'[r] = pc[r] /\ ret'[r] = ret[r]
    BY <1>10 DEF ReadaheadStart, ReadStart, PcOK, Holds, Resting, AfterReadahead, Goto, TypeOK
  <2>2. \A c : InFlight(c) => InFlight(c)'
    BY <2>1, AppendSet DEF TypeOK, InFlight
  <2>3. \A c \in Bufs : flags[c] \subseteq flags'[c]
    BY <2>1 DEF TypeOK
  <2>4. Pending(p)'
    BY <1>p, <2>1, <2>2, <2>3 DEF Pending, InFlight, TypeOK
  <2>5. flags[b] \cap {"BUSY", "WANTED"} \subseteq g
    OBVIOUS
  <2> HIDE DEF b, g
  <2> QED BY <1>p, <2>1, <2>4, <2>5, SendWaiting
<1>11. CASE ReadaheadCached(p)
  <2> DEFINE b == rabp[p]
  <2>1. /\ b \in Bufs /\ Holds(p, b) /\ ~Resting(p) /\ b # bp[p] /\ flags[b] \in SUBSET Flag
        /\ Brelse(b, flags[b])
        /\ UNCHANGED <<ioq, bp>>
        /\ \A r \in Procs \ {p} : pc'[r] = pc[r] /\ ret'[r] = ret[r]
    BY <1>11, ConstAssumption, SMTT(60)
    DEF ReadaheadCached, PcOK, Holds, Resting, AfterReadahead, Goto, TypeOK, ioVars, Own, OneOwner
  <2>2. \A c \in Bufs \ {b} : flags'[c] = flags[c]
    BY <2>1 DEF Brelse, TypeOK
  <2>3. Pending(p)'
    BY <1>p, <2>1, <2>2 DEF Pending, InFlight, TypeOK
  <2> HIDE DEF b
  <2> QED BY <1>p, <2>1, <2>3, ReleaseWaiting
<1>12. CASE BwriteDone(p)
  <2> DEFINE b == bp[p]
  <2>1. /\ b \in Bufs /\ Holds(p, b) /\ flags[b] \in SUBSET Flag
        /\ Brelse(b, flags[b])
        /\ ioq' = ioq /\ bp' = [bp EXCEPT ![p] = NoBuf]
        /\ \A r \in Procs \ {p} : pc'[r] = pc[r] /\ ret'[r] = ret[r] /\ bp'[r] = bp[r]
    BY <1>12 DEF BwriteDone, PcOK, Holds, Goto, Return, TypeOK, ioVars
  <2>2. Pending(p)'
    BY <2>1 DEF Pending, TypeOK
  <2> HIDE DEF b
  <2> QED BY <1>p, <2>1, <2>2, ReleaseWaiting
<1> QED BY <1>1, <1>2, <1>3, <1>4, <1>5, <1>6, <1>7, <1>8, <1>9, <1>10, <1>11, <1>12, <1>13, SMTT(60)
       DEF KernelStep

\* iodone wakes whoever waits for the transfer, and whoever waits for the
\* buffer it releases.
LEMMA IodoneWaiting ==
  ASSUME TypeInv, TypeInv', Own, Waiting, NEW i \in DOMAIN ioq, NEW ok \in BOOLEAN,
         Iodone(i, ok)
  PROVE  Waiting'
<1> DEFINE b == ioq[i]
           f == flags[b] \cup {"DONE"} \cup (IF ok THEN {} ELSE {"ERROR"})
<1>1. b \in Bufs /\ f \in SUBSET Flag /\ flags[b] \subseteq f /\ "DONE" \in f
  BY DEF TypeInv, TypeOK, Flag
<1>2. \A c : InFlight(c)' <=> InFlight(c) /\ c # b
  BY RemoveAtSet DEF InFlight, Iodone, TypeInv, TypeOK, Own, RequestsOK
<1>3. UNCHANGED <<pc, ret, bp, rabp>>
  BY DEF Iodone
<1>4. SUFFICES ASSUME NEW p \in Procs PROVE Pending(p)' /\ Awaits(p)'
  BY DEF Waiting
<1>5. Pending(p) /\ Awaits(p)
  BY DEF Waiting
<1>6. CASE "ASYNC" \in f
  <2>1. Brelse(b, f)
    BY <1>6 DEF Iodone
  <2>2. bp[p] # b
    BY <1>1, <1>6 DEF Own, OneOwner, Holds
  <2> HIDE DEF b, f
  <2>3. \A q \in Procs :
           /\ wchan'[q] \in {wchan[q], NoBuf} /\ wchan'[q] # FreeList
           /\ wchan'[q] = b => pc[q] = "iowait" /\ bp[q] = b
           /\ \A c \in Bufs \ {b} : flags'[c] = flags[c]
    BY <1>1, <2>1, BrelseWakes DEF TypeInv
  <2>4. Pending(p)'
    BY <1>2, <1>3, <1>5, <2>2, <2>3 DEF Pending, Resting, InFlight, TypeInv, TypeOK
  <2>5. Awaits(p)'
    <3>1. CASE wchan'[p] \notin Bufs
      BY <2>3, <3>1 DEF Awaits
    <3>2. CASE wchan'[p] \in Bufs
      <4>1. wchan'[p] = wchan[p] /\ wchan[p] \in Bufs
        BY <2>3, <3>2, ConstAssumption
      <4>2. CASE pc[p] = "iowait"
        BY <1>2, <1>3, <1>5, <2>2, <2>3, <4>1, <4>2 DEF Awaits, InFlight
      <4>3. CASE pc[p] # "iowait"
        BY <1>3, <1>5, <2>3, <4>1, <4>3 DEF Awaits
      <4> QED BY <4>2, <4>3
    <3> QED BY <3>1, <3>2
  <2> QED BY <2>4, <2>5
<1>7. CASE "ASYNC" \notin f
  <2>1. /\ flags' = [flags EXCEPT ![b] = f \ {"WANTED"}]
        /\ wchan' = [q \in Procs |-> IF wchan[q] = b THEN NoBuf ELSE wchan[q]]
        /\ UNCHANGED <<fl, freeWanted>>
    BY <1>7 DEF Iodone
  <2> HIDE DEF b, f
  <2>2. /\ \A c \in Bufs \ {b} : flags'[c] = flags[c]
        /\ "DONE" \in flags'[b]
    BY <1>1, <2>1 DEF TypeInv, TypeOK
  <2>3. Pending(p)'
    BY <1>2, <1>3, <1>5, <2>2 DEF Pending, Resting, InFlight, TypeInv, TypeOK
  <2>4. wchan'[p] = IF wchan[p] = b THEN NoBuf ELSE wchan[p]
    BY <2>1
  <2>5. Awaits(p)'
    BY <1>1, <1>2, <1>3, <1>5, <2>1, <2>2, <2>4, ConstAssumption DEF Awaits, InFlight
  <2> QED BY <2>3, <2>5
<1> QED BY <1>6, <1>7

LEMMA NextWaiting == TypeInv /\ TypeInv' /\ Own /\ Waiting /\ [Next]_vars => Waiting'
<1> SUFFICES ASSUME TypeInv, TypeInv', Own, Waiting, [Next]_vars PROVE Waiting'
  OBVIOUS
<1>1. CASE \E p \in Procs : UserStep(p) \/ HoldStep(p) \/ KernelStep(p)
  BY <1>1, EnterWaiting, HoldWaiting, KernelWaiting DEF TypeInv
<1>2. CASE Interrupt
  BY <1>2, IodoneWaiting DEF Interrupt, Complete
<1>3. CASE UNCHANGED vars
  BY <1>3 DEF vars, Waiting, Pending, Awaits, Resting, InFlight
<1> QED BY <1>1, <1>2, <1>3 DEF Next

LEMMA WaitingInvariant == Spec => []Waiting
<1>1. Init => Waiting
  BY ConstAssumption DEF Init, Waiting, Pending, Awaits
<1>2. TypeInv /\ TypeInv' /\ Own /\ Waiting /\ [Next]_vars => Waiting'
  BY NextWaiting
<1> QED BY <1>1, <1>2, TypeInvariant, OwnInvariant, PTL DEF Spec

\* Nobody sleeps for a wakeup that will not come: who sleeps in getblk sleeps
\* on a busy buffer whose release will wake him, or while no buffer is free,
\* and who sleeps in iowait has a transfer under way.
THEOREM WakeupsKept == Spec => []NoLostWakeup
<1>1. TypeInv /\ Own /\ Waiting => NoLostWakeup
  <2> SUFFICES ASSUME TypeInv, Own, Waiting, NEW p \in Procs
               PROVE  /\ wchan[p] = FreeList =>
                           freeWanted /\ fl["AGE"] = <<>> /\ fl["LRU"] = <<>>
                      /\ wchan[p] \in Bufs =>
                           IF pc[p] = "iowait"
                           THEN InFlight(wchan[p]) /\ "ASYNC" \notin flags[wchan[p]]
                           ELSE {"BUSY", "WANTED"} \subseteq flags[wchan[p]]
    BY DEF NoLostWakeup
  <2>1. Awaits(p)
    BY DEF Waiting
  <2> QED BY <2>1 DEF Awaits, Own, OneOwner, Holds
<1> QED BY <1>1, TypeInvariant, OwnInvariant, WaitingInvariant, PTL
=============================================================================
