---------------------------- MODULE PathNamesProofs ----------------------------
(***************************************************************************)
(* The in-core inode table under the system calls of PathNames, for every  *)
(* number of processes, slots and inodes, every volume, every set of calls *)
(* and every set of faults: an inode is in core at most once, and an open  *)
(* file stays the file that was opened.                                    *)
(***************************************************************************)
EXTENDS PathNames, SequenceTheorems, FiniteSetTheorems, TLAPS

-----------------------------------------------------------------------------
(* The kernel stack                                                        *)

\* The labels of the routines that return to their callers.
IputAt == {"iput", "iputFree", "iputDone"}
IgetAt == {"iget", "igetRead", "igetNull"}
IallocAt == {"ialloc", "iallocLoop", "iallocGot", "search"}
IupdatAt == {"iupdat", "iupdatRead"}
ItruncAt == {"itrunc", "itruncRead", "itruncFree"}

\* Where the routine that label l is in returns to.
Callers(l) ==
  IF l \in IputAt THEN {"done", "out", "made", "update", "pipeFails", "iget",
                        "ialloc", "iallocLoop", "igetNull"}
  ELSE IF l \in IgetAt THEN {"unlink", "rmdir", "descended", "iallocGot"}
  ELSE IF l \in IallocAt THEN {"created", "pipend"}
  ELSE IF l \in IupdatAt THEN {"enter", "linked", "dots", "iput", "iputDone"}
  ELSE IF l \in ItruncAt THEN {"opened", "iputFree"}
  ELSE IF l = "plock" THEN {"iput"}
  ELSE {}

\* Every frame of the stack is a caller of the one above it.
Chain(pc, stk) ==
  /\ stk = <<>> <=> Callers(pc) = {}
  /\ stk # <<>> => stk[1] \in Callers(pc) /\ Callers(stk[Len(stk)]) = {}
  /\ \A i \in 1..Len(stk) - 1 : stk[i + 1] \in Callers(stk[i])

\* The place in the system call, below the routines of the inode table.
Bottom(pc, stk) == IF stk = <<>> THEN pc ELSE stk[Len(stk)]
Frames(pc, stk) == {pc} \cup {stk[i] : i \in 1..Len(stk)}

-----------------------------------------------------------------------------
(* The references of a process                                             *)

\* dp, dip and ip are references at these places.
DpAt == {"dirloop", "out", "created", "enter", "enterWrite", "unlink",
         "unlinkWrite", "rmdir", "rmdirWrite", "linkWrite"}
DipAt == {"named", "made", "opened", "linked", "enter", "enterWrite", "dots",
          "dotsWrite", "unlinkWrite", "rmdirWrite"}
IpAt == {"unlink", "rmdir", "descended", "iallocGot", "created", "pipend"}

HasDp(r) == Bottom(r.pc, r.stk) \in DpAt
HasDip(r) == Bottom(r.pc, r.stk) \in DipAt
HasIp(r) ==
  \/ r.pc \in IputAt \cup {"plock", "igetRead"}
  \/ r.pc \in IupdatAt \cup ItruncAt /\ r.stk[1] \in IputAt
  \/ r.pc \in IpAt /\ r.ip # 0

\* What a process with locals r and files F refers to slot s by.
Refers(r, F, s, k) ==
  \/ k = 1 /\ HasIp(r) /\ r.ip = s
  \/ k = 2 /\ HasDp(r) /\ r.dp = s
  \/ k = 3 /\ HasDip(r) /\ r.dip = s
  \/ k = 4 /\ r.tgt = s
  \/ k = 5 /\ s \in F

RefsOf(us, files, s) == {x \in Procs \X (1..5) : Refers(us[x[1]], files[x[1]], s, x[2])}
References(s) == RefsOf(u, file, s)
Root(s) == IF s = RootSlot THEN 1 ELSE 0

\* i_count covers them.  (It is more after an error of mknod.)
Covered == \A s \in Slots : inode[s].count >= Root(s) + Cardinality(References(s))

-----------------------------------------------------------------------------
(* The inductive invariant                                                 *)

\* The locals of a process fit the place it is at.
Fits(r) ==
  LET bottom == Bottom(r.pc, r.stk) IN
  /\ Chain(r.pc, r.stk)
  /\ HasIp(r) \/ r.pc \in IupdatAt \cup ItruncAt => r.ip \in Slots
  /\ HasDp(r) => r.dp \in Slots
  /\ r.pc = "namei" => r.dp = RootSlot
  /\ HasDip(r) => r.dip \in Slots
  /\ bottom \in {"namei", "dirloop", "descended"} => r.path # <<>>
  /\ "iget" \in Frames(r.pc, r.stk) => r.ino \in Inodes
  /\ r.call \in {"link", "link2"} => r.to # <<>>
  /\ bottom = "linked" => r.call = "link"
  /\ bottom = "linkWrite" => r.call = "link2"
  /\ r.call = "link2" => r.tgt \in Slots
  /\ r.call = "pipe2" /\ ~r.err => r.tgt \in Slots \/ bottom = "done"
  /\ bottom = "pipend" => r.call \in {"pipe", "pipe2"}
  /\ bottom = "pipeFails" => r.call = "pipe2"
  /\ r.pc \in {"pipend", "iallocGot"} /\ r.ip = 0 => r.err
  /\ "igetNull" \in Frames(r.pc, r.stk) => r.err
  /\ r.pc = "search" => r.blk \in 1..LastBlock

\* The process loads the inode ip, or puts its last reference back.
Alone(r) ==
  \/ r.pc \in {"igetRead", "iputFree", "iputDone"}
  \/ r.pc \in IupdatAt \cup ItruncAt /\ r.stk[1] \in {"iputFree", "iputDone"}

\* What ialloc has just returned.
Fresh(r) == r.pc \in {"created", "pipend"} /\ r.ip # 0

Placed(p) ==
  /\ Fits(u[p])
  /\ Alone(u[p]) => inode[u[p].ip].count = 1 /\ inode[u[p].ip].lock
  /\ Fresh(u[p]) => cpu = p /\ inode[u[p].ip].mode = "FREE"

Slotted ==
  /\ \A s, t \in Slots : inode[s].num = inode[t].num /\ inode[s].num # 0 => s = t
  /\ IsInjective(freel)
  /\ \A s \in Slots : s \in ToSet(freel) <=> inode[s].num = 0
  /\ \A s \in Slots : inode[s].num = 0 <=> inode[s].count = 0

IInv == TypeOK /\ (\A p \in Procs : Placed(p)) /\ Covered /\ Slotted

-----------------------------------------------------------------------------
(* The stack                                                               *)

\* A system call has nothing below it.
LEMMA AtBase ==
  ASSUME NEW pc \in Label, NEW stk \in Seq(Label), Chain(pc, stk), Callers(pc) = {}
  PROVE  stk = <<>> /\ Bottom(pc, stk) = pc /\ Frames(pc, stk) = {pc}
BY DEF Chain, Bottom, Frames

\* A jump within a routine, or from one place of a system call to the next.
LEMMA Jump ==
  ASSUME NEW pc \in Label, NEW stk \in Seq(Label), Chain(pc, stk),
         NEW l \in Label, Callers(l) = Callers(pc)
  PROVE  /\ Chain(l, stk)
         /\ Bottom(l, stk) = IF stk = <<>> THEN l ELSE Bottom(pc, stk)
         /\ Frames(l, stk) \subseteq Frames(pc, stk) \cup {l}
BY DEF Chain, Bottom, Frames

Pushed(t, x, stk) == t = <<x>> \o stk

\* A call from place x of a routine.
LEMMA CallNested ==
  ASSUME NEW pc \in Label, NEW stk \in Seq(Label), Chain(pc, stk), stk # <<>>,
         NEW l \in Label, NEW x \in Label, x \in Callers(l), Callers(x) = Callers(pc),
         NEW t, Pushed(t, x, stk)
  PROVE  /\ Chain(l, t) /\ t \in Seq(Label) /\ t # <<>> /\ t[1] = x
         /\ Bottom(l, t) = Bottom(pc, stk)
         /\ Frames(l, t) \subseteq Frames(pc, stk) \cup {l, x}
<1>1. t \in Seq(Label) /\ Len(t) = Len(stk) + 1 /\ t[1] = x /\ t # <<>>
      /\ \A i \in 1..Len(stk) : t[i + 1] = stk[i]
  BY DEF Pushed
<1>2. \A i \in 1..Len(t) - 1 : t[i + 1] \in Callers(t[i])
  <2> SUFFICES ASSUME NEW i \in 1..Len(t) - 1 PROVE t[i + 1] \in Callers(t[i])
    OBVIOUS
  <2>1. CASE i = 1
    BY <1>1, <2>1 DEF Chain
  <2>2. CASE i # 1
    <3>1. i - 1 \in 1..Len(stk) - 1 /\ t[i + 1] = stk[i] /\ t[i] = stk[i - 1]
      BY <1>1, <2>2
    <3>2. stk[(i - 1) + 1] \in Callers(stk[i - 1])
      BY <3>1 DEF Chain
    <3> QED  BY <3>1, <3>2
  <2> QED  BY <2>1, <2>2
<1>3. t[Len(t)] = stk[Len(stk)]
  BY <1>1
<1>4. Callers(t[Len(t)]) = {}
  BY <1>3 DEF Chain
<1>5. Chain(l, t)
  BY <1>1, <1>2, <1>4 DEF Chain
<1>6. Bottom(l, t) = Bottom(pc, stk)
  BY <1>1, <1>3 DEF Bottom
<1>7. Frames(l, t) \subseteq Frames(pc, stk) \cup {l, x}
  <2> SUFFICES ASSUME NEW i \in 1..Len(t) PROVE t[i] \in Frames(pc, stk) \cup {l, x}
    BY DEF Frames
  <2>1. CASE i = 1
    BY <1>1, <2>1
  <2>2. CASE i # 1
    <3>1. i - 1 \in 1..Len(stk) /\ t[i] = stk[i - 1]
      BY <1>1, <2>2
    <3> QED  BY <3>1 DEF Frames
  <2> QED  BY <2>1, <2>2
<1> QED  BY <1>1, <1>5, <1>6, <1>7

\* A call from a system call.
LEMMA CallBase ==
  ASSUME NEW l \in Label, NEW x \in Callers(l), x \in Label, Callers(x) = {},
         NEW t, t = <<x>> \o <<>>
  PROVE  /\ Chain(l, t) /\ t \in Seq(Label) /\ t # <<>> /\ t[1] = x
         /\ Bottom(l, t) = x /\ Frames(l, t) = {l, x}
<1>1. t \in Seq(Label) /\ Len(t) = 1 /\ t[1] = x /\ t # <<>>
  OBVIOUS
<1>2. Chain(l, t) /\ Bottom(l, t) = x
  BY <1>1 DEF Chain, Bottom
<1>3. Frames(l, t) = {l, x}
  BY <1>1 DEF Frames
<1> QED  BY <1>1, <1>2, <1>3

\* A call from a system call that goes on with another one.
LEMMA Call2 ==
  ASSUME NEW l \in Label, NEW x \in Callers(l), NEW y \in Callers(x), Callers(y) = {},
         x \in Label, y \in Label, NEW t, t = <<x, y>> \o <<>>
  PROVE  /\ Chain(l, t) /\ t \in Seq(Label) /\ t # <<>> /\ t[1] = x
         /\ Bottom(l, t) = y /\ Frames(l, t) = {l, x, y}
<1>1. t \in Seq(Label) /\ Len(t) = 2 /\ t[1] = x /\ t[2] = y /\ t # <<>>
  OBVIOUS
<1>2. Chain(l, t) /\ Bottom(l, t) = y
  BY <1>1 DEF Chain, Bottom
<1>3. Frames(l, t) = {l, x, y}
  BY <1>1 DEF Frames
<1> QED  BY <1>1, <1>2, <1>3

\* What is left of the stack when its first frame is taken off.
LEMMA Popped ==
  ASSUME NEW pc \in Label, NEW stk \in Seq(Label), Chain(pc, stk), Callers(pc) # {},
         NEW h, NEW t \in Seq(Label), Len(t) = Len(stk) - 1, h = stk[1],
         \A i \in 1..Len(t) : t[i] = stk[i + 1]
  PROVE  /\ h \in Callers(pc) /\ h \in Label
         /\ Chain(h, t)
         /\ Bottom(h, t) = Bottom(pc, stk)
         /\ Frames(h, t) \subseteq Frames(pc, stk)
<1>1. stk # <<>> /\ h \in Callers(pc) /\ Callers(stk[Len(stk)]) = {}
  BY DEF Chain
<1>2. Len(stk) \in Nat \ {0}
  BY <1>1, EmptySeq
<1>3. 1 \in 1..Len(stk) /\ h \in Label
  BY <1>2
<1>4. Frames(h, t) \subseteq Frames(pc, stk)
  <2>1. \A i \in 1..Len(t) : i + 1 \in 1..Len(stk)
    BY <1>2
  <2> QED  BY <1>3, <2>1 DEF Frames
<1>5. CASE t = <<>>
  <2>1. Len(stk) = 1
    BY <1>2, <1>5
  <2>2. Callers(h) = {} /\ h = stk[Len(stk)]
    BY <1>1, <2>1
  <2>3. Chain(h, t)
    BY <1>5, <2>2 DEF Chain
  <2>4. Bottom(h, t) = Bottom(pc, stk)
    BY <1>1, <1>5, <2>2 DEF Bottom
  <2> QED  BY <1>1, <1>3, <1>4, <2>3, <2>4
<1>6. CASE t # <<>>
  <2>1. Len(t) \in Nat \ {0}
    BY <1>6, EmptySeq
  <2>2. Len(t) \in 1..Len(t) /\ 1 \in 1..Len(t) /\ Len(t) + 1 = Len(stk)
        /\ 1 \in 1..Len(stk) - 1 /\ Len(t) \in 1..Len(stk) - 1
    BY <1>2, <2>1
  <2>3. t[Len(t)] = stk[Len(stk)] /\ t[1] = stk[1 + 1]
    BY <2>2
  <2>4. t[1] \in Callers(h)
    BY <2>2, <2>3 DEF Chain
  <2>5. \A i \in 1..Len(t) - 1 : t[i + 1] \in Callers(t[i])
    <3> SUFFICES ASSUME NEW i \in 1..Len(t) - 1 PROVE t[i + 1] \in Callers(t[i])
      OBVIOUS
    <3>1. i + 1 \in 1..Len(stk) - 1 /\ i \in 1..Len(t) /\ i + 1 \in 1..Len(t)
      BY <2>2
    <3>2. t[i] = stk[i + 1] /\ t[i + 1] = stk[(i + 1) + 1]
      BY <3>1
    <3> QED  BY <3>1, <3>2 DEF Chain
  <2>6. Callers(h) # {}
    BY <2>4
  <2>7. Chain(h, t)
    BY <1>1, <1>6, <2>3, <2>4, <2>5, <2>6 DEF Chain
  <2>8. Bottom(h, t) = Bottom(pc, stk)
    BY <1>1, <1>6, <2>3 DEF Bottom
  <2> QED  BY <1>1, <1>3, <1>4, <2>7, <2>8
<1> QED  BY <1>5, <1>6

\* A return.
LEMMA Return ==
  ASSUME NEW pc \in Label, NEW stk \in Seq(Label), Chain(pc, stk), Callers(pc) # {}
  PROVE  /\ stk # <<>> /\ Head(stk) \in Callers(pc) /\ Head(stk) \in Label
         /\ Head(stk) = stk[1]
         /\ Tail(stk) \in Seq(Label) /\ Chain(Head(stk), Tail(stk))
         /\ Bottom(Head(stk), Tail(stk)) = Bottom(pc, stk)
         /\ Frames(Head(stk), Tail(stk)) \subseteq Frames(pc, stk)
<1>1. stk # <<>>
  BY DEF Chain
<1>2. /\ Tail(stk) \in Seq(Label) /\ Len(Tail(stk)) = Len(stk) - 1
      /\ Head(stk) = stk[1]
      /\ \A i \in 1..Len(Tail(stk)) : Tail(stk)[i] = stk[i + 1]
  BY <1>1
<1> QED  BY <1>1, <1>2, Popped

-----------------------------------------------------------------------------
(* The references, counted                                                 *)

One(P) == IF P THEN 1 ELSE 0

\* How often a process with locals r and files F refers to slot s.
Tally(r, F, s) ==
  One(HasIp(r) /\ r.ip = s) + One(HasDp(r) /\ r.dp = s)
    + One(HasDip(r) /\ r.dip = s) + One(r.tgt = s) + One(s \in F)

RefsIn(p, r, F, s) == {x \in {p} \X (1..5) : Refers(r, F, s, x[2])}

\* One element more or not.
LEMMA AddIf ==
  ASSUME NEW S, IsFiniteSet(S), NEW e, e \notin S, NEW P \in BOOLEAN, NEW T,
         T = IF P THEN S \cup {e} ELSE S
  PROVE  IsFiniteSet(T) /\ Cardinality(T) = Cardinality(S) + One(P)
<1>1. CASE P
  BY <1>1, FS_AddElement DEF One
<1>2. CASE ~P
  BY <1>2, FS_CardinalityType DEF One
<1> QED  BY <1>1, <1>2

\* Two sets that have nothing in common.
LEMMA DisjointUnion ==
  ASSUME NEW S, NEW T, IsFiniteSet(S), IsFiniteSet(T), S \cap T = {}
  PROVE  Cardinality(S \cup T) = Cardinality(S) + Cardinality(T)
<1>1. Cardinality(S \cup T) = Cardinality(S) + Cardinality(T) - Cardinality(S \cap T)
  BY FS_Union
<1>2. Cardinality(S) \in Nat /\ Cardinality(T) \in Nat
  BY FS_CardinalityType
<1>3. Cardinality(S \cap T) = 0
  BY FS_EmptySet
<1> QED  BY <1>1, <1>2, <1>3

\* The references of one process.
LEMMA TallyIsCount ==
  ASSUME NEW p, NEW r, NEW F, NEW s
  PROVE  /\ IsFiniteSet(RefsIn(p, r, F, s))
         /\ Cardinality(RefsIn(p, r, F, s)) = Tally(r, F, s)
         /\ Tally(r, F, s) \in Nat
<1> DEFINE R(k) == Refers(r, F, s, k)
           A0 == {}
           A1 == IF R(1) THEN A0 \cup {<<p, 1>>} ELSE A0
           A2 == IF R(2) THEN A1 \cup {<<p, 2>>} ELSE A1
           A3 == IF R(3) THEN A2 \cup {<<p, 3>>} ELSE A2
           A4 == IF R(4) THEN A3 \cup {<<p, 4>>} ELSE A3
           A5 == IF R(5) THEN A4 \cup {<<p, 5>>} ELSE A4
<1>1. \A k \in 1..5 : R(k) \in BOOLEAN
  BY DEF Refers
<1>2. RefsIn(p, r, F, s) = A5
  BY DEF RefsIn
<1>3. IsFiniteSet(A0) /\ Cardinality(A0) = 0
  BY FS_EmptySet
<1>4. /\ <<p, 1>> \notin A0 /\ <<p, 2>> \notin A1 /\ <<p, 3>> \notin A2
      /\ <<p, 4>> \notin A3 /\ <<p, 5>> \notin A4
  OBVIOUS
<1>5. /\ A1 = IF R(1) THEN A0 \cup {<<p, 1>>} ELSE A0
      /\ A2 = IF R(2) THEN A1 \cup {<<p, 2>>} ELSE A1
      /\ A3 = IF R(3) THEN A2 \cup {<<p, 3>>} ELSE A2
      /\ A4 = IF R(4) THEN A3 \cup {<<p, 4>>} ELSE A3
      /\ A5 = IF R(5) THEN A4 \cup {<<p, 5>>} ELSE A4
  OBVIOUS
<1>6. /\ One(R(1)) = One(HasIp(r) /\ r.ip = s)
      /\ One(R(2)) = One(HasDp(r) /\ r.dp = s)
      /\ One(R(3)) = One(HasDip(r) /\ r.dip = s)
      /\ One(R(4)) = One(r.tgt = s)
      /\ One(R(5)) = One(s \in F)
  BY DEF Refers, One
<1> HIDE DEF R, A0, A1, A2, A3, A4, A5
<1>7. IsFiniteSet(A1) /\ Cardinality(A1) = One(R(1))
  <2>1. Cardinality(A1) = Cardinality(A0) + One(R(1)) /\ IsFiniteSet(A1)
    BY <1>1, <1>3, <1>4, <1>5, AddIf
  <2> QED  BY <1>3, <2>1 DEF One
<1>8. IsFiniteSet(A2) /\ Cardinality(A2) = Cardinality(A1) + One(R(2))
  BY <1>1, <1>7, <1>4, <1>5, AddIf
<1>9. IsFiniteSet(A3) /\ Cardinality(A3) = Cardinality(A2) + One(R(3))
  BY <1>1, <1>8, <1>4, <1>5, AddIf
<1>10. IsFiniteSet(A4) /\ Cardinality(A4) = Cardinality(A3) + One(R(4))
  BY <1>1, <1>9, <1>4, <1>5, AddIf
<1>11. IsFiniteSet(A5) /\ Cardinality(A5) = Cardinality(A4) + One(R(5))
  BY <1>1, <1>10, <1>4, <1>5, AddIf
<1> QED  BY <1>2, <1>6, <1>7, <1>8, <1>9, <1>10, <1>11 DEF Tally, One

Counted(old, new, t, t2) ==
  /\ Cardinality(old) \in Nat /\ Cardinality(new) \in Nat
  /\ Cardinality(new) - t2 = Cardinality(old) - t

\* When one process changes its locals and files, the count changes by the
\* difference of its tallies.
LEMMA CountChange ==
  ASSUME NEW us, NEW files, NEW p \in Procs, NEW r, NEW F, NEW s,
         DOMAIN us = Procs, DOMAIN files = Procs, NEW old, NEW new,
         old = RefsOf(us, files, s),
         new = RefsOf([us EXCEPT ![p] = r], [files EXCEPT ![p] = F], s)
  PROVE  Counted(old, new, Tally(us[p], files[p], s), Tally(r, F, s))
<1> DEFINE rest == {x \in (Procs \ {p}) \X (1..5) : Refers(us[x[1]], files[x[1]], s, x[2])}
           mine == RefsIn(p, us[p], files[p], s)
           mine2 == RefsIn(p, r, F, s)
<1>1. IsFiniteSet(rest)
  <2>1. IsFiniteSet(Procs \ {p})
    BY TableAssumption, FS_RemoveElement
  <2>2. IsFiniteSet(1..5)
    BY FS_Interval, 1 \in Int, 5 \in Int
  <2>3. IsFiniteSet((Procs \ {p}) \X (1..5))
    BY <2>1, <2>2, FS_Product
  <2>4. rest \subseteq (Procs \ {p}) \X (1..5)
    OBVIOUS
  <2> HIDE DEF rest
  <2> QED  BY <2>3, <2>4, FS_Subset
<1>2. old = rest \cup mine /\ rest \cap mine = {}
  BY DEF RefsOf, RefsIn
<1>3. new = rest \cup mine2 /\ rest \cap mine2 = {}
  BY DEF RefsOf, RefsIn
<1>4. /\ IsFiniteSet(mine) /\ IsFiniteSet(mine2)
      /\ Cardinality(mine) = Tally(us[p], files[p], s)
      /\ Cardinality(mine2) = Tally(r, F, s)
      /\ Tally(us[p], files[p], s) \in Nat /\ Tally(r, F, s) \in Nat
  BY TallyIsCount
<1>5. Cardinality({}) = 0 /\ Cardinality(rest) \in Nat
  BY <1>1, FS_EmptySet, FS_CardinalityType
<1> HIDE DEF rest, mine, mine2
<1>6. Cardinality(old) = Cardinality(rest) + Cardinality(mine)
  BY <1>1, <1>2, <1>4, DisjointUnion
<1>7. Cardinality(new) = Cardinality(rest) + Cardinality(mine2)
  BY <1>1, <1>3, <1>4, DisjointUnion
<1> QED  BY <1>4, <1>5, <1>6, <1>7 DEF Counted

\* A process that is Alone refers to the inode.
LEMMA AloneRefers ==
  ASSUME NEW r, Alone(r)
  PROVE  HasIp(r)
BY DEF Alone, HasIp, IputAt

\* There are finitely many references.
LEMMA RefsFinite ==
  ASSUME NEW s
  PROVE  IsFiniteSet(References(s)) /\ Cardinality(References(s)) \in Nat
<1>1. IsFiniteSet(Procs \X (1..5))
  BY TableAssumption, FS_Interval, FS_Product, 1 \in Int, 5 \in Int
<1>2. References(s) \subseteq Procs \X (1..5)
  BY DEF References, RefsOf
<1> HIDE DEF References
<1> QED  BY <1>1, <1>2, FS_Subset, FS_CardinalityType

\* A pair of different things.
LEMMA TwoElements ==
  ASSUME NEW a, NEW b, a # b
  PROVE  Cardinality({a, b}) = 2
<1>1. IsFiniteSet({a}) /\ Cardinality({a}) = 1 /\ IsFiniteSet({b}) /\ Cardinality({b}) = 1
  BY FS_Singleton
<1>2. {a} \cap {b} = {}
  OBVIOUS
<1>3. Cardinality({a} \cup {b}) = Cardinality({a}) + Cardinality({b})
  BY <1>1, <1>2, DisjointUnion
<1>4. {a} \cup {b} = {a, b}
  OBVIOUS
<1> QED  BY <1>1, <1>3, <1>4

\* Two processes that refer to an inode are two references.
LEMMA TwoReferences ==
  ASSUME NEW s, NEW p \in Procs, NEW q \in Procs, p # q,
         HasIp(u[q]), u[q].ip = s, Tally(u[p], file[p], s) # 0
  PROVE  Cardinality(References(s)) >= 2
<1>1. PICK k \in 1..5 : Refers(u[p], file[p], s, k)
  BY DEF Tally, One, Refers
<1>2. {<<q, 1>>, <<p, k>>} \subseteq References(s)
  BY <1>1 DEF References, RefsOf, Refers
<1>3. IsFiniteSet(References(s)) /\ Cardinality(References(s)) \in Nat
  BY RefsFinite
<1>4. Cardinality({<<q, 1>>, <<p, k>>}) = 2
  BY TwoElements, <<q, 1>> # <<p, k>>
<1>5. Cardinality({<<q, 1>>, <<p, k>>}) <= Cardinality(References(s))
  BY <1>2, <1>3, FS_Subset
<1> QED  BY <1>3, <1>4, <1>5, FS_CardinalityType

\* So nobody else refers to the inode of a process that is Alone.
LEMMA AloneIsAlone ==
  ASSUME IInv, NEW p \in Procs, NEW q \in Procs, p # q, Alone(u[q])
  PROVE  /\ u[q].ip \in Slots /\ HasIp(u[q])
         /\ Tally(u[p], file[p], u[q].ip) = 0
<1>1. HasIp(u[q]) /\ u[q].ip \in Slots
  BY AloneRefers DEF IInv, Placed, Fits
<1>2. inode[u[q].ip].count = 1
  BY DEF IInv, Placed
<1>3. Tally(u[p], file[p], u[q].ip) # 0 => Cardinality(References(u[q].ip)) >= 2
  BY <1>1, TwoReferences
<1>4. inode[u[q].ip].count >= Root(u[q].ip) + Cardinality(References(u[q].ip))
  BY <1>1 DEF IInv, Covered
<1>5. Root(u[q].ip) \in {0, 1}
  BY DEF Root
<1>6. Cardinality(References(u[q].ip)) \in Nat
  BY RefsFinite
<1> QED  BY <1>1, <1>2, <1>3, <1>4, <1>5, <1>6

-----------------------------------------------------------------------------
(* A step of one process                                                   *)

\* What changes in the locals and the files: those of p.
Changes(p, r, F) == /\ u' = [u EXCEPT ![p] = r]
                    /\ file' = [file EXCEPT ![p] = F]

\* Counts go down only with references, and an inode that the process does
\* not refer to keeps its last one.
CountsKept(p, r, F) == \A s \in Slots :
  /\ inode'[s].count - Tally(r, F, s) >= inode[s].count - Tally(u[p], file[p], s)
  /\ Tally(u[p], file[p], s) = 0 /\ inode[s].count = 1 /\ inode[s].lock
       => inode'[s].count = 1 /\ inode'[s].lock

\* A step of one process, its locals now r and its files F, keeps the invariant
\* when it keeps the counts and leaves the process in a fitting place.
LEMMA StepInv ==
  ASSUME IInv, NEW p \in Procs, NEW r, NEW F, cpu \in {p, NoProc},
         Changes(p, r, F), TypeOK', Placed(p)', Slotted', CountsKept(p, r, F)
  PROVE  IInv'
<1>1. Covered'
  <2> SUFFICES ASSUME NEW s \in Slots
               PROVE  inode'[s].count >= Root(s) + Cardinality(References(s)')
    BY DEF Covered, Root
  <2>1. DOMAIN u = Procs /\ DOMAIN file = Procs
    BY DEF IInv, TypeOK
  <2>2. References(s)' = RefsOf([u EXCEPT ![p] = r], [file EXCEPT ![p] = F], s)
    BY DEF Changes, References, RefsOf
  <2>3. /\ Cardinality(References(s)) \in Nat /\ Cardinality(References(s)') \in Nat
        /\ Cardinality(References(s)') - Tally(r, F, s)
             = Cardinality(References(s)) - Tally(u[p], file[p], s)
    <3>1. PICK old : old = References(s)
      OBVIOUS
    <3>2. PICK new : new = References(s)'
      OBVIOUS
    <3>3. old = RefsOf(u, file, s)
      BY <3>1 DEF References
    <3>4. new = RefsOf([u EXCEPT ![p] = r], [file EXCEPT ![p] = F], s)
      BY <2>2, <3>2
    <3>5. Counted(old, new, Tally(u[p], file[p], s), Tally(r, F, s))
      BY <2>1, <3>3, <3>4, CountChange
    <3> QED  BY <3>1, <3>2, <3>5 DEF Counted
  <2>4. inode[s].count >= Root(s) + Cardinality(References(s))
    BY DEF IInv, Covered
  <2>5. inode'[s].count - Tally(r, F, s) >= inode[s].count - Tally(u[p], file[p], s)
    BY DEF CountsKept
  <2>6. Tally(r, F, s) \in Nat /\ Tally(u[p], file[p], s) \in Nat
    BY TallyIsCount
  <2>7. inode[s].count \in Nat /\ inode'[s].count \in Nat /\ Root(s) \in Nat
    BY DEF IInv, TypeOK, Root
  <2> QED  BY <2>3, <2>4, <2>5, <2>6, <2>7
<1>2. ASSUME NEW q \in Procs, q # p PROVE Placed(q)'
  <2>1. u'[q] = u[q]
    BY <1>2 DEF Changes, IInv, TypeOK
  <2>2. Fits(u'[q])
    BY <2>1 DEF IInv, Placed
  <2>3. Alone(u'[q]) => inode'[u'[q].ip].count = 1 /\ inode'[u'[q].ip].lock
    <3> SUFFICES ASSUME Alone(u[q])
                 PROVE  inode'[u[q].ip].count = 1 /\ inode'[u[q].ip].lock
      BY <2>1
    <3>1. u[q].ip \in Slots /\ Tally(u[p], file[p], u[q].ip) = 0
      BY <1>2, AloneIsAlone
    <3>2. inode[u[q].ip].count = 1 /\ inode[u[q].ip].lock
      BY DEF IInv, Placed
    <3> QED  BY <3>1, <3>2 DEF CountsKept
  <2>4. ~Fresh(u'[q])
    <3>1. Fresh(u[q]) => cpu = q
      BY DEF IInv, Placed
    <3> QED  BY <1>2, <2>1, <3>1, TableAssumption
  <2> QED  BY <2>2, <2>3, <2>4 DEF Placed
<1> QED  BY <1>1, <1>2 DEF IInv

InodeRec == [num : Inodes \cup {0}, lock : BOOLEAN, want : BOOLEAN, upd : BOOLEAN,
             count : Nat, mode : Mode, nlink : Int]

\* A step that leaves the table of inodes as it is, but for their contents.
LEMMA QuietStep ==
  ASSUME IInv, NEW p \in Procs, NEW r, NEW F, cpu \in {p, NoProc},
         Changes(p, r, F), TypeOK', Fits(r),
         Alone(r) => inode[r.ip].count = 1 /\ inode[r.ip].lock,
         Fresh(r) => cpu' = p /\ inode'[r.ip].mode = "FREE",
         \A s \in Slots : Tally(r, F, s) <= Tally(u[p], file[p], s),
         freel' = freel,
         \A s \in Slots : /\ inode'[s].num = inode[s].num
                          /\ inode'[s].count = inode[s].count
                          /\ inode'[s].lock = inode[s].lock
  PROVE  IInv'
<1>1. u'[p] = r
  BY DEF Changes, IInv, TypeOK
<1>2. Placed(p)'
  <2>1. Alone(r) => r.ip \in Slots
    BY AloneRefers DEF Fits
  <2> QED  BY <1>1, <2>1 DEF Placed
<1>3. Slotted'
  BY DEF IInv, Slotted
<1>4. CountsKept(p, r, F)
  <2>1. \A s \in Slots : Tally(r, F, s) \in Nat /\ Tally(u[p], file[p], s) \in Nat
    BY TallyIsCount
  <2>2. \A s \in Slots : inode[s].count \in Nat
    BY DEF IInv, TypeOK
  <2> QED  BY <2>1, <2>2 DEF CountsKept
<1> QED  BY <1>2, <1>3, <1>4, StepInv

\* A step that only changes the locals.
LEMMA LocalStep ==
  ASSUME IInv, NEW p \in Procs, NEW r \in Locals, cpu \in {p, NoProc}, Go(p, r),
         cpu' \in {p, NoProc}, wchan' = wchan,
         UNCHANGED <<inode, freel, volVars, sysVars>>, Fits(r),
         Alone(r) => inode[r.ip].count = 1 /\ inode[r.ip].lock,
         Fresh(r) => cpu' = p /\ inode[r.ip].mode = "FREE",
         \A s \in Slots : Tally(r, file[p], s) <= Tally(u[p], file[p], s)
  PROVE  IInv'
<1>1. TypeOK'
  BY DEF IInv, TypeOK, Go, volVars, fsVars, sysVars
<1>2. Changes(p, r, file[p])
  BY DEF Changes, Go, sysVars, IInv, TypeOK
<1> QED  BY <1>1, <1>2, QuietStep

-----------------------------------------------------------------------------
(* The places of a system call                                             *)

\* The locals of a process that is not in the kernel.
LEMMA IdleType ==
  /\ Idle \in Locals /\ Idle.pc = "user" /\ Idle.stk = <<>> /\ Idle.tgt = 0
  /\ Idle.call = "none" /\ Idle.path = <<>> /\ Idle.to = <<>> /\ ~Idle.err
  /\ Idle.held = {} /\ Idle.ip = 0
<1>1. "user" \in Label
  BY DEF Label
<1>2. <<>> \in Seq(Label) /\ <<>> \in Seq(Names)
  OBVIOUS
<1>3. [mode |-> "FREE", nlink |-> 0] \in Dinode
  BY DEF Dinode, Mode
<1> QED  BY <1>1, <1>2, <1>3 DEF Idle, Locals, NoPath

\* What is known of a process that runs.
LEMMA Here ==
  ASSUME IInv, NEW p \in Procs, NEW l, At(p, l)
  PROVE  /\ u[p] \in Locals /\ u[p].pc = l /\ Fits(u[p]) /\ cpu \in {p, NoProc}
         /\ u[p].pc \in Label /\ u[p].stk \in Seq(Label) /\ Chain(u[p].pc, u[p].stk)
BY DEF IInv, TypeOK, At, Placed, Fits, Locals

\* A process at a place of a system call has an empty kernel stack.
LEMMA HereBase ==
  ASSUME IInv, NEW p \in Procs, NEW l, At(p, l), Callers(l) = {}
  PROVE  /\ u[p] \in Locals /\ u[p].pc = l /\ Fits(u[p]) /\ cpu \in {p, NoProc}
         /\ u[p].pc \in Label /\ u[p].stk \in Seq(Label) /\ Chain(u[p].pc, u[p].stk)
         /\ u[p].stk = <<>> /\ Bottom(l, <<>>) = l /\ Frames(l, <<>>) = {l}
BY Here, AtBase

\* A place of a system call.
LEMMA BasePlace ==
  ASSUME NEW l, Callers(l) = {}
  PROVE  Chain(l, <<>>) /\ Bottom(l, <<>>) = l /\ Frames(l, <<>>) = {l}
BY DEF Chain, Bottom, Frames

\* An inode that a process refers to is in core.
LEMMA ReferredInCore ==
  ASSUME IInv, NEW p \in Procs, NEW s \in Slots, Tally(u[p], file[p], s) # 0
  PROVE  inode[s].count >= 1 /\ inode[s].num \in Inodes
<1>1. PICK k \in 1..5 : Refers(u[p], file[p], s, k)
  BY DEF Tally, One, Refers
<1>2. References(s) # {}
  <2>1. <<p, k>> \in References(s)
    BY <1>1 DEF References, RefsOf
  <2> QED  BY <2>1
<1>3. Cardinality(References(s)) \in Nat /\ Cardinality(References(s)) # 0
  BY <1>2, RefsFinite, FS_EmptySet
<1>4. inode[s].count >= Root(s) + Cardinality(References(s)) /\ Root(s) \in {0, 1}
      /\ inode[s].count \in Nat
  BY DEF IInv, Covered, TypeOK, Root
<1>5. inode[s].count >= 1
  BY <1>3, <1>4
<1>6. inode[s].num # 0
  BY <1>5 DEF IInv, Slotted
<1> QED  BY <1>5, <1>6 DEF IInv, TypeOK

USE DEF IputAt, IgetAt, IallocAt, IupdatAt, ItruncAt, DpAt, DipAt, IpAt,
        HasIp, HasDp, HasDip, One

\* A slot has a number from one on.
LEMMA SlotNotZero == 0 \notin Slots
BY TableAssumption DEF Slots

\* The directory a process refers to, and ip and dip, are in core.
LEMMA PlacesInCore ==
  ASSUME IInv, NEW p \in Procs
  PROVE  /\ HasDp(u[p]) => u[p].dp \in Slots /\ inode[u[p].dp].num \in Inodes
         /\ HasDip(u[p]) => u[p].dip \in Slots /\ inode[u[p].dip].num \in Inodes
         /\ HasIp(u[p]) => u[p].ip \in Slots /\ inode[u[p].ip].num \in Inodes
         /\ u[p].tgt # 0 => u[p].tgt \in Slots /\ inode[u[p].tgt].num \in Inodes
<1>1. /\ HasDp(u[p]) => u[p].dp \in Slots
      /\ HasDip(u[p]) => u[p].dip \in Slots
      /\ HasIp(u[p]) => u[p].ip \in Slots
      /\ u[p].tgt # 0 => u[p].tgt \in Slots
  <2>1. Fits(u[p]) /\ u[p] \in Locals
    BY DEF IInv, Placed, TypeOK
  <2>2. u[p].tgt \in Slots \cup {0}
    BY <2>1 DEF Locals
  <2> HIDE DEF HasIp, HasDp, HasDip
  <2> QED  BY <2>1, <2>2 DEF Fits
<1>2. ASSUME NEW s \in Slots,
             \/ HasDp(u[p]) /\ u[p].dp = s
             \/ HasDip(u[p]) /\ u[p].dip = s
             \/ HasIp(u[p]) /\ u[p].ip = s
             \/ u[p].tgt = s
      PROVE  inode[s].num \in Inodes
  <2> HIDE DEF HasIp, HasDp, HasDip
  <2>1. Tally(u[p], file[p], s) # 0
    BY <1>2 DEF Tally
  <2> QED  BY <2>1, ReferredInCore
<1> HIDE DEF HasIp, HasDp, HasDip
<1>3. HasDp(u[p]) => inode[u[p].dp].num \in Inodes
  BY <1>1, <1>2
<1>4. HasDip(u[p]) => inode[u[p].dip].num \in Inodes
  BY <1>1, <1>2
<1>5. HasIp(u[p]) => inode[u[p].ip].num \in Inodes
  BY <1>1, <1>2
<1>6. u[p].tgt # 0 => inode[u[p].tgt].num \in Inodes
  BY <1>1, <1>2
<1> QED  BY <1>1, <1>3, <1>4, <1>5, <1>6

\* What dp, dip and ip refer to at a place of a system call.
LEMMA PlacesAt ==
  ASSUME IInv, NEW p \in Procs, NEW l, At(p, l), Callers(l) = {}
  PROVE  /\ l \in DpAt => u[p].dp \in Slots /\ inode[u[p].dp].num \in Inodes
         /\ l \in DipAt => u[p].dip \in Slots /\ inode[u[p].dip].num \in Inodes
         /\ l \in IpAt /\ u[p].ip # 0 => u[p].ip \in Slots /\ inode[u[p].ip].num \in Inodes
<1> HIDE DEF DpAt, DipAt, IpAt
<1>1. u[p].pc = l /\ u[p].stk = <<>> /\ Bottom(l, <<>>) = l
  BY HereBase
<1>2. /\ l \in DpAt => HasDp(u[p])
      /\ l \in DipAt => HasDip(u[p])
      /\ l \in IpAt /\ u[p].ip # 0 => HasIp(u[p])
  BY <1>1
<1> HIDE DEF HasDp, HasDip, HasIp
<1> QED  BY <1>2, PlacesInCore

\* What a directory search finds is an inode of the volume.
LEMMA ComponentType ==
  ASSUME IInv, NEW p \in Procs, At(p, "dirloop")
  PROVE  Component(p) \in Inodes \cup {0}
<1>1. Callers("dirloop") = {}
  BY DEF Callers
<1>2. /\ u[p] \in Locals /\ u[p].pc = "dirloop" /\ Fits(u[p]) /\ u[p].stk = <<>>
      /\ Bottom("dirloop", <<>>) = "dirloop"
  BY <1>1, HereBase
<1>3. inode[u[p].dp].num \in Inodes
  BY <1>2, PlacesInCore
<1>4. u[p].path \in Seq(Names) /\ u[p].path # <<>>
  BY <1>2 DEF Fits, Locals
<1>5. Head(u[p].path) \in Names
  BY <1>4
<1>6. dir \in [Inodes -> [Names -> Inodes \cup {0}]]
  BY DEF IInv, TypeOK
<1> QED  BY <1>3, <1>5, <1>6 DEF Component

\* iupdat and itrunc are given an inode of the table.
LEMMA UpdatSlot ==
  ASSUME NEW r, Fits(r), r.pc \in IupdatAt \cup ItruncAt
  PROVE  r.ip \in Slots
BY DEF Fits

\* itrunc copies what it writes.
LEMMA TruncDinode ==
  ASSUME IInv, NEW p \in Procs, At(p, "itrunc")
  PROVE  [mode |-> inode[u[p].ip].mode, nlink |-> inode[u[p].ip].nlink] \in Dinode
<1>1. u[p].ip \in Slots
  BY Here, UpdatSlot
<1>2. inode[u[p].ip] \in InodeRec
  BY <1>1 DEF IInv, TypeOK, InodeRec
<1> QED  BY <1>2 DEF InodeRec, Dinode

\* The free inodes in the superblock are a sequence of inodes.
LEMMA FreeList ==
  ASSUME NEW list \in Seq(Inodes)
  PROVE  /\ Checked(list) \in Seq(Inodes)
         /\ list # <<>> => Front(list) \in Seq(Inodes) /\ Last(list) \in Inodes
<1>1. Checked(list) \in Seq(Inodes)
  BY DEF Checked
<1>2. ASSUME list # <<>> PROVE Front(list) \in Seq(Inodes) /\ Last(list) \in Inodes
  <2>1. Len(list) \in Nat \ {0}
    BY <1>2, EmptySeq
  <2> QED  BY <2>1 DEF Front, Last
<1> QED  BY <1>1, <1>2

\* ialloc takes the last one.
LEMMA LastFree == ASSUME IInv, sinode # <<>> PROVE Last(sinode) \in Inodes
BY FreeList DEF IInv, TypeOK

\* And leaves the others on the list.
LEMMA FrontFree == ASSUME IInv, sinode # <<>> PROVE Front(sinode) \in Seq(Inodes)
BY FreeList DEF IInv, TypeOK

\* ifree puts a number on the list or counts it.
LEMMA IfreeType ==
  ASSUME sinode \in Seq(Inodes), nbehind \in Nat, NEW i \in Inodes, Ifree(i)
  PROVE  sinode' \in Seq(Inodes) /\ nbehind' \in Nat /\ silock' = silock /\ lasti' = lasti
<1>1. Checked(sinode) \in Seq(Inodes)
  BY FreeList
<1>2. sinode' \in {Append(Checked(sinode), i), Checked(sinode)}
  BY DEF Ifree
<1>3. nbehind' \in {nbehind + 1, nbehind}
  BY DEF Ifree
<1> QED  BY <1>1, <1>2, <1>3 DEF Ifree

\* The inode that link() goes back to.
LEMMA LinkTarget ==
  ASSUME IInv, NEW p \in Procs, u[p].call = "link2"
  PROVE  u[p].tgt \in Slots
BY DEF IInv, Placed, Fits

\* The target of link is a slot of the table.
LEMMA TargetInCore ==
  ASSUME IInv, NEW p \in Procs, At(p, "linkWrite")
  PROVE  inode[u[p].tgt].num \in Inodes \cup {0}
<1>1. Fits(u[p]) /\ u[p].pc = "linkWrite" /\ u[p].stk = <<>>
      /\ Bottom("linkWrite", <<>>) = "linkWrite"
  BY HereBase DEF Callers
<1>2. u[p].tgt \in Slots
  BY <1>1 DEF Fits
<1> QED  BY <1>2 DEF IInv, TypeOK

\* writei changes a directory or loses the change with an error.
LEMMA WriteEntryType ==
  ASSUME IInv, NEW p \in Procs, NEW i \in Inodes \cup {0}, NEW err \in BOOLEAN,
         WriteEntry(p, i, err)
  PROVE  /\ dir' \in [Inodes -> [Names -> Inodes \cup {0}]]
         /\ u[p].err => err
<1>1. dir \in [Inodes -> [Names -> Inodes \cup {0}]]
  BY DEF IInv, TypeOK
<1>2. CASE UNCHANGED dir /\ err
  BY <1>1, <1>2
<1>3. CASE /\ err = u[p].err
           /\ dir' = [dir EXCEPT ![inode[u[p].dp].num][Head(u[p].path)] = i]
  BY <1>1, <1>3
<1> QED  BY <1>2, <1>3 DEF WriteEntry

-----------------------------------------------------------------------------
(* Changes of what the slots hold                                          *)

\* The slots hold something else, of the same inodes with the same counts.
Edited(f, g) ==
  /\ g \in [Slots -> InodeRec]
  /\ \A s \in Slots : /\ g[s].num = f[s].num
                      /\ g[s].count = f[s].count
                      /\ g[s].lock = f[s].lock

\* One slot is changed.
LEMMA EditAt ==
  ASSUME NEW f \in [Slots -> InodeRec], NEW s \in Slots, NEW e \in InodeRec, NEW g,
         e.num = f[s].num, e.count = f[s].count, e.lock = f[s].lock,
         g = [f EXCEPT ![s] = e]
  PROVE  Edited(f, g)
BY DEF Edited

\* Two changes.
LEMMA EditOn ==
  ASSUME NEW f, NEW g, NEW h, Edited(f, g), Edited(g, h)
  PROVE  Edited(f, h)
BY DEF Edited

\* The table as a function of the slots.
LEMMA InodeType ==
  ASSUME IInv
  PROVE  inode \in [Slots -> InodeRec] /\ \A s \in Slots : inode[s] \in InodeRec
BY DEF IInv, TypeOK, InodeRec

\* An inode is marked changed.
LEMMA Marked ==
  ASSUME NEW f \in [Slots -> InodeRec], NEW s \in Slots, NEW g,
         g = [f EXCEPT ![s].upd = TRUE]
  PROVE  Edited(f, g)
<1>1. PICK e : e = [f[s] EXCEPT !.upd = TRUE]
  OBVIOUS
<1>2. g = [f EXCEPT ![s] = e]
  BY <1>1
<1>3. e \in InodeRec /\ e.num = f[s].num /\ e.count = f[s].count /\ e.lock = f[s].lock
  BY <1>1 DEF InodeRec
<1> QED  BY <1>2, <1>3, EditAt

\* Two inodes are marked changed.
LEMMA BothMarked ==
  ASSUME NEW f \in [Slots -> InodeRec], NEW d \in Slots, NEW s \in Slots, NEW g,
         g = [f EXCEPT ![d].upd = TRUE, ![s].upd = TRUE]
  PROVE  Edited(f, g)
<1>1. PICK h : h = [f EXCEPT ![d].upd = TRUE]
  OBVIOUS
<1>2. g = [h EXCEPT ![s].upd = TRUE]
  BY <1>1
<1>3. Edited(f, h)
  BY <1>1, Marked
<1>4. Edited(h, g)
  <2>1. h \in [Slots -> InodeRec]
    BY <1>3 DEF Edited
  <2> QED  BY <1>2, <2>1, Marked
<1> QED  BY <1>3, <1>4, EditOn

\* An inode gets another count of links.
LEMMA LinksSet ==
  ASSUME NEW f \in [Slots -> InodeRec], NEW s \in Slots, NEW n \in Int, NEW g,
         g = [f EXCEPT ![s].nlink = n]
  PROVE  Edited(f, g)
<1>1. PICK e : e = [f[s] EXCEPT !.nlink = n]
  OBVIOUS
<1>2. g = [f EXCEPT ![s] = e]
  BY <1>1
<1>3. e \in InodeRec /\ e.num = f[s].num /\ e.count = f[s].count /\ e.lock = f[s].lock
  BY <1>1 DEF InodeRec
<1> QED  BY <1>2, <1>3, EditAt

\* An inode gets another count of links and is marked changed.
LEMMA LinksMarked ==
  ASSUME NEW f \in [Slots -> InodeRec], NEW s \in Slots, NEW n \in Int, NEW g,
         g = [f EXCEPT ![s].nlink = n, ![s].upd = TRUE]
  PROVE  Edited(f, g)
<1>1. PICK e : e = [f[s] EXCEPT !.nlink = n, !.upd = TRUE]
  OBVIOUS
<1>2. g = [f EXCEPT ![s] = e]
  BY <1>1
<1>3. e \in InodeRec /\ e.num = f[s].num /\ e.count = f[s].count /\ e.lock = f[s].lock
  BY <1>1 DEF InodeRec
<1> QED  BY <1>2, <1>3, EditAt

\* unlink takes a link away.
LEMMA LinkTaken ==
  ASSUME NEW f \in [Slots -> InodeRec], NEW d \in Slots, NEW s \in Slots, NEW g,
         g = [f EXCEPT ![d].upd = TRUE, ![s].upd = TRUE, ![s].nlink = @ - 1]
  PROVE  Edited(f, g)
<1>1. PICK h : h = [f EXCEPT ![d].upd = TRUE]
  OBVIOUS
<1>2. Edited(f, h)
  BY <1>1, Marked
<1>7. h \in [Slots -> InodeRec]
  BY <1>2 DEF Edited
<1>3. PICK e : e = [h[s] EXCEPT !.upd = TRUE, !.nlink = h[s].nlink - 1]
  OBVIOUS
<1>4. g = [h EXCEPT ![s] = e]
  BY <1>1, <1>3
<1>5. e \in InodeRec /\ e.num = h[s].num /\ e.count = h[s].count /\ e.lock = h[s].lock
  BY <1>7, <1>3 DEF InodeRec
<1>6. Edited(h, g)
  BY <1>7, <1>4, <1>5, EditAt
<1> QED  BY <1>2, <1>6, EditOn

\* rmdir takes the links of a directory away, and the one of its "..".
LEMMA DirTaken ==
  ASSUME IInv, NEW p \in Procs, Rmdir(p)
  PROVE  Edited(inode, inode')
<1>1. u[p].dp \in Slots /\ u[p].ip \in Slots /\ inode \in [Slots -> InodeRec]
  <2>1. At(p, "rmdir") /\ u[p].ip # 0 /\ Callers("rmdir") = {}
    BY DEF Rmdir, Callers
  <2> QED  BY <2>1, PlacesAt, InodeType
<1>2. PICK h : h = [inode EXCEPT ![u[p].dp].nlink = IF @ > 0 THEN @ - 1 ELSE @]
  OBVIOUS
<1>3. inode' = [h EXCEPT ![u[p].ip].nlink = IF @ <= 2 THEN 0 ELSE @]
  BY <1>2 DEF Rmdir
<1>4. PICK n : n = IF inode[u[p].dp].nlink > 0 THEN inode[u[p].dp].nlink - 1
                                               ELSE inode[u[p].dp].nlink
  OBVIOUS
<1>5. n \in Int
  BY <1>1, <1>4 DEF InodeRec
<1>6. h = [inode EXCEPT ![u[p].dp].nlink = n]
  BY <1>2, <1>4
<1>7. Edited(inode, h)
  BY <1>1, <1>5, <1>6, LinksSet
<1>8. h \in [Slots -> InodeRec]
  BY <1>7 DEF Edited
<1>9. PICK m : m = IF h[u[p].ip].nlink <= 2 THEN 0 ELSE h[u[p].ip].nlink
  OBVIOUS
<1>10. m \in Int
  BY <1>1, <1>8, <1>9 DEF InodeRec
<1>11. inode' = [h EXCEPT ![u[p].ip].nlink = m]
  BY <1>3, <1>9
<1>12. Edited(h, inode')
  BY <1>1, <1>8, <1>10, <1>11, LinksSet
<1> QED  BY <1>7, <1>12, EditOn

\* creat and mknod fill in an inode.
LEMMA FileMade ==
  ASSUME NEW f \in [Slots -> InodeRec], NEW s \in Slots, NEW g,
         g = [f EXCEPT ![s].upd = TRUE, ![s].mode = "REG", ![s].nlink = 1]
  PROVE  Edited(f, g)
<1>1. PICK e : e = [f[s] EXCEPT !.upd = TRUE, !.mode = "REG", !.nlink = 1]
  OBVIOUS
<1>2. g = [f EXCEPT ![s] = e]
  BY <1>1
<1>3. f[s] \in InodeRec /\ "REG" \in Mode /\ 1 \in Int
  BY DEF Mode
<1>4. e.num = f[s].num /\ e.count = f[s].count /\ e.lock = f[s].lock
  BY <1>1, <1>3 DEF InodeRec
<1>5. e \in InodeRec
  BY <1>1, <1>3 DEF InodeRec
<1> QED  BY <1>2, <1>4, <1>5, EditAt

-----------------------------------------------------------------------------
(* Path names                                                              *)

\* The search of a directory fails.
LEMMA DirFailsStep == ASSUME IInv, NEW p \in Procs, DirFails(p) PROVE IInv'
<1> DEFINE r == [u[p] EXCEPT !.pc = "out", !.err = TRUE]
<1>1. /\ At(p, "dirloop") /\ Go(p, r) /\ cpu' \in {p, NoProc} /\ wchan' = wchan /\ OnlyLocals
  BY DEF DirFails, Fails, Goto, RunsOn, MaySleep, Put, Found, Missing
<1>2. /\ u[p] \in Locals /\ u[p].pc = "dirloop" /\ Fits(u[p]) /\ cpu \in {p, NoProc}
      /\ u[p].pc \in Label /\ u[p].stk \in Seq(Label) /\ Chain(u[p].pc, u[p].stk)
      /\ u[p].stk = <<>> /\ Bottom("dirloop", <<>>) = "dirloop" /\ Frames("dirloop", <<>>) = {"dirloop"}
  <2>1. Callers("dirloop") = {}
    BY DEF Callers
  <2> QED  BY <1>1, <2>1, HereBase
<1>3. /\ r \in Locals /\ r = [u[p] EXCEPT !.pc = "out", !.err = TRUE]
      /\ r.pc = "out" /\ r.stk = <<>>
      /\ Chain("out", <<>>) /\ Bottom("out", <<>>) = "out" /\ Frames("out", <<>>) = {"out"}
  <2>1. "out" \in Label
    BY DEF Label
  <2>2. Chain("out", <<>>) /\ Bottom("out", <<>>) = "out" /\ Frames("out", <<>>) = {"out"}
    BY BasePlace DEF Callers
  <2> QED  BY <1>1, <1>2, <2>1, <2>2 DEF Locals, Fits
<1> HIDE DEF r
<1>4. Fits(r)
  BY <1>1, <1>2, <1>3, SlotNotZero DEF Fits
<1>5. ~Alone(r) /\ ~Fresh(r)
  BY <1>3 DEF Alone, Fresh
<1>6. \A s \in Slots : Tally(r, file[p], s) <= Tally(u[p], file[p], s)
  BY <1>1, <1>2, <1>3, SlotNotZero DEF Tally
<1> QED  BY <1>1, <1>2, <1>3, <1>4, <1>5, <1>6, LocalStep DEF OnlyLocals

\* link() found the place for its name.
LEMMA DirLinkStep == ASSUME IInv, NEW p \in Procs, DirLink(p) PROVE IInv'
<1> DEFINE r == [u[p] EXCEPT !.pc = "linkWrite"]
<1>1. /\ At(p, "dirloop") /\ Go(p, r) /\ cpu' \in {p, NoProc} /\ wchan' = wchan /\ OnlyLocals
      /\ u[p].call = "link2"
  BY DEF DirLink, Fails, Goto, RunsOn, MaySleep, Put, Missing, NamesTarget
<1>2. /\ u[p] \in Locals /\ u[p].pc = "dirloop" /\ Fits(u[p]) /\ cpu \in {p, NoProc}
      /\ u[p].pc \in Label /\ u[p].stk \in Seq(Label) /\ Chain(u[p].pc, u[p].stk)
      /\ u[p].stk = <<>> /\ Bottom("dirloop", <<>>) = "dirloop" /\ Frames("dirloop", <<>>) = {"dirloop"}
  <2>1. Callers("dirloop") = {}
    BY DEF Callers
  <2> QED  BY <1>1, <2>1, HereBase
<1>3. /\ r \in Locals /\ r = [u[p] EXCEPT !.pc = "linkWrite"]
      /\ r.pc = "linkWrite" /\ r.stk = <<>>
      /\ Chain("linkWrite", <<>>) /\ Bottom("linkWrite", <<>>) = "linkWrite" /\ Frames("linkWrite", <<>>) = {"linkWrite"}
  <2>1. "linkWrite" \in Label
    BY DEF Label
  <2>2. Chain("linkWrite", <<>>) /\ Bottom("linkWrite", <<>>) = "linkWrite" /\ Frames("linkWrite", <<>>) = {"linkWrite"}
    BY BasePlace DEF Callers
  <2> QED  BY <1>1, <1>2, <2>1, <2>2 DEF Locals, Fits
<1> HIDE DEF r
<1>4. Fits(r)
  BY <1>1, <1>2, <1>3, SlotNotZero DEF Fits
<1>5. ~Alone(r) /\ ~Fresh(r)
  BY <1>3 DEF Alone, Fresh
<1>6. \A s \in Slots : Tally(r, file[p], s) <= Tally(u[p], file[p], s)
  BY <1>1, <1>2, <1>3, SlotNotZero DEF Tally
<1> QED  BY <1>1, <1>2, <1>3, <1>4, <1>5, <1>6, LocalStep DEF OnlyLocals

\* There is no inode to create.
LEMMA CreateFailsStep == ASSUME IInv, NEW p \in Procs, CreateFails(p) PROVE IInv'
<1> DEFINE r == [u[p] EXCEPT !.pc = "out"]
<1>1. /\ At(p, "created") /\ Go(p, r) /\ cpu' \in {p, NoProc} /\ wchan' = wchan /\ OnlyLocals
  BY DEF CreateFails, Fails, Goto, RunsOn, MaySleep, Put
<1>2. /\ u[p] \in Locals /\ u[p].pc = "created" /\ Fits(u[p]) /\ cpu \in {p, NoProc}
      /\ u[p].pc \in Label /\ u[p].stk \in Seq(Label) /\ Chain(u[p].pc, u[p].stk)
      /\ u[p].stk = <<>> /\ Bottom("created", <<>>) = "created" /\ Frames("created", <<>>) = {"created"}
  <2>1. Callers("created") = {}
    BY DEF Callers
  <2> QED  BY <1>1, <2>1, HereBase
<1>3. /\ r \in Locals /\ r = [u[p] EXCEPT !.pc = "out"]
      /\ r.pc = "out" /\ r.stk = <<>>
      /\ Chain("out", <<>>) /\ Bottom("out", <<>>) = "out" /\ Frames("out", <<>>) = {"out"}
  <2>1. "out" \in Label
    BY DEF Label
  <2>2. Chain("out", <<>>) /\ Bottom("out", <<>>) = "out" /\ Frames("out", <<>>) = {"out"}
    BY BasePlace DEF Callers
  <2> QED  BY <1>1, <1>2, <2>1, <2>2 DEF Locals, Fits
<1> HIDE DEF r
<1>4. Fits(r)
  BY <1>1, <1>2, <1>3, SlotNotZero DEF Fits
<1>5. ~Alone(r) /\ ~Fresh(r)
  BY <1>3 DEF Alone, Fresh
<1>6. \A s \in Slots : Tally(r, file[p], s) <= Tally(u[p], file[p], s)
  BY <1>1, <1>2, <1>3, SlotNotZero DEF Tally
<1> QED  BY <1>1, <1>2, <1>3, <1>4, <1>5, <1>6, LocalStep DEF OnlyLocals

\* unlink goes on with the inode it got.
LEMMA UnlinkStep == ASSUME IInv, NEW p \in Procs, Unlink(p) PROVE IInv'
<1> DEFINE r == [u[p] EXCEPT !.pc = "unlinkWrite", !.dip = u[p].ip]
<1>1. /\ At(p, "unlink") /\ Go(p, r) /\ cpu' \in {p, NoProc} /\ wchan' = wchan /\ OnlyLocals
      /\ u[p].ip # 0
  BY DEF Unlink, Fails, Goto, RunsOn, MaySleep, Put
<1>2. /\ u[p] \in Locals /\ u[p].pc = "unlink" /\ Fits(u[p]) /\ cpu \in {p, NoProc}
      /\ u[p].pc \in Label /\ u[p].stk \in Seq(Label) /\ Chain(u[p].pc, u[p].stk)
      /\ u[p].stk = <<>> /\ Bottom("unlink", <<>>) = "unlink" /\ Frames("unlink", <<>>) = {"unlink"}
  <2>1. Callers("unlink") = {}
    BY DEF Callers
  <2> QED  BY <1>1, <2>1, HereBase
<1>3. /\ r \in Locals /\ r = [u[p] EXCEPT !.pc = "unlinkWrite", !.dip = u[p].ip]
      /\ r.pc = "unlinkWrite" /\ r.stk = <<>>
      /\ Chain("unlinkWrite", <<>>) /\ Bottom("unlinkWrite", <<>>) = "unlinkWrite" /\ Frames("unlinkWrite", <<>>) = {"unlinkWrite"}
  <2>1. "unlinkWrite" \in Label
    BY DEF Label
  <2>2. Chain("unlinkWrite", <<>>) /\ Bottom("unlinkWrite", <<>>) = "unlinkWrite" /\ Frames("unlinkWrite", <<>>) = {"unlinkWrite"}
    BY BasePlace DEF Callers
  <2> QED  BY <1>1, <1>2, <2>1, <2>2 DEF Locals, Fits
<1> HIDE DEF r
<1>4. Fits(r)
  BY <1>1, <1>2, <1>3, SlotNotZero DEF Fits
<1>5. ~Alone(r) /\ ~Fresh(r)
  BY <1>3 DEF Alone, Fresh
<1>6. \A s \in Slots : Tally(r, file[p], s) <= Tally(u[p], file[p], s)
  BY <1>1, <1>2, <1>3, SlotNotZero DEF Tally
<1> QED  BY <1>1, <1>2, <1>3, <1>4, <1>5, <1>6, LocalStep DEF OnlyLocals

\* namei leaves the last directory.
LEMMA OutStep == ASSUME IInv, NEW p \in Procs, Out(p) PROVE IInv'
<1> DEFINE r == Calling([u[p] EXCEPT !.ip = u[p].dp], "iput", <<"done">>)
<1>1. /\ At(p, "out") /\ Go(p, r) /\ cpu' \in {p, NoProc} /\ wchan' = wchan /\ OnlyLocals
  BY DEF Out, Fails, Goto, RunsOn, MaySleep, Put
<1>2. /\ u[p] \in Locals /\ u[p].pc = "out" /\ Fits(u[p]) /\ cpu \in {p, NoProc}
      /\ u[p].pc \in Label /\ u[p].stk \in Seq(Label) /\ Chain(u[p].pc, u[p].stk)
      /\ u[p].stk = <<>> /\ Bottom("out", <<>>) = "out" /\ Frames("out", <<>>) = {"out"}
  <2>1. Callers("out") = {}
    BY DEF Callers
  <2> QED  BY <1>1, <2>1, HereBase
<1>0. PICK t : t = <<"done">> \o <<>>
  OBVIOUS
<1>3. /\ r \in Locals /\ r = [u[p] EXCEPT !.pc = "iput", !.stk = t, !.ip = u[p].dp]
      /\ r.pc = "iput" /\ r.stk = t
      /\ Chain("iput", t) /\ Bottom("iput", t) = "done" /\ t[1] = "done"
      /\ Frames("iput", t) \subseteq {"iput", "done"}
  <2>1. "iput" \in Label /\ "done" \in Label
    BY DEF Label
  <2>2. "done" \in Callers("iput") /\ Callers("done") = {}
    BY DEF Callers
  <2>3. /\ Chain("iput", t) /\ Bottom("iput", t) = "done" /\ t[1] = "done" /\ t \in Seq(Label)
        /\ Frames("iput", t) \subseteq {"iput", "done"}
    BY <1>0, <2>1, <2>2, CallBase
  <2>4. r = [u[p] EXCEPT !.pc = "iput", !.stk = t, !.ip = u[p].dp]
    BY <1>0, <1>2 DEF Calling, Locals
  <2> HIDE DEF r
  <2> QED  BY <1>1, <1>2, <2>1, <2>3, <2>4 DEF Locals, Fits
<1> HIDE DEF r
<1>4. Fits(r)
  BY <1>1, <1>2, <1>3, SlotNotZero DEF Fits
<1>5. ~Alone(r) /\ ~Fresh(r)
  BY <1>3 DEF Alone, Fresh
<1>6. \A s \in Slots : Tally(r, file[p], s) <= Tally(u[p], file[p], s)
  BY <1>1, <1>2, <1>3, SlotNotZero DEF Tally
<1> QED  BY <1>1, <1>2, <1>3, <1>4, <1>5, <1>6, LocalStep DEF OnlyLocals

\* namei leaves a directory for a component of it.
LEMMA DirDescendStep == ASSUME IInv, NEW p \in Procs, DirDescend(p) PROVE IInv'
<1> DEFINE r == Calling([u[p] EXCEPT !.ino = Component(p), !.ip = u[p].dp], "iput", <<"iget", "descended">>)
<1>1. /\ At(p, "dirloop") /\ Go(p, r) /\ cpu' \in {p, NoProc} /\ wchan' = wchan /\ OnlyLocals
      /\ Component(p) \in Inodes
  BY ComponentType DEF DirDescend, Fails, Goto, RunsOn, MaySleep, Put, Found
<1>2. /\ u[p] \in Locals /\ u[p].pc = "dirloop" /\ Fits(u[p]) /\ cpu \in {p, NoProc}
      /\ u[p].pc \in Label /\ u[p].stk \in Seq(Label) /\ Chain(u[p].pc, u[p].stk)
      /\ u[p].stk = <<>> /\ Bottom("dirloop", <<>>) = "dirloop" /\ Frames("dirloop", <<>>) = {"dirloop"}
  <2>1. Callers("dirloop") = {}
    BY DEF Callers
  <2> QED  BY <1>1, <2>1, HereBase
<1>0. PICK t : t = <<"iget", "descended">> \o <<>>
  OBVIOUS
<1>3. /\ r \in Locals /\ r = [u[p] EXCEPT !.pc = "iput", !.stk = t, !.ino = Component(p), !.ip = u[p].dp]
      /\ r.pc = "iput" /\ r.stk = t
      /\ Chain("iput", t) /\ Bottom("iput", t) = "descended" /\ t[1] = "iget"
      /\ Frames("iput", t) \subseteq {"iput", "iget", "descended"}
  <2>1. "iput" \in Label /\ "iget" \in Label /\ "descended" \in Label
    BY DEF Label
  <2>2. "iget" \in Callers("iput") /\ Callers("descended") = {} /\ "descended" \in Callers("iget")
    BY DEF Callers
  <2>3. /\ Chain("iput", t) /\ Bottom("iput", t) = "descended" /\ t[1] = "iget" /\ t \in Seq(Label)
        /\ Frames("iput", t) \subseteq {"iput", "iget", "descended"}
    BY <1>0, <2>1, <2>2, Call2
  <2>4. r = [u[p] EXCEPT !.pc = "iput", !.stk = t, !.ino = Component(p), !.ip = u[p].dp]
    BY <1>0, <1>2 DEF Calling, Locals
  <2> HIDE DEF r
  <2> QED  BY <1>1, <1>2, <2>1, <2>3, <2>4 DEF Locals, Fits
<1> HIDE DEF r
<1>4. Fits(r)
  BY <1>1, <1>2, <1>3, SlotNotZero DEF Fits
<1>5. ~Alone(r) /\ ~Fresh(r)
  BY <1>3 DEF Alone, Fresh
<1>6. \A s \in Slots : Tally(r, file[p], s) <= Tally(u[p], file[p], s)
  BY <1>1, <1>2, <1>3, SlotNotZero DEF Tally
<1> QED  BY <1>1, <1>2, <1>3, <1>4, <1>5, <1>6, LocalStep DEF OnlyLocals

\* creat, mknod and mkdir need an inode.
LEMMA DirCreateStep == ASSUME IInv, NEW p \in Procs, DirCreate(p) PROVE IInv'
<1> DEFINE r == Calling(u[p], "ialloc", <<"created">>)
<1>1. /\ At(p, "dirloop") /\ Go(p, r) /\ cpu' \in {p, NoProc} /\ wchan' = wchan /\ OnlyLocals
  BY DEF DirCreate, Fails, Goto, RunsOn, MaySleep, Put, Missing
<1>2. /\ u[p] \in Locals /\ u[p].pc = "dirloop" /\ Fits(u[p]) /\ cpu \in {p, NoProc}
      /\ u[p].pc \in Label /\ u[p].stk \in Seq(Label) /\ Chain(u[p].pc, u[p].stk)
      /\ u[p].stk = <<>> /\ Bottom("dirloop", <<>>) = "dirloop" /\ Frames("dirloop", <<>>) = {"dirloop"}
  <2>1. Callers("dirloop") = {}
    BY DEF Callers
  <2> QED  BY <1>1, <2>1, HereBase
<1>0. PICK t : t = <<"created">> \o <<>>
  OBVIOUS
<1>3. /\ r \in Locals /\ r = [u[p] EXCEPT !.pc = "ialloc", !.stk = t]
      /\ r.pc = "ialloc" /\ r.stk = t
      /\ Chain("ialloc", t) /\ Bottom("ialloc", t) = "created" /\ t[1] = "created"
      /\ Frames("ialloc", t) \subseteq {"ialloc", "created"}
  <2>1. "ialloc" \in Label /\ "created" \in Label
    BY DEF Label
  <2>2. "created" \in Callers("ialloc") /\ Callers("created") = {}
    BY DEF Callers
  <2>3. /\ Chain("ialloc", t) /\ Bottom("ialloc", t) = "created" /\ t[1] = "created" /\ t \in Seq(Label)
        /\ Frames("ialloc", t) \subseteq {"ialloc", "created"}
    BY <1>0, <2>1, <2>2, CallBase
  <2>4. r = [u[p] EXCEPT !.pc = "ialloc", !.stk = t]
    BY <1>0, <1>2 DEF Calling, Locals
  <2> HIDE DEF r
  <2> QED  BY <1>1, <1>2, <2>1, <2>3, <2>4 DEF Locals, Fits
<1> HIDE DEF r
<1>4. Fits(r)
  BY <1>1, <1>2, <1>3, SlotNotZero DEF Fits
<1>5. ~Alone(r) /\ ~Fresh(r)
  BY <1>3 DEF Alone, Fresh
<1>6. \A s \in Slots : Tally(r, file[p], s) <= Tally(u[p], file[p], s)
  BY <1>1, <1>2, <1>3, SlotNotZero DEF Tally
<1> QED  BY <1>1, <1>2, <1>3, <1>4, <1>5, <1>6, LocalStep DEF OnlyLocals

\* unlink gets the inode while it holds the directory.
LEMMA DirRemoveUnlinkStep ==
  ASSUME IInv, NEW p \in Procs, DirRemove(p), u[p].call = "unlink"
  PROVE  IInv'
<1> DEFINE r == Calling([u[p] EXCEPT !.ino = Component(p)], "iget", <<"unlink">>)
<1>1. /\ At(p, "dirloop") /\ Go(p, r) /\ cpu' \in {p, NoProc} /\ wchan' = wchan /\ OnlyLocals
      /\ Component(p) \in Inodes
  BY ComponentType DEF DirRemove, Fails, Goto, RunsOn, MaySleep, Put, Found
<1>2. /\ u[p] \in Locals /\ u[p].pc = "dirloop" /\ Fits(u[p]) /\ cpu \in {p, NoProc}
      /\ u[p].pc \in Label /\ u[p].stk \in Seq(Label) /\ Chain(u[p].pc, u[p].stk)
      /\ u[p].stk = <<>> /\ Bottom("dirloop", <<>>) = "dirloop" /\ Frames("dirloop", <<>>) = {"dirloop"}
  <2>1. Callers("dirloop") = {}
    BY DEF Callers
  <2> QED  BY <1>1, <2>1, HereBase
<1>0. PICK t : t = <<"unlink">> \o <<>>
  OBVIOUS
<1>3. /\ r \in Locals /\ r = [u[p] EXCEPT !.pc = "iget", !.stk = t, !.ino = Component(p)]
      /\ r.pc = "iget" /\ r.stk = t
      /\ Chain("iget", t) /\ Bottom("iget", t) = "unlink" /\ t[1] = "unlink"
      /\ Frames("iget", t) \subseteq {"iget", "unlink"}
  <2>1. "iget" \in Label /\ "unlink" \in Label
    BY DEF Label
  <2>2. "unlink" \in Callers("iget") /\ Callers("unlink") = {}
    BY DEF Callers
  <2>3. /\ Chain("iget", t) /\ Bottom("iget", t) = "unlink" /\ t[1] = "unlink" /\ t \in Seq(Label)
        /\ Frames("iget", t) \subseteq {"iget", "unlink"}
    BY <1>0, <2>1, <2>2, CallBase
  <2>4. r = [u[p] EXCEPT !.pc = "iget", !.stk = t, !.ino = Component(p)]
    BY <1>0, <1>2 DEF Calling, Locals
  <2> HIDE DEF r
  <2> QED  BY <1>1, <1>2, <2>1, <2>3, <2>4 DEF Locals, Fits
<1> HIDE DEF r
<1>4. Fits(r)
  BY <1>1, <1>2, <1>3, SlotNotZero DEF Fits
<1>5. ~Alone(r) /\ ~Fresh(r)
  BY <1>3 DEF Alone, Fresh
<1>6. \A s \in Slots : Tally(r, file[p], s) <= Tally(u[p], file[p], s)
  BY <1>1, <1>2, <1>3, SlotNotZero DEF Tally
<1> QED  BY <1>1, <1>2, <1>3, <1>4, <1>5, <1>6, LocalStep DEF OnlyLocals

\* unlink did not get the inode.
LEMMA UnlinkNoneStep ==
  ASSUME IInv, NEW p \in Procs, UnlinkFails(p), u[p].ip = 0
  PROVE  IInv'
<1> DEFINE r == [u[p] EXCEPT !.err = TRUE, !.pc = "out"]
<1>1. /\ At(p, "unlink") /\ Go(p, r) /\ cpu' \in {p, NoProc} /\ wchan' = wchan /\ OnlyLocals
  BY DEF UnlinkFails, Fails, Goto, RunsOn, MaySleep, Put
<1>2. /\ u[p] \in Locals /\ u[p].pc = "unlink" /\ Fits(u[p]) /\ cpu \in {p, NoProc}
      /\ u[p].pc \in Label /\ u[p].stk \in Seq(Label) /\ Chain(u[p].pc, u[p].stk)
      /\ u[p].stk = <<>> /\ Bottom("unlink", <<>>) = "unlink" /\ Frames("unlink", <<>>) = {"unlink"}
  <2>1. Callers("unlink") = {}
    BY DEF Callers
  <2> QED  BY <1>1, <2>1, HereBase
<1>3. /\ r \in Locals /\ r = [u[p] EXCEPT !.err = TRUE, !.pc = "out"]
      /\ r.pc = "out" /\ r.stk = <<>>
      /\ Chain("out", <<>>) /\ Bottom("out", <<>>) = "out" /\ Frames("out", <<>>) = {"out"}
  <2>1. "out" \in Label
    BY DEF Label
  <2>2. Chain("out", <<>>) /\ Bottom("out", <<>>) = "out" /\ Frames("out", <<>>) = {"out"}
    BY BasePlace DEF Callers
  <2> QED  BY <1>1, <1>2, <2>1, <2>2 DEF Locals, Fits
<1> HIDE DEF r
<1>4. Fits(r)
  BY <1>1, <1>2, <1>3, SlotNotZero DEF Fits
<1>5. ~Alone(r) /\ ~Fresh(r)
  BY <1>3 DEF Alone, Fresh
<1>6. \A s \in Slots : Tally(r, file[p], s) <= Tally(u[p], file[p], s)
  BY <1>1, <1>2, <1>3, SlotNotZero DEF Tally
<1> QED  BY <1>1, <1>2, <1>3, <1>4, <1>5, <1>6, LocalStep DEF OnlyLocals

\* unlink may not remove what it got.
LEMMA UnlinkFailsStep ==
  ASSUME IInv, NEW p \in Procs, UnlinkFails(p), u[p].ip # 0
  PROVE  IInv'
<1> DEFINE r == Calling([u[p] EXCEPT !.err = TRUE, !.ip = u[p].ip], "iput", <<"out">>)
<1>1. /\ At(p, "unlink") /\ Go(p, r) /\ cpu' \in {p, NoProc} /\ wchan' = wchan /\ OnlyLocals
      /\ u[p].ip # 0
  BY DEF UnlinkFails, Fails, Goto, RunsOn, MaySleep, Put
<1>2. /\ u[p] \in Locals /\ u[p].pc = "unlink" /\ Fits(u[p]) /\ cpu \in {p, NoProc}
      /\ u[p].pc \in Label /\ u[p].stk \in Seq(Label) /\ Chain(u[p].pc, u[p].stk)
      /\ u[p].stk = <<>> /\ Bottom("unlink", <<>>) = "unlink" /\ Frames("unlink", <<>>) = {"unlink"}
  <2>1. Callers("unlink") = {}
    BY DEF Callers
  <2> QED  BY <1>1, <2>1, HereBase
<1>0. PICK t : t = <<"out">> \o <<>>
  OBVIOUS
<1>3. /\ r \in Locals /\ r = [u[p] EXCEPT !.pc = "iput", !.stk = t, !.err = TRUE, !.ip = u[p].ip]
      /\ r.pc = "iput" /\ r.stk = t
      /\ Chain("iput", t) /\ Bottom("iput", t) = "out" /\ t[1] = "out"
      /\ Frames("iput", t) \subseteq {"iput", "out"}
  <2>1. "iput" \in Label /\ "out" \in Label
    BY DEF Label
  <2>2. "out" \in Callers("iput") /\ Callers("out") = {}
    BY DEF Callers
  <2>3. /\ Chain("iput", t) /\ Bottom("iput", t) = "out" /\ t[1] = "out" /\ t \in Seq(Label)
        /\ Frames("iput", t) \subseteq {"iput", "out"}
    BY <1>0, <2>1, <2>2, CallBase
  <2>4. r = [u[p] EXCEPT !.pc = "iput", !.stk = t, !.err = TRUE, !.ip = u[p].ip]
    BY <1>0, <1>2 DEF Calling, Locals
  <2> HIDE DEF r
  <2> QED  BY <1>1, <1>2, <2>1, <2>3, <2>4 DEF Locals, Fits
<1> HIDE DEF r
<1>4. Fits(r)
  BY <1>1, <1>2, <1>3, SlotNotZero DEF Fits
<1>5. ~Alone(r) /\ ~Fresh(r)
  BY <1>3 DEF Alone, Fresh
<1>6. \A s \in Slots : Tally(r, file[p], s) <= Tally(u[p], file[p], s)
  BY <1>1, <1>2, <1>3, SlotNotZero DEF Tally
<1> QED  BY <1>1, <1>2, <1>3, <1>4, <1>5, <1>6, LocalStep DEF OnlyLocals

\* rmdir gets the inode while it holds the directory.
LEMMA DirRemoveRmdirStep ==
  ASSUME IInv, NEW p \in Procs, DirRemove(p), u[p].call = "rmdir"
  PROVE  IInv'
<1> DEFINE r == Calling([u[p] EXCEPT !.ino = Component(p)], "iget", <<"rmdir">>)
<1>1. /\ At(p, "dirloop") /\ Go(p, r) /\ cpu' \in {p, NoProc} /\ wchan' = wchan /\ OnlyLocals
      /\ Component(p) \in Inodes
  BY ComponentType DEF DirRemove, Fails, Goto, RunsOn, MaySleep, Put, Found
<1>2. /\ u[p] \in Locals /\ u[p].pc = "dirloop" /\ Fits(u[p]) /\ cpu \in {p, NoProc}
      /\ u[p].pc \in Label /\ u[p].stk \in Seq(Label) /\ Chain(u[p].pc, u[p].stk)
      /\ u[p].stk = <<>> /\ Bottom("dirloop", <<>>) = "dirloop" /\ Frames("dirloop", <<>>) = {"dirloop"}
  <2>1. Callers("dirloop") = {}
    BY DEF Callers
  <2> QED  BY <1>1, <2>1, HereBase
<1>0. PICK t : t = <<"rmdir">> \o <<>>
  OBVIOUS
<1>3. /\ r \in Locals /\ r = [u[p] EXCEPT !.pc = "iget", !.stk = t, !.ino = Component(p)]
      /\ r.pc = "iget" /\ r.stk = t
      /\ Chain("iget", t) /\ Bottom("iget", t) = "rmdir" /\ t[1] = "rmdir"
      /\ Frames("iget", t) \subseteq {"iget", "rmdir"}
  <2>1. "iget" \in Label /\ "rmdir" \in Label
    BY DEF Label
  <2>2. "rmdir" \in Callers("iget") /\ Callers("rmdir") = {}
    BY DEF Callers
  <2>3. /\ Chain("iget", t) /\ Bottom("iget", t) = "rmdir" /\ t[1] = "rmdir" /\ t \in Seq(Label)
        /\ Frames("iget", t) \subseteq {"iget", "rmdir"}
    BY <1>0, <2>1, <2>2, CallBase
  <2>4. r = [u[p] EXCEPT !.pc = "iget", !.stk = t, !.ino = Component(p)]
    BY <1>0, <1>2 DEF Calling, Locals
  <2> HIDE DEF r
  <2> QED  BY <1>1, <1>2, <2>1, <2>3, <2>4 DEF Locals, Fits
<1> HIDE DEF r
<1>4. Fits(r)
  BY <1>1, <1>2, <1>3, SlotNotZero DEF Fits
<1>5. ~Alone(r) /\ ~Fresh(r)
  BY <1>3 DEF Alone, Fresh
<1>6. \A s \in Slots : Tally(r, file[p], s) <= Tally(u[p], file[p], s)
  BY <1>1, <1>2, <1>3, SlotNotZero DEF Tally
<1> QED  BY <1>1, <1>2, <1>3, <1>4, <1>5, <1>6, LocalStep DEF OnlyLocals

\* rmdir did not get the inode.
LEMMA RmdirNoneStep ==
  ASSUME IInv, NEW p \in Procs, RmdirFails(p), u[p].ip = 0
  PROVE  IInv'
<1> DEFINE r == [u[p] EXCEPT !.err = TRUE, !.pc = "out"]
<1>1. /\ At(p, "rmdir") /\ Go(p, r) /\ cpu' \in {p, NoProc} /\ wchan' = wchan /\ OnlyLocals
  BY DEF RmdirFails, Fails, Goto, RunsOn, MaySleep, Put
<1>2. /\ u[p] \in Locals /\ u[p].pc = "rmdir" /\ Fits(u[p]) /\ cpu \in {p, NoProc}
      /\ u[p].pc \in Label /\ u[p].stk \in Seq(Label) /\ Chain(u[p].pc, u[p].stk)
      /\ u[p].stk = <<>> /\ Bottom("rmdir", <<>>) = "rmdir" /\ Frames("rmdir", <<>>) = {"rmdir"}
  <2>1. Callers("rmdir") = {}
    BY DEF Callers
  <2> QED  BY <1>1, <2>1, HereBase
<1>3. /\ r \in Locals /\ r = [u[p] EXCEPT !.err = TRUE, !.pc = "out"]
      /\ r.pc = "out" /\ r.stk = <<>>
      /\ Chain("out", <<>>) /\ Bottom("out", <<>>) = "out" /\ Frames("out", <<>>) = {"out"}
  <2>1. "out" \in Label
    BY DEF Label
  <2>2. Chain("out", <<>>) /\ Bottom("out", <<>>) = "out" /\ Frames("out", <<>>) = {"out"}
    BY BasePlace DEF Callers
  <2> QED  BY <1>1, <1>2, <2>1, <2>2 DEF Locals, Fits
<1> HIDE DEF r
<1>4. Fits(r)
  BY <1>1, <1>2, <1>3, SlotNotZero DEF Fits
<1>5. ~Alone(r) /\ ~Fresh(r)
  BY <1>3 DEF Alone, Fresh
<1>6. \A s \in Slots : Tally(r, file[p], s) <= Tally(u[p], file[p], s)
  BY <1>1, <1>2, <1>3, SlotNotZero DEF Tally
<1> QED  BY <1>1, <1>2, <1>3, <1>4, <1>5, <1>6, LocalStep DEF OnlyLocals

\* rmdir may not remove what it got.
LEMMA RmdirFailsStep ==
  ASSUME IInv, NEW p \in Procs, RmdirFails(p), u[p].ip # 0
  PROVE  IInv'
<1> DEFINE r == Calling([u[p] EXCEPT !.err = TRUE, !.ip = u[p].ip], "iput", <<"out">>)
<1>1. /\ At(p, "rmdir") /\ Go(p, r) /\ cpu' \in {p, NoProc} /\ wchan' = wchan /\ OnlyLocals
      /\ u[p].ip # 0
  BY DEF RmdirFails, Fails, Goto, RunsOn, MaySleep, Put
<1>2. /\ u[p] \in Locals /\ u[p].pc = "rmdir" /\ Fits(u[p]) /\ cpu \in {p, NoProc}
      /\ u[p].pc \in Label /\ u[p].stk \in Seq(Label) /\ Chain(u[p].pc, u[p].stk)
      /\ u[p].stk = <<>> /\ Bottom("rmdir", <<>>) = "rmdir" /\ Frames("rmdir", <<>>) = {"rmdir"}
  <2>1. Callers("rmdir") = {}
    BY DEF Callers
  <2> QED  BY <1>1, <2>1, HereBase
<1>0. PICK t : t = <<"out">> \o <<>>
  OBVIOUS
<1>3. /\ r \in Locals /\ r = [u[p] EXCEPT !.pc = "iput", !.stk = t, !.err = TRUE, !.ip = u[p].ip]
      /\ r.pc = "iput" /\ r.stk = t
      /\ Chain("iput", t) /\ Bottom("iput", t) = "out" /\ t[1] = "out"
      /\ Frames("iput", t) \subseteq {"iput", "out"}
  <2>1. "iput" \in Label /\ "out" \in Label
    BY DEF Label
  <2>2. "out" \in Callers("iput") /\ Callers("out") = {}
    BY DEF Callers
  <2>3. /\ Chain("iput", t) /\ Bottom("iput", t) = "out" /\ t[1] = "out" /\ t \in Seq(Label)
        /\ Frames("iput", t) \subseteq {"iput", "out"}
    BY <1>0, <2>1, <2>2, CallBase
  <2>4. r = [u[p] EXCEPT !.pc = "iput", !.stk = t, !.err = TRUE, !.ip = u[p].ip]
    BY <1>0, <1>2 DEF Calling, Locals
  <2> HIDE DEF r
  <2> QED  BY <1>1, <1>2, <2>1, <2>3, <2>4 DEF Locals, Fits
<1> HIDE DEF r
<1>4. Fits(r)
  BY <1>1, <1>2, <1>3, SlotNotZero DEF Fits
<1>5. ~Alone(r) /\ ~Fresh(r)
  BY <1>3 DEF Alone, Fresh
<1>6. \A s \in Slots : Tally(r, file[p], s) <= Tally(u[p], file[p], s)
  BY <1>1, <1>2, <1>3, SlotNotZero DEF Tally
<1> QED  BY <1>1, <1>2, <1>3, <1>4, <1>5, <1>6, LocalStep DEF OnlyLocals

\* A component could not be got.
LEMMA DescendedNoneStep ==
  ASSUME IInv, NEW p \in Procs, Descended(p), u[p].ip = 0
  PROVE  IInv'
<1> DEFINE r == [u[p] EXCEPT !.pc = "done"]
<1>1. /\ At(p, "descended") /\ Go(p, r) /\ cpu' \in {p, NoProc} /\ wchan' = wchan /\ OnlyLocals
  BY DEF Descended, Fails, Goto, RunsOn, MaySleep, Put
<1>2. /\ u[p] \in Locals /\ u[p].pc = "descended" /\ Fits(u[p]) /\ cpu \in {p, NoProc}
      /\ u[p].pc \in Label /\ u[p].stk \in Seq(Label) /\ Chain(u[p].pc, u[p].stk)
      /\ u[p].stk = <<>> /\ Bottom("descended", <<>>) = "descended" /\ Frames("descended", <<>>) = {"descended"}
  <2>1. Callers("descended") = {}
    BY DEF Callers
  <2> QED  BY <1>1, <2>1, HereBase
<1>3. /\ r \in Locals /\ r = [u[p] EXCEPT !.pc = "done"]
      /\ r.pc = "done" /\ r.stk = <<>>
      /\ Chain("done", <<>>) /\ Bottom("done", <<>>) = "done" /\ Frames("done", <<>>) = {"done"}
  <2>1. "done" \in Label
    BY DEF Label
  <2>2. Chain("done", <<>>) /\ Bottom("done", <<>>) = "done" /\ Frames("done", <<>>) = {"done"}
    BY BasePlace DEF Callers
  <2> QED  BY <1>1, <1>2, <2>1, <2>2 DEF Locals, Fits
<1> HIDE DEF r
<1>4. Fits(r)
  BY <1>1, <1>2, <1>3, SlotNotZero DEF Fits
<1>5. ~Alone(r) /\ ~Fresh(r)
  BY <1>3 DEF Alone, Fresh
<1>6. \A s \in Slots : Tally(r, file[p], s) <= Tally(u[p], file[p], s)
  BY <1>1, <1>2, <1>3, SlotNotZero DEF Tally
<1> QED  BY <1>1, <1>2, <1>3, <1>4, <1>5, <1>6, LocalStep DEF OnlyLocals

\* The last component has been got.
LEMMA DescendedLastStep ==
  ASSUME IInv, NEW p \in Procs, Descended(p), u[p].ip # 0, LastName(p)
  PROVE  IInv'
<1> DEFINE r == [u[p] EXCEPT !.pc = "named", !.dip = u[p].ip]
<1>1. /\ At(p, "descended") /\ Go(p, r) /\ cpu' \in {p, NoProc} /\ wchan' = wchan /\ OnlyLocals
      /\ u[p].ip # 0
  BY DEF Descended, Fails, Goto, RunsOn, MaySleep, Put
<1>2. /\ u[p] \in Locals /\ u[p].pc = "descended" /\ Fits(u[p]) /\ cpu \in {p, NoProc}
      /\ u[p].pc \in Label /\ u[p].stk \in Seq(Label) /\ Chain(u[p].pc, u[p].stk)
      /\ u[p].stk = <<>> /\ Bottom("descended", <<>>) = "descended" /\ Frames("descended", <<>>) = {"descended"}
  <2>1. Callers("descended") = {}
    BY DEF Callers
  <2> QED  BY <1>1, <2>1, HereBase
<1>3. /\ r \in Locals /\ r = [u[p] EXCEPT !.pc = "named", !.dip = u[p].ip]
      /\ r.pc = "named" /\ r.stk = <<>>
      /\ Chain("named", <<>>) /\ Bottom("named", <<>>) = "named" /\ Frames("named", <<>>) = {"named"}
  <2>1. "named" \in Label
    BY DEF Label
  <2>2. Chain("named", <<>>) /\ Bottom("named", <<>>) = "named" /\ Frames("named", <<>>) = {"named"}
    BY BasePlace DEF Callers
  <2> QED  BY <1>1, <1>2, <2>1, <2>2 DEF Locals, Fits
<1> HIDE DEF r
<1>4. Fits(r)
  BY <1>1, <1>2, <1>3, SlotNotZero DEF Fits
<1>5. ~Alone(r) /\ ~Fresh(r)
  BY <1>3 DEF Alone, Fresh
<1>6. \A s \in Slots : Tally(r, file[p], s) <= Tally(u[p], file[p], s)
  BY <1>1, <1>2, <1>3, SlotNotZero DEF Tally
<1> QED  BY <1>1, <1>2, <1>3, <1>4, <1>5, <1>6, LocalStep DEF OnlyLocals

\* open has the inode.
LEMMA NamedOpenStep == ASSUME IInv, NEW p \in Procs, NamedOpen(p) PROVE IInv'
<1> DEFINE r == [u[p] EXCEPT !.pc = "opened"]
<1>1. /\ At(p, "named") /\ Go(p, r) /\ cpu' \in {p, NoProc} /\ wchan' = wchan /\ OnlyLocals
  BY DEF NamedOpen, Fails, Goto, RunsOn, MaySleep, Put
<1>2. /\ u[p] \in Locals /\ u[p].pc = "named" /\ Fits(u[p]) /\ cpu \in {p, NoProc}
      /\ u[p].pc \in Label /\ u[p].stk \in Seq(Label) /\ Chain(u[p].pc, u[p].stk)
      /\ u[p].stk = <<>> /\ Bottom("named", <<>>) = "named" /\ Frames("named", <<>>) = {"named"}
  <2>1. Callers("named") = {}
    BY DEF Callers
  <2> QED  BY <1>1, <2>1, HereBase
<1>3. /\ r \in Locals /\ r = [u[p] EXCEPT !.pc = "opened"]
      /\ r.pc = "opened" /\ r.stk = <<>>
      /\ Chain("opened", <<>>) /\ Bottom("opened", <<>>) = "opened" /\ Frames("opened", <<>>) = {"opened"}
  <2>1. "opened" \in Label
    BY DEF Label
  <2>2. Chain("opened", <<>>) /\ Bottom("opened", <<>>) = "opened" /\ Frames("opened", <<>>) = {"opened"}
    BY BasePlace DEF Callers
  <2> QED  BY <1>1, <1>2, <2>1, <2>2 DEF Locals, Fits
<1> HIDE DEF r
<1>4. Fits(r)
  BY <1>1, <1>2, <1>3, SlotNotZero DEF Fits
<1>5. ~Alone(r) /\ ~Fresh(r)
  BY <1>3 DEF Alone, Fresh
<1>6. \A s \in Slots : Tally(r, file[p], s) <= Tally(u[p], file[p], s)
  BY <1>1, <1>2, <1>3, SlotNotZero DEF Tally
<1> QED  BY <1>1, <1>2, <1>3, <1>4, <1>5, <1>6, LocalStep DEF OnlyLocals

\* creat truncates the file that is there.
LEMMA NamedCreatStep == ASSUME IInv, NEW p \in Procs, NamedCreat(p) PROVE IInv'
<1> DEFINE r == Calling([u[p] EXCEPT !.ip = u[p].dip], "itrunc", <<"opened">>)
<1>1. /\ At(p, "named") /\ Go(p, r) /\ cpu' \in {p, NoProc} /\ wchan' = wchan /\ OnlyLocals
  BY DEF NamedCreat, Fails, Goto, RunsOn, MaySleep, Put
<1>2. /\ u[p] \in Locals /\ u[p].pc = "named" /\ Fits(u[p]) /\ cpu \in {p, NoProc}
      /\ u[p].pc \in Label /\ u[p].stk \in Seq(Label) /\ Chain(u[p].pc, u[p].stk)
      /\ u[p].stk = <<>> /\ Bottom("named", <<>>) = "named" /\ Frames("named", <<>>) = {"named"}
  <2>1. Callers("named") = {}
    BY DEF Callers
  <2> QED  BY <1>1, <2>1, HereBase
<1>0. PICK t : t = <<"opened">> \o <<>>
  OBVIOUS
<1>3. /\ r \in Locals /\ r = [u[p] EXCEPT !.pc = "itrunc", !.stk = t, !.ip = u[p].dip]
      /\ r.pc = "itrunc" /\ r.stk = t
      /\ Chain("itrunc", t) /\ Bottom("itrunc", t) = "opened" /\ t[1] = "opened"
      /\ Frames("itrunc", t) \subseteq {"itrunc", "opened"}
  <2>1. "itrunc" \in Label /\ "opened" \in Label
    BY DEF Label
  <2>2. "opened" \in Callers("itrunc") /\ Callers("opened") = {}
    BY DEF Callers
  <2>3. /\ Chain("itrunc", t) /\ Bottom("itrunc", t) = "opened" /\ t[1] = "opened" /\ t \in Seq(Label)
        /\ Frames("itrunc", t) \subseteq {"itrunc", "opened"}
    BY <1>0, <2>1, <2>2, CallBase
  <2>4. r = [u[p] EXCEPT !.pc = "itrunc", !.stk = t, !.ip = u[p].dip]
    BY <1>0, <1>2 DEF Calling, Locals
  <2> HIDE DEF r
  <2> QED  BY <1>1, <1>2, <2>1, <2>3, <2>4 DEF Locals, Fits
<1> HIDE DEF r
<1>4. Fits(r)
  BY <1>1, <1>2, <1>3, SlotNotZero DEF Fits
<1>5. ~Alone(r) /\ ~Fresh(r)
  BY <1>3 DEF Alone, Fresh
<1>6. \A s \in Slots : Tally(r, file[p], s) <= Tally(u[p], file[p], s)
  BY <1>1, <1>2, <1>3, SlotNotZero DEF Tally
<1> QED  BY <1>1, <1>2, <1>3, <1>4, <1>5, <1>6, LocalStep DEF OnlyLocals

\* What was found is not what the call wants.
LEMMA NamedFailsStep == ASSUME IInv, NEW p \in Procs, NamedFails(p) PROVE IInv'
<1> DEFINE r == Calling([u[p] EXCEPT !.err = TRUE, !.ip = u[p].dip], "iput", <<"done">>)
<1>1. /\ At(p, "named") /\ Go(p, r) /\ cpu' \in {p, NoProc} /\ wchan' = wchan /\ OnlyLocals
  BY DEF NamedFails, Fails, Goto, RunsOn, MaySleep, Put
<1>2. /\ u[p] \in Locals /\ u[p].pc = "named" /\ Fits(u[p]) /\ cpu \in {p, NoProc}
      /\ u[p].pc \in Label /\ u[p].stk \in Seq(Label) /\ Chain(u[p].pc, u[p].stk)
      /\ u[p].stk = <<>> /\ Bottom("named", <<>>) = "named" /\ Frames("named", <<>>) = {"named"}
  <2>1. Callers("named") = {}
    BY DEF Callers
  <2> QED  BY <1>1, <2>1, HereBase
<1>0. PICK t : t = <<"done">> \o <<>>
  OBVIOUS
<1>3. /\ r \in Locals /\ r = [u[p] EXCEPT !.pc = "iput", !.stk = t, !.err = TRUE, !.ip = u[p].dip]
      /\ r.pc = "iput" /\ r.stk = t
      /\ Chain("iput", t) /\ Bottom("iput", t) = "done" /\ t[1] = "done"
      /\ Frames("iput", t) \subseteq {"iput", "done"}
  <2>1. "iput" \in Label /\ "done" \in Label
    BY DEF Label
  <2>2. "done" \in Callers("iput") /\ Callers("done") = {}
    BY DEF Callers
  <2>3. /\ Chain("iput", t) /\ Bottom("iput", t) = "done" /\ t[1] = "done" /\ t \in Seq(Label)
        /\ Frames("iput", t) \subseteq {"iput", "done"}
    BY <1>0, <2>1, <2>2, CallBase
  <2>4. r = [u[p] EXCEPT !.pc = "iput", !.stk = t, !.err = TRUE, !.ip = u[p].dip]
    BY <1>0, <1>2 DEF Calling, Locals
  <2> HIDE DEF r
  <2> QED  BY <1>1, <1>2, <2>1, <2>3, <2>4 DEF Locals, Fits
<1> HIDE DEF r
<1>4. Fits(r)
  BY <1>1, <1>2, <1>3, SlotNotZero DEF Fits
<1>5. ~Alone(r) /\ ~Fresh(r)
  BY <1>3 DEF Alone, Fresh
<1>6. \A s \in Slots : Tally(r, file[p], s) <= Tally(u[p], file[p], s)
  BY <1>1, <1>2, <1>3, SlotNotZero DEF Tally
<1> QED  BY <1>1, <1>2, <1>3, <1>4, <1>5, <1>6, LocalStep DEF OnlyLocals

\* creat failed.
LEMMA MadeCreatFailsStep ==
  ASSUME IInv, NEW p \in Procs, MadeCreat(p), u[p].err
  PROVE  IInv'
<1> DEFINE r == Calling([u[p] EXCEPT !.ip = u[p].dip], "iput", <<"done">>)
<1>1. /\ At(p, "made") /\ Go(p, r) /\ cpu' \in {p, NoProc} /\ wchan' = wchan /\ OnlyLocals
  BY DEF MadeCreat, Fails, Goto, RunsOn, MaySleep, Put
<1>2. /\ u[p] \in Locals /\ u[p].pc = "made" /\ Fits(u[p]) /\ cpu \in {p, NoProc}
      /\ u[p].pc \in Label /\ u[p].stk \in Seq(Label) /\ Chain(u[p].pc, u[p].stk)
      /\ u[p].stk = <<>> /\ Bottom("made", <<>>) = "made" /\ Frames("made", <<>>) = {"made"}
  <2>1. Callers("made") = {}
    BY DEF Callers
  <2> QED  BY <1>1, <2>1, HereBase
<1>0. PICK t : t = <<"done">> \o <<>>
  OBVIOUS
<1>3. /\ r \in Locals /\ r = [u[p] EXCEPT !.pc = "iput", !.stk = t, !.ip = u[p].dip]
      /\ r.pc = "iput" /\ r.stk = t
      /\ Chain("iput", t) /\ Bottom("iput", t) = "done" /\ t[1] = "done"
      /\ Frames("iput", t) \subseteq {"iput", "done"}
  <2>1. "iput" \in Label /\ "done" \in Label
    BY DEF Label
  <2>2. "done" \in Callers("iput") /\ Callers("done") = {}
    BY DEF Callers
  <2>3. /\ Chain("iput", t) /\ Bottom("iput", t) = "done" /\ t[1] = "done" /\ t \in Seq(Label)
        /\ Frames("iput", t) \subseteq {"iput", "done"}
    BY <1>0, <2>1, <2>2, CallBase
  <2>4. r = [u[p] EXCEPT !.pc = "iput", !.stk = t, !.ip = u[p].dip]
    BY <1>0, <1>2 DEF Calling, Locals
  <2> HIDE DEF r
  <2> QED  BY <1>1, <1>2, <2>1, <2>3, <2>4 DEF Locals, Fits
<1> HIDE DEF r
<1>4. Fits(r)
  BY <1>1, <1>2, <1>3, SlotNotZero DEF Fits
<1>5. ~Alone(r) /\ ~Fresh(r)
  BY <1>3 DEF Alone, Fresh
<1>6. \A s \in Slots : Tally(r, file[p], s) <= Tally(u[p], file[p], s)
  BY <1>1, <1>2, <1>3, SlotNotZero DEF Tally
<1> QED  BY <1>1, <1>2, <1>3, <1>4, <1>5, <1>6, LocalStep DEF OnlyLocals

\* creat made the file.
LEMMA MadeCreatStep == ASSUME IInv, NEW p \in Procs, MadeCreat(p), ~u[p].err PROVE IInv'
<1> DEFINE r == [u[p] EXCEPT !.pc = "opened"]
<1>1. /\ At(p, "made") /\ Go(p, r) /\ cpu' \in {p, NoProc} /\ wchan' = wchan /\ OnlyLocals
  BY DEF MadeCreat, Fails, Goto, RunsOn, MaySleep, Put
<1>2. /\ u[p] \in Locals /\ u[p].pc = "made" /\ Fits(u[p]) /\ cpu \in {p, NoProc}
      /\ u[p].pc \in Label /\ u[p].stk \in Seq(Label) /\ Chain(u[p].pc, u[p].stk)
      /\ u[p].stk = <<>> /\ Bottom("made", <<>>) = "made" /\ Frames("made", <<>>) = {"made"}
  <2>1. Callers("made") = {}
    BY DEF Callers
  <2> QED  BY <1>1, <2>1, HereBase
<1>3. /\ r \in Locals /\ r = [u[p] EXCEPT !.pc = "opened"]
      /\ r.pc = "opened" /\ r.stk = <<>>
      /\ Chain("opened", <<>>) /\ Bottom("opened", <<>>) = "opened" /\ Frames("opened", <<>>) = {"opened"}
  <2>1. "opened" \in Label
    BY DEF Label
  <2>2. Chain("opened", <<>>) /\ Bottom("opened", <<>>) = "opened" /\ Frames("opened", <<>>) = {"opened"}
    BY BasePlace DEF Callers
  <2> QED  BY <1>1, <1>2, <2>1, <2>2 DEF Locals, Fits
<1> HIDE DEF r
<1>4. Fits(r)
  BY <1>1, <1>2, <1>3, SlotNotZero DEF Fits
<1>5. ~Alone(r) /\ ~Fresh(r)
  BY <1>3 DEF Alone, Fresh
<1>6. \A s \in Slots : Tally(r, file[p], s) <= Tally(u[p], file[p], s)
  BY <1>1, <1>2, <1>3, SlotNotZero DEF Tally
<1> QED  BY <1>1, <1>2, <1>3, <1>4, <1>5, <1>6, LocalStep DEF OnlyLocals

\* mknod failed.
LEMMA MadeMknodFailsStep ==
  ASSUME IInv, NEW p \in Procs, MadeMknod(p), u[p].err
  PROVE  IInv'
<1> DEFINE r == [u[p] EXCEPT !.pc = "done"]
<1>1. /\ At(p, "made") /\ Go(p, r) /\ cpu' \in {p, NoProc} /\ wchan' = wchan /\ OnlyLocals
  BY DEF MadeMknod, Fails, Goto, RunsOn, MaySleep, Put
<1>2. /\ u[p] \in Locals /\ u[p].pc = "made" /\ Fits(u[p]) /\ cpu \in {p, NoProc}
      /\ u[p].pc \in Label /\ u[p].stk \in Seq(Label) /\ Chain(u[p].pc, u[p].stk)
      /\ u[p].stk = <<>> /\ Bottom("made", <<>>) = "made" /\ Frames("made", <<>>) = {"made"}
  <2>1. Callers("made") = {}
    BY DEF Callers
  <2> QED  BY <1>1, <2>1, HereBase
<1>3. /\ r \in Locals /\ r = [u[p] EXCEPT !.pc = "done"]
      /\ r.pc = "done" /\ r.stk = <<>>
      /\ Chain("done", <<>>) /\ Bottom("done", <<>>) = "done" /\ Frames("done", <<>>) = {"done"}
  <2>1. "done" \in Label
    BY DEF Label
  <2>2. Chain("done", <<>>) /\ Bottom("done", <<>>) = "done" /\ Frames("done", <<>>) = {"done"}
    BY BasePlace DEF Callers
  <2> QED  BY <1>1, <1>2, <2>1, <2>2 DEF Locals, Fits
<1> HIDE DEF r
<1>4. Fits(r)
  BY <1>1, <1>2, <1>3, SlotNotZero DEF Fits
<1>5. ~Alone(r) /\ ~Fresh(r)
  BY <1>3 DEF Alone, Fresh
<1>6. \A s \in Slots : Tally(r, file[p], s) <= Tally(u[p], file[p], s)
  BY <1>1, <1>2, <1>3, SlotNotZero DEF Tally
<1> QED  BY <1>1, <1>2, <1>3, <1>4, <1>5, <1>6, LocalStep DEF OnlyLocals

\* mknod made the file.
LEMMA MadeMknodStep == ASSUME IInv, NEW p \in Procs, MadeMknod(p), ~u[p].err PROVE IInv'
<1> DEFINE r == Calling([u[p] EXCEPT !.ip = u[p].dip], "iput", <<"done">>)
<1>1. /\ At(p, "made") /\ Go(p, r) /\ cpu' \in {p, NoProc} /\ wchan' = wchan /\ OnlyLocals
  BY DEF MadeMknod, Fails, Goto, RunsOn, MaySleep, Put
<1>2. /\ u[p] \in Locals /\ u[p].pc = "made" /\ Fits(u[p]) /\ cpu \in {p, NoProc}
      /\ u[p].pc \in Label /\ u[p].stk \in Seq(Label) /\ Chain(u[p].pc, u[p].stk)
      /\ u[p].stk = <<>> /\ Bottom("made", <<>>) = "made" /\ Frames("made", <<>>) = {"made"}
  <2>1. Callers("made") = {}
    BY DEF Callers
  <2> QED  BY <1>1, <2>1, HereBase
<1>0. PICK t : t = <<"done">> \o <<>>
  OBVIOUS
<1>3. /\ r \in Locals /\ r = [u[p] EXCEPT !.pc = "iput", !.stk = t, !.ip = u[p].dip]
      /\ r.pc = "iput" /\ r.stk = t
      /\ Chain("iput", t) /\ Bottom("iput", t) = "done" /\ t[1] = "done"
      /\ Frames("iput", t) \subseteq {"iput", "done"}
  <2>1. "iput" \in Label /\ "done" \in Label
    BY DEF Label
  <2>2. "done" \in Callers("iput") /\ Callers("done") = {}
    BY DEF Callers
  <2>3. /\ Chain("iput", t) /\ Bottom("iput", t) = "done" /\ t[1] = "done" /\ t \in Seq(Label)
        /\ Frames("iput", t) \subseteq {"iput", "done"}
    BY <1>0, <2>1, <2>2, CallBase
  <2>4. r = [u[p] EXCEPT !.pc = "iput", !.stk = t, !.ip = u[p].dip]
    BY <1>0, <1>2 DEF Calling, Locals
  <2> HIDE DEF r
  <2> QED  BY <1>1, <1>2, <2>1, <2>3, <2>4 DEF Locals, Fits
<1> HIDE DEF r
<1>4. Fits(r)
  BY <1>1, <1>2, <1>3, SlotNotZero DEF Fits
<1>5. ~Alone(r) /\ ~Fresh(r)
  BY <1>3 DEF Alone, Fresh
<1>6. \A s \in Slots : Tally(r, file[p], s) <= Tally(u[p], file[p], s)
  BY <1>1, <1>2, <1>3, SlotNotZero DEF Tally
<1> QED  BY <1>1, <1>2, <1>3, <1>4, <1>5, <1>6, LocalStep DEF OnlyLocals

\* mkdir writes the inode.
LEMMA MadeMkdirStep == ASSUME IInv, NEW p \in Procs, MadeMkdir(p) PROVE IInv'
<1> DEFINE r == Calling([u[p] EXCEPT !.ip = u[p].dip, !.wait = TRUE], "iupdat", <<"dots">>)
<1>1. /\ At(p, "made") /\ Go(p, r) /\ cpu' \in {p, NoProc} /\ wchan' = wchan /\ OnlyLocals
  BY DEF MadeMkdir, Fails, Goto, RunsOn, MaySleep, Put
<1>2. /\ u[p] \in Locals /\ u[p].pc = "made" /\ Fits(u[p]) /\ cpu \in {p, NoProc}
      /\ u[p].pc \in Label /\ u[p].stk \in Seq(Label) /\ Chain(u[p].pc, u[p].stk)
      /\ u[p].stk = <<>> /\ Bottom("made", <<>>) = "made" /\ Frames("made", <<>>) = {"made"}
  <2>1. Callers("made") = {}
    BY DEF Callers
  <2> QED  BY <1>1, <2>1, HereBase
<1>0. PICK t : t = <<"dots">> \o <<>>
  OBVIOUS
<1>3. /\ r \in Locals /\ r = [u[p] EXCEPT !.pc = "iupdat", !.stk = t, !.ip = u[p].dip, !.wait = TRUE]
      /\ r.pc = "iupdat" /\ r.stk = t
      /\ Chain("iupdat", t) /\ Bottom("iupdat", t) = "dots" /\ t[1] = "dots"
      /\ Frames("iupdat", t) \subseteq {"iupdat", "dots"}
  <2>1. "iupdat" \in Label /\ "dots" \in Label
    BY DEF Label
  <2>2. "dots" \in Callers("iupdat") /\ Callers("dots") = {}
    BY DEF Callers
  <2>3. /\ Chain("iupdat", t) /\ Bottom("iupdat", t) = "dots" /\ t[1] = "dots" /\ t \in Seq(Label)
        /\ Frames("iupdat", t) \subseteq {"iupdat", "dots"}
    BY <1>0, <2>1, <2>2, CallBase
  <2>4. r = [u[p] EXCEPT !.pc = "iupdat", !.stk = t, !.ip = u[p].dip, !.wait = TRUE]
    BY <1>0, <1>2 DEF Calling, Locals
  <2> HIDE DEF r
  <2> QED  BY <1>1, <1>2, <2>1, <2>3, <2>4 DEF Locals, Fits
<1> HIDE DEF r
<1>4. Fits(r)
  BY <1>1, <1>2, <1>3, SlotNotZero DEF Fits
<1>5. ~Alone(r) /\ ~Fresh(r)
  BY <1>3 DEF Alone, Fresh
<1>6. \A s \in Slots : Tally(r, file[p], s) <= Tally(u[p], file[p], s)
  BY <1>1, <1>2, <1>3, SlotNotZero DEF Tally
<1> QED  BY <1>1, <1>2, <1>3, <1>4, <1>5, <1>6, LocalStep DEF OnlyLocals

\* mkdir writes the first entries.
LEMMA MkdirDotsStep == ASSUME IInv, NEW p \in Procs, MkdirDots(p) PROVE IInv'
<1> DEFINE r == [u[p] EXCEPT !.pc = "dotsWrite"]
<1>1. /\ At(p, "dots") /\ Go(p, r) /\ cpu' \in {p, NoProc} /\ wchan' = wchan /\ OnlyLocals
  BY DEF MkdirDots, Fails, Goto, RunsOn, MaySleep, Put
<1>2. /\ u[p] \in Locals /\ u[p].pc = "dots" /\ Fits(u[p]) /\ cpu \in {p, NoProc}
      /\ u[p].pc \in Label /\ u[p].stk \in Seq(Label) /\ Chain(u[p].pc, u[p].stk)
      /\ u[p].stk = <<>> /\ Bottom("dots", <<>>) = "dots" /\ Frames("dots", <<>>) = {"dots"}
  <2>1. Callers("dots") = {}
    BY DEF Callers
  <2> QED  BY <1>1, <2>1, HereBase
<1>3. /\ r \in Locals /\ r = [u[p] EXCEPT !.pc = "dotsWrite"]
      /\ r.pc = "dotsWrite" /\ r.stk = <<>>
      /\ Chain("dotsWrite", <<>>) /\ Bottom("dotsWrite", <<>>) = "dotsWrite" /\ Frames("dotsWrite", <<>>) = {"dotsWrite"}
  <2>1. "dotsWrite" \in Label
    BY DEF Label
  <2>2. Chain("dotsWrite", <<>>) /\ Bottom("dotsWrite", <<>>) = "dotsWrite" /\ Frames("dotsWrite", <<>>) = {"dotsWrite"}
    BY BasePlace DEF Callers
  <2> QED  BY <1>1, <1>2, <2>1, <2>2 DEF Locals, Fits
<1> HIDE DEF r
<1>4. Fits(r)
  BY <1>1, <1>2, <1>3, SlotNotZero DEF Fits
<1>5. ~Alone(r) /\ ~Fresh(r)
  BY <1>3 DEF Alone, Fresh
<1>6. \A s \in Slots : Tally(r, file[p], s) <= Tally(u[p], file[p], s)
  BY <1>1, <1>2, <1>3, SlotNotZero DEF Tally
<1> QED  BY <1>1, <1>2, <1>3, <1>4, <1>5, <1>6, LocalStep DEF OnlyLocals

\* There is no first end of the pipe.
LEMMA PipeFailsNoneStep ==
  ASSUME IInv, NEW p \in Procs, PipeFails(p), u[p].tgt = 0
  PROVE  IInv'
<1> DEFINE r == [u[p] EXCEPT !.pc = "done"]
<1>1. /\ At(p, "pipeFails") /\ Go(p, r) /\ cpu' \in {p, NoProc} /\ wchan' = wchan /\ OnlyLocals
  BY DEF PipeFails, Fails, Goto, RunsOn, MaySleep, Put
<1>2. /\ u[p] \in Locals /\ u[p].pc = "pipeFails" /\ Fits(u[p]) /\ cpu \in {p, NoProc}
      /\ u[p].pc \in Label /\ u[p].stk \in Seq(Label) /\ Chain(u[p].pc, u[p].stk)
      /\ u[p].stk = <<>> /\ Bottom("pipeFails", <<>>) = "pipeFails" /\ Frames("pipeFails", <<>>) = {"pipeFails"}
  <2>1. Callers("pipeFails") = {}
    BY DEF Callers
  <2> QED  BY <1>1, <2>1, HereBase
<1>3. /\ r \in Locals /\ r = [u[p] EXCEPT !.pc = "done"]
      /\ r.pc = "done" /\ r.stk = <<>>
      /\ Chain("done", <<>>) /\ Bottom("done", <<>>) = "done" /\ Frames("done", <<>>) = {"done"}
  <2>1. "done" \in Label
    BY DEF Label
  <2>2. Chain("done", <<>>) /\ Bottom("done", <<>>) = "done" /\ Frames("done", <<>>) = {"done"}
    BY BasePlace DEF Callers
  <2> QED  BY <1>1, <1>2, <2>1, <2>2 DEF Locals, Fits
<1> HIDE DEF r
<1>4. Fits(r)
  BY <1>1, <1>2, <1>3, SlotNotZero DEF Fits
<1>5. ~Alone(r) /\ ~Fresh(r)
  BY <1>3 DEF Alone, Fresh
<1>6. \A s \in Slots : Tally(r, file[p], s) <= Tally(u[p], file[p], s)
  BY <1>1, <1>2, <1>3, SlotNotZero DEF Tally
<1> QED  BY <1>1, <1>2, <1>3, <1>4, <1>5, <1>6, LocalStep DEF OnlyLocals

\* The first end of the pipe goes back.
LEMMA PipeFailsStep ==
  ASSUME IInv, NEW p \in Procs, PipeFails(p), u[p].tgt # 0
  PROVE  IInv'
<1> DEFINE r == Calling([u[p] EXCEPT !.tgt = 0, !.ip = u[p].tgt], "iput", <<"done">>)
<1>1. /\ At(p, "pipeFails") /\ Go(p, r) /\ cpu' \in {p, NoProc} /\ wchan' = wchan /\ OnlyLocals
      /\ u[p].tgt \in Slots
  BY PlacesInCore DEF PipeFails, Fails, Goto, RunsOn, MaySleep, Put
<1>2. /\ u[p] \in Locals /\ u[p].pc = "pipeFails" /\ Fits(u[p]) /\ cpu \in {p, NoProc}
      /\ u[p].pc \in Label /\ u[p].stk \in Seq(Label) /\ Chain(u[p].pc, u[p].stk)
      /\ u[p].stk = <<>> /\ Bottom("pipeFails", <<>>) = "pipeFails" /\ Frames("pipeFails", <<>>) = {"pipeFails"}
  <2>1. Callers("pipeFails") = {}
    BY DEF Callers
  <2> QED  BY <1>1, <2>1, HereBase
<1>0. PICK t : t = <<"done">> \o <<>>
  OBVIOUS
<1>3. /\ r \in Locals /\ r = [u[p] EXCEPT !.pc = "iput", !.stk = t, !.tgt = 0, !.ip = u[p].tgt]
      /\ r.pc = "iput" /\ r.stk = t
      /\ Chain("iput", t) /\ Bottom("iput", t) = "done" /\ t[1] = "done"
      /\ Frames("iput", t) \subseteq {"iput", "done"}
  <2>1. "iput" \in Label /\ "done" \in Label
    BY DEF Label
  <2>2. "done" \in Callers("iput") /\ Callers("done") = {}
    BY DEF Callers
  <2>3. /\ Chain("iput", t) /\ Bottom("iput", t) = "done" /\ t[1] = "done" /\ t \in Seq(Label)
        /\ Frames("iput", t) \subseteq {"iput", "done"}
    BY <1>0, <2>1, <2>2, CallBase
  <2>4. r = [u[p] EXCEPT !.pc = "iput", !.stk = t, !.tgt = 0, !.ip = u[p].tgt]
    BY <1>0, <1>2 DEF Calling, Locals
  <2> HIDE DEF r
  <2> QED  BY <1>1, <1>2, <2>1, <2>3, <2>4 DEF Locals, Fits
<1> HIDE DEF r
<1>4. Fits(r)
  BY <1>1, <1>2, <1>3, SlotNotZero DEF Fits
<1>5. ~Alone(r) /\ ~Fresh(r)
  BY <1>3 DEF Alone, Fresh
<1>6. \A s \in Slots : Tally(r, file[p], s) <= Tally(u[p], file[p], s)
  BY <1>1, <1>2, <1>3, SlotNotZero DEF Tally
<1> QED  BY <1>1, <1>2, <1>3, <1>4, <1>5, <1>6, LocalStep DEF OnlyLocals

\* The call is over.
LEMMA DoneStep == ASSUME IInv, NEW p \in Procs, Done(p) PROVE IInv'
<1>1. /\ At(p, "done") /\ Go(p, Idle) /\ cpu' \in {p, NoProc} /\ wchan' = wchan /\ OnlyLocals
  BY DEF Done, MaySleep
<1>2. cpu \in {p, NoProc}
  BY <1>1 DEF At
<1>3. /\ Idle \in Locals /\ Idle.pc = "user" /\ Idle.stk = <<>> /\ Idle.tgt = 0
      /\ Idle.call = "none" /\ Chain("user", <<>>) /\ Bottom("user", <<>>) = "user"
      /\ Frames("user", <<>>) = {"user"}
  BY IdleType, BasePlace DEF Callers
<1>4. Fits(Idle)
  BY <1>3 DEF Fits
<1>5. ~Alone(Idle) /\ ~Fresh(Idle)
  BY <1>3 DEF Alone, Fresh
<1>6. \A s \in Slots : Tally(Idle, file[p], s) <= Tally(u[p], file[p], s)
  BY <1>3, SlotNotZero DEF Tally
<1> QED  BY <1>1, <1>2, <1>3, <1>4, <1>5, <1>6, LocalStep DEF OnlyLocals

-----------------------------------------------------------------------------
(* The routines of the inode table                                         *)

\* The table is full.
LEMMA IgetFullStep ==
  ASSUME IInv, NEW p \in Procs, IgetFull(p), UNCHANGED sysVars
  PROVE  IInv'
<1> DEFINE r == Fails(Returning([u[p] EXCEPT !.ip = 0]))
<1>1. /\ At(p, "iget") /\ Go(p, r) /\ cpu' \in {p, NoProc} /\ wchan' = wchan /\ OnlyLocals
  BY DEF IgetFull, Goto, RunsOn, MaySleep, OnlyLocals
<1>2. /\ u[p] \in Locals /\ u[p].pc = "iget" /\ Fits(u[p]) /\ cpu \in {p, NoProc}
      /\ "iget" \in Label /\ u[p].stk \in Seq(Label) /\ Chain("iget", u[p].stk)
  BY <1>1, Here
<1>0. PICK h, t : h = Head(u[p].stk) /\ t = Tail(u[p].stk)
  OBVIOUS
<1>3. /\ r \in Locals /\ r = [u[p] EXCEPT !.pc = h, !.stk = t, !.ip = 0, !.err = TRUE]
      /\ r.pc = h /\ r.stk = t /\ h \in {"unlink", "rmdir", "descended", "iallocGot"} /\ h = u[p].stk[1]
      /\ Chain(h, t) /\ Bottom(h, t) = Bottom("iget", u[p].stk)
      /\ Frames(h, t) \subseteq Frames("iget", u[p].stk)
  <2>1. Callers("iget") = {"unlink", "rmdir", "descended", "iallocGot"}
    BY DEF Callers
  <2>2. /\ h \in {"unlink", "rmdir", "descended", "iallocGot"} /\ h \in Label /\ h = u[p].stk[1] /\ t \in Seq(Label)
        /\ Chain(h, t) /\ Bottom(h, t) = Bottom("iget", u[p].stk)
        /\ Frames(h, t) \subseteq Frames("iget", u[p].stk)
    BY <1>0, <1>2, <2>1, Return
  <2>3. r = [u[p] EXCEPT !.pc = h, !.stk = t, !.ip = 0, !.err = TRUE]
    BY <1>0, <1>2 DEF Returning, Fails, Locals
  <2> HIDE DEF r
  <2> QED  BY <1>1, <1>2, <2>2, <2>3 DEF Locals, Fits
<1> HIDE DEF r
<1>4. Fits(r)
  BY <1>1, <1>2, <1>3, SlotNotZero DEF Fits
<1>5. /\ Alone(r) => inode[r.ip].count = 1 /\ inode[r.ip].lock
      /\ Fresh(r) => cpu' = p /\ inode[r.ip].mode = "FREE"
  BY <1>3 DEF Alone, Fresh
<1>6. \A s \in Slots : Tally(r, file[p], s) <= Tally(u[p], file[p], s)
  BY <1>1, <1>2, <1>3, SlotNotZero DEF Tally
<1> QED  BY <1>1, <1>2, <1>3, <1>4, <1>5, <1>6, LocalStep DEF OnlyLocals

\* The inode cannot be read.
LEMMA IgetErrorStep ==
  ASSUME IInv, NEW p \in Procs, IgetError(p), UNCHANGED sysVars
  PROVE  IInv'
<1> DEFINE r == Fails(Calling(u[p], "iput", <<"igetNull">>))
<1>1. /\ At(p, "igetRead") /\ Go(p, r) /\ cpu' \in {p, NoProc} /\ wchan' = wchan /\ OnlyLocals
  BY DEF IgetError, Goto, RunsOn, MaySleep, OnlyLocals
<1>2. /\ u[p] \in Locals /\ u[p].pc = "igetRead" /\ Fits(u[p]) /\ cpu \in {p, NoProc}
      /\ "igetRead" \in Label /\ u[p].stk \in Seq(Label) /\ Chain("igetRead", u[p].stk)
  BY <1>1, Here
<1>0. PICK t : Pushed(t, "igetNull", u[p].stk)
  BY DEF Pushed
<1>3. /\ r \in Locals /\ r = [u[p] EXCEPT !.pc = "iput", !.stk = t, !.err = TRUE]
      /\ r.pc = "iput" /\ r.stk = t /\ t[1] = "igetNull"
      /\ Chain("iput", t) /\ Bottom("iput", t) = Bottom("igetRead", u[p].stk)
      /\ Frames("iput", t) \subseteq Frames("igetRead", u[p].stk) \cup {"iput", "igetNull"}
  <2>1. "iput" \in Label /\ "igetNull" \in Label
    BY DEF Label
  <2>2. "igetNull" \in Callers("iput") /\ Callers("igetNull") = Callers("igetRead") /\ Callers("igetRead") # {}
    BY DEF Callers
  <2>3. u[p].stk # <<>>
    BY <1>2, <2>2 DEF Chain
  <2>4. /\ Chain("iput", t) /\ Bottom("iput", t) = Bottom("igetRead", u[p].stk) /\ t[1] = "igetNull"
        /\ t \in Seq(Label) /\ Frames("iput", t) \subseteq Frames("igetRead", u[p].stk) \cup {"iput", "igetNull"}
    BY <1>0, <1>2, <2>1, <2>2, <2>3, CallNested
  <2>5. r = [u[p] EXCEPT !.pc = "iput", !.stk = t, !.err = TRUE]
    BY <1>0, <1>2 DEF Calling, Fails, Locals, Pushed
  <2> HIDE DEF r
  <2> QED  BY <1>1, <1>2, <2>1, <2>4, <2>5 DEF Locals, Fits
<1> HIDE DEF r
<1>4. Fits(r)
  BY <1>1, <1>2, <1>3, SlotNotZero DEF Fits
<1>5. /\ Alone(r) => inode[r.ip].count = 1 /\ inode[r.ip].lock
      /\ Fresh(r) => cpu' = p /\ inode[r.ip].mode = "FREE"
  BY <1>3 DEF Alone, Fresh
<1>6. \A s \in Slots : Tally(r, file[p], s) <= Tally(u[p], file[p], s)
  BY <1>1, <1>2, <1>3, SlotNotZero DEF Tally
<1> QED  BY <1>1, <1>2, <1>3, <1>4, <1>5, <1>6, LocalStep DEF OnlyLocals

\* iget has put the inode back.
LEMMA IgetNullStep ==
  ASSUME IInv, NEW p \in Procs, IgetNull(p), UNCHANGED sysVars
  PROVE  IInv'
<1> DEFINE r == Returning([u[p] EXCEPT !.ip = 0])
<1>1. /\ At(p, "igetNull") /\ Go(p, r) /\ cpu' \in {p, NoProc} /\ wchan' = wchan /\ OnlyLocals
  BY DEF IgetNull, Goto, RunsOn, MaySleep, OnlyLocals
<1>2. /\ u[p] \in Locals /\ u[p].pc = "igetNull" /\ Fits(u[p]) /\ cpu \in {p, NoProc}
      /\ "igetNull" \in Label /\ u[p].stk \in Seq(Label) /\ Chain("igetNull", u[p].stk)
  BY <1>1, Here
<1>0. PICK h, t : h = Head(u[p].stk) /\ t = Tail(u[p].stk)
  OBVIOUS
<1>3. /\ r \in Locals /\ r = [u[p] EXCEPT !.pc = h, !.stk = t, !.ip = 0]
      /\ r.pc = h /\ r.stk = t /\ h \in {"unlink", "rmdir", "descended", "iallocGot"} /\ h = u[p].stk[1]
      /\ Chain(h, t) /\ Bottom(h, t) = Bottom("igetNull", u[p].stk)
      /\ Frames(h, t) \subseteq Frames("igetNull", u[p].stk)
  <2>1. Callers("igetNull") = {"unlink", "rmdir", "descended", "iallocGot"}
    BY DEF Callers
  <2>2. /\ h \in {"unlink", "rmdir", "descended", "iallocGot"} /\ h \in Label /\ h = u[p].stk[1] /\ t \in Seq(Label)
        /\ Chain(h, t) /\ Bottom(h, t) = Bottom("igetNull", u[p].stk)
        /\ Frames(h, t) \subseteq Frames("igetNull", u[p].stk)
    BY <1>0, <1>2, <2>1, Return
  <2>3. r = [u[p] EXCEPT !.pc = h, !.stk = t, !.ip = 0]
    BY <1>0, <1>2 DEF Returning, Fails, Locals
  <2> HIDE DEF r
  <2> QED  BY <1>1, <1>2, <2>2, <2>3 DEF Locals, Fits
<1> HIDE DEF r
<1>4. Fits(r)
  <2>1. "igetNull" \in Frames("igetNull", u[p].stk)
    BY DEF Frames
  <2> QED  BY <2>1, <1>1, <1>2, <1>3, SlotNotZero DEF Fits
<1>5. /\ Alone(r) => inode[r.ip].count = 1 /\ inode[r.ip].lock
      /\ Fresh(r) => cpu' = p /\ inode[r.ip].mode = "FREE"
  BY <1>3 DEF Alone, Fresh
<1>6. \A s \in Slots : Tally(r, file[p], s) <= Tally(u[p], file[p], s)
  BY <1>1, <1>2, <1>3, SlotNotZero DEF Tally
<1> QED  BY <1>1, <1>2, <1>3, <1>4, <1>5, <1>6, LocalStep DEF OnlyLocals

\* The inode is not changed.
LEMMA IupdatCleanStep ==
  ASSUME IInv, NEW p \in Procs, IupdatClean(p), UNCHANGED sysVars
  PROVE  IInv'
<1> DEFINE r == Returning(u[p])
<1>1. /\ At(p, "iupdat") /\ Go(p, r) /\ cpu' \in {p, NoProc} /\ wchan' = wchan /\ OnlyLocals
  BY DEF IupdatClean, Goto, RunsOn, MaySleep, OnlyLocals
<1>2. /\ u[p] \in Locals /\ u[p].pc = "iupdat" /\ Fits(u[p]) /\ cpu \in {p, NoProc}
      /\ "iupdat" \in Label /\ u[p].stk \in Seq(Label) /\ Chain("iupdat", u[p].stk)
  BY <1>1, Here
<1>0. PICK h, t : h = Head(u[p].stk) /\ t = Tail(u[p].stk)
  OBVIOUS
<1>3. /\ r \in Locals /\ r = [u[p] EXCEPT !.pc = h, !.stk = t]
      /\ r.pc = h /\ r.stk = t /\ h \in {"enter", "linked", "dots", "iput", "iputDone"} /\ h = u[p].stk[1]
      /\ Chain(h, t) /\ Bottom(h, t) = Bottom("iupdat", u[p].stk)
      /\ Frames(h, t) \subseteq Frames("iupdat", u[p].stk)
  <2>1. Callers("iupdat") = {"enter", "linked", "dots", "iput", "iputDone"}
    BY DEF Callers
  <2>2. /\ h \in {"enter", "linked", "dots", "iput", "iputDone"} /\ h \in Label /\ h = u[p].stk[1] /\ t \in Seq(Label)
        /\ Chain(h, t) /\ Bottom(h, t) = Bottom("iupdat", u[p].stk)
        /\ Frames(h, t) \subseteq Frames("iupdat", u[p].stk)
    BY <1>0, <1>2, <2>1, Return
  <2>3. r = [u[p] EXCEPT !.pc = h, !.stk = t]
    BY <1>0, <1>2 DEF Returning, Fails, Locals
  <2> HIDE DEF r
  <2> QED  BY <1>1, <1>2, <2>2, <2>3 DEF Locals, Fits
<1> HIDE DEF r
<1>4. Fits(r)
  BY <1>1, <1>2, <1>3, SlotNotZero DEF Fits
<1>5. /\ Alone(r) => inode[r.ip].count = 1 /\ inode[r.ip].lock
      /\ Fresh(r) => cpu' = p /\ inode[r.ip].mode = "FREE"
  <2>1. Alone(u[p]) => inode[u[p].ip].count = 1 /\ inode[u[p].ip].lock
    BY DEF IInv, Placed
  <2> QED  BY <1>1, <1>2, <1>3, <2>1 DEF Alone, Fresh
<1>6. \A s \in Slots : Tally(r, file[p], s) <= Tally(u[p], file[p], s)
  BY <1>1, <1>2, <1>3, SlotNotZero DEF Tally
<1> QED  BY <1>1, <1>2, <1>3, <1>4, <1>5, <1>6, LocalStep DEF OnlyLocals

\* The inode cannot be written.
LEMMA IupdatErrorStep ==
  ASSUME IInv, NEW p \in Procs, IupdatError(p), UNCHANGED sysVars
  PROVE  IInv'
<1> DEFINE r == Fails(Returning(u[p]))
<1>1. /\ At(p, "iupdatRead") /\ Go(p, r) /\ cpu' \in {p, NoProc} /\ wchan' = wchan /\ OnlyLocals
  BY DEF IupdatError, Goto, RunsOn, MaySleep, OnlyLocals
<1>2. /\ u[p] \in Locals /\ u[p].pc = "iupdatRead" /\ Fits(u[p]) /\ cpu \in {p, NoProc}
      /\ "iupdatRead" \in Label /\ u[p].stk \in Seq(Label) /\ Chain("iupdatRead", u[p].stk)
  BY <1>1, Here
<1>0. PICK h, t : h = Head(u[p].stk) /\ t = Tail(u[p].stk)
  OBVIOUS
<1>3. /\ r \in Locals /\ r = [u[p] EXCEPT !.pc = h, !.stk = t, !.err = TRUE]
      /\ r.pc = h /\ r.stk = t /\ h \in {"enter", "linked", "dots", "iput", "iputDone"} /\ h = u[p].stk[1]
      /\ Chain(h, t) /\ Bottom(h, t) = Bottom("iupdatRead", u[p].stk)
      /\ Frames(h, t) \subseteq Frames("iupdatRead", u[p].stk)
  <2>1. Callers("iupdatRead") = {"enter", "linked", "dots", "iput", "iputDone"}
    BY DEF Callers
  <2>2. /\ h \in {"enter", "linked", "dots", "iput", "iputDone"} /\ h \in Label /\ h = u[p].stk[1] /\ t \in Seq(Label)
        /\ Chain(h, t) /\ Bottom(h, t) = Bottom("iupdatRead", u[p].stk)
        /\ Frames(h, t) \subseteq Frames("iupdatRead", u[p].stk)
    BY <1>0, <1>2, <2>1, Return
  <2>3. r = [u[p] EXCEPT !.pc = h, !.stk = t, !.err = TRUE]
    BY <1>0, <1>2 DEF Returning, Fails, Locals
  <2> HIDE DEF r
  <2> QED  BY <1>1, <1>2, <2>2, <2>3 DEF Locals, Fits
<1> HIDE DEF r
<1>4. Fits(r)
  BY <1>1, <1>2, <1>3, SlotNotZero DEF Fits
<1>5. /\ Alone(r) => inode[r.ip].count = 1 /\ inode[r.ip].lock
      /\ Fresh(r) => cpu' = p /\ inode[r.ip].mode = "FREE"
  <2>1. Alone(u[p]) => inode[u[p].ip].count = 1 /\ inode[u[p].ip].lock
    BY DEF IInv, Placed
  <2> QED  BY <1>1, <1>2, <1>3, <2>1 DEF Alone, Fresh
<1>6. \A s \in Slots : Tally(r, file[p], s) <= Tally(u[p], file[p], s)
  BY <1>1, <1>2, <1>3, SlotNotZero DEF Tally
<1> QED  BY <1>1, <1>2, <1>3, <1>4, <1>5, <1>6, LocalStep DEF OnlyLocals

\* There is nothing to truncate.
LEMMA ItruncSpecialStep ==
  ASSUME IInv, NEW p \in Procs, ItruncSpecial(p), UNCHANGED sysVars
  PROVE  IInv'
<1> DEFINE r == Returning(u[p])
<1>1. /\ At(p, "itrunc") /\ Go(p, r) /\ cpu' \in {p, NoProc} /\ wchan' = wchan /\ OnlyLocals
  BY DEF ItruncSpecial, Goto, RunsOn, MaySleep, OnlyLocals
<1>2. /\ u[p] \in Locals /\ u[p].pc = "itrunc" /\ Fits(u[p]) /\ cpu \in {p, NoProc}
      /\ "itrunc" \in Label /\ u[p].stk \in Seq(Label) /\ Chain("itrunc", u[p].stk)
  BY <1>1, Here
<1>0. PICK h, t : h = Head(u[p].stk) /\ t = Tail(u[p].stk)
  OBVIOUS
<1>3. /\ r \in Locals /\ r = [u[p] EXCEPT !.pc = h, !.stk = t]
      /\ r.pc = h /\ r.stk = t /\ h \in {"opened", "iputFree"} /\ h = u[p].stk[1]
      /\ Chain(h, t) /\ Bottom(h, t) = Bottom("itrunc", u[p].stk)
      /\ Frames(h, t) \subseteq Frames("itrunc", u[p].stk)
  <2>1. Callers("itrunc") = {"opened", "iputFree"}
    BY DEF Callers
  <2>2. /\ h \in {"opened", "iputFree"} /\ h \in Label /\ h = u[p].stk[1] /\ t \in Seq(Label)
        /\ Chain(h, t) /\ Bottom(h, t) = Bottom("itrunc", u[p].stk)
        /\ Frames(h, t) \subseteq Frames("itrunc", u[p].stk)
    BY <1>0, <1>2, <2>1, Return
  <2>3. r = [u[p] EXCEPT !.pc = h, !.stk = t]
    BY <1>0, <1>2 DEF Returning, Fails, Locals
  <2> HIDE DEF r
  <2> QED  BY <1>1, <1>2, <2>2, <2>3 DEF Locals, Fits
<1> HIDE DEF r
<1>4. Fits(r)
  BY <1>1, <1>2, <1>3, SlotNotZero DEF Fits
<1>5. /\ Alone(r) => inode[r.ip].count = 1 /\ inode[r.ip].lock
      /\ Fresh(r) => cpu' = p /\ inode[r.ip].mode = "FREE"
  <2>1. Alone(u[p]) => inode[u[p].ip].count = 1 /\ inode[u[p].ip].lock
    BY DEF IInv, Placed
  <2> QED  BY <1>1, <1>2, <1>3, <2>1 DEF Alone, Fresh
<1>6. \A s \in Slots : Tally(r, file[p], s) <= Tally(u[p], file[p], s)
  BY <1>1, <1>2, <1>3, SlotNotZero DEF Tally
<1> QED  BY <1>1, <1>2, <1>3, <1>4, <1>5, <1>6, LocalStep DEF OnlyLocals

\* The inode cannot be written before its blocks go.
LEMMA ItruncErrorStep ==
  ASSUME IInv, NEW p \in Procs, ItruncError(p), UNCHANGED sysVars
  PROVE  IInv'
<1> DEFINE r == [u[p] EXCEPT !.pc = "itruncFree", !.err = TRUE]
<1>1. /\ At(p, "itruncRead") /\ Go(p, r) /\ cpu' \in {p, NoProc} /\ wchan' = wchan /\ OnlyLocals
  BY DEF ItruncError, Goto, RunsOn, MaySleep, OnlyLocals, Fails
<1>2. /\ u[p] \in Locals /\ u[p].pc = "itruncRead" /\ Fits(u[p]) /\ cpu \in {p, NoProc}
      /\ "itruncRead" \in Label /\ u[p].stk \in Seq(Label) /\ Chain("itruncRead", u[p].stk)
  BY <1>1, Here
<1>3. /\ r \in Locals /\ r = [u[p] EXCEPT !.pc = "itruncFree", !.err = TRUE]
      /\ r.pc = "itruncFree" /\ r.stk = u[p].stk
      /\ Chain("itruncFree", u[p].stk) /\ Bottom("itruncFree", u[p].stk) = Bottom("itruncRead", u[p].stk)
      /\ Frames("itruncFree", u[p].stk) \subseteq Frames("itruncRead", u[p].stk) \cup {"itruncFree"}
  <2>1. "itruncFree" \in Label
    BY DEF Label
  <2>2. Callers("itruncFree") = Callers("itruncRead") /\ Callers("itruncRead") # {}
    BY DEF Callers
  <2>3. u[p].stk # <<>>
    BY <1>2, <2>2 DEF Chain
  <2>4. /\ Chain("itruncFree", u[p].stk) /\ Bottom("itruncFree", u[p].stk) = Bottom("itruncRead", u[p].stk)
        /\ Frames("itruncFree", u[p].stk) \subseteq Frames("itruncRead", u[p].stk) \cup {"itruncFree"}
    BY <1>2, <2>1, <2>2, <2>3, Jump
  <2> QED  BY <1>1, <1>2, <2>1, <2>4 DEF Locals, Fits
<1> HIDE DEF r
<1>4. Fits(r)
  BY <1>1, <1>2, <1>3, SlotNotZero DEF Fits
<1>5. /\ Alone(r) => inode[r.ip].count = 1 /\ inode[r.ip].lock
      /\ Fresh(r) => cpu' = p /\ inode[r.ip].mode = "FREE"
  <2>1. Alone(u[p]) => inode[u[p].ip].count = 1 /\ inode[u[p].ip].lock
    BY DEF IInv, Placed
  <2> QED  BY <1>1, <1>2, <1>3, <2>1 DEF Alone, Fresh
<1>6. \A s \in Slots : Tally(r, file[p], s) <= Tally(u[p], file[p], s)
  BY <1>1, <1>2, <1>3, SlotNotZero DEF Tally
<1> QED  BY <1>1, <1>2, <1>3, <1>4, <1>5, <1>6, LocalStep DEF OnlyLocals

\* The inode was allocated after all.
LEMMA IallocTakenStep ==
  ASSUME IInv, NEW p \in Procs, IallocTaken(p), UNCHANGED sysVars
  PROVE  IInv'
<1> DEFINE r == Calling(u[p], "iput", <<"iallocLoop">>)
<1>1. /\ At(p, "iallocGot") /\ Go(p, r) /\ cpu' \in {p, NoProc} /\ wchan' = wchan /\ OnlyLocals
      /\ u[p].ip # 0
  BY DEF IallocTaken, Goto, RunsOn, MaySleep, OnlyLocals
<1>2. /\ u[p] \in Locals /\ u[p].pc = "iallocGot" /\ Fits(u[p]) /\ cpu \in {p, NoProc}
      /\ "iallocGot" \in Label /\ u[p].stk \in Seq(Label) /\ Chain("iallocGot", u[p].stk)
  BY <1>1, Here
<1>0. PICK t : Pushed(t, "iallocLoop", u[p].stk)
  BY DEF Pushed
<1>3. /\ r \in Locals /\ r = [u[p] EXCEPT !.pc = "iput", !.stk = t]
      /\ r.pc = "iput" /\ r.stk = t /\ t[1] = "iallocLoop"
      /\ Chain("iput", t) /\ Bottom("iput", t) = Bottom("iallocGot", u[p].stk)
      /\ Frames("iput", t) \subseteq Frames("iallocGot", u[p].stk) \cup {"iput", "iallocLoop"}
  <2>1. "iput" \in Label /\ "iallocLoop" \in Label
    BY DEF Label
  <2>2. "iallocLoop" \in Callers("iput") /\ Callers("iallocLoop") = Callers("iallocGot") /\ Callers("iallocGot") # {}
    BY DEF Callers
  <2>3. u[p].stk # <<>>
    BY <1>2, <2>2 DEF Chain
  <2>4. /\ Chain("iput", t) /\ Bottom("iput", t) = Bottom("iallocGot", u[p].stk) /\ t[1] = "iallocLoop"
        /\ t \in Seq(Label) /\ Frames("iput", t) \subseteq Frames("iallocGot", u[p].stk) \cup {"iput", "iallocLoop"}
    BY <1>0, <1>2, <2>1, <2>2, <2>3, CallNested
  <2>5. r = [u[p] EXCEPT !.pc = "iput", !.stk = t]
    BY <1>0, <1>2 DEF Calling, Fails, Locals, Pushed
  <2> HIDE DEF r
  <2> QED  BY <1>1, <1>2, <2>1, <2>4, <2>5 DEF Locals, Fits
<1> HIDE DEF r
<1>4. Fits(r)
  BY <1>1, <1>2, <1>3, SlotNotZero DEF Fits
<1>5. /\ Alone(r) => inode[r.ip].count = 1 /\ inode[r.ip].lock
      /\ Fresh(r) => cpu' = p /\ inode[r.ip].mode = "FREE"
  BY <1>3 DEF Alone, Fresh
<1>6. \A s \in Slots : Tally(r, file[p], s) <= Tally(u[p], file[p], s)
  BY <1>1, <1>2, <1>3, SlotNotZero DEF Tally
<1> QED  BY <1>1, <1>2, <1>3, <1>4, <1>5, <1>6, LocalStep DEF OnlyLocals

\* ialloc has found an inode.
LEMMA IallocGotStep ==
  ASSUME IInv, NEW p \in Procs, IallocGot(p), UNCHANGED sysVars
  PROVE  IInv'
<1> DEFINE r == Returning(u[p])
<1>1. /\ At(p, "iallocGot") /\ Go(p, r) /\ cpu' \in {p, NoProc} /\ wchan' = wchan /\ OnlyLocals
      /\ cpu' = p /\ (u[p].ip # 0 => inode[u[p].ip].mode = "FREE")
  BY DEF IallocGot, Goto, RunsOn, MaySleep, OnlyLocals
<1>2. /\ u[p] \in Locals /\ u[p].pc = "iallocGot" /\ Fits(u[p]) /\ cpu \in {p, NoProc}
      /\ "iallocGot" \in Label /\ u[p].stk \in Seq(Label) /\ Chain("iallocGot", u[p].stk)
  BY <1>1, Here
<1>0. PICK h, t : h = Head(u[p].stk) /\ t = Tail(u[p].stk)
  OBVIOUS
<1>3. /\ r \in Locals /\ r = [u[p] EXCEPT !.pc = h, !.stk = t]
      /\ r.pc = h /\ r.stk = t /\ h \in {"created", "pipend"} /\ h = u[p].stk[1]
      /\ Chain(h, t) /\ Bottom(h, t) = Bottom("iallocGot", u[p].stk)
      /\ Frames(h, t) \subseteq Frames("iallocGot", u[p].stk)
  <2>1. Callers("iallocGot") = {"created", "pipend"}
    BY DEF Callers
  <2>2. /\ h \in {"created", "pipend"} /\ h \in Label /\ h = u[p].stk[1] /\ t \in Seq(Label)
        /\ Chain(h, t) /\ Bottom(h, t) = Bottom("iallocGot", u[p].stk)
        /\ Frames(h, t) \subseteq Frames("iallocGot", u[p].stk)
    BY <1>0, <1>2, <2>1, Return
  <2>3. r = [u[p] EXCEPT !.pc = h, !.stk = t]
    BY <1>0, <1>2 DEF Returning, Fails, Locals
  <2> HIDE DEF r
  <2> QED  BY <1>1, <1>2, <2>2, <2>3 DEF Locals, Fits
<1> HIDE DEF r
<1>4. Fits(r)
  BY <1>1, <1>2, <1>3, SlotNotZero DEF Fits
<1>5. /\ Alone(r) => inode[r.ip].count = 1 /\ inode[r.ip].lock
      /\ Fresh(r) => cpu' = p /\ inode[r.ip].mode = "FREE"
  BY <1>1, <1>3 DEF Alone, Fresh
<1>6. \A s \in Slots : Tally(r, file[p], s) <= Tally(u[p], file[p], s)
  BY <1>1, <1>2, <1>3, SlotNotZero DEF Tally
<1> QED  BY <1>1, <1>2, <1>3, <1>4, <1>5, <1>6, LocalStep DEF OnlyLocals

\* The inode has been read.
LEMMA IgetReadStep ==
  ASSUME IInv, NEW p \in Procs, IgetRead(p), UNCHANGED sysVars
  PROVE  IInv'
<1> DEFINE r == Returning(u[p])
<1>1. /\ At(p, "igetRead") /\ Go(p, r) /\ cpu' \in {p, NoProc} /\ wchan' = wchan
      /\ inode' = [inode EXCEPT ![u[p].ip].mode = dino[inode[u[p].ip].num].mode,
                                 ![u[p].ip].nlink = dino[inode[u[p].ip].num].nlink]
      /\ UNCHANGED <<freel, volVars, sysVars>>
  BY DEF IgetRead, Goto, RunsOn, MaySleep, OnlyLocals
<1>2. /\ u[p] \in Locals /\ u[p].pc = "igetRead" /\ Fits(u[p]) /\ cpu \in {p, NoProc}
      /\ "igetRead" \in Label /\ u[p].stk \in Seq(Label) /\ Chain("igetRead", u[p].stk)
  BY <1>1, Here
<1>0. PICK h, t : h = Head(u[p].stk) /\ t = Tail(u[p].stk)
  OBVIOUS
<1>3. /\ r \in Locals /\ r = [u[p] EXCEPT !.pc = h, !.stk = t]
      /\ r.pc = h /\ r.stk = t /\ h \in {"unlink", "rmdir", "descended", "iallocGot"} /\ h = u[p].stk[1]
      /\ Chain(h, t) /\ Bottom(h, t) = Bottom("igetRead", u[p].stk)
      /\ Frames(h, t) \subseteq Frames("igetRead", u[p].stk)
  <2>1. Callers("igetRead") = {"unlink", "rmdir", "descended", "iallocGot"}
    BY DEF Callers
  <2>2. /\ h \in {"unlink", "rmdir", "descended", "iallocGot"} /\ h \in Label /\ h = u[p].stk[1] /\ t \in Seq(Label)
        /\ Chain(h, t) /\ Bottom(h, t) = Bottom("igetRead", u[p].stk)
        /\ Frames(h, t) \subseteq Frames("igetRead", u[p].stk)
    BY <1>0, <1>2, <2>1, Return
  <2>3. r = [u[p] EXCEPT !.pc = h, !.stk = t]
    BY <1>0, <1>2 DEF Returning, Fails, Locals
  <2> HIDE DEF r
  <2> QED  BY <1>1, <1>2, <2>2, <2>3 DEF Locals, Fits
<1> HIDE DEF r
<1>4. Fits(r)
  BY <1>1, <1>2, <1>3, SlotNotZero DEF Fits
<1>5. /\ Alone(r) => inode[r.ip].count = 1 /\ inode[r.ip].lock
      /\ Fresh(r) => cpu' = p /\ inode'[r.ip].mode = "FREE"
  BY <1>3 DEF Alone, Fresh
<1>6. \A s \in Slots : Tally(r, file[p], s) <= Tally(u[p], file[p], s)
  BY <1>1, <1>2, <1>3, SlotNotZero DEF Tally
<1>7. TypeOK'
  <2>1. u[p].ip \in Slots /\ inode[u[p].ip] \in InodeRec /\ inode[u[p].ip].num \in Inodes
    BY <1>2, PlacesInCore DEF IInv, TypeOK, InodeRec
  <2>2. dino[inode[u[p].ip].num] \in Dinode
    BY <2>1 DEF IInv, TypeOK
  <2>3. inode' \in [Slots -> InodeRec]
    BY <1>1, <2>1, <2>2 DEF IInv, TypeOK, InodeRec, Dinode, Mode
  <2> QED  BY <1>1, <1>3, <2>1, <2>2, <2>3 DEF IInv, TypeOK, Go, volVars, fsVars, sysVars, InodeRec
<1>8. /\ Changes(p, r, file[p]) /\ freel' = freel
      /\ \A s \in Slots : /\ inode'[s].num = inode[s].num
                          /\ inode'[s].count = inode[s].count
                          /\ inode'[s].lock = inode[s].lock
  BY <1>1 DEF IInv, TypeOK, Changes, Go, sysVars
<1> QED  BY <1>2, <1>4, <1>5, <1>6, <1>7, <1>8, QuietStep

\* An inode without links is freed.
LEMMA IputFreeStep ==
  ASSUME IInv, NEW p \in Procs, IputFree(p), UNCHANGED sysVars
  PROVE  IInv'
<1> DEFINE r == Calling(u[p], "iupdat", <<"iputDone">>)
<1>1. /\ At(p, "iputFree") /\ Go(p, r) /\ cpu' \in {p, NoProc} /\ wchan' = wchan
      /\ inode' = [inode EXCEPT ![u[p].ip].mode = "FREE", ![u[p].ip].upd = TRUE]
      /\ Ifree(inode[u[p].ip].num) /\ UNCHANGED <<freel, dino, dir, sysVars>>
  BY DEF IputFree, Goto, RunsOn, MaySleep, OnlyLocals
<1>2. /\ u[p] \in Locals /\ u[p].pc = "iputFree" /\ Fits(u[p]) /\ cpu \in {p, NoProc}
      /\ "iputFree" \in Label /\ u[p].stk \in Seq(Label) /\ Chain("iputFree", u[p].stk)
  BY <1>1, Here
<1>0. PICK t : Pushed(t, "iputDone", u[p].stk)
  BY DEF Pushed
<1>3. /\ r \in Locals /\ r = [u[p] EXCEPT !.pc = "iupdat", !.stk = t]
      /\ r.pc = "iupdat" /\ r.stk = t /\ t[1] = "iputDone"
      /\ Chain("iupdat", t) /\ Bottom("iupdat", t) = Bottom("iputFree", u[p].stk)
      /\ Frames("iupdat", t) \subseteq Frames("iputFree", u[p].stk) \cup {"iupdat", "iputDone"}
  <2>1. "iupdat" \in Label /\ "iputDone" \in Label
    BY DEF Label
  <2>2. "iputDone" \in Callers("iupdat") /\ Callers("iputDone") = Callers("iputFree") /\ Callers("iputFree") # {}
    BY DEF Callers
  <2>3. u[p].stk # <<>>
    BY <1>2, <2>2 DEF Chain
  <2>4. /\ Chain("iupdat", t) /\ Bottom("iupdat", t) = Bottom("iputFree", u[p].stk) /\ t[1] = "iputDone"
        /\ t \in Seq(Label) /\ Frames("iupdat", t) \subseteq Frames("iputFree", u[p].stk) \cup {"iupdat", "iputDone"}
    BY <1>0, <1>2, <2>1, <2>2, <2>3, CallNested
  <2>5. r = [u[p] EXCEPT !.pc = "iupdat", !.stk = t]
    BY <1>0, <1>2 DEF Calling, Fails, Locals, Pushed
  <2> HIDE DEF r
  <2> QED  BY <1>1, <1>2, <2>1, <2>4, <2>5 DEF Locals, Fits
<1> HIDE DEF r
<1>4. Fits(r)
  BY <1>1, <1>2, <1>3, SlotNotZero DEF Fits
<1>5. /\ Alone(r) => inode[r.ip].count = 1 /\ inode[r.ip].lock
      /\ Fresh(r) => cpu' = p /\ inode'[r.ip].mode = "FREE"
  <2>1. Alone(u[p]) => inode[u[p].ip].count = 1 /\ inode[u[p].ip].lock
    BY DEF IInv, Placed
  <2> QED  BY <1>1, <1>2, <1>3, <2>1 DEF Alone, Fresh
<1>6. \A s \in Slots : Tally(r, file[p], s) <= Tally(u[p], file[p], s)
  BY <1>1, <1>2, <1>3, SlotNotZero DEF Tally
<1>7. TypeOK'
  <2>1. u[p].ip \in Slots /\ inode[u[p].ip] \in InodeRec /\ inode[u[p].ip].num \in Inodes
    BY <1>2, PlacesInCore DEF IInv, TypeOK, InodeRec
  <2>2. inode' \in [Slots -> InodeRec]
    BY <1>1, <2>1 DEF IInv, TypeOK, InodeRec, Dinode, Mode
  <2>3. sinode' \in Seq(Inodes) /\ nbehind' \in Nat /\ silock' = silock /\ lasti' = lasti
    BY <1>1, <2>1, IfreeType DEF IInv, TypeOK
  <2> QED  BY <1>1, <1>3, <2>1, <2>2, <2>3 DEF IInv, TypeOK, Go, volVars, fsVars, sysVars, InodeRec
<1>8. /\ Changes(p, r, file[p]) /\ freel' = freel
      /\ \A s \in Slots : /\ inode'[s].num = inode[s].num
                          /\ inode'[s].count = inode[s].count
                          /\ inode'[s].lock = inode[s].lock
  BY <1>1 DEF IInv, TypeOK, Changes, Go, sysVars
<1> QED  BY <1>2, <1>4, <1>5, <1>6, <1>7, <1>8, QuietStep

\* iupdat reads the block of the inode.
LEMMA IupdatStep ==
  ASSUME IInv, NEW p \in Procs, Iupdat(p), UNCHANGED sysVars
  PROVE  IInv'
<1> DEFINE r == [u[p] EXCEPT !.pc = "iupdatRead"]
<1>1. /\ At(p, "iupdat") /\ Go(p, r) /\ cpu' \in {p, NoProc} /\ wchan' = wchan
      /\ sinode' = Checked(sinode) /\ UNCHANGED <<inode, freel, dino, dir, silock, lasti, nbehind, sysVars>>
  BY DEF Iupdat, Goto, RunsOn, MaySleep, OnlyLocals
<1>2. /\ u[p] \in Locals /\ u[p].pc = "iupdat" /\ Fits(u[p]) /\ cpu \in {p, NoProc}
      /\ "iupdat" \in Label /\ u[p].stk \in Seq(Label) /\ Chain("iupdat", u[p].stk)
  BY <1>1, Here
<1>3. /\ r \in Locals /\ r = [u[p] EXCEPT !.pc = "iupdatRead"]
      /\ r.pc = "iupdatRead" /\ r.stk = u[p].stk
      /\ Chain("iupdatRead", u[p].stk) /\ Bottom("iupdatRead", u[p].stk) = Bottom("iupdat", u[p].stk)
      /\ Frames("iupdatRead", u[p].stk) \subseteq Frames("iupdat", u[p].stk) \cup {"iupdatRead"}
  <2>1. "iupdatRead" \in Label
    BY DEF Label
  <2>2. Callers("iupdatRead") = Callers("iupdat") /\ Callers("iupdat") # {}
    BY DEF Callers
  <2>3. u[p].stk # <<>>
    BY <1>2, <2>2 DEF Chain
  <2>4. /\ Chain("iupdatRead", u[p].stk) /\ Bottom("iupdatRead", u[p].stk) = Bottom("iupdat", u[p].stk)
        /\ Frames("iupdatRead", u[p].stk) \subseteq Frames("iupdat", u[p].stk) \cup {"iupdatRead"}
    BY <1>2, <2>1, <2>2, <2>3, Jump
  <2> QED  BY <1>1, <1>2, <2>1, <2>4 DEF Locals, Fits
<1> HIDE DEF r
<1>4. Fits(r)
  BY <1>1, <1>2, <1>3, SlotNotZero DEF Fits
<1>5. /\ Alone(r) => inode[r.ip].count = 1 /\ inode[r.ip].lock
      /\ Fresh(r) => cpu' = p /\ inode'[r.ip].mode = "FREE"
  <2>1. Alone(u[p]) => inode[u[p].ip].count = 1 /\ inode[u[p].ip].lock
    BY DEF IInv, Placed
  <2> QED  BY <1>1, <1>2, <1>3, <2>1 DEF Alone, Fresh
<1>6. \A s \in Slots : Tally(r, file[p], s) <= Tally(u[p], file[p], s)
  BY <1>1, <1>2, <1>3, SlotNotZero DEF Tally
<1>7. TypeOK'
  <2>1. sinode' \in Seq(Inodes)
    BY <1>1, FreeList DEF IInv, TypeOK
  <2> QED  BY <1>1, <1>3, <2>1 DEF IInv, TypeOK, Go, volVars, fsVars, sysVars, InodeRec
<1>8. /\ Changes(p, r, file[p]) /\ freel' = freel
      /\ \A s \in Slots : /\ inode'[s].num = inode[s].num
                          /\ inode'[s].count = inode[s].count
                          /\ inode'[s].lock = inode[s].lock
  BY <1>1 DEF IInv, TypeOK, Changes, Go, sysVars
<1> QED  BY <1>2, <1>4, <1>5, <1>6, <1>7, <1>8, QuietStep

\* The inode is written.
LEMMA IupdatWriteStep ==
  ASSUME IInv, NEW p \in Procs, IupdatWrite(p), UNCHANGED sysVars
  PROVE  IInv'
<1> DEFINE r == Returning(u[p])
<1>1. /\ At(p, "iupdatRead") /\ Go(p, r) /\ cpu' \in {p, NoProc} /\ wchan' = wchan
      /\ dino' = [dino EXCEPT ![inode[u[p].ip].num] =
                    [mode |-> inode[u[p].ip].mode, nlink |-> inode[u[p].ip].nlink]]
      /\ inode' = [inode EXCEPT ![u[p].ip].upd = FALSE]
      /\ UNCHANGED <<freel, dir, fsVars, sysVars>>
  BY DEF IupdatWrite, Goto, RunsOn, MaySleep, OnlyLocals
<1>2. /\ u[p] \in Locals /\ u[p].pc = "iupdatRead" /\ Fits(u[p]) /\ cpu \in {p, NoProc}
      /\ "iupdatRead" \in Label /\ u[p].stk \in Seq(Label) /\ Chain("iupdatRead", u[p].stk)
  BY <1>1, Here
<1>0. PICK h, t : h = Head(u[p].stk) /\ t = Tail(u[p].stk)
  OBVIOUS
<1>3. /\ r \in Locals /\ r = [u[p] EXCEPT !.pc = h, !.stk = t]
      /\ r.pc = h /\ r.stk = t /\ h \in {"enter", "linked", "dots", "iput", "iputDone"} /\ h = u[p].stk[1]
      /\ Chain(h, t) /\ Bottom(h, t) = Bottom("iupdatRead", u[p].stk)
      /\ Frames(h, t) \subseteq Frames("iupdatRead", u[p].stk)
  <2>1. Callers("iupdatRead") = {"enter", "linked", "dots", "iput", "iputDone"}
    BY DEF Callers
  <2>2. /\ h \in {"enter", "linked", "dots", "iput", "iputDone"} /\ h \in Label /\ h = u[p].stk[1] /\ t \in Seq(Label)
        /\ Chain(h, t) /\ Bottom(h, t) = Bottom("iupdatRead", u[p].stk)
        /\ Frames(h, t) \subseteq Frames("iupdatRead", u[p].stk)
    BY <1>0, <1>2, <2>1, Return
  <2>3. r = [u[p] EXCEPT !.pc = h, !.stk = t]
    BY <1>0, <1>2 DEF Returning, Fails, Locals
  <2> HIDE DEF r
  <2> QED  BY <1>1, <1>2, <2>2, <2>3 DEF Locals, Fits
<1> HIDE DEF r
<1>4. Fits(r)
  BY <1>1, <1>2, <1>3, SlotNotZero DEF Fits
<1>5. /\ Alone(r) => inode[r.ip].count = 1 /\ inode[r.ip].lock
      /\ Fresh(r) => cpu' = p /\ inode'[r.ip].mode = "FREE"
  <2>1. Alone(u[p]) => inode[u[p].ip].count = 1 /\ inode[u[p].ip].lock
    BY DEF IInv, Placed
  <2> QED  BY <1>1, <1>2, <1>3, <2>1 DEF Alone, Fresh
<1>6. \A s \in Slots : Tally(r, file[p], s) <= Tally(u[p], file[p], s)
  BY <1>1, <1>2, <1>3, SlotNotZero DEF Tally
<1>7. TypeOK'
  <2>1. inode' \in [Slots -> InodeRec]
    BY <1>1 DEF IInv, TypeOK, InodeRec
  <2>2. dino' \in [Inodes -> Dinode]
    <3>1. u[p].ip \in Slots
      BY <1>2, UpdatSlot
    <3>2. inode[u[p].ip] \in InodeRec
      BY <3>1 DEF IInv, TypeOK, InodeRec
    <3>3. [mode |-> inode[u[p].ip].mode, nlink |-> inode[u[p].ip].nlink] \in Dinode
      BY <3>2 DEF InodeRec, Dinode
    <3> QED  BY <1>1, <3>3 DEF IInv, TypeOK
  <2> QED  BY <1>1, <1>3, <2>1, <2>2 DEF IInv, TypeOK, Go, volVars, fsVars, sysVars, InodeRec
<1>8. /\ Changes(p, r, file[p]) /\ freel' = freel
      /\ \A s \in Slots : /\ inode'[s].num = inode[s].num
                          /\ inode'[s].count = inode[s].count
                          /\ inode'[s].lock = inode[s].lock
  BY <1>1 DEF IInv, TypeOK, Changes, Go, sysVars
<1> QED  BY <1>2, <1>4, <1>5, <1>6, <1>7, <1>8, QuietStep

\* itrunc writes the inode as it will be.
LEMMA ItruncStep ==
  ASSUME IInv, NEW p \in Procs, Itrunc(p), UNCHANGED sysVars
  PROVE  IInv'
<1> DEFINE r == [u[p] EXCEPT !.pc = "itruncRead", !.itmp = [mode |-> inode[u[p].ip].mode, nlink |-> inode[u[p].ip].nlink]]
<1>1. /\ At(p, "itrunc") /\ Go(p, r) /\ cpu' \in {p, NoProc} /\ wchan' = wchan
      /\ sinode' = Checked(sinode) /\ UNCHANGED <<inode, freel, dino, dir, silock, lasti, nbehind, sysVars>>
      /\ [mode |-> inode[u[p].ip].mode, nlink |-> inode[u[p].ip].nlink] \in Dinode
  BY TruncDinode DEF Itrunc, Goto, RunsOn, MaySleep, OnlyLocals
<1>2. /\ u[p] \in Locals /\ u[p].pc = "itrunc" /\ Fits(u[p]) /\ cpu \in {p, NoProc}
      /\ "itrunc" \in Label /\ u[p].stk \in Seq(Label) /\ Chain("itrunc", u[p].stk)
  BY <1>1, Here
<1>3. /\ r \in Locals /\ r = [u[p] EXCEPT !.pc = "itruncRead", !.itmp = [mode |-> inode[u[p].ip].mode, nlink |-> inode[u[p].ip].nlink]]
      /\ r.pc = "itruncRead" /\ r.stk = u[p].stk
      /\ Chain("itruncRead", u[p].stk) /\ Bottom("itruncRead", u[p].stk) = Bottom("itrunc", u[p].stk)
      /\ Frames("itruncRead", u[p].stk) \subseteq Frames("itrunc", u[p].stk) \cup {"itruncRead"}
  <2>1. "itruncRead" \in Label
    BY DEF Label
  <2>2. Callers("itruncRead") = Callers("itrunc") /\ Callers("itrunc") # {}
    BY DEF Callers
  <2>3. u[p].stk # <<>>
    BY <1>2, <2>2 DEF Chain
  <2>4. /\ Chain("itruncRead", u[p].stk) /\ Bottom("itruncRead", u[p].stk) = Bottom("itrunc", u[p].stk)
        /\ Frames("itruncRead", u[p].stk) \subseteq Frames("itrunc", u[p].stk) \cup {"itruncRead"}
    BY <1>2, <2>1, <2>2, <2>3, Jump
  <2> QED  BY <1>1, <1>2, <2>1, <2>4 DEF Locals, Fits
<1> HIDE DEF r
<1>4. Fits(r)
  BY <1>1, <1>2, <1>3, SlotNotZero DEF Fits
<1>5. /\ Alone(r) => inode[r.ip].count = 1 /\ inode[r.ip].lock
      /\ Fresh(r) => cpu' = p /\ inode'[r.ip].mode = "FREE"
  <2>1. Alone(u[p]) => inode[u[p].ip].count = 1 /\ inode[u[p].ip].lock
    BY DEF IInv, Placed
  <2> QED  BY <1>1, <1>2, <1>3, <2>1 DEF Alone, Fresh
<1>6. \A s \in Slots : Tally(r, file[p], s) <= Tally(u[p], file[p], s)
  BY <1>1, <1>2, <1>3, SlotNotZero DEF Tally
<1>7. TypeOK'
  <2>1. sinode' \in Seq(Inodes)
    BY <1>1, FreeList DEF IInv, TypeOK
  <2> QED  BY <1>1, <1>3, <2>1 DEF IInv, TypeOK, Go, volVars, fsVars, sysVars, InodeRec
<1>8. /\ Changes(p, r, file[p]) /\ freel' = freel
      /\ \A s \in Slots : /\ inode'[s].num = inode[s].num
                          /\ inode'[s].count = inode[s].count
                          /\ inode'[s].lock = inode[s].lock
  BY <1>1 DEF IInv, TypeOK, Changes, Go, sysVars
<1> QED  BY <1>2, <1>4, <1>5, <1>6, <1>7, <1>8, QuietStep

\* The inode is written before its blocks go.
LEMMA ItruncWriteStep ==
  ASSUME IInv, NEW p \in Procs, ItruncWrite(p), UNCHANGED sysVars
  PROVE  IInv'
<1> DEFINE r == [u[p] EXCEPT !.pc = "itruncFree"]
<1>1. /\ At(p, "itruncRead") /\ Go(p, r) /\ cpu' \in {p, NoProc} /\ wchan' = wchan
      /\ dino' = [dino EXCEPT ![inode[u[p].ip].num] = u[p].itmp]
      /\ UNCHANGED <<inode, freel, dir, fsVars, sysVars>>
  BY DEF ItruncWrite, Goto, RunsOn, MaySleep, OnlyLocals
<1>2. /\ u[p] \in Locals /\ u[p].pc = "itruncRead" /\ Fits(u[p]) /\ cpu \in {p, NoProc}
      /\ "itruncRead" \in Label /\ u[p].stk \in Seq(Label) /\ Chain("itruncRead", u[p].stk)
  BY <1>1, Here
<1>3. /\ r \in Locals /\ r = [u[p] EXCEPT !.pc = "itruncFree"]
      /\ r.pc = "itruncFree" /\ r.stk = u[p].stk
      /\ Chain("itruncFree", u[p].stk) /\ Bottom("itruncFree", u[p].stk) = Bottom("itruncRead", u[p].stk)
      /\ Frames("itruncFree", u[p].stk) \subseteq Frames("itruncRead", u[p].stk) \cup {"itruncFree"}
  <2>1. "itruncFree" \in Label
    BY DEF Label
  <2>2. Callers("itruncFree") = Callers("itruncRead") /\ Callers("itruncRead") # {}
    BY DEF Callers
  <2>3. u[p].stk # <<>>
    BY <1>2, <2>2 DEF Chain
  <2>4. /\ Chain("itruncFree", u[p].stk) /\ Bottom("itruncFree", u[p].stk) = Bottom("itruncRead", u[p].stk)
        /\ Frames("itruncFree", u[p].stk) \subseteq Frames("itruncRead", u[p].stk) \cup {"itruncFree"}
    BY <1>2, <2>1, <2>2, <2>3, Jump
  <2> QED  BY <1>1, <1>2, <2>1, <2>4 DEF Locals, Fits
<1> HIDE DEF r
<1>4. Fits(r)
  BY <1>1, <1>2, <1>3, SlotNotZero DEF Fits
<1>5. /\ Alone(r) => inode[r.ip].count = 1 /\ inode[r.ip].lock
      /\ Fresh(r) => cpu' = p /\ inode'[r.ip].mode = "FREE"
  <2>1. Alone(u[p]) => inode[u[p].ip].count = 1 /\ inode[u[p].ip].lock
    BY DEF IInv, Placed
  <2> QED  BY <1>1, <1>2, <1>3, <2>1 DEF Alone, Fresh
<1>6. \A s \in Slots : Tally(r, file[p], s) <= Tally(u[p], file[p], s)
  BY <1>1, <1>2, <1>3, SlotNotZero DEF Tally
<1>7. TypeOK'
  <2>1. dino' \in [Inodes -> Dinode]
    BY <1>1, <1>2 DEF IInv, TypeOK, Locals
  <2> QED  BY <1>1, <1>3, <2>1 DEF IInv, TypeOK, Go, volVars, fsVars, sysVars, InodeRec
<1>8. /\ Changes(p, r, file[p]) /\ freel' = freel
      /\ \A s \in Slots : /\ inode'[s].num = inode[s].num
                          /\ inode'[s].count = inode[s].count
                          /\ inode'[s].lock = inode[s].lock
  BY <1>1 DEF IInv, TypeOK, Changes, Go, sysVars
<1> QED  BY <1>2, <1>4, <1>5, <1>6, <1>7, <1>8, QuietStep

\* The blocks are free.
LEMMA ItruncFreeStep ==
  ASSUME IInv, NEW p \in Procs, ItruncFree(p), UNCHANGED sysVars
  PROVE  IInv'
<1> DEFINE r == Returning(u[p])
<1>1. /\ At(p, "itruncFree") /\ Go(p, r) /\ cpu' \in {p, NoProc} /\ wchan' = wchan
      /\ inode' = [inode EXCEPT ![u[p].ip].upd = FALSE]
      /\ dir' = [dir EXCEPT ![inode[u[p].ip].num] = [n \in Names |-> 0]]
      /\ UNCHANGED <<freel, dino, fsVars, sysVars>>
  BY DEF ItruncFree, Goto, RunsOn, MaySleep, OnlyLocals
<1>2. /\ u[p] \in Locals /\ u[p].pc = "itruncFree" /\ Fits(u[p]) /\ cpu \in {p, NoProc}
      /\ "itruncFree" \in Label /\ u[p].stk \in Seq(Label) /\ Chain("itruncFree", u[p].stk)
  BY <1>1, Here
<1>0. PICK h, t : h = Head(u[p].stk) /\ t = Tail(u[p].stk)
  OBVIOUS
<1>3. /\ r \in Locals /\ r = [u[p] EXCEPT !.pc = h, !.stk = t]
      /\ r.pc = h /\ r.stk = t /\ h \in {"opened", "iputFree"} /\ h = u[p].stk[1]
      /\ Chain(h, t) /\ Bottom(h, t) = Bottom("itruncFree", u[p].stk)
      /\ Frames(h, t) \subseteq Frames("itruncFree", u[p].stk)
  <2>1. Callers("itruncFree") = {"opened", "iputFree"}
    BY DEF Callers
  <2>2. /\ h \in {"opened", "iputFree"} /\ h \in Label /\ h = u[p].stk[1] /\ t \in Seq(Label)
        /\ Chain(h, t) /\ Bottom(h, t) = Bottom("itruncFree", u[p].stk)
        /\ Frames(h, t) \subseteq Frames("itruncFree", u[p].stk)
    BY <1>0, <1>2, <2>1, Return
  <2>3. r = [u[p] EXCEPT !.pc = h, !.stk = t]
    BY <1>0, <1>2 DEF Returning, Fails, Locals
  <2> HIDE DEF r
  <2> QED  BY <1>1, <1>2, <2>2, <2>3 DEF Locals, Fits
<1> HIDE DEF r
<1>4. Fits(r)
  BY <1>1, <1>2, <1>3, SlotNotZero DEF Fits
<1>5. /\ Alone(r) => inode[r.ip].count = 1 /\ inode[r.ip].lock
      /\ Fresh(r) => cpu' = p /\ inode'[r.ip].mode = "FREE"
  <2>1. Alone(u[p]) => inode[u[p].ip].count = 1 /\ inode[u[p].ip].lock
    BY DEF IInv, Placed
  <2> QED  BY <1>1, <1>2, <1>3, <2>1 DEF Alone, Fresh
<1>6. \A s \in Slots : Tally(r, file[p], s) <= Tally(u[p], file[p], s)
  BY <1>1, <1>2, <1>3, SlotNotZero DEF Tally
<1>7. TypeOK'
  <2>1. inode' \in [Slots -> InodeRec]
    BY <1>1 DEF IInv, TypeOK, InodeRec
  <2>2. dir' \in [Inodes -> [Names -> Inodes \cup {0}]]
    BY <1>1 DEF IInv, TypeOK
  <2> QED  BY <1>1, <1>3, <2>1, <2>2 DEF IInv, TypeOK, Go, volVars, fsVars, sysVars, InodeRec
<1>8. /\ Changes(p, r, file[p]) /\ freel' = freel
      /\ \A s \in Slots : /\ inode'[s].num = inode[s].num
                          /\ inode'[s].count = inode[s].count
                          /\ inode'[s].lock = inode[s].lock
  BY <1>1 DEF IInv, TypeOK, Changes, Go, sysVars
<1> QED  BY <1>2, <1>4, <1>5, <1>6, <1>7, <1>8, QuietStep

\* ialloc has the superblock.
LEMMA IallocStep ==
  ASSUME IInv, NEW p \in Procs, Ialloc(p), UNCHANGED sysVars
  PROVE  IInv'
<1> DEFINE r == [u[p] EXCEPT !.pc = "iallocLoop"]
<1>1. /\ At(p, "ialloc") /\ Go(p, r) /\ cpu' \in {p, NoProc} /\ wchan' = wchan
      /\ sinode' = Checked(sinode) /\ UNCHANGED <<inode, freel, dino, dir, silock, lasti, nbehind, sysVars>>
  BY DEF Ialloc, Goto, RunsOn, MaySleep, OnlyLocals
<1>2. /\ u[p] \in Locals /\ u[p].pc = "ialloc" /\ Fits(u[p]) /\ cpu \in {p, NoProc}
      /\ "ialloc" \in Label /\ u[p].stk \in Seq(Label) /\ Chain("ialloc", u[p].stk)
  BY <1>1, Here
<1>3. /\ r \in Locals /\ r = [u[p] EXCEPT !.pc = "iallocLoop"]
      /\ r.pc = "iallocLoop" /\ r.stk = u[p].stk
      /\ Chain("iallocLoop", u[p].stk) /\ Bottom("iallocLoop", u[p].stk) = Bottom("ialloc", u[p].stk)
      /\ Frames("iallocLoop", u[p].stk) \subseteq Frames("ialloc", u[p].stk) \cup {"iallocLoop"}
  <2>1. "iallocLoop" \in Label
    BY DEF Label
  <2>2. Callers("iallocLoop") = Callers("ialloc") /\ Callers("ialloc") # {}
    BY DEF Callers
  <2>3. u[p].stk # <<>>
    BY <1>2, <2>2 DEF Chain
  <2>4. /\ Chain("iallocLoop", u[p].stk) /\ Bottom("iallocLoop", u[p].stk) = Bottom("ialloc", u[p].stk)
        /\ Frames("iallocLoop", u[p].stk) \subseteq Frames("ialloc", u[p].stk) \cup {"iallocLoop"}
    BY <1>2, <2>1, <2>2, <2>3, Jump
  <2> QED  BY <1>1, <1>2, <2>1, <2>4 DEF Locals, Fits
<1> HIDE DEF r
<1>4. Fits(r)
  BY <1>1, <1>2, <1>3, SlotNotZero DEF Fits
<1>5. /\ Alone(r) => inode[r.ip].count = 1 /\ inode[r.ip].lock
      /\ Fresh(r) => cpu' = p /\ inode'[r.ip].mode = "FREE"
  BY <1>3 DEF Alone, Fresh
<1>6. \A s \in Slots : Tally(r, file[p], s) <= Tally(u[p], file[p], s)
  BY <1>1, <1>2, <1>3, SlotNotZero DEF Tally
<1>7. TypeOK'
  <2>1. sinode' \in Seq(Inodes)
    BY <1>1, FreeList DEF IInv, TypeOK
  <2> QED  BY <1>1, <1>3, <2>1 DEF IInv, TypeOK, Go, volVars, fsVars, sysVars, InodeRec
<1>8. /\ Changes(p, r, file[p]) /\ freel' = freel
      /\ \A s \in Slots : /\ inode'[s].num = inode[s].num
                          /\ inode'[s].count = inode[s].count
                          /\ inode'[s].lock = inode[s].lock
  BY <1>1 DEF IInv, TypeOK, Changes, Go, sysVars
<1> QED  BY <1>2, <1>4, <1>5, <1>6, <1>7, <1>8, QuietStep

\* ialloc takes a number from the superblock.
LEMMA IallocPopStep ==
  ASSUME IInv, NEW p \in Procs, IallocPop(p), UNCHANGED sysVars
  PROVE  IInv'
<1> DEFINE r == Calling([u[p] EXCEPT !.ino = Last(sinode)], "iget", <<"iallocGot">>)
<1>1. /\ At(p, "iallocLoop") /\ Go(p, r) /\ cpu' \in {p, NoProc} /\ wchan' = wchan
      /\ sinode' = Front(sinode) /\ sinode # <<>> /\ UNCHANGED <<inode, freel, dino, dir, silock, lasti, nbehind, sysVars>>
      /\ Last(sinode) \in Inodes
  BY LastFree DEF IallocPop, Goto, RunsOn, MaySleep, OnlyLocals
<1>2. /\ u[p] \in Locals /\ u[p].pc = "iallocLoop" /\ Fits(u[p]) /\ cpu \in {p, NoProc}
      /\ "iallocLoop" \in Label /\ u[p].stk \in Seq(Label) /\ Chain("iallocLoop", u[p].stk)
  BY <1>1, Here
<1>0. PICK t : Pushed(t, "iallocGot", u[p].stk)
  BY DEF Pushed
<1>3. /\ r \in Locals /\ r = [u[p] EXCEPT !.pc = "iget", !.stk = t, !.ino = Last(sinode)]
      /\ r.pc = "iget" /\ r.stk = t /\ t[1] = "iallocGot"
      /\ Chain("iget", t) /\ Bottom("iget", t) = Bottom("iallocLoop", u[p].stk)
      /\ Frames("iget", t) \subseteq Frames("iallocLoop", u[p].stk) \cup {"iget", "iallocGot"}
  <2>1. "iget" \in Label /\ "iallocGot" \in Label
    BY DEF Label
  <2>2. "iallocGot" \in Callers("iget") /\ Callers("iallocGot") = Callers("iallocLoop") /\ Callers("iallocLoop") # {}
    BY DEF Callers
  <2>3. u[p].stk # <<>>
    BY <1>2, <2>2 DEF Chain
  <2>4. /\ Chain("iget", t) /\ Bottom("iget", t) = Bottom("iallocLoop", u[p].stk) /\ t[1] = "iallocGot"
        /\ t \in Seq(Label) /\ Frames("iget", t) \subseteq Frames("iallocLoop", u[p].stk) \cup {"iget", "iallocGot"}
    BY <1>0, <1>2, <2>1, <2>2, <2>3, CallNested
  <2>5. r = [u[p] EXCEPT !.pc = "iget", !.stk = t, !.ino = Last(sinode)]
    BY <1>0, <1>2 DEF Calling, Fails, Locals, Pushed
  <2> HIDE DEF r
  <2> QED  BY <1>1, <1>2, <2>1, <2>4, <2>5 DEF Locals, Fits
<1> HIDE DEF r
<1>4. Fits(r)
  BY <1>1, <1>2, <1>3, SlotNotZero DEF Fits
<1>5. /\ Alone(r) => inode[r.ip].count = 1 /\ inode[r.ip].lock
      /\ Fresh(r) => cpu' = p /\ inode'[r.ip].mode = "FREE"
  BY <1>3 DEF Alone, Fresh
<1>6. \A s \in Slots : Tally(r, file[p], s) <= Tally(u[p], file[p], s)
  BY <1>1, <1>2, <1>3, SlotNotZero DEF Tally
<1>7. TypeOK'
  <2>1. sinode' \in Seq(Inodes)
    BY <1>1, FrontFree
  <2> QED  BY <1>1, <1>3, <2>1 DEF IInv, TypeOK, Go, volVars, fsVars, sysVars, InodeRec
<1>8. /\ Changes(p, r, file[p]) /\ freel' = freel
      /\ \A s \in Slots : /\ inode'[s].num = inode[s].num
                          /\ inode'[s].count = inode[s].count
                          /\ inode'[s].lock = inode[s].lock
  BY <1>1 DEF IInv, TypeOK, Changes, Go, sysVars
<1> QED  BY <1>2, <1>4, <1>5, <1>6, <1>7, <1>8, QuietStep

-----------------------------------------------------------------------------
(* Names made and removed                                                  *)

\* The name of a new inode is written.
LEMMA EnterWriteStep == ASSUME IInv, NEW p \in Procs, EnterWrite(p) PROVE IInv'
<1>e. PICK err \in BOOLEAN : /\ WriteEntry(p, inode[u[p].dip].num, err)
                            /\ Put(p, [u[p] EXCEPT !.err = err], u[p].dp, "made")
  BY DEF EnterWrite
<1> DEFINE r == Calling([u[p] EXCEPT !.err = err, !.ip = u[p].dp], "iput", <<"made">>)
<1>1. /\ At(p, "enterWrite") /\ Go(p, r) /\ cpu' \in {p, NoProc} /\ wchan' = wchan
      /\ Edited(inode, inode')
      /\ dir' \in [Inodes -> [Names -> Inodes \cup {0}]]
      /\ UNCHANGED <<freel, dino, fsVars, sysVars>>
      /\ (u[p].err => err) /\ err \in BOOLEAN
  <2>1. At(p, "enterWrite")
    BY DEF EnterWrite
  <2>2. u[p].dp \in Slots /\ inode \in [Slots -> InodeRec]
    BY <2>1, PlacesAt, InodeType DEF Callers
  <2>3. Edited(inode, inode')
    BY <2>2, Marked DEF EnterWrite
  <2>4. inode[u[p].dip].num \in Inodes \cup {0}
    BY <2>1, PlacesAt DEF Callers
  <2>5. dir' \in [Inodes -> [Names -> Inodes \cup {0}]] /\ (u[p].err => err)
    BY <1>e, <2>4, WriteEntryType
  <2> QED  BY <1>e, <2>1, <2>3, <2>5 DEF EnterWrite, RunsOn, Put
<1>2. /\ u[p] \in Locals /\ u[p].pc = "enterWrite" /\ Fits(u[p]) /\ cpu \in {p, NoProc}
      /\ u[p].pc \in Label /\ u[p].stk \in Seq(Label) /\ Chain(u[p].pc, u[p].stk)
      /\ u[p].stk = <<>> /\ Bottom("enterWrite", <<>>) = "enterWrite" /\ Frames("enterWrite", <<>>) = {"enterWrite"}
  <2>1. Callers("enterWrite") = {}
    BY DEF Callers
  <2> QED  BY <1>1, <2>1, HereBase
<1>0. PICK t : t = <<"made">> \o <<>>
  OBVIOUS
<1>3. /\ r \in Locals /\ r = [u[p] EXCEPT !.pc = "iput", !.stk = t, !.err = err, !.ip = u[p].dp]
      /\ r.pc = "iput" /\ r.stk = t
      /\ Chain("iput", t) /\ Bottom("iput", t) = "made" /\ t[1] = "made"
      /\ Frames("iput", t) \subseteq {"iput", "made"}
  <2>1. "iput" \in Label /\ "made" \in Label
    BY DEF Label
  <2>2. "made" \in Callers("iput") /\ Callers("made") = {}
    BY DEF Callers
  <2>3. /\ Chain("iput", t) /\ Bottom("iput", t) = "made" /\ t[1] = "made" /\ t \in Seq(Label)
        /\ Frames("iput", t) \subseteq {"iput", "made"}
    BY <1>0, <2>1, <2>2, CallBase
  <2>4. r = [u[p] EXCEPT !.pc = "iput", !.stk = t, !.err = err, !.ip = u[p].dp]
    BY <1>0, <1>2 DEF Calling, Locals
  <2> HIDE DEF r
  <2> QED  BY <1>1, <1>2, <2>1, <2>3, <2>4 DEF Locals, Fits
<1> HIDE DEF r
<1>4. Fits(r)
  BY <1>1, <1>2, <1>3, SlotNotZero DEF Fits
<1>5. ~Alone(r) /\ ~Fresh(r)
  BY <1>3 DEF Alone, Fresh
<1>6. \A s \in Slots : Tally(r, file[p], s) <= Tally(u[p], file[p], s)
  BY <1>1, <1>2, <1>3, SlotNotZero DEF Tally
<1>7. TypeOK'
  BY <1>1, <1>3 DEF IInv, TypeOK, Go, volVars, fsVars, sysVars, Edited, InodeRec
<1>8. /\ Changes(p, r, file[p]) /\ freel' = freel
      /\ \A s \in Slots : /\ inode'[s].num = inode[s].num
                          /\ inode'[s].count = inode[s].count
                          /\ inode'[s].lock = inode[s].lock
  BY <1>1 DEF IInv, TypeOK, Changes, Go, sysVars, Edited
<1> QED  BY <1>2, <1>4, <1>5, <1>6, <1>7, <1>8, QuietStep

\* The name of a file is taken out.
LEMMA UnlinkWriteStep == ASSUME IInv, NEW p \in Procs, UnlinkWrite(p) PROVE IInv'
<1>e. PICK err \in BOOLEAN : /\ WriteEntry(p, 0, err)
                            /\ Put(p, [u[p] EXCEPT !.err = err], u[p].dip, "out")
  BY DEF UnlinkWrite
<1> DEFINE r == Calling([u[p] EXCEPT !.err = err, !.ip = u[p].dip], "iput", <<"out">>)
<1>1. /\ At(p, "unlinkWrite") /\ Go(p, r) /\ cpu' \in {p, NoProc} /\ wchan' = wchan
      /\ Edited(inode, inode')
      /\ dir' \in [Inodes -> [Names -> Inodes \cup {0}]]
      /\ UNCHANGED <<freel, dino, fsVars, sysVars>>
      /\ (u[p].err => err) /\ err \in BOOLEAN
  <2>1. At(p, "unlinkWrite")
    BY DEF UnlinkWrite
  <2>2. u[p].dp \in Slots /\ u[p].dip \in Slots /\ inode \in [Slots -> InodeRec]
    BY <2>1, PlacesAt, InodeType DEF Callers
  <2>3. Edited(inode, inode')
    BY <2>2, LinkTaken DEF UnlinkWrite
  <2>4. 0 \in Inodes \cup {0}
    OBVIOUS
  <2>5. dir' \in [Inodes -> [Names -> Inodes \cup {0}]] /\ (u[p].err => err)
    BY <1>e, <2>4, WriteEntryType
  <2> QED  BY <1>e, <2>1, <2>3, <2>5 DEF UnlinkWrite, RunsOn, Put
<1>2. /\ u[p] \in Locals /\ u[p].pc = "unlinkWrite" /\ Fits(u[p]) /\ cpu \in {p, NoProc}
      /\ u[p].pc \in Label /\ u[p].stk \in Seq(Label) /\ Chain(u[p].pc, u[p].stk)
      /\ u[p].stk = <<>> /\ Bottom("unlinkWrite", <<>>) = "unlinkWrite" /\ Frames("unlinkWrite", <<>>) = {"unlinkWrite"}
  <2>1. Callers("unlinkWrite") = {}
    BY DEF Callers
  <2> QED  BY <1>1, <2>1, HereBase
<1>0. PICK t : t = <<"out">> \o <<>>
  OBVIOUS
<1>3. /\ r \in Locals /\ r = [u[p] EXCEPT !.pc = "iput", !.stk = t, !.err = err, !.ip = u[p].dip]
      /\ r.pc = "iput" /\ r.stk = t
      /\ Chain("iput", t) /\ Bottom("iput", t) = "out" /\ t[1] = "out"
      /\ Frames("iput", t) \subseteq {"iput", "out"}
  <2>1. "iput" \in Label /\ "out" \in Label
    BY DEF Label
  <2>2. "out" \in Callers("iput") /\ Callers("out") = {}
    BY DEF Callers
  <2>3. /\ Chain("iput", t) /\ Bottom("iput", t) = "out" /\ t[1] = "out" /\ t \in Seq(Label)
        /\ Frames("iput", t) \subseteq {"iput", "out"}
    BY <1>0, <2>1, <2>2, CallBase
  <2>4. r = [u[p] EXCEPT !.pc = "iput", !.stk = t, !.err = err, !.ip = u[p].dip]
    BY <1>0, <1>2 DEF Calling, Locals
  <2> HIDE DEF r
  <2> QED  BY <1>1, <1>2, <2>1, <2>3, <2>4 DEF Locals, Fits
<1> HIDE DEF r
<1>4. Fits(r)
  BY <1>1, <1>2, <1>3, SlotNotZero DEF Fits
<1>5. ~Alone(r) /\ ~Fresh(r)
  BY <1>3 DEF Alone, Fresh
<1>6. \A s \in Slots : Tally(r, file[p], s) <= Tally(u[p], file[p], s)
  BY <1>1, <1>2, <1>3, SlotNotZero DEF Tally
<1>7. TypeOK'
  BY <1>1, <1>3 DEF IInv, TypeOK, Go, volVars, fsVars, sysVars, Edited, InodeRec
<1>8. /\ Changes(p, r, file[p]) /\ freel' = freel
      /\ \A s \in Slots : /\ inode'[s].num = inode[s].num
                          /\ inode'[s].count = inode[s].count
                          /\ inode'[s].lock = inode[s].lock
  BY <1>1 DEF IInv, TypeOK, Changes, Go, sysVars, Edited
<1> QED  BY <1>2, <1>4, <1>5, <1>6, <1>7, <1>8, QuietStep

\* The name of a directory is taken out.
LEMMA RmdirWriteStep == ASSUME IInv, NEW p \in Procs, RmdirWrite(p) PROVE IInv'
<1>e. PICK err \in BOOLEAN : /\ WriteEntry(p, 0, err)
                            /\ Put(p, [u[p] EXCEPT !.err = err], u[p].dip, "out")
  BY DEF RmdirWrite
<1> DEFINE r == Calling([u[p] EXCEPT !.err = err, !.ip = u[p].dip], "iput", <<"out">>)
<1>1. /\ At(p, "rmdirWrite") /\ Go(p, r) /\ cpu' \in {p, NoProc} /\ wchan' = wchan
      /\ Edited(inode, inode')
      /\ dir' \in [Inodes -> [Names -> Inodes \cup {0}]]
      /\ UNCHANGED <<freel, dino, fsVars, sysVars>>
      /\ (u[p].err => err) /\ err \in BOOLEAN
  <2>1. At(p, "rmdirWrite")
    BY DEF RmdirWrite
  <2>2. u[p].dp \in Slots /\ u[p].dip \in Slots /\ inode \in [Slots -> InodeRec]
    BY <2>1, PlacesAt, InodeType DEF Callers
  <2>3. Edited(inode, inode')
    BY <2>2, BothMarked DEF RmdirWrite
  <2>4. 0 \in Inodes \cup {0}
    OBVIOUS
  <2>5. dir' \in [Inodes -> [Names -> Inodes \cup {0}]] /\ (u[p].err => err)
    BY <1>e, <2>4, WriteEntryType
  <2> QED  BY <1>e, <2>1, <2>3, <2>5 DEF RmdirWrite, RunsOn, Put
<1>2. /\ u[p] \in Locals /\ u[p].pc = "rmdirWrite" /\ Fits(u[p]) /\ cpu \in {p, NoProc}
      /\ u[p].pc \in Label /\ u[p].stk \in Seq(Label) /\ Chain(u[p].pc, u[p].stk)
      /\ u[p].stk = <<>> /\ Bottom("rmdirWrite", <<>>) = "rmdirWrite" /\ Frames("rmdirWrite", <<>>) = {"rmdirWrite"}
  <2>1. Callers("rmdirWrite") = {}
    BY DEF Callers
  <2> QED  BY <1>1, <2>1, HereBase
<1>0. PICK t : t = <<"out">> \o <<>>
  OBVIOUS
<1>3. /\ r \in Locals /\ r = [u[p] EXCEPT !.pc = "iput", !.stk = t, !.err = err, !.ip = u[p].dip]
      /\ r.pc = "iput" /\ r.stk = t
      /\ Chain("iput", t) /\ Bottom("iput", t) = "out" /\ t[1] = "out"
      /\ Frames("iput", t) \subseteq {"iput", "out"}
  <2>1. "iput" \in Label /\ "out" \in Label
    BY DEF Label
  <2>2. "out" \in Callers("iput") /\ Callers("out") = {}
    BY DEF Callers
  <2>3. /\ Chain("iput", t) /\ Bottom("iput", t) = "out" /\ t[1] = "out" /\ t \in Seq(Label)
        /\ Frames("iput", t) \subseteq {"iput", "out"}
    BY <1>0, <2>1, <2>2, CallBase
  <2>4. r = [u[p] EXCEPT !.pc = "iput", !.stk = t, !.err = err, !.ip = u[p].dip]
    BY <1>0, <1>2 DEF Calling, Locals
  <2> HIDE DEF r
  <2> QED  BY <1>1, <1>2, <2>1, <2>3, <2>4 DEF Locals, Fits
<1> HIDE DEF r
<1>4. Fits(r)
  BY <1>1, <1>2, <1>3, SlotNotZero DEF Fits
<1>5. ~Alone(r) /\ ~Fresh(r)
  BY <1>3 DEF Alone, Fresh
<1>6. \A s \in Slots : Tally(r, file[p], s) <= Tally(u[p], file[p], s)
  BY <1>1, <1>2, <1>3, SlotNotZero DEF Tally
<1>7. TypeOK'
  BY <1>1, <1>3 DEF IInv, TypeOK, Go, volVars, fsVars, sysVars, Edited, InodeRec
<1>8. /\ Changes(p, r, file[p]) /\ freel' = freel
      /\ \A s \in Slots : /\ inode'[s].num = inode[s].num
                          /\ inode'[s].count = inode[s].count
                          /\ inode'[s].lock = inode[s].lock
  BY <1>1 DEF IInv, TypeOK, Changes, Go, sysVars, Edited
<1> QED  BY <1>2, <1>4, <1>5, <1>6, <1>7, <1>8, QuietStep

\* The new name of a file is written.
LEMMA LinkWriteStep == ASSUME IInv, NEW p \in Procs, LinkWrite(p) PROVE IInv'
<1>e. PICK err \in BOOLEAN : /\ WriteEntry(p, inode[u[p].tgt].num, err)
                            /\ Go(p, [u[p] EXCEPT !.pc = "out", !.err = err])
  BY DEF LinkWrite
<1> DEFINE r == [u[p] EXCEPT !.pc = "out", !.err = err]
<1>1. /\ At(p, "linkWrite") /\ Go(p, r) /\ cpu' \in {p, NoProc} /\ wchan' = wchan
      /\ Edited(inode, inode')
      /\ dir' \in [Inodes -> [Names -> Inodes \cup {0}]]
      /\ UNCHANGED <<freel, dino, fsVars, sysVars>>
      /\ (u[p].err => err) /\ err \in BOOLEAN
  <2>1. At(p, "linkWrite")
    BY DEF LinkWrite
  <2>2. u[p].dp \in Slots /\ inode \in [Slots -> InodeRec]
    BY <2>1, PlacesAt, InodeType DEF Callers
  <2>3. Edited(inode, inode')
    BY <2>2, Marked DEF LinkWrite
  <2>4. inode[u[p].tgt].num \in Inodes \cup {0}
    BY <2>1, TargetInCore
  <2>5. dir' \in [Inodes -> [Names -> Inodes \cup {0}]] /\ (u[p].err => err)
    BY <1>e, <2>4, WriteEntryType
  <2> QED  BY <1>e, <2>1, <2>3, <2>5 DEF LinkWrite, RunsOn, Put
<1>2. /\ u[p] \in Locals /\ u[p].pc = "linkWrite" /\ Fits(u[p]) /\ cpu \in {p, NoProc}
      /\ u[p].pc \in Label /\ u[p].stk \in Seq(Label) /\ Chain(u[p].pc, u[p].stk)
      /\ u[p].stk = <<>> /\ Bottom("linkWrite", <<>>) = "linkWrite" /\ Frames("linkWrite", <<>>) = {"linkWrite"}
  <2>1. Callers("linkWrite") = {}
    BY DEF Callers
  <2> QED  BY <1>1, <2>1, HereBase
<1>3. /\ r \in Locals /\ r = [u[p] EXCEPT !.pc = "out", !.err = err]
      /\ r.pc = "out" /\ r.stk = <<>>
      /\ Chain("out", <<>>) /\ Bottom("out", <<>>) = "out" /\ Frames("out", <<>>) = {"out"}
  <2>1. "out" \in Label
    BY DEF Label
  <2>2. Chain("out", <<>>) /\ Bottom("out", <<>>) = "out" /\ Frames("out", <<>>) = {"out"}
    BY BasePlace DEF Callers
  <2> QED  BY <1>1, <1>2, <2>1, <2>2 DEF Locals, Fits
<1> HIDE DEF r
<1>4. Fits(r)
  BY <1>1, <1>2, <1>3, SlotNotZero DEF Fits
<1>5. ~Alone(r) /\ ~Fresh(r)
  BY <1>3 DEF Alone, Fresh
<1>6. \A s \in Slots : Tally(r, file[p], s) <= Tally(u[p], file[p], s)
  BY <1>1, <1>2, <1>3, SlotNotZero DEF Tally
<1>7. TypeOK'
  BY <1>1, <1>3 DEF IInv, TypeOK, Go, volVars, fsVars, sysVars, Edited, InodeRec
<1>8. /\ Changes(p, r, file[p]) /\ freel' = freel
      /\ \A s \in Slots : /\ inode'[s].num = inode[s].num
                          /\ inode'[s].count = inode[s].count
                          /\ inode'[s].lock = inode[s].lock
  BY <1>1 DEF IInv, TypeOK, Changes, Go, sysVars, Edited
<1> QED  BY <1>2, <1>4, <1>5, <1>6, <1>7, <1>8, QuietStep

\* A new directory counts in the one it is in.
LEMMA EnterNameStep == ASSUME IInv, NEW p \in Procs, EnterName(p) PROVE IInv'
<1> DEFINE r == [u[p] EXCEPT !.pc = "enterWrite"]
<1>1. /\ At(p, "enter") /\ Go(p, r) /\ cpu' \in {p, NoProc} /\ wchan' = wchan
      /\ Edited(inode, inode')
      /\ UNCHANGED <<freel, volVars, sysVars>>
  <2>1. At(p, "enter")
    BY DEF EnterName
  <2>2. u[p].dp \in Slots /\ inode \in [Slots -> InodeRec]
    BY <2>1, PlacesAt, InodeType DEF Callers
  <2>3. Edited(inode, inode')
    <3>1. inode[u[p].dp].nlink + 1 \in Int
      BY <2>2 DEF InodeRec
    <3>2. CASE u[p].call = "mkdir"
      <4>1. inode' = [inode EXCEPT ![u[p].dp].nlink = inode[u[p].dp].nlink + 1]
        BY <3>2 DEF EnterName
      <4> QED  BY <2>2, <3>1, <4>1, LinksSet
    <3>3. CASE u[p].call # "mkdir"
      BY <2>2, <3>3 DEF EnterName, Edited
    <3> QED  BY <3>2, <3>3
  <2> QED  BY <2>1, <2>3 DEF EnterName, Fails, Goto, RunsOn, MaySleep, Put
<1>2. /\ u[p] \in Locals /\ u[p].pc = "enter" /\ Fits(u[p]) /\ cpu \in {p, NoProc}
      /\ u[p].pc \in Label /\ u[p].stk \in Seq(Label) /\ Chain(u[p].pc, u[p].stk)
      /\ u[p].stk = <<>> /\ Bottom("enter", <<>>) = "enter" /\ Frames("enter", <<>>) = {"enter"}
  <2>1. Callers("enter") = {}
    BY DEF Callers
  <2> QED  BY <1>1, <2>1, HereBase
<1>3. /\ r \in Locals /\ r = [u[p] EXCEPT !.pc = "enterWrite"]
      /\ r.pc = "enterWrite" /\ r.stk = <<>>
      /\ Chain("enterWrite", <<>>) /\ Bottom("enterWrite", <<>>) = "enterWrite" /\ Frames("enterWrite", <<>>) = {"enterWrite"}
  <2>1. "enterWrite" \in Label
    BY DEF Label
  <2>2. Chain("enterWrite", <<>>) /\ Bottom("enterWrite", <<>>) = "enterWrite" /\ Frames("enterWrite", <<>>) = {"enterWrite"}
    BY BasePlace DEF Callers
  <2> QED  BY <1>1, <1>2, <2>1, <2>2 DEF Locals, Fits
<1> HIDE DEF r
<1>4. Fits(r)
  BY <1>1, <1>2, <1>3, SlotNotZero DEF Fits
<1>5. ~Alone(r) /\ ~Fresh(r)
  BY <1>3 DEF Alone, Fresh
<1>6. \A s \in Slots : Tally(r, file[p], s) <= Tally(u[p], file[p], s)
  BY <1>1, <1>2, <1>3, SlotNotZero DEF Tally
<1>7. TypeOK'
  BY <1>1, <1>3 DEF IInv, TypeOK, Go, volVars, fsVars, sysVars, Edited, InodeRec
<1>8. /\ Changes(p, r, file[p]) /\ freel' = freel
      /\ \A s \in Slots : /\ inode'[s].num = inode[s].num
                          /\ inode'[s].count = inode[s].count
                          /\ inode'[s].lock = inode[s].lock
  BY <1>1 DEF IInv, TypeOK, Changes, Go, sysVars, Edited
<1> QED  BY <1>2, <1>4, <1>5, <1>6, <1>7, <1>8, QuietStep

\* rmdir goes on with the directory it got.
LEMMA RmdirStep ==
  ASSUME IInv, NEW p \in Procs, Rmdir(p), inode[u[p].ip].nlink <= 2
  PROVE  IInv'
<1> DEFINE r == [u[p] EXCEPT !.pc = "rmdirWrite", !.dip = u[p].ip]
<1>1. /\ At(p, "rmdir") /\ Go(p, r) /\ cpu' \in {p, NoProc} /\ wchan' = wchan
      /\ Edited(inode, inode')
      /\ UNCHANGED <<freel, volVars, sysVars>>
      /\ u[p].ip # 0
  <2>1. At(p, "rmdir")
    BY DEF Rmdir
  <2>2. u[p].dp \in Slots /\ inode \in [Slots -> InodeRec]
    BY <2>1, PlacesAt, InodeType DEF Callers
  <2>3. Edited(inode, inode')
    BY DirTaken
  <2> QED  BY <2>1, <2>3 DEF Rmdir, Fails, Goto, RunsOn, MaySleep, Put
<1>2. /\ u[p] \in Locals /\ u[p].pc = "rmdir" /\ Fits(u[p]) /\ cpu \in {p, NoProc}
      /\ u[p].pc \in Label /\ u[p].stk \in Seq(Label) /\ Chain(u[p].pc, u[p].stk)
      /\ u[p].stk = <<>> /\ Bottom("rmdir", <<>>) = "rmdir" /\ Frames("rmdir", <<>>) = {"rmdir"}
  <2>1. Callers("rmdir") = {}
    BY DEF Callers
  <2> QED  BY <1>1, <2>1, HereBase
<1>3. /\ r \in Locals /\ r = [u[p] EXCEPT !.pc = "rmdirWrite", !.dip = u[p].ip]
      /\ r.pc = "rmdirWrite" /\ r.stk = <<>>
      /\ Chain("rmdirWrite", <<>>) /\ Bottom("rmdirWrite", <<>>) = "rmdirWrite" /\ Frames("rmdirWrite", <<>>) = {"rmdirWrite"}
  <2>1. "rmdirWrite" \in Label
    BY DEF Label
  <2>2. Chain("rmdirWrite", <<>>) /\ Bottom("rmdirWrite", <<>>) = "rmdirWrite" /\ Frames("rmdirWrite", <<>>) = {"rmdirWrite"}
    BY BasePlace DEF Callers
  <2> QED  BY <1>1, <1>2, <2>1, <2>2 DEF Locals, Fits
<1> HIDE DEF r
<1>4. Fits(r)
  BY <1>1, <1>2, <1>3, SlotNotZero DEF Fits
<1>5. ~Alone(r) /\ ~Fresh(r)
  BY <1>3 DEF Alone, Fresh
<1>6. \A s \in Slots : Tally(r, file[p], s) <= Tally(u[p], file[p], s)
  BY <1>1, <1>2, <1>3, SlotNotZero DEF Tally
<1>7. TypeOK'
  BY <1>1, <1>3 DEF IInv, TypeOK, Go, volVars, fsVars, sysVars, Edited, InodeRec
<1>8. /\ Changes(p, r, file[p]) /\ freel' = freel
      /\ \A s \in Slots : /\ inode'[s].num = inode[s].num
                          /\ inode'[s].count = inode[s].count
                          /\ inode'[s].lock = inode[s].lock
  BY <1>1 DEF IInv, TypeOK, Changes, Go, sysVars, Edited
<1> QED  BY <1>2, <1>4, <1>5, <1>6, <1>7, <1>8, QuietStep

\* The directory is not empty.
LEMMA RmdirFullStep ==
  ASSUME IInv, NEW p \in Procs, Rmdir(p), ~(inode[u[p].ip].nlink <= 2)
  PROVE  IInv'
<1> DEFINE r == Calling([u[p] EXCEPT !.err = TRUE, !.ip = u[p].ip], "iput", <<"out">>)
<1>1. /\ At(p, "rmdir") /\ Go(p, r) /\ cpu' \in {p, NoProc} /\ wchan' = wchan
      /\ Edited(inode, inode')
      /\ UNCHANGED <<freel, volVars, sysVars>>
      /\ u[p].ip # 0
  <2>1. At(p, "rmdir")
    BY DEF Rmdir
  <2>2. u[p].dp \in Slots /\ inode \in [Slots -> InodeRec]
    BY <2>1, PlacesAt, InodeType DEF Callers
  <2>3. Edited(inode, inode')
    BY DirTaken
  <2> QED  BY <2>1, <2>3 DEF Rmdir, Fails, Goto, RunsOn, MaySleep, Put
<1>2. /\ u[p] \in Locals /\ u[p].pc = "rmdir" /\ Fits(u[p]) /\ cpu \in {p, NoProc}
      /\ u[p].pc \in Label /\ u[p].stk \in Seq(Label) /\ Chain(u[p].pc, u[p].stk)
      /\ u[p].stk = <<>> /\ Bottom("rmdir", <<>>) = "rmdir" /\ Frames("rmdir", <<>>) = {"rmdir"}
  <2>1. Callers("rmdir") = {}
    BY DEF Callers
  <2> QED  BY <1>1, <2>1, HereBase
<1>0. PICK t : t = <<"out">> \o <<>>
  OBVIOUS
<1>3. /\ r \in Locals /\ r = [u[p] EXCEPT !.pc = "iput", !.stk = t, !.err = TRUE, !.ip = u[p].ip]
      /\ r.pc = "iput" /\ r.stk = t
      /\ Chain("iput", t) /\ Bottom("iput", t) = "out" /\ t[1] = "out"
      /\ Frames("iput", t) \subseteq {"iput", "out"}
  <2>1. "iput" \in Label /\ "out" \in Label
    BY DEF Label
  <2>2. "out" \in Callers("iput") /\ Callers("out") = {}
    BY DEF Callers
  <2>3. /\ Chain("iput", t) /\ Bottom("iput", t) = "out" /\ t[1] = "out" /\ t \in Seq(Label)
        /\ Frames("iput", t) \subseteq {"iput", "out"}
    BY <1>0, <2>1, <2>2, CallBase
  <2>4. r = [u[p] EXCEPT !.pc = "iput", !.stk = t, !.err = TRUE, !.ip = u[p].ip]
    BY <1>0, <1>2 DEF Calling, Locals
  <2> HIDE DEF r
  <2> QED  BY <1>1, <1>2, <2>1, <2>3, <2>4 DEF Locals, Fits
<1> HIDE DEF r
<1>4. Fits(r)
  BY <1>1, <1>2, <1>3, SlotNotZero DEF Fits
<1>5. ~Alone(r) /\ ~Fresh(r)
  BY <1>3 DEF Alone, Fresh
<1>6. \A s \in Slots : Tally(r, file[p], s) <= Tally(u[p], file[p], s)
  BY <1>1, <1>2, <1>3, SlotNotZero DEF Tally
<1>7. TypeOK'
  BY <1>1, <1>3 DEF IInv, TypeOK, Go, volVars, fsVars, sysVars, Edited, InodeRec
<1>8. /\ Changes(p, r, file[p]) /\ freel' = freel
      /\ \A s \in Slots : /\ inode'[s].num = inode[s].num
                          /\ inode'[s].count = inode[s].count
                          /\ inode'[s].lock = inode[s].lock
  BY <1>1 DEF IInv, TypeOK, Changes, Go, sysVars, Edited
<1> QED  BY <1>2, <1>4, <1>5, <1>6, <1>7, <1>8, QuietStep

\* creat and mknod make an inode.
LEMMA CreateFileStep ==
  ASSUME IInv, NEW p \in Procs, Create(p), u[p].call # "mkdir"
  PROVE  IInv'
<1> DEFINE r == Calling([u[p] EXCEPT !.dip = u[p].ip, !.wait = TRUE], "iupdat", <<"enter">>)
<1>1. /\ At(p, "created") /\ Go(p, r) /\ cpu' \in {p, NoProc} /\ wchan' = wchan
      /\ Edited(inode, inode')
      /\ UNCHANGED <<freel, volVars, sysVars>>
      /\ u[p].ip # 0
  <2>1. At(p, "created")
    BY DEF Create
  <2>2. (u[p].ip # 0 => u[p].ip \in Slots) /\ inode \in [Slots -> InodeRec]
    BY <2>1, PlacesAt, InodeType DEF Callers
  <2>3. Edited(inode, inode')
    <3>1. u[p].ip \in Slots
      BY <2>2 DEF Create
    <3>2. inode' = [inode EXCEPT ![u[p].ip].upd = TRUE, ![u[p].ip].mode = "REG", ![u[p].ip].nlink = 1]
      BY DEF Create
    <3> QED  BY <2>2, <3>1, <3>2, FileMade
  <2> QED  BY <2>1, <2>3 DEF Create, Fails, Goto, RunsOn, MaySleep, Put
<1>2. /\ u[p] \in Locals /\ u[p].pc = "created" /\ Fits(u[p]) /\ cpu \in {p, NoProc}
      /\ u[p].pc \in Label /\ u[p].stk \in Seq(Label) /\ Chain(u[p].pc, u[p].stk)
      /\ u[p].stk = <<>> /\ Bottom("created", <<>>) = "created" /\ Frames("created", <<>>) = {"created"}
  <2>1. Callers("created") = {}
    BY DEF Callers
  <2> QED  BY <1>1, <2>1, HereBase
<1>0. PICK t : t = <<"enter">> \o <<>>
  OBVIOUS
<1>3. /\ r \in Locals /\ r = [u[p] EXCEPT !.pc = "iupdat", !.stk = t, !.dip = u[p].ip, !.wait = TRUE]
      /\ r.pc = "iupdat" /\ r.stk = t
      /\ Chain("iupdat", t) /\ Bottom("iupdat", t) = "enter" /\ t[1] = "enter"
      /\ Frames("iupdat", t) \subseteq {"iupdat", "enter"}
  <2>1. "iupdat" \in Label /\ "enter" \in Label
    BY DEF Label
  <2>2. "enter" \in Callers("iupdat") /\ Callers("enter") = {}
    BY DEF Callers
  <2>3. /\ Chain("iupdat", t) /\ Bottom("iupdat", t) = "enter" /\ t[1] = "enter" /\ t \in Seq(Label)
        /\ Frames("iupdat", t) \subseteq {"iupdat", "enter"}
    BY <1>0, <2>1, <2>2, CallBase
  <2>4. r = [u[p] EXCEPT !.pc = "iupdat", !.stk = t, !.dip = u[p].ip, !.wait = TRUE]
    BY <1>0, <1>2 DEF Calling, Locals
  <2> HIDE DEF r
  <2> QED  BY <1>1, <1>2, <2>1, <2>3, <2>4 DEF Locals, Fits
<1> HIDE DEF r
<1>4. Fits(r)
  BY <1>1, <1>2, <1>3, SlotNotZero DEF Fits
<1>5. ~Alone(r) /\ ~Fresh(r)
  BY <1>3 DEF Alone, Fresh
<1>6. \A s \in Slots : Tally(r, file[p], s) <= Tally(u[p], file[p], s)
  BY <1>1, <1>2, <1>3, SlotNotZero DEF Tally
<1>7. TypeOK'
  BY <1>1, <1>3 DEF IInv, TypeOK, Go, volVars, fsVars, sysVars, Edited, InodeRec
<1>8. /\ Changes(p, r, file[p]) /\ freel' = freel
      /\ \A s \in Slots : /\ inode'[s].num = inode[s].num
                          /\ inode'[s].count = inode[s].count
                          /\ inode'[s].lock = inode[s].lock
  BY <1>1 DEF IInv, TypeOK, Changes, Go, sysVars, Edited
<1> QED  BY <1>2, <1>4, <1>5, <1>6, <1>7, <1>8, QuietStep

\* link counts its new name.
LEMMA NamedLinkStep == ASSUME IInv, NEW p \in Procs, NamedLink(p) PROVE IInv'
<1> DEFINE r == Calling([u[p] EXCEPT !.ip = u[p].dip, !.wait = TRUE], "iupdat", <<"linked">>)
<1>1. /\ At(p, "named") /\ Go(p, r) /\ cpu' \in {p, NoProc} /\ wchan' = wchan
      /\ Edited(inode, inode')
      /\ UNCHANGED <<freel, volVars, sysVars>>
      /\ u[p].call = "link"
  <2>1. At(p, "named")
    BY DEF NamedLink
  <2>2. u[p].dip \in Slots /\ inode \in [Slots -> InodeRec]
    BY <2>1, PlacesAt, InodeType DEF Callers
  <2>3. Edited(inode, inode')
    <3>1. inode[u[p].dip].nlink + 1 \in Int
      BY <2>2 DEF InodeRec
    <3>2. inode' = [inode EXCEPT ![u[p].dip].nlink = inode[u[p].dip].nlink + 1,
                                 ![u[p].dip].upd = TRUE]
      BY DEF NamedLink
    <3> QED  BY <2>2, <3>1, <3>2, LinksMarked
  <2> QED  BY <2>1, <2>3 DEF NamedLink, Fails, Goto, RunsOn, MaySleep, Put
<1>2. /\ u[p] \in Locals /\ u[p].pc = "named" /\ Fits(u[p]) /\ cpu \in {p, NoProc}
      /\ u[p].pc \in Label /\ u[p].stk \in Seq(Label) /\ Chain(u[p].pc, u[p].stk)
      /\ u[p].stk = <<>> /\ Bottom("named", <<>>) = "named" /\ Frames("named", <<>>) = {"named"}
  <2>1. Callers("named") = {}
    BY DEF Callers
  <2> QED  BY <1>1, <2>1, HereBase
<1>0. PICK t : t = <<"linked">> \o <<>>
  OBVIOUS
<1>3. /\ r \in Locals /\ r = [u[p] EXCEPT !.pc = "iupdat", !.stk = t, !.ip = u[p].dip, !.wait = TRUE]
      /\ r.pc = "iupdat" /\ r.stk = t
      /\ Chain("iupdat", t) /\ Bottom("iupdat", t) = "linked" /\ t[1] = "linked"
      /\ Frames("iupdat", t) \subseteq {"iupdat", "linked"}
  <2>1. "iupdat" \in Label /\ "linked" \in Label
    BY DEF Label
  <2>2. "linked" \in Callers("iupdat") /\ Callers("linked") = {}
    BY DEF Callers
  <2>3. /\ Chain("iupdat", t) /\ Bottom("iupdat", t) = "linked" /\ t[1] = "linked" /\ t \in Seq(Label)
        /\ Frames("iupdat", t) \subseteq {"iupdat", "linked"}
    BY <1>0, <2>1, <2>2, CallBase
  <2>4. r = [u[p] EXCEPT !.pc = "iupdat", !.stk = t, !.ip = u[p].dip, !.wait = TRUE]
    BY <1>0, <1>2 DEF Calling, Locals
  <2> HIDE DEF r
  <2> QED  BY <1>1, <1>2, <2>1, <2>3, <2>4 DEF Locals, Fits
<1> HIDE DEF r
<1>4. Fits(r)
  BY <1>1, <1>2, <1>3, SlotNotZero DEF Fits
<1>5. ~Alone(r) /\ ~Fresh(r)
  BY <1>3 DEF Alone, Fresh
<1>6. \A s \in Slots : Tally(r, file[p], s) <= Tally(u[p], file[p], s)
  BY <1>1, <1>2, <1>3, SlotNotZero DEF Tally
<1>7. TypeOK'
  BY <1>1, <1>3 DEF IInv, TypeOK, Go, volVars, fsVars, sysVars, Edited, InodeRec
<1>8. /\ Changes(p, r, file[p]) /\ freel' = freel
      /\ \A s \in Slots : /\ inode'[s].num = inode[s].num
                          /\ inode'[s].count = inode[s].count
                          /\ inode'[s].lock = inode[s].lock
  BY <1>1 DEF IInv, TypeOK, Changes, Go, sysVars, Edited
<1> QED  BY <1>2, <1>4, <1>5, <1>6, <1>7, <1>8, QuietStep

\* mkdir has written the first entries.
LEMMA MkdirWriteStep == ASSUME IInv, NEW p \in Procs, MkdirWrite(p) PROVE IInv'
<1> DEFINE r == Calling([u[p] EXCEPT !.ip = u[p].dip], "iput", <<"done">>)
<1>1. /\ At(p, "dotsWrite") /\ Go(p, r) /\ cpu' \in {p, NoProc} /\ wchan' = wchan
      /\ Edited(inode, inode')
      /\ UNCHANGED <<freel, volVars, sysVars>>
  <2>1. At(p, "dotsWrite")
    BY DEF MkdirWrite
  <2>2. u[p].dip \in Slots /\ inode \in [Slots -> InodeRec]
    BY <2>1, PlacesAt, InodeType DEF Callers
  <2>3. Edited(inode, inode')
    BY <2>2, Marked DEF MkdirWrite
  <2> QED  BY <2>1, <2>3 DEF MkdirWrite, Fails, Goto, RunsOn, MaySleep, Put
<1>2. /\ u[p] \in Locals /\ u[p].pc = "dotsWrite" /\ Fits(u[p]) /\ cpu \in {p, NoProc}
      /\ u[p].pc \in Label /\ u[p].stk \in Seq(Label) /\ Chain(u[p].pc, u[p].stk)
      /\ u[p].stk = <<>> /\ Bottom("dotsWrite", <<>>) = "dotsWrite" /\ Frames("dotsWrite", <<>>) = {"dotsWrite"}
  <2>1. Callers("dotsWrite") = {}
    BY DEF Callers
  <2> QED  BY <1>1, <2>1, HereBase
<1>0. PICK t : t = <<"done">> \o <<>>
  OBVIOUS
<1>3. /\ r \in Locals /\ r = [u[p] EXCEPT !.pc = "iput", !.stk = t, !.ip = u[p].dip]
      /\ r.pc = "iput" /\ r.stk = t
      /\ Chain("iput", t) /\ Bottom("iput", t) = "done" /\ t[1] = "done"
      /\ Frames("iput", t) \subseteq {"iput", "done"}
  <2>1. "iput" \in Label /\ "done" \in Label
    BY DEF Label
  <2>2. "done" \in Callers("iput") /\ Callers("done") = {}
    BY DEF Callers
  <2>3. /\ Chain("iput", t) /\ Bottom("iput", t) = "done" /\ t[1] = "done" /\ t \in Seq(Label)
        /\ Frames("iput", t) \subseteq {"iput", "done"}
    BY <1>0, <2>1, <2>2, CallBase
  <2>4. r = [u[p] EXCEPT !.pc = "iput", !.stk = t, !.ip = u[p].dip]
    BY <1>0, <1>2 DEF Calling, Locals
  <2> HIDE DEF r
  <2> QED  BY <1>1, <1>2, <2>1, <2>3, <2>4 DEF Locals, Fits
<1> HIDE DEF r
<1>4. Fits(r)
  BY <1>1, <1>2, <1>3, SlotNotZero DEF Fits
<1>5. ~Alone(r) /\ ~Fresh(r)
  BY <1>3 DEF Alone, Fresh
<1>6. \A s \in Slots : Tally(r, file[p], s) <= Tally(u[p], file[p], s)
  BY <1>1, <1>2, <1>3, SlotNotZero DEF Tally
<1>7. TypeOK'
  BY <1>1, <1>3 DEF IInv, TypeOK, Go, volVars, fsVars, sysVars, Edited, InodeRec
<1>8. /\ Changes(p, r, file[p]) /\ freel' = freel
      /\ \A s \in Slots : /\ inode'[s].num = inode[s].num
                          /\ inode'[s].count = inode[s].count
                          /\ inode'[s].lock = inode[s].lock
  BY <1>1 DEF IInv, TypeOK, Changes, Go, sysVars, Edited
<1> QED  BY <1>2, <1>4, <1>5, <1>6, <1>7, <1>8, QuietStep

\* The end of link().
LEMMA LinkDoneStep == ASSUME IInv, NEW p \in Procs, LinkDone(p) PROVE IInv'
<1> DEFINE r == Calling([u[p] EXCEPT !.call = "link", !.tgt = 0, !.ip = u[p].tgt], "iput", <<"done">>)
<1>1. /\ At(p, "done") /\ Go(p, r) /\ cpu' \in {p, NoProc} /\ wchan' = wchan
      /\ Edited(inode, inode')
      /\ UNCHANGED <<freel, volVars, sysVars>>
      /\ u[p].tgt \in Slots /\ u[p].call = "link2"
  <2>1. At(p, "done")
    BY DEF LinkDone
  <2>2. u[p].tgt \in Slots /\ inode \in [Slots -> InodeRec]
    BY LinkTarget, InodeType DEF LinkDone
  <2>3. Edited(inode, inode')
    <3>1. inode[u[p].tgt].nlink - 1 \in Int
      BY <2>2 DEF InodeRec
    <3>2. CASE u[p].err
      <4>1. inode' = [inode EXCEPT ![u[p].tgt].nlink = inode[u[p].tgt].nlink - 1,
                                   ![u[p].tgt].upd = TRUE]
        BY <3>2 DEF LinkDone
      <4> QED  BY <2>2, <3>1, <4>1, LinksMarked
    <3>3. CASE ~u[p].err
      BY <2>2, <3>3 DEF LinkDone, Edited
    <3> QED  BY <3>2, <3>3
  <2> QED  BY <2>1, <2>2, <2>3 DEF LinkDone, Fails, Goto, RunsOn, MaySleep, Put
<1>2. /\ u[p] \in Locals /\ u[p].pc = "done" /\ Fits(u[p]) /\ cpu \in {p, NoProc}
      /\ u[p].pc \in Label /\ u[p].stk \in Seq(Label) /\ Chain(u[p].pc, u[p].stk)
      /\ u[p].stk = <<>> /\ Bottom("done", <<>>) = "done" /\ Frames("done", <<>>) = {"done"}
  <2>1. Callers("done") = {}
    BY DEF Callers
  <2> QED  BY <1>1, <2>1, HereBase
<1>0. PICK t : t = <<"done">> \o <<>>
  OBVIOUS
<1>3. /\ r \in Locals /\ r = [u[p] EXCEPT !.pc = "iput", !.stk = t, !.call = "link", !.tgt = 0, !.ip = u[p].tgt]
      /\ r.pc = "iput" /\ r.stk = t
      /\ Chain("iput", t) /\ Bottom("iput", t) = "done" /\ t[1] = "done"
      /\ Frames("iput", t) \subseteq {"iput", "done"}
  <2>1. "iput" \in Label /\ "done" \in Label
    BY DEF Label
  <2>2. "done" \in Callers("iput") /\ Callers("done") = {}
    BY DEF Callers
  <2>3. /\ Chain("iput", t) /\ Bottom("iput", t) = "done" /\ t[1] = "done" /\ t \in Seq(Label)
        /\ Frames("iput", t) \subseteq {"iput", "done"}
    BY <1>0, <2>1, <2>2, CallBase
  <2>4. r = [u[p] EXCEPT !.pc = "iput", !.stk = t, !.call = "link", !.tgt = 0, !.ip = u[p].tgt]
    BY <1>0, <1>2 DEF Calling, Locals
  <2> HIDE DEF r
  <2> QED  BY <1>1, <1>2, <2>1, <2>3, <2>4 DEF Locals, Fits, Call
<1> HIDE DEF r
<1>4. Fits(r)
  BY <1>1, <1>2, <1>3, SlotNotZero DEF Fits
<1>5. ~Alone(r) /\ ~Fresh(r)
  BY <1>3 DEF Alone, Fresh
<1>6. \A s \in Slots : Tally(r, file[p], s) <= Tally(u[p], file[p], s)
  BY <1>1, <1>2, <1>3, SlotNotZero DEF Tally
<1>7. TypeOK'
  BY <1>1, <1>3 DEF IInv, TypeOK, Go, volVars, fsVars, sysVars, Edited, InodeRec
<1>8. /\ Changes(p, r, file[p]) /\ freel' = freel
      /\ \A s \in Slots : /\ inode'[s].num = inode[s].num
                          /\ inode'[s].count = inode[s].count
                          /\ inode'[s].lock = inode[s].lock
  BY <1>1 DEF IInv, TypeOK, Changes, Go, sysVars, Edited
<1> QED  BY <1>2, <1>4, <1>5, <1>6, <1>7, <1>8, QuietStep

-----------------------------------------------------------------------------
(* Searches                                                                *)

\* The ilist has a block.
LEMMA LastBlockNat == LastBlock \in Nat \ {0}
<1>1. MaxIno + INOPB - 1 \in Nat /\ MaxIno + INOPB - 1 >= INOPB /\ INOPB \in Nat \ {0}
  BY TableAssumption DEF ROOTINO
<1> QED  BY <1>1 DEF LastBlock, BlockOf

\* What is left of a path.
LEMMA PathTail ==
  ASSUME IInv, NEW p \in Procs, At(p, "descended"), ~LastName(p)
  PROVE  Tail(u[p].path) \in Seq(Names) /\ Tail(u[p].path) # <<>>
<1>1. u[p].path \in Seq(Names) /\ u[p].path # <<>>
  <2>1. Callers("descended") = {}
    BY DEF Callers
  <2>2. u[p] \in Locals /\ Fits(u[p]) /\ u[p].pc = "descended" /\ u[p].stk = <<>>
        /\ Bottom("descended", <<>>) = "descended"
    BY <2>1, HereBase
  <2> QED  BY <2>2 DEF Fits, Locals
<1>2. PICK q : q = u[p].path
  OBVIOUS
<1>3. q \in Seq(Names) /\ q # <<>> /\ Len(q) # 1
  BY <1>1, <1>2 DEF LastName
<1>4. Tail(q) \in Seq(Names) /\ Len(Tail(q)) = Len(q) - 1 /\ Len(q) \in Nat
  BY <1>3
<1>5. Tail(q) # <<>>
  BY <1>3, <1>4
<1> QED  BY <1>2, <1>4, <1>5

\* namei goes on with the next component.
LEMMA DescendedStep ==
  ASSUME IInv, NEW p \in Procs, Descended(p), u[p].ip # 0, ~LastName(p)
  PROVE  IInv'
<1> DEFINE r == [u[p] EXCEPT !.pc = "dirloop", !.path = Tail(u[p].path), !.dp = u[p].ip]
<1>1. /\ At(p, "descended") /\ Go(p, r) /\ cpu' \in {p, NoProc} /\ wchan' = wchan /\ OnlyLocals
      /\ u[p].ip # 0 /\ Tail(u[p].path) \in Seq(Names) /\ Tail(u[p].path) # <<>>
  BY PathTail DEF Descended, Fails, Goto, RunsOn, MaySleep, Put
<1>2. /\ u[p] \in Locals /\ u[p].pc = "descended" /\ Fits(u[p]) /\ cpu \in {p, NoProc}
      /\ u[p].pc \in Label /\ u[p].stk \in Seq(Label) /\ Chain(u[p].pc, u[p].stk)
      /\ u[p].stk = <<>> /\ Bottom("descended", <<>>) = "descended" /\ Frames("descended", <<>>) = {"descended"}
  <2>1. Callers("descended") = {}
    BY DEF Callers
  <2> QED  BY <1>1, <2>1, HereBase
<1>3. /\ r \in Locals /\ r = [u[p] EXCEPT !.pc = "dirloop", !.path = Tail(u[p].path), !.dp = u[p].ip]
      /\ r.pc = "dirloop" /\ r.stk = <<>>
      /\ Chain("dirloop", <<>>) /\ Bottom("dirloop", <<>>) = "dirloop" /\ Frames("dirloop", <<>>) = {"dirloop"}
  <2>1. "dirloop" \in Label
    BY DEF Label
  <2>2. Chain("dirloop", <<>>) /\ Bottom("dirloop", <<>>) = "dirloop" /\ Frames("dirloop", <<>>) = {"dirloop"}
    BY BasePlace DEF Callers
  <2> QED  BY <1>1, <1>2, <2>1, <2>2 DEF Locals, Fits
<1> HIDE DEF r
<1>4. Fits(r)
  BY <1>1, <1>2, <1>3, SlotNotZero DEF Fits
<1>5. ~Alone(r) /\ ~Fresh(r)
  BY <1>3 DEF Alone, Fresh
<1>6. \A s \in Slots : Tally(r, file[p], s) <= Tally(u[p], file[p], s)
  BY <1>1, <1>2, <1>3, SlotNotZero DEF Tally
<1> QED  BY <1>1, <1>2, <1>3, <1>4, <1>5, <1>6, LocalStep DEF OnlyLocals

\* No free inodes are left in the superblock.
LEMMA IallocSearchStep ==
  ASSUME IInv, NEW p \in Procs, IallocSearch(p), UNCHANGED sysVars
  PROVE  IInv'
<1>e. PICK f \in BOOLEAN, b \in 1..LastBlock :
        Go(p, [u[p] EXCEPT !.pc = "search", !.first = f, !.blk = b])
  <2>1. lasti \in 1..LastBlock /\ 1 \in 1..LastBlock
    BY LastBlockNat DEF IInv, TypeOK
  <2>2. PICK f : f = (nbehind < 4 * NICINOD /\ lasti > BlockOf(ROOTINO))
    OBVIOUS
  <2>3. PICK b : b = IF f THEN lasti ELSE 1
    OBVIOUS
  <2>4. Go(p, [u[p] EXCEPT !.pc = "search", !.first = f, !.blk = b])
    BY <2>2, <2>3 DEF IallocSearch
  <2>5. f \in BOOLEAN /\ b \in 1..LastBlock
    BY <2>1, <2>2, <2>3
  <2> QED  BY <2>4, <2>5
<1> DEFINE r == [u[p] EXCEPT !.pc = "search", !.first = f, !.blk = b]
<1>1. /\ At(p, "iallocLoop") /\ Go(p, r) /\ cpu' \in {p, NoProc} /\ wchan' = wchan
      /\ silock' = silock + 1 /\ nbehind' \in {nbehind, 0}
      /\ UNCHANGED <<inode, freel, dino, dir, sinode, lasti, sysVars>>
      /\ f \in BOOLEAN /\ b \in 1..LastBlock
  BY <1>e DEF IallocSearch, MaySleep
<1>2. /\ u[p] \in Locals /\ u[p].pc = "iallocLoop" /\ Fits(u[p]) /\ cpu \in {p, NoProc}
      /\ "iallocLoop" \in Label /\ u[p].stk \in Seq(Label) /\ Chain("iallocLoop", u[p].stk)
  BY <1>1, Here
<1>3. /\ r \in Locals /\ r = [u[p] EXCEPT !.pc = "search", !.first = f, !.blk = b]
      /\ r.pc = "search" /\ r.stk = u[p].stk
      /\ Chain("search", u[p].stk) /\ Bottom("search", u[p].stk) = Bottom("iallocLoop", u[p].stk)
      /\ Frames("search", u[p].stk) \subseteq Frames("iallocLoop", u[p].stk) \cup {"search"}
  <2>1. "search" \in Label
    BY DEF Label
  <2>2. Callers("search") = Callers("iallocLoop") /\ Callers("iallocLoop") # {}
    BY DEF Callers
  <2>3. u[p].stk # <<>>
    BY <1>2, <2>2 DEF Chain
  <2>4. /\ Chain("search", u[p].stk) /\ Bottom("search", u[p].stk) = Bottom("iallocLoop", u[p].stk)
        /\ Frames("search", u[p].stk) \subseteq Frames("iallocLoop", u[p].stk) \cup {"search"}
    BY <1>2, <2>1, <2>2, <2>3, Jump
  <2>5. b \in Nat /\ b \in 1..LastBlock /\ f \in BOOLEAN
    BY <1>1, LastBlockNat
  <2>6. r \in Locals
    BY <1>2, <2>1, <2>5 DEF Locals
  <2> QED  BY <1>2, <2>4, <2>6 DEF Locals
<1> HIDE DEF r
<1>4. Fits(r)
  BY <1>1, <1>2, <1>3, SlotNotZero DEF Fits
<1>5. /\ Alone(r) => inode[r.ip].count = 1 /\ inode[r.ip].lock
      /\ Fresh(r) => cpu' = p /\ inode'[r.ip].mode = "FREE"
  BY <1>3 DEF Alone, Fresh
<1>6. \A s \in Slots : Tally(r, file[p], s) <= Tally(u[p], file[p], s)
  BY <1>1, <1>2, <1>3, SlotNotZero DEF Tally
<1>7. TypeOK'
  BY <1>1, <1>3 DEF IInv, TypeOK, Go, volVars, fsVars, sysVars
<1>8. /\ Changes(p, r, file[p]) /\ freel' = freel
      /\ \A s \in Slots : /\ inode'[s].num = inode[s].num
                          /\ inode'[s].count = inode[s].count
                          /\ inode'[s].lock = inode[s].lock
  BY <1>1 DEF IInv, TypeOK, Changes, Go, sysVars
<1> QED  BY <1>2, <1>4, <1>5, <1>6, <1>7, <1>8, QuietStep

\* The search takes numbers of free inodes.
LEMMA WithFreeType ==
  ASSUME NEW list \in Seq(Inodes), NEW b, NEW found \in InOrder(FreeIn(b))
  PROVE  WithFree(list, found) \in Seq(Inodes)
<1>1. IsFiniteSet(FreeIn(b)) /\ FreeIn(b) \subseteq Inodes
  <2>1. IsFiniteSet(Inodes)
    BY TableAssumption, FS_Interval DEF Inodes, ROOTINO
  <2>2. FreeIn(b) \subseteq Inodes
    BY DEF FreeIn
  <2> QED  BY <2>1, <2>2, FS_Subset
<1>2. PICK n : n = Cardinality(FreeIn(b))
  OBVIOUS
<1>3. n \in Nat
  BY <1>1, <1>2, FS_CardinalityType
<1>4. found \in [1..n -> Inodes]
  BY <1>1, <1>2 DEF InOrder
<1>5. found \in Seq(Inodes) /\ Len(found) = n
  BY <1>3, <1>4
<1>6. PICK k \in 0..n : WithFree(list, found) = list \o SubSeq(found, 1, k)
  <2>1. PICK room : room = IF Len(list) < NICINOD THEN NICINOD - Len(list) ELSE 1
    OBVIOUS
  <2>2. PICK k : k = IF room < Len(found) THEN room ELSE Len(found)
    OBVIOUS
  <2>3. room \in Nat
    BY <2>1, TableAssumption
  <2>4. k \in 0..n
    BY <1>3, <1>5, <2>2, <2>3
  <2>5. WithFree(list, found) = list \o SubSeq(found, 1, k)
    BY <2>1, <2>2 DEF WithFree
  <2> QED  BY <2>4, <2>5
<1>7. SubSeq(found, 1, k) \in Seq(Inodes)
  BY <1>3, <1>5, SubSeqProperties
<1> QED  BY <1>6, <1>7, ConcatProperties

\* A result of the search: what it does to the superblock, and the locals.
Searched(p, r) ==
  /\ At(p, "search") /\ Go(p, r)
  /\ sinode' \in Seq(Inodes) /\ silock' \in Nat /\ nbehind' \in Nat /\ lasti' \in 1..LastBlock
  /\ cpu' \in {p, NoProc} /\ wchan' \in [Procs -> Slots \cup {Awake, IlockChan}]
  /\ UNCHANGED <<inode, freel, dino, dir, sysVars>>

\* The search goes on with another block.
LEMMA SearchedOn ==
  ASSUME IInv, NEW p \in Procs, NEW e \in BOOLEAN, u[p].err => e, NEW f \in BOOLEAN,
         NEW b \in 1..LastBlock,
         Searched(p, [u[p] EXCEPT !.pc = "search", !.err = e, !.blk = b, !.first = f])
  PROVE  IInv'
<1> DEFINE r == [u[p] EXCEPT !.pc = "search", !.err = e, !.blk = b, !.first = f]
<1>1. /\ At(p, "search") /\ Go(p, r) /\ cpu' \in {p, NoProc}
      /\ sinode' \in Seq(Inodes) /\ silock' \in Nat /\ nbehind' \in Nat /\ lasti' \in 1..LastBlock
      /\ wchan' \in [Procs -> Slots \cup {Awake, IlockChan}]
      /\ UNCHANGED <<inode, freel, dino, dir, sysVars>>
  BY DEF Searched
<1>2. /\ u[p] \in Locals /\ u[p].pc = "search" /\ Fits(u[p]) /\ cpu \in {p, NoProc}
      /\ "search" \in Label /\ u[p].stk \in Seq(Label) /\ Chain("search", u[p].stk)
  BY <1>1, Here
<1>3. /\ r \in Locals /\ r = [u[p] EXCEPT !.pc = "search", !.err = e, !.blk = b, !.first = f]
      /\ r.pc = "search" /\ r.stk = u[p].stk
      /\ Chain("search", u[p].stk) /\ Bottom("search", u[p].stk) = Bottom("search", u[p].stk)
      /\ Frames("search", u[p].stk) \subseteq Frames("search", u[p].stk) \cup {"search"}
  <2>1. "search" \in Label
    BY DEF Label
  <2>2. Callers("search") = Callers("search") /\ Callers("search") # {}
    BY DEF Callers
  <2>3. u[p].stk # <<>>
    BY <1>2, <2>2 DEF Chain
  <2>4. /\ Chain("search", u[p].stk) /\ Bottom("search", u[p].stk) = Bottom("search", u[p].stk)
        /\ Frames("search", u[p].stk) \subseteq Frames("search", u[p].stk) \cup {"search"}
    BY <1>2, <2>1, <2>2, <2>3, Jump
  <2>5. b \in Nat /\ b \in 1..LastBlock /\ f \in BOOLEAN
    BY <1>1, LastBlockNat
  <2>6. r \in Locals
    BY <1>2, <2>1, <2>5 DEF Locals
  <2> QED  BY <1>2, <2>4, <2>6 DEF Locals
<1> HIDE DEF r
<1>4. Fits(r)
  BY <1>1, <1>2, <1>3, SlotNotZero DEF Fits
<1>5. /\ Alone(r) => inode[r.ip].count = 1 /\ inode[r.ip].lock
      /\ Fresh(r) => cpu' = p /\ inode'[r.ip].mode = "FREE"
  BY <1>3 DEF Alone, Fresh
<1>6. \A s \in Slots : Tally(r, file[p], s) <= Tally(u[p], file[p], s)
  BY <1>1, <1>2, <1>3, SlotNotZero DEF Tally
<1>7. TypeOK'
  BY <1>1, <1>3 DEF IInv, TypeOK, Go, volVars, fsVars, sysVars
<1>8. /\ Changes(p, r, file[p]) /\ freel' = freel
      /\ \A s \in Slots : /\ inode'[s].num = inode[s].num
                          /\ inode'[s].count = inode[s].count
                          /\ inode'[s].lock = inode[s].lock
  BY <1>1 DEF IInv, TypeOK, Changes, Go, sysVars
<1> QED  BY <1>2, <1>4, <1>5, <1>6, <1>7, <1>8, QuietStep

\* The search has found free inodes.
LEMMA SearchedFound ==
  ASSUME IInv, NEW p \in Procs, NEW e \in BOOLEAN, u[p].err => e,
         Searched(p, [u[p] EXCEPT !.pc = "iallocLoop", !.err = e])
  PROVE  IInv'
<1> DEFINE r == [u[p] EXCEPT !.pc = "iallocLoop", !.err = e]
<1>1. /\ At(p, "search") /\ Go(p, r) /\ cpu' \in {p, NoProc}
      /\ sinode' \in Seq(Inodes) /\ silock' \in Nat /\ nbehind' \in Nat /\ lasti' \in 1..LastBlock
      /\ wchan' \in [Procs -> Slots \cup {Awake, IlockChan}]
      /\ UNCHANGED <<inode, freel, dino, dir, sysVars>>
  BY DEF Searched
<1>2. /\ u[p] \in Locals /\ u[p].pc = "search" /\ Fits(u[p]) /\ cpu \in {p, NoProc}
      /\ "search" \in Label /\ u[p].stk \in Seq(Label) /\ Chain("search", u[p].stk)
  BY <1>1, Here
<1>3. /\ r \in Locals /\ r = [u[p] EXCEPT !.pc = "iallocLoop", !.err = e]
      /\ r.pc = "iallocLoop" /\ r.stk = u[p].stk
      /\ Chain("iallocLoop", u[p].stk) /\ Bottom("iallocLoop", u[p].stk) = Bottom("search", u[p].stk)
      /\ Frames("iallocLoop", u[p].stk) \subseteq Frames("search", u[p].stk) \cup {"iallocLoop"}
  <2>1. "iallocLoop" \in Label
    BY DEF Label
  <2>2. Callers("iallocLoop") = Callers("search") /\ Callers("search") # {}
    BY DEF Callers
  <2>3. u[p].stk # <<>>
    BY <1>2, <2>2 DEF Chain
  <2>4. /\ Chain("iallocLoop", u[p].stk) /\ Bottom("iallocLoop", u[p].stk) = Bottom("search", u[p].stk)
        /\ Frames("iallocLoop", u[p].stk) \subseteq Frames("search", u[p].stk) \cup {"iallocLoop"}
    BY <1>2, <2>1, <2>2, <2>3, Jump
  <2> QED  BY <1>1, <1>2, <2>1, <2>4 DEF Locals, Fits
<1> HIDE DEF r
<1>4. Fits(r)
  BY <1>1, <1>2, <1>3, SlotNotZero DEF Fits
<1>5. /\ Alone(r) => inode[r.ip].count = 1 /\ inode[r.ip].lock
      /\ Fresh(r) => cpu' = p /\ inode'[r.ip].mode = "FREE"
  BY <1>3 DEF Alone, Fresh
<1>6. \A s \in Slots : Tally(r, file[p], s) <= Tally(u[p], file[p], s)
  BY <1>1, <1>2, <1>3, SlotNotZero DEF Tally
<1>7. TypeOK'
  BY <1>1, <1>3 DEF IInv, TypeOK, Go, volVars, fsVars, sysVars
<1>8. /\ Changes(p, r, file[p]) /\ freel' = freel
      /\ \A s \in Slots : /\ inode'[s].num = inode[s].num
                          /\ inode'[s].count = inode[s].count
                          /\ inode'[s].lock = inode[s].lock
  BY <1>1 DEF IInv, TypeOK, Changes, Go, sysVars
<1> QED  BY <1>2, <1>4, <1>5, <1>6, <1>7, <1>8, QuietStep

\* The volume has no free inodes.
LEMMA SearchedNone ==
  ASSUME IInv, NEW p \in Procs, Searched(p, Fails(Returning([u[p] EXCEPT !.ip = 0])))
  PROVE  IInv'
<1> DEFINE r == Fails(Returning([u[p] EXCEPT !.ip = 0]))
<1>1. /\ At(p, "search") /\ Go(p, r) /\ cpu' \in {p, NoProc}
      /\ sinode' \in Seq(Inodes) /\ silock' \in Nat /\ nbehind' \in Nat /\ lasti' \in 1..LastBlock
      /\ wchan' \in [Procs -> Slots \cup {Awake, IlockChan}]
      /\ UNCHANGED <<inode, freel, dino, dir, sysVars>>
  BY DEF Searched
<1>2. /\ u[p] \in Locals /\ u[p].pc = "search" /\ Fits(u[p]) /\ cpu \in {p, NoProc}
      /\ "search" \in Label /\ u[p].stk \in Seq(Label) /\ Chain("search", u[p].stk)
  BY <1>1, Here
<1>0. PICK h, t : h = Head(u[p].stk) /\ t = Tail(u[p].stk)
  OBVIOUS
<1>3. /\ r \in Locals /\ r = [u[p] EXCEPT !.pc = h, !.stk = t, !.ip = 0, !.err = TRUE]
      /\ r.pc = h /\ r.stk = t /\ h \in {"created", "pipend"} /\ h = u[p].stk[1]
      /\ Chain(h, t) /\ Bottom(h, t) = Bottom("search", u[p].stk)
      /\ Frames(h, t) \subseteq Frames("search", u[p].stk)
  <2>1. Callers("search") = {"created", "pipend"}
    BY DEF Callers
  <2>2. /\ h \in {"created", "pipend"} /\ h \in Label /\ h = u[p].stk[1] /\ t \in Seq(Label)
        /\ Chain(h, t) /\ Bottom(h, t) = Bottom("search", u[p].stk)
        /\ Frames(h, t) \subseteq Frames("search", u[p].stk)
    BY <1>0, <1>2, <2>1, Return
  <2>3. r = [u[p] EXCEPT !.pc = h, !.stk = t, !.ip = 0, !.err = TRUE]
    BY <1>0, <1>2 DEF Returning, Fails, Locals
  <2> HIDE DEF r
  <2> QED  BY <1>1, <1>2, <2>2, <2>3 DEF Locals, Fits
<1> HIDE DEF r
<1>4. Fits(r)
  BY <1>1, <1>2, <1>3, SlotNotZero DEF Fits
<1>5. /\ Alone(r) => inode[r.ip].count = 1 /\ inode[r.ip].lock
      /\ Fresh(r) => cpu' = p /\ inode'[r.ip].mode = "FREE"
  BY <1>3 DEF Alone, Fresh
<1>6. \A s \in Slots : Tally(r, file[p], s) <= Tally(u[p], file[p], s)
  BY <1>1, <1>2, <1>3, SlotNotZero DEF Tally
<1>7. TypeOK'
  BY <1>1, <1>3 DEF IInv, TypeOK, Go, volVars, fsVars, sysVars
<1>8. /\ Changes(p, r, file[p]) /\ freel' = freel
      /\ \A s \in Slots : /\ inode'[s].num = inode[s].num
                          /\ inode'[s].count = inode[s].count
                          /\ inode'[s].lock = inode[s].lock
  BY <1>1 DEF IInv, TypeOK, Changes, Go, sysVars
<1> QED  BY <1>2, <1>4, <1>5, <1>6, <1>7, <1>8, QuietStep

\* Who sleeps for a lock is awake after the wakeup.
LEMMA AwakenedType ==
  ASSUME IInv, NEW c
  PROVE  Awakened(c) \in [Procs -> Slots \cup {Awake, IlockChan}]
BY DEF IInv, TypeOK, Awakened

\* After a block has been searched.
LEMMA SearchOnStep ==
  ASSUME IInv, NEW p \in Procs, NEW e \in BOOLEAN, u[p].err => e,
         NEW list \in Seq(Inodes), NEW full \in BOOLEAN,
         SearchOn(p, [u[p] EXCEPT !.err = e], list, full), UNCHANGED sysVars
  PROVE  IInv'
<1> DEFINE r == [u[p] EXCEPT !.err = e]
           b == r.blk
<1>1. u[p] \in Locals /\ At(p, "search") /\ b \in 1..LastBlock /\ b = u[p].blk /\ Fits(u[p])
      /\ u[p].pc = "search"
  <2>1. At(p, "search")
    BY DEF SearchOn
  <2>2. u[p] \in Locals /\ Fits(u[p]) /\ u[p].pc = "search"
    BY <2>1, Here
  <2>3. b = u[p].blk
    BY <2>2 DEF Locals
  <2> QED  BY <2>1, <2>2, <2>3 DEF Fits
<1>2. /\ silock \in Nat /\ nbehind \in Nat /\ lasti \in 1..LastBlock /\ 1 \in 1..LastBlock
      /\ wchan \in [Procs -> Slots \cup {Awake, IlockChan}]
      /\ Awakened(IlockChan) \in [Procs -> Slots \cup {Awake, IlockChan}]
  BY AwakenedType, LastBlockNat DEF IInv, TypeOK
<1> DEFINE next == ~full /\ b < LastBlock
           again == ~next /\ Len(list) < NICINOD /\ r.first
<1>3. SearchOn(p, r, list, full)
  OBVIOUS
<1> HIDE DEF r
<1>4. CASE next /\ Go(p, [r EXCEPT !.blk = b + 1]) /\ MaySleep /\ UNCHANGED <<silock, lasti, nbehind>>
  <2>1. b + 1 \in 1..LastBlock
    BY <1>1, <1>4, LastBlockNat
  <2>2. [r EXCEPT !.blk = b + 1] = [u[p] EXCEPT !.pc = "search", !.err = e, !.blk = b + 1, !.first = u[p].first]
    BY <1>1 DEF r, Locals
  <2>3. Searched(p, [r EXCEPT !.blk = b + 1])
    BY <1>1, <1>2, <1>3, <1>4 DEF Searched, SearchOn, MaySleep
  <2>4. u[p].first \in BOOLEAN
    BY <1>1 DEF Locals
  <2>5. PICK c : c = b + 1
    OBVIOUS
  <2> HIDE DEF b
  <2> QED  BY <2>1, <2>2, <2>3, <2>4, <2>5, SearchedOn
<1>5. CASE again /\ Go(p, [r EXCEPT !.blk = 1, !.first = FALSE]) /\ nbehind' = 0 /\ MaySleep
           /\ UNCHANGED <<silock, lasti>>
  <2>1. [r EXCEPT !.blk = 1, !.first = FALSE] = [u[p] EXCEPT !.pc = "search", !.err = e, !.blk = 1, !.first = FALSE]
    BY <1>1 DEF r, Locals
  <2>2. Searched(p, [r EXCEPT !.blk = 1, !.first = FALSE])
    BY <1>1, <1>2, <1>3, <1>5 DEF Searched, SearchOn, MaySleep
  <2> QED  BY <1>2, <2>1, <2>2, SearchedOn
<1>6. CASE /\ Go(p, IF list # <<>> THEN [r EXCEPT !.pc = "iallocLoop"]
                    ELSE Fails(Returning([r EXCEPT !.ip = 0])))
           /\ lasti' = b /\ silock' = 0
           /\ wchan' = Awakened(IlockChan) /\ cpu' = p
           /\ UNCHANGED nbehind
  <2>1. CASE list # <<>>
    <3>1. [r EXCEPT !.pc = "iallocLoop"] = [u[p] EXCEPT !.pc = "iallocLoop", !.err = e]
      BY <1>1 DEF r, Locals
    <3>2. Go(p, [r EXCEPT !.pc = "iallocLoop"])
      BY <1>6, <2>1
    <3>3. Searched(p, [r EXCEPT !.pc = "iallocLoop"])
      BY <1>1, <1>2, <1>3, <1>6, <3>2 DEF Searched, SearchOn
    <3> QED  BY <3>1, <3>3, SearchedFound
  <2>2. CASE list = <<>>
    <3>1. Fails(Returning([r EXCEPT !.ip = 0])) = Fails(Returning([u[p] EXCEPT !.ip = 0]))
      BY <1>1 DEF r, Locals, Fails, Returning
    <3>2. Go(p, Fails(Returning([r EXCEPT !.ip = 0])))
      BY <1>6, <2>2
    <3>3. Searched(p, Fails(Returning([r EXCEPT !.ip = 0])))
      BY <1>1, <1>2, <1>3, <1>6, <3>2 DEF Searched, SearchOn
    <3> QED  BY <3>1, <3>3, SearchedNone
  <2> QED  BY <2>1, <2>2
<1> QED  BY <1>3, <1>4, <1>5, <1>6 DEF SearchOn

\* A block has been searched.
LEMMA SearchBlockStep ==
  ASSUME IInv, NEW p \in Procs, SearchBlock(p), UNCHANGED sysVars
  PROVE  IInv'
<1>1. PICK found \in InOrder(FreeIn(u[p].blk)) :
        SearchOn(p, u[p], WithFree(sinode, found), Len(WithFree(sinode, found)) >= NICINOD)
  BY DEF SearchBlock
<1>2. PICK list : list = WithFree(sinode, found)
  OBVIOUS
<1>3. list \in Seq(Inodes)
  BY <1>2, WithFreeType DEF IInv, TypeOK
<1>4. PICK full : full = (Len(list) >= NICINOD)
  OBVIOUS
<1>5. u[p] \in Locals
  BY DEF IInv, TypeOK
<1>6. u[p] = [u[p] EXCEPT !.err = u[p].err] /\ u[p].err \in BOOLEAN
  BY <1>5 DEF Locals
<1>7. SearchOn(p, [u[p] EXCEPT !.err = u[p].err], list, full)
  BY <1>1, <1>2, <1>4, <1>6
<1>8. full \in BOOLEAN
  BY <1>4
<1> QED  BY <1>3, <1>6, <1>7, <1>8, SearchOnStep

\* A block could not be read.
LEMMA SearchErrorStep ==
  ASSUME IInv, NEW p \in Procs, SearchError(p), UNCHANGED sysVars
  PROVE  IInv'
<1>1. SearchOn(p, [u[p] EXCEPT !.err = TRUE], sinode, FALSE) /\ sinode \in Seq(Inodes)
  BY DEF SearchError, Fails, IInv, TypeOK
<1> QED  BY <1>1, SearchOnStep

\* update has seen the whole table.
LEMMA UpdateDoneStep == ASSUME IInv, NEW p \in Procs, UpdateDone(p) PROVE IInv'
<1> DEFINE r == [u[p] EXCEPT !.pc = "done"]
<1>1. /\ At(p, "update") /\ Go(p, r) /\ cpu' \in {p, NoProc} /\ wchan' = wchan
      /\ updlock' = FALSE /\ UNCHANGED <<inode, freel, volVars, file, left>>
  BY DEF UpdateDone, Fails, Goto, RunsOn, MaySleep, Put
<1>2. /\ u[p] \in Locals /\ u[p].pc = "update" /\ Fits(u[p]) /\ cpu \in {p, NoProc}
      /\ u[p].pc \in Label /\ u[p].stk \in Seq(Label) /\ Chain(u[p].pc, u[p].stk)
      /\ u[p].stk = <<>> /\ Bottom("update", <<>>) = "update" /\ Frames("update", <<>>) = {"update"}
  <2>1. Callers("update") = {}
    BY DEF Callers
  <2> QED  BY <1>1, <2>1, HereBase
<1>3. /\ r \in Locals /\ r = [u[p] EXCEPT !.pc = "done"]
      /\ r.pc = "done" /\ r.stk = <<>>
      /\ Chain("done", <<>>) /\ Bottom("done", <<>>) = "done" /\ Frames("done", <<>>) = {"done"}
  <2>1. "done" \in Label
    BY DEF Label
  <2>2. Chain("done", <<>>) /\ Bottom("done", <<>>) = "done" /\ Frames("done", <<>>) = {"done"}
    BY BasePlace DEF Callers
  <2> QED  BY <1>1, <1>2, <2>1, <2>2 DEF Locals, Fits
<1> HIDE DEF r
<1>4. Fits(r)
  BY <1>1, <1>2, <1>3, SlotNotZero DEF Fits
<1>5. ~Alone(r) /\ ~Fresh(r)
  BY <1>3 DEF Alone, Fresh
<1>6. \A s \in Slots : Tally(r, file[p], s) <= Tally(u[p], file[p], s)
  BY <1>1, <1>2, <1>3, SlotNotZero DEF Tally
<1>7. TypeOK'
  BY <1>1, <1>3 DEF IInv, TypeOK, Go, volVars, fsVars, sysVars
<1>8. /\ Changes(p, r, file[p]) /\ freel' = freel
      /\ \A s \in Slots : /\ inode'[s].num = inode[s].num
                          /\ inode'[s].count = inode[s].count
                          /\ inode'[s].lock = inode[s].lock
  BY <1>1 DEF IInv, TypeOK, Changes, Go, sysVars
<1> QED  BY <1>2, <1>4, <1>5, <1>6, <1>7, <1>8, QuietStep

-----------------------------------------------------------------------------
(* Waiting                                                                 *)

\* A process that finds an inode locked sleeps where it is.
LEMMA WaitStep ==
  ASSUME IInv, NEW p \in Procs, NEW l, At(p, l), l \notin {"created", "pipend"},
         UNCHANGED <<u, freel, volVars, sysVars>>,
         Edited(inode, inode'), cpu' = NoProc,
         wchan' \in [Procs -> Slots \cup {Awake, IlockChan}]
  PROVE  IInv'
<1>1. Fits(u[p]) /\ u[p].pc = l /\ cpu \in {p, NoProc}
  BY Here
<1>2. /\ Alone(u[p]) => inode[u[p].ip].count = 1 /\ inode[u[p].ip].lock
      /\ ~Fresh(u[p])
  BY <1>1 DEF IInv, Placed, Fresh
<1>3. Changes(p, u[p], file[p])
  BY DEF Changes, IInv, TypeOK, sysVars
<1>4. TypeOK'
  BY DEF IInv, TypeOK, volVars, fsVars, sysVars, Edited, InodeRec
<1>5. freel' = freel /\ \A s \in Slots : /\ inode'[s].num = inode[s].num
                                         /\ inode'[s].count = inode[s].count
                                         /\ inode'[s].lock = inode[s].lock
  BY DEF Edited
<1>6. \A s \in Slots : Tally(u[p], file[p], s) <= Tally(u[p], file[p], s)
  <2>1. \A s \in Slots : Tally(u[p], file[p], s) \in Nat
    BY TallyIsCount
  <2> QED  BY <2>1
<1> QED  BY <1>1, <1>2, <1>3, <1>4, <1>5, <1>6, QuietStep

\* The lock is that of a slot.
LEMMA LockWait ==
  ASSUME IInv, NEW p \in Procs, NEW s \in Slots, WaitForLock(p, s)
  PROVE  /\ Edited(inode, inode') /\ u' = u /\ cpu' = NoProc
         /\ wchan' \in [Procs -> Slots \cup {Awake, IlockChan}]
<1>1. inode \in [Slots -> InodeRec]
  BY InodeType
<1>2. PICK e : e = [inode[s] EXCEPT !.want = TRUE]
  OBVIOUS
<1>3. inode' = [inode EXCEPT ![s] = e]
  BY <1>2 DEF WaitForLock
<1>4. e \in InodeRec /\ e.num = inode[s].num /\ e.count = inode[s].count /\ e.lock = inode[s].lock
  BY <1>1, <1>2 DEF InodeRec
<1>5. Edited(inode, inode')
  BY <1>1, <1>3, <1>4, EditAt
<1>6. wchan' \in [Procs -> Slots \cup {Awake, IlockChan}]
  BY DEF WaitForLock, SleepOn, IInv, TypeOK
<1> QED  BY <1>5, <1>6 DEF WaitForLock, SleepOn

\* plock waits.
LEMMA PlockWaitStep ==
  ASSUME IInv, NEW p \in Procs, PlockWait(p), UNCHANGED sysVars
  PROVE  IInv'
<1>1. At(p, "plock") /\ WaitForLock(p, u[p].ip) /\ UNCHANGED <<freel, volVars>>
  BY DEF PlockWait
<1>2. u[p].ip \in Slots
  <2>1. u[p].pc = "plock"
    BY <1>1, Here
  <2> QED  BY <2>1, PlacesInCore
<1> QED  BY <1>1, <1>2, LockWait, WaitStep

\* iget waits.
LEMMA IgetWaitStep ==
  ASSUME IInv, NEW p \in Procs, IgetWait(p), UNCHANGED sysVars
  PROVE  IInv'
<1>1. PICK s \in InCore(u[p].ino) : WaitForLock(p, s)
  BY DEF IgetWait
<1>2. s \in Slots /\ At(p, "iget") /\ UNCHANGED <<freel, volVars>>
  BY DEF InCore, IgetWait
<1> QED  BY <1>1, <1>2, LockWait, WaitStep

\* namei starts at the root.
LEMMA RootInTable == RootSlot \in Slots
BY TableAssumption DEF RootSlot, Slots

\* namei waits for a directory.
LEMMA NameiWaitStep == ASSUME IInv, NEW p \in Procs, NameiWait(p) PROVE IInv'
<1>1. At(p, "namei") /\ WaitForLock(p, u[p].dp) /\ UNCHANGED <<freel, volVars, sysVars>>
  BY DEF NameiWait
<1>2. u[p].dp \in Slots
  <2>1. Fits(u[p]) /\ u[p].pc = "namei"
    BY <1>1, Here
  <2> QED  BY <2>1, RootInTable DEF Fits
<1> QED  BY <1>1, <1>2, LockWait, WaitStep

\* ialloc waits for the superblock.
LEMMA IallocWaitStep ==
  ASSUME IInv, NEW p \in Procs, IallocWait(p), UNCHANGED sysVars
  PROVE  IInv'
<1>1. /\ At(p, "ialloc") /\ cpu' = NoProc /\ UNCHANGED <<u, inode, freel, volVars>>
      /\ wchan' \in [Procs -> Slots \cup {Awake, IlockChan}]
  BY DEF IallocWait, SleepOn, IInv, TypeOK
<1>2. Edited(inode, inode')
  BY <1>1, InodeType DEF Edited
<1> QED  BY <1>1, <1>2, WaitStep

-----------------------------------------------------------------------------
(* The ends of a pipe, when one could not be made                          *)

\* The first end is not made; the second is tried.
LEMMA PipendNoneFirst ==
  ASSUME IInv, NEW p \in Procs, PipendFails(p), u[p].ip = 0, u[p].call = "pipe"
  PROVE  IInv'
<1> DEFINE r == Calling([u[p] EXCEPT !.call = "pipe2"], "ialloc", <<"pipend">>)
<1>1. /\ At(p, "pipend") /\ Go(p, r) /\ cpu' \in {p, NoProc} /\ wchan' = wchan
      /\ UNCHANGED <<inode, freel, volVars, sysVars>>
      /\ u[p].err
  <2>1. At(p, "pipend") /\ u[p].err /\ Callers("pipend") = {}
    BY DEF PipendFails, Callers
  <2>2. u[p] \in Locals /\ u[p].stk = <<>>
    BY <2>1, HereBase
  <2>3. PICK a : a = [u[p] EXCEPT !.call = "pipe2"]
    OBVIOUS
  <2>4. Go(p, Returning([a EXCEPT !.stk = <<"ialloc", "pipend">>]))
    BY <2>3 DEF PipendFails
  <2>5. Returning([a EXCEPT !.stk = <<"ialloc", "pipend">>]) = Calling(a, "ialloc", <<"pipend">>)
    <3>1. Head(<<"ialloc", "pipend">>) = "ialloc" /\ Tail(<<"ialloc", "pipend">>) = <<"pipend">>
      OBVIOUS
    <3>2. <<"pipend">> \o u[p].stk = <<"pipend">>
      BY <2>2
    <3>3. a = [u[p] EXCEPT !.call = "pipe2"] /\ a.stk = u[p].stk
      BY <2>2, <2>3 DEF Locals
    <3> QED  BY <2>2, <3>1, <3>2, <3>3 DEF Returning, Calling, Locals
  <2> QED  BY <2>1, <2>3, <2>4, <2>5 DEF PipendFails, RunsOn
<1>2. /\ u[p] \in Locals /\ u[p].pc = "pipend" /\ Fits(u[p]) /\ cpu \in {p, NoProc}
      /\ u[p].pc \in Label /\ u[p].stk \in Seq(Label) /\ Chain(u[p].pc, u[p].stk)
      /\ u[p].stk = <<>> /\ Bottom("pipend", <<>>) = "pipend" /\ Frames("pipend", <<>>) = {"pipend"}
  <2>1. Callers("pipend") = {}
    BY DEF Callers
  <2> QED  BY <1>1, <2>1, HereBase
<1>0. PICK t : t = <<"pipend">> \o <<>>
  OBVIOUS
<1>3. /\ r \in Locals /\ r = [u[p] EXCEPT !.pc = "ialloc", !.stk = t, !.call = "pipe2"]
      /\ r.pc = "ialloc" /\ r.stk = t
      /\ Chain("ialloc", t) /\ Bottom("ialloc", t) = "pipend" /\ t[1] = "pipend"
      /\ Frames("ialloc", t) \subseteq {"ialloc", "pipend"}
  <2>1. "ialloc" \in Label /\ "pipend" \in Label
    BY DEF Label
  <2>2. "pipend" \in Callers("ialloc") /\ Callers("pipend") = {}
    BY DEF Callers
  <2>3. /\ Chain("ialloc", t) /\ Bottom("ialloc", t) = "pipend" /\ t[1] = "pipend" /\ t \in Seq(Label)
        /\ Frames("ialloc", t) \subseteq {"ialloc", "pipend"}
    BY <1>0, <2>1, <2>2, CallBase
  <2>4. r = [u[p] EXCEPT !.pc = "ialloc", !.stk = t, !.call = "pipe2"]
    BY <1>0, <1>2 DEF Calling, Locals
  <2> HIDE DEF r
  <2>5. u[p] \in Locals
    BY <1>2
  <2>6. r \in Locals /\ r.pc \in Label /\ r.stk = t
    BY <2>1, <2>3, <2>4, <2>5 DEF Locals
  <2> QED  BY <2>3, <2>4, <2>5, <2>6 DEF Locals
<1> HIDE DEF r
<1>4. Fits(r)
  BY <1>1, <1>2, <1>3, SlotNotZero DEF Fits
<1>5. ~Alone(r) /\ ~Fresh(r)
  BY <1>3 DEF Alone, Fresh
<1>6. \A s \in Slots : Tally(r, file[p], s) <= Tally(u[p], file[p], s)
  BY <1>1, <1>2, <1>3, SlotNotZero DEF Tally
<1>7. TypeOK'
  BY <1>1, <1>3 DEF IInv, TypeOK, Go, volVars, fsVars, sysVars
<1>8. /\ Changes(p, r, file[p]) /\ freel' = freel
      /\ \A s \in Slots : /\ inode'[s].num = inode[s].num
                          /\ inode'[s].count = inode[s].count
                          /\ inode'[s].lock = inode[s].lock
  BY <1>1 DEF IInv, TypeOK, Changes, Go, sysVars
<1> QED  BY <1>2, <1>4, <1>5, <1>6, <1>7, <1>8, QuietStep

\* The second end is not made.
LEMMA PipendNoneSecond ==
  ASSUME IInv, NEW p \in Procs, PipendFails(p), u[p].ip = 0, u[p].call # "pipe"
  PROVE  IInv'
<1> DEFINE r == [u[p] EXCEPT !.pc = "pipeFails"]
<1>1. /\ At(p, "pipend") /\ Go(p, r) /\ cpu' \in {p, NoProc} /\ wchan' = wchan
      /\ UNCHANGED <<inode, freel, volVars, sysVars>>
      /\ u[p].err /\ u[p].call = "pipe2"
  <2>1. At(p, "pipend") /\ u[p].err /\ Callers("pipend") = {}
    BY DEF PipendFails, Callers
  <2>2. u[p] \in Locals /\ u[p].stk = <<>>
    BY <2>1, HereBase
  <2>6. u[p].call = "pipe2"
    <3>1. Fits(u[p]) /\ u[p].pc = "pipend" /\ Bottom("pipend", <<>>) = "pipend"
      BY <2>1, HereBase
    <3> QED  BY <2>2, <3>1 DEF Fits
  <2>4. Go(p, Returning([[u[p] EXCEPT !.call = "pipe2"] EXCEPT !.stk = <<"pipeFails">>]))
    BY DEF PipendFails
  <2>5. Returning([[u[p] EXCEPT !.call = "pipe2"] EXCEPT !.stk = <<"pipeFails">>])
          = [u[p] EXCEPT !.pc = "pipeFails"]
    <3>1. Head(<<"pipeFails">>) = "pipeFails" /\ Tail(<<"pipeFails">>) = <<>>
      OBVIOUS
    <3> QED  BY <2>2, <2>6, <3>1 DEF Returning, Locals
  <2> QED  BY <2>1, <2>4, <2>5, <2>6 DEF PipendFails, RunsOn
<1>2. /\ u[p] \in Locals /\ u[p].pc = "pipend" /\ Fits(u[p]) /\ cpu \in {p, NoProc}
      /\ u[p].pc \in Label /\ u[p].stk \in Seq(Label) /\ Chain(u[p].pc, u[p].stk)
      /\ u[p].stk = <<>> /\ Bottom("pipend", <<>>) = "pipend" /\ Frames("pipend", <<>>) = {"pipend"}
  <2>1. Callers("pipend") = {}
    BY DEF Callers
  <2> QED  BY <1>1, <2>1, HereBase
<1>3. /\ r \in Locals /\ r = [u[p] EXCEPT !.pc = "pipeFails"]
      /\ r.pc = "pipeFails" /\ r.stk = <<>>
      /\ Chain("pipeFails", <<>>) /\ Bottom("pipeFails", <<>>) = "pipeFails" /\ Frames("pipeFails", <<>>) = {"pipeFails"}
  <2>1. "pipeFails" \in Label
    BY DEF Label
  <2>2. Chain("pipeFails", <<>>) /\ Bottom("pipeFails", <<>>) = "pipeFails" /\ Frames("pipeFails", <<>>) = {"pipeFails"}
    BY BasePlace DEF Callers
  <2> QED  BY <1>1, <1>2, <2>1, <2>2 DEF Locals, Fits
<1> HIDE DEF r
<1>4. Fits(r)
  BY <1>1, <1>2, <1>3, SlotNotZero DEF Fits
<1>5. ~Alone(r) /\ ~Fresh(r)
  BY <1>3 DEF Alone, Fresh
<1>6. \A s \in Slots : Tally(r, file[p], s) <= Tally(u[p], file[p], s)
  BY <1>1, <1>2, <1>3, SlotNotZero DEF Tally
<1>7. TypeOK'
  BY <1>1, <1>3 DEF IInv, TypeOK, Go, volVars, fsVars, sysVars
<1>8. /\ Changes(p, r, file[p]) /\ freel' = freel
      /\ \A s \in Slots : /\ inode'[s].num = inode[s].num
                          /\ inode'[s].count = inode[s].count
                          /\ inode'[s].lock = inode[s].lock
  BY <1>1 DEF IInv, TypeOK, Changes, Go, sysVars
<1> QED  BY <1>2, <1>4, <1>5, <1>6, <1>7, <1>8, QuietStep

\* The first end goes back; the second is tried.
LEMMA PipendFailsFirst ==
  ASSUME IInv, NEW p \in Procs, PipendFails(p), u[p].ip # 0, u[p].call = "pipe"
  PROVE  IInv'
<1> DEFINE r == Calling([u[p] EXCEPT !.call = "pipe2"], "iput", <<"ialloc", "pipend">>)
<1>1. /\ At(p, "pipend") /\ Go(p, r) /\ cpu' \in {p, NoProc} /\ wchan' = wchan
      /\ Edited(inode, inode')
      /\ UNCHANGED <<freel, volVars, sysVars>>
      /\ u[p].err
  <2>1. At(p, "pipend") /\ u[p].err /\ Callers("pipend") = {}
    BY DEF PipendFails, Callers
  <2>2. u[p] \in Locals /\ u[p].stk = <<>>
    BY <2>1, HereBase
  <2>3. Edited(inode, inode')
    <3>1. u[p].ip \in Slots /\ inode \in [Slots -> InodeRec]
      BY <2>1, PlacesAt, InodeType
    <3>2. inode' = [inode EXCEPT ![u[p].ip].mode = "REG"]
      BY DEF PipendFails
    <3>3. PICK e : e = [inode[u[p].ip] EXCEPT !.mode = "REG"]
      OBVIOUS
    <3>4. inode' = [inode EXCEPT ![u[p].ip] = e]
      BY <3>2, <3>3
    <3>5. /\ e \in InodeRec /\ e.num = inode[u[p].ip].num
          /\ e.count = inode[u[p].ip].count /\ e.lock = inode[u[p].ip].lock
      BY <3>1, <3>3, "REG" \in Mode DEF InodeRec, Mode
    <3> QED  BY <3>1, <3>4, <3>5, EditAt
  <2> QED  BY <2>1, <2>3 DEF PipendFails, RunsOn
<1>2. /\ u[p] \in Locals /\ u[p].pc = "pipend" /\ Fits(u[p]) /\ cpu \in {p, NoProc}
      /\ u[p].pc \in Label /\ u[p].stk \in Seq(Label) /\ Chain(u[p].pc, u[p].stk)
      /\ u[p].stk = <<>> /\ Bottom("pipend", <<>>) = "pipend" /\ Frames("pipend", <<>>) = {"pipend"}
  <2>1. Callers("pipend") = {}
    BY DEF Callers
  <2> QED  BY <1>1, <2>1, HereBase
<1>0. PICK t : t = <<"ialloc", "pipend">> \o <<>>
  OBVIOUS
<1>3. /\ r \in Locals /\ r = [u[p] EXCEPT !.pc = "iput", !.stk = t, !.call = "pipe2"]
      /\ r.pc = "iput" /\ r.stk = t
      /\ Chain("iput", t) /\ Bottom("iput", t) = "pipend" /\ t[1] = "ialloc"
      /\ Frames("iput", t) \subseteq {"iput", "ialloc", "pipend"}
  <2>1. "iput" \in Label /\ "ialloc" \in Label /\ "pipend" \in Label
    BY DEF Label
  <2>2. "ialloc" \in Callers("iput") /\ Callers("pipend") = {} /\ "pipend" \in Callers("ialloc")
    BY DEF Callers
  <2>3. /\ Chain("iput", t) /\ Bottom("iput", t) = "pipend" /\ t[1] = "ialloc" /\ t \in Seq(Label)
        /\ Frames("iput", t) \subseteq {"iput", "ialloc", "pipend"}
    BY <1>0, <2>1, <2>2, Call2
  <2>4. r = [u[p] EXCEPT !.pc = "iput", !.stk = t, !.call = "pipe2"]
    BY <1>0, <1>2 DEF Calling, Locals
  <2> HIDE DEF r
  <2>5. u[p] \in Locals
    BY <1>2
  <2>6. r \in Locals /\ r.pc \in Label /\ r.stk = t
    BY <2>1, <2>3, <2>4, <2>5 DEF Locals
  <2> QED  BY <2>3, <2>4, <2>5, <2>6 DEF Locals
<1> HIDE DEF r
<1>4. Fits(r)
  BY <1>1, <1>2, <1>3, SlotNotZero DEF Fits
<1>5. ~Alone(r) /\ ~Fresh(r)
  BY <1>3 DEF Alone, Fresh
<1>6. \A s \in Slots : Tally(r, file[p], s) <= Tally(u[p], file[p], s)
  BY <1>1, <1>2, <1>3, SlotNotZero DEF Tally
<1>7. TypeOK'
  BY <1>1, <1>3 DEF IInv, TypeOK, Go, volVars, fsVars, sysVars, Edited, InodeRec
<1>8. /\ Changes(p, r, file[p]) /\ freel' = freel
      /\ \A s \in Slots : /\ inode'[s].num = inode[s].num
                          /\ inode'[s].count = inode[s].count
                          /\ inode'[s].lock = inode[s].lock
  BY <1>1 DEF IInv, TypeOK, Changes, Go, sysVars, Edited
<1> QED  BY <1>2, <1>4, <1>5, <1>6, <1>7, <1>8, QuietStep

\* The second end goes back.
LEMMA PipendFailsSecond ==
  ASSUME IInv, NEW p \in Procs, PipendFails(p), u[p].ip # 0, u[p].call # "pipe"
  PROVE  IInv'
<1> DEFINE r == Calling([u[p] EXCEPT !.call = "pipe2"], "iput", <<"pipeFails">>)
<1>1. /\ At(p, "pipend") /\ Go(p, r) /\ cpu' \in {p, NoProc} /\ wchan' = wchan
      /\ Edited(inode, inode')
      /\ UNCHANGED <<freel, volVars, sysVars>>
      /\ u[p].err
  <2>1. At(p, "pipend") /\ u[p].err /\ Callers("pipend") = {}
    BY DEF PipendFails, Callers
  <2>2. u[p] \in Locals /\ u[p].stk = <<>>
    BY <2>1, HereBase
  <2>3. Edited(inode, inode')
    <3>1. u[p].ip \in Slots /\ inode \in [Slots -> InodeRec]
      BY <2>1, PlacesAt, InodeType
    <3>2. inode' = [inode EXCEPT ![u[p].ip].mode = "REG"]
      BY DEF PipendFails
    <3>3. PICK e : e = [inode[u[p].ip] EXCEPT !.mode = "REG"]
      OBVIOUS
    <3>4. inode' = [inode EXCEPT ![u[p].ip] = e]
      BY <3>2, <3>3
    <3>5. /\ e \in InodeRec /\ e.num = inode[u[p].ip].num
          /\ e.count = inode[u[p].ip].count /\ e.lock = inode[u[p].ip].lock
      BY <3>1, <3>3, "REG" \in Mode DEF InodeRec, Mode
    <3> QED  BY <3>1, <3>4, <3>5, EditAt
  <2> QED  BY <2>1, <2>3 DEF PipendFails, RunsOn
<1>2. /\ u[p] \in Locals /\ u[p].pc = "pipend" /\ Fits(u[p]) /\ cpu \in {p, NoProc}
      /\ u[p].pc \in Label /\ u[p].stk \in Seq(Label) /\ Chain(u[p].pc, u[p].stk)
      /\ u[p].stk = <<>> /\ Bottom("pipend", <<>>) = "pipend" /\ Frames("pipend", <<>>) = {"pipend"}
  <2>1. Callers("pipend") = {}
    BY DEF Callers
  <2> QED  BY <1>1, <2>1, HereBase
<1>0. PICK t : t = <<"pipeFails">> \o <<>>
  OBVIOUS
<1>3. /\ r \in Locals /\ r = [u[p] EXCEPT !.pc = "iput", !.stk = t, !.call = "pipe2"]
      /\ r.pc = "iput" /\ r.stk = t
      /\ Chain("iput", t) /\ Bottom("iput", t) = "pipeFails" /\ t[1] = "pipeFails"
      /\ Frames("iput", t) \subseteq {"iput", "pipeFails"}
  <2>1. "iput" \in Label /\ "pipeFails" \in Label
    BY DEF Label
  <2>2. "pipeFails" \in Callers("iput") /\ Callers("pipeFails") = {}
    BY DEF Callers
  <2>3. /\ Chain("iput", t) /\ Bottom("iput", t) = "pipeFails" /\ t[1] = "pipeFails" /\ t \in Seq(Label)
        /\ Frames("iput", t) \subseteq {"iput", "pipeFails"}
    BY <1>0, <2>1, <2>2, CallBase
  <2>4. r = [u[p] EXCEPT !.pc = "iput", !.stk = t, !.call = "pipe2"]
    BY <1>0, <1>2 DEF Calling, Locals
  <2> HIDE DEF r
  <2>5. u[p] \in Locals
    BY <1>2
  <2>6. r \in Locals /\ r.pc \in Label /\ r.stk = t
    BY <2>1, <2>3, <2>4, <2>5 DEF Locals
  <2> QED  BY <2>3, <2>4, <2>5, <2>6 DEF Locals
<1> HIDE DEF r
<1>4. Fits(r)
  BY <1>1, <1>2, <1>3, SlotNotZero DEF Fits
<1>5. ~Alone(r) /\ ~Fresh(r)
  BY <1>3 DEF Alone, Fresh
<1>6. \A s \in Slots : Tally(r, file[p], s) <= Tally(u[p], file[p], s)
  BY <1>1, <1>2, <1>3, SlotNotZero DEF Tally
<1>7. TypeOK'
  BY <1>1, <1>3 DEF IInv, TypeOK, Go, volVars, fsVars, sysVars, Edited, InodeRec
<1>8. /\ Changes(p, r, file[p]) /\ freel' = freel
      /\ \A s \in Slots : /\ inode'[s].num = inode[s].num
                          /\ inode'[s].count = inode[s].count
                          /\ inode'[s].lock = inode[s].lock
  BY <1>1 DEF IInv, TypeOK, Changes, Go, sysVars, Edited
<1> QED  BY <1>2, <1>4, <1>5, <1>6, <1>7, <1>8, QuietStep

\* An error of pipe().
LEMMA PipendFailsStep == ASSUME IInv, NEW p \in Procs, PipendFails(p) PROVE IInv'
BY PipendNoneFirst, PipendNoneSecond, PipendFailsFirst, PipendFailsSecond

-----------------------------------------------------------------------------
(* Entering the kernel                                                     *)

\* A path has a first component.
LEMMA PathType == ASSUME NEW path \in Paths PROVE path \in Seq(Names) /\ path # <<>>
<1>1. PICK k \in 1..MaxPath : path \in [1..k -> Names]
  BY DEF Paths
<1>2. k \in Nat \ {0}
  BY <1>1, VolumeAssumption
<1>3. path \in Seq(Names) /\ Len(path) = k
  BY <1>1, <1>2
<1> QED  BY <1>2, <1>3

\* A system call is made from user mode.
LEMMA Entered ==
  ASSUME IInv, NEW p \in Procs, NEW call, Enter(p, call)
  PROVE  /\ At(p, "user") /\ cpu' = p /\ wchan' = wchan /\ left' \in 0..Budget
         /\ UNCHANGED <<inode, freel, volVars>> /\ cpu \in {p, NoProc}
         /\ u[p] \in Locals /\ u[p].pc = "user" /\ call \in Call
BY Here, VolumeAssumption DEF Enter, RunsOn, IInv, TypeOK

\* A call that starts with locals r and files F.
LEMMA EnterStep ==
  ASSUME IInv, NEW p \in Procs, NEW call, Enter(p, call), NEW r \in Locals, NEW F \in SUBSET Slots,
         Go(p, r), file' = [file EXCEPT ![p] = F], updlock' \in BOOLEAN, Fits(r),
         ~Alone(r), ~Fresh(r), \A s \in Slots : Tally(r, F, s) <= Tally(u[p], file[p], s)
  PROVE  IInv'
<1>1. /\ cpu' = p /\ wchan' = wchan /\ left' \in 0..Budget
      /\ UNCHANGED <<inode, freel, volVars>> /\ cpu \in {p, NoProc}
  BY Entered
<1>2. TypeOK'
  BY <1>1 DEF IInv, TypeOK, Go, volVars, fsVars
<1>3. Changes(p, r, F)
  BY DEF Changes, Go
<1> QED  BY <1>1, <1>2, <1>3, QuietStep

\* A call with a path name.
LEMMA CallNameiStep ==
  ASSUME IInv, NEW p \in Procs, NEW path \in Paths,
         NEW call \in {"open", "creat", "mknod", "unlink", "mkdir", "rmdir"}, CallNamei(p, call, path)
  PROVE  IInv'
<1> DEFINE r == [Idle EXCEPT !.pc = "namei", !.call = call, !.path = path, !.dp = RootSlot]
<1>1. /\ Go(p, r) /\ file' = [file EXCEPT ![p] = file[p]] /\ updlock' \in BOOLEAN
  BY DEF CallNamei, IInv, TypeOK
<1>2. PICK c \in Call : Enter(p, c)
  <2>1. \A d : Enter(p, d) => d \in Call
    BY Entered
  <2> QED  BY <2>1 DEF CallNamei
<1>3. At(p, "user") /\ u[p].pc = "user" /\ u[p] \in Locals
  BY <1>2, Entered
<1>4. path \in Seq(Names) /\ path # <<>> /\ RootSlot \in Slots
  BY PathType, RootInTable
<1>5. /\ Chain("namei", <<>>) /\ Bottom("namei", <<>>) = "namei" /\ Frames("namei", <<>>) = {"namei"}
  BY BasePlace DEF Callers
<1>6. r \in Locals
  <2>1. Idle \in Locals /\ "namei" \in Label
    BY IdleType DEF Label
  <2> QED  BY <1>4, <1>5, <2>1 DEF Locals, Call
<1>7. /\ r = [Idle EXCEPT !.pc = "namei", !.call = call, !.path = path, !.dp = RootSlot] /\ Idle \in Locals
      /\ Idle.stk = <<>> /\ Idle.tgt = 0 /\ Idle.ip = 0 /\ ~Idle.err
      /\ Idle.call = "none" /\ Idle.path = <<>> /\ Idle.to = <<>>
  BY IdleType
<1> HIDE DEF r
<1>8. Fits(r)
  BY <1>4, <1>5, <1>7, SlotNotZero DEF Fits, Locals
<1>9. ~Alone(r) /\ ~Fresh(r)
  BY <1>7 DEF Alone, Fresh, Locals
<1>10. \A x \in Slots : Tally(r, file[p], x) <= Tally(u[p], file[p], x)
  BY <1>3, <1>4, <1>5, <1>7, SlotNotZero DEF Tally, Locals
<1>11. file[p] \in SUBSET Slots
  BY DEF IInv, TypeOK
<1> QED  BY <1>1, <1>2, <1>6, <1>8, <1>9, <1>10, <1>11, EnterStep

\* link().
LEMMA CallLinkStep ==
  ASSUME IInv, NEW p \in Procs, NEW path \in Paths, NEW to \in Paths, CallLink(p, path, to)
  PROVE  IInv'
<1> DEFINE r == [Idle EXCEPT !.pc = "namei", !.call = "link", !.path = path, !.to = to, !.dp = RootSlot]
<1>1. /\ Go(p, r) /\ file' = [file EXCEPT ![p] = file[p]] /\ updlock' \in BOOLEAN
  BY DEF CallLink, IInv, TypeOK
<1>2. PICK c \in Call : Enter(p, c)
  <2>1. \A d : Enter(p, d) => d \in Call
    BY Entered
  <2> QED  BY <2>1 DEF CallLink
<1>3. At(p, "user") /\ u[p].pc = "user" /\ u[p] \in Locals
  BY <1>2, Entered
<1>4. /\ path \in Seq(Names) /\ path # <<>> /\ to \in Seq(Names) /\ to # <<>>
      /\ RootSlot \in Slots
  BY PathType, RootInTable
<1>5. /\ Chain("namei", <<>>) /\ Bottom("namei", <<>>) = "namei" /\ Frames("namei", <<>>) = {"namei"}
  BY BasePlace DEF Callers
<1>6. r \in Locals
  <2>1. Idle \in Locals /\ "namei" \in Label
    BY IdleType DEF Label
  <2> QED  BY <1>4, <1>5, <2>1 DEF Locals, Call
<1>7. /\ r = [Idle EXCEPT !.pc = "namei", !.call = "link", !.path = path, !.to = to, !.dp = RootSlot] /\ Idle \in Locals
      /\ Idle.stk = <<>> /\ Idle.tgt = 0 /\ Idle.ip = 0 /\ ~Idle.err
      /\ Idle.call = "none" /\ Idle.path = <<>> /\ Idle.to = <<>>
  BY IdleType
<1> HIDE DEF r
<1>8. Fits(r)
  BY <1>4, <1>5, <1>7, SlotNotZero DEF Fits, Locals
<1>9. ~Alone(r) /\ ~Fresh(r)
  BY <1>7 DEF Alone, Fresh, Locals
<1>10. \A x \in Slots : Tally(r, file[p], x) <= Tally(u[p], file[p], x)
  BY <1>3, <1>4, <1>5, <1>7, SlotNotZero DEF Tally, Locals
<1>11. file[p] \in SUBSET Slots
  BY DEF IInv, TypeOK
<1> QED  BY <1>1, <1>2, <1>6, <1>8, <1>9, <1>10, <1>11, EnterStep

\* close().
LEMMA CloseStep ==
  ASSUME IInv, NEW p \in Procs, NEW s \in Slots, Close(p, s)
  PROVE  IInv'
<1> DEFINE r == [Idle EXCEPT !.pc = "plock", !.stk = <<"iput", "done">>, !.call = "close", !.ip = s]
<1>1. /\ Go(p, r) /\ file' = [file EXCEPT ![p] = file[p] \ {s}] /\ updlock' \in BOOLEAN
  BY DEF Close, IInv, TypeOK
<1>2. PICK c \in Call : Enter(p, c)
  <2>1. \A d : Enter(p, d) => d \in Call
    BY Entered
  <2> QED  BY <2>1 DEF Close
<1>3. At(p, "user") /\ u[p].pc = "user" /\ u[p] \in Locals
  BY <1>2, Entered
<1>4. s \in file[p]
  BY DEF Close
<1>5. /\ Chain("plock", <<"iput", "done">>) /\ Bottom("plock", <<"iput", "done">>) = "done"
      /\ Frames("plock", <<"iput", "done">>) = {"plock", "iput", "done"} /\ <<"iput", "done">> \in Seq(Label)
  <2>1. "plock" \in Label /\ "iput" \in Label /\ "done" \in Label
    BY DEF Label
  <2>2. "iput" \in Callers("plock") /\ "done" \in Callers("iput") /\ Callers("done") = {}
    BY DEF Callers
  <2>3. PICK t : t = <<"iput", "done">> \o <<>>
    OBVIOUS
  <2>4. t = <<"iput", "done">>
    BY <2>3
  <2>5. /\ Chain("plock", t) /\ Bottom("plock", t) = "done"
        /\ Frames("plock", t) = {"plock", "iput", "done"} /\ t \in Seq(Label)
    BY <2>1, <2>2, <2>3, Call2
  <2> QED  BY <2>4, <2>5
<1>6. r \in Locals
  <2>1. Idle \in Locals /\ "plock" \in Label
    BY IdleType DEF Label
  <2> QED  BY <1>4, <1>5, <2>1 DEF Locals, Call
<1>7. /\ r = [Idle EXCEPT !.pc = "plock", !.stk = <<"iput", "done">>, !.call = "close", !.ip = s] /\ Idle \in Locals
      /\ Idle.stk = <<>> /\ Idle.tgt = 0 /\ Idle.ip = 0 /\ ~Idle.err
      /\ Idle.call = "none" /\ Idle.path = <<>> /\ Idle.to = <<>>
  BY IdleType
<1> HIDE DEF r
<1>8. Fits(r)
  BY <1>4, <1>5, <1>7, SlotNotZero DEF Fits, Locals
<1>9. ~Alone(r) /\ ~Fresh(r)
  BY <1>7 DEF Alone, Fresh, Locals
<1>10. \A x \in Slots : Tally(r, file[p] \ {s}, x) <= Tally(u[p], file[p], x)
  BY <1>3, <1>4, <1>5, <1>7, SlotNotZero DEF Tally, Locals
<1>11. file[p] \ {s} \in SUBSET Slots
  BY DEF IInv, TypeOK
<1> QED  BY <1>1, <1>2, <1>6, <1>8, <1>9, <1>10, <1>11, EnterStep

\* pipe().
LEMMA PipeStep ==
  ASSUME IInv, NEW p \in Procs, Pipe(p)
  PROVE  IInv'
<1> DEFINE r == [Idle EXCEPT !.pc = "ialloc", !.stk = <<"pipend">>, !.call = "pipe"]
<1>1. /\ Go(p, r) /\ file' = [file EXCEPT ![p] = file[p]] /\ updlock' \in BOOLEAN
  BY DEF Pipe, IInv, TypeOK
<1>2. PICK c \in Call : Enter(p, c)
  <2>1. \A d : Enter(p, d) => d \in Call
    BY Entered
  <2> QED  BY <2>1 DEF Pipe
<1>3. At(p, "user") /\ u[p].pc = "user" /\ u[p] \in Locals
  BY <1>2, Entered
<1>4. file[p] = file[p]
  OBVIOUS
<1>5. /\ Chain("ialloc", <<"pipend">>) /\ Bottom("ialloc", <<"pipend">>) = "pipend"
      /\ Frames("ialloc", <<"pipend">>) = {"ialloc", "pipend"} /\ <<"pipend">> \in Seq(Label)
  <2>1. "ialloc" \in Label /\ "pipend" \in Label
    BY DEF Label
  <2>2. "pipend" \in Callers("ialloc") /\ Callers("pipend") = {}
    BY DEF Callers
  <2>3. PICK t : t = <<"pipend">> \o <<>>
    OBVIOUS
  <2>4. t = <<"pipend">>
    BY <2>3
  <2>5. /\ Chain("ialloc", t) /\ Bottom("ialloc", t) = "pipend"
        /\ Frames("ialloc", t) = {"ialloc", "pipend"} /\ t \in Seq(Label)
    BY <2>1, <2>2, <2>3, CallBase
  <2> QED  BY <2>4, <2>5
<1>6. r \in Locals
  <2>1. Idle \in Locals /\ "ialloc" \in Label
    BY IdleType DEF Label
  <2> QED  BY <1>4, <1>5, <2>1 DEF Locals, Call
<1>7. /\ r = [Idle EXCEPT !.pc = "ialloc", !.stk = <<"pipend">>, !.call = "pipe"] /\ Idle \in Locals
      /\ Idle.stk = <<>> /\ Idle.tgt = 0 /\ Idle.ip = 0 /\ ~Idle.err
      /\ Idle.call = "none" /\ Idle.path = <<>> /\ Idle.to = <<>>
  BY IdleType
<1> HIDE DEF r
<1>8. Fits(r)
  BY <1>4, <1>5, <1>7, SlotNotZero DEF Fits, Locals
<1>9. ~Alone(r) /\ ~Fresh(r)
  BY <1>7 DEF Alone, Fresh, Locals
<1>10. \A x \in Slots : Tally(r, file[p], x) <= Tally(u[p], file[p], x)
  BY <1>3, <1>4, <1>5, <1>7, SlotNotZero DEF Tally, Locals
<1>11. file[p] \in SUBSET Slots
  BY DEF IInv, TypeOK
<1> QED  BY <1>1, <1>2, <1>6, <1>8, <1>9, <1>10, <1>11, EnterStep

\* sync().
LEMMA SyncStep ==
  ASSUME IInv, NEW p \in Procs, Sync(p)
  PROVE  IInv'
<1> DEFINE r == [Idle EXCEPT !.pc = "update", !.call = "sync"]
<1>1. /\ Go(p, r) /\ file' = [file EXCEPT ![p] = file[p]] /\ updlock' \in BOOLEAN
  BY DEF Sync, IInv, TypeOK
<1>2. PICK c \in Call : Enter(p, c)
  <2>1. \A d : Enter(p, d) => d \in Call
    BY Entered
  <2> QED  BY <2>1 DEF Sync
<1>3. At(p, "user") /\ u[p].pc = "user" /\ u[p] \in Locals
  BY <1>2, Entered
<1>4. file[p] = file[p]
  OBVIOUS
<1>5. /\ Chain("update", <<>>) /\ Bottom("update", <<>>) = "update" /\ Frames("update", <<>>) = {"update"}
  BY BasePlace DEF Callers
<1>6. r \in Locals
  <2>1. Idle \in Locals /\ "update" \in Label
    BY IdleType DEF Label
  <2> QED  BY <1>4, <1>5, <2>1 DEF Locals, Call
<1>7. /\ r = [Idle EXCEPT !.pc = "update", !.call = "sync"] /\ Idle \in Locals
      /\ Idle.stk = <<>> /\ Idle.tgt = 0 /\ Idle.ip = 0 /\ ~Idle.err
      /\ Idle.call = "none" /\ Idle.path = <<>> /\ Idle.to = <<>>
  BY IdleType
<1> HIDE DEF r
<1>8. Fits(r)
  BY <1>4, <1>5, <1>7, SlotNotZero DEF Fits, Locals
<1>9. ~Alone(r) /\ ~Fresh(r)
  BY <1>7 DEF Alone, Fresh, Locals
<1>10. \A x \in Slots : Tally(r, file[p], x) <= Tally(u[p], file[p], x)
  BY <1>3, <1>4, <1>5, <1>7, SlotNotZero DEF Tally, Locals
<1>11. file[p] \in SUBSET Slots
  BY DEF IInv, TypeOK
<1> QED  BY <1>1, <1>2, <1>6, <1>8, <1>9, <1>10, <1>11, EnterStep

-----------------------------------------------------------------------------
(* References taken and given up                                           *)

\* Slot s gets the record e, of the same inode.
Reset(s, e) == /\ inode' = [inode EXCEPT ![s] = e]
               /\ e \in InodeRec /\ e.num = inode[s].num
               /\ s \in Slots /\ inode[s].count >= 1 /\ e.count >= 1

\* A step that changes the references to one inode that is in core.
LEMMA CountStep ==
  ASSUME IInv, NEW p \in Procs, NEW r, NEW F, NEW s, NEW e, cpu \in {p, NoProc},
         Changes(p, r, F), TypeOK', Fits(r), ~Fresh(r), Reset(s, e), freel' = freel,
         Alone(r) => r.ip = s /\ e.count = 1 /\ e.lock,
         \A x \in Slots : x # s => Tally(r, F, x) <= Tally(u[p], file[p], x),
         e.count - Tally(r, F, s) >= inode[s].count - Tally(u[p], file[p], s),
         \/ ~inode[s].lock
         \/ Tally(u[p], file[p], s) # 0
         \/ e.count = inode[s].count /\ e.lock = inode[s].lock
  PROVE  IInv'
<1>1. u'[p] = r /\ inode \in [Slots -> InodeRec] /\ s \in Slots
  BY InodeType DEF Changes, IInv, TypeOK, Reset
<1>2. inode'[s] = e /\ \A x \in Slots : x # s => inode'[x] = inode[x]
  BY <1>1 DEF Reset
<1>3. Placed(p)'
  BY <1>1, <1>2 DEF Placed
<1>4. Slotted'
  <2>1. \A x \in Slots : inode'[x].num = inode[x].num
    BY <1>2 DEF Reset
  <2>2. \A x \in Slots : inode'[x].count = 0 <=> inode[x].count = 0
    BY <1>2 DEF Reset
  <2> QED  BY <2>1, <2>2 DEF IInv, Slotted
<1>5. CountsKept(p, r, F)
  <2>1. \A x \in Slots : Tally(r, F, x) \in Nat /\ Tally(u[p], file[p], x) \in Nat
    BY TallyIsCount
  <2>2. \A x \in Slots : inode[x].count \in Nat
    BY DEF IInv, TypeOK
  <2>3. ASSUME NEW x \in Slots, x # s
        PROVE  /\ inode'[x].count - Tally(r, F, x) >= inode[x].count - Tally(u[p], file[p], x)
               /\ inode'[x].count = inode[x].count /\ inode'[x].lock = inode[x].lock
    <3>1. inode'[x] = inode[x] /\ Tally(r, F, x) <= Tally(u[p], file[p], x)
      BY <1>2, <2>3
    <3> QED  BY <2>1, <2>2, <3>1
  <2>4. /\ inode'[s].count - Tally(r, F, s) >= inode[s].count - Tally(u[p], file[p], s)
        /\ Tally(u[p], file[p], s) = 0 /\ inode[s].count = 1 /\ inode[s].lock
             => inode'[s].count = 1 /\ inode'[s].lock
    BY <1>2
  <2> QED  BY <2>3, <2>4 DEF CountsKept
<1> QED  BY <1>3, <1>4, <1>5, StepInv

\* The root directory stays in core.
LEMMA RootInCore == ASSUME IInv PROVE inode[RootSlot].count >= 1
<1>1. RootSlot \in Slots
  BY RootInTable
<1>2. inode[RootSlot].count >= Root(RootSlot) + Cardinality(References(RootSlot))
  BY <1>1 DEF IInv, Covered
<1> QED  BY <1>1, <1>2, RefsFinite DEF Root, IInv, TypeOK

\* Who prele wakes is awake.
LEMMA PreleType ==
  ASSUME IInv, NEW s \in Slots, PreleWakes(s)
  PROVE  wchan' \in [Procs -> Slots \cup {Awake, IlockChan}]
<1>1. wchan \in [Procs -> Slots \cup {Awake, IlockChan}]
  BY DEF IInv, TypeOK
<1>2. CASE inode[s].want
  BY <1>1, <1>2, AwakenedType DEF PreleWakes
<1>3. CASE ~inode[s].want
  BY <1>1, <1>3 DEF PreleWakes
<1> QED  BY <1>2, <1>3

\* An inode that a process refers to has a count.
LEMMA CountPositive ==
  ASSUME IInv, NEW p \in Procs, NEW s \in Slots,
         \/ HasIp(u[p]) /\ u[p].ip = s
         \/ HasDip(u[p]) /\ u[p].dip = s
  PROVE  inode[s].count >= 1 /\ Tally(u[p], file[p], s) # 0
<1> HIDE DEF HasIp, HasDip, HasDp
<1>1. Tally(u[p], file[p], s) # 0
  BY DEF Tally
<1> QED  BY <1>1, ReferredInCore

-----------------------------------------------------------------------------
(* Inodes locked and released                                              *)

\* The inode is locked.
LEMMA PlockStep ==
  ASSUME IInv, NEW p \in Procs, Plock(p), UNCHANGED sysVars
  PROVE  IInv'
<1>e. PICK e : e = [inode[u[p].ip] EXCEPT !.lock = TRUE]
  OBVIOUS
<1> DEFINE r == Returning([u[p] EXCEPT !.held = @ \cup {u[p].ip}])
<1>1. /\ At(p, "plock") /\ Go(p, r) /\ cpu' \in {p, NoProc}
      /\ wchan' \in [Procs -> Slots \cup {Awake, IlockChan}]
      /\ Reset(u[p].ip, e) /\ e.count = inode[u[p].ip].count /\ e.lock = TRUE
      /\ inode[u[p].ip].count \in Nat /\ u[p].ip \in Slots
      /\ UNCHANGED <<freel, volVars, sysVars>>
  <2>1. At(p, "plock")
    BY DEF Plock
  <2>2. u[p].ip \in Slots /\ HasIp(u[p])
    BY <2>1, Here, PlacesInCore
  <2>3. inode[u[p].ip] \in InodeRec
    BY <2>2, InodeType
  <2>4. inode' = [inode EXCEPT ![u[p].ip] = e]
    BY <1>e, <2>3 DEF Plock, Released
  <2>5. e \in InodeRec /\ e.num = inode[u[p].ip].num /\ e.count = inode[u[p].ip].count /\ e.lock = TRUE
    BY <1>e, <2>3 DEF InodeRec, Mode
  <2>6. wchan' \in [Procs -> Slots \cup {Awake, IlockChan}]
    BY DEF Plock, RunsOn, MaySleep, IInv, TypeOK
  <2>7. inode[u[p].ip].count >= 1
    BY <2>2, CountPositive
  <2>8. inode[u[p].ip].count \in Nat
    BY <2>3 DEF InodeRec
  <2>9. Reset(u[p].ip, e)
    BY <2>2, <2>4, <2>5, <2>7, <2>8 DEF Reset
  <2> QED  BY <2>1, <2>2, <2>5, <2>6, <2>7, <2>8, <2>9 DEF Plock, Fails, Goto, RunsOn, MaySleep, Put
<1>2. /\ u[p] \in Locals /\ u[p].pc = "plock" /\ Fits(u[p]) /\ cpu \in {p, NoProc}
      /\ "plock" \in Label /\ u[p].stk \in Seq(Label) /\ Chain("plock", u[p].stk)
  BY <1>1, Here
<1>0. PICK h, t : h = Head(u[p].stk) /\ t = Tail(u[p].stk)
  OBVIOUS
<1>3. /\ r \in Locals /\ r = [u[p] EXCEPT !.pc = h, !.stk = t, !.held = @ \cup {u[p].ip}]
      /\ r.pc = h /\ r.stk = t /\ h \in {"iput"} /\ h = u[p].stk[1]
      /\ Chain(h, t) /\ Bottom(h, t) = Bottom("plock", u[p].stk)
      /\ Frames(h, t) \subseteq Frames("plock", u[p].stk)
  <2>1. Callers("plock") = {"iput"}
    BY DEF Callers
  <2>2. /\ h \in {"iput"} /\ h \in Label /\ h = u[p].stk[1] /\ t \in Seq(Label)
        /\ Chain(h, t) /\ Bottom(h, t) = Bottom("plock", u[p].stk)
        /\ Frames(h, t) \subseteq Frames("plock", u[p].stk)
    BY <1>0, <1>2, <2>1, Return
  <2>3. r = [u[p] EXCEPT !.pc = h, !.stk = t, !.held = @ \cup {u[p].ip}]
    BY <1>0, <1>2 DEF Returning, Fails, Locals
  <2> HIDE DEF r
  <2> QED  BY <1>1, <1>2, <2>2, <2>3 DEF Locals, Fits
<1> HIDE DEF r
<1>4. Fits(r)
  BY <1>1, <1>2, <1>3, SlotNotZero DEF Fits
<1>5. ~Alone(r) /\ ~Fresh(r)
  BY <1>3 DEF Alone, Fresh
<1>6. \A x \in Slots : x # u[p].ip => Tally(r, file[p], x) <= Tally(u[p], file[p], x)
  BY <1>1, <1>2, <1>3, SlotNotZero DEF Tally
<1>7. e.count - Tally(r, file[p], u[p].ip) >= inode[u[p].ip].count - Tally(u[p], file[p], u[p].ip)
  BY <1>1, <1>2, <1>3, SlotNotZero DEF Tally
<1>8. ~inode[u[p].ip].lock \/ Tally(u[p], file[p], u[p].ip) # 0
  BY <1>1, <1>2, CountPositive DEF Reset
<1>9. TypeOK'
  BY <1>1, <1>3 DEF IInv, TypeOK, Go, volVars, fsVars, sysVars, Reset, InodeRec
<1>10. Changes(p, r, file[p])
  BY <1>1 DEF IInv, TypeOK, Changes, Go, sysVars
<1> QED  BY <1>1, <1>2, <1>4, <1>5, <1>6, <1>7, <1>8, <1>9, <1>10, CountStep

\* One reference of many goes.
LEMMA IputSharedStep ==
  ASSUME IInv, NEW p \in Procs, IputShared(p), UNCHANGED sysVars
  PROVE  IInv'
<1>e. PICK e : e = [inode[u[p].ip] EXCEPT !.lock = FALSE, !.want = FALSE, !.count = inode[u[p].ip].count - 1]
  OBVIOUS
<1> DEFINE r == Returning([u[p] EXCEPT !.held = @ \ {u[p].ip}])
<1>1. /\ At(p, "iput") /\ Go(p, r) /\ cpu' \in {p, NoProc}
      /\ wchan' \in [Procs -> Slots \cup {Awake, IlockChan}]
      /\ Reset(u[p].ip, e) /\ e.count = inode[u[p].ip].count - 1 /\ e.lock = FALSE
      /\ inode[u[p].ip].count \in Nat /\ u[p].ip \in Slots
      /\ UNCHANGED <<freel, volVars, sysVars>>
      /\ inode[u[p].ip].count > 1
  <2>1. At(p, "iput")
    BY DEF IputShared
  <2>2. u[p].ip \in Slots /\ HasIp(u[p])
    BY <2>1, Here, PlacesInCore
  <2>3. inode[u[p].ip] \in InodeRec
    BY <2>2, InodeType
  <2>10. inode[u[p].ip].count - 1 \in Nat
    BY <2>3 DEF IputShared, InodeRec
  <2>4. inode' = [inode EXCEPT ![u[p].ip] = e]
    BY <1>e, <2>3 DEF IputShared, Released
  <2>5. e \in InodeRec /\ e.num = inode[u[p].ip].num /\ e.count = inode[u[p].ip].count - 1 /\ e.lock = FALSE
    BY <1>e, <2>3, <2>10 DEF InodeRec, Mode
  <2>6. wchan' \in [Procs -> Slots \cup {Awake, IlockChan}]
    BY <2>2, PreleType DEF IputShared
  <2>7. inode[u[p].ip].count > 1
    BY DEF IputShared
  <2>8. inode[u[p].ip].count \in Nat
    BY <2>3 DEF InodeRec
  <2>9. Reset(u[p].ip, e)
    BY <2>2, <2>4, <2>5, <2>7, <2>8 DEF Reset
  <2> QED  BY <2>1, <2>2, <2>5, <2>6, <2>7, <2>8, <2>9 DEF IputShared, Fails, Goto, RunsOn, MaySleep, Put
<1>2. /\ u[p] \in Locals /\ u[p].pc = "iput" /\ Fits(u[p]) /\ cpu \in {p, NoProc}
      /\ "iput" \in Label /\ u[p].stk \in Seq(Label) /\ Chain("iput", u[p].stk)
  BY <1>1, Here
<1>0. PICK h, t : h = Head(u[p].stk) /\ t = Tail(u[p].stk)
  OBVIOUS
<1>3. /\ r \in Locals /\ r = [u[p] EXCEPT !.pc = h, !.stk = t, !.held = @ \ {u[p].ip}]
      /\ r.pc = h /\ r.stk = t /\ h \in {"done", "out", "made", "update", "pipeFails", "iget", "ialloc", "iallocLoop", "igetNull"} /\ h = u[p].stk[1]
      /\ Chain(h, t) /\ Bottom(h, t) = Bottom("iput", u[p].stk)
      /\ Frames(h, t) \subseteq Frames("iput", u[p].stk)
  <2>1. Callers("iput") = {"done", "out", "made", "update", "pipeFails", "iget", "ialloc", "iallocLoop", "igetNull"}
    BY DEF Callers
  <2>2. /\ h \in {"done", "out", "made", "update", "pipeFails", "iget", "ialloc", "iallocLoop", "igetNull"} /\ h \in Label /\ h = u[p].stk[1] /\ t \in Seq(Label)
        /\ Chain(h, t) /\ Bottom(h, t) = Bottom("iput", u[p].stk)
        /\ Frames(h, t) \subseteq Frames("iput", u[p].stk)
    BY <1>0, <1>2, <2>1, Return
  <2>3. r = [u[p] EXCEPT !.pc = h, !.stk = t, !.held = @ \ {u[p].ip}]
    BY <1>0, <1>2 DEF Returning, Fails, Locals
  <2> HIDE DEF r
  <2> QED  BY <1>1, <1>2, <2>2, <2>3 DEF Locals, Fits
<1> HIDE DEF r
<1>4. Fits(r)
  BY <1>1, <1>2, <1>3, SlotNotZero DEF Fits
<1>5. ~Alone(r) /\ ~Fresh(r)
  BY <1>3 DEF Alone, Fresh
<1>6. \A x \in Slots : x # u[p].ip => Tally(r, file[p], x) <= Tally(u[p], file[p], x)
  BY <1>1, <1>2, <1>3, SlotNotZero DEF Tally
<1>7. e.count - Tally(r, file[p], u[p].ip) >= inode[u[p].ip].count - Tally(u[p], file[p], u[p].ip)
  <2>1. /\ ~HasIp(r) /\ HasIp(u[p]) /\ r.dp = u[p].dp /\ r.dip = u[p].dip /\ r.tgt = u[p].tgt
        /\ Bottom(r.pc, r.stk) = Bottom(u[p].pc, u[p].stk)
    BY <1>2, <1>3 DEF Locals
  <2>2. e.count = inode[u[p].ip].count - 1 /\ inode[u[p].ip].count \in Nat
    BY <1>1
  <2> HIDE DEF HasIp
  <2> QED  BY <2>1, <2>2 DEF Tally
<1>8. ~inode[u[p].ip].lock \/ Tally(u[p], file[p], u[p].ip) # 0
  BY <1>1, <1>2, CountPositive DEF Reset
<1>9. TypeOK'
  BY <1>1, <1>3 DEF IInv, TypeOK, Go, volVars, fsVars, sysVars, Reset, InodeRec
<1>10. Changes(p, r, file[p])
  BY <1>1 DEF IInv, TypeOK, Changes, Go, sysVars
<1> QED  BY <1>1, <1>2, <1>4, <1>5, <1>6, <1>7, <1>8, <1>9, <1>10, CountStep

\* The last reference to an inode without links.
LEMMA IputLastFree ==
  ASSUME IInv, NEW p \in Procs, IputLast(p), inode[u[p].ip].nlink <= 0, UNCHANGED sysVars
  PROVE  IInv'
<1>e. PICK e : e = [inode[u[p].ip] EXCEPT !.lock = TRUE]
  OBVIOUS
<1> DEFINE r == Calling([u[p] EXCEPT !.held = @ \cup {u[p].ip}, !.wait = FALSE], "itrunc", <<"iputFree">>)
<1>1. /\ At(p, "iput") /\ Go(p, r) /\ cpu' \in {p, NoProc}
      /\ wchan' \in [Procs -> Slots \cup {Awake, IlockChan}]
      /\ Reset(u[p].ip, e) /\ e.count = 1 /\ e.lock = TRUE
      /\ inode[u[p].ip].count \in Nat /\ u[p].ip \in Slots
      /\ UNCHANGED <<freel, volVars, sysVars>>
      /\ inode[u[p].ip].count = 1
  <2>1. At(p, "iput")
    BY DEF IputLast
  <2>2. u[p].ip \in Slots /\ HasIp(u[p])
    BY <2>1, Here, PlacesInCore
  <2>3. inode[u[p].ip] \in InodeRec
    BY <2>2, InodeType
  <2>4. inode' = [inode EXCEPT ![u[p].ip] = e]
    BY <1>e, <2>3 DEF IputLast, Released
  <2>5. e \in InodeRec /\ e.num = inode[u[p].ip].num /\ e.count = 1 /\ e.lock = TRUE
    BY <1>e, <2>3 DEF InodeRec, Mode, IputLast
  <2>6. wchan' \in [Procs -> Slots \cup {Awake, IlockChan}]
    BY DEF IputLast, RunsOn, MaySleep, IInv, TypeOK
  <2>7. inode[u[p].ip].count = 1
    BY DEF IputLast
  <2>8. inode[u[p].ip].count \in Nat
    BY <2>3 DEF InodeRec
  <2>9. Reset(u[p].ip, e)
    BY <2>2, <2>4, <2>5, <2>7, <2>8 DEF Reset
  <2> QED  BY <2>1, <2>2, <2>5, <2>6, <2>7, <2>8, <2>9 DEF IputLast, Fails, Goto, RunsOn, MaySleep, Put
<1>2. /\ u[p] \in Locals /\ u[p].pc = "iput" /\ Fits(u[p]) /\ cpu \in {p, NoProc}
      /\ "iput" \in Label /\ u[p].stk \in Seq(Label) /\ Chain("iput", u[p].stk)
  BY <1>1, Here
<1>0. PICK t : Pushed(t, "iputFree", u[p].stk)
  BY DEF Pushed
<1>3. /\ r \in Locals /\ r = [u[p] EXCEPT !.pc = "itrunc", !.stk = t, !.held = @ \cup {u[p].ip}, !.wait = FALSE]
      /\ r.pc = "itrunc" /\ r.stk = t /\ t[1] = "iputFree"
      /\ Chain("itrunc", t) /\ Bottom("itrunc", t) = Bottom("iput", u[p].stk)
      /\ Frames("itrunc", t) \subseteq Frames("iput", u[p].stk) \cup {"itrunc", "iputFree"}
  <2>1. "itrunc" \in Label /\ "iputFree" \in Label
    BY DEF Label
  <2>2. "iputFree" \in Callers("itrunc") /\ Callers("iputFree") = Callers("iput") /\ Callers("iput") # {}
    BY DEF Callers
  <2>3. u[p].stk # <<>>
    BY <1>2, <2>2 DEF Chain
  <2>4. /\ Chain("itrunc", t) /\ Bottom("itrunc", t) = Bottom("iput", u[p].stk) /\ t[1] = "iputFree"
        /\ t \in Seq(Label) /\ Frames("itrunc", t) \subseteq Frames("iput", u[p].stk) \cup {"itrunc", "iputFree"}
    BY <1>0, <1>2, <2>1, <2>2, <2>3, CallNested
  <2>5. r = [u[p] EXCEPT !.pc = "itrunc", !.stk = t, !.held = @ \cup {u[p].ip}, !.wait = FALSE]
    BY <1>0, <1>2 DEF Calling, Fails, Locals, Pushed
  <2> HIDE DEF r
  <2> QED  BY <1>1, <1>2, <2>1, <2>4, <2>5 DEF Locals, Fits
<1> HIDE DEF r
<1>4. Fits(r)
  BY <1>1, <1>2, <1>3, SlotNotZero DEF Fits
<1>5. ~Fresh(r) /\ (Alone(r) => r.ip = u[p].ip /\ e.count = 1 /\ e.lock)
  BY <1>1, <1>3 DEF Fresh
<1>6. \A x \in Slots : x # u[p].ip => Tally(r, file[p], x) <= Tally(u[p], file[p], x)
  BY <1>1, <1>2, <1>3, SlotNotZero DEF Tally
<1>7. e.count - Tally(r, file[p], u[p].ip) >= inode[u[p].ip].count - Tally(u[p], file[p], u[p].ip)
  BY <1>1, <1>2, <1>3, SlotNotZero DEF Tally
<1>8. ~inode[u[p].ip].lock \/ Tally(u[p], file[p], u[p].ip) # 0
  BY <1>1, <1>2, CountPositive DEF Reset
<1>9. TypeOK'
  BY <1>1, <1>3 DEF IInv, TypeOK, Go, volVars, fsVars, sysVars, Reset, InodeRec
<1>10. Changes(p, r, file[p])
  BY <1>1 DEF IInv, TypeOK, Changes, Go, sysVars
<1> QED  BY <1>1, <1>2, <1>4, <1>5, <1>6, <1>7, <1>8, <1>9, <1>10, CountStep

\* The last reference to an inode with links.
LEMMA IputLastKeep ==
  ASSUME IInv, NEW p \in Procs, IputLast(p), ~(inode[u[p].ip].nlink <= 0), UNCHANGED sysVars
  PROVE  IInv'
<1>e. PICK e : e = [inode[u[p].ip] EXCEPT !.lock = TRUE]
  OBVIOUS
<1> DEFINE r == Calling([u[p] EXCEPT !.held = @ \cup {u[p].ip}, !.wait = FALSE], "iupdat", <<"iputDone">>)
<1>1. /\ At(p, "iput") /\ Go(p, r) /\ cpu' \in {p, NoProc}
      /\ wchan' \in [Procs -> Slots \cup {Awake, IlockChan}]
      /\ Reset(u[p].ip, e) /\ e.count = 1 /\ e.lock = TRUE
      /\ inode[u[p].ip].count \in Nat /\ u[p].ip \in Slots
      /\ UNCHANGED <<freel, volVars, sysVars>>
      /\ inode[u[p].ip].count = 1
  <2>1. At(p, "iput")
    BY DEF IputLast
  <2>2. u[p].ip \in Slots /\ HasIp(u[p])
    BY <2>1, Here, PlacesInCore
  <2>3. inode[u[p].ip] \in InodeRec
    BY <2>2, InodeType
  <2>4. inode' = [inode EXCEPT ![u[p].ip] = e]
    BY <1>e, <2>3 DEF IputLast, Released
  <2>5. e \in InodeRec /\ e.num = inode[u[p].ip].num /\ e.count = 1 /\ e.lock = TRUE
    BY <1>e, <2>3 DEF InodeRec, Mode, IputLast
  <2>6. wchan' \in [Procs -> Slots \cup {Awake, IlockChan}]
    BY DEF IputLast, RunsOn, MaySleep, IInv, TypeOK
  <2>7. inode[u[p].ip].count = 1
    BY DEF IputLast
  <2>8. inode[u[p].ip].count \in Nat
    BY <2>3 DEF InodeRec
  <2>9. Reset(u[p].ip, e)
    BY <2>2, <2>4, <2>5, <2>7, <2>8 DEF Reset
  <2> QED  BY <2>1, <2>2, <2>5, <2>6, <2>7, <2>8, <2>9 DEF IputLast, Fails, Goto, RunsOn, MaySleep, Put
<1>2. /\ u[p] \in Locals /\ u[p].pc = "iput" /\ Fits(u[p]) /\ cpu \in {p, NoProc}
      /\ "iput" \in Label /\ u[p].stk \in Seq(Label) /\ Chain("iput", u[p].stk)
  BY <1>1, Here
<1>0. PICK t : Pushed(t, "iputDone", u[p].stk)
  BY DEF Pushed
<1>3. /\ r \in Locals /\ r = [u[p] EXCEPT !.pc = "iupdat", !.stk = t, !.held = @ \cup {u[p].ip}, !.wait = FALSE]
      /\ r.pc = "iupdat" /\ r.stk = t /\ t[1] = "iputDone"
      /\ Chain("iupdat", t) /\ Bottom("iupdat", t) = Bottom("iput", u[p].stk)
      /\ Frames("iupdat", t) \subseteq Frames("iput", u[p].stk) \cup {"iupdat", "iputDone"}
  <2>1. "iupdat" \in Label /\ "iputDone" \in Label
    BY DEF Label
  <2>2. "iputDone" \in Callers("iupdat") /\ Callers("iputDone") = Callers("iput") /\ Callers("iput") # {}
    BY DEF Callers
  <2>3. u[p].stk # <<>>
    BY <1>2, <2>2 DEF Chain
  <2>4. /\ Chain("iupdat", t) /\ Bottom("iupdat", t) = Bottom("iput", u[p].stk) /\ t[1] = "iputDone"
        /\ t \in Seq(Label) /\ Frames("iupdat", t) \subseteq Frames("iput", u[p].stk) \cup {"iupdat", "iputDone"}
    BY <1>0, <1>2, <2>1, <2>2, <2>3, CallNested
  <2>5. r = [u[p] EXCEPT !.pc = "iupdat", !.stk = t, !.held = @ \cup {u[p].ip}, !.wait = FALSE]
    BY <1>0, <1>2 DEF Calling, Fails, Locals, Pushed
  <2> HIDE DEF r
  <2> QED  BY <1>1, <1>2, <2>1, <2>4, <2>5 DEF Locals, Fits
<1> HIDE DEF r
<1>4. Fits(r)
  BY <1>1, <1>2, <1>3, SlotNotZero DEF Fits
<1>5. ~Fresh(r) /\ (Alone(r) => r.ip = u[p].ip /\ e.count = 1 /\ e.lock)
  BY <1>1, <1>3 DEF Fresh
<1>6. \A x \in Slots : x # u[p].ip => Tally(r, file[p], x) <= Tally(u[p], file[p], x)
  BY <1>1, <1>2, <1>3, SlotNotZero DEF Tally
<1>7. e.count - Tally(r, file[p], u[p].ip) >= inode[u[p].ip].count - Tally(u[p], file[p], u[p].ip)
  BY <1>1, <1>2, <1>3, SlotNotZero DEF Tally
<1>8. ~inode[u[p].ip].lock \/ Tally(u[p], file[p], u[p].ip) # 0
  BY <1>1, <1>2, CountPositive DEF Reset
<1>9. TypeOK'
  BY <1>1, <1>3 DEF IInv, TypeOK, Go, volVars, fsVars, sysVars, Reset, InodeRec
<1>10. Changes(p, r, file[p])
  BY <1>1 DEF IInv, TypeOK, Changes, Go, sysVars
<1> QED  BY <1>1, <1>2, <1>4, <1>5, <1>6, <1>7, <1>8, <1>9, <1>10, CountStep

\* The last reference goes.
LEMMA IputLastStep ==
  ASSUME IInv, NEW p \in Procs, IputLast(p), UNCHANGED sysVars
  PROVE  IInv'
BY IputLastFree, IputLastKeep

\* The inode is in core and not locked.
LEMMA IgetHitStep ==
  ASSUME IInv, NEW p \in Procs, IgetHit(p), UNCHANGED sysVars
  PROVE  IInv'
<1>s. PICK s \in Slots : /\ inode[s].num = u[p].ino /\ ~inode[s].lock
                         /\ inode' = [inode EXCEPT ![s].lock = TRUE, ![s].count = @ + 1]
                         /\ Go(p, Returning([u[p] EXCEPT !.ip = s, !.held = @ \cup {s}]))
  BY DEF IgetHit, InCore
<1>e. PICK e : e = [inode[s] EXCEPT !.lock = TRUE, !.count = inode[s].count + 1]
  OBVIOUS
<1> DEFINE r == Returning([u[p] EXCEPT !.ip = s, !.held = @ \cup {s}])
<1>1. /\ At(p, "iget") /\ Go(p, r) /\ cpu' \in {p, NoProc}
      /\ wchan' \in [Procs -> Slots \cup {Awake, IlockChan}]
      /\ Reset(s, e) /\ e.count = inode[s].count + 1 /\ e.lock = TRUE
      /\ inode[s].count \in Nat /\ s \in Slots
      /\ UNCHANGED <<freel, volVars, sysVars>>
      /\ ~inode[s].lock
  <2>1. At(p, "iget")
    BY DEF IgetHit
  <2>2. s \in Slots
    BY <1>s
  <2>3. inode[s] \in InodeRec
    BY <2>2, InodeType
  <2>10. inode[s].count + 1 \in Nat
    BY <2>3 DEF InodeRec
  <2>4. inode' = [inode EXCEPT ![s] = e]
    BY <1>s, <1>e, <2>3 DEF IgetHit, Released
  <2>5. e \in InodeRec /\ e.num = inode[s].num /\ e.count = inode[s].count + 1 /\ e.lock = TRUE
    BY <1>e, <2>3, <2>10 DEF InodeRec, Mode
  <2>6. wchan' \in [Procs -> Slots \cup {Awake, IlockChan}]
    BY DEF IgetHit, RunsOn, MaySleep, IInv, TypeOK
  <2>7. inode[s].count >= 1
    <3>1. u[p].ino \in Inodes
      <4>1. u[p].pc = "iget" /\ Fits(u[p])
        BY <2>1, Here
      <4>2. "iget" \in Frames(u[p].pc, u[p].stk)
        BY <4>1 DEF Frames
      <4> QED  BY <4>1, <4>2 DEF Fits
    <3>2. inode[s].num # 0
      BY <1>s, <3>1 DEF Inodes, ROOTINO
    <3>3. inode[s].count # 0
      BY <2>2, <3>2 DEF IInv, Slotted
    <3> QED  BY <2>3, <3>3 DEF InodeRec
  <2>8. inode[s].count \in Nat
    BY <2>3 DEF InodeRec
  <2>9. Reset(s, e)
    BY <2>2, <2>4, <2>5, <2>7, <2>8 DEF Reset
  <2> QED  BY <1>s, <2>1, <2>2, <2>5, <2>6, <2>7, <2>8, <2>9 DEF IgetHit, Fails, Goto, RunsOn, MaySleep, Put
<1>2. /\ u[p] \in Locals /\ u[p].pc = "iget" /\ Fits(u[p]) /\ cpu \in {p, NoProc}
      /\ "iget" \in Label /\ u[p].stk \in Seq(Label) /\ Chain("iget", u[p].stk)
  BY <1>1, Here
<1>0. PICK h, t : h = Head(u[p].stk) /\ t = Tail(u[p].stk)
  OBVIOUS
<1>3. /\ r \in Locals /\ r = [u[p] EXCEPT !.pc = h, !.stk = t, !.ip = s, !.held = @ \cup {s}]
      /\ r.pc = h /\ r.stk = t /\ h \in {"unlink", "rmdir", "descended", "iallocGot"} /\ h = u[p].stk[1]
      /\ Chain(h, t) /\ Bottom(h, t) = Bottom("iget", u[p].stk)
      /\ Frames(h, t) \subseteq Frames("iget", u[p].stk)
  <2>1. Callers("iget") = {"unlink", "rmdir", "descended", "iallocGot"}
    BY DEF Callers
  <2>2. /\ h \in {"unlink", "rmdir", "descended", "iallocGot"} /\ h \in Label /\ h = u[p].stk[1] /\ t \in Seq(Label)
        /\ Chain(h, t) /\ Bottom(h, t) = Bottom("iget", u[p].stk)
        /\ Frames(h, t) \subseteq Frames("iget", u[p].stk)
    BY <1>0, <1>2, <2>1, Return
  <2>3. r = [u[p] EXCEPT !.pc = h, !.stk = t, !.ip = s, !.held = @ \cup {s}]
    BY <1>0, <1>2 DEF Returning, Fails, Locals
  <2> HIDE DEF r
  <2> QED  BY <1>1, <1>2, <2>2, <2>3 DEF Locals, Fits
<1> HIDE DEF r
<1>4. Fits(r)
  BY <1>1, <1>2, <1>3, SlotNotZero DEF Fits
<1>5. ~Alone(r) /\ ~Fresh(r)
  BY <1>3 DEF Alone, Fresh
<1>6. \A x \in Slots : x # s => Tally(r, file[p], x) <= Tally(u[p], file[p], x)
  BY <1>1, <1>2, <1>3, SlotNotZero DEF Tally
<1>7. e.count - Tally(r, file[p], s) >= inode[s].count - Tally(u[p], file[p], s)
  BY <1>1, <1>2, <1>3, SlotNotZero DEF Tally
<1>8. ~inode[s].lock \/ Tally(u[p], file[p], s) # 0
  BY <1>1
<1>9. TypeOK'
  BY <1>1, <1>3 DEF IInv, TypeOK, Go, volVars, fsVars, sysVars, Reset, InodeRec
<1>10. Changes(p, r, file[p])
  BY <1>1 DEF IInv, TypeOK, Changes, Go, sysVars
<1> QED  BY <1>1, <1>2, <1>4, <1>5, <1>6, <1>7, <1>8, <1>9, <1>10, CountStep

\* The directory is locked and searched.
LEMMA NameiStep == ASSUME IInv, NEW p \in Procs, Namei(p) PROVE IInv'
<1>e. PICK e : e = [inode[u[p].dp] EXCEPT !.lock = TRUE, !.count = inode[u[p].dp].count + 1]
  OBVIOUS
<1> DEFINE r == [u[p] EXCEPT !.pc = "dirloop", !.held = @ \cup {u[p].dp}]
<1>1. /\ At(p, "namei") /\ Go(p, r) /\ cpu' \in {p, NoProc}
      /\ wchan' \in [Procs -> Slots \cup {Awake, IlockChan}]
      /\ Reset(u[p].dp, e) /\ e.count = inode[u[p].dp].count + 1 /\ e.lock = TRUE
      /\ inode[u[p].dp].count \in Nat /\ u[p].dp \in Slots
      /\ UNCHANGED <<freel, volVars, sysVars>>
      /\ ~inode[u[p].dp].lock
  <2>1. At(p, "namei")
    BY DEF Namei
  <2>2. u[p].dp = RootSlot /\ u[p].dp \in Slots
    <3>1. Fits(u[p]) /\ u[p].pc = "namei"
      BY <2>1, Here
    <3> QED  BY <3>1, RootInTable DEF Fits
  <2>3. inode[u[p].dp] \in InodeRec
    BY <2>2, InodeType
  <2>10. inode[u[p].dp].count + 1 \in Nat
    BY <2>3 DEF InodeRec
  <2>4. inode' = [inode EXCEPT ![u[p].dp] = e]
    BY <1>e, <2>3 DEF Namei, Released
  <2>5. e \in InodeRec /\ e.num = inode[u[p].dp].num /\ e.count = inode[u[p].dp].count + 1 /\ e.lock = TRUE
    BY <1>e, <2>3, <2>10 DEF InodeRec, Mode
  <2>6. wchan' \in [Procs -> Slots \cup {Awake, IlockChan}]
    BY DEF Namei, RunsOn, MaySleep, IInv, TypeOK
  <2>7. inode[u[p].dp].count >= 1
    BY <2>2, RootInCore
  <2>8. inode[u[p].dp].count \in Nat
    BY <2>3 DEF InodeRec
  <2>9. Reset(u[p].dp, e)
    BY <2>2, <2>4, <2>5, <2>7, <2>8 DEF Reset
  <2> QED  BY <2>1, <2>2, <2>5, <2>6, <2>7, <2>8, <2>9 DEF Namei, Fails, Goto, RunsOn, MaySleep, Put
<1>2. /\ u[p] \in Locals /\ u[p].pc = "namei" /\ Fits(u[p]) /\ cpu \in {p, NoProc}
      /\ u[p].pc \in Label /\ u[p].stk \in Seq(Label) /\ Chain(u[p].pc, u[p].stk)
      /\ u[p].stk = <<>> /\ Bottom("namei", <<>>) = "namei" /\ Frames("namei", <<>>) = {"namei"}
  <2>1. Callers("namei") = {}
    BY DEF Callers
  <2> QED  BY <1>1, <2>1, HereBase
<1>3. /\ r \in Locals /\ r = [u[p] EXCEPT !.pc = "dirloop", !.held = @ \cup {u[p].dp}]
      /\ r.pc = "dirloop" /\ r.stk = <<>>
      /\ Chain("dirloop", <<>>) /\ Bottom("dirloop", <<>>) = "dirloop" /\ Frames("dirloop", <<>>) = {"dirloop"}
  <2>1. "dirloop" \in Label
    BY DEF Label
  <2>2. Chain("dirloop", <<>>) /\ Bottom("dirloop", <<>>) = "dirloop" /\ Frames("dirloop", <<>>) = {"dirloop"}
    BY BasePlace DEF Callers
  <2> QED  BY <1>1, <1>2, <2>1, <2>2 DEF Locals, Fits
<1> HIDE DEF r
<1>4. Fits(r)
  BY <1>1, <1>2, <1>3, SlotNotZero DEF Fits
<1>5. ~Alone(r) /\ ~Fresh(r)
  BY <1>3 DEF Alone, Fresh
<1>6. \A x \in Slots : x # u[p].dp => Tally(r, file[p], x) <= Tally(u[p], file[p], x)
  BY <1>1, <1>2, <1>3, SlotNotZero DEF Tally
<1>7. e.count - Tally(r, file[p], u[p].dp) >= inode[u[p].dp].count - Tally(u[p], file[p], u[p].dp)
  BY <1>1, <1>2, <1>3, SlotNotZero DEF Tally
<1>8. ~inode[u[p].dp].lock \/ Tally(u[p], file[p], u[p].dp) # 0
  BY <1>1
<1>9. TypeOK'
  BY <1>1, <1>3 DEF IInv, TypeOK, Go, volVars, fsVars, sysVars, Reset, InodeRec
<1>10. Changes(p, r, file[p])
  BY <1>1 DEF IInv, TypeOK, Changes, Go, sysVars
<1> QED  BY <1>1, <1>2, <1>4, <1>5, <1>6, <1>7, <1>8, <1>9, <1>10, CountStep

\* mkdir makes a directory, and unlocks it.
LEMMA CreateDirStep ==
  ASSUME IInv, NEW p \in Procs, Create(p), u[p].call = "mkdir"
  PROVE  IInv'
<1>e. PICK e : e = [inode[u[p].ip] EXCEPT !.lock = FALSE, !.want = FALSE, !.upd = TRUE, !.mode = "DIR", !.nlink = 2]
  OBVIOUS
<1> DEFINE r == Calling([u[p] EXCEPT !.dip = u[p].ip, !.wait = TRUE], "iupdat", <<"enter">>)
<1>1. /\ At(p, "created") /\ Go(p, r) /\ cpu' \in {p, NoProc}
      /\ wchan' \in [Procs -> Slots \cup {Awake, IlockChan}]
      /\ Reset(u[p].ip, e) /\ e.count = inode[u[p].ip].count /\ e.lock = FALSE
      /\ inode[u[p].ip].count \in Nat /\ u[p].ip \in Slots
      /\ UNCHANGED <<freel, volVars, sysVars>>
      /\ u[p].ip # 0
  <2>1. At(p, "created")
    BY DEF Create
  <2>2. u[p].ip \in Slots /\ u[p].ip # 0 /\ HasIp(u[p])
    <3>1. u[p].ip # 0 /\ u[p].pc = "created"
      BY <2>1 DEF Create, At
    <3> QED  BY <3>1, PlacesInCore
  <2>3. inode[u[p].ip] \in InodeRec
    BY <2>2, InodeType
  <2>4. inode' = [inode EXCEPT ![u[p].ip] = e]
    BY <1>e, <2>3 DEF Create, Released
  <2>5. e \in InodeRec /\ e.num = inode[u[p].ip].num /\ e.count = inode[u[p].ip].count /\ e.lock = FALSE
    <3>1. "DIR" \in Mode /\ "REG" \in Mode /\ 2 \in Int
      BY DEF Mode
    <3> QED  BY <1>e, <2>3, <3>1 DEF InodeRec
  <2>6. wchan' \in [Procs -> Slots \cup {Awake, IlockChan}]
    BY DEF Create, RunsOn, MaySleep, IInv, TypeOK
  <2>7. inode[u[p].ip].count >= 1
    BY <2>2, CountPositive
  <2>8. inode[u[p].ip].count \in Nat
    BY <2>3 DEF InodeRec
  <2>9. Reset(u[p].ip, e)
    BY <2>2, <2>4, <2>5, <2>7, <2>8 DEF Reset
  <2> QED  BY <2>1, <2>2, <2>5, <2>6, <2>7, <2>8, <2>9 DEF Create, Fails, Goto, RunsOn, MaySleep, Put
<1>2. /\ u[p] \in Locals /\ u[p].pc = "created" /\ Fits(u[p]) /\ cpu \in {p, NoProc}
      /\ u[p].pc \in Label /\ u[p].stk \in Seq(Label) /\ Chain(u[p].pc, u[p].stk)
      /\ u[p].stk = <<>> /\ Bottom("created", <<>>) = "created" /\ Frames("created", <<>>) = {"created"}
  <2>1. Callers("created") = {}
    BY DEF Callers
  <2> QED  BY <1>1, <2>1, HereBase
<1>0. PICK t : t = <<"enter">> \o <<>>
  OBVIOUS
<1>3. /\ r \in Locals /\ r = [u[p] EXCEPT !.pc = "iupdat", !.stk = t, !.dip = u[p].ip, !.wait = TRUE]
      /\ r.pc = "iupdat" /\ r.stk = t
      /\ Chain("iupdat", t) /\ Bottom("iupdat", t) = "enter" /\ t[1] = "enter"
      /\ Frames("iupdat", t) \subseteq {"iupdat", "enter"}
  <2>1. "iupdat" \in Label /\ "enter" \in Label
    BY DEF Label
  <2>2. "enter" \in Callers("iupdat") /\ Callers("enter") = {}
    BY DEF Callers
  <2>3. /\ Chain("iupdat", t) /\ Bottom("iupdat", t) = "enter" /\ t[1] = "enter" /\ t \in Seq(Label)
        /\ Frames("iupdat", t) \subseteq {"iupdat", "enter"}
    BY <1>0, <2>1, <2>2, CallBase
  <2>4. r = [u[p] EXCEPT !.pc = "iupdat", !.stk = t, !.dip = u[p].ip, !.wait = TRUE]
    BY <1>0, <1>2 DEF Calling, Locals
  <2> HIDE DEF r
  <2> QED  BY <1>1, <1>2, <2>1, <2>3, <2>4 DEF Locals, Fits
<1> HIDE DEF r
<1>4. Fits(r)
  BY <1>1, <1>2, <1>3, SlotNotZero DEF Fits
<1>5. ~Alone(r) /\ ~Fresh(r)
  BY <1>3 DEF Alone, Fresh
<1>6. \A x \in Slots : x # u[p].ip => Tally(r, file[p], x) <= Tally(u[p], file[p], x)
  BY <1>1, <1>2, <1>3, SlotNotZero DEF Tally
<1>7. e.count - Tally(r, file[p], u[p].ip) >= inode[u[p].ip].count - Tally(u[p], file[p], u[p].ip)
  BY <1>1, <1>2, <1>3, SlotNotZero DEF Tally
<1>8. ~inode[u[p].ip].lock \/ Tally(u[p], file[p], u[p].ip) # 0
  BY <1>1, <1>2, CountPositive DEF Reset
<1>9. TypeOK'
  BY <1>1, <1>3 DEF IInv, TypeOK, Go, volVars, fsVars, sysVars, Reset, InodeRec
<1>10. Changes(p, r, file[p])
  BY <1>1 DEF IInv, TypeOK, Changes, Go, sysVars
<1> QED  BY <1>1, <1>2, <1>4, <1>5, <1>6, <1>7, <1>8, <1>9, <1>10, CountStep

\* The file has the reference.
LEMMA OpenedStep == ASSUME IInv, NEW p \in Procs, Opened(p) PROVE IInv'
<1>e. PICK e : e = [inode[u[p].dip] EXCEPT !.lock = FALSE, !.want = FALSE]
  OBVIOUS
<1> DEFINE r == [u[p] EXCEPT !.pc = "done", !.held = @ \ {u[p].dip}]
<1>1. /\ At(p, "opened") /\ Go(p, r) /\ cpu' \in {p, NoProc}
      /\ wchan' \in [Procs -> Slots \cup {Awake, IlockChan}]
      /\ Reset(u[p].dip, e) /\ e.count = inode[u[p].dip].count /\ e.lock = FALSE
      /\ inode[u[p].dip].count \in Nat /\ u[p].dip \in Slots
      /\ file' = [file EXCEPT ![p] = {u[p].dip}] /\ {u[p].dip} \in SUBSET Slots
      /\ UNCHANGED <<freel, volVars, updlock, left>>
  <2>1. At(p, "opened")
    BY DEF Opened
  <2>2. u[p].dip \in Slots /\ HasDip(u[p])
    <3>1. u[p].pc = "opened" /\ u[p].stk = <<>> /\ Bottom("opened", <<>>) = "opened"
      BY <2>1, HereBase DEF Callers
    <3>2. HasDip(u[p])
      BY <3>1
    <3> QED  BY <3>2, PlacesInCore
  <2>3. inode[u[p].dip] \in InodeRec
    BY <2>2, InodeType
  <2>4. inode' = [inode EXCEPT ![u[p].dip] = e]
    BY <1>e, <2>3 DEF Opened, Released
  <2>5. e \in InodeRec /\ e.num = inode[u[p].dip].num /\ e.count = inode[u[p].dip].count /\ e.lock = FALSE
    BY <1>e, <2>3 DEF InodeRec, Mode
  <2>6. wchan' \in [Procs -> Slots \cup {Awake, IlockChan}]
    BY <2>2, PreleType DEF Opened
  <2>7. inode[u[p].dip].count >= 1
    BY <2>2, CountPositive
  <2>8. inode[u[p].dip].count \in Nat
    BY <2>3 DEF InodeRec
  <2>9. Reset(u[p].dip, e)
    BY <2>2, <2>4, <2>5, <2>7, <2>8 DEF Reset
  <2> QED  BY <2>1, <2>2, <2>5, <2>6, <2>7, <2>8, <2>9 DEF Opened, Fails, Goto, RunsOn, MaySleep, Put
<1>2. /\ u[p] \in Locals /\ u[p].pc = "opened" /\ Fits(u[p]) /\ cpu \in {p, NoProc}
      /\ u[p].pc \in Label /\ u[p].stk \in Seq(Label) /\ Chain(u[p].pc, u[p].stk)
      /\ u[p].stk = <<>> /\ Bottom("opened", <<>>) = "opened" /\ Frames("opened", <<>>) = {"opened"}
  <2>1. Callers("opened") = {}
    BY DEF Callers
  <2> QED  BY <1>1, <2>1, HereBase
<1>3. /\ r \in Locals /\ r = [u[p] EXCEPT !.pc = "done", !.held = @ \ {u[p].dip}]
      /\ r.pc = "done" /\ r.stk = <<>>
      /\ Chain("done", <<>>) /\ Bottom("done", <<>>) = "done" /\ Frames("done", <<>>) = {"done"}
  <2>1. "done" \in Label
    BY DEF Label
  <2>2. Chain("done", <<>>) /\ Bottom("done", <<>>) = "done" /\ Frames("done", <<>>) = {"done"}
    BY BasePlace DEF Callers
  <2> QED  BY <1>1, <1>2, <2>1, <2>2 DEF Locals, Fits
<1> HIDE DEF r
<1>4. Fits(r)
  BY <1>1, <1>2, <1>3, SlotNotZero DEF Fits
<1>5. ~Alone(r) /\ ~Fresh(r)
  BY <1>3 DEF Alone, Fresh
<1>6. \A x \in Slots : x # u[p].dip => Tally(r, {u[p].dip}, x) <= Tally(u[p], file[p], x)
  BY <1>1, <1>2, <1>3, SlotNotZero DEF Tally
<1>7. e.count - Tally(r, {u[p].dip}, u[p].dip) >= inode[u[p].dip].count - Tally(u[p], file[p], u[p].dip)
  BY <1>1, <1>2, <1>3, SlotNotZero DEF Tally
<1>8. ~inode[u[p].dip].lock \/ Tally(u[p], file[p], u[p].dip) # 0
  BY <1>1, <1>2, CountPositive DEF Reset
<1>9. TypeOK'
  BY <1>1, <1>3 DEF IInv, TypeOK, Go, volVars, fsVars, sysVars, Reset, InodeRec
<1>10. Changes(p, r, {u[p].dip})
  BY <1>1 DEF IInv, TypeOK, Changes, Go, sysVars
<1> QED  BY <1>1, <1>2, <1>4, <1>5, <1>6, <1>7, <1>8, <1>9, <1>10, CountStep

\* open1 fails after it has the inode.
LEMMA OpenFailsStep == ASSUME IInv, NEW p \in Procs, OpenFails(p) PROVE IInv'
<1>e. PICK e : e = [inode[u[p].dip] EXCEPT !.lock = FALSE, !.want = FALSE]
  OBVIOUS
<1> DEFINE r == Calling([u[p] EXCEPT !.held = @ \ {u[p].dip}, !.err = TRUE, !.ip = u[p].dip], "iput", <<"done">>)
<1>1. /\ At(p, "opened") /\ Go(p, r) /\ cpu' \in {p, NoProc}
      /\ wchan' \in [Procs -> Slots \cup {Awake, IlockChan}]
      /\ Reset(u[p].dip, e) /\ e.count = inode[u[p].dip].count /\ e.lock = FALSE
      /\ inode[u[p].dip].count \in Nat /\ u[p].dip \in Slots
      /\ UNCHANGED <<freel, volVars, sysVars>>
  <2>1. At(p, "opened")
    BY DEF OpenFails
  <2>2. u[p].dip \in Slots /\ HasDip(u[p])
    <3>1. u[p].pc = "opened" /\ u[p].stk = <<>> /\ Bottom("opened", <<>>) = "opened"
      BY <2>1, HereBase DEF Callers
    <3>2. HasDip(u[p])
      BY <3>1
    <3> QED  BY <3>2, PlacesInCore
  <2>3. inode[u[p].dip] \in InodeRec
    BY <2>2, InodeType
  <2>4. inode' = [inode EXCEPT ![u[p].dip] = e]
    BY <1>e, <2>3 DEF OpenFails, Released
  <2>5. e \in InodeRec /\ e.num = inode[u[p].dip].num /\ e.count = inode[u[p].dip].count /\ e.lock = FALSE
    BY <1>e, <2>3 DEF InodeRec, Mode
  <2>6. wchan' \in [Procs -> Slots \cup {Awake, IlockChan}]
    BY <2>2, PreleType DEF OpenFails
  <2>7. inode[u[p].dip].count >= 1
    BY <2>2, CountPositive
  <2>8. inode[u[p].dip].count \in Nat
    BY <2>3 DEF InodeRec
  <2>9. Reset(u[p].dip, e)
    BY <2>2, <2>4, <2>5, <2>7, <2>8 DEF Reset
  <2> QED  BY <2>1, <2>2, <2>5, <2>6, <2>7, <2>8, <2>9 DEF OpenFails, Fails, Goto, RunsOn, MaySleep, Put
<1>2. /\ u[p] \in Locals /\ u[p].pc = "opened" /\ Fits(u[p]) /\ cpu \in {p, NoProc}
      /\ u[p].pc \in Label /\ u[p].stk \in Seq(Label) /\ Chain(u[p].pc, u[p].stk)
      /\ u[p].stk = <<>> /\ Bottom("opened", <<>>) = "opened" /\ Frames("opened", <<>>) = {"opened"}
  <2>1. Callers("opened") = {}
    BY DEF Callers
  <2> QED  BY <1>1, <2>1, HereBase
<1>0. PICK t : t = <<"done">> \o <<>>
  OBVIOUS
<1>3. /\ r \in Locals /\ r = [u[p] EXCEPT !.pc = "iput", !.stk = t, !.held = @ \ {u[p].dip}, !.err = TRUE, !.ip = u[p].dip]
      /\ r.pc = "iput" /\ r.stk = t
      /\ Chain("iput", t) /\ Bottom("iput", t) = "done" /\ t[1] = "done"
      /\ Frames("iput", t) \subseteq {"iput", "done"}
  <2>1. "iput" \in Label /\ "done" \in Label
    BY DEF Label
  <2>2. "done" \in Callers("iput") /\ Callers("done") = {}
    BY DEF Callers
  <2>3. /\ Chain("iput", t) /\ Bottom("iput", t) = "done" /\ t[1] = "done" /\ t \in Seq(Label)
        /\ Frames("iput", t) \subseteq {"iput", "done"}
    BY <1>0, <2>1, <2>2, CallBase
  <2>4. r = [u[p] EXCEPT !.pc = "iput", !.stk = t, !.held = @ \ {u[p].dip}, !.err = TRUE, !.ip = u[p].dip]
    BY <1>0, <1>2 DEF Calling, Locals
  <2> HIDE DEF r
  <2> QED  BY <1>1, <1>2, <2>1, <2>3, <2>4 DEF Locals, Fits
<1> HIDE DEF r
<1>4. Fits(r)
  BY <1>1, <1>2, <1>3, SlotNotZero DEF Fits
<1>5. ~Alone(r) /\ ~Fresh(r)
  BY <1>3 DEF Alone, Fresh
<1>6. \A x \in Slots : x # u[p].dip => Tally(r, file[p], x) <= Tally(u[p], file[p], x)
  BY <1>1, <1>2, <1>3, SlotNotZero DEF Tally
<1>7. e.count - Tally(r, file[p], u[p].dip) >= inode[u[p].dip].count - Tally(u[p], file[p], u[p].dip)
  BY <1>1, <1>2, <1>3, SlotNotZero DEF Tally
<1>8. ~inode[u[p].dip].lock \/ Tally(u[p], file[p], u[p].dip) # 0
  BY <1>1, <1>2, CountPositive DEF Reset
<1>9. TypeOK'
  BY <1>1, <1>3 DEF IInv, TypeOK, Go, volVars, fsVars, sysVars, Reset, InodeRec
<1>10. Changes(p, r, file[p])
  BY <1>1 DEF IInv, TypeOK, Changes, Go, sysVars
<1> QED  BY <1>1, <1>2, <1>4, <1>5, <1>6, <1>7, <1>8, <1>9, <1>10, CountStep

\* link goes on with the new name.
LEMMA LinkedStep == ASSUME IInv, NEW p \in Procs, Linked(p) PROVE IInv'
<1>e. PICK e : e = [inode[u[p].dip] EXCEPT !.lock = FALSE, !.want = FALSE]
  OBVIOUS
<1> DEFINE r == [u[p] EXCEPT !.pc = "namei", !.call = "link2", !.path = u[p].to, !.dp = RootSlot, !.tgt = u[p].dip, !.held = @ \ {u[p].dip}]
<1>1. /\ At(p, "linked") /\ Go(p, r) /\ cpu' \in {p, NoProc}
      /\ wchan' \in [Procs -> Slots \cup {Awake, IlockChan}]
      /\ Reset(u[p].dip, e) /\ e.count = inode[u[p].dip].count /\ e.lock = FALSE
      /\ inode[u[p].dip].count \in Nat /\ u[p].dip \in Slots
      /\ UNCHANGED <<freel, volVars, sysVars>>
      /\ RootSlot \in Slots /\ u[p].dip \in Slots
  <2>1. At(p, "linked")
    BY DEF Linked
  <2>2. u[p].dip \in Slots /\ HasDip(u[p])
    <3>1. u[p].pc = "linked" /\ u[p].stk = <<>> /\ Bottom("linked", <<>>) = "linked"
      BY <2>1, HereBase DEF Callers
    <3>2. HasDip(u[p])
      BY <3>1
    <3> QED  BY <3>2, PlacesInCore
  <2>3. inode[u[p].dip] \in InodeRec
    BY <2>2, InodeType
  <2>4. inode' = [inode EXCEPT ![u[p].dip] = e]
    BY <1>e, <2>3 DEF Linked, Released
  <2>5. e \in InodeRec /\ e.num = inode[u[p].dip].num /\ e.count = inode[u[p].dip].count /\ e.lock = FALSE
    BY <1>e, <2>3 DEF InodeRec, Mode
  <2>6. wchan' \in [Procs -> Slots \cup {Awake, IlockChan}]
    BY <2>2, PreleType DEF Linked
  <2>7. inode[u[p].dip].count >= 1
    BY <2>2, CountPositive
  <2>8. inode[u[p].dip].count \in Nat
    BY <2>3 DEF InodeRec
  <2>9. Reset(u[p].dip, e)
    BY <2>2, <2>4, <2>5, <2>7, <2>8 DEF Reset
  <2> QED  BY <2>1, <2>2, <2>5, <2>6, <2>7, <2>8, <2>9, RootInTable DEF Linked, Fails, Goto, RunsOn, MaySleep, Put
<1>2. /\ u[p] \in Locals /\ u[p].pc = "linked" /\ Fits(u[p]) /\ cpu \in {p, NoProc}
      /\ u[p].pc \in Label /\ u[p].stk \in Seq(Label) /\ Chain(u[p].pc, u[p].stk)
      /\ u[p].stk = <<>> /\ Bottom("linked", <<>>) = "linked" /\ Frames("linked", <<>>) = {"linked"}
  <2>1. Callers("linked") = {}
    BY DEF Callers
  <2> QED  BY <1>1, <2>1, HereBase
<1>3. /\ r \in Locals /\ r = [u[p] EXCEPT !.pc = "namei", !.call = "link2", !.path = u[p].to, !.dp = RootSlot, !.tgt = u[p].dip, !.held = @ \ {u[p].dip}]
      /\ r.pc = "namei" /\ r.stk = <<>>
      /\ Chain("namei", <<>>) /\ Bottom("namei", <<>>) = "namei" /\ Frames("namei", <<>>) = {"namei"}
  <2>1. "namei" \in Label
    BY DEF Label
  <2>2. Chain("namei", <<>>) /\ Bottom("namei", <<>>) = "namei" /\ Frames("namei", <<>>) = {"namei"}
    BY BasePlace DEF Callers
  <2> QED  BY <1>1, <1>2, <2>1, <2>2 DEF Locals, Fits, Call
<1> HIDE DEF r
<1>4. Fits(r)
  BY <1>1, <1>2, <1>3, SlotNotZero DEF Fits
<1>5. ~Alone(r) /\ ~Fresh(r)
  BY <1>3 DEF Alone, Fresh
<1>6. \A x \in Slots : x # u[p].dip => Tally(r, file[p], x) <= Tally(u[p], file[p], x)
  BY <1>1, <1>2, <1>3, SlotNotZero DEF Tally
<1>7. e.count - Tally(r, file[p], u[p].dip) >= inode[u[p].dip].count - Tally(u[p], file[p], u[p].dip)
  BY <1>1, <1>2, <1>3, SlotNotZero DEF Tally
<1>8. ~inode[u[p].dip].lock \/ Tally(u[p], file[p], u[p].dip) # 0
  BY <1>1, <1>2, CountPositive DEF Reset
<1>9. TypeOK'
  BY <1>1, <1>3 DEF IInv, TypeOK, Go, volVars, fsVars, sysVars, Reset, InodeRec
<1>10. Changes(p, r, file[p])
  BY <1>1 DEF IInv, TypeOK, Changes, Go, sysVars
<1> QED  BY <1>1, <1>2, <1>4, <1>5, <1>6, <1>7, <1>8, <1>9, <1>10, CountStep

\* The first end of a pipe is made.
LEMMA PipendFirstStep ==
  ASSUME IInv, NEW p \in Procs, Pipend(p), u[p].call = "pipe"
  PROVE  IInv'
<1>e. PICK e : e = [inode[u[p].ip] EXCEPT !.lock = FALSE, !.want = FALSE, !.mode = "REG"]
  OBVIOUS
<1> DEFINE r == Calling([u[p] EXCEPT !.call = "pipe2", !.held = @ \ {u[p].ip}, !.tgt = u[p].ip], "ialloc", <<"pipend">>)
<1>1. /\ At(p, "pipend") /\ Go(p, r) /\ cpu' \in {p, NoProc}
      /\ wchan' \in [Procs -> Slots \cup {Awake, IlockChan}]
      /\ Reset(u[p].ip, e) /\ e.count = inode[u[p].ip].count /\ e.lock = FALSE
      /\ inode[u[p].ip].count \in Nat /\ u[p].ip \in Slots
      /\ UNCHANGED <<freel, volVars, sysVars>>
      /\ u[p].ip # 0
  <2>1. At(p, "pipend")
    BY DEF Pipend
  <2>2. u[p].ip \in Slots /\ u[p].ip # 0 /\ HasIp(u[p])
    <3>1. u[p].pc = "pipend" /\ Fits(u[p]) /\ ~u[p].err
      BY <2>1, Here DEF Pipend
    <3>2. u[p].ip # 0
      BY <3>1 DEF Fits
    <3>3. HasIp(u[p])
      BY <3>1, <3>2
    <3> QED  BY <3>2, <3>3, PlacesInCore
  <2>3. inode[u[p].ip] \in InodeRec
    BY <2>2, InodeType
  <2>4. inode' = [inode EXCEPT ![u[p].ip] = e]
    BY <1>e, <2>3 DEF Pipend, Released
  <2>5. e \in InodeRec /\ e.num = inode[u[p].ip].num /\ e.count = inode[u[p].ip].count /\ e.lock = FALSE
    <3>1. "DIR" \in Mode /\ "REG" \in Mode /\ 2 \in Int
      BY DEF Mode
    <3> QED  BY <1>e, <2>3, <3>1 DEF InodeRec
  <2>6. wchan' \in [Procs -> Slots \cup {Awake, IlockChan}]
    BY <2>2, PreleType DEF Pipend
  <2>7. inode[u[p].ip].count >= 1
    BY <2>2, CountPositive
  <2>10. Go(p, r)
    <3>1. u[p] \in Locals
      BY <2>1, Here
    <3>2. PICK a : a = [u[p] EXCEPT !.call = "pipe2", !.held = @ \ {u[p].ip}]
      OBVIOUS
    <3>3. a.tgt = u[p].tgt /\ [a EXCEPT !.tgt = u[p].ip]
                = [u[p] EXCEPT !.call = "pipe2", !.held = @ \ {u[p].ip}, !.tgt = u[p].ip]
      BY <3>1, <3>2 DEF Locals
    <3>4. Go(p, Calling([a EXCEPT !.tgt = u[p].ip], "ialloc", <<"pipend">>))
      BY <3>2 DEF Pipend
    <3> QED  BY <3>3, <3>4
  <2>8. inode[u[p].ip].count \in Nat
    BY <2>3 DEF InodeRec
  <2>9. Reset(u[p].ip, e)
    BY <2>2, <2>4, <2>5, <2>7, <2>8 DEF Reset
  <2> QED  BY <2>1, <2>2, <2>5, <2>6, <2>7, <2>8, <2>9, <2>10 DEF Pipend, sysVars
<1>2. /\ u[p] \in Locals /\ u[p].pc = "pipend" /\ Fits(u[p]) /\ cpu \in {p, NoProc}
      /\ u[p].pc \in Label /\ u[p].stk \in Seq(Label) /\ Chain(u[p].pc, u[p].stk)
      /\ u[p].stk = <<>> /\ Bottom("pipend", <<>>) = "pipend" /\ Frames("pipend", <<>>) = {"pipend"}
  <2>1. Callers("pipend") = {}
    BY DEF Callers
  <2> QED  BY <1>1, <2>1, HereBase
<1>0. PICK t : t = <<"pipend">> \o <<>>
  OBVIOUS
<1>3. /\ r \in Locals /\ r = [u[p] EXCEPT !.pc = "ialloc", !.stk = t, !.call = "pipe2", !.held = @ \ {u[p].ip}, !.tgt = u[p].ip]
      /\ r.pc = "ialloc" /\ r.stk = t
      /\ Chain("ialloc", t) /\ Bottom("ialloc", t) = "pipend" /\ t[1] = "pipend"
      /\ Frames("ialloc", t) \subseteq {"ialloc", "pipend"}
  <2>1. "ialloc" \in Label /\ "pipend" \in Label
    BY DEF Label
  <2>2. "pipend" \in Callers("ialloc") /\ Callers("pipend") = {}
    BY DEF Callers
  <2>3. /\ Chain("ialloc", t) /\ Bottom("ialloc", t) = "pipend" /\ t[1] = "pipend" /\ t \in Seq(Label)
        /\ Frames("ialloc", t) \subseteq {"ialloc", "pipend"}
    BY <1>0, <2>1, <2>2, CallBase
  <2>4. r = [u[p] EXCEPT !.pc = "ialloc", !.stk = t, !.call = "pipe2", !.held = @ \ {u[p].ip}, !.tgt = u[p].ip]
    BY <1>0, <1>2 DEF Calling, Locals
  <2> HIDE DEF r
  <2>5. u[p] \in Locals /\ u[p].ip \in Slots
    BY <1>1, <1>2
  <2>6. r \in Locals /\ r.pc \in Label /\ r.stk = t
    BY <2>1, <2>3, <2>4, <2>5 DEF Locals
  <2> QED  BY <2>3, <2>4, <2>5, <2>6 DEF Locals
<1> HIDE DEF r
<1>4. Fits(r)
  BY <1>1, <1>2, <1>3, SlotNotZero DEF Fits
<1>5. ~Alone(r) /\ ~Fresh(r)
  BY <1>3 DEF Alone, Fresh
<1>6. \A x \in Slots : x # u[p].ip => Tally(r, file[p], x) <= Tally(u[p], file[p], x)
  BY <1>1, <1>2, <1>3, SlotNotZero DEF Tally
<1>7. e.count - Tally(r, file[p], u[p].ip) >= inode[u[p].ip].count - Tally(u[p], file[p], u[p].ip)
  BY <1>1, <1>2, <1>3, SlotNotZero DEF Tally
<1>8. ~inode[u[p].ip].lock \/ Tally(u[p], file[p], u[p].ip) # 0
  BY <1>1, <1>2, CountPositive DEF Reset
<1>9. TypeOK'
  BY <1>1, <1>3 DEF IInv, TypeOK, Go, volVars, fsVars, sysVars, Reset, InodeRec
<1>10. Changes(p, r, file[p])
  BY <1>1 DEF IInv, TypeOK, Changes, Go, sysVars
<1> QED  BY <1>1, <1>2, <1>4, <1>5, <1>6, <1>7, <1>8, <1>9, <1>10, CountStep

\* Both ends are made.
LEMMA PipendSecondStep ==
  ASSUME IInv, NEW p \in Procs, Pipend(p), u[p].call # "pipe"
  PROVE  IInv'
<1>e. PICK e : e = [inode[u[p].ip] EXCEPT !.lock = FALSE, !.want = FALSE, !.mode = "REG"]
  OBVIOUS
<1> DEFINE r == [u[p] EXCEPT !.call = "pipe2", !.held = @ \ {u[p].ip}, !.pc = "done", !.tgt = 0]
<1>1. /\ At(p, "pipend") /\ Go(p, r) /\ cpu' \in {p, NoProc}
      /\ wchan' \in [Procs -> Slots \cup {Awake, IlockChan}]
      /\ Reset(u[p].ip, e) /\ e.count = inode[u[p].ip].count /\ e.lock = FALSE
      /\ inode[u[p].ip].count \in Nat /\ u[p].ip \in Slots
      /\ file' = [file EXCEPT ![p] = {u[p].tgt, u[p].ip}]
      /\ {u[p].tgt, u[p].ip} \in SUBSET Slots
      /\ UNCHANGED <<freel, volVars, updlock, left>>
      /\ u[p].ip # 0
  <2>1. At(p, "pipend")
    BY DEF Pipend
  <2>2. u[p].ip \in Slots /\ u[p].ip # 0 /\ HasIp(u[p])
    <3>1. u[p].pc = "pipend" /\ Fits(u[p]) /\ ~u[p].err
      BY <2>1, Here DEF Pipend
    <3>2. u[p].ip # 0
      BY <3>1 DEF Fits
    <3>3. HasIp(u[p])
      BY <3>1, <3>2
    <3> QED  BY <3>2, <3>3, PlacesInCore
  <2>3. inode[u[p].ip] \in InodeRec
    BY <2>2, InodeType
  <2>4. inode' = [inode EXCEPT ![u[p].ip] = e]
    BY <1>e, <2>3 DEF Pipend, Released
  <2>5. e \in InodeRec /\ e.num = inode[u[p].ip].num /\ e.count = inode[u[p].ip].count /\ e.lock = FALSE
    <3>1. "DIR" \in Mode /\ "REG" \in Mode /\ 2 \in Int
      BY DEF Mode
    <3> QED  BY <1>e, <2>3, <3>1 DEF InodeRec
  <2>6. wchan' \in [Procs -> Slots \cup {Awake, IlockChan}]
    BY <2>2, PreleType DEF Pipend
  <2>7. inode[u[p].ip].count >= 1
    BY <2>2, CountPositive
  <2>10. Go(p, r) /\ file' = [file EXCEPT ![p] = {u[p].tgt, u[p].ip}]
    <3>1. u[p] \in Locals
      BY <2>1, Here
    <3>2. PICK a : a = [u[p] EXCEPT !.call = "pipe2", !.held = @ \ {u[p].ip}]
      OBVIOUS
    <3>3. a.tgt = u[p].tgt /\ [a EXCEPT !.pc = "done", !.tgt = 0]
                = [u[p] EXCEPT !.call = "pipe2", !.held = @ \ {u[p].ip}, !.pc = "done", !.tgt = 0]
      BY <3>1, <3>2 DEF Locals
    <3>4. /\ Go(p, [a EXCEPT !.pc = "done", !.tgt = 0])
          /\ file' = [file EXCEPT ![p] = {a.tgt, u[p].ip}]
      BY <3>2 DEF Pipend
    <3> QED  BY <3>3, <3>4
  <2>11. u[p].tgt \in Slots
    <3>1. u[p].pc = "pipend" /\ Fits(u[p]) /\ ~u[p].err /\ u[p].stk = <<>>
          /\ Bottom("pipend", <<>>) = "pipend"
      BY <2>1, HereBase DEF Pipend, Callers
    <3>2. u[p].call = "pipe2"
      BY DEF Pipend
    <3> QED  BY <3>1, <3>2 DEF Fits
  <2>8. inode[u[p].ip].count \in Nat
    BY <2>3 DEF InodeRec
  <2>9. Reset(u[p].ip, e)
    BY <2>2, <2>4, <2>5, <2>7, <2>8 DEF Reset
  <2> QED  BY <2>1, <2>2, <2>5, <2>6, <2>7, <2>8, <2>9, <2>10, <2>11 DEF Pipend
<1>2. /\ u[p] \in Locals /\ u[p].pc = "pipend" /\ Fits(u[p]) /\ cpu \in {p, NoProc}
      /\ u[p].pc \in Label /\ u[p].stk \in Seq(Label) /\ Chain(u[p].pc, u[p].stk)
      /\ u[p].stk = <<>> /\ Bottom("pipend", <<>>) = "pipend" /\ Frames("pipend", <<>>) = {"pipend"}
  <2>1. Callers("pipend") = {}
    BY DEF Callers
  <2> QED  BY <1>1, <2>1, HereBase
<1>3. /\ r \in Locals /\ r = [u[p] EXCEPT !.call = "pipe2", !.held = @ \ {u[p].ip}, !.pc = "done", !.tgt = 0]
      /\ r.pc = "done" /\ r.stk = <<>>
      /\ Chain("done", <<>>) /\ Bottom("done", <<>>) = "done" /\ Frames("done", <<>>) = {"done"}
  <2>1. "done" \in Label
    BY DEF Label
  <2>2. Chain("done", <<>>) /\ Bottom("done", <<>>) = "done" /\ Frames("done", <<>>) = {"done"}
    BY BasePlace DEF Callers
  <2> QED  BY <1>1, <1>2, <2>1, <2>2 DEF Locals
<1> HIDE DEF r
<1>4. Fits(r)
  BY <1>1, <1>2, <1>3, SlotNotZero DEF Fits
<1>5. ~Alone(r) /\ ~Fresh(r)
  BY <1>3 DEF Alone, Fresh
<1>6. \A x \in Slots : x # u[p].ip => Tally(r, {u[p].tgt, u[p].ip}, x) <= Tally(u[p], file[p], x)
  BY <1>1, <1>2, <1>3, SlotNotZero DEF Tally
<1>7. e.count - Tally(r, {u[p].tgt, u[p].ip}, u[p].ip) >= inode[u[p].ip].count - Tally(u[p], file[p], u[p].ip)
  BY <1>1, <1>2, <1>3, SlotNotZero DEF Tally
<1>8. ~inode[u[p].ip].lock \/ Tally(u[p], file[p], u[p].ip) # 0
  BY <1>1, <1>2, CountPositive DEF Reset
<1>9. TypeOK'
  BY <1>1, <1>3 DEF IInv, TypeOK, Go, volVars, fsVars, sysVars, Reset, InodeRec
<1>10. Changes(p, r, {u[p].tgt, u[p].ip})
  BY <1>1 DEF IInv, TypeOK, Changes, Go, sysVars
<1> QED  BY <1>1, <1>2, <1>4, <1>5, <1>6, <1>7, <1>8, <1>9, <1>10, CountStep

\* An end of a pipe is made.
LEMMA PipendStep == ASSUME IInv, NEW p \in Procs, Pipend(p) PROVE IInv'
BY PipendFirstStep, PipendSecondStep

\* update() takes an inode that is not locked.
LEMMA UpdateInodeStep == ASSUME IInv, NEW p \in Procs, UpdateInode(p) PROVE IInv'
<1>s. PICK s \in u[p].blk + 1 .. NSlots :
           /\ Updatable(s)
           /\ inode' = [inode EXCEPT ![s].lock = TRUE, ![s].count = @ + 1]
           /\ Go(p, Calling([u[p] EXCEPT !.ip = s, !.blk = s, !.held = @ \cup {s}],
                            "iupdat", <<"iput", "update">>))
  BY DEF UpdateInode
<1>e. PICK e : e = [inode[s] EXCEPT !.lock = TRUE, !.count = inode[s].count + 1]
  OBVIOUS
<1> DEFINE r == Calling([u[p] EXCEPT !.ip = s, !.blk = s, !.held = @ \cup {s}], "iupdat", <<"iput", "update">>)
<1>1. /\ At(p, "update") /\ Go(p, r) /\ cpu' \in {p, NoProc}
      /\ wchan' \in [Procs -> Slots \cup {Awake, IlockChan}]
      /\ Reset(s, e) /\ e.count = inode[s].count + 1 /\ e.lock = TRUE
      /\ inode[s].count \in Nat /\ s \in Slots
      /\ UNCHANGED <<freel, volVars, sysVars>>
      /\ ~inode[s].lock /\ s \in Nat
  <2>1. At(p, "update")
    BY DEF UpdateInode
  <2>2. s \in Slots /\ s \in Nat
    <3>1. u[p] \in Locals
      BY <2>1, Here
    <3>2. u[p].blk \in Nat /\ NSlots \in Nat
      BY <3>1, TableAssumption DEF Locals
    <3> QED  BY <1>s, <3>2 DEF Slots
  <2>3. inode[s] \in InodeRec
    BY <2>2, InodeType
  <2>10. inode[s].count + 1 \in Nat
    BY <2>3 DEF InodeRec
  <2>4. inode' = [inode EXCEPT ![s] = e]
    BY <1>s, <1>e, <2>3 DEF UpdateInode, Released
  <2>5. e \in InodeRec /\ e.num = inode[s].num /\ e.count = inode[s].count + 1 /\ e.lock = TRUE
    BY <1>e, <2>3, <2>10 DEF InodeRec, Mode
  <2>6. wchan' \in [Procs -> Slots \cup {Awake, IlockChan}]
    BY DEF UpdateInode, RunsOn, MaySleep, IInv, TypeOK
  <2>7. inode[s].count >= 1
    <3>1. inode[s].count > 0
      BY <1>s DEF Updatable
    <3> QED  BY <2>3, <3>1 DEF InodeRec
  <2>8. inode[s].count \in Nat
    BY <2>3 DEF InodeRec
  <2>9. Reset(s, e)
    BY <2>2, <2>4, <2>5, <2>7, <2>8 DEF Reset
  <2> QED  BY <1>s, <2>1, <2>2, <2>5, <2>6, <2>7, <2>8, <2>9 DEF UpdateInode, Updatable, Fails, Goto, RunsOn, MaySleep, Put
<1>2. /\ u[p] \in Locals /\ u[p].pc = "update" /\ Fits(u[p]) /\ cpu \in {p, NoProc}
      /\ u[p].pc \in Label /\ u[p].stk \in Seq(Label) /\ Chain(u[p].pc, u[p].stk)
      /\ u[p].stk = <<>> /\ Bottom("update", <<>>) = "update" /\ Frames("update", <<>>) = {"update"}
  <2>1. Callers("update") = {}
    BY DEF Callers
  <2> QED  BY <1>1, <2>1, HereBase
<1>0. PICK t : t = <<"iput", "update">> \o <<>>
  OBVIOUS
<1>3. /\ r \in Locals /\ r = [u[p] EXCEPT !.pc = "iupdat", !.stk = t, !.ip = s, !.blk = s, !.held = @ \cup {s}]
      /\ r.pc = "iupdat" /\ r.stk = t
      /\ Chain("iupdat", t) /\ Bottom("iupdat", t) = "update" /\ t[1] = "iput"
      /\ Frames("iupdat", t) \subseteq {"iupdat", "iput", "update"}
  <2>1. "iupdat" \in Label /\ "iput" \in Label /\ "update" \in Label
    BY DEF Label
  <2>2. "iput" \in Callers("iupdat") /\ Callers("update") = {} /\ "update" \in Callers("iput")
    BY DEF Callers
  <2>3. /\ Chain("iupdat", t) /\ Bottom("iupdat", t) = "update" /\ t[1] = "iput" /\ t \in Seq(Label)
        /\ Frames("iupdat", t) \subseteq {"iupdat", "iput", "update"}
    BY <1>0, <2>1, <2>2, Call2
  <2>4. r = [u[p] EXCEPT !.pc = "iupdat", !.stk = t, !.ip = s, !.blk = s, !.held = @ \cup {s}]
    BY <1>0, <1>2 DEF Calling, Locals
  <2> HIDE DEF r
  <2> QED  BY <1>1, <1>2, <2>1, <2>3, <2>4 DEF Locals, Fits
<1> HIDE DEF r
<1>4. Fits(r)
  BY <1>1, <1>2, <1>3, SlotNotZero DEF Fits
<1>5. ~Alone(r) /\ ~Fresh(r)
  BY <1>3 DEF Alone, Fresh
<1>6. \A x \in Slots : x # s => Tally(r, file[p], x) <= Tally(u[p], file[p], x)
  BY <1>1, <1>2, <1>3, SlotNotZero DEF Tally
<1>7. e.count - Tally(r, file[p], s) >= inode[s].count - Tally(u[p], file[p], s)
  BY <1>1, <1>2, <1>3, SlotNotZero DEF Tally
<1>8. ~inode[s].lock \/ Tally(u[p], file[p], s) # 0
  BY <1>1
<1>9. TypeOK'
  BY <1>1, <1>3 DEF IInv, TypeOK, Go, volVars, fsVars, sysVars, Reset, InodeRec
<1>10. Changes(p, r, file[p])
  BY <1>1 DEF IInv, TypeOK, Changes, Go, sysVars
<1> QED  BY <1>1, <1>2, <1>4, <1>5, <1>6, <1>7, <1>8, <1>9, <1>10, CountStep

-----------------------------------------------------------------------------
(* Slots taken and given back                                              *)

\* The first element of a list without repetitions is taken.
LEMMA Taken ==
  ASSUME NEW S, NEW q \in Seq(S), q # <<>>, IsInjective(q)
  PROVE  /\ Head(q) \in S /\ Head(q) \in ToSet(q)
         /\ Tail(q) \in Seq(S) /\ IsInjective(Tail(q))
         /\ ToSet(Tail(q)) = ToSet(q) \ {Head(q)}
<1>1. Len(q) \in Nat \ {0} /\ DOMAIN q = 1..Len(q)
  BY EmptySeq
<1>2. PICK t : t = Tail(q)
  OBVIOUS
<1>3. /\ t \in Seq(S) /\ DOMAIN t = 1..Len(q) - 1
      /\ \A i \in DOMAIN t : t[i] = q[i + 1]
  BY <1>1, <1>2
<1>4. Head(q) = q[1] /\ 1 \in DOMAIN q
  BY <1>1
<1>5. IsInjective(t)
  <2>1. \A i \in DOMAIN t : i \in Int /\ i + 1 \in DOMAIN q
    BY <1>1, <1>3
  <2>2. \A i, j \in DOMAIN t : t[i] = t[j] => i + 1 = j + 1
    BY <1>3, <2>1 DEF IsInjective
  <2> QED  BY <2>1, <2>2 DEF IsInjective
<1>6. ToSet(t) = ToSet(q) \ {q[1]}
  <2>1. ASSUME NEW i \in DOMAIN t PROVE t[i] \in ToSet(q) \ {q[1]}
    <3>1. i + 1 \in DOMAIN q /\ i + 1 # 1 /\ t[i] = q[i + 1]
      BY <1>1, <1>3
    <3> QED  BY <1>4, <3>1 DEF ToSet, IsInjective
  <2>2. ASSUME NEW i \in DOMAIN q, q[i] # q[1] PROVE q[i] \in ToSet(t)
    <3>1. i - 1 \in DOMAIN t /\ (i - 1) + 1 = i
      BY <1>1, <1>3, <2>2
    <3>2. t[i - 1] = q[i]
      BY <1>3, <3>1
    <3> QED  BY <3>1, <3>2 DEF ToSet
  <2> QED  BY <2>1, <2>2 DEF ToSet
<1>7. q[1] \in S /\ q[1] \in ToSet(q)
  BY <1>4 DEF ToSet
<1> QED  BY <1>2, <1>3, <1>4, <1>5, <1>6, <1>7

\* An element is put before the others.
LEMMA PutBack ==
  ASSUME NEW S, NEW q \in Seq(S), NEW s \in S, s \notin ToSet(q), IsInjective(q),
         NEW t, Pushed(t, s, q)
  PROVE  t \in Seq(S) /\ IsInjective(t) /\ ToSet(t) = ToSet(q) \cup {s}
<1>1. Len(q) \in Nat /\ DOMAIN q = 1..Len(q)
  OBVIOUS
<1>2. /\ t \in Seq(S) /\ DOMAIN t = 1..Len(q) + 1 /\ t[1] = s
      /\ \A i \in DOMAIN q : t[i + 1] = q[i]
  BY DEF Pushed
<1>3. \A i \in DOMAIN t : i # 1 => i - 1 \in DOMAIN q /\ t[i] = q[i - 1]
  <2> SUFFICES ASSUME NEW i \in DOMAIN t, i # 1 PROVE i - 1 \in DOMAIN q /\ t[i] = q[i - 1]
    OBVIOUS
  <2>1. i - 1 \in DOMAIN q /\ (i - 1) + 1 = i
    BY <1>1, <1>2
  <2> QED  BY <1>2, <2>1
<1>4. \A i \in DOMAIN q : i + 1 \in DOMAIN t /\ 1 \in DOMAIN t
  BY <1>1, <1>2
<1>5. ToSet(t) = ToSet(q) \cup {s}
  <2>1. \A i \in DOMAIN t : t[i] \in ToSet(q) \cup {s}
    BY <1>2, <1>3 DEF ToSet
  <2>2. \A i \in DOMAIN q : q[i] \in ToSet(t)
    BY <1>2, <1>4 DEF ToSet
  <2>3. s \in ToSet(t)
    <3>1. 1 \in DOMAIN t
      BY <1>1, <1>2
    <3> QED  BY <1>2, <3>1 DEF ToSet
  <2> QED  BY <2>1, <2>2, <2>3 DEF ToSet
<1>6. IsInjective(t)
  <2> SUFFICES ASSUME NEW i \in DOMAIN t, NEW j \in DOMAIN t, t[i] = t[j] PROVE i = j
    BY DEF IsInjective
  <2>1. i \in Int /\ j \in Int
    BY <1>1, <1>2
  <2>2. CASE i # 1 /\ j # 1
    <3>1. i - 1 = j - 1
      BY <1>3, <2>2 DEF IsInjective
    <3> QED  BY <2>1, <3>1
  <2>3. CASE i = 1 /\ j # 1
    BY <1>2, <1>3, <2>3 DEF ToSet
  <2>4. CASE i # 1 /\ j = 1
    BY <1>2, <1>3, <2>4 DEF ToSet
  <2> QED  BY <2>2, <2>3, <2>4
<1> QED  BY <1>2, <1>5, <1>6

\* An inode that is not in core takes a slot.
LEMMA IgetMissStep ==
  ASSUME IInv, NEW p \in Procs, IgetMiss(p), UNCHANGED sysVars
  PROVE  IInv'
<1>s. PICK s : s = Head(freel)
  OBVIOUS
<1>e. PICK e : e = [inode[s] EXCEPT !.num = u[p].ino, !.lock = TRUE, !.want = FALSE,
                                    !.upd = FALSE, !.count = 1]
  OBVIOUS
<1> DEFINE r == [u[p] EXCEPT !.pc = "igetRead", !.ip = s, !.held = @ \cup {s}]
<1>1. /\ At(p, "iget") /\ Go(p, r) /\ cpu' \in {p, NoProc} /\ wchan' = wchan
      /\ UNCHANGED <<volVars, sysVars>> /\ freel' = Tail(freel)
      /\ s \in Slots /\ s \in ToSet(freel) /\ Tail(freel) \in Seq(Slots)
      /\ IsInjective(Tail(freel)) /\ ToSet(Tail(freel)) = ToSet(freel) \ {s}
      /\ inode' = [inode EXCEPT ![s] = e] /\ e \in InodeRec /\ inode[s].count = 0
      /\ e.num = u[p].ino /\ u[p].ino \in Inodes /\ e.count = 1 /\ e.lock
      /\ InCore(u[p].ino) = {}
  <2>1. At(p, "iget") /\ freel # <<>> /\ InCore(u[p].ino) = {}
    BY DEF IgetMiss
  <2>2. /\ s \in Slots /\ s \in ToSet(freel) /\ Tail(freel) \in Seq(Slots)
        /\ IsInjective(Tail(freel)) /\ ToSet(Tail(freel)) = ToSet(freel) \ {s}
    BY <1>s, <2>1, Taken DEF IInv, TypeOK, Slotted
  <2>3. inode[s] \in InodeRec /\ inode[s].count = 0
    BY <2>2, InodeType DEF IInv, Slotted
  <2>4. u[p].ino \in Inodes
    <3>1. u[p].pc = "iget" /\ Fits(u[p])
      BY <2>1, Here
    <3>2. "iget" \in Frames(u[p].pc, u[p].stk)
      BY <3>1 DEF Frames
    <3> QED  BY <3>1, <3>2 DEF Fits
  <2>5. inode' = [inode EXCEPT ![s] = [inode[s] EXCEPT !.num = u[p].ino, !.lock = TRUE,
                               !.want = FALSE, !.upd = FALSE, !.count = inode[s].count + 1]]
    BY <1>s DEF IgetMiss
  <2>6. inode' = [inode EXCEPT ![s] = e]
    BY <1>e, <2>3, <2>5
  <2>7. e \in InodeRec /\ e.num = u[p].ino /\ e.count = 1 /\ e.lock
    BY <1>e, <2>3, <2>4 DEF InodeRec
  <2>8. Go(p, r) /\ freel' = Tail(freel)
    BY <1>s DEF IgetMiss
  <2> QED  BY <2>1, <2>2, <2>3, <2>4, <2>6, <2>7, <2>8 DEF IgetMiss, MaySleep
<1>2. /\ u[p] \in Locals /\ u[p].pc = "iget" /\ Fits(u[p]) /\ cpu \in {p, NoProc}
      /\ "iget" \in Label /\ u[p].stk \in Seq(Label) /\ Chain("iget", u[p].stk)
  BY <1>1, Here
<1>3. /\ r \in Locals /\ r = [u[p] EXCEPT !.pc = "igetRead", !.ip = s, !.held = @ \cup {s}]
      /\ r.pc = "igetRead" /\ r.stk = u[p].stk
      /\ Chain("igetRead", u[p].stk) /\ Bottom("igetRead", u[p].stk) = Bottom("iget", u[p].stk)
      /\ Frames("igetRead", u[p].stk) \subseteq Frames("iget", u[p].stk) \cup {"igetRead"}
  <2>1. "igetRead" \in Label
    BY DEF Label
  <2>2. Callers("igetRead") = Callers("iget") /\ Callers("iget") # {}
    BY DEF Callers
  <2>3. u[p].stk # <<>>
    BY <1>2, <2>2 DEF Chain
  <2>4. /\ Chain("igetRead", u[p].stk) /\ Bottom("igetRead", u[p].stk) = Bottom("iget", u[p].stk)
        /\ Frames("igetRead", u[p].stk) \subseteq Frames("iget", u[p].stk) \cup {"igetRead"}
    BY <1>2, <2>1, <2>2, <2>3, Jump
  <2> QED  BY <1>1, <1>2, <2>1, <2>4 DEF Locals, Fits
<1> HIDE DEF r
<1>4. Fits(r)
  BY <1>1, <1>2, <1>3, SlotNotZero DEF Fits
<1>5. Alone(r) /\ ~Fresh(r) /\ r.ip = s
  BY <1>2, <1>3 DEF Alone, Fresh, Locals
<1>6. \A x \in Slots : x # s => Tally(r, file[p], x) <= Tally(u[p], file[p], x)
  BY <1>1, <1>2, <1>3, SlotNotZero DEF Tally
<1>7. Tally(r, file[p], s) <= Tally(u[p], file[p], s) + 1
  BY <1>1, <1>2, <1>3, SlotNotZero DEF Tally
<1>8. TypeOK'
  BY <1>1, <1>3 DEF IInv, TypeOK, Go, volVars, fsVars, sysVars, InodeRec
<1>9. Changes(p, r, file[p])
  BY <1>1 DEF IInv, TypeOK, Changes, Go, sysVars
<1>10. inode'[s] = e /\ \A x \in Slots : x # s => inode'[x] = inode[x]
  BY <1>1, InodeType
<1>11. Placed(p)'
  <2>1. u'[p] = r
    BY <1>9 DEF Changes, IInv, TypeOK
  <2> QED  BY <1>1, <1>4, <1>5, <1>10, <2>1 DEF Placed
<1>12. Slotted'
  <2>1. u[p].ino # 0 /\ \A x \in Slots : inode[x].num # u[p].ino
    BY <1>1 DEF InCore, Inodes, ROOTINO
  <2>2. \A x, y \in Slots : inode'[x].num = inode'[y].num /\ inode'[x].num # 0 => x = y
    BY <1>1, <1>10, <2>1 DEF IInv, Slotted
  <2>3. \A x \in Slots : x \in ToSet(freel') <=> inode'[x].num = 0
    BY <1>1, <1>10, <2>1 DEF IInv, Slotted
  <2>4. \A x \in Slots : inode'[x].num = 0 <=> inode'[x].count = 0
    BY <1>1, <1>10, <2>1 DEF IInv, Slotted
  <2>5. IsInjective(freel')
    BY <1>1
  <2> QED  BY <2>2, <2>3, <2>4, <2>5 DEF Slotted
<1>13. CountsKept(p, r, file[p])
  <2>1. \A x \in Slots : Tally(r, file[p], x) \in Nat /\ Tally(u[p], file[p], x) \in Nat
    BY TallyIsCount
  <2>2. \A x \in Slots : inode[x].count \in Nat
    BY DEF IInv, TypeOK
  <2>3. ASSUME NEW x \in Slots, x # s
        PROVE  /\ inode'[x].count - Tally(r, file[p], x) >= inode[x].count - Tally(u[p], file[p], x)
               /\ inode'[x].count = inode[x].count /\ inode'[x].lock = inode[x].lock
    <3>1. inode'[x] = inode[x] /\ Tally(r, file[p], x) <= Tally(u[p], file[p], x)
      BY <1>6, <1>10, <2>3
    <3> QED  BY <2>1, <2>2, <3>1
  <2>4. /\ inode'[s].count - Tally(r, file[p], s) >= inode[s].count - Tally(u[p], file[p], s)
        /\ inode[s].count # 1
    BY <1>1, <1>7, <1>10, <2>1
  <2> QED  BY <2>3, <2>4 DEF CountsKept
<1> QED  BY <1>2, <1>8, <1>9, <1>11, <1>12, <1>13, StepInv

\* The slot of the last reference is free.
LEMMA IputDoneStep ==
  ASSUME IInv, NEW p \in Procs, IputDone(p), UNCHANGED sysVars
  PROVE  IInv'
<1>s. PICK s : s = u[p].ip
  OBVIOUS
<1>e. PICK e : e = [inode[s] EXCEPT !.lock = FALSE, !.want = FALSE, !.num = 0,
                                    !.upd = FALSE, !.count = 0]
  OBVIOUS
<1> DEFINE r == Returning([u[p] EXCEPT !.held = @ \ {u[p].ip}])
<1>1. /\ At(p, "iputDone") /\ Go(p, r) /\ cpu' \in {p, NoProc}
      /\ wchan' \in [Procs -> Slots \cup {Awake, IlockChan}]
      /\ UNCHANGED <<volVars, sysVars>>
      /\ s \in Slots /\ freel' \in Seq(Slots)
      /\ IsInjective(freel') /\ ToSet(freel') = ToSet(freel) \cup {s}
      /\ inode' = [inode EXCEPT ![s] = e] /\ e \in InodeRec /\ inode[s].count = 1
      /\ e.num = 0 /\ e.count = 0
  <2>1. At(p, "iputDone")
    BY DEF IputDone
  <2>2. s \in Slots /\ inode[s].count = 1
    <3>1. Alone(u[p]) /\ HasIp(u[p])
      BY <2>1, Here DEF Alone
    <3> QED  BY <1>s, <3>1, PlacesInCore DEF IInv, Placed
  <2>3. inode[s] \in InodeRec
    BY <2>2, InodeType
  <2>4. inode' = [inode EXCEPT ![s] = [Released(inode[s]) EXCEPT !.num = 0, !.upd = FALSE,
                                                       !.count = Released(inode[s]).count - 1]]
    BY <1>s DEF IputDone
  <2>5. [Released(inode[s]) EXCEPT !.num = 0, !.upd = FALSE,
                                   !.count = Released(inode[s]).count - 1] = e
    <3>1. PICK d : d = Released(inode[s])
      OBVIOUS
    <3>2. d = [inode[s] EXCEPT !.lock = FALSE, !.want = FALSE]
      BY <3>1 DEF Released
    <3>6. d.count = 1
      BY <2>2, <2>3, <3>2 DEF InodeRec
    <3>3. d.count - 1 = 0
      BY <3>6
    <3>4. [d EXCEPT !.num = 0, !.upd = FALSE, !.count = d.count - 1]
            = [d EXCEPT !.num = 0, !.upd = FALSE, !.count = 0]
      BY <3>3
    <3>5. [d EXCEPT !.num = 0, !.upd = FALSE, !.count = 0] = e
      BY <1>e, <2>3, <3>2 DEF InodeRec
    <3> QED  BY <3>1, <3>4, <3>5
  <2>6. e \in InodeRec /\ e.num = 0 /\ e.count = 0
    BY <1>e, <2>3 DEF InodeRec
  <2>7. s \notin ToSet(freel)
    BY <2>2 DEF IInv, Slotted
  <2>8. Pushed(freel', s, freel)
    BY <1>s DEF IputDone, Pushed
  <2>9. freel' \in Seq(Slots) /\ IsInjective(freel') /\ ToSet(freel') = ToSet(freel) \cup {s}
    BY <2>2, <2>7, <2>8, PutBack DEF IInv, TypeOK, Slotted
  <2>10. wchan' \in [Procs -> Slots \cup {Awake, IlockChan}]
    BY <1>s, <2>2, PreleType DEF IputDone
  <2>11. Go(p, r) /\ cpu' = p /\ UNCHANGED volVars
    BY DEF IputDone
  <2> QED  BY <2>1, <2>2, <2>4, <2>5, <2>6, <2>9, <2>10, <2>11
<1>2. /\ u[p] \in Locals /\ u[p].pc = "iputDone" /\ Fits(u[p]) /\ cpu \in {p, NoProc}
      /\ "iputDone" \in Label /\ u[p].stk \in Seq(Label) /\ Chain("iputDone", u[p].stk)
  BY <1>1, Here
<1>0. PICK h, t : h = Head(u[p].stk) /\ t = Tail(u[p].stk)
  OBVIOUS
<1>3. /\ r \in Locals /\ r = [u[p] EXCEPT !.pc = h, !.stk = t, !.held = @ \ {u[p].ip}]
      /\ r.pc = h /\ r.stk = t /\ h \in {"done", "out", "made", "update", "pipeFails", "iget", "ialloc", "iallocLoop", "igetNull"} /\ h = u[p].stk[1]
      /\ Chain(h, t) /\ Bottom(h, t) = Bottom("iputDone", u[p].stk)
      /\ Frames(h, t) \subseteq Frames("iputDone", u[p].stk)
  <2>1. Callers("iputDone") = {"done", "out", "made", "update", "pipeFails", "iget", "ialloc", "iallocLoop", "igetNull"}
    BY DEF Callers
  <2>2. /\ h \in {"done", "out", "made", "update", "pipeFails", "iget", "ialloc", "iallocLoop", "igetNull"} /\ h \in Label /\ h = u[p].stk[1] /\ t \in Seq(Label)
        /\ Chain(h, t) /\ Bottom(h, t) = Bottom("iputDone", u[p].stk)
        /\ Frames(h, t) \subseteq Frames("iputDone", u[p].stk)
    BY <1>0, <1>2, <2>1, Return
  <2>3. r = [u[p] EXCEPT !.pc = h, !.stk = t, !.held = @ \ {u[p].ip}]
    BY <1>0, <1>2 DEF Returning, Fails, Locals
  <2> HIDE DEF r
  <2> QED  BY <1>1, <1>2, <2>2, <2>3 DEF Locals, Fits
<1> HIDE DEF r
<1>4. Fits(r)
  BY <1>1, <1>2, <1>3, SlotNotZero DEF Fits
<1>5. ~Alone(r) /\ ~Fresh(r)
  BY <1>3 DEF Alone, Fresh
<1>14. /\ ~HasIp(r) /\ HasIp(u[p]) /\ r.dp = u[p].dp /\ r.dip = u[p].dip /\ r.tgt = u[p].tgt
       /\ Bottom(r.pc, r.stk) = Bottom(u[p].pc, u[p].stk)
  BY <1>2, <1>3 DEF Locals
<1>6. \A x \in Slots : x # s => Tally(r, file[p], x) <= Tally(u[p], file[p], x)
  <2> HIDE DEF HasIp
  <2> QED  BY <1>s, <1>14 DEF Tally
<1>7. Tally(r, file[p], s) + 1 = Tally(u[p], file[p], s)
  <2> HIDE DEF HasIp
  <2> QED  BY <1>s, <1>14 DEF Tally
<1>8. TypeOK'
  BY <1>1, <1>3 DEF IInv, TypeOK, Go, volVars, fsVars, sysVars, InodeRec
<1>9. Changes(p, r, file[p])
  BY <1>1 DEF IInv, TypeOK, Changes, Go, sysVars
<1>10. inode'[s] = e /\ \A x \in Slots : x # s => inode'[x] = inode[x]
  BY <1>1, InodeType
<1>11. Placed(p)'
  <2>1. u'[p] = r
    BY <1>9 DEF Changes, IInv, TypeOK
  <2> QED  BY <1>4, <1>5, <2>1 DEF Placed
<1>12. Slotted'
  <2>2. \A x, y \in Slots : inode'[x].num = inode'[y].num /\ inode'[x].num # 0 => x = y
    BY <1>1, <1>10 DEF IInv, Slotted
  <2>3. \A x \in Slots : x \in ToSet(freel') <=> inode'[x].num = 0
    BY <1>1, <1>10 DEF IInv, Slotted
  <2>4. \A x \in Slots : inode'[x].num = 0 <=> inode'[x].count = 0
    BY <1>1, <1>10 DEF IInv, Slotted
  <2>5. IsInjective(freel')
    BY <1>1
  <2> QED  BY <2>2, <2>3, <2>4, <2>5 DEF Slotted
<1>13. CountsKept(p, r, file[p])
  <2>1. \A x \in Slots : Tally(r, file[p], x) \in Nat /\ Tally(u[p], file[p], x) \in Nat
    BY TallyIsCount
  <2>2. \A x \in Slots : inode[x].count \in Nat
    BY DEF IInv, TypeOK
  <2>3. ASSUME NEW x \in Slots, x # s
        PROVE  /\ inode'[x].count - Tally(r, file[p], x) >= inode[x].count - Tally(u[p], file[p], x)
               /\ inode'[x].count = inode[x].count /\ inode'[x].lock = inode[x].lock
    <3>1. inode'[x] = inode[x] /\ Tally(r, file[p], x) <= Tally(u[p], file[p], x)
      BY <1>6, <1>10, <2>3
    <3> QED  BY <2>1, <2>2, <3>1
  <2>4. /\ inode'[s].count - Tally(r, file[p], s) >= inode[s].count - Tally(u[p], file[p], s)
        /\ Tally(u[p], file[p], s) # 0
    BY <1>1, <1>7, <1>10, <2>1
  <2> QED  BY <2>3, <2>4 DEF CountsKept
<1> QED  BY <1>2, <1>8, <1>9, <1>11, <1>12, <1>13, StepInv

-----------------------------------------------------------------------------
(* The invariant                                                           *)

\* The counts of links of the volume at boot.
LEMMA LinksAtBoot ==
  ASSUME NEW i \in Inodes
  PROVE  Nlink0(i) \in Int
<1>1. IsFiniteSet(Inodes \X Names) /\ IsFiniteSet(Names)
  <2>1. IsFiniteSet(Inodes) /\ IsFiniteSet(Names)
    <3>1. MaxIno \in Int /\ ROOTINO \in Int
      BY TableAssumption DEF ROOTINO
    <3> QED  BY <3>1, FS_Interval, TableAssumption DEF Inodes
  <2> QED  BY <2>1, FS_Product
<1>2. IsFiniteSet(Entries(i, Dir0))
  <2>1. Entries(i, Dir0) \subseteq Inodes \X Names
    BY DEF Entries
  <2> QED  BY <1>1, <2>1, FS_Subset
<1>3. Cardinality(Entries(i, Dir0)) \in Nat
  BY <1>2, FS_CardinalityType
<1>4. PICK D : D = {n \in Names : Dir0[i][n] # 0 /\ Mode0[Dir0[i][n]] = "DIR"}
  OBVIOUS
<1>5. Cardinality(D) \in Nat
  <2>1. D \subseteq Names
    BY <1>4
  <2>2. IsFiniteSet(D)
    BY <1>1, <2>1, FS_Subset
  <2> QED  BY <2>2, FS_CardinalityType
<1>6. CASE Mode0[i] = "DIR"
  <2>1. Links(i, Dir0, Mode0) = Cardinality(Entries(i, Dir0)) + (1 + Cardinality(D))
    BY <1>4, <1>6 DEF Links
  <2> QED  BY <1>3, <1>5, <2>1 DEF Nlink0
<1>7. CASE Mode0[i] # "DIR"
  <2>1. Links(i, Dir0, Mode0) = Cardinality(Entries(i, Dir0)) + 0
    BY <1>7 DEF Links
  <2> QED  BY <1>3, <2>1 DEF Nlink0
<1> QED  BY <1>6, <1>7

\* The table after iinit.
LEMMA TableAtBoot ==
  ASSUME Init
  PROVE  /\ inode \in [Slots -> InodeRec]
         /\ \A s \in Slots : /\ inode[s].num = IF s = RootSlot THEN ROOTINO ELSE 0
                             /\ inode[s].count = IF s = RootSlot THEN 1 ELSE 0
<1>1. Unused \in InodeRec
  BY DEF Unused, InodeRec, Mode
<1>2. ROOTINO \in Inodes /\ ROOTINO # 0
  BY TableAssumption DEF Inodes, ROOTINO
<1>3. PICK n \in Int : n = Nlink0(ROOTINO)
  BY <1>2, LinksAtBoot
<1>4. PICK e : e = [Unused EXCEPT !.num = ROOTINO, !.count = 1, !.mode = "DIR", !.nlink = n]
  OBVIOUS
<1>5. e \in InodeRec /\ e.num = ROOTINO /\ e.count = 1
  BY <1>1, <1>2, <1>4 DEF InodeRec, Mode
<1>6. inode = [s \in Slots |-> IF s = RootSlot THEN e ELSE Unused]
  BY <1>3, <1>4 DEF Init
<1>7. Unused.num = 0 /\ Unused.count = 0
  BY DEF Unused
<1> QED  BY <1>1, <1>5, <1>6, <1>7

\* The other slots are free after ihinit.
LEMMA FreeAtBoot ==
  ASSUME Init
  PROVE  /\ freel \in Seq(Slots) /\ IsInjective(freel)
         /\ ToSet(freel) = Slots \ {RootSlot}
<1>1. NSlots \in Nat \ {0}
  BY TableAssumption
<1>2. freel = [k \in 1..NSlots - 1 |-> k + 1] /\ DOMAIN freel = 1..NSlots - 1
  BY DEF Init
<1>3. \A k \in 1..NSlots - 1 : freel[k] = k + 1 /\ k + 1 \in Slots /\ k + 1 # RootSlot /\ k \in Int
  BY <1>1, <1>2 DEF Slots, RootSlot
<1>4. freel \in Seq(Slots)
  <2>1. NSlots - 1 \in Nat
    BY <1>1
  <2> QED  BY <1>2, <1>3, <2>1
<1>5. IsInjective(freel)
  BY <1>2, <1>3 DEF IsInjective
<1>6. \A s \in Slots : s # RootSlot => s - 1 \in DOMAIN freel /\ (s - 1) + 1 = s
  BY <1>1, <1>2 DEF Slots, RootSlot
<1>7. ToSet(freel) = Slots \ {RootSlot}
  BY <1>2, <1>3, <1>6 DEF ToSet
<1> QED  BY <1>4, <1>5, <1>7

\* Nobody refers to anything at first.
LEMMA NoneAtBoot ==
  ASSUME Init
  PROVE  /\ \A p \in Procs : Placed(p)
         /\ \A s \in Slots : References(s) = {}
<1>1. \A p \in Procs : u[p] = Idle /\ file[p] = {}
  BY DEF Init
<1>2. Callers("user") = {}
  BY DEF Callers
<1>3. Chain("user", <<>>) /\ Bottom("user", <<>>) = "user" /\ Frames("user", <<>>) = {"user"}
  BY <1>2, BasePlace
<1>4. /\ Fits(Idle) /\ ~Alone(Idle) /\ ~Fresh(Idle)
      /\ ~HasIp(Idle) /\ ~HasDp(Idle) /\ ~HasDip(Idle) /\ Idle.tgt = 0
  BY <1>3, IdleType DEF Fits, Alone, Fresh
<1>5. \A p \in Procs : Placed(p)
  BY <1>1, <1>4 DEF Placed
<1>6. \A s \in Slots : References(s) = {}
  <2> HIDE DEF HasIp, HasDp, HasDip
  <2> QED  BY <1>1, <1>4, SlotNotZero DEF References, RefsOf, Refers
<1> QED  BY <1>5, <1>6

\* The machine comes up in the invariant, with the root directory in core.
LEMMA InitInv == Init => IInv
<1> SUFFICES ASSUME Init PROVE IInv
  OBVIOUS
<1>1. /\ inode \in [Slots -> InodeRec] /\ freel \in Seq(Slots) /\ IsInjective(freel)
      /\ \A s \in Slots : /\ inode[s].num = IF s = RootSlot THEN ROOTINO ELSE 0
                          /\ inode[s].count = IF s = RootSlot THEN 1 ELSE 0
      /\ ToSet(freel) = Slots \ {RootSlot}
  BY TableAtBoot, FreeAtBoot
<1>2. dino \in [Inodes -> Dinode]
  BY LinksAtBoot, VolumeAssumption DEF Init, Dinode
<1>3. dir \in [Inodes -> [Names -> Inodes \cup {0}]]
  BY VolumeAssumption DEF Init
<1>4. sinode \in Seq(Inodes) /\ silock \in Nat /\ lasti \in 1..LastBlock /\ nbehind \in Nat
  BY LastBlockNat DEF Init
<1>5. /\ cpu \in Procs \cup {NoProc} /\ wchan \in [Procs -> Slots \cup {Awake, IlockChan}]
      /\ u \in [Procs -> Locals] /\ file \in [Procs -> SUBSET Slots]
      /\ updlock \in BOOLEAN /\ left \in 0..Budget
  <2>1. u \in [Procs -> Locals]
    BY IdleType DEF Init
  <2>2. wchan \in [Procs -> Slots \cup {Awake, IlockChan}] /\ file \in [Procs -> SUBSET Slots]
    BY DEF Init
  <2>3. left \in 0..Budget /\ cpu \in Procs \cup {NoProc}
    <3>1. Budget \in Nat
      BY VolumeAssumption
    <3>2. left = Budget /\ cpu = NoProc
      BY DEF Init
    <3> QED  BY <3>1, <3>2
  <2>4. updlock \in BOOLEAN
    BY Zenon DEF Init
  <2> QED  BY <2>1, <2>2, <2>3, <2>4
<1>6. TypeOK
  BY <1>1, <1>2, <1>3, <1>4, <1>5 DEF TypeOK, InodeRec
<1>7. Slotted
  BY <1>1 DEF Slotted, ROOTINO
<1>8. Covered
  <2>1. Cardinality({}) = 0
    BY FS_EmptySet
  <2> SUFFICES ASSUME NEW s \in Slots
               PROVE  inode[s].count >= Root(s) + Cardinality(References(s))
    BY DEF Covered
  <2>2. Cardinality(References(s)) = 0
    BY <2>1, NoneAtBoot
  <2>3. inode[s].count = Root(s) /\ Root(s) \in {0, 1}
    BY <1>1 DEF Root
  <2> QED  BY <2>2, <2>3
<1> QED  BY <1>6, <1>7, <1>8, NoneAtBoot DEF IInv

\* A step of the routines of the inode table.
LEMMA TableStep == ASSUME IInv, NEW p \in Procs, Table(p) PROVE IInv'
<1>1. UNCHANGED sysVars
  BY DEF Table
<1>2. CASE PlockWait(p) \/ Plock(p)
  BY <1>1, <1>2, PlockWaitStep, PlockStep
<1>3. CASE IgetWait(p) \/ IgetHit(p) \/ IgetFull(p) \/ IgetMiss(p)
  BY <1>1, <1>3, IgetWaitStep, IgetHitStep, IgetFullStep, IgetMissStep
<1>4. CASE IgetRead(p) \/ IgetError(p) \/ IgetNull(p)
  BY <1>1, <1>4, IgetReadStep, IgetErrorStep, IgetNullStep
<1>5. CASE IputShared(p) \/ IputLast(p) \/ IputFree(p) \/ IputDone(p)
  BY <1>1, <1>5, IputSharedStep, IputLastStep, IputFreeStep, IputDoneStep
<1>6. CASE IupdatClean(p) \/ Iupdat(p) \/ IupdatWrite(p) \/ IupdatError(p)
  BY <1>1, <1>6, IupdatCleanStep, IupdatStep, IupdatWriteStep, IupdatErrorStep
<1>7. CASE ItruncSpecial(p) \/ Itrunc(p) \/ ItruncWrite(p) \/ ItruncError(p) \/ ItruncFree(p)
  BY <1>1, <1>7, ItruncSpecialStep, ItruncStep, ItruncWriteStep, ItruncErrorStep, ItruncFreeStep
<1>8. CASE IallocWait(p) \/ Ialloc(p) \/ IallocPop(p) \/ IallocGot(p) \/ IallocTaken(p)
  BY <1>1, <1>8, IallocWaitStep, IallocStep, IallocPopStep, IallocGotStep, IallocTakenStep
<1>9. CASE IallocSearch(p) \/ SearchBlock(p) \/ SearchError(p)
  BY <1>1, <1>9, IallocSearchStep, SearchBlockStep, SearchErrorStep
<1> QED  BY <1>2, <1>3, <1>4, <1>5, <1>6, <1>7, <1>8, <1>9 DEF Table

\* A step that enters the kernel.
LEMMA StartStep == ASSUME IInv, NEW p \in Procs, Start(p) PROVE IInv'
<1>1. CASE \E call \in {"open", "creat", "mknod", "unlink", "mkdir", "rmdir"},
              path \in Paths : CallNamei(p, call, path)
  BY <1>1, CallNameiStep
<1>2. CASE \E path, to \in Paths : CallLink(p, path, to)
  BY <1>2, CallLinkStep
<1>3. CASE \E s \in Slots : Close(p, s)
  BY <1>3, CloseStep
<1>4. CASE Pipe(p) \/ Sync(p)
  BY <1>4, PipeStep, SyncStep
<1> QED  BY <1>1, <1>2, <1>3, <1>4 DEF Start

\* A step of namei.
LEMMA DirectoryStep == ASSUME IInv, NEW p \in Procs, Directory(p) PROVE IInv'
<1>1. CASE NameiWait(p) \/ Namei(p) \/ DirFails(p)
  BY <1>1, NameiWaitStep, NameiStep, DirFailsStep
<1>2. CASE DirRemove(p)
  <2>1. u[p].call = "unlink" \/ u[p].call = "rmdir"
    BY <1>2 DEF DirRemove, Removes
  <2> QED  BY <1>2, <2>1, DirRemoveUnlinkStep, DirRemoveRmdirStep
<1>3. CASE DirDescend(p) \/ DirCreate(p) \/ DirLink(p) \/ Descended(p) \/ Out(p)
  BY <1>3, DirDescendStep, DirCreateStep, DirLinkStep, DescendedNoneStep, DescendedLastStep,
     DescendedStep, OutStep
<1>4. CASE CreateFails(p) \/ Create(p)
  BY <1>4, CreateFailsStep, CreateFileStep, CreateDirStep
<1>5. CASE EnterName(p) \/ EnterWrite(p)
  BY <1>5, EnterNameStep, EnterWriteStep
<1>6. CASE UnlinkFails(p) \/ Unlink(p) \/ UnlinkWrite(p)
  BY <1>6, UnlinkFailsStep, UnlinkNoneStep, UnlinkStep, UnlinkWriteStep
<1>7. CASE RmdirFails(p) \/ Rmdir(p) \/ RmdirWrite(p)
  BY <1>7, RmdirFailsStep, RmdirNoneStep, RmdirStep, RmdirFullStep, RmdirWriteStep
<1> QED  BY <1>1, <1>2, <1>3, <1>4, <1>5, <1>6, <1>7 DEF Directory

\* A step of the system calls with the inode they got.
LEMMA FilesStep == ASSUME IInv, NEW p \in Procs, Files(p) PROVE IInv'
<1>1. CASE NamedOpen(p) \/ NamedCreat(p) \/ NamedLink(p) \/ NamedFails(p)
  BY <1>1, NamedOpenStep, NamedCreatStep, NamedLinkStep, NamedFailsStep
<1>2. CASE MadeCreat(p) \/ MadeMknod(p) \/ MadeMkdir(p)
  BY <1>2, MadeCreatStep, MadeCreatFailsStep, MadeMknodStep, MadeMknodFailsStep, MadeMkdirStep
<1>3. CASE MkdirDots(p) \/ MkdirWrite(p) \/ Opened(p) \/ OpenFails(p)
  BY <1>3, MkdirDotsStep, MkdirWriteStep, OpenedStep, OpenFailsStep
<1>4. CASE Linked(p) \/ LinkWrite(p) \/ LinkDone(p)
  BY <1>4, LinkedStep, LinkWriteStep, LinkDoneStep
<1>5. CASE Pipend(p) \/ PipendFails(p) \/ PipeFails(p)
  BY <1>5, PipendStep, PipendFailsStep, PipeFailsStep, PipeFailsNoneStep
<1>6. CASE UpdateInode(p) \/ UpdateDone(p) \/ Done(p)
  BY <1>6, UpdateInodeStep, UpdateDoneStep, DoneStep
<1> QED  BY <1>1, <1>2, <1>3, <1>4, <1>5, <1>6 DEF Files

\* Nothing changes.
LEMMA Stutter == ASSUME IInv, UNCHANGED vars PROVE IInv'
<1>1. TypeOK'
  BY DEF IInv, TypeOK, vars
<1>2. Covered'
  BY DEF IInv, Covered, References, RefsOf, vars
<1>3. Slotted'
  BY DEF IInv, Slotted, vars
<1>4. \A p \in Procs : Placed(p)'
  BY DEF IInv, Placed, vars
<1> QED  BY <1>1, <1>2, <1>3, <1>4 DEF IInv

\* Every step of every process keeps the invariant.
LEMMA NextInv == IInv /\ [Next]_vars => IInv'
<1> SUFFICES ASSUME IInv, [Next]_vars PROVE IInv'
  OBVIOUS
<1>1. ASSUME NEW p \in Procs, Start(p) \/ Kernel(p) PROVE IInv'
  BY <1>1, StartStep, TableStep, DirectoryStep, FilesStep DEF Kernel
<1>2. CASE Rest \/ UNCHANGED vars
  BY <1>2, Stutter DEF Rest
<1> QED  BY <1>1, <1>2 DEF Next

\* An inode of the volume has at most one slot.
LEMMA OneSlot ==
  ASSUME IInv, NEW i \in Inodes
  PROVE  Cardinality(InCore(i)) <= 1
<1>1. i # 0
  BY DEF Inodes, ROOTINO
<1>2. \A s, t \in InCore(i) : s = t
  BY <1>1 DEF InCore, IInv, Slotted
<1>3. CASE InCore(i) = {}
  BY <1>3, FS_EmptySet
<1>4. CASE InCore(i) # {}
  <2>1. PICK s : s \in InCore(i)
    BY <1>4
  <2>2. InCore(i) = {s}
    BY <1>2, <2>1
  <2>3. Cardinality({s}) = 1
    BY FS_Singleton
  <2> QED  BY <2>2, <2>3
<1> QED  BY <1>3, <1>4

(* iget never loads an inode into a second slot, and a slot is on the free *)
(* list exactly when nobody refers to it, whatever sleeps between the     *)
(* search of the hash chain, the read and the calls of iput (iget.c).      *)
THEOREM UniqueInodes == Spec => []UniqueInode
<1>1. IInv => UniqueInode
  <2> SUFFICES ASSUME IInv PROVE UniqueInode
    OBVIOUS
  <2>1. \A i \in Inodes : Cardinality(InCore(i)) <= 1
    BY OneSlot
  <2> QED  BY <2>1 DEF UniqueInode, IInv, Slotted
<1> QED  BY <1>1, InitInv, NextInv, PTL DEF Spec

-----------------------------------------------------------------------------
(* Open files                                                              *)

\* The slot keeps its inode, and the inode its mode.
Kept(s) == inode'[s].num = inode[s].num /\ inode'[s].mode = inode[s].mode

\* An inode that is loaded or put back is in no open file.
LEMMA AloneNotOpen ==
  ASSUME IInv, NEW p \in Procs, Alone(u[p]), NEW q \in Procs
  PROVE  u[p].ip \in Slots /\ u[p].ip \notin file[q]
<1>1. HasIp(u[p]) /\ u[p].ip \in Slots
  BY AloneRefers, PlacesInCore
<1>2. inode[u[p].ip].count = 1
  BY DEF IInv, Placed
<1>3. inode[u[p].ip].count >= Root(u[p].ip) + Cardinality(References(u[p].ip))
  BY <1>1 DEF IInv, Covered
<1>4. Root(u[p].ip) \in {0, 1} /\ Cardinality(References(u[p].ip)) \in Nat
  BY RefsFinite DEF Root
<1>5. u[p].ip \in file[q] => Cardinality(References(u[p].ip)) >= 2
  <2> SUFFICES ASSUME u[p].ip \in file[q] PROVE Cardinality(References(u[p].ip)) >= 2
    OBVIOUS
  <2> HIDE DEF HasIp
  <2>1. {<<p, 1>>, <<q, 5>>} \subseteq References(u[p].ip)
    BY <1>1 DEF References, RefsOf, Refers
  <2>2. Cardinality({<<p, 1>>, <<q, 5>>}) = 2
    BY TwoElements, <<p, 1>> # <<q, 5>>
  <2>3. Cardinality({<<p, 1>>, <<q, 5>>}) <= Cardinality(References(u[p].ip))
    BY <2>1, RefsFinite, FS_Subset
  <2> QED  BY <2>2, <2>3
<1> QED  BY <1>1, <1>2, <1>3, <1>4, <1>5

\* An inode that ialloc has just returned is free.
LEMMA FreshIsFree ==
  ASSUME IInv, NEW p \in Procs, NEW l \in {"created", "pipend"}, At(p, l), u[p].ip # 0
  PROVE  u[p].ip \in Slots /\ inode[u[p].ip].mode = "FREE"
<1>1. u[p].pc = l /\ Fresh(u[p])
  BY DEF At, Fresh
<1>2. HasIp(u[p])
  BY <1>1
<1> QED  BY <1>1, <1>2, PlacesInCore DEF IInv, Placed

\* Another record in slot t, with the same number and mode.
LEMMA OtherFields ==
  ASSUME IInv, NEW s \in Slots, NEW t, NEW e, inode' = [inode EXCEPT ![t] = e],
         t = s => e.num = inode[s].num /\ e.mode = inode[s].mode
  PROVE  Kept(s)
<1>1. inode \in [Slots -> InodeRec]
  BY InodeType
<1> QED  BY <1>1 DEF Kept

\* The routines of the inode table keep an open file.
LEMMA TableKeeps ==
  ASSUME IInv, NEW p \in Procs, Table(p), NEW q \in Procs, NEW s \in file[q], s \in Slots
  PROVE  Kept(s)
<1>0. inode \in [Slots -> InodeRec] /\ inode[s] \in InodeRec
  BY InodeType
<1>1. inode[s].num \in Inodes /\ inode[s].count >= 1
  <2>1. Tally(u[q], file[q], s) # 0
    <3> HIDE DEF HasIp, HasDp, HasDip
    <3> QED  BY DEF Tally
  <2> QED  BY <2>1, ReferredInCore
<1>2. ASSUME NEW l, At(p, l), l \in {"igetRead", "iputFree", "iputDone"} PROVE s # u[p].ip
  <2>1. Alone(u[p])
    BY <1>2 DEF At, Alone
  <2> QED  BY <2>1, AloneNotOpen
<1>3. CASE PlockWait(p)
  BY <1>0, <1>3 DEF PlockWait, WaitForLock, Kept, InodeRec
<1>4. CASE Plock(p)
  BY <1>0, <1>4 DEF Plock, Kept, InodeRec
<1>5. CASE IgetWait(p)
  <2>1. PICK t \in InCore(u[p].ino) : WaitForLock(p, t)
    BY <1>5 DEF IgetWait
  <2> QED  BY <1>0, <2>1 DEF WaitForLock, Kept, InodeRec
<1>6. CASE IgetHit(p)
  <2>1. PICK t \in InCore(u[p].ino) :
               inode' = [inode EXCEPT ![t].lock = TRUE, ![t].count = @ + 1]
    BY <1>6 DEF IgetHit
  <2> QED  BY <1>0, <2>1 DEF Kept, InodeRec
<1>7. CASE IgetMiss(p)
  <2>1. s # Head(freel)
    <3>1. freel # <<>>
      BY <1>7 DEF IgetMiss
    <3>2. Head(freel) \in Slots /\ Head(freel) \in ToSet(freel)
      BY <3>1, Taken DEF IInv, TypeOK, Slotted
    <3>3. inode[Head(freel)].num = 0
      BY <3>2 DEF IInv, Slotted
    <3> QED  BY <1>1, <3>3 DEF Inodes, ROOTINO
  <2> QED  BY <1>0, <1>7, <2>1 DEF IgetMiss, Kept
<1>8. CASE IgetRead(p)
  <2>1. s # u[p].ip
    BY <1>8, <1>2 DEF IgetRead
  <2> QED  BY <1>0, <1>8, <2>1 DEF IgetRead, Kept
<1>9. CASE IputShared(p)
  <2>1. PICK e : e = [Released(inode[u[p].ip]) EXCEPT !.count = Released(inode[u[p].ip]).count - 1]
    OBVIOUS
  <2>2. inode' = [inode EXCEPT ![u[p].ip] = e]
    BY <1>9, <2>1 DEF IputShared
  <2>3. u[p].ip = s => e.num = inode[s].num /\ e.mode = inode[s].mode
    BY <1>0, <2>1 DEF Released, InodeRec
  <2> QED  BY <2>2, <2>3, OtherFields
<1>10. CASE IputLast(p)
  BY <1>0, <1>10 DEF IputLast, Kept, InodeRec
<1>11. CASE IputFree(p)
  <2>1. s # u[p].ip
    BY <1>11, <1>2 DEF IputFree
  <2> QED  BY <1>0, <1>11, <2>1 DEF IputFree, Kept
<1>12. CASE IputDone(p)
  <2>1. s # u[p].ip
    BY <1>12, <1>2 DEF IputDone
  <2>2. PICK e : inode' = [inode EXCEPT ![u[p].ip] = e]
    BY <1>12 DEF IputDone
  <2> QED  BY <2>1, <2>2, OtherFields
<1>13. CASE IupdatWrite(p)
  BY <1>0, <1>13 DEF IupdatWrite, Kept, InodeRec
<1>14. CASE ItruncFree(p)
  BY <1>0, <1>14 DEF ItruncFree, Kept, InodeRec
<1>15. CASE \/ IgetFull(p) \/ IgetError(p) \/ IgetNull(p)
          \/ IupdatClean(p) \/ Iupdat(p) \/ IupdatError(p)
  BY <1>15 DEF IgetFull, IgetError, IgetNull, IupdatClean, Iupdat, IupdatError, Kept
<1>16. CASE \/ ItruncSpecial(p) \/ Itrunc(p) \/ ItruncWrite(p)
          \/ ItruncError(p) \/ IallocWait(p) \/ Ialloc(p)
  BY <1>16 DEF ItruncSpecial, Itrunc, ItruncWrite, ItruncError, IallocWait, Ialloc, Kept
<1>17. CASE \/ IallocPop(p) \/ IallocGot(p) \/ IallocTaken(p)
          \/ IallocSearch(p) \/ SearchBlock(p) \/ SearchError(p)
  BY <1>17 DEF IallocPop, IallocGot, IallocTaken, IallocSearch, SearchBlock, SearchError, SearchOn, Kept
<1> QED  BY <1>3, <1>4, <1>5, <1>6, <1>7, <1>8, <1>9, <1>10, <1>11, <1>12, <1>13, <1>14, <1>15, <1>16, <1>17 DEF Table

\* Entering the kernel and namei do.
LEMMA DirectoryKeeps ==
  ASSUME IInv, NEW p \in Procs, Start(p) \/ Directory(p), NEW s \in Slots,
         inode[s].mode # "FREE"
  PROVE  Kept(s)
<1>0. inode \in [Slots -> InodeRec] /\ inode[s] \in InodeRec
  BY InodeType
<1>1. CASE Start(p)
  BY <1>1 DEF Start, CallNamei, CallLink, Close, Pipe, Sync, Enter, Kept
<1>2. CASE NameiWait(p)
  BY <1>0, <1>2 DEF NameiWait, WaitForLock, Kept, InodeRec
<1>3. CASE Namei(p)
  BY <1>0, <1>3 DEF Namei, Kept, InodeRec
<1>4. CASE Create(p)
  <2>1. At(p, "created") /\ u[p].ip # 0
    BY <1>4 DEF Create
  <2>2. s # u[p].ip
    BY <2>1, FreshIsFree
  <2>3. CASE u[p].call = "mkdir"
    BY <1>0, <1>4, <2>2, <2>3 DEF Create, Kept
  <2>4. CASE u[p].call # "mkdir"
    BY <1>0, <1>4, <2>2, <2>4 DEF Create, Kept
  <2> QED  BY <2>3, <2>4
<1>5. CASE EnterName(p)
  <2>1. CASE u[p].call = "mkdir"
    BY <1>0, <1>5, <2>1 DEF EnterName, Kept, InodeRec
  <2>2. CASE u[p].call # "mkdir"
    BY <1>5, <2>2 DEF EnterName, Kept
  <2> QED  BY <2>1, <2>2
<1>6. CASE EnterWrite(p)
  BY <1>0, <1>6 DEF EnterWrite, Kept, InodeRec
<1>7. CASE UnlinkWrite(p)
  <2>1. PICK h : h = [inode EXCEPT ![u[p].dp].upd = TRUE]
    OBVIOUS
  <2>2. h \in [Slots -> InodeRec] /\ h[s].num = inode[s].num /\ h[s].mode = inode[s].mode
    BY <1>0, <2>1 DEF InodeRec
  <2>3. inode' = [h EXCEPT ![u[p].dip].upd = TRUE, ![u[p].dip].nlink = @ - 1]
    BY <1>7, <2>1 DEF UnlinkWrite
  <2> QED  BY <2>2, <2>3 DEF Kept, InodeRec
<1>8. CASE Rmdir(p)
  <2>1. PICK h : h = [inode EXCEPT ![u[p].dp].nlink = IF @ > 0 THEN @ - 1 ELSE @]
    OBVIOUS
  <2>2. DOMAIN h = Slots /\ h[s].num = inode[s].num /\ h[s].mode = inode[s].mode
    BY <1>0, <2>1 DEF InodeRec
  <2>3. inode' = [h EXCEPT ![u[p].ip].nlink = IF @ <= 2 THEN 0 ELSE @]
    BY <1>8, <2>1 DEF Rmdir
  <2> QED  BY <2>2, <2>3 DEF Kept
<1>9. CASE RmdirWrite(p)
  <2>1. PICK h : h = [inode EXCEPT ![u[p].dp].upd = TRUE]
    OBVIOUS
  <2>2. h \in [Slots -> InodeRec] /\ h[s].num = inode[s].num /\ h[s].mode = inode[s].mode
    BY <1>0, <2>1 DEF InodeRec
  <2>3. inode' = [h EXCEPT ![u[p].dip].upd = TRUE]
    BY <1>9, <2>1 DEF RmdirWrite
  <2> QED  BY <2>2, <2>3 DEF Kept, InodeRec
<1>10. CASE \/ DirFails(p) \/ DirRemove(p) \/ DirDescend(p) \/ DirCreate(p) \/ DirLink(p)
          \/ Descended(p) \/ Out(p) \/ CreateFails(p)
  BY <1>10 DEF DirFails, DirRemove, DirDescend, DirCreate, DirLink, Descended, Out, CreateFails,
    OnlyLocals, Kept
<1>11. CASE UnlinkFails(p) \/ Unlink(p) \/ RmdirFails(p)
  BY <1>11 DEF UnlinkFails, Unlink, RmdirFails, OnlyLocals, Kept
<1> QED  BY <1>1, <1>2, <1>3, <1>4, <1>5, <1>6, <1>7, <1>8, <1>9, <1>10, <1>11 DEF Directory

\* The system calls do.
LEMMA FilesKeep ==
  ASSUME IInv, NEW p \in Procs, Files(p), NEW s \in Slots, inode[s].mode # "FREE"
  PROVE  Kept(s)
<1>0. inode \in [Slots -> InodeRec] /\ inode[s] \in InodeRec
  BY InodeType
<1>1. CASE NamedLink(p)
  BY <1>0, <1>1 DEF NamedLink, Kept, InodeRec
<1>2. CASE MkdirWrite(p)
  BY <1>0, <1>2 DEF MkdirWrite, Kept, InodeRec
<1>3. CASE Opened(p)
  <2>1. PICK e : e = Released(inode[u[p].dip])
    OBVIOUS
  <2>2. inode' = [inode EXCEPT ![u[p].dip] = e]
    BY <1>3, <2>1 DEF Opened
  <2>3. u[p].dip = s => e.num = inode[s].num /\ e.mode = inode[s].mode
    BY <1>0, <2>1 DEF Released, InodeRec
  <2> QED  BY <2>2, <2>3, OtherFields
<1>4. CASE OpenFails(p)
  <2>1. PICK e : e = Released(inode[u[p].dip])
    OBVIOUS
  <2>2. inode' = [inode EXCEPT ![u[p].dip] = e]
    BY <1>4, <2>1 DEF OpenFails
  <2>3. u[p].dip = s => e.num = inode[s].num /\ e.mode = inode[s].mode
    BY <1>0, <2>1 DEF Released, InodeRec
  <2> QED  BY <2>2, <2>3, OtherFields
<1>5. CASE Linked(p)
  <2>1. PICK e : e = Released(inode[u[p].dip])
    OBVIOUS
  <2>2. inode' = [inode EXCEPT ![u[p].dip] = e]
    BY <1>5, <2>1 DEF Linked
  <2>3. u[p].dip = s => e.num = inode[s].num /\ e.mode = inode[s].mode
    BY <1>0, <2>1 DEF Released, InodeRec
  <2> QED  BY <2>2, <2>3, OtherFields
<1>6. CASE LinkWrite(p)
  BY <1>0, <1>6 DEF LinkWrite, Kept, InodeRec
<1>7. CASE LinkDone(p)
  <2>1. CASE u[p].err
    BY <1>0, <1>7, <2>1 DEF LinkDone, Kept, InodeRec
  <2>2. CASE ~u[p].err
    BY <1>7, <2>2 DEF LinkDone, Kept
  <2> QED  BY <2>1, <2>2
<1>8. CASE Pipend(p)
  <2>1. At(p, "pipend") /\ ~u[p].err
    BY <1>8 DEF Pipend
  <2>2. u[p].ip # 0
    <3>1. Fits(u[p]) /\ u[p].pc = "pipend"
      BY <2>1, Here
    <3> QED  BY <2>1, <3>1 DEF Fits
  <2>3. s # u[p].ip
    BY <2>1, <2>2, FreshIsFree
  <2>4. PICK e : inode' = [inode EXCEPT ![u[p].ip] = e]
    BY <1>8 DEF Pipend
  <2> QED  BY <2>3, <2>4, OtherFields
<1>9. CASE PipendFails(p)
  <2>1. CASE u[p].ip = 0
    BY <1>9, <2>1 DEF PipendFails, Kept
  <2>2. CASE u[p].ip # 0
    <3>1. s # u[p].ip
      BY <1>9, <2>2, FreshIsFree DEF PipendFails
    <3> QED  BY <1>0, <1>9, <2>2, <3>1 DEF PipendFails, Kept
  <2> QED  BY <2>1, <2>2
<1>10. CASE UpdateInode(p)
  <2>1. PICK t \in u[p].blk + 1 .. NSlots :
               inode' = [inode EXCEPT ![t].lock = TRUE, ![t].count = @ + 1]
    BY <1>10 DEF UpdateInode
  <2> QED  BY <1>0, <2>1 DEF Kept, InodeRec
<1>11. CASE \/ NamedOpen(p) \/ NamedCreat(p) \/ NamedFails(p) \/ MadeCreat(p) \/ MadeMknod(p)
          \/ MadeMkdir(p) \/ MkdirDots(p)
  BY <1>11 DEF NamedOpen, NamedCreat, NamedFails, MadeCreat, MadeMknod, MadeMkdir, MkdirDots,
    OnlyLocals, Kept
<1>12. CASE PipeFails(p) \/ UpdateDone(p) \/ Done(p)
  BY <1>12 DEF PipeFails, UpdateDone, Done, OnlyLocals, Kept
<1> QED  BY <1>1, <1>2, <1>3, <1>4, <1>5, <1>6, <1>7, <1>8, <1>9, <1>10, <1>11, <1>12 DEF Files

(* An open file stays the inode that was opened: unlink, creat, rmdir and   *)
(* the reuse of slots and inode numbers by other processes never change    *)
(* the number or the type of what a file refers to (unlink(2), iget.c).     *)
THEOREM OpenFilesKept == Spec => OpenFileKept
<1> DEFINE Files2 == \A p \in Procs : \A s \in file[p] :
             inode[s].mode # "FREE" /\ s \in file'[p]
               => inode'[s].num = inode[s].num /\ inode'[s].mode = inode[s].mode
<1>1. IInv /\ [Next]_vars => [Files2]_vars
  <2> SUFFICES ASSUME IInv, Next, NEW q \in Procs, NEW s \in file[q], inode[s].mode # "FREE"
               PROVE  Kept(s)
    BY DEF Kept
  <2>1. s \in Slots
    BY DEF IInv, TypeOK
  <2>2. ASSUME NEW p \in Procs, Start(p) \/ Kernel(p) PROVE Kept(s)
    BY <2>1, <2>2, TableKeeps, DirectoryKeeps, FilesKeep DEF Kernel
  <2>3. CASE Rest
    BY <2>3 DEF Rest, vars, Kept
  <2> QED  BY <2>2, <2>3 DEF Next
<1> QED  BY <1>1, InitInv, NextInv, PTL DEF Spec, OpenFileKept

=============================================================================
